----------------------------- MODULE ControlRun -----------------------------
(***************************************************************************)
(* CodexControl::run (core/src/lib.rs) around one transport: the initial   *)
(* reconciliation, the task that watches Health and reopens the action     *)
(* gate after a reconnect, the application's operation that makes the      *)
(* requests, and Handle::shutdown when the operation returns.              *)
(*                                                                         *)
(* A reconciliation is two steps, the thread/list pages that must succeed  *)
(* and the thread/read calls after them, whose failures it ignores; its    *)
(* own requests are part of those steps.  Reqs are the requests of the     *)
(* operation and, for Unsubscribes, of unsubscribe_all_best_effort.        *)
(***************************************************************************)
EXTENDS Transport

CONSTANT Unsubscribes   \* thread/unsubscribe requests, made by shutdown

ASSUME UnsubscribesAssumption == Unsubscribes \subseteq Reqs \ Actions

VARIABLES
  runner,      \* run up to the operation, then the reconnect task
  started,     \* the operation has been called
  unseen,      \* Health was published since the watcher last saw it
  listedOn,    \* connection that answered the current thread/list, or 0
  reconciled,  \* connections a whole reconciliation has run against
  shutting     \* shutdown_tx holds true

runVars == <<runner, started, unseen, listedOn, reconciled, shutting>>
allVars == <<vars, runVars>>

RunTypeOK ==
  /\ TypeOK
  /\ runner \in {"listing", "reading", "marking", "watching", "testing",
                 "retrying", "off"}
  /\ started \in BOOLEAN
  /\ unseen \in BOOLEAN
  /\ listedOn \in 0..MaxConns
  /\ reconciled \subseteq 1..MaxConns
  /\ shutting \in BOOLEAN

RunInit ==
  /\ Init
  /\ runner = "listing"
  /\ started = FALSE
  /\ unseen = TRUE
  /\ listedOn = 0
  /\ reconciled = {}
  /\ shutting = FALSE

\* Every change of phase and every frame publishes Health.
Published == phase' # phase \/ ingress' > ingress

TransportRuns ==
  /\ LoopStep \/ MarkEnqueue
     \/ TakeIngress \/ (\E r \in Reqs, v \in {"Ok", "Rejected"} :
                          DaemonHandles(r, v))
  /\ unseen' = (unseen \/ Published)
  /\ UNCHANGED <<runner, started, listedOn, reconciled, shutting>>

\* The operation's calls, and the unsubscribes of its shutdown.
Requests ==
  /\ \E r \in Reqs :
       \/ /\ Call(r)
          /\ started
          /\ r \in Unsubscribes => shutting /\ stop = "idle"
       \/ Enqueue(r) \/ SendFails(r) \/ Answered(r) \/ TimesOut(r)
  /\ UNCHANGED runVars

-----------------------------------------------------------------------------
(* Reconciliation, initial or after a reconnect.                           *)

Listed ==
  /\ runner = "listing"
  /\ Live
  /\ listedOn' = conn
  /\ runner' = "reading"
  /\ UNCHANGED <<vars, started, unseen, reconciled, shutting>>

\* Reads that fail are skipped: reconcile returns Ok all the same, but only
\* a connection that served all of it counts as reconciled.
ReconcileOk ==
  /\ runner = "reading"
  /\ reconciled' = IF Live /\ conn = listedOn THEN reconciled \cup {conn}
                                              ELSE reconciled
  /\ runner' = "marking"
  /\ MarkStore
  /\ UNCHANGED <<started, unseen, listedOn, shutting>>

\* thread/list failed, or skills could not be reapplied.  The first time
\* run shuts the transport down and returns; later the task tries again.
ReconcileFails ==
  /\ runner \in {"listing", "reading"}
  /\ IF started THEN runner' = "retrying" /\ UNCHANGED vars
                ELSE runner = "listing" /\ runner' = "off" /\ StopCall
  /\ UNCHANGED <<started, unseen, listedOn, reconciled, shutting>>

\* mark_reconciled returned.  The first time this starts the operation (the
\* loop cannot have stopped yet); later its error is ignored.
Marked ==
  /\ runner = "marking"
  /\ \/ mark = "idle" /\ UNCHANGED vars
     \/ MarkFails
  /\ runner' = "watching"
  /\ started' = TRUE
  /\ UNCHANGED <<unseen, listedOn, reconciled, shutting>>

-----------------------------------------------------------------------------
(* The reconnect task.                                                     *)

Watch ==
  /\ runner = "watching"
  /\ \/ /\ shutting
        /\ runner' = "off"
        /\ UNCHANGED unseen
     \/ /\ unseen
        /\ unseen' = FALSE
        /\ runner' = "testing"
  /\ UNCHANGED <<vars, started, listedOn, reconciled, shutting>>

\* The head of its while loop, and the if around it.
Test ==
  /\ runner = "testing"
  /\ runner' = IF phase = "Reconciling" /\ ~ready THEN "listing" ELSE "watching"
  /\ UNCHANGED <<vars, started, unseen, listedOn, reconciled, shutting>>

\* Mutant of Retry: one attempt per change of Health.
RetryGivesUp ==
  /\ runner = "retrying"
  /\ runner' = IF shutting THEN "off" ELSE "watching"
  /\ UNCHANGED <<vars, started, unseen, listedOn, reconciled, shutting>>

Retry ==
  /\ runner = "retrying"
  /\ \/ shutting /\ runner' = "off"
     \/ runner' = "testing"
  /\ UNCHANGED <<vars, started, unseen, listedOn, reconciled, shutting>>

-----------------------------------------------------------------------------
(* Handle::shutdown: the flag, the unsubscribes, transport.shutdown.       *)

ShutdownBegins ==
  /\ started
  /\ ~shutting
  /\ shutting' = TRUE
  /\ UNCHANGED <<vars, runner, started, unseen, listedOn, reconciled>>

\* Mutant of IngressStops: the task may end before it is told to.
IngressStopsEarly ==
  /\ CloseIngress
  /\ UNCHANGED runVars

\* The ingress task sees the flag and drops its receiver.
IngressStops ==
  /\ shutting
  /\ CloseIngress
  /\ UNCHANGED runVars

ShutdownEnds ==
  /\ \/ /\ shutting
        /\ \A r \in Unsubscribes : call[r] = "returned"
        /\ StopCall
     \/ StopEnqueue
     \/ StopFails
  /\ UNCHANGED runVars

RunNext ==
  \/ TransportRuns \/ Requests
  \/ Listed \/ ReconcileOk \/ ReconcileFails \/ Marked
  \/ Watch \/ Test \/ Retry
  \/ ShutdownBegins \/ IngressStops \/ ShutdownEnds

RunSpec == RunInit /\ [][RunNext]_allVars

-----------------------------------------------------------------------------

\* core/src/lib.rs:346, "A reconnect cannot reopen action traffic until
\* discovery/reconciliation has run against that new connection", and README,
\* "Action traffic remains gated until post-reconnect reconciliation
\* completes", said of the frames that reach the daemon.
ActionsFollowReconciliation ==
  \A r \in Actions : writes[r] > 0 => wroteOn[r] \in reconciled

\* core/src/lib.rs:344: when run marks its first reconciliation the loop hears
\* of it, on whatever connection; nothing that ends the loop can have happened,
\* so run does not return here with its transport left behind.
FirstMarkHeard == runner = "marking" /\ ~started => loop # "stopped"

\* Connecting ends: connect is under a timeout, and so is each frame that
\* initialize waits for; what initialize writes is not.  A daemon could send
\* it other frames for ever; one that talks is taken to answer.
ConnectionAttempted ==
  /\ ~InWrite
  /\ \/ ConnectOk \/ ConnectFails \/ InitializeAnswered \/ BackoffElapses
     \/ Disconnected
  /\ TransportRuns

\* What the loop and the ingress task do without waiting for the daemon.
LoopServes ==
  /\ Ingest \/ IngressClosed \/ QueueClosed \/ TakeIngress
  /\ TransportRuns

\* The loop takes what is queued.  The writing of it is another matter.
QueueServed ==
  /\ TakeCommand \/ RejectWhileDisconnected \/ StopWhileDisconnected
  /\ TransportRuns

\* Each of these happens a bounded number of times, so none starves another.
CallersRun == Requests \/ ShutdownEnds \/ (MarkEnqueue /\ TransportRuns)

\* The tasks of the library run, and select! picks among ready branches at
\* random.  A live connection may still be silent, or be lost, for ever, or
\* hang in a write: WriteEnds, InitializeWritten and SocketClosed are under no
\* fairness.  But a daemon asked for its threads again and again on one that
\* stays answers and takes the skill roots.  (One stuck in a write for ever
\* cannot; both properties below leave it aside, by WritesEnd.)
RunFairness ==
  /\ WF_allVars(ConnectionAttempted)
  /\ WF_allVars(LoopServes)
  /\ SF_allVars(QueueServed)
  /\ SF_allVars(CallersRun)
  /\ WF_allVars(Watch \/ Test \/ Retry \/ Marked)
  /\ SF_allVars(Listed)
  /\ SF_allVars(ReconcileOk)

FairRunSpec == RunSpec /\ RunFairness

\* The peer goes on reading: socket.send and socket.close, which the code
\* awaits with no timeout, do not wait for ever.  The code cannot see to it.
WritesEnd == []<>~InWrite

\* A connection that stays up, and goes on reading, gets its gate opened for
\* good, unless the process shuts down: whatever the reconnect task is doing
\* when the loop publishes Health, it does not miss the reconnect.
GateReopens ==
  WritesEnd => (<>[](Live /\ started /\ ~shutting) => <>[]ready)

\* Handle::shutdown returns if the peer goes on reading, whatever state the
\* connection is in otherwise, even if the daemon never answers anything, and
\* whatever happened to the ingress queue before transport.shutdown.
ShutdownReturns == WritesEnd => (shutting ~> stop = "returned")
=============================================================================
