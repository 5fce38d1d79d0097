------------------------------ MODULE Ingestion ------------------------------
(***************************************************************************)
(* ThreadIngestor (ingest/src/lib.rs) and the reducer's snapshot of        *)
(* threads (reducer/src/lib.rs), between a daemon whose threads live on    *)
(* and a connection that can be lost.                                      *)
(*                                                                         *)
(* A thread is its version: 0 before it exists, then 1 when it has been    *)
(* created, and one more with each turn that starts (even) or ends (odd).  *)
(* The id of a turn is the version that started it.  The daemon tells      *)
(* every connection of a change of status, and those subscribed to the     *)
(* thread of the turn too; both are one message here.  The ingress task    *)
(* applies messages in order and spawns handle_signal; Tasks are those     *)
(* spawned tasks and observe_thread's callers, Reconciler is the task that *)
(* runs reconcile and then calls mark_reconciled, whose mark may be taken  *)
(* on a later connection.  A thread/resume whose answer is lost has been   *)
(* executed by the time its caller gives up, or never is.                  *)
(*                                                                         *)
(* Left out: statuses beyond active, release_if_idle (nothing in core      *)
(* calls it), the anchor (EventStore), the pages of the list               *)
(* (ThreadListing), the unsubscribes of shutdown (ControlRun).             *)
(***************************************************************************)
EXTENDS Naturals, FiniteSets, Sequences

CONSTANTS
  Threads,
  Tasks,             \* callers of discover besides the reconciler
  Reconciler,
  SubscriptionCap,   \* config.subscription_cap
  Others,            \* retained entries there may be of threads not modelled
  ResumeRetryLimit,  \* config.resume_retry_limit
  NoThread,          \* the thread of a caller that has none
  MaxVersion,        \* bound on a thread's versions
  MaxWire,           \* bound on messages sent and not yet applied
  MaxConns           \* bound on connections

ASSUME IngestionAssumption ==
  /\ Reconciler \notin Tasks
  /\ NoThread \notin Threads
  /\ {SubscriptionCap, Others} \subseteq Nat
  /\ ResumeRetryLimit \in Nat \ {0}
  /\ MaxVersion \in Nat
  /\ MaxWire \in Nat
  /\ MaxConns \in Nat \ {0}

VARIABLES
  version,     \* the daemon's threads
  live,        \* threads the daemon has subscribed this connection to
  conn, up,    \* the connection's number, and whether there is one
  wire,        \* messages on their way to the ingress task
  signals,     \* threads handle_signal has been spawned for
  states,      \* ThreadIngestor::states
  call,        \* what each caller is doing, on which thread
  changed,     \* threads updated since the watermark
  todo,        \* candidates of the reconciliation under way
  due,         \* the connection is Reconciling: core runs reconcile
  snapshot,    \* Reducer::snapshot
  subscribing, \* Reducer's pending relevance
  newest,      \* history: newest version the reducer has been told of
  doubt,       \* history: why the reducer may be wrong of a thread
  orphans,     \* history: subscribed on an earlier connection only
  missed,      \* history: candidates whose read failed
  listedOn,    \* history: the connection of the latest list
  overlooked   \* history: changed since a list that opened a later gate

daemonVars == <<version, live, conn, up, wire>>
gate == <<due, listedOn, overlooked>>
ingestVars == <<signals, states, call, changed, todo, gate>>
reducerVars == <<snapshot, subscribing>>
history == <<newest, doubt, orphans, missed>>
vars == <<daemonVars, ingestVars, reducerVars, history>>

Callers == Tasks \cup {Reconciler}
Versions == 0..MaxVersion

Active(v) == v > 0 /\ v % 2 = 0
TurnOf(v) == IF Active(v) THEN v ELSE 0

State == {"Unseen", "Subscribing", "Subscribed", "RetryWait", "Ephemeral",
          "CapacityDegraded", "Failed"}
Retained == {"Subscribing", "Subscribed", "RetryWait"}
Managed == {t \in Threads : states[t] \in Retained}

Entry == [present: BOOLEAN, subscribed: BOOLEAN, turn: Versions]
Absent == [present |-> FALSE, subscribed |-> FALSE, turn |-> 0]
Upserted(t) == [snapshot[t] EXCEPT !.present = TRUE]

\* discover, from its entry in states to its last request.
Subscribes == {"begin", "resume", "granted", "wait", "retain"}
Discovers == Subscribes \cup {"cancel", "read", "answered"}
Reconciles == {"next", "probe", "probed", "discover", "marking"}

TypeOK ==
  /\ version \in [Threads -> Versions]
  /\ live \subseteq Threads
  /\ conn \in 1..MaxConns
  /\ up \in BOOLEAN
  /\ wire \in Seq([thread: Threads, version: Versions, told: BOOLEAN,
                    on: 1..MaxConns])
  /\ Len(wire) <= MaxWire
  /\ signals \subseteq Threads
  /\ states \in [Threads -> State]
  /\ Cardinality(Managed) <= SubscriptionCap
  /\ call \in [Callers -> [at: Discovers \cup Reconciles \cup {"idle"},
                           thread: Threads \cup {NoThread}, attempt: 1..ResumeRetryLimit,
                           answer: Versions]]
  /\ changed \cup todo \subseteq Threads
  /\ due \in BOOLEAN
  /\ listedOn \in 0..conn
  /\ overlooked \subseteq changed
  /\ snapshot \in [Threads -> Entry]
  /\ subscribing \subseteq Threads
  /\ newest \in [Threads -> Versions]
  /\ doubt \in [Threads -> {"none", "stale", "unread"}]
  /\ orphans \cup missed \subseteq Threads

\* A caller that holds no thread.
At(place) == [at |-> place, thread |-> NoThread, attempt |-> 1, answer |-> 0]

\* Threads may be idle or active before the library connects.
Init ==
  /\ version \in [Threads -> {v \in Versions : v <= 2}]
  /\ live = {}
  /\ conn = 1
  /\ up = TRUE
  /\ wire = <<>>
  /\ signals = {}
  /\ states = [t \in Threads |-> "Unseen"]
  /\ call = [c \in Callers |-> At("idle")]
  /\ changed = {t \in Threads : version[t] > 0}
  /\ todo = {}
  /\ due = TRUE
  /\ snapshot = [t \in Threads |-> Absent]
  /\ subscribing = {}
  /\ newest = [t \in Threads |-> 0]
  /\ doubt = [t \in Threads |-> "none"]
  /\ orphans = {}
  /\ missed = {}
  /\ listedOn = 0
  /\ overlooked = {}

-----------------------------------------------------------------------------
(* The daemon and the connection.                                          *)

\* A thread is created, starts a turn or ends it.
Moves(t) ==
  /\ version[t] < MaxVersion
  /\ version' = [version EXCEPT ![t] = @ + 1]
  /\ IF up
     THEN /\ Len(wire) < MaxWire
          /\ wire' = Append(wire, [thread |-> t, version |-> version[t] + 1,
                                   told |-> t \in live, on |-> conn])
     ELSE wire' = wire
  /\ changed' = changed \cup {t}
  /\ missed' = missed \ {t}
  /\ overlooked' = overlooked \ {t}
  /\ UNCHANGED <<live, conn, up, signals, states, call, todo, due, listedOn,
                 reducerVars, newest, doubt, orphans>>

\* The connection is lost, with the messages still in the socket; those in
\* the ingress queue stay.
Disconnect ==
  /\ up
  /\ up' = FALSE
  /\ live' = {}
  /\ orphans' = orphans \cup live
  /\ \E n \in 0..Len(wire) : wire' = SubSeq(wire, 1, n)
  /\ UNCHANGED <<version, conn, ingestVars, reducerVars, newest, doubt, missed>>

\* A new one, Reconciling until mark_reconciled is taken on it.
Connect ==
  /\ ~up
  /\ conn < MaxConns
  /\ conn' = conn + 1
  /\ up' = TRUE
  /\ due' = TRUE
  /\ UNCHANGED <<version, live, wire, signals, states, call, changed, todo,
                 listedOn, overlooked, reducerVars, history>>

-----------------------------------------------------------------------------
(* The reducer.                                                            *)

Prunable(e) == ~e.subscribed /\ e.turn = 0

\* The entry of thread t after the status change and, if told, the turn
\* event of version v.
Applied(t, v, told) ==
  [Upserted(t) EXCEPT !.turn =
     IF told /\ Active(v) THEN v
     ELSE IF told /\ @ = v - 1 THEN 0
     ELSE @]

\* Whether the reducer is in doubt of a thread once it has applied version v:
\* stale after one it had gone past, sure after a read made once subscribed
\* or, on the present connection, the start of a turn or the end of the turn
\* it knew.
DoubtAfter(t, v, sure) ==
  IF v < newest[t] THEN "stale" ELSE IF sure THEN "none" ELSE doubt[t]

Learns(t, v, sure) ==
  /\ doubt' = [doubt EXCEPT ![t] = DoubtAfter(t, v, sure)]
  /\ newest' = [newest EXCEPT ![t] = IF v > @ THEN v ELSE @]

\* Mutant of Signalled: creation alone, which resumed conversations lack.
SignalledIfCreated(v) == v = 1

\* thread/started, or a status that is active.
Signalled(v) == v = 1 \/ Active(v)

\* Reducer::apply on the ingress task; core spawns handle_signal, which
\* discovers if the message is a signal.
ApplyMessage ==
  /\ wire # <<>>
  /\ LET m == Head(wire)
         t == m.thread
         e == Applied(t, m.version, m.told)
     IN  /\ snapshot' = [snapshot EXCEPT ![t] =
              IF t \notin subscribing /\ Prunable(e) THEN Absent ELSE e]
         /\ signals' = IF Signalled(m.version)
                       THEN signals \cup {t} ELSE signals
         /\ IF m.told
            THEN Learns(t, m.version, m.on = conn /\
                          (Active(m.version) \/ snapshot[t].turn = m.version - 1))
            ELSE UNCHANGED <<newest, doubt>>
  /\ wire' = Tail(wire)
  /\ UNCHANGED <<version, live, conn, up, states, call, changed, todo, gate,
                 subscribing, orphans, missed>>

\* Reducer::reconcile_thread with what thread/read answered.
ReconcileThread(t, v, sure) ==
  /\ snapshot' = [snapshot EXCEPT ![t] =
       [present |-> TRUE, subscribed |-> @.subscribed, turn |-> TurnOf(v)]]
  /\ Learns(t, v, sure)

-----------------------------------------------------------------------------
(* ThreadIngestor::discover.                                               *)

\* Where a call goes from here; the reconciler returns to its candidates.
Step(c, at) == call' = [call EXCEPT ![c].at = at]
Returns(c) ==
  call' = [call EXCEPT ![c] = At(IF c = Reconciler THEN "next" ELSE "idle")]
Becomes(t, s) == states' = [states EXCEPT ![t] = s]

\* Mutant of Claimed: a thread that waits for its retry is free to claim.
ClaimedUnlessWaiting(t) == states[t] \in {"Subscribing", "Subscribed"}

Claimed(t) == states[t] \in Retained

\* The guards and the claim, under the lock of states.  Entries of other
\* threads come and go, up to Others of them.
Discover(c, t) ==
  \/ /\ Claimed(t)
     /\ Returns(c)
     /\ UNCHANGED states
  \/ /\ ~Claimed(t)
     /\ Cardinality(Managed) + Others >= SubscriptionCap
     /\ Becomes(t, "CapacityDegraded")
     /\ Returns(c)
  \/ /\ ~Claimed(t)
     /\ Cardinality(Managed) < SubscriptionCap
     /\ Becomes(t, "Subscribing")
     /\ call' = [call EXCEPT ![c] = [At("begin") EXCEPT !.thread = t]]

\* A spawned handle_signal starts.
HandleSignal(c) ==
  /\ call[c].at = "idle"
  /\ c # Reconciler
  /\ \E t \in signals : Discover(c, t) /\ signals' = signals \ {t}
  /\ UNCHANGED <<daemonVars, changed, todo, gate, reducerVars, history>>

\* The application calls observe_thread, on a thread it has seen listed.
Observe(c) ==
  /\ call[c].at = "idle"
  /\ c # Reconciler
  /\ \E t \in Threads : version[t] > 0 /\ Discover(c, t)
  /\ UNCHANGED <<daemonVars, signals, changed, todo, gate, reducerVars, history>>

BeginSubscription(c) ==
  /\ call[c].at = "begin"
  /\ subscribing' = subscribing \cup {call[c].thread}
  /\ snapshot' = [snapshot EXCEPT ![call[c].thread] = Upserted(call[c].thread)]
  /\ Step(c, "resume")
  /\ UNCHANGED <<daemonVars, signals, states, changed, todo, gate, history>>

\* The daemon executes thread/resume.
ResumeGranted(c) ==
  /\ call[c].at = "resume"
  /\ up
  /\ live' = live \cup {call[c].thread}
  /\ orphans' = orphans \ {call[c].thread}
  /\ Step(c, "granted")
  /\ UNCHANGED <<version, conn, up, wire, signals, states, changed, todo, gate,
                 reducerVars, newest, doubt, missed>>

\* Mutant of ResumeRetried: the budget is not looked at.
ResumeRetriedAlways(c) ==
  /\ call[c].at = "resume"
  /\ Becomes(call[c].thread, "RetryWait")
  /\ call' = [call EXCEPT ![c].at = "wait", ![c].attempt = @ + 1]
  /\ UNCHANGED <<daemonVars, signals, changed, todo, gate, reducerVars, history>>

\* NotWritten, an overloaded daemon, or no rollout yet: RetryWait.
ResumeRetried(c) ==
  /\ call[c].at = "resume"
  /\ call[c].attempt < ResumeRetryLimit
  /\ Becomes(call[c].thread, "RetryWait")
  /\ call' = [call EXCEPT ![c].at = "wait", ![c].attempt = @ + 1]
  /\ UNCHANGED <<daemonVars, signals, changed, todo, gate, reducerVars, history>>

RetryElapses(c) ==
  /\ call[c].at = "wait"
  /\ Becomes(call[c].thread, "Subscribing")
  /\ Step(c, "resume")
  /\ UNCHANGED <<daemonVars, signals, changed, todo, gate, reducerVars, history>>

\* Refused for good, out of attempts, or no answer.
ResumeFails(c) ==
  /\ \/ /\ call[c].at \in {"resume", "granted"}
        /\ Becomes(call[c].thread, "Failed")
     \/ /\ call[c].at = "resume"
        /\ call[c].attempt = ResumeRetryLimit
        /\ Becomes(call[c].thread, "Ephemeral")
  /\ Step(c, "cancel")
  /\ UNCHANGED <<daemonVars, signals, changed, todo, gate, reducerVars, history>>

\* Reducer::cancel_subscription, after the failure is in states.
CancelSubscription(c) ==
  /\ call[c].at = "cancel"
  /\ subscribing' = subscribing \ {call[c].thread}
  /\ snapshot' = [snapshot EXCEPT ![call[c].thread] =
       IF Prunable(@) THEN Absent ELSE @]
  /\ Returns(c)
  /\ UNCHANGED <<daemonVars, signals, states, changed, todo, gate, history>>

\* Mutant of Promoted: only an entry that is still there is promoted.
PromotedIfPresent(e) == IF e.present THEN [e EXCEPT !.subscribed = TRUE] ELSE e

\* finish_subscription upserts, so that no prune makes it a no-op.
Promoted(e) == [e EXCEPT !.present = TRUE, !.subscribed = TRUE]

FinishSubscription(c) ==
  /\ call[c].at = "granted"
  /\ subscribing' = subscribing \ {call[c].thread}
  /\ snapshot' = [snapshot EXCEPT ![call[c].thread] = Promoted(@)]
  /\ Step(c, "retain")
  /\ UNCHANGED <<daemonVars, signals, states, changed, todo, gate, history>>

\* Mutant of Retain: no thread/read follows.
RetainUnread(c) ==
  /\ call[c].at = "retain"
  /\ Becomes(call[c].thread, "Subscribed")
  /\ Returns(c)
  /\ UNCHANGED <<daemonVars, signals, changed, todo, gate, reducerVars, history>>

Retain(c) ==
  /\ call[c].at = "retain"
  /\ Becomes(call[c].thread, "Subscribed")
  /\ Step(c, "read")
  /\ UNCHANGED <<daemonVars, signals, changed, todo, gate, reducerVars, history>>

\* The daemon answers the thread/read that closes the race with a turn in
\* flight; what it says is applied later.
ReadServed(c) ==
  /\ call[c].at = "read"
  /\ up
  /\ call' = [call EXCEPT ![c].at = "answered",
                          ![c].answer = version[call[c].thread]]
  /\ UNCHANGED <<daemonVars, signals, states, changed, todo, gate, reducerVars,
                 history>>

ReadApplied(c) ==
  /\ call[c].at = "answered"
  /\ ReconcileThread(call[c].thread, call[c].answer, TRUE)
  /\ Returns(c)
  /\ UNCHANGED <<daemonVars, signals, states, changed, todo, gate, subscribing,
                 orphans, missed>>

ReadFails(c) ==
  /\ call[c].at \in {"read", "answered"}
  /\ doubt' = [doubt EXCEPT ![call[c].thread] = "unread"]
  /\ Returns(c)
  /\ UNCHANGED <<daemonVars, signals, states, changed, todo, gate, reducerVars,
                 newest, orphans, missed>>

DiscoverStep(c) ==
  \/ HandleSignal(c) \/ Observe(c) \/ BeginSubscription(c)
  \/ ResumeGranted(c) \/ ResumeRetried(c) \/ RetryElapses(c)
  \/ ResumeFails(c) \/ CancelSubscription(c) \/ FinishSubscription(c)
  \/ Retain(c) \/ ReadServed(c) \/ ReadApplied(c) \/ ReadFails(c)

-----------------------------------------------------------------------------
(* ThreadIngestor::reconcile, on the task that core runs it on.            *)

rec == call[Reconciler]

\* thread/list, newest first, down to the watermark, which moves before any
\* candidate is read.  A list that fails is asked for again.
Listed ==
  /\ due
  /\ rec.at = "idle"
  /\ up
  /\ listedOn' = conn
  /\ overlooked' = {}
  /\ todo' = changed
  /\ changed' = {}
  /\ Step(Reconciler, "next")
  /\ UNCHANGED <<daemonVars, signals, states, due, reducerVars, history>>

NextCandidate ==
  /\ rec.at = "next"
  /\ \E t \in todo :
       /\ todo' = todo \ {t}
       /\ call' = [call EXCEPT ![Reconciler].at = "probe",
                               ![Reconciler].thread = t]
  /\ UNCHANGED <<daemonVars, signals, states, changed, gate, reducerVars, history>>

ProbeServed ==
  /\ rec.at = "probe"
  /\ up
  /\ IF Active(version[rec.thread])
     THEN call' = [call EXCEPT ![Reconciler].at = "probed",
                               ![Reconciler].answer = version[rec.thread]]
     ELSE Returns(Reconciler)
  /\ UNCHANGED <<daemonVars, signals, states, changed, todo, gate, reducerVars,
                 history>>

\* A candidate that cannot be read is not active.
ProbeFails ==
  /\ rec.at \in {"probe", "probed"}
  /\ missed' = missed \cup {rec.thread}
  /\ Returns(Reconciler)
  /\ UNCHANGED <<daemonVars, signals, states, changed, todo, gate, reducerVars,
                 newest, doubt, orphans>>

Probed ==
  /\ rec.at = "probed"
  /\ ReconcileThread(rec.thread, rec.answer, FALSE)
  /\ Step(Reconciler, "discover")
  /\ UNCHANGED <<daemonVars, signals, states, changed, todo, gate, subscribing,
                 orphans, missed>>

ReconcileDiscovers ==
  /\ rec.at = "discover"
  /\ Discover(Reconciler, rec.thread)
  /\ UNCHANGED <<daemonVars, signals, changed, todo, gate, reducerVars, history>>

\* Done: mark_reconciled is called, unless the skill roots could not be
\* restored and core is to run it again.
ReconcileEnds ==
  /\ rec.at = "next"
  /\ todo = {}
  /\ \E at \in {"marking", "idle"} :
       call' = [call EXCEPT ![Reconciler] = At(at)]
  /\ UNCHANGED <<daemonVars, signals, states, changed, todo, gate,
                 reducerVars, history>>

\* The transport takes the mark on whatever connection there is, also on a
\* later one, that core then reconciles no more.  Without one it drops it.
Marked ==
  /\ rec.at = "marking"
  /\ IF up
     THEN /\ due' = FALSE
          /\ overlooked' = IF listedOn = conn THEN overlooked ELSE changed
     ELSE UNCHANGED <<due, overlooked>>
  /\ Step(Reconciler, "idle")
  /\ UNCHANGED <<daemonVars, signals, states, changed, todo, listedOn,
                 reducerVars, history>>

ReconcileStep ==
  \/ Listed \/ NextCandidate \/ ProbeServed \/ ProbeFails
  \/ Probed \/ ReconcileDiscovers \/ ReconcileEnds \/ Marked

DaemonStep == (\E t \in Threads : Moves(t)) \/ Disconnect \/ Connect

Next == DaemonStep \/ ApplyMessage \/ ReconcileStep \/ \E c \in Callers : DiscoverStep(c)

Spec == Init /\ [][Next]_vars

-----------------------------------------------------------------------------

\* thread-ingestion/spec.md: "one subscription state machine performs the
\* resume/read sequence exactly once".  Whatever signals, reconciliations and
\* observe_thread calls meet, retries and failures included, one call at a
\* time is between its claim of a thread and the end of its subscription.
OneSubscribes ==
  \A c, d \in Callers :
    /\ call[c].at \in Subscribes
    /\ call[d].at \in Subscribes
    /\ call[c].thread = call[d].thread
    => c = d

\* A thread the ingestor calls Subscribed is retained by the reducer, also
\* when the cancellation of an earlier, failed call took the protection from
\* pruning away under the call that succeeded.
SubscribedRetained ==
  \A t \in Threads : states[t] = "Subscribed" =>
    snapshot[t].present /\ snapshot[t].subscribed

\* Nothing is under way: no message, no call, no reconciliation.
Quiet ==
  /\ up /\ ~due
  /\ wire = <<>> /\ signals = {}
  /\ \A c \in Callers : call[c].at = "idle"

KnowsTurn(t) == snapshot[t].present /\ snapshot[t].turn = TurnOf(version[t])

\* The turn of a subscribed thread is known once things are quiet, although
\* the resume, the read and the turn's events race: the reducer is wrong of
\* it only if it applied a version older than one it had applied, or a read
\* failed, and has not heard of the start of a turn since.
TurnsKnown ==
  Quiet => \A t \in live :
    states[t] = "Subscribed" /\ doubt[t] = "none" => KnowsTurn(t)

GaveUp == {"Ephemeral", "Failed", "CapacityDegraded"}

\* README, "The library discovers work from multiple signals": a thread with
\* a turn in flight is subscribed, or states says that it was given up, or
\* its read failed after the watermark had passed it, or it is taken for
\* subscribed because an earlier connection was, or it has not moved since
\* an outage whose connection was opened by the mark of an earlier list.
\* The last two are what the code does against daemon-transport/spec.md and
\* thread-ingestion/spec.md: Resubscribed, and ActionsFollowReconciliation
\* of ControlRun, are violated.
ActiveDiscovered ==
  Quiet => \A t \in Threads : Active(version[t]) =>
    \/ t \in live
    \/ states[t] \in GaveUp
    \/ t \in missed
    \/ t \in orphans
    \/ t \in overlooked

\* daemon-transport/spec.md: after a lost connection the transport "completes
\* reconcile/resubscribe before reopening the action gate", and
\* "Reconciliation SHALL discover both previously tracked threads and threads
\* activated while the connection was down".  Said only of threads with a
\* turn in flight, and of connections that had a list of their own.
Resubscribed ==
  Quiet /\ listedOn = conn => \A t \in Threads :
    states[t] = "Subscribed" /\ Active(version[t]) => t \in live

\* thread-ingestion/spec.md: signals do not "overwrite newer active-turn
\* state"; said only of subscribed threads that were read, once things are
\* quiet again.
NewerTurnKept ==
  Quiet => \A t \in live :
    states[t] = "Subscribed" /\ doubt[t] # "unread" => KnowsTurn(t)
=============================================================================
