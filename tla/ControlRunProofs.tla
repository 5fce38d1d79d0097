-------------------------- MODULE ControlRunProofs --------------------------
(***************************************************************************)
(* Proofs about ControlRun: every step of CodexControl::run is a step of   *)
(* the transport it drives, or leaves the transport alone, so that all     *)
(* that is proved of the transport holds of it inside run; and the loop    *)
(* is there to hear of the first reconciliation.                           *)
(***************************************************************************)
EXTENDS ControlRun, TransportProofs

-----------------------------------------------------------------------------
(* The transport inside run.                                               *)

\* One step of run is at most one step of the transport.
LEMMA StepOfTransport ==
  ASSUME [RunNext]_allVars
  PROVE  [Next]_vars
<1>1. CASE UNCHANGED allVars
  BY <1>1, Zenon DEF allVars
<1>2. CASE TransportRuns
  BY <1>2, Zenon DEF TransportRuns, Next, HandleStep, EnvironmentStep
<1>3. CASE Requests
  BY <1>3, Zenon DEF Requests, Next, HandleStep
<1>4. CASE Listed \/ Watch \/ Test \/ Retry \/ ShutdownBegins
  BY <1>4, Zenon DEF Listed, Watch, Test, Retry, ShutdownBegins
<1>5. CASE ReconcileOk \/ Marked
  BY <1>5, Zenon DEF ReconcileOk, Marked, Next, HandleStep
<1>6. CASE ReconcileFails
  <2>1. StopCall \/ UNCHANGED vars
    BY <1>6, Zenon DEF ReconcileFails
  <2> QED
    BY <2>1, Zenon DEF Next, HandleStep
<1>7. CASE IngressStops \/ ShutdownEnds
  BY <1>7, Zenon DEF IngressStops, ShutdownEnds, Next, HandleStep,
     EnvironmentStep
<1> QED
  BY <1>1, <1>2, <1>3, <1>4, <1>5, <1>6, <1>7, Zenon DEF RunNext

\* CodexControl::run uses the transport the way its handle allows: whatever
\* run, its reconnect task, its ingress task and shutdown do, the transport
\* behaves as Transport says of a handle used in any order.
THEOREM RunIsTransport == RunSpec => Spec
<1>1. RunInit => Init
  BY DEF RunInit
<1>2. [RunNext]_allVars => [Next]_vars
  BY StepOfTransport
<1> QED
  BY <1>1, <1>2, PTL DEF RunSpec, Spec

\* The requests made under run get what RequestContract promises.
THEOREM RunKeepsContract == RunSpec => ImplementsContract
  BY RunIsTransport, Refinement

\* Nothing is sent twice, refused yet sent, or forgotten under run, whatever
\* reconnects, reconciliations and shutdown come in between.
THEOREM RunRequestsCorrect ==
  RunSpec => [](WrittenAtMostOnce /\ RefusedNeverWritten /\ SomebodyWillAnswer)
  BY RunIsTransport, NeverRetransmitted, OutcomesTruthful, NobodyForgotten, PTL

-----------------------------------------------------------------------------
(* Types.                                                                  *)

RunTypes ==
  /\ runner \in {"listing", "reading", "marking", "watching", "testing",
                 "retrying", "off"}
  /\ started \in BOOLEAN
  /\ unseen \in BOOLEAN
  /\ listedOn \in 0..MaxConns
  /\ reconciled \subseteq 1..MaxConns
  /\ shutting \in BOOLEAN

\* A connection that drive serves has been initialized.
LiveIsConnected == Live => conn > 0

LEMMA LiveStaysConnected ==
  ASSUME TypeOK, LiveIsConnected, [Next]_vars
  PROVE  LiveIsConnected'
<1>1. conn \in Nat
  BY TransportAssumption DEF TransportAssumption, TypeOK, StateOK
<1>2. CASE InitializeOk
  BY <1>1, <1>2 DEF InitializeOk, LiveIsConnected
<1>3. CASE ~InitializeOk
  <2>1. UNCHANGED conn
    BY <1>3, Zenon DEF vars, Next, HandleStep, LoopStep, EnvironmentStep,
       TakeCommand, Call, Enqueue, SendFails, Answered, TimesOut, Return,
       Notify, MarkStore, MarkEnqueue, MarkFails, StopCall, StopEnqueue,
       StopFails, DropHandles, ConnectOk, InitializeWritten, ConnectFails,
       HandshakeFrame, InitializeAnswered, BackoffElapses,
       RejectWhileDisconnected, StopWhileDisconnected, Disconnected, Writing,
       WriteOk, WriteFails, TakeFrame, StartControl, WriteEnds, OtherWritten,
       OtherFails, SocketClosed, TakeReconciled, TakeShutdown, QueueClosed,
       ReadResponse, ReadEvent, Ingest, IngressClosed, ConnectionLost,
       DaemonHandles, TakeIngress, CloseIngress
  <2>2. Live' => Live
    BY <1>3 DEF Live, vars, Next, HandleStep, LoopStep, EnvironmentStep,
       TakeCommand, Call, Enqueue, SendFails, Answered, TimesOut, Return,
       Notify, MarkStore, MarkEnqueue, MarkFails, StopCall, StopEnqueue,
       StopFails, DropHandles, ConnectOk, InitializeWritten, ConnectFails,
       HandshakeFrame, InitializeAnswered, BackoffElapses,
       RejectWhileDisconnected, StopWhileDisconnected, Disconnected, HeadIs,
       Writing, WriteOk, WriteFails, TakeFrame, StartControl, WriteEnds,
       OtherWritten, OtherFails, SocketClosed, TakeReconciled, TakeShutdown,
       QueueClosed, LoopReturns, ReadResponse, ReadEvent, Ingest,
       IngressClosed, ConnectionLost, DaemonHandles, TakeIngress, CloseIngress
  <2> QED
    BY <2>1, <2>2 DEF LiveIsConnected
<1> QED
  BY <1>2, <1>3

LEMMA RunTypesKept ==
  ASSUME TypeOK, LiveIsConnected, RunTypes, [RunNext]_allVars
  PROVE  RunTypes'
<1> USE DEF RunTypes, runVars
<1>1. conn \in 0..MaxConns /\ MaxConns \in Nat
  BY TransportAssumption DEF TransportAssumption, TypeOK, StateOK
<1>2. CASE TransportRuns
  <2>1. (unseen \/ Published) \in BOOLEAN
    OBVIOUS
  <2> QED
    BY <1>2, <2>1 DEF TransportRuns
<1>3. CASE Requests \/ IngressStops \/ ShutdownEnds \/ UNCHANGED allVars
  BY <1>3 DEF Requests, IngressStops, ShutdownEnds, allVars
<1>4. CASE Listed
  BY <1>1, <1>4 DEF Listed
<1>5. CASE ReconcileOk
  <2>1. Live => conn \in 1..MaxConns
    BY <1>1 DEF LiveIsConnected
  <2> QED
    BY <1>5, <2>1 DEF ReconcileOk
<1>6. CASE ReconcileFails \/ Marked
  BY <1>6 DEF ReconcileFails, Marked
<1>7. CASE Watch \/ Test \/ Retry \/ ShutdownBegins
  BY <1>7 DEF Watch, Test, Retry, ShutdownBegins
<1> QED
  BY <1>2, <1>3, <1>4, <1>5, <1>6, <1>7 DEF RunNext

\* Every variable of run and of its transport keeps its type.
THEOREM RunTypesCorrect == RunSpec => []RunTypeOK
<1>1. RunInit => RunTypes /\ LiveIsConnected
  <2> SUFFICES ASSUME RunInit
               PROVE  RunTypes /\ LiveIsConnected
    OBVIOUS
  <2>1. 0 \in 0..MaxConns
    BY TransportAssumption DEF TransportAssumption
  <2>2. RunTypes
    BY <2>1 DEF RunInit, RunTypes
  <2>3. LiveIsConnected
    BY DEF RunInit, Init, LiveIsConnected, Live
  <2> QED
    BY <2>2, <2>3
<1>2. TypeOK /\ RunTypes /\ LiveIsConnected /\ [RunNext]_allVars
        => RunTypes' /\ LiveIsConnected'
  BY StepOfTransport, LiveStaysConnected, RunTypesKept
<1>3. RunSpec => []TypeOK
  BY RunIsTransport, TypeCorrect, PTL
<1>4. TypeOK /\ RunTypes => RunTypeOK
  BY Zenon DEF RunTypes, RunTypeOK
<1> QED
  BY <1>1, <1>2, <1>3, <1>4, PTL DEF RunSpec

-----------------------------------------------------------------------------
(* The first reconciliation.                                               *)

\* No shutdown in the queue q of commands.
NoShutdown(q) == \A i \in 1..Len(q) : q[i].kind # "shutdown"

\* Nothing has been done that could end the loop, and it has not ended.
Undisturbed ==
  /\ handles
  /\ ingressOpen
  /\ stop = "idle"
  /\ loop \notin {"closing", "stopped"}
  /\ NoShutdown(commands)

\* Until the operation starts run is reconciling, on an undisturbed loop, or
\* has given up.
StartInv ==
  ~started =>
    /\ ~shutting
    /\ runner \in {"listing", "reading", "marking", "off"}
    /\ runner # "off" => Undisturbed

LEMMA NoneAppended ==
  ASSUME NEW q \in Seq(Command), NEW c \in Command,
         NoShutdown(q), c.kind # "shutdown"
  PROVE  NoShutdown(Append(q, c))
<1>1. /\ Len(Append(q, c)) = Len(q) + 1
      /\ \A i \in 1..Len(q) : Append(q, c)[i] = q[i]
      /\ Append(q, c)[Len(q) + 1] = c
  OBVIOUS
<1>2. 1..(Len(q) + 1) = (1..Len(q)) \cup {Len(q) + 1}
  OBVIOUS
<1> QED
  BY <1>1, <1>2 DEF NoShutdown

LEMMA NoneTaken ==
  ASSUME NEW q \in Seq(Command), q # <<>>, NoShutdown(q)
  PROVE  NoShutdown(Tail(q)) /\ Head(q).kind # "shutdown"
  BY TakeHead DEF NoShutdown

\* A loop is ended by a shutdown in its queue, by the end of its handles or
\* by a closed ingress, and by nothing else.
LEMMA UndisturbedStays ==
  ASSUME TypeOK, Undisturbed, [Next]_vars,
         handles', ingressOpen', stop' = "idle"
  PROVE  Undisturbed'
<1>1. commands \in Seq(Command)
  BY DEF TypeOK, StateOK
<1>2. NoShutdown(commands')
  <2>1. CASE UNCHANGED commands \/ commands' = <<>>
    BY <2>1 DEF Undisturbed, NoShutdown
  <2>2. CASE commands # <<>> /\ commands' = Tail(commands)
    BY <1>1, <2>2, NoneTaken DEF Undisturbed
  <2>3. CASE \E c \in Command : /\ c.kind # "shutdown"
                                /\ commands' = Append(commands, c)
    BY <1>1, <2>3, NoneAppended DEF Undisturbed
  <2>4. \/ UNCHANGED commands \/ commands' = <<>>
        \/ commands # <<>> /\ commands' = Tail(commands)
        \/ \E c \in {NotifyCmd, ReconciledCmd} \cup {RequestCmd(r) : r \in Reqs} :
             commands' = Append(commands, c)
    <3>1. ~StopEnqueue
      BY DEF Undisturbed, StopEnqueue
    <3> QED
      BY <3>1, Zenon DEF vars, Next, HandleStep, LoopStep, EnvironmentStep,
         TakeCommand, callerVars, daemonVars, ingressVars, Call, Enqueue,
         SendFails, Answered, TimesOut, Return, Notify, MarkStore, MarkEnqueue,
         MarkFails, StopCall, StopFails, DropHandles, ConnectOk,
         InitializeWritten, ConnectFails, HandshakeFrame, InitializeAnswered,
         InitializeOk, BackoffElapses, RejectWhileDisconnected,
         StopWhileDisconnected, Disconnected, HeadIs, Writing, WriteOk,
         WriteFails, TakeFrame, StartControl, WriteEnds, OtherWritten,
         OtherFails, SocketClosed, TakeReconciled, TakeShutdown, QueueClosed,
         LoopReturns, ReadResponse, ReadEvent, Ingest, IngressClosed,
         ConnectionLost, DaemonHandles, TakeIngress, CloseIngress
  <2>5. \A c \in {NotifyCmd, ReconciledCmd} \cup {RequestCmd(r) : r \in Reqs} :
          c \in Command /\ c.kind # "shutdown"
    BY DEF Command, NotifyCmd, ReconciledCmd, RequestCmd
  <2> QED
    BY <2>1, <2>2, <2>3, <2>4, <2>5
<1>3. loop' \notin {"closing", "stopped"}
  <2>1. commands # <<>> => Head(commands).kind # "shutdown"
    BY <1>1, NoneTaken DEF Undisturbed
  <2>2. ~(StopWhileDisconnected \/ TakeShutdown \/ SocketClosed \/ QueueClosed
          \/ IngressClosed)
    BY <2>1 DEF Undisturbed, StopWhileDisconnected, TakeShutdown, HeadIs,
       SocketClosed, QueueClosed, IngressClosed
  <2> QED
    BY <2>2 DEF Undisturbed, vars, Next, HandleStep, LoopStep, EnvironmentStep,
       TakeCommand, Call, Enqueue, SendFails, Answered, TimesOut, Return,
       Notify, MarkStore, MarkEnqueue, MarkFails, StopCall, StopEnqueue,
       StopFails, DropHandles, ConnectOk, InitializeWritten, ConnectFails,
       HandshakeFrame, InitializeAnswered, InitializeOk, BackoffElapses,
       RejectWhileDisconnected, Disconnected, Writing, WriteOk, WriteFails,
       TakeFrame, StartControl, WriteEnds, OtherWritten, OtherFails,
       SocketClosed, TakeReconciled, ReadResponse, ReadEvent, Ingest,
       ConnectionLost, DaemonHandles, TakeIngress, CloseIngress
<1> QED
  BY <1>2, <1>3 DEF Undisturbed

LEMMA StartKept ==
  ASSUME TypeOK, RunTypes, StartInv, [RunNext]_allVars
  PROVE  StartInv'
<1> SUFFICES ASSUME ~started'
             PROVE  /\ ~shutting'
                    /\ runner' \in {"listing", "reading", "marking", "off"}
                    /\ runner' # "off" => Undisturbed'
  BY DEF StartInv
<1> DEFINE Quiet == handles' = handles /\ ingressOpen' = ingressOpen /\ stop' = stop
<1>1. ~started
  <2>1. started' = started \/ started'
    BY Zenon DEF RunNext, allVars, runVars, TransportRuns, Requests, Listed,
       ReconcileOk, ReconcileFails, Marked, Watch, Test, Retry,
       ShutdownBegins, IngressStops, ShutdownEnds
  <2> QED
    BY <2>1
<1>2. /\ ~shutting
      /\ runner \in {"listing", "reading", "marking", "off"}
      /\ runner # "off" => Undisturbed
  BY <1>1 DEF StartInv
<1>3. [Next]_vars
  BY StepOfTransport
<1>4. Undisturbed /\ Quiet => Undisturbed'
  BY <1>3, UndisturbedStays DEF Undisturbed
<1>5. CASE TransportRuns
  <2>1. UNCHANGED <<runner, shutting>>
    BY <1>5 DEF TransportRuns
  <2>2. Undisturbed => Quiet
    BY <1>5 DEF Undisturbed, TransportRuns, LoopStep, TakeCommand, ingressVars,
       MarkEnqueue, ConnectOk, InitializeWritten, ConnectFails, HandshakeFrame,
       InitializeAnswered, InitializeOk, BackoffElapses,
       RejectWhileDisconnected, StopWhileDisconnected, Disconnected, Writing,
       WriteOk, WriteFails, TakeFrame, StartControl, WriteEnds, OtherWritten,
       OtherFails, SocketClosed, TakeReconciled, TakeShutdown, QueueClosed,
       LoopReturns, ReadResponse, ReadEvent, Ingest, IngressClosed,
       ConnectionLost, DaemonHandles, TakeIngress
  <2> QED
    BY <1>2, <1>4, <2>1, <2>2
<1>6. CASE Requests
  <2>1. Quiet /\ UNCHANGED runVars
    BY <1>6 DEF Requests, ingressVars, Call, Enqueue, SendFails, Answered,
       TimesOut, Return
  <2> QED
    BY <1>2, <1>4, <2>1 DEF runVars
<1>7. CASE Listed \/ ReconcileOk
  <2>1. /\ Quiet /\ UNCHANGED shutting /\ runner # "off"
        /\ runner' \in {"reading", "marking"}
    BY <1>7 DEF Listed, ReconcileOk, MarkStore, vars, ingressVars
  <2> QED
    BY <1>2, <1>4, <2>1
<1>8. CASE ReconcileFails
  BY <1>1, <1>2, <1>8 DEF ReconcileFails
<1>9. CASE Marked \/ Watch \/ Test \/ Retry \/ ShutdownBegins
  BY <1>1, <1>2, <1>9 DEF Marked, Watch, Test, Retry, ShutdownBegins
<1>10. CASE IngressStops \/ ShutdownEnds
  <2>1. UNCHANGED runVars
    BY <1>10 DEF IngressStops, ShutdownEnds
  <2>2. ~Undisturbed
    BY <1>2, <1>10
    DEF IngressStops, ShutdownEnds, StopEnqueue, StopFails, Undisturbed
  <2> QED
    BY <1>2, <2>1, <2>2 DEF runVars
<1>11. CASE UNCHANGED allVars
  <2>1. Quiet /\ UNCHANGED <<runner, shutting>>
    BY <1>11 DEF allVars, vars, runVars, ingressVars
  <2> QED
    BY <1>2, <1>4, <2>1
<1> QED
  BY <1>5, <1>6, <1>7, <1>8, <1>9, <1>10, <1>11 DEF RunNext

\* run marks its first reconciliation on a loop that is there to hear of it:
\* the error of mark_reconciled, which would make run return without shutting
\* its transport down, cannot happen there.
THEOREM FirstMarkIsHeard == RunSpec => []FirstMarkHeard
<1> DEFINE Inv == TypeOK /\ RunTypes
<1>1. RunInit => StartInv
  BY DEF RunInit, Init, StartInv, Undisturbed, NoShutdown
<1>2. Inv /\ StartInv /\ [RunNext]_allVars => StartInv'
  BY StartKept
<1>3. RunSpec => []Inv
  <2>1. RunTypeOK => Inv
    BY Zenon DEF RunTypeOK, RunTypes
  <2> QED
    BY <2>1, RunTypesCorrect, PTL
<1>4. StartInv => FirstMarkHeard
  BY DEF StartInv, Undisturbed, FirstMarkHeard
<1> QED
  BY <1>1, <1>2, <1>3, <1>4, PTL DEF RunSpec
=============================================================================
