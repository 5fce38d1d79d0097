-------------------------- MODULE TransportProofs --------------------------
(***************************************************************************)
(* Proofs that the transport is type correct, that the results it gives    *)
(* its callers are truthful, and that it implements RequestContract, for   *)
(* every set of requests, queue capacity and number of connections.        *)
(***************************************************************************)
EXTENDS TransportSafety, TLAPS

USE DEF Live, Unsent, InHand

(* Facts about the command queue.                                          *)

\* Appending to a queue of commands.
LEMMA AppendCommand ==
  ASSUME NEW q \in Seq(Command), NEW c \in Command
  PROVE  /\ Append(q, c) \in Seq(Command)
         /\ Len(Append(q, c)) = Len(q) + 1
         /\ \A r \in Reqs : In(Append(q, c), r) <=> In(q, r) \/ c = RequestCmd(r)
<1>1. /\ Append(q, c) \in Seq(Command)
      /\ Len(Append(q, c)) = Len(q) + 1
      /\ \A i \in 1..Len(q) : Append(q, c)[i] = q[i]
      /\ Append(q, c)[Len(q) + 1] = c
  OBVIOUS
<1>2. Len(q) \in Nat /\ 1..(Len(q) + 1) = (1..Len(q)) \cup {Len(q) + 1}
  OBVIOUS
<1> QED
  BY <1>1, <1>2 DEF In

\* Taking the head of a queue of commands.
LEMMA TakeHead ==
  ASSUME NEW q \in Seq(Command), q # <<>>
  PROVE  /\ Tail(q) \in Seq(Command)
         /\ Head(q) \in Command
         /\ Len(Tail(q)) = Len(q) - 1
         /\ Len(q) \in Nat \ {0}
         /\ q[1] = Head(q)
         /\ \A i \in 1..Len(Tail(q)) : i + 1 \in 1..Len(q) /\ Tail(q)[i] = q[i + 1]
         /\ \A r \in Reqs : In(q, r) <=> In(Tail(q), r) \/ Head(q) = RequestCmd(r)
<1>1. /\ Tail(q) \in Seq(Command)
      /\ Head(q) \in Command
      /\ Len(Tail(q)) = Len(q) - 1
      /\ Len(q) \in Nat \ {0}
      /\ q[1] = Head(q)
      /\ \A i \in 1..Len(Tail(q)) : i + 1 \in 1..Len(q) /\ Tail(q)[i] = q[i + 1]
  OBVIOUS
<1>2. \A i \in 1..Len(q) : i = 1 \/ (i - 1 \in 1..Len(Tail(q)) /\ q[i] = Tail(q)[i - 1])
  BY <1>1
<1>3. ASSUME NEW r \in Reqs
      PROVE  In(q, r) <=> In(Tail(q), r) \/ Head(q) = RequestCmd(r)
  <2>1. In(q, r) => In(Tail(q), r) \/ Head(q) = RequestCmd(r)
    BY <1>1, <1>2 DEF In
  <2>2. In(Tail(q), r) => In(q, r)
    BY <1>1 DEF In
  <2>3. Head(q) = RequestCmd(r) => In(q, r)
    BY <1>1 DEF In
  <2> QED
    BY <2>1, <2>2, <2>3
<1> QED
  BY <1>1, <1>3

-----------------------------------------------------------------------------
(* Type correctness.                                                       *)

\* The types, together with the fact that makes them inductive: what
\* ReadResponse delivers is a verdict of the daemon.
LEMMA DataCorrect == Spec => [](TypeOK /\ RepliesHandled)
<1> DEFINE DataOK == StateOK /\ RepliesHandled
<1>1. Init => FlagsOK /\ DataOK
  <2>1. Init => FlagsOK
    BY Zenon DEF Init, FlagsOK
  <2>2. Init => StateOK
    BY TransportAssumption DEF TransportAssumption, Init, StateOK, Phase
  <2>3. Init => RepliesHandled
    BY DEF Init, RepliesHandled
  <2> QED
    BY <2>1, <2>2, <2>3
<1>2. FlagsOK /\ [Next]_vars => FlagsOK'
  BY Zenon DEF FlagsOK, vars, Next, HandleStep, LoopStep, EnvironmentStep,
     TakeCommand, ingressVars, Call, Enqueue, SendFails, Answered, TimesOut,
     Return, Notify, MarkStore, MarkEnqueue, MarkFails, StopCall, StopEnqueue,
     StopFails, DropHandles, ConnectOk, InitializeWritten, ConnectFails,
     HandshakeFrame, InitializeAnswered, InitializeOk, BackoffElapses,
     RejectWhileDisconnected, StopWhileDisconnected, Disconnected, WriteOk,
     WriteFails, TakeFrame, StartControl, WriteEnds, OtherWritten, OtherFails,
     SocketClosed, TakeReconciled, TakeShutdown, QueueClosed, ReadResponse,
     ReadEvent, Ingest, IngressClosed, ConnectionLost, DaemonHandles,
     TakeIngress, CloseIngress
<1>3. DataOK /\ [Next]_vars => DataOK'
  <2> SUFFICES ASSUME StateOK, RepliesHandled, [Next]_vars
               PROVE  StateOK' /\ RepliesHandled'
    OBVIOUS
  <2> USE TransportAssumption DEF TransportAssumption, StateOK,
            RepliesHandled, Phase, Answer, Outcome, callerVars, daemonVars,
            ingressVars
  <2>1. ASSUME NEW r \in Reqs, Call(r)
        PROVE  DataOK'
    <3>1. /\ call' \in [Reqs -> {"idle", "sending", "waiting", "returned"}]
          /\ outcome' \in [Reqs -> Outcome \cup {"none"}]
      BY <2>1 DEF Call
    <3>2. UNCHANGED <<loop, phase, conn, commands, frame, pending, slot, mark,
                      stop, ingress, writes, wroteOn, executed, replies>>
      BY <2>1 DEF Call
    <3> QED
      BY <3>1, <3>2
  <2>2. ASSUME NEW r \in Reqs, SendFails(r) \/ Answered(r) \/ TimesOut(r)
        PROVE  DataOK'
    <3>1. CASE SendFails(r)
      BY <3>1 DEF SendFails, Return
    <3>2. CASE Answered(r)
      BY <3>2 DEF Answered, Return
    <3>3. CASE TimesOut(r)
      BY <3>3 DEF TimesOut, Return
    <3> QED
      BY <2>2, <3>1, <3>2, <3>3
  <2>3. ASSUME NEW r \in Reqs, Enqueue(r)
        PROVE  DataOK'
    <3>1. RequestCmd(r) \in Command
      BY DEF Command
    <3> QED
      BY <2>3, <3>1, AppendCommand DEF Enqueue, HasRoom
  <2>4. CASE Notify \/ MarkEnqueue \/ StopEnqueue
    <3>1. {NotifyCmd, ReconciledCmd, ShutdownCmd} \subseteq Command
      BY DEF Command
    <3>2. CASE Notify
      BY <3>1, <3>2, AppendCommand DEF Notify, HasRoom
    <3>3. CASE MarkEnqueue
      BY <3>1, <3>3, AppendCommand DEF MarkEnqueue, HasRoom
    <3>4. CASE StopEnqueue
      BY <3>1, <3>4, AppendCommand DEF StopEnqueue, HasRoom
    <3> QED
      BY <2>4, <3>2, <3>3, <3>4
  <2>5. CASE MarkStore \/ MarkFails \/ StopCall \/ StopFails \/ DropHandles
    BY <2>5 DEF MarkStore, MarkFails, StopCall, StopFails, DropHandles
  <2>6. ASSUME commands # <<>>
        PROVE  /\ Tail(commands) \in Seq(Command)
               /\ Len(Tail(commands)) <= QueueCap
               /\ Head(commands).kind = "request" => Head(commands).req \in Reqs
    <3>1. Head(commands) \in Command
      BY <2>6, TakeHead
    <3>2. Head(commands).kind = "request" => Head(commands).req \in Reqs
      BY <3>1 DEF Command, RequestCmd, NotifyCmd, ReconciledCmd, ShutdownCmd
    <3> QED
      BY <2>6, <3>2, TakeHead
  <2>7. /\ Flushed \in [Reqs -> Answer \cup {"empty", "dropped"}]
        /\ NoFrame \in Command \cup {ControlFrame, NoFrame}
        /\ ControlFrame \in Command \cup {ControlFrame, NoFrame}
    BY DEF Flushed
  <2>8. CASE ConnectOk \/ InitializeWritten \/ ConnectFails \/ HandshakeFrame
             \/ InitializeAnswered \/ InitializeOk \/ BackoffElapses
             \/ Disconnected \/ ReadEvent \/ Ingest
    BY <2>8 DEF ConnectOk, InitializeWritten, ConnectFails, HandshakeFrame,
       InitializeAnswered, InitializeOk, BackoffElapses, Disconnected,
       ReadEvent, Ingest
  <2>9. CASE RejectWhileDisconnected
    BY <2>6, <2>9 DEF RejectWhileDisconnected
  <2>10. ASSUME NEW s \in [Reqs -> Answer \cup {"empty", "dropped"}],
                LoopReturns(s)
         PROVE  /\ loop' = "stopped"
                /\ commands' \in Seq(Command) /\ Len(commands') <= QueueCap
                /\ slot' \in [Reqs -> Answer \cup {"empty", "dropped"}]
                /\ mark' \in {"idle", "sending", "waiting"}
                /\ stop' \in {"idle", "sending", "waiting", "returned"}
                /\ replies' = {}
    BY <2>10 DEF LoopReturns
  <2>11. CASE StopWhileDisconnected
    BY <2>10, <2>11 DEF StopWhileDisconnected
  <2>12. CASE SocketClosed \/ QueueClosed \/ IngressClosed
    BY <2>7, <2>10, <2>12 DEF SocketClosed, QueueClosed, IngressClosed
  <2>13. frame.kind = "request" => frame.req \in Reqs
    BY DEF Command, RequestCmd, NotifyCmd, ReconciledCmd, ShutdownCmd,
       ControlFrame, NoFrame
  <2>14. CASE WriteEnds
    <3>1. CASE WriteOk
      BY <2>7, <2>13, <3>1 DEF WriteOk, Writing
    <3>2. CASE WriteFails
      BY <2>7, <2>13, <3>2 DEF WriteFails, Writing
    <3>3. CASE OtherWritten \/ OtherFails
      BY <2>7, <3>3 DEF OtherWritten, OtherFails, Writing
    <3> QED
      BY <2>14, <3>1, <3>2, <3>3 DEF WriteEnds
  <2>15. CASE TakeFrame \/ StartControl \/ TakeReconciled \/ TakeShutdown
    BY <2>6, <2>7, <2>15, TakeHead
    DEF TakeFrame, StartControl, TakeReconciled, TakeShutdown, HeadIs
  <2>16. ASSUME NEW r \in Reqs, ReadResponse(r)
         PROVE  DataOK'
    <3>1. executed[r] \in Answer
      BY <2>16 DEF ReadResponse
    <3>2. slot' \in [Reqs -> Answer \cup {"empty", "dropped"}]
      BY <2>16, <3>1 DEF ReadResponse
    <3> QED
      BY <2>16, <3>2 DEF ReadResponse
  <2>17. CASE ConnectionLost
    BY <2>7, <2>17 DEF ConnectionLost
  <2>18. ASSUME NEW r \in Reqs, NEW verdict \in {"Ok", "Rejected"},
                DaemonHandles(r, verdict)
         PROVE  DataOK'
    <3>1. /\ executed' \in [Reqs -> {"no", "Ok", "Rejected"}]
          /\ executed'[r] # "no"
          /\ \A q \in Reqs : executed[q] # "no" => executed'[q] # "no"
          /\ replies' \subseteq replies \cup {r}
      BY <2>18 DEF DaemonHandles
    <3>2. UNCHANGED <<loop, phase, conn, commands, frame, pending, slot, call,
                      outcome, mark, stop, ingress, writes, wroteOn>>
      BY <2>18 DEF DaemonHandles
    <3> QED
      BY <3>1, <3>2
  <2>19. CASE TakeIngress \/ CloseIngress
    BY <2>19 DEF TakeIngress, CloseIngress
  <2>20. CASE UNCHANGED vars
    BY <2>20 DEF vars
  <2> QED
    BY <2>1, <2>2, <2>3, <2>4, <2>5, <2>8, <2>9, <2>11, <2>12, <2>14,
       <2>15, <2>16, <2>17, <2>18, <2>19, <2>20
    DEF Next, HandleStep, LoopStep, TakeCommand, EnvironmentStep
<1> QED
  BY <1>1, <1>2, <1>3, PTL DEF Spec, TypeOK

\* Every variable of the transport keeps its type; in particular the command
\* and ingress queues never exceed their capacities.
THEOREM TypeCorrect == Spec => []TypeOK
  BY DataCorrect, PTL

-----------------------------------------------------------------------------
(* The results given to the callers.                                       *)

\* Appending keeps every request in one place, if it is not there already.
LEMMA AppendOnce ==
  ASSUME NEW q \in Seq(Command), NEW c \in Command, Once(q),
         \A r \in Reqs : c = RequestCmd(r) => ~In(q, r)
  PROVE  Once(Append(q, c))
<1>1. /\ Len(Append(q, c)) = Len(q) + 1
      /\ Len(q) \in Nat
      /\ \A i \in 1..Len(q) : Append(q, c)[i] = q[i]
      /\ Append(q, c)[Len(q) + 1] = c
  OBVIOUS
<1>2. ASSUME c.kind = "request", NEW i \in 1..Len(q)
      PROVE  q[i] # c
  <2>1. PICK r \in Reqs : c = RequestCmd(r)
    BY <1>2 DEF Command, NotifyCmd, ReconciledCmd, ShutdownCmd
  <2> QED
    BY <2>1 DEF In
<1> QED
  BY <1>1, <1>2 DEF Once

\* Taking the head keeps every request in one place, and leaves no copy of
\* the one taken.
LEMMA TakeOnce ==
  ASSUME NEW q \in Seq(Command), q # <<>>, Once(q)
  PROVE  /\ Once(Tail(q))
         /\ \A r \in Reqs : Head(q) = RequestCmd(r) => ~In(Tail(q), r)
<1>1. /\ Len(q) \in Nat \ {0}
      /\ Len(Tail(q)) = Len(q) - 1
      /\ q[1] = Head(q)
      /\ \A i \in 1..Len(Tail(q)) : i + 1 \in 1..Len(q) /\ Tail(q)[i] = q[i + 1]
  BY TakeHead
<1>2. Once(Tail(q))
  <2> SUFFICES ASSUME NEW i \in 1..Len(Tail(q)), NEW j \in 1..Len(Tail(q)),
                      Tail(q)[i].kind = "request", Tail(q)[i] = Tail(q)[j]
               PROVE  i = j
    BY DEF Once
  <2>1. i + 1 = j + 1
    BY <1>1 DEF Once
  <2> QED
    BY <1>1, <2>1
<1>3. ASSUME NEW r \in Reqs, Head(q) = RequestCmd(r), In(Tail(q), r)
      PROVE  FALSE
  <2>1. PICK i \in 1..Len(Tail(q)) : Tail(q)[i] = RequestCmd(r)
    BY <1>3 DEF In
  <2>2. /\ 1 \in 1..Len(q) /\ i + 1 \in 1..Len(q)
        /\ q[1] = RequestCmd(r) /\ q[i + 1] = RequestCmd(r)
        /\ q[1].kind = "request"
    BY <1>1, <1>3, <2>1 DEF RequestCmd
  <2>3. 1 = i + 1
    BY <2>2 DEF Once
  <2> QED
    BY <1>1, <2>1, <2>3
<1> QED
  BY <1>2, <1>3

\* A step that leaves every request where it is, or takes it from the queue
\* into the hands of drive.
LEMMA SameRequests ==
  ASSUME RequestInv, LoopOwns', RepliesHandled', Once(commands'),
         \A r \in Reqs : /\ Unsent(r)' <=> Unsent(r)
                         /\ ~(Queued(r)' /\ InHand(r)'),
         UNCHANGED <<pending, callerVars, writes, executed>>
  PROVE  RequestInv'
BY DEF RequestInv, WrittenAtMostOnce, Located, Told, Truthful, callerVars

\* A step that touches no request, queue entry or oneshot.
LEMMA QuietStep ==
  ASSUME RequestInv, LoopOwns', RepliesHandled',
         UNCHANGED <<commands, frame, pending, callerVars, writes, executed>>
  PROVE  RequestInv'
<1>1. \A r \in Reqs : /\ Unsent(r)' <=> Unsent(r)
                      /\ ~(Queued(r)' /\ InHand(r)')
  BY DEF RequestInv, Located, Queued
<1>2. Once(commands')
  BY DEF RequestInv
<1> QED
  BY <1>1, <1>2, SameRequests

\* A step that only queues a command other than a request.
LEMMA OtherQueued ==
  ASSUME RequestInv, StateOK, RepliesHandled', loop # "stopped",
         NEW c \in {NotifyCmd, ReconciledCmd, ShutdownCmd},
         commands' = Append(commands, c),
         UNCHANGED <<loop, frame, pending, callerVars, writes, executed, replies>>
  PROVE  RequestInv'
<1>1. commands \in Seq(Command) /\ c \in Command
  BY DEF StateOK, Command
<1>2. \A r \in Reqs : c # RequestCmd(r)
  BY DEF RequestCmd, NotifyCmd, ReconciledCmd, ShutdownCmd
<1>3. \A r \in Reqs : Queued(r)' <=> Queued(r)
  BY <1>1, <1>2, AppendCommand DEF Queued
<1>4. Once(commands')
  BY <1>1, <1>2, AppendOnce DEF RequestInv
<1>5. LoopOwns'
  BY DEF RequestInv, LoopOwns
<1>6. \A r \in Reqs : ~(Queued(r) /\ InHand(r))
  BY DEF RequestInv, Located
<1> QED
  BY <1>3, <1>4, <1>5, <1>6, SameRequests

\* A step that only takes a command other than a request off the queue.
LEMMA OtherTaken ==
  ASSUME RequestInv, StateOK, RepliesHandled', commands # <<>>,
         Head(commands).kind # "request",
         commands' = Tail(commands), loop' = loop \/ loop' = "connecting",
         loop' = "connecting" => loop = "backoff",
         UNCHANGED <<frame, pending, callerVars, writes, executed, replies>>
  PROVE  RequestInv'
<1>1. \A r \in Reqs : Head(commands) # RequestCmd(r)
  BY DEF RequestCmd
<1>2. commands \in Seq(Command)
  BY DEF StateOK
<1>3. \A r \in Reqs : Queued(r)' <=> Queued(r)
  BY <1>1, <1>2, TakeHead DEF Queued
<1>4. Once(commands')
  BY <1>2, TakeOnce DEF RequestInv
<1>5. LoopOwns'
  BY DEF RequestInv, LoopOwns
<1>6. \A r \in Reqs : ~(Queued(r) /\ InHand(r))
  BY DEF RequestInv, Located
<1> QED
  BY <1>3, <1>4, <1>5, <1>6, SameRequests

\* What drive and connection_loop do to the requests when they give up a
\* connection: pending ones get Flushed, queued ones stay or are dropped.
LEMMA GiveUp ==
  ASSUME RequestInv, StateOK, RepliesHandled',
         pending' = {}, replies' = {}, ~Live', frame' = NoFrame,
         \A r \in Reqs : ~InHand(r),
         UNCHANGED <<call, outcome, writes, executed>>,
         \/ /\ slot' = Flushed /\ loop' # "stopped"
            /\ \/ UNCHANGED commands
               \/ /\ commands # <<>> /\ Head(commands).kind # "request"
                  /\ commands' = Tail(commands)
         \/ LoopReturns(Flushed)
  PROVE  RequestInv'
<1>1. /\ \A r \in Reqs : Queued(r) => r \notin pending
      /\ \A r \in Reqs : ~InHand(r)'
  BY DEF RequestInv, Located, NoFrame, RequestCmd
<1>2. CASE slot' = Flushed /\ loop' # "stopped" /\ ~LoopReturns(Flushed)
  <2>1. (\A r \in Reqs : Queued(r)' <=> Queued(r)) /\ Once(commands')
    <3>1. CASE UNCHANGED commands
      BY <3>1 DEF Queued, RequestInv
    <3>2. CASE /\ commands # <<>> /\ Head(commands).kind # "request"
               /\ commands' = Tail(commands)
      <4>1. \A r \in Reqs : Head(commands) # RequestCmd(r)
        BY <3>2 DEF RequestCmd
      <4>2. commands \in Seq(Command)
        BY DEF StateOK
      <4> QED
        BY <3>2, <4>1, <4>2, TakeHead, TakeOnce DEF Queued, RequestInv
    <3> QED
      BY <1>2, <3>1, <3>2
  <2>2. LoopOwns'
    BY <1>2 DEF LoopOwns, RequestInv
  <2>3. ASSUME NEW r \in Reqs
        PROVE  Located(r)' /\ Told(r)'
    <3>1. slot'[r] = IF r \in pending THEN "WrittenOutcomeUnknown" ELSE slot[r]
      BY <1>2 DEF Flushed
    <3> QED
      BY <1>1, <1>2, <2>1, <3>1 DEF RequestInv, Located, Told, Truthful
  <2> QED
    BY <2>1, <2>2, <2>3 DEF RequestInv, WrittenAtMostOnce
<1>3. CASE LoopReturns(Flushed)
  <2>1. \A r \in Reqs : ~Queued(r)'
    BY <1>3 DEF LoopReturns, Queued, In
  <2>2. LoopOwns' /\ Once(commands')
    BY <1>3 DEF LoopReturns, LoopOwns, Once
  <2>3. ASSUME NEW r \in Reqs
        PROVE  Located(r)' /\ Told(r)'
    <3>1. slot'[r] = IF Queued(r) THEN "dropped"
                     ELSE IF r \in pending THEN "WrittenOutcomeUnknown"
                     ELSE slot[r]
      BY <1>3 DEF LoopReturns, Flushed
    <3> QED
      BY <1>1, <1>3, <2>1, <3>1 DEF RequestInv, Located, Told, Truthful
  <2> QED
    BY <2>2, <2>3 DEF RequestInv, WrittenAtMostOnce
<1> QED
  BY <1>2, <1>3

\* The inductive invariant: where a request is (caller, queue, pending map,
\* nowhere) decides how often it was written, what its oneshot may hold and
\* what its caller may have been told.
THEOREM RequestsCorrect == Spec => []RequestInv
<1>1. Init => RequestInv
  BY DEF Init, RequestInv, WrittenAtMostOnce, Once, LoopOwns, RepliesHandled,
     Located, Told, Truthful, Queued, In, NoFrame, RequestCmd
<1>2. ASSUME TypeOK, RepliesHandled, RepliesHandled', RequestInv, [Next]_vars
      PROVE  RequestInv'
  <2> USE DEF ingressVars, daemonVars
  <2>1. StateOK
    BY <1>2 DEF TypeOK
  <2> SUFFICES ASSUME RequestInv, StateOK, RepliesHandled', [Next]_vars
               PROVE  RequestInv'
    BY <1>2, <2>1
  <2>2. commands \in Seq(Command)
    BY DEF StateOK
  <2>3. ASSUME NEW q \in Reqs, Call(q) \/ SendFails(q) \/ Answered(q)
                                \/ TimesOut(q)
        PROVE  RequestInv'
    <3>1. /\ UNCHANGED <<loop, commands, frame, pending, slot, writes, executed,
                         replies>>
          /\ \A r \in Reqs : r # q => call'[r] = call[r] /\ outcome'[r] = outcome[r]
      BY <2>3 DEF Call, SendFails, Answered, TimesOut, Return, StateOK
    <3>2. \A r \in Reqs : Queued(r)' <=> Queued(r)
      BY <3>1 DEF Queued
    <3>3. Located(q)' /\ Told(q)'
      <4>1. CASE Call(q)
        BY <3>1, <3>2, <4>1 DEF Call, RequestInv, Located, Told, Truthful,
           StateOK
      <4>2. CASE SendFails(q)
        <5>1. ~Unsent(q) /\ q \notin pending
          BY <4>2 DEF SendFails, RequestInv, Located
        <5> QED
          BY <3>1, <3>2, <4>2, <5>1
          DEF SendFails, Return, RequestInv, Located, Told, Truthful, StateOK
      <4>3. CASE Answered(q)
        BY <3>1, <3>2, <4>3
        DEF Answered, Return, RequestInv, Located, Told, Truthful, StateOK,
           Answer
      <4>4. CASE TimesOut(q)
        BY <3>1, <3>2, <4>4
        DEF TimesOut, Return, RequestInv, Located, Told, Truthful, StateOK
      <4> QED
        BY <2>3, <4>1, <4>2, <4>3, <4>4
    <3>4. ASSUME NEW r \in Reqs, r # q
          PROVE  Located(r)' /\ Told(r)'
      BY <3>1, <3>2, <3>4 DEF RequestInv, Located, Told, Truthful
    <3> QED
      BY <3>1, <3>3, <3>4 DEF RequestInv, WrittenAtMostOnce, LoopOwns
  <2>4. ASSUME NEW q \in Reqs, Enqueue(q)
        PROVE  RequestInv'
    <3>1. /\ RequestCmd(q) \in Command
          /\ \A r \in Reqs : RequestCmd(q) = RequestCmd(r) => r = q
      BY DEF Command, RequestCmd
    <3>2. ~Unsent(q) /\ q \notin pending
      BY <2>4 DEF Enqueue, RequestInv, Located
    <3>3. \A r \in Reqs : Queued(r)' <=> Queued(r) \/ r = q
      BY <2>2, <2>4, <3>1, AppendCommand DEF Enqueue, Queued
    <3>4. Once(commands')
      BY <2>2, <2>4, <3>1, <3>2, AppendOnce DEF Enqueue, RequestInv, Queued
    <3>5. ASSUME NEW r \in Reqs
          PROVE  Located(r)' /\ Told(r)'
      BY <2>4, <3>2, <3>3
      DEF Enqueue, RequestInv, Located, Told, Truthful, StateOK
    <3>6. LoopOwns'
      BY <2>4 DEF Enqueue, HasRoom, RequestInv, LoopOwns
    <3> QED
      BY <2>4, <3>4, <3>5, <3>6 DEF Enqueue, RequestInv, WrittenAtMostOnce
  <2>5. CASE Notify \/ MarkEnqueue \/ StopEnqueue
    BY <2>5, OtherQueued DEF Notify, MarkEnqueue, StopEnqueue, HasRoom
  <2>6. CASE MarkStore \/ MarkFails \/ StopCall \/ StopFails \/ DropHandles
             \/ TakeIngress \/ CloseIngress
    <3>1. /\ UNCHANGED <<loop, commands, frame, pending, callerVars, writes,
                         executed, replies>>
      BY <2>6 DEF MarkStore, MarkFails, StopCall, StopFails, DropHandles,
         TakeIngress, CloseIngress
    <3>2. LoopOwns'
      BY <3>1 DEF RequestInv, LoopOwns
    <3> QED
      BY <3>1, <3>2, QuietStep
  <2>7. CASE ConnectOk \/ InitializeWritten \/ ConnectFails \/ HandshakeFrame
             \/ InitializeAnswered \/ InitializeOk \/ BackoffElapses
             \/ Disconnected \/ ReadEvent \/ Ingest
    <3>1. /\ UNCHANGED <<commands, frame, pending, callerVars, writes, executed,
                         replies>>
          /\ loop # "writing" /\ loop' # "stopped"
          /\ Live' \/ ~Live
      BY <2>7 DEF ConnectOk, InitializeWritten, ConnectFails, HandshakeFrame,
         InitializeAnswered, InitializeOk, BackoffElapses, Disconnected,
         ReadEvent, Ingest
    <3>2. LoopOwns'
      BY <3>1 DEF RequestInv, LoopOwns
    <3> QED
      BY <3>1, <3>2, QuietStep
  <2>8. CASE RejectWhileDisconnected
    <3>1. CASE Head(commands).kind # "request"
      BY <2>8, <3>1, OtherTaken DEF RejectWhileDisconnected, callerVars
    <3>2. CASE Head(commands).kind = "request"
      <4>1. PICK q \in Reqs : Head(commands) = RequestCmd(q)
        BY <2>2, <2>8, <3>2, TakeHead
        DEF RejectWhileDisconnected, Command, NotifyCmd, ReconciledCmd,
           ShutdownCmd
      <4>2. /\ Once(commands')
            /\ ~Queued(q)'
            /\ Queued(q)
            /\ \A r \in Reqs \ {q} : Queued(r)' <=> Queued(r)
        BY <2>2, <2>8, <4>1, TakeHead, TakeOnce
        DEF RejectWhileDisconnected, RequestInv, Queued, RequestCmd
      <4>3. /\ slot' = [slot EXCEPT ![q] = "NotWritten"]
            /\ UNCHANGED <<frame, pending, call, outcome, writes, executed, replies>>
            /\ loop = "backoff" /\ loop' = "connecting"
        <5>1. Head(commands).req = q
          BY <4>1 DEF RequestCmd
        <5> QED
          BY <2>8, <3>2, <5>1 DEF RejectWhileDisconnected
      <4>4. ASSUME NEW r \in Reqs
            PROVE  Located(r)' /\ Told(r)'
        BY <4>2, <4>3 DEF RequestInv, Located, Told, Truthful, StateOK
      <4>5. LoopOwns'
        BY <4>3 DEF RequestInv, LoopOwns
      <4> QED
        BY <4>2, <4>3, <4>4, <4>5 DEF RequestInv, WrittenAtMostOnce
    <3> QED
      BY <3>1, <3>2
  <2>9. CASE StopWhileDisconnected \/ SocketClosed
    <3>1. pending = {} /\ frame = NoFrame
      BY <2>9 DEF StopWhileDisconnected, SocketClosed, RequestInv, LoopOwns
    <3>2. slot = Flushed
      BY <3>1 DEF Flushed, StateOK
    <3>3. /\ LoopReturns(Flushed) /\ pending' = {} /\ replies' = {}
          /\ loop' = "stopped" /\ frame' = NoFrame
          /\ UNCHANGED <<call, outcome, writes, executed>>
      BY <2>9, <3>1, <3>2 DEF StopWhileDisconnected, SocketClosed, LoopReturns
    <3>4. \A r \in Reqs : ~InHand(r)
      BY <3>1 DEF NoFrame, RequestCmd
    <3> QED
      BY <3>3, <3>4, GiveUp
  <2>10. CASE TakeFrame \/ StartControl \/ OtherWritten
    <3>1. \A r \in Reqs : /\ NoFrame # RequestCmd(r)
                          /\ ControlFrame # RequestCmd(r)
                          /\ RequestCmd(r).kind = "request"
      BY DEF NoFrame, ControlFrame, RequestCmd
    <3>2. UNCHANGED <<pending, callerVars, writes, executed>> /\ LoopOwns'
      BY <2>10 DEF TakeFrame, StartControl, OtherWritten, HeadIs, Writing,
         RequestInv, LoopOwns
    <3>3. Once(commands')
      BY <2>2, <2>10, TakeOnce DEF TakeFrame, StartControl, OtherWritten,
         HeadIs, RequestInv
    <3>4. ASSUME NEW r \in Reqs
          PROVE  Unsent(r)' <=> Unsent(r) /\ ~(Queued(r)' /\ InHand(r)')
      <4>1. CASE TakeFrame
        <5>1. frame = NoFrame
          BY <4>1 DEF TakeFrame, HeadIs, RequestInv, LoopOwns
        <5>2. /\ Queued(r) <=> Queued(r)' \/ Head(commands) = RequestCmd(r)
              /\ Head(commands) = RequestCmd(r) => ~Queued(r)'
          BY <2>2, <4>1, TakeHead, TakeOnce
          DEF TakeFrame, HeadIs, Queued, RequestInv
        <5> QED
          BY <3>1, <4>1, <5>1, <5>2 DEF TakeFrame
      <4>2. CASE StartControl
        BY <3>1, <4>2 DEF StartControl, RequestInv, LoopOwns, Queued
      <4>3. CASE OtherWritten
        BY <3>1, <4>3 DEF OtherWritten, Writing, Queued
      <4> QED
        BY <2>10, <4>1, <4>2, <4>3
    <3> QED
      BY <3>2, <3>3, <3>4, SameRequests
  <2>11. CASE WriteOk \/ WriteFails
    <3>1. PICK q \in Reqs : frame = RequestCmd(q)
      BY <2>11 DEF WriteOk, WriteFails, Writing, StateOK, Command, NotifyCmd,
         ReconciledCmd, ShutdownCmd, ControlFrame, NoFrame
    <3>2. /\ frame' = NoFrame /\ frame.req = q /\ frame.kind = "request"
          /\ UNCHANGED commands
      BY <2>11, <3>1 DEF WriteOk, WriteFails, RequestCmd
    <3>3. /\ Once(commands')
          /\ \A r \in Reqs : ~InHand(r)' /\ (Queued(r)' <=> Queued(r))
          /\ \A r \in Reqs \ {q} : ~InHand(r)
      BY <3>1, <3>2 DEF RequestInv, Queued, RequestCmd, NoFrame
    <3>4. /\ writes[q] = 0 /\ executed[q] = "no" /\ q \notin pending
          /\ ~Queued(q) /\ slot[q] = "empty"
      BY <3>1 DEF RequestInv, Located
    <3>5. CASE WriteOk
      <4>1. /\ pending' = pending \cup {q}
            /\ writes' = [writes EXCEPT ![q] = @ + 1]
            /\ UNCHANGED <<slot, call, outcome, executed, replies>>
            /\ loop' = "driving"
        BY <3>2, <3>5 DEF WriteOk, callerVars
      <4>2. writes'[q] = 1 /\ \A r \in Reqs \ {q} : writes'[r] = writes[r]
        BY <3>4, <4>1 DEF StateOK
      <4>3. Located(q)' /\ Told(q)'
        BY <3>1, <3>3, <3>4, <4>1, <4>2 DEF RequestInv, Located, Told, Truthful
      <4>4. ASSUME NEW r \in Reqs \ {q}
            PROVE  Located(r)' /\ Told(r)'
        BY <3>3, <4>1, <4>2 DEF RequestInv, Located, Told, Truthful
      <4>5. LoopOwns'
        BY <3>2, <4>1 DEF LoopOwns
      <4> QED
        BY <3>3, <4>2, <4>3, <4>4, <4>5 DEF RequestInv, WrittenAtMostOnce
    <3>6. CASE WriteFails
      <4>1. /\ pending' = {} /\ replies' = {} /\ loop' = "disconnected"
            /\ slot' = [Flushed EXCEPT ![q] = "NotWritten"]
            /\ UNCHANGED <<call, outcome, writes, executed>>
        BY <3>2, <3>6 DEF WriteFails
      <4>2. \A r \in Reqs : slot'[r] = IF r = q THEN "NotWritten"
                                      ELSE IF r \in pending THEN "WrittenOutcomeUnknown"
                                      ELSE slot[r]
        BY <4>1 DEF Flushed
      <4>3. Located(q)' /\ Told(q)'
        BY <3>1, <3>3, <3>4, <4>1, <4>2 DEF RequestInv, Located, Told, Truthful
      <4>4. ASSUME NEW r \in Reqs \ {q}
            PROVE  Located(r)' /\ Told(r)'
        BY <3>3, <4>1, <4>2 DEF RequestInv, Located, Told, Truthful
      <4>5. LoopOwns'
        BY <3>2, <4>1 DEF LoopOwns
      <4> QED
        BY <3>3, <4>1, <4>3, <4>4, <4>5 DEF RequestInv, WrittenAtMostOnce
    <3> QED
      BY <2>11, <3>5, <3>6
  <2>12. CASE TakeReconciled
    BY <2>12, OtherTaken DEF TakeReconciled, HeadIs
  <2>13. CASE TakeShutdown \/ OtherFails
    <3>1. /\ pending' = {} /\ replies' = {} /\ slot' = Flushed
          /\ loop' \in {"closing", "disconnected"}
          /\ UNCHANGED <<call, outcome, writes, executed>>
          /\ \/ UNCHANGED commands
             \/ /\ commands # <<>> /\ Head(commands).kind # "request"
                /\ commands' = Tail(commands)
      BY <2>13 DEF TakeShutdown, OtherFails, HeadIs
    <3>2. frame' = NoFrame /\ \A r \in Reqs : ~InHand(r)
      BY <2>13 DEF TakeShutdown, OtherFails, HeadIs, Writing, NoFrame,
         RequestCmd, RequestInv, LoopOwns
    <3> QED
      BY <3>1, <3>2, GiveUp
  <2>14. CASE QueueClosed \/ IngressClosed \/ ConnectionLost
    <3>1. /\ pending' = {} /\ replies' = {}
          /\ loop' \in {"stopped", "disconnected"}
          /\ UNCHANGED <<frame, call, outcome, writes, executed>>
          /\ loop # "writing"
          /\ \/ slot' = Flushed /\ UNCHANGED commands /\ loop' # "stopped"
             \/ LoopReturns(Flushed)
      BY <2>14 DEF QueueClosed, IngressClosed, ConnectionLost, LoopReturns
    <3>2. frame' = NoFrame /\ \A r \in Reqs : ~InHand(r)
      BY <3>1 DEF NoFrame, RequestCmd, RequestInv, LoopOwns
    <3> QED
      BY <3>1, <3>2, GiveUp
  <2>15. ASSUME NEW q \in Reqs, ReadResponse(q)
         PROVE  RequestInv'
    <3>1. /\ \A r \in Reqs : slot'[r] = IF r = q /\ q \in pending
                                        THEN executed[q] ELSE slot[r]
          /\ pending' = pending \ {q} /\ replies' = replies \ {q}
          /\ UNCHANGED <<commands, frame, call, outcome, writes, executed>>
          /\ loop = "driving" /\ loop' = "ingesting"
      BY <2>15 DEF ReadResponse, StateOK
    <3>2. \A r \in Reqs : Queued(r)' <=> Queued(r)
      BY <3>1 DEF Queued
    <3>3. executed[q] \in {"Ok", "Rejected"}
      BY <2>15 DEF ReadResponse, RequestInv, RepliesHandled, StateOK
    <3>4. ASSUME NEW r \in Reqs
          PROVE  Located(r)' /\ Told(r)'
      BY <3>1, <3>2, <3>3 DEF RequestInv, Located, Told, Truthful
    <3>5. LoopOwns'
      BY <3>1 DEF RequestInv, LoopOwns
    <3> QED
      BY <3>1, <3>4, <3>5 DEF RequestInv, WrittenAtMostOnce
  <2>16. ASSUME NEW q \in Reqs, NEW verdict \in {"Ok", "Rejected"},
                DaemonHandles(q, verdict)
         PROVE  RequestInv'
    <3>1. /\ executed[q] = "no" /\ executed'[q] = verdict /\ writes[q] > 0
          /\ \A r \in Reqs \ {q} : executed'[r] = executed[r]
          /\ UNCHANGED <<loop, commands, frame, pending, slot, call, outcome,
                         writes>>
          /\ replies' # replies => Live
      BY <2>16 DEF DaemonHandles, StateOK, callerVars
    <3>2. \A r \in Reqs : Queued(r)' <=> Queued(r)
      BY <3>1 DEF Queued
    <3>3. writes[q] = 1
      BY <3>1 DEF RequestInv, WrittenAtMostOnce, StateOK
    <3>4. Located(q)' /\ Told(q)'
      BY <3>1, <3>2, <3>3 DEF RequestInv, Located, Told, Truthful
    <3>5. ASSUME NEW r \in Reqs \ {q}
          PROVE  Located(r)' /\ Told(r)'
      BY <3>1, <3>2 DEF RequestInv, Located, Told, Truthful
    <3>6. LoopOwns'
      BY <3>1 DEF RequestInv, LoopOwns
    <3> QED
      BY <3>1, <3>4, <3>5, <3>6 DEF RequestInv, WrittenAtMostOnce
  <2>17. CASE UNCHANGED vars
    BY <2>17, QuietStep DEF vars, RequestInv, LoopOwns, callerVars
  <2> QED
    BY <2>3, <2>4, <2>5, <2>6, <2>7, <2>8, <2>9, <2>10, <2>11, <2>12, <2>13,
       <2>14, <2>15, <2>16, <2>17
    DEF Next, HandleStep, LoopStep, TakeCommand, WriteEnds, EnvironmentStep
<1> QED
  BY <1>1, <1>2, DataCorrect, PTL DEF Spec

\* NotWritten and Closed are safe to retry: the frame was not and will not
\* be written.
THEOREM OutcomesTruthful == Spec => []RefusedNeverWritten
<1>1. RequestInv => RefusedNeverWritten
  BY DEF RequestInv, Told, Truthful, RefusedNeverWritten
<1> QED
  BY <1>1, RequestsCorrect, PTL

\* No request is ever put on a socket twice.
THEOREM NeverRetransmitted == Spec => []WrittenAtMostOnce
<1>1. RequestInv => WrittenAtMostOnce
  BY DEF RequestInv
<1> QED
  BY <1>1, RequestsCorrect, PTL

\* A caller whose oneshot is empty is not forgotten.
THEOREM NobodyForgotten == Spec => []SomebodyWillAnswer
<1>1. RequestInv => SomebodyWillAnswer
  <2> SUFFICES ASSUME RequestInv, NEW r \in Reqs, call[r] = "waiting",
                      slot[r] = "empty"
               PROVE  \/ Queued(r) /\ loop # "stopped"
                      \/ InHand(r) /\ loop = "writing"
                      \/ r \in pending /\ Live
    BY DEF SomebodyWillAnswer
  <2>1. Unsent(r) \/ r \in pending
    BY DEF RequestInv, Located
  <2>2. Queued(r) => loop # "stopped"
    BY DEF RequestInv, LoopOwns, Queued, In
  <2>3. r \in pending => Live
    BY DEF RequestInv, LoopOwns
  <2>4. InHand(r) => loop = "writing"
    BY DEF RequestInv, LoopOwns, NoFrame, RequestCmd
  <2> QED
    BY <2>1, <2>2, <2>3, <2>4
<1> QED
  BY <1>1, RequestsCorrect, PTL

\* The transport implements the contract of its request calls: each step is
\* an Execute or a Return of the contract, or invisible to it.
THEOREM Refinement == Spec => ImplementsContract
<1>1. Init => Contract!Init
  BY DEF Init, Contract!Init
<1>2. ASSUME TypeOK, RequestInv, [Next]_vars
      PROVE  [Contract!Next]_(Contract!vars)
  <2> USE DEF Contract!vars, daemonVars, ingressVars, callerVars
  <2>1. ASSUME NEW r \in Reqs, Call(r) \/ SendFails(r) \/ Answered(r) \/ TimesOut(r)
        PROVE  [Contract!Next]_(Contract!vars)
    <3> DEFINE Returns(result) ==
                 /\ outcome[r] = "none"
                 /\ outcome' = [outcome EXCEPT ![r] = result]
                 /\ UNCHANGED executed
    <3>1. outcome[r] = "none" <=> call[r] # "returned"
      BY <1>2 DEF RequestInv, Told
    <3>2. CASE Call(r)
      <4>1. CASE UNCHANGED outcome
        BY <3>2, <4>1 DEF Call
      <4>2. CASE Returns("NotWritten")
        <5>1. executed[r] = "no"
          BY <1>2, <3>2 DEF Call, RequestInv, Located, TypeOK, StateOK
        <5> QED
          BY <4>2, <5>1 DEF Contract!Next, Contract!Return, Contract!Refused
      <4> QED
        BY <3>1, <3>2, <4>1, <4>2 DEF Call
    <3>3. CASE SendFails(r)
      <4>1. executed[r] = "no" /\ Returns("Closed")
        BY <1>2, <3>1, <3>3
        DEF SendFails, Return, RequestInv, Located, TypeOK, StateOK
      <4> QED
        BY <4>1 DEF Contract!Next, Contract!Return, Contract!Refused
    <3>4. CASE Answered(r)
      <4>1. Returns(IF slot[r] = "dropped" THEN "Closed" ELSE slot[r])
        BY <3>1, <3>4 DEF Answered, Return
      <4>2. CASE slot[r] \in {"dropped", "NotWritten"}
        <5>1. executed[r] = "no"
          BY <1>2, <4>2 DEF RequestInv, Located, Told, Truthful, TypeOK,
             StateOK
        <5> QED
          BY <4>1, <4>2, <5>1 DEF Contract!Next, Contract!Return,
             Contract!Refused
      <4>3. CASE slot[r] = "WrittenOutcomeUnknown"
        BY <4>1, <4>3 DEF Contract!Next, Contract!Return, Contract!Unknown
      <4>4. CASE slot[r] \in {"Ok", "Rejected"}
        <5>1. executed[r] = slot[r]
          BY <1>2, <4>4 DEF RequestInv, Told, Truthful
        <5> QED
          BY <4>1, <4>4, <5>1 DEF Contract!Next, Contract!Return
      <4> QED
        BY <1>2, <3>4, <4>2, <4>3, <4>4 DEF Answered, TypeOK, StateOK, Answer
    <3>5. CASE TimesOut(r)
      <4>1. Returns("TimedOut")
        BY <3>1, <3>5 DEF TimesOut, Return
      <4> QED
        BY <4>1 DEF Contract!Next, Contract!Return, Contract!Unknown
    <3> QED
      BY <2>1, <3>2, <3>3, <3>4, <3>5
  <2>2. ASSUME NEW r \in Reqs, NEW verdict \in {"Ok", "Rejected"},
               DaemonHandles(r, verdict)
        PROVE  [Contract!Next]_(Contract!vars)
    <3>1. outcome[r] \notin Contract!Refused
      BY <1>2, <2>2 DEF DaemonHandles, RequestInv, Told, Truthful, TypeOK,
         StateOK, Contract!Refused
    <3> QED
      BY <2>2, <3>1 DEF DaemonHandles, Contract!Next, Contract!Execute
  <2>3. ASSUME NEW r \in Reqs, Enqueue(r) \/ ReadResponse(r)
        PROVE  UNCHANGED <<outcome, executed>>
    BY <2>3 DEF Enqueue, ReadResponse
  <2>4. CASE Notify \/ MarkStore \/ MarkEnqueue \/ MarkFails \/ StopCall
             \/ StopEnqueue \/ StopFails \/ DropHandles
    BY <2>4 DEF Notify, MarkStore, MarkEnqueue, MarkFails, StopCall,
       StopEnqueue, StopFails, DropHandles
  <2>5. CASE ConnectOk \/ InitializeWritten \/ ConnectFails \/ HandshakeFrame
             \/ InitializeAnswered \/ InitializeOk \/ BackoffElapses
             \/ RejectWhileDisconnected \/ StopWhileDisconnected
             \/ Disconnected
    BY <2>5 DEF ConnectOk, InitializeWritten, ConnectFails, HandshakeFrame,
       InitializeAnswered, InitializeOk, BackoffElapses,
       RejectWhileDisconnected, StopWhileDisconnected, Disconnected
  <2>6. CASE TakeCommand \/ StartControl \/ WriteEnds \/ SocketClosed
             \/ QueueClosed \/ ReadEvent \/ Ingest \/ IngressClosed
             \/ ConnectionLost
    BY <2>6 DEF TakeCommand, WriteOk, WriteFails, TakeFrame, StartControl,
       WriteEnds, OtherWritten, OtherFails, SocketClosed, TakeReconciled,
       TakeShutdown, QueueClosed, ReadEvent, Ingest, IngressClosed,
       ConnectionLost
  <2>7. CASE TakeIngress \/ CloseIngress \/ UNCHANGED vars
    BY <2>7 DEF TakeIngress, CloseIngress, vars
  <2> QED
    BY <1>2, <2>1, <2>2, <2>3, <2>4, <2>5, <2>6, <2>7
    DEF Next, HandleStep, LoopStep, EnvironmentStep
<1> QED
  BY <1>1, <1>2, TypeCorrect, RequestsCorrect, PTL
  DEF Spec, ImplementsContract, Contract!Spec

\* After shutdown has returned nothing is written: it returns only when the
\* loop that owns the socket is gone.
THEOREM ShutdownIsFinal == Spec => NothingWrittenAfterShutdown
<1> DEFINE Gone == stop = "returned" => loop = "stopped"
<1>1. Init => Gone
  BY DEF Init
<1>2. Gone /\ [Next]_vars => Gone'
  BY DEF vars, Next, HandleStep, LoopStep, EnvironmentStep, TakeCommand, Call,
     Enqueue, SendFails, Answered, TimesOut, Return, Notify, MarkStore,
     MarkEnqueue, MarkFails, StopCall, StopEnqueue, StopFails, DropHandles,
     LoopReturns, ConnectOk, InitializeWritten, ConnectFails, HandshakeFrame,
     InitializeAnswered, InitializeOk, BackoffElapses, RejectWhileDisconnected,
     StopWhileDisconnected, Disconnected, HeadIs, Writing, WriteOk, WriteFails,
     TakeFrame, StartControl, WriteEnds, OtherWritten, OtherFails,
     SocketClosed, TakeReconciled, TakeShutdown, QueueClosed, ReadResponse,
     ReadEvent, Ingest, IngressClosed, ConnectionLost, DaemonHandles,
     TakeIngress, CloseIngress
<1>3. Gone /\ [Next]_vars => [stop = "returned" => UNCHANGED writes]_vars
  BY DEF vars, daemonVars, Next, HandleStep, LoopStep, EnvironmentStep,
     TakeCommand, Call, Enqueue, SendFails, Answered, TimesOut, Return, Notify,
     MarkStore, MarkEnqueue, MarkFails, StopCall, StopEnqueue, StopFails,
     DropHandles, ConnectOk, InitializeWritten, ConnectFails, HandshakeFrame,
     InitializeAnswered, InitializeOk, BackoffElapses, RejectWhileDisconnected,
     StopWhileDisconnected, Disconnected, HeadIs, Writing, WriteOk, WriteFails,
     TakeFrame, StartControl, WriteEnds, OtherWritten, OtherFails,
     SocketClosed, TakeReconciled, TakeShutdown, QueueClosed, ReadResponse,
     ReadEvent, Ingest, IngressClosed, ConnectionLost, DaemonHandles,
     TakeIngress, CloseIngress
<1> QED
  BY <1>1, <1>2, <1>3, PTL DEF Spec, NothingWrittenAfterShutdown
=============================================================================
