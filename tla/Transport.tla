----------------------------- MODULE Transport -----------------------------
(***************************************************************************)
(* The websocket transport of codex-control (transport/src/lib.rs): the    *)
(* handle that application tasks call (request_inner, notify,              *)
(* mark_reconciled, shutdown), the single connection_loop task that owns   *)
(* the socket, and the daemon at the other end of it.                      *)
(*                                                                         *)
(* The caller and the loop share an mpsc queue of commands, one oneshot    *)
(* per request and the atomic flag reconcile_ready.  The model keeps every *)
(* point at which another task can run between two of those accesses.      *)
(* Payloads, methods, ids, frame contents and durations are abstracted: a  *)
(* request is identified with its RpcId (fetch_add never repeats one), and *)
(* a timer may fire whenever the code is waiting on it.  Writing to the    *)
(* socket, and closing it, are waits that no timer ends.                   *)
(***************************************************************************)
EXTENDS Naturals, Sequences

CONSTANTS
  Reqs,        \* requests made through the handle, each made once
  Actions,     \* those made with request_action, behind the gate
  QueueCap,    \* capacity of the command queue (256 in the code)
  IngressCap,  \* capacity of the authoritative ingress queue (8192)
  MaxConns     \* bound: connections that get as far as drive

ASSUME TransportAssumption ==
  /\ Actions \subseteq Reqs
  /\ QueueCap \in Nat \ {0}
  /\ IngressCap \in Nat \ {0}
  /\ MaxConns \in Nat

VARIABLES
  loop,        \* where connection_loop is
  phase,       \* Health.phase as last published
  conn,        \* number of connections initialized so far
  ready,       \* reconcile_ready
  commands,    \* the command queue
  frame,       \* what drive is writing to the socket
  pending,     \* keys of drive's pending map
  slot,        \* slot[r]: content of r's oneshot
  call,        \* call[r]: progress of the request_inner call of r
  outcome,     \* outcome[r]: what that call returned
  mark,        \* progress of mark_reconciled
  stop,        \* progress of shutdown
  handles,     \* some TransportHandle is still alive
  ingress,     \* frames in the ingress queue
  ingressOpen, \* the ingress receiver is still alive
  writes,      \* writes[r]: times r's frame was written to a socket
  wroteOn,     \* wroteOn[r]: connection r was last written on
  executed,    \* executed[r]: what the daemon did with r
  replies      \* responses on the live connection, not yet read

callerVars == <<slot, call, outcome>>
daemonVars == <<writes, wroteOn, executed, replies>>
ingressVars == <<ingress, ingressOpen>>
vars == <<loop, phase, conn, ready, commands, frame, pending, slot, call,
          outcome, mark, stop, handles, ingress, ingressOpen,
          writes, wroteOn, executed, replies>>

RequestCmd(r) == [kind |-> "request", req |-> r]
NotifyCmd     == [kind |-> "notify"]
ReconciledCmd == [kind |-> "reconciled"]
ShutdownCmd   == [kind |-> "shutdown"]
Command == {RequestCmd(r) : r \in Reqs}
             \cup {NotifyCmd, ReconciledCmd, ShutdownCmd}

\* A ping, or the pong that answers one.
ControlFrame == [kind |-> "control"]
NoFrame      == [kind |-> "none"]

Phase == {"Connecting", "Handshaking", "Reconciling", "Connected",
          "Degraded", "Stopped"}
Answer == {"Ok", "Rejected", "NotWritten", "WrittenOutcomeUnknown"}
Outcome == Answer \cup {"TimedOut", "Closed"}

FlagsOK ==
  /\ ready \in BOOLEAN
  /\ handles \in BOOLEAN
  /\ ingressOpen \in BOOLEAN

StateOK ==
  /\ loop \in {"connecting", "greeting", "handshaking", "acknowledging",
               "backoff", "driving", "writing", "ingesting", "closing",
               "disconnected", "stopped"}
  /\ phase \in Phase
  /\ conn \in 0..MaxConns
  /\ commands \in Seq(Command)
  /\ Len(commands) <= QueueCap
  /\ frame \in Command \cup {ControlFrame, NoFrame}
  /\ pending \subseteq Reqs
  /\ slot \in [Reqs -> Answer \cup {"empty", "dropped"}]
  /\ call \in [Reqs -> {"idle", "sending", "waiting", "returned"}]
  /\ outcome \in [Reqs -> Outcome \cup {"none"}]
  /\ mark \in {"idle", "sending", "waiting"}
  /\ stop \in {"idle", "sending", "waiting", "returned"}
  /\ ingress \in 0..IngressCap
  /\ writes \in [Reqs -> Nat]
  /\ wroteOn \in [Reqs -> 0..MaxConns]
  /\ executed \in [Reqs -> {"no", "Ok", "Rejected"}]
  /\ replies \subseteq Reqs

TypeOK == FlagsOK /\ StateOK

Init ==
  /\ loop = "connecting"
  /\ phase = "Connecting"
  /\ conn = 0
  /\ ready = FALSE
  /\ commands = <<>>
  /\ frame = NoFrame
  /\ pending = {}
  /\ slot = [r \in Reqs |-> "empty"]
  /\ call = [r \in Reqs |-> "idle"]
  /\ outcome = [r \in Reqs |-> "none"]
  /\ mark = "idle"
  /\ stop = "idle"
  /\ handles = TRUE
  /\ ingress = 0
  /\ ingressOpen = TRUE
  /\ writes = [r \in Reqs |-> 0]
  /\ wroteOn = [r \in Reqs |-> 0]
  /\ executed = [r \in Reqs |-> "no"]
  /\ replies = {}

\* Request r is in the queue q of commands.
In(q, r) == \E i \in 1..Len(q) : q[i] = RequestCmd(r)
Queued(r) == In(commands, r)
HasRoom == loop # "stopped" /\ Len(commands) < QueueCap

\* drive serves a connection.
Live == loop \in {"driving", "writing", "ingesting"}

\* connection_loop awaits socket.send or socket.close.
InWrite == loop \in {"greeting", "acknowledging", "writing", "closing"}

-----------------------------------------------------------------------------
(* The handle: request_inner.                                              *)

\* request_inner up to the send: the gate is read here, before the request
\* is anywhere near the socket.
Call(r) ==
  /\ handles
  /\ call[r] = "idle"
  /\ IF r \in Actions /\ ~ready
     THEN /\ call' = [call EXCEPT ![r] = "returned"]
          /\ outcome' = [outcome EXCEPT ![r] = "NotWritten"]
     ELSE /\ call' = [call EXCEPT ![r] = "sending"]
          /\ UNCHANGED outcome
  /\ UNCHANGED <<loop, phase, conn, ready, commands, frame, pending, slot,
                 mark, stop, handles, ingressVars, daemonVars>>

\* Mutant of Enqueue: an unbounded queue.
EnqueueUnbounded(r) ==
  /\ call[r] = "sending"
  /\ loop # "stopped"
  /\ commands' = Append(commands, RequestCmd(r))
  /\ call' = [call EXCEPT ![r] = "waiting"]
  /\ UNCHANGED <<loop, phase, conn, ready, frame, pending, slot, outcome, mark,
                 stop, handles, ingressVars, daemonVars>>

\* commands.send(..).await: waits while the queue is full.
Enqueue(r) ==
  /\ call[r] = "sending"
  /\ HasRoom
  /\ commands' = Append(commands, RequestCmd(r))
  /\ call' = [call EXCEPT ![r] = "waiting"]
  /\ UNCHANGED <<loop, phase, conn, ready, frame, pending, slot, outcome, mark,
                 stop, handles, ingressVars, daemonVars>>

Return(r, result) ==
  /\ call' = [call EXCEPT ![r] = "returned"]
  /\ outcome' = [outcome EXCEPT ![r] = result]
  /\ UNCHANGED <<loop, phase, conn, ready, commands, frame, pending, slot,
                 mark, stop, handles, ingressVars, daemonVars>>

\* The receiver is gone, so the send fails.
SendFails(r) ==
  /\ call[r] = "sending"
  /\ loop = "stopped"
  /\ Return(r, "Closed")

\* The oneshot was answered, or its sender dropped with the queue.
Answered(r) ==
  /\ call[r] = "waiting"
  /\ slot[r] # "empty"
  /\ Return(r, IF slot[r] = "dropped" THEN "Closed" ELSE slot[r])

\* request_timeout elapsed.  The command stays wherever it is.
TimesOut(r) ==
  /\ call[r] = "waiting"
  /\ slot[r] = "empty"
  /\ Return(r, "TimedOut")

\* notify: fire and forget, through the same queue.
Notify ==
  /\ handles
  /\ HasRoom
  /\ commands' = Append(commands, NotifyCmd)
  /\ UNCHANGED <<loop, phase, conn, ready, frame, pending, callerVars, mark,
                 stop, handles, ingressVars, daemonVars>>

-----------------------------------------------------------------------------
(* The handle: mark_reconciled and shutdown.                               *)

\* The flag is stored before the loop hears of it.
MarkStore ==
  /\ handles
  /\ mark = "idle"
  /\ ready' = TRUE
  /\ mark' = "sending"
  /\ UNCHANGED <<loop, phase, conn, commands, frame, pending, callerVars, stop,
                 handles, ingressVars, daemonVars>>

MarkEnqueue ==
  /\ mark = "sending"
  /\ HasRoom
  /\ commands' = Append(commands, ReconciledCmd)
  /\ mark' = "waiting"
  /\ UNCHANGED <<loop, phase, conn, ready, frame, pending, callerVars, stop,
                 handles, ingressVars, daemonVars>>

MarkFails ==
  /\ mark = "sending"
  /\ loop = "stopped"
  /\ ready' = FALSE
  /\ mark' = "idle"
  /\ UNCHANGED <<loop, phase, conn, commands, frame, pending, callerVars, stop,
                 handles, ingressVars, daemonVars>>

StopCall ==
  /\ handles
  /\ stop = "idle"
  /\ stop' = "sending"
  /\ UNCHANGED <<loop, phase, conn, ready, commands, frame, pending,
                 callerVars, mark, handles, ingressVars, daemonVars>>

\* Mutant of StopEnqueue: shutdown does not wait for the loop.
StopEnqueueNoWait ==
  /\ stop = "sending"
  /\ HasRoom
  /\ commands' = Append(commands, ShutdownCmd)
  /\ stop' = "returned"
  /\ UNCHANGED <<loop, phase, conn, ready, frame, pending, callerVars, mark,
                 handles, ingressVars, daemonVars>>

StopEnqueue ==
  /\ stop = "sending"
  /\ HasRoom
  /\ commands' = Append(commands, ShutdownCmd)
  /\ stop' = "waiting"
  /\ UNCHANGED <<loop, phase, conn, ready, frame, pending, callerVars, mark,
                 handles, ingressVars, daemonVars>>

StopFails ==
  /\ stop = "sending"
  /\ loop = "stopped"
  /\ stop' = "returned"
  /\ UNCHANGED <<loop, phase, conn, ready, commands, frame, pending,
                 callerVars, mark, handles, ingressVars, daemonVars>>

\* The last clone of the handle is dropped; no call can be in progress.
DropHandles ==
  /\ handles
  /\ \A r \in Reqs : call[r] \in {"idle", "returned"}
  /\ mark = "idle"
  /\ stop \in {"idle", "returned"}
  /\ handles' = FALSE
  /\ UNCHANGED <<loop, phase, conn, ready, commands, frame, pending,
                 callerVars, mark, stop, ingressVars, daemonVars>>

HandleStep ==
  \/ \E r \in Reqs :
       Call(r) \/ Enqueue(r) \/ SendFails(r) \/ Answered(r) \/ TimesOut(r)
  \/ Notify
  \/ MarkStore \/ MarkEnqueue \/ MarkFails
  \/ StopCall \/ StopEnqueue \/ StopFails
  \/ DropHandles

-----------------------------------------------------------------------------
(* connection_loop returns: its receiver is dropped, and with it every     *)
(* command still queued and the oneshot each one carries, so whoever waits *)
(* on one of them returns.                                                 *)

LoopReturns(slots) ==
  /\ loop' = "stopped"
  /\ commands' = <<>>
  /\ slot' = [r \in Reqs |-> IF Queued(r) THEN "dropped" ELSE slots[r]]
  /\ mark' = IF mark = "waiting" THEN "idle" ELSE mark
  /\ stop' = IF stop = "waiting" THEN "returned" ELSE stop
  /\ replies' = {}

\* Mutant of Flushed: what was pending is called not written.
FlushedNotWritten == [r \in Reqs |-> IF r \in pending THEN "NotWritten"
                                                      ELSE slot[r]]

\* drive's last lines: every pending request is told its outcome is unknown.
Flushed == [r \in Reqs |-> IF r \in pending THEN "WrittenOutcomeUnknown"
                                            ELSE slot[r]]

-----------------------------------------------------------------------------
(* connection_loop outside drive.                                          *)

\* connect succeeded; initialize starts to write its request.
ConnectOk ==
  /\ loop = "connecting"
  /\ loop' = "greeting"
  /\ phase' = "Handshaking"
  /\ UNCHANGED <<conn, ready, commands, frame, pending, callerVars, mark, stop,
                 handles, ingressVars, daemonVars>>

InitializeWritten ==
  /\ loop = "greeting"
  /\ loop' = "handshaking"
  /\ UNCHANGED <<phase, conn, ready, commands, frame, pending, callerVars,
                 mark, stop, handles, ingressVars, daemonVars>>

\* connect or initialize failed.  The flag reconcile_ready is left alone.
ConnectFails ==
  /\ loop \in {"connecting", "greeting", "handshaking", "acknowledging"}
  /\ loop' = "backoff"
  /\ phase' = "Degraded"
  /\ UNCHANGED <<conn, ready, commands, frame, pending, callerVars, mark, stop,
                 handles, ingressVars, daemonVars>>

\* Any other frame read while initialize waits for its response.
HandshakeFrame ==
  /\ loop = "handshaking"
  /\ ingressOpen
  /\ ingress < IngressCap
  /\ ingress' = ingress + 1
  /\ UNCHANGED <<loop, phase, conn, ready, commands, frame, pending,
                 callerVars, mark, stop, handles, ingressOpen, daemonVars>>

\* The response of initialize went through the ingress queue; the
\* notification "initialized" is being written.
InitializeAnswered ==
  /\ loop = "handshaking"
  /\ ingressOpen
  /\ ingress < IngressCap
  /\ ingress' = ingress + 1
  /\ loop' = "acknowledging"
  /\ UNCHANGED <<phase, conn, ready, commands, frame, pending, callerVars,
                 mark, stop, handles, ingressOpen, daemonVars>>

\* initialize succeeded: the gate is closed and drive starts with an empty
\* pending map.
InitializeOk ==
  /\ loop = "acknowledging"
  /\ conn < MaxConns
  /\ conn' = conn + 1
  /\ ready' = FALSE
  /\ phase' = "Reconciling"
  /\ loop' = "driving"
  /\ UNCHANGED <<commands, frame, pending, callerVars, mark, stop, handles,
                 ingressVars, daemonVars>>

BackoffElapses ==
  /\ loop = "backoff"
  /\ loop' = "connecting"
  /\ phase' = "Connecting"
  /\ UNCHANGED <<conn, ready, commands, frame, pending, callerVars, mark, stop,
                 handles, ingressVars, daemonVars>>

\* reject_while_disconnected, for a command that does not stop the loop; the
\* loop then tries to connect again.
RejectWhileDisconnected ==
  /\ loop = "backoff"
  /\ commands # <<>>
  /\ Head(commands).kind # "shutdown"
  /\ commands' = Tail(commands)
  /\ slot' = IF Head(commands).kind = "request"
             THEN [slot EXCEPT ![Head(commands).req] = "NotWritten"]
             ELSE slot
  /\ mark' = IF Head(commands).kind = "reconciled" THEN "idle" ELSE mark
  /\ loop' = "connecting"
  /\ phase' = "Connecting"
  /\ UNCHANGED <<conn, ready, frame, pending, call, outcome, stop, handles,
                 ingressVars, daemonVars>>

\* Mutant of StopWhileDisconnected: shutdown is dropped like a notification.
DropWhileDisconnected ==
  /\ loop = "backoff"
  /\ commands # <<>> /\ Head(commands).kind = "shutdown"
  /\ commands' = Tail(commands)
  /\ loop' = "connecting"
  /\ phase' = "Connecting"
  /\ UNCHANGED <<conn, ready, frame, pending, callerVars, mark, stop, handles,
                 ingressVars, daemonVars>>

\* reject_while_disconnected, for shutdown and for a closed queue.
StopWhileDisconnected ==
  /\ loop = "backoff"
  /\ \/ commands # <<>> /\ Head(commands).kind = "shutdown"
     \/ commands = <<>> /\ ~handles
  /\ LoopReturns(slot)
  /\ UNCHANGED <<phase, conn, ready, frame, pending, call, outcome, handles,
                 ingressVars, writes, wroteOn, executed>>

\* connection_loop after drive returned Disconnected: straight back to
\* connecting, with no backoff.
Disconnected ==
  /\ loop = "disconnected"
  /\ ready' = FALSE
  /\ loop' = "connecting"
  /\ phase' = "Connecting"
  /\ UNCHANGED <<conn, commands, frame, pending, callerVars, mark, stop,
                 handles, ingressVars, daemonVars>>

-----------------------------------------------------------------------------
(* drive.                                                                  *)

HeadIs(kind) ==
  /\ loop = "driving"
  /\ commands # <<>>
  /\ Head(commands).kind = kind

\* A request or a notification is off the queue; socket.send(..).await waits
\* for the peer to read, and the whole select! waits with it.
TakeFrame ==
  /\ HeadIs("request") \/ HeadIs("notify")
  /\ frame' = Head(commands)
  /\ commands' = Tail(commands)
  /\ loop' = "writing"
  /\ UNCHANGED <<phase, conn, ready, pending, callerVars, mark, stop, handles,
                 ingressVars, daemonVars>>

\* A ping came in, or the tick found the connection idle.
StartControl ==
  /\ loop = "driving"
  /\ frame' = ControlFrame
  /\ loop' = "writing"
  /\ UNCHANGED <<phase, conn, ready, commands, pending, callerVars, mark, stop,
                 handles, ingressVars, daemonVars>>

Writing(kind) == loop = "writing" /\ frame.kind = kind

\* A request is pending from here on.
WriteOk ==
  /\ Writing("request")
  /\ LET r == frame.req
     IN  /\ pending' = pending \cup {r}
         /\ writes' = [writes EXCEPT ![r] = @ + 1]
         /\ wroteOn' = [wroteOn EXCEPT ![r] = conn]
  /\ frame' = NoFrame
  /\ loop' = "driving"
  /\ UNCHANGED <<phase, conn, ready, commands, callerVars, mark, stop, handles,
                 ingressVars, executed, replies>>

\* Mutant of WriteFails: the request waits for the next connection.
WriteFailsKeeps ==
  /\ Writing("request")
  /\ slot' = [Flushed EXCEPT ![frame.req] = "NotWritten"]
  /\ pending' = {}
  /\ loop' = "disconnected"
  /\ replies' = {}
  /\ UNCHANGED <<phase, conn, ready, commands, frame, call, outcome, mark, stop,
                 handles, ingressVars, writes, wroteOn, executed>>

\* socket.send failed: this request was not written, the others pending on
\* the connection were.
WriteFails ==
  /\ Writing("request")
  /\ slot' = [Flushed EXCEPT ![frame.req] = "NotWritten"]
  /\ pending' = {}
  /\ frame' = NoFrame
  /\ loop' = "disconnected"
  /\ replies' = {}
  /\ UNCHANGED <<phase, conn, ready, commands, call, outcome, mark, stop,
                 handles, ingressVars, writes, wroteOn, executed>>

\* Any other frame is written, or it is a pong, whose failure is ignored.
OtherWritten ==
  /\ Writing("notify") \/ Writing("control")
  /\ frame' = NoFrame
  /\ loop' = "driving"
  /\ UNCHANGED <<phase, conn, ready, commands, pending, callerVars, mark, stop,
                 handles, ingressVars, daemonVars>>

OtherFails ==
  /\ Writing("notify") \/ Writing("control")
  /\ slot' = Flushed
  /\ pending' = {}
  /\ frame' = NoFrame
  /\ loop' = "disconnected"
  /\ replies' = {}
  /\ UNCHANGED <<phase, conn, ready, commands, call, outcome, mark, stop,
                 handles, ingressVars, writes, wroteOn, executed>>

TakeReconciled ==
  /\ HeadIs("reconciled")
  /\ commands' = Tail(commands)
  /\ ready' = TRUE
  /\ phase' = "Connected"
  /\ mark' = "idle"
  /\ UNCHANGED <<loop, conn, frame, pending, callerVars, stop, handles,
                 ingressVars, daemonVars>>

\* drive returns with the oneshot of shutdown; socket.close(None).await goes
\* before the answer.
TakeShutdown ==
  /\ HeadIs("shutdown")
  /\ commands' = Tail(commands)
  /\ slot' = Flushed
  /\ pending' = {}
  /\ loop' = "closing"
  /\ replies' = {}
  /\ UNCHANGED <<phase, conn, ready, frame, call, outcome, mark, stop, handles,
                 ingressVars, writes, wroteOn, executed>>

\* The close has ended, well or badly; the oneshot is answered.
SocketClosed ==
  /\ loop = "closing"
  /\ LoopReturns(slot)
  /\ phase' = "Stopped"
  /\ UNCHANGED <<conn, ready, frame, pending, call, outcome, handles,
                 ingressVars, writes, wroteOn, executed>>

\* commands.recv() returned None.
QueueClosed ==
  /\ loop = "driving"
  /\ commands = <<>>
  /\ ~handles
  /\ pending' = {}
  /\ LoopReturns(Flushed)
  /\ UNCHANGED <<phase, conn, ready, frame, call, outcome, handles,
                 ingressVars, writes, wroteOn, executed>>

\* Mutant of ReadResponse: responses matched to requests by arrival.
ReadResponseForAny(r) ==
  /\ loop = "driving"
  /\ r \in replies
  /\ replies' = replies \ {r}
  /\ \E q \in pending :
       /\ pending' = pending \ {q}
       /\ slot' = [slot EXCEPT ![q] = executed[r]]
  /\ loop' = "ingesting"
  /\ UNCHANGED <<phase, conn, ready, commands, frame, call, outcome, mark,
                 stop, handles, ingressVars, writes, wroteOn, executed>>

\* A response: its requester is answered, then the frame goes to ingress.
ReadResponse(r) ==
  /\ loop = "driving"
  /\ r \in replies
  /\ replies' = replies \ {r}
  /\ pending' = pending \ {r}
  /\ slot' = IF r \in pending THEN [slot EXCEPT ![r] = executed[r]] ELSE slot
  /\ loop' = "ingesting"
  /\ UNCHANGED <<phase, conn, ready, commands, frame, call, outcome, mark,
                 stop, handles, ingressVars, writes, wroteOn, executed>>

\* Any other well-formed frame.
ReadEvent ==
  /\ loop = "driving"
  /\ loop' = "ingesting"
  /\ UNCHANGED <<phase, conn, ready, commands, frame, pending, callerVars,
                 mark, stop, handles, ingressVars, daemonVars>>

\* ingress.send(event).await: waits while ingress is full, and the whole
\* select! waits with it.
Ingest ==
  /\ loop = "ingesting"
  /\ ingressOpen
  /\ ingress < IngressCap
  /\ ingress' = ingress + 1
  /\ loop' = "driving"
  /\ UNCHANGED <<phase, conn, ready, commands, frame, pending, callerVars,
                 mark, stop, handles, ingressOpen, daemonVars>>

IngressClosed ==
  /\ loop = "ingesting"
  /\ ~ingressOpen
  /\ pending' = {}
  /\ LoopReturns(Flushed)
  /\ UNCHANGED <<phase, conn, ready, frame, call, outcome, handles,
                 ingressVars, writes, wroteOn, executed>>

\* Mutant of ConnectionLost: a pending request is sent again.
ConnectionLostResends ==
  /\ loop = "driving"
  /\ \E r \in pending : commands' = Append(commands, RequestCmd(r))
  /\ pending' = {}
  /\ loop' = "disconnected"
  /\ replies' = {}
  /\ UNCHANGED <<phase, conn, ready, frame, callerVars, mark, stop, handles,
                 ingressVars, writes, wroteOn, executed>>

\* Mutant of ConnectionLost: pending requests are left to their timeouts.
ConnectionLostForgets ==
  /\ loop = "driving"
  /\ pending' = {}
  /\ loop' = "disconnected"
  /\ replies' = {}
  /\ UNCHANGED <<phase, conn, ready, commands, frame, callerVars, mark, stop,
                 handles, ingressVars, writes, wroteOn, executed>>

\* End of stream, a read error, a close frame, text that is not JSON, or two
\* idle timeouts without a frame.
ConnectionLost ==
  /\ loop = "driving"
  /\ slot' = Flushed
  /\ pending' = {}
  /\ loop' = "disconnected"
  /\ replies' = {}
  /\ UNCHANGED <<phase, conn, ready, commands, frame, call, outcome, mark,
                 stop, handles, ingressVars, writes, wroteOn, executed>>

TakeCommand == TakeFrame \/ TakeReconciled \/ TakeShutdown

WriteEnds == WriteOk \/ WriteFails \/ OtherWritten \/ OtherFails

LoopStep ==
  \/ ConnectOk \/ InitializeWritten \/ ConnectFails \/ HandshakeFrame
  \/ InitializeAnswered \/ InitializeOk
  \/ BackoffElapses \/ RejectWhileDisconnected \/ StopWhileDisconnected
  \/ Disconnected \/ TakeCommand \/ StartControl \/ WriteEnds
  \/ SocketClosed \/ QueueClosed \/ (\E r \in Reqs : ReadResponse(r))
  \/ ReadEvent \/ Ingest \/ IngressClosed \/ ConnectionLost

-----------------------------------------------------------------------------
(* The environment: the daemon, and the task that drains the ingress.      *)

\* The daemon handles a frame it was sent, at most once, possibly after the
\* connection it came on is gone; the reply needs that connection.
DaemonHandles(r, verdict) ==
  /\ writes[r] > 0
  /\ executed[r] = "no"
  /\ executed' = [executed EXCEPT ![r] = verdict]
  /\ replies' = IF wroteOn[r] = conn /\ Live THEN replies \cup {r}
                                           ELSE replies
  /\ UNCHANGED <<loop, phase, conn, ready, commands, frame, pending,
                 callerVars, mark, stop, handles, ingressVars, writes,
                 wroteOn>>

TakeIngress ==
  /\ ingressOpen
  /\ ingress > 0
  /\ ingress' = ingress - 1
  /\ UNCHANGED <<loop, phase, conn, ready, commands, frame, pending,
                 callerVars, mark, stop, handles, ingressOpen, daemonVars>>

CloseIngress ==
  /\ ingressOpen
  /\ ingressOpen' = FALSE
  /\ ingress' = 0
  /\ UNCHANGED <<loop, phase, conn, ready, commands, frame, pending,
                 callerVars, mark, stop, handles, daemonVars>>

EnvironmentStep ==
  \/ \E r \in Reqs, verdict \in {"Ok", "Rejected"} : DaemonHandles(r, verdict)
  \/ TakeIngress
  \/ CloseIngress

Next == HandleStep \/ LoopStep \/ EnvironmentStep

Spec == Init /\ [][Next]_vars
=============================================================================
