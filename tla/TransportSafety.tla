-------------------------- MODULE TransportSafety --------------------------
(***************************************************************************)
(* Properties of the transport: what an outcome tells a caller, and what   *)
(* shutdown leaves behind.                                                 *)
(***************************************************************************)
EXTENDS Transport

Contract == INSTANCE RequestContract

\* Seen by its caller only, the transport implements the contract of
\* RequestError: nothing refused is ever handled, and an answer is the one
\* the daemon gave to this very request.
ImplementsContract == Contract!Spec

\* drive is writing the frame of request r, or has taken it to do so.
InHand(r) == frame = RequestCmd(r)

\* The loop may yet write r.
Unsent(r) == Queued(r) \/ InHand(r)

\* A request is put on a socket at most once, whatever connections come and
\* go (drive never retransmits, the queue and pending never share a request).
WrittenAtMostOnce == \A r \in Reqs : writes[r] <= 1

\* NotWritten and Closed invite a retry: the frame was not written, and
\* neither the queue nor a write under way still holds it.
RefusedNeverWritten ==
  \A r \in Reqs :
    outcome[r] \in {"NotWritten", "Closed"} => writes[r] = 0 /\ ~Unsent(r)

\* No caller waits for nobody: while its oneshot is empty the request is in
\* the queue, in a write, or pending on a connection that drive is serving.
SomebodyWillAnswer ==
  \A r \in Reqs :
    call[r] = "waiting" /\ slot[r] = "empty" =>
      \/ Queued(r) /\ loop # "stopped"
      \/ InHand(r) /\ loop = "writing"
      \/ r \in pending /\ Live

\* Once shutdown has returned, no request reaches a socket.
NothingWrittenAfterShutdown ==
  [][stop = "returned" => UNCHANGED writes]_vars

-----------------------------------------------------------------------------
(* The inductive invariant behind the properties above.                    *)

\* A request is in the queue in one place at most.
Once(q) ==
  \A i, j \in 1..Len(q) : q[i].kind = "request" /\ q[i] = q[j] => i = j

\* What belongs to a connection exists only while drive serves it, a frame
\* only while it is written, and a loop that has returned left no queue behind.
LoopOwns ==
  /\ ~Live => pending = {} /\ replies = {}
  /\ loop # "writing" => frame = NoFrame
  /\ loop = "stopped" => commands = <<>>

\* The daemon has handled whatever it replied to.
RepliesHandled == \A r \in replies : executed[r] # "no"

\* Where a request is decides what is known of it.
Located(r) ==
  /\ Unsent(r) \/ r \in pending =>
       call[r] \in {"waiting", "returned"} /\ slot[r] = "empty"
  /\ Unsent(r) => writes[r] = 0
  /\ ~(Queued(r) /\ InHand(r))
  /\ r \in pending => writes[r] = 1
  /\ executed[r] # "no" => writes[r] = 1
  /\ call[r] \in {"idle", "sending"} => writes[r] = 0 /\ slot[r] = "empty"
  /\ call[r] = "waiting" /\ slot[r] = "empty" => Unsent(r) \/ r \in pending

\* What a result in a oneshot, or in the hands of the caller, is worth.
Truthful(r, result) ==
  /\ result \in {"NotWritten", "Closed", "dropped"} =>
       writes[r] = 0 /\ ~Unsent(r)
  /\ result = "WrittenOutcomeUnknown" => writes[r] = 1
  /\ result \in {"Ok", "Rejected"} => executed[r] = result

Told(r) ==
  /\ Truthful(r, slot[r])
  /\ Truthful(r, outcome[r])
  /\ outcome[r] = "none" <=> call[r] # "returned"

RequestInv ==
  /\ WrittenAtMostOnce
  /\ Once(commands)
  /\ LoopOwns
  /\ RepliesHandled
  /\ \A r \in Reqs : Located(r) /\ Told(r)
=============================================================================
