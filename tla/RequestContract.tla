-------------------------- MODULE RequestContract --------------------------
(***************************************************************************)
(* What TransportHandle promises the caller of one request, with no queue, *)
(* connection, gate or oneshot in sight: the daemon handles the request at *)
(* most once, and the result the caller gets never contradicts what the    *)
(* daemon did or will ever do (RequestError, transport/src/lib.rs).        *)
(***************************************************************************)
CONSTANT Reqs

VARIABLES
  outcome,   \* outcome[r]: "none" until the caller has its result
  executed   \* executed[r]: what the daemon did with r

vars == <<outcome, executed>>

\* The results that promise the daemon never sees the request.
Refused == {"NotWritten", "Closed"}
\* The results that promise nothing about it.
Unknown == {"WrittenOutcomeUnknown", "TimedOut"}

Init ==
  /\ outcome = [r \in Reqs |-> "none"]
  /\ executed = [r \in Reqs |-> "no"]

\* The daemon handles r, unless its caller was told it never would.  It may
\* do so after the caller has stopped waiting.
Execute(r, verdict) ==
  /\ executed[r] = "no"
  /\ outcome[r] \notin Refused
  /\ executed' = [executed EXCEPT ![r] = verdict]
  /\ UNCHANGED outcome

Return(r, result) ==
  /\ outcome[r] = "none"
  /\ \/ result \in Refused /\ executed[r] = "no"
     \/ result \in Unknown
     \/ result = executed[r] /\ executed[r] # "no"
  /\ outcome' = [outcome EXCEPT ![r] = result]
  /\ UNCHANGED executed

Next ==
  \E r \in Reqs :
    \/ \E verdict \in {"Ok", "Rejected"} : Execute(r, verdict)
    \/ \E result \in Refused \cup Unknown \cup {"Ok", "Rejected"} :
         Return(r, result)

Spec == Init /\ [][Next]_vars
=============================================================================
