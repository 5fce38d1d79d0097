---------------------------- MODULE MCTransport ----------------------------
(***************************************************************************)
(* One notification waits at a time, and mark_reconciled and shutdown are  *)
(* not under way together (they are in MCControlRun).                      *)
(***************************************************************************)
EXTENDS TransportSafety
CONSTANTS act, plain

OneNotice == \A i, j \in 1..Len(commands) :
               commands[i] = NotifyCmd /\ commands[j] = NotifyCmd => i = j

MCSpec == Init /\ [][Next /\ (OneNotice /\ (mark = "idle" \/ stop = "idle"))']_vars
=============================================================================
