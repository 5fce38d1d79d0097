---------------------------- MODULE MCConsumers ----------------------------
(***************************************************************************)
(* Of the actions on the thread, an interrupt with a start and one turn of *)
(* the GUI, or an interrupt with a steer and one turn: all three at once   *)
(* are too many states.  Two notices wait at most, and one of the threads  *)
(* has no anchor.                                                          *)
(***************************************************************************)
EXTENDS Consumers, TLC
CONSTANTS a, b, start, steer, interrupt

MCShapes == {<<"delta", 1>>, <<"started", 2>>, <<"anchor", 1>>}
Symmetry == Permutations(Threads)

Called(kind) == \E o \in kind : stage[o] # "idle"

FewActions ==
  /\ Called(Steers) => ~Called(Starts) /\ Len(turns) <= 1
  /\ \A j, k \in 1..Len(turns) : turns[j].by = turns[k].by => j = k
  /\ Len(notices) <= 2

OneAnchor == \E t \in Threads : anchor[t] = NotRead

MCSpec ==
  ConsumersInit /\ [][ConsumersNext /\ (FewActions /\ OneAnchor)']_consumersVars
=============================================================================
