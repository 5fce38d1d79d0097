--------------------------- MODULE MCActionControl ---------------------------
(***************************************************************************)
(* An interrupt with a start, or an interrupt with a steer: all three at   *)
(* once are too many states.                                               *)
(***************************************************************************)
EXTENDS ActionControl
CONSTANTS start, steer, interrupt

Called(kind) == \E o \in kind : stage[o] # "idle"

TwoAtOnce == ~(Called(Steers) /\ Called(Starts))

MCSpec == ControlInit /\ [][ControlNext /\ TwoAtOnce']_controlVars
=============================================================================
