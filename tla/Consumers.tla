----------------------------- MODULE Consumers -----------------------------
(***************************************************************************)
(* The three parts that a host application uses, each by itself: the       *)
(* streams, the store and the actions on a thread.  They share no state    *)
(* with one another, so a behaviour is one of one of them, and the others  *)
(* stay where they begin.                                                  *)
(***************************************************************************)
EXTENDS EventFanout, EventStore, ActionControl

VARIABLE focus

ConsumersInit ==
  /\ focus \in {"fanout", "store", "control"}
  /\ FanoutInit /\ StoreInit /\ ControlInit

ConsumersNext ==
  \/ /\ focus = "fanout"
     /\ FanoutNext
     /\ UNCHANGED <<storeVars, controlVars, focus>>
  \/ /\ focus = "store"
     /\ StoreNext
     /\ UNCHANGED <<fanoutVars, controlVars, focus>>
  \/ /\ focus = "control"
     /\ ControlNext
     /\ UNCHANGED <<fanoutVars, storeVars, focus>>

consumersVars == <<fanoutVars, storeVars, controlVars, focus>>

ConsumersSpec == ConsumersInit /\ [][ConsumersNext]_consumersVars
=============================================================================
