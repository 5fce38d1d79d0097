------------------------------ MODULE Services ------------------------------
(***************************************************************************)
(* Three parts of the library that share no state with one another, each   *)
(* by itself: a behaviour is one of one of them, and the others stay where *)
(* they begin.                                                             *)
(***************************************************************************)
EXTENDS Supervisor, SkillRoots, ThreadListing

VARIABLE focus

ServicesInit ==
  /\ focus \in {"supervisor", "skills", "listing"}
  /\ SupervisorInit /\ SkillInit /\ ListingInit
  /\ focus # "supervisor" =>
       daemon = "none" /\ gui = "none" /\ restart = FALSE
  /\ focus # "listing" => faulty = FALSE

ServicesNext ==
  \/ /\ focus = "supervisor"
     /\ SupervisorNext
     /\ UNCHANGED <<skillVars, listVars, focus>>
  \/ /\ focus = "skills"
     /\ SkillNext
     /\ UNCHANGED <<supervisorVars, listVars, focus>>
  \/ /\ focus = "listing"
     /\ ListingNext
     /\ UNCHANGED <<supervisorVars, skillVars, focus>>

servicesVars == <<supervisorVars, skillVars, listVars, focus>>

\* Where a part stays as it begins, its fairness asks for nothing: none of
\* the actions it names is enabled.
ServicesSpec ==
  /\ ServicesInit
  /\ [][ServicesNext]_servicesVars
  /\ SupervisorFairness
  /\ ListingFairness

\* The types of all three, their queues, bounds and limits included.
ServicesTypeOK == SupervisorTypeOK /\ SkillTypeOK /\ ListingTypeOK
=============================================================================
