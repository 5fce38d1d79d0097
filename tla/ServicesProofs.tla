--------------------------- MODULE ServicesProofs ---------------------------
(***************************************************************************)
(* Proofs about Services: first about the supervisor, for any number of    *)
(* faults, then about the skill roots, for any number of calls,            *)
(* restorations and connections, then about the listings of threads, for   *)
(* any threads, page sizes and bounds, and at the end their composition.   *)
(***************************************************************************)
EXTENDS Services, SequenceTheorems, WellFoundedInduction, TLAPS

-----------------------------------------------------------------------------
(* Supervisor: its types, and that an attached GUI is not asked to quit.   *)

Snapshots == [daemon: BOOLEAN, gui: BOOLEAN, shared: BOOLEAN]

LEMMA PsIsSnapshot == Ps \in Snapshots
<1> DEFINE d == daemon # "none"
           g == gui # "none"
           s == gui = "shared"
<1>1. d \in BOOLEAN /\ g \in BOOLEAN /\ s \in BOOLEAN
  BY Zenon
<1> HIDE DEF d, g, s
<1>2. [daemon |-> d, gui |-> g, shared |-> s] \in Snapshots
  BY <1>1, Zenon DEF Snapshots
<1> QED
  BY <1>2, Zenon DEF Ps, d, g, s

\* The processes: there are clients only of a daemon that runs.
ProcessTypes ==
  /\ daemon \in {"none", "starting", "running"}
  /\ gui \in {"none", "plain", "shared"}
  /\ opening \in BOOLEAN /\ quitAsked \in BOOLEAN
  /\ clients \subseteq Clients
  /\ daemon # "running" => clients = {}
  /\ faults \in 0..MaxFaults

\* The supervisor and the histories.
PlaceTypes ==
  /\ restart \in BOOLEAN
  /\ at \in Initializing \cup Monitoring \cup {"failed", "off"}
  /\ lapsed \in BOOLEAN

LEMMA TypesInParts ==
  SupervisorTypeOK <=> ProcessTypes /\ PlaceTypes /\ seen \in Snapshots
  BY DEF SupervisorTypeOK, ProcessTypes, PlaceTypes, Snapshots

\* Whatever step it is, the processes keep their types.
LEMMA ProcessesKeepTypes ==
  ASSUME ProcessTypes, SupervisorNext
  PROVE  ProcessTypes'
<1> USE SupervisorAssumption DEF ProcessTypes, Clients
<1>1. CASE DaemonStarts \/ GuiOpens \/ GuiConnects \/ GuiObeysQuit
           \/ LibraryConnects
  BY <1>1
  DEF DaemonStarts, GuiOpens, GuiConnects, GuiObeysQuit, LibraryConnects
<1>2. CASE Fault
  <2>1. faults' \in 0..MaxFaults /\ opening' = opening
    BY <1>2 DEF Fault
  <2>2. CASE /\ daemon' = IF daemon = "none" THEN "running" ELSE "none"
             /\ clients' = {}
             /\ UNCHANGED <<gui, quitAsked>>
    BY <2>1, <2>2
  <2>3. CASE /\ gui' \in IF gui = "none" THEN {"plain", "shared"} ELSE {"none"}
             /\ clients' = clients \ {"gui"}
             /\ quitAsked' = FALSE
             /\ UNCHANGED daemon
    BY <2>1, <2>3
  <2>4. CASE /\ daemon = "running"
             /\ clients' \in {clients \ {"gui"}, clients \cup {"other"}}
             /\ UNCHANGED <<daemon, gui, quitAsked>>
    BY <2>1, <2>4
  <2> QED
    BY <1>2, <2>2, <2>3, <2>4 DEF Fault
<1>3. CASE UNCHANGED processVars \/ SpawnDaemon \/ LaunchGui
  BY <1>3 DEF processVars, SpawnDaemon, LaunchGui
<1>4. CASE AskToQuit
  BY <1>4 DEF AskToQuit
<1>5. CASE Initialize \/ Check \/ MonitorStops
  <2>1. UNCHANGED processVars \/ SpawnDaemon \/ LaunchGui \/ AskToQuit
    BY <1>5
    DEF Initialize, InitInspect, InitSpawn, VersionAnswered, Inspect, Decide,
        WaitGone, InitLaunch, AttachInspect, AttachSockets, InitializeFails,
        Check, CheckInspect, Respawn, CheckVersion, CheckGui, Relaunch,
        CheckFails, MonitorStops
  <2> QED
    BY <2>1, <1>3, <1>4
<1>6. CASE LsofFails
  BY <1>3, <1>6 DEF LsofFails
<1> QED
  BY <1>1, <1>2, <1>5, <1>6 DEF SupervisorNext, Processes

\* Whatever step it is, the supervisor keeps its types, and its snapshot is
\* the one it had or a new one.
LEMMA PlacesKeepTypes ==
  ASSUME ProcessTypes, PlaceTypes, SupervisorNext
  PROVE  PlaceTypes' /\ seen' \in {seen, Ps}
<1> USE DEF PlaceTypes, Initializing, Monitoring
<1>1. lapsed' \in BOOLEAN
  BY DEF SupervisorNext, Lapses, LsofFails
<1>2. CASE Processes
  BY <1>1, <1>2 DEF Processes
<1>3. CASE Initialize \/ LsofFails
  BY <1>1, <1>3
  DEF Initialize, InitInspect, InitSpawn, VersionAnswered, Inspect, Decide,
      AskToQuit, WaitGone, InitLaunch, AttachInspect, AttachSockets,
      InitializeFails, LsofFails, RestartOrLaunch, Goes
<1>4. CASE Check \/ MonitorStops
  BY <1>1, <1>4
  DEF Check, CheckInspect, Respawn, CheckVersion, CheckGui, Relaunch,
      CheckFails, MonitorStops, Goes
<1> QED
  BY <1>2, <1>3, <1>4 DEF SupervisorNext

\* The processes, the supervisor and the histories keep their types; there
\* are clients only of a daemon that runs.
THEOREM SupervisorTypesCorrect == SupervisorSpec => []SupervisorTypeOK
<1>1. SupervisorInit => SupervisorTypeOK
  <2> SUFFICES ASSUME SupervisorInit PROVE SupervisorTypeOK
    OBVIOUS
  <2>1. ProcessTypes /\ PlaceTypes
    <3>1. clients \in SUBSET (IF daemon = "running" /\ gui = "shared"
                              THEN {"gui"} ELSE {})
      BY DEF SupervisorInit
    <3>2. clients \subseteq {"gui"} /\ (daemon # "running" => clients = {})
      BY <3>1
    <3>3. opening \in BOOLEAN /\ quitAsked \in BOOLEAN /\ lapsed \in BOOLEAN
      BY DEF SupervisorInit
    <3>4. faults \in 0..MaxFaults
      BY SupervisorAssumption DEF SupervisorInit
    <3> QED
      BY <3>2, <3>3, <3>4
      DEF SupervisorInit, ProcessTypes, PlaceTypes, Clients, Initializing
  <2>2. seen \in Snapshots
    BY Zenon DEF SupervisorInit, Snapshots
  <2> QED
    BY <2>1, <2>2, TypesInParts
<1>2. SupervisorTypeOK /\ [SupervisorNext]_supervisorVars => SupervisorTypeOK'
  <2> SUFFICES ASSUME SupervisorTypeOK, [SupervisorNext]_supervisorVars
               PROVE  SupervisorTypeOK'
    OBVIOUS
  <2>1. ProcessTypes /\ PlaceTypes /\ seen \in Snapshots
    BY TypesInParts
  <2>2. ProcessTypes' /\ PlaceTypes' /\ seen' \in Snapshots
    <3>1. CASE UNCHANGED supervisorVars
      BY <2>1, <3>1 DEF supervisorVars, processVars, ProcessTypes, PlaceTypes
    <3>2. CASE SupervisorNext
      BY <2>1, <3>2, ProcessesKeepTypes, PlacesKeepTypes, PsIsSnapshot
    <3> QED
      BY <3>1, <3>2
  <2>3. (ProcessTypes /\ PlaceTypes /\ seen \in Snapshots
           => SupervisorTypeOK)'
    BY TypesInParts, PTL
  <2> QED
    BY <2>2, <2>3
<1> QED
  BY <1>1, <1>2, PTL DEF SupervisorSpec

-----------------------------------------------------------------------------
(* The GUI that is attached already.                                       *)

\* As long as nothing lapsed, the second ps snapshot shows the GUI with its
\* environment, and the GUI is connected when lsof is asked.
AttachmentInv ==
  /\ at \in {"inspect", "decide"} => lapsed \/ AttachedNow
  /\ at = "decide" => lapsed \/ seen.shared
  /\ at \in {"quit", "quitting"} => restart \/ lapsed

\* README: restart_gui_on_initialize = false preserves an attached GUI.  With
\* it, a ChatGPT that was attached ever since the daemon answered, and that
\* lsof showed, is not asked to quit.
THEOREM AttachedGuiIsKept == SupervisorSpec => []AttachedGuiKept
<1> USE DEF AttachmentInv
<1>1. SupervisorInit => AttachmentInv
  BY DEF SupervisorInit
<1>2. AttachmentInv /\ [SupervisorNext]_supervisorVars => AttachmentInv'
  <2> SUFFICES ASSUME AttachmentInv, [SupervisorNext]_supervisorVars
               PROVE  AttachmentInv'
    OBVIOUS
  <2>1. CASE UNCHANGED supervisorVars
    BY <2>1 DEF supervisorVars, processVars, AttachedNow
  <2>2. CASE SupervisorNext
    <3>1. lapsed' \/ AttachedNow'
      BY <2>2 DEF SupervisorNext, Lapses, LsofFails
    <3>2. at # "version" /\ lapsed => lapsed'
      BY <2>2 DEF SupervisorNext, Lapses, LsofFails
    <3>3. CASE LsofFails
      BY <3>3 DEF LsofFails, RestartOrLaunch, Goes
    <3>4. CASE Processes
      BY <3>1, <3>2, <3>4 DEF Processes
    <3>5. CASE Inspect
      <4>1. at' = "decide" /\ seen'.shared = (gui = "shared") /\ gui' = gui
        BY <3>5 DEF Inspect, Goes, Ps, processVars
      <4> QED
        BY <3>1, <4>1 DEF AttachedNow
    <3>6. CASE Decide
      <4>1. /\ at = "decide" /\ restart' = restart
            /\ at' \in {"sleep", "quit", "launch"}
            /\ at' = "quit" => restart \/ ~AttachedSeen
        BY <3>6 DEF Decide, RestartOrLaunch, Goes
      <4>2. lapsed \/ AttachedSeen
        BY <4>1 DEF AttachedSeen, AttachedNow
      <4> QED
        BY <3>2, <4>1, <4>2
    <3>7. CASE Initialize /\ ~Inspect /\ ~Decide
      BY <3>1, <3>2, <3>7
      DEF Initialize, InitInspect, InitSpawn, VersionAnswered, AskToQuit,
          WaitGone, InitLaunch, AttachInspect, AttachSockets, InitializeFails,
          Goes, Initializing
    <3>8. CASE Check \/ MonitorStops
      BY <3>8
      DEF Check, CheckInspect, Respawn, CheckVersion, CheckGui, Relaunch,
          CheckFails, MonitorStops, Goes
    <3> QED
      BY <2>2, <3>3, <3>4, <3>5, <3>6, <3>7, <3>8 DEF SupervisorNext
  <2> QED
    BY <2>1, <2>2
<1>3. AttachmentInv => AttachedGuiKept
  BY DEF AttachedGuiKept
<1> QED
  BY <1>1, <1>2, <1>3, PTL DEF SupervisorSpec

-----------------------------------------------------------------------------
(* SkillRoots: its types, and that the daemon has the roots that are       *)
(* remembered.                                                             *)

\* The roots that the holder of the lock asks for.
Asked == IF holder = Reapply THEN remembered ELSE holder

\* The queue: what is awaited is the holder's request, the last one, and it
\* has no reply yet; a reply comes after everything that was sent before.
QueueInv ==
  /\ \A i \in 1..Len(requests) :
       requests[i].awaited =>
         /\ i = Len(requests) /\ holder # Nobody /\ reply.result = "none"
         /\ requests[i].roots = Asked
  /\ reply.result # "none" => holder # Nobody /\ requests = <<>>
  /\ holder = Reapply => remembered # NoRoots

\* A request in the queue that nobody awaits makes the roots ambiguous.
AbandonedInv ==
  ~ambiguous => \A i \in 1..Len(requests) : requests[i].awaited

\* Roots and replies belong to a connection.
ConnectionInv ==
  /\ ~linked => roots = NoRoots
  /\ restored => linked
  /\ reply.on <= rootConn
  /\ restored /\ reply.result # "none" => reply.on = rootConn

\* The daemon's roots while no reply tells of a change, and when one does.
RootsInv ==
  /\ ~ambiguous /\ reply.result \in {"none", "rejected"} =>
       /\ roots \in {NoRoots, remembered}
       /\ restored => roots = remembered
  /\ reply.result = "ok" =>
       /\ roots \in {NoRoots, Asked}
       /\ linked /\ reply.on = rootConn => roots = Asked

SkillInv == QueueInv /\ AbandonedInv /\ ConnectionInv /\ RootsInv

-----------------------------------------------------------------------------
(* Types.                                                                  *)

Requests == [roots : Sets, awaited : BOOLEAN]

LEMMA SendKeepsType ==
  ASSUME SkillTypeOK, NEW r \in Sets, Send(r)
  PROVE  /\ requests' \in Seq(Requests)
         /\ Len(requests') = Len(requests) + 1 /\ Len(requests) \in Nat
         /\ \A i \in 1..Len(requests) : requests'[i] = requests[i]
         /\ requests'[Len(requests')] = [roots |-> r, awaited |-> TRUE]
<1>1. [roots |-> r, awaited |-> TRUE] \in Requests /\ requests \in Seq(Requests)
  BY DEF Requests, SkillTypeOK
<1> QED
  BY <1>1, AppendProperties DEF Send

LEMMA NothingQueued ==
  ASSUME NEW q \in Seq(Requests), Len(q) = 0
  PROVE  q = <<>>
  BY EmptySeq

\* The first of the queue leaves it.
LEMMA HeadLeaves ==
  ASSUME SkillTypeOK, requests # <<>>, requests' = Tail(requests)
  PROVE  /\ Head(requests) = requests[1] /\ Head(requests) \in Requests
         /\ requests' \in Seq(Requests) /\ Len(requests) \in Nat \ {0}
         /\ Len(requests') = Len(requests) - 1
         /\ \A i \in 1..Len(requests') : requests'[i] = requests[i + 1]
<1>1. requests \in Seq(Requests)
  BY DEF Requests, SkillTypeOK
<1> QED
  BY <1>1, HeadTailProperties

\* Some of the first leave it.
LEMMA SomeLeave ==
  ASSUME SkillTypeOK, NEW n \in 0..Len(requests),
         requests' = SubSeq(requests, n + 1, Len(requests))
  PROVE  /\ requests' \in Seq(Requests) /\ Len(requests) \in Nat
         /\ Len(requests') = Len(requests) - n
         /\ \A i \in 1..Len(requests') : requests'[i] = requests[i + n]
<1>1. requests \in Seq(Requests) /\ Len(requests) \in Nat
  BY DEF Requests, SkillTypeOK
<1>2. SubSeq(requests, n + 1, Len(requests)) \in Seq(Requests)
  BY <1>1, SubSeqProperties
<1>3. /\ Len(requests') = Len(requests) - n
      /\ \A i \in 1..Len(requests') : requests'[i] = requests[i + n]
  BY <1>1, SubSeqProperties
<1> QED
  BY <1>1, <1>2, <1>3

\* The holder of the lock has given up: nothing in the queue is awaited.
LEMMA Abandoned ==
  ASSUME SkillTypeOK,
         requests' = [i \in DOMAIN requests |->
                        [requests[i] EXCEPT !.awaited = FALSE]]
  PROVE  /\ requests' \in Seq(Requests) /\ Len(requests') = Len(requests)
         /\ \A i \in 1..Len(requests') : requests'[i].awaited = FALSE
<1>1. requests \in Seq(Requests) /\ DOMAIN requests = 1..Len(requests)
      /\ Len(requests) \in Nat
  BY DEF Requests, SkillTypeOK
<1>2. \A i \in 1..Len(requests) :
         /\ [requests[i] EXCEPT !.awaited = FALSE] \in Requests
         /\ [requests[i] EXCEPT !.awaited = FALSE].awaited = FALSE
  <2>1. ASSUME NEW r \in Requests
        PROVE  /\ [r EXCEPT !.awaited = FALSE] \in Requests
               /\ [r EXCEPT !.awaited = FALSE].awaited = FALSE
    BY DEF Requests
  <2>2. \A i \in 1..Len(requests) : requests[i] \in Requests
    BY <1>1
  <2> QED
    BY <2>1, <2>2
<1>3. requests' \in [1..Len(requests) -> Requests]
  BY <1>1, <1>2
<1>4. requests' \in Seq(Requests)
  <2>1. requests' \in UNION {[1..n -> Requests] : n \in Nat}
    BY <1>1, <1>3
  <2> QED
    BY <2>1, SeqDef
<1>5. Len(requests') = Len(requests)
  BY <1>1, <1>3, <1>4, LenProperties
<1> QED
  BY <1>1, <1>2, <1>4, <1>5

LEMMA TypesKept ==
  ASSUME SkillAssumption, SkillTypeOK, SkillInv, [SkillNext]_skillVars
  PROVE  SkillTypeOK'
<1> USE DEF Requests, Roots, Holders
<1>1. ASSUME NEW result \in {"ok", "rejected", "undecodable"}, Replied(result)
      PROVE  reply' \in [result : {"none", "ok", "rejected", "undecodable"},
                         on : 0..RootConns]
  BY <1>1 DEF Replied, SkillTypeOK, SkillAssumption
<1>2. NoReply \in [result : {"none", "ok", "rejected", "undecodable"},
                   on : 0..RootConns]
  BY DEF NoReply, SkillAssumption
<1>3. ASSUME NEW s \in Sets, SetExtraRoots(s)
      PROVE  SkillTypeOK'
  BY <1>3, SendKeepsType DEF SetExtraRoots, SkillTypeOK
<1>4. CASE ReapplyExtraRoots
  <2>1. CASE remembered = NoRoots
    BY <1>4, <2>1 DEF ReapplyExtraRoots, SkillTypeOK
  <2>2. CASE remembered # NoRoots
    <3>1. remembered \in Sets /\ Send(remembered)
      BY <1>4, <2>2 DEF ReapplyExtraRoots, SkillTypeOK
    <3>2. requests' \in Seq(Requests)
      BY <3>1, SendKeepsType
    <3>3. sent' \in 0..MaxRestorations /\ holder' \in Holders \cup {Nobody}
      BY <1>4, <2>2 DEF ReapplyExtraRoots, SkillTypeOK, SkillAssumption
    <3> QED
      BY <1>4, <2>2, <3>2, <3>3 DEF ReapplyExtraRoots, SkillTypeOK
  <2> QED
    BY <2>1, <2>2
<1>5. CASE Succeeds
  <2>1. holder \in Holders
    BY <1>5 DEF Succeeds, SkillInv, QueueInv, SkillTypeOK
  <2> QED
    BY <1>2, <1>5, <2>1 DEF Succeeds, Releases, SkillTypeOK
<1>6. CASE Fails
  BY <1>2, <1>6, Abandoned DEF Fails, Releases, SkillTypeOK
<1>7. CASE Executes
  <2>1. Head(requests) \in Requests /\ requests' \in Seq(Requests)
    BY <1>7, HeadLeaves DEF Executes
  <2>2. roots' \in Roots
    BY <1>7, <2>1 DEF Executes, SkillTypeOK
  <2> QED
    BY <1>1, <1>7, <2>1, <2>2 DEF Executes, SkillTypeOK
<1>8. CASE Refuses
  BY <1>1, <1>8, HeadLeaves DEF Refuses, SkillTypeOK
<1>9. CASE Unlinked
  BY <1>9, SomeLeave DEF Unlinked, SkillTypeOK
<1>10. CASE Linked
  BY <1>10 DEF Linked, SkillTypeOK, SkillAssumption
<1>11. CASE UNCHANGED skillVars
  BY <1>11 DEF skillVars, SkillTypeOK
<1> QED
  BY <1>3, <1>4, <1>5, <1>6, <1>7, <1>8, <1>9, <1>10, <1>11 DEF SkillNext

-----------------------------------------------------------------------------
(* The daemon's roots.                                                     *)

LEMMA SetKeepsInv ==
  ASSUME SkillAssumption, SkillTypeOK, SkillInv, NEW s \in Sets,
         SetExtraRoots(s)
  PROVE  SkillInv'
<1> USE DEF SetExtraRoots, SkillInv
<1>1. /\ \A i \in 1..Len(requests) : ~requests[i].awaited
      /\ reply.result = "none"
  BY DEF QueueInv, SkillTypeOK
<1>2. /\ Len(requests') = Len(requests) + 1 /\ Len(requests) \in Nat
      /\ \A i \in 1..Len(requests) : requests'[i] = requests[i]
      /\ requests'[Len(requests')] = [roots |-> s, awaited |-> TRUE]
  BY SendKeepsType
<1>3. Asked' = s /\ holder' # Nobody /\ holder' # Reapply
  BY DEF Asked, SkillAssumption
<1>4. QueueInv'
  BY <1>1, <1>2, <1>3 DEF QueueInv
<1>5. AbandonedInv'
  BY <1>1, <1>2 DEF AbandonedInv
<1>6. ConnectionInv' /\ RootsInv'
  BY <1>1 DEF ConnectionInv, RootsInv
<1> QED
  BY <1>4, <1>5, <1>6

LEMMA ReapplyKeepsInv ==
  ASSUME SkillAssumption, SkillTypeOK, SkillInv, ReapplyExtraRoots
  PROVE  SkillInv'
<1> USE DEF ReapplyExtraRoots, SkillInv
<1>1. /\ \A i \in 1..Len(requests) : ~requests[i].awaited
      /\ reply.result = "none"
  BY DEF QueueInv, SkillTypeOK
<1>2. CASE remembered = NoRoots
  <2>1. QueueInv' /\ AbandonedInv'
    BY <1>1, <1>2 DEF QueueInv, AbandonedInv
  <2>2. ConnectionInv' /\ RootsInv'
    BY <1>1, <1>2 DEF ConnectionInv, RootsInv
  <2> QED
    BY <2>1, <2>2
<1>3. CASE remembered # NoRoots
  <2>1. remembered \in Sets
    BY <1>3 DEF SkillTypeOK, Roots
  <2>2. /\ Len(requests') = Len(requests) + 1 /\ Len(requests) \in Nat
        /\ \A i \in 1..Len(requests) : requests'[i] = requests[i]
        /\ requests'[Len(requests')] = [roots |-> remembered, awaited |-> TRUE]
    BY <1>3, <2>1, SendKeepsType
  <2>3. Asked' = remembered /\ holder' = Reapply /\ holder' # Nobody
    BY <1>3 DEF Asked, SkillAssumption
  <2>4. QueueInv'
    BY <1>1, <1>3, <2>2, <2>3 DEF QueueInv
  <2>5. AbandonedInv'
    BY <1>1, <1>3, <2>2 DEF AbandonedInv
  <2>6. ConnectionInv' /\ RootsInv'
    BY <1>1, <1>3 DEF ConnectionInv, RootsInv
  <2> QED
    BY <2>4, <2>5, <2>6
<1> QED
  BY <1>2, <1>3

LEMMA ReturnsKeepInv ==
  ASSUME SkillAssumption, SkillTypeOK, SkillInv, Succeeds \/ Fails
  PROVE  SkillInv'
<1> USE DEF SkillInv
<1>1. holder' = Nobody /\ reply'.result = "none" /\ reply'.on = 0
  BY DEF Succeeds, Fails, Releases, NoReply
<1>2. rootConn \in Nat /\ UNCHANGED <<roots, rootConn, linked>>
  BY DEF Succeeds, Fails, SkillTypeOK
<1>3. CASE Succeeds
  <2>1. /\ Len(requests') = 0 /\ reply.result = "ok" /\ holder # Nobody
        /\ remembered' = Asked
        /\ restored' => \/ restored
                        \/ linked /\ reply.on = rootConn
    BY <1>3 DEF Succeeds, QueueInv, Asked
  <2>2. QueueInv' /\ AbandonedInv'
    BY <1>1, <2>1 DEF QueueInv, AbandonedInv, SkillAssumption
  <2>3. ConnectionInv' /\ RootsInv'
    BY <1>1, <1>2, <2>1 DEF ConnectionInv, RootsInv
  <2> QED
    BY <2>2, <2>3
<1>4. CASE Fails
  <2>1. /\ \A i \in 1..Len(requests') : ~requests'[i].awaited
        /\ Len(requests') = Len(requests)
    BY <1>4, Abandoned DEF Fails
  <2>2. QueueInv'
    BY <1>1, <2>1 DEF QueueInv, SkillAssumption
  <2>3. AbandonedInv'
    <3>1. ~ambiguous' => reply.result # "none" /\ ~ambiguous
      BY <1>4 DEF Fails
    <3>2. ~ambiguous' => Len(requests') = 0
      BY <2>1, <3>1 DEF QueueInv
    <3> QED
      BY <3>2 DEF AbandonedInv
  <2>4. ConnectionInv' /\ RootsInv'
    <3>1. /\ UNCHANGED <<remembered, restored>> /\ reply.result # "ok"
          /\ ~ambiguous' => ~ambiguous /\ reply.result = "rejected"
      BY <1>4 DEF Fails
    <3> QED
      BY <1>1, <1>2, <3>1 DEF ConnectionInv, RootsInv, SkillTypeOK
  <2> QED
    BY <2>2, <2>3, <2>4
<1> QED
  BY <1>3, <1>4

\* A request leaves the queue at its head, with a reply if it is awaited.
LEMMA HeadKeepsInv ==
  ASSUME SkillAssumption, SkillTypeOK, SkillInv, Executes \/ Refuses
  PROVE  SkillInv'
<1> USE DEF SkillInv
<1>1. /\ requests # <<>> /\ requests' = Tail(requests)
      /\ UNCHANGED <<remembered, holder, rootConn, linked, restored, ambiguous>>
      /\ Asked' = Asked
  BY DEF Executes, Refuses, Asked
<1>2. /\ Head(requests) = requests[1]
      /\ Len(requests') = Len(requests) - 1 /\ Len(requests) \in Nat \ {0}
      /\ \A i \in 1..Len(requests') : requests'[i] = requests[i + 1]
  BY <1>1, HeadLeaves
<1>3. reply.result = "none"
  BY <1>1 DEF QueueInv
<1>4. CASE requests[1].awaited
  <2>1. /\ Len(requests) = 1 /\ holder # Nobody /\ requests[1].roots = Asked
        /\ Len(requests') = 0
    BY <1>2, <1>4 DEF QueueInv
  <2>2. /\ reply'.on = rootConn
        /\ reply'.result \in {"ok", "undecodable", "rejected"}
        /\ reply'.result = "ok" => linked /\ roots' = Asked
        /\ reply'.result = "rejected" => roots' = roots
        /\ ~linked => roots' = roots
    BY <1>2, <1>4, <2>1 DEF Executes, Refuses, Replied
  <2>3. requests' = <<>>
    BY <1>1, <2>1, HeadLeaves, NothingQueued
  <2>4. QueueInv'
    BY <1>1, <2>1, <2>3 DEF QueueInv
  <2>5. AbandonedInv'
    BY <2>1 DEF AbandonedInv
  <2>6. ConnectionInv' /\ RootsInv'
    BY <1>1, <1>3, <2>2 DEF ConnectionInv, RootsInv, SkillTypeOK
  <2> QED
    BY <2>4, <2>5, <2>6
<1>5. CASE ~requests[1].awaited
  <2>1. ambiguous /\ reply' = reply /\ (~linked => roots' = roots)
    BY <1>2, <1>5 DEF AbandonedInv, Executes, Refuses, Replied
  <2>2. QueueInv'
    <3>1. ASSUME NEW i \in 1..Len(requests'), requests'[i].awaited
          PROVE  /\ i = Len(requests') /\ holder # Nobody
                 /\ requests'[i].roots = Asked
      <4>1. i + 1 \in 1..Len(requests) /\ requests'[i] = requests[i + 1]
        BY <1>2
      <4>2. i + 1 = Len(requests) /\ holder # Nobody
            /\ requests[i + 1].roots = Asked
        BY <3>1, <4>1 DEF QueueInv
      <4> QED
        BY <1>2, <4>1, <4>2
    <3> QED
      BY <1>1, <1>3, <2>1, <3>1 DEF QueueInv
  <2>3. AbandonedInv'
    BY <1>1, <2>1 DEF AbandonedInv
  <2>4. ConnectionInv' /\ RootsInv'
    BY <1>1, <1>3, <2>1 DEF ConnectionInv, RootsInv
  <2> QED
    BY <2>2, <2>3, <2>4
<1> QED
  BY <1>4, <1>5

LEMMA LinkKeepsInv ==
  ASSUME SkillAssumption, SkillTypeOK, SkillInv, Unlinked \/ Linked
  PROVE  SkillInv'
<1> USE DEF SkillInv
<1>1. UNCHANGED <<remembered, holder, reply, ambiguous>> /\ Asked' = Asked
  BY DEF Unlinked, Linked, Asked
<1>2. CASE Unlinked
  <2>1. PICK n \in 0..Len(requests) :
               requests' = SubSeq(requests, n + 1, Len(requests))
    BY <1>2 DEF Unlinked
  <2>2. /\ Len(requests) \in Nat /\ Len(requests') = Len(requests) - n
        /\ \A i \in 1..Len(requests') : requests'[i] = requests[i + n]
    BY <2>1, SomeLeave
  <2>3. requests = <<>> => requests' = <<>>
    <3>1. requests = <<>> => Len(requests') = 0
      BY <2>2
    <3> QED
      BY <2>1, <3>1, SomeLeave, NothingQueued
  <2>4. QueueInv' /\ AbandonedInv'
    BY <1>1, <2>1, <2>2, <2>3 DEF QueueInv, AbandonedInv
  <2>5. ConnectionInv' /\ RootsInv'
    <3>1. ~linked' /\ ~restored' /\ roots' = NoRoots /\ rootConn' = rootConn
      BY <1>2 DEF Unlinked
    <3> QED
      BY <1>1, <3>1 DEF ConnectionInv, RootsInv
  <2> QED
    BY <2>4, <2>5
<1>3. CASE Linked
  <2>1. QueueInv' /\ AbandonedInv'
    BY <1>1, <1>3 DEF Linked, QueueInv, AbandonedInv
  <2>2. ConnectionInv' /\ RootsInv'
    <3>1. rootConn' = rootConn + 1 /\ reply.on \in Nat /\ rootConn \in Nat
      BY <1>3 DEF Linked, SkillTypeOK
    <3> QED
      BY <1>1, <1>3, <3>1 DEF Linked, ConnectionInv, RootsInv
  <2> QED
    BY <2>1, <2>2
<1> QED
  BY <1>2, <1>3

LEMMA SkillInvariant == SkillSpec => [](SkillTypeOK /\ SkillInv)
<1> USE SkillAssumption
<1>1. SkillInit => SkillTypeOK /\ SkillInv
  <2> SUFFICES ASSUME SkillInit
               PROVE  SkillTypeOK /\ SkillInv
    OBVIOUS
  <2>1. requests = <<>> /\ reply = NoReply /\ roots = NoRoots /\ Len(requests) = 0
    BY DEF SkillInit
  <2>2. SkillTypeOK
    <3>1. requests \in Seq([roots : Sets, awaited : BOOLEAN])
      BY <2>1
    <3>2. 1 \in 1..RootConns /\ 0 \in 0..RootConns /\ 0 \in 0..MaxRestorations
      BY DEF SkillAssumption
    <3>3. reply \in [result : {"none", "ok", "rejected", "undecodable"},
                     on : 0..RootConns]
      BY <2>1, <3>2 DEF NoReply
    <3>4. rootConn \in 1..RootConns /\ sent \in 0..MaxRestorations
      BY <3>2 DEF SkillInit
    <3>5. /\ remembered \in Roots /\ roots \in Roots /\ done \subseteq Sets
          /\ holder \in Holders \cup {Nobody}
          /\ linked \in BOOLEAN /\ restored \in BOOLEAN /\ ambiguous \in BOOLEAN
      BY DEF SkillInit, Roots
    <3> QED
      BY <3>1, <3>3, <3>4, <3>5 DEF SkillTypeOK
  <2>3. SkillInv
    BY <2>1
    DEF SkillInit, SkillInv, QueueInv, AbandonedInv, ConnectionInv, RootsInv,
        NoReply, SkillAssumption
  <2> QED
    BY <2>2, <2>3
<1>2. SkillTypeOK /\ SkillInv /\ [SkillNext]_skillVars
        => (SkillTypeOK /\ SkillInv)'
  <2> SUFFICES ASSUME SkillTypeOK, SkillInv, [SkillNext]_skillVars
               PROVE  SkillTypeOK' /\ SkillInv'
    OBVIOUS
  <2>1. SUFFICES SkillInv'
    BY TypesKept
  <2>2. CASE \E s \in Sets : SetExtraRoots(s)
    BY <2>2, SetKeepsInv
  <2>3. CASE ReapplyExtraRoots
    BY <2>3, ReapplyKeepsInv
  <2>4. CASE Succeeds \/ Fails
    BY <2>4, ReturnsKeepInv
  <2>5. CASE Executes \/ Refuses
    BY <2>5, HeadKeepsInv
  <2>6. CASE Unlinked \/ Linked
    BY <2>6, LinkKeepsInv
  <2>7. CASE UNCHANGED skillVars
    BY <2>7
    DEF skillVars, SkillInv, QueueInv, AbandonedInv, ConnectionInv, RootsInv,
        Asked
  <2> QED
    BY <2>2, <2>3, <2>4, <2>5, <2>6, <2>7 DEF SkillNext
<1> QED
  BY <1>1, <1>2, PTL DEF SkillSpec

\* The data of SkillController, of its queue and of the daemon's roots have
\* their types.
THEOREM SkillTypesCorrect == SkillSpec => []SkillTypeOK
  BY SkillInvariant, PTL

\* reapply_extra_roots restores, on every connection, what set_extra_roots
\* remembered, however their requests, replies, timeouts and the loss of the
\* connection interleave: with no call under way, the daemon has the roots
\* that are remembered, unless a request nobody knows the result of may have
\* been executed after the last success.
THEOREM RootsAreRestored == SkillSpec => []RootsRestored
<1>1. SkillInv => RootsRestored
  BY DEF SkillInv, QueueInv, RootsInv, RootsRestored
<1> QED
  BY <1>1, SkillInvariant, PTL

-----------------------------------------------------------------------------
(* ThreadListing: its types, and that its lists are complete.              *)

\* The daemon lists the newest first.
Sorted ==
  \A i, j \in 1..Len(order) :
    i <= j => updatedAt[order[j]] <= updatedAt[order[i]]

\* Nothing is newer than the daemon's clock.
ClockInv ==
  /\ Len(order) <= updates
  /\ clock <= updates + 1
  /\ \A t \in Listable : updatedAt[t] <= clock
  /\ mark <= clock /\ newestSeen <= clock

\* The positions a walk has been told of, and the one it asks for next: the
\* walk has been past all that is before one of them.
Passed(i) == \E k \in cursors \cup {cursor} : i <= k

\* list_all: whatever it has passed it has found, or it has moved since.
AllInv ==
  walk = "all" =>
    /\ 0 \notin cursors
    /\ IsInjective(found)
    /\ \A i \in 1..Len(order) :
         Passed(i) => order[i] \in moved \cup ToSet(found)

\* reconcile owes nothing more to the thread: it is below the watermark, or
\* found, or will be above the next watermark, unless cursors are repeated.
Handled(t, newest) ==
  since = 0 \/ updatedAt[t] > since =>
    \/ t \in ToSet(found)
    \/ t \in moved /\ (faulty \/ updatedAt[t] >= newest)

\* Without repetitions the cursor is the furthest.  With them a page in front
\* of it may raise the next watermark over what had moved behind.
ReconcileInv ==
  walk = "reconcile" =>
    /\ 0 \notin cursors
    /\ ~faulty => \A k \in cursors : k <= cursor
    /\ since = mark /\ mark <= newestSeen
    /\ pages < PageBound /\ Len(found) < CandidateLimit
    /\ \A i \in 1..Len(order) : Passed(i) => Handled(order[i], newestSeen)

ListingInv ==
  /\ Sorted /\ ClockInv
  /\ AllInv /\ AllListedOnce
  /\ ReconcileInv /\ CandidatesCover

\* What Updated does to the daemon's order.
LEMMA MovesToFront ==
  ASSUME NEW s \in Seq(Listable), NEW t \in Listable,
         NEW i \in 1..Len(s) + 1
  PROVE  LET r == ToFront(s, t, i)
         IN  /\ r \in Seq(Listable)
             /\ Len(r) = IF i <= Len(s) THEN Len(s) ELSE Len(s) + 1
             /\ r[1] = t
             /\ \A j \in 2..Len(r) : r[j] = s[IF j <= i THEN j - 1 ELSE j]
<1> DEFINE r == ToFront(s, t, i)
           before == SubSeq(s, 1, i - 1)
           after == SubSeq(s, i + 1, Len(s))
<1>1. Len(s) \in Nat /\ \A j \in 1..Len(s) : s[j] \in Listable
  OBVIOUS
<1>2. /\ before \in Seq(Listable) /\ Len(before) = i - 1
      /\ \A j \in 1..i - 1 : before[j] = s[j]
  <2>1. i - 1 \in Int /\ \A j \in 1..i - 1 : s[j] \in Listable
    BY <1>1
  <2> QED
    BY <1>1, <2>1, SubSeqProperties
<1>3. /\ after \in Seq(Listable)
      /\ Len(after) = IF i <= Len(s) THEN Len(s) - i ELSE 0
      /\ \A j \in 1..Len(s) - i : after[j] = s[i + j]
  <2>1. i + 1 \in Int /\ \A j \in i + 1..Len(s) : s[j] \in Listable
    BY <1>1
  <2> QED
    BY <1>1, <2>1, SubSeqProperties
<1> DEFINE first == <<t>>
<1>4. first \in Seq(Listable) /\ Len(first) = 1 /\ first[1] = t
  OBVIOUS
<1>5. i \in Nat /\ i >= 1 /\ i <= Len(s) + 1 /\ Len(s) \in Nat
  BY <1>1
<1>6. Len(after) \in Nat
  BY <1>3, <1>5
<1> DEFINE front == first \o before
<1> HIDE DEF r, before, after, first
<1>7. /\ front \in Seq(Listable) /\ Len(front) = i
      /\ front[1] = t
      /\ \A j \in 2..i : front[j] = s[j - 1]
  <2>1. /\ first \o before \in Seq(Listable)
        /\ Len(first \o before) = Len(first) + Len(before)
        /\ \A j \in 1..Len(first) + Len(before) : (first \o before)[j] =
             IF j <= Len(first) THEN first[j] ELSE before[j - Len(first)]
    BY <1>2, <1>4, ConcatProperties
  <2>2. Len(first) + Len(before) = i
    BY <1>2, <1>4, <1>5
  <2>3. \A j \in 2..i : j - 1 \in 1..i - 1 /\ ~(j <= 1) /\ j \in 1..i
    BY <1>5
  <2> QED
    BY <1>2, <1>4, <1>5, <2>1, <2>2, <2>3
<1>8. r = front \o after
  BY DEF ToFront, r, front, first, before, after
<1> HIDE DEF front
<1>9. /\ r \in Seq(Listable) /\ Len(r) = i + Len(after)
      /\ \A j \in 1..i + Len(after) : r[j] =
           IF j <= i THEN front[j] ELSE after[j - i]
  <2>1. /\ front \o after \in Seq(Listable)
        /\ Len(front \o after) = Len(front) + Len(after)
        /\ \A j \in 1..Len(front) + Len(after) : (front \o after)[j] =
             IF j <= Len(front) THEN front[j] ELSE after[j - Len(front)]
    BY <1>3, <1>7, ConcatProperties
  <2> QED
    BY <1>7, <1>8, <2>1
<1>10. Len(r) = IF i <= Len(s) THEN Len(s) ELSE Len(s) + 1
  BY <1>3, <1>5, <1>9
<1>11. ASSUME NEW j \in 2..Len(r)
       PROVE  r[j] = s[IF j <= i THEN j - 1 ELSE j]
  <2>1. j \in Nat /\ j >= 2 /\ j <= i + Len(after) /\ j \in 1..i + Len(after)
    BY <1>5, <1>6, <1>9
  <2>2. CASE j <= i
    BY <1>5, <1>7, <1>9, <2>1, <2>2
  <2>3. CASE ~(j <= i)
    <3>1. i <= Len(s) /\ j <= Len(s)
      BY <1>3, <1>5, <2>1, <2>3
    <3>2. j - i \in 1..Len(s) - i /\ i + (j - i) = j
      BY <1>5, <2>1, <2>3, <3>1
    <3> QED
      BY <1>3, <1>9, <2>1, <2>3, <3>2
  <2> QED
    BY <2>2, <2>3
<1>12. r[1] = t
  BY <1>5, <1>6, <1>7, <1>9
<1> QED
  BY <1>9, <1>10, <1>11, <1>12 DEF r

\* A nonempty set of numbers has a least element.
LEMMA LeastNumber ==
  ASSUME NEW S \in SUBSET Nat, S # {}
  PROVE  \E n \in S : \A m \in S : n <= m
<1> DEFINE R == {p \in Nat \X Nat : p[1] < p[2]}
<1>1. IsWellFoundedOn(R, Nat)
  BY NatLessThanWellFounded, Zenon DEF OpToRel
<1>2. PICK n \in S : \A m \in S : <<m, n>> \notin R
  <2> HIDE DEF R
  <2> QED
    BY <1>1, WFMin
<1>3. \A m \in S : ~(m < n)
  BY <1>2
<1> QED
  BY <1>3

\* The list that Extended makes of one, page by page.
AfterThread(list, page, g, n) ==
  IF n = 0 THEN list
  ELSE IF page[n] \in ToSet(g[n - 1]) THEN g[n - 1]
       ELSE Append(g[n - 1], page[n])

\* There is a function as Extended asks for: one up to a number with no
\* function up to it could be extended by the number.
LEMMA ExtendedDefined ==
  ASSUME NEW list \in Seq(Listable), NEW page \in Seq(Listable)
  PROVE  \E f : /\ f = [n \in 0..Len(page) |-> AfterThread(list, page, f, n)]
                /\ Extended(list, page) = f[Len(page)]
<1> DEFINE Upto(k, g) ==
             /\ g \in [0..k -> Seq(Listable)]
             /\ \A n \in 0..k : g[n] = AfterThread(list, page, g, n)
           Undefined == {k \in 0..Len(page) : ~\E g : Upto(k, g)}
<1>1. Len(page) \in Nat /\ \A n \in 1..Len(page) : page[n] \in Listable
  OBVIOUS
<1>2. \E g : Upto(0, g)
  <2>1. Upto(0, [n \in 0..0 |-> list])
    BY DEF AfterThread
  <2> QED
    BY <2>1
<1>3. ASSUME NEW k \in Nat, k + 1 <= Len(page), NEW g, Upto(k, g)
      PROVE  \E h : Upto(k + 1, h)
  <2> DEFINE last == IF page[k + 1] \in ToSet(g[k]) THEN g[k]
                     ELSE Append(g[k], page[k + 1])
             h == [n \in 0..k + 1 |-> IF n = k + 1 THEN last ELSE g[n]]
  <2>1. g[k] \in Seq(Listable) /\ page[k + 1] \in Listable
    BY <1>1, <1>3
  <2>2. last \in Seq(Listable)
    BY <2>1, AppendProperties
  <2> HIDE DEF last
  <2>3. h \in [0..k + 1 -> Seq(Listable)]
    BY <1>3, <2>2
  <2>4. ASSUME NEW n \in 0..k + 1
        PROVE  h[n] = AfterThread(list, page, h, n)
    <3>1. CASE n = k + 1
      <4>1. h[n] = last /\ h[n - 1] = g[k] /\ n # 0 /\ n = k + 1
        BY <3>1
      <4> QED
        BY <4>1 DEF AfterThread, last
    <3>2. CASE n # k + 1
      <4>1. n \in 0..k /\ h[n] = g[n]
        BY <3>2
      <4>2. n # 0 => n - 1 \in 0..k + 1 /\ n - 1 # k + 1
        BY <3>2
      <4>3. n # 0 => h[n - 1] = g[n - 1]
        BY <4>2
      <4>4. g[n] = AfterThread(list, page, g, n)
        BY <1>3, <4>1
      <4> QED
        BY <4>1, <4>3, <4>4 DEF AfterThread
    <3> QED
      BY <3>1, <3>2
  <2> HIDE DEF h
  <2> QED
    BY <2>3, <2>4
<1> HIDE DEF Upto
<1>4. Undefined = {}
  <2> SUFFICES ASSUME Undefined # {} PROVE FALSE
    OBVIOUS
  <2>1. Undefined \in SUBSET Nat
    BY <1>1
  <2>2. PICK k \in Undefined : \A m \in Undefined : k <= m
    BY <2>1, LeastNumber
  <2>3. k \in Nat /\ k <= Len(page) /\ k # 0
    BY <1>1, <1>2, <2>2
  <2>4. k - 1 \in Nat /\ k - 1 \in 0..Len(page) /\ (k - 1) + 1 = k /\ ~(k <= k - 1)
    BY <1>1, <2>3
  <2>5. k - 1 \notin Undefined
    BY <2>2, <2>4
  <2>6. PICK g : Upto(k - 1, g)
    BY <2>4, <2>5
  <2>7. \E h : Upto(k, h)
    BY <1>3, <2>3, <2>4, <2>6
  <2> QED
    BY <2>2, <2>7
<1>5. PICK g : Upto(Len(page), g)
  BY <1>1, <1>4
<1> DEFINE Is(f) == f = [n \in 0..Len(page) |-> AfterThread(list, page, f, n)]
           f == CHOOSE f : Is(f)
<1>6. Is(g)
  BY <1>5 DEF Upto
<1>7. Is(f)
  <2> HIDE DEF Is
  <2> QED
    BY <1>6
<1>8. Extended(list, page) = f[Len(page)]
  BY DEF Extended, AfterThread
<1> QED
  BY <1>7, <1>8

\* What a page adds to a list: its threads, each once.
LEMMA ExtendedIs ==
  ASSUME NEW list \in Seq(Listable), NEW page \in Seq(Listable)
  PROVE  LET r == Extended(list, page)
         IN  /\ r \in Seq(Listable)
             /\ ToSet(r) = ToSet(list) \cup ToSet(page)
             /\ IsInjective(list) => IsInjective(r)
<1> DEFINE Holds(l, n) ==
             /\ l \in Seq(Listable)
             /\ ToSet(l) = ToSet(list) \cup {page[i] : i \in 1..n}
             /\ IsInjective(list) => IsInjective(l)
<1>1. Len(page) \in Nat /\ \A n \in 1..Len(page) : page[n] \in Listable
  OBVIOUS
<1>2. PICK f : /\ f = [n \in 0..Len(page) |-> AfterThread(list, page, f, n)]
               /\ Extended(list, page) = f[Len(page)]
  BY ExtendedDefined
<1>3. \A n \in 0..Len(page) : f[n] = AfterThread(list, page, f, n)
  <2> DEFINE A(n) == AfterThread(list, page, f, n)
  <2>1. f = [n \in 0..Len(page) |-> A(n)]
    BY <1>2
  <2> HIDE DEF A
  <2>2. \A n \in 0..Len(page) : f[n] = A(n)
    BY <2>1
  <2> QED
    BY <2>2 DEF A
<1>4. Holds(f[0], 0)
  <2>1. f[0] = list
    BY <1>1, <1>3 DEF AfterThread
  <2>2. {page[i] : i \in 1..0} = {}
    OBVIOUS
  <2> QED
    BY <2>1, <2>2
<1>5. ASSUME NEW n \in Nat, n + 1 <= Len(page), Holds(f[n], n)
      PROVE  Holds(f[n + 1], n + 1)
  <2> DEFINE l == f[n]
             t == page[n + 1]
  <2>1. f[n + 1] = IF t \in ToSet(l) THEN l ELSE Append(l, t)
    BY <1>1, <1>3, <1>5 DEF AfterThread
  <2>2. l \in Seq(Listable) /\ t \in Listable
    BY <1>1, <1>5
  <2>3. {page[i] : i \in 1..n + 1} = {page[i] : i \in 1..n} \cup {t}
    BY <1>5
  <2> HIDE DEF l, t
  <2>4. CASE t \in ToSet(l)
    <3>1. f[n + 1] = l
      BY <2>1, <2>4
    <3> QED
      BY <1>5, <2>3, <2>4, <3>1 DEF l
  <2>5. CASE t \notin ToSet(l)
    <3>1. f[n + 1] = Append(l, t)
      BY <2>1, <2>5
    <3>2. /\ Append(l, t) \in Seq(Listable)
          /\ Len(Append(l, t)) = Len(l) + 1
          /\ \A i \in 1..Len(l) : Append(l, t)[i] = l[i]
          /\ Append(l, t)[Len(l) + 1] = t
      BY <2>2, AppendProperties
    <3>3. Len(l) \in Nat /\ DOMAIN l = 1..Len(l)
          /\ DOMAIN Append(l, t) = 1..Len(l) + 1
      BY <2>2, <3>2
    <3>4. ToSet(Append(l, t)) = ToSet(l) \cup {t}
      BY <3>2, <3>3 DEF ToSet
    <3>5. IsInjective(l) => IsInjective(Append(l, t))
      BY <2>5, <3>2, <3>3 DEF ToSet, IsInjective
    <3> QED
      BY <1>5, <2>3, <3>1, <3>2, <3>4, <3>5 DEF l
  <2> QED
    BY <2>4, <2>5
<1> HIDE DEF Holds
<1>6. \A n \in 0..Len(page) : Holds(f[n], n)
  <2> DEFINE Wrong == {n \in 0..Len(page) : ~Holds(f[n], n)}
  <2> SUFFICES ASSUME Wrong # {} PROVE FALSE
    OBVIOUS
  <2>1. Wrong \in SUBSET Nat
    BY <1>1
  <2>2. PICK n \in Wrong : \A m \in Wrong : n <= m
    BY <2>1, LeastNumber
  <2>3. n \in Nat /\ n <= Len(page) /\ n # 0
    BY <1>1, <1>4, <2>2
  <2>4. n - 1 \in Nat /\ n - 1 \in 0..Len(page) /\ (n - 1) + 1 = n /\ ~(n <= n - 1)
    BY <1>1, <2>3
  <2>5. Holds(f[n - 1], n - 1)
    BY <2>2, <2>4
  <2>6. Holds(f[(n - 1) + 1], (n - 1) + 1)
    BY <1>5, <2>3, <2>4, <2>5
  <2> QED
    BY <2>2, <2>4, <2>6
<1>7. Holds(f[Len(page)], Len(page))
  BY <1>1, <1>6
<1>8. ToSet(page) = {page[i] : i \in 1..Len(page)}
  BY DEF ToSet
<1> QED
  BY <1>2, <1>7, <1>8 DEF Holds

\* The bounds, the ones the types rest on.
LEMMA ListingNumbers ==
  ASSUME ListingTypeOK
  PROVE  /\ PageSize \in Nat \ {0} /\ PageBound \in Nat \ {0}
         /\ CandidateLimit \in Nat \ {0}
         /\ MaxUpdates \in Nat /\ MaxWalks \in Nat
         /\ order \in Seq(Listable) /\ Len(order) \in Nat
         /\ DOMAIN order = 1..Len(order)
         /\ \A i \in 1..Len(order) : order[i] \in Listable
         /\ found \in Seq(Listable) /\ Len(found) \in Nat
         /\ DOMAIN found = 1..Len(found)
         /\ cursor \in Nat /\ cursors \subseteq Nat
         /\ pages \in Nat /\ updates \in Nat /\ clock \in Nat /\ walks \in Nat
         /\ mark \in Nat /\ newestSeen \in Nat /\ since \in Nat
         /\ \A t \in Listable : updatedAt[t] \in Nat
<1>1. order \in Seq(Listable) /\ found \in Seq(Listable)
  BY DEF ListingTypeOK
<1>2. /\ Len(order) \in Nat /\ DOMAIN order = 1..Len(order)
      /\ \A i \in 1..Len(order) : order[i] \in Listable
      /\ Len(found) \in Nat /\ DOMAIN found = 1..Len(found)
  BY <1>1
<1> QED
  BY <1>1, <1>2, ListingAssumption DEF ListingTypeOK, Positions, Times

\* The position before an update of what is at a later position than the
\* first after it, when the i-th was moved.
Old(i, j) == IF j <= i THEN j - 1 ELSE j

LEMMA UpdatedMoves ==
  ASSUME ListingTypeOK, NEW t \in Listable, Updated(t)
  PROVE  \E i \in 1..Len(order) + 1 :
           /\ order' \in Seq(Listable) /\ Len(order') \in Nat
           /\ DOMAIN order' = 1..Len(order')
           /\ Len(order') <= Len(order) + 1
           /\ 1 \in 1..Len(order') /\ order'[1] = t
           /\ \A j \in 2..Len(order') :
                /\ Old(i, j) \in 1..Len(order)
                /\ order'[j] = order[Old(i, j)] /\ order[Old(i, j)] # t
           /\ IsInjective(order')
<1>1. PICK i \in 1..Len(order) + 1 :
        /\ IF i <= Len(order) THEN order[i] = t ELSE t \notin ToSet(order)
        /\ order' = ToFront(order, t, i)
  BY DEF Updated
<1>2. /\ order' \in Seq(Listable)
      /\ Len(order') = IF i <= Len(order) THEN Len(order) ELSE Len(order) + 1
      /\ order'[1] = t
      /\ \A j \in 2..Len(order') : order'[j] = order[IF j <= i THEN j - 1 ELSE j]
  <2> DEFINE r == ToFront(order, t, i)
  <2>1. order \in Seq(Listable)
    BY ListingNumbers
  <2>2. /\ r \in Seq(Listable)
        /\ Len(r) = IF i <= Len(order) THEN Len(order) ELSE Len(order) + 1
        /\ r[1] = t
        /\ \A j \in 2..Len(r) : r[j] = order[IF j <= i THEN j - 1 ELSE j]
    BY <2>1, MovesToFront
  <2>3. order' = r
    BY <1>1
  <2> HIDE DEF r
  <2> QED
    BY <2>2, <2>3
<1>3. /\ Len(order) \in Nat /\ i \in Nat /\ i >= 1 /\ i <= Len(order) + 1
      /\ DOMAIN order = 1..Len(order)
  BY <1>1, ListingNumbers
<1>4. /\ Len(order') \in Nat /\ Len(order') <= Len(order) + 1
      /\ 1 \in 1..Len(order') /\ DOMAIN order' = 1..Len(order')
  BY <1>2, <1>3
<1>5. \A p, q \in 1..Len(order) : order[p] = order[q] => p = q
  BY <1>3 DEF ListingTypeOK, IsInjective
<1>6. ASSUME NEW j \in 2..Len(order')
      PROVE  /\ Old(i, j) \in 1..Len(order) /\ Old(i, j) # i
             /\ order'[j] = order[Old(i, j)] /\ order[Old(i, j)] # t
  <2>1. Old(i, j) \in 1..Len(order) /\ Old(i, j) # i
    BY <1>2, <1>3 DEF Old
  <2>2. order'[j] = order[Old(i, j)]
    BY <1>2 DEF Old
  <2>3. order[Old(i, j)] # t
    <3>1. CASE i <= Len(order)
      <4>1. i \in 1..Len(order) /\ order[i] = t
        BY <1>1, <1>3, <3>1
      <4> QED
        BY <1>5, <2>1, <4>1
    <3>2. CASE ~(i <= Len(order))
      BY <1>1, <1>3, <2>1, <3>2 DEF ToSet
    <3> QED
      BY <3>1, <3>2
  <2> QED
    BY <2>1, <2>2, <2>3
<1>7. ASSUME NEW j \in 1..Len(order'), NEW k \in 1..Len(order'),
             order'[j] = order'[k]
      PROVE  j = k
  <2>1. CASE j = 1
    <3>1. k \notin 2..Len(order')
      BY <1>2, <1>6, <1>7, <2>1
    <3> QED
      BY <1>4, <2>1, <3>1
  <2>2. CASE k = 1
    <3>1. j \notin 2..Len(order')
      BY <1>2, <1>6, <1>7, <2>2
    <3> QED
      BY <1>4, <2>2, <3>1
  <2>3. CASE j # 1 /\ k # 1
    <3>1. j \in 2..Len(order') /\ k \in 2..Len(order')
      BY <1>4, <2>3
    <3>2. Old(i, j) = Old(i, k)
      BY <1>5, <1>6, <1>7, <3>1
    <3> QED
      BY <1>3, <1>4, <3>1, <3>2 DEF Old
  <2> QED
    BY <2>1, <2>2, <2>3
<1>8. IsInjective(order')
  BY <1>4, <1>7 DEF IsInjective
<1> QED
  BY <1>2, <1>4, <1>6, <1>8

\* The page that the daemon serves at the cursor.
LEMMA PageIs ==
  ASSUME ListingTypeOK
  PROVE  /\ LastOfPage \in Nat
         /\ Page \in Seq(Listable) /\ Len(Page) \in Nat
         /\ \A i \in 1..Len(Page) :
              cursor + i \in 1..Len(order) /\ Page[i] = order[cursor + i]
         /\ \A p \in 1..Len(order) :
              cursor < p /\ p <= LastOfPage => p - cursor \in 1..Len(Page)
<1>1. /\ PageSize \in Nat /\ Len(order) \in Nat /\ cursor \in Nat
      /\ \A p \in 1..Len(order) : order[p] \in Listable
  BY ListingNumbers
<1>2. LastOfPage \in Nat /\ LastOfPage <= Len(order)
  BY <1>1 DEF LastOfPage
<1>3. cursor + 1 \in Int /\ \A p \in cursor + 1..LastOfPage : order[p] \in Listable
  BY <1>1, <1>2
<1> DEFINE first == cursor + 1
           page == SubSeq(order, first, LastOfPage)
<1>4. /\ page \in Seq(Listable)
      /\ Len(page) = IF first <= LastOfPage THEN LastOfPage - first + 1 ELSE 0
      /\ \A i \in 1..LastOfPage - first + 1 : page[i] = order[first + i - 1]
  <2> HIDE DEF first
  <2>1. first \in Int /\ LastOfPage \in Int
        /\ \A p \in first..LastOfPage : order[p] \in Listable
    BY <1>2, <1>3 DEF first
  <2> QED
    BY <2>1, SubSeqProperties
<1>5. Page = page
  BY DEF Page
<1> HIDE DEF page
<1>6. Len(page) = IF cursor < LastOfPage THEN LastOfPage - cursor ELSE 0
  BY <1>1, <1>2, <1>4
<1>7. ASSUME NEW i \in 1..Len(page)
      PROVE  cursor + i \in 1..Len(order) /\ page[i] = order[cursor + i]
  <2>1. i \in 1..LastOfPage - first + 1 /\ first + i - 1 = cursor + i
    BY <1>1, <1>2, <1>6
  <2>2. cursor + i \in 1..Len(order)
    BY <1>1, <1>2, <1>6
  <2> QED
    BY <1>4, <2>1, <2>2
<1>8. \A p \in 1..Len(order) :
        cursor < p /\ p <= LastOfPage => p - cursor \in 1..Len(page)
  BY <1>1, <1>2, <1>6
<1>9. Len(page) \in Nat
  BY <1>1, <1>2, <1>6
<1> QED
  BY <1>2, <1>4, <1>5, <1>7, <1>8, <1>9

-----------------------------------------------------------------------------
(* The steps.                                                              *)

\* An update puts its thread first and leaves the rest where they were, or
\* one further down: nothing unmoved gets in front of what a walk has passed.
LEMMA UpdatedKeeps ==
  ASSUME ListingTypeOK, ListingInv, NEW t \in Listable, Updated(t)
  PROVE  ListingTypeOK' /\ ListingInv'
<1>1. PICK i \in 1..Len(order) + 1 :
        /\ order' \in Seq(Listable) /\ Len(order') \in Nat
        /\ DOMAIN order' = 1..Len(order')
        /\ Len(order') <= Len(order) + 1
        /\ 1 \in 1..Len(order') /\ order'[1] = t
        /\ \A j \in 2..Len(order') :
             /\ Old(i, j) \in 1..Len(order)
             /\ order'[j] = order[Old(i, j)] /\ order[Old(i, j)] # t
        /\ IsInjective(order')
  BY UpdatedMoves
<1>2. /\ updates < MaxUpdates /\ updates' = updates + 1
      /\ clock' \in {clock, clock + 1}
      /\ updatedAt' = [updatedAt EXCEPT ![t] = clock']
      /\ moved' = moved \cup {t}
      /\ faulty' = faulty /\ walk' = walk /\ since' = since /\ walks' = walks
      /\ cursor' = cursor /\ cursors' = cursors /\ pages' = pages
      /\ found' = found /\ mark' = mark /\ newestSeen' = newestSeen
  BY DEF Updated, walkVars
<1>3. /\ Len(order) \in Nat /\ DOMAIN order = 1..Len(order)
      /\ updates \in Nat /\ clock \in Nat /\ MaxUpdates \in Nat
      /\ mark \in Nat /\ newestSeen \in Nat /\ since \in Nat
      /\ cursor \in Nat /\ cursors \subseteq Nat
      /\ \A u \in Listable : updatedAt[u] \in Nat
      /\ \A j \in 1..Len(order) : order[j] \in Listable
  BY ListingNumbers
<1>4. /\ Len(order) <= updates /\ clock <= updates + 1
      /\ mark <= clock /\ newestSeen <= clock
      /\ \A u \in Listable : updatedAt[u] <= clock
  BY DEF ListingInv, ClockInv
<1>5. /\ clock' \in Nat /\ clock <= clock' /\ clock' <= clock + 1
      /\ clock' \in Times
  BY <1>2, <1>3, <1>4 DEF Times
<1>6. /\ updatedAt' \in [Listable -> Times] /\ updatedAt'[t] = clock'
      /\ \A u \in Listable \ {t} : updatedAt'[u] = updatedAt[u]
  BY <1>2, <1>5 DEF ListingTypeOK
<1>7. ListingTypeOK'
  <2>1. updates' \in 0..MaxUpdates
    BY <1>2, <1>3
  <2> QED
    BY <1>1, <1>2, <1>5, <1>6, <2>1 DEF ListingTypeOK
<1>8. ClockInv'
  <2>1. \A u \in Listable : updatedAt'[u] <= clock'
    BY <1>3, <1>4, <1>5, <1>6
  <2>2. Len(order') <= updates' /\ clock' <= updates' + 1
    BY <1>1, <1>2, <1>3, <1>4, <1>5
  <2>3. mark' <= clock' /\ newestSeen' <= clock'
    BY <1>2, <1>3, <1>4, <1>5
  <2> QED
    BY <2>1, <2>2, <2>3 DEF ClockInv
<1>9. \A j \in 1..Len(order') : j # 1 => j \in 2..Len(order')
  BY <1>1
<1>10. Sorted'
  <2> SUFFICES ASSUME NEW j \in 1..Len(order'), NEW k \in 1..Len(order'), j <= k
               PROVE  updatedAt'[order'[k]] <= updatedAt'[order'[j]]
    BY DEF Sorted
  <2>1. order'[k] \in Listable
    BY <1>1
  <2>2. CASE j = 1
    BY <1>1, <1>3, <1>4, <1>5, <1>6, <2>1, <2>2
  <2>3. CASE j # 1
    <3>1. j \in 2..Len(order') /\ k \in 2..Len(order')
      BY <1>1, <2>3
    <3>2. Old(i, j) <= Old(i, k)
      BY <1>1, <1>3, <3>1 DEF Old
    <3>3. updatedAt[order[Old(i, k)]] <= updatedAt[order[Old(i, j)]]
      BY <1>1, <3>1, <3>2 DEF ListingInv, Sorted
    <3>4. /\ updatedAt'[order'[j]] = updatedAt[order[Old(i, j)]]
          /\ updatedAt'[order'[k]] = updatedAt[order[Old(i, k)]]
      BY <1>1, <1>3, <1>6, <3>1
    <3> QED
      BY <3>3, <3>4
  <2> QED
    BY <2>2, <2>3
<1>11. ASSUME NEW j \in 2..Len(order'), Passed(j)'
       PROVE  Passed(Old(i, j))
  <2>1. PICK k \in cursors \cup {cursor} : j <= k
    BY <1>2, <1>11 DEF Passed
  <2>2. k \in Nat /\ j \in Nat /\ Old(i, j) <= j
    BY <1>1, <1>3 DEF Old
  <2>3. Old(i, j) \in Nat
    BY <1>1, <1>3
  <2>4. Old(i, j) <= k
    BY <2>1, <2>2, <2>3
  <2> QED
    BY <2>4 DEF Passed
<1>12. AllInv'
  <2> SUFFICES ASSUME walk = "all"
               PROVE  /\ 0 \notin cursors /\ IsInjective(found)
                      /\ \A j \in 1..Len(order') :
                           Passed(j)' => order'[j] \in moved' \cup ToSet(found)
    BY <1>2 DEF AllInv
  <2>1. ASSUME NEW j \in 1..Len(order'), Passed(j)'
        PROVE  order'[j] \in moved' \cup ToSet(found)
    <3>1. CASE j = 1
      BY <1>1, <1>2, <3>1
    <3>2. CASE j # 1
      BY <1>1, <1>2, <1>9, <1>11, <2>1, <3>2 DEF ListingInv, AllInv
    <3> QED
      BY <3>1, <3>2
  <2> QED
    BY <2>1 DEF ListingInv, AllInv
<1>13. ToSet(order') \ {t} \subseteq ToSet(order)
  BY <1>1, <1>3, <1>9 DEF ToSet
<1>14. AllListedOnce'
  BY <1>2, <1>13 DEF ListingInv, AllListedOnce, Unmoved
<1>15. ASSUME NEW w \in Nat, w <= clock,
              NEW u \in Listable, u = t \/ Handled(u, w)
       PROVE  since' = 0 \/ updatedAt'[u] > since' =>
                \/ u \in ToSet(found')
                \/ u \in moved' /\ (faulty' \/ updatedAt'[u] >= w)
  BY <1>2, <1>3, <1>5, <1>6, <1>15 DEF Handled
<1>16. ReconcileInv'
  <2> SUFFICES ASSUME walk = "reconcile"
               PROVE  /\ 0 \notin cursors
                      /\ ~faulty => \A k \in cursors : k <= cursor
                      /\ since = mark /\ mark <= newestSeen
                      /\ pages < PageBound /\ Len(found) < CandidateLimit
                      /\ \A j \in 1..Len(order') :
                           Passed(j)' => Handled(order[j], newestSeen)'
    BY <1>2 DEF ReconcileInv
  <2>1. ASSUME NEW j \in 1..Len(order'), Passed(j)'
        PROVE  Handled(order[j], newestSeen)'
    <3>1. order'[j] \in Listable
      BY <1>1
    <3>2. order'[j] = t \/ Handled(order'[j], newestSeen)
      <4>1. CASE j = 1
        BY <1>1, <4>1
      <4>2. CASE j # 1
        BY <1>1, <1>9, <1>11, <2>1, <4>2 DEF ListingInv, ReconcileInv
      <4> QED
        BY <4>1, <4>2
    <3> QED
      BY <1>2, <1>3, <1>4, <1>15, <3>1, <3>2 DEF Handled
  <2> QED
    BY <2>1 DEF ListingInv, ReconcileInv
<1>17. CandidatesCover'
  <2> SUFFICES ASSUME walk = "covered", NEW u \in ToSet(order')
               PROVE  since' = 0 \/ updatedAt'[u] > since' =>
                        \/ u \in ToSet(found')
                        \/ u \in moved' /\ (faulty' \/ updatedAt'[u] >= mark)
    BY <1>2 DEF CandidatesCover
  <2>1. u \in Listable
    BY <1>1 DEF ToSet
  <2>2. u = t \/ Handled(u, mark)
    BY <1>13 DEF ListingInv, CandidatesCover, Handled
  <2> QED
    BY <1>3, <1>4, <1>15, <2>1, <2>2
<1> QED
  BY <1>7, <1>8, <1>10, <1>12, <1>14, <1>16, <1>17 DEF ListingInv

LEMMA BeginsKeeps ==
  ASSUME ListingTypeOK, ListingInv, NEW kind \in {"all", "reconcile"}, Begins(kind)
  PROVE  ListingTypeOK' /\ ListingInv'
<1>1. /\ walks < MaxWalks /\ walks' = walks + 1 /\ walk' = kind
      /\ cursor' = 0 /\ cursors' = {} /\ pages' = 0 /\ found' = <<>>
      /\ newestSeen' = mark /\ since' = mark /\ moved' = {} /\ mark' = mark
      /\ order' = order /\ updatedAt' = updatedAt /\ clock' = clock
      /\ updates' = updates /\ faulty' = faulty
  BY DEF Begins, daemonListVars
<1>2. /\ walks \in Nat /\ MaxWalks \in Nat /\ MaxUpdates \in Nat /\ mark \in Nat
      /\ PageBound \in Nat \ {0} /\ CandidateLimit \in Nat \ {0}
      /\ Len(order) \in Nat
  BY ListingNumbers
<1>3. /\ <<>> \in Seq(Listable) /\ Len(<<>>) = 0
      /\ IsInjective(<<>>)
  BY DEF IsInjective
<1>4. ListingTypeOK'
  <2>1. 0 \in Positions /\ 0 \in 0..PageBound /\ walks + 1 \in 0..MaxWalks
    BY <1>1, <1>2 DEF Positions
  <2>2. /\ found' \in Seq(Listable) /\ Len(found') <= CandidateLimit
        /\ cursor' \in Positions /\ cursors' \subseteq Positions
        /\ pages' \in 0..PageBound /\ walks' \in 0..MaxWalks
        /\ moved' \subseteq Listable
    BY <1>1, <1>2, <1>3, <2>1
  <2>3. /\ walk' \in {"none", "all", "reconcile", "complete", "repeated", "covered",
                      "bounded", "failed"}
        /\ {mark', newestSeen', since'} \subseteq Times
    BY <1>1 DEF ListingTypeOK
  <2>4. /\ order' \in Seq(Listable) /\ IsInjective(order')
        /\ updatedAt' \in [Listable -> Times]
        /\ clock' \in Times /\ updates' \in 0..MaxUpdates /\ faulty' \in BOOLEAN
    BY <1>1 DEF ListingTypeOK
  <2> QED
    BY <2>2, <2>3, <2>4 DEF ListingTypeOK
<1>5. Sorted' /\ ClockInv'
  BY <1>1 DEF ListingInv, Sorted, ClockInv
<1>6. \A j \in 1..Len(order') : ~Passed(j)'
  BY <1>1, <1>2 DEF Passed
<1>7. AllInv'
  BY <1>1, <1>3, <1>6 DEF AllInv
<1>8. ReconcileInv'
  BY <1>1, <1>2, <1>3, <1>6 DEF ReconcileInv
<1>9. AllListedOnce' /\ CandidatesCover'
  BY <1>1 DEF AllListedOnce, CandidatesCover
<1> QED
  BY <1>4, <1>5, <1>7, <1>8, <1>9 DEF ListingInv

LEMMA FailureKeeps ==
  ASSUME ListingTypeOK, ListingInv, PageFails
  PROVE  ListingTypeOK' /\ ListingInv'
<1>1. /\ walk' = "failed" /\ walks' = walks
      /\ cursor' = cursor /\ cursors' = cursors /\ pages' = pages
      /\ found' = found /\ newestSeen' = newestSeen /\ since' = since
      /\ moved' = moved /\ mark' = mark
      /\ order' = order /\ updatedAt' = updatedAt /\ clock' = clock
      /\ updates' = updates /\ faulty' = faulty
  BY DEF PageFails, daemonListVars, walkVars
<1>2. ListingTypeOK'
  BY <1>1 DEF ListingTypeOK
<1> QED
  BY <1>1, <1>2
  DEF ListingInv, Sorted, ClockInv, AllInv, AllListedOnce, ReconcileInv,
      CandidatesCover

\* What the next cursor is, other than 0 and those named before.
LEMMA NextIsHonest ==
  ASSUME ListingTypeOK, NEW next \in NextCursors, next \notin cursors
  PROVE  /\ next = 0 => LastOfPage = Len(order)
         /\ next # 0 => next = LastOfPage /\ next \in Nat /\ next < Len(order)
<1>1. /\ PageSize \in Nat \ {0} /\ cursor \in Nat /\ Len(order) \in Nat
      /\ cursor + PageSize # 0 /\ cursor + PageSize \in Nat
  BY ListingNumbers
<1>2. next \in IF cursor + PageSize < Len(order) THEN {cursor + PageSize} ELSE {0}
  BY DEF NextCursors
<1> QED
  BY <1>1, <1>2 DEF LastOfPage

\* Every position is one that the walk has passed, or on the page, or after.
LEMMA PassedOrOnPage ==
  ASSUME ListingTypeOK, NEW p \in 1..Len(order), p <= LastOfPage
  PROVE  Passed(p) \/ order[p] \in ToSet(Page)
<1>1. cursor \in Nat /\ Len(order) \in Nat /\ cursors \subseteq Nat
  BY ListingNumbers
<1>2. CASE p <= cursor
  BY <1>2 DEF Passed
<1>3. CASE ~(p <= cursor)
  <2>1. p - cursor \in 1..Len(Page)
    BY <1>1, <1>3, PageIs
  <2>2. Page[p - cursor] = order[cursor + (p - cursor)]
    BY <2>1, PageIs
  <2>3. cursor + (p - cursor) = p
    BY <1>1
  <2>4. DOMAIN Page = 1..Len(Page)
    BY PageIs
  <2> QED
    BY <2>1, <2>2, <2>3, <2>4 DEF ToSet
<1> QED
  BY <1>2, <1>3

\* A page of list_all adds what is on it: then nothing before the next cursor
\* is missing but what has moved.
LEMMA AllPageKeeps ==
  ASSUME ListingTypeOK, ListingInv, AllPage
  PROVE  ListingTypeOK' /\ ListingInv'
<1>1. /\ walk = "all" /\ found' = Extended(found, Page)
      /\ pages' = pages /\ walks' = walks
      /\ newestSeen' = newestSeen /\ since' = since
      /\ moved' = moved /\ mark' = mark
      /\ order' = order /\ updatedAt' = updatedAt /\ clock' = clock
      /\ updates' = updates /\ faulty' = faulty
  BY DEF AllPage, daemonListVars
<1>2. /\ Len(order) \in Nat /\ DOMAIN order = 1..Len(order)
      /\ updates \in Nat /\ cursor \in Nat /\ cursors \subseteq Nat
      /\ MaxUpdates \in Nat /\ found \in Seq(Listable)
  BY ListingNumbers
<1>3. /\ found' \in Seq(Listable)
      /\ ToSet(found') = ToSet(found) \cup ToSet(Page)
      /\ IsInjective(found) => IsInjective(found')
  <2>1. Page \in Seq(Listable)
    BY PageIs
  <2> QED
    BY <1>1, <1>2, <2>1, ExtendedIs
<1>4. /\ 0 \notin cursors /\ IsInjective(found)
      /\ \A i \in 1..Len(order) :
           Passed(i) => order[i] \in moved \cup ToSet(found)
  BY <1>1 DEF ListingInv, AllInv
<1>5. ASSUME NEW p \in 1..Len(order), p <= LastOfPage \/ Passed(p)
      PROVE  order[p] \in moved \cup ToSet(found')
  BY <1>3, <1>4, <1>5, PassedOrOnPage
<1>6. Sorted' /\ ClockInv'
  BY <1>1 DEF ListingInv, Sorted, ClockInv
<1>7. ASSUME walk' \notin {"reconcile", "covered", "bounded"},
             walk' \in {"all", "complete", "repeated"},
             cursor' \in Positions, cursors' \subseteq Positions
      PROVE  ListingTypeOK'
  BY <1>1, <1>3, <1>7 DEF ListingTypeOK
<1>8. PICK next \in NextCursors :
        \/ next = 0 /\ walk' = "complete" /\ UNCHANGED <<cursor, cursors>>
        \/ next \in cursors /\ walk' = "repeated" /\ UNCHANGED <<cursor, cursors>>
        \/ /\ next \notin cursors \cup {0} /\ cursor' = next
           /\ cursors' = cursors \cup {next} /\ UNCHANGED walk
  BY DEF AllPage
<1>9. CASE next = 0 /\ walk' = "complete" /\ UNCHANGED <<cursor, cursors>>
  <2>1. LastOfPage = Len(order)
    BY <1>4, <1>9, NextIsHonest
  <2>2. \A p \in 1..Len(order) : order[p] \in moved \cup ToSet(found')
    BY <1>2, <1>5, <2>1
  <2>3. AllListedOnce'
    BY <1>1, <1>2, <1>3, <1>4, <2>2 DEF AllListedOnce, Unmoved, ToSet
  <2>4. AllInv' /\ ReconcileInv' /\ CandidatesCover'
    BY <1>9 DEF AllInv, ReconcileInv, CandidatesCover
  <2>5. ListingTypeOK'
    BY <1>7, <1>9 DEF ListingTypeOK
  <2> QED
    BY <1>6, <2>3, <2>4, <2>5 DEF ListingInv
<1>10. CASE /\ next \in cursors /\ walk' = "repeated"
            /\ UNCHANGED <<cursor, cursors>>
  <2>1. AllInv' /\ ReconcileInv' /\ CandidatesCover' /\ AllListedOnce'
    BY <1>10 DEF AllInv, ReconcileInv, CandidatesCover, AllListedOnce
  <2>2. ListingTypeOK'
    BY <1>7, <1>10 DEF ListingTypeOK
  <2> QED
    BY <1>6, <2>1, <2>2 DEF ListingInv
<1>11. CASE /\ next \notin cursors \cup {0} /\ cursor' = next
            /\ cursors' = cursors \cup {next} /\ UNCHANGED walk
  <2>1. next = LastOfPage /\ next \in Nat /\ next < Len(order)
    BY <1>11, NextIsHonest
  <2>2. next \in Positions
    <3>1. Len(order) <= updates /\ updates <= MaxUpdates
      BY <1>2 DEF ListingInv, ClockInv, ListingTypeOK
    <3> QED
      BY <1>2, <2>1, <3>1 DEF Positions
  <2>3. ListingTypeOK'
    BY <1>1, <1>7, <1>11, <2>2 DEF ListingTypeOK
  <2>4. ASSUME NEW p \in 1..Len(order), Passed(p)'
        PROVE  order[p] \in moved \cup ToSet(found')
    <3>1. Passed(p) \/ p <= next
      BY <1>11, <2>4 DEF Passed
    <3> QED
      BY <1>5, <2>1, <3>1
  <2>5. AllInv'
    BY <1>1, <1>3, <1>4, <1>11, <2>4 DEF AllInv
  <2>6. ReconcileInv' /\ CandidatesCover' /\ AllListedOnce'
    BY <1>1, <1>11 DEF ReconcileInv, CandidatesCover, AllListedOnce
  <2> QED
    BY <1>6, <2>3, <2>5, <2>6 DEF ListingInv
<1> QED
  BY <1>8, <1>9, <1>10, <1>11

\* A page of reconcile: the candidates it adds, and those it stops at.
LEMMA ReconcilePageKeeps ==
  ASSUME ListingTypeOK, ListingInv, ReconcilePage
  PROVE  ListingTypeOK' /\ ListingInv'
<1>1. PICK n \in 0..Len(Page), next \in NextCursors :
        LET reached == n < Len(Page) /\ n < Room
            all == reached \/ (next = 0 /\ n = Len(Page))
            over == all \/ next = 0 \/ n = Room \/ pages' = PageBound
        IN  /\ Takes(Page, n)
            /\ found' = found \o SubSeq(Page, 1, n)
            /\ walk' = IF all THEN "covered" ELSE IF over THEN "bounded" ELSE walk
            /\ cursor' = next
            /\ cursors' = cursors \cup {next}
            /\ mark' = IF over THEN newestSeen' ELSE mark
  BY DEF ReconcilePage
<1> DEFINE reached == n < Len(Page) /\ n < Room
           all == reached \/ (next = 0 /\ n = Len(Page))
           over == all \/ next = 0 \/ n = Room \/ pages' = PageBound
<1>2. /\ walk = "reconcile" /\ Takes(Page, n)
      /\ found' = found \o SubSeq(Page, 1, n)
      /\ walk' = IF all THEN "covered" ELSE IF over THEN "bounded" ELSE walk
      /\ cursor' = next
      /\ cursors' = cursors \cup {next}
      /\ mark' = IF over THEN newestSeen' ELSE mark
      /\ newestSeen' = IF Newest(Page) > newestSeen THEN Newest(Page) ELSE newestSeen
      /\ pages' = pages + 1
      /\ since' = since /\ moved' = moved /\ walks' = walks
      /\ order' = order /\ updatedAt' = updatedAt /\ clock' = clock
      /\ updates' = updates /\ faulty' = faulty
  BY <1>1 DEF ReconcilePage, daemonListVars
<1> HIDE DEF reached, all, over
<1>3. /\ PageBound \in Nat \ {0} /\ CandidateLimit \in Nat \ {0}
      /\ PageSize \in Nat \ {0} /\ MaxUpdates \in Nat
      /\ Len(order) \in Nat /\ DOMAIN order = 1..Len(order)
      /\ found \in Seq(Listable) /\ Len(found) \in Nat
      /\ DOMAIN found = 1..Len(found)
      /\ cursor \in Nat /\ cursors \subseteq Nat /\ pages \in Nat /\ updates \in Nat
      /\ clock \in Nat /\ mark \in Nat /\ newestSeen \in Nat /\ since \in Nat
      /\ \A u \in Listable : updatedAt[u] \in Nat
      /\ \A p \in 1..Len(order) : order[p] \in Listable
  BY ListingNumbers
<1>4. /\ 0 \notin cursors
      /\ ~faulty => \A k \in cursors : k <= cursor
      /\ since = mark /\ mark <= newestSeen
      /\ pages < PageBound /\ Len(found) < CandidateLimit
      /\ \A p \in 1..Len(order) : Passed(p) => Handled(order[p], newestSeen)
  BY <1>2 DEF ListingInv, ReconcileInv
<1>5. /\ Page \in Seq(Listable) /\ Len(Page) \in Nat /\ LastOfPage \in Nat
      /\ \A i \in 1..Len(Page) :
           cursor + i \in 1..Len(order) /\ Page[i] = order[cursor + i]
      /\ \A p \in 1..Len(order) :
           cursor < p /\ p <= LastOfPage => p - cursor \in 1..Len(Page)
  BY PageIs
<1>6. /\ n \in Nat /\ n <= Len(Page) /\ Room \in Nat /\ n <= Room
      /\ Room = CandidateLimit - Len(found)
      /\ reached => Below(Page[n + 1])
  BY <1>1, <1>2, <1>3, <1>4, <1>5 DEF Takes, Room, reached
<1>7. /\ found' \in Seq(Listable) /\ Len(found') = Len(found) + n
      /\ ToSet(found) \subseteq ToSet(found')
      /\ \A i \in 1..n : Page[i] \in ToSet(found')
  <2> DEFINE taken == SubSeq(Page, 1, n)
  <2>1. taken \in Seq(Listable) /\ Len(taken) = n
        /\ \A i \in 1..n : taken[i] = Page[i]
    <3>1. 1 \in Int /\ n \in Int /\ \A i \in 1..n : Page[i] \in Listable
      BY <1>5, <1>6
    <3>2. /\ taken \in Seq(Listable)
          /\ Len(taken) = IF 1 <= n THEN n - 1 + 1 ELSE 0
          /\ \A i \in 1..n - 1 + 1 : taken[i] = Page[1 + i - 1]
      BY <3>1, SubSeqProperties
    <3>3. n - 1 + 1 = n /\ \A i \in 1..n : 1 + i - 1 = i
      BY <1>6
    <3> QED
      BY <1>6, <3>2, <3>3
  <2>2. found' = found \o taken
    BY <1>2
  <2> HIDE DEF taken
  <2>3. /\ found' \in Seq(Listable)
        /\ Len(found') = Len(found) + Len(taken)
        /\ \A i \in 1..Len(found) + Len(taken) : found'[i] =
             IF i <= Len(found) THEN found[i] ELSE taken[i - Len(found)]
    BY <1>3, <2>1, <2>2, ConcatProperties
  <2>4. DOMAIN found' = 1..Len(found) + n
    BY <1>3, <1>6, <2>1, <2>3
  <2>5. ASSUME NEW i \in 1..Len(found)
        PROVE  i \in DOMAIN found' /\ found'[i] = found[i]
    BY <1>3, <1>6, <2>1, <2>3, <2>4
  <2>6. ASSUME NEW i \in 1..n
        PROVE  Page[i] \in ToSet(found')
    <3>1. Len(found) + i \in 1..Len(found) + n /\ ~(Len(found) + i <= Len(found))
          /\ (Len(found) + i) - Len(found) = i
      BY <1>3, <1>6
    <3>2. found'[Len(found) + i] = Page[i]
      BY <2>1, <2>3, <3>1
    <3> QED
      BY <2>4, <3>1, <3>2 DEF ToSet
  <2>7. ToSet(found) \subseteq ToSet(found')
    BY <1>3, <2>5 DEF ToSet
  <2> QED
    BY <2>1, <2>3, <2>6, <2>7
<1>8. Sorted /\ ClockInv
  BY DEF ListingInv
<1>9. Newest(Page) \in Times /\ Newest(Page) <= clock
      /\ \A p \in 1..Len(order) :
           p <= cursor => Newest(Page) <= updatedAt[order[p]]
  <2>1. CASE Page = <<>>
    BY <1>3, <2>1 DEF Newest, Times
  <2>2. CASE Page # <<>>
    <3>1. 1 \in 1..Len(Page)
      BY <1>5, <2>2, EmptySeq
    <3>2. /\ cursor + 1 \in 1..Len(order)
          /\ Newest(Page) = updatedAt[order[cursor + 1]]
      BY <1>5, <2>2, <3>1 DEF Newest
    <3>3. updatedAt[order[cursor + 1]] \in Times
      BY <1>3, <3>2 DEF ListingTypeOK
    <3>4. updatedAt[order[cursor + 1]] <= clock
      BY <1>3, <1>8, <3>2 DEF ClockInv
    <3>5. ASSUME NEW p \in 1..Len(order), p <= cursor
          PROVE  updatedAt[order[cursor + 1]] <= updatedAt[order[p]]
      <4>1. p <= cursor + 1
        BY <1>3, <3>5
      <4> QED
        BY <1>8, <3>2, <4>1 DEF Sorted
    <3> QED
      BY <3>2, <3>3, <3>4, <3>5
  <2> QED
    BY <2>1, <2>2
<1>10. /\ newestSeen' \in Times /\ newestSeen' \in Nat /\ newestSeen' <= clock
       /\ newestSeen <= newestSeen'
       /\ newestSeen' \in {newestSeen, Newest(Page)}
       /\ mark' \in Times /\ mark' <= clock
  BY <1>2, <1>3, <1>8, <1>9 DEF ListingTypeOK, ClockInv, Times
<1>11. ASSUME NEW p \in 1..Len(order), p <= cursor + n \/ Passed(p)
       PROVE  Handled(order[p], newestSeen)'
  <2>1. p \in Nat
    OBVIOUS
  <2>2. CASE Passed(p)
    <3>1. order[p] \in ToSet(found) => order[p] \in ToSet(found')
      BY <1>7
    <3>2. ~faulty => p <= cursor
      <4>1. PICK k \in cursors \cup {cursor} : p <= k
        BY <2>2 DEF Passed
      <4>2. k \in Nat /\ cursor \in Nat
        BY <1>3
      <4>3. ~faulty => k <= cursor
        BY <1>4, <4>2
      <4>4. \A l, m, o \in Nat : l <= m /\ m <= o => l <= o
        OBVIOUS
      <4> QED
        BY <2>1, <4>1, <4>2, <4>3, <4>4
    <3>3. ~faulty /\ updatedAt[order[p]] >= newestSeen =>
            updatedAt[order[p]] >= newestSeen'
      BY <1>3, <1>9, <1>10, <3>2
    <3>4. Handled(order[p], newestSeen)
      BY <1>4, <2>2
    <3> QED
      BY <1>2, <3>1, <3>3, <3>4 DEF Handled
  <2>3. CASE ~Passed(p)
    <3>1. ~(p <= cursor)
      BY <2>3 DEF Passed
    <3>2. p - cursor \in 1..n /\ cursor + (p - cursor) = p
      BY <1>3, <1>6, <1>11, <2>1, <2>3, <3>1
    <3>3. p - cursor \in 1..Len(Page)
      BY <1>5, <1>6, <3>2
    <3>4. order[p] \in ToSet(found')
      BY <1>5, <1>7, <3>2, <3>3
    <3> QED
      BY <1>2, <3>4 DEF Handled
  <2> QED
    BY <2>2, <2>3
<1>12. ASSUME NEW p \in 1..Len(order), n = Len(Page), p <= LastOfPage
       PROVE  p <= cursor + n \/ Passed(p)
  BY <1>3, <1>5, <1>6, <1>12 DEF Passed
<1>13. ASSUME all, NEW p \in 1..Len(order)
       PROVE  Handled(order[p], newestSeen)'
  <2>1. CASE reached /\ p > cursor + n
    <3>1. n + 1 \in 1..Len(Page) /\ cursor + (n + 1) <= p
      BY <1>3, <1>5, <1>6, <2>1 DEF reached
    <3>2. /\ cursor + (n + 1) \in 1..Len(order)
          /\ Page[n + 1] = order[cursor + (n + 1)]
      BY <1>5, <3>1
    <3>3. mark > 0 /\ updatedAt[order[cursor + (n + 1)]] <= mark
      BY <1>6, <2>1, <3>2 DEF Below
    <3>4. updatedAt[order[p]] <= updatedAt[order[cursor + (n + 1)]]
      BY <1>8, <3>1, <3>2 DEF Sorted
    <3>5. /\ updatedAt[order[p]] \in Nat
          /\ updatedAt[order[cursor + (n + 1)]] \in Nat
      BY <1>3, <3>2
    <3>6. since # 0 /\ ~(updatedAt[order[p]] > since)
      BY <1>3, <1>4, <3>3, <3>4, <3>5
    <3> QED
      BY <1>2, <3>6 DEF Handled
  <2>2. CASE reached /\ p <= cursor + n
    BY <1>11, <2>2
  <2>3. CASE ~reached
    <3>1. next = 0 /\ n = Len(Page)
      BY <1>13, <2>3 DEF all
    <3>2. LastOfPage = Len(order)
      BY <1>1, <1>4, <3>1, NextIsHonest
    <3>3. p <= LastOfPage
      BY <3>2
    <3> QED
      BY <1>11, <1>12, <3>1, <3>3
  <2> QED
    BY <1>3, <1>6, <2>1, <2>2, <2>3
<1>14. Sorted' /\ ClockInv'
  BY <1>2, <1>8, <1>10 DEF Sorted, ClockInv
<1>15. next \in Positions
  <2>1. CASE next \in cursors
    BY <2>1 DEF ListingTypeOK
  <2>2. CASE next \notin cursors
    <3>1. next = 0 \/ (next \in Nat /\ next < Len(order))
      BY <1>1, <2>2, NextIsHonest
    <3>2. Len(order) <= updates /\ updates <= MaxUpdates
      BY <1>3, <1>8 DEF ClockInv, ListingTypeOK
    <3> QED
      BY <1>3, <3>1, <3>2 DEF Positions
  <2> QED
    BY <2>1, <2>2
<1>16. ListingTypeOK'
  <2>1. walk' \in {"reconcile", "covered", "bounded"}
    BY <1>2
  <2>2. pages' \in 0..PageBound /\ Len(found') <= CandidateLimit
    BY <1>2, <1>3, <1>4, <1>6, <1>7
  <2>3. cursor' \in Positions /\ cursors' \subseteq Positions
    BY <1>2, <1>15 DEF ListingTypeOK
  <2> QED
    BY <1>2, <1>7, <1>10, <2>1, <2>2, <2>3 DEF ListingTypeOK
<1>17. AllInv' /\ AllListedOnce'
  BY <1>2 DEF AllInv, AllListedOnce
<1>18. CandidatesCover'
  <2> SUFFICES ASSUME walk' = "covered", NEW u \in ToSet(order)
               PROVE  Handled(u, mark)'
    BY <1>2 DEF CandidatesCover, Handled
  <2>1. all /\ mark' = newestSeen'
    BY <1>2 DEF over
  <2>2. PICK p \in 1..Len(order) : u = order[p]
    BY <1>3 DEF ToSet
  <2> QED
    BY <1>2, <1>13, <2>1, <2>2 DEF Handled
<1>19. ReconcileInv'
  <2> SUFFICES ASSUME ~over
               PROVE  /\ 0 \notin cursors'
                      /\ ~faulty' => \A k \in cursors' : k <= cursor'
                      /\ since' = mark' /\ mark' <= newestSeen'
                      /\ pages' < PageBound /\ Len(found') < CandidateLimit
                      /\ \A p \in 1..Len(order') :
                           Passed(p)' => Handled(order[p], newestSeen)'
    BY <1>2 DEF ReconcileInv
  <2>1. next # 0 /\ n # Room /\ pages' # PageBound /\ ~reached
    BY DEF over, all
  <2>2. n = Len(Page)
    BY <1>5, <1>6, <2>1 DEF reached
  <2>3. ~faulty => next = cursor + PageSize
    BY <1>1, <2>1 DEF NextCursors
  <2>4. ~faulty' => \A k \in cursors' : k <= cursor'
    <3>1. faulty' = faulty /\ cursor' = next /\ cursors' = cursors \cup {next}
      BY <1>2
    <3>2. ASSUME ~faulty, NEW k \in cursors \cup {next}
          PROVE  k <= next
      <4>1. next = cursor + PageSize /\ cursor \in Nat /\ PageSize \in Nat
        BY <1>3, <2>3, <3>2
      <4>2. k \in cursors => k \in Nat /\ k <= cursor
        BY <1>3, <1>4, <3>2
      <4> QED
        BY <3>2, <4>1, <4>2
    <3> QED
      BY <3>1, <3>2
  <2>5. pages' < PageBound /\ Len(found') < CandidateLimit
    <3>1. pages' = pages + 1 /\ pages < PageBound /\ pages \in Nat /\ PageBound \in Nat
      BY <1>2, <1>3, <1>4
    <3>2. n < Room /\ Len(found') = Len(found) + n
      BY <1>6, <1>7, <2>1
    <3> QED
      BY <1>3, <1>6, <2>1, <3>1, <3>2
  <2>6. ASSUME NEW p \in 1..Len(order), Passed(p)'
        PROVE  Handled(order[p], newestSeen)'
    <3>1. PICK k \in cursors \cup {next} : p <= k
      BY <1>2, <2>6 DEF Passed
    <3>2. CASE k \in cursors
      BY <1>11, <3>1, <3>2 DEF Passed
    <3>3. CASE k \notin cursors
      <4>1. next \notin cursors /\ k = next
        BY <3>1, <3>3
      <4>2. next = LastOfPage
        BY <1>1, <2>1, <4>1, NextIsHonest
      <4> QED
        BY <1>11, <1>12, <2>2, <3>1, <4>1, <4>2
    <3> QED
      BY <3>2, <3>3
  <2>7. since' = mark' /\ mark' <= newestSeen'
    BY <1>2, <1>3, <1>4, <1>10
  <2> QED
    BY <1>2, <1>4, <2>1, <2>4, <2>5, <2>6, <2>7
<1> QED
  BY <1>14, <1>16, <1>17, <1>18, <1>19 DEF ListingInv

LEMMA ListingInvariant == ListingSpec => [](ListingTypeOK /\ ListingInv)
<1>1. ListingInit => ListingTypeOK /\ ListingInv
  <2> SUFFICES ASSUME ListingInit PROVE ListingTypeOK /\ ListingInv
    OBVIOUS
  <2>1. /\ MaxUpdates \in Nat /\ MaxWalks \in Nat /\ PageBound \in Nat
        /\ <<>> \in Seq(Listable) /\ Len(<<>>) = 0 /\ IsInjective(<<>>)
    BY ListingAssumption DEF IsInjective
  <2>2. /\ 0 \in Times /\ 1 \in Times /\ 0 \in Positions /\ 0 \in 0..MaxUpdates
        /\ 0 \in 0..PageBound /\ 0 \in 0..MaxWalks
    BY <2>1 DEF Times, Positions
  <2>3. ListingTypeOK
    BY <2>1, <2>2 DEF ListingInit, ListingTypeOK
  <2>4. Sorted /\ ClockInv
    BY <2>1 DEF ListingInit, Sorted, ClockInv
  <2>5. AllInv /\ AllListedOnce /\ ReconcileInv /\ CandidatesCover
    BY DEF ListingInit, AllInv, AllListedOnce, ReconcileInv, CandidatesCover
  <2> QED
    BY <2>3, <2>4, <2>5 DEF ListingInv
<1>2. ListingTypeOK /\ ListingInv /\ [ListingNext]_listVars
        => ListingTypeOK' /\ ListingInv'
  <2> SUFFICES ASSUME ListingTypeOK, ListingInv, [ListingNext]_listVars
               PROVE  ListingTypeOK' /\ ListingInv'
    OBVIOUS
  <2>1. CASE \E t \in Listable : Updated(t)
    BY <2>1, UpdatedKeeps
  <2>2. CASE \E kind \in {"all", "reconcile"} : Begins(kind)
    BY <2>2, BeginsKeeps
  <2>3. CASE AllPage
    BY <2>3, AllPageKeeps
  <2>4. CASE ReconcilePage
    BY <2>4, ReconcilePageKeeps
  <2>5. CASE PageFails
    BY <2>5, FailureKeeps
  <2>6. CASE UNCHANGED listVars
    <3>1. UNCHANGED <<order, updatedAt, clock, updates, faulty, walk, cursor,
                      cursors, pages, found, mark, newestSeen, since, moved, walks>>
      BY <2>6 DEF listVars, daemonListVars, walkVars
    <3>2. ListingTypeOK'
      BY <3>1 DEF ListingTypeOK
    <3>3. ListingInv'
      BY <3>1
      DEF ListingInv, Sorted, ClockInv, AllInv, AllListedOnce, Unmoved,
          ReconcileInv, CandidatesCover, Passed, Handled
    <3> QED
      BY <3>2, <3>3
  <2> QED
    BY <2>1, <2>2, <2>3, <2>4, <2>5, <2>6 DEF ListingNext
<1> QED
  BY <1>1, <1>2, PTL DEF ListingSpec

\* The daemon's threads, the walks and their cursors keep their types; no walk
\* of reconcile holds more candidates, or asks for more pages, than its limits.
THEOREM ListingTypesCorrect == ListingSpec => []ListingTypeOK
  BY ListingInvariant, PTL

\* list_all returns each thread once, and every thread that did not move
\* between its pages, however many others were created or updated and
\* whatever cursors the daemon repeats.
THEOREM ListedOnce == ListingSpec => []AllListedOnce
<1>1. ListingInv => AllListedOnce
  BY DEF ListingInv
<1> QED
  BY <1>1, ListingInvariant, PTL

\* reconcile overlooks no thread updated since its watermark when no bound
\* cuts it short: what did not move is a candidate, and what moved is found
\* or no older than the new watermark, unless the daemon repeats cursors.
THEOREM CandidatesAreCovered == ListingSpec => []CandidatesCover
<1>1. ListingInv => CandidatesCover
  BY DEF ListingInv
<1> QED
  BY <1>1, ListingInvariant, PTL

-----------------------------------------------------------------------------
(* The three parts together.                                               *)

\* Each part, seen by itself, behaves as its own specification says: what the
\* others do leaves it alone.
THEOREM ServicesAreTheirParts ==
  ServicesSpec => SupervisorSpec /\ SkillSpec /\ ListingSpec
<1>1. ServicesInit => SupervisorInit /\ SkillInit /\ ListingInit
  BY DEF ServicesInit
<1>2. [ServicesNext]_servicesVars =>
        /\ [SupervisorNext]_supervisorVars
        /\ [SkillNext]_skillVars
        /\ [ListingNext]_listVars
  BY DEF ServicesNext, servicesVars
<1> QED
  BY <1>1, <1>2, PTL DEF ServicesSpec, SupervisorSpec, SkillSpec, ListingSpec

\* All three keep their types, whichever of them a behaviour is about.
THEOREM ServicesTypesCorrect == ServicesSpec => []ServicesTypeOK
<1>1. SupervisorTypeOK /\ SkillTypeOK /\ ListingTypeOK => ServicesTypeOK
  BY DEF ServicesTypeOK
<1> QED
  BY <1>1, ServicesAreTheirParts, SupervisorTypesCorrect, SkillTypesCorrect,
     ListingTypesCorrect, PTL
=============================================================================
