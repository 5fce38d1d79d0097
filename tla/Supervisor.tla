----------------------------- MODULE Supervisor -----------------------------
(***************************************************************************)
(* Supervisor (supervisor/src/lib.rs): initialize and the monitor's check, *)
(* against the processes of a desktop that come and go by themselves.      *)
(*                                                                         *)
(* What the supervisor knows comes from ps, lsof and the version command,  *)
(* each a step of its own: the processes may change between the look and   *)
(* the act.  ps takes the command that is starting the daemon for the      *)
(* daemon, and lsof tells accepted connections, not whose they are.        *)
(* Paths, versions and the text of the outputs are left out.               *)
(***************************************************************************)
EXTENDS Naturals

CONSTANT MaxFaults   \* bound on what others do to the processes

ASSUME SupervisorAssumption == MaxFaults \in Nat

VARIABLES
  daemon,     \* the managed daemon
  gui,        \* ChatGPT: plain, or launched with USE_LOCAL_DAEMON=1
  opening,    \* `open` has been run, and the GUI is not up yet
  quitAsked,  \* ChatGPT has been asked to quit
  clients,    \* whose connections the daemon has accepted
  faults,
  restart,    \* config.restart_gui_on_initialize
  at,         \* where the supervisor is
  seen,       \* the last ps snapshot
  lapsed      \* history: since the version was answered, the GUI was not
              \* attached, or lsof did not tell

processVars == <<daemon, gui, opening, quitAsked, clients, faults>>
supervisorVars == <<processVars, restart, at, seen, lapsed>>

Clients == {"gui", "library", "other"}
Initializing == {"init", "spawn", "version", "inspect", "decide", "quit",
                 "quitting", "launch", "attaching", "attachSockets"}
Monitoring == {"sleep", "respawn", "checkVersion", "checkGui", "relaunch"}

SupervisorTypeOK ==
  /\ daemon \in {"none", "starting", "running"}
  /\ gui \in {"none", "plain", "shared"}
  /\ opening \in BOOLEAN /\ quitAsked \in BOOLEAN
  /\ clients \subseteq (IF daemon = "running" THEN Clients ELSE {})
  /\ faults \in 0..MaxFaults
  /\ restart \in BOOLEAN
  /\ at \in Initializing \cup Monitoring \cup {"failed", "off"}
  /\ seen \in [daemon: BOOLEAN, gui: BOOLEAN, shared: BOOLEAN]
  /\ lapsed \in BOOLEAN

\* What ps_environment shows: has_managed_daemon, gui_running,
\* gui_mode_enabled.
Ps == [daemon |-> daemon # "none", gui |-> gui # "none",
       shared |-> gui = "shared"]

SupervisorInit ==
  /\ daemon \in {"none", "running"}
  /\ gui \in {"none", "plain", "shared"}
  /\ clients \in SUBSET (IF daemon = "running" /\ gui = "shared"
                         THEN {"gui"} ELSE {})
  /\ opening = FALSE /\ quitAsked = FALSE
  /\ faults = 0
  /\ restart \in BOOLEAN
  /\ at = "init"
  /\ seen = [daemon |-> FALSE, gui |-> FALSE, shared |-> FALSE]
  /\ lapsed = FALSE

-----------------------------------------------------------------------------
(* The processes.                                                          *)

DaemonStarts ==
  /\ daemon = "starting"
  /\ daemon' = "running"
  /\ UNCHANGED <<gui, opening, quitAsked, clients, faults>>

\* `open` starts ChatGPT with the environment it was given, or activates the
\* one that is running, whose environment stays what it is.
GuiOpens ==
  /\ opening
  /\ opening' = FALSE
  /\ gui' = IF gui = "none" THEN "shared" ELSE gui
  /\ UNCHANGED <<daemon, quitAsked, clients, faults>>

GuiConnects ==
  /\ gui = "shared" /\ daemon = "running"
  /\ clients' = clients \cup {"gui"}
  /\ UNCHANGED <<daemon, gui, opening, quitAsked, faults>>

\* ChatGPT may also ignore it.
GuiObeysQuit ==
  /\ quitAsked /\ gui # "none"
  /\ gui' = "none"
  /\ quitAsked' = FALSE
  /\ clients' = clients \ {"gui"}
  /\ UNCHANGED <<daemon, opening, faults>>

\* CodexControl::run spawns the transport once initialize has returned.
LibraryConnects ==
  /\ at \in Monitoring
  /\ daemon = "running"
  /\ clients' = clients \cup {"library"}
  /\ UNCHANGED <<daemon, gui, opening, quitAsked, faults>>

\* Whatever users, crashes and other programs do.
Fault ==
  /\ faults < MaxFaults
  /\ faults' = faults + 1
  /\ \/ /\ daemon' = IF daemon = "none" THEN "running" ELSE "none"
        /\ clients' = {}
        /\ UNCHANGED <<gui, quitAsked>>
     \/ /\ gui' \in IF gui = "none" THEN {"plain", "shared"} ELSE {"none"}
        /\ clients' = clients \ {"gui"}
        /\ quitAsked' = FALSE
        /\ UNCHANGED daemon
     \/ /\ daemon = "running"
        /\ clients' \in {clients \ {"gui"}, clients \cup {"other"}}
        /\ UNCHANGED <<daemon, gui, quitAsked>>
  /\ UNCHANGED opening

Processes ==
  /\ DaemonStarts \/ GuiOpens \/ GuiConnects \/ GuiObeysQuit
     \/ LibraryConnects \/ Fault
  /\ UNCHANGED <<restart, at, seen>>

-----------------------------------------------------------------------------
(* What both parts of the supervisor do.                                   *)

Goes(place) == at' = place /\ UNCHANGED restart

SpawnDaemon ==
  /\ daemon' = IF daemon = "none" THEN "starting" ELSE daemon
  /\ UNCHANGED <<gui, opening, quitAsked, clients, faults>>

LaunchGui ==
  /\ opening' = TRUE
  /\ UNCHANGED <<daemon, gui, quitAsked, clients, faults>>

\* gui_attached: the ps snapshot of before, and more than one socket record
\* now, the first being the listener's.
AttachedSeen == seen.shared /\ clients # {}

-----------------------------------------------------------------------------
(* initialize.                                                             *)

InitInspect ==
  /\ at = "init"
  /\ seen' = Ps
  /\ Goes(IF Ps.daemon THEN "version" ELSE "spawn")
  /\ UNCHANGED processVars

InitSpawn ==
  /\ at = "spawn"
  /\ SpawnDaemon
  /\ Goes("version")
  /\ UNCHANGED seen

VersionAnswered ==
  /\ at = "version"
  /\ daemon = "running"
  /\ Goes("inspect")
  /\ UNCHANGED <<processVars, seen>>

\* Mutant of Inspect: the snapshot taken before the daemon was up is reused.
InspectNot ==
  /\ at = "inspect"
  /\ Goes("decide")
  /\ UNCHANGED <<processVars, seen>>

Inspect ==
  /\ at = "inspect"
  /\ seen' = Ps
  /\ Goes("decide")
  /\ UNCHANGED processVars

RestartOrLaunch == Goes(IF seen.gui THEN "quit" ELSE "launch")

Decide ==
  /\ at = "decide"
  /\ IF ~restart /\ AttachedSeen THEN Goes("sleep") ELSE RestartOrLaunch
  /\ UNCHANGED <<processVars, seen>>

AskToQuit ==
  /\ at = "quit"
  /\ quitAsked' = (gui # "none")
  /\ Goes("quitting")
  /\ UNCHANGED <<daemon, gui, opening, clients, faults, seen>>

\* One look every 100 ms until ChatGPT is gone.
WaitGone ==
  /\ at = "quitting"
  /\ seen' = Ps
  /\ Goes(IF Ps.gui THEN "quitting" ELSE "launch")
  /\ UNCHANGED processVars

InitLaunch ==
  /\ at = "launch"
  /\ LaunchGui
  /\ Goes("attaching")
  /\ UNCHANGED seen

AttachInspect ==
  /\ at = "attaching"
  /\ seen' = Ps
  /\ Goes("attachSockets")
  /\ UNCHANGED processVars

AttachSockets ==
  /\ at = "attachSockets"
  /\ Goes(IF AttachedSeen THEN "sleep" ELSE "attaching")
  /\ UNCHANGED <<processVars, seen>>

\* lsof does not tell, which is taken for not attached.
LsofFails ==
  /\ seen.shared
  /\ \/ at = "decide" /\ ~restart /\ RestartOrLaunch
     \/ at = "attachSockets" /\ Goes("attaching")
  /\ lapsed' = TRUE
  /\ UNCHANGED <<processVars, seen>>

\* A missing program, ps, spawn or osascript in error, a version or an
\* attachment that does not come in time, a GUI that ignores the request.
InitializeFails ==
  /\ at \in Initializing \ {"decide"}
  /\ Goes("failed")
  /\ UNCHANGED <<processVars, seen>>

Initialize ==
  \/ InitInspect \/ InitSpawn \/ VersionAnswered \/ Inspect \/ Decide
  \/ AskToQuit \/ WaitGone \/ InitLaunch \/ AttachInspect \/ AttachSockets
  \/ InitializeFails

-----------------------------------------------------------------------------
(* monitor: check after each interval.                                     *)

\* Mutant of CheckInspect: the snapshot it has is good enough.
CheckInspectNot ==
  /\ at = "sleep"
  /\ Goes(IF seen.daemon THEN "checkVersion" ELSE "respawn")
  /\ UNCHANGED <<processVars, seen>>

CheckInspect ==
  /\ at = "sleep"
  /\ seen' = Ps
  /\ Goes(IF Ps.daemon THEN "checkVersion" ELSE "respawn")
  /\ UNCHANGED processVars

Respawn ==
  /\ at = "respawn"
  /\ SpawnDaemon
  /\ Goes("sleep")
  /\ UNCHANGED seen

CheckVersion ==
  /\ at = "checkVersion"
  /\ daemon = "running"
  /\ Goes("checkGui")
  /\ UNCHANGED <<processVars, seen>>

\* Healthy, a GUI to launch, or one that the user must see to.
CheckGui ==
  /\ at = "checkGui"
  /\ Goes(IF ~AttachedSeen /\ ~seen.gui THEN "relaunch" ELSE "sleep")
  /\ UNCHANGED <<processVars, seen>>

Relaunch ==
  /\ at = "relaunch"
  /\ LaunchGui
  /\ Goes("sleep")
  /\ UNCHANGED seen

\* Incompatible, or a spawn in error: an event, and the next interval.
CheckFails ==
  /\ at \in {"respawn", "checkVersion", "relaunch"}
  /\ Goes("sleep")
  /\ UNCHANGED <<processVars, seen>>

\* The shutdown flag drops a check wherever it is.
MonitorStops ==
  /\ at \in Monitoring
  /\ Goes("off")
  /\ UNCHANGED <<processVars, seen>>

Check ==
  \/ CheckInspect \/ Respawn \/ CheckVersion \/ CheckGui \/ Relaunch
  \/ CheckFails

AttachedNow == gui = "shared" /\ "gui" \in clients

Lapses == lapsed' = ((at # "version" /\ lapsed) \/ ~AttachedNow')

SupervisorNext ==
  \/ (Processes \/ Initialize \/ Check \/ MonitorStops) /\ Lapses
  \/ LsofFails

\* The supervisor's task runs, what it starts comes up, and a command that
\* can succeed does not fail for ever.
SupervisorFairness ==
  /\ WF_supervisorVars(Check /\ Lapses)
  /\ SF_supervisorVars(Respawn /\ Lapses)
  /\ SF_supervisorVars(CheckVersion /\ Lapses)
  /\ SF_supervisorVars(Relaunch /\ Lapses)
  /\ WF_supervisorVars(DaemonStarts /\ Processes /\ Lapses)
  /\ WF_supervisorVars(GuiOpens /\ Processes /\ Lapses)

SupervisorSpec ==
  SupervisorInit /\ [][SupervisorNext]_supervisorVars /\ SupervisorFairness

-----------------------------------------------------------------------------

\* README: restart_gui_on_initialize = false is there "to preserve an
\* already-attached GUI".  Without the restart, ChatGPT is asked to quit only
\* if, after the daemon answered, it was not attached at some moment, however
\* late the GUI, the daemon and its clients came up, or lsof did not answer.
AttachedGuiKept == at = "quitting" => restart \/ lapsed

\* However daemon and GUI die and start while it looks, the monitor ends up
\* with both running: every look that is out of date is followed by another.
Repairs ==
  <>(at \in {"failed", "off"}) \/ <>[](at \in Initializing)
  \/ <>[](daemon = "running" /\ gui # "none")
=============================================================================
