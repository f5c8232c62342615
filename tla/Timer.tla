--------------------------------- MODULE Timer ---------------------------------
(***************************************************************************)
(* `anago sync --install-timer` and `--uninstall-timer`: the schedule that *)
(* keeps a device in step, as systemd units or a LaunchDaemon.  An install *)
(* runs a list of steps and, when one fails, a list that puts the machine  *)
(* back, every step of it whatever the one before did.  A removal stops    *)
(* the schedule, deletes its files and asks whether it is still there.     *)
(*                                                                         *)
(* The scheduler is modelled from the commands the code runs: the units it *)
(* has read, whether the schedule starts at boot, whether it is loaded.    *)
(***************************************************************************)
EXTENDS Naturals, Sequences

CONSTANTS
  Kinds,       \* what schedules here: a subset of {"systemd", "launchd", "neither"}
  TimerFaults, \* bound: writes, removals and commands that fail
  TimerKills,  \* bound: commands killed
  TimerHands   \* bound: things a person does to the schedule, and reboots

KindsAssumption == Kinds \subseteq {"systemd", "launchd", "neither"}
TimerBoundsAssumption == {TimerFaults, TimerKills, TimerHands} \subseteq Nat

VARIABLES
  kind,    \* Scheduler
  enrolled,  \* there is a device file
  units,   \* those of the schedule's files that are there
  manager, \* what systemd or launchd knows
  cmd,     \* locals of the command that is running
  report,  \* how the last command ended
  left     \* what is left of the bounds

timerVars == <<kind, enrolled, units, manager, cmd, report, left>>

-----------------------------------------------------------------------------
(* Values.                                                                 *)

\* Removal::files.
Expected ==
  CASE kind = "systemd" -> {"service", "timer"}
    [] kind = "launchd" -> {"plist"}
    [] kind = "neither" -> {}

AllFiles == {"service", "timer", "plist"}

\* read: the units systemd has read.  enabled: it starts at boot, by a symlink of
\* systemd's; launchd goes by the plist.  loaded: it is running now.
Manager == [read: SUBSET AllFiles, enabled: BOOLEAN, loaded: BOOLEAN]
Asleep == [read |-> {}, enabled |-> FALSE, loaded |-> FALSE]

\* Step.
Write(file) == [do |-> "write", file |-> file]
Delete(file) == [do |-> "delete", file |-> file]
Reload == [do |-> "reload", file |-> "none"]
Start == [do |-> "start", file |-> "none"]
Stop == [do |-> "stop", file |-> "none"]
Step == [do: {"write", "delete", "reload", "start", "stop"}, file: AllFiles \cup {"none"}]

\* did: install steps done.  todo: steps to come.  stuck: those that did not
\* work.  gone: files a removal deleted.  was: the manager before.  clean: no
\* fault so far.
Cmd ==
  [op: {"none", "install", "rewind", "stop", "delete", "reload", "ask"},
   did: 0 .. 4, todo: Seq(Step), stuck: SUBSET Step, gone: SUBSET AllFiles,
   was: Manager, clean: BOOLEAN]

NoCmd == [op |-> "none", did |-> 0, todo |-> <<>>, stuck |-> {}, gone |-> {},
          was |-> Asleep, clean |-> TRUE]

Reports == {"none", "installed", "by_hand", "not_joined", "already", "failed",
            "half_undone", "removed", "not_stopped", "error", "killed"}

TimerTypeOK ==
  /\ kind \in Kinds
  /\ enrolled \in BOOLEAN
  /\ units \in SUBSET Expected
  /\ manager \in Manager /\ manager.read \subseteq Expected
  /\ cmd \in Cmd
  /\ report \in Reports
  /\ left \in [faults: 0 .. TimerFaults, kills: 0 .. TimerKills, hands: 0 .. TimerHands]

Uses(bound) ==
  /\ left[bound] > 0
  /\ left' = [left EXCEPT ![bound] = @ - 1]

\* The command returns; what it reports stays on the screen with its locals.
Concludes(outcome) ==
  /\ cmd' = [cmd EXCEPT !.op = "none", !.todo = <<>>]
  /\ report' = outcome

TimerInit ==
  /\ kind \in Kinds
  /\ enrolled \in BOOLEAN
  /\ units = {}
  /\ manager = Asleep
  /\ cmd = NoCmd
  /\ report = "none"
  /\ left = [faults |-> TimerFaults, kills |-> TimerKills, hands |-> TimerHands]

-----------------------------------------------------------------------------
(* The lists.                                                              *)

\* steps.
InstallSteps ==
  CASE kind = "systemd" -> <<Write("service"), Write("timer"), Reload, Start>>
    [] kind = "launchd" -> <<Write("plist"), Start>>
    [] kind = "neither" -> <<>>

\* Mutation: an activation that failed did nothing.
RewindTrusting(failed) ==
  CASE kind = "systemd" ->
         <<Delete("timer"), Delete("service")>> \o (IF failed >= 2 THEN <<Reload>> ELSE <<>>)
    [] kind = "launchd" -> <<Delete("plist")>>
    [] kind = "neither" -> <<>>

\* rewind: the activation, the files, the manager's idea of them.
Rewind(failed) ==
  CASE kind = "systemd" ->
         (IF failed >= 3 THEN <<Stop>> ELSE <<>>)
         \o <<Delete("timer"), Delete("service")>>
         \o (IF failed >= 2 THEN <<Reload>> ELSE <<>>)
    [] kind = "launchd" -> (IF failed >= 1 THEN <<Stop>> ELSE <<>>) \o <<Delete("plist")>>
    [] kind = "neither" -> <<>>

-----------------------------------------------------------------------------
(* What the scheduler's commands do.                                       *)

Started == [manager EXCEPT !.enabled = kind = "systemd", !.loaded = TRUE]
Stopped == [manager EXCEPT !.enabled = FALSE, !.loaded = FALSE]

\* A command that can do what it is asked.  systemd enables a unit it has read,
\* launchd loads only what is not loaded; a stop finds the timer's file, or the
\* daemon.
CanStart == IF kind = "systemd" THEN "timer" \in manager.read ELSE ~manager.loaded
CanStop == IF kind = "systemd" THEN manager.loaded \/ "timer" \in units ELSE manager.loaded

Works(step) ==
  \/ step.do = "write" /\ units' = units \cup {step.file} /\ UNCHANGED manager
  \/ step.do = "delete" /\ units' = units \ {step.file} /\ UNCHANGED manager
  \/ step.do = "reload" /\ manager' = [manager EXCEPT !.read = units] /\ UNCHANGED units
  \/ step.do = "start" /\ CanStart /\ manager' = Started /\ UNCHANGED units
  \/ step.do = "stop" /\ CanStop /\ manager' = Stopped /\ UNCHANGED units

\* One that fails: a write may leave its file; `enable --now` and `disable --now`
\* link before they start, and unlink before they stop.
Breaks(step) ==
  /\ units' \in IF step.do = "write" THEN {units, units \cup {step.file}} ELSE {units}
  /\ manager' \in
       CASE step.do = "start" /\ kind = "systemd" -> {manager, [manager EXCEPT !.enabled = TRUE]}
         [] step.do = "stop" -> {manager, [manager EXCEPT !.enabled = FALSE]}
         [] OTHER -> {manager}

\* It fails because the scheduler cannot do it, or for no reason the code can
\* know of; a unit without its file is stopped by some versions and not by others.
Refuses(step) ==
  /\ \/ step.do = "start" /\ ~CanStart
     \/ step.do = "stop" /\ (~CanStop \/ (kind = "systemd" /\ "timer" \notin units))
  /\ UNCHANGED <<units, manager>>

-----------------------------------------------------------------------------
(* Installing.                                                             *)

Begins(op, todo) ==
  /\ cmd' = [NoCmd EXCEPT !.op = op, !.todo = todo, !.was = manager]
  /\ report' = "none"

\* Mutation: a schedule for nothing.
TypeInstallUnjoined ==
  /\ cmd.op = "none"
  /\ units = {}
  /\ Begins("install", InstallSteps)
  /\ UNCHANGED <<kind, enrolled, units, manager, left>>

\* plan: never over a schedule that is there, never for no device.
TypeInstall ==
  /\ cmd.op = "none"
  /\ enrolled
  /\ units = {}
  /\ Begins("install", InstallSteps)
  /\ UNCHANGED <<kind, enrolled, units, manager, left>>

RefuseInstall ==
  /\ cmd.op = "none"
  /\ ~enrolled \/ units # {}
  /\ report' = IF ~enrolled THEN "not_joined" ELSE "already"
  /\ cmd' = NoCmd
  /\ UNCHANGED <<kind, enrolled, units, manager, left>>

\* install: the next step, or the report.
InstallStep ==
  /\ cmd.op = "install"
  /\ \/ /\ cmd.todo # <<>>
        /\ Works(Head(cmd.todo))
        /\ cmd' = [cmd EXCEPT !.did = @ + 1, !.todo = Tail(@)]
        /\ UNCHANGED report
     \/ /\ cmd.todo = <<>>
        /\ Concludes(IF kind = "neither" THEN "by_hand" ELSE "installed")
        /\ UNCHANGED <<units, manager>>
  /\ UNCHANGED <<kind, enrolled, left>>

InstallFails ==
  /\ cmd.op = "install"
  /\ cmd.todo # <<>>
  /\ \/ Uses("faults") /\ Breaks(Head(cmd.todo))
     \/ UNCHANGED left /\ Refuses(Head(cmd.todo))
  /\ cmd' = [cmd EXCEPT !.op = "rewind", !.todo = Rewind(cmd.did), !.clean = FALSE]
  /\ UNCHANGED <<kind, enrolled, report>>

\* Mutation: the first step that does not work ends the rewind.
UnwindUntilStuck ==
  /\ cmd.op = "rewind"
  /\ cmd.todo # <<>>
  /\ \/ /\ Works(Head(cmd.todo))
        /\ cmd' = [cmd EXCEPT !.todo = Tail(@)]
        /\ UNCHANGED left
     \/ /\ \/ Uses("faults") /\ Breaks(Head(cmd.todo))
           \/ UNCHANGED left /\ Refuses(Head(cmd.todo))
        /\ cmd' = [cmd EXCEPT !.todo = <<>>, !.stuck = @ \cup {Head(cmd.todo)}]
  /\ UNCHANGED <<kind, enrolled, report>>

\* unwind: every step, and a list of those that did not work.
Unwind ==
  /\ cmd.op = "rewind"
  /\ cmd.todo # <<>>
  /\ \/ /\ Works(Head(cmd.todo))
        /\ cmd' = [cmd EXCEPT !.todo = Tail(@)]
        /\ UNCHANGED left
     \/ /\ \/ Uses("faults") /\ Breaks(Head(cmd.todo))
           \/ UNCHANGED left /\ Refuses(Head(cmd.todo))
        /\ cmd' = [cmd EXCEPT !.todo = Tail(@), !.stuck = @ \cup {Head(cmd.todo)}]
  /\ UNCHANGED <<kind, enrolled, report>>

Unwound ==
  /\ cmd.op = "rewind"
  /\ cmd.todo = <<>>
  /\ Concludes(IF cmd.stuck = {} THEN "failed" ELSE "half_undone")
  /\ UNCHANGED <<kind, enrolled, units, manager, left>>

-----------------------------------------------------------------------------
(* Removing.                                                               *)

\* uninstall reads no device file.  A machine with neither is told so at once.
TypeUninstall ==
  /\ cmd.op = "none"
  /\ kind # "neither"
  /\ Begins("stop", IF kind = "systemd" THEN <<Delete("service"), Delete("timer")>>
                    ELSE <<Delete("plist")>>)
  /\ UNCHANGED <<kind, enrolled, units, manager, left>>

\* The stop, which may fail: it is asked about later.
StopSchedule ==
  /\ cmd.op = "stop"
  /\ \/ /\ Works(Stop)
        /\ cmd' = [cmd EXCEPT !.op = "delete"]
        /\ UNCHANGED left
     \/ /\ Uses("faults") /\ Breaks(Stop)
        /\ cmd' = [cmd EXCEPT !.op = "delete", !.stuck = {Stop}, !.clean = FALSE]
     \/ /\ UNCHANGED left /\ Refuses(Stop)
        /\ cmd' = [cmd EXCEPT !.op = "delete", !.stuck = {Stop}]
  /\ UNCHANGED <<kind, enrolled, report>>

\* Mutation: a file that is not there is a failure.
DeleteFilesStrict ==
  /\ cmd.op = "delete"
  /\ \/ /\ cmd.todo # <<>> /\ Head(cmd.todo).file \in units
        /\ Works(Head(cmd.todo))
        /\ cmd' = [cmd EXCEPT !.todo = Tail(@),
                              !.gone = @ \cup ({Head(cmd.todo).file} \cap units)]
        /\ UNCHANGED report
     \/ /\ cmd.todo # <<>> /\ Head(cmd.todo).file \notin units
        /\ Concludes("error")
        /\ UNCHANGED <<units, manager>>
     \/ /\ cmd.todo = <<>>
        /\ cmd' = [cmd EXCEPT !.op = IF kind = "systemd" /\ cmd.gone # {} THEN "reload" ELSE "ask"]
        /\ UNCHANGED <<units, manager, report>>
  /\ UNCHANGED <<kind, enrolled, left>>

\* The files; one that is not there is no failure.
DeleteFiles ==
  /\ cmd.op = "delete"
  /\ \/ /\ cmd.todo # <<>>
        /\ Works(Head(cmd.todo))
        /\ cmd' = [cmd EXCEPT !.todo = Tail(@),
                              !.gone = @ \cup ({Head(cmd.todo).file} \cap units)]
     \/ /\ cmd.todo = <<>>
        /\ cmd' = [cmd EXCEPT !.op = IF kind = "systemd" /\ cmd.gone # {} THEN "reload" ELSE "ask"]
        /\ UNCHANGED <<units, manager>>
  /\ UNCHANGED <<kind, enrolled, report, left>>

ReloadAfter ==
  /\ cmd.op = "reload"
  /\ Works(Reload)
  /\ cmd' = [cmd EXCEPT !.op = "ask"]
  /\ UNCHANGED <<kind, enrolled, report, left>>

\* A file that will not go, or a reload that fails, ends the command.
RemovalFails ==
  /\ \/ cmd.op = "delete" /\ cmd.todo # <<>> /\ Head(cmd.todo).file \in units
     \/ cmd.op = "reload"
  /\ Uses("faults")
  /\ Concludes("error")
  /\ UNCHANGED <<kind, enrolled, units, manager>>

\* Mutation: a stop that failed had nothing to stop.
AskNobody ==
  /\ cmd.op = "ask"
  /\ Concludes("removed")
  /\ UNCHANGED <<kind, enrolled, units, manager, left>>

\* stopped and still_there: a stop that failed is forgiven when the scheduler says
\* there is nothing.
NothingRuns == cmd.stuck = {} \/ ~manager.loaded

\* still_loaded: no answer is not a no.
Ask ==
  /\ cmd.op = "ask"
  /\ \/ /\ Concludes(IF NothingRuns THEN "removed" ELSE "not_stopped")
        /\ UNCHANGED left
     \/ /\ cmd.stuck # {}
        /\ Uses("faults")
        /\ Concludes("not_stopped")
  /\ UNCHANGED <<kind, enrolled, units, manager>>

-----------------------------------------------------------------------------
(* The machine around it.                                                  *)

KillCommand ==
  /\ cmd.op # "none"
  /\ Uses("kills")
  /\ Concludes("killed")
  /\ UNCHANGED <<kind, enrolled, units, manager>>

\* Between two commands: a file deleted, the schedule stopped for now, a reboot,
\* the device leaving or joining its network.
Hand ==
  /\ cmd.op = "none"
  /\ Uses("hands")
  /\ \/ /\ \E file \in units : units' = units \ {file}
        /\ UNCHANGED <<enrolled, manager>>
     \/ /\ manager.loaded
        /\ manager' = [manager EXCEPT !.loaded = FALSE]
        /\ UNCHANGED <<enrolled, units>>
     \/ /\ manager' = [manager EXCEPT
             !.read = IF kind = "systemd" THEN units ELSE {},
             !.loaded = IF kind = "systemd" THEN manager.enabled /\ "timer" \in units
                        ELSE "plist" \in units]
        /\ UNCHANGED <<enrolled, units>>
     \/ enrolled' = ~enrolled /\ UNCHANGED <<units, manager>>
  /\ cmd' = NoCmd
  /\ report' = "none"
  /\ UNCHANGED kind

TimerNext ==
  \/ TypeInstall \/ RefuseInstall \/ InstallStep \/ InstallFails \/ Unwind \/ Unwound
  \/ TypeUninstall \/ StopSchedule \/ DeleteFiles \/ ReloadAfter \/ RemovalFails \/ Ask
  \/ KillCommand \/ Hand

TimerSpec == TimerInit /\ [][TimerNext]_timerVars

-----------------------------------------------------------------------------
(* What it promises.                                                       *)

\* After an install that failed the machine is as it was, but for what the error
\* names (timer.rs:520-539, 734-740).
LeftIsTold ==
  report \in {"failed", "half_undone"} =>
    /\ \A file \in units : Delete(file) \in cmd.stuck
    /\ \/ Stop \in cmd.stuck
       \/ /\ manager.enabled => cmd.was.enabled
          /\ manager.loaded => cmd.was.loaded
    /\ Reload \in cmd.stuck \/ manager.read \subseteq units \cup cmd.was.read

\* A removal that reports success leaves no file and nothing running
\* (timer.rs:803-812).
RemovedIsGone == report = "removed" => units = {} /\ ~manager.loaded

\* Whatever an install, a kill or a person left behind, a removal in which
\* nothing breaks takes away and reports so; but for a timer that runs without
\* its file, which systemd may not stop (timer.rs:799-802).
RemovalRepairs ==
  [][report' # report /\ report' \in {"error", "not_stopped"} =>
       \/ left'.faults < left.faults \/ ~cmd.clean
       \/ kind = "systemd" /\ "timer" \notin cmd.gone]_timerVars

\* An install that reports success runs, and starts again at boot; a device
\* without a network of its own has none (timer.rs:114-119).
InstalledRuns ==
  report = "installed" =>
    /\ enrolled
    /\ units = Expected
    /\ manager.loaded
    /\ kind = "systemd" => manager.enabled /\ manager.read = Expected

\* A removal that reports success left nothing, and an install that does runs.
ReportsTrue == RemovedIsGone /\ InstalledRuns
=============================================================================
