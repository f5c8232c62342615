------------------------------ MODULE Timer_proofs ------------------------------
(***************************************************************************)
(* Installing and removing the sync schedule (timer.rs): for any kinds of  *)
(* scheduler, and any number of faults, kills and things people do.        *)
(***************************************************************************)
EXTENDS Timer, SequenceTheorems, TLAPS

-----------------------------------------------------------------------------
(* The inductive invariant.                                                *)

\* A command that is running has reported nothing yet.
Silent == cmd.op # "none" => report = "none"

\* An install is at one of its steps, and the machine is as it was but for those
\* that are done.
InstallingSystemd ==
  \/ /\ cmd.did = 0 /\ cmd.todo = <<Write("service"), Write("timer"), Reload, Start>>
     /\ units = {} /\ manager = cmd.was
  \/ /\ cmd.did = 1 /\ cmd.todo = <<Write("timer"), Reload, Start>>
     /\ units = {"service"} /\ manager = cmd.was
  \/ /\ cmd.did = 2 /\ cmd.todo = <<Reload, Start>>
     /\ units = {"service", "timer"} /\ manager = cmd.was
  \/ /\ cmd.did = 3 /\ cmd.todo = <<Start>>
     /\ units = {"service", "timer"} /\ manager.read = units
  \/ /\ cmd.did = 4 /\ cmd.todo = <<>>
     /\ units = {"service", "timer"} /\ manager.read = units
     /\ manager.enabled /\ manager.loaded

InstallingLaunchd ==
  \/ cmd.did = 0 /\ cmd.todo = <<Write("plist"), Start>> /\ units = {} /\ manager = cmd.was
  \/ cmd.did = 1 /\ cmd.todo = <<Start>> /\ units = {"plist"} /\ manager = cmd.was
  \/ cmd.did = 2 /\ cmd.todo = <<>> /\ units = {"plist"} /\ manager.loaded

Installing ==
  cmd.op = "install" =>
    /\ enrolled
    /\ cmd.stuck = {}
    /\ \/ kind = "systemd" /\ InstallingSystemd
       \/ kind = "launchd" /\ InstallingLaunchd
       \/ kind = "neither" /\ cmd.todo = <<>>

\* What the message of a failed install has to account for.
Told(file) == file \in units => Delete(file) \in cmd.stuck
Quieted ==
  \/ Stop \in cmd.stuck
  \/ /\ manager.enabled => cmd.was.enabled
     /\ manager.loaded => cmd.was.loaded
Reread == Reload \in cmd.stuck \/ manager.read \subseteq units \cup cmd.was.read

\* What is done of a rewind is accounted for; what is not is in the list.
UnwindingSystemd ==
  \/ cmd.todo = <<Stop, Delete("timer"), Delete("service"), Reload>>
  \/ cmd.todo = <<Delete("timer"), Delete("service"), Reload>> /\ Quieted
  \/ cmd.todo = <<Delete("service"), Reload>> /\ Quieted /\ Told("timer")
  \/ cmd.todo = <<Reload>> /\ Quieted /\ Told("timer") /\ Told("service")
  \/ /\ cmd.todo = <<Delete("timer"), Delete("service")>>
     /\ Quieted /\ manager.read \subseteq cmd.was.read
  \/ /\ cmd.todo = <<Delete("service")>>
     /\ Quieted /\ manager.read \subseteq cmd.was.read /\ Told("timer")
  \/ cmd.todo = <<>> /\ Quieted /\ Reread /\ Told("timer") /\ Told("service")

UnwindingLaunchd ==
  /\ manager.read \subseteq cmd.was.read
  /\ \/ cmd.todo = <<Stop, Delete("plist")>>
     \/ cmd.todo = <<Delete("plist")>> /\ Quieted
     \/ cmd.todo = <<>> /\ Quieted /\ Told("plist")

Unwinding ==
  cmd.op = "rewind" =>
    \/ kind = "systemd" /\ UnwindingSystemd
    \/ kind = "launchd" /\ UnwindingLaunchd

\* A removal has deleted what it has gone through; a stop that did not work on
\* its own, with something running, found no file of the timer's.
Halted ==
  /\ cmd.stuck = {} => ~manager.loaded
  /\ cmd.stuck # {} /\ cmd.clean /\ manager.loaded =>
       kind = "systemd" /\ "timer" \notin units \cup cmd.gone

Removing ==
  /\ cmd.op = "stop" =>
       /\ cmd.stuck = {} /\ cmd.gone = {} /\ cmd.clean
       /\ \/ kind = "systemd" /\ cmd.todo = <<Delete("service"), Delete("timer")>>
          \/ kind = "launchd" /\ cmd.todo = <<Delete("plist")>>
  /\ cmd.op = "delete" =>
       /\ Halted
       /\ \/ kind = "systemd" /\ cmd.todo = <<Delete("service"), Delete("timer")>>
          \/ kind = "systemd" /\ cmd.todo = <<Delete("timer")>> /\ "service" \notin units
          \/ kind = "launchd" /\ cmd.todo = <<Delete("plist")>>
          \/ cmd.todo = <<>> /\ units = {}
  /\ cmd.op \in {"reload", "ask"} => Halted /\ units = {}

TInv ==
  /\ TimerTypeOK /\ Silent
  /\ Installing /\ Unwinding /\ Removing
  /\ LeftIsTold /\ ReportsTrue

-----------------------------------------------------------------------------
(* Lists.                                                                  *)

LEMMA Heads ==
  /\ \A a : Head(<<a>>) = a /\ Tail(<<a>>) = <<>> /\ <<a>> # <<>>
  /\ \A a, b : Head(<<a, b>>) = a /\ Tail(<<a, b>>) = <<b>> /\ <<a, b>> # <<>>
  /\ \A a, b, c : Head(<<a, b, c>>) = a /\ Tail(<<a, b, c>>) = <<b, c>> /\ <<a, b, c>> # <<>>
  /\ \A a, b, c, d : /\ Head(<<a, b, c, d>>) = a /\ Tail(<<a, b, c, d>>) = <<b, c, d>>
                     /\ <<a, b, c, d>> # <<>>
<1>1. \A a : Head(<<a>>) = a /\ Tail(<<a>>) = <<>> /\ <<a>> # <<>>
  OBVIOUS
<1>2. \A a, b : Head(<<a, b>>) = a /\ Tail(<<a, b>>) = <<b>> /\ <<a, b>> # <<>>
  OBVIOUS
<1>3. \A a, b, c : Head(<<a, b, c>>) = a /\ Tail(<<a, b, c>>) = <<b, c>> /\ <<a, b, c>> # <<>>
  OBVIOUS
<1>4. \A a, b, c, d : /\ Head(<<a, b, c, d>>) = a /\ Tail(<<a, b, c, d>>) = <<b, c, d>>
                      /\ <<a, b, c, d>> # <<>>
  OBVIOUS
<1> QED
  BY <1>1, <1>2, <1>3, <1>4

\* A concatenation, element by element.
LEMMA Joins ==
  ASSUME NEW S, NEW s \in Seq(S), NEW t \in Seq(S), NEW u \in Seq(S),
         Len(u) = Len(s) + Len(t),
         \A i \in 1 .. Len(u) : u[i] = IF i <= Len(s) THEN s[i] ELSE t[i - Len(s)]
  PROVE  s \o t = u
<1>1. /\ s \o t \in Seq(S) /\ Len(s \o t) = Len(u)
      /\ \A i \in 1 .. Len(s) + Len(t) :
           (s \o t)[i] = IF i <= Len(s) THEN s[i] ELSE t[i - Len(s)]
  BY ConcatProperties
<1>2. \A i \in 1 .. Len(s \o t) : (s \o t)[i] = u[i]
  BY <1>1
<1> QED
  BY <1>1, <1>2, SeqEqual

LEMMA Pairs == \A a, b : <<a>> \o <<b>> = <<a, b>>
<1> SUFFICES ASSUME NEW a, NEW b PROVE <<a>> \o <<b>> = <<a, b>>
  OBVIOUS
<1> DEFINE S == {a, b}  s == <<a>>  t == <<b>>  u == <<a, b>>
<1>1. s \in Seq(S) /\ t \in Seq(S) /\ u \in Seq(S) /\ Len(u) = Len(s) + Len(t)
  OBVIOUS
<1>2. \A i \in 1 .. Len(u) : u[i] = IF i <= Len(s) THEN s[i] ELSE t[i - Len(s)]
  OBVIOUS
<1> HIDE DEF S, s, t, u
<1>3. s \o t = u
  BY <1>1, <1>2, Joins
<1> QED
  BY <1>3 DEF s, t, u

LEMMA Onto ==
  /\ \A a, b, c : <<a>> \o <<b, c>> = <<a, b, c>>
  /\ \A a, b, c : <<a, b>> \o <<c>> = <<a, b, c>>
  /\ \A a, b, c, d : <<a, b, c>> \o <<d>> = <<a, b, c, d>>
<1>1. ASSUME NEW a, NEW b, NEW c PROVE <<a>> \o <<b, c>> = <<a, b, c>>
  <2> DEFINE S == {a, b, c}  s == <<a>>  t == <<b, c>>  u == <<a, b, c>>
  <2>1. s \in Seq(S) /\ t \in Seq(S) /\ u \in Seq(S) /\ Len(u) = Len(s) + Len(t)
    OBVIOUS
  <2>2. \A i \in 1 .. Len(u) : u[i] = IF i <= Len(s) THEN s[i] ELSE t[i - Len(s)]
    OBVIOUS
  <2> HIDE DEF S, s, t, u
  <2>3. s \o t = u
    BY <2>1, <2>2, Joins
  <2> QED
    BY <2>3 DEF s, t, u
<1>2. ASSUME NEW a, NEW b, NEW c PROVE <<a, b>> \o <<c>> = <<a, b, c>>
  <2> DEFINE S == {a, b, c}  s == <<a, b>>  t == <<c>>  u == <<a, b, c>>
  <2>1. s \in Seq(S) /\ t \in Seq(S) /\ u \in Seq(S) /\ Len(u) = Len(s) + Len(t)
    OBVIOUS
  <2>2. \A i \in 1 .. Len(u) : u[i] = IF i <= Len(s) THEN s[i] ELSE t[i - Len(s)]
    OBVIOUS
  <2> HIDE DEF S, s, t, u
  <2>3. s \o t = u
    BY <2>1, <2>2, Joins
  <2> QED
    BY <2>3 DEF s, t, u
<1>3. ASSUME NEW a, NEW b, NEW c, NEW d PROVE <<a, b, c>> \o <<d>> = <<a, b, c, d>>
  <2> DEFINE S == {a, b, c, d}  s == <<a, b, c>>  t == <<d>>  u == <<a, b, c, d>>
  <2>1. s \in Seq(S) /\ t \in Seq(S) /\ u \in Seq(S) /\ Len(u) = Len(s) + Len(t)
    OBVIOUS
  <2>2. \A i \in 1 .. Len(u) : u[i] = IF i <= Len(s) THEN s[i] ELSE t[i - Len(s)]
    OBVIOUS
  <2> HIDE DEF S, s, t, u
  <2>3. s \o t = u
    BY <2>1, <2>2, Joins
  <2> QED
    BY <2>3 DEF s, t, u
<1> QED
  BY <1>1, <1>2, <1>3

LEMMA Units ==
  \A a, b : <<>> \o <<a, b>> = <<a, b>> /\ <<a, b>> \o <<>> = <<a, b>>
            /\ <<>> \o <<a>> = <<a>> 
<1> SUFFICES ASSUME NEW a, NEW b
             PROVE  <<>> \o <<a, b>> = <<a, b>> /\ <<a, b>> \o <<>> = <<a, b>>
                    /\ <<>> \o <<a>> = <<a>>
  OBVIOUS
<1>1. <<a, b>> \in Seq({a, b}) /\ <<a>> \in Seq({a})
  OBVIOUS
<1> QED
  BY <1>1, ConcatEmptySeq

\* rewind, written out.
LEMMA Rewinds ==
  ASSUME NEW d \in Nat
  PROVE  /\ kind = "systemd" =>
              Rewind(d) = IF d >= 3 THEN <<Stop, Delete("timer"), Delete("service"), Reload>>
                          ELSE IF d = 2 THEN <<Delete("timer"), Delete("service"), Reload>>
                          ELSE <<Delete("timer"), Delete("service")>>
         /\ kind = "launchd" =>
              Rewind(d) = IF d >= 1 THEN <<Stop, Delete("plist")>> ELSE <<Delete("plist")>>
<1> DEFINE dt == Delete("timer")  ds == Delete("service")  dp == Delete("plist")
<1> HIDE DEF dt, ds, dp
<1>1. kind = "systemd" =>
        Rewind(d) = (IF d >= 3 THEN <<Stop>> ELSE <<>>) \o <<dt, ds>>
                    \o (IF d >= 2 THEN <<Reload>> ELSE <<>>)
  BY DEF Rewind, dt, ds
<1>2. kind = "launchd" => Rewind(d) = (IF d >= 1 THEN <<Stop>> ELSE <<>>) \o <<dp>>
  BY DEF Rewind, dp
<1>3. kind = "systemd" =>
        Rewind(d) = IF d >= 3 THEN <<Stop, dt, ds, Reload>>
                    ELSE IF d = 2 THEN <<dt, ds, Reload>> ELSE <<dt, ds>>
  <2>1. CASE d >= 3
    BY <1>1, <2>1, Onto
  <2>2. CASE d = 2
    BY <1>1, <2>2, Onto, Units
  <2>3. CASE d < 2
    BY <1>1, <2>3, Units
  <2> QED
    BY <2>1, <2>2, <2>3
<1>4. kind = "launchd" => Rewind(d) = IF d >= 1 THEN <<Stop, dp>> ELSE <<dp>>
  BY <1>2, Pairs, Units
<1> QED
  BY <1>3, <1>4 DEF dt, ds, dp

-----------------------------------------------------------------------------
(* Types.                                                                  *)

LEMMA StepTypes ==
  /\ \A file \in AllFiles : Write(file) \in Step /\ Delete(file) \in Step
  /\ {Reload, Start, Stop} \subseteq Step
  /\ \A file \in AllFiles : Write(file).do = "write" /\ Write(file).file = file
  /\ \A file \in AllFiles : Delete(file).do = "delete" /\ Delete(file).file = file
  /\ Reload.do = "reload" /\ Start.do = "start" /\ Stop.do = "stop"
BY DEF Step, AllFiles, Write, Delete, Reload, Start, Stop

\* The three kinds of machine.
LEMMA Machines ==
  ASSUME KindsAssumption, TimerTypeOK
  PROVE  /\ kind \in {"systemd", "launchd", "neither"}
         /\ Expected \subseteq AllFiles
         /\ kind = "systemd" => Expected = {"service", "timer"}
         /\ kind = "launchd" => Expected = {"plist"}
         /\ kind = "neither" => Expected = {}
BY DEF KindsAssumption, TimerTypeOK, Expected, AllFiles


\* A command's locals stay what they are when some of them change.
LEMMA CmdTypes ==
  ASSUME NEW c \in Cmd, NEW l \in Seq(Step)
  PROVE  /\ \A d \in 0 .. 4 : [c EXCEPT !.did = d, !.todo = l] \in Cmd
         /\ [c EXCEPT !.todo = l] \in Cmd
         /\ \A s \in SUBSET Step : [c EXCEPT !.todo = l, !.stuck = s] \in Cmd
         /\ \A g \in SUBSET AllFiles : [c EXCEPT !.todo = l, !.gone = g] \in Cmd
         /\ [c EXCEPT !.op = "rewind", !.todo = l, !.clean = FALSE] \in Cmd
         /\ [c EXCEPT !.op = "none", !.todo = l] \in Cmd
         /\ \A op \in {"delete", "reload", "ask"} : [c EXCEPT !.op = op] \in Cmd
         /\ \A s \in SUBSET Step :
              [c EXCEPT !.op = "delete", !.stuck = s, !.clean = FALSE] \in Cmd
         /\ \A s \in SUBSET Step : [c EXCEPT !.op = "delete", !.stuck = s] \in Cmd
<1>1. \A d \in 0 .. 4 : [c EXCEPT !.did = d, !.todo = l] \in Cmd
  BY DEF Cmd
<1>2. [c EXCEPT !.todo = l] \in Cmd
  BY DEF Cmd
<1>3. \A s \in SUBSET Step : [c EXCEPT !.todo = l, !.stuck = s] \in Cmd
  BY DEF Cmd
<1>4. \A g \in SUBSET AllFiles : [c EXCEPT !.todo = l, !.gone = g] \in Cmd
  BY DEF Cmd
<1>5. [c EXCEPT !.op = "rewind", !.todo = l, !.clean = FALSE] \in Cmd
  BY DEF Cmd
<1>6. [c EXCEPT !.op = "none", !.todo = l] \in Cmd
  BY DEF Cmd
<1>7. \A op \in {"delete", "reload", "ask"} : [c EXCEPT !.op = op] \in Cmd
  BY DEF Cmd
<1>8. \A s \in SUBSET Step : [c EXCEPT !.op = "delete", !.stuck = s, !.clean = FALSE] \in Cmd
  BY DEF Cmd
<1>9. \A s \in SUBSET Step : [c EXCEPT !.op = "delete", !.stuck = s] \in Cmd
  BY DEF Cmd
<1> QED
  BY <1>1, <1>2, <1>3, <1>4, <1>5, <1>6, <1>7, <1>8, <1>9

\* What a step of the lists does to the machine leaves it one.
LEMMA WorksTypes ==
  ASSUME KindsAssumption, TimerTypeOK, NEW step \in Step,
         Works(step) \/ Breaks(step) \/ Refuses(step),
         step.do = "write" => step.file \in Expected
  PROVE  units' \in SUBSET Expected /\ manager' \in Manager /\ manager'.read \subseteq Expected
<1>1. units \in SUBSET Expected /\ manager \in Manager /\ manager.read \subseteq Expected
  BY DEF TimerTypeOK
<1>2. Expected \subseteq AllFiles
  BY Machines
<1>3. /\ \A s \in SUBSET AllFiles : [manager EXCEPT !.read = s] \in Manager
      /\ Started \in Manager /\ Stopped \in Manager
      /\ [manager EXCEPT !.enabled = TRUE] \in Manager /\ [manager EXCEPT !.enabled = FALSE] \in Manager
  BY <1>1 DEF Manager, Started, Stopped
<1>4. /\ Started.read = manager.read /\ Stopped.read = manager.read
      /\ [manager EXCEPT !.enabled = TRUE].read = manager.read
      /\ [manager EXCEPT !.enabled = FALSE].read = manager.read
      /\ \A s : [manager EXCEPT !.read = s].read = s
  BY <1>1 DEF Manager, Started, Stopped
<1>5. CASE Works(step)
  <2>1. CASE step.do = "write" /\ units' = units \cup {step.file} /\ manager' = manager
    BY <1>1, <2>1
  <2>2. CASE units' = units \ {step.file} /\ manager' = manager
    BY <1>1, <2>2
  <2>3. CASE manager' = [manager EXCEPT !.read = units] /\ units' = units
    <3>1. manager'.read = units
      BY <1>4, <2>3
    <3>2. units \in SUBSET AllFiles
      BY <1>1, <1>2
    <3> QED
      BY <1>1, <1>3, <2>3, <3>1, <3>2
  <2>4. CASE manager' \in {Started, Stopped} /\ units' = units
    BY <1>1, <1>3, <1>4, <2>4
  <2> QED
    BY <1>5, <2>1, <2>2, <2>3, <2>4 DEF Works
<1>6. CASE Breaks(step)
  <2>1. units' = units \/ (step.do = "write" /\ units' = units \cup {step.file})
    <3>1. units' \in IF step.do = "write" THEN {units, units \cup {step.file}} ELSE {units}
      BY <1>6 DEF Breaks
    <3>2. CASE step.do = "write"
      BY <3>1, <3>2
    <3>3. CASE step.do # "write"
      BY <3>1, <3>3
    <3> QED
      BY <3>2, <3>3
  <2>2. manager' \in {manager, [manager EXCEPT !.enabled = TRUE], [manager EXCEPT !.enabled = FALSE]}
    <3>1. manager' \in
            CASE step.do = "start" /\ kind = "systemd" -> {manager, [manager EXCEPT !.enabled = TRUE]}
              [] step.do = "stop" -> {manager, [manager EXCEPT !.enabled = FALSE]}
              [] OTHER -> {manager}
      BY <1>6 DEF Breaks
    <3>2. CASE step.do = "start" /\ kind = "systemd"
      BY <3>1, <3>2
    <3>3. CASE step.do = "stop"
      BY <3>1, <3>3
    <3>4. CASE ~(step.do = "start" /\ kind = "systemd") /\ step.do # "stop"
      BY <3>1, <3>4
    <3> QED
      BY <3>2, <3>3, <3>4
  <2>3. units' \in SUBSET Expected
    BY <1>1, <2>1
  <2>4. manager' \in Manager /\ manager'.read \subseteq Expected
    BY <1>1, <1>3, <1>4, <2>2
  <2> QED
    BY <2>3, <2>4
<1>7. CASE Refuses(step)
  BY <1>1, <1>7 DEF Refuses
<1> QED
  BY <1>5, <1>6, <1>7

-----------------------------------------------------------------------------
(* Every step keeps the invariant.                                         *)

\* An install's next step is one of the four, and the machine can take it.
LEMMA NextStep ==
  ASSUME KindsAssumption, TInv, cmd.op = "install", cmd.todo # <<>>
  PROVE  /\ Head(cmd.todo) \in Step
         /\ Head(cmd.todo).do = "write" => Head(cmd.todo).file \in Expected
         /\ cmd.did \in 0 .. 3
         /\ kind = "systemd" /\ cmd.did # 3 => Head(cmd.todo).do \in {"write", "reload"}
         /\ kind = "launchd" => Head(cmd.todo).do \in {"write", "start"}
<1>1. Installing /\ kind \in {"systemd", "launchd", "neither"}
  BY Machines DEF TInv
<1>2. CASE kind = "systemd"
  BY <1>1, <1>2, StepTypes, Machines DEF TInv, Installing, InstallingSystemd, AllFiles
<1>3. CASE kind = "launchd"
  BY <1>1, <1>3, StepTypes, Machines DEF TInv, Installing, InstallingLaunchd, AllFiles
<1> QED
  BY <1>1, <1>2, <1>3 DEF Installing

LEMMA SpendTypes ==
  ASSUME TimerTypeOK, TimerBoundsAssumption, NEW bound \in {"faults", "kills", "hands"}, Uses(bound)
  PROVE  left' \in [faults: 0 .. TimerFaults, kills: 0 .. TimerKills, hands: 0 .. TimerHands]
BY DEF TimerTypeOK, TimerBoundsAssumption, Uses

LEMMA InstallStepKeeps ==
  ASSUME KindsAssumption, TInv, InstallStep
  PROVE  TInv'
<1>1. /\ TimerTypeOK /\ Silent /\ Installing /\ cmd.op = "install" /\ cmd \in Cmd
      /\ kind' = kind /\ enrolled' = enrolled /\ left' = left
      /\ kind \in {"systemd", "launchd", "neither"}
  BY Machines DEF TInv, TimerTypeOK, InstallStep
<1>2. CASE cmd.todo # <<>>
  <2> DEFINE step == Head(cmd.todo)
  <2>1. /\ Works(step)
        /\ cmd' = [cmd EXCEPT !.did = cmd.did + 1, !.todo = Tail(cmd.todo)]
        /\ report' = report
    BY <1>2 DEF InstallStep
  <2>2. step \in Step /\ (step.do = "write" => step.file \in Expected) /\ cmd.did \in 0 .. 3
    BY <1>1, <1>2, NextStep
  <2>3. Tail(cmd.todo) \in Seq(Step)
    BY <1>1, <1>2 DEF Cmd
  <2> HIDE DEF step
  <2>9. cmd.did + 1 \in 0 .. 4
    BY <2>2
  <2>10. cmd' \in Cmd
    BY <1>1, <2>1, <2>3, <2>9, CmdTypes
  <2>4. /\ cmd' \in Cmd /\ cmd'.op = "install" /\ cmd'.did = cmd.did + 1
        /\ cmd'.todo = Tail(cmd.todo) /\ cmd'.stuck = cmd.stuck /\ cmd'.was = cmd.was
    BY <1>1, <2>1, <2>10 DEF Cmd
  <2>5. TimerTypeOK'
    BY <1>1, <2>1, <2>2, <2>4, WorksTypes DEF TimerTypeOK, Expected
  <2>6. Installing'
    <3>1. CASE kind = "systemd"
      <4>1. InstallingSystemd'
        <5>1. InstallingSystemd /\ manager \in Manager
          BY <1>1, <3>1 DEF Installing, TimerTypeOK
        <5>2. CASE cmd.did = 0
          <6>1. /\ cmd.todo = <<Write("service"), Write("timer"), Reload, Start>>
                /\ units = {} /\ manager = cmd.was
            BY <5>1, <5>2 DEF InstallingSystemd
          <6>2. step = Write("service") /\ cmd'.todo = <<Write("timer"), Reload, Start>>
            BY <2>4, <6>1 DEF step
          <6>3. units' = {"service"} /\ manager' = cmd'.was
            BY <2>1, <2>4, <6>1, <6>2, StepTypes DEF Works, AllFiles
          <6>4. cmd'.did = 1
            BY <2>4, <5>2
          <6> QED
            BY Zenon, <6>2, <6>3, <6>4 DEF InstallingSystemd
        <5>3. CASE cmd.did = 1
          <6>1. /\ cmd.todo = <<Write("timer"), Reload, Start>>
                /\ units = {"service"} /\ manager = cmd.was
            BY <5>1, <5>3 DEF InstallingSystemd
          <6>2. step = Write("timer") /\ cmd'.todo = <<Reload, Start>>
            BY <2>4, <6>1 DEF step
          <6>3. units' = {"service", "timer"} /\ manager' = cmd'.was
            BY <2>1, <2>4, <6>1, <6>2, StepTypes DEF Works, AllFiles
          <6>4. cmd'.did = 2
            BY <2>4, <5>3
          <6> QED
            BY Zenon, <6>2, <6>3, <6>4 DEF InstallingSystemd
        <5>4. CASE cmd.did = 2
          <6>1. cmd.todo = <<Reload, Start>> /\ units = {"service", "timer"}
            BY <5>1, <5>4 DEF InstallingSystemd
          <6>2. step = Reload /\ cmd'.todo = <<Start>>
            BY <2>4, <6>1 DEF step
          <6>3. manager' = [manager EXCEPT !.read = units] /\ units' = units
            BY <2>1, <6>2, StepTypes DEF Works
          <6>4. manager'.read = units
            BY <5>1, <6>3 DEF Manager
          <6> QED
            BY <2>4, <5>4, <6>1, <6>2, <6>3, <6>4 DEF InstallingSystemd
        <5>5. CASE cmd.did = 3
          <6>1. cmd.todo = <<Start>> /\ units = {"service", "timer"} /\ manager.read = units
            BY <5>1, <5>5 DEF InstallingSystemd
          <6>2. step = Start /\ cmd'.todo = <<>>
            BY <2>4, <6>1 DEF step
          <6>3. manager' = Started /\ units' = units
            BY <2>1, <6>2, StepTypes DEF Works
          <6>4. manager'.read = units /\ manager'.enabled /\ manager'.loaded
            BY <3>1, <5>1, <6>1, <6>3 DEF Manager, Started
          <6> QED
            BY <2>4, <5>5, <6>1, <6>2, <6>3, <6>4 DEF InstallingSystemd
        <5> QED
          BY <2>2, <5>2, <5>3, <5>4, <5>5
      <4> QED
        BY <1>1, <2>4, <3>1, <4>1 DEF Installing
    <3>2. CASE kind = "launchd"
      <4>1. InstallingLaunchd'
        <5>1. InstallingLaunchd /\ manager \in Manager
          BY <1>1, <3>2 DEF Installing, TimerTypeOK
        <5>2. CASE cmd.did = 0
          <6>1. cmd.todo = <<Write("plist"), Start>> /\ units = {} /\ manager = cmd.was
            BY <5>1, <5>2 DEF InstallingLaunchd
          <6>2. step = Write("plist") /\ cmd'.todo = <<Start>>
            BY <2>4, <6>1 DEF step
          <6>3. units' = {"plist"} /\ manager' = cmd'.was
            BY <2>1, <2>4, <6>1, <6>2, StepTypes DEF Works, AllFiles
          <6>4. cmd'.did = 1
            BY <2>4, <5>2
          <6> QED
            BY Zenon, <6>2, <6>3, <6>4 DEF InstallingLaunchd
        <5>3. CASE cmd.did = 1
          <6>1. cmd.todo = <<Start>> /\ units = {"plist"}
            BY <5>1, <5>3 DEF InstallingLaunchd
          <6>2. step = Start /\ cmd'.todo = <<>>
            BY <2>4, <6>1 DEF step
          <6>3. manager' = Started /\ units' = units
            BY <2>1, <6>2, StepTypes DEF Works
          <6>4. manager'.loaded
            BY <5>1, <6>3 DEF Manager, Started
          <6> QED
            BY <2>4, <5>3, <6>1, <6>2, <6>3, <6>4 DEF InstallingLaunchd
        <5> QED
          BY <1>2, <5>1, <5>2, <5>3 DEF InstallingLaunchd
      <4> QED
        BY <1>1, <2>4, <3>2, <4>1 DEF Installing
    <3> QED
      BY <1>1, <1>2, <3>1, <3>2 DEF Installing
  <2>7. Unwinding' /\ Removing' /\ Silent'
    BY <1>1, <2>1, <2>4 DEF Unwinding, Removing, Silent
  <2>8. LeftIsTold' /\ ReportsTrue'
    BY <1>1, <2>1 DEF Silent, LeftIsTold, ReportsTrue, RemovedIsGone, InstalledRuns
  <2> QED
    BY <2>5, <2>6, <2>7, <2>8 DEF TInv
<1>3. CASE cmd.todo = <<>>
  <2>1. /\ cmd' = [cmd EXCEPT !.op = "none", !.todo = <<>>]
        /\ report' = (IF kind = "neither" THEN "by_hand" ELSE "installed")
        /\ units' = units /\ manager' = manager
    BY <1>3 DEF InstallStep, Concludes
  <2>2. cmd' \in Cmd /\ cmd'.op = "none"
    <3>1. <<>> \in Seq(Step)
      OBVIOUS
    <3>2. cmd' \in Cmd
      BY <1>1, <2>1, <3>1, CmdTypes
    <3> QED
      BY <1>1, <2>1, <3>2 DEF Cmd
  <2>3. TimerTypeOK' /\ Silent' /\ Installing' /\ Unwinding' /\ Removing' /\ LeftIsTold'
    BY <1>1, <2>1, <2>2
       DEF TimerTypeOK, Expected, Reports, Silent, Installing, Unwinding, Removing, LeftIsTold
  <2>4. ReportsTrue'
    <3>1. kind = "systemd" => InstallingSystemd /\ cmd.todo = <<>>
      BY <1>1, <1>3 DEF Installing
    <3>2. kind = "launchd" => InstallingLaunchd /\ cmd.todo = <<>>
      BY <1>1, <1>3 DEF Installing
    <3>6. \A a, b, c, d : <<a>> # <<>> /\ <<a, b>> # <<>> /\ <<a, b, c>> # <<>>
                           /\ <<a, b, c, d>> # <<>>
      BY Heads
    <3>3. kind = "systemd" => /\ units = {"service", "timer"} /\ manager.read = units
                              /\ manager.enabled /\ manager.loaded
      BY Zenon, <1>3, <3>1, <3>6 DEF InstallingSystemd
    <3>4. kind = "launchd" => units = {"plist"} /\ manager.loaded
      BY Zenon, <1>3, <3>2, <3>6 DEF InstallingLaunchd
    <3> QED
      BY <1>1, <2>1, <3>3, <3>4 DEF Installing, ReportsTrue, RemovedIsGone, InstalledRuns, Expected
  <2> QED
    BY <2>3, <2>4 DEF TInv
<1> QED
  BY <1>2, <1>3

LEMMA InstallFailsKeeps ==
  ASSUME KindsAssumption, TimerBoundsAssumption, TInv, InstallFails
  PROVE  TInv'
<1> DEFINE step == Head(cmd.todo)
<1>1. /\ TimerTypeOK /\ Silent /\ Installing /\ cmd.op = "install" /\ cmd.todo # <<>> /\ cmd \in Cmd
      /\ kind' = kind /\ enrolled' = enrolled /\ report' = report /\ manager \in Manager
      /\ cmd' = [cmd EXCEPT !.op = "rewind", !.todo = Rewind(cmd.did), !.clean = FALSE]
      /\ Breaks(step) \/ Refuses(step)
  BY DEF TInv, TimerTypeOK, InstallFails
<1>2. /\ kind \in {"systemd", "launchd", "neither"}
      /\ step \in Step /\ (step.do = "write" => step.file \in Expected) /\ cmd.did \in 0 .. 3
      /\ kind = "systemd" /\ cmd.did # 3 => step.do \in {"write", "reload"}
      /\ kind = "launchd" => step.do \in {"write", "start"}
  BY <1>1, Machines, NextStep
<1>3. kind \in {"systemd", "launchd"}
  BY <1>1, <1>2 DEF Installing
<1>4. /\ Rewind(cmd.did) \in Seq(Step)
      /\ kind = "systemd" =>
           Rewind(cmd.did) = IF cmd.did = 3
                             THEN <<Stop, Delete("timer"), Delete("service"), Reload>>
                             ELSE IF cmd.did = 2
                             THEN <<Delete("timer"), Delete("service"), Reload>>
                             ELSE <<Delete("timer"), Delete("service")>>
      /\ kind = "launchd" =>
           Rewind(cmd.did) = IF cmd.did >= 1 THEN <<Stop, Delete("plist")>>
                             ELSE <<Delete("plist")>>
  <2> DEFINE dt == Delete("timer")  ds == Delete("service")  dp == Delete("plist")
  <2>1. dt \in Step /\ ds \in Step /\ dp \in Step /\ Stop \in Step /\ Reload \in Step
    BY StepTypes DEF AllFiles
  <2> HIDE DEF dt, ds, dp
  <2>2. /\ <<Stop, dt, ds, Reload>> \in Seq(Step) /\ <<dt, ds, Reload>> \in Seq(Step)
        /\ <<dt, ds>> \in Seq(Step) /\ <<Stop, dp>> \in Seq(Step) /\ <<dp>> \in Seq(Step)
    BY <2>1
  <2>3. /\ kind = "systemd" =>
             Rewind(cmd.did) = IF cmd.did = 3 THEN <<Stop, dt, ds, Reload>>
                               ELSE IF cmd.did = 2 THEN <<dt, ds, Reload>> ELSE <<dt, ds>>
        /\ kind = "launchd" =>
             Rewind(cmd.did) = IF cmd.did >= 1 THEN <<Stop, dp>> ELSE <<dp>>
    BY <1>2, Rewinds DEF dt, ds, dp
  <2> QED
    BY <1>3, <2>2, <2>3 DEF dt, ds, dp
<1> HIDE DEF step
<1>5. cmd' \in Cmd
  BY <1>1, <1>4, CmdTypes
<1>6. /\ cmd'.op = "rewind" /\ cmd'.todo = Rewind(cmd.did) /\ cmd'.stuck = {}
      /\ cmd'.was = cmd.was
  BY <1>1 DEF Cmd, Installing
<1>7. left' \in [faults: 0 .. TimerFaults, kills: 0 .. TimerKills, hands: 0 .. TimerHands]
  BY <1>1, SpendTypes DEF InstallFails, TimerTypeOK
<1>8. TimerTypeOK'
  BY <1>1, <1>2, <1>5, <1>7, WorksTypes DEF TimerTypeOK, Expected
<1>9. Unwinding'
  <2>1. CASE kind = "systemd"
    <3>1. InstallingSystemd
      BY <1>1, <2>1 DEF Installing
    <3>2. CASE cmd.did = 3
      <4>1. cmd'.todo = <<Stop, Delete("timer"), Delete("service"), Reload>>
        BY <1>4, <1>6, <2>1, <3>2
      <4> QED
        BY Zenon, <1>1, <2>1, <4>1 DEF UnwindingSystemd, Unwinding
    <3>3. CASE cmd.did \in 0 .. 2
      <4>1. manager = cmd.was
        BY <3>1, <3>3 DEF InstallingSystemd
      <4>2. step.do # "start" /\ step.do # "stop"
        BY <1>2, <2>1, <3>3
      <4>3. manager' = manager
        BY <1>1, <4>2 DEF Breaks, Refuses
      <4>4. Quieted' /\ manager'.read \subseteq cmd'.was.read
        BY <1>6, <4>1, <4>3 DEF Quieted
      <4> QED
        BY <1>1, <1>4, <1>6, <2>1, <3>3, <4>4 DEF UnwindingSystemd, Unwinding
    <3> QED
      BY <1>2, <3>2, <3>3
  <2>2. CASE kind = "launchd"
    <3>1. InstallingLaunchd
      BY <1>1, <2>2 DEF Installing
    <3>2. manager = cmd.was
      BY <1>1, <3>1 DEF InstallingLaunchd
    <3>3. step.do # "stop"
      BY <1>2, <2>2
    <3>4. manager' = manager
      BY <1>1, <2>2, <3>3 DEF Breaks, Refuses
    <3>5. Quieted' /\ manager'.read \subseteq cmd'.was.read
      BY <1>6, <3>2, <3>4 DEF Quieted
    <3> QED
      BY <1>1, <1>4, <1>6, <2>2, <3>5 DEF UnwindingLaunchd, Unwinding
  <2> QED
    BY <1>3, <2>1, <2>2
<1>10. Installing' /\ Removing' /\ Silent'
  BY <1>1, <1>6 DEF Installing, Removing, Silent
<1>11. LeftIsTold' /\ ReportsTrue'
  BY <1>1 DEF Silent, LeftIsTold, ReportsTrue, RemovedIsGone, InstalledRuns
<1> QED
  BY <1>8, <1>9, <1>10, <1>11 DEF TInv

\* A step of a rewind is done, or named among those that are not.
Undone(step) ==
  /\ cmd'.was = cmd.was
  /\ \/ Works(step) /\ cmd'.stuck = cmd.stuck
     \/ (Breaks(step) \/ Refuses(step)) /\ cmd'.stuck = cmd.stuck \cup {step}

LEMMA StopUndone ==
  ASSUME manager \in Manager, Undone(Stop)
  PROVE  Quieted' /\ manager'.read = manager.read /\ units' = units
<1>1. Stop.do = "stop"
  BY StepTypes
<1>2. CASE Works(Stop)
  <2>1. manager' = Stopped /\ units' = units
    BY <1>1, <1>2 DEF Works
  <2> QED
    BY <2>1 DEF Stopped, Manager, Quieted
<1>3. CASE (Breaks(Stop) \/ Refuses(Stop)) /\ Stop \in cmd'.stuck
  <2>1. units' = units /\ (manager' = manager \/ manager' = [manager EXCEPT !.enabled = FALSE])
    BY <1>1, <1>3 DEF Breaks, Refuses
  <2> QED
    BY <1>3, <2>1 DEF Manager, Quieted
<1> QED
  BY <1>2, <1>3 DEF Undone

LEMMA DeleteUndone ==
  ASSUME NEW file \in AllFiles, Undone(Delete(file))
  PROVE  /\ Told(file)' /\ manager' = manager /\ units' \subseteq units
         /\ \A f \in AllFiles : Told(f) => Told(f)'
         /\ Quieted => Quieted'
<1>1. Delete(file).do = "delete" /\ Delete(file).file = file
  BY StepTypes
<1>2. CASE Works(Delete(file)) /\ cmd'.stuck = cmd.stuck /\ cmd'.was = cmd.was
  <2>1. manager' = manager /\ units' = units \ {file}
    BY <1>1, <1>2 DEF Works
  <2> QED
    BY <1>2, <2>1 DEF Told, Quieted
<1>3. CASE /\ Breaks(Delete(file)) \/ Refuses(Delete(file))
           /\ cmd'.stuck = cmd.stuck \cup {Delete(file)} /\ cmd'.was = cmd.was
  <2>1. manager' = manager /\ units' = units
    BY <1>1, <1>3 DEF Breaks, Refuses
  <2> QED
    BY <1>3, <2>1 DEF Told, Quieted
<1> QED
  BY <1>2, <1>3 DEF Undone

LEMMA ReloadUndone ==
  ASSUME manager \in Manager, Undone(Reload)
  PROVE  /\ Reread' /\ units' = units
         /\ \A f \in AllFiles : Told(f) => Told(f)'
         /\ Quieted => Quieted'
<1>1. Reload.do = "reload"
  BY StepTypes
<1>2. CASE Works(Reload) /\ cmd'.stuck = cmd.stuck /\ cmd'.was = cmd.was
  <2>1. manager' = [manager EXCEPT !.read = units] /\ units' = units
    BY <1>1, <1>2 DEF Works
  <2>2. /\ manager'.read = units /\ manager'.enabled = manager.enabled
        /\ manager'.loaded = manager.loaded
    BY <2>1 DEF Manager
  <2> QED
    BY <1>2, <2>1, <2>2 DEF Reread, Told, Quieted
<1>3. CASE /\ Breaks(Reload) \/ Refuses(Reload)
           /\ cmd'.stuck = cmd.stuck \cup {Reload} /\ cmd'.was = cmd.was
  <2>1. manager' = manager /\ units' = units
    BY <1>1, <1>3 DEF Breaks, Refuses
  <2> QED
    BY <1>3, <2>1 DEF Reread, Told, Quieted
<1> QED
  BY <1>2, <1>3 DEF Undone

LEMMA UnwindKeeps ==
  ASSUME KindsAssumption, TimerBoundsAssumption, TInv, Unwind
  PROVE  TInv'
<1> DEFINE step == Head(cmd.todo)
<1>1. /\ TimerTypeOK /\ Silent /\ Unwinding /\ cmd.op = "rewind" /\ cmd.todo # <<>> /\ cmd \in Cmd
      /\ kind' = kind /\ enrolled' = enrolled /\ report' = report /\ manager \in Manager
      /\ \/ Works(step) /\ cmd' = [cmd EXCEPT !.todo = Tail(cmd.todo)]
         \/ /\ Breaks(step) \/ Refuses(step)
            /\ cmd' = [cmd EXCEPT !.todo = Tail(cmd.todo), !.stuck = cmd.stuck \cup {step}]
      /\ left' = left \/ Uses("faults")
  BY DEF TInv, TimerTypeOK, Unwind
<1>2. step \in Step /\ step.do # "write"
  <2>1. /\ kind = "systemd" => step \in {Stop, Delete("timer"), Delete("service"), Reload}
        /\ kind = "launchd" => step \in {Stop, Delete("plist")}
    BY <1>1 DEF Unwinding, UnwindingSystemd, UnwindingLaunchd
  <2> QED
    BY <1>1, <2>1, StepTypes DEF Unwinding, AllFiles
<1>3. Tail(cmd.todo) \in Seq(Step) /\ cmd.stuck \in SUBSET Step
  BY <1>1 DEF Cmd
<1> HIDE DEF step
<1>4. cmd' \in Cmd
  <2>1. CASE cmd' = [cmd EXCEPT !.todo = Tail(cmd.todo)]
    BY <1>1, <1>3, <2>1, CmdTypes
  <2>2. CASE cmd' = [cmd EXCEPT !.todo = Tail(cmd.todo), !.stuck = cmd.stuck \cup {step}]
    <3>1. PICK s \in SUBSET Step : s = cmd.stuck \cup {step}
      BY <1>2, <1>3
    <3>2. [cmd EXCEPT !.todo = Tail(cmd.todo), !.stuck = s] \in Cmd
      BY <1>1, <1>3, CmdTypes
    <3> QED
      BY <2>2, <3>1, <3>2
  <2> QED
    BY <1>1, <2>1, <2>2
<1>5. cmd'.op = "rewind" /\ cmd'.todo = Tail(cmd.todo) /\ Undone(step)
  BY <1>1 DEF Cmd, Undone
<1>6. left' \in [faults: 0 .. TimerFaults, kills: 0 .. TimerKills, hands: 0 .. TimerHands]
  BY <1>1, SpendTypes DEF TimerTypeOK
<1>7. TimerTypeOK'
  BY <1>1, <1>2, <1>4, <1>6, WorksTypes DEF TimerTypeOK, Expected
<1>8. Unwinding'
  <2>1. CASE kind = "systemd"
    <3>1. UnwindingSystemd
      BY <1>1, <2>1 DEF Unwinding
    <3>2. CASE cmd.todo = <<Stop, Delete("timer"), Delete("service"), Reload>>
      <4>1. step = Stop /\ cmd'.todo = <<Delete("timer"), Delete("service"), Reload>>
        BY <1>5, <3>2 DEF step
      <4>2. Quieted'
        BY <1>1, <1>5, <4>1, StopUndone
      <4> QED
        BY Zenon, <1>1, <2>1, <4>1, <4>2 DEF UnwindingSystemd, Unwinding
    <3>3. CASE cmd.todo = <<Delete("timer"), Delete("service"), Reload>> /\ Quieted
      <4>1. step = Delete("timer") /\ cmd'.todo = <<Delete("service"), Reload>>
        BY <1>5, <3>3 DEF step
      <4>2. Quieted' /\ Told("timer")'
        BY <1>5, <3>3, <4>1, DeleteUndone DEF AllFiles
      <4> QED
        BY Zenon, <1>1, <2>1, <4>1, <4>2 DEF UnwindingSystemd, Unwinding
    <3>4. CASE cmd.todo = <<Delete("service"), Reload>> /\ Quieted /\ Told("timer")
      <4>1. step = Delete("service") /\ cmd'.todo = <<Reload>>
        BY <1>5, <3>4 DEF step
      <4>2. Quieted' /\ Told("timer")' /\ Told("service")'
        BY <1>5, <3>4, <4>1, DeleteUndone DEF AllFiles
      <4> QED
        BY Zenon, <1>1, <2>1, <4>1, <4>2 DEF UnwindingSystemd, Unwinding
    <3>5. CASE cmd.todo = <<Reload>> /\ Quieted /\ Told("timer") /\ Told("service")
      <4>1. step = Reload /\ cmd'.todo = <<>>
        BY <1>5, <3>5 DEF step
      <4>2. Quieted' /\ Reread' /\ Told("timer")' /\ Told("service")'
        BY <1>1, <1>5, <3>5, <4>1, ReloadUndone DEF AllFiles
      <4> QED
        BY Zenon, <1>1, <2>1, <4>1, <4>2 DEF UnwindingSystemd, Unwinding
    <3>6. CASE /\ cmd.todo = <<Delete("timer"), Delete("service")>>
               /\ Quieted /\ manager.read \subseteq cmd.was.read
      <4>1. step = Delete("timer") /\ cmd'.todo = <<Delete("service")>>
        BY <1>5, <3>6 DEF step
      <4>2. Quieted' /\ Told("timer")' /\ manager'.read \subseteq cmd'.was.read
        BY <1>5, <3>6, <4>1, DeleteUndone DEF AllFiles, Undone
      <4> QED
        BY Zenon, <1>1, <2>1, <4>1, <4>2 DEF UnwindingSystemd, Unwinding
    <3>7. CASE /\ cmd.todo = <<Delete("service")>>
               /\ Quieted /\ manager.read \subseteq cmd.was.read /\ Told("timer")
      <4>1. step = Delete("service") /\ cmd'.todo = <<>>
        BY <1>5, <3>7 DEF step
      <4>2. Quieted' /\ Reread' /\ Told("timer")' /\ Told("service")'
        BY <1>5, <3>7, <4>1, DeleteUndone DEF AllFiles, Undone, Reread
      <4> QED
        BY Zenon, <1>1, <2>1, <4>1, <4>2 DEF UnwindingSystemd, Unwinding
    <3> QED
      BY Zenon, <1>1, <3>1, <3>2, <3>3, <3>4, <3>5, <3>6, <3>7 DEF UnwindingSystemd
  <2>2. CASE kind = "launchd"
    <3>1. UnwindingLaunchd
      BY <1>1, <2>2 DEF Unwinding
    <3>2. CASE cmd.todo = <<Stop, Delete("plist")>> /\ manager.read \subseteq cmd.was.read
      <4>1. step = Stop /\ cmd'.todo = <<Delete("plist")>>
        BY <1>5, <3>2 DEF step
      <4>2. Quieted' /\ manager'.read \subseteq cmd'.was.read
        BY <1>1, <1>5, <3>2, <4>1, StopUndone DEF Undone
      <4> QED
        BY Zenon, <1>1, <2>2, <4>1, <4>2 DEF UnwindingLaunchd, Unwinding
    <3>3. CASE cmd.todo = <<Delete("plist")>> /\ Quieted /\ manager.read \subseteq cmd.was.read
      <4>1. step = Delete("plist") /\ cmd'.todo = <<>>
        BY <1>5, <3>3 DEF step
      <4>2. Quieted' /\ Told("plist")' /\ manager'.read \subseteq cmd'.was.read
        BY <1>5, <3>3, <4>1, DeleteUndone DEF AllFiles, Undone
      <4> QED
        BY Zenon, <1>1, <2>2, <4>1, <4>2 DEF UnwindingLaunchd, Unwinding
    <3> QED
      BY Zenon, <1>1, <3>1, <3>2, <3>3 DEF UnwindingLaunchd
  <2> QED
    BY <1>1, <2>1, <2>2 DEF Unwinding
<1>9. Installing' /\ Removing' /\ Silent'
  BY <1>1, <1>5 DEF Installing, Removing, Silent
<1>10. LeftIsTold' /\ ReportsTrue'
  BY <1>1 DEF Silent, LeftIsTold, ReportsTrue, RemovedIsGone, InstalledRuns
<1> QED
  BY <1>7, <1>8, <1>9, <1>10 DEF TInv

\* A command that returns has its say from its last state.
LEMMA Returns ==
  ASSUME KindsAssumption, TInv, NEW outcome \in Reports, Concludes(outcome),
         kind' = kind, enrolled' = enrolled, units' = units, manager' = manager,
         left' \in [faults: 0 .. TimerFaults, kills: 0 .. TimerKills, hands: 0 .. TimerHands],
         LeftIsTold', ReportsTrue'
  PROVE  TInv'
<1>1. TimerTypeOK /\ cmd \in Cmd /\ <<>> \in Seq(Step)
  BY DEF TInv, TimerTypeOK
<1>2. cmd' \in Cmd
  BY <1>1, CmdTypes DEF Concludes
<1>3. cmd'.op = "none" /\ report' = outcome
  BY <1>1 DEF Concludes, Cmd
<1>4. TimerTypeOK'
  BY <1>1, <1>2, <1>3 DEF TimerTypeOK, Expected
<1>5. Silent' /\ Installing' /\ Unwinding' /\ Removing'
  BY <1>3 DEF Silent, Installing, Unwinding, Removing
<1> QED
  BY <1>4, <1>5 DEF TInv

LEMMA UnwoundKeeps ==
  ASSUME KindsAssumption, TInv, Unwound
  PROVE  TInv'
<1>1. /\ TimerTypeOK /\ Unwinding /\ cmd.op = "rewind" /\ cmd.todo = <<>> /\ cmd \in Cmd
      /\ units \subseteq Expected
      /\ kind' = kind /\ enrolled' = enrolled /\ units' = units /\ manager' = manager /\ left' = left
  BY DEF TInv, TimerTypeOK, Unwound
<1>2. PICK outcome \in {"failed", "half_undone"} : Concludes(outcome)
  BY DEF Unwound
<1>3. cmd'.stuck = cmd.stuck /\ cmd'.was = cmd.was /\ report' = outcome
  BY <1>1, <1>2 DEF Concludes, Cmd
<1>4. \A a, b, c, d : /\ <<a>> # <<>> /\ <<a, b>> # <<>> /\ <<a, b, c>> # <<>>
                      /\ <<a, b, c, d>> # <<>>
  BY Heads
<1>5. Quieted /\ Reread /\ \A file \in units : Told(file)
  <2>1. CASE kind = "systemd"
    <3>1. Quieted /\ Reread /\ Told("timer") /\ Told("service")
      BY Zenon, <1>1, <1>4, <2>1 DEF Unwinding, UnwindingSystemd
    <3> QED
      BY <1>1, <2>1, <3>1 DEF Expected
  <2>2. CASE kind = "launchd"
    <3>1. Quieted /\ Told("plist") /\ manager.read \subseteq cmd.was.read
      BY Zenon, <1>1, <1>4, <2>2 DEF Unwinding, UnwindingLaunchd
    <3> QED
      BY <1>1, <2>2, <3>1 DEF Expected, Reread
  <2> QED
    BY <1>1, <2>1, <2>2 DEF Unwinding
<1>6. LeftIsTold'
  BY <1>1, <1>3, <1>5 DEF LeftIsTold, Quieted, Reread, Told
<1>7. ReportsTrue'
  BY <1>2, <1>3 DEF ReportsTrue, RemovedIsGone, InstalledRuns
<1>8. left' \in [faults: 0 .. TimerFaults, kills: 0 .. TimerKills, hands: 0 .. TimerHands]
  BY <1>1 DEF TimerTypeOK
<1> QED
  BY <1>1, <1>2, <1>6, <1>7, <1>8, Returns DEF Reports

LEMMA KillKeeps ==
  ASSUME KindsAssumption, TimerBoundsAssumption, TInv, KillCommand
  PROVE  TInv'
<1>1. /\ TimerTypeOK /\ Concludes("killed") /\ Uses("kills") /\ "killed" \in Reports
      /\ kind' = kind /\ enrolled' = enrolled /\ units' = units /\ manager' = manager
  BY DEF TInv, KillCommand, Reports
<1>2. LeftIsTold' /\ ReportsTrue'
  BY <1>1 DEF Concludes, LeftIsTold, ReportsTrue, RemovedIsGone, InstalledRuns
<1> QED
  BY <1>1, <1>2, SpendTypes, Returns

\* A command begins with its list and a look at the manager.
LEMMA BeginTypes ==
  ASSUME TimerTypeOK, NEW op \in {"install", "stop"}, NEW todo \in Seq(Step), Begins(op, todo)
  PROVE  /\ cmd' \in Cmd /\ cmd'.op = op /\ cmd'.did = 0 /\ cmd'.todo = todo /\ cmd'.stuck = {}
         /\ cmd'.gone = {} /\ cmd'.was = manager /\ cmd'.clean /\ report' = "none"
<1>1. NoCmd \in Cmd /\ manager \in Manager
  <2>1. <<>> \in Seq(Step) /\ Asleep \in Manager
    BY DEF Asleep, Manager
  <2> QED
    BY <2>1 DEF NoCmd, Cmd, TimerTypeOK
<1>2. cmd' = [op |-> op, did |-> 0, todo |-> todo, stuck |-> {}, gone |-> {}, was |-> manager,
              clean |-> TRUE]
  BY DEF Begins, NoCmd
<1>3. cmd' \in Cmd
  BY <1>1, <1>2 DEF Cmd
<1>4. /\ cmd'.op = op /\ cmd'.did = 0 /\ cmd'.todo = todo /\ cmd'.stuck = {} /\ cmd'.gone = {}
      /\ cmd'.was = manager
  BY <1>2
<1>5. cmd'.clean = TRUE
  BY <1>2
<1>6. report' = "none"
  BY DEF Begins
<1> QED
  BY <1>3, <1>4, <1>5, <1>6

LEMMA TypeInstallKeeps ==
  ASSUME KindsAssumption, TInv, TypeInstall
  PROVE  TInv'
<1>1. /\ TimerTypeOK /\ enrolled /\ units = {} /\ Begins("install", InstallSteps)
      /\ kind' = kind /\ enrolled' = enrolled /\ units' = units /\ manager' = manager /\ left' = left
      /\ kind \in {"systemd", "launchd", "neither"}
  BY Machines DEF TInv, TypeInstall
<1>2. /\ InstallSteps \in Seq(Step)
      /\ kind = "systemd" =>
           InstallSteps = <<Write("service"), Write("timer"), Reload, Start>>
      /\ kind = "launchd" => InstallSteps = <<Write("plist"), Start>>
      /\ kind = "neither" => InstallSteps = <<>>
  <2> DEFINE ws == Write("service")  wt == Write("timer")  wp == Write("plist")
  <2>1. ws \in Step /\ wt \in Step /\ wp \in Step /\ Start \in Step /\ Reload \in Step
    BY StepTypes DEF AllFiles
  <2>2. /\ kind = "systemd" => InstallSteps = <<ws, wt, Reload, Start>>
        /\ kind = "launchd" => InstallSteps = <<wp, Start>>
        /\ kind = "neither" => InstallSteps = <<>>
    BY DEF InstallSteps
  <2> HIDE DEF ws, wt, wp
  <2>3. /\ <<ws, wt, Reload, Start>> \in Seq(Step) /\ <<wp, Start>> \in Seq(Step)
        /\ <<>> \in Seq(Step)
    BY <2>1
  <2> QED
    BY <1>1, <2>2, <2>3 DEF ws, wt, wp
<1>3. /\ cmd' \in Cmd /\ cmd'.op = "install" /\ cmd'.did = 0 /\ cmd'.todo = InstallSteps
      /\ cmd'.stuck = {} /\ cmd'.was = manager /\ report' = "none"
  BY <1>1, <1>2, BeginTypes
<1>4. TimerTypeOK'
  BY <1>1, <1>3 DEF TimerTypeOK, Expected, Reports
<1>5. Installing'
  BY Zenon, <1>1, <1>2, <1>3 DEF Installing, InstallingSystemd, InstallingLaunchd
<1>6. /\ Silent' /\ Unwinding' /\ Removing' /\ LeftIsTold' /\ ReportsTrue'
  BY <1>3 DEF Silent, Unwinding, Removing, LeftIsTold, ReportsTrue, RemovedIsGone, InstalledRuns
<1> QED
  BY <1>4, <1>5, <1>6 DEF TInv

LEMMA TypeUninstallKeeps ==
  ASSUME KindsAssumption, TInv, TypeUninstall
  PROVE  TInv'
<1> DEFINE list == IF kind = "systemd" THEN <<Delete("service"), Delete("timer")>>
                   ELSE <<Delete("plist")>>
<1>1. /\ TimerTypeOK /\ kind \in {"systemd", "launchd"} /\ Begins("stop", list)
      /\ kind' = kind /\ enrolled' = enrolled /\ units' = units /\ manager' = manager /\ left' = left
  BY Machines DEF TInv, TypeUninstall
<1>2. list \in Seq(Step)
  <2> DEFINE dt == Delete("timer")  ds == Delete("service")  dp == Delete("plist")
  <2>1. dt \in Step /\ ds \in Step /\ dp \in Step
    BY StepTypes DEF AllFiles
  <2> HIDE DEF dt, ds, dp
  <2>2. <<ds, dt>> \in Seq(Step) /\ <<dp>> \in Seq(Step)
    BY <2>1
  <2> QED
    BY <2>2 DEF dt, ds, dp
<1> HIDE DEF list
<1>3. /\ cmd' \in Cmd /\ cmd'.op = "stop" /\ cmd'.todo = list /\ cmd'.stuck = {}
      /\ cmd'.gone = {} /\ cmd'.clean /\ report' = "none"
  BY <1>1, <1>2, BeginTypes
<1>4. TimerTypeOK'
  BY <1>1, <1>3 DEF TimerTypeOK, Expected, Reports
<1>5. Removing'
  BY <1>1, <1>3 DEF Removing, list
<1>6. /\ Silent' /\ Unwinding' /\ Installing' /\ LeftIsTold' /\ ReportsTrue'
  BY <1>3 DEF Silent, Unwinding, Installing, LeftIsTold, ReportsTrue, RemovedIsGone, InstalledRuns
<1> QED
  BY <1>4, <1>5, <1>6 DEF TInv

\* Nothing runs and nothing was said: what is said of commands holds.
LEMMA Idles ==
  ASSUME KindsAssumption, TInv, cmd' = NoCmd, kind' = kind, enrolled' \in BOOLEAN,
         units' \subseteq Expected, manager' \in Manager, manager'.read \subseteq Expected,
         report' \in {"none", "not_joined", "already"},
         left' \in [faults: 0 .. TimerFaults, kills: 0 .. TimerKills, hands: 0 .. TimerHands]
  PROVE  TInv'
<1>1. NoCmd \in Cmd /\ NoCmd.op = "none"
  <2>1. <<>> \in Seq(Step) /\ Asleep \in Manager
    BY DEF Asleep, Manager
  <2> QED
    BY <2>1 DEF NoCmd, Cmd
<1>2. TimerTypeOK'
  BY <1>1 DEF TInv, TimerTypeOK, Expected, Reports
<1>3. Silent' /\ Installing' /\ Unwinding' /\ Removing'
  BY <1>1 DEF Silent, Installing, Unwinding, Removing
<1>4. LeftIsTold' /\ ReportsTrue'
  BY DEF LeftIsTold, ReportsTrue, RemovedIsGone, InstalledRuns
<1> QED
  BY <1>2, <1>3, <1>4 DEF TInv

LEMMA RefuseInstallKeeps ==
  ASSUME KindsAssumption, TInv, RefuseInstall
  PROVE  TInv'
<1>1. /\ cmd' = NoCmd /\ kind' = kind /\ enrolled' \in BOOLEAN /\ units' \subseteq Expected
      /\ manager' \in Manager /\ manager'.read \subseteq Expected
      /\ report' \in {"none", "not_joined", "already"}
      /\ left' \in [faults: 0 .. TimerFaults, kills: 0 .. TimerKills, hands: 0 .. TimerHands]
  BY DEF TInv, TimerTypeOK, RefuseInstall
<1> QED
  BY <1>1, Idles

LEMMA HandKeeps ==
  ASSUME KindsAssumption, TimerBoundsAssumption, TInv, Hand
  PROVE  TInv'
<1>1. /\ TimerTypeOK /\ cmd' = NoCmd /\ kind' = kind /\ report' = "none" /\ Uses("hands")
      /\ manager \in Manager /\ manager.read \subseteq Expected /\ units \subseteq Expected
      /\ enrolled \in BOOLEAN
  BY DEF TInv, TimerTypeOK, Hand
<1>2. /\ enrolled' \in BOOLEAN /\ units' \subseteq Expected
      /\ manager' \in Manager /\ manager'.read \subseteq Expected
  <2>1. CASE \E file \in units : units' = units \ {file} /\ UNCHANGED <<enrolled, manager>>
    BY <1>1, <2>1
  <2>2. CASE manager' = [manager EXCEPT !.loaded = FALSE] /\ UNCHANGED <<enrolled, units>>
    BY <1>1, <2>2 DEF Manager
  <2>3. CASE /\ manager' = [manager EXCEPT
                  !.read = IF kind = "systemd" THEN units ELSE {},
                  !.loaded = IF kind = "systemd" THEN manager.enabled /\ "timer" \in units
                             ELSE "plist" \in units]
             /\ UNCHANGED <<enrolled, units>>
    <3>1. PICK r \in SUBSET Expected : r = IF kind = "systemd" THEN units ELSE {}
      BY <1>1
    <3>2. \/ manager' = [manager EXCEPT !.read = r, !.loaded = TRUE]
          \/ manager' = [manager EXCEPT !.read = r, !.loaded = FALSE]
      <4> DEFINE b == IF kind = "systemd" THEN manager.enabled /\ "timer" \in units
                      ELSE "plist" \in units
      <4>1. manager' = [manager EXCEPT !.read = r, !.loaded = b]
        BY <2>3, <3>1
      <4>2. CASE b
        <5>1. b = TRUE
          BY <4>2
        <5> HIDE DEF b
        <5> QED
          BY <4>1, <5>1
      <4>3. CASE ~b
        <5>1. b = FALSE
          BY <4>3
        <5> HIDE DEF b
        <5> QED
          BY <4>1, <5>1
      <4> QED
        BY <4>2, <4>3
    <3>4. Expected \subseteq AllFiles
      BY <1>1, Machines
    <3> QED
      BY <1>1, <2>3, <3>1, <3>2, <3>4 DEF Manager
  <2>4. CASE enrolled' = ~enrolled /\ UNCHANGED <<units, manager>>
    BY <1>1, <2>4
  <2> QED
    BY <2>1, <2>2, <2>3, <2>4 DEF Hand
<1> QED
  BY <1>1, <1>2, SpendTypes, Idles

\* What is true of a removal that goes on: it has said nothing.
LEMMA GoesOn ==
  ASSUME TInv, TimerTypeOK', Removing', cmd.op # "none", report' = report,
         cmd'.op \in {"delete", "reload", "ask"}
  PROVE  TInv'
<1>1. report' = "none"
  BY DEF TInv, Silent
<1> QED
  BY <1>1 DEF TInv, Silent, Installing, Unwinding, LeftIsTold, ReportsTrue, RemovedIsGone,
              InstalledRuns

LEMMA StopScheduleKeeps ==
  ASSUME KindsAssumption, TimerBoundsAssumption, TInv, StopSchedule
  PROVE  TInv'
<1>1. /\ TimerTypeOK /\ Removing /\ cmd.op = "stop" /\ cmd \in Cmd /\ manager \in Manager
      /\ kind' = kind /\ enrolled' = enrolled /\ report' = report
      /\ Works(Stop) \/ Breaks(Stop) \/ Refuses(Stop)
      /\ left' = left \/ Uses("faults")
      /\ Stop \in Step /\ Stop.do = "stop"
  BY StepTypes DEF TInv, TimerTypeOK, StopSchedule
<1>2. PICK s : s = {Stop}
  OBVIOUS
<1>3. \/ cmd' = [cmd EXCEPT !.op = "delete"]
      \/ cmd' = [cmd EXCEPT !.op = "delete", !.stuck = s, !.clean = FALSE]
      \/ cmd' = [cmd EXCEPT !.op = "delete", !.stuck = s]
  BY <1>2 DEF StopSchedule
<1>4. cmd' \in Cmd
  <2>1. s \in SUBSET Step
    BY <1>1, <1>2
  <2>2. <<>> \in Seq(Step)
    OBVIOUS
  <2>3. cmd \in Cmd
    BY <1>1
  <2>4. CASE cmd' = [cmd EXCEPT !.op = "delete"]
    BY <2>2, <2>3, <2>4, CmdTypes
  <2>5. CASE cmd' = [cmd EXCEPT !.op = "delete", !.stuck = s, !.clean = FALSE]
    BY <2>1, <2>2, <2>3, <2>5, CmdTypes
  <2>6. CASE cmd' = [cmd EXCEPT !.op = "delete", !.stuck = s]
    BY <2>1, <2>2, <2>3, <2>6, CmdTypes
  <2> QED
    BY <1>3, <2>4, <2>5, <2>6
<1>5. left' \in [faults: 0 .. TimerFaults, kills: 0 .. TimerKills, hands: 0 .. TimerHands]
  BY <1>1, SpendTypes DEF TimerTypeOK
<1>6. TimerTypeOK'
  BY <1>1, <1>4, <1>5, WorksTypes DEF TimerTypeOK, Expected
<1>7. /\ cmd'.op = "delete" /\ cmd'.todo = cmd.todo /\ cmd'.gone = cmd.gone
      /\ cmd.stuck = {} /\ cmd.gone = {} /\ units' = units
      /\ \/ kind = "systemd" /\ cmd.todo = <<Delete("service"), Delete("timer")>>
         \/ kind = "launchd" /\ cmd.todo = <<Delete("plist")>>
  BY <1>1, <1>3 DEF Cmd, Removing, Works, Breaks, Refuses
<1>8. Halted'
  <2>1. CASE Works(Stop) /\ cmd' = [cmd EXCEPT !.op = "delete"]
    <3>1. manager' = Stopped /\ cmd'.stuck = {}
      BY <1>1, <1>7, <2>1 DEF Works, Cmd
    <3>2. ~manager'.loaded
      BY <1>1, <3>1 DEF Stopped, Manager
    <3> QED
      BY <3>1, <3>2 DEF Halted
  <2>2. CASE cmd' = [cmd EXCEPT !.op = "delete", !.stuck = {Stop}, !.clean = FALSE]
    <3>1. cmd'.stuck = {Stop} /\ cmd'.clean = FALSE
      BY <1>1, <2>2 DEF Cmd
    <3> QED
      BY <3>1 DEF Halted
  <2>3. CASE Refuses(Stop) /\ cmd' = [cmd EXCEPT !.op = "delete", !.stuck = {Stop}]
    <3>1. cmd'.stuck = {Stop}
      BY <1>1, <2>3 DEF Cmd
    <3>2. manager' = manager /\ (manager.loaded => kind = "systemd" /\ "timer" \notin units)
      BY <1>1, <1>7, <2>3, StepTypes DEF Refuses, CanStop
    <3> QED
      BY <1>1, <1>7, <3>1, <3>2 DEF Halted
  <2> QED
    BY <2>1, <2>2, <2>3 DEF StopSchedule
<1>9. Removing'
  BY Zenon, <1>1, <1>7, <1>8 DEF Removing
<1> QED
  BY <1>1, <1>6, <1>7, <1>9, GoesOn

LEMMA DeleteFilesKeeps ==
  ASSUME KindsAssumption, TInv, DeleteFiles
  PROVE  TInv'
<1>1. /\ TimerTypeOK /\ Removing /\ Halted /\ cmd.op = "delete" /\ cmd \in Cmd /\ manager \in Manager
      /\ kind' = kind /\ enrolled' = enrolled /\ report' = report /\ left' = left
  BY DEF TInv, TimerTypeOK, DeleteFiles, Removing
<1>2. CASE cmd.todo # <<>>
  <2> DEFINE step == Head(cmd.todo)
  <2>1. /\ Works(step)
        /\ cmd' = [cmd EXCEPT !.todo = Tail(cmd.todo), !.gone = cmd.gone \cup ({step.file} \cap units)]
    BY <1>2 DEF DeleteFiles
  <2>2. Tail(cmd.todo) \in Seq(Step)
    BY <1>1, <1>2 DEF Cmd
  <2>3. PICK file \in AllFiles :
          /\ step = Delete(file)
          /\ \/ /\ kind = "systemd" /\ Tail(cmd.todo) = <<Delete("timer")>> /\ file = "service"
             \/ /\ kind = "systemd" /\ Tail(cmd.todo) = <<>> /\ file = "timer"
                /\ "service" \notin units
             \/ kind = "launchd" /\ Tail(cmd.todo) = <<>> /\ file = "plist"
    <3>1. CASE kind = "systemd" /\ cmd.todo = <<Delete("service"), Delete("timer")>>
      BY <3>1 DEF AllFiles
    <3>2. CASE kind = "systemd" /\ cmd.todo = <<Delete("timer")>> /\ "service" \notin units
      BY <3>2 DEF AllFiles
    <3>3. CASE kind = "launchd" /\ cmd.todo = <<Delete("plist")>>
      BY <3>3 DEF AllFiles
    <3> QED
      BY Zenon, <1>1, <1>2, <3>1, <3>2, <3>3 DEF Removing
  <2> HIDE DEF step
  <2>4. step \in Step /\ step.do = "delete" /\ step.file = file
    BY <2>3, StepTypes
  <2>5. units' = units \ {file} /\ manager' = manager
    BY <2>1, <2>4 DEF Works
  <2>6. PICK g \in SUBSET AllFiles : g = cmd.gone \cup ({file} \cap units)
    BY <1>1, <2>3 DEF Cmd
  <2>7. cmd' = [cmd EXCEPT !.todo = Tail(cmd.todo), !.gone = g]
    BY <2>1, <2>4, <2>6
  <2>8. cmd' \in Cmd
    BY <1>1, <2>2, <2>7, CmdTypes
  <2>9. /\ cmd'.op = "delete" /\ cmd'.todo = Tail(cmd.todo) /\ cmd'.gone = g
        /\ cmd'.stuck = cmd.stuck /\ cmd'.clean = cmd.clean
    BY <1>1, <2>7 DEF Cmd
  <2>10. TimerTypeOK'
    BY <1>1, <2>1, <2>4, <2>8, WorksTypes DEF TimerTypeOK, Expected
  <2>11. Halted'
    BY <1>1, <2>5, <2>6, <2>9 DEF Halted
  <2>12. Removing'
    <3>1. units \subseteq Expected
      BY <1>1 DEF TimerTypeOK
    <3>2. \/ kind = "systemd" /\ cmd'.todo = <<Delete("timer")>> /\ "service" \notin units'
          \/ cmd'.todo = <<>> /\ units' = {}
      BY <2>3, <2>5, <2>9, <3>1 DEF Expected
    <3> QED
      BY Zenon, <1>1, <2>9, <2>11, <3>2 DEF Removing
  <2> QED
    BY <1>1, <2>9, <2>10, <2>12, GoesOn
<1>3. CASE cmd.todo = <<>>
  <2>1. PICK op \in {"reload", "ask"} :
          cmd' = [cmd EXCEPT !.op = op] /\ units' = units /\ manager' = manager
    BY <1>3 DEF DeleteFiles
  <2>2. cmd' \in Cmd
    <3>1. <<>> \in Seq(Step)
      OBVIOUS
    <3> QED
      BY <1>1, <2>1, <3>1, CmdTypes
  <2>3. /\ cmd'.op = op /\ cmd'.gone = cmd.gone /\ cmd'.stuck = cmd.stuck
        /\ cmd'.clean = cmd.clean
    BY <1>1, <2>1 DEF Cmd
  <2>4. TimerTypeOK'
    BY <1>1, <2>1, <2>2 DEF TimerTypeOK, Expected
  <2>5. units = {}
    <3>1. \A a, b : <<a>> # <<>> /\ <<a, b>> # <<>>
      BY Heads
    <3> QED
      BY Zenon, <1>1, <1>3, <3>1 DEF Removing
  <2>6. Halted'
    BY <1>1, <2>1, <2>3 DEF Halted
  <2>7. Removing'
    BY <2>1, <2>3, <2>5, <2>6 DEF Removing
  <2> QED
    BY <1>1, <2>3, <2>4, <2>7, GoesOn
<1> QED
  BY <1>2, <1>3

LEMMA ReloadAfterKeeps ==
  ASSUME KindsAssumption, TInv, ReloadAfter
  PROVE  TInv'
<1>1. /\ TimerTypeOK /\ Halted /\ units = {} /\ cmd.op = "reload" /\ cmd \in Cmd
      /\ manager \in Manager /\ Works(Reload) /\ cmd' = [cmd EXCEPT !.op = "ask"]
      /\ kind' = kind /\ enrolled' = enrolled /\ report' = report /\ left' = left
      /\ Reload \in Step /\ Reload.do = "reload"
  BY StepTypes DEF TInv, TimerTypeOK, ReloadAfter, Removing
<1>2. cmd' \in Cmd
  <2>1. <<>> \in Seq(Step)
    OBVIOUS
  <2> QED
    BY <1>1, <2>1, CmdTypes
<1>3. TimerTypeOK'
  BY <1>1, <1>2, WorksTypes DEF TimerTypeOK, Expected
<1>4. /\ cmd'.op = "ask" /\ cmd'.gone = cmd.gone /\ cmd'.stuck = cmd.stuck
      /\ cmd'.clean = cmd.clean
  BY <1>1 DEF Cmd
<1>5. units' = units /\ manager' = [manager EXCEPT !.read = units]
  BY <1>1 DEF Works
<1>6. manager'.loaded = manager.loaded
  BY <1>1, <1>5 DEF Manager
<1>7. Removing'
  BY <1>1, <1>4, <1>5, <1>6 DEF Halted, Removing
<1> QED
  BY <1>1, <1>3, <1>4, <1>7, GoesOn

LEMMA RemovalFailsKeeps ==
  ASSUME KindsAssumption, TimerBoundsAssumption, TInv, RemovalFails
  PROVE  TInv'
<1>1. /\ TimerTypeOK /\ Concludes("error") /\ Uses("faults") /\ "error" \in Reports
      /\ kind' = kind /\ enrolled' = enrolled /\ units' = units /\ manager' = manager
  BY DEF TInv, RemovalFails, Reports
<1>2. LeftIsTold' /\ ReportsTrue'
  BY <1>1 DEF Concludes, LeftIsTold, ReportsTrue, RemovedIsGone, InstalledRuns
<1> QED
  BY <1>1, <1>2, SpendTypes, Returns

LEMMA AskKeeps ==
  ASSUME KindsAssumption, TimerBoundsAssumption, TInv, Ask
  PROVE  TInv'
<1>1. /\ TimerTypeOK /\ Halted /\ units = {} /\ cmd.op = "ask" /\ cmd \in Cmd
      /\ kind' = kind /\ enrolled' = enrolled /\ units' = units /\ manager' = manager
      /\ left' = left \/ Uses("faults")
  BY DEF TInv, TimerTypeOK, Ask, Removing
<1>2. PICK outcome \in {"removed", "not_stopped"} :
        Concludes(outcome) /\ (outcome = "removed" => cmd.stuck = {} \/ ~manager.loaded)
  BY DEF Ask, NothingRuns
<1>3. LeftIsTold' /\ ReportsTrue'
  BY <1>1, <1>2 DEF Concludes, Halted, LeftIsTold, ReportsTrue, RemovedIsGone, InstalledRuns
<1>4. left' \in [faults: 0 .. TimerFaults, kills: 0 .. TimerKills, hands: 0 .. TimerHands]
  BY <1>1, SpendTypes DEF TimerTypeOK
<1> QED
  BY <1>1, <1>2, <1>3, <1>4, Returns DEF Reports

LEMMA InitTInv == ASSUME KindsAssumption, TimerBoundsAssumption PROVE TimerInit => TInv
<1> SUFFICES ASSUME TimerInit PROVE TInv
  OBVIOUS
<1>1. Asleep \in Manager /\ NoCmd \in Cmd /\ NoCmd.op = "none" /\ Asleep.read = {}
  <2>1. <<>> \in Seq(Step) /\ Asleep \in Manager
    BY DEF Asleep, Manager
  <2> QED
    BY <2>1 DEF NoCmd, Cmd, Asleep
<1>2. TimerTypeOK
  BY <1>1 DEF TimerInit, TimerTypeOK, Reports, TimerBoundsAssumption
<1>3. Silent /\ Installing /\ Unwinding /\ Removing /\ LeftIsTold /\ ReportsTrue
  BY <1>1 DEF TimerInit, Silent, Installing, Unwinding, Removing, LeftIsTold, ReportsTrue,
              RemovedIsGone, InstalledRuns
<1> QED
  BY <1>2, <1>3 DEF TInv

LEMMA StepTInv ==
  ASSUME KindsAssumption, TimerBoundsAssumption, TInv, [TimerNext]_timerVars
  PROVE  TInv'
<1>1. CASE TypeInstall
  BY <1>1, TypeInstallKeeps
<1>2. CASE RefuseInstall
  BY <1>2, RefuseInstallKeeps
<1>3. CASE InstallStep
  BY <1>3, InstallStepKeeps
<1>4. CASE InstallFails
  BY <1>4, InstallFailsKeeps
<1>5. CASE Unwind
  BY <1>5, UnwindKeeps
<1>6. CASE Unwound
  BY <1>6, UnwoundKeeps
<1>7. CASE TypeUninstall
  BY <1>7, TypeUninstallKeeps
<1>8. CASE StopSchedule
  BY <1>8, StopScheduleKeeps
<1>9. CASE DeleteFiles
  BY <1>9, DeleteFilesKeeps
<1>10. CASE ReloadAfter
  BY <1>10, ReloadAfterKeeps
<1>11. CASE RemovalFails
  BY <1>11, RemovalFailsKeeps
<1>12. CASE Ask
  BY <1>12, AskKeeps
<1>13. CASE KillCommand
  BY <1>13, KillKeeps
<1>14. CASE Hand
  BY <1>14, HandKeeps
<1>15. CASE UNCHANGED timerVars
  <2>1. /\ kind' = kind /\ enrolled' = enrolled /\ units' = units /\ manager' = manager
        /\ cmd' = cmd /\ report' = report /\ left' = left
    BY <1>15 DEF timerVars
  <2>2. TimerTypeOK' /\ Silent'
    BY <2>1 DEF TInv, TimerTypeOK, Expected, Silent
  <2>3. Installing'
    BY Zenon, <2>1 DEF TInv, Installing, InstallingSystemd, InstallingLaunchd
  <2>4. Unwinding'
    BY Zenon, <2>1 DEF TInv, Unwinding, UnwindingSystemd, UnwindingLaunchd, Quieted, Told, Reread
  <2>5. Removing'
    BY Zenon, <2>1 DEF TInv, Removing, Halted
  <2>6. LeftIsTold' /\ ReportsTrue'
    BY <2>1 DEF TInv, LeftIsTold, ReportsTrue, RemovedIsGone, InstalledRuns, Expected
  <2> QED
    BY <2>2, <2>3, <2>4, <2>5, <2>6 DEF TInv
<1> QED
  BY <1>1, <1>2, <1>3, <1>4, <1>5, <1>6, <1>7, <1>8, <1>9, <1>10, <1>11, <1>12, <1>13, <1>14,
     <1>15 DEF TimerNext

-----------------------------------------------------------------------------
(* What follows.                                                           *)

\* The inductive invariant holds of every kind of scheduler and under any number
\* of faults, kills and interventions.
THEOREM Invariant == ASSUME KindsAssumption, TimerBoundsAssumption PROVE TimerSpec => []TInv
<1>1. TimerInit => TInv
  BY InitTInv
<1>2. TInv /\ [TimerNext]_timerVars => TInv'
  BY StepTInv
<1> QED
  BY <1>1, <1>2, PTL DEF TimerSpec

\* After an install that failed, the machine is as it was but for what the
\* message names, whichever step failed and whichever of the unwinding's failed
\* after it (install, unwind).
THEOREM FailureAlwaysTold ==
  ASSUME KindsAssumption, TimerBoundsAssumption PROVE TimerSpec => []LeftIsTold
<1>1. TInv => LeftIsTold
  BY DEF TInv
<1> QED
  BY <1>1, Invariant, PTL

\* A removal that reports success left no file and nothing running, and an
\* install that does left a schedule that runs and comes back at boot (uninstall,
\* stopped, install).
THEOREM ReportsAlwaysTrue ==
  ASSUME KindsAssumption, TimerBoundsAssumption PROVE TimerSpec => []ReportsTrue
<1>1. TInv => ReportsTrue
  BY DEF TInv
<1> QED
  BY <1>1, Invariant, PTL

\* Whatever an install, a kill or a person left behind, a removal in which nothing
\* breaks removes it and says so; but for a timer of systemd's that runs without
\* its file (uninstall, still_loaded).
THEOREM RemovalAlwaysRepairs ==
  ASSUME KindsAssumption, TimerBoundsAssumption PROVE TimerSpec => RemovalRepairs
<1> DEFINE Repairs ==
      report' # report /\ report' \in {"error", "not_stopped"} =>
        \/ left'.faults < left.faults \/ ~cmd.clean
        \/ kind = "systemd" /\ "timer" \notin cmd.gone
<1>1. TInv /\ [TimerNext]_timerVars => [Repairs]_timerVars
  <2> SUFFICES ASSUME TInv, TimerNext, report' # report, report' \in {"error", "not_stopped"}
               PROVE  Repairs
    OBVIOUS
  <2>1. left \in [faults: 0 .. TimerFaults, kills: 0 .. TimerKills, hands: 0 .. TimerHands]
    BY DEF TInv, TimerTypeOK
  <2>2. Uses("faults") => left'.faults < left.faults
    BY <2>1, TimerBoundsAssumption DEF Uses, TimerBoundsAssumption
  <2>3. CASE RemovalFails
    BY <2>2, <2>3 DEF RemovalFails
  <2>4. CASE Ask
    <3>1. CASE Uses("faults")
      BY <2>2, <3>1
    <3>2. CASE cmd.stuck # {} /\ manager.loaded
      BY <2>4, <3>2 DEF TInv, Removing, Halted, Ask, NothingRuns
    <3> QED
      BY <2>4, <3>1, <3>2 DEF Ask, NothingRuns, Concludes
  <2>5. CASE \/ TypeInstall \/ RefuseInstall \/ InstallStep \/ InstallFails \/ Unwind \/ Unwound
             \/ TypeUninstall \/ StopSchedule \/ DeleteFiles \/ ReloadAfter \/ KillCommand \/ Hand
    BY <2>5 DEF TypeInstall, RefuseInstall, InstallStep, InstallFails, Unwind, Unwound,
                TypeUninstall, StopSchedule, DeleteFiles, ReloadAfter, KillCommand, Hand, Begins, Concludes
  <2> QED
    BY <2>3, <2>4, <2>5 DEF TimerNext
<1> QED
  BY <1>1, Invariant, PTL DEF TimerSpec, RemovalRepairs
=============================================================================
