--------------------------- MODULE Initialize_proofs ---------------------------
(***************************************************************************)
(* Any number of runs of `server init`, with whatever people put in place  *)
(* or move aside between their steps, any number of failures and kills:    *)
(* the state file stands for a whole hub, a run that fails leaves at most  *)
(* one sibling of the pair, and nobody else's file is taken away.          *)
(*                                                                         *)
(* The argument: one run is inside at a time (Locked) and there is no hub  *)
(* while it is (NoHub), so that only the write of the state file can make  *)
(* one, and by then the run has written everything it names (Progress).    *)
(* What a run takes away again is what it listed as its own (Guarded), and *)
(* it listed all it wrote (Owned).  The siblings of the pair are on no     *)
(* list: which of them there are follows from where the run is (Tidied).   *)
(***************************************************************************)
EXTENDS Initialize, TLAPS

Inside == Pcs \ {"idle", "lock", "end"}
Issuing == {"order", "account", "key.tmp", "cert.tmp", "key.bak", "key", "cert", "tidy", "load"}
Writing == {"key.tmp", "cert.tmp", "key.bak", "key", "cert", "tidy", "load"}
Publishing == {"conf", "token", "state"}

Shape ==
  /\ files \in [Paths -> Owners]
  /\ run \in [Runs -> Locals]
  /\ lock \subseteq Runs
  /\ "hands" \in DOMAIN budget /\ budget["hands"] \in Nat

\* The run inside is the one that holds the lock.
Locked == \A r \in Runs : run[r].pc \in Inside => lock = {r}

\* No hub before a run has written its state file.
NoHub == \A r \in Runs : run[r].pc \in Inside \ {"service"} => files["state"] \notin Runs

\* Which of the files a run wrote may still be there.
Holds(r, path) ==
  /\ run[r].pc \notin {"idle", "lock", "point", "watch", "order", "account"}
  /\ run[r].pc \in Writing \cup {"rollback"} \cup Publishing =>
       path \in run[r].created \cup run[r].candidates \cup ({"key", "cert"} \cap run[r].had)
  /\ run[r].pc = "end" /\ run[r].outcome \in Failures =>
       path \in {"key", "cert"} \cap run[r].had

Owned == \A r \in Runs, path \in Targets : files[path] = r => Holds(r, path)

\* What a run will take away is its own.
Guarded(r) ==
  run[r].pc \notin {"service", "end"} =>
    /\ run[r].candidates \subseteq Credentials \ run[r].had
    /\ run[r].created \subseteq {"conf", "token"} \ run[r].had
    /\ \A path \in run[r].candidates : files[path] \in {"nobody", r}
    /\ \A path \in run[r].created : files[path] = r
    /\ \A path \in run[r].had : files[path] # "nobody"
    /\ run[r].pc \in {"idle", "lock", "point", "watch"} =>
         run[r].candidates = {} /\ run[r].had = {}
    /\ run[r].pc \notin {"token", "state", "rollback"} => run[r].created = {}
    /\ run[r].pc \in Issuing => run[r].candidates = Credentials \ run[r].had

\* What it has written by now.
Progress(r) ==
  /\ run[r].pc \in Issuing \cup {"watch"} => Orders(run[r].asked)
  /\ run[r].pc \in Writing \cup Publishing /\ Orders(run[r].asked) =>
       files["account"] = run[r].account /\ run[r].account # "nobody"
  /\ run[r].pc \in {"cert", "tidy", "load"} \cup Publishing /\ Orders(run[r].asked) => files["key"] = r
  /\ run[r].pc \in {"tidy", "load"} \cup Publishing /\ Orders(run[r].asked) => files["cert"] = r
  /\ run[r].pc \in {"token", "state"} => files["conf"] = r
  /\ run[r].pc = "state" /\ KeepsToken(r) => files["token"] = r
  /\ run[r].pc = "account" =>
       run[r].account = IF files["account"] = "nobody" THEN r ELSE files["account"]
  /\ run[r].pc = "key" => run[r].backup = files["key"]
  /\ run[r].pc = "cert" =>
       /\ run[r].backup \in Runs => Holds(run[r].backup, "key")
       /\ IF "key" \in run[r].had THEN run[r].backup # "nobody"
          ELSE run[r].backup \in {"nobody", r}

\* The account a hub names is a file somebody wrote.
Whole ==
  /\ HubWhole
  /\ files["state"] \in Runs =>
       \A says \in hub : says.tls # "manual" => says.account # "nobody"

IInv ==
  /\ Shape /\ Locked /\ NoHub /\ Owned
  /\ \A r \in Runs : Guarded(r) /\ Progress(r)
  /\ Whole

-----------------------------------------------------------------------------
(* Values.                                                                 *)

LEMMA PublishedIs == Range(Published) = {"conf", "token", "state"}
BY DEF Range, Published

LEMMA PathsAre ==
  /\ Targets = {"account", "key", "cert", "conf", "token", "state"}
  /\ Credentials = {"account", "key", "cert"}
  /\ Siblings = {"key.tmp", "cert.tmp", "key.bak"}
  /\ Paths = Targets \cup Siblings
BY PublishedIs DEF Targets, Credentials, Siblings, Paths

LEMMA RunsAre ==
  ASSUME NEW r \in Runs
  PROVE  r \in Owners /\ r # "nobody" /\ r # "others"
BY RunsAssumption DEF Owners

LEMMA FreshLocals == NotStarted \in Locals
<1>1. NoFlags \in Asked
  BY DEF NoFlags, Asked
<1> QED
  BY <1>1 DEF NotStarted, Locals, Pcs, Owners, Outcomes, Failures

\* The last of what was created.
LEMMA NewestIsCreated ==
  ASSUME NEW r \in Runs, run[r].created \subseteq {"conf", "token"}, run[r].created # {}
  PROVE  Newest(r) \in run[r].created
<1>1. /\ DOMAIN Published = 1 .. 3 /\ Len(Published) = 3
      /\ Published[1] = "conf" /\ Published[2] = "token" /\ Published[3] = "state"
  BY DEF Published
<1>2. \E i \in DOMAIN Published :
        /\ Published[i] \in run[r].created
        /\ \A j \in (i + 1) .. Len(Published) : Published[j] \notin run[r].created
  <2>1. CASE "token" \in run[r].created
    <3>1. Published[2] \in run[r].created
          /\ \A j \in (2 + 1) .. Len(Published) : Published[j] \notin run[r].created
      BY <1>1, <2>1
    <3> QED
      BY <1>1, <3>1
  <2>2. CASE "token" \notin run[r].created
    <3>1. \A j \in 2 .. 3 : Published[j] \notin run[r].created
      BY <1>1, <2>2
    <3>2. Published[1] \in run[r].created
          /\ \A j \in (1 + 1) .. Len(Published) : Published[j] \notin run[r].created
      BY <1>1, <2>2, <3>1
    <3> QED
      BY <1>1, <3>2
  <2> QED
    BY <2>1, <2>2
<1> QED
  BY <1>2 DEF Newest

LEMMA InitIInv == Init => IInv
<1> SUFFICES ASSUME Init PROVE IInv
  OBVIOUS
<1>1. /\ \A r \in Runs : run[r] = NotStarted
      /\ \A path \in Targets : files[path] = "nobody"
      /\ lock = {}
  BY PathsAre DEF Init
<1>2. Shape
  BY FreshLocals, BoundsAssumption DEF Init, Shape, Owners
<1>3. Locked /\ NoHub
  BY <1>1 DEF Locked, NoHub, NotStarted, Inside
<1>4. Owned /\ Whole
  BY <1>1, RunsAre, PathsAre DEF Owned, HubWhole, Whole
<1>5. \A r \in Runs : Guarded(r) /\ Progress(r)
  BY <1>1 DEF Guarded, Progress, NotStarted, Issuing, Writing, Publishing
<1> QED
  BY <1>2, <1>3, <1>4, <1>5 DEF IInv

-----------------------------------------------------------------------------
(* Steps.                                                                  *)

\* r's locals change and no other run's.
Only(r) == run' \in [Runs -> Locals] /\ \A q \in Runs : q # r => run'[q] = run[q]

Hands == "hands" \in DOMAIN budget' /\ budget'["hands"] = budget["hands"]

\* Nothing a person would name is touched.
SameTargets ==
  /\ hub' = hub /\ files' \in [Paths -> Owners]
  /\ \A path \in Targets : files'[path] = files[path]

LEMMA Untouched ==
  ASSUME Shape, UNCHANGED <<files, hub>>
  PROVE  SameTargets
BY DEF Shape, SameTargets

LEMMA HandsKept ==
  ASSUME Shape, budget' = budget \/ Spend("faults") \/ Spend("kills")
  PROVE  Hands
BY DEF Shape, Spend, Hands

LEMMA NoWhole == files'["state"] \notin Runs => Whole'
BY DEF Whole, HubWhole

\* Everyone but the run inside is outside.
LEMMA Others ==
  ASSUME IInv, NEW r \in Runs, lock = {r}, NEW q \in Runs, q # r
  PROVE  run[q].pc \in {"idle", "lock", "end"}
BY DEF IInv, Shape, Locked, Inside, Locals, Pcs

\* A step of the run inside.
LEMMA InsideStep ==
  ASSUME IInv, NEW r \in Runs, lock = {r}, Only(r), Hands,
         files' \in [Paths -> Owners],
         lock' \subseteq lock,
         run'[r].pc \in Inside => lock' = lock,
         run'[r].pc \in Inside \ {"service"} => files'["state"] \notin Runs,
         \A path \in Targets, q \in Runs \ {r} : files'[path] = q =>
            \/ files[path] = q
            \/ run[r].pc = "cert" /\ path = "key" /\ q = run[r].backup,
         \A path \in Targets : files'[path] = r => Holds(r, path)',
         Guarded(r)', Progress(r)', Whole'
  PROVE  IInv'
<1>1. \A q \in Runs : q # r => run[q].pc \in {"idle", "lock", "end"} /\ run'[q] = run[q]
  BY Others DEF Only
<1>2. Shape'
  BY DEF IInv, Shape, Only, Hands
<1>3. Locked' /\ NoHub'
  BY <1>1 DEF Locked, NoHub, Inside
<1>4. Owned'
  <2> SUFFICES ASSUME NEW q \in Runs, NEW path \in Targets, files'[path] = q
               PROVE  Holds(q, path)'
    BY DEF Owned
  <2>1. CASE q = r
    BY <2>1
  <2>2. CASE q # r
    <3>1. Holds(q, path)
      BY <2>2, PathsAre DEF IInv, Owned, Progress
    <3> QED
      BY <1>1, <2>2, <3>1 DEF Holds
  <2> QED
    BY <2>1, <2>2
<1>5. ASSUME NEW q \in Runs PROVE Guarded(q)' /\ Progress(q)'
  <2>1. CASE q = r
    BY <2>1
  <2>2. CASE q # r
    BY <1>1, <2>2 DEF IInv, Guarded, Progress, Issuing, Writing, Publishing
  <2> QED
    BY <2>1, <2>2
<1> QED
  BY <1>2, <1>3, <1>4, <1>5 DEF IInv

\* A step that touches no such file.
LEMMA RunStep ==
  ASSUME IInv, NEW r \in Runs, Only(r), Hands, SameTargets,
         lock' \subseteq Runs,
         Locked', NoHub',
         \A path \in Targets : Holds(r, path) => Holds(r, path)',
         Guarded(r)', Progress(r)'
  PROVE  IInv'
<1>1. Shape'
  BY DEF IInv, Shape, Only, Hands, SameTargets
<1>2. ASSUME NEW q \in Runs, NEW path \in Targets, Holds(q, path) PROVE Holds(q, path)'
  BY <1>2 DEF Holds, Only
<1>3. Owned'
  BY <1>2 DEF IInv, Owned, SameTargets
<1>4. ASSUME NEW q \in Runs PROVE Guarded(q)' /\ Progress(q)'
  <2>1. CASE q = r
    BY <2>1
  <2>2. CASE q # r
    <3>1. run'[q] = run[q] /\ Guarded(q) /\ Progress(q) /\ run[q] \in Locals
      BY <2>2 DEF IInv, Only, Shape
    <3>2. Guarded(q)'
      <4>1. /\ run[q].candidates \subseteq Targets /\ run[q].created \subseteq Targets
            /\ run[q].had \subseteq Targets
        BY <3>1, PathsAre DEF Locals
      <4> QED
        BY <3>1, <4>1 DEF Guarded, SameTargets
    <3>3. "key" \in Targets
      BY PathsAre
    <3>4. Progress(q)'
      <4>1. /\ files'["account"] = files["account"] /\ files'["key"] = files["key"]
            /\ files'["cert"] = files["cert"] /\ files'["conf"] = files["conf"]
            /\ files'["token"] = files["token"] /\ (KeepsToken(q)' <=> KeepsToken(q))
        BY <3>1, PathsAre DEF KeepsToken, SameTargets
      <4>2. \A v \in Runs : Holds(v, "key") => Holds(v, "key")'
        BY <1>2, <3>3
      <4> QED
        BY <3>1, <4>1, <4>2 DEF Progress
    <3> QED
      BY <3>2, <3>4
  <2> QED
    BY <2>1, <2>2
<1>5. Whole'
  BY PathsAre DEF IInv, Whole, HubWhole, SameTargets
<1> QED
  BY <1>1, <1>3, <1>4, <1>5 DEF IInv

\* A run that ends.
LEMMA EndIs ==
  ASSUME Shape, NEW r \in Runs, NEW outcome \in Outcomes, Ends(r, outcome)
  PROVE  /\ Only(r) /\ lock' = lock \ {r}
         /\ run'[r].pc = "end" /\ run'[r].outcome = outcome
         /\ outcome \in Failures => run'[r].had = run[r].had
<1>1. run[r] \in Locals
  BY DEF Shape
<1>2. run[r].asked \in Asked /\ run[r].had \in SUBSET Targets
  BY <1>1 DEF Locals
<1>3. /\ [NotStarted EXCEPT !.pc = "end", !.outcome = outcome, !.had = run[r].had] \in Locals
      /\ [NotStarted EXCEPT !.pc = "end", !.outcome = outcome, !.asked = run[r].asked] \in Locals
  BY <1>2, FreshLocals DEF Locals, Pcs
<1> QED
  BY <1>1, <1>3 DEF Shape, Ends, Only, NotStarted

LEMMA EndingKeeps ==
  ASSUME IInv, NEW r \in Runs, NEW outcome \in Outcomes, Ends(r, outcome),
         UNCHANGED <<files, hub>>, Hands,
         \A path \in Targets : Holds(r, path) =>
            outcome \notin Failures \/ path \in {"key", "cert"} \cap run[r].had
  PROVE  IInv'
<1>1. /\ Only(r) /\ lock' = lock \ {r}
      /\ run'[r].pc = "end" /\ run'[r].outcome = outcome
      /\ outcome \in Failures => run'[r].had = run[r].had
  BY EndIs DEF IInv
<1>2. Locked' /\ NoHub'
  BY <1>1 DEF IInv, Locked, NoHub, Only, Inside
<1>3. Guarded(r)' /\ Progress(r)'
  BY <1>1 DEF Guarded, Progress, Issuing, Writing, Publishing
<1>4. \A path \in Targets : Holds(r, path) => Holds(r, path)'
  BY <1>1 DEF Holds, Writing, Publishing
<1> QED
  BY <1>1, <1>2, <1>3, <1>4, RunStep, Untouched DEF IInv, Shape

LEMMA TypeKeeps == ASSUME IInv, NEW r \in Runs, Type(r) PROVE IInv'
<1>1. PICK asked \in Asked : run' = [run EXCEPT ![r].pc = "lock", ![r].asked = asked]
  BY DEF Type
<1>2. /\ Only(r) /\ run[r].pc = "idle" /\ run'[r].pc = "lock"
      /\ run'[r].had = run[r].had /\ run'[r].candidates = run[r].candidates
      /\ run'[r].created = run[r].created
  <2>1. run[r] \in Locals
    BY DEF IInv, Shape
  <2>2. [run[r] EXCEPT !.pc = "lock", !.asked = asked] \in Locals
    BY <2>1 DEF Locals, Pcs
  <2> QED
    BY <1>1, <2>1, <2>2 DEF Type, At, IInv, Shape, Only, Locals
<1>3. Locked' /\ NoHub'
  BY <1>2 DEF Type, IInv, Locked, NoHub, Only, Inside
<1>4. Guarded(r)' /\ Progress(r)'
  BY <1>2 DEF IInv, Guarded, Progress, Issuing, Writing, Publishing, Type
<1>5. \A path \in Targets : ~Holds(r, path)
  BY <1>2 DEF Holds
<1> QED
  BY <1>2, <1>3, <1>4, <1>5, RunStep, HandsKept, Untouched DEF Type, IInv, Shape

LEMMA LockKeeps == ASSUME IInv, NEW r \in Runs, Lock(r) PROVE IInv'
<1>1. /\ Only(r) /\ run[r].pc = "lock" /\ run'[r].pc = "point"
      /\ run'[r].had = run[r].had /\ run'[r].candidates = run[r].candidates
      /\ run'[r].created = run[r].created
      /\ lock = {} /\ lock' = {r} /\ UNCHANGED <<files, hub, budget>>
  <2>1. run \in [Runs -> Locals] /\ run[r] \in Locals /\ "point" \in Pcs
    BY DEF IInv, Shape, Pcs
  <2>2. /\ run[r].pc = "lock" /\ run' = [run EXCEPT ![r].pc = "point"]
        /\ lock = {} /\ lock' = {r} /\ UNCHANGED <<files, hub, budget>>
    BY DEF Lock, Goto, At
  <2>3. /\ run'[r] = [run[r] EXCEPT !.pc = "point"]
        /\ \A q \in Runs \ {r} : run'[q] = run[q]
    BY <2>1, <2>2
  <2>4. [run[r] EXCEPT !.pc = "point"] \in Locals
    BY <2>1 DEF Locals
  <2>5. run' \in [Runs -> Locals]
    BY <2>1, <2>2, <2>4
  <2>6. /\ run'[r].pc = "point" /\ run'[r].had = run[r].had
        /\ run'[r].candidates = run[r].candidates /\ run'[r].created = run[r].created
    BY <2>1, <2>3 DEF Locals
  <2> QED
    BY <2>2, <2>3, <2>5, <2>6 DEF Only
<1>2. Locked'
  BY <1>1 DEF IInv, Locked, Only, Inside
<1>3. files["state"] \notin Runs
  BY RunsAre DEF Lock, Initialized, There
<1>4. NoHub'
  BY <1>1, <1>3 DEF NoHub
<1>5. Guarded(r)' /\ Progress(r)'
  BY <1>1 DEF IInv, Guarded, Progress, Issuing, Writing, Publishing
<1>6. \A path \in Targets : ~Holds(r, path)
  BY <1>1 DEF Holds
<1> QED
  BY <1>1, <1>2, <1>4, <1>5, <1>6, RunStep, HandsKept, Untouched DEF IInv, Shape

LEMMA EndsKeep ==
  ASSUME IInv, NEW r \in Runs,
         Refuse(r) \/ TooLate(r) \/ PointFails(r) \/ Install(r) \/ Kill(r)
  PROVE  IInv'
<1>1. PICK outcome \in {"refused", "failed", "running", "unsupervised", "killed"} :
        /\ Ends(r, outcome)
        /\ outcome = "failed" => run[r].pc = "point"
  BY DEF Refuse, TooLate, PointFails, Install, Kill, At
<1>2. UNCHANGED <<files, hub>> /\ Hands
  BY HandsKept DEF Refuse, TooLate, PointFails, Install, Kill, IInv
<1>3. \A path \in Targets : outcome = "failed" => ~Holds(r, path)
  BY <1>1 DEF Holds
<1> QED
  BY <1>1, <1>2, <1>3, EndingKeeps DEF Outcomes, Failures

\* What a run inside knows.
LEMMA InsideRun ==
  ASSUME IInv, NEW r \in Runs, run[r].pc \in Inside \ {"service"}
  PROVE  /\ lock = {r} /\ files["state"] \notin Runs
         /\ Guarded(r) /\ Progress(r) /\ Shape /\ run[r] \in Locals
         /\ files \in [Paths -> Owners] /\ r \in Owners /\ r # "nobody" /\ r # "others"
         /\ \A path \in Targets : files[path] = r => Holds(r, path)
BY RunsAre DEF IInv, Locked, NoHub, Shape, Owned

\* A step inside that touches no such file and leaves what the run listed as it is.
LEMMA InsideRunStep ==
  ASSUME IInv, NEW r \in Runs, run[r].pc \in Inside \ {"service"},
         Only(r), Hands, SameTargets, UNCHANGED lock,
         run'[r].pc \in Inside \ {"service"},
         \A path \in Targets : Holds(r, path) => Holds(r, path)',
         Guarded(r)', Progress(r)'
  PROVE  IInv'
<1>1. Locked' /\ NoHub'
  BY InsideRun, PathsAre DEF IInv, Locked, NoHub, Only, SameTargets
<1> QED
  BY <1>1, RunStep DEF IInv, Shape

LEMMA PointKeeps == ASSUME IInv, NEW r \in Runs, PointDns(r) PROVE IInv'
<1>1. PICK pointed \in BOOLEAN :
        run' = [run EXCEPT ![r].pointed = pointed,
                     ![r].pc = IF Orders(run[r].asked) THEN "watch" ELSE "conf"]
  BY DEF PointDns
<1>2. run[r] \in Locals /\ run[r].pc = "point" /\ run[r].pc \in Inside \ {"service"}
  BY DEF PointDns, At, IInv, Shape, Inside, Pcs
<1>3. /\ run'[r].pc = IF Orders(run[r].asked) THEN "watch" ELSE "conf"
      /\ run'[r].had = run[r].had /\ run'[r].candidates = run[r].candidates
      /\ run'[r].created = run[r].created /\ run'[r].asked = run[r].asked
      /\ DOMAIN run' = Runs /\ \A q \in Runs : q # r => run'[q] = run[q]
      /\ run' = [run EXCEPT ![r] = [run[r] EXCEPT !.pointed = pointed, !.pc = run'[r].pc]]
  BY <1>1, <1>2 DEF IInv, Shape, Locals
<1>4. Only(r)
  <2>1. run'[r].pc \in Pcs
    BY <1>3 DEF Pcs
  <2>2. [run[r] EXCEPT !.pointed = pointed, !.pc = run'[r].pc] \in Locals
    BY <1>2, <2>1 DEF Locals
  <2> QED
    BY <1>3, <2>2 DEF IInv, Shape, Only
<1>5. Guarded(r)' /\ Progress(r)'
  BY <1>2, <1>3, InsideRun DEF PointDns, Guarded, Progress, Issuing, Writing, Publishing
<1>6. \A path \in Targets : ~Holds(r, path)
  BY <1>2 DEF Holds
<1> QED
  BY <1>2, <1>3, <1>4, <1>5, <1>6, InsideRunStep, HandsKept, Untouched
  DEF PointDns, IInv, Inside, Pcs

LEMMA WatchKeeps == ASSUME IInv, NEW r \in Runs, Watch(r) PROVE IInv'
<1>1. run[r] \in Locals /\ run[r].pc = "watch" /\ run[r].pc \in Inside \ {"service"}
  BY DEF Watch, At, IInv, Shape, Inside, Pcs
<1>2. Only(r)
  <2>1. Present \in SUBSET Targets /\ Credentials \ Present \in SUBSET Credentials
    BY DEF Present
  <2>2. [run[r] EXCEPT !.pc = "order", !.had = Present, !.candidates = Credentials \ Present]
          \in Locals
    BY <1>1, <2>1 DEF Locals, Pcs
  <2> QED
    BY <2>2 DEF Watch, IInv, Shape, Only
<1>3. /\ run'[r].pc = "order" /\ run'[r].had = Present
      /\ run'[r].candidates = Credentials \ Present
      /\ run'[r].created = run[r].created /\ run'[r].asked = run[r].asked
  <2>1. run \in [Runs -> Locals]
    BY DEF IInv, Shape
  <2>2. run'[r] = [run[r] EXCEPT !.pc = "order", !.had = Present,
                                 !.candidates = Credentials \ Present]
    BY <2>1 DEF Watch
  <2> QED
    BY <1>1, <2>2 DEF Locals
<1>4. Guarded(r)'
  <2>1. Guarded(r) /\ files' = files
    BY <1>1, InsideRun DEF Watch
  <2>2. \A path \in Credentials \ Present : files'[path] = "nobody"
    BY <2>1, PathsAre DEF Present, There
  <2>3. \A path \in Present : files'[path] # "nobody"
    BY <2>1 DEF Present, There
  <2>4. run'[r].created = {}
    BY <1>1, <1>3, <2>1 DEF Guarded
  <2> QED
    BY <1>3, <2>2, <2>3, <2>4 DEF Guarded
<1>5. Progress(r)'
  BY <1>1, <1>3, InsideRun DEF Progress, Issuing, Writing, Publishing
<1>6. \A path \in Targets : ~Holds(r, path)
  BY <1>1 DEF Holds
<1> QED
  BY <1>1, <1>2, <1>3, <1>4, <1>5, <1>6, InsideRunStep, HandsKept, Untouched
  DEF Watch, IInv, Inside, Pcs

LEMMA OrderKeeps == ASSUME IInv, NEW r \in Runs, Order(r) PROVE IInv'
<1>1. run[r] \in Locals /\ run[r].pc = "order" /\ run[r].pc \in Inside \ {"service"}
  BY DEF Order, At, IInv, Shape, Inside, Pcs
<1>2. PICK account \in Owners :
        /\ account = IF files["account"] = "nobody" THEN r ELSE files["account"]
        /\ run' = [run EXCEPT ![r].pc = "account", ![r].account = account]
  BY <1>1, InsideRun, PathsAre DEF Order, There
<1>3. Only(r)
  <2>1. [run[r] EXCEPT !.pc = "account", !.account = account] \in Locals
    BY <1>1 DEF Locals, Pcs
  <2> QED
    BY <1>2, <2>1 DEF IInv, Shape, Only
<1>4. /\ run'[r].pc = "account" /\ run'[r].had = run[r].had /\ run'[r].account = account
      /\ run'[r].candidates = run[r].candidates
      /\ run'[r].created = run[r].created /\ run'[r].asked = run[r].asked
  BY <1>1, <1>2 DEF IInv, Shape, Locals
<1>5. Guarded(r)' /\ Progress(r)'
  <2>1. UNCHANGED files /\ Guarded(r) /\ Progress(r)
    BY <1>1, InsideRun DEF Order
  <2>2. Guarded(r)'
    BY <1>1, <1>4, <2>1 DEF Guarded, Issuing
  <2>3. Orders(run'[r].asked)
    BY <1>1, <1>4, <2>1 DEF Progress, Issuing
  <2>4. account = IF files'["account"] = "nobody" THEN r ELSE files'["account"]
    BY <1>2, <2>1
  <2>5. Progress(r)'
    BY <1>4, <2>3, <2>4 DEF Progress, Writing, Publishing
  <2> QED
    BY <2>2, <2>5
<1>6. \A path \in Targets : ~Holds(r, path)
  BY <1>1 DEF Holds
<1> QED
  BY <1>1, <1>3, <1>4, <1>5, <1>6, InsideRunStep, HandsKept, Untouched
  DEF Order, IInv, Inside, Pcs

\* Unwinding starts with what the run has listed.
LEMMA UnwindIs ==
  ASSUME Shape, NEW r \in Runs, NEW outcome \in Outcomes, Unwinds(r, outcome)
  PROVE  /\ Only(r) /\ lock' = lock
         /\ run'[r].pc = "rollback" /\ run'[r].outcome = outcome
         /\ run'[r].had = run[r].had /\ run'[r].candidates = run[r].candidates
         /\ run'[r].created = run[r].created
<1>1. run[r] \in Locals
  BY DEF Shape
<1>2. [run[r] EXCEPT !.pc = "rollback", !.outcome = outcome] \in Locals
  BY <1>1 DEF Locals, Pcs
<1> QED
  BY <1>1, <1>2 DEF Shape, Unwinds, Only, Locals

LEMMA UnwindKeeps ==
  ASSUME IInv, NEW r \in Runs, NEW outcome \in Outcomes, Unwinds(r, outcome),
         run[r].pc \in Issuing \cup Publishing,
         SameTargets, Hands
  PROVE  IInv'
<1>1. run[r].pc \in Inside \ {"service"} /\ run'[r].pc \in Inside \ {"service"}
  BY UnwindIs DEF IInv, Issuing, Writing, Publishing, Inside, Pcs
<1>2. \A path \in Targets : Holds(r, path) => Holds(r, path)'
  BY UnwindIs DEF IInv, Holds, Issuing, Writing, Publishing
<1>3. Guarded(r)'
  <2>1. Guarded(r) /\ run[r].had \subseteq Targets
    BY <1>1, InsideRun DEF Locals
  <2>2. run[r].candidates \subseteq Targets /\ run[r].created \subseteq Targets
    BY <1>1, <2>1, PathsAre DEF Guarded, Inside
  <2>3. /\ \A path \in run[r].candidates : files'[path] = files[path]
        /\ \A path \in run[r].created : files'[path] = files[path]
        /\ \A path \in run[r].had : files'[path] = files[path]
    BY <2>1, <2>2 DEF SameTargets
  <2> QED
    BY <1>1, <2>1, <2>3, UnwindIs DEF IInv, Guarded, Issuing, Inside
<1>4. Progress(r)'
  BY UnwindIs DEF IInv, Progress, Issuing, Writing, Publishing
<1> QED
  BY <1>1, <1>2, <1>3, <1>4, UnwindIs, InsideRunStep DEF IInv

LEMMA LoadKeeps == ASSUME IInv, NEW r \in Runs, LoadPair(r) PROVE IInv'
<1>1. run[r] \in Locals /\ run[r].pc = "load" /\ run[r].pc \in Inside \ {"service"}
  BY DEF LoadPair, At, IInv, Shape, Inside, Pcs
<1>2. /\ Only(r) /\ run'[r].pc = "conf" /\ run'[r].had = run[r].had
      /\ run'[r].account = run[r].account /\ run'[r].candidates = run[r].candidates
      /\ run'[r].created = run[r].created /\ run'[r].asked = run[r].asked
      /\ UNCHANGED <<files, hub, lock, budget>>
  BY <1>1 DEF LoadPair, Goto, IInv, Shape, Only, Locals, Pcs
<1>3. Guarded(r)' /\ Progress(r)'
  BY <1>1, <1>2, InsideRun DEF Guarded, Progress, Issuing, Writing, Publishing
<1>4. \A path \in Targets : Holds(r, path) => Holds(r, path)'
  BY <1>1, <1>2 DEF Holds, Writing, Publishing
<1> QED
  BY <1>1, <1>2, <1>3, <1>4, InsideRunStep, HandsKept, Untouched DEF IInv, Inside, Pcs

\* The step that goes on to `pc` and writes one path.
LEMMA GoesOn ==
  ASSUME Shape, NEW r \in Runs, NEW pc \in Pcs, Goto(r, pc)
  PROVE  /\ Only(r) /\ run'[r].pc = pc
         /\ run'[r].had = run[r].had /\ run'[r].candidates = run[r].candidates
         /\ run'[r].created = run[r].created /\ run'[r].asked = run[r].asked
         /\ run'[r].account = run[r].account /\ run'[r].backup = run[r].backup
BY DEF Shape, Goto, Only, Locals

\* The guard is still right after a file of the issuance was written.
LEMMA GuardedAfter ==
  ASSUME NEW r \in Runs, Guarded(r),
         run[r].pc \in Issuing, run'[r].pc \in Writing \cup {"rollback"},
         run'[r].had = run[r].had, run'[r].candidates = run[r].candidates,
         run'[r].created = run[r].created,
         \A path \in run[r].candidates : files'[path] \in {"nobody", r},
         \A path \in run[r].had : files'[path] # "nobody"
  PROVE  Guarded(r)'
BY DEF Guarded, Issuing, Writing

LEMMA AccountKeeps == ASSUME IInv, NEW r \in Runs, WriteAccount(r) PROVE IInv'
<1>1. run[r] \in Locals /\ run[r].pc = "account" /\ run[r].pc \in Inside \ {"service"}
  BY DEF WriteAccount, At, IInv, Shape, Inside, Pcs
<1>2. /\ Only(r) /\ run'[r].pc = "key.tmp"
      /\ run'[r].had = run[r].had /\ run'[r].candidates = run[r].candidates
      /\ run'[r].created = run[r].created /\ run'[r].asked = run[r].asked
      /\ run'[r].account = run[r].account
      /\ UNCHANGED <<hub, lock, budget>>
  BY GoesOn DEF WriteAccount, IInv, Pcs
<1>3. \A path \in Targets : files'[path] =
        IF path = "account" /\ files["account"] = "nobody" THEN r ELSE files[path]
  BY <1>1, InsideRun, PathsAre DEF WriteAccount, Progress
<1>4. files' \in [Paths -> Owners] /\ files'["account"] = run[r].account
  BY <1>1, InsideRun, PathsAre DEF WriteAccount, Locals
<1>5. \A path \in Targets : files[path] # r
  BY <1>1, InsideRun DEF Holds
<1>6. files["account"] = "nobody" => "account" \in run[r].candidates
  BY <1>1, InsideRun, PathsAre DEF Guarded, Issuing
<1>7. ASSUME NEW path \in Targets, files'[path] = r PROVE Holds(r, path)'
  <2>1. path = "account" /\ "account" \in run'[r].candidates
    BY <1>2, <1>3, <1>5, <1>6, <1>7
  <2> QED
    BY <1>2, <2>1 DEF Holds, Writing
<1>8. Guarded(r)'
  <2>1. Guarded(r) /\ run[r].had \subseteq Targets /\ run[r].candidates \subseteq Targets
        /\ r # "nobody" /\ run[r].pc \in Issuing
    BY <1>1, InsideRun, PathsAre DEF Locals, Issuing
  <2>2. /\ \A path \in run[r].candidates : files[path] \in {"nobody", r}
        /\ \A path \in run[r].had : files[path] # "nobody"
    BY <1>1, <2>1 DEF Guarded
  <2>3. run'[r].pc \in Writing
    BY <1>2 DEF Writing
  <2>4. /\ \A path \in run[r].candidates : files'[path] \in {"nobody", r}
        /\ \A path \in run[r].had : files'[path] # "nobody"
    BY <1>3, <2>1, <2>2
  <2> QED
    BY <1>2, <2>1, <2>3, <2>4, GuardedAfter
<1>9. Progress(r)'
  BY <1>1, <1>2, <1>4, InsideRun DEF Progress, Issuing, Writing, Publishing
<1>10. files'["state"] \notin Runs
  BY <1>1, <1>3, InsideRun, PathsAre
<1> QED
  BY <1>1, <1>2, <1>3, <1>4, <1>7, <1>8, <1>9, <1>10, InsideRun, InsideStep, NoWhole, HandsKept
  DEF IInv, Inside

\* What is left when some siblings are taken away.
LEMMA GoneIs ==
  ASSUME Shape, NEW S \in SUBSET Siblings
  PROVE  /\ Gone(S) \in [Paths -> Owners]
         /\ \A path \in Targets : Gone(S)[path] = files[path]
BY PathsAre DEF Shape, Gone, Owners

\* The steps of write_private_pair that put nothing in place.
LEMMA PairStep ==
  ASSUME IInv, NEW r \in Runs, run[r].pc \in Writing \ {"cert"}, NEW pc \in Writing \ {"cert"},
         pc = "load" => run[r].pc = "tidy", pc = "tidy" => run[r].pc = "tidy",
         run[r].pc \in {"tidy", "load"} => pc \in {"tidy", "load"},
         Only(r), run'[r].pc = pc,
         run'[r].had = run[r].had, run'[r].candidates = run[r].candidates,
         run'[r].created = run[r].created, run'[r].asked = run[r].asked,
         run'[r].account = run[r].account, pc = "key" => run'[r].backup = files["key"],
         SameTargets, UNCHANGED <<lock, budget>>
  PROVE  IInv'
<1>1. /\ run[r] \in Locals /\ run[r].pc \in Inside \ {"service"}
      /\ run'[r].pc \in Inside \ {"service"} /\ run[r].pc \in Issuing /\ pc \in Issuing
  BY DEF IInv, Shape, Inside, Pcs, Writing, Issuing
<1>2. Guarded(r) /\ Progress(r) /\ Hands /\ run[r].had \subseteq Targets /\ r # "nobody"
  BY <1>1, InsideRun, HandsKept DEF Locals
<1>3. \A path \in Targets : Holds(r, path) => Holds(r, path)'
  BY DEF Holds, Writing, Publishing
<1>4. Guarded(r)'
  <2>1. /\ run[r].candidates \subseteq Targets
        /\ \A path \in run[r].candidates : files[path] \in {"nobody", r}
        /\ \A path \in run[r].had : files[path] # "nobody"
    BY <1>1, <1>2, PathsAre DEF Guarded, Inside
  <2>2. /\ \A path \in run[r].candidates : files'[path] \in {"nobody", r}
        /\ \A path \in run[r].had : files'[path] # "nobody"
    BY <1>2, <2>1 DEF SameTargets
  <2> QED
    BY <1>1, <1>2, <2>2, GuardedAfter
<1>5. Progress(r)'
  <2>1. /\ Orders(run[r].asked)
        /\ files["account"] = run[r].account /\ run[r].account # "nobody"
        /\ run[r].pc \in {"tidy", "load"} => files["key"] = r /\ files["cert"] = r
    BY <1>1, <1>2 DEF Progress
  <2>2. /\ files'["account"] = files["account"] /\ files'["key"] = files["key"]
        /\ files'["cert"] = files["cert"]
    BY PathsAre DEF SameTargets
  <2> QED
    BY <1>1, <2>1, <2>2 DEF Progress, Issuing, Writing, Publishing
<1> QED
  BY <1>1, <1>2, <1>3, <1>4, <1>5, InsideRunStep

\* The steps that touch siblings only.
LEMMA QuietSteps ==
  ASSUME IInv, NEW r \in Runs,
         \/ Prepare(r, "key.tmp", "cert.tmp") \/ Prepare(r, "cert.tmp", "key.bak")
         \/ BackUp(r) \/ TidyPair(r) \/ PrepareFails(r) \/ UndoFails(r)
         \/ RenameFails(r) /\ ~At(r, "cert")
  PROVE  SameTargets
<1>1. Shape /\ r \in Owners /\ files \in [Paths -> Owners] /\ hub' = hub
  BY RunsAre DEF IInv, Shape, Prepare, BackUp, TidyPair, PrepareFails, UndoFails, RenameFails
<1>2. CASE \/ Prepare(r, "key.tmp", "cert.tmp") \/ Prepare(r, "cert.tmp", "key.bak")
           \/ BackUp(r)
  BY <1>1, <1>2, PathsAre DEF Prepare, BackUp, SameTargets
<1>3. CASE PrepareFails(r)
  <2>1. PICK path \in Siblings : \E left \in {files[path], "nobody", r} :
          files' = [Gone(Earlier(path)) EXCEPT ![path] = left]
    BY <1>3 DEF PrepareFails
  <2>2. PICK left \in Owners : files' = [Gone(Earlier(path)) EXCEPT ![path] = left]
    BY <1>1, <2>1, PathsAre DEF Owners
  <2>3. Earlier(path) \in SUBSET Siblings
    BY PathsAre DEF Earlier
  <2> QED
    BY <1>1, <2>2, <2>3, GoneIs, PathsAre DEF SameTargets
<1>4. CASE TidyPair(r) \/ UndoFails(r) \/ (RenameFails(r) /\ ~At(r, "cert"))
  <2>1. PICK S \in SUBSET Siblings : files' = Gone(S)
    <3>1. /\ {"cert.tmp"} \in SUBSET Siblings /\ Backup(r) \in SUBSET Siblings
          /\ {"key.tmp", "cert.tmp"} \cup Backup(r) \in SUBSET Siblings
      BY PathsAre DEF Backup
    <3> QED
      BY <1>4, <3>1 DEF TidyPair, UndoFails, RenameFails
  <2> QED
    BY <1>1, <2>1, GoneIs DEF SameTargets
<1> QED
  BY <1>2, <1>3, <1>4

LEMMA PairKeeps ==
  ASSUME IInv, NEW r \in Runs,
         \/ Prepare(r, "key.tmp", "cert.tmp") \/ Prepare(r, "cert.tmp", "key.bak")
         \/ BackUp(r) \/ TidyPair(r)
  PROVE  IInv'
<1>1. PICK next \in {"cert.tmp", "key.bak", "key", "load"} :
        /\ run[r].pc = CASE next = "cert.tmp" -> "key.tmp" [] next = "key.bak" -> "cert.tmp"
                        [] next = "key" -> "key.bak" [] next = "load" -> "tidy"
        /\ IF next = "key" THEN BackUp(r) ELSE Goto(r, next)
        /\ UNCHANGED <<lock, budget>>
  BY DEF Prepare, BackUp, TidyPair, At
<1>2. SameTargets /\ Shape /\ next \in Pcs /\ run[r] \in Locals /\ files["key"] \in Owners
  BY QuietSteps, PathsAre DEF IInv, Shape, Pcs
<1>3. /\ Only(r) /\ run'[r].pc = next
      /\ run'[r].had = run[r].had /\ run'[r].candidates = run[r].candidates
      /\ run'[r].created = run[r].created /\ run'[r].asked = run[r].asked
      /\ run'[r].account = run[r].account
      /\ next = "key" => run'[r].backup = files["key"]
  <2>1. CASE next = "key"
    BY <1>1, <1>2, <2>1 DEF BackUp, Shape, Only, Locals, Pcs
  <2>2. CASE next # "key"
    BY <1>1, <1>2, <2>2, GoesOn
  <2> QED
    BY <2>1, <2>2
<1> QED
  BY <1>1, <1>2, <1>3, PairStep DEF Writing

LEMMA KeyKeeps == ASSUME IInv, NEW r \in Runs, WriteKey(r) PROVE IInv'
<1>1. run[r] \in Locals /\ run[r].pc = "key" /\ run[r].pc \in Inside \ {"service"}
  BY DEF WriteKey, At, IInv, Shape, Inside, Pcs
<1>2. /\ \A path \in Targets : files'[path] = IF path = "key" THEN r ELSE files[path]
      /\ files' \in [Paths -> Owners]
      /\ UNCHANGED <<hub, lock, budget>>
  <2>1. /\ Gone({"key.tmp"}) \in [Paths -> Owners] /\ r \in Owners
        /\ \A path \in Targets : Gone({"key.tmp"})[path] = files[path]
    BY GoneIs, RunsAre, PathsAre DEF IInv
  <2> QED
    BY <2>1, PathsAre DEF WriteKey
<1>3. /\ Only(r) /\ run'[r].pc = "cert" /\ run'[r].backup = run[r].backup
      /\ run'[r].had = run[r].had /\ run'[r].candidates = run[r].candidates
      /\ run'[r].created = run[r].created /\ run'[r].asked = run[r].asked
      /\ run'[r].account = run[r].account
  BY GoesOn DEF WriteKey, IInv, Pcs
<1>4. /\ "key" \in run[r].had \/ "key" \in run[r].candidates
      /\ run[r].backup = files["key"]
  BY <1>1, InsideRun, PathsAre DEF Guarded, Progress, Issuing
<1>5. ASSUME NEW path \in Targets, files'[path] = r PROVE Holds(r, path)'
  <2>1. CASE path = "key"
    BY <1>3, <1>4, <2>1 DEF Holds, Writing
  <2>2. CASE path # "key"
    <3>1. Holds(r, path)
      BY <1>1, <1>2, <1>5, <2>2, InsideRun
    <3> QED
      BY <1>1, <1>3, <3>1 DEF Holds, Writing
  <2> QED
    BY <2>1, <2>2
<1>6. Guarded(r)'
  <2>1. Guarded(r) /\ run[r].had \subseteq Targets /\ run[r].candidates \subseteq Targets
        /\ r # "nobody" /\ run[r].pc \in Issuing /\ run'[r].pc \in Writing
    BY <1>1, <1>3, InsideRun, PathsAre DEF Locals, Issuing, Writing
  <2>2. /\ \A path \in run[r].candidates : files[path] \in {"nobody", r}
        /\ \A path \in run[r].had : files[path] # "nobody"
    BY <1>1, <2>1 DEF Guarded
  <2>3. /\ \A path \in run[r].candidates : files'[path] \in {"nobody", r}
        /\ \A path \in run[r].had : files'[path] # "nobody"
    BY <1>2, <2>1, <2>2
  <2> QED
    BY <1>3, <2>1, <2>3, GuardedAfter
<1>7. Progress(r)'
  <2>1. ASSUME NEW q \in Runs, files["key"] = q PROVE Holds(q, "key")'
    <3>1. Holds(q, "key")
      BY <2>1, PathsAre DEF IInv, Owned
    <3>2. CASE q = r
      BY <1>2, <1>5, <3>2, PathsAre
    <3>3. CASE q # r
      BY <1>3, <3>1, <3>3 DEF Holds, Only
    <3> QED
      BY <3>2, <3>3
  <2>2. IF "key" \in run[r].had THEN files["key"] # "nobody" ELSE files["key"] \in {"nobody", r}
    BY <1>1, <1>4, InsideRun DEF Guarded
  <2>3. Orders(run[r].asked) /\ files["account"] = run[r].account /\ run[r].account # "nobody"
    BY <1>1, InsideRun DEF Progress, Issuing, Writing
  <2>4. run'[r].backup \in Runs => Holds(run[r].backup, "key")'
    BY <1>3, <1>4, <2>1 DEF Holds
  <2> QED
    BY <1>2, <1>3, <1>4, <2>2, <2>3, <2>4, PathsAre DEF Progress, Issuing, Writing, Publishing
<1>8. files'["state"] \notin Runs
  BY <1>1, <1>2, InsideRun, PathsAre
<1> QED
  BY <1>1, <1>2, <1>3, <1>5, <1>6, <1>7, <1>8, InsideRun, InsideStep, NoWhole, HandsKept
  DEF IInv, Inside

LEMMA CertKeeps == ASSUME IInv, NEW r \in Runs, WriteCert(r) PROVE IInv'
<1>1. run[r] \in Locals /\ run[r].pc = "cert" /\ run[r].pc \in Inside \ {"service"}
  BY DEF WriteCert, At, IInv, Shape, Inside, Pcs
<1>2. /\ \A path \in Targets : files'[path] = IF path = "cert" THEN r ELSE files[path]
      /\ files' \in [Paths -> Owners]
      /\ UNCHANGED <<hub, lock, budget>>
  <2>1. /\ Gone({"cert.tmp"}) \in [Paths -> Owners] /\ r \in Owners
        /\ \A path \in Targets : Gone({"cert.tmp"})[path] = files[path]
    BY GoneIs, RunsAre, PathsAre DEF IInv
  <2> QED
    BY <2>1, PathsAre DEF WriteCert
<1>3. /\ Only(r) /\ run'[r].pc = "tidy"
      /\ run'[r].had = run[r].had /\ run'[r].candidates = run[r].candidates
      /\ run'[r].created = run[r].created /\ run'[r].asked = run[r].asked
      /\ run'[r].account = run[r].account
  BY GoesOn DEF WriteCert, IInv, Pcs
<1>4. "cert" \in run[r].had \/ "cert" \in run[r].candidates
  BY <1>1, InsideRun, PathsAre DEF Guarded, Issuing
<1>5. ASSUME NEW path \in Targets, files'[path] = r PROVE Holds(r, path)'
  <2>1. CASE path = "cert"
    BY <1>3, <1>4, <2>1 DEF Holds, Writing
  <2>2. CASE path # "cert"
    <3>1. Holds(r, path)
      BY <1>1, <1>2, <1>5, <2>2, InsideRun
    <3> QED
      BY <1>1, <1>3, <3>1 DEF Holds, Writing
  <2> QED
    BY <2>1, <2>2
<1>6. Guarded(r)'
  <2>1. Guarded(r) /\ run[r].had \subseteq Targets /\ run[r].candidates \subseteq Targets
        /\ r # "nobody" /\ run[r].pc \in Issuing /\ run'[r].pc \in Writing
    BY <1>1, <1>3, InsideRun, PathsAre DEF Locals, Issuing, Writing
  <2>2. /\ \A path \in run[r].candidates : files[path] \in {"nobody", r}
        /\ \A path \in run[r].had : files[path] # "nobody"
    BY <1>1, <2>1 DEF Guarded
  <2>3. /\ \A path \in run[r].candidates : files'[path] \in {"nobody", r}
        /\ \A path \in run[r].had : files'[path] # "nobody"
    BY <1>2, <2>1, <2>2
  <2> QED
    BY <1>3, <2>1, <2>3, GuardedAfter
<1>7. Progress(r)'
  <2>1. /\ Orders(run[r].asked) /\ files["account"] = run[r].account
        /\ run[r].account # "nobody" /\ files["key"] = r
    BY <1>1, InsideRun DEF Progress, Issuing, Writing
  <2> QED
    BY <1>2, <1>3, <2>1, PathsAre DEF Progress, Issuing, Writing, Publishing
<1>8. files'["state"] \notin Runs
  BY <1>1, <1>2, InsideRun, PathsAre
<1> QED
  BY <1>1, <1>2, <1>3, <1>5, <1>6, <1>7, <1>8, InsideRun, InsideStep, NoWhole, HandsKept
  DEF IInv, Inside

\* The failures that leave every target as it was.
LEMMA HarmlessFails ==
  ASSUME IInv, NEW r \in Runs,
         \/ IssuanceFails(r) \/ PrepareFails(r) \/ UndoFails(r)
         \/ RenameFails(r) /\ ~At(r, "cert")
  PROVE  IInv'
<1>1. PICK outcome \in {"failed", "torn"} : Unwinds(r, outcome) /\ Spend("faults")
  BY DEF IssuanceFails, PrepareFails, UndoFails, RenameFails
<1>2. outcome \in Outcomes /\ Hands
  BY <1>1, HandsKept DEF Outcomes, Failures, IInv
<1>3. run[r].pc \in Issuing
  BY PathsAre DEF IssuanceFails, PrepareFails, UndoFails, RenameFails, At, Issuing
<1>4. SameTargets
  BY QuietSteps, Untouched DEF IssuanceFails, IInv
<1> QED
  BY <1>1, <1>2, <1>3, <1>4, UnwindKeeps

\* The second rename fails, and the first is taken back.
LEMMA RenameFailsKeeps ==
  ASSUME IInv, NEW r \in Runs, RenameFails(r), At(r, "cert")
  PROVE  IInv'
<1>1. /\ run[r] \in Locals /\ run[r].pc = "cert" /\ run[r].pc \in Inside \ {"service"}
      /\ run[r].pc \in Issuing
  BY DEF At, IInv, Shape, Issuing, Inside, Pcs
<1>2. Unwinds(r, "failed") /\ "failed" \in Outcomes /\ hub' = hub /\ Hands
  BY HandsKept DEF RenameFails, Outcomes, Failures, IInv
<1>3. /\ \A path \in Targets : files'[path] = IF path = "key" THEN run[r].backup ELSE files[path]
      /\ files' \in [Paths -> Owners]
  <2> DEFINE S == {"cert.tmp"} \cup Backup(r)
  <2>1. S \in SUBSET Siblings
    BY PathsAre DEF Backup
  <2>2. files' = [Gone(S) EXCEPT !["key"] = run[r].backup] /\ run[r].backup \in Owners
    BY <1>1 DEF RenameFails, At, Locals
  <2> HIDE DEF S
  <2>3. Gone(S) \in [Paths -> Owners] /\ \A path \in Targets : Gone(S)[path] = files[path]
    BY <2>1, GoneIs DEF IInv
  <2> QED
    BY <2>2, <2>3, PathsAre
<1>4. /\ Only(r) /\ lock' = lock
      /\ run'[r].pc = "rollback"
      /\ run'[r].had = run[r].had /\ run'[r].candidates = run[r].candidates
      /\ run'[r].created = run[r].created
  BY <1>2, UnwindIs DEF IInv
<1>5. \A path \in Targets : Holds(r, path) => Holds(r, path)'
  BY <1>1, <1>4 DEF Holds, Writing, Publishing
<1>6. ASSUME NEW path \in Targets, files'[path] = r PROVE Holds(r, path)'
  <2>1. CASE path = "key"
    <3>1. run[r].backup = r /\ Holds(r, "key")
      BY <1>1, <1>3, <1>6, <2>1, InsideRun DEF Progress
    <3> QED
      BY <1>5, <2>1, <3>1, PathsAre
  <2>2. CASE path # "key"
    BY <1>1, <1>3, <1>5, <1>6, <2>2, InsideRun
  <2> QED
    BY <2>1, <2>2
<1>7. Guarded(r)'
  <2>1. Guarded(r) /\ run[r].had \subseteq Targets /\ run[r].candidates \subseteq Targets
    BY <1>1, InsideRun, PathsAre DEF Locals
  <2>2. /\ \A path \in run[r].candidates : files[path] \in {"nobody", r} /\ path \notin run[r].had
        /\ \A path \in run[r].had : files[path] # "nobody"
    BY <1>1, <2>1 DEF Guarded
  <2>3. IF "key" \in run[r].had THEN run[r].backup # "nobody" ELSE run[r].backup \in {"nobody", r}
    BY <1>1, InsideRun DEF Progress
  <2>4. \A path \in run[r].candidates : files'[path] \in {"nobody", r}
    BY <1>3, <2>1, <2>2, <2>3
  <2>5. \A path \in run[r].had : files'[path] # "nobody"
    BY <1>3, <2>1, <2>2, <2>3
  <2> QED
    BY <1>1, <1>4, <2>1, <2>4, <2>5, GuardedAfter
<1>8. Progress(r)'
  BY <1>4 DEF Progress, Issuing, Writing, Publishing
<1>9. files'["state"] \notin Runs
  BY <1>1, <1>3, InsideRun, PathsAre
<1>10. \A path \in Targets, q \in Runs \ {r} : files'[path] = q =>
        files[path] = q \/ (run[r].pc = "cert" /\ path = "key" /\ q = run[r].backup)
  BY <1>1, <1>3
<1> QED
  BY <1>1, <1>2, <1>3, <1>4, <1>6, <1>7, <1>8, <1>9, <1>10, InsideRun, InsideStep, NoWhole

LEMMA WrongAccountKeeps == ASSUME IInv, NEW r \in Runs, WrongAccount(r) PROVE IInv'
BY UnwindKeeps, HandsKept, Untouched DEF WrongAccount, At, Issuing, Outcomes, Failures, IInv

LEMMA PublishFailsKeeps == ASSUME IInv, NEW r \in Runs, PublishFails(r) PROVE IInv'
<1>1. run[r].pc \in Publishing /\ UNCHANGED <<files, hub>>
  BY PublishedIs DEF PublishFails, At, Publishing
<1>2. PICK outcome \in {"exists", "failed"} :
        Unwinds(r, outcome) /\ (budget' = budget \/ Spend("faults"))
  BY DEF PublishFails
<1> QED
  BY <1>1, <1>2, UnwindKeeps, HandsKept, Untouched DEF Outcomes, Failures, IInv

\* What create_new_private leaves.
LEMMA CreateIs ==
  ASSUME Shape, NEW r \in Runs, NEW path \in {"conf", "token", "state"}, NEW next \in Pcs,
         Create(r, path, next)
  PROVE  /\ Only(r) /\ run[r].pc = path /\ run'[r].pc = next
         /\ files[path] = "nobody" /\ files' \in [Paths -> Owners]
         /\ \A p \in Targets : files'[p] = IF p = path THEN r ELSE files[p]
         /\ run'[r].had = run[r].had /\ run'[r].candidates = run[r].candidates
         /\ run'[r].created = run[r].created \cup {path}
         /\ run'[r].asked = run[r].asked /\ run'[r].account = run[r].account
<1>1. run[r] \in Locals /\ path \in Targets /\ r \in Owners
  BY PathsAre, RunsAre DEF Shape
<1>2. run' = [run EXCEPT ![r] = [run[r] EXCEPT !.pc = next, !.created = run[r].created \cup {path}]]
  BY <1>1 DEF Create, Shape, Locals
<1>3. [run[r] EXCEPT !.pc = next, !.created = run[r].created \cup {path}] \in Locals
  BY <1>1 DEF Locals
<1> QED
  BY <1>1, <1>2, <1>3, PathsAre DEF Create, At, There, Shape, Only, Locals

\* The guard is still right after publish has created a file.
LEMMA CreatedGuarded ==
  ASSUME Shape, NEW r \in Runs, Guarded(r), NEW path \in {"conf", "token"},
         NEW next \in {"token", "state"},
         Create(r, path, next)
  PROVE  Guarded(r)'
<1>1. run[r] \in Locals /\ path \in Targets /\ next \in Pcs
  BY PathsAre DEF Shape, Pcs
<1>2. /\ run[r].pc = path /\ run'[r].pc = next /\ files[path] = "nobody"
      /\ \A p \in Targets : files'[p] = IF p = path THEN r ELSE files[p]
      /\ run'[r].had = run[r].had /\ run'[r].candidates = run[r].candidates
      /\ run'[r].created = run[r].created \cup {path}
  BY <1>1, CreateIs
<1>3. /\ run[r].candidates \subseteq Credentials \ run[r].had
      /\ run[r].created \subseteq {"conf", "token"} \ run[r].had
      /\ \A p \in run[r].candidates : files[p] \in {"nobody", r}
      /\ \A p \in run[r].created : files[p] = r
      /\ \A p \in run[r].had : files[p] # "nobody"
      /\ run[r].had \subseteq Targets /\ r # "nobody" /\ path \notin Credentials
      /\ run[r].candidates \subseteq Targets /\ run[r].created \subseteq Targets
  BY <1>1, <1>2, PathsAre, RunsAre DEF Guarded, Locals
<1>4. path \notin run[r].had /\ path \notin run[r].candidates
  BY <1>2, <1>3
<1>5. /\ \A p \in run[r].candidates : files'[p] \in {"nobody", r}
      /\ \A p \in run[r].created \cup {path} : files'[p] = r
      /\ \A p \in run[r].had : files'[p] # "nobody"
  BY <1>1, <1>2, <1>3, <1>4
<1> QED
  BY <1>2, <1>3, <1>4, <1>5 DEF Guarded, Issuing

LEMMA CreateKeeps ==
  ASSUME IInv, NEW r \in Runs, NEW path \in {"conf", "token"}, NEW next \in {"token", "state"},
         Create(r, path, next), UNCHANGED <<hub, lock, budget>>,
         path = "conf" => (KeepsToken(r) => next = "token"),
         path = "token" => next = "state"
  PROVE  IInv'
<1>0. path \in Targets /\ next \in Pcs /\ Shape
  BY PathsAre DEF Pcs, IInv
<1>1. /\ Only(r) /\ run[r].pc = path /\ run'[r].pc = next
      /\ files[path] = "nobody" /\ files' \in [Paths -> Owners]
      /\ \A p \in Targets : files'[p] = IF p = path THEN r ELSE files[p]
      /\ run'[r].had = run[r].had /\ run'[r].candidates = run[r].candidates
      /\ run'[r].created = run[r].created \cup {path}
      /\ run'[r].asked = run[r].asked /\ run'[r].account = run[r].account
  BY <1>0, CreateIs
<1>2. run[r].pc \in Inside \ {"service"} /\ run[r].pc \in Publishing
  BY <1>1 DEF Inside, Pcs, Publishing
<1>3. lock = {r} /\ files["state"] \notin Runs /\ Guarded(r) /\ Progress(r)
  BY <1>2, InsideRun
<1>4. ASSUME NEW p \in Targets, files'[p] = r PROVE Holds(r, p)'
  <2>1. CASE p = path
    BY <1>1, <2>1 DEF Holds
  <2>2. CASE p # path
    <3>1. Holds(r, p)
      BY <1>1, <1>2, <1>4, <2>2, InsideRun
    <3> QED
      BY <1>1, <1>2, <3>1 DEF Holds
  <2> QED
    BY <2>1, <2>2
<1>5. Guarded(r)'
  BY <1>0, <1>3, CreatedGuarded
<1>6. Progress(r)'
  <2>1. /\ Orders(run[r].asked) =>
             /\ files["account"] = run[r].account /\ run[r].account # "nobody"
             /\ files["key"] = r /\ files["cert"] = r
        /\ path = "token" => files["conf"] = r
    BY <1>1, <1>2, <1>3 DEF Progress, Publishing
  <2>2. /\ files'["account"] = files["account"] /\ files'["key"] = files["key"]
        /\ files'["cert"] = files["cert"] /\ files'[path] = r
        /\ path = "token" => files'["conf"] = files["conf"]
    BY <1>0, <1>1, PathsAre
  <2>3. files'["conf"] = r
    BY <2>1, <2>2
  <2>4. next = "state" /\ KeepsToken(r)' => files'["token"] = r
    BY <1>1, <2>2 DEF KeepsToken
  <2> QED
    BY <1>1, <2>1, <2>2, <2>3, <2>4 DEF Progress, Issuing, Writing, Publishing
<1>7. files'["state"] \notin Runs
  BY <1>1, <1>3, PathsAre
<1> QED
  BY <1>1, <1>2, <1>3, <1>4, <1>5, <1>6, <1>7, InsideStep, NoWhole, HandsKept DEF IInv

LEMMA ConfTokenKeep ==
  ASSUME IInv, NEW r \in Runs, WriteConf(r) \/ WriteToken(r) PROVE IInv'
<1>1. CASE WriteConf(r)
  BY <1>1, CreateKeeps DEF WriteConf
<1>2. CASE WriteToken(r)
  BY <1>2, CreateKeeps DEF WriteToken
<1> QED
  BY <1>1, <1>2

LEMMA StateKeeps == ASSUME IInv, NEW r \in Runs, WriteState(r) PROVE IInv'
<1>0. Shape /\ run[r] \in Locals /\ "service" \in Pcs
  BY DEF IInv, Shape, Pcs
<1>1. /\ Only(r) /\ run[r].pc = "state" /\ run'[r].pc = "service"
      /\ files' \in [Paths -> Owners] /\ UNCHANGED <<lock, budget>>
      /\ \A p \in Targets : files'[p] = IF p = "state" THEN r ELSE files[p]
  BY <1>0, CreateIs DEF WriteState
<1>2. run[r].pc \in Inside \ {"service"}
  BY <1>1 DEF Inside, Pcs
<1>3. lock = {r} /\ Progress(r)
  BY <1>2, InsideRun
<1>4. \A p \in Targets : Holds(r, p)'
  BY <1>1 DEF Holds, Writing, Publishing
<1>5. Guarded(r)' /\ Progress(r)'
  BY <1>1 DEF Guarded, Progress, Issuing, Writing, Publishing
<1>6. Whole'
  <2>1. /\ files["conf"] = r
        /\ KeepsToken(r) => files["token"] = r
        /\ Orders(run[r].asked) =>
             /\ files["account"] = run[r].account /\ run[r].account # "nobody"
             /\ files["key"] = r /\ files["cert"] = r
    BY <1>1, <1>3 DEF Progress, Publishing
  <2>2. /\ files'["conf"] = files["conf"] /\ files'["token"] = files["token"]
        /\ files'["account"] = files["account"] /\ files'["key"] = files["key"]
        /\ files'["cert"] = files["cert"] /\ files'["state"] = r
    BY <1>1, PathsAre
  <2>3. run[r].asked.tls = "dns01" => run[r].asked.token = TRUE
    BY <1>0 DEF Locals, Asked
  <2>4. run[r].asked.token \in BOOLEAN
    BY <1>0 DEF Locals, Asked
  <2> DEFINE says == [tls |-> run[r].asked.tls, account |-> run[r].account,
                      zone |-> run[r].asked.token, record |-> run[r].pointed,
                      token |-> KeepsToken(r)]
  <2>5. /\ hub' = {says} /\ says.tls = run[r].asked.tls
        /\ says.account = run[r].account /\ says.zone = run[r].asked.token
        /\ says.token = KeepsToken(r)
    BY DEF WriteState
  <2> HIDE DEF says
  <2>6. (says.tls = "dns01") <=> (says.zone /\ says.token)
    BY <2>3, <2>4, <2>5, Zenon DEF KeepsToken
  <2>7. says.token => files'["token"] = r
    BY <2>1, <2>2, <2>5
  <2>8. says.tls # "manual" =>
           /\ files'["account"] = says.account /\ says.account # "nobody"
           /\ files'["key"] = r /\ files'["cert"] = r
    BY <2>1, <2>2, <2>5 DEF Orders
  <2> QED
    BY <2>1, <2>2, <2>5, <2>6, <2>7, <2>8 DEF Whole, HubWhole
<1>7. \A p \in Targets, q \in Runs \ {r} : files'[p] = q => files[p] = q
  BY <1>1
<1> QED
  BY <1>1, <1>3, <1>4, <1>5, <1>6, <1>7, InsideStep, HandsKept DEF IInv

\* Unwinding, what publish created first.
LEMMA RollbackKeeps == ASSUME IInv, NEW r \in Runs, Rollback(r) PROVE IInv'
<1>1. run[r] \in Locals /\ run[r].pc = "rollback" /\ run[r].pc \in Inside \ {"service"}
  BY DEF Rollback, At, IInv, Shape, Inside, Pcs
<1>2. lock = {r} /\ files["state"] \notin Runs /\ Guarded(r) /\ Shape
  BY <1>1, InsideRun
<1>3. /\ run[r].candidates \subseteq Credentials \ run[r].had
      /\ run[r].created \subseteq {"conf", "token"} \ run[r].had
      /\ \A p \in run[r].candidates : files[p] \in {"nobody", r}
      /\ \A p \in run[r].created : files[p] = r
      /\ \A p \in run[r].had : files[p] # "nobody"
      /\ run[r].had \subseteq Targets
  BY <1>1, <1>2 DEF Guarded, Locals
<1>4. PICK newest \in run[r].created : newest = Newest(r)
  BY <1>3, NewestIsCreated DEF Rollback
<1>5. /\ \A p \in Targets : files'[p] = IF p = newest THEN "nobody" ELSE files[p]
      /\ files' \in [Paths -> Owners] /\ UNCHANGED <<lock, budget>>
      /\ newest \in {"conf", "token"} /\ newest \in Targets
  BY <1>2, <1>3, <1>4, PathsAre DEF Rollback, Shape, Owners
<1>6. /\ Only(r) /\ run'[r].pc = "rollback"
      /\ run'[r].had = run[r].had /\ run'[r].candidates = run[r].candidates
      /\ run'[r].created = run[r].created \ {newest}
  <2>1. run' = [run EXCEPT ![r] = [run[r] EXCEPT !.created = run[r].created \ {newest}]]
    BY <1>1, <1>4 DEF Rollback, IInv, Shape, Locals
  <2>2. [run[r] EXCEPT !.created = run[r].created \ {newest}] \in Locals
    BY <1>1 DEF Locals
  <2> QED
    BY <1>1, <1>2, <2>1, <2>2 DEF Shape, Only, Locals
<1>7. ASSUME NEW p \in Targets, files'[p] = r PROVE Holds(r, p)'
  <2>1. p # newest /\ files[p] = r
    BY <1>5, <1>7, RunsAre
  <2>2. Holds(r, p)
    BY <1>1, <2>1, InsideRun
  <2> QED
    BY <1>1, <1>6, <2>1, <2>2 DEF Holds
<1>8. Guarded(r)'
  <2>1. /\ \A p \in run[r].candidates : files'[p] \in {"nobody", r}
        /\ \A p \in run[r].created \ {newest} : files'[p] = r
        /\ \A p \in run[r].had : files'[p] # "nobody"
    BY <1>3, <1>5, PathsAre
  <2> QED
    BY <1>3, <1>6, <2>1 DEF Guarded, Issuing
<1>9. Progress(r)'
  BY <1>6 DEF Progress, Issuing, Writing, Publishing
<1>10. files'["state"] \notin Runs
  BY <1>2, <1>5, PathsAre
<1>11. \A p \in Targets, q \in Runs \ {r} : files'[p] = q => files[p] = q
  BY <1>5, RunsAre
<1> QED
  BY <1>2, <1>5, <1>6, <1>7, <1>8, <1>9, <1>10, <1>11, InsideStep, NoWhole, HandsKept
  DEF IInv

\* The guard, then the run is over.
LEMMA SweepKeeps == ASSUME IInv, NEW r \in Runs, Sweep(r) PROVE IInv'
<1>1. run[r] \in Locals /\ run[r].pc = "rollback" /\ run[r].pc \in Inside \ {"service"}
  BY DEF Sweep, At, IInv, Shape, Inside, Pcs
<1>2. lock = {r} /\ files["state"] \notin Runs /\ Guarded(r) /\ Shape
  BY <1>1, InsideRun
<1>3. /\ run[r].candidates \subseteq Credentials \ run[r].had
      /\ run[r].created = {}
      /\ \A p \in run[r].candidates : files[p] \in {"nobody", r}
      /\ \A p \in run[r].had : files[p] # "nobody"
      /\ run[r].had \subseteq Targets /\ Hands
  BY <1>1, <1>2, HandsKept DEF Sweep, Guarded, Locals
<1>4. CASE run[r].candidates = {}
  <2>1. Ends(r, run[r].outcome) /\ UNCHANGED <<files, hub>> /\ run[r].outcome \in Outcomes
    BY <1>1, <1>4 DEF Sweep, Locals
  <2>2. \A p \in Targets : Holds(r, p) => p \in {"key", "cert"} \cap run[r].had
    BY <1>1, <1>3, <1>4 DEF Holds
  <2> QED
    BY <1>3, <2>1, <2>2, EndingKeeps
<1>5. CASE run[r].candidates # {}
  <2>1. PICK path \in run[r].candidates :
          /\ files' = [files EXCEPT ![path] = "nobody"]
          /\ run' = [run EXCEPT ![r].candidates = @ \ {path}]
          /\ UNCHANGED <<lock, hub, budget>>
    BY <1>5 DEF Sweep
  <2>2. /\ \A p \in Targets : files'[p] = IF p = path THEN "nobody" ELSE files[p]
        /\ files' \in [Paths -> Owners] /\ path \in Credentials /\ path \in Targets
    BY <1>2, <1>3, <2>1, PathsAre DEF Shape, Owners
  <2>3. /\ Only(r) /\ run'[r].pc = "rollback"
        /\ run'[r].had = run[r].had /\ run'[r].created = run[r].created
        /\ run'[r].candidates = run[r].candidates \ {path}
    <3>1. run' = [run EXCEPT ![r] = [run[r] EXCEPT !.candidates = run[r].candidates \ {path}]]
      BY <1>1, <2>1 DEF IInv, Shape, Locals
    <3>2. [run[r] EXCEPT !.candidates = run[r].candidates \ {path}] \in Locals
      BY <1>1 DEF Locals
    <3> QED
      BY <1>1, <1>2, <3>1, <3>2 DEF Shape, Only, Locals
  <2>4. ASSUME NEW p \in Targets, files'[p] = r PROVE Holds(r, p)'
    <3>1. p # path /\ files[p] = r
      BY <2>2, <2>4, RunsAre
    <3>2. Holds(r, p)
      BY <1>1, <3>1, InsideRun
    <3> QED
      BY <1>1, <2>3, <3>1, <3>2 DEF Holds
  <2>5. Guarded(r)'
    <3>1. /\ \A p \in run[r].candidates \ {path} : files'[p] \in {"nobody", r}
          /\ \A p \in run[r].had : files'[p] # "nobody"
      BY <1>3, <2>2, PathsAre
    <3> QED
      BY <1>3, <2>3, <3>1 DEF Guarded, Issuing
  <2>6. Progress(r)'
    BY <2>3 DEF Progress, Issuing, Writing, Publishing
  <2>7. files'["state"] \notin Runs
    BY <1>2, <2>2, PathsAre
  <2>8. \A p \in Targets, q \in Runs \ {r} : files'[p] = q => files[p] = q
    BY <2>2, RunsAre
  <2> QED
    BY <1>2, <1>3, <2>1, <2>2, <2>3, <2>4, <2>5, <2>6, <2>7, <2>8, InsideStep, NoWhole
<1> QED
  BY <1>4, <1>5

\* Nobody is inside while the lock is free.
LEMMA Outside ==
  ASSUME IInv, lock = {}, NEW r \in Runs
  PROVE  run[r].pc \in {"idle", "lock", "end"}
BY DEF IInv, Shape, Locked, Inside, Locals, Pcs

\* What people do keeps the runs' locals.
LEMMA HandShape ==
  ASSUME IInv, Spend("hands"), UNCHANGED <<run, lock>>, files' \in [Paths -> Owners]
  PROVE  Shape'
BY DEF IInv, Shape, Spend

LEMMA PlaceKeeps == ASSUME IInv, NEW path \in Targets, Place(path) PROVE IInv'
<1>1. /\ \A p \in Targets : files'[p] = IF p = path THEN "others" ELSE files[p]
      /\ files' \in [Paths -> Owners] /\ files[path] = "nobody"
      /\ UNCHANGED <<hub, lock, run>>
  BY PathsAre DEF Place, There, IInv, Shape, Owners
<1>2. Shape'
  BY <1>1, HandShape DEF Place
<1>3. \A p \in Targets, q \in Runs : files'[p] = q => files[p] = q
  BY <1>1, RunsAre
<1>4. Locked' /\ NoHub' /\ Owned'
  BY <1>1, <1>3, PathsAre DEF IInv, Locked, NoHub, Owned, Holds
<1>5. ASSUME NEW r \in Runs PROVE Guarded(r)' /\ Progress(r)'
  <2>1. Guarded(r) /\ Progress(r) /\ run[r] \in Locals /\ r # "nobody"
    BY RunsAre DEF IInv, Shape
  <2>2. CASE path \in Credentials
    <3>1. run[r].pc \in {"idle", "lock", "end"}
      BY <2>2, Outside DEF Place
    <3> QED
      BY <1>1, <2>1, <3>1 DEF Guarded, Progress, Issuing, Writing, Publishing
  <2>3. CASE path \notin Credentials
    <3>1. \A p \in Targets : p \in Credentials \/ files[p] # "nobody" => files'[p] = files[p]
      BY <1>1, <2>3
    <3>2. run[r].pc \notin {"service", "end"} =>
            /\ run[r].candidates \subseteq Credentials
            /\ \A p \in run[r].created : files[p] = r /\ p \in Targets
            /\ \A p \in run[r].had : files[p] # "nobody" /\ p \in Targets
      BY <2>1, PathsAre DEF Guarded, Locals
    <3>3. Guarded(r)'
      BY <1>1, <2>1, <3>1, <3>2, PathsAre DEF Guarded
    <3>4. /\ files'["account"] = files["account"] /\ files'["key"] = files["key"]
          /\ files'["cert"] = files["cert"]
          /\ \A p \in {"conf", "token"} : files[p] = r => files'[p] = r
      BY <2>1, <3>1, PathsAre
    <3>5. Progress(r)'
      BY <1>1, <2>1, <3>4 DEF Progress, KeepsToken, Holds
    <3> QED
      BY <3>3, <3>5
  <2> QED
    BY <2>2, <2>3
<1>6. Whole'
  <2>1. \A p \in Targets : files[p] # "nobody" => files'[p] = files[p]
    BY <1>1
  <2>2. Whole
    BY DEF IInv
  <2> QED
    BY <1>1, <1>3, <2>1, <2>2, PathsAre, RunsAre DEF Whole, HubWhole
<1> QED
  BY <1>2, <1>4, <1>5, <1>6 DEF IInv

LEMMA MoveAsideKeeps == ASSUME IInv, NEW path \in Targets, MoveAside(path) PROVE IInv'
<1>1. /\ \A p \in Targets : files'[p] = IF p = path THEN "nobody" ELSE files[p]
      /\ files' \in [Paths -> Owners] /\ UNCHANGED <<lock, run>> /\ lock = {}
  BY PathsAre DEF MoveAside, IInv, Shape, Owners
<1>2. Shape'
  BY <1>1, HandShape DEF MoveAside
<1>3. files'["state"] \notin Runs
  BY <1>1, PathsAre, RunsAre DEF MoveAside, There
<1>4. Locked' /\ NoHub' /\ Owned'
  BY <1>1, <1>3, RunsAre DEF IInv, Locked, NoHub, Owned, Holds
<1>5. ASSUME NEW r \in Runs PROVE Guarded(r)' /\ Progress(r)'
  <2>1. Guarded(r) /\ run[r].pc \in {"idle", "lock", "end"}
    BY <1>1, Outside DEF IInv
  <2>2. run[r].pc # "end" =>
          run[r].candidates = {} /\ run[r].had = {} /\ run[r].created = {}
    BY <2>1 DEF Guarded
  <2> QED
    BY <1>1, <2>1, <2>2 DEF Guarded, Progress, Issuing, Writing, Publishing
<1> QED
  BY <1>2, <1>3, <1>4, <1>5, NoWhole DEF IInv

LEMMA StepKeeps == IInv /\ [Next]_vars => IInv'
<1> SUFFICES ASSUME IInv, [Next]_vars PROVE IInv'
  OBVIOUS
<1>1. CASE UNCHANGED vars
  <2>1. UNCHANGED <<files, hub, lock, run, budget>>
    BY <1>1 DEF vars
  <2> QED
    <3>1. Shape' /\ Locked' /\ NoHub'
      BY <2>1 DEF IInv, Shape, Locked, NoHub
    <3>2. \A r \in Runs, path \in Targets : Holds(r, path)' <=> Holds(r, path)
      BY <2>1 DEF Holds
    <3>3. Owned'
      BY <2>1, <3>2 DEF IInv, Owned
    <3>4. ASSUME NEW r \in Runs PROVE Guarded(r)'
      BY <2>1 DEF IInv, Guarded
    <3>5. ASSUME NEW r \in Runs PROVE Progress(r)'
      <4>1. Progress(r)
        BY DEF IInv
      <4>2. run'[r] = run[r] /\ files' = files
        BY <2>1
      <4>3. KeepsToken(r)' <=> KeepsToken(r)
        BY <4>2 DEF KeepsToken
      <4>4. \A q \in Runs : Holds(q, "key")' <=> Holds(q, "key")
        BY <3>2, PathsAre
      <4> QED
        BY <4>1, <4>2, <4>3, <4>4 DEF Progress
    <3>6. Whole'
      BY <2>1 DEF IInv, Whole, HubWhole
    <3> QED
      BY <3>1, <3>3, <3>4, <3>5, <3>6 DEF IInv
<1>2. ASSUME NEW r \in Runs, Type(r) \/ Kill(r) PROVE IInv'
  BY <1>2, TypeKeeps, EndsKeep
<1>3. ASSUME NEW r \in Runs, Steps(r) PROVE IInv'
  BY <1>3, EndsKeep, LockKeeps, PointKeeps, WatchKeeps, OrderKeeps, WrongAccountKeeps,
     AccountKeeps, PairKeeps, KeyKeeps, CertKeeps, LoadKeeps, HarmlessFails,
     RenameFailsKeeps, ConfTokenKeep,
     StateKeeps, PublishFailsKeeps, RollbackKeeps, SweepKeeps
  DEF Steps
<1>4. ASSUME NEW path \in Targets, Place(path) \/ MoveAside(path) PROVE IInv'
  BY <1>4, PlaceKeeps, MoveAsideKeeps
<1> QED
  BY <1>1, <1>2, <1>3, <1>4 DEF Next

\* The invariant holds in every state.
THEOREM IInvariance == Spec => []IInv
<1> QED
  BY InitIInv, StepKeeps, PTL DEF Spec

-----------------------------------------------------------------------------
(* The siblings of the pair, and the pair itself.                          *)

Remade == {"cert.tmp", "key.bak", "key", "cert", "tidy", "rollback", "end"}

\* Which siblings may be a run's own, by where it is.
Tidied(r) ==
  /\ run[r].pc \notin Remade => \A s \in Siblings : files[s] # r
  /\ run[r].pc \in {"cert.tmp", "key.bak"} => files["key.bak"] # r
  /\ run[r].pc = "cert.tmp" => files["cert.tmp"] # r
  /\ run[r].pc \in {"cert", "tidy"} => files["key.tmp"] # r
  /\ run[r].pc = "tidy" => files["cert.tmp"] # r
  /\ run[r].pc \in {"key", "cert", "tidy"} /\ run[r].backup = "nobody" => files["key.bak"] # r
  /\ \/ run[r].pc = "rollback"
     \/ run[r].pc = "end" /\ run[r].outcome \in Failures
     => \A s, t \in Siblings : files[s] = r /\ files[t] = r => s = t
  /\ run[r].pc = "end" /\ run[r].outcome \in {"running", "unsupervised"} =>
       \A s \in Siblings : files[s] # r

\* Which half of the pair is a run's own.
Paired(r) ==
  /\ run[r].pc \in {"order", "account", "key.tmp", "cert.tmp", "key.bak", "key"} =>
       files["key"] # r /\ files["cert"] # r
  /\ run[r].pc = "cert" => files["cert"] # r /\ run[r].backup # r
  /\ run[r].pc \in Publishing /\ {"key", "cert"} \subseteq run[r].had =>
       files["key"] = r /\ files["cert"] = r
  /\ run[r].pc = "rollback" /\ {"key", "cert"} \subseteq run[r].had /\ run[r].outcome # "torn" =>
       (files["key"] = r <=> files["cert"] = r)
  /\ run[r].pc = "rollback" => run[r].outcome \in Failures

LInv == \A r \in Runs : Tidied(r) /\ Paired(r)

\* A step of r leaves the others as they were.
LEMMA LeftStep ==
  ASSUME IInv, LInv, NEW r \in Runs, Only(r),
         files' = files \/ lock = {r},
         \A q \in Runs \ {r}, s \in Siblings : files'[s] = q => files[s] = q,
         Tidied(r)', Paired(r)'
  PROVE  LInv'
<1> SUFFICES ASSUME NEW q \in Runs, q # r PROVE Tidied(q)' /\ Paired(q)'
  BY DEF LInv
<1>1. run'[q] = run[q] /\ Tidied(q) /\ Paired(q)
  BY DEF Only, LInv
<1>2. CASE files' = files
  BY <1>1, <1>2 DEF Tidied, Paired
<1>3. CASE lock = {r}
  <2>1. run[q].pc \in {"idle", "lock", "end"}
    BY <1>3, Others
  <2>2. \A s \in Siblings : files'[s] = q => files[s] = q
    OBVIOUS
  <2>3. Paired(q)'
    BY <1>1, <2>1 DEF Paired, Publishing
  <2>4. Tidied(q)'
    BY <1>1, <2>1, <2>2 DEF Tidied, Remade
  <2> QED
    BY <2>3, <2>4
<1> QED
  BY <1>2, <1>3

\* The run inside is where it is alone.
LEMMA InsideLeft ==
  ASSUME IInv, LInv, NEW r \in Runs, run[r].pc \in Inside \ {"service"}
  PROVE  /\ lock = {r} /\ Shape /\ run[r] \in Locals /\ Tidied(r) /\ Paired(r)
         /\ files \in [Paths -> Owners] /\ r # "nobody" /\ r # "others" /\ r \in Owners
         /\ Guarded(r) /\ Progress(r)
         /\ \A path \in Targets : files[path] = r => Holds(r, path)
BY InsideRun DEF LInv

\* Steps that touch no file.
LEMMA LeftStill ==
  ASSUME IInv, LInv, NEW r \in Runs,
         \/ Type(r) \/ Refuse(r) \/ Lock(r) \/ TooLate(r) \/ PointDns(r) \/ PointFails(r)
         \/ Watch(r) \/ Order(r) \/ WrongAccount(r) \/ LoadPair(r) \/ IssuanceFails(r)
         \/ PublishFails(r) \/ Install(r) \/ Kill(r)
  PROVE  LInv'
<1>1. Shape /\ run[r] \in Locals /\ Tidied(r) /\ Paired(r) /\ run \in [Runs -> Locals]
      /\ \A path \in Targets : files[path] = r => Holds(r, path)
  BY DEF IInv, Shape, LInv, Owned
<1>2. CASE \/ Type(r) \/ PointDns(r) \/ Watch(r) \/ Order(r) \/ Lock(r)
  <2>1. /\ Only(r) /\ files' = files
        /\ run'[r].pc \in {"lock", "point", "watch", "conf", "order", "account"}
        /\ run'[r].pc = "conf" => run'[r].had = run[r].had /\ run[r].pc = "point"
        /\ run[r].pc \in {"idle", "lock", "point", "watch", "order"}
    <3>1. CASE Type(r)
      <4>1. PICK asked \in Asked : run' = [run EXCEPT ![r].pc = "lock", ![r].asked = asked]
        BY <3>1 DEF Type
      <4>2. [run[r] EXCEPT !.pc = "lock", !.asked = asked] \in Locals
        BY <1>1 DEF Locals, Pcs
      <4> QED
        BY <1>1, <3>1, <4>1, <4>2 DEF Type, At, Only, Locals
    <3>2. CASE PointDns(r)
      <4>1. PICK pointed \in BOOLEAN, pc \in {"watch", "conf"} :
              run' = [run EXCEPT ![r].pointed = pointed, ![r].pc = pc]
        BY <3>2 DEF PointDns
      <4>2. [run[r] EXCEPT !.pointed = pointed, !.pc = pc] \in Locals
        BY <1>1 DEF Locals, Pcs
      <4>3. /\ Only(r) /\ run'[r].pc = pc /\ run'[r].had = run[r].had
        BY <1>1, <4>1, <4>2 DEF Only, Locals
      <4> QED
        BY <3>2, <4>3 DEF PointDns, At
    <3>3. CASE Watch(r)
      <4>1. Present \in SUBSET Targets /\ Credentials \ Present \in SUBSET Credentials
        BY DEF Present
      <4>2. [run[r] EXCEPT !.pc = "order", !.had = Present, !.candidates = Credentials \ Present]
              \in Locals
        BY <1>1, <4>1 DEF Locals, Pcs
      <4> QED
        BY <1>1, <3>3, <4>2 DEF Watch, At, Only, Locals
    <3>4. CASE Order(r)
      <4>1. PICK account \in Owners : run' = [run EXCEPT ![r].pc = "account", ![r].account = account]
        BY <1>1, <3>4, RunsAre, PathsAre DEF Order, Shape
      <4>2. [run[r] EXCEPT !.pc = "account", !.account = account] \in Locals
        BY <1>1 DEF Locals, Pcs
      <4>3. run' = [run EXCEPT ![r] = [run[r] EXCEPT !.pc = "account", !.account = account]]
        BY <1>1, <4>1 DEF Locals
      <4>4. Only(r) /\ run'[r].pc = "account"
        BY <1>1, <4>2, <4>3 DEF Only, Locals
      <4> QED
        BY <3>4, <4>4 DEF Order, At
    <3>5. CASE Lock(r)
      <4>1. "point" \in Pcs /\ Goto(r, "point") /\ run[r].pc = "lock" /\ files' = files
        BY <3>5 DEF Lock, At, Pcs
      <4> QED
        BY <1>1, <4>1, GoesOn
    <3> QED
      BY <1>2, <3>1, <3>2, <3>3, <3>4, <3>5
  <2>2. files["key"] # r /\ files["cert"] # r
    BY <1>1, <2>1, PathsAre DEF Holds
  <2>3. run[r].pc = "point" => run[r].had = {}
    BY DEF IInv, Guarded
  <2>4. Tidied(r)'
    BY <1>1, <2>1 DEF Tidied, Remade
  <2>5. Paired(r)'
    BY <2>1, <2>2, <2>3 DEF Paired, Publishing
  <2> QED
    BY <2>1, <2>4, <2>5, LeftStep
<1>3. CASE LoadPair(r)
  <2>1. /\ Only(r) /\ run[r].pc = "load" /\ run'[r].pc = "conf" /\ files' = files
    BY <1>3, <1>1, GoesOn DEF LoadPair, At, Pcs
  <2>2. files["key"] = r /\ files["cert"] = r
    BY <2>1 DEF IInv, Progress, Issuing
  <2>3. Tidied(r)' /\ Paired(r)'
    BY <1>1, <2>1, <2>2 DEF Tidied, Paired, Remade, Publishing
  <2> QED
    BY <2>1, <2>3, LeftStep
<1>4. CASE WrongAccount(r) \/ IssuanceFails(r) \/ PublishFails(r)
  <2>1. PICK outcome \in {"failed", "exists"} : Unwinds(r, outcome)
    BY <1>4 DEF WrongAccount, IssuanceFails, PublishFails
  <2>2. /\ Only(r) /\ run'[r].pc = "rollback" /\ run'[r].had = run[r].had /\ files' = files
        /\ run'[r].outcome \in Failures
        /\ run[r].pc \in {"order", "account", "load"} \cup Publishing
    BY <1>1, <1>4, <2>1, UnwindIs, PublishedIs
    DEF WrongAccount, IssuanceFails, PublishFails, At, Publishing, Outcomes, Failures
  <2>3. run[r].pc = "load" => files["key"] = r /\ files["cert"] = r
    BY DEF IInv, Progress, Issuing
  <2>4. Tidied(r)' /\ Paired(r)'
    BY <1>1, <2>2, <2>3 DEF Tidied, Paired, Remade, Publishing
  <2> QED
    BY <2>2, <2>4, LeftStep
<1>5. CASE \/ Refuse(r) \/ TooLate(r) \/ PointFails(r) \/ Install(r) \/ Kill(r)
  <2>1. PICK outcome \in {"refused", "failed", "running", "unsupervised", "killed"} :
          /\ Ends(r, outcome)
          /\ outcome \in {"failed", "running", "unsupervised"} => run[r].pc \in {"point", "service"}
    BY <1>5 DEF Refuse, TooLate, PointFails, Install, Kill, At
  <2>2. files' = files /\ outcome \in Outcomes
    BY <1>5 DEF Refuse, TooLate, PointFails, Install, Kill, Outcomes, Failures
  <2>3. Only(r) /\ run'[r].pc = "end" /\ run'[r].outcome = outcome
    BY <1>1, <2>1, <2>2, EndIs
  <2>4. Tidied(r)' /\ Paired(r)'
    BY <1>1, <2>1, <2>2, <2>3 DEF Tidied, Paired, Remade, Publishing, Failures
  <2> QED
    BY <2>2, <2>3, <2>4, LeftStep
<1> QED
  BY <1>2, <1>3, <1>4, <1>5

\* Steps that put one file in place, or take one away, and no sibling.
LEMMA LeftPublishing ==
  ASSUME IInv, LInv, NEW r \in Runs,
         WriteConf(r) \/ WriteToken(r) \/ WriteState(r) \/ Rollback(r)
  PROVE  LInv'
<1>1. Shape /\ run[r] \in Locals /\ files \in [Paths -> Owners] /\ run \in [Runs -> Locals]
  BY DEF IInv, Shape
<1>2. CASE WriteConf(r) \/ WriteToken(r) \/ WriteState(r)
  <2>1. PICK path \in {"conf", "token", "state"}, next \in {"token", "state", "service"} :
          Create(r, path, next)
    BY <1>2 DEF WriteConf, WriteToken, WriteState
  <2>2. /\ Only(r) /\ run[r].pc = path /\ run'[r].pc = next /\ run'[r].had = run[r].had
        /\ files' = [files EXCEPT ![path] = r]
    <3>1. next \in Pcs
      BY DEF Pcs
    <3>2. /\ Only(r) /\ run[r].pc = path /\ run'[r].pc = next /\ run'[r].had = run[r].had
      BY <1>1, <2>1, <3>1, CreateIs
    <3>3. files' = [files EXCEPT ![path] = r]
      BY <2>1 DEF Create
    <3> QED
      BY <3>2, <3>3
  <2>3. run[r].pc \in Inside \ {"service"}
    BY <2>2 DEF Inside, Pcs
  <2>4. lock = {r} /\ Tidied(r) /\ Paired(r)
    BY <2>3, InsideLeft
  <2>5. \A p \in Siblings \cup {"key", "cert"} : files'[p] = files[p]
    BY <1>1, <2>2, PathsAre
  <2>6. Tidied(r)' /\ Paired(r)'
    BY <2>2, <2>4, <2>5 DEF Tidied, Paired, Remade, Publishing
  <2> QED
    BY <2>2, <2>4, <2>5, <2>6, LeftStep
<1>3. CASE Rollback(r)
  <2>1. run[r].pc = "rollback" /\ run[r].pc \in Inside \ {"service"}
    BY <1>3 DEF Rollback, At, Inside, Pcs
  <2>2. lock = {r} /\ Tidied(r) /\ Paired(r) /\ Guarded(r)
    BY <2>1, InsideLeft
  <2>3. Newest(r) \in {"conf", "token"}
    BY <1>3, <2>1, <2>2, NewestIsCreated DEF Rollback, Guarded
  <2>4. /\ Only(r) /\ run'[r].pc = "rollback" /\ run'[r].had = run[r].had
        /\ run'[r].outcome = run[r].outcome
    <3>1. [run[r] EXCEPT !.created = run[r].created \ {Newest(r)}] \in Locals
      BY <1>1 DEF Locals
    <3>2. run' = [run EXCEPT ![r] = [run[r] EXCEPT !.created = run[r].created \ {Newest(r)}]]
      BY <1>1, <1>3 DEF Rollback, Locals
    <3> QED
      BY <1>1, <2>1, <3>1, <3>2 DEF Only, Locals
  <2>5. \A p \in Siblings \cup {"key", "cert"} : files'[p] = files[p]
    BY <1>1, <1>3, <2>3, PathsAre DEF Rollback
  <2>6. Tidied(r)' /\ Paired(r)'
    BY <2>1, <2>2, <2>4, <2>5 DEF Tidied, Paired, Remade, Publishing
  <2> QED
    BY <2>2, <2>4, <2>5, <2>6, LeftStep
<1> QED
  BY <1>2, <1>3

LEMMA LeftSweep == ASSUME IInv, LInv, NEW r \in Runs, Sweep(r) PROVE LInv'
<1>1. run[r].pc = "rollback" /\ run[r].pc \in Inside \ {"service"}
  BY DEF Sweep, At, Inside, Pcs
<1>2. /\ lock = {r} /\ Tidied(r) /\ Paired(r) /\ Guarded(r) /\ Shape
      /\ run[r] \in Locals /\ files \in [Paths -> Owners] /\ run \in [Runs -> Locals]
      /\ r # "nobody"
  BY <1>1, InsideLeft DEF Shape
<1>3. CASE run[r].candidates = {}
  <2>1. Ends(r, run[r].outcome) /\ files' = files /\ run[r].outcome \in Outcomes
    BY <1>2, <1>3 DEF Sweep, Locals
  <2>2. Only(r) /\ run'[r].pc = "end" /\ run'[r].outcome = run[r].outcome
    BY <1>2, <2>1, EndIs
  <2>3. \A s, t \in Siblings : files[s] = r /\ files[t] = r => s = t
    BY <1>1, <1>2 DEF Tidied
  <2>4. run[r].outcome \notin {"running", "unsupervised"}
    BY <1>1, <1>2 DEF Paired, Failures
  <2>5. Tidied(r)' /\ Paired(r)'
    BY <2>1, <2>2, <2>3, <2>4 DEF Tidied, Paired, Remade, Publishing
  <2> QED
    BY <1>2, <2>1, <2>2, <2>5, LeftStep
<1>4. CASE run[r].candidates # {}
  <2>1. PICK path \in run[r].candidates :
          /\ files' = [files EXCEPT ![path] = "nobody"]
          /\ run' = [run EXCEPT ![r].candidates = @ \ {path}]
    BY <1>4 DEF Sweep
  <2>2. path \in {"account", "key", "cert"} /\ path \notin run[r].had
    BY <1>1, <1>2, PathsAre DEF Guarded
  <2>3. /\ Only(r) /\ run'[r].pc = "rollback" /\ run'[r].had = run[r].had
        /\ run'[r].outcome = run[r].outcome
    <3>1. [run[r] EXCEPT !.candidates = run[r].candidates \ {path}] \in Locals
      BY <1>2 DEF Locals
    <3>2. run' = [run EXCEPT ![r] = [run[r] EXCEPT !.candidates = run[r].candidates \ {path}]]
      BY <1>2, <2>1 DEF Locals
    <3> QED
      BY <1>1, <1>2, <3>1, <3>2 DEF Only, Locals
  <2>4. \A p \in Paths : p # path => files'[p] = files[p]
    BY <1>2, <2>1
  <2>5. \A s \in Siblings : files'[s] = files[s]
    BY <2>2, <2>4, PathsAre
  <2>6. {"key", "cert"} \subseteq run[r].had =>
          files'["key"] = files["key"] /\ files'["cert"] = files["cert"]
    BY <2>2, <2>4, PathsAre
  <2>7. Tidied(r)'
    BY <1>1, <1>2, <2>3, <2>5 DEF Tidied, Remade
  <2>8. Paired(r)'
    BY <1>1, <1>2, <2>3, <2>6 DEF Paired, Publishing
  <2> QED
    BY <1>2, <2>3, <2>5, <2>7, <2>8, LeftStep
<1> QED
  BY <1>3, <1>4

\* A step of the run inside that puts nobody else's sibling in place.
LEMMA LeftInside ==
  ASSUME IInv, LInv, NEW r \in Runs, lock = {r}, Only(r),
         \A s \in Siblings : files'[s] \in {files[s], "nobody", r},
         Tidied(r)', Paired(r)'
  PROVE  LInv'
<1>1. \A q \in Runs \ {r}, s \in Siblings : files'[s] = q => files[s] = q
  BY RunsAre
<1> QED
  BY <1>1, LeftStep

\* What the steps of the pair start from.
LEMMA PairLeft ==
  ASSUME IInv, LInv, NEW r \in Runs, run[r].pc \in Writing \cup {"account"}
  PROVE  /\ lock = {r} /\ Shape /\ Tidied(r) /\ Paired(r)
         /\ files \in [Paths -> Owners] /\ r # "nobody" /\ r \in Owners
         /\ run[r].pc = "key" => run[r].backup = files["key"]
         /\ run[r].backup \in Owners
         /\ Backup(r) \in SUBSET Siblings
<1>1. run[r].pc \in Inside \ {"service"}
  BY DEF Writing, Inside, Pcs
<1> QED
  BY <1>1, InsideLeft, PathsAre DEF Progress, Backup, Locals

LEMMA LeftAccount == ASSUME IInv, LInv, NEW r \in Runs, WriteAccount(r) PROVE LInv'
<1>1. run[r].pc = "account" /\ run[r].pc \in Writing \cup {"account"}
  BY DEF WriteAccount, At
<1>2. Only(r) /\ run'[r].pc = "key.tmp" /\ run'[r].had = run[r].had
  BY GoesOn DEF WriteAccount, IInv, Pcs
<1>3. \A path \in Siblings \cup {"key", "cert"} : files'[path] = files[path]
  BY <1>1, PairLeft, PathsAre DEF WriteAccount
<1>4. Tidied(r)' /\ Paired(r)'
  BY <1>1, <1>2, <1>3, PairLeft DEF Tidied, Paired, Remade, Publishing
<1> QED
  BY <1>1, <1>2, <1>3, <1>4, PairLeft, LeftInside

LEMMA LeftPrepare ==
  ASSUME IInv, LInv, NEW r \in Runs,
         Prepare(r, "key.tmp", "cert.tmp") \/ Prepare(r, "cert.tmp", "key.bak")
  PROVE  LInv'
<1>1. PICK path \in {"key.tmp", "cert.tmp"} :
        /\ run[r].pc = path /\ files' = [files EXCEPT ![path] = r]
        /\ Goto(r, IF path = "key.tmp" THEN "cert.tmp" ELSE "key.bak")
  BY DEF Prepare, At
<1>2. run[r].pc \in Writing \cup {"account"}
  BY <1>1 DEF Writing
<1>3. Only(r) /\ run'[r].pc = IF path = "key.tmp" THEN "cert.tmp" ELSE "key.bak"
  BY <1>1, GoesOn DEF IInv, Pcs
<1>4. \A p \in Siblings \cup {"key", "cert"} : files'[p] = IF p = path THEN r ELSE files[p]
  BY <1>1, <1>2, PairLeft, PathsAre
<1>5. Tidied(r)' /\ Paired(r)'
  BY <1>1, <1>2, <1>3, <1>4, PairLeft, PathsAre DEF Tidied, Paired, Remade, Publishing
<1> QED
  BY <1>2, <1>3, <1>4, <1>5, PairLeft, LeftInside

LEMMA LeftBackUp == ASSUME IInv, LInv, NEW r \in Runs, BackUp(r) PROVE LInv'
<1>1. run[r].pc = "key.bak" /\ run[r].pc \in Writing \cup {"account"}
  BY DEF BackUp, At, Writing
<1>2. files["key"] \in Owners
  BY <1>1, PairLeft, PathsAre
<1>3. Only(r) /\ run'[r].pc = "key" /\ run'[r].backup = files["key"]
  <2>1. run \in [Runs -> Locals] /\ run[r] \in Locals
    BY DEF IInv, Shape
  <2>2. [run[r] EXCEPT !.pc = "key", !.backup = files["key"]] \in Locals
    BY <1>2, <2>1 DEF Locals, Pcs
  <2>3. run' = [run EXCEPT ![r] = [run[r] EXCEPT !.pc = "key", !.backup = files["key"]]]
    BY <2>1 DEF BackUp, Locals
  <2> QED
    BY <2>1, <2>2, <2>3 DEF Only, Locals
<1>4. \A p \in Siblings \cup {"key", "cert"} :
        files'[p] = IF p = "key.bak" /\ files["key"] # "nobody" THEN r ELSE files[p]
  BY <1>1, PairLeft, PathsAre DEF BackUp, There
<1>5. Tidied(r)' /\ Paired(r)'
  BY <1>1, <1>3, <1>4, PairLeft, PathsAre DEF Tidied, Paired, Remade, Publishing
<1> QED
  BY <1>1, <1>3, <1>4, <1>5, PairLeft, LeftInside

LEMMA LeftPutting ==
  ASSUME IInv, LInv, NEW r \in Runs, WriteKey(r) \/ WriteCert(r) \/ TidyPair(r)
  PROVE  LInv'
<1>1. PICK next \in {"cert", "tidy", "load"} :
        /\ Goto(r, next)
        /\ next = "cert" => WriteKey(r)
        /\ next = "tidy" => WriteCert(r)
        /\ next = "load" => TidyPair(r)
  BY DEF WriteKey, WriteCert, TidyPair
<1>2. /\ run[r].pc \in Writing \cup {"account"}
      /\ run[r].pc = CASE next = "cert" -> "key" [] next = "tidy" -> "cert"
                       [] next = "load" -> "tidy"
  BY <1>1 DEF WriteKey, WriteCert, TidyPair, At, Writing
<1>3. Only(r) /\ run'[r].pc = next /\ run'[r].backup = run[r].backup
  BY <1>1, GoesOn DEF IInv, Pcs
<1>4. \A p \in Siblings :
        files'[p] = IF \/ next = "cert" /\ p = "key.tmp"
                       \/ next = "tidy" /\ p = "cert.tmp"
                       \/ next = "load" /\ p \in Backup(r)
                    THEN "nobody" ELSE files[p]
  BY <1>1, <1>2, PairLeft, PathsAre DEF WriteKey, WriteCert, TidyPair, Gone
<1>5. next = "cert" => files'["cert"] = files["cert"]
  BY <1>1, <1>2, PairLeft, PathsAre DEF WriteKey, Gone
<1>6. Tidied(r)'
  BY <1>2, <1>3, <1>4, PairLeft, PathsAre DEF Tidied, Remade, Backup
<1>7. Paired(r)'
  BY <1>2, <1>3, <1>5, PairLeft DEF Paired, Publishing
<1>8. \A p \in Siblings : files'[p] \in {files[p], "nobody", r}
  BY <1>4
<1> QED
  BY <1>2, <1>3, <1>6, <1>7, <1>8, PairLeft, LeftInside

LEMMA LeftPrepareFails == ASSUME IInv, LInv, NEW r \in Runs, PrepareFails(r) PROVE LInv'
<1>1. PICK path \in Siblings :
        /\ run[r].pc = path
        /\ \E left \in {files[path], "nobody", r} :
             files' = [Gone(Earlier(path)) EXCEPT ![path] = left]
  BY DEF PrepareFails, At
<1>2. PICK left \in {files[path], "nobody", r} :
        files' = [Gone(Earlier(path)) EXCEPT ![path] = left]
  BY <1>1
<1>3. run[r].pc \in Writing \cup {"account"} /\ run[r].pc \in {"key.tmp", "cert.tmp", "key.bak"}
  BY <1>1, PathsAre DEF Writing
<1>4. /\ Only(r) /\ run'[r].pc = "rollback" /\ run'[r].outcome = "failed"
      /\ "failed" \in Failures
  BY UnwindIs DEF PrepareFails, IInv, Outcomes, Failures
<1>5. /\ \A p \in Siblings : files'[p] = IF p = path THEN left
                                         ELSE IF p \in Earlier(path) THEN "nobody" ELSE files[p]
      /\ files'["key"] = files["key"] /\ files'["cert"] = files["cert"]
  BY <1>2, PathsAre DEF Gone, Earlier
<1>6. \A s \in Siblings : files'[s] = r => s = path
  BY <1>1, <1>3, <1>5, PairLeft, PathsAre DEF Tidied, Remade, Earlier
<1>7. Tidied(r)'
  BY <1>4, <1>6 DEF Tidied, Remade
<1>8. Paired(r)'
  BY <1>3, <1>4, <1>5, PairLeft DEF Paired, Publishing
<1>9. \A p \in Siblings : files'[p] \in {files[p], "nobody", r}
  BY <1>2, <1>5
<1> QED
  BY <1>3, <1>4, <1>7, <1>8, <1>9, PairLeft, LeftInside

LEMMA LeftRenameFails ==
  ASSUME IInv, LInv, NEW r \in Runs, RenameFails(r) \/ UndoFails(r)
  PROVE  LInv'
<1>1. PICK outcome \in {"failed", "torn"} :
        Unwinds(r, outcome) /\ (outcome = "torn" => UndoFails(r))
        /\ (outcome = "failed" => RenameFails(r))
  BY DEF RenameFails, UndoFails
<1>2. run[r].pc \in {"key", "cert"} /\ run[r].pc \in Writing \cup {"account"}
  BY DEF RenameFails, UndoFails, At, Writing
<1>3. outcome \in Outcomes /\ outcome \in Failures
  BY DEF Outcomes, Failures
<1>4. Only(r) /\ run'[r].pc = "rollback" /\ run'[r].outcome = outcome
  BY <1>1, <1>3, UnwindIs DEF IInv
<1>5. /\ \A p \in Siblings : files'[p] \in {files[p], "nobody"}
      /\ run[r].pc = "key" => files'["key.tmp"] = "nobody"
      /\ files'["cert.tmp"] = "nobody"
      /\ files'["cert"] = files["cert"]
      /\ outcome = "failed" =>
           files'["key"] = (IF run[r].pc = "key" THEN files["key"] ELSE run[r].backup)
  BY <1>1, <1>2, PairLeft, PathsAre DEF RenameFails, UndoFails, At, Gone, Backup
<1>6. \A s \in Siblings : files'[s] = r => s = "key.bak"
  BY <1>2, <1>5, PairLeft, PathsAre DEF Tidied
<1>7. Tidied(r)'
  BY <1>4, <1>6 DEF Tidied, Remade
<1>8. Paired(r)'
  BY <1>2, <1>3, <1>4, <1>5, PairLeft DEF Paired, Publishing
<1> QED
  BY <1>2, <1>4, <1>5, <1>7, <1>8, PairLeft, LeftInside

\* What people do touches no sibling, and the pair only while nobody is inside.
LEMMA LeftHands ==
  ASSUME IInv, LInv, NEW path \in Targets, Place(path) \/ MoveAside(path)
  PROVE  LInv'
<1>1. /\ UNCHANGED run /\ files \in [Paths -> Owners]
      /\ path \in {"key", "cert"} => lock = {}
      /\ \E owner \in Owners : files' = [files EXCEPT ![path] = owner]
  BY PathsAre DEF Place, MoveAside, IInv, Shape, Owners
<1>2. /\ \A s \in Siblings : files'[s] = files[s]
      /\ lock # {} => files'["key"] = files["key"] /\ files'["cert"] = files["cert"]
  BY <1>1, PathsAre
<1>3. ASSUME NEW r \in Runs PROVE Tidied(r)' /\ Paired(r)'
  <2>1. run'[r] = run[r] /\ Tidied(r) /\ Paired(r)
    BY <1>1 DEF LInv
  <2>2. Tidied(r)'
    BY <1>2, <2>1, PathsAre DEF Tidied
  <2>3. Paired(r)'
    <3>1. CASE lock = {}
      BY <2>1, <3>1, Outside DEF Paired, Publishing
    <3>2. CASE lock # {}
      BY <1>2, <2>1, <3>2 DEF Paired
    <3> QED
      BY <3>1, <3>2
  <2> QED
    BY <2>2, <2>3
<1> QED
  BY <1>3 DEF LInv

LEMMA StepLeft == IInv /\ LInv /\ [Next]_vars => LInv'
<1> SUFFICES ASSUME IInv, LInv, [Next]_vars PROVE LInv'
  OBVIOUS
<1>1. CASE UNCHANGED vars
  BY <1>1 DEF vars, LInv, Tidied, Paired
<1>2. ASSUME NEW r \in Runs, Type(r) \/ Steps(r) \/ Kill(r) PROVE LInv'
  BY <1>2, LeftStill, LeftPublishing, LeftSweep, LeftAccount, LeftPrepare, LeftBackUp,
     LeftPutting, LeftPrepareFails, LeftRenameFails
  DEF Steps
<1>3. ASSUME NEW path \in Targets, Place(path) \/ MoveAside(path) PROVE LInv'
  BY <1>3, LeftHands
<1> QED
  BY <1>1, <1>2, <1>3 DEF Next

LEMMA InitLInv == Init => LInv
<1> SUFFICES ASSUME Init, NEW r \in Runs PROVE Tidied(r) /\ Paired(r)
  BY DEF LInv
<1>1. run[r] = NotStarted /\ \A path \in Paths : files[path] # r
  BY RunsAre DEF Init
<1>2. \A s \in Siblings : files[s] # r
  BY <1>1, PathsAre
<1> QED
  BY <1>1, <1>2 DEF Tidied, Paired, NotStarted, Publishing

\* The second layer holds in every state as well.
LEMMA LInvariance == Spec => []LInv
<1> QED
  BY InitLInv, StepLeft, IInvariance, PTL DEF Spec

-----------------------------------------------------------------------------
(* What it is for.                                                         *)

\* The state file is there only with everything a hub needs beside it, all of
\* one run, and what it says is true: for any runs, any failures and kills, and
\* whatever files are put in place or moved aside in between.
THEOREM HubStaysWhole == Spec => []HubWhole
<1>1. IInv => HubWhole
  BY DEF IInv, Whole
<1> QED
  BY <1>1, IInvariance, PTL

\* A run of init that failed left none of the files it names, but for the pair it
\* found, and of the pair's siblings at most the one write_private_pair could not
\* take away; the pair it found is whole, or its message says otherwise.  A run
\* that made a hub left no sibling at all.
THEOREM FailureLeavesNothing == Spec => []NothingLeftBehind
<1>1. IInv /\ LInv => NothingLeftBehind
  <2> SUFFICES ASSUME IInv, LInv, NEW r \in Runs
               PROVE  /\ At(r, "end") /\ run[r].outcome \in Failures =>
                           /\ Litter(r) \subseteq Siblings
                           /\ \A path, other \in Litter(r) : path = other
                      /\ /\ At(r, "rollback")
                         /\ {"key", "cert"} \subseteq run[r].had
                         /\ run[r].outcome # "torn"
                         => (files["key"] = r <=> files["cert"] = r)
                      /\ At(r, "end") /\ run[r].outcome \in {"running", "unsupervised"} =>
                           \A path \in Siblings : files[path] # r
    BY DEF NothingLeftBehind
  <2>1. Tidied(r) /\ Paired(r) /\ \A path \in Targets : files[path] = r => Holds(r, path)
    BY DEF LInv, IInv, Owned
  <2>2. ASSUME At(r, "end"), run[r].outcome \in Failures
        PROVE  Litter(r) \subseteq Siblings /\ \A path, other \in Litter(r) : path = other
    <3>1. \A path \in Litter(r) : path \in Siblings /\ files[path] = r
      BY <2>1, <2>2, PathsAre DEF At, Litter, Holds
    <3> QED
      BY <2>1, <2>2, <3>1 DEF At, Tidied
  <2> QED
    BY <2>1, <2>2 DEF At, Tidied, Paired
<1> QED
  BY <1>1, IInvariance, LInvariance, PTL

\* What a step of the program may do to the file at a path.
KeptAt(path) ==
  /\ There(path) /\ files'[path] = "nobody" =>
       \E r \in lock : files[path] = r /\ path \notin run[r].had
  /\ files[path] = "others" /\ files'[path] # "others" => path \in {"key", "cert"}

\* People's steps count against their bound.
LEMMA HandsCount ==
  ASSUME Shape, Spend("hands")
  PROVE  budget'["hands"] # budget["hands"]
BY DEF Shape, Spend

LEMMA IssuingKept ==
  ASSUME IInv, NEW r \in Runs, NEW path \in Targets,
         WriteAccount(r) \/ WriteKey(r) \/ WriteCert(r) \/ (RenameFails(r) /\ At(r, "cert"))
  PROVE  KeptAt(path)
<1>1. run[r].pc \in {"account", "key", "cert"} /\ run[r].pc \in Inside \ {"service"}
  BY DEF WriteAccount, WriteKey, WriteCert, At, Inside, Pcs
<1>2. /\ lock = {r} /\ Progress(r) /\ files \in [Paths -> Owners] /\ r # "nobody" /\ r # "others"
      /\ run[r] \in Locals /\ Shape
  BY <1>1, InsideRun
<1>3. CASE WriteAccount(r)
  <2>1. files'[path] = IF path = "account" /\ files["account"] = "nobody" THEN r ELSE files[path]
    BY <1>2, <1>3, PathsAre DEF WriteAccount, At, Progress
  <2> QED
    BY <1>2, <2>1 DEF KeptAt, There
<1>4. CASE WriteKey(r) \/ WriteCert(r)
  <2>1. PICK S \in SUBSET Siblings, put \in {"key", "cert"} : files' = [Gone(S) EXCEPT ![put] = r]
    BY <1>4, PathsAre DEF WriteKey, WriteCert
  <2>2. files'[path] = IF path = put THEN r ELSE files[path]
    BY <1>2, <2>1, GoneIs, PathsAre
  <2> QED
    BY <1>2, <2>2 DEF KeptAt, There
<1>5. CASE RenameFails(r) /\ At(r, "cert")
  <2>1. PICK S \in SUBSET Siblings : files' = [Gone(S) EXCEPT !["key"] = run[r].backup]
    <3>1. {"cert.tmp"} \cup Backup(r) \in SUBSET Siblings
      BY PathsAre DEF Backup
    <3> QED
      BY <1>5, <3>1 DEF RenameFails, At
  <2>2. files'[path] = IF path = "key" THEN run[r].backup ELSE files[path]
    BY <1>2, <2>1, GoneIs, PathsAre
  <2>3. files["key"] = r /\ ("key" \in run[r].had => run[r].backup # "nobody")
    BY <1>2, <1>5 DEF At, Progress, Orders, Issuing, Writing
  <2> QED
    BY <1>2, <2>2, <2>3 DEF KeptAt, There
<1> QED
  BY <1>3, <1>4, <1>5

LEMMA PublishingKept ==
  ASSUME IInv, NEW r \in Runs, NEW path \in Targets,
         WriteConf(r) \/ WriteToken(r) \/ WriteState(r)
  PROVE  KeptAt(path)
<1>1. PICK made \in {"conf", "token", "state"}, next \in {"token", "state", "service"} :
        Create(r, made, next)
  BY DEF WriteConf, WriteToken, WriteState
<1>2. files[made] = "nobody" /\ files'[path] = IF path = made THEN r ELSE files[path]
  <2>1. Shape /\ next \in Pcs
    BY DEF IInv, Pcs
  <2> QED
    BY <1>1, <2>1, CreateIs
<1> QED
  BY <1>2, RunsAre DEF KeptAt, There

LEMMA UndoingKept ==
  ASSUME IInv, NEW r \in Runs, NEW path \in Targets, Rollback(r) \/ Sweep(r)
  PROVE  KeptAt(path)
<1>1. run[r] \in Locals /\ run[r].pc = "rollback" /\ run[r].pc \in Inside \ {"service"}
  BY DEF Rollback, Sweep, At, IInv, Shape, Inside, Pcs
<1>2. /\ lock = {r} /\ files \in [Paths -> Owners] /\ r # "others"
      /\ run[r].candidates \subseteq Credentials \ run[r].had
      /\ run[r].created \subseteq {"conf", "token"} \ run[r].had
      /\ \A p \in run[r].candidates : files[p] \in {"nobody", r}
      /\ \A p \in run[r].created : files[p] = r
  BY <1>1, InsideRun DEF Guarded
<1>3. files'[path] = files[path] \/ path \in run[r].created \cup run[r].candidates
  <2>1. CASE Rollback(r)
    <3>1. Newest(r) \in run[r].created
      BY <1>2, <2>1, NewestIsCreated DEF Rollback
    <3> QED
      BY <1>2, <2>1, <3>1 DEF Rollback
  <2>2. CASE Sweep(r)
    BY <1>2, <2>2, PathsAre DEF Sweep
  <2> QED
    BY <2>1, <2>2
<1> QED
  BY <1>2, <1>3 DEF KeptAt, There

LEMMA StepKept ==
  ASSUME IInv, [Next]_vars, budget'.hands = budget.hands, NEW path \in Targets
  PROVE  KeptAt(path)
<1>1. CASE UNCHANGED files
  BY <1>1 DEF KeptAt, There
<1>2. ASSUME NEW r \in Runs, Type(r) \/ Steps(r) \/ Kill(r) PROVE KeptAt(path)
  <2>1. CASE \/ Type(r) \/ Kill(r) \/ Refuse(r) \/ Lock(r) \/ TooLate(r) \/ PointDns(r)
             \/ PointFails(r) \/ Watch(r) \/ Order(r) \/ WrongAccount(r) \/ LoadPair(r)
             \/ PublishFails(r) \/ Install(r)
    <3>1. UNCHANGED files
      BY <2>1 DEF Type, Kill, Refuse, Lock, TooLate, PointDns, PointFails, Watch, Order,
                  WrongAccount, LoadPair, PublishFails, Install
    <3> QED
      BY <1>1, <3>1
  <2>2. CASE \/ IssuanceFails(r) \/ PrepareFails(r) \/ UndoFails(r) \/ BackUp(r) \/ TidyPair(r)
             \/ Prepare(r, "key.tmp", "cert.tmp") \/ Prepare(r, "cert.tmp", "key.bak")
             \/ (RenameFails(r) /\ ~At(r, "cert"))
    <3>1. SameTargets
      BY <2>2, QuietSteps, Untouched DEF IssuanceFails, IInv
    <3> QED
      BY <3>1 DEF SameTargets, KeptAt, There
  <2> QED
    BY <1>2, <2>1, <2>2, IssuingKept, PublishingKept, UndoingKept DEF Steps
<1>3. ~ \E p \in Targets : Place(p) \/ MoveAside(p)
  BY HandsCount DEF Place, MoveAside, IInv
<1>4. CASE UNCHANGED vars
  BY <1>1, <1>4 DEF vars
<1> QED
  BY <1>2, <1>3, <1>4 DEF Next

\* Only the run that wrote a file takes it away, and only one that was not there
\* when it armed its guard; nobody else's file is replaced, but for the pair.
THEOREM OthersAlwaysKept == Spec => OthersKept
<1>1. IInv /\ [Next]_vars =>
        [budget'.hands = budget.hands =>
           \A path \in Targets :
             /\ There(path) /\ files'[path] = "nobody" =>
                  \E r \in lock : files[path] = r /\ path \notin run[r].had
             /\ files[path] = "others" /\ files'[path] # "others" => path \in {"key", "cert"}
        ]_vars
  BY StepKept DEF KeptAt
<1> QED
  BY <1>1, IInvariance, PTL DEF Spec, OthersKept
=============================================================================
