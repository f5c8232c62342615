----------------------------- MODULE Files_proofs -----------------------------
(***************************************************************************)
(* However many runs write a file beside each other, whatever fails, is    *)
(* killed or is lost with the power, its name holds a whole, private file  *)
(* of its owner's or none.                                                 *)
(*                                                                         *)
(* The argument: the runs that are alive use different temporary names     *)
(* (Temps), so a run's file is where it put it (Placed) and gains one      *)
(* quality per step (Progress); it has all of them before it gets the      *)
(* name (GoodTarget), and nothing touches it afterwards.                   *)
(***************************************************************************)
EXTENDS Files, FiniteSetTheorems, SequenceTheorems, TLAPS

Ats == {"idle", "clear", "create", "mode", "write", "give", "sync", "publish", "tidy",
        "flush", "done", "failed", "killed"}

Unmade == {"idle", "clear", "create"}                  \* has no file yet
Making == {"mode", "write", "give", "sync", "publish"} \* has one, at its temporary name

Run == [at: Ats, op: Operations \cup {Nil}, pid: Pids \cup {Nil},
         owner: {"root", "user", Nil}, fault: BOOLEAN]
File == [text: {"empty", "part", "whole", Nil}, mode: SUBSET {"owner", "others"},
         owner: {"root", "user", Nil}, durable: BOOLEAN]

Shape ==
  /\ dir \in [Entries -> Nodes \cup {Nil}]
  /\ disk \in [Entries -> Nodes \cup {Nil}]
  /\ node \in [Nodes -> File]
  /\ writer \in [Writers -> Run]
  /\ umask \in {{}, {"others"}}
  /\ \A w \in Writers :
       IF writer[w].at = "idle" THEN writer[w].op = Nil
       ELSE writer[w].op \in Operations /\ writer[w].pid \in Pids

\* Those alive use different temporary names.
Temps == \A v, w \in Live : v # w => Temp(v) # Temp(w)

\* A file has been given the name.
Out(w) == \/ writer[w].at \in {"flush", "done", "killed"}
          \/ writer[w].at = "tidy" /\ ~writer[w].fault

\* Where a run's file is.
Placed(w) ==
  /\ writer[w].at \in Making \cup {"tidy"} => dir[Temp(w)] = w
  /\ writer[w].at \in Unmade =>
       node[w].text = Nil /\ \A n \in Entries : dir[n] # w /\ disk[n] # w
  /\ \A n \in Entries : dir[n] = w =>
       /\ writer[w].at = "failed" => writer[w].op = "pair_half" /\ n = Shared
       /\ writer[w].at \in Making => n = Temp(w)
       /\ writer[w].at = "tidy" => n = Temp(w) \/ (n = Target /\ ~writer[w].fault)
       /\ writer[w].at \in {"flush", "done"} => n = Target

\* What a run's file has by now.
Progress(w) ==
  /\ node[w].text # Nil => node[w].mode \subseteq ModeAsked(writer[w].op)
  /\ writer[w].at = "mode" => writer[w].op \notin InHandle
  /\ writer[w].at \in {"write", "give", "sync", "publish"} =>
       node[w].mode = ModeAsked(writer[w].op)
  /\ writer[w].at \in {"mode", "write"} => node[w].text \in {"empty", "part"}
  /\ writer[w].at \in {"give", "sync", "publish"} => node[w].text = "whole"
  /\ writer[w].at \in {"sync", "publish"} => node[w].owner = writer[w].owner
  /\ writer[w].at = "publish" => node[w].durable

Fit(w) ==
  /\ node[w].text = "whole" /\ node[w].durable
  /\ node[w].owner = writer[w].owner
  /\ node[w].mode = ModeAsked(writer[w].op)

\* What holds the name, or would after a power cut.
GoodTarget ==
  /\ node[Old].text = "whole" /\ node[Old].durable
  /\ \A d \in {dir[Target], disk[Target]} :
       d \in {Nil, Old} \/ (d \in Writers /\ Out(d) /\ Fit(d))

\* A run that was told that it made the file.
Linked(w) ==
  /\ writer[w].op \in MustBeNew
  /\ writer[w].at \in {"flush", "done"} \/ (writer[w].at = "tidy" /\ ~writer[w].fault)

Links ==
  /\ \A v, w \in Writers : Linked(v) /\ Linked(w) => v = w
  /\ \A w \in Writers : Linked(w) =>
       /\ dir[Target] \in Writers
       /\ \/ dir[Target] = w
          \/ \E v \in Writers : writer[v].op \in Operations \ MustBeNew

FInv ==
  /\ Shape /\ Temps
  /\ \A w \in Writers : Placed(w) /\ Progress(w)
  /\ GoodTarget /\ Links

-----------------------------------------------------------------------------
(* Steps of one run.                                                       *)

\* w goes on to `at`; what it was asked to do stays.
Moves(w, at) ==
  /\ writer' \in [Writers -> Run]
  /\ \A v \in Writers : v # w => writer'[v] = writer[v]
  /\ writer'[w].at = at
  /\ writer'[w].op = writer[w].op
  /\ writer'[w].pid = writer[w].pid
  /\ writer'[w].owner = writer[w].owner

LEMMA GoMoves ==
  ASSUME Shape, NEW w \in Writers, NEW at \in Ats, Go(w, at)
  PROVE  Moves(w, at) /\ (writer'[w].fault <=> writer[w].fault)
BY DEF Shape, Go, Moves, Run

LEMMA TempNames ==
  ASSUME FilesAssumption, Shape, NEW w \in Writers, writer[w].at # "idle"
  PROVE  Temp(w) \in Entries /\ Temp(w) # Target
BY DEF FilesAssumption, Shape, Temp, Entries, Target, Shared, InDotTmp

LEMMA SameTemps ==
  ASSUME NEW w \in Writers, NEW at, Moves(w, at), NEW v \in Writers
  PROVE  Temp(v)' = Temp(v)
BY DEF Moves, Temp

\* A step of one run keeps the invariant when it touches no name but its own
\* temporary one and the target, and its own file only.
LEMMA OneRun ==
  ASSUME FilesAssumption, FInv, NEW w \in Live, NEW at \in Ats, Moves(w, at),
         at # "idle",
         dir' \in [Entries -> Nodes \cup {Nil}],
         \A n \in Entries : dir'[n] # dir[n] => dir'[n] \in {w, Nil} /\ n \in {Temp(w), Target},
         dir'[Target] \in {dir[Target], w},
         disk' \in {disk, dir},
         node' \in [Nodes -> File],
         \A n \in Nodes : n # w => node'[n] = node[n],
         umask' = umask,
         Placed(w)', Progress(w)',
         w \in {dir'[Target], dir[Target], disk[Target]} => Out(w)' /\ Fit(w)',
         Linked(w)' => Linked(w) \/ (dir[Target] = Nil /\ dir'[Target] = w),
         dir'[Target] # dir[Target] => dir[Target] = Nil \/ writer[w].op \in Operations \ MustBeNew
  PROVE  FInv'
<1>0. /\ w \in Writers /\ writer[w].at # "idle" /\ w \notin {Old, Stale, Nil}
      /\ Shape /\ Temp(w) \in Entries /\ Temp(w) # Target /\ Target \in Entries
  BY TempNames DEF FilesAssumption, FInv, Live, Over, Entries
<1>1. Shape'
  <2>1. disk' \in [Entries -> Nodes \cup {Nil}]
    BY <1>0 DEF Shape
  <2> QED
    BY <1>0, <2>1 DEF Shape, Moves
<1>2. Temps'
  <2>1. Live' \subseteq Live
    BY <1>0 DEF Live, Moves
  <2> QED
    BY <1>0, <2>1, SameTemps DEF FInv, Temps, Live
<1>3. ASSUME NEW v \in Writers PROVE Placed(v)' /\ Progress(v)'
  <2>1. CASE v = w
    BY <2>1
  <2>2. CASE v # w
    <3>1. /\ writer'[v] = writer[v] /\ node'[v] = node[v] /\ Temp(v)' = Temp(v)
          /\ Placed(v) /\ Progress(v) /\ v # Nil
      BY <1>0, <1>3, <2>2, SameTemps DEF FInv, Moves, Nodes, FilesAssumption
    <3>2. \A n \in Entries : dir'[n] = v => dir[n] = v
      BY <2>2, <3>1
    <3>3. \A n \in Entries : writer[v].at \in Unmade => dir'[n] # v /\ disk'[n] # v
      BY <3>1, <3>2 DEF Placed
    <3>4. writer[v].at \in Making \cup {"tidy"} => dir'[Temp(v)] = v
      <4> SUFFICES ASSUME writer[v].at \in Making \cup {"tidy"} PROVE dir'[Temp(v)] = v
        OBVIOUS
      <4>1. v \in Live
        BY <1>3 DEF Live, Over, Making
      <4>2. Temp(v) # Temp(w) /\ Temp(v) # Target /\ Temp(v) \in Entries
        BY <1>0, <1>3, <2>2, <4>1, TempNames DEF FInv, Temps, Live, Over
      <4> QED
        BY <1>0, <3>1, <4>2 DEF Placed
    <3>5. Placed(v)'
      BY <3>1, <3>2, <3>3, <3>4 DEF Placed
    <3>6. Progress(v)'
      BY <3>1 DEF Progress
    <3> QED
      BY <3>5, <3>6
  <2> QED
    BY <2>1, <2>2
<1>4. GoodTarget'
  <2>1. node'[Old] = node[Old]
    BY <1>0 DEF Nodes
  <2>2. \A v \in Writers : v # w /\ Out(v) /\ Fit(v) => Out(v)' /\ Fit(v)'
    BY DEF Moves, Out, Fit, Nodes
  <2>3. {dir'[Target], disk'[Target]} \subseteq {dir[Target], disk[Target], w}
    BY <1>0
  <2>4. w \in {dir'[Target], disk'[Target]} => w \in {dir'[Target], dir[Target], disk[Target]}
    BY <1>0
  <2> QED
    BY <1>0, <2>1, <2>2, <2>3, <2>4 DEF FInv, GoodTarget
<1>5. Links'
  <2>1. \A v \in Writers : writer'[v].op = writer[v].op
    BY DEF Moves
  <2>2. \A v \in Writers : v # w => (Linked(v)' <=> Linked(v))
    BY DEF Moves, Linked
  <2>3. \A v \in Writers : Linked(v) => dir[Target] \in Writers /\ dir[Target] # Nil
    BY DEF FInv, Links, FilesAssumption
  <2>4. \A v \in Writers : Linked(v)' =>
        Linked(v) \/ (v = w /\ dir[Target] = Nil /\ dir'[Target] = w)
    BY <2>2
  <2>5. \A u, v \in Writers : Linked(u)' /\ Linked(v)' => u = v
    BY <2>3, <2>4 DEF FInv, Links
  <2>6. ASSUME NEW v \in Writers, Linked(v)'
        PROVE  /\ dir'[Target] \in Writers
               /\ \/ dir'[Target] = v
                  \/ \E u \in Writers : writer'[u].op \in Operations \ MustBeNew
    <3>1. CASE Linked(v)
      BY <1>0, <2>1, <2>3, <2>6, <3>1 DEF FInv, Links
    <3>2. CASE v = w /\ dir'[Target] = w
      BY <1>0, <3>2
    <3> QED
      BY <2>4, <2>6, <3>1, <3>2
  <2> QED
    BY <2>5, <2>6 DEF Links
<1> QED
  BY <1>1, <1>2, <1>3, <1>4, <1>5 DEF FInv
-----------------------------------------------------------------------------
(* The actions.                                                            *)

LEMMA LiveRun ==
  ASSUME FilesAssumption, FInv, NEW w \in Live
  PROVE  /\ w \in Writers /\ w \in Nodes /\ w # Nil
         /\ writer[w].at # "idle" /\ writer[w].op \in Operations
         /\ Temp(w) \in Entries /\ Target \in Entries /\ Temp(w) # Target
         /\ Shape /\ Placed(w) /\ Progress(w) /\ GoodTarget
         /\ Linked(w) => dir[Target] \in Writers
BY TempNames DEF FilesAssumption, FInv, Live, Over, Entries, Nodes, Shape, Links

\* A file that has the name is out and fit.
LEMMA NamedFit ==
  ASSUME FilesAssumption, FInv, NEW w \in Live, w \in {dir[Target], disk[Target]}
  PROVE  Out(w) /\ Fit(w)
BY LiveRun DEF GoodTarget, FilesAssumption

\* Steps that neither make a file nor touch the directory: the run ends.
LEMMA EndsEarly ==
  ASSUME FilesAssumption, FInv, NEW w \in Live,
         \/ CreateRefused(w)
         \/ StartFails(w)
         \/ Killed(w)
  PROVE  FInv'
<1>1. PICK at \in {"failed", "killed"} :
        /\ Go(w, at)
        /\ at = "failed" => writer[w].at \in {"clear", "create"}
  BY DEF CreateRefused, StartFails, Killed
<1>2. Moves(w, at) /\ (writer'[w].fault <=> writer[w].fault) /\ at \in Ats
  BY <1>1, GoMoves, LiveRun DEF Ats
<1>3. UNCHANGED <<dir, disk, node, umask>>
  BY DEF CreateRefused, StartFails, Killed, InPlace
<1>4. Placed(w)' /\ Progress(w)'
  BY <1>1, <1>2, <1>3, LiveRun DEF Placed, Progress, Moves, Making, Unmade
<1>5. w \in {dir[Target], disk[Target]} => Out(w)' /\ Fit(w)'
  BY <1>1, <1>2, <1>3, LiveRun, NamedFit DEF Out, Fit, Moves
<1>6. Linked(w)' => FALSE
  BY <1>1, <1>2 DEF Linked, Moves
<1> QED
  BY <1>1, <1>2, <1>3, <1>4, <1>5, <1>6, LiveRun, OneRun DEF Shape

\* A half of a pair that cannot be written or synced stays at its .tmp.
LEMMA HalfKeeps ==
  ASSUME FilesAssumption, FInv, NEW w \in Live, HalfFails(w)
  PROVE  FInv'
<1>1. /\ writer[w].at \in {"write", "sync"} /\ writer[w].op = "pair_half"
      /\ Temp(w) = Shared /\ UNCHANGED <<dir, disk, node, umask>>
      /\ Moves(w, "failed") /\ "failed" \in Ats
  BY GoMoves, LiveRun DEF HalfFails, Temp, InDotTmp, Ats
<1>2. Placed(w)' /\ Progress(w)'
  <2>1. \A n \in Entries : dir[n] = w => n = Shared
    BY <1>1, LiveRun DEF Placed, Making
  <2>2. Progress(w)
    BY LiveRun
  <2> QED
    BY <1>1, <2>1, <2>2 DEF Placed, Progress, Moves, Making, Unmade
<1>3. w \notin {dir'[Target], dir[Target], disk[Target]}
  BY <1>1, NamedFit DEF Out
<1>4. ~Linked(w)'
  BY <1>1 DEF Linked, Moves
<1> QED
  BY <1>1, <1>2, <1>3, <1>4, LiveRun, OneRun DEF Shape

LEMMA ClearKeeps ==
  ASSUME FilesAssumption, FInv, NEW w \in Live, Clear(w)
  PROVE  FInv'
<1>1. /\ writer[w].at = "clear" /\ Moves(w, "create")
      /\ \A n \in Entries : dir'[n] = IF n = Temp(w) THEN Nil ELSE dir[n]
      /\ dir' \in [Entries -> Nodes \cup {Nil}]
      /\ UNCHANGED <<disk, node, umask>>
  BY GoMoves, LiveRun DEF Clear, Unlink, InPlace, Shape, Ats
<1>2. Placed(w)' /\ Progress(w)'
  BY <1>1, LiveRun, SameTemps DEF Placed, Progress, Moves, Making, Unmade
<1>3. w \notin {dir'[Target], dir[Target], disk[Target]}
  BY <1>1, LiveRun DEF Placed, Unmade
<1>4. Linked(w)' => FALSE
  BY <1>1 DEF Linked, Moves
<1> QED
  BY <1>1, <1>2, <1>3, <1>4, LiveRun, OneRun DEF Shape, Ats

LEMMA CreateKeeps ==
  ASSUME FilesAssumption, FInv, NEW w \in Live, CreateTemp(w)
  PROVE  FInv'
<1>1. PICK at \in {"write", "mode"} :
        /\ Moves(w, at)
        /\ at = "write" <=> writer[w].op \in InHandle
  BY GoMoves, LiveRun DEF CreateTemp, Ats
<1>2. /\ writer[w].at = "create" /\ dir[Temp(w)] = Nil
      /\ \A n \in Entries : dir'[n] = IF n = Temp(w) THEN w ELSE dir[n]
      /\ dir' \in [Entries -> Nodes \cup {Nil}]
      /\ \A n \in Nodes : n # w => node'[n] = node[n]
      /\ node'[w] = [text |-> "empty", mode |-> ModeAsked(writer[w].op) \ umask,
                     owner |-> "root", durable |-> FALSE]
      /\ UNCHANGED <<disk, umask>>
  BY LiveRun DEF CreateTemp, InPlace, Shape
<1>3. ModeAsked(writer[w].op) \subseteq {"owner", "others"}
  BY DEF ModeAsked
<1>4. node' \in [Nodes -> File]
  <2>1. ModeAsked(writer[w].op) \ umask \in SUBSET {"owner", "others"}
    BY <1>3
  <2>2. node'[w] \in File
    BY <1>2, <2>1 DEF File
  <2> QED
    BY <1>2, <2>2, LiveRun DEF CreateTemp, Shape
<1>5. Placed(w)'
  BY <1>1, <1>2, LiveRun, SameTemps DEF Placed, Moves, Making, Unmade
<1>6. Progress(w)'
  <2>1. writer[w].op \in InHandle => ModeAsked(writer[w].op) \ umask = ModeAsked(writer[w].op)
    BY LiveRun DEF InHandle, ModeAsked, Shape
  <2> QED
    BY <1>1, <1>2, <2>1 DEF Progress, Moves
<1>7. w \notin {dir'[Target], dir[Target], disk[Target]}
  BY <1>2, LiveRun DEF Placed, Unmade
<1>8. Linked(w)' => FALSE
  BY <1>1 DEF Linked, Moves
<1> QED
  BY <1>1, <1>2, <1>4, <1>5, <1>6, <1>7, <1>8, LiveRun, OneRun DEF Shape, Ats

\* The steps on the file itself, from the mode to the sync.
LEMMA MakeKeeps ==
  ASSUME FilesAssumption, FInv, NEW w \in Live,
         \/ SetMode(w)
         \/ WriteTemp(w)
         \/ Give(w)
         \/ Sync(w)
  PROVE  FInv'
<1>1. PICK at \in {"write", "give", "sync", "publish"} :
        /\ Moves(w, at)
        /\ at = "give" => WriteTemp(w) /\ node[w].text # "empty"
        /\ at = "sync" => Give(w)
        /\ at = "publish" => Sync(w)
        /\ at = "write" => SetMode(w) \/ (WriteTemp(w) /\ node[w].text = "empty")
  BY GoMoves, LiveRun DEF SetMode, WriteTemp, Give, Sync, Ats
<1>2. /\ writer[w].at \in {"mode", "write", "give", "sync"}
      /\ SetMode(w) => writer[w].at = "mode"
      /\ WriteTemp(w) => writer[w].at = "write"
      /\ Give(w) => writer[w].at = "give"
      /\ Sync(w) => writer[w].at = "sync"
      /\ UNCHANGED <<dir, disk, umask>>
      /\ \A n \in Nodes : n # w => node'[n] = node[n]
      /\ node[w] \in File /\ w \in Nodes /\ DOMAIN node = Nodes
      /\ node' = [node EXCEPT ![w] = node'[w]]
  BY LiveRun DEF SetMode, WriteTemp, Give, Sync, InPlace, Shape
<1>3. /\ node'[w].text = IF WriteTemp(w) THEN IF node[w].text = "empty" THEN "part" ELSE "whole"
                         ELSE node[w].text
      /\ node'[w].mode = IF SetMode(w) THEN ModeAsked(writer[w].op) ELSE node[w].mode
      /\ node'[w].owner = IF Give(w) THEN writer[w].owner ELSE node[w].owner
      /\ node'[w].durable = IF Sync(w) THEN TRUE ELSE node[w].durable
      /\ node'[w] = [text |-> node'[w].text, mode |-> node'[w].mode,
                     owner |-> node'[w].owner, durable |-> node'[w].durable]
  <2>1. CASE SetMode(w)
    BY <1>2, <2>1 DEF SetMode, WriteTemp, Give, Sync, File
  <2>2. CASE WriteTemp(w)
    BY <1>2, <2>2 DEF SetMode, WriteTemp, Give, Sync, File
  <2>3. CASE Give(w)
    BY <1>2, <2>3 DEF SetMode, WriteTemp, Give, Sync, File
  <2>4. CASE Sync(w)
    BY <1>2, <2>4 DEF SetMode, WriteTemp, Give, Sync, File
  <2> QED
    BY <2>1, <2>2, <2>3, <2>4
<1>4. node' \in [Nodes -> File]
  <2>1. writer[w].owner \in {"root", "user", Nil} /\ ModeAsked(writer[w].op) \in SUBSET {"owner", "others"}
    BY LiveRun DEF Shape, Run, ModeAsked
  <2>2. /\ node'[w].text \in {"empty", "part", "whole", Nil}
        /\ node'[w].mode \in SUBSET {"owner", "others"}
        /\ node'[w].owner \in {"root", "user", Nil}
    BY <1>2, <1>3, <2>1 DEF File
  <2>3. node'[w].durable \in BOOLEAN
    BY <1>2, <1>3, Zenon DEF File
  <2>4. node'[w] \in File
    BY <1>3, <2>2, <2>3, Zenon DEF File
  <2> QED
    BY <1>2, <2>4, LiveRun DEF Shape
<1>5. Placed(w)'
  BY <1>1, <1>2, LiveRun, SameTemps DEF Placed, Moves, Making, Unmade
<1>6. Progress(w)'
  BY <1>1, <1>2, <1>3, LiveRun DEF Progress, Moves, Nil
<1>7. w \notin {dir'[Target], dir[Target], disk[Target]}
  BY <1>2, NamedFit DEF Out
<1>8. Linked(w)' => FALSE
  BY <1>1 DEF Linked, Moves
<1> QED
  BY <1>1, <1>2, <1>4, <1>5, <1>6, <1>7, <1>8, LiveRun, OneRun DEF Shape, Ats

LEMMA PublishKeeps ==
  ASSUME FilesAssumption, FInv, NEW w \in Live, Publish(w)
  PROVE  FInv'
<1>1. /\ writer[w].at = "publish" /\ dir[Temp(w)] = w
      /\ UNCHANGED <<disk, node, umask>>
      /\ Fit(w)
      /\ \A n \in Entries : dir[n] = w => n = Temp(w)
  BY LiveRun DEF Publish, InPlace, Placed, Progress, Fit, Making
<1>2. CASE writer[w].op \notin MustBeNew
  <2>1. /\ Moves(w, "flush")
        /\ \A n \in Entries : dir'[n] = IF n = Temp(w) THEN Nil
                                      ELSE IF n = Target THEN w ELSE dir[n]
        /\ dir' \in [Entries -> Nodes \cup {Nil}]
    BY <1>1, <1>2, GoMoves, LiveRun DEF Publish, Shape, Ats
  <2>2. Placed(w)' /\ Progress(w)'
    BY <1>1, <2>1, LiveRun, SameTemps DEF Placed, Progress, Moves, Making, Unmade
  <2>3. Out(w)' /\ Fit(w)'
    BY <1>1, <2>1 DEF Out, Fit, Moves
  <2>4. Linked(w)' => FALSE
    BY <1>2, <2>1 DEF Linked, Moves
  <2> QED
    BY <1>1, <1>2, <2>1, <2>2, <2>3, <2>4, LiveRun, OneRun DEF Shape, Ats
<1>3. CASE writer[w].op \in MustBeNew
  <2>1. /\ Moves(w, "tidy")
        /\ writer'[w].fault <=> dir[Target] # Nil
        /\ \A n \in Entries : dir'[n] = IF n = Target /\ dir[Target] = Nil THEN w ELSE dir[n]
        /\ dir' \in [Entries -> Nodes \cup {Nil}]
    BY <1>1, <1>3, LiveRun DEF Publish, Shape, Ats, Moves, Run
  <2>2. Placed(w)' /\ Progress(w)'
    BY <1>1, <2>1, LiveRun, SameTemps DEF Placed, Progress, Moves, Making, Unmade
  <2>3. w \in {dir'[Target], dir[Target], disk[Target]} => Out(w)' /\ Fit(w)'
    <3>1. w \notin {dir[Target], disk[Target]}
      BY <1>1, NamedFit DEF Out
    <3>2. Fit(w)'
      BY <1>1, <2>1 DEF Fit, Moves
    <3>3. dir'[Target] = w => Out(w)'
      BY <2>1, <3>1, LiveRun DEF Out, Moves
    <3> QED
      BY <3>1, <3>2, <3>3
  <2>4. Linked(w)' => dir[Target] = Nil /\ dir'[Target] = w
    BY <2>1, LiveRun DEF Linked, Moves
  <2>5. dir'[Target] # dir[Target] => dir[Target] = Nil
    BY <2>1, LiveRun
  <2> QED
    BY <1>1, <2>1, <2>2, <2>3, <2>4, <2>5, LiveRun, OneRun DEF Shape, Ats
<1> QED
  BY <1>2, <1>3

LEMMA TidyKeeps ==
  ASSUME FilesAssumption, FInv, NEW w \in Live, Tidy(w)
  PROVE  FInv'
<1>1. PICK at \in {"failed", "flush"} :
        /\ Moves(w, at)
        /\ at = "failed" <=> writer[w].fault
  BY GoMoves, LiveRun DEF Tidy, Ats
<1>2. /\ writer[w].at = "tidy" /\ dir[Temp(w)] = w
      /\ \A n \in Entries : dir'[n] = IF n = Temp(w) THEN Nil ELSE dir[n]
      /\ dir' \in [Entries -> Nodes \cup {Nil}]
      /\ UNCHANGED <<disk, node, umask>>
  BY LiveRun DEF Tidy, Unlink, InPlace, Shape, Placed
<1>3. Placed(w)' /\ Progress(w)'
  BY <1>1, <1>2, LiveRun, SameTemps DEF Placed, Progress, Moves, Making, Unmade
<1>4. w \in {dir'[Target], dir[Target], disk[Target]} => Out(w)' /\ Fit(w)'
  <2>1. w \in {dir'[Target], dir[Target], disk[Target]} => Out(w) /\ Fit(w)
    BY <1>2, LiveRun, NamedFit
  <2> QED
    BY <1>1, <1>2, <2>1 DEF Out, Fit, Moves
<1>5. Linked(w)' => Linked(w)
  BY <1>1, <1>2 DEF Linked, Moves
<1> QED
  BY <1>1, <1>2, <1>3, <1>4, <1>5, LiveRun, OneRun DEF Shape, Ats

LEMMA FlushKeeps ==
  ASSUME FilesAssumption, FInv, NEW w \in Live, Flush(w)
  PROVE  FInv'
<1>1. /\ Moves(w, "done") /\ writer[w].at = "flush"
      /\ UNCHANGED <<dir, node, umask>> /\ disk' \in {disk, dir}
  BY GoMoves, LiveRun DEF Flush, Ats
<1>2. Placed(w)' /\ Progress(w)'
  BY <1>1, LiveRun, SameTemps DEF Placed, Progress, Moves, Making, Unmade
<1>3. w \in {dir'[Target], dir[Target], disk[Target]} => Out(w)' /\ Fit(w)'
  BY <1>1, NamedFit DEF Out, Fit, Moves
<1>4. Linked(w)' => Linked(w)
  BY <1>1 DEF Linked, Moves
<1> QED
  BY <1>1, <1>2, <1>3, <1>4, LiveRun, OneRun DEF Shape, Ats

LEMMA FailKeeps ==
  ASSUME FilesAssumption, FInv, NEW w \in Live, StepFails(w)
  PROVE  FInv'
<1>1. /\ Moves(w, "tidy") /\ writer'[w].fault = TRUE
      /\ writer[w].at \in Making
      /\ UNCHANGED <<dir, disk, node, umask>>
  <2>1. /\ writer \in [Writers -> Run] /\ writer[w] \in Run /\ w \in Writers
        /\ "tidy" \in Ats
    BY LiveRun DEF Shape, Ats
  <2>2. /\ writer' = [writer EXCEPT ![w].at = "tidy", ![w].fault = TRUE]
        /\ writer[w].at \in Making /\ UNCHANGED <<dir, disk, node, umask>>
    BY DEF StepFails, Making
  <2>3. [writer[w] EXCEPT !.at = "tidy", !.fault = TRUE] \in Run
    BY <2>1 DEF Run
  <2>4. /\ writer'[w] = [writer[w] EXCEPT !.at = "tidy", !.fault = TRUE]
        /\ \A v \in Writers : v # w => writer'[v] = writer[v]
    BY <2>1, <2>2
  <2>5. writer' \in [Writers -> Run]
    BY <2>1, <2>2, <2>3
  <2>6. /\ writer'[w].at = "tidy" /\ writer'[w].fault = TRUE /\ writer'[w].op = writer[w].op
        /\ writer'[w].pid = writer[w].pid /\ writer'[w].owner = writer[w].owner
    BY <2>1, <2>4 DEF Run
  <2> QED
    BY <2>2, <2>4, <2>5, <2>6 DEF Moves
<1>2. Placed(w)' /\ Progress(w)'
  <2>1. Placed(w) /\ Progress(w) /\ Temp(w)' = Temp(w)
    BY <1>1, LiveRun, SameTemps
  <2>2. Placed(w)'
    BY <1>1, <2>1 DEF Placed, Moves, Making, Unmade
  <2>3. Progress(w)'
    BY <1>1, <2>1 DEF Progress, Moves
  <2> QED
    BY <2>2, <2>3
<1>3. w \notin {dir'[Target], dir[Target], disk[Target]}
  BY <1>1, NamedFit DEF Out, Making
<1>4. Linked(w)' => FALSE
  BY <1>1 DEF Linked, Moves
<1> QED
  BY <1>1, <1>2, <1>3, <1>4, LiveRun, OneRun DEF Shape, Ats

\* A run starts: nobody alive uses the temporary name it will use.
LEMMA BeginKeeps ==
  ASSUME FilesAssumption, FInv,
         NEW w \in Writers, NEW op \in Operations, NEW pid \in Pids, NEW owner \in {"root", "user"},
         Begin(w, op, pid, owner)
  PROVE  FInv'
<1>1. PICK at \in {"clear", "create"} :
        writer' = [writer EXCEPT ![w] = [at |-> at, op |-> op, pid |-> pid, owner |-> owner,
                                         fault |-> FALSE]]
  BY DEF Begin
<1>2. /\ writer[w].at = "idle" /\ Shape
      /\ \A v \in Live : writer[v].pid # pid
      /\ op \in InDotTmp => \A v \in Live : Temp(v) # Shared
      /\ UNCHANGED <<dir, disk, node, umask>>
  BY DEF Begin, InPlace, FInv
<1>3. /\ writer' \in [Writers -> Run]
      /\ \A v \in Writers : v # w => writer'[v] = writer[v] /\ Temp(v)' = Temp(v)
      /\ writer'[w].at = at /\ writer'[w].op = op /\ writer'[w].pid = pid
      /\ writer'[w].fault = FALSE
  BY <1>1, <1>2 DEF Shape, Run, Ats, Temp
<1>4. Shape'
  BY <1>2, <1>3 DEF Shape
<1>5. Temps'
  <2>1. \A v \in Live : v \in Writers /\ v # w /\ Temp(v) # Temp(w)'
    <3>1. \A v \in Live : v \in Writers /\ v # w /\ writer[v].pid \in Pids
      BY <1>2 DEF Live, Over, Shape
    <3> QED
      BY <1>2, <1>3, <3>1 DEF Temp, FilesAssumption
  <2>2. Live' \subseteq Live \cup {w}
    BY <1>3 DEF Live
  <2> QED
    BY <1>3, <2>1, <2>2 DEF FInv, Temps
<1>6. ASSUME NEW v \in Writers PROVE Placed(v)' /\ Progress(v)'
  <2>1. Placed(v) /\ Progress(v)
    BY <1>6 DEF FInv
  <2>2. CASE v = w
    BY <1>2, <1>3, <2>1, <2>2 DEF Placed, Progress, Unmade, Making
  <2>3. CASE v # w
    BY <1>2, <1>3, <2>1, <2>3 DEF Placed, Progress
  <2> QED
    BY <2>2, <2>3
<1>7. GoodTarget'
  <2>1. w \notin {dir[Target], disk[Target]}
    BY <1>2 DEF FInv, Placed, Unmade, Entries
  <2> QED
    BY <1>2, <1>3, <2>1 DEF FInv, GoodTarget, Out, Fit
<1>8. Links'
  <2>1. \A v \in Writers : Linked(v)' => v # w /\ Linked(v)
    BY <1>3 DEF Linked
  <2>2. \A v \in Writers : writer[v].op \in Operations \ MustBeNew =>
                           writer'[v].op \in Operations \ MustBeNew
    BY <1>2, <1>3 DEF Shape, Operations, Nil
  <2> QED
    BY <1>2, <2>1, <2>2 DEF FInv, Links
<1> QED
  BY <1>4, <1>5, <1>6, <1>7, <1>8 DEF FInv

\* What was not flushed may be lost with the power; nothing runs on.
LEMMA CutKeeps ==
  ASSUME FilesAssumption, FInv, PowerCut
  PROVE  FInv'
<1>1. /\ \A n \in Entries : dir'[n] \in {dir[n], disk[n]}
      /\ dir' \in [Entries -> Nodes \cup {Nil}] /\ disk' = dir' /\ umask' = umask
      /\ Shape
  BY DEF PowerCut, FInv, Shape
<1>2. /\ DOMAIN node' = Nodes
      /\ \A n \in Nodes :
           node'[n] = IF node[n].durable \/ node[n].text = Nil THEN node[n]
                      ELSE [node[n] EXCEPT !.text = "part", !.durable = TRUE]
  BY DEF PowerCut
<1>3. ASSUME NEW n \in Nodes
      PROVE  /\ node'[n] \in File /\ node'[n].mode = node[n].mode
             /\ node'[n].text # Nil => node[n].text # Nil
             /\ node[n].durable \/ node[n].text = Nil => node'[n] = node[n]
  <2>1. node[n] \in File
    BY <1>1 DEF Shape
  <2>2. CASE node[n].durable \/ node[n].text = Nil
    BY <1>2, <2>1, <2>2
  <2>3. CASE ~(node[n].durable \/ node[n].text = Nil)
    <3>1. node'[n] = [node[n] EXCEPT !.text = "part", !.durable = TRUE]
      BY <1>2, <2>3
    <3>2. node'[n] = [text |-> "part", mode |-> node[n].mode, owner |-> node[n].owner,
                      durable |-> TRUE]
      BY <2>1, <3>1 DEF File
    <3>3. node[n].mode \in SUBSET {"owner", "others"} /\ node[n].owner \in {"root", "user", Nil}
      BY <2>1 DEF File
    <3>4. node'[n] \in File
      BY <3>2, <3>3 DEF File
    <3> QED
      BY <2>3, <3>2, <3>4
  <2> QED
    BY <2>2, <2>3
<1>4. /\ writer' \in [Writers -> Run]
      /\ \A w \in Writers :
           IF writer[w].at = "idle" THEN writer'[w] = Idle
           ELSE /\ writer'[w].at = "killed" /\ writer'[w].op = writer[w].op
                /\ writer'[w].pid = writer[w].pid /\ writer'[w].owner = writer[w].owner
  <2>1. Idle \in Run
    BY DEF Idle, Run, Ats
  <2>2. writer' = [w \in Writers |-> IF writer[w].at = "idle" THEN Idle
                                     ELSE [writer[w] EXCEPT !.at = "killed"]]
    BY DEF PowerCut
  <2>3. ASSUME NEW w \in Writers
        PROVE  /\ writer'[w] = IF writer[w].at = "idle" THEN Idle
                               ELSE [writer[w] EXCEPT !.at = "killed"]
               /\ [writer[w] EXCEPT !.at = "killed"] \in Run
               /\ [writer[w] EXCEPT !.at = "killed"].at = "killed"
               /\ [writer[w] EXCEPT !.at = "killed"].op = writer[w].op
               /\ [writer[w] EXCEPT !.at = "killed"].pid = writer[w].pid
               /\ [writer[w] EXCEPT !.at = "killed"].owner = writer[w].owner
    <3>1. writer[w] \in Run
      BY <1>1 DEF Shape
    <3>2. writer'[w] = IF writer[w].at = "idle" THEN Idle ELSE [writer[w] EXCEPT !.at = "killed"]
      BY <2>2
    <3>3. [writer[w] EXCEPT !.at = "killed"] \in Run
      BY <3>1 DEF Run, Ats
    <3> QED
      BY <3>1, <3>2, <3>3 DEF Run
  <2>4. writer' \in [Writers -> Run]
    BY <2>1, <2>2, <2>3
  <2> QED
    BY <2>3, <2>4
<1>5. Shape'
  <2>1. node' \in [Nodes -> File]
    BY <1>2, <1>3 DEF PowerCut
  <2> QED
    BY <1>1, <1>4, <2>1 DEF Shape, Idle
<1>6. Temps'
  BY <1>4 DEF Temps, Live, Over, Idle
<1>7. ASSUME NEW w \in Writers PROVE Placed(w)' /\ Progress(w)'
  <2>1. Placed(w) /\ Progress(w) /\ w \in Nodes
    BY <1>7 DEF FInv, Nodes
  <2>2. CASE writer[w].at = "idle"
    <3>1. node[w].text = Nil /\ node'[w] = node[w] /\ \A n \in Entries : dir'[n] # w /\ disk'[n] # w
      BY <1>1, <1>3, <2>1, <2>2 DEF Placed, Unmade
    <3> QED
      BY <1>4, <2>2, <3>1 DEF Placed, Progress, Idle, Making
  <2>3. CASE writer[w].at # "idle"
    BY <1>3, <1>4, <2>1, <2>3 DEF Placed, Progress, Making, Unmade
  <2> QED
    BY <2>2, <2>3
<1>8. GoodTarget'
  <2>1. Target \in Entries /\ Old \in Nodes /\ Writers \subseteq Nodes
    BY DEF Entries, Nodes
  <2>2. dir'[Target] \in {dir[Target], disk[Target]} /\ disk'[Target] = dir'[Target]
    BY <1>1, <2>1
  <2>3. node'[Old] = node[Old]
    BY <1>3, <2>1 DEF FInv, GoodTarget
  <2>4. \A w \in Writers : Out(w) /\ Fit(w) => Out(w)' /\ Fit(w)'
    BY <1>3, <1>4, <2>1 DEF Out, Fit
  <2> QED
    BY <2>2, <2>3, <2>4 DEF FInv, GoodTarget
<1>9. Links'
  <2>1. \A w \in Writers : ~Linked(w)'
    BY <1>4 DEF Linked, Idle
  <2> QED
    BY <2>1 DEF Links
<1> QED
  BY <1>5, <1>6, <1>7, <1>8, <1>9 DEF FInv

LEMMA InitFInv == FilesAssumption /\ FilesInit => FInv
<1> SUFFICES ASSUME FilesAssumption, FilesInit PROVE FInv
  OBVIOUS
<1>1. /\ writer = [w \in Writers |-> Idle] /\ disk = dir
      /\ dir \in [Entries -> Nodes \cup {Nil}]
      /\ dir[Target] \in {Nil, Old}
      /\ \A n \in Entries \ {Target} : dir[n] \in {Nil, Stale}
      /\ umask \in {{}, {"others"}}
  BY DEF FilesInit
<1>2. /\ DOMAIN node = Nodes /\ node[Old] = Held
      /\ node[Stale] = [Held EXCEPT !.text = "part", !.mode = {"owner", "others"}]
      /\ \A w \in Writers : node[w] = NoFile
  BY DEF FilesInit, FilesAssumption, Nodes, Old, Stale
<1>3. Held \in File /\ NoFile \in File
      /\ [Held EXCEPT !.text = "part", !.mode = {"owner", "others"}] \in File
  BY DEF Held, NoFile, File
<1>4. Idle \in Run
  BY DEF Idle, Run, Ats
<1>5. Shape
  <2>1. node \in [Nodes -> File]
    BY <1>2, <1>3 DEF FilesInit, Nodes
  <2> QED
    BY <1>1, <1>4, <2>1 DEF Shape, Idle
<1>6. Temps /\ Links
  BY <1>1 DEF Temps, Live, Over, Idle, Links, Linked, Nil, MustBeNew
<1>7. ASSUME NEW w \in Writers PROVE Placed(w) /\ Progress(w)
  BY <1>1, <1>2, <1>7 DEF Placed, Progress, Idle, NoFile, Making, Unmade, FilesAssumption, Entries
<1>8. GoodTarget
  BY <1>1, <1>2 DEF GoodTarget, Held
<1> QED
  BY <1>5, <1>6, <1>7, <1>8 DEF FInv

LEMMA StepFInv == FilesAssumption /\ FInv /\ [FilesNext]_fileVars => FInv'
<1> SUFFICES ASSUME FilesAssumption, FInv, [FilesNext]_fileVars PROVE FInv'
  OBVIOUS
<1>1. ASSUME NEW w \in Writers,
             \/ Clear(w) \/ CreateTemp(w) \/ CreateRefused(w) \/ SetMode(w) \/ WriteTemp(w) \/ Give(w)
             \/ Sync(w) \/ Publish(w) \/ Tidy(w) \/ Flush(w)
             \/ StartFails(w) \/ StepFails(w) \/ HalfFails(w) \/ Killed(w)
      PROVE  FInv'
  <2>1. w \in Live
    BY <1>1 DEF Live, Over, Clear, CreateTemp, CreateRefused, SetMode, WriteTemp, Give, Sync, Publish, Tidy,
                Flush, StartFails, StepFails, HalfFails, Killed
  <2> QED
    BY <1>1, <2>1, EndsEarly, ClearKeeps, CreateKeeps, MakeKeeps, PublishKeeps, TidyKeeps,
       FlushKeeps, FailKeeps, HalfKeeps
<1>2. ASSUME NEW w \in Writers, NEW op \in Operations, NEW pid \in Pids,
             NEW owner \in {"root", "user"}, Begin(w, op, pid, owner)
      PROVE  FInv'
  BY <1>2, BeginKeeps
<1>3. CASE PowerCut
  BY <1>3, CutKeeps
<1>4. CASE UNCHANGED fileVars
  <2>1. Shape'
    BY <1>4 DEF fileVars, FInv, Shape
  <2>2. Temps' /\ Links'
    BY <1>4 DEF fileVars, FInv, Temps, Live, Temp, Links, Linked
  <2>3. ASSUME NEW w \in Writers PROVE Placed(w)'
    BY <1>4 DEF fileVars, FInv, Placed, Out, Fit, Temp
  <2>4. ASSUME NEW w \in Writers PROVE Progress(w)'
    BY <1>4 DEF fileVars, FInv, Progress, Out, Fit, Temp
  <2>5. GoodTarget'
    BY <1>4 DEF fileVars, FInv, GoodTarget, Out, Fit
  <2> QED
    BY <2>1, <2>2, <2>3, <2>4, <2>5 DEF FInv
<1> QED
  BY <1>1, <1>2, <1>3, <1>4 DEF FilesNext

LEMMA FilesInductive == ASSUME FilesAssumption PROVE FilesSpec => []FInv
<1>1. FilesInit => FInv
  BY InitFInv
<1>2. FInv /\ [FilesNext]_fileVars => FInv'
  BY StepFInv
<1> QED
  BY <1>1, <1>2, PTL DEF FilesSpec

-----------------------------------------------------------------------------
(* What follows.                                                           *)

\* The name never holds half a file, one a power cut could take apart, or one
\* that others may read or that is not its owner's yet (write_private and its
\* kin, DirHandle).
THEOREM AlwaysWhole == ASSUME FilesAssumption PROVE FilesSpec => []NeverHalf
<1>1. FInv => NeverHalf
  BY DEF FInv, GoodTarget, Fit, NeverHalf, FilesAssumption
<1> QED
  BY <1>1, FilesInductive, PTL

\* No file a run makes is readable by others from its first moment, whatever
\* lay at its temporary name and whatever the umask (create_new_with).
THEOREM AlwaysPrivate == ASSUME FilesAssumption PROVE FilesSpec => []NeverLoose
<1>1. FInv => NeverLoose
  BY DEF FInv, Progress, NeverLoose
<1> QED
  BY <1>1, FilesInductive, PTL

\* A run that fails leaves nothing of its own in the directory, or the half of a
\* pair at its .tmp; one that succeeds, nothing but the file (or_remove, write_temp,
\* link_new, prepare_private).
THEOREM NothingLeft == ASSUME FilesAssumption PROVE FilesSpec => []NothingElse
<1>1. FInv => NothingElse
  BY DEF FInv, Placed, NothingElse
<1> QED
  BY <1>1, FilesInductive, PTL

\* Of any number of runs that must find the name free, one is told that it made
\* the file, and it made it where nothing was (create_new_private, create_new).
THEOREM OneMakes == ASSUME FilesAssumption PROVE FilesSpec => []OneCreates
<1>1. FInv => OneCreates
  <2> SUFFICES ASSUME FInv PROVE OneCreates
    OBVIOUS
  <2> DEFINE created == {w \in Writers : writer[w].at = "done" /\ writer[w].op \in MustBeNew}
  <2>1. \A w \in created : w \in Writers /\ Linked(w)
    BY DEF Linked
  <2>2. Cardinality(created) <= 1
    <3>1. CASE created = {}
      BY <3>1, FS_EmptySet
    <3>2. CASE created # {}
      <4>1. PICK w \in created : created = {w}
        BY <2>1, <3>2 DEF FInv, Links
      <4>2. Cardinality({w}) = 1
        BY FS_Singleton
      <4> HIDE DEF created
      <4> QED
        BY <4>1, <4>2
    <3> QED
      BY <3>1, <3>2
  <2>3. created # {} => dir[Target] # Old
    BY <2>1 DEF FInv, Links, FilesAssumption
  <2>4. \A w \in created :
          dir[Target] = w \/ \E v \in Writers : writer[v].op # Nil /\ writer[v].op \notin MustBeNew
    BY <2>1 DEF FInv, Links, Operations, Nil
  <2> QED
    BY <2>2, <2>3, <2>4 DEF OneCreates
<1> QED
  BY <1>1, FilesInductive, PTL

\* All of it: what the run of the machine's set-up checks of one file
\* (fsutil.rs).
THEOREM FilesStayWhole == ASSUME FilesAssumption PROVE FilesSpec => []FilesWhole
<1>1. NeverHalf /\ NeverLoose /\ NothingElse /\ OneCreates => FilesWhole
  BY DEF FilesWhole
<1> QED
  BY <1>1, AlwaysWhole, AlwaysPrivate, NothingLeft, OneMakes, PTL

-----------------------------------------------------------------------------
(* Where the files of a device are, whoever typed the command.              *)

P == INSTANCE Places

\* The names that anago itself puts in a path.
OurNames == {"/", "root", "anago", ".config"}

\* A variable that is set, or not: a path is a list of names.
Option(S) == {{}} \cup {{path} : path \in Seq(S)}

\* An option holds at most one thing.
LEMMA FewPlaces ==
  ASSUME NEW W, NEW S \in Option(W)
  PROVE  P!Cardinality(S) <= 1
<1>1. P!Cardinality(S) = Cardinality(S)
  BY Zenon DEF P!Cardinality, Cardinality
<1>2. S = {} \/ \E path : S = {path}
  BY DEF Option
<1>3. Cardinality({}) = 0 /\ \A path : Cardinality({path}) = 1
  BY FS_EmptySet, FS_Singleton, Zenon
<1>4. Cardinality(S) = 0 \/ Cardinality(S) = 1
  BY <1>2, <1>3, Zenon
<1> QED
  BY <1>1, <1>4

\* Where nothing of root's is: neither there nor further down.
NotOfRoot(option) == \A path \in option : Len(path) >= 2 => SubSeq(path, 1, 2) # P!Root

\* What counts of an option is an option: an absolute path, or nothing.
LEMMA AbsoluteOptions ==
  ASSUME NEW W, NEW option \in Option(W)
  PROVE  /\ P!Absolute(option) \in Option(W)
         /\ \A path \in P!Absolute(option) : path \in Seq(W) /\ Len(path) >= 1 /\ path[1] = "/"
         /\ P!Absolute(P!Absolute(option)) = P!Absolute(option)
<1>1. option = {} \/ \E path \in Seq(W) : option = {path}
  BY DEF Option
<1>2. P!Absolute(option) \subseteq option
  BY DEF P!Absolute
<1>3. P!Absolute(option) \in Option(W)
  BY <1>1, <1>2 DEF Option
<1>4. \A path \in P!Absolute(option) : path \in Seq(W) /\ path # <<>> /\ path[1] = "/"
  BY <1>1, <1>2 DEF P!Absolute
<1>5. \A path \in Seq(W) : path # <<>> => Len(path) >= 1
  OBVIOUS
<1>6. P!Absolute(P!Absolute(option)) = P!Absolute(option)
  BY DEF P!Absolute
<1> QED
  BY <1>3, <1>4, <1>5, <1>6

\* What lies in root's home: the second name of an absolute path says it.
LEMMA RootBegins ==
  ASSUME NEW W, OurNames \subseteq W, NEW s \in Seq(W), Len(s) >= 2, s[1] = "/"
  PROVE  SubSeq(s, 1, 2) = P!Root <=> s[2] = "root"
<1> DEFINE begin == SubSeq(s, 1, 2)
<1>1. begin \in Seq(W) /\ Len(begin) = 2 /\ begin[1] = s[1] /\ begin[2] = s[2]
  BY SubSeqProperties
<1>2. P!Root \in Seq(W) /\ Len(P!Root) = 2 /\ P!Root[1] = "/" /\ P!Root[2] = "root"
  BY DEF P!Root, OurNames
<1> HIDE DEF begin
<1>3. begin = P!Root <=> begin[1] = P!Root[1] /\ begin[2] = P!Root[2]
  <2>1. ASSUME begin[1] = P!Root[1], begin[2] = P!Root[2]
        PROVE  \A i \in 1 .. Len(begin) : begin[i] = P!Root[i]
    BY <1>1, <2>1
  <2> QED
    BY <1>1, <1>2, <2>1, SeqEqual
<1> QED
  BY <1>1, <1>2, <1>3 DEF begin

\* A directory below an absolute path is an absolute path, and root's only where
\* that path was.
LEMMA Below ==
  ASSUME NEW W, OurNames \subseteq W, NEW path \in Seq(W), Len(path) >= 1, path[1] = "/",
         NEW place, place \in {Append(path, "anago"), path \o <<".config", "anago">>}
  PROVE  /\ place \in Seq(W) /\ place # <<>> /\ place[1] = "/"
         /\ Len(place) >= 2
         /\ SubSeq(place, 1, 2) = P!Root => Len(path) >= 2 /\ SubSeq(path, 1, 2) = P!Root
<1>1. path \in Seq(W) /\ Len(path) \in Nat
  OBVIOUS
<1>2. CASE place = Append(path, "anago")
  <2>1. /\ place \in Seq(W) /\ Len(place) = Len(path) + 1
        /\ \A i \in 1 .. Len(path) : place[i] = path[i]
        /\ place[Len(path) + 1] = "anago"
    BY <1>1, <1>2, AppendProperties DEF OurNames
  <2> QED
    BY <1>1, <2>1, RootBegins
<1>3. CASE place = path \o <<".config", "anago">>
  <2>1. <<".config", "anago">> \in Seq(W) /\ Len(<<".config", "anago">>) = 2
    BY DEF OurNames
  <2>2. /\ place \in Seq(W) /\ Len(place) = Len(path) + 2
        /\ \A i \in 1 .. Len(path) : place[i] = path[i]
        /\ place[Len(path) + 1] = ".config"
    <3>1. /\ place \in Seq(W) /\ Len(place) = Len(path) + 2
          /\ \A i \in 1 .. Len(place) : place[i] = IF i <= Len(path) THEN path[i]
                                              ELSE <<".config", "anago">>[i - Len(path)]
      BY <1>1, <1>3, <2>1, ConcatProperties
    <3>2. Len(path) + 1 \in 1 .. Len(place) /\ \A i \in 1 .. Len(path) : i \in 1 .. Len(place)
      BY <1>1, <3>1
    <3> QED
      BY <1>1, <3>1, <3>2
  <2> QED
    BY <1>1, <2>2, RootBegins
<1> QED
  BY <1>2, <1>3

\* client_config_dir: the directory is one, or none.
LEMMA DirOfOne ==
  ASSUME NEW W, OurNames \subseteq W, NEW xdg \in Option(W), NEW home \in Option(W)
  PROVE  /\ P!ClientConfigDir(xdg, home) \in Option(W)
         /\ \A place \in P!ClientConfigDir(xdg, home) : place # <<>> /\ place[1] = "/"
         /\ NotOfRoot(xdg) /\ NotOfRoot(home) =>
              \A place \in P!ClientConfigDir(xdg, home) : SubSeq(place, 1, 2) # P!Root
<1> DEFINE dirs == P!ClientConfigDir(xdg, home)
<1>1. P!Absolute(xdg) \in Option(W) /\ P!Absolute(home) \in Option(W)
  BY AbsoluteOptions
<1>2. CASE P!Absolute(xdg) # {}
  <2>1. PICK path \in Seq(W) : P!Absolute(xdg) = {path} /\ Len(path) >= 1 /\ path[1] = "/"
    BY <1>1, <1>2, AbsoluteOptions DEF Option
  <2>2. dirs = {Append(path, "anago")}
    BY <1>2, <2>1 DEF P!ClientConfigDir
  <2>3. path \in xdg
    BY <2>1 DEF P!Absolute
  <2> HIDE DEF dirs
  <2> DEFINE place == Append(path, "anago")
  <2>4. /\ place \in Seq(W) /\ place # <<>> /\ place[1] = "/"
        /\ SubSeq(place, 1, 2) = P!Root => Len(path) >= 2 /\ SubSeq(path, 1, 2) = P!Root
    BY <2>1, Below
  <2> HIDE DEF place
  <2>5. dirs = {place} /\ dirs \in Option(W)
    BY <2>2, <2>4 DEF Option, place
  <2>6. NotOfRoot(xdg) => SubSeq(place, 1, 2) # P!Root
    BY <2>3, <2>4 DEF NotOfRoot
  <2> QED
    BY <2>4, <2>5, <2>6 DEF dirs
<1>3. CASE P!Absolute(xdg) = {} /\ P!Absolute(home) # {}
  <2>1. PICK path \in Seq(W) : P!Absolute(home) = {path} /\ Len(path) >= 1 /\ path[1] = "/"
    BY <1>1, <1>3, AbsoluteOptions DEF Option
  <2>2. dirs = {path \o <<".config", "anago">>}
    BY <1>3, <2>1 DEF P!ClientConfigDir
  <2>3. path \in home
    BY <2>1 DEF P!Absolute
  <2> HIDE DEF dirs
  <2> DEFINE place == path \o <<".config", "anago">>
  <2>4. /\ place \in Seq(W) /\ place # <<>> /\ place[1] = "/"
        /\ SubSeq(place, 1, 2) = P!Root => Len(path) >= 2 /\ SubSeq(path, 1, 2) = P!Root
    BY <2>1, Below
  <2> HIDE DEF place
  <2>5. dirs = {place} /\ dirs \in Option(W)
    BY <2>2, <2>4 DEF Option, place
  <2>6. NotOfRoot(home) => SubSeq(place, 1, 2) # P!Root
    BY <2>3, <2>4 DEF NotOfRoot
  <2> QED
    BY <2>4, <2>5, <2>6 DEF dirs
<1>4. CASE P!Absolute(xdg) = {} /\ P!Absolute(home) = {}
  <2>1. dirs = {}
    BY <1>4 DEF P!ClientConfigDir
  <2> QED
    BY <2>1 DEF Option
<1> QED
  BY <1>2, <1>3, <1>4

\* What sudo leaves of an environment, and what that says of who typed it.
LEMMA Invoked ==
  ASSUME NEW person, NEW passwd, NEW keeps_xdg, NEW keeps_home, person.uid \in Nat,
         NEW sudo, sudo = P!Sudo(person, keeps_xdg, keeps_home)
  PROVE  /\ person.uid = 0 => P!InvokingUser(sudo, passwd) = {}
         /\ person.uid # 0 =>
              P!InvokingUser(sudo, passwd) =
                {[uid |-> person.uid, gid |-> person.uid, home |-> P!HomeOf(passwd, person.uid)]}
<1>1. sudo.sudo_uid = {person.uid} /\ sudo.sudo_gid = {person.uid}
  BY DEF P!Sudo
<1>2. /\ sudo.sudo_gid \subseteq Nat /\ sudo.sudo_gid # {}
      /\ (CHOOSE g \in sudo.sudo_gid : TRUE) = person.uid
  BY <1>1
<1>3. CASE person.uid = 0
  <2>1. {n \in sudo.sudo_uid : n \in Nat /\ n # 0} = {}
    BY <1>1, <1>3
  <2> QED
    BY <1>3, <2>1 DEF P!InvokingUser
<1>4. CASE person.uid # 0
  <2>1. {n \in sudo.sudo_uid : n \in Nat /\ n # 0} = {person.uid}
    BY <1>1, <1>4
  <2> QED
    BY <1>2, <1>4, <2>1 DEF P!InvokingUser
<1> QED
  BY <1>3, <1>4

\* Where the directory of a device is in a person's own session, and through sudo.
LEMMA DirsOf ==
  ASSUME NEW person, NEW passwd, NEW keeps_xdg, NEW keeps_home, person.uid \in Nat,
         NEW sudo, sudo = P!Sudo(person, keeps_xdg, keeps_home),
         NEW home, home = P!HomeOf(passwd, person.uid)
  PROVE  /\ P!ClientDir("unix", P!Session(person), passwd) =
              IF P!Absolute(person.xdg) # {} THEN P!ClientConfigDir(person.xdg, {})
              ELSE P!ClientConfigDir({}, person.home)
         /\ P!ClientDir("unix", sudo, passwd) =
              IF P!Absolute(sudo.xdg) # {} THEN P!ClientConfigDir(sudo.xdg, {})
              ELSE IF person.uid # 0 /\ home # {} THEN P!ClientConfigDir({}, home)
              ELSE P!ClientConfigDir({}, sudo.home)
<1>1. P!InvokingUser(P!Session(person), passwd) = {}
  BY DEF P!InvokingUser, P!Session
<1>2. P!ClientDir("unix", P!Session(person), passwd) =
        IF P!Absolute(person.xdg) # {} THEN P!ClientConfigDir(person.xdg, {})
        ELSE P!ClientConfigDir({}, person.home)
  <2>1. P!Session(person).xdg = person.xdg /\ P!Session(person).home = person.home
    BY DEF P!Session
  <2> QED
    BY <1>1, <2>1 DEF P!ClientDir, P!ClientConfigDirFor
<1>3. CASE person.uid = 0
  <2>1. P!InvokingUser(sudo, passwd) = {}
    BY <1>3, Invoked
  <2>2. P!ClientDir("unix", sudo, passwd) =
          IF P!Absolute(sudo.xdg) # {} THEN P!ClientConfigDir(sudo.xdg, {})
          ELSE P!ClientConfigDir({}, sudo.home)
    BY <2>1 DEF P!ClientDir, P!ClientConfigDirFor
  <2> QED
    BY <1>2, <1>3, <2>2
<1>4. CASE person.uid # 0
  <2> DEFINE user == [uid |-> person.uid, gid |-> person.uid, home |-> home]
             users == P!InvokingUser(sudo, passwd)
  <2>1. users = {user}
    BY <1>4, Invoked
  <2>2. user.home = home
    OBVIOUS
  <2> HIDE DEF user, users
  <2>3. /\ (\E u \in users : u.home # {}) <=> home # {}
        /\ UNION {P!ClientConfigDir({}, u.home) : u \in users} = P!ClientConfigDir({}, home)
    BY <2>1, <2>2
  <2>4. P!ClientDir("unix", sudo, passwd) =
          IF P!Absolute(sudo.xdg) # {} THEN P!ClientConfigDir(sudo.xdg, {})
          ELSE IF home # {} THEN P!ClientConfigDir({}, home)
          ELSE P!ClientConfigDir({}, sudo.home)
    BY <2>3 DEF P!ClientDir, P!ClientConfigDirFor, users
  <2> QED
    BY <1>2, <1>4, <2>4
<1> QED
  BY <1>3, <1>4

\* For every person, password database and way of calling sudo, what
\* `sudo anago join` made is found again (paths.rs, client_config_dir_for and
\* invoking_user): by that person's own session and by the schedule that was
\* installed, owned by that person, and not in root's home while the person's is
\* known - as long as neither that home nor the directory that was moved is itself
\* in root's.
THEOREM AlwaysFoundAgain ==
  ASSUME NEW W, OurNames \subseteq W,
         NEW person, person.uid \in Nat, person.xdg \in Option(W), person.home \in Option(W),
         NEW passwd, \A u \in DOMAIN passwd : passwd[u] \in Option(W),
         NEW keeps_xdg, NEW keeps_home,
         person.uid # 0 =>
           /\ NotOfRoot(person.xdg)
           /\ person.uid \in DOMAIN passwd => NotOfRoot(passwd[person.uid])
  PROVE  P!FoundAgain(person, passwd, keeps_xdg, keeps_home)
<1> DEFINE sudo == P!Sudo(person, keeps_xdg, keeps_home)
           own == P!Session(person)
           made == P!ClientDir("unix", sudo, passwd)
           later == P!ClientDir("unix", own, passwd)
           baked == P!DeviceFile("unix", sudo, passwd, {})
           bare == [xdg |-> {}, home |-> {}, sudo_uid |-> {}, sudo_gid |-> {}, appdata |-> {}]
           home == P!HomeOf(passwd, person.uid)
<1>1. /\ sudo.xdg = IF keeps_xdg THEN person.xdg ELSE {}
      /\ sudo.home = IF keeps_home THEN person.home ELSE {P!Root}
  BY DEF P!Sudo
<1>2. {} \in Option(W) /\ {P!Root} \in Option(W)
  <2>1. P!Root \in Seq(W)
    BY DEF P!Root, OurNames
  <2> QED
    BY <2>1 DEF Option
<1>3. sudo.xdg \in Option(W) /\ sudo.home \in Option(W)
  BY <1>1, <1>2
<1>4. home \in Option(W)
  BY <1>2, AbsoluteOptions DEF P!HomeOf
<1>5. made = IF P!Absolute(sudo.xdg) # {} THEN P!ClientConfigDir(sudo.xdg, {})
             ELSE IF person.uid # 0 /\ home # {} THEN P!ClientConfigDir({}, home)
             ELSE P!ClientConfigDir({}, sudo.home)
  <2>1. sudo = P!Sudo(person, keeps_xdg, keeps_home) /\ home = P!HomeOf(passwd, person.uid)
    OBVIOUS
  <2> HIDE DEF sudo, home
  <2> QED
    BY <2>1, DirsOf
<1>6. later = IF P!Absolute(person.xdg) # {} THEN P!ClientConfigDir(person.xdg, {})
              ELSE P!ClientConfigDir({}, person.home)
  BY DirsOf
<1>7. baked = {Append(place, "device.json") : place \in made}
  BY DEF P!DeviceFile
<1>8. baked # {} => P!DeviceFile("unix", bare, passwd, baked) = baked
  BY DEF P!DeviceFile
<1>9. person.uid # 0 => P!Owners(sudo, passwd) = {<<person.uid, person.uid>>}
  <2> SUFFICES ASSUME person.uid # 0
               PROVE  P!Owners(sudo, passwd) = {<<person.uid, person.uid>>}
    OBVIOUS
  <2> DEFINE user == [uid |-> person.uid, gid |-> person.uid, home |-> home]
  <2>1. sudo = P!Sudo(person, keeps_xdg, keeps_home)
    OBVIOUS
  <2>2. P!InvokingUser(sudo, passwd) = {user}
    BY <2>1, Invoked
  <2>3. user.uid = person.uid /\ user.gid = person.uid
    OBVIOUS
  <2> HIDE DEF user, sudo
  <2> QED
    BY <2>2, <2>3 DEF P!Owners
<1>10. person.uid = 0 => P!Owners(sudo, passwd) = {}
  BY Invoked DEF P!Owners
<1>11. P!Owners(own, passwd) = {}
  BY DEF P!Owners, P!InvokingUser, P!Session
<1> HIDE DEF sudo, own, made, later, baked, home
<1>12. made \in Option(W) /\ \A place \in made : place # <<>> /\ place[1] = "/"
  BY <1>2, <1>3, <1>4, <1>5, DirOfOne
<1>13. P!Cardinality(made) <= 1 /\ made = P!Absolute(made)
  BY <1>12, FewPlaces DEF P!Absolute
<1>14. person.uid # 0 /\ home # {} => \A place \in made : SubSeq(place, 1, 2) # P!Root
  <2> SUFFICES ASSUME person.uid # 0, home # {}
               PROVE  \A place \in made : SubSeq(place, 1, 2) # P!Root
    OBVIOUS
  <2>1. NotOfRoot({}) /\ NotOfRoot(sudo.xdg)
    BY <1>1 DEF NotOfRoot
  <2>2. NotOfRoot(home)
    BY DEF NotOfRoot, home, P!HomeOf, P!Absolute
  <2> QED
    BY <1>2, <1>3, <1>4, <1>5, <2>1, <2>2, DirOfOne
<1>15. ASSUME person.uid # 0, person.home # {}, home = person.home,
              P!Absolute(person.xdg) = {} \/ keeps_xdg
       PROVE  made = later /\ made # {}
  <2>1. P!Absolute(home) = home
    <3>1. P!Absolute({}) = {}
      BY DEF P!Absolute
    <3> QED
      BY <3>1, AbsoluteOptions DEF home, P!HomeOf
  <2>2. P!Absolute({}) = {}
    BY DEF P!Absolute
  <2>3. P!Absolute(sudo.xdg) = P!Absolute(person.xdg)
    BY <1>1, <1>15, <2>2
  <2>4. CASE P!Absolute(person.xdg) # {}
    <3>1. sudo.xdg = person.xdg
      BY <1>1, <1>15, <2>4
    <3>2. made = later /\ made = P!ClientConfigDir(person.xdg, {})
      BY <1>5, <1>6, <2>4, <3>1
    <3> QED
      BY <2>4, <3>2 DEF P!ClientConfigDir
  <2>5. CASE P!Absolute(person.xdg) = {}
    <3>1. made = later /\ made = P!ClientConfigDir({}, home)
      BY <1>5, <1>6, <1>15, <2>3, <2>5
    <3> QED
      BY <1>15, <2>1, <2>2, <3>1 DEF P!ClientConfigDir
  <2> QED
    BY <2>4, <2>5
<1> QED
  BY <1>7, <1>8, <1>9, <1>10, <1>11, <1>13, <1>14, <1>15
  DEF P!FoundAgain, sudo, own, made, later, baked, home
===============================================================================
