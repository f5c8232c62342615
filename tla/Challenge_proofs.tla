--------------------------- MODULE Challenge_proofs ---------------------------
(***************************************************************************)
(* The challenge.  However many hosts prove the name at once, whichever of *)
(* them fails, is killed or loses an answer, no run's record is taken      *)
(* away before the CA has looked at it, and nobody else's is taken away at *)
(* all.  A run's age is bounded by what its phase has used of its time     *)
(* limits (Timely), so it stays under Lifetime while the CA may look; its  *)
(* record is as old as it is (Kept), and what another run means to sweep   *)
(* is older than Lifetime (Swept).                                         *)
(*                                                                         *)
(* The renewal loop.  Whatever is edited and restarted around it, it waits *)
(* for its CA and for its own failures, and for nothing else.  The         *)
(* schedule in memory says what the settings on disk have earned (Earning) *)
(* and what their CA asked for (Covered), except while a command's         *)
(* certificate, which is not due for longer than any CA asks to wait, has  *)
(* replaced the one the loop read.                                         *)
(***************************************************************************)
EXTENDS Challenge, Renewal, FiniteSetTheorems, SequenceTheorems, TLAPS

Live == {"watching", "settling", "telling", "validating"}

\* A run in progress, or none.
Run == [at: Phases, by: {"http01", "dns01"}, age: Nat, since: Nat, elapsed: Nat,
        pause: Nat, stale: SUBSET Ids, record: Ids \cup {None}, served: SUBSET Servers,
        blind: BOOLEAN]

\* What it takes to delete them, one request each.
Cost(S) == Cardinality(S) * CallTime

UntilServed == 2 * CallTime + Cost(Ids) + PollTimeout + Settle

Shape ==
  /\ zone \in SUBSET Record
  /\ run \in [Hosts -> Run]
  /\ port80 \in [Hosts -> BOOLEAN]
  /\ orphans \subseteq ZoneIds

\* How old a run is at its phase, and how long it can go on.
Timely(r) ==
  /\ r.at = "ordering" =>
       r.age <= r.since /\ r.since <= CallTime /\ r.elapsed = 0 /\ r.pause = 0
  /\ r.at = "sweeping" =>
       /\ r.age + Cost(r.stale) <= CallTime + Cost(Ids) + r.since
       /\ r.since <= CallTime /\ r.elapsed = 0 /\ r.pause = 0
  /\ r.at = "watching" =>
       /\ r.age <= 2 * CallTime + Cost(Ids) + r.elapsed
       /\ r.since = 0 /\ r.elapsed + r.pause <= PollTimeout
  /\ r.at = "settling" => r.since = 0 /\ r.age + r.pause <= UntilServed
  /\ r.at = "telling" => r.age <= UntilServed + r.since /\ r.since <= CallTime
  /\ r.at = "validating" =>
       r.age <= UntilServed + CallTime + r.since /\ r.since <= Validation

\* What a run holds at its phase.
Tidy(r) ==
  /\ r.at # "sweeping" => r.stale = {}
  /\ r.at \in {"ordering", "sweeping"} => r.record = None
  /\ r.at \in {"watching", "removing"} => r.record # None
  /\ r.at = "sweeping" \/ r.record # None => r.by = "dns01"
  /\ r.at \in Live /\ r.by = "dns01" => r.record # None
  /\ r.at = "idle" => r = Idle

Looked(r) ==
  r.at \in {"settling", "telling", "validating"} /\ r.by = "dns01" => r.blind \/ r.served # {}

\* What a run means to sweep is past any run's time.
Swept(r) == \A q \in zone : q.id \in r.stale => Lifetime < q.age /\ q.age <= Oldest

\* A guarded record is nobody else's, and is one of anago's.
Held ==
  \A h \in Hosts : run[h].record # None =>
    /\ run[h].record \notin orphans
    /\ \A g \in Hosts : g # h => run[g].record # run[h].record
    /\ \A q \in zone : q.id = run[h].record => q.age <= Oldest

\* One that the CA may still look at is there, and as old as its run.
Kept(r) ==
  r.at \in Live /\ r.record # None =>
    \E q \in zone : q.id = r.record /\ q.age = r.age

Unrepeated == \A q, r \in zone : q.id = r.id => q = r

Named ==
  \A r \in zone : r.by = "anago" => r.id \in orphans \cup {run[h].record : h \in Hosts}

Ports == \A h \in Hosts : port80[h] => run[h].at \in {"telling", "validating"}

Own(r) == Timely(r) /\ Tidy(r) /\ Looked(r)

Zoned ==
  /\ Unrepeated
  /\ Held
  /\ Named
  /\ \A h \in Hosts : Swept(run[h]) /\ Kept(run[h])

IInv ==
  /\ Shape
  /\ Ports
  /\ \A h \in Hosts : Own(run[h])
  /\ Zoned

-----------------------------------------------------------------------------
(* Time.                                                                   *)

\* Deletes take a whole number of ticks.
LEMMA CostType == \A S \in SUBSET Ids : Cost(S) \in Nat
<1> SUFFICES ASSUME NEW S \in SUBSET Ids PROVE Cost(S) \in Nat
  OBVIOUS
<1>1. Cardinality(S) \in Nat
  BY FS_Subset, FS_CardinalityType, ChallengeAssumption
<1> QED
  BY <1>1, ChallengeAssumption DEF Cost

\* One fewer to delete is one request less.
LEMMA CostLess ==
  ASSUME NEW S \in SUBSET Ids, NEW x \in S
  PROVE  Cost(S \ {x}) + CallTime = Cost(S)
<1>1. IsFiniteSet(S)
  BY FS_Subset, ChallengeAssumption
<1>2. Cardinality(S \ {x}) = Cardinality(S) - 1
  BY <1>1, FS_RemoveElement
<1>3. Cardinality(S) \in Nat /\ CallTime \in Nat
  BY <1>1, FS_CardinalityType, ChallengeAssumption
<1>4. (Cardinality(S) - 1) * CallTime + CallTime = Cardinality(S) * CallTime
  BY <1>3
<1> QED
  BY <1>2, <1>4 DEF Cost

\* The longest sweep is of every record there can be.
LEMMA CostMost == \A S \in SUBSET Ids : Cost(S) <= Cost(Ids)
<1> SUFFICES ASSUME NEW S \in SUBSET Ids PROVE Cost(S) <= Cost(Ids)
  OBVIOUS
<1>1. /\ Cardinality(S) \in Nat /\ Cardinality(Ids) \in Nat /\ CallTime \in Nat
      /\ Cardinality(S) <= Cardinality(Ids)
  BY FS_Subset, FS_CardinalityType, ChallengeAssumption
<1>2. PICK d \in Nat : Cardinality(Ids) = Cardinality(S) + d
  <2>1. Cardinality(Ids) - Cardinality(S) \in Nat
    BY <1>1
  <2> QED
    BY <1>1, <2>1
<1>3. (Cardinality(S) + d) * CallTime = Cardinality(S) * CallTime + d * CallTime
  BY <1>1, <1>2
<1>4. d * CallTime \in Nat /\ Cardinality(S) * CallTime \in Nat
  BY <1>1, <1>2
<1> QED
  BY <1>2, <1>3, <1>4 DEF Cost

LEMMA CostNone == Cost({}) = 0
<1>1. Cardinality({}) = 0
  BY FS_EmptySet
<1> QED
  BY <1>1, ChallengeAssumption DEF Cost

\* The constants, with what they add up to.
LEMMA Times ==
  /\ {Lifetime, PollInterval, PollTimeout, BlindAfter, Settle, Validation} \subseteq Nat \ {0}
  /\ CallTime \in Nat /\ Cost(Ids) \in Nat /\ UntilServed \in Nat
  /\ BlindAfter <= PollTimeout
  /\ UntilServed = 2 * CallTime + Cost(Ids) + PollTimeout + Settle
  /\ UntilServed + 2 * CallTime + Validation < Lifetime
  /\ Oldest = 2 * Lifetime /\ Unreadable = Oldest + 1
<1>1. Cardinality(Ids) \in Nat /\ CallTime \in Nat
  BY FS_CardinalityType, ChallengeAssumption
<1>2. (4 + Cardinality(Ids)) * CallTime = 4 * CallTime + Cost(Ids)
  BY <1>1 DEF Cost
<1>3. Cost(Ids) \in Nat
  BY CostType
<1> QED
  BY <1>1, <1>2, <1>3, ChallengeAssumption DEF LongestUse, UntilServed, Oldest, Unreadable

-----------------------------------------------------------------------------
(* Runs.                                                                   *)

\* A run that has nothing to do fits its phase.
LEMMA IdleFit == Idle \in Run /\ Own(Idle) /\ Idle.record = None /\ Idle.stale = {}
BY DEF Idle, Run, Phases, Own, Timely, Tidy, Looked, Live, None

\* A run whose use of the name is over keeps its record and nothing else.
LEMMA OverFit ==
  ASSUME Shape, NEW h \in Hosts, Own(run[h]), NEW phase \in {"removing", "finishing", "dropping"},
         phase = "removing" => run[h].record # None
  PROVE  /\ To(h, phase) \in Run /\ Own(To(h, phase))
         /\ To(h, phase).at = phase /\ To(h, phase).record = run[h].record
         /\ To(h, phase).stale = {}
<1> DEFINE r == [Idle EXCEPT !.at = phase, !.by = run[h].by, !.record = run[h].record]
<1>1. To(h, phase) = r
  BY DEF To, UseOver
<1>2. run[h] \in Run
  BY DEF Shape
<1>3. r \in Run /\ r.at = phase /\ r.by = run[h].by /\ r.record = run[h].record /\ r.stale = {}
  BY <1>2 DEF Run, Idle, Phases, None
<1>4. Own(r)
  BY <1>3 DEF Own, Timely, Tidy, Looked, Live
<1> QED
  BY <1>1, <1>3, <1>4

\* A run that ends gives its record to the guard's drop.
LEMMA EndFit ==
  ASSUME Shape, NEW h \in Hosts, Own(run[h])
  PROVE  /\ End(h) \in Run /\ Own(End(h))
         /\ End(h).at \in {"idle", "dropping"} /\ End(h).record = run[h].record
         /\ End(h).stale = {}
<1>1. CASE run[h].record = None
  BY <1>1, IdleFit DEF End, Idle
<1>2. CASE run[h].record # None
  BY <1>2, OverFit DEF End
<1> QED
  BY <1>1, <1>2

\* A step of one run leaves the others as they are.
LEMMA Moved ==
  ASSUME Shape, NEW h \in Hosts, NEW r \in Run, Move(h, r)
  PROVE  /\ run' \in [Hosts -> Run] /\ run'[h] = r
         /\ \A g \in Hosts \ {h} : run'[g] = run[g]
BY DEF Shape, Move

\* The port is anago's only while the CA may come, where a step leaves it.
LEMMA PortKept ==
  ASSUME Shape, Ports, NEW h \in Hosts, NEW r \in Run, Move(h, r), UNCHANGED port80,
         run[h].at \in {"telling", "validating"} => r.at \in {"telling", "validating"}
  PROVE  Ports'
BY Moved DEF Ports

\* And where it gives it back.
LEMMA PortGiven ==
  ASSUME Shape, Ports, NEW h \in Hosts, NEW r \in Run, Move(h, r), port80' = PortBack(h)
  PROVE  Ports' /\ port80' \in [Hosts -> BOOLEAN]
BY Moved DEF Ports, PortBack, Shape

-----------------------------------------------------------------------------
(* The zone.                                                               *)

\* A step that touches no record: the run keeps what it has, and comes to
\* nothing live that was not.
LEMMA QuietKeeps ==
  ASSUME Shape, Zoned, NEW h \in Hosts, NEW r \in Run, Move(h, r), UNCHANGED <<zone, orphans>>,
         r.record = run[h].record, r.stale \subseteq run[h].stale,
         r.at \in Live /\ r.record # None => run[h].at \in Live /\ r.age = run[h].age
  PROVE  Zoned'
<1>1. /\ run'[h] = r /\ \A g \in Hosts \ {h} : run'[g] = run[g]
      /\ \A g \in Hosts : run'[g].record = run[g].record /\ run'[g].stale \subseteq run[g].stale
  BY Moved
<1>2. Unrepeated'
  BY DEF Zoned, Unrepeated
<1>3. Held'
  BY <1>1 DEF Zoned, Held
<1>4. Named'
  BY <1>1 DEF Zoned, Named
<1>5. ASSUME NEW g \in Hosts PROVE Swept(run[g])' /\ Kept(run[g])'
  BY <1>1 DEF Zoned, Swept, Kept
<1> QED
  BY <1>2, <1>3, <1>4, <1>5 DEF Zoned

\* A delete of what nobody else's run can be using.
LEMMA DeleteKeeps ==
  ASSUME Shape, Zoned, NEW h \in Hosts, NEW r \in Run, NEW id, Move(h, r), Delete(id),
         r.record = run[h].record \/ (r.record = None /\ run[h].record \in {id, None}),
         r.stale \subseteq run[h].stale, r.at \notin Live,
         \A g \in Hosts \ {h} : run[g].at \in Live /\ run[g].record # None => run[g].record # id
  PROVE  Zoned' /\ zone' \subseteq zone /\ orphans' \subseteq ZoneIds'
<1>1. /\ run'[h] = r /\ \A g \in Hosts \ {h} : run'[g] = run[g]
      /\ \A g \in Hosts : /\ run'[g].stale \subseteq run[g].stale
                          /\ run'[g].record # None => run'[g].record = run[g].record
  BY Moved
<1>2. zone' = {q \in zone : q.id # id} /\ orphans' = orphans \ {id}
  BY DEF Delete, At
<1>3. Unrepeated'
  BY <1>2 DEF Zoned, Unrepeated
<1>4. Held'
  BY <1>1, <1>2 DEF Zoned, Held
<1>5. Named'
  <2> SUFFICES ASSUME NEW q \in zone, q.id # id, q.by = "anago"
               PROVE  q.id \in orphans' \cup {run'[g].record : g \in Hosts}
    BY <1>2 DEF Named
  <2>1. q.id # None
    BY ChallengeAssumption DEF Shape, Record, None
  <2>2. q.id \in orphans \/ \E g \in Hosts : q.id = run[g].record
    BY DEF Zoned, Named
  <2> QED
    BY <1>1, <1>2, <2>1, <2>2
<1>6. ASSUME NEW g \in Hosts PROVE Swept(run[g])' /\ Kept(run[g])'
  <2>1. Swept(run[g])'
    BY <1>1, <1>2 DEF Zoned, Swept
  <2>2. Kept(run[g])'
    <3> SUFFICES ASSUME run'[g].at \in Live, run'[g].record # None
                 PROVE  \E q \in zone' : q.id = run'[g].record /\ q.age = run'[g].age
      BY DEF Kept
    <3>1. g # h /\ run'[g] = run[g]
      BY <1>1
    <3> QED
      BY <1>2, <3>1 DEF Zoned, Kept
  <2> QED
    BY <2>1, <2>2
<1>7. orphans' \subseteq ZoneIds'
  BY <1>2 DEF Shape, ZoneIds
<1> QED
  BY <1>2, <1>3, <1>4, <1>5, <1>6, <1>7 DEF Zoned

\* A run that is gone leaves its record to a person.
LEMMA LeavingKeeps ==
  ASSUME Shape, Zoned, NEW h \in Hosts, Move(h, Idle), UNCHANGED zone,
         orphans' = orphans \cup (ZoneIds \cap {run[h].record})
  PROVE  Zoned' /\ orphans' \subseteq ZoneIds'
<1>1. run'[h] = Idle /\ \A g \in Hosts \ {h} : run'[g] = run[g]
  BY Moved, IdleFit
<1>2. Unrepeated'
  BY DEF Zoned, Unrepeated
<1>3. Held'
  BY <1>1, IdleFit DEF Zoned, Held
<1>4. Named'
  <2> SUFFICES ASSUME NEW q \in zone, q.by = "anago"
               PROVE  q.id \in orphans' \cup {run'[g].record : g \in Hosts}
    BY DEF Named
  <2>1. q.id \in orphans \/ \E g \in Hosts : q.id = run[g].record
    BY DEF Zoned, Named
  <2> QED
    BY <1>1, <2>1 DEF ZoneIds
<1>5. ASSUME NEW g \in Hosts PROVE Swept(run[g])' /\ Kept(run[g])'
  BY <1>1, IdleFit DEF Zoned, Swept, Kept
<1>6. orphans' \subseteq ZoneIds'
  BY DEF Shape, ZoneIds
<1> QED
  BY <1>2, <1>3, <1>4, <1>5, <1>6 DEF Zoned

-----------------------------------------------------------------------------
(* The steps.                                                              *)

\* A step of one run that fits keeps the invariant, if the rest of it does.
LEMMA Assembled ==
  ASSUME IInv, NEW h \in Hosts, NEW r \in Run, Own(r), Move(h, r),
         zone' \in SUBSET Record, orphans' \subseteq ZoneIds',
         port80' \in [Hosts -> BOOLEAN], Ports', Zoned'
  PROVE  IInv'
<1>1. run' \in [Hosts -> Run] /\ run'[h] = r /\ \A g \in Hosts \ {h} : run'[g] = run[g]
  BY Moved DEF IInv
<1>2. \A g \in Hosts : Own(run'[g])
  BY <1>1 DEF IInv
<1> QED
  BY <1>1, <1>2 DEF IInv, Shape

\* A step of one run that touches no record.
LEMMA QuietStep ==
  ASSUME IInv, NEW h \in Hosts, NEW r \in Run, Own(r), Move(h, r), UNCHANGED <<zone, orphans>>,
         r.record = run[h].record, r.stale \subseteq run[h].stale,
         r.at \in Live /\ r.record # None => run[h].at \in Live /\ r.age = run[h].age,
         \/ /\ UNCHANGED port80
            /\ run[h].at \in {"telling", "validating"} => r.at \in {"telling", "validating"}
         \/ port80' = PortBack(h)
  PROVE  IInv'
<1>1. Shape /\ Ports /\ Zoned
  BY DEF IInv
<1>2. Zoned'
  BY <1>1, QuietKeeps
<1>3. Ports' /\ port80' \in [Hosts -> BOOLEAN]
  BY <1>1, PortKept, PortGiven DEF Shape
<1>4. zone' \in SUBSET Record /\ orphans' \subseteq ZoneIds'
  BY <1>1 DEF Shape, ZoneIds
<1> QED
  BY <1>2, <1>3, <1>4, Assembled

\* What the invariant says of one run.
LEMMA Fits ==
  ASSUME IInv, NEW h \in Hosts
  PROVE  /\ Shape /\ Ports /\ Zoned /\ run[h] \in Run
         /\ Own(run[h]) /\ Timely(run[h]) /\ Tidy(run[h]) /\ Looked(run[h])
BY DEF IInv, Shape, Own

LEMMA BeginKeeps == ASSUME IInv, NEW h \in Hosts, Begin(h) PROVE IInv'
<1>1. PICK c \in {"http01", "dns01"} : Move(h, [Idle EXCEPT !.at = "ordering", !.by = c])
  BY DEF Begin
<1> DEFINE r == [Idle EXCEPT !.at = "ordering", !.by = c]
<1>2. run[h] = Idle
  BY Fits DEF Begin, In, Tidy
<1>3. r \in Run
  BY DEF Idle, Run, Phases, None
<1>4. Own(r)
  BY ChallengeAssumption DEF Own, Timely, Tidy, Looked, Live, Idle, None
<1>5. r.at = "ordering" /\ r.record = run[h].record /\ r.stale = {}
  BY <1>2 DEF Idle
<1> QED
  BY <1>1, <1>2, <1>3, <1>4, <1>5, QuietStep DEF Begin, In, Live

\* A run that ends, with the port where it was or given back.
LEMMA EndingKeeps ==
  ASSUME IInv, NEW h \in Hosts, Move(h, End(h)), UNCHANGED <<zone, orphans>>,
         \/ UNCHANGED port80 /\ run[h].at \notin {"telling", "validating"}
         \/ port80' = PortBack(h)
  PROVE  IInv'
<1> DEFINE r == End(h)
<1>1. /\ r \in Run /\ Own(r) /\ r.at \in {"idle", "dropping"} /\ r.record = run[h].record
      /\ r.stale = {}
  BY EndFit, Fits
<1> HIDE DEF r
<1> QED
  BY <1>1, QuietStep DEF Live, r

LEMMA OrderFailsKeeps == ASSUME IInv, NEW h \in Hosts, OrderFails(h) PROVE IInv'
BY EndingKeeps DEF OrderFails, In

LEMMA NotReadyKeeps == ASSUME IInv, NEW h \in Hosts, NotReady(h) PROVE IInv'
BY EndingKeeps DEF NotReady

LEMMA FinishKeeps == ASSUME IInv, NEW h \in Hosts, Finish(h) PROVE IInv'
BY EndingKeeps DEF Finish, In

\* A run whose use of the name is over.
LEMMA OverKeeps ==
  ASSUME IInv, NEW h \in Hosts, NEW phase \in {"removing", "finishing"}, Move(h, To(h, phase)),
         phase = "removing" => run[h].record # None, UNCHANGED <<zone, orphans>>,
         \/ UNCHANGED port80 /\ run[h].at \notin {"telling", "validating"}
         \/ port80' = PortBack(h)
  PROVE  IInv'
<1> DEFINE r == To(h, phase)
<1>1. r \in Run /\ Own(r) /\ r.at = phase /\ r.record = run[h].record /\ r.stale = {}
  BY OverFit, Fits
<1> HIDE DEF r
<1> QED
  BY <1>1, QuietStep DEF Live, r

LEMMA NothingToProveKeeps == ASSUME IInv, NEW h \in Hosts, NothingToProve(h) PROVE IInv'
BY OverKeeps DEF NothingToProve, In

LEMMA ReadyKeeps == ASSUME IInv, NEW h \in Hosts, Ready(h) PROVE IInv'
<1>1. run[h].at = "validating" /\ (run[h].by = "dns01" => run[h].record # None)
  BY Fits DEF Ready, In, Tidy, Live
<1> QED
  BY <1>1, OverKeeps DEF Ready

\* The next phase of a use of the name: what it is and what it leaves alone.
LEMMA OnTo ==
  ASSUME Shape, NEW h \in Hosts,
         NEW phase \in {"sweeping", "watching", "settling", "telling", "validating"}
  PROVE  To(h, phase) = [run[h] EXCEPT !.at = phase, !.since = 0]
BY DEF To, UseOver

LEMMA ListenKeeps == ASSUME IInv, NEW h \in Hosts, Listen(h) PROVE IInv'
<1>1. CASE port80' = port80 /\ Move(h, End(h))
  BY <1>1, EndingKeeps DEF Listen, In
<1>2. CASE port80' = [port80 EXCEPT ![h] = TRUE] /\ Move(h, To(h, "telling"))
  <2> DEFINE r == [run[h] EXCEPT !.at = "telling", !.since = 0]
  <2>1. /\ Shape /\ Ports /\ Zoned /\ run[h] \in Run /\ Timely(run[h]) /\ Tidy(run[h])
        /\ run[h].at = "ordering" /\ run[h].by = "http01"
    BY Fits DEF Listen, In
  <2>2. Move(h, r)
    BY <1>2, <2>1, OnTo
  <2>3. /\ r \in Run /\ r.at = "telling" /\ r.by = "http01" /\ r.since = 0 /\ r.age = run[h].age
        /\ r.record = None /\ r.stale = run[h].stale
    BY <2>1 DEF Run, Phases, Tidy
  <2>4. Own(r)
    <3>1. Timely(r)
      BY <2>1, <2>3, Times DEF Timely, Run
    <3>2. Tidy(r) /\ Looked(r)
      BY <2>1, <2>3 DEF Tidy, Looked
    <3> QED
      BY <3>1, <3>2 DEF Own
  <2>5. Zoned'
    BY <2>1, <2>2, <2>3, QuietKeeps DEF Tidy, Listen
  <2>6. Ports' /\ port80' \in [Hosts -> BOOLEAN]
    <3>1. port80 \in [Hosts -> BOOLEAN]
      BY <2>1 DEF Shape
    <3>2. run'[h] = r /\ \A g \in Hosts \ {h} : run'[g] = run[g]
      BY <2>1, <2>2, <2>3, Moved
    <3>3. ASSUME NEW g \in Hosts, port80'[g] PROVE run'[g].at \in {"telling", "validating"}
      <4>1. CASE g = h
        BY <2>3, <3>2, <4>1
      <4>2. CASE g # h
        <5>1. port80[g] /\ run'[g] = run[g]
          BY <1>2, <3>1, <3>2, <3>3, <4>2
        <5> QED
          BY <2>1, <5>1 DEF Ports
      <4> QED
        BY <4>1, <4>2
    <3> QED
      BY <1>2, <3>1, <3>3 DEF Ports
  <2>7. zone' \in SUBSET Record /\ orphans' \subseteq ZoneIds'
    BY <2>1 DEF Shape, ZoneIds, Listen
  <2> QED
    BY <2>2, <2>3, <2>4, <2>5, <2>6, <2>7, Assembled
<1> QED
  BY <1>1, <1>2 DEF Listen

LEMMA TellTheCaKeeps == ASSUME IInv, NEW h \in Hosts, TellTheCa(h) PROVE IInv'
<1>1. CASE Move(h, End(h)) /\ port80' = PortBack(h)
  BY <1>1, EndingKeeps DEF TellTheCa
<1>2. CASE Move(h, To(h, "validating")) /\ UNCHANGED port80
  <2> DEFINE r == [run[h] EXCEPT !.at = "validating", !.since = 0]
  <2>1. /\ Shape /\ run[h] \in Run /\ Timely(run[h]) /\ Tidy(run[h]) /\ Looked(run[h])
        /\ run[h].at = "telling"
    BY Fits DEF TellTheCa, In
  <2>2. Move(h, r)
    BY <1>2, <2>1, OnTo
  <2>3. /\ r \in Run /\ r.at = "validating" /\ r.since = 0
        /\ r.by = run[h].by /\ r.age = run[h].age /\ r.record = run[h].record
        /\ r.stale = run[h].stale /\ r.blind = run[h].blind /\ r.served = run[h].served
    BY <2>1 DEF Run, Phases
  <2>4. Timely(r)
    BY <2>1, <2>3, Times DEF Timely, Run
  <2>5. Tidy(r) /\ Looked(r)
    BY <2>1, <2>3 DEF Tidy, Looked, Live
  <2> HIDE DEF r
  <2> QED
    BY <1>2, <2>1, <2>2, <2>3, <2>4, <2>5, QuietStep DEF TellTheCa, Own, Live
<1> QED
  BY <1>1, <1>2 DEF TellTheCa

LEMMA SettledKeeps == ASSUME IInv, NEW h \in Hosts, Settled(h) PROVE IInv'
<1> DEFINE r == [run[h] EXCEPT !.at = "telling", !.since = 0]
<1>1. /\ Shape /\ run[h] \in Run /\ Timely(run[h]) /\ Tidy(run[h]) /\ Looked(run[h])
      /\ run[h].at = "settling" /\ run[h].pause = 0
  BY Fits DEF Settled, In
<1>2. Move(h, r)
  BY <1>1, OnTo DEF Settled
<1>3. /\ r \in Run /\ r.at = "telling" /\ r.since = 0
      /\ r.by = run[h].by /\ r.age = run[h].age /\ r.record = run[h].record
      /\ r.stale = run[h].stale /\ r.blind = run[h].blind /\ r.served = run[h].served
  BY <1>1 DEF Run, Phases
<1>4. Timely(r)
  BY <1>1, <1>3, Times DEF Timely, Run
<1>5. Tidy(r) /\ Looked(r)
  BY <1>1, <1>3 DEF Tidy, Looked, Live
<1> HIDE DEF r
<1> QED
  BY <1>1, <1>2, <1>3, <1>4, <1>5, QuietStep DEF Settled, Own, Live

\* What one look leads to: no sleep past the deadline, and no settling on a
\* record that was not seen unless nobody could look.
LEMMA Stepped ==
  ASSUME NEW served \in SUBSET Servers, NEW heard \in SUBSET Servers,
         NEW elapsed \in Nat, elapsed <= PollTimeout
  PROVE  LET step == NextStep(Look(heard, served), elapsed)
         IN /\ step.do \in {"GiveUp", "Again", "Settle", "Blind"} /\ step.pause \in Nat
            /\ step.do = "Again" => elapsed + step.pause <= PollTimeout
            /\ step.do \in {"Settle", "Blind"} => step.pause = Settle
            /\ step.do = "Settle" => served # {}
<1>1. Look(heard, served) \in {"Served", "Missing", "Unobservable"}
  BY DEF Look
<1>2. Look(heard, served) = "Served" => served # {}
  BY DEF Look
<1>3. CASE Look(heard, served) = "Served"
  BY <1>2, <1>3, Times DEF NextStep
<1>4. CASE Look(heard, served) = "Unobservable"
  BY <1>4, Times DEF NextStep, LesserOf
<1>5. CASE Look(heard, served) = "Missing"
  BY <1>5, Times DEF NextStep, LesserOf
<1> QED
  BY <1>1, <1>3, <1>4, <1>5

LEMMA LookForKeeps == ASSUME IInv, NEW h \in Hosts, LookFor(h) PROVE IInv'
<1>1. /\ Shape /\ run[h] \in Run /\ Timely(run[h]) /\ Tidy(run[h]) /\ Looked(run[h])
      /\ run[h].at = "watching" /\ run[h].pause = 0
      /\ UNCHANGED <<zone, port80, orphans>>
  BY Fits DEF LookFor, In
<1>2. CASE run[h].elapsed = 0 /\ Move(h, [To(h, "telling") EXCEPT !.blind = TRUE])
  <2> DEFINE r == [[run[h] EXCEPT !.at = "telling", !.since = 0] EXCEPT !.blind = TRUE]
  <2>1. Move(h, r)
    BY <1>1, <1>2, OnTo
  <2>2. /\ r \in Run /\ r.at = "telling" /\ r.since = 0 /\ r.blind
        /\ r.by = run[h].by /\ r.age = run[h].age /\ r.record = run[h].record
        /\ r.stale = run[h].stale
    BY <1>1 DEF Run, Phases
  <2>3. Timely(r)
    BY <1>1, <1>2, <2>2, Times DEF Timely, Run
  <2>4. Tidy(r) /\ Looked(r)
    BY <1>1, <2>2 DEF Tidy, Looked, Live
  <2> HIDE DEF r
  <2> QED
    BY <1>1, <2>1, <2>2, <2>3, <2>4, QuietStep DEF Own, Live
<1>3. ASSUME NEW heard \in SUBSET Servers,
             LET step == NextStep(Look(heard, run[h].served), run[h].elapsed)
             IN Move(h,
                  IF step.do = "GiveUp" THEN End(h)
                  ELSE IF step.do = "Again" THEN [run[h] EXCEPT !.pause = step.pause]
                  ELSE [To(h, "settling") EXCEPT !.pause = step.pause,
                                                 !.blind = step.do = "Blind"])
      PROVE  IInv'
  <2> DEFINE step == NextStep(Look(heard, run[h].served), run[h].elapsed)
  <2>1. /\ step.do \in {"GiveUp", "Again", "Settle", "Blind"} /\ step.pause \in Nat
        /\ step.do = "Again" => run[h].elapsed + step.pause <= PollTimeout
        /\ step.do \in {"Settle", "Blind"} => step.pause = Settle
        /\ step.do = "Settle" => run[h].served # {}
    <3>1. run[h].served \in SUBSET Servers /\ run[h].elapsed \in Nat
          /\ run[h].elapsed <= PollTimeout
      BY <1>1, Times DEF Run, Timely
    <3> QED
      BY <3>1, Stepped
  <2>2. Move(h,
          IF step.do = "GiveUp" THEN End(h)
          ELSE IF step.do = "Again" THEN [run[h] EXCEPT !.pause = step.pause]
          ELSE [To(h, "settling") EXCEPT !.pause = step.pause, !.blind = step.do = "Blind"])
    BY <1>3
  <2> HIDE DEF step
  <2>3. CASE step.do = "GiveUp"
    BY <1>1, <2>2, <2>3, EndingKeeps
  <2>4. CASE step.do = "Again"
    <3> DEFINE r == [run[h] EXCEPT !.pause = step.pause]
    <3>1. Move(h, r)
      BY <2>2, <2>4
    <3>2. /\ r \in Run /\ r.at = "watching" /\ r.since = run[h].since /\ r.pause = step.pause
          /\ r.elapsed = run[h].elapsed
          /\ r.by = run[h].by /\ r.age = run[h].age /\ r.record = run[h].record
          /\ r.stale = run[h].stale
      BY <1>1, <2>1 DEF Run
    <3>3. Timely(r)
      BY <1>1, <2>1, <2>4, <3>2 DEF Timely, Run
    <3>4. Tidy(r) /\ Looked(r)
      BY <1>1, <3>2 DEF Tidy, Looked, Live
    <3> HIDE DEF r
    <3> QED
      BY <1>1, <3>1, <3>2, <3>3, <3>4, QuietStep DEF Own, Live
  <2>5. CASE step.do \in {"Settle", "Blind"}
    <3> DEFINE r == [[run[h] EXCEPT !.at = "settling", !.since = 0] EXCEPT
                       !.pause = step.pause, !.blind = step.do = "Blind"]
    <3>1. Move(h, r)
      BY <1>1, <2>2, <2>5, OnTo
    <3>2. /\ r \in Run /\ r.at = "settling" /\ r.since = 0 /\ r.pause = step.pause
          /\ r.by = run[h].by /\ r.age = run[h].age /\ r.record = run[h].record
          /\ r.stale = run[h].stale /\ r.served = run[h].served
      BY <1>1, <2>1 DEF Run, Phases
    <3>3. r.blind = (step.do = "Blind")
      BY <1>1 DEF Run
    <3>4. Timely(r)
      BY <1>1, <2>1, <2>5, <3>2, Times DEF Timely, Run
    <3>5. Tidy(r)
      BY <1>1, <3>2 DEF Tidy, Live
    <3>6. Looked(r)
      BY <2>1, <2>5, <3>2, <3>3 DEF Looked
    <3> HIDE DEF r
    <3> QED
      BY <1>1, <3>1, <3>2, <3>4, <3>5, <3>6, QuietStep DEF Own, Live
  <2> QED
    BY <2>1, <2>3, <2>4, <2>5
<1> QED
  BY <1>2, <1>3 DEF LookFor

LEMMA SpreadKeeps ==
  ASSUME IInv, NEW h \in Hosts, NEW s \in Servers, Spread(h, s) PROVE IInv'
<1> DEFINE r == [run[h] EXCEPT !.served = @ \cup {s}]
<1>1. /\ Shape /\ run[h] \in Run /\ Timely(run[h]) /\ Tidy(run[h])
      /\ run[h].at = "watching" /\ Move(h, r) /\ UNCHANGED <<zone, port80, orphans>>
  BY Fits DEF Spread, In
<1>2. /\ r \in Run /\ r.at = "watching" /\ r.since = run[h].since /\ r.pause = run[h].pause
      /\ r.elapsed = run[h].elapsed
      /\ r.by = run[h].by /\ r.age = run[h].age /\ r.record = run[h].record
      /\ r.stale = run[h].stale
  BY <1>1 DEF Run
<1>3. Timely(r)
  BY <1>1, <1>2 DEF Timely
<1>4. Tidy(r) /\ Looked(r)
  BY <1>1, <1>2 DEF Tidy, Looked, Live
<1> HIDE DEF r
<1> QED
  BY <1>1, <1>2, <1>3, <1>4, QuietStep DEF Own, Live

\* While the CA may look, a run is younger than what is swept.
LEMMA Young ==
  ASSUME NEW r \in Run, Timely(r), r.at \in Live \cup {"ordering", "sweeping"}
  PROVE  r.age < Lifetime
<1>1. /\ r.age \in Nat /\ r.since \in Nat /\ r.elapsed \in Nat /\ r.pause \in Nat
      /\ Cost(r.stale) \in Nat
  BY CostType DEF Run
<1> QED
  BY <1>1, Times DEF Timely, Live

LEMMA ListKeeps == ASSUME IInv, NEW h \in Hosts, List(h) PROVE IInv'
<1>1. /\ Shape /\ Zoned /\ Ports /\ run[h] \in Run /\ Timely(run[h]) /\ Tidy(run[h])
      /\ run[h].at = "ordering" /\ run[h].by = "dns01" /\ UNCHANGED <<zone, port80, orphans>>
  BY Fits DEF List, In
<1>2. CASE Move(h, End(h))
  BY <1>1, <1>2, EndingKeeps
<1>3. CASE Move(h, [To(h, "sweeping") EXCEPT
             !.stale = {r.id : r \in {q \in zone : Stale(q, run[h].age)}}])
  <2> DEFINE stale == {r.id : r \in {q \in zone : Stale(q, run[h].age)}}
             r == [[run[h] EXCEPT !.at = "sweeping", !.since = 0] EXCEPT !.stale = stale]
  <2>1. Move(h, r)
    BY <1>1, <1>3, OnTo
  <2>2. stale \in SUBSET Ids
    BY <1>1 DEF Shape, Record
  <2>3. /\ r \in Run /\ r.at = "sweeping" /\ r.since = 0 /\ r.age = run[h].age
        /\ r.elapsed = run[h].elapsed /\ r.pause = run[h].pause
        /\ r.by = "dns01" /\ r.record = run[h].record /\ r.stale = stale
    BY <1>1, <2>2 DEF Run, Phases
  <2>4. ASSUME NEW q \in zone, q.id \in stale PROVE Lifetime < q.age /\ q.age <= Oldest
    <3>1. PICK p \in zone : Stale(p, run[h].age) /\ p.id = q.id
      BY <2>4
    <3>2. p = q
      BY <1>1, <3>1 DEF Zoned, Unrepeated
    <3>3. q.age \in Nat /\ q.age <= Unreadable /\ run[h].age \in Nat
      BY <1>1, Times DEF Shape, Record, Run
    <3> QED
      BY <3>1, <3>2, <3>3, Times DEF Stale
  <2> HIDE DEF r, stale
  <2>5. Timely(r)
    <3>1. Cost(stale) \in Nat /\ Cost(stale) <= Cost(Ids)
      BY <2>2, CostType, CostMost
    <3> QED
      BY <1>1, <2>3, <3>1, Times DEF Timely, Run
  <2>6. Tidy(r) /\ Looked(r)
    BY <1>1, <2>3 DEF Tidy, Looked, Live
  <2>7. run'[h] = r /\ \A g \in Hosts \ {h} : run'[g] = run[g]
    BY <1>1, <2>1, <2>3, Moved
  <2>8. Zoned'
    <3>1. \A g \in Hosts : run'[g].record = run[g].record
      BY <2>3, <2>7
    <3>2. Unrepeated' /\ Held' /\ Named'
      BY <1>1, <3>1 DEF Zoned, Unrepeated, Held, Named
    <3>3. Swept(run[h])' /\ Kept(run[h])'
      BY <1>1, <2>3, <2>4, <2>7 DEF Swept, Kept, Live
    <3>4. ASSUME NEW g \in Hosts \ {h} PROVE Swept(run[g])' /\ Kept(run[g])'
      BY <1>1, <2>7 DEF Zoned, Swept, Kept
    <3> QED
      BY <3>2, <3>3, <3>4 DEF Zoned
  <2>9. Ports' /\ zone' \in SUBSET Record /\ orphans' \subseteq ZoneIds'
        /\ port80' \in [Hosts -> BOOLEAN]
    BY <1>1, <2>1, <2>3, PortKept DEF Shape, ZoneIds
  <2> QED
    BY <2>1, <2>3, <2>5, <2>6, <2>8, <2>9, Assembled DEF Own
<1> QED
  BY <1>2, <1>3 DEF List

\* A delete by a run that is not live, of what no live run holds.
LEMMA DeletingKeeps ==
  ASSUME IInv, NEW h \in Hosts, NEW r \in Run, Own(r), NEW id, Move(h, r), Delete(id),
         UNCHANGED port80, run[h].at \notin Live,
         r.record = run[h].record \/ (r.record = None /\ run[h].record \in {id, None}),
         r.stale \subseteq run[h].stale, r.at \notin Live,
         \A g \in Hosts \ {h} : run[g].at \in Live /\ run[g].record # None => run[g].record # id
  PROVE  IInv'
<1>1. Shape /\ Zoned /\ Ports
  BY DEF IInv
<1>2. Zoned' /\ zone' \subseteq zone /\ orphans' \subseteq ZoneIds'
  BY <1>1, DeleteKeeps
<1>3. Ports' /\ zone' \in SUBSET Record /\ port80' \in [Hosts -> BOOLEAN]
  BY <1>1, <1>2, PortKept DEF Shape, Live
<1> QED
  BY <1>2, <1>3, Assembled

\* Nobody's live record is among what a run means to sweep.
LEMMA SweepsNoneLive ==
  ASSUME IInv, NEW g \in Hosts, NEW h \in Hosts, run[g].at \in Live, run[g].record # None
  PROVE  run[g].record \notin run[h].stale
<1>1. PICK q \in zone : q.id = run[g].record /\ q.age = run[g].age
  BY DEF IInv, Zoned, Kept
<1>2. run[g].age < Lifetime
  BY Fits, Young
<1>3. q.id \in run[h].stale => Lifetime < q.age
  BY DEF IInv, Zoned, Swept
<1> QED
  BY <1>1, <1>2, <1>3, Fits, Times DEF Run

LEMMA SweepKeeps == ASSUME IInv, NEW h \in Hosts, Sweep(h) PROVE IInv'
<1>1. /\ Shape /\ run[h] \in Run /\ Timely(run[h]) /\ Tidy(run[h])
      /\ run[h].at = "sweeping" /\ UNCHANGED port80
  BY Fits DEF Sweep, In
<1>2. CASE Move(h, End(h)) /\ UNCHANGED <<zone, orphans>>
  BY <1>1, <1>2, EndingKeeps
<1>3. ASSUME NEW id \in run[h].stale, Delete(id),
             Move(h, [run[h] EXCEPT !.stale = @ \ {id}, !.since = 0])
      PROVE  IInv'
  <2> DEFINE r == [run[h] EXCEPT !.stale = @ \ {id}, !.since = 0]
  <2>1. /\ r \in Run /\ r.at = "sweeping" /\ r.since = 0 /\ r.age = run[h].age
        /\ r.elapsed = run[h].elapsed /\ r.pause = run[h].pause
        /\ r.by = run[h].by /\ r.record = run[h].record /\ r.stale = run[h].stale \ {id}
    BY <1>1 DEF Run
  <2>2. Timely(r)
    <3>1. run[h].stale \in SUBSET Ids
      BY <1>1 DEF Run
    <3>2. Cost(run[h].stale \ {id}) + CallTime = Cost(run[h].stale)
      BY <3>1, CostLess
    <3>3. Cost(run[h].stale \ {id}) \in Nat
      BY <3>1, CostType
    <3> QED
      BY <1>1, <2>1, <3>2, <3>3, Times DEF Timely, Run
  <2>3. Tidy(r) /\ Looked(r)
    BY <1>1, <2>1 DEF Tidy, Looked, Live
  <2>4. \A g \in Hosts \ {h} : run[g].at \in Live /\ run[g].record # None => run[g].record # id
    BY <1>3, SweepsNoneLive
  <2>5. Move(h, r)
    BY <1>3
  <2> HIDE DEF r
  <2> QED
    BY <1>1, <1>3, <2>1, <2>2, <2>3, <2>4, <2>5, DeletingKeeps DEF Own, Live
<1> QED
  BY <1>2, <1>3 DEF Sweep

LEMMA RemoveKeeps == ASSUME IInv, NEW h \in Hosts, Remove(h) PROVE IInv'
<1>1. /\ Shape /\ run[h] \in Run /\ Tidy(run[h]) /\ Own(run[h])
      /\ run[h].at = "removing" /\ UNCHANGED port80 /\ run[h].record # None
  BY Fits DEF Remove, In, Tidy
<1>2. CASE Move(h, End(h)) /\ UNCHANGED <<zone, orphans>>
  BY <1>1, <1>2, EndingKeeps
<1>3. CASE Delete(run[h].record) /\ Move(h, [To(h, "finishing") EXCEPT !.record = None])
  <2> DEFINE r == [To(h, "finishing") EXCEPT !.record = None]
  <2>1. /\ To(h, "finishing") \in Run /\ Own(To(h, "finishing"))
        /\ To(h, "finishing").at = "finishing" /\ To(h, "finishing").stale = {}
    BY <1>1, OverFit
  <2>2. r \in Run /\ r.at = "finishing" /\ r.record = None /\ r.stale = {}
    BY <2>1 DEF Run
  <2>3. Own(r)
    BY <2>2 DEF Own, Timely, Tidy, Looked, Live
  <2>4. \A g \in Hosts \ {h} :
          run[g].at \in Live /\ run[g].record # None => run[g].record # run[h].record
    BY <1>1 DEF IInv, Zoned, Held
  <2>5. Move(h, r)
    BY <1>3
  <2> HIDE DEF r
  <2> QED
    BY <1>1, <1>3, <2>2, <2>3, <2>4, <2>5, DeletingKeeps DEF Live
<1> QED
  BY <1>2, <1>3 DEF Remove

\* A run that is gone, with the port where it was or given back.
LEMMA LeavesKeeps ==
  ASSUME IInv, NEW h \in Hosts, Move(h, Idle), UNCHANGED zone,
         orphans' = orphans \cup (ZoneIds \cap {run[h].record}),
         \/ UNCHANGED port80 /\ run[h].at \notin {"telling", "validating"}
         \/ port80' = PortBack(h)
  PROVE  IInv'
<1>1. Shape /\ Zoned /\ Ports /\ Idle \in Run /\ Own(Idle)
  BY IdleFit DEF IInv
<1>2. Zoned' /\ orphans' \subseteq ZoneIds'
  BY <1>1, LeavingKeeps
<1>3. Ports' /\ zone' \in SUBSET Record /\ port80' \in [Hosts -> BOOLEAN]
  BY <1>1, PortKept, PortGiven DEF Shape
<1> QED
  BY <1>1, <1>2, <1>3, Assembled

LEMMA KillKeeps == ASSUME IInv, NEW h \in Hosts, Kill(h) PROVE IInv'
BY LeavesKeeps DEF Kill

LEMMA DropKeeps == ASSUME IInv, NEW h \in Hosts, Drop(h) PROVE IInv'
<1>1. /\ run[h].at = "dropping" /\ UNCHANGED port80 /\ Move(h, Idle)
      /\ run[h].at \notin Live
  BY DEF Drop, In, Live
<1>2. CASE Delete(run[h].record)
  <2>1. \A g \in Hosts \ {h} :
          run[g].at \in Live /\ run[g].record # None => run[g].record # run[h].record
    BY DEF IInv, Zoned, Held
  <2>2. Idle \in Run /\ Own(Idle) /\ Idle.record = None /\ Idle.stale = {} /\ Idle.at = "idle"
    BY IdleFit DEF Idle
  <2> QED
    BY <1>1, <1>2, <2>1, <2>2, DeletingKeeps DEF Live
<1>3. CASE orphans' = orphans \cup (ZoneIds \cap {run[h].record}) /\ UNCHANGED zone
  BY <1>1, <1>3, LeavesKeeps
<1> QED
  BY <1>2, <1>3 DEF Drop

\* A fresh record: nobody's, and as old as the run that made it.
LEMMA NewRecord ==
  ASSUME IInv, NEW h \in Hosts, NEW r \in Run, Own(r), NEW id \in NewIds,
         run[h].at = "sweeping", r.stale = {}, Move(h, r), UNCHANGED port80,
         zone' = zone \cup {Marked(id, run[h].age)},
         \/ r.record = id /\ r.age = run[h].age /\ UNCHANGED orphans
         \/ r.record = None /\ r.at \notin Live /\ orphans' = orphans \cup {id}
  PROVE  IInv'
<1> DEFINE new == Marked(id, run[h].age)
<1>1. /\ Shape /\ Zoned /\ Ports /\ run[h] \in Run /\ Timely(run[h]) /\ Tidy(run[h])
      /\ run[h].record = None
  BY Fits DEF Tidy
<1>2. /\ id \in Ids /\ id \notin ZoneIds /\ id # None
      /\ \A g \in Hosts : run[g].record # id /\ id \notin run[g].stale
  BY ChallengeAssumption DEF NewIds, None
<1>3. run[h].age \in Nat /\ run[h].age < Lifetime
  BY <1>1, Young DEF Run
<1>4. /\ new.id = id /\ new.age = run[h].age /\ new.by = "anago" /\ new.age <= Oldest
      /\ new \in Record
  BY <1>2, <1>3, Times DEF Marked, Record
<1>5. run'[h] = r /\ \A g \in Hosts \ {h} : run'[g] = run[g]
  BY <1>1, Moved
<1>6. zone' = zone \cup {new}
  OBVIOUS
<1> HIDE DEF new
<1>7. \A q \in zone : q.id # id
  BY <1>2 DEF ZoneIds
<1>8. id \notin orphans
  BY <1>1, <1>2 DEF Shape
<1>9. Unrepeated'
  BY <1>1, <1>4, <1>6, <1>7 DEF Zoned, Unrepeated
<1>10. Held'
  <2> SUFFICES ASSUME NEW g \in Hosts, run'[g].record # None
               PROVE  /\ run'[g].record \notin orphans'
                      /\ \A f \in Hosts : f # g => run'[f].record # run'[g].record
                      /\ \A q \in zone' : q.id = run'[g].record => q.age <= Oldest
    BY DEF Held
  <2>1. CASE g = h
    <3>1. run'[g].record = id /\ UNCHANGED orphans
      BY <1>5, <2>1
    <3> QED
      BY <1>2, <1>4, <1>5, <1>6, <1>7, <1>8, <2>1, <3>1
  <2>2. CASE g # h
    <3>1. run'[g] = run[g] /\ run[g].record # id
      BY <1>2, <1>5, <2>2
    <3>2. /\ run[g].record \notin orphans
          /\ \A f \in Hosts : f # g => run[f].record # run[g].record
          /\ \A q \in zone : q.id = run[g].record => q.age <= Oldest
      BY <1>1, <3>1 DEF Zoned, Held
    <3> QED
      BY <1>4, <1>5, <1>6, <3>1, <3>2
  <2> QED
    BY <2>1, <2>2
<1>11. Named'
  <2> SUFFICES ASSUME NEW q \in zone', q.by = "anago"
               PROVE  q.id \in orphans' \/ \E g \in Hosts : q.id = run'[g].record
    BY DEF Named
  <2>1. CASE q = new
    BY <1>4, <1>5, <2>1
  <2>2. CASE q \in zone
    <3>1. q.id \in orphans \/ \E g \in Hosts : q.id = run[g].record
      BY <1>1, <2>2 DEF Zoned, Named
    <3>2. q.id # None
      BY <1>1, <2>2, ChallengeAssumption DEF Shape, Record, None
    <3> QED
      BY <1>1, <1>5, <3>1, <3>2
  <2> QED
    BY <1>6, <2>1, <2>2
<1>12. Swept(run[h])' /\ Kept(run[h])'
  BY <1>4, <1>5, <1>6 DEF Swept, Kept
<1>13. ASSUME NEW g \in Hosts \ {h} PROVE Swept(run[g])' /\ Kept(run[g])'
  BY <1>1, <1>2, <1>4, <1>5, <1>6 DEF Zoned, Swept, Kept
<1>14. orphans' \subseteq ZoneIds' /\ zone' \in SUBSET Record
  BY <1>1, <1>4, <1>6 DEF Shape, ZoneIds
<1>15. Ports' /\ port80' \in [Hosts -> BOOLEAN]
  BY <1>1, PortKept DEF Shape
<1> QED
  BY <1>9, <1>10, <1>11, <1>12, <1>13, <1>14, <1>15, Assembled DEF Zoned

LEMMA CreateKeeps == ASSUME IInv, NEW h \in Hosts, Create(h) PROVE IInv'
<1>1. /\ Shape /\ run[h] \in Run /\ Timely(run[h]) /\ Tidy(run[h]) /\ Own(run[h])
      /\ run[h].at = "sweeping" /\ run[h].stale = {} /\ UNCHANGED port80
      /\ run[h].record = None
  BY Fits DEF Create, In, Tidy
<1>2. CASE Move(h, End(h)) /\ UNCHANGED <<zone, orphans>>
  BY <1>1, <1>2, EndingKeeps
<1>3. ASSUME NEW id \in NewIds, zone' = zone \cup {Marked(id, run[h].age)},
             Move(h, End(h)), orphans' = orphans \cup {id}
      PROVE  IInv'
  <2>1. /\ End(h) \in Run /\ Own(End(h)) /\ End(h).at \notin Live
        /\ End(h).record = None /\ End(h).stale = {}
    BY <1>1, EndFit DEF Live
  <2> QED
    BY <1>1, <1>3, <2>1, NewRecord
<1>4. ASSUME NEW id \in NewIds, zone' = zone \cup {Marked(id, run[h].age)},
             Move(h, [To(h, "watching") EXCEPT !.record = id]), UNCHANGED orphans
      PROVE  IInv'
  <2> DEFINE r == [[run[h] EXCEPT !.at = "watching", !.since = 0] EXCEPT !.record = id]
  <2>1. Move(h, r)
    BY <1>1, <1>4, OnTo
  <2>2. id \in Ids /\ id # None
    BY ChallengeAssumption DEF NewIds, None
  <2>3. /\ r \in Run /\ r.at = "watching" /\ r.since = 0 /\ r.age = run[h].age
        /\ r.elapsed = run[h].elapsed /\ r.pause = run[h].pause
        /\ r.by = run[h].by /\ r.record = id /\ r.stale = {}
    BY <1>1, <2>2 DEF Run, Phases
  <2>4. run[h].by = "dns01"
    BY <1>1 DEF Tidy
  <2>5. Timely(r)
    BY <1>1, <2>3, CostNone, Times DEF Timely, Run
  <2>6. Tidy(r) /\ Looked(r)
    BY <1>1, <2>2, <2>3, <2>4 DEF Tidy, Looked, Live
  <2> HIDE DEF r
  <2> QED
    BY <1>1, <1>4, <2>1, <2>3, <2>5, <2>6, NewRecord DEF Own
<1> QED
  BY <1>2, <1>3, <1>4 DEF Create

LEMMA EditCommentKeeps == ASSUME IInv, EditComment PROVE IInv'
<1>1. PICK r \in zone :
        /\ r.by = "anago" /\ r.age # Unreadable
        /\ r.id \in orphans \ UNION {run[h].stale : h \in Hosts}
        /\ zone' = (zone \ {r}) \cup {[r EXCEPT !.age = Unreadable]}
  BY DEF EditComment
<1> DEFINE e == [r EXCEPT !.age = Unreadable]
<1>2. Shape /\ Zoned /\ Ports /\ UNCHANGED <<run, port80, orphans>>
  BY DEF IInv, EditComment
<1>3. r \in Record
  BY <1>2 DEF Shape
<1>4. e \in Record /\ e.id = r.id /\ e.by = "anago"
  BY <1>1, <1>3, Times DEF Record
<1>5. zone' = (zone \ {r}) \cup {e}
  BY <1>1
<1> HIDE DEF e
<1>6. Unrepeated'
  BY <1>2, <1>4, <1>5 DEF Zoned, Unrepeated
<1>7. Held'
  <2>1. \A h \in Hosts : run[h].record # None => run[h].record # e.id
    BY <1>1, <1>2, <1>4 DEF Zoned, Held
  <2> QED
    BY <1>2, <1>5, <2>1 DEF Zoned, Held
<1>8. Named'
  BY <1>1, <1>2, <1>4, <1>5 DEF Zoned, Named
<1>9. ASSUME NEW h \in Hosts PROVE Swept(run[h])' /\ Kept(run[h])'
  <2>1. r.id \notin run[h].stale /\ (run[h].record # None => run[h].record # r.id)
    BY <1>1, <1>2 DEF Zoned, Held
  <2> QED
    BY <1>2, <1>4, <1>5, <2>1 DEF Zoned, Swept, Kept
<1>10. orphans' \subseteq ZoneIds' /\ zone' \in SUBSET Record
  BY <1>2, <1>4, <1>5 DEF Shape, ZoneIds
<1> QED
  BY <1>2, <1>6, <1>7, <1>8, <1>9, <1>10 DEF IInv, Shape, Zoned, Ports

\* A tick spends what the phase still has.
LEMMA GrownFit ==
  ASSUME NEW r \in Run, Own(r), r.at \notin UseOver => r.since < Limit(r)
  PROVE  /\ Grown(r) \in Run /\ Own(Grown(r))
         /\ Grown(r).at = r.at /\ Grown(r).record = r.record /\ Grown(r).stale = r.stale
         /\ r.at \notin UseOver /\ r.by = "dns01" => Grown(r).age = r.age + 1
<1>1. CASE r.at \in UseOver
  BY <1>1 DEF Grown
<1>2. CASE r.at \notin UseOver
  <2> DEFINE g == Grown(r)
  <2>1. /\ r.age \in Nat /\ r.since \in Nat /\ r.elapsed \in Nat /\ r.pause \in Nat
        /\ Cost(r.stale) \in Nat
    BY CostType DEF Run
  <2> DEFINE age == IF r.by = "dns01" THEN r.age + 1 ELSE r.age
             since == IF r.at \in {"watching", "settling"} THEN 0 ELSE r.since + 1
             elapsed == IF r.at = "watching" THEN r.elapsed + 1 ELSE r.elapsed
             pause == IF r.pause = 0 THEN 0 ELSE r.pause - 1
  <2>2. g = [r EXCEPT !.age = age, !.since = since, !.elapsed = elapsed, !.pause = pause]
    BY <1>2 DEF Grown
  <2>3. age \in Nat /\ since \in Nat /\ elapsed \in Nat /\ pause \in Nat
    BY <2>1
  <2> HIDE DEF age, since, elapsed, pause
  <2>4. /\ g \in Run /\ g.at = r.at /\ g.by = r.by /\ g.record = r.record
        /\ g.stale = r.stale /\ g.blind = r.blind /\ g.served = r.served
        /\ g.age = age /\ g.since = since /\ g.elapsed = elapsed /\ g.pause = pause
    <3>1. r \in Run
      BY <2>1
    <3>2. g \in Run
      BY <2>2, <2>3, <3>1 DEF Run
    <3>3. /\ g.at = r.at /\ g.by = r.by /\ g.record = r.record
          /\ g.stale = r.stale /\ g.blind = r.blind /\ g.served = r.served
      BY <2>2, <3>1 DEF Run
    <3>4. g.age = age /\ g.since = since /\ g.elapsed = elapsed /\ g.pause = pause
      BY <2>2, <3>1 DEF Run
    <3> QED
      BY <3>2, <3>3, <3>4
  <2>5. /\ g \in Run /\ g.at = r.at /\ g.by = r.by /\ g.record = r.record
        /\ g.stale = r.stale /\ g.blind = r.blind /\ g.served = r.served
        /\ g.age = (IF r.by = "dns01" THEN r.age + 1 ELSE r.age)
        /\ g.since = (IF r.at \in {"watching", "settling"} THEN 0 ELSE r.since + 1)
        /\ g.elapsed = (IF r.at = "watching" THEN r.elapsed + 1 ELSE r.elapsed)
        /\ g.pause = (IF r.pause = 0 THEN 0 ELSE r.pause - 1)
    BY <2>4 DEF age, since, elapsed, pause
  <2> HIDE DEF g
  <2>6. Timely(g)
    <3>1. r.at \in {"ordering", "sweeping", "watching", "settling", "telling", "validating"}
      BY <1>2 DEF UseOver, Run, Phases
    <3>2. /\ r.at \in {"watching", "settling"} => r.since < r.since + r.pause
          /\ r.at = "validating" => r.since < Validation
          /\ r.at \in {"ordering", "sweeping", "telling"} => r.since < CallTime
      BY <1>2 DEF Limit
    <3>3. Timely(r)
      BY DEF Own
    <3> QED
      BY <2>1, <2>5, <3>1, <3>2, <3>3, Times DEF Timely
  <2>7. Tidy(g) /\ Looked(g)
    BY <1>2, <2>5 DEF Own, Tidy, Looked, UseOver
  <2> QED
    BY <1>2, <2>5, <2>6, <2>7 DEF Own, g
<1> QED
  BY <1>1, <1>2

LEMMA AdvanceKeeps == ASSUME IInv, Advance PROVE IInv'
<1> DEFINE older(q) == [q EXCEPT !.age = Aged(@)]
<1>1. /\ Shape /\ Zoned /\ Ports /\ UNCHANGED <<port80, orphans>>
      /\ zone' = {older(q) : q \in zone} /\ run' = [h \in Hosts |-> Grown(run[h])]
  BY DEF IInv, Advance
<1>2. ASSUME NEW h \in Hosts
      PROVE  /\ run'[h] \in Run /\ Own(run'[h])
             /\ run'[h].at = run[h].at /\ run'[h].record = run[h].record
             /\ run'[h].stale = run[h].stale
             /\ run[h].at \notin UseOver /\ run[h].by = "dns01" =>
                  run'[h].age = run[h].age + 1
  BY <1>1, Fits, GrownFit DEF Advance
<1>3. ASSUME NEW q \in zone
      PROVE  /\ older(q) \in Record /\ older(q).id = q.id /\ older(q).by = q.by
             /\ q.age <= Oldest => older(q).age <= Oldest
             /\ q.age <= older(q).age
             /\ q.age < Oldest => older(q).age = q.age + 1
  BY <1>1, Times DEF Shape, Record, Aged
<1> HIDE DEF older
<1>4. Unrepeated'
  BY <1>1, <1>3 DEF Zoned, Unrepeated
<1>5. Held'
  BY <1>1, <1>2, <1>3 DEF Zoned, Held
<1>6. Named'
  BY <1>1, <1>2, <1>3 DEF Zoned, Named
<1>7. ASSUME NEW h \in Hosts PROVE Swept(run[h])'
  <2> SUFFICES ASSUME NEW q \in zone, q.id \in run[h].stale
               PROVE  Lifetime < older(q).age /\ older(q).age <= Oldest
    BY <1>1, <1>2, <1>3 DEF Swept
  <2>1. Lifetime < q.age /\ q.age <= Oldest
    BY <1>1 DEF Zoned, Swept
  <2>2. q.age \in Nat /\ older(q).age \in Nat
    BY <1>1, <1>3, Times DEF Shape, Record
  <2> QED
    BY <1>3, <2>1, <2>2, Times
<1>8. ASSUME NEW h \in Hosts PROVE Kept(run[h])'
  <2> SUFFICES ASSUME run[h].at \in Live, run[h].record # None
               PROVE  \E q \in zone' : q.id = run[h].record /\ q.age = run'[h].age
    BY <1>2 DEF Kept
  <2>1. PICK q \in zone : q.id = run[h].record /\ q.age = run[h].age
    BY <1>1 DEF Zoned, Kept
  <2>2. run'[h].age = run[h].age + 1
    BY <1>2, Fits DEF Tidy, Live, UseOver
  <2>3. q.age < Oldest
    BY <2>1, Fits, Young, Times DEF Run
  <2> QED
    BY <1>1, <1>3, <2>1, <2>2, <2>3
<1>9. Ports'
  BY <1>1, <1>2 DEF Ports
<1>10. Shape'
  <2>1. zone' \in SUBSET Record /\ orphans' \subseteq ZoneIds'
    BY <1>1, <1>3 DEF Shape, ZoneIds
  <2> QED
    BY <1>1, <1>2, <2>1 DEF Shape
<1> QED
  BY <1>2, <1>4, <1>5, <1>6, <1>7, <1>8, <1>9, <1>10 DEF IInv, Zoned

-----------------------------------------------------------------------------
(* The theorems.                                                           *)

LEMMA InitHolds == Init => IInv
<1> SUFFICES ASSUME Init PROVE IInv
  OBVIOUS
<1>1. run = [h \in Hosts |-> Idle] /\ orphans = {}
  BY IdleFit DEF Init
<1>2. Strangers(CHOOSE i \in Ids : TRUE) \in Record
  <2>1. (CHOOSE i \in Ids : TRUE) \in Ids
    BY ChallengeAssumption
  <2> QED
    BY <2>1, Times DEF Strangers, Record
<1>3. /\ zone \in SUBSET Record /\ Unrepeated
      /\ \A q \in zone : q.by = "stranger"
  <2>1. PICK s : /\ s \in Record /\ s.by = "stranger" /\ zone \in {{}, {s}}
    BY <1>2 DEF Init, Strangers
  <2> QED
    BY <2>1 DEF Unrepeated
<1>4. Shape
  BY <1>1, <1>3, IdleFit DEF Shape, Init
<1>5. Ports /\ Named
  BY <1>3 DEF Ports, Named, Init
<1>6. ASSUME NEW h \in Hosts
      PROVE  Own(run[h]) /\ Swept(run[h]) /\ Kept(run[h]) /\ run[h].record = None
  BY <1>1, IdleFit DEF Swept, Kept
<1>7. Held
  BY <1>6 DEF Held
<1> QED
  BY <1>3, <1>4, <1>5, <1>6, <1>7 DEF IInv, Zoned

LEMMA StepKeeps == IInv /\ [Next]_vars => IInv'
<1> SUFFICES ASSUME IInv, [Next]_vars PROVE IInv'
  OBVIOUS
<1>1. ASSUME NEW h \in Hosts,
             \/ Begin(h) \/ OrderFails(h) \/ NothingToProve(h) \/ Listen(h) \/ List(h) \/ Sweep(h)
             \/ Create(h) \/ LookFor(h) \/ Settled(h) \/ TellTheCa(h) \/ Ready(h) \/ NotReady(h)
             \/ Remove(h) \/ Finish(h) \/ Drop(h) \/ Kill(h)
             \/ \E s \in Servers : Spread(h, s)
      PROVE  IInv'
  BY <1>1, BeginKeeps, OrderFailsKeeps, NothingToProveKeeps, ListenKeeps, ListKeeps, SweepKeeps,
     CreateKeeps, LookForKeeps, SettledKeeps, TellTheCaKeeps, ReadyKeeps, NotReadyKeeps,
     RemoveKeeps, FinishKeeps, DropKeeps, KillKeeps, SpreadKeeps
<1>2. CASE UNCHANGED vars
  BY <1>2 DEF vars, IInv, Shape, Ports, Zoned, Unrepeated, Held, Named, Swept, Kept, ZoneIds
<1> QED
  BY <1>1, <1>2, EditCommentKeeps, AdvanceKeeps DEF Next

LEMMA Invariant == Spec => []IInv
BY InitHolds, StepKeeps, PTL DEF Spec

\* The zone holds one record per id, every run is at a phase of its challenge,
\* and what has been left to a person is there.
THEOREM TypeCorrect == Spec => []TypeOK
<1>1. IInv => TypeOK
  BY DEF IInv, TypeOK, Shape, Zoned, Unrepeated, Own, Tidy, Run
<1> QED
  BY <1>1, Invariant, PTL

\* The sweep of one host never takes the record the CA of another has yet to
\* look at (stale_challenges, CHALLENGE_LIFETIME_SECS): for any hosts, and any
\* time limits whose sum stays under the lifetime.
THEOREM LiveRecordsKept == Spec => []LiveKept
<1>1. IInv => LiveKept
  BY DEF IInv, LiveKept, Zoned, Kept, Live, ZoneIds
<1> QED
  BY <1>1, Invariant, PTL

\* A challenge waits for its record no longer than PROPAGATION_TIMEOUT, goes on
\* to the CA only with a record it saw or could not see, and leaves neither the
\* port nor a record of its own that nobody was told of.
THEOREM ChallengesEndClean == Spec => []EndsClean
<1>1. ASSUME IInv PROVE NothingKept
  BY <1>1 DEF IInv, NothingKept, Ports, Zoned, Named
<1>2. ASSUME IInv, NEW h \in Hosts
      PROVE  /\ run[h].at = "watching" => run[h].elapsed <= PollTimeout
             /\ run[h].at \in {"settling", "telling", "validating"} /\ run[h].by = "dns01" =>
                  run[h].blind \/ run[h].served # {}
  BY <1>2, Fits, Times DEF Timely, Looked, Run
<1>3. IInv => EndsClean
  BY <1>1, <1>2 DEF EndsClean, WaitBounded
<1> QED
  BY <1>3, Invariant, PTL

\* A step deletes only records whose comment says a time.
LEMMA DeletesOwn ==
  ASSUME IInv, NEW h \in Hosts, NEW id, Delete(id), id \in run[h].stale \cup {run[h].record}
  PROVE  \A r \in zone : r.age = Unreadable => r \in zone'
<1> SUFFICES ASSUME NEW r \in zone, r.age = Unreadable PROVE r \in zone'
  OBVIOUS
<1>1. Shape /\ Zoned
  BY DEF IInv
<1>2. ~(r.age <= Oldest)
  BY Times
<1>3. r.id \notin run[h].stale
  BY <1>1, <1>2 DEF Zoned, Swept
<1>4. r.id # run[h].record
  <2>1. r.id # None
    BY <1>1, ChallengeAssumption DEF Shape, Record, None
  <2> QED
    BY <1>1, <1>2, <2>1 DEF Zoned, Held
<1> QED
  BY <1>3, <1>4 DEF Delete, At

\* Nobody's record but anago's own is ever deleted, nor one whose comment says
\* no time (stale_challenges).
THEOREM OthersAlwaysStay == Spec => OthersStay
<1>1. ASSUME IInv, [Next]_vars PROVE \A r \in zone : r.age = Unreadable => r \in zone'
  <2>1. CASE UNCHANGED zone
    BY <2>1
  <2>2. ASSUME NEW h \in Hosts, Sweep(h), ~UNCHANGED zone
        PROVE  \A r \in zone : r.age = Unreadable => r \in zone'
    BY <1>1, <2>2, DeletesOwn DEF Sweep
  <2>3. ASSUME NEW h \in Hosts, Remove(h) \/ Drop(h), ~UNCHANGED zone
        PROVE  \A r \in zone : r.age = Unreadable => r \in zone'
    BY <1>1, <2>3, DeletesOwn DEF Remove, Drop
  <2>4. ASSUME NEW h \in Hosts, Create(h)
        PROVE  \A r \in zone : r.age = Unreadable => r \in zone'
    BY <2>4 DEF Create
  <2>5. CASE EditComment
    BY <2>5 DEF EditComment
  <2>6. CASE Advance
    <3> SUFFICES ASSUME NEW r \in zone, r.age = Unreadable PROVE r \in zone'
      OBVIOUS
    <3>1. r \in Record
      BY <1>1 DEF IInv, Shape
    <3>2. [r EXCEPT !.age = Aged(@)] = r
      BY <3>1, Times DEF Aged, Record
    <3> QED
      BY <2>6, <3>2 DEF Advance
  <2>7. ASSUME NEW h \in Hosts,
               \/ Begin(h) \/ OrderFails(h) \/ NothingToProve(h) \/ Listen(h) \/ List(h)
               \/ LookFor(h) \/ Settled(h) \/ TellTheCa(h) \/ Ready(h) \/ NotReady(h)
               \/ Finish(h) \/ Kill(h) \/ \E s \in Servers : Spread(h, s)
        PROVE  UNCHANGED zone
    BY <2>7 DEF Begin, OrderFails, NothingToProve, Listen, List, LookFor, Settled, TellTheCa,
                Ready, NotReady, Finish, Kill, Spread
  <2> QED
    BY <1>1, <2>1, <2>2, <2>3, <2>4, <2>5, <2>6, <2>7 DEF Next, vars
<1> QED
  BY <1>1, Invariant, PTL DEF Spec, OthersStay

-----------------------------------------------------------------------------
(* The renewal loop: the inductive invariant.                              *)

\* Settings of a hub that renews, as a certificate put them there.
Plausible(t) ==
  t # Manual =>
    /\ t \in Acme
    /\ t.renew = RenewAfter(t.issued, t.expires)
    /\ t.expires = {} \/ \E e \in Int : t.expires = {e} /\ e - t.issued > Lead
    /\ t.issued \in 0 .. now

\* The same but for the challenge.
Alike(s, t) ==
  /\ s.issued = t.issued /\ s.directory = t.directory /\ s.account = t.account
  /\ s.expires = t.expires /\ s.renew = t.renew

\* A command has just put them there, and nobody has asked a CA since.
JustIssued(t, time) ==
  /\ t.issued = time
  /\ \E l \in Lifetimes : t.expires = {time + l}
  /\ streak.failures = 0
  /\ \A d \in Directories : waits[d] = 0

Typed ==
  /\ now \in Nat \ {0}
  /\ renewals \in Schedule
  /\ failing \in Schedule /\ failing.cooldown = {}
  /\ waits \in [Directories -> Nat]
  /\ streak \in [against: SUBSET Attempts, failures: Nat, last: Int]
  /\ tls \in Tls /\ Plausible(tls)

\* A failure is held against one attempt, made after the certificate it was on; a
\* CA's wait is that attempt's.
Scheduled ==
  /\ renewals.against = {} => renewals = Fresh
  /\ AtMostOne(renewals.cooldown)
  /\ \A a \in renewals.against :
       /\ renewals.against = {a} /\ a.issued < now
       /\ \A c \in renewals.cooldown : c.directory = a.directory
       /\ tls # Manual /\ a.issued = tls.issued => renewals.against = AttemptOf(tls)

\* The schedule says what the settings on disk have earned, and what their CA asked
\* for; but for a wait that ends before they are due.
Earning ==
  IF renewals.against = AttemptOf(tls)
  THEN /\ streak.against = AttemptOf(tls) /\ streak.failures > 0
       /\ renewals.failures = Smaller(streak.failures, MaxCount)
       /\ renewals.not_before = streak.last + RetryDelay(renewals.failures)
       /\ \A c \in renewals.cooldown : c.until <= waits[tls.directory]
  ELSE streak.against # AttemptOf(tls) \/ streak.failures = 0
Covered ==
  \/ waits[tls.directory] <= RenewalDue(tls)
  \/ /\ renewals.against = AttemptOf(tls)
     /\ \E c \in renewals.cooldown : c.until >= waits[tls.directory]
Linked == tls # Manual => Earning /\ Covered

\* A loop that sleeps over settings it read.
Asleep(t) ==
  /\ loop.current = {t} /\ t \in Tls /\ Plausible(t)
  /\ loop.at \in Int /\ loop.wake \in Int
  /\ loop.at <= now /\ now <= loop.wake /\ loop.wake <= loop.at + CheckEvery
  /\ t # Manual =>
       /\ renewals.against \in {{}, AttemptOf(t)}
       /\ Larger(RenewalDue(t), NotBefore(renewals)) > loop.at
       /\ loop.wake <= Larger(loop.at + 1, Larger(RenewalDue(t), NotBefore(renewals)))
  /\ tls # Manual => (t # Manual /\ Alike(tls, t)) \/ tls.issued >= loop.at

\* A loop that is about to order, or does.
Renewing(t) ==
  /\ loop.current = {t} /\ t \in Acme /\ Plausible(t)
  /\ loop.at \in Int /\ RenewalDue(t) <= loop.at /\ loop.at <= now
  /\ renewals.against \in {{}, AttemptOf(t)}
  /\ tls # Manual => Alike(tls, t) \/ JustIssued(tls, loop.at)
  /\ loop.pc = "renew" => loop.at = now /\ NotBefore(renewals) <= now
  /\ loop.pc = "order" =>
       /\ loop.begun = loop.at /\ now <= loop.at + MaxAttempt
       /\ \E w \in Acme : loop.witness = {w} /\ tls \in {w, Manual}

Looping ==
  /\ loop \in Loop
  /\ loop.pc = "sleep" => \A t \in loop.current : Asleep(t)
  /\ loop.pc \in {"renew", "order"} => \E t \in loop.current : Renewing(t)

\* No more failures in a row than the bounds allow: the one that costs no failure
\* is the one of an attempt whose settings an editor replaced.
Afforded ==
  /\ budget \in [failures: 0 .. MaxFailures, changes: 0 .. MaxChanges]
  /\ streak.failures + (IF loop.pc = "order" /\ tls = Manual THEN 1 ELSE 0)
       <= (MaxFailures - budget.failures) + (MaxChanges - budget.changes)

RInv == Typed /\ Scheduled /\ Linked /\ Looping

-----------------------------------------------------------------------------
(* The renewal loop: its functions.                                        *)

LEMMA Single == \A x : The({x}) = x
BY DEF The

LEMMA Planned ==
  \A issued \in Int, l \in Nat :
    RenewAfter(issued, {issued + l}) = issued + (l * 2) \div 3
<1>1. ASSUME NEW issued \in Int, NEW l \in Nat
      PROVE  RenewAfter(issued, {issued + l}) = issued + (l * 2) \div 3
  <2>1. The({issued + l}) = issued + l
    BY Single
  <2>2. The({issued + l}) - issued = l
    BY <2>1
  <2>3. RenewAfter(issued, {issued + l}) = issued + ((The({issued + l}) - issued) * 2) \div 3
    BY DEF RenewAfter
  <2> QED
    BY <2>2, <2>3
<1> QED
  BY <1>1

LEMMA Whole ==
  ASSUME NEW issued \in Int, NEW e \in SUBSET Int,
         e = {} \/ \E x \in Int : e = {x}
  PROVE  RenewAfter(issued, e) \in Int
<1>1. CASE e = {}
  BY <1>1, TimesAssumption DEF RenewAfter
<1>2. CASE \E x \in Int : e = {x}
  <2>1. PICK x \in Int : e = {x}
    BY <1>2
  <2>2. The(e) = x /\ e # {}
    BY <2>1, Single
  <2>3. ((The(e) - issued) * 2) \div 3 \in Int
    BY <2>2
  <2>4. RenewAfter(issued, e) = issued + ((The(e) - issued) * 2) \div 3
    BY <2>2, Zenon DEF RenewAfter
  <2> QED
    BY <2>3, <2>4
<1> QED
  BY <1>1, <1>2

LEMMA Doubling ==
  /\ \A f \in Nat : RetryDelay(f) \in Nat
  /\ \A n \in 1 .. MaxFailures + MaxChanges : /\ RetryDelay(Smaller(n, MaxCount)) = Backoff(n)
                          /\ Smaller(n, MaxCount) \in 0 .. MaxCount
<1>1. ASSUME NEW f \in Nat PROVE RetryDelay(f) \in Nat
  <2>1. Smaller(Larger(f - 1, 0), 16) \in 0 .. MaxFailures + MaxChanges + 16
    BY TimesAssumption DEF Smaller, Larger
  <2>2. 2 ^ Smaller(Larger(f - 1, 0), 16) \in Nat
    BY <2>1, PowersAssumption
  <2> QED
    BY <2>2, TimesAssumption DEF RetryDelay, Smaller
<1>2. ASSUME NEW n \in 1 .. MaxFailures + MaxChanges
      PROVE  RetryDelay(Smaller(n, MaxCount)) = Backoff(n)
  <2> DEFINE d == Smaller(Larger(Smaller(n, MaxCount) - 1, 0), 16)
  <2>1. /\ {d, n - 1} \subseteq 0 .. MaxFailures + MaxChanges + 16
        /\ (d = n - 1 \/ (d < n - 1 /\ d = Smaller(MaxCount - 1, 16)))
    BY TimesAssumption DEF Smaller, Larger
  <2>2. 2 ^ d \in Nat /\ 2 ^ (n - 1) \in Nat
    BY <2>1, PowersAssumption
  <2>3. d < n - 1 /\ d = Smaller(MaxCount - 1, 16) =>
          RetryBase * 2 ^ d >= RetryCap /\ RetryBase * 2 ^ (n - 1) >= RetryCap
    BY <2>1, PowersAssumption
  <2>4. RetryDelay(Smaller(n, MaxCount)) = Smaller(RetryBase * 2 ^ d, RetryCap)
    BY DEF RetryDelay
  <2> HIDE DEF d
  <2>5. CASE d = n - 1
    BY <2>4, <2>5 DEF Backoff
  <2>6. CASE d < n - 1 /\ d = Smaller(MaxCount - 1, 16)
    <3>1. /\ RetryBase * 2 ^ d \in Nat /\ RetryBase * 2 ^ d >= RetryCap
          /\ RetryBase * 2 ^ (n - 1) \in Nat /\ RetryBase * 2 ^ (n - 1) >= RetryCap
      BY <2>2, <2>3, <2>6, TimesAssumption
    <3>2. RetryCap \in Nat
      BY TimesAssumption
    <3> QED
      BY <2>4, <3>1, <3>2 DEF Backoff, Smaller
  <2> QED
    BY <2>1, <2>5, <2>6
<1>3. ASSUME NEW n \in 1 .. MaxFailures + MaxChanges PROVE Smaller(n, MaxCount) \in 0 .. MaxCount
  BY TimesAssumption DEF Smaller
<1> QED
  BY <1>1, <1>2, <1>3

LEMMA OfCa ==
  ASSUME NEW t \in Acme
  PROVE  /\ t # Manual /\ t \in Tls
         /\ t.issued \in Int /\ t.renew \in Int /\ t.expires \in SUBSET Int
         /\ t.directory \in Directories /\ t.account \in Accounts
         /\ AttemptOf(t) = {[directory |-> t.directory, account |-> t.account, issued |-> t.issued]}
         /\ AttemptOf(t) # {} /\ AttemptOf(t) \subseteq Attempts
<1>1. /\ t.source = "acme" /\ t.issued \in Int /\ t.renew \in Int /\ t.expires \in SUBSET Int
      /\ t.directory \in Directories /\ t.account \in Accounts
  BY DEF Acme
<1>2. t # Manual
  BY <1>1 DEF Manual
<1>3. AttemptOf(t) = {[directory |-> t.directory, account |-> t.account, issued |-> t.issued]}
  BY <1>2 DEF AttemptOf
<1> QED
  BY <1>1, <1>2, <1>3 DEF Tls, Attempts

LEMMA ByOwner == Manual \in Tls /\ Manual \notin Acme /\ AttemptOf(Manual) = {} /\ Plausible(Manual)
<1>1. Manual \notin Acme
  BY OfCa
<1> QED
  BY <1>1 DEF Tls, AttemptOf, Plausible

\* A certificate is not due when it is issued, and not before half its life is
\* over or its last Lead has begun.
LEMMA DueAfter ==
  ASSUME NEW t \in Acme, Plausible(t), now \in Nat
  PROVE  /\ RenewalDue(t) \in Int /\ RenewalDue(t) > t.issued /\ t.issued \in Int
         /\ \A time \in Int : time >= RenewalDue(t) =>
              \/ t.expires = {} /\ time >= t.issued + Unknown
              \/ \E e \in t.expires : \/ 2 * (time - t.issued) >= e - t.issued
                                      \/ time >= e - Lead
<1>1. t # Manual /\ t.issued \in Int /\ t.renew = RenewAfter(t.issued, t.expires)
  BY OfCa DEF Plausible
<1>2. Lead \in Nat \ {0} /\ Unknown \in Nat \ {0}
  BY TimesAssumption, LifetimesAssumption
<1>3. CASE t.expires = {}
  BY <1>1, <1>2, <1>3 DEF RenewalDue, RenewAfter
<1>4. CASE t.expires # {}
  <2>1. PICK e \in Int : t.expires = {e} /\ e - t.issued > Lead
    BY <1>1, <1>4 DEF Plausible
  <2>2. RenewalDue(t) = Smaller(t.issued + ((e - t.issued) * 2) \div 3, e - Lead)
    BY <1>1, <1>4, <2>1, Single DEF RenewalDue, RenewAfter
  <2> DEFINE life == e - t.issued
  <2>3. life \in Nat /\ life >= 2
    BY <1>1, <1>2, <2>1
  <2>4. (life * 2) \div 3 \in Nat \ {0} /\ 2 * ((life * 2) \div 3) >= life
    BY <2>3
  <2> QED
    BY <1>1, <1>2, <1>4, <2>1, <2>2, <2>4 DEF Smaller
<1> QED
  BY <1>3, <1>4

\* A certificate that a command got outlasts an attempt and what a CA asks for.
LEMMA Outlasts ==
  ASSUME NEW t \in Acme, Plausible(t), now \in Nat,
         NEW time \in Int, JustIssued(t, time),
         NEW limited \in BOOLEAN, NEW retry_after \in RetryAfters
  PROVE  /\ CaCooldown(limited, retry_after) \in Nat
         /\ CaCooldown(limited, retry_after) # 0 =>
              time + MaxAttempt + CaCooldown(limited, retry_after) <= RenewalDue(t)
<1>1. t.issued = time /\ t.renew = RenewAfter(t.issued, t.expires) /\ t # Manual
  BY OfCa DEF JustIssued, Plausible
<1>2. PICK l \in Lifetimes : t.expires = {time + l}
  BY DEF JustIssued
<1>3. l \in Nat /\ RetryAfters \subseteq Nat /\ RateLimitedFloor \in Nat /\ MaxAttempt \in Nat /\ Lead \in Nat
  BY TimesAssumption
<1>4. t.renew = time + (l * 2) \div 3
  BY <1>1, <1>2, <1>3, Planned
<1> DEFINE plan == (l * 2) \div 3
<1>5. plan \in Nat /\ t.renew = time + plan
  BY <1>3, <1>4
<1>6. \A wait \in RetryAfters \cup {RateLimitedFloor} :
        MaxAttempt + wait <= plan /\ MaxAttempt + wait <= l - Lead
  BY <1>3, <1>5, LifetimesAssumption DEF Smaller
<1> HIDE DEF plan
<1>7. /\ CaCooldown(limited, retry_after) \in RetryAfters \cup {RateLimitedFloor, 0}
      /\ CaCooldown(limited, retry_after) \in Nat
  BY <1>3 DEF CaCooldown, Larger
<1>8. RenewalDue(t) \in {time + plan, time + l - Lead}
  <2>1. The(t.expires) = time + l /\ t.expires # {}
    BY <1>2, Single
  <2>2. RenewalDue(t) \in {t.renew, The(t.expires) - Lead}
    BY <2>1 DEF RenewalDue, Smaller
  <2> QED
    BY <1>3, <1>5, <2>1, <2>2
<1> QED
  BY <1>3, <1>5, <1>6, <1>7, <1>8

LEMMA Waited ==
  ASSUME NEW limited \in BOOLEAN, NEW retry_after \in RetryAfters
  PROVE  CaCooldown(limited, retry_after) \in Nat
BY TimesAssumption DEF CaCooldown, Larger

LEMMA Sleeps ==
  ASSUME NEW until \in Int, NEW time \in Int
  PROVE  /\ SleepUntil(until, time) \in Int
         /\ SleepUntil(until, time) > time /\ SleepUntil(until, time) <= time + CheckEvery
         /\ SleepUntil(until, time) <= Larger(time + 1, until)
BY TimesAssumption DEF SleepUntil, Smaller, Larger

LEMMA OnDisk ==
  ASSUME RInv, tls # Manual
  PROVE  /\ tls \in Acme /\ RenewalDue(tls) \in Nat /\ tls.issued \in 0 .. now
         /\ tls.directory \in Directories /\ waits[tls.directory] \in Nat
<1>1. tls \in Acme /\ now \in Nat /\ Plausible(tls) /\ waits \in [Directories -> Nat]
  BY DEF RInv, Typed, Tls
<1>2. RenewalDue(tls) \in Int /\ RenewalDue(tls) > tls.issued
  BY <1>1, DueAfter
<1> QED
  BY <1>1, <1>2, OfCa DEF Plausible

\* A loop that forgets what it was at.
LEMMA Resumes ==
  ASSUME loop' = Awake
  PROVE  Looping'
<1>1. Awake \in Loop /\ Awake.pc = "look"
  BY DEF Awake, Loop
<1> QED
  BY <1>1 DEF Looping

LEMMA LoopStarts ==
  ASSUME RenewalInit
  PROVE  RInv
<1>1. now = 1 /\ renewals = Fresh /\ failing = Fresh /\ waits = NoWaits /\ streak = NoStreak /\ loop = Awake
  BY DEF RenewalInit
<1>2. Fresh \in Schedule /\ 0 \in 0 .. MaxCount
  BY TimesAssumption DEF Fresh, Schedule
<1>3. tls \in Tls /\ Plausible(tls)
  <2>1. CASE tls = Manual
    BY <2>1, ByOwner
  <2>2. CASE \E d \in Directories, a \in Accounts, e \in {{}} \cup {{l} : l \in Lifetimes} :
               tls = Issued(Manual, d, a, 0, e)
    <3>1. PICK d \in Directories, a \in Accounts, e \in {{}} \cup {{l} : l \in Lifetimes} :
            tls = Issued(Manual, d, a, 0, e)
      BY <2>2
    <3>2. e = {} \/ \E l \in Lifetimes : e = {l} /\ l \in Nat /\ l - 0 > Lead
      BY TimesAssumption, LifetimesAssumption
    <3>3. e \in SUBSET Int /\ 0 \in 0 .. now /\ (e = {} \/ \E x \in Int : e = {x})
      BY <1>1, <3>2
    <3>4. RenewAfter(0, e) \in Int
      BY <3>3, Whole
    <3>5. tls \in Acme /\ tls.renew = RenewAfter(tls.issued, tls.expires) /\ tls.issued = 0 /\ tls.expires = e
      BY <3>1, <3>3, <3>4 DEF Issued, Acme
    <3> QED
      BY <3>2, <3>3, <3>5 DEF Plausible, Tls
  <2> QED
    BY <2>1, <2>2 DEF RenewalInit
<1>4. Typed
  BY <1>1, <1>2, <1>3 DEF Typed, NoWaits, NoStreak, Fresh
<1>5. Scheduled
  BY <1>1 DEF Scheduled, Fresh, AtMostOne
<1>6. Linked
  <2>1. tls # Manual => waits[tls.directory] = 0 /\ RenewalDue(tls) \in Nat /\ AttemptOf(tls) # {}
    BY <1>1, <1>3, OfCa, DueAfter DEF Plausible, NoWaits
  <2> QED
    BY <1>1, <2>1 DEF Linked, Earning, Covered, Fresh, NoStreak
<1>7. Looping
  BY <1>1 DEF Looping, Awake, Loop
<1> QED
  BY <1>4, <1>5, <1>6, <1>7 DEF RInv

\* What a schedule asks for.
LEMMA Bounded ==
  ASSUME NEW schedule \in Schedule, AtMostOne(schedule.cooldown)
  PROVE  /\ NotBefore(schedule) \in Int /\ NotBefore(schedule) >= schedule.not_before
         /\ \A c \in schedule.cooldown : c.until \in Int /\ NotBefore(schedule) >= c.until
         /\ \/ NotBefore(schedule) = schedule.not_before
            \/ \E c \in schedule.cooldown : NotBefore(schedule) = c.until
<1>1. schedule.not_before \in Int /\ \A c \in schedule.cooldown : c.until \in Int
  BY DEF Schedule
<1>2. CASE schedule.cooldown = {}
  BY <1>1, <1>2 DEF NotBefore
<1>3. CASE schedule.cooldown # {}
  <2>1. PICK c \in schedule.cooldown : TRUE
    BY <1>3
  <2>2. schedule.cooldown = {c}
    BY <2>1 DEF AtMostOne
  <2>3. NotBefore(schedule) = Larger(schedule.not_before, c.until)
    BY <1>3, <2>2, Single DEF NotBefore
  <2> QED
    BY <1>1, <2>2, <2>3 DEF Larger
<1> QED
  BY <1>2, <1>3

\* What a failure leaves.
LEMMA Blamed ==
  ASSUME NEW schedule \in Schedule, NEW time \in Nat, NEW imposed \in Nat,
         NEW against \in SUBSET Attempts,
         NEW after, after = Failed(schedule, time, imposed, against)
  PROVE  /\ after \in Schedule
         /\ after.failures = Smaller(schedule.failures + 1, MaxCount)
         /\ after.not_before = time + RetryDelay(after.failures)
         /\ after.against = against
         /\ after.cooldown = IF imposed = 0 THEN schedule.cooldown
                             ELSE Cooldown(schedule.cooldown, time + imposed, against)
<1> DEFINE count == Smaller(schedule.failures + 1, MaxCount)
           cooldown == IF imposed = 0 THEN schedule.cooldown
                       ELSE Cooldown(schedule.cooldown, time + imposed, against)
<1>1. after =
        [failures |-> count, not_before |-> time + RetryDelay(count),
         against |-> against, cooldown |-> cooldown]
  BY DEF Failed
<1>2. count \in 0 .. MaxCount /\ count \in Nat
  BY TimesAssumption DEF Schedule, Smaller
<1>3. time + RetryDelay(count) \in Int
  BY <1>2, Doubling
<1>4. cooldown \in SUBSET [until: Int, directory: Directories]
  BY DEF Cooldown, Schedule, Attempts
<1> QED
  BY <1>1, <1>2, <1>3, <1>4 DEF Schedule

\* What the loop forgets when it looks: another attempt's failures, or nothing.
LEMMA Forgets ==
  ASSUME RInv
  PROVE  /\ SettingsChanged(renewals, tls) \in {Fresh, renewals}
         /\ SettingsChanged(renewals, tls).against \in {{}, AttemptOf(tls)}
         /\ SettingsChanged(renewals, tls) = Fresh => renewals = Fresh \/ renewals.against # AttemptOf(tls)
<1> DEFINE seen == AttemptOf(tls)
           after == SettingsChanged(renewals, tls)
           directories == {a.directory : a \in seen}
           kept == [renewals EXCEPT !.cooldown = Elsewhere(@, directories)]
<1>1. /\ renewals \in Schedule /\ tls \in Tls /\ AtMostOne(renewals.cooldown)
      /\ renewals.against = {} => renewals = Fresh
      /\ \A a \in renewals.against :
           /\ renewals.against = {a}
           /\ \A c \in renewals.cooldown : c.directory = a.directory
           /\ tls # Manual /\ a.issued = tls.issued => renewals.against = seen
  BY DEF RInv, Typed, Scheduled
<1>2. kept = [renewals EXCEPT !.cooldown = Elsewhere(renewals.cooldown, directories)]
  BY <1>1 DEF Schedule
<1>3. Elsewhere(renewals.cooldown, directories) = renewals.cooldown => kept = renewals
  BY <1>1, <1>2 DEF Schedule
<1>4. after = IF renewals.against = {} \/ renewals.against = seen THEN kept
              ELSE IF \E a \in renewals.against : \A s \in seen : a.issued # s.issued THEN Fresh
              ELSE [Fresh EXCEPT !.cooldown = kept.cooldown]
  BY DEF SettingsChanged
<1>5. Fresh.against = {} /\ Fresh.cooldown = {}
  BY DEF Fresh
<1> HIDE DEF kept, after
<1>6. CASE renewals.against = {}
  <2>1. Elsewhere(renewals.cooldown, directories) = renewals.cooldown
    BY <1>1, <1>5, <1>6 DEF Elsewhere
  <2> QED
    BY <1>1, <1>3, <1>4, <1>6, <2>1 DEF after
<1>7. CASE renewals.against # {} /\ renewals.against = seen
  <2>1. Elsewhere(renewals.cooldown, directories) = renewals.cooldown
    BY <1>1, <1>7 DEF Elsewhere
  <2> QED
    BY <1>1, <1>3, <1>4, <1>5, <1>7, <2>1 DEF after
<1>8. CASE renewals.against # {} /\ renewals.against # seen
  <2>1. PICK a \in renewals.against : TRUE
    BY <1>8
  <2>2. \A s \in seen : a.issued # s.issued
    <3>1. CASE tls = Manual
      BY <3>1, ByOwner
    <3>2. CASE tls # Manual
      <4>1. tls \in Acme
        BY <1>1, <3>2 DEF Tls
      <4>2. \A s \in seen : s.issued = tls.issued
        BY <4>1, OfCa
      <4> QED
        BY <1>1, <1>8, <3>2, <4>2
    <3> QED
      BY <3>1, <3>2
  <2>3. after = Fresh
    BY <1>4, <1>8, <2>1, <2>2
  <2> QED
    BY <1>5, <1>8, <2>3 DEF after
<1> QED
  BY <1>6, <1>7, <1>8

\* A loop that goes to sleep.
LEMMA FallsAsleep ==
  ASSUME now \in Nat, NEW until \in Int, NEW current \in SUBSET Tls,
         Sleep(until, current)
  PROVE  /\ loop' \in Loop /\ loop'.pc = "sleep" /\ loop'.at = now /\ loop'.current = current
         /\ loop'.wake \in Int /\ loop'.wake > now /\ loop'.wake <= now + CheckEvery
         /\ loop'.wake <= Larger(now + 1, until)
<1>1. now \in Int
  OBVIOUS
<1>2. /\ SleepUntil(until, now) \in Int
      /\ SleepUntil(until, now) > now
      /\ SleepUntil(until, now) <= now + CheckEvery
      /\ SleepUntil(until, now) <= Larger(now + 1, until)
  BY <1>1, Sleeps
<1>3. loop' = [pc |-> "sleep", at |-> now, current |-> current, witness |-> {},
               begun |-> 0, wake |-> SleepUntil(until, now)]
  BY DEF Sleep, Awake
<1> QED
  BY <1>1, <1>2, <1>3 DEF Loop

LEMMA Looks ==
  ASSUME RInv, LookAgain
  PROVE  RInv'
<1>1. /\ loop.pc = "look" /\ UNCHANGED <<now, tls, waits, streak>>
      /\ renewals' = SettingsChanged(renewals, tls)
  BY DEF LookAgain
<1>2. /\ renewals' \in {Fresh, renewals} /\ renewals'.against \in {{}, AttemptOf(tls)}
      /\ renewals' = Fresh => renewals = Fresh \/ renewals.against # AttemptOf(tls)
  BY <1>1, Forgets
<1>3. Fresh \in Schedule /\ Fresh.against = {} /\ Fresh.cooldown = {} /\ Fresh.not_before = 0
  BY TimesAssumption DEF Fresh, Schedule
<1>4. Typed'
  BY <1>1, <1>2, <1>3 DEF RInv, Typed, Plausible, LookAgain
<1>5. Scheduled'
  BY <1>1, <1>2, <1>3 DEF RInv, Scheduled, AtMostOne
<1>6. Linked'
  <2>1. CASE renewals' = renewals
    BY <1>1, <2>1 DEF RInv, Linked, Earning, Covered
  <2>2. CASE renewals' = Fresh /\ renewals.against # AttemptOf(tls) /\ tls # Manual
    <3>1. AttemptOf(tls) # {}
      BY <2>2, OnDisk, OfCa
    <3> QED
      BY <1>1, <1>3, <2>2, <3>1 DEF RInv, Linked, Earning, Covered
  <2>3. CASE tls = Manual
    BY <1>1, <2>3 DEF Linked
  <2> QED
    BY <1>2, <2>1, <2>2, <2>3
<1>7. now \in Nat /\ tls \in Tls /\ Plausible(tls)
  BY DEF RInv, Typed
<1>8. Looping'
  <2>1. CASE tls = Manual
    <3>1. Sleep(now + CheckEvery, {tls})
      BY <1>1, <2>1 DEF LookAgain
    <3>2. now + CheckEvery \in Int
      BY <1>7, TimesAssumption
    <3>3. {tls} \in SUBSET Tls
      BY <1>7
    <3>4. /\ loop' \in Loop /\ loop'.pc = "sleep" /\ loop'.at = now /\ loop'.current = {tls}
          /\ loop'.wake \in Int /\ loop'.wake > now /\ loop'.wake <= now + CheckEvery
      BY <1>7, <3>1, <3>2, <3>3, FallsAsleep
    <3>5. Asleep(tls)'
      BY <1>1, <1>7, <2>1, <3>4 DEF Asleep, Plausible
    <3> QED
      BY <1>1, <3>4, <3>5 DEF Looping
  <2>2. CASE tls # Manual
    <3>1. RenewalDue(tls) \in Nat /\ tls \in Acme
      BY <2>2, OnDisk
    <3>2. NotBefore(renewals') \in Int
      BY <1>4, <1>5, Bounded DEF Typed, Scheduled
    <3> DEFINE allowed == Allowed(tls, renewals', now)
    <3>3. /\ allowed \in Int
          /\ allowed <= Larger(RenewalDue(tls), NotBefore(renewals'))
          /\ allowed <= now => RenewalDue(tls) <= now /\ NotBefore(renewals') <= now
      BY <1>7, <3>1, <3>2 DEF Allowed, Larger
    <3>4. CASE allowed > now
      <4>1. Sleep(allowed, {tls})
        BY <1>1, <2>2, <3>4 DEF LookAgain
      <4> HIDE DEF allowed
      <4>2. {tls} \in SUBSET Tls
        BY <1>7
      <4>3. /\ loop' \in Loop /\ loop'.pc = "sleep" /\ loop'.at = now /\ loop'.current = {tls}
            /\ loop'.wake \in Int /\ loop'.wake > now /\ loop'.wake <= now + CheckEvery
            /\ loop'.wake <= Larger(now + 1, allowed)
        BY <1>7, <3>3, <4>1, <4>2, FallsAsleep
      <4>4. /\ Larger(RenewalDue(tls), NotBefore(renewals')) > now
            /\ loop'.wake <= Larger(now + 1, Larger(RenewalDue(tls), NotBefore(renewals')))
        BY <1>7, <3>1, <3>2, <3>3, <3>4, <4>3 DEF Larger
      <4>5. Asleep(tls)'
        BY <1>1, <1>2, <1>7, <4>3, <4>4 DEF Asleep, Plausible, Alike, AttemptOf, RenewalDue
      <4> QED
        BY <1>1, <4>3, <4>5 DEF Looping
    <3>5. CASE ~ (allowed > now)
      <4>1. loop' = [Awake EXCEPT !.pc = "renew", !.at = now, !.current = {tls}]
        BY <1>1, <2>2, <3>5 DEF LookAgain
      <4>2. loop' \in Loop /\ loop'.pc = "renew" /\ loop'.at = now /\ loop'.current = {tls}
        <5>1. loop' = [pc |-> "renew", at |-> now, current |-> {tls}, witness |-> {},
                       begun |-> 0, wake |-> 0]
          BY <4>1 DEF Awake
        <5> QED
          BY <1>7, <5>1 DEF Loop
      <4>3. RenewalDue(tls) <= now /\ NotBefore(renewals') <= now
        BY <1>7, <3>3, <3>5
      <4>4. Renewing(tls)'
        BY <1>1, <1>2, <1>7, <3>1, <4>2, <4>3 DEF Renewing, Plausible, Alike, AttemptOf, RenewalDue
      <4> QED
        BY <1>1, <4>2, <4>4 DEF Looping
    <3> QED
      BY <3>4, <3>5
  <2> QED
    BY <2>1, <2>2
<1> QED
  BY <1>4, <1>5, <1>6, <1>8 DEF RInv

LEMMA LookFailing ==
  ASSUME RInv, LookFails
  PROVE  RInv'
<1>1. /\ UNCHANGED <<now, tls, renewals, waits, streak>>
      /\ failing' = Failed(failing, now, 0, {}) /\ Sleep(NotBefore(failing'), {})
  BY DEF LookFails
<1>2. now \in Nat /\ failing \in Schedule /\ failing.cooldown = {}
  BY DEF RInv, Typed
<1>3. failing' \in Schedule /\ failing'.cooldown = {}
  <2>1. {} \in SUBSET Attempts /\ 0 \in Nat
    OBVIOUS
  <2> QED
    BY <1>1, <1>2, <2>1, Blamed
<1>4. NotBefore(failing') \in Int
  BY <1>3, Bounded DEF AtMostOne
<1>5. loop' \in Loop /\ loop'.pc = "sleep" /\ loop'.current = {}
  BY <1>1, <1>2, <1>4, FallsAsleep
<1> QED
  BY <1>1, <1>3, <1>5 DEF RInv, Typed, Plausible, Scheduled, Linked, Earning, Covered, Looping

LEMMA Wakes ==
  ASSUME RInv, Wake
  PROVE  RInv'
BY Resumes DEF Wake, RInv, Typed, Plausible, Scheduled, Linked, Earning, Covered

LEMMA Begun ==
  ASSUME RInv, BeginAttempt
  PROVE  RInv'
<1>1. /\ UNCHANGED <<now, tls, renewals, waits, streak>> /\ tls # Manual /\ loop.pc = "renew"
      /\ loop' = [loop EXCEPT !.pc = "order", !.witness = {tls}, !.begun = now]
  BY DEF BeginAttempt
<1>2. Typed' /\ Scheduled' /\ Linked'
  BY <1>1 DEF RInv, Typed, Plausible, Scheduled, Linked, Earning, Covered, BeginAttempt
<1>3. PICK t \in loop.current : Renewing(t)
  BY <1>1 DEF RInv, Looping
<1>4. /\ loop'.pc = "order" /\ loop'.at = loop.at /\ loop'.current = loop.current
      /\ loop'.witness = {tls} /\ loop'.begun = now
  BY <1>1 DEF RInv, Looping, Loop
<1>5. tls \in Acme /\ MaxAttempt \in Nat /\ now \in Nat
  BY <1>1, OnDisk, TimesAssumption DEF RInv, Typed
<1>6. loop.current = {t} /\ loop.at = now
  BY <1>1, <1>3 DEF Renewing
<1>7. Renewing(t)'
  <2>1. /\ loop'.pc = "order" /\ loop'.begun = loop'.at /\ now' <= loop'.at + MaxAttempt
        /\ \E w \in Acme : loop'.witness = {w} /\ tls' \in {w, Manual}
    BY <1>1, <1>4, <1>5, <1>6
  <2> QED
    BY <1>1, <1>3, <1>4, <1>6, <2>1 DEF Renewing, Plausible, JustIssued
<1>8. loop' \in Loop
  <2>1. loop \in Loop /\ {tls} \in SUBSET Tls /\ now \in Int
    BY <1>5 DEF RInv, Looping, Tls
  <2> QED
    BY <1>1, <2>1 DEF Loop
<1>9. Looping'
  BY <1>4, <1>6, <1>7, <1>8 DEF Looping
<1> QED
  BY <1>2, <1>9 DEF RInv

\* An attempt that fails: what it is held against, what it costs, what it was told.
LEMMA Fails ==
  ASSUME RInv, NEW t \in loop.current, Renewing(t), NEW imposed \in Nat,
         NEW settings \in Tls, settings = tls \/ tls = Manual,
         Failure(imposed), Counted(settings), UNCHANGED <<now, tls, failing>>,
         waits' \in [Directories -> Nat],
         imposed = 0 => waits' = waits,
         imposed # 0 /\ tls # Manual => waits'[tls.directory] = Larger(waits[tls.directory], now + imposed),
         imposed # 0 /\ tls # Manual /\ JustIssued(tls, loop.at) => now + imposed <= RenewalDue(tls)
  PROVE  RInv'
<1>1. /\ loop' = Awake /\ loop.current = {t} /\ t \in Acme /\ Plausible(t)
      /\ loop.at \in Int /\ RenewalDue(t) <= loop.at /\ loop.at <= now
      /\ renewals.against \in {{}, AttemptOf(t)}
      /\ tls # Manual => Alike(tls, t) \/ JustIssued(tls, loop.at)
  BY DEF Failure, Renewing
<1>2. /\ now \in Nat /\ renewals \in Schedule /\ AtMostOne(renewals.cooldown)
      /\ waits \in [Directories -> Nat] /\ tls \in Tls
      /\ streak \in [against: SUBSET Attempts, failures: Nat, last: Int]
  BY DEF RInv, Typed, Scheduled
<1> DEFINE a == [directory |-> t.directory, account |-> t.account, issued |-> t.issued]
<1>3. /\ AttemptOf(t) = {a} /\ {a} \in SUBSET Attempts /\ t.directory \in Directories
      /\ a.directory = t.directory /\ a.issued = t.issued /\ t.issued \in Int
  BY <1>1, OfCa
<1>4. /\ RenewalDue(t) \in Int /\ t.issued < RenewalDue(t) /\ t.issued < loop.at
  BY <1>1, <1>2, <1>3, DueAfter
<1> HIDE DEF a
<1>5. renewals' = Failed(renewals, now, imposed, {a})
  BY <1>1, <1>3 DEF Failure
<1>6. /\ renewals' \in Schedule
      /\ renewals'.failures = Smaller(renewals.failures + 1, MaxCount)
      /\ renewals'.not_before = now + RetryDelay(renewals'.failures)
      /\ renewals'.against = {a}
      /\ renewals'.cooldown = IF imposed = 0 THEN renewals.cooldown
                              ELSE Cooldown(renewals.cooldown, now + imposed, {a})
  BY <1>2, <1>3, <1>5, Blamed
<1>7. renewals'.cooldown = renewals.cooldown \/ renewals'.cooldown = {[until |-> now + imposed, directory |-> t.directory]}
  BY <1>3, <1>6 DEF Cooldown
<1>8. \A c \in renewals.cooldown : renewals.against = {a} /\ c.directory = t.directory
  <2>1. CASE renewals.against = {}
    BY <2>1 DEF RInv, Scheduled, Fresh
  <2>2. CASE renewals.against = {a}
    BY <1>3, <2>2 DEF RInv, Scheduled
  <2> QED
    BY <1>1, <1>3, <2>1, <2>2
<1>9. tls # Manual /\ Alike(tls, t) => AttemptOf(tls) = {a} /\ RenewalDue(tls) = RenewalDue(t)
  BY <1>3 DEF Alike, AttemptOf, RenewalDue, a
<1>10. tls # Manual /\ ~ Alike(tls, t) => JustIssued(tls, loop.at) /\ tls.issued # t.issued /\ AttemptOf(tls) # {a}
  <2>1. SUFFICES ASSUME tls # Manual, ~ Alike(tls, t)
                 PROVE  JustIssued(tls, loop.at) /\ tls.issued # t.issued /\ AttemptOf(tls) # {a}
    OBVIOUS
  <2>2. JustIssued(tls, loop.at) /\ tls.issued = loop.at
    BY <1>1, <2>1 DEF JustIssued
  <2>3. tls.issued # t.issued
    BY <1>1, <1>3, <1>4, <2>2
  <2>4. AttemptOf(tls) = {[directory |-> tls.directory, account |-> tls.account, issued |-> tls.issued]}
    BY <2>1, OnDisk, OfCa
  <2> QED
    BY <2>2, <2>3, <2>4, <1>3 DEF a
<1>11. Typed'
  <2>1. streak' \in [against: SUBSET Attempts, failures: Nat, last: Int]
    <3>1. AttemptOf(settings) \in SUBSET Attempts
      BY OfCa, ByOwner DEF Tls
    <3>2. now \in Int /\ streak.failures + 1 \in Nat
      BY <1>2
    <3> DEFINE count == IF streak.against = AttemptOf(settings) THEN streak.failures + 1 ELSE 1
    <3>3. count \in Nat
      BY <3>2
    <3>4. streak' = streak \/ streak' = [against |-> AttemptOf(settings), failures |-> count, last |-> now]
      BY DEF Counted
    <3> HIDE DEF count
    <3> QED
      BY <1>2, <3>1, <3>2, <3>3, <3>4
  <2> QED
    BY <1>6, <2>1 DEF RInv, Typed, Plausible
<1>12. Scheduled'
  <2>1. AtMostOne(renewals'.cooldown) /\ \A c \in renewals'.cooldown : c.directory = a.directory
    BY <1>2, <1>3, <1>7, <1>8 DEF AtMostOne
  <2>2. tls # Manual /\ a.issued = tls.issued => {a} = AttemptOf(tls)
    BY <1>3, <1>9, <1>10
  <2>3. a.issued < now /\ now' = now /\ tls' = tls
    BY <1>1, <1>2, <1>3, <1>4
  <2> QED
    BY <1>6, <2>1, <2>2, <2>3 DEF Scheduled
<1>13. ASSUME tls # Manual PROVE (Earning /\ Covered)'
  <2>1. /\ tls' = tls /\ now' = now /\ settings = tls /\ tls \in Acme /\ tls.directory \in Directories
        /\ RenewalDue(tls) \in Nat /\ waits[tls.directory] \in Nat /\ Earning /\ Covered
    BY <1>13, OnDisk DEF RInv, Linked
  <2>2. CASE Alike(tls, t)
    <3>1. AttemptOf(tls) = {a} /\ RenewalDue(tls) <= now /\ tls.directory = t.directory
      BY <1>1, <1>2, <1>4, <1>9, <1>13, <2>2 DEF Alike
    <3>2. streak' = [against  |-> {a},
                     failures |-> IF streak.against = {a} THEN streak.failures + 1 ELSE 1,
                     last     |-> now]
      <4>1. ~ \A x \in loop.current : AttemptOf(x) # AttemptOf(settings)
        BY <1>1, <1>3, <2>1, <3>1
      <4> QED
        BY <2>1, <3>1, <4>1 DEF Counted
    <3>3. renewals'.failures = Smaller(streak'.failures, MaxCount) /\ streak'.failures > 0
      <4>1. CASE renewals.against = {a}
        <5>1. streak.against = {a} /\ renewals.failures = Smaller(streak.failures, MaxCount)
          BY <2>1, <3>1, <4>1 DEF Earning
        <5> QED
          BY <1>2, <1>6, <3>2, <5>1, TimesAssumption DEF Smaller
      <4>2. CASE renewals.against = {}
        <5>1. renewals.failures = 0
          BY <4>2 DEF RInv, Scheduled, Fresh
        <5>2. streak.against # {a} \/ streak.failures = 0
          BY <2>1, <3>1, <4>2 DEF Earning
        <5>3. streak'.failures = 1
          BY <3>2, <5>2
        <5> QED
          BY <1>6, <5>1, <5>3
      <4> QED
        BY <1>1, <1>3, <4>1, <4>2
    <3>4. streak'.against = {a} /\ streak'.last = now
      BY <3>2
    <3>5. \A c \in renewals.cooldown : c.until \in Int /\ c.until <= waits[tls.directory]
      BY <1>2, <1>8, <2>1, <3>1 DEF Earning, Schedule
    <3>6. /\ \A c \in renewals'.cooldown : c.until <= waits'[tls.directory]
          /\ waits'[tls.directory] <= RenewalDue(tls)
               \/ \E c \in renewals'.cooldown : c.until >= waits'[tls.directory]
      <4>1. CASE imposed = 0
        BY <1>6, <2>1, <3>5, <4>1 DEF Covered
      <4>2. CASE imposed # 0
        <5>1. /\ waits'[tls.directory] = Larger(waits[tls.directory], now + imposed)
              /\ waits[tls.directory] <= now \/ \E c \in renewals.cooldown : c.until >= waits[tls.directory]
          BY <1>2, <1>13, <2>1, <3>1, <4>2 DEF Covered
        <5>2. CASE \E c \in renewals.cooldown : c.until >= now + imposed
          <6>1. PICK c \in renewals.cooldown : c.until >= now + imposed
            BY <5>2
          <6>2. renewals'.cooldown = {c} /\ renewals.cooldown = {c} /\ c.until \in Int
            BY <1>2, <1>6, <3>5, <4>2, <6>1 DEF Cooldown, AtMostOne
          <6> QED
            BY <1>2, <2>1, <3>5, <5>1, <6>1, <6>2 DEF Larger
        <5>3. CASE ~ \E c \in renewals.cooldown : c.until >= now + imposed
          <6>1. renewals'.cooldown = {[until |-> now + imposed, directory |-> t.directory]}
            BY <1>3, <1>6, <4>2, <5>3 DEF Cooldown
          <6>2. waits'[tls.directory] = now + imposed
            BY <1>2, <2>1, <3>5, <5>1, <5>3 DEF Larger
          <6> QED
            BY <1>2, <6>1, <6>2
        <5> QED
          BY <5>2, <5>3
      <4> QED
        BY <4>1, <4>2
    <3>7. AttemptOf(tls)' = {a} /\ RenewalDue(tls)' = RenewalDue(tls)
      BY <2>1, <3>1 DEF AttemptOf, RenewalDue
    <3> QED
      BY <1>6, <2>1, <3>3, <3>4, <3>6, <3>7 DEF Earning, Covered
  <2>3. CASE ~ Alike(tls, t)
    <3>1. JustIssued(tls, loop.at) /\ AttemptOf(tls) # {a}
      BY <1>10, <1>13, <2>3
    <3>2. streak' = streak /\ streak.failures = 0
      <4>1. \A x \in loop.current : AttemptOf(x) # AttemptOf(settings)
        BY <1>1, <1>3, <2>1, <3>1
      <4> QED
        BY <3>1, <4>1 DEF Counted, JustIssued
    <3>3. waits[tls.directory] = 0
      BY <2>1, <3>1 DEF JustIssued
    <3>4. waits'[tls.directory] <= RenewalDue(tls)
      BY <1>2, <1>13, <2>1, <3>1, <3>3 DEF Larger
    <3>5. AttemptOf(tls)' = AttemptOf(tls) /\ RenewalDue(tls)' = RenewalDue(tls)
      BY <2>1 DEF AttemptOf, RenewalDue
    <3> QED
      BY <1>6, <2>1, <3>1, <3>2, <3>4, <3>5 DEF Earning, Covered
  <2> QED
    BY <2>2, <2>3
<1>14. Linked'
  BY <1>13 DEF Linked
<1> QED
  BY <1>1, <1>11, <1>12, <1>14, Resumes DEF RInv

LEMMA NeverBegun ==
  ASSUME RInv, NotBegun
  PROVE  RInv'
<1>1. /\ loop.pc = "renew" /\ Failure(0) /\ Counted(tls)
      /\ UNCHANGED <<now, tls, failing>> /\ waits' = waits
  BY DEF NotBegun
<1>2. PICK t \in loop.current : Renewing(t)
  BY <1>1 DEF RInv, Looping
<1>3. tls \in Tls /\ waits \in [Directories -> Nat] /\ 0 \in Nat
  BY DEF RInv, Typed
<1> QED
  BY <1>1, <1>2, <1>3, Fails

LEMMA Refusals ==
  ASSUME RInv, Refused
  PROVE  RInv'
<1>1. loop.pc = "order" /\ UNCHANGED <<now, tls, failing>>
  BY DEF Refused
<1>2. PICK limited \in BOOLEAN, retry_after \in RetryAfters, settings \in loop.witness :
        LET imposed == CaCooldown(limited, retry_after)
        IN /\ Failure(imposed)
           /\ waits' = [waits EXCEPT ![settings.directory] =
                          IF imposed = 0 THEN @ ELSE Larger(@, now + imposed)]
           /\ Counted(settings)
  BY DEF Refused
<1>3. PICK t \in loop.current : Renewing(t)
  BY <1>1 DEF RInv, Looping
<1>4. settings \in Acme /\ settings \in Tls /\ (settings = tls \/ tls = Manual)
  BY <1>1, <1>3 DEF Renewing, Tls
<1>5. now \in Nat /\ waits \in [Directories -> Nat] /\ settings.directory \in Directories
  BY <1>4, OfCa DEF RInv, Typed
<1> DEFINE imposed == CaCooldown(limited, retry_after)
<1>6. imposed \in Nat
  BY Waited
<1>7. Failure(imposed) /\ Counted(settings)
  BY <1>2
<1>8. waits' = [waits EXCEPT ![settings.directory] =
                  IF imposed = 0 THEN waits[settings.directory]
                  ELSE Larger(waits[settings.directory], now + imposed)]
  BY <1>2, <1>5
<1>9. ASSUME tls # Manual, JustIssued(tls, loop.at), imposed # 0
      PROVE  now + imposed <= RenewalDue(tls)
  <2>1. tls \in Acme /\ Plausible(tls) /\ RenewalDue(tls) \in Nat
    BY <1>9, OnDisk DEF RInv, Typed
  <2>2. loop.at \in Int /\ now <= loop.at + MaxAttempt
    BY <1>1, <1>3 DEF Renewing
  <2>3. MaxAttempt \in Nat
    BY TimesAssumption
  <2>4. loop.at + MaxAttempt + imposed <= RenewalDue(tls)
    BY <1>5, <1>9, <2>1, <2>2, Outlasts
  <2> QED
    BY <1>5, <1>6, <2>1, <2>2, <2>3, <2>4
<1> HIDE DEF imposed
<1>10. /\ waits' \in [Directories -> Nat]
       /\ imposed = 0 => waits' = waits
       /\ imposed # 0 => waits'[settings.directory] = Larger(waits[settings.directory], now + imposed)
  <2>1. (IF imposed = 0 THEN waits[settings.directory]
         ELSE Larger(waits[settings.directory], now + imposed)) \in Nat
    BY <1>5, <1>6 DEF Larger
  <2> QED
    BY <1>5, <1>8, <2>1
<1> QED
  BY <1>1, <1>3, <1>4, <1>6, <1>7, <1>9, <1>10, Fails

LEMMA NeverRecorded ==
  ASSUME RInv, NotRecorded
  PROVE  RInv'
<1>1. /\ loop.pc = "order" /\ Failure(0) /\ \A settings \in loop.witness : Counted(settings)
      /\ UNCHANGED <<now, tls, failing>> /\ waits' = waits
  BY DEF NotRecorded
<1>2. PICK t \in loop.current : Renewing(t)
  BY <1>1 DEF RInv, Looping
<1>3. PICK settings \in Acme : loop.witness = {settings} /\ tls \in {settings, Manual}
  BY <1>1, <1>2 DEF Renewing
<1>4. waits \in [Directories -> Nat] /\ 0 \in Nat /\ settings \in Tls
  BY DEF RInv, Typed, Tls
<1> QED
  BY <1>1, <1>2, <1>3, <1>4, Fails

\* A certificate, whoever asked for it: nothing that went before counts.
LEMMA Replaced ==
  ASSUME RInv, NEW d \in Directories, NEW a \in Accounts,
         NEW at \in 0 .. now, NEW e \in SUBSET Int,
         e = {} \/ \E x \in Int : e = {x} /\ x - at > Lead,
         NEW t, t = Issued(tls, d, a, at, e), tls' = t, waits' = NoWaits, streak' = NoStreak,
         now' = now, failing' = failing,
         renewals' = Fresh \/ (renewals' = renewals /\ at = now)
  PROVE  /\ Typed' /\ Scheduled' /\ Linked'
         /\ t \in Acme /\ t # Manual /\ t.issued = at /\ t.expires = e
<1>1. /\ now \in Nat /\ renewals \in Schedule /\ tls \in Tls
      /\ Fresh \in Schedule /\ Fresh.against = {} /\ Fresh.cooldown = {}
  BY TimesAssumption DEF RInv, Typed, Fresh, Schedule
<1>2. RenewAfter(at, e) \in Int /\ at \in Int
  <2>1. at \in Int /\ (e = {} \/ \E x \in Int : e = {x})
    BY <1>1
  <2> QED
    BY <2>1, Whole
<1>3. t \in Acme /\ t.issued = at /\ t.expires = e /\ t.renew = RenewAfter(at, e) /\ t.directory = d
  <2>1. (IF tls = Manual THEN "http-01" ELSE tls.challenge) \in {"http-01", "dns-01"}
    BY <1>1 DEF Tls, Acme
  <2> QED
    BY <1>2, <2>1 DEF Issued, Acme
<1>4. /\ AttemptOf(t) = {[directory |-> t.directory, account |-> t.account, issued |-> t.issued]}
      /\ t # Manual /\ t \in Tls
  BY <1>3, OfCa
<1>5. Plausible(t)
  BY <1>1, <1>2, <1>3 DEF Plausible
<1>6. Typed'
  BY <1>1, <1>3, <1>4, <1>5 DEF RInv, Typed, Plausible, NoWaits, NoStreak
<1>7. RenewalDue(t) \in Nat
  BY <1>1, <1>3, <1>5, DueAfter
<1>8. \A x \in renewals'.against : x.issued < now /\ x.issued # t.issued
  BY <1>1, <1>3 DEF RInv, Scheduled
<1>9. Scheduled'
  BY <1>1, <1>3, <1>8 DEF RInv, Scheduled, AtMostOne
<1>10. renewals'.against # AttemptOf(t)
  <2>1. AttemptOf(t) # {} /\ \A x \in AttemptOf(t) : x.issued = t.issued
    BY <1>4
  <2> QED
    BY <1>8, <2>1
<1>11. waits'[t.directory] = 0
  BY <1>3 DEF NoWaits
<1>12. Linked'
  BY <1>7, <1>10, <1>11 DEF Linked, Earning, Covered, NoStreak
<1> QED
  BY <1>3, <1>4, <1>6, <1>9, <1>12

LEMMA Renews ==
  ASSUME RInv, Renewed
  PROVE  RInv'
<1>1. /\ loop.pc = "order" /\ {tls} = loop.witness /\ loop' = Awake
      /\ renewals' = Fresh /\ waits' = NoWaits /\ streak' = NoStreak
      /\ UNCHANGED <<now, failing, budget>>
  BY DEF Renewed
<1>2. PICK e \in {{}} \cup {{now + l} : l \in Lifetimes} :
        tls' = Issued(tls, tls.directory, tls.account, loop.begun, e)
  BY DEF Renewed
<1>3. PICK t \in loop.current : Renewing(t)
  BY <1>1 DEF RInv, Looping
<1>4. /\ t \in Acme /\ Plausible(t) /\ loop.begun = loop.at /\ loop.at \in Int
      /\ RenewalDue(t) <= loop.at /\ loop.at <= now /\ tls \in Acme /\ now \in Nat
  BY <1>1, <1>3 DEF Renewing, RInv, Typed
<1>5. loop.begun \in 0 .. now
  <2>1. RenewalDue(t) \in Int /\ RenewalDue(t) > t.issued /\ t.issued \in 0 .. now
    BY <1>4, DueAfter, OfCa DEF Plausible
  <2> QED
    BY <1>4, <2>1
<1>6. e \in SUBSET Int /\ (e = {} \/ \E x \in Int : e = {x} /\ x - loop.begun > Lead)
  <2>1. \A l \in Lifetimes : now + l \in Int /\ (now + l) - loop.begun > Lead
    BY <1>4, <1>5, TimesAssumption, LifetimesAssumption
  <2> QED
    BY <2>1
<1>7. tls.directory \in Directories /\ tls.account \in Accounts
  BY <1>4, OfCa
<1>8. Typed' /\ Scheduled' /\ Linked'
  BY <1>1, <1>2, <1>5, <1>6, <1>7, Replaced
<1> QED
  BY <1>1, <1>8, Resumes DEF RInv

LEMMA Commands ==
  ASSUME RInv, CommandRenews
  PROVE  RInv'
<1>1. /\ loop.pc # "order" /\ waits' = NoWaits /\ streak' = NoStreak
      /\ UNCHANGED <<now, renewals, failing, loop>>
  BY DEF CommandRenews
<1>2. PICK d \in Directories, a \in Accounts, l \in Lifetimes :
        tls' = Issued(tls, d, a, now, {now + l})
  BY DEF CommandRenews
<1>3. now \in Nat /\ now \in 0 .. now /\ {now + l} \in SUBSET Int
      /\ \E x \in Int : {now + l} = {x} /\ x - now > Lead
  BY TimesAssumption, LifetimesAssumption DEF RInv, Typed
<1>4. /\ Typed' /\ Scheduled' /\ Linked'
      /\ tls' \in Acme /\ tls'.issued = now /\ tls'.expires = {now + l}
  <2> DEFINE e == {now + l}
  <2>1. e \in SUBSET Int /\ (e = {} \/ \E x \in Int : e = {x} /\ x - now > Lead)
    BY <1>3
  <2>2. tls' = Issued(tls, d, a, now, e)
    BY <1>2
  <2> HIDE DEF e
  <2>3. Typed' /\ Scheduled' /\ Linked' /\ tls' \in Acme /\ tls'.issued = now /\ tls'.expires = e
    BY <1>1, <1>3, <2>1, <2>2, Replaced
  <2> QED
    BY <2>3 DEF e
<1>5. \A t : Plausible(t)' = Plausible(t)
  BY <1>1 DEF Plausible
<1>6. JustIssued(tls, now)'
  BY <1>1, <1>4 DEF JustIssued, NoStreak, NoWaits
<1>7. Looping'
  <2>1. loop' \in Loop
    BY <1>1 DEF RInv, Looping
  <2>2. ASSUME loop.pc = "sleep", NEW t \in loop.current PROVE Asleep(t)'
    <3>1. Asleep(t)
      BY <2>2 DEF RInv, Looping
    <3> QED
      BY <1>1, <1>3, <1>4, <3>1 DEF Asleep, Plausible
  <2>3. ASSUME loop.pc = "renew" PROVE \E t \in loop.current : Renewing(t)'
    <3>1. PICK t \in loop.current : Renewing(t)
      BY <2>3 DEF RInv, Looping
    <3>2. loop.at = now
      BY <2>3, <3>1 DEF Renewing
    <3> QED
      BY <1>1, <1>6, <2>3, <3>1, <3>2 DEF Renewing, Plausible
  <2> QED
    BY <1>1, <2>1, <2>2, <2>3 DEF Looping
<1> QED
  BY <1>4, <1>7 DEF RInv

\* What the schedule sees of the settings does not include the challenge.
LEMMA Switches ==
  ASSUME RInv, CommandSwitches
  PROVE  RInv'
<1>1. /\ loop.pc # "order" /\ tls # Manual
      /\ UNCHANGED <<now, renewals, failing, loop, waits, streak>>
  BY DEF CommandSwitches
<1>2. PICK challenge \in {"http-01", "dns-01"} : tls' = [tls EXCEPT !.challenge = challenge]
  BY DEF CommandSwitches
<1>3. tls \in Acme /\ Plausible(tls)
  BY <1>1 DEF RInv, Typed, Tls
<1>4. /\ tls'.issued = tls.issued /\ tls'.directory = tls.directory /\ tls'.account = tls.account
      /\ tls'.expires = tls.expires /\ tls'.renew = tls.renew /\ tls' \in Acme
  BY <1>2, <1>3 DEF Acme
<1>5. tls' # Manual /\ tls' \in Tls
  BY <1>4, OfCa
<1>6. AttemptOf(tls)' = AttemptOf(tls) /\ RenewalDue(tls)' = RenewalDue(tls)
  BY <1>1, <1>4, <1>5 DEF AttemptOf, RenewalDue
<1>7. Typed'
  BY <1>1, <1>3, <1>4, <1>5 DEF RInv, Typed, Plausible
<1>8. Scheduled'
  BY <1>1, <1>4, <1>6 DEF RInv, Scheduled
<1>9. Linked'
  BY <1>1, <1>4, <1>6 DEF RInv, Linked, Earning, Covered
<1>10. Looping'
  BY <1>1, <1>4 DEF RInv, Looping, Asleep, Renewing, Alike, JustIssued, Plausible
<1> QED
  BY <1>7, <1>8, <1>9, <1>10 DEF RInv

LEMMA Edits ==
  ASSUME RInv, EditToManual
  PROVE  RInv'
<1>1. tls' = Manual /\ UNCHANGED <<now, renewals, failing, loop, waits, streak>>
  BY DEF EditToManual
<1>2. Typed'
  BY <1>1, ByOwner DEF RInv, Typed, Plausible
<1>3. Scheduled' /\ Linked'
  BY <1>1 DEF RInv, Scheduled, Linked
<1>4. Looping'
  BY <1>1 DEF RInv, Looping, Asleep, Renewing, Plausible
<1> QED
  BY <1>2, <1>3, <1>4 DEF RInv

LEMMA Restarts ==
  ASSUME RInv, Restart
  PROVE  RInv'
<1>1. /\ loop' = Awake /\ renewals' = Fresh /\ failing' = Fresh
      /\ waits' = NoWaits /\ streak' = NoStreak /\ UNCHANGED <<now, tls>>
  BY DEF Restart
<1>2. Typed'
  BY <1>1, TimesAssumption DEF RInv, Typed, Plausible, Fresh, Schedule, NoWaits, NoStreak
<1>3. Scheduled'
  BY <1>1 DEF Scheduled, Fresh, AtMostOne
<1>4. Linked'
  <2>1. tls # Manual => waits'[tls.directory] = 0 /\ RenewalDue(tls) \in Nat /\ AttemptOf(tls) # {}
    BY <1>1, OnDisk, OfCa DEF NoWaits
  <2>2. AttemptOf(tls)' = AttemptOf(tls) /\ RenewalDue(tls)' = RenewalDue(tls)
    BY <1>1 DEF AttemptOf, RenewalDue
  <2> QED
    BY <1>1, <2>1, <2>2 DEF Linked, Earning, Covered, Fresh, NoStreak
<1> QED
  BY <1>1, <1>2, <1>3, <1>4, Resumes DEF RInv

LEMMA Passes ==
  ASSUME RInv, TimePasses
  PROVE  RInv'
<1>1. /\ now' = now + 1 /\ UNCHANGED <<tls, renewals, failing, loop, waits, streak, budget>>
      /\ \/ loop.pc = "sleep" /\ now < loop.wake
         \/ loop.pc = "order" /\ now < loop.begun + MaxAttempt
  BY DEF TimePasses
<1>2. now \in Nat /\ MaxAttempt \in Nat
  BY TimesAssumption DEF RInv, Typed
<1>3. \A t : Plausible(t) => Plausible(t)'
  BY <1>1, <1>2 DEF Plausible
<1>4. Typed'
  BY <1>1, <1>2, <1>3 DEF RInv, Typed
<1>5. Scheduled'
  <2>1. \A a \in renewals.against : a.issued \in Int /\ a.issued < now
    BY DEF RInv, Typed, Scheduled, Schedule, Attempts
  <2>2. \A a \in renewals.against : a.issued < now'
    BY <1>1, <1>2, <2>1
  <2>3. /\ renewals' = renewals /\ tls' = tls /\ AttemptOf(tls)' = AttemptOf(tls)
        /\ AtMostOne(renewals.cooldown)' = AtMostOne(renewals.cooldown)
    BY <1>1 DEF AttemptOf, AtMostOne
  <2> QED
    BY <2>2, <2>3 DEF RInv, Scheduled
<1>6. Linked'
  BY <1>1 DEF RInv, Linked, Earning, Covered, AttemptOf, RenewalDue
<1>7. Looping'
  <2>1. loop' \in Loop
    BY <1>1 DEF RInv, Looping
  <2>2. ASSUME loop.pc = "sleep", NEW t \in loop.current PROVE Asleep(t)'
    <3>1. Asleep(t) /\ now < loop.wake
      BY <1>1, <2>2 DEF RInv, Looping
    <3> QED
      BY <1>1, <1>2, <1>3, <3>1 DEF Asleep, Alike, AttemptOf, RenewalDue
  <2>3. ASSUME loop.pc = "order" PROVE \E t \in loop.current : Renewing(t)'
    <3>1. PICK t \in loop.current : Renewing(t)
      BY <2>3 DEF RInv, Looping
    <3>2. loop.begun = loop.at /\ now < loop.at + MaxAttempt /\ loop.at \in Int
      BY <1>1, <2>3, <3>1 DEF Renewing
    <3> QED
      BY <1>1, <1>2, <1>3, <2>3, <3>1, <3>2 DEF Renewing, Alike, JustIssued, AttemptOf, RenewalDue
  <2> QED
    BY <1>1, <2>1, <2>2, <2>3 DEF Looping
<1> QED
  BY <1>4, <1>5, <1>6, <1>7 DEF RInv

\* What a failure adds to the count, for whom.
LEMMA Adds ==
  ASSUME RInv, NEW settings \in Tls, Counted(settings)
  PROVE  /\ streak'.failures \in Nat /\ streak'.failures <= streak.failures + 1
         /\ settings = Manual /\ loop.pc = "renew" => streak' = streak
<1>1. streak \in [against: SUBSET Attempts, failures: Nat, last: Int]
  BY DEF RInv, Typed
<1>2. streak' = streak \/ streak'.failures \in {streak.failures + 1, 1}
  BY DEF Counted
<1>3. ASSUME settings = Manual, loop.pc = "renew" PROVE streak' = streak
  <2>1. \E t \in Acme : loop.current = {t}
    BY <1>3 DEF RInv, Looping, Renewing
  <2>2. \A t \in loop.current : AttemptOf(t) # AttemptOf(settings)
    BY <1>3, <2>1, OfCa, ByOwner
  <2> QED
    BY <2>2 DEF Counted
<1> QED
  BY <1>1, <1>2, <1>3

LEMMA Affords ==
  ASSUME RInv, Afforded, RenewalNext
  PROVE  Afforded'
<1> DEFINE gone == IF loop.pc = "order" /\ tls = Manual THEN 1 ELSE 0
<1>1. /\ budget \in [failures: 0 .. MaxFailures, changes: 0 .. MaxChanges]
      /\ MaxFailures \in Nat /\ MaxChanges \in Nat /\ streak.failures \in Nat
      /\ streak.failures + gone <= (MaxFailures - budget.failures) + (MaxChanges - budget.changes)
      /\ gone \in {0, 1}
  BY TimesAssumption DEF RInv, Typed, Afforded
<1>2. Awake.pc = "look" /\ NoStreak.failures = 0
  BY DEF Awake, NoStreak
<1>3. Spend("failures") =>
        /\ budget' \in [failures: 0 .. MaxFailures, changes: 0 .. MaxChanges]
        /\ budget'.failures = budget.failures - 1 /\ budget'.changes = budget.changes
  BY <1>1 DEF Spend
<1>4. Spend("changes") =>
        /\ budget' \in [failures: 0 .. MaxFailures, changes: 0 .. MaxChanges]
        /\ budget'.changes = budget.changes - 1 /\ budget'.failures = budget.failures
  BY <1>1 DEF Spend
<1>5. CASE LookAgain \/ LookFails \/ Wake
  <2>1. loop'.pc # "order" /\ streak' = streak
    BY <1>2, <1>5 DEF LookAgain, LookFails, Wake, Sleep, Awake
  <2>2. budget' = budget \/ Spend("failures")
    BY <1>5 DEF LookAgain, LookFails, Wake
  <2> QED
    BY <1>1, <1>3, <2>1, <2>2 DEF Afforded
<1>6. CASE BeginAttempt \/ TimePasses
  <2>1. streak' = streak /\ budget' = budget /\ tls' = tls
    BY <1>6 DEF BeginAttempt, TimePasses
  <2>2. loop'.pc = "order" /\ tls = Manual => loop.pc = "order"
    BY <1>6 DEF BeginAttempt, TimePasses
  <2> QED
    BY <1>1, <2>1, <2>2 DEF Afforded
<1>7. CASE NotBegun
  <2>1. /\ loop.pc = "renew" /\ loop' = Awake /\ Counted(tls) /\ tls \in Tls
        /\ Spend("failures") \/ (tls = Manual /\ budget' = budget)
    BY <1>7 DEF NotBegun, Failure, RInv, Typed
  <2>2. /\ streak'.failures \in Nat /\ streak'.failures <= streak.failures + 1
        /\ tls = Manual => streak' = streak
    BY <2>1, Adds
  <2> QED
    BY <1>1, <1>2, <1>3, <2>1, <2>2 DEF Afforded
<1>8. CASE Refused \/ NotRecorded
  <2>1. loop.pc = "order" /\ loop' = Awake
    BY <1>8 DEF Refused, NotRecorded, Failure
  <2>2. PICK w \in Acme : loop.witness = {w} /\ tls \in {w, Manual}
    BY <2>1 DEF RInv, Looping, Renewing
  <2>3. Counted(w) /\ (Spend("failures") \/ (tls = Manual /\ budget' = budget))
    BY <1>8, <2>2 DEF Refused, NotRecorded
  <2>4. streak'.failures \in Nat /\ streak'.failures <= streak.failures + 1
    BY <2>2, <2>3, Adds DEF Tls
  <2> QED
    BY <1>1, <1>2, <1>3, <2>1, <2>3, <2>4 DEF Afforded
<1>9. CASE Renewed \/ CommandRenews \/ Restart
  <2>1. /\ streak' = NoStreak
        /\ budget' = budget \/ Spend("changes")
        /\ loop' = Awake \/ (loop' = loop /\ loop.pc # "order")
    BY <1>9 DEF Renewed, CommandRenews, Restart
  <2> QED
    BY <1>1, <1>2, <1>4, <2>1 DEF Afforded
<1>10. CASE CommandSwitches \/ EditToManual
  <2>1. Spend("changes") /\ streak' = streak /\ loop' = loop /\ (loop.pc = "order" => tls # Manual)
    BY <1>10 DEF CommandSwitches, EditToManual
  <2> QED
    BY <1>1, <1>4, <2>1 DEF Afforded
<1> QED
  BY <1>5, <1>6, <1>7, <1>8, <1>9, <1>10 DEF RenewalNext, Attempting

\* Every turn of the loop, every command and every edit keeps the invariant.
THEOREM RInvInductive ==
  ASSUME RInv, Afforded, [RenewalNext]_renewalVars
  PROVE  RInv' /\ Afforded'
<1>1. CASE RenewalNext
  BY <1>1, Looks, LookFailing, Wakes, Begun, NeverBegun, Refusals, NeverRecorded, Renews,
     Passes, Commands, Switches, Edits, Restarts, Affords DEF RenewalNext, Attempting
<1>2. CASE UNCHANGED renewalVars
  <2>1. UNCHANGED <<now, tls, renewals, failing, loop, waits, streak>>
    BY <1>2 DEF renewalVars
  <2>2. Typed' /\ Scheduled' /\ Linked'
    BY <2>1 DEF RInv, Typed, Plausible, Scheduled, Linked, Earning, Covered
  <2>3. \A t : Asleep(t)' = Asleep(t) /\ Renewing(t)' = Renewing(t)
    BY <2>1 DEF Asleep, Renewing, Plausible, JustIssued
  <2>4. Afforded'
    BY <1>2 DEF renewalVars, Afforded
  <2> QED
    BY <2>1, <2>2, <2>3, <2>4 DEF RInv, Looping
<1> QED
  BY <1>1, <1>2

\* A step by which an order goes to a CA.
LEMMA Orders ==
  ASSUME RInv, RenewalNext, Begins
  PROVE  /\ BeginAttempt
         /\ \E t \in loop.current : Renewing(t)
<1>1. loop.pc = "renew" /\ loop'.pc = "order"
  BY DEF Begins
<1>2. Awake.pc = "look"
  BY DEF Awake
<1>3. ~ (LookAgain \/ LookFails \/ Wake \/ Refused \/ NotRecorded \/ Renewed)
  BY <1>1 DEF LookAgain, LookFails, Wake, Refused, NotRecorded, Renewed
<1>4. ~ (NotBegun \/ Restart)
  BY <1>1, <1>2 DEF NotBegun, Failure, Restart
<1>5. ~ (TimePasses \/ CommandRenews \/ CommandSwitches \/ EditToManual)
  BY <1>1 DEF TimePasses, CommandRenews, CommandSwitches, EditToManual
<1> QED
  BY <1>1, <1>3, <1>4, <1>5 DEF RenewalNext, Attempting, RInv, Looping

LEMMA HonoursCa ==
  ASSUME RInv, BeginAttempt, loop.pc = "renew", NEW t \in loop.current, Renewing(t)
  PROVE  now >= waits[tls.directory]
<1>1. /\ tls # Manual /\ tls.directory \in Directories /\ waits[tls.directory] \in Nat
      /\ RenewalDue(tls) \in Nat /\ now \in Nat
  BY OnDisk DEF BeginAttempt, RInv, Typed
<1>2. /\ loop.at = now /\ NotBefore(renewals) <= now /\ RenewalDue(t) <= now
      /\ Alike(tls, t) \/ JustIssued(tls, loop.at)
  BY <1>1 DEF Renewing
<1>3. CASE JustIssued(tls, loop.at)
  BY <1>1, <1>3 DEF JustIssued
<1>4. CASE Alike(tls, t)
  <2>1. RenewalDue(tls) = RenewalDue(t)
    BY <1>4 DEF Alike, RenewalDue
  <2>2. CASE waits[tls.directory] <= RenewalDue(tls)
    BY <1>1, <1>2, <2>1, <2>2
  <2>3. CASE \E c \in renewals.cooldown : c.until >= waits[tls.directory]
    <3>1. PICK c \in renewals.cooldown : c.until >= waits[tls.directory]
      BY <2>3
    <3>2. NotBefore(renewals) \in Int /\ c.until \in Int /\ NotBefore(renewals) >= c.until
      BY Bounded DEF RInv, Typed, Scheduled
    <3> QED
      BY <1>1, <1>2, <3>1, <3>2
  <2> QED
    BY <1>1, <2>2, <2>3 DEF RInv, Linked, Covered
<1> QED
  BY <1>2, <1>3, <1>4

\* What the schedule remembers of the failures is what they have earned.
LEMMA Remembers ==
  ASSUME RInv, Afforded, tls # Manual
  PROVE  /\ Earned \in Int
         /\ renewals.against = AttemptOf(tls) => renewals.not_before = Earned
         /\ renewals.against # AttemptOf(tls) => Earned = 0
<1>1. renewals \in Schedule /\ streak.failures \in 0 .. MaxFailures + MaxChanges /\ Earning
  BY TimesAssumption DEF RInv, Typed, Linked, Afforded
<1>2. CASE renewals.against = AttemptOf(tls)
  <2>1. /\ streak.against = AttemptOf(tls) /\ streak.failures > 0
        /\ renewals.failures = Smaller(streak.failures, MaxCount)
        /\ renewals.not_before = streak.last + RetryDelay(renewals.failures)
    BY <1>1, <1>2 DEF Earning
  <2>2. RetryDelay(renewals.failures) = Backoff(streak.failures)
    BY <1>1, <2>1, Doubling
  <2>3. renewals.not_before = Earned
    BY <2>1, <2>2 DEF Earned
  <2> QED
    BY <1>1, <1>2, <2>3 DEF Schedule
<1>3. CASE renewals.against # AttemptOf(tls)
  BY <1>1, <1>3 DEF Earning, Earned
<1> QED
  BY <1>2, <1>3

LEMMA HonoursBackoff ==
  ASSUME RInv, Afforded, BeginAttempt, loop.pc = "renew", NEW t \in loop.current, Renewing(t)
  PROVE  now >= Earned
<1>1. tls # Manual /\ now \in Nat /\ NotBefore(renewals) <= now
  BY DEF BeginAttempt, RInv, Typed, Renewing
<1>2. NotBefore(renewals) \in Int /\ NotBefore(renewals) >= renewals.not_before /\ renewals.not_before \in Int
  BY Bounded DEF RInv, Typed, Scheduled, Schedule
<1> QED
  BY <1>1, <1>2, Remembers

LEMMA LeavesFresh ==
  ASSUME RInv, BeginAttempt, loop.pc = "renew", NEW t \in loop.current, Renewing(t),
         loop.current = {tls}
  PROVE  \/ tls.expires = {} /\ now >= tls.issued + Unknown
         \/ \E e \in tls.expires : \/ 2 * (now - tls.issued) >= e - tls.issued
                                  \/ now >= e - Lead
<1>1. t = tls /\ tls \in Acme /\ Plausible(tls) /\ now \in Nat /\ RenewalDue(tls) <= now /\ now \in Int
  BY DEF Renewing, RInv, Typed
<1> QED
  BY <1>1, DueAfter

LEMMA NoLonger ==
  ASSUME RInv, Afforded, tls # Manual, renewals.against \in {{}, AttemptOf(tls)}
  PROVE  NotBefore(renewals) \in Int /\ NotBefore(renewals) <= Larger(Earned, waits[tls.directory])
<1>1. waits[tls.directory] \in Nat
  BY OnDisk
<1>2. /\ Earned \in Int
      /\ renewals.against = AttemptOf(tls) => renewals.not_before = Earned
  BY Remembers
<1>3. /\ \/ NotBefore(renewals) = renewals.not_before
         \/ \E c \in renewals.cooldown : NotBefore(renewals) = c.until
      /\ NotBefore(renewals) \in Int
  BY Bounded DEF RInv, Typed, Scheduled
<1>4. CASE renewals.against = {}
  <2>1. renewals.not_before = 0 /\ renewals.cooldown = {}
    BY <1>4 DEF RInv, Scheduled, Fresh
  <2> QED
    BY <1>1, <1>2, <1>3, <2>1 DEF Larger
<1>5. CASE renewals.against = AttemptOf(tls)
  <2>1. \A c \in renewals.cooldown : c.until <= waits[tls.directory]
    BY <1>5 DEF RInv, Linked, Earning
  <2> QED
    BY <1>1, <1>2, <1>3, <1>5, <2>1 DEF Larger
<1> QED
  BY <1>4, <1>5

LEMMA Sleeping ==
  ASSUME RInv, Afforded
  PROVE  WaitsNoLonger /\ NotOverslept
<1>1. SUFFICES ASSUME loop.pc = "sleep", tls # Manual, NEW t \in loop.current, Asleep(t)
               PROVE  /\ t = tls => NotBefore(renewals) <= Larger(Earned, waits[tls.directory])
                      /\ now <= Larger(loop.at + 1,
                           Larger(RenewalDue(tls), Larger(Earned, waits[tls.directory]))
                           + IF loop.current = {tls} THEN 0 ELSE CheckEvery)
  BY DEF WaitsNoLonger, NotOverslept, RInv, Looping
<1> DEFINE first == Larger(RenewalDue(tls), Larger(Earned, waits[tls.directory]))
<1>2. /\ RenewalDue(tls) \in Nat /\ waits[tls.directory] \in Nat /\ Earned \in Int /\ now \in Nat
      /\ CheckEvery \in Nat /\ tls.issued \in 0 .. now
  BY <1>1, OnDisk, Remembers, TimesAssumption DEF RInv, Typed
<1>3. /\ loop.current = {t} /\ loop.at \in Int /\ loop.wake \in Int /\ now <= loop.wake
      /\ loop.wake <= loop.at + CheckEvery
      /\ (t # Manual /\ Alike(tls, t)) \/ tls.issued >= loop.at
  BY <1>1 DEF Asleep
<1>4. ASSUME t # Manual, Alike(tls, t)
      PROVE  /\ NotBefore(renewals) <= Larger(Earned, waits[tls.directory])
             /\ now <= Larger(loop.at + 1, first)
  <2>1. AttemptOf(tls) = AttemptOf(t) /\ RenewalDue(tls) = RenewalDue(t)
    BY <1>1, <1>4 DEF Alike, AttemptOf, RenewalDue
  <2>2. /\ renewals.against \in {{}, AttemptOf(tls)}
        /\ loop.wake <= Larger(loop.at + 1, Larger(RenewalDue(tls), NotBefore(renewals)))
    BY <1>1, <1>4, <2>1 DEF Asleep
  <2>3. NotBefore(renewals) \in Int /\ NotBefore(renewals) <= Larger(Earned, waits[tls.directory])
    BY <1>1, <2>2, NoLonger
  <2> QED
    BY <1>2, <1>3, <2>2, <2>3 DEF Larger
<1>5. t = tls => t # Manual /\ Alike(tls, t)
  BY <1>1 DEF Alike
<1>6. first \in Int
  BY <1>2 DEF Larger
<1>7. CASE t # Manual /\ Alike(tls, t)
  <2> HIDE DEF first
  <2>1. now <= Larger(loop.at + 1, first) /\ (IF loop.current = {tls} THEN 0 ELSE CheckEvery) \in Nat
    BY <1>2, <1>4, <1>7
  <2>2. \A more \in Nat : Larger(loop.at + 1, first) <= Larger(loop.at + 1, first + more)
                          /\ Larger(loop.at + 1, first + more) \in Int /\ Larger(loop.at + 1, first) \in Int
    BY <1>3, <1>6 DEF Larger
  <2>3. now <= Larger(loop.at + 1, first + IF loop.current = {tls} THEN 0 ELSE CheckEvery)
    BY <1>2, <2>1, <2>2
  <2> QED
    BY <1>4, <1>7, <2>3 DEF first
<1>8. CASE ~ (t # Manual /\ Alike(tls, t))
  <2>1. t # tls /\ tls.issued >= loop.at
    BY <1>3, <1>5, <1>8
  <2>2. RenewalDue(tls) > tls.issued
    BY <1>1, OnDisk, DueAfter DEF RInv, Typed
  <2>3. first >= loop.at
    BY <1>2, <1>3, <2>1, <2>2 DEF Larger
  <2> HIDE DEF first
  <2>4. now <= Larger(loop.at + 1, first + CheckEvery)
    BY <1>2, <1>3, <1>6, <2>3 DEF Larger
  <2>5. loop.current # {tls}
    BY <1>3, <2>1
  <2> QED
    BY <2>1, <2>4, <2>5 DEF first
<1> QED
  BY <1>7, <1>8

\* The loop orders nothing before the wait its CA asked for is over, nor before the
\* doubling delay of its own failures, nor while a certificate it read is fresh; and
\* it waits for nothing else (renewal_loop, tick, Renewals).
THEOREM ScheduleAlwaysKept ==
  RenewalSpec => ScheduleKept
<1>1. RenewalInit => RInv /\ Afforded
  <2>1. RenewalInit => Afforded
    BY TimesAssumption DEF RenewalInit, Afforded, NoStreak, Awake
  <2> QED
    BY <2>1, LoopStarts
<1>2. RInv /\ Afforded /\ [RenewalNext]_renewalVars => RInv' /\ Afforded'
  BY RInvInductive
<1>3. RInv /\ Afforded /\ [RenewalNext]_renewalVars =>
        /\ [Begins => now >= waits[tls.directory]]_renewalVars
        /\ [Begins => now >= Earned]_renewalVars
        /\ [Begins /\ loop.current = {tls} =>
              \/ tls.expires = {} /\ now >= tls.issued + Unknown
              \/ \E e \in tls.expires : \/ 2 * (now - tls.issued) >= e - tls.issued
                                       \/ now >= e - Lead]_renewalVars
  <2>1. SUFFICES ASSUME RInv, Afforded, RenewalNext, Begins
                 PROVE  /\ now >= waits[tls.directory]
                        /\ now >= Earned
                        /\ loop.current = {tls} =>
                             \/ tls.expires = {} /\ now >= tls.issued + Unknown
                             \/ \E e \in tls.expires : \/ 2 * (now - tls.issued) >= e - tls.issued
                                                      \/ now >= e - Lead
    OBVIOUS
  <2>2. BeginAttempt /\ loop.pc = "renew"
    BY <2>1, Orders DEF Begins
  <2>3. PICK t \in loop.current : Renewing(t)
    BY <2>1, Orders
  <2> QED
    BY <2>1, <2>2, <2>3, HonoursCa, HonoursBackoff, LeavesFresh
<1>4. RInv /\ Afforded => WaitsNoLonger /\ NotOverslept
  BY Sleeping
<1> QED
  BY <1>1, <1>2, <1>3, <1>4, PTL
     DEF RenewalSpec, ScheduleKept, CaWaitHonoured, BackoffHonoured, FreshLeftAlone

-----------------------------------------------------------------------------
(* Which of the zones an account may see a name is looked up in.            *)

D == INSTANCE Decisions WITH PerPage <- 100

\* Among places of a list there is a first.
LEMMA FirstFound ==
  ASSUME NEW n \in Nat, NEW T, T \subseteq 1 .. n, T # {}
  PROVE  \E i \in T : \A j \in T : i <= j
<1> DEFINE R == {pair \in Nat \X Nat : pair[1] < pair[2]}
<1>1. IsWellFoundedOn(R, Nat)
  BY NatLessThanWellFounded DEF OpToRel
<1>2. T \subseteq Nat
  OBVIOUS
<1>3. PICK i \in T : \A j \in T : <<j, i>> \notin R
  <2> HIDE DEF R
  <2> QED
    BY <1>1, <1>2, WFMin, Zenon
<1>4. \A j \in T : ~(j < i)
  BY <1>2, <1>3
<1> QED
  BY <1>2, <1>4

\* Decisions counts as this module does.
LEMMA SameCount ==
  ASSUME NEW S
  PROVE  D!Cardinality(S) = Cardinality(S)
BY Zenon DEF D!Cardinality, Cardinality

\* Several, none, or one.
LEMMA FewCounted ==
  ASSUME NEW M, IsFiniteSet(M)
  PROVE  \/ D!Cardinality(M) > 1 /\ M # {} /\ \A i : M # {i}
         \/ ~(D!Cardinality(M) > 1) /\ M = {}
         \/ ~(D!Cardinality(M) > 1) /\ \E i : M = {i}
<1> DEFINE size == D!Cardinality(M)
<1>1. size = Cardinality(M)
  BY SameCount, Zenon
<1>2. size \in Nat
  BY <1>1, FS_CardinalityType, Zenon
<1>3. size = 0 <=> M = {}
  BY <1>1, FS_EmptySet, Zenon
<1>4. size = 1 <=> \E i : M = {i}
  BY <1>1, FS_Singleton, Zenon
<1> HIDE DEF size
<1>5. (size > 1 /\ size # 0 /\ size # 1) \/ (~(size > 1) /\ size = 0) \/ (~(size > 1) /\ size = 1)
  BY <1>2
<1>6. \/ size > 1 /\ M # {} /\ \A i : M # {i}
      \/ ~(size > 1) /\ M = {}
      \/ ~(size > 1) /\ \E i : M = {i}
  BY <1>3, <1>4, <1>5, Zenon
<1> QED
  BY <1>6 DEF size

\* What pick says of the zones of one name: that there is none, or which it is,
\* or why it may not be used.
LEMMA Picked ==
  ASSUME NEW zones, NEW n \in Nat, DOMAIN zones = 1 .. n, NEW candidate
  PROVE  LET M == {i \in DOMAIN zones : zones[i].name = candidate} IN
         /\ D!Pick(zones, candidate) = <<"none">> <=> M = {}
         /\ D!Pick(zones, candidate)[1] = "zone" =>
              \E i \in M : /\ M = {i} /\ zones[i].status = "active"
                           /\ D!Pick(zones, candidate) = <<"zone", i>>
         /\ \A i : M = {i} /\ zones[i].status = "active" =>
              D!Pick(zones, candidate) = <<"zone", i>>
<1> DEFINE M == {i \in DOMAIN zones : zones[i].name = candidate}
           pick == D!Pick(zones, candidate)
<1> SUFFICES /\ pick = <<"none">> <=> M = {}
             /\ pick[1] = "zone" =>
                  \E i \in M : M = {i} /\ zones[i].status = "active" /\ pick = <<"zone", i>>
             /\ \A i : M = {i} /\ zones[i].status = "active" => pick = <<"zone", i>>
  BY Zenon
<1>1. IsFiniteSet(M)
  BY FS_Interval, FS_Subset
<1>2. \/ D!Cardinality(M) > 1 /\ M # {} /\ \A i : M # {i}
      \/ ~(D!Cardinality(M) > 1) /\ M = {}
      \/ ~(D!Cardinality(M) > 1) /\ \E i : M = {i}
  BY <1>1, FewCounted
<1>3. CASE D!Cardinality(M) > 1 /\ M # {} /\ \A i : M # {i}
  <2>1. pick = <<"ambiguous">>
    BY <1>3 DEF D!Pick
  <2> HIDE DEF M, pick
  <2>2. pick # <<"none">> /\ pick[1] # "zone"
    BY <2>1
  <2> QED
    BY <1>3, <2>2, Zenon
<1>4. CASE ~(D!Cardinality(M) > 1) /\ M = {}
  <2>1. pick = <<"none">>
    BY <1>4 DEF D!Pick
  <2> HIDE DEF M, pick
  <2>2. pick[1] # "zone"
    BY <2>1
  <2>3. \A i : M # {i}
    BY <1>4
  <2> QED
    BY <1>4, <2>1, <2>2, <2>3, Zenon
<1>5. CASE ~(D!Cardinality(M) > 1) /\ \E i : M = {i}
  <2>1. PICK i : M = {i}
    BY <1>5
  <2>2. (CHOOSE j \in M : TRUE) = i
    BY <2>1
  <2>3. pick = IF zones[i].status # "active" THEN <<"not_active">> ELSE <<"zone", i>>
    BY <1>5, <2>1, <2>2 DEF D!Pick
  <2> HIDE DEF M, pick
  <2>4. pick # <<"none">> /\ (pick[1] = "zone" => zones[i].status = "active" /\ pick = <<"zone", i>>)
    BY <2>3
  <2>5. \A k : M = {k} => k = i
    BY <2>1
  <2>6. i \in M /\ M # {}
    BY <2>1
  <2> QED
    BY <2>1, <2>3, <2>4, <2>5, <2>6
<1> QED
  BY <1>2, <1>3, <1>4, <1>5

\* The candidates are the parts of a domain of at least two labels, longest first.
LEMMA Suffixes ==
  ASSUME NEW Labels, NEW domain \in Seq(Labels), NEW name \in Seq(Labels)
  PROVE  /\ \A i \in 1 .. Len(domain) - 1 :
              D!ZoneCandidates(domain)[i] = name =>
                /\ Len(name) = Len(domain) - i + 1 /\ Len(name) >= 2
                /\ D!IsSuffixOf(name, domain)
         /\ Len(name) >= 2 /\ D!IsSuffixOf(name, domain) =>
              /\ 1 + Len(domain) - Len(name) \in 1 .. Len(domain) - 1
              /\ D!ZoneCandidates(domain)[1 + Len(domain) - Len(name)] = name
<1>1. Len(domain) \in Nat /\ Len(name) \in Nat
  OBVIOUS
<1>2. \A i \in 1 .. Len(domain) - 1 :
        D!ZoneCandidates(domain)[i] = SubSeq(domain, i, Len(domain))
  BY DEF D!ZoneCandidates
<1>3. ASSUME NEW i \in 1 .. Len(domain) - 1, D!ZoneCandidates(domain)[i] = name
      PROVE  /\ Len(name) = Len(domain) - i + 1 /\ Len(name) >= 2
             /\ D!IsSuffixOf(name, domain)
  <2>1. SubSeq(domain, i, Len(domain)) = name
    BY <1>2, <1>3
  <2>2. Len(name) = Len(domain) - i + 1
    BY <1>1, <2>1, SubSeqProperties
  <2>3. 1 + Len(domain) - Len(name) = i
    BY <1>1, <2>2
  <2> QED
    BY <1>1, <2>1, <2>2, <2>3 DEF D!IsSuffixOf
<1>4. ASSUME Len(name) >= 2, D!IsSuffixOf(name, domain)
      PROVE  /\ 1 + Len(domain) - Len(name) \in 1 .. Len(domain) - 1
             /\ D!ZoneCandidates(domain)[1 + Len(domain) - Len(name)] = name
  <2>1. 1 + Len(domain) - Len(name) \in 1 .. Len(domain) - 1
    BY <1>1, <1>4 DEF D!IsSuffixOf
  <2> QED
    BY <1>2, <1>4, <2>1 DEF D!IsSuffixOf
<1> QED
  BY <1>3, <1>4

\* For every domain and every list of zones, the zone a name is looked up in is
\* the one that is asked about it (cfapi.rs, find_zone, zone_candidates and pick):
\* active, the only one of its name, and no other zone's name is a longer part of
\* the domain; and a domain that has such a zone finds it.
THEOREM ZoneAlwaysAnswers ==
  ASSUME NEW Labels, NEW domain \in Seq(Labels),
         NEW zones, NEW n \in Nat, DOMAIN zones = 1 .. n,
         \A i \in DOMAIN zones : zones[i].name \in Seq(Labels)
  PROVE  D!ZoneAnswers(domain, zones)
<1> DEFINE candidates == D!ZoneCandidates(domain)
           decided == {i \in DOMAIN candidates : D!Pick(zones, candidates[i]) # <<"none">>}
           over == {i \in DOMAIN zones : Len(zones[i].name) >= 2
                                         /\ D!IsSuffixOf(zones[i].name, domain)}
           best == {i \in over : \A j \in over : Len(zones[j].name) <= Len(zones[i].name)}
           found == D!FindZone(domain, zones)
           M(i) == {j \in DOMAIN zones : zones[j].name = candidates[i]}
<1>1. Len(domain) \in Nat /\ DOMAIN candidates = 1 .. Len(domain) - 1
  BY DEF D!ZoneCandidates
<1>2. ASSUME NEW j \in over
      PROVE  /\ 1 + Len(domain) - Len(zones[j].name) \in decided
             /\ j \in M(1 + Len(domain) - Len(zones[j].name))
  <2>1. /\ 1 + Len(domain) - Len(zones[j].name) \in DOMAIN candidates
        /\ j \in M(1 + Len(domain) - Len(zones[j].name))
    <3>1. /\ zones[j].name \in Seq(Labels) /\ j \in DOMAIN zones
          /\ Len(zones[j].name) >= 2 /\ D!IsSuffixOf(zones[j].name, domain)
      BY <1>2
    <3> DEFINE name == zones[j].name
    <3> HIDE DEF name
    <3>2. name \in Seq(Labels) /\ Len(name) >= 2 /\ D!IsSuffixOf(name, domain)
      BY <3>1 DEF name
    <3>3. /\ 1 + Len(domain) - Len(name) \in 1 .. Len(domain) - 1
          /\ D!ZoneCandidates(domain)[1 + Len(domain) - Len(name)] = name
      BY <3>2, Suffixes
    <3> QED
      BY <1>1, <3>1, <3>3 DEF name
  <2> QED
    BY <2>1, Picked
<1>3. ASSUME NEW i \in DOMAIN candidates, NEW j \in M(i)
      PROVE  j \in over /\ Len(zones[j].name) = Len(domain) - i + 1
  BY <1>1, Suffixes
<1>4. CASE decided = {}
  <2>1. over = {}
    BY <1>2, <1>4
  <2>2. found \in {<<"not_a_domain">>, <<"not_found">>}
    BY <1>4 DEF D!FindZone
  <2>3. found[1] # "zone"
    BY <2>2
  <2> QED
    BY <2>1, <2>3 DEF D!ZoneAnswers
<1>5. CASE decided # {}
  <2> DEFINE first == CHOOSE i \in decided : \A j \in decided : i <= j
  <2>1. Len(domain) >= 2
    BY <1>1, <1>5
  <2>2. first \in decided /\ \A j \in decided : first <= j
    <3>1. decided \subseteq 1 .. Len(domain) - 1
      BY <1>1
    <3>2. Len(domain) - 1 \in Nat
      BY <1>1, <2>1
    <3> HIDE DEF decided
    <3>3. \E i \in decided : \A j \in decided : i <= j
      BY <1>5, <3>1, <3>2, FirstFound
    <3> QED
      BY <3>3
  <2>3. found = D!Pick(zones, candidates[first])
    BY <1>5, <2>1 DEF D!FindZone
  <2> HIDE DEF first
  <2>4. M(first) # {}
    BY <2>2, Picked
  <2>5. best = M(first)
    <3>1. ASSUME NEW j \in M(first) PROVE j \in best
      <4>1. j \in over /\ Len(zones[j].name) = Len(domain) - first + 1
        BY <1>3, <2>2
      <4>2. ASSUME NEW k \in over PROVE Len(zones[k].name) <= Len(zones[j].name)
        <5>1. first <= 1 + Len(domain) - Len(zones[k].name)
          BY <1>2, <2>2
        <5>2. Len(zones[k].name) \in Nat /\ first \in Int
          BY <1>1, <2>2
        <5> QED
          BY <1>1, <4>1, <5>1, <5>2
      <4> QED
        BY <4>1, <4>2
    <3>2. ASSUME NEW j \in best PROVE j \in M(first)
      <4>1. PICK k \in M(first) : TRUE
        BY <2>4
      <4>2. k \in over /\ Len(zones[k].name) = Len(domain) - first + 1
        BY <1>3, <2>2
      <4>3. j \in over /\ Len(zones[k].name) <= Len(zones[j].name)
        BY <4>2
      <4>4. first <= 1 + Len(domain) - Len(zones[j].name) /\ j \in M(1 + Len(domain) - Len(zones[j].name))
        BY <1>2, <2>2, <4>3
      <4>5. 1 + Len(domain) - Len(zones[j].name) = first
        <5> DEFINE long == Len(zones[j].name)
                   longest == Len(zones[k].name)
        <5>1. long \in Nat /\ first \in Int
          BY <1>1, <2>2, <4>3
        <5>2. longest = Len(domain) - first + 1 /\ longest <= long /\ first <= 1 + Len(domain) - long
          BY <4>2, <4>3, <4>4
        <5> HIDE DEF long, longest
        <5>3. 1 + Len(domain) - long = first
          BY <1>1, <5>1, <5>2
        <5> QED
          BY <5>3 DEF long
      <4> QED
        BY <4>4, <4>5
    <3> QED
      BY <3>1, <3>2
  <2>6. found[1] = "zone" =>
          \E i \in M(first) : M(first) = {i} /\ zones[i].status = "active" /\ found = <<"zone", i>>
    BY <2>3, Picked
  <2>7. \A i : found = <<"zone", i>> => found[1] = "zone"
    OBVIOUS
  <2> QED
    BY <2>5, <2>6, <2>7 DEF D!ZoneAnswers
<1> QED
  BY <1>4, <1>5
===============================================================================
