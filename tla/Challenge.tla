----------------------------- MODULE Challenge -----------------------------
(* Proving control of a name to the CA: issue_http01 and issue_dns01 of     *)
(* acme.rs, the guarded TXT record of cfapi.rs, the wait of dnsprobe.rs.    *)
(*                                                                          *)
(* Several hosts may be ordering for one name at once: a hub, and a machine *)
(* being set up to replace it; each host runs one issuance at a time (the   *)
(* issuance lock, see Issuance).  `zone` is what Cloudflare holds at the    *)
(* challenge name.                                                          *)
(* A time is an age, counted in ticks and capped: the clocks of the hosts   *)
(* agree and never step.  One domain is one authorization, so a run         *)
(* publishes one value.                                                     *)
EXTENDS Naturals, FiniteSets

CONSTANTS
  Hosts, Servers,
  Ids,             \* of records; Cloudflare's never repeat, these do once forgotten
  Lifetime,        \* CHALLENGE_LIFETIME_SECS
  PollInterval, PollTimeout, BlindAfter, Settle,   \* dnsprobe.rs
  Validation,      \* VALIDATION_TIMEOUT
  CallTime,        \* the longest one request takes
  PerPage,         \* PER_PAGE: a listing this long is refused
  MaxFaults        \* kills, lost answers, failed deletes and edits

\* How long a run can be at it before the CA has looked.
LongestUse == (4 + Cardinality(Ids)) * CallTime + PollTimeout + Settle + Validation

ASSUME ChallengeAssumption ==
  /\ {Lifetime, PollInterval, PollTimeout, BlindAfter, Settle, Validation, PerPage}
       \subseteq Nat \ {0}
  /\ {CallTime, MaxFaults} \subseteq Nat
  /\ IsFiniteSet(Ids) /\ Ids # {} /\ Ids \subseteq Nat \ {0}
  /\ BlindAfter <= PollTimeout
  /\ LongestUse < Lifetime

VARIABLES
  zone,     \* the TXT records at _acme-challenge.<domain>
  run,      \* host -> the run it has in progress
  port80,   \* host -> whether anago listens on its port 80
  orphans,  \* the ids no run holds any more, for a reason: a person was told to
            \* delete it, or the run died or never learned the id
  faults    \* how many have happened

vars == <<zone, run, port80, orphans, faults>>

None == 0

\* `age` is of the time in the comment; Unreadable for a comment without one.
Oldest == 2 * Lifetime
Unreadable == Oldest + 1
Marked(id, age) == [id |-> id, by |-> "anago", age |-> age]
Strangers(id) == [id |-> id, by |-> "stranger", age |-> Unreadable]
Record == [id : Ids, by : {"anago", "stranger"}, age : 0 .. Unreadable]

\* The record's place in the zone.
At(id) == {r \in zone : r.id = id}
ZoneIds == {r.id : r \in zone}

Idle ==
  [at |-> "idle", by |-> "dns01", age |-> 0, since |-> 0, elapsed |-> 0, pause |-> 0,
   stale |-> {}, record |-> None, served |-> {}, blind |-> FALSE]

\* Past these the time of a run no longer matters.
UseOver == {"idle", "removing", "finishing", "dropping"}

Phases == {"idle", "ordering", "sweeping", "watching", "settling", "telling",
           "validating", "removing", "finishing", "dropping"}

Init ==
  /\ zone \in {{}, {Strangers(CHOOSE i \in Ids : TRUE)}}
  /\ run = [h \in Hosts |-> Idle]
  /\ port80 = [h \in Hosts |-> FALSE]
  /\ orphans = {}
  /\ faults = 0

Fault == faults < MaxFaults /\ faults' = faults + 1

----------------------------------------------------------------------------
(* How a run moves. *)

Move(h, r) == run' = [run EXCEPT ![h] = r]
To(h, phase) ==
  IF phase \in UseOver
  THEN [Idle EXCEPT !.at = phase, !.by = run[h].by, !.record = run[h].record]
  ELSE [run[h] EXCEPT !.at = phase, !.since = 0]

EndForgetting(h) == Idle
\* A run that ends with its record still guarded removes it on the way out.
End(h) == IF run[h].record = None THEN Idle ELSE To(h, "dropping")

In(h, phase) == run[h].at = phase

Begin(h) ==
  /\ In(h, "idle")
  /\ \E c \in {"http01", "dns01"} : Move(h, [Idle EXCEPT !.at = "ordering", !.by = c])
  /\ UNCHANGED <<zone, port80, orphans, faults>>

\* The order is refused, or offers no challenge of the kind.
OrderFails(h) ==
  /\ In(h, "ordering")
  /\ Move(h, End(h))
  /\ UNCHANGED <<zone, port80, orphans, faults>>

\* Every authorization was already valid.
NothingToProve(h) ==
  /\ In(h, "ordering")
  /\ Move(h, To(h, "finishing"))
  /\ UNCHANGED <<zone, port80, orphans, faults>>

----------------------------------------------------------------------------
(* HTTP-01: the listener. *)

\* accept_families: a family something else holds stops the run, one the host
\* does not have is done without, and neither is not enough.
Families == {"bound", "unavailable", "refused"}
AcceptFamilies(v6, v4) == "refused" \notin {v6, v4} /\ "bound" \in {v6, v4}

Listen(h) ==
  /\ In(h, "ordering") /\ run[h].by = "http01"
  /\ \E v6, v4 \in Families :
       /\ \/ AcceptFamilies(v6, v4)
             /\ port80' = [port80 EXCEPT ![h] = TRUE]
             /\ Move(h, To(h, "telling"))
          \/ ~AcceptFamilies(v6, v4)
             /\ port80' = port80
             /\ Move(h, End(h))
  /\ UNCHANGED <<zone, orphans, faults>>

\* The port as it is once this run no longer serves on it.
PortBack(h) == [port80 EXCEPT ![h] = FALSE]

----------------------------------------------------------------------------
(* DNS-01: publishing the record, its own litter swept first. *)

StaleMarked(r, age) == r.by = "anago" /\ r.age # Unreadable
StaleAtTheName(r, age) == r.age > Lifetime + age
\* stale_challenges, seen from a run that began `age` ago: its own records, by
\* the marker, past the time any run could still be using them.  The time of the
\* run is read once, before it starts.
Stale(r, age) ==
  r.by = "anago" /\ r.age # Unreadable /\ r.age > Lifetime + age

List(h) ==
  /\ In(h, "ordering") /\ run[h].by = "dns01"
  /\ \/ /\ Cardinality(zone) < PerPage
        /\ Move(h, [To(h, "sweeping") EXCEPT
             !.stale = {r.id : r \in {q \in zone : Stale(q, run[h].age)}}])
     \/ Move(h, End(h))
  /\ UNCHANGED <<zone, port80, orphans, faults>>

\* A delete: what is already gone is success.  Whoever's id it was, it is over.
Delete(id) ==
  /\ UNCHANGED faults
  /\ zone' = zone \ At(id)
  /\ orphans' = orphans \ {id}

Sweep(h) ==
  /\ In(h, "sweeping")
  /\ \E id \in run[h].stale :
       \/ /\ Delete(id)
          /\ Move(h, [run[h] EXCEPT !.stale = @ \ {id}, !.since = 0])
       \/ /\ Fault
          /\ Move(h, End(h))
          /\ UNCHANGED <<zone, orphans>>
  /\ UNCHANGED port80

\* An id nobody has in hand; which one is Cloudflare's affair.
NewIds ==
  LET unused == Ids \ (ZoneIds \cup UNION {{run[h].record} \cup run[h].stale : h \in Hosts})
  IN {id \in unused : \A other \in unused : id <= other}

\* The record is stamped with the time the run began.
Create(h) ==
  /\ In(h, "sweeping") /\ run[h].stale = {}
  /\ \/ \E id \in NewIds :
          /\ zone' = zone \cup {Marked(id, run[h].age)}
          /\ \/ /\ Move(h, [To(h, "watching") EXCEPT !.record = id])
                /\ UNCHANGED <<orphans, faults>>
             \* created, and the answer was lost: no guard knows its id
             \/ /\ Fault
                /\ Move(h, End(h))
                /\ orphans' = orphans \cup {id}
     \/ /\ Move(h, End(h))
        /\ UNCHANGED <<zone, orphans, faults>>
  /\ UNCHANGED port80

----------------------------------------------------------------------------
(* DNS-01: the wait. *)

\* What the nameservers that answer say together: a silent one does not count.
Look(heard, served) ==
  IF heard = {} THEN "Unobservable"
  ELSE IF heard \subseteq served THEN "Served" ELSE "Missing"

LesserOf(a, b) == IF a <= b THEN a ELSE b

NextStepUnclipped(look, elapsed) ==
  CASE look = "Served" -> [do |-> "Settle", pause |-> Settle]
    [] look = "Unobservable" /\ elapsed >= BlindAfter -> [do |-> "Blind", pause |-> Settle]
    [] look # "Served" /\ elapsed < PollTimeout -> [do |-> "Again", pause |-> PollInterval]
    [] OTHER -> [do |-> "GiveUp", pause |-> 0]
NextStep(look, elapsed) ==
  CASE look = "Served" -> [do |-> "Settle", pause |-> Settle]
    [] look = "Unobservable" /\ elapsed >= BlindAfter -> [do |-> "Blind", pause |-> Settle]
    [] look = "Unobservable" /\ elapsed < BlindAfter ->
         [do |-> "Again", pause |-> LesserOf(PollInterval, BlindAfter - elapsed)]
    [] look = "Missing" /\ elapsed < PollTimeout ->
         [do |-> "Again", pause |-> LesserOf(PollInterval, PollTimeout - elapsed)]
    [] OTHER -> [do |-> "GiveUp", pause |-> 0]

\* `wait`, one look: whoever answers answers.  A zone that came without its
\* servers leaves nobody to ask: blind from the start, and waits for nothing.
LookFor(h) ==
  /\ In(h, "watching") /\ run[h].pause = 0
  /\ \/ /\ run[h].elapsed = 0
        /\ Move(h, [To(h, "telling") EXCEPT !.blind = TRUE])
     \/ /\ \E heard \in SUBSET Servers :
             LET step == NextStep(Look(heard, run[h].served), run[h].elapsed)
             IN Move(h,
                  IF step.do = "GiveUp" THEN End(h)
                  ELSE IF step.do = "Again" THEN [run[h] EXCEPT !.pause = step.pause]
                  ELSE [To(h, "settling") EXCEPT !.pause = step.pause,
                                                 !.blind = step.do = "Blind"])
  /\ UNCHANGED <<zone, port80, orphans, faults>>

Settled(h) ==
  /\ In(h, "settling") /\ run[h].pause = 0
  /\ Move(h, To(h, "telling"))
  /\ UNCHANGED <<zone, port80, orphans, faults>>

----------------------------------------------------------------------------
(* The CA looks, and the order is collected. *)

TellTheCa(h) ==
  /\ In(h, "telling")
  /\ \/ Move(h, To(h, "validating")) /\ UNCHANGED port80
     \/ Move(h, End(h)) /\ port80' = PortBack(h)
  /\ UNCHANGED <<zone, orphans, faults>>

\* wait_for_ready.  The port goes back here, whatever the CA said, and not
\* after the certificate is collected.
Ready(h) ==
  /\ In(h, "validating")
  /\ port80' = PortBack(h)
  /\ Move(h, To(h, IF run[h].by = "dns01" THEN "removing" ELSE "finishing"))
  /\ UNCHANGED <<zone, orphans, faults>>

NotReady(h) ==
  /\ In(h, "validating")
  /\ port80' = PortBack(h)
  /\ Move(h, End(h))
  /\ UNCHANGED <<zone, orphans, faults>>

\* Challenge::remove: a failure is the run's, and the guard stays armed.
Remove(h) ==
  /\ In(h, "removing")
  /\ \/ /\ Delete(run[h].record)
        /\ Move(h, [To(h, "finishing") EXCEPT !.record = None])
     \/ /\ Fault
        /\ Move(h, End(h))
        /\ UNCHANGED <<zone, orphans>>
  /\ UNCHANGED port80

\* The certificate is collected, or it is not: the run is over either way.
Finish(h) ==
  /\ In(h, "finishing")
  /\ Move(h, End(h))
  /\ UNCHANGED <<zone, port80, orphans, faults>>

\* The guard is dropped: it removes the record, or names it for a person.
Drop(h) ==
  /\ In(h, "dropping")
  /\ \/ Delete(run[h].record)
     \/ /\ Fault
        /\ orphans' = orphans \cup (ZoneIds \cap {run[h].record})
        /\ UNCHANGED zone
  /\ Move(h, Idle)
  /\ UNCHANGED port80

----------------------------------------------------------------------------
(* The world. *)

\* The process dies: its sockets with it, its record not.
Kill(h) ==
  /\ run[h].at # "idle"
  /\ Fault
  /\ Move(h, Idle)
  /\ port80' = PortBack(h)
  /\ orphans' = orphans \cup (ZoneIds \cap {run[h].record})
  /\ UNCHANGED zone

\* A nameserver catches up with the zone.
Spread(h, s) ==
  /\ In(h, "watching") /\ run[h].record \in ZoneIds
  /\ s \notin run[h].served
  /\ Move(h, [run[h] EXCEPT !.served = @ \cup {s}])
  /\ UNCHANGED <<zone, port80, orphans, faults>>

\* Somebody edits the time out of the comment of a record left behind, not in
\* the moment between a sweep's listing and its delete.
EditComment ==
  /\ Fault
  /\ \E r \in zone :
       /\ r.by = "anago" /\ r.age # Unreadable
       /\ r.id \in orphans \ UNION {run[h].stale : h \in Hosts}
       /\ zone' = (zone \ {r}) \cup {[r EXCEPT !.age = Unreadable]}
  /\ UNCHANGED <<run, port80, orphans>>

\* How long a run may stay where it is: a request has a timeout, a sleep an end.
Limit(r) ==
  CASE r.at \in {"watching", "settling"} -> r.since + r.pause
    [] r.at = "validating" -> Validation
    [] OTHER -> CallTime

Aged(age) == IF age >= Oldest THEN age ELSE age + 1

Grown(r) ==
  IF r.at \in UseOver THEN r
  ELSE [r EXCEPT !.age = IF r.by = "dns01" THEN @ + 1 ELSE @,
                 !.since = IF r.at \in {"watching", "settling"} THEN 0 ELSE @ + 1,
                 !.elapsed = IF r.at = "watching" THEN @ + 1 ELSE @,
                 !.pause = IF @ = 0 THEN 0 ELSE @ - 1]

Advance ==
  /\ \A h \in Hosts : run[h].at \notin UseOver => run[h].since < Limit(run[h])
  /\ run' = [h \in Hosts |-> Grown(run[h])]
  /\ zone' = {[r EXCEPT !.age = Aged(@)] : r \in zone}
  /\ UNCHANGED <<port80, orphans, faults>>

Next ==
  \/ \E h \in Hosts :
       \/ Begin(h)     \/ OrderFails(h) \/ NothingToProve(h) \/ Listen(h)
       \/ List(h)      \/ Sweep(h)      \/ Create(h)         \/ LookFor(h)
       \/ Settled(h)   \/ TellTheCa(h)  \/ Ready(h)          \/ NotReady(h)
       \/ Remove(h)    \/ Finish(h)     \/ Drop(h)           \/ Kill(h)
       \/ \E s \in Servers : Spread(h, s)
  \/ EditComment
  \/ Advance

Spec == Init /\ [][Next]_vars

----------------------------------------------------------------------------
(* Properties. *)

\* The zone holds one record per id, every run is at a phase of its challenge,
\* and no listener of anago's is on a port without a run that uses it.
TypeOK ==
  /\ zone \subseteq Record
  /\ \A q, r \in zone : q.id = r.id => q = r
  /\ \A h \in Hosts :
       /\ run[h].at \in Phases /\ run[h].record \in Ids \cup {None}
       /\ run[h].at = "watching" => run[h].record # None
       /\ run[h].at = "idle" => run[h] = Idle
  /\ port80 \in [Hosts -> BOOLEAN]
  /\ orphans \subseteq ZoneIds

\* While the CA may still look at it, no other run takes a run's record away:
\* publish's sweep is aimed at what no run can be using (cfapi.rs
\* stale_challenges and CHALLENGE_LIFETIME_SECS).
LiveKept ==
  \A h \in Hosts :
    run[h].at \in {"watching", "settling", "telling", "validating"} /\ run[h].record # None
      => run[h].record \in ZoneIds

\* What a run took, it gives back or names: port 80 is anago's only while the CA
\* may come, and a record is guarded by its run, was named to a person, or lost
\* its run to a kill or a lost answer (Http01::stop, Challenge's Drop).
NothingKept ==
  /\ \A h \in Hosts : port80[h] => run[h].at \in {"telling", "validating"}
  /\ \A r \in zone : r.by = "anago" =>
       r.id \in orphans \cup {run[h].record : h \in Hosts}

\* The wait for the record is over by its deadline (next_step: "The sleep never
\* runs past the deadline"), and a run that goes on to the CA either saw the
\* record served or knows that it could not see.
WaitBounded ==
  \A h \in Hosts :
    /\ run[h].at = "watching" => run[h].elapsed <= PollTimeout
    /\ run[h].at \in {"settling", "telling", "validating"} /\ run[h].by = "dns01" =>
         run[h].blind \/ run[h].served # {}

\* A challenge ends in time, and leaves no record it could have taken away.
EndsClean == NothingKept /\ WaitBounded

\* Nobody's record but anago's own is ever deleted, nor one whose comment says
\* no time (stale_challenges).
OthersStay ==
  [][\A r \in zone : r.age = Unreadable => r \in zone']_vars
=============================================================================
