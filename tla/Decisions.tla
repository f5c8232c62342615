------------------------------- MODULE Decisions -------------------------------
(***************************************************************************)
(* The three judgements anago makes about what another machine said: what  *)
(* a sync does about the hub's answer (core sync.rs, and the checks and    *)
(* the endings of the binary's sync.rs), what the hub's A record needs     *)
(* (core dns.rs) from a listing read as cfapi.rs reads it, and which       *)
(* Cloudflare zone a domain lives in (cfapi.rs).                           *)
(*                                                                         *)
(* Each is a function of the answer.  What a judgement leads to (the       *)
(* config recorded, the zone after the write) is a function too, so that a *)
(* property can judge the same answer again.                               *)
(***************************************************************************)
EXTENDS Integers, Sequences, SequencesExt, FiniteSets

CONSTANT PerPage        \* PER_PAGE: records one listing page holds

PerPageAssumption == PerPage \in Nat \ {0, 1}

Absent == "absent"      \* Option::None
Bad == "bad"         \* a text that its parser refuses

-----------------------------------------------------------------------------
(* anago sync.  A config and a hub are records of the same values; `own`   *)
(* is what no hub may move: the device's key and token.                    *)

HubFields == {"server_public_key", "server_endpoint", "server_address"}

\* local_of: every field of device.json parses.
Usable(config) ==
  \A f \in {"name", "address", "subnet", "server_address"} : config[f] # Bad

\* Mutation: the endpoint is believed as it came.
CheckedButEndpoint(hub) ==
  \A f \in {"subnet", "server_public_key", "server_address"} : hub[f] # Bad

\* reported_of: every value the hub reports is checked before it is believed.
Checked(hub) == \A f \in HubFields \cup {"subnet"} : hub[f] # Bad

\* roster_of.
Readable(roster) == \A i \in DOMAIN roster : roster[i].name # Bad /\ roster[i].address # Bad

\* roster.iter().find: the first entry of that name.
IsOurs(roster, name, i) ==
  /\ i \in DOMAIN roster /\ roster[i].name = name
  /\ \A j \in 1 .. i - 1 : roster[j].name # name

\* Mutation: an endpoint that moved is not a change.
MovedButEndpoint(config, hub) ==
  {f \in HubFields \ {"server_endpoint"} : hub[f] # config[f]}

\* Changes.
Moved(config, hub) == {f \in HubFields : hub[f] # config[f]}

\* decide: the subnet, the roster, and only then the values.  `hub` is Absent
\* from a hub that does not describe itself.
Decide(config, described, hub, roster) ==
  CASE described /\ hub.subnet # config.subnet -> "subnet_changed"
    [] ~(described /\ hub.subnet # config.subnet)
       /\ \A i \in DOMAIN roster : roster[i].name # config.name -> "removed"
    [] ~(described /\ hub.subnet # config.subnet)
       /\ \E i \in DOMAIN roster :
            IsOurs(roster, config.name, i) /\ roster[i].address # config.address -> "reassigned"
    [] OTHER ->
         IF ~described THEN "unverifiable"
         ELSE IF Moved(config, hub) # {} THEN "rewrite"
         ELSE "unchanged"

\* unreachable_or_worse: what goes away by itself, and what does not.
TransportOutcome(error) ==
  CASE error \in {"resolve", "connect", "timeout", "io"} -> "unreachable"
    [] error \in {"tls", "no_roots"}                    -> "untrusted"
    [] error \in {"bad_host", "bad_header"}             -> "device_file"
    [] error \in {"too_large", "malformed"}             -> "bad_response"

\* Outcome of a run: device.json is checked before the call, the answer before
\* it is judged.
Outcome(config, call, described, hub, roster) ==
  IF ~Usable(config) THEN "device_file"
  ELSE IF call = "401" THEN "unauthorized"
  ELSE IF call # "answered" THEN TransportOutcome(call)
  ELSE IF (described /\ ~Checked(hub)) \/ ~Readable(roster) THEN "bad_response"
  ELSE Decide(config, described, hub, roster)

\* Mutation: a removed device exits zero, and says nothing under --quiet.
EndingOfRemovedPassed(outcome) ==
  IF outcome \in {"unchanged", "unverifiable", "rewrite"} THEN "fine"
  ELSE IF outcome \in {"unreachable", "busy", "removed"} THEN "passed"
  ELSE "stop"

\* ending_of and SyncError::ending.
EndingOf(outcome) ==
  IF outcome \in {"unchanged", "unverifiable", "rewrite"} THEN "fine"
  ELSE IF outcome \in {"unreachable", "busy"} THEN "passed"
  ELSE "stop"

\* Mutation: the subnet the hub reports is taken over as well.
UpdatedSubnet(config, hub) ==
  [f \in DOMAIN config |-> IF f \in HubFields \cup {"own"} THEN hub[f] ELSE config[f]]

\* updated: the hub's three values, nothing of the device's own.
Updated(config, hub) ==
  [f \in DOMAIN config |-> IF f \in HubFields THEN hub[f] ELSE config[f]]

\* What device.json holds once the outcome was acted on.
Kept(config, outcome, hub) == IF outcome = "rewrite" THEN Updated(config, hub) ELSE config

\* A run settles: judged again, the same answer asks for nothing more; what is
\* recorded has been checked and nothing of the device's own has moved; a run
\* that exits zero with an answer in hand has left the device where the hub has
\* it; an ending passed over in silence never had an answer; and every ending
\* but a rewrite left the record alone.
SyncSettles(config, call, described, hub, roster) ==
  LET outcome == Outcome(config, call, described, hub, roster)
      kept    == Kept(config, outcome, hub)
      listed  == \E i \in DOMAIN roster :
                   IsOurs(roster, config.name, i) /\ roster[i].address = config.address
  IN /\ EndingOf(outcome) = "passed" => call \notin {"answered", "401"}
     /\ EndingOf(outcome) = "fine" =>
          /\ call = "answered" /\ listed
          /\ described => hub.subnet = kept.subnet /\ \A f \in HubFields : kept[f] = hub[f]
     /\ outcome = "rewrite" =>
          /\ Outcome(kept, call, described, hub, roster) = "unchanged"
          /\ \A f \in HubFields : kept[f] # Bad
     /\ kept # config => outcome = "rewrite"
     /\ \A f \in DOMAIN config \ HubFields : kept[f] = config[f]

-----------------------------------------------------------------------------
(* The hub's A record.  The zone is a sequence of records; a listing is    *)
(* what Cloudflare answers for it, in which a flag may be missing.         *)

\* parse_result: the status first, then the body.
ResultOf(answer) ==
  CASE answer.status = 401 -> "rejected"
    [] answer.status = 403 -> "forbidden"
    [] answer.status \notin {401, 403} /\ ~answer.json -> "undecodable"
    [] OTHER -> IF answer.success /\ answer.result THEN "ok" ELSE "failure"

Proxiable == {"A", "AAAA", "CNAME"}

\* Mutation: a flag that is not there reads as false.
HasFlagDefaulted(item) == TRUE

\* proxied_at: a record that can be proxied has to say whether it is.
HasFlag(item) == item.kind \in Proxiable => item.proxied # Absent

Here(items, name) == SelectSeq(items, LAMBDA item : item.name = name)

\* parse_records: a full page is refused, a record of another name is not
\* looked at, one at this name has to be whole.
Listed(answer, items, name) ==
  /\ ResultOf(answer) = "ok"
  /\ Len(items) < PerPage
  /\ \A i \in DOMAIN Here(items, name) : HasFlag(Here(items, name)[i])

Kinds(records, kind) == {i \in DOMAIN records : records[i].kind = kind}

\* Mutation: of several A records the first is taken.
DecideRecordFirst(records, desired, cached) ==
  LET as == Kinds(records, "A") IN
  IF as = {} THEN <<"create">>
  ELSE LET ours == records[CHOOSE i \in as : \A j \in as : i <= j] IN
       IF ours.proxied = "yes" THEN <<"refuse", "proxied">>
       ELSE IF ours.content = desired THEN <<"unchanged", ours.id>>
       ELSE <<"update", ours.id, cached # ours.id>>

\* Mutation: a proxied record is corrected like any other.
DecideRecordProxied(records, desired, cached) ==
  LET as == Kinds(records, "A") IN
  IF as = {} THEN <<"create">>
  ELSE IF Cardinality(as) > 1 THEN <<"refuse", "ambiguous">>
  ELSE LET ours == records[CHOOSE i \in as : TRUE] IN <<"update", ours.id, cached # ours.id>>

\* dns::decide: the cached id first, then a CNAME, then the A records.
DecideRecord(records, desired, cached) ==
  LET as == Kinds(records, "A") IN
  CASE \E i \in DOMAIN records : records[i].id = cached /\ records[i].kind # "A" ->
         <<"refuse", "cached_not_an_a_record">>
    [] /\ \A i \in DOMAIN records : records[i].id = cached => records[i].kind = "A"
       /\ Kinds(records, "CNAME") # {} -> <<"refuse", "cname">>
    [] OTHER ->
         IF as = {} THEN <<"create">>
         ELSE IF Cardinality(as) > 1 THEN <<"refuse", "ambiguous">>
         ELSE LET ours == records[CHOOSE i \in as : TRUE] IN
              IF ours.proxied = "yes" THEN <<"refuse", "proxied">>
              ELSE IF ours.content = desired THEN <<"unchanged", ours.id>>
              ELSE <<"update", ours.id, cached # ours.id>>

\* create_body: DNS only, said and not left to the zone's default.
Created(name, desired) ==
  [id |-> "new", name |-> name, kind |-> "A", content |-> desired, proxied |-> "no",
   comment |-> Absent]

\* Mutation: the whole record is sent, and the owner's comment is lost.
PatchedWhole(record, desired) == Created(record.name, desired)

\* update_body: the content and nothing else.
Patched(record, desired) == [record EXCEPT !.content = desired]

\* apply_record: list, judge, write.  The zone as it is, and as it was listed
\* when a flag was missing from the answer.
Applied(zone, answer, items, name, desired, cached) ==
  LET decision == IF ~Listed(answer, items, name) THEN <<"failure">>
                  ELSE DecideRecord(Here(items, name), desired, cached)
  IN [decision |-> decision,
      zone     |-> CASE decision[1] = "create" -> Append(zone, Created(name, desired))
                     [] decision[1] = "update" ->
                          [i \in DOMAIN zone |->
                             IF zone[i].id = decision[2] THEN Patched(zone[i], desired)
                             ELSE zone[i]]
                     [] OTHER -> zone]

\* A hub's name is pointed or left alone: after a run that reports success
\* exactly one A record answers to the name, at the hub, not behind the proxy
\* and beside no CNAME, and a second run changes nothing; a refusal or an answer
\* that could not be read changed nothing; no record of another name or type,
\* and no owner's comment, is ever touched.
RecordPointed(zone, answer, items, name, desired, cached) ==
  LET applied == Applied(zone, answer, items, name, desired, cached)
      after   == applied.zone
      here    == Here(after, name)
      done    == applied.decision[1] \in {"create", "update", "unchanged"}
  IN /\ done =>
          /\ Kinds(here, "CNAME") = {}
          /\ \E i \in DOMAIN here :
               /\ Kinds(here, "A") = {i}
               /\ here[i].content = desired /\ here[i].proxied = "no"
               /\ DecideRecord(here, desired, here[i].id) = <<"unchanged", here[i].id>>
     /\ ~done => after = zone
     /\ \A i \in DOMAIN zone :
          /\ after[i].comment = zone[i].comment
          /\ zone[i].name # name \/ zone[i].kind # "A" => after[i] = zone[i]

-----------------------------------------------------------------------------
(* The zone a domain lives in.  A name is the sequence of its labels, most *)
(* specific first; `zones` is the sequence of zones the account may see.   *)

IsSuffixOf(name, domain) ==
  Len(name) <= Len(domain) /\ SubSeq(domain, 1 + Len(domain) - Len(name), Len(domain)) = name

\* Mutation: the walk goes up from the most general name.
ZoneCandidatesUp(domain) == Reverse([i \in 1 .. Len(domain) - 1 |-> SubSeq(domain, i, Len(domain))])

\* zone_candidates: every suffix of at least two labels, longest first.
ZoneCandidates(domain) == [i \in 1 .. Len(domain) - 1 |-> SubSeq(domain, i, Len(domain))]

\* pick, on the zones of exactly that name.
Pick(zones, candidate) ==
  LET matching == {i \in DOMAIN zones : zones[i].name = candidate} IN
  IF Cardinality(matching) > 1 THEN <<"ambiguous">>
  ELSE IF matching = {} THEN <<"none">>
  ELSE LET i == CHOOSE j \in matching : TRUE IN
       IF zones[i].status # "active" THEN <<"not_active">> ELSE <<"zone", i>>

\* find_zone: the first candidate that is not simply absent decides.
FindZone(domain, zones) ==
  LET candidates == ZoneCandidates(domain)
      decided == {i \in DOMAIN candidates : Pick(zones, candidates[i]) # <<"none">>}
  IN IF Len(domain) < 2 THEN <<"not_a_domain">>
     ELSE IF decided = {} THEN <<"not_found">>
     ELSE Pick(zones, candidates[CHOOSE i \in decided : \A j \in decided : i <= j])

\* The zone found is the one that is asked about the name: active, the only one
\* of its name, and no other zone's name is a longer part of the domain.  A
\* domain with such a zone finds it.
ZoneAnswers(domain, zones) ==
  LET found == FindZone(domain, zones)
      over  == {i \in DOMAIN zones : Len(zones[i].name) >= 2 /\ IsSuffixOf(zones[i].name, domain)}
      best  == {i \in over : \A j \in over : Len(zones[j].name) <= Len(zones[i].name)}
  IN (found[1] = "zone") <=>
       \E i \in best : best = {i} /\ zones[i].status = "active" /\ found = <<"zone", i>>
=============================================================================
