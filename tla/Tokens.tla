-------------------------------- MODULE Tokens --------------------------------
(***************************************************************************)
(* What `server renew` does with the Cloudflare token, and what a renewal  *)
(* later finds (renew.rs, cfapi.rs, acme.rs).  A hub that renews over      *)
(* DNS-01 needs a token in a file that its state names: the operator's     *)
(* own, or one that a command wrote.  A command reads the state, takes the *)
(* lock, finds the token and the zone, writes its file, orders, and        *)
(* commits last; what it wrote is taken back if it fails before that.      *)
(*                                                                         *)
(* The certificate, the account and their files are Issuance's.            *)
(***************************************************************************)
EXTENDS Naturals

CONSTANTS
  Terminals,         \* `server renew` at a terminal, once each
  Renewer,           \* the renewal of the running server, once
  Zones,             \* Cloudflare zones the domain may be in
  MaxFaults, MaxMoves

TokensAssumption ==
  /\ Renewer \notin Terminals
  /\ Zones # {} /\ "none" \notin Zones
  /\ {MaxFaults, MaxMoves} \subseteq Nat

VARIABLES
  hub,       \* the state file: its TLS settings and its Cloudflare block
  secret,    \* what the token files hold: `ours` is anago's, `theirs` the operator's
  home,      \* the zone the domain is in
  holder,    \* who holds issue.lock
  task,      \* the runs
  litter,    \* something left a file behind that nothing undoes
  chances

tokenVars == <<hub, secret, home, holder, task, litter, chances>>

Runs == Terminals \cup {Renewer}
None == "none"
Old == "old"
New == "new"

\* edition: whatever else `tls` holds, told apart by a number.
Acme(challenge) == [source |-> "acme", challenge |-> challenge, edition |-> 0]
ManualTls == [source |-> "manual", challenge |-> None, edition |-> 0]

\* Cloudflare: a record id is known by the zone it was given in.
Block(zone, record, path) == [zone |-> zone, record |-> record, path |-> path]

\* A renewal's flags.  `moves`: an --acme-email that is another one, or a reason to
\* order: --force, another CA, a certificate that is due.
TokenFlags ==
  [dns : {FALSE}, moves : {None, "email", "order"}, challenge : {None, "http", "dns"},
   token : {None, "flag", "file", "env"}]
  \cup [dns : {TRUE}, moves : {None}, challenge : {None}, token : {None, "flag", "file", "env"}]
NoTokenFlags == [dns |-> FALSE, moves |-> None, challenge |-> None, token |-> None]

\* kept: what to put back at `ours`, when this run wrote it.
Waiting == [at |-> "start", asked |-> NoTokenFlags, seen |-> {}, source |-> None, zone |-> None,
            kept |-> {}, issued |-> FALSE]

TokensInit ==
  /\ home = CHOOSE z \in Zones : TRUE
  /\ hub \in [tls : {ManualTls, Acme("http")}, cloudflare : {{}, {Block(home, home, None)}}]
             \cup [tls : {Acme("dns")}, cloudflare : {{Block(home, home, p)} : p \in {"ours", "theirs"}}]
  /\ secret = [ours   |-> IF \E b \in hub.cloudflare : b.path = "ours" THEN Old ELSE None,
               theirs |-> Old]
  /\ holder = {} /\ task = [p \in Runs |-> Waiting] /\ litter = FALSE
  /\ chances = [fault |-> MaxFaults, move |-> MaxMoves]

-----------------------------------------------------------------------------
(* Decisions.                                                              *)

Path(state) == IF state.cloudflare = {} THEN None ELSE (CHOOSE b \in state.cloudflare : TRUE).path

\* resulting_challenge.
Resulting(state, asked) ==
  IF asked.challenge # None THEN asked.challenge
  ELSE IF state.tls.source = "acme" THEN state.tls.challenge ELSE "http"

\* disposition.
Disposition(state, asked) ==
  IF Resulting(state, asked) = "dns" THEN "keep"
  ELSE IF state.tls.challenge = "dns" THEN "forget" ELSE "unchanged"

Given(asked) == asked.token \in {"flag", "file"}

\* changes_anything.
Changes(state, asked) ==
  \/ asked.moves = "email"
  \/ asked.challenge \notin {None, state.tls.challenge}
  \/ asked.token = "flag"
  \/ asked.token = "file" /\ Path(state) # "theirs"

\* Mutation: a token is taken wherever it is given.
PlanAnyToken(state, asked) ==
  CASE asked.dns -> "push"
    [] ~asked.dns /\ state.tls.source = "manual" ->
         IF asked.moves = "email" THEN "reissue" ELSE "refuse"
    [] OTHER -> IF asked.moves = "order" THEN "reissue"
                ELSE IF Changes(state, asked) THEN "settings" ELSE "not_due"

\* plan and check_token_has_a_job.
TokenPlan(state, asked) ==
  CASE asked.dns -> "push"
    [] ~asked.dns /\ Given(asked) /\ Resulting(state, asked) # "dns" -> "refuse"
    [] ~asked.dns /\ ~(Given(asked) /\ Resulting(state, asked) # "dns")
       /\ state.tls.source = "manual" -> IF asked.moves = "email" THEN "reissue" ELSE "refuse"
    [] OTHER -> IF asked.moves = "order" THEN "reissue"
                ELSE IF Changes(state, asked) THEN "settings" ELSE "not_due"

\* read_token: a flag, then the recorded file, then the environment.
SourceOf(state, asked) ==
  CASE asked.token = "file" -> "theirs"
    [] asked.token = "flag" -> "flag"
    [] OTHER -> IF Path(state) # None THEN Path(state) ELSE asked.token

\* load: a file that cannot be read is an error, whatever else is there.
Readable(source) ==
  \/ source \in {"flag", "env"}
  \/ source \in {"ours", "theirs"} /\ secret[source] # None

\* Mutation: a record id outlives its zone.
BlockInKeeping(block, zone, path) == [block EXCEPT !.zone = zone, !.path = path]

\* A record id of another zone means nothing in this one.
BlockIn(block, zone, path) ==
  [zone |-> zone, record |-> IF block.zone = zone THEN block.record ELSE None, path |-> path]

\* apply: the settings that were given, and what becomes of the token.
Applied(state, asked, zone, path) ==
  LET tls == [source    |-> "acme",
              challenge |-> Resulting(state, asked),
              edition   |-> state.tls.edition + (IF asked.moves = "email" THEN 1 ELSE 0)]
      disposition == Disposition(state, asked)
  IN [tls |-> tls,
      cloudflare |->
        CASE disposition = "unchanged" -> state.cloudflare
          [] disposition = "forget"    -> {[b EXCEPT !.path = None] : b \in state.cloudflare}
          [] disposition = "keep"      -> IF state.cloudflare = {} THEN {Block(zone, None, path)}
                                          ELSE {BlockIn(b, zone, path) : b \in state.cloudflare}]

\* record: the certificate's own dates, and the zone it was proved in.
Recorded(state, zone) ==
  [tls |-> [state.tls EXCEPT !.edition = @ + 1],
   cloudflare |-> IF zone = None THEN state.cloudflare
                  ELSE {BlockIn(b, zone, b.path) : b \in state.cloudflare}]

\* remember: the ids and nothing else.
Remembered(state, zone) ==
  [state EXCEPT !.cloudflare = {Block(zone, zone, IF @ = {} THEN None ELSE Path(state))}]

-----------------------------------------------------------------------------
(* A run.                                                                  *)

Put(p, t) == task' = [task EXCEPT ![p] = t]
Go(p, at) == Put(p, [task[p] EXCEPT !.at = at])
UseChance(chance) == chances[chance] > 0 /\ chances' = [chances EXCEPT ![chance] = @ - 1]
Ends(p, how) == Put(p, [Waiting EXCEPT !.at = how]) /\ holder' = holder \ {p}
Seen(p) == CHOOSE state \in task[p].seen : TRUE
Outside == UNCHANGED <<home, chances>>

\* The state is read and the plan made before the lock.  A run that is refused or
\* finds nothing due has done nothing.
TypeRenewal(k, asked) ==
  /\ task[k].at = "start" /\ TokenPlan(hub, asked) \notin {"refuse", "not_due"}
  /\ Put(k, [Waiting EXCEPT !.at = "try", !.asked = asked, !.seen = {hub}])
  /\ UNCHANGED <<hub, secret, holder, litter>> /\ Outside

FoundBusy(k) ==
  /\ task[k].at = "try" /\ holder # {}
  /\ Ends(k, "failed") /\ UNCHANGED <<hub, secret, litter>> /\ Outside

\* run goes on from what it read; the token is read only by a run with a use for it.
TakeLock(k) ==
  /\ task[k].at = "try" /\ holder = {} /\ holder' = {k}
  /\ LET plan == TokenPlan(Seen(k), task[k].asked) IN
     Go(k, IF plan = "push" \/ Disposition(Seen(k), task[k].asked) = "keep" THEN "token"
           ELSE IF plan = "reissue" THEN "issue" ELSE "record")
  /\ UNCHANGED <<hub, secret, litter>> /\ Outside

\* renew_once: the lock and then the state.
RenewerRuns ==
  /\ task[Renewer].at = "start" /\ holder = {} /\ hub.tls.source = "acme"
  /\ holder' = {Renewer}
  /\ Put(Renewer, [Waiting EXCEPT !.at = IF hub.tls.challenge = "dns" THEN "token" ELSE "issue",
                                  !.seen = {hub}, !.asked.moves = "order"])
  /\ UNCHANGED <<hub, secret, litter>> /\ Outside

Fail(p) ==
  IF task[p].kept = {} THEN Ends(p, "failed")
  ELSE Go(p, "undo") /\ UNCHANGED holder

\* read_token, and cloudflare_for in a renewal.
Read(p) ==
  /\ task[p].at = "token"
  /\ LET source == SourceOf(Seen(p), task[p].asked) IN
     IF Readable(source)
     THEN Put(p, [task[p] EXCEPT !.at = "zone", !.source = source]) /\ UNCHANGED holder
     ELSE Fail(p)
  /\ UNCHANGED <<hub, secret, litter>> /\ Outside

\* find_zone.
FindZone(p) ==
  /\ task[p].at = "zone"
  /\ Put(p, [task[p] EXCEPT !.zone = home,
                            !.at = IF task[p].asked.dns THEN "push"
                                   ELSE IF p = Renewer THEN "issue" ELSE "store"])
  /\ UNCHANGED <<hub, secret, holder, litter>> /\ Outside

\* store_token, in settle: a file of the operator's stays where it is.
Store(k) ==
  /\ task[k].at = "store"
  /\ LET mine == task[k].source \in {"flag", "env"} IN
     /\ Put(k, [task[k] EXCEPT
          !.at     = IF TokenPlan(Seen(k), task[k].asked) = "reissue" THEN "issue" ELSE "record",
          !.source = IF mine THEN "ours" ELSE @,
          !.kept   = IF mine THEN {secret.ours} ELSE {}])
     /\ secret' = IF mine THEN [secret EXCEPT !.ours = New] ELSE secret
  /\ UNCHANGED <<hub, holder, litter>> /\ Outside

\* push_record.
Push(k) ==
  /\ task[k].at = "push"
  /\ Go(k, "remember") /\ UNCHANGED <<hub, secret, holder, litter>> /\ Outside

Remember(k) ==
  /\ task[k].at = "remember"
  /\ hub' = Remembered(hub, task[k].zone)
  /\ Ends(k, "done")
  /\ UNCHANGED <<secret, litter>> /\ Outside

Issue(p) ==
  /\ task[p].at = "issue"
  /\ Put(p, [task[p] EXCEPT !.at = "record", !.issued = TRUE])
  /\ UNCHANGED <<hub, secret, holder, litter>> /\ Outside

\* The TLS settings are not the ones this run worked for.
HubMoved(p) ==
  /\ task[p].at = "record" /\ hub.tls # Seen(p).tls
  /\ Fail(p) /\ UNCHANGED <<hub, secret, litter>> /\ Outside

\* Settled.stale: only a file anago wrote, as the state that was read names it.
StaleOf(p) == Disposition(Seen(p), task[p].asked) = "forget" /\ Path(Seen(p)) = "ours"

\* The commit.  It leaves a file behind when the hub goes over to the operator's
\* own, or when it forgets a token recorded since the state was read.
CommitTls(p) ==
  /\ task[p].at = "record" /\ hub.tls = Seen(p).tls
  /\ LET applied == IF p = Renewer THEN hub
                    ELSE Applied(hub, task[p].asked, task[p].zone, task[p].source)
     IN hub' = IF task[p].issued THEN Recorded(applied, task[p].zone) ELSE applied
  /\ IF p # Renewer /\ StaleOf(p)
     THEN Put(p, [task[p] EXCEPT !.at = "stale", !.kept = {}]) /\ UNCHANGED holder
     ELSE Ends(p, "done")
  /\ litter' = (\/ litter
                \/ Path(hub) = "ours" /\ Path(hub') = "theirs"
                \/ Path(hub) = "ours" /\ Path(hub') = None /\ ~StaleOf(p))
  /\ UNCHANGED secret /\ Outside

\* The file the state has stopped naming goes after the commit.
Forget(k) ==
  /\ task[k].at = "stale"
  /\ secret' = [secret EXCEPT !.ours = None]
  /\ Ends(k, "done")
  /\ UNCHANGED <<hub, litter>> /\ Outside

\* Mutation: what was written is removed, whatever was there before.
UndoByRemoving(k) ==
  /\ task[k].at = "undo"
  /\ secret' = [secret EXCEPT !.ours = None]
  /\ Ends(k, "failed")
  /\ UNCHANGED <<hub, litter>> /\ Outside

\* Kept::drop.
Undo(k) ==
  /\ task[k].at = "undo"
  /\ secret' = [secret EXCEPT !.ours = CHOOSE t \in task[k].kept : TRUE]
  /\ Ends(k, "failed")
  /\ UNCHANGED <<hub, litter>> /\ Outside

-----------------------------------------------------------------------------
(* What goes wrong.                                                        *)

\* A call, a write or a commit fails.
StepFails(p) ==
  /\ task[p].at \in {"token", "zone", "store", "push", "remember", "issue", "record"}
  /\ UseChance("fault") /\ Fail(p)
  /\ UNCHANGED <<hub, secret, home, litter>>

\* A file that cannot be put back, or taken away, stays as it is.
CleanupFails(k) ==
  /\ task[k].at \in {"undo", "stale"} /\ UseChance("fault")
  /\ Ends(k, IF task[k].at = "undo" THEN "failed" ELSE "done")
  /\ litter' = TRUE /\ UNCHANGED <<hub, secret, home>>

Killed(p) ==
  /\ task[p].at \notin {"start", "done", "failed"} /\ UseChance("fault")
  /\ Ends(p, "failed")
  /\ litter' = (litter \/ task[p].kept # {} \/ task[p].at = "stale")
  /\ UNCHANGED <<hub, secret, home>>

DomainMoves ==
  /\ UseChance("move") /\ home' \in Zones \ {home}
  /\ UNCHANGED <<hub, secret, holder, task, litter>>

TokensNext ==
  \/ RenewerRuns \/ DomainMoves
  \/ \E k \in Terminals :
       \/ \E asked \in TokenFlags : TypeRenewal(k, asked)
       \/ FoundBusy(k) \/ TakeLock(k) \/ Store(k) \/ Push(k) \/ Remember(k) \/ Forget(k)
       \/ Undo(k) \/ CleanupFails(k)
  \/ \E p \in Runs : Read(p) \/ FindZone(p) \/ Issue(p) \/ HubMoved(p) \/ CommitTls(p)
                     \/ StepFails(p) \/ Killed(p)

TokensSpec == TokensInit /\ [][TokensNext]_tokenVars

-----------------------------------------------------------------------------
(* Correctness.                                                            *)

\* A hub that renews over DNS-01 can: its state names a file, and a token is in it
\* (run: "a command that succeeds and leaves every later renewal failing").
TokenIsThere == hub.tls.challenge = "dns" => Path(hub) # None /\ secret[Path(hub)] # None

\* No other hub keeps one (check_token_has_a_job: "the schema says so").
OnlyForDns == Path(hub) # None => hub.tls.challenge = "dns"

\* The record id is one of the recorded zone (apply: "a record id from the old one
\* means nothing in the new one").
RecordOfZone == \A b \in hub.cloudflare : b.record \in {None, b.zone}

\* Nothing is left at anago's own path that no state names.
NothingStray == (holder = {} /\ ~litter /\ secret.ours # None) => Path(hub) = "ours"

\* The operator's file is never written or removed; a run that fails by itself
\* leaves anago's as it found it (Kept); one that was given a token and succeeds has
\* recorded it (check_token_has_a_job: "print \"settings recorded\" over a command
\* that recorded nothing").
TokensGivenBack ==
  [][/\ secret'.theirs = secret.theirs
     /\ \A k \in Terminals :
          task[k].at = "undo" /\ task'[k].at = "failed" /\ chances' = chances
            => task[k].kept = {secret'.ours}
     /\ \A k \in Terminals :
          task[k].at = "record" /\ task'[k].at \in {"stale", "done"} /\ Given(task[k].asked)
            => Path(hub') = IF task[k].asked.token = "file" THEN "theirs" ELSE "ours"]_tokenVars

\* A DNS-01 hub has the token it needs, nobody else has one, and a command that
\* fails gives back what it replaced.
TokensKept ==
  [](TokenIsThere /\ OnlyForDns /\ RecordOfZone /\ NothingStray) /\ TokensGivenBack
=============================================================================
