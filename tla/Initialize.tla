------------------------------ MODULE Initialize ------------------------------
(***************************************************************************)
(* `server init`: one command that turns a machine into a hub.  It refuses *)
(* what it can for free, takes the state lock, writes the A record, orders *)
(* a certificate, publishes three files with the state file last, and      *)
(* installs the service.  A run that fails takes back what it created; a   *)
(* run that is killed takes back nothing.                                  *)
(*                                                                         *)
(* A file is told apart only by who wrote it: a run of `server init`,      *)
(* somebody else, or nobody, when it is not there.                         *)
(***************************************************************************)
EXTENDS Naturals, Sequences, FiniteSets, Functions

CONSTANTS
  Runs,      \* runs of `server init`
  CAs,       \* ACME directories a run may be told to use
  MaxFaults, \* bound: steps that fail
  MaxKills,  \* bound: runs killed
  MaxHands   \* bound: files people put in place or move aside

ASSUME RunsAssumption == Runs \cap {"nobody", "others"} = {}
ASSUME CAsAssumption == "none" \notin CAs
ASSUME BoundsAssumption == {MaxFaults, MaxKills, MaxHands} \subseteq Nat

VARIABLES
  files,  \* who wrote the file at each path
  hub,    \* what the state file says, {} while there is none
  lock,   \* the run holding state.lock, at most one
  run,    \* locals of each run
  budget  \* what is left of the bounds

vars == <<files, hub, lock, run, budget>>

-----------------------------------------------------------------------------
(* Values.                                                                 *)

\* What the CA's answer is written to, and what publish creates, in order.
Credentials == {"account", "key", "cert"}
Published == <<"conf", "token", "state">>
Targets == Credentials \cup Range(Published)

\* What write_private_pair prepares beside them: both halves, and a copy of the
\* key that was there.
Siblings == {"key.tmp", "cert.tmp", "key.bak"}
Paths == Targets \cup Siblings

Owners == Runs \cup {"others", "nobody"}

\* The flags and the environment, as decide leaves them: dns01 needs a token.
Asked ==
  {asked \in [tls: {"manual", "http01", "dns01"}, token: BOOLEAN, ca: CAs \cup {"none"}] :
     /\ asked.tls = "dns01" => asked.token
     /\ asked.tls = "manual" <=> asked.ca = "none"}

NoFlags == [tls |-> "manual", token |-> FALSE, ca |-> "none"]

Orders(asked) == asked.tls # "manual"

\* cloudflare: the zone, and whether a record id and a token path go with it.
Hub == [tls: {"manual", "http01", "dns01"}, account: Owners, zone: BOOLEAN,
        record: BOOLEAN, token: BOOLEAN]

Pcs == {"idle", "lock", "point", "watch", "order", "account", "key.tmp", "cert.tmp", "key.bak",
        "key", "cert", "tidy", "load", "conf", "token", "state", "rollback", "service", "end"}

\* How a run ended.  "exists" is a file that was in the way, "torn" a failure whose
\* message says that the new key could not be taken back.
Failures == {"failed", "exists", "torn"}
Outcomes == Failures \cup {"none", "refused", "killed", "unsupervised", "running"}

\* had: the paths taken when the run armed its guard.  candidates: what that guard
\* removes.  created: what publish has created.  backup: whose key back_up copied
\* aside, nobody's when there was none.
Locals ==
  [pc: Pcs, asked: Asked, had: SUBSET Targets,
   candidates: SUBSET Credentials, created: SUBSET Targets, account: Owners,
   backup: Owners, pointed: BOOLEAN, outcome: Outcomes]

NotStarted ==
  [pc |-> "idle", asked |-> NoFlags, had |-> {}, candidates |-> {},
   created |-> {}, account |-> "nobody", backup |-> "nobody", pointed |-> FALSE,
   outcome |-> "none"]

TypeOK ==
  /\ files \in [Paths -> Owners]
  /\ hub \in SUBSET Hub /\ Cardinality(hub) <= 1
  /\ lock \in SUBSET Runs /\ Cardinality(lock) <= 1
  /\ run \in [Runs -> Locals]
  /\ budget \in [faults: 0 .. MaxFaults, kills: 0 .. MaxKills, hands: 0 .. MaxHands]

There(path) == files[path] # "nobody"
Present == {path \in Targets : There(path)}

Spend(bound) ==
  /\ budget[bound] > 0
  /\ budget' = [budget EXCEPT ![bound] = @ - 1]

At(r, pc) == run[r].pc = pc
\* Setup::new: the token is kept for the renewals that answer in TXT.
KeepsToken(r) == run[r].asked.tls = "dns01" /\ run[r].asked.token

Goto(r, pc) == run' = [run EXCEPT ![r].pc = pc]

\* The command returns; the lock goes with the process.
Ends(r, outcome) ==
  /\ run' = [run EXCEPT ![r] =
       IF outcome \in Failures
       THEN [NotStarted EXCEPT !.pc = "end", !.outcome = outcome, !.had = run[r].had]
       ELSE [NotStarted EXCEPT !.pc = "end", !.outcome = outcome, !.asked = run[r].asked]]
  /\ lock' = lock \ {r}

\* A failure after the guard may be armed: unwinding runs publish's rollback,
\* then the guard.
Unwinds(r, outcome) ==
  /\ run' = [run EXCEPT ![r].pc = "rollback", ![r].outcome = outcome]
  /\ UNCHANGED lock

Init ==
  /\ files = [path \in Paths |-> "nobody"]
  /\ hub = {}
  /\ lock = {}
  /\ run = [r \in Runs |-> NotStarted]
  /\ budget = [faults |-> MaxFaults, kills |-> MaxKills, hands |-> MaxHands]

-----------------------------------------------------------------------------
(* Everything that can refuse without touching anything.                   *)

\* check_not_initialized.
Initialized == There("state") \/ There("conf")

\* decide, the tools, and a certificate the operator named: any of them refuses.
Type(r) ==
  /\ At(r, "idle")
  /\ ~Initialized
  /\ \E asked \in Asked :
       run' = [run EXCEPT ![r].pc = "lock", ![r].asked = asked]
  /\ UNCHANGED <<files, hub, lock, budget>>

Refuse(r) ==
  /\ At(r, "idle")
  /\ Initialized
  /\ Ends(r, "refused")
  /\ UNCHANGED <<files, hub, budget>>

\* Mutation: the check made before the lock is good enough.
LockUnchecked(r) ==
  /\ At(r, "lock")
  /\ lock = {}
  /\ lock' = {r}
  /\ Goto(r, "point")
  /\ UNCHANGED <<files, hub, budget>>

\* The lock is waited for, and the check made again under it.
Lock(r) ==
  /\ At(r, "lock")
  /\ lock = {}
  /\ ~Initialized
  /\ lock' = {r}
  /\ Goto(r, "point")
  /\ UNCHANGED <<files, hub, budget>>

TooLate(r) ==
  /\ At(r, "lock")
  /\ lock = {}
  /\ Initialized
  /\ Ends(r, "refused")
  /\ UNCHANGED <<files, hub, budget>>

-----------------------------------------------------------------------------
(* The two steps that reach outside.                                       *)

\* point_dns: no token, no record; a token and no address, no record either,
\* but the zone is known.  The keys are drawn next.
PointDns(r) ==
  /\ At(r, "point")
  /\ \E pointed \in IF run[r].asked.token THEN BOOLEAN ELSE {FALSE} :
       /\ run' = [run EXCEPT ![r].pointed = pointed,
                        ![r].pc = IF Orders(run[r].asked) THEN "watch" ELSE "conf"]
  /\ UNCHANGED <<files, hub, lock, budget>>

\* Cloudflare, or the tools that draw a key.  The A record is never undone.
PointFails(r) ==
  /\ At(r, "point")
  /\ Spend("faults")
  /\ Ends(r, "failed")
  /\ UNCHANGED <<files, hub>>

\* Mutation: the guard is over what the issuance writes, there or not.
WatchAll(r) ==
  /\ At(r, "watch")
  /\ run' = [run EXCEPT ![r].pc = "order", ![r].had = Present,
                        ![r].candidates = Credentials]
  /\ UNCHANGED <<files, hub, lock, budget>>

\* Mutation: the guard is armed with what the issuance returned.
WatchNothing(r) ==
  /\ At(r, "watch")
  /\ run' = [run EXCEPT ![r].pc = "order", ![r].had = Present]
  /\ UNCHANGED <<files, hub, lock, budget>>

\* Issuance::watching, before the CA is called.
Watch(r) ==
  /\ At(r, "watch")
  /\ run' = [run EXCEPT ![r].pc = "order", ![r].had = Present,
                        ![r].candidates = Credentials \ Present]
  /\ UNCHANGED <<files, hub, lock, budget>>

\* An account file already there is signed in with, if it is one of this CA's.
Usable(r) == files["account"] \in Runs => run[files["account"]].asked.ca = run[r].asked.ca

Order(r) ==
  /\ At(r, "order")
  /\ files["account"] # "others" /\ Usable(r)
  /\ run' = [run EXCEPT ![r].pc = "account",
               ![r].account = IF There("account") THEN files["account"] ELSE r]
  /\ UNCHANGED <<files, hub, lock, budget>>

\* The account is another CA's, or no account at all.
WrongAccount(r) ==
  /\ At(r, "order")
  /\ files["account"] = "others" \/ ~Usable(r)
  /\ Unwinds(r, "exists")
  /\ UNCHANGED <<files, hub, budget>>

\* Pending: the account, if it is new.
WriteAccount(r) ==
  /\ At(r, "account")
  /\ files' = [files EXCEPT !["account"] = run[r].account]
  /\ Goto(r, "key.tmp")
  /\ UNCHANGED <<hub, lock, budget>>

\* The CA, the account's write or the load fails.
IssuanceFails(r) ==
  /\ \E pc \in {"order", "account", "load"} : At(r, pc)
  /\ Spend("faults")
  /\ Unwinds(r, "failed")
  /\ UNCHANGED <<files, hub>>

-----------------------------------------------------------------------------
(* write_private_pair: both halves and a copy of the old key are made      *)
(* durable beside the names; then two renames, the key's first.            *)

\* The files without those of S.
Gone(S) == [path \in Paths |-> IF path \in S THEN "nobody" ELSE files[path]]

\* The copy this run made, if it made one.
Backup(r) == IF run[r].backup = "nobody" THEN {} ELSE {"key.bak"}

\* prepare_private: a sibling somebody left is removed first.
Prepare(r, path, next) ==
  /\ At(r, path)
  /\ files' = [files EXCEPT ![path] = r]
  /\ Goto(r, next)
  /\ UNCHANGED <<hub, lock, budget>>

\* back_up: no key, no copy.
BackUp(r) ==
  /\ At(r, "key.bak")
  /\ files' = IF There("key") THEN [files EXCEPT !["key.bak"] = r] ELSE files
  /\ run' = [run EXCEPT ![r].pc = "key", ![r].backup = files["key"]]
  /\ UNCHANGED <<hub, lock, budget>>

\* What was prepared before path, and goes when path cannot be.
Earlier(path) == IF path = "key.tmp" THEN {} ELSE {"key.tmp", "cert.tmp"} \ {path}

\* A sibling cannot be created, or written, or synced: in the last two cases it
\* stays, half written, and nothing takes it away.
PrepareFails(r) ==
  /\ \E path \in Siblings :
       /\ At(r, path)
       /\ path = "key.bak" => There("key")
       /\ \E left \in {files[path], "nobody", r} :
            files' = [Gone(Earlier(path)) EXCEPT ![path] = left]
  /\ Spend("faults")
  /\ Unwinds(r, "failed")
  /\ UNCHANGED hub

WriteKey(r) ==
  /\ At(r, "key")
  /\ files' = [Gone({"key.tmp"}) EXCEPT !["key"] = r]
  /\ Goto(r, "cert")
  /\ UNCHANGED <<hub, lock, budget>>

WriteCert(r) ==
  /\ At(r, "cert")
  /\ files' = [Gone({"cert.tmp"}) EXCEPT !["cert"] = r]
  /\ Goto(r, "tidy")
  /\ UNCHANGED <<hub, lock, budget>>

TidyPair(r) ==
  /\ At(r, "tidy")
  /\ files' = Gone(Backup(r))
  /\ Goto(r, "load")
  /\ UNCHANGED <<hub, lock, budget>>

\* Mutation: a certificate that cannot be put in place leaves the new key there.
RenameFailsHalfway(r) ==
  /\ At(r, "key") \/ At(r, "cert")
  /\ files' = Gone({"key.tmp", "cert.tmp"} \cup Backup(r))
  /\ Spend("faults")
  /\ Unwinds(r, "failed")
  /\ UNCHANGED hub

\* A rename fails.  The second takes the first back: the copy is renamed over the
\* new key, or the new key removed when there was none before.
RenameFails(r) ==
  /\ \/ /\ At(r, "key")
        /\ files' = Gone({"key.tmp", "cert.tmp"} \cup Backup(r))
     \/ /\ At(r, "cert")
        /\ files' = [Gone({"cert.tmp"} \cup Backup(r)) EXCEPT !["key"] = run[r].backup]
  /\ Spend("faults")
  /\ Unwinds(r, "failed")
  /\ UNCHANGED hub

\* Nor can the key be put back: the message names it and where the old one is.
UndoFails(r) ==
  /\ At(r, "cert")
  /\ files' = Gone({"cert.tmp"})
  /\ Spend("faults")
  /\ Unwinds(r, "torn")
  /\ UNCHANGED hub

\* The pair that was just written is loaded as the hub will load it.
LoadPair(r) ==
  /\ At(r, "load")
  /\ Goto(r, "conf")
  /\ UNCHANGED <<files, hub, lock, budget>>

-----------------------------------------------------------------------------
(* Publishing: write_all, each file by create_new_private.                 *)

\* Mutation: the path is on the list before the file is.
CreateListed(r, path, next) ==
  /\ At(r, path)
  /\ run' = [run EXCEPT ![r].pc = IF There(path) THEN "rollback" ELSE next,
                        ![r].outcome = IF There(path) THEN "exists" ELSE @,
                        ![r].created = @ \cup {path}]
  /\ files' = IF There(path) THEN files ELSE [files EXCEPT ![path] = r]

Create(r, path, next) ==
  /\ At(r, path)
  /\ ~There(path)
  /\ files' = [files EXCEPT ![path] = r]
  /\ run' = [run EXCEPT ![r].pc = next, ![r].created = @ \cup {path}]

WriteConf(r) ==
  /\ Create(r, "conf", IF KeepsToken(r) THEN "token" ELSE "state")
  /\ UNCHANGED <<hub, lock, budget>>

WriteToken(r) ==
  /\ Create(r, "token", "state")
  /\ UNCHANGED <<hub, lock, budget>>

\* The point of no return: build_state's answer is on disk, and the guard keeps.
WriteState(r) ==
  /\ Create(r, "state", "service")
  /\ hub' = {[tls |-> run[r].asked.tls, account |-> run[r].account,
              zone |-> run[r].asked.token, record |-> run[r].pointed,
              token |-> KeepsToken(r)]}
  /\ UNCHANGED <<lock, budget>>

\* Somebody's file is in the way, or the write fails.
PublishFails(r) ==
  /\ \E path \in Range(Published) :
       /\ At(r, path)
       /\ \/ There(path) /\ Unwinds(r, "exists") /\ UNCHANGED budget
          \/ Spend("faults") /\ Unwinds(r, "failed")
  /\ UNCHANGED <<files, hub>>

\* publish's rollback takes what this run created, newest first; then the
\* guard takes its candidates, and the run is over.
Newest(r) == Published[CHOOSE i \in DOMAIN Published :
               /\ Published[i] \in run[r].created
               /\ \A j \in (i + 1) .. Len(Published) : Published[j] \notin run[r].created]

Rollback(r) ==
  /\ At(r, "rollback")
  /\ run[r].created # {}
  /\ files' = [files EXCEPT ![Newest(r)] = "nobody"]
  /\ hub' = IF Newest(r) = "state" THEN {} ELSE hub
  /\ run' = [run EXCEPT ![r].created = @ \ {Newest(r)}]
  /\ UNCHANGED <<lock, budget>>

\* Issuance::drop.
Sweep(r) ==
  /\ At(r, "rollback")
  /\ run[r].created = {}
  /\ \/ /\ run[r].candidates # {}
        /\ \E path \in run[r].candidates :
             /\ files' = [files EXCEPT ![path] = "nobody"]
             /\ run' = [run EXCEPT ![r].candidates = @ \ {path}]
        /\ UNCHANGED lock
     \/ run[r].candidates = {} /\ Ends(r, run[r].outcome) /\ UNCHANGED files
  /\ UNCHANGED <<hub, budget>>

\* service::install: the hub is configured whether or not it works.
Install(r) ==
  /\ At(r, "service")
  /\ \/ Ends(r, "running") /\ UNCHANGED budget
     \/ Spend("faults") /\ Ends(r, "unsupervised")
  /\ UNCHANGED <<files, hub>>

-----------------------------------------------------------------------------
(* The machine around it.                                                  *)

Kill(r) ==
  /\ run[r].pc \notin {"idle", "end"}
  /\ Spend("kills")
  /\ Ends(r, "killed")
  /\ UNCHANGED <<files, hub>>

\* Somebody puts a file in place; not one the CA's answer is about to be
\* written to.
Place(path) ==
  /\ ~There(path)
  /\ path \in Credentials => lock = {}
  /\ Spend("hands")
  /\ files' = [files EXCEPT ![path] = "others"]
  /\ UNCHANGED <<hub, lock, run>>

\* What InitError tells a person to do: remove the state file to start over,
\* or move the config aside.
MoveAside(path) ==
  /\ There(path)
  /\ path = "state" \/ (path = "conf" /\ ~There("state"))
  /\ lock = {}
  /\ Spend("hands")
  /\ files' = [files EXCEPT ![path] = "nobody"]
  /\ hub' = IF path = "state" THEN {} ELSE hub
  /\ UNCHANGED <<lock, run>>

Steps(r) ==
  \/ Refuse(r) \/ Lock(r) \/ TooLate(r)
  \/ PointDns(r) \/ PointFails(r)
  \/ Watch(r) \/ Order(r) \/ WrongAccount(r)
  \/ WriteAccount(r) \/ LoadPair(r) \/ IssuanceFails(r)
  \/ Prepare(r, "key.tmp", "cert.tmp") \/ Prepare(r, "cert.tmp", "key.bak")
  \/ BackUp(r) \/ PrepareFails(r)
  \/ WriteKey(r) \/ WriteCert(r) \/ TidyPair(r) \/ RenameFails(r) \/ UndoFails(r)
  \/ WriteConf(r) \/ WriteToken(r) \/ WriteState(r) \/ PublishFails(r)
  \/ Rollback(r) \/ Sweep(r) \/ Install(r)

Next ==
  \/ \E r \in Runs : Type(r) \/ Steps(r) \/ Kill(r)
  \/ \E path \in Targets : Place(path) \/ MoveAside(path)

Spec == Init /\ [][Next]_vars

-----------------------------------------------------------------------------
(* What it promises.                                                       *)

\* init.rs:1003-1005: the state file is the marker for a hub, so it is there
\* only with everything beside it, all of one run, and what it says is true.  A
\* hub that answers challenges in TXT has on disk what its next renewal needs,
\* record or no record; no other hub keeps a token (init.rs:480-489).
HubWhole ==
  \A r \in Runs : files["state"] = r =>
    /\ files["conf"] = r
    /\ hub # {}
    /\ \A says \in hub :
         /\ (says.tls = "dns01") <=> (says.zone /\ says.token)
         /\ says.token => files["token"] = r
         /\ says.tls # "manual" =>
              /\ files["account"] = says.account
              /\ files["key"] = r /\ files["cert"] = r

\* What a run that failed has left of its own, but for the two files of the pair
\* where they were there before it.
Litter(r) == {path \in Paths : files[path] = r} \ ({"key", "cert"} \cap run[r].had)

\* What is left when a run fails (init.rs:649-657, fsutil.rs:138-166).  None of
\* the files it names: at most one sibling of the pair, which write_private_pair
\* itself left.  Where there was a pair both halves of it are still of one run,
\* or the message says otherwise.  A hub that was made has no sibling at all.
NothingLeftBehind ==
  \A r \in Runs :
    /\ At(r, "end") /\ run[r].outcome \in Failures =>
         /\ Litter(r) \subseteq Siblings
         /\ \A path, other \in Litter(r) : path = other
    /\ /\ At(r, "rollback")
       /\ {"key", "cert"} \subseteq run[r].had
       /\ run[r].outcome # "torn"
       => (files["key"] = r <=> files["cert"] = r)
    /\ At(r, "end") /\ run[r].outcome \in {"running", "unsupervised"} =>
         \A path \in Siblings : files[path] # r

\* init.rs:654: "A failed run leaves nothing behind."
FailedRunLeavesNothing ==
  \A r \in Runs : At(r, "end") /\ run[r].outcome \in Failures => Litter(r) = {}

\* Only a run that wrote a file takes it away, and only one that was not there
\* when it armed its guard; nobody else's file is replaced, but for the pair
\* (init.rs:929-932, 1006-1010).
OthersKept ==
  [][budget'.hands = budget.hands =>
       \A path \in Targets :
         /\ There(path) /\ files'[path] = "nobody" =>
              \E r \in lock : files[path] = r /\ path \notin run[r].had
         /\ files[path] = "others" /\ files'[path] # "others" => path \in {"key", "cert"}
    ]_vars

=============================================================================
