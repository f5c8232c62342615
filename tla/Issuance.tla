------------------------------- MODULE Issuance -------------------------------
(***************************************************************************)
(* How a certificate is ordered, published, recorded and served.  The      *)
(* server's renewal task (`renew_once`) and `server renew` typed by hand   *)
(* (`renew::run`) do it under one issuance lock, which both try and never  *)
(* wait for.  Both order through `acme::renew`, which replaces three       *)
(* files, the account key and the two halves of the pair, one rename at a  *)
(* time; the state file is written last.  The task then hands the new pair *)
(* to the listener.  Only `server renew` puts files back when it fails.    *)
(*                                                                         *)
(* Certificates and accounts are numbered in the order the CAs make them;  *)
(* 0 is none.  A key is the number of the certificate it belongs to.       *)
(* Recording a certificate sets its issue time and its expiry, which its   *)
(* number stands for.                                                      *)
(***************************************************************************)
EXTENDS Integers, Sequences, FiniteSets

CONSTANTS
  Timer,       \* the renewal task of `server run`
  Clis,        \* runs of `server renew`
  CAs,         \* ACME directories
  Production,  \* the one a hub moves to when none is asked for
  Contacts,    \* --acme-email addresses
  MaxCerts,    \* bound: certificates the CAs issue
  MaxAccounts, \* bound: accounts the CAs register
  MaxCommands, \* bound: runs of `server renew`
  MaxFailures, \* bound: CA answers, writes and renames that fail
  MaxCrashes,  \* bound: processes killed
  MaxEdits     \* bound: changes made by hand or by certbot

Procs == {Timer} \cup Clis

ASSUME ProcsAssumption == Timer \notin Clis
ASSUME CAsAssumption == Production \in CAs /\ "none" \notin CAs \cup Contacts
ASSUME BoundsAssumption ==
  {MaxCerts, MaxAccounts, MaxCommands, MaxFailures, MaxCrashes, MaxEdits} \subseteq Nat

VARIABLES
  tls,       \* the TLS section of state.json
  files,     \* what the hub's own account, key and certificate files hold
  theirs,    \* version of the pair a person or certbot keeps up to date
  served,    \* what the listener presents, {} while the server is down
  issuing,   \* the process holding the issuance lock, at most one
  run,       \* locals of each process
  reply,     \* what each process last reported
  certs,     \* the CAs' books: who issued each certificate
  accounts,  \* the CAs' books: every account, with its contact
  reported,  \* history: an error named a pair that does not match, or a crash
  budget     \* what is left of the bounds

vars == <<tls, files, theirs, served, issuing, run, reply, certs, accounts,
          reported, budget>>

-----------------------------------------------------------------------------
(* Values.                                                                 *)

Tls ==
  {settings \in [source: {"manual", "acme"}, path: {"theirs", "own"},
                 directory: CAs \cup {"none"}, contact: Contacts \cup {"none"},
                 account: Nat, issued: Nat] :
     settings.source = "acme" => settings.directory # "none"}

\* An account in a CA's books.
Registered == [ca: CAs, contact: Contacts \cup {"none"}]

\* A certificate a person supplied: Tls::manual.
Manual ==
  [source |-> "manual", path |-> "theirs", directory |-> "none",
   contact |-> "none", account |-> 0, issued |-> 0]

\* Flags of `server renew`; `order` is --force, or a certificate that is due.
Asked == [ca: CAs \cup {"none"}, contact: Contacts \cup {"none"}, order: BOOLEAN]
NoFlags == [ca |-> "none", contact |-> "none", order |-> FALSE]

Files == [account: Nat, key: Nat, cert: Nat]

\* seen: the settings read; wanted: those to order under; signed: the account
\* signed in to; fresh: credentials not written yet; got: the certificate in
\* hand; backup: the key the pair's publication moved aside; before: the files
\* to put back on failure, at most one copy of them; undo: which of them is next.
Idle ==
  [pc |-> "idle", asked |-> NoFlags, seen |-> Manual, wanted |-> Manual,
   signed |-> 0, fresh |-> 0, got |-> 0, backup |-> 0, before |-> {}, undo |-> 0]

Pcs == {"idle", "try", "sign_in", "order", "account", "key", "cert", "record",
        "present", "undo"}

Run ==
  [pc: Pcs, asked: Asked, seen: Tls, wanted: Tls, signed: Nat, fresh: Nat, got: Nat,
   backup: Nat, before: SUBSET Files, undo: 0 .. 3]

\* How a run ended, or that it has not.
Answers == {"none", "ok", "busy", "not_ours", "wrong_account", "ca", "write", "moved",
            "unrestored", "lost"}

\* tls::load: a key that does not belong to the certificate is refused.
Whole == files.key = files.cert /\ files.cert # 0

Loaded(path) ==
  IF path = "theirs" THEN {[path |-> path, cert |-> theirs]}
  ELSE IF Whole THEN {[path |-> path, cert |-> files.cert]}
  ELSE {}

Spend(bound) ==
  /\ budget[bound] > 0
  /\ budget' = [budget EXCEPT ![bound] = @ - 1]

Becomes(p, locals) == run' = [run EXCEPT ![p] = locals]

Goto(p, from, to) ==
  /\ run[p].pc = from
  /\ Becomes(p, [run[p] EXCEPT !.pc = to])

\* A run ends; its lock goes with it.
Return(p, answer) ==
  /\ Becomes(p, Idle)
  /\ reply' = [reply EXCEPT ![p] = answer]
  /\ issuing' = issuing \ {p}

InitWith(settings, own, books, registered) ==
  /\ tls = settings
  /\ files = own
  /\ theirs = 1
  /\ served = Loaded(settings.path)
  /\ issuing = {}
  /\ run = [p \in Procs |-> Idle]
  /\ reply = [p \in Procs |-> "none"]
  /\ certs = books
  /\ accounts = registered
  /\ reported = FALSE
  /\ budget = [commands |-> MaxCommands, failures |-> MaxFailures,
               crashes |-> MaxCrashes, edits |-> MaxEdits]

\* A hub set up with a certificate of its owner's.
ManualHub == InitWith(Manual, [account |-> 0, key |-> 0, cert |-> 0], <<>>, <<>>)

\* A hub set up at a CA: its first account and its first certificate.
AcmeHub(ca, contact) ==
  InitWith([source |-> "acme", path |-> "own", directory |-> ca, contact |-> contact,
            account |-> 1, issued |-> 1],
           [account |-> 1, key |-> 1, cert |-> 1], <<ca>>,
           <<[ca |-> ca, contact |-> contact]>>)

Init == ManualHub \/ \E ca \in CAs, contact \in Contacts : AcmeHub(ca, contact)

-----------------------------------------------------------------------------
(* Decisions.                                                              *)

\* Mutation: another CA is a setting like any other.
PlanCaAsSetting(settings, asked) ==
  CASE settings.source = "manual" ->
         IF asked.contact = "none" THEN "refuse" ELSE "reissue"
    [] settings.source = "acme" /\ asked.order -> "reissue"
    [] OTHER -> IF asked.ca \notin {"none", settings.directory} THEN "settings" ELSE "not_due"

\* renew::plan: what a run of `server renew` will do.
Plan(settings, asked) ==
  CASE settings.source = "manual" ->
         IF asked.contact = "none" THEN "refuse" ELSE "reissue"
    [] settings.source = "acme" /\ (asked.order \/ asked.ca \notin {"none", settings.directory}) ->
         "reissue"
    [] OTHER ->
         IF asked.contact \notin {"none", settings.contact} THEN "settings" ELSE "not_due"

\* renew::apply: only what was given.
Apply(settings, asked) ==
  IF settings.source = "manual"
  THEN [source |-> "acme", path |-> "own", contact |-> asked.contact,
        directory |-> IF asked.ca = "none" THEN Production ELSE asked.ca,
        account |-> 0, issued |-> 0]
  ELSE [settings EXCEPT !.directory = IF asked.ca = "none" THEN @ ELSE asked.ca,
                        !.contact = IF asked.contact = "none" THEN @ ELSE asked.contact]

\* acme::record: the paths follow the files that were written, whoever's
\* certificate the settings name.
Record(settings, cert, account) ==
  IF settings.source = "manual" THEN [settings EXCEPT !.path = "own"]
  ELSE [settings EXCEPT !.path = "own", !.account = account, !.issued = cert]

\* acme::registration, for a hub that has one recorded.
Registration(recorded, directory, contact) ==
  IF recorded.directory # directory \/ files.account = 0 THEN "register"
  ELSE IF recorded.contact # contact THEN "reuse_and_update"
  ELSE "reuse"

\* belongs_to: the credentials file against the settings.  No account
\* recorded: there is only the CA to compare.
BelongsTo(directory, account) ==
  /\ accounts[files.account].ca = directory
  /\ account \in {0, files.account}

\* Mutation: the account file is not watched.
WatchedPair == <<"cert", "key">>

\* The files Artifacts watches, in the order it puts them back.
Watched == <<"cert", "key", "account">>

-----------------------------------------------------------------------------
(* Starting a renewal.                                                     *)

\* Mutation: only a hub that renews looks at its files.
TickOursOnly ==
  /\ served # {}
  /\ tls.source = "acme"
  /\ \/ run[Timer].pc = "idle" /\ UNCHANGED run
     \/ Goto(Timer, "idle", "try")
  /\ served' = IF Loaded(tls.path) = {} THEN served ELSE Loaded(tls.path)
  /\ UNCHANGED <<tls, files, theirs, issuing, reply, certs, accounts, reported, budget>>

\* A turn of renewal_loop: the listener gets what is on disk if it loads
\* (tls::reload); on a hub that renews, a certificate may be due.
Tick ==
  /\ served # {}
  /\ \/ run[Timer].pc = "idle" /\ UNCHANGED run
     \/ tls.source = "acme" /\ Goto(Timer, "idle", "try")
  /\ served' = IF Loaded(tls.path) = {} THEN served ELSE Loaded(tls.path)
  /\ UNCHANGED <<tls, files, theirs, issuing, reply, certs, accounts, reported, budget>>

\* `server renew` reads the state and plans before it tries the lock.  A run
\* that is refused, or that has nothing to do, touches nothing.
Type(k) ==
  /\ run[k].pc = "idle"
  /\ Spend("commands")
  /\ \E asked \in Asked :
       /\ Plan(tls, asked) \in {"reissue", "settings"}
       /\ Becomes(k, [Idle EXCEPT !.pc = "try", !.asked = asked, !.seen = tls])
  /\ UNCHANGED <<tls, files, theirs, served, issuing, reply, certs, accounts, reported>>

\* Mutation: the lock is taken whoever has it.
LockAnyway(p) ==
  /\ run[p].pc = "try"
  /\ p = Timer
  /\ issuing' = issuing \cup {p}
  /\ Becomes(p, [run[p] EXCEPT !.pc = "sign_in", !.seen = tls, !.wanted = tls])
  /\ UNCHANGED <<tls, files, theirs, served, reply, certs, accounts, reported, budget>>

\* renew_once takes the lock before it reads the state.
Lock(p) ==
  /\ run[p].pc = "try"
  /\ p = Timer
  /\ issuing = {}
  /\ issuing' = {p}
  /\ Becomes(p, [run[p] EXCEPT !.pc = "sign_in", !.seen = tls, !.wanted = tls])
  /\ UNCHANGED <<tls, files, theirs, served, reply, certs, accounts, reported, budget>>

\* `server renew` goes on from the state it read before; a run that orders
\* remembers the files it is about to replace (Artifacts::watching).
LockForCommand(k) ==
  /\ run[k].pc = "try"
  /\ k \in Clis
  /\ issuing = {}
  /\ issuing' = {k}
  /\ LET orders == Plan(run[k].seen, run[k].asked) = "reissue"
     IN Becomes(k, [run[k] EXCEPT !.pc = IF orders THEN "sign_in" ELSE "record",
                           !.wanted = Apply(run[k].seen, run[k].asked),
                           !.before = IF orders THEN {files} ELSE {}])
  /\ UNCHANGED <<tls, files, theirs, served, reply, certs, accounts, reported, budget>>

\* Tried, not waited for.
Busy(p) ==
  /\ run[p].pc = "try"
  /\ issuing # {}
  /\ Return(p, "busy")
  /\ UNCHANGED <<tls, files, theirs, served, certs, accounts, reported, budget>>

\* An attempt fails.  The task just returns; `server renew` drops its
\* Artifacts, if it has them.
Fails(p, from, answer) ==
  /\ run[p].pc = from
  /\ \/ run[p].before = {} /\ Return(p, answer)
     \/ /\ run[p].before # {}
        /\ Becomes(p, [run[p] EXCEPT !.pc = "undo", !.undo = 1])
        /\ reply' = [reply EXCEPT ![p] = answer]
        /\ UNCHANGED issuing

-----------------------------------------------------------------------------
(* acme::renew.                                                            *)

\* acme::renew's own call of registration: recorded and wanted are the same
\* settings.
Account(p) ==
  Registration(run[p].wanted, run[p].wanted.directory, run[p].wanted.contact)

\* A certificate somebody else issues is not renewed; `server renew` never
\* asks for one.
NotOurs(p) ==
  /\ run[p].pc = "sign_in"
  /\ run[p].wanted.source = "manual"
  /\ Return(p, "not_ours")
  /\ UNCHANGED <<tls, files, theirs, served, certs, accounts, reported, budget>>

\* A new account; its credentials stay in memory (Pending).
Register(p) ==
  /\ run[p].pc = "sign_in"
  /\ run[p].wanted.source = "acme"
  /\ Account(p) = "register"
  /\ Len(accounts) < MaxAccounts
  /\ accounts' = Append(accounts, [ca |-> run[p].wanted.directory,
                                   contact |-> run[p].wanted.contact])
  /\ Becomes(p, [run[p] EXCEPT !.pc = "order", !.signed = Len(accounts) + 1,
                           !.fresh = Len(accounts) + 1])
  /\ UNCHANGED <<tls, files, theirs, served, issuing, reply, certs, reported, budget>>

\* The account on disk, if it is the recorded one.
SignIn(p) ==
  /\ run[p].pc = "sign_in"
  /\ run[p].wanted.source = "acme"
  /\ Account(p) # "register"
  /\ BelongsTo(run[p].wanted.directory, run[p].wanted.account)
  /\ Becomes(p, [run[p] EXCEPT !.pc = "order", !.signed = files.account])
  /\ accounts' = IF Account(p) = "reuse_and_update"
                 THEN [accounts EXCEPT ![files.account].contact = run[p].wanted.contact]
                 ELSE accounts
  /\ UNCHANGED <<tls, files, theirs, served, issuing, reply, certs, reported, budget>>

WrongAccount(p) ==
  /\ run[p].wanted.source = "acme"
  /\ Account(p) # "register"
  /\ ~BelongsTo(run[p].wanted.directory, run[p].wanted.account)
  /\ Fails(p, "sign_in", "wrong_account")
  /\ UNCHANGED <<tls, files, theirs, served, certs, accounts, reported, budget>>

\* The credentials, and not the settings, decide which CA is asked.
Order(p) ==
  /\ run[p].pc = "order"
  /\ Len(certs) < MaxCerts
  /\ certs' = Append(certs, accounts[run[p].signed].ca)
  /\ Becomes(p, [run[p] EXCEPT !.pc = "account", !.got = Len(certs) + 1])
  /\ UNCHANGED <<tls, files, theirs, served, issuing, reply, accounts, reported, budget>>

\* The CA cannot be reached or will not answer.
CaRefuses(p) ==
  /\ \/ Fails(p, "sign_in", "ca") /\ run[p].wanted.source = "acme"
     \/ Fails(p, "order", "ca")
  /\ Spend("failures")
  /\ UNCHANGED <<tls, files, theirs, served, certs, accounts, reported>>

\* The CA's limits: the bounds on what it gives out.
CaLimits(p) ==
  /\ \/ /\ Fails(p, "sign_in", "ca")
        /\ run[p].wanted.source = "acme"
        /\ Account(p) = "register"
        /\ Len(accounts) = MaxAccounts
     \/ Fails(p, "order", "ca") /\ Len(certs) = MaxCerts
  /\ UNCHANGED <<tls, files, theirs, served, certs, accounts, reported, budget>>

\* Pending::commit: the certificate is in hand, the account may be replaced.
KeepAccount(p) ==
  /\ Goto(p, "account", "key")
  /\ files' = IF run[p].fresh = 0 THEN files ELSE [files EXCEPT !.account = run[p].fresh]
  /\ UNCHANGED <<tls, theirs, served, issuing, reply, certs, accounts, reported, budget>>

\* The first rename of write_private_pair, the old key set aside.
SaveKey(p) ==
  /\ run[p].pc = "key"
  /\ Becomes(p, [run[p] EXCEPT !.pc = "cert", !.backup = files.key])
  /\ files' = [files EXCEPT !.key = run[p].got]
  /\ UNCHANGED <<tls, theirs, served, issuing, reply, certs, accounts, reported, budget>>

\* The second.
SaveCert(p) ==
  /\ Goto(p, "cert", "record")
  /\ files' = [files EXCEPT !.cert = run[p].got]
  /\ UNCHANGED <<tls, theirs, served, issuing, reply, certs, accounts, reported, budget>>

\* Credentials, key or state file could not be written: nothing replaced.
WriteFails(p) ==
  /\ \/ Fails(p, "account", "write") /\ run[p].fresh # 0
     \/ Fails(p, "key", "write")
     \/ Fails(p, "record", "write")
  /\ Spend("failures")
  /\ UNCHANGED <<tls, files, theirs, served, certs, accounts, reported>>

\* Mutation: a failed second rename leaves the first as it is.
RenameFailsKeepingKey(p) ==
  /\ Fails(p, "cert", "write")
  /\ Spend("failures")
  /\ UNCHANGED <<tls, files, theirs, served, certs, accounts, reported>>

\* The second rename fails and the first is undone, or that fails as well and
\* the error says so.
RenameFails(p) ==
  /\ Fails(p, "cert", "write")
  /\ Spend("failures")
  /\ \/ /\ files' = [files EXCEPT !.key = run[p].backup]
        /\ UNCHANGED reported
     \/ /\ reported' = TRUE
        /\ UNCHANGED files
  /\ UNCHANGED <<tls, theirs, served, certs, accounts>>

-----------------------------------------------------------------------------
(* Recording it, presenting it, or putting everything back.                *)

\* Mutation: the settings under the lock are not compared.
UnmovedUnchecked(p) == TRUE

\* The witness: the TLS settings are those this run started from.
Unmoved(p) == tls = run[p].seen

\* What a run writes, on the settings as they are under the state lock.
Settled(p) ==
  LET base == IF p \in Clis THEN Apply(tls, run[p].asked) ELSE tls
  IN IF run[p].got = 0 THEN base ELSE Record(base, run[p].got, run[p].signed)

Moved(p) ==
  /\ ~Unmoved(p)
  /\ Fails(p, "record", "moved")
  /\ UNCHANGED <<tls, files, theirs, served, certs, accounts, reported, budget>>

\* The state file last, and only for a pair that loads.
Commit(p) ==
  /\ run[p].pc = "record"
  /\ Unmoved(p)
  /\ run[p].got # 0 => Whole
  /\ tls' = Settled(p)
  /\ \/ p = Timer /\ Goto(p, "record", "present") /\ UNCHANGED <<reply, issuing>>
     \/ p \in Clis /\ Return(p, "ok")
  /\ UNCHANGED <<files, theirs, served, certs, accounts, reported, budget>>

\* Listening::present, of the pair loaded before the commit.
Present(p) ==
  /\ run[p].pc = "present"
  /\ served' = {[path |-> "own", cert |-> run[p].got]}
  /\ Return(p, "ok")
  /\ UNCHANGED <<tls, files, theirs, certs, accounts, reported, budget>>

\* The next file, or the end of the run.
Undone(k, answer) ==
  \/ run[k].undo = Len(Watched) /\ Return(k, answer)
  \/ /\ run[k].undo < Len(Watched)
     /\ Becomes(k, [run[k] EXCEPT !.undo = @ + 1])
     /\ reply' = [reply EXCEPT ![k] = answer]
     /\ UNCHANGED issuing

\* Artifacts::drop, one file put back as it was.
PutBack(k) ==
  /\ run[k].pc = "undo"
  /\ LET f == Watched[run[k].undo]
     IN \E old \in run[k].before : files' = [files EXCEPT ![f] = old[f]]
  /\ Undone(k, reply[k])
  /\ UNCHANGED <<tls, theirs, served, certs, accounts, reported, budget>>

\* One that could not be, with a warning.
PutBackFails(k) ==
  /\ run[k].pc = "undo"
  /\ LET f == Watched[run[k].undo]
     IN \E old \in run[k].before : files[f] # old[f]
  /\ Spend("failures")
  /\ Undone(k, "unrestored")
  /\ reported' = TRUE
  /\ UNCHANGED <<tls, files, theirs, served, certs, accounts>>

-----------------------------------------------------------------------------
(* Kills, restarts and other hands.                                        *)

\* A process dies with its lock, leaving the files as they are.
Kill(p) ==
  /\ Spend("crashes")
  /\ Becomes(p, Idle)
  /\ reply' = [reply EXCEPT ![p] = IF run[p].pc = "idle" THEN @ ELSE "lost"]
  /\ issuing' = issuing \ {p}
  /\ reported' = (reported \/ run[p].pc \in {"cert", "undo"})
  /\ UNCHANGED <<tls, files, theirs, certs, accounts>>

\* The server is killed.
Crash ==
  /\ served # {}
  /\ Kill(Timer)
  /\ served' = {}

\* `server renew` is interrupted.
Interrupt(k) ==
  /\ run[k].pc # "idle"
  /\ Kill(k)
  /\ UNCHANGED served

\* The server starts again, if the pair its settings name loads.
Start ==
  /\ served = {}
  /\ served' = Loaded(tls.path)
  /\ served' # {}
  /\ UNCHANGED <<tls, files, theirs, issuing, run, reply, certs, accounts, reported, budget>>

\* Somebody edits state.json back to a certificate of their own.
EditToManual ==
  /\ tls.source = "acme"
  /\ tls' = Manual
  /\ Spend("edits")
  /\ UNCHANGED <<files, theirs, served, issuing, run, reply, certs, accounts, reported>>

\* The account key is deleted.
LoseAccount ==
  /\ files.account # 0
  /\ files' = [files EXCEPT !.account = 0]
  /\ Spend("edits")
  /\ UNCHANGED <<tls, theirs, served, issuing, run, reply, certs, accounts, reported>>

\* certbot replaces the pair it looks after.
Certbot ==
  /\ tls.source = "manual"
  /\ theirs' = theirs + 1
  /\ Spend("edits")
  /\ UNCHANGED <<tls, files, served, issuing, run, reply, certs, accounts, reported>>

Work(p) ==
  \/ Lock(p) \/ LockForCommand(p) \/ Busy(p)
  \/ NotOurs(p) \/ Register(p) \/ SignIn(p) \/ WrongAccount(p) \/ Order(p)
  \/ CaRefuses(p) \/ CaLimits(p)
  \/ KeepAccount(p) \/ SaveKey(p) \/ SaveCert(p) \/ WriteFails(p) \/ RenameFails(p)
  \/ Moved(p) \/ Commit(p) \/ Present(p)
  \/ PutBack(p) \/ PutBackFails(p)

Next ==
  \/ Tick
  \/ \E k \in Clis : Type(k) \/ Interrupt(k)
  \/ \E p \in Procs : Work(p)
  \/ Crash \/ Start
  \/ EditToManual \/ LoseAccount \/ Certbot

Spec == Init /\ [][Next]_vars

\* A process that can run is scheduled, the loop looks again every hour, and
\* systemd restarts the server (Restart=on-failure).
Fairness ==
  /\ \A p \in Procs : WF_vars(Work(p))
  /\ WF_vars(Tick)
  /\ WF_vars(Start)

FairSpec == Spec /\ Fairness

-----------------------------------------------------------------------------
(* Safety.                                                                 *)

\* Every variable keeps its type: what the state, the files and the runs name
\* is in the CAs' books, and one process at most is issuing.
TypeOK ==
  /\ tls \in Tls
  /\ files \in Files
  /\ files.account \in 0 .. Len(accounts)
  /\ theirs \in Nat \ {0}
  /\ served \subseteq [path: {"theirs", "own"}, cert: Nat \ {0}]
  /\ \A c, d \in served : c = d
  /\ issuing \subseteq Procs
  /\ \A p, q \in issuing : p = q
  /\ run \in [Procs -> Run]
  /\ \A p \in Procs :
       /\ {run[p].signed, run[p].fresh} \subseteq 0 .. Len(accounts)
       /\ run[p].got \in 0 .. Len(certs)
       /\ \A old \in run[p].before : old.account \in 0 .. Len(accounts)
  /\ reply \in [Procs -> Answers]
  /\ certs \in Seq(CAs)
  /\ accounts \in Seq(Registered)
  /\ reported \in BOOLEAN

\* A hub that was given a certificate serves that one: no renewal in flight
\* records its own files on it (renew_once: "pointing a manual hub's cert_path
\* at anago's own files").
ManualHubKeepsItsPair == tls.source = "manual" => tls.path = "theirs"

\* The recorded certificate and the recorded account come from the recorded
\* CA, never from one asked for since or named by an old file (plan: "would
\* make the state file a lie"; belongs_to: "order from a CA nobody asked for").
RecordedFromItsCa ==
  tls.source = "acme" =>
    /\ tls.issued # 0 => certs[tls.issued] = tls.directory
    /\ tls.account # 0 => accounts[tls.account].ca = tls.directory

\* While nobody is issuing, the hub's key and certificate belong together,
\* unless an error or a warning said otherwise or a run was killed between the
\* renames (write_private_pair, Artifacts::drop).
TornIsReported == issuing = {} /\ files.key # files.cert => reported

\* `server renew` that fails without a warning leaves every file as it found
\* it, the account included (renew::run: "a failure leaves the hub exactly as
\* it was").
AllOrNothing ==
  [][\A k \in Clis :
       run[k].pc = "undo" /\ run'[k].pc = "idle" /\ reply'[k] \notin {"unrestored", "lost"}
         => run[k].before = {files'}]_vars

\* An account that is the recorded one is never refused: a hub moved to
\* another CA registers there (registration: "the recorded account is at a
\* different directory").
RecordedAccountAccepted ==
  [][\A p \in Procs :
       run[p].pc = "sign_in" /\ run'[p].pc # "order" /\ reply'[p] = "wrong_account"
         => files.account # run[p].seen.account]_vars

-----------------------------------------------------------------------------
(* Liveness, under Fairness.                                               *)

\* In the end a running server presents the pair its settings name, whoever
\* put it there and whatever was in front of the listener in between, if that
\* pair loads.
ServedCatchesUp ==
  <>[](served # {} /\ Loaded(tls.path) # {} => served = Loaded(tls.path))

=============================================================================
