--------------------------- MODULE Issuance_proofs ---------------------------
(***************************************************************************)
(* Proofs about Issuance.  The argument is a lock argument: whoever is     *)
(* past the issuance lock holds it alone, so the files are his and only    *)
(* the settings can change under him, which the witness catches.           *)
(*                                                                         *)
(* And about the Cloudflare token of such a hub (Tokens), at the end: what *)
(* a run under the lock would put back, or has yet to take away, is tied   *)
(* to what the state names all along.                                      *)
(***************************************************************************)
EXTENDS Issuance, Tokens, SequenceTheorems, TLAPS

\* What is done with the lock held.
Critical == Pcs \ {"idle", "try"}

\* What is done with an account signed in to.
Ordering == {"order", "account", "key", "cert"}

-----------------------------------------------------------------------------
(* The inductive invariant.                                                *)

\* Exactly the runs past the lock hold it.
Held == \A p \in Procs : (p \in issuing) <=> (run[p].pc \in Critical)

\* Where the settings a run orders under come from.
Purpose ==
  /\ run[Timer].before = {}
  /\ run[Timer].pc \in Critical => run[Timer].wanted = run[Timer].seen
  /\ \A k \in Clis :
       /\ run[k].pc # "idle" => Plan(run[k].seen, run[k].asked) \in {"reissue", "settings"}
       /\ run[k].pc \in Critical => run[k].wanted = Apply(run[k].seen, run[k].asked)

\* The account a run signed in to, and the certificate it got, are of the CA
\* it asks.
InHand ==
  \A p \in Procs :
    /\ run[p].pc \in Ordering \/ (run[p].pc = "record" /\ run[p].got # 0) =>
         /\ run[p].wanted.source = "acme"
         /\ run[p].signed # 0
         /\ accounts[run[p].signed].ca = run[p].wanted.directory
    /\ run[p].pc \in {"idle", "try", "sign_in", "order"} => run[p].got = 0
    /\ run[p].pc \in {"account", "key", "cert", "present"} => run[p].got # 0
    /\ run[p].pc \in Ordering \cup {"record"} /\ run[p].got # 0 =>
         certs[run[p].got] = run[p].wanted.directory
    /\ run[p].pc = "record" /\ run[p].got = 0 =>
         p \in Clis /\ Plan(run[p].seen, run[p].asked) = "settings"

\* What the state file says is in the books.
Booked == /\ tls.account \in 0 .. Len(accounts)
          /\ tls.issued \in 0 .. Len(certs)
          /\ ManualHubKeepsItsPair
          /\ RecordedFromItsCa

\* A process that is not between the renames has a pair that matches.
Paired ==
  \/ reported
  \/ /\ issuing = {} => files.key = files.cert
     /\ \A p \in Procs :
         /\ \A old \in run[p].before : old.key = old.cert
         /\ run[p].pc \in {"sign_in", "order", "account", "key", "record", "present"} =>
              files.key = files.cert
         /\ run[p].pc = "cert" => run[p].backup = files.cert /\ files.key = run[p].got
         /\ run[p].pc = "undo" /\ run[p].undo # 2 => files.key = files.cert
         /\ run[p].pc = "undo" /\ run[p].undo = 2 =>
              \A old \in run[p].before : files.cert = old.cert

\* What a rollback has put back so far.
Undoing ==
  \A p \in Procs :
    /\ \A old, other \in run[p].before : old = other
    /\ run[p].pc = "undo" =>
         /\ run[p].before # {}
         /\ run[p].undo \in 1 .. 3
         /\ reply[p] # "lost"
         /\ reply[p] # "unrestored" =>
              \A old \in run[p].before :
                /\ run[p].undo >= 2 => files.cert = old.cert
                /\ run[p].undo = 3 => files.key = old.key

IInv == TypeOK /\ Held /\ Purpose /\ InHand /\ Booked /\ Paired /\ Undoing
-----------------------------------------------------------------------------
(* The locals of the processes.                                            *)

\* A process that changes its locals leaves those of the others alone.
LEMMA Locals ==
  ASSUME run \in [Procs -> Run], NEW p \in Procs, NEW r \in Run, Becomes(p, r)
  PROVE  /\ run' \in [Procs -> Run]
         /\ run'[p] = r
         /\ \A q \in Procs \ {p} : run'[q] = run[q]
  BY DEF Becomes

\* What renew::apply changes, and what it leaves.
LEMMA ApplyTyped ==
  ASSUME NEW settings \in Tls, NEW asked \in Asked
  PROVE  /\ Apply(settings, asked) \in Tls
         /\ settings.source = "manual" =>
              /\ Apply(settings, asked).source = "acme" /\ Apply(settings, asked).path = "own"
              /\ Apply(settings, asked).account = 0 /\ Apply(settings, asked).issued = 0
         /\ settings.source = "acme" =>
              /\ Apply(settings, asked).source = "acme"
              /\ Apply(settings, asked).path = settings.path
              /\ Apply(settings, asked).account = settings.account
              /\ Apply(settings, asked).issued = settings.issued
              /\ asked.ca \in {"none", settings.directory} =>
                   Apply(settings, asked).directory = settings.directory
<1>1. CASE settings.source = "manual"
  BY <1>1, CAsAssumption DEF Apply, Tls, Asked
<1>2. CASE settings.source = "acme"
  BY <1>2, CAsAssumption DEF Apply, Tls, Asked
<1> QED
  BY <1>1, <1>2 DEF Tls

\* The changes the actions make to one process's locals leave them locals.
LEMMA RunMoves ==
  ASSUME NEW r \in Run, NEW pc \in Pcs
  PROVE  /\ [r EXCEPT !.pc = pc] \in Run
         /\ \A undo \in 0 .. 3 : [r EXCEPT !.pc = pc, !.undo = undo] \in Run
         /\ \A undo \in 0 .. 3 : [r EXCEPT !.undo = undo] \in Run
         /\ \A a \in Nat : [r EXCEPT !.pc = pc, !.signed = a] \in Run
         /\ \A a \in Nat : [r EXCEPT !.pc = pc, !.signed = a, !.fresh = a] \in Run
         /\ \A c \in Nat : [r EXCEPT !.pc = pc, !.got = c] \in Run
         /\ \A c \in Nat : [r EXCEPT !.pc = pc, !.backup = c] \in Run
<1>1. [r EXCEPT !.pc = pc] \in Run
  BY DEF Run
<1>2. ASSUME NEW undo \in 0 .. 3
      PROVE  [r EXCEPT !.pc = pc, !.undo = undo] \in Run /\ [r EXCEPT !.undo = undo] \in Run
  BY DEF Run
<1>3. ASSUME NEW a \in Nat PROVE [r EXCEPT !.pc = pc, !.signed = a] \in Run
  BY DEF Run
<1>4. ASSUME NEW a \in Nat PROVE [r EXCEPT !.pc = pc, !.signed = a, !.fresh = a] \in Run
  BY DEF Run
<1>5. ASSUME NEW c \in Nat
      PROVE  [r EXCEPT !.pc = pc, !.got = c] \in Run /\ [r EXCEPT !.pc = pc, !.backup = c] \in Run
  BY DEF Run
<1> QED
  BY <1>1, <1>2, <1>3, <1>4, <1>5

\* Taking the lock hands the settings read under it to the process.
LEMMA RunReads ==
  ASSUME NEW r \in Run, NEW pc \in Pcs, NEW seen \in Tls, NEW wanted \in Tls,
         NEW before \in SUBSET Files
  PROVE  /\ [r EXCEPT !.pc = pc, !.seen = seen, !.wanted = wanted] \in Run
         /\ [r EXCEPT !.pc = pc, !.wanted = wanted, !.before = before] \in Run
<1>1. [r EXCEPT !.pc = pc, !.seen = seen, !.wanted = wanted] \in Run
  BY DEF Run
<1>2. [r EXCEPT !.pc = pc, !.wanted = wanted, !.before = before] \in Run
  BY DEF Run
<1> QED
  BY <1>1, <1>2

\* A command typed starts from nothing but its flags and the settings it read.
LEMMA RunTypes ==
  ASSUME NEW r \in Run, NEW pc \in Pcs, NEW asked \in Asked, NEW seen \in Tls
  PROVE  [r EXCEPT !.pc = pc, !.asked = asked, !.seen = seen] \in Run
  BY DEF Run

\* What TypeOK says of a process and of the files, without the rest.
LEMMA TypedParts ==
  ASSUME TypeOK
  PROVE  /\ run \in [Procs -> Run] /\ tls \in Tls /\ files \in Files
         /\ files.account \in Nat /\ files.key \in Nat /\ files.cert \in Nat
         /\ Len(accounts) + 1 \in Nat /\ Len(certs) + 1 \in Nat
<1>1. /\ run \in [Procs -> Run] /\ tls \in Tls /\ files \in Files
      /\ accounts \in Seq(Registered) /\ certs \in Seq(CAs)
  BY DEF TypeOK
<1>2. files.account \in Nat /\ files.key \in Nat /\ files.cert \in Nat
  BY <1>1 DEF Files
<1>3. Len(accounts) \in Nat /\ Len(certs) \in Nat
  BY <1>1
<1> QED
  BY <1>1, <1>2, <1>3

\* Idle locals are locals.
LEMMA IdleTyped == Idle \in Run
<1>1. NoFlags \in Asked
  BY DEF NoFlags, Asked
<1>2. Manual \in Tls
  BY DEF Manual, Tls
<1> QED
  BY <1>1, <1>2 DEF Idle, Run, Pcs

\* The values of each process's locals stay what the type says.
LEMMA RunTyped ==
  ASSUME TypeOK, Next
  PROVE  run' \in [Procs -> Run]
<1>0. /\ run \in [Procs -> Run] /\ tls \in Tls /\ files \in Files
      /\ files.account \in Nat /\ files.key \in Nat /\ files.cert \in Nat
      /\ Len(accounts) + 1 \in Nat /\ Len(certs) + 1 \in Nat
  BY TypedParts
<1>1. Idle \in Run
  BY IdleTyped
<1>2. ASSUME NEW p \in Procs, NEW pc \in Pcs PROVE [run[p] EXCEPT !.pc = pc] \in Run
  BY <1>0, RunMoves
<1>3. ASSUME NEW p \in Procs, NEW answer, Return(p, answer) PROVE run' \in [Procs -> Run]
  BY <1>0, <1>1, <1>3, Locals DEF Return
<1>4. ASSUME NEW p \in Procs, NEW from, NEW to \in Pcs, Goto(p, from, to)
      PROVE  run' \in [Procs -> Run]
  BY <1>0, <1>2, <1>4, Locals DEF Goto
<1>5. ASSUME NEW p \in Procs, NEW from, NEW answer, Fails(p, from, answer)
      PROVE  run' \in [Procs -> Run]
  <2>1. [run[p] EXCEPT !.pc = "undo", !.undo = 1] \in Run
    <3>1. 1 \in 0 .. 3 /\ "undo" \in Pcs
      BY DEF Pcs
    <3> QED
      BY <1>0, <3>1, RunMoves
  <2> QED
    BY <1>0, <1>3, <1>5, <2>1, Locals DEF Fails
<1>6. ASSUME NEW p \in Procs, NEW answer, Undone(p, answer), run[p].pc = "undo"
      PROVE  run' \in [Procs -> Run]
  <2>1. ASSUME run[p].undo < Len(Watched) PROVE [run[p] EXCEPT !.undo = @ + 1] \in Run
    <3>1. run[p].undo + 1 \in 0 .. 3
      <4>1. Len(Watched) = 3
        BY DEF Watched
      <4>2. run[p].undo \in 0 .. 3
        BY <1>0 DEF Run
      <4> QED
        BY <2>1, <4>1, <4>2
    <3>2. "undo" \in Pcs
      BY DEF Pcs
    <3>3. [run[p] EXCEPT !.undo = run[p].undo + 1] \in Run
      BY <1>0, <3>1, <3>2, RunMoves
    <3> QED
      BY <3>3
  <2> QED
    BY <1>0, <1>3, <1>6, <2>1, Locals DEF Undone
<1>7. ASSUME NEW p \in Procs, Lock(p) PROVE run' \in [Procs -> Run]
  <2>0. "sign_in" \in Pcs
    BY DEF Pcs
  <2>1. [run[p] EXCEPT !.pc = "sign_in", !.seen = tls, !.wanted = tls] \in Run
    BY <1>0, <2>0, RunReads
  <2> QED
    BY <1>0, <1>7, <2>1, Locals DEF Lock
<1>8. ASSUME NEW p \in Procs, Register(p) PROVE run' \in [Procs -> Run]
  <2>0. "order" \in Pcs
    BY DEF Pcs
  <2>1. [run[p] EXCEPT !.pc = "order", !.signed = Len(accounts) + 1,
                       !.fresh = Len(accounts) + 1] \in Run
    BY <1>0, <2>0, RunMoves
  <2> QED
    BY <1>0, <1>8, <2>1, Locals DEF Register
<1>9. ASSUME NEW p \in Procs, SignIn(p) PROVE run' \in [Procs -> Run]
  <2>0. "order" \in Pcs
    BY DEF Pcs
  <2>1. [run[p] EXCEPT !.pc = "order", !.signed = files.account] \in Run
    BY <1>0, <2>0, RunMoves
  <2> QED
    BY <1>0, <1>9, <2>1, Locals DEF SignIn
<1>10. ASSUME NEW p \in Procs, Order(p) PROVE run' \in [Procs -> Run]
  <2>0. "account" \in Pcs
    BY DEF Pcs
  <2>1. [run[p] EXCEPT !.pc = "account", !.got = Len(certs) + 1] \in Run
    BY <1>0, <2>0, RunMoves
  <2> QED
    BY <1>0, <1>10, <2>1, Locals DEF Order
<1>11. ASSUME NEW p \in Procs, SaveKey(p) PROVE run' \in [Procs -> Run]
  <2>0. "cert" \in Pcs
    BY DEF Pcs
  <2>1. [run[p] EXCEPT !.pc = "cert", !.backup = files.key] \in Run
    BY <1>0, <2>0, RunMoves
  <2> QED
    BY <1>0, <1>11, <2>1, Locals DEF SaveKey
<1>12. ASSUME NEW k \in Clis, Type(k) PROVE run' \in [Procs -> Run]
  <2>1. PICK asked \in Asked :
          Becomes(k, [Idle EXCEPT !.pc = "try", !.asked = asked, !.seen = tls])
    BY <1>12 DEF Type
  <2>2. "try" \in Pcs
    BY DEF Pcs
  <2>3. [Idle EXCEPT !.pc = "try", !.asked = asked, !.seen = tls] \in Run
    BY <1>0, <1>1, <2>2, RunTypes
  <2> QED
    BY <1>0, <2>1, <2>3, Locals DEF Procs
<1>13. ASSUME NEW p \in Procs, LockForCommand(p) PROVE run' \in [Procs -> Run]
  <2> DEFINE orders == Plan(run[p].seen, run[p].asked) = "reissue"
  <2> DEFINE pc == IF orders THEN "sign_in" ELSE "record"
  <2> DEFINE before == IF orders THEN {files} ELSE {}
  <2>1. Apply(run[p].seen, run[p].asked) \in Tls
    BY <1>0, ApplyTyped DEF Run
  <2>2. pc \in Pcs /\ before \in SUBSET Files
    BY <1>0 DEF Pcs
  <2>3. [run[p] EXCEPT !.pc = pc,
                       !.wanted = Apply(run[p].seen, run[p].asked),
                       !.before = before] \in Run
    <3> HIDE DEF pc, before
    <3> QED
      BY <1>0, <2>1, <2>2, RunReads
  <2> QED
    BY <1>0, <1>13, <2>3, Locals DEF LockForCommand
<1>14. ASSUME NEW p \in Procs, Work(p) PROVE run' \in [Procs -> Run]
  <2>1. CASE Lock(p) \/ LockForCommand(p) \/ Register(p) \/ SignIn(p) \/ Order(p) \/ SaveKey(p)
    BY <1>7, <1>8, <1>9, <1>10, <1>11, <1>13, <2>1
  <2>2. CASE Busy(p) \/ NotOurs(p) \/ Present(p)
    BY <1>3, <2>2 DEF Busy, NotOurs, Present
  <2>3. CASE WrongAccount(p) \/ CaRefuses(p) \/ CaLimits(p) \/ WriteFails(p) \/ RenameFails(p)
             \/ Moved(p)
    BY <1>5, <2>3
       DEF WrongAccount, CaRefuses, CaLimits, WriteFails, RenameFails, Moved
  <2>4. CASE KeepAccount(p) \/ SaveCert(p)
    BY <1>4, <2>4 DEF KeepAccount, SaveCert, Pcs
  <2>5. CASE Commit(p)
    BY <1>3, <1>4, <2>5 DEF Commit, Pcs
  <2>6. CASE PutBack(p) \/ PutBackFails(p)
    BY <1>6, <2>6 DEF PutBack, PutBackFails
  <2> QED
    BY <1>14, <2>1, <2>2, <2>3, <2>4, <2>5, <2>6 DEF Work
<1>15. ASSUME NEW p \in Procs, Kill(p) PROVE run' \in [Procs -> Run]
  BY <1>0, <1>1, <1>15, Locals DEF Kill
<1>16. ASSUME Tick PROVE run' \in [Procs -> Run]
  BY <1>0, <1>4, <1>16 DEF Tick, Procs, Pcs
<1> QED
  BY <1>0, <1>12, <1>14, <1>15, <1>16
     DEF Next, Crash, Interrupt, Start, EditToManual, LoseAccount, Certbot, Procs

-----------------------------------------------------------------------------
(* What each step does, without the records: the locals of p that change,  *)
(* those that do not, and the rest of the state.                           *)

\* p alone takes the step.
Others(p) == \A q \in Procs \ {p} : run'[q] = run[q] /\ reply'[q] = reply[q]

Same(p, field) == run'[p][field] = run[p][field]

SameSettings(p) == Same(p, "asked") /\ Same(p, "seen") /\ Same(p, "wanted")
SameResult(p) == Same(p, "signed") /\ Same(p, "fresh") /\ Same(p, "got")
SameFiles(p) == Same(p, "backup") /\ Same(p, "before") /\ Same(p, "undo")

\* A turn of the loop at most starts a run of the renewal task.
LEMMA TickEffect ==
  ASSUME TypeOK, Tick
  PROVE  /\ \/ UNCHANGED run
            \/ /\ run[Timer].pc = "idle"
               /\ run'[Timer].pc = "try"
               /\ Others(Timer) /\ SameSettings(Timer) /\ SameResult(Timer) /\ SameFiles(Timer)
         /\ UNCHANGED <<tls, files, issuing, reply, certs, accounts, reported>>
  BY DEF TypeOK, Tick, Goto, Becomes, Run, Procs, Others, Same, SameSettings,
     SameResult,
         SameFiles

\* The settings of a certificate somebody supplied.
LEMMA ManualTyped ==
  /\ Manual \in Tls /\ Manual.source = "manual" /\ Manual.path = "theirs"
  /\ Manual.account = 0 /\ Manual.issued = 0
  BY DEF Manual, Tls

\* Steps of no run: a restart, and changes made by other hands.
ByOthers == Start \/ EditToManual \/ LoseAccount \/ Certbot

\* Restarts and changes by other hands leave the runs and the pair alone.
LEMMA OutsideEffect ==
  ASSUME TypeOK, ByOthers
  PROVE  /\ \/ tls' = tls
            \/ /\ tls' \in Tls /\ tls'.source = "manual" /\ tls'.path = "theirs"
               /\ tls'.account = 0 /\ tls'.issued = 0
         /\ files' \in Files /\ files'.account \in {files.account, 0}
         /\ files'.key = files.key /\ files'.cert = files.cert
         /\ UNCHANGED <<issuing, run, reply, certs, accounts, reported>>
<1>1. files \in Files
  BY DEF TypeOK
<1> QED
  BY <1>1, ManualTyped DEF ByOthers, Start, EditToManual, LoseAccount, Certbot, Files

\* A command typed starts from the settings it read.
LEMMA TypeEffect ==
  ASSUME TypeOK, NEW k \in Clis, Type(k)
  PROVE  /\ run[k].pc = "idle" /\ run'[k].pc = "try"
         /\ Plan(run'[k].seen, run'[k].asked) \in {"reissue", "settings"}
         /\ run'[k].signed = 0 /\ run'[k].fresh = 0 /\ run'[k].got = 0 /\ run'[k].before = {}
         /\ Others(k)
         /\ UNCHANGED <<tls, files, issuing, reply, certs, accounts, reported>>
<1>1. PICK asked \in Asked :
        /\ Plan(tls, asked) \in {"reissue", "settings"}
        /\ Becomes(k, [Idle EXCEPT !.pc = "try", !.asked = asked, !.seen = tls])
  BY DEF Type
<1>2. /\ run'[k].pc = "try" /\ run'[k].asked = asked /\ run'[k].seen = tls
      /\ run'[k].signed = 0 /\ run'[k].fresh = 0 /\ run'[k].got = 0 /\ run'[k].before = {}
      /\ \A q \in Procs \ {k} : run'[q] = run[q]
  BY <1>1 DEF TypeOK, Becomes, Idle, Procs
<1> QED
  BY <1>1, <1>2 DEF Type, Others

\* A kill empties the locals; between the renames, it is history.
LEMMA KillEffect ==
  ASSUME TypeOK, NEW p \in Procs, Kill(p)
  PROVE  /\ run'[p] = Idle
         /\ Others(p)
         /\ issuing' = issuing \ {p}
         /\ reported \/ run[p].pc \in {"cert", "undo"} => reported'
         /\ reported' \in BOOLEAN
         /\ run[p].pc # "idle" => reply'[p] = "lost"
         /\ UNCHANGED <<tls, files, certs, accounts>>
<1>1. /\ run'[p] = Idle /\ Others(p) /\ issuing' = issuing \ {p}
      /\ run[p].pc # "idle" => reply'[p] = "lost"
      /\ UNCHANGED <<tls, files, certs, accounts>>
  BY DEF TypeOK, Kill, Becomes, Others
<1>2. reported' = (reported \/ run[p].pc \in {"cert", "undo"})
  BY DEF Kill
<1> QED
  BY <1>1, <1>2

\* The end of a run.
LEMMA ReturnEffect ==
  ASSUME TypeOK, NEW p \in Procs, NEW answer, Return(p, answer)
  PROVE  /\ run'[p] = Idle
         /\ Others(p)
         /\ issuing' = issuing \ {p}
         /\ reply'[p] = answer
  BY DEF TypeOK, Return, Becomes, Others

\* The renewal task takes the free lock and reads the settings.
LEMMA LockEffect ==
  ASSUME TypeOK, NEW p \in Procs, Lock(p)
  PROVE  /\ p = Timer /\ run[p].pc = "try" /\ run'[p].pc = "sign_in"
         /\ run'[p].seen = tls /\ run'[p].wanted = tls
         /\ Others(p) /\ Same(p, "asked") /\ SameResult(p) /\ SameFiles(p)
         /\ issuing = {} /\ issuing' = {p}
         /\ UNCHANGED <<tls, files, reply, certs, accounts, reported>>
  BY DEF TypeOK, Lock, Becomes, Run, Others, Same, SameResult, SameFiles

\* `server renew` takes the free lock with the settings it has.
LEMMA CommandEffect ==
  ASSUME TypeOK, NEW k \in Procs, LockForCommand(k)
  PROVE  /\ k \in Clis /\ run[k].pc = "try"
         /\ \/ /\ Plan(run[k].seen, run[k].asked) = "reissue"
               /\ run'[k].pc = "sign_in" /\ run'[k].before = {files}
            \/ /\ Plan(run[k].seen, run[k].asked) # "reissue"
               /\ run'[k].pc = "record" /\ run'[k].before = {}
         /\ run'[k].wanted = Apply(run[k].seen, run[k].asked)
         /\ Others(k) /\ Same(k, "asked") /\ Same(k, "seen") /\ SameResult(k)
         /\ Same(k, "backup") /\ Same(k, "undo")
         /\ issuing = {} /\ issuing' = {k}
         /\ UNCHANGED <<tls, files, reply, certs, accounts, reported>>
  BY DEF TypeOK, LockForCommand, Becomes, Run, Others, Same, SameResult

\* A new account, at the CA of the wanted settings.
LEMMA RegisterEffect ==
  ASSUME TypeOK, NEW p \in Procs, Register(p)
  PROVE  /\ run[p].pc = "sign_in" /\ run'[p].pc = "order"
         /\ run[p].wanted.source = "acme"
         /\ run'[p].signed = Len(accounts) + 1 /\ run'[p].fresh = Len(accounts) + 1
         /\ Len(accounts') = Len(accounts) + 1
         /\ accounts'[Len(accounts) + 1].ca = run[p].wanted.directory
         /\ \A a \in 1 .. Len(accounts) : accounts'[a].ca = accounts[a].ca
         /\ accounts' \in Seq(Registered)
         /\ Others(p) /\ SameSettings(p) /\ Same(p, "got") /\ SameFiles(p)
         /\ UNCHANGED <<tls, files, issuing, reply, certs, reported>>
<1> DEFINE new == [ca |-> run[p].wanted.directory, contact |-> run[p].wanted.contact]
<1>1. /\ run[p].pc = "sign_in" /\ run'[p].pc = "order"
      /\ run[p].wanted.source = "acme"
      /\ run'[p].signed = Len(accounts) + 1 /\ run'[p].fresh = Len(accounts) + 1
      /\ Others(p) /\ SameSettings(p) /\ Same(p, "got") /\ SameFiles(p)
      /\ UNCHANGED <<tls, files, issuing, reply, certs, reported>>
  BY DEF TypeOK, Register, Becomes, Run, Others, Same, SameSettings, SameFiles
<1>2. new \in Registered /\ new.ca = run[p].wanted.directory
  BY DEF TypeOK, Register, Run, Tls, Registered
<1>3. accounts \in Seq(Registered)
  BY DEF TypeOK, Registered
<1>4. accounts' = Append(accounts, new)
  BY DEF Register
<1> HIDE DEF new
<1>5. /\ Len(accounts') = Len(accounts) + 1
      /\ accounts'[Len(accounts) + 1] = new
      /\ \A a \in 1 .. Len(accounts) : accounts'[a] = accounts[a]
      /\ accounts' \in Seq(Registered)
  BY <1>2, <1>3, <1>4
<1> QED
  BY <1>1, <1>2, <1>5

\* An account on file, found to be of the CA of the wanted settings.
LEMMA SignInEffect ==
  ASSUME TypeOK, NEW p \in Procs, SignIn(p)
  PROVE  /\ run[p].pc = "sign_in" /\ run'[p].pc = "order"
         /\ run[p].wanted.source = "acme"
         /\ run'[p].signed = files.account /\ files.account # 0
         /\ accounts'[files.account].ca = run[p].wanted.directory
         /\ Others(p) /\ SameSettings(p) /\ Same(p, "fresh") /\ Same(p, "got") /\ SameFiles(p)
         /\ UNCHANGED <<tls, files, issuing, reply, certs, reported>>
         /\ Len(accounts') = Len(accounts)
         /\ \A a \in 1 .. Len(accounts) : accounts'[a].ca = accounts[a].ca
         /\ accounts' \in Seq(Registered)
<1>1. files.account # 0
  BY DEF SignIn, Account, Registration
<1>2. /\ Len(accounts') = Len(accounts)
      /\ \A a \in 1 .. Len(accounts) : accounts'[a].ca = accounts[a].ca
      /\ accounts' \in Seq(Registered)
  <2>1. CASE accounts' = accounts
    <3>1. accounts \in Seq(Registered)
      BY DEF TypeOK
    <3>2. accounts' \in Seq(Registered)
      BY <2>1, <3>1, Zenon
    <3>3. Len(accounts') = Len(accounts)
      BY <2>1, Zenon
    <3>4. ASSUME NEW a \in 1 .. Len(accounts) PROVE accounts'[a].ca = accounts[a].ca
      BY <2>1, Zenon
    <3> QED
      BY <3>2, <3>3, <3>4, Zenon
  <2>2. CASE accounts' = [accounts EXCEPT ![files.account].contact = run[p].wanted.contact]
    <3>1. run[p].wanted.contact \in Contacts \cup {"none"} /\ files.account \in 1 .. Len(accounts)
      <4>1. /\ run[p] \in Run /\ files.account \in 0 .. Len(accounts)
            /\ accounts \in Seq(Registered)
        BY DEF TypeOK
      <4>2. run[p].wanted \in Tls
        BY <4>1 DEF Run
      <4>3. run[p].wanted.contact \in Contacts \cup {"none"}
        BY <4>2 DEF Tls
      <4>4. Len(accounts) \in Nat
        BY <4>1
      <4>5. files.account \in 1 .. Len(accounts)
        BY <1>1, <4>1, <4>4
      <4> QED
        BY <4>3, <4>5
    <3> DEFINE updated == [accounts[files.account] EXCEPT !.contact = run[p].wanted.contact]
    <3>2. accounts[files.account] \in Registered
      BY <3>1 DEF TypeOK
    <3>3. /\ updated \in Registered
          /\ updated.ca = accounts[files.account].ca
      BY <3>1, <3>2 DEF Registered
    <3>4. accounts' = [accounts EXCEPT ![files.account] = updated]
      BY <2>2
    <3>5. accounts \in Seq(Registered)
      BY DEF TypeOK
    <3> HIDE DEF updated
    <3> QED
      BY <3>1, <3>3, <3>4, <3>5, ExceptSeq
  <2> QED
    BY <2>1, <2>2 DEF SignIn
<1>3. /\ run'[p].pc = "order" /\ run'[p].signed = files.account
      /\ Others(p) /\ SameSettings(p) /\ Same(p, "fresh") /\ Same(p, "got") /\ SameFiles(p)
  BY DEF TypeOK, SignIn, Becomes, Run, Others, Same, SameSettings, SameFiles
<1>4. files.account \in 1 .. Len(accounts)
  BY <1>1 DEF TypeOK, Files
<1>5. accounts[files.account].ca = run[p].wanted.directory
  BY DEF SignIn, BelongsTo
<1> QED
  BY <1>1, <1>2, <1>3, <1>4, <1>5 DEF SignIn

\* A new certificate, of the CA of the account.
LEMMA OrderEffect ==
  ASSUME TypeOK, InHand, NEW p \in Procs, Order(p)
  PROVE  /\ run[p].pc = "order" /\ run'[p].pc = "account"
         /\ run'[p].got = Len(certs) + 1
         /\ Len(certs') = Len(certs) + 1
         /\ certs'[Len(certs) + 1] = accounts[run[p].signed].ca
         /\ \A c \in 1 .. Len(certs) : certs'[c] = certs[c]
         /\ certs' \in Seq(CAs)
         /\ Others(p) /\ SameSettings(p) /\ Same(p, "signed") /\ Same(p, "fresh") /\ SameFiles(p)
         /\ UNCHANGED <<tls, files, issuing, reply, accounts, reported>>
<1>1. run[p].signed \in 1 .. Len(accounts)
  BY DEF TypeOK, Run, InHand, Ordering, Order
<1>2. accounts[run[p].signed] \in Registered /\ certs \in Seq(CAs)
  BY <1>1 DEF TypeOK
<1>3. accounts[run[p].signed].ca \in CAs
  BY <1>2 DEF Registered
<1>4. certs' = Append(certs, accounts[run[p].signed].ca)
  BY DEF Order
<1>5. /\ Len(certs') = Len(certs) + 1
      /\ certs'[Len(certs) + 1] = accounts[run[p].signed].ca
      /\ \A c \in 1 .. Len(certs) : certs'[c] = certs[c]
      /\ certs' \in Seq(CAs)
  BY <1>2, <1>3, <1>4
<1>6. /\ run'[p].got = Len(certs) + 1
      /\ run'[p].pc = "account"
      /\ Others(p) /\ SameSettings(p) /\ Same(p, "signed") /\ Same(p, "fresh") /\ SameFiles(p)
  BY DEF TypeOK, Order, Becomes, Run, Others, Same, SameSettings, SameFiles
<1> QED
  BY <1>5, <1>6 DEF Order

\* Moving on changes no local but where the process is.
LEMMA GotoEffect ==
  ASSUME TypeOK, NEW p \in Procs, NEW from, NEW to \in Pcs, Goto(p, from, to), reply' = reply
  PROVE  /\ run[p].pc = from /\ run'[p].pc = to
         /\ Others(p) /\ SameSettings(p) /\ SameResult(p) /\ SameFiles(p)
<1>1. run \in [Procs -> Run] /\ run[p] \in Run
  BY DEF TypeOK
<1>2. run[p].pc = from /\ run' = [run EXCEPT ![p] = [run[p] EXCEPT !.pc = to]]
  BY DEF Goto, Becomes
<1>3. run'[p] = [run[p] EXCEPT !.pc = to] /\ \A q \in Procs \ {p} : run'[q] = run[q]
  BY <1>1, <1>2
<1>4. run'[p].pc = to
  BY <1>1, <1>3 DEF Run
<1>5. SameSettings(p)
  BY <1>1, <1>3 DEF Run, SameSettings, Same
<1>6. SameResult(p)
  BY <1>1, <1>3 DEF Run, SameResult, Same
<1>7. SameFiles(p)
  BY <1>1, <1>3 DEF Run, SameFiles, Same
<1> QED
  BY <1>2, <1>3, <1>4, <1>5, <1>6, <1>7 DEF Others

\* One file written, the others as they were.
LEMMA OneFile ==
  ASSUME files \in Files, NEW c \in Nat
  PROVE  /\ /\ [files EXCEPT !.account = c] \in Files /\ [files EXCEPT !.account = c].account = c
            /\ [files EXCEPT !.account = c].key = files.key
            /\ [files EXCEPT !.account = c].cert = files.cert
         /\ /\ [files EXCEPT !.key = c] \in Files /\ [files EXCEPT !.key = c].key = c
            /\ [files EXCEPT !.key = c].account = files.account
            /\ [files EXCEPT !.key = c].cert = files.cert
         /\ /\ [files EXCEPT !.cert = c] \in Files /\ [files EXCEPT !.cert = c].cert = c
            /\ [files EXCEPT !.cert = c].key = files.key
            /\ [files EXCEPT !.cert = c].account = files.account
  BY DEF Files

\* At most the account file changes.
LEMMA KeepAccountEffect ==
  ASSUME TypeOK, NEW p \in Procs, KeepAccount(p)
  PROVE  /\ run[p].pc = "account" /\ run'[p].pc = "key"
         /\ files' \in Files /\ files'.account \in {files.account, run[p].fresh}
         /\ files'.key = files.key /\ files'.cert = files.cert
         /\ Others(p) /\ SameSettings(p) /\ SameResult(p) /\ SameFiles(p)
         /\ UNCHANGED <<tls, issuing, reply, certs, accounts, reported>>
<1>1. /\ Goto(p, "account", "key")
      /\ files' = IF run[p].fresh = 0 THEN files ELSE [files EXCEPT !.account = run[p].fresh]
      /\ UNCHANGED <<tls, issuing, reply, certs, accounts, reported>>
  BY DEF KeepAccount
<1>2. files \in Files /\ run[p].fresh \in Nat /\ "key" \in Pcs
  BY DEF TypeOK, Run, Pcs
<1>3. /\ files' \in Files /\ files'.account \in {files.account, run[p].fresh}
      /\ files'.key = files.key /\ files'.cert = files.cert
  BY <1>1, <1>2, OneFile
<1> QED
  BY <1>1, <1>2, <1>3, GotoEffect

\* Only the key changes.
LEMMA SaveKeyEffect ==
  ASSUME TypeOK, NEW p \in Procs, SaveKey(p)
  PROVE  /\ run[p].pc = "key" /\ run'[p].pc = "cert"
         /\ run'[p].backup = files.key
         /\ files' \in Files /\ files'.account = files.account
         /\ files'.key = run[p].got /\ files'.cert = files.cert
         /\ Others(p) /\ SameSettings(p) /\ SameResult(p) /\ Same(p, "before") /\ Same(p, "undo")
         /\ UNCHANGED <<tls, issuing, reply, certs, accounts, reported>>
<1>1. /\ run[p].pc = "key" /\ files' = [files EXCEPT !.key = run[p].got]
      /\ run' = [run EXCEPT ![p] = [run[p] EXCEPT !.pc = "cert", !.backup = files.key]]
      /\ UNCHANGED <<tls, issuing, reply, certs, accounts, reported>>
  BY DEF SaveKey, Becomes
<1>2. files \in Files /\ run \in [Procs -> Run] /\ run[p] \in Run
  BY DEF TypeOK
<1>3. /\ files' \in Files /\ files'.account = files.account
      /\ files'.key = run[p].got /\ files'.cert = files.cert
  <2>1. run[p].got \in Nat
    BY <1>2 DEF Run
  <2> QED
    BY <1>1, <1>2, <2>1, OneFile
<1>4. /\ run'[p] = [run[p] EXCEPT !.pc = "cert", !.backup = files.key]
      /\ \A q \in Procs \ {p} : run'[q] = run[q]
  BY <1>1, <1>2
<1>5. run'[p].pc = "cert" /\ run'[p].backup = files.key
  BY <1>2, <1>4 DEF Run
<1>6. SameSettings(p) /\ SameResult(p)
  BY <1>2, <1>4 DEF Run, SameSettings, SameResult, Same
<1>7. Same(p, "before") /\ Same(p, "undo")
  BY <1>2, <1>4 DEF Run, Same
<1> QED
  BY <1>1, <1>3, <1>4, <1>5, <1>6, <1>7 DEF Others

\* Only the certificate changes.
LEMMA SaveCertEffect ==
  ASSUME TypeOK, NEW p \in Procs, SaveCert(p)
  PROVE  /\ run[p].pc = "cert" /\ run'[p].pc = "record"
         /\ files' \in Files /\ files'.account = files.account
         /\ files'.key = files.key /\ files'.cert = run[p].got
         /\ Others(p) /\ SameSettings(p) /\ SameResult(p) /\ SameFiles(p)
         /\ UNCHANGED <<tls, issuing, reply, certs, accounts, reported>>
<1>1. /\ Goto(p, "cert", "record") /\ files' = [files EXCEPT !.cert = run[p].got]
      /\ UNCHANGED <<tls, issuing, reply, certs, accounts, reported>>
  BY DEF SaveCert
<1>2. files \in Files /\ run[p].got \in Nat /\ "record" \in Pcs
  BY DEF TypeOK, Run, Pcs
<1>3. /\ files' \in Files /\ files'.account = files.account
      /\ files'.key = files.key /\ files'.cert = run[p].got
  BY <1>1, <1>2, OneFile
<1> QED
  BY <1>1, <1>2, <1>3, GotoEffect

-----------------------------------------------------------------------------
(* The ways a run ends.                                                    *)

\* A run that changes nothing but the listener.
Returning(p) == Busy(p) \/ NotOurs(p) \/ Present(p)

\* They leave the files and the settings alone.
LEMMA ReturningEffect ==
  ASSUME TypeOK, NEW p \in Procs, Returning(p)
  PROVE  /\ run[p].pc \in {"try", "sign_in", "present"}
         /\ run'[p] = Idle
         /\ Others(p)
         /\ issuing' = issuing \ {p}
         /\ UNCHANGED <<tls, files, certs, accounts, reported>>
  BY ReturnEffect DEF Returning, Busy, NotOurs, Present

\* The ways to fail without a warning.
Errors == Answers \ {"lost", "unrestored"}

\* A run that has replaced nothing just ends.
GivesUp(p) == \E answer \in Errors : Return(p, answer)

\* One that may have starts to put the files back.
RollsBack(p) ==
  /\ run[p].before # {}
  /\ Becomes(p, [run[p] EXCEPT !.pc = "undo", !.undo = 1])
  /\ \E answer \in Errors : reply' = [reply EXCEPT ![p] = answer]
  /\ UNCHANGED issuing

\* The end of a run that failed.
LEMMA GivesUpEffect ==
  ASSUME TypeOK, NEW p \in Procs, GivesUp(p)
  PROVE  /\ run'[p] = Idle
         /\ Others(p)
         /\ issuing' = issuing \ {p}
  BY ReturnEffect DEF GivesUp

\* The files to put back are kept.
LEMMA RollsBackEffect ==
  ASSUME TypeOK, NEW p \in Procs, RollsBack(p)
  PROVE  /\ run'[p].pc = "undo" /\ run'[p].undo = 1 /\ run[p].before # {}
         /\ reply'[p] \in Errors
         /\ Others(p) /\ SameSettings(p) /\ SameResult(p) /\ Same(p, "backup") /\ Same(p, "before")
         /\ UNCHANGED issuing
<1>1. /\ run'[p].pc = "undo" /\ run'[p].undo = 1
      /\ SameSettings(p) /\ SameResult(p) /\ Same(p, "backup") /\ Same(p, "before")
      /\ \A q \in Procs \ {p} : run'[q] = run[q]
  BY DEF TypeOK, RollsBack, Becomes, Run, Same, SameSettings, SameResult
<1>2. reply'[p] \in Errors /\ \A q \in Procs \ {p} : reply'[q] = reply[q]
  BY DEF TypeOK, RollsBack
<1> QED
  BY <1>1, <1>2 DEF RollsBack, Others

\* Every failure but that of the second rename.
Failing(p) == WrongAccount(p) \/ CaRefuses(p) \/ CaLimits(p) \/ WriteFails(p) \/ Moved(p)

\* They leave the files alone.
LEMMA Failures ==
  ASSUME NEW p \in Procs, Failing(p)
  PROVE  /\ run[p].pc \in {"sign_in", "order", "account", "key", "record"}
         /\ GivesUp(p) \/ RollsBack(p)
         /\ UNCHANGED <<tls, files, certs, accounts, reported>>
  BY DEF Failing, WrongAccount, CaRefuses, CaLimits, WriteFails, Moved, Fails,
     GivesUp,
         RollsBack, Errors, Answers

\* A failed second rename: the key is back, or it was said.
LEMMA RenameFailures ==
  ASSUME TypeOK, NEW p \in Procs, RenameFails(p)
  PROVE  /\ run[p].pc = "cert"
         /\ GivesUp(p) \/ RollsBack(p)
         /\ files' \in Files /\ files'.account = files.account /\ files'.cert = files.cert
         /\ (reported' = reported /\ files'.key = run[p].backup) \/ reported'
         /\ reported' \in BOOLEAN
         /\ UNCHANGED <<tls, certs, accounts>>
<1>1. /\ files' \in Files /\ files'.account = files.account /\ files'.cert = files.cert
      /\ (reported' = reported /\ files'.key = run[p].backup) \/ reported'
      /\ reported' \in BOOLEAN
  <2>1. files \in Files /\ run[p].backup \in Nat /\ reported \in BOOLEAN
    BY DEF TypeOK, Run
  <2> QED
    BY <2>1 DEF RenameFails, Files
<1> QED
  BY <1>1 DEF RenameFails, Fails, GivesUp, RollsBack, Errors, Answers

\* A commit is that of the renewal task or that of a command.
CommitTimer(p) == Commit(p) /\ p = Timer

\* The renewal task records on the settings it read.
LEMMA CommitTimerEffect ==
  ASSUME TypeOK, NEW p \in Procs, CommitTimer(p)
  PROVE  /\ p = Timer /\ run[p].pc = "record" /\ run'[p].pc = "present"
         /\ tls = run[p].seen
         /\ tls' = IF run[p].got = 0 THEN tls ELSE Record(tls, run[p].got, run[p].signed)
         /\ Others(p) /\ SameSettings(p) /\ SameResult(p) /\ SameFiles(p)
         /\ UNCHANGED <<files, issuing, reply, certs, accounts, reported>>
<1>1. /\ run'[p].pc = "present"
      /\ Others(p) /\ SameSettings(p) /\ SameResult(p) /\ SameFiles(p)
  BY ProcsAssumption
     DEF CommitTimer, TypeOK, Commit, Goto, Becomes, Run, Others, Same,
         SameSettings, SameResult, SameFiles
<1> QED
  BY <1>1, ProcsAssumption DEF CommitTimer, Commit, Unmoved, Settled

CommitCommand(p) == Commit(p) /\ p \in Clis

\* `server renew` records on the settings it read, its flags applied.
LEMMA CommitCommandEffect ==
  ASSUME TypeOK, NEW p \in Procs, CommitCommand(p)
  PROVE  /\ p \in Clis /\ run[p].pc = "record"
         /\ tls = run[p].seen
         /\ tls' = IF run[p].got = 0 THEN Apply(tls, run[p].asked)
                   ELSE Record(Apply(tls, run[p].asked), run[p].got, run[p].signed)
         /\ run'[p] = Idle
         /\ Others(p)
         /\ issuing' = issuing \ {p}
         /\ UNCHANGED <<files, certs, accounts, reported>>
<1>1. Return(p, "ok")
  BY ProcsAssumption DEF CommitCommand, Commit
<1> QED
  BY <1>1, ReturnEffect, ProcsAssumption DEF CommitCommand, Commit, Unmoved, Settled

\* One file of the three is put back, or said to be lost.
Restores(k) ==
  /\ files' \in Files /\ reported' \in BOOLEAN
  /\ \/ /\ \E old \in run[k].before :
             /\ files'.cert = IF run[k].undo = 1 THEN old.cert ELSE files.cert
             /\ files'.key = IF run[k].undo = 2 THEN old.key ELSE files.key
             /\ files'.account = IF run[k].undo = 3 THEN old.account ELSE files.account
        /\ reply'[k] = reply[k] /\ reported' = reported
     \/ files' = files /\ reply'[k] = "unrestored" /\ reported'

\* The file meant is the one `undo` counts.
LEMMA RestoresOne ==
  ASSUME TypeOK, NEW p \in Procs, run[p].undo \in 1 .. 3,
         \/ PutBack(p) /\ reply'[p] = reply[p]
         \/ PutBackFails(p) /\ reply'[p] = "unrestored"
  PROVE  Restores(p)
<1>1. CASE PutBack(p) /\ reply'[p] = reply[p]
  <2>1. PICK old \in run[p].before :
          files' = [files EXCEPT ![Watched[run[p].undo]] = old[Watched[run[p].undo]]]
    BY <1>1 DEF PutBack
  <2>2. files \in Files /\ old \in Files /\ reported \in BOOLEAN
    BY DEF TypeOK, Run
  <2>3. CASE run[p].undo = 1
    <3>1. Watched[run[p].undo] = "cert"
      BY <2>3 DEF Watched
    <3>2. files' = [files EXCEPT !["cert"] = old["cert"]]
      BY <2>1, <3>1, Zenon
    <3> QED
      BY <1>1, <2>2, <2>3, <3>2 DEF PutBack, Restores, Files
  <2>4. CASE run[p].undo = 2
    <3>1. Watched[run[p].undo] = "key"
      BY <2>4 DEF Watched
    <3>2. files' = [files EXCEPT !["key"] = old["key"]]
      BY <2>1, <3>1, Zenon
    <3> QED
      BY <1>1, <2>2, <2>4, <3>2 DEF PutBack, Restores, Files
  <2>5. CASE run[p].undo = 3
    <3>1. Watched[run[p].undo] = "account"
      BY <2>5 DEF Watched
    <3>2. files' = [files EXCEPT !["account"] = old["account"]]
      BY <2>1, <3>1, Zenon
    <3> QED
      BY <1>1, <2>2, <2>5, <3>2 DEF PutBack, Restores, Files
  <2> QED
    BY <2>3, <2>4, <2>5
<1>2. CASE PutBackFails(p) /\ reply'[p] = "unrestored"
  BY <1>2 DEF PutBackFails, Restores, TypeOK
<1> QED
  BY <1>1, <1>2

\* The last file of the three, and one before it.
LastUndone(p) == (PutBack(p) \/ PutBackFails(p)) /\ run[p].undo = Len(Watched)
NextUndone(p) == (PutBack(p) \/ PutBackFails(p)) /\ run[p].undo < Len(Watched)

\* The third file, and the end of the run.
LEMMA LastUndoneEffect ==
  ASSUME TypeOK, NEW p \in Procs, LastUndone(p)
  PROVE  /\ run[p].pc = "undo" /\ run[p].undo = 3
         /\ run'[p] = Idle
         /\ Others(p)
         /\ issuing' = issuing \ {p}
         /\ Restores(p)
         /\ UNCHANGED <<tls, certs, accounts>>
<1>1. run[p].undo = 3 /\ Len(Watched) = 3
  BY DEF LastUndone, Watched
<1>2. CASE PutBack(p)
  <2>1. Return(p, reply[p])
    BY <1>1, <1>2 DEF PutBack, Undone
  <2>2. Restores(p)
    BY <1>1, <1>2, <2>1, ReturnEffect, RestoresOne
  <2> QED
    BY <1>1, <1>2, <2>1, <2>2, ReturnEffect DEF PutBack
<1>3. CASE PutBackFails(p)
  <2>1. Return(p, "unrestored")
    BY <1>1, <1>3 DEF PutBackFails, Undone
  <2> QED
    BY <1>1, <1>3, <2>1, ReturnEffect, RestoresOne DEF PutBackFails
<1> QED
  BY <1>2, <1>3 DEF LastUndone

\* The first or the second.
LEMMA NextUndoneEffect ==
  ASSUME TypeOK, Undoing, NEW p \in Procs, NextUndone(p)
  PROVE  /\ run[p].pc = "undo" /\ run'[p].pc = "undo"
         /\ run[p].undo < 3 /\ run'[p].undo = run[p].undo + 1
         /\ Others(p) /\ SameSettings(p) /\ SameResult(p) /\ Same(p, "backup") /\ Same(p, "before")
         /\ Restores(p)
         /\ UNCHANGED <<tls, issuing, certs, accounts>>
<1>1. run[p].undo < 3 /\ Len(Watched) = 3 /\ run[p].undo \in 1 .. 3
  BY DEF NextUndone, Watched, Undoing, PutBack, PutBackFails
<1>2. ASSUME Becomes(p, [run[p] EXCEPT !.undo = @ + 1])
      PROVE  /\ run'[p].pc = run[p].pc /\ run'[p].undo = run[p].undo + 1
             /\ SameSettings(p) /\ SameResult(p) /\ Same(p, "backup") /\ Same(p, "before")
             /\ \A q \in Procs \ {p} : run'[q] = run[q]
  BY <1>2 DEF TypeOK, Becomes, Run, Same, SameSettings, SameResult
<1>3. ASSUME NEW answer, reply' = [reply EXCEPT ![p] = answer]
      PROVE  reply'[p] = answer /\ \A q \in Procs \ {p} : reply'[q] = reply[q]
  BY <1>3 DEF TypeOK
<1>4. CASE PutBack(p)
  <2>1. /\ Becomes(p, [run[p] EXCEPT !.undo = @ + 1])
        /\ reply' = [reply EXCEPT ![p] = reply[p]] /\ UNCHANGED issuing
    BY <1>1, <1>4 DEF PutBack, Undone, TypeOK, Run
  <2> QED
    BY <1>1, <1>2, <1>3, <1>4, <2>1, RestoresOne DEF PutBack, Others
<1>5. CASE PutBackFails(p)
  <2>1. /\ Becomes(p, [run[p] EXCEPT !.undo = @ + 1])
        /\ reply' = [reply EXCEPT ![p] = "unrestored"] /\ UNCHANGED issuing
    BY <1>1, <1>5 DEF PutBackFails, Undone, TypeOK, Run
  <2> QED
    BY <1>1, <1>2, <1>3, <1>5, <2>1, RestoresOne DEF PutBackFails, Others
<1> QED
  BY <1>4, <1>5 DEF NextUndone

\* Every step is one of these.
LEMMA Steps ==
  ASSUME TypeOK, Next
  PROVE  \/ Tick \/ ByOthers
         \/ \E k \in Clis : Type(k)
         \/ \E p \in Procs :
              \/ Kill(p) \/ Lock(p) \/ LockForCommand(p) \/ Returning(p) \/ Register(p)
              \/ SignIn(p) \/ Order(p) \/ KeepAccount(p) \/ SaveKey(p) \/ SaveCert(p)
              \/ Failing(p) \/ RenameFails(p) \/ CommitTimer(p) \/ CommitCommand(p)
              \/ LastUndone(p) \/ NextUndone(p)
<1>1. ASSUME NEW p \in Procs, PutBack(p) \/ PutBackFails(p) PROVE LastUndone(p) \/ NextUndone(p)
  BY <1>1 DEF LastUndone, NextUndone, PutBack, PutBackFails, Undone
<1>2. ASSUME NEW p \in Procs, Commit(p) PROVE CommitTimer(p) \/ CommitCommand(p)
  BY <1>2 DEF CommitTimer, CommitCommand, Procs
<1> QED
  BY <1>1, <1>2 DEF Next, Work, Returning, Failing, ByOthers, Crash, Interrupt, Procs

-----------------------------------------------------------------------------
(* The steps, under the lock.                                              *)

\* The lock: nobody else is past it.
LEMMA Alone ==
  ASSUME TypeOK, Held, NEW p \in Procs, run[p].pc \in Critical
  PROVE  issuing = {p} /\ \A q \in Procs \ {p} : run[q].pc \notin Critical
  BY DEF TypeOK, Held

\* What acme::record changes, and what it leaves.
LEMMA RecordTyped ==
  ASSUME NEW settings \in Tls, settings.source = "acme", NEW cert \in Nat, NEW account \in Nat
  PROVE  /\ Record(settings, cert, account) \in Tls
         /\ Record(settings, cert, account).source = "acme"
         /\ Record(settings, cert, account).path = "own"
         /\ Record(settings, cert, account).directory = settings.directory
         /\ Record(settings, cert, account).issued = cert
         /\ Record(settings, cert, account).account = account
  BY DEF Record, Tls

\* Recording settings only, the CA stays.
LEMMA PlanSettings ==
  ASSUME NEW settings \in Tls, NEW asked \in Asked, Plan(settings, asked) = "settings"
  PROVE  settings.source = "acme" /\ asked.ca \in {"none", settings.directory}
  BY DEF Plan, Tls

\* Either commit.
Committing(p) == CommitTimer(p) \/ CommitCommand(p)

\* What is recorded is the certificate in hand under the settings it was
\* ordered under, or only the contact changes.
LEMMA Committed ==
  ASSUME TypeOK, Purpose, InHand, NEW p \in Procs, Committing(p)
  PROVE  /\ tls' \in Tls /\ tls'.source = "acme"
         /\ \/ /\ run[p].got = 0
               /\ tls.source = "acme" /\ tls'.path = tls.path
               /\ tls'.directory = tls.directory
               /\ tls'.account = tls.account /\ tls'.issued = tls.issued
            \/ /\ run[p].got # 0
               /\ tls'.path = "own"
               /\ tls'.account = run[p].signed /\ tls'.issued = run[p].got
               /\ accounts[run[p].signed].ca = tls'.directory
               /\ certs[run[p].got] = tls'.directory
<1> USE ProcsAssumption
<1>1. /\ run[p].pc = "record" /\ tls \in Tls /\ run[p].seen = tls /\ run[p].asked \in Asked
      /\ run[p].got \in Nat /\ run[p].signed \in Nat
  BY CommitTimerEffect, CommitCommandEffect DEF Committing, TypeOK, Run
<1>2. CASE p \in Clis /\ run[p].got = 0
  <2>1. tls' = Apply(tls, run[p].asked)
    BY <1>2, CommitCommandEffect DEF Committing, CommitTimer
  <2>2. Plan(tls, run[p].asked) = "settings"
    BY <1>1, <1>2 DEF InHand
  <2> QED
    BY <1>1, <1>2, <2>1, <2>2, PlanSettings, ApplyTyped
<1>3. CASE run[p].got # 0
  <2>1. /\ run[p].wanted.source = "acme"
        /\ accounts[run[p].signed].ca = run[p].wanted.directory
        /\ certs[run[p].got] = run[p].wanted.directory
    BY <1>1, <1>3 DEF InHand
  <2>2. tls' = Record(run[p].wanted, run[p].got, run[p].signed)
    <3>1. CASE p = Timer
      BY <1>1, <1>3, <3>1, CommitTimerEffect
         DEF Committing, CommitCommand, Purpose, Critical, Pcs
    <3>2. CASE p \in Clis
      BY <1>1, <1>3, <3>2, CommitCommandEffect
         DEF Committing, CommitTimer, Purpose, Critical, Pcs
    <3> QED
      BY <3>1, <3>2 DEF Procs
  <2>3. run[p].wanted \in Tls
    BY DEF TypeOK, Run
  <2> DEFINE settings == run[p].wanted
             cert == run[p].got
             account == run[p].signed
             recorded == Record(settings, cert, account)
  <2>4. /\ settings \in Tls /\ settings.source = "acme" /\ cert \in Nat /\ account \in Nat
        /\ cert # 0
        /\ accounts[account].ca = settings.directory
        /\ certs[cert] = settings.directory
        /\ tls' = recorded
    BY <1>1, <1>3, <2>1, <2>2, <2>3
  <2>5. /\ tls' \in Tls /\ tls'.source = "acme"
        /\ cert # 0 /\ tls'.path = "own"
        /\ tls'.account = account /\ tls'.issued = cert
        /\ accounts[account].ca = tls'.directory
        /\ certs[cert] = tls'.directory
    <3> HIDE DEF settings, cert, account
    <3> QED
      BY <2>4, RecordTyped
  <2> QED
    BY <2>5
<1> QED
  BY <1>1, <1>2, <1>3 DEF InHand, Procs

\* A pair that loads is one pair, with a certificate.
LEMMA LoadedTyped ==
  ASSUME TypeOK, NEW path \in {"theirs", "own"}
  PROVE  /\ Loaded(path) \subseteq [path: {"theirs", "own"}, cert: Nat \ {0}]
         /\ \A c, d \in Loaded(path) : c = d
  BY DEF TypeOK, Loaded, Whole, Files

\* What the listener presents, and the pair of a manual hub.
LEMMA ServedTyped ==
  ASSUME TypeOK, InHand, Next
  PROVE  /\ theirs' \in Nat \ {0}
         /\ served' \subseteq [path: {"theirs", "own"}, cert: Nat \ {0}]
         /\ \A c, d \in served' : c = d
<1>0. tls.path \in {"theirs", "own"}
  BY DEF TypeOK, Tls
<1>1. CASE Tick \/ Start
  BY <1>0, <1>1, LoadedTyped DEF Tick, Start, TypeOK
<1>2. CASE Crash
  BY <1>2 DEF Crash, Kill, Spend, TypeOK
<1>3. ASSUME NEW p \in Procs, Present(p)
      PROVE  /\ theirs' \in Nat \ {0}
             /\ served' \subseteq [path: {"theirs", "own"}, cert: Nat \ {0}]
             /\ \A c, d \in served' : c = d
  <2>1. run[p].got \in Nat \ {0}
    BY <1>3 DEF Present, InHand, TypeOK, Run
  <2> QED
    BY <1>3, <2>1 DEF Present, TypeOK
<1>4. CASE Certbot
  BY <1>4 DEF Certbot, TypeOK
<1>5. CASE UNCHANGED <<theirs, served>>
  BY <1>5 DEF TypeOK
<1> QED
  BY <1>1, <1>2, <1>3, <1>4, <1>5
     DEF Next, Work, Type, Interrupt, Kill, EditToManual, LoseAccount, Lock, LockForCommand,
         Busy, NotOurs, Register, SignIn, WrongAccount, Order, CaRefuses, CaLimits, KeepAccount,
         SaveKey, SaveCert, WriteFails, RenameFails, Moved, Commit, PutBack, PutBackFails

\* What the runs last reported.
LEMMA ReplyTyped ==
  ASSUME TypeOK, Next
  PROVE  reply' \in [Procs -> Answers]
<1>1. ASSUME NEW p \in Procs, NEW answer \in Answers, reply' = [reply EXCEPT ![p] = answer]
      PROVE  reply' \in [Procs -> Answers]
  BY <1>1 DEF TypeOK
<1>2. ASSUME NEW p \in Procs, \/ Busy(p) \/ NotOurs(p) \/ Present(p) \/ Commit(p)
                              \/ Failing(p) \/ RenameFails(p)
      PROVE  reply' \in [Procs -> Answers]
  <2>1. UNCHANGED reply \/ \E answer \in Answers : reply' = [reply EXCEPT ![p] = answer]
    BY <1>2
       DEF Busy, NotOurs, Present, Commit, Failing, WrongAccount, CaRefuses, CaLimits,
                WriteFails, RenameFails, Moved, Fails, Return, Answers
  <2> QED
    BY <1>1, <2>1 DEF TypeOK
<1>3. ASSUME NEW p \in Procs, PutBack(p) \/ PutBackFails(p)
      PROVE  reply' \in [Procs -> Answers]
  <2>1. reply[p] \in Answers /\ "unrestored" \in Answers
    BY DEF TypeOK, Answers
  <2> QED
    BY <1>1, <1>3, <2>1 DEF PutBack, PutBackFails, Undone, Return
<1>4. ASSUME NEW p \in Procs, Kill(p)
      PROVE  reply' \in [Procs -> Answers]
  <2>1. reply[p] \in Answers /\ "lost" \in Answers
    BY DEF TypeOK, Answers
  <2> QED
    BY <1>1, <1>4, <2>1 DEF Kill
<1>5. CASE UNCHANGED reply
  BY <1>5 DEF TypeOK
<1> QED
  BY <1>2, <1>3, <1>4, <1>5
     DEF Next, Work, Failing, Tick, Type, Crash, Interrupt, Start, EditToManual, LoseAccount,
         Certbot, Lock, LockForCommand, Register, SignIn, Order, KeepAccount, SaveKey, SaveCert,
         Procs

\* What the processes share.
Globals ==
  /\ tls \in Tls
  /\ files \in Files
  /\ issuing \subseteq Procs
  /\ \A p, q \in issuing : p = q
  /\ certs \in Seq(CAs)
  /\ accounts \in Seq(Registered)
  /\ reported \in BOOLEAN

\* What the files and the runs name.
InBooks ==
  /\ files.account \in 0 .. Len(accounts)
  /\ \A p \in Procs :
       /\ {run[p].signed, run[p].fresh} \subseteq 0 .. Len(accounts)
       /\ run[p].got \in 0 .. Len(certs)
       /\ \A old \in run[p].before : old.account \in 0 .. Len(accounts)

\* The type invariant, in the parts it is proved by.
LEMMA TypeParts ==
  TypeOK => Globals /\ InBooks /\ Len(certs) \in Nat /\ Len(accounts) \in Nat
  BY DEF TypeOK, Globals, InBooks

\* The step AllOrNothing is about.
RolledBack(k) ==
  run[k].pc = "undo" /\ run'[k].pc = "idle" /\ reply'[k] \notin {"unrestored", "lost"}
    => run[k].before = {files'}

-----------------------------------------------------------------------------
(* Each part of the invariant is kept by every step.                       *)

\* The lock is held exactly by the run that is past it.
LEMMA HeldStep ==
  ASSUME TypeOK, Held, InHand, Undoing, Next
  PROVE  Held'
<1> USE ProcsAssumption DEF Others, Same, SameSettings, SameResult, SameFiles, Procs
<1>1. CASE Tick
  BY <1>1, TickEffect DEF Held, Critical, Pcs
<1>2. CASE ByOthers
  BY <1>2, OutsideEffect DEF Held, Critical, Pcs
<1>3. ASSUME NEW k \in Clis, Type(k) PROVE Held'
  BY <1>3, TypeEffect DEF Held, Critical, Pcs
<1>4. ASSUME NEW p \in Procs, Kill(p) PROVE Held'
  BY <1>4, KillEffect, Alone DEF Idle, Held, Critical, Pcs
<1>5. ASSUME NEW p \in Procs, Lock(p) PROVE Held'
  BY <1>5, LockEffect, Alone DEF Held, Critical, Pcs
<1>6. ASSUME NEW p \in Procs, LockForCommand(p) PROVE Held'
  BY <1>6, CommandEffect, Alone DEF Held, Critical, Pcs
<1>7. ASSUME NEW p \in Procs, Returning(p) PROVE Held'
  BY <1>7, ReturningEffect, Alone DEF Idle, Held, Critical, Pcs
<1>8. ASSUME NEW p \in Procs, Register(p) PROVE Held'
  BY <1>8, RegisterEffect, Alone DEF Held, Critical, Pcs
<1>9. ASSUME NEW p \in Procs, SignIn(p) PROVE Held'
  BY <1>9, SignInEffect, Alone DEF Held, Critical, Pcs
<1>10. ASSUME NEW p \in Procs, Order(p) PROVE Held'
  BY <1>10, OrderEffect, Alone DEF Held, Critical, Pcs
<1>11. ASSUME NEW p \in Procs, KeepAccount(p) PROVE Held'
  BY <1>11, KeepAccountEffect, Alone DEF Held, Critical, Pcs
<1>12. ASSUME NEW p \in Procs, SaveKey(p) PROVE Held'
  BY <1>12, SaveKeyEffect, Alone DEF Held, Critical, Pcs
<1>13. ASSUME NEW p \in Procs, SaveCert(p) PROVE Held'
  BY <1>13, SaveCertEffect, Alone DEF Held, Critical, Pcs
<1>14. ASSUME NEW p \in Procs, Failing(p) PROVE Held'
  <2>1. CASE GivesUp(p)
    BY <1>14, <2>1, Failures, GivesUpEffect, Alone DEF Idle, Held, Critical, Pcs
  <2>2. CASE RollsBack(p)
    BY <1>14, <2>2, Failures, RollsBackEffect, Alone DEF Held, Critical, Pcs
  <2> QED
    BY <1>14, <2>1, <2>2, Failures
<1>15. ASSUME NEW p \in Procs, RenameFails(p) PROVE Held'
  <2>1. CASE GivesUp(p)
    BY <1>15, <2>1, RenameFailures, GivesUpEffect, Alone DEF Idle, Held, Critical, Pcs
  <2>2. CASE RollsBack(p)
    BY <1>15, <2>2, RenameFailures, RollsBackEffect, Alone DEF Held, Critical, Pcs
  <2> QED
    BY <1>15, <2>1, <2>2, RenameFailures
<1>16. ASSUME NEW p \in Procs, CommitTimer(p) PROVE Held'
  BY <1>16, CommitTimerEffect, Alone DEF Held, Critical, Pcs
<1>17. ASSUME NEW p \in Procs, CommitCommand(p) PROVE Held'
  BY <1>17, CommitCommandEffect, Alone DEF Idle, Held, Critical, Pcs
<1>18. ASSUME NEW p \in Procs, LastUndone(p) PROVE Held'
  BY <1>18, LastUndoneEffect, Alone DEF Idle, Held, Critical, Pcs
<1>19. ASSUME NEW p \in Procs, NextUndone(p) PROVE Held'
  BY <1>19, NextUndoneEffect, Alone DEF Held, Critical, Pcs
<1> QED
  BY <1>1, <1>2, <1>3, <1>4, <1>5, <1>6, <1>7, <1>8, <1>9, <1>10, <1>11, <1>12, <1>13,
     <1>14, <1>15, <1>16, <1>17, <1>18, <1>19, Steps

\* A run goes on ordering under the settings it started from.
LEMMA PurposeStep ==
  ASSUME TypeOK, Held, Purpose, InHand, Undoing, Next
  PROVE  Purpose'
<1> USE ProcsAssumption DEF Others, Same, SameSettings, SameResult, SameFiles, Procs
<1>1. CASE Tick
  BY <1>1, TickEffect DEF Purpose, Critical, Pcs
<1>2. CASE ByOthers
  BY <1>2, OutsideEffect DEF Purpose, Critical, Pcs
<1>3. ASSUME NEW k \in Clis, Type(k) PROVE Purpose'
  BY <1>3, TypeEffect DEF Purpose, Critical, Pcs
<1>4. ASSUME NEW p \in Procs, Kill(p) PROVE Purpose'
  BY <1>4, KillEffect, Alone DEF Idle, Purpose, Critical, Pcs
<1>5. ASSUME NEW p \in Procs, Lock(p) PROVE Purpose'
  BY <1>5, LockEffect, Alone DEF Purpose, Critical, Pcs
<1>6. ASSUME NEW p \in Procs, LockForCommand(p) PROVE Purpose'
  BY <1>6, CommandEffect, Alone DEF Purpose, Critical, Pcs
<1>7. ASSUME NEW p \in Procs, Returning(p) PROVE Purpose'
  BY <1>7, ReturningEffect, Alone DEF Idle, Purpose, Critical, Pcs
<1>8. ASSUME NEW p \in Procs, Register(p) PROVE Purpose'
  BY <1>8, RegisterEffect, Alone DEF Purpose, Critical, Pcs
<1>9. ASSUME NEW p \in Procs, SignIn(p) PROVE Purpose'
  BY <1>9, SignInEffect, Alone DEF Purpose, Critical, Pcs
<1>10. ASSUME NEW p \in Procs, Order(p) PROVE Purpose'
  BY <1>10, OrderEffect, Alone DEF Purpose, Critical, Pcs
<1>11. ASSUME NEW p \in Procs, KeepAccount(p) PROVE Purpose'
  BY <1>11, KeepAccountEffect, Alone DEF Purpose, Critical, Pcs
<1>12. ASSUME NEW p \in Procs, SaveKey(p) PROVE Purpose'
  BY <1>12, SaveKeyEffect, Alone DEF Purpose, Critical, Pcs
<1>13. ASSUME NEW p \in Procs, SaveCert(p) PROVE Purpose'
  BY <1>13, SaveCertEffect, Alone DEF Purpose, Critical, Pcs
<1>14. ASSUME NEW p \in Procs, Failing(p) PROVE Purpose'
  <2>1. CASE GivesUp(p)
    BY <1>14, <2>1, Failures, GivesUpEffect, Alone DEF Idle, Purpose, Critical, Pcs
  <2>2. CASE RollsBack(p)
    BY <1>14, <2>2, Failures, RollsBackEffect, Alone DEF Purpose, Critical, Pcs
  <2> QED
    BY <1>14, <2>1, <2>2, Failures
<1>15. ASSUME NEW p \in Procs, RenameFails(p) PROVE Purpose'
  <2>1. CASE GivesUp(p)
    BY <1>15, <2>1, RenameFailures, GivesUpEffect, Alone
       DEF Idle, Purpose, Critical, Pcs
  <2>2. CASE RollsBack(p)
    BY <1>15, <2>2, RenameFailures, RollsBackEffect, Alone DEF Purpose, Critical, Pcs
  <2> QED
    BY <1>15, <2>1, <2>2, RenameFailures
<1>16. ASSUME NEW p \in Procs, CommitTimer(p) PROVE Purpose'
  BY <1>16, CommitTimerEffect, Alone DEF Purpose, Critical, Pcs
<1>17. ASSUME NEW p \in Procs, CommitCommand(p) PROVE Purpose'
  BY <1>17, CommitCommandEffect, Alone DEF Idle, Purpose, Critical, Pcs
<1>18. ASSUME NEW p \in Procs, LastUndone(p) PROVE Purpose'
  BY <1>18, LastUndoneEffect, Alone DEF Idle, Purpose, Critical, Pcs
<1>19. ASSUME NEW p \in Procs, NextUndone(p) PROVE Purpose'
  BY <1>19, NextUndoneEffect, Alone DEF Purpose, Critical, Pcs
<1> QED
  BY <1>1, <1>2, <1>3, <1>4, <1>5, <1>6, <1>7, <1>8, <1>9, <1>10, <1>11, <1>12, <1>13,
     <1>14, <1>15, <1>16, <1>17, <1>18, <1>19, Steps

\* The account and the certificate in hand stay those of the CA asked: the
\* books only grow, and an account never changes CA.
LEMMA InHandStep ==
  ASSUME TypeOK, Held, Purpose, InHand, Undoing, Next
  PROVE  InHand'
<1> USE ProcsAssumption DEF Others, Same, SameSettings, SameResult, SameFiles, Procs
<1>1. CASE Tick
  BY <1>1, TickEffect DEF InHand, Purpose, Critical, Ordering, Pcs
<1>2. CASE ByOthers
  BY <1>2, OutsideEffect DEF InHand, Purpose, Critical, Ordering, Pcs
<1>3. ASSUME NEW k \in Clis, Type(k) PROVE InHand'
  BY <1>3, TypeEffect DEF InHand, Purpose, Critical, Ordering, Pcs
<1>4. ASSUME NEW p \in Procs, Kill(p) PROVE InHand'
  BY <1>4, KillEffect, Alone DEF Idle, InHand, Purpose, Critical, Ordering, Pcs
<1>5. ASSUME NEW p \in Procs, Lock(p) PROVE InHand'
  BY <1>5, LockEffect, Alone DEF InHand, Purpose, Critical, Ordering, Pcs
<1>6. ASSUME NEW p \in Procs, LockForCommand(p) PROVE InHand'
  BY <1>6, CommandEffect, Alone DEF InHand, Purpose, Critical, Ordering, Pcs
<1>7. ASSUME NEW p \in Procs, Returning(p) PROVE InHand'
  BY <1>7, ReturningEffect, Alone DEF Idle, InHand, Purpose, Critical, Ordering, Pcs
<1>8. ASSUME NEW p \in Procs, Register(p) PROVE InHand'
  BY <1>8, RegisterEffect, Alone DEF InHand, Purpose, Critical, Ordering, Pcs
<1>9. ASSUME NEW p \in Procs, SignIn(p) PROVE InHand'
  BY <1>9, SignInEffect, Alone DEF InHand, Purpose, Critical, Ordering, Pcs
<1>10. ASSUME NEW p \in Procs, Order(p) PROVE InHand'
  BY <1>10, OrderEffect, Alone DEF InHand, Purpose, Critical, Ordering, Pcs
<1>11. ASSUME NEW p \in Procs, KeepAccount(p) PROVE InHand'
  BY <1>11, KeepAccountEffect, Alone DEF InHand, Purpose, Critical, Ordering, Pcs
<1>12. ASSUME NEW p \in Procs, SaveKey(p) PROVE InHand'
  BY <1>12, SaveKeyEffect, Alone DEF InHand, Purpose, Critical, Ordering, Pcs
<1>13. ASSUME NEW p \in Procs, SaveCert(p) PROVE InHand'
  BY <1>13, SaveCertEffect, Alone DEF InHand, Purpose, Critical, Ordering, Pcs
<1>14. ASSUME NEW p \in Procs, Failing(p) PROVE InHand'
  <2>1. CASE GivesUp(p)
    BY <1>14, <2>1, Failures, GivesUpEffect, Alone
       DEF Idle, InHand, Purpose, Critical, Ordering, Pcs
  <2>2. CASE RollsBack(p)
    BY <1>14, <2>2, Failures, RollsBackEffect, Alone
       DEF InHand, Purpose, Critical, Ordering, Pcs
  <2> QED
    BY <1>14, <2>1, <2>2, Failures
<1>15. ASSUME NEW p \in Procs, RenameFails(p) PROVE InHand'
  <2>1. CASE GivesUp(p)
    BY <1>15, <2>1, RenameFailures, GivesUpEffect, Alone
       DEF Idle, InHand, Purpose, Critical, Ordering, Pcs
  <2>2. CASE RollsBack(p)
    BY <1>15, <2>2, RenameFailures, RollsBackEffect, Alone
       DEF InHand, Purpose, Critical, Ordering, Pcs
  <2> QED
    BY <1>15, <2>1, <2>2, RenameFailures
<1>16. ASSUME NEW p \in Procs, CommitTimer(p) PROVE InHand'
  BY <1>16, CommitTimerEffect, Alone DEF InHand, Purpose, Critical, Ordering, Pcs
<1>17. ASSUME NEW p \in Procs, CommitCommand(p) PROVE InHand'
  BY <1>17, CommitCommandEffect, Alone
     DEF Idle, InHand, Purpose, Critical, Ordering, Pcs
<1>18. ASSUME NEW p \in Procs, LastUndone(p) PROVE InHand'
  BY <1>18, LastUndoneEffect, Alone DEF Idle, InHand, Purpose, Critical, Ordering, Pcs
<1>19. ASSUME NEW p \in Procs, NextUndone(p) PROVE InHand'
  BY <1>19, NextUndoneEffect, Alone DEF InHand, Purpose, Critical, Ordering, Pcs
<1> QED
  BY <1>1, <1>2, <1>3, <1>4, <1>5, <1>6, <1>7, <1>8, <1>9, <1>10, <1>11, <1>12, <1>13,
     <1>14, <1>15, <1>16, <1>17, <1>18, <1>19, Steps

\* A run with the lock ends, or goes back, with the pair one pair.
LEMMA PairedEnds ==
  ASSUME Paired, NEW p \in Procs, Others(p), reported => reported',
         reported' \/ files'.key = files'.cert,
         \A q \in Procs \ {p} : run[q].pc \notin Critical,
         \/ run'[p] = Idle
         \/ /\ run'[p].pc = "undo" /\ run'[p].undo # 2 /\ run'[p].before = run[p].before
  PROVE  Paired'
<1>1. CASE reported'
  BY <1>1 DEF Paired
<1>2. CASE ~reported'
  <2>1. /\ ~reported /\ files'.key = files'.cert
        /\ \A q \in Procs : \A old \in run[q].before : old.key = old.cert
    BY <1>2 DEF Paired
  <2>2. ASSUME NEW q \in Procs, q # p
        PROVE  run'[q] = run[q] /\ run[q].pc \notin {"cert", "undo"}
    BY <2>2 DEF Others, Critical, Pcs
  <2>3. CASE run'[p] = Idle
    <3>1. run'[p].pc = "idle" /\ run'[p].before = {}
      BY <2>3 DEF Idle
    <3> QED
      BY <2>1, <2>2, <3>1 DEF Paired
  <2>4. CASE run'[p].pc = "undo" /\ run'[p].undo # 2 /\ run'[p].before = run[p].before
    BY <2>1, <2>2, <2>4 DEF Paired
  <2> QED
    BY <2>3, <2>4
<1> QED
  BY <1>1, <1>2

\* The pair matches outside the renames: nobody else touches the files, and a
\* rollback puts a matching pair back.
LEMMA PairedStep ==
  ASSUME TypeOK, Held, InHand, Paired, Undoing, Next
  PROVE  Paired'
<1> USE ProcsAssumption DEF Others, Same, SameSettings, SameResult, SameFiles, Procs
<1>1. CASE Tick
  <2>1. /\ \/ UNCHANGED run
           \/ /\ run[Timer].pc = "idle" /\ run'[Timer].pc = "try"
              /\ Others(Timer) /\ SameFiles(Timer)
        /\ files' = files /\ issuing' = issuing /\ reported' = reported
    BY <1>1, TickEffect
  <2>2. CASE UNCHANGED run
    BY <2>1, <2>2 DEF Paired
  <2>3. CASE run'[Timer].pc = "try" /\ Others(Timer) /\ SameFiles(Timer)
    BY <2>1, <2>3 DEF Paired
  <2> QED
    BY <2>1, <2>2, <2>3
<1>2. CASE ByOthers
  <2>1. files'.key = files.key /\ files'.cert = files.cert /\ UNCHANGED <<issuing, run, reported>>
    BY <1>2, OutsideEffect
  <2> QED
    BY <2>1 DEF Paired
<1>3. ASSUME NEW k \in Clis, Type(k) PROVE Paired'
  BY <1>3, TypeEffect DEF InHand, Paired, Undoing, Critical, Ordering, Pcs
<1>4. ASSUME NEW p \in Procs, Kill(p) PROVE Paired'
  <2>1. CASE run[p].pc \in Critical
    BY <1>4, <2>1, KillEffect, Alone DEF Idle, Paired, Critical, Pcs
  <2>2. CASE run[p].pc \notin Critical
    <3>1. issuing' = issuing
      BY <1>4, <2>2, KillEffect DEF Held
    <3> QED
      BY <1>4, <2>2, <3>1, KillEffect DEF Idle, Paired, Critical, Pcs
  <2> QED
    BY <2>1, <2>2
<1>5. ASSUME NEW p \in Procs, Lock(p) PROVE Paired'
  <2>1. /\ run'[p].pc = "sign_in" /\ run'[p].before = run[p].before /\ Others(p)
        /\ issuing = {} /\ issuing' = {p} /\ files' = files /\ reported' = reported
    BY <1>5, LockEffect
  <2> QED
    BY <2>1 DEF Paired
<1>6. ASSUME NEW p \in Procs, LockForCommand(p) PROVE Paired'
  <2>1. /\ run'[p].pc \in {"sign_in", "record"} /\ run'[p].before \in {{files}, {}} /\ Others(p)
        /\ issuing = {} /\ issuing' = {p} /\ files' = files /\ reported' = reported
    BY <1>6, CommandEffect
  <2> QED
    BY <2>1 DEF Paired
<1>7. ASSUME NEW p \in Procs, Returning(p) PROVE Paired'
  <2>1. CASE run[p].pc \in Critical
    BY <1>7, <2>1, ReturningEffect, Alone DEF Idle, Paired, Critical, Pcs
  <2>2. CASE run[p].pc \notin Critical
    <3>1. issuing' = issuing
      BY <1>7, <2>2, ReturningEffect DEF Held
    <3> QED
      BY <1>7, <2>2, <3>1, ReturningEffect DEF Idle, Paired, Critical, Pcs
  <2> QED
    BY <2>1, <2>2
<1>8. ASSUME NEW p \in Procs, Register(p) PROVE Paired'
  <2>1. /\ run[p].pc = "sign_in" /\ run'[p].pc = "order" /\ Others(p) /\ SameFiles(p)
        /\ files' = files /\ issuing' = issuing /\ reported' = reported
    BY <1>8, RegisterEffect
  <2> QED
    BY <2>1 DEF Paired
<1>9. ASSUME NEW p \in Procs, SignIn(p) PROVE Paired'
  <2>1. /\ run[p].pc = "sign_in" /\ run'[p].pc = "order" /\ Others(p) /\ SameFiles(p)
        /\ files' = files /\ issuing' = issuing /\ reported' = reported
    BY <1>9, SignInEffect
  <2> QED
    BY <2>1 DEF Paired
<1>10. ASSUME NEW p \in Procs, Order(p) PROVE Paired'
  <2>1. /\ run[p].pc = "order" /\ run'[p].pc = "account" /\ Others(p) /\ SameFiles(p)
        /\ files' = files /\ issuing' = issuing /\ reported' = reported
    BY <1>10, OrderEffect
  <2> QED
    BY <2>1 DEF Paired
<1>11. ASSUME NEW p \in Procs, KeepAccount(p) PROVE Paired'
  <2>1. /\ run[p].pc = "account" /\ run'[p].pc = "key" /\ Others(p) /\ SameFiles(p)
        /\ files'.key = files.key /\ files'.cert = files.cert
        /\ issuing' = issuing /\ reported' = reported
    BY <1>11, KeepAccountEffect
  <2> QED
    BY <2>1 DEF Paired
<1>12. ASSUME NEW p \in Procs, SaveKey(p) PROVE Paired'
  <2>1. /\ run[p].pc = "key" /\ run'[p].pc = "cert" /\ Others(p)
        /\ run'[p].backup = files.key /\ SameResult(p) /\ Same(p, "before")
        /\ files'.key = run[p].got /\ files'.cert = files.cert
        /\ issuing' = issuing /\ reported' = reported
    BY <1>12, SaveKeyEffect
  <2>2. run[p].pc \in Critical
    BY <2>1 DEF Critical, Pcs
  <2>3. issuing = {p} /\ \A q \in Procs \ {p} : run[q].pc \notin Critical
    BY <2>2, Alone
  <2>4. \A q \in Procs \ {p} :
          run[q].pc \notin {"sign_in", "order", "account", "key", "record", "present", "cert", "undo"}
    BY <2>3 DEF Critical, Pcs
  <2>5. CASE reported
    BY <2>1, <2>5 DEF Paired
  <2>6. CASE ~reported
    <3>1. \A q \in Procs : \A old \in run[q].before : old.key = old.cert
      BY <2>6 DEF Paired
    <3>2. IF run[p].pc = "key" THEN files.key = files.cert
          ELSE run[p].backup = files.cert /\ files.key = run[p].got
      BY <2>1, <2>6 DEF Paired
    <3> QED
      BY <2>1, <2>3, <2>4, <3>1, <3>2 DEF Paired
  <2> QED
    BY <2>5, <2>6
<1>13. ASSUME NEW p \in Procs, SaveCert(p) PROVE Paired'
  <2>1. /\ run[p].pc = "cert" /\ run'[p].pc = "record" /\ Others(p)
        /\ SameResult(p) /\ SameFiles(p)
        /\ files'.key = files.key /\ files'.cert = run[p].got
        /\ issuing' = issuing /\ reported' = reported
    BY <1>13, SaveCertEffect
  <2>2. run[p].pc \in Critical
    BY <2>1 DEF Critical, Pcs
  <2>3. issuing = {p} /\ \A q \in Procs \ {p} : run[q].pc \notin Critical
    BY <2>2, Alone
  <2>4. \A q \in Procs \ {p} :
          run[q].pc \notin {"sign_in", "order", "account", "key", "record", "present", "cert", "undo"}
    BY <2>3 DEF Critical, Pcs
  <2>5. CASE reported
    BY <2>1, <2>5 DEF Paired
  <2>6. CASE ~reported
    <3>1. \A q \in Procs : \A old \in run[q].before : old.key = old.cert
      BY <2>6 DEF Paired
    <3>2. IF run[p].pc = "key" THEN files.key = files.cert
          ELSE run[p].backup = files.cert /\ files.key = run[p].got
      BY <2>1, <2>6 DEF Paired
    <3> QED
      BY <2>1, <2>3, <2>4, <3>1, <3>2 DEF Paired
  <2> QED
    BY <2>5, <2>6
<1>14. ASSUME NEW p \in Procs, Failing(p) PROVE Paired'
  <2>1. /\ run[p].pc \in {"sign_in", "order", "account", "key", "record"}
        /\ GivesUp(p) \/ RollsBack(p)
        /\ files' = files /\ reported' = reported
    BY <1>14, Failures
  <2>2. \A q \in Procs \ {p} : run[q].pc \notin Critical
    BY <2>1, Alone DEF Critical, Pcs
  <2>3. reported' \/ files'.key = files'.cert
    BY <2>1 DEF Paired
  <2>4. /\ Others(p)
        /\ \/ run'[p] = Idle
           \/ run'[p].pc = "undo" /\ run'[p].undo # 2 /\ run'[p].before = run[p].before
    BY <2>1, GivesUpEffect, RollsBackEffect DEF Same
  <2> QED
    BY <2>1, <2>2, <2>3, <2>4, PairedEnds
<1>15. ASSUME NEW p \in Procs, RenameFails(p) PROVE Paired'
  <2>1. /\ run[p].pc = "cert" /\ (GivesUp(p) \/ RollsBack(p)) /\ files'.cert = files.cert
        /\ (reported' = reported /\ files'.key = run[p].backup) \/ reported'
    BY <1>15, RenameFailures
  <2>2. \A q \in Procs \ {p} : run[q].pc \notin Critical
    BY <2>1, Alone DEF Critical, Pcs
  <2>3. reported' \/ files'.key = files'.cert
    BY <2>1 DEF Paired
  <2>4. /\ Others(p)
        /\ \/ run'[p] = Idle
           \/ run'[p].pc = "undo" /\ run'[p].undo # 2 /\ run'[p].before = run[p].before
    BY <2>1, GivesUpEffect, RollsBackEffect DEF Same
  <2> QED
    BY <2>1, <2>2, <2>3, <2>4, PairedEnds
<1>16. ASSUME NEW p \in Procs, CommitTimer(p) PROVE Paired'
  <2>1. /\ run[p].pc = "record" /\ run'[p].pc = "present" /\ Others(p) /\ SameFiles(p)
        /\ files' = files /\ issuing' = issuing /\ reported' = reported
    BY <1>16, CommitTimerEffect
  <2> QED
    BY <2>1 DEF Paired
<1>17. ASSUME NEW p \in Procs, CommitCommand(p) PROVE Paired'
  <2>1. /\ run[p].pc = "record" /\ run'[p] = Idle /\ Others(p)
        /\ files' = files /\ reported' = reported
    BY <1>17, CommitCommandEffect
  <2>2. \A q \in Procs \ {p} : run[q].pc \notin Critical
    BY <2>1, Alone DEF Critical, Pcs
  <2>3. reported' \/ files'.key = files'.cert
    BY <2>1 DEF Paired
  <2> QED
    BY <2>1, <2>2, <2>3, PairedEnds
<1>18. ASSUME NEW p \in Procs, LastUndone(p) PROVE Paired'
  <2>1. issuing' = {} /\ \A q \in Procs \ {p} : run'[q].pc \notin Critical
    BY <1>18, LastUndoneEffect, Alone DEF Critical, Pcs
  <2>2. reported' \/ files'.key = files'.cert \/ reported
    BY <1>18, LastUndoneEffect DEF Restores, Paired
  <2> QED
    BY <1>18, <2>1, <2>2, LastUndoneEffect DEF Restores, Idle, Paired, Critical, Pcs
<1>19. ASSUME NEW p \in Procs, NextUndone(p) PROVE Paired'
  <2>1. issuing' = {p} /\ \A q \in Procs \ {p} : run'[q].pc \notin Critical
    BY <1>19, NextUndoneEffect, Alone DEF Critical, Pcs
  <2>2. CASE reported'
    BY <2>2 DEF Paired
  <2>3. CASE ~reported'
    <3>1. PICK old \in run[p].before :
            /\ files'.cert = IF run[p].undo = 1 THEN old.cert ELSE files.cert
            /\ files'.key = IF run[p].undo = 2 THEN old.key ELSE files.key
      BY <1>19, <2>3, NextUndoneEffect DEF Restores
    <3>2. ~reported /\ run[p].undo \in 1 .. 2 /\ \A other \in run[p].before : other = old
      BY <1>19, <2>3, NextUndoneEffect DEF Undoing, Restores
    <3>3. /\ run'[p].undo = 3 => files'.key = files'.cert
          /\ run'[p].undo = 2 => \A other \in run[p].before : files'.cert = other.cert
      BY <1>19, <3>1, <3>2, NextUndoneEffect DEF Paired
    <3> QED
      BY <1>19, <2>1, <3>2, <3>3, NextUndoneEffect DEF Paired, Critical, Pcs
  <2> QED
    BY <2>2, <2>3
<1> QED
  BY <1>1, <1>2, <1>3, <1>4, <1>5, <1>6, <1>7, <1>8, <1>9, <1>10, <1>11, <1>12, <1>13,
     <1>14, <1>15, <1>16, <1>17, <1>18, <1>19, Steps

\* A rollback goes forward, and what it has put back stays put.
LEMMA UndoingStep ==
  ASSUME TypeOK, Held, InHand, Undoing, Next
  PROVE  Undoing'
<1> USE ProcsAssumption DEF Others, Same, SameSettings, SameResult, SameFiles, Procs
<1>1. CASE Tick
  BY <1>1, TickEffect DEF Undoing, Critical, Pcs, Answers, Errors
<1>2. CASE ByOthers
  BY <1>2, OutsideEffect DEF Undoing, Critical, Pcs, Answers, Errors
<1>3. ASSUME NEW k \in Clis, Type(k) PROVE Undoing'
  BY <1>3, TypeEffect DEF Undoing, Critical, Pcs, Answers, Errors
<1>4. ASSUME NEW p \in Procs, Kill(p) PROVE Undoing'
  BY <1>4, KillEffect, Alone DEF Idle, Undoing, Critical, Pcs, Answers, Errors
<1>5. ASSUME NEW p \in Procs, Lock(p) PROVE Undoing'
  BY <1>5, LockEffect, Alone DEF Undoing, Critical, Pcs, Answers, Errors
<1>6. ASSUME NEW p \in Procs, LockForCommand(p) PROVE Undoing'
  BY <1>6, CommandEffect, Alone DEF Undoing, Critical, Pcs, Answers, Errors
<1>7. ASSUME NEW p \in Procs, Returning(p) PROVE Undoing'
  BY <1>7, ReturningEffect, Alone DEF Idle, Undoing, Critical, Pcs, Answers, Errors
<1>8. ASSUME NEW p \in Procs, Register(p) PROVE Undoing'
  BY <1>8, RegisterEffect, Alone DEF Undoing, Critical, Pcs, Answers, Errors
<1>9. ASSUME NEW p \in Procs, SignIn(p) PROVE Undoing'
  BY <1>9, SignInEffect, Alone DEF Undoing, Critical, Pcs, Answers, Errors
<1>10. ASSUME NEW p \in Procs, Order(p) PROVE Undoing'
  BY <1>10, OrderEffect, Alone DEF Undoing, Critical, Pcs, Answers, Errors
<1>11. ASSUME NEW p \in Procs, KeepAccount(p) PROVE Undoing'
  BY <1>11, KeepAccountEffect, Alone DEF Undoing, Critical, Pcs, Answers, Errors
<1>12. ASSUME NEW p \in Procs, SaveKey(p) PROVE Undoing'
  BY <1>12, SaveKeyEffect, Alone DEF Undoing, Critical, Pcs, Answers, Errors
<1>13. ASSUME NEW p \in Procs, SaveCert(p) PROVE Undoing'
  BY <1>13, SaveCertEffect, Alone DEF Undoing, Critical, Pcs, Answers, Errors
<1>14. ASSUME NEW p \in Procs, Failing(p) PROVE Undoing'
  <2>1. CASE GivesUp(p)
    BY <1>14, <2>1, Failures, GivesUpEffect, Alone
       DEF Idle, Undoing, Critical, Pcs, Answers, Errors
  <2>2. CASE RollsBack(p)
    BY <1>14, <2>2, Failures, RollsBackEffect, Alone
       DEF Undoing, Critical, Pcs, Answers, Errors
  <2> QED
    BY <1>14, <2>1, <2>2, Failures
<1>15. ASSUME NEW p \in Procs, RenameFails(p) PROVE Undoing'
  <2>1. CASE GivesUp(p)
    BY <1>15, <2>1, RenameFailures, GivesUpEffect, Alone
       DEF Idle, Undoing, Critical, Pcs, Answers, Errors
  <2>2. CASE RollsBack(p)
    BY <1>15, <2>2, RenameFailures, RollsBackEffect, Alone
       DEF Undoing, Critical, Pcs, Answers, Errors
  <2> QED
    BY <1>15, <2>1, <2>2, RenameFailures
<1>16. ASSUME NEW p \in Procs, CommitTimer(p) PROVE Undoing'
  BY <1>16, CommitTimerEffect, Alone DEF Undoing, Critical, Pcs, Answers, Errors
<1>17. ASSUME NEW p \in Procs, CommitCommand(p) PROVE Undoing'
  BY <1>17, CommitCommandEffect, Alone
     DEF Idle, Undoing, Critical, Pcs, Answers, Errors
<1>18. ASSUME NEW p \in Procs, LastUndone(p) PROVE Undoing'
  BY <1>18, LastUndoneEffect, Alone DEF Idle, Undoing, Critical, Pcs, Answers, Errors
<1>19. ASSUME NEW p \in Procs, NextUndone(p) PROVE Undoing'
  <2>1. \A q \in Procs \ {p} : run'[q].pc \notin Critical
    BY <1>19, NextUndoneEffect, Alone DEF Critical, Pcs
  <2>2. run[p].undo \in 1 .. 2 /\ run'[p].undo = run[p].undo + 1
    BY <1>19, NextUndoneEffect DEF Undoing
  <2>3. \A old \in run[p].before : reply'[p] # "unrestored" =>
          /\ files'.cert = old.cert
          /\ run'[p].undo = 3 => files'.key = old.key
    BY <1>19, <2>2, NextUndoneEffect DEF Restores, Undoing
  <2> QED
    BY <1>19, <2>1, <2>2, <2>3, NextUndoneEffect DEF Restores, Undoing, Critical, Pcs
<1> QED
  BY <1>1, <1>2, <1>3, <1>4, <1>5, <1>6, <1>7, <1>8, <1>9, <1>10, <1>11, <1>12, <1>13,
     <1>14, <1>15, <1>16, <1>17, <1>18, <1>19, Steps

\* The shared state keeps its type.
LEMMA GlobalsStep ==
  ASSUME TypeOK, Held, Purpose, InHand, Undoing, Next
  PROVE  Globals'
<1> USE ProcsAssumption, TypeParts DEF Others, Same, SameSettings, SameResult, SameFiles, Procs
<1>1. CASE Tick
  BY <1>1, TickEffect DEF Globals
<1>2. CASE ByOthers
  BY <1>2, OutsideEffect DEF Globals
<1>3. ASSUME NEW k \in Clis, Type(k) PROVE Globals'
  BY <1>3, TypeEffect DEF Globals
<1>4. ASSUME NEW p \in Procs, Kill(p) PROVE Globals'
  BY <1>4, KillEffect, Alone DEF Idle, Globals
<1>5. ASSUME NEW p \in Procs, Lock(p) PROVE Globals'
  BY <1>5, LockEffect, Alone DEF Globals
<1>6. ASSUME NEW p \in Procs, LockForCommand(p) PROVE Globals'
  BY <1>6, CommandEffect, Alone DEF Globals
<1>7. ASSUME NEW p \in Procs, Returning(p) PROVE Globals'
  BY <1>7, ReturningEffect, Alone DEF Idle, Globals
<1>8. ASSUME NEW p \in Procs, Register(p) PROVE Globals'
  BY <1>8, RegisterEffect, Alone DEF Globals
<1>9. ASSUME NEW p \in Procs, SignIn(p) PROVE Globals'
  BY <1>9, SignInEffect, Alone DEF Globals
<1>10. ASSUME NEW p \in Procs, Order(p) PROVE Globals'
  BY <1>10, OrderEffect, Alone DEF Globals
<1>11. ASSUME NEW p \in Procs, KeepAccount(p) PROVE Globals'
  BY <1>11, KeepAccountEffect, Alone DEF Globals
<1>12. ASSUME NEW p \in Procs, SaveKey(p) PROVE Globals'
  BY <1>12, SaveKeyEffect, Alone DEF Globals
<1>13. ASSUME NEW p \in Procs, SaveCert(p) PROVE Globals'
  BY <1>13, SaveCertEffect, Alone DEF Globals
<1>14. ASSUME NEW p \in Procs, Failing(p) PROVE Globals'
  <2>1. CASE GivesUp(p)
    BY <1>14, <2>1, Failures, GivesUpEffect, Alone DEF Idle, Globals
  <2>2. CASE RollsBack(p)
    BY <1>14, <2>2, Failures, RollsBackEffect, Alone DEF Globals
  <2> QED
    BY <1>14, <2>1, <2>2, Failures
<1>15. ASSUME NEW p \in Procs, RenameFails(p) PROVE Globals'
  <2>1. CASE GivesUp(p)
    BY <1>15, <2>1, RenameFailures, GivesUpEffect, Alone DEF Idle, Globals
  <2>2. CASE RollsBack(p)
    BY <1>15, <2>2, RenameFailures, RollsBackEffect, Alone DEF Globals
  <2> QED
    BY <1>15, <2>1, <2>2, RenameFailures
<1>16. ASSUME NEW p \in Procs, CommitTimer(p) PROVE Globals'
  BY <1>16, CommitTimerEffect, Committed, Alone DEF Committing, Globals
<1>17. ASSUME NEW p \in Procs, CommitCommand(p) PROVE Globals'
  BY <1>17, CommitCommandEffect, Committed, Alone DEF Idle, Committing, Globals
<1>18. ASSUME NEW p \in Procs, LastUndone(p) PROVE Globals'
  <2>1. files' \in Files /\ reported' \in BOOLEAN
    BY <1>18, LastUndoneEffect DEF Restores
  <2> QED
    BY <1>18, <2>1, LastUndoneEffect DEF Globals
<1>19. ASSUME NEW p \in Procs, NextUndone(p) PROVE Globals'
  <2>1. files' \in Files /\ reported' \in BOOLEAN
    BY <1>19, NextUndoneEffect DEF Restores
  <2> QED
    BY <1>19, <2>1, NextUndoneEffect DEF Globals
<1> QED
  BY <1>1, <1>2, <1>3, <1>4, <1>5, <1>6, <1>7, <1>8, <1>9, <1>10, <1>11, <1>12, <1>13,
     <1>14, <1>15, <1>16, <1>17, <1>18, <1>19, Steps

\* A step after which the runs name what they named.
LEMMA SameNames ==
  ASSUME InBooks, NEW p \in Procs, Others(p), SameResult(p), Same(p, "before"),
         accounts' = accounts, certs' = certs, files'.account \in 0 .. Len(accounts)
  PROVE  InBooks'
<1>1. \A q \in Procs : /\ run'[q].signed = run[q].signed /\ run'[q].fresh = run[q].fresh
                       /\ run'[q].got = run[q].got /\ run'[q].before = run[q].before
  BY DEF Others, SameResult, Same
<1> QED
  BY <1>1 DEF InBooks

\* What is put back names an account of the books.
LEMMA RestoredAccount ==
  ASSUME InBooks, NEW p \in Procs, Restores(p)
  PROVE  files'.account \in 0 .. Len(accounts)
<1>1. /\ files.account \in 0 .. Len(accounts)
      /\ \A old \in run[p].before : old.account \in 0 .. Len(accounts)
  BY DEF InBooks
<1>2. files' = files \/ \E old \in run[p].before : files'.account \in {old.account, files.account}
  BY DEF Restores
<1> QED
  BY <1>1, <1>2

\* A step of p in which the books only grow and p names what is in them.
LEMMA OneNames ==
  ASSUME InBooks, NEW p \in Procs, Others(p),
         Len(accounts) \in Nat, Len(certs) \in Nat, Len(accounts') \in Nat, Len(certs') \in Nat,
         Len(accounts) <= Len(accounts'), Len(certs) <= Len(certs'),
         files'.account \in 0 .. Len(accounts'),
         run'[p].signed \in 0 .. Len(accounts'), run'[p].fresh \in 0 .. Len(accounts'),
         run'[p].got \in 0 .. Len(certs'),
         \A old \in run'[p].before : old.account \in 0 .. Len(accounts')
  PROVE  InBooks'
<1>1. ASSUME NEW q \in Procs, q # p
      PROVE  /\ {run'[q].signed, run'[q].fresh} \subseteq 0 .. Len(accounts')
             /\ run'[q].got \in 0 .. Len(certs')
             /\ \A old \in run'[q].before : old.account \in 0 .. Len(accounts')
  <2>1. run'[q] = run[q]
    BY <1>1 DEF Others
  <2>2. /\ {run[q].signed, run[q].fresh} \subseteq 0 .. Len(accounts)
        /\ run[q].got \in 0 .. Len(certs)
        /\ \A old \in run[q].before : old.account \in 0 .. Len(accounts)
    BY DEF InBooks
  <2>3. \A a \in 0 .. Len(accounts) : a \in 0 .. Len(accounts')
    OBVIOUS
  <2>4. \A c \in 0 .. Len(certs) : c \in 0 .. Len(certs')
    OBVIOUS
  <2>5. run[q].signed \in 0 .. Len(accounts) /\ run[q].fresh \in 0 .. Len(accounts)
    BY <2>2
  <2>6. {run[q].signed, run[q].fresh} \subseteq 0 .. Len(accounts')
    BY <2>3, <2>5, Zenon
  <2> QED
    BY <2>1, <2>2, <2>3, <2>4, <2>6, Zenon
<1> QED
  BY <1>1 DEF InBooks

\* A run that ended names nothing.
LEMMA IdleNames ==
  ASSUME InBooks, NEW p \in Procs, run'[p] = Idle, Others(p),
         Len(accounts) \in Nat, Len(certs) \in Nat, accounts' = accounts, certs' = certs,
         files'.account \in 0 .. Len(accounts)
  PROVE  InBooks'
<1>1. /\ run'[p].signed = 0 /\ run'[p].fresh = 0 /\ run'[p].got = 0 /\ run'[p].before = {}
  BY DEF Idle
<1> QED
  BY <1>1, OneNames

\* The files and the runs name what is in the books.
LEMMA InBooksStep ==
  ASSUME TypeOK, Held, Purpose, InHand, Undoing, Next
  PROVE  InBooks'
<1>0. /\ InBooks /\ Len(accounts) \in Nat /\ Len(certs) \in Nat
      /\ files.account \in 0 .. Len(accounts)
  BY TypeParts DEF InBooks
<1>1. CASE Tick
  <2>1. files' = files /\ accounts' = accounts /\ certs' = certs
    BY <1>1, TickEffect
  <2>2. CASE UNCHANGED run
    BY <1>0, <2>1, <2>2 DEF InBooks
  <2>3. CASE Others(Timer) /\ SameResult(Timer) /\ SameFiles(Timer)
    BY <1>0, <2>1, <2>3, SameNames DEF SameFiles, Procs
  <2> QED
    BY <1>1, <2>2, <2>3, TickEffect
<1>2. CASE ByOthers
  <2>1. files'.account \in {files.account, 0} /\ UNCHANGED <<run, certs, accounts>>
    BY <1>2, OutsideEffect
  <2> QED
    BY <1>0, <2>1 DEF InBooks
<1>3. ASSUME NEW k \in Clis, Type(k) PROVE InBooks'
  <2>1. /\ run'[k].signed = 0 /\ run'[k].fresh = 0 /\ run'[k].got = 0 /\ run'[k].before = {}
        /\ Others(k) /\ files' = files /\ accounts' = accounts /\ certs' = certs
    BY <1>3, TypeEffect
  <2> QED
    BY <1>0, <2>1, OneNames DEF Procs
<1>4. ASSUME NEW p \in Procs, Kill(p) PROVE InBooks'
  <2>1. run'[p] = Idle /\ Others(p) /\ UNCHANGED <<files, certs, accounts>>
    BY <1>4, KillEffect
  <2> QED
    BY <1>0, <2>1, IdleNames
<1>5. ASSUME NEW p \in Procs, Lock(p) PROVE InBooks'
  <2>1. Others(p) /\ SameResult(p) /\ SameFiles(p) /\ UNCHANGED <<files, certs, accounts>>
    BY <1>5, LockEffect
  <2> QED
    BY <1>0, <2>1, SameNames DEF SameFiles
<1>6. ASSUME NEW p \in Procs, LockForCommand(p) PROVE InBooks'
  <2>1. /\ Others(p) /\ SameResult(p) /\ UNCHANGED <<files, certs, accounts>>
        /\ run'[p].before \in {{files}, {}}
    BY <1>6, CommandEffect
  <2>2. /\ run'[p].signed = run[p].signed /\ run'[p].fresh = run[p].fresh
        /\ run'[p].got = run[p].got
    BY <2>1 DEF SameResult, Same
  <2>3. /\ {run[p].signed, run[p].fresh} \subseteq 0 .. Len(accounts)
        /\ run[p].got \in 0 .. Len(certs)
    BY <1>0 DEF InBooks
  <2>4. \A old \in run'[p].before : old.account \in 0 .. Len(accounts)
    BY <1>0, <2>1
  <2> QED
    BY <1>0, <2>1, <2>2, <2>3, <2>4, OneNames
<1>7. ASSUME NEW p \in Procs, Returning(p) PROVE InBooks'
  <2>1. run'[p] = Idle /\ Others(p) /\ UNCHANGED <<files, certs, accounts>>
    BY <1>7, ReturningEffect
  <2> QED
    BY <1>0, <2>1, IdleNames
<1>8. ASSUME NEW p \in Procs, Register(p) PROVE InBooks'
  <2>1. /\ run'[p].signed = Len(accounts) + 1 /\ run'[p].fresh = Len(accounts) + 1
        /\ Len(accounts') = Len(accounts) + 1
        /\ Others(p) /\ Same(p, "got") /\ SameFiles(p) /\ files' = files /\ certs' = certs
    BY <1>8, RegisterEffect
  <2>2. run'[p].got = run[p].got /\ run'[p].before = run[p].before
    BY <2>1 DEF Same, SameFiles
  <2>3. /\ run[p].got \in 0 .. Len(certs)
        /\ \A old \in run[p].before : old.account \in 0 .. Len(accounts)
    BY <1>0 DEF InBooks
  <2>4. /\ Len(accounts') \in Nat /\ Len(accounts) <= Len(accounts')
        /\ \A a \in 0 .. Len(accounts) : a \in 0 .. Len(accounts')
        /\ Len(accounts) + 1 \in 0 .. Len(accounts')
    BY <1>0, <2>1
  <2>5. \A old \in run'[p].before : old.account \in 0 .. Len(accounts')
    BY <2>2, <2>3, <2>4
  <2> QED
    BY <1>0, <2>1, <2>2, <2>3, <2>4, <2>5, OneNames
<1>9. ASSUME NEW p \in Procs, SignIn(p) PROVE InBooks'
  <2>1. /\ run'[p].signed = files.account /\ Len(accounts') = Len(accounts)
        /\ Others(p) /\ Same(p, "got") /\ Same(p, "fresh") /\ SameFiles(p)
        /\ files' = files /\ certs' = certs
    BY <1>9, SignInEffect
  <2>2. /\ run'[p].got = run[p].got /\ run'[p].before = run[p].before
        /\ run'[p].fresh = run[p].fresh
    BY <2>1 DEF Same, SameFiles
  <2>3. /\ run[p].got \in 0 .. Len(certs) /\ run[p].fresh \in 0 .. Len(accounts)
        /\ \A old \in run[p].before : old.account \in 0 .. Len(accounts)
    BY <1>0 DEF InBooks
  <2> QED
    BY <1>0, <2>1, <2>2, <2>3, OneNames
<1>10. ASSUME NEW p \in Procs, Order(p) PROVE InBooks'
  <2>1. /\ run'[p].got = Len(certs) + 1 /\ Len(certs') = Len(certs) + 1
        /\ Others(p) /\ Same(p, "signed") /\ Same(p, "fresh") /\ SameFiles(p)
        /\ files' = files /\ accounts' = accounts
    BY <1>10, OrderEffect
  <2>2. /\ run'[p].signed = run[p].signed /\ run'[p].before = run[p].before
        /\ run'[p].fresh = run[p].fresh
    BY <2>1 DEF Same, SameFiles
  <2>3. /\ {run[p].signed, run[p].fresh} \subseteq 0 .. Len(accounts)
        /\ \A old \in run[p].before : old.account \in 0 .. Len(accounts)
    BY <1>0 DEF InBooks
  <2>4. Len(certs') \in Nat /\ Len(certs) <= Len(certs') /\ run'[p].got \in 0 .. Len(certs')
    BY <1>0, <2>1
  <2> QED
    BY <1>0, <2>1, <2>2, <2>3, <2>4, OneNames
<1>11. ASSUME NEW p \in Procs, KeepAccount(p) PROVE InBooks'
  <2>1. {files.account, run[p].fresh} \subseteq 0 .. Len(accounts)
    BY <1>0 DEF InBooks
  <2>2. /\ files'.account \in {files.account, run[p].fresh} /\ accounts' = accounts
        /\ certs' = certs /\ Others(p) /\ SameResult(p) /\ SameFiles(p)
    BY <1>11, KeepAccountEffect
  <2> QED
    BY <1>0, <2>1, <2>2, SameNames DEF SameFiles
<1>12. ASSUME NEW p \in Procs, SaveKey(p) PROVE InBooks'
  <2>1. /\ files'.account = files.account /\ accounts' = accounts
        /\ certs' = certs /\ Others(p) /\ SameResult(p) /\ Same(p, "before")
    BY <1>12, SaveKeyEffect
  <2> QED
    BY <1>0, <2>1, SameNames
<1>13. ASSUME NEW p \in Procs, SaveCert(p) PROVE InBooks'
  <2>1. /\ files'.account = files.account /\ accounts' = accounts
        /\ certs' = certs /\ Others(p) /\ SameResult(p) /\ SameFiles(p)
    BY <1>13, SaveCertEffect
  <2> QED
    BY <1>0, <2>1, SameNames DEF SameFiles
<1>14. ASSUME NEW p \in Procs, Failing(p) PROVE InBooks'
  <2>0. UNCHANGED <<files, certs, accounts>> /\ (GivesUp(p) \/ RollsBack(p))
    BY <1>14, Failures
  <2>1. CASE GivesUp(p)
    <3>1. run'[p] = Idle /\ Others(p)
      BY <2>1, GivesUpEffect
    <3> QED
      BY <1>0, <2>0, <3>1, IdleNames
  <2>2. CASE RollsBack(p)
    <3>1. Others(p) /\ SameResult(p) /\ Same(p, "before")
      BY <2>2, RollsBackEffect
    <3> QED
      BY <1>0, <2>0, <3>1, SameNames
  <2> QED
    BY <2>0, <2>1, <2>2
<1>15. ASSUME NEW p \in Procs, RenameFails(p) PROVE InBooks'
  <2>0. /\ files'.account = files.account /\ UNCHANGED <<certs, accounts>>
        /\ GivesUp(p) \/ RollsBack(p)
    BY <1>15, RenameFailures
  <2>1. CASE GivesUp(p)
    <3>1. run'[p] = Idle /\ Others(p)
      BY <2>1, GivesUpEffect
    <3> QED
      BY <1>0, <2>0, <3>1, IdleNames
  <2>2. CASE RollsBack(p)
    <3>1. Others(p) /\ SameResult(p) /\ Same(p, "before")
      BY <2>2, RollsBackEffect
    <3> QED
      BY <1>0, <2>0, <3>1, SameNames
  <2> QED
    BY <2>0, <2>1, <2>2
<1>16. ASSUME NEW p \in Procs, CommitTimer(p) PROVE InBooks'
  <2>1. Others(p) /\ SameResult(p) /\ SameFiles(p) /\ UNCHANGED <<files, certs, accounts>>
    BY <1>16, CommitTimerEffect
  <2> QED
    BY <1>0, <2>1, SameNames DEF SameFiles
<1>17. ASSUME NEW p \in Procs, CommitCommand(p) PROVE InBooks'
  <2>1. run'[p] = Idle /\ Others(p) /\ UNCHANGED <<files, certs, accounts>>
    BY <1>17, CommitCommandEffect
  <2> QED
    BY <1>0, <2>1, IdleNames
<1>18. ASSUME NEW p \in Procs, LastUndone(p) PROVE InBooks'
  <2>1. run'[p] = Idle /\ Others(p) /\ Restores(p) /\ UNCHANGED <<certs, accounts>>
    BY <1>18, LastUndoneEffect
  <2>2. files'.account \in 0 .. Len(accounts)
    BY <1>0, <2>1, RestoredAccount
  <2> QED
    BY <1>0, <2>1, <2>2, IdleNames
<1>19. ASSUME NEW p \in Procs, NextUndone(p) PROVE InBooks'
  <2>1. /\ Others(p) /\ SameResult(p) /\ Same(p, "before") /\ Restores(p)
        /\ UNCHANGED <<certs, accounts>>
    BY <1>19, NextUndoneEffect
  <2>2. files'.account \in 0 .. Len(accounts)
    BY <1>0, <2>1, RestoredAccount
  <2> QED
    BY <1>0, <2>1, <2>2, SameNames
<1> QED
  BY <1>1, <1>2, <1>3, <1>4, <1>5, <1>6, <1>7, <1>8, <1>9, <1>10, <1>11, <1>12, <1>13,
     <1>14, <1>15, <1>16, <1>17, <1>18, <1>19, Steps

\* The settings name what is in the books: only a commit and an edit by hand
\* change them, and the witness keeps a commit from recording on an edit.
LEMMA BookedStep ==
  ASSUME TypeOK, Held, Purpose, InHand, Undoing, Booked, Next
  PROVE  Booked'
<1> USE ProcsAssumption, TypeParts DEF Others, Same, SameSettings, SameResult, SameFiles, Procs
<1>1. CASE Tick
  BY <1>1, TickEffect DEF Booked, ManualHubKeepsItsPair, RecordedFromItsCa
<1>2. CASE ByOthers
  BY <1>2, OutsideEffect DEF Booked, ManualHubKeepsItsPair, RecordedFromItsCa
<1>3. ASSUME NEW k \in Clis, Type(k) PROVE Booked'
  BY <1>3, TypeEffect DEF Booked, ManualHubKeepsItsPair, RecordedFromItsCa
<1>4. ASSUME NEW p \in Procs, Kill(p) PROVE Booked'
  BY <1>4, KillEffect, Alone
     DEF Idle, Booked, ManualHubKeepsItsPair, RecordedFromItsCa
<1>5. ASSUME NEW p \in Procs, Lock(p) PROVE Booked'
  BY <1>5, LockEffect, Alone DEF Booked, ManualHubKeepsItsPair, RecordedFromItsCa
<1>6. ASSUME NEW p \in Procs, LockForCommand(p) PROVE Booked'
  BY <1>6, CommandEffect, Alone DEF Booked, ManualHubKeepsItsPair, RecordedFromItsCa
<1>7. ASSUME NEW p \in Procs, Returning(p) PROVE Booked'
  BY <1>7, ReturningEffect, Alone
     DEF Idle, Booked, ManualHubKeepsItsPair, RecordedFromItsCa
<1>8. ASSUME NEW p \in Procs, Register(p) PROVE Booked'
  BY <1>8, RegisterEffect, Alone DEF Booked, ManualHubKeepsItsPair, RecordedFromItsCa
<1>9. ASSUME NEW p \in Procs, SignIn(p) PROVE Booked'
  BY <1>9, SignInEffect, Alone DEF Booked, ManualHubKeepsItsPair, RecordedFromItsCa
<1>10. ASSUME NEW p \in Procs, Order(p) PROVE Booked'
  BY <1>10, OrderEffect, Alone DEF Booked, ManualHubKeepsItsPair, RecordedFromItsCa
<1>11. ASSUME NEW p \in Procs, KeepAccount(p) PROVE Booked'
  BY <1>11, KeepAccountEffect, Alone
     DEF Booked, ManualHubKeepsItsPair, RecordedFromItsCa
<1>12. ASSUME NEW p \in Procs, SaveKey(p) PROVE Booked'
  BY <1>12, SaveKeyEffect, Alone DEF Booked, ManualHubKeepsItsPair, RecordedFromItsCa
<1>13. ASSUME NEW p \in Procs, SaveCert(p) PROVE Booked'
  BY <1>13, SaveCertEffect, Alone DEF Booked, ManualHubKeepsItsPair, RecordedFromItsCa
<1>14. ASSUME NEW p \in Procs, Failing(p) PROVE Booked'
  <2>1. CASE GivesUp(p)
    BY <1>14, <2>1, Failures, GivesUpEffect, Alone
       DEF Idle, Booked, ManualHubKeepsItsPair, RecordedFromItsCa
  <2>2. CASE RollsBack(p)
    BY <1>14, <2>2, Failures, RollsBackEffect, Alone
       DEF Booked, ManualHubKeepsItsPair, RecordedFromItsCa
  <2> QED
    BY <1>14, <2>1, <2>2, Failures
<1>15. ASSUME NEW p \in Procs, RenameFails(p) PROVE Booked'
  <2>1. CASE GivesUp(p)
    BY <1>15, <2>1, RenameFailures, GivesUpEffect, Alone
       DEF Idle, Booked, ManualHubKeepsItsPair, RecordedFromItsCa
  <2>2. CASE RollsBack(p)
    BY <1>15, <2>2, RenameFailures, RollsBackEffect, Alone
       DEF Booked, ManualHubKeepsItsPair, RecordedFromItsCa
  <2> QED
    BY <1>15, <2>1, <2>2, RenameFailures
<1>16. ASSUME NEW p \in Procs, CommitTimer(p) PROVE Booked'
  <2>1. /\ run[p].signed \in 0 .. Len(accounts) /\ run[p].got \in 0 .. Len(certs)
        /\ accounts' = accounts /\ certs' = certs
    BY <1>16, CommitTimerEffect DEF InBooks
  <2> QED
    BY <1>16, <2>1, Committed
       DEF Committing, Booked, ManualHubKeepsItsPair, RecordedFromItsCa
<1>17. ASSUME NEW p \in Procs, CommitCommand(p) PROVE Booked'
  <2>1. /\ run[p].signed \in 0 .. Len(accounts) /\ run[p].got \in 0 .. Len(certs)
        /\ accounts' = accounts /\ certs' = certs
    BY <1>17, CommitCommandEffect DEF InBooks
  <2> QED
    BY <1>17, <2>1, Committed
       DEF Committing, Booked, ManualHubKeepsItsPair, RecordedFromItsCa
<1>18. ASSUME NEW p \in Procs, LastUndone(p) PROVE Booked'
  BY <1>18, LastUndoneEffect, Alone
     DEF Idle, Booked, ManualHubKeepsItsPair, RecordedFromItsCa
<1>19. ASSUME NEW p \in Procs, NextUndone(p) PROVE Booked'
  BY <1>19, NextUndoneEffect, Alone
     DEF Booked, ManualHubKeepsItsPair, RecordedFromItsCa
<1> QED
  BY <1>1, <1>2, <1>3, <1>4, <1>5, <1>6, <1>7, <1>8, <1>9, <1>10, <1>11, <1>12, <1>13,
     <1>14, <1>15, <1>16, <1>17, <1>18, <1>19, Steps

\* A rollback that ends without a warning has put back all three files.
LEMMA RollbackStep ==
  ASSUME TypeOK, Held, InHand, Undoing, Next
  PROVE  \A k \in Clis : RolledBack(k)
<1> USE ProcsAssumption DEF Others, Same, SameSettings, SameResult, SameFiles, Procs
<1>1. CASE Tick
  BY <1>1, TickEffect DEF RolledBack
<1>2. CASE ByOthers
  BY <1>2, OutsideEffect DEF RolledBack
<1>3. ASSUME NEW c \in Clis, Type(c) PROVE \A k \in Clis : RolledBack(k)
  BY <1>3, TypeEffect DEF RolledBack
<1>4. ASSUME NEW p \in Procs, Kill(p) PROVE \A k \in Clis : RolledBack(k)
  BY <1>4, KillEffect, Alone DEF Idle, RolledBack
<1>5. ASSUME NEW p \in Procs, Lock(p) PROVE \A k \in Clis : RolledBack(k)
  BY <1>5, LockEffect, Alone DEF RolledBack
<1>6. ASSUME NEW p \in Procs, LockForCommand(p) PROVE \A k \in Clis : RolledBack(k)
  BY <1>6, CommandEffect, Alone DEF RolledBack
<1>7. ASSUME NEW p \in Procs, Returning(p) PROVE \A k \in Clis : RolledBack(k)
  BY <1>7, ReturningEffect, Alone DEF Idle, RolledBack
<1>8. ASSUME NEW p \in Procs, Register(p) PROVE \A k \in Clis : RolledBack(k)
  BY <1>8, RegisterEffect, Alone DEF RolledBack
<1>9. ASSUME NEW p \in Procs, SignIn(p) PROVE \A k \in Clis : RolledBack(k)
  BY <1>9, SignInEffect, Alone DEF RolledBack
<1>10. ASSUME NEW p \in Procs, Order(p) PROVE \A k \in Clis : RolledBack(k)
  BY <1>10, OrderEffect, Alone DEF RolledBack
<1>11. ASSUME NEW p \in Procs, KeepAccount(p) PROVE \A k \in Clis : RolledBack(k)
  BY <1>11, KeepAccountEffect, Alone DEF RolledBack
<1>12. ASSUME NEW p \in Procs, SaveKey(p) PROVE \A k \in Clis : RolledBack(k)
  BY <1>12, SaveKeyEffect, Alone DEF RolledBack
<1>13. ASSUME NEW p \in Procs, SaveCert(p) PROVE \A k \in Clis : RolledBack(k)
  BY <1>13, SaveCertEffect, Alone DEF RolledBack
<1>14. ASSUME NEW p \in Procs, Failing(p) PROVE \A k \in Clis : RolledBack(k)
  <2>1. CASE GivesUp(p)
    BY <1>14, <2>1, Failures, GivesUpEffect, Alone DEF Idle, RolledBack
  <2>2. CASE RollsBack(p)
    BY <1>14, <2>2, Failures, RollsBackEffect, Alone DEF RolledBack
  <2> QED
    BY <1>14, <2>1, <2>2, Failures
<1>15. ASSUME NEW p \in Procs, RenameFails(p) PROVE \A k \in Clis : RolledBack(k)
  <2>1. CASE GivesUp(p)
    BY <1>15, <2>1, RenameFailures, GivesUpEffect, Alone DEF Idle, RolledBack
  <2>2. CASE RollsBack(p)
    BY <1>15, <2>2, RenameFailures, RollsBackEffect, Alone DEF RolledBack
  <2> QED
    BY <1>15, <2>1, <2>2, RenameFailures
<1>16. ASSUME NEW p \in Procs, CommitTimer(p) PROVE \A k \in Clis : RolledBack(k)
  BY <1>16, CommitTimerEffect, Alone DEF RolledBack
<1>17. ASSUME NEW p \in Procs, CommitCommand(p) PROVE \A k \in Clis : RolledBack(k)
  BY <1>17, CommitCommandEffect, Alone DEF Idle, RolledBack
<1>18. ASSUME NEW p \in Procs, LastUndone(p) PROVE \A k \in Clis : RolledBack(k)
  <2>1. ASSUME reply'[p] # "unrestored" PROVE run[p].before = {files'}
    <3>1. PICK old \in run[p].before :
            files'.account = old.account /\ files'.cert = files.cert /\ files'.key = files.key
      BY <1>18, <2>1, LastUndoneEffect DEF Restores
    <3>2. /\ files.cert = old.cert /\ files.key = old.key
          /\ \A other \in run[p].before : other = old
      BY <1>18, <2>1, LastUndoneEffect DEF Restores, Undoing
    <3>3. old \in Files /\ files' \in Files
      BY <1>18, LastUndoneEffect DEF Restores, TypeOK, Run
    <3>4. files' = old
      BY <3>1, <3>2, <3>3 DEF Files
    <3> QED
      BY <3>2, <3>4
  <2> QED
    BY <1>18, <2>1, LastUndoneEffect DEF RolledBack
<1>19. ASSUME NEW p \in Procs, NextUndone(p) PROVE \A k \in Clis : RolledBack(k)
  BY <1>19, NextUndoneEffect, Alone DEF RolledBack
<1> QED
  BY <1>1, <1>2, <1>3, <1>4, <1>5, <1>6, <1>7, <1>8, <1>9, <1>10, <1>11, <1>12, <1>13,
     <1>14, <1>15, <1>16, <1>17, <1>18, <1>19, Steps

-----------------------------------------------------------------------------
(* The invariant, and what follows from it.                                *)

\* Both ways a hub is set up.
LEMMA InitInvariant ==
  Init => IInv
<1> SUFFICES ASSUME Init PROVE IInv
  OBVIOUS
<1> USE DEF Procs
<1>1. /\ \A p \in Procs : run[p] = Idle /\ reply[p] = "none"
      /\ run \in [Procs -> Run] /\ reply \in [Procs -> Answers]
      /\ issuing = {} /\ reported = FALSE /\ theirs = 1
  BY IdleTyped DEF Init, ManualHub, AcmeHub, InitWith, Answers
<1>2. Held /\ Purpose /\ InHand /\ Undoing
  BY <1>1 DEF Idle, Held, Purpose, InHand, Undoing, Critical, Ordering
<1>3. /\ tls \in Tls /\ files \in Files /\ files.account \in 0 .. Len(accounts)
      /\ certs \in Seq(CAs) /\ accounts \in Seq(Registered)
      /\ served = Loaded(tls.path) /\ tls.path \in {"own", "theirs"}
      /\ files.key = files.cert
      /\ Booked
  <2>1. CASE ManualHub
    BY <2>1, ManualTyped
       DEF ManualHub, InitWith, Files, Booked, ManualHubKeepsItsPair, RecordedFromItsCa, Manual
  <2>2. ASSUME NEW ca \in CAs, NEW contact \in Contacts, AcmeHub(ca, contact)
        PROVE  /\ tls \in Tls /\ files \in Files /\ files.account \in 0 .. Len(accounts)
               /\ certs \in Seq(CAs) /\ accounts \in Seq(Registered)
               /\ served = Loaded(tls.path) /\ tls.path \in {"own", "theirs"}
               /\ files.key = files.cert
               /\ Booked
    BY <2>2, CAsAssumption
       DEF AcmeHub, InitWith, Tls, Files, Registered, Booked, ManualHubKeepsItsPair,
           RecordedFromItsCa
  <2> QED
    BY <2>1, <2>2 DEF Init
<1>4. /\ served \subseteq [path: {"theirs", "own"}, cert: Nat \ {0}]
      /\ \A c, d \in served : c = d
  BY <1>1, <1>3 DEF Loaded, Whole, Files
<1>5. \A p \in Procs : /\ run[p].signed = 0 /\ run[p].fresh = 0 /\ run[p].got = 0
                       /\ run[p].before = {}
  BY <1>1 DEF Idle
<1>6. TypeOK
  <2>1. 0 \in 0 .. Len(accounts) /\ 0 \in 0 .. Len(certs)
    <3>1. Len(accounts) \in Nat /\ Len(certs) \in Nat
      BY <1>3
    <3> QED
      BY <3>1
  <2>2. \A p \in Procs :
          /\ {run[p].signed, run[p].fresh} \subseteq 0 .. Len(accounts)
          /\ run[p].got \in 0 .. Len(certs)
          /\ \A old \in run[p].before : old.account \in 0 .. Len(accounts)
    BY <1>5, <2>1
  <2>3. issuing \subseteq Procs /\ \A p, q \in issuing : p = q
    BY <1>1
  <2>4. theirs \in Nat \ {0}
    BY <1>1
  <2>5. reported \in BOOLEAN
    BY <1>1, Zenon
  <2> QED
    BY <1>1, <1>3, <1>4, <2>2, <2>3, <2>4, <2>5 DEF TypeOK
<1>7. Paired
  BY <1>1, <1>3 DEF Idle, Paired
<1> QED
  BY <1>2, <1>3, <1>6, <1>7 DEF IInv

\* Every step of every process keeps the invariant.
LEMMA NextInvariant ==
  IInv /\ [Next]_vars => IInv'
<1> SUFFICES ASSUME IInv, [Next]_vars PROVE IInv'
  OBVIOUS
<1>1. CASE Next
  <2> USE <1>1 DEF IInv
  <2>1. TypeOK'
    <3>1. Globals' /\ InBooks' /\ run' \in [Procs -> Run] /\ reply' \in [Procs -> Answers]
      BY GlobalsStep, InBooksStep, RunTyped, ReplyTyped
    <3>2. /\ theirs' \in Nat \ {0}
          /\ served' \subseteq [path: {"theirs", "own"}, cert: Nat \ {0}]
          /\ \A c, d \in served' : c = d
      BY ServedTyped
    <3> QED
      BY <3>1, <3>2 DEF TypeOK, Globals, InBooks
  <2>2. Held' /\ Purpose' /\ InHand' /\ Paired' /\ Undoing' /\ Booked'
    BY HeldStep, PurposeStep, InHandStep, PairedStep, UndoingStep, BookedStep
  <2> QED
    BY <2>1, <2>2
<1>2. CASE UNCHANGED vars
  <2>1. TypeOK'
    BY <1>2 DEF vars, IInv, TypeOK
  <2>2. Held' /\ Purpose' /\ InHand'
    BY <1>2 DEF vars, IInv, Held, Purpose, InHand
  <2>3. Booked'
    BY <1>2 DEF vars, IInv, Booked, ManualHubKeepsItsPair, RecordedFromItsCa
  <2>4. Paired' /\ Undoing'
    BY <1>2 DEF vars, IInv, Paired, Undoing, Loaded, Whole
  <2> QED
    BY <2>1, <2>2, <2>3, <2>4 DEF IInv
<1> QED
  BY <1>1, <1>2

\* The inductive invariant holds of every reachable state.
THEOREM Invariance ==
  Spec => []IInv
<1> QED
  BY InitInvariant, NextInvariant, PTL DEF Spec

\* Every variable keeps its type, for any CAs, terminals and bounds.
THEOREM TypeCorrect ==
  Spec => []TypeOK
<1>1. IInv => TypeOK
  BY DEF IInv
<1> QED
  BY <1>1, Invariance, PTL

\* No renewal in flight points a hub with a certificate of its owner's at the
\* hub's own files.
THEOREM ManualPairKept ==
  Spec => []ManualHubKeepsItsPair
<1>1. IInv => ManualHubKeepsItsPair
  BY DEF IInv, Booked
<1> QED
  BY <1>1, Invariance, PTL

\* What is recorded was issued, and registered, where the settings say.
THEOREM RecordedTruly ==
  Spec => []RecordedFromItsCa
<1>1. IInv => RecordedFromItsCa
  BY DEF IInv, Booked
<1> QED
  BY <1>1, Invariance, PTL

\* With nobody issuing, the key and the certificate match, or it was said.
THEOREM TornReported ==
  Spec => []TornIsReported
<1>1. IInv => TornIsReported
  BY DEF IInv, Paired, TornIsReported
<1> QED
  BY <1>1, Invariance, PTL

\* A rollback without a warning restores every file.
THEOREM RollbackComplete ==
  Spec => AllOrNothing
<1>1. IInv /\ [Next]_vars => [\A k \in Clis : RolledBack(k)]_vars
  BY RollbackStep DEF IInv
<1> QED
  BY <1>1, Invariance, PTL DEF Spec, AllOrNothing, RolledBack

-----------------------------------------------------------------------------
(* The token: the inductive invariant.                                     *)

Settings == [source: {"acme", "manual"}, challenge: {None, "http", "dns"}, edition: Nat]
Blocks == [zone: Zones, record: Zones \cup {None}, path: {None, "ours", "theirs"}]
States == [tls: Settings, cloudflare: SUBSET Blocks]
Texts == {None, Old, New}
Sources == {None, "flag", "env", "ours", "theirs"}
Within == {"token", "zone", "store", "push", "remember", "issue", "record", "stale", "undo"}
Without == {"start", "try", "done", "failed"}
Task ==
  [at: Within \cup Without, asked: TokenFlags, seen: SUBSET States, source: Sources,
   zone: Zones \cup {None}, kept: SUBSET Texts, issued: BOOLEAN]

Single(S) == \A x, y \in S : x = y

Shape ==
  /\ hub \in States /\ Single(hub.cloudflare)
  /\ secret \in [ours: Texts, theirs: {Old}]
  /\ home \in Zones
  /\ task \in [Runs -> Task]
  /\ chances \in [fault: Nat, move: Nat]
  /\ litter \in BOOLEAN

\* One run has the lock, and works only while it does.
AtWorkAlone ==
  /\ \A p \in Runs : task[p].at \in Within <=> p \in holder
  /\ holder \subseteq Runs /\ Single(holder)

\* It knows what it read.
Reads == \A p \in Runs : task[p].at \notin {"start", "done", "failed"} => task[p].seen # {}

Keeps(k) == Disposition(Seen(k), task[k].asked) = "keep"

\* A command that got past its plan has a use for its token.
HasUse(k) ==
  /\ task[k].at \notin {"start", "done", "failed"} =>
       TokenPlan(Seen(k), task[k].asked) \notin {"refuse", "not_due"}
  /\ task[k].at \in {"store", "issue", "record", "undo", "stale"} => ~task[k].asked.dns
  /\ task[k].at \in {"token", "zone"} => task[k].asked.dns \/ Keeps(k)
  /\ task[k].at \in {"store", "undo"} => Keeps(k)

\* The token it goes on with is the one it was given, and is still there.
Sourced(k) ==
  /\ task[k].at \in {"zone", "store"} =>
       /\ task[k].source # None
       /\ task[k].asked.token = "file" => task[k].source = "theirs"
       /\ task[k].asked.token = "flag" => task[k].source = "flag"
       /\ task[k].source = "ours" => secret.ours # None
  /\ task[k].at \in {"issue", "record"} /\ Keeps(k) =>
       /\ task[k].source \in {"ours", "theirs"} /\ task[k].zone # None
       /\ task[k].asked.token = "file" => task[k].source = "theirs"
       /\ task[k].asked.token = "flag" => task[k].source = "ours"
       /\ task[k].source = "ours" => secret.ours # None
  /\ task[k].at \in {"store", "push", "remember"} => task[k].zone # None

\* What it would put back is what the state may name, and no more.
Undoable(k) ==
  /\ task[k].kept # {} =>
       /\ task[k].at \in {"issue", "record", "undo"} /\ Keeps(k) /\ task[k].source = "ours"
       /\ Single(task[k].kept)
       /\ Path(hub) = "ours" => None \notin task[k].kept
       /\ ~litter /\ None \notin task[k].kept => Path(hub) = "ours"
  /\ task[k].at = "undo" => task[k].kept # {}
  /\ task[k].at = "stale" => Path(hub) = None

OfTimer ==
  /\ task[Renewer].at \notin {"try", "store", "push", "remember", "undo", "stale"}
  /\ task[Renewer].kept = {} /\ ~task[Renewer].asked.dns

\* A token at anago's own path is named, or somebody is about to see to it.
Accounted ==
  /\ ~litter /\ secret.ours # None
  /\ \A k \in Terminals : task[k].kept = {} /\ task[k].at # "stale"
  => Path(hub) = "ours"

KInv ==
  /\ Shape /\ AtWorkAlone /\ Reads
  /\ \A k \in Terminals : HasUse(k) /\ Sourced(k) /\ Undoable(k)
  /\ OfTimer /\ Accounted
  /\ TokenIsThere /\ OnlyForDns /\ RecordOfZone

-----------------------------------------------------------------------------
(* The token: states and tasks.                                            *)

LEMMA Paths ==
  /\ \A s : s.cloudflare = {} => Path(s) = None
  /\ \A s, b : s.cloudflare = {b} => Path(s) = b.path
  /\ \A s \in States : Path(s) \in {None, "ours", "theirs"}
BY DEF Path, States, Blocks

\* A hub's block, if there is one.
LEMMA Blocked ==
  ASSUME NEW s \in States, Single(s.cloudflare)
  PROVE  s.cloudflare = {} \/ \E b \in Blocks : s.cloudflare = {b} /\ Path(s) = b.path
<1>1. CASE s.cloudflare # {}
  <2>1. PICK b \in Blocks : s.cloudflare = {b}
    BY <1>1 DEF States, Single
  <2> QED
    BY <2>1, Paths
<1> QED
  BY <1>1

LEMMA SeenIs ==
  ASSUME Shape, NEW p \in Runs, task[p].seen # {}
  PROVE  Seen(p) \in States /\ Seen(p) \in task[p].seen
BY DEF Shape, Task, Seen

LEMMA Goes ==
  ASSUME NEW t \in Task, NEW at \in Within \cup Without
  PROVE  [t EXCEPT !.at = at] \in Task
BY DEF Task

LEMMA WaitingIs ==
  ASSUME NEW at \in Within \cup Without
  PROVE  /\ Waiting \in Task
         /\ [Waiting EXCEPT !.at = at] \in Task
<1>1. Waiting \in Task
  BY DEF Task, Waiting, NoTokenFlags, TokenFlags, Within, Without, Sources
<1> QED
  BY <1>1 DEF Task

-----------------------------------------------------------------------------
(* The token: a step of one run.                                           *)

\* What a run is about depends on its own task.
LEMMA SameTask ==
  ASSUME NEW k, task'[k] = task[k]
  PROVE  /\ HasUse(k)' <=> HasUse(k)
         /\ Seen(k)' = Seen(k)
         /\ Keeps(k)' <=> Keeps(k)
BY DEF HasUse, Keeps, Seen

\* p goes on as t.  It writes only with the lock; what is left to show is its own
\* part.
LEMMA StepOf ==
  ASSUME KInv, TokensAssumption, NEW p \in Runs, NEW t \in Task,
         task' = [task EXCEPT ![p] = t],
         hub' \in States, Single(hub'.cloudflare),
         secret' \in [ours: Texts, theirs: {Old}], home' \in Zones,
         chances' \in [fault: Nat, move: Nat], litter' \in BOOLEAN,
         holder' = (IF t.at \in Within THEN {p} ELSE holder \ {p}),
         p \notin holder => /\ t.at \in Within => holder = {}
                            /\ hub' = hub /\ secret' = secret /\ litter' = litter,
         t.at \notin {"start", "done", "failed"} => t.seen # {},
         p \in Terminals => HasUse(p)' /\ Sourced(p)' /\ Undoable(p)',
         p = Renewer => /\ t.at \notin {"try", "store", "push", "remember", "undo", "stale"}
                        /\ t.kept = {} /\ ~t.asked.dns,
         Accounted', TokenIsThere', OnlyForDns', RecordOfZone'
  PROVE  KInv'
<1>1. /\ task'[p] = t
      /\ \A q \in Runs \ {p} : task'[q] = task[q]
  BY DEF KInv, Shape
<1>2. Shape'
  <2>1. task' \in [Runs -> Task]
    BY DEF KInv, Shape
  <2> QED
    BY <2>1 DEF Shape
<1>3. AtWorkAlone'
  <2>1. /\ \A q \in Runs : task[q].at \in Within <=> q \in holder
        /\ holder \subseteq Runs /\ Single(holder)
    BY DEF KInv, AtWorkAlone
  <2>2. CASE t.at \in Within
    <3>1. holder \subseteq {p}
      BY <2>1, <2>2 DEF Single
    <3> QED
      BY <1>1, <2>1, <2>2, <3>1 DEF AtWorkAlone, Single
  <2>3. CASE t.at \notin Within
    BY <1>1, <2>1, <2>3 DEF AtWorkAlone, Single
  <2> QED
    BY <2>2, <2>3
<1>4. Reads'
  BY <1>1 DEF KInv, Reads
<1>5. ASSUME NEW k \in Terminals
      PROVE  HasUse(k)' /\ Sourced(k)' /\ Undoable(k)'
  <2>1. CASE k = p
    BY <2>1
  <2>2. CASE k # p
    <3>1. /\ k \in Runs /\ task'[k] = task[k] /\ task[k] \in Task
          /\ HasUse(k) /\ Sourced(k) /\ Undoable(k)
      BY <1>1, <2>2 DEF Runs, KInv, Shape
    <3>2. HasUse(k)' /\ (Keeps(k)' <=> Keeps(k))
      BY <3>1, SameTask
    <3>3. CASE p \notin holder
      <4>1. Sourced(k)'
        BY <3>1, <3>2, <3>3 DEF Sourced
      <4>2. Undoable(k)'
        BY <3>1, <3>2, <3>3 DEF Undoable, Path
      <4> QED
        BY <3>2, <4>1, <4>2
    <3>4. CASE p \in holder
      <4>1. k \notin holder
        BY <2>2, <3>4 DEF KInv, AtWorkAlone, Single
      <4>2. task[k].at \in Without
        BY <3>1, <4>1 DEF KInv, AtWorkAlone, Task
      <4>3. task[k].kept = {}
        BY <3>1, <4>2 DEF Undoable, Without
      <4> QED
        BY <3>1, <3>2, <4>2, <4>3 DEF Sourced, Undoable, Without
    <3> QED
      BY <3>3, <3>4
  <2> QED
    BY <2>1, <2>2
<1>6. OfTimer'
  <2>1. CASE p = Renewer
    BY <1>1, <2>1 DEF OfTimer
  <2>2. CASE p # Renewer
    BY <1>1, <2>2 DEF OfTimer, KInv, Runs
  <2> QED
    BY <2>1, <2>2
<1> QED
  BY <1>2, <1>3, <1>4, <1>5, <1>6 DEF KInv

\* A step that writes nothing leaves the hub's token as it is.
LEMMA Untouched ==
  ASSUME KInv, hub' = hub, secret' = secret
  PROVE  TokenIsThere' /\ OnlyForDns' /\ RecordOfZone'
BY DEF KInv, TokenIsThere, OnlyForDns, RecordOfZone, Path

\* Nor does it lose track of a file, unless the run had one to see to.
LEMMA StillAccounted ==
  ASSUME KInv, NEW p \in Runs, NEW t \in Task, task' = [task EXCEPT ![p] = t],
         Path(hub') = Path(hub), secret' = secret, litter' \in BOOLEAN,
         litter => litter',
         ~litter' => \/ p = Renewer
                     \/ t.kept # {} \/ t.at = "stale"
                     \/ task[p].kept = {} /\ task[p].at # "stale"
  PROVE  Accounted'
<1>1. /\ task'[p] = t
      /\ \A q \in Runs \ {p} : task'[q] = task[q]
  BY DEF KInv, Shape
<1> SUFFICES ASSUME ~litter', secret'.ours # None,
                    \A k \in Terminals : task'[k].kept = {} /\ task'[k].at # "stale"
             PROVE  Path(hub') = "ours"
  BY DEF Accounted
<1>2. ASSUME NEW k \in Terminals
      PROVE  task[k].kept = {} /\ task[k].at # "stale"
  <2>1. task'[k].kept = {} /\ task'[k].at # "stale"
    OBVIOUS
  <2>2. CASE k = p
    <3>1. p # Renewer => task[p].kept = {} /\ task[p].at # "stale"
      BY <1>1, <2>1, <2>2
    <3>2. p = Renewer => task[p].kept = {} /\ task[p].at # "stale"
      BY DEF KInv, OfTimer
    <3> QED
      BY <2>2, <3>1, <3>2
  <2>3. CASE k # p
    BY <1>1, <2>1, <2>3 DEF Runs
  <2> QED
    BY <2>2, <2>3
<1>3. ~litter
  OBVIOUS
<1> QED
  BY <1>2, <1>3 DEF KInv, Accounted

-----------------------------------------------------------------------------
(* The token: the steps that write nothing.                                *)

\* Where a run is, and what it has.
LEMMA RunAt ==
  ASSUME KInv, NEW p \in Runs
  PROVE  /\ task[p] \in Task
         /\ task[p].at \in Within \cup Without
         /\ p \in holder <=> task[p].at \in Within
         /\ p \in Terminals => HasUse(p) /\ Sourced(p) /\ Undoable(p)
         /\ p = Renewer => task[p].kept = {} /\ ~task[p].asked.dns
         /\ p \in Terminals \/ p = Renewer
         /\ p \in holder => holder = {p}
BY DEF KInv, Shape, AtWorkAlone, Task, OfTimer, Runs, Single

LEMMA Paused ==
  ASSUME KInv
  PROVE  /\ hub \in States /\ Single(hub.cloudflare)
         /\ secret \in [ours: Texts, theirs: {Old}]
         /\ home \in Zones /\ chances \in [fault: Nat, move: Nat] /\ litter \in BOOLEAN
BY DEF KInv, Shape

LEMMA SpentTypes ==
  ASSUME NEW c \in [fault: Nat, move: Nat], NEW f \in {"fault", "move"}, c[f] > 0
  PROVE  [c EXCEPT ![f] = @ - 1] \in [fault: Nat, move: Nat]
         /\ [c EXCEPT ![f] = @ - 1] # c
<1>1. c[f] - 1 \in Nat /\ c[f] - 1 # c[f]
  OBVIOUS
<1> QED
  BY <1>1

\* A run that ends is done with everything.
LEMMA Ended ==
  ASSUME KInv, TokensAssumption,
         NEW p \in Runs, NEW how \in {"done", "failed"}, Ends(p, how),
         hub' \in States, Single(hub'.cloudflare),
         secret' \in [ours: Texts, theirs: {Old}], home' \in Zones,
         chances' \in [fault: Nat, move: Nat], litter' \in BOOLEAN,
         p \notin holder => hub' = hub /\ secret' = secret /\ litter' = litter,
         Accounted', TokenIsThere', OnlyForDns', RecordOfZone'
  PROVE  KInv'
<1> DEFINE t == [Waiting EXCEPT !.at = how]
<1>1. /\ how \in Without /\ how \notin Within /\ how \in {"start", "done", "failed"}
  BY DEF Within, Without
<1>2. t \in Task
  BY <1>1, WaitingIs
<1>3. t.at = how /\ t.kept = {} /\ ~t.asked.dns
  BY DEF Waiting, NoTokenFlags
<1>4. task' = [task EXCEPT ![p] = t] /\ holder' = holder \ {p}
  BY DEF Ends, Put
<1>5. task'[p] = t
  BY <1>4 DEF KInv, Shape
<1> HIDE DEF t
<1>6. HasUse(p)' /\ Sourced(p)' /\ Undoable(p)'
  BY <1>1, <1>3, <1>5 DEF HasUse, Sourced, Undoable
<1> QED
  BY <1>1, <1>2, <1>3, <1>4, <1>6, StepOf

LEMMA EndedQuietly ==
  ASSUME KInv, TokensAssumption,
         NEW p \in Runs, NEW how \in {"done", "failed"}, Ends(p, how),
         hub' = hub, secret' = secret, home' = home,
         chances' \in [fault: Nat, move: Nat], litter' \in BOOLEAN, litter => litter',
         p \notin holder => litter' = litter,
         ~litter' => task[p].kept = {} /\ task[p].at # "stale"
  PROVE  KInv'
<1>1. Accounted'
  <2> DEFINE t == [Waiting EXCEPT !.at = how]
  <2>1. t \in Task
    BY WaitingIs DEF Within, Without
  <2>2. task' = [task EXCEPT ![p] = t]
    BY DEF Ends, Put
  <2> HIDE DEF t
  <2> QED
    BY <2>1, <2>2, StillAccounted
<1> QED
  BY <1>1, Ended, Untouched, Paused

\* A run that fails gives back what it wrote, or has written nothing.
LEMMA Failed ==
  ASSUME KInv, TokensAssumption, NEW p \in Runs, Fail(p),
         task[p].at \in {"token", "zone", "store", "push", "remember", "issue", "record"},
         hub' = hub, secret' = secret, litter' = litter, home' = home,
         chances' \in [fault: Nat, move: Nat]
  PROVE  KInv'
<1>1. CASE task[p].kept = {}
  BY <1>1, EndedQuietly, Paused DEF Fail
<1>2. CASE task[p].kept # {}
  <2> DEFINE t == [task[p] EXCEPT !.at = "undo"]
  <2>1. p \in Terminals /\ task[p] \in Task /\ HasUse(p) /\ Sourced(p) /\ Undoable(p)
        /\ holder = {p}
    BY <1>2, RunAt DEF Within
  <2>2. /\ t \in Task /\ t.at = "undo" /\ t.kept = task[p].kept /\ t.asked = task[p].asked
        /\ t.seen = task[p].seen /\ t.source = task[p].source /\ t.zone = task[p].zone
    BY <2>1, Goes DEF Within, Without, Task
  <2>3. task' = [task EXCEPT ![p] = t] /\ holder' = holder
    BY <1>2 DEF Fail, Go, Put
  <2>4. task'[p] = t
    BY <2>3 DEF KInv, Shape
  <2> HIDE DEF t
  <2>5. Seen(p)' = Seen(p) /\ Keeps(p)' = Keeps(p)
    BY <2>2, <2>4 DEF Seen, Keeps
  <2>6. t.seen # {}
    BY <2>2 DEF KInv, Reads
  <2>7. HasUse(p)' /\ Sourced(p)' /\ Undoable(p)'
    <3>1. Keeps(p) /\ ~task[p].asked.dns
      BY <1>2, <2>1 DEF Undoable, HasUse
    <3>2. HasUse(p)'
      BY <2>1, <2>2, <2>4, <2>5, <3>1 DEF HasUse
    <3>3. Sourced(p)'
      BY <2>2, <2>4 DEF Sourced
    <3>4. Undoable(p)'
      BY <1>2, <2>1, <2>2, <2>4, <2>5 DEF Undoable, Path
    <3> QED
      BY <3>2, <3>3, <3>4
  <2>8. Accounted'
    BY <1>2, <2>2, <2>3, StillAccounted, Paused
  <2>9. holder' = (IF t.at \in Within THEN {p} ELSE holder \ {p}) /\ p \in holder
    BY <2>1, <2>2, <2>3 DEF Within
  <2>10. p # Renewer
    BY <2>1 DEF TokensAssumption
  <2> QED
    BY <2>2, <2>3, <2>6, <2>7, <2>8, <2>9, <2>10, StepOf, Untouched, Paused
<1> QED
  BY <1>1, <1>2

\* A run that goes on, and writes nothing.
LEMMA Onward ==
  ASSUME KInv, TokensAssumption, NEW p \in Runs, NEW t \in Task, Put(p, t),
         UNCHANGED <<hub, secret, home, litter, chances>>,
         holder' = (IF t.at \in Within THEN {p} ELSE holder \ {p}),
         p \notin holder /\ t.at \in Within => holder = {},
         t.seen # {}, t.kept = task[p].kept, task[p].at # "stale",
         p \in Terminals => HasUse(p)' /\ Sourced(p)' /\ Undoable(p)',
         p = Renewer => t.at \notin {"try", "store", "push", "remember", "undo", "stale"}
                        /\ ~t.asked.dns
  PROVE  KInv'
<1>1. task' = [task EXCEPT ![p] = t]
  BY DEF Put
<1>2. p = Renewer => task[p].kept = {}
  BY RunAt
<1>3. litter' \in BOOLEAN /\ (litter => litter')
  BY Paused
<1>4. Accounted'
  BY <1>1, <1>3, StillAccounted
<1> QED
  BY <1>1, <1>2, <1>4, StepOf, Untouched, Paused

LEMMA TypeKeeps ==
  ASSUME KInv, TokensAssumption,
         NEW k \in Terminals, NEW asked \in TokenFlags, TypeRenewal(k, asked)
  PROVE  KInv'
<1> DEFINE t == [Waiting EXCEPT !.at = "try", !.asked = asked, !.seen = {hub}]
<1>1. k \in Runs /\ k # Renewer /\ task[k].at = "start"
  BY DEF Runs, TokensAssumption, TypeRenewal
<1>2. k \notin holder /\ task[k].kept = {}
  BY <1>1, RunAt DEF Within, Undoable
<1>3. /\ t \in Task /\ t.at = "try" /\ t.asked = asked /\ t.seen = {hub} /\ t.kept = {}
  <2>1. Waiting \in Task /\ Waiting.kept = {} /\ hub \in States
    BY WaitingIs, Paused DEF Waiting, Without
  <2>2. "try" \in Within \cup Without
    BY DEF Without
  <2> QED
    BY <2>1, <2>2 DEF Task
<1>4. Put(k, t)
  BY DEF TypeRenewal
<1>5. task'[k] = t
  BY <1>1, <1>4 DEF KInv, Shape, Put
<1> HIDE DEF t
<1>6. Seen(k)' = hub
  BY <1>3, <1>5 DEF Seen
<1>7. HasUse(k)' /\ Sourced(k)' /\ Undoable(k)'
  BY <1>3, <1>5, <1>6 DEF HasUse, Sourced, Undoable, TypeRenewal
<1>8. holder' = (IF t.at \in Within THEN {k} ELSE holder \ {k}) /\ t.at \notin Within
  BY <1>2, <1>3 DEF TypeRenewal, Within
<1> QED
  BY <1>1, <1>2, <1>3, <1>4, <1>7, <1>8, Onward DEF TypeRenewal, Outside

LEMMA BusyKeeps ==
  ASSUME KInv, TokensAssumption, NEW k \in Terminals, FoundBusy(k)
  PROVE  KInv'
<1>1. k \in Runs /\ task[k].kept = {} /\ task[k].at # "stale"
  BY RunAt DEF Runs, FoundBusy, Undoable
<1> QED
  BY <1>1, EndedQuietly, Paused DEF FoundBusy, Outside

LEMMA LockKeeps ==
  ASSUME KInv, TokensAssumption, NEW k \in Terminals, TakeLock(k)
  PROVE  KInv'
<1> DEFINE plan == TokenPlan(Seen(k), task[k].asked)
           at == IF plan = "push" \/ Disposition(Seen(k), task[k].asked) = "keep" THEN "token"
                 ELSE IF plan = "reissue" THEN "issue" ELSE "record"
           t == [task[k] EXCEPT !.at = at]
<1>1. /\ k \in Runs /\ k # Renewer /\ task[k].at = "try" /\ holder = {} /\ holder' = {k}
      /\ Put(k, t)
  BY DEF Runs, TokensAssumption, TakeLock, Go
<1>2. /\ task[k] \in Task /\ HasUse(k) /\ Undoable(k) /\ task[k].kept = {}
  BY <1>1, RunAt DEF Undoable
<1>3. /\ plan \notin {"refuse", "not_due"} /\ task[k].seen # {}
  BY <1>1, <1>2 DEF HasUse, KInv, Reads
<1>4. plan = "push" <=> task[k].asked.dns
  BY DEF TokenPlan
<1>5. at \in {"token", "issue", "record"}
  OBVIOUS
<1>6. at = "token" => task[k].asked.dns \/ Keeps(k)
  BY <1>4 DEF Keeps
<1>7. at # "token" => ~task[k].asked.dns /\ ~Keeps(k)
  BY <1>4 DEF Keeps
<1> HIDE DEF at
<1>8. /\ t \in Task /\ t.at = at /\ t.kept = {} /\ t.seen = task[k].seen
      /\ t.asked = task[k].asked
  BY <1>2, <1>5, Goes DEF Within, Without, Task
<1>9. task'[k] = t
  BY <1>1 DEF KInv, Shape, Put
<1> HIDE DEF t
<1>10. Seen(k)' = Seen(k) /\ Keeps(k)' = Keeps(k) /\ t.at \in Within
  BY <1>5, <1>8, <1>9 DEF Seen, Keeps, Within
<1> HIDE DEF plan
<1>11. HasUse(k)'
  BY <1>3, <1>5, <1>6, <1>7, <1>8, <1>9, <1>10 DEF HasUse, plan
<1>12. Sourced(k)' /\ Undoable(k)'
  BY <1>5, <1>7, <1>8, <1>9, <1>10 DEF Sourced, Undoable
<1> QED
  BY <1>1, <1>2, <1>3, <1>8, <1>10, <1>11, <1>12, Onward DEF TakeLock, Outside

LEMMA TickKeeps ==
  ASSUME KInv, TokensAssumption, RenewerRuns
  PROVE  KInv'
<1> DEFINE t == [Waiting EXCEPT !.at = IF hub.tls.challenge = "dns" THEN "token" ELSE "issue",
                                !.seen = {hub}, !.asked.moves = "order"]
<1>1. /\ t \in Task /\ t.at \in {"token", "issue"} /\ t.kept = {} /\ t.seen # {} /\ ~t.asked.dns
  <2> DEFINE at == IF hub.tls.challenge = "dns" THEN "token" ELSE "issue"
             asked == [Waiting.asked EXCEPT !.moves = "order"]
  <2>1. /\ Waiting \in Task /\ Waiting.kept = {} /\ hub \in States
    BY WaitingIs, Paused DEF Waiting, Without
  <2>2. at \in Within \cup Without /\ at \in {"token", "issue"}
    BY DEF Within
  <2>3. asked \in TokenFlags /\ ~asked.dns
    BY DEF Waiting, NoTokenFlags, TokenFlags
  <2>4. t = [Waiting EXCEPT !.at = at, !.seen = {hub}, !.asked = asked]
    BY <2>1 DEF Task
  <2> HIDE DEF at, asked, t
  <2> QED
    BY <2>1, <2>2, <2>3, <2>4 DEF Task
<1>2. Renewer \in Runs /\ Put(Renewer, t) /\ holder = {} /\ holder' = {Renewer}
      /\ task[Renewer].at = "start" /\ Renewer \notin Terminals
  BY DEF Runs, RenewerRuns, TokensAssumption
<1> HIDE DEF t
<1>3. task[Renewer].kept = {}
  BY <1>2, RunAt
<1> QED
  BY <1>1, <1>2, <1>3, Onward DEF RenewerRuns, Outside, Within

LEMMA MovedKeeps ==
  ASSUME KInv, TokensAssumption, NEW p \in Runs, HubMoved(p)
  PROVE  KInv'
BY Failed, Paused DEF HubMoved, Outside

LEMMA StepFailsKeeps ==
  ASSUME KInv, TokensAssumption, NEW p \in Runs, StepFails(p)
  PROVE  KInv'
<1>1. chances' \in [fault: Nat, move: Nat]
  BY SpentTypes, Paused DEF StepFails, UseChance
<1> QED
  BY <1>1, Failed DEF StepFails

LEMMA CleanupFailsKeeps ==
  ASSUME KInv, TokensAssumption, NEW k \in Terminals, CleanupFails(k)
  PROVE  KInv'
<1>1. chances' \in [fault: Nat, move: Nat]
  BY SpentTypes, Paused DEF CleanupFails, UseChance
<1>2. k \in Runs /\ k \in holder
  BY RunAt DEF Runs, CleanupFails, Within
<1>3. PICK how \in {"done", "failed"} : Ends(k, how)
  BY DEF CleanupFails
<1> QED
  BY <1>1, <1>2, <1>3, EndedQuietly DEF CleanupFails

LEMMA KilledKeeps ==
  ASSUME KInv, TokensAssumption, NEW p \in Runs, Killed(p)
  PROVE  KInv'
<1>1. chances' \in [fault: Nat, move: Nat]
  BY SpentTypes, Paused DEF Killed, UseChance
<1>2. litter' \in BOOLEAN /\ (litter => litter')
      /\ (~litter' => task[p].kept = {} /\ task[p].at # "stale")
  BY Paused DEF Killed
<1>3. p \notin holder => litter' = litter
  <2>1. SUFFICES ASSUME p \notin holder
                 PROVE  task[p].kept = {} /\ task[p].at # "stale"
    BY Paused DEF Killed
  <2>2. task[p].at \notin Within
    BY <2>1, RunAt
  <2>3. p \in Terminals => task[p].kept = {}
    BY <2>2, RunAt DEF Undoable, Within
  <2> QED
    BY <2>2, <2>3, RunAt DEF Within
<1> QED
  BY <1>1, <1>2, <1>3, EndedQuietly DEF Killed

LEMMA DomainMovesKeeps ==
  ASSUME KInv, DomainMoves
  PROVE  KInv'
<1>1. chances' \in [fault: Nat, move: Nat]
  BY SpentTypes, Paused DEF DomainMoves, UseChance
<1>2. Shape' /\ AtWorkAlone' /\ Reads' /\ OfTimer'
  BY <1>1 DEF KInv, DomainMoves, Shape, AtWorkAlone, Reads, OfTimer
<1>3. ASSUME NEW k \in Terminals
      PROVE  HasUse(k)' /\ Sourced(k)' /\ Undoable(k)'
  <2>1. task' = task /\ HasUse(k) /\ Sourced(k) /\ Undoable(k)
    BY DEF KInv, DomainMoves
  <2>2. HasUse(k)' /\ (Keeps(k)' <=> Keeps(k))
    BY <2>1, SameTask
  <2> QED
    BY <2>1, <2>2 DEF DomainMoves, Sourced, Undoable, Path
<1>4. Accounted' /\ TokenIsThere' /\ OnlyForDns' /\ RecordOfZone'
  BY Untouched DEF KInv, DomainMoves, Accounted, Path
<1> QED
  BY <1>2, <1>3, <1>4 DEF KInv

LEMMA ReadKeeps ==
  ASSUME KInv, TokensAssumption, NEW p \in Runs, Read(p)
  PROVE  KInv'
<1> DEFINE source == SourceOf(Seen(p), task[p].asked)
<1>1. CASE ~Readable(source)
  BY <1>1, Failed, Paused DEF Read, Outside
<1>2. CASE Readable(source)
  <2> DEFINE t == [task[p] EXCEPT !.at = "zone", !.source = source]
  <2>1. /\ task[p] \in Task /\ task[p].at = "token" /\ p \in holder /\ holder = {p}
        /\ task[p].seen # {}
    BY RunAt DEF Read, Within, KInv, Reads
  <2>2. task[p].kept = {}
    BY <2>1, RunAt DEF Undoable
  <2>3. /\ source \in {"flag", "env", "ours", "theirs"}
        /\ source = "ours" => secret.ours # None
    BY <1>2 DEF Readable
  <2>4. /\ task[p].asked.token = "file" => source = "theirs"
        /\ task[p].asked.token = "flag" => source = "flag"
    BY DEF SourceOf
  <2>5. Put(p, t) /\ holder' = holder
    BY <1>2 DEF Read
  <2> HIDE DEF source
  <2>6. /\ t \in Task /\ t.at = "zone" /\ t.source = source /\ t.kept = {}
        /\ t.seen = task[p].seen /\ t.asked = task[p].asked
    BY <2>1, <2>2, <2>3 DEF Task, Within, Without, Sources
  <2>7. task'[p] = t
    BY <2>5 DEF KInv, Shape, Put
  <2> HIDE DEF t
  <2>8. Seen(p)' = Seen(p) /\ Keeps(p)' = Keeps(p)
    BY <2>6, <2>7 DEF Seen, Keeps
  <2>9. p \in Terminals => HasUse(p)' /\ Sourced(p)' /\ Undoable(p)'
    <3>1. SUFFICES ASSUME p \in Terminals
                   PROVE  HasUse(p)' /\ Sourced(p)' /\ Undoable(p)'
      OBVIOUS
    <3>2. HasUse(p)
      BY <3>1, RunAt
    <3>3. HasUse(p)'
      BY <2>1, <2>6, <2>7, <2>8, <3>2 DEF HasUse
    <3>4. Sourced(p)'
      BY <2>3, <2>4, <2>6, <2>7 DEF Sourced, Read, None
    <3>5. Undoable(p)'
      BY <2>6, <2>7 DEF Undoable
    <3> QED
      BY <3>3, <3>4, <3>5
  <2>10. p = Renewer => ~t.asked.dns
    BY <2>6, RunAt
  <2> QED
    BY <2>1, <2>2, <2>5, <2>6, <2>9, <2>10, Onward DEF Read, Outside, Within
<1> QED
  BY <1>1, <1>2

LEMMA FindZoneKeeps ==
  ASSUME KInv, TokensAssumption, NEW p \in Runs, FindZone(p)
  PROVE  KInv'
<1> DEFINE at == IF task[p].asked.dns THEN "push" ELSE IF p = Renewer THEN "issue" ELSE "store"
           t == [task[p] EXCEPT !.zone = home, !.at = at]
<1>1. /\ task[p] \in Task /\ task[p].at = "zone" /\ p \in holder /\ holder = {p}
      /\ task[p].seen # {} /\ home \in Zones /\ home # None
  BY RunAt, Paused DEF FindZone, Within, KInv, Reads, TokensAssumption, None
<1>2. task[p].kept = {}
  BY <1>1, RunAt DEF Undoable
<1>3. /\ at \in {"push", "issue", "store"}
      /\ at = "push" <=> task[p].asked.dns
      /\ p \in Terminals /\ ~task[p].asked.dns => at = "store"
      /\ p = Renewer => at = "issue"
  BY RunAt DEF TokensAssumption
<1>4. Put(p, t)
  BY DEF FindZone
<1> HIDE DEF at
<1>5. /\ t \in Task /\ t.at = at /\ t.source = task[p].source /\ t.kept = {} /\ t.zone = home
      /\ t.seen = task[p].seen /\ t.asked = task[p].asked
  BY <1>1, <1>2, <1>3 DEF Task, Within, Without
<1>6. task'[p] = t
  BY <1>4 DEF KInv, Shape, Put
<1> HIDE DEF t
<1>7. Seen(p)' = Seen(p) /\ Keeps(p)' = Keeps(p)
  BY <1>5, <1>6 DEF Seen, Keeps
<1>8. p \in Terminals => HasUse(p)' /\ Sourced(p)' /\ Undoable(p)'
  <2>1. SUFFICES ASSUME p \in Terminals
                 PROVE  HasUse(p)' /\ Sourced(p)' /\ Undoable(p)'
    OBVIOUS
  <2>2. HasUse(p) /\ Sourced(p)
    BY <2>1, RunAt
  <2>3. HasUse(p)'
    BY <1>1, <1>3, <1>5, <1>6, <1>7, <2>1, <2>2 DEF HasUse
  <2>4. Sourced(p)'
    BY <1>1, <1>3, <1>5, <1>6, <2>1, <2>2 DEF Sourced, FindZone
  <2>5. Undoable(p)'
    BY <1>3, <1>5, <1>6 DEF Undoable
  <2> QED
    BY <2>3, <2>4, <2>5
<1>9. p = Renewer => ~t.asked.dns
  BY <1>5, RunAt
<1> QED
  BY <1>1, <1>2, <1>3, <1>4, <1>5, <1>8, <1>9, Onward DEF FindZone, Outside, Within

LEMMA PushKeeps ==
  ASSUME KInv, TokensAssumption, NEW k \in Terminals, Push(k)
  PROVE  KInv'
<1> DEFINE t == [task[k] EXCEPT !.at = "remember"]
<1>1. /\ k \in Runs /\ k # Renewer /\ HasUse(k) /\ Sourced(k) /\ Undoable(k)
      /\ task[k] \in Task /\ task[k].at = "push" /\ k \in holder /\ holder = {k}
      /\ task[k].seen # {}
  BY RunAt DEF Push, Within, KInv, Reads, Runs, TokensAssumption
<1>2. task[k].kept = {} /\ Put(k, t)
  BY <1>1 DEF Undoable, Push, Go
<1>3. /\ t \in Task /\ t.at = "remember" /\ t.source = task[k].source /\ t.kept = {}
      /\ t.zone = task[k].zone /\ t.seen = task[k].seen /\ t.asked = task[k].asked
  BY <1>1, <1>2, Goes DEF Within, Without, Task
<1>4. task'[k] = t
  BY <1>1, <1>2 DEF KInv, Shape, Put
<1> HIDE DEF t
<1>5. Seen(k)' = Seen(k) /\ Keeps(k)' = Keeps(k)
  BY <1>3, <1>4 DEF Seen, Keeps
<1>6. HasUse(k)' /\ Sourced(k)' /\ Undoable(k)'
  BY <1>1, <1>3, <1>4, <1>5 DEF HasUse, Sourced, Undoable
<1> QED
  BY <1>1, <1>2, <1>3, <1>6, Onward DEF Push, Outside, Within

LEMMA IssueKeeps ==
  ASSUME KInv, TokensAssumption, NEW p \in Runs, Issue(p)
  PROVE  KInv'
<1> DEFINE t == [task[p] EXCEPT !.at = "record", !.issued = TRUE]
<1>1. /\ task[p] \in Task /\ task[p].at = "issue" /\ p \in holder /\ holder = {p}
      /\ task[p].seen # {}
  BY RunAt DEF Issue, Within, KInv, Reads
<1>2. Put(p, t)
  BY DEF Issue
<1>3. /\ t \in Task /\ t.at = "record" /\ t.source = task[p].source /\ t.kept = task[p].kept
      /\ t.zone = task[p].zone /\ t.seen = task[p].seen /\ t.asked = task[p].asked
  BY <1>1 DEF Within, Without, Task
<1>4. task'[p] = t
  BY <1>2 DEF KInv, Shape, Put
<1> HIDE DEF t
<1>5. Seen(p)' = Seen(p) /\ Keeps(p)' = Keeps(p)
  BY <1>3, <1>4 DEF Seen, Keeps
<1>6. p \in Terminals => HasUse(p)' /\ Sourced(p)' /\ Undoable(p)'
  <2>1. SUFFICES ASSUME p \in Terminals
                 PROVE  HasUse(p)' /\ Sourced(p)' /\ Undoable(p)'
    OBVIOUS
  <2>2. HasUse(p) /\ Sourced(p) /\ Undoable(p)
    BY <2>1, RunAt
  <2>3. HasUse(p)'
    BY <1>1, <1>3, <1>4, <1>5, <2>2 DEF HasUse
  <2>4. Sourced(p)'
    BY <1>1, <1>3, <1>4, <1>5, <2>2 DEF Sourced, Issue
  <2>5. Undoable(p)'
    BY <1>1, <1>3, <1>4, <1>5, <2>2 DEF Undoable, Issue, Path
  <2> QED
    BY <2>3, <2>4, <2>5
<1>7. p = Renewer => ~t.asked.dns
  BY <1>3, RunAt
<1> QED
  BY <1>1, <1>2, <1>3, <1>6, <1>7, Onward DEF Issue, Outside, Within

-----------------------------------------------------------------------------
(* The token: what becomes of the Cloudflare block.                        *)

LEMMA BlockTypes ==
  ASSUME NEW b \in Blocks, NEW zone \in Zones, NEW path \in {None, "ours", "theirs"}
  PROVE  /\ BlockIn(b, zone, path) \in Blocks
         /\ BlockIn(b, zone, path).path = path
         /\ BlockIn(b, zone, path).record \in {None, b.record}
         /\ b.record \in {None, b.zone} =>
              BlockIn(b, zone, path).record \in {None, BlockIn(b, zone, path).zone}
BY DEF BlockIn, Blocks

LEMMA AppliedIs ==
  ASSUME NEW s \in States, Single(s.cloudflare), NEW asked \in TokenFlags,
         NEW zone \in Zones \cup {None}, NEW path \in Sources,
         Disposition(s, asked) = "keep" => zone \in Zones /\ path \in {"ours", "theirs"},
         \A b \in s.cloudflare : b.record \in {None, b.zone}
  PROVE  LET a == Applied(s, asked, zone, path) IN
         /\ a \in States /\ Single(a.cloudflare)
         /\ \A b \in a.cloudflare : b.record \in {None, b.zone}
         /\ a.tls.challenge = Resulting(s, asked)
         /\ Disposition(s, asked) = "keep" => Path(a) = path
         /\ Disposition(s, asked) = "forget" => Path(a) = None
         /\ Disposition(s, asked) = "unchanged" => Path(a) = Path(s)
<1> DEFINE a == Applied(s, asked, zone, path)
           d == Disposition(s, asked)
           settings == [source    |-> "acme",
                        challenge |-> Resulting(s, asked),
                        edition   |-> s.tls.edition + (IF asked.moves = "email" THEN 1 ELSE 0)]
           flare == CASE d = "unchanged" -> s.cloudflare
                      [] d = "forget"    -> {[b EXCEPT !.path = None] : b \in s.cloudflare}
                      [] d = "keep"      -> IF s.cloudflare = {} THEN {Block(zone, None, path)}
                                            ELSE {BlockIn(b, zone, path) : b \in s.cloudflare}
<1>1. a = [tls |-> settings, cloudflare |-> flare]
  BY DEF Applied
<1>2. Resulting(s, asked) \in {None, "http", "dns"} /\ s.tls \in Settings
  BY DEF Resulting, States, Settings, TokenFlags
<1>3. settings \in Settings /\ settings.challenge = Resulting(s, asked)
  BY <1>2 DEF Settings
<1>4. d \in {"keep", "forget", "unchanged"}
  BY DEF Disposition
<1> HIDE DEF settings
<1>5. /\ flare \in SUBSET Blocks /\ Single(flare)
      /\ \A b \in flare : b.record \in {None, b.zone}
      /\ d = "keep" => \A r : r.cloudflare = flare => Path(r) = path
      /\ d = "forget" => \A r : r.cloudflare = flare => Path(r) = None
      /\ d = "unchanged" => \A r : r.cloudflare = flare => Path(r) = Path(s)
  <2>1. s.cloudflare \in SUBSET Blocks
    BY DEF States
  <2>2. CASE d = "unchanged"
    <3>1. flare = s.cloudflare
      BY <2>2
    <3> HIDE DEF d, flare
    <3>2. \A r : r.cloudflare = flare => Path(r) = Path(s)
      BY <3>1 DEF Path
    <3> QED
      BY <2>1, <2>2, <3>1, <3>2
  <2>3. CASE d = "forget"
    <3>1. flare = {[b EXCEPT !.path = None] : b \in s.cloudflare}
      BY <2>3
    <3> HIDE DEF d, flare
    <3>2. CASE s.cloudflare = {}
      BY <2>3, <3>1, <3>2, Paths DEF Single
    <3>3. ASSUME NEW b \in Blocks, s.cloudflare = {b}
          PROVE  <1>5
      <4> DEFINE c == [b EXCEPT !.path = None]
      <4>1. flare = {c}
        BY <3>1, <3>3
      <4>2. c \in Blocks /\ c.path = None /\ c.record = b.record /\ c.zone = b.zone
        BY DEF Blocks
      <4> HIDE DEF c
      <4>3. \A r : r.cloudflare = flare => Path(r) = None
        BY <4>1, <4>2, Paths
      <4>4. \A x \in flare : x.record \in {None, x.zone}
        BY <3>3, <4>1, <4>2
      <4> QED
        BY <2>3, <4>1, <4>2, <4>3, <4>4 DEF Single
    <3> QED
      BY <3>2, <3>3, Blocked
  <2>4. CASE d = "keep"
    <3>1. flare = IF s.cloudflare = {} THEN {Block(zone, None, path)}
                  ELSE {BlockIn(b, zone, path) : b \in s.cloudflare}
      BY <2>4
    <3>2. zone \in Zones /\ path \in {None, "ours", "theirs"}
      BY <2>4
    <3> HIDE DEF d, flare
    <3>3. CASE s.cloudflare = {}
      <4> DEFINE c == Block(zone, None, path)
      <4>1. flare = {c}
        BY <3>1, <3>3
      <4>2. c \in Blocks /\ c.path = path /\ c.record = None
        BY <3>2 DEF Blocks, Block
      <4> HIDE DEF c
      <4>3. \A r : r.cloudflare = flare => Path(r) = path
        BY <4>1, <4>2, Paths
      <4> QED
        BY <2>4, <4>1, <4>2, <4>3 DEF Single
    <3>4. ASSUME NEW b \in Blocks, s.cloudflare = {b}
          PROVE  <1>5
      <4> DEFINE c == BlockIn(b, zone, path)
      <4>1. flare = {c}
        BY <3>1, <3>4
      <4>2. c \in Blocks /\ c.path = path /\ c.record \in {None, c.zone}
        BY <3>2, <3>4, BlockTypes
      <4> HIDE DEF c
      <4>3. \A r : r.cloudflare = flare => Path(r) = path
        BY <4>1, <4>2, Paths
      <4> QED
        BY <2>4, <4>1, <4>2, <4>3 DEF Single
    <3> QED
      BY <3>3, <3>4, Blocked
  <2> QED
    BY <1>4, <2>2, <2>3, <2>4
<1> HIDE DEF d, flare, a
<1>6. a.cloudflare = flare /\ a.tls = settings /\ a \in States
  BY <1>1, <1>3, <1>5 DEF States
<1>7. /\ a \in States /\ Single(a.cloudflare)
      /\ \A b \in a.cloudflare : b.record \in {None, b.zone}
      /\ a.tls.challenge = Resulting(s, asked)
      /\ d = "keep" => Path(a) = path
      /\ d = "forget" => Path(a) = None
      /\ d = "unchanged" => Path(a) = Path(s)
  BY <1>3, <1>5, <1>6
<1> QED
  BY <1>7 DEF a, d

LEMMA RecordedIs ==
  ASSUME NEW s \in States, Single(s.cloudflare), NEW zone \in Zones \cup {None},
         \A b \in s.cloudflare : b.record \in {None, b.zone}
  PROVE  LET a == Recorded(s, zone) IN
         /\ a \in States /\ Single(a.cloudflare) /\ Path(a) = Path(s)
         /\ \A b \in a.cloudflare : b.record \in {None, b.zone}
         /\ a.tls.challenge = s.tls.challenge
<1> DEFINE a == Recorded(s, zone)
           settings == [s.tls EXCEPT !.edition = @ + 1]
           flare == IF zone = None THEN s.cloudflare
                    ELSE {BlockIn(b, zone, b.path) : b \in s.cloudflare}
<1>1. a = [tls |-> settings, cloudflare |-> flare]
  BY DEF Recorded
<1>2. settings \in Settings /\ settings.challenge = s.tls.challenge
  BY DEF States, Settings
<1> HIDE DEF settings
<1>3. /\ flare \in SUBSET Blocks /\ Single(flare)
      /\ \A b \in flare : b.record \in {None, b.zone}
      /\ \A r : r.cloudflare = flare => Path(r) = Path(s)
  <2>1. CASE flare = s.cloudflare
    <3>1. s.cloudflare \in SUBSET Blocks
      BY DEF States
    <3> HIDE DEF flare
    <3>2. \A r : r.cloudflare = flare => Path(r) = Path(s)
      BY <2>1 DEF Path
    <3> QED
      BY <2>1, <3>1, <3>2
  <2>2. ASSUME NEW b \in Blocks, s.cloudflare = {b}, Path(s) = b.path, zone # None
        PROVE  <1>3
    <3> DEFINE c == BlockIn(b, zone, b.path)
    <3>1. flare = {c}
      BY <2>2
    <3>2. b.path \in {None, "ours", "theirs"} /\ zone \in Zones
      BY <2>2 DEF Blocks
    <3>3. c \in Blocks /\ c.path = b.path /\ c.record \in {None, c.zone}
      BY <2>2, <3>2, BlockTypes
    <3> HIDE DEF c, flare
    <3>4. \A r : r.cloudflare = flare => Path(r) = Path(s)
      BY <2>2, <3>1, <3>3, Paths
    <3> QED
      BY <3>1, <3>3, <3>4 DEF Single
  <2>3. s.cloudflare = {} \/ zone = None => flare = s.cloudflare
    OBVIOUS
  <2> QED
    BY <2>1, <2>2, <2>3, Blocked
<1> HIDE DEF flare, a
<1>4. a.cloudflare = flare /\ a.tls = settings /\ a \in States
  BY <1>1, <1>2, <1>3 DEF States
<1>5. /\ a \in States /\ Single(a.cloudflare) /\ Path(a) = Path(s)
      /\ \A b \in a.cloudflare : b.record \in {None, b.zone}
      /\ a.tls.challenge = s.tls.challenge
  BY <1>2, <1>3, <1>4
<1> QED
  BY <1>5 DEF a

LEMMA RememberedIs ==
  ASSUME NEW s \in States, Single(s.cloudflare), NEW zone \in Zones
  PROVE  LET a == Remembered(s, zone) IN
         /\ a \in States /\ Single(a.cloudflare) /\ Path(a) = Path(s)
         /\ \A b \in a.cloudflare : b.record \in {None, b.zone}
         /\ a.tls = s.tls
<1> DEFINE a == Remembered(s, zone)
           c == Block(zone, zone, IF s.cloudflare = {} THEN None ELSE Path(s))
<1>1. /\ a.cloudflare = {c} /\ a.tls = s.tls
      /\ a = [tls |-> s.tls, cloudflare |-> {c}]
  BY DEF Remembered, States
<1>2. c.zone = zone /\ c.record = zone /\ c.path = Path(s)
  BY Paths DEF Block
<1>3. c \in Blocks
  BY <1>2, Paths DEF Block, Blocks
<1> HIDE DEF a, c
<1>4. a \in States /\ Single(a.cloudflare) /\ Path(a) = Path(s)
  BY <1>1, <1>2, <1>3, Paths DEF States, Single
<1>5. \A b \in a.cloudflare : b.record \in {None, b.zone}
  BY <1>1, <1>2
<1> QED
  BY <1>1, <1>4, <1>5 DEF a

-----------------------------------------------------------------------------
(* The token: the steps that write.                                        *)

LEMMA StoreKeeps ==
  ASSUME KInv, TokensAssumption, NEW k \in Terminals, Store(k)
  PROVE  KInv'
<1> DEFINE mine == task[k].source \in {"flag", "env"}
           at == IF TokenPlan(Seen(k), task[k].asked) = "reissue" THEN "issue" ELSE "record"
           source == IF mine THEN "ours" ELSE task[k].source
           kept == IF mine THEN {secret.ours} ELSE {}
           t == [task[k] EXCEPT !.at = at, !.source = source, !.kept = kept]
<1>1. /\ k \in Runs /\ k # Renewer /\ HasUse(k) /\ Sourced(k) /\ Undoable(k)
      /\ task[k] \in Task /\ task[k].at = "store" /\ k \in holder /\ holder = {k}
      /\ task[k].seen # {} /\ task[k].kept = {}
  BY RunAt DEF Store, Within, KInv, Reads, Runs, TokensAssumption, Undoable
<1>2. task' = [task EXCEPT ![k] = t]
  BY DEF Store, Put
<1>3. secret' = (IF mine THEN [secret EXCEPT !.ours = New] ELSE secret)
  BY DEF Store
<1>4. /\ ~task[k].asked.dns /\ Keeps(k) /\ task[k].zone # None
      /\ TokenPlan(Seen(k), task[k].asked) \notin {"refuse", "not_due"}
      /\ task[k].source # None
      /\ task[k].asked.token = "file" => task[k].source = "theirs"
      /\ task[k].asked.token = "flag" => task[k].source = "flag"
      /\ task[k].source = "ours" => secret.ours # None
  BY <1>1 DEF HasUse, Sourced
<1>5. /\ at \in {"issue", "record"} /\ source \in {"ours", "theirs"}
      /\ task[k].source \in Sources
      /\ kept \in SUBSET Texts /\ Single(kept)
      /\ kept # {} => source = "ours"
      /\ kept # {} <=> mine
  BY <1>1, <1>4, Paused DEF Task, Sources, Single, None
<1>6. /\ secret' \in [ours: Texts, theirs: {Old}]
      /\ mine => secret'.ours = New
      /\ ~mine => secret' = secret
      /\ secret'.theirs = Old
  BY <1>3, Paused DEF Texts
<1>7. /\ task[k].asked.token = "file" => source = "theirs"
      /\ task[k].asked.token = "flag" => source = "ours"
      /\ source = "ours" => secret'.ours # None
  BY <1>4, <1>5, <1>6 DEF None, New
<1>8. /\ Path(hub) = "ours" => None \notin kept
      /\ ~litter /\ None \notin kept /\ kept # {} => Path(hub) = "ours"
  <2>1. Path(hub) = "ours" => secret.ours # None
    BY DEF KInv, OnlyForDns, TokenIsThere, None
  <2>2. \A q \in Terminals : task[q].kept = {} /\ task[q].at # "stale"
    <3>1. SUFFICES ASSUME NEW q \in Terminals
                   PROVE  task[q].kept = {} /\ task[q].at # "stale"
      OBVIOUS
    <3>2. q # k => task[q].at \notin Within
      BY <1>1, RunAt DEF Runs
    <3> QED
      BY <1>1, <3>2, RunAt DEF Undoable, Within, Runs
  <2> QED
    BY <2>1, <2>2 DEF KInv, Accounted
<1> HIDE DEF at, source, kept
<1>9. /\ t \in Task /\ t.at = at /\ t.source = source /\ t.kept = kept
      /\ t.zone = task[k].zone /\ t.seen = task[k].seen /\ t.asked = task[k].asked
  BY <1>1, <1>5 DEF Task, Within, Without, Sources
<1>10. task'[k] = t
  BY <1>1, <1>2 DEF KInv, Shape
<1> HIDE DEF t
<1>11. Seen(k)' = Seen(k) /\ Keeps(k)' = Keeps(k) /\ Path(hub') = Path(hub)
  BY <1>9, <1>10 DEF Seen, Keeps, Store
<1>12. HasUse(k)'
  BY <1>4, <1>5, <1>9, <1>10, <1>11 DEF HasUse
<1>13. Sourced(k)'
  BY <1>4, <1>5, <1>7, <1>9, <1>10 DEF Sourced
<1>14. Undoable(k)'
  <2>1. litter' = litter
    BY DEF Store
  <2> QED
    BY <1>4, <1>5, <1>8, <1>9, <1>10, <1>11, <2>1 DEF Undoable
<1>15. Accounted'
  <2>1. CASE mine
    BY <1>5, <1>9, <1>10, <2>1 DEF Accounted
  <2>2. CASE ~mine
    <3>1. secret' = secret /\ litter' \in BOOLEAN /\ (litter => litter')
      BY <1>6, <2>2, Paused DEF Store
    <3>2. task[k].kept = {} /\ task[k].at # "stale"
      BY <1>1
    <3> QED
      BY <1>1, <1>2, <1>9, <1>11, <3>1, <3>2, StillAccounted
  <2> QED
    BY <2>1, <2>2
<1>16. TokenIsThere' /\ OnlyForDns' /\ RecordOfZone'
  <2>1. hub' = hub /\ Path(hub) \in {None, "ours", "theirs"}
    BY Paused, Paths DEF Store
  <2>2. secret'.ours = secret.ours \/ secret'.ours # None
    BY <1>6 DEF New, None
  <2>3. TokenIsThere'
    <3>1. SUFFICES ASSUME hub.tls.challenge = "dns"
                   PROVE  Path(hub) # None /\ secret'[Path(hub)] # None
      BY <1>11, <2>1 DEF TokenIsThere
    <3>2. Path(hub) # None /\ secret[Path(hub)] # None
      BY <3>1 DEF KInv, TokenIsThere
    <3> QED
      BY <1>6, <2>1, <2>2, <3>2 DEF None, Old
  <2> QED
    BY <1>11, <2>1, <2>3 DEF KInv, OnlyForDns, RecordOfZone
<1> HIDE DEF mine
<1>17. /\ t.at \in Within /\ t.seen # {} /\ t.at \notin {"start", "done", "failed"}
       /\ holder' = {k}
  BY <1>1, <1>5, <1>9 DEF Within, Store
<1> QED
  BY <1>1, <1>2, <1>6, <1>9, <1>12, <1>13, <1>14, <1>15, <1>16, <1>17, StepOf, Paused
     DEF Store, Outside

LEMMA RememberKeeps ==
  ASSUME KInv, TokensAssumption, NEW k \in Terminals, Remember(k)
  PROVE  KInv'
<1>1. /\ k \in Runs /\ Sourced(k) /\ Undoable(k) /\ k \in holder
      /\ task[k] \in Task /\ task[k].at = "remember"
  BY RunAt DEF Remember, Within, Runs
<1>2. task[k].zone \in Zones /\ task[k].kept = {}
  BY <1>1 DEF Sourced, Undoable, Task
<1>3. PICK zone \in Zones : hub' = Remembered(hub, zone)
  BY <1>2 DEF Remember
<1>4. /\ hub' \in States /\ Single(hub'.cloudflare) /\ Path(hub') = Path(hub)
      /\ \A b \in hub'.cloudflare : b.record \in {None, b.zone}
      /\ hub'.tls = hub.tls
  BY <1>3, RememberedIs, Paused
<1>5. TokenIsThere' /\ OnlyForDns' /\ RecordOfZone'
  BY <1>4 DEF KInv, TokenIsThere, OnlyForDns, RecordOfZone, Remember
<1>6. Accounted'
  <2> DEFINE t == [Waiting EXCEPT !.at = "done"]
  <2>1. t \in Task /\ task' = [task EXCEPT ![k] = t]
    BY WaitingIs DEF Within, Without, Remember, Ends, Put
  <2> HIDE DEF t
  <2> QED
    BY <1>1, <1>2, <1>4, <2>1, StillAccounted, Paused DEF Remember
<1> QED
  BY <1>1, <1>4, <1>5, <1>6, Ended, Paused DEF Remember, Outside

LEMMA ForgetKeeps ==
  ASSUME KInv, TokensAssumption, NEW k \in Terminals, Forget(k)
  PROVE  KInv'
<1>1. k \in Runs /\ Undoable(k) /\ k \in holder /\ Path(hub) = None
  BY RunAt DEF Forget, Within, Runs, Undoable
<1>2. secret' \in [ours: Texts, theirs: {Old}] /\ secret'.ours = None
  BY Paused DEF Forget, Texts
<1>3. hub' = hub /\ Path(hub') = None
  BY <1>1 DEF Forget
<1>4. Accounted'
  BY <1>2 DEF Accounted
<1>5. TokenIsThere' /\ OnlyForDns' /\ RecordOfZone'
  BY <1>1, <1>3 DEF KInv, TokenIsThere, OnlyForDns, RecordOfZone
<1> QED
  BY <1>1, <1>2, <1>3, <1>4, <1>5, Ended, Paused DEF Forget, Outside

LEMMA UndoKeeps ==
  ASSUME KInv, TokensAssumption, NEW k \in Terminals, Undo(k)
  PROVE  KInv'
<1>1. k \in Runs /\ Undoable(k) /\ k \in holder /\ task[k].at = "undo" /\ task[k] \in Task
  BY RunAt DEF Undo, Within, Runs
<1>2. PICK old \in Texts : task[k].kept = {old} /\ secret' = [secret EXCEPT !.ours = old]
  BY <1>1 DEF Undo, Undoable, Task, Single
<1>3. /\ secret' \in [ours: Texts, theirs: {Old}] /\ secret'.ours = old
      /\ secret'.theirs = Old
  BY <1>2, Paused
<1>4. hub' = hub /\ Path(hub') = Path(hub) /\ litter' = litter
  BY DEF Undo
<1>5. /\ Path(hub) = "ours" => old # None
      /\ ~litter /\ old # None => Path(hub) = "ours"
  BY <1>1, <1>2 DEF Undoable
<1>6. Accounted'
  BY <1>3, <1>4, <1>5 DEF Accounted
<1>7. TokenIsThere'
  <2>1. SUFFICES ASSUME hub.tls.challenge = "dns"
                 PROVE  Path(hub) # None /\ secret'[Path(hub)] # None
    BY <1>4 DEF TokenIsThere
  <2>2. Path(hub) # None
    BY <2>1 DEF KInv, TokenIsThere
  <2>3. Path(hub) \in {"ours", "theirs"}
    BY <2>2, Paused, Paths
  <2> QED
    BY <1>3, <1>5, <2>2, <2>3 DEF Old, None
<1>8. OnlyForDns' /\ RecordOfZone'
  BY <1>4 DEF KInv, OnlyForDns, RecordOfZone
<1> QED
  BY <1>1, <1>3, <1>4, <1>6, <1>7, <1>8, Ended, Paused DEF Undo, Outside

\* What the commit makes of the state: the settings it was given, on the copy under
\* the file lock, whose TLS settings are still the ones the run worked for.
LEMMA HubCommitted ==
  ASSUME KInv, TokensAssumption, NEW k \in Terminals, CommitTls(k)
  PROVE  /\ hub' \in States /\ Single(hub'.cloudflare) /\ RecordOfZone'
         /\ hub'.tls.challenge = Resulting(hub, task[k].asked)
         /\ Keeps(k) <=> Disposition(hub, task[k].asked) = "keep"
         /\ Keeps(k) <=> Resulting(hub, task[k].asked) = "dns"
         /\ Keeps(k) => Path(hub') = task[k].source
         /\ Disposition(hub, task[k].asked) = "forget" => Path(hub') = None
         /\ Disposition(hub, task[k].asked) = "unchanged" => Path(hub') = Path(hub)
<1>1. /\ k \in Runs /\ k # Renewer /\ Sourced(k) /\ task[k] \in Task /\ task[k].at = "record"
      /\ hub.tls = Seen(k).tls
  BY RunAt DEF CommitTls, Runs, TokensAssumption
<1>2. PICK asked \in TokenFlags, zone \in Zones \cup {None}, path \in Sources :
        asked = task[k].asked /\ zone = task[k].zone /\ path = task[k].source
  BY <1>1 DEF Task
<1>3. Disposition(Seen(k), asked) = Disposition(hub, asked)
  BY <1>1 DEF Disposition, Resulting
<1>4. /\ Keeps(k) <=> Disposition(hub, asked) = "keep"
      /\ Keeps(k) <=> Resulting(hub, asked) = "dns"
  <2>1. Disposition(hub, asked) = "keep" <=> Resulting(hub, asked) = "dns"
    BY DEF Disposition
  <2> QED
    BY <1>2, <1>3, <2>1 DEF Keeps
<1>5. Keeps(k) => zone \in Zones /\ path \in {"ours", "theirs"}
  BY <1>1, <1>2 DEF Sourced
<1>6. PICK a \in States : a = Applied(hub, asked, zone, path)
      /\ Single(a.cloudflare)
      /\ (\A b \in a.cloudflare : b.record \in {None, b.zone})
      /\ a.tls.challenge = Resulting(hub, asked)
      /\ (Disposition(hub, asked) = "keep" => Path(a) = path)
      /\ (Disposition(hub, asked) = "forget" => Path(a) = None)
      /\ (Disposition(hub, asked) = "unchanged" => Path(a) = Path(hub))
  BY <1>4, <1>5, AppliedIs, Paused DEF KInv, RecordOfZone
<1>7. hub' = Recorded(a, zone) \/ hub' = a
  BY <1>1, <1>2, <1>6 DEF CommitTls
<1>8. /\ hub' \in States /\ Single(hub'.cloudflare) /\ Path(hub') = Path(a)
      /\ \A b \in hub'.cloudflare : b.record \in {None, b.zone}
      /\ hub'.tls.challenge = a.tls.challenge
  <2>1. CASE hub' = a
    BY <1>6, <2>1
  <2>2. CASE hub' = Recorded(a, zone)
    BY <1>6, <2>2, RecordedIs
  <2> QED
    BY <1>7, <2>1, <2>2
<1> QED
  BY <1>2, <1>4, <1>6, <1>8 DEF RecordOfZone

LEMMA CliCommitKeeps ==
  ASSUME KInv, TokensAssumption, NEW k \in Terminals, CommitTls(k)
  PROVE  KInv'
<1>1. /\ k \in Runs /\ k # Renewer /\ HasUse(k) /\ Sourced(k) /\ Undoable(k)
      /\ task[k] \in Task /\ task[k].at = "record" /\ k \in holder /\ holder = {k}
      /\ task[k].seen # {} /\ ~task[k].asked.dns
  BY RunAt DEF CommitTls, Within, KInv, Reads, Runs, TokensAssumption, HasUse
<1>2. Disposition(hub, task[k].asked) \in {"keep", "forget", "unchanged"}
  BY DEF Disposition
<1>3. Disposition(Seen(k), task[k].asked) = Disposition(hub, task[k].asked)
  BY DEF CommitTls, Disposition, Resulting
<1>4. secret' = secret /\ home' = home /\ chances' = chances
  BY DEF CommitTls, Outside
<1>5. /\ litter' \in BOOLEAN /\ (litter => litter')
      /\ Path(hub) = "ours" /\ Path(hub') = "theirs" => litter'
      /\ Path(hub) = "ours" /\ Path(hub') = None /\ ~StaleOf(k) => litter'
  BY Paused DEF CommitTls
<1>6. Path(hub) # None => hub.tls.challenge = "dns"
  BY DEF KInv, OnlyForDns
<1>7. Disposition(hub, task[k].asked) = "unchanged" => Path(hub) = None
  BY <1>6 DEF Disposition
<1>8. TokenIsThere' /\ OnlyForDns'
  <2>1. Keeps(k) => task[k].source \in {"ours", "theirs"}
                    /\ (task[k].source = "ours" => secret.ours # None)
    BY <1>1 DEF Sourced
  <2>2. Keeps(k) => /\ hub'.tls.challenge = "dns"
                    /\ Path(hub') # None /\ secret'[Path(hub')] # None
    BY <1>4, <2>1, HubCommitted, Paused DEF None, Old
  <2>3. ~Keeps(k) => hub'.tls.challenge # "dns" /\ Path(hub') = None
    BY <1>2, <1>7, HubCommitted
  <2> QED
    BY <2>2, <2>3 DEF TokenIsThere, OnlyForDns
\* A file stays unnamed only where somebody is told, or where the run goes on to
\* take it away.
<1>9. ASSUME NEW t \in Task, task' = [task EXCEPT ![k] = t], t.at = "stale" \/ ~StaleOf(k)
      PROVE  Accounted'
  <2>1. task'[k] = t /\ \A q \in Runs \ {k} : task'[q] = task[q]
    BY <1>1, <1>9 DEF KInv, Shape
  <2>2. SUFFICES ASSUME ~litter', secret'.ours # None, t.at # "stale", Path(hub') # "ours",
                        \A q \in Terminals : task'[q].kept = {} /\ task'[q].at # "stale"
                 PROVE  FALSE
    BY <2>1 DEF Accounted
  <2>3. task[k].kept = {}
    <3>1. ~Keeps(k) \/ task[k].source = "theirs"
      BY <1>1, <2>2, HubCommitted DEF Sourced
    <3> QED
      BY <1>1, <3>1 DEF Undoable
  <2>4. \A q \in Terminals : task[q].kept = {} /\ task[q].at # "stale"
    BY <1>1, <2>1, <2>2, <2>3 DEF Runs
  <2>5. Path(hub) = "ours"
    BY <1>4, <1>5, <2>2, <2>4 DEF KInv, Accounted
  <2>6. Path(hub') \in {None, "theirs"}
    BY <2>2, HubCommitted, Paths
  <2> QED
    BY <1>5, <1>9, <2>2, <2>5, <2>6
<1>10. CASE ~StaleOf(k)
  <2> DEFINE t == [Waiting EXCEPT !.at = "done"]
  <2>1. t \in Task /\ Ends(k, "done") /\ task' = [task EXCEPT ![k] = t]
    BY <1>1, <1>10, WaitingIs DEF Within, Without, CommitTls, Ends, Put
  <2> HIDE DEF t
  <2>2. Accounted'
    BY <1>9, <1>10, <2>1
  <2> QED
    BY <1>1, <1>4, <1>5, <1>8, <2>1, <2>2, HubCommitted, Ended, Paused
<1>11. CASE StaleOf(k)
  <2> DEFINE t == [task[k] EXCEPT !.at = "stale", !.kept = {}]
  <2>1. /\ t \in Task /\ t.at = "stale" /\ t.kept = {} /\ t.asked = task[k].asked
        /\ t.seen = task[k].seen /\ t.source = task[k].source
    BY <1>1 DEF Task, Within, Without
  <2>2. task' = [task EXCEPT ![k] = t] /\ holder' = holder
    BY <1>1, <1>11 DEF CommitTls, Put
  <2>3. task'[k] = t
    BY <1>1, <2>2 DEF KInv, Shape
  <2> HIDE DEF t
  <2>4. Seen(k)' = Seen(k)
    BY <2>1, <2>3 DEF Seen
  <2>5. Path(hub') = None
    BY <1>3, <1>11, HubCommitted DEF StaleOf
  <2>6. HasUse(k)' /\ Sourced(k)'
    BY <1>1, <2>1, <2>3, <2>4 DEF HasUse, Sourced
  <2>7. Undoable(k)'
    BY <2>1, <2>3, <2>5 DEF Undoable
  <2>8. Accounted'
    BY <1>9, <2>1, <2>2
  <2>9. t.at \in Within /\ holder' = {k} /\ t.seen # {}
    BY <1>1, <2>1, <2>2 DEF Within
  <2> QED
    BY <1>1, <1>4, <1>5, <1>8, <2>1, <2>2, <2>6, <2>7, <2>8, <2>9, HubCommitted, StepOf,
    Paused
<1> QED
  BY <1>10, <1>11

\* The timer records a certificate, and leaves the settings alone.
LEMMA TimerCommitKeeps ==
  ASSUME KInv, TokensAssumption, CommitTls(Renewer)
  PROVE  KInv'
<1>1. /\ Renewer \in Runs /\ task[Renewer] \in Task /\ Renewer \in holder
      /\ task[Renewer].at = "record" /\ task[Renewer].kept = {}
  BY RunAt DEF CommitTls, Within, Runs
<1>2. PICK zone \in Zones \cup {None} : zone = task[Renewer].zone
  BY <1>1 DEF Task
<1>3. hub' = Recorded(hub, zone) \/ hub' = hub
  BY <1>2 DEF CommitTls
<1>4. /\ hub' \in States /\ Single(hub'.cloudflare) /\ Path(hub') = Path(hub)
      /\ \A b \in hub'.cloudflare : b.record \in {None, b.zone}
      /\ hub'.tls.challenge = hub.tls.challenge
  <2>1. \A b \in hub.cloudflare : b.record \in {None, b.zone}
    BY DEF KInv, RecordOfZone
  <2>2. CASE hub' = hub
    BY <2>1, <2>2, Paused
  <2>3. CASE hub' = Recorded(hub, zone)
    BY <2>1, <2>3, Paused, RecordedIs
  <2> QED
    BY <1>3, <2>2, <2>3
<1>5. litter' = litter /\ secret' = secret /\ Ends(Renewer, "done")
  BY <1>4, Paused DEF CommitTls, None
<1>6. TokenIsThere' /\ OnlyForDns' /\ RecordOfZone'
  BY <1>4, <1>5 DEF KInv, TokenIsThere, OnlyForDns, RecordOfZone
<1>7. Accounted'
  <2> DEFINE t == [Waiting EXCEPT !.at = "done"]
  <2>1. t \in Task /\ task' = [task EXCEPT ![Renewer] = t]
    BY <1>5, WaitingIs DEF Within, Without, Ends, Put
  <2> HIDE DEF t
  <2> QED
    BY <1>1, <1>4, <1>5, <2>1, StillAccounted, Paused
<1> QED
  BY <1>1, <1>4, <1>5, <1>6, <1>7, Ended, Paused DEF CommitTls, Outside

-----------------------------------------------------------------------------
(* The token: the theorem.                                                 *)

LEMMA TokensStart ==
  ASSUME TokensAssumption, TokensInit
  PROVE  KInv
<1>1. home \in Zones /\ home # None
  BY DEF TokensInit, TokensAssumption, None
<1>2. PICK settings \in Settings, b \in Blocks, path \in {None, "ours", "theirs"} :
        /\ hub.tls = settings
        /\ b.record = b.zone /\ b.path = path
        /\ hub.cloudflare = {} \/ hub.cloudflare = {b}
        /\ hub = [tls |-> settings, cloudflare |-> hub.cloudflare]
        /\ settings.challenge # "dns" => hub.cloudflare = {} \/ path = None
        /\ settings.challenge = "dns" => hub.cloudflare = {b} /\ path # None
  <2>1. CASE hub \in [tls : {ManualTls, Acme("http")},
                      cloudflare : {{}, {Block(home, home, None)}}]
    <3> DEFINE b == Block(home, home, None)
    <3>1. b \in Blocks /\ b.record = b.zone /\ b.path = None
      BY <1>1 DEF Block, Blocks
    <3>2. hub.tls \in Settings /\ hub.tls.challenge # "dns"
      BY <2>1 DEF ManualTls, Acme, Settings, None
    <3>3. hub = [tls |-> hub.tls, cloudflare |-> hub.cloudflare]
          /\ (hub.cloudflare = {} \/ hub.cloudflare = {b})
      BY <2>1
    <3> HIDE DEF b
    <3> QED
      BY <3>1, <3>2, <3>3
  <2>2. CASE hub \in [tls : {Acme("dns")},
                      cloudflare : {{Block(home, home, p)} : p \in {"ours", "theirs"}}]
    <3>1. PICK p \in {"ours", "theirs"} : hub.cloudflare = {Block(home, home, p)}
      BY <2>2
    <3> DEFINE b == Block(home, home, p)
    <3>2. b \in Blocks /\ b.record = b.zone /\ b.path = p /\ p # None
      BY <1>1 DEF Block, Blocks, None
    <3>3. hub.tls \in Settings /\ hub.tls.challenge = "dns"
      BY <2>2 DEF Acme, Settings
    <3>4. hub = [tls |-> hub.tls, cloudflare |-> hub.cloudflare] /\ hub.cloudflare = {b}
      BY <2>2, <3>1
    <3> HIDE DEF b
    <3> QED
      BY <3>2, <3>3, <3>4
  <2> QED
    BY <2>1, <2>2 DEF TokensInit
<1>3. /\ hub \in States /\ Single(hub.cloudflare)
      /\ hub.cloudflare = {} => Path(hub) = None
      /\ hub.cloudflare = {b} => Path(hub) = path
  BY <1>2, Paths DEF States, Single
<1>4. /\ secret \in [ours: Texts, theirs: {Old}]
      /\ secret.ours # None <=> Path(hub) = "ours"
  <2>1. secret.ours = IF \E c \in hub.cloudflare : c.path = "ours" THEN Old ELSE None
    BY DEF TokensInit
  <2>2. (\E c \in hub.cloudflare : c.path = "ours") <=> Path(hub) = "ours"
    BY <1>2, <1>3 DEF None
  <2>3. secret = [ours |-> secret.ours, theirs |-> Old]
    BY DEF TokensInit
  <2> QED
    BY <2>1, <2>2, <2>3 DEF Texts, Old, None
<1>5. task = [p \in Runs |-> Waiting] /\ holder = {} /\ litter = FALSE /\ Waiting \in Task
  BY WaitingIs DEF TokensInit, Within, Without
<1>6. Waiting.at = "start" /\ Waiting.kept = {} /\ ~Waiting.asked.dns
  BY DEF Waiting, NoTokenFlags
<1>7. chances \in [fault: Nat, move: Nat]
  BY DEF TokensInit, TokensAssumption
<1>8. Shape /\ AtWorkAlone /\ Reads
  BY <1>1, <1>3, <1>4, <1>5, <1>6, <1>7 DEF Shape, AtWorkAlone, Reads, Within, Single
<1>9. \A k \in Terminals : HasUse(k) /\ Sourced(k) /\ Undoable(k)
  BY <1>5, <1>6 DEF HasUse, Sourced, Undoable, Runs
<1>10. OfTimer
  BY <1>5, <1>6 DEF OfTimer, Runs
<1>11. Accounted
  BY <1>4 DEF Accounted
<1>12. TokenIsThere /\ OnlyForDns /\ RecordOfZone
  <2>1. OnlyForDns /\ RecordOfZone
    BY <1>2, <1>3 DEF OnlyForDns, RecordOfZone
  <2>2. TokenIsThere
    BY <1>2, <1>3, <1>4 DEF TokenIsThere, None, Old
  <2> QED
    BY <2>1, <2>2
<1> QED
  BY <1>8, <1>9, <1>10, <1>11, <1>12 DEF KInv

LEMMA TokensStep ==
  ASSUME KInv, TokensAssumption, TokensNext
  PROVE  KInv'
<1>1. CASE RenewerRuns
  BY <1>1, TickKeeps
<1>2. CASE DomainMoves
  BY <1>2, DomainMovesKeeps
<1>3. ASSUME NEW k \in Terminals, NEW asked \in TokenFlags, TypeRenewal(k, asked)
      PROVE  KInv'
  BY <1>3, TypeKeeps
<1>4. ASSUME NEW k \in Terminals,
             \/ FoundBusy(k) \/ TakeLock(k) \/ Store(k) \/ Push(k) \/ Remember(k) \/ Forget(k)
             \/ Undo(k) \/ CleanupFails(k)
      PROVE  KInv'
  BY <1>4, BusyKeeps, LockKeeps, StoreKeeps, PushKeeps, RememberKeeps, ForgetKeeps,
  UndoKeeps,
     CleanupFailsKeeps
<1>5. ASSUME NEW p \in Runs,
             \/ Read(p) \/ FindZone(p) \/ Issue(p) \/ HubMoved(p) \/ CommitTls(p)
             \/ StepFails(p) \/ Killed(p)
      PROVE  KInv'
  <2>1. CASE CommitTls(p)
    BY <2>1, CliCommitKeeps, TimerCommitKeeps DEF Runs
  <2> QED
    BY <1>5, <2>1, ReadKeeps, FindZoneKeeps, IssueKeeps, MovedKeeps, StepFailsKeeps,
       KilledKeeps
<1> QED
  BY <1>1, <1>2, <1>3, <1>4, <1>5 DEF TokensNext

\* With nobody at work nothing is to be put back, and nothing waits to be removed.
LEMMA StrayFollows ==
  ASSUME KInv
  PROVE  TokenIsThere /\ OnlyForDns /\ RecordOfZone /\ NothingStray
<1>1. ASSUME holder = {}, NEW k \in Terminals
      PROVE  task[k].kept = {} /\ task[k].at # "stale"
  BY <1>1, RunAt DEF Runs, Within, Undoable
<1> QED
  BY <1>1 DEF KInv, NothingStray, Accounted

\* Whose task has changed has moved.
LEMMA WhoMoved ==
  ASSUME KInv, TokensAssumption, TokensNext, NEW k \in Terminals, task'[k] # task[k]
  PROVE  \/ \E asked \in TokenFlags : TypeRenewal(k, asked)
         \/ FoundBusy(k) \/ TakeLock(k) \/ Store(k) \/ Push(k) \/ Remember(k) \/ Forget(k)
         \/ Undo(k) \/ CleanupFails(k)
         \/ Read(k) \/ FindZone(k) \/ Issue(k) \/ HubMoved(k) \/ CommitTls(k)
         \/ StepFails(k) \/ Killed(k)
<1>1. ASSUME NEW p \in Runs, NEW t, task' = [task EXCEPT ![p] = t]
      PROVE  k = p
  BY <1>1 DEF KInv, Shape, Runs
<1>2. k # Renewer /\ k \in Runs
  BY DEF TokensAssumption, Runs
<1>3. ~RenewerRuns /\ ~DomainMoves
  <2>1. ASSUME RenewerRuns
        PROVE  FALSE
    <3>1. PICK t : task' = [task EXCEPT ![Renewer] = t]
      BY <2>1 DEF RenewerRuns, Put
    <3>2. Renewer \in Runs
      BY DEF Runs
    <3> QED
      BY <1>1, <1>2, <3>1, <3>2
  <2> QED
    BY <2>1 DEF DomainMoves
<1>4. ASSUME NEW q \in Terminals, NEW asked \in TokenFlags, TypeRenewal(q, asked)
      PROVE  q = k
  BY <1>1, <1>4 DEF TypeRenewal, Put, Runs
<1>5. ASSUME NEW p \in Runs,
             \/ FoundBusy(p) \/ TakeLock(p) \/ Store(p) \/ Push(p) \/ Remember(p) \/ Forget(p)
             \/ Undo(p) \/ CleanupFails(p)
             \/ Read(p) \/ FindZone(p) \/ Issue(p) \/ HubMoved(p) \/ CommitTls(p)
             \/ StepFails(p) \/ Killed(p)
      PROVE  p = k
  <2>1. \E t : task' = [task EXCEPT ![p] = t]
    BY <1>5 DEF FoundBusy, TakeLock, Store, Push, Remember, Forget, Undo,
                CleanupFails, Read, FindZone,
                Issue, HubMoved, CommitTls, StepFails, Killed, Fail, Ends, Go,
                Put
  <2> QED
    BY <1>1, <2>1
<1>6. Terminals \subseteq Runs
  BY DEF Runs
<1> QED
  BY <1>3, <1>4, <1>5, <1>6 DEF TokensNext

\* Where a run is that ends or fails.
LEMMA EndsAt ==
  ASSUME KInv, NEW p \in Runs
  PROVE  /\ \A how : Ends(p, how) => task'[p].at = how
         /\ Fail(p) => task'[p].at \in {"failed", "undo"}
<1>1. task \in [Runs -> Task]
  BY DEF KInv, Shape
<1>2. ASSUME NEW how, Ends(p, how)
      PROVE  task'[p].at = how
  BY <1>1, <1>2 DEF Ends, Put, Waiting
<1>3. ASSUME Fail(p)
      PROVE  task'[p].at \in {"failed", "undo"}
  <2>1. CASE task[p].kept = {}
    BY <1>2, <1>3, <2>1 DEF Fail
  <2>2. CASE task[p].kept # {}
    BY <1>1, <1>3, <2>2 DEF Fail, Go, Put, Task
  <2> QED
    BY <2>1, <2>2
<1> QED
  BY <1>2, <1>3

LEMMA GivenBack ==
  ASSUME KInv, TokensAssumption, KInv', [TokensNext]_tokenVars
  PROVE  /\ secret'.theirs = secret.theirs
         /\ \A k \in Terminals : task[k].at = "undo" /\ task'[k].at = "failed" /\ chances' = chances
                              => task[k].kept = {secret'.ours}
         /\ \A k \in Terminals : task[k].at = "record" /\ task'[k].at \in {"stale", "done"}
                            /\ Given(task[k].asked)
              => Path(hub') = IF task[k].asked.token = "file" THEN "theirs" ELSE "ours"
<1>1. secret'.theirs = secret.theirs
  BY DEF KInv, Shape
<1>2. ASSUME NEW k \in Terminals, task[k].at = "undo", task'[k].at = "failed", chances' = chances
      PROVE  task[k].kept = {secret'.ours}
  <2>1. Undo(k)
    <3>1. TokensNext /\ task'[k] # task[k]
      BY <1>2 DEF tokenVars
    <3>2. ~UseChance("fault")
      BY <1>2, Paused, SpentTypes DEF UseChance
    <3> QED
      BY <1>2, <3>1, <3>2, WhoMoved
         DEF TypeRenewal, FoundBusy, TakeLock, Store, Push, Remember, Forget, CleanupFails,
             Read, FindZone,
             Issue, HubMoved, CommitTls, StepFails, Killed
  <2>2. Undoable(k) /\ task[k] \in Task /\ secret \in [ours: Texts, theirs: {Old}]
    BY <1>2, RunAt, Paused DEF Runs
  <2>3. PICK old \in Texts : task[k].kept = {old}
    BY <1>2, <2>2 DEF Undoable, Task, Single
  <2> QED
    BY <2>1, <2>2, <2>3 DEF Undo
<1>3. ASSUME NEW k \in Terminals, task[k].at = "record", task'[k].at \in {"stale", "done"},
             Given(task[k].asked)
      PROVE  Path(hub') = IF task[k].asked.token = "file" THEN "theirs" ELSE "ours"
  <2>1. CommitTls(k)
    <3>1. TokensNext /\ task'[k] # task[k] /\ k \in Runs
      BY <1>3 DEF tokenVars, Runs
    <3>2. ~HubMoved(k) /\ ~StepFails(k) /\ ~Killed(k)
      BY <1>3, <3>1, EndsAt DEF HubMoved, StepFails, Killed
    <3> QED
      BY <1>3, <3>1, <3>2, WhoMoved
         DEF TypeRenewal, FoundBusy, TakeLock, Store, Push, Remember, Forget, Undo,
             CleanupFails, Read, FindZone,
             Issue
  <2>2. HasUse(k) /\ Sourced(k)
    BY <1>3, RunAt DEF Runs
  <2>3. Keeps(k)
    <3>1. TokenPlan(Seen(k), task[k].asked) # "refuse" /\ ~task[k].asked.dns
      BY <1>3, <2>2 DEF HasUse
    <3>2. Resulting(Seen(k), task[k].asked) = "dns"
      BY <1>3, <3>1 DEF TokenPlan
    <3> QED
      BY <3>2 DEF Keeps, Disposition
  <2>4. Path(hub') = task[k].source
    BY <2>1, <2>3, HubCommitted
  <2>5. task[k].source = IF task[k].asked.token = "file" THEN "theirs" ELSE "ours"
    BY <1>3, <2>2, <2>3 DEF Sourced, Given
  <2> QED
    BY <2>4, <2>5
<1> QED
  BY <1>1, <1>2, <1>3

\* For any number of commands, faults and moves of the domain: a hub that renews over
\* DNS-01 names a token file with a token in it, no other hub names one, its record id
\* is of its zone, nothing unnamed is left at anago's path, and a command that fails by
\* itself gives back what it replaced.
THEOREM TokensAlwaysKept ==
  ASSUME TokensAssumption
  PROVE  TokensSpec => TokensKept
<1>1. TokensInit => KInv
  BY TokensStart
<1>2. KInv /\ [TokensNext]_tokenVars => KInv'
  <2>1. SUFFICES ASSUME KInv, UNCHANGED tokenVars
                 PROVE  KInv'
    BY TokensStep
  <2>2. Shape' /\ AtWorkAlone' /\ Reads' /\ OfTimer' /\ Accounted'
    BY <2>1 DEF tokenVars, KInv, Shape, AtWorkAlone, Reads, OfTimer, Accounted, Path
  <2>3. TokenIsThere' /\ OnlyForDns' /\ RecordOfZone'
    BY <2>1, Untouched DEF tokenVars
  <2>4. ASSUME NEW k \in Terminals
        PROVE  HasUse(k)' /\ Sourced(k)' /\ Undoable(k)'
    <3>1. /\ task' = task /\ secret' = secret /\ hub' = hub /\ litter' = litter
          /\ HasUse(k) /\ Sourced(k) /\ Undoable(k)
      BY <2>1 DEF KInv, tokenVars
    <3>2. HasUse(k)' /\ (Keeps(k)' <=> Keeps(k))
      BY <3>1, SameTask
    <3> QED
      BY <3>1, <3>2 DEF Sourced, Undoable, Path
  <2> QED
    BY <2>2, <2>3, <2>4 DEF KInv
<1>3. KInv => TokenIsThere /\ OnlyForDns /\ RecordOfZone /\ NothingStray
  BY StrayFollows
<1>4. KInv /\ KInv' /\ [TokensNext]_tokenVars =>
        /\ secret'.theirs = secret.theirs
        /\ \A k \in Terminals : task[k].at = "undo" /\ task'[k].at = "failed" /\ chances' = chances
                             => task[k].kept = {secret'.ours}
        /\ \A k \in Terminals : task[k].at = "record" /\ task'[k].at \in {"stale", "done"}
                           /\ Given(task[k].asked)
             => Path(hub') = IF task[k].asked.token = "file" THEN "theirs" ELSE "ours"
  BY GivenBack
<1> QED
  BY <1>1, <1>2, <1>3, <1>4, PTL DEF TokensSpec, TokensKept, TokensGivenBack
===============================================================================
