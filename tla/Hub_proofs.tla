----------------------------- MODULE Hub_proofs -----------------------------
(***************************************************************************)
(* The locked read-modify-write of any number of server threads and        *)
(* commands implements the atomic operations of Registry, whatever is      *)
(* killed, refused or fails between two of its steps.                      *)
(*                                                                         *)
(* The argument has one idea: a process that decides or applies holds the  *)
(* flock alone, so the copy it read is still the file (GuardIsCurrent).    *)
(* A commit is then the Registry operation on the file itself.  Tokens     *)
(* need a second conjunct, because they are minted before the lock is      *)
(* taken: no two requests in flight carry the same one, and none that is   *)
(* still to be committed was accepted before.                              *)
(*                                                                         *)
(* The second half is about the interface, and needs hypotheses: an apply  *)
(* is alone while the operator waits for the server to start; and a server *)
(* whose last_applied nobody else makes stale (Calm) keeps the interface   *)
(* at the state of the file and never takes it back behind it.             *)
(* A removal typed on the hub reports truly already under the first.       *)
(***************************************************************************)
EXTENDS Hub, TLAPS

Pcs == {"idle", "lock", "guard", "relock", "plan", "act"}

Shape ==
  /\ file = [codes |-> file.codes, peers |-> file.peers]
  /\ joined \subseteq [code: Codes, token: Tokens]
  /\ lock \subseteq Lockers
  /\ pc \in [Procs -> Pcs]
  /\ req \in [Procs -> Request]
  /\ DOMAIN snap = Procs

Roles ==
  /\ pc[Starter] \in {"idle", "plan", "act"}
  /\ \A p \in Procs : req[p].op = "join" => p \in Handlers

TokensFresh ==
  /\ \A p, q \in Procs :
       /\ req[p].op = "join"
       /\ req[q].op = "join"
       /\ req[p].token = req[q].token
       => p = q
  /\ \A p \in Procs : \A r \in joined :
       pc[p] \in {"lock", "guard"} /\ req[p].op = "join" => r.token # req[p].token

HInv == Shape /\ Roles /\ GuardIsCurrent /\ TokensFresh

-----------------------------------------------------------------------------
(* What a request of each kind carries.                                    *)
LEMMA RequestFields ==
  ASSUME NEW r \in Request
  PROVE  /\ r.op = "join" => r.code \in Codes /\ r.name \in Names /\ r.token \in Tokens
         /\ r.op = "peers" => r.token \in Tokens
         /\ r.op = "remove" => r.token \in Tokens /\ r.name \in Names
         /\ r.op = "code" => r.at \in Times
         /\ r.op = "rm" => r.name \in Names
BY DEF Request, NoRequest

\* A hub that starts from an empty file satisfies the invariant.
LEMMA InitHInv == Init => HInv
BY ProcsAssumption
   DEF Init, InitWith, HInv, Shape, Roles, GuardIsCurrent, TokensFresh, Pcs, Empty,
       Request, NoRequest, Procs, Servers, Lockers

\* A request that arrives with a token of its own.
LEMMA Arrival ==
  ASSUME HInv,
         NEW p \in Lockers, NEW r \in Request, Arrive(p, r),
         r.op = "join" => p \in Handlers /\ r.token \notin Drawn
  PROVE  HInv'
<1>1. p \in Procs /\ p # Starter
  BY ProcsAssumption DEF Procs, Servers, Lockers
<1>2. /\ pc' = [pc EXCEPT ![p] = "lock"] /\ pc[p] = "idle"
      /\ req' = [req EXCEPT ![p] = r]
      /\ UNCHANGED <<file, joined, lock, snap>>
  BY DEF Arrive, Step, fileVars
<1>3. Shape'
  BY <1>1, <1>2 DEF HInv, Shape, Pcs
<1>4. Roles'
  BY <1>1, <1>2 DEF HInv, Shape, Roles
<1>5. GuardIsCurrent'
  <2> SUFFICES ASSUME NEW q \in Lockers, pc'[q] \in {"guard", "plan", "act"}
               PROVE  lock' = {q} /\ snap'[q] = file'
    BY DEF GuardIsCurrent
  <2>1. q # p
    BY <1>1, <1>2 DEF HInv, Shape
  <2> QED
    BY <1>1, <1>2, <2>1 DEF HInv, Shape, GuardIsCurrent, Procs, Lockers, Servers
<1>6. TokensFresh'
  <2>1. \A q \in Procs : req[q].op = "join" => req[q].token \in Drawn
    BY DEF HInv, Roles, Drawn
  <2>2. \A s \in joined : s.token \in Drawn
    BY DEF Drawn
  <2>3. \A q \in Procs : req'[q] = IF q = p THEN r ELSE req[q]
    BY <1>1, <1>2 DEF HInv, Shape
  <2>4. \A q \in Procs : pc'[q] = IF q = p THEN "lock" ELSE pc[q]
    BY <1>1, <1>2 DEF HInv, Shape
  <2> QED
    BY <1>2, <2>1, <2>2, <2>3, <2>4 DEF HInv, TokensFresh
<1> QED
  BY <1>3, <1>4, <1>5, <1>6 DEF HInv

\* A process that returns, with the file as it was.
LEMMA Returned ==
  ASSUME HInv,
         NEW p \in Procs, NEW from \in Pcs, NEW answer, Return(p, from, answer),
         UNCHANGED fileVars,
         lock' \in {lock, lock \ {p}}
  PROVE  HInv'
<1>1. /\ pc' = [pc EXCEPT ![p] = "idle"]
      /\ req' = [req EXCEPT ![p] = NoRequest]
      /\ snap' = [snap EXCEPT ![p] = Empty]
      /\ UNCHANGED <<file, joined>>
  BY DEF Return, Step, fileVars
<1>2. /\ \A q \in Procs : pc'[q] = IF q = p THEN "idle" ELSE pc[q]
      /\ \A q \in Procs : req'[q] = IF q = p THEN NoRequest ELSE req[q]
      /\ \A q \in Procs : snap'[q] = IF q = p THEN Empty ELSE snap[q]
  BY <1>1 DEF HInv, Shape
<1>3. NoRequest \in Request /\ NoRequest.op # "join"
  BY DEF Request, NoRequest
<1>4. Shape'
  BY <1>1, <1>3 DEF HInv, Shape, Pcs
<1>5. Roles'
  BY <1>2, <1>3, ProcsAssumption DEF HInv, Roles, Procs, Servers
<1>6. GuardIsCurrent'
  <2> SUFFICES ASSUME NEW q \in Lockers, pc'[q] \in {"guard", "plan", "act"}
               PROVE  lock' = {q} /\ snap'[q] = file'
    BY DEF GuardIsCurrent
  <2>1. q \in Procs
    BY DEF Procs, Servers, Lockers
  <2>2. q # p /\ pc[q] \in {"guard", "plan", "act"} /\ snap'[q] = snap[q]
    BY <1>2, <2>1
  <2>3. lock = {q} /\ snap[q] = file
    BY <2>2 DEF HInv, GuardIsCurrent
  <2> QED
    BY <1>1, <2>2, <2>3
<1>7. TokensFresh'
  BY <1>1, <1>2, <1>3 DEF HInv, TokensFresh
<1> QED
  BY <1>4, <1>5, <1>6, <1>7 DEF HInv

\* The holder of the lock writes the file and gives the lock up; `tokens` are
\* the redemptions it recorded, none or its own.
LEMMA Committed ==
  ASSUME HInv,
         NEW p \in Procs, pc[p] = "guard",
         NEW to \in {"relock", "idle"}, pc' = [pc EXCEPT ![p] = to],
         \/ UNCHANGED <<req, snap>>
         \/ /\ req' = [req EXCEPT ![p] = NoRequest]
            /\ snap' = [snap EXCEPT ![p] = Empty],
         lock' = {},
         file' = [codes |-> file'.codes, peers |-> file'.peers],
         \/ joined' = joined
         \/ /\ req[p].op = "join"
            /\ \E c \in Codes : joined' = joined \cup {[code |-> c, token |-> req[p].token]}
  PROVE  HInv'
<1>1. p # Starter /\ p \in Lockers
  BY DEF HInv, Roles, Procs, Servers, Lockers
<1>2. lock = {p}
  BY <1>1 DEF HInv, GuardIsCurrent
<1>3. \A q \in Procs : pc'[q] = IF q = p THEN to ELSE pc[q]
  BY DEF HInv, Shape
<1>4. NoRequest \in Request /\ NoRequest.op # "join"
  BY DEF Request, NoRequest
<1>5. \A q \in Procs : req'[q] = req[q] \/ req'[q].op # "join"
  BY <1>4 DEF HInv, Shape
<1>6. Shape'
  <2>1. joined' \subseteq [code: Codes, token: Tokens]
    BY RequestFields DEF HInv, Shape
  <2> QED
    BY <1>4, <2>1 DEF HInv, Shape, Pcs
<1>7. Roles'
  BY <1>1, <1>3, <1>5 DEF HInv, Roles, Procs, Servers
<1>8. GuardIsCurrent'
  <2> SUFFICES ASSUME NEW q \in Lockers, pc'[q] \in {"guard", "plan", "act"}
               PROVE  FALSE
    BY DEF GuardIsCurrent
  <2>1. q # p /\ pc[q] \in {"guard", "plan", "act"}
    BY <1>3 DEF Lockers, Procs, Servers
  <2> QED
    BY <1>2, <2>1 DEF HInv, GuardIsCurrent
<1>9. TokensFresh'
  <2>1. ASSUME NEW q \in Procs, NEW u \in Procs,
               req'[q].op = "join", req'[u].op = "join", req'[q].token = req'[u].token
        PROVE  q = u
    BY <1>5, <2>1 DEF HInv, TokensFresh
  <2>2. ASSUME NEW q \in Procs, NEW r \in joined',
               pc'[q] \in {"lock", "guard"}, req'[q].op = "join"
        PROVE  r.token # req'[q].token
    <3>1. q # p /\ pc[q] \in {"lock", "guard"} /\ req'[q] = req[q]
      BY <1>3, <1>5, <2>2
    <3>2. CASE r \in joined
      BY <3>1, <3>2, <2>2 DEF HInv, TokensFresh
    <3>3. CASE r \notin joined
      <4>1. req[p].op = "join" /\ r.token = req[p].token
        BY <3>3, <2>2
      <4> QED
        BY <4>1, <3>1, <2>2 DEF HInv, TokensFresh
    <3> QED
      BY <3>2, <3>3
  <2> QED
    BY <2>1, <2>2 DEF TokensFresh
<1> QED
  BY <1>6, <1>7, <1>8, <1>9 DEF HInv

\* Processes Q are killed.
LEMMA Killed ==
  ASSUME HInv, NEW Q \in SUBSET Procs, Kill(Q)
  PROVE  HInv'
<1>1. /\ lock' = lock \ Q
      /\ UNCHANGED <<file, joined>>
  BY DEF Kill, fileVars
<1>2. /\ pc' = [q \in Procs |-> IF q \in Q THEN "idle" ELSE pc[q]]
      /\ req' = [q \in Procs |-> IF q \in Q THEN NoRequest ELSE req[q]]
      /\ snap' = [q \in Procs |-> IF q \in Q THEN Empty ELSE snap[q]]
  BY DEF Kill
<1>3. NoRequest \in Request /\ NoRequest.op # "join"
  BY DEF Request, NoRequest
<1>4. Shape'
  BY <1>1, <1>2, <1>3 DEF HInv, Shape, Pcs
<1>5. Roles'
  BY <1>2, <1>3 DEF HInv, Roles, Procs, Servers
<1>6. GuardIsCurrent'
  <2> SUFFICES ASSUME NEW q \in Lockers, pc'[q] \in {"guard", "plan", "act"}
               PROVE  lock' = {q} /\ snap'[q] = file'
    BY DEF GuardIsCurrent
  <2>1. q \in Procs
    BY DEF Procs, Servers, Lockers
  <2>2. q \notin Q /\ pc[q] \in {"guard", "plan", "act"} /\ snap'[q] = snap[q]
    BY <1>2, <2>1
  <2> QED
    BY <1>1, <2>2 DEF HInv, GuardIsCurrent
<1>7. TokensFresh'
  BY <1>1, <1>2, <1>3 DEF HInv, TokensFresh
<1> QED
  BY <1>4, <1>5, <1>6, <1>7 DEF HInv

\* A process moves on without touching the file, the history or its request.
LEMMA Moved ==
  ASSUME HInv,
         NEW p \in Procs, NEW from \in Pcs, NEW to \in Pcs, Step(p, from, to),
         UNCHANGED <<file, joined, req>>,
         to \in {"lock", "guard"} => from \in {"lock", "guard"},
         p = Starter => to \in {"idle", "plan", "act"},
         DOMAIN snap' = Procs,
         \A q \in Procs : q # p => snap'[q] = snap[q],
         \/ /\ lock = {} /\ lock' = {p} /\ p \in Lockers /\ snap'[p] = file
         \/ /\ UNCHANGED <<lock, snap>>
            /\ to \in {"guard", "plan", "act"} => from \in {"guard", "plan", "act"}
         \/ p = Starter /\ lock' = lock
  PROVE  HInv'
<1>1. \A q \in Procs : pc'[q] = IF q = p THEN to ELSE pc[q]
  BY DEF HInv, Shape, Step
<1>2. Shape'
  BY DEF HInv, Shape, Step
<1>3. Roles'
  BY <1>1, ProcsAssumption DEF HInv, Roles, Procs, Servers
<1>4. GuardIsCurrent'
  <2> SUFFICES ASSUME NEW q \in Lockers, pc'[q] \in {"guard", "plan", "act"}
               PROVE  lock' = {q} /\ snap'[q] = file'
    BY DEF GuardIsCurrent
  <2>1. q \in Procs /\ q # Starter
    BY ProcsAssumption DEF Procs, Servers, Lockers
  <2>2. CASE q # p
    <3>1. lock = {q} /\ snap[q] = file
      BY <1>1, <2>1, <2>2 DEF HInv, GuardIsCurrent
    <3> QED
      BY <2>1, <2>2, <3>1
  <2>3. CASE q = p
    BY <1>1, <2>1, <2>3 DEF HInv, GuardIsCurrent, Step
  <2> QED
    BY <2>2, <2>3
<1>5. TokensFresh'
  BY <1>1 DEF HInv, TokensFresh, Step
<1> QED
  BY <1>2, <1>3, <1>4, <1>5 DEF HInv

-----------------------------------------------------------------------------
\* Every step preserves the invariant.
LEMMA StepHInv == HInv /\ clock \in Times /\ [Next]_vars => HInv'
<1> SUFFICES ASSUME HInv, clock \in Times, [Next]_vars PROVE HInv'
  OBVIOUS
<1>1. ASSUME NEW h \in Handlers, ReceiveJoin(h) PROVE HInv'
  <2>1. PICK c \in Codes, n \in Names, t \in Tokens \ Drawn :
          Arrive(h, [op |-> "join", code |-> c, name |-> n, token |-> t])
    BY <1>1 DEF ReceiveJoin
  <2>2. [op |-> "join", code |-> c, name |-> n, token |-> t] \in Request
    BY DEF Request
  <2> QED
    BY <2>1, <2>2, Arrival DEF Lockers
<1>2. ASSUME NEW h \in Handlers, ReceivePeers(h) PROVE HInv'
  <2>1. PICK r \in joined : Arrive(h, [op |-> "peers", token |-> r.token])
    BY <1>2 DEF ReceivePeers
  <2>2. [op |-> "peers", token |-> r.token] \in Request
    BY DEF Request, HInv, Shape
  <2> QED
    BY <2>1, <2>2, Arrival DEF Lockers
<1>3. ASSUME NEW h \in Handlers, ReceiveRemove(h) PROVE HInv'
  <2>1. PICK r \in joined, n \in Names :
          Arrive(h, [op |-> "remove", token |-> r.token, name |-> n])
    BY <1>3 DEF ReceiveRemove
  <2>2. [op |-> "remove", token |-> r.token, name |-> n] \in Request
    BY DEF Request, HInv, Shape
  <2> QED
    BY <2>1, <2>2, Arrival DEF Lockers
<1>4. ASSUME NEW k \in Clis, TypeCode(k) PROVE HInv'
  <2>1. [op |-> "code", at |-> clock] \in Request
    BY <1>4 DEF Request
  <2> QED
    BY <1>4, <2>1, Arrival DEF TypeCode, Lockers
<1>5. ASSUME NEW k \in Clis, TypeRm(k) PROVE HInv'
  <2>1. PICK n \in Names : Arrive(k, [op |-> "rm", name |-> n])
    BY <1>5 DEF TypeRm
  <2>2. [op |-> "rm", name |-> n] \in Request
    BY DEF Request
  <2> QED
    BY <2>1, <2>2, Arrival DEF Lockers
<1>6. ASSUME NEW p \in Procs, Acquire(p) PROVE HInv'
  <2>1. p \in Lockers
    BY <1>6 DEF HInv, Roles, Acquire, Step, Procs, Servers, Lockers
  <2>2. /\ DOMAIN snap' = Procs
        /\ \A q \in Procs : snap'[q] = IF q = p THEN file ELSE snap[q]
    BY <1>6 DEF HInv, Shape, Acquire
  <2>3. UNCHANGED <<file, joined, req>> /\ lock = {} /\ lock' = {p}
    BY <1>6 DEF Acquire, fileVars
  <2>4. CASE Step(p, "lock", "guard")
    BY <2>1, <2>2, <2>3, <2>4, Moved, ProcsAssumption DEF Pcs
  <2>5. CASE Step(p, "relock", "plan")
    BY <2>1, <2>2, <2>3, <2>5, Moved, ProcsAssumption DEF Pcs
  <2> QED
    BY <1>6, <2>4, <2>5 DEF Acquire
<1>7. ASSUME NEW p \in Procs, AcquireFails(p) PROVE HInv'
  BY <1>7, Returned DEF AcquireFails, Pcs, fileVars
<1>8. ASSUME NEW p \in Procs, Refuse(p) \/ CommitFails(p) PROVE HInv'
  <2>1. lock' = lock \ {p}
    BY <1>8 DEF Refuse, CommitFails, Return, Step, HInv, Shape, Roles, GuardIsCurrent,
                Procs, Servers, Lockers
  <2> QED
    BY <1>8, <2>1, Returned DEF Refuse, CommitFails, Pcs, fileVars
<1>9. ASSUME NEW p \in Procs, CommitJoin(p) PROVE HInv'
  <2>1. PICK a \in Hosts :
          Commit(p, "join",
            [codes |-> Spent(snap[p].codes, req[p].code, clock),
             peers |-> snap[p].peers \cup {NewPeer(req[p].name, a, req[p].token, clock)}])
    BY <1>9 DEF CommitJoin
  <2>2. file' = [codes |-> file'.codes, peers |-> file'.peers]
    BY <2>1 DEF Commit
  <2>3. req[p].op = "join" /\ req[p].code \in Codes
    BY <2>1, RequestFields DEF Commit, HInv, Shape
  <2>4. \E c \in Codes : joined' = joined \cup {[code |-> c, token |-> req[p].token]}
    BY <1>9, <2>3 DEF CommitJoin
  <2> QED
    BY <1>9, <2>1, <2>2, <2>3, <2>4, Committed DEF CommitJoin, Commit, ThenApply, Step
<1>10. ASSUME NEW p \in Procs, CommitPeers(p) \/ CommitRemove(p) \/ CommitRm(p) PROVE HInv'
  <2>1. pc[p] = "guard" /\ pc' = [pc EXCEPT ![p] = "relock"] /\ joined' = joined
        /\ UNCHANGED <<req, snap>> /\ lock' = {}
    BY <1>10 DEF CommitPeers, CommitRemove, CommitRm, Commit, ThenApply, Step
  <2>2. snap[p] = file
    BY <2>1 DEF HInv, Roles, GuardIsCurrent, Procs, Servers, Lockers
  <2>3. file' = [codes |-> file'.codes, peers |-> file'.peers]
    BY <1>10, <2>2 DEF CommitPeers, CommitRemove, CommitRm, Commit, HInv, Shape
  <2> QED
    BY <2>1, <2>3, Committed
<1>11. ASSUME NEW p \in Procs, CommitCode(p) PROVE HInv'
  <2>1. PICK c \in Unissued(snap[p].codes) :
          Commit(p, "code", [snap[p] EXCEPT !.codes = Append(@, Fresh(c, req[p].at))])
    BY <1>11 DEF CommitCode
  <2>2. pc[p] = "guard" /\ pc' = [pc EXCEPT ![p] = "idle"] /\ joined' = joined
        /\ req' = [req EXCEPT ![p] = NoRequest] /\ snap' = [snap EXCEPT ![p] = Empty]
        /\ lock' = {}
    BY <1>11, <2>1 DEF CommitCode, Commit, Return, Step
  <2>3. snap[p] = file
    BY <2>2 DEF HInv, Roles, GuardIsCurrent, Procs, Servers, Lockers
  <2>4. file' = [codes |-> file'.codes, peers |-> file'.peers]
    BY <2>1, <2>3 DEF Commit, HInv, Shape
  <2> QED
    BY <2>2, <2>4, Committed
<1>12. ASSUME NEW p \in Procs, PlanSkips(p) \/ Act(p) PROVE HInv'
  BY <1>12, Returned DEF PlanSkips, Act, Applied, Pcs
<1>13. ASSUME NEW p \in Procs, Plan(p) PROVE HInv'
  BY <1>13, Moved DEF Plan, Pcs, fileVars, HInv, Shape
<1>14. ASSUME NEW p \in Procs, ApplyFails(p) PROVE HInv'
  BY <1>14, Returned DEF ApplyFails, ApplyBreaks, Pcs
<1>15. CASE Start
  <2>1. Starter \in Procs
    BY DEF Procs, Servers
  <2>2. DOMAIN snap' = Procs /\ \A q \in Procs : q # Starter => snap'[q] = snap[q]
    BY <1>15, <2>1 DEF Start, HInv, Shape
  <2> QED
    BY <1>15, <2>1, <2>2, Moved DEF Start, Pcs, fileVars
<1>16. CASE Crash
  BY <1>16, Killed DEF Crash, Procs
<1>17. ASSUME NEW k \in Clis, Interrupt(k) PROVE HInv'
  BY <1>17, Killed DEF Interrupt, Procs
<1>18. CASE Outage \/ SetClock \/ UNCHANGED vars
  <2>1. UNCHANGED <<file, joined, lock, pc, req, snap>>
    BY <1>18 DEF Outage, SetClock, vars, fileVars, procVars
  <2> QED
    BY <2>1 DEF HInv, Shape, Roles, GuardIsCurrent, TokensFresh
<1> QED
  BY <1>1, <1>2, <1>3, <1>4, <1>5, <1>6, <1>7, <1>8, <1>9, <1>10, <1>11, <1>12, <1>13,
     <1>14, <1>15, <1>16, <1>17, <1>18
  DEF Next, Work

\* The clock only ever reads a time.
LEMMA StepClock == clock \in Times /\ [Next]_vars => clock' \in Times
<1> SUFFICES ASSUME clock \in Times, [Next]_vars PROVE clock' \in Times
  OBVIOUS
<1>1. clock' = clock \/ clock' \in Times
  BY DEF Next, Work, vars, envVars, ReceiveJoin, ReceivePeers, ReceiveRemove, TypeCode, TypeRm,
         Arrive, Interrupt, Kill, Acquire, AcquireFails, Refuse, CommitFails, CommitJoin,
         CommitPeers, CommitRemove, CommitCode, CommitRm, Commit, PlanSkips, Plan, Act, Applied,
         ApplyFails, Start, Crash, Outage, SetClock
<1> QED
  BY <1>1

\* Whoever decides or applies holds the flock alone and works on the file as
\* it is, for any number of threads and commands (Store::lock, Guard).
THEOREM GuardAlwaysCurrent == Spec => []GuardIsCurrent
<1>1. Init => HInv /\ clock \in Times
  BY InitHInv DEF Init, InitWith
<1>2. HInv /\ clock \in Times /\ [Next]_vars => (HInv /\ clock \in Times)'
  BY StepHInv, StepClock
<1>3. HInv => GuardIsCurrent
  BY DEF HInv
<1> QED
  BY <1>1, <1>2, <1>3, PTL DEF Spec

-----------------------------------------------------------------------------
(* Refinement: each commit is the Registry operation, every other step      *)
(* leaves the registrations alone.                                          *)

\* The instance's operators are this module's: both extend ServerState.
LEMMA SameOperators ==
  ASSUME NEW cs, NEW ps, NEW c, NEW n, NEW a, NEW t, NEW now
  PROVE  /\ Reg!Redeemable(cs, c, now) <=> Redeemable(cs, c, now)
         /\ Reg!Spent(cs, c, now) = Spent(cs, c, now)
         /\ Reg!NameTaken(ps, n) <=> NameTaken(ps, n)
         /\ Reg!IsAllocated(ps, a) <=> IsAllocated(ps, a)
         /\ Reg!NewPeer(n, a, t, now) = NewPeer(n, a, t, now)
         /\ Reg!Caller(ps, t) = Caller(ps, t)
         /\ Reg!Touched(ps, t, now) = Touched(ps, t, now)
         /\ Reg!Without(ps, n) = Without(ps, n)
         /\ Reg!Unissued(cs) = Unissued(cs)
         /\ Reg!Fresh(c, now) = Fresh(c, now)
         /\ Reg!Times = Times
         /\ Reg!Hosts = Hosts
BY DEF Reg!Redeemable, Redeemable, Reg!IsPosition, IsPosition, Reg!Status, Status, Reg!None,
       None, Reg!Spent, Spent, Reg!NameTaken, NameTaken, Reg!IsAllocated, IsAllocated,
       Reg!FreeHosts, FreeHosts, Reg!Hosts, Hosts, Reg!NewPeer, NewPeer, Reg!Caller, Caller,
       Reg!Touched, Touched, Reg!Without, Without, Reg!Unissued, Unissued, Reg!IssuedStrings,
       IssuedStrings, Reg!Fresh, Fresh, Reg!ExpiresAt, ExpiresAt, Reg!Times, Times

\* What a process that commits has checked.
LEMMA Checked ==
  ASSUME NEW p, Outcome(p) = "ok"
  PROVE  /\ req[p].op = "join" => /\ Redeemable(snap[p].codes, req[p].code, clock)
                                  /\ ~NameTaken(snap[p].peers, req[p].name)
         /\ req[p].op \in {"peers", "remove"} => Caller(snap[p].peers, req[p].token) # {}
         /\ req[p].op \in {"remove", "rm"} => NameTaken(snap[p].peers, req[p].name)
BY DEF Outcome, Verdict

LEMMA CommitJoinRefines ==
  ASSUME HInv, NEW p \in Procs, CommitJoin(p)
  PROVE  Reg!RegistryNext
<1>1. PICK a \in Hosts :
        /\ IsAllocated(snap[p].peers, a)
        /\ Commit(p, "join",
             [codes |-> Spent(snap[p].codes, req[p].code, clock),
              peers |-> snap[p].peers \cup {NewPeer(req[p].name, a, req[p].token, clock)}])
  BY DEF CommitJoin
<1>2. pc[p] = "guard" /\ snap[p] = file
  BY DEF CommitJoin, ThenApply, Step, HInv, Roles, GuardIsCurrent, Procs, Servers, Lockers
<1>3. /\ req[p].op = "join" /\ req[p].code \in Codes /\ req[p].name \in Names
      /\ req[p].token \in Tokens
  BY <1>1, RequestFields DEF Commit, HInv, Shape
<1>4. /\ Redeemable(file.codes, req[p].code, clock)
      /\ ~NameTaken(file.peers, req[p].name)
  BY <1>1, <1>2, <1>3, Checked DEF Commit
<1>5. req[p].token \in Reg!FreshTokens
  BY <1>2, <1>3 DEF HInv, TokensFresh, Reg!FreshTokens
<1>6. /\ file'.codes = Spent(file.codes, req[p].code, clock)
      /\ file'.peers = file.peers \cup {NewPeer(req[p].name, a, req[p].token, clock)}
      /\ clock' = clock
  BY <1>1, <1>2 DEF Commit, envVars
<1>7. joined' = joined \cup {[code |-> req[p].code, token |-> req[p].token]}
  BY DEF CommitJoin
<1>8. Reg!Join(req[p].code, req[p].name, req[p].token)
  BY <1>1, <1>2, <1>4, <1>5, <1>6, <1>7, SameOperators DEF Reg!Join
<1> QED
  BY <1>3, <1>8 DEF Reg!RegistryNext

LEMMA CommitPeersRefines ==
  ASSUME HInv, NEW p \in Procs, CommitPeers(p)
  PROVE  Reg!RegistryNext
<1>1. Commit(p, "peers", [snap[p] EXCEPT !.peers = Touched(@, req[p].token, clock)])
  BY DEF CommitPeers
<1>2. pc[p] = "guard" /\ snap[p] = file
  BY DEF CommitPeers, ThenApply, Step, HInv, Roles, GuardIsCurrent, Procs, Servers, Lockers
<1>3. req[p].op = "peers" /\ req[p].token \in Tokens
  BY <1>1, RequestFields DEF Commit, HInv, Shape
<1>4. Caller(file.peers, req[p].token) # {}
  BY <1>1, <1>2, <1>3, Checked DEF Commit
<1>5. /\ file'.codes = file.codes
      /\ file'.peers = Touched(file.peers, req[p].token, clock)
      /\ clock' = clock /\ joined' = joined
  BY <1>1, <1>2 DEF Commit, CommitPeers, envVars, HInv, Shape
<1>6. Reg!ListPeers(req[p].token)
  BY <1>4, <1>5, SameOperators DEF Reg!ListPeers
<1> QED
  BY <1>3, <1>6 DEF Reg!RegistryNext

LEMMA CommitRemoveRefines ==
  ASSUME HInv, NEW p \in Procs, CommitRemove(p)
  PROVE  Reg!RegistryNext
<1>1. Commit(p, "remove",
        [snap[p] EXCEPT !.peers = Touched(Without(@, req[p].name), req[p].token, clock)])
  BY DEF CommitRemove
<1>2. pc[p] = "guard" /\ snap[p] = file
  BY DEF CommitRemove, ThenApply, Step, HInv, Roles, GuardIsCurrent, Procs, Servers, Lockers
<1>3. req[p].op = "remove" /\ req[p].token \in Tokens /\ req[p].name \in Names
  BY <1>1, RequestFields DEF Commit, HInv, Shape
<1>4. Caller(file.peers, req[p].token) # {} /\ NameTaken(file.peers, req[p].name)
  BY <1>1, <1>2, <1>3, Checked DEF Commit
<1>5. /\ file'.codes = file.codes
      /\ file'.peers = Touched(Without(file.peers, req[p].name), req[p].token, clock)
      /\ clock' = clock /\ joined' = joined
  BY <1>1, <1>2 DEF Commit, CommitRemove, envVars, HInv, Shape
<1>6. Reg!RemoveByDevice(req[p].token, req[p].name)
  BY <1>4, <1>5, SameOperators DEF Reg!RemoveByDevice
<1> QED
  BY <1>3, <1>6 DEF Reg!RegistryNext

LEMMA CommitRmRefines ==
  ASSUME HInv, NEW p \in Procs, CommitRm(p)
  PROVE  Reg!RegistryNext
<1>1. Commit(p, "rm", [snap[p] EXCEPT !.peers = Without(@, req[p].name)])
  BY DEF CommitRm
<1>2. pc[p] = "guard" /\ snap[p] = file
  BY DEF CommitRm, ThenApply, Step, HInv, Roles, GuardIsCurrent, Procs, Servers, Lockers
<1>3. req[p].op = "rm" /\ req[p].name \in Names
  BY <1>1, RequestFields DEF Commit, HInv, Shape
<1>4. NameTaken(file.peers, req[p].name)
  BY <1>1, <1>2, <1>3, Checked DEF Commit
<1>5. /\ file'.codes = file.codes
      /\ file'.peers = Without(file.peers, req[p].name)
      /\ clock' = clock /\ joined' = joined
  BY <1>1, <1>2 DEF Commit, CommitRm, envVars, HInv, Shape
<1>6. Reg!RemoveByOperator(req[p].name)
  BY <1>4, <1>5, SameOperators DEF Reg!RemoveByOperator
<1> QED
  BY <1>3, <1>6 DEF Reg!RegistryNext

LEMMA CommitCodeRefines ==
  ASSUME HInv, NEW p \in Procs, CommitCode(p)
  PROVE  Reg!RegistryNext
<1>1. PICK c \in Unissued(snap[p].codes) :
        Commit(p, "code", [snap[p] EXCEPT !.codes = Append(@, Fresh(c, req[p].at))])
  BY DEF CommitCode
<1>2. pc[p] = "guard" /\ snap[p] = file
  BY DEF CommitCode, Return, Step, HInv, Roles, GuardIsCurrent, Procs, Servers, Lockers
<1>3. req[p].op = "code" /\ req[p].at \in Times /\ c \in Codes
  BY <1>1, RequestFields DEF Commit, HInv, Shape, Unissued
<1>4. /\ file'.codes = Append(file.codes, Fresh(c, req[p].at))
      /\ file'.peers = file.peers
      /\ clock' = clock /\ joined' = joined
  BY <1>1, <1>2 DEF Commit, CommitCode, envVars, HInv, Shape
<1>5. Reg!Issue(c, req[p].at)
  BY <1>1, <1>2, <1>4, SameOperators DEF Reg!Issue
<1> QED
  BY <1>3, <1>5, SameOperators DEF Reg!RegistryNext

LEMMA StepRefines == HInv /\ [Next]_vars => [Reg!RegistryNext]_(Reg!registryVars)
<1> SUFFICES ASSUME HInv, [Next]_vars PROVE [Reg!RegistryNext]_(Reg!registryVars)
  OBVIOUS
<1>1. ASSUME NEW p \in Procs,
             CommitJoin(p) \/ CommitPeers(p) \/ CommitRemove(p) \/ CommitCode(p) \/ CommitRm(p)
      PROVE  Reg!RegistryNext
  BY <1>1, CommitJoinRefines, CommitPeersRefines, CommitRemoveRefines, CommitCodeRefines,
     CommitRmRefines
<1>2. CASE SetClock
  BY <1>2, SameOperators DEF SetClock, fileVars, Reg!SetClock, Reg!RegistryNext
<1>3. CASE UNCHANGED <<clock, file, joined>>
  BY <1>3 DEF Reg!registryVars
<1> QED
  BY <1>1, <1>2, <1>3
  DEF Next, Work, vars, fileVars, envVars, ReceiveJoin, ReceivePeers, ReceiveRemove, TypeCode,
      TypeRm, Arrive, Interrupt, Kill, Acquire, AcquireFails, Refuse, CommitFails, PlanSkips,
      Plan, Act, Applied, ApplyFails, Start, Crash, Outage

\* The hub implements Registry: whatever the interleaving of handlers and
\* commands, crashes and failures included, the state file changes as if each
\* operation were one atomic step.
THEOREM HubImplementsRegistry == Spec => Implements
<1>1. Init => Reg!RegistryInit
  BY SameOperators DEF Init, InitWith, Empty, Reg!RegistryInit
<1>2. Init => HInv /\ clock \in Times
  BY InitHInv DEF Init, InitWith
<1>3. HInv /\ clock \in Times /\ [Next]_vars => (HInv /\ clock \in Times)'
  BY StepHInv, StepClock
<1> QED
  BY <1>1, <1>2, <1>3, StepRefines, PTL DEF Spec, Implements, Reg!RegistrySpec
-----------------------------------------------------------------------------
(* The interface.  A server whose last_applied nobody else invalidates: the  *)
(* operator does not type while it starts, `anago rm` is not used on the hub *)
(* (the device uses DELETE /peers), and wg does what it reports.  Each of    *)
(* the three is necessary, as the runs hub_start, hub_stale and hub_failure  *)
(* show.                                                                     *)

Calm == OperatorWaits /\ "rm" \notin CliOps /\ MaxFailures = 0

\* Who may be at work in which phase of the server's life.
Phases ==
  /\ pc[Starter] # "idle" <=> server = "starting"
  /\ \A h \in Handlers : pc[h] # "idle" => server = "up"
  /\ OperatorWaits /\ server = "starting" => \A k \in Clis : pc[k] = "idle"

Room == /\ DOMAIN todo = Procs /\ DOMAIN reply = Procs
        /\ "failures" \in DOMAIN budget /\ budget["failures"] = 0

\* Commands only issue codes, so that the server alone applies.
CodesOnly ==
  \A k \in Clis : /\ pc[k] \in {"idle", "lock", "guard"}
                  /\ pc[k] # "idle" => req[k].op = "code"

StarterCurrent == server = "starting" => snap[Starter] = file /\ last = {}

\* What an apply decided on is still so when it runs the command.
ActReady ==
  \A p \in Procs : pc[p] = "act" =>
    /\ wgfile = {Wanted(p)}
    /\ todo[p] \in {"sync", "bring_up"}
    /\ todo[p] = "bring_up" => kernel = {}

\* An interface that is up runs what the server's applier remembers.
LastIsKernel == kernel # {} /\ last # {} => kernel = last

\* An interface that is behind the file has an apply on its way.
Settled ==
  server = "up" /\ (\A p \in Procs : pc[p] \in {"idle", "lock", "guard"})
    => kernel \in {{}, {Conf(file.peers)}}

Interface == Room /\ CodesOnly /\ StarterCurrent /\ ActReady /\ LastIsKernel /\ Settled

\* The two promises about a step.
TrueAnswer ==
  \A p \in Procs :
    pc[p] \in {"plan", "act"} /\ pc'[p] = "idle" /\ reply'[p] = "applied"
      => kernel' = {Conf(file.peers)}
Forward == kernel' \notin {kernel, {}} => kernel' = {Conf(file.peers)}

LEMMA InitInterface == Init => Phases /\ (Calm => Interface)
BY DEF Init, InitWith, Phases, Calm, Interface, Room, CodesOnly, StarterCurrent, ActReady,
       LastIsKernel, Settled, Procs, Servers

\* Only one process applies at a time, the starting server included.
LEMMA OneApplies ==
  ASSUME HInv, Phases, OperatorWaits, NEW p \in Procs, NEW q \in Procs,
         pc[p] \in {"plan", "act"}, pc[q] \in {"plan", "act"}
  PROVE  p = q
<1>1. CASE p = Starter \/ q = Starter
  BY <1>1 DEF Phases, Procs, Servers
<1>2. CASE p # Starter /\ q # Starter
  BY <1>2 DEF HInv, GuardIsCurrent, Procs, Servers, Lockers
<1> QED
  BY <1>1, <1>2

\* It works on the file as it is.
LEMMA AppliesCurrent ==
  ASSUME HInv, Phases, StarterCurrent, NEW p \in Procs, pc[p] \in {"plan", "act"}
  PROVE  Wanted(p) = Conf(file.peers)
<1>1. CASE p = Starter
  BY <1>1 DEF Phases, StarterCurrent, Wanted
<1>2. CASE p # Starter
  BY <1>2 DEF HInv, GuardIsCurrent, Wanted, Procs, Servers, Lockers
<1> QED
  BY <1>1, <1>2

\* Without failures to spend, nothing is spent on one.
LEMMA NoFailures == Room => ~Spend("failures")
BY DEF Room, Spend

LEMMA OtherBudget ==
  ASSUME Room, NEW b \in {"requests", "crashes", "outages"}, Spend(b)
  PROVE  "failures" \in DOMAIN budget' /\ budget'["failures"] = 0
BY DEF Room, Spend

\* A step of a process moves it alone, and the server's phase only when the
\* starter is done.
LEMMA WorkMoves ==
  ASSUME HInv, Phases, NEW p \in Procs, Work(p)
  PROVE  /\ pc[p] # "idle"
         /\ \E to \in Pcs : /\ \A q \in Procs : pc'[q] = IF q = p THEN to ELSE pc[q]
                            /\ p = Starter => to \in {"idle", "act"}
                            /\ IF p = Starter /\ to = "idle" THEN server' \in {"up", "down"}
                               ELSE server' = server
<1>1. /\ DOMAIN pc = Procs
      /\ p = Starter => pc[p] \in {"idle", "plan", "act"}
  BY DEF HInv, Shape, Roles
<1>2. CASE Acquire(p)
  BY <1>1, <1>2 DEF Acquire, Step, envVars, Pcs
<1>3. CASE AcquireFails(p) \/ Refuse(p) \/ CommitFails(p)
  BY <1>1, <1>3 DEF AcquireFails, Refuse, CommitFails, Return, Step, envVars, Pcs
<1>4. CASE CommitJoin(p) \/ CommitPeers(p) \/ CommitRemove(p) \/ CommitRm(p)
  BY <1>1, <1>4 DEF CommitJoin, CommitPeers, CommitRemove, CommitRm, Commit, ThenApply, Step,
                    envVars, Pcs
<1>5. CASE CommitCode(p)
  BY <1>1, <1>5 DEF CommitCode, Commit, Return, Step, envVars, Pcs
<1>6. CASE PlanSkips(p) \/ Act(p)
  BY <1>1, <1>6 DEF PlanSkips, Act, Applied, Return, Step, Pcs
<1>7. CASE Plan(p)
  BY <1>1, <1>7 DEF Plan, Step, envVars, Pcs
<1>8. CASE ApplyFails(p)
  BY <1>1, <1>8 DEF ApplyFails, ApplyBreaks, Return, Step, Pcs
<1> QED
  BY <1>2, <1>3, <1>4, <1>5, <1>6, <1>7, <1>8 DEF Work

\* A request or a command that arrives.
LEMMA Arrives ==
  ASSUME HInv, NEW p \in Procs, NEW r, Arrive(p, r)
  PROVE  /\ pc[p] = "idle"
         /\ \A q \in Procs : pc'[q] = IF q = p THEN "lock" ELSE pc[q]
         /\ \A q \in Procs : req'[q] = IF q = p THEN r ELSE req[q]
         /\ DOMAIN reply = Procs => DOMAIN reply' = Procs
         /\ Spend("requests")
         /\ UNCHANGED <<file, snap, todo, wgfile, kernel, last, server>>
BY DEF Arrive, Step, HInv, Shape, fileVars, wgVars

LEMMA PhasesStep == HInv /\ Phases /\ [Next]_vars => Phases'
<1> SUFFICES ASSUME HInv, Phases, [Next]_vars PROVE Phases'
  OBVIOUS
<1>1. /\ DOMAIN pc = Procs
      /\ Starter \notin Handlers /\ Starter \notin Clis /\ Handlers \cap Clis = {}
      /\ Starter \in Procs /\ Handlers \subseteq Procs /\ Clis \subseteq Procs
  BY ProcsAssumption DEF HInv, Shape, Procs, Servers, Lockers
<1>2. ASSUME NEW p \in Procs, Work(p) PROVE Phases'
  BY <1>1, <1>2, WorkMoves DEF Phases
<1>3. ASSUME NEW h \in Handlers, ReceiveJoin(h) \/ ReceivePeers(h) \/ ReceiveRemove(h)
      PROVE  Phases'
  <2>1. server = "up" /\ \E r : Arrive(h, r)
    BY <1>3 DEF ReceiveJoin, ReceivePeers, ReceiveRemove
  <2> QED
    BY <1>1, <2>1, Arrives DEF Phases
<1>4. ASSUME NEW k \in Clis, TypeCode(k) \/ TypeRm(k) PROVE Phases'
  <2>1. (OperatorWaits => server # "starting") /\ \E r : Arrive(k, r)
    BY <1>4 DEF TypeCode, TypeRm
  <2> QED
    BY <1>1, <2>1, Arrives DEF Phases
<1>5. CASE Start
  BY <1>1, <1>5 DEF Start, Step, Phases
<1>6. CASE Crash
  BY <1>1, <1>6 DEF Crash, Kill, Phases, Servers
<1>7. ASSUME NEW k \in Clis, Interrupt(k) PROVE Phases'
  BY <1>1, <1>7 DEF Interrupt, Kill, Phases
<1>8. CASE Outage \/ SetClock \/ UNCHANGED vars
  BY <1>8 DEF Outage, SetClock, vars, procVars, envVars, Phases
<1> QED
  BY <1>2, <1>3, <1>4, <1>5, <1>6, <1>7, <1>8 DEF Next

\* A step that leaves the interface and its config alone, and gives no apply
\* as done, is true to both promises.
LEMMA Untold ==
  ASSUME kernel' \in {kernel, {}},
         \A p \in Procs : pc[p] \in {"plan", "act"} /\ pc'[p] = "idle" => reply'[p] # "applied"
  PROVE  TrueAnswer /\ Forward
BY DEF TrueAnswer, Forward

LEMMA ArriveInterface ==
  ASSUME HInv, Interface, NEW p \in Procs, NEW r, Arrive(p, r),
         p \in Clis => r.op = "code",
         p # Starter
  PROVE  Interface' /\ TrueAnswer /\ Forward
<1>1. /\ pc[p] = "idle"
      /\ \A q \in Procs : pc'[q] = IF q = p THEN "lock" ELSE pc[q]
      /\ \A q \in Procs : req'[q] = IF q = p THEN r ELSE req[q]
      /\ DOMAIN reply' = Procs
      /\ UNCHANGED <<file, snap, todo, wgfile, kernel, last, server>>
  BY Arrives DEF Interface, Room
<1>2. Room'
  BY <1>1, OtherBudget, Arrives DEF Interface, Room
<1>3. CodesOnly'
  BY <1>1 DEF Interface, CodesOnly, Procs
<1>4. StarterCurrent' /\ LastIsKernel'
  BY <1>1 DEF Interface, StarterCurrent, LastIsKernel
<1>5. ActReady'
  BY <1>1 DEF Interface, ActReady, Wanted
<1>6. Settled'
  BY <1>1 DEF Interface, Settled
<1>7. TrueAnswer /\ Forward
  BY <1>1, Untold
<1> QED
  BY <1>2, <1>3, <1>4, <1>5, <1>6, <1>7 DEF Interface

\* A step before the apply: the process decides, and at most writes the file.
LEMMA BeforeInterface ==
  ASSUME HInv, Phases, Interface, OperatorWaits,
         NEW p \in Procs, NEW to \in Pcs,
         pc[p] \in {"lock", "guard", "relock"},
         \A q \in Procs : pc'[q] = IF q = p THEN to ELSE pc[q],
         \A q \in Procs : req'[q] = req[q] \/ (q = p /\ to = "idle"),
         to # "act",
         p \in Clis => to \in {"idle", "lock", "guard"},
         pc[p] = "relock" => to = "plan",
         \/ file' = file
         \/ pc[p] = "guard" /\ (to = "relock" \/ file'.peers = file.peers),
         \A q \in Procs : q # p => snap'[q] = snap[q] /\ todo'[q] = todo[q],
         Room',
         UNCHANGED <<wgfile, kernel, last, server>>
  PROVE  Interface' /\ TrueAnswer /\ Forward
<1>0. p # Starter /\ p \in Lockers
  BY DEF HInv, Roles, Procs, Servers, Lockers
<1>1. server # "starting"
  BY <1>0 DEF Phases, Lockers
<1>2. CodesOnly'
  BY DEF Interface, CodesOnly, Procs
<1>3. StarterCurrent' /\ LastIsKernel'
  BY <1>1 DEF Interface, StarterCurrent, LastIsKernel
<1>4. ActReady'
  BY DEF Interface, ActReady, Wanted
<1>5. Settled'
  BY DEF Interface, Settled, Pcs, Conf
<1>6. TrueAnswer /\ Forward
  BY Untold
<1> QED
  BY <1>2, <1>3, <1>4, <1>5, <1>6 DEF Interface

\* A process that ends its apply, the interface running `now`.
LEMMA AfterInterface ==
  ASSUME HInv, Phases, Interface, OperatorWaits,
         NEW p \in Procs, pc[p] \in {"plan", "act"},
         \A q \in Procs : pc'[q] = IF q = p THEN "idle" ELSE pc[q],
         \A q \in Procs : q # p => req'[q] = req[q] /\ snap'[q] = snap[q] /\ todo'[q] = todo[q],
         \A q \in Procs : q # p => reply'[q] = reply[q],
         Room', UNCHANGED file,
         server' # "starting",
         LastIsKernel',
         kernel' = {Conf(file.peers)} \/ kernel' = {},
         kernel' = {} => kernel = {} /\ reply'[p] # "applied"
  PROVE  Interface' /\ TrueAnswer /\ Forward
<1>1. p \notin Clis
  BY DEF Interface, CodesOnly
<1>2. CodesOnly'
  BY <1>1 DEF Interface, CodesOnly, Procs
<1>3. StarterCurrent'
  BY DEF StarterCurrent
<1>4. ActReady'
  BY OneApplies DEF ActReady
<1>5. Settled'
  BY DEF Settled, Conf
<1>6. TrueAnswer /\ Forward
  BY OneApplies DEF TrueAnswer, Forward, Conf
<1> QED
  BY <1>2, <1>3, <1>4, <1>5, <1>6 DEF Interface

LEMMA ApplyInterface ==
  ASSUME HInv, Phases, Interface, OperatorWaits,
         NEW p \in Procs, PlanSkips(p) \/ Act(p) \/ ApplyFails(p)
  PROVE  Interface' /\ TrueAnswer /\ Forward
<1>1. /\ pc[p] \in {"plan", "act"}
      /\ \A q \in Procs : pc'[q] = IF q = p THEN "idle" ELSE pc[q]
      /\ \A q \in Procs : q # p => snap'[q] = snap[q] /\ req'[q] = req[q]
      /\ UNCHANGED file
  BY DEF PlanSkips, Act, ApplyFails, Applied, ApplyBreaks, Return, Step, HInv, Shape, fileVars
<1>2. /\ \A q \in Procs : q # p => todo'[q] = todo[q] /\ reply'[q] = reply[q]
      /\ DOMAIN todo' = Procs /\ DOMAIN reply' = Procs
      /\ reply'[p] = IF ApplyFails(p) THEN "unapplied" ELSE "applied"
  <2>1. Return(p, pc[p], "applied") \/ (ApplyFails(p) /\ Return(p, pc[p], "unapplied"))
    BY DEF PlanSkips, Act, ApplyFails, Applied, ApplyBreaks, Return, Step
  <2>2. ApplyFails(p) => Return(p, pc[p], "unapplied")
    BY DEF ApplyFails, ApplyBreaks, Return, Step
  <2> QED
    BY <2>1, <2>2 DEF Return, Interface, Room
<1>3. p \in Servers
  BY <1>1 DEF Interface, CodesOnly, Procs, Servers
<1>4. Wanted(p) = Conf(file.peers)
  BY <1>1, AppliesCurrent DEF Interface
<1>5. server' # "starting"
  BY <1>1, <1>3 DEF PlanSkips, Act, ApplyFails, Applied, Phases, Servers
<1>6. CASE PlanSkips(p)
  <2>1. kernel = last /\ last = {Conf(file.peers)} /\ UNCHANGED <<kernel, last, budget>>
    BY <1>3, <1>4, <1>6 DEF PlanSkips, Skip, LastApplied, Interface, LastIsKernel, Applied
  <2>2. Room' /\ LastIsKernel'
    BY <1>2, <2>1 DEF Interface, Room, LastIsKernel
  <2> QED
    BY <1>1, <1>2, <1>5, <2>1, <2>2, AfterInterface
<1>7. CASE Act(p)
  <2>1. pc[p] = "act" /\ wgfile = {Wanted(p)}
    BY <1>7 DEF Act, Applied, Return, Step, Interface, ActReady
  <2>2. kernel' = {Conf(file.peers)} /\ last' = kernel' /\ UNCHANGED budget
    BY <1>3, <1>4, <1>7, <2>1 DEF Act, Applied
  <2>3. Room' /\ LastIsKernel'
    BY <1>2, <2>2 DEF Interface, Room, LastIsKernel
  <2> QED
    BY <1>1, <1>2, <1>5, <2>2, <2>3, AfterInterface
<1>8. CASE ApplyFails(p)
  <2>1. /\ pc[p] = "act" /\ ~Fits(p) /\ UNCHANGED <<kernel, budget>>
        /\ last' \in {last, {}}
    BY <1>8, NoFailures DEF ApplyFails, ApplyBreaks, Return, Step, Interface
  <2>2. kernel = {}
    BY <2>1 DEF Fits, Interface, ActReady
  <2>3. Room' /\ LastIsKernel'
    BY <1>2, <2>1, <2>2 DEF Interface, Room, LastIsKernel
  <2> QED
    BY <1>1, <1>2, <1>5, <1>8, <2>1, <2>2, <2>3, AfterInterface
<1> QED
  BY <1>6, <1>7, <1>8

\* The config is written and the command chosen.
LEMMA PlanInterface ==
  ASSUME HInv, Phases, Interface, OperatorWaits, NEW p \in Procs, Plan(p)
  PROVE  Interface' /\ TrueAnswer /\ Forward
<1>1. /\ pc[p] = "plan"
      /\ \A q \in Procs : pc'[q] = IF q = p THEN "act" ELSE pc[q]
      /\ \A q \in Procs : todo'[q] = IF q = p THEN (IF kernel = {} THEN "bring_up" ELSE "sync")
                                             ELSE todo[q]
      /\ DOMAIN todo' = Procs
      /\ wgfile' = {Wanted(p)}
      /\ UNCHANGED <<file, req, snap, reply, kernel, last, server, budget>>
  BY DEF Plan, Step, HInv, Shape, Interface, Room, fileVars, envVars
<1>2. p \notin Clis
  BY <1>1 DEF Interface, CodesOnly
<1>3. Room' /\ CodesOnly'
  BY <1>1, <1>2 DEF Interface, Room, CodesOnly, Procs
<1>4. StarterCurrent' /\ LastIsKernel'
  BY <1>1 DEF Interface, StarterCurrent, LastIsKernel
<1>5. ActReady'
  BY <1>1, OneApplies DEF ActReady, Wanted
<1>6. Settled'
  BY <1>1 DEF Settled
<1>7. TrueAnswer /\ Forward
  BY <1>1, Untold
<1> QED
  BY <1>3, <1>4, <1>5, <1>6, <1>7 DEF Interface

\* What a killed process had started runs the config on disk, which is the
\* file's.
LEMMA KillInterface ==
  ASSUME HInv, Phases, Interface, OperatorWaits,
         (Crash \/ \E k \in Clis : Interrupt(k))
  PROVE  Interface' /\ TrueAnswer /\ Forward
<1>1. PICK Q \in SUBSET Procs :
        /\ Kill(Q)
        /\ \/ Q = Servers /\ server' = "down" /\ last' = {}
           \/ Q \subseteq Clis /\ UNCHANGED <<server, last>>
  BY DEF Crash, Interrupt, Procs
<1>2. /\ \A q \in Procs : pc'[q] = IF q \in Q THEN "idle" ELSE pc[q]
      /\ \A q \in Procs : req'[q] = IF q \in Q THEN NoRequest ELSE req[q]
      /\ \A q \in Procs : snap'[q] = IF q \in Q THEN Empty ELSE snap[q]
      /\ \A q \in Procs : todo'[q] = IF q \in Q THEN "none" ELSE todo[q]
      /\ \A q \in Procs : pc[q] # "idle" /\ q \in Q => reply'[q] = "lost"
      /\ DOMAIN reply' = Procs /\ DOMAIN todo' = Procs
      /\ UNCHANGED <<file, wgfile>>
  BY <1>1 DEF Kill, fileVars
<1>3. \/ UNCHANGED kernel
      \/ Q = Servers /\ kernel' = {Conf(file.peers)}
  <2>1. \A q \in Q : pc[q] = "act" => wgfile = {Conf(file.peers)} /\ q \notin Clis
    BY <1>1, AppliesCurrent DEF Interface, ActReady, CodesOnly
  <2> QED
    BY <1>1, <2>1 DEF Kill
<1>4. Room'
  BY <1>1, <1>2, OtherBudget DEF Interface, Room, Kill
<1>5. CodesOnly'
  BY <1>2 DEF Interface, CodesOnly, Procs
<1>6. StarterCurrent'
  BY <1>1, <1>2, ProcsAssumption DEF Interface, StarterCurrent, Procs, Servers, Lockers
<1>7. LastIsKernel'
  BY <1>1, <1>3, ProcsAssumption DEF Interface, LastIsKernel, Servers, Lockers
<1>8. ActReady'
  <2> SUFFICES ASSUME NEW q \in Procs, pc'[q] = "act"
               PROVE  /\ wgfile' = {Wanted(q)'}
                      /\ todo'[q] \in {"sync", "bring_up"}
                      /\ todo'[q] = "bring_up" => kernel' = {}
    BY DEF ActReady
  <2>1. q \notin Q /\ pc[q] = "act" /\ q \notin Clis
    BY <1>2 DEF Interface, CodesOnly
  <2>2. Q # Servers
    BY <2>1 DEF Procs
  <2> QED
    BY <1>2, <1>3, <2>1, <2>2 DEF Interface, ActReady, Wanted
<1>9. Settled'
  BY <1>1, <1>2, <1>3, ProcsAssumption DEF Interface, Settled, CodesOnly, Conf, Servers, Lockers
<1>10. TrueAnswer /\ Forward
  BY <1>2, <1>3 DEF TrueAnswer, Forward, Conf
<1> QED
  BY <1>4, <1>5, <1>6, <1>7, <1>8, <1>9, <1>10 DEF Interface

LEMMA StartInterface ==
  ASSUME HInv, Phases, Interface, Start
  PROVE  Interface' /\ TrueAnswer /\ Forward
<1>1. /\ server' = "starting" /\ server = "down" /\ last' = {}
      /\ Starter \in Procs /\ Starter \notin Clis
      /\ \A q \in Procs : pc'[q] = IF q = Starter THEN "plan" ELSE pc[q]
      /\ \A q \in Procs : snap'[q] = IF q = Starter THEN file ELSE snap[q]
      /\ UNCHANGED <<file, req, todo, reply, wgfile, kernel, budget>>
  BY ProcsAssumption DEF Start, Step, HInv, Shape, Procs, Servers, Lockers, fileVars
<1>2. Room' /\ CodesOnly'
  BY <1>1 DEF Interface, Room, CodesOnly, Procs
<1>3. StarterCurrent' /\ LastIsKernel' /\ Settled'
  BY <1>1 DEF StarterCurrent, LastIsKernel, Settled
<1>4. ActReady'
  BY <1>1 DEF Interface, ActReady, Wanted
<1>5. TrueAnswer /\ Forward
  BY <1>1, Untold
<1> QED
  BY <1>2, <1>3, <1>4, <1>5 DEF Interface

LEMMA InterfaceStep ==
  ASSUME HInv, Phases, Interface, Calm, [Next]_vars
  PROVE  Interface' /\ [TrueAnswer]_vars /\ [Forward]_vars
<1>0. /\ Starter \notin Handlers /\ Starter \notin Clis /\ Handlers \cap Clis = {}
      /\ Handlers \subseteq Procs /\ Clis \subseteq Procs
      /\ OperatorWaits
  BY ProcsAssumption DEF Procs, Servers, Lockers, Calm
<1>1. ASSUME NEW h \in Handlers, ReceiveJoin(h) \/ ReceivePeers(h) \/ ReceiveRemove(h)
      PROVE  Interface' /\ TrueAnswer /\ Forward
  <2>1. \E r : Arrive(h, r)
    BY <1>1 DEF ReceiveJoin, ReceivePeers, ReceiveRemove
  <2> QED
    BY <1>0, <2>1, ArriveInterface
<1>2. ASSUME NEW k \in Clis, TypeCode(k) \/ TypeRm(k)
      PROVE  Interface' /\ TrueAnswer /\ Forward
  <2>1. Arrive(k, [op |-> "code", at |-> clock])
    BY <1>2 DEF TypeCode, TypeRm, Calm
  <2> QED
    BY <1>0, <2>1, ArriveInterface
<1>3. ASSUME NEW p \in Procs, Acquire(p)
      PROVE  Interface' /\ TrueAnswer /\ Forward
  <2>1. PICK to \in {"guard", "plan"} :
          /\ pc[p] = IF to = "guard" THEN "lock" ELSE "relock"
          /\ \A q \in Procs : pc'[q] = IF q = p THEN to ELSE pc[q]
    BY <1>3 DEF Acquire, Step, HInv, Shape
  <2>2. /\ \A q \in Procs : q # p => snap'[q] = snap[q]
        /\ UNCHANGED <<file, req, todo, reply, wgfile, kernel, last, server, budget>>
    BY <1>3 DEF Acquire, HInv, Shape, fileVars, wgVars, envVars
  <2>3. Room'
    BY <2>2 DEF Interface, Room
  <2>4. p \in Clis => to = "guard"
    BY <2>1 DEF Interface, CodesOnly
  <2> QED
    BY <1>0, <2>1, <2>2, <2>3, <2>4, BeforeInterface DEF Pcs
<1>4. ASSUME NEW p \in Procs, AcquireFails(p) \/ CommitFails(p)
      PROVE  Interface' /\ TrueAnswer /\ Forward
  BY <1>4, NoFailures DEF AcquireFails, CommitFails, Interface
<1>5. ASSUME NEW p \in Procs, Refuse(p) \/ CommitCode(p)
      PROVE  Interface' /\ TrueAnswer /\ Forward
  <2>1. PICK answer : Return(p, "guard", answer)
    BY <1>5 DEF Refuse, CommitCode
  <2>2. /\ pc[p] = "guard"
        /\ \A q \in Procs : pc'[q] = IF q = p THEN "idle" ELSE pc[q]
        /\ \A q \in Procs : q # p => req'[q] = req[q] /\ snap'[q] = snap[q] /\ todo'[q] = todo[q]
        /\ DOMAIN todo' = Procs /\ DOMAIN reply' = Procs
    BY <2>1 DEF Return, Step, HInv, Shape, Interface, Room
  <2>3. UNCHANGED <<wgfile, kernel, last, server, budget>>
    BY <1>5 DEF Refuse, CommitCode, Commit, wgVars, envVars
  <2>4. Room'
    BY <2>2, <2>3 DEF Interface, Room
  <2>5. file' = file \/ file'.peers = file.peers
    <3>1. CASE Refuse(p)
      BY <3>1 DEF Refuse, fileVars
    <3>2. CASE CommitCode(p)
      <4>1. p \in Lockers
        BY <2>2 DEF HInv, Roles, Procs, Servers, Lockers
      <4>2. snap[p] = file
        BY <2>2, <4>1 DEF HInv, GuardIsCurrent
      <4> QED
        BY <3>2, <4>2 DEF CommitCode, Commit, HInv, Shape
    <3> QED
      BY <1>5, <3>1, <3>2
  <2> QED
    BY <1>0, <2>2, <2>3, <2>4, <2>5, BeforeInterface DEF Pcs
<1>6. ASSUME NEW p \in Procs,
             CommitJoin(p) \/ CommitPeers(p) \/ CommitRemove(p) \/ CommitRm(p)
      PROVE  Interface' /\ TrueAnswer /\ Forward
  <2>1. /\ pc[p] = "guard" /\ req[p].op # "code"
        /\ \A q \in Procs : pc'[q] = IF q = p THEN "relock" ELSE pc[q]
        /\ UNCHANGED <<req, snap, todo, reply, wgfile, kernel, last, server, budget>>
    BY <1>6 DEF CommitJoin, CommitPeers, CommitRemove, CommitRm, Commit, ThenApply, Step, HInv,
                Shape, wgVars, envVars
  <2>2. p \notin Clis
    BY <2>1 DEF Interface, CodesOnly
  <2>3. Room'
    BY <2>1 DEF Interface, Room
  <2> QED
    BY <1>0, <2>1, <2>2, <2>3, BeforeInterface DEF Pcs
<1>7. ASSUME NEW p \in Procs, PlanSkips(p) \/ Plan(p) \/ Act(p) \/ ApplyFails(p)
      PROVE  Interface' /\ TrueAnswer /\ Forward
  BY <1>0, <1>7, ApplyInterface, PlanInterface
<1>8. CASE Start
  BY <1>8, StartInterface
<1>9. CASE Crash \/ \E k \in Clis : Interrupt(k)
  BY <1>0, <1>9, KillInterface
<1>10. CASE Outage
  <2>1. /\ kernel' = {} /\ Spend("outages")
        /\ UNCHANGED <<file, pc, req, snap, todo, reply, wgfile, last, server>>
    BY <1>10 DEF Outage, fileVars, procVars
  <2>2. Room'
    BY <2>1, OtherBudget DEF Interface, Room
  <2> QED
    BY <2>1, <2>2 DEF Interface, CodesOnly, StarterCurrent, ActReady, LastIsKernel, Settled,
                      Wanted, TrueAnswer, Forward
<1>11. CASE SetClock
  <2>1. UNCHANGED <<file, pc, req, snap, todo, reply, wgfile, kernel, last, server, budget>>
    BY <1>11 DEF SetClock, fileVars, procVars, wgVars
  <2> QED
    BY <2>1 DEF Interface, Room, CodesOnly, StarterCurrent, ActReady, LastIsKernel, Settled,
                Wanted, Conf, TrueAnswer, Forward
<1>12. CASE UNCHANGED vars
  <2>1. UNCHANGED <<file, pc, req, snap, todo, reply, wgfile, kernel, last, server, budget>>
    BY <1>12 DEF vars, fileVars, procVars, wgVars, envVars
  <2> QED
    BY <1>12, <2>1 DEF Interface, Room, CodesOnly, StarterCurrent, ActReady, LastIsKernel,
                       Settled, Wanted, Conf
<1> QED
  BY <1>1, <1>2, <1>3, <1>4, <1>5, <1>6, <1>7, <1>8, <1>9, <1>10, <1>11, <1>12
  DEF Next, Work

LEMMA InterfaceInductive ==
  Spec => [](HInv /\ Phases /\ (Calm => Interface))
<1>1. Init => HInv /\ Phases /\ (Calm => Interface) /\ clock \in Times
  BY InitHInv, InitInterface DEF Init, InitWith
<1>2. /\ HInv /\ Phases /\ (Calm => Interface) /\ clock \in Times
      /\ [Next]_vars
      => (HInv /\ Phases /\ (Calm => Interface) /\ clock \in Times)'
  BY StepHInv, StepClock, PhasesStep, InterfaceStep DEF Calm
<1> QED
  BY <1>1, <1>2, PTL DEF Spec

\* Two applies never share the scratch file beside the config, however many
\* threads and commands there are, unless somebody types while the server
\* starts (WgApplier::apply: "callers hold the state lock across this").
THEOREM ApplyAlone == ASSUME OperatorWaits PROVE Spec => []AppliesExclusive
<1>1. HInv /\ Phases => AppliesExclusive
  BY OneApplies DEF AppliesExclusive
<1> QED
  BY <1>1, InterfaceInductive, PTL

\* A server whose applier nobody bypasses is, once every request is answered,
\* at the devices of the file, for any number of threads and requests, crashes
\* and outages included (apply_to_interface).
THEOREM QuietHubCurrent == ASSUME Calm PROVE Spec => []QuietMeansCurrent
<1>1. Phases /\ (Calm => Interface) => QuietMeansCurrent
  BY DEF Interface, Settled, QuietMeansCurrent
<1> QED
  BY <1>1, InterfaceInductive, PTL

\* An apply that reports success tells the truth (WgApplier::apply, plan).
THEOREM AppliesTruly == ASSUME Calm PROVE Spec => AppliedMeansCurrent
<1>1. /\ HInv /\ Phases /\ (Calm => Interface)
      /\ [Next]_vars
      => [\A p \in Procs :
            pc[p] \in {"plan", "act"} /\ pc'[p] = "idle" /\ reply'[p] = "applied"
              => kernel' = {Conf(file.peers)}]_vars
  BY InterfaceStep DEF TrueAnswer
<1> QED
  BY <1>1, InterfaceInductive, PTL DEF Spec, AppliedMeansCurrent

\* Nothing moves the interface back to a state the file no longer has
\* (apply_to_interface).
THEOREM InterfaceNeverRewound == ASSUME Calm PROVE Spec => NeverRewound
<1>1. /\ HInv /\ Phases /\ (Calm => Interface)
      /\ [Next]_vars
      => [kernel' \notin {kernel, {}} => kernel' = {Conf(file.peers)}]_vars
  BY InterfaceStep DEF Forward
<1> QED
  BY <1>1, InterfaceInductive, PTL DEF Spec, NeverRewound

-----------------------------------------------------------------------------
(* A removal typed on the hub.  Its apply is a process of its own, with    *)
(* nothing it remembers, so it always runs a command; what the command     *)
(* loads is still the file as it is, while nobody types during a start.    *)
(* Typed earlier, it may load what the server wrote from an older copy.    *)

Answers == DOMAIN reply = Procs

\* An idle process serves nothing.
IdleServesNone == \A p \in Procs : pc[p] = "idle" => req[p].op # "rm"

\* Between the plan and the command the config on disk is that of the file.
WrittenCurrent == \A p \in Lockers : pc[p] = "act" => wgfile = {Conf(file.peers)}

RemovalInv == Answers /\ IdleServesNone /\ WrittenCurrent

\* A promise about a step.
RemovalTrue ==
  \A k \in Clis :
    req[k].op = "rm" /\ pc'[k] = "idle" /\ reply'[k] = "applied"
      => \A config \in kernel' : config \subseteq Conf(file.peers)

\* A process that serves one thing after the other.
LEMMA ServesOn ==
  ASSUME HInv, RemovalInv, NEW p \in Procs, NEW to \in Pcs,
         \A q \in Procs : pc'[q] = IF q = p THEN to ELSE pc[q],
         \/ to # "idle" /\ req' = req
         \/ to = "idle" /\ req' = [req EXCEPT ![p] = NoRequest]
  PROVE  IdleServesNone'
BY DEF RemovalInv, IdleServesNone, HInv, Shape, NoRequest

\* A step in which no removal reports an apply.
LEMMA NoneReported ==
  ASSUME RemovalInv, NEW p \in Procs,
         \A q \in Procs \ {p} : pc'[q] = pc[q],
         pc'[p] = "idle" /\ reply'[p] = "applied" => p \notin Clis
  PROVE  RemovalTrue
BY DEF RemovalInv, IdleServesNone, RemovalTrue, Procs

\* Whoever decides or commits keeps everybody else from the config.
LEMMA DecidesAlone ==
  ASSUME HInv, NEW p \in Procs, pc[p] = "guard", NEW q \in Lockers, pc[q] = "act"
  PROVE  FALSE
BY DEF HInv, Roles, GuardIsCurrent, Procs, Servers, Lockers

LEMMA WorkRemoval ==
  ASSUME OperatorWaits, HInv, Phases, RemovalInv, NEW p \in Procs, Work(p)
  PROVE  RemovalInv' /\ RemovalTrue
<1>1. /\ DOMAIN pc = Procs /\ DOMAIN reply = Procs /\ Lockers \subseteq Procs
      /\ Clis \subseteq Lockers
  BY DEF HInv, Shape, RemovalInv, Answers, Procs, Servers, Lockers
<1>2. CASE Acquire(p)
  <2>1. PICK to \in Pcs \ {"idle", "act"} : pc' = [pc EXCEPT ![p] = to]
    BY <1>2 DEF Acquire, Step, Pcs
  <2>2. UNCHANGED <<file, req, reply, wgfile>>
    BY <1>2 DEF Acquire, fileVars, wgVars
  <2>3. \A q \in Procs : pc'[q] = IF q = p THEN to ELSE pc[q]
    BY <1>1, <2>1
  <2>4. IdleServesNone' /\ RemovalTrue
    BY <2>2, <2>3, ServesOn, NoneReported
  <2>5. WrittenCurrent'
    BY <1>1, <2>2, <2>3 DEF RemovalInv, WrittenCurrent, Conf
  <2> QED
    BY <1>1, <2>2, <2>4, <2>5 DEF RemovalInv, Answers
<1>3. CASE AcquireFails(p) \/ Refuse(p) \/ CommitFails(p) \/ ApplyFails(p)
  <2>1. PICK from, answer : Return(p, from, answer) /\ answer # "applied"
    <3>1. CASE AcquireFails(p)
      BY <3>1 DEF AcquireFails
    <3>2. CASE Refuse(p)
      <4>1. Outcome(p) # "applied"
        BY DEF Outcome, Verdict
      <4> QED
        BY <3>2, <4>1 DEF Refuse
    <3>3. CASE CommitFails(p)
      BY <3>3 DEF CommitFails
    <3>4. CASE ApplyFails(p)
      BY <3>4 DEF ApplyFails, ApplyBreaks
    <3> QED
      BY <1>3, <3>1, <3>2, <3>3, <3>4
  <2>2. UNCHANGED <<file, wgfile>>
    BY <1>3 DEF AcquireFails, Refuse, CommitFails, ApplyFails, fileVars, wgVars
  <2>3. \A q \in Procs : pc'[q] = IF q = p THEN "idle" ELSE pc[q]
    BY <1>1, <2>1 DEF Return, Step
  <2>4. reply'[p] # "applied" /\ DOMAIN reply' = Procs
    BY <1>1, <2>1 DEF Return
  <2>5. IdleServesNone' /\ RemovalTrue
    <3>1. req' = [req EXCEPT ![p] = NoRequest] /\ "idle" \in Pcs
      BY <2>1 DEF Return, Pcs
    <3>2. IdleServesNone'
      BY <2>3, <3>1, ServesOn
    <3>3. RemovalTrue
      BY <2>3, <2>4, NoneReported
    <3> QED
      BY <3>2, <3>3
  <2>6. WrittenCurrent'
    BY <1>1, <2>2, <2>3 DEF RemovalInv, WrittenCurrent, Conf
  <2> QED
    BY <2>4, <2>5, <2>6 DEF RemovalInv, Answers
<1>4. CASE CommitJoin(p) \/ CommitPeers(p) \/ CommitRemove(p) \/ CommitRm(p)
  <2>1. pc[p] = "guard" /\ pc' = [pc EXCEPT ![p] = "relock"] /\ UNCHANGED <<req, reply>>
    BY <1>4 DEF CommitJoin, CommitPeers, CommitRemove, CommitRm, ThenApply, Step
  <2>2. \A q \in Procs : pc'[q] = IF q = p THEN "relock" ELSE pc[q]
    BY <1>1, <2>1
  <2>3. IdleServesNone' /\ RemovalTrue
    BY <2>1, <2>2, ServesOn, NoneReported DEF Pcs
  <2>4. WrittenCurrent'
    BY <1>1, <2>1, <2>2, DecidesAlone DEF WrittenCurrent
  <2> QED
    BY <1>1, <2>1, <2>3, <2>4 DEF RemovalInv, Answers
<1>5. CASE CommitCode(p)
  <2>1. Return(p, "guard", "ok")
    BY <1>5 DEF CommitCode
  <2>2. pc[p] = "guard" /\ \A q \in Procs : pc'[q] = IF q = p THEN "idle" ELSE pc[q]
    BY <1>1, <2>1 DEF Return, Step
  <2>3. reply'[p] # "applied" /\ DOMAIN reply' = Procs
    BY <1>1, <2>1 DEF Return
  <2>4. IdleServesNone' /\ RemovalTrue
    <3>1. req' = [req EXCEPT ![p] = NoRequest] /\ "idle" \in Pcs
      BY <2>1 DEF Return, Pcs
    <3>2. IdleServesNone'
      BY <2>2, <3>1, ServesOn
    <3>3. RemovalTrue
      BY <2>2, <2>3, NoneReported
    <3> QED
      BY <3>2, <3>3
  <2>5. WrittenCurrent'
    BY <1>1, <2>2, DecidesAlone DEF WrittenCurrent
  <2> QED
    BY <2>3, <2>4, <2>5 DEF RemovalInv, Answers
<1>6. CASE PlanSkips(p)
  <2>1. Return(p, "plan", "applied") /\ UNCHANGED file
    BY <1>6 DEF PlanSkips, Applied, fileVars
  <2>2. pc[p] = "plan" /\ \A q \in Procs : pc'[q] = IF q = p THEN "idle" ELSE pc[q]
    BY <1>1, <2>1 DEF Return, Step
  <2>3. p \notin Clis
    BY <1>6, ProcsAssumption DEF PlanSkips, Skip, LastApplied, Servers, Lockers
  <2>4. IdleServesNone' /\ RemovalTrue
    BY <2>1, <2>2, <2>3, ServesOn, NoneReported DEF Return, Pcs
  <2>5. WrittenCurrent'
    BY <1>1, <2>2, OneApplies DEF WrittenCurrent
  <2> QED
    BY <1>1, <2>1, <2>4, <2>5 DEF RemovalInv, Answers, Return
<1>7. CASE Plan(p)
  <2>1. /\ pc[p] = "plan" /\ pc' = [pc EXCEPT ![p] = "act"] /\ wgfile' = {Wanted(p)}
        /\ UNCHANGED <<file, req, reply>>
    BY <1>7 DEF Plan, Step, fileVars
  <2>2. \A q \in Procs : pc'[q] = IF q = p THEN "act" ELSE pc[q]
    BY <1>1, <2>1
  <2>3. IdleServesNone' /\ RemovalTrue
    BY <2>1, <2>2, ServesOn, NoneReported DEF Pcs
  <2>4. WrittenCurrent'
    <3>1. SUFFICES ASSUME NEW q \in Lockers, pc'[q] = "act"
                   PROVE  wgfile' = {Conf(file.peers)}
      BY <2>1 DEF WrittenCurrent, Conf
    <3>2. q = p
      BY <1>1, <2>1, <2>2, <3>1, OneApplies
    <3>3. snap[p] = file
      BY <2>1, <3>2 DEF HInv, GuardIsCurrent
    <3> QED
      BY <2>1, <3>3 DEF Wanted
  <2> QED
    BY <1>1, <2>1, <2>3, <2>4 DEF RemovalInv, Answers
<1>8. CASE Act(p)
  <2>1. Return(p, "act", "applied") /\ UNCHANGED <<file, wgfile>> /\ kernel' = wgfile
    BY <1>8 DEF Act, Applied, fileVars
  <2>2. pc[p] = "act" /\ \A q \in Procs : pc'[q] = IF q = p THEN "idle" ELSE pc[q]
    BY <1>1, <2>1 DEF Return, Step
  <2>3. IdleServesNone'
    BY <2>1, <2>2, ServesOn DEF Return, Pcs
  <2>4. p \in Clis => kernel' = {Conf(file.peers)}
    BY <1>1, <2>1, <2>2 DEF RemovalInv, WrittenCurrent
  <2>5. RemovalTrue
    BY <1>1, <2>2, <2>4 DEF RemovalInv, IdleServesNone, RemovalTrue
  <2>6. WrittenCurrent'
    BY <1>1, <2>1, <2>2 DEF RemovalInv, WrittenCurrent, Conf
  <2> QED
    BY <1>1, <2>1, <2>3, <2>5, <2>6 DEF RemovalInv, Answers, Return
<1> QED
  BY <1>2, <1>3, <1>4, <1>5, <1>6, <1>7, <1>8 DEF Work

LEMMA RemovalStep ==
  ASSUME OperatorWaits, HInv, Phases, RemovalInv, [Next]_vars
  PROVE  RemovalInv' /\ (RemovalTrue \/ UNCHANGED vars)
<1>1. /\ DOMAIN pc = Procs /\ DOMAIN reply = Procs /\ Lockers \subseteq Procs
      /\ Clis \subseteq Lockers /\ Handlers \subseteq Lockers /\ Starter \in Procs
      /\ Starter \notin Lockers /\ Servers \subseteq Procs
  BY ProcsAssumption DEF HInv, Shape, RemovalInv, Answers, Procs, Servers, Lockers
<1>2. ASSUME NEW p \in Lockers, NEW r, Arrive(p, r)
      PROVE  RemovalInv' /\ RemovalTrue
  <2>1. /\ pc[p] = "idle" /\ \A q \in Procs : pc'[q] = IF q = p THEN "lock" ELSE pc[q]
        /\ \A q \in Procs : req'[q] = IF q = p THEN r ELSE req[q]
        /\ DOMAIN reply' = Procs /\ UNCHANGED <<file, wgfile>>
    BY <1>1, <1>2, Arrives
  <2>2. RemovalTrue
    BY <1>1, <2>1, NoneReported
  <2> QED
    BY <1>1, <2>1, <2>2 DEF RemovalInv, Answers, IdleServesNone, WrittenCurrent, Conf
<1>3. ASSUME NEW Q, Q \subseteq Procs, Kill(Q)
      PROVE  RemovalInv' /\ RemovalTrue
  <2>1. /\ \A q \in Procs : pc'[q] = IF q \in Q THEN "idle" ELSE pc[q]
        /\ \A q \in Procs : req'[q] = IF q \in Q THEN NoRequest ELSE req[q]
        /\ \A q \in Procs : q \in Q /\ pc[q] # "idle" => reply'[q] = "lost"
        /\ DOMAIN reply' = Procs /\ UNCHANGED <<file, wgfile>>
    BY <1>3 DEF Kill, fileVars
  <2>2. RemovalTrue
    BY <1>1, <2>1 DEF RemovalInv, IdleServesNone, RemovalTrue
  <2>3. NoRequest.op # "rm"
    BY DEF NoRequest
  <2> QED
    BY <1>1, <2>1, <2>2, <2>3 DEF RemovalInv, Answers, IdleServesNone, WrittenCurrent, Conf
<1>4. ASSUME NEW h \in Handlers, ReceiveJoin(h) \/ ReceivePeers(h) \/ ReceiveRemove(h)
      PROVE  RemovalInv' /\ RemovalTrue
  BY <1>1, <1>2, <1>4 DEF ReceiveJoin, ReceivePeers, ReceiveRemove
<1>5. ASSUME NEW k \in Clis, TypeCode(k) \/ TypeRm(k)
      PROVE  RemovalInv' /\ RemovalTrue
  BY <1>1, <1>2, <1>5 DEF TypeCode, TypeRm
<1>6. ASSUME NEW k \in Clis, Interrupt(k)
      PROVE  RemovalInv' /\ RemovalTrue
  BY <1>1, <1>3, <1>6 DEF Interrupt
<1>7. CASE Crash
  BY <1>1, <1>3, <1>7 DEF Crash
<1>8. CASE Start
  <2>1. /\ \A q \in Procs : pc'[q] = IF q = Starter THEN "plan" ELSE pc[q]
        /\ UNCHANGED <<file, req, reply, wgfile>>
    BY <1>1, <1>8 DEF Start, Step, fileVars
  <2>2. RemovalTrue
    BY <1>1, <2>1, NoneReported
  <2> QED
    BY <1>1, <2>1, <2>2 DEF RemovalInv, Answers, IdleServesNone, WrittenCurrent, Conf
<1>9. CASE Outage \/ SetClock \/ UNCHANGED vars
  <2>1. UNCHANGED <<file, pc, req, reply, wgfile>>
    BY <1>9 DEF Outage, SetClock, vars, fileVars, procVars, wgVars
  <2>2. RemovalTrue
    BY <1>1, <2>1, NoneReported DEF RemovalInv, IdleServesNone, RemovalTrue
  <2> QED
    BY <2>1, <2>2 DEF RemovalInv, Answers, IdleServesNone, WrittenCurrent, Conf
<1> QED
  BY <1>4, <1>5, <1>6, <1>7, <1>8, <1>9, WorkRemoval DEF Next

\* `anago rm` that reports the interface updated has left no device in it that the
\* file does not list, for any number of threads and commands, crashes, failures and
\* outages, while nobody types during a start (remove_locally).
THEOREM RemovalsTold == ASSUME OperatorWaits PROVE Spec => RemovalReported
<1>1. Init => RemovalInv
  BY DEF Init, InitWith, RemovalInv, Answers, IdleServesNone, WrittenCurrent, NoRequest,
         Procs, Lockers, Servers
<1>2. HInv /\ Phases /\ RemovalInv /\ [Next]_vars => RemovalInv'
  BY RemovalStep
<1>3. HInv /\ Phases /\ RemovalInv /\ [Next]_vars =>
        [\A k \in Clis :
           req[k].op = "rm" /\ pc'[k] = "idle" /\ reply'[k] = "applied"
             => \A config \in kernel' : config \subseteq Conf(file.peers)]_vars
  BY RemovalStep DEF RemovalTrue
<1> QED
  BY <1>1, <1>2, <1>3, InterfaceInductive, PTL DEF Spec, RemovalReported
=============================================================================
