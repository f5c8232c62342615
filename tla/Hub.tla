---------------------------------- MODULE Hub ----------------------------------
(***************************************************************************)
(* The hub as it runs: one `server run` process answering requests in      *)
(* several threads, and commands typed on the same machine, all working on *)
(* one state file under one flock, one wg config file and one kernel       *)
(* interface.                                                              *)
(*                                                                         *)
(* A handler and a command take the same path.  Under the lock they read   *)
(* the file, decide and write it back; they give the lock up, take it      *)
(* again, read the file a second time and apply what they read to the      *)
(* interface (apply_to_interface, remove_locally).  `server run` applies   *)
(* once more as it starts, from a copy it read without the lock.           *)
(*                                                                         *)
(* An optional value is a set of at most one element: {} is Option::None.  *)
(***************************************************************************)
EXTENDS ServerState

CONSTANTS
  Handlers,      \* server threads that may be inside a handler at once
  Clis,          \* command-line processes on the hub
  CliOps,        \* what they do: a subset of {"code", "rm"}
  Starter,       \* the main thread of `server run`
  OperatorWaits, \* TRUE: no command runs while the server is starting
  MaxRequests,   \* bound: requests and commands
  MaxCrashes,    \* bound: times a process is killed
  MaxFailures,   \* bound: wg commands, locks and writes that fail
  MaxOutages     \* bound: times the interface is taken down from outside

Servers == Handlers \cup {Starter}
Lockers == Handlers \cup Clis
Procs == Servers \cup Clis

ASSUME ProcsAssumption ==
  /\ Handlers \cap Clis = {}
  /\ Starter \notin Lockers
  /\ CliOps \subseteq {"code", "rm"}
  /\ OperatorWaits \in BOOLEAN

ASSUME BoundsAssumption ==
  {MaxRequests, MaxCrashes, MaxFailures, MaxOutages} \subseteq Nat

VARIABLES
  clock,
  file,     \* state.json: its codes[] and peers[]
  joined,   \* history: every registration ever committed
  lock,     \* state.lock: the process holding it, at most one
  pc,       \* where each process stands
  req,      \* the request each process serves
  snap,     \* the state each process last read from the file
  todo,     \* the action its plan settled on
  reply,    \* what each process last answered, printed or logged
  wgfile,   \* the config text on disk
  kernel,   \* the config the interface runs, {} while it is down
  last,     \* last_applied of the server's WgApplier
  server,   \* the server process: "down", "starting" or "up"
  budget    \* what is left of the four bounds

fileVars == <<file, joined>>
procVars == <<pc, req, snap, todo, reply>>
wgVars == <<wgfile, kernel, last>>
envVars == <<clock, server, budget>>
vars == <<fileVars, lock, procVars, wgVars, envVars>>

-----------------------------------------------------------------------------
(* Values.                                                                 *)

State == [codes: Seq(IssuedCode), peers: SUBSET Peer]
Config == SUBSET (Tokens \X Hosts)
Empty == [codes |-> <<>>, peers |-> {}]

NoRequest == [op |-> "none"]
Request ==
  {NoRequest}
  \cup [op: {"join"}, code: Codes, name: Names, token: Tokens]
  \cup [op: {"peers"}, token: Tokens]
  \cup [op: {"remove"}, token: Tokens, name: Names]
  \cup [op: {"code"}, at: Times]
  \cup [op: {"rm"}, name: Names]

Reply ==
  {"none", "ok", "invalid_code", "name_taken", "subnet_full", "unauthorized",
   "not_found", "no_free_code", "error", "applied", "unapplied", "lost"}

Budget == [requests: 0 .. MaxRequests, crashes: 0 .. MaxCrashes,
           failures: 0 .. MaxFailures, outages: 0 .. MaxOutages]

\* The text server_config renders.  Keys are fresh and peers[] only grows at
\* its end, so the set of devices determines the text.
Conf(peers) == {<<p.token, p.address>> : p \in peers}

Step(p, from, to) ==
  /\ pc[p] = from
  /\ pc' = [pc EXCEPT ![p] = to]

\* The handler or the command returns; its locals die with it.
Return(p, from, answer) ==
  /\ Step(p, from, "idle")
  /\ reply' = [reply EXCEPT ![p] = answer]
  /\ req' = [req EXCEPT ![p] = NoRequest]
  /\ snap' = [snap EXCEPT ![p] = Empty]
  /\ todo' = [todo EXCEPT ![p] = "none"]

Spend(bound) ==
  /\ budget[bound] > 0
  /\ budget' = [budget EXCEPT ![bound] = @ - 1]

\* A hub whose state file holds `state`, before `server run` is first started.
InitWith(state, history) ==
  /\ clock \in Times
  /\ file = state
  /\ joined = history
  /\ lock = {}
  /\ pc = [p \in Procs |-> "idle"]
  /\ req = [p \in Procs |-> NoRequest]
  /\ snap = [p \in Procs |-> Empty]
  /\ todo = [p \in Procs |-> "none"]
  /\ reply = [p \in Procs |-> "none"]
  /\ wgfile = {}
  /\ kernel = {}
  /\ last = {}
  /\ server = "down"
  /\ budget = [requests |-> MaxRequests, crashes |-> MaxCrashes,
               failures |-> MaxFailures, outages |-> MaxOutages]

Init == InitWith(Empty, {})

-----------------------------------------------------------------------------
(* Requests and commands arrive.                                           *)

Drawn == {r.token : r \in joined} \cup
         {req[p].token : p \in {q \in Handlers : req[q].op = "join"}}

Arrive(p, r) ==
  /\ Step(p, "idle", "lock")
  /\ Spend("requests")
  /\ req' = [req EXCEPT ![p] = r]
  /\ reply' = [reply EXCEPT ![p] = "none"]
  /\ UNCHANGED <<fileVars, lock, snap, todo, wgVars, clock, server>>

\* POST /join: the token is minted before the lock is taken.
ReceiveJoin(h) ==
  /\ server = "up"
  /\ \E c \in Codes, n \in Names, t \in Tokens \ Drawn :
       Arrive(h, [op |-> "join", code |-> c, name |-> n, token |-> t])

\* GET /peers, by anyone who was ever given a token.
ReceivePeers(h) ==
  /\ server = "up"
  /\ \E r \in joined : Arrive(h, [op |-> "peers", token |-> r.token])

\* DELETE /peers/n.
ReceiveRemove(h) ==
  /\ server = "up"
  /\ \E r \in joined, n \in Names :
       Arrive(h, [op |-> "remove", token |-> r.token, name |-> n])

\* `anago code` reads the clock before it waits for the lock.
TypeCode(k) ==
  /\ OperatorWaits => server # "starting"
  /\ "code" \in CliOps
  /\ Arrive(k, [op |-> "code", at |-> clock])

\* `anago rm n`.
TypeRm(k) ==
  /\ OperatorWaits => server # "starting"
  /\ "rm" \in CliOps
  /\ \E n \in Names : Arrive(k, [op |-> "rm", name |-> n])

-----------------------------------------------------------------------------
(* Store::lock, the decision, Guard::commit.                               *)

\* Mutation: the lock file is opened but never waited for.
AcquireUnlocked(p) ==
  /\ Step(p, "lock", "guard") \/ Step(p, "relock", "plan")
  /\ lock' = {p}
  /\ snap' = [snap EXCEPT ![p] = file]
  /\ UNCHANGED <<fileVars, req, todo, reply, wgVars, envVars>>

\* Mutation: the apply works on the state the decision was made on.
AcquireOnce(p) ==
  /\ lock = {}
  /\ \/ Step(p, "lock", "guard") /\ snap' = [snap EXCEPT ![p] = file]
     \/ Step(p, "relock", "plan") /\ UNCHANGED snap
  /\ lock' = {p}
  /\ UNCHANGED <<fileVars, req, todo, reply, wgVars, envVars>>

\* The flock, then the read: before the change, and again before the apply.
Acquire(p) ==
  /\ lock = {}
  /\ Step(p, "lock", "guard") \/ Step(p, "relock", "plan")
  /\ lock' = {p}
  /\ snap' = [snap EXCEPT ![p] = file]
  /\ UNCHANGED <<fileVars, req, todo, reply, wgVars, envVars>>

\* A lock that cannot be opened, or a file that cannot be read: an error
\* before the change, a line in the log after it.
AcquireFails(p) ==
  /\ Return(p, "lock", "error") \/ Return(p, "relock", "unapplied")
  /\ Spend("failures")
  /\ UNCHANGED <<fileVars, lock, wgVars, clock, server>>

\* The handlers' and commands' own checks on the state they hold.
Outcome(p) ==
  LET r == req[p]
      g == snap[p]
  IN CASE r.op = "join" -> Verdict(g.codes, g.peers, r.code, r.name, clock)
       [] r.op \in {"peers", "remove"} /\ Caller(g.peers, r.token) = {} -> "unauthorized"
       [] r.op \in {"remove", "rm"} /\ ~NameTaken(g.peers, r.name) -> "not_found"
       [] r.op = "code" /\ Unissued(g.codes) = {} -> "no_free_code"
       [] OTHER -> "ok"

\* Mutation: the refusal returns without dropping the guard.
RefuseHoldingLock(p) ==
  /\ Outcome(p) # "ok"
  /\ Return(p, "guard", Outcome(p))
  /\ UNCHANGED <<fileVars, lock, wgVars, envVars>>

\* Every draw of `anago code` may hit a string of the history.
DrawsExhausted(p) == req[p].op = "code" /\ snap[p].codes # <<>>

\* Dropping the guard without a commit discards the change.
Refuse(p) ==
  /\ \/ Outcome(p) # "ok" /\ Return(p, "guard", Outcome(p))
     \/ DrawsExhausted(p) /\ Return(p, "guard", "no_free_code")
  /\ lock' = {}
  /\ UNCHANGED <<fileVars, wgVars, envVars>>

\* The atomic write failed: the file is as it was and the caller is told so.
CommitFails(p) ==
  /\ Outcome(p) = "ok"
  /\ Return(p, "guard", "error")
  /\ Spend("failures")
  /\ lock' = {}
  /\ UNCHANGED <<fileVars, wgVars, clock, server>>

\* Guard::commit writes the changed copy back and drops the lock; the caller
\* goes on to apply it.
Commit(p, op, state) ==
  /\ req[p].op = op
  /\ Outcome(p) = "ok"
  /\ file' = state
  /\ lock' = {}
  /\ UNCHANGED <<wgVars, envVars>>

\* Mutation: the apply uses the handler's own copy, without the lock.
ThenApplyOwnCopy(p) ==
  /\ Step(p, "guard", "plan")
  /\ snap' = [snap EXCEPT ![p] = file']
  /\ UNCHANGED <<req, todo, reply>>

ThenApply(p) ==
  /\ Step(p, "guard", "relock")
  /\ UNCHANGED <<req, snap, todo, reply>>

CommitJoin(h) ==
  /\ \E a \in Hosts :
       /\ IsAllocated(snap[h].peers, a)
       /\ Commit(h, "join",
            [codes |-> Spent(snap[h].codes, req[h].code, clock),
             peers |-> snap[h].peers \cup {NewPeer(req[h].name, a, req[h].token, clock)}])
  /\ joined' = joined \cup {[code |-> req[h].code, token |-> req[h].token]}
  /\ ThenApply(h)

CommitPeers(h) ==
  /\ Commit(h, "peers", [snap[h] EXCEPT !.peers = Touched(@, req[h].token, clock)])
  /\ ThenApply(h)
  /\ UNCHANGED joined

CommitRemove(h) ==
  /\ Commit(h, "remove",
       [snap[h] EXCEPT !.peers = Touched(Without(@, req[h].name), req[h].token, clock)])
  /\ ThenApply(h)
  /\ UNCHANGED joined

CommitRm(k) ==
  /\ Commit(k, "rm", [snap[k] EXCEPT !.peers = Without(@, req[k].name)])
  /\ ThenApply(k)
  /\ UNCHANGED joined

\* `anago code` has nothing to apply.
CommitCode(k) ==
  /\ \E c \in Unissued(snap[k].codes) :
       Commit(k, "code", [snap[k] EXCEPT !.codes = Append(@, Fresh(c, req[k].at))])
  /\ Return(k, "guard", "ok")
  /\ UNCHANGED joined

-----------------------------------------------------------------------------
(* WgApplier::apply.                                                       *)

Wanted(p) == Conf(snap[p].peers)

\* Only the server's applier lives long enough to have applied before.
LastApplied(p) == IF p \in Servers THEN last ELSE {}

\* The apply ends: the guard a handler or a command held across it is
\* dropped (the starter has none), and a starting server opens its port.
Applied(p, from) ==
  /\ Return(p, from, "applied")
  /\ lock' = lock \ {p}
  /\ server' = IF p = Starter THEN "up" ELSE server
  /\ UNCHANGED <<fileVars, clock, budget>>

\* Mutation: nobody asks whether the interface is up.
SkipUnasked(p) == LastApplied(p) = {Wanted(p)}

\* Mutation: the file on disk decides whether there is anything to do.
SkipByFile(p) == kernel # {} /\ wgfile = {Wanted(p)}

\* plan: nothing to do when the interface is up and the last successful apply
\* was this very text.
Skip(p) == kernel # {} /\ LastApplied(p) = {Wanted(p)}

\* write_config, then plan.
PlanSkips(p) ==
  /\ Skip(p)
  /\ Applied(p, "plan")
  /\ wgfile' = {Wanted(p)}
  /\ UNCHANGED <<kernel, last>>

\* Mutation: the guard is dropped before the command runs.
PlanUnlocking(p) ==
  /\ ~Skip(p)
  /\ Step(p, "plan", "act")
  /\ wgfile' = {Wanted(p)}
  /\ todo' = [todo EXCEPT ![p] = IF kernel = {} THEN "bring_up" ELSE "sync"]
  /\ lock' = lock \ {p}
  /\ UNCHANGED <<fileVars, req, snap, reply, kernel, last, envVars>>

Plan(p) ==
  /\ ~Skip(p)
  /\ Step(p, "plan", "act")
  /\ wgfile' = {Wanted(p)}
  /\ todo' = [todo EXCEPT ![p] = IF kernel = {} THEN "bring_up" ELSE "sync"]
  /\ UNCHANGED <<fileVars, lock, req, snap, reply, kernel, last, envVars>>

\* syncconf needs the interface up, wg-quick up needs it down.
Fits(p) == (todo[p] = "sync") <=> (kernel # {})

\* Both commands take the config from the file on disk; last_applied gets the
\* text this apply wanted.
Act(p) ==
  /\ Fits(p)
  /\ Applied(p, "act")
  /\ kernel' = wgfile
  /\ last' = IF p \in Servers THEN {Wanted(p)} ELSE last
  /\ UNCHANGED wgfile

\* The config could not be written or the command does not fit, with no
\* effect, or the command reports a failure, with or without one.
ApplyBreaks(p) ==
  \/ /\ Return(p, "plan", "unapplied")
     /\ Spend("failures")
     /\ UNCHANGED kernel
  \/ /\ Return(p, "act", "unapplied")
     /\ Fits(p)
     /\ Spend("failures")
     /\ UNCHANGED kernel
  \/ /\ Return(p, "act", "unapplied")
     /\ Fits(p)
     /\ todo[p] = "sync"
     /\ Spend("failures")
     /\ kernel' = wgfile
  \/ /\ Return(p, "act", "unapplied")
     /\ ~Fits(p)
     /\ UNCHANGED <<kernel, budget>>

\* last_applied keeps its value.  A handler logs the error, a command reports
\* it, a starting server exits with it.
ApplyFails(p) ==
  /\ ApplyBreaks(p)
  /\ lock' = lock \ {p}
  /\ server' = IF p = Starter THEN "down" ELSE server
  /\ last' = IF p = Starter THEN {} ELSE last
  /\ UNCHANGED <<fileVars, wgfile, clock>>

-----------------------------------------------------------------------------
(* Processes and the world around them.                                    *)

\* `server run`: the state is read without the lock and applied as read.
Start ==
  /\ server = "down"
  /\ OperatorWaits => \A k \in Clis : pc[k] = "idle"
  /\ server' = "starting"
  /\ Step(Starter, "idle", "plan")
  /\ snap' = [snap EXCEPT ![Starter] = file]
  /\ last' = {}
  /\ UNCHANGED <<fileVars, lock, req, todo, reply, wgfile, kernel, clock, budget>>

\* Processes Q are killed: their flocks go with them, a wg command one of
\* them had started may still have its effect.
Kill(Q) ==
  /\ Spend("crashes")
  /\ lock' = lock \ Q
  /\ pc' = [p \in Procs |-> IF p \in Q THEN "idle" ELSE pc[p]]
  /\ req' = [p \in Procs |-> IF p \in Q THEN NoRequest ELSE req[p]]
  /\ snap' = [p \in Procs |-> IF p \in Q THEN Empty ELSE snap[p]]
  /\ todo' = [p \in Procs |-> IF p \in Q THEN "none" ELSE todo[p]]
  /\ reply' = [p \in Procs |-> IF p \in Q /\ pc[p] # "idle" THEN "lost" ELSE reply[p]]
  /\ \/ UNCHANGED kernel
     \/ \E p \in Q : pc[p] = "act" /\ Fits(p) /\ kernel' = wgfile
  /\ UNCHANGED <<fileVars, wgfile, clock>>

\* The server dies, with every request in flight.
Crash ==
  /\ server # "down"
  /\ Kill(Servers)
  /\ server' = "down"
  /\ last' = {}

\* A command is interrupted.
Interrupt(k) ==
  /\ pc[k] # "idle"
  /\ Kill({k})
  /\ UNCHANGED <<server, last>>

\* wg-quick down, or a reboot.
Outage ==
  /\ kernel # {}
  /\ Spend("outages")
  /\ kernel' = {}
  /\ UNCHANGED <<fileVars, lock, procVars, wgfile, last, clock, server>>

SetClock ==
  /\ clock' \in Times
  /\ UNCHANGED <<fileVars, lock, procVars, wgVars, server, budget>>

\* One step of a handler, of a command or of the starting server.
Work(p) ==
  \/ Acquire(p) \/ AcquireFails(p)
  \/ Refuse(p) \/ CommitFails(p)
  \/ CommitJoin(p) \/ CommitPeers(p) \/ CommitRemove(p) \/ CommitCode(p) \/ CommitRm(p)
  \/ PlanSkips(p) \/ Plan(p) \/ Act(p) \/ ApplyFails(p)

Next ==
  \/ \E h \in Handlers : ReceiveJoin(h) \/ ReceivePeers(h) \/ ReceiveRemove(h)
  \/ \E k \in Clis : TypeCode(k) \/ TypeRm(k) \/ Interrupt(k)
  \/ \E p \in Procs : Work(p)
  \/ Start \/ Crash \/ Outage \/ SetClock

Spec == Init /\ [][Next]_vars

\* A thread or process that can run is scheduled, a waiter gets a free flock,
\* and systemd restarts the server (Restart=on-failure).
Fairness ==
  /\ \A p \in Procs : WF_vars(Work(p))
  /\ WF_vars(Start)

-----------------------------------------------------------------------------
(* Safety.                                                                 *)

\* Every variable keeps its type.
TypeOK ==
  /\ clock \in Times
  /\ file \in State
  /\ joined \in SUBSET [code: Codes, token: Tokens]
  /\ lock \in {{}} \cup {{p} : p \in Lockers}
  /\ pc \in [Procs -> {"idle", "lock", "guard", "relock", "plan", "act"}]
  /\ req \in [Procs -> Request]
  /\ snap \in [Procs -> State]
  /\ todo \in [Procs -> {"none", "sync", "bring_up"}]
  /\ reply \in [Procs -> Reply]
  /\ {wgfile, kernel, last} \subseteq {{}} \cup {{c} : c \in Config}
  /\ server \in {"down", "starting", "up"}
  /\ budget \in Budget

\* Whoever decides or applies holds the flock alone, and the copy it works on
\* is the file as it still is: no write slips between a handler's read and its
\* commit or its apply, not even the starting server's (Store::lock, Guard).
GuardIsCurrent ==
  \A p \in Lockers :
    pc[p] \in {"guard", "plan", "act"} => lock = {p} /\ snap[p] = file

\* Two applies never share the scratch file next to the config
\* (WgApplier::apply: "callers hold the state lock across this").
AppliesExclusive ==
  \A p, q \in Procs : pc[p] = "act" /\ pc[q] = "act" => p = q

\* Once every request is answered, an interface that is up routes exactly the
\* registered devices (apply_to_interface: "regenerated from state on the next
\* change or restart").
QuietMeansCurrent ==
  server = "up" /\ (\A p \in Procs : pc[p] = "idle")
    => kernel \in {{}, {Conf(file.peers)}}

\* The locked read-modify-write of all these processes behaves like the
\* atomic operations of Registry: no lost update, no double redemption, no
\* address given twice.
Reg == INSTANCE Registry WITH codes <- file.codes, peers <- file.peers
Implements == Reg!RegistrySpec

\* An apply that reports success leaves the interface at the state the file
\* holds at that moment (WgApplier::apply, plan).
AppliedMeansCurrent ==
  [][\A p \in Procs :
       pc[p] \in {"plan", "act"} /\ pc'[p] = "idle" /\ reply'[p] = "applied"
         => kernel' = {Conf(file.peers)}]_vars

\* Nothing moves the interface to a state the file no longer has
\* (apply_to_interface; remove_locally: "never from a snapshot that a later
\* write may already have replaced").
NeverRewound ==
  [][kernel' \notin {kernel, {}} => kernel' = {Conf(file.peers)}]_vars

\* `anago rm` that reports the interface updated leaves no device in it that
\* the file does not list (remove_locally).
RemovalReported ==
  [][\A k \in Clis :
       req[k].op = "rm" /\ pc'[k] = "idle" /\ reply'[k] = "applied"
         => \A config \in kernel' : config \subseteq Conf(file.peers)]_vars

-----------------------------------------------------------------------------
(* Liveness, under Fairness.                                               *)

\* Every request or command is answered in the end, or lost with its process:
\* no handler keeps the lock, no wait for it is forever.
Answered ==
  \A p \in Lockers : pc[p] # "idle" ~> pc[p] = "idle"

\* When the requests stop, the interface runs the file's devices for good,
\* also when the server was killed between a commit and its apply; unless
\* somebody took it down by hand, which only the next apply repairs.
Converges == [](budget.outages = MaxOutages) => <>[](kernel = {Conf(file.peers)})
=============================================================================
