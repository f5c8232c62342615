--------------------------------- MODULE Device ---------------------------------
(***************************************************************************)
(* A machine that joins a hub and keeps its settings: `anago join`,        *)
(* `anago join --export` for a phone, and `anago sync`, which a timer      *)
(* runs.  The commands are processes that share two files and the kernel's *)
(* interface, take one lock each (they do not share it), can be killed     *)
(* anywhere, and talk to the hub over a network that loses requests and    *)
(* answers and may deliver a request after its sender gave up.             *)
(*                                                                         *)
(* The hub is its promise (Registry) reduced to what a device can see.  An *)
(* attempt to join draws one key pair and gets at most one token, so the   *)
(* number of the attempt stands for the key, the token and the device.     *)
(* `version` stands for the three settings a hub reports and sync repairs. *)
(***************************************************************************)
EXTENDS Integers, FiniteSets

CONSTANTS
  Procs,           \* processes on the device
  Codes,           \* join codes the operator handed out
  Names,           \* device names
  MaxAttempts,     \* bound: joins and exports typed
  MaxVersion,      \* bound: how often the hub's settings change
  MaxFaults,       \* bound: what breaks, is lost or is killed
  MaxChanges,      \* bound: what people do besides joining
  Reverts          \* the hub's settings may go back to earlier ones

ASSUME DeviceAssumption ==
  /\ {MaxAttempts, MaxVersion, MaxFaults, MaxChanges} \subseteq Nat
  /\ Reverts \in BOOLEAN
  /\ Names # {} /\ Codes # {}

VARIABLES
  unspent,    \* the hub: codes that still admit a device
  registered, \* the hub: its devices
  version,    \* the hub: its settings
  net,        \* messages on their way
  conf,       \* the WireGuard config
  device,     \* device.json
  out,        \* the file --out names
  kernel,     \* the interface
  procs,      \* the commands that run
  made,       \* attempts so far
  budget,     \* what is left of the bounds
  mishaps     \* history: how attempts ended that left something behind

vars == <<unspent, registered, version, net, conf, device, out, kernel, procs,
          made, budget, mishaps>>

hub == <<unspent, registered, version>>
files == <<conf, device, out, kernel>>

-----------------------------------------------------------------------------
(* Values.                                                                 *)

Attempts == 1 .. MaxAttempts
Versions == 0 .. MaxVersion

\* A file: absent, a claim (CLAIM_MARKER), somebody's, or what attempt `of`
\* wrote, with the settings of that version.
File ==
  [what: {"absent", "claim", "foreign", "joined"}, of: 0 .. MaxAttempts, version: Versions]
Absent == [what |-> "absent", of |-> 0, version |-> 0]
Claim == [what |-> "claim", of |-> 0, version |-> 0]
Foreign == [what |-> "foreign", of |-> 0, version |-> 0]
Saved(a, v) == [what |-> "joined", of |-> a, version |-> v]

Messages ==
  [kind: {"join", "accepted", "refused", "delete", "deleted", "denied"},
   of: Attempts, name: Names, code: Codes, version: Versions]

Pcs ==
  {"idle",
   "check", "claim_conf", "claim_device", "send", "sent", "save_conf", "save_device",
   "fill", "undo", "undoing", "drop", "drop_device", "drop_out", "activate",
   "sync_lock", "ask", "write_conf", "syncconf", "record"}

\* claimed: the flag device_claimed, or that there is a claimed --out file.
Proc ==
  [pc: Pcs, of: 0 .. MaxAttempts, export: BOOLEAN, name: Names, code: Codes,
   claimed: BOOLEAN, local: File, version: Versions]
Idle ==
  [pc |-> "idle", of |-> 0, export |-> FALSE, name |-> CHOOSE n \in Names : TRUE,
   code |-> CHOOSE c \in Codes : TRUE, claimed |-> FALSE, local |-> Absent, version |-> 0]

\* The attempts a hub lists.
Listed == {r.of : r \in registered}

-----------------------------------------------------------------------------
(* Processes.                                                              *)

Goto(p, pc) == procs' = [procs EXCEPT ![p].pc = pc]
Return(p) == procs' = [procs EXCEPT ![p] = Idle]

Spend(bound) ==
  /\ budget[bound] > 0
  /\ budget' = [budget EXCEPT ![bound] = @ - 1]

Note(a, what) == mishaps' = mishaps \cup {[of |-> a, what |-> what]}

\* Between taking the join lock and the end of join::run.
Joining(p) ==
  /\ ~procs[p].export
  /\ procs[p].pc \in {"check", "claim_conf", "claim_device", "send", "sent", "save_conf",
                      "save_device", "undo", "undoing", "drop", "drop_device"}

\* Between taking the sync lock and the end of attempt().
Syncing(p) == procs[p].pc \in {"ask", "write_conf", "syncconf", "record"}

Init ==
  /\ unspent = Codes
  /\ registered = {}
  /\ version = 0
  /\ net = {}
  /\ conf = Absent
  /\ device = Absent
  /\ out = Absent
  /\ kernel = Absent
  /\ procs = [p \in Procs |-> Idle]
  /\ made = 0
  /\ budget = [faults |-> MaxFaults, changes |-> MaxChanges]
  /\ mishaps = {}

-----------------------------------------------------------------------------
(* The hub and the network.                                                *)

\* An answer that nobody waits for any more is gone.
Answer(m, kind) ==
  net' = (net \ {m}) \cup
    {[m EXCEPT !.kind = kind, !.version = version] :
       p \in {q \in Procs : procs[q].of = m.of /\ procs[q].pc \in {"sent", "undoing"}}}

\* POST /join.
HubJoins(m) ==
  /\ m.kind = "join"
  /\ \/ /\ m.code \in unspent
        /\ \A r \in registered : r.name # m.name
        /\ unspent' = unspent \ {m.code}
        /\ registered' = registered \cup {[of |-> m.of, name |-> m.name]}
        /\ Answer(m, "accepted")
     \/ /\ m.code \notin unspent \/ \E r \in registered : r.name = m.name
        /\ UNCHANGED <<unspent, registered>>
        /\ Answer(m, "refused")
  /\ UNCHANGED <<version, files, procs, made, budget, mishaps>>

\* DELETE /peers/name with the token of attempt m.of.
HubRemoves(m) ==
  /\ m.kind = "delete"
  /\ \/ /\ m.of \in Listed
        /\ registered' = {r \in registered : r.name # m.name}
        /\ Answer(m, "deleted")
     \/ /\ m.of \notin Listed
        /\ UNCHANGED registered
        /\ Answer(m, "denied")
  /\ UNCHANGED <<unspent, version, files, procs, made, budget, mishaps>>

\* A request or an answer is lost.
Lose(m) ==
  /\ Spend("faults")
  /\ net' = net \ {m}
  /\ UNCHANGED <<hub, files, procs, made, mishaps>>

-----------------------------------------------------------------------------
(* anago join.                                                             *)

\* Mutation: the lock is not asked for.
TypeJoinUnlocked(p, n, c) ==
  /\ procs[p].pc = "idle"
  /\ made < MaxAttempts
  /\ made' = made + 1
  /\ procs' = [procs EXCEPT ![p] =
                 [Idle EXCEPT !.pc = "check", !.of = made + 1, !.name = n, !.code = c]]
  /\ UNCHANGED <<hub, net, files, budget, mishaps>>

\* acquire_join_lock: tried, not waited for.  One that is refused changed
\* nothing and is no attempt.
TypeJoin(p, n, c) ==
  /\ procs[p].pc = "idle"
  /\ \A q \in Procs : ~Joining(q)
  /\ made < MaxAttempts
  /\ made' = made + 1
  /\ procs' = [procs EXCEPT ![p] =
                 [Idle EXCEPT !.pc = "check", !.of = made + 1, !.name = n, !.code = c]]
  /\ UNCHANGED <<hub, net, files, budget, mishaps>>

\* A file a claim may take: none, or what a killed join left.
Claimable(file) == file.what \in {"absent", "claim"}

\* check_not_joined.
Check(p) ==
  /\ procs[p].pc = "check"
  /\ IF Claimable(device) /\ Claimable(conf) THEN Goto(p, "claim_conf") ELSE Return(p)
  /\ UNCHANGED <<hub, net, files, made, budget, mishaps>>

\* claim_system.  There is no reservation to release yet when it fails.
ClaimConf(p) ==
  /\ procs[p].pc = "claim_conf"
  /\ IF Claimable(conf) THEN conf' = Claim /\ Goto(p, "claim_device")
     ELSE UNCHANGED conf /\ Return(p)
  /\ UNCHANGED <<hub, net, device, out, kernel, made, budget, mishaps>>

\* claim_user.
ClaimDevice(p) ==
  /\ procs[p].pc = "claim_device"
  /\ IF Claimable(device)
     THEN /\ device' = Claim
          /\ procs' = [procs EXCEPT ![p].pc = "send", ![p].claimed = TRUE]
     ELSE UNCHANGED device /\ Goto(p, "drop")
  /\ UNCHANGED <<hub, net, conf, out, kernel, made, budget, mishaps>>

\* A directory that cannot be written, a tool that fails: all of it before the
\* code is spent.
ReserveFails(p) ==
  /\ Spend("faults")
  /\ \/ procs[p].pc = "claim_conf" /\ Return(p)
     \/ procs[p].pc = "claim_device" /\ Goto(p, "drop")
     \/ procs[p].pc = "send" /\ Goto(p, IF procs[p].export THEN "drop_out" ELSE "drop")
  /\ UNCHANGED <<hub, net, files, made, mishaps>>

Request(p, kind) ==
  [kind |-> kind, of |-> procs[p].of, name |-> procs[p].name, code |-> procs[p].code,
   version |-> 0]

\* generate_keypair and client::send.
Send(p) ==
  /\ procs[p].pc = "send"
  /\ net' = net \cup {Request(p, "join")}
  /\ Goto(p, "sent")
  /\ UNCHANGED <<hub, files, made, budget, mishaps>>

AfterFailure(p) == IF procs[p].export THEN "drop_out" ELSE "drop"

Refused(p) ==
  /\ procs[p].pc = "sent"
  /\ \E m \in net :
       /\ m.of = procs[p].of /\ m.kind = "refused"
       /\ net' = net \ {m}
  /\ Goto(p, AfterFailure(p))
  /\ UNCHANGED <<hub, files, made, budget, mishaps>>

\* accepted: the answer is decoded and checked.
Accepted(p) ==
  /\ procs[p].pc = "sent"
  /\ \E m \in net :
       /\ m.of = procs[p].of /\ m.kind = "accepted"
       /\ net' = net \ {m}
       /\ procs' = [procs EXCEPT
            ![p].pc = IF procs[p].export THEN "fill" ELSE "save_conf",
            ![p].version = m.version]
  /\ UNCHANGED <<hub, files, made, budget, mishaps>>

\* An answer that is no JoinResponse: undone if it names the device and the
\* token (undo_credentials), otherwise the person is told (Undo::Unknown).
Unreadable(p) ==
  /\ procs[p].pc = "sent"
  /\ Spend("faults")
  /\ \E m \in net :
       /\ m.of = procs[p].of /\ m.kind = "accepted"
       /\ net' = net \ {m}
  /\ \/ Goto(p, "undo") /\ UNCHANGED mishaps
     \/ Goto(p, AfterFailure(p)) /\ Note(procs[p].of, "told")
  /\ UNCHANGED <<hub, files, made>>

\* client::send fails, because something was lost or took too long; a request
\* may still arrive.
GiveUp(p) ==
  /\ procs[p].pc \in {"sent", "undoing"}
  /\ \/ (\A m \in net : m.of # procs[p].of) /\ UNCHANGED budget
     \/ (\E m \in net : m.of = procs[p].of) /\ Spend("faults")
  /\ net' = {m \in net : m.of # procs[p].of \/ m.kind \in {"join", "delete"}}
  /\ Goto(p, AfterFailure(p))
  /\ Note(procs[p].of, IF procs[p].pc = "sent" THEN "unanswered" ELSE "told")
  /\ UNCHANGED <<hub, files, made>>

\* publish, its first file.
SaveConf(p) ==
  /\ procs[p].pc = "save_conf"
  /\ conf' = Saved(procs[p].of, procs[p].version)
  /\ Goto(p, "save_device")
  /\ UNCHANGED <<hub, net, device, out, kernel, made, budget, mishaps>>

\* Its second, and Reservation::commit.
SaveDevice(p) ==
  /\ procs[p].pc = "save_device"
  /\ device' = Saved(procs[p].of, procs[p].version)
  /\ Goto(p, "activate")
  /\ UNCHANGED <<hub, net, conf, out, kernel, made, budget, mishaps>>

\* Mutation: the config stays when the device file cannot be written, and the
\* reservation counts as filled.
SaveFailsKeeping(p) ==
  /\ Spend("faults")
  /\ \/ procs[p].pc = "save_conf" /\ Goto(p, "undo")
     \/ procs[p].pc = "save_device" /\ Return(p)
  /\ UNCHANGED <<hub, net, files, made, mishaps>>

\* A file cannot be written: the config goes with the device file.
SaveFails(p) ==
  /\ Spend("faults")
  /\ \/ procs[p].pc = "save_conf" /\ UNCHANGED conf
     \/ procs[p].pc = "save_device" /\ conf' = Absent
  /\ Goto(p, "undo")
  /\ UNCHANGED <<hub, net, device, out, kernel, made, mishaps>>

\* Mutation: a failure after the answer leaves like one before it.
UndoForgotten(p) ==
  /\ procs[p].pc = "undo"
  /\ Goto(p, AfterFailure(p))
  /\ UNCHANGED <<hub, net, files, made, budget, mishaps>>

\* undo_registration.
Undo(p) ==
  /\ procs[p].pc = "undo"
  /\ net' = net \cup {Request(p, "delete")}
  /\ Goto(p, "undoing")
  /\ UNCHANGED <<hub, files, made, budget, mishaps>>

\* Undo::Done, or Undo::Failed when the hub does not know the token.
Undone(p) ==
  /\ procs[p].pc = "undoing"
  /\ \E m \in net :
       /\ m.of = procs[p].of
       /\ net' = net \ {m}
       /\ \/ m.kind = "deleted" /\ UNCHANGED mishaps
          \/ m.kind = "denied" /\ Note(m.of, "told")
  /\ Goto(p, AfterFailure(p))
  /\ UNCHANGED <<hub, files, made, budget>>

\* Mutation: it removes the device file whoever holds it.
DropAll(p) ==
  /\ procs[p].pc = "drop"
  /\ conf' = Absent
  /\ Goto(p, "drop_device")
  /\ UNCHANGED <<hub, net, device, out, kernel, made, budget, mishaps>>

\* Reservation::drop.
Drop(p) ==
  /\ procs[p].pc = "drop"
  /\ conf' = Absent
  /\ IF procs[p].claimed THEN Goto(p, "drop_device") ELSE Return(p)
  /\ UNCHANGED <<hub, net, device, out, kernel, made, budget, mishaps>>

DropDevice(p) ==
  /\ procs[p].pc = "drop_device"
  /\ device' = Absent
  /\ Return(p)
  /\ UNCHANGED <<hub, net, conf, out, kernel, made, budget, mishaps>>

\* wg-quick up, after join::run has returned and its lock is gone.  It fails
\* on an interface that is already there.
Activate(p) ==
  /\ procs[p].pc = "activate"
  /\ IF kernel = Absent /\ conf.what = "joined" THEN kernel' = conf ELSE UNCHANGED kernel
  /\ Return(p)
  /\ UNCHANGED <<hub, net, conf, device, out, made, budget, mishaps>>

-----------------------------------------------------------------------------
(* anago join --export.  Nothing on this machine changes but a --out file. *)

\* Claimed::take: a new file, never one that is there.  The file is known by
\* its attempt, as the code knows it by its inode.
TypeExport(p, n, c, to_file) ==
  /\ procs[p].pc = "idle"
  /\ made < MaxAttempts
  /\ to_file => out = Absent
  /\ made' = made + 1
  /\ out' = IF to_file THEN [Claim EXCEPT !.of = made + 1] ELSE out
  /\ procs' = [procs EXCEPT ![p] =
                 [Idle EXCEPT !.pc = "send", !.export = TRUE, !.of = made + 1,
                              !.name = n, !.code = c, !.claimed = to_file]]
  /\ UNCHANGED <<hub, net, conf, device, kernel, budget, mishaps>>

\* Claimed::is_ours.
IsOurs(p) == out.what # "absent" /\ out.of = procs[p].of

\* Mutation: whatever the name holds by now is reported as the config.
FillUnasked(p) ==
  /\ procs[p].pc = "fill"
  /\ out' = IF procs[p].claimed /\ IsOurs(p) THEN Saved(procs[p].of, procs[p].version) ELSE out
  /\ Return(p)
  /\ Note(procs[p].of, IF procs[p].claimed THEN "filed" ELSE "printed")
  /\ UNCHANGED <<hub, net, conf, device, kernel, made, budget>>

\* Claimed::fill: written through the descriptor, then asked for by name.  A
\* print needs no file.
Fill(p) ==
  /\ procs[p].pc = "fill"
  /\ \/ /\ ~procs[p].claimed
        /\ UNCHANGED out /\ Return(p) /\ Note(procs[p].of, "printed")
     \/ /\ procs[p].claimed /\ IsOurs(p)
        /\ out' = Saved(procs[p].of, procs[p].version)
        /\ Return(p) /\ Note(procs[p].of, "filed")
     \/ /\ procs[p].claimed /\ ~IsOurs(p)
        /\ UNCHANGED <<out, mishaps>> /\ Goto(p, "undo")
  /\ UNCHANGED <<hub, net, conf, device, kernel, made, budget>>

\* A full disk, a closed pipe, a window too narrow.
FillFails(p) ==
  /\ procs[p].pc = "fill"
  /\ Spend("faults")
  /\ Goto(p, "undo")
  /\ UNCHANGED <<hub, net, files, made, mishaps>>

\* Claimed::drop.
DropOut(p) ==
  /\ procs[p].pc = "drop_out"
  /\ out' = IF procs[p].claimed /\ IsOurs(p) THEN Absent ELSE out
  /\ Return(p)
  /\ UNCHANGED <<hub, net, conf, device, kernel, made, budget, mishaps>>

-----------------------------------------------------------------------------
(* anago sync.                                                             *)

\* The timer, or a person: Home::read, before the lock.
TypeSync(p) ==
  /\ procs[p].pc = "idle"
  /\ device.what = "joined"
  /\ procs' = [procs EXCEPT ![p].pc = "sync_lock", ![p].local = device]
  /\ UNCHANGED <<hub, net, files, made, budget, mishaps>>

\* Home::lock: Busy when another run has it.
SyncLock(p) ==
  /\ procs[p].pc = "sync_lock"
  /\ IF \E q \in Procs : Syncing(q) THEN Return(p) ELSE Goto(p, "ask")
  /\ UNCHANGED <<hub, net, files, made, budget, mishaps>>

\* ask_hub and decide, for a device the hub lists: Unchanged or Rewrite.  The
\* hub answers at some moment before the answer is read, 401 once the device is
\* removed; the local half is what device.json said before the lock.
Ask(p) ==
  /\ procs[p].pc = "ask"
  /\ IF procs[p].local.of \in Listed /\ procs[p].local.version # version
     THEN procs' = [procs EXCEPT ![p].pc = "write_conf", ![p].version = version]
     ELSE Return(p)
  /\ UNCHANGED <<hub, net, files, made, budget, mishaps>>

\* Mutation: device.json before the apply.
WriteConfRecording(p) ==
  /\ procs[p].pc = "write_conf"
  /\ IF conf.what = "joined" /\ device.what # "absent"
     THEN /\ device' = [procs[p].local EXCEPT !.version = procs[p].version]
          /\ conf' = [conf EXCEPT !.version = procs[p].version]
          /\ procs' = [procs EXCEPT ![p].pc = "syncconf", ![p].of = conf.of]
     ELSE UNCHANGED <<conf, device>> /\ Return(p)
  /\ UNCHANGED <<hub, net, out, kernel, made, budget, mishaps>>

\* Mutation: only the running interface is changed.
WriteConfSkipped(p) ==
  /\ procs[p].pc = "write_conf"
  /\ IF conf.what = "joined"
     THEN procs' = [procs EXCEPT ![p].pc = "syncconf", ![p].of = conf.of]
     ELSE Return(p)
  /\ UNCHANGED <<hub, net, files, made, budget, mishaps>>

\* apply, step 1 and 2: the key comes out of the config that is there.
WriteConf(p) ==
  /\ procs[p].pc = "write_conf"
  /\ IF conf.what = "joined"
     THEN /\ conf' = [conf EXCEPT !.version = procs[p].version]
          /\ procs' = [procs EXCEPT ![p].pc = "syncconf", ![p].of = conf.of]
     ELSE UNCHANGED conf /\ Return(p)
  /\ UNCHANGED <<hub, net, device, out, kernel, made, budget, mishaps>>

\* Step 3, on an interface that is up.
SyncConf(p) ==
  /\ procs[p].pc = "syncconf"
  /\ IF kernel # Absent
     THEN kernel' = Saved(procs[p].of, procs[p].version) /\ Goto(p, "record")
     ELSE UNCHANGED kernel /\ Return(p)
  /\ UNCHANGED <<hub, net, conf, device, out, made, budget, mishaps>>

\* Step 4: what was read before the lock, with the new settings.  A device file
\* that is gone has no owner to give the new one to.
Record(p) ==
  /\ procs[p].pc = "record"
  /\ device' = IF device = Absent THEN device
               ELSE [procs[p].local EXCEPT !.version = procs[p].version]
  /\ Return(p)
  /\ UNCHANGED <<hub, net, conf, out, kernel, made, budget, mishaps>>

\* An unreachable hub, a file that cannot be read or written, a wg that fails.
SyncFails(p) ==
  /\ Syncing(p)
  /\ Spend("faults")
  /\ Return(p)
  /\ UNCHANGED <<hub, net, files, made, mishaps>>

-----------------------------------------------------------------------------
(* Everybody else.                                                         *)

\* A process is killed: its locks go, its files stay, its request travels on.
\* Mid-request the hub may know a device nobody holds; between the two files of
\* publish there is a config without a device file.
Kill(p) ==
  /\ procs[p].pc # "idle"
  /\ Spend("faults")
  /\ Return(p)
  /\ net' = {m \in net : m.of # procs[p].of \/ m.kind \in {"join", "delete"}}
  /\ IF procs[p].pc \in {"sent", "save_conf", "save_device", "fill", "undo", "undoing"}
     THEN Note(procs[p].of, IF procs[p].pc = "save_device" THEN "cut" ELSE "killed")
     ELSE UNCHANGED mishaps
  /\ UNCHANGED <<hub, files, made>>

NoRun == \A p \in Procs : procs[p].pc = "idle"

\* A person clears a file away, as rejoin_steps says: the tunnel goes down
\* first.  Not while a command runs.
ClearConf ==
  /\ conf # Absent
  /\ NoRun
  /\ Spend("changes")
  /\ conf' = Absent
  /\ kernel' = Absent
  /\ IF conf.what = "joined" THEN Note(conf.of, "cleared") ELSE UNCHANGED mishaps
  /\ UNCHANGED <<hub, net, device, out, procs, made>>

ClearDevice ==
  /\ device # Absent
  /\ NoRun
  /\ Spend("changes")
  /\ device' = Absent
  /\ IF device.what = "joined" THEN Note(device.of, "cleared") ELSE UNCHANGED mishaps
  /\ UNCHANGED <<hub, net, conf, out, kernel, procs, made>>

\* Somebody puts a file of their own where there is none, just when a join is
\* about to: not over a claim.
PlaceFile ==
  /\ \E p \in Procs : procs[p].pc \in {"check", "claim_conf", "claim_device"}
  /\ Spend("changes")
  /\ \/ conf = Absent /\ conf' = Foreign /\ UNCHANGED device
     \/ device = Absent /\ device' = Foreign /\ UNCHANGED conf
  /\ UNCHANGED <<hub, net, out, kernel, procs, made, mishaps>>

\* Anybody renames the --out file away, and another into its place, while an
\* export asks the hub.
SwapOut ==
  /\ \E p \in Procs : procs[p].export /\ procs[p].claimed
  /\ Spend("changes")
  /\ out' \in {Absent, Foreign} \ {out}
  /\ UNCHANGED <<hub, net, conf, device, kernel, procs, made, mishaps>>

\* wg-quick up, at boot or by hand, and an interface that goes.
Up ==
  /\ kernel = Absent
  /\ conf.what = "joined"
  /\ kernel' = conf
  /\ UNCHANGED <<hub, net, conf, device, out, procs, made, budget, mishaps>>

Down ==
  /\ kernel # Absent
  /\ Spend("changes")
  /\ kernel' = Absent
  /\ UNCHANGED <<hub, net, conf, device, out, procs, made, mishaps>>

\* `anago rm`: on the hub, or on a device that has a token.
Remove(n) ==
  /\ \E r \in registered : r.name = n
  /\ Spend("changes")
  /\ registered' = {r \in registered : r.name # n}
  /\ UNCHANGED <<unspent, version, net, files, procs, made, mishaps>>

\* The hub moves, or gets another key.
Move ==
  /\ \/ version < MaxVersion /\ version' = version + 1
     \/ Reverts /\ version > 0 /\ version' = version - 1
  /\ Spend("changes")
  /\ UNCHANGED <<unspent, registered, net, files, procs, made, mishaps>>

-----------------------------------------------------------------------------
JoinStep(p) ==
  \/ Check(p) \/ ClaimConf(p) \/ ClaimDevice(p) \/ ReserveFails(p)
  \/ Send(p) \/ Refused(p) \/ Accepted(p) \/ Unreadable(p) \/ GiveUp(p)
  \/ SaveConf(p) \/ SaveDevice(p) \/ SaveFails(p) \/ Undo(p) \/ Undone(p)
  \/ Drop(p) \/ DropDevice(p) \/ Activate(p)

ExportStep(p) == Fill(p) \/ FillFails(p) \/ DropOut(p)

SyncStep(p) ==
  \/ SyncLock(p) \/ Ask(p) \/ WriteConf(p) \/ SyncConf(p) \/ Record(p) \/ SyncFails(p)

Step(p) == JoinStep(p) \/ ExportStep(p) \/ SyncStep(p)

HubStep == \E m \in net : HubJoins(m) \/ HubRemoves(m)

Next ==
  \/ \E p \in Procs : Step(p) \/ Kill(p) \/ TypeSync(p)
  \/ \E p \in Procs, n \in Names, c \in Codes : TypeJoin(p, n, c)
  \/ \E p \in Procs, n \in Names, c \in Codes, to_file \in BOOLEAN : TypeExport(p, n, c, to_file)
  \/ HubStep
  \/ \E m \in net : Lose(m)
  \/ ClearConf \/ ClearDevice \/ PlaceFile \/ SwapOut \/ Up \/ Down \/ Move
  \/ \E n \in Names : Remove(n)

Spec == Init /\ [][Next]_vars

\* Processes run, the hub answers, the timer keeps starting sync.
Fairness ==
  /\ \A p \in Procs : WF_vars(Step(p))
  /\ WF_vars(HubStep)
  /\ WF_vars(\E p \in Procs : TypeSync(p))

FairSpec == Spec /\ Fairness
-----------------------------------------------------------------------------
(* Properties.                                                             *)

TypeOK ==
  /\ unspent \subseteq Codes
  /\ registered \subseteq [of: Attempts, name: Names]
  /\ version \in Versions
  /\ net \subseteq Messages
  /\ {conf, device, out, kernel} \subseteq File
  /\ procs \in [Procs -> Proc]
  /\ made \in 0 .. MaxAttempts
  /\ budget \in [faults: 0 .. MaxFaults, changes: 0 .. MaxChanges]
  /\ mishaps \subseteq
       [of: Attempts, what: {"told", "unanswered", "killed", "cut", "cleared", "printed", "filed"}]

Mishaps(a) == {m.what : m \in {n \in mishaps : n.of = a}}

\* device.json and the config beside it come from one registration: the token
\* and the key the hub knows together, whatever joins, syncs and kills overlap
\* (acquire_join_lock, Reservation, sync's WriteConf and Record).
PairMatches ==
  conf.what = "joined" /\ device.what = "joined" => conf.of = device.of

\* A config and no device file, or the reverse, "is a state nothing can use and
\* nothing can retry": it only comes of a kill between the two writes or of a
\* person who cleared one (publish, Reservation::drop, claim_system).
NothingHalfJoined ==
  \A p \in {conf, device} :
    p.what = "joined" /\ conf.of # device.of =>
      \/ \E q \in Procs : procs[q].pc = "save_device" /\ procs[q].of = p.of
      \/ Mishaps(p.of) \cap {"cut", "cleared"} # {}

Custody(a) ==
  \E p \in Procs :
    procs[p].of = a /\ procs[p].pc \in {"sent", "save_conf", "save_device", "fill", "undo", "undoing"}

\* What the hub lists and this machine asked for is held, or is being dealt
\* with, or the person was told, or an answer was lost or a process killed at
\* exactly the moment that loses it: no failure a join lives through leaves a
\* device nobody holds (post_registration).
NoSilentOrphan ==
  \A a \in Listed :
    \/ conf.of = a /\ device.of = a
    \/ Custody(a)
    \/ Mishaps(a) # {}

\* Nothing of somebody else's is overwritten or removed, at a name a command
\* claimed or wants to clean up: it takes a person to change it.  And an export
\* that reports a path reports its own file, with the phone's config in it, also
\* when others rename things during the call (Reservation, Claimed::is_ours).
FilesOfOthersKept ==
  [][/\ \A f \in {<<conf, conf'>>, <<device, device'>>, <<out, out'>>} :
          f[1] = Foreign /\ f[2] # Foreign => budget'.changes < budget.changes
     /\ \A a \in Attempts :
          "filed" \in Mishaps(a)' \ Mishaps(a) => out' = Saved(a, out'.version)]_vars

\* device.json is "the last state matched to the hub": neither the config nor a
\* running interface is ever behind it, after kills and failing applies too.
RecordedIsApplied ==
  device.what = "joined" =>
    \A f \in {conf, kernel} :
      f.what = "joined" /\ f.of = device.of => f.version >= device.version

\* A sync that finds nothing to do, or did it, leaves the config on what the hub
\* told it: device.json stands for the config it was written for.
Told(p) == IF procs[p].pc = "ask" THEN version ELSE procs[p].version
SyncEndsFine(p) ==
  /\ \/ procs[p].pc = "ask" /\ procs[p].local.of \in Listed
     \/ procs[p].pc = "record"
  /\ procs'[p].pc = "idle"
  /\ budget' = budget
FineMeansCurrent ==
  [][\A p \in Procs :
       SyncEndsFine(p) /\ conf.what = "joined" => conf'.version = Told(p)]_vars

\* A device the hub lists catches up with it: a run that is killed or fails half
\* way is repeated until config, interface and device.json are current, unless
\* the interface is down, and then the config is.
InService ==
  /\ conf.what = "joined" /\ conf.of = device.of /\ conf.of \in Listed
  /\ kernel # Absent => kernel.of = conf.of
CaughtUp ==
  /\ conf.version = version
  /\ kernel # Absent => kernel.version = version /\ device.version = version
CatchesUp == InService ~> (CaughtUp \/ ~InService)
================================================================================
