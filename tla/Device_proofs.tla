----------------------------- MODULE Device_proofs -----------------------------
(***************************************************************************)
(* However many joins, exports and syncs overlap on a machine, and         *)
(* whatever fails, is lost or is killed, its two files belong together,    *)
(* no device is left on the hub behind anybody's back, and what            *)
(* device.json records has been applied.                                   *)
(*                                                                         *)
(* The argument: a join that is past its check has the two names to itself *)
(* (Reserved), a sync runs only beside a device file (Read), so the two,   *)
(* which do not share a lock, never write at once.  What the network still *)
(* carries for an attempt is tied to where the attempt is (Carried).       *)
(***************************************************************************)
EXTENDS Device, WellFoundedInduction, TLAPS

\* Where an attempt has not asked the hub yet, where it answers for what the hub
\* knows, and where it only cleans up.
Before == {"check", "claim_conf", "claim_device", "send"}
Custodial == {"sent", "save_conf", "save_device", "fill", "undo", "undoing"}
After == {"drop", "drop_device", "drop_out", "activate"}

Trying(p) == procs[p].pc \in Before \cup Custodial \cup After
Reading(p) == procs[p].pc \in {"sync_lock", "ask", "write_conf", "syncconf", "record"}
Knowing(p) == procs[p].pc \in {"write_conf", "syncconf", "record"}

\* A file that is nobody's attempt is one of three.
Plain(file) == IF file.what = "joined" THEN file.of >= 1 ELSE file \in {Absent, Claim, Foreign}

\* An attempt's number is its own, and is none before it is made.
Numbered ==
  /\ \A p \in Procs : Trying(p) => procs[p].of \in 1 .. made
  /\ \A p, q \in Procs : Trying(p) /\ Trying(q) /\ procs[p].of = procs[q].of => p = q
  /\ \A m \in net : m.of <= made
  /\ \A r \in registered : r.of <= made
  /\ conf.of <= made /\ kernel.of <= made

\* Where each kind of command can be.
Placed(p) ==
  /\ procs[p].export => procs[p].pc \in {"send", "sent", "fill", "undo", "undoing", "drop_out"}
  /\ ~procs[p].export => procs[p].pc \notin {"fill", "drop_out"}
  /\ procs[p].pc = "idle" => procs[p] = Idle

Locks ==
  /\ \A p, q \in Procs : Joining(p) /\ Joining(q) => p = q
  /\ \A p, q \in Procs : Syncing(p) /\ Syncing(q) => p = q

\* What the two names hold while a join has them.
Reserved(p) ==
  ~procs[p].export =>
    /\ procs[p].pc \in {"check", "claim_conf", "claim_device"} => ~procs[p].claimed
    /\ procs[p].pc \in {"claim_conf", "claim_device", "drop"} => device.what # "joined"
    /\ procs[p].pc = "claim_device" => conf = Claim
    /\ procs[p].pc \in {"send", "sent", "save_conf", "save_device", "undo", "undoing"} =>
         procs[p].claimed
    /\ procs[p].pc \in {"send", "sent", "save_conf", "save_device", "undo", "undoing",
                        "drop", "drop_device"} /\ procs[p].claimed => device = Claim
    /\ procs[p].pc \in {"send", "sent", "save_conf"} => conf = Claim
    /\ procs[p].pc = "save_device" => conf = Saved(procs[p].of, procs[p].version)
    /\ procs[p].pc \in {"undo", "undoing", "drop"} => conf \in {Claim, Absent}
    /\ procs[p].pc = "drop_device" => device = Claim /\ conf = Absent

\* A sync runs beside the device file it read, or its successor.
Read(p) ==
  /\ Reading(p) =>
       /\ device.what = "joined" /\ procs[p].local.what = "joined"
       /\ procs[p].local.of = device.of
  /\ procs[p].pc \in {"syncconf", "record"} => conf.what = "joined" /\ conf.of = procs[p].of

\* A request to join is the only message of its attempt, the hub does not list
\* it, and somebody waits for the answer or was told of it.
Asked(m) ==
  m.kind = "join" =>
    /\ m.of \notin Listed
    /\ \A n \in net : n.of = m.of => n = m
    /\ \A p \in Procs : procs[p].of = m.of => procs[p].pc \notin Custodial \ {"sent"}
    /\ Mishaps(m.of) # {} \/ \E p \in Procs : procs[p].pc = "sent" /\ procs[p].of = m.of

Carried ==
  /\ \A m \in net : Asked(m)
  /\ \A m \in net : m.kind \in {"refused", "deleted"} => m.of \notin Listed
  /\ \A m \in net, r \in registered : m.of = r.of => m.name = r.name
  /\ \A p \in Procs : Trying(p) =>
       /\ \A m \in net : m.of = procs[p].of => m.name = procs[p].name
       /\ \A r \in registered : r.of = procs[p].of => r.name = procs[p].name
  /\ \A p \in Procs : procs[p].pc \in Before =>
       procs[p].of \notin Listed /\ \A m \in net : m.of # procs[p].of

\* Nobody knows settings the hub has not had, and what a sync is about to record
\* is on disk and, at the end, in the interface.
Timed ==
  /\ device.version <= version
  /\ \A m \in net : m.version <= version
  /\ \A p \in Procs :
       /\ procs[p].version <= version
       /\ Knowing(p) => device.version <= procs[p].version
       /\ procs[p].pc \in {"syncconf", "record"} => procs[p].version <= conf.version
       /\ procs[p].pc = "record" /\ kernel.what = "joined" /\ kernel.of = device.of =>
            procs[p].version <= kernel.version
       /\ Trying(p) /\ (procs[p].export \/ procs[p].pc \in Before \cup {"sent", "save_conf"}) =>
            conf.of # procs[p].of /\ kernel.of # procs[p].of
       /\ procs[p].pc = "save_device" /\ kernel.of = procs[p].of =>
            kernel.version = procs[p].version

Shape ==
  /\ TypeOK
  /\ Plain(conf) /\ Plain(device)
  /\ \A p \in Procs : Placed(p)

IInv ==
  /\ Shape
  /\ Numbered
  /\ Locks
  /\ \A p \in Procs : Reserved(p) /\ Read(p)
  /\ PairMatches
  /\ NothingHalfJoined
  /\ Carried
  /\ NoSilentOrphan
  /\ ~Reverts => Timed /\ RecordedIsApplied

-----------------------------------------------------------------------------
(* Processes, messages and what is noted.                                  *)

\* A step of one process leaves the others as they are.
Moves(p) == procs' \in [Procs -> Proc] /\ \A q \in Procs \ {p} : procs'[q] = procs[q]

\* The attempt is the same.
Same(p) ==
  /\ procs'[p].of = procs[p].of /\ procs'[p].export = procs[p].export
  /\ procs'[p].name = procs[p].name /\ procs'[p].code = procs[p].code

LEMMA IdleFit ==
  /\ Idle \in Proc /\ Idle.pc = "idle" /\ Idle.of = 0 /\ ~Idle.export /\ ~Idle.claimed
  /\ Idle.local = Absent /\ Idle.version = 0
<1>1. (CHOOSE n \in Names : TRUE) \in Names /\ (CHOOSE c \in Codes : TRUE) \in Codes
  BY DeviceAssumption
<1>2. Absent \in File
  BY DeviceAssumption DEF Absent, File, Versions
<1> QED
  BY <1>1, <1>2, DeviceAssumption DEF Idle, Proc, Pcs, Versions

LEMMA Went ==
  ASSUME TypeOK, NEW p \in Procs, NEW pc \in Pcs, Goto(p, pc)
  PROVE  /\ Moves(p) /\ Same(p) /\ procs'[p].pc = pc
         /\ procs'[p].claimed = procs[p].claimed /\ procs'[p].local = procs[p].local
         /\ procs'[p].version = procs[p].version
<1>1. procs \in [Procs -> Proc]
  BY DEF TypeOK
<1>2. procs[p] \in Proc
  BY <1>1
<1>3. procs' = [procs EXCEPT ![p] = [procs[p] EXCEPT !.pc = pc]]
  BY <1>1 DEF Goto
<1>4. [procs[p] EXCEPT !.pc = pc] \in Proc
  BY <1>2 DEF Proc
<1>5. procs'[p] = [procs[p] EXCEPT !.pc = pc] /\ Moves(p)
  BY <1>1, <1>3, <1>4 DEF Moves
<1> QED
  BY <1>2, <1>5 DEF Same, Proc

LEMMA Returned ==
  ASSUME TypeOK, NEW p \in Procs, Return(p)
  PROVE  Moves(p) /\ procs'[p] = Idle
BY IdleFit DEF TypeOK, Return, Moves

LEMMA Noted ==
  ASSUME TypeOK, NEW a, NEW what, Note(a, what)
  PROVE  /\ what \in Mishaps(a)' /\ \A b : Mishaps(b) \subseteq Mishaps(b)'
         /\ \A b : b # a => Mishaps(b)' = Mishaps(b)
         /\ Mishaps(a)' \subseteq Mishaps(a) \cup {what}
         /\ mishaps' = mishaps \cup {[of |-> a, what |-> what]}
<1> DEFINE m == [of |-> a, what |-> what]
<1>1. mishaps' = mishaps \cup {m}
  BY DEF Note
<1>2. ASSUME NEW b PROVE Mishaps(b)' = Mishaps(b) \cup {n.what : n \in {k \in {m} : k.of = b}}
  BY <1>1 DEF Mishaps
<1>3. m.of = a /\ m.what = what
  OBVIOUS
<1> HIDE DEF m
<1>4. Mishaps(a)' = Mishaps(a) \cup {what} /\ \A b : b # a => Mishaps(b)' = Mishaps(b)
  BY <1>2, <1>3
<1>5. \A b : Mishaps(b) \subseteq Mishaps(b)'
  BY <1>2
<1> QED
  BY <1>1, <1>4, <1>5 DEF m

LEMMA Spent ==
  ASSUME TypeOK, NEW bound \in {"faults", "changes"}, Spend(bound)
  PROVE  /\ budget' \in [faults: 0 .. MaxFaults, changes: 0 .. MaxChanges]
         /\ budget'[bound] < budget[bound]
<1> DEFINE B == [faults: 0 .. MaxFaults, changes: 0 .. MaxChanges]
<1>1. budget \in B /\ budget' = [budget EXCEPT ![bound] = @ - 1] /\ budget[bound] > 0
  BY DEF TypeOK, Spend
<1>2. budget.faults \in 0 .. MaxFaults /\ budget.changes \in 0 .. MaxChanges
  BY <1>1
<1>3. CASE bound = "faults"
  BY <1>1, <1>2, <1>3, DeviceAssumption
<1>4. CASE bound = "changes"
  BY <1>1, <1>2, <1>4, DeviceAssumption
<1> QED
  BY <1>3, <1>4

LEMMA FileTypes ==
  /\ Absent \in File /\ Claim \in File /\ Foreign \in File
  /\ \A a \in Attempts, v \in Versions :
       /\ Saved(a, v) \in File /\ Saved(a, v).what = "joined" /\ Saved(a, v).of = a
       /\ Saved(a, v).version = v
  /\ Absent.what = "absent" /\ Claim.what = "claim" /\ Foreign.what = "foreign"
  /\ Absent.of = 0 /\ Claim.of = 0 /\ Foreign.of = 0
  /\ Absent # Claim /\ Absent # Foreign /\ Claim # Foreign
BY DeviceAssumption DEF Absent, Claim, Foreign, Saved, File, Attempts, Versions

LEMMA Typed ==
  ASSUME TypeOK, NEW p \in Procs
  PROVE  /\ procs[p] \in Proc /\ procs[p].of \in 0 .. MaxAttempts /\ procs[p].version \in Versions
         /\ procs[p].pc \in Pcs /\ procs[p].export \in BOOLEAN /\ procs[p].claimed \in BOOLEAN
         /\ procs[p].name \in Names /\ procs[p].code \in Codes
         /\ procs[p].local \in File
BY DEF TypeOK, Proc

LEMMA MishapsGrow ==
  ASSUME mishaps \subseteq mishaps'
  PROVE  \A b : Mishaps(b) \subseteq Mishaps(b)'
BY DEF Mishaps

-----------------------------------------------------------------------------
(* What the steps of a command that joins have in common.                  *)

\* It goes on with its attempt or ends.
Onward(p) ==
  /\ Moves(p) /\ Trying(p)
  /\ \/ procs'[p] = Idle
     \/ Same(p) /\ Trying(p)' /\ (Joining(p)' => Joining(p))

\* Numbers and locks: nothing new is made or taken.
LEMMA NumbersKept ==
  ASSUME IInv, NEW p \in Procs, Onward(p), made' = made, registered' \subseteq registered,
         \A m \in net' : m \in net \/ m.of = procs[p].of, conf'.of <= made, kernel'.of <= made
  PROVE  Numbered' /\ Locks'
<1>1. /\ procs'[p] = Idle \/ (procs'[p].of = procs[p].of /\ procs'[p].export = procs[p].export)
      /\ \A q \in Procs \ {p} : procs'[q] = procs[q]
  BY DEF Onward, Moves, Same
<1>2. \A q \in Procs : Trying(q)' => Trying(q) /\ procs'[q].of = procs[q].of
  BY <1>1, IdleFit DEF Onward, Trying, Before, Custodial, After
<1>3. \A q \in Procs : (Joining(q)' => Joining(q)) /\ (Syncing(q)' => Syncing(q))
  BY <1>1, IdleFit DEF Onward, Trying, Joining, Syncing, Before, Custodial, After
<1>4. Locks'
  BY <1>3 DEF IInv, Locks
<1>5. Trying(p)
  BY DEF Onward
<1>6. Numbered'
  BY <1>2, <1>5 DEF IInv, Numbered
<1> QED
  BY <1>4, <1>6

\* A join past its check is alone with the files.
LEMMA Alone ==
  ASSUME IInv, NEW p \in Procs, Joining(p), procs[p].pc # "check"
  PROVE  /\ device.what # "joined"
         /\ \A q \in Procs \ {p} : ~Joining(q) /\ ~Reading(q)
<1>1. Reserved(p) /\ \A q \in Procs : Read(q)
  BY DEF IInv
<1>2. device.what # "joined"
  BY <1>1, FileTypes DEF Reserved, Joining
<1> QED
  BY <1>1, <1>2 DEF IInv, Locks, Read

LEMMA OwnFiles ==
  ASSUME IInv, NEW p \in Procs, Joining(p), procs[p].pc # "check", Onward(p), Reserved(p)'
  PROVE  \A q \in Procs : Reserved(q)' /\ Read(q)'
<1>1. ASSUME NEW q \in Procs \ {p} PROVE Reserved(q)' /\ Read(q)'
  <2>1. procs'[q] = procs[q] /\ ~Joining(q) /\ ~Reading(q)
    BY Alone DEF Onward, Moves
  <2> QED
    BY <2>1 DEF Reserved, Read, Joining, Reading
<1>2. Read(p)'
  BY IdleFit DEF Onward, Trying, Read, Reading, Before, Custodial, After
<1> QED
  BY <1>1, <1>2

\* The files stay.
LEMMA FilesKept ==
  ASSUME IInv, NEW p \in Procs, NEW a, a = procs[p].of, Onward(p), UNCHANGED <<conf, device>>,
         Reserved(p)',
         mishaps \subseteq mishaps',
         procs[p].pc = "save_device" => "cut" \in Mishaps(a)'
  PROVE  (\A q \in Procs : Reserved(q)' /\ Read(q)') /\ PairMatches' /\ NothingHalfJoined'
<1>1. ASSUME NEW q \in Procs \ {p} PROVE Reserved(q)' /\ Read(q)'
  BY DEF IInv, Onward, Moves, Reserved, Read, Reading
<1>2. Read(p)'
  BY IdleFit DEF Onward, Trying, Read, Reading, Before, Custodial, After
<1>3. NothingHalfJoined'
  <2> SUFFICES ASSUME NEW f \in {conf, device}, f.what = "joined", conf.of # device.of
               PROVE  \/ \E q \in Procs : procs'[q].pc = "save_device" /\ procs'[q].of = f.of
                      \/ Mishaps(f.of)' \cap {"cut", "cleared"} # {}
    BY DEF NothingHalfJoined
  <2>1. \A b : Mishaps(b) \subseteq Mishaps(b)'
    BY MishapsGrow
  <2>2. \/ \E q \in Procs : procs[q].pc = "save_device" /\ procs[q].of = f.of
        \/ Mishaps(f.of) \cap {"cut", "cleared"} # {}
    BY DEF IInv, NothingHalfJoined
  <2>3. ASSUME NEW q \in Procs, procs[q].pc = "save_device", procs[q].of = f.of, q # p
        PROVE  procs'[q].pc = "save_device" /\ procs'[q].of = f.of
    BY <2>3 DEF Onward, Moves
  <2>4. procs[p].pc = "save_device" /\ procs[p].of = f.of => "cut" \in Mishaps(f.of)'
    BY DEF Mishaps
  <2> QED
    BY <2>1, <2>2, <2>3, <2>4
<1> QED
  BY <1>1, <1>2, <1>3 DEF IInv, PairMatches

\* The network: no message comes, and a process leaves its request behind only
\* where that is noted.
LEMMA CarriedKept ==
  ASSUME IInv, NEW p \in Procs, NEW a, a = procs[p].of, Onward(p),
         registered' = registered, net' \subseteq net,
         mishaps \subseteq mishaps',
         procs'[p].pc \in Before => procs[p].pc \in Before,
         procs'[p].pc \in Custodial => procs[p].pc \in Custodial /\ procs'[p].pc # "sent",
         procs[p].pc = "sent" =>
           \/ \A m \in net : m.of = procs[p].of => m.kind # "join"
           \/ Mishaps(a)' # {} /\ procs'[p].pc \notin Custodial
  PROVE  Carried'
<1>1. /\ procs'[p] = Idle \/ (procs'[p].of = procs[p].of /\ procs'[p].name = procs[p].name)
      /\ \A q \in Procs \ {p} : procs'[q] = procs[q]
  BY DEF Onward, Moves, Same
<1>2. Listed' = Listed
  BY DEF Listed
<1>3. \A b : Mishaps(b) \subseteq Mishaps(b)'
  BY MishapsGrow
<1>4. \A q \in Procs : Trying(q)' =>
        Trying(q) /\ procs'[q].of = procs[q].of /\ procs'[q].name = procs[q].name
  BY <1>1, IdleFit DEF Onward, Trying, Before, Custodial, After
<1>5. ASSUME NEW m \in net', m.kind = "join" PROVE Asked(m)'
  <2>1. m \in net /\ Asked(m)
    BY DEF IInv, Carried
  <2>2. \A q \in Procs : procs'[q].of = m.of => procs'[q].pc \notin Custodial \ {"sent"}
    <3> SUFFICES ASSUME procs'[p].of = m.of, procs'[p].pc \in Custodial \ {"sent"} PROVE FALSE
      BY <1>1, <1>5, <2>1 DEF Asked
    <3>1. procs[p].of = m.of /\ procs[p].pc \in Custodial
      BY <1>1, IdleFit DEF Custodial
    <3> QED
      BY <1>5, <2>1, <3>1 DEF Asked
  <2>3. Mishaps(m.of)' # {} \/ \E q \in Procs : procs'[q].pc = "sent" /\ procs'[q].of = m.of
    <3>1. CASE Mishaps(m.of) # {}
      BY <1>3, <3>1
    <3>2. ASSUME NEW q \in Procs, procs[q].pc = "sent", procs[q].of = m.of
          PROVE  Mishaps(m.of)' # {} \/ procs'[q] = procs[q]
      <4>1. CASE q = p
        BY <1>5, <2>1, <3>2, <4>1 DEF Mishaps
      <4>2. CASE q # p
        BY <1>1, <4>2
      <4> QED
        BY <4>1, <4>2
    <3> QED
      BY <1>5, <2>1, <3>1, <3>2 DEF Asked
  <2> QED
    BY <1>2, <1>5, <2>1, <2>2, <2>3 DEF Asked
<1>6. \A m \in net' : Asked(m)'
  BY <1>5 DEF Asked
<1>7. \A q \in Procs : procs'[q].pc \in Before => procs[q].pc \in Before /\ procs'[q].of = procs[q].of
  BY <1>1, <1>4, IdleFit DEF Trying, Before
<1> QED
  BY <1>2, <1>4, <1>6, <1>7 DEF IInv, Carried

\* The hub's devices: who lets go of one holds it, or has it removed, or says so.
LEMMA OrphansKept ==
  ASSUME IInv, NEW p \in Procs, NEW a, a = procs[p].of, Onward(p), registered' \subseteq registered,
         mishaps \subseteq mishaps',
         \A b \in Attempts : conf.of = b /\ device.of = b => conf'.of = b /\ device'.of = b,
         procs[p].pc \in Custodial /\ procs'[p].pc \notin Custodial =>
           \/ procs[p].of \notin Listed'
           \/ conf'.of = procs[p].of /\ device'.of = procs[p].of
           \/ Mishaps(a)' # {}
  PROVE  NoSilentOrphan'
<1> SUFFICES ASSUME NEW b \in Listed'
             PROVE  (conf.of = b /\ device.of = b)' \/ Custody(b)' \/ Mishaps(b)' # {}
  BY DEF NoSilentOrphan
<1>1. b \in Listed /\ b \in Attempts
  BY DEF Listed, IInv, Shape, TypeOK
<1>2. \A c : Mishaps(c) \subseteq Mishaps(c)'
  BY MishapsGrow
<1>3. ASSUME NEW q \in Procs, procs[q].of = b, procs[q].pc \in Custodial
      PROVE  (conf.of = b /\ device.of = b)' \/ Custody(b)' \/ Mishaps(b)' # {}
  <2>1. CASE q # p
    BY <1>3, <2>1 DEF Onward, Moves, Custody, Custodial
  <2>2. CASE q = p /\ procs'[p].pc \in Custodial
    BY <1>3, <2>2, IdleFit DEF Onward, Same, Custody, Custodial
  <2>3. CASE q = p /\ procs'[p].pc \notin Custodial
    BY <1>3, <2>3 DEF Mishaps
  <2> QED
    BY <2>1, <2>2, <2>3
<1> QED
  BY <1>1, <1>2, <1>3 DEF IInv, NoSilentOrphan, Custody, Custodial

\* The settings: nothing that has them changes.
LEMMA TimedKept ==
  ASSUME IInv, ~Reverts, NEW p \in Procs, Onward(p), UNCHANGED <<conf, device, kernel, version>>,
         \A m \in net' : m.version <= version, procs'[p].version <= version,
         procs'[p].pc # "save_device",
         procs'[p].pc \in Before \cup {"sent", "save_conf"} =>
           procs[p].pc \in Before \cup {"sent", "save_conf"}
  PROVE  Timed' /\ RecordedIsApplied'
<1>1. /\ procs'[p] = Idle \/ (procs'[p].of = procs[p].of /\ procs'[p].export = procs[p].export)
      /\ \A q \in Procs \ {p} : procs'[q] = procs[q]
  BY DEF Onward, Moves, Same
<1>2. ~Knowing(p)' /\ (Trying(p)' => procs'[p].of = procs[p].of /\ procs'[p].export = procs[p].export)
  BY <1>1, IdleFit DEF Onward, Knowing, Trying, Before, Custodial, After
<1>3. Timed'
  BY <1>1, <1>2 DEF IInv, Timed, Onward, Trying, Knowing
<1> QED
  BY <1>3 DEF IInv, RecordedIsApplied

\* A step that leaves the files, the hub and the interface alone.
LEMMA QuietKeeps ==
  ASSUME IInv, NEW p \in Procs, NEW a, a = procs[p].of, Onward(p), Placed(p)', Reserved(p)',
         UNCHANGED <<hub, conf, device, kernel, made>>, net' \subseteq net, mishaps \subseteq mishaps',
         TypeOK',
         procs'[p].pc \in Custodial => procs[p].pc \in Custodial /\ procs'[p].pc # "sent",
         procs'[p].pc \in Before => procs[p].pc \in Before,
         procs'[p].pc = "save_conf" => procs[p].pc = "sent",
         procs'[p].pc # "save_device",
         procs[p].pc = "sent" =>
           \/ \A m \in net : m.of = procs[p].of => m.kind # "join"
           \/ Mishaps(a)' # {} /\ procs'[p].pc \notin Custodial,
         procs[p].pc \in Custodial /\ procs'[p].pc \notin Custodial =>
           a \notin Listed \/ Mishaps(a)' # {},
         procs[p].pc = "save_device" => "cut" \in Mishaps(a)',
         ~Reverts => procs'[p].version <= version
  PROVE  IInv'
<1>1. UNCHANGED <<registered, version, conf, device, kernel, made>>
  BY DEF hub
<1>2. Shape'
  BY <1>1 DEF IInv, Shape, Placed, Plain, Onward, Moves
<1>3. Numbered' /\ Locks'
  BY <1>1, NumbersKept DEF IInv, Numbered
<1>4. (\A q \in Procs : Reserved(q)' /\ Read(q)') /\ PairMatches' /\ NothingHalfJoined'
  BY <1>1, FilesKept
<1>5. Carried'
  BY <1>1, CarriedKept
<1>6. NoSilentOrphan'
  <2>1. a \notin Listed => procs[p].of \notin Listed'
    BY <1>1 DEF Listed
  <2> QED
    BY <1>1, <2>1, OrphansKept
<1>7. ASSUME ~Reverts PROVE Timed' /\ RecordedIsApplied'
  <2>1. \A m \in net' : m.version <= version
    BY <1>7 DEF IInv, Timed
  <2>2. procs'[p].pc \in Before \cup {"sent", "save_conf"} =>
          procs[p].pc \in Before \cup {"sent", "save_conf"}
    BY DEF Custodial
  <2> QED
    BY <1>1, <1>7, <2>1, <2>2, TimedKept
<1> QED
  BY <1>2, <1>3, <1>4, <1>5, <1>6, <1>7 DEF IInv

\* What IInv says of one process and of a message for it.
LEMMA Known ==
  ASSUME IInv, NEW p \in Procs
  PROVE  /\ TypeOK /\ Placed(p) /\ Reserved(p) /\ Read(p)
         /\ ~Reverts => procs[p].version <= version /\ \A m \in net : m.version <= version
         /\ \A m \in net : m.of = procs[p].of /\ m.kind # "join" =>
              \A n \in net : n.of = procs[p].of => n.kind # "join"
         /\ \A m \in net : m.of = procs[p].of /\ m.kind \in {"refused", "deleted"} =>
              procs[p].of \notin Listed
         /\ procs[p].pc \in Before => procs[p].of \notin Listed
<1>1. Carried /\ Shape /\ Reserved(p) /\ Read(p) /\ (~Reverts => Timed)
  BY DEF IInv
<1> QED
  BY <1>1 DEF Carried, Asked, Shape, Timed

-----------------------------------------------------------------------------
(* The steps of anago join.                                                *)

LEMMA CheckKeeps == ASSUME IInv, NEW p \in Procs, Check(p) PROVE IInv'
<1>1. PICK a : a = procs[p].of
  OBVIOUS
<1>2. procs[p].pc = "check" /\ TypeOK /\ Placed(p) /\ Reserved(p)
  BY Known DEF Check
<1>3. /\ Moves(p)
      /\ \/ procs'[p] = Idle
         \/ /\ Same(p) /\ procs'[p].pc = "claim_conf" /\ Claimable(device)
            /\ procs'[p].claimed = procs[p].claimed /\ procs'[p].version = procs[p].version
  BY <1>2, Went, Returned DEF Check, Pcs
<1>4. Onward(p)
  BY <1>2, <1>3 DEF Onward, Trying, Joining, Before, Placed, Same
<1>5. Placed(p)' /\ Reserved(p)'
  BY <1>2, <1>3, IdleFit, FileTypes DEF Placed, Reserved, Same, Claimable, Check, files
<1>6. TypeOK'
  BY <1>2, <1>3 DEF TypeOK, Check, Moves, hub, files
<1>7. ~Reverts => procs'[p].version <= version
  BY <1>2, <1>3, Known, IdleFit DEF TypeOK, Versions
<1> QED
  BY <1>1, <1>2, <1>3, <1>4, <1>5, <1>6, <1>7, IdleFit, QuietKeeps DEF Check, files, Before, Custodial

LEMMA ReserveFailsKeeps == ASSUME IInv, NEW p \in Procs, ReserveFails(p) PROVE IInv'
<1>1. PICK a : a = procs[p].of
  OBVIOUS
<1>2. procs[p].pc \in {"claim_conf", "claim_device", "send"} /\ TypeOK /\ Placed(p) /\ Reserved(p)
  BY Known DEF ReserveFails
<1>3. /\ Moves(p)
      /\ \/ procs'[p] = Idle
         \/ /\ Same(p) /\ procs'[p].pc = IF procs[p].export THEN "drop_out" ELSE "drop"
            /\ procs[p].pc \in {"claim_device", "send"}
            /\ procs'[p].claimed = procs[p].claimed /\ procs'[p].version = procs[p].version
  BY <1>2, Went, Returned DEF ReserveFails, Pcs, Placed
<1>4. Onward(p)
  BY <1>2, <1>3 DEF Onward, Trying, Joining, Before, After, Same
<1>5. Placed(p)' /\ Reserved(p)'
  BY <1>2, <1>3, IdleFit, FileTypes DEF Placed, Reserved, Same, ReserveFails, files
<1>6. TypeOK'
  BY <1>2, <1>3, Spent DEF TypeOK, ReserveFails, Moves, hub, files
<1>7. ~Reverts => procs'[p].version <= version
  BY <1>2, <1>3, Known, IdleFit DEF TypeOK, Versions
<1> QED
  BY <1>1, <1>2, <1>3, <1>4, <1>5, <1>6, <1>7, IdleFit, QuietKeeps
  DEF ReserveFails, files, Before, Custodial

LEMMA RefusedKeeps == ASSUME IInv, NEW p \in Procs, Refused(p) PROVE IInv'
<1>1. PICK a : a = procs[p].of
  OBVIOUS
<1>2. PICK m \in net : m.of = procs[p].of /\ m.kind = "refused" /\ net' = net \ {m}
  BY DEF Refused
<1>3. procs[p].pc = "sent" /\ TypeOK /\ Placed(p) /\ Reserved(p)
  BY Known DEF Refused
<1>4. /\ Moves(p) /\ Same(p) /\ procs'[p].pc = IF procs[p].export THEN "drop_out" ELSE "drop"
      /\ procs'[p].claimed = procs[p].claimed /\ procs'[p].version = procs[p].version
  BY <1>3, Went DEF Refused, AfterFailure, Pcs
<1>5. Onward(p)
  BY <1>3, <1>4 DEF Onward, Trying, Joining, Custodial, After, Same
<1>6. Placed(p)' /\ Reserved(p)'
  BY <1>3, <1>4, FileTypes DEF Placed, Reserved, Same, Refused, files
<1>7. TypeOK'
  BY <1>3, <1>4 DEF TypeOK, Refused, Moves, hub, files
<1>8. a \notin Listed /\ \A n \in net : n.of = procs[p].of => n.kind # "join"
  BY <1>1, <1>2, Known
<1>9. ~Reverts => procs'[p].version <= version
  BY <1>4, Known
<1> QED
  BY <1>1, <1>2, <1>3, <1>4, <1>5, <1>6, <1>7, <1>8, <1>9, QuietKeeps
  DEF Refused, files, Before, Custodial

LEMMA AcceptedKeeps == ASSUME IInv, NEW p \in Procs, Accepted(p) PROVE IInv'
<1>1. PICK a : a = procs[p].of
  OBVIOUS
<1> DEFINE pc == IF procs[p].export THEN "fill" ELSE "save_conf"
<1>2. PICK m \in net : /\ m.of = procs[p].of /\ m.kind = "accepted" /\ net' = net \ {m}
                       /\ procs' = [procs EXCEPT ![p].pc = pc, ![p].version = m.version]
  BY DEF Accepted
<1>3. procs[p].pc = "sent" /\ TypeOK /\ Placed(p) /\ Reserved(p) /\ procs[p] \in Proc
  BY Known, Typed DEF Accepted
<1>4. procs' = [procs EXCEPT ![p] = [procs[p] EXCEPT !.pc = pc, !.version = m.version]]
  BY <1>2, <1>3 DEF TypeOK
<1>5. m.version \in Versions /\ pc \in Pcs
  BY <1>2, <1>3 DEF TypeOK, Messages, Pcs
<1>6. [procs[p] EXCEPT !.pc = pc, !.version = m.version] \in Proc
  BY <1>3, <1>5 DEF Proc
<1>7. Moves(p) /\ procs'[p] = [procs[p] EXCEPT !.pc = pc, !.version = m.version]
  BY <1>3, <1>4, <1>6 DEF Moves, TypeOK
<1>8. /\ Same(p) /\ procs'[p].pc = pc /\ procs'[p].claimed = procs[p].claimed
      /\ procs'[p].version = m.version
  BY <1>3, <1>7 DEF Same, Proc
<1>9. Onward(p)
  BY <1>3, <1>7, <1>8 DEF Onward, Trying, Joining, Custodial, Same
<1>10. Placed(p)' /\ Reserved(p)'
  BY <1>3, <1>8, FileTypes DEF Placed, Reserved, Same, Accepted, files
<1>11. TypeOK'
  BY <1>2, <1>3, <1>7 DEF TypeOK, Accepted, Moves, hub, files
<1>12. \A n \in net : n.of = procs[p].of => n.kind # "join"
  BY <1>2, Known
<1>13. ~Reverts => procs'[p].version <= version
  BY <1>2, <1>8, Known
<1>14. procs'[p].pc \in {"fill", "save_conf"}
  BY <1>8
<1>15. net' \subseteq net /\ UNCHANGED <<hub, conf, device, kernel, made, mishaps>>
  BY <1>2 DEF Accepted, files
<1> HIDE DEF pc
<1> QED
  BY <1>1, <1>3, <1>9, <1>10, <1>11, <1>12, <1>13, <1>14, <1>15, QuietKeeps
  DEF Before, Custodial

\* A failure after the answer, before the drop: what Goto and Note leave.
LEMMA Failed ==
  ASSUME IInv, NEW p \in Procs, procs[p].pc \in Custodial \ {"save_conf", "save_device"},
         Goto(p, AfterFailure(p)), UNCHANGED <<conf, device>>
  PROVE  /\ Onward(p) /\ Placed(p)' /\ Reserved(p)'
         /\ procs'[p].pc \in {"drop", "drop_out"} /\ procs'[p].version = procs[p].version
<1>1. TypeOK /\ Placed(p) /\ Reserved(p)
  BY Known
<1>2. /\ Moves(p) /\ Same(p) /\ procs'[p].pc = IF procs[p].export THEN "drop_out" ELSE "drop"
      /\ procs'[p].claimed = procs[p].claimed /\ procs'[p].version = procs[p].version
  <2>1. AfterFailure(p) \in Pcs /\ AfterFailure(p) = IF procs[p].export THEN "drop_out" ELSE "drop"
    BY DEF AfterFailure, Pcs
  <2> QED
    BY <1>1, <2>1, Went
<1>3. Onward(p)
  BY <1>1, <1>2 DEF Onward, Trying, Joining, Custodial, After, Same, Placed
<1>4. Placed(p)' /\ Reserved(p)'
  BY <1>1, <1>2, FileTypes DEF Placed, Reserved, Same, Custodial
<1> QED
  BY <1>2, <1>3, <1>4

LEMMA UnreadableKeeps == ASSUME IInv, NEW p \in Procs, Unreadable(p) PROVE IInv'
<1>1. PICK a : a = procs[p].of
  OBVIOUS
<1>2. PICK m \in net : m.of = procs[p].of /\ m.kind = "accepted" /\ net' = net \ {m}
  BY DEF Unreadable
<1>3. procs[p].pc = "sent" /\ TypeOK /\ Placed(p) /\ Reserved(p)
  BY Known DEF Unreadable
<1>4. \A n \in net : n.of = procs[p].of => n.kind # "join"
  BY <1>2, Known
<1>5. /\ UNCHANGED <<hub, conf, device, kernel, out, made>> /\ net' \subseteq net
      /\ budget' \in [faults: 0 .. MaxFaults, changes: 0 .. MaxChanges]
  BY <1>2, <1>3, Spent DEF Unreadable, files
<1>6. CASE Goto(p, "undo") /\ UNCHANGED mishaps
  <2>1. /\ Moves(p) /\ Same(p) /\ procs'[p].pc = "undo"
        /\ procs'[p].claimed = procs[p].claimed /\ procs'[p].version = procs[p].version
    BY <1>3, <1>6, Went DEF Pcs
  <2>2. Onward(p)
    BY <1>3, <2>1 DEF Onward, Trying, Joining, Custodial, Same
  <2>3. Placed(p)' /\ Reserved(p)'
    BY <1>3, <1>5, <2>1, FileTypes DEF Placed, Reserved, Same
  <2>4. TypeOK'
    BY <1>3, <1>5, <1>6, <2>1 DEF TypeOK, Moves, hub
  <2>5. ~Reverts => procs'[p].version <= version
    BY <2>1, Known
  <2> QED
    BY <1>1, <1>3, <1>4, <1>5, <1>6, <2>1, <2>2, <2>3, <2>4, <2>5, QuietKeeps DEF Before, Custodial
<1>7. CASE Goto(p, AfterFailure(p)) /\ Note(procs[p].of, "told")
  <2>1. /\ Onward(p) /\ Placed(p)' /\ Reserved(p)'
        /\ procs'[p].pc \in {"drop", "drop_out"} /\ procs'[p].version = procs[p].version
    BY <1>3, <1>5, <1>7, Failed DEF Custodial
  <2>2. Note(a, "told")
    BY <1>1, <1>7
  <2>3. "told" \in Mishaps(a)' /\ mishaps' = mishaps \cup {[of |-> a, what |-> "told"]}
    BY <1>3, <2>2, Noted
  <2>4. a \in Attempts
    BY <1>1, <1>2, <1>3 DEF TypeOK, Messages
  <2>5. TypeOK'
    BY <1>3, <1>5, <2>1, <2>3, <2>4 DEF TypeOK, Onward, Moves, hub
  <2>6. ~Reverts => procs'[p].version <= version
    BY <2>1, Known
  <2> QED
    BY <1>1, <1>3, <1>4, <1>5, <2>1, <2>3, <2>5, <2>6, QuietKeeps DEF Before, Custodial
<1> QED
  BY <1>6, <1>7 DEF Unreadable

LEMMA GiveUpKeeps == ASSUME IInv, NEW p \in Procs, GiveUp(p) PROVE IInv'
<1>1. PICK a : a = procs[p].of
  OBVIOUS
<1>2. procs[p].pc \in {"sent", "undoing"} /\ TypeOK
  BY Known DEF GiveUp
<1>3. /\ UNCHANGED <<hub, conf, device, kernel, out, made>> /\ net' \subseteq net
      /\ budget' \in [faults: 0 .. MaxFaults, changes: 0 .. MaxChanges]
  BY <1>2, Spent DEF GiveUp, files, TypeOK
<1>4. /\ Onward(p) /\ Placed(p)' /\ Reserved(p)'
      /\ procs'[p].pc \in {"drop", "drop_out"} /\ procs'[p].version = procs[p].version
  BY <1>2, <1>3, Failed DEF GiveUp, Custodial
<1>5. PICK what \in {"unanswered", "told"} : Note(a, what)
  BY <1>1 DEF GiveUp
<1>6. what \in Mishaps(a)' /\ mishaps' = mishaps \cup {[of |-> a, what |-> what]}
  BY <1>2, <1>5, Noted
<1>7. a \in Attempts
  BY <1>1, <1>2, Known, Typed DEF IInv, Numbered, Trying, Custodial, Attempts, TypeOK
<1>8. TypeOK'
  BY <1>2, <1>3, <1>4, <1>6, <1>7 DEF TypeOK, Onward, Moves, hub
<1>9. ~Reverts => procs'[p].version <= version
  BY <1>4, Known
<1> QED
  BY <1>1, <1>2, <1>3, <1>4, <1>6, <1>8, <1>9, QuietKeeps DEF Before, Custodial

LEMMA UndoneKeeps == ASSUME IInv, NEW p \in Procs, Undone(p) PROVE IInv'
<1>1. PICK a : a = procs[p].of
  OBVIOUS
<1>2. procs[p].pc = "undoing" /\ TypeOK
  BY Known DEF Undone
<1>3. PICK m \in net : /\ m.of = procs[p].of /\ net' = net \ {m}
                       /\ \/ m.kind = "deleted" /\ UNCHANGED mishaps
                          \/ m.kind = "denied" /\ Note(m.of, "told")
  BY DEF Undone
<1>4. /\ Onward(p) /\ Placed(p)' /\ Reserved(p)'
      /\ procs'[p].pc \in {"drop", "drop_out"} /\ procs'[p].version = procs[p].version
  BY <1>2, Failed DEF Undone, Custodial, files
<1>5. a \in Attempts
  BY <1>1, <1>2, <1>3 DEF TypeOK, Messages
<1>6. /\ mishaps \subseteq mishaps'
      /\ mishaps' \subseteq mishaps \cup {[of |-> a, what |-> "told"]}
      /\ a \notin Listed \/ Mishaps(a)' # {}
  <2>1. CASE m.kind = "deleted" /\ UNCHANGED mishaps
    BY <1>1, <1>3, <2>1, Known
  <2>2. CASE m.kind = "denied" /\ Note(m.of, "told")
    <3>1. Note(a, "told")
      BY <1>1, <1>3, <2>2
    <3> QED
      BY <1>2, <3>1, Noted
  <2> QED
    BY <1>3, <2>1, <2>2
<1>7. TypeOK'
  BY <1>2, <1>4, <1>5, <1>6 DEF TypeOK, Undone, Onward, Moves, hub, files
<1>8. ~Reverts => procs'[p].version <= version
  BY <1>4, Known
<1> QED
  BY <1>1, <1>2, <1>3, <1>4, <1>6, <1>7, <1>8, QuietKeeps DEF Undone, files, Before, Custodial

\* A failure after the answer, on the way to a delete.
LEMMA UndoFit ==
  ASSUME IInv, NEW p \in Procs, procs[p].pc \in Custodial \ {"save_device"}, Goto(p, "undo"),
         UNCHANGED <<conf, device>>
  PROVE  /\ Onward(p) /\ Placed(p)' /\ Reserved(p)'
         /\ procs'[p].pc = "undo" /\ procs'[p].version = procs[p].version
<1>1. TypeOK /\ Placed(p) /\ Reserved(p)
  BY Known
<1>2. /\ Moves(p) /\ Same(p) /\ procs'[p].pc = "undo"
      /\ procs'[p].claimed = procs[p].claimed /\ procs'[p].version = procs[p].version
  BY <1>1, Went DEF Pcs
<1>3. Onward(p)
  BY <1>1, <1>2 DEF Onward, Trying, Joining, Custodial, Same, Placed
<1>4. Placed(p)' /\ Reserved(p)'
  BY <1>1, <1>2, FileTypes DEF Placed, Reserved, Same, Custodial
<1> QED
  BY <1>2, <1>3, <1>4

LEMMA FillFailsKeeps == ASSUME IInv, NEW p \in Procs, FillFails(p) PROVE IInv'
<1>1. PICK a : a = procs[p].of
  OBVIOUS
<1>2. procs[p].pc = "fill" /\ TypeOK
  BY Known DEF FillFails
<1>3. /\ Onward(p) /\ Placed(p)' /\ Reserved(p)'
      /\ procs'[p].pc = "undo" /\ procs'[p].version = procs[p].version
  BY <1>2, UndoFit DEF FillFails, Custodial, files
<1>4. TypeOK'
  BY <1>2, <1>3, Spent DEF TypeOK, FillFails, Onward, Moves, hub, files
<1>5. ~Reverts => procs'[p].version <= version
  BY <1>3, Known
<1> QED
  BY <1>1, <1>2, <1>3, <1>4, <1>5, QuietKeeps DEF FillFails, files, Before, Custodial

\* What a command leaves when it ends.
LEMMA Ended ==
  ASSUME IInv, NEW p \in Procs, Trying(p), Return(p)
  PROVE  Onward(p) /\ Placed(p)' /\ Reserved(p)' /\ procs'[p] = Idle
<1>1. Moves(p) /\ procs'[p] = Idle
  BY Known, Returned
<1>2. Placed(p)' /\ Reserved(p)'
  BY <1>1, IdleFit DEF Placed, Reserved
<1> QED
  BY <1>1, <1>2 DEF Onward

LEMMA FillKeeps == ASSUME IInv, NEW p \in Procs, Fill(p) PROVE IInv'
<1>1. PICK a : a = procs[p].of
  OBVIOUS
<1>2. /\ procs[p].pc = "fill" /\ TypeOK /\ Trying(p)
      /\ UNCHANGED <<hub, conf, device, kernel, made, net, budget>>
  BY Known DEF Fill, Trying, Custodial
<1>3. a \in Attempts /\ procs[p].version \in Versions
  BY <1>1, <1>2, Typed DEF IInv, Numbered, Attempts, TypeOK
<1>4. ASSUME NEW what \in {"printed", "filed"}, Return(p), Note(procs[p].of, what),
             out' \in {out, Saved(procs[p].of, procs[p].version)}
      PROVE  IInv'
  <2>1. Onward(p) /\ Placed(p)' /\ Reserved(p)' /\ procs'[p] = Idle
    BY <1>2, <1>4, Ended
  <2>2. Note(a, what)
    BY <1>1, <1>4
  <2>3. what \in Mishaps(a)' /\ mishaps' = mishaps \cup {[of |-> a, what |-> what]}
    BY <1>2, <2>2, Noted
  <2>4. out' \in File
    BY <1>1, <1>2, <1>3, <1>4, FileTypes DEF TypeOK
  <2>5. TypeOK'
    BY <1>2, <1>3, <2>1, <2>3, <2>4 DEF TypeOK, Onward, Moves, hub
  <2>6. ~Reverts => procs'[p].version <= version
    BY <1>2, <2>1, IdleFit DEF TypeOK, Versions
  <2> QED
    BY <1>1, <1>2, <2>1, <2>3, <2>5, <2>6, IdleFit, QuietKeeps DEF Before, Custodial
<1>5. ASSUME UNCHANGED <<out, mishaps>>, Goto(p, "undo") PROVE IInv'
  <2>1. /\ Onward(p) /\ Placed(p)' /\ Reserved(p)'
        /\ procs'[p].pc = "undo" /\ procs'[p].version = procs[p].version
    BY <1>2, <1>5, UndoFit DEF Custodial
  <2>2. TypeOK'
    BY <1>2, <1>5, <2>1 DEF TypeOK, Onward, Moves, hub
  <2>3. ~Reverts => procs'[p].version <= version
    BY <2>1, Known
  <2> QED
    BY <1>1, <1>2, <1>5, <2>1, <2>2, <2>3, QuietKeeps DEF Before, Custodial
<1> QED
  BY <1>4, <1>5 DEF Fill

LEMMA DropOutKeeps == ASSUME IInv, NEW p \in Procs, DropOut(p) PROVE IInv'
<1>1. PICK a : a = procs[p].of
  OBVIOUS
<1>2. procs[p].pc = "drop_out" /\ TypeOK /\ Trying(p) /\ out' \in File
  BY Known, FileTypes DEF DropOut, Trying, After, TypeOK
<1>3. Onward(p) /\ Placed(p)' /\ Reserved(p)' /\ procs'[p] = Idle
  BY <1>2, Ended DEF DropOut
<1>4. TypeOK'
  BY <1>2, <1>3 DEF TypeOK, DropOut, Onward, Moves, hub
<1>5. ~Reverts => procs'[p].version <= version
  BY <1>2, <1>3, IdleFit DEF TypeOK, Versions
<1> QED
  BY <1>1, <1>2, <1>3, <1>4, <1>5, IdleFit, QuietKeeps DEF DropOut, Before, Custodial

\* A command that tries is killed.
LEMMA KillTryingKeeps == ASSUME IInv, NEW p \in Procs, Trying(p), Kill(p) PROVE IInv'
<1>1. PICK a : a = procs[p].of
  OBVIOUS
<1>2. /\ TypeOK /\ net' \subseteq net /\ UNCHANGED <<hub, conf, device, kernel, out, made>>
      /\ budget' \in [faults: 0 .. MaxFaults, changes: 0 .. MaxChanges]
  BY Known, Spent DEF Kill, files
<1>3. Onward(p) /\ Placed(p)' /\ Reserved(p)' /\ procs'[p] = Idle
  BY Ended DEF Kill
<1>4. a \in Attempts
  BY <1>1, <1>2, Typed DEF IInv, Numbered, Attempts, TypeOK
<1>5. PICK what \in {"cut", "killed"} :
        IF procs[p].pc \in Custodial THEN Note(a, what) ELSE UNCHANGED mishaps
  BY <1>1 DEF Kill, Custodial
<1>6. procs[p].pc = "save_device" => Note(a, "cut")
  BY <1>1 DEF Kill
<1>7. /\ mishaps \subseteq mishaps' /\ mishaps' \subseteq mishaps \cup {[of |-> a, what |-> what]}
      /\ procs[p].pc \in Custodial => Mishaps(a)' # {}
      /\ procs[p].pc = "save_device" => "cut" \in Mishaps(a)'
  BY <1>2, <1>5, <1>6, Noted
<1>8. TypeOK'
  BY <1>2, <1>3, <1>4, <1>7 DEF TypeOK, Onward, Moves, hub
<1>9. ~Reverts => procs'[p].version <= version
  BY <1>2, <1>3, IdleFit DEF TypeOK, Versions
<1> QED
  BY <1>1, <1>2, <1>3, <1>7, <1>8, <1>9, IdleFit, QuietKeeps DEF Before, Custodial

\* The two requests: one to join, before which the attempt is unknown to
\* everybody, and one to take that back, when no request to join is left.
LEMMA SendKeeps == ASSUME IInv, NEW p \in Procs, Send(p) PROVE IInv'
<1>1. PICK a : a = procs[p].of
  OBVIOUS
<1>2. /\ procs[p].pc = "send" /\ TypeOK /\ Placed(p) /\ Reserved(p) /\ Carried /\ Trying(p)
      /\ UNCHANGED <<hub, conf, device, kernel, out, made, budget, mishaps>>
  BY Known DEF Send, files, Trying, Before, IInv
<1>3. a \in Attempts /\ a <= made
  BY <1>1, <1>2, Typed DEF IInv, Numbered, Attempts, TypeOK
<1>0. PICK k : k = Request(p, "join")
  OBVIOUS
<1>4. /\ k \in Messages /\ k.kind = "join" /\ k.of = a /\ k.name = procs[p].name /\ k.version = 0
  BY <1>1, <1>2, <1>3, <1>0, Typed, DeviceAssumption DEF Request, Messages, Versions
<1>5. net' = net \cup {k}
  BY <1>0 DEF Send
<1>6. /\ Moves(p) /\ Same(p) /\ procs'[p].pc = "sent"
      /\ procs'[p].claimed = procs[p].claimed /\ procs'[p].version = procs[p].version
  BY <1>2, Went DEF Send, Pcs
<1>7. Onward(p)
  BY <1>2, <1>6 DEF Onward, Trying, Joining, Custodial, Same
<1>8. Reserved(p)' /\ Placed(p)'
  BY <1>2, <1>6 DEF Reserved, Placed, Same
<1>9. Shape'
  BY <1>2, <1>4, <1>5, <1>6, <1>8 DEF IInv, Shape, TypeOK, Placed, Plain, Moves, hub
<1>10. Numbered' /\ Locks'
  BY <1>1, <1>2, <1>4, <1>5, <1>7, NumbersKept DEF IInv, Numbered, hub
<1>11. (\A q \in Procs : Reserved(q)' /\ Read(q)') /\ PairMatches' /\ NothingHalfJoined'
  BY <1>1, <1>2, <1>7, <1>8, FilesKept
<1>12. Carried'
  <2>1. Listed' = Listed /\ registered' = registered
    BY <1>2 DEF Listed, hub
  <2>2. a \notin Listed /\ \A m \in net : m.of # a
    BY <1>1, <1>2 DEF Carried, Before
  <2>3. \A q \in Procs \ {p} : procs'[q] = procs[q]
    BY <1>6 DEF Moves
  <2>4. \A q \in Procs \ {p} : procs[q].of = a => ~Trying(q)
    BY <1>1, <1>2 DEF IInv, Numbered
  <2>5. ASSUME NEW m \in net PROVE Asked(m)'
    BY <1>2, <1>4, <1>5, <1>6, <2>1, <2>2, <2>3 DEF Carried, Asked, Mishaps, Same, Custodial
  <2>6. Asked(k)'
    <3>1. \A q \in Procs : procs'[q].of = k.of => procs'[q].pc \notin Custodial \ {"sent"}
      BY <1>4, <1>6, <2>3, <2>4 DEF Trying, Custodial
    <3> QED
      BY <1>1, <1>4, <1>5, <1>6, <2>1, <2>2, <3>1 DEF Asked, Same
  <2>7. \A m \in net' : Asked(m)'
    BY <1>5, <2>5, <2>6 DEF Asked
  <2>8. \A m \in net' : m.kind \in {"refused", "deleted"} => m.of \notin Listed'
    BY <1>2, <1>4, <1>5, <2>1 DEF Carried
  <2>9. \A m \in net', r \in registered' : m.of = r.of => m.name = r.name
    BY <1>2, <1>4, <1>5, <2>1, <2>2 DEF Carried, Listed
  <2>10. ASSUME NEW q \in Procs, Trying(q)'
         PROVE  /\ \A m \in net' : m.of = procs'[q].of => m.name = procs'[q].name
                /\ \A r \in registered' : r.of = procs'[q].of => r.name = procs'[q].name
    <3>1. CASE q = p
      BY <1>1, <1>2, <1>4, <1>5, <1>6, <2>1, <3>1 DEF Carried, Same
    <3>2. CASE q # p
      BY <1>2, <1>4, <1>5, <2>1, <2>3, <2>4, <2>10, <3>2 DEF Carried, Trying
    <3> QED
      BY <3>1, <3>2
  <2>11. ASSUME NEW q \in Procs, procs'[q].pc \in Before
         PROVE  procs'[q].of \notin Listed' /\ \A m \in net' : m.of # procs'[q].of
    <3>1. q # p /\ procs'[q] = procs[q] /\ Trying(q)
      BY <1>6, <2>3, <2>11 DEF Before, Trying
    <3> QED
      BY <1>2, <1>4, <1>5, <2>1, <2>4, <2>11, <3>1 DEF Carried
  <2> QED
    BY <2>7, <2>8, <2>9, <2>10, <2>11 DEF Carried
<1>13. NoSilentOrphan'
  BY <1>1, <1>2, <1>7, OrphansKept DEF Custodial, hub
<1>14. ASSUME ~Reverts PROVE Timed' /\ RecordedIsApplied'
  BY <1>2, <1>4, <1>5, <1>6, <1>7, <1>14, TimedKept, Known DEF Before, hub, TypeOK, Versions
<1> QED
  BY <1>9, <1>10, <1>11, <1>12, <1>13, <1>14 DEF IInv

LEMMA UndoKeeps == ASSUME IInv, NEW p \in Procs, Undo(p) PROVE IInv'
<1>1. PICK a : a = procs[p].of
  OBVIOUS
<1>2. /\ procs[p].pc = "undo" /\ TypeOK /\ Placed(p) /\ Reserved(p) /\ Carried /\ Trying(p)
      /\ UNCHANGED <<hub, conf, device, kernel, out, made, budget, mishaps>>
  BY Known DEF Undo, files, Trying, Custodial, IInv
<1>3. a \in Attempts /\ a <= made
  BY <1>1, <1>2, Typed DEF IInv, Numbered, Attempts, TypeOK
<1>0. PICK k : k = Request(p, "delete")
  OBVIOUS
<1>4. /\ k \in Messages /\ k.kind = "delete" /\ k.of = a /\ k.name = procs[p].name /\ k.version = 0
  BY <1>1, <1>2, <1>3, <1>0, Typed, DeviceAssumption DEF Request, Messages, Versions
<1>5. net' = net \cup {k}
  BY <1>0 DEF Undo
<1>6. /\ Moves(p) /\ Same(p) /\ procs'[p].pc = "undoing"
      /\ procs'[p].claimed = procs[p].claimed /\ procs'[p].version = procs[p].version
  BY <1>2, Went DEF Undo, Pcs
<1>7. Onward(p)
  BY <1>2, <1>6 DEF Onward, Trying, Joining, Custodial, Same
<1>8. Reserved(p)' /\ Placed(p)'
  BY <1>2, <1>6 DEF Reserved, Placed, Same
<1>9. Shape'
  BY <1>2, <1>4, <1>5, <1>6, <1>8 DEF IInv, Shape, TypeOK, Placed, Plain, Moves, hub
<1>10. Numbered' /\ Locks'
  BY <1>1, <1>2, <1>4, <1>5, <1>7, NumbersKept DEF IInv, Numbered, hub
<1>11. (\A q \in Procs : Reserved(q)' /\ Read(q)') /\ PairMatches' /\ NothingHalfJoined'
  BY <1>1, <1>2, <1>7, <1>8, FilesKept
<1>12. Carried'
  <2>1. Listed' = Listed /\ registered' = registered
    BY <1>2 DEF Listed, hub
  <2>2. \A q \in Procs \ {p} : procs'[q] = procs[q]
    BY <1>6 DEF Moves
  <2>3. \A q \in Procs \ {p} : procs[q].of = a => ~Trying(q)
    BY <1>1, <1>2 DEF IInv, Numbered
  <2>4. \A m \in net : m.kind = "join" => m.of # a
    BY <1>1, <1>2 DEF Carried, Asked, Custodial
  <2>5. ASSUME NEW m \in net, m.kind = "join" PROVE Asked(m)'
    BY <1>1, <1>2, <1>4, <1>5, <1>6, <2>1, <2>2, <2>4, <2>5 DEF Carried, Asked, Mishaps, Same
  <2>6. \A m \in net' : Asked(m)'
    BY <1>4, <1>5, <2>5 DEF Asked
  <2>7. \A m \in net' : m.kind \in {"refused", "deleted"} => m.of \notin Listed'
    BY <1>2, <1>4, <1>5, <2>1 DEF Carried
  <2>8. \A m \in net', r \in registered' : m.of = r.of => m.name = r.name
    BY <1>1, <1>2, <1>4, <1>5, <2>1 DEF Carried
  <2>9. ASSUME NEW q \in Procs, Trying(q)'
         PROVE  /\ \A m \in net' : m.of = procs'[q].of => m.name = procs'[q].name
                /\ \A r \in registered' : r.of = procs'[q].of => r.name = procs'[q].name
    <3>1. CASE q = p
      BY <1>1, <1>2, <1>4, <1>5, <1>6, <2>1, <3>1 DEF Carried, Same
    <3>2. CASE q # p
      BY <1>2, <1>4, <1>5, <2>1, <2>2, <2>3, <2>9, <3>2 DEF Carried, Trying
    <3> QED
      BY <3>1, <3>2
  <2>10. ASSUME NEW q \in Procs, procs'[q].pc \in Before
         PROVE  procs'[q].of \notin Listed' /\ \A m \in net' : m.of # procs'[q].of
    <3>1. q # p /\ procs'[q] = procs[q] /\ Trying(q)
      BY <1>6, <2>2, <2>10 DEF Before, Trying
    <3> QED
      BY <1>2, <1>4, <1>5, <2>1, <2>3, <2>10, <3>1 DEF Carried
  <2> QED
    BY <2>6, <2>7, <2>8, <2>9, <2>10 DEF Carried
<1>13. NoSilentOrphan'
  BY <1>1, <1>2, <1>6, <1>7, OrphansKept DEF Custodial, hub
<1>14. ASSUME ~Reverts PROVE Timed' /\ RecordedIsApplied'
  BY <1>2, <1>4, <1>5, <1>6, <1>7, <1>14, TimedKept, Known DEF Before, hub, TypeOK, Versions
<1> QED
  BY <1>9, <1>10, <1>11, <1>12, <1>13, <1>14 DEF IInv

\* A step of a join that has the two names to itself.
LEMMA OwnKeeps ==
  ASSUME IInv, NEW p \in Procs, NEW a, a = procs[p].of, Joining(p),
         procs[p].pc \notin {"check", "sent"}, Onward(p), Placed(p)', Reserved(p)', TypeOK',
         UNCHANGED <<hub, kernel, made, net, mishaps>>,
         Plain(conf)', Plain(device)', PairMatches', NothingHalfJoined', conf'.of \in {0, conf.of, a},
         procs'[p].pc \in Custodial => procs[p].pc \in Custodial /\ procs'[p].pc # "sent",
         procs'[p].pc \in Before => procs[p].pc \in Before /\ conf'.of = 0,
         procs'[p].pc # "save_conf",
         procs[p].pc \in Custodial /\ procs'[p].pc \notin Custodial => conf'.of = a /\ device'.of = a,
         procs'[p] = Idle \/ procs'[p].version = procs[p].version,
         ~Reverts => RecordedIsApplied' /\ device'.version \in {0, procs[p].version},
         ~Reverts /\ procs'[p].pc = "save_device" => kernel.of # a
  PROVE  IInv'
<1>1. /\ UNCHANGED <<registered, version, kernel, made, net>>
      /\ \A q \in Procs \ {p} : procs'[q] = procs[q] /\ ~Joining(q) /\ ~Reading(q)
      /\ device.what # "joined" /\ device.of = 0
  <2>1. device.what # "joined" => device.of = 0
    BY FileTypes DEF IInv, Shape, Plain
  <2> QED
    BY <2>1, Alone DEF hub, Onward, Moves
<1>2. Shape'
  BY <1>1 DEF IInv, Shape, Placed, Onward, Moves
<1>3. Trying(p) /\ a \in 1 .. made /\ conf.of <= made
  BY DEF Onward, IInv, Numbered
<1>4. Numbered' /\ Locks'
  <2>1. made \in Nat
    BY DeviceAssumption DEF IInv, Shape, TypeOK
  <2>2. conf'.of <= made /\ kernel'.of <= made
    BY <1>1, <1>3, <2>1 DEF IInv, Numbered
  <2> QED
    BY <1>1, <2>2, NumbersKept
<1>5. \A q \in Procs : Reserved(q)' /\ Read(q)'
  BY OwnFiles
<1>6. Carried'
  BY <1>1, CarriedKept
<1>7. NoSilentOrphan'
  BY <1>1, OrphansKept DEF Attempts
<1>8. ASSUME ~Reverts PROVE Timed'
  <2>1. version \in Nat /\ Timed /\ Numbered
    BY <1>8, DeviceAssumption DEF IInv, Shape, TypeOK, Versions
  <2>2. device'.version <= version'
    BY <1>1, <1>8, <2>1 DEF Timed
  <2>3. \A m \in net' : m.version <= version'
    BY <1>1, <2>1 DEF Timed
  <2>4. ASSUME NEW q \in Procs \ {p}
        PROVE  /\ procs'[q].version <= version'
               /\ ~Knowing(q)' /\ procs'[q].pc \notin {"syncconf", "record", "save_device"}
               /\ Trying(q)' /\ procs'[q].export => conf'.of # procs'[q].of /\ kernel'.of # procs'[q].of
               /\ Trying(q)' /\ procs'[q].pc \in Before \cup {"sent", "save_conf"} =>
                    procs'[q].export
    <3>1. procs'[q] = procs[q] /\ ~Reading(q) /\ ~Joining(q)
      BY <1>1
    <3>2. Trying(q) => procs[q].of # a /\ procs[q].of # 0
      BY <1>3, <2>1 DEF Numbered
    <3>3. Placed(q)
      BY Known
    <3>4. Trying(q) /\ procs[q].export => conf.of # procs[q].of /\ kernel.of # procs[q].of
      BY <2>1 DEF Timed
    <3>5. procs[q].pc \in Before \cup {"sent", "save_conf", "save_device"} => procs[q].export
      BY <3>1 DEF Joining, Before
    <3> QED
      BY <1>1, <2>1, <3>1, <3>2, <3>3, <3>4, <3>5 DEF Timed, Knowing, Reading, Trying, Placed
  <2>5. /\ procs'[p].version <= version' /\ ~Knowing(p)'
        /\ procs'[p].pc \notin {"syncconf", "record", "sent", "save_conf"} /\ ~procs'[p].export
        /\ procs'[p].pc \in Before => conf'.of # procs'[p].of /\ kernel'.of # procs'[p].of
        /\ procs'[p].pc = "save_device" => kernel'.of # procs'[p].of
    <3>1. procs'[p] = Idle \/ (procs'[p].of = a /\ ~procs'[p].export /\ Trying(p)')
      BY DEF Onward, Same, Joining
    <3>2. procs'[p].version <= version'
      BY <1>1, <2>1, IdleFit DEF Timed
    <3>3. procs[p].pc \in Before => kernel.of # a
      BY <1>3, <2>1 DEF Timed
    <3>4. /\ ~Knowing(p)' /\ ~procs'[p].export
          /\ procs'[p].pc \notin {"syncconf", "record", "sent", "save_conf"}
      BY <3>1, IdleFit DEF Knowing, Trying, Before, Custodial, After
    <3>5. procs'[p].pc \in Before \cup {"save_device"} => procs'[p].of = a
      BY <3>1, IdleFit DEF Before
    <3> QED
      BY <1>1, <1>3, <1>8, <3>2, <3>3, <3>4, <3>5
  <2> QED
    BY <2>2, <2>3, <2>4, <2>5 DEF Timed, Trying
<1> QED
  BY <1>2, <1>4, <1>5, <1>6, <1>7, <1>8 DEF IInv

LEMMA ClaimConfKeeps == ASSUME IInv, NEW p \in Procs, ClaimConf(p) PROVE IInv'
<1>1. PICK a : a = procs[p].of
  OBVIOUS
<1>2. /\ procs[p].pc = "claim_conf" /\ TypeOK /\ Placed(p) /\ Reserved(p) /\ Trying(p) /\ Joining(p)
      /\ UNCHANGED <<hub, net, device, out, kernel, made, budget, mishaps>>
  BY Known DEF ClaimConf, Trying, Joining, Placed, Before
<1>3. CASE conf' = Claim /\ Goto(p, "claim_device")
  <2>1. /\ Moves(p) /\ Same(p) /\ procs'[p].pc = "claim_device"
        /\ procs'[p].claimed = procs[p].claimed /\ procs'[p].version = procs[p].version
    BY <1>2, <1>3, Went DEF Pcs
  <2>2. Onward(p) /\ Placed(p)' /\ Reserved(p)'
    BY <1>2, <1>3, <2>1 DEF Onward, Trying, Joining, Before, Same, Placed, Reserved
  <2>3. TypeOK'
    BY <1>2, <1>3, <2>1, FileTypes DEF TypeOK, Moves, hub
  <2>4. device.what # "joined" /\ conf'.what # "joined" /\ Plain(conf)' /\ Plain(device)'
    BY <1>2, <1>3, Alone, FileTypes DEF Plain, IInv, Shape
  <2>5. PairMatches' /\ NothingHalfJoined' /\ RecordedIsApplied'
    BY <1>2, <2>4 DEF PairMatches, NothingHalfJoined, RecordedIsApplied
  <2>6. device'.version = 0 /\ conf'.of = 0
    BY <1>2, <1>3, <2>4, FileTypes DEF Plain, Absent, Claim, Foreign
  <2> QED
    BY <1>1, <1>2, <2>1, <2>2, <2>3, <2>4, <2>5, <2>6, OwnKeeps DEF Custodial, Before
<1>4. CASE UNCHANGED conf /\ Return(p)
  <2>1. Onward(p) /\ Placed(p)' /\ Reserved(p)' /\ procs'[p] = Idle
    BY <1>2, <1>4, Ended
  <2>2. TypeOK'
    BY <1>2, <1>4, <2>1 DEF TypeOK, Onward, Moves, hub
  <2>3. ~Reverts => procs'[p].version <= version
    BY <1>2, <2>1, IdleFit DEF TypeOK, Versions
  <2> QED
    BY <1>1, <1>2, <1>4, <2>1, <2>2, <2>3, IdleFit, QuietKeeps DEF Before, Custodial
<1> QED
  BY <1>3, <1>4 DEF ClaimConf

LEMMA ClaimDeviceKeeps == ASSUME IInv, NEW p \in Procs, ClaimDevice(p) PROVE IInv'
<1>1. PICK a : a = procs[p].of
  OBVIOUS
<1>2. /\ procs[p].pc = "claim_device" /\ TypeOK /\ Placed(p) /\ Reserved(p) /\ Trying(p) /\ Joining(p)
      /\ UNCHANGED <<hub, net, conf, out, kernel, made, budget, mishaps>>
      /\ procs[p] \in Proc
  BY Known, Typed DEF ClaimDevice, Trying, Joining, Placed, Before
<1>3. CASE /\ device' = Claim
           /\ procs' = [procs EXCEPT ![p].pc = "send", ![p].claimed = TRUE]
  <2>1. procs' = [procs EXCEPT ![p] = [procs[p] EXCEPT !.pc = "send", !.claimed = TRUE]]
    BY <1>2, <1>3 DEF TypeOK
  <2>2. [procs[p] EXCEPT !.pc = "send", !.claimed = TRUE] \in Proc
    BY <1>2 DEF Proc, Pcs
  <2>3. Moves(p) /\ procs'[p] = [procs[p] EXCEPT !.pc = "send", !.claimed = TRUE]
    BY <1>2, <2>1, <2>2 DEF Moves, TypeOK
  <2>4. /\ Same(p) /\ procs'[p].pc = "send" /\ procs'[p].claimed
        /\ procs'[p].version = procs[p].version
    BY <1>2, <2>3 DEF Same, Proc
  <2>5. Onward(p) /\ Placed(p)' /\ Reserved(p)'
    BY <1>2, <1>3, <2>3, <2>4 DEF Onward, Trying, Joining, Before, Same, Placed, Reserved
  <2>6. TypeOK'
    BY <1>2, <1>3, <2>3, FileTypes DEF TypeOK, Moves, hub
  <2>7. conf = Claim /\ Plain(conf)' /\ Plain(device)'
    BY <1>2, <1>3, FileTypes DEF Plain, Reserved, Placed
  <2>8. PairMatches' /\ NothingHalfJoined' /\ RecordedIsApplied'
    BY <1>2, <1>3, <2>7, FileTypes DEF PairMatches, NothingHalfJoined, RecordedIsApplied
  <2>9. device'.version = 0 /\ conf'.of = 0
    BY <1>2, <1>3, <2>7 DEF Claim
  <2> QED
    BY <1>1, <1>2, <2>4, <2>5, <2>6, <2>7, <2>8, <2>9, OwnKeeps DEF Custodial, Before
<1>4. CASE UNCHANGED device /\ Goto(p, "drop")
  <2>1. /\ Moves(p) /\ Same(p) /\ procs'[p].pc = "drop"
        /\ procs'[p].claimed = procs[p].claimed /\ procs'[p].version = procs[p].version
    BY <1>2, <1>4, Went DEF Pcs
  <2>2. Onward(p) /\ Placed(p)' /\ Reserved(p)'
    BY <1>2, <1>4, <2>1 DEF Onward, Trying, Joining, Before, After, Same, Placed, Reserved
  <2>3. TypeOK'
    BY <1>2, <1>4, <2>1 DEF TypeOK, Moves, hub
  <2>4. ~Reverts => procs'[p].version <= version
    BY <2>1, Known
  <2> QED
    BY <1>1, <1>2, <1>4, <2>1, <2>2, <2>3, <2>4, QuietKeeps DEF Before, Custodial
<1> QED
  BY <1>3, <1>4 DEF ClaimDevice

LEMMA SaveConfKeeps == ASSUME IInv, NEW p \in Procs, SaveConf(p) PROVE IInv'
<1>1. PICK a : a = procs[p].of
  OBVIOUS
<1>2. /\ procs[p].pc = "save_conf" /\ TypeOK /\ Placed(p) /\ Reserved(p) /\ Trying(p) /\ Joining(p)
      /\ UNCHANGED <<hub, net, device, out, kernel, made, budget, mishaps>>
      /\ conf' = Saved(a, procs[p].version)
  BY <1>1, Known DEF SaveConf, Trying, Joining, Placed, Custodial
<1>3. a \in Attempts /\ procs[p].version \in Versions
  BY <1>1, <1>2, Typed DEF IInv, Numbered, Attempts, TypeOK
<1>4. /\ Moves(p) /\ Same(p) /\ procs'[p].pc = "save_device"
      /\ procs'[p].claimed = procs[p].claimed /\ procs'[p].version = procs[p].version
  BY <1>2, Went DEF SaveConf, Pcs
<1>5. device = Claim /\ conf'.what = "joined" /\ conf'.of = a /\ conf' \in File
  BY <1>2, <1>3, FileTypes DEF Reserved, Placed
<1>6. Onward(p) /\ Placed(p)' /\ Reserved(p)'
  BY <1>1, <1>2, <1>4, <1>5 DEF Onward, Trying, Joining, Custodial, Same, Placed, Reserved
<1>7. TypeOK'
  BY <1>2, <1>4, <1>5 DEF TypeOK, Moves, hub
<1>8. Plain(conf)' /\ Plain(device)' /\ device'.version = 0
  BY <1>2, <1>3, <1>5, FileTypes DEF Plain, Attempts, Claim
<1>9. PairMatches' /\ RecordedIsApplied'
  BY <1>2, <1>5, FileTypes DEF PairMatches, RecordedIsApplied
<1>10. NothingHalfJoined'
  BY <1>1, <1>2, <1>4, <1>5, FileTypes DEF NothingHalfJoined, Same
<1>11. ~Reverts => kernel.of # a
  BY <1>1, <1>2 DEF IInv, Timed
<1> QED
  BY <1>1, <1>2, <1>4, <1>5, <1>6, <1>7, <1>8, <1>9, <1>10, <1>11, OwnKeeps DEF Custodial, Before

LEMMA SaveDeviceKeeps == ASSUME IInv, NEW p \in Procs, SaveDevice(p) PROVE IInv'
<1>1. PICK a : a = procs[p].of
  OBVIOUS
<1>2. /\ procs[p].pc = "save_device" /\ TypeOK /\ Placed(p) /\ Reserved(p) /\ Trying(p) /\ Joining(p)
      /\ UNCHANGED <<hub, net, conf, out, kernel, made, budget, mishaps>>
      /\ device' = Saved(a, procs[p].version)
  BY <1>1, Known DEF SaveDevice, Trying, Joining, Placed, Custodial
<1>3. a \in Attempts /\ procs[p].version \in Versions
  BY <1>1, <1>2, Typed DEF IInv, Numbered, Attempts, TypeOK
<1>4. /\ Moves(p) /\ Same(p) /\ procs'[p].pc = "activate"
      /\ procs'[p].claimed = procs[p].claimed /\ procs'[p].version = procs[p].version
  BY <1>2, Went DEF SaveDevice, Pcs
<1>5. conf = Saved(a, procs[p].version) /\ device' = conf /\ conf.of = a /\ conf.what = "joined"
  BY <1>1, <1>2, <1>3, FileTypes DEF Reserved, Placed
<1>6. Onward(p) /\ Placed(p)' /\ Reserved(p)'
  BY <1>2, <1>4 DEF Onward, Trying, Joining, After, Same, Placed, Reserved
<1>7. TypeOK'
  BY <1>2, <1>4, <1>5 DEF TypeOK, Moves, hub
<1>8. Plain(conf)' /\ Plain(device)' /\ device'.version = procs[p].version
  BY <1>2, <1>3, <1>5, FileTypes DEF Plain, Attempts
<1>9. PairMatches' /\ NothingHalfJoined'
  BY <1>2, <1>5 DEF PairMatches, NothingHalfJoined
<1>10. ASSUME ~Reverts PROVE RecordedIsApplied'
  <2>1. kernel.of = a => kernel.version = procs[p].version
    BY <1>1, <1>2, <1>10 DEF IInv, Timed
  <2>2. conf.version = procs[p].version /\ procs[p].version \in Int
    BY <1>3, <1>5, FileTypes, DeviceAssumption DEF Versions
  <2> QED
    BY <1>2, <1>5, <2>1, <2>2 DEF RecordedIsApplied
<1> QED
  BY <1>1, <1>2, <1>4, <1>5, <1>6, <1>7, <1>8, <1>9, <1>10, OwnKeeps DEF Custodial, Before

LEMMA SaveFailsKeeps == ASSUME IInv, NEW p \in Procs, SaveFails(p) PROVE IInv'
<1>1. PICK a : a = procs[p].of
  OBVIOUS
<1>2. /\ procs[p].pc \in {"save_conf", "save_device"}
      /\ TypeOK /\ Placed(p) /\ Reserved(p) /\ Trying(p) /\ Joining(p)
      /\ UNCHANGED <<hub, net, device, out, kernel, made, mishaps>>
      /\ budget' \in [faults: 0 .. MaxFaults, changes: 0 .. MaxChanges]
  BY Known, Spent DEF SaveFails, Trying, Joining, Placed, Custodial
<1>3. /\ Moves(p) /\ Same(p) /\ procs'[p].pc = "undo"
      /\ procs'[p].claimed = procs[p].claimed /\ procs'[p].version = procs[p].version
  BY <1>2, Went DEF SaveFails, Pcs
<1>4. device = Claim /\ conf' \in {Claim, Absent}
  BY <1>2 DEF SaveFails, Reserved, Placed
<1>5. Onward(p) /\ Placed(p)' /\ Reserved(p)'
  BY <1>2, <1>3, <1>4, FileTypes DEF Onward, Trying, Joining, Custodial, Same, Placed, Reserved
<1>6. TypeOK'
  BY <1>2, <1>3, <1>4, FileTypes DEF TypeOK, Moves, hub
<1>7. Plain(conf)' /\ Plain(device)' /\ device'.version = 0 /\ conf'.of = 0
  BY <1>2, <1>4, FileTypes DEF Plain, Claim
<1>8. PairMatches' /\ NothingHalfJoined' /\ RecordedIsApplied'
  BY <1>2, <1>4, FileTypes DEF PairMatches, NothingHalfJoined, RecordedIsApplied
<1> QED
  BY <1>1, <1>2, <1>3, <1>5, <1>6, <1>7, <1>8, OwnKeeps DEF Custodial, Before

LEMMA DropKeeps == ASSUME IInv, NEW p \in Procs, Drop(p) PROVE IInv'
<1>1. PICK a : a = procs[p].of
  OBVIOUS
<1>2. /\ procs[p].pc = "drop" /\ TypeOK /\ Placed(p) /\ Reserved(p) /\ Trying(p) /\ Joining(p)
      /\ UNCHANGED <<hub, net, device, out, kernel, made, budget, mishaps>> /\ conf' = Absent
  BY Known DEF Drop, Trying, Joining, Placed, After
<1>3. /\ Moves(p)
      /\ \/ procs'[p] = Idle
         \/ /\ Same(p) /\ procs'[p].pc = "drop_device" /\ procs[p].claimed
            /\ procs'[p].claimed = procs[p].claimed /\ procs'[p].version = procs[p].version
  BY <1>2, Went, Returned DEF Drop, Pcs
<1>4. Onward(p) /\ Placed(p)' /\ Reserved(p)'
  BY <1>2, <1>3, IdleFit, FileTypes DEF Onward, Trying, Joining, After, Same, Placed, Reserved
<1>5. TypeOK'
  BY <1>2, <1>3, FileTypes DEF TypeOK, Moves, hub
<1>6. device.what # "joined" /\ Plain(conf)' /\ Plain(device)' /\ conf'.of = 0
  BY <1>2, Alone, FileTypes DEF Plain, IInv, Shape
<1>7. device'.version = 0
  BY <1>2, <1>6 DEF Plain, Absent, Claim, Foreign
<1>8. PairMatches' /\ NothingHalfJoined' /\ RecordedIsApplied'
  BY <1>2, <1>6, FileTypes DEF PairMatches, NothingHalfJoined, RecordedIsApplied
<1> QED
  BY <1>1, <1>2, <1>3, <1>4, <1>5, <1>6, <1>7, <1>8, IdleFit, OwnKeeps DEF Custodial, Before

LEMMA DropDeviceKeeps == ASSUME IInv, NEW p \in Procs, DropDevice(p) PROVE IInv'
<1>1. PICK a : a = procs[p].of
  OBVIOUS
<1>2. /\ procs[p].pc = "drop_device" /\ TypeOK /\ Placed(p) /\ Reserved(p) /\ Trying(p) /\ Joining(p)
      /\ UNCHANGED <<hub, net, conf, out, kernel, made, budget, mishaps>> /\ device' = Absent
  BY Known DEF DropDevice, Trying, Joining, Placed, After
<1>3. Onward(p) /\ Placed(p)' /\ Reserved(p)' /\ procs'[p] = Idle
  BY <1>2, Ended DEF DropDevice
<1>4. TypeOK'
  BY <1>2, <1>3, FileTypes DEF TypeOK, Onward, Moves, hub
<1>5. conf = Absent
  BY <1>2 DEF Reserved, Placed
<1>6. Plain(conf)' /\ Plain(device)' /\ conf'.of = 0 /\ device'.version = 0
  BY <1>2, <1>5, FileTypes DEF Plain, Absent
<1>7. PairMatches' /\ NothingHalfJoined' /\ RecordedIsApplied'
  BY <1>2, <1>5, FileTypes DEF PairMatches, NothingHalfJoined, RecordedIsApplied
<1> QED
  BY <1>1, <1>2, <1>3, <1>4, <1>6, <1>7, IdleFit, OwnKeeps DEF Custodial, Before

\* The interface takes what the config says, or goes; processes end.
LEMMA InterfaceTimed ==
  ASSUME IInv, ~Reverts, UNCHANGED <<conf, device, version, net>>,
         kernel' \in {kernel, Absent} \/ (kernel' = conf /\ conf.what = "joined"),
         \A q \in Procs : procs'[q] \in {procs[q], Idle}
  PROVE  Timed' /\ RecordedIsApplied'
<1>1. Timed /\ RecordedIsApplied /\ TypeOK /\ version \in Nat
  BY DeviceAssumption DEF IInv, Shape, TypeOK, Versions
<1>2. ASSUME NEW q \in Procs, procs[q].pc = "save_device"
      PROVE  conf.of = procs[q].of /\ conf.version = procs[q].version
  <2>1. Reserved(q) /\ Placed(q) /\ procs[q].of \in Attempts /\ procs[q].version \in Versions
    BY <1>1, <1>2, Known, Typed DEF IInv, Numbered, Trying, Custodial, Attempts, TypeOK
  <2> QED
    BY <1>2, <2>1, FileTypes DEF Reserved, Placed
<1>3. kernel' = Absent => kernel'.of = 0 /\ kernel'.what # "joined"
  BY FileTypes
<1>4. \A q \in Procs : Trying(q) => procs[q].of # 0
  BY <1>1 DEF IInv, Numbered
<1>5. ASSUME NEW q \in Procs, procs'[q] = procs[q]
      PROVE  /\ procs[q].version <= version
             /\ Knowing(q) => device.version <= procs[q].version
             /\ procs[q].pc \in {"syncconf", "record"} => procs[q].version <= conf.version
             /\ procs[q].pc = "record" /\ kernel'.what = "joined" /\ kernel'.of = device.of =>
                  procs[q].version <= kernel'.version
             /\ Trying(q) /\ (procs[q].export \/ procs[q].pc \in Before \cup {"sent", "save_conf"}) =>
                  conf.of # procs[q].of /\ kernel'.of # procs[q].of
             /\ procs[q].pc = "save_device" /\ kernel'.of = procs[q].of =>
                  kernel'.version = procs[q].version
  BY <1>1, <1>2, <1>3, <1>4 DEF Timed, Trying, Custodial
<1>6. Timed'
  BY <1>1, <1>5, IdleFit DEF Timed, Knowing, Trying, Before, Custodial, After
<1>7. RecordedIsApplied'
  BY <1>1, <1>3 DEF RecordedIsApplied
<1> QED
  BY <1>6, <1>7

LEMMA ActivateKeeps == ASSUME IInv, NEW p \in Procs, Activate(p) PROVE IInv'
<1>1. PICK a : a = procs[p].of
  OBVIOUS
<1>2. /\ procs[p].pc = "activate" /\ TypeOK /\ Trying(p)
      /\ UNCHANGED <<hub, net, conf, device, out, made, budget, mishaps>>
      /\ kernel' \in {kernel, Absent} \/ (kernel' = conf /\ conf.what = "joined")
  BY Known DEF Activate, Trying, After
<1>3. Onward(p) /\ Placed(p)' /\ Reserved(p)' /\ procs'[p] = Idle
  BY <1>2, Ended DEF Activate
<1>4. kernel' \in File /\ kernel'.of <= made /\ conf'.of <= made
  BY <1>2, FileTypes, DeviceAssumption DEF TypeOK, IInv, Numbered
<1>5. Shape'
  BY <1>2, <1>3, <1>4 DEF IInv, Shape, TypeOK, Placed, Plain, Onward, Moves, hub
<1>6. Numbered' /\ Locks'
  BY <1>2, <1>3, <1>4, NumbersKept DEF IInv, Numbered, hub
<1>7. (\A q \in Procs : Reserved(q)' /\ Read(q)') /\ PairMatches' /\ NothingHalfJoined'
  BY <1>1, <1>2, <1>3, FilesKept
<1>8. Carried'
  BY <1>1, <1>2, <1>3, IdleFit, CarriedKept DEF Before, Custodial, hub
<1>9. NoSilentOrphan'
  BY <1>1, <1>2, <1>3, IdleFit, OrphansKept DEF Custodial, hub
<1>10. ASSUME ~Reverts PROVE Timed' /\ RecordedIsApplied'
  BY <1>2, <1>3, <1>10, InterfaceTimed DEF Onward, Moves, hub
<1> QED
  BY <1>5, <1>6, <1>7, <1>8, <1>9, <1>10 DEF IInv

-----------------------------------------------------------------------------
(* The steps of anago sync.                                                *)

\* What they have in common: no attempt is touched, and the two files keep what
\* they are and whose.
LEMMA AsideKeeps ==
  ASSUME IInv, NEW p \in Procs, Moves(p), ~Trying(p), ~Trying(p)', Placed(p)', Read(p)', TypeOK',
         UNCHANGED <<hub, made, mishaps>>, net' \subseteq net,
         conf'.what = conf.what, conf'.of = conf.of,
         device'.what = device.what, device'.of = device.of,
         UNCHANGED <<conf, device>> \/ device.what = "joined",
         conf.what # "joined" => conf' = conf,
         kernel'.of \in {kernel.of, conf.of},
         Syncing(p)' => Syncing(p) \/ \A q \in Procs : ~Syncing(q),
         ~Reverts => Timed' /\ RecordedIsApplied'
  PROVE  IInv'
<1>1. /\ \A q \in Procs \ {p} : procs'[q] = procs[q]
      /\ UNCHANGED <<registered, version>> /\ Listed' = Listed
      /\ procs[p].pc \notin Before \cup Custodial \cup After
      /\ procs'[p].pc \notin Before \cup Custodial \cup After
  BY DEF Moves, Trying, hub, Listed
<1>2. Shape'
  <2>1. Plain(conf)' /\ Plain(device)'
    BY DEF IInv, Shape, Plain
  <2> QED
    BY <1>1, <2>1 DEF IInv, Shape, Placed
<1>3. Numbered'
  BY <1>1 DEF IInv, Numbered, Trying
<1>4. Locks'
  <2>1. ~Joining(p) /\ ~Joining(p)'
    BY <1>1 DEF Joining, Before, Custodial, After
  <2>2. \A q \in Procs \ {p} : Joining(q)' = Joining(q) /\ Syncing(q)' = Syncing(q)
    BY <1>1 DEF Joining, Syncing
  <2> QED
    BY <2>1, <2>2 DEF IInv, Locks
<1>5. ASSUME NEW q \in Procs PROVE Reserved(q)' /\ Read(q)'
  <2>1. CASE q = p
    BY <1>1, <2>1 DEF Reserved, Before, Custodial, After
  <2>2. CASE q # p
    <3>1. Reserved(q) /\ Read(q) /\ procs'[q] = procs[q]
      BY <1>1, <2>2, Known
    <3>2. Read(q)'
      BY <3>1 DEF Read, Reading
    <3>3. Reserved(q)'
      BY <3>1, FileTypes DEF Reserved
    <3> QED
      BY <3>2, <3>3
  <2> QED
    BY <2>1, <2>2
<1>6. PairMatches'
  BY DEF IInv, PairMatches
<1>7. NothingHalfJoined'
  <2>1. ASSUME NEW q \in Procs, procs[q].pc = "save_device" PROVE procs'[q] = procs[q]
    BY <1>1, <2>1 DEF Custodial
  <2> QED
    BY <2>1 DEF IInv, NothingHalfJoined, Mishaps
<1>8. Carried'
  <2>1. Carried
    BY DEF IInv
  <2>2. ASSUME NEW m \in net', m.kind = "join" PROVE Asked(m)'
    BY <1>1, <2>1, <2>2 DEF Carried, Asked, Mishaps, Custodial
  <2>3. \A m \in net' : Asked(m)'
    BY <2>2 DEF Asked
  <2>4. \A q \in Procs : Trying(q)' => Trying(q) /\ procs'[q] = procs[q]
    BY <1>1 DEF Trying
  <2>5. \A q \in Procs : procs'[q].pc \in Before => procs'[q] = procs[q]
    BY <1>1
  <2> QED
    BY <1>1, <2>1, <2>3, <2>4, <2>5 DEF Carried
<1>9. NoSilentOrphan'
  <2>1. ASSUME NEW q \in Procs, procs[q].pc \in Custodial PROVE procs'[q] = procs[q]
    BY <1>1, <2>1
  <2> QED
    BY <1>1, <2>1 DEF IInv, NoSilentOrphan, Custody, Custodial, Mishaps
<1> QED
  BY <1>2, <1>3, <1>4, <1>5, <1>6, <1>7, <1>8, <1>9 DEF IInv

\* A run of sync that leaves the files alone.
LEMMA LookKeeps ==
  ASSUME IInv, NEW p \in Procs, Moves(p), ~Trying(p), ~Trying(p)', Placed(p)', Read(p)', TypeOK',
         UNCHANGED <<hub, made, mishaps, conf, device, kernel>>, net' \subseteq net,
         Syncing(p)' => Syncing(p) \/ \A q \in Procs : ~Syncing(q),
         procs'[p].pc \notin {"syncconf", "record"},
         ~Reverts => procs'[p].version <= version,
         ~Reverts /\ Knowing(p)' => device.version <= procs'[p].version
  PROVE  IInv'
<1>1. UNCHANGED <<conf, device, kernel, version>> /\ \A q \in Procs \ {p} : procs'[q] = procs[q]
  BY DEF hub, Moves
<1>2. ASSUME ~Reverts PROVE Timed' /\ RecordedIsApplied'
  <2>1. Timed'
    BY <1>1, <1>2 DEF IInv, Timed, Knowing, Trying, Custodial
  <2> QED
    BY <1>1, <1>2, <2>1 DEF IInv, RecordedIsApplied
<1> QED
  BY <1>1, <1>2, AsideKeeps

\* A run of sync ends, or is killed, with the files alone.
LEMMA LeftKeeps ==
  ASSUME IInv, NEW p \in Procs, ~Trying(p), Return(p),
         UNCHANGED <<hub, files, made, mishaps>>, net' \subseteq net,
         budget' \in [faults: 0 .. MaxFaults, changes: 0 .. MaxChanges]
  PROVE  IInv'
<1>1. TypeOK /\ Moves(p) /\ procs'[p] = Idle
  BY Known, Returned
<1>2. ~Trying(p)' /\ ~Syncing(p)' /\ ~Knowing(p)' /\ Placed(p)' /\ Read(p)'
  BY <1>1, IdleFit DEF Trying, Syncing, Knowing, Placed, Read, Reading, Before, Custodial, After
<1>3. TypeOK' /\ UNCHANGED <<conf, device, kernel>>
  BY <1>1 DEF TypeOK, Moves, hub, files
<1>4. procs'[p].version <= version
  BY <1>1, IdleFit DEF TypeOK, Versions
<1> QED
  BY <1>1, <1>2, <1>3, <1>4, IdleFit, LookKeeps

LEMMA TypeSyncKeeps == ASSUME IInv, NEW p \in Procs, TypeSync(p) PROVE IInv'
<1>1. /\ procs[p].pc = "idle" /\ TypeOK /\ Placed(p) /\ procs[p] \in Proc /\ device.what = "joined"
      /\ device \in File /\ UNCHANGED <<hub, net, conf, device, out, kernel, made, budget, mishaps>>
  BY Known, Typed DEF TypeSync, files, TypeOK
<1> DEFINE r == [procs[p] EXCEPT !.pc = "sync_lock", !.local = device]
<1>2. procs' = [procs EXCEPT ![p] = r] /\ r \in Proc
  BY <1>1 DEF TypeSync, TypeOK, Proc, Pcs
<1>3. Moves(p) /\ procs'[p] = r
  BY <1>1, <1>2 DEF TypeOK, Moves
<1>4. /\ procs'[p].pc = "sync_lock" /\ procs'[p].local = device
      /\ ~procs'[p].export /\ procs'[p].version = 0
  BY <1>1, <1>3, IdleFit DEF Proc, Placed
<1>5. ~Trying(p) /\ ~Trying(p)' /\ ~Syncing(p)' /\ ~Knowing(p)' /\ Placed(p)'
  BY <1>1, <1>4 DEF Trying, Syncing, Knowing, Placed, Before, Custodial, After
<1>6. Read(p)'
  BY <1>1, <1>4 DEF Read
<1>7. TypeOK'
  BY <1>1, <1>3 DEF TypeOK, Moves, hub
<1>8. procs'[p].version <= version
  BY <1>1, <1>4 DEF TypeOK, Versions
<1> QED
  BY <1>1, <1>3, <1>4, <1>5, <1>6, <1>7, <1>8, LookKeeps

LEMMA SyncLockKeeps == ASSUME IInv, NEW p \in Procs, SyncLock(p) PROVE IInv'
<1>1. /\ procs[p].pc = "sync_lock" /\ TypeOK /\ Placed(p) /\ Read(p) /\ ~Trying(p)
      /\ UNCHANGED <<hub, net, files, made, budget, mishaps>>
  BY Known DEF SyncLock, Trying, Before, Custodial, After
<1>2. CASE Return(p)
  BY <1>1, <1>2, LeftKeeps DEF TypeOK
<1>3. CASE Goto(p, "ask") /\ \A q \in Procs : ~Syncing(q)
  <2>1. /\ Moves(p) /\ Same(p) /\ procs'[p].pc = "ask" /\ procs'[p].local = procs[p].local
        /\ procs'[p].version = procs[p].version
    BY <1>1, <1>3, Went DEF Pcs
  <2>2. ~Trying(p)' /\ ~Knowing(p)' /\ Placed(p)'
    BY <1>1, <2>1 DEF Trying, Knowing, Placed, Before, Custodial, After, Same
  <2>3. Read(p)'
    BY <1>1, <2>1 DEF Read, Reading, files
  <2>4. TypeOK'
    BY <1>1, <2>1 DEF TypeOK, Moves, hub, files
  <2>5. ~Reverts => procs'[p].version <= version
    BY <2>1, Known
  <2> QED
    BY <1>1, <1>3, <2>1, <2>2, <2>3, <2>4, <2>5, LookKeeps DEF files
<1> QED
  BY <1>2, <1>3 DEF SyncLock

LEMMA AskKeeps == ASSUME IInv, NEW p \in Procs, Ask(p) PROVE IInv'
<1>1. /\ procs[p].pc = "ask" /\ TypeOK /\ Placed(p) /\ Read(p) /\ ~Trying(p) /\ Syncing(p)
      /\ procs[p] \in Proc /\ version \in Versions
      /\ UNCHANGED <<hub, net, files, made, budget, mishaps>>
  BY Known, Typed DEF Ask, Trying, Syncing, Before, Custodial, After, TypeOK
<1>2. CASE Return(p)
  BY <1>1, <1>2, LeftKeeps DEF TypeOK
<1>3. CASE procs' = [procs EXCEPT ![p].pc = "write_conf", ![p].version = version]
  <2> DEFINE r == [procs[p] EXCEPT !.pc = "write_conf", !.version = version]
  <2>1. procs' = [procs EXCEPT ![p] = r] /\ r \in Proc
    BY <1>1, <1>3 DEF TypeOK, Proc, Pcs
  <2>2. Moves(p) /\ procs'[p] = r
    BY <1>1, <2>1 DEF TypeOK, Moves
  <2>3. /\ procs'[p].pc = "write_conf" /\ procs'[p].local = procs[p].local
        /\ procs'[p].version = version /\ procs'[p].export = procs[p].export
    BY <1>1, <2>2 DEF Proc
  <2>4. ~Trying(p)' /\ Placed(p)'
    BY <1>1, <2>3 DEF Trying, Placed, Before, Custodial, After
  <2>5. Read(p)'
    BY <1>1, <2>3 DEF Read, Reading, files
  <2>6. TypeOK'
    BY <1>1, <2>2 DEF TypeOK, Moves, hub, files
  <2>7. ~Reverts => device.version <= version /\ version <= version
    BY <1>1, DeviceAssumption DEF IInv, Timed, Versions
  <2> QED
    BY <1>1, <2>2, <2>3, <2>4, <2>5, <2>6, <2>7, LookKeeps DEF files
<1> QED
  BY <1>2, <1>3 DEF Ask

LEMMA SyncFailsKeeps == ASSUME IInv, NEW p \in Procs, SyncFails(p) PROVE IInv'
<1>1. TypeOK /\ ~Trying(p) /\ budget' \in [faults: 0 .. MaxFaults, changes: 0 .. MaxChanges]
  BY Known, Spent DEF SyncFails, Syncing, Trying, Before, Custodial, After
<1> QED
  BY <1>1, LeftKeeps DEF SyncFails

LEMMA KillKeeps == ASSUME IInv, NEW p \in Procs, Kill(p) PROVE IInv'
<1>1. CASE Trying(p)
  BY <1>1, KillTryingKeeps
<1>2. CASE ~Trying(p)
  <2>1. TypeOK /\ budget' \in [faults: 0 .. MaxFaults, changes: 0 .. MaxChanges]
    BY Known, Spent DEF Kill
  <2>2. UNCHANGED mishaps /\ net' \subseteq net
    BY <1>2 DEF Kill, Trying, Custodial
  <2> QED
    BY <1>2, <2>1, <2>2, LeftKeeps DEF Kill
<1> QED
  BY <1>1, <1>2

LEMMA WriteConfKeeps == ASSUME IInv, NEW p \in Procs, WriteConf(p) PROVE IInv'
<1>1. /\ procs[p].pc = "write_conf" /\ TypeOK /\ Placed(p) /\ Read(p) /\ ~Trying(p) /\ Syncing(p)
      /\ Reading(p) /\ procs[p] \in Proc /\ procs[p].version \in Versions /\ conf \in File
      /\ UNCHANGED <<hub, net, device, out, kernel, made, budget, mishaps>>
  BY Known, Typed DEF WriteConf, Trying, Syncing, Reading, Before, Custodial, After, TypeOK
<1>2. CASE UNCHANGED conf /\ Return(p)
  BY <1>1, <1>2, LeftKeeps DEF TypeOK, files
<1>3. CASE /\ conf.what = "joined"
           /\ conf' = [conf EXCEPT !.version = procs[p].version]
           /\ procs' = [procs EXCEPT ![p].pc = "syncconf", ![p].of = conf.of]
  <2> DEFINE r == [procs[p] EXCEPT !.pc = "syncconf", !.of = conf.of]
  <2>1. /\ conf' \in File /\ conf'.what = "joined" /\ conf'.of = conf.of
        /\ conf'.version = procs[p].version /\ conf.of \in 0 .. MaxAttempts
    BY <1>1, <1>3 DEF File
  <2>2. procs' = [procs EXCEPT ![p] = r] /\ r \in Proc
    BY <1>1, <1>3, <2>1 DEF TypeOK, Proc, Pcs
  <2>3. Moves(p) /\ procs'[p] = r
    BY <1>1, <2>2 DEF TypeOK, Moves
  <2>4. /\ procs'[p].pc = "syncconf" /\ procs'[p].local = procs[p].local /\ procs'[p].of = conf.of
        /\ procs'[p].version = procs[p].version /\ procs'[p].export = procs[p].export
    BY <1>1, <2>3 DEF Proc
  <2>5. ~Trying(p)' /\ Placed(p)'
    BY <1>1, <2>4 DEF Trying, Placed, Before, Custodial, After
  <2>6. Read(p)'
    BY <1>1, <2>1, <2>4 DEF Read
  <2>7. TypeOK'
    BY <1>1, <2>1, <2>3 DEF TypeOK, Moves, hub
  <2>8. ASSUME ~Reverts PROVE Timed' /\ RecordedIsApplied'
    <3>1. /\ Timed /\ RecordedIsApplied /\ version' = version
          /\ \A q \in Procs \ {p} : procs'[q] = procs[q]
      BY <1>1, <2>3, <2>8 DEF IInv, Moves, hub
    <3>2. device.version <= procs[p].version
      BY <1>1, <3>1 DEF Timed, Knowing
    <3>3. \A q \in Procs \ {p} : procs[q].pc \notin {"syncconf", "record", "write_conf", "ask"}
      BY <1>1 DEF IInv, Locks, Syncing
    <3>4. RecordedIsApplied'
      BY <1>1, <2>1, <3>1, <3>2 DEF RecordedIsApplied
    <3>5. procs[p].version <= conf'.version
      BY <1>1, <2>1, DeviceAssumption DEF Versions
    <3>6. ASSUME NEW q \in Procs
          PROVE  /\ procs'[q].version <= version
                 /\ Knowing(q)' => device.version <= procs'[q].version
                 /\ procs'[q].pc \in {"syncconf", "record"} => procs'[q].version <= conf'.version
                 /\ procs'[q].pc # "record"
                 /\ Trying(q)' /\ (procs'[q].export
                                   \/ procs'[q].pc \in Before \cup {"sent", "save_conf"}) =>
                      conf.of # procs'[q].of /\ kernel.of # procs'[q].of
                 /\ procs'[q].pc = "save_device" /\ kernel.of = procs'[q].of =>
                      kernel.version = procs'[q].version
      <4>1. CASE q = p
        BY <2>4, <2>5, <3>1, <3>2, <3>5, <4>1 DEF Timed
      <4>2. CASE q # p
        BY <3>1, <3>3, <4>2 DEF Timed, Knowing, Trying
      <4> QED
        BY <4>1, <4>2
    <3>7. Timed'
      BY <1>1, <2>1, <3>1, <3>6 DEF Timed
    <3> QED
      BY <3>4, <3>7
  <2>9. Syncing(p)' => Syncing(p)
    BY <1>1
  <2> QED
    BY <1>1, <1>3, <2>1, <2>3, <2>5, <2>6, <2>7, <2>8, <2>9, AsideKeeps DEF Read
<1> QED
  BY <1>2, <1>3 DEF WriteConf

LEMMA SyncConfKeeps == ASSUME IInv, NEW p \in Procs, SyncConf(p) PROVE IInv'
<1>1. /\ procs[p].pc = "syncconf" /\ TypeOK /\ Placed(p) /\ Read(p) /\ ~Trying(p) /\ Syncing(p)
      /\ procs[p].version \in Versions /\ conf \in File
      /\ conf.of = procs[p].of /\ conf.what = "joined"
      /\ UNCHANGED <<hub, net, conf, device, out, made, budget, mishaps>>
  BY Known, Typed DEF SyncConf, Trying, Syncing, Read, Before, Custodial, After, TypeOK
<1>2. CASE UNCHANGED kernel /\ Return(p)
  BY <1>1, <1>2, LeftKeeps DEF TypeOK, files
<1>3. CASE kernel' = Saved(procs[p].of, procs[p].version) /\ Goto(p, "record")
  <2>1. conf.of \in Attempts
    BY <1>1, DeviceAssumption DEF IInv, Shape, Plain, File, Attempts
  <2>2. /\ kernel' \in File /\ kernel'.what = "joined" /\ kernel'.of = conf.of
        /\ kernel'.version = procs[p].version
    BY <1>1, <1>3, <2>1, FileTypes
  <2>3. /\ Moves(p) /\ Same(p) /\ procs'[p].pc = "record" /\ procs'[p].local = procs[p].local
        /\ procs'[p].version = procs[p].version
    BY <1>1, <1>3, Went DEF Pcs
  <2>4. ~Trying(p)' /\ Placed(p)' /\ Read(p)'
    BY <1>1, <2>3 DEF Trying, Placed, Read, Reading, Before, Custodial, After, Same
  <2>5. TypeOK'
    BY <1>1, <2>2, <2>3 DEF TypeOK, Moves, hub
  <2>6. ASSUME ~Reverts PROVE Timed' /\ RecordedIsApplied'
    <3>1. /\ Timed /\ RecordedIsApplied /\ version' = version
          /\ \A q \in Procs \ {p} : procs'[q] = procs[q]
      BY <1>1, <2>3, <2>6 DEF IInv, Moves, hub
    <3>2. device.version <= procs[p].version
      BY <1>1, <3>1 DEF Timed, Knowing
    <3>3. \A q \in Procs \ {p} : procs[q].pc # "record"
      BY <1>1 DEF IInv, Locks, Syncing
    <3>4. RecordedIsApplied'
      BY <1>1, <2>2, <3>1, <3>2 DEF RecordedIsApplied
    <3>5. \A q \in Procs : procs[q].pc = "save_device" => device.what # "joined"
      BY FileTypes, Known DEF Reserved, Placed
    <3>6. device.what = "joined"
      BY <1>1 DEF Read, Reading
    <3>7. procs[p].version <= procs[p].version
      BY <1>1, DeviceAssumption DEF Versions
    <3>8. ASSUME NEW q \in Procs
          PROVE  /\ procs'[q].version <= version
                 /\ Knowing(q)' => device.version <= procs'[q].version
                 /\ procs'[q].pc \in {"syncconf", "record"} => procs'[q].version <= conf.version
                 /\ procs'[q].pc = "record" => procs'[q].version <= kernel'.version
                 /\ Trying(q)' /\ (procs'[q].export
                                   \/ procs'[q].pc \in Before \cup {"sent", "save_conf"}) =>
                      conf.of # procs'[q].of /\ kernel'.of # procs'[q].of
                 /\ procs'[q].pc # "save_device"
      <4>1. CASE q = p
        BY <1>1, <2>2, <2>3, <2>4, <3>1, <3>2, <3>7, <4>1 DEF Timed
      <4>2. CASE q # p
        BY <2>2, <3>1, <3>3, <3>5, <3>6, <4>2 DEF Timed, Knowing, Trying
      <4> QED
        BY <4>1, <4>2
    <3>9. Timed'
      BY <1>1, <3>1, <3>8 DEF Timed
    <3> QED
      BY <3>4, <3>9
  <2>7. (Syncing(p)' => Syncing(p)) /\ UNCHANGED <<conf, device>> /\ net' \subseteq net
    BY <1>1
  <2> QED
    BY <1>1, <2>2, <2>3, <2>4, <2>5, <2>6, <2>7, AsideKeeps
<1> QED
  BY <1>2, <1>3 DEF SyncConf

LEMMA RecordKeeps == ASSUME IInv, NEW p \in Procs, Record(p) PROVE IInv'
<1>1. /\ procs[p].pc = "record" /\ TypeOK /\ Read(p) /\ ~Trying(p) /\ Syncing(p) /\ Reading(p)
      /\ procs[p].version \in Versions /\ procs[p].local \in File
      /\ UNCHANGED <<hub, net, conf, out, kernel, made, budget, mishaps>>
  BY Known, Typed DEF Record, Trying, Syncing, Reading, Before, Custodial, After
<1>2. /\ device.what = "joined" /\ procs[p].local.what = "joined" /\ procs[p].local.of = device.of
      /\ device # Absent
  BY <1>1, FileTypes DEF Read
<1>3. device' = [procs[p].local EXCEPT !.version = procs[p].version]
  BY <1>2 DEF Record
<1>4. /\ device' \in File /\ device'.what = "joined" /\ device'.of = device.of
      /\ device'.version = procs[p].version
  BY <1>1, <1>2, <1>3 DEF File
<1>5. Moves(p) /\ procs'[p] = Idle
  BY <1>1, Returned DEF Record
<1>6. ~Trying(p)' /\ Placed(p)' /\ Read(p)' /\ ~Syncing(p)'
  BY <1>5, IdleFit DEF Trying, Placed, Read, Reading, Syncing, Before, Custodial, After
<1>7. TypeOK'
  BY <1>1, <1>4, <1>5 DEF TypeOK, Moves, hub
<1>8. ASSUME ~Reverts PROVE Timed' /\ RecordedIsApplied'
  <2>1. Timed /\ RecordedIsApplied /\ version' = version /\ \A q \in Procs \ {p} : procs'[q] = procs[q]
    BY <1>1, <1>5, <1>8 DEF IInv, Moves, hub
  <2>2. \A q \in Procs \ {p} : procs[q].pc \notin {"write_conf", "syncconf", "record"}
    BY <1>1 DEF IInv, Locks, Syncing
  <2>3. RecordedIsApplied'
    BY <1>1, <1>2, <1>4, <2>1 DEF RecordedIsApplied, Timed
  <2>4. Idle.version <= version
    BY <1>1, IdleFit DEF TypeOK, Versions
  <2>5. ASSUME NEW q \in Procs
        PROVE  /\ procs'[q].version <= version /\ ~Knowing(q)'
               /\ Trying(q)' /\ (procs'[q].export
                                 \/ procs'[q].pc \in Before \cup {"sent", "save_conf"}) =>
                    conf.of # procs'[q].of /\ kernel.of # procs'[q].of
               /\ procs'[q].pc = "save_device" /\ kernel.of = procs'[q].of =>
                    kernel.version = procs'[q].version
    <3>1. CASE q = p
      BY <1>5, <1>6, <2>4, <3>1, IdleFit DEF Knowing
    <3>2. CASE q # p
      BY <2>1, <2>2, <3>2 DEF Timed, Knowing, Trying
    <3> QED
      BY <3>1, <3>2
  <2>6. device'.version <= version
    BY <1>1, <1>4, <2>1 DEF Timed
  <2>7. Timed'
    BY <1>1, <2>1, <2>5, <2>6 DEF Timed, Knowing
  <2> QED
    BY <2>3, <2>7
<1> QED
  BY <1>1, <1>2, <1>4, <1>5, <1>6, <1>7, <1>8, AsideKeeps

-----------------------------------------------------------------------------
(* Commands typed.                                                         *)

\* A new attempt has a number nobody has seen.
LEMMA StartKeeps ==
  ASSUME IInv, NEW p \in Procs, NEW r \in Proc, procs[p].pc = "idle", procs' = [procs EXCEPT ![p] = r],
         made < MaxAttempts, made' = made + 1, r.of = made + 1, r.version = 0, r.local = Absent,
         \/ r.pc = "check" /\ ~r.export /\ ~r.claimed /\ \A q \in Procs : ~Joining(q)
         \/ r.pc = "send" /\ r.export,
         UNCHANGED <<hub, net, conf, device, kernel, budget, mishaps>>, out' \in File
  PROVE  IInv'
<1>1. /\ Moves(p) /\ procs'[p] = r /\ \A q \in Procs \ {p} : procs'[q] = procs[q]
      /\ UNCHANGED <<registered, version>> /\ Listed' = Listed
      /\ TypeOK /\ made \in Nat
  BY Known, DeviceAssumption DEF TypeOK, Moves, hub, Listed
<1>2. /\ Trying(p)' /\ ~Trying(p) /\ ~Reading(p)' /\ ~Syncing(p)' /\ Placed(p)'
      /\ r.pc \in Before /\ r.pc \notin Custodial
  BY <1>1 DEF Trying, Reading, Syncing, Placed, Before, Custodial, After
<1>3. TypeOK'
  BY <1>1, DeviceAssumption DEF TypeOK, Moves, hub
<1>4. Shape'
  BY <1>1, <1>2, <1>3 DEF IInv, Shape, Placed, Plain
<1>5. Numbered'
  <2>1. \A q \in Procs \ {p} : Trying(q)' => Trying(q) /\ procs'[q].of \in 1 .. made
    BY <1>1 DEF IInv, Numbered, Trying
  <2>2. \A q \in Procs : Trying(q)' => procs'[q].of \in 1 .. made'
    BY <1>1, <2>1
  <2>3. ASSUME NEW q \in Procs, NEW s \in Procs, Trying(q)', Trying(s)', procs'[q].of = procs'[s].of
        PROVE  q = s
    <3>1. CASE q = p \/ s = p
      BY <1>1, <2>1, <2>3, <3>1
    <3>2. CASE q # p /\ s # p
      BY <1>1, <2>1, <2>3, <3>2 DEF IInv, Numbered
    <3> QED
      BY <3>1, <3>2
  <2>4. /\ \A m \in net' : m.of <= made'
        /\ \A k \in registered' : k.of <= made'
        /\ conf'.of <= made' /\ kernel'.of <= made'
    <3>1. /\ \A m \in net : m.of \in Int
          /\ \A k \in registered : k.of \in Int
          /\ conf.of \in Int /\ kernel.of \in Int
      BY <1>1, DeviceAssumption DEF TypeOK, Messages, File, Attempts
    <3> QED
      BY <1>1, <3>1 DEF IInv, Numbered
  <2> QED
    BY <2>2, <2>3, <2>4 DEF Numbered
<1>6. Locks'
  <2>1. \A q \in Procs \ {p} : Joining(q)' = Joining(q) /\ Syncing(q)' = Syncing(q)
    BY <1>1 DEF Joining, Syncing
  <2>2. Joining(p)' => \A q \in Procs : ~Joining(q)
    BY <1>1 DEF Joining
  <2> QED
    BY <1>2, <2>1, <2>2 DEF IInv, Locks
<1>7. ASSUME NEW q \in Procs PROVE Reserved(q)' /\ Read(q)'
  <2>1. CASE q = p
    BY <1>1, <1>2, <2>1 DEF Reserved, Read
  <2>2. CASE q # p
    BY <1>1, <2>2 DEF IInv, Reserved, Read, Reading
  <2> QED
    BY <2>1, <2>2
<1>8. PairMatches'
  BY DEF IInv, PairMatches
<1>9. NothingHalfJoined'
  <2>1. \A q \in Procs : procs[q].pc = "save_device" => procs'[q] = procs[q]
    BY <1>1
  <2> SUFFICES ASSUME NEW f \in {conf, device}, f.what = "joined", conf.of # device.of
               PROVE  \/ \E q \in Procs : procs'[q].pc = "save_device" /\ procs'[q].of = f.of
                      \/ Mishaps(f.of) \cap {"cut", "cleared"} # {}
    BY DEF NothingHalfJoined, Mishaps
  <2>2. \/ \E q \in Procs : procs[q].pc = "save_device" /\ procs[q].of = f.of
        \/ Mishaps(f.of) \cap {"cut", "cleared"} # {}
    BY DEF IInv, NothingHalfJoined
  <2> QED
    BY <2>1, <2>2
<1>10. Carried'
  <2>1. Carried /\ \A m \in net : m.of # r.of
    BY <1>1, DeviceAssumption DEF IInv, Numbered, TypeOK, Messages, Attempts
  <2>2. \A k \in registered : k.of # r.of
    BY <1>1, DeviceAssumption DEF IInv, Numbered, TypeOK, Attempts
  <2>3. ASSUME NEW m \in net', m.kind = "join" PROVE Asked(m)'
    BY <1>1, <1>2, <2>1, <2>3 DEF Carried, Asked, Mishaps
  <2>4. \A m \in net' : Asked(m)'
    BY <2>3 DEF Asked
  <2>5. \A q \in Procs \ {p} : Trying(q)' => Trying(q)
    BY <1>1 DEF Trying
  <2>6. r.of \notin Listed'
    BY <1>1, <2>2 DEF Listed
  <2> QED
    BY <1>1, <2>1, <2>2, <2>4, <2>5, <2>6 DEF Carried
<1>11. NoSilentOrphan'
  <2>1. ASSUME NEW q \in Procs, procs[q].pc \in Custodial PROVE procs'[q] = procs[q]
    BY <1>1, <2>1 DEF Custodial
  <2> QED
    BY <1>1, <2>1 DEF IInv, NoSilentOrphan, Custody, Custodial, Mishaps
<1>12. ASSUME ~Reverts PROVE Timed' /\ RecordedIsApplied'
  <2>1. /\ Timed /\ version \in Nat /\ conf.of <= made /\ kernel.of <= made
        /\ conf.of \in Int /\ kernel.of \in Int
    BY <1>1, <1>12, DeviceAssumption DEF IInv, Numbered, TypeOK, Versions, File
  <2>2. conf.of # r.of /\ kernel.of # r.of /\ 0 <= version /\ ~Knowing(p)'
    BY <1>1, <1>2, <2>1 DEF Knowing, Reading
  <2>3. Timed'
    BY <1>1, <2>1, <2>2 DEF Timed, Knowing, Trying
  <2> QED
    BY <1>1, <1>12, <2>3 DEF IInv, RecordedIsApplied
<1> QED
  BY <1>4, <1>5, <1>6, <1>7, <1>8, <1>9, <1>10, <1>11, <1>12 DEF IInv

LEMMA TypeJoinKeeps ==
  ASSUME IInv, NEW p \in Procs, NEW n \in Names, NEW c \in Codes, TypeJoin(p, n, c) PROVE IInv'
<1> DEFINE r == [Idle EXCEPT !.pc = "check", !.of = made + 1, !.name = n, !.code = c]
<1>1. TypeOK /\ made < MaxAttempts /\ made \in 0 .. MaxAttempts
  BY Known DEF TypeJoin, TypeOK
<1>2. /\ r \in Proc /\ r.pc = "check" /\ r.of = made + 1 /\ ~r.export /\ ~r.claimed /\ r.version = 0
      /\ r.local = Absent
  <2>1. made + 1 \in 0 .. MaxAttempts
    BY <1>1, DeviceAssumption
  <2>2. "check" \in Pcs /\ "send" \in Pcs
    BY DEF Pcs
  <2> QED
    BY <2>1, <2>2, IdleFit DEF Proc
<1>3. procs' = [procs EXCEPT ![p] = r]
  BY DEF TypeJoin
<1>4. out' \in File
  BY <1>1 DEF TypeJoin, files, TypeOK
<1> HIDE DEF r
<1>5. PICK s \in Proc : s = r
  BY <1>2
<1> QED
  BY <1>2, <1>3, <1>4, <1>5, StartKeeps DEF TypeJoin, files

LEMMA TypeExportKeeps ==
  ASSUME IInv, NEW p \in Procs, NEW n \in Names, NEW c \in Codes, NEW to_file \in BOOLEAN,
         TypeExport(p, n, c, to_file)
  PROVE  IInv'
<1> DEFINE r == [Idle EXCEPT !.pc = "send", !.export = TRUE, !.of = made + 1,
                             !.name = n, !.code = c, !.claimed = to_file]
<1>1. TypeOK /\ made < MaxAttempts /\ made \in 0 .. MaxAttempts
  BY Known DEF TypeExport, TypeOK
<1>2. /\ r \in Proc /\ r.pc = "send" /\ r.of = made + 1 /\ r.export /\ r.version = 0
      /\ r.local = Absent
  <2>1. made + 1 \in 0 .. MaxAttempts
    BY <1>1, DeviceAssumption
  <2>2. "check" \in Pcs /\ "send" \in Pcs
    BY DEF Pcs
  <2> QED
    BY <2>1, <2>2, IdleFit DEF Proc
<1>3. procs' = [procs EXCEPT ![p] = r]
  BY DEF TypeExport
<1>4. out' \in File
  BY <1>1, FileTypes, DeviceAssumption DEF TypeExport, TypeOK, File
<1> HIDE DEF r
<1>5. PICK s \in Proc : s = r
  BY <1>2
<1> QED
  BY <1>2, <1>3, <1>4, <1>5, StartKeeps DEF TypeExport

-----------------------------------------------------------------------------
(* The hub and the network.                                                *)

\* What stays when only the hub and the network move.
LEMMA HubKeeps ==
  ASSUME IInv, UNCHANGED <<files, procs, made, mishaps>>, TypeOK', Carried', NoSilentOrphan',
         \A r \in registered' : r \in registered \/ \E m \in net : m.of = r.of,
         \A n \in net' : \E m \in net : n.of = m.of /\ n.version \in {m.version, version'},
         ~Reverts => version <= version'
  PROVE  IInv'
<1>1. UNCHANGED <<conf, device, kernel>>
  BY DEF files
<1>2. Shape'
  BY <1>1 DEF IInv, Shape, Placed, Plain
<1>3. Numbered'
  BY <1>1 DEF IInv, Numbered, Trying
<1>4. Locks' /\ \A p \in Procs : Reserved(p)' /\ Read(p)'
  BY <1>1 DEF IInv, Locks, Joining, Syncing, Reserved, Read, Reading
<1>5. PairMatches' /\ NothingHalfJoined'
  BY <1>1 DEF IInv, PairMatches, NothingHalfJoined, Mishaps
<1>6. ASSUME ~Reverts PROVE Timed' /\ RecordedIsApplied'
  <2>1. /\ version \in Int /\ version' \in Int /\ device.version \in Int
        /\ \A p \in Procs : procs[p].version \in Int
        /\ \A m \in net : m.version \in Int
    BY DeviceAssumption, Typed DEF IInv, Shape, TypeOK, File, Messages, Versions
  <2>2. Timed
    BY <1>6 DEF IInv
  <2>3. \A n \in net' : n.version <= version'
    BY <1>6, <2>1, <2>2 DEF Timed
  <2>4. device.version <= version' /\ \A p \in Procs : procs[p].version <= version'
    BY <1>6, <2>1, <2>2 DEF Timed
  <2>5. Timed'
    BY <1>1, <2>2, <2>3, <2>4 DEF Timed, Knowing, Trying
  <2> QED
    BY <1>1, <1>6, <2>5 DEF IInv, RecordedIsApplied
<1> QED
  BY <1>2, <1>3, <1>4, <1>5, <1>6 DEF IInv

LEMMA Answered ==
  ASSUME TypeOK, NEW m \in net, NEW kind \in {"accepted", "refused", "deleted", "denied"},
         Answer(m, kind)
  PROVE  /\ net' \subseteq Messages
         /\ \A n \in net' : \/ n \in net \ {m}
                            \/ n.kind = kind /\ n.of = m.of /\ n.name = m.name /\ n.version = version
<1> DEFINE k == [m EXCEPT !.kind = kind, !.version = version]
<1>1. m \in Messages /\ version \in Versions
  BY DEF TypeOK
<1>2. k \in Messages /\ k.kind = kind /\ k.of = m.of /\ k.name = m.name /\ k.version = version
  BY <1>1 DEF Messages
<1>3. net' \subseteq (net \ {m}) \cup {k}
  BY DEF Answer
<1> HIDE DEF k
<1> QED
  BY <1>2, <1>3 DEF TypeOK

\* An answer that changes nothing of what the hub lists, or takes the device out.
LEMMA AnswerKeeps ==
  ASSUME IInv, NEW m \in net, NEW kind \in {"refused", "deleted", "denied"}, Answer(m, kind),
         UNCHANGED <<unspent, version, files, procs, made, budget, mishaps>>,
         registered' \subseteq registered, kind \in {"refused", "deleted"} => m.of \notin Listed',
         m.kind = "join" \/ m.kind = "delete"
  PROVE  IInv'
<1>1. /\ net' \subseteq Messages
      /\ \A n \in net' : \/ n \in net \ {m}
                         \/ n.kind = kind /\ n.of = m.of /\ n.name = m.name /\ n.version = version
  BY Answered DEF IInv, Shape
<1>2. TypeOK'
  BY <1>1 DEF IInv, Shape, TypeOK, files
<1>3. Listed' \subseteq Listed /\ Carried
  BY DEF Listed, IInv
<1>4. Carried'
  <2>1. ASSUME NEW n \in net', n.kind = "join" PROVE Asked(n)'
    <3>1. n \in net \ {m} /\ Asked(n)
      BY <1>1, <1>3, <2>1 DEF Carried
    <3>2. n.of # m.of
      BY <2>1, <3>1 DEF Asked
    <3> QED
      BY <1>1, <1>3, <2>1, <3>1, <3>2 DEF Asked, Mishaps
  <2>2. \A n \in net' : Asked(n)'
    BY <2>1 DEF Asked
  <2>3. \A n \in net' : n.kind \in {"refused", "deleted"} => n.of \notin Listed'
    BY <1>1, <1>3 DEF Carried
  <2>4. \A n \in net' : \E k \in net : n.of = k.of /\ n.name = k.name
    BY <1>1
  <2>5. \A n \in net', r \in registered' : n.of = r.of => n.name = r.name
    BY <1>3, <2>4 DEF Carried
  <2>6. \A p \in Procs : Trying(p) =>
          /\ \A n \in net' : n.of = procs[p].of => n.name = procs[p].name
          /\ \A r \in registered' : r.of = procs[p].of => r.name = procs[p].name
    BY <1>3, <2>4 DEF Carried
  <2>7. \A p \in Procs : procs[p].pc \in Before =>
          procs[p].of \notin Listed' /\ \A n \in net' : n.of # procs[p].of
    BY <1>3, <2>4 DEF Carried
  <2> QED
    BY <2>2, <2>3, <2>5, <2>6, <2>7 DEF Carried, Trying
<1>5. NoSilentOrphan'
  BY <1>3 DEF IInv, NoSilentOrphan, Custody, Mishaps, files
<1>6. ~Reverts => version <= version'
  BY DeviceAssumption DEF IInv, Shape, TypeOK, Versions
<1>7. \A n \in net' : \E k \in net : n.of = k.of /\ n.version \in {k.version, version'}
  BY <1>1
<1>8. \A r \in registered' : r \in registered
  OBVIOUS
<1> QED
  BY <1>2, <1>4, <1>5, <1>6, <1>7, <1>8, HubKeeps

LEMMA HubJoinsKeeps == ASSUME IInv, NEW m \in net, HubJoins(m) PROVE IInv'
<1>1. /\ m.kind = "join" /\ Asked(m) /\ Carried
      /\ UNCHANGED <<version, files, procs, made, budget, mishaps>>
  BY DEF HubJoins, IInv, Carried
<1>2. CASE UNCHANGED <<unspent, registered>> /\ Answer(m, "refused")
  <2>1. m.of \notin Listed'
    BY <1>1, <1>2 DEF Asked, Listed
  <2> QED
    BY <1>1, <1>2, <2>1, AnswerKeeps
<1>3. CASE /\ unspent' = unspent \ {m.code}
           /\ registered' = registered \cup {[of |-> m.of, name |-> m.name]}
           /\ Answer(m, "accepted")
  <2>1. /\ net' \subseteq Messages
        /\ \A n \in net' : \/ n \in net \ {m}
                           \/ /\ n.kind = "accepted" /\ n.of = m.of /\ n.name = m.name
                              /\ n.version = version
    BY <1>3, Answered DEF IInv, Shape
  <2>2. m.of \in Attempts /\ m.name \in Names
    BY DEF IInv, Shape, TypeOK, Messages
  <2>3. TypeOK'
    BY <1>1, <1>3, <2>1, <2>2 DEF IInv, Shape, TypeOK, files
  <2>4. \A r \in registered' : r \in registered \/ (r.of = m.of /\ r.name = m.name)
    BY <1>3
  <2>5. Listed' \subseteq Listed \cup {m.of}
    BY <2>4 DEF Listed
  <2>6. (\A r \in registered : r.of # m.of) /\ \A n \in net : n.of = m.of => n = m
    BY <1>1 DEF Asked, Listed
  <2>7. Carried'
    <3>1. ASSUME NEW n \in net', n.kind = "join" PROVE Asked(n)'
      <4>1. n \in net \ {m} /\ Asked(n) /\ n.of # m.of
        BY <1>1, <2>1, <2>6, <3>1 DEF Carried
      <4> QED
        BY <1>1, <2>1, <2>5, <3>1, <4>1 DEF Asked, Mishaps
    <3>2. \A n \in net' : Asked(n)'
      BY <3>1 DEF Asked
    <3>3. \A n \in net' : n.kind \in {"refused", "deleted"} => n.of \notin Listed'
      BY <1>1, <2>1, <2>5, <2>6 DEF Carried
    <3>4. \A n \in net', r \in registered' : n.of = r.of => n.name = r.name
      BY <1>1, <2>1, <2>4, <2>6 DEF Carried
    <3>5. \A n \in net' : \E k \in net : n.of = k.of /\ n.name = k.name
      BY <2>1
    <3>6. \A p \in Procs : Trying(p) =>
            /\ \A n \in net' : n.of = procs[p].of => n.name = procs[p].name
            /\ \A r \in registered' : r.of = procs[p].of => r.name = procs[p].name
      BY <1>1, <2>4, <3>5 DEF Carried
    <3>7. \A p \in Procs : procs[p].pc \in Before =>
            procs[p].of \notin Listed' /\ \A n \in net' : n.of # procs[p].of
      BY <1>1, <2>5, <3>5 DEF Carried
    <3> QED
      BY <1>1, <3>2, <3>3, <3>4, <3>6, <3>7 DEF Carried, Trying
  <2>8. NoSilentOrphan'
    <3>1. Custody(m.of) \/ Mishaps(m.of) # {}
      BY <1>1 DEF Asked, Custody
    <3>2. ASSUME NEW a \in Listed'
          PROVE  (conf.of = a /\ device.of = a) \/ Custody(a) \/ Mishaps(a) # {}
      BY <2>5, <3>1 DEF IInv, NoSilentOrphan
    <3> QED
      BY <1>1, <3>2 DEF NoSilentOrphan, Custody, Mishaps, files
  <2>9. ~Reverts => version <= version'
    BY <1>1, DeviceAssumption DEF IInv, Shape, TypeOK, Versions
  <2>10. \A n \in net' : \E k \in net : n.of = k.of /\ n.version \in {k.version, version'}
    BY <1>1, <2>1
  <2>11. \A r \in registered' : r \in registered \/ \E k \in net : k.of = r.of
    BY <2>4
  <2> QED
    BY <1>1, <2>3, <2>7, <2>8, <2>9, <2>10, <2>11, HubKeeps
<1> QED
  BY <1>2, <1>3 DEF HubJoins

LEMMA HubRemovesKeeps == ASSUME IInv, NEW m \in net, HubRemoves(m) PROVE IInv'
<1>1. /\ m.kind = "delete" /\ Carried
      /\ UNCHANGED <<unspent, version, files, procs, made, budget, mishaps>>
  BY DEF HubRemoves, IInv
<1>2. CASE registered' = {r \in registered : r.name # m.name} /\ Answer(m, "deleted")
  <2>1. registered' \subseteq registered /\ m.of \notin Listed'
    BY <1>1, <1>2 DEF Carried, Listed
  <2> QED
    BY <1>1, <1>2, <2>1, AnswerKeeps
<1>3. CASE UNCHANGED registered /\ Answer(m, "denied")
  BY <1>1, <1>3, AnswerKeeps
<1> QED
  BY <1>2, <1>3 DEF HubRemoves

\* Less on the network, less on the hub, later settings.
LEMMA LessKeeps ==
  ASSUME IInv, net' \subseteq net, registered' \subseteq registered,
         UNCHANGED <<unspent, files, procs, made, mishaps>>, version' \in Versions,
         ~Reverts => version <= version',
         budget' \in [faults: 0 .. MaxFaults, changes: 0 .. MaxChanges]
  PROVE  IInv'
<1>1. TypeOK'
  BY DEF IInv, Shape, TypeOK, files
<1>2. Listed' \subseteq Listed /\ Carried
  BY DEF Listed, IInv
<1>3. Carried'
  <2>1. ASSUME NEW n \in net', n.kind = "join" PROVE Asked(n)'
    BY <1>2, <2>1 DEF Carried, Asked, Mishaps
  <2>2. \A n \in net' : Asked(n)'
    BY <2>1 DEF Asked
  <2> QED
    BY <1>2, <2>2 DEF Carried, Trying
<1>4. NoSilentOrphan'
  BY <1>2 DEF IInv, NoSilentOrphan, Custody, Mishaps, files
<1> QED
  BY <1>1, <1>3, <1>4, HubKeeps

LEMMA LoseKeeps == ASSUME IInv, NEW m \in net, Lose(m) PROVE IInv'
<1>1. TypeOK /\ budget' \in [faults: 0 .. MaxFaults, changes: 0 .. MaxChanges]
  BY Spent DEF Lose, IInv, Shape
<1>2. version' \in Versions /\ version <= version'
  BY <1>1, DeviceAssumption DEF Lose, hub, TypeOK, Versions
<1> QED
  BY <1>1, <1>2, LessKeeps DEF Lose, hub

LEMMA RemoveKeeps == ASSUME IInv, NEW n \in Names, Remove(n) PROVE IInv'
<1>1. TypeOK /\ budget' \in [faults: 0 .. MaxFaults, changes: 0 .. MaxChanges]
  BY Spent DEF Remove, IInv, Shape
<1>2. version' \in Versions /\ version <= version'
  BY <1>1, DeviceAssumption DEF Remove, TypeOK, Versions
<1> QED
  BY <1>1, <1>2, LessKeeps DEF Remove

LEMMA MoveKeeps == ASSUME IInv, Move PROVE IInv'
<1>1. TypeOK /\ budget' \in [faults: 0 .. MaxFaults, changes: 0 .. MaxChanges]
  BY Spent DEF Move, IInv, Shape
<1>2. version' \in Versions /\ (~Reverts => version <= version')
  BY <1>1, DeviceAssumption DEF Move, TypeOK, Versions
<1> QED
  BY <1>1, <1>2, LessKeeps DEF Move

-----------------------------------------------------------------------------
(* Everybody else.                                                         *)

\* The interface, or the file --out names.
LEMMA InterfaceKeeps ==
  ASSUME IInv, UNCHANGED <<hub, net, conf, device, procs, made, mishaps>>, TypeOK',
         kernel' \in {kernel, Absent} \/ (kernel' = conf /\ conf.what = "joined")
  PROVE  IInv'
<1>1. UNCHANGED <<registered, version>> /\ Listed' = Listed
  BY DEF hub, Listed
<1>2. Shape'
  BY DEF IInv, Shape, Placed, Plain
<1>3. kernel'.of <= made
  BY FileTypes, DeviceAssumption DEF IInv, Numbered, Shape, TypeOK
<1>4. Numbered'
  BY <1>1, <1>3 DEF IInv, Numbered, Trying
<1>5. Locks' /\ \A p \in Procs : Reserved(p)' /\ Read(p)'
  BY DEF IInv, Locks, Joining, Syncing, Reserved, Read, Reading
<1>6. PairMatches' /\ NothingHalfJoined'
  BY DEF IInv, PairMatches, NothingHalfJoined, Mishaps
<1>7. Carried'
  BY <1>1 DEF IInv, Carried, Asked, Trying, Mishaps
<1>8. NoSilentOrphan'
  BY <1>1 DEF IInv, NoSilentOrphan, Custody, Mishaps
<1>9. ASSUME ~Reverts PROVE Timed' /\ RecordedIsApplied'
  BY <1>1, <1>9, InterfaceTimed
<1> QED
  BY <1>2, <1>4, <1>5, <1>6, <1>7, <1>8, <1>9 DEF IInv

LEMMA UpKeeps == ASSUME IInv, Up PROVE IInv'
<1>1. TypeOK'
  BY DEF Up, IInv, Shape, TypeOK, hub
<1> QED
  BY <1>1, InterfaceKeeps DEF Up

LEMMA DownKeeps == ASSUME IInv, Down PROVE IInv'
<1>1. TypeOK /\ budget' \in [faults: 0 .. MaxFaults, changes: 0 .. MaxChanges]
  BY Spent DEF Down, IInv, Shape
<1>2. TypeOK'
  BY <1>1, FileTypes DEF Down, TypeOK, hub
<1> QED
  BY <1>2, InterfaceKeeps DEF Down

LEMMA SwapOutKeeps == ASSUME IInv, SwapOut PROVE IInv'
<1>1. TypeOK /\ budget' \in [faults: 0 .. MaxFaults, changes: 0 .. MaxChanges]
  BY Spent DEF SwapOut, IInv, Shape
<1>2. TypeOK'
  BY <1>1, FileTypes DEF SwapOut, TypeOK, hub
<1> QED
  BY <1>2, InterfaceKeeps DEF SwapOut

\* A file a person clears away is noted, and nothing runs then.
LEMMA ClearKeeps ==
  ASSUME IInv, NEW f \in {conf, device}, NoRun, TypeOK', UNCHANGED <<hub, net, procs, made>>,
         \/ f = conf /\ conf' = Absent /\ kernel' = Absent /\ device' = device
         \/ f = device /\ device' = Absent /\ UNCHANGED <<conf, kernel>>,
         mishaps \subseteq mishaps', f.what = "joined" => "cleared" \in Mishaps(f.of)'
  PROVE  IInv'
<1>1. /\ UNCHANGED <<registered, version>> /\ Listed' = Listed
      /\ \A q \in Procs : procs[q].pc = "idle"
      /\ \A b : Mishaps(b) \subseteq Mishaps(b)'
  BY MishapsGrow DEF hub, Listed, NoRun
<1>2. /\ Plain(conf) /\ Plain(device) /\ Plain(conf)' /\ Plain(device)'
      /\ Absent.what # "joined" /\ Absent.of = 0
  BY FileTypes DEF IInv, Shape, Plain
<1>3. Shape'
  BY <1>2 DEF IInv, Shape, Placed
<1>4. Numbered'
  <2>1. conf'.of <= made /\ kernel'.of <= made
    BY <1>2, DeviceAssumption DEF IInv, Numbered, Shape, TypeOK
  <2> QED
    BY <1>1, <2>1 DEF IInv, Numbered, Trying
<1>5. Locks' /\ \A p \in Procs : Reserved(p)' /\ Read(p)'
  BY <1>1 DEF Locks, Joining, Syncing, Reserved, Read, Reading
<1>6. PairMatches'
  BY <1>2 DEF IInv, PairMatches
<1>7. NothingHalfJoined'
  <2> SUFFICES ASSUME NEW g \in {conf', device'}, g.what = "joined", conf'.of # device'.of
               PROVE  Mishaps(g.of)' \cap {"cut", "cleared"} # {}
    BY DEF NothingHalfJoined
  <2>1. g \in {conf, device} /\ g.of # 0
    BY <1>2 DEF Plain
  <2>2. CASE conf.of = device.of
    <3>1. f.of = g.of /\ f.what = "joined"
      BY <1>2, <2>1, <2>2, FileTypes DEF Plain
    <3> QED
      BY <3>1 DEF Mishaps
  <2>3. CASE conf.of # device.of
    <3>1. Mishaps(g.of) \cap {"cut", "cleared"} # {}
      BY <1>1, <2>1, <2>3 DEF IInv, NothingHalfJoined
    <3> QED
      BY <1>1, <3>1
  <2> QED
    BY <2>2, <2>3
<1>8. Carried'
  <2>1. ASSUME NEW m \in net, m.kind = "join" PROVE Asked(m)'
    BY <1>1, <2>1 DEF IInv, Carried, Asked
  <2>2. \A m \in net' : Asked(m)'
    BY <2>1 DEF Asked
  <2> QED
    BY <1>1, <2>2 DEF IInv, Carried, Trying
<1>9. NoSilentOrphan'
  <2> SUFFICES ASSUME NEW a \in Listed' PROVE Mishaps(a)' # {}
    BY DEF NoSilentOrphan
  <2>1. a \in Listed /\ a # 0
    BY <1>1 DEF Listed, IInv, Shape, TypeOK, Attempts
  <2>2. (conf.of = a /\ device.of = a) \/ Mishaps(a) # {}
    BY <1>1, <2>1 DEF IInv, NoSilentOrphan, Custody
  <2>3. CASE conf.of = a /\ device.of = a
    <3>1. f.of = a /\ f.what = "joined"
      BY <1>2, <2>1, <2>3, FileTypes DEF Plain
    <3> QED
      BY <3>1 DEF Mishaps
  <2> QED
    BY <1>1, <2>2, <2>3
<1>10. ASSUME ~Reverts PROVE Timed' /\ RecordedIsApplied'
  <2>1. Absent.version <= version
    BY DeviceAssumption DEF Absent, IInv, Shape, TypeOK, Versions
  <2>2. Timed'
    BY <1>1, <1>10, <2>1 DEF IInv, Timed, Knowing, Trying, Before, Custodial, After
  <2>3. RecordedIsApplied'
    BY <1>2, <1>10 DEF IInv, RecordedIsApplied
  <2> QED
    BY <2>2, <2>3
<1> QED
  BY <1>3, <1>4, <1>5, <1>6, <1>7, <1>8, <1>9, <1>10 DEF IInv

\* What is noted of it.
LEMMA ClearNoted ==
  ASSUME TypeOK, NEW f \in {conf, device}, Plain(f),
         IF f.what = "joined" THEN Note(f.of, "cleared") ELSE UNCHANGED mishaps,
         NEW a, a = f.of
  PROVE  /\ mishaps \subseteq mishaps'
         /\ mishaps' \subseteq [of: Attempts, what: {"told", "unanswered", "killed", "cut",
                                                      "cleared", "printed", "filed"}]
         /\ f.what = "joined" => "cleared" \in Mishaps(a)'
<1>1. CASE f.what = "joined"
  <2>1. Note(a, "cleared") /\ a \in Attempts
    BY <1>1, DeviceAssumption DEF TypeOK, File, Plain, Attempts
  <2> QED
    BY <1>1, <2>1, Noted DEF TypeOK
<1>2. CASE f.what # "joined"
  BY <1>2 DEF TypeOK
<1> QED
  BY <1>1, <1>2

LEMMA ClearConfKeeps == ASSUME IInv, ClearConf PROVE IInv'
<1>1. PICK f \in {conf, device} : f = conf
  OBVIOUS
<1>2. PICK a : a = f.of
  OBVIOUS
<1>3. TypeOK /\ Plain(f) /\ budget' \in [faults: 0 .. MaxFaults, changes: 0 .. MaxChanges]
  BY <1>1, Spent DEF ClearConf, IInv, Shape
<1>4. IF f.what = "joined" THEN Note(f.of, "cleared") ELSE UNCHANGED mishaps
  BY <1>1 DEF ClearConf
<1>5. /\ mishaps \subseteq mishaps'
      /\ mishaps' \subseteq [of: Attempts, what: {"told", "unanswered", "killed", "cut",
                                                   "cleared", "printed", "filed"}]
      /\ f.what = "joined" => "cleared" \in Mishaps(f.of)'
  BY <1>2, <1>3, <1>4, ClearNoted
<1>6. TypeOK'
  BY <1>3, <1>5, FileTypes DEF ClearConf, TypeOK, hub
<1> QED
  BY <1>1, <1>5, <1>6, ClearKeeps DEF ClearConf

LEMMA ClearDeviceKeeps == ASSUME IInv, ClearDevice PROVE IInv'
<1>1. PICK f \in {conf, device} : f = device
  OBVIOUS
<1>2. PICK a : a = f.of
  OBVIOUS
<1>3. TypeOK /\ Plain(f) /\ budget' \in [faults: 0 .. MaxFaults, changes: 0 .. MaxChanges]
  BY <1>1, Spent DEF ClearDevice, IInv, Shape
<1>4. IF f.what = "joined" THEN Note(f.of, "cleared") ELSE UNCHANGED mishaps
  BY <1>1 DEF ClearDevice
<1>5. /\ mishaps \subseteq mishaps'
      /\ mishaps' \subseteq [of: Attempts, what: {"told", "unanswered", "killed", "cut",
                                                   "cleared", "printed", "filed"}]
      /\ f.what = "joined" => "cleared" \in Mishaps(f.of)'
  BY <1>2, <1>3, <1>4, ClearNoted
<1>6. TypeOK'
  BY <1>3, <1>5, FileTypes DEF ClearDevice, TypeOK, hub
<1> QED
  BY <1>1, <1>5, <1>6, ClearKeeps DEF ClearDevice

\* A file of somebody's appears while a join checks or claims.
LEMMA PlaceFileKeeps == ASSUME IInv, PlaceFile PROVE IInv'
<1>1. PICK p \in Procs : procs[p].pc \in {"check", "claim_conf", "claim_device"}
  BY DEF PlaceFile
<1>2. /\ TypeOK /\ Placed(p) /\ Reserved(p) /\ Joining(p)
      /\ UNCHANGED <<hub, net, kernel, procs, made, mishaps, out>>
  BY <1>1, Known DEF PlaceFile, Placed, Joining
<1>3. budget' \in [faults: 0 .. MaxFaults, changes: 0 .. MaxChanges]
  BY <1>2, Spent DEF PlaceFile
<1>4. UNCHANGED <<registered, version>> /\ Listed' = Listed
  BY <1>2 DEF hub, Listed
<1>5. \/ conf = Absent /\ conf' = Foreign /\ device' = device
      \/ device = Absent /\ device' = Foreign /\ conf' = conf
  BY DEF PlaceFile
<1>6. /\ conf'.of = conf.of /\ device'.of = device.of
      /\ conf'.what = "joined" <=> conf.what = "joined"
      /\ device'.what = "joined" <=> device.what = "joined"
      /\ conf'.version = conf.version /\ device'.version = device.version
      /\ conf.what = "joined" => conf' = conf
      /\ device.what = "joined" => device' = device
      /\ conf = Claim => conf' = Claim
      /\ device = Claim => device' = Claim
  BY <1>5, FileTypes DEF Absent, Foreign
<1>7. \A q \in Procs \ {p} : ~Joining(q)
  BY <1>2 DEF IInv, Locks
<1>8. TypeOK'
  BY <1>2, <1>3, <1>5, FileTypes DEF TypeOK, hub
<1>9. Shape'
  <2>1. Plain(conf)' /\ Plain(device)'
    BY <1>5, FileTypes DEF IInv, Shape, Plain
  <2> QED
    BY <1>2, <1>8, <2>1 DEF IInv, Shape, Placed
<1>10. Numbered' /\ Locks'
  BY <1>2, <1>4, <1>6 DEF IInv, Numbered, Locks, Trying, Joining, Syncing
<1>11. ASSUME NEW q \in Procs PROVE Reserved(q)' /\ Read(q)'
  <2>1. Read(q)'
    <3>1. Read(q) /\ procs'[q] = procs[q]
      BY <1>2, Known
    <3> QED
      BY <1>6, <3>1 DEF Read, Reading
  <2>2. CASE q = p
    <3>1. Reserved(q) /\ procs'[q] = procs[q]
      BY <1>2, <2>2
    <3> QED
      BY <1>1, <1>6, <2>1, <2>2, <3>1 DEF Reserved
  <2>3. CASE q # p
    BY <1>2, <1>7, <2>1, <2>3 DEF Reserved, Joining
  <2> QED
    BY <2>1, <2>2, <2>3
<1>12. PairMatches'
  BY <1>6 DEF IInv, PairMatches
<1>13. NothingHalfJoined'
  BY <1>2, <1>6 DEF IInv, NothingHalfJoined, Mishaps
<1>14. Carried'
  BY <1>2, <1>4 DEF IInv, Carried, Asked, Trying, Mishaps
<1>15. NoSilentOrphan'
  BY <1>2, <1>4, <1>6 DEF IInv, NoSilentOrphan, Custody, Mishaps
<1>16. ASSUME ~Reverts PROVE Timed' /\ RecordedIsApplied'
  <2>1. Timed'
    BY <1>2, <1>4, <1>6, <1>16 DEF IInv, Timed, Knowing, Trying
  <2>2. RecordedIsApplied'
    BY <1>2, <1>6, <1>16 DEF IInv, RecordedIsApplied
  <2> QED
    BY <2>1, <2>2
<1> QED
  BY <1>9, <1>10, <1>11, <1>12, <1>13, <1>14, <1>15, <1>16 DEF IInv

-----------------------------------------------------------------------------
(* The invariant.                                                          *)

LEMMA InitHolds == Init => IInv
<1> SUFFICES ASSUME Init PROVE IInv
  OBVIOUS
<1>1. procs \in [Procs -> Proc] /\ \A p \in Procs : procs[p] = Idle
  BY IdleFit DEF Init
<1>2. TypeOK
  BY <1>1, FileTypes, DeviceAssumption DEF Init, TypeOK, Versions
<1>3. Shape
  BY <1>1, <1>2, FileTypes, IdleFit DEF Init, Shape, Plain, Placed
<1>4. \A p \in Procs : /\ ~Trying(p) /\ ~Reading(p) /\ ~Knowing(p) /\ ~Joining(p) /\ ~Syncing(p)
                       /\ procs[p].pc = "idle" /\ procs[p].version = 0
  BY <1>1, IdleFit DEF Trying, Reading, Knowing, Joining, Syncing, Before, Custodial, After
<1>5. Numbered
  BY <1>4, FileTypes, DeviceAssumption DEF Init, Numbered
<1>6. Locks /\ \A p \in Procs : Reserved(p) /\ Read(p)
  BY <1>4 DEF Locks, Reserved, Read
<1>7. PairMatches /\ NothingHalfJoined /\ RecordedIsApplied
  BY FileTypes DEF Init, PairMatches, NothingHalfJoined, RecordedIsApplied
<1>8. Carried /\ NoSilentOrphan
  BY <1>4 DEF Init, Carried, NoSilentOrphan, Listed, Before
<1>9. Timed
  BY <1>4 DEF Init, Timed, Absent
<1> QED
  BY <1>3, <1>5, <1>6, <1>7, <1>8, <1>9 DEF IInv

LEMMA StepKeeps == ASSUME IInv, NEW p \in Procs, Step(p) PROVE IInv'
<1>1. CASE JoinStep(p)
  BY <1>1, CheckKeeps, ClaimConfKeeps, ClaimDeviceKeeps, ReserveFailsKeeps, SendKeeps, RefusedKeeps,
     AcceptedKeeps, UnreadableKeeps, GiveUpKeeps, SaveConfKeeps, SaveDeviceKeeps, SaveFailsKeeps,
     UndoKeeps, UndoneKeeps, DropKeeps, DropDeviceKeeps, ActivateKeeps DEF JoinStep
<1>2. CASE ExportStep(p)
  BY <1>2, FillKeeps, FillFailsKeeps, DropOutKeeps DEF ExportStep
<1>3. CASE SyncStep(p)
  BY <1>3, SyncLockKeeps, AskKeeps, WriteConfKeeps, SyncConfKeeps, RecordKeeps, SyncFailsKeeps
  DEF SyncStep
<1> QED
  BY <1>1, <1>2, <1>3 DEF Step

LEMMA NextKeeps == IInv /\ [Next]_vars => IInv'
<1> SUFFICES ASSUME IInv, [Next]_vars PROVE IInv'
  OBVIOUS
<1>1. CASE \E p \in Procs : Step(p) \/ Kill(p) \/ TypeSync(p)
  BY <1>1, StepKeeps, KillKeeps, TypeSyncKeeps
<1>2. CASE \E p \in Procs, n \in Names, c \in Codes : TypeJoin(p, n, c)
  BY <1>2, TypeJoinKeeps
<1>3. CASE \E p \in Procs, n \in Names, c \in Codes, to_file \in BOOLEAN : TypeExport(p, n, c, to_file)
  BY <1>3, TypeExportKeeps
<1>4. CASE HubStep
  BY <1>4, HubJoinsKeeps, HubRemovesKeeps DEF HubStep
<1>5. CASE \E m \in net : Lose(m)
  BY <1>5, LoseKeeps
<1>6. CASE ClearConf \/ ClearDevice \/ PlaceFile \/ SwapOut \/ Up \/ Down \/ Move
  BY <1>6, ClearConfKeeps, ClearDeviceKeeps, PlaceFileKeeps, SwapOutKeeps, UpKeeps, DownKeeps, MoveKeeps
<1>7. CASE \E n \in Names : Remove(n)
  BY <1>7, RemoveKeeps
<1>8. CASE UNCHANGED vars
  <2>1. UNCHANGED <<files, procs, made, mishaps, net, registered, version, unspent, budget>>
    BY <1>8 DEF vars, files
  <2>2. /\ TypeOK /\ version' \in Versions /\ version <= version'
        /\ budget' \in [faults: 0 .. MaxFaults, changes: 0 .. MaxChanges]
    BY <2>1, DeviceAssumption DEF IInv, Shape, TypeOK, Versions
  <2> QED
    BY <2>1, <2>2, LessKeeps
<1> QED
  BY <1>1, <1>2, <1>3, <1>4, <1>5, <1>6, <1>7, <1>8 DEF Next

\* IInv holds throughout.
THEOREM Invariant == Spec => []IInv
<1>1. Init => IInv
  BY InitHolds
<1>2. IInv /\ [Next]_vars => IInv'
  BY NextKeeps
<1> QED
  BY <1>1, <1>2, PTL DEF Spec

-----------------------------------------------------------------------------
(* What it says.                                                           *)

\* Files, messages and processes keep their form (TypeOK).
THEOREM TypeCorrect == Spec => []TypeOK
<1>1. IInv => TypeOK
  BY DEF IInv, Shape
<1> QED
  BY <1>1, Invariant, PTL

\* device.json and the config beside it come from one registration, however
\* joins, syncs, kills and people interleave (acquire_join_lock, Reservation,
\* sync's apply): PairMatches.
THEOREM PairAlwaysMatches == Spec => []PairMatches
<1>1. IInv => PairMatches
  BY DEF IInv
<1> QED
  BY <1>1, Invariant, PTL

\* One of the two files without the other comes only of a kill between the two
\* writes of publish or of a person (Reservation::drop): NothingHalfJoined.
THEOREM NeverHalfJoined == Spec => []NothingHalfJoined
<1>1. IInv => NothingHalfJoined
  BY DEF IInv
<1> QED
  BY <1>1, Invariant, PTL

\* A device the hub lists is held, or dealt with, or its loss was noted, whatever
\* the network does to the requests (post_registration, undo_registration):
\* NoSilentOrphan.
THEOREM OrphansNeverSilent == Spec => []NoSilentOrphan
<1>1. IInv => NoSilentOrphan
  BY DEF IInv
<1> QED
  BY <1>1, Invariant, PTL

\* While the hub's settings only move on, neither the config nor a running
\* interface is behind device.json (sync's apply, and its order): RecordedIsApplied.
THEOREM RecordedAlwaysApplied ==
  ASSUME ~Reverts
  PROVE  Spec => []RecordedIsApplied
<1>1. IInv => RecordedIsApplied
  BY DEF IInv
<1> QED
  BY <1>1, Invariant, PTL

-----------------------------------------------------------------------------
(* What a step may not do.                                                 *)

\* Nobody's file is touched, or a person did it.
Spares ==
  \/ /\ conf = Foreign => conf' = Foreign
     /\ device = Foreign => device' = Foreign
     /\ out = Foreign => out' = Foreign
  \/ budget'.changes < budget.changes

\* No export says that its file is written.
FilesNothing == \A m \in mishaps' \ mishaps : m.what # "filed"

\* A process that joins takes what is free and clears what is its own.
LEMMA JoinSpares == ASSUME IInv, NEW p \in Procs, JoinStep(p) PROVE Spares /\ FilesNothing
<1>1. Placed(p) /\ Reserved(p)
  BY Known
<1>2. \A file : Claimable(file) => file # Foreign
  BY FileTypes DEF Claimable
<1>3. CASE ClaimConf(p) \/ ClaimDevice(p)
  BY <1>2, <1>3 DEF ClaimConf, ClaimDevice, Spares, FilesNothing
<1>4. CASE SaveConf(p) \/ SaveDevice(p) \/ Drop(p) \/ DropDevice(p)
  BY <1>1, <1>4, FileTypes DEF SaveConf, SaveDevice, Drop, DropDevice, Placed, Reserved, Spares,
                               FilesNothing
<1>5. CASE SaveFails(p)
  <2>1. procs[p].pc = "save_device" => conf = Saved(procs[p].of, procs[p].version)
    BY <1>1 DEF Placed, Reserved
  <2>2. Saved(procs[p].of, procs[p].version) # Foreign
    BY DEF Saved, Foreign
  <2> QED
    BY <1>5, <2>1, <2>2 DEF SaveFails, Spares, FilesNothing
<1>6. CASE Check(p) \/ ReserveFails(p) \/ Send(p) \/ Refused(p) \/ Accepted(p) \/ Undo(p)
           \/ Activate(p)
  BY <1>6 DEF Check, ReserveFails, Send, Refused, Accepted, Undo, Activate, files, Spares, FilesNothing
<1>7. CASE Unreadable(p) \/ GiveUp(p) \/ Undone(p)
  <2>1. UNCHANGED files
    BY <1>7 DEF Unreadable, GiveUp, Undone
  <2>2. FilesNothing
    <3>1. ASSUME NEW a, NEW what \in {"told", "unanswered"}, Note(a, what) PROVE FilesNothing
      BY <3>1 DEF Note, FilesNothing
    <3>2. CASE UNCHANGED mishaps
      BY <3>2 DEF FilesNothing
    <3> QED
      BY <1>7, <3>1, <3>2 DEF Unreadable, GiveUp, Undone, Note
  <2> QED
    BY <2>1, <2>2 DEF files, Spares
<1> QED
  BY <1>3, <1>4, <1>5, <1>6, <1>7 DEF JoinStep

\* A process that syncs changes the two files it read.
LEMMA SyncSpares == ASSUME IInv, NEW p \in Procs, SyncStep(p) PROVE Spares /\ FilesNothing
<1>1. Read(p)
  BY Known
<1>2. CASE WriteConf(p)
  BY <1>2, FileTypes DEF WriteConf, Spares, FilesNothing
<1>3. CASE Record(p)
  BY <1>1, <1>3, FileTypes DEF Record, Read, Reading, Spares, FilesNothing
<1>4. CASE SyncLock(p) \/ Ask(p) \/ SyncConf(p) \/ SyncFails(p)
  BY <1>4 DEF SyncLock, Ask, SyncConf, SyncFails, files, Spares, FilesNothing
<1> QED
  BY <1>2, <1>3, <1>4 DEF SyncStep

\* An export writes and removes the file it knows by its attempt, and none that
\* is somebody's has one.
LEMMA ExportSpares ==
  ASSUME IInv, NEW p \in Procs, ExportStep(p)
  PROVE  /\ Spares
         /\ \A m \in mishaps' \ mishaps : m.what = "filed" => out' = Saved(m.of, out'.version)
<1>1. TypeOK /\ (Trying(p) => procs[p].of # 0)
  BY DEF IInv, Shape, Numbered
<1>2. CASE Fill(p)
  <2>1. procs[p].of \in Attempts /\ procs[p].version \in Versions
    BY <1>1, <1>2, Typed DEF Fill, Trying, Custodial, IInv, Numbered, TypeOK, Attempts
  <2>2. IsOurs(p) => out # Foreign
    BY <2>1, FileTypes DEF IsOurs, Attempts
  <2>3. CASE /\ ~procs[p].claimed /\ UNCHANGED out /\ Note(procs[p].of, "printed")
    BY <1>2, <2>3 DEF Fill, Note, Spares
  <2>4. CASE IsOurs(p) /\ out' = Saved(procs[p].of, procs[p].version) /\ Note(procs[p].of, "filed")
    <3>1. out'.version = procs[p].version
      BY <2>1, <2>4, FileTypes
    <3>2. \A m \in mishaps' \ mishaps : m.of = procs[p].of
      BY <2>4 DEF Note
    <3> QED
      BY <1>2, <2>2, <2>4, <3>1, <3>2 DEF Fill, Spares
  <2>5. CASE UNCHANGED <<out, mishaps>>
    BY <1>2, <2>5 DEF Fill, Spares
  <2> QED
    BY <1>2, <2>3, <2>4, <2>5 DEF Fill
<1>3. CASE FillFails(p)
  BY <1>3 DEF FillFails, files, Spares
<1>4. CASE DropOut(p)
  BY <1>1, <1>4, FileTypes DEF DropOut, IsOurs, Trying, After, Spares
<1> QED
  BY <1>2, <1>3, <1>4 DEF ExportStep

\* The others: a person who clears a file pays for it, a kill touches none.
LEMMA OthersSpare ==
  ASSUME IInv, Next,
         ~\E p \in Procs : Step(p)
  PROVE  Spares /\ FilesNothing
<1>1. TypeOK
  BY DEF IInv, Shape
<1>2. CASE \E p \in Procs : Kill(p)
  <2>1. PICK p \in Procs : Kill(p)
    BY <1>2
  <2>2. FilesNothing
    <3>1. ASSUME NEW a, NEW what \in {"cut", "killed"}, Note(a, what) PROVE FilesNothing
      BY <3>1 DEF Note, FilesNothing
    <3>2. CASE UNCHANGED mishaps
      BY <3>2 DEF FilesNothing
    <3> QED
      BY <2>1, <3>1, <3>2 DEF Kill, Note
  <2> QED
    BY <2>1, <2>2 DEF Kill, files, Spares
<1>3. CASE \E p \in Procs : TypeSync(p)
  BY <1>3 DEF TypeSync, files, Spares, FilesNothing
<1>4. CASE \E p \in Procs, n \in Names, c \in Codes : TypeJoin(p, n, c)
  BY <1>4 DEF TypeJoin, files, Spares, FilesNothing
<1>5. CASE \E p \in Procs, n \in Names, c \in Codes, to_file \in BOOLEAN : TypeExport(p, n, c, to_file)
  BY <1>5, FileTypes DEF TypeExport, Spares, FilesNothing
<1>6. CASE HubStep \/ (\E m \in net : Lose(m)) \/ Up \/ Down \/ Move \/ (\E n \in Names : Remove(n))
  BY <1>6 DEF HubStep, HubJoins, HubRemoves, Lose, Up, Down, Move, Remove, files, Spares, FilesNothing
<1>7. CASE ClearConf \/ ClearDevice \/ PlaceFile \/ SwapOut
  <2>1. Spares
    BY <1>1, <1>7, Spent DEF ClearConf, ClearDevice, PlaceFile, SwapOut, Spares
  <2>2. PICK a : mishaps' \subseteq mishaps \cup {[of |-> a, what |-> "cleared"]}
    BY <1>7 DEF ClearConf, ClearDevice, PlaceFile, SwapOut, Note
  <2> QED
    BY <2>1, <2>2 DEF FilesNothing
<1> QED
  BY <1>2, <1>3, <1>4, <1>5, <1>6, <1>7 DEF Next

\* No step overwrites or removes somebody else's file but a person's, and an
\* export that reports a path reports its own file (Reservation,
\* Claimed::is_ours): FilesOfOthersKept.
THEOREM OthersFilesKept == Spec => FilesOfOthersKept
<1> DEFINE Kept ==
      /\ \A f \in {<<conf, conf'>>, <<device, device'>>, <<out, out'>>} :
           f[1] = Foreign /\ f[2] # Foreign => budget'.changes < budget.changes
      /\ \A a \in Attempts :
           "filed" \in Mishaps(a)' \ Mishaps(a) => out' = Saved(a, out'.version)
<1>1. ASSUME IInv, Next PROVE Kept
  <2>1. /\ Spares
        /\ \A m \in mishaps' \ mishaps : m.what = "filed" => out' = Saved(m.of, out'.version)
    <3>1. CASE \E p \in Procs : Step(p)
      BY <1>1, <3>1, JoinSpares, SyncSpares, ExportSpares DEF Step, FilesNothing
    <3>2. CASE ~\E p \in Procs : Step(p)
      BY <1>1, <3>2, OthersSpare DEF FilesNothing
    <3> QED
      BY <3>1, <3>2
  <2>2. \A f \in {<<conf, conf'>>, <<device, device'>>, <<out, out'>>} :
          f[1] = Foreign /\ f[2] # Foreign => budget'.changes < budget.changes
    BY <2>1 DEF Spares
  <2>3. ASSUME NEW a \in Attempts, "filed" \in Mishaps(a)' \ Mishaps(a)
        PROVE  out' = Saved(a, out'.version)
    <3>1. PICK m \in mishaps' : m.of = a /\ m.what = "filed"
      BY <2>3 DEF Mishaps
    <3>2. m \notin mishaps
      BY <2>3, <3>1 DEF Mishaps
    <3> QED
      BY <2>1, <3>1, <3>2
  <2> QED
    BY <2>2, <2>3
<1>2. IInv /\ [Next]_vars => [Kept]_vars
  BY <1>1
<1> QED
  BY <1>2, Invariant, PTL DEF Spec, FilesOfOthersKept

-----------------------------------------------------------------------------
(* What a sync that ends well means, as long as settings never go back.    *)

\* The config has no settings the hub never had, what a sync read is no later
\* than the device file, and what it wrote is still there.
Fresh ==
  /\ conf.version <= version
  /\ \A p \in Procs :
       /\ Reading(p) => procs[p].local.version <= device.version
       /\ procs[p].pc \in {"syncconf", "record"} => conf.version = procs[p].version

LEMMA Integers == TypeOK => version \in Int /\ conf.version \in Int /\ device.version \in Int
BY DeviceAssumption DEF TypeOK, Versions, File

\* A step that leaves the files and no process reading that was not.
LEMMA FreshStays ==
  ASSUME IInv, Fresh, UNCHANGED <<conf, device>>, version' = version,
         \A q \in Procs : procs'[q] = procs[q] \/ ~Reading(q)'
  PROVE  Fresh'
BY DEF Fresh, Reading

\* A step of a command that joins moves that command, and not to a sync.
LEMMA JoinMoves == ASSUME IInv, NEW p \in Procs, JoinStep(p) PROVE Moves(p) /\ ~Reading(p)'
<1> DEFINE Next_pcs == {"claim_conf", "claim_device", "drop", "sent", "save_device", "activate", "undo",
                        "undoing", "drop_device", "drop_out"}
<1>1. TypeOK /\ procs \in [Procs -> Proc] /\ procs[p] \in Proc
  BY Known, Typed DEF TypeOK
<1>2. CASE Return(p)
  BY <1>1, <1>2, Returned, IdleFit DEF Reading
<1>3. ASSUME NEW pc \in Next_pcs, Goto(p, pc) PROVE Moves(p) /\ ~Reading(p)'
  <2>1. pc \in Pcs \ {"sync_lock", "ask", "write_conf", "syncconf", "record"}
    BY DEF Pcs
  <2> QED
    BY <1>1, <1>3, <2>1, Went DEF Reading
<1>4. CASE Goto(p, AfterFailure(p))
  <2>1. PICK pc \in {"drop", "drop_out"} : pc = AfterFailure(p)
    BY DEF AfterFailure
  <2> QED
    BY <1>3, <1>4, <2>1 DEF Goto
<1>5. CASE ClaimDevice(p)
  <2>1. CASE procs' = [procs EXCEPT ![p].pc = "send", ![p].claimed = TRUE]
    <3>1. procs' = [procs EXCEPT ![p] = [procs[p] EXCEPT !.pc = "send", !.claimed = TRUE]]
      BY <1>1, <2>1
    <3>2. [procs[p] EXCEPT !.pc = "send", !.claimed = TRUE] \in Proc
      BY <1>1 DEF Proc, Pcs
    <3> QED
      BY <1>1, <3>1, <3>2 DEF Moves, Reading, Proc
  <2>2. CASE Goto(p, "drop")
    BY <1>3, <2>2
  <2> QED
    BY <1>5, <2>1, <2>2 DEF ClaimDevice
<1>6. CASE Accepted(p)
  <2>1. PICK m \in net, pc \in {"fill", "save_conf"} :
          procs' = [procs EXCEPT ![p] = [procs[p] EXCEPT !.pc = pc, !.version = m.version]]
    <3>1. PICK m \in net :
            procs' = [procs EXCEPT ![p].pc = IF procs[p].export THEN "fill" ELSE "save_conf",
                                   ![p].version = m.version]
      BY <1>6 DEF Accepted
    <3>2. PICK pc \in {"fill", "save_conf"} : pc = IF procs[p].export THEN "fill" ELSE "save_conf"
      OBVIOUS
    <3>3. procs' = [procs EXCEPT ![p] = [procs[p] EXCEPT !.pc = pc, !.version = m.version]]
      BY <1>1, <3>1, <3>2
    <3> QED
      BY <3>3
  <2>2. [procs[p] EXCEPT !.pc = pc, !.version = m.version] \in Proc
    BY <1>1 DEF Proc, Pcs, TypeOK, Messages
  <2> QED
    BY <1>1, <2>1, <2>2 DEF Moves, Reading, Proc
<1>7. CASE ReserveFails(p)
  <2>1. PICK pc \in {"drop", "drop_out"} : Goto(p, pc) \/ Return(p)
    BY <1>7 DEF ReserveFails, Goto
  <2> QED
    BY <1>2, <1>3, <2>1
<1>8. CASE \E pc \in Next_pcs : Goto(p, pc)
  BY <1>3, <1>8
<1> QED
  BY <1>2, <1>4, <1>5, <1>6, <1>7, <1>8
  DEF JoinStep, Check, ClaimConf, Send, Refused, Unreadable, GiveUp, SaveConf, SaveDevice, SaveFails,
      Undo, Undone, Drop, DropDevice, Activate

\* A process that joins reads nothing, and what it changes nobody reads.
LEMMA FreshJoin == ASSUME IInv, ~Reverts, Fresh, NEW p \in Procs, JoinStep(p) PROVE Fresh'
<1>1. TypeOK /\ Placed(p) /\ Reserved(p) /\ version' = version /\ procs[p].version <= version
  BY Known DEF JoinStep, Check, ClaimConf, ClaimDevice, ReserveFails, Send, Refused, Accepted,
               Unreadable,
     GiveUp, SaveConf, SaveDevice, SaveFails, Undo, Undone, Drop, DropDevice, Activate, hub
<1>2. Moves(p) /\ ~Reading(p)'
  BY JoinMoves
<1>3. \A q \in Procs : procs'[q] = procs[q] \/ ~Reading(q)'
  BY <1>2 DEF Moves
<1>4. CASE UNCHANGED <<conf, device>>
  BY <1>1, <1>3, <1>4, FreshStays
<1>5. CASE ClaimConf(p) \/ ClaimDevice(p) \/ SaveConf(p) \/ SaveDevice(p) \/ SaveFails(p) \/ Drop(p)
           \/ DropDevice(p)
  <2>1. Joining(p) /\ procs[p].pc # "check"
    BY <1>1, <1>5 DEF ClaimConf, ClaimDevice, SaveConf, SaveDevice, SaveFails, Drop, DropDevice,
       Joining, Placed
  <2>2. \A q \in Procs : ~Reading(q)'
    BY <1>2, <2>1, Alone DEF Moves, Reading
  <2>3. conf' \in {conf, Claim, Absent} \/ conf' = Saved(procs[p].of, procs[p].version)
    BY <1>5 DEF ClaimConf, ClaimDevice, SaveConf, SaveDevice, SaveFails, Drop, DropDevice
  <2>4. 0 <= version /\ Claim.version = 0 /\ Absent.version = 0
        /\ Saved(procs[p].of, procs[p].version).version = procs[p].version
    BY <1>1, DeviceAssumption DEF TypeOK, Versions, Claim, Absent, Saved
  <2>5. conf'.version <= version
    BY <1>1, <2>3, <2>4 DEF Fresh
  <2> QED
    BY <1>1, <2>2, <2>5 DEF Fresh, Reading
<1>6. CASE \/ Check(p) \/ ReserveFails(p) \/ Send(p) \/ Refused(p) \/ Accepted(p)
           \/ Unreadable(p) \/ GiveUp(p)
           \/ Undo(p) \/ Undone(p) \/ Activate(p)
  <2>1. UNCHANGED <<conf, device>>
    BY <1>6 DEF Check, ReserveFails, Send, Refused, Accepted, Unreadable, GiveUp, Undo, Undone,
                Activate, files
  <2> QED
    BY <1>4, <2>1
<1> QED
  BY <1>5, <1>6 DEF JoinStep

LEMMA FreshSync == ASSUME IInv, ~Reverts, Fresh, NEW p \in Procs, SyncStep(p) PROVE Fresh'
<1>1. /\ TypeOK /\ Read(p) /\ version' = version /\ procs[p].version <= version
      /\ procs[p] \in Proc /\ procs \in [Procs -> Proc]
  BY Known, Typed DEF SyncStep, SyncLock, Ask, WriteConf, SyncConf, Record, SyncFails, hub, TypeOK
<1>2. device.version \in Int /\ procs[p].version \in Int
  BY <1>1, Integers, Typed, DeviceAssumption DEF Versions
<1>3. \A q \in Procs \ {p} : Syncing(p) => ~Syncing(q)
  BY DEF IInv, Locks
<1>4. CASE UNCHANGED <<conf, device>> /\ Return(p)
  BY <1>1, <1>4, FreshStays, Returned, IdleFit DEF Moves, Reading
<1>5. CASE SyncLock(p) /\ Goto(p, "ask")
  <2>1. /\ Moves(p) /\ procs'[p].pc = "ask" /\ procs'[p].local = procs[p].local
        /\ procs[p].pc = "sync_lock" /\ UNCHANGED <<conf, device>>
    BY <1>1, <1>5, Went DEF Pcs, SyncLock, files
  <2> QED
    BY <1>1, <2>1 DEF Fresh, Reading, Moves
<1>6. CASE Ask(p) /\ ~Return(p)
  <2> DEFINE r == [procs[p] EXCEPT !.pc = "write_conf", !.version = version]
  <2>1. procs' = [procs EXCEPT ![p] = r] /\ UNCHANGED <<conf, device>> /\ procs[p].pc = "ask"
    BY <1>1, <1>6 DEF Ask, files
  <2>2. r.pc = "write_conf" /\ r.local = procs[p].local
    BY <1>1 DEF Proc
  <2>3. procs'[p] = r /\ \A q \in Procs \ {p} : procs'[q] = procs[q]
    BY <1>1, <2>1
  <2> HIDE DEF r
  <2> QED
    BY <1>1, <2>1, <2>2, <2>3 DEF Fresh, Reading
<1>7. CASE WriteConf(p) /\ ~Return(p)
  <2> DEFINE r == [procs[p] EXCEPT !.pc = "syncconf", !.of = conf.of]
  <2>1. /\ procs' = [procs EXCEPT ![p] = r] /\ UNCHANGED device /\ procs[p].pc = "write_conf"
        /\ conf' = [conf EXCEPT !.version = procs[p].version] /\ Syncing(p)
    BY <1>1, <1>7 DEF WriteConf, Syncing
  <2>2. r.pc = "syncconf" /\ r.local = procs[p].local /\ r.version = procs[p].version
    BY <1>1 DEF Proc
  <2>3. procs'[p] = r /\ \A q \in Procs \ {p} : procs'[q] = procs[q] /\ ~Syncing(q)
    BY <1>1, <1>3, <2>1
  <2>4. conf'.version = procs[p].version
    BY <1>1, <2>1 DEF TypeOK, File
  <2> HIDE DEF r
  <2> QED
    BY <1>1, <2>1, <2>2, <2>3, <2>4 DEF Fresh, Reading, Syncing
<1>8. CASE SyncConf(p) /\ Goto(p, "record")
  <2>1. /\ Moves(p) /\ procs'[p].pc = "record" /\ procs'[p].local = procs[p].local
        /\ procs'[p].version = procs[p].version
        /\ procs[p].pc = "syncconf" /\ UNCHANGED <<conf, device>>
    BY <1>1, <1>8, Went DEF Pcs, SyncConf
  <2> QED
    BY <1>1, <2>1 DEF Fresh, Reading, Moves
<1>9. CASE Record(p)
  <2>1. /\ procs'[p] = Idle /\ (\A q \in Procs \ {p} : procs'[q] = procs[q] /\ ~Syncing(q))
        /\ UNCHANGED conf /\ procs[p].pc = "record"
    BY <1>1, <1>3, <1>9, Returned DEF Record, Moves, Syncing
  <2>2. device.version <= procs[p].version /\ device.what = "joined" /\ procs[p].local \in File
    BY <1>1, <2>1, Typed DEF IInv, Timed, Knowing, Read, Reading
  <2>3. device'.version = procs[p].version
    BY <1>9, <2>2, FileTypes DEF Record, File
  <2>4. ASSUME NEW q \in Procs \ {p}, Reading(q) PROVE procs[q].local.version <= device'.version
    <3>1. procs[q].local.version \in Int
      BY Typed, <1>1, DeviceAssumption DEF File, Versions
    <3> QED
      BY <1>2, <2>2, <2>3, <2>4, <3>1 DEF Fresh
  <2> QED
    BY <1>1, <2>1, <2>4, IdleFit DEF Fresh, Reading, Syncing
<1>10. CASE SyncFails(p)
  BY <1>4, <1>10 DEF SyncFails, files
<1>11. CASE Return(p) /\ (SyncLock(p) \/ Ask(p) \/ SyncConf(p))
  BY <1>4, <1>11 DEF SyncLock, Ask, SyncConf, files
<1>12. CASE Return(p) /\ WriteConf(p)
  <2>1. procs'[p].pc # "syncconf"
    BY <1>1, <1>12, Returned, IdleFit
  <2>2. ASSUME conf.what = "joined" PROVE FALSE
    <3>1. procs' = [procs EXCEPT ![p].pc = "syncconf", ![p].of = conf.of]
      BY <1>12, <2>2 DEF WriteConf
    <3>2. procs'[p].pc = "syncconf"
      BY <1>1, <3>1 DEF Proc
    <3> QED
      BY <2>1, <3>2
  <2> QED
    BY <1>4, <1>12, <2>2 DEF WriteConf
<1>13. SyncLock(p) => Return(p) \/ Goto(p, "ask")
  BY DEF SyncLock
<1>14. SyncConf(p) => Return(p) \/ Goto(p, "record")
  BY DEF SyncConf
<1> QED
  BY <1>5, <1>6, <1>7, <1>8, <1>9, <1>10, <1>11, <1>12, <1>13, <1>14 DEF SyncStep

LEMMA FreshOthers ==
  ASSUME IInv, ~Reverts, Fresh, Next, ~\E p \in Procs : JoinStep(p) \/ SyncStep(p) PROVE Fresh'
<1>1. TypeOK /\ procs \in [Procs -> Proc]
  BY DEF IInv, Shape, TypeOK
<1>2. ASSUME NEW p \in Procs, ExportStep(p) \/ Kill(p) PROVE Fresh'
  <2>1. UNCHANGED <<conf, device, version>>
    BY <1>2 DEF ExportStep, Fill, FillFails, DropOut, Kill, hub, files
  <2>2. Moves(p) /\ ~Reading(p)'
    BY <1>1, <1>2, Went, Returned, IdleFit DEF ExportStep, Fill, FillFails, DropOut, Kill, Reading, Pcs
  <2> QED
    BY <2>1, <2>2, FreshStays DEF Moves
<1>3. ASSUME NEW p \in Procs, TypeSync(p) PROVE Fresh'
  <2>1. /\ UNCHANGED <<conf, device, version>> /\ procs[p] \in Proc
        /\ procs' = [procs EXCEPT ![p].pc = "sync_lock", ![p].local = device]
    BY <1>1, <1>3, Typed DEF TypeSync, hub, files
  <2>2. /\ procs'[p].pc = "sync_lock" /\ procs'[p].local = device
        /\ \A q \in Procs \ {p} : procs'[q] = procs[q]
    BY <1>1, <2>1 DEF Proc
  <2>3. device.version <= device.version
    BY <1>1, Integers
  <2> QED
    BY <2>1, <2>2, <2>3 DEF Fresh, Reading
<1>4. ASSUME NEW p \in Procs, NEW n \in Names, NEW c \in Codes,
             TypeJoin(p, n, c) \/ \E to_file \in BOOLEAN : TypeExport(p, n, c, to_file)
      PROVE  Fresh'
  <2>1. UNCHANGED <<conf, device, version>>
    BY <1>4 DEF TypeJoin, TypeExport, hub, files
  <2>2. procs'[p].pc \in {"check", "send"} /\ \A q \in Procs \ {p} : procs'[q] = procs[q]
    <3>1. CASE TypeJoin(p, n, c)
      BY <1>1, <3>1 DEF TypeJoin, Idle
    <3>2. CASE \E to_file \in BOOLEAN : TypeExport(p, n, c, to_file)
      BY <1>1, <3>2 DEF TypeExport, Idle
    <3> QED
      BY <1>4, <3>1, <3>2
  <2>3. \A q \in Procs : procs'[q] = procs[q] \/ ~Reading(q)'
    BY <2>2 DEF Reading
  <2> QED
    BY <2>1, <2>3, FreshStays
<1>5. CASE HubStep \/ (\E m \in net : Lose(m)) \/ Up \/ Down \/ (\E n \in Names : Remove(n)) \/ SwapOut
  BY <1>5, FreshStays DEF HubStep, HubJoins, HubRemoves, Lose, Up, Down, Remove, SwapOut, hub, files
<1>6. CASE Move
  <2>1. version' = version + 1 /\ UNCHANGED <<conf, device, procs>>
    BY <1>6 DEF Move, files
  <2>2. version \in Int /\ conf.version \in Int /\ device.version \in Int
    BY <1>1, Integers
  <2>3. conf.version <= version + 1
    BY <2>2 DEF Fresh
  <2> QED
    BY <2>1, <2>3 DEF Fresh, Reading
<1>7. CASE ClearConf \/ ClearDevice
  <2>1. /\ UNCHANGED <<procs, version>> /\ \A q \in Procs : ~Reading(q) /\ procs[q].pc = "idle"
        /\ conf' \in {conf, Absent}
    BY <1>7 DEF ClearConf, ClearDevice, NoRun, Reading, hub
  <2>2. Absent.version <= version
    BY <1>1, DeviceAssumption DEF Absent, TypeOK, Versions
  <2> QED
    BY <2>1, <2>2 DEF Fresh, Reading
<1>8. CASE PlaceFile
  <2>1. /\ UNCHANGED <<procs, version>>
        /\ conf'.version = conf.version /\ device'.version = device.version
    BY <1>8 DEF PlaceFile, hub, Absent, Foreign
  <2> QED
    BY <2>1 DEF Fresh, Reading
<1> QED
  BY <1>2, <1>3, <1>4, <1>5, <1>6, <1>7, <1>8 DEF Next, Step

\* A step of a process leaves the others where they are.
LEMMA SyncMoves == ASSUME IInv, NEW p \in Procs, SyncStep(p) PROVE Moves(p)
<1>1. TypeOK /\ procs \in [Procs -> Proc] /\ procs[p] \in Proc /\ version \in Versions /\ conf \in File
  BY Known, Typed DEF TypeOK
<1>2. ASSUME NEW pc \in {"ask", "record"}, Goto(p, pc) PROVE Moves(p)
  BY <1>1, <1>2, Went DEF Pcs
<1>3. CASE procs' = [procs EXCEPT ![p].pc = "write_conf", ![p].version = version]
  <2>1. [procs[p] EXCEPT !.pc = "write_conf", !.version = version] \in Proc
    BY <1>1 DEF Proc, Pcs
  <2> QED
    BY <1>1, <1>3, <2>1 DEF Moves
<1>4. CASE procs' = [procs EXCEPT ![p].pc = "syncconf", ![p].of = conf.of]
  <2>1. [procs[p] EXCEPT !.pc = "syncconf", !.of = conf.of] \in Proc
    BY <1>1 DEF Proc, Pcs, File
  <2> QED
    BY <1>1, <1>4, <2>1 DEF Moves
<1> QED
  BY <1>1, <1>2, <1>3, <1>4, Returned
  DEF SyncStep, SyncLock, Ask, WriteConf, SyncConf, Record, SyncFails

LEMMA OtherMoves ==
  ASSUME IInv, NEW p \in Procs, ExportStep(p) \/ Kill(p) \/ TypeSync(p)
  PROVE  \A q \in Procs \ {p} : procs'[q] = procs[q]
BY Known DEF TypeOK, ExportStep, Fill, FillFails, DropOut, Kill, TypeSync, Goto, Return

\* As long as the hub's settings never go back to earlier ones, a sync that finds
\* nothing to do, or did it, leaves the config on what the hub told it: that
\* decide compares the answer with device.json and not with the config (as
\* FineMeansCurrent finds once they do) needs a setting that comes back.
THEOREM FineUnlessReverted ==
  ASSUME ~Reverts
  PROVE  Spec => FineMeansCurrent
<1>1. Init => Fresh
  BY IdleFit DEF Init, Fresh, Reading, Absent
<1>2. IInv /\ Fresh /\ [Next]_vars => Fresh'
  <2> SUFFICES ASSUME IInv, Fresh, [Next]_vars PROVE Fresh'
    OBVIOUS
  <2>1. CASE \E p \in Procs : JoinStep(p) \/ SyncStep(p)
    BY <2>1, FreshJoin, FreshSync
  <2>2. CASE Next /\ ~\E p \in Procs : JoinStep(p) \/ SyncStep(p)
    BY <2>2, FreshOthers
  <2>3. CASE UNCHANGED vars
    BY <2>3, FreshStays DEF vars
  <2> QED
    BY <2>1, <2>2, <2>3
<1>3. Spec => []Fresh
  BY <1>1, <1>2, Invariant, PTL DEF Spec
<1> DEFINE Fine == \A p \in Procs : SyncEndsFine(p) /\ conf.what = "joined" => conf'.version = Told(p)
<1>4. ASSUME IInv, Fresh, Next PROVE Fine
  <2> SUFFICES ASSUME NEW p \in Procs, SyncEndsFine(p), conf.what = "joined"
               PROVE  conf'.version = Told(p)
    OBVIOUS
  <2>1. /\ TypeOK /\ Read(p) /\ procs \in [Procs -> Proc] /\ Syncing(p) /\ Reading(p)
        /\ device.what = "joined" /\ procs'[p] # procs[p]
    BY <1>4, Known DEF SyncEndsFine, TypeOK, Read, Reading, Syncing
  <2>2. UNCHANGED budget => ~Spend("faults")
    BY <2>1, Spent
  <2>3. Ask(p) \/ Record(p)
    <3>1. ~UNCHANGED procs /\ UNCHANGED budget /\ procs[p].pc \in {"ask", "record"}
      BY <2>1 DEF SyncEndsFine
    <3>2. ASSUME NEW q \in Procs, Step(q) \/ Kill(q) \/ TypeSync(q) PROVE Ask(p) \/ Record(p)
      <4>1. CASE q # p
        BY <1>4, <2>1, <3>2, <4>1, JoinMoves, SyncMoves, OtherMoves DEF Step, Moves
      <4>2. CASE q = p
        BY <2>2, <3>1, <3>2, <4>2 DEF Step, JoinStep, ExportStep, SyncStep, Kill, TypeSync,
           Check, ClaimConf, ClaimDevice, ReserveFails, Send, Refused, Accepted, Unreadable, GiveUp,
           SaveConf, SaveDevice, SaveFails, Undo, Undone, Drop, DropDevice, Activate,
           Fill, FillFails, DropOut, SyncLock, WriteConf, SyncConf, SyncFails
      <4> QED
        BY <4>1, <4>2
    <3>3. ASSUME NEW q \in Procs, NEW n \in Names, NEW c \in Codes,
                 TypeJoin(q, n, c) \/ \E to_file \in BOOLEAN : TypeExport(q, n, c, to_file)
          PROVE  FALSE
      BY <2>1, <3>1, <3>3 DEF TypeJoin, TypeExport
    <3> QED
      BY <1>4, <3>1, <3>2, <3>3 DEF Next, HubStep, HubJoins, HubRemoves, Lose, ClearConf, ClearDevice,
         PlaceFile, SwapOut, Up, Down, Move, Remove
  <2>4. /\ conf.version \in Int /\ device.version \in Int
        /\ version \in Int /\ procs[p].local.version \in Int
    BY <2>1, Integers, Typed, DeviceAssumption DEF File, Versions
  <2>5. CASE Ask(p)
    <3>1. procs[p].pc = "ask" /\ procs[p].local.of \in Listed /\ UNCHANGED conf
      BY <2>5 DEF Ask, SyncEndsFine, files
    <3>2. procs[p].local.version = version
      <4> SUFFICES ASSUME procs[p].local.version # version PROVE FALSE
        OBVIOUS
      <4>1. procs' = [procs EXCEPT ![p].pc = "write_conf", ![p].version = version]
        BY <2>5, <3>1 DEF Ask
      <4>2. procs'[p].pc = "write_conf"
        BY <2>1, <4>1, Typed DEF Proc
      <4> QED
        BY <4>2 DEF SyncEndsFine
    <3>3. conf.version >= device.version
      BY <1>4, <2>1 DEF IInv, PairMatches, RecordedIsApplied
    <3> QED
      BY <1>4, <2>1, <2>4, <3>1, <3>2, <3>3 DEF Fresh, Told
  <2>6. CASE Record(p)
    BY <1>4, <2>6 DEF Record, Fresh, Told
  <2> QED
    BY <2>3, <2>5, <2>6
<1> QED
  BY <1>3, <1>4, Invariant, PTL DEF Spec, FineMeansCurrent

-----------------------------------------------------------------------------
(* What a sync makes of an answer, as module Decisions has it from decide.  *)

D == INSTANCE Decisions WITH PerPage <- 100

\* A list in which something is found has a first place where it is.
LEMMA FirstFound ==
  ASSUME NEW n \in Nat, NEW T, T \subseteq 1 .. n, T # {}
  PROVE  \E i \in T : \A j \in 1 .. i - 1 : j \notin T
<1> DEFINE R == {pair \in Nat \X Nat : pair[1] < pair[2]}
<1>1. IsWellFoundedOn(R, Nat)
  BY NatLessThanWellFounded DEF OpToRel
<1>2. T \subseteq Nat
  OBVIOUS
<1>3. PICK i \in T : \A j \in T : <<j, i>> \notin R
  <2> HIDE DEF R
  <2> QED
    BY <1>1, <1>2, WFMin, Zenon
<1>4. \A j \in T : ~(j < i)
  BY <1>2, <1>3
<1> QED
  BY <1>2, <1>4

\* A roster is a list.
Rostered(roster) == \E n \in Nat : DOMAIN roster = 1 .. n

\* A name that is in a roster is found there.
LEMMA OursListed ==
  ASSUME NEW name, NEW roster, Rostered(roster),
         \E i \in DOMAIN roster : roster[i].name = name
  PROVE  \E i \in DOMAIN roster : D!IsOurs(roster, name, i)
<1> PICK n \in Nat : DOMAIN roster = 1 .. n
  BY DEF Rostered
<1> DEFINE T == {i \in 1 .. n : roster[i].name = name}
<1>1. PICK i \in T : \A j \in 1 .. i - 1 : j \notin T
  BY FirstFound
<1>2. \A j \in 1 .. i - 1 : j \in 1 .. n
  OBVIOUS
<1> QED
  BY <1>1, <1>2 DEF D!IsOurs

\* What an outcome of decide says of the hub's answer.
LEMMA Decided ==
  ASSUME NEW config, NEW described, NEW told, NEW roster, Rostered(roster),
         NEW d, d = D!Decide(config, described, told, roster)
  PROVE  /\ d \in {"subnet_changed", "removed", "reassigned", "unverifiable", "rewrite", "unchanged"}
         /\ d \in {"unverifiable", "rewrite", "unchanged"} =>
              /\ described => told.subnet = config.subnet
              /\ \E i \in DOMAIN roster :
                   D!IsOurs(roster, config.name, i) /\ roster[i].address = config.address
         /\ d \in {"rewrite", "unchanged"} => described
         /\ d = "unverifiable" => ~described
         /\ d = "unchanged" => D!Moved(config, told) = {}
<1> DEFINE other == described /\ told.subnet # config.subnet
           gone == \A i \in DOMAIN roster : roster[i].name # config.name
           moved == \E i \in DOMAIN roster :
                      D!IsOurs(roster, config.name, i) /\ roster[i].address # config.address
<1>1. CASE other
  <2>1. d = "subnet_changed"
    BY <1>1 DEF D!Decide, D!IsOurs
  <2> QED
    BY <2>1
<1>2. CASE ~other /\ gone
  <2>1. d = "removed"
    BY <1>2 DEF D!Decide, D!IsOurs
  <2> QED
    BY <2>1
<1>3. CASE ~other /\ moved
  <2>1. d = "reassigned"
    BY <1>3 DEF D!Decide, D!IsOurs
  <2> QED
    BY <2>1
<1>4. CASE ~other /\ ~gone /\ ~moved
  <2>1. d = IF ~described THEN "unverifiable"
            ELSE IF D!Moved(config, told) # {} THEN "rewrite" ELSE "unchanged"
    BY <1>4 DEF D!Decide
  <2>2. PICK i \in DOMAIN roster : D!IsOurs(roster, config.name, i)
    BY <1>4, OursListed
  <2>3. roster[i].address = config.address
    BY <1>4, <2>2
  <2> QED
    BY <1>4, <2>1, <2>2, <2>3
<1> QED
  BY <1>1, <1>2, <1>3, <1>4

\* What a call of the hub can come to, and the answer it can bring.
NoAnswer == {"resolve", "connect", "timeout", "io", "tls", "no_roots", "bad_host", "bad_header",
           "too_large", "malformed"}
Calls == NoAnswer \cup {"answered", "401"}

Unanswered == {"device_file", "unauthorized", "unreachable", "untrusted", "bad_response"}
Judged == {"subnet_changed", "removed", "reassigned", "unverifiable", "rewrite", "unchanged"}

\* What an outcome says of the call and of the answer.
Says(outcome, config, call, described, told, roster) ==
  /\ outcome \in Unanswered \cup Judged
  /\ outcome = "unreachable" => call \notin {"answered", "401"}
  /\ outcome \in Judged =>
       /\ D!Usable(config) /\ call = "answered"
       /\ ~((described /\ ~D!Checked(told)) \/ ~D!Readable(roster))
       /\ outcome = D!Decide(config, described, told, roster)

\* An outcome that is none of decide's says that there was nothing to decide.
LEMMA OutcomeFrom ==
  ASSUME NEW config, NEW call \in Calls, NEW described, NEW told, NEW roster, Rostered(roster)
  PROVE  Says(D!Outcome(config, call, described, told, roster),
              config, call, described, told, roster)
<1> DEFINE outcome == D!Outcome(config, call, described, told, roster)
           unread == (described /\ ~D!Checked(told)) \/ ~D!Readable(roster)
<1>1. CASE ~D!Usable(config)
  BY <1>1 DEF D!Outcome, Unanswered, Judged, Says
<1>2. CASE D!Usable(config) /\ call = "401"
  BY <1>2 DEF D!Outcome, Unanswered, Judged, Says
<1>3. CASE D!Usable(config) /\ call \in NoAnswer
  <2>1. outcome = D!TransportOutcome(call)
    BY <1>3 DEF D!Outcome, NoAnswer
  <2>2. D!TransportOutcome(call) \in {"unreachable", "untrusted", "device_file", "bad_response"}
    BY <1>3 DEF D!TransportOutcome, NoAnswer
  <2> QED
    BY <2>1, <2>2, <1>3 DEF Unanswered, Judged, NoAnswer, Says
<1>4. CASE D!Usable(config) /\ call = "answered" /\ unread
  BY <1>4 DEF D!Outcome, Unanswered, Judged, Says
<1>5. CASE D!Usable(config) /\ call = "answered" /\ ~unread
  <2>1. outcome = D!Decide(config, described, told, roster)
    BY <1>5 DEF D!Outcome
  <2>2. outcome \in Judged
    BY <2>1, Decided DEF Judged
  <2> QED
    BY <2>1, <2>2, <1>5 DEF Judged, Says
<1> QED
  BY <1>1, <1>2, <1>3, <1>4, <1>5 DEF Calls

\* For every device.json, every answer and every roster, a sync settles (sync.rs,
\* decide, updated and ending_of): the same answer judged again asks for nothing
\* more, nothing unchecked is recorded, nothing of the device's own moves, a run
\* that ends well left the device where the hub has it, and an ending passed over
\* in silence never had an answer.
THEOREM SyncAlwaysSettles ==
  ASSUME NEW config, D!HubFields \cup {"name", "address", "subnet"} \subseteq DOMAIN config,
         NEW call \in Calls, NEW described, NEW told,
         NEW roster, Rostered(roster)
  PROVE  D!SyncSettles(config, call, described, told, roster)
<1> DEFINE outcome == D!Outcome(config, call, described, told, roster)
           kept == D!Kept(config, outcome, told)
           listed == \E i \in DOMAIN roster :
                       D!IsOurs(roster, config.name, i) /\ roster[i].address = config.address
<1>1. /\ outcome \in Unanswered \cup Judged
      /\ outcome = "unreachable" => call \notin {"answered", "401"}
      /\ outcome \in Judged =>
           /\ D!Usable(config) /\ call = "answered"
           /\ ~((described /\ ~D!Checked(told)) \/ ~D!Readable(roster))
           /\ outcome = D!Decide(config, described, told, roster)
  <2>1. Says(outcome, config, call, described, told, roster)
    BY OutcomeFrom
  <2> HIDE DEF outcome
  <2> QED
    BY <2>1 DEF Says
<1>2. outcome \in {"unverifiable", "rewrite", "unchanged"} =>
        /\ call = "answered" /\ listed
        /\ described => told.subnet = config.subnet
        /\ outcome \in {"rewrite", "unchanged"} => described
        /\ outcome = "unverifiable" => ~described
        /\ outcome = "unchanged" => D!Moved(config, told) = {}
  BY <1>1, Decided DEF Judged
<1>3. outcome = "rewrite" =>
        /\ kept = D!Updated(config, told)
        /\ \A f \in D!HubFields : kept[f] = told[f] /\ kept[f] # D!Bad
        /\ D!Outcome(kept, call, described, told, roster) = "unchanged"
  <2> SUFFICES ASSUME outcome = "rewrite"
               PROVE  /\ kept = D!Updated(config, told)
                      /\ \A f \in D!HubFields : kept[f] = told[f] /\ kept[f] # D!Bad
                      /\ D!Outcome(kept, call, described, told, roster) = "unchanged"
    OBVIOUS
  <2>1. kept = D!Updated(config, told)
    BY DEF D!Kept
  <2>2. described /\ call = "answered" /\ listed /\ told.subnet = config.subnet
    BY <1>2
  <2>3. D!Usable(config) /\ D!Checked(told) /\ D!Readable(roster)
    BY <1>1, <2>2 DEF Judged
  <2> HIDE DEF kept, outcome
  <2>4. \A f \in D!HubFields : kept[f] = told[f]
    BY <2>1 DEF D!Updated
  <2>5. \A f \in D!HubFields : kept[f] # D!Bad
    BY <2>3, <2>4 DEF D!Checked
  <2>6. kept.name = config.name /\ kept.address = config.address /\ kept.subnet = config.subnet
    BY <2>1 DEF D!Updated, D!HubFields
  <2>7. D!Usable(kept)
    BY <2>3, <2>5, <2>6 DEF D!Usable, D!HubFields
  <2>8. D!Moved(kept, told) = {}
    BY <2>4 DEF D!Moved
  <2>9. D!Decide(kept, described, told, roster) = "unchanged"
    <3>1. PICK i \in DOMAIN roster :
            D!IsOurs(roster, config.name, i) /\ roster[i].address = config.address
      BY <2>2
    <3>2. \A j \in DOMAIN roster : D!IsOurs(roster, config.name, j) => j = i
      <4>1. PICK n \in Nat : DOMAIN roster = 1 .. n
        BY DEF Rostered
      <4> QED
        BY <3>1, <4>1 DEF D!IsOurs
    <3>3. roster[i].name = kept.name
      BY <2>6, <3>1 DEF D!IsOurs
    <3> QED
      BY <2>2, <2>6, <2>8, <3>1, <3>2, <3>3 DEF D!Decide
  <2> QED
    BY <2>1, <2>2, <2>3, <2>4, <2>5, <2>7, <2>9 DEF D!Outcome
<1>4. outcome # "rewrite" => kept = config
  BY DEF D!Kept
<1>5. D!EndingOf(outcome) = "passed" => outcome = "unreachable"
  BY <1>1 DEF D!EndingOf, Unanswered, Judged
<1>6. D!EndingOf(outcome) = "fine" => outcome \in {"unverifiable", "rewrite", "unchanged"}
  BY DEF D!EndingOf
<1>7. \A f \in DOMAIN config \ D!HubFields : kept[f] = config[f]
  BY <1>3, <1>4 DEF D!Updated
<1>8. kept.subnet = config.subnet
  BY <1>7 DEF D!HubFields
<1>9. D!EndingOf(outcome) = "fine" =>
        /\ call = "answered" /\ listed
        /\ described => told.subnet = kept.subnet /\ \A f \in D!HubFields : kept[f] = told[f]
  <2>1. outcome = "unchanged" => \A f \in D!HubFields : kept[f] = told[f]
    BY <1>2, <1>4 DEF D!Moved
  <2> QED
    BY <1>2, <1>3, <1>6, <1>8, <2>1
<1> HIDE DEF outcome, kept, listed
<1> QED
  BY <1>1, <1>3, <1>4, <1>5, <1>7, <1>9 DEF D!SyncSettles, outcome, kept, listed
================================================================================
