--------------------------------- MODULE Files ---------------------------------
(***************************************************************************)
(* How anago puts one of its own files in place (fsutil.rs): through a     *)
(* temporary name beside it, by a rename when the file may be replaced and *)
(* by a hard link when it must be new, step by step as the file system     *)
(* sees it.  Runs of the program work beside each other in one directory;  *)
(* any step of one may fail, a run may be killed between two steps, and    *)
(* the machine may lose power.                                             *)
(***************************************************************************)
EXTENDS FiniteSets, Integers

CONSTANTS
  Writers,              \* runs of the program, each writing the file once
  Pids,                 \* process ids; a run may get the id of a dead one
  MaxErrors,            \* steps that fail
  MaxCuts               \* runs killed, and power cuts

\* A file is named for the run that made it; two were there before.
Old == "old"          \* what the target held
Stale == "stale"        \* what a killed run left at a temporary name, readable by all
Nodes == Writers \cup {Old, Stale}
Nil == "none"

\* write_private and its kin, write_system, one half of write_private_pair,
\* create_new_private, and the two of a DirHandle.
Operations == {"write_private", "write_system", "pair_half", "create_new", "handle_write",
               "handle_create"}
InDotTmp == {"write_private", "write_system", "pair_half"}
MustBeNew == {"create_new", "handle_create"}
InHandle == {"handle_write", "handle_create"}

\* Who may read a file.
ModeAsked(op) == IF op = "write_system" THEN {"owner", "others"} ELSE {"owner"}

\* The names of the directory: the target, its .tmp, and one .<pid>.tmp a process.
Target == "target"
Shared == ".tmp"
Entries == {Target, Shared} \cup Pids

FilesAssumption ==
  /\ MaxErrors \in Nat /\ MaxCuts \in Nat
  /\ Writers \cap {Old, Stale, Nil} = {}
  /\ Pids \cap {Target, Shared} = {}

VARIABLES
  dir,                  \* what each name holds
  disk,                 \* what the directory is known to hold after a power cut
  node,                 \* the files
  writer,               \* the runs
  umask,                \* the bits the shell takes away
  errors, cuts

fileVars == <<dir, disk, node, writer, umask, errors, cuts>>

Idle == [at |-> "idle", op |-> Nil, pid |-> Nil, owner |-> Nil, fault |-> FALSE]
Over == {"idle", "done", "failed", "killed"}
Live == {w \in Writers : writer[w].at \notin Over}

\* temp_sibling, unique_temp_sibling and temp_name.
Temp(w) == IF writer[w].op \in InDotTmp THEN Shared ELSE writer[w].pid

NoFile == [text |-> Nil, mode |-> {}, owner |-> Nil, durable |-> FALSE]
Held == [text |-> "whole", mode |-> {"owner"}, owner |-> "user", durable |-> TRUE]

FilesInit ==
  /\ dir \in [Entries -> Nodes \cup {Nil}]
  /\ dir[Target] \in {Nil, Old}
  /\ \A n \in Entries \ {Target} : dir[n] \in {Nil, Stale}
  /\ Cardinality({n \in Entries : dir[n] = Stale}) <= 1
  /\ disk = dir
  /\ node = [n \in Nodes |->
       CASE n = Old   -> Held
         [] n = Stale -> [Held EXCEPT !.text = "part", !.mode = {"owner", "others"}]
         [] OTHER     -> NoFile]
  /\ writer = [w \in Writers |-> Idle]
  /\ umask \in {{}, {"others"}}
  /\ errors = 0 /\ cuts = 0

Go(w, at) == writer' = [writer EXCEPT ![w].at = at]
Unlink(n) == dir' = [dir EXCEPT ![n] = Nil]
InPlace == UNCHANGED <<disk, umask, errors, cuts>>
Err == errors < MaxErrors /\ errors' = errors + 1

-----------------------------------------------------------------------------
(* A run.                                                                  *)

\* The writers that share the .tmp hold a lock of their caller's (state.lock,
\* issue.lock) for as long as they write.  Under sudo a file in somebody's home
\* is given to that person.
Begin(w, op, pid, owner) ==
  /\ writer[w].at = "idle"
  /\ \A v \in Live : writer[v].pid # pid
  /\ op \in InDotTmp => \A v \in Live : Temp(v) # Shared
  /\ owner = "user" => op \in InHandle
  /\ writer' = [writer EXCEPT ![w] = [at |-> IF op = "create_new" THEN "create" ELSE "clear",
                                op |-> op, pid |-> pid, owner |-> owner, fault |-> FALSE]]
  /\ UNCHANGED <<dir, node>> /\ InPlace

\* replace_with, and remove(..).or_else(ignore_missing): a temporary file that a
\* killed run left does not stop this one.
Clear(w) ==
  /\ writer[w].at = "clear"
  /\ Unlink(Temp(w)) /\ Go(w, "create")
  /\ UNCHANGED node /\ InPlace

\* Mutation: what is left at the temporary name is opened and written over.
CreateReusing(w) ==
  /\ writer[w].at = "create"
  /\ dir' = [dir EXCEPT ![Temp(w)] = w]
  /\ node' = [node EXCEPT ![w] = [text |-> "empty", mode |-> IF dir[Temp(w)] = Nil
                                    THEN ModeAsked(writer[w].op) \ umask ELSE node[dir[Temp(w)]].mode,
                                  owner |-> "root", durable |-> FALSE]]
  /\ Go(w, IF writer[w].op \in InHandle THEN "write" ELSE "mode")
  /\ InPlace

\* create_new_with and open_file with O_EXCL: only where nothing is.  The mode
\* goes with the open, less what the umask takes.
CreateTemp(w) ==
  /\ writer[w].at = "create" /\ dir[Temp(w)] = Nil
  /\ dir' = [dir EXCEPT ![Temp(w)] = w]
  /\ node' = [node EXCEPT ![w] = [text |-> "empty", mode |-> ModeAsked(writer[w].op) \ umask,
                                  owner |-> "root", durable |-> FALSE]]
  /\ Go(w, IF writer[w].op \in InHandle THEN "write" ELSE "mode")
  /\ InPlace

\* create_new_private takes the name of a dead process's file as a failure.
CreateRefused(w) ==
  /\ writer[w].at = "create" /\ dir[Temp(w)] # Nil
  /\ Go(w, "failed") /\ UNCHANGED <<dir, node>> /\ InPlace

\* fchmod: exactly what was asked for.
SetMode(w) ==
  /\ writer[w].at = "mode"
  /\ node' = [node EXCEPT ![w].mode = ModeAsked(writer[w].op)]
  /\ Go(w, "write") /\ UNCHANGED dir /\ InPlace

\* write_all takes more than one write.
WriteTemp(w) ==
  /\ writer[w].at = "write"
  /\ node' = [node EXCEPT ![w].text = IF @ = "empty" THEN "part" ELSE "whole"]
  /\ Go(w, IF node[w].text = "empty" THEN "write" ELSE "give")
  /\ UNCHANGED dir /\ InPlace

\* give_fd_to, before the file has its name.
Give(w) ==
  /\ writer[w].at = "give"
  /\ node' = [node EXCEPT ![w].owner = writer[w].owner]
  /\ Go(w, "sync") /\ UNCHANGED dir /\ InPlace

\* Mutation: the contents are left to the kernel to write out.
SyncLater(w) ==
  /\ writer[w].at = "sync"
  /\ Go(w, "publish") /\ UNCHANGED <<dir, node>> /\ InPlace

\* sync_all.
Sync(w) ==
  /\ writer[w].at = "sync"
  /\ node' = [node EXCEPT ![w].durable = TRUE]
  /\ Go(w, "publish") /\ UNCHANGED dir /\ InPlace

\* Mutation: the new file takes its name by a rename.
PublishOver(w) ==
  /\ writer[w].at = "publish"
  /\ dir' = [dir EXCEPT ![Target] = dir[Temp(w)], ![Temp(w)] = Nil]
  /\ Go(w, "flush") /\ UNCHANGED node /\ InPlace

\* The rename, or the link: both by name, and the link only to a free one.
Publish(w) ==
  /\ writer[w].at = "publish"
  /\ IF writer[w].op \in MustBeNew
     THEN /\ dir' = IF dir[Target] = Nil THEN [dir EXCEPT ![Target] = dir[Temp(w)]] ELSE dir
          /\ writer' = [writer EXCEPT ![w].at = "tidy", ![w].fault = dir[Target] # Nil]
     ELSE /\ dir' = [dir EXCEPT ![Target] = dir[Temp(w)], ![Temp(w)] = Nil]
          /\ Go(w, "flush")
  /\ UNCHANGED node /\ InPlace

\* Mutation: the temporary name is taken away only from a file that was linked.
TidyLinked(w) ==
  /\ writer[w].at = "tidy"
  /\ IF writer[w].fault THEN UNCHANGED dir ELSE Unlink(Temp(w))
  /\ Go(w, IF writer[w].fault THEN "failed" ELSE "flush")
  /\ UNCHANGED node /\ InPlace

\* The temporary name goes, whether something failed or not.
Tidy(w) ==
  /\ writer[w].at = "tidy"
  /\ Unlink(Temp(w))
  /\ Go(w, IF writer[w].fault THEN "failed" ELSE "flush")
  /\ UNCHANGED node /\ InPlace

\* sync_parent: tried, and its failure is nobody's error.
Flush(w) ==
  /\ writer[w].at = "flush"
  /\ disk' \in {disk, dir}
  /\ Go(w, "done")
  /\ UNCHANGED <<dir, node, umask, errors, cuts>>

-----------------------------------------------------------------------------
(* What goes wrong.                                                        *)

\* Removing the leftover, or the exclusive create, fails.
StartFails(w) ==
  /\ writer[w].at \in {"clear", "create"} /\ Err
  /\ Go(w, "failed") /\ UNCHANGED <<dir, disk, node, umask, cuts>>

\* or_remove and write_temp: what fails after the create takes the file away.
\* Only a file that is somebody's can fail to be given.
StepFails(w) ==
  /\ \/ writer[w].at \in {"mode", "publish"}
     \/ writer[w].at \in {"write", "sync"} /\ writer[w].op # "pair_half"
     \/ writer[w].at = "give" /\ writer[w].owner = "user"
  /\ Err
  /\ writer' = [writer EXCEPT ![w].at = "tidy", ![w].fault = TRUE]
  /\ UNCHANGED <<dir, disk, node, umask, cuts>>

\* prepare_private: a half that cannot be written or synced stays where it is.
HalfFails(w) ==
  /\ writer[w].at \in {"write", "sync"} /\ writer[w].op = "pair_half" /\ Err
  /\ Go(w, "failed") /\ UNCHANGED <<dir, disk, node, umask, cuts>>

Killed(w) ==
  /\ w \in Live /\ cuts < MaxCuts /\ cuts' = cuts + 1
  /\ Go(w, "killed") /\ UNCHANGED <<dir, disk, node, umask, errors>>

\* Nothing runs on; a change of the directory that was not flushed is there or
\* is not, and so is what was written to a file.
PowerCut ==
  /\ cuts < MaxCuts /\ cuts' = cuts + 1
  /\ \E lost \in SUBSET {n \in Entries : dir[n] # disk[n]} :
       dir' = [n \in Entries |-> IF n \in lost THEN disk[n] ELSE dir[n]]
  /\ disk' = dir'
  /\ node' = [n \in Nodes |-> IF node[n].durable \/ node[n].text = Nil THEN node[n]
                              ELSE [node[n] EXCEPT !.text = "part", !.durable = TRUE]]
  /\ writer' = [w \in Writers |-> IF writer[w].at = "idle" THEN Idle ELSE [writer[w] EXCEPT !.at = "killed"]]
  /\ UNCHANGED <<umask, errors>>

FilesNext ==
  \/ PowerCut
  \/ \E w \in Writers :
       \/ \E op \in Operations, pid \in Pids, owner \in {"root", "user"} : Begin(w, op, pid, owner)
       \/ Clear(w) \/ CreateTemp(w) \/ CreateRefused(w) \/ SetMode(w) \/ WriteTemp(w) \/ Give(w)
       \/ Sync(w) \/ Publish(w) \/ Tidy(w) \/ Flush(w)
       \/ StartFails(w) \/ StepFails(w) \/ HalfFails(w) \/ Killed(w)

FilesSpec == FilesInit /\ [][FilesNext]_fileVars

-----------------------------------------------------------------------------
(* Correctness.                                                            *)

\* The name never holds half a file, or one that a power cut could take apart,
\* or one that is not its reader's yet (fsutil.rs: "atomic writes").
NeverHalf ==
  dir[Target] # Nil =>
    LET f == node[dir[Target]] IN
    /\ f.text = "whole" /\ f.durable
    /\ dir[Target] \in Writers =>
         /\ f.owner = writer[dir[Target]].owner
         /\ f.mode = ModeAsked(writer[dir[Target]].op)

\* A secret is never in a file that others may read, at whatever name ("0600
\* from birth").
NeverLoose ==
  \A w \in Writers : node[w].text # Nil => node[w].mode \subseteq ModeAsked(writer[w].op)

\* A run that reports a failure has left nothing of its own, unless it is the half
\* of a pair, which may be left under its .tmp; one that reports success has left
\* nothing but the file.
NothingElse ==
  \A w \in Writers, n \in Entries : dir[n] = w =>
    /\ writer[w].at = "failed" => writer[w].op = "pair_half" /\ n = Shared
    /\ writer[w].at = "done" => n = Target

\* Of several runs that must find the name free, one is told that it made the
\* file; it made it where nothing was, and while nobody replaces it, it stands.
OneCreates ==
  LET created == {w \in Writers : writer[w].at = "done" /\ writer[w].op \in MustBeNew} IN
  /\ Cardinality(created) <= 1
  /\ created # {} => dir[Target] # Old
  /\ \A w \in created :
       dir[Target] = w \/ \E v \in Writers : writer[v].op # Nil /\ writer[v].op \notin MustBeNew

\* A file is in place whole, private and given to its owner, whatever happens; a
\* failure leaves nothing but a half of a pair, and one run makes what must be new.
FilesWhole == NeverHalf /\ NeverLoose /\ NothingElse /\ OneCreates
=============================================================================
