------------------------------- MODULE MCSetup -------------------------------
(* What is done to a machine, one concern at a time: `server init` on a     *)
(* hub, the registrations its state file keeps, the sync schedule on a      *)
(* device, or the writing of one of anago's files.  The four share nothing; *)
(* a behaviour is one of them.                                              *)
EXTENDS Registry, Initialize, Timer, Files, TLC

VARIABLE which

ASSUME KindsAssumption /\ TimerBoundsAssumption /\ FilesAssumption

setupVars == <<which, registryVars, vars, timerVars, fileVars>>

SetupInit ==
  /\ which \in {"registry", "init", "timer", "files"}
  /\ RegistryInit
  /\ Init
  /\ TimerInit
  /\ FilesInit
  /\ which # "registry" => clock = 0
  /\ which # "timer" => kind = "neither" /\ ~enrolled
  /\ which # "files" => umask = {} /\ \A n \in Entries : dir[n] = Nil

SetupNext ==
  \/ which = "registry" /\ RegistryNext /\ UNCHANGED <<which, vars, timerVars, fileVars>>
  \/ which = "init" /\ Next /\ UNCHANGED <<which, registryVars, timerVars, fileVars>>
  \/ which = "timer" /\ TimerNext /\ UNCHANGED <<which, registryVars, vars, fileVars>>
  \/ which = "files" /\ FilesNext /\ UNCHANGED <<which, registryVars, vars, timerVars>>

(* All four are only compared for equality.                                 *)
Symmetry ==
  Permutations(Runs) \cup Permutations(CAs) \cup Permutations(Writers) \cup Permutations(Pids)

SetupSpec == SetupInit /\ [][SetupNext]_setupVars
=============================================================================
