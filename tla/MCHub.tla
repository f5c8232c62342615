-------------------------------- MODULE MCHub --------------------------------
(* Model values for Hub, and the state files the runs start from.  Each of  *)
(* them is one that Registry reaches: codes issued at time 0, the members   *)
(* admitted with them at time 0.                                            *)
EXTENDS Hub, TLC

CONSTANTS c1, c2, c3, n1, n2, n3, t1, t2, t3

Usable(c) == Fresh(c, 0)
Redeemed(c) == [Fresh(c, 0) EXCEPT !.used_at = 0]
Admitted(c, t) == [code |-> c, token |-> t]
Member(n, a, t) == NewPeer(n, a, t, 0)

\* One device and a code for a second one.
OneDevice ==
  InitWith([codes |-> <<Redeemed(c1), Usable(c2)>>, peers |-> {Member(n1, 2, t1)}],
           {Admitted(c1, t1)})

\* Two devices and a code for a third.
TwoDevices ==
  InitWith([codes |-> <<Redeemed(c1), Redeemed(c2), Usable(c3)>>,
            peers |-> {Member(n1, 2, t1), Member(n2, 3, t2)}],
           {Admitted(c1, t1), Admitted(c2, t2)})

OneDeviceSpec == OneDevice /\ [][Next]_vars
TwoDevicesSpec == TwoDevices /\ [][Next]_vars
FairSpec == OneDeviceSpec /\ Fairness

\* Threads are interchangeable, and so are the names and tokens no device of
\* OneDevice has.
OneDeviceSymmetry == Permutations(Handlers) \cup Permutations(Tokens \ {t1})

\* From an empty file nothing is told apart yet.
EmptySymmetry == Permutations(Codes) \cup Permutations(Names) \cup Permutations(Tokens)
=============================================================================
