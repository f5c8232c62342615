------------------------------- MODULE Registry -------------------------------
(***************************************************************************)
(* What the hub promises about its registrations: every operation on the   *)
(* state file as one atomic step.  Hub shows that the locked               *)
(* read-modify-write of the real processes implements this specification.  *)
(*                                                                         *)
(* `joined` is a history variable: the code and the token of every device  *)
(* that was ever accepted.  The program keeps no such log; the properties  *)
(* use it to speak of devices that were removed since.                     *)
(***************************************************************************)
EXTENDS ServerState

VARIABLES
  clock,   \* what now() reads; it may step either way
  codes,   \* codes[] of the state file
  peers,   \* peers[] of the state file
  joined   \* history: every registration ever made

registryVars == <<clock, codes, peers, joined>>

Registration == [code: Codes, token: Tokens]

RegistryInit ==
  /\ clock \in Times
  /\ codes = <<>>
  /\ peers = {}
  /\ joined = {}

-----------------------------------------------------------------------------
(* Tokens are 256 random bits: a draw never repeats an earlier one.        *)
FreshTokens == Tokens \ {j.token : j \in joined}

\* `anago code`.  The command reads the clock before it waits for the lock,
\* so the issue time is some time, not necessarily the present one.
Issue(c, at) ==
  /\ c \in Unissued(codes)
  /\ codes' = Append(codes, Fresh(c, at))
  /\ UNCHANGED <<clock, peers, joined>>

\* Mutation: the code is stamped before the name and the address are settled.
JoinStampingFirst(c, n, t) ==
  /\ t \in FreshTokens
  /\ Redeemable(codes, c, clock)
  /\ codes' = Spent(codes, c, clock)
  /\ \/ NameTaken(peers, n) /\ UNCHANGED <<peers, joined>>
     \/ /\ ~NameTaken(peers, n)
        /\ \E a \in Hosts :
             /\ IsAllocated(peers, a)
             /\ peers' = peers \cup {NewPeer(n, a, t, clock)}
        /\ joined' = joined \cup {[code |-> c, token |-> t]}
  /\ UNCHANGED clock

\* POST /join with code c, name n and the freshly minted token t.
Join(c, n, t) ==
  /\ t \in FreshTokens
  /\ Redeemable(codes, c, clock)
  /\ ~NameTaken(peers, n)
  /\ \E a \in Hosts :
       /\ IsAllocated(peers, a)
       /\ peers' = peers \cup {NewPeer(n, a, t, clock)}
  /\ codes' = Spent(codes, c, clock)
  /\ joined' = joined \cup {[code |-> c, token |-> t]}
  /\ UNCHANGED clock

\* GET /peers by the device holding token t: stamps last_seen.
ListPeers(t) ==
  /\ Caller(peers, t) # {}
  /\ peers' = Touched(peers, t, clock)
  /\ UNCHANGED <<clock, codes, joined>>

\* DELETE /peers/n by the device holding token t.  A device that removed
\* itself is gone before the stamp.
RemoveByDevice(t, n) ==
  /\ Caller(peers, t) # {}
  /\ NameTaken(peers, n)
  /\ peers' = Touched(Without(peers, n), t, clock)
  /\ UNCHANGED <<clock, codes, joined>>

\* `anago rm n` typed on the hub: no token, no stamp.
RemoveByOperator(n) ==
  /\ NameTaken(peers, n)
  /\ peers' = Without(peers, n)
  /\ UNCHANGED <<clock, codes, joined>>

\* Time passes, or an administrator or NTP sets the clock, back too.
SetClock ==
  /\ clock' \in Times
  /\ UNCHANGED <<codes, peers, joined>>

RegistryNext ==
  \/ \E c \in Codes, at \in Times : Issue(c, at)
  \/ \E c \in Codes, n \in Names, t \in Tokens : Join(c, n, t)
  \/ \E t \in Tokens : ListPeers(t)
  \/ \E t \in Tokens, n \in Names : RemoveByDevice(t, n)
  \/ \E n \in Names : RemoveByOperator(n)
  \/ SetClock

RegistrySpec == RegistryInit /\ [][RegistryNext]_registryVars

-----------------------------------------------------------------------------
(* Invariants.                                                             *)

\* Every variable keeps its type; addresses stay inside the assignable hosts.
RegistryTypeOK ==
  /\ clock \in Times
  /\ codes \in Seq(IssuedCode)
  /\ peers \in SUBSET Peer
  /\ joined \in SUBSET Registration

\* No two registered devices share a name, an address or a token, whatever
\* sequence of joins and removals led here (add_peer, Subnet::allocate).
DevicesDistinct ==
  \A p, q \in peers :
    p.name = q.name \/ p.address = q.address \/ p.token = q.token => p = q

\* Every issued string has one entry, so the first entry a lookup finds is
\* the code that was printed and never an older, spent one (choose_unused).
NoShadowedCode ==
  \A i, j \in DOMAIN codes : codes[i].code = codes[j].code => i = j

\* A join code admits one device in the life of the hub, even after that
\* device was removed (CodeStatus::Used is permanent).
OneDevicePerCode ==
  \A r, s \in joined : r.code = s.code => r = s

\* An entry carries a redemption time exactly when a device was admitted
\* with it, and every registered device was: neither a refused join burns
\* a code nor does a device enter without one (add_peer is all or nothing).
CodesAccountForDevices ==
  /\ \A i \in DOMAIN codes :
       codes[i].used_at # None <=> \E r \in joined : r.code = codes[i].code
  /\ \A p \in peers : \E r \in joined : \E i \in DOMAIN codes :
       /\ r.token = p.token
       /\ r.code = codes[i].code
       /\ codes[i].used_at = p.created_at

\* No code is redeemed at or after its expiry, and none is born expired by
\* an expiry that wrapped round (status, expires_at).
RedeemedInTime ==
  \A i \in DOMAIN codes :
    /\ codes[i].issued_at < codes[i].expires_at
    /\ codes[i].used_at # None => codes[i].used_at < codes[i].expires_at

-----------------------------------------------------------------------------
(* Action properties.                                                      *)

\* The code history is an audit trail: entries are never dropped, reordered
\* or un-spent, and the only change to one is its single redemption.
HistoryKept ==
  [][\A i \in DOMAIN codes :
       /\ i \in DOMAIN codes'
       /\ \/ codes'[i] = codes[i]
          \/ /\ codes[i].used_at = None
             /\ codes'[i] = [codes[i] EXCEPT !.used_at = codes'[i].used_at]]_registryVars
=============================================================================
