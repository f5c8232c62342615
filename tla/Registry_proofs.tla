---------------------------- MODULE Registry_proofs ----------------------------
(***************************************************************************)
(* Proofs about Registry, for any sets of codes, names and tokens, any     *)
(* size of the subnet and any clock.                                       *)
(***************************************************************************)
EXTENDS Registry, SequenceTheorems, TLAPS

\* The log only names codes that were issued: what lets a newly drawn code
\* be known to have admitted nobody.
LoggedCodesIssued ==
  \A r \in joined : \E i \in DOMAIN codes : codes[i].code = r.code

\* The inductive invariant.
IInv ==
  /\ RegistryTypeOK
  /\ NoShadowedCode
  /\ LoggedCodesIssued
  /\ DevicesDistinct
  /\ OneDevicePerCode
  /\ CodesAccountForDevices
  /\ RedeemedInTime

-----------------------------------------------------------------------------
(* Lemmas on the operators of ServerState.                                 *)

\* A code fresh from `anago code` is well typed and not born expired.
LEMMA FreshIsAlive ==
  ASSUME NEW c \in Codes, NEW at \in Times
  PROVE  /\ Fresh(c, at) \in IssuedCode
         /\ Fresh(c, at).code = c
         /\ Fresh(c, at).used_at = None
         /\ Fresh(c, at).issued_at < Fresh(c, at).expires_at
<1>1. ExpiresAt(at) \in 0 .. MaxInt /\ at < ExpiresAt(at)
  BY TimeAssumption DEF ExpiresAt, Times
<1>. QED
  BY <1>1 DEF Fresh, IssuedCode, None

\* Redeeming a code stamps its entry, an unspent and unexpired one, and
\* leaves every other entry of the history as it was.
LEMMA SpentStampsOne ==
  ASSUME NEW cs \in Seq(IssuedCode), NEW c \in Codes, NEW now \in Times,
         \A i, j \in DOMAIN cs : cs[i].code = cs[j].code => i = j,
         Redeemable(cs, c, now)
  PROVE  /\ Spent(cs, c, now) \in Seq(IssuedCode)
         /\ DOMAIN Spent(cs, c, now) = DOMAIN cs
         /\ \E k \in DOMAIN cs :
              /\ cs[k].code = c
              /\ cs[k].used_at = None
              /\ now < cs[k].expires_at
              /\ Spent(cs, c, now)[k] = [cs[k] EXCEPT !.used_at = now]
              /\ \A i \in DOMAIN cs : i # k =>
                   Spent(cs, c, now)[i] = cs[i] /\ cs[i].code # c
<1>. DEFINE S == Spent(cs, c, now)
<1>1. PICK k \in DOMAIN cs : IsPosition(cs, c, k) /\ Status(cs[k], now) = "usable"
  BY DEF Redeemable
<1>2. cs[k] \in IssuedCode /\ cs[k].code = c
  BY <1>1 DEF IsPosition
<1>3. cs[k].used_at = None /\ now < cs[k].expires_at
  BY <1>1, <1>2 DEF Status, IssuedCode, Times
<1>4. \A i \in DOMAIN cs : i # k => cs[i].code # c /\ ~IsPosition(cs, c, i)
  BY <1>2 DEF IsPosition
<1>5. DOMAIN S = DOMAIN cs
  BY DEF Spent
<1>6. S[k] = [cs[k] EXCEPT !.used_at = now]
  BY <1>1 DEF Spent
<1>7. \A i \in DOMAIN cs : i # k => S[i] = cs[i]
  BY <1>4 DEF Spent
<1>8. S[k] \in IssuedCode
  BY <1>2, <1>6 DEF IssuedCode
<1>9. S \in Seq(IssuedCode)
  <2>1. \A i \in DOMAIN cs : S[i] \in IssuedCode
    BY <1>7, <1>8
  <2>2. S \in [1 .. Len(cs) -> IssuedCode]
    BY <2>1 DEF Spent
  <2>. QED
    BY <2>2, SeqDef, Len(cs) \in Nat
<1>. QED
  BY <1>2, <1>3, <1>4, <1>5, <1>6, <1>7, <1>9

\* The stamp of last_seen changes nothing that identifies a device.
LEMMA TouchedKeepsIdentity ==
  ASSUME NEW ps \in SUBSET Peer, NEW t \in Tokens, NEW now \in Times
  PROVE  /\ Touched(ps, t, now) \in SUBSET Peer
         /\ \A q \in Touched(ps, t, now) : \E p \in ps :
              /\ q.name = p.name
              /\ q.address = p.address
              /\ q.token = p.token
              /\ q.created_at = p.created_at
              /\ q = IF p.token = t THEN [p EXCEPT !.last_seen = now] ELSE p
BY DEF Touched, Peer

\* Removing and stamping, in any combination, keep devices distinct and
\* accounted for: both only ever drop devices or restamp them.
LEMMA FewerDevices ==
  ASSUME IInv, NEW t \in Tokens, NEW now \in Times,
         NEW ps \in SUBSET peers,
         peers' = ps \/ peers' = Touched(ps, t, now),
         codes' = codes, joined' = joined, clock' \in Times
  PROVE  IInv'
<1>1. ps \in SUBSET Peer
  BY DEF IInv, RegistryTypeOK
<1>2. peers' \in SUBSET Peer
  BY <1>1, TouchedKeepsIdentity
<1>3. \A q \in peers' : \E p \in peers :
        /\ q.name = p.name
        /\ q.address = p.address
        /\ q.token = p.token
        /\ q.created_at = p.created_at
        /\ q = p \/ (p.token = t /\ q = [p EXCEPT !.last_seen = now])
  BY <1>1, TouchedKeepsIdentity
<1>4. \A q, r \in peers' : q.token = r.token => q = r
  <2>. SUFFICES ASSUME NEW q \in peers', NEW r \in peers', q.token = r.token
                PROVE  q = r
    OBVIOUS
  <2>1. CASE peers' = ps
    BY <2>1 DEF IInv, DevicesDistinct
  <2>2. CASE peers' = Touched(ps, t, now)
    <3>1. PICK p \in ps : /\ q.token = p.token
                          /\ q = IF p.token = t THEN [p EXCEPT !.last_seen = now] ELSE p
      BY <1>1, <2>2, TouchedKeepsIdentity
    <3>2. PICK s \in ps : /\ r.token = s.token
                          /\ r = IF s.token = t THEN [s EXCEPT !.last_seen = now] ELSE s
      BY <1>1, <2>2, TouchedKeepsIdentity
    <3>3. p = s
      BY <3>1, <3>2 DEF IInv, DevicesDistinct
    <3>. QED
      BY <3>1, <3>2, <3>3
  <2>. QED
    BY <2>1, <2>2
<1>5. DevicesDistinct'
  <2>. SUFFICES ASSUME NEW q \in peers', NEW r \in peers',
                       q.name = r.name \/ q.address = r.address \/ q.token = r.token
                PROVE  q = r
    BY DEF DevicesDistinct
  <2>1. q.token = r.token
    BY <1>3 DEF IInv, DevicesDistinct
  <2>. QED
    BY <2>1, <1>4
<1>6. CodesAccountForDevices'
  BY <1>3 DEF IInv, CodesAccountForDevices
<1>. QED
  BY <1>2, <1>5, <1>6
     DEF IInv, RegistryTypeOK, NoShadowedCode, LoggedCodesIssued, OneDevicePerCode, RedeemedInTime

-----------------------------------------------------------------------------
(* One lemma per operation.                                                *)

LEMMA InitInv == RegistryInit => IInv
BY DEF RegistryInit, IInv, RegistryTypeOK, NoShadowedCode, LoggedCodesIssued, DevicesDistinct,
       OneDevicePerCode, CodesAccountForDevices, RedeemedInTime

\* Issuing appends an entry for a string the history does not hold.
LEMMA IssueInv ==
  ASSUME IInv, NEW c \in Codes, NEW at \in Times, Issue(c, at)
  PROVE  IInv'
<1>. USE DEF Issue
<1>1. /\ codes' \in Seq(IssuedCode)
      /\ Len(codes') = Len(codes) + 1
      /\ DOMAIN codes' = 1 .. Len(codes) + 1
      /\ \A i \in DOMAIN codes : codes'[i] = codes[i]
      /\ codes'[Len(codes) + 1] = Fresh(c, at)
  BY FreshIsAlive DEF IInv, RegistryTypeOK
<1>2. Len(codes) \in Nat /\ DOMAIN codes = 1 .. Len(codes)
  BY DEF IInv, RegistryTypeOK
<1>3. \A i \in DOMAIN codes : codes[i].code # c
  BY DEF Unissued, IssuedStrings
<1>4. \A r \in joined : r.code # c
  BY <1>3 DEF IInv, LoggedCodesIssued
<1>5. NoShadowedCode'
  BY <1>1, <1>2, <1>3, FreshIsAlive DEF IInv, NoShadowedCode
<1>6. LoggedCodesIssued'
  BY <1>1, <1>2 DEF IInv, LoggedCodesIssued
<1>7. CodesAccountForDevices'
  <2>1. \A i \in DOMAIN codes' :
          codes'[i].used_at # None <=> \E r \in joined : r.code = codes'[i].code
    BY <1>1, <1>2, <1>4, FreshIsAlive DEF IInv, CodesAccountForDevices
  <2>2. \A p \in peers : \E r \in joined : \E i \in DOMAIN codes' :
          r.token = p.token /\ r.code = codes'[i].code /\ codes'[i].used_at = p.created_at
    BY <1>1, <1>2 DEF IInv, CodesAccountForDevices
  <2>. QED
    BY <2>1, <2>2 DEF CodesAccountForDevices
<1>8. RedeemedInTime'
  BY <1>1, <1>2, FreshIsAlive DEF IInv, RedeemedInTime
<1>9. RegistryTypeOK' /\ DevicesDistinct' /\ OneDevicePerCode'
  BY <1>1 DEF IInv, RegistryTypeOK, DevicesDistinct, OneDevicePerCode
<1>. QED
  BY <1>5, <1>6, <1>7, <1>8, <1>9 DEF IInv

\* A join adds one device under a free name, a free address and a new
\* token, and stamps the one entry that admits it.
LEMMA JoinInv ==
  ASSUME IInv, NEW c \in Codes, NEW n \in Names, NEW t \in Tokens, Join(c, n, t)
  PROVE  IInv'
<1>1. PICK a \in Hosts : /\ IsAllocated(peers, a)
                         /\ peers' = peers \cup {NewPeer(n, a, t, clock)}
  BY DEF Join
<1>2. /\ t \in FreshTokens
      /\ Redeemable(codes, c, clock)
      /\ ~NameTaken(peers, n)
      /\ codes' = Spent(codes, c, clock)
      /\ joined' = joined \cup {[code |-> c, token |-> t]}
      /\ clock' = clock
      /\ clock \in Times
  BY DEF Join, IInv, RegistryTypeOK
<1>3. /\ codes' \in Seq(IssuedCode)
      /\ DOMAIN codes' = DOMAIN codes
      /\ \E k \in DOMAIN codes :
           /\ codes[k].code = c
           /\ codes[k].used_at = None
           /\ clock < codes[k].expires_at
           /\ codes'[k] = [codes[k] EXCEPT !.used_at = clock]
           /\ \A i \in DOMAIN codes : i # k => codes'[i] = codes[i] /\ codes[i].code # c
  <2>1. codes \in Seq(IssuedCode) /\ \A i, j \in DOMAIN codes : codes[i].code = codes[j].code => i = j
    BY DEF IInv, RegistryTypeOK, NoShadowedCode
  <2>. QED
    BY <1>2, <2>1, SpentStampsOne
<1>4. PICK k \in DOMAIN codes :
           /\ codes[k].code = c
           /\ codes[k].used_at = None
           /\ clock < codes[k].expires_at
           /\ codes'[k] = [codes[k] EXCEPT !.used_at = clock]
           /\ \A i \in DOMAIN codes : i # k => codes'[i] = codes[i] /\ codes[i].code # c
  BY <1>3
<1>5. codes[k] \in IssuedCode
  BY DEF IInv, RegistryTypeOK
<1>6. /\ codes'[k].code = c
      /\ codes'[k].used_at = clock
      /\ clock # None
      /\ codes'[k].issued_at = codes[k].issued_at
      /\ codes'[k].expires_at = codes[k].expires_at
  BY <1>2, <1>4, <1>5 DEF IssuedCode, Times, None
<1>7. \A i \in DOMAIN codes : codes'[i].code = codes[i].code
  BY <1>4, <1>6
<1>16. PICK new \in joined' : new.code = c /\ new.token = t
  <2>1. [code |-> c, token |-> t] \in joined'
    BY <1>2
  <2>2. /\ [code |-> c, token |-> t].code = c
        /\ [code |-> c, token |-> t].token = t
    OBVIOUS
  <2>. QED
    BY <2>1, <2>2, Zenon
<1>8. \A r \in joined : r.code # c /\ r.token # t
  BY <1>2, <1>4 DEF IInv, CodesAccountForDevices, FreshTokens
<1>9. \A p \in peers : p.token # t
  BY <1>8 DEF IInv, CodesAccountForDevices
<1>10. RegistryTypeOK'
  <2>1. NewPeer(n, a, t, clock) \in Peer
    BY <1>2 DEF NewPeer, Peer
  <2>. QED
    BY <1>1, <1>2, <1>3, <2>1 DEF IInv, RegistryTypeOK, Registration
<1>11. DevicesDistinct'
  <2>1. \A p \in peers : p.name # n /\ p.address # a /\ p.token # t
    BY <1>1, <1>2, <1>9 DEF NameTaken, IsAllocated, FreeHosts
  <2>. QED
    BY <1>1, <2>1 DEF NewPeer, IInv, DevicesDistinct
<1>12. NoShadowedCode'
  BY <1>3, <1>7 DEF IInv, NoShadowedCode
<1>13. LoggedCodesIssued'
  BY <1>2, <1>3, <1>6, <1>7 DEF IInv, LoggedCodesIssued
<1>14. OneDevicePerCode'
  BY <1>2, <1>8 DEF IInv, OneDevicePerCode
<1>15. CodesAccountForDevices'
  <2>1. ASSUME NEW i \in DOMAIN codes'
        PROVE  codes'[i].used_at # None <=> \E r \in joined' : r.code = codes'[i].code
    <3>1. CASE i = k
      BY <1>6, <1>16, <3>1
    <3>2. CASE i # k
      <4>1. codes'[i] = codes[i] /\ codes[i].code # c
        BY <1>3, <1>4, <3>2, <2>1
      <4>. QED
        BY <1>2, <1>3, <2>1, <4>1 DEF IInv, CodesAccountForDevices
    <3>. QED
      BY <3>1, <3>2
  <2>2. ASSUME NEW p \in peers'
        PROVE  \E r \in joined' : \E i \in DOMAIN codes' :
                 r.token = p.token /\ r.code = codes'[i].code /\ codes'[i].used_at = p.created_at
    <3>1. CASE p \in peers
      <4>1. PICK r \in joined, i \in DOMAIN codes :
              r.token = p.token /\ r.code = codes[i].code /\ codes[i].used_at = p.created_at
        BY <3>1 DEF IInv, CodesAccountForDevices
      <4>2. i # k
        BY <1>4, <1>8, <4>1
      <4>. QED
        BY <1>2, <1>3, <1>4, <4>1, <4>2
    <3>2. CASE p = NewPeer(n, a, t, clock)
      BY <1>3, <1>6, <1>16, <3>2 DEF NewPeer
    <3>. QED
      BY <1>1, <2>2, <3>1, <3>2
  <2>. QED
    BY <2>1, <2>2 DEF CodesAccountForDevices
<1>17. RedeemedInTime'
  <2>1. RedeemedInTime
    BY DEF IInv
  <2>2. ASSUME NEW i \in DOMAIN codes, i # k PROVE codes'[i] = codes[i]
    BY <1>4, <2>2
  <2>3. ASSUME NEW i \in DOMAIN codes
        PROVE  /\ codes'[i].issued_at < codes'[i].expires_at
               /\ codes'[i].used_at # None => codes'[i].used_at < codes'[i].expires_at
    <3>1. CASE i = k
      BY <1>4, <1>6, <2>1, <3>1 DEF RedeemedInTime
    <3>2. CASE i # k
      BY <2>1, <2>2, <3>2 DEF RedeemedInTime
    <3>. QED
      BY <3>1, <3>2
  <2>4. DOMAIN codes' = DOMAIN codes
    BY <1>3
  <2>. QED
    BY <2>3, <2>4 DEF RedeemedInTime
<1>. QED
  BY <1>10, <1>11, <1>12, <1>13, <1>14, <1>15, <1>17 DEF IInv

\* Neither kind of removal, nor listing, nor the clock disturbs the rest.
LEMMA ListPeersInv ==
  ASSUME IInv, NEW t \in Tokens, ListPeers(t)
  PROVE  IInv'
BY FewerDevices DEF ListPeers, IInv, RegistryTypeOK

LEMMA RemoveByDeviceInv ==
  ASSUME IInv, NEW t \in Tokens, NEW n \in Names, RemoveByDevice(t, n)
  PROVE  IInv'
<1>1. Without(peers, n) \in SUBSET peers
  BY DEF Without
<1>. QED
  BY <1>1, FewerDevices DEF RemoveByDevice, IInv, RegistryTypeOK

LEMMA RemoveByOperatorInv ==
  ASSUME IInv, NEW n \in Names, RemoveByOperator(n)
  PROVE  IInv'
<1>1. PICK p \in peers : p.name = n
  BY DEF RemoveByOperator, NameTaken
<1>2. p.token \in Tokens
  BY <1>1 DEF IInv, RegistryTypeOK, Peer
<1>3. Without(peers, n) \in SUBSET peers
  BY DEF Without
<1>. QED
  BY <1>2, <1>3, FewerDevices DEF RemoveByOperator, IInv, RegistryTypeOK

LEMMA SetClockInv == IInv /\ SetClock => IInv'
BY DEF SetClock, IInv, RegistryTypeOK, NoShadowedCode, LoggedCodesIssued, DevicesDistinct,
       OneDevicePerCode, CodesAccountForDevices, RedeemedInTime

LEMMA NextInv == IInv /\ [RegistryNext]_registryVars => IInv'
<1>. SUFFICES ASSUME IInv, [RegistryNext]_registryVars
              PROVE  IInv'
  OBVIOUS
<1>1. CASE \E c \in Codes, at \in Times : Issue(c, at)
  BY <1>1, IssueInv
<1>2. CASE \E c \in Codes, n \in Names, t \in Tokens : Join(c, n, t)
  BY <1>2, JoinInv
<1>3. CASE \E t \in Tokens : ListPeers(t)
  BY <1>3, ListPeersInv
<1>4. CASE \E t \in Tokens, n \in Names : RemoveByDevice(t, n)
  BY <1>4, RemoveByDeviceInv
<1>5. CASE \E n \in Names : RemoveByOperator(n)
  BY <1>5, RemoveByOperatorInv
<1>6. CASE SetClock
  BY <1>6, SetClockInv
<1>7. CASE UNCHANGED registryVars
  BY <1>7 DEF registryVars, IInv, RegistryTypeOK, NoShadowedCode, LoggedCodesIssued, DevicesDistinct,
              OneDevicePerCode, CodesAccountForDevices, RedeemedInTime
<1>. QED
  BY <1>1, <1>2, <1>3, <1>4, <1>5, <1>6, <1>7 DEF RegistryNext

\* No step drops, reorders or un-spends an entry of the history.
LEMMA EntriesKept ==
  ASSUME IInv, [RegistryNext]_registryVars, NEW i \in DOMAIN codes
  PROVE  /\ i \in DOMAIN codes'
         /\ \/ codes'[i] = codes[i]
            \/ /\ codes[i].used_at = None
               /\ codes'[i] = [codes[i] EXCEPT !.used_at = codes'[i].used_at]
<1>1. codes[i] \in IssuedCode
  BY DEF IInv, RegistryTypeOK
<1>2. CASE \E c \in Codes, at \in Times : Issue(c, at)
  <2>1. codes \in Seq(IssuedCode)
    BY DEF IInv, RegistryTypeOK
  <2>. QED
    BY <1>2, <2>1, FreshIsAlive DEF Issue
<1>3. CASE \E c \in Codes, n \in Names, t \in Tokens : Join(c, n, t)
  <2>1. PICK c \in Codes : Redeemable(codes, c, clock) /\ codes' = Spent(codes, c, clock)
    BY <1>3 DEF Join
  <2>2. /\ codes \in Seq(IssuedCode)
        /\ clock \in Times
        /\ \A j, k \in DOMAIN codes : codes[j].code = codes[k].code => j = k
    BY DEF IInv, RegistryTypeOK, NoShadowedCode
  <2>3. /\ DOMAIN Spent(codes, c, clock) = DOMAIN codes
        /\ \E k \in DOMAIN codes :
             /\ codes[k].code = c
             /\ codes[k].used_at = None
             /\ clock < codes[k].expires_at
             /\ Spent(codes, c, clock)[k] = [codes[k] EXCEPT !.used_at = clock]
             /\ \A j \in DOMAIN codes : j # k =>
                  Spent(codes, c, clock)[j] = codes[j] /\ codes[j].code # c
    BY <2>1, <2>2, SpentStampsOne
  <2>4. [codes[i] EXCEPT !.used_at = clock].used_at = clock
    BY <1>1 DEF IssuedCode
  <2>5. PICK k \in DOMAIN codes :
             /\ codes[k].used_at = None
             /\ codes'[k] = [codes[k] EXCEPT !.used_at = clock]
             /\ \A j \in DOMAIN codes : j # k => codes'[j] = codes[j]
    BY <2>1, <2>3
  <2>6. i \in DOMAIN codes'
    BY <2>1, <2>3
  <2>7. CASE i = k
    BY <2>4, <2>5, <2>6, <2>7
  <2>8. CASE i # k
    BY <2>5, <2>6, <2>8
  <2>. QED
    BY <2>7, <2>8
<1>4. CASE codes' = codes
  BY <1>4
<1>. QED
  BY <1>2, <1>3, <1>4 DEF RegistryNext, ListPeers, RemoveByDevice, RemoveByOperator, SetClock, registryVars

-----------------------------------------------------------------------------
(* The theorems.                                                           *)

\* The inductive invariant holds in every state of every behaviour.
THEOREM Inductive == RegistrySpec => []IInv
BY InitInv, NextInv, PTL DEF RegistrySpec

\* Every variable keeps its type: in particular no operation ever hands out
\* an address outside 2 .. LastHost or writes an entry that is not a code.
THEOREM TypeCorrect == RegistrySpec => []RegistryTypeOK
<1>1. IInv => RegistryTypeOK
  BY DEF IInv
<1>. QED
  BY <1>1, Inductive, PTL

\* add_peer and remove_peer never leave two devices sharing a name, an
\* address or a token, for any subnet size and any history.
THEOREM DevicesAlwaysDistinct == RegistrySpec => []DevicesDistinct
<1>1. IInv => DevicesDistinct
  BY DEF IInv
<1>. QED
  BY <1>1, Inductive, PTL

\* No usable code has a spent entry of the same string before it, which
\* add_peer would find first and refuse.
THEOREM CodesNeverShadowed == RegistrySpec => []NoShadowedCode
<1>1. IInv => NoShadowedCode
  BY DEF IInv
<1>. QED
  BY <1>1, Inductive, PTL

\* A join code admits at most one device, ever.
THEOREM CodeAdmitsOneDevice == RegistrySpec => []OneDevicePerCode
<1>1. IInv => OneDevicePerCode
  BY DEF IInv
<1>. QED
  BY <1>1, Inductive, PTL

\* The spent entries are exactly the codes devices were admitted with.
THEOREM HistoryAccountsForDevices == RegistrySpec => []CodesAccountForDevices
<1>1. IInv => CodesAccountForDevices
  BY DEF IInv
<1>. QED
  BY <1>1, Inductive, PTL

\* No redemption happens at or after the expiry, saturated ones included.
THEOREM RedemptionsInTime == RegistrySpec => []RedeemedInTime
<1>1. IInv => RedeemedInTime
  BY DEF IInv
<1>. QED
  BY <1>1, Inductive, PTL

\* The code history is append-only but for the one stamp each entry gets.
THEOREM AuditTrailKept == RegistrySpec => HistoryKept
<1>1. IInv /\ [RegistryNext]_registryVars =>
        [\A i \in DOMAIN codes :
           /\ i \in DOMAIN codes'
           /\ \/ codes'[i] = codes[i]
              \/ /\ codes[i].used_at = None
                 /\ codes'[i] = [codes[i] EXCEPT !.used_at = codes'[i].used_at]]_registryVars
  BY EntriesKept
<1>. QED
  BY <1>1, Inductive, PTL DEF RegistrySpec, HistoryKept
=============================================================================
