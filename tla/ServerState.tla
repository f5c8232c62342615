----------------------------- MODULE ServerState -----------------------------
(***************************************************************************)
(* The hub's state file as data: what `anago-core/src/state.rs`, `code.rs` *)
(* and `subnet.rs` keep, and the transitions they make on it.  Every       *)
(* operator is a function of its arguments, so that Registry (the atomic   *)
(* promise) and Hub (processes working on copies read under a file lock)   *)
(* translate the same code once.                                           *)
(*                                                                         *)
(* `codes` is the sequence codes[] of the file: add_peer looks a code up   *)
(* by its FIRST entry, so the order matters.  `peers` is a set: a device   *)
(* is only ever found by name or by token.  A peer's `token` stands for    *)
(* its token hash and its public key together, because every join draws a  *)
(* fresh one of each.                                                      *)
(***************************************************************************)
EXTENDS Integers, Sequences, FiniteSets

CONSTANTS
  Codes,    \* the strings `anago code` may draw
  Names,    \* device names, canonical
  Tokens,   \* device tokens the CSPRNG may draw
  LastHost, \* last assignable host octet: 254 in a /24
  Ttl,      \* DEFAULT_TTL_SECS
  MaxTime,  \* the clock reads 0 .. MaxTime
  MaxInt    \* i64::MAX

ASSUME LastHostAssumption == LastHost \in Nat
ASSUME TimeAssumption ==
  /\ Ttl \in Nat \ {0}
  /\ MaxTime \in Nat
  /\ MaxInt \in Nat
  /\ MaxTime < MaxInt

None == -1                       \* Option::None of a Unix time

Times == 0 .. MaxTime
Hosts == 2 .. LastHost           \* .0 network, .1 the server

IssuedCode ==
  [code: Codes, issued_at: Times, expires_at: 0 .. MaxInt, used_at: Times \cup {None}]

Peer ==
  [name: Names, address: Hosts, token: Tokens,
   created_at: Times, last_seen: Times \cup {None}]

-----------------------------------------------------------------------------
(* Join codes.                                                             *)

\* Mutation: the addition wraps round.
ExpiresAtWrapped(at) == (at + Ttl) % (MaxInt + 1)

\* i64::saturating_add of the issue time and the TTL.
ExpiresAt(at) == IF at + Ttl <= MaxInt THEN at + Ttl ELSE MaxInt

\* A code as `anago code` appends it.
Fresh(c, at) ==
  [code |-> c, issued_at |-> at, expires_at |-> ExpiresAt(at), used_at |-> None]

\* Mutation: only the clock decides.
StatusByClock(entry, now) == IF now >= entry.expires_at THEN "expired" ELSE "usable"

\* Mutation: the second of the expiry still counts.
StatusInclusive(entry, now) ==
  IF entry.used_at # None THEN "used"
  ELSE IF now > entry.expires_at THEN "expired"
  ELSE "usable"

Status(entry, now) ==
  IF entry.used_at # None THEN "used"
  ELSE IF now >= entry.expires_at THEN "expired"
  ELSE "usable"

IssuedStrings(codes) == {codes[i].code : i \in DOMAIN codes}

\* Mutation: only codes nobody redeemed are avoided.
UnissuedOrSpent(codes) ==
  Codes \ {codes[i].code : i \in {j \in DOMAIN codes : codes[j].used_at = None}}

\* The codes choose_unused may settle on: absent from the whole history,
\* spent and expired entries included.
Unissued(codes) == Codes \ IssuedStrings(codes)

\* Entry i is the one a lookup of the string c finds.
IsPosition(codes, c, i) ==
  /\ i \in DOMAIN codes
  /\ codes[i].code = c
  /\ \A j \in DOMAIN codes : codes[j].code = c => i <= j

Redeemable(codes, c, now) ==
  \E i \in DOMAIN codes :
    IsPosition(codes, c, i) /\ Status(codes[i], now) = "usable"

\* Mutation: the redemption is not recorded.
SpentUnrecorded(codes, c, now) == codes

\* The history once c is redeemed: its entry, and no other, is stamped.
Spent(codes, c, now) ==
  [i \in DOMAIN codes |->
     IF IsPosition(codes, c, i) THEN [codes[i] EXCEPT !.used_at = now] ELSE codes[i]]

-----------------------------------------------------------------------------
(* Devices.                                                                *)

NameTaken(peers, n) == \E p \in peers : p.name = n

FreeHosts(peers) == Hosts \ {p.address : p \in peers}

\* Subnet::allocate: the lowest free address, if there is one.
IsAllocated(peers, a) ==
  a \in FreeHosts(peers) /\ \A b \in FreeHosts(peers) : a <= b

NewPeer(n, a, t, now) ==
  [name |-> n, address |-> a, token |-> t, created_at |-> now, last_seen |-> None]

\* add_peer's three questions, in the order it asks them.
Verdict(codes, peers, c, n, now) ==
  CASE ~Redeemable(codes, c, now)                        -> "invalid_code"
    [] Redeemable(codes, c, now) /\ NameTaken(peers, n)  -> "name_taken"
    [] /\ Redeemable(codes, c, now)
       /\ ~NameTaken(peers, n)
       /\ FreeHosts(peers) = {}                          -> "subnet_full"
    [] OTHER                                             -> "ok"

\* remove_peer.
Without(peers, n) == {p \in peers : p.name # n}

\* authenticate: the device whose token was offered.
Caller(peers, t) == {p \in peers : p.token = t}

\* touch_last_seen.
Touched(peers, t, now) ==
  {IF p.token = t THEN [p EXCEPT !.last_seen = now] ELSE p : p \in peers}
=============================================================================
