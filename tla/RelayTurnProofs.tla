-------------------------- MODULE RelayTurnProofs ---------------------------
(***************************************************************************)
(* The daily quota of the relay (RelayTurn) counts right, for any number   *)
(* of threads, pairs, networks, days, grants and restarts.                 *)
(***************************************************************************)
EXTENDS RelayTurn, FiniteSetTheorems, TLAPS

Tiers == {TiersOf[t] : t \in Threads}
Granted == [id : Nat, day : Nat, salt : Nat, pair : Pairs, networks : Tiers, life : Nat]
Counters == [day : Nat, salt : Nat, pairs : [Pairs -> Nat], networks : [Networks -> Nat]]
Requests == [pc : {"idle", "asked", "charged"}, pair : Pairs \cup {None}, day : Nat,
             grant : Granted \cup {None}]

\* The types a counter needs, with no bound of the model in them.
TurnTypes ==
  /\ clock \in Nat /\ salts \in Nat /\ issued \in Nat /\ lives \in Nat
  /\ quota \in Counters /\ file \in Counters /\ loaded \in Counters
  /\ req \in [Threads -> Requests]
  /\ held \subseteq Granted /\ IsFiniteSet(held)

\* A salt is drawn once: nothing is counted under one that is yet to come.
SaltsDrawn ==
  /\ quota.salt <= salts /\ file.salt <= salts /\ loaded.salt <= salts
  /\ \A g \in held : g.id <= issued /\ g.salt # 0 /\ g.salt <= salts /\ g.life <= lives

\* What a thread holds while it asks the backend is counted, and is its own.
ChargedIsHeld ==
  /\ \A t \in Threads : req[t].pc = "asked" => req[t].pair \in Pairs
  /\ \A t \in Threads : req[t].pc = "charged" =>
       /\ req[t].grant \in held /\ req[t].grant.life = lives
       /\ req[t].grant.salt = quota.salt => req[t].grant.day = quota.day
  /\ \A t, u \in Threads :
       req[t].pc = "charged" /\ req[u].pc = "charged" /\ t # u => req[t].grant # req[u].grant

TurnInv == TurnTypes /\ SaltsDrawn /\ ChargedIsHeld /\ QuotaCounts

-----------------------------------------------------------------------------
(* Counting.                                                               *)

\* The grants of a set that are charged to a pair, and to a network.
Of(S, p)    == {g \in S : g.pair = p}
Under(S, n) == {g \in S : n \in g.networks}

\* The counts of a finite set are naturals.
LEMMA CountType ==
  ASSUME NEW S, IsFiniteSet(S), NEW p, NEW n
  PROVE  Cardinality(Of(S, p)) \in Nat /\ Cardinality(Under(S, n)) \in Nat
<1>1. IsFiniteSet(Of(S, p)) /\ IsFiniteSet(Under(S, n))
  BY Zenon, FS_Subset DEF Of, Under
<1> QED
  BY Zenon, <1>1, FS_CardinalityType

\* One grant more: the counts of its pair and networks are one higher, and no other.
LEMMA PairAdd ==
  ASSUME NEW S, IsFiniteSet(S), NEW g, g \notin S, NEW p
  PROVE  Cardinality(Of(S \cup {g}, p)) = Cardinality(Of(S, p)) + (IF g.pair = p THEN 1 ELSE 0)
<1>1. IsFiniteSet(Of(S, p)) /\ g \notin Of(S, p)
  BY Zenon, FS_Subset DEF Of
<1>2. Cardinality(Of(S, p)) \in Nat
  BY Zenon, <1>1, FS_CardinalityType
<1>3. Of(S \cup {g}, p) = IF g.pair = p THEN Of(S, p) \cup {g} ELSE Of(S, p)
  BY Zenon DEF Of
<1>4. Cardinality(Of(S, p) \cup {g}) = Cardinality(Of(S, p)) + 1
  BY Zenon, <1>1, FS_AddElement
<1> QED
  BY <1>2, <1>3, <1>4

LEMMA NetworkAdd ==
  ASSUME NEW S, IsFiniteSet(S), NEW g, g \notin S, NEW n
  PROVE  Cardinality(Under(S \cup {g}, n))
           = Cardinality(Under(S, n)) + (IF n \in g.networks THEN 1 ELSE 0)
<1>1. IsFiniteSet(Under(S, n)) /\ g \notin Under(S, n)
  BY Zenon, FS_Subset DEF Under
<1>2. Cardinality(Under(S, n)) \in Nat
  BY Zenon, <1>1, FS_CardinalityType
<1>3. Under(S \cup {g}, n) = IF n \in g.networks THEN Under(S, n) \cup {g} ELSE Under(S, n)
  BY Zenon DEF Under
<1>4. Cardinality(Under(S, n) \cup {g}) = Cardinality(Under(S, n)) + 1
  BY Zenon, <1>1, FS_AddElement
<1> QED
  BY <1>2, <1>3, <1>4

\* No grant, no count.
LEMMA CountNone ==
  ASSUME NEW p, NEW n
  PROVE  Cardinality(Of({}, p)) = 0 /\ Cardinality(Under({}, n)) = 0
<1>1. Of({}, p) = {} /\ Under({}, n) = {}
  BY Zenon DEF Of, Under
<1> QED
  BY Zenon, <1>1, FS_EmptySet

\* QuotaCounts for a quota q, with grants H held in life L and ld loaded at its start.
CountedIn(q, H, L) == {g \in H : g.salt = q.salt /\ g.life = L}
BeforeOf(q, ld)    == IF ld.salt = q.salt THEN ld ELSE Empty(0, 0)
CountsRight(q, H, L, ld) ==
  /\ \A p \in Pairs :
       q.pairs[p] = BeforeOf(q, ld).pairs[p] + Cardinality(Of(CountedIn(q, H, L), p))
  /\ \A n \in Networks :
       q.networks[n] = BeforeOf(q, ld).networks[n] + Cardinality(Under(CountedIn(q, H, L), n))

LEMMA CountsAre == QuotaCounts <=> CountsRight(quota, held, lives, loaded)
BY Zenon DEF QuotaCounts, CountsRight, Counted, Before, CountedIn, BeforeOf, Of, Under

LEMMA CountsAreNext == QuotaCounts' <=> CountsRight(quota', held', lives', loaded')
BY Zenon DEF QuotaCounts, CountsRight, Counted, Before, CountedIn, BeforeOf, Of, Under, Empty

LEMMA BeforeType ==
  ASSUME NEW q \in Counters, NEW ld \in Counters
  PROVE  BeforeOf(q, ld) \in Counters
BY Zenon DEF BeforeOf, Counters, Empty

\* A quota with other counts of the pairs and of the networks.
LEMMA Recount ==
  ASSUME NEW q \in Counters, NEW P, NEW N,
         NEW r, r = [day |-> q.day, salt |-> q.salt, pairs |-> P, networks |-> q.networks]
  PROVE  [r EXCEPT !.networks = N] = [day |-> q.day, salt |-> q.salt, pairs |-> P, networks |-> N]
OBVIOUS

LEMMA ChargedIs ==
  ASSUME NEW q \in Counters, NEW g \in Granted
  PROVE  Charged(q, g) =
    [day |-> q.day, salt |-> q.salt,
     pairs |-> [p \in Pairs |-> IF p = g.pair THEN q.pairs[p] + 1 ELSE q.pairs[p]],
     networks |-> [n \in Networks |-> IF n \in g.networks THEN q.networks[n] + 1 ELSE q.networks[n]]]
<1> DEFINE P == [p \in Pairs |-> IF p = g.pair THEN q.pairs[p] + 1 ELSE q.pairs[p]]
           N == [n \in Networks |-> IF n \in g.networks THEN q.networks[n] + 1 ELSE q.networks[n]]
           r == [q EXCEPT !.pairs[g.pair] = @ + 1]
<1>1. r = [day |-> q.day, salt |-> q.salt,
           pairs |-> [q.pairs EXCEPT ![g.pair] = @ + 1], networks |-> q.networks]
  BY DEF Counters
<1>2. [q.pairs EXCEPT ![g.pair] = @ + 1] = P
  BY Zenon DEF Counters
<1>3. Charged(q, g) = [r EXCEPT !.networks = N]
  BY Zenon DEF Charged, Counters
<1> HIDE DEF P, N, r
<1>4. Charged(q, g) = [day |-> q.day, salt |-> q.salt, pairs |-> P, networks |-> N]
  BY Zenon, <1>1, <1>2, <1>3, Recount
<1> QED
  BY Zenon, <1>4 DEF P, N

LEMMA RefundedIs ==
  ASSUME NEW q \in Counters, NEW g \in Granted, g.day = q.day, g.salt = q.salt
  PROVE  Refunded(q, g) =
    [day |-> q.day, salt |-> q.salt,
     pairs |-> [p \in Pairs |-> IF p = g.pair THEN q.pairs[p] - 1 ELSE q.pairs[p]],
     networks |-> [n \in Networks |-> IF n \in g.networks THEN q.networks[n] - 1 ELSE q.networks[n]]]
<1> DEFINE P == [p \in Pairs |-> IF p = g.pair THEN q.pairs[p] - 1 ELSE q.pairs[p]]
           N == [n \in Networks |-> IF n \in g.networks THEN q.networks[n] - 1 ELSE q.networks[n]]
           r == [q EXCEPT !.pairs[g.pair] = @ - 1]
<1>1. r = [day |-> q.day, salt |-> q.salt,
           pairs |-> [q.pairs EXCEPT ![g.pair] = @ - 1], networks |-> q.networks]
  BY DEF Counters
<1>2. [q.pairs EXCEPT ![g.pair] = @ - 1] = P
  BY Zenon DEF Counters
<1>3. Refunded(q, g) = [r EXCEPT !.networks = N]
  BY Zenon DEF Refunded, Counters
<1> HIDE DEF P, N, r
<1>4. Refunded(q, g) = [day |-> q.day, salt |-> q.salt, pairs |-> P, networks |-> N]
  BY Zenon, <1>1, <1>2, <1>3, Recount
<1> QED
  BY Zenon, <1>4 DEF P, N

\* A quota under which nothing was granted in this life counts right if it is
\* the one that was loaded, or starts from nothing.
LEMMA NothingGranted ==
  ASSUME NEW q \in Counters, NEW H, NEW L, NEW ld \in Counters,
         CountedIn(q, H, L) = {},
         q = ld \/ (ld.salt # q.salt /\ \E d, s : q = Empty(d, s))
  PROVE  CountsRight(q, H, L, ld)
<1>1. ASSUME NEW p \in Pairs
      PROVE  q.pairs[p] = BeforeOf(q, ld).pairs[p] + Cardinality(Of(CountedIn(q, H, L), p))
  <2>1. Cardinality(Of(CountedIn(q, H, L), p)) = 0
    BY Zenon, CountNone
  <2>2. q.pairs[p] = BeforeOf(q, ld).pairs[p] /\ q.pairs[p] \in Nat
    BY DEF BeforeOf, Empty, Counters
  <2> QED
    BY <2>1, <2>2
<1>2. ASSUME NEW n \in Networks
      PROVE  q.networks[n] = BeforeOf(q, ld).networks[n] + Cardinality(Under(CountedIn(q, H, L), n))
  <2>1. Cardinality(Under(CountedIn(q, H, L), n)) = 0
    BY Zenon, CountNone
  <2>2. q.networks[n] = BeforeOf(q, ld).networks[n] /\ q.networks[n] \in Nat
    BY DEF BeforeOf, Empty, Counters
  <2> QED
    BY <2>1, <2>2
<1> QED
  BY Zenon, <1>1, <1>2 DEF CountsRight

\* roll: what is counted on the day asked for.
LEMMA RollRight ==
  ASSUME TurnInv, NEW day \in Nat
  PROVE  /\ Rolled(day) \in Counters
         /\ Rolled(day).salt # 0 /\ Rolled(day).salt <= (IF Rolls(day) THEN salts + 1 ELSE salts)
         /\ CountsRight(Rolled(day), held, lives, loaded)
<1>1. CASE Rolls(day)
  <2>1. Rolled(day) = Empty(day, salts + 1)
    BY Zenon, <1>1 DEF Rolled
  <2>2. Rolled(day) \in Counters /\ Rolled(day).salt = salts + 1
    BY <2>1 DEF Empty, Counters, TurnInv, TurnTypes
  <2>3. \A g \in held : g.salt # salts + 1
    BY DEF TurnInv, TurnTypes, SaltsDrawn, Granted
  <2>4. loaded.salt # salts + 1
    BY DEF TurnInv, TurnTypes, SaltsDrawn, Counters
  <2>5. CountedIn(Rolled(day), held, lives) = {}
    BY Zenon, <2>2, <2>3 DEF CountedIn
  <2>6. loaded \in Counters /\ salts \in Nat
    BY Zenon DEF TurnInv, TurnTypes
  <2> QED
    BY <1>1, <2>1, <2>2, <2>4, <2>5, <2>6, NothingGranted
<1>2. CASE ~Rolls(day)
  <2>1. Rolled(day) = quota
    BY Zenon, <1>2 DEF Rolled
  <2> QED
    BY Zenon, <1>2, <2>1, CountsAre DEF Rolls, TurnInv, TurnTypes, SaltsDrawn
<1> QED
  BY Zenon, <1>1, <1>2

\* try_grant: the grant is new, and of the quota it is charged to.
LEMMA ChargeRight ==
  ASSUME NEW q \in Counters, NEW H \in SUBSET Granted, IsFiniteSet(H), NEW L, NEW ld \in Counters,
         CountsRight(q, H, L, ld),
         NEW g \in Granted, g \notin H, g.salt = q.salt, g.life = L
  PROVE  Charged(q, g) \in Counters /\ Charged(q, g).salt = q.salt /\ Charged(q, g).day = q.day
         /\ CountsRight(Charged(q, g), H \cup {g}, L, ld)
<1> DEFINE C == CountedIn(q, H, L)
<1>1. Charged(q, g) \in Counters /\ Charged(q, g).salt = q.salt /\ Charged(q, g).day = q.day
  BY ChargedIs DEF Counters, Granted
<1>2. CountedIn(Charged(q, g), H \cup {g}, L) = C \cup {g} /\ g \notin C
  BY Zenon, <1>1 DEF CountedIn
<1>3. IsFiniteSet(C)
  BY Zenon, FS_Subset DEF CountedIn
<1>4. BeforeOf(Charged(q, g), ld) = BeforeOf(q, ld) /\ BeforeOf(q, ld) \in Counters
  BY Zenon, <1>1, BeforeType DEF BeforeOf
<1>5. ASSUME NEW p \in Pairs
      PROVE  Charged(q, g).pairs[p] = BeforeOf(q, ld).pairs[p] + Cardinality(Of(C \cup {g}, p))
  <2>1. Charged(q, g).pairs[p] = q.pairs[p] + (IF g.pair = p THEN 1 ELSE 0)
    BY ChargedIs DEF Counters
  <2>2. q.pairs[p] = BeforeOf(q, ld).pairs[p] + Cardinality(Of(C, p))
    BY Zenon DEF CountsRight
  <2>3. Cardinality(Of(C \cup {g}, p)) = Cardinality(Of(C, p)) + (IF g.pair = p THEN 1 ELSE 0)
    BY <1>2, <1>3, PairAdd
  <2>4. Cardinality(Of(C, p)) \in Nat /\ BeforeOf(q, ld).pairs[p] \in Nat
    BY Zenon, <1>3, <1>4, CountType DEF Counters
  <2> QED
    BY <2>1, <2>2, <2>3, <2>4
<1>6. ASSUME NEW n \in Networks
      PROVE  Charged(q, g).networks[n]
               = BeforeOf(q, ld).networks[n] + Cardinality(Under(C \cup {g}, n))
  <2>1. Charged(q, g).networks[n] = q.networks[n] + (IF n \in g.networks THEN 1 ELSE 0)
    BY ChargedIs DEF Counters
  <2>2. q.networks[n] = BeforeOf(q, ld).networks[n] + Cardinality(Under(C, n))
    BY Zenon DEF CountsRight
  <2>3. Cardinality(Under(C \cup {g}, n)) = Cardinality(Under(C, n)) + (IF n \in g.networks THEN 1 ELSE 0)
    BY ZenonT(40), <1>2, <1>3, NetworkAdd
  <2>4. Cardinality(Under(C, n)) \in Nat /\ BeforeOf(q, ld).networks[n] \in Nat
    BY Zenon, <1>3, <1>4, CountType DEF Counters
  <2> QED
    BY <2>1, <2>2, <2>3, <2>4
<1> QED
  BY Zenon, <1>1, <1>2, <1>4, <1>5, <1>6 DEF CountsRight

\* refund: given back if it is counted there, and left alone if it is not.
LEMMA RefundRight ==
  ASSUME NEW q \in Counters, NEW H \in SUBSET Granted, IsFiniteSet(H), NEW L, NEW ld \in Counters,
         CountsRight(q, H, L, ld),
         NEW g \in H, g.life = L, g.salt = q.salt => g.day = q.day
  PROVE  Refunded(q, g) \in Counters /\ Refunded(q, g).salt = q.salt /\ Refunded(q, g).day = q.day
         /\ CountsRight(Refunded(q, g), H \ {g}, L, ld)
<1>1. CASE g.salt # q.salt
  <2>1. Refunded(q, g) = q
    BY Zenon, <1>1 DEF Refunded
  <2>2. CountedIn(q, H \ {g}, L) = CountedIn(q, H, L)
    BY Zenon, <1>1 DEF CountedIn
  <2> QED
    BY Zenon, <2>1, <2>2 DEF CountsRight
<1>2. CASE g.salt = q.salt
  <2> DEFINE C == CountedIn(q, H \ {g}, L)
             r == Refunded(q, g)
  <2>1. r = [day |-> q.day, salt |-> q.salt,
             pairs |-> [p \in Pairs |-> IF p = g.pair THEN q.pairs[p] - 1 ELSE q.pairs[p]],
             networks |-> [n \in Networks |-> IF n \in g.networks THEN q.networks[n] - 1
                                                                 ELSE q.networks[n]]]
    BY Zenon, <1>2, RefundedIs
  <2>2. r.salt = q.salt /\ r.day = q.day
    BY <2>1 DEF Counters
  <2>3. CountedIn(q, H, L) = C \cup {g} /\ g \notin C /\ CountedIn(r, H \ {g}, L) = C
    BY Zenon, <1>2, <2>2 DEF CountedIn
  <2>4. IsFiniteSet(C)
    BY Zenon, FS_Subset DEF CountedIn
  <2>5. BeforeOf(r, ld) = BeforeOf(q, ld) /\ BeforeOf(q, ld) \in Counters
    BY Zenon, <2>2, BeforeType DEF BeforeOf
  <2> HIDE DEF C, r
  <2>6. ASSUME NEW p \in Pairs
        PROVE  /\ r.pairs[p] = BeforeOf(q, ld).pairs[p] + Cardinality(Of(C, p))
               /\ r.pairs[p] \in Nat
    <3>1. r.pairs[p] = q.pairs[p] - (IF g.pair = p THEN 1 ELSE 0)
      BY <2>1, <2>3 DEF Counters, Granted
    <3>2. q.pairs[p] = BeforeOf(q, ld).pairs[p] + Cardinality(Of(C \cup {g}, p))
      BY Zenon, <2>3 DEF CountsRight
    <3>3. Cardinality(Of(C \cup {g}, p)) = Cardinality(Of(C, p)) + (IF g.pair = p THEN 1 ELSE 0)
      BY <2>3, <2>4, PairAdd
    <3>4. Cardinality(Of(C, p)) \in Nat /\ BeforeOf(q, ld).pairs[p] \in Nat
      BY Zenon, <2>4, <2>5, CountType DEF Counters
    <3> QED
      BY <3>1, <3>2, <3>3, <3>4
  <2>7. ASSUME NEW n \in Networks
        PROVE  /\ r.networks[n] = BeforeOf(q, ld).networks[n] + Cardinality(Under(C, n))
               /\ r.networks[n] \in Nat
    <3>1. r.networks[n] = q.networks[n] - (IF n \in g.networks THEN 1 ELSE 0)
      BY <2>1 DEF Counters
    <3>2. q.networks[n] = BeforeOf(q, ld).networks[n] + Cardinality(Under(C \cup {g}, n))
      BY Zenon, <2>3 DEF CountsRight
    <3>3. Cardinality(Under(C \cup {g}, n)) = Cardinality(Under(C, n)) + (IF n \in g.networks THEN 1 ELSE 0)
      BY ZenonT(40), <2>3, <2>4, NetworkAdd
    <3>4. Cardinality(Under(C, n)) \in Nat /\ BeforeOf(q, ld).networks[n] \in Nat
      BY Zenon, <2>4, <2>5, CountType DEF Counters
    <3> QED
      BY <3>1, <3>2, <3>3, <3>4
  <2>8. r \in Counters
    <3>1. r = [day |-> q.day, salt |-> q.salt, pairs |-> r.pairs, networks |-> r.networks]
      BY Zenon, <2>1 DEF Counters
    <3>2. r.pairs = [p \in Pairs |-> r.pairs[p]] /\ r.networks = [n \in Networks |-> r.networks[n]]
      BY Zenon, <2>1 DEF Counters
    <3> QED
      BY <3>1, <3>2, <2>6, <2>7 DEF Counters
  <2> QED
    BY Zenon, <2>2, <2>3, <2>5, <2>6, <2>7, <2>8 DEF CountsRight, r
<1> QED
  BY Zenon, <1>1, <1>2

-----------------------------------------------------------------------------
(* The steps.                                                              *)

LEMMA TurnStart == TurnInit => TurnInv
<1> SUFFICES ASSUME TurnInit PROVE TurnInv
  BY Zenon
<1>1. Empty(0, 0) \in Counters /\ NoRequest \in Requests
  BY Zenon DEF Empty, Counters, NoRequest, Requests
<1>2. TurnTypes
  BY Zenon, <1>1, FS_EmptySet DEF TurnInit, TurnTypes
<1>3. SaltsDrawn
  BY DEF TurnInit, SaltsDrawn, Empty
<1>4. ChargedIsHeld
  BY Zenon DEF TurnInit, ChargedIsHeld, NoRequest
<1>5. CountedIn(quota, held, lives) = {} /\ quota = loaded /\ quota \in Counters
  BY Zenon, <1>1 DEF TurnInit, CountedIn
<1> QED
  BY Zenon, <1>2, <1>3, <1>4, <1>5, NothingGranted, CountsAre DEF TurnInv

\* A thread's request ends: nobody's charge is touched.
LEMMA RequestEnds ==
  ASSUME TurnInv, NEW t \in Threads, req' = [req EXCEPT ![t] = NoRequest]
  PROVE  req' \in [Threads -> Requests]
         /\ \A u \in Threads : req'[u] = IF u = t THEN NoRequest ELSE req[u]
<1>1. NoRequest \in Requests
  BY Zenon DEF NoRequest, Requests
<1> QED
  BY Zenon, <1>1 DEF TurnInv, TurnTypes

LEMMA AskStep ==
  ASSUME TurnInv, NEW t \in Threads, NEW p \in Pairs, Ask(t, p)
  PROVE  TurnInv'
<1> DEFINE r == [pc |-> "asked", pair |-> p, day |-> clock, grant |-> None]
<1>1. r \in Requests /\ req' = [req EXCEPT ![t] = r]
  BY Zenon DEF Ask, Requests, TurnInv, TurnTypes
<1>2. \A u \in Threads : req'[u] = IF u = t THEN r ELSE req[u]
  BY Zenon, <1>1 DEF TurnInv, TurnTypes
<1>3. TurnTypes'
  BY Zenon, <1>1 DEF Ask, TurnInv, TurnTypes
<1>4. SaltsDrawn'
  BY Zenon DEF Ask, TurnInv, SaltsDrawn
<1>5. ChargedIsHeld'
  BY <1>2 DEF Ask, TurnInv, ChargedIsHeld
<1>6. QuotaCounts'
  BY Zenon DEF Ask, TurnInv, QuotaCounts, Counted, Before
<1> QED
  BY Zenon, <1>3, <1>4, <1>5, <1>6 DEF TurnInv

LEMMA TryGrantStep ==
  ASSUME TurnInv, NEW t \in Threads, TryGrant(t)
  PROVE  TurnInv'
<1> DEFINE day == req[t].day
           q == Rolled(day)
           g == [id |-> issued + 1, day |-> q.day, salt |-> q.salt, pair |-> req[t].pair,
                 networks |-> TiersOf[t], life |-> lives]
<1>1. req[t] \in Requests /\ day \in Nat /\ req[t].pair \in Pairs
  BY Zenon DEF TurnInv, TurnTypes, ChargedIsHeld, Requests, TryGrant
<1>2. /\ q \in Counters /\ q.salt # 0 /\ q.salt <= salts' /\ CountsRight(q, held, lives, loaded)
      /\ salts' \in Nat /\ salts <= salts'
  BY <1>1, RollRight DEF TryGrant, TurnInv, TurnTypes
<1>3. \A h \in held : h.salt = q.salt =>
         \A u \in Threads : req[u].pc = "charged" /\ req[u].grant = h => h.day = q.day
  <2>1. CASE Rolls(day)
    <3>1. q.salt = salts + 1
      BY Zenon, <2>1 DEF Rolled, Empty
    <3> QED
      BY <3>1 DEF TurnInv, TurnTypes, SaltsDrawn, Granted
  <2>2. CASE ~Rolls(day)
    BY Zenon, <2>2 DEF Rolled, TurnInv, ChargedIsHeld
  <2> QED
    BY Zenon, <2>1, <2>2
<1>4. UNCHANGED <<clock, file, loaded, lives>>
  BY Zenon DEF TryGrant
<1>5. \A h \in held : h.id <= issued /\ h.salt # 0 /\ h.salt <= salts' /\ h.life <= lives
  BY <1>2 DEF TurnInv, TurnTypes, SaltsDrawn, Granted
<1>6. file.salt <= salts' /\ loaded.salt <= salts'
  BY <1>2 DEF TurnInv, TurnTypes, SaltsDrawn, Counters
<1>7. CASE AtCap(q, req[t].pair, TiersOf[t])
  <2>1. quota' = q /\ req' = [req EXCEPT ![t] = NoRequest] /\ held' = held /\ issued' = issued
    BY Zenon, <1>7 DEF TryGrant
  <2>2. TurnTypes'
    BY Zenon, <1>2, <1>4, <2>1, RequestEnds DEF TurnInv, TurnTypes
  <2>3. SaltsDrawn'
    BY Zenon, <1>2, <1>4, <1>5, <1>6, <2>1 DEF SaltsDrawn
  <2>4. ChargedIsHeld'
    <3>1. \A u \in Threads : req'[u] = IF u = t THEN NoRequest ELSE req[u]
      BY Zenon, <2>1, RequestEnds
    <3>2. NoRequest.pc = "idle"
      BY Zenon DEF NoRequest
    <3> QED
      BY <1>3, <1>4, <2>1, <3>1, <3>2 DEF TurnInv, ChargedIsHeld
  <2>5. QuotaCounts'
    BY Zenon, <1>2, <1>4, <2>1, CountsAreNext
  <2> QED
    BY Zenon, <2>2, <2>3, <2>4, <2>5 DEF TurnInv
<1>8. CASE ~AtCap(q, req[t].pair, TiersOf[t])
  <2>1. /\ quota' = Charged(q, g)
        /\ req' = [req EXCEPT ![t] = [@ EXCEPT !.pc = "charged", !.grant = g]]
        /\ held' = held \cup {g} /\ issued' = issued + 1
    BY Zenon, <1>8 DEF TryGrant
  <2>2. g \in Granted
    BY <1>1, <1>2 DEF Granted, Counters, Tiers, TurnInv, TurnTypes
  <2>3. g \notin held /\ held \in SUBSET Granted /\ IsFiniteSet(held) /\ loaded \in Counters
    <3>1. \A h \in held : h.id # g.id
      BY DEF TurnInv, TurnTypes, SaltsDrawn, Granted
    <3> QED
      BY Zenon, <3>1 DEF TurnInv, TurnTypes
  <2>4. /\ quota' \in Counters /\ quota'.salt = q.salt /\ quota'.day = q.day
        /\ CountsRight(quota', held', lives, loaded)
    BY <1>2, <2>1, <2>2, <2>3, ChargeRight
  <2>5. [req[t] EXCEPT !.pc = "charged", !.grant = g] \in Requests
    BY Zenon, <1>1, <2>2 DEF Requests
  <2>6. TurnTypes'
    <3>1. held' \subseteq Granted /\ IsFiniteSet(held')
      BY Zenon, <2>1, <2>2, <2>3, FS_AddElement
    <3>2. req' \in [Threads -> Requests]
      BY Zenon, <2>1, <2>5 DEF TurnInv, TurnTypes
    <3>3. issued' \in Nat
      BY <2>1 DEF TurnInv, TurnTypes
    <3> QED
      BY Zenon, <1>2, <1>4, <2>4, <3>1, <3>2, <3>3 DEF TurnInv, TurnTypes
  <2>7. SaltsDrawn'
    <3>1. issued \in Nat /\ lives \in Nat /\ \A h \in held : h.id \in Nat
      BY Zenon DEF TurnInv, TurnTypes, Granted
    <3> QED
      BY <1>2, <1>4, <1>5, <1>6, <2>1, <2>4, <3>1 DEF SaltsDrawn
  <2>8. ChargedIsHeld'
    <3>1. \A u \in Threads : u # t => req'[u] = req[u]
      BY Zenon, <2>1 DEF TurnInv, TurnTypes
    <3>2. req'[t].pc = "charged" /\ req'[t].grant = g /\ req'[t].pair = req[t].pair
      BY Zenon, <1>1, <2>1 DEF TurnInv, TurnTypes, Requests
    <3>3. \A u \in Threads : u # t /\ req[u].pc = "charged" => req[u].grant \in held
      BY Zenon DEF TurnInv, ChargedIsHeld
    <3>4. ASSUME NEW u \in Threads, req'[u].pc = "charged"
          PROVE  /\ req'[u].grant \in held' /\ req'[u].grant.life = lives'
                 /\ req'[u].grant.salt = quota'.salt => req'[u].grant.day = quota'.day
      <4>1. CASE u = t
        BY <1>4, <2>1, <2>4, <3>2, <4>1
      <4>2. CASE u # t
        BY <1>3, <1>4, <2>1, <2>4, <3>1, <3>3, <3>4, <4>2 DEF TurnInv, ChargedIsHeld
      <4> QED
        BY Zenon, <4>1, <4>2
    <3>5. \A u, w \in Threads :
            req'[u].pc = "charged" /\ req'[w].pc = "charged" /\ u # w => req'[u].grant # req'[w].grant
      BY <2>3, <3>1, <3>2, <3>3 DEF TurnInv, ChargedIsHeld
    <3>6. \A u \in Threads : req'[u].pc = "asked" => req'[u].pair \in Pairs
      BY Zenon, <3>1, <3>2 DEF TurnInv, ChargedIsHeld
    <3> QED
      BY ONLY Zenon, <3>4, <3>5, <3>6 DEF ChargedIsHeld
  <2>9. QuotaCounts'
    BY Zenon, <1>4, <2>4, CountsAreNext
  <2> QED
    BY Zenon, <2>6, <2>7, <2>8, <2>9 DEF TurnInv
<1> QED
  BY Zenon, <1>7, <1>8

LEMMA CredentialsStep ==
  ASSUME TurnInv, NEW t \in Threads, Credentials(t)
  PROVE  TurnInv'
<1>1. /\ req' \in [Threads -> Requests]
      /\ \A u \in Threads : req'[u] = IF u = t THEN NoRequest ELSE req[u]
  BY Zenon, RequestEnds DEF Credentials
<1>2. TurnTypes'
  BY Zenon, <1>1 DEF Credentials, TurnInv, TurnTypes
<1>3. SaltsDrawn'
  BY Zenon DEF Credentials, TurnInv, SaltsDrawn
<1>4. ChargedIsHeld'
  BY ZenonT(40), <1>1 DEF Credentials, TurnInv, ChargedIsHeld, NoRequest
<1>5. QuotaCounts'
  BY Zenon DEF Credentials, TurnInv, QuotaCounts, Counted, Before
<1> QED
  BY Zenon, <1>2, <1>3, <1>4, <1>5 DEF TurnInv

LEMMA RefundStep ==
  ASSUME TurnInv, NEW t \in Threads, Refund(t)
  PROVE  TurnInv'
<1> DEFINE g == req[t].grant
<1>1. /\ req' \in [Threads -> Requests]
      /\ \A u \in Threads : req'[u] = IF u = t THEN NoRequest ELSE req[u]
  BY Zenon, RequestEnds DEF Refund
<1>2. g \in held /\ g.life = lives /\ (g.salt = quota.salt => g.day = quota.day)
  BY Zenon DEF Refund, TurnInv, ChargedIsHeld
<1>3. quota' = Refunded(quota, g) /\ held' = held \ {g}
      /\ UNCHANGED <<clock, file, salts, issued, loaded, lives>>
  BY Zenon DEF Refund
<1>4. /\ quota' \in Counters /\ quota'.salt = quota.salt /\ quota'.day = quota.day
      /\ CountsRight(quota', held', lives, loaded)
  <2>1. /\ quota \in Counters /\ held \in SUBSET Granted /\ IsFiniteSet(held) /\ loaded \in Counters
        /\ CountsRight(quota, held, lives, loaded)
    BY Zenon, CountsAre DEF TurnInv, TurnTypes
  <2> QED
    BY <1>2, <1>3, <2>1, RefundRight
<1>5. TurnTypes'
  <2>1. IsFiniteSet(held')
    BY Zenon, <1>3, FS_Subset DEF TurnInv, TurnTypes
  <2> QED
    BY Zenon, <1>1, <1>3, <1>4, <2>1 DEF TurnInv, TurnTypes
<1>6. SaltsDrawn'
  BY Zenon, <1>3, <1>4 DEF TurnInv, SaltsDrawn
<1>7. ChargedIsHeld'
  <2>1. \A u \in Threads : u # t /\ req[u].pc = "charged" => req[u].grant \in held'
    BY Zenon, <1>3 DEF TurnInv, ChargedIsHeld, Refund
  <2> QED
    BY <1>1, <1>3, <1>4, <2>1 DEF TurnInv, ChargedIsHeld, NoRequest
<1>8. QuotaCounts'
  BY Zenon, <1>3, <1>4, CountsAreNext
<1> QED
  BY Zenon, <1>5, <1>6, <1>7, <1>8 DEF TurnInv

LEMMA RestartStep ==
  ASSUME TurnInv, Restart
  PROVE  TurnInv'
<1>1. PICK q \in {file, Empty(0, 0)} : quota' = q /\ loaded' = q
  BY Zenon DEF Restart
<1>2. q \in Counters /\ q.salt <= salts
  BY DEF TurnInv, TurnTypes, SaltsDrawn, Empty, Counters
<1>3. TurnTypes'
  <2>1. NoRequest \in Requests
    BY Zenon DEF NoRequest, Requests
  <2> QED
    BY <1>1, <1>2, <2>1 DEF Restart, TurnInv, TurnTypes
<1>4. SaltsDrawn'
  BY <1>1, <1>2 DEF Restart, TurnInv, TurnTypes, SaltsDrawn, Granted
<1>5. ChargedIsHeld'
  BY Zenon DEF Restart, ChargedIsHeld, NoRequest
<1>6. CountsRight(q, held, lives + 1, q)
  <2>1. \A g \in held : g.life # lives + 1
    BY DEF TurnInv, TurnTypes, SaltsDrawn, Granted
  <2>2. CountedIn(q, held, lives + 1) = {}
    BY Zenon, <2>1 DEF CountedIn
  <2> QED
    BY Zenon, <1>2, <2>2, NothingGranted
<1>7. QuotaCounts'
  BY Zenon, <1>1, <1>6, CountsAreNext DEF Restart
<1> QED
  BY Zenon, <1>3, <1>4, <1>5, <1>7 DEF TurnInv

LEMMA TurnStep ==
  ASSUME TurnInv, [TurnNext]_turnVars
  PROVE  TurnInv'
<1>1. CASE Midnight
  BY <1>1 DEF Midnight, TurnInv, TurnTypes, SaltsDrawn, ChargedIsHeld, QuotaCounts, Counted, Before
<1>2. CASE Save
  BY <1>2 DEF Save, TurnInv, TurnTypes, SaltsDrawn, ChargedIsHeld, QuotaCounts, Counted, Before
<1>3. CASE UNCHANGED turnVars
  BY <1>3 DEF turnVars, TurnInv, TurnTypes, SaltsDrawn, ChargedIsHeld, QuotaCounts, Counted, Before
<1> QED
  BY Zenon, <1>1, <1>2, <1>3, AskStep, TryGrantStep, CredentialsStep, RefundStep, RestartStep DEF TurnNext

(* Each counter of TurnQuota is what was loaded and the grants of its day  *)
(* that were not given back: no refund, roll over midnight or restart, in  *)
(* any interleaving of the connection threads, loses or doubles a charge.  *)
THEOREM QuotaCorrect == TurnSpec => []QuotaCounts
<1>1. TurnInv => QuotaCounts
  BY Zenon DEF TurnInv
<1> QED
  BY <1>1, TurnStart, TurnStep, PTL DEF TurnSpec

=============================================================================
