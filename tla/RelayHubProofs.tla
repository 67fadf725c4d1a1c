--------------------------- MODULE RelayHubProofs ---------------------------
(***************************************************************************)
(* SlotsBalance and HubHoldsLive for any devices, connections, networks    *)
(* and limits.  Neither depends on what is queued for whom, so the proofs  *)
(* never look into the outboxes.                                           *)
(***************************************************************************)
EXTENDS RelayHub, FiniteSetTheorems, TLAPS

\* A set of connections gains or loses one of them.
LEMMA Gain ==
  ASSUME NEW S \in SUBSET Conns, NEW T, NEW c \in Conns \ S, T = S \cup {c}
  PROVE  Cardinality(S) \in Nat /\ Cardinality(T) = Cardinality(S) + 1
<1>1. IsFiniteSet(S)
  BY Zenon, RelayAssumption, FS_Subset
<1> QED
  BY Zenon, <1>1, FS_CardinalityType, FS_AddElement

LEMMA Lose ==
  ASSUME NEW S \in SUBSET Conns, NEW T, NEW c \in S, T = S \ {c}
  PROVE  Cardinality(T) \in Nat /\ Cardinality(S) = Cardinality(T) + 1
<1>1. T \in SUBSET Conns /\ c \in Conns \ T /\ S = T \cup {c}
  BY Zenon
<1> QED
  BY Zenon, <1>1, Gain

-----------------------------------------------------------------------------
\* The part of the state the slots are about; a connection has a name from
\* the moment it is authenticated.
SlotsType ==
  /\ pc \in [Conns -> PCs]
  /\ fp \in [Conns -> Devices \cup {None}]
  /\ total \in Nat /\ unauthenticated \in Nat /\ connections \in [Tiers -> Nat]
  /\ \A c \in Conns : pc[c] \in {"none", "accepted", "open"} => fp[c] = None

SlotsInv == SlotsType /\ SlotsBalance

LEMMA SlotsInit == Init => SlotsInv
<1> SUFFICES ASSUME Init PROVE SlotsInv
  BY Zenon
<1>1. SlotsType
  BY Zenon DEF Init, SlotsType, PCs
<1>2. Live = {} /\ Unknown = {} /\ \A t : Holding(t) = {}
  BY Zenon DEF Init, Live, Unknown, Holding
<1>3. Cardinality({}) = 0
  BY Zenon, FS_EmptySet
<1> QED
  <2>1. total = Cardinality(Live) /\ total <= GlobalCap
    BY <1>2, <1>3, RelayAssumption DEF Init
  <2>2. unauthenticated = Cardinality(Unknown) /\ unauthenticated <= UnauthCap
    BY <1>2, <1>3, RelayAssumption DEF Init
  <2>3. ASSUME NEW t \in Tiers
        PROVE  connections[t] = Cardinality(Holding(t)) /\ connections[t] <= TierCap[t]
    <3>1. Holding(t) = {} /\ connections[t] = 0 /\ TierCap[t] \in Nat
      BY Zenon, <1>2, RelayAssumption DEF Init
    <3> QED
      BY <3>1, <1>3
  <2> QED
    BY Zenon, <1>1, <2>1, <2>2, <2>3 DEF SlotsInv, SlotsBalance

\* A step of a thread that neither takes nor gives back a slot: pc moves
\* among the places that hold the same ones.
LEMMA SlotsKept ==
  ASSUME SlotsInv, NEW c \in Conns, NEW p \in PCs, NEW from \in SUBSET PCs,
         pc[c] \in from, pc' = [pc EXCEPT ![c] = p], fp' = fp, UNCHANGED counts,
         \/ from = {"accepted"} /\ p = "closed"
         \/ /\ from \subseteq {"open", "welcomed", "serving", "leaving"}
            /\ p \in {"serving", "leaving", "closing"}
  PROVE  SlotsInv'
<1>1. SlotsType'
  BY Zenon DEF SlotsInv, SlotsType, counts, PCs
<1>2. Live' = Live /\ Unknown' = Unknown
  BY Zenon DEF SlotsInv, SlotsType, Live, Unknown
<1>3. \A t \in Tiers : Holding(t)' = Holding(t)
  BY Zenon DEF SlotsInv, SlotsType, Holding
<1> QED
  BY Zenon, <1>1, <1>2, <1>3 DEF SlotsInv, SlotsBalance, counts

LEMMA SlotsAccept ==
  ASSUME SlotsInv, NEW c \in Conns, Accept(c)
  PROVE  SlotsInv'
<1>1. SlotsType'
  BY DEF SlotsInv, SlotsType, Accept, PCs
<1>2. Live' = Live \cup {c} /\ c \in Conns \ Live /\ Live \in SUBSET Conns
  BY Zenon DEF SlotsInv, SlotsType, Accept, Live
<1>3. Unknown' = Unknown \cup {c} /\ c \in Conns \ Unknown /\ Unknown \in SUBSET Conns
  BY Zenon DEF SlotsInv, SlotsType, Accept, Live, Unknown
<1>4. \A t \in Tiers : Holding(t)' = Holding(t)
  BY Zenon DEF SlotsInv, SlotsType, Accept, Holding
<1>5. total' = Cardinality(Live)' /\ total' <= GlobalCap
  <2>1. Cardinality(Live) \in Nat /\ Cardinality(Live') = Cardinality(Live) + 1
    BY Zenon, <1>2, Gain
  <2> QED
    BY <2>1, RelayAssumption DEF SlotsInv, SlotsBalance, Accept
<1>6. unauthenticated' = Cardinality(Unknown)' /\ unauthenticated' <= UnauthCap
  <2>1. Cardinality(Unknown) \in Nat /\ Cardinality(Unknown') = Cardinality(Unknown) + 1
    BY Zenon, <1>3, Gain
  <2> QED
    BY <2>1, RelayAssumption DEF SlotsInv, SlotsBalance, Accept
<1> QED
  BY Zenon, <1>1, <1>4, <1>5, <1>6 DEF SlotsInv, SlotsBalance, Accept

LEMMA SlotsOpenNetwork ==
  ASSUME SlotsInv, NEW c \in Conns, OpenNetwork(c)
  PROVE  SlotsInv'
<1>1. CASE \E t \in TiersOf[c] : connections[t] >= TierCap[t]
  <2>1. pc[c] \in {"accepted"} /\ pc' = [pc EXCEPT ![c] = "closed"] /\ fp' = fp /\ UNCHANGED counts
    BY Zenon, <1>1 DEF OpenNetwork, counts
  <2> QED
    BY Zenon, <2>1, SlotsKept DEF PCs
<1>2. CASE \A t \in TiersOf[c] : ~(connections[t] >= TierCap[t])
  <2>1. SlotsType'
    BY <1>2 DEF SlotsInv, SlotsType, OpenNetwork, PCs
  <2>2. Live' = Live /\ Unknown' = Unknown
    BY Zenon, <1>2 DEF SlotsInv, SlotsType, OpenNetwork, Live, Unknown
  <2>3. ASSUME NEW t \in Tiers
        PROVE  connections'[t] = Cardinality(Holding(t))' /\ connections'[t] <= TierCap[t]
    <3>1. CASE t \in TiersOf[c]
      <4>1. Holding(t)' = Holding(t) \cup {c} /\ c \in Conns \ Holding(t) /\ Holding(t) \in SUBSET Conns
        BY Zenon, <1>2, <3>1 DEF SlotsInv, SlotsType, OpenNetwork, Holding
      <4>2. connections'[t] = connections[t] + 1 /\ connections[t] < TierCap[t] /\ connections[t] \in Nat
        BY <1>2, <3>1, RelayAssumption DEF SlotsInv, SlotsType, OpenNetwork
      <4> QED
        BY <4>1, <4>2, Gain, RelayAssumption DEF SlotsInv, SlotsBalance
    <3>2. CASE t \notin TiersOf[c]
      <4>1. Holding(t)' = Holding(t) /\ connections'[t] = connections[t]
        BY Zenon, <1>2, <3>2 DEF SlotsInv, SlotsType, OpenNetwork, Holding
      <4> QED
        BY Zenon, <4>1 DEF SlotsInv, SlotsBalance
    <3> QED
      BY Zenon, <3>1, <3>2
  <2> QED
    BY Zenon, <2>1, <2>2, <2>3 DEF SlotsInv, SlotsBalance, OpenNetwork
<1> QED
  BY Zenon, <1>1, <1>2

LEMMA SlotsAuthenticate ==
  ASSUME SlotsInv, NEW c \in Conns, NEW d \in Devices, Authenticate(c, d)
  PROVE  SlotsInv'
<1>1. Live' = Live
  BY Zenon DEF SlotsInv, SlotsType, Authenticate, Live
<1>2. Unknown' = Unknown \ {c} /\ c \in Unknown /\ Unknown \in SUBSET Conns
  BY Zenon, RelayAssumption DEF SlotsInv, SlotsType, Authenticate, Live, Unknown
<1>3. \A t \in Tiers : Holding(t)' = Holding(t)
  BY Zenon DEF SlotsInv, SlotsType, Authenticate, Holding
<1>4. unauthenticated' \in Nat /\ unauthenticated' = Cardinality(Unknown)' /\ unauthenticated' <= UnauthCap
  <2>1. Cardinality(Unknown') \in Nat /\ Cardinality(Unknown) = Cardinality(Unknown') + 1
    BY Zenon, <1>2, Lose
  <2> QED
    BY <2>1, RelayAssumption DEF SlotsInv, SlotsBalance, Authenticate
<1>5. SlotsType'
  BY Zenon, <1>4 DEF SlotsInv, SlotsType, Authenticate, PCs
<1> QED
  BY Zenon, <1>1, <1>3, <1>4, <1>5 DEF SlotsInv, SlotsBalance, Authenticate

LEMMA SlotsCloseNetwork ==
  ASSUME SlotsInv, NEW c \in Conns, CloseNetwork(c)
  PROVE  SlotsInv'
<1>1. Live' = Live /\ Unknown' = Unknown
  BY Zenon DEF SlotsInv, SlotsType, CloseNetwork, Live, Unknown
<1>2. ASSUME NEW t \in Tiers
      PROVE  /\ connections'[t] \in Nat
             /\ connections'[t] = Cardinality(Holding(t))' /\ connections'[t] <= TierCap[t]
  <2>1. CASE t \in TiersOf[c]
    <3>1. Holding(t)' = Holding(t) \ {c} /\ c \in Holding(t) /\ Holding(t) \in SUBSET Conns
      BY Zenon, <2>1 DEF SlotsInv, SlotsType, CloseNetwork, Holding
    <3>2. connections'[t] = connections[t] - 1 /\ connections[t] \in Nat
      BY Zenon, <2>1 DEF SlotsInv, SlotsType, CloseNetwork
    <3>3. Cardinality(Holding(t)') \in Nat /\ Cardinality(Holding(t)) = Cardinality(Holding(t)') + 1
      BY Zenon, <3>1, Lose
    <3> QED
      BY <3>2, <3>3, RelayAssumption DEF SlotsInv, SlotsBalance
  <2>2. CASE t \notin TiersOf[c]
    <3>1. Holding(t)' = Holding(t) /\ connections'[t] = connections[t]
      BY Zenon, <2>2 DEF SlotsInv, SlotsType, CloseNetwork, Holding
    <3> QED
      BY Zenon, <3>1 DEF SlotsInv, SlotsType, SlotsBalance
  <2> QED
    BY Zenon, <2>1, <2>2
<1>3. connections' = [t \in Tiers |-> connections'[t]]
  BY Zenon DEF CloseNetwork
<1>4. connections' \in [Tiers -> Nat]
  BY Zenon, <1>2, <1>3
<1>5. SlotsType'
  BY Zenon, <1>4 DEF SlotsInv, SlotsType, CloseNetwork, PCs
<1> QED
  BY Zenon, <1>1, <1>2, <1>5 DEF SlotsInv, SlotsBalance, CloseNetwork

LEMMA SlotsCloseGlobal ==
  ASSUME SlotsInv, NEW c \in Conns, CloseGlobal(c)
  PROVE  SlotsInv'
<1>1. Live' = Live \ {c} /\ c \in Live /\ Live \in SUBSET Conns
  BY Zenon DEF SlotsInv, SlotsType, CloseGlobal, Live
<1>2. total' \in Nat /\ total' = Cardinality(Live)' /\ total' <= GlobalCap
  <2>1. Cardinality(Live') \in Nat /\ Cardinality(Live) = Cardinality(Live') + 1
    BY Zenon, <1>1, Lose
  <2> QED
    BY <2>1, RelayAssumption DEF SlotsInv, SlotsBalance, CloseGlobal
<1>3. \A t \in Tiers : Holding(t)' = Holding(t)
  BY Zenon DEF SlotsInv, SlotsType, CloseGlobal, Holding
<1>4. unauthenticated' \in Nat /\ unauthenticated' = Cardinality(Unknown)' /\ unauthenticated' <= UnauthCap
  <2>1. CASE fp[c] = None
    <3>1. Unknown' = Unknown \ {c} /\ c \in Unknown /\ Unknown \in SUBSET Conns
      BY Zenon, <2>1, <1>1 DEF SlotsInv, SlotsType, CloseGlobal, Live, Unknown
    <3>2. Cardinality(Unknown') \in Nat /\ Cardinality(Unknown) = Cardinality(Unknown') + 1
      BY Zenon, <3>1, Lose
    <3> QED
      BY <2>1, <3>2, RelayAssumption DEF SlotsInv, SlotsBalance, CloseGlobal
  <2>2. CASE fp[c] # None
    <3>1. Unknown' = Unknown
      BY Zenon, <2>2, <1>1 DEF SlotsInv, SlotsType, CloseGlobal, Unknown
    <3> QED
      BY Zenon, <2>2, <3>1 DEF SlotsInv, SlotsType, SlotsBalance, CloseGlobal
  <2> QED
    BY Zenon, <2>1, <2>2
<1>5. SlotsType'
  BY Zenon, <1>2, <1>4 DEF SlotsInv, SlotsType, CloseGlobal, PCs
<1> QED
  BY Zenon, <1>2, <1>3, <1>4, <1>5 DEF SlotsInv, SlotsBalance, CloseGlobal

\* What clients ask of the hub leaves the threads where they are.
LEMMA SlotsUntouched ==
  ASSUME SlotsInv, UNCHANGED <<pc, fp, counts>>
  PROVE  SlotsInv'
BY Zenon DEF SlotsInv, SlotsType, SlotsBalance, Live, Unknown, Holding, counts

LEMMA SlotsNext ==
  ASSUME SlotsInv, [Next]_vars
  PROVE  SlotsInv'
<1>1. CASE UNCHANGED vars
  BY Zenon, <1>1, SlotsUntouched DEF vars
<1>2. ASSUME NEW c \in Conns,
             Accept(c) \/ NoUpgrade(c) \/ OpenNetwork(c) \/ ThreadStep(c) \/ ClientStep(c)
      PROVE  SlotsInv'
  <2>1. CASE NoUpgrade(c) \/ Register(c) \/ Exit(c) \/ SilenceLimit(c) \/ Unregister(c)
    <3>1. CASE NoUpgrade(c)
      BY Zenon, <3>1, SlotsKept DEF NoUpgrade, PCs
    <3>2. CASE Register(c)
      BY Zenon, <3>2, SlotsKept DEF Register, PCs
    <3>3. CASE Exit(c)
      BY Zenon, <3>3, SlotsKept DEF Exit, Leave, PCs
    <3>4. CASE SilenceLimit(c)
      BY Zenon, <3>4, SlotsKept DEF SilenceLimit, Leave, PCs
    <3>5. CASE Unregister(c)
      BY Zenon, <3>5, SlotsKept DEF Unregister, PCs
    <3> QED
      BY Zenon, <2>1, <3>1, <3>2, <3>3, <3>4, <3>5
  <2>2. CASE Drain(c)
    <3>1. CASE pc' = pc
      BY Zenon, <2>2, <3>1, SlotsUntouched DEF Drain
    <3>2. CASE Leave(c)
      BY Zenon, <2>2, <3>2, SlotsKept DEF Drain, Leave, PCs
    <3> QED
      BY Zenon, <2>2, <3>1, <3>2 DEF Drain
  <2>3. CASE ClientVanishes(c)
    BY Zenon, <2>3, SlotsUntouched DEF ClientVanishes
  <2>4. ASSUME NEW d \in Devices, Forward(c, d) PROVE SlotsInv'
    BY Zenon, <2>4, SlotsUntouched DEF Forward
  <2>5. ASSUME NEW fps \in SUBSET Devices, SetAllow(c, fps) PROVE SlotsInv'
    BY Zenon, <2>5, SlotsUntouched DEF SetAllow
  <2> QED
    BY Zenon, <1>2, <2>1, <2>2, <2>3, <2>4, <2>5, SlotsAccept, SlotsOpenNetwork, SlotsAuthenticate,
       SlotsCloseNetwork, SlotsCloseGlobal DEF ThreadStep, ClientStep
<1> QED
  BY Zenon, <1>1, <1>2 DEF Next

\* The relay's connection counts never drift from the sockets it serves, and
\* its caps hold, on every path a connection thread can take.
THEOREM SlotsCorrect == Spec => []SlotsBalance
<1>1. SlotsInv => SlotsBalance
  BY Zenon DEF SlotsInv
<1> QED
  BY <1>1, SlotsInit, SlotsNext, PTL DEF Spec

-----------------------------------------------------------------------------
\* What HubHoldsLive needs to be inductive: its types, and that an
\* authenticated connection has a name.
HubInv ==
  /\ pc \in [Conns -> PCs]
  /\ fp \in [Conns -> Devices \cup {None}]
  /\ online \in [Devices -> Conns \cup {None}]
  /\ \A c \in Conns : pc[c] \in {"welcomed", "serving"} => fp[c] # None
  /\ \A c \in Conns : pc[c] \in {"none", "accepted", "open"} => fp[c] = None
  /\ HubHoldsLive

LEMMA HubInit == Init => HubInv
BY DEF Init, HubInv, HubHoldsLive, PCs

\* A connection in no place of the hub moves to another such place, or one
\* that serves stops serving.
LEMMA HubKept ==
  ASSUME HubInv, NEW c \in Conns, NEW p \in PCs,
         pc' = [pc EXCEPT ![c] = p], fp' = fp, online' = online,
         \/ pc[c] \in {"none", "accepted"} /\ p \in {"accepted", "open", "closed"} /\ fp[c] = None
         \/ pc[c] \in {"closing", "closed"} /\ p \in {"closed", "done"}
         \/ pc[c] \in {"open", "welcomed", "serving"} /\ p = "leaving"
  PROVE  HubInv'
<1>1. /\ pc' \in [Conns -> PCs] /\ fp' \in [Conns -> Devices \cup {None}]
      /\ online' \in [Devices -> Conns \cup {None}]
  BY Zenon DEF HubInv
<1>2. \A x \in Conns : pc'[x] \in {"welcomed", "serving"} => fp'[x] # None
  BY Zenon DEF HubInv
<1>3. \A x \in Conns : pc'[x] \in {"none", "accepted", "open"} => fp'[x] = None
  BY Zenon DEF HubInv
<1>4. HubHoldsLive'
  BY DEF HubInv, HubHoldsLive
<1> QED
  BY Zenon, <1>1, <1>2, <1>3, <1>4 DEF HubInv

LEMMA HubRegister ==
  ASSUME HubInv, NEW c \in Conns, Register(c)
  PROVE  HubInv'
<1>1. fp[c] \in Devices /\ online' = [online EXCEPT ![fp[c]] = c] /\ fp' = fp
      /\ pc' = [pc EXCEPT ![c] = "serving"] /\ pc[c] = "welcomed"
  BY Zenon DEF HubInv, Register
<1>2. /\ pc' \in [Conns -> PCs] /\ fp' \in [Conns -> Devices \cup {None}]
      /\ online' \in [Devices -> Conns \cup {None}]
  BY Zenon, <1>1 DEF HubInv, PCs
<1>3. \A x \in Conns : /\ pc'[x] \in {"welcomed", "serving"} => fp'[x] # None
                       /\ pc'[x] \in {"none", "accepted", "open"} => fp'[x] = None
  BY Zenon, <1>1 DEF HubInv
<1>4. HubHoldsLive'
  BY <1>1 DEF HubInv, HubHoldsLive
<1> QED
  BY Zenon, <1>2, <1>3, <1>4 DEF HubInv

LEMMA HubUnregister ==
  ASSUME HubInv, NEW c \in Conns, Unregister(c)
  PROVE  HubInv'
<1>1. fp' = fp /\ pc' = [pc EXCEPT ![c] = "closing"] /\ pc[c] = "leaving"
  BY Zenon DEF Unregister
<1>2. online' = IF fp[c] # None /\ online[fp[c]] = c THEN [online EXCEPT ![fp[c]] = None] ELSE online
  BY Zenon DEF Unregister
<1>3. /\ pc' \in [Conns -> PCs] /\ fp' \in [Conns -> Devices \cup {None}]
      /\ online' \in [Devices -> Conns \cup {None}]
  BY Zenon, <1>1, <1>2 DEF HubInv, PCs
<1>4. \A x \in Conns : /\ pc'[x] \in {"welcomed", "serving"} => fp'[x] # None
                       /\ pc'[x] \in {"none", "accepted", "open"} => fp'[x] = None
  BY Zenon, <1>1 DEF HubInv
<1>5. ASSUME NEW d \in Devices, online'[d] # None
      PROVE  online'[d] = online[d] /\ online[d] # c
  <2>1. online[d] = c => fp[c] = d
    BY Zenon, RelayAssumption DEF HubInv, HubHoldsLive
  <2> QED
    BY Zenon, <1>2, <1>5, <2>1, RelayAssumption DEF HubInv
<1>6. HubHoldsLive'
  BY <1>1, <1>5 DEF HubInv, HubHoldsLive
<1> QED
  BY Zenon, <1>3, <1>4, <1>6 DEF HubInv

LEMMA HubAuthenticate ==
  ASSUME HubInv, NEW c \in Conns, NEW d \in Devices, Authenticate(c, d)
  PROVE  HubInv'
<1>1. /\ pc' = [pc EXCEPT ![c] = "welcomed"] /\ fp' = [fp EXCEPT ![c] = d]
      /\ online' = online /\ pc[c] = "open"
  BY Zenon DEF Authenticate, hub
<1>2. /\ pc' \in [Conns -> PCs] /\ fp' \in [Conns -> Devices \cup {None}]
      /\ online' \in [Devices -> Conns \cup {None}]
  BY Zenon, <1>1 DEF HubInv, PCs
<1>3. \A x \in Conns : /\ pc'[x] \in {"welcomed", "serving"} => fp'[x] # None
                       /\ pc'[x] \in {"none", "accepted", "open"} => fp'[x] = None
  BY Zenon, <1>1, RelayAssumption DEF HubInv
<1>4. \A e \in Devices : online[e] # c
  BY Zenon, <1>1, RelayAssumption DEF HubInv, HubHoldsLive
<1>5. HubHoldsLive'
  BY <1>1, <1>4 DEF HubInv, HubHoldsLive
<1> QED
  BY Zenon, <1>2, <1>3, <1>5 DEF HubInv

LEMMA HubUntouched ==
  ASSUME HubInv, UNCHANGED <<pc, fp, online>>
  PROVE  HubInv'
BY Zenon DEF HubInv, HubHoldsLive

LEMMA HubNext ==
  ASSUME HubInv, [Next]_vars
  PROVE  HubInv'
<1>1. CASE UNCHANGED vars
  BY Zenon, <1>1, HubUntouched DEF vars, hub
<1>2. ASSUME NEW c \in Conns,
             Accept(c) \/ NoUpgrade(c) \/ OpenNetwork(c) \/ ThreadStep(c) \/ ClientStep(c)
      PROVE  HubInv'
  <2>1. CASE Accept(c)
    BY Zenon, <2>1, HubKept DEF Accept, hub, PCs, HubInv
  <2>2. CASE NoUpgrade(c)
    BY Zenon, <2>2, HubKept DEF NoUpgrade, hub, PCs, HubInv
  <2>3. CASE OpenNetwork(c)
    BY Zenon, <2>3, HubKept DEF OpenNetwork, hub, PCs, HubInv
  <2>4. CASE Exit(c)
    BY Zenon, <2>4, HubKept DEF Exit, Leave, PCs
  <2>5. CASE SilenceLimit(c)
    BY Zenon, <2>5, HubKept DEF SilenceLimit, Leave, PCs
  <2>6. CASE Drain(c)
    <3>1. CASE pc' = pc
      BY Zenon, <2>6, <3>1, HubUntouched DEF Drain
    <3>2. CASE Leave(c)
      BY Zenon, <2>6, <3>2, HubKept DEF Drain, Leave, PCs
    <3> QED
      BY Zenon, <2>6, <3>1, <3>2 DEF Drain
  <2>7. CASE CloseNetwork(c) \/ CloseGlobal(c)
    BY Zenon, <2>7, HubKept DEF CloseNetwork, CloseGlobal, hub, PCs
  <2>8. CASE ClientVanishes(c)
    BY Zenon, <2>8, HubUntouched DEF ClientVanishes, hub
  <2>9. ASSUME NEW d \in Devices, Forward(c, d) PROVE HubInv'
    BY Zenon, <2>9, HubUntouched DEF Forward
  <2>10. ASSUME NEW fps \in SUBSET Devices, SetAllow(c, fps) PROVE HubInv'
    BY Zenon, <2>10, HubUntouched DEF SetAllow
  <2> QED
    BY Zenon, <1>2, <2>1, <2>2, <2>3, <2>4, <2>5, <2>6, <2>7, <2>8, <2>9, <2>10,
       HubRegister, HubUnregister, HubAuthenticate DEF ThreadStep, ClientStep
<1> QED
  BY Zenon, <1>1, <1>2 DEF Next

\* No connection whose thread is past the hub is in it, whatever replaced it
\* and however it ended: a device reads as online only while a thread that
\* will unregister it is there.
THEOREM HubCorrect == Spec => []HubHoldsLive
<1>1. HubInv => HubHoldsLive
  BY Zenon DEF HubInv
<1> QED
  BY <1>1, HubInit, HubNext, PTL DEF Spec

=============================================================================
