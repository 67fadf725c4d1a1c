---------------------------- MODULE FeatureProofs ----------------------------
(***************************************************************************)
(* Where the features of a handover are: every step moves a feature from   *)
(* one place to another, whatever the limit of the queue, whichever thread *)
(* goes on and whenever an attempt is dropped.                             *)
(***************************************************************************)
EXTENDS HandoverProofs

-----------------------------------------------------------------------------
(* The queue.                                                              *)

LEMMA FlushedStands ==
  ASSUME Flushed, pending' = pending,
         \A s \in Side : /\ Ready(s)' => Ready(s)
                         /\ sender'[s]["worker"].at = sender[s]["worker"].at
  PROVE  Flushed'
BY Zenon DEF Flushed

LEMMA AdvanceFlushed ==
  ASSUME HandInv, Flushed, NEW s \in Side, Advances(s)
  PROVE  Flushed'
<1> DEFINE u == Peer(s)
<1>1. PICK h \in Flags, msgs \in Seq(Kinds) : Follows(s, h, msgs) /\ Advance(s, h, msgs)
  BY Zenon DEF Advances
<1>2. u \in Side /\ u # s /\ Side = {s, u} /\ "worker" \in Thread
  BY Zenon, Sides DEF Thread
<1>3. hand'[s] = h /\ hand'[u] = hand[u] /\ phase' = phase /\ pending' = pending /\ Up(s)
      /\ sender[s]["worker"].at = "idle"
  BY Zenon, <1>1, <1>2 DEF HandInv, Types, Advance, Answers
<1> HIDE DEF u
<1>4. sender'[u]["worker"] = sender[u]["worker"]
  BY Zenon, <1>1, <1>2, <1>3, ToTake DEF Advance, HandInv
<1>5. CASE sender'[s]["worker"].at = "take"
  BY Zenon, <1>2, <1>3, <1>4, <1>5 DEF Flushed, Ready, Up
<1>6. CASE sender'[s]["worker"].at # "take"
  <2>1. sender' # [sender EXCEPT ![s]["worker"].at = "take"]
    BY Zenon, <1>3, <1>6, ToTake DEF HandInv
  <2>2. features_ready(h) => features_ready(hand[s])
    BY Zenon, <1>1, <2>1 DEF Advance
  <2>3. Ready(s)' => Ready(s)
    BY Zenon, <1>3, <2>2 DEF Ready, Up
  <2> QED
    BY Zenon, <1>2, <1>3, <1>4, <2>3 DEF Flushed, Ready, Up
<1> QED
  BY Zenon, <1>5, <1>6

LEMMA FlushedStep ==
  ASSUME HandInv, Flushed, [Next]_vars
  PROVE  Flushed'
<1>1. CASE UNCHANGED vars
  BY Zenon, <1>1 DEF vars, peer, user, Flushed, Ready, Up
<1>2. CASE TakeOffer
  <2>1. pending' = pending /\ sender' = sender /\ ~hand'[Responder].rready
        /\ hand'[Initiator] = hand[Initiator] /\ phase'[Initiator] = phase[Initiator]
    BY Zenon, <1>2, Two DEF TakeOffer, user, HandInv, Types, Fresh
  <2> QED
    BY Zenon, <2>1, Two, FlushedStands DEF Ready, Up, features_ready
<1>3. CASE TakeAnswer
  <2>1. pending' = pending /\ sender' = sender /\ phase' = phase
        /\ \A s \in Side : features_ready(hand'[s]) => features_ready(hand[s])
    BY SMTT(20), <1>3, Two DEF TakeAnswer, user, HandInv, Types, Flags, features_ready
  <2> QED
    BY Zenon, <2>1, FlushedStands DEF Ready, Up
<1>4. ASSUME NEW s \in Side, Drop(s) PROVE Flushed'
  <2>1. /\ pending' = pending /\ sender' = sender /\ phase'[s] = "dropped"
        /\ \A u \in Side : u # s => hand'[u] = hand[u] /\ phase'[u] = phase[u]
    BY Zenon, <1>4 DEF Drop, HandInv, Types
  <2> QED
    BY Zenon, <2>1, FlushedStands DEF Ready, Up
<1>5. ASSUME NEW s \in Side, NEW t \in Thread, Goes(s, t) PROVE Flushed'
  <2>1. PICK x \in Sender : Moves(s, t, x) /\ x.at # "take" /\ Effect(s, sender[s][t], x)
    BY Zenon, <1>5 DEF Goes
  <2>2. /\ sender'[s][t] = x /\ "worker" \in Thread
        /\ \A u \in Side, v \in Thread : <<u, v>> # <<s, t>> => sender'[u][v] = sender[u][v]
    BY SMTT(20), <2>1, MovesKeeps DEF Thread
  <2>3. \A u \in Side : /\ Ready(u)' <=> Ready(u)
                        /\ sender'[u]["worker"].at = "take" <=> sender[u]["worker"].at = "take"
    BY <1>5, <2>1, <2>2 DEF Moves, Ready, Up, Goes
  <2>4. \A u \in Side : pending'[u] = pending[u] \/ (u = s /\ ~Ready(s))
    BY Zenon, <2>1 DEF Effect, HandInv, Types
  <2> QED
    BY Zenon, <2>3, <2>4 DEF Flushed
<1>6. ASSUME NEW s \in Side, TakePending(s) PROVE Flushed'
  <2>1. PICK k, x : Taking(s, k, x)
    BY Zenon, <1>6, TakePendingTakes
  <2>2. /\ "worker" \in Thread
        /\ \A u \in Side, v \in Thread : <<u, v>> # <<s, "worker">> => sender'[u][v] = sender[u][v]
    BY Zenon, <2>1, MovesKeeps DEF Thread, Taking
  <2>3. pending'[s] = <<>> /\ \A u \in Side : u # s => pending'[u] = pending[u]
    BY ZenonT(40), <2>1 DEF Taking, HandInv, Types
  <2>4. \A u \in Side : Ready(u)' <=> Ready(u)
    BY Zenon, <2>1 DEF Taking, Moves, Ready, Up
  <2> QED
    BY Zenon, <2>2, <2>3, <2>4 DEF Flushed
<1>7. ASSUME NEW s \in Side, NewFeature(s) PROVE Flushed'
  <2> DEFINE x == [at |-> "snapshot", ready |-> FALSE, todo |-> <<made[s] + 1>>]
  <2>1. x \in Sender /\ Moves(s, "user", x) /\ "user" \in Thread /\ "worker" \in Thread /\ pending' = pending
    BY Zenon, <1>7, NewFeatureMoves DEF Thread
  <2> HIDE DEF x
  <2>2. \A u \in Side : sender'[u]["worker"] = sender[u]["worker"]
    BY <2>1, MovesKeeps
  <2>3. \A u \in Side : Ready(u)' <=> Ready(u)
    BY Zenon, <2>1 DEF Moves, Ready, Up
  <2> QED
    BY ZenonT(40), <2>1, <2>2, <2>3, FlushedStands
<1>8. ASSUME NEW s \in Side,
             \/ Feature(s) \/ ControlArrives(s) \/ FeatureArrives(s)
             \/ (\E c \in Required : ChannelOpens(s, c))
             \/ (\E kind \in {"degraded", "close"} : Break(s, kind))
      PROVE  Flushed'
  <2>1. UNCHANGED <<hand, phase, pending, sender>>
    BY Zenon, <1>8 DEF Feature, ControlArrives, FeatureArrives, ChannelOpens, Break, peer, user
  <2> QED
    BY Zenon, <2>1, FlushedStands DEF Ready, Up
<1>9. ASSUME NEW s \in Side, Step(s) PROVE Flushed'
  BY Zenon, <1>4, <1>5, <1>6, <1>7, <1>8, <1>9, AdvanceFlushed DEF Step
<1> QED
  BY Zenon, <1>1, <1>2, <1>3, <1>9, Steps

(* "A packet can never land in the queue after the flush ran": whatever a  *)
(* user's threads read before the worker made the session ready, nothing   *)
(* they send is left in pending_features for good.                         *)
THEOREM FlushCorrect == Spec => []NothingStranded
<1>1. Init => Flushed
  BY DEF Init, Flushed, Ready, features_ready, Fresh
<1>2. Flushed => NothingStranded
  BY Zenon DEF Flushed, NothingStranded
<1> QED
  BY <1>1, <1>2, HandStart, HandStep, FlushedStep, PTL DEF Spec

(* Where the features are.                                                 *)

Spots == {"queue", "user", "worker", "wire", "event", "taken", "refused", "lost"}

Is(s, n, p) ==
  \/ p = "queue"   /\ Has(pending[s], n)
  \/ p = "user"    /\ Has(sender[s]["user"].todo, n)
  \/ p = "worker"  /\ Has(sender[s]["worker"].todo, n)
  \/ p = "wire"    /\ Has(feature[Peer(s)], n)
  \/ p = "event"   /\ Has(event[Peer(s)], <<"feature", n>>)
  \/ p = "taken"   /\ n \in taken[Peer(s)]
  \/ p = "refused" /\ n \in refused[Peer(s)]
  \/ p = "lost"    /\ n \in lost[s]

OnceAt(s, n) ==
  /\ Once(pending[s], n)
  /\ Once(sender[s]["user"].todo, n) /\ Once(sender[s]["worker"].todo, n)
  /\ Once(feature[Peer(s)], n) /\ Once(event[Peer(s)], <<"feature", n>>)

OnlyAt(s, n, p) == \A q \in Spots : Is(s, n, q) <=> q = p

\* A feature is in one place, and there once; one not made yet is nowhere.
AccountedFor(s, n) ==
  /\ OnceAt(s, n)
  /\ n <= made[s] => \E p \in Spots : OnlyAt(s, n, p)
  /\ n > made[s] => \A p \in Spots : ~Is(s, n, p)

Accounted == \A s \in Side, n \in Packet : AccountedFor(s, n)

LEMMA IsAll ==
  ASSUME NEW s, NEW n
  PROVE  /\ Is(s, n, "queue") <=> Has(pending[s], n)
         /\ Is(s, n, "user") <=> Has(sender[s]["user"].todo, n)
         /\ Is(s, n, "worker") <=> Has(sender[s]["worker"].todo, n)
         /\ Is(s, n, "wire") <=> Has(feature[Peer(s)], n)
         /\ Is(s, n, "event") <=> Has(event[Peer(s)], <<"feature", n>>)
         /\ Is(s, n, "taken") <=> n \in taken[Peer(s)]
         /\ Is(s, n, "refused") <=> n \in refused[Peer(s)]
         /\ Is(s, n, "lost") <=> n \in lost[s]
BY Zenon DEF Is

\* What may happen to a feature: nothing, or it goes from one place to another.
Stays(s, n) == \A p \in Spots : Is(s, n, p)' <=> Is(s, n, p)
Goes2(s, n, a, b) == Is(s, n, a) /\ \A p \in Spots : Is(s, n, p)' <=> p = b

LEMMA StaysAccounted ==
  ASSUME NEW s \in Side, NEW n \in Packet, AccountedFor(s, n), made'[s] = made[s], OnceAt(s, n)', Stays(s, n)
  PROVE  AccountedFor(s, n)'
BY Zenon DEF AccountedFor, OnlyAt, Stays

LEMMA GoesAccounted ==
  ASSUME NEW s \in Side, NEW n \in Packet, AccountedFor(s, n), made'[s] = made[s], Types, OnceAt(s, n)',
         NEW a \in Spots, NEW b \in Spots, Goes2(s, n, a, b)
  PROVE  AccountedFor(s, n)'
<1>1. n \in Nat /\ made[s] \in Nat
  BY HandoverAssumption DEF Packet, Types
<1>2. n <= made[s]
  BY <1>1 DEF AccountedFor, Goes2
<1> QED
  BY Zenon, <1>1, <1>2 DEF AccountedFor, OnlyAt, Goes2

\* A feature is not in two places.
LEMMA OnlyThere ==
  ASSUME NEW s \in Side, NEW n \in Packet, AccountedFor(s, n), Types,
         NEW a \in Spots, Is(s, n, a), NEW b \in Spots, a # b
  PROVE  ~Is(s, n, b)
<1>1. n \in Nat /\ made[s] \in Nat
  BY HandoverAssumption DEF Packet, Types
<1> QED
  BY <1>1 DEF AccountedFor, OnlyAt

LEMMA HasRest ==
  ASSUME NEW S, NEW q \in Seq(S), q # <<>>, NEW x, Once(q, x)
  PROVE  /\ Has(Tail(q), x) <=> Has(q, x) /\ Head(q) # x
         /\ Once(Tail(q), x) /\ Has(q, Head(q))
<1>1. /\ Has(q, x) <=> Head(q) = x \/ Has(Tail(q), x)
      /\ Once(q, x) => Once(Tail(q), x)
      /\ Once(q, x) /\ Head(q) = x => ~Has(Tail(q), x)
  BY Zenon, HasTail
<1>2. Has(q, Head(q))
  BY Zenon, HasTail
<1> QED
  BY Zenon, <1>1, <1>2

LEMMA HasParts ==
  ASSUME NEW S, NEW q \in Seq(S), NEW k \in 0 .. Len(q), NEW x, Once(q, x)
  PROVE  LET a == SubSeq(q, 1, k)
             b == SubSeq(q, k + 1, Len(q))
         IN  /\ Has(q, x) <=> x \in ToSet(a) \/ Has(b, x)
             /\ ~(x \in ToSet(a) /\ Has(b, x)) /\ Once(b, x)
<1> DEFINE a == SubSeq(q, 1, k)
           b == SubSeq(q, k + 1, Len(q))
<1>1. /\ Len(q) \in Nat /\ Len(a) = k /\ DOMAIN a = 1 .. k /\ Len(b) = Len(q) - k
      /\ \A i \in 1 .. k : a[i] = q[i]
      /\ \A i \in 1 .. Len(q) - k : b[i] = q[k + i]
  OBVIOUS
<1>2. ToSet(a) = {a[i] : i \in 1 .. k}
  BY Zenon, <1>1 DEF ToSet
<1> HIDE DEF a, b
<1>3. ASSUME Has(q, x) PROVE x \in ToSet(a) \/ Has(b, x)
  <2>1. PICK i \in 1 .. Len(q) : q[i] = x
    BY Zenon, <1>3 DEF Has
  <2>2. CASE i <= k
    BY <1>1, <1>2, <2>1, <2>2
  <2>3. CASE i > k
    <3>1. i - k \in 1 .. Len(b) /\ b[i - k] = x
      BY <1>1, <2>1, <2>3
    <3> QED
      BY Zenon, <3>1 DEF Has
  <2> QED
    BY <1>1, <2>2, <2>3
<1>4. ASSUME x \in ToSet(a) PROVE \E i \in 1 .. k : q[i] = x
  <2>1. PICK i \in 1 .. k : x = a[i]
    BY Zenon, <1>2, <1>4
  <2> QED
    BY Zenon, <1>1, <2>1
<1>5. ASSUME Has(b, x) PROVE \E j \in 1 .. Len(q) : j > k /\ q[j] = x
  <2>1. PICK i \in 1 .. Len(b) : b[i] = x
    BY Zenon, <1>5 DEF Has
  <2>2. k + i \in 1 .. Len(q) /\ k + i > k /\ q[k + i] = x
    BY <1>1, <2>1
  <2> QED
    BY Zenon, <2>2
<1>6. (x \in ToSet(a) \/ Has(b, x)) => Has(q, x)
  BY <1>1, <1>4, <1>5 DEF Has
<1>7. ~(x \in ToSet(a) /\ Has(b, x))
  <2> SUFFICES ASSUME x \in ToSet(a), Has(b, x) PROVE FALSE
    BY Zenon
  <2>1. PICK i \in 1 .. k : q[i] = x
    BY Zenon, <1>4
  <2>2. PICK j \in 1 .. Len(q) : j > k /\ q[j] = x
    BY Zenon, <1>5
  <2> QED
    BY <1>1, <2>1, <2>2 DEF Once
<1>8. Once(b, x)
  <2> SUFFICES ASSUME NEW i \in 1 .. Len(b), NEW j \in 1 .. Len(b), b[i] = x, b[j] = x
               PROVE  i = j
    BY Zenon DEF Once
  <2>1. k + i \in 1 .. Len(q) /\ k + j \in 1 .. Len(q) /\ q[k + i] = x /\ q[k + j] = x
    BY <1>1
  <2>2. k + i = k + j
    BY Zenon, <2>1 DEF Once
  <2> QED
    BY <1>1, <2>2
<1> QED
  BY Zenon, <1>3, <1>6, <1>7, <1>8 DEF a, b

-----------------------------------------------------------------------------
(* Steps that move no feature.                                             *)

\* No feature of the other side comes to s or is taken by its worker.
NoFeature(s) ==
  \/ event'[s] = event[s]
  \/ event[s] # <<>> /\ Head(event[s])[1] # "feature" /\ event'[s] = Tail(event[s])
  \/ \E e \in Event : e[1] # "feature" /\ event'[s] = Append(event[s], e)

LEMMA NoFeatureKeeps ==
  ASSUME Types, NEW s \in Side, NEW n \in Packet, Once(event[s], <<"feature", n>>), NoFeature(s)
  PROVE  /\ Has(event'[s], <<"feature", n>>) <=> Has(event[s], <<"feature", n>>)
         /\ Once(event'[s], <<"feature", n>>)
<1> DEFINE x == <<"feature", n>>
<1>1. x[1] = "feature" /\ event[s] \in Seq(Event)
  BY Zenon DEF Types
<1> HIDE DEF x
<1>2. CASE event'[s] = event[s]
  BY Zenon, <1>2
<1>3. CASE event[s] # <<>> /\ Head(event[s])[1] # "feature" /\ event'[s] = Tail(event[s])
  <2>1. /\ Has(Tail(event[s]), x) <=> Has(event[s], x) /\ Head(event[s]) # x
        /\ Once(Tail(event[s]), x)
    BY Zenon, <1>1, <1>3, HasRest DEF x
  <2> QED
    BY Zenon, <1>1, <1>3, <2>1 DEF x
<1>4. ASSUME NEW e \in Event, e[1] # "feature", event'[s] = Append(event[s], e)
      PROVE  (Has(event'[s], x) <=> Has(event[s], x)) /\ Once(event'[s], x)
  <2>1. /\ Has(Append(event[s], e), x) <=> Has(event[s], x) \/ e = x
        /\ Once(event[s], x) /\ (e = x => ~Has(event[s], x)) => Once(Append(event[s], e), x)
    BY Zenon, <1>1, HasAppend
  <2>2. e # x
    BY Zenon, <1>1, <1>4
  <2> QED
    BY Zenon, <1>4, <2>1, <2>2 DEF x
<1> QED
  BY Zenon, <1>2, <1>3, <1>4 DEF NoFeature, x

LEMMA AllStay ==
  ASSUME Types, NEW s \in Side, NEW n \in Packet, AccountedFor(s, n), made'[s] = made[s],
         pending'[s] = pending[s], feature'[Peer(s)] = feature[Peer(s)],
         \A t \in Thread : sender'[s][t].todo = sender[s][t].todo,
         taken'[Peer(s)] = taken[Peer(s)], refused'[Peer(s)] = refused[Peer(s)], lost'[s] = lost[s],
         NoFeature(Peer(s))
  PROVE  AccountedFor(s, n)'
<1>1. OnceAt(s, n) /\ Peer(s) \in Side
  BY Zenon, Sides DEF AccountedFor
<1>2. /\ Has(event'[Peer(s)], <<"feature", n>>) <=> Has(event[Peer(s)], <<"feature", n>>)
      /\ Once(event'[Peer(s)], <<"feature", n>>)
  BY Zenon, <1>1, NoFeatureKeeps DEF OnceAt
<1>3. sender'[s]["user"].todo = sender[s]["user"].todo /\ sender'[s]["worker"].todo = sender[s]["worker"].todo
  BY Zenon DEF Thread
<1>4. OnceAt(s, n)'
  BY ZenonT(40), <1>1, <1>2, <1>3 DEF OnceAt
<1>5. Stays(s, n)
  BY <1>2, <1>3 DEF Stays, Is
<1> QED
  BY Zenon, <1>4, <1>5, StaysAccounted

LEMMA NothingMoves ==
  ASSUME Types, Accounted, UNCHANGED <<made, pending, feature, taken, refused, lost>>,
         \A s \in Side, t \in Thread : sender'[s][t].todo = sender[s][t].todo,
         \A s \in Side : NoFeature(s)
  PROVE  Accounted'
<1> SUFFICES ASSUME NEW s \in Side, NEW n \in Packet PROVE AccountedFor(s, n)'
  BY Zenon DEF Accounted
<1>1. Peer(s) \in Side
  BY Zenon, Sides
<1> QED
  BY Zenon, <1>1, AllStay DEF Accounted

LEMMA AdvanceMoves ==
  ASSUME HandInv, Accounted, NEW s \in Side, Advances(s)
  PROVE  Accounted'
<1>1. PICK h \in Flags, msgs \in Seq(Kinds) : Advance(s, h, msgs)
  BY Zenon DEF Advances
<1>2. UNCHANGED <<made, pending, feature, taken, refused, lost>>
  BY Zenon, <1>1 DEF Advance, Answers
<1>3. \A u \in Side : NoFeature(u)
  BY Zenon, <1>1 DEF Advance, NoFeature, HandInv, Types
<1>4. \A u \in Side, t \in Thread : sender'[u][t].todo = sender[u][t].todo
  <2>1. CASE sender' = sender
    BY Zenon, <2>1
  <2>2. CASE sender' = [sender EXCEPT ![s]["worker"].at = "take"]
    <3>1. sender[s]["worker"].at = "idle"
      BY Zenon, <1>1 DEF Advance
    <3>2. /\ sender'[s]["worker"].todo = sender[s]["worker"].todo
          /\ \A u \in Side, v \in Thread : <<u, v>> # <<s, "worker">> => sender'[u][v] = sender[u][v]
      BY Zenon, <2>2, <3>1, ToTake DEF HandInv
    <3> QED
      BY Zenon, <3>2
  <2> QED
    BY Zenon, <1>1, <2>1, <2>2 DEF Advance
<1> QED
  BY Zenon, <1>2, <1>3, <1>4, NothingMoves DEF HandInv

LEMMA OtherMoves ==
  ASSUME HandInv, Accounted,
         \/ TakeOffer \/ TakeAnswer \/ UNCHANGED vars
         \/ \E s \in Side : \/ ControlArrives(s) \/ \E c \in Required : ChannelOpens(s, c)
                            \/ \E kind \in {"degraded", "close"} : Break(s, kind)
  PROVE  Accounted'
<1>1. UNCHANGED <<made, pending, feature, taken, refused, lost, sender>>
  BY Zenon DEF TakeOffer, TakeAnswer, vars, ControlArrives, ChannelOpens, Break, wire, user
<1>2. event \in [Side -> Seq(Event)]
  BY Zenon DEF HandInv, Types
<1>3. ASSUME NEW s \in Side, NEW e \in Event, e[1] # "feature",
             event' = [event EXCEPT ![s] = Append(event[s], e)]
      PROVE  \A u \in Side : NoFeature(u)
  BY Zenon, <1>2, <1>3 DEF NoFeature
<1>4. CASE event' = event
  BY Zenon, <1>1, <1>4, NothingMoves DEF NoFeature, HandInv
<1>5. CASE TakeOffer
  <2> DEFINE e == <<"described", "answer">>
  <2>1. e \in Event /\ e[1] # "feature" /\ Responder \in Side
        /\ event' = [event EXCEPT ![Responder] = Append(event[Responder], e)]
    BY Zenon, <1>5, Two DEF TakeOffer, Event
  <2> QED
    BY Zenon, <1>1, <1>3, <2>1, NothingMoves DEF HandInv
<1>6. ASSUME NEW s \in Side, NEW c \in Required, ChannelOpens(s, c) PROVE Accounted'
  <2> DEFINE e == <<"opened", c>>
  <2>1. e \in Event /\ e[1] # "feature"
        /\ event' = [event EXCEPT ![s] = Append(event[s], e)]
    BY Zenon, <1>6 DEF ChannelOpens, Event
  <2> QED
    BY Zenon, <1>1, <1>3, <2>1, NothingMoves DEF HandInv
<1>7. ASSUME NEW s \in Side, ControlArrives(s), event' # event PROVE Accounted'
  <2> DEFINE e == <<"control", Head(control[s])>>
  <2>1. Head(control[s]) \in Kinds
    BY <1>7 DEF ControlArrives, HandInv, Types
  <2>2. e \in Event /\ e[1] # "feature"
        /\ event' = [event EXCEPT ![s] = Append(event[s], e)]
    BY Zenon, <1>7, <2>1 DEF ControlArrives, Event
  <2> QED
    BY ZenonT(40), <1>1, <1>3, <2>2, NothingMoves DEF HandInv
<1>8. \/ event' = event \/ TakeOffer
      \/ \E s \in Side : ControlArrives(s) \/ \E c \in Required : ChannelOpens(s, c)
  BY Zenon DEF TakeAnswer, vars, Break, wire
<1> QED
  BY Zenon, <1>4, <1>5, <1>6, <1>7, <1>8

-----------------------------------------------------------------------------
(* Steps that move one.                                                    *)

LEMMA ArrivesMoves ==
  ASSUME HandInv, Accounted, NEW s \in Side, FeatureArrives(s)
  PROVE  Accounted'
<1> DEFINE u == Peer(s)
           m == Head(feature[s])
           e == <<"feature", m>>
<1>1. u \in Side /\ u # s /\ Side = {s, u} /\ Peer(u) = s /\ Peer(s) = u
  BY Zenon, Sides
<1>2. feature[s] \in Seq(Packet) /\ feature[s] # <<>> /\ m \in Packet /\ e \in Event
  BY SMTT(20) DEF HandInv, Types, FeatureArrives, Event
<1>3. /\ feature'[s] = Tail(feature[s]) /\ feature'[u] = feature[u]
      /\ event'[u] = event[u] /\ lost'[s] = lost[s]
      /\ UNCHANGED <<made, pending, sender, taken, refused>>
      /\ \/ event'[s] = Append(event[s], e) /\ lost'[u] = lost[u]
         \/ event'[s] = event[s] /\ lost'[u] = lost[u] \cup {m}
  BY Zenon, <1>1 DEF FeatureArrives, HandInv, Types
<1> HIDE DEF u, m
<1>4. ASSUME NEW n \in Packet PROVE AccountedFor(s, n)'
  BY Zenon, <1>1, <1>3, AllStay DEF HandInv, Accounted, NoFeature
<1>5. ASSUME NEW n \in Packet PROVE AccountedFor(u, n)'
  <2>1. AccountedFor(u, n) /\ OnceAt(u, n) /\ Types
    BY Zenon, <1>1 DEF Accounted, AccountedFor, HandInv
  <2>2. /\ Has(feature'[s], n) <=> Has(feature[s], n) /\ m # n
        /\ Once(feature'[s], n)
    BY <1>1, <1>2, <1>3, <2>1, HasRest DEF OnceAt, m
  <2>3. Has(feature[s], m)
    BY Zenon, <1>2, HasTail DEF m
  <2>4. n = m => Is(u, n, "wire")
    BY Zenon, <1>1, <2>3 DEF Is
  <2>5. n = m => \A q \in Spots : q # "wire" => ~Is(u, n, q)
    <3> SUFFICES ASSUME n = m, NEW q \in Spots, q # "wire" PROVE ~Is(u, n, q)
      BY Zenon
    <3> QED
      BY Zenon, <1>1, <2>1, <2>4, OnlyThere DEF Spots
  <2>6. n = m => /\ ~Has(pending[u], n) /\ ~Has(sender[u]["user"].todo, n)
                 /\ ~Has(sender[u]["worker"].todo, n) /\ ~Has(event[s], <<"feature", n>>)
                 /\ n \notin taken[s] /\ n \notin refused[s] /\ n \notin lost[u]
    BY Zenon, <1>1, <2>5 DEF Is, Spots
  <2>7. event[s] \in Seq(Event)
    BY Zenon DEF HandInv, Types
  <2>8. e = <<"feature", n>> <=> m = n
    BY SMTT(20)
  <2> HIDE DEF e
  <2>9. CASE event'[s] = Append(event[s], e) /\ lost'[u] = lost[u]
    <3>1. /\ Has(event'[s], <<"feature", n>>) <=> Has(event[s], <<"feature", n>>) \/ m = n
          /\ Once(event[s], <<"feature", n>>) /\ (e = <<"feature", n>> => ~Has(event[s], <<"feature", n>>))
               => Once(event'[s], <<"feature", n>>)
      BY <1>2, <2>7, <2>8, <2>9, HasAppend
    <3>2. OnceAt(u, n)'
      BY ZenonT(40), <1>1, <1>3, <2>1, <2>2, <2>6, <2>8, <3>1 DEF OnceAt
    <3>3. CASE n = m
      <4>1. Goes2(u, n, "wire", "event")
        BY ZenonT(40), <1>1, <1>3, <2>2, <2>4, <2>6, <2>9, <3>1, <3>3 DEF Goes2, Is, Spots
      <4> QED
        BY ZenonT(40), <1>1, <1>3, <2>1, <3>2, <4>1, GoesAccounted DEF Spots
    <3>4. CASE n # m
      <4>1. Stays(u, n)
        BY SMTT(20), <1>1, <1>3, <2>2, <2>9, <3>1, <3>4 DEF Stays, Is
      <4> QED
        BY ZenonT(40), <1>1, <1>3, <2>1, <3>2, <4>1, StaysAccounted
    <3> QED
      BY Zenon, <3>3, <3>4
  <2>10. CASE event'[s] = event[s] /\ lost'[u] = lost[u] \cup {m}
    <3>2. OnceAt(u, n)'
      BY Zenon, <1>1, <1>3, <2>1, <2>2, <2>10 DEF OnceAt
    <3>3. CASE n = m
      <4>1. Goes2(u, n, "wire", "lost")
        BY ZenonT(40), <1>1, <1>3, <2>2, <2>4, <2>6, <2>10, <3>3 DEF Goes2, Is, Spots
      <4> QED
        BY ZenonT(40), <1>1, <1>3, <2>1, <3>2, <4>1, GoesAccounted DEF Spots
    <3>4. CASE n # m
      <4>1. Stays(u, n)
        BY <1>1, <1>3, <2>2, <2>10, <3>4 DEF Stays, Is
      <4> QED
        BY Zenon, <1>1, <1>3, <2>1, <3>2, <4>1, StaysAccounted
    <3> QED
      BY Zenon, <3>3, <3>4
  <2> QED
    BY Zenon, <1>3, <2>9, <2>10
<1> QED
  BY Zenon, <1>1, <1>4, <1>5 DEF Accounted

LEMMA FeatureMoves ==
  ASSUME HandInv, Accounted, NEW s \in Side, Feature(s)
  PROVE  Accounted'
<1> DEFINE u == Peer(s)
<1>1. u \in Side /\ u # s /\ Side = {s, u} /\ Peer(u) = s /\ Peer(s) = u
  BY Zenon, Sides
<1>2. PICK m \in Packet : Takes(s, "feature", m)
  BY Zenon DEF Feature
<1>3. /\ Head(event[s]) = <<"feature", m>> /\ event[s] # <<>> /\ event[s] \in Seq(Event)
      /\ event' = [event EXCEPT ![s] = Tail(@)] /\ Head(event[s])[2] = m
  <2>1. Head(event[s]) = <<"feature", m>> /\ event[s] # <<>> /\ event' = [event EXCEPT ![s] = Tail(@)]
    BY ZenonT(40), <1>2, Took DEF HandInv
  <2>2. Head(event[s])[2] = m /\ event[s] \in Seq(Event)
    BY Zenon, <1>2 DEF Takes, HandInv, Types
  <2> QED
    BY Zenon, <2>1, <2>2
<1>4. /\ event'[s] = Tail(event[s]) /\ event'[u] = event[u]
      /\ UNCHANGED <<made, pending, sender, feature, lost>>
      /\ taken'[u] = taken[u] /\ refused'[u] = refused[u]
      /\ \/ taken'[s] = taken[s] \cup {m} /\ refused'[s] = refused[s]
         \/ taken'[s] = taken[s] /\ refused'[s] = refused[s] \cup {m}
  BY Zenon, <1>1, <1>3 DEF Feature, HandInv, Types
<1> HIDE DEF u
<1>5. ASSUME NEW n \in Packet PROVE AccountedFor(s, n)'
  BY Zenon, <1>1, <1>4, AllStay DEF HandInv, Accounted, NoFeature
<1>6. ASSUME NEW n \in Packet PROVE AccountedFor(u, n)'
  <2> DEFINE x == <<"feature", n>>
  <2>1. AccountedFor(u, n) /\ OnceAt(u, n) /\ Types
    BY Zenon, <1>1 DEF Accounted, AccountedFor, HandInv
  <2>2. <<"feature", m>> = x <=> m = n
    BY Zenon
  <2>3. Once(event[s], x)
    BY Zenon, <1>1, <2>1 DEF OnceAt
  <2> HIDE DEF x
  <2>4. /\ Has(event'[s], x) <=> Has(event[s], x) /\ m # n
        /\ Once(event'[s], x) /\ (m = n => Has(event[s], x))
    <3>1. /\ Has(Tail(event[s]), x) <=> Has(event[s], x) /\ Head(event[s]) # x
          /\ Once(Tail(event[s]), x) /\ Has(event[s], Head(event[s]))
      BY Zenon, <1>3, <2>3, HasRest
    <3> QED
      BY Zenon, <1>3, <1>4, <2>2, <3>1
  <2>5. n = m => Is(u, n, "event")
    BY Zenon, <1>1, <2>4 DEF Is, x
  <2>6. n = m => \A q \in Spots : q # "event" => ~Is(u, n, q)
    <3> SUFFICES ASSUME n = m, NEW q \in Spots, q # "event" PROVE ~Is(u, n, q)
      BY SMTT(20)
    <3> QED
      BY Zenon, <1>1, <2>1, <2>5, OnlyThere DEF Spots
  <2>7. n = m => /\ ~Has(pending[u], n) /\ ~Has(sender[u]["user"].todo, n)
                 /\ ~Has(sender[u]["worker"].todo, n) /\ ~Has(feature[s], n)
                 /\ n \notin taken[s] /\ n \notin refused[s] /\ n \notin lost[u]
    BY Zenon, <1>1, <2>6 DEF Is, Spots
  <2>8. OnceAt(u, n)'
    BY ZenonT(40), <1>1, <1>4, <2>1, <2>4 DEF OnceAt, x
  <2>9. CASE n # m
    <3>1. Stays(u, n)
      BY SMTT(20), <1>1, <1>4, <2>4, <2>9 DEF Stays, Is, x
    <3> QED
      BY <1>1, <1>4, <2>1, <2>8, <3>1, StaysAccounted
  <2>10. CASE n = m /\ taken'[s] = taken[s] \cup {m} /\ refused'[s] = refused[s]
    <3>1. Goes2(u, n, "event", "taken")
      BY Zenon, <1>1, <1>4, <2>4, <2>5, <2>7, <2>10 DEF Goes2, Is, Spots, x
    <3> QED
      BY ZenonT(40), <1>1, <1>4, <2>1, <2>8, <3>1, GoesAccounted DEF Spots
  <2>11. CASE n = m /\ taken'[s] = taken[s] /\ refused'[s] = refused[s] \cup {m}
    <3>1. Goes2(u, n, "event", "refused")
      BY ZenonT(40), <1>1, <1>4, <2>4, <2>5, <2>7, <2>11 DEF Goes2, Is, Spots, x
    <3> QED
      BY ZenonT(40), <1>1, <1>4, <2>1, <2>8, <3>1, GoesAccounted DEF Spots
  <2> QED
    BY Zenon, <1>4, <2>9, <2>10, <2>11
<1> QED
  BY Zenon, <1>1, <1>5, <1>6 DEF Accounted

\* What was not handled when the attempt is dropped is lost, all of it.
LEMMA DropMoves ==
  ASSUME HandInv, Accounted, NEW s \in Side, Drop(s)
  PROVE  Accounted'
<1> DEFINE u == Peer(s)
<1>1. u \in Side /\ u # s /\ Side = {s, u} /\ Peer(u) = s /\ Peer(s) = u
  BY Zenon, Sides
<1>2. /\ event'[s] = <<>> /\ event'[u] = event[u]
      /\ lost'[s] = lost[s] /\ lost'[u] = lost[u] \cup Unhandled(s)
      /\ UNCHANGED <<made, pending, sender, feature, taken, refused>>
  BY Zenon, <1>1 DEF Drop, HandInv, Types
<1> HIDE DEF u
<1>3. ASSUME NEW n \in Packet PROVE AccountedFor(s, n)'
  BY Zenon, <1>1, <1>2, AllStay DEF HandInv, Accounted, NoFeature
<1>4. ASSUME NEW n \in Packet PROVE AccountedFor(u, n)'
  <2> DEFINE x == <<"feature", n>>
  <2>1. AccountedFor(u, n) /\ OnceAt(u, n) /\ Types
    BY Zenon, <1>1 DEF Accounted, AccountedFor, HandInv
  <2>2. n \in Unhandled(s) <=> Has(event[s], x)
    BY Zenon, <2>1, UnhandledIs
  <2> HIDE DEF x
  <2>3. ~Has(event'[s], x) /\ Once(event'[s], x)
    BY Zenon, <1>2, HasEmpty
  <2>4. OnceAt(u, n)'
    BY SMTT(20), <1>1, <1>2, <2>1, <2>3 DEF OnceAt, x
  <2>5. CASE ~Has(event[s], x)
    <3>1. Stays(u, n)
      BY SMTT(20), <1>1, <1>2, <2>2, <2>3, <2>5 DEF Stays, Is, x
    <3> QED
      BY ZenonT(40), <1>1, <1>2, <2>1, <2>4, <3>1, StaysAccounted
  <2>6. CASE Has(event[s], x)
    <3>1. Is(u, n, "event")
      BY Zenon, <1>1, <2>6 DEF Is, x
    <3>2. ASSUME NEW q \in Spots, q # "event" PROVE ~Is(u, n, q)
      BY Zenon, <1>1, <2>1, <3>1, <3>2, OnlyThere DEF Spots
    <3>3. /\ ~Has(pending[u], n) /\ ~Has(sender[u]["user"].todo, n)
          /\ ~Has(sender[u]["worker"].todo, n) /\ ~Has(feature[s], n)
          /\ n \notin taken[s] /\ n \notin refused[s]
      BY Zenon, <1>1, <3>2 DEF Is, Spots
    <3>4. Goes2(u, n, "event", "lost")
      BY ZenonT(40), <1>1, <1>2, <2>2, <2>3, <2>6, <3>1, <3>3 DEF Goes2, Is, Spots, x
    <3> QED
      BY Zenon, <1>1, <1>2, <2>1, <2>4, <3>4, GoesAccounted DEF Spots
  <2> QED
    BY Zenon, <2>5, <2>6
<1> QED
  BY Zenon, <1>1, <1>3, <1>4 DEF Accounted

\* A step of a thread of s leaves the other side's features where they are.
LEMMA PeerStays ==
  ASSUME HandInv, Accounted, NEW s \in Side, NEW t \in Thread, NEW x \in Sender, Moves(s, t, x),
         feature' = feature \/ (\E m : feature' = [feature EXCEPT ![Peer(s)] = Append(@, m)]),
         \A u \in Side : u # s => made'[u] = made[u] /\ pending'[u] = pending[u] /\ lost'[u] = lost[u],
         NEW n \in Packet
  PROVE  AccountedFor(Peer(s), n)'
<1> DEFINE u == Peer(s)
<1>1. u \in Side /\ u # s /\ Peer(u) = s /\ Peer(s) = u
  BY Zenon, Sides
<1>2. \A v \in Thread : sender'[u][v] = sender[u][v]
  BY <1>1, MovesKeeps
<1>3. feature'[s] = feature[s]
  BY Zenon, <1>1 DEF HandInv, Types
<1>4. UNCHANGED <<event, taken, refused>>
  BY Zenon DEF Moves
<1>5. AccountedFor(u, n) /\ Types
  BY Zenon, <1>1 DEF Accounted, HandInv
<1> HIDE DEF u
<1> QED
  BY SMTT(20), <1>1, <1>2, <1>3, <1>4, <1>5, AllStay DEF NoFeature, u

\* The thread t of s is done with the first of its features, m.
LEMMA FirstGone ==
  ASSUME HandInv, NEW s \in Side, NEW t \in Thread, NEW x \in Sender, Moves(s, t, x),
         sender[s][t].todo # <<>>, x.todo = Tail(sender[s][t].todo),
         NEW n \in Packet, OnceAt(s, n)
  PROVE  LET m == Head(sender[s][t].todo) IN
         /\ m \in Packet /\ Has(sender[s][t].todo, m)
         /\ \A w \in Thread :
              /\ Once(sender'[s][w].todo, n)
              /\ Has(sender'[s][w].todo, n) <=> Has(sender[s][w].todo, n) /\ ~(w = t /\ n = m)
<1> DEFINE q == sender[s][t].todo
           m == Head(q)
<1>1. q \in Seq(Packet) /\ q # <<>>
  BY DEF HandInv, Types, Sender
<1>2. /\ sender'[s][t].todo = Tail(q)
      /\ \A w \in Thread : w # t => sender'[s][w] = sender[s][w]
  BY MovesKeeps
<1>3. \A w \in Thread : Once(sender[s][w].todo, n)
  BY Zenon DEF OnceAt, Thread
<1> HIDE DEF q
<1>4. /\ Has(Tail(q), n) <=> Has(q, n) /\ m # n
      /\ Once(Tail(q), n) /\ Has(q, m) /\ m \in Packet
  BY Zenon, <1>1, <1>3, HasRest, TailIs DEF q
<1> QED
  BY Zenon, <1>2, <1>3, <1>4 DEF q

LEMMA SpotOf ==
  ASSUME NEW s, NEW t \in Thread, NEW n
  PROVE  t \in Spots /\ (Is(s, n, t) <=> Has(sender[s][t].todo, n))
BY Zenon DEF Is, Thread, Spots

LEMMA TailShorter ==
  ASSUME NEW S, NEW q \in Seq(S), q # <<>>
  PROVE  q # Tail(q)
<1> DEFINE t == Tail(q)
<1>1. Len(q) \in Nat /\ Len(t) = Len(q) - 1
  OBVIOUS
<1> HIDE DEF t
<1>2. Len(t) # Len(q)
  BY <1>1
<1> QED
  BY Zenon, <1>2 DEF t

\* A thread that is done with its first feature has sent it, given it up or queued it.
LEMMA EffectIs ==
  ASSUME NEW s, NEW th, NEW x, Effect(s, th, x), th.todo # Tail(th.todo), x.todo = Tail(th.todo)
  PROVE  \/ feature' = [feature EXCEPT ![Peer(s)] = Append(@, Head(th.todo))] /\ UNCHANGED <<pending, lost>>
         \/ lost' = [lost EXCEPT ![s] = @ \cup {Head(th.todo)}] /\ UNCHANGED <<pending, feature>>
         \/ /\ pending' = [pending EXCEPT ![s] = Append(Kept(s), Head(th.todo))] /\ UNCHANGED feature
            /\ lost' = IF Full(s) THEN [lost EXCEPT ![s] = @ \cup {Head(pending[s])}] ELSE lost
BY Zenon DEF Effect

LEMMA GoesMoves ==
  ASSUME HandInv, Accounted, NEW s \in Side, NEW t \in Thread, Goes(s, t)
  PROVE  Accounted'
<1> DEFINE u == Peer(s)
           th == sender[s][t]
           m == Head(th.todo)
<1>1. u \in Side /\ u # s /\ Side = {s, u} /\ Peer(u) = s /\ Peer(s) = u
  BY Zenon, Sides
<1>2. PICK x \in Sender : Moves(s, t, x) /\ Effect(s, th, x)
  BY Zenon DEF Goes
<1>3. th.todo # <<>> /\ made' = made
  BY Zenon DEF Goes
<1>4. ASSUME NEW n \in Packet PROVE AccountedFor(u, n)'
  <2>1. feature' = feature \/ (\E k : feature' = [feature EXCEPT ![Peer(s)] = Append(@, k)])
    BY Zenon, <1>2 DEF Effect
  <2>2. \A v \in Side : v # s => made'[v] = made[v] /\ pending'[v] = pending[v] /\ lost'[v] = lost[v]
    BY Zenon, <1>2, <1>3 DEF Effect, HandInv, Types
  <2> QED
    BY Zenon, <1>2, <2>1, <2>2, PeerStays
<1>5. UNCHANGED <<event, taken, refused>>
  BY Zenon, <1>2 DEF Moves
<1>6. ASSUME NEW n \in Packet PROVE AccountedFor(s, n)'
  <2>1. AccountedFor(s, n) /\ OnceAt(s, n) /\ Types
    BY SMTT(20) DEF Accounted, AccountedFor, HandInv
  <2>2. CASE x.todo = th.todo /\ UNCHANGED <<feature, pending, lost>>
    <3>1. \A w \in Thread : sender'[s][w].todo = sender[s][w].todo
      BY <1>2, <2>2, MovesKeeps
    <3> QED
      BY ZenonT(40), <1>1, <1>3, <1>5, <2>1, <2>2, <3>1, AllStay DEF NoFeature
  <2>3. CASE x.todo = Tail(th.todo)
    <3>1. /\ m \in Packet /\ Has(sender[s][t].todo, m)
          /\ \A w \in Thread :
               /\ Once(sender'[s][w].todo, n)
               /\ Has(sender'[s][w].todo, n) <=> Has(sender[s][w].todo, n) /\ ~(w = t /\ n = m)
      BY Zenon, <1>2, <1>3, <2>1, <2>3, FirstGone
    <3>2. AccountedFor(s, m) /\ t \in Spots /\ Is(s, m, t)
      BY Zenon, <3>1, SpotOf DEF Accounted
    <3>3. ASSUME NEW q \in Spots, q # t PROVE ~Is(s, m, q)
      BY Zenon, <2>1, <3>1, <3>2, <3>3, OnlyThere
    <3>4. /\ ~Has(pending[s], m) /\ ~Has(feature[u], m) /\ ~Has(event[u], <<"feature", m>>)
          /\ m \notin taken[u] /\ m \notin refused[u] /\ m \notin lost[s]
      BY Zenon, <1>1, <3>3 DEF Is, Spots, Thread
    <3>5. n = m => \A w \in Thread : ~Has(sender'[s][w].todo, n)
      <4> SUFFICES ASSUME n = m, NEW w \in Thread PROVE ~Has(sender'[s][w].todo, n)
        BY Zenon
      <4>1. CASE w = t
        BY Zenon, <3>1, <4>1
      <4>2. CASE w # t
        <5>1. ~Is(s, m, w)
          BY Zenon, <3>3, <4>2, SpotOf
        <5> QED
          BY Zenon, <3>1, <5>1, SpotOf
      <4> QED
        BY Zenon, <4>1, <4>2
    <3>6. n # m => \A w \in Thread : Has(sender'[s][w].todo, n) <=> Has(sender[s][w].todo, n)
      BY Zenon, <3>1
    <3>7. /\ "user" \in Thread /\ "worker" \in Thread /\ event'[u] = event[u]
          /\ taken'[u] = taken[u] /\ refused'[u] = refused[u] /\ made'[s] = made[s]
          /\ Once(sender'[s]["user"].todo, n) /\ Once(sender'[s]["worker"].todo, n)
      BY Zenon, <1>3, <1>5, <3>1 DEF Thread
    <3> HIDE DEF u, m, th
    <3>8. /\ n = m => ~Has(sender'[s]["user"].todo, n) /\ ~Has(sender'[s]["worker"].todo, n)
          /\ n # m => /\ Has(sender'[s]["user"].todo, n) <=> Has(sender[s]["user"].todo, n)
                      /\ Has(sender'[s]["worker"].todo, n) <=> Has(sender[s]["worker"].todo, n)
      BY Zenon, <3>5, <3>6, <3>7
    <3>9. CASE feature' = [feature EXCEPT ![u] = Append(@, m)] /\ UNCHANGED <<pending, lost>>
      <4>1. feature'[u] = Append(feature[u], m) /\ feature[u] \in Seq(Packet)
        BY SMTT(20), <1>1, <2>1, <3>9 DEF Types
      <4>2. /\ Has(feature'[u], n) <=> Has(feature[u], n) \/ m = n
            /\ Once(feature[u], n) /\ (m = n => ~Has(feature[u], n)) => Once(feature'[u], n)
        BY SMTT(20), <3>1, <4>1, HasAppend
      <4>3. OnceAt(s, n)'
        BY Zenon, <1>1, <2>1, <3>4, <3>7, <3>9, <4>2 DEF OnceAt
      <4>4. CASE n = m
        <5>1. Goes2(s, n, t, "wire")
          BY ZenonT(40), <1>1, <3>2, <3>4, <3>7, <3>8, <3>9, <4>2, <4>4 DEF Goes2, Is, Spots
        <5> QED
          BY ZenonT(40), <2>1, <3>2, <3>7, <4>3, <5>1, GoesAccounted DEF Spots
      <4>5. CASE n # m
        <5>1. Stays(s, n)
          BY ZenonT(40), <1>1, <3>7, <3>8, <3>9, <4>2, <4>5 DEF Stays, Is
        <5> QED
          BY ZenonT(40), <2>1, <3>7, <4>3, <5>1, StaysAccounted
      <4> QED
        BY Zenon, <4>4, <4>5
    <3>10. CASE lost' = [lost EXCEPT ![s] = @ \cup {m}] /\ UNCHANGED <<pending, feature>>
      <4>1. lost'[s] = lost[s] \cup {m}
        BY Zenon, <2>1, <3>10 DEF Types
      <4>3. OnceAt(s, n)'
        BY ZenonT(40), <1>1, <2>1, <3>7, <3>10 DEF OnceAt
      <4>4. CASE n = m
        <5>1. Goes2(s, n, t, "lost")
          BY ZenonT(40), <1>1, <3>2, <3>4, <3>7, <3>8, <3>10, <4>1, <4>4 DEF Goes2, Is, Spots
        <5> QED
          BY ZenonT(40), <2>1, <3>2, <3>7, <4>3, <5>1, GoesAccounted DEF Spots
      <4>5. CASE n # m
        <5>1. Stays(s, n)
          BY SMTT(20), <1>1, <3>7, <3>8, <3>10, <4>1, <4>5 DEF Stays, Is
        <5> QED
          BY ZenonT(40), <2>1, <3>7, <4>3, <5>1, StaysAccounted
      <4> QED
        BY Zenon, <4>4, <4>5
    <3>11. CASE /\ pending' = [pending EXCEPT ![s] = Append(Kept(s), m)] /\ UNCHANGED feature
                /\ lost' = IF Full(s) THEN [lost EXCEPT ![s] = @ \cup {Head(pending[s])}] ELSE lost
      <4> DEFINE k == Head(pending[s])
      <4>1. /\ pending'[s] = Append(Kept(s), m)
            /\ lost'[s] = IF Full(s) THEN lost[s] \cup {k} ELSE lost[s]
        BY Zenon, <2>1, <3>11 DEF Types
      <4>2. /\ pending[s] \in Seq(Packet) /\ Kept(s) \in Seq(Packet)
            /\ Full(s) => pending[s] # <<>> /\ k \in Packet /\ Kept(s) = Tail(pending[s])
            /\ ~Full(s) => Kept(s) = pending[s]
        BY Zenon, <2>1, KeptIs
      <4>3. /\ Has(Kept(s), n) <=> Has(pending[s], n) /\ ~(Full(s) /\ k = n)
            /\ Once(Kept(s), n)
            /\ Full(s) => Has(pending[s], k)
        <5>1. Once(pending[s], n)
          BY Zenon, <2>1 DEF OnceAt
        <5>2. CASE Full(s)
          <6>1. /\ Has(Tail(pending[s]), n) <=> Has(pending[s], n) /\ k # n
                /\ Once(Tail(pending[s]), n) /\ Has(pending[s], k)
            BY Zenon, <4>2, <5>1, <5>2, HasRest
          <6> QED
            BY Zenon, <4>2, <5>2, <6>1
        <5>3. CASE ~Full(s)
          BY Zenon, <4>2, <5>1, <5>3
        <5> QED
          BY Zenon, <5>2, <5>3
      <4>4. Full(s) => k # m
        BY ZenonT(40), <3>4, <4>3
      <4>5. /\ Has(pending'[s], n) <=> Has(Kept(s), n) \/ m = n
            /\ Once(Kept(s), n) /\ (m = n => ~Has(Kept(s), n)) => Once(pending'[s], n)
        BY SMTT(20), <3>1, <4>1, <4>2, HasAppend
      <4> HIDE DEF k
      <4>6. OnceAt(s, n)'
        BY <1>1, <2>1, <3>4, <3>7, <3>11, <4>3, <4>5 DEF OnceAt
      <4>7. CASE n = m
        <5>1. lost'[s] = lost[s] \/ (lost'[s] = lost[s] \cup {k} /\ k # m)
          BY SMTT(20), <4>1, <4>4
        <5>2. Goes2(s, n, t, "queue")
          BY ZenonT(40), <1>1, <3>2, <3>4, <3>7, <3>8, <3>11, <4>5, <4>7, <5>1 DEF Goes2, Is, Spots
        <5> QED
          BY ZenonT(40), <2>1, <3>2, <3>7, <4>6, <5>2, GoesAccounted DEF Spots
      <4>8. CASE n # m /\ ~(Full(s) /\ n = k)
        <5>1. (Has(pending'[s], n) <=> Has(pending[s], n)) /\ (n \in lost'[s] <=> n \in lost[s])
          BY ZenonT(40), <4>1, <4>3, <4>5, <4>8
        <5>2. Stays(s, n)
          BY ZenonT(40), <1>1, <3>7, <3>8, <3>11, <4>8, <5>1 DEF Stays, Is
        <5> QED
          BY Zenon, <2>1, <3>7, <4>6, <5>2, StaysAccounted
      <4>9. CASE n # m /\ Full(s) /\ n = k
        <5>1. ~Has(pending'[s], n) /\ n \in lost'[s] /\ Has(pending[s], n)
          BY Zenon, <4>1, <4>3, <4>5, <4>9
        <5>2. Is(s, n, "queue")
          BY Zenon, <5>1 DEF Is
        <5>3. ASSUME NEW q \in Spots, q # "queue" PROVE ~Is(s, n, q)
          BY Zenon, <2>1, <5>2, <5>3, OnlyThere DEF Spots
        <5>4. /\ ~Has(sender[s]["user"].todo, n) /\ ~Has(sender[s]["worker"].todo, n)
              /\ ~Has(feature[u], n) /\ ~Has(event[u], <<"feature", n>>)
              /\ n \notin taken[u] /\ n \notin refused[u]
          BY SMTT(20), <1>1, <5>3 DEF Is, Spots
        <5>5. Goes2(s, n, "queue", "lost")
          BY ZenonT(40), <1>1, <3>7, <3>8, <3>11, <4>9, <5>1, <5>2, <5>4 DEF Goes2, Is, Spots
        <5> QED
          BY Zenon, <2>1, <3>7, <4>6, <5>5, GoesAccounted DEF Spots
      <4> QED
        BY Zenon, <4>7, <4>8, <4>9
    <3>12. th.todo # Tail(th.todo)
      <4>1. th.todo \in Seq(Packet) /\ th.todo # <<>>
        BY <1>3, <2>1 DEF th, Types, Sender
      <4> QED
        BY ZenonT(40), <4>1, TailShorter
    <3> QED
      BY ZenonT(40), <1>2, <2>3, <3>9, <3>10, <3>11, <3>12, EffectIs DEF u, m
  <2> QED
    BY Zenon, <1>2, <2>2, <2>3 DEF Effect
<1> QED
  BY Zenon, <1>1, <1>4, <1>6 DEF Accounted

\* A feature that was nowhere is with the user's thread, which had none.
LEMMA NewFeatureAccounted ==
  ASSUME HandInv, Accounted, NEW s \in Side, NewFeature(s)
  PROVE  Accounted'
<1> DEFINE u == Peer(s)
           m == made[s] + 1
           x == [at |-> "snapshot", ready |-> FALSE, todo |-> <<m>>]
<1>1. u \in Side /\ u # s /\ Side = {s, u} /\ Peer(u) = s /\ Peer(s) = u
  BY Zenon, Sides
<1>2. /\ x \in Sender /\ Moves(s, "user", x) /\ "user" \in Thread
      /\ sender[s]["user"].at = "idle" /\ m \in Packet
      /\ made' = [made EXCEPT ![s] = @ + 1] /\ UNCHANGED <<feature, pending, lost>>
  BY ZenonT(40), NewFeatureMoves
<1>3. made[s] \in Nat /\ made'[s] = m /\ made'[u] = made[u] /\ x.todo = <<m>>
      /\ sender[s]["user"].todo = <<>> /\ m > made[s]
  BY SMTT(20), <1>1, <1>2, HandoverAssumption DEF HandInv, Types, Busy
<1>4. ASSUME NEW n \in Packet PROVE AccountedFor(u, n)'
  <2>1. \A v \in Side : v # s => made'[v] = made[v] /\ pending'[v] = pending[v] /\ lost'[v] = lost[v]
    BY Zenon, <1>1, <1>2, <1>3
  <2> HIDE DEF x
  <2> QED
    BY Zenon, <1>2, <2>1, PeerStays
<1> HIDE DEF x
<1>5. /\ sender'[s]["user"].todo = <<m>> /\ sender'[s]["worker"] = sender[s]["worker"]
      /\ UNCHANGED <<event, taken, refused>>
  <2>1. "worker" \in Thread /\ "worker" # "user"
    BY Zenon DEF Thread
  <2>2. sender'[s]["user"] = x /\ \A v \in Thread : <<s, v>> # <<s, "user">> => sender'[s][v] = sender[s][v]
    BY <1>2, MovesKeeps
  <2>3. <<s, "worker">> # <<s, "user">>
    BY Zenon, <2>1
  <2>4. UNCHANGED <<event, taken, refused>>
    BY Zenon, <1>2 DEF Moves
  <2> QED
    BY Zenon, <1>3, <2>1, <2>2, <2>3, <2>4
<1> HIDE DEF u, m
<1>6. ASSUME NEW n \in Packet PROVE AccountedFor(s, n)'
  <2>1. AccountedFor(s, n) /\ OnceAt(s, n)
    BY SMTT(20) DEF Accounted, AccountedFor
  <2>2. (Has(<<m>>, n) <=> m = n) /\ Once(<<m>>, n) /\ ~Has(<<>>, n)
    BY Zenon, HasOne, HasEmpty
  <2>3. OnceAt(s, n)'
    BY ZenonT(40), <1>1, <1>2, <1>5, <2>1, <2>2 DEF OnceAt
  <2>4. n \in Nat /\ m \in Nat /\ m = made[s] + 1
    BY SMTT(20), <1>2, <1>3, HandoverAssumption DEF Packet, m
  <2>5. CASE n = m
    <3>1. \A p \in Spots : ~Is(s, n, p)
      BY Zenon, <1>3, <2>1, <2>5 DEF AccountedFor
    <3>2. OnlyAt(s, n, "user")'
      BY ZenonT(40), <1>1, <1>2, <1>5, <2>2, <2>5, <3>1 DEF OnlyAt, Is, Spots
    <3> QED
      <4>1. ~(n > made'[s]) /\ "user" \in Spots
        BY <1>3, <2>4, <2>5 DEF Spots
      <4> QED
        BY Zenon, <2>3, <3>2, <4>1 DEF AccountedFor
  <2>6. CASE n # m
    <3>1. Stays(s, n)
      BY ZenonT(40), <1>1, <1>2, <1>3, <1>5, <2>2, <2>6 DEF Stays, Is
    <3>2. /\ (n <= made'[s]) <=> (n <= made[s])
          /\ (n > made'[s]) <=> (n > made[s])
      BY <1>3, <2>4, <2>6
    <3> QED
      BY Zenon, <2>1, <2>3, <3>1, <3>2 DEF AccountedFor, OnlyAt, Stays
  <2> QED
    BY Zenon, <2>5, <2>6
<1> QED
  BY Zenon, <1>1, <1>4, <1>6 DEF Accounted

\* What is queued goes to the worker, or is too old.
LEMMA TakePendingMoves ==
  ASSUME HandInv, Accounted, NEW s \in Side, TakePending(s)
  PROVE  Accounted'
<1> DEFINE u == Peer(s)
<1>1. u \in Side /\ u # s /\ Side = {s, u} /\ Peer(u) = s /\ Peer(s) = u
  BY Zenon, Sides
<1>2. PICK k, x : Taking(s, k, x)
  BY Zenon, TakePendingTakes
<1> DEFINE old == ToSet(SubSeq(pending[s], 1, k))
           new == SubSeq(pending[s], k + 1, Len(pending[s]))
<1>3. /\ k \in 0 .. Len(pending[s]) /\ x \in Sender /\ Moves(s, "worker", x) /\ "worker" \in Thread
      /\ sender[s]["worker"].todo = <<>> /\ x.todo = new
      /\ lost'[s] = lost[s] \cup old /\ lost'[u] = lost[u]
      /\ pending'[s] = <<>> /\ pending'[u] = pending[u]
      /\ UNCHANGED <<feature, made, event, taken, refused>>
  BY ZenonT(40), <1>1, <1>2 DEF Taking, HandInv, Types, Moves, Thread
<1>4. ASSUME NEW n \in Packet PROVE AccountedFor(u, n)'
  <2>1. \A v \in Side : v # s => made'[v] = made[v] /\ pending'[v] = pending[v] /\ lost'[v] = lost[v]
    BY ZenonT(40), <1>1, <1>3
  <2> QED
    BY Zenon, <1>3, <2>1, PeerStays
<1>5. sender'[s]["worker"].todo = new /\ sender'[s]["user"] = sender[s]["user"]
  <2>1. "user" \in Thread /\ "worker" # "user"
    BY SMTT(20) DEF Thread
  <2> QED
    BY <1>3, <2>1, MovesKeeps
<1> HIDE DEF u, old, new
<1>6. ASSUME NEW n \in Packet PROVE AccountedFor(s, n)'
  <2>1. AccountedFor(s, n) /\ OnceAt(s, n) /\ Types /\ made'[s] = made[s]
    BY Zenon, <1>3 DEF Accounted, AccountedFor, HandInv
  <2>2. /\ Has(pending[s], n) <=> n \in old \/ Has(new, n)
        /\ ~(n \in old /\ Has(new, n)) /\ Once(new, n)
    <3>1. pending[s] \in Seq(Packet) /\ Once(pending[s], n)
      BY Zenon, <2>1 DEF Types, OnceAt
    <3> QED
      BY Zenon, <1>3, <3>1, HasParts DEF old, new
  <2>3. ~Has(<<>>, n) /\ Once(<<>>, n)
    BY Zenon, HasEmpty
  <2>4. OnceAt(s, n)'
    BY ZenonT(40), <1>1, <1>3, <1>5, <2>1, <2>2, <2>3 DEF OnceAt
  <2>5. CASE ~Has(pending[s], n)
    <3>1. Stays(s, n)
      BY SMTT(20), <1>1, <1>3, <1>5, <2>2, <2>3, <2>5 DEF Stays, Is
    <3> QED
      BY ZenonT(40), <2>1, <2>4, <3>1, StaysAccounted
  <2>6. CASE Has(pending[s], n)
    <3>1. Is(s, n, "queue")
      BY Zenon, <2>6 DEF Is
    <3>2. ASSUME NEW q \in Spots, q # "queue" PROVE ~Is(s, n, q)
      BY ZenonT(40), <2>1, <3>1, <3>2, OnlyThere DEF Spots
    <3>3. /\ ~Has(sender[s]["user"].todo, n) /\ ~Has(sender[s]["worker"].todo, n)
          /\ ~Has(feature[u], n) /\ ~Has(event[u], <<"feature", n>>)
          /\ n \notin taken[u] /\ n \notin refused[u] /\ n \notin lost[s]
      BY Zenon, <1>1, <3>2 DEF Is, Spots
    <3>4. CASE n \in old
      <4>1. Goes2(s, n, "queue", "lost")
        BY ZenonT(40), <1>1, <1>3, <1>5, <2>2, <2>3, <3>1, <3>3, <3>4 DEF Goes2, Is, Spots
      <4> QED
        BY ZenonT(40), <2>1, <2>4, <4>1, GoesAccounted DEF Spots
    <3>5. CASE n \notin old
      <4>1. Goes2(s, n, "queue", "worker")
        BY ZenonT(40), <1>1, <1>3, <1>5, <2>2, <2>3, <2>6, <3>1, <3>3, <3>5 DEF Goes2, Is, Spots
      <4> QED
        BY ZenonT(40), <2>1, <2>4, <4>1, GoesAccounted DEF Spots
    <3> QED
      BY Zenon, <3>4, <3>5
  <2> QED
    BY Zenon, <2>5, <2>6
<1> QED
  BY Zenon, <1>1, <1>4, <1>6 DEF Accounted

-----------------------------------------------------------------------------
LEMMA AccountedStart == Init => Accounted
<1> SUFFICES ASSUME Init, NEW s \in Side, NEW n \in Packet PROVE AccountedFor(s, n)
  BY Zenon DEF Accounted
<1>1. Peer(s) \in Side /\ "user" \in Thread /\ "worker" \in Thread
  BY Zenon, Sides DEF Thread
<1>2. /\ pending[s] = <<>> /\ sender[s]["user"].todo = <<>> /\ sender[s]["worker"].todo = <<>>
      /\ feature[Peer(s)] = <<>> /\ taken[Peer(s)] = {} /\ refused[Peer(s)] = {} /\ lost[s] = {}
      /\ made[s] = 0
      /\ event[Peer(s)] = <<>> \/ event[Peer(s)] = <<<<"described", "offer">>>>
  BY Zenon, <1>1 DEF Init, Idle
<1>3. ~Has(<<>>, n) /\ Once(<<>>, n)
  BY Zenon, HasEmpty
<1>4. ~Has(event[Peer(s)], <<"feature", n>>) /\ Once(event[Peer(s)], <<"feature", n>>)
  <2> DEFINE x == <<"feature", n>>
             e == <<"described", "offer">>
  <2>1. e # x
    BY Zenon
  <2> HIDE DEF x, e
  <2>2. ~Has(<<e>>, x) /\ Once(<<e>>, x) /\ ~Has(<<>>, x) /\ Once(<<>>, x)
    BY Zenon, <2>1, HasEmpty, HasOne
  <2> QED
    BY Zenon, <1>2, <2>2 DEF x, e
<1>5. n \in Nat \ {0}
  BY HandoverAssumption DEF Packet
<1>6. OnceAt(s, n)
  BY Zenon, <1>2, <1>3, <1>4 DEF OnceAt
<1>7. ASSUME NEW p \in Spots PROVE ~Is(s, n, p)
  BY ZenonT(40), <1>2, <1>3, <1>4 DEF Is, Spots
<1>8. ~(n <= made[s])
  BY <1>2, <1>5
<1> QED
  BY Zenon, <1>6, <1>7, <1>8 DEF AccountedFor

LEMMA AccountedStep ==
  ASSUME HandInv, Accounted, [Next]_vars
  PROVE  Accounted'
<1>1. ASSUME NEW s \in Side, Step(s) PROVE Accounted'
  BY ZenonT(40), <1>1, AdvanceMoves, FeatureMoves, DropMoves, OtherMoves, ArrivesMoves, TakePendingMoves,
     GoesMoves, NewFeatureAccounted DEF Step
<1>2. CASE TakeOffer \/ TakeAnswer \/ UNCHANGED vars
  BY Zenon, <1>2, OtherMoves
<1> QED
  BY <1>1, <1>2, Steps

LEMMA AtIs ==
  ASSUME NEW S, NEW q \in Seq(S), NEW x
  PROVE  /\ ~Has(q, x) => Indices(q, x) = {}
         /\ Has(q, x) /\ Once(q, x) => \E i : Indices(q, x) = {i}
<1>1. DOMAIN q = 1 .. Len(q)
  OBVIOUS
<1>2. ~Has(q, x) => Indices(q, x) = {}
  BY Zenon, <1>1 DEF Has, Indices
<1>3. ASSUME Has(q, x), Once(q, x) PROVE \E i : Indices(q, x) = {i}
  <2>1. PICK i \in 1 .. Len(q) : q[i] = x
    BY Zenon, <1>3 DEF Has
  <2>2. Indices(q, x) = {i}
    BY Zenon, <1>1, <1>3, <2>1 DEF Indices, Once
  <2> QED
    BY Zenon, <2>2
<1> QED
  BY Zenon, <1>2, <1>3

\* A set with one element, or with none.
Only(S, b) == IF b THEN \E i : S = {i} ELSE S = {}

LEMMA OnlyTagged ==
  ASSUME NEW k, NEW S, NEW b \in BOOLEAN, Only(S, b)
  PROVE  Only({k} \X S, b)
<1>1. CASE b
  <2>1. PICK i : S = {i}
    BY Zenon, <1>1 DEF Only
  <2>2. {k} \X S = {<<k, i>>}
    BY <2>1
  <2> QED
    BY Zenon, <1>1, <2>2 DEF Only
<1>2. CASE ~b
  <2>1. S = {}
    BY Zenon, <1>2 DEF Only
  <2>2. {k} \X S = {}
    BY Zenon, <2>1
  <2> QED
    BY Zenon, <1>2, <2>2 DEF Only
<1> QED
  BY Zenon, <1>1, <1>2

LEMMA AtOnly ==
  ASSUME NEW S, NEW q \in Seq(S), NEW x, Once(q, x), NEW b \in BOOLEAN, Has(q, x) <=> b
  PROVE  Only(Indices(q, x), b)
BY Zenon, AtIs DEF Only

LEMMA AccountedPlaces ==
  ASSUME Types, Accounted, NEW s \in Side, NEW n \in 1 .. made[s]
  PROVE  \E x \in Places(s, n) : Places(s, n) = {x}
<1> DEFINE u == Peer(s)
<1>1. u \in Side /\ "user" \in Thread /\ "worker" \in Thread
  BY Zenon, Sides DEF Thread
<1>2. n \in Packet /\ n <= made[s]
  BY HandoverAssumption DEF Types, Packet
<1>3. OnceAt(s, n)
  BY Zenon, <1>2 DEF Accounted, AccountedFor
<1>4. PICK p \in Spots : OnlyAt(s, n, p)
  BY Zenon, <1>2 DEF Accounted, AccountedFor
<1> DEFINE a == Indices(pending[s], n)
           b == Indices(sender[s]["user"].todo, n)
           c == Indices(sender[s]["worker"].todo, n)
           d == Indices(feature[u], n)
           e == Indices(event[u], <<"feature", n>>)
           f == {n} \cap taken[u]
           g == {n} \cap refused[u]
           h == {n} \cap lost[s]
<1>5. /\ pending[s] \in Seq(Packet) /\ sender[s]["user"].todo \in Seq(Packet)
      /\ sender[s]["worker"].todo \in Seq(Packet) /\ feature[u] \in Seq(Packet)
      /\ event[u] \in Seq(Event)
  BY ZenonT(40), <1>1 DEF Types, Sender
<1>6. /\ Has(pending[s], n) <=> p = "queue"
      /\ Has(sender[s]["user"].todo, n) <=> p = "user"
      /\ Has(sender[s]["worker"].todo, n) <=> p = "worker"
      /\ Has(feature[u], n) <=> p = "wire"
      /\ Has(event[u], <<"feature", n>>) <=> p = "event"
      /\ n \in taken[u] <=> p = "taken"
      /\ n \in refused[u] <=> p = "refused"
      /\ n \in lost[s] <=> p = "lost"
  BY Zenon, <1>4, IsAll DEF OnlyAt, Spots
<1>7. Only(a, p = "queue")
  BY ZenonT(40), <1>3, <1>5, <1>6, AtOnly DEF OnceAt
<1>8. Only(b, p = "user")
  BY ZenonT(40), <1>3, <1>5, <1>6, AtOnly DEF OnceAt
<1>9. Only(c, p = "worker")
  BY ZenonT(40), <1>3, <1>5, <1>6, AtOnly DEF OnceAt
<1>10. Only(d, p = "wire")
  BY Zenon, <1>3, <1>5, <1>6, AtOnly DEF OnceAt
<1>11. Only(e, p = "event")
  BY ZenonT(40), <1>3, <1>5, <1>6, AtOnly DEF OnceAt
<1>12. Only(f, p = "taken") /\ Only(g, p = "refused") /\ Only(h, p = "lost")
  BY Zenon, <1>6 DEF Only
<1>13. Places(s, n) = ({"queue"} \X a) \cup ({"user"} \X b) \cup ({"worker"} \X c) \cup ({"wire"} \X d)
                \cup ({"event"} \X e) \cup ({"taken"} \X f) \cup ({"refused"} \X g)
                \cup ({"lost"} \X h)
  BY Zenon DEF Places
<1> HIDE DEF a, b, c, d, e, f, g, h, u
<1>14. /\ Only({"queue"} \X a, p = "queue") /\ Only({"user"} \X b, p = "user")
       /\ Only({"worker"} \X c, p = "worker") /\ Only({"wire"} \X d, p = "wire")
       /\ Only({"event"} \X e, p = "event") /\ Only({"taken"} \X f, p = "taken")
       /\ Only({"refused"} \X g, p = "refused") /\ Only({"lost"} \X h, p = "lost")
  BY ZenonT(40), <1>7, <1>8, <1>9, <1>10, <1>11, <1>12, OnlyTagged
<1> DEFINE A == {"queue"} \X a
           B == {"user"} \X b
           C == {"worker"} \X c
           D == {"wire"} \X d
           E == {"event"} \X e
           F == {"taken"} \X f
           G == {"refused"} \X g
           H == {"lost"} \X h
<1>15. Places(s, n) = A \cup B \cup C \cup D \cup E \cup F \cup G \cup H
  BY SMTT(20), <1>13
<1>16. /\ Only(A, p = "queue") /\ Only(B, p = "user") /\ Only(C, p = "worker") /\ Only(D, p = "wire")
       /\ Only(E, p = "event") /\ Only(F, p = "taken") /\ Only(G, p = "refused") /\ Only(H, p = "lost")
  BY Zenon, <1>14
<1> HIDE DEF A, B, C, D, E, F, G, H
<1>17. \E x : Places(s, n) = {x}
  <2>1. \E x : A \cup B \cup C \cup D \cup E \cup F \cup G \cup H = {x}
    BY ONLY Zenon, p \in Spots, <1>16 DEF Only, Spots
  <2> QED
    BY Zenon, <1>15, <2>1
<1> QED
  BY Zenon, <1>17

(* Everything sent is in one place, once: with a thread, queued, on its    *)
(* way, or settled.  No flush, retry on a fresh handle, eviction or end of *)
(* an attempt forgets a feature or sends it twice.                         *)
THEOREM FeaturesCorrect == Spec => []FeaturesAccounted
<1>1. HandInv /\ Accounted => FeaturesAccounted
  BY Zenon, AccountedPlaces DEF FeaturesAccounted, HandInv
<1> QED
  BY <1>1, HandStart, HandStep, AccountedStart, AccountedStep, PTL DEF Spec

=============================================================================
