--------------------------- MODULE HandoverProofs ---------------------------
(***************************************************************************)
(* The handover for any number of features, any limit of the queue, and    *)
(* whichever side sends, breaks off or has its attempt taken away.         *)
(***************************************************************************)
EXTENDS Handover, TLAPS

Flags ==
  [offer : BOOLEAN, answer : BOOLEAN, lnonce : BOOLEAN, rnonce : BOOLEAN,
   lauth : BOOLEAN, rauth : BOOLEAN, lcaps : BOOLEAN, rcaps : BOOLEAN,
   lready : BOOLEAN, rready : BOOLEAN, failed : BOOLEAN]

-----------------------------------------------------------------------------
(* What is in a sequence, and whether it is there once.                    *)

Has(q, x) == \E i \in 1 .. Len(q) : q[i] = x
Once(q, x) == \A i, j \in 1 .. Len(q) : q[i] = x /\ q[j] = x => i = j

LEMMA HasEmpty ==
  ASSUME NEW x
  PROVE  ~Has(<<>>, x) /\ Once(<<>>, x)
BY DEF Has, Once

LEMMA HasOne ==
  ASSUME NEW e, NEW x
  PROVE  (Has(<<e>>, x) <=> e = x) /\ Once(<<e>>, x)
BY DEF Has, Once

LEMMA TailIs ==
  ASSUME NEW S, NEW q \in Seq(S), q # <<>>
  PROVE  /\ Tail(q) \in Seq(S) /\ Head(q) \in S /\ Len(q) \in Nat
         /\ Tail(q) = <<>> <=> Len(q) = 1
<1> DEFINE t == Tail(q)
<1>1. t \in Seq(S) /\ Head(q) \in S /\ Len(q) \in Nat /\ Len(t) = Len(q) - 1
  OBVIOUS
<1> HIDE DEF t
<1>2. t = <<>> <=> Len(t) = 0
  BY <1>1
<1> QED
  BY <1>1, <1>2 DEF t

LEMMA HasAppend ==
  ASSUME NEW S, NEW q \in Seq(S), NEW e \in S, NEW x
  PROVE  /\ Has(Append(q, e), x) <=> Has(q, x) \/ e = x
         /\ Once(q, x) /\ (e = x => ~Has(q, x)) => Once(Append(q, e), x)
<1>1. /\ Len(Append(q, e)) = Len(q) + 1 /\ Len(q) \in Nat
      /\ \A i \in 1 .. Len(q) : Append(q, e)[i] = q[i]
      /\ Append(q, e)[Len(q) + 1] = e
  OBVIOUS
<1> DEFINE a == Append(q, e)
<1> HIDE DEF a
<1>2. /\ Len(a) = Len(q) + 1 /\ Len(q) \in Nat
      /\ \A i \in 1 .. Len(q) : a[i] = q[i]
      /\ a[Len(q) + 1] = e
  BY Zenon, <1>1 DEF a
<1>3. Has(a, x) <=> Has(q, x) \/ e = x
  BY <1>2 DEF Has
<1>4. Once(q, x) /\ (e = x => ~Has(q, x)) => Once(a, x)
  BY <1>2 DEF Has, Once
<1> QED
  BY Zenon, <1>3, <1>4 DEF a

LEMMA HasTail ==
  ASSUME NEW S, NEW q \in Seq(S), q # <<>>, NEW x
  PROVE  /\ Has(q, x) <=> Head(q) = x \/ Has(Tail(q), x)
         /\ Once(q, x) => Once(Tail(q), x)
         /\ Once(q, x) /\ Head(q) = x => ~Has(Tail(q), x)
<1> DEFINE t == Tail(q)
<1>1. /\ Len(q) \in Nat \ {0} /\ Len(t) = Len(q) - 1 /\ Head(q) = q[1]
      /\ \A i \in 1 .. Len(t) : t[i] = q[i + 1]
  OBVIOUS
<1> HIDE DEF t
<1>2. \A i \in 1 .. Len(q) : i # 1 => i - 1 \in 1 .. Len(t) /\ t[i - 1] = q[i]
  BY <1>1
<1>3. Has(q, x) <=> Head(q) = x \/ Has(t, x)
  <2>1. ASSUME Has(q, x) PROVE Head(q) = x \/ Has(t, x)
    BY Zenon, <1>1, <1>2, <2>1 DEF Has
  <2>2. ASSUME Has(t, x) PROVE Has(q, x)
    <3>1. PICK i \in 1 .. Len(t) : t[i] = x
      BY Zenon, <2>2 DEF Has
    <3>2. i + 1 \in 1 .. Len(q) /\ q[i + 1] = x
      BY <1>1, <3>1
    <3> QED
      BY Zenon, <3>2 DEF Has
  <2>3. ASSUME Head(q) = x PROVE Has(q, x)
    BY <1>1, <2>3 DEF Has
  <2> QED
    BY Zenon, <2>1, <2>2, <2>3
<1>4. Once(q, x) => Once(t, x)
  <2> SUFFICES ASSUME Once(q, x), NEW i \in 1 .. Len(t), NEW j \in 1 .. Len(t), t[i] = x, t[j] = x
               PROVE  i = j
    BY Zenon DEF Once
  <2>1. i + 1 \in 1 .. Len(q) /\ j + 1 \in 1 .. Len(q) /\ q[i + 1] = x /\ q[j + 1] = x
    BY <1>1
  <2>2. i + 1 = j + 1
    BY Zenon, <2>1 DEF Once
  <2> QED
    BY <1>1, <2>2
<1>5. Once(q, x) /\ Head(q) = x => ~Has(t, x)
  <2> SUFFICES ASSUME Once(q, x), Head(q) = x, NEW i \in 1 .. Len(t), t[i] = x
               PROVE  FALSE
    BY Zenon DEF Has
  <2>1. i + 1 \in 1 .. Len(q) /\ 1 \in 1 .. Len(q) /\ q[i + 1] = x /\ q[1] = x /\ i + 1 # 1
    BY <1>1
  <2> QED
    BY Zenon, <2>1 DEF Once
<1> QED
  BY Zenon, <1>3, <1>4, <1>5 DEF t

LEMMA HasConcat ==
  ASSUME NEW S, NEW q \in Seq(S), NEW r \in Seq(S), NEW x
  PROVE  /\ Has(q \o r, x) <=> Has(q, x) \/ Has(r, x)
         /\ Once(q, x) /\ Once(r, x) /\ ~(Has(q, x) /\ Has(r, x)) => Once(q \o r, x)
<1> DEFINE c == q \o r
<1>1. /\ Len(q) \in Nat /\ Len(r) \in Nat /\ Len(c) = Len(q) + Len(r)
      /\ \A i \in 1 .. Len(q) : c[i] = q[i]
      /\ \A i \in 1 .. Len(r) : c[i + Len(q)] = r[i]
  OBVIOUS
<1> HIDE DEF c
<1>2. \A i \in 1 .. Len(c) :
        i \in 1 .. Len(q) \/ (i - Len(q) \in 1 .. Len(r) /\ c[i] = r[i - Len(q)])
  BY <1>1
<1>3. Has(c, x) <=> Has(q, x) \/ Has(r, x)
  <2>1. ASSUME Has(c, x) PROVE Has(q, x) \/ Has(r, x)
    BY Zenon, <1>1, <1>2, <2>1 DEF Has
  <2>2. ASSUME Has(q, x) PROVE Has(c, x)
    BY <1>1, <2>2 DEF Has
  <2>3. ASSUME Has(r, x) PROVE Has(c, x)
    <3>1. PICK i \in 1 .. Len(r) : r[i] = x
      BY Zenon, <2>3 DEF Has
    <3>2. i + Len(q) \in 1 .. Len(c) /\ c[i + Len(q)] = x
      BY <1>1, <3>1
    <3> QED
      BY Zenon, <3>2 DEF Has
  <2> QED
    BY Zenon, <2>1, <2>2, <2>3
<1>4. ASSUME Once(q, x), Once(r, x), ~(Has(q, x) /\ Has(r, x)) PROVE Once(c, x)
  <2> SUFFICES ASSUME NEW i \in 1 .. Len(c), NEW j \in 1 .. Len(c), c[i] = x, c[j] = x
               PROVE  i = j
    BY Zenon DEF Once
  <2>1. CASE i \in 1 .. Len(q) /\ j \in 1 .. Len(q)
    BY Zenon, <1>1, <1>4, <2>1 DEF Once
  <2>2. CASE i \notin 1 .. Len(q) /\ j \notin 1 .. Len(q)
    <3>1. i - Len(q) = j - Len(q)
      BY Zenon, <1>2, <1>4, <2>2 DEF Once
    <3> QED
      BY <1>1, <3>1
  <2>3. CASE i \in 1 .. Len(q) /\ j \notin 1 .. Len(q)
    BY Zenon, <1>1, <1>2, <1>4, <2>3 DEF Has
  <2>4. CASE i \notin 1 .. Len(q) /\ j \in 1 .. Len(q)
    BY Zenon, <1>1, <1>2, <1>4, <2>4 DEF Has
  <2> QED
    BY Zenon, <2>1, <2>2, <2>3, <2>4
<1> QED
  BY Zenon, <1>3, <1>4 DEF c

-----------------------------------------------------------------------------
(* The two sides and their messages.                                       *)

LEMMA Sides ==
  ASSUME NEW s \in Side
  PROVE  /\ Peer(s) \in Side /\ Peer(s) # s /\ Side = {s, Peer(s)} /\ Peer(Peer(s)) = s
<1>1. Peer(Initiator) = Responder
  <2>1. \E p \in Side : p # Initiator
    BY Zenon DEF Side, Initiator, Responder
  <2> QED
    BY Zenon, <2>1 DEF Peer, Side, Initiator, Responder
<1>2. Peer(Responder) = Initiator
  <2>1. \E p \in Side : p # Responder
    BY Zenon DEF Side, Initiator, Responder
  <2> QED
    BY Zenon, <2>1 DEF Peer, Side, Initiator, Responder
<1> QED
  BY Zenon, <1>1, <1>2 DEF Side, Initiator, Responder

LEMMA EventIs ==
  ASSUME NEW e \in Event
  PROVE  e = <<e[1], e[2]>>
BY DEF Event

Sender == [at : {"idle", "take", "snapshot", "send", "fresh"}, ready : BOOLEAN, todo : Seq(Packet)]

\* The types the arguments below rest on.
Types ==
  /\ hand \in [Side -> Flags]
  /\ phase \in [Side -> {"none", "up", "dropped"}]
  /\ open \in [Side -> SUBSET Required]
  /\ signal \in [Side -> Seq({"offer", "answer"})]
  /\ event \in [Side -> Seq(Event)]
  /\ control \in [Side -> Seq(Kinds)]
  /\ feature \in [Side -> Seq(Packet)]
  /\ pending \in [Side -> Seq(Packet)]
  /\ sender \in [Side -> [Thread -> Sender]]
  /\ made \in [Side -> 0 .. MaxPackets]
  /\ taken \in [Side -> SUBSET Packet] /\ refused \in [Side -> SUBSET Packet]
  /\ lost \in [Side -> SUBSET Packet]

\* A message for s on the control channel, or come in and not handled yet.
InFlight(s, kind) == Has(control[s], kind) \/ Has(event[s], <<"control", kind>>)

\* What a side has when it has sent its capabilities, and when it has said
\* feature-ready.
Proved(h) == h.lauth /\ h.rauth /\ h.offer /\ h.answer
Complete(h) == h.lauth /\ h.rauth /\ CapsConfirmed(h) /\ (h.lready \/ h.failed)

\* The offer is described first, once, and signaled to a responder that has no peer.
OneOffer ==
  /\ signal[Responder] # <<>> => phase[Responder] = "none" /\ Len(signal[Responder]) = 1
  /\ \A i \in 1 .. Len(event[Initiator]) :
       event[Initiator][i][1] = "described" =>
         i = 1 /\ signal[Responder] = <<>> /\ phase[Responder] = "none"

\* A side that sent its capabilities, or said feature-ready, holds its attempt
\* still and is as far, or has dropped it.
SaidCaps(s) == phase[s] = "dropped" \/ (Up(s) /\ hand[s].lcaps)
SaidReady(s) == phase[s] = "dropped" \/ (Up(s) /\ Complete(hand[s]))

\* The steps of the handshake follow one another, at each side and between
\* them; capabilities come once.
OrderedAt(s) ==
  /\ hand[s].lcaps => Proved(hand[s])
  /\ hand[s].rready => hand[s].rcaps
  /\ InFlight(s, "feature-ready") \/ hand[s].rready => SaidReady(Peer(s))
  /\ InFlight(s, "capabilities") \/ hand[s].rcaps => SaidCaps(Peer(s))
  /\ InFlight(s, "capabilities") => ~hand[s].rcaps
  /\ Once(control[s], "capabilities") /\ Once(event[s], <<"control", "capabilities">>)
  /\ ~(Has(control[s], "capabilities") /\ Has(event[s], <<"control", "capabilities">>))

Ordered == \A s \in Side : OrderedAt(s)

\* A thread has features to send unless it is at rest, or about to take them.
Busy ==
  \A s \in Side, t \in Thread :
    sender[s][t].at \in {"idle", "take"} <=> sender[s][t].todo = <<>>

HandInv == Types /\ Busy /\ OneOffer /\ Ordered

\* What is queued at a ready session is about to be taken.
Flushed ==
  \A s \in Side : Ready(s) /\ sender[s]["worker"].at # "take" => pending[s] = <<>>

-----------------------------------------------------------------------------
(* What handling an event may do: the handover of s becomes h and msgs go  *)
(* to its peer.                                                            *)

Grows(g, h) ==
  /\ (g.offer => h.offer) /\ (g.answer => h.answer)
  /\ (g.lauth => h.lauth) /\ (g.rauth => h.rauth)
  /\ (g.lcaps => h.lcaps) /\ (g.rcaps => h.rcaps)
  /\ (g.lready => h.lready) /\ (g.rready => h.rready) /\ (g.failed => h.failed)

Follows(s, h, msgs) ==
  /\ Grows(hand[s], h)
  /\ h.lcaps => Proved(h)
  /\ h.rready => h.rcaps
  /\ h.rready => hand[s].rready \/ Head(event[s]) = <<"control", "feature-ready">>
  /\ h.rcaps => hand[s].rcaps \/ Head(event[s]) = <<"control", "capabilities">>
  /\ Has(msgs, "feature-ready") => Complete(h)
  /\ Has(msgs, "capabilities") => ~hand[s].lcaps /\ h.lcaps
  /\ Once(msgs, "capabilities")

Advance(s, h, msgs) ==
  /\ Up(s) /\ sender[s]["worker"].at = "idle"
  /\ event[s] # <<>> /\ Head(event[s])[1] # "feature"
  /\ event' = [event EXCEPT ![s] = Tail(@)]
  /\ Answers(s, h, msgs)
  /\ \/ signal' = signal
     \/ \E what \in {"offer", "answer"} :
          /\ Head(event[s])[1] = "described"
          /\ signal' = [signal EXCEPT ![Peer(s)] = Append(@, what)]
  /\ sender' \in {sender, [sender EXCEPT ![s]["worker"].at = "take"]}
  /\ features_ready(h) => features_ready(hand[s]) \/ sender' = [sender EXCEPT ![s]["worker"].at = "take"]

Advances(s) == \E h \in Flags, msgs \in Seq(Kinds) : Follows(s, h, msgs) /\ Advance(s, h, msgs)

LEMMA Took ==
  ASSUME Types, NEW s \in Side, NEW kind, NEW what, Takes(s, kind, what)
  PROVE  /\ Head(event[s]) = <<kind, what>> /\ Head(event[s]) \in Event
         /\ Up(s) /\ sender[s]["worker"].at = "idle" /\ event[s] # <<>>
         /\ event' = [event EXCEPT ![s] = Tail(@)]
         /\ Has(event[s], <<kind, what>>)
<1>1. event[s] \in Seq(Event) /\ event[s] # <<>>
  BY Zenon DEF Types, Takes
<1>2. Head(event[s]) \in Event
  BY <1>1
<1>3. Head(event[s]) = <<kind, what>>
  BY Zenon, <1>2, EventIs DEF Takes
<1>4. Has(event[s], <<kind, what>>)
  BY Zenon, <1>1, <1>3, HasTail
<1> QED
  BY Zenon, <1>2, <1>3, <1>4 DEF Takes

LEMMA OfSide ==
  ASSUME Types, Ordered, NEW s \in Side
  PROVE  /\ hand[s] \in Flags
         /\ hand[s].lcaps => Proved(hand[s])
         /\ hand[s].rready => hand[s].rcaps
BY Zenon DEF Types, Ordered, OrderedAt

\* A handler that does not end in finish_feature_ready.
LEMMA MakesAdvance ==
  ASSUME Types, NEW s \in Side, NEW h, NEW msgs, NEW kind, NEW what,
         kind # "feature", Takes(s, kind, what), Answers(s, h, msgs), sender' = sender,
         features_ready(h) => features_ready(hand[s]),
         \/ signal' = signal
         \/ /\ kind = "described" /\ what \in {"offer", "answer"}
            /\ signal' = [signal EXCEPT ![Peer(s)] = Append(@, what)]
  PROVE  Advance(s, h, msgs)
<1> DEFINE flush == [sender EXCEPT ![s]["worker"].at = "take"]
<1>1. /\ Up(s) /\ sender[s]["worker"].at = "idle" /\ event[s] # <<>>
      /\ event' = [event EXCEPT ![s] = Tail(@)] /\ Head(event[s])[1] = kind
  BY Zenon DEF Takes
<1>2. \/ signal' = signal
      \/ \E w \in {"offer", "answer"} :
           /\ Head(event[s])[1] = "described"
           /\ signal' = [signal EXCEPT ![Peer(s)] = Append(@, w)]
  BY Zenon, <1>1
<1> HIDE DEF flush
<1>3. sender' \in {sender, flush}
  BY Zenon
<1>4. features_ready(h) => features_ready(hand[s]) \/ sender' = flush
  BY Zenon
<1> QED
  BY ONLY <1>1, <1>2, <1>3, <1>4, kind # "feature", Answers(s, h, msgs), Zenon DEF Advance, flush

\* An event that leaves the exchange of capabilities and of feature-ready alone.
LEMMA AdvanceQuietly ==
  ASSUME Types, Ordered, NEW s \in Side, NEW h \in Flags, Grows(hand[s], h),
         h.lcaps = hand[s].lcaps, h.rcaps = hand[s].rcaps,
         h.lready = hand[s].lready, h.rready = hand[s].rready,
         NEW msgs \in Seq(Kinds), ~Has(msgs, "feature-ready"), ~Has(msgs, "capabilities"),
         NEW kind, NEW what, kind # "feature", Takes(s, kind, what), Answers(s, h, msgs), sender' = sender,
         \/ signal' = signal
         \/ /\ kind = "described" /\ what \in {"offer", "answer"}
            /\ signal' = [signal EXCEPT ![Peer(s)] = Append(@, what)]
  PROVE  Advances(s)
<1>1. h.lcaps => Proved(h)
  BY Zenon, OfSide DEF Proved, Grows
<1>2. Once(msgs, "capabilities")
  BY Zenon DEF Has, Once
<1>3. Follows(s, h, msgs)
  BY Zenon, <1>1, <1>2, OfSide DEF Follows
<1>4. features_ready(h) => features_ready(hand[s])
  BY Zenon DEF features_ready, Grows
<1>5. Advance(s, h, msgs)
  BY Zenon, <1>4, MakesAdvance
<1> QED
  BY Zenon, <1>3, <1>5 DEF Advances

LEMMA ReplyQuietly ==
  ASSUME Types, Ordered, NEW s \in Side, NEW h \in Flags, Grows(hand[s], h),
         h.lcaps = hand[s].lcaps, h.rcaps = hand[s].rcaps,
         h.lready = hand[s].lready, h.rready = hand[s].rready,
         NEW kind, NEW what, kind # "feature", Takes(s, kind, what),
         NEW msgs \in {<<>>, <<"hello">>, <<"challenge">>, <<"response">>}, Replies(s, h, msgs)
  PROVE  Advances(s)
<1>1. msgs \in Seq(Kinds)
  <2>1. "hello" \in Kinds /\ "challenge" \in Kinds /\ "response" \in Kinds
    BY Zenon DEF Kinds
  <2>2. <<>> \in Seq(Kinds) /\ <<"hello">> \in Seq(Kinds) /\ <<"challenge">> \in Seq(Kinds)
        /\ <<"response">> \in Seq(Kinds)
    BY <2>1
  <2> QED
    BY Zenon, <2>2
<1>2. ~Has(msgs, "feature-ready") /\ ~Has(msgs, "capabilities")
  BY HasEmpty, HasOne
<1> QED
  BY Zenon, <1>1, <1>2, AdvanceQuietly DEF Replies

LEMMA ReplyNothing ==
  ASSUME Types, Ordered, NEW s \in Side, NEW kind, NEW what, kind # "feature", Takes(s, kind, what),
         Replies(s, hand[s], <<>>)
  PROVE  Advances(s)
BY Zenon, OfSide, ReplyQuietly DEF Grows

LEMMA DescribedAdvances ==
  ASSUME Types, Ordered, NEW s \in Side, NEW what \in {"offer", "answer"}, Described(s, what)
  PROVE  Advances(s)
<1> DEFINE h == [hand[s] EXCEPT ![what] = TRUE]
<1>1. h \in Flags /\ Grows(hand[s], h) /\ h.lcaps = hand[s].lcaps /\ h.rcaps = hand[s].rcaps
      /\ h.lready = hand[s].lready /\ h.rready = hand[s].rready
  BY Zenon, OfSide DEF Flags, Grows
<1>2. Answers(s, h, <<>>) /\ signal' = [signal EXCEPT ![Peer(s)] = Append(@, what)]
      /\ sender' = sender /\ Takes(s, "described", what)
  BY Zenon DEF Described
<1>3. <<>> \in Seq(Kinds) /\ ~Has(<<>>, "feature-ready") /\ ~Has(<<>>, "capabilities")
  BY HasEmpty
<1> HIDE DEF h
<1> QED
  BY Zenon, <1>1, <1>2, <1>3, AdvanceQuietly

LEMMA ControlOpenedAdvances ==
  ASSUME Types, Ordered, NEW s \in Side, ControlOpened(s)
  PROVE  Advances(s)
<1> DEFINE h == [hand[s] EXCEPT !.lnonce = TRUE]
<1>1. h \in Flags /\ Grows(hand[s], h) /\ h.lcaps = hand[s].lcaps /\ h.rcaps = hand[s].rcaps
      /\ h.lready = hand[s].lready /\ h.rready = hand[s].rready
  BY Zenon, OfSide DEF Flags, Grows
<1>2. Takes(s, "opened", "control") /\ (Replies(s, hand[s], <<>>) \/ Replies(s, h, <<"hello">>))
  BY Zenon DEF ControlOpened
<1> HIDE DEF h
<1> QED
  BY Zenon, <1>1, <1>2, ReplyNothing, ReplyQuietly

LEMMA HelloAdvances ==
  ASSUME Types, Ordered, NEW s \in Side, Hello(s)
  PROVE  Advances(s)
<1> DEFINE h == [hand[s] EXCEPT !.rnonce = TRUE, !.lnonce = TRUE]
<1>1. h \in Flags /\ Grows(hand[s], h) /\ h.lcaps = hand[s].lcaps /\ h.rcaps = hand[s].rcaps
      /\ h.lready = hand[s].lready /\ h.rready = hand[s].rready
  BY Zenon, OfSide DEF Flags, Grows
<1>2. /\ Takes(s, "control", "hello")
      /\ Replies(s, hand[s], <<>>) \/ Replies(s, h, <<>>) \/ Replies(s, h, <<"challenge">>)
  BY Zenon DEF Hello
<1> HIDE DEF h
<1> QED
  BY Zenon, <1>1, <1>2, ReplyNothing, ReplyQuietly

LEMMA ChallengeAdvances ==
  ASSUME Types, Ordered, NEW s \in Side, Challenge(s)
  PROVE  Advances(s)
<1> DEFINE h == [hand[s] EXCEPT !.rnonce = TRUE]
           g == [h EXCEPT !.rauth = TRUE]
<1>1. h \in Flags /\ Grows(hand[s], h) /\ h.lcaps = hand[s].lcaps /\ h.rcaps = hand[s].rcaps
      /\ h.lready = hand[s].lready /\ h.rready = hand[s].rready
  BY Zenon, OfSide DEF Flags, Grows
<1>2. /\ Takes(s, "control", "challenge")
      /\ Replies(s, hand[s], <<>>) \/ Replies(s, h, <<>>) \/ Replies(s, g, <<"response">>)
  BY Zenon DEF Challenge
<1> HIDE DEF h
<1>3. g \in Flags /\ Grows(hand[s], g) /\ g.lcaps = hand[s].lcaps /\ g.rcaps = hand[s].rcaps
      /\ g.lready = hand[s].lready /\ g.rready = hand[s].rready
  BY ZenonT(40), <1>1 DEF Flags, Grows
<1> HIDE DEF g
<1> QED
  BY Zenon, <1>1, <1>2, <1>3, ReplyNothing, ReplyQuietly

LEMMA DegradedAdvances ==
  ASSUME Types, Ordered, NEW s \in Side, Degraded(s)
  PROVE  Advances(s)
<1> DEFINE h == [hand[s] EXCEPT !.failed = TRUE]
<1>1. h \in Flags /\ Grows(hand[s], h) /\ h.lcaps = hand[s].lcaps /\ h.rcaps = hand[s].rcaps
      /\ h.lready = hand[s].lready /\ h.rready = hand[s].rready
  BY Zenon, OfSide DEF Flags, Grows
<1>2. Takes(s, "control", "degraded") /\ Replies(s, h, <<>>)
  BY Zenon DEF Degraded
<1> HIDE DEF h
<1> QED
  BY Zenon, <1>1, <1>2, ReplyQuietly

LEMMA OwnCapsHas ==
  ASSUME NEW g
  PROVE  /\ OwnCaps(g) \in Seq(Kinds) /\ ~Has(OwnCaps(g), "feature-ready")
         /\ Has(OwnCaps(g), "capabilities") => ~g.lcaps
         /\ Once(OwnCaps(g), "capabilities")
<1>1. "capabilities" \in Kinds
  BY Zenon DEF Kinds
<1>2. <<>> \in Seq(Kinds) /\ <<"capabilities">> \in Seq(Kinds)
  BY <1>1
<1>3. CASE g.lcaps
  BY Zenon, <1>2, <1>3, HasEmpty DEF OwnCaps
<1>4. CASE ~g.lcaps
  <2>1. ~Has(<<"capabilities">>, "feature-ready") /\ Once(<<"capabilities">>, "capabilities")
    BY HasOne
  <2> QED
    BY Zenon, <1>2, <1>4, <2>1 DEF OwnCaps
<1> QED
  BY Zenon, <1>3, <1>4

LEMMA ResponseAdvances ==
  ASSUME Types, Ordered, NEW s \in Side, Response(s)
  PROVE  Advances(s)
<1> DEFINE h == [hand[s] EXCEPT !.rauth = TRUE, !.lauth = TRUE, !.lcaps = TRUE]
           msgs == <<"authenticated">> \o OwnCaps(hand[s])
<1>1. Takes(s, "control", "response")
  BY Zenon DEF Response
<1>2. CASE Replies(s, hand[s], <<>>)
  BY Zenon, <1>1, <1>2, ReplyNothing
<1>3. CASE Replies(s, h, msgs) /\ Negotiated(hand[s])
  <2>1. h \in Flags /\ Grows(hand[s], h) /\ h.rcaps = hand[s].rcaps
        /\ h.lready = hand[s].lready /\ h.rready = hand[s].rready
        /\ h.lcaps /\ h.lauth /\ h.rauth /\ h.offer = hand[s].offer /\ h.answer = hand[s].answer
    BY Zenon, OfSide DEF Flags, Grows
  <2>2. /\ msgs \in Seq(Kinds) /\ ~Has(msgs, "feature-ready")
        /\ Has(msgs, "capabilities") => ~hand[s].lcaps
        /\ Once(msgs, "capabilities")
    <3>1. <<"authenticated">> \in Seq(Kinds)
      BY DEF Kinds
    <3>2. ~Has(<<"authenticated">>, "feature-ready") /\ ~Has(<<"authenticated">>, "capabilities")
          /\ Once(<<"authenticated">>, "capabilities")
      BY HasOne
    <3>3. LET c == OwnCaps(hand[s]) IN
          /\ c \in Seq(Kinds) /\ ~Has(c, "feature-ready")
          /\ Has(c, "capabilities") => ~hand[s].lcaps
          /\ Once(c, "capabilities")
      BY Zenon, OwnCapsHas
    <3>4. msgs \in Seq(Kinds)
      BY <3>1, <3>3
    <3>5. \A x : /\ Has(msgs, x) <=> Has(<<"authenticated">>, x) \/ Has(OwnCaps(hand[s]), x)
                 /\ (/\ Once(<<"authenticated">>, x) /\ Once(OwnCaps(hand[s]), x)
                     /\ ~(Has(<<"authenticated">>, x) /\ Has(OwnCaps(hand[s]), x))) => Once(msgs, x)
      BY Zenon, <3>1, <3>3, HasConcat
    <3> QED
      BY Zenon, <3>2, <3>3, <3>4, <3>5
  <2>3. Replies(s, h, msgs)
    BY Zenon, <1>3
  <2> HIDE DEF h, msgs
  <2>4. Follows(s, h, msgs)
    BY Zenon, <1>3, <2>1, <2>2, OfSide DEF Follows, Proved, Negotiated
  <2>5. features_ready(h) => features_ready(hand[s])
    BY Zenon, <2>1 DEF features_ready, Grows
  <2>6. Advance(s, h, msgs)
    BY Zenon, <1>1, <2>3, <2>5, MakesAdvance DEF Replies
  <2> QED
    BY Zenon, <2>1, <2>2, <2>4, <2>6 DEF Advances
<1> QED
  BY Zenon, <1>2, <1>3 DEF Response

LEMMA AcknowledgedAdvances ==
  ASSUME Types, Ordered, NEW s \in Side, Acknowledged(s)
  PROVE  Advances(s)
<1> DEFINE h == [hand[s] EXCEPT !.lauth = TRUE, !.lcaps = TRUE]
           msgs == OwnCaps(hand[s])
<1>1. Takes(s, "control", "authenticated")
  BY Zenon DEF Acknowledged
<1>2. CASE Replies(s, hand[s], <<>>)
  BY Zenon, <1>1, <1>2, ReplyNothing
<1>3. CASE Replies(s, h, msgs) /\ Negotiated(hand[s]) /\ hand[s].rauth
  <2>1. h \in Flags /\ Grows(hand[s], h) /\ h.rcaps = hand[s].rcaps
        /\ h.lready = hand[s].lready /\ h.rready = hand[s].rready
        /\ h.lcaps /\ h.lauth /\ h.rauth = hand[s].rauth
        /\ h.offer = hand[s].offer /\ h.answer = hand[s].answer
    BY Zenon, OfSide DEF Flags, Grows
  <2>2. /\ msgs \in Seq(Kinds) /\ ~Has(msgs, "feature-ready")
        /\ Has(msgs, "capabilities") => ~hand[s].lcaps
        /\ Once(msgs, "capabilities")
    BY Zenon, OwnCapsHas
  <2>3. Replies(s, h, msgs)
    BY Zenon, <1>3
  <2> HIDE DEF h, msgs
  <2>4. Follows(s, h, msgs)
    BY Zenon, <1>3, <2>1, <2>2, OfSide DEF Follows, Proved, Negotiated
  <2>5. features_ready(h) => features_ready(hand[s])
    BY Zenon, <2>1 DEF features_ready, Grows
  <2>6. Advance(s, h, msgs)
    BY Zenon, <1>1, <2>3, <2>5, MakesAdvance DEF Replies
  <2> QED
    BY Zenon, <2>1, <2>2, <2>4, <2>6 DEF Advances
<1> QED
  BY Zenon, <1>2, <1>3 DEF Acknowledged

LEMMA OwnReadyHas ==
  ASSUME NEW s, NEW h
  PROVE  /\ OwnReady(s, h) \in Seq(Kinds) /\ ~Has(OwnReady(s, h), "capabilities")
         /\ Has(OwnReady(s, h), "feature-ready") => MaySendReady(s, h)
         /\ Once(OwnReady(s, h), "capabilities")
BY HasEmpty, HasOne DEF OwnReady, Kinds

LEMMA AfterReadyIs ==
  ASSUME NEW s, NEW g \in Flags
  PROVE  LET h == AfterReady(s, g) IN
         /\ h \in Flags
         /\ h.offer = g.offer /\ h.answer = g.answer /\ h.lauth = g.lauth /\ h.rauth = g.rauth
         /\ h.lcaps = g.lcaps /\ h.rcaps = g.rcaps /\ h.rready = g.rready /\ h.failed = g.failed
         /\ h.lready <=> g.lready \/ (MaySendReady(s, g) /\ Authenticated(g))
<1> DEFINE b == g.lready \/ (MaySendReady(s, g) /\ Authenticated(g))
<1>1. b \in BOOLEAN /\ AfterReady(s, g) = [g EXCEPT !.lready = b]
  BY Zenon DEF AfterReady
<1> HIDE DEF b
<1>2. LET h == AfterReady(s, g) IN
         /\ h \in Flags
         /\ h.offer = g.offer /\ h.answer = g.answer /\ h.lauth = g.lauth /\ h.rauth = g.rauth
         /\ h.lcaps = g.lcaps /\ h.rcaps = g.rcaps /\ h.rready = g.rready /\ h.failed = g.failed
         /\ h.lready = b
  BY Zenon, <1>1 DEF Flags
<1> QED
  BY Zenon, <1>2 DEF b

\* A side says feature-ready when it is complete, and is marked so unless it has failed.
LEMMA ReadyIsComplete ==
  ASSUME NEW s, NEW g \in Flags, g.lcaps => Proved(g), MaySendReady(s, g)
  PROVE  Complete(AfterReady(s, g))
<1>1. CapsConfirmed(g) /\ Proved(g)
  BY Zenon DEF MaySendReady, CapsConfirmed
<1>2. g.failed \/ Authenticated(g)
  BY Zenon, <1>1 DEF Authenticated, Negotiated, Proved
<1> DEFINE h == AfterReady(s, g)
<1>3. /\ h.lauth = g.lauth /\ h.rauth = g.rauth /\ h.lcaps = g.lcaps /\ h.rcaps = g.rcaps
      /\ h.failed = g.failed /\ (h.lready <=> g.lready \/ Authenticated(g))
  BY Zenon, AfterReadyIs
<1> HIDE DEF h
<1>4. Complete(h)
  BY Zenon, <1>1, <1>2, <1>3 DEF Complete, CapsConfirmed, Proved
<1> QED
  BY Zenon, <1>4 DEF h

LEMMA CapabilitiesAdvances ==
  ASSUME Types, Ordered, NEW s \in Side, Capabilities(s)
  PROVE  Advances(s)
<1> DEFINE g == [hand[s] EXCEPT !.rcaps = TRUE, !.lcaps = TRUE]
           h == AfterReady(s, g)
           msgs == OwnCaps(hand[s]) \o OwnReady(s, g)
<1>1. Takes(s, "control", "capabilities")
  BY Zenon DEF Capabilities
<1>2. CASE Replies(s, hand[s], <<>>)
  BY Zenon, <1>1, <1>2, ReplyNothing
<1>3. CASE Replies(s, h, msgs) /\ Authenticated(hand[s])
  <2>1. g \in Flags /\ Grows(hand[s], g) /\ g.rcaps /\ g.lcaps
        /\ g.lready = hand[s].lready /\ g.rready = hand[s].rready
        /\ g.lauth = hand[s].lauth /\ g.rauth = hand[s].rauth
        /\ g.offer = hand[s].offer /\ g.answer = hand[s].answer
    BY Zenon, OfSide DEF Flags, Grows
  <2>2. msgs \in Seq(Kinds) /\ Once(msgs, "capabilities")
        /\ (Has(msgs, "feature-ready") => MaySendReady(s, g))
        /\ (Has(msgs, "capabilities") => ~hand[s].lcaps)
    <3> DEFINE a == OwnCaps(hand[s])
               b == OwnReady(s, g)
    <3>1. /\ a \in Seq(Kinds) /\ ~Has(a, "feature-ready") /\ Once(a, "capabilities")
          /\ Has(a, "capabilities") => ~hand[s].lcaps
      BY Zenon, OwnCapsHas
    <3>2. /\ b \in Seq(Kinds) /\ ~Has(b, "capabilities") /\ Once(b, "capabilities")
          /\ Has(b, "feature-ready") => MaySendReady(s, g)
      BY Zenon, OwnReadyHas
    <3> HIDE DEF a, b
    <3>3. a \o b \in Seq(Kinds) /\ Once(a \o b, "capabilities")
          /\ (Has(a \o b, "feature-ready") <=> Has(a, "feature-ready") \/ Has(b, "feature-ready"))
          /\ (Has(a \o b, "capabilities") <=> Has(a, "capabilities") \/ Has(b, "capabilities"))
      BY <3>1, <3>2, HasConcat
    <3>4. msgs = a \o b
      BY Zenon DEF a, b
    <3> HIDE DEF msgs
    <3> QED
      BY Zenon, <3>1, <3>2, <3>3, <3>4
  <2>3. Replies(s, h, msgs)
    BY Zenon, <1>3
  <2>4. Proved(g)
    BY Zenon, <1>3, <2>1 DEF Proved, Authenticated, Negotiated
  <2> HIDE DEF g, msgs
  <2>5. /\ h \in Flags
        /\ h.offer = g.offer /\ h.answer = g.answer /\ h.lauth = g.lauth /\ h.rauth = g.rauth
        /\ h.lcaps = g.lcaps /\ h.rcaps = g.rcaps /\ h.rready = g.rready /\ h.failed = g.failed
        /\ (g.lready => h.lready)
    BY Zenon, <2>1, AfterReadyIs
  <2>6. MaySendReady(s, g) => Complete(h)
    BY Zenon, <2>1, <2>4, ReadyIsComplete
  <2> HIDE DEF h
  <2>7. ~hand[s].rready
    BY Zenon, <1>1, Took DEF Ordered, OrderedAt, InFlight
  <2>8. Head(event[s]) = <<"control", "capabilities">>
    BY Zenon, <1>1, Took
  <2>9. Follows(s, h, msgs)
    <3>1. Grows(hand[s], h)
      BY Zenon, <2>1, <2>5 DEF Grows
    <3>2. Proved(h)
      BY Zenon, <2>4, <2>5 DEF Proved
    <3> QED
      BY Zenon, <2>1, <2>2, <2>5, <2>6, <2>7, <2>8, <3>1, <3>2 DEF Follows
  <2>10. ~features_ready(h)
    BY Zenon, <2>1, <2>5, <2>7 DEF features_ready
  <2>11. Advance(s, h, msgs)
    BY Zenon, <1>1, <2>3, <2>10, MakesAdvance DEF Replies
  <2> QED
    BY Zenon, <2>2, <2>5, <2>9, <2>11 DEF Advances
<1> QED
  BY Zenon, <1>2, <1>3 DEF Capabilities

\* A handover that may be ready now, with whatever was queued taken next.
LEMMA ReadyAdvances ==
  ASSUME Types, Ordered, NEW s \in Side, NEW g \in Flags, Grows(hand[s], g),
         g.lcaps => Proved(g), g.rready => g.rcaps,
         g.rcaps = hand[s].rcaps, g.lcaps = hand[s].lcaps,
         NEW kind, NEW what, kind # "feature", Takes(s, kind, what),
         g.rready => hand[s].rready \/ <<kind, what>> = <<"control", "feature-ready">>,
         \/ RepliesAndFinishes(s, AfterReady(s, g), OwnReady(s, g))
         \/ /\ Replies(s, g, OwnReady(s, g)) /\ g = hand[s]
            /\ ~(MaySendReady(s, g) /\ Authenticated(g))
  PROVE  Advances(s)
<1> DEFINE h == AfterReady(s, g)
           msgs == OwnReady(s, g)
<1>1. /\ h \in Flags
      /\ h.offer = g.offer /\ h.answer = g.answer /\ h.lauth = g.lauth /\ h.rauth = g.rauth
      /\ h.lcaps = g.lcaps /\ h.rcaps = g.rcaps /\ h.rready = g.rready /\ h.failed = g.failed
      /\ (h.lready <=> g.lready \/ (MaySendReady(s, g) /\ Authenticated(g)))
  BY Zenon, AfterReadyIs
<1>2. MaySendReady(s, g) => Complete(h)
  BY Zenon, ReadyIsComplete
<1>3. msgs \in Seq(Kinds) /\ Once(msgs, "capabilities") /\ ~Has(msgs, "capabilities")
      /\ (Has(msgs, "feature-ready") => MaySendReady(s, g))
  BY Zenon, OwnReadyHas
<1>4. \/ RepliesAndFinishes(s, h, msgs)
      \/ Replies(s, g, msgs) /\ g = hand[s] /\ ~(MaySendReady(s, g) /\ Authenticated(g))
  BY Zenon
<1> HIDE DEF h, msgs
<1>5. Head(event[s]) = <<kind, what>> /\ Head(event[s])[1] # "feature"
  <2>1. Head(event[s]) = <<kind, what>>
    BY ONLY Zenon, Types, s \in Side, Takes(s, kind, what), Took
  <2>2. Head(event[s])[1] = kind
    BY Zenon DEF Takes
  <2> QED
    BY Zenon, <2>1, <2>2
<1>6. Follows(s, h, msgs)
  <2>1. Grows(hand[s], h)
    BY Zenon, <1>1 DEF Grows
  <2>2. h.lcaps => Proved(h)
    BY Zenon, <1>1 DEF Proved
  <2> QED
    BY Zenon, <1>1, <1>2, <1>3, <1>5, <2>1, <2>2 DEF Follows
<1>7. CASE RepliesAndFinishes(s, h, msgs)
  <2>1. Advance(s, h, msgs)
    BY Zenon, <1>5, <1>7, Took DEF Advance, RepliesAndFinishes
  <2> QED
    BY Zenon, <1>1, <1>3, <1>6, <2>1 DEF Advances
<1>8. CASE Replies(s, g, msgs) /\ g = hand[s] /\ ~(MaySendReady(s, g) /\ Authenticated(g))
  <2>1. Complete(h) => Complete(g)
    BY Zenon, <1>1, <1>8 DEF Complete, CapsConfirmed
  <2>2. Follows(s, g, msgs)
    BY Zenon, <1>2, <1>3, <1>8, <2>1 DEF Follows
  <2>3. Advance(s, g, msgs)
    BY Zenon, <1>5, <1>8, Took DEF Advance, Replies
  <2> QED
    BY Zenon, <1>3, <2>2, <2>3 DEF Advances
<1> QED
  BY Zenon, <1>4, <1>7, <1>8

LEMMA FeatureReadyAdvances ==
  ASSUME Types, Ordered, NEW s \in Side, FeatureReady(s)
  PROVE  Advances(s)
<1> DEFINE g == [hand[s] EXCEPT !.rready = TRUE]
<1>1. Takes(s, "control", "feature-ready")
  BY Zenon DEF FeatureReady
<1>2. CASE Replies(s, hand[s], <<>>)
  BY Zenon, <1>1, <1>2, ReplyNothing
<1>3. CASE RepliesAndFinishes(s, AfterReady(s, g), OwnReady(s, g)) /\ CapsConfirmed(hand[s])
  <2>1. g \in Flags /\ Grows(hand[s], g) /\ g.rcaps = hand[s].rcaps /\ g.lcaps = hand[s].lcaps
        /\ g.lauth = hand[s].lauth /\ g.rauth = hand[s].rauth
        /\ g.offer = hand[s].offer /\ g.answer = hand[s].answer
    BY Zenon, OfSide DEF Flags, Grows
  <2>2. RepliesAndFinishes(s, AfterReady(s, g), OwnReady(s, g))
    BY Zenon, <1>3
  <2> HIDE DEF g
  <2>3. (g.lcaps => Proved(g)) /\ g.rcaps
    BY Zenon, <1>3, <2>1, OfSide DEF Proved, CapsConfirmed
  <2> QED
    BY Zenon, <1>1, <2>1, <2>2, <2>3, ReadyAdvances
<1> QED
  BY Zenon, <1>2, <1>3 DEF FeatureReady

LEMMA RequiredOpenedAdvances ==
  ASSUME Types, Ordered, NEW s \in Side, NEW c \in Required, RequiredOpened(s, c)
  PROVE  Advances(s)
<1>1. Takes(s, "opened", c)
  BY Zenon DEF RequiredOpened
<1>2. \/ RepliesAndFinishes(s, AfterReady(s, hand[s]), OwnReady(s, hand[s]))
      \/ /\ Replies(s, hand[s], OwnReady(s, hand[s]))
         /\ ~(MaySendReady(s, hand[s]) /\ Authenticated(hand[s]))
  BY Zenon DEF RequiredOpened
<1>3. Grows(hand[s], hand[s])
  BY Zenon DEF Grows
<1> QED
  BY Zenon, <1>1, <1>2, <1>3, OfSide, ReadyAdvances

\* Every event but close and a feature is handled so.
LEMMA HandleAdvances ==
  ASSUME Types, Ordered, NEW s \in Side, Handle(s)
  PROVE  Advances(s) \/ Close(s) \/ Feature(s)
BY Zenon, DescribedAdvances, ControlOpenedAdvances, HelloAdvances, ChallengeAdvances, DegradedAdvances,
   ResponseAdvances, AcknowledgedAdvances, CapabilitiesAdvances, FeatureReadyAdvances,
   RequiredOpenedAdvances DEF Handle

-----------------------------------------------------------------------------
(* What a step leaves of the order.                                        *)

\* What is on its way to s after the step was on its way before it.
MessagesKept(s) ==
  /\ InFlight(s, "feature-ready")' => InFlight(s, "feature-ready")
  /\ InFlight(s, "capabilities")' => InFlight(s, "capabilities")
  /\ Once(control[s], "capabilities")' /\ Once(event[s], <<"control", "capabilities">>)'
  /\ ~(Has(control[s], "capabilities")' /\ Has(event[s], <<"control", "capabilities">>)')

LEMMA NoNewMessage ==
  ASSUME Types, NEW s \in Side, OrderedAt(s), control'[s] = control[s],
         \/ event'[s] = event[s] \/ event'[s] = <<>>
         \/ event[s] # <<>> /\ event'[s] = Tail(event[s])
         \/ \E e \in Event : e[1] # "control" /\ event'[s] = Append(event[s], e)
  PROVE  MessagesKept(s)
<1>1. event[s] \in Seq(Event)
  BY Zenon DEF Types
<1>2. ASSUME NEW x, x[1] = "control"
      PROVE  Has(event'[s], x) => Has(event[s], x)
  <2>1. CASE event'[s] = event[s]
    BY Zenon, <2>1
  <2>2. CASE event'[s] = <<>>
    BY Zenon, <2>2, HasEmpty
  <2>3. CASE event[s] # <<>> /\ event'[s] = Tail(event[s])
    <3>1. Has(event[s], x) <=> Head(event[s]) = x \/ Has(Tail(event[s]), x)
      BY Zenon, <1>1, <2>3, HasTail
    <3> QED
      BY Zenon, <2>3, <3>1
  <2>4. ASSUME NEW e \in Event, e[1] # "control", event'[s] = Append(event[s], e)
        PROVE  Has(event'[s], x) => Has(event[s], x)
    <3>1. Has(Append(event[s], e), x) <=> Has(event[s], x) \/ e = x
      BY <1>1, HasAppend
    <3> QED
      BY Zenon, <1>2, <2>4, <3>1
  <2> QED
    BY Zenon, <2>1, <2>2, <2>3, <2>4
<1>3. Once(event'[s], <<"control", "capabilities">>)
  <2> DEFINE x == <<"control", "capabilities">>
  <2>1. x[1] = "control" /\ Once(event[s], x)
    BY Zenon DEF OrderedAt
  <2> HIDE DEF x
  <2>2. CASE event'[s] = event[s] \/ event'[s] = <<>>
    BY Zenon, <2>1, <2>2, HasEmpty DEF x
  <2>3. CASE event[s] # <<>> /\ event'[s] = Tail(event[s])
    <3>1. Once(event[s], x) => Once(Tail(event[s]), x)
      BY Zenon, <1>1, <2>3, HasTail
    <3> QED
      BY Zenon, <2>1, <2>3, <3>1 DEF x
  <2>4. ASSUME NEW e \in Event, e[1] # "control", event'[s] = Append(event[s], e)
        PROVE  Once(event'[s], x)
    <3>1. Once(event[s], x) /\ (e = x => ~Has(event[s], x)) => Once(Append(event[s], e), x)
      BY Zenon, <1>1, HasAppend
    <3> QED
      BY Zenon, <2>1, <2>4, <3>1
  <2> QED
    BY Zenon, <2>2, <2>3, <2>4 DEF x
<1> QED
  BY Zenon, <1>2, <1>3 DEF MessagesKept, OrderedAt, InFlight

LEMMA MessageArrives ==
  ASSUME Types, NEW s \in Side, OrderedAt(s), control[s] # <<>>, control'[s] = Tail(control[s]),
         event'[s] \in {event[s], Append(event[s], <<"control", Head(control[s])>>)}
  PROVE  MessagesKept(s)
<1> DEFINE m == Head(control[s])
           caps == <<"control", "capabilities">>
<1>1. /\ event[s] \in Seq(Event) /\ control[s] \in Seq(Kinds) /\ m \in Kinds
      /\ <<"control", m>> \in Event
  BY DEF Types, Event
<1>2. ASSUME NEW k
      PROVE  /\ Has(control'[s], k) => Has(control[s], k)
             /\ Has(event'[s], <<"control", k>>) =>
                  Has(event[s], <<"control", k>>) \/ (m = k /\ Has(control[s], k))
  <2>1. Has(control[s], k) <=> m = k \/ Has(Tail(control[s]), k)
    BY Zenon, <1>1, HasTail
  <2>2. Has(Append(event[s], <<"control", m>>), <<"control", k>>)
          <=> Has(event[s], <<"control", k>>) \/ <<"control", m>> = <<"control", k>>
    BY <1>1, HasAppend
  <2>3. <<"control", m>> = <<"control", k>> => m = k
    BY Zenon
  <2> HIDE DEF m
  <2>4. event'[s] \in {event[s], Append(event[s], <<"control", m>>)}
    BY Zenon DEF m
  <2> QED
    BY Zenon, <2>1, <2>2, <2>3, <2>4
<1>3. Once(control'[s], "capabilities")
  BY Zenon, <1>1, HasTail DEF OrderedAt
<1>4. m = "capabilities" => ~Has(control'[s], "capabilities") /\ ~Has(event[s], caps)
  <2>1. /\ Has(control[s], "capabilities") <=> m = "capabilities" \/ Has(Tail(control[s]), "capabilities")
        /\ Once(control[s], "capabilities") /\ m = "capabilities" => ~Has(Tail(control[s]), "capabilities")
    BY Zenon, <1>1, HasTail
  <2>2. Once(control[s], "capabilities") /\ ~(Has(control[s], "capabilities") /\ Has(event[s], caps))
    BY Zenon DEF OrderedAt
  <2> HIDE DEF m, caps
  <2> QED
    BY Zenon, <2>1, <2>2
<1>5. Once(event'[s], caps)
  <2>1. <<"control", m>> = caps => m = "capabilities"
    BY Zenon
  <2>2. Once(event[s], caps) /\ (<<"control", m>> = caps => ~Has(event[s], caps))
          => Once(Append(event[s], <<"control", m>>), caps)
    BY <1>1, HasAppend
  <2>3. Once(event[s], caps)
    BY Zenon DEF OrderedAt
  <2>4. event'[s] \in {event[s], Append(event[s], <<"control", m>>)}
    BY Zenon
  <2> HIDE DEF m, caps
  <2> QED
    BY ZenonT(40), <1>4, <2>1, <2>2, <2>3, <2>4
<1>6. ~(Has(control'[s], "capabilities") /\ Has(event'[s], caps))
  BY Zenon, <1>2, <1>4 DEF OrderedAt
<1> QED
  BY Zenon, <1>2, <1>3, <1>5, <1>6 DEF MessagesKept, InFlight

LEMMA MessageSent ==
  ASSUME Types, NEW s \in Side, OrderedAt(s), event'[s] = event[s],
         NEW k \in {"degraded", "close"}, control'[s] = Append(control[s], k)
  PROVE  MessagesKept(s)
<1>1. control[s] \in Seq(Kinds) /\ k \in Kinds
  BY SMTT(20) DEF Types, Kinds
<1> QED
  BY SMTT(20), <1>1, HasAppend DEF MessagesKept, OrderedAt, InFlight

\* A side whose handover stands, and whose peer is as far as it was.
LEMMA OrderKept ==
  ASSUME NEW s \in Side, OrderedAt(s), MessagesKept(s), hand'[s] = hand[s],
         SaidReady(Peer(s)) => SaidReady(Peer(s))', SaidCaps(Peer(s)) => SaidCaps(Peer(s))'
  PROVE  OrderedAt(s)'
BY Zenon DEF OrderedAt, MessagesKept, InFlight

\* A side that begins or ends its attempt has nothing yet, or no longer.
LEMMA OrderAnew ==
  ASSUME NEW s \in Side, OrderedAt(s), MessagesKept(s),
         ~hand'[s].lcaps, ~hand'[s].rready, ~hand'[s].rcaps,
         SaidReady(Peer(s)) => SaidReady(Peer(s))', SaidCaps(Peer(s)) => SaidCaps(Peer(s))'
  PROVE  OrderedAt(s)'
BY SMTT(20) DEF OrderedAt, MessagesKept, InFlight

LEMMA OfferKept ==
  ASSUME Types, OneOffer, signal'[Responder] = signal[Responder],
         phase'[Responder] = phase[Responder],
         \/ event'[Initiator] = event[Initiator] \/ event'[Initiator] = <<>>
         \/ event[Initiator] # <<>> /\ event'[Initiator] = Tail(event[Initiator])
         \/ \E e \in Event : /\ e[1] # "described"
                             /\ event'[Initiator] = Append(event[Initiator], e)
  PROVE  OneOffer'
<1> DEFINE q == event[Initiator]
           r == event'[Initiator]
<1>1. q \in Seq(Event)
  BY Zenon DEF Types, Side
<1>2. ASSUME NEW i \in 1 .. Len(r), r[i][1] = "described"
      PROVE  i \in 1 .. Len(q) /\ q[i][1] = "described"
  <2>1. CASE r = q
    BY Zenon, <1>2, <2>1
  <2>2. CASE r = <<>>
    BY <1>2, <2>2
  <2>3. CASE q # <<>> /\ r = Tail(q)
    <3>1. Len(q) \in Nat /\ Len(r) = Len(q) - 1 /\ r[i] = q[i + 1]
      BY <1>1, <2>3
    <3>2. i + 1 \in 1 .. Len(q) /\ q[i + 1][1] = "described" /\ i + 1 # 1
      BY <1>2, <3>1
    <3> QED
      BY Zenon, <3>2 DEF OneOffer
  <2>4. CASE \E e \in Event : e[1] # "described" /\ r = Append(q, e)
    <3>1. PICK e \in Event : e[1] # "described" /\ r = Append(q, e)
      BY Zenon, <2>4
    <3>2. /\ Len(q) \in Nat /\ Len(r) = Len(q) + 1 /\ r[Len(q) + 1] = e
          /\ \A j \in 1 .. Len(q) : r[j] = q[j]
      BY <1>1, <3>1
    <3> QED
      BY <1>2, <3>1, <3>2
  <2> QED
    BY Zenon, <2>1, <2>2, <2>3, <2>4
<1> QED
  BY Zenon, <1>2 DEF OneOffer

-----------------------------------------------------------------------------
(* The steps.                                                              *)

LEMMA SenderSet ==
  ASSUME Types, NEW s \in Side, NEW t \in Thread, NEW x \in Sender,
         sender' = [sender EXCEPT ![s][t] = x]
  PROVE  /\ sender' \in [Side -> [Thread -> Sender]] /\ sender'[s][t] = x
         /\ \A u \in Side, v \in Thread : <<u, v>> # <<s, t>> => sender'[u][v] = sender[u][v]
<1>1. sender \in [Side -> [Thread -> Sender]]
  BY Zenon DEF Types
<1>2. [sender[s] EXCEPT ![t] = x] \in [Thread -> Sender]
  BY Zenon, <1>1
<1>3. sender' = [sender EXCEPT ![s] = [sender[s] EXCEPT ![t] = x]]
  BY Zenon, <1>1
<1> QED
  BY ZenonT(40), <1>1, <1>2, <1>3

LEMMA ToTake ==
  ASSUME Types, NEW s \in Side, sender[s]["worker"].at = "idle",
         sender' = [sender EXCEPT ![s]["worker"].at = "take"]
  PROVE  /\ sender' \in [Side -> [Thread -> Sender]]
         /\ sender'[s]["worker"].at = "take" /\ sender'[s]["worker"].todo = sender[s]["worker"].todo
         /\ \A u \in Side, v \in Thread : <<u, v>> # <<s, "worker">> => sender'[u][v] = sender[u][v]
<1> DEFINE x == [sender[s]["worker"] EXCEPT !.at = "take"]
<1>1. "worker" \in Thread
  BY Zenon DEF Thread
<1>2. sender[s]["worker"] \in Sender
  BY Zenon, <1>1 DEF Types
<1>3. x \in Sender /\ x.at = "take" /\ x.todo = sender[s]["worker"].todo
  BY Zenon, <1>2 DEF Sender
<1>4. sender' = [sender EXCEPT ![s]["worker"] = x]
  BY Zenon
<1> HIDE DEF x
<1>5. /\ sender' \in [Side -> [Thread -> Sender]] /\ sender'[s]["worker"] = x
      /\ \A u \in Side, v \in Thread : <<u, v>> # <<s, "worker">> => sender'[u][v] = sender[u][v]
  BY ONLY ZenonT(40), <1>1, <1>3, <1>4, Types, s \in Side, SenderSet
<1> QED
  BY Zenon, <1>3, <1>5

LEMMA AdvanceTypes ==
  ASSUME Types, Busy, NEW s \in Side, NEW h \in Flags, NEW msgs \in Seq(Kinds), Advance(s, h, msgs)
  PROVE  Types' /\ Busy'
<1>1. Peer(s) \in Side
  BY Zenon, Sides
<1>2. hand' \in [Side -> Flags] /\ control' \in [Side -> Seq(Kinds)]
  <2>1. control[Peer(s)] \o msgs \in Seq(Kinds)
    BY <1>1 DEF Types
  <2> QED
    BY Zenon, <1>1, <2>1 DEF Types, Advance, Answers
<1>3. event' \in [Side -> Seq(Event)]
  <2>1. Tail(event[s]) \in Seq(Event)
    BY DEF Types, Advance
  <2>2. event \in [Side -> Seq(Event)] /\ event' = [event EXCEPT ![s] = Tail(event[s])]
    BY Zenon DEF Types, Advance
  <2> QED
    BY Zenon, <2>1, <2>2
<1>4. signal' \in [Side -> Seq({"offer", "answer"})]
  <2>1. ASSUME NEW what \in {"offer", "answer"}
        PROVE  Append(signal[Peer(s)], what) \in Seq({"offer", "answer"})
    BY <1>1 DEF Types
  <2>2. signal \in [Side -> Seq({"offer", "answer"})]
    BY Zenon DEF Types
  <2>3. CASE signal' = signal
    BY Zenon, <2>2, <2>3
  <2>4. ASSUME NEW what \in {"offer", "answer"},
               signal' = [signal EXCEPT ![Peer(s)] = Append(signal[Peer(s)], what)]
        PROVE  signal' \in [Side -> Seq({"offer", "answer"})]
    BY Zenon, <2>1, <2>2, <2>4
  <2> QED
    BY Zenon, <2>3, <2>4 DEF Advance
<1>5. sender' \in [Side -> [Thread -> Sender]] /\ Busy'
  <2>1. CASE sender' = sender
    BY Zenon, <2>1 DEF Types, Busy
  <2>2. CASE sender' = [sender EXCEPT ![s]["worker"].at = "take"]
    <3>1. sender[s]["worker"].at = "idle" /\ "worker" \in Thread
      BY Zenon DEF Advance, Thread
    <3>2. sender[s]["worker"].todo = <<>>
      BY Zenon, <3>1 DEF Busy
    <3>3. /\ sender' \in [Side -> [Thread -> Sender]]
          /\ sender'[s]["worker"].at = "take" /\ sender'[s]["worker"].todo = sender[s]["worker"].todo
          /\ \A u \in Side, v \in Thread : <<u, v>> # <<s, "worker">> => sender'[u][v] = sender[u][v]
      BY Zenon, <2>2, <3>1, ToTake
    <3> QED
      BY <3>2, <3>3 DEF Busy
  <2> QED
    BY Zenon, <2>1, <2>2 DEF Advance
<1> QED
  BY Zenon, <1>2, <1>3, <1>4, <1>5 DEF Types, Advance, Answers

LEMMA AdvanceOffer ==
  ASSUME Types, OneOffer, NEW s \in Side, NEW h, NEW msgs, Advance(s, h, msgs)
  PROVE  OneOffer'
<1>1. /\ phase' = phase /\ Initiator \in Side /\ Responder \in Side
      /\ Peer(Initiator) = Responder /\ Peer(Responder) = Initiator /\ Initiator # Responder
  BY Zenon, Sides DEF Advance, Answers, Side, Initiator, Responder
<1>2. event[s] \in Seq(Event) /\ event[s] # <<>> /\ event'[s] = Tail(event[s])
      /\ event'[Peer(s)] = event[Peer(s)]
  BY Zenon, Sides DEF Types, Advance
<1>3. CASE signal'[Responder] = signal[Responder]
  <2>1. event'[Initiator] = event[Initiator]
        \/ (event[Initiator] # <<>> /\ event'[Initiator] = Tail(event[Initiator]))
    BY Zenon, <1>1, <1>2, Sides DEF Side
  <2> QED
    BY Zenon, <1>1, <1>3, <2>1, OfferKept
<1>4. CASE signal'[Responder] # signal[Responder]
  <2>1. PICK what \in {"offer", "answer"} :
          /\ Head(event[s])[1] = "described"
          /\ signal' = [signal EXCEPT ![Peer(s)] = Append(@, what)]
    BY Zenon, <1>4 DEF Advance
  <2>2. s = Initiator
    BY Zenon, <1>1, <1>4, <2>1 DEF Side, Types
  <2>3. 1 \in 1 .. Len(event[Initiator]) /\ event[Initiator][1][1] = "described"
    BY <1>2, <2>1, <2>2
  <2>4. signal[Responder] = <<>> /\ phase[Responder] = "none"
    BY Zenon, <2>3 DEF OneOffer
  <2>5. signal'[Responder] = <<what>>
    BY <1>1, <2>1, <2>2, <2>4 DEF Types
  <2>6. \A i \in 1 .. Len(event'[Initiator]) : event'[Initiator][i][1] # "described"
    <3> SUFFICES ASSUME NEW i \in 1 .. Len(event'[Initiator]), event'[Initiator][i][1] = "described"
                 PROVE  FALSE
      BY Zenon
    <3>1. i + 1 \in 1 .. Len(event[Initiator]) /\ event[Initiator][i + 1][1] = "described" /\ i + 1 # 1
      <4> DEFINE e == event[Initiator]
                 r == event'[Initiator]
      <4>1. e \in Seq(Event) /\ e # <<>> /\ r = Tail(e)
        BY Zenon, <1>2, <2>2
      <4> HIDE DEF e, r
      <4>2. Len(e) \in Nat /\ Len(r) = Len(e) - 1 /\ \A j \in 1 .. Len(r) : r[j] = e[j + 1]
        BY <4>1
      <4>3. i \in 1 .. Len(r) /\ r[i][1] = "described"
        BY Zenon DEF r
      <4> QED
        BY <4>2, <4>3 DEF e
    <3> QED
      BY Zenon, <3>1 DEF OneOffer
  <2>7. Len(signal'[Responder]) = 1
    BY <2>5
  <2> QED
    BY Zenon, <1>1, <2>4, <2>6, <2>7 DEF OneOffer
<1> QED
  BY Zenon, <1>3, <1>4

LEMMA AdvanceOrdered ==
  ASSUME Types, Ordered, NEW s \in Side, NEW h \in Flags, NEW msgs \in Seq(Kinds),
         Follows(s, h, msgs), Advance(s, h, msgs)
  PROVE  Ordered'
<1> DEFINE u == Peer(s)
<1>1. u \in Side /\ u # s /\ Side = {s, u} /\ Peer(u) = s
  BY Zenon, Sides
<1>2. /\ hand'[s] = h /\ hand'[u] = hand[u] /\ phase' = phase /\ Up(s)
      /\ control'[s] = control[s] /\ control'[u] = control[u] \o msgs
      /\ event'[s] = Tail(event[s]) /\ event'[u] = event[u]
      /\ event[s] # <<>> /\ event[s] \in Seq(Event) /\ control[u] \in Seq(Kinds)
  BY Zenon, <1>1 DEF Types, Advance, Answers
<1>3. OrderedAt(s) /\ OrderedAt(u)
  BY Zenon, <1>1 DEF Ordered
<1> HIDE DEF u
<1>4. /\ phase'[s] = "up" /\ phase[s] = "up"
      /\ (SaidReady(u)' <=> SaidReady(u)) /\ (SaidCaps(u)' <=> SaidCaps(u))
      /\ SaidReady(s) => Complete(hand[s])
      /\ SaidCaps(s) => hand[s].lcaps
      /\ Complete(h) => SaidReady(s)'
      /\ h.lcaps => SaidCaps(s)'
  BY Zenon, <1>2 DEF SaidReady, SaidCaps, Up
<1>5. Complete(hand[s]) => Complete(h)
  BY SMTT(20) DEF Complete, CapsConfirmed, Follows, Grows
<1>6. OrderedAt(s)'
  <2>1. MessagesKept(s)
    BY Zenon, <1>2, <1>3, NoNewMessage
  <2>2. h.rready => hand[s].rready \/ InFlight(s, "feature-ready")
    BY ZenonT(40), <1>2, HasTail DEF Follows, InFlight
  <2>3. h.rcaps => hand[s].rcaps \/ InFlight(s, "capabilities")
    BY ZenonT(40), <1>2, HasTail DEF Follows, InFlight
  <2>4. InFlight(s, "capabilities")' => ~h.rcaps
    <3>1. SUFFICES ASSUME InFlight(s, "capabilities")', h.rcaps PROVE FALSE
      BY SMTT(20)
    <3>2. InFlight(s, "capabilities") /\ ~hand[s].rcaps
      BY ZenonT(40), <1>3, <2>1, <3>1 DEF MessagesKept, OrderedAt
    <3>3. Head(event[s]) = <<"control", "capabilities">>
      BY Zenon, <3>1, <3>2 DEF Follows
    <3>4. Has(event[s], <<"control", "capabilities">>) /\ ~Has(event'[s], <<"control", "capabilities">>)
      <4> DEFINE x == <<"control", "capabilities">>
      <4>1. Once(event[s], x)
        BY Zenon, <1>3 DEF OrderedAt
      <4>2. /\ Has(event[s], x) <=> Head(event[s]) = x \/ Has(Tail(event[s]), x)
            /\ Once(event[s], x) /\ Head(event[s]) = x => ~Has(Tail(event[s]), x)
        BY ZenonT(40), <1>2, HasTail
      <4> QED
        BY Zenon, <1>2, <3>3, <4>1, <4>2
    <3> QED
      BY ZenonT(40), <1>2, <1>3, <3>1, <3>4 DEF OrderedAt, InFlight
  <2>5. Peer(s) = u
    BY Zenon DEF u
  <2>6. /\ h.lcaps => Proved(h)
        /\ h.rready => h.rcaps
    BY SMTT(20) DEF Follows
  <2>7. /\ InFlight(s, "feature-ready")' \/ h.rready => SaidReady(u)
        /\ InFlight(s, "capabilities")' \/ h.rcaps => SaidCaps(u)
    BY ZenonT(40), <1>3, <2>1, <2>2, <2>3, <2>5 DEF MessagesKept, OrderedAt
  <2>8. /\ Once(control[s], "capabilities")' /\ Once(event[s], <<"control", "capabilities">>)'
        /\ ~(Has(control[s], "capabilities")' /\ Has(event[s], <<"control", "capabilities">>)')
    BY Zenon, <2>1 DEF MessagesKept
  <2> QED
    BY Zenon, <1>2, <1>4, <2>4, <2>5, <2>6, <2>7, <2>8 DEF OrderedAt
<1>7. OrderedAt(u)'
  <2>0. ASSUME NEW x
        PROVE  /\ Has(control'[u], x) <=> Has(control[u], x) \/ Has(msgs, x)
               /\ Once(control[u], x) /\ Once(msgs, x) /\ ~(Has(control[u], x) /\ Has(msgs, x)) =>
                    Once(control'[u], x)
    <3>1. control[u] \in Seq(Kinds) /\ msgs \in Seq(Kinds) /\ control'[u] = control[u] \o msgs
      BY Zenon, <1>2
    <3>2. /\ Has(control[u] \o msgs, x) <=> Has(control[u], x) \/ Has(msgs, x)
          /\ Once(control[u], x) /\ Once(msgs, x) /\ ~(Has(control[u], x) /\ Has(msgs, x)) =>
               Once(control[u] \o msgs, x)
      BY ONLY Zenon, <3>1, HasConcat
    <3> QED
      BY Zenon, <3>1, <3>2
  <2>1. /\ InFlight(u, "feature-ready")' => InFlight(u, "feature-ready") \/ Has(msgs, "feature-ready")
        /\ InFlight(u, "capabilities")' => InFlight(u, "capabilities") \/ Has(msgs, "capabilities")
    BY Zenon, <1>2, <2>0 DEF InFlight
  <2>2. Has(msgs, "capabilities") => ~InFlight(u, "capabilities") /\ ~hand[u].rcaps
    BY ZenonT(40), <1>1, <1>3, <1>4 DEF OrderedAt, Follows
  <2>3. Once(control'[u], "capabilities")
    BY Zenon, <1>2, <1>3, <2>0, <2>2 DEF OrderedAt, InFlight, Follows
  <2>4. ~(Has(control'[u], "capabilities") /\ Has(event'[u], <<"control", "capabilities">>))
    BY Zenon, <1>2, <1>3, <2>0, <2>2 DEF OrderedAt, InFlight
  <2>5. /\ InFlight(u, "feature-ready")' \/ hand[u].rready => SaidReady(s)'
        /\ InFlight(u, "capabilities")' \/ hand[u].rcaps => SaidCaps(s)'
    BY ZenonT(40), <1>1, <1>3, <1>4, <1>5, <2>1 DEF OrderedAt, Follows, Grows
  <2>6. InFlight(u, "capabilities")' => ~hand[u].rcaps
    BY ZenonT(40), <1>3, <2>1, <2>2 DEF OrderedAt
  <2>7. /\ hand[u].lcaps => Proved(hand[u])
        /\ hand[u].rready => hand[u].rcaps
        /\ Once(event[u], <<"control", "capabilities">>)
    BY Zenon, <1>3 DEF OrderedAt
  <2> QED
    BY ZenonT(40), <1>1, <1>2, <2>3, <2>4, <2>5, <2>6, <2>7 DEF OrderedAt
<1> QED
  BY Zenon, <1>1, <1>6, <1>7 DEF Ordered

LEMMA AdvanceStep ==
  ASSUME HandInv, NEW s \in Side, Advances(s)
  PROVE  HandInv'
<1>1. PICK h \in Flags, msgs \in Seq(Kinds) : Follows(s, h, msgs) /\ Advance(s, h, msgs)
  BY Zenon DEF Advances
<1> QED
  BY Zenon, <1>1, AdvanceTypes, AdvanceOffer, AdvanceOrdered DEF HandInv

\* Nobody's handover changes and no message is added.
LEMMA OrderStands ==
  ASSUME Ordered, hand' = hand, phase' = phase, \A s \in Side : MessagesKept(s)
  PROVE  Ordered'
<1> SUFFICES ASSUME NEW s \in Side PROVE OrderedAt(s)'
  BY Zenon DEF Ordered
<1>1. /\ SaidReady(Peer(s)) => SaidReady(Peer(s))'
      /\ SaidCaps(Peer(s)) => SaidCaps(Peer(s))'
  BY Zenon DEF SaidReady, SaidCaps, Up
<1> QED
  BY Zenon, <1>1, OrderKept DEF Ordered

LEMMA Two ==
  /\ Initiator \in Side /\ Responder \in Side /\ Initiator # Responder
  /\ Peer(Initiator) = Responder /\ Peer(Responder) = Initiator /\ Side = {Initiator, Responder}
<1>1. Initiator \in Side /\ Responder \in Side /\ Initiator # Responder /\ Side = {Initiator, Responder}
  BY Zenon DEF Side, Initiator, Responder
<1> QED
  BY Zenon, <1>1, Sides

LEMMA TakeOfferStep ==
  ASSUME HandInv, TakeOffer
  PROVE  HandInv'
<1> DEFINE e == <<"described", "answer">>
           f == [Fresh EXCEPT !.offer = TRUE]
<1>1. e \in Event /\ e[1] # "control" /\ f \in Flags /\ ~f.lcaps /\ ~f.rready /\ ~f.rcaps
  BY Zenon DEF Event, Fresh, Flags
<1>2. /\ signal[Responder] \in Seq({"offer", "answer"}) /\ signal[Responder] # <<>>
      /\ Len(signal[Responder]) = 1 /\ phase[Responder] = "none"
      /\ \A i \in 1 .. Len(event[Initiator]) : event[Initiator][i][1] # "described"
  BY Zenon, Two DEF HandInv, Types, OneOffer, TakeOffer
<1>3. signal'[Responder] = <<>> /\ Tail(signal[Responder]) \in Seq({"offer", "answer"})
  <2>1. Tail(signal[Responder]) = <<>> /\ Tail(signal[Responder]) \in Seq({"offer", "answer"})
    BY Zenon, <1>2, TailIs
  <2>2. signal'[Responder] = Tail(signal[Responder])
    BY Zenon, Two DEF TakeOffer, HandInv, Types
  <2> QED
    BY Zenon, <2>1, <2>2
<1>4. /\ hand' = [hand EXCEPT ![Responder] = f] /\ phase' = [phase EXCEPT ![Responder] = "up"]
      /\ event' = [event EXCEPT ![Responder] = Append(event[Responder], e)]
      /\ UNCHANGED <<open, control, feature, pending, sender, made, taken, refused, lost>>
  BY SMTT(20) DEF TakeOffer, user
<1> HIDE DEF e, f
<1>5. Types' /\ Busy'
  <2>1. Append(event[Responder], e) \in Seq(Event)
    BY <1>1, Two DEF HandInv, Types
  <2>2. signal' \in [Side -> Seq({"offer", "answer"})]
    BY Zenon, <1>3, Two DEF TakeOffer, HandInv, Types
  <2> QED
    BY Zenon, <1>1, <1>4, <2>1, <2>2, Two DEF HandInv, Types, Busy
<1>6. OneOffer'
  <2>1. event'[Initiator] = event[Initiator]
    BY Zenon, <1>4, Two DEF HandInv, Types
  <2> QED
    BY Zenon, <1>2, <1>3, <2>1 DEF OneOffer
<1>7. OrderedAt(Responder)'
  <2>1. MessagesKept(Responder)
    <3>1. control'[Responder] = control[Responder]
          /\ event'[Responder] = Append(event[Responder], e)
      BY Zenon, <1>4, Two DEF HandInv, Types
    <3> QED
      BY Zenon, <1>1, <3>1, Two, NoNewMessage DEF HandInv, Ordered
  <2>2. hand'[Responder] = f /\ hand'[Initiator] = hand[Initiator] /\ phase'[Initiator] = phase[Initiator]
    BY Zenon, <1>4, Two DEF HandInv, Types
  <2>3. /\ SaidReady(Initiator) => SaidReady(Initiator)'
        /\ SaidCaps(Initiator) => SaidCaps(Initiator)'
    BY Zenon, <2>2 DEF SaidReady, SaidCaps, Up
  <2> QED
    BY Zenon, <1>1, <2>1, <2>2, <2>3, Two, OrderAnew DEF HandInv, Ordered
<1>8. OrderedAt(Initiator)'
  <2>1. ~SaidReady(Responder) /\ ~SaidCaps(Responder)
    BY Zenon, <1>2 DEF SaidReady, SaidCaps, Up
  <2>2. /\ control'[Initiator] = control[Initiator] /\ event'[Initiator] = event[Initiator]
        /\ hand'[Initiator] = hand[Initiator]
    BY Zenon, <1>4, Two DEF HandInv, Types
  <2>3. MessagesKept(Initiator)
    BY Zenon, <2>2, Two, NoNewMessage DEF HandInv, Ordered
  <2> QED
    BY Zenon, <2>1, <2>2, <2>3, Two, OrderKept DEF HandInv, Ordered
<1> QED
  BY Zenon, <1>5, <1>6, <1>7, <1>8, Two DEF HandInv, Ordered

LEMMA TakeAnswerStep ==
  ASSUME HandInv, TakeAnswer
  PROVE  HandInv'
<1> DEFINE h == [hand[Initiator] EXCEPT !.answer = TRUE]
<1>1. /\ hand[Initiator] \in Flags /\ h \in Flags
      /\ h.lcaps = hand[Initiator].lcaps /\ h.rcaps = hand[Initiator].rcaps
      /\ h.rready = hand[Initiator].rready
      /\ (Proved(hand[Initiator]) => Proved(h)) /\ (Complete(hand[Initiator]) => Complete(h))
  <2>1. hand[Initiator] \in Flags
    BY Zenon, Two DEF HandInv, Types
  <2> QED
    BY Zenon, <2>1 DEF Flags, Proved, Complete, CapsConfirmed
<1>2. /\ hand' \in {hand, [hand EXCEPT ![Initiator] = h]}
      /\ signal' = [signal EXCEPT ![Initiator] = Tail(signal[Initiator])] /\ signal[Initiator] # <<>>
      /\ UNCHANGED <<phase, open, event, control, feature, pending, sender, made, taken, refused, lost>>
  BY SMTT(20) DEF TakeAnswer, user
<1> HIDE DEF h
<1>3. Types' /\ Busy'
  <2>1. Tail(signal[Initiator]) \in Seq({"offer", "answer"})
    BY <1>2, Two DEF HandInv, Types
  <2>2. hand' \in [Side -> Flags] /\ signal' \in [Side -> Seq({"offer", "answer"})]
    BY SMTT(20), <1>1, <1>2, <2>1, Two DEF HandInv, Types
  <2> QED
    BY Zenon, <1>2, <2>2 DEF HandInv, Types, Busy
<1>4. OneOffer'
  <2>1. signal'[Responder] = signal[Responder]
    BY Zenon, <1>2, Two DEF HandInv, Types
  <2> QED
    BY Zenon, <1>2, <2>1, OfferKept DEF HandInv
<1>5. ASSUME NEW s \in Side PROVE OrderedAt(s)'
  <2>1. OrderedAt(s) /\ Peer(s) \in Side
    BY Zenon, Sides DEF HandInv, Ordered
  <2>2. MessagesKept(s)
    BY Zenon, <1>2, <2>1, NoNewMessage DEF HandInv
  <2>3. \A u \in Side :
          /\ hand'[u].lcaps = hand[u].lcaps /\ hand'[u].rcaps = hand[u].rcaps
          /\ hand'[u].rready = hand[u].rready
          /\ (Proved(hand[u]) => Proved(hand'[u])) /\ (Complete(hand[u]) => Complete(hand'[u]))
    BY Zenon, <1>1, <1>2, Two DEF HandInv, Types
  <2>4. /\ SaidReady(Peer(s)) => SaidReady(Peer(s))'
        /\ SaidCaps(Peer(s)) => SaidCaps(Peer(s))'
    BY Zenon, <1>2, <2>1, <2>3 DEF SaidReady, SaidCaps, Up
  <2> QED
    BY Zenon, <2>1, <2>2, <2>3, <2>4 DEF OrderedAt, MessagesKept
<1> QED
  BY Zenon, <1>3, <1>4, <1>5 DEF HandInv, Ordered

\* An event that is neither a message nor a description comes in.
LEMMA EventComes ==
  ASSUME HandInv, NEW s \in Side, NEW e \in Event, e[1] \notin {"control", "described"},
         event' = [event EXCEPT ![s] = Append(@, e)], UNCHANGED <<hand, phase, signal, control>>
  PROVE  event' \in [Side -> Seq(Event)] /\ OneOffer' /\ Ordered'
<1>1. event[s] \in Seq(Event) /\ event'[s] = Append(event[s], e)
      /\ \A u \in Side : u # s => event'[u] = event[u]
  BY Zenon DEF HandInv, Types
<1>2. event' \in [Side -> Seq(Event)]
  BY SMTT(20), <1>1 DEF HandInv, Types
<1>3. OneOffer'
  BY Zenon, <1>1, Two, OfferKept DEF HandInv
<1>4. \A u \in Side : MessagesKept(u)
  BY Zenon, <1>1, NoNewMessage DEF HandInv, Ordered
<1> QED
  BY Zenon, <1>2, <1>3, <1>4, OrderStands DEF HandInv

LEMMA ChannelOpensStep ==
  ASSUME HandInv, NEW s \in Side, NEW c \in Required, ChannelOpens(s, c)
  PROVE  HandInv'
<1> DEFINE e == <<"opened", c>>
<1>1. e \in Event /\ e[1] \notin {"control", "described"}
  BY Zenon DEF Event
<1>2. /\ event' = [event EXCEPT ![s] = Append(@, e)] /\ open' = [open EXCEPT ![s] = @ \cup {c}]
      /\ UNCHANGED <<hand, phase, signal, control, feature, pending, sender, made, taken, refused, lost>>
  BY Zenon DEF ChannelOpens, peer, user
<1> HIDE DEF e
<1>3. event' \in [Side -> Seq(Event)] /\ OneOffer' /\ Ordered'
  BY Zenon, <1>1, <1>2, EventComes
<1>4. open' \in [Side -> SUBSET Required]
  BY Zenon, <1>2 DEF HandInv, Types
<1> QED
  BY Zenon, <1>2, <1>3, <1>4 DEF HandInv, Types, Busy

LEMMA ControlArrivesStep ==
  ASSUME HandInv, NEW s \in Side, ControlArrives(s)
  PROVE  HandInv'
<1> DEFINE e == <<"control", Head(control[s])>>
<1>1. /\ control[s] \in Seq(Kinds) /\ control[s] # <<>> /\ event[s] \in Seq(Event)
      /\ Tail(control[s]) \in Seq(Kinds) /\ Head(control[s]) \in Kinds
  BY DEF HandInv, Types, ControlArrives
<1>2. e \in Event /\ e[1] # "described"
  BY Zenon, <1>1 DEF Event
<1>3. /\ control' = [control EXCEPT ![s] = Tail(control[s])]
      /\ event' \in {event, [event EXCEPT ![s] = Append(event[s], e)]}
      /\ UNCHANGED <<hand, phase, open, signal, feature, pending, sender, made, taken, refused, lost>>
  BY ZenonT(40) DEF ControlArrives, peer, user
<1>4. /\ control'[s] = Tail(control[s]) /\ event'[s] \in {event[s], Append(event[s], e)}
      /\ \A u \in Side : u # s => event'[u] = event[u] /\ control'[u] = control[u]
  BY Zenon, <1>3 DEF HandInv, Types
<1>5. MessagesKept(s)
  BY Zenon, <1>1, <1>4, MessageArrives DEF HandInv, Ordered
<1>6. \A u \in Side : u # s => MessagesKept(u)
  BY Zenon, <1>4, NoNewMessage DEF HandInv, Ordered
<1>7. Ordered'
  BY Zenon, <1>3, <1>5, <1>6, OrderStands DEF HandInv
<1>8. OneOffer'
  <2>1. \/ event'[Initiator] = event[Initiator]
        \/ \E d \in Event : d[1] # "described" /\ event'[Initiator] = Append(event[Initiator], d)
    BY Zenon, <1>2, <1>4, Two
  <2> QED
    BY Zenon, <1>3, <2>1, OfferKept DEF HandInv
<1>9. control' \in [Side -> Seq(Kinds)] /\ event' \in [Side -> Seq(Event)]
  <2>1. Append(event[s], e) \in Seq(Event)
    BY SMTT(20), <1>1, <1>2
  <2> QED
    BY Zenon, <1>1, <1>3, <2>1 DEF HandInv, Types
<1> QED
  BY Zenon, <1>3, <1>7, <1>8, <1>9 DEF HandInv, Types, Busy

LEMMA FeatureArrivesStep ==
  ASSUME HandInv, NEW s \in Side, FeatureArrives(s)
  PROVE  HandInv'
<1> DEFINE n == Head(feature[s])
           e == <<"feature", n>>
<1>1. /\ feature[s] \in Seq(Packet) /\ feature[s] # <<>> /\ n \in Packet
      /\ Tail(feature[s]) \in Seq(Packet)
  BY DEF HandInv, Types, FeatureArrives
<1>2. e \in Event /\ e[1] \notin {"control", "described"}
  BY Zenon, <1>1 DEF Event
<1>3. /\ feature' = [feature EXCEPT ![s] = Tail(feature[s])]
      /\ event' \in {event, [event EXCEPT ![s] = Append(event[s], e)]}
      /\ lost' \in {lost, [lost EXCEPT ![Peer(s)] = @ \cup {n}]}
      /\ UNCHANGED <<hand, phase, open, signal, control, pending, sender, made, taken, refused>>
  BY Zenon DEF FeatureArrives, peer
<1> HIDE DEF n, e
<1>4. event' \in [Side -> Seq(Event)] /\ OneOffer' /\ Ordered'
  <2>1. CASE event' = event
    <3>1. \A u \in Side : MessagesKept(u)
      BY Zenon, <1>3, <2>1, NoNewMessage DEF HandInv, Ordered
    <3>2. Ordered' /\ OneOffer'
      BY Zenon, <1>3, <2>1, <3>1, OrderStands, OfferKept DEF HandInv
    <3> QED
      BY Zenon, <2>1, <3>2 DEF HandInv, Types
  <2>2. CASE event' = [event EXCEPT ![s] = Append(event[s], e)]
    BY ZenonT(40), <1>2, <1>3, <2>2, EventComes
  <2> QED
    BY Zenon, <1>3, <2>1, <2>2
<1>5. feature' \in [Side -> Seq(Packet)]
  BY Zenon, <1>1, <1>3 DEF HandInv, Types
<1>6. lost' \in [Side -> SUBSET Packet]
  <2>1. lost \in [Side -> SUBSET Packet] /\ Peer(s) \in Side /\ n \in Packet
    BY Zenon, <1>1, Sides DEF HandInv, Types
  <2>2. CASE lost' = lost
    BY Zenon, <2>1, <2>2
  <2>3. CASE lost' = [lost EXCEPT ![Peer(s)] = @ \cup {n}]
    BY Zenon, <2>1, <2>3
  <2> QED
    BY Zenon, <1>3, <2>2, <2>3
<1> QED
  BY Zenon, <1>3, <1>4, <1>5, <1>6 DEF HandInv, Types, Busy

\* The features among the events of s.
LEMMA UnhandledIs ==
  ASSUME Types, NEW s \in Side
  PROVE  /\ Unhandled(s) \subseteq Packet
         /\ \A n \in Packet : n \in Unhandled(s) <=> Has(event[s], <<"feature", n>>)
<1>1. event[s] \in Seq(Event) /\ ToSet(event[s]) = {event[s][i] : i \in 1 .. Len(event[s])}
  <2>1. event[s] \in Seq(Event)
    BY Zenon DEF Types
  <2>2. DOMAIN event[s] = 1 .. Len(event[s])
    BY ONLY <2>1
  <2> QED
    BY Zenon, <2>1, <2>2 DEF ToSet
<1>2. ASSUME NEW i \in 1 .. Len(event[s]), event[s][i][1] = "feature"
      PROVE  event[s][i] = <<"feature", event[s][i][2]>> /\ event[s][i][2] \in Packet
  <2>1. event[s][i] \in Event
    BY <1>1
  <2> QED
    <3>1. CASE event[s][i] \in {"feature"} \X Packet
      BY <3>1
    <3>2. ASSUME event[s][i] \notin {"feature"} \X Packet PROVE FALSE
      <4>1. \E a \in {"described", "opened", "control"} : \E b : event[s][i] = <<a, b>>
        BY <2>1, <3>2 DEF Event
      <4> QED
        BY <1>2, <4>1
    <3> QED
      BY Zenon, <3>1, <3>2
<1>3. \A n : n \in Unhandled(s) <=>
        \E i \in 1 .. Len(event[s]) : event[s][i][1] = "feature" /\ n = event[s][i][2]
  BY Zenon, <1>1 DEF Unhandled
<1>4. Unhandled(s) \subseteq Packet
  BY <1>2, <1>3
<1>5. ASSUME NEW n \in Packet PROVE n \in Unhandled(s) <=> Has(event[s], <<"feature", n>>)
  <2>1. ASSUME n \in Unhandled(s) PROVE Has(event[s], <<"feature", n>>)
    BY <1>2, <1>3, <2>1 DEF Has
  <2>2. ASSUME Has(event[s], <<"feature", n>>) PROVE n \in Unhandled(s)
    BY <1>3, <2>2 DEF Has
  <2> QED
    BY Zenon, <2>1, <2>2
<1> QED
  BY Zenon, <1>4, <1>5

LEMMA DropStep ==
  ASSUME HandInv, NEW s \in Side, Up(s), Drop(s)
  PROVE  HandInv'
<1> DEFINE u == Peer(s)
<1>1. u \in Side /\ u # s /\ Side = {s, u} /\ Peer(u) = s /\ Peer(s) = u
  BY Zenon, Sides
<1>2. Fresh \in Flags /\ ~Fresh.lcaps /\ ~Fresh.rready /\ ~Fresh.rcaps
  BY Zenon DEF Fresh, Flags
<1>3. /\ hand' = [hand EXCEPT ![s] = Fresh] /\ phase' = [phase EXCEPT ![s] = "dropped"]
      /\ event' = [event EXCEPT ![s] = <<>>] /\ open' = [open EXCEPT ![s] = {}]
      /\ lost' = [lost EXCEPT ![u] = @ \cup Unhandled(s)]
      /\ UNCHANGED <<signal, control, feature, pending, sender, made, taken, refused>>
  BY SMTT(20) DEF Drop
<1> HIDE DEF u
<1>4. Types' /\ Busy'
  <2>1. lost' \in [Side -> SUBSET Packet]
    BY Zenon, <1>1, <1>3, UnhandledIs DEF HandInv, Types
  <2>2. hand' \in [Side -> Flags] /\ phase' \in [Side -> {"none", "up", "dropped"}]
        /\ event' \in [Side -> Seq(Event)] /\ open' \in [Side -> SUBSET Required]
    BY <1>2, <1>3 DEF HandInv, Types
  <2> QED
    BY Zenon, <1>3, <2>1, <2>2 DEF HandInv, Types, Busy
<1>5. /\ hand'[s] = Fresh /\ phase'[s] = "dropped" /\ event'[s] = <<>>
      /\ hand'[u] = hand[u] /\ phase'[u] = phase[u] /\ event'[u] = event[u]
  BY Zenon, <1>1, <1>3 DEF HandInv, Types
<1>6. OneOffer'
  <2>1. CASE s = Initiator
    BY Zenon, <1>1, <1>3, <1>5, <2>1, Two, OfferKept DEF HandInv
  <2>2. CASE s = Responder
    <3>1. phase[Responder] = "up" /\ event'[Initiator] = event[Initiator]
      BY Zenon, <1>1, <1>5, <2>2, Two DEF Up
    <3>2. /\ signal[Responder] = <<>>
          /\ \A i \in 1 .. Len(event[Initiator]) : event[Initiator][i][1] # "described"
      BY Zenon, <3>1 DEF HandInv, OneOffer
    <3> QED
      BY Zenon, <1>3, <3>1, <3>2 DEF OneOffer
  <2> QED
    BY Zenon, <2>1, <2>2, Two
<1>7. OrderedAt(s)'
  <2>1. MessagesKept(s)
    BY ZenonT(40), <1>3, <1>5, NoNewMessage DEF HandInv, Ordered
  <2>2. /\ SaidReady(u) => SaidReady(u)'
        /\ SaidCaps(u) => SaidCaps(u)'
    BY Zenon, <1>5 DEF SaidReady, SaidCaps, Up
  <2> QED
    BY Zenon, <1>1, <1>2, <1>5, <2>1, <2>2, OrderAnew DEF HandInv, Ordered
<1>8. OrderedAt(u)'
  <2>1. MessagesKept(u)
    BY Zenon, <1>1, <1>3, <1>5, NoNewMessage DEF HandInv, Ordered
  <2>2. SaidReady(s)' /\ SaidCaps(s)'
    BY Zenon, <1>5 DEF SaidReady, SaidCaps
  <2> QED
    BY Zenon, <1>1, <1>5, <2>1, <2>2, OrderKept DEF HandInv, Ordered
<1> QED
  BY Zenon, <1>1, <1>4, <1>6, <1>7, <1>8 DEF HandInv, Ordered

LEMMA BreakStep ==
  ASSUME HandInv, NEW s \in Side, NEW kind \in {"degraded", "close"}, Break(s, kind)
  PROVE  HandInv'
<1> DEFINE u == Peer(s)
<1>1. u \in Side /\ u # s /\ Side = {s, u}
  BY Zenon, Sides
<1>2. /\ control' = [control EXCEPT ![u] = Append(control[u], kind)]
      /\ UNCHANGED <<hand, phase, open, signal, event, feature, pending, sender, made, taken, refused, lost>>
  BY SMTT(20) DEF Break, peer, user
<1> HIDE DEF u
<1>3. /\ control'[u] = Append(control[u], kind) /\ control'[s] = control[s]
      /\ control' \in [Side -> Seq(Kinds)]
  BY SMTT(20), <1>1, <1>2 DEF HandInv, Types, Kinds
<1>4. MessagesKept(s) /\ MessagesKept(u)
  BY Zenon, <1>1, <1>2, <1>3, NoNewMessage, MessageSent DEF HandInv, Ordered
<1>5. Ordered' /\ OneOffer'
  BY ZenonT(40), <1>1, <1>2, <1>4, OrderStands, OfferKept DEF HandInv
<1> QED
  BY ZenonT(40), <1>2, <1>3, <1>5 DEF HandInv, Types, Busy

LEMMA FeatureStep ==
  ASSUME HandInv, NEW s \in Side, Feature(s)
  PROVE  HandInv'
<1>1. PICK n \in Packet : Takes(s, "feature", n)
  BY Zenon DEF Feature
<1>2. /\ Head(event[s]) = <<"feature", n>> /\ event[s] # <<>> /\ event[s] \in Seq(Event)
      /\ event' = [event EXCEPT ![s] = Tail(@)]
  BY Zenon, <1>1, Took DEF HandInv, Types
<1>3. /\ taken' \in {taken, [taken EXCEPT ![s] = @ \cup {n}]}
      /\ refused' \in {refused, [refused EXCEPT ![s] = @ \cup {n}]}
      /\ UNCHANGED <<hand, phase, open, signal, control, feature, pending, sender, made, lost>>
  <2>1. IF Ready(s) THEN taken' = [taken EXCEPT ![s] = @ \cup {n}] /\ UNCHANGED refused
        ELSE refused' = [refused EXCEPT ![s] = @ \cup {n}] /\ UNCHANGED taken
    BY <1>2 DEF Feature
  <2>2. UNCHANGED <<hand, phase, open, signal, control, feature, pending, sender, made, lost>>
    BY Zenon DEF Feature, peer
  <2> QED
    BY Zenon, <2>1, <2>2
<1>4. event'[s] = Tail(event[s]) /\ \A u \in Side : u # s => event'[u] = event[u]
  BY Zenon, <1>2 DEF HandInv, Types
<1>5. \A u \in Side : MessagesKept(u)
  BY Zenon, <1>2, <1>3, <1>4, NoNewMessage DEF HandInv, Ordered
<1>6. OneOffer'
  BY Zenon, <1>2, <1>3, <1>4, Two, OfferKept DEF HandInv
<1>7. event' \in [Side -> Seq(Event)]
  <2>1. Tail(event[s]) \in Seq(Event)
    BY <1>2
  <2> QED
    BY Zenon, <1>2, <2>1 DEF HandInv, Types
<1>8. taken' \in [Side -> SUBSET Packet] /\ refused' \in [Side -> SUBSET Packet]
  <2>1. taken \in [Side -> SUBSET Packet] /\ refused \in [Side -> SUBSET Packet]
    BY Zenon DEF HandInv, Types
  <2>2. [taken EXCEPT ![s] = @ \cup {n}] \in [Side -> SUBSET Packet]
    BY Zenon, <2>1
  <2>3. [refused EXCEPT ![s] = @ \cup {n}] \in [Side -> SUBSET Packet]
    BY Zenon, <2>1
  <2> QED
    BY ONLY Zenon, <1>3, <2>1, <2>2, <2>3
<1> QED
  BY Zenon, <1>3, <1>5, <1>6, <1>7, <1>8, OrderStands DEF HandInv, Types, Busy

-----------------------------------------------------------------------------
(* The threads that send features.                                         *)

LEMMA Next1Is ==
  ASSUME NEW th \in Sender, th.todo # <<>>
  PROVE  /\ Head(th.todo) \in Packet /\ Next1(th) \in Sender /\ Next1(th).todo = Tail(th.todo)
         /\ Next1(th).at \in {"idle", "take"} <=> Next1(th).todo = <<>>
         /\ Next1(th).at # "take"
<1>1. th.todo \in Seq(Packet)
  BY Zenon DEF Sender
<1>2. Head(th.todo) \in Packet /\ Tail(th.todo) \in Seq(Packet) /\ Len(Tail(th.todo)) = Len(th.todo) - 1
  BY <1>1
<1>3. CASE Len(th.todo) = 1
  <2>1. Tail(th.todo) = <<>>
    BY Zenon, <1>1, <1>3, TailIs
  <2>2. <<>> \in Seq(Packet)
    OBVIOUS
  <2> QED
    BY Zenon, <1>2, <1>3, <2>1, <2>2 DEF Next1, Idle, Sender
<1>4. CASE Len(th.todo) # 1
  <2> DEFINE r == Tail(th.todo)
  <2>1. r # <<>>
    BY Zenon, <1>1, <1>4, TailIs
  <2>2. Next1(th) = [at |-> "send", ready |-> th.ready, todo |-> r]
    BY ZenonT(40), <1>4 DEF Next1, Sender
  <2>3. r \in Seq(Packet) /\ th.ready \in BOOLEAN
    BY Zenon, <1>2 DEF Sender
  <2> HIDE DEF r
  <2>4. Next1(th) \in Sender
    BY <2>2, <2>3 DEF Sender
  <2>5. Next1(th).todo = r /\ Next1(th).at = "send"
    BY <2>2
  <2> QED
    BY Zenon, <1>2, <2>1, <2>4, <2>5 DEF r
<1> QED
  BY Zenon, <1>3, <1>4

\* One thread of s goes on, to x.
Moves(s, t, x) ==
  /\ sender' = [sender EXCEPT ![s][t] = x]
  /\ x.at \in {"idle", "take"} <=> x.todo = <<>>
  /\ UNCHANGED <<hand, phase, open, signal, event, control, taken, refused>>

LEMMA MovesKeeps ==
  ASSUME HandInv, NEW s \in Side, NEW t \in Thread, NEW x \in Sender, Moves(s, t, x)
  PROVE  /\ sender' \in [Side -> [Thread -> Sender]] /\ Busy' /\ OneOffer' /\ Ordered'
         /\ sender'[s][t] = x
         /\ \A u \in Side, v \in Thread : <<u, v>> # <<s, t>> => sender'[u][v] = sender[u][v]
<1>1. /\ sender' \in [Side -> [Thread -> Sender]] /\ sender'[s][t] = x
      /\ \A u \in Side, v \in Thread : <<u, v>> # <<s, t>> => sender'[u][v] = sender[u][v]
  BY ZenonT(40), SenderSet DEF HandInv, Moves
<1>2. Busy'
  BY <1>1 DEF HandInv, Busy, Moves
<1>3. \A u \in Side : MessagesKept(u)
  BY Zenon, NoNewMessage DEF HandInv, Ordered, Moves
<1>4. OneOffer' /\ Ordered'
  BY Zenon, <1>3, OfferKept, OrderStands DEF HandInv, Moves
<1> QED
  BY Zenon, <1>1, <1>2, <1>4

LEMMA NewFeatureMoves ==
  ASSUME HandInv, NEW s \in Side, NewFeature(s)
  PROVE  LET x == [at |-> "snapshot", ready |-> FALSE, todo |-> <<made[s] + 1>>] IN
         /\ x \in Sender /\ Moves(s, "user", x) /\ "user" \in Thread
         /\ sender[s]["user"].at = "idle" /\ made[s] + 1 \in Packet
         /\ made' = [made EXCEPT ![s] = @ + 1] /\ UNCHANGED <<feature, pending, lost>>
<1>1. made[s] + 1 \in Packet
  BY HandoverAssumption DEF HandInv, Types, NewFeature, Packet
<1>2. <<made[s] + 1>> \in Seq(Packet) /\ <<made[s] + 1>> # <<>>
  BY SMTT(20), <1>1
<1> QED
  BY Zenon, <1>1, <1>2 DEF NewFeature, Moves, Sender, Thread, peer, wire

\* What becomes of the features of a thread that goes on from th to x: they
\* stay with it, or the first is sent, given up, or queued.
Effect(s, th, x) ==
  \/ x.todo = th.todo /\ UNCHANGED <<feature, pending, lost>>
  \/ /\ x.todo = Tail(th.todo)
     /\ \/ /\ feature' = [feature EXCEPT ![Peer(s)] = Append(@, Head(th.todo))]
           /\ UNCHANGED <<pending, lost>>
        \/ /\ lost' = [lost EXCEPT ![s] = @ \cup {Head(th.todo)}]
           /\ UNCHANGED <<pending, feature>>
        \/ /\ ~Ready(s) /\ UNCHANGED feature
           /\ pending' = [pending EXCEPT ![s] = Append(Kept(s), Head(th.todo))]
           /\ lost' = IF Full(s) THEN [lost EXCEPT ![s] = @ \cup {Head(pending[s])}] ELSE lost

Goes(s, t) ==
  /\ sender[s][t] \in Sender /\ sender[s][t].todo # <<>> /\ sender[s][t].at # "take"
  /\ UNCHANGED made
  /\ \E x \in Sender : Moves(s, t, x) /\ x.at # "take" /\ Effect(s, sender[s][t], x)

LEMMA ThreadIs ==
  ASSUME HandInv, NEW s \in Side, NEW t \in Thread, sender[s][t].at \in {"snapshot", "send", "fresh"}
  PROVE  sender[s][t] \in Sender /\ sender[s][t].todo # <<>> /\ sender[s][t].at # "take"
BY Zenon DEF HandInv, Types, Busy

LEMMA SnapshotGoes ==
  ASSUME HandInv, NEW s \in Side, NEW t \in Thread, Snapshot(s, t)
  PROVE  Goes(s, t)
<1> DEFINE th == sender[s][t]
           x == [at |-> "send", ready |-> Ready(s), todo |-> th.todo]
<1>1. th \in Sender /\ th.todo # <<>> /\ th.at # "take"
  BY Zenon, ThreadIs DEF Snapshot
<1>2. Ready(s) \in BOOLEAN
  BY Zenon DEF Ready, Up, features_ready
<1>3. x \in Sender
  BY Zenon, <1>1, <1>2 DEF Sender
<1>4. [th EXCEPT !.at = "send", !.ready = Ready(s)] = x
  <2> HIDE DEF th
  <2>1. th = [at |-> th.at, ready |-> th.ready, todo |-> th.todo]
    BY Zenon, <1>1 DEF Sender
  <2> DEFINE y == [at |-> "send", ready |-> th.ready, todo |-> th.todo]
  <2>2. [th EXCEPT !.at = "send"] = y
    BY <2>1
  <2>3. [y EXCEPT !.ready = Ready(s)] = x
    OBVIOUS
  <2>4. [th EXCEPT !.at = "send", !.ready = Ready(s)] = [[th EXCEPT !.at = "send"] EXCEPT !.ready = Ready(s)]
    BY Zenon
  <2> QED
    BY Zenon, <2>2, <2>3, <2>4
<1>5. sender' = [sender EXCEPT ![s][t] = x]
  <2>1. sender' = [sender EXCEPT ![s][t] = [th EXCEPT !.at = "send", !.ready = Ready(s)]]
    BY Zenon DEF Snapshot, HandInv, Types
  <2> QED
    BY Zenon, <1>4, <2>1
<1>6. Moves(s, t, x)
  BY Zenon, <1>1, <1>5 DEF Moves, Snapshot, peer, wire
<1>7. x.at # "take" /\ Effect(s, th, x)
  BY Zenon DEF Effect, Snapshot, wire
<1> QED
  BY Zenon, <1>1, <1>3, <1>6, <1>7 DEF Goes, Snapshot

\* The thread is done with its first feature.
LEMMA NextGoes ==
  ASSUME HandInv, NEW s \in Side, NEW t \in Thread, sender[s][t].at \in {"send", "fresh"},
         sender' = [sender EXCEPT ![s][t] = Next1(@)],
         UNCHANGED <<hand, phase, open, signal, event, control, taken, refused, made>>,
         \/ /\ feature' = [feature EXCEPT ![Peer(s)] = Append(@, Head(sender[s][t].todo))]
            /\ UNCHANGED <<pending, lost>>
         \/ /\ lost' = [lost EXCEPT ![s] = @ \cup {Head(sender[s][t].todo)}]
            /\ UNCHANGED <<pending, feature>>
         \/ /\ ~Ready(s) /\ UNCHANGED feature
            /\ pending' = [pending EXCEPT ![s] = Append(Kept(s), Head(sender[s][t].todo))]
            /\ lost' = IF Full(s) THEN [lost EXCEPT ![s] = @ \cup {Head(pending[s])}] ELSE lost
  PROVE  Goes(s, t)
<1> DEFINE th == sender[s][t]
<1>1. th \in Sender /\ th.todo # <<>> /\ th.at # "take"
  BY Zenon, ThreadIs
<1>2. /\ Next1(th) \in Sender /\ Next1(th).todo = Tail(th.todo) /\ Next1(th).at # "take"
      /\ Next1(th).at \in {"idle", "take"} <=> Next1(th).todo = <<>>
  BY Zenon, <1>1, Next1Is
<1>3. sender' = [sender EXCEPT ![s][t] = Next1(th)]
  BY Zenon DEF HandInv, Types
<1>4. Moves(s, t, Next1(th))
  BY Zenon, <1>2, <1>3 DEF Moves
<1>5. Effect(s, th, Next1(th))
  BY Zenon, <1>2 DEF Effect
<1> QED
  BY Zenon, <1>1, <1>2, <1>4, <1>5 DEF Goes

LEMMA TransmitGoes ==
  ASSUME HandInv, NEW s \in Side, NEW t \in Thread, sender[s][t].at \in {"send", "fresh"}, Transmit(s, t)
  PROVE  Goes(s, t)
<1>1. /\ sender' = [sender EXCEPT ![s][t] = Next1(@)]
      /\ UNCHANGED <<hand, phase, open, signal, event, control, taken, refused, made>>
  BY Zenon DEF Transmit, peer
<1>2. \/ /\ feature' = [feature EXCEPT ![Peer(s)] = Append(@, Head(sender[s][t].todo))]
         /\ UNCHANGED <<pending, lost>>
      \/ /\ lost' = [lost EXCEPT ![s] = @ \cup {Head(sender[s][t].todo)}]
         /\ UNCHANGED <<pending, feature>>
  BY Zenon DEF Transmit
<1> QED
  BY Zenon, <1>1, <1>2, NextGoes

LEMMA QueueGoes ==
  ASSUME HandInv, NEW s \in Side, NEW t \in Thread, Queue(s, t)
  PROVE  Goes(s, t)
<1> DEFINE th == sender[s][t]
<1>1. th \in Sender /\ th.todo # <<>> /\ th.at = "send"
  BY Zenon, ThreadIs DEF Queue
<1>2. CASE Overtaken(s)
  <2> DEFINE x == [th EXCEPT !.at = "fresh"]
  <2>1. x \in Sender /\ x.at = "fresh" /\ x.todo = th.todo
    BY Zenon, <1>1 DEF Sender
  <2>2. sender' = [sender EXCEPT ![s][t] = x]
    BY Zenon, <1>2 DEF Queue, HandInv, Types
  <2> HIDE DEF x
  <2>3. Moves(s, t, x) /\ Effect(s, th, x)
    BY Zenon, <1>1, <1>2, <2>1, <2>2 DEF Queue, Moves, Effect, peer, wire
  <2> QED
    BY Zenon, <1>1, <2>1, <2>3 DEF Goes, Queue
<1>3. CASE ~Overtaken(s)
  <2>1. /\ sender' = [sender EXCEPT ![s][t] = Next1(@)]
        /\ UNCHANGED <<hand, phase, open, signal, event, control, taken, refused, made, feature>>
        /\ ~Ready(s)
        /\ pending' = [pending EXCEPT ![s] = Append(Kept(s), Head(sender[s][t].todo))]
        /\ lost' = IF Full(s) THEN [lost EXCEPT ![s] = @ \cup {Head(pending[s])}] ELSE lost
    BY Zenon, <1>3 DEF Queue, Overtaken, peer, wire
  <2> QED
    BY ZenonT(40), <1>1, <2>1, NextGoes
<1> QED
  BY Zenon, <1>2, <1>3

LEMMA SendFreshGoes ==
  ASSUME HandInv, NEW s \in Side, NEW t \in Thread, SendFresh(s, t)
  PROVE  Goes(s, t)
<1>1. CASE Ready(s)
  BY Zenon, <1>1, TransmitGoes DEF SendFresh
<1>2. CASE ~Ready(s)
  <2>1. /\ sender' = [sender EXCEPT ![s][t] = Next1(@)]
        /\ UNCHANGED <<hand, phase, open, signal, event, control, taken, refused, made, feature, pending>>
        /\ lost' = [lost EXCEPT ![s] = @ \cup {Head(sender[s][t].todo)}]
        /\ sender[s][t].at = "fresh"
    BY Zenon, <1>2 DEF SendFresh, peer, wire
  <2> QED
    BY Zenon, <2>1, NextGoes
<1> QED
  BY Zenon, <1>1, <1>2

LEMMA SendGoes ==
  ASSUME HandInv, NEW s \in Side, SendStep(s)
  PROVE  TakePending(s) \/ \E t \in Thread : Goes(s, t)
BY Zenon, SnapshotGoes, TransmitGoes, QueueGoes, SendFreshGoes DEF SendStep, SendDirect

LEMMA KeptIs ==
  ASSUME Types, NEW s \in Side
  PROVE  /\ pending[s] \in Seq(Packet) /\ Kept(s) \in Seq(Packet)
         /\ Full(s) => pending[s] # <<>> /\ Head(pending[s]) \in Packet /\ Kept(s) = Tail(pending[s])
         /\ ~Full(s) => Kept(s) = pending[s]
<1>1. pending[s] \in Seq(Packet)
  BY SMTT(20) DEF Types
<1>2. Full(s) => pending[s] # <<>>
  BY SMTT(20), <1>1, HandoverAssumption DEF Full
<1> QED
  BY <1>1, <1>2 DEF Kept

LEMMA GoesStep ==
  ASSUME HandInv, NEW s \in Side, NEW t \in Thread, Goes(s, t)
  PROVE  HandInv'
<1> DEFINE th == sender[s][t]
           n == Head(th.todo)
<1>1. PICK x \in Sender : Moves(s, t, x) /\ Effect(s, th, x)
  BY Zenon DEF Goes
<1>2. sender' \in [Side -> [Thread -> Sender]] /\ Busy' /\ OneOffer' /\ Ordered'
  BY Zenon, <1>1, MovesKeeps
<1>3. n \in Packet /\ Peer(s) \in Side
  BY Zenon, Next1Is, Sides DEF Goes
<1>4. pending' \in [Side -> Seq(Packet)]
  <2>1. Append(Kept(s), n) \in Seq(Packet)
    BY <1>3, KeptIs DEF HandInv
  <2> QED
    BY Zenon, <1>1, <2>1 DEF Effect, HandInv, Types
<1>5. feature' \in [Side -> Seq(Packet)]
  <2>1. Append(feature[Peer(s)], n) \in Seq(Packet)
    BY <1>3 DEF HandInv, Types
  <2> QED
    BY ZenonT(40), <1>1, <2>1 DEF Effect, HandInv, Types
<1>6. lost' \in [Side -> SUBSET Packet]
  <2>1. Full(s) => Head(pending[s]) \in Packet
    BY Zenon, KeptIs DEF HandInv
  <2>2. lost \in [Side -> SUBSET Packet]
    BY SMTT(20) DEF HandInv, Types
  <2>3. \/ lost' = lost \/ lost' = [lost EXCEPT ![s] = @ \cup {n}]
        \/ Full(s) /\ lost' = [lost EXCEPT ![s] = @ \cup {Head(pending[s])}]
    BY Zenon, <1>1 DEF Effect
  <2>4. CASE lost' = lost
    BY Zenon, <2>2, <2>4
  <2>5. CASE lost' = [lost EXCEPT ![s] = @ \cup {n}]
    BY Zenon, <1>3, <2>2, <2>5
  <2>6. CASE Full(s) /\ lost' = [lost EXCEPT ![s] = @ \cup {Head(pending[s])}]
    BY Zenon, <2>1, <2>2, <2>6
  <2> QED
    BY Zenon, <2>3, <2>4, <2>5, <2>6
<1> QED
  BY Zenon, <1>1, <1>2, <1>4, <1>5, <1>6 DEF HandInv, Types, Moves, Goes

LEMMA NewFeatureStep ==
  ASSUME HandInv, NEW s \in Side, NewFeature(s)
  PROVE  HandInv'
<1> DEFINE x == [at |-> "snapshot", ready |-> FALSE, todo |-> <<made[s] + 1>>]
<1>1. /\ x \in Sender /\ Moves(s, "user", x) /\ "user" \in Thread /\ made[s] + 1 \in Packet
      /\ made' = [made EXCEPT ![s] = @ + 1] /\ UNCHANGED <<feature, pending, lost>>
  BY Zenon, NewFeatureMoves
<1> HIDE DEF x
<1>2. sender' \in [Side -> [Thread -> Sender]] /\ Busy' /\ OneOffer' /\ Ordered'
  BY Zenon, <1>1, MovesKeeps
<1>3. made' \in [Side -> 0 .. MaxPackets]
  BY SMTT(20), <1>1, HandoverAssumption DEF HandInv, Types, Packet
<1> QED
  BY Zenon, <1>1, <1>2, <1>3 DEF HandInv, Types, Moves

\* The worker takes what is queued; the oldest k are given up.
Taking(s, k, x) ==
  /\ k \in 0 .. Len(pending[s]) /\ x \in Sender /\ Moves(s, "worker", x)
  /\ sender[s]["worker"].todo = <<>> /\ sender[s]["worker"].at = "take" /\ x.at # "take"
  /\ x.todo = SubSeq(pending[s], k + 1, Len(pending[s]))
  /\ lost' = [lost EXCEPT ![s] = @ \cup ToSet(SubSeq(pending[s], 1, k))]
  /\ pending' = [pending EXCEPT ![s] = <<>>]
  /\ UNCHANGED <<feature, made>>

LEMMA TakePendingTakes ==
  ASSUME HandInv, NEW s \in Side, TakePending(s)
  PROVE  \E k, x : Taking(s, k, x)
<1> DEFINE q == pending[s]
<1>1. q \in Seq(Packet) /\ Len(q) \in Nat
  BY DEF HandInv, Types
<1>2. PICK k \in 0 .. Len(q) :
        /\ sender' = [sender EXCEPT ![s]["worker"] =
                        IF k = Len(q) THEN Idle
                        ELSE [at |-> "snapshot", ready |-> FALSE, todo |-> SubSeq(q, k + 1, Len(q))]]
        /\ lost' = [lost EXCEPT ![s] = @ \cup ToSet(SubSeq(q, 1, k))]
  BY Zenon DEF TakePending
<1> DEFINE r == SubSeq(q, k + 1, Len(q))
           x == IF k = Len(q) THEN Idle ELSE [at |-> "snapshot", ready |-> FALSE, todo |-> r]
<1>3. r \in Seq(Packet) /\ (k = Len(q) <=> r = <<>>)
  <2>1. \A i \in k + 1 .. Len(q) : q[i] \in Packet
    BY <1>1
  <2>2. r \in Seq(Packet) /\ Len(r) = Len(q) - k
    BY <1>1, <1>2
  <2>3. r = <<>> <=> Len(r) = 0
    <3> HIDE DEF r
    <3> QED
      BY <2>2
  <2> QED
    BY <1>1, <1>2, <2>2, <2>3
<1> HIDE DEF r
<1>4. x \in Sender /\ x.todo = r /\ x.at # "take" /\ (x.at \in {"idle", "take"} <=> x.todo = <<>>)
  BY Zenon, <1>3 DEF Idle, Sender
<1>5. sender' = [sender EXCEPT ![s]["worker"] = x]
  BY Zenon, <1>2 DEF r
<1>6. sender[s]["worker"].at = "take" /\ sender[s]["worker"].todo = <<>>
  BY Zenon DEF TakePending, HandInv, Busy, Thread
<1> HIDE DEF x
<1>7. Moves(s, "worker", x)
  BY ZenonT(40), <1>4, <1>5 DEF Moves, TakePending, peer, wire
<1>8. pending' = [pending EXCEPT ![s] = <<>>] /\ UNCHANGED <<feature, made>>
  BY SMTT(20) DEF TakePending, LeftPending, wire
<1> QED
  BY Zenon, <1>2, <1>4, <1>6, <1>7, <1>8 DEF Taking, r

LEMMA TakePendingStep ==
  ASSUME HandInv, NEW s \in Side, TakePending(s)
  PROVE  HandInv'
<1>1. PICK k, x : Taking(s, k, x)
  BY Zenon, TakePendingTakes
<1>2. /\ sender' \in [Side -> [Thread -> Sender]] /\ Busy' /\ OneOffer' /\ Ordered'
  BY ZenonT(40), <1>1, MovesKeeps DEF Taking, Thread
<1>3. lost' \in [Side -> SUBSET Packet]
  <2>1. ToSet(SubSeq(pending[s], 1, k)) \subseteq Packet
    <3> DEFINE q == SubSeq(pending[s], 1, k)
    <3>1. pending[s] \in Seq(Packet) /\ k \in 0 .. Len(pending[s])
      BY Zenon, <1>1 DEF Taking, HandInv, Types
    <3>2. q \in Seq(Packet)
      BY <3>1
    <3> HIDE DEF q
    <3>3. \A i \in DOMAIN q : q[i] \in Packet
      BY <3>2
    <3> QED
      BY Zenon, <3>3 DEF ToSet, q
  <2> QED
    BY ZenonT(40), <1>1, <2>1 DEF Taking, HandInv, Types
<1>4. pending' \in [Side -> Seq(Packet)]
  <2>1. pending' = [pending EXCEPT ![s] = <<>>] /\ <<>> \in Seq(Packet)
    BY <1>1 DEF Taking
  <2> QED
    BY Zenon, <2>1 DEF HandInv, Types
<1> QED
  BY ZenonT(40), <1>1, <1>2, <1>3, <1>4 DEF Taking, HandInv, Types, Moves

-----------------------------------------------------------------------------
(* Every step is one of these.                                             *)
Step(s) ==
  \/ Advances(s) \/ Feature(s) \/ (Up(s) /\ Drop(s))
  \/ (\E c \in Required : ChannelOpens(s, c)) \/ ControlArrives(s) \/ FeatureArrives(s)
  \/ TakePending(s) \/ (\E t \in Thread : Goes(s, t)) \/ NewFeature(s)
  \/ (\E kind \in {"degraded", "close"} : Break(s, kind))

LEMMA Steps ==
  ASSUME HandInv, Next
  PROVE  TakeOffer \/ TakeAnswer \/ \E s \in Side : Step(s)
<1> SUFFICES ASSUME NEW s \in Side,
                    \/ Handle(s) \/ Arrive(s) \/ SendStep(s) \/ NewFeature(s)
                    \/ NegotiationTimeout(s) \/ PeerGone(s) \/ Tear(s)
                    \/ \E kind \in {"degraded", "close"} : Break(s, kind)
             PROVE  Step(s)
  BY SMTT(20) DEF Next
<1>1. CASE Handle(s)
  <2>1. Advances(s) \/ Close(s) \/ Feature(s)
    BY Zenon, <1>1, HandleAdvances DEF HandInv
  <2> QED
    BY Zenon, <2>1 DEF Step, Close, AtRest
<1>2. CASE Arrive(s)
  BY Zenon, <1>2 DEF Arrive, Step
<1>3. CASE SendStep(s)
  BY Zenon, <1>3, SendGoes DEF Step
<1>4. CASE NegotiationTimeout(s) \/ PeerGone(s) \/ Tear(s)
  BY Zenon, <1>4 DEF NegotiationTimeout, PeerGone, Tear, AtRest, Step
<1> QED
  BY Zenon, <1>1, <1>2, <1>3, <1>4 DEF Step

LEMMA HandStart == Init => HandInv
<1> SUFFICES ASSUME Init PROVE HandInv
  BY Zenon
<1>1. Fresh \in Flags /\ ~Fresh.lcaps /\ ~Fresh.rready /\ ~Fresh.rcaps
  BY Zenon DEF Fresh, Flags
<1>2. Idle \in Sender /\ Idle.at = "idle" /\ Idle.todo = <<>>
  <2>1. <<>> \in Seq(Packet)
    OBVIOUS
  <2> QED
    BY Zenon, <2>1 DEF Idle, Sender
<1>3. <<>> \in Seq(Event) /\ <<<<"described", "offer">>>> \in Seq(Event)
  <2>1. <<"described", "offer">> \in Event
    BY Zenon DEF Event
  <2> QED
    BY <2>1
<1>4. Types /\ Busy
  <2>1. event \in [Side -> Seq(Event)]
    BY Zenon, <1>3 DEF Init
  <2>2. hand \in [Side -> Flags] /\ sender \in [Side -> [Thread -> Sender]]
    BY Zenon, <1>1, <1>2 DEF Init
  <2>3. made \in [Side -> 0 .. MaxPackets]
    BY SMTT(20), HandoverAssumption DEF Init
  <2>4. Busy
    BY Zenon, <1>2 DEF Init, Busy
  <2> QED
    BY SMTT(20), <2>1, <2>2, <2>3, <2>4 DEF Init, Types
<1>5. OneOffer
  <2>1. signal[Responder] = <<>> /\ phase[Responder] = "none"
        /\ event[Initiator] = <<<<"described", "offer">>>>
    BY Zenon, Two DEF Init
  <2>2. Len(event[Initiator]) = 1
    BY SMTT(20), <2>1
  <2> QED
    BY <2>1, <2>2 DEF OneOffer
<1>6. ASSUME NEW s \in Side PROVE OrderedAt(s)
  <2>1. hand[s] = Fresh /\ control[s] = <<>>
    BY Zenon DEF Init
  <2>2. event[s] = <<>> \/ event[s] = <<<<"described", "offer">>>>
    BY Zenon DEF Init
  <2>3. \A k : ~Has(event[s], <<"control", k>>) /\ Once(event[s], <<"control", k>>)
    <3>1. ASSUME NEW k PROVE <<"described", "offer">> # <<"control", k>>
      BY Zenon
    <3> SUFFICES ASSUME NEW k
                 PROVE  ~Has(event[s], <<"control", k>>) /\ Once(event[s], <<"control", k>>)
      BY Zenon
    <3> DEFINE x == <<"control", k>>
               e == <<"described", "offer">>
    <3>2. e # x
      BY Zenon, <3>1
    <3> HIDE DEF x, e
    <3>3. ~Has(<<e>>, x) /\ Once(<<e>>, x) /\ ~Has(<<>>, x) /\ Once(<<>>, x)
      BY Zenon, <3>2, HasEmpty, HasOne
    <3> QED
      BY Zenon, <2>2, <3>3 DEF x, e
  <2>4. \A k : ~Has(control[s], k) /\ Once(control[s], k)
    BY Zenon, <2>1, HasEmpty
  <2> QED
    BY Zenon, <1>1, <2>1, <2>3, <2>4 DEF OrderedAt, InFlight
<1> QED
  BY Zenon, <1>4, <1>5, <1>6 DEF HandInv, Ordered

LEMMA HandStep ==
  ASSUME HandInv, [Next]_vars
  PROVE  HandInv'
<1>1. CASE UNCHANGED vars
  <2>1. UNCHANGED <<hand, phase, open, signal, event, control, feature, pending, sender, made,
                    taken, refused, lost>>
    BY Zenon, <1>1 DEF vars, peer, wire, user
  <2>2. \A s \in Side : MessagesKept(s)
    BY Zenon, <2>1, NoNewMessage DEF HandInv, Ordered
  <2> QED
    BY ZenonT(40), <2>1, <2>2, OrderStands, OfferKept DEF HandInv, Types, Busy
<1>2. ASSUME NEW s \in Side, Step(s) PROVE HandInv'
  BY Zenon, <1>2, AdvanceStep, FeatureStep, DropStep, ChannelOpensStep, ControlArrivesStep,
     FeatureArrivesStep, TakePendingStep, GoesStep, NewFeatureStep, BreakStep DEF Step
<1> QED
  BY Zenon, <1>1, <1>2, Steps, TakeOfferStep, TakeAnswerStep

(* A side that is ready has a peer that has proved itself, confirmed both  *)
(* profiles and said feature-ready: HandoverRuntime's order of steps holds *)
(* between the sides whatever crosses on the wire.                         *)
THEOREM MutualCorrect == Spec => []ReadyIsMutual
<1>1. HandInv => ReadyIsMutual
  <2> SUFFICES ASSUME HandInv, NEW s \in Side, Ready(s), Up(Peer(s))
               PROVE  Complete(hand[Peer(s)])
    BY SMTT(20) DEF ReadyIsMutual, Complete
  <2>1. SaidReady(Peer(s))
    BY Zenon DEF HandInv, Ordered, OrderedAt, Ready, features_ready
  <2> QED
    BY ZenonT(40), <2>1 DEF SaidReady, Up
<1> QED
  BY <1>1, HandStart, HandStep, PTL DEF Spec

=============================================================================
