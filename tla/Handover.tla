------------------------------ MODULE Handover ------------------------------
(***************************************************************************)
(* One attempt to move two paired devices from the bootstrap link to       *)
(* WebRTC: the descriptions exchanged over the link (coordinator.rs,       *)
(* handle_signaling_packet), the handshake on the control channel          *)
(* (handle_peer_envelope with HandoverRuntime of handover.rs), the worker  *)
(* that serves a peer's events (spawn_event_worker), and the features that *)
(* wait for it (FeatureTransport::send, queue_feature,                     *)
(* flush_pending_features).                                                *)
(*                                                                         *)
(* Both ends run the mirrored protocol.  A worker handles one event at a   *)
(* time and nothing else advances its handover, so a handler is one step   *)
(* up to the point where it makes the session ready; from there on user    *)
(* threads see it, and the flush is taken lock by lock.                    *)
(***************************************************************************)
EXTENDS Naturals, Sequences

CONSTANTS
  Users,        \* the sides whose user sends features
  MaxPackets,   \* bound on the features a user sends
  PendingLimit, \* PENDING_FEATURE_LIMIT
  Breakers,     \* the sides that may say degraded or close, once
  MayTear       \* another thread may drop a side's attempt

Initiator == "initiator"
Responder == "responder"
Side == {Initiator, Responder}
Peer(s) == CHOOSE p \in Side : p # s

ASSUME HandoverAssumption ==
  /\ Users \subseteq Side /\ Breakers \subseteq Side /\ MayTear \in BOOLEAN
  /\ MaxPackets \in Nat /\ PendingLimit \in Nat \ {0}

(* The channels of WebRtcChannel::REQUIRED; features ride on events.       *)
Required == {"control", "events", "liveness"}
Kinds == {"hello", "challenge", "response", "authenticated", "capabilities",
          "feature-ready", "degraded", "close"}

VARIABLES
  hand,     \* HandoverRuntime of each side
  phase,    \* whether the session of each side holds this attempt and its peer
  ever,     \* ever_ready of each worker
  open,     \* channels open at each side
  signal,   \* descriptions on their way to each side, over the link
  event,    \* PeerEvents the worker has not taken
  control,  \* control messages on their way to each side
  feature,  \* features on their way to each side
  pending,  \* pending_features of each session
  sender,   \* the threads that send features: the user's and the worker's flush
  made,     \* features each user has sent so far
  taken,    \* features dispatched at each side
  refused,  \* features authorize turned away at each side
  lost,     \* features of each side evicted, outdated or not sent
  broke     \* sides that have said degraded or close

peer == <<hand, phase, ever>>
wire == <<open, signal, event, control, feature>>
user == <<pending, sender, made, taken, refused, lost>>
vars == <<peer, wire, user, broke>>

Thread == {"user", "worker"}

(* HandoverRuntime::new: two descriptions, two nonces, and each step as    *)
(* done here (l) and as heard of the peer (r).  The enum state is what     *)
(* refresh_state derives from the flags, unless fail was called.           *)
Fresh == [offer |-> FALSE, answer |-> FALSE, lnonce |-> FALSE, rnonce |-> FALSE,
          lauth |-> FALSE, rauth |-> FALSE, lcaps |-> FALSE, rcaps |-> FALSE,
          lready |-> FALSE, rready |-> FALSE, failed |-> FALSE]

Negotiated(h)     == ~h.failed /\ h.offer /\ h.answer
Authenticated(h)  == Negotiated(h) /\ h.lauth /\ h.rauth
CapsConfirmed(h)  == h.lcaps /\ h.rcaps
features_ready(h) == h.lready /\ h.rready /\ ~h.failed

Up(s) == phase[s] = "up"
Ready(s) == Up(s) /\ features_ready(hand[s])

(* A feature is known by its sender's count of it.                         *)
Packet == 1 .. MaxPackets
Event == ({"described"} \X {"offer", "answer"}) \cup ({"opened"} \X Required)
         \cup ({"control"} \X Kinds) \cup ({"feature"} \X Packet)
Idle == [at |-> "idle", ready |-> FALSE, todo |-> <<>>]

(* Types, and the queue within its limit.                                  *)
TypeOK ==
  /\ hand \in [Side -> [DOMAIN Fresh -> BOOLEAN]]
  /\ phase \in [Side -> {"none", "up", "dropped"}] /\ ever \in [Side -> BOOLEAN]
  /\ open \in [Side -> SUBSET Required]
  /\ signal \in [Side -> Seq({"offer", "answer"})]
  /\ event \in [Side -> Seq(Event)]
  /\ control \in [Side -> Seq(Kinds)] /\ feature \in [Side -> Seq(Packet)]
  /\ pending \in [Side -> Seq(Packet)] /\ \A s \in Side : Len(pending[s]) <= PendingLimit
  /\ sender \in [Side -> [Thread -> [at : {"idle", "take", "snapshot", "send", "fresh"},
                                     ready : BOOLEAN, todo : Seq(Packet)]]]
  /\ made \in [Side -> 0 .. MaxPackets]
  /\ taken \in [Side -> SUBSET Packet] /\ refused \in [Side -> SUBSET Packet]
  /\ lost \in [Side -> SUBSET Packet]
  /\ broke \subseteq Side

Init ==
  /\ hand = [s \in Side |-> Fresh]
  /\ phase = [s \in Side |-> IF s = Initiator THEN "up" ELSE "none"]
  /\ ever = [s \in Side |-> FALSE]
  /\ open = [s \in Side |-> {}]
  /\ signal = [s \in Side |-> <<>>]
  /\ event = [s \in Side |-> IF s = Initiator THEN <<<<"described", "offer">>>> ELSE <<>>]
  /\ control = [s \in Side |-> <<>>] /\ feature = [s \in Side |-> <<>>]
  /\ pending = [s \in Side |-> <<>>]
  /\ sender = [s \in Side |-> [t \in Thread |-> Idle]]
  /\ made = [s \in Side |-> 0]
  /\ taken = [s \in Side |-> {}] /\ refused = [s \in Side |-> {}] /\ lost = [s \in Side |-> {}]
  /\ broke = {}

-----------------------------------------------------------------------------
(* Signaling: handle_signaling_packet, on the reader of the link.          *)

(* An offer installs the responder's peer, is recorded, and makes the peer *)
(* describe its answer.  The responder's peer is installed once: the       *)
(* initiator sends one offer for an attempt.                               *)
TakeOffer ==
  /\ signal[Responder] # <<>>
  /\ signal' = [signal EXCEPT ![Responder] = Tail(@)]
  /\ phase' = [phase EXCEPT ![Responder] = "up"]
  /\ hand' = [hand EXCEPT ![Responder] = [Fresh EXCEPT !.offer = TRUE]]
  /\ event' = [event EXCEPT ![Responder] = Append(@, <<"described", "answer">>)]
  /\ UNCHANGED <<ever, open, control, feature, user, broke>>

(* An answer is for the peer of its attempt only, and is recorded before   *)
(* the peer is given it.                                                   *)
TakeAnswer ==
  /\ signal[Initiator] # <<>>
  /\ signal' = [signal EXCEPT ![Initiator] = Tail(@)]
  /\ hand' = IF Up(Initiator) THEN [hand EXCEPT ![Initiator].answer = TRUE] ELSE hand
  /\ UNCHANGED <<phase, ever, open, event, control, feature, user, broke>>

(* The transport: once the answer is applied a channel opens at each side  *)
(* in its own time (install_data_channel reports it), and what the peer    *)
(* sent on it comes in, in order on one channel and in no order between    *)
(* two.  What comes for a closed peer goes nowhere.                        *)
ChannelOpens(s, c) ==
  /\ Up(s) /\ hand[Initiator].answer /\ c \notin open[s]
  /\ open' = [open EXCEPT ![s] = @ \cup {c}]
  /\ event' = [event EXCEPT ![s] = Append(@, <<"opened", c>>)]
  /\ UNCHANGED <<peer, signal, control, feature, user, broke>>

ControlArrives(s) ==
  /\ control[s] # <<>> /\ (Up(s) => "control" \in open[s])
  /\ control' = [control EXCEPT ![s] = Tail(@)]
  /\ event' = IF Up(s) THEN [event EXCEPT ![s] = Append(@, <<"control", Head(control[s])>>)]
              ELSE event
  /\ UNCHANGED <<peer, open, signal, feature, user, broke>>

FeatureArrives(s) ==
  /\ feature[s] # <<>> /\ (Up(s) => "events" \in open[s])
  /\ feature' = [feature EXCEPT ![s] = Tail(@)]
  /\ event' = IF Up(s) THEN [event EXCEPT ![s] = Append(@, <<"feature", Head(feature[s])>>)]
              ELSE event
  /\ lost' = IF Up(s) THEN lost
             ELSE [lost EXCEPT ![Peer(s)] = @ \cup {Head(feature[s])}]
  /\ UNCHANGED <<peer, open, signal, control, pending, sender, made, taken, refused, broke>>

-----------------------------------------------------------------------------
(* The worker: spawn_event_worker takes one event at a time, while the     *)
(* session holds its attempt.                                              *)

(* The next event of s is of this kind and says this.                      *)
Takes(s, kind, what) ==
  /\ Up(s) /\ sender[s]["worker"].at = "idle"
  /\ event[s] # <<>> /\ Head(event[s])[1] = kind /\ Head(event[s])[2] = what
  /\ event' = [event EXCEPT ![s] = Tail(@)]

(* The handover of s becomes h, and msgs are sent on the control channel.  *)
Answers(s, h, msgs) ==
  /\ hand' = [hand EXCEPT ![s] = h]
  /\ control' = [control EXCEPT ![Peer(s)] = @ \o msgs]
  /\ ever' = [ever EXCEPT ![s] = @ \/ features_ready(h)]
  /\ UNCHANGED <<phase, open, feature, pending, made, taken, refused, lost, broke>>

(* ... and the worker goes on to its next event.                           *)
Replies(s, h, msgs) == Answers(s, h, msgs) /\ UNCHANGED <<signal, sender>>

(* ... and, if that made the session ready, to finish_feature_ready.       *)
RepliesAndFinishes(s, h, msgs) ==
  /\ Answers(s, h, msgs)
  /\ sender' = IF features_ready(h) THEN [sender EXCEPT ![s]["worker"].at = "take"] ELSE sender
  /\ UNCHANGED signal

(* A description is recorded and signaled.                                 *)
Described(s, what) ==
  /\ Takes(s, "described", what)
  /\ Answers(s, [hand[s] EXCEPT ![what] = TRUE], <<>>)
  /\ signal' = [signal EXCEPT ![Peer(s)] = Append(@, what)]
  /\ UNCHANGED sender

(* begin_handover: the initiator says hello, with its nonce, once.         *)
ControlOpened(s) ==
  /\ Takes(s, "opened", "control")
  /\ IF s = Initiator /\ ~hand[s].lnonce
     THEN Replies(s, [hand[s] EXCEPT !.lnonce = TRUE], <<"hello">>)
     ELSE Replies(s, hand[s], <<>>)

\* Mutant: a hello that comes before every channel is open is not answered.
HelloUnanswered(s) ==
  /\ Takes(s, "control", "hello")
  /\ IF s = Responder /\ ~hand[s].rnonce /\ ~hand[s].lnonce
     THEN Replies(s, [hand[s] EXCEPT !.rnonce = TRUE, !.lnonce = TRUE],
                  IF Required \subseteq open[s] THEN <<"challenge">> ELSE <<>>)
     ELSE Replies(s, hand[s], <<>>)

(* The responder records both nonces and signs the transcript.             *)
Hello(s) ==
  /\ Takes(s, "control", "hello")
  /\ IF s = Responder /\ ~hand[s].rnonce /\ ~hand[s].lnonce
     THEN Replies(s, [hand[s] EXCEPT !.rnonce = TRUE, !.lnonce = TRUE],
                  IF hand[s].offer /\ hand[s].answer THEN <<"challenge">> ELSE <<>>)
     ELSE Replies(s, hand[s], <<>>)

(* The initiator verifies it, and signs the same transcript.  Nothing is   *)
(* sent when mark_remote_authenticated refuses.                            *)
Challenge(s) ==
  /\ Takes(s, "control", "challenge")
  /\ LET h == [hand[s] EXCEPT !.rnonce = TRUE] IN
     IF s = Initiator /\ hand[s].lnonce /\ ~hand[s].rnonce
     THEN IF Negotiated(h) THEN Replies(s, [h EXCEPT !.rauth = TRUE], <<"response">>)
          ELSE Replies(s, h, <<>>)
     ELSE Replies(s, hand[s], <<>>)

(* send_capabilities, of a side that is authenticated: once.               *)
OwnCaps(h) == IF h.lcaps THEN <<>> ELSE <<"capabilities">>

Response(s) ==
  /\ Takes(s, "control", "response")
  /\ IF s = Responder /\ hand[s].lnonce /\ hand[s].rnonce /\ Negotiated(hand[s])
     THEN Replies(s, [hand[s] EXCEPT !.rauth = TRUE, !.lauth = TRUE, !.lcaps = TRUE],
                  <<"authenticated">> \o OwnCaps(hand[s]))
     ELSE Replies(s, hand[s], <<>>)

Acknowledged(s) ==
  /\ Takes(s, "control", "authenticated")
  /\ IF s = Initiator /\ hand[s].rauth /\ Negotiated(hand[s])
     THEN Replies(s, [hand[s] EXCEPT !.lauth = TRUE, !.lcaps = TRUE], OwnCaps(hand[s]))
     ELSE Replies(s, hand[s], <<>>)

\* Mutant: one side's capabilities are enough.
MaySendReadyEarly(s, h) == h.lcaps /\ ~h.lready /\ Required \subseteq open[s]

(* send_feature_ready_if_possible sends first and marks after: a handover  *)
(* that has failed sends and is not marked.                                *)
MaySendReady(s, h) == CapsConfirmed(h) /\ ~h.lready /\ Required \subseteq open[s]
OwnReady(s, h)     == IF MaySendReady(s, h) THEN <<"feature-ready">> ELSE <<>>
AfterReady(s, h)   == [h EXCEPT !.lready = @ \/ (MaySendReady(s, h) /\ Authenticated(h))]

(* The peer's capabilities; its own go out if they have not.               *)
Capabilities(s) ==
  /\ Takes(s, "control", "capabilities")
  /\ LET h == [hand[s] EXCEPT !.rcaps = TRUE, !.lcaps = TRUE] IN
     IF Authenticated(hand[s])
     THEN Replies(s, AfterReady(s, h), OwnCaps(hand[s]) \o OwnReady(s, h))
     ELSE Replies(s, hand[s], <<>>)

(* The peer is ready: say so too if that is possible, and if both are now, *)
(* the queued features go.                                                 *)
FeatureReady(s) ==
  /\ Takes(s, "control", "feature-ready")
  /\ LET h == [hand[s] EXCEPT !.rready = TRUE] IN
     IF Authenticated(hand[s]) /\ CapsConfirmed(hand[s])
     THEN RepliesAndFinishes(s, AfterReady(s, h), OwnReady(s, h))
     ELSE Replies(s, hand[s], <<>>)

(* A required channel other than control has opened: what waited for it.   *)
RequiredOpened(s, c) ==
  /\ c # "control" /\ Takes(s, "opened", c)
  /\ IF MaySendReady(s, hand[s]) /\ Authenticated(hand[s])
     THEN RepliesAndFinishes(s, AfterReady(s, hand[s]), OwnReady(s, hand[s]))
     ELSE Replies(s, hand[s], OwnReady(s, hand[s]))

Degraded(s) ==
  /\ Takes(s, "control", "degraded")
  /\ Replies(s, [hand[s] EXCEPT !.failed = TRUE], <<>>)

\* The values of a sequence.
ToSet(seq) == {seq[i] : i \in DOMAIN seq}

-----------------------------------------------------------------------------
(* The end of an attempt at one side: clear_webrtc_if_current, which keeps *)
(* the queued features, and peer.close().  Events not handled go with the  *)
(* worker.                                                                 *)
Unhandled(s) == {e[2] : e \in {x \in ToSet(event[s]) : x[1] = "feature"}}

Drop(s) ==
  /\ phase' = [phase EXCEPT ![s] = "dropped"]
  /\ hand' = [hand EXCEPT ![s] = Fresh]
  /\ event' = [event EXCEPT ![s] = <<>>]
  /\ open' = [open EXCEPT ![s] = {}]
  /\ lost' = [lost EXCEPT ![Peer(s)] = @ \cup Unhandled(s)]
  /\ UNCHANGED <<ever, signal, control, feature, pending, sender, made, taken, refused, broke>>

AtRest(s) == Up(s) /\ sender[s]["worker"].at = "idle"

Close(s) ==
  /\ AtRest(s) /\ event[s] # <<>> /\ Head(event[s]) = <<"control", "close">>
  /\ Drop(s)

(* NEGOTIATION_TIMEOUT, of a worker that was never ready; and the peer     *)
(* connection that ends, or falls silent, when the other side has closed.  *)
NegotiationTimeout(s) == AtRest(s) /\ ~ever[s] /\ Drop(s)
PeerGone(s) == AtRest(s) /\ phase[Peer(s)] = "dropped" /\ Drop(s)

(* Another thread takes the attempt away at any moment of the worker: a    *)
(* restart request (restart_as_initiator) or a newer offer.                *)
Tear(s) == MayTear /\ Up(s) /\ Drop(s)

(* A side says that it cannot go on, or that it leaves.                    *)
Break(s, kind) ==
  /\ s \in Breakers \ broke /\ Up(s) /\ "control" \in open[s]
  /\ broke' = broke \cup {s}
  /\ control' = [control EXCEPT ![Peer(s)] = Append(@, kind)]
  /\ UNCHANGED <<peer, open, signal, event, feature, user>>

-----------------------------------------------------------------------------
(* Features: FeatureTransport::send, by a user's thread for one feature    *)
(* and by flush_pending_features for those it has taken.                   *)

NewFeature(s) ==
  /\ s \in Users /\ made[s] < MaxPackets /\ sender[s]["user"].at = "idle"
  /\ made' = [made EXCEPT ![s] = @ + 1]
  /\ sender' = [sender EXCEPT ![s]["user"] =
                  [at |-> "snapshot", ready |-> FALSE, todo |-> <<made[s] + 1>>]]
  /\ UNCHANGED <<peer, wire, pending, taken, refused, lost, broke>>

\* Mutant: the queue is read, not drained.
LeftCopied(s) == pending[s]

(* take_pending_features empties the queue; the first k in it are older    *)
(* than PENDING_FEATURE_MAX_AGE.                                           *)
LeftPending(s) == <<>>
TakePending(s) ==
  /\ sender[s]["worker"].at = "take"
  /\ \E k \in 0 .. Len(pending[s]) :
       /\ sender' = [sender EXCEPT ![s]["worker"] =
                       IF k = Len(pending[s]) THEN Idle
                       ELSE [at |-> "snapshot", ready |-> FALSE,
                             todo |-> SubSeq(pending[s], k + 1, Len(pending[s]))]]
       /\ lost' = [lost EXCEPT ![s] = @ \cup ToSet(SubSeq(pending[s], 1, k))]
  /\ pending' = [pending EXCEPT ![s] = LeftPending(s)]
  /\ UNCHANGED <<peer, wire, made, taken, refused, broke>>

(* for_binding: what the handle says from here on.                         *)
Snapshot(s, t) ==
  /\ sender[s][t].at = "snapshot"
  /\ sender' = [sender EXCEPT ![s][t].at = "send", ![s][t].ready = Ready(s)]
  /\ UNCHANGED <<peer, wire, pending, made, taken, refused, lost, broke>>

(* The thread is done with its first feature.                              *)
Next1(th) == IF Len(th.todo) = 1 THEN Idle
             ELSE [th EXCEPT !.at = "send", !.todo = Tail(@)]

(* send_text on the events channel; a closed peer is an error.             *)
Transmit(s, t) ==
  /\ IF Up(s) /\ "events" \in open[s]
     THEN /\ feature' = [feature EXCEPT ![Peer(s)] = Append(@, Head(sender[s][t].todo))]
          /\ UNCHANGED lost
     ELSE /\ lost' = [lost EXCEPT ![s] = @ \cup {Head(sender[s][t].todo)}]
          /\ UNCHANGED feature
  /\ sender' = [sender EXCEPT ![s][t] = Next1(@)]
  /\ UNCHANGED <<peer, open, signal, event, control, pending, made, taken, refused, broke>>

SendDirect(s, t) == sender[s][t].at = "send" /\ sender[s][t].ready /\ Transmit(s, t)

Full(s) == Len(pending[s]) >= PendingLimit

\* Mutant: queued without a look at the handover.
NeverOvertaken(s) == FALSE
Overtaken(s) == Ready(s)

Kept(s) == IF Full(s) THEN Tail(pending[s]) ELSE pending[s]

(* queue_feature: refused when the handover is ready by now, and otherwise *)
(* the oldest goes to make room.                                           *)
Queue(s, t) ==
  /\ sender[s][t].at = "send" /\ ~sender[s][t].ready
  /\ IF Overtaken(s)
     THEN /\ sender' = [sender EXCEPT ![s][t].at = "fresh"]
          /\ UNCHANGED <<pending, lost>>
     ELSE /\ pending' = [pending EXCEPT ![s] = Append(Kept(s), Head(sender[s][t].todo))]
          /\ lost' = IF Full(s) THEN [lost EXCEPT ![s] = @ \cup {Head(pending[s])}] ELSE lost
          /\ sender' = [sender EXCEPT ![s][t] = Next1(@)]
  /\ UNCHANGED <<peer, wire, made, taken, refused, broke>>

(* ... then it goes on a fresh handle, or not at all.                      *)
SendFresh(s, t) ==
  /\ sender[s][t].at = "fresh"
  /\ IF Ready(s) THEN Transmit(s, t)
     ELSE /\ lost' = [lost EXCEPT ![s] = @ \cup {Head(sender[s][t].todo)}]
          /\ sender' = [sender EXCEPT ![s][t] = Next1(@)]
          /\ UNCHANGED <<peer, wire, pending, made, taken, refused, broke>>

(* SharedPacketDispatcher::authorize: features are for a ready session.    *)
Feature(s) ==
  /\ \E p \in Packet : Takes(s, "feature", p)
  /\ LET p == Head(event[s])[2] IN
     IF Ready(s) THEN taken' = [taken EXCEPT ![s] = @ \cup {p}] /\ UNCHANGED refused
     ELSE refused' = [refused EXCEPT ![s] = @ \cup {p}] /\ UNCHANGED taken
  /\ UNCHANGED <<peer, open, signal, control, feature, pending, sender, made, lost, broke>>

-----------------------------------------------------------------------------
Handle(s) ==
  \/ \E what \in {"offer", "answer"} : Described(s, what)
  \/ ControlOpened(s) \/ \E c \in Required : RequiredOpened(s, c)
  \/ Hello(s) \/ Challenge(s) \/ Response(s) \/ Acknowledged(s)
  \/ Capabilities(s) \/ FeatureReady(s) \/ Degraded(s) \/ Close(s) \/ Feature(s)

Arrive(s) ==
  \/ ControlArrives(s) \/ FeatureArrives(s)
  \/ \E c \in Required : ChannelOpens(s, c)

SendStep(s) ==
  \/ TakePending(s)
  \/ \E t \in Thread : Snapshot(s, t) \/ SendDirect(s, t) \/ Queue(s, t) \/ SendFresh(s, t)

Next ==
  \/ TakeOffer \/ TakeAnswer
  \/ \E s \in Side :
       \/ Handle(s) \/ Arrive(s) \/ SendStep(s) \/ NewFeature(s)
       \/ NegotiationTimeout(s) \/ PeerGone(s) \/ Tear(s)
       \/ \E kind \in {"degraded", "close"} : Break(s, kind)

Spec == Init /\ [][Next]_vars

-----------------------------------------------------------------------------
(* features_ready on one side means that the other has proved itself,      *)
(* confirmed both profiles and said feature-ready, whatever the order in   *)
(* which the channels opened and the messages crossed.                     *)
ReadyIsMutual ==
  \A s \in Side :
    Ready(s) /\ Up(Peer(s)) =>
      LET h == hand[Peer(s)] IN
      h.lauth /\ h.rauth /\ CapsConfirmed(h) /\ (h.lready \/ h.failed)

(* "A packet can never land in the queue after the flush ran": a ready     *)
(* session whose worker is not flushing has nothing queued.                *)
NothingStranded ==
  \A s \in Side : Ready(s) /\ sender[s]["worker"].at = "idle" => pending[s] = <<>>

(* Where feature n of side s is.                                           *)
Indices(seq, x) == {i \in DOMAIN seq : seq[i] = x}

Places(s, n) ==
  LET p == Peer(s)
      th(t) == sender[s][t].todo
  IN ({"queue"} \X Indices(pending[s], n))
     \cup ({"user"} \X Indices(th("user"), n)) \cup ({"worker"} \X Indices(th("worker"), n))
     \cup ({"wire"} \X Indices(feature[p], n)) \cup ({"event"} \X Indices(event[p], <<"feature", n>>))
     \cup ({"taken"} \X ({n} \cap taken[p])) \cup ({"refused"} \X ({n} \cap refused[p]))
     \cup ({"lost"} \X ({n} \cap lost[s]))

(* Everything sent is in one place: with a thread, queued, on its way, or  *)
(* settled.  No flush, retry on a fresh handle or rebuild forgets a        *)
(* feature or sends it twice.                                              *)
FeaturesAccounted ==
  \A s \in Side : \A n \in 1 .. made[s] : \E place \in Places(s, n) : Places(s, n) = {place}

(* A handshake that has come to rest is complete: when every channel is    *)
(* open and nothing is on its way, both sides are ready, whichever order   *)
(* the channels opened in.  What a channel that was not open yet held up   *)
(* is made good when it opens.                                             *)
HandoverNeverStalls ==
  (\A s \in Side :
     /\ Up(s) /\ ~hand[s].failed /\ open[s] = Required
     /\ event[s] = <<>> /\ control[s] = <<>> /\ signal[s] = <<>>)
  => \A s \in Side : Ready(s)

=============================================================================
