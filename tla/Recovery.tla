------------------------------ MODULE Recovery ------------------------------
(***************************************************************************)
(* How the WebRTC peer of a paired phone is built, lost and built again    *)
(* (coordinator.rs): the threads that start one (start_initiator), the     *)
(* worker that serves it (spawn_event_worker) and gives it back whatever   *)
(* ends it (PeerWorkerGuard), the backoff ladder (rebuild_peer), the signs *)
(* of the phone that start the ladder over (recovery_sign), and the        *)
(* phone's own offers and restart requests (handle_signaling_packet).      *)
(*                                                                         *)
(* A step is one hold of the session lock with what follows it up to the   *)
(* next.  What one attempt does on its way to ready is module Handover;    *)
(* here a worker may reach it, lose it or fail before it.                  *)
(***************************************************************************)
EXTENDS Naturals, FiniteSets

CONSTANTS
  Rungs,      \* length of RECOVERY_BACKOFF_MILLIS
  Retries,    \* retries of schedule_webrtc_bootstrap after its first start
  MaxPeers,   \* bound: peers built
  MaxGenerations, \* bound: generations of the link
  MaxThreads, \* bound: threads in or before start_initiator
  Plans,      \* bound: the events from outside that may happen, each once
  MaxLate,    \* bound: workers that have not come to their end
  NoPeer

Events == {"unbuilt", "healthy", "break", "close", "restart", "offer", "again", "sign", "network", "link"}

ASSUME RecoveryAssumption ==
  /\ Rungs \in Nat \ {0} /\ Retries \in Nat /\ MaxPeers \in Nat /\ MaxThreads \in Nat \ {0}
  /\ MaxGenerations \in Nat \ {0} /\ NoPeer \notin 1 .. MaxPeers /\ Plans \subseteq SUBSET Events

Peers == 1 .. MaxPeers
Generations == 1 .. MaxGenerations
StartThreads == 1 .. MaxThreads
Free == 0

VARIABLES
  initiates, \* this desktop's id is the lower one: it offers
  linkGen,   \* connection_generation
  active,    \* the peer installed, known by its attempt
  ready,     \* its handover is feature-ready
  rung,      \* webrtc_recovery_attempt
  shown,     \* the device's error says that it cannot be reached
  built,     \* every peer built: open or closed, its generation, its worker
  start,     \* the threads that start a peer
  claim,     \* the thread in starting()
  reader,    \* per generation: the thread that reads its link
  network,   \* the thread that handles a network change
  sign,      \* the thread that saw a sign of the phone
  device,    \* the peer the device-keyed state belongs to
  plan,      \* the events that may happen
  spent      \* the events that have happened

session == <<linkGen, active, ready, rung>>
threads == <<start, claim, reader, network, sign>>
recoveryVars == <<initiates, session, shown, built, threads, device, plan, spent>>

NotStarted == [pc |-> "none", gen |-> 0, tries |-> 0, peer |-> NoPeer]
Unbuilt == [state |-> "none", gen |-> 0, worker |-> "none"]

PeerRecords == [state : {"none", "open", "closed"}, gen : 0 .. MaxGenerations,
                worker : {"none", "run", "rebuild", "ended", "guard", "reset", "done"}]
StartRecords == [pc : {"none", "sleep", "begin", "claimed", "built", "installed", "offer"},
                 gen : 0 .. MaxGenerations, tries : 0 .. Retries, peer : Peers \cup {NoPeer}]
ReaderRecords == [pc : {"none", "restart", "install", "replace"},
                  peer : Peers \cup {NoPeer}, old : Peers \cup {NoPeer}]

\* Every variable has its type.
RecoveryTypeOK ==
  /\ initiates \in BOOLEAN /\ linkGen \in Generations /\ active \in Peers \cup {NoPeer}
  /\ ready \in BOOLEAN /\ rung \in 0 .. Rungs + 1 /\ shown \in BOOLEAN
  /\ built \in [Peers -> PeerRecords]
  /\ start \in [StartThreads -> StartRecords]
  /\ claim \in StartThreads \cup {Free}
  /\ reader \in [Generations -> ReaderRecords]
  /\ network \in [pc : {"none", "rebuild", "sign"}, gen : 0 .. MaxGenerations]
  /\ sign \in [pc : {"none", "look"}, gen : 0 .. MaxGenerations]
  /\ device \in Peers \cup {NoPeer} /\ spent \subseteq plan /\ plan \subseteq Events

-----------------------------------------------------------------------------
Occurs(e) == e \in plan \ spent /\ spent' = spent \cup {e}

\* The check of clear_webrtc_if_current and active_webrtc_peer.
Ours(p) == built[p].gen = linkGen /\ active = p

\* clear_webrtc_state.
Cleared == active' = NoPeer /\ ready' = FALSE

Unused == CHOOSE p \in Peers : built[p].state = "none"
Room == \E p \in Peers : built[p].state = "none"
Opened(g) == built' = [built EXCEPT ![Unused] = [state |-> "open", gen |-> g, worker |-> "none"]]

\* thread::spawn of one that goes to start_initiator, at once or after a sleep.
Spawn(g, at, tries) ==
  \E t \in StartThreads :
    /\ start[t].pc = "none" /\ \A u \in 1 .. t - 1 : start[u].pc # "none"
    /\ start' = [start EXCEPT ![t] = [pc |-> at, gen |-> g, tries |-> tries, peer |-> NoPeer]]

\* The end of a start: the bootstrap scheduler sleeps until its next one.
Finish(t) ==
  start' = [start EXCEPT ![t] =
    IF @.tries > 0 THEN [pc |-> "sleep", gen |-> @.gen, tries |-> @.tries - 1, peer |-> NoPeer]
    ELSE NotStarted]

\* schedule_webrtc_bootstrap: the one that offers tries again.
Schedule(g) == Spawn(g, "sleep", IF initiates THEN Retries ELSE 0)

RecoveryInit ==
  /\ initiates \in BOOLEAN
  /\ linkGen = 1 /\ active = NoPeer /\ ready = FALSE /\ rung = 0 /\ shown = FALSE
  /\ built = [p \in Peers |-> Unbuilt]
  /\ start = [t \in StartThreads |-> IF t = 1
       THEN [pc |-> "sleep", gen |-> 1, tries |-> IF initiates THEN Retries ELSE 0, peer |-> NoPeer]
       ELSE NotStarted]
  /\ claim = Free
  /\ reader = [g \in Generations |-> [pc |-> "none", peer |-> NoPeer, old |-> NoPeer]]
  /\ network = [pc |-> "none", gen |-> 0] /\ sign = [pc |-> "none", gen |-> 0]
  /\ device = NoPeer /\ plan \in Plans /\ spent = {}

-----------------------------------------------------------------------------
(* The threads that start a peer.                                          *)

\* The delay ends.  A last sleep outlasts a start that is under way.
Wakes(t) ==
  /\ start[t].pc = "sleep"
  /\ start[t].tries = 0 => claim = Free
  /\ start' = [start EXCEPT ![t] =
       IF linkGen # @.gen \/ active # NoPeer THEN NotStarted ELSE [@ EXCEPT !.pc = "begin"]]
  /\ UNCHANGED <<initiates, plan, session, shown, built, claim, reader, network, sign, device, spent>>

\* is_paired and claim_start.  The one that does not offer asks the phone to.
Claims(t) ==
  /\ start[t].pc = "begin"
  /\ IF linkGen = start[t].gen /\ claim = Free /\ initiates
     THEN claim' = t /\ start' = [start EXCEPT ![t].pc = "claimed"]
     ELSE Finish(t) /\ UNCHANGED claim
  /\ UNCHANGED <<initiates, plan, session, shown, built, reader, network, sign, device, spent>>

\* start_initiator has returned: the offer of a peer is on its way.
Offered(p) == \A t \in StartThreads : start[t].peer = p => start[t].pc \notin {"installed", "offer"}

EndStart(t) == claim' = Free /\ Finish(t)

Builds(t) ==
  /\ start[t].pc = "claimed"
  /\ \/ /\ linkGen # start[t].gen \/ active # NoPeer
        /\ EndStart(t) /\ UNCHANGED <<built, spent>>
     \/ /\ linkGen = start[t].gen /\ active = NoPeer /\ Room
        /\ Opened(linkGen)
        /\ start' = [start EXCEPT ![t].pc = "built", ![t].peer = Unused]
        /\ UNCHANGED <<claim, spent>>
     \/ /\ linkGen = start[t].gen /\ active = NoPeer
        /\ Occurs("unbuilt") /\ EndStart(t) /\ UNCHANGED built
  /\ UNCHANGED <<initiates, plan, session, shown, reader, network, sign, device>>

\* install_webrtc_peer_if_none; a peer it does not take is closed.
Installs(t) ==
  /\ start[t].pc = "built"
  /\ IF linkGen = start[t].gen /\ active = NoPeer
     THEN /\ active' = start[t].peer /\ ready' = FALSE
          /\ start' = [start EXCEPT ![t].pc = "installed"]
          /\ UNCHANGED <<linkGen, rung, built, claim>>
     ELSE /\ built' = [built EXCEPT ![start[t].peer].state = "closed"]
          /\ EndStart(t) /\ UNCHANGED session
  /\ UNCHANGED <<initiates, plan, shown, reader, network, sign, device, spent>>

Serves(t) ==
  /\ start[t].pc = "installed"
  /\ built' = [built EXCEPT ![start[t].peer].worker = "run"]
  /\ start' = [start EXCEPT ![t].pc = "offer"]
  /\ UNCHANGED <<initiates, plan, session, shown, claim, reader, network, sign, device, spent>>

Offers(t) ==
  /\ start[t].pc = "offer"
  /\ EndStart(t)
  /\ UNCHANGED <<initiates, plan, session, shown, built, reader, network, sign, device, spent>>

-----------------------------------------------------------------------------
(* The worker of a peer.                                                   *)

Runs(p) == built[p].worker = "run" /\ Ours(p)
WorkerAt(p, at) == built' = [built EXCEPT ![p].worker = at]
Shut(p, at) == built' = [built EXCEPT ![p].state = "closed", ![p].worker = at]

\* The top of the loop: another peer or another link took over.
Notices(p) ==
  /\ built[p].worker = "run" /\ ~Ours(p)
  /\ WorkerAt(p, "ended")
  /\ UNCHANGED <<initiates, plan, session, shown, threads, device, spent>>

\* finish_feature_ready: not a reset of the ladder.
GetsReady(p) ==
  /\ Runs(p) /\ ~ready
  /\ ready' = TRUE /\ shown' = FALSE
  /\ UNCHANGED <<initiates, plan, linkGen, active, rung, built, threads, device, spent>>

\* The phone's requests over a ready peer: a remote session, a screen share,
\* an unlocked session, transfer rows, all kept under the device's id.
Uses(p) ==
  /\ Runs(p) /\ ready /\ device # p
  /\ device' = p
  /\ UNCHANGED <<initiates, plan, session, shown, built, threads, spent>>

\* ladder_resets after HEALTHY_AFTER, or the phone woke.
Healthy(p) ==
  /\ Runs(p) /\ ready /\ Occurs("healthy")
  /\ rung' = 0
  /\ UNCHANGED <<initiates, plan, linkGen, active, ready, shown, built, threads, device>>

\* rebuild_peer up to its second lock: a terminal state, silence on every
\* channel, NEGOTIATION_TIMEOUT, a disconnect that outlived its grace.  Each
\* takes longer than the start that built the peer.
Dies(p) ==
  /\ Runs(p) /\ Offered(p)
  /\ Cleared /\ Shut(p, "rebuild")
  /\ UNCHANGED <<initiates, plan, linkGen, rung, shown, threads, device, spent>>

\* Mutant: the rung is read and not moved.
ClimbStays(g) ==
  IF linkGen = g /\ rung >= Rungs
  THEN shown' = TRUE /\ UNCHANGED <<rung, start>>
  ELSE Spawn(g, "sleep", 0) /\ UNCHANGED <<rung, shown>>

\* Mutant: the exhausted ladder ends without a word.
ClimbSilently(g) ==
  /\ rung' = IF linkGen = g /\ rung <= Rungs THEN rung + 1 ELSE rung
  /\ IF linkGen = g /\ rung >= Rungs THEN UNCHANGED start ELSE Spawn(g, "sleep", 0)
  /\ UNCHANGED shown

\* rebuild_peer from its second lock: a rung up, and a thread that waits for
\* it, or the end of the ladder on the screen.  (A session that is gone counts
\* as the first rung.)
Climb(g) ==
  /\ rung' = IF linkGen = g /\ rung <= Rungs THEN rung + 1 ELSE rung
  /\ IF linkGen = g /\ rung >= Rungs
     THEN shown' = TRUE /\ UNCHANGED start
     ELSE Spawn(g, "sleep", 0) /\ UNCHANGED shown

Rebuilds(p) ==
  /\ built[p].worker = "rebuild"
  /\ Climb(built[p].gen) /\ WorkerAt(p, "ended")
  /\ UNCHANGED <<initiates, plan, linkGen, active, ready, claim, reader, network, sign, device, spent>>

\* The loop ends with no rebuild: a description or a candidate that cannot be
\* sent, or the phone's Close over the link, which closes the peer.
Breaks(p) ==
  /\ Runs(p) /\ Occurs("break")
  /\ WorkerAt(p, "ended")
  /\ UNCHANGED <<initiates, plan, session, shown, threads, device>>

\* HandoverControlKind::Close: the worker notices at its next turn.
PhoneCloses(p) ==
  /\ Runs(p) /\ Occurs("close")
  /\ Cleared /\ Shut(p, "run")
  /\ UNCHANGED <<initiates, plan, linkGen, rung, shown, threads, device>>

\* PeerWorkerGuard: a superseded worker leaves the device's state alone.
GuardChecks(p) ==
  /\ built[p].worker = "ended"
  /\ WorkerAt(p, IF built[p].gen = linkGen /\ active \notin {NoPeer, p} THEN "done" ELSE "guard")
  /\ UNCHANGED <<initiates, plan, session, shown, threads, device, spent>>

GuardResets(p) ==
  /\ built[p].worker = "guard"
  /\ device' = NoPeer /\ WorkerAt(p, "reset")
  /\ UNCHANGED <<initiates, plan, session, shown, threads, spent>>

\* Mutant: the guard resets and does not release the peer.
GuardKeeps(p) ==
  /\ built[p].worker = "reset"
  /\ WorkerAt(p, "done")
  /\ UNCHANGED <<initiates, plan, session, shown, threads, device, spent>>

GuardClears(p) ==
  /\ built[p].worker = "reset"
  /\ IF Ours(p) THEN Cleared /\ Shut(p, "done") /\ UNCHANGED <<linkGen, rung>>
     ELSE WorkerAt(p, "done") /\ UNCHANGED session
  /\ UNCHANGED <<initiates, plan, shown, threads, device, spent>>

-----------------------------------------------------------------------------
(* The phone, over the link.                                               *)

Reading(g, at, p, old) == reader' = [reader EXCEPT ![g] = [pc |-> at, peer |-> p, old |-> old]]
Min2(a, b) == IF a < b THEN a ELSE b

\* restart_request_action and restart_as_initiator: about the peer there is
\* (which the phone knows by its offer), or about none; the rung is capped,
\* not reset.
RestartAsked(g) ==
  /\ initiates /\ g = linkGen /\ reader[g].pc = "none" /\ Occurs("restart")
  /\ Offered(active)
  /\ rung' = Min2(rung, Rungs - 1)
  /\ Cleared /\ Reading(g, "restart", NoPeer, active)
  /\ UNCHANGED <<initiates, plan, linkGen, shown, built, start, claim, network, sign, device>>

PeerClosed(p) == IF p = NoPeer THEN built ELSE [built EXCEPT ![p].state = "closed"]

Restarts(g) ==
  /\ reader[g].pc = "restart"
  /\ device' = IF reader[g].old = NoPeer THEN device ELSE NoPeer
  /\ built' = PeerClosed(reader[g].old)
  /\ Spawn(g, "begin", 0) /\ Reading(g, "none", NoPeer, NoPeer)
  /\ UNCHANGED <<initiates, plan, session, shown, claim, network, sign, spent>>

\* An offer of a new attempt, whatever is installed (offer_attempt_disposition).
OfferArrives(g) ==
  /\ ~initiates /\ g = linkGen /\ reader[g].pc = "none" /\ Room
  /\ Occurs("offer") \/ Occurs("again")
  /\ rung' = 0 /\ shown' = FALSE
  /\ Opened(g) /\ Reading(g, "install", Unused, NoPeer)
  /\ UNCHANGED <<initiates, plan, linkGen, active, ready, start, claim, network, sign, device>>

\* Mutant: the peer an offer replaces is dropped and not closed.
ReplacesUnclosed(g) ==
  /\ reader[g].pc = "replace"
  /\ device' = IF reader[g].old = NoPeer THEN device ELSE NoPeer
  /\ built' = [built EXCEPT ![reader[g].peer].worker = "run"]
  /\ Reading(g, "none", NoPeer, NoPeer)
  /\ UNCHANGED <<initiates, plan, session, shown, start, claim, network, sign, spent>>

InstallsOffer(g) ==
  /\ reader[g].pc = "install"
  /\ IF linkGen = g
     THEN /\ active' = reader[g].peer /\ ready' = FALSE
          /\ Reading(g, "replace", reader[g].peer, active)
          /\ UNCHANGED <<linkGen, rung, built>>
     ELSE /\ built' = PeerClosed(reader[g].peer)
          /\ Reading(g, "none", NoPeer, NoPeer) /\ UNCHANGED session
  /\ UNCHANGED <<initiates, plan, shown, start, claim, network, sign, device, spent>>

\* install_responder after its install: what it replaced goes, its worker runs.
Replaces(g) ==
  /\ reader[g].pc = "replace"
  /\ device' = IF reader[g].old = NoPeer THEN device ELSE NoPeer
  /\ built' = [PeerClosed(reader[g].old) EXCEPT ![reader[g].peer].worker = "run"]
  /\ Reading(g, "none", NoPeer, NoPeer)
  /\ UNCHANGED <<initiates, plan, session, shown, start, claim, network, sign, spent>>

-----------------------------------------------------------------------------
(* Signs of the phone, the network, and the link.                          *)

\* recovery_sign up to its second lock.
Signed ==
  /\ sign.pc = "none"
  /\ rung' = 0 /\ shown' = (shown /\ rung < Rungs)
  /\ sign' = [pc |-> "look", gen |-> linkGen]
  /\ UNCHANGED <<initiates, plan, linkGen, active, ready, built, start, claim, reader, device>>

SignSeen == Signed /\ Occurs("sign") /\ UNCHANGED network

\* No peer: one is started.  (A session that is gone reads as no peer.)
SignLooks ==
  /\ sign.pc = "look"
  /\ sign' = [pc |-> "none", gen |-> 0]
  /\ IF linkGen = sign.gen /\ active # NoPeer THEN UNCHANGED start ELSE Spawn(sign.gen, "begin", 0)
  /\ UNCHANGED <<initiates, plan, session, shown, built, claim, reader, network, device, spent>>

\* network_changed: rebuild_peers_off_the_network, then a sign of the phone.
NetworkClears ==
  /\ network.pc = "none" /\ active # NoPeer /\ Offered(active) /\ Occurs("network")
  /\ Cleared /\ built' = PeerClosed(active)
  /\ network' = [pc |-> "rebuild", gen |-> linkGen]
  /\ UNCHANGED <<initiates, plan, linkGen, rung, shown, start, claim, reader, sign, device>>

NetworkClimbs ==
  /\ network.pc = "rebuild"
  /\ Climb(network.gen) /\ network' = [pc |-> "sign", gen |-> 0]
  /\ UNCHANGED <<initiates, plan, linkGen, active, ready, built, claim, reader, sign, device, spent>>

NetworkSigns ==
  /\ network.pc = "sign" /\ network' = [pc |-> "none", gen |-> 0]
  /\ Signed /\ UNCHANGED spent

\* register_link: a generation that starts with nothing, and its scheduler.
LinkReplaced ==
  /\ linkGen < MaxGenerations /\ Occurs("link")
  /\ linkGen' = linkGen + 1 /\ Cleared /\ rung' = 0
  /\ built' = PeerClosed(active)
  /\ Schedule(linkGen + 1)
  /\ UNCHANGED <<initiates, plan, shown, claim, reader, network, sign, device>>

-----------------------------------------------------------------------------
\* Bound: a worker that lingers lingers beside one other.
FewLate == Cardinality({p \in Peers : built[p].worker \notin {"none", "done"}}) <= MaxLate

StartStep(t) == Wakes(t) \/ Claims(t) \/ Builds(t) \/ Installs(t) \/ Serves(t) \/ Offers(t)

WorkerStep(p) ==
  \/ Notices(p) \/ GetsReady(p) \/ Uses(p) \/ Healthy(p) \/ Dies(p) \/ Rebuilds(p)
  \/ Breaks(p) \/ PhoneCloses(p) \/ GuardChecks(p) \/ GuardResets(p) \/ GuardClears(p)

PhoneStep(g) == RestartAsked(g) \/ Restarts(g) \/ OfferArrives(g) \/ InstallsOffer(g) \/ Replaces(g)

RecoveryNext ==
  \/ \E t \in StartThreads : StartStep(t)
  \/ \E p \in Peers : WorkerStep(p)
  \/ \E g \in Generations : PhoneStep(g)
  \/ SignSeen \/ SignLooks
  \/ NetworkClears \/ NetworkClimbs \/ NetworkSigns
  \/ LinkReplaced

RecoverySpec == RecoveryInit /\ [][RecoveryNext]_recoveryVars

-----------------------------------------------------------------------------
(* Properties.                                                             *)

\* Nothing is left to run but the worker of the peer there is.
NothingPending ==
  /\ \A t \in StartThreads : start[t].pc = "none"
  /\ \A g \in Generations : reader[g].pc = "none"
  /\ network.pc = "none" /\ sign.pc = "none"
  /\ \A p \in Peers : built[p].worker \in {"none", "done"} \/ Runs(p)

\* A peer that is installed is served: its worker runs, is on its way to
\* release it, or is about to be started.  An orphan would drop every feature
\* while the device reads as connected.
NoOrphanPeer ==
  active # NoPeer =>
    /\ built[active].gen = linkGen /\ built[active].state # "none"
    /\ \/ built[active].worker \in {"run", "ended", "guard", "reset"}
       \/ \E t \in StartThreads : start[t].pc = "installed" /\ start[t].peer = active
       \/ reader[linkGen].pc = "replace" /\ reader[linkGen].peer = active

\* A peer leaves nothing behind.  Every one that was built and is not the one
\* installed gets closed, by whichever thread took it out: its pipeline would
\* stay for ever.  And what a phone was granted under its device id does not
\* survive the last of its peers, however that ended.
NothingLeftBehind ==
  NothingPending => /\ \A p \in Peers : built[p].state = "open" => p = active
                    /\ active = NoPeer => device = NoPeer

\* The desktop that offers stops trying only when it says so: with no peer and
\* nothing scheduled, the card shows that the phone cannot be reached, unless
\* the phone closed the peer, its worker broke off or none could be built.
RestIsHonest ==
  NothingPending /\ initiates /\ active = NoPeer => shown \/ spent \cap {"unbuilt", "break", "close"} # {}

\* The ladder ends: between two signs of the phone (a healthy peer, a new
\* link) no more peers are built than it has rungs, the scheduler of the link
\* has retries, and for a restart the phone asks for the one it starts and the
\* one of the rung it gives back.
LadderEnds ==
  Cardinality({p \in Peers : built[p].state # "none"}) <=
    (Rungs + 1 + Retries) * (1 + Cardinality(spent \cap {"healthy", "sign", "network", "link", "offer", "again"}))
    + 2 * Cardinality(spent \cap {"restart"})
=============================================================================
