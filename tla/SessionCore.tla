---------------------------- MODULE SessionCore ----------------------------
(***************************************************************************)
(* The session of one device: core/device_manager.rs, core/session_link.rs *)
(* and core/device_session.rs, with the threads that drive it: the         *)
(* connection threads of daemon/handshake.rs, the packet readers of        *)
(* daemon/packet_handler.rs, the liveness and network-change monitors of   *)
(* daemon/mod.rs and daemon/commands.rs, and the shutdown of the daemon.   *)
(*                                                                         *)
(* Every step is one critical section of the code: what happens while      *)
(* DeviceManager.sessions is locked, or one atomic operation on a          *)
(* SessionLink.  A link is named by the generation that registered it,     *)
(* since register_link makes one new link and one new generation together. *)
(***************************************************************************)
EXTENDS Naturals

CONSTANTS
  Sockets,      \* connections that may be made, each used once
  Relay,        \* the ones carried by the relay (no local address)
  Qr,           \* the ones promoted from a QR-only link
  DialedByUs,   \* the ones this computer dialed
  LocalIsLower, \* local_id < peer_id
  Instance,     \* restart epoch the peer announced on each socket
  Cert,         \* certificate the peer presented on each socket
  Monitors,     \* threads that call handle_disconnect with a saved binding
  MaxAttempts,  \* bound on the WebRTC attempts installed
  MaxGen,       \* bound on the generations registered
  NoSocket

ASSUME SocketsAssumption ==
  /\ NoSocket \notin Sockets
  /\ Relay \subseteq Sockets
  /\ Qr \subseteq Sockets
  /\ DialedByUs \subseteq Sockets
  /\ LocalIsLower \in BOOLEAN
ASSUME MonitorsAssumption == Monitors \cap Sockets = {} /\ "main" \notin Monitors \cup Sockets
ASSUME BoundsAssumption == MaxAttempts \in Nat /\ MaxGen \in Nat

Gens == 1 .. MaxGen
Main == "main"
Procs == Sockets \cup Monitors \cup {Main}

VARIABLES
  state,      \* SessionState, "None" before the first registration
  gen,        \* connection_generation
  hasLink,    \* active_link is Some (the link of generation gen)
  cancelled,  \* generations whose cancellation token is set
  pairing,    \* PairingHandler.state
  peer,       \* active_webrtc: attempt that owns the peer, 0 for None
  attempt,    \* webrtc_attempt_id, 0 for None
  handover,   \* webrtc_handover: "None", "Negotiating", "Ready", "Failed"
  lastAttempt,\* attempt ids handed out so far
  answering,  \* last_inbound_at is younger than HEARTBEAT_IDLE * 2
  recent,     \* the current link got its socket within LINK_RACE_WINDOW
  first,      \* per link: the socket it was made with (certificate, info)
  carrier,    \* per link: the socket it carries now
  closed,     \* the links whose closed flag is set
  epoch,      \* per link: SessionLink.epoch
  dialed,     \* the links whose dialed_by_us flag is set
  sock,       \* per socket: "idle", "open", "eof" (the peer ended it) or "shut"
  flight,     \* the connection holding DeviceFlight
  pc,         \* per thread: where it is
  bind,       \* per thread: generation of the SessionBinding it holds, 0 for none
  at,         \* per connection thread: the epoch its reader was started at
  paired,     \* connection threads whose local of this name is true,
  supersede,  \*   supersede_live,
  restarted,  \*   restarted,
  replace,    \*   replace_incumbent
  old         \* per connection thread: the replaced socket it has to shut

sessionVars == <<state, gen, hasLink, cancelled, pairing>>
webrtcVars  == <<peer, attempt, handover, lastAttempt>>
clockVars   == <<answering, recent>>
linkVars    == <<first, carrier, closed, epoch, dialed>>
locals      == <<paired, supersede, restarted, replace>>
procVars    == <<flight, pc, bind, at, locals, old>>
vars == <<sessionVars, webrtcVars, clockVars, linkVars, sock, procVars>>

States     == {"None", "Ready", "Disconnected", "Terminated"}
PairStates == {"NotPaired", "Requested", "Paired"} \* Requested: by either side
Handovers  == {"None", "Negotiating", "Ready", "Failed"}
AttachPcs  == {"idle", "admitted", "standby", "attaching", "checked", "compared",
               "deciding", "registering", "adopted", "registered", "spawned"}
PCs        == AttachPcs \cup {"reading", "ended", "dropping", "closing", "shutting", "done"}

SessionTypes ==
  /\ state \in States
  /\ gen \in {0} \cup Gens
  /\ hasLink \in BOOLEAN
  /\ cancelled \subseteq Gens
  /\ pairing \in PairStates
  /\ peer \in 0 .. MaxAttempts
  /\ attempt \in 0 .. MaxAttempts
  /\ handover \in Handovers
  /\ lastAttempt \in 0 .. MaxAttempts
  /\ answering \in BOOLEAN
  /\ recent \in BOOLEAN

LinkTypes ==
  /\ first \in [Gens -> Sockets \cup {NoSocket}]
  /\ carrier \in [Gens -> Sockets \cup {NoSocket}]
  /\ closed \subseteq Gens
  /\ epoch \in [Gens -> Nat]
  /\ dialed \subseteq Gens
  /\ sock \in [Sockets -> {"idle", "open", "eof", "shut"}]

ThreadTypes ==
  /\ flight \in Sockets \cup {NoSocket}
  /\ pc \in [Procs -> PCs]
  /\ bind \in [Procs -> {0} \cup Gens]
  /\ at \in [Sockets -> Nat]
  /\ paired \subseteq Sockets /\ supersede \subseteq Sockets
  /\ restarted \subseteq Sockets /\ replace \subseteq Sockets
  /\ old \in [Sockets -> Sockets \cup {NoSocket}]

\* Every variable has its type.
TypeOK == SessionTypes /\ LinkTypes /\ ThreadTypes

Init ==
  /\ state = "None" /\ gen = 0 /\ hasLink = FALSE /\ cancelled = {}
  /\ pairing = "NotPaired"
  /\ peer = 0 /\ attempt = 0 /\ handover = "None" /\ lastAttempt = 0
  /\ answering = FALSE /\ recent = FALSE
  /\ first = [g \in Gens |-> NoSocket]
  /\ carrier = [g \in Gens |-> NoSocket]
  /\ closed = {}
  /\ epoch = [g \in Gens |-> 0]
  /\ dialed = {}
  /\ sock = [s \in Sockets |-> "idle"]
  /\ flight = NoSocket
  /\ pc = [p \in Procs |-> "idle"]
  /\ bind = [p \in Procs |-> 0]
  /\ at = [s \in Sockets |-> 0]
  /\ paired = {} /\ supersede = {} /\ restarted = {} /\ replace = {}
  /\ old = [s \in Sockets |-> NoSocket]

-----------------------------------------------------------------------------
(* What the session lock guards.                                           *)

\* The binding of generation g is the session's: same generation, same link,
\* same token (with_session, is_current).
Matches(g) == hasLink /\ gen = g /\ state # "Terminated"
IsCurrent(g) == Matches(g) /\ g \notin cancelled

FeaturesReady == handover = "Ready"
LinkOpen == hasLink /\ state # "Terminated" /\ gen \notin closed

\* Mutant: the handover runtime outlives its peer.
ClearWebrtcStateKeepsHandover ==
  /\ peer' = 0 /\ attempt' = 0
  /\ UNCHANGED <<handover, lastAttempt>>

\* clear_webrtc_state
ClearWebrtcState ==
  /\ peer' = 0 /\ attempt' = 0 /\ handover' = "None"
  /\ UNCHANGED lastAttempt

-----------------------------------------------------------------------------
(* A connection thread: finish_secure_link, then attach_bootstrap_link.    *)

Goto(p, label) == pc' = [pc EXCEPT ![p] = label]

\* A thread that is over holds no binding.
Release(p, over) ==
  /\ bind' = IF over THEN [bind EXCEPT ![p] = 0] ELSE bind
  /\ at' = IF over /\ p \in Sockets THEN [at EXCEPT ![p] = 0] ELSE at

\* attach_bootstrap_link returns: the flight of this connection ends with it.
Return(s, label) ==
  /\ Goto(s, label)
  /\ flight' = IF flight = s THEN NoSocket ELSE flight
  /\ paired' = paired \ {s} /\ supersede' = supersede \ {s}
  /\ restarted' = restarted \ {s} /\ replace' = replace \ {s}

\* Mutant: the loser's link is dropped without being closed.
GiveUpKeepsSocket(s) ==
  /\ Return(s, "done")
  /\ UNCHANGED <<sessionVars, webrtcVars, clockVars, linkVars, sock, bind, at, old>>

\* The connection loses: its own link is closed and the thread is over.
GiveUp(s) ==
  /\ Return(s, "done")
  /\ sock' = [sock EXCEPT ![s] = "shut"]
  /\ UNCHANGED <<sessionVars, webrtcVars, clockVars, linkVars, bind, at, old>>

\* The handshake of a LAN connection is done; whether its device is trusted
\* is read now (the trust store is not locked with the session).
FinishSecureLink(s, trusted) ==
  /\ s \notin Relay \cup Qr
  /\ pc[s] = "idle"
  /\ Goto(s, "admitted")
  /\ sock' = [sock EXCEPT ![s] = "open"]
  /\ paired' = IF trusted THEN paired \cup {s} ELSE paired
  /\ UNCHANGED <<sessionVars, webrtcVars, clockVars, linkVars, flight, bind, at,
                 supersede, restarted, replace, old>>

\* supersede_live is read before the flight is claimed.
ReadSupersede(s) ==
  /\ pc[s] = "admitted"
  /\ Goto(s, "standby")
  /\ supersede' = IF LinkOpen /\ carrier[gen] \in Relay THEN supersede \cup {s} ELSE supersede
  /\ UNCHANGED <<sessionVars, webrtcVars, clockVars, linkVars, sock, flight, bind, at,
                 paired, restarted, replace, old>>

ClaimFlight(s) ==
  /\ pc[s] = "standby"
  /\ flight = NoSocket
  /\ flight' = s
  /\ Goto(s, "attaching")
  /\ UNCHANGED <<sessionVars, webrtcVars, clockVars, linkVars, locals, sock, bind, at, old>>

FlightTaken(s) == pc[s] = "standby" /\ flight # NoSocket /\ GiveUp(s)

\* A relay link or a proven QR link attaches as paired and superseding, and
\* claims no flight.  The relay thread has one attached transport at a time.
AttachOther(s) ==
  /\ s \in Relay \cup Qr
  /\ pc[s] = "idle"
  /\ s \in Relay => \A r \in Relay \ {s} :
                      sock[r] # "open" /\ pc[r] \notin AttachPcs \ {"idle"}
  /\ Goto(s, "attaching")
  /\ sock' = [sock EXCEPT ![s] = "open"]
  /\ paired' = paired \cup {s} /\ supersede' = supersede \cup {s}
  /\ UNCHANGED <<sessionVars, webrtcVars, clockVars, linkVars, flight, bind, at,
                 restarted, replace, old>>

HoldsPairedTransport == state # "Terminated" /\ pairing = "Paired" /\ FeaturesReady

\* An unpaired link is refused while the paired session is feature-ready.
Refused(s) == s \notin paired /\ HoldsPairedTransport

RefuseUnpaired(s) == pc[s] = "attaching" /\ Refused(s) /\ GiveUp(s)

PassHolder(s) ==
  /\ pc[s] = "attaching"
  /\ ~Refused(s)
  /\ Goto(s, "checked")
  /\ UNCHANGED <<sessionVars, webrtcVars, clockVars, linkVars, sock, flight, bind, at, locals, old>>

PeerRestarted(s) ==
  /\ pc[s] = "checked"
  /\ Goto(s, "compared")
  /\ restarted' = IF /\ hasLink
                      /\ Instance[s] # "unknown" /\ Instance[first[gen]] # "unknown"
                      /\ Instance[first[gen]] # Instance[s]
                    THEN restarted \cup {s} ELSE restarted
  /\ UNCHANGED <<sessionVars, webrtcVars, clockVars, linkVars, sock, flight, bind, at,
                 paired, supersede, replace, old>>

\* link_race: "NotARace", "KeepIncumbent" or "ReplaceIncumbent"
LinkRace(incumbentOurs, incumbentRecent, newOurs) ==
  CASE incumbentOurs = newOurs \/ ~incumbentRecent -> "NotARace"
    [] incumbentOurs # newOurs /\ incumbentRecent /\ incumbentOurs = LocalIsLower -> "KeepIncumbent"
    [] OTHER -> "ReplaceIncumbent"

RaceVerdict(s) ==
  IF s \in paired /\ s \notin restarted /\ s \notin supersede /\ LinkOpen
    THEN LinkRace(gen \in dialed, recent, s \in DialedByUs)
    ELSE "NotARace"

LoseRace(s) == pc[s] = "compared" /\ RaceVerdict(s) = "KeepIncumbent" /\ GiveUp(s)

\* Adoption is only asked for by a paired link that neither supersedes nor
\* restarted; any other registers.
DecideRace(s) ==
  /\ pc[s] = "compared"
  /\ RaceVerdict(s) # "KeepIncumbent"
  /\ replace' = IF RaceVerdict(s) = "ReplaceIncumbent" THEN replace \cup {s} ELSE replace
  /\ Goto(s, IF s \in restarted \/ s \in supersede \/ s \notin paired
               THEN "registering" ELSE "deciding")
  /\ UNCHANGED <<sessionVars, webrtcVars, clockVars, linkVars, sock, flight, bind, at,
                 paired, supersede, restarted, old>>

\* The incumbent is kept only if it is open and answering; the newer link of
\* a race wins even then.
KeepsIncumbent(s) == gen \notin closed /\ answering /\ s \notin replace

\* Mutant: the socket is swapped under the readers of the epoch.
AdoptSameEpoch(s) ==
  /\ carrier' = [carrier EXCEPT ![gen] = s]
  /\ closed' = closed \ {gen}
  /\ UNCHANGED <<first, epoch, dialed>>

\* SessionLink::adopt
Adopt(s) ==
  /\ carrier' = [carrier EXCEPT ![gen] = s]
  /\ epoch' = [epoch EXCEPT ![gen] = @ + 1]
  /\ closed' = closed \ {gen}
  /\ UNCHANGED <<first, dialed>>

\* Mutant: the epoch is read before the swap.
AdoptedEpochBeforeSwap == epoch[gen]

\* The epoch adopt_or_keep hands to the reader of the adopted socket.
AdoptedEpoch == epoch[gen] + 1

\* adopt_or_keep, one lock, decides between the next three.
Adoptable == state # "Terminated" /\ FeaturesReady /\ hasLink

RegisterInstead(s) ==
  /\ pc[s] = "deciding"
  /\ ~Adoptable
  /\ Goto(s, "registering")
  /\ UNCHANGED <<sessionVars, webrtcVars, clockVars, linkVars, sock, flight, bind, at, locals, old>>

\* Refuse (another certificate than the link's) and Keep.
NotAdopted(s) ==
  /\ pc[s] = "deciding"
  /\ Adoptable
  /\ Cert[first[gen]] # Cert[s] \/ KeepsIncumbent(s)
  /\ GiveUp(s)

AdoptSocket(s) ==
  /\ pc[s] = "deciding"
  /\ Adoptable
  /\ Cert[first[gen]] = Cert[s] /\ ~KeepsIncumbent(s)
  /\ Adopt(s)
  /\ state' = "Ready"
  /\ answering' = TRUE
  /\ Goto(s, "adopted")
  /\ old' = [old EXCEPT ![s] = carrier[gen]]
  /\ bind' = [bind EXCEPT ![s] = gen]
  /\ at' = [at EXCEPT ![s] = AdoptedEpoch]
  /\ UNCHANGED <<gen, hasLink, cancelled, pairing, webrtcVars, recent, sock, flight, locals>>

\* Outside the lock: the replaced socket is shut, the link notes its dialer
\* and age, the reader of the new epoch is started.
FinishAdoption(s) ==
  /\ pc[s] = "adopted"
  /\ sock' = [sock EXCEPT ![old[s]] = "shut"]
  /\ dialed' = IF s \in DialedByUs THEN dialed \cup {bind[s]} ELSE dialed \ {bind[s]}
  /\ recent' = (recent \/ bind[s] = gen)
  /\ Return(s, "spawned")
  /\ old' = [old EXCEPT ![s] = NoSocket]
  /\ UNCHANGED <<sessionVars, webrtcVars, answering, first, carrier, closed, epoch, bind, at>>

\* A new link never inherits a negotiation, and the trust store decides.
PairingOfNewLink(s) == IF s \in paired THEN "Paired" ELSE "NotPaired"

\* Mutant: the workers of the old generation are never told.
CancelPreviousForgotten == cancelled

\* The token of the generation before is set, whether it had a link or not.
CancelPrevious == IF state = "None" THEN cancelled ELSE cancelled \cup {gen}

RegisterTerminated(s) == pc[s] = "registering" /\ state = "Terminated" /\ GiveUp(s)

\* register_link under the session lock: a new generation replaces the old.
RegisterLink(s) ==
  /\ pc[s] = "registering"
  /\ state # "Terminated"
  /\ gen < MaxGen
  /\ gen' = gen + 1
  /\ hasLink' = TRUE
  /\ state' = "Ready"
  /\ cancelled' = CancelPrevious
  /\ pairing' = PairingOfNewLink(s)
  /\ ClearWebrtcState
  /\ answering' = TRUE
  /\ recent' = TRUE
  /\ first' = [first EXCEPT ![gen + 1] = s]
  /\ carrier' = [carrier EXCEPT ![gen + 1] = s]
  /\ dialed' = IF s \in DialedByUs THEN dialed \cup {gen + 1} ELSE dialed
  /\ Goto(s, "registered")
  /\ old' = [old EXCEPT ![s] = IF hasLink THEN carrier[gen] ELSE NoSocket]
  /\ bind' = [bind EXCEPT ![s] = gen + 1]
  /\ at' = [at EXCEPT ![s] = 0]
  /\ UNCHANGED <<closed, epoch, sock, flight, locals>>

\* Mutant: the replaced link is flagged, its socket is not shut.
CloseReplacedKeepsSocket(s) ==
  /\ closed' = IF old[s] = NoSocket THEN closed ELSE closed \cup {bind[s] - 1}
  /\ UNCHANGED sock

\* Mutant: a previous link is assumed.
CloseReplacedUnchecked(s) ==
  /\ closed' = closed \cup {bind[s] - 1}
  /\ sock' = IF bind[s] - 1 \in closed THEN sock ELSE [sock EXCEPT ![old[s]] = "shut"]

\* SessionLink::close of the link this one replaced: no later step can adopt
\* a socket into it, so its two halves are one step here.
CloseReplaced(s) ==
  IF old[s] = NoSocket
    THEN UNCHANGED <<closed, sock>>
    ELSE /\ closed' = closed \cup {bind[s] - 1}
         /\ sock' = IF bind[s] - 1 \in closed THEN sock ELSE [sock EXCEPT ![old[s]] = "shut"]

\* Outside the lock: the replaced link is closed, the reader is started.
FinishRegistration(s) ==
  /\ pc[s] = "registered"
  /\ CloseReplaced(s)
  /\ Return(s, "spawned")
  /\ old' = [old EXCEPT ![s] = NoSocket]
  /\ UNCHANGED <<sessionVars, webrtcVars, clockVars, first, carrier, epoch, dialed, bind, at>>

-----------------------------------------------------------------------------
(* Readers, monitors and the shutdown: everything that ends a link.        *)

Superseded(s) == epoch[bind[s]] # at[s]

StartReader(s) ==
  /\ pc[s] = "spawned"
  /\ Goto(s, IF bind[s] \in closed THEN "done" ELSE "reading")
  /\ Release(s, bind[s] \in closed)
  /\ UNCHANGED <<sessionVars, webrtcVars, clockVars, linkVars, sock, flight, locals, old>>

\* packet_read_loop leaves without a word once it is stale or superseded.
ReaderLeaves(s) ==
  /\ pc[s] = "reading"
  /\ ~IsCurrent(bind[s]) \/ Superseded(s)
  /\ Goto(s, "done")
  /\ Release(s, TRUE)
  /\ UNCHANGED <<sessionVars, webrtcVars, clockVars, linkVars, sock, flight, locals, old>>

\* Mutant: the end of the stream is taken for a read timeout.
ReaderEndsOnlyClosed(s) ==
  /\ pc[s] = "reading"
  /\ ~Superseded(s)
  /\ bind[s] \in closed
  /\ Goto(s, "ended")
  /\ UNCHANGED <<sessionVars, webrtcVars, clockVars, linkVars, sock, flight, bind, at, locals, old>>

\* The read ends: the stream ended or failed, or the link is closed.
ReaderEnds(s) ==
  /\ pc[s] = "reading"
  /\ ~Superseded(s)
  /\ sock[s] # "open" \/ bind[s] \in closed
  /\ Goto(s, "ended")
  /\ UNCHANGED <<sessionVars, webrtcVars, clockVars, linkVars, sock, flight, bind, at, locals, old>>

\* What makes a monitor give up on the current link: liveness_tick (dead),
\* idle_unpaired_links, and network_changed (a LAN address that is gone).
DeadLink     == ~answering
IdleUnpaired == pairing = "NotPaired"
OffNetwork   == carrier[gen] \notin Relay

\* A monitor copies the binding under the lock and acts on it later.
SaveBinding(m) ==
  /\ pc[m] \in {"idle", "done"}
  /\ LinkOpen
  /\ DeadLink \/ IdleUnpaired \/ OffNetwork
  /\ bind' = [bind EXCEPT ![m] = gen]
  /\ Goto(m, "ended")
  /\ UNCHANGED <<sessionVars, webrtcVars, clockVars, linkVars, sock, flight, at, locals, old>>

\* bootstrap_disconnected, first lock: a reader's epoch must still be the
\* link's; a feature-ready session keeps its link, any other is dropped next.
BootstrapDisconnected(p) ==
  LET ignored == ~Matches(bind[p]) \/ (p \in Sockets /\ Superseded(p)) IN
  /\ pc[p] = "ended"
  /\ Goto(p, IF ignored THEN "done" ELSE IF FeaturesReady THEN "closing" ELSE "dropping")
  /\ Release(p, ignored)
  /\ state' = IF ~ignored /\ FeaturesReady THEN "Ready" ELSE state
  /\ UNCHANGED <<gen, hasLink, cancelled, pairing, webrtcVars, clockVars, linkVars, sock, flight,
                 locals, old>>

\* disconnect_if_current, a second lock: no epoch, no readiness.
DisconnectIfCurrent(p) ==
  /\ pc[p] = "dropping"
  /\ Matches(bind[p])
  /\ Goto(p, "closing")
  /\ state' = "Disconnected"
  /\ cancelled' = cancelled \cup {gen}
  /\ hasLink' = FALSE
  /\ ClearWebrtcState
  /\ UNCHANGED <<gen, pairing, clockVars, linkVars, sock, flight, bind, at, locals, old>>

DisconnectStale(p) ==
  /\ pc[p] = "dropping"
  /\ ~Matches(bind[p])
  /\ Goto(p, "done")
  /\ Release(p, TRUE)
  /\ UNCHANGED <<sessionVars, webrtcVars, clockVars, linkVars, sock, flight, locals, old>>

\* SessionLink::close, first half: the flag decides who shuts the carrier.
CloseFlag(p) ==
  /\ pc[p] = "closing"
  /\ Goto(p, IF bind[p] \in closed THEN "done" ELSE "shutting")
  /\ Release(p, bind[p] \in closed)
  /\ closed' = closed \cup {bind[p]}
  /\ UNCHANGED <<sessionVars, webrtcVars, clockVars, first, carrier, epoch, dialed,
                 sock, flight, locals, old>>

\* SessionLink::close, second half: whatever carrier the link has by now.
CloseCarrier(p) ==
  /\ pc[p] = "shutting"
  /\ Goto(p, "done")
  /\ Release(p, TRUE)
  /\ sock' = [sock EXCEPT ![carrier[bind[p]]] = "shut"]
  /\ UNCHANGED <<sessionVars, webrtcVars, clockVars, linkVars, flight, locals, old>>

\* terminate_all with no session: the daemon stops, nothing is marked.
TerminateNothing ==
  /\ pc[Main] = "idle"
  /\ state = "None"
  /\ Goto(Main, "done")
  /\ UNCHANGED <<sessionVars, webrtcVars, clockVars, linkVars, sock, flight, bind, at, locals, old>>

\* terminate_all when the daemon stops; the caller closes the link it took.
TerminateAll ==
  /\ pc[Main] = "idle"
  /\ state # "None"
  /\ state' = "Terminated"
  /\ cancelled' = cancelled \cup {gen}
  /\ ClearWebrtcState
  /\ hasLink' = FALSE
  /\ bind' = [bind EXCEPT ![Main] = IF hasLink THEN gen ELSE 0]
  /\ Goto(Main, IF hasLink THEN "closing" ELSE "done")
  /\ UNCHANGED <<gen, pairing, clockVars, linkVars, sock, flight, at, locals, old>>

-----------------------------------------------------------------------------
(* The WebRTC peer of the session, driven by callbacks that hold a binding *)
(* of any earlier generation and the id of any earlier attempt.            *)

\* install_webrtc_peer and install_webrtc_peer_if_none: a fresh attempt.
InstallPeer(g, onlyIfNone) ==
  /\ lastAttempt < MaxAttempts
  /\ IsCurrent(g)
  /\ pairing = "Paired"
  /\ ~(onlyIfNone /\ peer # 0)
  /\ lastAttempt' = lastAttempt + 1
  /\ peer' = lastAttempt + 1
  /\ attempt' = lastAttempt + 1
  /\ handover' = "Negotiating"
  /\ UNCHANGED <<sessionVars, clockVars, linkVars, sock, procVars>>

\* with_webrtc_handover: the runtime of attempt a reaches feature-ready, or
\* fails for good.
HandoverStep(g, a, outcome) ==
  /\ IsCurrent(g)
  /\ attempt = a /\ a # 0
  /\ handover \in {"Negotiating", "Ready"} \ {outcome}
  /\ handover' = outcome
  /\ UNCHANGED <<sessionVars, peer, attempt, lastAttempt, clockVars, linkVars, sock, procVars>>

\* clear_webrtc_if_current, for the current attempt only.
ClearWebrtcIfCurrent(g, a) ==
  /\ IsCurrent(g)
  /\ attempt = a /\ a # 0
  /\ ClearWebrtcState
  /\ UNCHANGED <<sessionVars, clockVars, linkVars, sock, procVars>>

-----------------------------------------------------------------------------
(* Pairing as the session sees it, the peer and the clock.                 *)

\* A pairing packet, answer or expiry moves the pairing state of a current
\* session (module Pairing has the rules).
SetPairing(g, p) ==
  /\ IsCurrent(g)
  /\ pairing = "Paired" => p = "NotPaired"
  /\ pairing' = p
  /\ UNCHANGED <<state, gen, hasLink, cancelled, webrtcVars, clockVars, linkVars, sock, procVars>>

\* The pairing and every WebRTC object derived from it go together.
DropPairing ==
  /\ pairing' = "NotPaired"
  /\ ClearWebrtcState
  /\ UNCHANGED <<state, gen, hasLink, cancelled, clockVars, linkVars, sock, procVars>>

\* revoke_pairing, on a binding
RevokePairing(g) == IsCurrent(g) /\ DropPairing

\* forget_pairing, on a device id: it was offline when the caller looked.
ForgetPairing == state # "None" /\ DropPairing

\* note_inbound
NoteInbound ==
  /\ state # "None"
  /\ answering' = TRUE
  /\ UNCHANGED <<sessionVars, webrtcVars, recent, linkVars, sock, procVars>>

\* The peer says nothing for HEARTBEAT_IDLE * 2.
FallSilent ==
  /\ answering
  /\ answering' = FALSE
  /\ UNCHANGED <<sessionVars, webrtcVars, recent, linkVars, sock, procVars>>

\* LINK_RACE_WINDOW passes.
RaceWindowEnds ==
  /\ recent
  /\ recent' = FALSE
  /\ UNCHANGED <<sessionVars, webrtcVars, answering, linkVars, sock, procVars>>

\* The peer ends the stream, it fails, or it carries an oversized line.
PeerEnds(s) ==
  /\ sock[s] = "open"
  /\ sock' = [sock EXCEPT ![s] = "eof"]
  /\ UNCHANGED <<sessionVars, webrtcVars, clockVars, linkVars, procVars>>
-----------------------------------------------------------------------------
Attach(s) ==
  \/ \E trusted \in BOOLEAN : FinishSecureLink(s, trusted)
  \/ AttachOther(s)

AttachStep(s) ==
  \/ ReadSupersede(s) \/ ClaimFlight(s) \/ FlightTaken(s)
  \/ RefuseUnpaired(s) \/ PassHolder(s) \/ PeerRestarted(s) \/ LoseRace(s) \/ DecideRace(s)
  \/ RegisterInstead(s) \/ NotAdopted(s) \/ AdoptSocket(s) \/ FinishAdoption(s)
  \/ RegisterTerminated(s) \/ RegisterLink(s) \/ FinishRegistration(s)

ReaderStep(s) == StartReader(s) \/ ReaderLeaves(s) \/ ReaderEnds(s)

DisconnectStep(p) ==
  \/ BootstrapDisconnected(p) \/ DisconnectIfCurrent(p) \/ DisconnectStale(p)
  \/ CloseFlag(p) \/ CloseCarrier(p)

WebrtcStep ==
  \E g \in Gens :
    \/ \E onlyIfNone \in BOOLEAN : InstallPeer(g, onlyIfNone)
    \/ \E a \in 1 .. lastAttempt :
         \/ \E outcome \in {"Ready", "Failed"} : HandoverStep(g, a, outcome)
         \/ ClearWebrtcIfCurrent(g, a)

PairingStep ==
  \/ \E g \in Gens : RevokePairing(g) \/ \E p \in PairStates : SetPairing(g, p)
  \/ ForgetPairing

Environment == NoteInbound \/ FallSilent \/ RaceWindowEnds \/ \E s \in Sockets : PeerEnds(s)

Next ==
  \/ \E s \in Sockets : Attach(s) \/ AttachStep(s) \/ ReaderStep(s)
  \/ \E m \in Monitors : SaveBinding(m)
  \/ \E p \in Procs : DisconnectStep(p)
  \/ TerminateNothing \/ TerminateAll
  \/ WebrtcStep
  \/ PairingStep
  \/ Environment

Spec == Init /\ [][Next]_vars

\* Threads that have started run on: each connection, reader and disconnect
\* step is taken once it stays possible.  Nothing makes the peer, the user or
\* a WebRTC callback act.
Fairness ==
  /\ \A s \in Sockets : WF_vars(AttachStep(s)) /\ WF_vars(ReaderStep(s))
  /\ \A p \in Procs : WF_vars(DisconnectStep(p))

FairSpec == Spec /\ Fairness

-----------------------------------------------------------------------------
(* Properties.                                                             *)

\* The states of the session agree: it is Ready exactly while it has a link,
\* the current link's token is never cancelled and the token of every
\* generation before it is, so that no holder of an older binding goes on
\* (register_link, disconnect_if_current, terminate_all).
GenerationsAgree ==
  /\ hasLink <=> state = "Ready"
  /\ hasLink => gen \notin cancelled
  /\ \A g \in Gens : g < gen => g \in cancelled
  /\ ~hasLink /\ gen > 0 => gen \in cancelled

\* "Peer and handover are installed and cleared together by this manager",
\* and only on a session that has a link: no peer outlives its generation.
PeerWithHandover ==
  /\ peer = attempt
  /\ peer = 0 <=> handover = "None"
  /\ peer # 0 => hasLink

\* A reader whose epoch is the link's reads the socket the link carries, and
\* is the only such reader: no two readers frame one stream.
ReaderOwnsStream ==
  \A s \in Sockets :
    pc[s] \in {"adopted", "registered", "spawned", "reading", "ended"} =>
      /\ bind[s] \in Gens
      /\ ~Superseded(s) => carrier[bind[s]] = s

\* An open link of the session always has the thread that will notice its
\* socket ending: the reader of its epoch, or the one about to be started.
OpenLinkHasReader ==
  LinkOpen =>
    LET s == carrier[gen] IN
      /\ s # NoSocket
      /\ bind[s] = gen /\ at[s] = epoch[gen]
      /\ pc[s] \in {"adopted", "registered", "spawned", "reading", "ended", "dropping", "closing"}

\* The threads that are going to shut socket s.
WillShut(s) ==
  \/ \E t \in Sockets : pc[t] \in {"adopted", "registered"} /\ old[t] = s
  \/ \E p \in Procs : pc[p] \in {"closing", "shutting"} /\ carrier[bind[p]] = s

\* An open socket whose connection thread is over is the one the session's
\* link carries, or some thread still holds it to shut it: none is leaked.
NoSocketLeaked ==
  \A s \in Sockets :
    sock[s] = "open" /\ pc[s] \notin AttachPcs =>
      \/ hasLink /\ carrier[gen] = s
      \/ WillShut(s)
-----------------------------------------------------------------------------
(* The inductive strengthening of the invariants above (SessionCoreProofs). *)

\* Threads that hold a binding.
Bound == {"adopted", "registered", "spawned", "reading", "ended", "dropping", "closing", "shutting"}

\* A thread's binding is of a generation that exists.  A connection's reader
\* is never ahead of its link, and while it is not behind, the link carries
\* its socket and is closed if it is about to shut it.
ThreadInv ==
  /\ \A p \in Procs : pc[p] \in Bound => bind[p] \in 1 .. gen
  /\ \A s \in Sockets : pc[s] \in Bound =>
       /\ at[s] <= epoch[bind[s]]
       /\ at[s] = epoch[bind[s]] =>
            carrier[bind[s]] = s /\ (pc[s] = "shutting" => bind[s] \in closed)
       /\ pc[s] = "registered" /\ old[s] # NoSocket => bind[s] > 1

\* Generations not registered yet have untouched links.
FreshGenerations ==
  /\ state = "None" <=> gen = 0
  /\ cancelled \subseteq 1 .. gen
  /\ \A g \in Gens : g > gen => epoch[g] = 0 /\ g \notin closed

IInv ==
  /\ TypeOK /\ GenerationsAgree /\ PeerWithHandover /\ FreshGenerations
  /\ ThreadInv /\ OpenLinkHasReader

\* A connection before it is adopted or registered: only its own thread knows it.
Early == {"idle", "admitted", "standby", "attaching", "checked", "compared", "deciding", "registering"}

\* NoSocketLeaked from the moment a socket is handed over, with what its
\* threads rely on: whoever set the flag of a closed link shuts what it
\* carries, a link carries no socket of an early connection, and the socket
\* of a link that was replaced is still that link's.
SocketInv ==
  /\ \A s \in Sockets : sock[s] = "open" /\ pc[s] \notin Early =>
       (hasLink /\ carrier[gen] = s) \/ WillShut(s)
  /\ \A g \in closed, s \in Sockets : carrier[g] = s /\ sock[s] = "open" =>
       \E p \in Procs : pc[p] = "shutting" /\ bind[p] = g
  /\ \A g \in Gens, s \in Sockets : carrier[g] = s => pc[s] \notin Early
  /\ \A s \in Sockets : pc[s] = "registered" /\ old[s] # NoSocket => old[s] = carrier[bind[s] - 1]

-----------------------------------------------------------------------------
(* What a comment says and the code does not keep.                         *)

\* "without conflating it with loss of an already authenticated WebRTC
\* feature peer": losing the bootstrap socket never drops a feature-ready peer.
BootstrapLossKeepsPeer ==
  [][~(state = "Ready" /\ FeaturesReady /\ state' = "Disconnected")]_vars

-----------------------------------------------------------------------------
(* Liveness, under FairSpec.                                               *)

\* A bootstrap socket that ended while the session's open link carries it is
\* always noticed: the link is closed, dropped or given another socket.
DeadSocketNoticed ==
  \A s \in Sockets :
    (LinkOpen /\ carrier[gen] = s /\ sock[s] # "open") ~> ~(LinkOpen /\ carrier[gen] = s)

\* A connection ends up carried by the session's link, or shut: the loser of
\* every race, refusal, adoption and replacement is closed in the end.
LosersAreShut ==
  \A s \in Sockets : sock[s] = "open" ~> (sock[s] # "open" \/ (hasLink /\ carrier[gen] = s))

=============================================================================
