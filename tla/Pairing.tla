------------------------------ MODULE Pairing ------------------------------
(***************************************************************************)
(* Pairing by prompt between two peers that both run this code:            *)
(* pairing.rs (the state machine), daemon/pairing_commands.rs (the user's  *)
(* commands and the expiry), the pairing part of daemon/packet_handler.rs  *)
(* (the reader) and of register_link, and the trust store of config.rs.    *)
(*                                                                         *)
(* The session lock and the configuration lock are separate, and packets   *)
(* are sent outside both: each step below is one critical section or one   *)
(* send.  A peer has one command thread, one reader per link, the 1 Hz     *)
(* reconciler and a thread per connection being made.                      *)
(***************************************************************************)
EXTENDS Naturals, Sequences

CONSTANTS
  Peers,       \* the two of them
  Leader,      \* the one whose local_goes_first is true
  MaxLinks,    \* bound on the links made between them
  MaxCommands, \* bound on what the two users do
  MaxNow,      \* bound on the clock
  MaxQueue,    \* bound on what waits on a link that is signaled on
  AllowedDifference, \* ALLOWED_TIMESTAMP_DIFFERENCE_SECONDS
  SaveMayFail, \* the trust store cannot always be written
  MayExpire,   \* PAIR_TIMEOUT_SECS may pass in a negotiation
  LinkMayFail  \* a link fails on its own, and not only when it is replaced

ASSUME PeersAssumption == Leader \in Peers /\ \E p, q \in Peers : p # q /\ Peers = {p, q}
ASSUME PairingBounds ==
  /\ MaxLinks \in Nat /\ MaxCommands \in Nat /\ MaxNow \in Nat \ {0} /\ MaxQueue \in Nat
  /\ AllowedDifference \in Nat /\ SaveMayFail \in BOOLEAN /\ LinkMayFail \in BOOLEAN
  /\ MayExpire \in BOOLEAN

Other(p) == CHOOSE q \in Peers : q # p
Links == 1 .. MaxLinks

VARIABLES
  pairing,  \* PairState of the session of each peer
  stamp,    \* its timestamp
  active,   \* the link each session has, 0 for none
  trust,    \* the peers that have saved a trust record for the other
  card,     \* the prompt on the screen and the timestamp of its key, 0 for no key
  up,       \* links whose streams work
  made,     \* links made so far
  opening,  \* per peer and link: the connection thread
  chan,     \* per peer and link: packets on their way to it
  cmd,      \* the command thread of each peer
  reader,   \* the reader of each peer and link
  expiring, \* the reconciler has abandoned a negotiation and not said so yet
  noticed,  \* a "not paired" notice was sent less than 5 s ago
  now,      \* the clock
  asked,    \* commands given so far
  origin,   \* history: the link the last request of the peer was read on
  approved  \* history: who accepted what on which link, and what the screen showed

session == <<pairing, stamp, active>>
wire    == <<up, made, opening, chan>>
history == <<origin, approved>>
vars == <<session, trust, card, wire, cmd, reader, expiring, noticed, now, asked, history>>

PairStates == {"NotPaired", "Requested", "RequestedByPeer", "Paired"}
Negotiating == {"Requested", "RequestedByPeer"}
\* The key two peers compare is made of their certificates and the timestamp
\* of the negotiation; the certificates of two honest peers never change.
Keys == 0 .. MaxNow
Cards == [prompt : {"none", "PairRequested", "PairRequestedByPeer"}, key : Keys]
NoPrompt == [prompt |-> "none", key |-> 0]

\* A pairing packet: a request carries a timestamp, an acceptance does not.
Request(t) == [kind |-> "request", t |-> t]
Acceptance == [kind |-> "accept", t |-> 0]
Refusal    == [kind |-> "refuse", t |-> 0]
Signal     == [kind |-> "signal", t |-> 0]
Nothing    == [kind |-> "none", t |-> 0]
Packets    == {Acceptance, Refusal, Signal} \cup {Request(t) : t \in 0 .. MaxNow}

IdleCommand == [pc |-> "idle", link |-> 0, packet |-> Nothing, was |-> "NotPaired",
                wasStamp |-> 0, expect |-> "NotPaired", shown |-> NoPrompt]
IdleReader  == [pc |-> "idle", packet |-> Nothing, reply |-> Nothing, next |-> "showing", on |-> 0, shows |-> NoPrompt]

Commands == [pc : {"idle", "accepting", "confirmed", "sending", "showing", "saving",
                   "reverting", "offline", "binding", "revoking", "telling", "forgetting"},
             link : 0 .. MaxLinks, packet : Packets \cup {Nothing},
             was : PairStates, wasStamp : Keys, expect : PairStates, shown : Cards]
Readers == [pc : {"idle", "applying", "replying", "saving", "resetting", "revoking",
                  "forgetting", "showing"},
            packet : Packets \cup {Nothing}, reply : Packets \cup {Nothing},
            next : {"showing", "saving", "revoking"}, on : 0 .. MaxLinks, shows : Cards]
Approvals == [by : Peers, command : {"request", "accept"}, shown : Cards, key : Keys,
              asked : 0 .. MaxLinks, on : Links]

\* Every variable has its type.
TypeOK ==
  /\ pairing \in [Peers -> PairStates]
  /\ stamp \in [Peers -> Keys]
  /\ active \in [Peers -> 0 .. MaxLinks]
  /\ trust \subseteq Peers
  /\ card \in [Peers -> Cards]
  /\ up \subseteq Links /\ made \in 0 .. MaxLinks
  /\ opening \in [Peers -> [Links -> {"no", "tls", "paired", "unpaired", "done"}]]
  /\ chan \in [Peers -> [Links -> Seq(Packets)]]
  /\ cmd \in [Peers -> Commands]
  /\ reader \in [Peers -> [Links -> Readers]]
  /\ expiring \subseteq Peers /\ noticed \subseteq Peers
  /\ now \in 1 .. MaxNow /\ asked \in 0 .. MaxCommands
  /\ origin \in [Peers -> 0 .. MaxLinks]
  /\ approved \subseteq Approvals

Init ==
  /\ pairing = [p \in Peers |-> "NotPaired"]
  /\ stamp = [p \in Peers |-> 0]
  /\ active = [p \in Peers |-> 0]
  /\ trust = {}
  /\ card = [p \in Peers |-> NoPrompt]
  /\ up = {} /\ made = 0
  /\ opening = [p \in Peers |-> [l \in Links |-> "no"]]
  /\ chan = [p \in Peers |-> [l \in Links |-> <<>>]]
  /\ cmd = [p \in Peers |-> IdleCommand]
  /\ reader = [p \in Peers |-> [l \in Links |-> IdleReader]]
  /\ expiring = {} /\ noticed = {}
  /\ now = 1 /\ asked = 0
  /\ origin = [p \in Peers |-> 0]
  /\ approved = {}

-----------------------------------------------------------------------------
(* pairing.rs                                                              *)

\* timestamp_is_plausible: a request that is too old is no live negotiation.
Plausible(t) == now - t <= AllowedDifference

\* mutant: a request that crosses this side's own is taken as its answer
ReceiveRequestAsAnswer(p, packet) ==
  CASE packet.kind = "refuse" -> <<"NotPaired", stamp[p]>>
    [] pairing[p] = "Requested" /\ packet.kind # "refuse" -> <<"Paired", stamp[p]>>
    [] pairing[p] = "NotPaired" /\ packet.kind = "request" -> <<"RequestedByPeer", packet.t>>
    [] OTHER -> <<pairing[p], stamp[p]>>

\* PairingHandler::receive: the state and timestamp after a packet.
Receive(p, packet) ==
  LET state == pairing[p]
      taken == <<"RequestedByPeer", packet.t>>
      same  == <<state, stamp[p]>>
  IN CASE packet.kind = "refuse" -> <<"NotPaired", stamp[p]>>
       [] packet.kind = "accept" ->
            IF state = "Requested" THEN <<"Paired", stamp[p]>> ELSE same
       [] packet.kind = "request" ->
            IF /\ Plausible(packet.t)
               /\ state = "NotPaired" \/ (state = "Requested" /\ p # Leader)
              THEN taken ELSE same

\* update_pair_state after a packet: the key is shown to the side that is asked.
CardOf(state) ==
  CASE state[1] = "RequestedByPeer" -> [prompt |-> "PairRequestedByPeer", key |-> state[2]]
    [] state[1] = "Requested" -> [prompt |-> "PairRequested", key |-> 0]
    [] OTHER -> NoPrompt

\* SessionLink::send_packet: a link that is down takes nothing.
Send(p, l, packet) ==
  chan' = IF l \in up /\ packet # Nothing
            THEN [chan EXCEPT ![Other(p)][l] = Append(@, packet)] ELSE chan

-----------------------------------------------------------------------------
(* Links: made by the network, registered by each end on its own.          *)

Connect ==
  /\ made < MaxLinks
  /\ made' = made + 1
  /\ up' = up \cup {made + 1}
  /\ opening' = [p \in Peers |-> [opening[p] EXCEPT ![made + 1] = "tls"]]
  /\ UNCHANGED <<session, trust, card, chan, cmd, reader, expiring, noticed, now, asked, history>>

\* finish_secure_link reads the trust store,
ReadTrust(p, l) ==
  /\ opening[p][l] = "tls"
  /\ opening' = [opening EXCEPT ![p][l] = IF p \in trust THEN "paired" ELSE "unpaired"]
  /\ UNCHANGED <<session, trust, card, up, made, chan, cmd, reader, expiring, noticed, now, asked,
                 history>>

\* mutant: a negotiation is carried over to the new link
RegisteredKeepsNegotiation(p, l) ==
  CASE opening[p][l] = "paired" -> "Paired"
    [] opening[p][l] # "paired" /\ pairing[p] \in Negotiating -> pairing[p]
    [] OTHER -> "NotPaired"

\* and register_link believes what was read: a negotiation is abandoned, any
\* other state follows the trust store.
RegisteredPairing(p, l) == IF opening[p][l] = "paired" THEN "Paired" ELSE "NotPaired"

Register(p, l) ==
  /\ opening[p][l] \in {"paired", "unpaired"}
  /\ opening' = [opening EXCEPT ![p][l] = "done"]
  /\ active' = [active EXCEPT ![p] = l]
  /\ pairing' = [pairing EXCEPT ![p] = RegisteredPairing(p, l)]
  /\ stamp' = [stamp EXCEPT ![p] = IF pairing[p] = RegisteredPairing(p, l) THEN @ ELSE 0]
  /\ up' = up \ {active[p]}
  /\ UNCHANGED <<trust, card, made, chan, cmd, reader, expiring, noticed, now, asked, history>>

\* The stream of a link fails at any time.
LinkFails(l) ==
  /\ LinkMayFail /\ l \in up
  /\ up' = up \ {l}
  /\ UNCHANGED <<session, trust, card, made, opening, chan, cmd, reader, expiring, noticed, now,
                 asked, history>>

\* The reader notices: the session keeps its pairing state without a link.
Disconnected(p) ==
  /\ active[p] # 0 /\ active[p] \notin up
  /\ active' = [active EXCEPT ![p] = 0]
  /\ UNCHANGED <<pairing, stamp, trust, card, wire, cmd, reader, expiring, noticed, now, asked,
                 history>>

\* reconcile_connection_status: a prompt is kept while the device is
\* reachable and cleared once it is not.
Reconcile(p) ==
  /\ active[p] = 0 /\ card[p] # NoPrompt
  /\ card' = [card EXCEPT ![p] = NoPrompt]
  /\ UNCHANGED <<session, trust, wire, cmd, reader, expiring, noticed, now, asked, history>>

-----------------------------------------------------------------------------
(* The user's commands, one at a time on the command thread.               *)

\* PairingContext::transition under the session lock: the state moves, the
\* packet is sent next, and the old state is kept for a revert.
Transition(p, state, t, packet) ==
  /\ pairing' = [pairing EXCEPT ![p] = state]
  /\ stamp' = [stamp EXCEPT ![p] = t]
  /\ cmd' = [cmd EXCEPT ![p] = [pc |-> "sending", link |-> active[p], packet |-> packet,
                                was |-> pairing[p], wasStamp |-> stamp[p], expect |-> state,
                                shown |-> NoPrompt]]

\* accept_packet: only a request that is outstanding is accepted.
Accept(p, command, compared) ==
  /\ pairing[p] = "RequestedByPeer"
  /\ Transition(p, "Paired", stamp[p], Acceptance)
  /\ approved' = approved \cup {[by |-> p, command |-> command, shown |-> compared,
                                key |-> stamp[p], asked |-> origin[p], on |-> active[p]]}

\* mutants: a repeated request is stamped anew; the stamp is in milliseconds
RequestStampAnew(p) == now
RequestStampMillis(p) == IF pairing[p] = "Requested" THEN stamp[p] ELSE now * 1000

\* A repeated request keeps the timestamp of the negotiation.
RequestStamp(p) == IF pairing[p] = "Requested" THEN stamp[p] ELSE now

\* send_pair_request: a peer's own request is answered instead.
RequestPair(p) ==
  /\ asked < MaxCommands /\ cmd[p].pc = "idle" /\ active[p] # 0
  /\ asked' = asked + 1
  /\ \/ Accept(p, "request", card[p])
     \/ /\ pairing[p] \in {"NotPaired", "Requested"}
        /\ Transition(p, "Requested", RequestStamp(p), Request(RequestStamp(p)))
        /\ UNCHANGED approved
  /\ UNCHANGED <<active, trust, card, wire, reader, expiring, noticed, now, origin>>

\* The user accepts the key on the screen; the command waits for its turn.
PressAccept(p) ==
  /\ asked < MaxCommands /\ cmd[p].pc = "idle" /\ card[p].prompt = "PairRequestedByPeer"
  /\ asked' = asked + 1
  /\ cmd' = [cmd EXCEPT ![p] = [IdleCommand EXCEPT !.pc = "accepting", !.shown = card[p]]]
  /\ UNCHANGED <<session, trust, card, wire, reader, expiring, noticed, now, history>>

\* accept_pair, first lock: the key shown must be the session's,
CheckShownKey(p) ==
  /\ cmd[p].pc = "accepting"
  /\ cmd' = [cmd EXCEPT ![p] = IF active[p] # 0 /\ stamp[p] = cmd[p].shown.key
                                 THEN [@ EXCEPT !.pc = "confirmed"] ELSE IdleCommand]
  /\ UNCHANGED <<session, trust, card, wire, reader, expiring, noticed, now, asked, history>>

\* second lock: whatever request is outstanding by now is accepted.
AcceptPair(p) ==
  /\ cmd[p].pc = "confirmed"
  /\ IF active[p] # 0 /\ pairing[p] = "RequestedByPeer"
       THEN Accept(p, "accept", cmd[p].shown)
       ELSE /\ cmd' = [cmd EXCEPT ![p] = IdleCommand]
            /\ UNCHANGED <<pairing, stamp, history>>
  /\ UNCHANGED <<active, trust, card, wire, reader, expiring, noticed, now, asked, origin>>

\* The packet goes out; a failed send is reverted, an acceptance is saved
\* next, a request is shown on the card.
SendCommand(p) ==
  /\ cmd[p].pc = "sending"
  /\ Send(p, cmd[p].link, cmd[p].packet)
  /\ cmd' = [cmd EXCEPT ![p].pc = IF cmd[p].link \notin up THEN "reverting"
                                    ELSE IF cmd[p].expect = "Paired" THEN "saving" ELSE "showing"]
  /\ UNCHANGED <<session, trust, card, up, made, opening, reader, expiring, noticed, now, asked,
                 history>>

ShowRequest(p) ==
  /\ cmd[p].pc = "showing"
  /\ card' = [card EXCEPT ![p] = [prompt |-> "PairRequested",
                                   key |-> IF active[p] = cmd[p].link THEN stamp[p] ELSE 0]]
  /\ cmd' = [cmd EXCEPT ![p] = IdleCommand]
  /\ UNCHANGED <<session, trust, wire, reader, expiring, noticed, now, asked, history>>

\* persist_trust: a trust record is written, or it cannot be.
PersistTrust(p) ==
  /\ cmd[p].pc = "saving"
  /\ \/ /\ trust' = trust \cup {p}
        /\ card' = [card EXCEPT ![p] = NoPrompt]
        /\ cmd' = [cmd EXCEPT ![p] = IdleCommand]
     \/ /\ SaveMayFail
        /\ cmd' = [cmd EXCEPT ![p].pc = "reverting"]
        /\ UNCHANGED <<trust, card>>
  /\ UNCHANGED <<session, wire, reader, expiring, noticed, now, asked, history>>

\* mutant: a failure is reported and the session left as it is
RevertNothing(p) ==
  /\ cmd[p].pc = "reverting"
  /\ cmd' = [cmd EXCEPT ![p] = IdleCommand]
  /\ UNCHANGED <<session, trust, card, wire, reader, expiring, noticed, now, asked, history>>

\* revert, unless something else moved the state of that link meanwhile
Revert(p) ==
  LET undone == active[p] = cmd[p].link /\ active[p] # 0 /\ pairing[p] = cmd[p].expect IN
  /\ cmd[p].pc = "reverting"
  /\ pairing' = IF undone THEN [pairing EXCEPT ![p] = cmd[p].was] ELSE pairing
  /\ stamp' = IF undone THEN [stamp EXCEPT ![p] = cmd[p].wasStamp] ELSE stamp
  /\ cmd' = [cmd EXCEPT ![p] = IdleCommand]
  /\ UNCHANGED <<active, trust, card, wire, reader, expiring, noticed, now, asked, history>>

\* unpair and reject_pair: whether the session has a link is looked up,
Unpair(p) ==
  /\ asked < MaxCommands /\ cmd[p].pc = "idle"
  /\ asked' = asked + 1
  /\ cmd' = [cmd EXCEPT ![p] =
       [IdleCommand EXCEPT !.pc = IF active[p] = 0 THEN "offline" ELSE "binding"]]
  /\ UNCHANGED <<session, trust, card, wire, reader, expiring, noticed, now, history>>

\* without one it forgets its pairing, also when it has got one by now,
ForgetPairing(p) ==
  /\ cmd[p].pc = "offline"
  /\ pairing' = [pairing EXCEPT ![p] = "NotPaired"]
  /\ stamp' = [stamp EXCEPT ![p] = 0]
  /\ cmd' = [cmd EXCEPT ![p] = [IdleCommand EXCEPT !.pc = "binding"]]
  /\ UNCHANGED <<active, trust, card, wire, reader, expiring, noticed, now, asked, history>>

\* the link is looked up once more,
CurrentBinding(p) ==
  /\ cmd[p].pc = "binding"
  /\ cmd' = [cmd EXCEPT ![p].pc = IF active[p] = 0 THEN "forgetting" ELSE "revoking",
                        ![p].link = active[p]]
  /\ UNCHANGED <<session, trust, card, wire, reader, expiring, noticed, now, asked, history>>

\* the pairing is revoked, if the session has that link still; after a new one it is not,
RevokePairing(p) ==
  LET current == active[p] = cmd[p].link IN
  /\ cmd[p].pc = "revoking"
  /\ pairing' = IF current THEN [pairing EXCEPT ![p] = "NotPaired"] ELSE pairing
  /\ cmd' = [cmd EXCEPT ![p].pc = IF current THEN "telling" ELSE "forgetting"]
  /\ UNCHANGED <<stamp, active, trust, card, wire, reader, expiring, noticed, now, asked, history>>

\* its peer is told,
TellUnpaired(p) ==
  /\ cmd[p].pc = "telling"
  /\ Send(p, cmd[p].link, Refusal)
  /\ cmd' = [cmd EXCEPT ![p].pc = "forgetting"]
  /\ UNCHANGED <<session, trust, card, up, made, opening, reader, expiring, noticed, now, asked,
                 history>>

\* and the trust record goes; one that cannot be removed stays, and the
\* card with it.
UntrustDevice(p) ==
  /\ cmd[p].pc = "forgetting"
  /\ cmd' = [cmd EXCEPT ![p] = IdleCommand]
  /\ \/ trust' = trust \ {p} /\ card' = [card EXCEPT ![p] = NoPrompt]
     \/ SaveMayFail /\ UNCHANGED <<trust, card>>
  /\ UNCHANGED <<session, wire, reader, expiring, noticed, now, asked, history>>

-----------------------------------------------------------------------------
(* The reader of each link: apply_lan_packet.                              *)

\* An unpair read on a link that was replaced since is applied to the
\* current one; any other packet of such a link is dropped.
AppliedTo(p, l, packet) ==
  CASE active[p] = l -> l
    [] active[p] # l /\ packet.kind = "refuse" /\ p \in trust -> active[p]
    [] OTHER -> 0

\* What the reader says back: a request it cannot date is refused, a request
\* of a peer that is paired is confirmed.
Reply(p, packet) ==
  CASE packet.kind # "request" -> Nothing
    [] packet.kind = "request" /\ pairing[p] = "Paired" -> Acceptance
    [] packet.kind = "request" /\ pairing[p] = "NotPaired" /\ ~Plausible(packet.t) -> Refusal
    [] OTHER -> Nothing

\* What the reader has to do once the session lock is released.
AfterReceive(p, state) ==
  CASE state[1] = "Paired" -> "saving"
    [] pairing[p] = "Paired" /\ state[1] = "NotPaired" -> "revoking"
    [] OTHER -> "showing"

\* packet_read_loop: a link is read while it is the session's,
ReadLine(p, l) ==
  /\ reader[p][l].pc = "idle" /\ active[p] = l /\ chan[p][l] # <<>>
  /\ chan' = [chan EXCEPT ![p][l] = Tail(@)]
  /\ reader' = [reader EXCEPT ![p][l].pc = "applying", ![p][l].packet = Head(chan[p][l])]
  /\ UNCHANGED <<session, trust, card, up, made, opening, cmd, expiring, noticed, now, asked,
                 history>>

\* and what was read is applied, to whatever session there is by then.
ApplyPairPacket(p, l) ==
  LET packet == reader[p][l].packet
      on     == AppliedTo(p, l, packet)
      state  == Receive(p, packet)
  IN
  /\ reader[p][l].pc = "applying" /\ packet # Signal
  /\ IF on = 0
       THEN /\ reader' = [reader EXCEPT ![p][l] = IdleReader]
            /\ UNCHANGED <<pairing, stamp, origin>>
       ELSE /\ pairing' = [pairing EXCEPT ![p] = state[1]]
            /\ stamp' = [stamp EXCEPT ![p] = state[2]]
            /\ origin' = IF state[1] = "RequestedByPeer" /\ pairing[p] # "RequestedByPeer"
                           THEN [origin EXCEPT ![p] = on] ELSE origin
            /\ reader' = [reader EXCEPT ![p][l] =
                 [pc |-> IF Reply(p, packet) # Nothing THEN "replying" ELSE AfterReceive(p, state),
                  packet |-> Nothing, reply |-> Reply(p, packet), next |-> AfterReceive(p, state),
                  on |-> on, shows |-> CardOf(state)]]
  /\ UNCHANGED <<active, trust, card, wire, cmd, expiring, noticed, now, asked, approved>>

SendReply(p, l) ==
  /\ reader[p][l].pc = "replying"
  /\ Send(p, reader[p][l].on, reader[p][l].reply)
  /\ reader' = [reader EXCEPT ![p][l].pc = reader[p][l].next, ![p][l].reply = Nothing]
  /\ UNCHANGED <<session, trust, card, up, made, opening, cmd, expiring, noticed, now, asked,
                 history>>

\* "never Paired without a saved trust record": saved, or the pairing goes.
SaveTrust(p, l) ==
  /\ reader[p][l].pc = "saving"
  /\ \/ trust' = trust \cup {p} /\ reader' = [reader EXCEPT ![p][l].pc = "showing"]
     \/ /\ SaveMayFail
        /\ reader' = [reader EXCEPT ![p][l].pc = "resetting"]
        /\ UNCHANGED trust
  /\ UNCHANGED <<session, card, wire, cmd, expiring, noticed, now, asked, history>>

ResetPairing(p, l) ==
  LET current == active[p] = reader[p][l].on /\ active[p] # 0 IN
  /\ reader[p][l].pc = "resetting"
  /\ pairing' = IF current THEN [pairing EXCEPT ![p] = "NotPaired"] ELSE pairing
  /\ stamp' = IF current THEN [stamp EXCEPT ![p] = 0] ELSE stamp
  /\ reader' = [reader EXCEPT ![p][l].pc = "showing"]
  /\ UNCHANGED <<active, trust, card, wire, cmd, expiring, noticed, now, asked, history>>

\* The peer unpaired: the session is revoked once more, then the record goes.
RevokeAfterUnpair(p, l) ==
  LET current == active[p] = reader[p][l].on /\ active[p] # 0 IN
  /\ reader[p][l].pc = "revoking"
  /\ pairing' = IF current THEN [pairing EXCEPT ![p] = "NotPaired"] ELSE pairing
  /\ reader' = [reader EXCEPT ![p][l].pc = "forgetting"]
  /\ UNCHANGED <<stamp, active, trust, card, wire, cmd, expiring, noticed, now, asked, history>>

ForgetTrust(p, l) ==
  /\ reader[p][l].pc = "forgetting"
  /\ trust' = trust \ {p} \/ (SaveMayFail /\ trust' = trust)
  /\ reader' = [reader EXCEPT ![p][l].pc = "showing"]
  /\ UNCHANGED <<session, card, wire, cmd, expiring, noticed, now, asked, history>>

ShowReceived(p, l) ==
  /\ reader[p][l].pc = "showing"
  /\ card' = [card EXCEPT ![p] = reader[p][l].shows]
  /\ reader' = [reader EXCEPT ![p][l] = IdleReader]
  /\ UNCHANGED <<session, trust, wire, cmd, expiring, noticed, now, asked, history>>

\* A peer that is paired signals for its WebRTC transport; one that is not is
\* told so, at most once in 5 s.
SendSignal(p) ==
  /\ pairing[p] = "Paired" /\ active[p] # 0 /\ active[p] \in up
  /\ \A q \in Peers : Len(chan[q][active[p]]) < MaxQueue
  /\ Send(p, active[p], Signal)
  /\ UNCHANGED <<session, trust, card, up, made, opening, cmd, reader, expiring, noticed, now,
                 asked, history>>

\* mutant: a signal of a peer that is not paired is dropped in silence
ApplySignalSilently(p, l) ==
  /\ reader[p][l].pc = "applying" /\ reader[p][l].packet = Signal
  /\ reader' = [reader EXCEPT ![p][l] = IdleReader]
  /\ UNCHANGED <<session, trust, card, wire, cmd, expiring, noticed, now, asked, history>>

\* claim_not_paired_notice and notify_peer_not_paired
ApplySignal(p, l) ==
  LET tells == pairing[p] = "NotPaired" /\ p \notin noticed IN
  /\ reader[p][l].pc = "applying" /\ reader[p][l].packet = Signal
  /\ reader' = [reader EXCEPT ![p][l] = IdleReader]
  /\ Send(p, l, IF tells THEN Refusal ELSE Nothing)
  /\ noticed' = IF tells THEN noticed \cup {p} ELSE noticed
  /\ UNCHANGED <<session, trust, card, up, made, opening, cmd, expiring, now, asked, history>>

NoticeWindowEnds(p) ==
  /\ p \in noticed
  /\ noticed' = noticed \ {p}
  /\ UNCHANGED <<session, trust, card, wire, cmd, reader, expiring, now, asked, history>>

-----------------------------------------------------------------------------
(* The reconciler and the clock.                                           *)

\* expire_if_due: PAIR_TIMEOUT_SECS may pass at any time, but not while the
\* request itself is being written, which takes 10 s at most.
ExpirePairing(p) ==
  /\ MayExpire /\ pairing[p] \in Negotiating /\ p \notin expiring
  /\ cmd[p].pc # "sending"
  /\ pairing' = [pairing EXCEPT ![p] = "NotPaired"]
  /\ expiring' = expiring \cup {p}
  /\ UNCHANGED <<stamp, active, trust, card, wire, cmd, reader, noticed, now, asked, history>>

\* expire_pairings tells the peer on whatever link the session has by then.
TellExpired(p) ==
  /\ p \in expiring
  /\ expiring' = expiring \ {p}
  /\ Send(p, active[p], Refusal)
  /\ card' = [card EXCEPT ![p] = NoPrompt]
  /\ UNCHANGED <<session, trust, up, made, opening, cmd, reader, noticed, now, asked, history>>

Tick ==
  /\ now < MaxNow
  /\ now' = now + 1
  /\ UNCHANGED <<session, trust, card, wire, cmd, reader, expiring, noticed, asked, history>>

-----------------------------------------------------------------------------
User(p) == RequestPair(p) \/ PressAccept(p) \/ Unpair(p)

CommandStep(p) ==
  \/ CheckShownKey(p) \/ AcceptPair(p) \/ SendCommand(p) \/ ShowRequest(p)
  \/ PersistTrust(p) \/ Revert(p)
  \/ ForgetPairing(p) \/ CurrentBinding(p) \/ RevokePairing(p) \/ TellUnpaired(p) \/ UntrustDevice(p)

ReaderStep(p, l) ==
  \/ ReadLine(p, l) \/ ApplyPairPacket(p, l) \/ ApplySignal(p, l) \/ SendReply(p, l)
  \/ SaveTrust(p, l) \/ ResetPairing(p, l)
  \/ RevokeAfterUnpair(p, l) \/ ForgetTrust(p, l) \/ ShowReceived(p, l)

ConnectStep(p, l) == ReadTrust(p, l) \/ Register(p, l)

TimerStep(p) == ExpirePairing(p) \/ TellExpired(p) \/ Reconcile(p) \/ NoticeWindowEnds(p)

Next ==
  \/ Connect \/ Tick
  \/ \E l \in Links : LinkFails(l)
  \/ \E p \in Peers :
       \/ User(p) \/ CommandStep(p) \/ TimerStep(p) \/ SendSignal(p) \/ Disconnected(p)
       \/ \E l \in Links : ConnectStep(p, l) \/ ReaderStep(p, l)

Spec == Init /\ [][Next]_vars

\* Threads run on, time passes, and a paired peer goes on signaling.
Fairness ==
  \A p \in Peers :
    /\ WF_vars(CommandStep(p)) /\ WF_vars(ExpirePairing(p)) /\ WF_vars(TellExpired(p))
    /\ WF_vars(Reconcile(p)) /\ WF_vars(NoticeWindowEnds(p)) /\ WF_vars(Disconnected(p))
    /\ WF_vars(SendSignal(p))
    /\ \A l \in Links : WF_vars(ConnectStep(p, l)) /\ WF_vars(ReaderStep(p, l))

FairSpec == Spec /\ Fairness
-----------------------------------------------------------------------------
(* Properties.                                                             *)

\* No thread of p is between two steps of a command or a packet.
Settled(p) ==
  /\ cmd[p].pc = "idle" /\ p \notin expiring
  /\ \A l \in Links : reader[p][l].pc = "idle"

\* Nothing is on its way on the link both sessions have.
Quiet ==
  \A p \in Peers : Settled(p) /\ active[p] # 0 /\ active[p] = active[Other(p)]
                     /\ active[p] \in up /\ chan[p][active[p]] = <<>>

\* A session becomes paired only if one of the two users accepted a key:
\* requests that cross are resolved by role, never taken as an answer.
NoSilentPairing ==
  \A p \in Peers : pairing[p] = "Paired" \/ p \in trust => approved # {}

\* Both screens show one key: when nothing is on its way, the side that asked
\* and the side that was asked have the timestamp of one request, however
\* often either asked, gave up or was refused.
OneKey ==
  Quiet => \A p \in Peers : pairing[p] = "RequestedByPeer" /\ pairing[Other(p)] = "Requested" =>
             stamp[p] = stamp[Other(p)]

\* "A pairing negotiation belongs to the link that started it": no acceptance
\* is given on a link other than the one its request arrived on.
AcceptedOnItsLink == \A a \in approved : a.asked = a.on

\* A crossing request never pairs "two devices with no one having compared a
\* key": a request that answers the peer's was made with its key on the screen.
CrossingIsCompared ==
  \A a \in approved : a.command = "request" =>
    a.shown = [prompt |-> "PairRequestedByPeer", key |-> a.key]

\* "never Paired without a saved trust record", once the threads are done.
PairedIsTrusted ==
  \A p \in Peers : Settled(p) /\ active[p] # 0 /\ pairing[p] = "Paired" => p \in trust

\* An unpair is not undone: a session that is settled and not paired has no
\* trust record to come back with.
UnpairedIsForgotten == \A p \in Peers : Settled(p) /\ pairing[p] # "Paired" => p \notin trust

\* The two sides end up agreeing whether they are paired, while a link works.
PairingConverges ==
  <>[](\E p \in Peers : active[p] = 0 \/ active[p] \notin up \/ active[p] # active[Other(p)])
  \/ <>[](\A p \in Peers : pairing[p] = "Paired" <=> pairing[Other(p)] = "Paired")

=============================================================================
