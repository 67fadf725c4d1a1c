---------------------------- MODULE PairingProofs ----------------------------
(***************************************************************************)
(* Proofs about Pairing, for any number of links, commands and seconds.    *)
(***************************************************************************)
EXTENDS Pairing, TLAPS

LEMMA Others ==
  ASSUME NEW p \in Peers
  PROVE  Other(p) \in Peers /\ Other(p) # p /\ Peers = {p, Other(p)}
BY PeersAssumption DEF Other

\* The reader that applies a packet has one.
Applying == \A p \in Peers, l \in Links : reader[p][l].pc = "applying" => reader[p][l].packet # Nothing

Types == TypeOK /\ Applying

\* A packet that is sent is the last of its queue; no other queue changes.
LEMMA Sent ==
  ASSUME chan \in [Peers -> [Links -> Seq(Packets)]], NEW p \in Peers, NEW l,
         up \subseteq Links, NEW packet \in Packets \cup {Nothing}, Send(p, l, packet)
  PROVE  /\ chan' \in [Peers -> [Links -> Seq(Packets)]]
         /\ \A q \in Peers, m \in Links :
              \/ chan'[q][m] = chan[q][m]
              \/ packet \in Packets /\ chan'[q][m] = Append(chan[q][m], packet)
<1>1. Other(p) \in Peers
  BY Zenon, Others
<1>2. CASE l \in up /\ packet # Nothing
  <2>1. l \in Links /\ packet \in Packets
    BY Zenon, <1>2
  <2>2. Append(chan[Other(p)][l], packet) \in Seq(Packets)
    BY <1>1, <2>1
  <2>3. chan' = [chan EXCEPT ![Other(p)][l] = Append(@, packet)]
    BY Zenon, <1>2 DEF Send
  <2> QED
    BY Zenon, <1>1, <2>1, <2>2, <2>3
<1>3. CASE ~(l \in up /\ packet # Nothing)
  BY Zenon, <1>3 DEF Send
<1> QED
  BY Zenon, <1>2, <1>3

-----------------------------------------------------------------------------
(* What a step does to the thread it is a step of.                         *)

CommandPcs == {"idle", "accepting", "confirmed", "sending", "showing", "saving",
               "reverting", "offline", "binding", "revoking", "telling", "forgetting"}

LEMMA CommandFields ==
  ASSUME NEW c \in Commands
  PROVE  /\ c.pc \in CommandPcs /\ c.link \in 0 .. MaxLinks /\ c.packet \in Packets \cup {Nothing}
         /\ c.was \in PairStates /\ c.wasStamp \in Keys /\ c.expect \in PairStates /\ c.shown \in Cards
BY Zenon DEF Commands, CommandPcs

LEMMA CommandMade ==
  ASSUME NEW x \in CommandPcs, NEW k \in 0 .. MaxLinks, NEW m \in Packets \cup {Nothing},
         NEW w \in PairStates, NEW t \in Keys, NEW e \in PairStates, NEW y \in Cards
  PROVE  [pc |-> x, link |-> k, packet |-> m, was |-> w, wasStamp |-> t, expect |-> e, shown |-> y]
           \in Commands
BY Zenon DEF Commands, CommandPcs

LEMMA CommandPc ==
  ASSUME NEW c \in Commands, NEW x \in CommandPcs
  PROVE  LET d == [c EXCEPT !.pc = x] IN
         /\ d \in Commands /\ d.pc = x /\ d.link = c.link /\ d.packet = c.packet /\ d.was = c.was
         /\ d.expect = c.expect
BY Zenon DEF Commands, CommandPcs

LEMMA IdleFields ==
  /\ IdleCommand \in Commands /\ IdleCommand.pc = "idle" /\ IdleCommand.link = 0
  /\ IdleCommand.packet = Nothing /\ IdleCommand.was = "NotPaired" /\ IdleCommand.expect = "NotPaired"
  /\ NoPrompt \in Cards /\ Nothing # Acceptance
<1>1. NoPrompt \in Cards /\ 0 \in Keys
  BY PairingBounds DEF NoPrompt, Cards, Keys
<1>2. IdleCommand \in Commands
  BY <1>1, PairingBounds DEF IdleCommand, Commands, PairStates
<1> QED
  BY Zenon, <1>1, <1>2 DEF IdleCommand, Nothing, Acceptance

\* A command that has nothing to do with an acceptance.
Plain(c) == c.was # "Paired" /\ c.expect # "Paired" /\ c.packet # Acceptance /\ c.pc # "saving"

\* The command thread of p goes on with c.
CommandGoes(p, c) ==
  /\ c \in Commands /\ cmd' = [cmd EXCEPT ![p] = c]
  /\ c.link \in {0, cmd[p].link, active[p]}
  /\ c.was = "RequestedByPeer" /\ c.link # 0 =>
       \/ c.link = cmd[p].link /\ cmd[p].was = "RequestedByPeer"
       \/ c.link = active[p] /\ pairing[p] = "RequestedByPeer"
       \/ cmd[p].pc = "binding" /\ cmd[p].was = "RequestedByPeer"
  /\ c.pc = "binding" => c.was # "RequestedByPeer"
  /\ approved' = {} /\ Plain(cmd[p]) /\ pairing[p] # "Paired" => Plain(c)

LEMMA GoesIdle ==
  ASSUME NEW p \in Peers, cmd' = [cmd EXCEPT ![p] = IdleCommand]
  PROVE  CommandGoes(p, IdleCommand)
BY Zenon, IdleFields DEF CommandGoes, Plain

LEMMA GoesPc ==
  ASSUME Types, NEW p \in Peers, NEW x \in CommandPcs \ {"binding"},
         x = "saving" => cmd[p].expect = "Paired",
         cmd' = [cmd EXCEPT ![p].pc = x]
  PROVE  CommandGoes(p, [cmd[p] EXCEPT !.pc = x])
<1>1. cmd[p] \in Commands
  BY Zenon DEF Types, TypeOK
<1> DEFINE d == [cmd[p] EXCEPT !.pc = x]
<1>2. /\ d \in Commands /\ d.pc = x /\ d.link = cmd[p].link /\ d.packet = cmd[p].packet
      /\ d.was = cmd[p].was /\ d.expect = cmd[p].expect
  BY Zenon, <1>1, CommandPc
<1>3. cmd' = [cmd EXCEPT ![p] = d]
  BY Zenon, <1>1
<1> HIDE DEF d
<1> QED
  BY Zenon, <1>2, <1>3 DEF CommandGoes, Plain, d

LEMMA GoesTransition ==
  ASSUME Types, NEW p \in Peers, active[p] # 0, NEW state \in PairStates, NEW t, NEW m \in Packets,
         Transition(p, state, t, m), approved' = {} => state # "Paired" /\ m # Acceptance
  PROVE  \E c : CommandGoes(p, c)
<1> DEFINE c == [pc |-> "sending", link |-> active[p], packet |-> m, was |-> pairing[p],
                 wasStamp |-> stamp[p], expect |-> state, shown |-> NoPrompt]
<1>1. c \in Commands
  BY Zenon, CommandMade, IdleFields DEF Types, TypeOK, CommandPcs
<1>2. cmd' = [cmd EXCEPT ![p] = c]
  BY Zenon DEF Transition
<1>3. /\ c.pc = "sending" /\ c.link = active[p] /\ c.packet = m /\ c.was = pairing[p] /\ c.expect = state
  BY Zenon
<1> HIDE DEF c
<1>4. CommandGoes(p, c)
  BY Zenon, <1>1, <1>2, <1>3 DEF CommandGoes, Plain
<1> QED
  BY Zenon, <1>4

LEMMA Stamps ==
  ASSUME Types, NEW p \in Peers
  PROVE  RequestStamp(p) \in Keys /\ Request(RequestStamp(p)) \in Packets
         /\ Request(RequestStamp(p)) # Acceptance /\ Acceptance \in Packets
         /\ Refusal \in Packets /\ Signal \in Packets /\ Refusal # Acceptance /\ Signal # Acceptance
<1>1. RequestStamp(p) \in Keys
  BY PairingBounds DEF RequestStamp, Types, TypeOK, Keys
<1> QED
  BY Zenon, <1>1 DEF Packets, Keys, Request, Acceptance, Refusal, Signal

CommandAction(p) == User(p) \/ CommandStep(p)

LEMMA CommandIs ==
  ASSUME Types, NEW p \in Peers, CommandAction(p)
  PROVE  \E c : CommandGoes(p, c)
<1>0. cmd[p] \in Commands /\ card[p] \in Cards /\ active[p] \in 0 .. MaxLinks
  BY Zenon DEF Types, TypeOK
<1>1. CASE RequestPair(p)
  <2>1. CASE Accept(p, "request", card[p])
    BY Zenon, <1>1, <2>1, GoesTransition, Stamps DEF RequestPair, Accept, PairStates
  <2>2. CASE Transition(p, "Requested", RequestStamp(p), Request(RequestStamp(p)))
    BY Zenon, <1>1, <2>2, GoesTransition, Stamps DEF RequestPair, PairStates
  <2> QED
    BY Zenon, <1>1, <2>1, <2>2 DEF RequestPair
<1>2. CASE PressAccept(p)
  <2> DEFINE c == [IdleCommand EXCEPT !.pc = "accepting", !.shown = card[p]]
  <2>1. c \in Commands /\ c.pc = "accepting" /\ c.link = 0 /\ c.was = "NotPaired" /\ c.expect = "NotPaired"
        /\ c.packet = Nothing
    BY Zenon, <1>0, IdleFields DEF Commands
  <2>2. cmd' = [cmd EXCEPT ![p] = c]
    BY Zenon, <1>2 DEF PressAccept
  <2> HIDE DEF c
  <2>3. CommandGoes(p, c)
    BY Zenon, <2>1, <2>2, IdleFields DEF CommandGoes, Plain
  <2> QED
    BY Zenon, <2>3
<1>3. CASE Unpair(p) \/ ForgetPairing(p)
  <2>0. PICK x \in {"offline", "binding"} : cmd' = [cmd EXCEPT ![p] = [IdleCommand EXCEPT !.pc = x]]
    BY Zenon, <1>3 DEF Unpair, ForgetPairing
  <2> DEFINE c == [IdleCommand EXCEPT !.pc = x]
  <2>1. c \in Commands /\ c.pc = x /\ c.link = 0 /\ c.was = "NotPaired" /\ c.expect = "NotPaired"
        /\ c.packet = Nothing
    <3>1. x \in CommandPcs
      BY DEF CommandPcs
    <3> QED
      BY ZenonT(40), <3>1, IdleFields, CommandPc
  <2>2. cmd' = [cmd EXCEPT ![p] = c]
    BY Zenon, <2>0
  <2> HIDE DEF c
  <2>3. CommandGoes(p, c)
    BY Zenon, <2>1, <2>2, IdleFields DEF CommandGoes, Plain
  <2> QED
    BY Zenon, <2>3
<1>4. CASE CheckShownKey(p)
  <2>1. CASE active[p] # 0 /\ stamp[p] = cmd[p].shown.key
    <3>1. cmd' = [cmd EXCEPT ![p].pc = "confirmed"]
      BY Zenon, <1>4, <2>1 DEF CheckShownKey
    <3> QED
      BY Zenon, <3>1, GoesPc DEF CommandPcs
  <2>2. CASE ~(active[p] # 0 /\ stamp[p] = cmd[p].shown.key)
    <3>1. cmd' = [cmd EXCEPT ![p] = IdleCommand]
      BY Zenon, <1>4, <2>2 DEF CheckShownKey
    <3> QED
      BY Zenon, <3>1, GoesIdle
  <2> QED
    BY Zenon, <2>1, <2>2
<1>5. CASE AcceptPair(p)
  <2>1. CASE active[p] # 0 /\ pairing[p] = "RequestedByPeer"
    <3>1. Accept(p, "accept", cmd[p].shown)
      BY Zenon, <1>5, <2>1 DEF AcceptPair
    <3> QED
      BY Zenon, <2>1, <3>1, GoesTransition, Stamps DEF Accept, PairStates
  <2>2. CASE ~(active[p] # 0 /\ pairing[p] = "RequestedByPeer")
    BY Zenon, <1>5, <2>2, GoesIdle DEF AcceptPair
  <2> QED
    BY Zenon, <2>1, <2>2
<1>6. CASE SendCommand(p)
  <2>1. PICK x \in {"reverting", "saving", "showing"} :
          cmd' = [cmd EXCEPT ![p].pc = x] /\ (x = "saving" => cmd[p].expect = "Paired")
    BY Zenon, <1>6 DEF SendCommand
  <2> QED
    BY Zenon, <2>1, GoesPc DEF CommandPcs
<1>7. CASE ShowRequest(p) \/ Revert(p) \/ UntrustDevice(p)
  BY Zenon, <1>7, GoesIdle DEF ShowRequest, Revert, UntrustDevice
<1>8. CASE PersistTrust(p)
  <2>1. CASE cmd' = [cmd EXCEPT ![p] = IdleCommand]
    BY Zenon, <2>1, GoesIdle
  <2>2. CASE cmd' = [cmd EXCEPT ![p].pc = "reverting"]
    BY Zenon, <2>2, GoesPc DEF CommandPcs
  <2> QED
    BY Zenon, <1>8, <2>1, <2>2 DEF PersistTrust
<1>9. CASE CurrentBinding(p)
  <2> DEFINE x == IF active[p] = 0 THEN "forgetting" ELSE "revoking"
             c == [cmd[p] EXCEPT !.pc = x, !.link = active[p]]
  <2>1. c \in Commands /\ c.pc = x /\ c.link = active[p] /\ c.was = cmd[p].was
        /\ c.expect = cmd[p].expect /\ c.packet = cmd[p].packet
    BY Zenon, <1>0 DEF Commands
  <2>2. cmd' = [cmd EXCEPT ![p] = c] /\ cmd[p].pc = "binding"
    BY Zenon, <1>0, <1>9 DEF CurrentBinding, Types, TypeOK
  <2> HIDE DEF c
  <2>3. CommandGoes(p, c)
    BY Zenon, <2>1, <2>2 DEF CommandGoes, Plain
  <2> QED
    BY Zenon, <2>3
<1>10. CASE RevokePairing(p)
  <2>1. cmd' = [cmd EXCEPT ![p].pc = "telling"] \/ cmd' = [cmd EXCEPT ![p].pc = "forgetting"]
    BY Zenon, <1>10 DEF RevokePairing
  <2> QED
    BY Zenon, <2>1, GoesPc DEF CommandPcs
<1>11. CASE TellUnpaired(p)
  BY Zenon, <1>11, GoesPc DEF TellUnpaired, CommandPcs
<1> QED
  BY Zenon, <1>1, <1>2, <1>3, <1>4, <1>5, <1>6, <1>7, <1>8, <1>9, <1>10, <1>11
     DEF CommandAction, User, CommandStep

-----------------------------------------------------------------------------
(* What a step of a reader does to it.                                     *)

ReaderPcs == {"idle", "applying", "replying", "saving", "resetting", "revoking", "forgetting", "showing"}

LEMMA ReaderFields ==
  ASSUME NEW r \in Readers
  PROVE  /\ r.pc \in ReaderPcs /\ r.packet \in Packets \cup {Nothing} /\ r.reply \in Packets \cup {Nothing}
         /\ r.next \in {"showing", "saving", "revoking"} /\ r.on \in 0 .. MaxLinks /\ r.shows \in Cards
BY Zenon DEF Readers, ReaderPcs

LEMMA ReaderPc ==
  ASSUME NEW r \in Readers, NEW x \in ReaderPcs
  PROVE  LET d == [r EXCEPT !.pc = x] IN
         /\ d \in Readers /\ d.pc = x /\ d.packet = r.packet /\ d.reply = r.reply /\ d.next = r.next
BY Zenon DEF Readers, ReaderPcs

LEMMA IdleReaderFields ==
  /\ IdleReader \in Readers /\ IdleReader.pc = "idle" /\ IdleReader.packet = Nothing
  /\ IdleReader.reply = Nothing /\ IdleReader.next = "showing"
<1>1. IdleReader \in Readers
  BY IdleFields, PairingBounds DEF IdleReader, Readers
<1> QED
  BY Zenon, <1>1 DEF IdleReader

\* A reader that has nothing to do with an acceptance.
Mute(r) == r.packet # Acceptance /\ r.reply # Acceptance /\ r.pc # "saving" /\ r.next # "saving"

\* The reader of p on l goes on with r.
ReaderGoes(p, l, r) ==
  /\ r \in Readers /\ reader' = [reader EXCEPT ![p][l] = r]
  /\ r.pc = "applying" => r.packet # Nothing
  /\ Mute(reader[p][l]) /\ pairing[p] # "Paired" /\ chan[p][l] \in Seq(Packets \ {Acceptance}) => Mute(r)

LEMMA ReaderIdles ==
  ASSUME NEW p \in Peers, NEW l \in Links, reader' = [reader EXCEPT ![p][l] = IdleReader]
  PROVE  ReaderGoes(p, l, IdleReader)
BY Zenon, IdleReaderFields, IdleFields DEF ReaderGoes, Mute

LEMMA ReaderGoesPc ==
  ASSUME Types, NEW p \in Peers, NEW l \in Links, NEW x \in ReaderPcs \ {"applying", "saving"},
         reader' = [reader EXCEPT ![p][l].pc = x]
  PROVE  ReaderGoes(p, l, [reader[p][l] EXCEPT !.pc = x])
<1>1. reader[p][l] \in Readers
  BY DEF Types, TypeOK
<1> DEFINE d == [reader[p][l] EXCEPT !.pc = x]
<1>2. d \in Readers /\ d.pc = x /\ d.packet = reader[p][l].packet /\ d.reply = reader[p][l].reply
      /\ d.next = reader[p][l].next
  BY Zenon, <1>1, ReaderPc
<1>3. reader' = [reader EXCEPT ![p][l] = d]
  BY Zenon, <1>1
<1> HIDE DEF d
<1> QED
  BY Zenon, <1>2, <1>3 DEF ReaderGoes, Mute, d

LEMMA PacketKinds ==
  ASSUME NEW m \in Packets
  PROVE  /\ m # Nothing /\ m.t \in Keys
         /\ m = Acceptance \/ m = Refusal \/ m = Signal \/ m.kind = "request"
         /\ m.kind \in {"accept", "refuse", "signal", "request"}
         /\ (m.kind = "accept" <=> m = Acceptance) /\ (m.kind = "refuse" <=> m = Refusal)
         /\ (m.kind = "signal" <=> m = Signal)
BY PairingBounds DEF Packets, Nothing, Acceptance, Refusal, Signal, Request, Keys

\* PairingHandler::receive pairs a session only on an acceptance.
LEMMA ReceiveIs ==
  ASSUME Types, NEW p \in Peers, NEW m \in Packets, m # Signal
  PROVE  /\ \E s \in PairStates, t \in Keys : Receive(p, m) = <<s, t>>
         /\ Receive(p, m)[1] \in PairStates /\ Receive(p, m)[2] \in Keys
         /\ Receive(p, m)[1] = "Paired" => pairing[p] = "Paired" \/ m = Acceptance
<1>1. pairing[p] \in PairStates /\ stamp[p] \in Keys
  BY Zenon DEF Types, TypeOK
<1>2. "NotPaired" \in PairStates /\ "Paired" \in PairStates /\ "RequestedByPeer" \in PairStates
  BY Zenon DEF PairStates
<1>3. m.t \in Keys
  BY Zenon, PacketKinds
<1>4. CASE m.kind = "refuse"
  BY Zenon, <1>1, <1>2, <1>4 DEF Receive
<1>5. CASE m.kind = "accept"
  <2>1. m = Acceptance
    BY Zenon, <1>5, PacketKinds
  <2>2. Receive(p, m) = IF pairing[p] = "Requested" THEN <<"Paired", stamp[p]>> ELSE <<pairing[p], stamp[p]>>
    BY Zenon, <1>5 DEF Receive
  <2> QED
    BY <1>1, <1>2, <2>1, <2>2
<1>6. CASE m.kind = "request"
  <2>1. Receive(p, m) = <<"RequestedByPeer", m.t>> \/ Receive(p, m) = <<pairing[p], stamp[p]>>
    BY Zenon, <1>6 DEF Receive
  <2> QED
    BY <1>1, <1>2, <1>3, <2>1
<1> QED
  BY Zenon, <1>4, <1>5, <1>6, PacketKinds

LEMMA ReplyIs ==
  ASSUME NEW p \in Peers, NEW m \in Packets
  PROVE  /\ Reply(p, m) \in Packets \cup {Nothing}
         /\ Reply(p, m) = Acceptance => pairing[p] = "Paired"
<1>1. Reply(p, m) = Nothing \/ (Reply(p, m) = Acceptance /\ pairing[p] = "Paired") \/ Reply(p, m) = Refusal
  BY Zenon DEF Reply
<1>2. Acceptance \in Packets /\ Refusal \in Packets /\ Refusal # Acceptance /\ Nothing # Acceptance
  BY Zenon DEF Packets, Acceptance, Refusal, Nothing
<1> QED
  BY Zenon, <1>1, <1>2

LEMMA AppliedToIs ==
  ASSUME Types, NEW p \in Peers, NEW l \in Links, NEW m
  PROVE  AppliedTo(p, l, m) \in {0, active[p]} /\ AppliedTo(p, l, m) \in 0 .. MaxLinks
<1>1. active[p] \in 0 .. MaxLinks /\ 0 \in 0 .. MaxLinks
  BY PairingBounds DEF Types, TypeOK
<1>2. AppliedTo(p, l, m) \in {0, active[p]}
  BY Zenon DEF AppliedTo
<1> QED
  BY Zenon, <1>1, <1>2

LEMMA CardOfIs ==
  ASSUME NEW s \in PairStates, NEW t \in Keys
  PROVE  CardOf(<<s, t>>) \in Cards
<1>1. NoPrompt \in Cards /\ 0 \in Keys
  BY IdleFields, PairingBounds DEF Keys
<1>2. \/ CardOf(<<s, t>>) = NoPrompt
      \/ CardOf(<<s, t>>) = [prompt |-> "PairRequestedByPeer", key |-> t]
      \/ CardOf(<<s, t>>) = [prompt |-> "PairRequested", key |-> 0]
  BY Zenon DEF CardOf
<1> QED
  BY <1>1, <1>2 DEF Cards

LEMMA ReaderIs ==
  ASSUME Types, NEW p \in Peers, NEW l \in Links, ReaderStep(p, l)
  PROVE  \E r : ReaderGoes(p, l, r)
<1>0. reader[p][l] \in Readers /\ chan[p][l] \in Seq(Packets)
  BY DEF Types, TypeOK
<1>1. CASE ReadLine(p, l)
  <2> DEFINE m == Head(chan[p][l])
             r == [reader[p][l] EXCEPT !.pc = "applying", !.packet = m]
  <2>1. m \in Packets /\ chan[p][l] # <<>> /\ (chan[p][l] \in Seq(Packets \ {Acceptance}) => m # Acceptance)
    BY <1>0, <1>1 DEF ReadLine
  <2>2. reader' = [reader EXCEPT ![p][l] = r]
    BY Zenon, <1>0, <1>1 DEF ReadLine, Types, TypeOK
  <2> HIDE DEF m
  <2>3. r \in Readers /\ r.pc = "applying" /\ r.packet = m /\ r.reply = reader[p][l].reply
        /\ r.next = reader[p][l].next
    BY Zenon, <1>0, <2>1 DEF Readers
  <2> HIDE DEF r
  <2>4. ReaderGoes(p, l, r)
    BY Zenon, <2>1, <2>2, <2>3, PacketKinds DEF ReaderGoes, Mute
  <2> QED
    BY Zenon, <2>4
<1>2. CASE ApplyPairPacket(p, l)
  <2> DEFINE m == reader[p][l].packet
             on == AppliedTo(p, l, m)
             state == Receive(p, m)
             reply == Reply(p, m)
             after == AfterReceive(p, state)
             pc == IF reply # Nothing THEN "replying" ELSE after
             r == [pc |-> pc, packet |-> Nothing, reply |-> reply, next |-> after, on |-> on,
                   shows |-> CardOf(state)]
  <2>1. m \in Packets /\ m # Signal
    BY Zenon, <1>0, <1>2, ReaderFields DEF ApplyPairPacket, Types, Applying
  <2>2. CASE on = 0
    BY Zenon, <1>2, <2>2, ReaderIdles DEF ApplyPairPacket
  <2>3. CASE on # 0
    <3>1. reader' = [reader EXCEPT ![p][l] = r]
      BY Zenon, <1>2, <2>3 DEF ApplyPairPacket
    <3>2. on \in 0 .. MaxLinks
      BY Zenon, AppliedToIs
    <3>3. reply \in Packets \cup {Nothing} /\ (reply = Acceptance => pairing[p] = "Paired")
      BY Zenon, <2>1, ReplyIs
    <3>4. CardOf(state) \in Cards
      BY Zenon, <2>1, ReceiveIs, CardOfIs
    <3>5. after \in {"showing", "saving", "revoking"}
          /\ (after = "saving" => pairing[p] = "Paired" \/ m = Acceptance)
      BY Zenon, <2>1, ReceiveIs DEF AfterReceive
    <3> HIDE DEF m, on, state, reply, after
    <3>6. pc \in ReaderPcs /\ pc # "applying" /\ (pc = "saving" => after = "saving")
      BY Zenon, <3>5 DEF ReaderPcs
    <3> HIDE DEF pc
    <3>7. r \in Readers
      BY Zenon, <3>2, <3>3, <3>4, <3>5, <3>6 DEF Readers, ReaderPcs
    <3>8. r.pc = pc /\ r.packet = Nothing /\ r.reply = reply /\ r.next = after
      BY Zenon
    <3> HIDE DEF r
    <3>9. ReaderGoes(p, l, r)
      BY Zenon, <3>1, <3>3, <3>5, <3>6, <3>7, <3>8, IdleFields DEF ReaderGoes, Mute, m
    <3> QED
      BY Zenon, <3>9
  <2> QED
    BY Zenon, <2>2, <2>3
<1>3. CASE ApplySignal(p, l) \/ ShowReceived(p, l)
  BY Zenon, <1>3, ReaderIdles DEF ApplySignal, ShowReceived
<1>4. CASE SendReply(p, l)
  <2> DEFINE r == [reader[p][l] EXCEPT !.pc = reader[p][l].next, !.reply = Nothing]
  <2>1. reader' = [reader EXCEPT ![p][l] = r]
    BY Zenon, <1>0, <1>4 DEF SendReply, Types, TypeOK
  <2>2. r \in Readers /\ r.pc = reader[p][l].next /\ r.packet = reader[p][l].packet /\ r.reply = Nothing
        /\ r.next = reader[p][l].next /\ r.pc # "applying"
    BY Zenon, <1>0 DEF Readers
  <2> HIDE DEF r
  <2>3. ReaderGoes(p, l, r)
    BY Zenon, <2>1, <2>2, IdleFields DEF ReaderGoes, Mute
  <2> QED
    BY Zenon, <2>3
<1>5. CASE SaveTrust(p, l) \/ ResetPairing(p, l) \/ RevokeAfterUnpair(p, l) \/ ForgetTrust(p, l)
  <2>1. PICK x \in {"showing", "resetting", "forgetting"} : reader' = [reader EXCEPT ![p][l].pc = x]
    BY Zenon, <1>5 DEF SaveTrust, ResetPairing, RevokeAfterUnpair, ForgetTrust
  <2> QED
    BY Zenon, <2>1, ReaderGoesPc DEF ReaderPcs
<1> QED
  BY Zenon, <1>1, <1>2, <1>3, <1>4, <1>5 DEF ReaderStep

-----------------------------------------------------------------------------
(* What a step of a command does to the rest.                              *)

\* The session of p is at v with timestamp t.
SessionGoes(p, v, t) ==
  /\ v \in PairStates /\ t \in Keys
  /\ pairing' = [pairing EXCEPT ![p] = v] /\ stamp' = [stamp EXCEPT ![p] = t]

LEMMA SessionStays ==
  ASSUME Types, NEW p \in Peers, pairing' = pairing, stamp' = stamp
  PROVE  SessionGoes(p, pairing[p], stamp[p])
BY Zenon DEF SessionGoes, Types, TypeOK

LEMMA SessionSet ==
  ASSUME Types, NEW p \in Peers, NEW v, NEW t, SessionGoes(p, v, t)
  PROVE  /\ pairing' \in [Peers -> PairStates] /\ stamp' \in [Peers -> Keys] /\ pairing'[p] = v
         /\ \A q \in Peers : q # p => pairing'[q] = pairing[q]
BY Zenon DEF SessionGoes, Types, TypeOK

\* Only an acceptance pairs; only a revert brings back a request of the peer.
LEMMA CommandSession ==
  ASSUME Types, NEW p \in Peers, CommandAction(p)
  PROVE  \E v, t :
           /\ SessionGoes(p, v, t)
           /\ v = "Paired" => pairing[p] = "Paired" \/ approved' # {} \/ cmd[p].was = "Paired"
           /\ v = "RequestedByPeer" =>
                \/ pairing[p] = "RequestedByPeer"
                \/ cmd[p].was = "RequestedByPeer" /\ active[p] = cmd[p].link
<1>0. pairing[p] \in PairStates /\ stamp[p] \in Keys /\ pairing \in [Peers -> PairStates]
      /\ stamp \in [Peers -> Keys] /\ cmd[p] \in Commands /\ 0 \in Keys
  BY PairingBounds DEF Types, TypeOK, Keys
<1>1. CASE UNCHANGED <<pairing, stamp>>
  BY Zenon, <1>0, <1>1, SessionStays
<1>2. ASSUME NEW a, NEW b, Accept(p, a, b) PROVE SessionGoes(p, "Paired", stamp[p]) /\ approved' # {}
  BY Zenon, <1>0, <1>2 DEF Accept, Transition, SessionGoes, PairStates
<1>3. CASE RequestPair(p)
  <2>1. CASE Accept(p, "request", card[p])
    BY <1>2, <2>1
  <2>2. CASE Transition(p, "Requested", RequestStamp(p), Request(RequestStamp(p)))
    <3>1. SessionGoes(p, "Requested", RequestStamp(p))
      BY Zenon, <2>2, Stamps DEF Transition, SessionGoes, PairStates
    <3> QED
      BY <3>1
  <2> QED
    BY Zenon, <1>3, <2>1, <2>2 DEF RequestPair
<1>4. CASE AcceptPair(p)
  BY Zenon, <1>1, <1>2, <1>4 DEF AcceptPair
<1>5. CASE Revert(p)
  <2>1. CASE active[p] = cmd[p].link /\ active[p] # 0 /\ pairing[p] = cmd[p].expect
    <3>1. SessionGoes(p, cmd[p].was, cmd[p].wasStamp)
      BY Zenon, <1>0, <1>5, <2>1, CommandFields DEF Revert, SessionGoes
    <3> QED
      BY Zenon, <2>1, <3>1
  <2>2. CASE ~(active[p] = cmd[p].link /\ active[p] # 0 /\ pairing[p] = cmd[p].expect)
    BY Zenon, <1>1, <1>5, <2>2 DEF Revert
  <2> QED
    BY Zenon, <2>1, <2>2
<1>6. CASE ForgetPairing(p)
  <2>1. SessionGoes(p, "NotPaired", 0)
    BY Zenon, <1>0, <1>6 DEF ForgetPairing, SessionGoes, PairStates
  <2> QED
    BY <2>1
<1>7. CASE RevokePairing(p)
  <2>1. CASE active[p] = cmd[p].link
    <3>1. SessionGoes(p, "NotPaired", stamp[p])
      BY Zenon, <1>0, <1>7, <2>1 DEF RevokePairing, SessionGoes, PairStates
    <3> QED
      BY <3>1
  <2>2. CASE active[p] # cmd[p].link
    BY Zenon, <1>1, <1>7, <2>2 DEF RevokePairing
  <2> QED
    BY Zenon, <2>1, <2>2
<1>8. CASE \/ PressAccept(p) \/ Unpair(p) \/ CheckShownKey(p) \/ SendCommand(p) \/ ShowRequest(p)
           \/ PersistTrust(p) \/ CurrentBinding(p) \/ TellUnpaired(p) \/ UntrustDevice(p)
  BY Zenon, <1>1, <1>8 DEF PressAccept, Unpair, CheckShownKey, SendCommand, ShowRequest, PersistTrust,
                    CurrentBinding, TellUnpaired,
                    UntrustDevice, session
<1> QED
  BY Zenon, <1>3, <1>4, <1>5, <1>6, <1>7, <1>8 DEF CommandAction, User, CommandStep

\* What is sent is the command's packet or a refusal.
LEMMA CommandSends ==
  ASSUME Types, NEW p \in Peers, CommandAction(p)
  PROVE  \/ chan' = chan
         \/ \E m \in Packets : (m = cmd[p].packet \/ m = Refusal) /\ \E l : Send(p, l, m)
<1>1. CASE SendCommand(p)
  <2>1. cmd[p].packet \in Packets \cup {Nothing}
    BY Zenon, CommandFields DEF Types, TypeOK
  <2>2. CASE cmd[p].packet = Nothing
    BY Zenon, <1>1, <2>2 DEF SendCommand, Send
  <2> QED
    BY Zenon, <1>1, <2>1, <2>2 DEF SendCommand
<1>2. CASE TellUnpaired(p)
  BY Zenon, <1>2, Stamps DEF TellUnpaired
<1>3. CASE ~SendCommand(p) /\ ~TellUnpaired(p)
  BY Zenon, <1>3 DEF CommandAction, User, CommandStep, RequestPair, PressAccept, Unpair, CheckShownKey, AcceptPair,
       ShowRequest, PersistTrust, Revert, ForgetPairing, CurrentBinding, RevokePairing, UntrustDevice, wire
<1> QED
  BY Zenon, <1>1, <1>2, <1>3

\* What is approved is approved on the link of the session.
LEMMA CommandApproves ==
  ASSUME Types, NEW p \in Peers, CommandAction(p)
  PROVE  /\ approved' \subseteq Approvals
         /\ \A a \in approved' :
              \/ a \in approved
              \/ /\ a.asked = origin[p] /\ a.on = active[p] /\ active[p] # 0
                 /\ pairing[p] = "RequestedByPeer"
         /\ approved \subseteq approved'
<1>0. active[p] \in 0 .. MaxLinks /\ origin[p] \in 0 .. MaxLinks /\ stamp[p] \in Keys /\ card[p] \in Cards
      /\ cmd[p].shown \in Cards /\ approved \subseteq Approvals
  BY Zenon, CommandFields DEF Types, TypeOK
<1>1. ASSUME NEW command \in {"request", "accept"}, NEW shown \in Cards, Accept(p, command, shown), active[p] # 0
      PROVE  /\ approved' \subseteq Approvals
             /\ \A a \in approved' :
                  \/ a \in approved
                  \/ /\ a.asked = origin[p] /\ a.on = active[p] /\ active[p] # 0
                     /\ pairing[p] = "RequestedByPeer"
             /\ approved \subseteq approved'
  <2> DEFINE x == [by |-> p, command |-> command, shown |-> shown, key |-> stamp[p],
                   asked |-> origin[p], on |-> active[p]]
  <2>1. active[p] \in Links
    BY <1>0, <1>1, PairingBounds DEF Links
  <2>2. x \in Approvals
    BY Zenon, <1>0, <2>1 DEF Approvals
  <2>3. x.asked = origin[p] /\ x.on = active[p]
    BY Zenon
  <2>4. approved' = approved \cup {x} /\ pairing[p] = "RequestedByPeer"
    BY Zenon, <1>1 DEF Accept
  <2> HIDE DEF x
  <2> QED
    BY Zenon, <1>0, <1>1, <2>2, <2>3, <2>4
<1>2. CASE approved' = approved
  BY Zenon, <1>0, <1>2
<1>3. CASE RequestPair(p)
  BY Zenon, <1>0, <1>1, <1>2, <1>3 DEF RequestPair
<1>4. CASE AcceptPair(p)
  BY Zenon, <1>0, <1>1, <1>2, <1>4 DEF AcceptPair, history
<1>5. CASE ~RequestPair(p) /\ ~AcceptPair(p)
  BY Zenon, <1>2, <1>5 DEF CommandAction, User, CommandStep, PressAccept, Unpair, CheckShownKey, SendCommand,
       ShowRequest, PersistTrust, Revert, ForgetPairing, CurrentBinding, RevokePairing, TellUnpaired, UntrustDevice, history
<1> QED
  BY Zenon, <1>3, <1>4, <1>5

\* The rest of the state.
LEMMA CommandKeeps ==
  ASSUME Types, NEW p \in Peers, CommandAction(p)
  PROVE  /\ UNCHANGED <<active, up, made, opening, reader, expiring, noticed, now, origin>>
         /\ asked' \in 0 .. MaxCommands /\ card' \in [Peers -> Cards]
         /\ trust' \subseteq Peers /\ (trust' \subseteq trust \/ cmd[p].pc = "saving")
<1>0. /\ asked \in 0 .. MaxCommands /\ card \in [Peers -> Cards] /\ trust \subseteq Peers
      /\ stamp[p] \in Keys /\ 0 \in Keys /\ NoPrompt \in Cards
  BY IdleFields, PairingBounds DEF Types, TypeOK, Keys
<1>1. UNCHANGED <<active, up, made, opening, reader, expiring, noticed, now, origin>>
  <2>1. CASE RequestPair(p) \/ PressAccept(p) \/ Unpair(p) \/ CheckShownKey(p) \/ AcceptPair(p)
             \/ ShowRequest(p)
    BY Zenon, <2>1 DEF RequestPair, PressAccept, Unpair, CheckShownKey, AcceptPair, ShowRequest, wire, session, history
  <2>2. CASE PersistTrust(p) \/ Revert(p) \/ ForgetPairing(p) \/ CurrentBinding(p) \/ RevokePairing(p) \/ UntrustDevice(p) \/ SendCommand(p)
             \/ TellUnpaired(p)
    BY Zenon, <2>2 DEF PersistTrust, Revert, ForgetPairing, CurrentBinding, RevokePairing, UntrustDevice, SendCommand, TellUnpaired, wire, session, history
  <2> QED
    BY Zenon, <2>1, <2>2 DEF CommandAction, User, CommandStep
<1>2. asked' \in 0 .. MaxCommands
  <2>1. asked' = asked \/ (asked < MaxCommands /\ asked' = asked + 1)
    BY Zenon DEF CommandAction, User, CommandStep, RequestPair, PressAccept, Unpair, CheckShownKey, AcceptPair,
       ShowRequest, PersistTrust, Revert, ForgetPairing, CurrentBinding, RevokePairing, UntrustDevice, SendCommand, TellUnpaired
  <2> QED
    BY <1>0, <2>1, PairingBounds
<1>3. card' \in [Peers -> Cards]
  <2>1. CASE ShowRequest(p)
    <3> DEFINE y == [prompt |-> "PairRequested", key |-> IF active[p] = cmd[p].link THEN stamp[p] ELSE 0]
    <3>1. y \in Cards
      BY Zenon, <1>0 DEF Cards
    <3>2. card' = [card EXCEPT ![p] = y]
      BY Zenon, <2>1 DEF ShowRequest
    <3> QED
      BY Zenon, <1>0, <3>1, <3>2
  <2>2. CASE ~ShowRequest(p)
    <3>1. card' = card \/ card' = [card EXCEPT ![p] = NoPrompt]
      BY Zenon, <2>2 DEF CommandAction, User, CommandStep, RequestPair, PressAccept, Unpair, CheckShownKey, AcceptPair,
         PersistTrust, Revert, ForgetPairing, CurrentBinding, RevokePairing, UntrustDevice, SendCommand, TellUnpaired
    <3> QED
      BY Zenon, <1>0, <3>1
  <2> QED
    BY Zenon, <2>1, <2>2
<1>4. trust' = trust \/ trust' = trust \ {p} \/ (cmd[p].pc = "saving" /\ trust' = trust \cup {p})
  BY Zenon DEF CommandAction, User, CommandStep, RequestPair, PressAccept, Unpair, CheckShownKey, AcceptPair,
     ShowRequest, PersistTrust, Revert, ForgetPairing, CurrentBinding, RevokePairing, UntrustDevice, SendCommand, TellUnpaired
<1> QED
  BY Zenon, <1>0, <1>1, <1>2, <1>3, <1>4

-----------------------------------------------------------------------------
(* What a step of a reader does to the rest.                               *)

LEMMA ReaderSession ==
  ASSUME Types, NEW p \in Peers, NEW l \in Links, ReaderStep(p, l)
  PROVE  /\ \E v, t :
              /\ SessionGoes(p, v, t)
              /\ v = "Paired" => pairing[p] = "Paired" \/ reader[p][l].packet = Acceptance
              /\ v = "RequestedByPeer" => \/ pairing[p] = "RequestedByPeer" /\ origin' = origin
                                          \/ origin' = [origin EXCEPT ![p] = active[p]]
         /\ origin' \in {origin, [origin EXCEPT ![p] = active[p]]}
<1>0. pairing[p] \in PairStates /\ stamp[p] \in Keys /\ 0 \in Keys /\ reader[p][l] \in Readers
  BY PairingBounds DEF Types, TypeOK, Keys
<1>1. CASE UNCHANGED <<pairing, stamp, origin>>
  BY Zenon, <1>0, <1>1, SessionStays
<1>2. CASE ApplyPairPacket(p, l)
  <2> DEFINE m == reader[p][l].packet
             on == AppliedTo(p, l, m)
             state == Receive(p, m)
  <2>1. m \in Packets /\ m # Signal
    BY Zenon, <1>0, <1>2, ReaderFields DEF ApplyPairPacket, Types, Applying
  <2>2. CASE on = 0
    <3>1. UNCHANGED <<pairing, stamp, origin>>
      BY Zenon, <1>2, <2>2 DEF ApplyPairPacket
    <3> QED
      BY Zenon, <1>1, <3>1
  <2>3. CASE on # 0
    <3>1. on = active[p]
      BY Zenon, <2>3, AppliedToIs
    <3>2. /\ pairing' = [pairing EXCEPT ![p] = state[1]] /\ stamp' = [stamp EXCEPT ![p] = state[2]]
          /\ origin' = IF state[1] = "RequestedByPeer" /\ pairing[p] # "RequestedByPeer"
                         THEN [origin EXCEPT ![p] = on] ELSE origin
      BY Zenon, <1>2, <2>3 DEF ApplyPairPacket
    <3>3. state[1] \in PairStates /\ state[2] \in Keys
          /\ (state[1] = "Paired" => pairing[p] = "Paired" \/ m = Acceptance)
      BY Zenon, <2>1, ReceiveIs
    <3> HIDE DEF m, on, state
    <3>4. SessionGoes(p, state[1], state[2])
      BY Zenon, <3>2, <3>3 DEF SessionGoes
    <3> QED
      BY Zenon, <3>1, <3>2, <3>3, <3>4 DEF m
  <2> QED
    BY Zenon, <2>2, <2>3
<1>3. CASE ResetPairing(p, l)
  <2>1. CASE active[p] = reader[p][l].on /\ active[p] # 0
    <3>1. SessionGoes(p, "NotPaired", 0) /\ origin' = origin
      BY Zenon, <1>0, <1>3, <2>1 DEF ResetPairing, SessionGoes, PairStates, history
    <3> QED
      BY <3>1
  <2>2. CASE ~(active[p] = reader[p][l].on /\ active[p] # 0)
    BY Zenon, <1>1, <1>3, <2>2 DEF ResetPairing, history
  <2> QED
    BY Zenon, <2>1, <2>2
<1>4. CASE RevokeAfterUnpair(p, l)
  <2>1. CASE active[p] = reader[p][l].on /\ active[p] # 0
    <3>1. SessionGoes(p, "NotPaired", stamp[p]) /\ origin' = origin
      BY Zenon, <1>0, <1>4, <2>1 DEF RevokeAfterUnpair, SessionGoes, PairStates, history, Types, TypeOK
    <3> QED
      BY SMTT(20), <3>1
  <2>2. CASE ~(active[p] = reader[p][l].on /\ active[p] # 0)
    BY Zenon, <1>1, <1>4, <2>2 DEF RevokeAfterUnpair, history
  <2> QED
    BY Zenon, <2>1, <2>2
<1>5. CASE \/ ReadLine(p, l) \/ ApplySignal(p, l) \/ SendReply(p, l) \/ SaveTrust(p, l)
           \/ ForgetTrust(p, l) \/ ShowReceived(p, l)
  <2>1. UNCHANGED <<pairing, stamp, origin>>
    BY Zenon, <1>5 DEF ReadLine, ApplySignal, SendReply, SaveTrust, ForgetTrust, ShowReceived, session, history
  <2> QED
    BY Zenon, <1>1, <2>1
<1> QED
  BY Zenon, <1>2, <1>3, <1>4, <1>5 DEF ReaderStep

LEMMA ReaderSends ==
  ASSUME Types, NEW p \in Peers, NEW l \in Links, ReaderStep(p, l)
  PROVE  \/ chan' = chan
         \/ chan[p][l] # <<>> /\ chan' = [chan EXCEPT ![p][l] = Tail(@)]
         \/ \E m \in Packets : (m = reader[p][l].reply \/ m = Refusal) /\ \E k : Send(p, k, m)
<1>0. reader[p][l].reply \in Packets \cup {Nothing} /\ Refusal \in Packets
  BY ReaderFields, Stamps DEF Types, TypeOK
<1>1. ASSUME NEW k, Send(p, k, Nothing) PROVE chan' = chan
  BY Zenon, <1>1 DEF Send
<1>2. CASE SendReply(p, l)
  BY Zenon, <1>0, <1>1, <1>2 DEF SendReply
<1>3. CASE ApplySignal(p, l)
  BY Zenon, <1>0, <1>1, <1>3 DEF ApplySignal
<1>4. CASE ReadLine(p, l)
  BY Zenon, <1>4 DEF ReadLine
<1>5. CASE \/ ApplyPairPacket(p, l) \/ SaveTrust(p, l) \/ ResetPairing(p, l) \/ RevokeAfterUnpair(p, l)
           \/ ForgetTrust(p, l) \/ ShowReceived(p, l)
  BY Zenon, <1>5 DEF ApplyPairPacket, SaveTrust, ResetPairing, RevokeAfterUnpair, ForgetTrust, ShowReceived, wire
<1> QED
  BY Zenon, <1>2, <1>3, <1>4, <1>5 DEF ReaderStep

LEMMA ReaderKeeps ==
  ASSUME Types, NEW p \in Peers, NEW l \in Links, ReaderStep(p, l)
  PROVE  /\ UNCHANGED <<active, up, made, opening, cmd, expiring, now, asked, approved>>
         /\ card' \in [Peers -> Cards] /\ noticed' \subseteq Peers
         /\ trust' \subseteq Peers /\ (trust' \subseteq trust \/ reader[p][l].pc = "saving")
<1>1. UNCHANGED <<active, up, made, opening, cmd, expiring, now, asked, approved>>
  <2>1. CASE ReadLine(p, l) \/ ApplyPairPacket(p, l) \/ ApplySignal(p, l) \/ SendReply(p, l)
    BY Zenon, <2>1 DEF ReadLine, ApplyPairPacket, ApplySignal, SendReply, session, wire, history
  <2>2. CASE SaveTrust(p, l) \/ ResetPairing(p, l) \/ RevokeAfterUnpair(p, l) \/ ForgetTrust(p, l)
             \/ ShowReceived(p, l)
    BY Zenon, <2>2 DEF SaveTrust, ResetPairing, RevokeAfterUnpair, ForgetTrust, ShowReceived, session, wire, history
  <2> QED
    BY Zenon, <2>1, <2>2 DEF ReaderStep
<1>2. card' = card \/ card' = [card EXCEPT ![p] = reader[p][l].shows]
  BY ZenonT(40) DEF ReaderStep, ReadLine, ApplyPairPacket, ApplySignal, SendReply, SaveTrust, ResetPairing,
     RevokeAfterUnpair, ForgetTrust, ShowReceived
<1>3. card' \in [Peers -> Cards]
  <2>1. reader[p][l].shows \in Cards
    BY SMTT(20), ReaderFields DEF Types, TypeOK
  <2> QED
    BY ZenonT(40), <1>2, <2>1 DEF Types, TypeOK
<1>4. noticed' = noticed \/ noticed' = noticed \cup {p}
  BY ZenonT(40) DEF ReaderStep, ReadLine, ApplyPairPacket, ApplySignal, SendReply, SaveTrust, ResetPairing,
     RevokeAfterUnpair, ForgetTrust, ShowReceived
<1>5. trust' = trust \/ trust' = trust \ {p} \/ (reader[p][l].pc = "saving" /\ trust' = trust \cup {p})
  BY Zenon DEF ReaderStep, ReadLine, ApplyPairPacket, ApplySignal, SendReply, SaveTrust, ResetPairing,
     RevokeAfterUnpair, ForgetTrust, ShowReceived
<1> QED
  BY Zenon, <1>1, <1>3, <1>4, <1>5 DEF Types, TypeOK

-----------------------------------------------------------------------------
(* The invariants.                                                         *)

\* While nobody has accepted a key, nothing of an acceptance is anywhere:
\* not in a state, a command or its revert, a trust store, a connection that
\* has read one, a queue, or a reader.
Silent ==
  approved = {} =>
    /\ trust = {}
    /\ \A p \in Peers : pairing[p] # "Paired" /\ Plain(cmd[p])
    /\ \A p \in Peers, l \in Links :
         /\ opening[p][l] # "paired" /\ Mute(reader[p][l])
         /\ chan[p][l] \in Seq(Packets \ {Acceptance})

\* A request that waits for an answer, or that a revert would bring back,
\* was read on the link the session has; a link is registered once.
LinkedAt(p) ==
  /\ pairing[p] = "RequestedByPeer" /\ active[p] # 0 => origin[p] = active[p]
  /\ cmd[p].was = "RequestedByPeer" /\ active[p] # 0 /\ active[p] = cmd[p].link => origin[p] = active[p]
  /\ cmd[p].pc = "binding" => cmd[p].was # "RequestedByPeer"
  /\ \A l \in Links : /\ opening[p][l] # "done" => active[p] # l /\ cmd[p].link # l
                      /\ l > made => opening[p][l] = "no"

Linked == \A p \in Peers : LinkedAt(p)

PairInv == Types /\ Silent /\ Linked /\ AcceptedOnItsLink

LEMMA SentSilent ==
  ASSUME chan \in [Peers -> [Links -> Seq(Packets)]], NEW p \in Peers, NEW l, up \subseteq Links,
         NEW m \in Packets \ {Acceptance}, Send(p, l, m),
         \A q \in Peers, k \in Links : chan[q][k] \in Seq(Packets \ {Acceptance})
  PROVE  \A q \in Peers, k \in Links : chan'[q][k] \in Seq(Packets \ {Acceptance})
<1> SUFFICES ASSUME NEW q \in Peers, NEW k \in Links PROVE chan'[q][k] \in Seq(Packets \ {Acceptance})
  BY Zenon
<1>1. chan'[q][k] = chan[q][k] \/ chan'[q][k] = Append(chan[q][k], m)
  BY ZenonT(40), Sent
<1>2. chan[q][k] \in Seq(Packets \ {Acceptance}) /\ Append(chan[q][k], m) \in Seq(Packets \ {Acceptance})
  OBVIOUS
<1> QED
  BY Zenon, <1>1, <1>2

LEMMA CommandKeepsInv ==
  ASSUME PairInv, NEW p \in Peers, CommandAction(p)
  PROVE  PairInv'
<1>0. Types /\ Silent /\ Linked /\ AcceptedOnItsLink /\ TypeOK /\ Applying
  BY Zenon DEF PairInv, Types
<1>1. PICK c : CommandGoes(p, c)
  BY Zenon, <1>0, CommandIs
<1>2. PICK v, t : /\ SessionGoes(p, v, t)
                  /\ v = "Paired" => pairing[p] = "Paired" \/ approved' # {} \/ cmd[p].was = "Paired"
                  /\ v = "RequestedByPeer" => \/ pairing[p] = "RequestedByPeer"
                                              \/ cmd[p].was = "RequestedByPeer" /\ active[p] = cmd[p].link
  BY Zenon, <1>0, CommandSession
<1>3. /\ pairing' \in [Peers -> PairStates] /\ stamp' \in [Peers -> Keys] /\ pairing'[p] = v
      /\ \A q \in Peers : q # p => pairing'[q] = pairing[q]
  BY Zenon, <1>0, <1>2, SessionSet
<1>4. /\ cmd' \in [Peers -> Commands] /\ cmd'[p] = c /\ \A q \in Peers : q # p => cmd'[q] = cmd[q]
  BY Zenon, <1>0, <1>1 DEF CommandGoes, TypeOK
<1>5. /\ UNCHANGED <<active, up, made, opening, reader, expiring, noticed, now, origin>>
      /\ asked' \in 0 .. MaxCommands /\ card' \in [Peers -> Cards]
      /\ trust' \subseteq Peers /\ (trust' \subseteq trust \/ cmd[p].pc = "saving")
  BY Zenon, <1>0, CommandKeeps
<1>6. /\ approved' \subseteq Approvals /\ approved \subseteq approved'
      /\ \A a \in approved' :
           \/ a \in approved
           \/ /\ a.asked = origin[p] /\ a.on = active[p] /\ active[p] # 0
              /\ pairing[p] = "RequestedByPeer"
  BY Zenon, <1>0, CommandApproves
<1>7. chan' \in [Peers -> [Links -> Seq(Packets)]]
  BY ZenonT(40), <1>0, CommandSends, Sent DEF TypeOK
<1>8. Types'
  BY ZenonT(40), <1>0, <1>3, <1>4, <1>5, <1>6, <1>7 DEF Types, TypeOK, Applying
<1>9. Silent'
  <2> SUFFICES ASSUME approved' = {} PROVE /\ trust' = {}
                                           /\ \A q \in Peers : pairing'[q] # "Paired" /\ Plain(cmd'[q])
                                           /\ \A q \in Peers, l \in Links :
                                                /\ opening'[q][l] # "paired" /\ Mute(reader'[q][l])
                                                /\ chan'[q][l] \in Seq(Packets \ {Acceptance})
    BY SMTT(20) DEF Silent, Plain, Mute
  <2>1. /\ trust = {} /\ \A q \in Peers : pairing[q] # "Paired" /\ Plain(cmd[q])
        /\ \A q \in Peers, l \in Links : /\ opening[q][l] # "paired" /\ Mute(reader[q][l])
                                         /\ chan[q][l] \in Seq(Packets \ {Acceptance})
    BY Zenon, <1>0, <1>6 DEF Silent
  <2>2. trust' = {} /\ v # "Paired" /\ Plain(c)
    BY Zenon, <1>1, <1>2, <1>5, <2>1 DEF Plain, CommandGoes
  <2>3. \A q \in Peers, l \in Links : chan'[q][l] \in Seq(Packets \ {Acceptance})
    <3>1. cmd[p].packet # Acceptance /\ Refusal # Acceptance
      BY Zenon, <1>0, <2>1, Stamps DEF Plain
    <3> QED
      BY Zenon, <1>0, <2>1, <3>1, CommandSends, SentSilent DEF TypeOK
  <2> QED
    BY ZenonT(40), <1>3, <1>4, <1>5, <2>1, <2>2, <2>3
<1>10. Linked'
  <2> SUFFICES ASSUME NEW q \in Peers PROVE LinkedAt(q)'
    BY Zenon DEF Linked
  <2>1. LinkedAt(q)
    BY Zenon, <1>0 DEF Linked
  <2>u. active' = active /\ origin' = origin /\ opening' = opening /\ made' = made
    BY Zenon, <1>5
  <2>2. CASE q # p
    BY Zenon, <1>3, <1>4, <2>u, <2>1, <2>2 DEF LinkedAt
  <2>3. CASE q = p
    <3>1. \A l \in Links : l # 0
      BY DEF Links
    <3> QED
      BY SMTT(20), <1>1, <1>2, <1>3, <1>4, <2>u, <2>1, <2>3, <3>1 DEF CommandGoes, LinkedAt
  <2> QED
    BY Zenon, <2>2, <2>3
<1>11. AcceptedOnItsLink'
  BY <1>0, <1>6 DEF AcceptedOnItsLink, Linked, LinkedAt
<1> QED
  BY Zenon, <1>8, <1>9, <1>10, <1>11 DEF PairInv

LEMMA ReaderKeepsInv ==
  ASSUME PairInv, NEW p \in Peers, NEW l \in Links, ReaderStep(p, l)
  PROVE  PairInv'
<1>0. Types /\ Silent /\ Linked /\ AcceptedOnItsLink /\ TypeOK /\ Applying
  BY Zenon DEF PairInv, Types
<1>1. PICK r : ReaderGoes(p, l, r)
  BY Zenon, <1>0, ReaderIs
<1>2. PICK v, t : /\ SessionGoes(p, v, t)
                  /\ v = "Paired" => pairing[p] = "Paired" \/ reader[p][l].packet = Acceptance
                  /\ v = "RequestedByPeer" => \/ pairing[p] = "RequestedByPeer" /\ origin' = origin
                                              \/ origin' = [origin EXCEPT ![p] = active[p]]
  BY Zenon, <1>0, ReaderSession
<1>3. /\ pairing' \in [Peers -> PairStates] /\ stamp' \in [Peers -> Keys] /\ pairing'[p] = v
      /\ \A q \in Peers : q # p => pairing'[q] = pairing[q]
  BY Zenon, <1>0, <1>2, SessionSet
<1>4. /\ reader' \in [Peers -> [Links -> Readers]] /\ reader'[p][l] = r
      /\ \A q \in Peers, k \in Links : <<q, k>> # <<p, l>> => reader'[q][k] = reader[q][k]
  BY Zenon, <1>0, <1>1 DEF ReaderGoes, TypeOK
<1>5. /\ UNCHANGED <<active, up, made, opening, cmd, expiring, now, asked, approved>>
      /\ card' \in [Peers -> Cards] /\ noticed' \subseteq Peers
      /\ trust' \subseteq Peers /\ (trust' \subseteq trust \/ reader[p][l].pc = "saving")
  BY Zenon, <1>0, ReaderKeeps
<1>6. /\ origin' \in [Peers -> 0 .. MaxLinks] /\ (origin'[p] = origin[p] \/ origin'[p] = active[p])
      /\ \A q \in Peers : q # p => origin'[q] = origin[q]
  <2>1. origin' = origin \/ origin' = [origin EXCEPT ![p] = active[p]]
    BY Zenon, <1>0, ReaderSession
  <2> QED
    BY Zenon, <1>0, <2>1 DEF TypeOK
<1>7. /\ chan' \in [Peers -> [Links -> Seq(Packets)]]
      /\ (/\ reader[p][l].reply # Acceptance
          /\ \A q \in Peers, k \in Links : chan[q][k] \in Seq(Packets \ {Acceptance})) =>
            \A q \in Peers, k \in Links : chan'[q][k] \in Seq(Packets \ {Acceptance})
  <2>1. CASE chan' = chan
    BY Zenon, <1>0, <2>1 DEF TypeOK
  <2>2. CASE chan[p][l] # <<>> /\ chan' = [chan EXCEPT ![p][l] = Tail(@)]
    <3>1. chan[p][l] \in Seq(Packets) /\ Tail(chan[p][l]) \in Seq(Packets)
      BY <1>0, <2>2 DEF TypeOK
    <3>2. chan' \in [Peers -> [Links -> Seq(Packets)]] /\ chan'[p][l] = Tail(chan[p][l])
          /\ \A q \in Peers, k \in Links : <<q, k>> # <<p, l>> => chan'[q][k] = chan[q][k]
      BY Zenon, <1>0, <2>2, <3>1 DEF TypeOK
    <3>3. chan[p][l] \in Seq(Packets \ {Acceptance}) => Tail(chan[p][l]) \in Seq(Packets \ {Acceptance})
      BY <2>2
    <3> QED
      BY Zenon, <3>2, <3>3
  <2>3. ASSUME NEW m \in Packets, m = reader[p][l].reply \/ m = Refusal, NEW k, Send(p, k, m)
        PROVE  <1>7
    <3>1. Refusal # Acceptance
      BY Zenon, <1>0, Stamps
    <3> QED
      BY Zenon, <1>0, <2>3, <3>1, Sent, SentSilent DEF TypeOK
  <2> QED
    BY Zenon, <1>0, <2>1, <2>2, <2>3, ReaderSends
<1>8. Types'
  <2>1. TypeOK'
    BY Zenon, <1>0, <1>3, <1>4, <1>5, <1>6, <1>7 DEF TypeOK
  <2>2. Applying'
    BY <1>0, <1>1, <1>4 DEF Applying, ReaderGoes
  <2> QED
    BY Zenon, <2>1, <2>2 DEF Types
<1>9. Silent'
  <2> SUFFICES ASSUME approved = {} PROVE /\ trust' = {}
                                          /\ \A q \in Peers : pairing'[q] # "Paired" /\ Plain(cmd[q])
                                          /\ \A q \in Peers, k \in Links :
                                               /\ opening[q][k] # "paired" /\ Mute(reader'[q][k])
                                               /\ chan'[q][k] \in Seq(Packets \ {Acceptance})
    BY ZenonT(40), <1>5 DEF Silent, Plain, Mute
  <2>1. /\ trust = {} /\ \A q \in Peers : pairing[q] # "Paired" /\ Plain(cmd[q])
        /\ \A q \in Peers, k \in Links : /\ opening[q][k] # "paired" /\ Mute(reader[q][k])
                                         /\ chan[q][k] \in Seq(Packets \ {Acceptance})
    BY Zenon, <1>0 DEF Silent
  <2>2. trust' = {} /\ v # "Paired" /\ Mute(r) /\ reader[p][l].reply # Acceptance
    BY Zenon, <1>1, <1>2, <1>5, <2>1 DEF Mute, ReaderGoes
  <2> QED
    BY ZenonT(40), <1>3, <1>4, <1>7, <2>1, <2>2
<1>10. Linked'
  <2> SUFFICES ASSUME NEW q \in Peers PROVE LinkedAt(q)'
    BY SMTT(20) DEF Linked
  <2>1. LinkedAt(q)
    BY Zenon, <1>0 DEF Linked
  <2>u. active' = active /\ cmd' = cmd /\ opening' = opening /\ made' = made
    BY Zenon, <1>5
  <2>2. CASE q # p
    BY Zenon, <1>3, <1>6, <2>u, <2>1, <2>2 DEF LinkedAt
  <2>3. CASE q = p
    <3>1. v = "RequestedByPeer" => (pairing[p] = "RequestedByPeer" /\ origin'[p] = origin[p]) \/ origin'[p] = active[p]
      BY Zenon, <1>0, <1>2 DEF TypeOK
    <3> QED
      BY Zenon, <1>3, <1>6, <2>u, <2>1, <2>3, <3>1 DEF LinkedAt
  <2> QED
    BY Zenon, <2>2, <2>3
<1>11. AcceptedOnItsLink'
  BY Zenon, <1>0, <1>5 DEF AcceptedOnItsLink
<1> QED
  BY Zenon, <1>8, <1>9, <1>10, <1>11 DEF PairInv

LEMMA ClockKeepsInv ==
  ASSUME PairInv, Tick
  PROVE  PairInv'
<1>0. Types /\ Silent /\ Linked /\ AcceptedOnItsLink /\ TypeOK /\ Applying
  BY Zenon DEF PairInv, Types
<1>1. TypeOK'
  BY SMTT(20), <1>0, PairingBounds DEF TypeOK, Tick, session, wire, history
<1>2. Applying'
  BY Zenon, <1>0 DEF Applying, Tick
<1>3. Silent'
  BY Zenon, <1>0 DEF Silent, TypeOK, Tick, session, wire, history
<1>4. Linked'
  BY <1>0 DEF Linked, LinkedAt, TypeOK, Tick, session, wire, history, Links
<1>5. AcceptedOnItsLink'
  BY Zenon, <1>0 DEF AcceptedOnItsLink, Tick, history
<1> QED
  BY Zenon, <1>1, <1>2, <1>3, <1>4, <1>5 DEF PairInv, Types

LEMMA LinkFailsKeepsInv ==
  ASSUME PairInv, NEW l \in Links, LinkFails(l)
  PROVE  PairInv'
<1>0. Types /\ Silent /\ Linked /\ AcceptedOnItsLink /\ TypeOK /\ Applying
  BY SMTT(20) DEF PairInv, Types
<1>1. TypeOK'
  BY Zenon, <1>0, PairingBounds DEF TypeOK, LinkFails, session, wire, history
<1>2. Applying'
  BY Zenon, <1>0 DEF Applying, LinkFails
<1>3. Silent'
  BY Zenon, <1>0 DEF Silent, TypeOK, LinkFails, session, wire, history
<1>4. Linked'
  BY <1>0 DEF Linked, LinkedAt, TypeOK, LinkFails, session, wire, history, Links
<1>5. AcceptedOnItsLink'
  BY Zenon, <1>0 DEF AcceptedOnItsLink, LinkFails, history
<1> QED
  BY Zenon, <1>1, <1>2, <1>3, <1>4, <1>5 DEF PairInv, Types

LEMMA DisconnectedKeepsInv ==
  ASSUME PairInv, NEW p \in Peers, Disconnected(p)
  PROVE  PairInv'
<1>0. Types /\ Silent /\ Linked /\ AcceptedOnItsLink /\ TypeOK /\ Applying
  BY Zenon DEF PairInv, Types
<1>1. TypeOK'
  BY <1>0, PairingBounds DEF TypeOK, Disconnected, session, wire, history
<1>2. Applying'
  BY Zenon, <1>0 DEF Applying, Disconnected
<1>3. Silent'
  BY Zenon, <1>0 DEF Silent, TypeOK, Disconnected, session, wire, history
<1>4. Linked'
  BY SMTT(20), <1>0 DEF Linked, LinkedAt, TypeOK, Disconnected, session, wire, history, Links
<1>5. AcceptedOnItsLink'
  BY Zenon, <1>0 DEF AcceptedOnItsLink, Disconnected, history
<1> QED
  BY Zenon, <1>1, <1>2, <1>3, <1>4, <1>5 DEF PairInv, Types

LEMMA ReconcileKeepsInv ==
  ASSUME PairInv, NEW p \in Peers, Reconcile(p)
  PROVE  PairInv'
<1>0. Types /\ Silent /\ Linked /\ AcceptedOnItsLink /\ TypeOK /\ Applying
  BY Zenon DEF PairInv, Types
<1>1. TypeOK'
  BY <1>0, PairingBounds DEF TypeOK, Reconcile, session, wire, history, NoPrompt, Cards, Keys
<1>2. Applying'
  BY Zenon, <1>0 DEF Applying, Reconcile
<1>3. Silent'
  BY Zenon, <1>0 DEF Silent, TypeOK, Reconcile, session, wire, history
<1>4. Linked'
  BY <1>0 DEF Linked, LinkedAt, TypeOK, Reconcile, session, wire, history, Links
<1>5. AcceptedOnItsLink'
  BY Zenon, <1>0 DEF AcceptedOnItsLink, Reconcile, history
<1> QED
  BY Zenon, <1>1, <1>2, <1>3, <1>4, <1>5 DEF PairInv, Types

LEMMA NoticeKeepsInv ==
  ASSUME PairInv, NEW p \in Peers, NoticeWindowEnds(p)
  PROVE  PairInv'
<1>0. Types /\ Silent /\ Linked /\ AcceptedOnItsLink /\ TypeOK /\ Applying
  BY Zenon DEF PairInv, Types
<1>1. TypeOK'
  BY Zenon, <1>0, PairingBounds DEF TypeOK, NoticeWindowEnds, session, wire, history
<1>2. Applying'
  BY Zenon, <1>0 DEF Applying, NoticeWindowEnds
<1>3. Silent'
  BY Zenon, <1>0 DEF Silent, TypeOK, NoticeWindowEnds, session, wire, history
<1>4. Linked'
  BY <1>0 DEF Linked, LinkedAt, TypeOK, NoticeWindowEnds, session, wire, history, Links
<1>5. AcceptedOnItsLink'
  BY Zenon, <1>0 DEF AcceptedOnItsLink, NoticeWindowEnds, history
<1> QED
  BY Zenon, <1>1, <1>2, <1>3, <1>4, <1>5 DEF PairInv, Types

LEMMA ExpireKeepsInv ==
  ASSUME PairInv, NEW p \in Peers, ExpirePairing(p)
  PROVE  PairInv'
<1>0. Types /\ Silent /\ Linked /\ AcceptedOnItsLink /\ TypeOK /\ Applying
  BY Zenon DEF PairInv, Types
<1>1. TypeOK'
  BY Zenon, <1>0, PairingBounds DEF TypeOK, ExpirePairing, session, wire, history, PairStates, Negotiating
<1>2. Applying'
  BY Zenon, <1>0 DEF Applying, ExpirePairing
<1>3. Silent'
  BY Zenon, <1>0 DEF Silent, TypeOK, ExpirePairing, session, wire, history, PairStates
<1>4. Linked'
  BY <1>0 DEF Linked, LinkedAt, TypeOK, ExpirePairing, session, wire, history, Links
<1>5. AcceptedOnItsLink'
  BY Zenon, <1>0 DEF AcceptedOnItsLink, ExpirePairing, history
<1> QED
  BY Zenon, <1>1, <1>2, <1>3, <1>4, <1>5 DEF PairInv, Types

LEMMA SignalKeepsInv ==
  ASSUME PairInv, NEW p \in Peers, SendSignal(p)
  PROVE  PairInv'
<1>0. Types /\ Silent /\ Linked /\ AcceptedOnItsLink /\ TypeOK /\ Applying
  BY Zenon DEF PairInv, Types
<1>s. Signal \in Packets \ {Acceptance} /\ Send(p, active[p], Signal)
  BY Zenon, <1>0, Stamps DEF SendSignal
<1>t. chan \in [Peers -> [Links -> Seq(Packets)]] /\ up \subseteq Links
  BY Zenon, <1>0 DEF TypeOK
<1>c. chan' \in [Peers -> [Links -> Seq(Packets)]]
  BY Zenon, <1>s, <1>t, Sent
<1>u. /\ UNCHANGED <<pairing, stamp, active, trust, up, made, opening, cmd, reader, noticed, now, asked, origin, approved>>
      /\ card' \in [Peers -> Cards] /\ expiring' \subseteq Peers
  BY Zenon, <1>0, PairingBounds DEF SendSignal, session, history, TypeOK
<1>1. TypeOK'
  BY Zenon, <1>0, <1>c, <1>u DEF TypeOK
<1>2. Applying'
  BY Zenon, <1>0, <1>u DEF Applying
<1>3. Silent'
  <2> SUFFICES ASSUME approved' = {} PROVE Silent'
    BY Zenon DEF Silent
  <2>u. /\ approved' = approved /\ trust' = trust /\ pairing' = pairing /\ cmd' = cmd
        /\ opening' = opening /\ reader' = reader
    BY Zenon, <1>u
  <2>c. \A q \in Peers, k \in Links : chan[q][k] \in Seq(Packets \ {Acceptance})
    BY Zenon, <1>0, <2>u DEF Silent
  <2>1. \A q \in Peers, k \in Links : chan'[q][k] \in Seq(Packets \ {Acceptance})
    BY Zenon, <1>s, <1>t, <2>c, SentSilent
  <2> QED
    BY Zenon, <1>0, <2>u, <2>1 DEF Silent
<1>4. Linked'
  <2>u. /\ pairing' = pairing /\ active' = active /\ cmd' = cmd /\ origin' = origin /\ made' = made
        /\ opening' = opening
    BY Zenon, <1>u
  <2> QED
    BY <1>0, <2>u DEF Linked, LinkedAt
<1>5. AcceptedOnItsLink'
  BY Zenon, <1>0, <1>u DEF AcceptedOnItsLink
<1> QED
  BY Zenon, <1>1, <1>2, <1>3, <1>4, <1>5 DEF PairInv, Types

LEMMA TellKeepsInv ==
  ASSUME PairInv, NEW p \in Peers, TellExpired(p)
  PROVE  PairInv'
<1>0. Types /\ Silent /\ Linked /\ AcceptedOnItsLink /\ TypeOK /\ Applying
  BY Zenon DEF PairInv, Types
<1>s. Refusal \in Packets \ {Acceptance} /\ Send(p, active[p], Refusal)
  BY Zenon, <1>0, Stamps DEF TellExpired
<1>t. chan \in [Peers -> [Links -> Seq(Packets)]] /\ up \subseteq Links
  BY Zenon, <1>0 DEF TypeOK
<1>c. chan' \in [Peers -> [Links -> Seq(Packets)]]
  BY Zenon, <1>s, <1>t, Sent
<1>u. /\ UNCHANGED <<pairing, stamp, active, trust, up, made, opening, cmd, reader, noticed, now, asked, origin, approved>>
      /\ card' \in [Peers -> Cards] /\ expiring' \subseteq Peers
  BY SMTT(20), <1>0, PairingBounds DEF TellExpired, session, history, TypeOK, NoPrompt, Cards, Keys
<1>1. TypeOK'
  BY Zenon, <1>0, <1>c, <1>u DEF TypeOK
<1>2. Applying'
  BY Zenon, <1>0, <1>u DEF Applying
<1>3. Silent'
  <2> SUFFICES ASSUME approved' = {} PROVE Silent'
    BY SMTT(20) DEF Silent
  <2>u. /\ approved' = approved /\ trust' = trust /\ pairing' = pairing /\ cmd' = cmd
        /\ opening' = opening /\ reader' = reader
    BY Zenon, <1>u
  <2>c. \A q \in Peers, k \in Links : chan[q][k] \in Seq(Packets \ {Acceptance})
    BY Zenon, <1>0, <2>u DEF Silent
  <2>1. \A q \in Peers, k \in Links : chan'[q][k] \in Seq(Packets \ {Acceptance})
    BY Zenon, <1>s, <1>t, <2>c, SentSilent
  <2> QED
    BY Zenon, <1>0, <2>u, <2>1 DEF Silent
<1>4. Linked'
  <2>u. /\ pairing' = pairing /\ active' = active /\ cmd' = cmd /\ origin' = origin /\ made' = made
        /\ opening' = opening
    BY Zenon, <1>u
  <2> QED
    BY <1>0, <2>u DEF Linked, LinkedAt
<1>5. AcceptedOnItsLink'
  BY Zenon, <1>0, <1>u DEF AcceptedOnItsLink
<1> QED
  BY Zenon, <1>1, <1>2, <1>3, <1>4, <1>5 DEF PairInv, Types

LEMMA ConnectKeepsInv ==
  ASSUME PairInv, Connect
  PROVE  PairInv'
<1>0. Types /\ Silent /\ Linked /\ AcceptedOnItsLink /\ TypeOK /\ Applying
  BY Zenon DEF PairInv, Types
<1>u. /\ UNCHANGED <<pairing, stamp, active, trust, card, chan, cmd, reader, expiring, noticed, now, asked, origin, approved>>
      /\ made + 1 \in Links /\ made' = made + 1 /\ up' = up \cup {made + 1}
  BY SMTT(20), <1>0, PairingBounds DEF Connect, session, history, TypeOK, Links
<1>o. /\ opening' \in [Peers -> [Links -> {"no", "tls", "paired", "unpaired", "done"}]]
      /\ \A q \in Peers, k \in Links : opening'[q][k] = IF k = made + 1 THEN "tls" ELSE opening[q][k]
  <2>1. /\ opening \in [Peers -> [Links -> {"no", "tls", "paired", "unpaired", "done"}]]
        /\ opening' = [q \in Peers |-> [opening[q] EXCEPT ![made + 1] = "tls"]]
    BY Zenon, <1>0 DEF Connect, TypeOK
  <2> DEFINE n == made + 1
  <2>2. n \in Links /\ opening' = [q \in Peers |-> [opening[q] EXCEPT ![n] = "tls"]]
    BY Zenon, <1>u, <2>1
  <2> HIDE DEF n
  <2>3. \A q \in Peers, k \in Links : opening'[q][k] = IF k = n THEN "tls" ELSE opening[q][k]
    BY <2>1, <2>2
  <2>4. opening' \in [Peers -> [Links -> {"no", "tls", "paired", "unpaired", "done"}]]
    BY ZenonT(40), <2>1, <2>2
  <2> QED
    BY Zenon, <2>3, <2>4 DEF n
<1>1. TypeOK'
  <2>1. made' \in 0 .. MaxLinks /\ up' \subseteq Links
    BY SMTT(20), <1>0, <1>u, PairingBounds DEF TypeOK, Links
  <2> QED
    BY Zenon, <1>0, <1>u, <1>o, <2>1 DEF TypeOK
<1>2. Applying'
  BY Zenon, <1>0, <1>u DEF Applying
<1>3. Silent'
  BY Zenon, <1>0, <1>u, <1>o DEF Silent
<1>4. Linked'
  <2> SUFFICES ASSUME NEW q \in Peers, NEW k \in Links
               PROVE  /\ opening'[q][k] # "done" => active[q] # k /\ cmd[q].link # k
                      /\ k > made + 1 => opening'[q][k] = "no"
    BY SMTT(20), <1>0, <1>u DEF Linked, LinkedAt
  <2>1. /\ opening[q][k] # "done" => active[q] # k /\ cmd[q].link # k
        /\ k > made => opening[q][k] = "no"
    BY <1>0 DEF Linked, LinkedAt
  <2>2. k \in Nat /\ made \in Nat
    BY <1>0, PairingBounds DEF TypeOK, Links
  <2> QED
    BY <1>o, <2>1, <2>2
<1>5. AcceptedOnItsLink'
  BY Zenon, <1>0, <1>u DEF AcceptedOnItsLink
<1> QED
  BY Zenon, <1>1, <1>2, <1>3, <1>4, <1>5 DEF PairInv, Types

LEMMA ReadTrustKeepsInv ==
  ASSUME PairInv, NEW p \in Peers, NEW l \in Links, ReadTrust(p, l)
  PROVE  PairInv'
<1>0. Types /\ Silent /\ Linked /\ AcceptedOnItsLink /\ TypeOK /\ Applying
  BY Zenon DEF PairInv, Types
<1>u. UNCHANGED <<pairing, stamp, active, trust, card, up, made, chan, cmd, reader, expiring, noticed, now, asked, origin, approved>>
  BY SMTT(20) DEF ReadTrust, session, history
<1>o. /\ opening' \in [Peers -> [Links -> {"no", "tls", "paired", "unpaired", "done"}]]
      /\ \A q \in Peers, k \in Links :
           \/ opening'[q][k] = opening[q][k]
           \/ opening[q][k] = "tls" /\ opening'[q][k] = IF p \in trust THEN "paired" ELSE "unpaired"
  BY Zenon, <1>0 DEF ReadTrust, TypeOK
<1>1. TypeOK'
  BY Zenon, <1>0, <1>u, <1>o DEF TypeOK
<1>2. Applying'
  BY ZenonT(40), <1>0, <1>u DEF Applying
<1>3. Silent'
  <2> SUFFICES ASSUME approved = {}
               PROVE  \A q \in Peers, k \in Links : opening'[q][k] # "paired"
    BY Zenon, <1>0, <1>u DEF Silent
  <2>1. p \notin trust /\ \A q \in Peers, k \in Links : opening[q][k] # "paired"
    BY Zenon, <1>0 DEF Silent
  <2> QED
    BY SMTT(20), <1>o, <2>1
<1>4. Linked'
  <2> SUFFICES ASSUME NEW q \in Peers PROVE LinkedAt(q)'
    BY Zenon DEF Linked
  <2>1. LinkedAt(q)
    BY Zenon, <1>0 DEF Linked
  <2>u. /\ pairing' = pairing /\ active' = active /\ cmd' = cmd /\ origin' = origin /\ made' = made
        /\ \A k \in Links : opening'[q][k] = opening[q][k] \/ (opening[q][k] = "tls" /\ opening'[q][k] \in {"paired", "unpaired"})
    BY <1>u, <1>o, SMTT(20)
  <2> QED
    BY ZenonT(40), <2>1, <2>u DEF LinkedAt
<1>5. AcceptedOnItsLink'
  BY Zenon, <1>0, <1>u DEF AcceptedOnItsLink
<1> QED
  BY Zenon, <1>1, <1>2, <1>3, <1>4, <1>5 DEF PairInv, Types

LEMMA RegisterKeepsInv ==
  ASSUME PairInv, NEW p \in Peers, NEW l \in Links, Register(p, l)
  PROVE  PairInv'
<1>0. Types /\ Silent /\ Linked /\ AcceptedOnItsLink /\ TypeOK /\ Applying
  BY Zenon DEF PairInv, Types
<1>u. UNCHANGED <<trust, card, made, chan, cmd, reader, expiring, noticed, now, asked, origin, approved>>
  BY SMTT(20) DEF Register, history
<1>o. /\ opening' \in [Peers -> [Links -> {"no", "tls", "paired", "unpaired", "done"}]]
      /\ opening[p][l] \in {"paired", "unpaired"} /\ opening'[p][l] = "done"
      /\ \A q \in Peers, k \in Links : opening'[q][k] = opening[q][k] \/ (q = p /\ k = l)
  BY Zenon, <1>0 DEF Register, TypeOK
<1>a. /\ active' \in [Peers -> 0 .. MaxLinks] /\ active'[p] = l
      /\ \A q \in Peers : q # p => active'[q] = active[q]
  BY SMTT(20), <1>0, PairingBounds DEF Register, TypeOK, Links
<1>p. /\ pairing' \in [Peers -> PairStates] /\ stamp' \in [Peers -> Keys]
      /\ pairing'[p] = IF opening[p][l] = "paired" THEN "Paired" ELSE "NotPaired"
      /\ \A q \in Peers : q # p => pairing'[q] = pairing[q]
  BY SMTT(20), <1>0, PairingBounds DEF Register, RegisteredPairing, TypeOK, PairStates, Keys
<1>1. TypeOK'
  <2>1. up' \subseteq Links
    BY Zenon, <1>0 DEF Register, TypeOK
  <2> QED
    BY Zenon, <1>0, <1>u, <1>o, <1>a, <1>p, <2>1 DEF TypeOK
<1>2. Applying'
  BY Zenon, <1>0, <1>u DEF Applying
<1>3. Silent'
  <2> SUFFICES ASSUME approved = {}
               PROVE  \A q \in Peers : pairing'[q] # "Paired" /\ \A k \in Links : opening'[q][k] # "paired"
    BY ZenonT(40), <1>0, <1>u DEF Silent
  <2>1. \A q \in Peers : pairing[q] # "Paired" /\ \A k \in Links : opening[q][k] # "paired"
    BY Zenon, <1>0 DEF Silent
  <2>2. pairing'[p] = "NotPaired"
    BY Zenon, <1>p, <2>1
  <2>3. ASSUME NEW q \in Peers PROVE pairing'[q] # "Paired"
    BY Zenon, <1>p, <2>1, <2>2
  <2>4. ASSUME NEW q \in Peers, NEW k \in Links PROVE opening'[q][k] # "paired"
    <3>1. CASE q = p /\ k = l
      BY Zenon, <1>o, <3>1
    <3>2. CASE opening'[q][k] = opening[q][k]
      BY Zenon, <2>1, <3>2
    <3> QED
      BY Zenon, <1>o, <3>1, <3>2
  <2> QED
    BY Zenon, <2>3, <2>4
<1>4. Linked'
  <2> SUFFICES ASSUME NEW q \in Peers PROVE LinkedAt(q)'
    BY Zenon DEF Linked
  <2>1. LinkedAt(q)
    BY Zenon, <1>0 DEF Linked
  <2>u. cmd' = cmd /\ origin' = origin /\ made' = made
    BY Zenon, <1>u
  <2>2. CASE q # p
    BY ZenonT(40), <1>o, <1>a, <1>p, <2>u, <2>1, <2>2 DEF LinkedAt
  <2>3. CASE q = p
    <3>1. pairing'[p] # "RequestedByPeer" /\ active'[p] = l /\ cmd[p].link # l
      BY Zenon, <1>o, <1>a, <1>p, <2>1, <2>3 DEF LinkedAt
    <3>2. ASSUME NEW k \in Links
          PROVE  /\ opening'[p][k] # "done" => l # k /\ cmd[p].link # k
                 /\ k > made => opening'[p][k] = "no"
      <4>1. CASE k = l
        BY Zenon, <1>o, <2>1, <2>3, <4>1 DEF LinkedAt
      <4>2. CASE k # l
        BY <1>o, <2>1, <2>3, <4>2 DEF LinkedAt
      <4> QED
        BY Zenon, <4>1, <4>2
    <3>3. cmd[p].pc = "binding" => cmd[p].was # "RequestedByPeer"
      BY Zenon, <2>1, <2>3 DEF LinkedAt
    <3>4. active'[p] = cmd'[p].link => FALSE
      BY Zenon, <2>u, <3>1
    <3>5. \A k \in Links : /\ opening'[p][k] # "done" => active'[p] # k /\ cmd'[p].link # k
                           /\ k > made' => opening'[p][k] = "no"
      BY Zenon, <2>u, <3>1, <3>2
    <3>6. cmd'[p].pc = "binding" => cmd'[p].was # "RequestedByPeer"
      BY Zenon, <2>u, <3>3
    <3>7. pairing'[p] # "RequestedByPeer"
      BY Zenon, <3>1
    <3> QED
      BY ONLY Zenon, <2>3, <3>4, <3>5, <3>6, <3>7 DEF LinkedAt
  <2> QED
    BY Zenon, <2>2, <2>3
<1>5. AcceptedOnItsLink'
  BY Zenon, <1>0, <1>u DEF AcceptedOnItsLink
<1> QED
  BY Zenon, <1>1, <1>2, <1>3, <1>4, <1>5 DEF PairInv, Types

LEMMA PairInit == Init => PairInv
<1> SUFFICES ASSUME Init PROVE PairInv
  BY SMTT(20)
<1>1. IdleCommand \in Commands /\ Plain(IdleCommand) /\ IdleCommand.link = 0
      /\ IdleCommand.was # "RequestedByPeer" /\ IdleCommand.pc # "binding"
  BY SMTT(20), PairingBounds DEF IdleCommand, Commands, Plain, NoPrompt, Cards, Keys, Nothing, Acceptance, PairStates
<1>2. IdleReader \in Readers /\ Mute(IdleReader) /\ IdleReader.pc # "applying"
  BY PairingBounds DEF IdleReader, Readers, Mute, NoPrompt, Cards, Keys, Nothing, Acceptance
<1>3. NoPrompt \in Cards
  BY PairingBounds DEF NoPrompt, Cards, Keys
<1>4. <<>> \in Seq(Packets) /\ <<>> \in Seq(Packets \ {Acceptance})
  OBVIOUS
<1>5. TypeOK
  BY SMTT(20), <1>1, <1>2, <1>3, <1>4, PairingBounds DEF Init, TypeOK, PairStates, Keys
<1>6. Applying
  BY Zenon, <1>2 DEF Init, Applying
<1>7. Silent
  BY Zenon, <1>1, <1>2, <1>4 DEF Init, Silent
<1>8. Linked
  <2>1. \A l \in Links : l # 0
    BY SMTT(20) DEF Links
  <2> QED
    BY Zenon, <1>1, <2>1 DEF Init, Linked, LinkedAt
<1>9. AcceptedOnItsLink
  BY Zenon DEF Init, AcceptedOnItsLink
<1> QED
  BY Zenon, <1>5, <1>6, <1>7, <1>8, <1>9 DEF PairInv, Types

LEMMA PairStep == PairInv /\ [Next]_vars => PairInv'
<1> SUFFICES ASSUME PairInv, [Next]_vars PROVE PairInv'
  BY Zenon
<1>1. CASE UNCHANGED vars
  <2>1. UNCHANGED <<pairing, stamp, active, trust, card, up, made, opening, chan, cmd, reader, expiring, noticed,
                    now, asked, origin, approved>>
    BY Zenon, <1>1 DEF vars, session, wire, history
  <2>2. TypeOK' = TypeOK /\ Applying' = Applying
    BY Zenon, <2>1 DEF TypeOK, Applying
  <2>3. Silent' = Silent
    BY Zenon, <2>1 DEF Silent
  <2>4. Linked' = Linked
    BY <2>1 DEF Linked, LinkedAt
  <2>5. AcceptedOnItsLink' = AcceptedOnItsLink
    BY Zenon, <2>1 DEF AcceptedOnItsLink
  <2> QED
    BY Zenon, <2>2, <2>3, <2>4, <2>5 DEF PairInv, Types
<1>2. CASE Connect \/ Tick \/ \E l \in Links : LinkFails(l)
  BY Zenon, <1>2, ConnectKeepsInv, ClockKeepsInv, LinkFailsKeepsInv
<1>3. ASSUME NEW p \in Peers, User(p) \/ CommandStep(p) PROVE PairInv'
  BY Zenon, <1>3, CommandKeepsInv DEF CommandAction
<1>4. ASSUME NEW p \in Peers, TimerStep(p) \/ SendSignal(p) \/ Disconnected(p) PROVE PairInv'
  BY Zenon, <1>4, ExpireKeepsInv, TellKeepsInv, ReconcileKeepsInv, NoticeKeepsInv, SignalKeepsInv, DisconnectedKeepsInv
     DEF TimerStep
<1>5. ASSUME NEW p \in Peers, NEW l \in Links, ConnectStep(p, l) \/ ReaderStep(p, l) PROVE PairInv'
  BY Zenon, <1>5, ReadTrustKeepsInv, RegisterKeepsInv, ReaderKeepsInv DEF ConnectStep
<1> QED
  BY Zenon, <1>1, <1>2, <1>3, <1>4, <1>5 DEF Next

\* PairInv holds in every state of every behaviour, whatever the number of
\* links, commands and seconds.
THEOREM PairInvariant == Spec => []PairInv
BY PairInit, PairStep, PTL DEF Spec

\* Every variable of the two peers has its type: no field of a command or a
\* reader is used before the step of device_manager.rs that sets it.
THEOREM PairTypes == Spec => []TypeOK
<1>1. PairInv => TypeOK
  BY Zenon DEF PairInv, Types
<1> QED
  BY <1>1, PairInvariant, PTL

\* No session is paired and no trust record saved before one of the two users
\* accepted: neither crossing requests, nor a request repeated after a refusal
\* or an expiry, nor a link registered with a stale reading of the trust store
\* pairs two devices on its own.
THEOREM SilentCorrect == Spec => []NoSilentPairing
<1>1. PairInv => NoSilentPairing
  BY Zenon DEF PairInv, Silent, NoSilentPairing
<1> QED
  BY <1>1, PairInvariant, PTL

\* An acceptance is given on the link its request was read on, however the
\* links are replaced while the prompt is up or a failed send is reverted.
THEOREM LinkCorrect == Spec => []AcceptedOnItsLink
<1>1. PairInv => AcceptedOnItsLink
  BY Zenon DEF PairInv
<1> QED
  BY <1>1, PairInvariant, PTL

=============================================================================
