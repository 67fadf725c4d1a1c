------------------------------ MODULE RelayHub ------------------------------
(***************************************************************************)
(* The relay: relay/src/hub.rs (who is online, who allows whom, presence   *)
(* and forwarding), the connection threads of relay/src/server.rs and the  *)
(* connection counts of relay/src/limits.rs.                               *)
(*                                                                         *)
(* The hub and the counts have a mutex each; every step below is what a    *)
(* connection thread does under one of them, or one round of its loop.     *)
(* Each frame counts as one byte of its receiver's queue.                  *)
(***************************************************************************)
EXTENDS Naturals, Sequences, FiniteSets, FiniteSetsExt

CONSTANTS
  Devices,     \* fingerprints
  Conns,       \* connections that may be made, each used once
  Tiers,       \* the networks connections are counted under
  TiersOf,     \* per connection: its own network and, for IPv6, its /48
  GlobalCap,   \* global_connections
  UnauthCap,   \* the part of it unauthenticated sockets may fill
  TierCap,     \* per network: connection_cap
  MaxQueued,   \* MAX_QUEUED_BYTES
  Headroom,    \* CONTROL_HEADROOM
  None

ASSUME RelayAssumption ==
  /\ None \notin Devices \cup Conns /\ IsFiniteSet(Conns)
  /\ TiersOf \in [Conns -> SUBSET Tiers]
  /\ GlobalCap \in Nat /\ UnauthCap \in Nat /\ TierCap \in [Tiers -> Nat]
  /\ MaxQueued \in Nat /\ Headroom \in Nat

VARIABLES
  pc,      \* per connection: where its thread is
  fp,      \* per connection: the device it authenticated as
  gone,    \* connections whose client vanished without a word
  total, unauthenticated, connections, \* NetLimits
  online,  \* per device: the connection the hub holds for it
  allow,   \* per device: its allow set
  box,     \* per connection: its outbox
  heard    \* per connection: the devices its client was told are online

counts == <<total, unauthenticated, connections>>
hub    == <<online, allow, box>>
vars   == <<pc, fp, gone, counts, hub, heard>>

\* accepted: a thread and a global slot; open: a network slot and a nonce;
\* welcomed: authenticated; serving: registered; leaving: serve returned;
\* closing: out of the hub; closed: without its network slot.
PCs == {"none", "accepted", "open", "welcomed", "serving", "leaving", "closing", "closed", "done"}

Presence(d, on) == [kind |-> IF on THEN "online" ELSE "offline", about |-> d]
Msg(d)          == [kind |-> "msg", about |-> d]
Close           == [kind |-> "close", about |-> None]
Frames == {Presence(d, on) : d \in Devices, on \in BOOLEAN} \cup {Msg(d) : d \in Devices} \cup {Close}

\* Every variable has its type.
TypeOK ==
  /\ pc \in [Conns -> PCs]
  /\ fp \in [Conns -> Devices \cup {None}]
  /\ gone \subseteq Conns
  /\ total \in Nat /\ unauthenticated \in Nat /\ connections \in [Tiers -> Nat]
  /\ online \in [Devices -> Conns \cup {None}]
  /\ allow \in [Devices -> SUBSET Devices]
  /\ box \in [Conns -> Seq(Frames)]
  /\ heard \in [Conns -> SUBSET Devices]

Init ==
  /\ pc = [c \in Conns |-> "none"]
  /\ fp = [c \in Conns |-> None]
  /\ gone = {}
  /\ total = 0 /\ unauthenticated = 0 /\ connections = [t \in Tiers |-> 0]
  /\ online = [d \in Devices |-> None]
  /\ allow = [d \in Devices |-> {}]
  /\ box = [c \in Conns |-> <<>>]
  /\ heard = [c \in Conns |-> {}]

-----------------------------------------------------------------------------
(* hub.rs                                                                  *)

\* Outbox::push: forwarded frames stop at MAX_QUEUED_BYTES, control frames at
\* the headroom above it, where the receiver is told to close.
Queued(b, c) == Len(SelectSeq(b[c], LAMBDA f : f # Close))

Taken(b, c, f) ==
  /\ Queued(b, c) + 1 <= MaxQueued + Headroom
  /\ f.kind = "msg" => Queued(b, c) + 1 <= MaxQueued

\* What is sent behind a close, or to a thread that stopped reading, is lost.
Read(b, c) == pc[c] \in {"open", "welcomed", "serving"} /\ \A i \in DOMAIN b[c] : b[c][i] # Close

Push(b, c, f) ==
  CASE Read(b, c) /\ Taken(b, c, f) -> [b EXCEPT ![c] = Append(@, f)]
    [] Read(b, c) /\ ~Taken(b, c, f) /\ f.kind # "msg" -> [b EXCEPT ![c] = Append(@, Close)]
    [] OTHER -> b

\* Outbox::close.
PushClose(b, c) == IF Read(b, c) THEN [b EXCEPT ![c] = Append(@, Close)] ELSE b

\* Hub::mutual: both online and each in the other's allow set.
Mutual(d, e) ==
  /\ online[d] # None /\ online[e] # None /\ d # e
  /\ e \in allow[d] /\ d \in allow[e]
MutualPeers(d) == {e \in Devices : Mutual(d, e)}

\* Hub::presence, to each of a set of devices.
TellAll(b, to, about, on) ==
  FoldSet(LAMBDA e, acc : Push(acc, online[e], Presence(about, on)), b, to)

\* Hub::remove announces the loss to the device's mutual peers.
Removed(b, d) == TellAll(b, MutualPeers(d), d, FALSE)

-----------------------------------------------------------------------------
(* Connection threads: Server::run, handle and websocket.                  *)

\* Counted before the thread exists; past the cap the socket is dropped.
Accept(c) ==
  /\ pc[c] = "none"
  /\ total < GlobalCap /\ unauthenticated < UnauthCap
  /\ pc' = [pc EXCEPT ![c] = "accepted"]
  /\ total' = total + 1 /\ unauthenticated' = unauthenticated + 1
  /\ UNCHANGED <<fp, gone, connections, hub, heard>>

\* A probe, or a handshake that came to nothing.
NoUpgrade(c) ==
  /\ pc[c] = "accepted"
  /\ pc' = [pc EXCEPT ![c] = "closed"]
  /\ UNCHANGED <<fp, gone, counts, hub, heard>>

\* Mutant: a refused socket keeps the count it was refused for.
OpenNetworkCountsRefused(c) ==
  /\ pc[c] = "accepted"
  /\ pc' = [pc EXCEPT ![c] = IF \E t \in TiersOf[c] : connections[t] >= TierCap[t]
                               THEN "closed" ELSE "open"]
  /\ connections' = [t \in Tiers |-> IF t \in TiersOf[c] THEN connections[t] + 1
                                                        ELSE connections[t]]
  /\ UNCHANGED <<fp, gone, total, unauthenticated, hub, heard>>

\* open_network: refused when one of its networks is full.
OpenNetwork(c) ==
  /\ pc[c] = "accepted"
  /\ IF \E t \in TiersOf[c] : connections[t] >= TierCap[t]
       THEN pc' = [pc EXCEPT ![c] = "closed"] /\ UNCHANGED connections
       ELSE /\ pc' = [pc EXCEPT ![c] = "open"]
            /\ connections' = [t \in Tiers |-> IF t \in TiersOf[c] THEN connections[t] + 1
                                                                  ELSE connections[t]]
  /\ UNCHANGED <<fp, gone, total, unauthenticated, hub, heard>>

\* authenticate: the signature holds, the socket moves to the reserved share
\* and is welcomed before it is registered.
Authenticate(c, d) ==
  /\ pc[c] = "open" /\ c \notin gone
  /\ pc' = [pc EXCEPT ![c] = "welcomed"]
  /\ fp' = [fp EXCEPT ![c] = d]
  /\ unauthenticated' = unauthenticated - 1
  /\ UNCHANGED <<gone, total, connections, hub, heard>>

\* Mutant: the connection before is replaced without a word to its peers.
RegisterSilently(c) ==
  LET d == fp[c] IN
  /\ pc[c] = "welcomed"
  /\ pc' = [pc EXCEPT ![c] = "serving"]
  /\ box' = IF online[d] = None THEN box ELSE PushClose(box, online[d])
  /\ online' = [online EXCEPT ![d] = c]
  /\ allow' = [allow EXCEPT ![d] = {}]
  /\ UNCHANGED <<fp, gone, counts, heard>>

\* Hub::register: the connection before is told to close, its mutual peers
\* that it went, and the new one starts with an empty allow set.
Register(c) ==
  LET d == fp[c] IN
  /\ pc[c] = "welcomed"
  /\ pc' = [pc EXCEPT ![c] = "serving"]
  /\ box' = IF online[d] = None THEN box
              ELSE Removed(PushClose(box, online[d]), d)
  /\ online' = [online EXCEPT ![d] = c]
  /\ allow' = [allow EXCEPT ![d] = {}]
  /\ UNCHANGED <<fp, gone, counts, heard>>

\* Hub::set_allow announces every change to both sides; a connection that
\* was replaced changes nothing.
SetAllow(c, fps) ==
  LET d      == fp[c]
      before == MutualPeers(d)
      after  == {e \in fps \ {d} : online[e] # None /\ d \in allow[e]}
      Tell(b, e, on) == Push(Push(b, c, Presence(e, on)), online[e], Presence(d, on))
  IN
  /\ pc[c] = "serving" /\ c \notin gone /\ online[d] = c
  /\ allow' = [allow EXCEPT ![d] = fps \ {d}]
  /\ box' = FoldSet(LAMBDA e, b : Tell(b, e, FALSE),
                    FoldSet(LAMBDA e, b : Tell(b, e, TRUE), box, after \ before),
                    before \ after)
  /\ UNCHANGED <<pc, fp, gone, counts, online, heard>>

\* Hub::forward: to a mutual peer that is not too far behind.
Forward(c, e) ==
  /\ pc[c] = "serving" /\ c \notin gone /\ online[fp[c]] = c
  /\ Mutual(fp[c], e)
  /\ box' = Push(box, online[e], Msg(fp[c]))
  /\ UNCHANGED <<pc, fp, gone, counts, online, allow, heard>>

\* serve returns: its inbox is not read again and its client hears no more.
Leave(c) ==
  /\ pc' = [pc EXCEPT ![c] = "leaving"]
  /\ box' = [box EXCEPT ![c] = <<>>]
  /\ heard' = [heard EXCEPT ![c] = {}]

\* Mutant: the round ends at a close, and the connection serves on.
DrainPastClose(c) ==
  /\ pc[c] \in {"open", "serving"} /\ box[c] # <<>>
  /\ box' = [box EXCEPT ![c] = Tail(@)]
  /\ UNCHANGED <<pc, fp, gone, counts, online, allow, heard>>

\* serve: the outbox is drained to the socket; a close ends the connection.
Drain(c) ==
  LET f == Head(box[c]) IN
  /\ pc[c] \in {"open", "serving"} /\ box[c] # <<>>
  /\ \/ /\ f = Close
        /\ Leave(c)
     \/ /\ f # Close
        /\ box' = [box EXCEPT ![c] = Tail(@)]
        /\ heard' = [heard EXCEPT ![c] = CASE f.kind = "online" -> @ \cup {f.about}
                                           [] f.kind = "offline" -> @ \ {f.about}
                                           [] OTHER -> @]
        /\ UNCHANGED pc
  /\ UNCHANGED <<fp, gone, counts, online, allow>>

\* The client closes, breaks a rule or a limit, or fails to authenticate.
Exit(c) ==
  /\ pc[c] \in {"open", "welcomed", "serving"}
  /\ Leave(c)
  /\ UNCHANGED <<fp, gone, counts, online, allow>>

ClientVanishes(c) ==
  /\ pc[c] \in {"open", "welcomed", "serving"} /\ c \notin gone
  /\ gone' = gone \cup {c}
  /\ UNCHANGED <<pc, fp, counts, hub, heard>>

\* Mutant: only the authentication deadline.
SilenceBeforeAuthOnly(c) ==
  /\ pc[c] = "open" /\ c \in gone
  /\ Leave(c)
  /\ UNCHANGED <<fp, gone, counts, online, allow>>

\* AUTH_TIMEOUT and SILENCE_LIMIT: nothing was heard for a minute.
SilenceLimit(c) ==
  /\ pc[c] \in {"open", "serving"} /\ c \in gone
  /\ Leave(c)
  /\ UNCHANGED <<fp, gone, counts, online, allow>>

\* Mutant: the device is removed whichever connection holds it.
UnregisterAny(c) ==
  LET d == fp[c] IN
  /\ pc[c] = "leaving"
  /\ pc' = [pc EXCEPT ![c] = "closing"]
  /\ box' = IF d = None THEN box ELSE Removed(box, d)
  /\ online' = IF d = None THEN online ELSE [online EXCEPT ![d] = None]
  /\ allow' = IF d = None THEN allow ELSE [allow EXCEPT ![d] = {}]
  /\ UNCHANGED <<fp, gone, counts, heard>>

\* Mutant: left to the next connection of the device.
UnregisterReplaced(c) ==
  /\ pc[c] = "leaving"
  /\ pc' = [pc EXCEPT ![c] = "closing"]
  /\ UNCHANGED <<fp, gone, counts, hub, heard>>

\* Out of the hub first, if the device is still this connection's,
Unregister(c) ==
  LET current == fp[c] # None /\ online[fp[c]] = c IN
  /\ pc[c] = "leaving"
  /\ pc' = [pc EXCEPT ![c] = "closing"]
  /\ box' = IF current THEN Removed(box, fp[c]) ELSE box
  /\ online' = IF current THEN [online EXCEPT ![fp[c]] = None] ELSE online
  /\ allow' = IF current THEN [allow EXCEPT ![fp[c]] = {}] ELSE allow
  /\ UNCHANGED <<fp, gone, counts, heard>>

\* then the close handshake, and the slots are given back as they drop.
CloseNetwork(c) ==
  /\ pc[c] = "closing"
  /\ pc' = [pc EXCEPT ![c] = "closed"]
  /\ connections' = [t \in Tiers |-> IF t \in TiersOf[c] THEN connections[t] - 1
                                                        ELSE connections[t]]
  /\ UNCHANGED <<fp, gone, total, unauthenticated, hub, heard>>

CloseGlobal(c) ==
  /\ pc[c] = "closed"
  /\ pc' = [pc EXCEPT ![c] = "done"]
  /\ total' = total - 1
  /\ unauthenticated' = IF fp[c] = None THEN unauthenticated - 1 ELSE unauthenticated
  /\ UNCHANGED <<fp, gone, connections, hub, heard>>

-----------------------------------------------------------------------------
\* What a connection thread does without being asked.
ThreadStep(c) ==
  \/ Register(c) \/ Drain(c) \/ SilenceLimit(c)
  \/ Unregister(c) \/ CloseNetwork(c) \/ CloseGlobal(c)

ClientStep(c) ==
  \/ Exit(c) \/ ClientVanishes(c)
  \/ \E d \in Devices : Authenticate(c, d) \/ Forward(c, d)
  \/ \E fps \in SUBSET Devices : SetAllow(c, fps)

Next == \E c \in Conns :
  Accept(c) \/ NoUpgrade(c) \/ OpenNetwork(c) \/ ThreadStep(c) \/ ClientStep(c)

Spec == Init /\ [][Next]_vars

\* A connection thread runs on; each round of serve looks at the clock, so a
\* busy outbox does not put off the silence limit.
FairSpec ==
  Spec /\ \A c \in Conns : WF_vars(ThreadStep(c)) /\ WF_vars(SilenceLimit(c))
-----------------------------------------------------------------------------
(* Properties.                                                             *)

Live       == {c \in Conns : pc[c] \notin {"none", "done"}}
Unknown    == {c \in Live : fp[c] = None}
Holding(t) == {c \in Conns :
                 /\ pc[c] \in {"open", "welcomed", "serving", "leaving", "closing"}
                 /\ t \in TiersOf[c]}

\* The counts are the sockets there are: no path of a thread gives a slot
\* back twice or keeps it, and the caps hold.
SlotsBalance ==
  /\ total = Cardinality(Live) /\ total <= GlobalCap
  /\ unauthenticated = Cardinality(Unknown) /\ unauthenticated <= UnauthCap
  /\ \A t \in Tiers : connections[t] = Cardinality(Holding(t)) /\ connections[t] <= TierCap[t]

\* The hub holds no connection whose thread has left it: the device would
\* read as online for ever, there is nobody else to unregister it.
HubHoldsLive ==
  \A d \in Devices : online[d] # None =>
    fp[online[d]] = d /\ pc[online[d]] \in {"serving", "leaving"}

ToldToClose(c) == \E i \in DOMAIN box[c] : box[c][i] = Close

\* The newest connection wins and stays: a connection that serves is the one
\* the hub holds for its device, or it was told to close.
NewestIsOnline ==
  \A c \in Conns : pc[c] = "serving" => online[fp[c]] = c \/ ToldToClose(c)

\* A client's picture of its peers, once it has read its queue, is the hub's:
\* every gain and loss of mutuality reaches both sides, in order.
LastTold(c, d) ==
  LET about == SelectSeq(box[c], LAMBDA f : f.about = d /\ f.kind \in {"online", "offline"})
  IN IF about = <<>> THEN d \in heard[c] ELSE about[Len(about)].kind = "online"

PresenceIsTrue ==
  \A c \in Conns : pc[c] = "serving" /\ ~ToldToClose(c) =>
    \A d \in Devices : LastTold(c, d) <=> Mutual(fp[c], d)

\* A device that vanished does not keep "reading as online to its peer".
VanishedGoesOffline ==
  \A c \in Conns : \A d \in Devices : (c \in gone /\ online[d] = c) ~> online[d] # c

\* A connection that was told to close leaves nothing behind.
ClosedLeaves == \A c \in Conns : (pc[c] = "serving" /\ ToldToClose(c)) ~> pc[c] = "done"

=============================================================================
