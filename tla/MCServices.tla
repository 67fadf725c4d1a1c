----------------------------- MODULE MCServices -----------------------------
(* Components that share no state, for TLC.  A behaviour is one of them:    *)
(* "part" says which; the others stay as they begin, the hub is off.       *)
EXTENDS Handover, QrPairing, RelayTurn, Recovery

CONSTANTS t1, net1, net2, wide, WideCap
CONSTANTS Devices, Conns, GlobalCap, UnauthCap, MaxQueued, Headroom, desk, phone, c1, c2, c3

VARIABLES part
VARIABLES pc, fp, gone, total, unauthenticated, connections, online, allow, box, heard

\* Pairing by QR code.  Two views; or one, and a phone installed again that
\* dials twice, or that scans one code after another.
TwoViews == [views |-> Views, links |-> {}, gens |-> MaxGen]
QrCasts == {TwoViews,
            [views |-> {"page"}, links |-> NewLinks, gens |-> 1],
            [views |-> {"page"}, links |-> {"first"}, gens |-> 2]}

Caps == [n \in Networks |-> IF n = wide THEN WideCap ELSE 2]

\* The TURN quota of the relay: two threads of two networks in one /48.
TurnTiers == [t \in Threads |-> IF t = t1 THEN {net1, wide} ELSE {net2, wide}]

\* The relay's hub: three connections of one network, which they fill.
HubTiers == [c \in Conns |-> {wide}]
Hub == INSTANCE RelayHub WITH Tiers <- Networks, TiersOf <- HubTiers, TierCap <- Caps

hub == <<pc, fp, gone, total, unauthenticated, connections, online, allow, box, heard>>
allVars == <<part, vars, qrVars, turnVars, hub, recoveryVars>>

Off == 0
HubOff ==
  /\ pc = Off /\ fp = Off /\ gone = Off /\ total = Off /\ unauthenticated = Off
  /\ connections = Off /\ online = Off /\ allow = Off /\ box = Off /\ heard = Off

MCInit ==
  /\ part \in {"handover", "qr", "turn", "hub", "recovery"}
  /\ Init /\ QrInit /\ TurnInit /\ RecoveryInit
  /\ part = "qr" \/ cast = TwoViews
  /\ part = "recovery" \/ (initiates /\ plan = CHOOSE some \in Plans : TRUE)
  /\ IF part = "hub" THEN Hub!Init ELSE HubOff

MCNext ==
  /\ UNCHANGED part
  /\ \/ part = "handover" /\ Next /\ UNCHANGED <<qrVars, turnVars, hub, recoveryVars>>
     \/ part = "qr" /\ QrNext /\ UNCHANGED <<vars, turnVars, hub, recoveryVars>>
     \/ part = "turn" /\ TurnNext /\ UNCHANGED <<vars, qrVars, hub, recoveryVars>>
     \/ part = "hub" /\ Hub!Next /\ UNCHANGED <<vars, qrVars, turnVars, recoveryVars>>
     \/ part = "recovery" /\ RecoveryNext /\ UNCHANGED <<vars, qrVars, turnVars, hub>>

MCSpec == MCInit /\ [][MCNext]_allVars

\* Of the hub, what bears on presence.  A connection that ends before it has a device,
\* or gives its slots back, touches no outbox, and a client that vanished does nothing
\* that a silent one does not: those are left to relay_live.  Nothing tells connections
\* or devices apart: they are accepted in one order, and the first is the desk's.
OnlyPresence ==
  part = "hub" => /\ \A c \in Conns : pc[c] \in {"leaving", "closing"} => fp[c] # None
                  /\ \A c \in Conns : pc[c] # "closed" /\ c \notin gone
                  /\ pc[c2] # "none" => pc[c1] # "none"
                  /\ pc[c3] # "none" => pc[c2] # "none"
                  /\ fp[c1] # phone

\* RelayHub: a replaced connection that ends does not take its successor offline.
NewestIsOnline == part = "hub" => Hub!NewestIsOnline

\* RelayHub: what a client was told of its peers, with what is queued for it, is true.
PresenceIsTrue == part = "hub" => Hub!PresenceIsTrue
=============================================================================
