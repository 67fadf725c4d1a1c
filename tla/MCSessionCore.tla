--------------------------- MODULE MCSessionCore ---------------------------
(* Instances of SessionCore for TLC. *)
EXTENDS SessionCore, FiniteSets

\* The peer restarts before it connects through the relay.
MCInstance == [s \in Sockets |-> IF s \in Relay THEN "second" ELSE "first"]
\* A phone that paired again by QR presents a new certificate.
MCCert == [s \in Sockets |-> IF s \in Qr THEN "new" ELSE "old"]

\* The connections of a paired phone, with nothing but the peer, the readers
\* and the WebRTC transport moving: no unpairing, no monitor, no shutdown, and
\* so nothing that is refused for one of them.
PairedAttachStep(s) ==
  \/ ReadSupersede(s) \/ ClaimFlight(s) \/ FlightTaken(s)
  \/ PassHolder(s) \/ PeerRestarted(s) \/ LoseRace(s) \/ DecideRace(s)
  \/ RegisterInstead(s) \/ NotAdopted(s) \/ AdoptSocket(s) \/ FinishAdoption(s)
  \/ RegisterLink(s) \/ FinishRegistration(s)

PairedNext ==
  \/ \E s \in Sockets :
       \/ FinishSecureLink(s, TRUE) \/ AttachOther(s) \/ PairedAttachStep(s)
       \/ ReaderStep(s) \/ PeerEnds(s)
  \/ \E p \in Procs : DisconnectStep(p)
  \/ WebrtcStep
  \/ FallSilent
  \/ RaceWindowEnds

PairedFairSpec == Init /\ [][PairedNext]_vars /\ Fairness

\* Any two of the connections: a third never begins, which fairness does not
\* ask of it.
TwoConnections == Cardinality({s \in Sockets : pc[s] # "idle"}) <= 2
=============================================================================
