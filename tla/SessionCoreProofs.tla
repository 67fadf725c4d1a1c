------------------------- MODULE SessionCoreProofs -------------------------
(***************************************************************************)
(* Proofs about SessionCore for any number of sockets, monitors, WebRTC    *)
(* attempts and generations.  IInv is inductive: each action keeps it      *)
(* (one lemma per action or family of actions), so it holds always, and    *)
(* the safety properties follow from it.                                   *)
(***************************************************************************)
EXTENDS SessionCore, TLAPS

\* The initial state of a daemon without a session satisfies the invariant.
LEMMA InitInv == Init => IInv
<1> SUFFICES ASSUME Init PROVE IInv
  BY Zenon
<1> USE SocketsAssumption, MonitorsAssumption, BoundsAssumption DEF Init, Gens
<1>1. TypeOK
  <2>0. hasLink \in BOOLEAN /\ answering \in BOOLEAN /\ recent \in BOOLEAN
    BY Zenon
  <2>1. SessionTypes
    BY <2>0 DEF SessionTypes, States, PairStates, Handovers
  <2>2. LinkTypes
    BY Zenon DEF LinkTypes
  <2>3. ThreadTypes
    BY Zenon DEF ThreadTypes, PCs, AttachPcs
  <2>4. QED
    BY Zenon, <2>1, <2>2, <2>3 DEF TypeOK
<1>2. GenerationsAgree /\ PeerWithHandover /\ FreshGenerations
  BY DEF GenerationsAgree, PeerWithHandover, FreshGenerations
<1>3. ThreadInv
  BY Zenon DEF ThreadInv, Bound, Procs
<1>4. OpenLinkHasReader
  BY Zenon DEF OpenLinkHasReader, LinkOpen
<1>5. QED
  BY Zenon, <1>1, <1>2, <1>3, <1>4 DEF IInv

-----------------------------------------------------------------------------
(* Families of steps that leave the links and the threads' bindings alone. *)

\* A thread that holds no binding moves on without one: the steps of
\* attach_bootstrap_link before it adopts or registers.
LEMMA UnboundMove ==
  ASSUME IInv, TypeOK', NEW s \in Sockets, NEW l \in PCs \ Bound,
         pc[s] \notin Bound, pc' = [pc EXCEPT ![s] = l],
         UNCHANGED <<sessionVars, webrtcVars, linkVars, bind, at, old>>
  PROVE  IInv'
<1>1. GenerationsAgree' /\ PeerWithHandover' /\ FreshGenerations'
  BY Zenon DEF IInv, GenerationsAgree, PeerWithHandover, FreshGenerations,
         sessionVars, webrtcVars, linkVars
<1>2. ThreadInv'
    BY DEF IInv, ThreadInv, sessionVars, linkVars
<1>3. OpenLinkHasReader'
    BY DEF IInv, OpenLinkHasReader, LinkOpen, Bound, sessionVars, linkVars
<1>4. QED
  BY Zenon, <1>1, <1>2, <1>3 DEF IInv

\* A step that touches only the WebRTC peer, the pairing, the clocks or a
\* socket keeps the invariant if it keeps the types and PeerWithHandover.
LEMMA QuietStep ==
  ASSUME IInv, TypeOK', PeerWithHandover',
         UNCHANGED <<state, gen, hasLink, cancelled, linkVars, procVars>>
  PROVE  IInv'
<1>1. GenerationsAgree' /\ FreshGenerations'
  BY Zenon DEF IInv, GenerationsAgree, FreshGenerations, linkVars
<1>2. ThreadInv' /\ OpenLinkHasReader'
  BY Zenon DEF IInv, ThreadInv, OpenLinkHasReader, LinkOpen, linkVars, procVars
<1>3. QED
  BY Zenon, <1>1, <1>2 DEF IInv

\* A session with a link has registered a generation.
LEMMA LinkedGeneration ==
  ASSUME TypeOK, GenerationsAgree, FreshGenerations, hasLink
  PROVE  gen \in Gens
BY Zenon DEF TypeOK, SessionTypes, GenerationsAgree, FreshGenerations

\* What the steps of a thread that holds a binding have in common: thread p,
\* alone, goes to l, and keeps its binding unless it is over.
Moves(p, l) ==
  /\ pc' = [pc EXCEPT ![p] = l]
  /\ UNCHANGED <<gen, epoch, carrier>>
  /\ closed \subseteq closed'
  /\ \A q \in Procs : q # p \/ l # "done" => bind'[q] = bind[q]
  /\ \A s \in Sockets : s # p \/ l # "done" => at'[s] = at[s]

Later == {"spawned", "reading", "ended", "dropping", "closing", "shutting", "done"}

\* Such a thread stays bound to a generation that exists, and its reader to
\* the socket of its epoch.
LEMMA ThreadMove ==
  ASSUME TypeOK, ThreadInv, NEW p \in Procs, NEW l \in Later, pc[p] \in Bound, Moves(p, l),
         \A s \in Sockets : s # p => old'[s] = old[s],
         l = "shutting" => bind[p] \in closed'
  PROVE  ThreadInv'
<1>1. \A q \in Procs : pc'[q] \in Bound =>
        pc[q] \in Bound /\ bind'[q] = bind[q] /\ (q # p => pc'[q] = pc[q])
  BY Zenon DEF TypeOK, ThreadTypes, Moves, Bound
<1>2. \A q \in Procs : pc'[q] \in Bound => bind'[q] \in 1 .. gen'
  BY Zenon, <1>1 DEF ThreadInv, Moves
<1>3. ASSUME NEW s \in Sockets, pc'[s] \in Bound
      PROVE  /\ at'[s] <= epoch'[bind'[s]]
             /\ at'[s] = epoch'[bind'[s]] =>
                  carrier'[bind'[s]] = s /\ (pc'[s] = "shutting" => bind'[s] \in closed')
             /\ pc'[s] = "registered" /\ old'[s] # NoSocket => bind'[s] > 1
  <2>1. s \in Procs /\ pc[s] \in Bound /\ bind'[s] = bind[s] /\ (s # p => pc'[s] = pc[s])
    BY Zenon, <1>1, <1>3 DEF Procs
  <2>2. at'[s] = at[s] /\ epoch' = epoch /\ carrier' = carrier /\ closed \subseteq closed'
    BY Zenon, <1>3 DEF TypeOK, ThreadTypes, Moves, Bound
  <2>3. s = p => pc'[s] = l
    BY Zenon, <2>1 DEF TypeOK, ThreadTypes, Moves
  <2>4. QED
    BY Zenon, <2>1, <2>2, <2>3 DEF ThreadInv, Later
<1>4. QED
  BY Zenon, <1>2, <1>3 DEF ThreadInv

\* ... and an open link keeps the thread that watches its socket.
LEMMA ReaderMove ==
  ASSUME TypeOK, OpenLinkHasReader, NEW p \in Procs, NEW l \in Later, Moves(p, l),
         GenerationsAgree, FreshGenerations, LinkOpen' => LinkOpen,
         LinkOpen' /\ carrier[gen] = p => l \notin {"shutting", "done"}
  PROVE  OpenLinkHasReader'
<1> DEFINE s == carrier[gen]
<1> SUFFICES ASSUME LinkOpen'
             PROVE  /\ s # NoSocket
                    /\ bind'[s] = gen /\ at'[s] = epoch[gen]
                    /\ pc'[s] \in {"adopted", "registered", "spawned", "reading", "ended",
                                   "dropping", "closing"}
  BY Zenon DEF OpenLinkHasReader, Moves
<1>1. LinkOpen /\ s # NoSocket /\ bind[s] = gen /\ at[s] = epoch[gen]
      /\ pc[s] \in {"adopted", "registered", "spawned", "reading", "ended", "dropping",
                    "closing"}
  BY Zenon DEF OpenLinkHasReader
<1>2. s \in Sockets /\ s \in Procs
  <2>1. gen \in Gens
    BY Zenon, <1>1, LinkedGeneration DEF LinkOpen
  <2>2. QED
    BY Zenon, <1>1, <2>1 DEF TypeOK, LinkTypes, Procs
<1>3. bind'[s] = bind[s] /\ at'[s] = at[s]
  BY Zenon, <1>2 DEF Moves
<1>4. pc'[s] \in {"adopted", "registered", "spawned", "reading", "ended", "dropping",
                  "closing"}
  BY <1>1, <1>2 DEF Moves, Later
<1>5. QED
  BY Zenon, <1>1, <1>3, <1>4

\* A thread that changes nothing but its own place, a socket and a flag keeps
\* the whole invariant.
LEMMA BoundMove ==
  ASSUME IInv, NEW p \in Procs, NEW l \in Later, pc[p] \in Bound, Moves(p, l),
         l = "shutting" => bind[p] \in closed',
         LinkOpen' /\ carrier[gen] = p => l \notin {"shutting", "done"},
         bind' \in [Procs -> {0} \cup Gens], at' \in [Sockets -> Nat],
         sock' \in [Sockets -> {"idle", "open", "eof", "shut"}],
         closed' \subseteq closed \cup {bind[p]},
         UNCHANGED <<sessionVars, webrtcVars, clockVars, first, dialed, flight, locals, old>>
  PROVE  IInv'
<1>0. TypeOK /\ GenerationsAgree /\ PeerWithHandover /\ FreshGenerations /\ ThreadInv
      /\ OpenLinkHasReader
  BY Zenon DEF IInv
<1>1. bind[p] \in 1 .. gen
  BY Zenon, <1>0 DEF ThreadInv
<1>2. TypeOK'
  <2>1. SessionTypes'
    BY Zenon, <1>0 DEF TypeOK, SessionTypes, sessionVars, webrtcVars, clockVars
  <2>2. LinkTypes'
    <3>1. bind[p] \in Gens
      BY <1>0, <1>1, BoundsAssumption DEF TypeOK, SessionTypes, Gens
    <3>2. closed' \subseteq Gens
      BY Zenon, <1>0, <3>1 DEF TypeOK, LinkTypes
    <3>3. QED
      BY Zenon, <1>0, <3>2 DEF TypeOK, LinkTypes, Moves
  <2>3. ThreadTypes'
    BY Zenon, <1>0 DEF TypeOK, ThreadTypes, Moves, locals, Later, PCs, AttachPcs
  <2>4. QED
    BY Zenon, <2>1, <2>2, <2>3 DEF TypeOK
<1>3. GenerationsAgree'
  BY Zenon, <1>0 DEF GenerationsAgree, sessionVars
<1>4. PeerWithHandover'
  BY Zenon, <1>0 DEF PeerWithHandover, sessionVars, webrtcVars
<1>5. FreshGenerations'
  BY <1>0, <1>1 DEF FreshGenerations, sessionVars, Moves, TypeOK, SessionTypes
<1>6. ThreadInv'
  BY Zenon, <1>0, ThreadMove
<1>7. LinkOpen' => LinkOpen
  BY Zenon DEF LinkOpen, sessionVars, Moves
<1>8. OpenLinkHasReader'
  BY Zenon, <1>0, <1>7, ReaderMove
<1>9. QED
  BY ONLY Zenon, <1>2, <1>3, <1>4, <1>5, <1>6, <1>8 DEF IInv

\* Release lets go of the binding of a thread that is over, and of no other.
LEMMA ReleaseKeeps ==
  ASSUME TypeOK, NEW p \in Procs, NEW over \in BOOLEAN, Release(p, over)
  PROVE  /\ bind' \in [Procs -> {0} \cup Gens] /\ at' \in [Sockets -> Nat]
         /\ \A q \in Procs : q # p \/ ~over => bind'[q] = bind[q]
         /\ \A s \in Sockets : s # p \/ ~over => at'[s] = at[s]
BY Zenon DEF Release, TypeOK, ThreadTypes

\* The thread that watches the socket of an open link has the link's binding.
LEMMA WatcherBound ==
  ASSUME IInv, NEW p \in Procs, LinkOpen, carrier[gen] = p
  PROVE  /\ p \in Sockets /\ bind[p] = gen /\ at[p] = epoch[gen] /\ IsCurrent(gen)
         /\ pc[p] # "shutting"
<1>1. gen \in Gens
  BY Zenon, LinkedGeneration DEF IInv, LinkOpen
<1>2. QED
  BY Zenon, <1>1 DEF IInv, OpenLinkHasReader, LinkOpen, IsCurrent, Matches, GenerationsAgree,
     TypeOK, LinkTypes

-----------------------------------------------------------------------------
(* attach_bootstrap_link up to the session lock.                           *)

\* A connection that gives up before it is bound changes no link.
LEMMA GiveUpInv ==
  ASSUME IInv, NEW s \in Sockets, pc[s] \notin Bound, GiveUp(s)
  PROVE  IInv'
<1> USE SocketsAssumption, MonitorsAssumption DEF GiveUp, Return, Goto
<1>1. TypeOK'
    BY Zenon DEF IInv, TypeOK, SessionTypes, LinkTypes, ThreadTypes, Procs, PCs, sessionVars,
      webrtcVars, clockVars, linkVars
<1>2. QED
    BY Zenon, <1>1, UnboundMove DEF Bound, PCs, AttachPcs, sessionVars, webrtcVars, clockVars,
      linkVars, procVars, locals

\* A finished handshake.
LEMMA FinishSecureLinkInv ==
  ASSUME IInv, NEW s \in Sockets, NEW trusted \in BOOLEAN, FinishSecureLink(s, trusted)
  PROVE  IInv'
<1> USE SocketsAssumption, MonitorsAssumption DEF FinishSecureLink, Goto
<1>1. TypeOK'
    BY Zenon DEF IInv, TypeOK, SessionTypes, LinkTypes, ThreadTypes, Procs, PCs, AttachPcs,
      sessionVars, webrtcVars, clockVars, linkVars
<1>2. QED
    BY Zenon, <1>1, UnboundMove DEF Bound, PCs, AttachPcs, sessionVars, webrtcVars, clockVars,
      linkVars, procVars, locals

\* Reading supersede_live.
LEMMA ReadSupersedeInv ==
  ASSUME IInv, NEW s \in Sockets, ReadSupersede(s)
  PROVE  IInv'
<1> USE SocketsAssumption, MonitorsAssumption DEF ReadSupersede, Goto
<1>1. TypeOK'
    BY Zenon DEF IInv, TypeOK, SessionTypes, LinkTypes, ThreadTypes, Procs, PCs, AttachPcs,
      sessionVars, webrtcVars, clockVars, linkVars
<1>2. QED
    BY Zenon, <1>1, UnboundMove DEF Bound, PCs, AttachPcs, sessionVars, webrtcVars, clockVars,
      linkVars, procVars, locals

\* Claiming the flight.
LEMMA ClaimFlightInv ==
  ASSUME IInv, NEW s \in Sockets, ClaimFlight(s)
  PROVE  IInv'
<1> USE SocketsAssumption, MonitorsAssumption DEF ClaimFlight, Goto
<1>1. TypeOK'
    BY Zenon DEF IInv, TypeOK, SessionTypes, LinkTypes, ThreadTypes, Procs, PCs, AttachPcs,
      sessionVars, webrtcVars, clockVars, linkVars, locals
<1>2. QED
    BY Zenon, <1>1, UnboundMove DEF Bound, PCs, AttachPcs, sessionVars, webrtcVars, clockVars,
      linkVars, procVars, locals

\* A relay or QR link starts to attach.
LEMMA AttachOtherInv ==
  ASSUME IInv, NEW s \in Sockets, AttachOther(s)
  PROVE  IInv'
<1> USE SocketsAssumption, MonitorsAssumption DEF AttachOther, Goto
<1>1. TypeOK'
    BY Zenon DEF IInv, TypeOK, SessionTypes, LinkTypes, ThreadTypes, Procs, PCs, AttachPcs,
      sessionVars, webrtcVars, clockVars, linkVars
<1>2. QED
    BY Zenon, <1>1, UnboundMove DEF Bound, PCs, AttachPcs, sessionVars, webrtcVars, clockVars,
      linkVars, procVars, locals

\* Not refused as unpaired.
LEMMA PassHolderInv ==
  ASSUME IInv, NEW s \in Sockets, PassHolder(s)
  PROVE  IInv'
<1> USE SocketsAssumption, MonitorsAssumption DEF PassHolder, Goto
<1>1. TypeOK'
    BY Zenon DEF IInv, TypeOK, SessionTypes, LinkTypes, ThreadTypes, Procs, PCs, AttachPcs,
      sessionVars, webrtcVars, clockVars, linkVars, locals
<1>2. QED
    BY Zenon, <1>1, UnboundMove DEF Bound, PCs, AttachPcs, sessionVars, webrtcVars, clockVars,
      linkVars, procVars, locals

\* Comparing restart epochs.
LEMMA PeerRestartedInv ==
  ASSUME IInv, NEW s \in Sockets, PeerRestarted(s)
  PROVE  IInv'
<1> USE SocketsAssumption, MonitorsAssumption DEF PeerRestarted, Goto
<1>1. TypeOK'
    BY Zenon DEF IInv, TypeOK, SessionTypes, LinkTypes, ThreadTypes, Procs, PCs, AttachPcs,
      sessionVars, webrtcVars, clockVars, linkVars
<1>2. QED
    BY Zenon, <1>1, UnboundMove DEF Bound, PCs, AttachPcs, sessionVars, webrtcVars, clockVars,
      linkVars, procVars, locals

\* The link race is not lost.
LEMMA DecideRaceInv ==
  ASSUME IInv, NEW s \in Sockets, DecideRace(s)
  PROVE  IInv'
<1> USE SocketsAssumption, MonitorsAssumption DEF DecideRace, Goto
<1>1. TypeOK'
    BY Zenon DEF IInv, TypeOK, SessionTypes, LinkTypes, ThreadTypes, Procs, PCs, AttachPcs,
      sessionVars, webrtcVars, clockVars, linkVars
<1>2. QED
    BY Zenon, <1>1, UnboundMove DEF Bound, PCs, AttachPcs, sessionVars, webrtcVars, clockVars,
      linkVars, procVars, locals

\* Nothing to adopt into.
LEMMA RegisterInsteadInv ==
  ASSUME IInv, NEW s \in Sockets, RegisterInstead(s)
  PROVE  IInv'
<1> USE SocketsAssumption, MonitorsAssumption DEF RegisterInstead, Goto
<1>1. TypeOK'
    BY Zenon DEF IInv, TypeOK, SessionTypes, LinkTypes, ThreadTypes, Procs, PCs, AttachPcs,
      sessionVars, webrtcVars, clockVars, linkVars, locals
<1>2. QED
    BY Zenon, <1>1, UnboundMove DEF Bound, PCs, AttachPcs, sessionVars, webrtcVars, clockVars,
      linkVars, procVars, locals

-----------------------------------------------------------------------------
(* Adoption and registration.                                              *)

\* The epoch moves with the carrier, so every earlier reader is behind.
LEMMA AdoptSocketInv ==
  ASSUME IInv, NEW s \in Sockets, AdoptSocket(s)
  PROVE  IInv'
<1> USE SocketsAssumption, MonitorsAssumption, BoundsAssumption
        DEF AdoptSocket, Goto, Adopt, AdoptedEpoch, Adoptable, Gens, Procs, Main,
        sessionVars, webrtcVars, clockVars, linkVars, procVars, locals
<1>0. gen \in Gens /\ epoch[gen] \in Nat /\ carrier[gen] \in Sockets \cup {NoSocket}
  BY Zenon DEF IInv, TypeOK, SessionTypes, LinkTypes, GenerationsAgree, FreshGenerations
<1>1. TypeOK'
  <2>0. hasLink' \in BOOLEAN /\ answering' \in BOOLEAN /\ recent' \in BOOLEAN
    BY Zenon DEF IInv, TypeOK, SessionTypes
  <2>1. SessionTypes'
    BY Zenon, <2>0, <1>0 DEF IInv, TypeOK, SessionTypes, States
  <2>2. LinkTypes'
    <3>1. carrier' \in [Gens -> Sockets \cup {NoSocket}] /\ epoch' \in [Gens -> Nat]
      BY <1>0 DEF IInv, TypeOK, LinkTypes
    <3>2. closed' \subseteq Gens /\ first' = first /\ dialed' = dialed /\ sock' = sock
      BY ZenonT(40) DEF IInv, TypeOK, LinkTypes
    <3>3. QED
      BY Zenon, <3>1, <3>2 DEF IInv, TypeOK, LinkTypes
  <2>3. ThreadTypes'
    BY <1>0 DEF IInv, TypeOK, ThreadTypes, PCs, AttachPcs
  <2>4. QED
    BY Zenon, <2>1, <2>2, <2>3 DEF TypeOK
<1>2. GenerationsAgree'
    BY Zenon, <1>0 DEF IInv, GenerationsAgree
<1>3. PeerWithHandover'
    BY Zenon, <1>0 DEF IInv, PeerWithHandover
<1>4. FreshGenerations'
    BY <1>0 DEF IInv, FreshGenerations
<1>5. ThreadInv'
    BY <1>0 DEF IInv, TypeOK, LinkTypes, ThreadTypes, GenerationsAgree, FreshGenerations,
      ThreadInv, Bound
<1>6. OpenLinkHasReader'
    BY Zenon, <1>0 DEF IInv, TypeOK, LinkTypes, ThreadTypes, OpenLinkHasReader
<1>7. QED
  BY ONLY Zenon, <1>1, <1>2, <1>3, <1>4, <1>5, <1>6 DEF IInv

\* The adopted socket's reader is about to start.
LEMMA FinishAdoptionInv ==
  ASSUME IInv, NEW s \in Sockets, FinishAdoption(s)
  PROVE  IInv'
<1> USE SocketsAssumption, MonitorsAssumption, BoundsAssumption
        DEF FinishAdoption, Goto, Return, Gens, Procs, Main, sessionVars, webrtcVars,
        clockVars, linkVars, procVars, locals
<1>0. bind[s] \in Gens
  BY DEF IInv, TypeOK, SessionTypes, ThreadInv, Bound
<1>1. TypeOK'
  <2>1. SessionTypes'
    BY Zenon, <1>0 DEF IInv, TypeOK, SessionTypes
  <2>2. LinkTypes'
    BY ZenonT(40), <1>0 DEF IInv, TypeOK, SessionTypes, LinkTypes, ThreadTypes
  <2>3. ThreadTypes'
    BY Zenon, <1>0 DEF IInv, TypeOK, ThreadTypes, PCs, AttachPcs
  <2>4. QED
    BY Zenon, <2>1, <2>2, <2>3 DEF TypeOK
<1>2. GenerationsAgree'
    BY Zenon, <1>0 DEF IInv, GenerationsAgree
<1>3. PeerWithHandover'
    BY Zenon, <1>0 DEF IInv, PeerWithHandover
<1>4. FreshGenerations'
    BY Zenon, <1>0 DEF IInv, FreshGenerations
<1>5. Moves(s, "spawned") /\ "spawned" \in Later /\ pc[s] \in Bound
  BY Zenon DEF Moves, Later, Bound
<1>6. ThreadInv'
  <2>1. \A t \in Sockets : t # s => old'[t] = old[t]
    OBVIOUS
  <2>2. s \in Procs
    BY Zenon
  <2>3. QED
    BY Zenon, <1>5, <2>1, <2>2, ThreadMove DEF IInv
<1>7. OpenLinkHasReader'
  <2>1. LinkOpen' => LinkOpen
    BY Zenon, <1>5 DEF LinkOpen, Moves
  <2>2. s \in Procs
    BY Zenon
  <2>3. QED
    BY Zenon, <1>5, <2>1, <2>2, ReaderMove DEF IInv
<1>8. QED
  BY ONLY Zenon, <1>1, <1>2, <1>3, <1>4, <1>6, <1>7 DEF IInv

\* The new generation's link is untouched, its carrier is this connection.
LEMMA RegisterLinkInv ==
  ASSUME IInv, NEW s \in Sockets, RegisterLink(s)
  PROVE  IInv'
<1> USE SocketsAssumption, MonitorsAssumption, BoundsAssumption
        DEF RegisterLink, Goto, ClearWebrtcState, CancelPrevious, PairingOfNewLink, Gens,
        Procs, Main, sessionVars, webrtcVars, clockVars, linkVars, procVars, locals
<1>0. gen + 1 \in Gens /\ (hasLink => carrier[gen] \in Sockets \cup {NoSocket})
  <2>1. gen + 1 \in Gens
    BY DEF IInv, TypeOK, SessionTypes
  <2>2. hasLink => gen \in Gens
    BY Zenon, LinkedGeneration DEF IInv
  <2>3. QED
    BY Zenon, <2>1, <2>2 DEF IInv, TypeOK, LinkTypes
<1>1. TypeOK'
  <2>0. hasLink' \in BOOLEAN /\ answering' \in BOOLEAN /\ recent' \in BOOLEAN
    BY Zenon DEF IInv, TypeOK, SessionTypes
  <2>1. SessionTypes'
    <3>1. cancelled' \subseteq Gens
      BY Zenon DEF IInv, TypeOK, SessionTypes, FreshGenerations
    <3>2. pairing' \in PairStates /\ state' \in States /\ handover' \in Handovers
      BY Zenon DEF States, PairStates, Handovers
    <3>3. peer' \in 0 .. MaxAttempts /\ attempt' \in 0 .. MaxAttempts
          /\ lastAttempt' \in 0 .. MaxAttempts
      BY DEF IInv, TypeOK, SessionTypes
    <3>4. QED
      BY Zenon, <1>0, <2>0, <3>1, <3>2, <3>3 DEF SessionTypes
  <2>2. LinkTypes'
    BY Zenon, <1>0 DEF IInv, TypeOK, SessionTypes, LinkTypes
  <2>3. ThreadTypes'
    BY Zenon, <1>0 DEF IInv, TypeOK, ThreadTypes, PCs, AttachPcs
  <2>4. QED
    BY Zenon, <2>1, <2>2, <2>3 DEF TypeOK
<1>2. GenerationsAgree'
    BY <1>0 DEF IInv, TypeOK, SessionTypes, GenerationsAgree, FreshGenerations
<1>3. PeerWithHandover'
    BY Zenon, <1>0 DEF PeerWithHandover
<1>4. FreshGenerations'
    BY <1>0 DEF IInv, TypeOK, SessionTypes, FreshGenerations
<1>5. ThreadInv'
    BY <1>0 DEF IInv, TypeOK, SessionTypes, LinkTypes, ThreadTypes, GenerationsAgree,
      FreshGenerations, ThreadInv
<1>6. OpenLinkHasReader'
  <2>1. carrier'[gen'] = s /\ bind'[s] = gen' /\ pc'[s] = "registered"
    BY <1>0 DEF IInv, TypeOK, LinkTypes, ThreadTypes
  <2>2. at'[s] = 0 /\ epoch'[gen'] = 0
    BY <1>0 DEF IInv, TypeOK, SessionTypes, ThreadTypes, FreshGenerations
  <2>3. QED
    BY <2>1, <2>2 DEF OpenLinkHasReader
<1>7. QED
  BY ONLY Zenon, <1>1, <1>2, <1>3, <1>4, <1>5, <1>6 DEF IInv

\* The link closed here is of the generation before, never the current one.
LEMMA FinishRegistrationInv ==
  ASSUME IInv, NEW s \in Sockets, FinishRegistration(s)
  PROVE  IInv'
<1> USE SocketsAssumption, MonitorsAssumption, BoundsAssumption
        DEF FinishRegistration, Goto, Return, CloseReplaced, Gens, Procs, Main, sessionVars,
        webrtcVars, clockVars, linkVars, procVars, locals
<1>0. bind[s] \in Gens /\ (old[s] # NoSocket => bind[s] - 1 \in Gens)
  BY DEF IInv, TypeOK, SessionTypes, ThreadInv, Bound
<1>1. TypeOK'
  <2>1. SessionTypes'
    BY Zenon, <1>0 DEF IInv, TypeOK, SessionTypes
  <2>2. LinkTypes'
    BY ZenonT(40), <1>0 DEF IInv, TypeOK, SessionTypes, LinkTypes, ThreadTypes
  <2>3. ThreadTypes'
    BY Zenon, <1>0 DEF IInv, TypeOK, ThreadTypes, PCs, AttachPcs
  <2>4. QED
    BY Zenon, <2>1, <2>2, <2>3 DEF TypeOK
<1>2. GenerationsAgree'
    BY Zenon, <1>0 DEF IInv, GenerationsAgree
<1>3. PeerWithHandover'
    BY Zenon, <1>0 DEF IInv, PeerWithHandover
<1>4. FreshGenerations'
    BY <1>0 DEF IInv, TypeOK, SessionTypes, FreshGenerations, ThreadInv, Bound
<1>5. Moves(s, "spawned") /\ "spawned" \in Later /\ pc[s] \in Bound
  BY Zenon DEF Moves, Later, Bound
<1>6. ThreadInv'
  <2>1. \A t \in Sockets : t # s => old'[t] = old[t]
    OBVIOUS
  <2>2. s \in Procs
    BY Zenon
  <2>3. QED
    BY Zenon, <1>5, <2>1, <2>2, ThreadMove DEF IInv
<1>7. OpenLinkHasReader'
  <2>1. LinkOpen' => LinkOpen
    BY Zenon, <1>5 DEF LinkOpen, Moves
  <2>2. s \in Procs
    BY Zenon
  <2>3. QED
    BY Zenon, <1>5, <2>1, <2>2, ReaderMove DEF IInv
<1>8. QED
  BY ONLY Zenon, <1>1, <1>2, <1>3, <1>4, <1>6, <1>7 DEF IInv

-----------------------------------------------------------------------------
(* Readers, monitors and the shutdown.                                     *)

\* A reader does not start on a closed link.
LEMMA StartReaderInv ==
  ASSUME IInv, NEW s \in Sockets, StartReader(s)
  PROVE  IInv'
<1> DEFINE over == bind[s] \in closed
           l == IF over THEN "done" ELSE "reading"
<1>1. s \in Procs /\ TypeOK /\ pc[s] \in Bound /\ l \in Later
  BY Zenon DEF IInv, Procs, StartReader, Bound, Later
<1>2. /\ bind' \in [Procs -> {0} \cup Gens] /\ at' \in [Sockets -> Nat]
      /\ \A q \in Procs : q # s \/ ~over => bind'[q] = bind[q]
      /\ \A t \in Sockets : t # s \/ ~over => at'[t] = at[t]
  <2>1. over \in BOOLEAN /\ Release(s, over)
    BY DEF StartReader
  <2>2. QED
    BY ZenonT(40), <1>1, <2>1, ReleaseKeeps
<1>3. Moves(s, l)
  BY Zenon, <1>2 DEF StartReader, Goto, Moves, sessionVars, linkVars
<1>4. LinkOpen' /\ carrier[gen] = s => l \notin {"shutting", "done"}
  BY ZenonT(40), <1>1, WatcherBound DEF StartReader, LinkOpen, sessionVars, linkVars
<1>5. QED
  BY ZenonT(40), <1>1, <1>2, <1>3, <1>4, BoundMove
     DEF StartReader, IInv, TypeOK, LinkTypes, linkVars, locals

\* The reader of the current epoch never leaves an open link.
LEMMA ReaderLeavesInv ==
  ASSUME IInv, NEW s \in Sockets, ReaderLeaves(s)
  PROVE  IInv'
<1>1. s \in Procs /\ TypeOK /\ pc[s] \in Bound /\ "done" \in Later
  BY ZenonT(40) DEF IInv, Procs, ReaderLeaves, Bound, Later
<1>2. /\ bind' \in [Procs -> {0} \cup Gens] /\ at' \in [Sockets -> Nat]
      /\ \A q \in Procs : q # s => bind'[q] = bind[q]
      /\ \A t \in Sockets : t # s => at'[t] = at[t]
  BY ZenonT(40), <1>1, ReleaseKeeps DEF ReaderLeaves
<1>3. Moves(s, "done")
  BY ZenonT(40), <1>2 DEF ReaderLeaves, Goto, Moves, sessionVars, linkVars
<1>4. ~(LinkOpen' /\ carrier[gen] = s)
  BY Zenon, <1>1, WatcherBound DEF ReaderLeaves, Superseded, LinkOpen, sessionVars, linkVars
<1>5. QED
  BY ZenonT(40), <1>1, <1>2, <1>3, <1>4, BoundMove
     DEF ReaderLeaves, IInv, TypeOK, LinkTypes, linkVars, locals

\* The end of a read.
LEMMA ReaderEndsInv ==
  ASSUME IInv, NEW s \in Sockets, ReaderEnds(s)
  PROVE  IInv'
<1>1. s \in Procs /\ TypeOK /\ pc[s] \in Bound /\ "ended" \in Later
  BY Zenon DEF IInv, Procs, ReaderEnds, Bound, Later
<1>2. bind' \in [Procs -> {0} \cup Gens] /\ at' \in [Sockets -> Nat]
  BY Zenon, <1>1 DEF ReaderEnds, TypeOK, ThreadTypes
<1>3. Moves(s, "ended")
  BY Zenon DEF ReaderEnds, Goto, Moves, sessionVars, linkVars
<1>4. QED
  BY Zenon, <1>1, <1>2, <1>3, BoundMove
     DEF ReaderEnds, IInv, TypeOK, LinkTypes, linkVars, locals

\* The first lock of a disconnect: what it finds current is Ready already.
LEMMA BootstrapDisconnectedInv ==
  ASSUME IInv, NEW p \in Procs, BootstrapDisconnected(p)
  PROVE  IInv'
<1> DEFINE over == ~Matches(bind[p]) \/ (p \in Sockets /\ Superseded(p))
           l == IF over THEN "done" ELSE IF FeaturesReady THEN "closing" ELSE "dropping"
<1>1. TypeOK /\ pc[p] \in Bound /\ l \in Later
  BY ZenonT(40) DEF IInv, BootstrapDisconnected, Bound, Later
<1>2. /\ bind' \in [Procs -> {0} \cup Gens] /\ at' \in [Sockets -> Nat]
      /\ \A q \in Procs : q # p \/ ~over => bind'[q] = bind[q]
      /\ \A t \in Sockets : t # p \/ ~over => at'[t] = at[t]
  <2>1. over \in BOOLEAN /\ Release(p, over)
    BY Zenon DEF BootstrapDisconnected
  <2>2. QED
    BY Zenon, <1>1, <2>1, ReleaseKeeps
<1>3. Moves(p, l)
  <2>1. pc' = [pc EXCEPT ![p] = l] /\ UNCHANGED <<gen, linkVars>>
    BY Zenon DEF BootstrapDisconnected, Goto
  <2>2. QED
    BY Zenon, <1>2, <2>1 DEF Moves, linkVars
<1>4. state' = state
  BY Zenon DEF BootstrapDisconnected, Matches, IInv, GenerationsAgree
<1>5. UNCHANGED <<sessionVars, webrtcVars, clockVars, linkVars, sock, flight, locals, old>>
  BY Zenon, <1>4 DEF BootstrapDisconnected, sessionVars
<1>6. LinkOpen' /\ carrier[gen] = p => ~over
  BY Zenon, <1>5, WatcherBound DEF IsCurrent, Superseded, LinkOpen, sessionVars, linkVars
<1>7. QED
  BY ZenonT(40), <1>1, <1>2, <1>3, <1>5, <1>6, BoundMove DEF IInv, TypeOK, LinkTypes, linkVars

\* A monitor takes the current binding.
LEMMA SaveBindingInv ==
  ASSUME IInv, NEW m \in Monitors, SaveBinding(m)
  PROVE  IInv'
<1> USE SocketsAssumption, MonitorsAssumption, BoundsAssumption
        DEF SaveBinding, Goto, Gens, Procs, Main, sessionVars, webrtcVars, clockVars,
        linkVars, procVars, locals
<1>0. gen \in Gens /\ m \notin Sockets /\ m # Main
    BY Zenon DEF IInv, TypeOK, SessionTypes, GenerationsAgree, FreshGenerations, LinkOpen
<1>1. TypeOK'
  <2>1. SessionTypes'
    BY Zenon, <1>0 DEF IInv, TypeOK, SessionTypes
  <2>2. LinkTypes'
    BY Zenon, <1>0 DEF IInv, TypeOK, LinkTypes
  <2>3. ThreadTypes'
    BY Zenon, <1>0 DEF IInv, TypeOK, ThreadTypes, PCs
  <2>4. QED
    BY Zenon, <2>1, <2>2, <2>3 DEF TypeOK
<1>2. GenerationsAgree'
    BY Zenon, <1>0 DEF IInv, GenerationsAgree
<1>3. PeerWithHandover'
    BY Zenon, <1>0 DEF IInv, PeerWithHandover
<1>4. FreshGenerations'
    BY Zenon, <1>0 DEF IInv, FreshGenerations
<1>5. ThreadInv'
    BY <1>0 DEF IInv, TypeOK, ThreadTypes, ThreadInv
<1>6. OpenLinkHasReader'
    BY <1>0 DEF IInv, OpenLinkHasReader
<1>7. QED
  BY ONLY Zenon, <1>1, <1>2, <1>3, <1>4, <1>5, <1>6 DEF IInv

\* The second lock: link and peer go together.
LEMMA DisconnectIfCurrentInv ==
  ASSUME IInv, NEW p \in Procs, DisconnectIfCurrent(p)
  PROVE  IInv'
<1> USE SocketsAssumption, MonitorsAssumption, BoundsAssumption
        DEF DisconnectIfCurrent, Goto, ClearWebrtcState, Gens, Procs, Main, sessionVars,
        webrtcVars, clockVars, linkVars, procVars, locals
<1>0. gen \in Gens /\ hasLink
    BY Zenon DEF IInv, TypeOK, SessionTypes, GenerationsAgree, FreshGenerations, Matches
<1>1. TypeOK'
  <2>0. hasLink' \in BOOLEAN /\ answering' \in BOOLEAN /\ recent' \in BOOLEAN
    BY Zenon DEF IInv, TypeOK, SessionTypes
  <2>1. SessionTypes'
    <3>1. gen' \in {0} \cup Gens /\ cancelled' \subseteq Gens
      BY Zenon, <1>0 DEF IInv, TypeOK, SessionTypes
    <3>2. pairing' \in PairStates /\ state' \in States /\ handover' \in Handovers
      BY DEF IInv, TypeOK, SessionTypes, States, PairStates, Handovers
    <3>3. peer' \in 0 .. MaxAttempts /\ attempt' \in 0 .. MaxAttempts
          /\ lastAttempt' \in 0 .. MaxAttempts
      BY DEF IInv, TypeOK, SessionTypes
    <3>4. QED
      BY Zenon, <2>0, <3>1, <3>2, <3>3 DEF SessionTypes
  <2>2. LinkTypes'
    BY Zenon, <1>0 DEF IInv, TypeOK, LinkTypes
  <2>3. ThreadTypes'
    BY Zenon, <1>0 DEF IInv, TypeOK, ThreadTypes, PCs
  <2>4. QED
    BY Zenon, <2>1, <2>2, <2>3 DEF TypeOK
<1>2. GenerationsAgree'
    BY Zenon, <1>0 DEF IInv, GenerationsAgree
<1>3. PeerWithHandover'
    BY Zenon, <1>0 DEF PeerWithHandover
<1>4. FreshGenerations'
    BY <1>0 DEF IInv, FreshGenerations
<1>5. ThreadInv'
  <2>1. Moves(p, "closing") /\ "closing" \in Later /\ pc[p] \in Bound
    BY ZenonT(40) DEF Moves, Later, Bound
  <2>2. QED
    BY ZenonT(40), <2>1, ThreadMove DEF IInv
<1>6. OpenLinkHasReader'
  BY Zenon DEF OpenLinkHasReader, LinkOpen
<1>7. QED
  BY ONLY Zenon, <1>1, <1>2, <1>3, <1>4, <1>5, <1>6 DEF IInv

\* A binding that is no longer current.
LEMMA DisconnectStaleInv ==
  ASSUME IInv, NEW p \in Procs, DisconnectStale(p)
  PROVE  IInv'
<1>1. TypeOK /\ pc[p] \in Bound /\ "done" \in Later
  BY Zenon DEF IInv, DisconnectStale, Bound, Later
<1>2. /\ bind' \in [Procs -> {0} \cup Gens] /\ at' \in [Sockets -> Nat]
      /\ \A q \in Procs : q # p => bind'[q] = bind[q]
      /\ \A t \in Sockets : t # p => at'[t] = at[t]
  BY ZenonT(40), <1>1, ReleaseKeeps DEF DisconnectStale
<1>3. Moves(p, "done")
  BY ZenonT(40), <1>2 DEF DisconnectStale, Goto, Moves, sessionVars, linkVars
<1>4. ~(LinkOpen' /\ carrier[gen] = p)
  BY ZenonT(40), WatcherBound DEF DisconnectStale, IsCurrent, LinkOpen, sessionVars, linkVars
<1>5. QED
  BY ZenonT(40), <1>1, <1>2, <1>3, <1>4, BoundMove
     DEF DisconnectStale, IInv, TypeOK, LinkTypes, linkVars

\* The flag is set before the carrier is shut.
LEMMA CloseFlagInv ==
  ASSUME IInv, NEW p \in Procs, CloseFlag(p)
  PROVE  IInv'
<1> DEFINE over == bind[p] \in closed
           l == IF over THEN "done" ELSE "shutting"
<1>1. TypeOK /\ pc[p] \in Bound /\ l \in Later
  BY ZenonT(40) DEF IInv, CloseFlag, Bound, Later
<1>2. /\ bind' \in [Procs -> {0} \cup Gens] /\ at' \in [Sockets -> Nat]
      /\ \A q \in Procs : q # p \/ ~over => bind'[q] = bind[q]
      /\ \A t \in Sockets : t # p \/ ~over => at'[t] = at[t]
  <2>1. over \in BOOLEAN /\ Release(p, over)
    BY DEF CloseFlag
  <2>2. QED
    BY ZenonT(40), <1>1, <2>1, ReleaseKeeps
<1>3. closed' = closed \cup {bind[p]}
  BY Zenon DEF CloseFlag
<1>4. Moves(p, l)
  BY Zenon, <1>2, <1>3 DEF CloseFlag, Goto, Moves, sessionVars
<1>5. ~(LinkOpen' /\ carrier[gen] = p)
  <2>1. LinkOpen' => LinkOpen /\ bind[p] # gen
    BY Zenon, <1>3 DEF CloseFlag, LinkOpen, sessionVars
  <2>2. QED
    BY Zenon, <2>1, WatcherBound
<1>6. QED
  BY ZenonT(40), <1>1, <1>2, <1>3, <1>4, <1>5, BoundMove DEF CloseFlag, IInv, TypeOK, LinkTypes

\* A socket is shut; the reader of an open link is not the one to do it.
LEMMA CloseCarrierInv ==
  ASSUME IInv, NEW p \in Procs, CloseCarrier(p)
  PROVE  IInv'
<1>1. TypeOK /\ pc[p] \in Bound /\ "done" \in Later
  BY Zenon DEF IInv, CloseCarrier, Bound, Later
<1>2. /\ bind' \in [Procs -> {0} \cup Gens] /\ at' \in [Sockets -> Nat]
      /\ \A q \in Procs : q # p => bind'[q] = bind[q]
      /\ \A t \in Sockets : t # p => at'[t] = at[t]
  BY ZenonT(40), <1>1, ReleaseKeeps DEF CloseCarrier
<1>3. Moves(p, "done")
  BY ZenonT(40), <1>2 DEF CloseCarrier, Goto, Moves, sessionVars, linkVars
<1>4. ~(LinkOpen' /\ carrier[gen] = p)
  BY Zenon, WatcherBound DEF CloseCarrier, LinkOpen, sessionVars, linkVars
<1>5. sock' \in [Sockets -> {"idle", "open", "eof", "shut"}]
  BY Zenon DEF CloseCarrier, IInv, TypeOK, LinkTypes
<1>6. QED
  BY ZenonT(40), <1>1, <1>2, <1>3, <1>4, <1>5, BoundMove DEF CloseCarrier, linkVars

\* The daemon stops without a session.
LEMMA TerminateNothingInv ==
  ASSUME IInv, TerminateNothing
  PROVE  IInv'
<1> USE SocketsAssumption, MonitorsAssumption, BoundsAssumption
        DEF TerminateNothing, Goto, Gens, Procs, Main, sessionVars, webrtcVars, clockVars,
        linkVars, procVars, locals
<1>1. TypeOK'
  <2>1. SessionTypes'
    BY Zenon DEF IInv, TypeOK, SessionTypes
  <2>2. LinkTypes'
    BY Zenon DEF IInv, TypeOK, LinkTypes
  <2>3. ThreadTypes'
    BY Zenon DEF IInv, TypeOK, ThreadTypes, PCs
  <2>4. QED
    BY Zenon, <2>1, <2>2, <2>3 DEF TypeOK
<1>2. GenerationsAgree'
    BY Zenon DEF IInv, GenerationsAgree
<1>3. PeerWithHandover'
    BY Zenon DEF IInv, PeerWithHandover
<1>4. FreshGenerations'
    BY DEF IInv, FreshGenerations
<1>5. ThreadInv'
    BY ZenonT(40) DEF IInv, TypeOK, SessionTypes, LinkTypes, ThreadTypes, GenerationsAgree,
      FreshGenerations, ThreadInv, Bound, Superseded
<1>6. OpenLinkHasReader'
    BY ZenonT(40) DEF IInv, TypeOK, SessionTypes, LinkTypes, ThreadTypes, GenerationsAgree,
      FreshGenerations, ThreadInv, Bound, Superseded,
         Matches, IsCurrent, LinkOpen, OpenLinkHasReader
<1>7. QED
  BY ONLY Zenon, <1>1, <1>2, <1>3, <1>4, <1>5, <1>6 DEF IInv

\* The daemon stops.
LEMMA TerminateAllInv ==
  ASSUME IInv, TerminateAll
  PROVE  IInv'
<1> USE SocketsAssumption, MonitorsAssumption, BoundsAssumption
        DEF TerminateAll, Goto, ClearWebrtcState, Gens, Procs, Main, sessionVars,
        webrtcVars, clockVars, linkVars, procVars, locals
<1>0. gen \in Gens /\ Main \notin Sockets
  BY Zenon DEF IInv, TypeOK, SessionTypes, FreshGenerations
<1>1. TypeOK'
  <2>0. hasLink' \in BOOLEAN /\ answering' \in BOOLEAN /\ recent' \in BOOLEAN
    BY Zenon DEF IInv, TypeOK, SessionTypes
  <2>1. SessionTypes'
    <3>1. gen' \in {0} \cup Gens /\ cancelled' \subseteq Gens
      BY Zenon, <1>0 DEF IInv, TypeOK, SessionTypes
    <3>2. pairing' \in PairStates /\ state' \in States /\ handover' \in Handovers
      BY DEF IInv, TypeOK, SessionTypes, States, PairStates, Handovers
    <3>3. peer' \in 0 .. MaxAttempts /\ attempt' \in 0 .. MaxAttempts
          /\ lastAttempt' \in 0 .. MaxAttempts
      BY DEF IInv, TypeOK, SessionTypes
    <3>4. QED
      BY Zenon, <2>0, <3>1, <3>2, <3>3 DEF SessionTypes
  <2>2. LinkTypes'
    BY Zenon, <1>0 DEF IInv, TypeOK, LinkTypes
  <2>3. ThreadTypes'
    BY Zenon, <1>0 DEF IInv, TypeOK, ThreadTypes, PCs
  <2>4. QED
    BY Zenon, <2>1, <2>2, <2>3 DEF TypeOK
<1>2. GenerationsAgree'
    BY Zenon, <1>0 DEF IInv, GenerationsAgree
<1>3. PeerWithHandover'
    BY Zenon, <1>0 DEF PeerWithHandover
<1>4. FreshGenerations'
    BY <1>0 DEF IInv, FreshGenerations
<1>5. ThreadInv'
    BY <1>0 DEF IInv, TypeOK, ThreadTypes, ThreadInv, Bound
<1>6. OpenLinkHasReader'
    BY Zenon, <1>0 DEF IInv, TypeOK, SessionTypes, LinkTypes, ThreadTypes, GenerationsAgree,
      FreshGenerations, ThreadInv, Bound, Superseded,
         Matches, IsCurrent, LinkOpen, OpenLinkHasReader
<1>7. QED
  BY ONLY Zenon, <1>1, <1>2, <1>3, <1>4, <1>5, <1>6 DEF IInv

-----------------------------------------------------------------------------
(* WebRTC, pairing, the peer and the clock.                                *)

\* Peer, attempt and handover are set together on a current link.
LEMMA InstallPeerInv ==
  ASSUME IInv, NEW g \in Gens, NEW onlyIfNone \in BOOLEAN, InstallPeer(g, onlyIfNone)
  PROVE  IInv'
<1> USE BoundsAssumption DEF InstallPeer, sessionVars, webrtcVars, clockVars, linkVars,
    procVars, locals
<1>1. TypeOK'
  BY DEF IInv, TypeOK, SessionTypes, LinkTypes, ThreadTypes, Handovers
<1>2. PeerWithHandover'
    BY DEF IInv, TypeOK, SessionTypes, PeerWithHandover, Matches, IsCurrent
<1>3. QED
  BY Zenon, <1>1, <1>2, QuietStep

\* The handover of the current attempt moves.
LEMMA HandoverStepInv ==
  ASSUME IInv, NEW g \in Gens, NEW a \in 1 .. lastAttempt,
         NEW outcome \in {"Ready", "Failed"}, HandoverStep(g, a, outcome)
  PROVE  IInv'
<1> USE BoundsAssumption DEF HandoverStep, sessionVars, webrtcVars, clockVars, linkVars,
    procVars, locals
<1>1. TypeOK'
  BY Zenon DEF IInv, TypeOK, SessionTypes, LinkTypes, ThreadTypes, Handovers
<1>2. PeerWithHandover'
    BY Zenon DEF IInv, PeerWithHandover
<1>3. QED
  BY Zenon, <1>1, <1>2, QuietStep

\* The current attempt is cleared.
LEMMA ClearWebrtcIfCurrentInv ==
  ASSUME IInv, NEW g \in Gens, NEW a \in 1 .. lastAttempt, ClearWebrtcIfCurrent(g, a)
  PROVE  IInv'
<1> USE BoundsAssumption DEF ClearWebrtcIfCurrent, ClearWebrtcState, sessionVars,
    webrtcVars, clockVars, linkVars, procVars, locals
<1>1. TypeOK'
  BY DEF IInv, TypeOK, SessionTypes, LinkTypes, ThreadTypes, Handovers
<1>2. PeerWithHandover'
    BY Zenon DEF PeerWithHandover
<1>3. QED
  BY Zenon, <1>1, <1>2, QuietStep

\* A pairing state change.
LEMMA SetPairingInv ==
  ASSUME IInv, NEW g \in Gens, NEW p \in PairStates, SetPairing(g, p)
  PROVE  IInv'
<1> USE BoundsAssumption DEF SetPairing, sessionVars, webrtcVars, clockVars, linkVars,
    procVars, locals
<1>1. TypeOK'
  BY Zenon DEF IInv, TypeOK, SessionTypes, LinkTypes, ThreadTypes
<1>2. PeerWithHandover'
    BY Zenon DEF IInv, PeerWithHandover
<1>3. QED
  BY Zenon, <1>1, <1>2, QuietStep

\* Unpairing clears the peer too.
LEMMA DropPairingInv ==
  ASSUME IInv, DropPairing
  PROVE  IInv'
<1> USE BoundsAssumption DEF DropPairing, ClearWebrtcState, sessionVars, webrtcVars,
    clockVars, linkVars, procVars, locals
<1>1. TypeOK'
  BY DEF IInv, TypeOK, SessionTypes, LinkTypes, ThreadTypes, PairStates, Handovers
<1>2. PeerWithHandover'
    BY Zenon DEF PeerWithHandover
<1>3. QED
  BY Zenon, <1>1, <1>2, QuietStep

\* A packet arrives.
LEMMA NoteInboundInv ==
  ASSUME IInv, NoteInbound
  PROVE  IInv'
<1> USE BoundsAssumption DEF NoteInbound, sessionVars, webrtcVars, clockVars, linkVars,
    procVars, locals
<1>1. TypeOK'
  BY Zenon DEF IInv, TypeOK, SessionTypes, LinkTypes, ThreadTypes
<1>2. PeerWithHandover'
    BY Zenon DEF IInv, PeerWithHandover
<1>3. QED
  BY Zenon, <1>1, <1>2, QuietStep

\* The peer is silent.
LEMMA FallSilentInv ==
  ASSUME IInv, FallSilent
  PROVE  IInv'
<1> USE BoundsAssumption DEF FallSilent, sessionVars, webrtcVars, clockVars, linkVars,
    procVars, locals
<1>1. TypeOK'
  BY Zenon DEF IInv, TypeOK, SessionTypes, LinkTypes, ThreadTypes, PairStates, Handovers
<1>2. PeerWithHandover'
    BY Zenon DEF IInv, PeerWithHandover
<1>3. QED
  BY Zenon, <1>1, <1>2, QuietStep

\* Time passes.
LEMMA RaceWindowEndsInv ==
  ASSUME IInv, RaceWindowEnds
  PROVE  IInv'
<1> USE BoundsAssumption DEF RaceWindowEnds, sessionVars, webrtcVars, clockVars, linkVars,
    procVars, locals
<1>1. TypeOK'
  BY ZenonT(40) DEF IInv, TypeOK, SessionTypes, LinkTypes, ThreadTypes, PairStates, Handovers
<1>2. PeerWithHandover'
    BY Zenon DEF IInv, PeerWithHandover
<1>3. QED
  BY Zenon, <1>1, <1>2, QuietStep

\* The peer ends a socket.
LEMMA PeerEndsInv ==
  ASSUME IInv, NEW s \in Sockets, PeerEnds(s)
  PROVE  IInv'
<1> USE BoundsAssumption DEF PeerEnds, sessionVars, webrtcVars, clockVars, linkVars,
    procVars, locals
<1>1. TypeOK'
  BY Zenon DEF IInv, TypeOK, SessionTypes, LinkTypes, ThreadTypes
<1>2. PeerWithHandover'
    BY Zenon DEF IInv, PeerWithHandover
<1>3. QED
  BY Zenon, <1>1, <1>2, QuietStep

-----------------------------------------------------------------------------
\* Every step of the specification keeps the invariant: one case per action.
LEMMA NextInv == IInv /\ [Next]_vars => IInv'
<1> SUFFICES ASSUME IInv, [Next]_vars PROVE IInv'
  BY Zenon
<1>1. CASE \E s \in Sockets : Attach(s)
  BY Zenon, <1>1, FinishSecureLinkInv, AttachOtherInv DEF Attach
<1>2. ASSUME NEW s \in Sockets, AttachStep(s) PROVE IInv'
  <2>1. CASE FlightTaken(s) \/ RefuseUnpaired(s) \/ LoseRace(s) \/ NotAdopted(s)
             \/ RegisterTerminated(s)
    BY Zenon, <2>1, GiveUpInv
       DEF FlightTaken, RefuseUnpaired, LoseRace, NotAdopted, RegisterTerminated, Bound
  <2>2. CASE ReadSupersede(s) \/ ClaimFlight(s) \/ PassHolder(s) \/ PeerRestarted(s)
             \/ DecideRace(s) \/ RegisterInstead(s)
    BY Zenon, <2>2, ReadSupersedeInv, ClaimFlightInv, PassHolderInv, PeerRestartedInv,
       DecideRaceInv, RegisterInsteadInv
  <2>3. CASE AdoptSocket(s) \/ FinishAdoption(s) \/ RegisterLink(s) \/ FinishRegistration(s)
    BY Zenon, <2>3, AdoptSocketInv, FinishAdoptionInv, RegisterLinkInv, FinishRegistrationInv
  <2>4. QED
    BY Zenon, <1>2, <2>1, <2>2, <2>3 DEF AttachStep
<1>3. CASE \E s \in Sockets : ReaderStep(s)
  BY Zenon, <1>3, StartReaderInv, ReaderLeavesInv, ReaderEndsInv DEF ReaderStep
<1>4. CASE \E m \in Monitors : SaveBinding(m)
  BY Zenon, <1>4, SaveBindingInv
<1>5. CASE \E p \in Procs : DisconnectStep(p)
    BY Zenon, <1>5, BootstrapDisconnectedInv, DisconnectIfCurrentInv, DisconnectStaleInv,
      CloseFlagInv,
     CloseCarrierInv DEF DisconnectStep
<1>6. CASE TerminateNothing \/ TerminateAll
  BY Zenon, <1>6, TerminateNothingInv, TerminateAllInv
<1>7. CASE WebrtcStep
  BY Zenon, <1>7, InstallPeerInv, HandoverStepInv, ClearWebrtcIfCurrentInv DEF WebrtcStep
<1>8. CASE PairingStep
  BY Zenon, <1>8, SetPairingInv, DropPairingInv DEF PairingStep, RevokePairing, ForgetPairing
<1>9. CASE Environment
  BY Zenon, <1>9, NoteInboundInv, FallSilentInv, RaceWindowEndsInv, PeerEndsInv DEF Environment
<1>10. CASE UNCHANGED vars
  <2>1. TypeOK' /\ PeerWithHandover'
        BY Zenon, <1>10 DEF IInv, TypeOK, SessionTypes, LinkTypes, ThreadTypes, PeerWithHandover,
        vars, sessionVars, webrtcVars, clockVars,
       linkVars, procVars, locals
  <2>2. QED
    BY Zenon, <1>10, <2>1, QuietStep DEF vars, sessionVars
<1>11. QED
  BY Zenon, <1>1, <1>2, <1>3, <1>4, <1>5, <1>6, <1>7, <1>8, <1>9, <1>10 DEF Next

\* The inductive invariant holds in every reachable state.
THEOREM Invariance == Spec => []IInv
<1>1. QED
  BY InitInv, NextInv, PTL DEF Spec

\* Every variable keeps its type.
THEOREM TypeCorrect == Spec => []TypeOK
<1>1. IInv => TypeOK
  BY Zenon DEF IInv
<1>2. QED
  BY <1>1, Invariance, PTL

\* register_link, disconnect_if_current and terminate_all keep the tokens in
\* step with the generation: only the current link's is unset.
THEOREM GenerationsCorrect == Spec => []GenerationsAgree
<1>1. IInv => GenerationsAgree
  BY Zenon DEF IInv
<1>2. QED
  BY <1>1, Invariance, PTL

\* The WebRTC peer, its attempt and its handover are installed and cleared
\* together, and never outlive the link.
THEOREM PeerCorrect == Spec => []PeerWithHandover
<1>1. IInv => PeerWithHandover
  BY Zenon DEF IInv
<1>2. QED
  BY <1>1, Invariance, PTL

\* No two readers frame one stream, however many sockets are adopted.
THEOREM ReaderCorrect == Spec => []ReaderOwnsStream
<1>1. IInv => ReaderOwnsStream
    BY DEF IInv, TypeOK, ThreadTypes, ThreadInv, ReaderOwnsStream, Superseded, Bound, Procs
<1>2. QED
  BY <1>1, Invariance, PTL

\* An open link always has the thread that will notice its socket ending.
THEOREM OpenLinkCorrect == Spec => []OpenLinkHasReader
<1>1. IInv => OpenLinkHasReader
  BY Zenon DEF IInv
<1>2. QED
  BY <1>1, Invariance, PTL

-----------------------------------------------------------------------------
(* No socket is leaked: SocketInv is inductive beside IInv.                *)

\* A step that leaves links, bindings and places alone opens no socket.
LEMMA SocketQuiet ==
  ASSUME IInv, SocketInv, UNCHANGED <<gen, hasLink, carrier, closed, pc, bind, old>>,
         \A s \in Sockets : sock'[s] = "open" => sock[s] = "open"
  PROVE  SocketInv'
BY DEF SocketInv, WillShut

\* An early connection moves on, or gives up and shuts its socket.
LEMMA SocketEarly ==
  ASSUME IInv, SocketInv, NEW s \in Sockets, pc[s] \in Early, NEW l \in Early \cup {"done"},
         pc' = [pc EXCEPT ![s] = l], l = "done" => sock'[s] # "open",
         \A t \in Sockets : t # s => sock'[t] = sock[t],
         UNCHANGED <<gen, hasLink, carrier, closed, bind, old>>
  PROVE  SocketInv'
<1>0. TypeOK /\ ThreadInv /\ GenerationsAgree /\ FreshGenerations
  BY Zenon DEF IInv
<1>t. /\ pc \in [Procs -> PCs] /\ bind \in [Procs -> {0} \cup Gens] /\ Sockets \subseteq Procs
      /\ sock \in [Sockets -> {"idle", "open", "eof", "shut"}] /\ old \in [Sockets -> Sockets \cup {NoSocket}]
      /\ carrier \in [Gens -> Sockets \cup {NoSocket}] /\ closed \subseteq Gens
  BY Zenon, <1>0 DEF TypeOK, LinkTypes, ThreadTypes, Procs
<1>1. /\ pc'[s] = l /\ \A p \in Procs : p # s => pc'[p] = pc[p]
      /\ \A p \in Procs : pc[p] \notin Early => p # s
  BY Zenon, <1>t
<1>2. "adopted" \notin Early /\ "registered" \notin Early /\ "closing" \notin Early /\ "shutting" \notin Early
      /\ l \notin {"adopted", "registered", "closing", "shutting"}
  BY Zenon DEF Early
<1>w. ASSUME NEW t, WillShut(t) PROVE WillShut(t)'
  BY <1>t, <1>1, <1>2, <1>w DEF WillShut
<1>3. ASSUME NEW t \in Sockets, sock'[t] = "open", pc'[t] \notin Early
      PROVE  (hasLink' /\ carrier'[gen'] = t) \/ WillShut(t)'
  <2>1. t # s /\ sock[t] = "open" /\ pc[t] \notin Early
    BY Zenon, <1>t, <1>1, <1>3
  <2> QED
    BY ZenonT(40), <1>w, <2>1 DEF SocketInv
<1>4. ASSUME NEW g \in closed, NEW t \in Sockets, carrier[g] = t, sock'[t] = "open"
      PROVE  \E p \in Procs : pc'[p] = "shutting" /\ bind[p] = g
  <2>1. pc[t] \notin Early
    BY Zenon, <1>t, <1>4 DEF SocketInv
  <2>2. sock[t] = "open"
    BY Zenon, <1>t, <1>1, <1>4, <2>1
  <2>3. PICK p \in Procs : pc[p] = "shutting" /\ bind[p] = g
    BY Zenon, <1>4, <2>2 DEF SocketInv
  <2> QED
    BY Zenon, <1>1, <1>2, <2>3
<1>5. ASSUME NEW g \in Gens, NEW t \in Sockets, carrier[g] = t PROVE pc'[t] \notin Early
  BY <1>t, <1>1, <1>5 DEF SocketInv
<1>6. ASSUME NEW t \in Sockets, pc'[t] = "registered", old[t] # NoSocket PROVE old[t] = carrier[bind[t] - 1]
  BY <1>t, <1>1, <1>2, <1>6 DEF SocketInv
<1> QED
  BY ZenonT(40), <1>3, <1>4, <1>5, <1>6 DEF SocketInv

\* A thread that neither holds a socket to shut nor starts to flag a link.
LEMMA SocketMove ==
  ASSUME IInv, SocketInv, NEW p \in Procs, p \in Sockets => pc[p] \notin Early,
         pc[p] \notin {"adopted", "registered", "closing", "shutting"},
         NEW l \in {"reading", "ended", "dropping", "closing", "done"}, pc' = [pc EXCEPT ![p] = l],
         \A q \in Procs : q # p => bind'[q] = bind[q],
         UNCHANGED <<gen, hasLink, carrier, closed, sock, old>>
  PROVE  SocketInv'
<1>0. TypeOK /\ ThreadInv /\ GenerationsAgree /\ FreshGenerations
  BY Zenon DEF IInv
<1>t. /\ pc \in [Procs -> PCs] /\ bind \in [Procs -> {0} \cup Gens] /\ Sockets \subseteq Procs
      /\ sock \in [Sockets -> {"idle", "open", "eof", "shut"}] /\ old \in [Sockets -> Sockets \cup {NoSocket}]
      /\ carrier \in [Gens -> Sockets \cup {NoSocket}] /\ closed \subseteq Gens
  BY Zenon, <1>0 DEF TypeOK, LinkTypes, ThreadTypes, Procs
<1>1. pc'[p] = l /\ \A q \in Procs : q # p => pc'[q] = pc[q]
  BY Zenon, <1>t
<1>2. l \notin Early /\ l \notin {"adopted", "registered", "shutting"}
  BY Zenon DEF Early
<1>w. ASSUME NEW t, WillShut(t) PROVE WillShut(t)'
  <2>1. CASE \E r \in Sockets : pc[r] \in {"adopted", "registered"} /\ old[r] = t
    BY Zenon, <1>t, <1>1, <2>1 DEF WillShut
  <2>2. CASE \E q \in Procs : pc[q] \in {"closing", "shutting"} /\ carrier[bind[q]] = t
    BY Zenon, <1>1, <2>2 DEF WillShut
  <2> QED
    BY Zenon, <1>w, <2>1, <2>2 DEF WillShut
<1>3. ASSUME NEW t \in Sockets, sock[t] = "open", pc'[t] \notin Early
      PROVE  (hasLink /\ carrier[gen] = t) \/ WillShut(t)'
  <2>1. pc[t] \notin Early
    BY Zenon, <1>t, <1>1, <1>3
  <2> QED
    BY Zenon, <1>w, <1>3, <2>1 DEF SocketInv
<1>4. ASSUME NEW g \in closed, NEW t \in Sockets, carrier[g] = t, sock[t] = "open"
      PROVE  \E q \in Procs : pc'[q] = "shutting" /\ bind'[q] = g
  <2>1. PICK q \in Procs : pc[q] = "shutting" /\ bind[q] = g
    BY Zenon, <1>4 DEF SocketInv
  <2> QED
    BY Zenon, <1>1, <2>1
<1>5. ASSUME NEW g \in Gens, NEW t \in Sockets, carrier[g] = t PROVE pc'[t] \notin Early
  BY Zenon, <1>t, <1>1, <1>2, <1>5 DEF SocketInv
<1>6. ASSUME NEW t \in Sockets, pc'[t] = "registered", old[t] # NoSocket PROVE old[t] = carrier[bind'[t] - 1]
  BY <1>t, <1>1, <1>2, <1>6 DEF SocketInv
<1> QED
  BY ZenonT(40), <1>3, <1>4, <1>5, <1>6 DEF SocketInv

\* The adopting thread takes over the socket the link carried.
LEMMA AdoptSocketKeeps ==
  ASSUME IInv, SocketInv, NEW s \in Sockets, AdoptSocket(s)
  PROVE  SocketInv'
<1>0. TypeOK /\ ThreadInv /\ GenerationsAgree /\ FreshGenerations
  BY Zenon DEF IInv
<1>t. /\ pc \in [Procs -> PCs] /\ bind \in [Procs -> {0} \cup Gens] /\ Sockets \subseteq Procs
      /\ sock \in [Sockets -> {"idle", "open", "eof", "shut"}] /\ old \in [Sockets -> Sockets \cup {NoSocket}]
      /\ carrier \in [Gens -> Sockets \cup {NoSocket}] /\ closed \subseteq Gens
  BY Zenon, <1>0 DEF TypeOK, LinkTypes, ThreadTypes, Procs
<1>1. /\ pc[s] = "deciding" /\ pc' = [pc EXCEPT ![s] = "adopted"] /\ hasLink
      /\ carrier' = [carrier EXCEPT ![gen] = s] /\ closed' = closed \ {gen}
      /\ old' = [old EXCEPT ![s] = carrier[gen]] /\ bind' = [bind EXCEPT ![s] = gen]
      /\ gen' = gen /\ hasLink' = hasLink /\ sock' = sock
  BY ZenonT(40) DEF AdoptSocket, Adopt, Goto, Adoptable
<1>2. gen \in Gens
  BY Zenon, <1>0, <1>1, LinkedGeneration
<1>3. /\ pc'[s] = "adopted" /\ old'[s] = carrier[gen] /\ bind'[s] = gen /\ carrier'[gen] = s
      /\ \A q \in Procs : q # s => pc'[q] = pc[q] /\ bind'[q] = bind[q]
      /\ \A t \in Sockets : t # s => old'[t] = old[t]
      /\ \A g \in Gens : g # gen => carrier'[g] = carrier[g]
  BY Zenon, <1>t, <1>1, <1>2
<1>4. ASSUME NEW t \in Sockets, sock[t] = "open", pc'[t] \notin Early
      PROVE  (hasLink /\ carrier'[gen] = t) \/ WillShut(t)'
  <2>1. CASE t = s
    BY Zenon, <1>1, <1>3, <2>1
  <2>2. CASE carrier[gen] = t
    BY Zenon, <1>3, <2>2 DEF WillShut
  <2>3. CASE t # s /\ carrier[gen] # t
    <3>1. WillShut(t)
      BY ZenonT(40), <1>t, <1>3, <1>4, <2>3 DEF SocketInv
    <3>2. CASE \E r \in Sockets : pc[r] \in {"adopted", "registered"} /\ old[r] = t
      BY ZenonT(40), <1>t, <1>1, <1>3, <3>2 DEF WillShut
    <3>3. ASSUME NEW q \in Procs, pc[q] \in {"closing", "shutting"}, carrier[bind[q]] = t
          PROVE  WillShut(t)'
      <4>1. q # s /\ bind[q] # gen
        BY Zenon, <1>1, <2>3, <3>3
      <4>2. bind[q] \in Gens
        BY <1>0, <1>2, <3>3, BoundsAssumption DEF ThreadInv, Bound, Gens
      <4> QED
        BY ZenonT(40), <1>3, <3>3, <4>1, <4>2 DEF WillShut
    <3> QED
      BY Zenon, <3>1, <3>2, <3>3 DEF WillShut
  <2> QED
    BY ZenonT(40), <2>1, <2>2, <2>3
<1>5. ASSUME NEW g \in closed', NEW t \in Sockets, carrier'[g] = t, sock[t] = "open"
      PROVE  \E q \in Procs : pc'[q] = "shutting" /\ bind'[q] = g
  <2>1. g \in closed /\ carrier[g] = t
    BY Zenon, <1>t, <1>1, <1>3, <1>5
  <2>2. PICK q \in Procs : pc[q] = "shutting" /\ bind[q] = g
    BY ZenonT(40), <1>5, <2>1 DEF SocketInv
  <2> QED
    BY Zenon, <1>1, <1>3, <2>2
<1>6. ASSUME NEW g \in Gens, NEW t \in Sockets, carrier'[g] = t PROVE pc'[t] \notin Early
  <2>1. "adopted" \notin Early
    BY Zenon DEF Early
  <2> QED
    BY <1>t, <1>3, <1>6, <2>1 DEF SocketInv
<1>7. ASSUME NEW t \in Sockets, pc'[t] = "registered", old'[t] # NoSocket PROVE old'[t] = carrier'[bind'[t] - 1]
  <2>1. t # s /\ pc[t] = "registered" /\ old[t] = old'[t] /\ bind'[t] = bind[t]
    BY ZenonT(40), <1>t, <1>3, <1>7
  <2>2. old[t] = carrier[bind[t] - 1] /\ bind[t] \in 1 .. gen /\ bind[t] > 1
    BY ZenonT(40), <1>0, <1>t, <1>7, <2>1 DEF SocketInv, ThreadInv, Bound
  <2>3. bind[t] - 1 \in Gens /\ bind[t] - 1 # gen
    BY <1>2, <2>2, BoundsAssumption DEF Gens
  <2> QED
    BY Zenon, <1>3, <2>1, <2>2, <2>3
<1> QED
  BY <1>1, <1>4, <1>5, <1>6, <1>7 DEF SocketInv

\* FinishAdoption and FinishRegistration: thread s has shut what it held.
LEMMA SocketShut ==
  ASSUME IInv, SocketInv, NEW s \in Sockets, pc[s] \in {"adopted", "registered"},
         pc' = [pc EXCEPT ![s] = "spawned"], old' = [old EXCEPT ![s] = NoSocket],
         UNCHANGED <<gen, hasLink, carrier, bind>>, closed' \subseteq Gens,
         \A t \in Sockets : sock'[t] = "open" => sock[t] = "open",
         \A t \in Sockets : sock'[t] = "open" /\ old[s] = t =>
           \E q \in Procs : pc[q] = "shutting" /\ carrier[bind[q]] = t,
         \A g \in closed' \ closed, t \in Sockets : carrier[g] = t => sock'[t] # "open"
  PROVE  SocketInv'
<1>0. TypeOK /\ ThreadInv /\ GenerationsAgree /\ FreshGenerations
  BY Zenon DEF IInv
<1>t. /\ pc \in [Procs -> PCs] /\ bind \in [Procs -> {0} \cup Gens] /\ Sockets \subseteq Procs
      /\ sock \in [Sockets -> {"idle", "open", "eof", "shut"}] /\ old \in [Sockets -> Sockets \cup {NoSocket}]
      /\ carrier \in [Gens -> Sockets \cup {NoSocket}] /\ closed \subseteq Gens
  BY Zenon, <1>0 DEF TypeOK, LinkTypes, ThreadTypes, Procs
<1>1. /\ pc'[s] = "spawned" /\ old'[s] = NoSocket
      /\ \A q \in Procs : q # s => pc'[q] = pc[q]
      /\ \A t \in Sockets : t # s => old'[t] = old[t]
  BY ZenonT(40), <1>t
<1>2. "spawned" \notin Early /\ pc[s] \notin Early
  BY Zenon DEF Early
<1>3. ASSUME NEW t \in Sockets, sock'[t] = "open", pc'[t] \notin Early
      PROVE  (hasLink /\ carrier[gen] = t) \/ WillShut(t)'
  <2>1. sock[t] = "open" /\ pc[t] \notin Early
    BY Zenon, <1>t, <1>1, <1>2, <1>3
  <2>2. CASE hasLink /\ carrier[gen] = t
    BY Zenon, <2>2
  <2>3. ASSUME NEW q \in Procs, pc[q] \in {"closing", "shutting"}, carrier[bind[q]] = t PROVE WillShut(t)'
    BY Zenon, <1>1, <2>3 DEF WillShut
  <2>4. ASSUME NEW r \in Sockets, pc[r] \in {"adopted", "registered"}, old[r] = t PROVE WillShut(t)'
    <3>1. CASE r = s
      BY Zenon, <1>3, <2>3, <2>4, <3>1
    <3>2. CASE r # s
      BY Zenon, <1>t, <1>1, <2>4, <3>2 DEF WillShut
    <3> QED
      BY ZenonT(40), <3>1, <3>2
  <2> QED
    BY <2>1, <2>2, <2>3, <2>4 DEF SocketInv, WillShut
<1>4. ASSUME NEW g \in closed', NEW t \in Sockets, carrier[g] = t, sock'[t] = "open"
      PROVE  \E q \in Procs : pc'[q] = "shutting" /\ bind[q] = g
  <2>1. PICK q \in Procs : pc[q] = "shutting" /\ bind[q] = g
    BY ZenonT(40), <1>4 DEF SocketInv
  <2> QED
    BY ZenonT(40), <1>1, <2>1
<1>5. ASSUME NEW g \in Gens, NEW t \in Sockets, carrier[g] = t PROVE pc'[t] \notin Early
  BY <1>t, <1>1, <1>2, <1>5 DEF SocketInv
<1>6. ASSUME NEW t \in Sockets, pc'[t] = "registered", old'[t] # NoSocket PROVE old'[t] = carrier[bind[t] - 1]
  BY <1>t, <1>1, <1>6 DEF SocketInv
<1> QED
  BY <1>3, <1>4, <1>5, <1>6 DEF SocketInv

LEMMA FinishAdoptionKeeps ==
  ASSUME IInv, SocketInv, NEW s \in Sockets, FinishAdoption(s)
  PROVE  SocketInv'
<1>0. TypeOK /\ ThreadInv /\ GenerationsAgree /\ FreshGenerations
  BY Zenon DEF IInv
<1>t. /\ pc \in [Procs -> PCs] /\ bind \in [Procs -> {0} \cup Gens] /\ Sockets \subseteq Procs
      /\ sock \in [Sockets -> {"idle", "open", "eof", "shut"}] /\ old \in [Sockets -> Sockets \cup {NoSocket}]
      /\ carrier \in [Gens -> Sockets \cup {NoSocket}] /\ closed \subseteq Gens
  BY Zenon, <1>0 DEF TypeOK, LinkTypes, ThreadTypes, Procs
<1>1. /\ pc[s] = "adopted" /\ pc' = [pc EXCEPT ![s] = "spawned"] /\ old' = [old EXCEPT ![s] = NoSocket]
      /\ sock' = [sock EXCEPT ![old[s]] = "shut"]
      /\ gen' = gen /\ hasLink' = hasLink /\ carrier' = carrier /\ bind' = bind /\ closed' = closed
  BY Zenon DEF FinishAdoption, Return, Goto, sessionVars
<1>2. \A t \in Sockets : sock'[t] = "open" => sock[t] = "open" /\ old[s] # t
  BY Zenon, <1>t, <1>1
<1> QED
  BY Zenon, <1>t, <1>1, <1>2, SocketShut

LEMMA FinishRegistrationKeeps ==
  ASSUME IInv, SocketInv, NEW s \in Sockets, FinishRegistration(s)
  PROVE  SocketInv'
<1>0. TypeOK /\ ThreadInv /\ GenerationsAgree /\ FreshGenerations
  BY Zenon DEF IInv
<1>t. /\ pc \in [Procs -> PCs] /\ bind \in [Procs -> {0} \cup Gens] /\ Sockets \subseteq Procs
      /\ sock \in [Sockets -> {"idle", "open", "eof", "shut"}] /\ old \in [Sockets -> Sockets \cup {NoSocket}]
      /\ carrier \in [Gens -> Sockets \cup {NoSocket}] /\ closed \subseteq Gens
  BY Zenon, <1>0 DEF TypeOK, LinkTypes, ThreadTypes, Procs
<1>1. /\ pc[s] = "registered" /\ pc' = [pc EXCEPT ![s] = "spawned"] /\ old' = [old EXCEPT ![s] = NoSocket]
      /\ CloseReplaced(s)
      /\ gen' = gen /\ hasLink' = hasLink /\ carrier' = carrier /\ bind' = bind
  BY Zenon DEF FinishRegistration, Return, Goto, sessionVars
<1>2. CASE old[s] = NoSocket
  <2>1. closed' = closed /\ sock' = sock
    BY Zenon, <1>1, <1>2 DEF CloseReplaced
  <2>2. \A t \in Sockets : old[s] # t
    BY Zenon, <1>2, SocketsAssumption
  <2> QED
    BY ZenonT(40), <1>t, <1>1, <2>1, <2>2, SocketShut
<1>3. CASE old[s] # NoSocket
  <2> DEFINE g == bind[s] - 1
  <2>1. /\ closed' = closed \cup {g}
        /\ sock' = IF g \in closed THEN sock ELSE [sock EXCEPT ![old[s]] = "shut"]
    BY Zenon, <1>1, <1>3 DEF CloseReplaced
  <2>2. old[s] = carrier[g] /\ g \in Gens
    <3>1. bind[s] \in 1 .. gen /\ bind[s] > 1 /\ gen \in {0} \cup Gens
      BY Zenon, <1>0, <1>t, <1>1, <1>3 DEF ThreadInv, Bound, TypeOK, SessionTypes
    <3> QED
      BY <1>1, <1>3, <3>1, BoundsAssumption DEF SocketInv, Gens
  <2> HIDE DEF g
  <2>3. closed' \subseteq Gens /\ \A t \in Sockets : sock'[t] = "open" => sock[t] = "open"
    BY Zenon, <1>t, <2>1, <2>2
  <2>4. ASSUME NEW t \in Sockets, sock'[t] = "open", old[s] = t
        PROVE  \E q \in Procs : pc[q] = "shutting" /\ carrier[bind[q]] = t
    <3>1. g \in closed /\ sock[t] = "open"
      BY Zenon, <1>t, <2>1, <2>4
    <3>2. carrier[g] = t
      BY Zenon, <2>2, <2>4
    <3>3. \E q \in Procs : pc[q] = "shutting" /\ bind[q] = g
      BY Zenon, <3>1, <3>2 DEF SocketInv
    <3> QED
      BY Zenon, <3>2, <3>3
  <2>5. \A h \in closed' \ closed, t \in Sockets : carrier[h] = t => sock'[t] # "open"
    BY Zenon, <1>t, <2>1, <2>2
  <2> QED
    BY ZenonT(40), <1>1, <2>3, <2>4, <2>5, SocketShut
<1> QED
  BY Zenon, <1>2, <1>3

\* The registering thread takes over the socket of the link it replaces.
LEMMA RegisterLinkKeeps ==
  ASSUME IInv, SocketInv, NEW s \in Sockets, RegisterLink(s)
  PROVE  SocketInv'
<1>0. TypeOK /\ ThreadInv /\ GenerationsAgree /\ FreshGenerations
  BY Zenon DEF IInv
<1>t. /\ pc \in [Procs -> PCs] /\ bind \in [Procs -> {0} \cup Gens] /\ Sockets \subseteq Procs
      /\ sock \in [Sockets -> {"idle", "open", "eof", "shut"}] /\ old \in [Sockets -> Sockets \cup {NoSocket}]
      /\ carrier \in [Gens -> Sockets \cup {NoSocket}] /\ closed \subseteq Gens
  BY Zenon, <1>0 DEF TypeOK, LinkTypes, ThreadTypes, Procs
<1>1. /\ pc[s] = "registering" /\ pc' = [pc EXCEPT ![s] = "registered"] /\ gen < MaxGen
      /\ carrier' = [carrier EXCEPT ![gen + 1] = s] /\ closed' = closed
      /\ old' = [old EXCEPT ![s] = IF hasLink THEN carrier[gen] ELSE NoSocket]
      /\ bind' = [bind EXCEPT ![s] = gen + 1]
      /\ gen' = gen + 1 /\ hasLink' = TRUE /\ sock' = sock
  BY Zenon DEF RegisterLink, Goto
<1>2. gen \in Nat /\ gen + 1 \in Gens /\ (hasLink => gen \in Gens)
  BY <1>0, <1>1, LinkedGeneration, BoundsAssumption DEF Gens, TypeOK, SessionTypes
<1>3. /\ pc'[s] = "registered" /\ bind'[s] = gen + 1 /\ carrier'[gen + 1] = s
      /\ old'[s] = (IF hasLink THEN carrier[gen] ELSE NoSocket)
      /\ \A q \in Procs : q # s => pc'[q] = pc[q] /\ bind'[q] = bind[q]
      /\ \A t \in Sockets : t # s => old'[t] = old[t]
      /\ \A g \in Gens : g # gen + 1 => carrier'[g] = carrier[g]
  BY Zenon, <1>t, <1>1, <1>2
<1>4. ASSUME NEW t \in Sockets, sock[t] = "open", pc'[t] \notin Early
      PROVE  carrier'[gen + 1] = t \/ WillShut(t)'
  <2>1. CASE t = s
    BY Zenon, <1>3, <2>1
  <2>2. CASE hasLink /\ carrier[gen] = t
    BY Zenon, <1>3, <2>2 DEF WillShut
  <2>3. CASE t # s /\ ~(hasLink /\ carrier[gen] = t)
    <3>1. WillShut(t)
      BY ZenonT(40), <1>t, <1>3, <1>4, <2>3 DEF SocketInv
    <3>2. CASE \E r \in Sockets : pc[r] \in {"adopted", "registered"} /\ old[r] = t
      BY ZenonT(40), <1>t, <1>1, <1>3, <3>2 DEF WillShut
    <3>3. ASSUME NEW q \in Procs, pc[q] \in {"closing", "shutting"}, carrier[bind[q]] = t
          PROVE  WillShut(t)'
      <4>1. q # s
        BY Zenon, <1>1, <3>3
      <4>2. bind[q] \in Gens /\ bind[q] # gen + 1
        <5>1. bind[q] \in 1 .. gen /\ bind[q] \in {0} \cup Gens
          BY Zenon, <1>0, <1>t, <3>3 DEF ThreadInv, Bound
        <5> QED
          BY <1>2, <5>1
      <4> QED
        BY ZenonT(40), <1>3, <3>3, <4>1, <4>2 DEF WillShut
    <3> QED
      BY Zenon, <3>1, <3>2, <3>3 DEF WillShut
  <2> QED
    BY ZenonT(40), <2>1, <2>2, <2>3
<1>5. ASSUME NEW g \in closed, NEW t \in Sockets, carrier'[g] = t, sock[t] = "open"
      PROVE  \E q \in Procs : pc'[q] = "shutting" /\ bind'[q] = g
  <2>1. g # gen + 1
    BY <1>0, <1>2 DEF FreshGenerations
  <2>2. PICK q \in Procs : pc[q] = "shutting" /\ bind[q] = g
    BY ZenonT(40), <1>t, <1>3, <1>5, <2>1 DEF SocketInv
  <2> QED
    BY Zenon, <1>1, <1>3, <2>2
<1>6. ASSUME NEW g \in Gens, NEW t \in Sockets, carrier'[g] = t PROVE pc'[t] \notin Early
  <2>1. "registered" \notin Early
    BY Zenon DEF Early
  <2> QED
    BY <1>t, <1>3, <1>6, <2>1 DEF SocketInv
<1>7. ASSUME NEW t \in Sockets, pc'[t] = "registered", old'[t] # NoSocket PROVE old'[t] = carrier'[bind'[t] - 1]
  <2>1. CASE t = s
    BY <1>2, <1>3, <1>7, <2>1
  <2>2. CASE t # s
    <3>1. pc[t] = "registered" /\ old[t] = old'[t] /\ bind'[t] = bind[t]
      BY ZenonT(40), <1>t, <1>3, <1>7, <2>2
    <3>2. old[t] = carrier[bind[t] - 1] /\ bind[t] \in 1 .. gen /\ bind[t] > 1 /\ bind[t] \in {0} \cup Gens
      BY ZenonT(40), <1>0, <1>t, <1>7, <3>1 DEF SocketInv, ThreadInv, Bound
    <3>3. bind[t] - 1 \in Gens /\ bind[t] - 1 # gen + 1
      BY <1>2, <3>2, BoundsAssumption DEF Gens
    <3> QED
      BY Zenon, <1>3, <3>1, <3>2, <3>3
  <2> QED
    BY Zenon, <2>1, <2>2
<1> QED
  BY <1>1, <1>4, <1>5, <1>6, <1>7 DEF SocketInv

\* A thread takes the link away from the session and is about to close it.
LEMMA SocketTaken ==
  ASSUME IInv, SocketInv, NEW p \in Procs, pc[p] \notin {"adopted", "registered", "closing", "shutting"},
         p \in Sockets => pc[p] \notin Early, hasLink,
         pc' = [pc EXCEPT ![p] = "closing"], bind' = [bind EXCEPT ![p] = gen], hasLink' = FALSE,
         UNCHANGED <<gen, carrier, closed, sock, old>>
  PROVE  SocketInv'
<1>0. TypeOK /\ ThreadInv /\ GenerationsAgree /\ FreshGenerations
  BY Zenon DEF IInv
<1>t. /\ pc \in [Procs -> PCs] /\ bind \in [Procs -> {0} \cup Gens] /\ Sockets \subseteq Procs
      /\ sock \in [Sockets -> {"idle", "open", "eof", "shut"}] /\ old \in [Sockets -> Sockets \cup {NoSocket}]
      /\ carrier \in [Gens -> Sockets \cup {NoSocket}] /\ closed \subseteq Gens
  BY Zenon, <1>0 DEF TypeOK, LinkTypes, ThreadTypes, Procs
<1>1. /\ pc'[p] = "closing" /\ bind'[p] = gen
      /\ \A q \in Procs : q # p => pc'[q] = pc[q] /\ bind'[q] = bind[q]
  BY Zenon, <1>t
<1>2. "closing" \notin Early
  BY Zenon DEF Early
<1>3. ASSUME NEW t \in Sockets, sock[t] = "open", pc'[t] \notin Early PROVE WillShut(t)'
  <2>1. pc[t] \notin Early
    BY Zenon, <1>t, <1>1, <1>3
  <2>2. CASE carrier[gen] = t
    BY ZenonT(40), <1>1, <2>2 DEF WillShut
  <2>3. CASE \E r \in Sockets : pc[r] \in {"adopted", "registered"} /\ old[r] = t
    BY Zenon, <1>t, <1>1, <2>3 DEF WillShut
  <2>4. CASE \E q \in Procs : pc[q] \in {"closing", "shutting"} /\ carrier[bind[q]] = t
    BY ZenonT(40), <1>1, <2>4 DEF WillShut
  <2> QED
    BY ZenonT(40), <1>3, <2>1, <2>2, <2>3, <2>4 DEF SocketInv, WillShut
<1>4. ASSUME NEW g \in closed, NEW t \in Sockets, carrier[g] = t, sock[t] = "open"
      PROVE  \E q \in Procs : pc'[q] = "shutting" /\ bind'[q] = g
  <2>1. PICK q \in Procs : pc[q] = "shutting" /\ bind[q] = g
    BY Zenon, <1>4 DEF SocketInv
  <2> QED
    BY Zenon, <1>1, <2>1
<1>5. ASSUME NEW g \in Gens, NEW t \in Sockets, carrier[g] = t PROVE pc'[t] \notin Early
  BY <1>t, <1>1, <1>2, <1>5 DEF SocketInv
<1>6. ASSUME NEW t \in Sockets, pc'[t] = "registered", old[t] # NoSocket PROVE old[t] = carrier[bind'[t] - 1]
  BY <1>t, <1>1, <1>6 DEF SocketInv
<1> QED
  BY ZenonT(40), <1>3, <1>4, <1>5, <1>6 DEF SocketInv

LEMMA DisconnectIfCurrentKeeps ==
  ASSUME IInv, SocketInv, NEW p \in Procs, DisconnectIfCurrent(p)
  PROVE  SocketInv'
<1>0. TypeOK /\ ThreadInv /\ GenerationsAgree /\ FreshGenerations
  BY Zenon DEF IInv
<1>t. /\ pc \in [Procs -> PCs] /\ bind \in [Procs -> {0} \cup Gens] /\ Sockets \subseteq Procs
      /\ sock \in [Sockets -> {"idle", "open", "eof", "shut"}] /\ old \in [Sockets -> Sockets \cup {NoSocket}]
      /\ carrier \in [Gens -> Sockets \cup {NoSocket}] /\ closed \subseteq Gens
  BY Zenon, <1>0 DEF TypeOK, LinkTypes, ThreadTypes, Procs
<1>1. /\ pc[p] = "dropping" /\ hasLink /\ gen = bind[p] /\ pc' = [pc EXCEPT ![p] = "closing"]
      /\ bind' = bind /\ hasLink' = FALSE /\ UNCHANGED <<gen, carrier, closed, sock, old>>
  BY Zenon DEF DisconnectIfCurrent, Matches, Goto, linkVars
<1>2. bind' = [bind EXCEPT ![p] = gen]
  BY Zenon, <1>t, <1>1
<1>3. pc[p] \notin Early
  BY Zenon, <1>1 DEF Early
<1> QED
  BY ZenonT(40), <1>1, <1>2, <1>3, SocketTaken

LEMMA TerminateKeeps ==
  ASSUME IInv, SocketInv, TerminateAll \/ TerminateNothing
  PROVE  SocketInv'
<1>0. TypeOK /\ ThreadInv /\ GenerationsAgree /\ FreshGenerations
  BY Zenon DEF IInv
<1>t. /\ pc \in [Procs -> PCs] /\ bind \in [Procs -> {0} \cup Gens] /\ Sockets \subseteq Procs
      /\ sock \in [Sockets -> {"idle", "open", "eof", "shut"}] /\ old \in [Sockets -> Sockets \cup {NoSocket}]
      /\ carrier \in [Gens -> Sockets \cup {NoSocket}] /\ closed \subseteq Gens
  BY Zenon, <1>0 DEF TypeOK, LinkTypes, ThreadTypes, Procs
<1>1. Main \in Procs /\ Main \notin Sockets /\ pc[Main] = "idle"
  BY Zenon, MonitorsAssumption DEF Main, Procs, TerminateAll, TerminateNothing
<1>2. CASE TerminateAll /\ hasLink
  <2>1. /\ pc' = [pc EXCEPT ![Main] = "closing"] /\ bind' = [bind EXCEPT ![Main] = gen] /\ hasLink' = FALSE
        /\ UNCHANGED <<gen, carrier, closed, sock, old>>
    BY Zenon, <1>2 DEF TerminateAll, Goto, linkVars
  <2> QED
    BY Zenon, <1>1, <1>2, <2>1, SocketTaken
<1>3. CASE TerminateAll /\ ~hasLink
  <2>1. /\ pc' = [pc EXCEPT ![Main] = "done"] /\ bind' = [bind EXCEPT ![Main] = 0]
        /\ hasLink' = FALSE /\ UNCHANGED <<gen, carrier, closed, sock, old>>
    BY Zenon, <1>3 DEF TerminateAll, Goto, linkVars
  <2>2. hasLink' = hasLink
    BY <1>0, <1>3, <2>1, Zenon DEF TypeOK, SessionTypes
  <2>3. \A q \in Procs : q # Main => bind'[q] = bind[q]
    BY Zenon, <1>t, <2>1
  <2> QED
    BY ZenonT(40), <1>1, <2>1, <2>2, <2>3, SocketMove
<1>4. CASE TerminateNothing
  <2>1. pc' = [pc EXCEPT ![Main] = "done"] /\ UNCHANGED <<gen, hasLink, carrier, closed, sock, old, bind>>
    BY Zenon, <1>4 DEF TerminateNothing, Goto, sessionVars, linkVars
  <2> QED
    BY Zenon, <1>1, <2>1, SocketMove
<1> QED
  BY Zenon, <1>2, <1>3, <1>4

\* The flag decides who shuts the carrier: whoever finds it set leaves it to
\* the one that set it.
LEMMA CloseFlagKeeps ==
  ASSUME IInv, SocketInv, NEW p \in Procs, CloseFlag(p)
  PROVE  SocketInv'
<1>0. TypeOK /\ ThreadInv /\ GenerationsAgree /\ FreshGenerations
  BY Zenon DEF IInv
<1>t. /\ pc \in [Procs -> PCs] /\ bind \in [Procs -> {0} \cup Gens] /\ Sockets \subseteq Procs
      /\ sock \in [Sockets -> {"idle", "open", "eof", "shut"}] /\ old \in [Sockets -> Sockets \cup {NoSocket}]
      /\ carrier \in [Gens -> Sockets \cup {NoSocket}] /\ closed \subseteq Gens
  BY Zenon, <1>0 DEF TypeOK, LinkTypes, ThreadTypes, Procs
<1> DEFINE g == bind[p]
           l == IF g \in closed THEN "done" ELSE "shutting"
<1>1. /\ pc[p] = "closing" /\ pc' = [pc EXCEPT ![p] = l] /\ closed' = closed \cup {g}
      /\ Release(p, g \in closed) /\ UNCHANGED <<gen, hasLink, carrier, sock, old>>
  BY Zenon DEF CloseFlag, Goto, sessionVars
<1>b. \A q \in Procs : q # p \/ g \notin closed => bind'[q] = bind[q]
  BY Zenon, <1>t, <1>1 DEF Release
<1> HIDE DEF g, l
<1>2. pc'[p] = l /\ \A q \in Procs : q # p => pc'[q] = pc[q]
  BY Zenon, <1>t, <1>1
<1>e. pc[p] \notin Early /\ l \notin Early /\ l \notin {"adopted", "registered"}
  BY Zenon, <1>1 DEF Early, l
<1>3. ASSUME NEW t \in Sockets, sock[t] = "open", pc'[t] \notin Early
      PROVE  (hasLink /\ carrier[gen] = t) \/ WillShut(t)'
  <2>1. pc[t] \notin Early
    BY Zenon, <1>t, <1>2, <1>e, <1>3
  <2>2. ASSUME NEW r \in Sockets, pc[r] \in {"adopted", "registered"}, old[r] = t PROVE WillShut(t)'
    BY Zenon, <1>t, <1>1, <1>2, <2>2 DEF WillShut
  <2>3. ASSUME NEW q \in Procs, pc[q] \in {"closing", "shutting"}, q # p, carrier[bind[q]] = t PROVE WillShut(t)'
    BY ZenonT(40), <1>1, <1>2, <1>b, <2>3 DEF WillShut
  <2>4. CASE carrier[g] = t
    <3>1. CASE g \in closed
      <4>1. PICK q \in Procs : pc[q] = "shutting" /\ bind[q] = g
        BY ZenonT(40), <1>3, <2>4, <3>1 DEF SocketInv
      <4> QED
        BY Zenon, <1>1, <2>3, <2>4, <4>1
    <3>2. CASE g \notin closed
      <4>1. pc'[p] = "shutting" /\ bind'[p] = g /\ carrier' = carrier
        BY ZenonT(40), <1>1, <1>2, <1>b, <3>2 DEF l, g
      <4> QED
        BY Zenon, <2>4, <4>1 DEF WillShut
    <3> QED
      BY Zenon, <3>1, <3>2
  <2> QED
    BY ZenonT(40), <1>3, <2>1, <2>2, <2>3, <2>4 DEF SocketInv, WillShut, g
<1>4. ASSUME NEW h \in closed', NEW t \in Sockets, carrier[h] = t, sock[t] = "open"
      PROVE  \E q \in Procs : pc'[q] = "shutting" /\ bind'[q] = h
  <2>1. CASE h \in closed
    <3>1. PICK q \in Procs : pc[q] = "shutting" /\ bind[q] = h
      BY ZenonT(40), <1>4, <2>1 DEF SocketInv
    <3> QED
      BY ZenonT(40), <1>1, <1>2, <1>b, <3>1
  <2>2. CASE h \notin closed
    BY ZenonT(40), <1>1, <1>2, <1>4, <1>b, <2>2 DEF g, l
  <2> QED
    BY Zenon, <2>1, <2>2
<1>5. ASSUME NEW h \in Gens, NEW t \in Sockets, carrier[h] = t PROVE pc'[t] \notin Early
  BY Zenon, <1>t, <1>2, <1>e, <1>5 DEF SocketInv
<1>6. ASSUME NEW t \in Sockets, pc'[t] = "registered", old[t] # NoSocket PROVE old[t] = carrier[bind'[t] - 1]
  BY ZenonT(40), <1>t, <1>2, <1>e, <1>b, <1>6 DEF SocketInv
<1> QED
  BY ZenonT(40), <1>1, <1>3, <1>4, <1>5, <1>6 DEF SocketInv

LEMMA CloseCarrierKeeps ==
  ASSUME IInv, SocketInv, NEW p \in Procs, CloseCarrier(p)
  PROVE  SocketInv'
<1>0. TypeOK /\ ThreadInv /\ GenerationsAgree /\ FreshGenerations
  BY Zenon DEF IInv
<1>t. /\ pc \in [Procs -> PCs] /\ bind \in [Procs -> {0} \cup Gens] /\ Sockets \subseteq Procs
      /\ sock \in [Sockets -> {"idle", "open", "eof", "shut"}] /\ old \in [Sockets -> Sockets \cup {NoSocket}]
      /\ carrier \in [Gens -> Sockets \cup {NoSocket}] /\ closed \subseteq Gens
  BY Zenon, <1>0 DEF TypeOK, LinkTypes, ThreadTypes, Procs
<1>1. /\ pc[p] = "shutting" /\ pc' = [pc EXCEPT ![p] = "done"] /\ sock' = [sock EXCEPT ![carrier[bind[p]]] = "shut"]
      /\ Release(p, TRUE) /\ UNCHANGED <<gen, hasLink, carrier, closed, old>>
  BY Zenon DEF CloseCarrier, Goto, sessionVars, linkVars
<1>2. /\ pc'[p] = "done" /\ \A q \in Procs : q # p => pc'[q] = pc[q] /\ bind'[q] = bind[q]
      /\ \A t \in Sockets : sock'[t] = "open" => sock[t] = "open" /\ carrier[bind[p]] # t
  BY Zenon, <1>t, <1>1 DEF Release
<1>e. pc[p] \notin Early /\ "done" \notin Early
  BY Zenon, <1>1 DEF Early
<1>3. ASSUME NEW t \in Sockets, sock'[t] = "open", pc'[t] \notin Early
      PROVE  (hasLink /\ carrier[gen] = t) \/ WillShut(t)'
  <2>1. sock[t] = "open" /\ pc[t] \notin Early
    BY ZenonT(40), <1>t, <1>2, <1>e, <1>3
  <2>2. ASSUME NEW r \in Sockets, pc[r] \in {"adopted", "registered"}, old[r] = t PROVE WillShut(t)'
    BY Zenon, <1>t, <1>1, <1>2, <2>2 DEF WillShut
  <2>3. ASSUME NEW q \in Procs, pc[q] \in {"closing", "shutting"}, carrier[bind[q]] = t PROVE WillShut(t)'
    BY ZenonT(40), <1>1, <1>2, <1>3, <2>3 DEF WillShut
  <2> QED
    BY ZenonT(40), <2>1, <2>2, <2>3 DEF SocketInv, WillShut
<1>4. ASSUME NEW h \in closed, NEW t \in Sockets, carrier[h] = t, sock'[t] = "open"
      PROVE  \E q \in Procs : pc'[q] = "shutting" /\ bind'[q] = h
  <2>1. PICK q \in Procs : pc[q] = "shutting" /\ bind[q] = h
    BY ZenonT(40), <1>2, <1>4 DEF SocketInv
  <2> QED
    BY ZenonT(40), <1>2, <1>4, <2>1
<1>5. ASSUME NEW h \in Gens, NEW t \in Sockets, carrier[h] = t PROVE pc'[t] \notin Early
  BY <1>t, <1>2, <1>e, <1>5 DEF SocketInv
<1>6. ASSUME NEW t \in Sockets, pc'[t] = "registered", old[t] # NoSocket PROVE old[t] = carrier[bind'[t] - 1]
  BY <1>t, <1>2, <1>6 DEF SocketInv
<1> QED
  BY ZenonT(40), <1>1, <1>3, <1>4, <1>5, <1>6 DEF SocketInv

\* Readers, monitors and stale disconnects hold no socket to shut.
LEMMA BystanderKeeps ==
  ASSUME IInv, SocketInv, NEW p \in Procs,
         \/ p \in Sockets /\ ReaderStep(p)
         \/ p \in Monitors /\ SaveBinding(p)
         \/ BootstrapDisconnected(p) \/ DisconnectStale(p)
  PROVE  SocketInv'
<1>0. TypeOK /\ ThreadInv /\ GenerationsAgree /\ FreshGenerations
  BY Zenon DEF IInv
<1>t. /\ pc \in [Procs -> PCs] /\ bind \in [Procs -> {0} \cup Gens] /\ Sockets \subseteq Procs
      /\ sock \in [Sockets -> {"idle", "open", "eof", "shut"}] /\ old \in [Sockets -> Sockets \cup {NoSocket}]
      /\ carrier \in [Gens -> Sockets \cup {NoSocket}] /\ closed \subseteq Gens
  BY Zenon, <1>0 DEF TypeOK, LinkTypes, ThreadTypes, Procs
<1>1. /\ UNCHANGED <<gen, hasLink, carrier, closed, sock, old>>
      /\ \A q \in Procs : q # p => bind'[q] = bind[q]
  BY ZenonT(40), <1>t DEF ReaderStep, StartReader, ReaderLeaves, ReaderEnds, SaveBinding, BootstrapDisconnected,
              DisconnectStale, Release, sessionVars, linkVars
<1>2. \E l \in {"reading", "ended", "dropping", "closing", "done"} : pc' = [pc EXCEPT ![p] = l]
  BY ZenonT(40) DEF ReaderStep, StartReader, ReaderLeaves, ReaderEnds, SaveBinding, BootstrapDisconnected,
         DisconnectStale, Goto
<1>3. /\ pc[p] \notin {"adopted", "registered", "closing", "shutting"}
      /\ p \in Sockets => pc[p] \notin Early
  BY ZenonT(40), MonitorsAssumption DEF ReaderStep, StartReader, ReaderLeaves, ReaderEnds, SaveBinding,
     BootstrapDisconnected, DisconnectStale, Early
<1> QED
  BY ZenonT(40), <1>1, <1>2, <1>3, SocketMove

\* A connection before it is adopted or registered, and one that gives up.
LEMMA EarlyKeeps ==
  ASSUME IInv, SocketInv, NEW s \in Sockets,
         \/ Attach(s) \/ ReadSupersede(s) \/ ClaimFlight(s) \/ FlightTaken(s)
         \/ RefuseUnpaired(s) \/ PassHolder(s) \/ PeerRestarted(s) \/ LoseRace(s) \/ DecideRace(s)
         \/ RegisterInstead(s) \/ NotAdopted(s) \/ RegisterTerminated(s)
  PROVE  SocketInv'
<1>0. TypeOK /\ ThreadInv /\ GenerationsAgree /\ FreshGenerations
  BY Zenon DEF IInv
<1>t. /\ pc \in [Procs -> PCs] /\ bind \in [Procs -> {0} \cup Gens] /\ Sockets \subseteq Procs
      /\ sock \in [Sockets -> {"idle", "open", "eof", "shut"}] /\ old \in [Sockets -> Sockets \cup {NoSocket}]
      /\ carrier \in [Gens -> Sockets \cup {NoSocket}] /\ closed \subseteq Gens
  BY Zenon, <1>0 DEF TypeOK, LinkTypes, ThreadTypes, Procs
<1>1. CASE GiveUp(s) /\ pc[s] \in Early
  <2>1. /\ pc' = [pc EXCEPT ![s] = "done"] /\ sock' = [sock EXCEPT ![s] = "shut"]
        /\ UNCHANGED <<gen, hasLink, carrier, closed, bind, old>>
    BY Zenon, <1>1 DEF GiveUp, Return, Goto, sessionVars, linkVars
  <2>2. sock'[s] # "open" /\ \A t \in Sockets : t # s => sock'[t] = sock[t]
    BY Zenon, <1>t, <2>1
  <2> QED
    BY ZenonT(40), <1>1, <2>1, <2>2, SocketEarly
<1>2. CASE FlightTaken(s) \/ RefuseUnpaired(s) \/ LoseRace(s) \/ NotAdopted(s) \/ RegisterTerminated(s)
  BY ZenonT(40), <1>1, <1>2 DEF FlightTaken, RefuseUnpaired, LoseRace, NotAdopted, RegisterTerminated, Early
<1>3. CASE Attach(s)
  <2>1. /\ pc[s] \in Early /\ \E l \in Early : pc' = [pc EXCEPT ![s] = l]
        /\ sock' = [sock EXCEPT ![s] = "open"] /\ UNCHANGED <<gen, hasLink, carrier, closed, bind, old>>
    BY Zenon, <1>3 DEF Attach, FinishSecureLink, AttachOther, Goto, Early, sessionVars, linkVars
  <2>2. \A t \in Sockets : t # s => sock'[t] = sock[t]
    BY Zenon, <1>t, <2>1
  <2>3. "done" \notin Early
    BY Zenon DEF Early
  <2> QED
    BY ZenonT(40), <2>1, <2>2, <2>3, SocketEarly
<1>4. CASE ReadSupersede(s) \/ ClaimFlight(s) \/ PassHolder(s) \/ PeerRestarted(s) \/ DecideRace(s)
           \/ RegisterInstead(s)
  <2>1. /\ pc[s] \in Early /\ \E l \in Early : pc' = [pc EXCEPT ![s] = l]
        /\ UNCHANGED <<gen, hasLink, carrier, closed, bind, old, sock>>
    BY Zenon, <1>4 DEF ReadSupersede, ClaimFlight, PassHolder, PeerRestarted, DecideRace, RegisterInstead,
                Goto, Early, sessionVars, linkVars
  <2>3. "done" \notin Early
    BY Zenon DEF Early
  <2> QED
    BY ZenonT(40), <2>1, <2>3, SocketEarly
<1> QED
  BY Zenon, <1>2, <1>3, <1>4

LEMMA SocketInit == Init => SocketInv
<1> SUFFICES ASSUME Init PROVE SocketInv
  BY Zenon
<1>1. \A s \in Sockets : s \in Procs /\ sock[s] # "open" /\ pc[s] # "registered"
  BY ZenonT(40) DEF Init, Procs
<1>2. closed = {} /\ \A g \in Gens, s \in Sockets : carrier[g] # s
  BY Zenon, SocketsAssumption DEF Init
<1> QED
  BY ZenonT(40), <1>1, <1>2 DEF SocketInv

LEMMA SocketStep == IInv /\ SocketInv /\ [Next]_vars => SocketInv'
<1> SUFFICES ASSUME IInv, SocketInv, [Next]_vars PROVE SocketInv'
  BY Zenon
<1>1. ASSUME NEW s \in Sockets, Attach(s) \/ AttachStep(s) PROVE SocketInv'
  BY Zenon, <1>1, EarlyKeeps, AdoptSocketKeeps, FinishAdoptionKeeps, RegisterLinkKeeps, FinishRegistrationKeeps
     DEF AttachStep
<1>2. ASSUME NEW p \in Procs, DisconnectStep(p) PROVE SocketInv'
  BY Zenon, <1>2, BystanderKeeps, DisconnectIfCurrentKeeps, CloseFlagKeeps, CloseCarrierKeeps DEF DisconnectStep
<1>3. CASE \E s \in Sockets : ReaderStep(s)
  BY Zenon, <1>3, BystanderKeeps DEF Procs
<1>4. CASE \E m \in Monitors : SaveBinding(m)
  BY Zenon, <1>4, BystanderKeeps DEF Procs
<1>5. CASE TerminateNothing \/ TerminateAll
  BY Zenon, <1>5, TerminateKeeps
<1>6. CASE WebrtcStep \/ PairingStep \/ NoteInbound \/ FallSilent \/ RaceWindowEnds \/ UNCHANGED vars
  <2>1. UNCHANGED <<gen, hasLink, carrier, closed, pc, bind, old, sock>>
    BY ZenonT(40), <1>6 DEF WebrtcStep, InstallPeer, HandoverStep, ClearWebrtcIfCurrent, PairingStep, RevokePairing,
       SetPairing, ForgetPairing, DropPairing, NoteInbound, FallSilent, RaceWindowEnds, vars,
       sessionVars, linkVars, procVars
  <2> QED
    BY Zenon, <2>1, SocketQuiet
<1>7. ASSUME NEW s \in Sockets, PeerEnds(s) PROVE SocketInv'
  <2>1. UNCHANGED <<gen, hasLink, carrier, closed, pc, bind, old>> /\ sock' = [sock EXCEPT ![s] = "eof"]
    BY Zenon, <1>7 DEF PeerEnds, sessionVars, linkVars, procVars
  <2>2. \A t \in Sockets : sock'[t] = "open" => sock[t] = "open"
    BY <2>1
  <2> QED
    BY Zenon, <2>1, <2>2, SocketQuiet
<1> QED
  BY Zenon, <1>1, <1>2, <1>3, <1>4, <1>5, <1>6, <1>7 DEF Next, Environment

\* An open socket whose connection thread is over is carried by the session's
\* link or about to be shut by some thread, through every adoption,
\* replacement, loss and shutdown: SessionLink::close leaves the carrier to
\* whoever set the flag, and that thread is never missing.
THEOREM SocketsCorrect == Spec => []NoSocketLeaked
<1>1. IInv /\ SocketInv => NoSocketLeaked
  BY Zenon DEF SocketInv, NoSocketLeaked, Early, AttachPcs
<1> QED
  BY <1>1, SocketInit, SocketStep, Invariance, PTL DEF Spec

=============================================================================
