--------------------------- MODULE RecoveryProofs ---------------------------
(***************************************************************************)
(* Who holds each peer of Recovery, for any number of peers, threads, links *)
(* and rungs: an installed peer is served, and none is left behind.         *)
(***************************************************************************)
EXTENDS Recovery, TLAPS

Optional == Peers \cup {NoPeer}

\* The types the proofs need.
Types ==
  /\ linkGen \in Generations /\ active \in Optional /\ claim \in StartThreads \cup {Free}
  /\ built \in [Peers -> PeerRecords] /\ start \in [StartThreads -> StartRecords]
  /\ reader \in [Generations -> ReaderRecords]
  /\ network \in [pc : {"none", "rebuild", "sign"}, gen : 0 .. MaxGenerations]
  /\ sign \in [pc : {"none", "look"}, gen : 0 .. MaxGenerations]

\* A peer that is open is installed, or with the thread that will install or
\* close it; one that was not built has no worker.
Holder(p) ==
  \/ active = p
  \/ \E t \in StartThreads : start[t].pc = "built" /\ start[t].peer = p
  \/ \E g \in Generations : reader[g].pc = "install" /\ reader[g].peer = p
  \/ \E g \in Generations : reader[g].pc \in {"restart", "replace"} /\ reader[g].old = p
Holders ==
  /\ \A p \in Peers : built[p].state = "open" => Holder(p)
  /\ \A p \in Peers : built[p].state = "none" => built[p].worker = "none"

\* One thread at a time is past claim_start, and only on the side that offers;
\* the peer it brings has no worker yet.
Claimed == {"claimed", "built", "installed", "offer"}
StarterAt(t) ==
  /\ start[t].pc \in Claimed => initiates /\ claim = t
  /\ start[t].pc \in {"built", "installed"} =>
       /\ start[t].peer \in Peers
       /\ built[start[t].peer].state # "none" /\ built[start[t].peer].worker = "none"
  /\ start[t].pc = "built" => built[start[t].peer].gen = start[t].gen
Starters == \A t \in StartThreads : StarterAt(t)

\* A reader brings a peer of its own link, only on the side that answers.
ReaderAt(g) ==
  reader[g].pc \in {"install", "replace"} =>
    /\ ~initiates /\ reader[g].peer \in Peers /\ built[reader[g].peer].gen = g
    /\ built[reader[g].peer].state # "none" /\ built[reader[g].peer].worker = "none"
ReadersInv == \A g \in Generations : ReaderAt(g)

\* Somebody will reset what the device was granted: a worker before its guard
\* did, or one about to start.
Resets(p) ==
  \/ built[p].worker \in {"run", "rebuild", "ended", "guard"}
  \/ \E t \in StartThreads : start[t].pc = "installed" /\ start[t].peer = p
  \/ \E g \in Generations : reader[g].pc = "replace" /\ reader[g].peer = p
Granted ==
  /\ device # NoPeer => \E p \in Peers : Resets(p)
  /\ active # NoPeer /\ built[active].worker = "reset" => device = NoPeer

RecInv == Types /\ Holders /\ Starters /\ ReadersInv /\ NoOrphanPeer /\ Granted

-----------------------------------------------------------------------------
(* The three kinds of step that leave holders alone.                       *)

\* A thread that holds no peer moves on, or one is spawned.
StartsQuietly ==
  /\ start' \in [StartThreads -> StartRecords] /\ claim' \in StartThreads \cup {Free}
  /\ \A t \in StartThreads :
       /\ start[t].pc \in {"built", "installed"} => start'[t] = start[t]
       /\ start'[t].pc \in {"built", "installed"} => start'[t] = start[t]
       /\ start'[t].pc \in Claimed => initiates /\ claim' = t

SidesStay ==
  /\ network' \in [pc : {"none", "rebuild", "sign"}, gen : 0 .. MaxGenerations]
  /\ sign' \in [pc : {"none", "look"}, gen : 0 .. MaxGenerations]
  /\ initiates' = initiates

LEMMA QuietStarts ==
  ASSUME RecInv, StartsQuietly, SidesStay, UNCHANGED <<linkGen, active, built, reader, device>>
  PROVE  RecInv'
<1>1. Types'
  BY Zenon DEF RecInv, Types, StartsQuietly, SidesStay
<1>2. Holders'
  BY DEF RecInv, Holders, Holder, StartsQuietly
<1>3. Starters'
  BY DEF RecInv, Starters, StarterAt, StartsQuietly, SidesStay
<1>4. ReadersInv'
  BY Zenon DEF RecInv, ReadersInv, ReaderAt, SidesStay
<1>5. NoOrphanPeer'
  BY Zenon DEF RecInv, NoOrphanPeer, StartsQuietly
<1>6. Granted'
  BY Zenon DEF RecInv, Granted, Resets, StartsQuietly
<1> QED
  BY Zenon, <1>1, <1>2, <1>3, <1>4, <1>5, <1>6 DEF RecInv

\* The worker of peer p goes from one place to another.
LEMMA WorkerMoves ==
  ASSUME RecInv, StartsQuietly, SidesStay, UNCHANGED <<linkGen, active, reader>>,
         NEW p \in Peers, NEW w \in {"ended", "guard", "reset", "done"},
         built[p].worker # "none", built' = [built EXCEPT ![p].worker = w],
         active = p => built[p].worker # "rebuild" /\ w # "done",
         device' = (IF w = "reset" THEN NoPeer ELSE device),
         w = "done" => built[p].worker = "reset" \/ active # NoPeer
  PROVE  RecInv'
<1>t. /\ built \in [Peers -> PeerRecords] /\ active \in Optional /\ NoPeer \notin Peers
      /\ linkGen \in Generations
  BY Zenon, RecoveryAssumption DEF RecInv, Types, Peers
<1>1. /\ built' \in [Peers -> PeerRecords] /\ built'[p].worker = w
      /\ \A q \in Peers : built'[q].state = built[q].state /\ built'[q].gen = built[q].gen
      /\ \A q \in Peers : q # p => built'[q].worker = built[q].worker
  BY Zenon, <1>t DEF PeerRecords
<1>2. Types'
  BY Zenon, <1>1 DEF RecInv, Types, StartsQuietly, SidesStay
<1>3. Holders'
  BY <1>1 DEF RecInv, Holders, Holder, StartsQuietly
<1>4. Starters'
  BY <1>1 DEF RecInv, Starters, StarterAt, StartsQuietly, SidesStay
<1>5. ReadersInv'
  BY <1>1 DEF RecInv, ReadersInv, ReaderAt, SidesStay
<1>6. NoOrphanPeer'
  <2> SUFFICES ASSUME active # NoPeer PROVE NoOrphanPeer'
    BY Zenon DEF NoOrphanPeer
  <2>1. active \in Peers /\ built'[active].gen = linkGen /\ built'[active].state # "none"
    BY Zenon, <1>t, <1>1 DEF RecInv, NoOrphanPeer, Optional
  <2>2. CASE active = p
    BY Zenon, <1>1, <2>1, <2>2 DEF NoOrphanPeer
  <2>3. CASE active # p
    BY <1>1, <2>1, <2>3 DEF RecInv, NoOrphanPeer, StartsQuietly
  <2> QED
    BY Zenon, <2>2, <2>3
<1>7. Granted'
  <2>1. CASE w = "reset"
    BY Zenon, <2>1 DEF Granted
  <2>2. CASE w \in {"ended", "guard"}
    <3>1. device' = device /\ Resets(p)'
      BY Zenon, <1>1, <2>2 DEF Resets
    <3> QED
      BY <1>t, <1>1, <2>2, <3>1 DEF RecInv, Granted
  <2>3. CASE w = "done"
    <3>1. device' = device /\ active # p /\ \A q \in Peers : q # p /\ Resets(q) => Resets(q)'
      BY <1>1, <2>3 DEF Resets, StartsQuietly
    <3>2. active # NoPeer => active \in Peers /\ built'[active].worker = built[active].worker
      BY Zenon, <1>t, <1>1, <3>1 DEF Optional
    <3>3. CASE built[p].worker = "reset"
      <4>1. Resets(p) => Resets(p)'
        BY Zenon, <3>3 DEF Resets, StartsQuietly
      <4> QED
        BY Zenon, <3>1, <3>2, <4>1 DEF RecInv, Granted
    <3>4. CASE active # NoPeer
      <4>1. built[active].worker = "reset" \/ Resets(active)
        BY Zenon, <1>t, <3>4 DEF RecInv, NoOrphanPeer, Resets
      <4> QED
        BY Zenon, <3>1, <3>2, <3>4, <4>1 DEF RecInv, Granted
    <3> QED
      BY Zenon, <2>3, <3>3, <3>4
  <2> QED
    BY Zenon, <2>1, <2>2, <2>3
<1> QED
  BY Zenon, <1>2, <1>3, <1>4, <1>5, <1>6, <1>7 DEF RecInv

\* The peer that is installed is taken out and closed.
LEMMA PeerDropped ==
  ASSUME RecInv, StartsQuietly, SidesStay, linkGen' \in Generations, active \in Peers, active' = NoPeer,
         UNCHANGED <<reader, device>>, built' \in [Peers -> PeerRecords],
         built'[active].state = "closed", built'[active].gen = built[active].gen,
         built[active].worker = "none" <=> built'[active].worker = "none",
         built[active].worker \in {"run", "rebuild", "ended", "guard"} =>
           built'[active].worker \in {"run", "rebuild", "ended", "guard"},
         \A q \in Peers : q # active => built'[q] = built[q]
  PROVE  RecInv'
<1>1. Types'
  BY Zenon DEF RecInv, Types, StartsQuietly, SidesStay, Optional
<1>2. Holders'
  <2>1. ASSUME NEW q \in Peers, built'[q].state = "open" PROVE Holder(q)'
    <3>1. q # active /\ Holder(q)
      BY Zenon, <2>1 DEF RecInv, Holders
    <3> QED
      BY Zenon, <3>1 DEF Holder, StartsQuietly
  <2> QED
    BY Zenon, <2>1 DEF RecInv, Holders
<1>s. \A q \in Peers : /\ built'[q].gen = built[q].gen /\ (built[q].state # "none" => built'[q].state # "none")
                       /\ built[q].worker = "none" => built'[q].worker = "none"
                       /\ built[q].worker \in {"run", "rebuild", "ended", "guard"} =>
                            built'[q].worker \in {"run", "rebuild", "ended", "guard"}
  BY Zenon
<1>3. Starters'
  BY <1>s DEF RecInv, Starters, StarterAt, StartsQuietly, SidesStay
<1>4. ReadersInv'
  BY <1>s DEF RecInv, ReadersInv, ReaderAt, SidesStay
<1>5. NoOrphanPeer'
  BY Zenon DEF NoOrphanPeer
<1>6. Granted'
  <2>1. \A q \in Peers : Resets(q) => Resets(q)'
    BY Zenon, <1>s DEF Resets, StartsQuietly
  <2> QED
    BY Zenon, <2>1 DEF RecInv, Granted
<1> QED
  BY Zenon, <1>1, <1>2, <1>3, <1>4, <1>5, <1>6 DEF RecInv

-----------------------------------------------------------------------------
(* What the steps of the threads that start a peer do to start and claim.  *)

LEMMA SpawnQuiet ==
  ASSUME Types, Starters, NEW g \in 0 .. MaxGenerations, NEW at \in {"sleep", "begin"}, NEW n \in 0 .. Retries,
         Spawn(g, at, n), claim' = claim
  PROVE  StartsQuietly
<1>1. PICK t \in StartThreads : /\ start[t].pc = "none"
                           /\ start' = [start EXCEPT ![t] = [pc |-> at, gen |-> g, tries |-> n, peer |-> NoPeer]]
  BY Zenon DEF Spawn
<1>2. [pc |-> at, gen |-> g, tries |-> n, peer |-> NoPeer] \in StartRecords
  BY Zenon DEF StartRecords
<1>3. start' \in [StartThreads -> StartRecords] /\ start'[t].pc = at /\ \A u \in StartThreads : u # t => start'[u] = start[u]
  BY Zenon, <1>1, <1>2 DEF Types
<1> QED
  BY Zenon, <1>1, <1>3 DEF StartsQuietly, Types, Starters, StarterAt, Claimed

\* Thread t ends its start and gives the claim back, if it had it.
LEMMA FinishQuiet ==
  ASSUME Types, Starters, NEW t \in StartThreads, Finish(t), start[t].pc \notin {"built", "installed", "none"},
         claim' = claim \/ (claim = t /\ claim' = Free)
  PROVE  StartsQuietly
<1> DEFINE r == IF start[t].tries > 0
                THEN [pc |-> "sleep", gen |-> start[t].gen, tries |-> start[t].tries - 1, peer |-> NoPeer]
                ELSE NotStarted
<1>1. start[t] \in StartRecords /\ start' = [start EXCEPT ![t] = r]
  BY Zenon DEF Types, Finish
<1>2. r \in StartRecords /\ r.pc \in {"sleep", "none"}
  BY <1>1, RecoveryAssumption DEF StartRecords, NotStarted
<1> HIDE DEF r
<1>3. start' \in [StartThreads -> StartRecords] /\ start'[t] = r /\ \A u \in StartThreads : u # t => start'[u] = start[u]
  BY Zenon, <1>1, <1>2 DEF Types
<1>4. claim' \in StartThreads \cup {Free}
  BY Zenon DEF Types
<1>5. \A u \in StartThreads : start'[u].pc \in Claimed => initiates /\ claim' = u
  BY Zenon, <1>2, <1>3 DEF Starters, StarterAt, Claimed
<1> QED
  BY Zenon, <1>2, <1>3, <1>4, <1>5 DEF StartsQuietly

LEMMA Unmoved ==
  ASSUME Types, Starters, UNCHANGED <<start, claim>>
  PROVE  StartsQuietly
BY Zenon DEF StartsQuietly, Types, Starters, StarterAt

LEMMA SidesUnmoved ==
  ASSUME Types, UNCHANGED <<network, sign, initiates>>
  PROVE  SidesStay
BY Zenon DEF SidesStay, Types

-----------------------------------------------------------------------------
(* The actions.                                                            *)

LEMMA StartsKeep ==
  ASSUME RecInv, NEW t \in StartThreads, Wakes(t) \/ Claims(t) \/ Offers(t)
  PROVE  RecInv'
<1>0. Types /\ Starters
  BY Zenon DEF RecInv
<1>s. SidesStay
  BY Zenon, <1>0, SidesUnmoved DEF Wakes, Claims, Offers
<1>1. CASE Wakes(t)
  <2> DEFINE r == IF linkGen # start[t].gen \/ active # NoPeer THEN NotStarted ELSE [start[t] EXCEPT !.pc = "begin"]
  <2>1. start[t] \in StartRecords /\ start' = [start EXCEPT ![t] = r] /\ claim' = claim /\ start[t].pc = "sleep"
    BY Zenon, <1>0, <1>1 DEF Wakes, Types
  <2>2. r \in StartRecords /\ r.pc \in {"begin", "none"}
    BY <2>1, RecoveryAssumption DEF StartRecords, NotStarted
  <2> HIDE DEF r
  <2>3. start' \in [StartThreads -> StartRecords] /\ start'[t] = r /\ \A u \in StartThreads : u # t => start'[u] = start[u]
    BY Zenon, <1>0, <2>1, <2>2 DEF Types
  <2>4. StartsQuietly
    BY Zenon, <1>0, <2>1, <2>2, <2>3 DEF StartsQuietly, Types, Starters, StarterAt, Claimed
  <2> QED
    BY Zenon, <1>1, <1>s, <2>4, QuietStarts DEF Wakes, session
<1>2. CASE Claims(t)
  <2>1. CASE linkGen = start[t].gen /\ claim = Free /\ initiates
    <3>1. start[t] \in StartRecords /\ start' = [start EXCEPT ![t].pc = "claimed"] /\ claim' = t /\ start[t].pc = "begin"
      BY Zenon, <1>0, <1>2, <2>1 DEF Claims, Types
    <3>2. start' \in [StartThreads -> StartRecords] /\ start'[t].pc = "claimed" /\ \A u \in StartThreads : u # t => start'[u] = start[u]
      BY Zenon, <1>0, <3>1 DEF Types, StartRecords
    <3>3. \A u \in StartThreads : u # t => start[u].pc \notin Claimed
      BY <1>0, <2>1 DEF Starters, StarterAt, Free, StartThreads
    <3>4. StartsQuietly
      BY Zenon, <2>1, <3>1, <3>2, <3>3 DEF StartsQuietly
    <3> QED
      BY Zenon, <1>2, <1>s, <3>4, QuietStarts DEF Claims, session
  <2>2. CASE ~(linkGen = start[t].gen /\ claim = Free /\ initiates)
    <3>1. StartsQuietly
      BY Zenon, <1>0, <1>2, <2>2, FinishQuiet DEF Claims
    <3> QED
      BY Zenon, <1>2, <1>s, <3>1, QuietStarts DEF Claims, session
  <2> QED
    BY Zenon, <2>1, <2>2
<1>3. CASE Offers(t)
  <2>1. claim = t
    BY Zenon, <1>0, <1>3 DEF Offers, Starters, StarterAt, Claimed
  <2>2. StartsQuietly
    BY Zenon, <1>0, <1>3, <2>1, FinishQuiet DEF Offers, EndStart
  <2> QED
    BY Zenon, <1>3, <1>s, <2>2, QuietStarts DEF Offers, session
<1> QED
  BY Zenon, <1>1, <1>2, <1>3

LEMMA FreshPeer ==
  ASSUME Room
  PROVE  Unused \in Peers /\ built[Unused].state = "none"
BY Zenon DEF Room, Unused

\* A peer is opened: nothing that was held is touched.
LEMMA OpenedPeer ==
  ASSUME RecInv, Room, NEW g \in Generations, Opened(g)
  PROVE  /\ built' \in [Peers -> PeerRecords]
         /\ Unused \in Peers /\ built[Unused].state = "none" /\ Unused # active
         /\ built'[Unused] = [state |-> "open", gen |-> g, worker |-> "none"]
         /\ \A q \in Peers : q # Unused => built'[q] = built[q]
<1> DEFINE f == Unused
<1>1. f \in Peers /\ built[f].state = "none" /\ built' = [built EXCEPT ![f] = [state |-> "open", gen |-> g, worker |-> "none"]]
  BY Zenon, FreshPeer DEF Opened
<1> HIDE DEF f
<1>2. [state |-> "open", gen |-> g, worker |-> "none"] \in PeerRecords /\ built \in [Peers -> PeerRecords]
  BY RecoveryAssumption DEF PeerRecords, Generations, RecInv, Types
<1>3. f # active
  BY Zenon, <1>1, RecoveryAssumption DEF RecInv, NoOrphanPeer, Peers
<1>4. /\ built' \in [Peers -> PeerRecords] /\ built'[f] = [state |-> "open", gen |-> g, worker |-> "none"]
      /\ \A q \in Peers : q # f => built'[q] = built[q]
  BY Zenon, <1>1, <1>2
<1> QED
  BY Zenon, <1>1, <1>3, <1>4 DEF f

LEMMA BuildsKeep ==
  ASSUME RecInv, NEW t \in StartThreads, Builds(t)
  PROVE  RecInv'
<1>0. Types /\ Starters /\ start[t].pc = "claimed" /\ claim = t /\ initiates
  BY Zenon DEF RecInv, Builds, Starters, StarterAt, Claimed
<1>s. SidesStay
  BY Zenon, <1>0, SidesUnmoved DEF Builds
<1>1. CASE EndStart(t) /\ built' = built
  <2>1. StartsQuietly
    BY Zenon, <1>0, <1>1, FinishQuiet DEF EndStart
  <2> QED
    BY Zenon, <1>1, <1>s, <2>1, QuietStarts DEF Builds, session
<1>2. CASE /\ linkGen = start[t].gen /\ active = NoPeer /\ Room
           /\ Opened(linkGen) /\ start' = [start EXCEPT ![t].pc = "built", ![t].peer = Unused] /\ claim' = claim
  <2> DEFINE f == Unused
  <2>1. linkGen \in Generations /\ start[t] \in StartRecords
    BY Zenon, <1>0 DEF Types
  <2>2. /\ built' \in [Peers -> PeerRecords] /\ f \in Peers /\ built[f].state = "none"
        /\ built'[f] = [state |-> "open", gen |-> linkGen, worker |-> "none"]
        /\ \A q \in Peers : q # f => built'[q] = built[q]
    BY Zenon, <1>2, <2>1, OpenedPeer
  <2>3. start' = [start EXCEPT ![t].pc = "built", ![t].peer = f]
    BY Zenon, <1>2
  <2> HIDE DEF f
  <2>4. /\ start' \in [StartThreads -> StartRecords] /\ start'[t].pc = "built" /\ start'[t].peer = f /\ start'[t].gen = linkGen
        /\ \A u \in StartThreads : u # t => start'[u] = start[u] /\ start[u].pc \notin Claimed
    <3>1. /\ start' \in [StartThreads -> StartRecords] /\ start'[t].pc = "built" /\ start'[t].peer = f
          /\ start'[t].gen = start[t].gen /\ \A u \in StartThreads : u # t => start'[u] = start[u]
      BY Zenon, <1>0, <2>1, <2>2, <2>3 DEF Types, StartRecords
    <3>2. \A u \in StartThreads : u # t => start[u].pc \notin Claimed
      BY Zenon, <1>0 DEF Starters, StarterAt
    <3> QED
      BY Zenon, <1>2, <3>1, <3>2
  <2>5. UNCHANGED <<linkGen, active, reader, device, initiates>>
    BY Zenon DEF Builds, session
  <2>6. Types'
    BY Zenon, <1>0, <1>2, <1>s, <2>2, <2>4, <2>5 DEF Types, SidesStay
  <2>7. Holders'
    <3>1. \A q \in Peers : q = f => Holder(q)'
      BY Zenon, <2>4 DEF Holder
    <3>2. ASSUME NEW q \in Peers, q # f, built'[q].state = "open" PROVE Holder(q)'
      <4>1. Holder(q)
        BY Zenon, <2>2, <3>2 DEF RecInv, Holders
      <4> QED
        BY Zenon, <1>0, <2>4, <2>5, <4>1 DEF Holder
    <3> QED
      BY <2>2, <3>1, <3>2 DEF RecInv, Holders
  <2>8. Starters'
    BY <1>0, <1>2, <2>2, <2>4, <2>5 DEF Starters, StarterAt, Claimed
  <2>9. ReadersInv'
    BY Zenon, <1>0, <2>5 DEF RecInv, ReadersInv, ReaderAt
  <2>10. NoOrphanPeer'
    BY Zenon, <1>2, <2>5 DEF NoOrphanPeer
  <2>11. Granted'
    <3>1. built[f].worker = "none"
      BY Zenon, <2>2 DEF RecInv, Holders
    <3>2. ASSUME NEW q \in Peers, Resets(q) PROVE Resets(q)'
      BY Zenon, <1>0, <2>2, <2>4, <2>5, <3>1, <3>2 DEF Resets, Claimed
    <3> QED
      BY Zenon, <1>2, <2>5, <3>2 DEF RecInv, Granted
  <2> QED
    BY Zenon, <2>6, <2>7, <2>8, <2>9, <2>10, <2>11 DEF RecInv
<1> QED
  BY Zenon, <1>1, <1>2 DEF Builds

LEMMA InstallsKeep ==
  ASSUME RecInv, NEW t \in StartThreads, Installs(t)
  PROVE  RecInv'
<1>t. /\ Types /\ built \in [Peers -> PeerRecords] /\ start \in [StartThreads -> StartRecords]
      /\ reader \in [Generations -> ReaderRecords] /\ active \in Optional /\ linkGen \in Generations
      /\ NoPeer \notin Peers
  BY Zenon, RecoveryAssumption DEF RecInv, Types, Peers
<1> DEFINE p == start[t].peer
<1>0. /\ start[t].pc = "built" /\ p \in Peers /\ built[p].state # "none" /\ built[p].gen = start[t].gen
      /\ built[p].worker = "none" /\ claim = t /\ initiates
  BY Zenon DEF RecInv, Installs, Starters, StarterAt, Claimed
<1>s. SidesStay /\ UNCHANGED <<reader, device, initiates>>
  BY Zenon, <1>t, SidesUnmoved DEF Installs
<1>u. \A u \in StartThreads : u # t => start[u].pc \notin Claimed
  BY Zenon, <1>0 DEF RecInv, Starters, StarterAt
<1>r. \A g \in Generations : reader[g].pc \notin {"install", "replace"}
  BY Zenon, <1>0 DEF RecInv, ReadersInv, ReaderAt
<1>1. CASE linkGen = start[t].gen /\ active = NoPeer
  <2>1. /\ active' = p /\ start' = [start EXCEPT ![t].pc = "installed"] /\ linkGen' = linkGen
        /\ built' = built /\ claim' = claim
    BY Zenon, <1>1 DEF Installs
  <2>2. /\ start' \in [StartThreads -> StartRecords] /\ start'[t].pc = "installed" /\ start'[t].peer = p
        /\ \A u \in StartThreads : u # t => start'[u] = start[u]
    BY ZenonT(40), <1>t, <2>1 DEF StartRecords
  <2> HIDE DEF p
  <2>3. Types'
    BY Zenon, <1>t, <1>0, <1>s, <2>1, <2>2 DEF Types, SidesStay, Optional
  <2>4. Holders'
    <3>1. ASSUME NEW q \in Peers, Holder(q) PROVE Holder(q)'
      <4>1. CASE q = p
        BY Zenon, <2>1, <4>1 DEF Holder
      <4>2. CASE q # p
        <5>1. start'[t].peer = start[t].peer
          BY Zenon, <2>2 DEF p
        <5> QED
          BY Zenon, <1>1, <1>t, <1>s, <1>u, <2>1, <2>2, <3>1, <4>2, <5>1 DEF Holder, p
      <4> QED
        BY Zenon, <4>1, <4>2
    <3> QED
      BY Zenon, <2>1, <3>1 DEF RecInv, Holders
  <2>5. Starters'
    BY Zenon, <1>0, <1>s, <1>u, <2>1, <2>2 DEF Starters, StarterAt, Claimed
  <2>6. ReadersInv'
    BY Zenon, <1>r, <1>s, <2>1 DEF RecInv, ReadersInv, ReaderAt
  <2>7. NoOrphanPeer'
    BY Zenon, <1>0, <1>1, <2>1, <2>2 DEF NoOrphanPeer, p
  <2>8. Granted'
    <3>1. \A q \in Peers : Resets(q) => Resets(q)'
      BY Zenon, <1>0, <1>s, <2>1, <2>2 DEF Resets
    <3> QED
      BY Zenon, <1>0, <1>s, <2>1, <3>1 DEF RecInv, Granted
  <2> QED
    BY Zenon, <2>3, <2>4, <2>5, <2>6, <2>7, <2>8 DEF RecInv
<1>2. CASE ~(linkGen = start[t].gen /\ active = NoPeer)
  <2>1. /\ built' = [built EXCEPT ![p].state = "closed"] /\ claim' = Free /\ Finish(t)
        /\ linkGen' = linkGen /\ active' = active
    BY Zenon, <1>2 DEF Installs, EndStart, session
  <2>2. /\ start' \in [StartThreads -> StartRecords] /\ start'[t].pc \in {"none", "sleep"}
        /\ \A u \in StartThreads : u # t => start'[u] = start[u]
    <3> DEFINE r == IF start[t].tries > 0
                    THEN [pc |-> "sleep", gen |-> start[t].gen, tries |-> start[t].tries - 1, peer |-> NoPeer]
                    ELSE NotStarted
    <3>1. start[t] \in StartRecords /\ start' = [start EXCEPT ![t] = r]
      BY Zenon, <1>t, <2>1 DEF Finish
    <3>2. r \in StartRecords /\ r.pc \in {"sleep", "none"}
      BY <3>1, RecoveryAssumption DEF StartRecords, NotStarted
    <3> HIDE DEF r
    <3> QED
      BY Zenon, <1>t, <3>1, <3>2
  <2> HIDE DEF p
  <2>3. /\ built' \in [Peers -> PeerRecords] /\ built'[p].state = "closed"
        /\ \A q \in Peers : built'[q].gen = built[q].gen /\ built'[q].worker = built[q].worker
        /\ \A q \in Peers : q # p => built'[q].state = built[q].state
    BY Zenon, <1>t, <1>0, <2>1 DEF PeerRecords
  <2>4. Types'
    BY Zenon, <1>t, <1>s, <2>1, <2>2, <2>3 DEF Types, SidesStay
  <2>5. Holders'
    <3>1. ASSUME NEW q \in Peers, q # p, Holder(q) PROVE Holder(q)'
      BY Zenon, <1>s, <2>1, <2>2, <3>1 DEF Holder, p
    <3> QED
      BY Zenon, <2>3, <3>1 DEF RecInv, Holders
  <2>6. Starters'
    BY Zenon, <1>u, <2>2 DEF Starters, StarterAt, Claimed
  <2>7. ReadersInv'
    BY Zenon, <1>r, <1>s DEF ReadersInv, ReaderAt
  <2>8. NoOrphanPeer'
    <3>1. active # NoPeer => active \in Peers /\ active # p
      <4>1. active = p => FALSE
        BY Zenon, <1>0, <1>t, <1>u, <1>r DEF RecInv, NoOrphanPeer, Claimed
      <4> QED
        BY Zenon, <1>t, <4>1 DEF Optional
    <3> QED
      BY <1>0, <1>s, <2>1, <2>2, <2>3, <3>1 DEF RecInv, NoOrphanPeer
  <2>9. Granted'
    <3>1. \A q \in Peers : Resets(q) => Resets(q)'
      BY Zenon, <1>0, <1>s, <2>2, <2>3 DEF Resets
    <3> QED
      BY Zenon, <1>t, <1>s, <2>1, <2>3, <3>1 DEF RecInv, Granted, Optional
  <2> QED
    BY Zenon, <2>4, <2>5, <2>6, <2>7, <2>8, <2>9 DEF RecInv
<1> QED
  BY Zenon, <1>1, <1>2

LEMMA ServesKeep ==
  ASSUME RecInv, NEW t \in StartThreads, Serves(t)
  PROVE  RecInv'
<1>t. /\ Types /\ built \in [Peers -> PeerRecords] /\ start \in [StartThreads -> StartRecords]
      /\ reader \in [Generations -> ReaderRecords] /\ active \in Optional /\ linkGen \in Generations
      /\ NoPeer \notin Peers
  BY Zenon, RecoveryAssumption DEF RecInv, Types, Peers
<1> DEFINE p == start[t].peer
<1>0. start[t].pc = "installed" /\ p \in Peers /\ built[p].state # "none" /\ claim = t /\ initiates
  BY Zenon DEF RecInv, Serves, Starters, StarterAt, Claimed
<1>s. SidesStay /\ UNCHANGED <<linkGen, active, reader, device, initiates, claim>>
  BY Zenon, <1>t, SidesUnmoved DEF Serves, session
<1>u. \A u \in StartThreads : u # t => start[u].pc \notin Claimed
  BY Zenon, <1>0 DEF RecInv, Starters, StarterAt
<1>r. \A g \in Generations : reader[g].pc \notin {"install", "replace"}
  BY Zenon, <1>0 DEF RecInv, ReadersInv, ReaderAt
<1>1. built' = [built EXCEPT ![p].worker = "run"] /\ start' = [start EXCEPT ![t].pc = "offer"]
  BY Zenon DEF Serves
<1>2. /\ start' \in [StartThreads -> StartRecords] /\ start'[t].pc = "offer"
      /\ \A u \in StartThreads : u # t => start'[u] = start[u]
  BY Zenon, <1>t, <1>1 DEF StartRecords
<1>p. \A q : start[t].peer = q => q = p
  BY Zenon
<1> HIDE DEF p
<1>3. /\ built' \in [Peers -> PeerRecords] /\ built'[p].worker = "run"
      /\ \A q \in Peers : built'[q].state = built[q].state /\ built'[q].gen = built[q].gen
      /\ \A q \in Peers : q # p => built'[q].worker = built[q].worker
  BY Zenon, <1>t, <1>0, <1>1 DEF PeerRecords
<1>4. Types'
  BY Zenon, <1>t, <1>s, <1>2, <1>3 DEF Types, SidesStay
<1>5. Holders'
  <2>1. ASSUME NEW q \in Peers, Holder(q) PROVE Holder(q)'
    BY Zenon, <1>0, <1>s, <1>2, <2>1 DEF Holder
  <2> QED
    BY Zenon, <1>0, <1>3, <2>1 DEF RecInv, Holders
<1>6. Starters'
  BY Zenon, <1>0, <1>s, <1>u, <1>2 DEF Starters, StarterAt, Claimed
<1>7. ReadersInv'
  BY Zenon, <1>r, <1>s DEF ReadersInv, ReaderAt
<1>8. NoOrphanPeer'
  <2>1. CASE active = p
    BY Zenon, <1>s, <1>0, <1>3, <2>1 DEF RecInv, NoOrphanPeer
  <2>2. CASE active # p
    BY ZenonT(40), <1>t, <1>s, <1>2, <1>3, <1>p, <2>2 DEF RecInv, NoOrphanPeer, Optional
  <2> QED
    BY Zenon, <2>1, <2>2
<1>9. Granted'
  <2>1. \E q \in Peers : Resets(q)'
    BY Zenon, <1>0, <1>3 DEF Resets
  <2>2. active # NoPeer /\ built'[active].worker = "reset" => built[active].worker = "reset"
    BY Zenon, <1>t, <1>3 DEF Optional
  <2> QED
    BY Zenon, <1>0, <1>s, <2>1, <2>2 DEF RecInv, Granted
<1> QED
  BY Zenon, <1>4, <1>5, <1>6, <1>7, <1>8, <1>9 DEF RecInv

LEMMA UsesKeep ==
  ASSUME RecInv, NEW p \in Peers, Uses(p)
  PROVE  RecInv'
<1>t. /\ Types /\ built \in [Peers -> PeerRecords] /\ start \in [StartThreads -> StartRecords]
      /\ reader \in [Generations -> ReaderRecords] /\ active \in Optional /\ linkGen \in Generations
      /\ NoPeer \notin Peers
  BY Zenon, RecoveryAssumption DEF RecInv, Types, Peers
<1>1. /\ active = p /\ built[p].worker = "run"
      /\ UNCHANGED <<linkGen, active, built, start, claim, reader, network, sign, initiates>>
  BY Zenon DEF Uses, Runs, Ours, session, threads
<1>2. Resets(p)'
  BY Zenon, <1>1 DEF Resets
<1>3. Granted'
  BY Zenon, <1>1, <1>2 DEF Granted
<1>4. Types' /\ Holders' /\ Starters' /\ ReadersInv' /\ NoOrphanPeer'
  BY <1>1 DEF RecInv, Types, Holders, Holder, Starters, StarterAt, ReadersInv, ReaderAt, NoOrphanPeer
<1> QED
  BY Zenon, <1>3, <1>4 DEF RecInv

\* A worker that ends, rebuilds or gives the device's state back.
LEMMA WorkersKeep ==
  ASSUME RecInv, NEW p \in Peers, Notices(p) \/ Breaks(p) \/ Rebuilds(p) \/ GuardChecks(p) \/ GuardResets(p)
  PROVE  RecInv'
<1>t. /\ Types /\ built \in [Peers -> PeerRecords] /\ start \in [StartThreads -> StartRecords]
      /\ reader \in [Generations -> ReaderRecords] /\ active \in Optional /\ linkGen \in Generations
      /\ NoPeer \notin Peers
  BY Zenon, RecoveryAssumption DEF RecInv, Types, Peers
<1>s. SidesStay
  BY Zenon, <1>t, SidesUnmoved DEF Notices, Breaks, Rebuilds, GuardChecks, GuardResets, threads
<1>q. Notices(p) \/ Breaks(p) \/ GuardChecks(p) \/ GuardResets(p) => StartsQuietly
  BY Zenon, Unmoved DEF RecInv, Notices, Breaks, GuardChecks, GuardResets, threads
<1>a. active = p => built[p].worker # "rebuild"
  BY <1>t DEF RecInv, NoOrphanPeer, Starters, StarterAt, ReadersInv, ReaderAt
<1>1. CASE Notices(p) \/ Breaks(p)
  <2>1. /\ built[p].worker = "run" /\ built' = [built EXCEPT ![p].worker = "ended"]
        /\ UNCHANGED <<linkGen, active, reader, device>>
    BY Zenon, <1>1 DEF Notices, Breaks, Runs, WorkerAt, session, threads
  <2> QED
    BY Zenon, <1>1, <1>s, <1>q, <2>1, WorkerMoves
<1>2. CASE GuardChecks(p)
  <2> DEFINE w == IF built[p].gen = linkGen /\ active \notin {NoPeer, p} THEN "done" ELSE "guard"
  <2>1. /\ built[p].worker = "ended" /\ built' = [built EXCEPT ![p].worker = w]
        /\ UNCHANGED <<linkGen, active, reader, device>>
    BY Zenon, <1>2 DEF GuardChecks, WorkerAt, session, threads
  <2>2. w \in {"done", "guard"} /\ (w = "done" => active # NoPeer /\ active # p)
    BY Zenon
  <2> HIDE DEF w
  <2> QED
    BY Zenon, <1>2, <1>s, <1>q, <2>1, <2>2, WorkerMoves
<1>3. CASE GuardResets(p)
  <2>1. /\ built[p].worker = "guard" /\ built' = [built EXCEPT ![p].worker = "reset"] /\ device' = NoPeer
        /\ UNCHANGED <<linkGen, active, reader>>
    BY Zenon, <1>3 DEF GuardResets, WorkerAt, session, threads
  <2> QED
    BY Zenon, <1>3, <1>s, <1>q, <2>1, WorkerMoves
<1>4. CASE Rebuilds(p)
  <2>1. /\ built[p].worker = "rebuild" /\ built' = [built EXCEPT ![p].worker = "ended"] /\ Climb(built[p].gen)
        /\ UNCHANGED <<linkGen, active, reader, device, claim>>
    BY Zenon, <1>4 DEF Rebuilds, WorkerAt
  <2>2. StartsQuietly
    <3>1. built[p].gen \in 0 .. MaxGenerations /\ 0 \in 0 .. Retries
      BY <1>t, RecoveryAssumption DEF PeerRecords
    <3> QED
      BY Zenon, <2>1, <3>1, SpawnQuiet, Unmoved DEF RecInv, Climb
  <2> QED
    BY Zenon, <1>a, <1>s, <2>1, <2>2, WorkerMoves
<1> QED
  BY Zenon, <1>1, <1>2, <1>3, <1>4

\* The installed peer ends: a terminal state, the phone's Close, its guard, a
\* change of the network, a new link.
LEMMA DropsKeep ==
  ASSUME RecInv, NEW p \in Peers, Dies(p) \/ PhoneCloses(p) \/ GuardClears(p)
  PROVE  RecInv'
<1>t. /\ Types /\ built \in [Peers -> PeerRecords] /\ start \in [StartThreads -> StartRecords]
      /\ reader \in [Generations -> ReaderRecords] /\ active \in Optional /\ linkGen \in Generations
      /\ NoPeer \notin Peers
  BY Zenon, RecoveryAssumption DEF RecInv, Types, Peers
<1>s. SidesStay /\ StartsQuietly /\ UNCHANGED <<linkGen, reader, device>>
  BY Zenon, <1>t, SidesUnmoved, Unmoved DEF RecInv, Dies, PhoneCloses, GuardClears, session, threads
<1>1. ASSUME NEW w \in {"rebuild", "run", "done"}, Shut(p, w), active = p, active' = NoPeer,
             built[p].worker \in {"run", "reset"}, built[p].worker = "run" => w # "done"
      PROVE  RecInv'
  <2>1. built' = [built EXCEPT ![p].state = "closed", ![p].worker = w]
    BY Zenon, <1>1 DEF Shut
  <2>2. /\ built' \in [Peers -> PeerRecords] /\ built'[p].state = "closed" /\ built'[p].gen = built[p].gen
        /\ built'[p].worker = w /\ \A q \in Peers : q # p => built'[q] = built[q]
    BY ZenonT(40), <1>t, <2>1 DEF PeerRecords
  <2> QED
    BY Zenon, <1>t, <1>s, <1>1, <2>2, PeerDropped
<1>2. CASE Dies(p) \/ PhoneCloses(p)
  <2>1. active = p /\ built[p].worker = "run" /\ active' = NoPeer /\ (Shut(p, "rebuild") \/ Shut(p, "run"))
    BY Zenon, <1>2 DEF Dies, PhoneCloses, Runs, Ours, Cleared
  <2> QED
    BY Zenon, <1>1, <2>1
<1>3. CASE GuardClears(p) /\ Ours(p)
  <2>1. active = p /\ built[p].worker = "reset" /\ active' = NoPeer /\ Shut(p, "done")
    BY Zenon, <1>3 DEF GuardClears, Ours, Cleared
  <2> QED
    BY Zenon, <1>1, <2>1
<1>4. CASE GuardClears(p) /\ ~Ours(p)
  <2>1. /\ active # p /\ built[p].worker = "reset" /\ built' = [built EXCEPT ![p].worker = "done"]
        /\ active' = active
    BY Zenon, <1>t, <1>4 DEF GuardClears, Ours, WorkerAt, session, RecInv, NoOrphanPeer
  <2> QED
    BY Zenon, <1>s, <2>1, WorkerMoves
<1> QED
  BY Zenon, <1>2, <1>3, <1>4

\* What PeerClosed does to the peers.
LEMMA ClosedPeer ==
  ASSUME built \in [Peers -> PeerRecords], NEW o \in Optional, built' = PeerClosed(o)
  PROVE  /\ built' \in [Peers -> PeerRecords]
         /\ \A q \in Peers : /\ built'[q].gen = built[q].gen /\ built'[q].worker = built[q].worker
                             /\ q # o => built'[q] = built[q]
         /\ o \in Peers => built'[o].state = "closed"
<1>1. CASE o = NoPeer
  BY Zenon, <1>1, RecoveryAssumption DEF PeerClosed, Peers
<1>2. CASE o # NoPeer
  <2>1. o \in Peers /\ built' = [built EXCEPT ![o].state = "closed"]
    BY Zenon, <1>2 DEF PeerClosed, Optional
  <2> QED
    BY <2>1 DEF PeerRecords
<1> QED
  BY Zenon, <1>1, <1>2

LEMMA TakenKeep ==
  ASSUME RecInv, NetworkClears \/ LinkReplaced
  PROVE  RecInv'
<1>t. /\ Types /\ built \in [Peers -> PeerRecords] /\ start \in [StartThreads -> StartRecords]
      /\ reader \in [Generations -> ReaderRecords] /\ active \in Optional /\ linkGen \in Generations
      /\ NoPeer \notin Peers
  BY Zenon, RecoveryAssumption DEF RecInv, Types, Peers
<1>1. /\ built' = PeerClosed(active) /\ active' = NoPeer /\ UNCHANGED <<reader, device, initiates, claim, sign>>
  BY Zenon DEF NetworkClears, LinkReplaced, Cleared
<1>2. /\ built' \in [Peers -> PeerRecords]
      /\ \A q \in Peers : /\ built'[q].gen = built[q].gen /\ built'[q].worker = built[q].worker
                          /\ q # active => built'[q] = built[q]
      /\ active \in Peers => built'[active].state = "closed"
  BY Zenon, <1>t, <1>1, ClosedPeer
<1>3. StartsQuietly /\ SidesStay /\ linkGen' \in Generations
  <2>1. CASE NetworkClears
    <3>1. network' = [pc |-> "rebuild", gen |-> linkGen] /\ UNCHANGED <<start, linkGen>>
      BY Zenon, <2>1 DEF NetworkClears
    <3>2. SidesStay
      BY <1>t, <1>1, <3>1, RecoveryAssumption DEF SidesStay, Types, Generations
    <3> QED
      BY Zenon, <1>t, <1>1, <3>1, <3>2, Unmoved DEF RecInv
  <2>2. CASE LinkReplaced
    <3> DEFINE n == IF initiates THEN Retries ELSE 0
    <3>1. linkGen < MaxGenerations /\ linkGen' = linkGen + 1 /\ Spawn(linkGen + 1, "sleep", n) /\ network' = network
      BY Zenon, <2>2 DEF LinkReplaced, Schedule
    <3>2. linkGen + 1 \in Generations /\ linkGen + 1 \in 0 .. MaxGenerations /\ n \in 0 .. Retries
      BY <1>t, <3>1, RecoveryAssumption DEF Generations
    <3> HIDE DEF n
    <3> QED
      BY Zenon, <1>t, <1>1, <3>1, <3>2, SpawnQuiet, SidesUnmoved DEF RecInv
  <2> QED
    BY Zenon, <2>1, <2>2
<1>4. CASE active \in Peers
  BY Zenon, <1>1, <1>2, <1>3, <1>4, PeerDropped
<1>5. CASE active \notin Peers
  <2>1. built' = built /\ active = NoPeer
    BY Zenon, <1>t, <1>1, <1>5 DEF PeerClosed, Optional
  <2>2. Types'
    BY Zenon, <1>t, <1>1, <1>3, <2>1 DEF Types, StartsQuietly, SidesStay
  <2>3. Holders'
    BY <1>1, <1>3, <2>1 DEF RecInv, Holders, Holder, StartsQuietly
  <2>4. Starters'
    BY Zenon, <1>1, <1>3, <2>1 DEF RecInv, Starters, StarterAt, StartsQuietly
  <2>5. ReadersInv'
    BY Zenon, <1>1, <2>1 DEF RecInv, ReadersInv, ReaderAt
  <2>6. NoOrphanPeer'
    BY Zenon, <1>1 DEF NoOrphanPeer
  <2>7. Granted'
    BY Zenon, <1>1, <1>3, <2>1 DEF RecInv, Granted, Resets, StartsQuietly
  <2> QED
    BY Zenon, <2>2, <2>3, <2>4, <2>5, <2>6, <2>7 DEF RecInv
<1> QED
  BY Zenon, <1>4, <1>5

\* Signs, rungs and flags: no peer changes hands.
LEMMA SignsKeep ==
  ASSUME RecInv,
         \/ SignSeen \/ SignLooks \/ NetworkClimbs \/ NetworkSigns
         \/ \E p \in Peers : GetsReady(p) \/ Healthy(p)
         \/ UNCHANGED recoveryVars
  PROVE  RecInv'
<1>t. /\ Types /\ built \in [Peers -> PeerRecords] /\ start \in [StartThreads -> StartRecords]
      /\ reader \in [Generations -> ReaderRecords] /\ active \in Optional /\ linkGen \in Generations
      /\ NoPeer \notin Peers
  BY Zenon, RecoveryAssumption DEF RecInv, Types, Peers
<1>1. UNCHANGED <<linkGen, active, built, reader, device, initiates, claim>>
  BY Zenon DEF SignSeen, SignLooks, NetworkClimbs, NetworkSigns, Signed, GetsReady, Healthy, recoveryVars,
         session, threads
<1>2. SidesStay
  <2>1. network' \in {network, [pc |-> "sign", gen |-> 0], [pc |-> "none", gen |-> 0]}
    BY Zenon DEF SignSeen, SignLooks, NetworkClimbs, NetworkSigns, Signed, GetsReady, Healthy, recoveryVars, threads
  <2>2. sign' \in {sign, [pc |-> "look", gen |-> linkGen], [pc |-> "none", gen |-> 0]}
    BY Zenon DEF SignSeen, SignLooks, NetworkClimbs, NetworkSigns, Signed, GetsReady, Healthy, recoveryVars, threads
  <2> QED
    BY <1>t, <1>1, <2>1, <2>2, RecoveryAssumption DEF SidesStay, Types, Generations
<1>3. StartsQuietly
  <2>0. network.gen \in 0 .. MaxGenerations /\ sign.gen \in 0 .. MaxGenerations /\ 0 \in 0 .. Retries
    BY <1>t, RecoveryAssumption DEF Types
  <2>1. CASE start' = start
    BY Zenon, <1>1, <2>1, Unmoved DEF RecInv
  <2>2. CASE Spawn(network.gen, "sleep", 0) \/ Spawn(sign.gen, "begin", 0)
    BY Zenon, <1>1, <2>0, <2>2, SpawnQuiet DEF RecInv
  <2>3. start' = start \/ Spawn(network.gen, "sleep", 0) \/ Spawn(sign.gen, "begin", 0)
    BY Zenon DEF SignSeen, SignLooks, NetworkClimbs, NetworkSigns, Signed, Climb, GetsReady, Healthy, recoveryVars, threads
  <2> QED
    BY Zenon, <2>1, <2>2, <2>3
<1> QED
  BY Zenon, <1>1, <1>2, <1>3, QuietStarts

-----------------------------------------------------------------------------
(* The reader of the phone's offers and restart requests.                  *)

LEMMA ReadingTypes ==
  ASSUME reader \in [Generations -> ReaderRecords], NEW g \in Generations,
         NEW at \in {"none", "restart", "install", "replace"}, NEW p \in Optional, NEW o \in Optional,
         Reading(g, at, p, o)
  PROVE  /\ reader' \in [Generations -> ReaderRecords]
         /\ reader'[g].pc = at /\ reader'[g].peer = p /\ reader'[g].old = o
         /\ \A h \in Generations : h # g => reader'[h] = reader[h]
<1>1. [pc |-> at, peer |-> p, old |-> o] \in ReaderRecords
  BY Zenon DEF ReaderRecords, Optional
<1> QED
  BY Zenon, <1>1 DEF Reading

LEMMA RestartAskedKeeps ==
  ASSUME RecInv, NEW g \in Generations, RestartAsked(g)
  PROVE  RecInv'
<1>t. /\ Types /\ built \in [Peers -> PeerRecords] /\ start \in [StartThreads -> StartRecords]
      /\ reader \in [Generations -> ReaderRecords] /\ active \in Optional /\ linkGen \in Generations
      /\ NoPeer \notin Peers
  BY Zenon, RecoveryAssumption DEF RecInv, Types, Peers
<1>1. /\ reader[g].pc = "none" /\ Reading(g, "restart", NoPeer, active) /\ active' = NoPeer
      /\ UNCHANGED <<linkGen, built, start, claim, network, sign, device, initiates>>
  BY Zenon DEF RestartAsked, Cleared
<1>2. /\ reader' \in [Generations -> ReaderRecords] /\ reader'[g].pc = "restart" /\ reader'[g].old = active
      /\ \A h \in Generations : h # g => reader'[h] = reader[h]
  BY Zenon, <1>t, <1>1, ReadingTypes DEF Optional
<1>3. Types'
  BY Zenon, <1>t, <1>1, <1>2 DEF Types, Optional
<1>4. Holders'
  <2>1. ASSUME NEW q \in Peers, Holder(q) PROVE Holder(q)'
    BY Zenon, <1>1, <1>2, <2>1 DEF Holder
  <2> QED
    BY Zenon, <1>1, <2>1 DEF RecInv, Holders
<1>5. Starters'
  BY Zenon, <1>1 DEF RecInv, Starters, StarterAt
<1>6. ReadersInv'
  BY ZenonT(40), <1>1, <1>2 DEF RecInv, ReadersInv, ReaderAt
<1>7. NoOrphanPeer'
  BY Zenon, <1>1 DEF NoOrphanPeer
<1>8. Granted'
  <2>1. \A q \in Peers : Resets(q) => Resets(q)'
    BY Zenon, <1>1, <1>2 DEF Resets
  <2> QED
    BY Zenon, <1>1, <2>1 DEF RecInv, Granted
<1> QED
  BY Zenon, <1>3, <1>4, <1>5, <1>6, <1>7, <1>8 DEF RecInv

LEMMA RestartsKeeps ==
  ASSUME RecInv, NEW g \in Generations, Restarts(g)
  PROVE  RecInv'
<1>t. /\ Types /\ built \in [Peers -> PeerRecords] /\ start \in [StartThreads -> StartRecords]
      /\ reader \in [Generations -> ReaderRecords] /\ active \in Optional /\ linkGen \in Generations
      /\ NoPeer \notin Peers
  BY Zenon, RecoveryAssumption DEF RecInv, Types, Peers
<1> DEFINE o == reader[g].old
<1>1. /\ reader[g].pc = "restart" /\ Reading(g, "none", NoPeer, NoPeer) /\ built' = PeerClosed(o)
      /\ Spawn(g, "begin", 0) /\ device' = (IF o = NoPeer THEN device ELSE NoPeer)
      /\ UNCHANGED <<linkGen, active, claim, network, sign, initiates>>
  BY Zenon DEF Restarts, session
<1>2. /\ reader' \in [Generations -> ReaderRecords] /\ reader'[g].pc = "none"
      /\ \A h \in Generations : h # g => reader'[h] = reader[h]
  BY Zenon, <1>t, <1>1, ReadingTypes DEF Optional
<1>o. o \in Optional
  BY Zenon, <1>t DEF ReaderRecords, Optional
<1>3. /\ built' \in [Peers -> PeerRecords]
      /\ \A q \in Peers : /\ built'[q].gen = built[q].gen /\ built'[q].worker = built[q].worker
                          /\ q # o => built'[q] = built[q]
      /\ o \in Peers => built'[o].state = "closed"
  BY Zenon, <1>t, <1>1, <1>o, ClosedPeer
<1>4. StartsQuietly
  <2>1. g \in 0 .. MaxGenerations /\ 0 \in 0 .. Retries
    BY RecoveryAssumption DEF Generations
  <2> QED
    BY Zenon, <1>1, <2>1, SpawnQuiet DEF RecInv
<1>p. \A q : reader[g].old = q => q = o
  BY Zenon
<1> HIDE DEF o
<1>5. Types'
  BY Zenon, <1>t, <1>1, <1>2, <1>3, <1>4 DEF Types, StartsQuietly
<1>6. Holders'
  <2>1. ASSUME NEW q \in Peers, q # o, Holder(q) PROVE Holder(q)'
    BY ZenonT(40), <1>1, <1>2, <1>4, <1>p, <2>1 DEF Holder, StartsQuietly
  <2> QED
    BY Zenon, <1>3, <2>1 DEF RecInv, Holders
<1>n. \A q \in Peers : built[q].state # "none" => built'[q].state # "none"
  BY Zenon, <1>3
<1>7. Starters'
  BY <1>1, <1>3, <1>4, <1>n DEF RecInv, Starters, StarterAt, StartsQuietly
<1>8. ReadersInv'
  BY <1>1, <1>2, <1>3, <1>n DEF RecInv, ReadersInv, ReaderAt
<1>9. NoOrphanPeer'
  BY ZenonT(40), <1>t, <1>1, <1>2, <1>3, <1>4, <1>n DEF RecInv, NoOrphanPeer, Optional, StartsQuietly
<1>10. Granted'
  <2>1. \A q \in Peers : Resets(q) => Resets(q)'
    BY <1>1, <1>2, <1>3, <1>4 DEF Resets, StartsQuietly
  <2> QED
    BY Zenon, <1>t, <1>1, <1>3, <2>1 DEF RecInv, Granted, Optional
<1> QED
  BY Zenon, <1>5, <1>6, <1>7, <1>8, <1>9, <1>10 DEF RecInv

LEMMA OfferArrivesKeeps ==
  ASSUME RecInv, NEW g \in Generations, OfferArrives(g)
  PROVE  RecInv'
<1>t. /\ Types /\ built \in [Peers -> PeerRecords] /\ start \in [StartThreads -> StartRecords]
      /\ reader \in [Generations -> ReaderRecords] /\ active \in Optional /\ linkGen \in Generations
      /\ NoPeer \notin Peers
  BY Zenon, RecoveryAssumption DEF RecInv, Types, Peers
<1> DEFINE f == Unused
<1>1. /\ ~initiates /\ reader[g].pc = "none" /\ Room /\ Opened(g) /\ Reading(g, "install", f, NoPeer)
      /\ UNCHANGED <<linkGen, active, start, claim, network, sign, device, initiates>>
  BY Zenon DEF OfferArrives
<1>2. /\ built' \in [Peers -> PeerRecords] /\ f \in Peers /\ built[f].state = "none" /\ f # active
      /\ built'[f] = [state |-> "open", gen |-> g, worker |-> "none"]
      /\ \A q \in Peers : q # f => built'[q] = built[q]
  BY Zenon, <1>1, OpenedPeer
<1> HIDE DEF f
<1>3. /\ reader' \in [Generations -> ReaderRecords] /\ reader'[g].pc = "install" /\ reader'[g].peer = f
      /\ \A h \in Generations : h # g => reader'[h] = reader[h]
  BY Zenon, <1>t, <1>1, <1>2, ReadingTypes DEF Optional
<1>4. Types'
  BY Zenon, <1>t, <1>1, <1>2, <1>3 DEF Types
<1>5. Holders'
  <2>1. \A q \in Peers : q = f => Holder(q)'
    BY Zenon, <1>3 DEF Holder
  <2>2. ASSUME NEW q \in Peers, Holder(q) PROVE Holder(q)'
    BY Zenon, <1>1, <1>3, <2>2 DEF Holder
  <2> QED
    BY <1>2, <2>1, <2>2 DEF RecInv, Holders
<1>6. Starters'
  BY Zenon, <1>1, <1>2 DEF RecInv, Starters, StarterAt, Claimed
<1>7. ReadersInv'
  <2>1. ReaderAt(g)'
    BY <1>1, <1>2, <1>3 DEF ReaderAt
  <2>2. ASSUME NEW h \in Generations, h # g PROVE ReaderAt(h)'
    <3>1. reader'[h] = reader[h] /\ ReaderAt(h)
      BY Zenon, <1>3, <2>2 DEF RecInv, ReadersInv
    <3>2. reader[h].pc \in {"install", "replace"} => reader[h].peer \in Peers /\ reader[h].peer # f
      BY Zenon, <1>2, <3>1 DEF ReaderAt
    <3> QED
      BY Zenon, <1>1, <1>2, <3>1, <3>2 DEF ReaderAt
  <2> QED
    BY Zenon, <2>1, <2>2 DEF ReadersInv
<1>8. NoOrphanPeer'
  BY Zenon, <1>t, <1>1, <1>2, <1>3 DEF RecInv, NoOrphanPeer, Optional
<1>9. Granted'
  <2>1. built[f].worker = "none"
    BY Zenon, <1>2 DEF RecInv, Holders
  <2>2. \A q \in Peers : Resets(q) => Resets(q)'
    BY Zenon, <1>1, <1>2, <1>3, <2>1 DEF Resets
  <2>3. active # NoPeer => built'[active] = built[active]
    BY Zenon, <1>t, <1>2 DEF Optional
  <2> QED
    BY Zenon, <1>1, <2>2, <2>3 DEF RecInv, Granted
<1> QED
  BY Zenon, <1>4, <1>5, <1>6, <1>7, <1>8, <1>9 DEF RecInv

LEMMA InstallsOfferKeeps ==
  ASSUME RecInv, NEW g \in Generations, InstallsOffer(g)
  PROVE  RecInv'
<1>t. /\ Types /\ built \in [Peers -> PeerRecords] /\ start \in [StartThreads -> StartRecords]
      /\ reader \in [Generations -> ReaderRecords] /\ active \in Optional /\ linkGen \in Generations
      /\ NoPeer \notin Peers
  BY Zenon, RecoveryAssumption DEF RecInv, Types, Peers
<1> DEFINE p == reader[g].peer
<1>0. /\ reader[g].pc = "install" /\ p \in Peers /\ ~initiates /\ built[p].gen = g
      /\ built[p].state # "none" /\ built[p].worker = "none"
  BY Zenon DEF InstallsOffer, RecInv, ReadersInv, ReaderAt
<1>u. UNCHANGED <<start, claim, network, sign, device, initiates>>
  BY Zenon DEF InstallsOffer
<1>1. CASE linkGen = g
  <2>1. active' = p /\ Reading(g, "replace", p, active) /\ UNCHANGED <<linkGen, built>>
    BY Zenon, <1>1 DEF InstallsOffer
  <2>p. \A q : reader[g].peer = q => q = p
    BY Zenon
  <2> HIDE DEF p
  <2>2. /\ reader' \in [Generations -> ReaderRecords] /\ reader'[g].pc = "replace" /\ reader'[g].peer = p
        /\ reader'[g].old = active /\ \A h \in Generations : h # g => reader'[h] = reader[h]
    BY <1>t, <1>0, <2>1, ReadingTypes DEF Optional
  <2>3. Types'
    BY Zenon, <1>t, <1>0, <1>u, <2>1, <2>2 DEF Types, Optional
  <2>4. Holders'
    <3>1. \A q \in Peers : q = p => Holder(q)'
      BY Zenon, <2>1 DEF Holder
    <3>2. ASSUME NEW q \in Peers, q # p, Holder(q) PROVE Holder(q)'
      BY Zenon, <1>0, <1>u, <2>2, <2>p, <3>2 DEF Holder
    <3> QED
      BY Zenon, <2>1, <3>1, <3>2 DEF RecInv, Holders
  <2>5. Starters'
    BY Zenon, <1>u, <2>1 DEF RecInv, Starters, StarterAt
  <2>6. ReadersInv'
    <3>1. ReaderAt(g)'
      BY Zenon, <1>0, <1>u, <2>1, <2>2 DEF ReaderAt
    <3>2. ASSUME NEW h \in Generations, h # g PROVE ReaderAt(h)'
      BY Zenon, <1>u, <2>1, <2>2, <3>2 DEF RecInv, ReadersInv, ReaderAt
    <3> QED
      BY Zenon, <3>1, <3>2 DEF ReadersInv
  <2>7. NoOrphanPeer'
    BY Zenon, <1>0, <1>1, <2>1, <2>2 DEF NoOrphanPeer
  <2>8. Granted'
    <3>1. \A q \in Peers : Resets(q) => Resets(q)'
      BY Zenon, <1>0, <1>u, <2>1, <2>2 DEF Resets
    <3> QED
      BY Zenon, <1>0, <1>u, <2>1, <3>1 DEF RecInv, Granted
  <2> QED
    BY Zenon, <2>3, <2>4, <2>5, <2>6, <2>7, <2>8 DEF RecInv
<1>2. CASE linkGen # g
  <2>1. built' = PeerClosed(p) /\ Reading(g, "none", NoPeer, NoPeer) /\ UNCHANGED <<linkGen, active>>
    BY Zenon, <1>2 DEF InstallsOffer, session
  <2>p. \A q : reader[g].peer = q => q = p
    BY Zenon
  <2> HIDE DEF p
  <2>2. /\ reader' \in [Generations -> ReaderRecords] /\ reader'[g].pc = "none"
        /\ \A h \in Generations : h # g => reader'[h] = reader[h]
    BY Zenon, <1>t, <2>1, ReadingTypes DEF Optional
  <2>3. /\ built' \in [Peers -> PeerRecords] /\ built'[p].state = "closed"
        /\ \A q \in Peers : /\ built'[q].gen = built[q].gen /\ built'[q].worker = built[q].worker
                            /\ q # p => built'[q] = built[q]
    BY <1>t, <1>0, <2>1, ClosedPeer DEF Optional
  <2>n. \A q \in Peers : built[q].state # "none" => built'[q].state # "none"
    BY Zenon, <2>3
  <2>4. Types'
    BY Zenon, <1>t, <1>u, <2>1, <2>2, <2>3 DEF Types
  <2>5. Holders'
    <3>1. ASSUME NEW q \in Peers, q # p, Holder(q) PROVE Holder(q)'
      BY Zenon, <1>0, <1>u, <2>1, <2>2, <2>p, <3>1 DEF Holder
    <3> QED
      BY Zenon, <2>3, <3>1 DEF RecInv, Holders
  <2>6. Starters'
    BY <1>u, <2>3, <2>n DEF RecInv, Starters, StarterAt
  <2>7. ReadersInv'
    BY <1>u, <2>2, <2>3, <2>n DEF RecInv, ReadersInv, ReaderAt
  <2>8. NoOrphanPeer'
    BY Zenon, <1>t, <1>u, <1>2, <2>1, <2>2, <2>3, <2>n DEF RecInv, NoOrphanPeer, Optional
  <2>9. Granted'
    <3>1. \A q \in Peers : Resets(q) => Resets(q)'
      BY <1>0, <1>u, <2>2, <2>3 DEF Resets
    <3> QED
      BY Zenon, <1>t, <1>u, <2>1, <2>3, <3>1 DEF RecInv, Granted, Optional
  <2> QED
    BY Zenon, <2>4, <2>5, <2>6, <2>7, <2>8, <2>9 DEF RecInv
<1> QED
  BY Zenon, <1>1, <1>2

LEMMA ReplacesKeeps ==
  ASSUME RecInv, NEW g \in Generations, Replaces(g)
  PROVE  RecInv'
<1>t. /\ Types /\ built \in [Peers -> PeerRecords] /\ start \in [StartThreads -> StartRecords]
      /\ reader \in [Generations -> ReaderRecords] /\ active \in Optional /\ linkGen \in Generations
      /\ NoPeer \notin Peers
  BY Zenon, RecoveryAssumption DEF RecInv, Types, Peers
<1> DEFINE p == reader[g].peer
           o == reader[g].old
<1>0. /\ reader[g].pc = "replace" /\ p \in Peers /\ ~initiates /\ built[p].gen = g /\ built[p].state # "none"
  BY Zenon DEF Replaces, RecInv, ReadersInv, ReaderAt
<1>o. o \in Optional
  BY Zenon, <1>t DEF ReaderRecords, Optional
<1>u. UNCHANGED <<linkGen, active, start, claim, network, sign, initiates>>
  BY Zenon DEF Replaces, session
<1>1. /\ built' = [PeerClosed(o) EXCEPT ![p].worker = "run"] /\ Reading(g, "none", NoPeer, NoPeer)
      /\ device' = (IF o = NoPeer THEN device ELSE NoPeer)
  BY Zenon DEF Replaces
<1>p. (\A q : reader[g].peer = q => q = p) /\ (\A q : reader[g].old = q => q = o)
  BY Zenon
<1> HIDE DEF p, o
<1>2. /\ reader' \in [Generations -> ReaderRecords] /\ reader'[g].pc = "none"
      /\ \A h \in Generations : h # g => reader'[h] = reader[h]
  BY Zenon, <1>t, <1>1, ReadingTypes DEF Optional
<1>3. /\ built' \in [Peers -> PeerRecords] /\ built'[p].worker = "run"
      /\ \A q \in Peers : /\ built'[q].gen = built[q].gen /\ (q # p => built'[q].worker = built[q].worker)
                          /\ q # o => built'[q].state = built[q].state
      /\ o \in Peers => built'[o].state = "closed"
  <2>1. CASE o = NoPeer
    BY <1>t, <1>0, <1>1, <2>1 DEF PeerClosed, PeerRecords
  <2>2. CASE o # NoPeer
    <3>1. o \in Peers /\ built' = [[built EXCEPT ![o].state = "closed"] EXCEPT ![p].worker = "run"]
      BY Zenon, <1>o, <1>1, <2>2 DEF PeerClosed, Optional
    <3> QED
      BY <1>t, <1>0, <3>1 DEF PeerRecords
  <2> QED
    BY Zenon, <2>1, <2>2
<1>n. \A q \in Peers : built[q].state # "none" => built'[q].state # "none"
  BY Zenon, <1>3
<1>4. Types'
  BY Zenon, <1>t, <1>u, <1>2, <1>3 DEF Types
<1>5. Holders'
  <2>1. ASSUME NEW q \in Peers, q # o, Holder(q) PROVE Holder(q)'
    BY Zenon, <1>0, <1>u, <1>2, <1>p, <2>1 DEF Holder
  <2> QED
    BY Zenon, <1>0, <1>3, <1>n, <2>1 DEF RecInv, Holders
<1>6. Starters'
  BY Zenon, <1>0, <1>u DEF RecInv, Starters, StarterAt, Claimed
<1>7. ReadersInv'
  <2>1. ASSUME NEW h \in Generations, h # g, reader[h].pc \in {"install", "replace"} PROVE reader[h].peer # p
    BY Zenon, <1>0, <2>1 DEF RecInv, ReadersInv, ReaderAt
  <2> QED
    BY <1>u, <1>2, <1>3, <1>n, <2>1 DEF RecInv, ReadersInv, ReaderAt
<1>8. NoOrphanPeer'
  <2>1. CASE active = p
    BY Zenon, <1>0, <1>u, <1>3, <1>n, <2>1 DEF RecInv, NoOrphanPeer
  <2>2. CASE active # p
    BY Zenon, <1>t, <1>u, <1>2, <1>3, <1>n, <1>p, <2>2 DEF RecInv, NoOrphanPeer, Optional
  <2> QED
    BY Zenon, <2>1, <2>2
<1>9. Granted'
  <2>1. \E q \in Peers : Resets(q)'
    BY Zenon, <1>0, <1>3 DEF Resets
  <2>2. active # NoPeer /\ built'[active].worker = "reset" => built[active].worker = "reset"
    BY Zenon, <1>t, <1>3 DEF Optional
  <2> QED
    BY Zenon, <1>0, <1>u, <1>1, <2>1, <2>2 DEF RecInv, Granted
<1> QED
  BY Zenon, <1>4, <1>5, <1>6, <1>7, <1>8, <1>9 DEF RecInv

-----------------------------------------------------------------------------
LEMMA RecInit == RecoveryInit => RecInv
<1> SUFFICES ASSUME RecoveryInit PROVE RecInv
  BY Zenon
<1>1. Unbuilt \in PeerRecords /\ NotStarted \in StartRecords
      /\ [pc |-> "none", peer |-> NoPeer, old |-> NoPeer] \in ReaderRecords
  BY RecoveryAssumption DEF PeerRecords, StartRecords, ReaderRecords, Unbuilt, NotStarted
<1>2. [pc |-> "sleep", gen |-> 1, tries |-> IF initiates THEN Retries ELSE 0, peer |-> NoPeer] \in StartRecords
  BY RecoveryAssumption DEF StartRecords
<1>3. /\ linkGen = 1 /\ active = NoPeer /\ claim = Free /\ device = NoPeer /\ built = [p \in Peers |-> Unbuilt]
      /\ network = [pc |-> "none", gen |-> 0] /\ sign = [pc |-> "none", gen |-> 0]
      /\ start \in [StartThreads -> StartRecords] /\ reader \in [Generations -> ReaderRecords]
      /\ \A t \in StartThreads : start[t].pc \in {"none", "sleep"}
      /\ \A g \in Generations : reader[g].pc = "none"
  BY Zenon, <1>1, <1>2 DEF RecoveryInit, NotStarted
<1>4. Types
  BY <1>1, <1>3, RecoveryAssumption DEF Types, Generations, Optional
<1>5. Holders /\ NoOrphanPeer /\ Granted
  BY Zenon, <1>3 DEF Holders, NoOrphanPeer, Granted, Unbuilt
<1>6. Starters /\ ReadersInv
  BY Zenon, <1>3 DEF Starters, StarterAt, ReadersInv, ReaderAt, Claimed
<1> QED
  BY Zenon, <1>4, <1>5, <1>6 DEF RecInv

LEMMA RecStep == RecInv /\ [RecoveryNext]_recoveryVars => RecInv'
<1> SUFFICES ASSUME RecInv, [RecoveryNext]_recoveryVars PROVE RecInv'
  BY Zenon
<1>1. ASSUME NEW t \in StartThreads, StartStep(t) PROVE RecInv'
  BY Zenon, <1>1, StartsKeep, BuildsKeep, InstallsKeep, ServesKeep DEF StartStep
<1>2. ASSUME NEW p \in Peers, WorkerStep(p) PROVE RecInv'
  BY Zenon, <1>2, UsesKeep, WorkersKeep, DropsKeep, SignsKeep DEF WorkerStep
<1>3. ASSUME NEW g \in Generations, PhoneStep(g) PROVE RecInv'
  BY Zenon, <1>3, RestartAskedKeeps, RestartsKeeps, OfferArrivesKeeps, InstallsOfferKeeps, ReplacesKeeps DEF PhoneStep
<1>4. CASE SignSeen \/ SignLooks \/ NetworkClimbs \/ NetworkSigns \/ UNCHANGED recoveryVars
  BY Zenon, <1>4, SignsKeep
<1>5. CASE NetworkClears \/ LinkReplaced
  BY Zenon, <1>5, TakenKeep
<1> QED
  BY Zenon, <1>1, <1>2, <1>3, <1>4, <1>5 DEF RecoveryNext

\* The inductive invariant holds throughout.
THEOREM RecInvariant == RecoverySpec => []RecInv
BY RecInit, RecStep, PTL DEF RecoverySpec

\* An installed peer always has a worker, or the thread that is about to start
\* one: however start_initiator, the phone's offers, the ladder and the guard of
\* an earlier worker cross, no peer is left that the device reads as connected
\* through and nobody serves.
THEOREM ServedCorrect == RecoverySpec => []NoOrphanPeer
BY RecInvariant, PTL DEF RecInv

\* Once the threads have come to rest every peer but the installed one is
\* closed, and with no peer left nothing granted to the device remains: some
\* PeerWorkerGuard reset it last.
THEOREM ReleasedCorrect == RecoverySpec => []NothingLeftBehind
<1>1. RecInv => NothingLeftBehind
  <2> SUFFICES ASSUME RecInv, NothingPending
               PROVE  /\ \A p \in Peers : built[p].state = "open" => p = active
                      /\ active = NoPeer => device = NoPeer
    BY Zenon DEF NothingLeftBehind
  <2>1. ASSUME NEW p \in Peers, built[p].state = "open" PROVE p = active
    BY Zenon, <2>1 DEF RecInv, Holders, Holder, NothingPending
  <2>2. ASSUME active = NoPeer, NEW p \in Peers PROVE ~Resets(p)
    <3>1. NoPeer \notin Peers
      BY Zenon, RecoveryAssumption DEF Peers
    <3> QED
      BY Zenon, <2>2, <3>1 DEF NothingPending, Resets, Runs, Ours
  <2> QED
    BY Zenon, <2>1, <2>2 DEF RecInv, Granted
<1> QED
  BY <1>1, RecInvariant, PTL

=============================================================================
