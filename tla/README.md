# DeskLink: TLA+ models and proofs

DeskLink joins a Linux desktop to an Android phone: a daemon on the desktop
(`src/src/device_links/`), a GTK application over it (`src/src/`, `src/src/window/`)
and a small relay for devices that are not on one network (`src/relay/`). This
directory models the concurrent parts of that system, checks them with TLC on
small instances and proves with TLAPS what holds for every instance.

## The parts and how they interact

* **Session and links.** `DeviceManager` keeps one session per device: its
  connection generation, bootstrap link, pairing state, and the WebRTC peer with
  its handover. Accept and dial threads bring new sockets (`handshake.rs`), a
  reader thread per socket ends them (`packet_handler.rs`), monitors (liveness
  tick, network change, shutdown) end them too.
* **Pairing and trust.** A negotiation over the bootstrap link
  (`pairing.rs`, `pairing_commands.rs`), or a QR code (`pairing_qr.rs`), ends
  in a record in the trust store (`config.rs`) and a state on the device's row.
* **WebRTC.** `coordinator.rs` negotiates a peer connection over the bootstrap
  link, hands the features over to it (`handover.rs`) and climbs a ladder of
  recoveries when it fails. Features wait in a queue until it is ready.
* **Features.** File transfer with resume, notes sync, bucket folders, clipboard,
  terminals, remote desktop leases, Glide, media, do-not-disturb, walk-away
  lock. They run over the feature transport and read the session's state.
* **Relay.** `hub.rs` knows who is online and who allows whom, `server.rs` has
  a thread per connection, `limits.rs` counts sockets and TURN grants. The
  desktop's `relay_link/client.rs` carries a bootstrap link over it.

`PROJECT.json` lists every part with its sources, its modules and what is left
out of it (`components`), the lines of every definition (`map`) and the places
where the code could go wrong in a way a test would hardly reach (`hazards`).

## Modules

| module | models | proofs | run |
|---|---|---|---|
| `SessionCore` | one device's session: registration, adoption, the link race, readers, disconnects, shutdown, WebRTC install and clear | `SessionCoreProofs` | `session_core`, `session_live`, `bootstrap_loss` |
| `Recovery` | the WebRTC peers of a session: starting, serving, losing, rebuilding, giving back | `RecoveryProofs` | `services` |
| `Handover` | one WebRTC attempt at both ends: descriptions, authentication, readiness, the peer's worker, the features that wait | `HandoverProofs`, `FeatureProofs` | `services` |
| `Pairing` | pairing by prompt between two peers, trust store, prompt on the screen | `PairingProofs` | `pairing`, `pairing_live`, `pairing_crossing`, `pairing_unpaired` |
| `QrPairing` | the live QR code, the views that show it, the links of phones that prove it | `QrPairingProofs` | `services` |
| `RelayHub` | the relay's connection threads, hub, outboxes and connection counts | `RelayHubProofs` | `relay_live`, `services` |
| `RelayTurn` | the relay's daily TURN quota, its refunds, its file | `RelayTurnProofs` | `services` |
| `FileTransfer` | one file end to end: both engines, stores, the data channel and the TCP lanes | | `files`, `files_backlog` |
| `FileDelivery` | what sending a file promises: the abstract specification `FileTransfer` implements | | `files` |
| `NotesSync` | shelves of notes on a desk and its phones, their merge and the packets between them | | `notes` |

In all of them one step is one critical section, one send or one system call of
one thread; between two steps any other thread may run.

The `MC...` modules give constants their values. `MCServices` puts together
components that share no state in the code at this level, so that one run checks
them: a variable `part` says which component a behaviour belongs to, and the
others stay as they begin. Nothing is composed by that; each component is
checked as if alone.

### SessionCore

A socket is a connection that may be made, used once; `pc[s]` is where its
attach thread, and later its reader, is. `state`, `gen`, `hasLink`, `pairing`,
`attempt`, `handover` are the session; `carrier`, `epoch`, `closed`,
`cancelled` belong to a generation's link and its token. A thread that found the
session in some state under one lock acts on it under the next, which is where
the interleavings come from: supersede is read, the flight claimed, the holder
compared, the race decided, the answering link adopted into, and otherwise a new
generation registered, each a step. Byte streams are abstracted to whether they
are open, packets to what they do to this state.

Safety: `GenerationsAgree` (Ready exactly while there is a link, and exactly the
current token unset), `PeerWithHandover` (peer, attempt and handover live and
die together), `ReaderOwnsStream` (a reader of the link's epoch reads the socket
the link carries), `OpenLinkHasReader` (an open link has the thread that will
notice its end), `NoSocketLeaked` (a socket that no link carries is shut, or a
thread is on its way to shut it). Liveness: `DeadSocketNoticed`, `LosersAreShut`.

### Recovery

A peer is known by its attempt; each has a state, its link's generation and where
its worker is. Three kinds of thread build peers: starters (`start_initiator`,
one at a time through `starting()`), the readers of the phone's offers and
restart requests, and the handler of a network change, which climbs the ladder.
`PeerWorkerGuard` gives a peer back in three holds of the lock, between which
another may be installed. `device` is the state kept under the device's id
rather than the peer's (grants, an unlocked session).

`NoOrphanPeer` (an installed peer is served, or about to be), `NothingLeftBehind`
(once nothing is moving, every peer but the installed one is closed, and what
was granted went with the last), `RestIsHonest` (the desktop that offers stops
only when its card says so), `LadderEnds` (between two signs of the phone a
bounded number of peers is built).

Assumed or left out: `RestIsHonest` needs the timing the guard `Offered` states (a peer
is not taken by a network change before it was offered: the window is
microseconds against a route change); the last sleep of the scheduler outlasts a start
that began before it; debouncing of signs, a thread that cannot be spawned, and the
clocks themselves are left out. A device's state may outlive its peer until the next
one is reset, which `NothingLeftBehind` allows while there is another. On the
responder's side a restart request leaves everything to the phone. `LadderEnds`
counts the scheduler's retries, and two peers for every restart the phone asks for:
the one it starts and the rung it gives back.

### Handover

Two sides with mirrored roles (the phone runs the same protocol; only the desk's
code is in the repository). `hand[s]` is the `HandoverRuntime`, its enum state
derived from the flags as `refresh_state` does. The worker takes one event at a
time and alone advances its handover, so a handler is one step until it makes
the session ready; from there on other threads see it, and `finish_feature_ready`
and `FeatureTransport::send` are taken lock by lock (`take`, `snapshot`, `send`,
`fresh`). Messages keep their order on one channel and have none between
two. Nonces and signatures are always those of the attempt. `Drop` ends an
attempt at one side.

`ReadyIsMutual` (a ready side's peer has proved itself, confirmed both profiles
and said so), `HandoverNeverStalls` (with all channels open and nothing on its
way, both are ready: a stall would otherwise last until the negotiation
timeout), `NothingStranded` ("a packet can never land in the queue after the
flush ran"), `FeaturesAccounted` (every feature is in exactly one place:
with a thread, queued, travelling, taken, refused or lost).

### Pairing

Two peers, each with a session, a trust record, a card, a command thread, a
reader per link, the 1 Hz reconciler and connection threads. A verification key
is the timestamp it is made from: two certificates are fixed, so two keys are
equal exactly when the stamps are. Links are first-in first-out and may fail,
losing what is on them. A save of the trust store may fail. The clock is a
counter, `AllowedDifference` the tolerance of `timestamp_is_plausible`.

`NoSilentPairing` (nobody is paired unless somebody accepted), `OneKey` (both
screens have the same key), `PairedIsTrusted` (a settled paired session is on
record), `AcceptedOnItsLink` (an acceptance answers the link its request came
on), `PairingConverges` (two peers with a working link end up agreeing). An unpair
looks the link up twice and takes the session's lock for each step after it, so a link
may come, go or be replaced between any two: a session seen without a link forgets
its pairing although it has one by then, and one whose link was replaced stays paired
while its record goes (another reason why `PairedIsTrusted` is checked for one link). Both peers read one clock:
what a skewed clock does to a stamp is not covered by `OneKey`.

### QrPairing

The one live code, known by its generation; two kinds of view that ask for and
withdraw it through the daemon's command queue; links of a phone with a new
certificate, which wait for its proof apart from the session and take one of
`MAX_QR_ONLY_LINKS` slots; a known phone's proofs on its session. A failed save of the
trust record consumes the code, as in the code. Left out: a start that fails because there
are no random bytes or the certificate cannot be encoded (an error is shown, no code is
made, and the views keep waiting).

`OneWinner` (a code is accepted once), `CodeFollowsViews` (no code is live that
no view shows, and a view on screen has one or one coming). The second half has one
exception, stated in `CodeComes`: a view that showed nothing when the other
withdrew the code asks again only when it next looks. Proved and not run:
`SlotsReturned` and `BurnedByMany` (one phone's wrong proofs never burn a code; the
header of `pairing_qr.rs` says "burned after 3 bad ones", the code counts 3 per
phone and 30 in all, and the model follows the code).

### RelayHub and RelayTurn

A connection goes `accepted`, `open`, `welcomed`, `serving`, `leaving`,
`closing`, `closed`, `done`; hub and counts are two mutexes. A frame counts as
one byte. What is queued behind a close or for a thread that stopped reading is
dropped in the model: the code never reads it. The two limits of a queue are guards of
the model, not a property. `HubHoldsLive`, `NewestIsOnline`,
`PresenceIsTrue` (what a client will believe once it read its queue is what the
hub knows), `SlotsBalance`; `VanishedGoesOffline` and `ClosedLeaves` are
liveness.

In `RelayTurn` a thread reads the clock, charges under the quota's lock, calls
the backend with no lock and refunds a failure. Hashed keys are modelled by the
salt they were made with, as a counter under another salt cannot be found.
`QuotaCounts`: every counter is what was loaded plus the grants not given back.

### FileTransfer and FileDelivery

One file of `Total` frames in blocks of `BlockFrames`. A frame's content is the
version of the source it was read from, a hash the sequence of what was hashed,
so contents differ exactly when hashes do. Control messages and frames travel
on channels that are ordered each by itself, and every lane is a connection of its
own. Both engines, the checkpoints on disk, passes and rewinds, pauses for
backlog, storage and silence, a changed source, tokens and lanes, the loss and return of
the link and a crash of the receiver are steps. A scenario names what may
happen outside the code and how often.

`CheckpointHonest` (what a checkpoint vouches for is in the partial file),
`NoneLeftOpen` (a finished send leaves no open receiver, lanes left out as below), `OrderKept` (without
lanes no restart is taken for a broken stream), `TransferEnds`, and the refinement
`Delivers`: with `copies` read off the published files, the two engines implement
`FileDelivery` (only whole copies, never an older version after a newer; "sent"
only of the version published last).

Limits met while modelling, each stated where it bites: a checkpoint written late by
a closing engine, or a lane that lowers what is synced, followed by a crash, breaks
`CheckpointHonest` (these two combinations are not among the scenarios); a repeated
offer that crosses the end leaves a receiver open until its link ends (the exception
`laneWanted`); a failover position is always refused when hashes had been
truncated; after the loss of a link a file may be published twice (at least
once, which `FileDelivery` allows). `forget_device` against `checkpoint_all`, the
`Failed` trouble, and Bucket, gallery and clipboard offers are not modelled.

### NotesSync

Every device keeps a shelf; a phone knows the desk, the desk every phone, and
the phone runs the same merge (its code is not in the repository; the merge is
written to resolve every case alike). A note's text is a number, an id a sequence
(a conflicted copy's is its note's followed by the losing version), a version an
index into the history `made`. The four packets, the worker's job queue, the
editor that was loaded with an older version, unpairing and the link are
steps. Two threads of a device use its shelf, the window's and the worker's. A
change is one hold of the store's lock (`Change`, with the clearing of duplicates that
ends it), the push or relay it owes (`due`) is another, so packets may land between
the two and a push sends what the shelf says by then. Nothing paces the edits: a device
may write again before its last version was pushed on by the worker or acknowledged.

`TextsKept` (nothing a person typed is lost until a person who read it replaces or
deletes it), `Agree` (once a live connection is quiet, both sides hold the same,
whatever was typed, pushed or relayed on the way), `HeldIsRecognised` (a version a
phone acknowledged, or was sent with the acknowledgement lost, stays among the
ancestors), `ExchangeEnds` (answers to answers come to an end).

The code gives a text up in two places. Both are recorded in the history where they
happen, `TextsKept` leaves out those texts and no others (`Forfeited`), and TLC finds it
violated without either.

* `wiped`: the editor's delete button calls `edit_note`, which passes no loaded version
  (`window/notes.rs:560`), so a version that landed after the editor was loaded is
  deleted unseen. The save of the same editor would have kept it as a copy.
* `dropped`: a loser whose copy is already on the shelf counts as resolved
  (`notes.rs:358`), also when the copy no longer says what it said. Two versions of one
  note conflict and both sides make a copy; the desk deletes the note; a packet with
  the loser's version crosses it and revives it, so `remove_duplicates_in` makes the copy
  a tombstone; a stale echo of the other version then wins, and the tombstone is taken for
  a copy a person dealt with. The text is gone, although the header (`notes.rs:6`) says
  both are kept.

`Agree` leaves out a connection during which a deletion was made (`fresh`): a deletion
that crosses an edit on a live link may leave the sides apart until they next connect.

Other limits: the loser's copy may exist on one side only until the next
connection; a version beyond `MAX_ANCESTORS` costs a needless copy; two
edits with one time stamp are excluded (`Gap` keeps chains of edits apart). Left out:
pins, titles a person types, snippets, size and rate limits, tombstones older
than 90 days, an unsaved shelf at a crash, a full job queue, the skipping of
an index the peer already has, and the relay of a packet that changed nothing while another
thread changed the shelf (`on_packet` compares a shared counter).

## Runs and bounds

| run | instance | shows |
|---|---|---|
| `session_core` | 2 sockets, 1 monitor, unpaired or paired | safety of `SessionCore` |
| `session_live` | any two of four sockets: dialled, accepted, over the relay from a restarted peer, promoted from a QR link | liveness of the session |
| `pairing` | 2 links that may fail and replace each other, 2 commands, no signals | safety of a negotiation, acceptance and the link it is for |
| `pairing_live` | 1 link that holds, failing saves, expiry, signals | the trust record, convergence |
| `relay_live` | 2 devices, 3 connections, a network full at 2, no payloads | slots, hub and liveness |
| `services` | 2 features, a queue of 1, a responder that may break off; 2 views or 2 new links; 2 TURN threads, 1 restart; 3 hub connections with queues of 1 and 1; a ladder of one rung and one retry, six plans of events | safety of `Handover`, `Recovery`, `QrPairing`, `RelayTurn` and of the hub's presence |
| `files` | 5 frames in blocks of 2, a window of 3, any two troubles, lanes with one or two | safety, refinement and the end of a send |
| `notes` | a desk and up to two phones, ten plans of who types, deletes, drops and comes back, at most 4 versions on a device, 2 ancestors | notes |
| `bootstrap_loss`, `pairing_crossing`, `pairing_unpaired`, `files_backlog` | the smallest instance that shows it | a violation each, see below |

The bounds are named constants. Two sockets are the least for a race or an
adoption, and the proofs cover any number. Two commands reach every pair of user actions
on the two sides; a third multiplies states without a new kind of step. Three
connections of two devices allow a replacement on one side while the other
watches; queues of one payload and one control frame make the limits happen. Two
blocks of two frames and a short one make the first and the last position of a block, a
block in the middle and one that ends the file early; a window
of three lets one block be in doubt while the next begins. The TURN quota and the
QR code run on instances that are small because the proofs cover every value.

Constraints, and why they lose nothing that is claimed: `OnlyPresence` keeps,
of the hub, what touches an outbox, and accepts connections in one order, since
nothing tells them apart (`relay_live` has the rest); `FewLate` lets two workers
linger at once; `TwoConnections` lets any two of the four sockets begin.

Deadlock is not checked: every connection, command or event may be used up, and
there the models stop and the program waits.

**Fairness.** Only steps of threads that have started are weakly fair: the
scheduler runs them, no lock is held across a blocking call. Users, peers,
WebRTC callbacks and failing links owe nothing. In `RelayHub` the silence limit
has its own weak fairness, as each round of `serve` looks at the clock after
draining; under fairness of the thread alone, a peer that keeps the outbox busy
could put it off for ever. In `FileTransfer` what was sent on a working link
arrives, timers fire, a full disk gets room and a lost link comes back; those
four are what the word "interrupted" promises. `ExchangeEnds` assumes no fairness: as
long as the workers do work, the exchange falls quiet again.

## Where code and comments disagree

Four runs are expected to find a violation. Each checks one sentence of a
comment; `findings` quotes it with its line.

* `bootstrap_loss`: whether a feature peer is ready is read under one session
  lock and the session dropped under the next, so a peer that became ready in
  between goes with it. A registration that replaces the link has the same
  window; so has the end of an old socket, which may shut one just adopted
  (it is then noticed like any other dead socket).
* `pairing_crossing`: the negotiation is moved before the card shows it, so a
  request pressed in between accepts one nobody has seen. The key compared and the
  request accepted are likewise read under two locks.
* `pairing_unpaired`: a trust record is saved after the session lock is
  dropped, over an unpair that came in between. A handshake that read the
  record before an unpair and registers after it also leaves a paired session
  without a record; `PairedIsTrusted` therefore holds for one link, and is
  checked for one.
* `files_backlog`: a pause for a backlog that ends while the sender's `done` is on
  its way restarts a transfer that was complete; the `complete` of the published file
  is ignored and the send never ends. `TransferEnds` leaves out every send that met
  such a crossing (`Crossed`, which also takes in the harmless one of a restart with a
  repeated offer) and every send that gave up a lane (`LeftALane`); for those only
  safety is checked.

Others were met and are listed as hazards only: a prompt whose negotiation ended
with its link stays on the screen while the next link lives; a request for
TURN credentials that read the clock before midnight and takes the quota's lock
after one from the new day empties the new day's counters; a phone that is already
paired, scans again and whose record cannot be saved is left not paired and
answered `pair: false`.

## What is proved

Every theorem holds for any value of the constants that meets the module's
assumptions (`SocketsAssumption`, `QrAssumption`, ...: distinct markers, types of
bounds, a finite set of connections), so for any number of sockets, links,
packets, attempts, commands and restarts. The properties are the ones the
runs check on their instances; TLC checked each inductive invariant as an invariant
before it was proved.

**SessionCoreProofs**: `TypeCorrect`, `GenerationsCorrect`, `PeerCorrect`,
`ReaderCorrect`, `OpenLinkCorrect` follow from one inductive invariant, `IInv`. The
properties are not inductive alone: that a reader of the current epoch reads the
carrier needs to know what every thread between two locks has bound itself to
(`ThreadInv`: a thread past adoption or registration holds a generation already
registered and an epoch not above its link's, and while the epochs are equal the
link carries its socket), and that a generation's token and link are untouched
before it exists (`FreshGenerations`). There is one lemma per action; the steps of threads
that hold nothing are handled together by two lemmas about moves that leave
bound threads alone, and the steps of a bound thread towards its end by `BoundMove`
(such a step closes at most the link it is bound to).
`SocketsCorrect` (`NoSocketLeaked`) adds `SocketInv`: `SessionLink::close` leaves the
carrier to whoever set the flag, so a closed link with an open carrier must have that
thread still on its way (second conjunct); no link carries the socket of a
connection that is still deciding (third), and the socket a registration took out
is still the one its predecessor carries (fourth), without which `close_replaced`
could flag one socket and shut another.

**RecoveryProofs**: `ServedCorrect` (`NoOrphanPeer`) and `ReleasedCorrect`
(`NothingLeftBehind`) from `RecInv`, which says who holds what: an open peer is
installed or with the thread that will install or close it (`Holders`); one thread
at a time is past `claim_start`, only on the side that offers, and the peer it
brings has no worker yet (`Starters`); a reader brings a peer of its own link, only on
the side that answers (`ReadersInv`), so the two never bring one at once; and
while the device holds a grant some worker has its reset still before it
(`Granted`). The last is what makes it safe that a superseded worker leaves the
device's state alone: the peer that superseded it has a worker too.

**PairingProofs**: `PairTypes`, `SilentCorrect`, `LinkCorrect` from `PairInv`. That
nobody is paired silently needs every place an acceptance could hide: packets on a
link, what a reader has read and not applied, what a command decided and not
sent, a trust record about to be saved (`Silent`). That an acceptance answers its
link needs what each thread knows of the link it acts on (`Linked`).

**HandoverProofs**: `MutualCorrect` from `HandInv`: each flag of one side is traced
to the message that set it, still on its way or taken, and to the flag of the
other side that sent it; the order on one channel decides, as feature-ready
comes last on it.

**FeatureProofs**: `FlushCorrect` from `Flushed` (a session is marked ready under the
lock that takes the queue, and no thread holds an older snapshot that
would still queue), and `FeaturesCorrect` from `Accounted` (the places a packet
can be in are disjoint and nothing occurs twice in a queue).

**QrPairingProofs**: `WinnerCorrect`, `CodeCorrect`, `QrSlotsCorrect`,
`BurnedCorrect`. A code that was accepted is never live again and no later
command brings it back; a queue of commands of any length ends with what the last
view asked for.

**RelayHubProofs**: `SlotsCorrect`, from `SlotsInv` (an unauthenticated
connection has no name, a socket moves between the two shares once), and
`HubCorrect`, from `HubInv`. Each step adds or removes one connection from the
counted sets, or none, which `Gain` and `Lose` turn into arithmetic on
cardinalities.

**RelayTurnProofs**: `QuotaCorrect`: per pair and per network, the counter is what the
file held plus the grants of its day that were not refunded; a refund finds its
counter only under the day and salt it was charged under.

**Only model-checked**

* all liveness, as fairness and `ENABLED` are out of the prover's reach:
  `DeadSocketNoticed`, `LosersAreShut`, `PairingConverges`, `VanishedGoesOffline`,
  `ClosedLeaves`, `TransferEnds`, `ExchangeEnds`;
* `PairedIsTrusted`, which holds for one link only;
* `OneKey`: two screens agree because the packets of one link arrive in order, which
  needs an induction over a channel's history;
* `HandoverNeverStalls`: it speaks about all channels being empty and needs a count of
  every message still owed;
* `NewestIsOnline`, `PresenceIsTrue`: they speak about outboxes built by folds over
  sets, and what a fold computes needs an induction over data;
* `RestIsHonest`, `LadderEnds`: the first needs the timing assumption above, the
  second counts peers against events;
* `FileTransfer`, its refinement included, and `NotesSync`: hashes are sequences of
  sequences and shelves are folded over, so their invariants need inductions over data.

## Not modelled

The link transports and the WebRTC library (their events are inputs of the models),
presentation (windows, tray, D-Bus), codecs, portals, file formats, framing and
cryptography are I/O or data. Bucket folders, clipboard, terminals, remote desktop
leases, Glide, do-not-disturb and walk-away lock mirror one value or wrap a process, each
with its reason under `components`. Most of the repository's lines are of these
kinds, which is why the map covers a small share of them.
