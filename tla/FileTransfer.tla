---------------------------- MODULE FileTransfer ----------------------------
(***************************************************************************)
(* One file on its way from a sender to a receiver: the two halves of the  *)
(* transfer manager (webrtc/transfer_manager: send.rs, recv.rs, store.rs)  *)
(* and the fast lane of webrtc/file_lane.rs.                               *)
(*                                                                         *)
(* A file is Total frames, cut into blocks of BlockFrames frames.  Content *)
(* is abstracted to which version of the source a frame was read from: the *)
(* payload of a frame is a version, the hash of a block the sequence of    *)
(* the payloads hashed into it, the prefix hash the sequence of the block  *)
(* hashes.  Two contents are told apart exactly when the real hashes tell  *)
(* them apart.                                                             *)
(*                                                                         *)
(* Control messages go both ways on one ordered channel (toR, toS), frames *)
(* on another (data) or over a TCP lane (lanes[k]); the roads are ordered  *)
(* each by itself and not among each other.  The k-th lane is a connection *)
(* of its own, because frames of an old lane may still be in the queue     *)
(* when the next one opens.                                                *)
(***************************************************************************)
EXTENDS Integers, Sequences, FiniteSets

CONSTANTS Total,           \* frames of the file
          BlockFrames,     \* frames of a block (BLOCK_BYTES)
          Window,          \* unacknowledged frames allowed (UNACKED_MAX)
          MaxRewinds,      \* damaged blocks one transfer survives
          MaxRestarts,     \* times a changed source begins again
          MaxLaneFailures, \* lanes one transfer is given
          Lanes,           \* bound: lane connections of a behaviour
          Scenarios        \* bound: how often each thing outside the code happens

VARIABLES src,     \* the source on the sender's disk: its version, or Gone
          snd,     \* the Outgoing of the sender's engine, or None
          rec,     \* the send record on the sender's disk, or None
          rcv,     \* the Incoming of the receiver's engine, or None
          disk,    \* what the receiver's disk keeps of each transfer id
          late,    \* a checkpoint a closing engine has still to write, or None
          up,      \* the peers' file channels are attached
          toR, toS, data, lanes,
          placed,  \* the files published in the downloads directory
          fate,    \* the person's row: how the send ended, of which version
          broken,  \* ghost: the receiver stopped a stream as out of order
          budget   \* what may still happen: a count for each kind

disks == <<rec, disk, late>>
roads == <<toR, toS, data, lanes>>
vars == <<src, snd, rec, rcv, disk, late, up, toR, toS, data, lanes, placed,
          fate, broken, budget>>

None == [st |-> "none"]
Gone == -1
Damaged == -2
Ids == 0..MaxRestarts

Blocks == (Total + BlockFrames - 1) \div BlockFrames
Least(a, b) == IF a < b THEN a ELSE b
BlockOf(off) == off \div BlockFrames
OffsetOf(blocks) == Least(blocks * BlockFrames, Total)
next_pass(pass) == (pass + 1) % 256
Prefix(seq, n) == SubSeq(seq, 1, n)

Open(r) == r # None

\* Something outside the code happens, as often as the scenario allows.
May(kind) == kind \in DOMAIN budget /\ budget[kind] > 0
Spend(kind) == May(kind) /\ budget' = [budget EXCEPT ![kind] = @ - 1]

-----------------------------------------------------------------------------
(* The sender's record and what its methods do to it.                      *)

\* A send as the engine makes it from a record: queued, nothing read.
NewOutgoing(id, version) ==
  [st |-> "queued", id |-> id, version |-> version, offered |-> FALSE,
   next |-> 0, pass |-> 0, hashes |-> <<>>, cur |-> <<>>, acked |-> 0,
   held |-> "no", rewinds |-> 0, upto |-> 0, expect |-> <<>>, okpass |-> 0,
   lane |-> "off", k |-> 0, token |-> 0, laneOffered |-> FALSE, laneFailed |-> FALSE,
   failures |-> 0, releases |-> 0, refreshes |-> 0, await |-> -1, laneNacks |-> 0,
   drain |-> FALSE]

\* begin_at: send from a block on, under a pass.
begin_at(s, blocks, pass) ==
  [s EXCEPT !.hashes = Prefix(@, blocks), !.cur = <<>>, !.next = OffsetOf(blocks),
            !.acked = blocks, !.pass = pass, !.st = "sending"]

\* rewind_to: back to a refused block; what was acknowledged before it stays.
rewind_to(s, blocks, pass) ==
  [s EXCEPT !.hashes = Prefix(@, Least(blocks, Len(@))), !.cur = <<>>,
            !.next = OffsetOf(blocks), !.acked = Least(@, blocks), !.pass = pass,
            !.st = "sending"]

\* restart_from: go to the receiver's block if its prefix is ours, else to
\* the start under the next pass; a prefix we hold no hashes for is read
\* again from the source first.
restart_from(s, blocks, prefix, pass) ==
  IF blocks = 0 \/ Len(s.hashes) >= blocks
  THEN IF Prefix(s.hashes, blocks) = prefix
       THEN begin_at(s, blocks, pass)
       ELSE begin_at(s, 0, next_pass(pass))
  ELSE [s EXCEPT !.st = "verifying", !.upto = blocks, !.expect = prefix,
                 !.okpass = pass, !.cur = <<>>]

is_held(s) == s.held # "no"

can_send(s) ==
  /\ s.st = "sending"
  /\ s.lane \in {"off", "up"}
  /\ s.await = -1
  /\ ~is_held(s)
  /\ ~(s.drain /\ s.next % BlockFrames = 0)
  /\ s.next < Total
  /\ s.next - OffsetOf(s.acked) < Window

\* lane_target: the two devices see each other on the LAN.
lane_target == May("lane")

\* The offer asks for a lane while the transfer has not used up its failures.
lane_allowed(s) == lane_target /\ s.failures < MaxLaneFailures

OfferOf(s) ==
  [t |-> "offer", id |-> s.id, version |-> s.version, lane |-> lane_allowed(s)]

Offered(s) == [s EXCEPT !.st = "offered", !.offered = TRUE, !.laneOffered = lane_allowed(s)]

\* Mutant: the source is only missed when it is gone.
IntactIfThere(s) == src # Gone

\* stat_source: the source as it is on disk must be the offered file.
Intact(s) == src = s.version

-----------------------------------------------------------------------------
(* The receiver's record and what its methods do to it.                    *)

\* A transfer's partial file and what its checkpoint vouches for.
Kept(part, hashes) == [st |-> "kept", part |-> part, hashes |-> hashes]

\* load_receive: never more than the partial file holds.
held(id) ==
  LET d == disk[id]
      n == CHOOSE b \in 0..Len(d.hashes) :
             /\ OffsetOf(b) <= Len(d.part)
             /\ \A c \in b + 1..Len(d.hashes) : OffsetOf(c) > Len(d.part)
  IN  IF d = None THEN Kept(<<>>, <<>>)
      ELSE Kept(Prefix(d.part, OffsetOf(n)), Prefix(d.hashes, n))

\* begin_incoming: a new transfer, or the checkpoint of the same one.
NewIncoming(id) ==
  [st |-> "open", id |-> id, pass |-> 0, adoptAny |-> TRUE, oldStream |-> FALSE,
   part |-> held(id).part, hashes |-> held(id).hashes, cur |-> <<>>,
   ck |-> Len(held(id).hashes), synced |-> Len(held(id).part), rewinds |-> 0,
   resent |-> FALSE, paused |-> "no", onLane |-> 0, laneWanted |-> FALSE, grant |-> 0,
   spent |-> FALSE, stalled |-> FALSE]

\* Where the next frame must start: the partial file ends there.
rnext(r) == Len(r.part)
verified(r) == Len(r.hashes)

\* restart_at: back to the end of a verified block, expecting a pass.
restart_at(r, blocks, pass) ==
  LET b == Least(blocks, verified(r))
  IN  [r EXCEPT !.part = Prefix(@, OffsetOf(b)), !.hashes = Prefix(@, b), !.cur = <<>>,
                !.pass = pass, !.adoptAny = FALSE, !.oldStream = FALSE,
                !.ck = Least(@, b), !.synced = Least(@, OffsetOf(b))]

accept_message(r) ==
  [t |-> "accept", id |-> r.id, block |-> verified(r), prefix |-> r.hashes,
   token |-> IF r.laneWanted THEN r.grant ELSE 0]

\* Every accept starts anew: no lane, and a fresh token if one is wanted.
accepting(r, wanted) ==
  [r EXCEPT !.onLane = 0, !.laneWanted = wanted,
            !.grant = IF wanted THEN @ + 1 ELSE @, !.spent = ~wanted]

adopts(r, f) ==
  /\ f.off % BlockFrames = 0
  /\ BlockOf(f.off) <= verified(r)
  /\ r.adoptAny \/ f.pass = next_pass(r.pass)

\* Whether a frame is of a stream the receiver no longer listens to.
ignored(r, f) ==
  \/ r.paused = "storage"
  \/ ~adopts(r, f) /\ f.pass # r.pass
  \/ ~adopts(r, f) /\ r.adoptAny /\ r.oldStream /\ f.off > rnext(r)

\* The receiver as it takes a frame that is not ignored: a new start is
\* adopted, and the first frame after an accept settles the stream.
listening(r, f) ==
  IF adopts(r, f) /\ (r.adoptAny \/ f.pass # r.pass)
  THEN restart_at(r, BlockOf(f.off), f.pass)
  ELSE [r EXCEPT !.adoptAny = FALSE, !.oldStream = FALSE]

written(r, f) == [r EXCEPT !.part = Append(@, f.pay), !.cur = Append(@, f.pay)]

resume_message(r) ==
  [t |-> "resume", id |-> r.id, plain |-> FALSE, block |-> verified(r),
   prefix |-> r.hashes, pass |-> r.pass]

\* Mutant: the restart keeps the pass, old frames pass for new ones.
restarted_same_pass(r) == [restart_at(r, verified(r), r.pass) EXCEPT !.paused = "no"]

\* restart_and_resume: begin again at the last verified block, new pass.
restarted(r) == [restart_at(r, verified(r), next_pass(r.pass)) EXCEPT !.paused = "no"]

-----------------------------------------------------------------------------
(* Lanes.  A lane is dialled, answered, then carries an "open" notice, the *)
(* frames and a "lost" notice to the receiver's file thread.               *)

NoLane == [st |-> "none", id |-> 0, pass |-> 0, start |-> 0, token |-> 0, q |-> <<>>,
           dead |-> FALSE, failed |-> FALSE]
lost == [t |-> "lost"]

\* Where a connection can be cut: after any frame already in its pipe.
CutPoints(lane) ==
  IF lane.q # <<>> /\ Head(lane.q).t = "open" THEN 1..Len(lane.q) ELSE 0..Len(lane.q)

\* The connection ends with n notices and frames still to be read from it.
Closed(lane, n) ==
  IF lane.dead THEN lane
  ELSE [lane EXCEPT !.dead = TRUE,
                    !.q = IF lane.st = "open" THEN Append(Prefix(@, n), lost) ELSE @]

\* What becomes of the lanes when the sender lets go of its own.
LaneLeft(n) ==
  IF snd.lane \in {"dialing", "up"} THEN [lanes EXCEPT ![snd.k] = Closed(@, n)] ELSE lanes

Cuts == IF snd.lane \in {"dialing", "up"} THEN CutPoints(lanes[snd.k]) ELSE {0}

\* fall_back: a moving transfer goes on over the data channel under the next
\* pass, from the receiver's count if it gave one, else from what was
\* acknowledged, and then the receiver is asked where it is.
fall_back(s, from, asked) ==
  IF s.st \in {"sending", "awaiting"}
  THEN [begin_at(s, from, next_pass(s.pass)) EXCEPT
          !.await = IF asked THEN next_pass(s.pass) ELSE @]
  ELSE s

fall_back_message(s, from) ==
  IF s.st \in {"sending", "awaiting"}
  THEN <<[t |-> "lane", id |-> s.id, start |-> BlockOf(OffsetOf(from)), pass |-> next_pass(s.pass)]>>
  ELSE <<>>

\* lane_gave_up: one failure more, and the transfer may ask again later.
gave_up(s) == [s EXCEPT !.lane = "off", !.laneFailed = TRUE, !.failures = @ + 1]

\* leave_lane: the connection is closed and the transfer falls back.
LeaveLane(s, from, asked) ==
  /\ snd' = fall_back(gave_up(s), from, asked)
  /\ toR' = toR \o fall_back_message(s, from)
  /\ \E n \in Cuts : lanes' = LaneLeft(n)

-----------------------------------------------------------------------------
(* The end of a send.                                                      *)

\* end_outgoing, drop_transfer, source_trouble: the record goes with it.
EndSend(how, message) ==
  /\ snd' = None
  /\ rec' = None
  /\ fate' = [fate EXCEPT !.how = how]
  /\ toR' = toR \o message
  /\ \E n \in Cuts : lanes' = LaneLeft(n)

\* Mutant: the receiver is not told of the end.
TellNothing(t) == <<>>

Tell(t) == IF snd.offered THEN <<[t |-> t, id |-> snd.id]>> ELSE <<>>

\* source_trouble, the source changed: the same file begins again under a new
\* id, a bounded number of times.
RestartChanged ==
  /\ snd' = NewOutgoing(snd.id + 1, src)
  /\ rec' = [st |-> "send", id |-> snd.id + 1, version |-> src]
  /\ toR' = toR \o Tell("cancel")
  /\ \E n \in Cuts : lanes' = LaneLeft(n)
  /\ fate' = [fate EXCEPT !.version = src]

SourceTrouble ==
  IF src # Gone /\ snd.id < MaxRestarts THEN RestartChanged
  ELSE EndSend("failed", Tell("cancel"))

-----------------------------------------------------------------------------
Init ==
  /\ src = 0
  /\ snd = NewOutgoing(0, 0)
  /\ rec = [st |-> "send", id |-> 0, version |-> 0]
  /\ rcv = None
  /\ disk = [id \in Ids |-> None]
  /\ late = None
  /\ up = TRUE
  /\ toR = <<>> /\ toS = <<>> /\ data = <<>>
  /\ lanes = [k \in 1..Lanes |-> NoLane]
  /\ placed = <<>>
  /\ fate = [how |-> "open", version |-> 0]
  /\ broken = FALSE
  /\ budget \in Scenarios

-----------------------------------------------------------------------------
(* The sender's file thread: what a round does.                            *)

sender == <<src, rcv, disk, late, up, toS, placed, broken>>

\* promote_queued: a slot is free, the file is offered.
PromoteQueued ==
  /\ up /\ Open(snd) /\ snd.st = "queued"
  /\ toR' = Append(toR, OfferOf(snd))
  /\ snd' = Offered(snd)
  /\ UNCHANGED <<sender, rec, data, lanes, fate, budget>>

\* What reading the source gives: an open file outlives its name.
Reading == IF src = Gone THEN snd.version ELSE src

\* verify_prefixes: one block of the receiver's prefix read again; the source
\* is looked at before the first.
VerifyPrefix ==
  /\ Open(snd) /\ snd.st = "verifying"
  /\ snd.cur = <<>> => Intact(snd)
  /\ LET b == Len(snd.cur)
         hash == [i \in 1..OffsetOf(b + 1) - OffsetOf(b) |-> Reading]
         read == Append(snd.cur, hash)
     IN  snd' = IF Len(read) < snd.upto THEN [snd EXCEPT !.cur = read]
                ELSE IF read = snd.expect
                     THEN begin_at([snd EXCEPT !.hashes = read], snd.upto, snd.okpass)
                     ELSE begin_at(snd, 0, next_pass(snd.okpass))
  /\ UNCHANGED <<sender, rec, roads, fate, budget>>

\* finish_acknowledged: every block is acknowledged and the source is still
\* the offered file.
FinishAcknowledged ==
  /\ up /\ Open(snd) /\ snd.st = "sending"
  /\ snd.acked >= Blocks /\ Len(snd.hashes) = Blocks
  /\ Intact(snd)
  /\ toR' = Append(toR, [t |-> "done", id |-> snd.id, hashes |-> snd.hashes])
  /\ snd' = [snd EXCEPT !.st = "awaiting"]
  /\ UNCHANGED <<sender, rec, data, lanes, fate, budget>>

\* pump_sends: the next frame is read, hashed and handed to its road.  A
\* frame written to a lane that is dead goes nowhere and marks it failed.
SendFrame ==
  /\ up /\ Open(snd) /\ can_send(snd)
  /\ snd.next % BlockFrames = 0 => Intact(snd)
  /\ LET last == snd.next + 1 = OffsetOf(BlockOf(snd.next) + 1)
         hash == Append(snd.cur, Reading)
         frame == [t |-> "frame", id |-> snd.id, pass |-> snd.pass, off |-> snd.next,
                   pay |-> Reading, last |-> last, hash |-> IF last THEN hash ELSE <<>>]
     IN  /\ snd' = [snd EXCEPT !.next = @ + 1,
                               !.cur = IF last THEN <<>> ELSE hash,
                               !.hashes = IF last THEN Append(@, hash) ELSE @]
         /\ IF snd.lane = "up"
            THEN /\ lanes' = [lanes EXCEPT ![snd.k] =
                                IF @.dead THEN [@ EXCEPT !.failed = TRUE]
                                ELSE [@ EXCEPT !.q = Append(@, frame)]]
                 /\ UNCHANGED data
            ELSE data' = Append(data, frame) /\ UNCHANGED lanes
  /\ UNCHANGED <<sender, rec, toR, toS, fate, budget>>

\* The channel refuses the frame: back to the start of its block.
FrameNotSent ==
  /\ up /\ Open(snd) /\ can_send(snd) /\ snd.lane = "off"
  /\ Spend("send")
  /\ snd' = [snd EXCEPT !.next = OffsetOf(BlockOf(@)), !.cur = <<>>,
                        !.hashes = Prefix(@, BlockOf(snd.next))]
  /\ UNCHANGED <<sender, rec, roads, fate>>

\* The source is found gone or changed where the code looks at it: before a
\* block, before a prefix check, before "done", or by a read that falls short.
FindTrouble ==
  /\ up /\ Open(snd) /\ ~Intact(snd)
  /\ \/ can_send(snd) /\ (snd.next % BlockFrames = 0 \/ src # Gone)
     \/ snd.st = "verifying" /\ (snd.cur = <<>> \/ src # Gone)
     \/ snd.st = "sending" /\ snd.acked >= Blocks /\ Len(snd.hashes) = Blocks
  /\ SourceTrouble
  /\ UNCHANGED <<sender, data, budget>>

-----------------------------------------------------------------------------
(* The sender's lane: lane_step and maybe_promote.                         *)

\* No word from the receiver for two seconds: carry on from what we know.  It
\* takes a slow control channel for the question or its answer to be on the
\* way for that long.
AwaitLapses ==
  /\ up /\ Open(snd) /\ snd.await # -1
  /\ IF \/ \E i \in DOMAIN toR : toR[i].t = "lane"
        \/ \E i \in DOMAIN toS : toS[i].t = "nack"
     THEN Spend("slow")
     ELSE UNCHANGED budget
  /\ snd' = [snd EXCEPT !.await = -1]
  /\ UNCHANGED <<sender, rec, roads, fate>>

\* The token may be about to lapse: ask for another.
RefreshToken ==
  /\ up /\ Open(snd) /\ snd.st = "sending" /\ snd.lane = "pending" /\ snd.refreshes < 2
  /\ Spend("token")
  /\ toR' = Append(toR, OfferOf(snd))
  /\ snd' = [Offered(snd) EXCEPT !.lane = "off", !.refreshes = @ + 1]
  /\ UNCHANGED <<sender, rec, data, lanes, fate>>

\* Dial with the token, from where the transfer stands.
DialLane ==
  /\ up /\ Open(snd) /\ snd.st = "sending" /\ snd.lane = "pending"
  /\ Spend("lane")
  /\ \E k \in 1..Lanes :
       /\ lanes[k].st = "none" /\ \A j \in 1..k - 1 : lanes[j].st # "none"
       /\ lanes' = [lanes EXCEPT ![k] =
                       [NoLane EXCEPT !.st = "dial", !.id = snd.id, !.pass = snd.pass,
                                      !.start = BlockOf(snd.next), !.token = snd.token]]
       /\ snd' = [snd EXCEPT !.lane = "dialing", !.k = k]
  /\ UNCHANGED <<sender, rec, toR, data, fate>>

\* The LAN path seen at the offer is gone again: no dial, no blame.
NoLaneTarget ==
  /\ up /\ Open(snd) /\ snd.st = "sending" /\ snd.lane = "pending"
  /\ Spend("lane")
  /\ snd' = [snd EXCEPT !.lane = "off"]
  /\ UNCHANGED <<sender, rec, roads, fate>>

\* The dial thread hands its connection over.
LaneUp ==
  /\ up /\ Open(snd) /\ snd.lane = "dialing" /\ lanes[snd.k].st = "open"
  /\ snd' = [snd EXCEPT !.lane = "up"]
  /\ UNCHANGED <<sender, rec, roads, fate, budget>>

\* The dial was refused, or six seconds passed without a result.
DialFails ==
  /\ up /\ Open(snd) /\ snd.lane = "dialing"
  /\ \/ lanes[snd.k].st = "refused" /\ UNCHANGED budget
     \/ lanes[snd.k].st # "refused" /\ Spend("dial")
  /\ snd' = gave_up(snd)
  /\ \E n \in Cuts : lanes' = LaneLeft(n)
  /\ UNCHANGED <<sender, rec, toR, data, fate>>

\* A lane whose write failed, or that went unacknowledged for five seconds: it
\* takes a slow road while frames or answers are still on their way.
LaneFails ==
  /\ up /\ Open(snd) /\ snd.lane = "up"
  /\ \/ lanes[snd.k].failed /\ UNCHANGED budget
     \/ /\ snd.st = "sending" /\ ~is_held(snd) /\ snd.next > OffsetOf(snd.acked)
        /\ IF lanes[snd.k].dead \/ (lanes[snd.k].q = <<>> /\ toS = <<>>)
           THEN UNCHANGED budget
           ELSE Spend("stall")
  /\ LeaveLane(snd, snd.acked, TRUE)
  /\ UNCHANGED <<sender, rec, data, fate>>

wants_promotion(s) ==
  /\ s.laneFailed /\ s.st = "sending" /\ ~is_held(s) /\ s.lane = "off"
  /\ s.laneOffered /\ s.failures < MaxLaneFailures /\ s.releases < MaxLaneFailures
  /\ lane_target

\* maybe_promote: the back-off is over; the blocks in flight are waited for.
DrainForPromotion ==
  /\ up /\ Open(snd) /\ wants_promotion(snd) /\ ~snd.drain
  /\ snd' = [snd EXCEPT !.drain = TRUE]
  /\ UNCHANGED <<sender, rec, roads, fate, budget>>

\* maybe_promote: offered again at a block boundary with nothing in flight, or
\* after two seconds of waiting for that.
Promote ==
  /\ up /\ Open(snd) /\ wants_promotion(snd) /\ snd.drain
  /\ \/ /\ snd.next % BlockFrames = 0 \/ snd.next = Total
        /\ snd.next <= OffsetOf(snd.acked)
        /\ UNCHANGED budget
     \/ Spend("promote")
  /\ toR' = Append(toR, OfferOf(snd))
  /\ snd' = [Offered(snd) EXCEPT !.drain = FALSE, !.laneFailed = FALSE]
  /\ UNCHANGED <<sender, rec, data, lanes, fate>>

\* maybe_promote: what asked for the promotion is gone, the drain ends.
DrainEnds ==
  /\ up /\ Open(snd) /\ snd.drain /\ ~wants_promotion(snd)
  /\ snd' = [snd EXCEPT !.drain = FALSE]
  /\ UNCHANGED <<sender, rec, roads, fate, budget>>

-----------------------------------------------------------------------------
(* The sender's file thread: the receiver's messages.                      *)

\* Takes the next message of a kind; it is ours if it names this transfer.
Hears(t) == up /\ toS # <<>> /\ Head(toS).t = t /\ toS' = Tail(toS)
Mine == Open(snd) /\ snd.id = Head(toS).id

heard == <<src, rcv, disk, late, up, placed, broken, budget>>
Unmoved == UNCHANGED <<snd, rec, toR, data, lanes, fate>>

OnAccept ==
  /\ Hears("accept")
  /\ LET m == Head(toS)
         s == restart_from(snd, m.block, m.prefix, snd.pass)
     IN  IF Mine /\ snd.st = "offered"
         THEN /\ snd' = [s EXCEPT !.laneFailed = FALSE, !.token = m.token,
                           !.lane = IF m.token # 0 /\ snd.laneOffered THEN "pending"
                                    ELSE IF @ = "up" THEN "off" ELSE @]
              /\ \E n \in Cuts : lanes' = LaneLeft(n)
              /\ UNCHANGED <<rec, toR, data, fate>>
         ELSE Unmoved
  /\ UNCHANGED heard

\* on_block_ack: a block not (or no longer) sent is ignored.
OnBlockAck ==
  /\ Hears("ack")
  /\ LET m == Head(toS)
     IN  IF Mine /\ m.block < Len(snd.hashes)
         THEN IF snd.hashes[m.block + 1] = m.hash
              THEN /\ snd' = [snd EXCEPT !.acked = IF @ > m.block THEN @ ELSE m.block + 1,
                                         !.laneNacks = 0]
                   /\ UNCHANGED <<rec, toR, data, lanes, fate>>
              ELSE IF snd.rewinds >= MaxRewinds
              THEN EndSend("failed", Tell("error")) /\ UNCHANGED data
              ELSE /\ snd' = rewind_to([snd EXCEPT !.rewinds = @ + 1], m.block,
                                       next_pass(snd.pass))
                   /\ UNCHANGED <<rec, toR, data, lanes, fate>>
         ELSE Unmoved
  /\ UNCHANGED heard

\* on_position: the receiver's word on where it is, if it is awaited.
on_position(s, block, pass) ==
  IF s.await # pass \/ block < s.acked \/ block > Len(s.hashes) THEN s
  ELSE begin_at([s EXCEPT !.await = -1], block, pass)

\* on_block_nack: the lane ended under the receiver, or it tells its place.
OnLaneNack ==
  /\ Hears("nack") /\ Head(toS).lane
  /\ LET m == Head(toS)
     IN  IF Mine /\ m.block <= Len(snd.hashes)
         THEN /\ IF snd.lane = "up" THEN LeaveLane(snd, m.block, FALSE)
                 ELSE /\ snd' = on_position(snd, m.block, m.pass)
                      /\ UNCHANGED <<toR, lanes>>
              /\ UNCHANGED <<rec, data, fate>>
         ELSE Unmoved
  /\ UNCHANGED heard

\* on_block_nack: a damaged block; on a lane it is sent once more, and the
\* second time the lane is left.
OnBlockNack ==
  /\ Hears("nack") /\ ~Head(toS).lane
  /\ LET m == Head(toS)
         n == [snd EXCEPT !.laneNacks = @ + 1]
         s == [snd EXCEPT !.rewinds = @ + 1]
     IN  IF ~Mine THEN Unmoved
         ELSE IF snd.lane = "up" /\ m.block <= Len(snd.hashes)
         THEN /\ IF n.laneNacks >= 2
                 THEN LeaveLane([n EXCEPT !.laneNacks = 0], snd.acked, TRUE)
                 ELSE snd' = rewind_to(n, m.block, m.pass) /\ UNCHANGED <<toR, lanes>>
              /\ UNCHANGED <<rec, data, fate>>
         ELSE IF s.rewinds > MaxRewinds \/ m.block > Len(snd.hashes)
         THEN EndSend("failed", Tell("error")) /\ UNCHANGED data
         ELSE /\ snd' = rewind_to(s, m.block, m.pass)
              /\ UNCHANGED <<rec, toR, data, lanes, fate>>
  /\ UNCHANGED heard

\* on_complete: believed only while it is awaited and of the same content.
OnComplete ==
  /\ Hears("complete")
  /\ IF Mine /\ snd.st = "awaiting" /\ Head(toS).hashes = snd.hashes
     THEN EndSend("sent", <<>>) /\ UNCHANGED data
     ELSE Unmoved
  /\ UNCHANGED heard

\* on_peer_pause: hold still; a long hold lets the lane go (release_lane).
OnPause ==
  /\ Hears("pause")
  /\ LET s == [snd EXCEPT !.held = Head(toS).why]
         r == [s EXCEPT !.lane = "off", !.laneFailed = TRUE, !.releases = @ + 1]
     IN  IF ~Mine THEN Unmoved
         ELSE /\ IF s.held = "backlog" \/ s.lane = "off"
                 THEN snd' = s /\ UNCHANGED <<toR, lanes>>
                 ELSE /\ \E n \in Cuts : lanes' = LaneLeft(n)
                      /\ IF snd.lane = "up" /\ snd.st # "awaiting"
                         THEN /\ snd' = fall_back(r, snd.acked, TRUE)
                              /\ toR' = toR \o fall_back_message(s, snd.acked)
                         ELSE snd' = r /\ UNCHANGED toR
              /\ UNCHANGED <<rec, data, fate>>
  /\ UNCHANGED heard

\* on_peer_resume: with a restart point the sender goes back to it.
OnResume ==
  /\ Hears("resume")
  /\ LET m == Head(toS)
         s == [snd EXCEPT !.held = "no"]
     IN  IF ~Mine THEN Unmoved
         ELSE /\ snd' = IF m.plain THEN s ELSE restart_from(s, m.block, m.prefix, m.pass)
              /\ UNCHANGED <<rec, toR, data, lanes, fate>>
  /\ UNCHANGED heard

\* Mutant: the answer is dropped and the offer stands.
OnBusyDropped == Hears("busy") /\ Unmoved /\ UNCHANGED heard

\* on_error "busy": not an end, the file is queued and offered again.
OnBusy ==
  /\ Hears("busy")
  /\ IF Mine
     THEN /\ \E n \in Cuts : lanes' = LaneLeft(n)
          /\ snd' = [snd EXCEPT !.st = "queued", !.offered = FALSE, !.lane = "off"]
          /\ UNCHANGED <<rec, toR, data, fate>>
     ELSE Unmoved
  /\ UNCHANGED heard

\* on_cancel and on_error: the receiver ended it, nothing is sent back.
OnEnded ==
  /\ Hears("error") \/ Hears("cancel")
  /\ IF Mine THEN EndSend("failed", <<>>) /\ UNCHANGED data ELSE Unmoved
  /\ UNCHANGED heard

\* cancel: the person ends the send.
CancelSend ==
  /\ up /\ Open(snd) /\ Spend("cancel")
  /\ EndSend("cancelled", Tell("cancel"))
  /\ UNCHANGED <<sender, data>>

-----------------------------------------------------------------------------
(* The receiver's file thread.  While a transfer is open its partial file  *)
(* is rcv.part and disk holds its checkpoint only.                         *)

receiver == <<src, snd, rec, up, fate, late>>
Ours(id) == Open(rcv) /\ rcv.id = id

\* Mutant: the count is recorded and the partial file is not synced.
SavedUnsynced(r) == [r EXCEPT !.ck = verified(r)]

\* checkpoint_now: the partial file is synced, then the count is recorded.
Saved(r) == [r EXCEPT !.ck = verified(r), !.synced = Len(r.part)]
SaveReceive(r) == disk' = [disk EXCEPT ![r.id] = Kept(<<>>, r.hashes)]

\* end_incoming, drop_transfer: the partial file and the checkpoint go.
EndReceive(message) ==
  /\ rcv' = None
  /\ disk' = [disk EXCEPT ![rcv.id] = None]
  /\ toS' = toS \o message

Reply(t) == <<[t |-> t, id |-> rcv.id]>>

\* on_offer: an open transfer answers with where it is; a new one begins, or
\* is told to wait when two files are already arriving, or is refused.
OnOffer ==
  /\ up /\ toR # <<>> /\ Head(toR).t = "offer" /\ toR' = Tail(toR)
  /\ LET m == Head(toR)
         again == [restart_at(rcv, verified(rcv), rcv.pass) EXCEPT
                     !.adoptAny = TRUE, !.oldStream = TRUE, !.paused = "no"]
         r == accepting(IF Ours(m.id) THEN again ELSE NewIncoming(m.id),
                        m.lane /\ lane_target)
     IN  \/ /\ rcv' = r
            /\ toS' = Append(toS, accept_message(r))
            /\ IF Ours(m.id) THEN UNCHANGED disk ELSE SaveReceive(r)
            /\ UNCHANGED budget
         \/ /\ ~Ours(m.id)
            /\ \/ Spend("busy") /\ toS' = Append(toS, [t |-> "busy", id |-> m.id])
               \/ Spend("refuse") /\ toS' = Append(toS, [t |-> "error", id |-> m.id])
            /\ UNCHANGED <<rcv, disk>>
  /\ UNCHANGED <<receiver, data, lanes, placed, broken>>

\* finish_block: compare, acknowledge or refuse.
FinishBlock(r, f) ==
  LET nacked == restart_at([r EXCEPT !.rewinds = @ + 1], verified(r), next_pass(r.pass))
  IN  IF f.hash = r.cur
      THEN /\ rcv' = [r EXCEPT !.hashes = Append(@, r.cur), !.cur = <<>>]
           /\ toS' = Append(toS, [t |-> "ack", id |-> r.id, block |-> BlockOf(f.off),
                                  hash |-> r.cur])
           /\ UNCHANGED disk
      ELSE IF r.rewinds >= MaxRewinds THEN EndReceive(Reply("error"))
      ELSE /\ rcv' = nacked
           /\ toS' = Append(toS, [t |-> "nack", id |-> r.id, block |-> BlockOf(f.off),
                                  pass |-> nacked.pass, lane |-> FALSE])
           /\ UNCHANGED disk

\* pause_for_storage: what is verified stays, the sender is asked to wait.
PauseForStorage(r) ==
  LET p == Saved([r EXCEPT !.part = Prefix(@, OffsetOf(verified(r))), !.cur = <<>>,
                           !.paused = "storage"])
  IN  /\ rcv' = p
      /\ SaveReceive(p)
      /\ toS' = Append(toS, [t |-> "pause", id |-> r.id, why |-> "storage"])

\* on_frame: one frame of a road that has reached the file thread.  A full disk
\* pauses the transfer, any other write error ends it.
OnFrame(f) ==
  LET r == listening(rcv, f)
      w == written(r, f)
  IN  IF ~Ours(f.id) \/ ignored(rcv, f)
      THEN UNCHANGED <<rcv, toS, disk, broken, budget>>
      ELSE IF f.off < rnext(r)
      THEN rcv' = r /\ UNCHANGED <<toS, disk, broken, budget>>
      ELSE IF f.off > rnext(r)
      THEN EndReceive(Reply("error")) /\ broken' = TRUE /\ UNCHANGED budget
      ELSE \/ /\ IF f.last THEN FinishBlock(w, f)
                 ELSE rcv' = w /\ UNCHANGED <<toS, disk>>
              /\ UNCHANGED <<broken, budget>>
           \/ /\ Spend("storage")
              /\ PauseForStorage(r)
              /\ UNCHANGED broken
           \/ /\ Spend("write")
              /\ EndReceive(Reply("error"))
              /\ UNCHANGED broken

\* A frame of the data channel.
DataFrame ==
  /\ up /\ data # <<>> /\ data' = Tail(data)
  /\ OnFrame(Head(data))
  /\ UNCHANGED <<receiver, toR, lanes, placed>>

LaneHead(k, t) ==
  /\ up /\ lanes[k].q # <<>> /\ Head(lanes[k].q).t = t
  /\ lanes' = [lanes EXCEPT ![k].q = Tail(@)]

\* read_lane_frames: a frame of a lane, into the same queue.
LaneFrame(k) ==
  /\ LaneHead(k, "frame")
  /\ OnFrame(Head(lanes[k].q))
  /\ UNCHANGED <<receiver, toR, data, placed>>

\* file_lane::serve and lane_check: a dial is answered.  The token is spent by
\* the look at it, and nothing of the transfer changes.
AnswerLane(k) ==
  /\ up /\ lanes[k].st = "dial"
  /\ LET d == lanes[k]
         known == Ours(d.id) /\ rcv.grant = d.token /\ ~rcv.spent
         good == /\ known /\ rcv.laneWanted
                 /\ d.start <= verified(rcv)
                 /\ rcv.adoptAny \/ d.pass \in {rcv.pass, next_pass(rcv.pass)}
         notices == <<[t |-> "open"]>> \o IF d.dead THEN <<lost>> ELSE <<>>
     IN  /\ rcv' = IF known THEN [rcv EXCEPT !.spent = TRUE] ELSE rcv
         /\ lanes' = [lanes EXCEPT ![k].st = IF good THEN "open" ELSE "refused",
                                   ![k].q = IF good THEN notices ELSE <<>>]
  /\ UNCHANGED <<receiver, disk, toR, toS, data, placed, broken, budget>>

\* lane_opened: from here the transfer is on the lane.
LaneOpened(k) ==
  /\ LaneHead(k, "open")
  /\ rcv' = IF Ours(lanes[k].id)
            THEN [restart_at(rcv, lanes[k].start, lanes[k].pass) EXCEPT !.onLane = k]
            ELSE rcv
  /\ UNCHANGED <<receiver, disk, toR, toS, data, placed, broken, budget>>

\* lane_lost: only the lane the transfer is on can end it; the sender is told.
LaneLost(k) ==
  /\ LaneHead(k, "lost")
  /\ IF Ours(lanes[k].id) /\ rcv.onLane = k
     THEN /\ rcv' = [rcv EXCEPT !.onLane = 0]
          /\ toS' = Append(toS, [t |-> "nack", id |-> rcv.id, block |-> verified(rcv),
                                 pass |-> rcv.pass, lane |-> TRUE])
     ELSE UNCHANGED <<rcv, toS>>
  /\ UNCHANGED <<receiver, disk, toR, data, placed, broken, budget>>

\* on_lane_switch: the sender carries on over the data channel; what was
\* verified stays, and the sender is told where that ends.
OnLaneSwitch ==
  /\ up /\ toR # <<>> /\ Head(toR).t = "lane" /\ toR' = Tail(toR)
  /\ LET m == Head(toR)
     IN  IF Ours(m.id) /\ m.start <= verified(rcv)
         THEN /\ rcv' = [restart_at(rcv, verified(rcv), m.pass) EXCEPT !.onLane = 0]
              /\ toS' = IF m.start < verified(rcv)
                        THEN Append(toS, [t |-> "nack", id |-> rcv.id, pass |-> m.pass,
                                          block |-> verified(rcv), lane |-> TRUE])
                        ELSE toS
         ELSE UNCHANGED <<rcv, toS>>
  /\ UNCHANGED <<receiver, disk, data, lanes, placed, broken, budget>>

\* finish_incoming: place the file and say so, or keep it for another offer.
FinishIncoming ==
  \/ /\ placed' = Append(placed, rcv.part)
     /\ EndReceive(<<[t |-> "complete", id |-> rcv.id, hashes |-> rcv.hashes]>>)
     /\ UNCHANGED budget
  \/ /\ Spend("place")
     /\ rcv' = None
     /\ disk' = [disk EXCEPT ![rcv.id] = Kept(rcv.part, rcv.hashes)]
     /\ toS' = toS \o Reply("error")
     /\ UNCHANGED placed

\* on_done: the whole file from the block hashes; a disagreement sends it once
\* more, then it is a failure.
OnDone ==
  /\ up /\ toR # <<>> /\ Head(toR).t = "done" /\ toR' = Tail(toR)
  /\ LET m == Head(toR)
         r == [restart_at(rcv, 0, next_pass(rcv.pass)) EXCEPT !.resent = TRUE]
     IN  IF ~Ours(m.id) THEN UNCHANGED <<rcv, disk, toS, placed, budget>>
         ELSE IF verified(rcv) = Blocks /\ m.hashes = rcv.hashes THEN FinishIncoming
         ELSE IF verified(rcv) # Blocks \/ rcv.resent
         THEN EndReceive(Reply("error")) /\ UNCHANGED <<placed, budget>>
         ELSE /\ rcv' = r
              /\ toS' = Append(toS, resume_message(r))
              /\ UNCHANGED <<disk, placed, budget>>
  /\ UNCHANGED <<receiver, data, lanes, broken>>

\* on_cancel and on_error: the sender ended it.
OnSenderEnded ==
  /\ up /\ toR # <<>> /\ Head(toR).t \in {"cancel", "error"} /\ toR' = Tail(toR)
  /\ IF Ours(Head(toR).id) THEN EndReceive(<<>>) ELSE UNCHANGED <<rcv, disk, toS>>
  /\ UNCHANGED <<receiver, data, lanes, placed, broken, budget>>

\* cancel: the person ends it on the receiving side.
CancelReceive ==
  /\ up /\ Open(rcv) /\ Spend("cancel")
  /\ EndReceive(Reply("cancel"))
  /\ UNCHANGED <<receiver, toR, data, lanes, placed, broken>>

Restart(r) == rcv' = restarted(r) /\ toS' = Append(toS, resume_message(restarted(r)))

\* apply_backlog: the queue of unhandled frames, of all transfers, is long.
Backlog ==
  /\ up /\ Open(rcv) /\ rcv.paused = "no" /\ Spend("backlog")
  /\ rcv' = [rcv EXCEPT !.paused = "backlog"]
  /\ toS' = Append(toS, [t |-> "pause", id |-> rcv.id, why |-> "backlog"])
  /\ UNCHANGED <<receiver, disk, toR, data, lanes, placed, broken>>

\* apply_backlog, retry_after_storage_full: the queue drained, the disk has room.
Unpause ==
  /\ up /\ Open(rcv) /\ rcv.paused # "no"
  /\ Restart(rcv)
  /\ UNCHANGED <<receiver, disk, toR, data, lanes, placed, broken, budget>>

\* restart_after_overflow: frames arrived faster than they were handled, some
\* (of this or another transfer) were dropped, and every receiver restarts.
Overflow ==
  /\ up /\ Open(rcv) /\ Spend("overflow")
  /\ \E n \in 0..Len(data) : \E m \in n..Len(data) :
       data' = Prefix(data, n) \o SubSeq(data, m + 1, Len(data))
  /\ IF rcv.paused = "storage" THEN UNCHANGED <<rcv, toS>> ELSE Restart(rcv)
  /\ UNCHANGED <<receiver, disk, toR, lanes, placed, broken>>

\* watch_for_stalls: no byte for a long while; only the end of it is a message
\* that changes something at the sender.
StallBegins ==
  /\ up /\ Open(rcv) /\ ~rcv.stalled /\ Spend("quiet")
  /\ rcv' = [rcv EXCEPT !.stalled = TRUE]
  /\ UNCHANGED <<receiver, disk, roads, placed, broken>>

StallEnds ==
  /\ up /\ Open(rcv) /\ rcv.stalled
  /\ rcv' = [rcv EXCEPT !.stalled = FALSE]
  /\ toS' = Append(toS, [t |-> "resume", id |-> rcv.id, plain |-> TRUE])
  /\ UNCHANGED <<receiver, disk, toR, data, lanes, placed, broken, budget>>

\* checkpoint_due.
Checkpoint ==
  /\ Open(rcv) /\ verified(rcv) > rcv.ck
  /\ rcv' = Saved(rcv)
  /\ SaveReceive(rcv)
  /\ UNCHANGED <<receiver, roads, placed, broken, budget>>

-----------------------------------------------------------------------------
(* What happens outside the two file threads.                              *)

\* A frame is damaged on its road.
Damage ==
  /\ Spend("damage")
  /\ \/ \E i \in DOMAIN data : data' = [data EXCEPT ![i].pay = Damaged] /\ UNCHANGED lanes
     \/ \E k \in 1..Lanes : \E i \in DOMAIN lanes[k].q :
          /\ lanes[k].q[i].t = "frame"
          /\ lanes' = [lanes EXCEPT ![k].q[i].pay = Damaged]
          /\ UNCHANGED data
  /\ UNCHANGED <<src, snd, disks, rcv, up, toR, toS, placed, fate, broken>>

\* The lane's connection breaks; its sender learns when it writes or waits.
BreakLane(k) ==
  /\ lanes[k].st = "open" /\ ~lanes[k].dead /\ Spend("break")
  /\ \E n \in CutPoints(lanes[k]) : lanes' = [lanes EXCEPT ![k] = Closed(@, n)]
  /\ UNCHANGED <<src, snd, disks, rcv, up, toR, toS, data, placed, fate, broken>>

\* The person edits or removes the file being sent.
ChangeSource ==
  /\ src # Gone
  /\ \/ src' = src + 1 /\ Spend("change")
     \/ src' = Gone /\ Spend("gone")
  /\ UNCHANGED <<snd, disks, rcv, up, roads, placed, fate, broken>>

Detached ==
  /\ up /\ up' = FALSE
  /\ snd' = None /\ rcv' = None
  /\ toR' = <<>> /\ toS' = <<>> /\ data' = <<>>
  /\ lanes' = [k \in 1..Lanes |-> NoLane]
  /\ UNCHANGED <<src, rec, placed, fate, broken>>

\* The link is lost (or the sender restarts): both engines end.  The receiver
\* checkpoints, at once or when its thread has come that far (checkpoint_all).
LoseLink ==
  /\ Detached /\ Spend("cut")
  /\ IF ~Open(rcv) THEN UNCHANGED <<disk, late>>
     ELSE \/ disk' = [disk EXCEPT ![rcv.id] = Kept(rcv.part, rcv.hashes)] /\ UNCHANGED late
          \/ /\ disk' = [disk EXCEPT ![rcv.id].part = rcv.part]
             /\ late' = [st |-> "late", id |-> rcv.id, hashes |-> rcv.hashes]

\* The old engine's last checkpoint, perhaps when the next one already runs.
LateCheckpoint ==
  /\ late # None /\ late' = None
  /\ disk' = [disk EXCEPT ![late.id] =
                Kept(IF @ = None THEN <<>> ELSE @.part, late.hashes)]
  /\ UNCHANGED <<src, snd, rec, rcv, up, roads, placed, fate, broken, budget>>

\* The receiver dies; if the power went with it, what was written since the
\* last sync may be there in length only.
CrashReceiver ==
  /\ Detached /\ Spend("crash")
  /\ late' = None
  /\ IF ~Open(rcv) THEN UNCHANGED disk
     ELSE \E pay \in {[i \in DOMAIN rcv.part |-> rcv.part[i]],
                      [i \in DOMAIN rcv.part |->
                         IF i <= rcv.synced THEN rcv.part[i] ELSE Damaged]} :
            disk' = [disk EXCEPT ![rcv.id].part = pay]

\* attach and resume_sends: an interrupted send whose source is the offered
\* file is offered again, under the same id.
Reconnect ==
  /\ ~up /\ up' = TRUE
  /\ IF rec # None /\ src = rec.version
     THEN snd' = NewOutgoing(rec.id, rec.version) /\ UNCHANGED <<rec, fate>>
     ELSE /\ rec' = None /\ UNCHANGED snd
          /\ fate' = IF rec = None THEN fate ELSE [fate EXCEPT !.how = "failed"]
  /\ UNCHANGED <<src, disk, late, rcv, roads, placed, broken, budget>>

-----------------------------------------------------------------------------
\* The send is over; what is left of it drains away.
Ended == fate.how # "open" /\ UNCHANGED vars

SenderRound ==
  \/ PromoteQueued \/ VerifyPrefix \/ FinishAcknowledged \/ SendFrame \/ FindTrouble
SenderLane ==
  \/ AwaitLapses \/ DialLane \/ NoLaneTarget \/ LaneUp \/ DialFails \/ LaneFails
Promotion == DrainForPromotion \/ Promote \/ DrainEnds
SenderHears ==
  \/ OnAccept \/ OnBlockAck \/ OnLaneNack \/ OnBlockNack \/ OnComplete \/ OnPause
  \/ OnResume \/ OnBusy \/ OnEnded
ReceiverHears == OnOffer \/ OnLaneSwitch \/ OnDone \/ OnSenderEnded
FromLane(k) == LaneFrame(k) \/ AnswerLane(k) \/ LaneOpened(k) \/ LaneLost(k)
Outside ==
  \/ FrameNotSent \/ RefreshToken \/ CancelSend \/ CancelReceive \/ Backlog \/ Overflow
  \/ StallBegins \/ Damage \/ ChangeSource \/ LoseLink \/ CrashReceiver
  \/ \E k \in 1..Lanes : BreakLane(k)

Next ==
  \/ SenderRound \/ SenderLane \/ Promotion \/ SenderHears
  \/ ReceiverHears \/ DataFrame \/ \E k \in 1..Lanes : FromLane(k)
  \/ Unpause \/ StallEnds \/ Checkpoint \/ LateCheckpoint
  \/ Outside \/ Reconnect \/ Ended

Spec == Init /\ [][Next]_vars

\* The file threads run, what was sent on a working link arrives, timers fire,
\* a full disk gets room again and a lost link comes back.
FairSpec ==
  /\ Spec
  /\ WF_vars(SenderRound) /\ WF_vars(SenderLane) /\ WF_vars(Promotion)
  /\ WF_vars(SenderHears) /\ WF_vars(ReceiverHears) /\ WF_vars(DataFrame)
  /\ \A k \in 1..Lanes : WF_vars(FromLane(k))
  /\ WF_vars(Unpause) /\ WF_vars(StallEnds) /\ WF_vars(Reconnect)

-----------------------------------------------------------------------------
(* Properties.                                                             *)

\* Every field in its range: the sender's place inside the file and inside
\* its window of unacknowledged frames, its counters within their limits, and
\* the receiver's verified blocks and checkpoint within what it has written.
TypeOK ==
  /\ snd.st \in {"none", "queued", "offered", "verifying", "sending", "awaiting"}
  /\ Open(snd) => /\ snd.id \in Ids /\ snd.pass \in 0..255
                  /\ snd.acked \in 0..Len(snd.hashes)
                  /\ snd.next \in OffsetOf(Len(snd.hashes))..Total
                  /\ snd.next - OffsetOf(snd.acked) <= Window
                  /\ snd.lane \in {"off", "pending", "dialing", "up"}
                  /\ snd.held \in {"no", "backlog", "storage"}
                  /\ snd.rewinds \in 0..MaxRewinds
                  /\ snd.failures \in 0..MaxLaneFailures /\ snd.refreshes \in 0..2
  /\ Open(rcv) => /\ rcv.id \in Ids /\ rcv.pass \in 0..255
                  /\ rcv.part \in Seq(Int)
                  /\ rcv.synced \in 0..Len(rcv.part)
                  /\ rcv.ck \in 0..verified(rcv)
                  /\ OffsetOf(verified(rcv)) + Len(rcv.cur) = Len(rcv.part)
                  /\ rcv.onLane \in 0..Lanes
  /\ fate.how \in {"open", "sent", "failed", "cancelled"}
  /\ DOMAIN disk = Ids
  /\ up \in BOOLEAN /\ broken \in BOOLEAN

\* Blocks vouched for are in the partial file as they were hashed.
Vouched(hashes, part) ==
  \A b \in 1..Len(hashes) :
    OffsetOf(b) <= Len(part) => SubSeq(part, OffsetOf(b - 1) + 1, OffsetOf(b)) = hashes[b]

\* What the receiver counts as verified, in memory and in the checkpoint a
\* later engine starts from, is in the partial file with exactly the content
\* that was hashed: through damaged frames, a full disk, an end of the engine
\* and a crash that keeps only what was synced.
CheckpointHonest ==
  /\ Open(rcv) => Vouched(rcv.hashes, rcv.part)
  /\ \A id \in Ids : disk[id] # None /\ ~Ours(id) => Vouched(disk[id].hashes, disk[id].part)

Quiet ==
  up /\ toR = <<>> /\ toS = <<>> /\ data = <<>> /\ \A k \in 1..Lanes : lanes[k].q = <<>>

\* Once a send is over and everything sent has arrived, the receiver holds no
\* transfer open for it: no slot of the two, no partial file being written.
\* A repeated offer, which only a lane asks for, can cross the end.
NoneLeftOpen == Quiet /\ fate.how # "open" => rcv = None \/ rcv.laneWanted

LaneUsed == \E k \in 1..Lanes : lanes[k].st # "none"

\* Over the data channel alone the receiver never meets a frame past the end of
\* its partial file: every restart, of either side, is adopted or ignored and
\* none is taken for a broken stream.
OrderKept == [][broken' => broken \/ LaneUsed]_vars

Whole(version) == [i \in 1..Total |-> version]

\* A published file as the person sees it: the version it is a copy of.
CopyOf(file) == IF file # <<>> /\ file = Whole(file[1]) THEN file[1] ELSE Damaged

Delivery == INSTANCE FileDelivery WITH
  version <- fate.version,
  outcome <- fate.how,
  copies <- [i \in DOMAIN placed |-> CopyOf(placed[i])]

\* The two engines, their stores and all the roads between them implement the
\* delivery of a file: only whole copies are published, of the versions the
\* sender vouched for and never an older one after a newer; "sent" is said only
\* of a version that was published last, and after it nothing is published.
Delivers == Delivery!Spec

\* The ways a transfer can be left waiting: the receiver's "complete" finds a
\* sender that it has itself sent back, or its restart overtakes the accept.
Crossed ==
  /\ Open(snd)
  /\ \E i \in DOMAIN toS :
       \/ toS[i].t = "complete" /\ snd.st # "awaiting"
       \/ toS[i].t = "resume" /\ ~toS[i].plain /\ snd.st = "offered"

LeftALane == Open(snd) /\ snd.failures + snd.releases > 0

\* Every send ends, sent, failed or cancelled, through lost links, crashes,
\* damaged frames, a full disk, a changing source and a silent peer, unless a
\* restart the receiver asks for crosses the sender's "done" or a lane is left.
TransferEnds == <>(fate.how # "open" \/ Crossed \/ LeftALane)

\* Every send ends, with no exception: "a backlog or a silent peer pause the
\* transfer, and it goes on by itself".
GoesOnByItself == <>(fate.how # "open")

=============================================================================
