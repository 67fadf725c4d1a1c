---------------------------- MODULE NotesSync ----------------------------
(***************************************************************************)
(* The shared notes of src/device_links/notes.rs: every device keeps a     *)
(* shelf of notes, edits it while away from the others, and the desk and   *)
(* each phone bring their shelves together over an ordered link that can   *)
(* drop at any moment.  The phone runs the same merge (it is written to    *)
(* resolve every case "alike"), so every device is an instance of the same *)
(* shelf; a phone knows the desk only, the desk knows every phone.         *)
(*                                                                         *)
(* A note's text is a number, 0 when it is deleted.  Nobody types a title: *)
(* a note has none (0), a conflicted copy the label of the version it was  *)
(* made of, which it keeps when its text is edited.  (A tombstone's title  *)
(* is cleared in the code; whoever types over a tombstone has the title    *)
(* still in the editor, so it is kept here.)  An id is a sequence: <<n>>   *)
(* for a note, and for the copy of version m of note id the id followed by *)
(* m.  Pins, snippets, size limits, the rate limit and the dropping of     *)
(* tombstones after 90 days are left out.  A packet may be taken before a  *)
(* job that waits: the code queues both for one thread.                    *)
(*                                                                         *)
(* Two threads of a device use its shelf: the window's, where a person     *)
(* types, and the worker's.  Each holds the store's lock for one step; a   *)
(* push is a second hold, which sends what the shelf says by then.         *)
(***************************************************************************)
EXTENDS Naturals, Sequences, FiniteSets, SequencesExt, TLC

CONSTANTS Desk,          \* the computer
          Phones,        \* its phones
          Shared,        \* the text of a note every device holds from the start
          MaxAncestors,  \* earlier versions a note names
          MaxPeers,      \* devices remembered per note
          Plans,         \* bound: who is there, from what start, and how much each does
          MaxTidied,     \* bound: copies a device clears away beyond what its plan writes
          Gap            \* bound: how far past the note's last version each clock is

VARIABLES shelf,     \* what each device keeps
          editor,    \* the version its editor was loaded with
          link,      \* the phones connected
          wire,      \* packets on their way, from each device to each other
          due,       \* what each thread of a device has still to push or to relay
          later,     \* jobs waiting for each device's worker thread
          plan,      \* the plan of this behaviour
          connects,  \* connections made again so far
          made,      \* history: every version ever made
          replaced,  \* history: versions a person who saw them wrote over or deleted
          wiped,     \* history: versions deleted by a person who saw an older one
          dropped,   \* history: losers whose copy was here already and says something else
          fresh      \* history: nothing was deleted since the phone connected

notesVars == <<shelf, editor, link, wire, due, later, plan, connects, made, replaced, wiped, dropped, fresh>>

Devices == {Desk} \union Phones
NotLoaded == [id |-> <<>>, v |-> 0]

Present == {Desk} \union plan.phones
Peers(r) == IF r = Desk THEN link ELSE IF r \in link THEN {Desk} ELSE {}

(***************************************************************************)
(* Shelves.                                                                *)
(***************************************************************************)
None == <<>>
Get(f, k, default) == IF k \in DOMAIN f THEN f[k] ELSE default
Put(f, k, v) == (k :> v) @@ f

MinOf(S) == CHOOSE m \in S : \A n \in S : m <= n
Position(chain, m) == MinOf({i \in 1 .. Len(chain) : chain[i] = m} \union {Len(chain) + 1})

EmptyShelf == [notes |-> None, synced |-> None, held |-> None, sent |-> None]

\* What a device remembers of the others, for a note: at most MaxPeers of them.
RecordPeer(marks, id, peer, v) ==
    LET peers == Put(Get(marks, id, None), peer, v)
        oldest == CHOOSE p \in DOMAIN peers : \A q \in DOMAIN peers : peers[p] <= peers[q]
    IN Put(marks, id, IF Cardinality(DOMAIN peers) <= MaxPeers THEN peers
                      ELSE [p \in DOMAIN peers \ {oldest} |-> peers[p]])

RecordHeld(s, id, peer, v) == [s EXCEPT !.held = RecordPeer(s.held, id, peer, v)]
RecordSent(s, id, peer, v) == [s EXCEPT !.sent = RecordPeer(s.sent, id, peer, v)]

Marks(marks, id) == LET peers == Get(marks, id, None) IN {peers[p] : p \in DOMAIN peers}

BaseOf(s, id) == IF Marks(s.held, id) # {} THEN MinOf(Marks(s.held, id))
                 ELSE Get(s.synced, id, 0)

\* Mutant: a version that was sent and not acknowledged is nobody's.
MustKeepHeld(s, id) == Marks(s.held, id)

MustKeep(s, id) == Marks(s.held, id) \union Marks(s.sent, id)

Chain(note) == <<note.modified>> \o note.ancestors

\* The ancestors of the version made from before: all, or if there are too many
\* the ones somebody holds or was sent, then the newest others.
AncestorsAfter(before, keep) ==
    LET chain == Chain(before)
        must == SelectSeq(chain, LAMBDA m : m \in keep)
        kept == SubSeq(must, 1, IF Len(must) < MaxAncestors THEN Len(must) ELSE MaxAncestors)
        others == SelectSeq(chain, LAMBDA m : m \notin ToSet(kept))
        room == MaxAncestors - Len(kept)
        recent == SubSeq(others, 1, IF Len(others) < room THEN Len(others) ELSE room)
    IN IF Len(chain) <= MaxAncestors THEN chain
       ELSE SortSeq(kept \o recent, LAMBDA a, b : a > b)

(***************************************************************************)
(* Merging a note that came from a peer.                                   *)
(***************************************************************************)
SameContent(a, b) == a.body = b.body
Deleted(note) == note.body = 0
CopyId(note) == Append(note.id, note.modified)
Label(note) == IF note.title = 0 THEN note.body ELSE note.title
CopyOf(note) == [note EXCEPT !.id = CopyId(note), !.title = Label(note), !.parent = note.modified]

Keep(s, note) == [s EXCEPT !.notes = Put(s.notes, note.id, note),
                           !.synced = Put(s.synced, note.id, note.modified)]

\* Mutant: the newer of two siblings wins, a deletion too.
NewerWins(local, in) == in.modified > local.modified

\* Mutant: of two siblings that both say something, the one that arrives wins.
ArrivalWins(local, in) == Deleted(local) \/ ~Deleted(in)

\* The newer of two siblings wins, but a deletion never beats an edit.
IncomingWins(local, in) ==
    IF Deleted(local) # Deleted(in) THEN Deleted(local)
    ELSE \/ in.modified > local.modified
         \/ in.modified = local.modified /\ in.body > local.body

\* The version has a copy here that was edited or deleted since: it counts as resolved.
ResolvedAway(s, note) ==
    IF CopyId(note) \in DOMAIN s.notes /\ ~SameContent(s.notes[CopyId(note)], note) THEN {note.v} ELSE {}

\* Two versions edited from the same one: the winner keeps the id, the loser
\* becomes a copy unless that copy was made before.
MergeSiblings(s, local, in, peer) ==
    LET wins == IncomingWins(local, in)
        winner == IF wins THEN in ELSE local
        loser == IF wins THEN local ELSE in
        conflict == ~SameContent(winner, loser) /\ ~Deleted(winner) /\ ~Deleted(loser)
        fresh_copy == conflict /\ CopyId(loser) \notin DOMAIN s.notes
        withCopy == IF fresh_copy THEN Keep(s, CopyOf(loser)) ELSE s
        withHeld == IF wins THEN RecordHeld(withCopy, in.id, peer, in.modified) ELSE withCopy
    IN IF ~wins /\ ~fresh_copy THEN [shelf |-> s, did |-> "KeptOurs", dropped |-> {}]
       ELSE [shelf |-> Keep(withHeld, winner), did |-> IF fresh_copy THEN "Conflict" ELSE "Taken",
             dropped |-> IF conflict THEN ResolvedAway(s, loser) ELSE {}]

MergeNoteFrom(s, in, peer) ==
    LET take == [shelf |-> RecordHeld(Keep(s, in), in.id, peer, in.modified), did |-> "Taken", dropped |-> {}]
        local == s.notes[in.id]
    IN CASE in.id \notin DOMAIN s.notes -> take
         [] local.modified = in.modified /\ SameContent(local, in) ->
              [shelf |-> RecordHeld([s EXCEPT !.synced = Put(s.synced, in.id, in.modified)],
                                    in.id, peer, in.modified),
               did |-> "Same", dropped |-> {}]
         [] in.parent = local.modified \/ local.modified \in ToSet(in.ancestors) -> take
         [] local.parent = in.modified \/ in.modified \in ToSet(local.ancestors) ->
              [shelf |-> RecordHeld(s, in.id, peer, in.modified), did |-> "KeptOurs", dropped |-> {}]
         [] OTHER -> MergeSiblings(s, local, in, peer)

\* The peer is known to hold version m of note id, if it is one of ours and newer
\* than what it was known to hold.
Acknowledge(s, id, m, peer) ==
    LET chain == Chain(s.notes[id])
        newer(v) == Position(chain, m) < Position(chain, v)
        synced == IF newer(Get(s.synced, id, 0)) THEN [s EXCEPT !.synced = Put(s.synced, id, m)] ELSE s
    IN IF id \notin DOMAIN s.notes \/ m \notin ToSet(chain) THEN s
       ELSE IF newer(Get(Get(s.held, id, None), peer, 0)) THEN RecordHeld(synced, id, peer, m)
       ELSE synced

(***************************************************************************)
(* Copies that say what another note says.                                 *)
(***************************************************************************)
IsCopy(id) == Len(id) > 1
BaseId(id) == SubSeq(id, 1, Len(id) - 1)
IdLess(a, b) == \E i \in 1 .. Len(b) : /\ i <= Len(a) + 1
                                       /\ SubSeq(a, 1, i - 1) = SubSeq(b, 1, i - 1)
                                       /\ i <= Len(a) => a[i] < b[i]

ContentKey(note) == <<Label(note), note.body>>

Survives(s, everywhere, copy, other) ==
    /\ other # copy /\ ~Deleted(s.notes[other])
    /\ ContentKey(s.notes[copy]) = ContentKey(s.notes[other])
    /\ IF IsCopy(other) THEN IdLess(other, copy) /\ (everywhere \/ BaseId(other) = BaseId(copy))
       ELSE everywhere \/ other = BaseId(copy)

DuplicateCopies(s, everywhere) ==
    {id \in DOMAIN s.notes : /\ IsCopy(id) /\ ~Deleted(s.notes[id])
                             /\ \E other \in DOMAIN s.notes : Survives(s, everywhere, id, other)}

(***************************************************************************)
(* Making versions.  A version is an entry of made: its device, its note,  *)
(* its stamp, its text and the versions it was made from.                  *)
(***************************************************************************)
\* Two devices never stamp a note alike.
Unstamped(id, t) == \A v \in 1 .. Len(made) : <<made[v].id, made[v].modified>> # <<id, t>>

Version(r, id, modified, body, past) == [by |-> r, id |-> id, modified |-> modified, body |-> body, past |-> past]
Written(r, history) == Cardinality({v \in 1 .. Len(history) : history[v].by = r})
Lineage(v) == made[v].past \union {v}

Edited(s, before, body, modified, v) ==
    [before EXCEPT !.body = body, !.parent = BaseOf(s, before.id), !.modified = modified, !.v = v,
                   !.ancestors = AncestorsAfter(before, MustKeep(s, before.id))]

Store(s, note) == [s EXCEPT !.notes = Put(s.notes, note.id, note)]

\* What is sent for some notes: as many as there are.
ItemsOf(s, ids) == [op |-> "items", items |-> {s.notes[id] : id \in ids \intersect DOMAIN s.notes}]

SentTo(s, ids, peers) ==
    FoldSet(LAMBDA pair, acc : RecordSent(acc, pair[1], pair[2], s.notes[pair[1]].modified),
            s, (ids \intersect DOMAIN s.notes) \X peers)

\* The copies a change left without a purpose become tombstones, stamped and sent
\* like a person's deletion.  They are versions too, numbered in any order.
Tidied(r, s, everywhere, history) ==
    LET doomed == SetToSortSeq(DuplicateCopies(s, everywhere), IdLess)
        stamp(i) == s.notes[doomed[i]].modified + Gap[r]
        first == Len(history)
    IN [shelf |-> FoldLeftDomain(LAMBDA acc, i : Store(acc, Edited(acc, acc.notes[doomed[i]], 0, stamp(i), first + i)),
                                 s, doomed),
        ids |-> ToSet(doomed),
        made |-> history \o [i \in 1 .. Len(doomed) |->
                    LET before == s.notes[doomed[i]] IN
                    Version(r, doomed[i], stamp(i), 0, history[before.v].past \union {before.v})]]

\* The end of every change to a shelf, under the lock: duplicates are cleared.  Their
\* tombstones are owed to the peers before whatever else the thread has to send.
Change(r, thread, s, history, owed) ==
    LET tidy == Tidied(r, s, FALSE, history)
        tasks == IF tidy.ids = {} THEN owed ELSE <<[op |-> "push", ids |-> tidy.ids]>> \o owed
    IN /\ Written(r, tidy.made) <= plan.writes[r] + MaxTidied
       /\ \A id \in tidy.ids : Unstamped(id, tidy.shelf.notes[id].modified)
       /\ made' = tidy.made
       /\ shelf' = [shelf EXCEPT ![r] = tidy.shelf]
       /\ due' = [due EXCEPT ![r][thread] = tasks]
       /\ fresh' = IF \E v \in Len(made) + 1 .. Len(made') : made'[v].body = 0 THEN {} ELSE fresh

ToPush(ids) == <<[op |-> "push", ids |-> ids]>>
ToRelay(packet, others) == IF others = {} THEN <<>> ELSE <<[op |-> "relay", packet |-> packet, others |-> others]>>

ToEach(peers, packet) == SetToSeq({[to |-> p, packet |-> packet] : p \in peers})

MarkRelayed(s, packet, others) ==
    FoldSet(LAMBDA pair, acc : RecordSent(acc, pair[1].id, pair[2], pair[1].modified),
            s, packet.items \X others)

\* The thread comes back to the store: the notes as they are now are marked as sent to
\* the phones connected now and queued for them.
Push(r, thread) ==
    /\ due[r][thread] # <<>> /\ Head(due[r][thread]).op = "push"
    /\ LET ids == Head(due[r][thread]).ids
       IN /\ shelf' = [shelf EXCEPT ![r] = SentTo(@, ids, Peers(r))]
          /\ later' = [later EXCEPT ![r] = @ \o ToEach(Peers(r), ItemsOf(shelf[r], ids))]
    /\ due' = [due EXCEPT ![r][thread] = Tail(@)]
    /\ UNCHANGED <<editor, link, wire, plan, connects, made, replaced, wiped, dropped, fresh>>

\* A packet that changed something here goes on as it came to the other phones that
\* were connected.
Relay(r, thread) ==
    /\ due[r][thread] # <<>> /\ Head(due[r][thread]).op = "relay"
    /\ LET task == Head(due[r][thread])
       IN /\ shelf' = [shelf EXCEPT ![r] = MarkRelayed(@, task.packet, task.others)]
          /\ later' = [later EXCEPT ![r] = @ \o ToEach(task.others, task.packet)]
    /\ due' = [due EXCEPT ![r][thread] = Tail(@)]
    /\ UNCHANGED <<editor, link, wire, plan, connects, made, replaced, wiped, dropped, fresh>>

(***************************************************************************)
(* What a person does on a device.                                         *)
(***************************************************************************)
\* The window's thread is free and the plan has something left to write.
Writes(r) == due[r].window = <<>> /\ Written(r, made) < plan.writes[r]

Create(r, body) ==
    LET id == <<1 + Cardinality({v \in 1 .. Len(made) : made[v].past = {}})>>
        note == [id |-> id, title |-> 0, body |-> body, modified |-> 1, parent |-> 0, ancestors |-> <<>>,
                 v |-> Len(made) + 1]
    IN /\ Writes(r) /\ r \in Present /\ plan.creates
       /\ Change(r, "window", Store(shelf[r], note), Append(made, Version(r, id, 1, body, {})), ToPush({id}))
       /\ UNCHANGED <<editor, link, wire, later, plan, connects, replaced, wiped, dropped>>

\* The editor shows a note: what it says now is what the person types over.
Open(r, id) ==
    /\ id \in DOMAIN shelf[r].notes /\ ~Deleted(shelf[r].notes[id])
    /\ editor' = [editor EXCEPT ![r] = [id |-> id, v |-> shelf[r].notes[id].v]]
    /\ editor' # editor
    /\ UNCHANGED <<shelf, link, wire, due, later, plan, connects, made, replaced, wiped, dropped, fresh>>

\* A new version of a note, and the copies it leaves.
Write(r, before, body, copies) ==
    LET t == before.modified + Gap[r]
        new == Edited(shelf[r], before, body, t, Len(made) + 1)
        s == FoldSet(LAMBDA copy, acc : Keep(acc, copy), Store(shelf[r], new), copies)
    IN /\ body # before.body /\ Writes(r)
       /\ Unstamped(before.id, t)
       /\ Change(r, "window", s, Append(made, Version(r, before.id, t, body, Lineage(before.v))),
                 ToPush({note.id : note \in {new} \union copies}))

\* A version typed over the one that was loaded.  If another version landed
\* meanwhile, that one is kept as a copy.
SaveEdit(r, body) ==
    LET seen == editor[r].v
        before == shelf[r].notes[editor[r].id]
        overtaken == before.modified # made[seen].modified /\ ~Deleted(before)
        copied == overtaken /\ CopyId(before) \notin DOMAIN shelf[r].notes
    IN /\ editor[r] # NotLoaded
       /\ Write(r, before, body, IF copied THEN {CopyOf(before)} ELSE {})
       /\ editor' = [editor EXCEPT ![r].v = Len(made) + 1]
       /\ replaced' = replaced \union {seen}
       /\ dropped' = dropped \union (IF overtaken THEN ResolvedAway(shelf[r], before) ELSE {})
       /\ UNCHANGED <<link, wire, later, plan, connects, wiped>>

\* The editor's delete button: the note goes as it is stored, whichever version the
\* editor shows, and the editor closes.
DeleteOpen(r) ==
    LET seen == editor[r].v
        before == shelf[r].notes[editor[r].id]
    IN /\ editor[r] # NotLoaded
       /\ IF Deleted(before) THEN UNCHANGED <<shelf, due, made, replaced, wiped, fresh>>
          ELSE /\ Write(r, before, 0, {})
               /\ replaced' = replaced \union {seen}
               /\ wiped' = wiped \union ({before.v} \ {seen})
       /\ editor' = [editor EXCEPT ![r] = NotLoaded]
       /\ UNCHANGED <<link, wire, later, plan, connects, dropped>>

\* Where no editor is left open: a note opened and at once typed over or deleted
\* (body 0), so that the version stored is the one the person saw.
EditNote(r, id, body) ==
    LET before == shelf[r].notes[id]
    IN /\ ~Deleted(before) /\ r \notin plan.editors
       /\ Write(r, before, body, {})
       /\ replaced' = replaced \union {before.v}
       /\ UNCHANGED <<editor, link, wire, later, plan, connects, wiped, dropped>>

\* "Remove duplicate copies": what is said anywhere else.
RemoveDuplicateCopies(r) ==
    LET tidy == Tidied(r, shelf[r], TRUE, made)
    IN /\ tidy.ids # {} /\ due[r].window = <<>>
       /\ \A id \in tidy.ids :
             Unstamped(id, tidy.shelf.notes[id].modified)
       /\ Change(r, "window", tidy.shelf, tidy.made, ToPush(tidy.ids))
       /\ UNCHANGED <<editor, link, wire, later, plan, connects, replaced, wiped, dropped>>

(***************************************************************************)
(* What the worker thread of a device does.                                *)
(***************************************************************************)
IndexOf(s) == [op |-> "index", items |-> {[id |-> id, modified |-> s.notes[id].modified] : id \in DOMAIN s.notes}]

Sent(w, r, p, packet) == [w EXCEPT ![r][p] = Append(@, packet)]

\* The next job: a packet to a phone, which is lost if the phone is gone; or the
\* index, made now, for a connection that just came up.
RunJob(r) ==
    /\ later[r] # <<>> /\ due[r].worker = <<>>
    /\ LET job == Head(later[r])
           packet == IF job.packet.op = "snapshot" THEN IndexOf(shelf[r]) ELSE job.packet
       IN wire' = IF job.to \in Peers(r) THEN Sent(wire, r, job.to, packet) ELSE wire
    /\ later' = [later EXCEPT ![r] = Tail(@)]
    /\ UNCHANGED <<shelf, editor, link, due, plan, connects, made, replaced, wiped, dropped, fresh>>

\* What the peer lists and is not held here in that version.
Wanted(s, index) == {e.id : e \in {e \in index : e.id \in DOMAIN s.notes => s.notes[e.id].modified # e.modified}}

AcknowledgeAll(s, items, peer) == FoldSet(LAMBDA e, acc : Acknowledge(acc, e.id, e.modified, peer), s, items)

Receives(r, p, op) == due[r].worker = <<>> /\ wire[p][r] # <<>> /\ Head(wire[p][r]).op = op
Answer(r, p, packets) == wire' = [wire EXCEPT ![p][r] = Tail(@), ![r][p] = @ \o packets]

\* What the packet moved, if it moved anything.
Settle(r, s) == IF s # shelf[r] THEN Change(r, "worker", s, made, <<>>) ELSE UNCHANGED <<shelf, due, made, fresh>>

OnIndex(r, p) ==
    /\ Receives(r, p, "index")
    /\ LET index == Head(wire[p][r]).items
           s == AcknowledgeAll(shelf[r], index, p)
           ids == Wanted(s, index)
       IN /\ Settle(r, s)
          /\ Answer(r, p, IF ids = {} THEN <<>> ELSE <<[op |-> "fetch", items |-> ids]>>)
    /\ UNCHANGED <<editor, link, later, plan, connects, replaced, wiped, dropped>>

OnAck(r, p) ==
    /\ Receives(r, p, "ack")
    /\ Settle(r, AcknowledgeAll(shelf[r], Head(wire[p][r]).items, p))
    /\ Answer(r, p, <<>>)
    /\ UNCHANGED <<editor, link, later, plan, connects, replaced, wiped, dropped>>

OnFetch(r, p) ==
    /\ Receives(r, p, "fetch")
    /\ LET ids == Head(wire[p][r]).items
       IN /\ shelf' = [shelf EXCEPT ![r] = SentTo(@, ids, {p})]
          /\ Answer(r, p, <<ItemsOf(shelf[r], ids)>>)
    /\ UNCHANGED <<editor, link, due, later, plan, connects, made, replaced, wiped, dropped, fresh>>

\* Mutant: a version both sides hold is sent back.
SendsBackSame(did) == did # "Taken"

SendsBack(did) == did \in {"KeptOurs", "Conflict"}

\* Every note of the packet merged in turn; what is sent back, and what is held now.
MergeAll(r, p, items) ==
    LET merge(acc, note) ==
            LET m == MergeNoteFrom(acc.shelf, note, p)
            IN [shelf |-> m.shelf, changed |-> acc.changed \/ m.did \in {"Taken", "Conflict"},
                dropped |-> acc.dropped \union m.dropped,
                back |-> acc.back \union (IF SendsBack(m.did) THEN {note.id} ELSE {}),
                held |-> acc.held \union (IF m.did \in {"Same", "Taken"}
                                          THEN {[id |-> note.id, modified |-> note.modified]} ELSE {})]
    IN FoldLeft(merge, [shelf |-> shelf[r], changed |-> FALSE, dropped |-> {}, back |-> {}, held |-> {}],
                SetToSortSeq(items, LAMBDA a, b : IdLess(a.id, b.id)))

\* Notes from a peer.  What they change here is relayed to the other phones.
OnItems(r, p) ==
    /\ Receives(r, p, "items")
    /\ LET packet == Head(wire[p][r])
           all == MergeAll(r, p, packet.items)
           s == SentTo(all.shelf, all.back, {p})
       IN /\ IF all.changed THEN Change(r, "worker", s, made, ToRelay(packet, Peers(r) \ {p}))
             ELSE shelf' = [shelf EXCEPT ![r] = s] /\ UNCHANGED <<due, made, fresh>>
          /\ dropped' = dropped \union all.dropped
          /\ Answer(r, p, (IF all.back = {} THEN <<>> ELSE <<ItemsOf(all.shelf, all.back)>>)
                          \o (IF all.held = {} THEN <<>> ELSE <<[op |-> "ack", items |-> all.held]>>))
    /\ UNCHANGED <<editor, link, later, plan, connects, replaced, wiped>>

(***************************************************************************)
(* The link.                                                               *)
(***************************************************************************)
Snapshot(p) == [to |-> p, packet |-> [op |-> "snapshot"]]

Connect(p) ==
    /\ p \notin link /\ p \in plan.phones /\ connects < plan.connects
    /\ connects' = connects + 1
    /\ link' = link \union {p}
    /\ later' = [later EXCEPT ![Desk] = Append(@, Snapshot(p)), ![p] = Append(@, Snapshot(Desk))]
    /\ UNCHANGED <<shelf, editor, wire, due, plan, made, replaced, wiped, dropped>>
    /\ fresh' = fresh \union {p}

\* What was on its way is lost, and a snapshot still to be sent is for a connection
\* that ended.
Disconnect(p) ==
    /\ p \in link /\ plan.drops
    /\ link' = link \ {p}
    /\ wire' = [wire EXCEPT ![Desk][p] = <<>>, ![p][Desk] = <<>>]
    /\ later' = [later EXCEPT ![Desk] = SelectSeq(@, LAMBDA job : job # Snapshot(p)),
                              ![p] = SelectSeq(@, LAMBDA job : job # Snapshot(Desk))]
    /\ UNCHANGED <<shelf, editor, due, plan, connects, made, replaced, wiped, dropped>>
    /\ fresh' = fresh \ {p}

\* A shelf with one note that every device holds.
SharedShelf(r) ==
    LET note == [id |-> <<1>>, title |-> 0, body |-> Shared, modified |-> 1, parent |-> 0, ancestors |-> <<>>, v |-> 1]
        peers == IF r = Desk THEN plan.phones ELSE {Desk}
    IN FoldSet(LAMBDA p, s : RecordHeld(s, <<1>>, p, 1), Keep(EmptyShelf, note), peers)

\* A phone is unpaired: what was remembered of it goes, the notes stay.
ForgetPeer(p) ==
    LET without(marks) == LET left(id) == [q \in DOMAIN marks[id] \ {p} |-> marks[id][q]]
                          IN [id \in {id \in DOMAIN marks : left(id) # None} |-> left(id)]
    IN /\ plan.unpairs /\ p \notin link
       /\ shelf' = [shelf EXCEPT ![Desk].held = without(@), ![Desk].sent = without(@)]
       /\ shelf' # shelf
       /\ UNCHANGED <<editor, link, wire, due, later, plan, connects, made, replaced, wiped, dropped, fresh>>

\* The devices are in agreement: they hold nothing, or one note.
Init ==
    /\ plan \in Plans
    /\ shelf = [r \in Devices |-> IF plan.shared /\ r \in Present THEN SharedShelf(r) ELSE EmptyShelf]
    /\ made = IF plan.shared THEN <<Version(None, <<1>>, 1, Shared, {})>> ELSE <<>>
    /\ editor = [r \in Devices |-> NotLoaded]
    /\ link = plan.linked
    /\ wire = [r \in Devices |-> [p \in Devices |-> <<>>]]
    /\ due = [r \in Devices |-> [window |-> <<>>, worker |-> <<>>]]
    /\ later = [r \in Devices |-> <<>>]
    /\ connects = 0
    /\ replaced = {} /\ wiped = {} /\ dropped = {}
    /\ fresh = plan.linked

Next ==
    \/ \E r \in Devices : \E body \in plan.texts[r] : Create(r, body)
    \/ \E r \in plan.editors : \E id \in DOMAIN shelf[r].notes : Open(r, id)
    \/ \E r \in plan.editors : \E body \in plan.texts[r] : SaveEdit(r, body)
    \/ \E r \in plan.editors : DeleteOpen(r)
    \/ \E r \in Devices : \E id \in DOMAIN shelf[r].notes, body \in plan.texts[r] \union {0} :
          EditNote(r, id, body)
    \/ \E r \in Devices : RemoveDuplicateCopies(r)
    \/ \E r \in Devices : RunJob(r)
    \/ \E r \in Devices, thread \in {"window", "worker"} : Push(r, thread) \/ Relay(r, thread)
    \/ \E p, r \in Devices : OnIndex(r, p) \/ OnAck(r, p) \/ OnFetch(r, p) \/ OnItems(r, p)
    \/ \E p \in Phones : Connect(p) \/ Disconnect(p) \/ ForgetPeer(p)

Spec == Init /\ [][Next]_notesVars

(***************************************************************************)
(* Properties.                                                             *)
(***************************************************************************)
\* The shelf stays well formed: a note is kept under its id, names at most
\* MAX_ANCESTORS earlier versions, newest first, all older than itself, and at
\* most MAX_PEERS_PER_NOTE phones are remembered for it.
TypeOK ==
    /\ plan \in Plans /\ link \subseteq plan.phones /\ fresh \subseteq link
    /\ connects \in 0 .. plan.connects
    /\ replaced \subseteq 1 .. Len(made)
    /\ \A r \in Devices : editor[r] = NotLoaded \/ editor[r].v \in 1 .. Len(made)
    /\ \A r \in Devices : \A id \in DOMAIN shelf[r].notes :
          LET note == shelf[r].notes[id]
              chain == Chain(note)
          IN /\ note.id = id /\ note.v \in 1 .. Len(made) /\ Len(note.ancestors) <= MaxAncestors
             /\ \A i \in 1 .. Len(chain) - 1 : chain[i] > chain[i + 1]
             /\ \A marks \in {shelf[r].held, shelf[r].sent} :
                   Cardinality(DOMAIN Get(marks, id, None)) <= MaxPeers

LiveTexts(r) == {shelf[r].notes[id].body : id \in DOMAIN shelf[r].notes} \ {0}

\* A person did away with the text of a version after reading it.
ReadAndGone(v) == \E w \in replaced \ made[v].past : made[w].body = made[v].body

\* The text went with a note that was deleted while the editor showed an older version,
\* or lost a conflict whose copy was on the shelf already and no longer said it.
Forfeited(v) == \E w \in (wiped \union dropped) \ made[v].past : made[w].body = made[v].body

\* However the devices' edits and packets cross, no merge, save, tidying or relay loses
\* what a person typed: the text of a version is on some shelf until a person who read
\* it replaces or deletes it ("two versions edited from the same one are both kept").
\* The code gives a text up in two places only, and each is recorded where it happens:
\* the delete button passes no loaded version (DeleteOpen), and a copy that is already
\* there counts as resolved (ResolvedAway).
TextsKept ==
    \A v \in 1 .. Len(made) :
        \/ made[v].body = 0
        \/ \E r \in Devices : made[v].body \in LiveTexts(r)
        \/ ReadAndGone(v) \/ Forfeited(v)

AtRest(p) == /\ wire[Desk][p] = <<>> /\ wire[p][Desk] = <<>>
             /\ \A r \in {Desk, p} : later[r] = <<>> /\ due[r].window = <<>> /\ due[r].worker = <<>>

Said(r) == [id \in DOMAIN shelf[r].notes |-> <<shelf[r].notes[id].modified, shelf[r].notes[id].body>>]

\* Once a connection has exchanged all it had to say, the phone and the desk hold the
\* same notes, and the same version of every note or copy they both hold, whatever was
\* typed, pushed or relayed on the way.  Only a deletion that crosses an edit on a live
\* link may leave them apart, until they connect again.
Agree == \A p \in fresh : AtRest(p) =>
    LET ours == Said(Desk)
        theirs == Said(p)
        both == DOMAIN ours \intersect DOMAIN theirs
    IN /\ \A id \in (DOMAIN ours \union DOMAIN theirs) \ both : IsCopy(id)
       /\ \A id \in both : ours[id] = theirs[id]

\* The desk's version of a note was made from the phone's, on the desk alone.
EditedHere(p, id) ==
    /\ id \in DOMAIN shelf[Desk].notes
    /\ LET ours == shelf[Desk].notes[id].v
           theirs == shelf[p].notes[id].v
       IN theirs \in made[ours].past /\ \A v \in Lineage(ours) \ Lineage(theirs) : made[v].by = Desk

Names(note, m) == m = note.parent \/ m \in ToSet(note.ancestors)

\* However often the desk edits a note, the version a phone acknowledged, or was sent
\* and has taken with the acknowledgement lost, stays among the ancestors, so that the
\* phone recognises the newer one (must_keep).
HeldIsRecognised ==
    \A p \in Phones : \A id \in DOMAIN shelf[p].notes :
        /\ EditedHere(p, id)
        /\ shelf[p].notes[id].modified \in {Get(Get(shelf[Desk].held, id, None), p, 0),
                                            Get(Get(shelf[Desk].sent, id, None), p, 0)}
        => Names(shelf[Desk].notes[id], shelf[p].notes[id].modified)

Quiet == \A p \in link : AtRest(p)
Works == later' # later \/ wire' # wire

\* Answers to answers come to an end: as long as the worker threads keep working,
\* the exchange falls quiet again and again (what is sent back for KeptOurs and
\* Conflict is never sent back for ever).
ExchangeEnds == []<><<Works>>_notesVars => []<>Quiet

==========================================================================
