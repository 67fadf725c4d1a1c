------------------------------ MODULE MCNotes ------------------------------
(* Instances of NotesSync for TLC: a desk and up to two phones. *)
EXTENDS NotesSync

CONSTANTS desk, p1, p2

\* One edit of p2 outdates one of the desk, that one of p1, and two edits outdate
\* any one; no two chains of edits in the plans end on the same stamp.
MCGap == [r \in {desk, p1, p2} |-> CASE r = desk -> 3 [] r = p1 -> 2 [] r = p2 -> 4]

Plan(begin, who, upAtFirst, reconnects, lost, count, open, typed, unpair) ==
  [shared |-> "shared" \in begin, creates |-> "creates" \in begin,
   phones |-> who, linked |-> upAtFirst, connects |-> reconnects,
   drops |-> lost, writes |-> count, editors |-> open, texts |-> typed, unpairs |-> unpair]

\* How many versions each device writes.
Count(onDesk, onP1, onP2) ==
  [r \in {desk, p1, p2} |-> CASE r = desk -> onDesk [] r = p1 -> onP1 [] r = p2 -> onP2]

\* What each device types: the same texts, or texts of its own, or the desk alone.
Alike == [r \in {desk, p1, p2} |-> {1, 2}]
Apart == [r \in {desk, p1, p2} |-> IF r = desk THEN {1} ELSE {2}]
DeskOnly == [r \in {desk, p1, p2} |-> IF r = desk THEN {1, 2} ELSE {}]

MCPlans ==
  {\* a phone was away while versions were typed on either side
   Plan({"shared"}, {p1}, {}, 1, FALSE, Count(2, 1, 0), {}, Apart, FALSE),
   \* an editor stays open while versions land and the link drops
   Plan({"shared"}, {p1}, {p1}, 1, TRUE, Count(1, 1, 0), {desk}, Apart, FALSE),
   Plan({"shared"}, {p1}, {p1}, 0, TRUE, Count(2, 1, 0), {desk}, Apart, FALSE),
   \* a note is created; notes are created that say the same
   Plan({"creates"}, {p1}, {p1}, 1, TRUE, Count(1, 1, 0), {desk}, Apart, FALSE),
   Plan({"shared", "creates"}, {p1}, {p1}, 0, FALSE, Count(1, 2, 0), {}, Alike, FALSE),
   \* the phone is unpaired while it is away
   Plan({"shared"}, {p1}, {}, 1, TRUE, Count(1, 1, 0), {}, Apart, TRUE),
   \* what one phone changed is relayed to the other
   Plan({"shared"}, {p1, p2}, {p1, p2}, 0, TRUE, Count(0, 1, 1), {}, Alike, FALSE),
   Plan({"shared"}, {p1, p2}, {p1, p2}, 0, FALSE, Count(1, 1, 0), {}, Alike, FALSE),
   Plan({"shared"}, {p1, p2}, {p1}, 1, TRUE, Count(0, 1, 0), {}, Apart, FALSE),
   \* a phone is away through many edits, or is lost with an acknowledgement
   Plan({"shared"}, {p1, p2}, {p1}, 0, TRUE, Count(4, 0, 0), {}, DeskOnly, FALSE)}
=============================================================================
