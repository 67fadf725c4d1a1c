----------------------------- MODULE QrPairing -----------------------------
(* Pairing by QR code: the one live code (pairing_qr.rs), the views that    *)
(* show it (window/pairing.rs) through the daemon's command queue, the      *)
(* links of a phone with a new certificate, which wait for its proof apart  *)
(* from the session (handshake.rs), and the proof of a phone on its session *)
(* (packet_handler.rs).  A code is known by its generation; 0 is none, and  *)
(* in a proof a code of an earlier run of the program.                      *)
EXTENDS Integers, Sequences, FiniteSets

CONSTANTS Views,        \* the welcome page and the dialog
          NewLinks,     \* connections of a phone that was installed again
          Known,        \* the connection of another phone, in its session
          Casts,        \* who takes part, and for how many generations of the code
          MaxQrLinks,   \* MAX_QR_ONLY_LINKS
          MaxFailures, MaxTotalFailures

ASSUME QrAssumption ==
  /\ IsFiniteSet(NewLinks) /\ Known \notin NewLinks
  /\ \A c \in Casts : c.views \subseteq Views /\ c.links \subseteq NewLinks
  /\ MaxQrLinks \in Nat \ {0} /\ MaxFailures \in Nat \ {0}
  /\ MaxTotalFailures \in Nat /\ MaxFailures < MaxTotalFailures

CONSTANTS MaxGen, MaxCommands \* bounds of the model: generations, commands waiting

VARIABLES cast,     \* who takes part in this behaviour
          live,     \* PENDING: the code, whether it ran out, and the wrong proofs
          gen,      \* GENERATION
          retired,  \* RETIRED
          notice,   \* EXPIRED_SCANS > 0
          commands, \* what the daemon is yet to run, oldest first
          view,     \* each view, open, on screen, paused, and the code it shows
          seen,     \* codes that were on a screen
          link,     \* each connection, and the code it was admitted for
          slots,    \* QR_ONLY_LINKS
          won,      \* what connections proved each code
          blamed    \* phones whose proofs burned a code

code == <<live, gen, retired, notice>>
page == <<commands, view, seen>>
proofs == <<won, blamed>>
qrVars == <<cast, code, page, link, slots, proofs>>

Links == NewLinks \union {Known}
Codes == 0 .. MaxGen
Phones == {"new", "known"}
PhoneOf(l) == IF l = Known THEN "known" ELSE "new"

NoFailures == [p \in Phones |-> 0]
NoCode == [code |-> 0, over |-> FALSE, failures |-> NoFailures, total |-> 0]
LiveGeneration == IF live.over THEN 0 ELSE live.code

Closed == [open |-> FALSE, mapped |-> FALSE, paused |-> FALSE, shown |-> 0]

QrInit ==
  /\ cast \in Casts
  /\ live = NoCode /\ gen = 0 /\ retired = 0 /\ notice = FALSE
  /\ commands = <<>> /\ view = [v \in Views |-> Closed] /\ seen = {0}
  /\ link = [l \in Links |-> [pc |-> IF l = Known THEN "session" ELSE "none", code |-> 0]]
  /\ slots = 0
  /\ won = [c \in Codes |-> {}] /\ blamed = {}

-----------------------------------------------------------------------------
(* The code.                                                               *)

\* A code that is replaced or withdrawn is remembered; one that was used is not.
Retired == IF live.code = 0 THEN retired ELSE live.code

Started ==
  /\ gen' = gen + 1 /\ retired' = Retired
  /\ live' = [NoCode EXCEPT !.code = gen + 1]

Cancelled == gen' = gen + 1 /\ retired' = Retired /\ live' = NoCode

\* The daemon runs the next command of the views.  A start that finds no random
\* bytes or no certificate (push_error, no code) is not modelled.
RunCommand ==
  /\ commands # <<>> /\ gen < cast.gens
  /\ commands' = Tail(commands)
  /\ IF Head(commands) = "start" THEN Started ELSE Cancelled
  /\ UNCHANGED <<notice, view, seen, link, slots, proofs>>

\* The views looked since the last command.  They do every quarter second; a
\* code lives five minutes, and thirty wrong proofs take longer than a look.
Settled ==
  /\ commands = <<>>
  /\ \A v \in Views : view[v].open /\ ~view[v].paused => view[v].shown = live.code

\* LIFETIME is over.
RunsOut ==
  /\ live.code # 0 /\ ~live.over /\ Settled
  /\ live' = [live EXCEPT !.over = TRUE]
  /\ UNCHANGED <<gen, retired, notice, page, link, slots, proofs>>

-----------------------------------------------------------------------------
(* The views.  Each looks at the code every quarter second.                *)

Send(command) == Len(commands) < MaxCommands /\ commands' = Append(commands, command)

\* qr_code: asked for before it is on screen.
Open(v) ==
  /\ ~view[v].open /\ Send("start")
  /\ view' = [view EXCEPT ![v] = [Closed EXCEPT !.open = TRUE, !.mapped = TRUE]]
  /\ UNCHANGED <<code, seen, link, slots, proofs>>

\* Another page, or a window closed to the background, and back.
Turn(v) ==
  /\ view[v].open
  /\ view' = [view EXCEPT ![v].mapped = ~@]
  /\ UNCHANGED <<code, commands, seen, link, slots, proofs>>

\* stop_welcome: no tick after it.
Stop(v) ==
  /\ view[v].open /\ Send("cancel")
  /\ view' = [view EXCEPT ![v] = Closed]
  /\ UNCHANGED <<code, seen, link, slots, proofs>>

\* Mutant: a view off screen keeps its code on the air.
PausesOnly(v) ==
  /\ view[v].open /\ ~view[v].mapped /\ ~view[v].paused
  /\ view' = [view EXCEPT ![v].paused = TRUE, ![v].shown = 0]
  /\ UNCHANGED <<code, commands, seen, link, slots, proofs>>

\* Off screen: no code stays live that nobody can see.
Pauses(v) ==
  /\ view[v].open /\ ~view[v].mapped /\ ~view[v].paused
  /\ view' = [view EXCEPT ![v].paused = TRUE, ![v].shown = 0]
  /\ Send("cancel")
  /\ UNCHANGED <<code, seen, link, slots, proofs>>

Resumes(v) ==
  /\ view[v].open /\ view[v].mapped /\ view[v].paused
  /\ view' = [view EXCEPT ![v].paused = FALSE]
  /\ Send("start")
  /\ UNCHANGED <<code, seen, link, slots, proofs>>

OnScreen(v) == view[v].open /\ view[v].mapped /\ ~view[v].paused

\* A view that shows a code asks for another; one that does not has asked.
AsksAgain(v) == IF view[v].shown # 0 THEN Send("start") ELSE UNCHANGED commands

\* take_expired_notice: somebody scanned a code that ran out.
TakesNotice(v) ==
  /\ OnScreen(v) /\ notice
  /\ notice' = FALSE
  /\ AsksAgain(v)
  /\ view' = [view EXCEPT ![v].shown = 0]
  /\ UNCHANGED <<live, gen, retired, seen, link, slots, proofs>>

Shows(v) ==
  /\ OnScreen(v) /\ ~notice /\ LiveGeneration \notin {0, view[v].shown}
  /\ view' = [view EXCEPT ![v].shown = LiveGeneration]
  /\ seen' = seen \union {LiveGeneration}
  /\ UNCHANGED <<code, commands, link, slots, proofs>>

\* Used, run out, or withdrawn by the other view.
Misses(v) ==
  /\ OnScreen(v) /\ ~notice /\ LiveGeneration = 0 /\ view[v].shown # 0
  /\ AsksAgain(v)
  /\ view' = [view EXCEPT ![v].shown = 0]
  /\ UNCHANGED <<code, seen, link, slots, proofs>>

-----------------------------------------------------------------------------
(* verify: the proof of code c, on link l.                                 *)

TooMany(p) == live.failures[p] >= MaxFailures

Burned == live.total + 1 >= MaxTotalFailures
Wrong(p) == [live EXCEPT !.failures[p] = @ + 1, !.total = @ + 1]

\* Mutant: the code is left as it is by a proof that is right.
UsedAgain(l, c) == won' = [won EXCEPT ![c] = @ \union {l}] /\ UNCHANGED <<live, blamed>>

Used(l, c) == won' = [won EXCEPT ![c] = @ \union {l}] /\ live' = NoCode /\ UNCHANGED blamed

Expired == notice' = TRUE

Refuses(l, c) ==
  /\ UNCHANGED <<gen, won>>
  /\ \/ /\ live.code = 0
        /\ notice' = (notice \/ (c # 0 /\ c = retired))
        /\ UNCHANGED <<live, retired, blamed>>
     \/ /\ live.code # 0 /\ live.over
        /\ retired' = live.code /\ live' = NoCode /\ Expired
        /\ UNCHANGED blamed
     \/ /\ LiveGeneration # 0 /\ TooMany(PhoneOf(l))
        /\ UNCHANGED <<live, retired, notice, blamed>>
     \/ /\ LiveGeneration # 0 /\ ~TooMany(PhoneOf(l)) /\ c # live.code /\ c # 0 /\ c = retired
        /\ Expired
        /\ UNCHANGED <<live, retired, blamed>>
     \/ /\ LiveGeneration # 0 /\ ~TooMany(PhoneOf(l)) /\ c # live.code /\ (c = 0 \/ c # retired)
        /\ Burned => Settled
        /\ IF Burned
             THEN live' = NoCode /\ blamed' = {p \in Phones : Wrong(PhoneOf(l)).failures[p] > 0}
             ELSE live' = Wrong(PhoneOf(l)) /\ UNCHANGED blamed
        /\ UNCHANGED <<retired, notice>>

Accepts(l, c) ==
  /\ c # 0 /\ c = LiveGeneration /\ ~TooMany(PhoneOf(l))
  /\ Used(l, c) /\ UNCHANGED <<gen, retired, notice>>

-----------------------------------------------------------------------------
(* A phone with a new certificate.                                         *)

At(l, pc) == link' = [link EXCEPT ![l].pc = pc]

\* certificate_admission: only while a code is shown, and for that code.
Admission(l) ==
  /\ link[l].pc = "none" /\ LiveGeneration # 0
  /\ link' = [link EXCEPT ![l] = [pc |-> "admit", code |-> LiveGeneration]]
  /\ UNCHANGED <<code, page, slots, proofs>>

\* admit_qr_only: the count is raised, then looked at.
Admit(l) ==
  /\ link[l].pc = "admit"
  /\ slots' = slots + 1
  /\ At(l, IF slots >= MaxQrLinks THEN "over" ELSE "serve")
  /\ UNCHANGED <<code, page, proofs>>

TurnedAway(l) ==
  /\ link[l].pc = "over" /\ At(l, "none") /\ slots' = slots - 1
  /\ UNCHANGED <<code, page, proofs>>

\* The loop of serve_qr_only: the code is still the one it was admitted for.
LooksAgain(l) ==
  /\ link[l].pc = "serve" /\ LiveGeneration = link[l].code
  /\ At(l, "read")
  /\ UNCHANGED <<code, page, slots, proofs>>

\* The code ended, QR_ONLY_DEADLINE is over, or the phone closed: closed, and
\* the destructor gives the slot back.
Ends(l) ==
  /\ link[l].pc \in {"serve", "read", "refused"}
  /\ At(l, "none") /\ slots' = slots - 1
  /\ UNCHANGED <<code, page, proofs>>

\* Another packet is dropped.
Idles(l) ==
  /\ link[l].pc = "read" /\ At(l, "serve")
  /\ UNCHANGED <<code, page, slots, proofs>>

\* qr_only_packet: a proof of a code the phone saw.
Proves(l) ==
  /\ link[l].pc = "read"
  /\ \E c \in seen : \/ Accepts(l, c) /\ At(l, "trust")
                     \/ Refuses(l, c) /\ At(l, "refused")
  /\ UNCHANGED <<page, slots>>

\* trust_device, which may fail to save: the code is used all the same.
Trusts(l) ==
  /\ link[l].pc = "trust"
  /\ At(l, "promote") \/ At(l, "refused")
  /\ UNCHANGED <<code, page, slots, proofs>>

\* promote_qr_link: the phone's link from now on, or closed by its attach.
Promotes(l) ==
  /\ link[l].pc = "promote"
  /\ At(l, "attached") /\ slots' = slots - 1
  /\ UNCHANGED <<code, page, proofs>>

\* A connection of the session ends, and the phone may scan again.
Leaves(l) ==
  /\ link[l].pc = "attached" /\ link' = [link EXCEPT ![l] = [pc |-> "none", code |-> 0]]
  /\ UNCHANGED <<code, page, slots, proofs>>

-----------------------------------------------------------------------------
(* handle_qr_pairing_proof: a phone proves a code on the link of its session, *)
(* as often as it likes.                                                      *)
SessionProves ==
  /\ \E c \in seen : Accepts(Known, c) \/ Refuses(Known, c)
  /\ UNCHANGED <<page, link, slots>>

QrNext ==
  /\ UNCHANGED cast
  /\ \/ RunCommand \/ RunsOut \/ SessionProves
     \/ \E v \in cast.views :
          \/ Open(v) \/ Turn(v) \/ Stop(v) \/ Pauses(v) \/ Resumes(v)
          \/ TakesNotice(v) \/ Shows(v) \/ Misses(v)
     \/ \E l \in cast.links :
          \/ Admission(l) \/ Admit(l) \/ TurnedAway(l) \/ LooksAgain(l) \/ Ends(l)
          \/ Idles(l) \/ Proves(l) \/ Trusts(l) \/ Promotes(l) \/ Leaves(l)

QrSpec == QrInit /\ [][QrNext]_qrVars

-----------------------------------------------------------------------------
(* Properties.                                                             *)

LinkStates == {"none", "admit", "over", "serve", "read", "trust", "promote", "refused", "attached", "session"}

\* Every variable has its type, and no phone is counted past MAX_FAILURES.
QrTypeOK ==
  /\ cast \in Casts
  /\ live \in [code : Codes, over : BOOLEAN, failures : [Phones -> 0 .. MaxFailures],
               total : 0 .. MaxTotalFailures]
  /\ gen \in Codes /\ retired \in Codes /\ notice \in BOOLEAN
  /\ commands \in Seq({"start", "cancel"})
  /\ view \in [Views -> [open : BOOLEAN, mapped : BOOLEAN, paused : BOOLEAN, shown : Codes]]
  /\ seen \subseteq Codes
  /\ link \in [Links -> [pc : LinkStates, code : Codes]]
  /\ slots \in 0 .. Cardinality(NewLinks)
  /\ won \in [Codes -> SUBSET Links] /\ blamed \subseteq Phones

\* A code "is consumed by the first valid proof": of all the links that prove it
\* at once, on sessions and apart from them, one is accepted.
OneWinner == \A c \in Codes : Cardinality(won[c]) <= 1

Holding == {l \in NewLinks : link[l].pc \in {"over", "serve", "read", "trust", "promote", "refused"}}

\* QR_ONLY_LINKS counts the links that took a slot, on every way out; and no
\* more than MAX_QR_ONLY_LINKS of them are served.
SlotsReturned ==
  /\ slots = Cardinality(Holding)
  /\ Cardinality({l \in Holding : link[l].pc # "over"}) <= MaxQrLinks

\* "No code stays live that nobody can see": once the commands have run, a code
\* is live only if a view is open and not paused.
NoUnseenCode ==
  commands = <<>> /\ live.code # 0 => \E v \in Views : view[v].open /\ ~view[v].paused

\* "Used, expired or withdrawn by another view: a new one."  A view on screen
\* that shows nothing has a code coming: one is live, or asked for, or another
\* view is about to ask.  (Not if the other view withdrew it before this one
\* looked.)
CodeComes ==
  \A v \in Views : OnScreen(v) /\ view[v].shown = 0 =>
    \/ LiveGeneration # 0 \/ commands # <<>>
    \/ \E u \in cast.views \ {v} : ~view[u].open \/ view[u].paused \/ view[u].shown # 0

\* There is a code for as long as a view is there to show it, and no longer.
CodeFollowsViews == NoUnseenCode /\ CodeComes

\* Wrong proofs are "counted per device, not for the code": those of one phone
\* alone do not burn it.
BurnedByMany == blamed = {} \/ Cardinality(blamed) >= 2
=============================================================================
