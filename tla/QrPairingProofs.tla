-------------------------- MODULE QrPairingProofs ---------------------------
(***************************************************************************)
(* Pairing by QR code (QrPairing), for any views, links, generations of    *)
(* the code and limits.                                                    *)
(***************************************************************************)
EXTENDS QrPairing, FiniteSetTheorems, TLAPS

LiveCode == [code : Nat, over : BOOLEAN, failures : [Phones -> Nat], total : Nat]
Shown == [open : BOOLEAN, mapped : BOOLEAN, paused : BOOLEAN, shown : Nat]

\* The types of what the code and its views are.
QrTypes ==
  /\ cast \in Casts
  /\ live \in LiveCode /\ gen \in Nat
  /\ commands \in Seq({"start", "cancel"})
  /\ view \in [Views -> Shown]
  /\ seen \subseteq Nat
  /\ link \in [Links -> [pc : LinkStates, code : Nat]]
  /\ won = [c \in Codes |-> won[c]]

\* GENERATION is never behind a code that was live or seen.
CodesDrawn == live.code <= gen /\ \A c \in seen : c <= gen

\* A code that was proved is not live again.
ProvedIsOver == \A c \in Codes :
  \/ won[c] = {}
  \/ (\E l : won[c] = {l}) /\ c # 0 /\ c <= gen /\ c # live.code

-----------------------------------------------------------------------------
(* What a step may do to the code.                                         *)

LEMMA WrongIs ==
  ASSUME QrTypes, NEW p \in Phones
  PROVE  /\ Wrong(p) = [code |-> live.code, over |-> live.over,
                        failures |-> [live.failures EXCEPT ![p] = @ + 1], total |-> live.total + 1]
         /\ Wrong(p) \in LiveCode
<1>1. live = [code |-> live.code, over |-> live.over, failures |-> live.failures, total |-> live.total]
      /\ live.failures \in [Phones -> Nat] /\ live.total \in Nat /\ live.code \in Nat
  BY Zenon DEF QrTypes, LiveCode
<1>2. live.over \in BOOLEAN
  BY Zenon DEF QrTypes, LiveCode
<1>3. [live.failures EXCEPT ![p] = @ + 1] \in [Phones -> Nat] /\ live.total + 1 \in Nat
  BY <1>1
<1>4. Wrong(p) = [code |-> live.code, over |-> live.over,
                  failures |-> [live.failures EXCEPT ![p] = @ + 1], total |-> live.total + 1]
  <2> DEFINE f == [live.failures EXCEPT ![p] = @ + 1]
             r == [live EXCEPT !.failures[p] = @ + 1]
  <2>1. r = [code |-> live.code, over |-> live.over, failures |-> f, total |-> live.total]
    BY <1>1
  <2>2. Wrong(p) = [r EXCEPT !.total = r.total + 1]
    BY Zenon DEF Wrong
  <2> HIDE DEF f, r
  <2>3. Wrong(p) = [code |-> live.code, over |-> live.over, failures |-> f, total |-> live.total + 1]
    BY Zenon, <2>1, <2>2
  <2> QED
    BY Zenon, <2>3 DEF f
<1>5. Wrong(p) \in LiveCode
  BY <1>1, <1>2, <1>3, <1>4 DEF LiveCode
<1> QED
  BY Zenon, <1>4, <1>5

\* verify leaves the generation alone; a code that is live after it was live
\* before it, and is as far in its life.
LEMMA RefusesCode ==
  ASSUME QrTypes, NEW l, NEW c, Refuses(l, c)
  PROVE  /\ live' \in LiveCode /\ UNCHANGED <<gen, won>>
         /\ \/ live'.code = live.code /\ live'.over = live.over
            \/ live' = NoCode /\ live.code # 0 /\ (LiveGeneration # 0 => Settled)
<1>1. NoCode \in LiveCode
  BY Zenon DEF NoCode, LiveCode, NoFailures
<1>2. Wrong(PhoneOf(l)) \in LiveCode /\ Wrong(PhoneOf(l)).code = live.code
      /\ Wrong(PhoneOf(l)).over = live.over
  <2>1. PhoneOf(l) \in Phones
    BY Zenon DEF PhoneOf, Phones
  <2> QED
    BY <2>1, WrongIs
<1> QED
  BY Zenon, <1>1, <1>2 DEF Refuses, QrTypes, LiveGeneration

\* ... and one that is proved was live, and is no more.
LEMMA AcceptsCode ==
  ASSUME QrTypes, NEW l, NEW c, Accepts(l, c)
  PROVE  /\ live' = NoCode /\ live' \in LiveCode /\ gen' = gen
         /\ c # 0 /\ c = live.code /\ ~live.over
         /\ won' = [won EXCEPT ![c] = @ \union {l}]
BY Zenon DEF Accepts, Used, NoCode, LiveCode, NoFailures, LiveGeneration, QrTypes

\* A proof, on a session or apart from it.
Verifies ==
  /\ UNCHANGED <<cast, page, slots>>
  /\ \E l, c : c \in seen /\ (Accepts(l, c) \/ Refuses(l, c))

\* A step of a link that proves nothing.
LinkStep(l) ==
  \/ Admission(l) \/ Admit(l) \/ TurnedAway(l) \/ LooksAgain(l) \/ Ends(l)
  \/ Idles(l) \/ Trusts(l) \/ Promotes(l) \/ Leaves(l)

ViewStep(v) ==
  \/ Open(v) \/ Turn(v) \/ Stop(v) \/ Pauses(v) \/ Resumes(v)
  \/ TakesNotice(v) \/ Shows(v) \/ Misses(v)

LEMMA Kinds ==
  ASSUME [QrNext]_qrVars
  PROVE  \/ UNCHANGED qrVars
         \/ UNCHANGED cast /\ RunCommand
         \/ UNCHANGED cast /\ RunsOut
         \/ Verifies
         \/ UNCHANGED cast /\ \E v \in cast.views : ViewStep(v)
         \/ UNCHANGED cast /\ \E l \in cast.links : LinkStep(l)
<1>1. ASSUME UNCHANGED cast, NEW l, Proves(l) PROVE Verifies
  BY Zenon, <1>1 DEF Proves, Verifies
<1>2. ASSUME UNCHANGED cast, SessionProves PROVE Verifies
  BY Zenon, <1>2 DEF SessionProves, Verifies
<1> QED
  BY Zenon, <1>1, <1>2 DEF QrNext, ViewStep, LinkStep

LEMMA LinkStepKeeps ==
  ASSUME NEW l, LinkStep(l)
  PROVE  UNCHANGED <<code, page, proofs>>
BY Zenon DEF LinkStep, Admission, Admit, TurnedAway, LooksAgain, Ends, Idles, Trusts, Promotes, Leaves

LEMMA ViewStepKeeps ==
  ASSUME NEW v, ViewStep(v)
  PROVE  UNCHANGED <<live, gen, retired, link, slots, proofs>>
BY Zenon DEF ViewStep, Open, Turn, Stop, Pauses, Resumes, TakesNotice, Shows, Misses, code

LEMMA LinkTypes ==
  ASSUME QrTypes, [QrNext]_qrVars
  PROVE  link' \in [Links -> [pc : LinkStates, code : Nat]]
<1>1. ASSUME NEW l, NEW pc \in LinkStates, At(l, pc)
      PROVE  link' \in [Links -> [pc : LinkStates, code : Nat]]
  BY Zenon, <1>1 DEF QrTypes, At
<1>2. LiveGeneration \in Nat
  BY Zenon DEF QrTypes, LiveCode, LiveGeneration
<1>3. ASSUME NEW l, LinkStep(l)
      PROVE  link' \in [Links -> [pc : LinkStates, code : Nat]]
  <2>1. CASE Admission(l)
    BY Zenon, <1>2, <2>1 DEF Admission, QrTypes, LinkStates
  <2>2. CASE Leaves(l)
    BY Zenon, <2>2 DEF Leaves, QrTypes, LinkStates
  <2>3. CASE Admit(l) \/ TurnedAway(l) \/ LooksAgain(l) \/ Ends(l) \/ Idles(l) \/ Trusts(l) \/ Promotes(l)
    <3>1. \E pc \in LinkStates : At(l, pc)
      BY Zenon, <2>3 DEF Admit, TurnedAway, LooksAgain, Ends, Idles, Trusts, Promotes, LinkStates
    <3> QED
      BY Zenon, <1>1, <3>1
  <2> QED
    BY Zenon, <1>3, <2>1, <2>2, <2>3 DEF LinkStep
<1>4. ASSUME NEW l, Proves(l)
      PROVE  link' \in [Links -> [pc : LinkStates, code : Nat]]
  <2>1. \E pc \in LinkStates : At(l, pc)
    BY Zenon, <1>4 DEF Proves, LinkStates
  <2> QED
    BY Zenon, <1>1, <2>1
<1>5. CASE link' = link
  BY Zenon, <1>5 DEF QrTypes
<1>6. ASSUME RunCommand \/ RunsOut \/ SessionProves \/ UNCHANGED qrVars
      PROVE  link' = link
  BY Zenon, <1>6 DEF RunCommand, RunsOut, SessionProves, qrVars
<1> QED
  BY Zenon, <1>3, <1>4, <1>5, <1>6, ViewStepKeeps DEF QrNext, ViewStep, LinkStep

LEMMA ViewTypes ==
  ASSUME QrTypes, NEW v, ViewStep(v)
  PROVE  /\ commands' \in Seq({"start", "cancel"})
         /\ view' \in [Views -> Shown]
         /\ seen' \subseteq Nat
<1>1. LiveGeneration \in Nat
  BY Zenon DEF QrTypes, LiveCode, LiveGeneration
<1>2. commands' \in Seq({"start", "cancel"})
  <2>1. Send("start") \/ Send("cancel") \/ commands' = commands
    BY Zenon DEF ViewStep, Open, Turn, Stop, Pauses, Resumes, TakesNotice, Shows, Misses, AsksAgain
  <2>2. commands \in Seq({"start", "cancel"})
    BY Zenon DEF QrTypes
  <2>3. CASE Send("start")
    BY <2>2, <2>3 DEF Send
  <2>4. CASE Send("cancel")
    BY <2>2, <2>4 DEF Send
  <2> QED
    BY Zenon, <2>1, <2>2, <2>3, <2>4
<1>3. seen' \subseteq Nat
  BY Zenon, <1>1 DEF QrTypes, ViewStep, Open, Turn, Stop, Pauses, Resumes, TakesNotice, Shows, Misses
<1>4. view' \in [Views -> Shown]
  <2>1. PICK x : view' = [view EXCEPT ![v] = x] /\ (v \in Views => x \in Shown)
    <3>1. Closed \in Shown /\ [Closed EXCEPT !.open = TRUE, !.mapped = TRUE] \in Shown
      BY Zenon DEF Closed, Shown
    <3>2. ASSUME v \in Views
          PROVE  /\ [view[v] EXCEPT !.mapped = ~@] \in Shown
                 /\ [view[v] EXCEPT !.paused = TRUE, !.shown = 0] \in Shown
                 /\ [view[v] EXCEPT !.paused = FALSE] \in Shown
                 /\ [view[v] EXCEPT !.shown = 0] \in Shown
                 /\ [view[v] EXCEPT !.shown = LiveGeneration] \in Shown
      <4>1. view[v] \in Shown
        BY Zenon, <3>2 DEF QrTypes
      <4> QED
        BY Zenon, <1>1, <4>1 DEF Shown
    <3>3. CASE Open(v)
      BY Zenon, <3>1, <3>3 DEF Open
    <3>4. CASE Stop(v)
      BY Zenon, <3>1, <3>4 DEF Stop
    <3>5. CASE Turn(v)
      BY Zenon, <3>2, <3>5 DEF Turn
    <3>6. CASE Pauses(v)
      <4>1. view' = [view EXCEPT ![v] = [view[v] EXCEPT !.paused = TRUE, !.shown = 0]]
        BY Zenon, <3>6 DEF Pauses, QrTypes
      <4> QED
        BY Zenon, <3>2, <4>1
    <3>7. CASE Resumes(v)
      BY Zenon, <3>2, <3>7 DEF Resumes
    <3>8. CASE TakesNotice(v) \/ Misses(v)
      BY Zenon, <3>2, <3>8 DEF TakesNotice, Misses
    <3>9. CASE Shows(v)
      BY Zenon, <3>2, <3>9 DEF Shows
    <3> QED
      BY Zenon, <3>3, <3>4, <3>5, <3>6, <3>7, <3>8, <3>9 DEF ViewStep
  <2> QED
    BY Zenon, <2>1 DEF QrTypes
<1> QED
  BY Zenon, <1>2, <1>3, <1>4

LEMMA VerifiesCode ==
  ASSUME QrTypes, Verifies
  PROVE  /\ live' \in LiveCode /\ gen' = gen /\ won' = [c \in Codes |-> won'[c]]
         /\ \/ live'.code = live.code /\ live'.over = live.over
            \/ live' = NoCode
<1>1. PICK l, c : c \in seen /\ (Accepts(l, c) \/ Refuses(l, c))
  BY Zenon DEF Verifies
<1>2. CASE Accepts(l, c)
  BY Zenon, <1>2, AcceptsCode DEF QrTypes
<1>3. CASE Refuses(l, c)
  BY Zenon, <1>3, RefusesCode DEF QrTypes
<1> QED
  BY Zenon, <1>1, <1>2, <1>3

QrInv == QrTypes /\ CodesDrawn /\ ProvedIsOver

LEMMA QrStart == QrInit => QrInv
<1> SUFFICES ASSUME QrInit PROVE QrInv
  BY Zenon
<1>1. NoCode \in LiveCode /\ NoCode.code = 0 /\ Closed \in Shown
  BY Zenon DEF NoCode, LiveCode, NoFailures, Closed, Shown
<1>2. link \in [Links -> [pc : LinkStates, code : Nat]]
  BY Zenon DEF QrInit, LinkStates
<1> QED
  BY <1>1, <1>2 DEF QrInit, QrInv, QrTypes, CodesDrawn, ProvedIsOver

LEMMA QrTypesStep ==
  ASSUME QrTypes, [QrNext]_qrVars
  PROVE  QrTypes'
<1>1. CASE UNCHANGED qrVars
  BY Zenon, <1>1 DEF QrTypes, qrVars, code, page, proofs
<1>2. CASE UNCHANGED cast /\ RunCommand
  <2>1. live' \in LiveCode /\ gen' \in Nat
    <3>1. gen \in Nat /\ NoCode \in LiveCode /\ [NoCode EXCEPT !.code = gen + 1] \in LiveCode
      <4>1. gen \in Nat /\ gen + 1 \in Nat /\ NoFailures \in [Phones -> Nat]
        BY DEF QrTypes, NoFailures
      <4> QED
        BY Zenon, <4>1 DEF NoCode, LiveCode
    <3> QED
      BY <1>2, <3>1 DEF RunCommand, Started, Cancelled
  <2>2. commands' \in Seq({"start", "cancel"})
    BY <1>2 DEF QrTypes, RunCommand
  <2> QED
    BY Zenon, <1>2, <2>1, <2>2 DEF QrTypes, RunCommand, proofs
<1>3. CASE UNCHANGED cast /\ RunsOut
  <2>1. live' \in LiveCode
    BY Zenon, <1>3 DEF QrTypes, RunsOut, LiveCode
  <2> QED
    BY Zenon, <1>3, <2>1 DEF QrTypes, RunsOut, page, proofs
<1>4. CASE Verifies
  BY Zenon, <1>4, VerifiesCode, LinkTypes DEF QrTypes, Verifies, page
<1>5. CASE UNCHANGED cast /\ \E v \in cast.views : ViewStep(v)
  BY Zenon, <1>5, ViewStepKeeps, ViewTypes DEF QrTypes, proofs
<1>6. CASE UNCHANGED cast /\ \E l \in cast.links : LinkStep(l)
  BY Zenon, <1>6, LinkStepKeeps, LinkTypes DEF QrTypes, code, page, proofs
<1> QED
  BY Zenon, <1>1, <1>2, <1>3, <1>4, <1>5, <1>6, Kinds

LEMMA CodesStep ==
  ASSUME QrTypes, CodesDrawn, [QrNext]_qrVars
  PROVE  CodesDrawn'
<1>1. CASE UNCHANGED qrVars
  BY Zenon, <1>1 DEF CodesDrawn, qrVars, code, page
<1>2. CASE UNCHANGED cast /\ RunCommand
  BY <1>2 DEF QrTypes, LiveCode, CodesDrawn, RunCommand, Started, Cancelled, NoCode
<1>3. CASE UNCHANGED cast /\ RunsOut
  BY Zenon, <1>3 DEF QrTypes, LiveCode, CodesDrawn, RunsOut, page
<1>4. CASE Verifies
  BY <1>4, VerifiesCode DEF QrTypes, CodesDrawn, Verifies, page, NoCode
<1>5. CASE UNCHANGED cast /\ \E v \in cast.views : ViewStep(v)
  <2>1. PICK v \in cast.views : ViewStep(v)
    BY Zenon, <1>5
  <2>2. seen' = seen \/ seen' = seen \union {LiveGeneration}
    BY Zenon, <2>1 DEF ViewStep, Open, Turn, Stop, Pauses, Resumes, TakesNotice, Shows, Misses
  <2>3. LiveGeneration <= gen
    BY DEF QrTypes, CodesDrawn, LiveGeneration
  <2> QED
    BY Zenon, <2>1, <2>2, <2>3, ViewStepKeeps DEF CodesDrawn
<1>6. CASE UNCHANGED cast /\ \E l \in cast.links : LinkStep(l)
  BY Zenon, <1>6, LinkStepKeeps DEF CodesDrawn, code, page
<1> QED
  BY Zenon, <1>1, <1>2, <1>3, <1>4, <1>5, <1>6, Kinds

LEMMA ProvedStep ==
  ASSUME QrInv, [QrNext]_qrVars
  PROVE  ProvedIsOver'
<1> USE DEF QrInv
<1>1. CASE UNCHANGED qrVars
  BY Zenon, <1>1 DEF ProvedIsOver, qrVars, code, proofs
<1>2. CASE UNCHANGED cast /\ RunCommand
  <2>1. won' = won /\ gen' = gen + 1 /\ live'.code \in {gen + 1, 0} /\ gen \in Nat
    BY <1>2 DEF RunCommand, Started, Cancelled, NoCode, proofs, QrTypes
  <2>2. ASSUME NEW c \in Codes, c # 0, c <= gen
        PROVE  c <= gen + 1 /\ c # live'.code
    BY <2>1, <2>2 DEF Codes
  <2> QED
    BY Zenon, <2>1, <2>2 DEF ProvedIsOver
<1>3. CASE UNCHANGED cast /\ RunsOut
  BY Zenon, <1>3 DEF QrTypes, LiveCode, ProvedIsOver, RunsOut, proofs
<1>4. CASE Verifies
  <2>1. PICK l, c : c \in seen /\ (Accepts(l, c) \/ Refuses(l, c))
    BY Zenon, <1>4 DEF Verifies
  <2>2. CASE Refuses(l, c)
    BY <2>2, RefusesCode DEF ProvedIsOver, NoCode
  <2>3. CASE Accepts(l, c)
    <3>1. /\ live'.code = 0 /\ gen' = gen /\ c # 0 /\ c = live.code
          /\ won' = [won EXCEPT ![c] = @ \union {l}]
      BY <2>3, AcceptsCode DEF NoCode
    <3>2. \A d \in Codes : won'[d] = IF d = c THEN won[d] \union {l} ELSE won[d]
      BY Zenon, <3>1 DEF QrTypes
    <3>3. c \in Codes => won[c] = {}
      BY Zenon, <3>1 DEF ProvedIsOver
    <3>4. c <= gen
      BY Zenon, <3>1 DEF CodesDrawn
    <3> QED
      BY <3>1, <3>2, <3>3, <3>4 DEF ProvedIsOver
  <2> QED
    BY Zenon, <2>1, <2>2, <2>3
<1>5. CASE UNCHANGED cast /\ \E v \in cast.views : ViewStep(v)
  BY Zenon, <1>5, ViewStepKeeps DEF ProvedIsOver, proofs
<1>6. CASE UNCHANGED cast /\ \E l \in cast.links : LinkStep(l)
  BY Zenon, <1>6, LinkStepKeeps DEF ProvedIsOver, code, proofs
<1> QED
  BY Zenon, <1>1, <1>2, <1>3, <1>4, <1>5, <1>6, Kinds

LEMMA QrStep ==
  ASSUME QrInv, [QrNext]_qrVars
  PROVE  QrInv'
BY Zenon, QrTypesStep, CodesStep, ProvedStep DEF QrInv

(* A code "is consumed by the first valid proof": verify accepts one, on   *)
(* whatever links it is proved at once.                                    *)
THEOREM WinnerCorrect == QrSpec => []OneWinner
<1>1. QrInv => OneWinner
  <2>1. ASSUME NEW S, S = {} \/ \E l : S = {l} PROVE Cardinality(S) <= 1
    <3>1. CASE S = {}
      BY <3>1, FS_EmptySet
    <3>2. ASSUME NEW l, S = {l} PROVE Cardinality(S) <= 1
      <4>1. Cardinality({l}) = 1
        BY Zenon, FS_Singleton
      <4> QED
        BY <3>2, <4>1
    <3> QED
      BY Zenon, <2>1, <3>1, <3>2
  <2> QED
    BY Zenon, <2>1 DEF QrInv, ProvedIsOver, OneWinner
<1> QED
  BY <1>1, QrStart, QrStep, PTL DEF QrSpec

-----------------------------------------------------------------------------
(* There is a code for as long as a view is there to show it.  The queue   *)
(* of commands is in the way: what matters is the command sent last.       *)

LastIs(command) == commands # <<>> /\ commands[Len(commands)] = command

\* A view that ticks for a code, on screen or not.
Wants(v) == view[v].open /\ ~view[v].paused

\* Whoever asked last is there still, or the code was withdrawn since.
AskedByAView ==
  LastIs("start") \/ (commands = <<>> /\ live.code # 0) => \E v \in Views : Wants(v)

\* Whoever withdrew the code last has not asked since.
WithdrawnByAView == LastIs("cancel") => \E u \in cast.views : ~Wants(u)

\* A view without a code, once the commands have run: the live one has not
\* been on a screen yet, so nobody can have proved it; or another view took it.
CodeUnseen ==
  commands = <<>> => \A v \in Views : Wants(v) /\ view[v].shown = 0 =>
    \/ LiveGeneration # 0 /\ LiveGeneration \notin seen
    \/ \E u \in cast.views \ {v} : ~Wants(u) \/ view[u].shown # 0

FollowInv == AskedByAView /\ WithdrawnByAView /\ CodeUnseen

LEMMA LastOfAppend ==
  ASSUME NEW S, NEW s \in Seq(S), NEW e \in S
  PROVE  Append(s, e) # <<>> /\ Append(s, e)[Len(Append(s, e))] = e
OBVIOUS

LEMMA LastOfTail ==
  ASSUME NEW S, NEW s \in Seq(S), s # <<>>
  PROVE  /\ Tail(s) # <<>> => Tail(s)[Len(Tail(s))] = s[Len(s)]
         /\ Tail(s) = <<>> => Head(s) = s[Len(s)]
<1>1. Len(s) \in Nat \ {0} /\ Tail(s) \in Seq(S) /\ Len(Tail(s)) = Len(s) - 1 /\ Head(s) = s[1]
  OBVIOUS
<1>2. ASSUME Tail(s) = <<>> PROVE Len(s) = 1
  <2> DEFINE t == Tail(s)
  <2>1. Len(s) \in Nat /\ t \in Seq(S) /\ Len(t) = Len(s) - 1 /\ t = <<>>
    BY Zenon, <1>1, <1>2
  <2> HIDE DEF t
  <2>2. Len(t) = 0
    BY Zenon, <2>1
  <2> QED
    BY <2>1, <2>2
<1>3. ASSUME Tail(s) # <<>> PROVE Tail(s)[Len(Tail(s))] = s[Len(s)]
  <2>1. Len(Tail(s)) \in 1 .. Len(s) - 1
    BY <1>1, <1>3
  <2> QED
    BY <1>1, <2>1
<1> QED
  BY Zenon, <1>1, <1>2, <1>3

\* The commands a view may send, and what it is then.
LEMMA ViewSends ==
  ASSUME QrTypes, NEW v \in cast.views, ViewStep(v)
  PROVE  /\ v \in Views
         /\ \A u \in Views \ {v} : view'[u] = view[u]
         /\ \/ LastIs("start")' /\ Wants(v)'
            \/ LastIs("cancel")' /\ ~Wants(v)'
            \/ /\ commands' = commands /\ seen' = seen
               /\ Wants(v)' = Wants(v) /\ view'[v].shown = view[v].shown
            \/ /\ commands' = commands /\ seen' = seen \union {LiveGeneration}
               /\ Wants(v)' = Wants(v) /\ view'[v].shown # 0
<1>1. v \in Views
  BY Zenon, QrAssumption DEF QrTypes
<1>2. \A u \in Views \ {v} : view'[u] = view[u]
  BY Zenon, <1>1 DEF QrTypes, ViewStep, Open, Turn, Stop, Pauses, Resumes, TakesNotice, Shows, Misses
<1>3. ASSUME Send("start") PROVE LastIs("start")'
  BY SMTT(20), <1>3, LastOfAppend DEF Send, LastIs, QrTypes
<1>4. ASSUME Send("cancel") PROVE LastIs("cancel")'
  BY SMTT(20), <1>4, LastOfAppend DEF Send, LastIs, QrTypes
<1>5. view[v] \in Shown
  BY Zenon, <1>1 DEF QrTypes
<1>6. CASE Open(v)
  <2>1. view'[v].open /\ ~view'[v].paused
    BY Zenon, <1>1, <1>6 DEF Open, Closed, QrTypes
  <2> QED
    BY Zenon, <1>1, <1>2, <1>3, <1>6, <2>1 DEF Open, Wants
<1>7. CASE Turn(v)
  <2>1. view'[v].open = view[v].open /\ view'[v].paused = view[v].paused
        /\ view'[v].shown = view[v].shown
    BY Zenon, <1>1, <1>5, <1>7 DEF Turn, QrTypes, Shown
  <2> QED
    BY Zenon, <1>1, <1>2, <1>7, <2>1 DEF Turn, Wants
<1>8. CASE Stop(v)
  <2>1. ~view'[v].open
    BY Zenon, <1>1, <1>8 DEF Stop, Closed, QrTypes
  <2> QED
    BY Zenon, <1>1, <1>2, <1>4, <1>8, <2>1 DEF Stop, Wants
<1>9. CASE Pauses(v)
  <2>1. view'[v].paused
    BY Zenon, <1>1, <1>5, <1>9 DEF Pauses, QrTypes, Shown
  <2> QED
    BY Zenon, <1>1, <1>2, <1>4, <1>9, <2>1 DEF Pauses, Wants
<1>10. CASE Resumes(v)
  <2>1. view'[v].open /\ ~view'[v].paused
    BY Zenon, <1>1, <1>5, <1>10 DEF Resumes, QrTypes, Shown
  <2> QED
    BY Zenon, <1>1, <1>2, <1>3, <1>10, <2>1 DEF Resumes, Wants
<1>11. CASE TakesNotice(v) \/ Misses(v)
  <2>1. view'[v] = [view[v] EXCEPT !.shown = 0] /\ OnScreen(v) /\ AsksAgain(v) /\ seen' = seen
    BY Zenon, <1>1, <1>11 DEF TakesNotice, Misses, QrTypes
  <2>2. view'[v].open = view[v].open /\ view'[v].paused = view[v].paused /\ view'[v].shown = 0
    BY Zenon, <1>5, <2>1 DEF Shown
  <2> QED
    BY Zenon, <1>1, <1>2, <1>3, <2>1, <2>2 DEF AsksAgain, OnScreen, Wants
<1>12. CASE Shows(v)
  <2>1. view'[v].open = view[v].open /\ view'[v].paused = view[v].paused
        /\ view'[v].shown = LiveGeneration
    BY Zenon, <1>1, <1>5, <1>12 DEF Shows, QrTypes, Shown
  <2> QED
    BY Zenon, <1>1, <1>2, <1>12, <2>1 DEF Shows, Wants
<1> QED
  BY Zenon, <1>6, <1>7, <1>8, <1>9, <1>10, <1>11, <1>12 DEF ViewStep

LEMMA FollowView ==
  ASSUME QrInv, FollowInv, UNCHANGED cast, NEW v \in cast.views, ViewStep(v)
  PROVE  FollowInv'
<1>1. v \in Views /\ \A u \in Views \ {v} : view'[u] = view[u]
  BY Zenon, ViewSends DEF QrInv
<1>2. \A u \in Views \ {v} : Wants(u)' = Wants(u)
  BY Zenon, <1>1 DEF Wants
<1>3. UNCHANGED <<live, gen>> /\ LiveGeneration' = LiveGeneration
  BY Zenon, ViewStepKeeps DEF LiveGeneration
<1>4. cast.views \subseteq Views
  BY Zenon, QrAssumption DEF QrInv, QrTypes
<1>5. CASE LastIs("start")' /\ Wants(v)'
  BY Zenon, <1>1, <1>5 DEF FollowInv, AskedByAView, WithdrawnByAView, CodeUnseen, LastIs
<1>6. CASE LastIs("cancel")' /\ ~Wants(v)'
  BY Zenon, <1>1, <1>6 DEF FollowInv, AskedByAView, WithdrawnByAView, CodeUnseen, LastIs
<1>7. CASE /\ commands' = commands /\ seen' = seen
           /\ Wants(v)' = Wants(v) /\ view'[v].shown = view[v].shown
  <2>1. \A u \in Views : Wants(u)' = Wants(u) /\ view'[u].shown = view[u].shown
    BY Zenon, <1>1, <1>2, <1>7
  <2>2. AskedByAView' /\ WithdrawnByAView'
    BY Zenon, <1>3, <1>4, <1>7, <2>1 DEF FollowInv, AskedByAView, WithdrawnByAView, LastIs
  <2>3. CodeUnseen'
    BY Zenon, <1>3, <1>4, <1>7, <2>1 DEF FollowInv, CodeUnseen
  <2> QED
    BY Zenon, <2>2, <2>3 DEF FollowInv
<1>8. CASE /\ commands' = commands /\ seen' = seen \union {LiveGeneration}
           /\ Wants(v)' = Wants(v) /\ view'[v].shown # 0
  <2>1. \A u \in Views : Wants(u)' = Wants(u)
    BY Zenon, <1>1, <1>2, <1>8
  <2>2. AskedByAView' /\ WithdrawnByAView'
    BY Zenon, <1>3, <1>4, <1>8, <2>1 DEF FollowInv, AskedByAView, WithdrawnByAView, LastIs
  <2>3. CodeUnseen'
    BY Zenon, <1>1, <1>8, <2>1 DEF CodeUnseen
  <2> QED
    BY Zenon, <2>2, <2>3 DEF FollowInv
<1> QED
  BY Zenon, <1>5, <1>6, <1>7, <1>8, ViewSends DEF QrInv

LEMMA FollowRun ==
  ASSUME QrInv, FollowInv, UNCHANGED cast, RunCommand
  PROVE  FollowInv'
<1>1. commands \in Seq({"start", "cancel"}) /\ commands # <<>> /\ commands' = Tail(commands)
  BY Zenon DEF RunCommand, QrInv, QrTypes
<1>2. UNCHANGED <<view, seen>> /\ \A u : Wants(u)' = Wants(u)
  BY Zenon DEF RunCommand, Wants
<1>3. commands' # <<>> => commands'[Len(commands')] = commands[Len(commands)]
  BY Zenon, <1>1, LastOfTail
<1>4. commands' = <<>> => Head(commands) = commands[Len(commands)]
  BY Zenon, <1>1, LastOfTail
<1>5. Head(commands) \in {"start", "cancel"}
  BY <1>1
<1>6. CASE Head(commands) = "start"
  <2>1. live'.code = gen + 1 /\ ~live'.over /\ gen \in Nat /\ \A c \in seen : c <= gen /\ c \in Nat
    BY Zenon, <1>6 DEF RunCommand, Started, NoCode, QrInv, QrTypes, CodesDrawn
  <2>2. LiveGeneration' # 0 /\ LiveGeneration' \notin seen
    BY <2>1 DEF LiveGeneration
  <2>3. AskedByAView'
    BY Zenon, <1>1, <1>2, <1>3, <1>4, <1>6 DEF FollowInv, AskedByAView, LastIs
  <2>4. WithdrawnByAView'
    BY Zenon, <1>1, <1>2, <1>3 DEF FollowInv, WithdrawnByAView, LastIs
  <2>5. CodeUnseen'
    BY Zenon, <1>2, <2>2 DEF CodeUnseen
  <2> QED
    BY Zenon, <2>3, <2>4, <2>5 DEF FollowInv
<1>7. CASE Head(commands) = "cancel"
  <2>1. live'.code = 0
    BY <1>7 DEF RunCommand, Cancelled, NoCode
  <2>2. AskedByAView'
    BY Zenon, <1>1, <1>2, <1>3, <2>1 DEF FollowInv, AskedByAView, LastIs
  <2>3. WithdrawnByAView'
    BY Zenon, <1>1, <1>2, <1>3 DEF FollowInv, WithdrawnByAView, LastIs
  <2>4. CodeUnseen'
    BY Zenon, <1>1, <1>2, <1>4, <1>7 DEF FollowInv, WithdrawnByAView, CodeUnseen, LastIs
  <2> QED
    BY Zenon, <2>2, <2>3, <2>4 DEF FollowInv
<1> QED
  BY Zenon, <1>5, <1>6, <1>7

\* A code that ends while the views look at it is one they all show.
LEMMA FollowEnds ==
  ASSUME QrInv, FollowInv, UNCHANGED <<cast, page>>,
         \/ live'.code = live.code /\ live'.over = live.over
         \/ live'.code = 0 /\ live'.over = FALSE /\ LiveGeneration \in {0} \union seen
         \/ live'.code \in {live.code, 0} /\ live.code # 0 /\ Settled
  PROVE  FollowInv'
<1>1. UNCHANGED <<cast, commands, view, seen>>
  BY Zenon DEF page
<1>2. AskedByAView' /\ WithdrawnByAView'
  BY Zenon, <1>1 DEF FollowInv, AskedByAView, WithdrawnByAView, LastIs, Wants
<1>3. ASSUME live'.code = live.code, live'.over = live.over
      PROVE  CodeUnseen'
  <2>1. LiveGeneration' = LiveGeneration
    BY Zenon, <1>3 DEF LiveGeneration
  <2> QED
    BY Zenon, <1>1, <2>1 DEF FollowInv, CodeUnseen, Wants
<1>4. ASSUME LiveGeneration \in {0} \union seen
      PROVE  CodeUnseen'
  BY Zenon, <1>1, <1>4 DEF FollowInv, CodeUnseen, Wants
<1>5. ASSUME live.code # 0, Settled
      PROVE  CodeUnseen'
  BY Zenon, <1>1, <1>5 DEF CodeUnseen, Settled, Wants
<1>6. CodeUnseen'
  BY Zenon, <1>3, <1>4, <1>5
<1> QED
  BY Zenon, <1>2, <1>6 DEF FollowInv

LEMMA FollowStep ==
  ASSUME QrInv, FollowInv, [QrNext]_qrVars
  PROVE  FollowInv'
<1>1. CASE UNCHANGED qrVars
  BY Zenon, <1>1, FollowEnds DEF qrVars, code
<1>2. CASE UNCHANGED cast /\ RunsOut
  BY Zenon, <1>2, FollowEnds DEF RunsOut, QrInv, QrTypes, LiveCode
<1>3. CASE Verifies
  <2>1. PICK l, c : c \in seen /\ (Accepts(l, c) \/ Refuses(l, c))
    BY Zenon, <1>3 DEF Verifies
  <2>2. UNCHANGED <<cast, page>> /\ NoCode.code = 0 /\ NoCode.over = FALSE
    BY Zenon, <1>3 DEF Verifies, NoCode
  <2>3. CASE Accepts(l, c)
    <3>1. live' = NoCode /\ LiveGeneration \in seen
      BY Zenon, <2>1, <2>3, AcceptsCode DEF QrInv, LiveGeneration
    <3> QED
      BY Zenon, <2>2, <3>1, FollowEnds
  <2>4. CASE Refuses(l, c)
    BY Zenon, <2>2, <2>4, RefusesCode, FollowEnds DEF QrInv
  <2> QED
    BY Zenon, <2>1, <2>3, <2>4
<1>4. CASE UNCHANGED cast /\ \E l \in cast.links : LinkStep(l)
  BY Zenon, <1>4, LinkStepKeeps, FollowEnds DEF code
<1> QED
  BY Zenon, <1>1, <1>2, <1>3, <1>4, FollowView, FollowRun, Kinds

(* "No code stays live that nobody can see", and a view on screen has a    *)
(* code or one coming, however the views' commands queue up and whoever    *)
(* uses a code meanwhile.                                                  *)
THEOREM CodeCorrect == QrSpec => []CodeFollowsViews
<1>1. QrInit => FollowInv
  BY DEF QrInit, FollowInv, AskedByAView, WithdrawnByAView, CodeUnseen, LastIs, NoCode, Wants, Closed
<1>2. FollowInv => CodeFollowsViews
  <2>1. FollowInv => NoUnseenCode
    BY Zenon DEF FollowInv, AskedByAView, NoUnseenCode, Wants
  <2>2. FollowInv => CodeComes
    BY Zenon DEF FollowInv, CodeUnseen, CodeComes, OnScreen, Wants
  <2> QED
    BY Zenon, <2>1, <2>2 DEF CodeFollowsViews
<1> QED
  BY <1>1, <1>2, QrStart, QrStep, FollowStep, PTL DEF QrSpec

-----------------------------------------------------------------------------
(* The slots of the links that wait for a proof.                           *)

Served == {l \in Holding : link[l].pc # "over"}

LEMMA HoldingFinite ==
  IsFiniteSet(Holding) /\ IsFiniteSet(Served)
  /\ Cardinality(Holding) \in Nat /\ Cardinality(Served) \in Nat
  /\ Cardinality(Served) <= Cardinality(Holding)
<1>1. Holding \subseteq NewLinks /\ Served \subseteq Holding
  BY Zenon DEF Holding, Served
<1>2. IsFiniteSet(Holding)
  BY Zenon, <1>1, QrAssumption, FS_Subset
<1> QED
  BY Zenon, <1>1, <1>2, FS_Subset, FS_CardinalityType

LEMMA Gains ==
  ASSUME NEW S, IsFiniteSet(S), NEW x, x \notin S
  PROVE  Cardinality(S \cup {x}) = Cardinality(S) + 1
BY Zenon, FS_AddElement

LEMMA Loses ==
  ASSUME NEW S, IsFiniteSet(S), NEW x \in S
  PROVE  Cardinality(S \ {x}) = Cardinality(S) - 1
BY Zenon, FS_RemoveElement

\* A step in which no link takes a slot or gives one back.
LEMMA SlotsSame ==
  ASSUME SlotsReturned, slots' = slots, Holding' = Holding, Served' \subseteq Served
  PROVE  SlotsReturned'
<1>1. Cardinality(Served') <= Cardinality(Served) /\ Cardinality(Served') \in Nat
  BY Zenon, HoldingFinite, FS_Subset, FS_CardinalityType
<1> QED
  BY <1>1, HoldingFinite, QrAssumption DEF SlotsReturned, Served

\* Every way out gives it back.
LEMMA SlotsBack ==
  ASSUME SlotsReturned, NEW l \in Holding, slots' = slots - 1, Holding' = Holding \ {l},
         Served' \subseteq Served
  PROVE  SlotsReturned'
<1>1. Cardinality(Holding') = Cardinality(Holding) - 1
  BY Zenon, HoldingFinite, Loses
<1>2. Cardinality(Served') <= Cardinality(Served) /\ Cardinality(Served') \in Nat
  BY Zenon, HoldingFinite, FS_Subset, FS_CardinalityType
<1> QED
  BY <1>1, <1>2, HoldingFinite, QrAssumption DEF SlotsReturned, Served

\* admit_qr_only.
LEMMA SlotsAdmit ==
  ASSUME QrTypes, SlotsReturned, NEW l \in NewLinks, Admit(l)
  PROVE  SlotsReturned'
<1>1. l \in Links /\ l \notin Holding
  BY Zenon DEF Admit, Holding, Links
<1>2. \A k \in Links : link'[k].pc = IF k # l THEN link[k].pc
                                     ELSE IF slots >= MaxQrLinks THEN "over" ELSE "serve"
  BY Zenon, <1>1 DEF Admit, At, QrTypes
<1>3. Holding' = Holding \cup {l}
  BY Zenon, <1>2 DEF Holding, Links
<1>4. Cardinality(Holding') = Cardinality(Holding) + 1
  BY Zenon, <1>1, <1>3, HoldingFinite, Gains
<1>5. slots' = slots + 1
  BY Zenon DEF Admit
<1>6. CASE slots >= MaxQrLinks
  <2>1. Served' = Served
    BY Zenon, <1>1, <1>2, <1>3, <1>6 DEF Served, Holding, Links
  <2> QED
    BY Zenon, <1>4, <1>5, <2>1, HoldingFinite DEF SlotsReturned, Served
<1>7. CASE ~(slots >= MaxQrLinks)
  <2>1. Served' = Served \cup {l} /\ l \notin Served
    BY Zenon, <1>1, <1>2, <1>3, <1>7 DEF Served, Holding, Links
  <2>2. Cardinality(Served') = Cardinality(Served) + 1
    BY Zenon, <2>1, HoldingFinite, Gains
  <2>3. Cardinality(Served) + 1 <= MaxQrLinks
    BY <1>7, HoldingFinite, QrAssumption DEF SlotsReturned
  <2> QED
    BY Zenon, <1>4, <1>5, <2>2, <2>3, HoldingFinite DEF SlotsReturned, Served
<1> QED
  BY Zenon, <1>6, <1>7

LEMMA SlotsStep ==
  ASSUME QrTypes, SlotsReturned, [QrNext]_qrVars
  PROVE  SlotsReturned'
<1>1. cast.links \subseteq NewLinks /\ NewLinks \subseteq Links /\ Known \notin NewLinks
  BY Zenon, QrAssumption DEF QrTypes, Links
<1>2. ASSUME UNCHANGED <<link, slots>> PROVE SlotsReturned'
  BY Zenon, <1>2 DEF SlotsReturned, Holding
<1>3. ASSUME NEW l \in NewLinks, NEW from, NEW pc, link[l].pc = from, At(l, pc)
      PROVE  \A k \in NewLinks : link'[k].pc = IF k = l THEN pc ELSE link[k].pc
  BY Zenon, <1>1, <1>3 DEF At, QrTypes
<1>4. ASSUME NEW l \in cast.links, LinkStep(l) \/ Proves(l)
      PROVE  SlotsReturned'
  <2>0. l \in NewLinks
    BY Zenon, <1>1
  <2>1. CASE Admission(l)
    <3>1. \A k \in NewLinks : link'[k].pc = IF k = l THEN "admit" ELSE link[k].pc
      BY Zenon, <1>1, <2>1 DEF Admission, QrTypes
    <3>2. Holding' = Holding /\ Served' = Served /\ slots' = slots
      BY <2>1, <3>1 DEF Admission, Holding, Served
    <3> QED
      BY Zenon, <3>2, SlotsSame
  <2>2. CASE Admit(l)
    BY Zenon, <2>0, <2>2, SlotsAdmit
  <2>3. CASE TurnedAway(l) \/ Ends(l) \/ Promotes(l)
    <3>1. PICK pc \in {"none", "attached"} : At(l, pc)
      BY Zenon, <2>3 DEF TurnedAway, Ends, Promotes
    <3>2. \A k \in NewLinks : link'[k].pc = IF k = l THEN pc ELSE link[k].pc
      BY Zenon, <2>0, <3>1, <1>3
    <3>3. l \in Holding /\ slots' = slots - 1
      BY Zenon, <2>0, <2>3 DEF TurnedAway, Ends, Promotes, Holding
    <3>4. Holding' = Holding \ {l} /\ Served' \subseteq Served
      BY Zenon, <3>2 DEF Holding, Served
    <3> QED
      BY Zenon, <3>3, <3>4, SlotsBack
  <2>4. CASE LooksAgain(l) \/ Idles(l) \/ Trusts(l) \/ Proves(l)
    <3>1. PICK pc \in {"read", "serve", "trust", "promote", "refused"} : At(l, pc)
      BY Zenon, <2>4 DEF LooksAgain, Idles, Trusts, Proves
    <3>2. \A k \in NewLinks : link'[k].pc = IF k = l THEN pc ELSE link[k].pc
      BY Zenon, <2>0, <3>1, <1>3
    <3>3. link[l].pc \in {"serve", "read", "trust"} /\ slots' = slots
      BY Zenon, <2>4 DEF LooksAgain, Idles, Trusts, Proves
    <3>4. Holding' = Holding /\ Served' \subseteq Served
      BY Zenon, <2>0, <3>2, <3>3 DEF Holding, Served
    <3> QED
      BY Zenon, <3>3, <3>4, SlotsSame
  <2>5. CASE Leaves(l)
    <3>1. \A k \in NewLinks : link'[k].pc = IF k = l THEN "none" ELSE link[k].pc
      BY Zenon, <1>1, <2>5 DEF Leaves, QrTypes
    <3>2. Holding' = Holding /\ Served' = Served /\ slots' = slots
      BY <2>5, <3>1 DEF Leaves, Holding, Served
    <3> QED
      BY Zenon, <3>2, SlotsSame
  <2> QED
    BY Zenon, <1>4, <2>1, <2>2, <2>3, <2>4, <2>5 DEF LinkStep
<1>5. ASSUME NEW v, ViewStep(v) PROVE SlotsReturned'
  BY Zenon, <1>2, <1>5, ViewStepKeeps
<1>6. ASSUME RunCommand \/ RunsOut \/ SessionProves \/ UNCHANGED qrVars PROVE SlotsReturned'
  BY Zenon, <1>2, <1>6 DEF RunCommand, RunsOut, SessionProves, qrVars
<1> QED
  BY Zenon, <1>4, <1>5, <1>6 DEF QrNext, ViewStep, LinkStep

(* QR_ONLY_LINKS counts the links that took a slot, on every way out of    *)
(* the handshake, and admits no more of them than MAX_QR_ONLY_LINKS.       *)
THEOREM QrSlotsCorrect == QrSpec => []SlotsReturned
<1>1. QrInit => SlotsReturned
  <2> SUFFICES ASSUME QrInit PROVE SlotsReturned
    BY Zenon
  <2>1. Holding = {} /\ Served = {} /\ slots = 0
    BY Zenon, QrAssumption DEF QrInit, Holding, Served, Links
  <2> QED
    BY <2>1, FS_EmptySet, QrAssumption DEF SlotsReturned, Served
<1>2. QrInv => QrTypes
  BY Zenon DEF QrInv
<1> QED
  BY <1>1, <1>2, QrStart, QrStep, SlotsStep, PTL DEF QrSpec

-----------------------------------------------------------------------------
(* The wrong proofs.                                                       *)

\* The total counts every device's, and none is counted past MAX_FAILURES.
FailuresCounted ==
  /\ live.total = live.failures["new"] + live.failures["known"]
  /\ \A p \in Phones : live.failures[p] <= MaxFailures

FailInv == FailuresCounted /\ BurnedByMany

LEMMA FailVerify ==
  ASSUME QrTypes, FailInv, Verifies
  PROVE  FailInv'
<1>1. PICK l, c : c \in seen /\ (Accepts(l, c) \/ Refuses(l, c))
  BY Zenon DEF Verifies
<1>2. ASSUME live' = NoCode PROVE FailuresCounted'
  BY <1>2, QrAssumption DEF NoCode, NoFailures, FailuresCounted, Phones
<1>3. CASE Accepts(l, c)
  BY Zenon, <1>2, <1>3, AcceptsCode DEF Accepts, Used, FailInv, BurnedByMany
<1> DEFINE p == PhoneOf(l)
           w == Wrong(p)
<1>4. p \in Phones /\ live.failures \in [Phones -> Nat] /\ live.total \in Nat
  BY Zenon DEF PhoneOf, Phones, QrTypes, LiveCode
<1>5. w.failures = [live.failures EXCEPT ![p] = @ + 1] /\ w.total = live.total + 1
  BY Zenon DEF Wrong, QrTypes, LiveCode
<1>6. ASSUME ~TooMany(p)
      PROVE  /\ w.total = w.failures["new"] + w.failures["known"]
             /\ \A o \in Phones : w.failures[o] <= MaxFailures /\ w.failures[o] \in Nat
  BY <1>4, <1>5, <1>6, QrAssumption DEF FailInv, FailuresCounted, TooMany, Phones
<1>7. ASSUME ~TooMany(p), Burned, blamed' = {o \in Phones : w.failures[o] > 0}
      PROVE  BurnedByMany'
  <2>1. w.failures["new"] > 0 /\ w.failures["known"] > 0
    BY <1>4, <1>5, <1>6, <1>7, QrAssumption DEF Burned, Phones
  <2>2. blamed' = {"new", "known"}
    BY Zenon, <1>7, <2>1 DEF Phones
  <2>3. Cardinality({"new"}) = 1 /\ IsFiniteSet({"new"}) /\ {"new", "known"} = {"new"} \cup {"known"}
        /\ "known" \notin {"new"}
    BY Zenon, FS_Singleton
  <2>4. Cardinality({"new", "known"}) = 2
    BY <2>3, Gains
  <2> QED
    BY <2>2, <2>4 DEF BurnedByMany
<1>8. CASE Refuses(l, c)
  <2>1. CASE live' = live /\ blamed' = blamed
    BY Zenon, <2>1 DEF FailInv, FailuresCounted, BurnedByMany
  <2>2. CASE live' = NoCode /\ blamed' = blamed
    BY Zenon, <1>2, <2>2 DEF FailInv, BurnedByMany
  <2>3. CASE ~TooMany(p) /\ live' = w /\ blamed' = blamed
    BY Zenon, <1>6, <2>3 DEF FailInv, FailuresCounted, BurnedByMany
  <2>4. CASE ~TooMany(p) /\ Burned /\ live' = NoCode /\ blamed' = {o \in Phones : w.failures[o] > 0}
    BY Zenon, <1>2, <1>7, <2>4 DEF FailInv
  <2> QED
    BY Zenon, <1>8, <2>1, <2>2, <2>3, <2>4 DEF Refuses
<1> QED
  BY Zenon, <1>1, <1>3, <1>8

LEMMA FailStep ==
  ASSUME QrTypes, FailInv, [QrNext]_qrVars
  PROVE  FailInv'
<1>1. ASSUME live'.failures = live.failures, live'.total = live.total, blamed' = blamed
      PROVE  FailInv'
  BY Zenon, <1>1 DEF FailInv, FailuresCounted, BurnedByMany
<1>2. CASE UNCHANGED qrVars
  BY Zenon, <1>1, <1>2 DEF qrVars, code, proofs
<1>3. CASE UNCHANGED cast /\ RunCommand
  <2>1. live'.failures = NoFailures /\ live'.total = 0 /\ blamed' = blamed
    BY <1>3 DEF RunCommand, Started, Cancelled, NoCode, proofs
  <2> QED
    BY <2>1, QrAssumption DEF FailInv, FailuresCounted, BurnedByMany, NoFailures, Phones
<1>4. CASE UNCHANGED cast /\ RunsOut
  BY Zenon, <1>1, <1>4 DEF RunsOut, QrTypes, LiveCode, proofs
<1>5. CASE UNCHANGED cast /\ \E v \in cast.views : ViewStep(v)
  BY Zenon, <1>1, <1>5, ViewStepKeeps DEF proofs
<1>6. CASE UNCHANGED cast /\ \E l \in cast.links : LinkStep(l)
  BY Zenon, <1>1, <1>6, LinkStepKeeps DEF code, proofs
<1> QED
  BY Zenon, <1>2, <1>3, <1>4, <1>5, <1>6, FailVerify, Kinds

(* Wrong proofs are "counted per device, not for the code": those of one   *)
(* phone alone never burn the code the others are shown.                   *)
THEOREM BurnedCorrect == QrSpec => []BurnedByMany
<1>1. QrInit => FailInv
  BY QrAssumption DEF QrInit, FailInv, FailuresCounted, BurnedByMany, NoCode, NoFailures, Phones
<1>2. FailInv => BurnedByMany
  BY Zenon DEF FailInv
<1>3. QrInv => QrTypes
  BY Zenon DEF QrInv
<1> QED
  BY <1>1, <1>2, <1>3, QrStart, QrStep, FailStep, PTL DEF QrSpec

=============================================================================
