----------------------------- MODULE RelayTurn ------------------------------
(***************************************************************************)
(* The relay's daily quota of TURN credentials: TurnQuota of               *)
(* relay/src/limits.rs, its use by connection threads (Conn::turn of       *)
(* relay/src/server.rs) and its file (relay/src/main.rs).                  *)
(*                                                                         *)
(* A thread reads the clock, charges the quota under its lock, asks the    *)
(* credential backend with no lock held and refunds a failure.  Counters   *)
(* are kept under keys hashed with the day's salt: a key of another salt   *)
(* is a key that is not there.                                             *)
(***************************************************************************)
EXTENDS Naturals, FiniteSets

CONSTANTS
  Threads,     \* connections that ask for credentials
  Pairs,       \* pairs of devices
  Networks,    \* networks and /48s
  TiersOf,     \* per thread: the networks it is charged under
  PairCap,     \* turn_per_pair_per_day
  NetworkCap,  \* per network: turn_per_network_per_day, turn_per_ipv6_48_per_day
  MaxDay,      \* bound: days the clock runs
  MaxGrants,   \* bound: grants charged
  MaxRestarts, \* bound: times the process is stopped and started
  None

VARIABLES
  clock,  \* the UTC day
  quota,  \* the TurnQuota in memory
  file,   \* the one saved in state_file
  salts,  \* salts drawn so far
  req,    \* per thread: the request it is serving
  \* history
  held,   \* grants charged and not refunded
  issued,   \* grants charged
  loaded, \* the quota the process started with
  lives   \* restarts

turnVars == <<clock, quota, file, salts, req, held, issued, loaded, lives>>

NoRequest == [pc |-> "idle", pair |-> None, day |-> 0, grant |-> None]
Empty(day, salt) ==
  [day |-> day, salt |-> salt, pairs |-> [p \in Pairs |-> 0], networks |-> [n \in Networks |-> 0]]

Grants == [id : 1 .. MaxGrants, day : 0 .. MaxDay, salt : 1 .. salts, pair : Pairs,
           networks : SUBSET Networks, life : 0 .. MaxRestarts]
Quotas == [day : 0 .. MaxDay, salt : 0 .. salts, pairs : [Pairs -> 0 .. PairCap],
           networks : [Networks -> Nat]]

\* Every variable has its type, and no counter passes its cap.
TurnTypeOK ==
  /\ clock \in 0 .. MaxDay /\ salts \in Nat
  /\ quota \in Quotas /\ file \in Quotas /\ loaded \in Quotas
  /\ \A n \in Networks : quota.networks[n] <= NetworkCap[n]
  /\ \A t \in Threads :
       /\ req[t].pc \in {"idle", "asked", "charged"}
       /\ req[t].pair \in Pairs \cup {None} /\ req[t].day \in 0 .. MaxDay
       /\ req[t].pc = "charged" => req[t].grant \in Grants
  /\ held \subseteq Grants
  /\ issued \in 0 .. MaxGrants /\ lives \in 0 .. MaxRestarts

\* Salt 0 is the empty salt of TurnQuota::default.
TurnInit ==
  /\ clock = 0 /\ salts = 0
  /\ quota = Empty(0, 0) /\ file = Empty(0, 0) /\ loaded = Empty(0, 0)
  /\ req = [t \in Threads |-> NoRequest]
  /\ held = {} /\ issued = 0 /\ lives = 0

Midnight ==
  /\ clock < MaxDay
  /\ clock' = clock + 1
  /\ UNCHANGED <<quota, file, salts, req, held, issued, loaded, lives>>

\* turn: the time is taken before the lock.
Ask(t, p) ==
  /\ req[t].pc = "idle"
  /\ req' = [req EXCEPT ![t] = [pc |-> "asked", pair |-> p, day |-> clock, grant |-> None]]
  /\ UNCHANGED <<clock, quota, file, salts, held, issued, loaded, lives>>

\* roll: any other day than the one counted starts anew under a fresh salt.
Rolls(day)  == day # quota.day \/ quota.salt = 0
Rolled(day) == IF Rolls(day) THEN Empty(day, salts + 1) ELSE quota

\* try_grant refuses at a cap of the pair or of one of the networks,
AtCap(q, p, tiers) ==
  q.pairs[p] >= PairCap \/ \E n \in tiers : q.networks[n] >= NetworkCap[n]

\* and charges each of them.
Charged(q, g) ==
  [q EXCEPT !.pairs[g.pair] = @ + 1,
            !.networks = [n \in Networks |-> IF n \in g.networks THEN @[n] + 1 ELSE @[n]]]

TryGrant(t) ==
  LET q == Rolled(req[t].day)
      g == [id |-> issued + 1, day |-> q.day, salt |-> q.salt, pair |-> req[t].pair,
            networks |-> TiersOf[t], life |-> lives]
  IN
  /\ req[t].pc = "asked" /\ issued < MaxGrants
  /\ salts' = IF Rolls(req[t].day) THEN salts + 1 ELSE salts
  /\ IF AtCap(q, req[t].pair, TiersOf[t])
       THEN /\ quota' = q
            /\ req' = [req EXCEPT ![t] = NoRequest]
            /\ UNCHANGED <<held, issued>>
       ELSE /\ quota' = Charged(q, g)
            /\ req' = [req EXCEPT ![t] = [@ EXCEPT !.pc = "charged", !.grant = g]]
            /\ held' = held \cup {g} /\ issued' = issued + 1
  /\ UNCHANGED <<clock, file, loaded, lives>>

\* The backend answers: the credentials are the client's.
Credentials(t) ==
  /\ req[t].pc = "charged"
  /\ req' = [req EXCEPT ![t] = NoRequest]
  /\ UNCHANGED <<clock, quota, file, salts, held, issued, loaded, lives>>

\* Mutant: only the pair is given back.
RefundedPair(q, g) ==
  IF g.day # q.day \/ g.salt # q.salt THEN q ELSE [q EXCEPT !.pairs[g.pair] = @ - 1]

\* refund: nothing for a day that is over or a key that is not there.
Refunded(q, g) ==
  IF g.day # q.day \/ g.salt # q.salt THEN q
    ELSE [q EXCEPT !.pairs[g.pair] = @ - 1,
                   !.networks = [n \in Networks |-> IF n \in g.networks THEN @[n] - 1 ELSE @[n]]]

\* The backend fails.
Refund(t) ==
  /\ req[t].pc = "charged"
  /\ quota' = Refunded(quota, req[t].grant)
  /\ held' = held \ {req[t].grant}
  /\ req' = [req EXCEPT ![t] = NoRequest]
  /\ UNCHANGED <<clock, file, salts, issued, loaded, lives>>

\* save: every minute and at a stop; the rename makes it whole or nothing.
Save ==
  /\ file' = quota
  /\ UNCHANGED <<clock, quota, salts, req, held, issued, loaded, lives>>

\* The process ends, at any point, and loads the file again; one that cannot
\* be read counts as a first start.
Restart ==
  /\ lives < MaxRestarts
  /\ \E q \in {file, Empty(0, 0)} : quota' = q /\ loaded' = q
  /\ req' = [t \in Threads |-> NoRequest]
  /\ lives' = lives + 1
  /\ UNCHANGED <<clock, file, salts, held, issued>>

TurnNext ==
  \/ Midnight \/ Save \/ Restart
  \/ \E t \in Threads : TryGrant(t) \/ Credentials(t) \/ Refund(t) \/ \E p \in Pairs : Ask(t, p)

TurnSpec == TurnInit /\ [][TurnNext]_turnVars
-----------------------------------------------------------------------------
(* Properties.                                                             *)

\* Grants of the counters in memory, issued by this process and not refunded.
Counted == {g \in held : g.salt = quota.salt /\ g.life = lives}
Before  == IF loaded.salt = quota.salt THEN loaded ELSE Empty(0, 0)

\* "An outage does not burn a pair's whole day", nor a network's: each counter
\* is what was loaded and the grants of its day that were not given back,
\* whatever failed on the other side of a midnight.
QuotaCounts ==
  /\ \A p \in Pairs :
       quota.pairs[p] = Before.pairs[p] + Cardinality({g \in Counted : g.pair = p})
  /\ \A n \in Networks :
       quota.networks[n] = Before.networks[n] + Cardinality({g \in Counted : n \in g.networks})

=============================================================================
