----------------------------- MODULE MCRelayHub -----------------------------
(* Instances of RelayHub for TLC: all three connections
come from one /48, the first two from one /64 of it, which they fill. *)
EXTENDS RelayHub

CONSTANTS desk, phone, c1, c2, c3, net1, net2, wide, WideCap

MCTiersOf == [c \in Conns |-> IF c = c3 THEN {net2, wide} ELSE {net1, wide}]
MCTierCap == [t \in Tiers |-> IF t = wide THEN WideCap ELSE 2]
=============================================================================
