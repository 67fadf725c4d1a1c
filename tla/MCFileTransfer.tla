--------------------------- MODULE MCFileTransfer ---------------------------
(* Instances of FileTransfer for TLC: which troubles meet in a behaviour.   *)
EXTENDS FileTransfer

Troubles == {"cut", "damage", "storage", "write", "backlog", "overflow", "quiet", "send",
             "busy", "refuse", "place", "cancel", "change", "gone"}
LaneTroubles == {"cut", "damage", "storage", "overflow", "quiet", "change", "break",
                 "stall", "slow", "token"}

\* Any two troubles, or one of them twice.
TwoOf(kinds) == {[k \in {a, b} |-> IF a = b THEN 2 ELSE 1] : a, b \in kinds}

\* A crash with any other trouble but the loss of the link.
CrashAnd(kinds) == {[k \in {a, "crash"} |-> 1] : a \in kinds}

\* One lane with one trouble, or with two that meet at its end; two lanes.
LaneAnd(kinds) == {[k \in {a, "lane"} |-> 1] : a \in kinds}
LaneEnds == {[k \in {a, "break", "lane"} |-> 1] : a \in {"storage", "slow"}}
TwoLanes == {[p EXCEPT !.lane = 2] : p \in LaneAnd({"dial", "promote", "break"})}

MCScenarios ==
  TwoOf(Troubles) \cup CrashAnd(Troubles \ {"cut"}) \cup {[crash |-> 2], [damage |-> 3]}
  \cup LaneAnd(LaneTroubles) \cup LaneEnds \cup TwoLanes

MCBacklog == {[backlog |-> 1]}
=============================================================================
