---------------------------- MODULE FileDelivery ----------------------------
(***************************************************************************)
(* What sending a file promises the two people: the abstract specification *)
(* FileTransfer implements.                                                *)
(*                                                                         *)
(* The sender holds a version of the file and may go over to a newer one   *)
(* while the send is open.  Copies appear whole in the receiver's          *)
(* downloads.  A send that is interrupted may publish the same version     *)
(* again, but never an older one after a newer one.  "sent" means the      *)
(* sender's version is the one published last, and it is final.            *)
(***************************************************************************)
EXTENDS Integers, Sequences

VARIABLES version,  \* the version being sent
          copies,   \* the versions published at the receiver, in order
          outcome   \* "open" until the send is over

Newest == IF copies = <<>> THEN 0 ELSE copies[Len(copies)]

Init == version = 0 /\ copies = <<>> /\ outcome = "open"

\* The source changed: the send goes on with what it is now.
Revise ==
  /\ outcome = "open"
  /\ version' \in Nat /\ version' > version
  /\ UNCHANGED <<copies, outcome>>

\* A whole copy is published.  It may be late: the person has cancelled, or the
\* sender has gone over to a newer version and the old one was complete.
Deliver ==
  /\ outcome # "sent"
  /\ \E v \in Newest..version : copies' = Append(copies, v)
  /\ UNCHANGED <<version, outcome>>

Finish ==
  /\ outcome = "open" /\ outcome' \in {"sent", "failed", "cancelled"}
  /\ outcome' = "sent" => copies # <<>> /\ Newest = version
  /\ UNCHANGED <<version, copies>>

Next == Revise \/ Deliver \/ Finish

Spec == Init /\ [][Next]_<<version, copies, outcome>>

=============================================================================
