---- MODULE MCChatRoute ----
EXTENDS ChatRoute

CONSTANTS r1, r2, r3

(* Everybody asks the same, r3 for another owner. *)
TwoOwners == [r \in Requests |-> IF r = r3 THEN "o2" ELSE "o1"]
OneBody   == [r \in Requests |-> "b"]
====
