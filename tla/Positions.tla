----------------------------- MODULE Positions -----------------------------
(***************************************************************************)
(* Parts of a sequence, described by the positions they come from: without *)
(* recursion, so that what is said of a whole sequence can be compared     *)
(* with what is said of its beginning.                                     *)
(***************************************************************************)
EXTENDS Naturals, Sequences, FiniteSets

(* How many positions of a set lie up to i, and the k-th of a set. *)
Rank(S, i) == Cardinality({j \in S : j <= i})
Nth(S, k)  == CHOOSE i \in S : Rank(S, i) = k

(* The elements of a sequence at a set of positions. *)
Select(s, S) == [k \in 1..Cardinality(S) |-> s[Nth(S, k)]]

(* The pieces of a sequence between the occurrences of a separator. *)
Cuts(s, separator) == {i \in 1..Len(s) : s[i] = separator}
Bounds(s, separator) == Cuts(s, separator) \cup {0, Len(s) + 1}
Pieces(s, separator) ==
    LET bounds == Bounds(s, separator)
    IN  [k \in 1..Cardinality(Cuts(s, separator)) + 1 |->
            SubSeq(s, Nth(bounds, k) + 1, Nth(bounds, k + 1) - 1)]

(* A sequence without its last element, and the beginning of another. *)
Front(s) == SubSeq(s, 1, Len(s) - 1)
Last(s) == s[Len(s)]
IsPrefix(s, t) == Len(s) <= Len(t) /\ \A i \in 1..Len(s) : s[i] = t[i]
=============================================================================
