----------------------------- MODULE Selection -----------------------------
(***************************************************************************)
(* What a list comprehension with a condition leaves of a list, which is   *)
(* the elements at some of its places, in their order; and what sorting    *)
(* makes of it.  (SelectSeq and SortSeq would do for TLC; the places are   *)
(* what the proofs speak of.)                                              *)
(***************************************************************************)
EXTENDS Integers, Sequences, FiniteSets

(* The i-th of some places, and the elements of a sequence at all of them. *)
Nth(places, i) ==
    CHOOSE k \in places : Cardinality({ m \in places : m <= k }) = i

Kept(s, places) == [i \in 1..Cardinality(places) |-> s[Nth(places, i)]]

(* A sorted sequence: upTo[k] are the places of what comes no later than   *)
(* the element at k, which the sorted one has at the place that is their   *)
(* number.                                                                 *)
Arranged(s, upTo) ==
    [p \in DOMAIN s |-> s[CHOOSE k \in DOMAIN s : Cardinality(upTo[k]) = p]]
=============================================================================
