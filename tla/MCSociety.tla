----------------------------- MODULE MCSociety -----------------------------
(* A small instance of Society: two actors that affiliate with each other  *)
(* at a level below zero, judge outcomes, save and restore themselves, and *)
(* talk while trust between them rises and falls across 0.3.               *)
EXTENDS Society

CONSTANTS alice, bob, work

Report(g, r, o) == [goal |-> g, rec |-> r, obl |-> o]

(* A goal that succeeded, and a recommendation that helped in spite of a   *)
(* broken obligation: 0.5 falls below the threshold after three of these.  *)
FewOutcomes == { Report(TRUE, "unsaid", "unsaid"), Report(TRUE, "yes", "no") }

FewLevels == {-10}
=============================================================================
