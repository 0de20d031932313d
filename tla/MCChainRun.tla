----------------------------- MODULE MCChainRun -----------------------------
(* Small instances of ChainRun: plans of up to three steps that between    *)
(* them retry, miss a resource, skip a conditional, take a branch with     *)
(* another name, stop on failure and carry a malformed step.               *)
EXTENDS ChainRun, TLC

CONSTANTS buy, cook, order, hungry, milk

Needs(n) == [r \in Resource |-> n]

Do(n, needs, retries) ==
    [kind |-> "leaf", name |-> n, needs |-> Needs(needs), retries |-> retries,
     wellFormed |-> TRUE]

Malformed(n) == [Do(n, 0, 0) EXCEPT !.wellFormed = FALSE]

If(n, yes, no) ==
    [kind |-> "conditional", name |-> n, cond |-> hungry,
     ifTrue |-> yes, ifFalse |-> no]

Retry  == [stop |-> FALSE,
           steps |-> << Do(buy, 1, 1), If(cook, Do(order, 0, 0), NoStep) >>]
Strict == [stop |-> TRUE,
           steps |-> << Do(buy, 0, 0), If(cook, Do(order, 1, 0), NoStep),
                        Do(cook, 0, -1) >>]
Broken == [stop |-> FALSE, steps |-> << Do(buy, 0, 0), Malformed(cook) >>]

TwoPlans   == {Retry, Strict}
ThreePlans == {Retry, Strict, Broken}
=============================================================================
