---------------------------- MODULE PlanContract ----------------------------
(***************************************************************************)
(* What run() and resume() promise about a plan, whichever task carries it *)
(* and however often it is interrupted: its steps are reached one after    *)
(* the other, each once, and success is claimed only for a plan of which   *)
(* every step was reached.  There are no tasks, no flag and no checkpoint  *)
(* here: every job is alone.                                               *)
(***************************************************************************)
EXTENDS Integers, Sequences

CONSTANTS Job, Plans, EmptyPlan

VARIABLES plan, reached, verdict

vars == << plan, reached, verdict >>

Init ==
    /\ plan = [j \in Job |-> EmptyPlan]
    /\ reached = [j \in Job |-> << >>]
    /\ verdict = [j \in Job |-> "new"]

Start(j) ==
    /\ verdict[j] = "new"
    /\ verdict' = [verdict EXCEPT ![j] = "running"]
    /\ UNCHANGED << plan, reached >>

(* The plan is adopted before the first step and never replaced.           *)
Adopt(j) ==
    /\ verdict[j] = "running"
    /\ plan[j] = EmptyPlan
    /\ reached[j] = << >>
    /\ \E p \in Plans : plan' = [plan EXCEPT ![j] = p]
    /\ UNCHANGED << reached, verdict >>

ReachNext(j) ==
    /\ verdict[j] = "running"
    /\ Len(reached[j]) < Len(plan[j].steps)
    /\ reached' = [reached EXCEPT ![j] = Append(@, Len(@) + 1)]

Dispatch(j) == ReachNext(j) /\ UNCHANGED << plan, verdict >>

(* A plan is only ever paused in front of a step.                          *)
Pause(j) ==
    /\ verdict[j] = "running"
    /\ Len(reached[j]) < Len(plan[j].steps)
    /\ verdict' = [verdict EXCEPT ![j] = "interrupted"]
    /\ UNCHANGED << plan, reached >>

Continue(j) ==
    /\ verdict[j] = "interrupted"
    /\ verdict' = [verdict EXCEPT ![j] = "running"]
    /\ UNCHANGED << plan, reached >>

Succeed(j) ==
    /\ verdict[j] = "running"
    /\ plan[j].steps # << >>
    /\ Len(reached[j]) = Len(plan[j].steps)
    /\ verdict' = [verdict EXCEPT ![j] = "success"]
    /\ UNCHANGED << plan, reached >>

(* A plan that ends early without success is one that stops on failure.    *)
Fail(j) ==
    /\ verdict[j] = "running"
    /\ plan[j].stop \/ Len(reached[j]) = Len(plan[j].steps)
    /\ verdict' = [verdict EXCEPT ![j] = "failure"]
    /\ UNCHANGED << plan, reached >>

(* A cancellation, or an exception, which may strike in a step just reached. *)
Cancelled(j) ==
    /\ verdict[j] = "running"
    /\ verdict' = [verdict EXCEPT ![j] = "cancelled"]
    /\ UNCHANGED << plan, reached >>

Raised(j) ==
    /\ ReachNext(j)
    /\ verdict' = [verdict EXCEPT ![j] = "raised"]
    /\ UNCHANGED plan

Next ==
    \E j \in Job :
        \/ Start(j) \/ Adopt(j) \/ Dispatch(j) \/ Pause(j) \/ Continue(j)
        \/ Succeed(j) \/ Fail(j) \/ Cancelled(j) \/ Raised(j)

Spec == Init /\ [][Next]_vars
=============================================================================
