----------------------------- MODULE PlanSteps -----------------------------
(***************************************************************************)
(* The vocabulary of a plan, shared by the chain and the graph dispatcher  *)
(* of cognitiveos/os.py: what a step is, which branch a conditional step   *)
(* takes, when the resource gate is open and how often a step is tried.    *)
(*                                                                         *)
(* A capability step and an agent step differ only in the bus they go to,  *)
(* and either bus answers success or failure, so both are a "leaf" here.   *)
(* A conditional whose branch is again a conditional is left out.          *)
(***************************************************************************)
EXTENDS Integers, Sequences

CONSTANTS
    Name,        \* step, capability and agent names
    Belief,      \* the (subject, attribute, value) triples a condition tests
    Resource,    \* resource types
    NoStep       \* the missing branch of a conditional (Python's None)

(* retries may be any integer; "wellFormed" is FALSE when int(retries)     *)
(* raises.                                                                 *)
Leaf == [kind : {"leaf"}, name : Name, needs : [Resource -> Nat],
         retries : Int, wellFormed : BOOLEAN]

Conditional == [kind : {"conditional"}, name : Name, cond : Belief,
                ifTrue : Leaf \cup {NoStep}, ifFalse : Leaf \cup {NoStep}]

Step == Leaf \cup Conditional

ASSUME NoStepAssumption == NoStep \notin Step

Status == {"success", "failed", "skipped"}

StepResult == [number : Nat \ {0}, name : Name, status : Status,
               attempts : Nat \ {0}]

(* _evaluate_condition: an absent belief is an honest "no".                *)
Branch(step, believed) ==
    IF step.cond \in believed THEN step.ifTrue ELSE step.ifFalse

(* The step that is really executed in the place of a plan step.           *)
Chosen(step, believed) ==
    IF step.kind = "conditional" THEN Branch(step, believed) ELSE step

(* check_resources: every required quantity is covered.                    *)
GateOpen(leaf, stock) == \A r \in Resource : stock[r] >= leaf.needs[r]

MaxAttempts(leaf) == 1 + (IF leaf.retries > 0 THEN leaf.retries ELSE 0)

Result(i, n, s, a) == [number |-> i, name |-> n, status |-> s, attempts |-> a]

(* Defects of AllSucceeded that PROJECT.json's mutants put in its place.   *)
NoneFailed(results) ==
    /\ results # << >>
    /\ \A k \in DOMAIN results : results[k].status # "failed"
VacuouslySucceeded(results) ==
    \A k \in DOMAIN results : results[k].status = "success"

(* _build_run_result: success needs at least one result and no result that *)
(* is anything but "success".                                              *)
AllSucceeded(results) ==
    /\ results # << >>
    /\ \A k \in DOMAIN results : results[k].status = "success"
=============================================================================
