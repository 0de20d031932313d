------------------------------ MODULE ChainRun ------------------------------
(***************************************************************************)
(* CognitiveOS.run(), resume() and interrupt() for chain plans: concurrent *)
(* asyncio tasks of one CognitiveOS, which share the interrupt flag and    *)
(* the single checkpoint slot _suspended_plan.                             *)
(*                                                                         *)
(* An action is the code between two awaits.  The calls that can suspend   *)
(* are the engine's tick and each attempt of a step.                       *)
(***************************************************************************)
EXTENDS PlanSteps

CONSTANTS
    Task,        \* asyncio tasks that call run() and resume()
    Job,         \* identities of run() calls: one plan each
    Plans,       \* what the engine may return
    MaxStock,    \* bound on the quantity of a resource
    NoJob, NoCheckpoint

ASSUME PlansAssumption ==
    Plans \subseteq [steps : Seq(Step), stop : BOOLEAN]
ASSUME JobAssumption == NoJob \notin Job
ASSUME MaxStockAssumption == MaxStock \in Nat

CheckpointType == [job : Job, from : Nat, results : Seq(StepResult)]

ASSUME NoCheckpointAssumption == NoCheckpoint \notin CheckpointType

VARIABLES
    requested,   \* _interrupt_requested
    suspended,   \* _suspended_plan
    call,        \* the run() or resume() each task is in
    plan,        \* the plan the engine returned for each job
    data,        \* names recorded in each job's ExecutionState
    reached,     \* history: positions handed to _dispatch_step, per job
    verdict,     \* history: what the last call about each job returned
    aimedAt,     \* history: the jobs in flight at the last interrupt()
    believed,    \* the actor's beliefs
    stock        \* the actor's resources

osVars  == << requested, suspended >>
envVars == << believed, stock, aimedAt >>   \* nothing a call of run() writes
vars == << requested, suspended, call, plan, data, reached, verdict, aimedAt,
           believed, stock >>

EmptyPlan == [steps |-> << >>, stop |-> FALSE]

(* steps is the slice of the job's plan that starts after position "from"; *)
(* base is start_index, offset the loop's index into the slice.            *)
NewCall(j, pc) ==
    [pc |-> pc, job |-> j, from |-> 0, base |-> 0, offset |-> 0,
     results |-> << >>, step |-> NoStep, attempt |-> 0]

IdleCall == NewCall(NoJob, "idle")

Init ==
    /\ requested = FALSE
    /\ suspended = NoCheckpoint
    /\ call = [t \in Task |-> IdleCall]
    /\ plan = [j \in Job |-> EmptyPlan]
    /\ data = [j \in Job |-> {}]
    /\ reached = [j \in Job |-> << >>]
    /\ verdict = [j \in Job |-> "new"]
    /\ aimedAt = {}
    /\ believed \in SUBSET Belief
    /\ stock \in [Resource -> 0..MaxStock]

-----------------------------------------------------------------------------
(* The loop of _run_chain.                                                 *)

Position(c) == c.from + c.offset + 1     \* in the job's plan

NumberRestarts(c) == c.offset + 1                               \* mutant
Number(c) == c.base + c.offset + 1       \* what the StepResult will say

StopsUntilResumed(c) == plan[c.job].stop /\ c.base = 0          \* mutant
Stops(c) == plan[c.job].stop

AtEnd(c)    == Position(c) > Len(plan[c.job].steps)
Current(c)  == plan[c.job].steps[Position(c)]

(* The "skipped" results stop_on_failure writes for the rest of the slice. *)
StepName(step) == step.name
SkippedRest(c) ==
    [k \in 1..(Len(plan[c.job].steps) - Position(c)) |->
        Result(Number(c) + k, StepName(plan[c.job].steps[Position(c) + k]),
               "skipped", 1)]

(* The call at the head of the loop.                                       *)
AtLoop(c, offset, results) ==
    [pc |-> "loop", job |-> c.job, from |-> c.from, base |-> c.base,
     offset |-> offset, results |-> results, step |-> NoStep, attempt |-> 0]

(* One result is appended; the loop goes on with the next step, or, when   *)
(* the plan stops on failure, reports all the others as skipped and ends.  *)
Record(c, result) ==
    IF Stops(c) /\ result.status # "success"
    THEN AtLoop(c, Len(plan[c.job].steps) - c.from,
                c.results \o << result >> \o SkippedRest(c))
    ELSE AtLoop(c, c.offset + 1, Append(c.results, result))

(* run() up to the await of the engine.                                    *)
Run(t, j) ==
    /\ call[t].pc = "idle"
    /\ verdict[j] = "new"
    /\ call' = [call EXCEPT ![t] = NewCall(j, "planning")]
    /\ verdict' = [verdict EXCEPT ![j] = "running"]
    /\ UNCHANGED << requested, suspended, plan, data, reached, envVars >>

(* The engine answers with a plan; an engine that raises, or that answers  *)
(* with no plan, leaves the empty list of steps.                           *)
EngineTick(t) ==
    /\ call[t].pc = "planning"
    /\ \E p \in Plans \cup {EmptyPlan} :
         plan' = [plan EXCEPT ![call[t].job] = p]
    /\ call' = [call EXCEPT ![t] = NewCall(call[t].job, "loop")]
    /\ UNCHANGED << requested, suspended, data, reached, verdict, envVars >>

(* interrupt(), from another task or from inside a capability.             *)
Interrupt ==
    /\ requested' = TRUE
    /\ aimedAt' = { j \in Job : verdict[j] = "running" }
    /\ UNCHANGED << suspended, call, plan, data, reached, verdict,
                    believed, stock >>

(* The flag is seen before a step: checkpoint and return interrupted.      *)
CheckpointWholeSlice(c) ==                                      \* mutant
    [job |-> c.job, from |-> c.from, results |-> c.results]
CheckpointOnlyFirst(c) ==                                       \* mutant
    IF c.base = 0
    THEN [job |-> c.job, from |-> c.from + c.offset, results |-> c.results]
    ELSE NoCheckpoint
Checkpoint(c) == [job |-> c.job, from |-> c.from + c.offset,
                  results |-> c.results]

FlagKept == TRUE                                                \* mutant
FlagAfterSuspend == FALSE

Suspend(t) ==
    /\ call[t].pc = "loop"
    /\ ~ AtEnd(call[t])
    /\ requested
    /\ requested' = FlagAfterSuspend
    /\ suspended' = Checkpoint(call[t])
    /\ verdict' = [verdict EXCEPT ![call[t].job] = "interrupted"]
    /\ call' = [call EXCEPT ![t] = IdleCall]
    /\ UNCHANGED << plan, data, reached, envVars >>

(* _dispatch_step up to its first await, or to its end when nothing is     *)
(* executed: a conditional without the branch taken, or a closed gate.     *)
Reach(t) ==
    /\ call[t].pc = "loop"
    /\ ~ AtEnd(call[t])
    /\ ~ requested
    /\ reached' = [reached EXCEPT ![call[t].job] =
                       Append(@, Position(call[t]))]
    /\ UNCHANGED << requested, suspended, plan, data, envVars >>

SkipStep(t) ==
    LET c == call[t]
        leaf == Chosen(Current(c), believed)
    IN  /\ Reach(t)
        /\ leaf = NoStep
        /\ call' = [call EXCEPT ![t] =
               Record(c, Result(Number(c), Current(c).name, "skipped", 1))]
        /\ UNCHANGED verdict

MissResources(t) ==
    LET c == call[t]
        leaf == Chosen(Current(c), believed)
    IN  /\ Reach(t)
        /\ leaf # NoStep
        /\ ~ GateOpen(leaf, stock)
        /\ call' = [call EXCEPT ![t] =
               Record(c, Result(Number(c), leaf.name, "failed", 1))]
        /\ UNCHANGED verdict

AtAttempt(c, leaf, n) ==
    [pc |-> "attempt", job |-> c.job, from |-> c.from, base |-> c.base,
     offset |-> c.offset, results |-> c.results, step |-> leaf, attempt |-> n]

StartStep(t) ==
    LET c == call[t]
        leaf == Chosen(Current(c), believed)
    IN  /\ Reach(t)
        /\ leaf # NoStep
        /\ GateOpen(leaf, stock)
        /\ leaf.wellFormed
        /\ call' = [call EXCEPT ![t] = AtAttempt(c, leaf, 1)]
        /\ UNCHANGED verdict

(* int(retries) raises outside the try: the exception leaves run().        *)
RaiseMalformed(t) ==
    LET c == call[t]
        leaf == Chosen(Current(c), believed)
    IN  /\ Reach(t)
        /\ leaf # NoStep
        /\ GateOpen(leaf, stock)
        /\ ~ leaf.wellFormed
        /\ call' = [call EXCEPT ![t] = IdleCall]
        /\ verdict' = [verdict EXCEPT ![c.job] = "raised"]

(* An attempt returns or raises; a failure is retried at once.             *)
PlanStepKey(c) == Current(c).name                               \* mutant
DataKey(c) == c.step.name

AttemptSucceeds(t) ==
    LET c == call[t]
    IN  /\ c.pc = "attempt"
        /\ data' = [data EXCEPT ![c.job] = @ \cup {DataKey(c)}]
        /\ call' = [call EXCEPT ![t] =
               Record(c, Result(Number(c), c.step.name, "success", c.attempt))]
        /\ UNCHANGED << requested, suspended, plan, reached, verdict, envVars >>

AfterFailureForever(c) ==                                       \* mutant
    IF c.attempt < MaxAttempts(c.step)
    THEN AtAttempt(c, c.step, c.attempt + 1)
    ELSE AtAttempt(c, c.step, 1)
AfterFailure(c) ==
    IF c.attempt < MaxAttempts(c.step)
    THEN AtAttempt(c, c.step, c.attempt + 1)
    ELSE Record(c, Result(Number(c), c.step.name, "failed", c.attempt))

AttemptFails(t) ==
    LET c == call[t]
    IN  /\ c.pc = "attempt"
        /\ call' = [call EXCEPT ![t] = AfterFailure(c)]
        /\ UNCHANGED << requested, suspended, plan, data, reached, verdict,
                        envVars >>

(* The loop ends: _build_run_result and return.                            *)
Finish(t) ==
    LET c == call[t]
    IN  /\ c.pc = "loop"
        /\ AtEnd(c)
        /\ verdict' = [verdict EXCEPT ![c.job] =
               IF AllSucceeded(c.results) THEN "success" ELSE "failure"]
        /\ call' = [call EXCEPT ![t] = IdleCall]
        /\ UNCHANGED << requested, suspended, plan, data, reached, envVars >>

(* asyncio cancellation is delivered at an await and is no Exception, so   *)
(* no handler of run() stops it.                                           *)
Cancel(t) ==
    /\ call[t].pc \in {"planning", "attempt"}
    /\ call' = [call EXCEPT ![t] = IdleCall]
    /\ verdict' = [verdict EXCEPT ![call[t].job] = "cancelled"]
    /\ UNCHANGED << requested, suspended, plan, data, reached, envVars >>

(* resume(): the slot is emptied before the rest of the plan runs.         *)
SlotKept == suspended                                           \* mutant
SlotAfterResume == NoCheckpoint

Resume(t) ==
    /\ call[t].pc = "idle"
    /\ suspended # NoCheckpoint
    /\ suspended' = SlotAfterResume
    /\ call' = [call EXCEPT ![t] =
           [pc |-> "loop", job |-> suspended.job, from |-> suspended.from,
            base |-> Len(suspended.results), offset |-> 0,
            results |-> suspended.results, step |-> NoStep, attempt |-> 0]]
    /\ verdict' = [verdict EXCEPT ![suspended.job] = "running"]
    /\ UNCHANGED << requested, plan, data, reached, envVars >>

(* The actor's beliefs and resources change under a running plan.          *)
Observe ==
    /\ \E b \in Belief :
         believed' \in { believed \cup {b}, believed \ {b} }
    /\ UNCHANGED << osVars, call, plan, data, reached, verdict, aimedAt,
                    stock >>

Restock ==
    /\ \E r \in Resource, n \in 0..MaxStock : stock' = [stock EXCEPT ![r] = n]
    /\ UNCHANGED << osVars, call, plan, data, reached, verdict, aimedAt,
                    believed >>

TaskStep(t) ==
    \/ EngineTick(t)
    \/ Suspend(t)
    \/ SkipStep(t)
    \/ MissResources(t)
    \/ StartStep(t)
    \/ RaiseMalformed(t)
    \/ AttemptSucceeds(t)
    \/ AttemptFails(t)
    \/ Finish(t)

Next ==
    \/ \E t \in Task, j \in Job : Run(t, j)
    \/ \E t \in Task : TaskStep(t)
    \/ \E t \in Task : Cancel(t)
    \/ \E t \in Task : Resume(t)
    \/ Interrupt
    \/ Observe
    \/ Restock

Spec == Init /\ [][Next]_vars

(* A caller that runs one call at a time and resumes what was suspended    *)
(* before it asks for something new.                                       *)
AllIdle == \A t \in Task : call[t].pc = "idle"

CarefulNext ==
    \/ \E t \in Task, j \in Job :
           AllIdle /\ suspended = NoCheckpoint /\ Run(t, j)
    \/ \E t \in Task : TaskStep(t)
    \/ \E t \in Task : AllIdle /\ Resume(t)
    \/ Interrupt
    \/ Observe
    \/ Restock

CarefulSpec == Init /\ [][CarefulNext]_vars

(* The engine answers, every capability and agent returns or raises, and   *)
(* the event loop runs a task that can run.                                *)
Returning == \A t \in Task : WF_vars(TaskStep(t))

(* The caller of run() resumes in the end.                                 *)
Resuming == \A t \in Task : WF_vars(AllIdle /\ Resume(t))

CarefulFairSpec == CarefulSpec /\ Returning /\ Resuming

-----------------------------------------------------------------------------
(* Properties.                                                             *)

Held == { t \in Task : call[t].pc # "idle" }

(* The results of every job that is not over: in a call or in the slot.    *)
Ledgers ==
    { [job |-> call[t].job, results |-> call[t].results] : t \in Held }
    \cup (IF suspended = NoCheckpoint THEN {}
          ELSE {[job |-> suspended.job, results |-> suspended.results]})

CallType ==
    [pc : {"idle", "planning", "loop", "attempt"}, job : Job \cup {NoJob},
     from : Nat, base : Nat, offset : Nat, results : Seq(StepResult),
     step : Leaf \cup {NoStep}, attempt : Nat]

(* The variables have the types of their Python counterparts.              *)
TypeOK ==
    /\ requested \in BOOLEAN
    /\ suspended \in CheckpointType \cup {NoCheckpoint}
    /\ call \in [Task -> CallType]
    /\ \A t \in Held : call[t].job \in Job
    /\ plan \in [Job -> Plans \cup {EmptyPlan}]
    /\ data \in [Job -> SUBSET Name]
    /\ reached \in [Job -> Seq(Nat)]
    /\ verdict \in [Job -> {"new", "running", "success", "failure",
                            "interrupted", "raised", "cancelled"}]
    /\ aimedAt \subseteq Job
    /\ believed \subseteq Belief
    /\ stock \in [Resource -> 0..MaxStock]

(* A plan is in one place: no two calls work on the same job, and no call  *)
(* works on the one that is checkpointed (resume() takes the checkpoint    *)
(* out of the slot before anything else can run).                          *)
OneOwner ==
    /\ \A t, u \in Held : t # u => call[t].job # call[u].job
    /\ suspended # NoCheckpoint =>
          \A t \in Held : call[t].job # suspended.job

(* However often a plan is interrupted, resumed and interleaved with       *)
(* others, its steps are handed to _dispatch_step in plan order, each one  *)
(* at most once: resume() re-runs nothing and leaves nothing out.          *)
StepsInOrder ==
    \A j \in Job : \A k \in DOMAIN reached[j] : reached[j][k] = k

(* A step result carries the number its step has in the original plan and  *)
(* the name of that step or of its branch, across resume() too.            *)
NamesOf(step) ==
    IF step.kind = "conditional"
    THEN {step.name} \cup { leaf.name : leaf \in {step.ifTrue, step.ifFalse} \ {NoStep} }
    ELSE {step.name}

NumbersFaithful ==
    \A l \in Ledgers : \A k \in DOMAIN l.results :
        /\ l.results[k].number = k
        /\ l.results[k].name \in NamesOf(plan[l.job].steps[k])

(* A later step can read exactly the outputs of the steps reported as      *)
(* successful: the ExecutionState and the results agree, also when one was *)
(* carried through a checkpoint.                                           *)
Earned(results) ==
    { results[k].name : k \in
        { n \in DOMAIN results : results[n].status = "success" } }

HonestData == \A l \in Ledgers : data[l.job] = Earned(l.results)

(* Under stop_on_failure nothing is dispatched after a step that did not   *)
(* succeed, not even by a later resume().                                  *)
StopMeansStop ==
    \A l \in Ledgers : plan[l.job].stop =>
        \A k \in DOMAIN l.results :
            l.results[k].status # "success" => Len(reached[l.job]) <= k

(* RunResult.success is earned: every step of the plan was reached and     *)
(* left its output in the ExecutionState.                                  *)
SuccessIsEarned ==
    \A j \in Job : verdict[j] = "success" =>
        /\ plan[j].steps # << >>
        /\ Len(reached[j]) = Len(plan[j].steps)
        /\ \A k \in DOMAIN plan[j].steps :
               \E n \in NamesOf(plan[j].steps[k]) : n \in data[j]

(* "checkpoint the remaining plan so resume() can continue it later": the  *)
(* plan of an interrupted call is in the slot until somebody resumes it.   *)
NoPlanForgotten ==
    \A j \in Job : verdict[j] = "interrupted" =>
        suspended # NoCheckpoint /\ suspended.job = j

(* interrupt() stops "the in-flight run()/resume()": what it suspends was  *)
(* in flight when it was called.                                           *)
InterruptHitsInFlight ==
    [][\A j \in Job : (verdict[j] = "running" /\ verdict'[j] = "interrupted")
                          => j \in aimedAt]_vars

(* The promise without tasks, flag and slot.                               *)
Contract == INSTANCE PlanContract

ImplementsContract == Contract!Spec

(* The inductive invariant behind these.  It says where every plan stands: *)
(* the slice of a call starts where its inherited results end, one result  *)
(* was appended per step since, and the history of reached steps agrees;   *)
(* the slot is cut right after the last result; and the verdict of a job   *)
(* tells whether it is untouched, held by a call, or in the slot.          *)
LedgerOK(rs, p, r) ==
    /\ \A k \in DOMAIN rs : /\ rs[k].number = k
                            /\ rs[k].name \in NamesOf(p.steps[k])
    /\ p.stop => \A k \in DOMAIN rs : rs[k].status # "success" =>
                     Len(r) <= k /\ Len(rs) = Len(p.steps)

CallOK(c, p, r, v) ==
    /\ v = "running"
    /\ LedgerOK(c.results, p, r)
    /\ c.base = c.from
    /\ Len(c.results) = c.base + c.offset
    /\ Len(c.results) <= Len(p.steps)
    /\ c.pc = "planning" => p = EmptyPlan /\ r = << >> /\ c.from = 0 /\ c.offset = 0
    /\ c.pc = "loop" => \/ Len(r) = Len(c.results)
                        \/ p.stop /\ \E k \in DOMAIN c.results :
                                        c.results[k].status # "success"
    /\ c.pc = "attempt" => /\ Len(c.results) < Len(p.steps)
                           /\ Len(r) = Len(c.results) + 1
                           /\ c.attempt > 0
                           /\ c.step \in Leaf
                           /\ c.step.name \in NamesOf(p.steps[Len(r)])

SlotOK(s, p, r, v) ==
    /\ v = "interrupted"
    /\ LedgerOK(s.results, p, r)
    /\ s.from = Len(s.results)
    /\ Len(s.results) < Len(p.steps)
    /\ Len(r) = Len(s.results)

Progress ==
    /\ \A t \in Held :
          CallOK(call[t], plan[call[t].job], reached[call[t].job],
                 verdict[call[t].job])
    /\ suspended # NoCheckpoint =>
          SlotOK(suspended, plan[suspended.job], reached[suspended.job],
                 verdict[suspended.job])
    /\ \A j \in Job : /\ Len(reached[j]) <= Len(plan[j].steps)
                      /\ verdict[j] = "new" => plan[j] = EmptyPlan

Inductive == TypeOK /\ OneOwner /\ Progress /\ StepsInOrder

(* The same for the outputs: a job nobody has started has none, the others *)
(* have what their ledger says, and what a success rests on stays there.   *)
NewIsBlank == \A j \in Job : verdict[j] = "new" => data[j] = {}

Accounted == HonestData /\ NewIsBlank /\ SuccessIsEarned

(* Every call returns, however often plans are interrupted.                *)
CallsReturn ==
    \A j \in Job : verdict[j] = "running" ~> verdict[j] # "running"

(* Once interrupt() is called no more, a plan that was interrupted is run  *)
(* to its end by a caller who resumes it.                                  *)
InterruptedPlansComplete ==
    <>[][~ Interrupt]_vars =>
        \A j \in Job : verdict[j] = "interrupted" ~>
                          verdict[j] \in {"success", "failure", "raised"}
=============================================================================
