------------------------------ MODULE GraphRun ------------------------------
(***************************************************************************)
(* CognitiveOS._run_graph: one dependency-graph plan, run once and resumed *)
(* as often as it is interrupted.  Steps run in waves; the steps of a wave *)
(* are asyncio tasks under one gather, so that their attempts interleave.  *)
(*                                                                         *)
(* The loop between two gathers contains no await: it is one action, and   *)
(* interrupt() can only come in while a gather waits or no call is in      *)
(* flight.  The order in which Python iterates a set of names is a choice. *)
(***************************************************************************)
EXTENDS PlanSteps, SequencesExt, Selection

CONSTANTS
    Graphs,      \* plans: sequences of [step, deps]
    MaxStock,
    NoCheckpoint

ASSUME GraphsAssumption ==
    Graphs \subseteq Seq([step : Step, deps : SUBSET Name])

VARIABLES
    requested,   \* _interrupt_requested
    suspended,   \* _suspended_plan
    pc,          \* where the call is: see PCs
    steps,       \* the steps this call was given
    remaining,   \* names of steps not dispatched yet, as in the code
    byName,      \* results_by_name: the status under a name, or "none"
    results,     \* step_results
    flight,      \* the tasks of the current gather
    data,        \* names recorded in the ExecutionState
    believed, stock,
    graph,       \* history: the plan as the engine returned it
    dispatches,  \* history: how often each step went to _dispatch_step
    won,         \* history: the steps of the plan that really succeeded
    lost,        \* history: the steps that failed, were skipped or refused
    resumed      \* history: resume() was called

envVars     == << believed, stock >>
historyVars == << graph, dispatches, won, lost, resumed >>
vars == << requested, suspended, pc, steps, remaining, byName, results, flight,
           data, believed, stock, graph, dispatches, won, lost,
           resumed >>

PCs == {"planning", "wave", "gather", "idle", "returned", "raised"}

(* StepResult with, in place of the attempts, why the step was refused, or *)
(* that it ran.                                                            *)
Causes == {"ran", "unknown_dependency", "dependency_cycle", "dependency_failed"}
NodeResult == [number : Nat \ {0}, name : Name, status : Status, cause : Causes]

ResultOf(i, n, s, e) == [number |-> i, name |-> n, status |-> s, cause |-> e]

-----------------------------------------------------------------------------
(* indexed and depends_on: a later step of the same name hides an earlier. *)
NamesIn(plan) == { plan[i].step.name : i \in DOMAIN plan }

Index(plan, n) ==
    CHOOSE i \in DOMAIN plan :
        /\ plan[i].step.name = n
        /\ \A k \in (i + 1)..Len(plan) : plan[k].step.name # n
StepOf(plan, n) == plan[Index(plan, n)].step
DepsOf(plan, n) == plan[Index(plan, n)].deps

NoResults == [n \in Name |-> "none"]
NoFlight  == [n \in {} |-> "none"]

Init ==
    /\ requested = FALSE
    /\ suspended = NoCheckpoint
    /\ pc = "planning"
    /\ graph \in Graphs
    /\ steps = graph
    /\ remaining = {}
    /\ byName = NoResults
    /\ results = << >>
    /\ flight = NoFlight
    /\ data = {}
    /\ believed \in SUBSET Belief
    /\ stock \in [Resource -> 0..MaxStock]
    /\ dispatches = [n \in Name |-> 0]
    /\ won = {}
    /\ lost = {}
    /\ resumed = FALSE

(* interrupt(): never between two gathers.                                 *)
Interrupt ==
    /\ pc # "wave"
    /\ requested' = TRUE
    /\ UNCHANGED << suspended, pc, steps, remaining, byName, results, flight,
                    data, envVars, historyVars >>

(* run(): the engine's plan arrives.                                       *)
Begin ==
    /\ pc = "planning"
    /\ pc' = "wave"
    /\ remaining' = NamesIn(steps)
    /\ UNCHANGED << requested, suspended, steps, byName, results, flight, data,
                    envVars, historyVars >>

-----------------------------------------------------------------------------
(* The head of the while loop.                                             *)

Undispatched == remaining

FlagKept         == TRUE                                        \* mutant
FlagAfterSuspend == FALSE

Suspend ==
    /\ pc = "wave"
    /\ remaining # {}
    /\ requested
    /\ requested' = FlagAfterSuspend
    /\ \E order \in SetToSeqs(Undispatched) :
         suspended' = [steps   |-> [k \in DOMAIN order |->
                                       steps[Index(steps, order[k])]],
                       results |-> results]
    /\ pc' = "idle"
    /\ UNCHANGED << steps, remaining, byName, results, flight, data, envVars,
                    historyVars >>

(* A dependency that is neither a step of this call nor a known result.    *)
UnknownForgettingPrior(n) ==                                    \* mutant
    \E d \in DepsOf(steps, n) : d \notin NamesIn(steps)
HasUnknown(n) ==
    \E d \in DepsOf(steps, n) : d \notin NamesIn(steps) /\ byName[d] = "none"

Unknown == { n \in remaining : HasUnknown(n) }

(* The names whose dependencies all have a result.  One that waits only    *)
(* for steps of Unknown is ready if the iteration comes to it after them.  *)
ReadyNow   == { n \in remaining \ Unknown :
                   \A d \in DepsOf(steps, n) : byName[d] # "none" }
ReadyLater == { n \in remaining \ Unknown :
                   \A d \in DepsOf(steps, n) : byName[d] # "none" \/ d \in Unknown }

Failures(names, cause) ==
    LET order == SetToSeq(names)
    IN  [k \in DOMAIN order |->
            ResultOf(Index(steps, order[k]), order[k], "failed", cause)]

FailedIn(names) ==
    [n \in Name |-> IF n \in names THEN "failed" ELSE byName[n]]

(* Some step is ready: those with a failed dependency fail, the others are *)
(* the tasks of the next gather.                                           *)
NoneHasFailed(n) ==                                             \* mutant
    \A d \in DepsOf(steps, n) : FailedIn(Unknown)[d] # "failed"
MayRun(n) == \A d \in DepsOf(steps, n) : FailedIn(Unknown)[d] = "success"

NextWave ==
    /\ pc = "wave"
    /\ ~ requested
    /\ \E ready \in SUBSET ReadyLater :
         /\ ReadyNow \subseteq ready
         /\ ready # {}
         /\ LET run  == { n \in ready : MayRun(n) }
                fail == ready \ run
            IN  /\ byName' = FailedIn(Unknown \cup fail)
                /\ results' = results \o Failures(Unknown, "unknown_dependency")
                                      \o Failures(fail, "dependency_failed")
                /\ remaining' = remaining \ (Unknown \cup fail)
                /\ flight' = [n \in run |-> [at |-> "scheduled"]]
                /\ pc' = IF run = {} THEN "wave" ELSE "gather"
                /\ lost' = lost \cup Unknown \cup fail
    /\ UNCHANGED << requested, suspended, steps, data, envVars, graph,
                    dispatches, won, resumed >>

(* No step is ready: all that remain fail and the loop is left.            *)
Blocked == ReadyNow = {} /\ remaining # {}

BreakCycle ==
    /\ pc = "wave"
    /\ ~ requested
    /\ Blocked
    /\ results' = results \o Failures(Unknown, "unknown_dependency")
                          \o Failures(remaining \ Unknown, "dependency_cycle")
    /\ byName' = FailedIn(Unknown)
    /\ remaining' = {}
    /\ lost' = lost \cup remaining
    /\ UNCHANGED << requested, suspended, pc, steps, flight, data, envVars,
                    graph, dispatches, won, resumed >>

-----------------------------------------------------------------------------
(* _dispatch_step, as the tasks of a gather.                               *)

Done(n, status, name) ==
    /\ flight' = [flight EXCEPT ![n] =
                     [at |-> "done",
                      result |-> ResultOf(Index(steps, n), name, status, "ran")]]
    /\ won'  = IF status = "success" THEN won \cup {n} ELSE won
    /\ lost' = IF status = "success" THEN lost ELSE lost \cup {n}

InFlight(n, at) == n \in DOMAIN flight /\ flight[n].at = at

Dispatch(n) ==
    /\ InFlight(n, "scheduled")
    /\ dispatches' = [dispatches EXCEPT ![n] = @ + 1]
    /\ UNCHANGED << requested, suspended, steps, remaining, byName, results,
                    data, envVars, graph, resumed >>

SkipStep(n) ==
    /\ Dispatch(n)
    /\ Chosen(StepOf(steps, n), believed) = NoStep
    /\ Done(n, "skipped", n)
    /\ UNCHANGED pc

MissResources(n) ==
    LET leaf == Chosen(StepOf(steps, n), believed)
    IN  /\ Dispatch(n)
        /\ leaf # NoStep
        /\ ~ GateOpen(leaf, stock)
        /\ Done(n, "failed", leaf.name)
        /\ UNCHANGED pc

StartStep(n) ==
    LET leaf == Chosen(StepOf(steps, n), believed)
    IN  /\ Dispatch(n)
        /\ leaf # NoStep
        /\ GateOpen(leaf, stock)
        /\ leaf.wellFormed
        /\ flight' = [flight EXCEPT ![n] =
                         [at |-> "attempt", leaf |-> leaf, attempt |-> 1]]
        /\ UNCHANGED << pc, won, lost >>

(* int(retries) raises: gather passes the exception on at once, while its  *)
(* other tasks go on by themselves.                                        *)
RaiseMalformed(n) ==
    LET leaf == Chosen(StepOf(steps, n), believed)
    IN  /\ Dispatch(n)
        /\ leaf # NoStep
        /\ GateOpen(leaf, stock)
        /\ ~ leaf.wellFormed
        /\ flight' = [m \in DOMAIN flight \ {n} |-> flight[m]]
        /\ pc' = "raised"
        /\ UNCHANGED << won, lost >>

AttemptSucceeds(n) ==
    /\ InFlight(n, "attempt")
    /\ data' = data \cup {flight[n].leaf.name}
    /\ Done(n, "success", flight[n].leaf.name)
    /\ UNCHANGED << requested, suspended, pc, steps, remaining, byName, results,
                    envVars, graph, dispatches, resumed >>

AttemptFails(n) ==
    /\ InFlight(n, "attempt")
    /\ IF flight[n].attempt < MaxAttempts(flight[n].leaf)
       THEN /\ flight' = [flight EXCEPT ![n].attempt = @ + 1]
            /\ UNCHANGED << won, lost >>
       ELSE Done(n, "failed", flight[n].leaf.name)
    /\ UNCHANGED << requested, suspended, pc, steps, remaining, byName, results,
                    data, envVars, graph, dispatches, resumed >>

(* The gather returns when every task has: the results are recorded under  *)
(* the names of the plan.                                                  *)
SomeDone == \E n \in DOMAIN flight : flight[n].at = "done"      \* mutant
AllDone  == \A n \in DOMAIN flight : flight[n].at = "done"

Finished == { n \in DOMAIN flight : flight[n].at = "done" }

GatherReturns ==
    /\ pc = "gather"
    /\ AllDone
    /\ \E order \in SetToSeqs(Finished) :
         results' = results \o [k \in DOMAIN order |-> flight[order[k]].result]
    /\ byName' = [n \in Name |-> IF n \in Finished
                                 THEN flight[n].result.status ELSE byName[n]]
    /\ remaining' = remaining \ Finished
    /\ flight' = [n \in DOMAIN flight \ Finished |-> flight[n]]
    /\ pc' = "wave"
    /\ UNCHANGED << requested, suspended, steps, data, envVars, historyVars >>

(* The loop ends: the results are sorted by step number.                   *)
AsCollected(rs) == rs                                           \* mutant

UpTo(rs, k) == { m \in DOMAIN rs : \/ rs[m].number < rs[k].number
                                   \/ rs[m].number = rs[k].number /\ m <= k }

Sorted(rs) == Arranged(rs, [k \in DOMAIN rs |-> UpTo(rs, k)])

Return ==
    /\ pc = "wave"
    /\ remaining = {}
    /\ pc' = "returned"
    /\ results' = Sorted(results)
    /\ UNCHANGED << requested, suspended, steps, remaining, byName, flight,
                    data, envVars, historyVars >>

-----------------------------------------------------------------------------
(* resume(): the earlier results count under the name they carry, which    *)
(* for a conditional step is the name of its branch; a later one hides an  *)
(* earlier one of the same name.                                           *)
PriorNames(rs) ==
    [n \in Name |->
        IF \E k \in DOMAIN rs : rs[k].name = n
        THEN rs[CHOOSE k \in DOMAIN rs :
                    /\ rs[k].name = n
                    /\ \A m \in (k + 1)..Len(rs) : rs[m].name # n].status
        ELSE "none"]

Resume ==
    /\ pc = "idle"
    /\ suspended # NoCheckpoint
    /\ suspended' = NoCheckpoint
    /\ steps' = suspended.steps
    /\ remaining' = NamesIn(suspended.steps)
    /\ results' = suspended.results
    /\ byName' = PriorNames(suspended.results)
    /\ pc' = "wave"
    /\ resumed' = TRUE
    /\ UNCHANGED << requested, flight, data, envVars, graph, dispatches,
                    won, lost >>

Observe ==
    /\ pc = "gather"
    /\ \E b \in Belief : believed' \in { believed \cup {b}, believed \ {b} }
    /\ UNCHANGED << requested, suspended, pc, steps, remaining, byName, results,
                    flight, data, stock, historyVars >>

TaskStep(n) ==
    \/ SkipStep(n)
    \/ MissResources(n)
    \/ StartStep(n)
    \/ RaiseMalformed(n)
    \/ AttemptSucceeds(n)
    \/ AttemptFails(n)

LoopStep ==
    \/ Begin
    \/ Suspend
    \/ NextWave
    \/ BreakCycle
    \/ GatherReturns
    \/ Return

Next ==
    \/ LoopStep
    \/ \E n \in Name : TaskStep(n)
    \/ Resume
    \/ Interrupt
    \/ Observe

Spec == Init /\ [][Next]_vars

(* The event loop runs what can run, every agent and capability returns,   *)
(* and the caller resumes an interrupted plan in the end.                  *)
FairSpec ==
    /\ Spec
    /\ WF_vars(LoopStep)
    /\ \A n \in Name : WF_vars(TaskStep(n))
    /\ WF_vars(Resume)

-----------------------------------------------------------------------------
(* Properties.                                                             *)

Node == [step : Step, deps : SUBSET Name]

FlightState ==
    [at : {"scheduled"}]
    \cup [at : {"attempt"}, leaf : Leaf, attempt : Nat \ {0}]
    \cup [at : {"done"}, result : NodeResult]

(* The variables have the types of their Python counterparts.              *)
TypeOK ==
    /\ requested \in BOOLEAN
    /\ suspended \in [steps : Seq(Node), results : Seq(NodeResult)]
                     \cup {NoCheckpoint}
    /\ pc \in PCs
    /\ steps \in Seq(Node) /\ graph \in Graphs
    /\ remaining \subseteq NamesIn(steps)
    /\ byName \in [Name -> Status \cup {"none"}]
    /\ results \in Seq(NodeResult)
    /\ DOMAIN flight \subseteq Name
    /\ \A n \in DOMAIN flight : flight[n] \in FlightState
    /\ data \subseteq Name
    /\ dispatches \in [Name -> Nat]
    /\ won \subseteq Name /\ lost \subseteq Name

(* What a plan needs for its results to be found again after resume(): a   *)
(* result carries the name of the branch that ran, and so no step may      *)
(* depend on a step whose branch has another name, or on that name.        *)
Needed(g) == UNION { DepsOf(g, n) : n \in NamesIn(g) }

NamesKept(g) ==
    \A n \in NamesIn(g), b \in SUBSET Belief :
        LET leaf == Chosen(StepOf(g, n), b)
        IN  leaf = NoStep \/ leaf.name = n \/ {n, leaf.name} \cap Needed(g) = {}

(* "it never runs against missing/broken input": a step is handed to       *)
(* _dispatch_step only after every step it depends on has succeeded, in    *)
(* whatever order a wave completes and however often the plan is resumed.  *)
RunsAfterDependencies ==
    \A n \in NamesIn(graph) :
        dispatches[n] > 0 => DepsOf(graph, n) \subseteq won

(* No step of the plan is run twice, across waves and resumes.             *)
DispatchedOnce == \A n \in Name : dispatches[n] <= 1

(* What run() returns has exactly one result for each name of the plan:    *)
(* nothing is lost in a wave, in a cycle or in a checkpoint.               *)
OneResultEach ==
    pc = "returned" =>
        /\ Len(results) = Cardinality(NamesIn(graph))
        /\ won \cap lost = {}
        /\ won \cup lost = NamesIn(graph)

(* A step that was not run waited for something that did not succeed.      *)
RefusedForCause ==
    pc = "returned" =>
        \A n \in NamesIn(graph) :
            dispatches[n] = 0 => ~ (DepsOf(graph, n) \subseteq won)

(* The results come back in plan order, numbered by the plan.              *)
InPlanOrder ==
    /\ \A k, m \in DOMAIN results : k < m => results[k].number < results[m].number
    /\ \A n \in NamesIn(graph) : \E k \in DOMAIN results :
          results[k].number = Index(graph, n)

UninterruptedInPlanOrder == pc = "returned" /\ ~ resumed => InPlanOrder

(* A plan that returns, returns; one with a cycle does not hang, and one   *)
(* that is interrupted a finite number of times ends after its resumes.    *)
Ends == <>[][~ Interrupt]_vars => <>(pc \in {"returned", "raised"})

(* The promise about a graph without waves and checkpoints.                *)
Contract == INSTANCE DependencyContract WITH
    deps    <- [n \in NamesIn(graph) |-> DepsOf(graph, n)],
    started <- { n \in Name : dispatches[n] > 0 }

ImplementsContract == Contract!Spec
=============================================================================
