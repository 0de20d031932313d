# CognitiveOS in TLA+

This directory holds a model of [cognitive-os-oss](../src), a Python runtime in
which an *actor* (its goals, beliefs, resources and affiliations) is bound to a
*CognitiveOS* that parses a command, asks an engine for a plan, dispatches the
plan's steps to capabilities and agents, and carries messages to other actors.
Beside the runtime it covers the repository's largest example, a grocery
backend with the plan that shops there, and three stateful parts of the code
the repository keeps as archived. The modules are checked with TLC on small
instances, and every safety property that a passing run checks is proved with
TLAPS for all instances.

Contents: 1 the system, 2 the modules, 3 how they correspond to the code,
4 the runs, 5 fairness, 6 the proofs, 7 where the code departs from what it
says, 8 what is not modelled, 9 the plan.

## 1. The system

One CognitiveOS serves one actor. All of it runs on one asyncio event loop, so
code between two awaits is atomic and everything else interleaves: several
tasks may be inside `run()` and `resume()` at once, capabilities may call
`interrupt()` or `observe()` from inside a step, and tasks may be cancelled.
Nothing is written to disk by the runtime; what persists is what a caller
saves with `to_dict()`. The grocery service is a process of its own, whose
database outlives it.

| Component | State | Operations | Interacts with |
|---|---|---|---|
| plan dispatcher (`os.py`) | `_interrupt_requested`, `_suspended_plan`, and the locals of each call: results, index, remaining steps | `run`, `resume`, `interrupt`, `_run_chain`, `_run_graph`, `_dispatch_step`, `_dispatch_conditional` | engine (awaited), buses (awaited), the actor's beliefs and resources (read at each step) |
| actor (`actor.py`) | `_beliefs`, `_goal_states`, `_goals`, `_current_goal`, `_resources`, `_capabilities` | `add_belief`, `decay_beliefs`, `add_goal`, `remove_goal`, `update_goal_progress`, `set_goal` | written by `run()`, `tick()`, `observe()` and by callers |
| affiliations and trust (`affiliations/`) | `_affiliations`, `_trust` | `add`, `update`, `remove`, `set_trust`, `update_from_outcome`, `to_dict`, `from_dict` | read by messaging |
| messaging (`os.py`) | `_message_bus`, `_society_runtime` | `send_message`, `broadcast`, `get_messages`, `set_society_runtime` | the runtime, outside the repository |
| capability bus, action executor | registered providers | `register_capability`, `check_authorization`, `execute` | called by the dispatcher |
| agent bus | registered agents | `register`, `execute` | agents are awaited; an external registry is asked |
| engines (`engine/`) | built afresh for each call | `tick` | read the actor; the LLM engine waits off the event loop |
| belief state (`engine/belief_state.py`) | facts, hypotheses, lists that only grow | `add_*`, `decay_and_prune`, queries | built by the engine |
| pipeline actor (`engine/pipeline_actor.py`) | `status`, `cycle_count` | `start_reasoning`, `finish_reasoning`, `block`, `terminate` | marked by an engine's `tick` |
| reasoning queries (`os.py`) | none | `evaluate_goals`, `match_capabilities`, `check_resources`, `synthesize` | read the actor |
| agents and providers (`agents/`) | two dictionaries, backends | `register_*`, `set_backend`, `resolve`, `execute` | not reached from `run()` |
| execution state | the data of a plan | `set_data`, `get_data`, `to_dict`, `from_dict` | written by the dispatcher |
| intent parsing, observation extraction | none | keyword tables, regular expressions | feed `run()` and `observe()` |
| ontology, types, protocols | none | static declarations | |
| grocery service (`examples/grocery_service.py`) | products, wallets, orders, shipments, riders and keys in MongoDB | seeding, `place_order`, `assign_rider`, `update_shipment_status`, `_notify` | HTTP clients, awaited database |
| grocery pipeline (`examples/grocery_graph_pipeline.py`) | the graph's run, `order_placed_queue` | four agents, `_simulated_dispatcher`, `main` | calls the service, with timeouts |
| registry of external providers (archived) | `_providers`, `_agents` of each | register, discover, execute | commands and HTTP, awaited |
| lifecycle of adapters (archived) | adapters, their status and health, a background task | `startup`, `_health_check_loop`, `execute`, `shutdown` | adapters, awaited |
| distributed scheduler (archived) | runtimes, a bounded queue | `schedule`, `reschedule_pending`, `heartbeat`, `complete_task` | none |

What is hard in it:

* *Interleaving.* One flag and one checkpoint slot serve every call in flight;
  the waves of a graph run concurrently; an LLM thinks while other calls
  replace the actor's intent; agents are awaited while others register.
* *Interruption and resumption.* A plan is cut between any two steps (or
  waves), kept, and continued by another task, perhaps several times. Numbers,
  order, `stop_on_failure`, data and dependencies must survive that.
* *Failure.* A step may fail, be retried, be skipped, be refused, raise, or be
  cancelled; success is computed from what is left.
* *State kept twice.* Goals live in three places, trust in two, a step's name
  in two.
* *Boundaries.* Decay, clamping, floors, bounded queues, numbering from one.
* *Crashes and timeouts* (service and pipeline). The service may crash between
  two collections of its seeding or inside a transaction; a client gives up
  after five seconds on an order that is committed all the same.
* *Reads before awaits* (service, adapters, providers). A shipment, a health
  state or a dictionary is read, something is awaited, and what was read is
  used.

Each of these is listed with its source line and the properties about it
under `hazards` in `PROJECT.json`.

What makes a component correct, in short. *Dispatcher:* a plan has one owner;
its steps are dispatched in order, once; results carry true numbers; success is
earned; an interrupted plan can be resumed. *Graphs:* a step runs after its
dependencies and once; each name gets one result; a plan ends. *Actor:*
conditions see the latest belief; beliefs age evenly and vanish; requests stay
tracked; the places that hold goals agree. *Trust and messages:* trust stays in
range and survives a restore; nobody hears a peer it distrusts; the bus keeps
the latest. *Buses:* no one runs without permission; newcomers displace only
worse providers; failures are reported as failures. *Engines:* a call gets a
plan for its own command, in the order its objective asks for. *Belief state:*
decay makes nothing more certain than rounding does, and everything is forgotten
in the end. *Reasoning:* a decision can be carried out, and one is made if
possible. *Agents:* a task handed on should end with somebody, which it does not
always (section 7). *Service:* stock, money, orders
and shipments balance; a shipment only moves forward; success that was answered
stays true. *Pipeline:* one order at most, an honest report, an end. *Archived
parts:* the runs of an agent are accounted for; an adapter is not announced as
degraded twice; no submitted task is lost.

## 2. The modules

| Module | What it is |
|---|---|
| `PlanSteps` | the vocabulary of a plan: steps, conditionals, the resource gate, retries, and when a run is a success |
| `Selection` | what a list comprehension with a condition leaves of a list, and what sorting makes of it |
| `ChainRun` | concurrent calls of `run()`, `resume()` and `interrupt()` on chain plans |
| `PlanContract` | what those promise about each plan, without tasks, flag or slot; `ChainRun` implements it |
| `GraphRun` | one dependency-graph plan, in waves, with interrupts and resumes |
| `DependencyContract` | what it promises, without waves; `GraphRun` implements it |
| `ActorMind` | beliefs and goals of actors |
| `Society` | affiliations, trust and messages |
| `Buses` | the capability bus with its executor, and the agent bus |
| `Cognition` | from a command to a plan, by the built-in engine or an LLM |
| `Memory` | the belief state of an engine, and the pipeline actor |
| `Reasoning` | parsed commands and observed sentences up to the decision of `synthesize` |
| `Workers` | agents, their backends, and the providers that host them |
| `Grocery` | the service: seeding and crashes, orders, shipments |
| `GroceryPipeline` | the shopping plan against that service, with other clients |
| `Providers` | discovery and execution over the routes of external providers |
| `Lifecycle` | adapters: start, background checks, execution, shutdown |
| `Scheduler` | runtimes, the queue and its rescheduling |
| `Parts` | `Buses`, `Memory`, `Reasoning`, `Workers`, `Providers`, `Lifecycle` and `Scheduler`, side by side |
| `ChainRun_proofs`, `GraphRun_proofs`, `ActorMind_proofs`, `Society_proofs`, `Cognition_proofs` | the theorems about the module of that name |
| `Parts_proofs` | the theorems about `Buses` and about the six modules in `Parts` |
| `Grocery_proofs` | the theorems about `Grocery` and `GroceryPipeline` |
| `Lemmas` | what those proofs need of numbers, sequences, sets in some order, recursive functions, `Kept` and `Arranged` |
| `MCChainRun`, `MCGraphRun`, `MCActorMind`, `MCSociety`, `MCCognition`, `MCGrocery`, `MCParts` | the constants of the small instances |

`ChainRun` and `GraphRun` extend `PlanSteps`, and `GraphRun`, `ActorMind`,
`Society` and `Cognition` extend `Selection`; each contract is an instance
under a mapping (`Contract`), and `ImplementsContract` is its specification.
`GroceryPipeline` extends `Grocery`: the pipeline and other clients put requests
into the service's handlers and read the answers. `Parts` extends `Buses`
and instantiates six parts that no other calls; `focus` says which of them a
behaviour is about, and the remaining ones rest. A property of `Parts` is that
of the part.
The others stand alone: what one needs of another enters as a choice. To the
dispatcher an engine is a choice of plan, and a bus a choice of success or
failure; to `Buses` the dispatcher is a caller with some permissions; to
`Society` an outcome is whatever a caller reports. These choices are wider than
what the neighbours do, so safety shown here holds of the composition.

Lists are filtered with `Kept(s, places)`, which keeps the elements at a set of
places, and sorted with `Arranged(s, upTo)`, which puts each element where the
number of those that come no later says: a stable sort, defined without
recursion. `SelectSeq` and `SortSeq` mean the same; the provers cannot reason
about those, since they are recursive or take an operator as a parameter.

An operator marked `\* mutant` is a plausible mistake. The entries `mutants`
in `PROJECT.json` put it in the place of the definition it stands before, and
the named property must then fail.

## 3. Correspondence with the code

`map` in `PROJECT.json` gives each definition its lines. An action is the code
between two awaits, with every call it makes inside.

**ChainRun.** `requested` and `suspended` are the two attributes;
`call[t]` holds the locals of the call of task `t` (`from` and `offset` place
the index of the loop in the plan, `base` is `start_index`); `plan`, `data` and
`verdict` belong to a `run()`. The awaits are the engine's `tick` (after `Run`)
and each attempt of a step (after `StartStep` or a failed attempt). At the head
of the loop the code tests the end (`Finish`), then the flag (`Suspend`), then
enters `_dispatch_step`: `SkipStep`, `MissResources`, `RaiseMalformed` or
`StartStep`, of which all but the last finish without an await. Between two
steps there is no await either, but there is when the bus is asked; keeping
them as separate actions allows more interleavings than the loop has, and the
invariants hold for all of them. `Cancel` is a `CancelledError`, which
`except Exception` does not catch. `reached`, `verdict` and `aimedAt` are
history. A conditional whose branch is another conditional is left out, and
both kinds of leaf step are one, for their buses answer alike.

**GraphRun.** The head of the `while` loop is `Suspend`, `NextWave`,
`BreakCycle` or `Return`. `NextWave` is one pass over `remaining`, a set in
Python: which of the dependents of a refused step the pass meets after it is a
choice (`ReadyLater`). The tasks of a gather are `flight`; `RaiseMalformed`
leaves the others running, as gather does. `resume()` indexes prior results by
the name they carry (`PriorNames`).

**ActorMind.** Confidence and progress are in hundredths, so the rounding of
floats at 0.01 is not modelled. `lists` and `ref` keep the identity of the
Python list `_goals`, which the constructor does not copy. `Run` is all of
`run()` before the engine. `add_goal` takes any label and priority. `told`, and
the requests made by `run()` (`asked`) and by callers of `add_goal` (`added`),
are history.

**Society.** Trust is in hundredths, `Unset` a missing key. `Load` is
`from_dict`: `add` of every affiliation, then the saved trust over it.
`mailbox` is what the external runtime keeps. A message carries the trust of
its sender as history; `moved`, the affiliations that `update()` gave another
target since they were added or given a level, is history too.

**Buses.** A capability is called inside one step of the loop, an agent is
awaited (`AskAgent`, then `AgentAnswers` or `AgentRaises`). A name is the set
of its words, without `process`, `achieve` and `goal`. `success` is what the
result says, `failed` is history: what really happened.

**Cognition.** `OfIntent`, `RelevantFacts`, `Candidates`, `Score` and `Steps`
are the loops of the planner; its sort is stable. Values and confidences are in
hundredths. `'stock' in f.attribute.lower()` and its like are `Tells`, the
keywords each attribute contains, so several attributes of an entity may tell of
its stock, in any case; `split(":")[-1]` is `AfterColon`, and `GoalWords` is what
is left of a description behind its last colon. A belief without an attribute is
never revised; for the planner its attribute is its type and its value its
confidence. The facts of capabilities and resources (`Owned`) come before the
beliefs and do not change. The built-in engine has no
inner await and plans inside `run()`; the LLM engine reads the intent (`Ask`)
and is awaited. What the built-in engine would plan is checked in every
reachable state of mind for every command, so plans are not stored.

**Grocery.** `request[h]` is a request in its handler, `pc` the await it is at.
The writes of `_place_order` are those of a transaction: they are applied at
`Commit`, and until then `Locked` keeps other transactions off the documents it
has written, as MongoDB's write conflicts do (the loser runs again). A shipment
is read in `LookAssign` or `LookAdvance` and written later, under the condition
the update names. `life` is the process and `filled` the collections it has
seeded; `Crash` answers `Lost` to everybody inside and keeps the store, and
`Boot` seeds what the code's tests find missing.

**GroceryPipeline.** `pipe[p]` is the graph's run: two checks side by side, the
order, the poll. A client may give up on a call at any time (`OrderUnreachable`,
`PollUnreachable`), whatever the service goes on to do. `dispatcher[p]` and
`queue[p]` are the coroutine that assigns the rider and the queue by which it
learns of the order. `via` of an order is history.

**Memory.** A tick is ten seconds and keeps half of a confidence, where the code
multiplies by 0.95 for each. As in the code the power is that of the whole age,
taken anew at every call. Over the cap the hypotheses are sorted as Python sorts
in reverse: equals keep their order. Lists that are only appended to are their
lengths. What `round(x, 4)` keeps is a multiple of `Grain`, to the nearest and of
two to the even one; what callers add need not be one.

**Reasoning.** A word is given by the table it is found in, a sentence by the
shapes it matches; `Read` and `ExtractFacts` are the loops over them.
Confidence, proficiency and trust are in hundredths.

**Workers.** `Holder[n]` is who has the task after `n` hand-overs, which in the
code is recursion without an await.

**Providers.** `Discovery` and `Execution` are the routes of each provider in
the order of its code. A route may run the agent without its answer being heard
(`RouteUnheard`); `ran`, `unheard` and `heard` count that. The code's walk over
the live dictionary raises when it has grown (`size`).

**Lifecycle.** The background task is `loop`: sleeping, checking an adapter, or
announcing a change, each of which is an await at which startup, `execute` and
`shutdown` run. `told`, the last event about each adapter, is history.

**Scheduler.** Loads are in tenths and the score in 1/600. `Rounds` is what
remains of the walk of `reschedule_pending` over the list that `schedule`
appends to during the walk. `turned` is history.

## 4. The runs

| Run | Question | States |
|---|---|---|
| `ChainRun_shared` | two tasks, two jobs, three plans, everything interleaved, with cancellation | 493k |
| `ChainRun_careful` | a caller that makes one call at a time and resumes: liveness | 24k |
| `GraphRun_waves` | six graphs, with interrupts and resumes; safety, refinement, an end | 66k |
| `ActorMind_mind` | one actor, an aspect with two values and a topic, two types of goals, two labels and none; safety, and forgetting | 225k |
| `Society_all` | two actors, affiliations, outcomes, save and load, messages | 2.1M |
| `Cognition_plans` | two calls, three commands, eight beliefs of which two attributes tell of one stock | 183k |
| `Grocery_pipeline` | a pipeline, its dispatcher and two other clients on a service that may crash; safety, and an end | 523k |
| `Parts` | the buses and six parts, each alone: permissions, decay and forgetting, decisions, routes, health checks, the queue | 394k |
| `ChainRun_overwrite`, `GraphRun_conditional`, `Cognition_stock`, `Grocery_riderless` | violations, see 7 | |

Bounds, and why they are enough:

* Two tasks and two jobs: a flag or slot is shared by a pair. Plans of two and
  three steps with a retry, a closed gate, a conditional with and without a
  branch, a malformed step and `stop_on_failure`: a plan may be interrupted
  before each step, so three cuts in a row occur. `MaxStock = 1` opens and
  closes the gate.
* The graphs are chosen for what can go wrong in a pass: a diamond (two tasks
  in one gather, a join), a cycle with steps before and beside it, an unknown
  dependency with a dependent, a conditional that reports under another name, a
  name used twice, a step that raises beside one that runs.
* `ActorMind`: two beliefs, or two goals, or one of each, for beliefs and goals
  do not depend on each other (`RoomySpec` keeps the sum within `Room = 2`).
  Beliefs are told with confidence 0.07, which survives one cycle, and 0.12,
  which survives two. Two goals are two requests of one type, or a goal twice, or
  one of each type. `MaxCycles = 3` caps only the history `told`, and
  `CyclesAssumption` has it that no belief outlives it.
* `MaxEdits = 3` changes of trust or affiliation per behaviour, `MaxSent = 2`
  messages per actor, `MaxLocal = 1` place on the bus: it takes one message
  over the cap to trim, and one edit to a level below zero, or three bad outcomes
  (50, 40, 30, 20), to fall below the threshold of 0.3.
* Buses: `MaxProviders = 3`: a named provider, a better one, and one found by words.
* Cognition: `MaxBeliefs = 2` beliefs at a time, the fewest for two accounts of
  one stock that disagree; one decay takes those of 0.72 below 0.7, and
  `MaxCycles = 2` also drops one of 0.12. One command is heard with confidence
  (0.7) and two without (0.4), of which one has a colon in it.
* Grocery: the tables of the seeding are parameters. One article at price 1, 5 on
  the shelf, 4 in the wallet, two riders where the code seeds one, and orders
  for 2, 3 and 4, so that after a first order one of the others fails for stock
  and one for money; two orders, two calls by others beside the pipeline's own,
  among them an assignment of another rider, of an unknown one, and every step
  of a shipment by a right and a wrong caller; one crash, at any await or
  between any two collections.
* Parts: three beliefs, one below the floor, which is not among the values that
  can be stored, and one above it, and room for one hypothesis; three entries
  of capabilities of which some are unavailable, and two goals; two agents under two providers, where a cycle of hand-overs is
  possible; a provider whose routes fail one by one and one whose routes fail
  together, and two jobs; two adapters, two
  executions; three tasks on a queue of two, and two runtimes of which one has
  what one of the tasks needs. Every action of every part fires.

The deadlock check is on wherever the model cannot stop. It is off in
`Society_all`, the Grocery runs and `Parts`, where an exhausted budget of
edits, calls, crashes or jobs stops the model, or the pipeline is done.

The properties, by run:

* **ChainRun.** `OneOwner`, `StepsInOrder`, `NumbersFaithful`, `HonestData`
  (results and recorded data agree, through checkpoints too), `StopMeansStop`,
  `SuccessIsEarned`, `ImplementsContract`. For the careful caller:
  `NoPlanForgotten`, `CallsReturn`, `InterruptedPlansComplete`.
* **GraphRun.** `OneResultEach`, `RefusedForCause`, `UninterruptedInPlanOrder`,
  `Ends`, `ImplementsContract` (which says that a step is dispatched once, after
  its dependencies).
* **ActorMind.** `ConditionIsLatest`, `Forgets`, `RequestsTracked`, `GoalsAgree`,
  `CurrentIsPursued`.
* **Society.** `TypeOK` (trust stays in range on every way it is set),
  `RestartChangesNothing` (to_dict() and from_dict() at any moment leave trust
  as it is, but in the targets that `update()` gave to affiliations),
  `NoDistrustedTalk`.
* **Buses.** `NoUnauthorizedRun`.
* **Cognition.** `PlansOwnCommand`; `OutOfStockSkipped` (an entity is visited
  only if nothing relevant is known of its stock or if by one of the latest
  accounts, one for each attribute, there is enough); `CommandHeard` (what a
  command names is in its plan, unless a latest account of its stock is low or
  it is a single word with a colon).
* **Grocery.** `BooksBalance` (taking one order after the other from the first
  stock and the first balance leaves what is there now, and never goes below
  zero), `ForwardOnly`, `AnswersTrue`. **GroceryPipeline.**
  `OrderedOnce`, `ReportHonest`, `PipelineEnds`.
* **Parts.** `OnlyRoundingRaises` (no confidence rises, but to what it is when
  rounded), `Forgotten`; `DecisionCanBeDone`; `RunsAccountedFor` (at most one
  answer was heard, and that is the one reported; it does not say that the agent
  ran once, for after a timeout it may have run twice); `AnnouncedOnce`;
  `NothingLost`.

The modules define some properties that no run lists, since one of the above
says as much or more. Proved (section 6): the type invariants of `ChainRun`,
`ActorMind`, `Buses` and `Cognition`, `Inductive`, `Accounted`,
`RunsAfterDependencies`, `DispatchedOnce`, `NewcomerMustBeBetter`, `HonestAge`,
`BusKeepsLatest`, `ReportsAreHonest` of `Society`. All of them hold in the same
configurations and can be added to them. Those named in section 7 do not hold.

## 5. Fairness

* `ChainRun`, `CarefulFairSpec`: weak fairness of each task's step. The event
  loop runs every ready task, and an awaited engine, capability or agent
  returns or raises; there is no timeout in the dispatcher that would make this
  so, hence it is an assumption about what is called. `Resuming` is an
  assumption about the caller. Neither `interrupt()` nor the environment is
  fair. `InterruptedPlansComplete` asks that interrupts cease; without that a
  plan may be suspended for ever before its first step.
* `GraphRun`, `FairSpec`: the same for the loop, each task of a gather, and the
  resume. `Ends` asks that interrupts cease.
* `ActorMind`, `FairSpec`: the owner keeps ticking its OS. `Forgets` asks that
  nothing new is told.
* `GroceryPipeline`: the steps of the pipeline and of the dispatcher. Each of
  their calls has a timeout (five seconds, and the deadline of the poll), so
  they go on whatever the service does; the service and other clients are not
  fair. `PipelineEnds` follows from the timeouts: it needs no cooperation.
* `Memory`: time passes, and `decay_and_prune` is, as its docstring says,
  "called each tick". `Forgotten` needs nothing else, for the number of beliefs
  is bounded.

## 6. The proofs

The theorems hold for any sets of tasks, jobs, actors, requests and so on, any
plans, graphs, tables and limits that satisfy the named assumptions of the
modules. "Run" names the run that shows the same property on a small instance;
a theorem without one is about a definition that no run lists.

| Theorem | Statement | Run |
|---|---|---|
| **`ChainRun_proofs`** | | |
| `InductiveHolds`, `TypeCorrect` | `Spec => []Inductive`, `[]TypeOK` | |
| `PlanHasOneOwner` | `Spec => []OneOwner` | `ChainRun_shared` |
| `StepsDispatchedInOrder` | `Spec => []StepsInOrder` | `ChainRun_shared` |
| `ResultsNumberedFaithfully` | `Spec => []NumbersFaithful` | `ChainRun_shared` |
| `NothingRunsAfterStop` | `Spec => []StopMeansStop` | `ChainRun_shared` |
| `DataIsHonest` | `Spec => []HonestData` | `ChainRun_shared` |
| `SuccessClaimsAreEarned` | `Spec => []SuccessIsEarned` | `ChainRun_shared` |
| `ChainRunImplementsContract` | `Spec => Contract!Spec` | `ChainRun_shared` |
| `CarefulCallerLosesNothing` | `CarefulSpec => []NoPlanForgotten` | `ChainRun_careful` |
| **`GraphRun_proofs`** | | |
| `BooksKept`, `NothingDispatchedTwice` | `Spec => []Bookkeeping`, `[]DispatchedOnce` | |
| `EveryStepHasItsResult` | `Spec => []OneResultEach` | `GraphRun_waves` |
| `ResultsInPlanOrder` | `Spec => []UninterruptedInPlanOrder` | `GraphRun_waves` |
| `RefusalsHaveACause` | if names are kept, `Spec => []RefusedForCause` | `GraphRun_waves` |
| `DependenciesComeFirst` | if names are kept, `Spec => []RunsAfterDependencies` | |
| `WavesImplementTheContract` | if names are kept, `Spec => ImplementsContract` | `GraphRun_waves` |
| **`ActorMind_proofs`** | | |
| `MindsStayFaithful`, `FieldsKeepTheirTypes` | `Spec => []Minds`, `[]TypeOK` | |
| `ConditionsTakeTheLatest` | `Spec => []ConditionIsLatest` | `ActorMind_mind` |
| `AgesAreHonest` | `Spec => []HonestAge` | |
| `RequestsAreTracked` | `Spec => []RequestsTracked` | `ActorMind_mind` |
| `BothGoalListsAgree` | if lists are not shared, `Spec => []GoalsAgree` | `ActorMind_mind` |
| `CurrentGoalIsPursued` | if lists are not shared, `Spec => CurrentIsPursued` | `ActorMind_mind` |
| **`Society_proofs`** | | |
| `TrustStaysInRange` | `Spec => []TypeOK` | `Society_all` |
| `NobodyHearsTheDistrusted` | `Spec => []NoDistrustedTalk` | `Society_all` |
| `RestartKeepsTrust` | `Spec => []RestartChangesNothing` | `Society_all` |
| `MessagesAccounted` | `Spec => []ReportsAreHonest` | |
| `LocalBusKeepsLatest` | `Spec => []BusKeepsLatest` | |
| **`Parts_proofs`**, of `Buses` | | |
| `CallsInvariant`, `TypeCorrect` | `Spec => []CallsOK`, `[]TypeOK` | |
| `OnlyAuthorizedRuns` | `Spec => []NoUnauthorizedRun` | `Parts` |
| `NewcomersAreBetter` | `Spec => NewcomerMustBeBetter` | |
| `BusesAmongParts` | `PartsSpec => Spec` | |
| **`Parts_proofs`**, of `Parts` | | |
| `MemoryInvariant`, `ExternalInvariant`, `LifecycleInvariant`, `SchedulerInvariant`, `ReasoningInvariant` | `PartsSpec => []MemoryOK`, `[]ExternalOK`, `[]LifecycleOK`, `[]SchedulerOK`, `[]ReasoningOK` | |
| `BeliefsOnlyFade` | `PartsSpec => OnlyRoundingRaises` | `Parts` |
| `AgentRunsAccounted` | `PartsSpec => []RunsAccountedFor` | `Parts` |
| `DegradedOnce` | `PartsSpec => AnnouncedOnce` | `Parts` |
| `SubmittedTasksKept` | `PartsSpec => []NothingLost` | `Parts` |
| `DecisionsCarriedOut` | `PartsSpec => []DecisionCanBeDone` | `Parts` |
| **`Cognition_proofs`** | | |
| `PlansAreForTheirCommand` | `Spec => []PlansOwnCommand` | `Cognition_plans` |
| `OutOfStockIsSkipped` | `Spec => []OutOfStockSkipped` | `Cognition_plans` |
| `CommandsAreHeard` | `Spec => []CommandHeard` | `Cognition_plans` |
| `PlansStayInBounds` | `Spec => []TypeOK` | |
| **`Grocery_proofs`** | | |
| `GroceryInvariant` | `Spec => [](ServiceOK /\ PipelinesOK)` | |
| `BooksAlwaysBalance` | `Spec => []BooksBalance` | `Grocery_pipeline` |
| `AnswersStayTrue` | `Spec => []AnswersTrue` | `Grocery_pipeline` |
| `ShipmentsMoveForward` | `Spec => ForwardOnly` | `Grocery_pipeline` |
| `AtMostOneOrder` | `Spec => []OrderedOnce` | `Grocery_pipeline` |
| `ReportsAreHonest` | `Spec => []ReportHonest` | `Grocery_pipeline` |

None of these properties is inductive by itself. What was added, and why:

**ChainRun.** That steps are reached in order depends on where a checkpoint
cuts, which depends on how many results a call has, which depends on where its
slice began. `Inductive` adds `Progress` to `TypeOK`, `OneOwner` and
`StepsInOrder`. `Progress` says where every plan stands:

* a call's slice starts where its inherited results end (`base = from`), and
  it has appended one result for each index it passed, or the whole rest when
  the plan stopped on a failure;
* at the head of the loop as many steps were reached as there are results, and
  one more during an attempt, whose step is the one reached (or its branch);
* the slot is cut right after its last result, and at least one step is left;
* under `stop_on_failure` a bad result means that nothing was reached after it
  and that the ledger is full;
* `verdict` tells whether a job is untouched, held by a call, or in the slot.

The proof has one step per action. Actions of a call change one task and one
job, so each reduces to a lemma about that pair and an argument that the others
are framed; `OneOwner` is what keeps another task, or the slot, from holding
the job. The refinement follows from the same invariant: each action maps to
one of the contract or to a stutter, and `Progress` supplies the guards of the
contract (that a step is left when a plan is paused, that all were reached when
it succeeds). `Accounted` is `HonestData` and `SuccessIsEarned`, which need each
other and that an untouched job has no data. For the careful caller,
`OneAtATime` says that at most one job is held, and none while the slot is
taken: then the slot that a suspension fills is empty.

**GraphRun.** `Bookkeeping` says how what remains, what is in flight, what
succeeded and what failed make up the plan, what a task in flight has done, and
what a checkpoint keeps; it holds for every graph. `Numbered` relates the
numbers of results to places in the plan, until a `resume()` numbers what
remains from one again; a sorted list of different numbers is in plan order.
`Memory` relates what the dispatcher knows of a step (`byName`, and the names
in the results from which `resume()` rebuilds it) to what happened (`won`).
It needs `NamesKept`: no step depends on a conditional whose branch has another
name, or on the name of such a branch. The code does not ensure that, and a
graph without it breaks the property, which is what `GraphRun_conditional`
shows; `KeptAssumption` in `MCGraphRun` has TLC evaluate `NamesKept` for the
graphs of both runs. The refinement goes by actions: what a pass or a broken
cycle refuses is one refusal of the contract, for each of it depends on
something that failed, is unknown, or is refused with it; a dispatch happens
when `Memory` says that every dependency has succeeded; the end of an attempt is
a success or a failure; everything else stutters.

**ActorMind.** `Minds` says of each aspect that the history `told` knows to be
alive that there is one belief about it, with the value, age and confidence
owed. `RequestsTracked` says of every request, of `run()` or of `add_goal()`, that
it has a goal, and of those that `run()` alone made that they have one only:
`add_goal` appends what is there already. `Apart` says that
no actor's list object is another's. It needs `OwnLists`, that actors are
constructed with lists of their own, for the constructor does not copy: two
actors given one list would share it, and a goal added to one would show in the
other (section 7).

**Society.** `SocietyOK`: the types (every way to set trust is clamped), that
every message in a mailbox was sent in trust, and that the local bus is the end
of the log. `Founded` says what trust rests on: no affiliation is there twice,
and trust in the target of each is known, unless `update()` gave it that
target. Hence from_dict(), which adds the affiliations first, finds nobody
unknown to whom they would give an initial level; with the exception left out
the invariant is false, and so is the property (section 7, `manager.py:58`).
`Accounted` adds to `ReportsAreHonest` that the deliveries of an actor are
finitely many; a post takes as many places as it has peers, which no message
holds yet.

**Buses.** `CallsOK`: a result came from somebody who needs no more than the
caller was granted. What takes work is the selection: `Select` has one answer
for a name, the same for `check_authorization` and `execute`, although it is a
`CHOOSE` over overlaps of words and proficiencies.

**Memory.** `MemoryOK`: a belief has a name of its own in its list, so the belief
of that name before a step is the same belief. The work is in
`decay_and_prune`: filtering, decaying, sorting and cutting yield a list each of
whose elements comes from one of the old list, two never from one, with a
confidence that is no more than the old one or the old one rounded. That this
bound is kept through both the clamping and the rounding takes that rounding is
monotone (`RoundedMonotone`), and that what it yields is not moved by it again.

**Providers.** `ExternalOK` says what a job may be at each await: an answer that
was heard ends it, so while a route runs nothing was heard, and what ran is what
went unheard and the run in progress.

**Lifecycle.** `LifecycleOK`: outside the loop, an adapter whose last event is
"degraded" is kept as unhealthy (by `health`, or by the loop that is about to
keep it), so the next check announces no degradation; while `startup` runs, all
that have had their turn were announced anew.

**Scheduler.** `SchedulerOK`: a task waits exactly while it has no runtime and
was not turned away. `reschedule_pending` is the hard step: what placing a task
changes of a runtime (its depth) is not what decides who may take a task, so
what can be placed when the walk begins is placed at its end, each on the best
runtime at that moment, and the walk over its own additions loses none of the
others.

**Reasoning.** `ReasoningOK` are types. The lemmas follow `synthesize`: a match
is available exactly if the capability is usable, a goal is achievable exactly
if all its matches are available, the first of the most confident is chosen,
and among the matches of all goals those of the chosen one name what it
requires.

**Cognition.** `CognitionOK`: no two beliefs that are revised are about one
attribute of one entity (`add_belief` replaces, decay changes confidences only),
which is why the fact the planner looks at is the latest account of its
attribute, if not of the stock; and a call that waits for the LLM has the prompt
of its own command. The rest are lemmas about the
planner: grouping, filtering, scoring and sorting neither lose nor add an
entity, and a score is a number whatever is multiplied into it. They rest on
`NamesAssumption`: steps are called `process_<entity>`, so no entity is
mistaken for the step `achieve_goal`.

**Grocery.** `ServiceOK` says what each request has established at the await it
is at, that two open transactions have written no document in common, that a
shipment waiting for a rider has none, and which collections are seeded;
`PipelinesOK` says what each pipeline knows of its order. `HandlersAssumption`
keeps the handlers of other clients apart from those of the pipelines.

Assumptions on constants worth knowing, beside those: `NoCheckpointAssumption`
(an empty slot is no checkpoint), `NoOneAssumption` (nor is nobody a provider),
`WordsAssumption` (a name has finitely many words), `QuantitiesAssumption`
(orders are for whole numbers). All are evaluated by TLC in the runs.

Only model-checked:

* liveness, which the provers do not reach: `CallsReturn`,
  `InterruptedPlansComplete`, `Ends`, `Forgets`, `PipelineEnds`, `Forgotten`;
* what the violations of section 7 show, for there is nothing to prove.

## 7. Where the code departs from what it says

Shown by a run:

* `ChainRun_overwrite` (os.py:1022): the slot is single; a second interrupted
  plan overwrites the first, which can never be resumed.
* `GraphRun_conditional` (os.py:1080): after a resume, a step that depends on
  a conditional is refused as having an unknown dependency, since the
  conditional's result carries the name of its branch.
* `Grocery_riderless` (grocery_service.py:443): an admin may PATCH a pending
  shipment to "assigned". It then has no rider, `POST assign` refuses it, and
  no rider can move it on; the docstring has it that assigning a rider is what
  moves a shipment there.
* `Cognition_stock` (planning_engine.py:163): every attribute that contains
  "stock" counts, each is revised for itself, and only the first fact is looked
  at. An entity is planned for although a later fact about another such attribute
  says that there is too little, against the comment "Skip entities with
  insufficient stock (need at least 3 units)".

Met while modelling, in the model but not the subject of a run. Of the first
six the refuted claim is a definition, to be checked by naming it in a
configuration of its module: `InterruptHitsInFlight`, `FailuresSurface`,
`ReliabilityFormula`, and `CustomerHasWallet` in `Grocery_pipeline.cfg`,
`DelegationEnds` and `NeverRaised` in `Parts.cfg`:

* os.py:213: an `interrupt()` with no call in flight stays pending and suspends
  the *next* plan before its first step; the docstring speaks of "the in-flight
  run()/resume()".
* capability_bus.py:152, agent_bus.py:128: a provider with nothing to call, and
  an agent whose payload lies beside `success: False`, are reported as
  successes.
* planning_engine.py:202: a reliability belief revised after the freshness
  belief erases the share of freshness in the score (with the objective and
  beliefs about both, which the runs do not have).
* grocery_service.py:94: everything but the products is seeded only while there
  are no keys; a crash after the keys leaves the customer without the "starting
  wallet balance" of the docstring, for ever, and every order is refused (402).
* agents/\_\_init\_\_.py:57: an agent whose backend is the provider that hosts it
  recurses until the stack is full, and neither does its task nor fails.
* belief_state.py:401: a confidence of 2/3 on the floor is stored as 0.6667,
  against the comment that decay "must never raise a fact's confidence above what
  it started with". By less than 0.00005, and once: `OnlyRoundingRaises`.

* os.py:914: a step whose `retries` is no integer makes `run()` raise.
* os.py:1070: a resumed graph numbers its remainder from 1 again, and the
  results are sorted by these numbers.
* os.py:1113: a step behind one of unknown dependency is reported as
  `dependency_cycle` if the pass meets it last.
* actor.py:131: two actors built from one list of goals share it.
* actor.py:201: progress is recorded on every goal of a type.
* manager.py:58: `update()` of a target and `from_dict()` of the result leave
  different trust; manager.py:51: `add()` overwrites trust that was earned.
* os.py:1184: `tick()` wraps an engine's `success: False` in `success: True`.
* planning_engine.py:126: of a requirement only what follows the last colon is
  looked at, so a command of one word with a colon in it, which is heard with a
  confidence of 0.4, gets no step of its own. planning_engine.py:220: prices
  below 1 tie at confidence 1, so the order among them is that of the facts.
* grocery_service.py:234: `_notify` "never raises", but an answer that is no
  JSON does: the order is committed and the client is told 500.
* grocery_graph_pipeline.py:158: the client's five seconds may be over while the
  service notifies, for up to ten: the step has failed and the order stands.
* grocery_graph_pipeline.py:307: `main()` awaits its dispatcher, which awaits the
  queue: for ever, when no order was placed. `PipelineEnds` is about runs with an
  order.
* belief_state.py:397: the whole age is decayed again at every call, so the
  more often it is called the faster beliefs fade. The expiry of working memory
  is recorded and never enforced.
* pipeline_actor.py:44: a cycle sets a terminated or blocked actor to idle.
* agents/\_\_init\_\_.py: an agent hosted twice is at home with the second
  provider and still served by the first.
* os.py:494: `synthesize` breaks ties by the priority of the first goal, which
  is the same for all, so the first wins. A goal that requires nothing known is
  achievable given any belief; resources never block one; proficiency counts
  entries that are unavailable.
* provider_registry.py:500: a provider registered during discovery makes it
  raise. provider_registry.py:165: a route that times out may have run the
  agent, and the fallback runs it again.
* lifecycle/manager.py:178: `execute()` sets READY over DEGRADED and SHUTDOWN.
  A check that raises degrades without an event, so a recovery can be announced
  without the degradation. manager.py:381: `execute_capability` passes a field
  its context lacks, and always fails. Adapters stay listed after shutdown.
* scheduler.py:145: `reschedule_pending` multiplies what it cannot place until
  the queue is full, and such a task may then be placed several times.
  `unregister_runtime` forgets the tasks a runtime had; `active_tasks` is never
  raised.

## 8. What is not modelled

*Text*: regular expressions, number words, plurals, the parsing of an LLM's
answer (an answer or a failure here), wording, latency and events. A command is
the tables its words are found in, a sentence the shapes it matches. *Static
tables and declarations*: ontology, affiliation types, interfaces, protocols,
exceptions. *Data that is stored and not read again*: roles, statuses and
evidence of affiliations, the cost and risk of plans, most of the execution
state, priority and time stamps of scheduled tasks.

*Of modelled components*: a second `startup()` of the adapters without a
shutdown, `reload_configuration`, the health check on demand, which keeps
nothing; a conditional whose branch is a conditional.

*Other code*: the remaining examples are thin wrappers around one command or one
HTTP call; what else is archived (configuration, contracts, in-memory
registries) keeps no state that a step could get wrong.

The society runtime and the external agent registry are outside the repository
and are what the code takes them for; so are MongoDB and the notified webhook.
Floats are fixed-point numbers, so nothing is shown about the rounding of their
operations; the one that `decay_and_prune` asks for is modelled.
Threads: only the LLM request leaves the event loop, and it touches no shared
state.

## 9. The plan

Done, in the order of importance: the chain dispatcher with its contract and
proofs; graphs with theirs; the actor's mind; trust and messages; the buses;
the engines; the grocery service and the plan that shops there; the belief
state, the reasoning queries, agents and providers; the archived parts with
state.

Proved since: every safety property that a passing run checks, and both
refinements.

Next:

1. The composition of `Cognition`, `ChainRun` and `Buses`: a command whose plan
   is served by providers found by name or by words, with the permissions that
   an execution state has.
2. Graph plans in concurrent calls, with the slot and flag of `ChainRun`.
