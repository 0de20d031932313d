------------------------------- MODULE Parts -------------------------------
(***************************************************************************)
(* The buses, and the parts that no other part calls, side by side, each   *)
(* in its module: a behaviour is one of the part that focus names, and the *)
(* others rest.                                                            *)
(***************************************************************************)
EXTENDS Integers, Sequences, Buses

CONSTANTS
    \* Memory
    Whole, Grain, Certainties, FactThreshold, HypothesisThreshold, Floor, Cap,
    MaxAdds, MaxAge, MaxOther, MaxCycles,
    \* External (Providers) and Hosting (Workers)
    Platform, AgentHost, Agent, Task, MaxJobs, Able, NoAgent, NoBackend, Worker,
    \* Lifecycle
    Adapter, Registry, MaxCalls,
    \* Scheduler
    Runtime, Capability, Job, Demands, Descriptors, Beats, MaxQueue, MaxDepth,
    \* Reasoning
    Verb, Noun, Modifier, Plain, VerbGoal, NounGoal, Otherwise, Urgent, Required,
    Commands, Sentences, Skills, Person, Levels, NoWord, Lifetime,
    MaxGoals, MaxSkills, MaxLinks

VARIABLES
    focus,
    facts, hypotheses, others, expired, adds, status, cycles,
    listed, registered, offered, job, jobs,
    local, providers, hosted, home, backend,
    phase, todo, adapters, state, health, loop, serving, calls, told,
    runtimes, queue, placed, turned,
    goals, skills, beliefs, links, trust

Memory    == INSTANCE Memory WITH Levels <- Certainties
External  == INSTANCE Providers WITH Provider <- Platform
Hosting   == INSTANCE Workers WITH Provider <- AgentHost
Lifecycle == INSTANCE Lifecycle WITH status <- state
Scheduler == INSTANCE Scheduler
Reasoning == INSTANCE Reasoning

ASSUME MemoryAssumption    == Memory!Assumptions
ASSUME ExternalAssumption  == External!Assumptions
ASSUME HostingAssumption   == Hosting!Assumptions
ASSUME LifecycleAssumption == Lifecycle!Assumptions
ASSUME SchedulerAssumption == Scheduler!Assumptions
ASSUME ReasoningAssumption == Reasoning!Assumptions

-----------------------------------------------------------------------------
ofMemory    == << facts, hypotheses, others, expired, adds, status, cycles >>
ofExternal  == << listed, registered, offered, job, jobs >>
ofHosting   == << local, providers, hosted, home, backend >>
ofLifecycle == << phase, todo, adapters, state, health, loop, serving, calls, told >>
ofScheduler == << runtimes, queue, placed, turned >>
ofReasoning == << goals, skills, beliefs, links, trust >>
ofBuses     == vars
partsVars   == << focus, ofMemory, ofExternal, ofHosting, ofLifecycle, ofScheduler,
                  ofReasoning, ofBuses >>

PartsInit ==
    /\ focus \in {"beliefs", "rest", "external", "hosting", "lifecycle", "scheduler",
                  "reasoning", "buses"}
    /\ Memory!Init /\ External!Init /\ Hosting!Init
    /\ Lifecycle!Init /\ Scheduler!Init /\ Reasoning!Init /\ Init

Only(f) == focus = f /\ UNCHANGED focus

OthersThanMemory == UNCHANGED << ofExternal, ofHosting, ofLifecycle, ofScheduler,
                                 ofReasoning, ofBuses >>

StepOfBeliefs   == Only("beliefs") /\ Memory!NextBeliefs /\ OthersThanMemory
StepOfRest      == Only("rest") /\ Memory!NextRest /\ OthersThanMemory
StepOfExternal  == Only("external") /\ External!Next
                   /\ UNCHANGED << ofMemory, ofHosting, ofLifecycle, ofScheduler,
                                   ofReasoning, ofBuses >>
StepOfHosting   == Only("hosting") /\ Hosting!Next
                   /\ UNCHANGED << ofMemory, ofExternal, ofLifecycle, ofScheduler,
                                   ofReasoning, ofBuses >>
StepOfLifecycle == Only("lifecycle") /\ Lifecycle!Next
                   /\ UNCHANGED << ofMemory, ofExternal, ofHosting, ofScheduler,
                                   ofReasoning, ofBuses >>
StepOfScheduler == Only("scheduler") /\ Scheduler!Next
                   /\ UNCHANGED << ofMemory, ofExternal, ofHosting, ofLifecycle,
                                   ofReasoning, ofBuses >>
StepOfReasoning == Only("reasoning") /\ Reasoning!Next
                   /\ UNCHANGED << ofMemory, ofExternal, ofHosting, ofLifecycle,
                                   ofScheduler, ofBuses >>
StepOfBuses     == Only("buses") /\ Next
                   /\ UNCHANGED << ofMemory, ofExternal, ofHosting, ofLifecycle,
                                   ofScheduler, ofReasoning >>

PartsNext ==
    \/ StepOfBeliefs \/ StepOfRest \/ StepOfExternal \/ StepOfHosting
    \/ StepOfLifecycle \/ StepOfScheduler \/ StepOfReasoning \/ StepOfBuses

PartsSpec == PartsInit /\ [][PartsNext]_partsVars

(* Memory!Fairness, for the behaviours of its beliefs.                     *)
Ticks  == Only("beliefs") /\ Memory!Tick /\ OthersThanMemory
Prunes == Only("beliefs") /\ Memory!DecayAndPrune /\ OthersThanMemory

FairPartsSpec == PartsSpec /\ WF_partsVars(Ticks) /\ WF_partsVars(Prunes)

-----------------------------------------------------------------------------
(* The properties are those of the parts, with NoUnauthorizedRun as Buses   *)
(* has it.                                                                 *)

(* Memory: no belief grows more certain by decaying than rounding makes it *)
(* (decay_and_prune).                                                      *)
OnlyRoundingRaises == Memory!OnlyRoundingRaises

(* Memory: decay "must never raise a fact's confidence above what it       *)
(* started with" (belief_state.py:391-392).                                *)
NeverRaised == Memory!NeverRaised

(* Memory: every belief is forgotten once nothing is added any more.       *)
Forgotten == Memory!Forgotten

(* Providers: of the runs of an agent at most the one reported was heard.  *)
RunsAccountedFor == External!RunsAccountedFor

(* Workers: a task handed on from agent to backend comes to somebody who   *)
(* does it or fails (agents/__init__.py:5).                                *)
DelegationEnds == Hosting!DelegationEnds

(* Lifecycle: no adapter is announced as degraded twice in a row.          *)
AnnouncedOnce == Lifecycle!AnnouncedOnce

(* Scheduler: what was submitted is placed, waits, or found the queue full. *)
NothingLost == Scheduler!NothingLost

(* Reasoning: a decision can be carried out, and one is made if possible.  *)
DecisionCanBeDone == Reasoning!DecisionCanBeDone
=============================================================================
