----------------------------- MODULE Lifecycle -----------------------------
(***************************************************************************)
(* The lifecycle of adapters (_archived_dead_code/lifecycle): a manager    *)
(* that starts them one after the other, checks their health in the        *)
(* background, routes calls to them and shuts them down in reverse order.  *)
(* Every call of an adapter, and every event, is awaited.                  *)
(***************************************************************************)
EXTENDS Integers, SequencesExt

CONSTANTS
    Adapter,                     \* adapter classes
    Registry,                    \* AdapterRegistry, in order of registration
    Task,                        \* callers of execute()
    MaxCalls                     \* bound on calls of execute()

Assumptions == Registry \in Seq(Adapter) /\ MaxCalls \in Nat

VARIABLES
    phase,       \* what startup() or shutdown() is doing
    todo,        \* the adapters it still has before it
    adapters,    \* the started ones, in order of the dict
    status,      \* adapter.status
    health,      \* health_checks
    loop,        \* the background task
    serving,     \* the adapter each task executes
    calls,
    told         \* history: the last event about each adapter

vars == << phase, todo, adapters, status, health, loop, serving, calls, told >>

Off      == [pc |-> "none"]
Sleeping == [pc |-> "sleeping"]
Nothing  == "nothing"

Init ==
    /\ phase = "down" /\ todo = << >> /\ adapters = << >>
    /\ status = [a \in Adapter |-> "uninitialized"]
    /\ health = [a \in Adapter |-> FALSE]
    /\ loop = Off
    /\ serving = [t \in Task |-> Nothing] /\ calls = 0
    /\ told = [a \in Adapter |-> Nothing]

-----------------------------------------------------------------------------
(* startup: _start_adapter for one class after another, then the loop.     *)

Startup ==
    /\ phase = "down"
    /\ phase' = "starting" /\ todo' = Registry
    /\ UNCHANGED << adapters, status, health, loop, serving, calls, told >>

Adding(s, x) == IF Contains(s, x) THEN s ELSE Append(s, x)

(* initialize() returns, or raises and leaves the adapter out.             *)
Initialized ==
    /\ phase = "starting" /\ todo # << >>
    /\ todo' = Tail(todo)
    /\ adapters' = Adding(adapters, Head(todo))
    /\ status' = [status EXCEPT ![Head(todo)] = "ready"]
    /\ health' = [health EXCEPT ![Head(todo)] = TRUE]
    /\ told' = [told EXCEPT ![Head(todo)] = "ready"]
    /\ UNCHANGED << phase, loop, serving, calls >>

InitializeRaises ==
    /\ phase = "starting" /\ todo # << >>
    /\ todo' = Tail(todo)
    /\ told' = [told EXCEPT ![Head(todo)] = "failed"]
    /\ UNCHANGED << phase, adapters, status, health, loop, serving, calls >>

Started ==
    /\ phase = "starting" /\ todo = << >>
    /\ phase' = "up" /\ loop' = Sleeping
    /\ UNCHANGED << todo, adapters, status, health, serving, calls, told >>

-----------------------------------------------------------------------------
(* The background task: a pass over a copy of the adapters, in which each  *)
(* check is awaited, and the event before the result is kept.              *)

Check(a, rest) == [pc |-> "checking", at |-> a, rest |-> rest]

Continue(rest) ==
    loop' = IF rest = << >> THEN Sleeping ELSE Check(Head(rest), Tail(rest))

Wake ==
    /\ loop.pc = "sleeping"
    /\ Continue(adapters)
    /\ UNCHANGED << phase, todo, adapters, status, health, serving, calls, told >>

(* A changed state of health is set and announced.                         *)
Announces(a, ok) == ok # health[a]

Announce(a, ok) ==
    /\ status' = [status EXCEPT ![a] = IF ok THEN "ready" ELSE "degraded"]
    /\ told' = [told EXCEPT ![a] = IF ok THEN "recovered" ELSE "degraded"]
    /\ loop' = [pc |-> "announcing", at |-> a, rest |-> loop.rest, ok |-> ok]
    /\ UNCHANGED health

Checked(ok) ==
    /\ loop.pc = "checking"
    /\ IF Announces(loop.at, ok) THEN Announce(loop.at, ok)
       ELSE Continue(loop.rest) /\ UNCHANGED << status, told, health >>
    /\ UNCHANGED << phase, todo, adapters, serving, calls >>

(* A check that raises degrades the adapter without an event.              *)
CheckRaises ==
    /\ loop.pc = "checking"
    /\ health' = [health EXCEPT ![loop.at] = FALSE]
    /\ status' = [status EXCEPT ![loop.at] = "degraded"]
    /\ Continue(loop.rest)
    /\ UNCHANGED << phase, todo, adapters, serving, calls, told >>

Unkept(a, ok)    == health                                      \* mutant
KeptHealth(a, ok) == [health EXCEPT ![a] = ok]

Announced ==
    /\ loop.pc = "announcing"
    /\ health' = KeptHealth(loop.at, loop.ok)
    /\ Continue(loop.rest)
    /\ UNCHANGED << phase, todo, adapters, status, serving, calls, told >>

-----------------------------------------------------------------------------
(* execute: whatever the adapter's status was, it is ready afterwards.     *)

Execute(t, a) ==
    /\ serving[t] = Nothing /\ calls < MaxCalls
    /\ Contains(adapters, a)
    /\ calls' = calls + 1
    /\ serving' = [serving EXCEPT ![t] = a]
    /\ status' = [status EXCEPT ![a] = "executing"]
    /\ UNCHANGED << phase, todo, adapters, health, loop, told >>

Executed(t) ==
    /\ serving[t] # Nothing
    /\ serving' = [serving EXCEPT ![t] = Nothing]
    /\ status' = [status EXCEPT ![serving[t]] = "ready"]
    /\ UNCHANGED << phase, todo, adapters, health, loop, calls, told >>

-----------------------------------------------------------------------------
(* shutdown: the background task is cancelled and awaited first.           *)

Shutdown ==
    /\ phase = "up"
    /\ phase' = "stopping" /\ loop' = Off
    /\ todo' = Reverse(adapters)
    /\ UNCHANGED << adapters, status, health, serving, calls, told >>

(* A shutdown that raises leaves the status as it was.                     *)
Closed(ok) ==
    /\ phase = "stopping" /\ todo # << >>
    /\ todo' = Tail(todo)
    /\ status' = IF ok THEN [status EXCEPT ![Head(todo)] = "shutdown"] ELSE status
    /\ told' = IF ok THEN [told EXCEPT ![Head(todo)] = "shutdown"] ELSE told
    /\ UNCHANGED << phase, adapters, health, loop, serving, calls >>

Stopped ==
    /\ phase = "stopping" /\ todo = << >>
    /\ phase' = "down"
    /\ UNCHANGED << todo, adapters, status, health, loop, serving, calls, told >>

Next ==
    \/ Startup \/ Initialized \/ InitializeRaises \/ Started
    \/ Wake \/ CheckRaises \/ Announced \/ \E ok \in BOOLEAN : Checked(ok)
    \/ \E t \in Task : Executed(t) \/ \E a \in Adapter : Execute(t, a)
    \/ Shutdown \/ Stopped \/ \E ok \in BOOLEAN : Closed(ok)

-----------------------------------------------------------------------------
(* Properties.                                                             *)

(* An adapter is not announced as degraded twice without a recovery, a     *)
(* shutdown or a new start in between, though the loop is cancelled and    *)
(* started again at any of its awaits, and starting may fail.              *)
AnnouncedOnce ==
    [][loop.pc = "checking" /\ loop'.pc = "announcing" /\ ~loop'.ok
          => told[loop.at] # "degraded"]_vars
=============================================================================
