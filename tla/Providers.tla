----------------------------- MODULE Providers -----------------------------
(***************************************************************************)
(* External providers of agents (_archived_dead_code/provider_registry.py):*)
(* discovery that asks provider after provider, and execution that tries   *)
(* one route of a provider after another.  What goes over the network may  *)
(* run and not be heard of.                                                *)
(***************************************************************************)
EXTENDS Integers, SequencesExt, Selection

CONSTANTS
    Provider,                    \* some of the four providers there are
    Agent, Task,
    MaxJobs                      \* bound on jobs started

(* The routes of each provider, in the order in which it tries them.  The  *)
(* ways to fail before a route is taken (not configured, not installed, no *)
(* endpoint known) are failures of the route.                              *)
OpenClawDiscovery == << "api", "cli" >>
OpenClawExecution == << "api", "cli" >>
N8nDiscovery      == << "api", "database" >>
N8nExecution      == << "webhook" >>
NandaDiscovery    == << "capability" >>
NandaExecution    == << "capability" >>
ArdDiscovery      == << "search" >>
ArdExecution      == << "mcp", "endpoint" >>

Discovery == [openclaw |-> OpenClawDiscovery, n8n |-> N8nDiscovery,
              nanda |-> NandaDiscovery, ard |-> ArdDiscovery]
Execution == [openclaw |-> OpenClawExecution, n8n |-> N8nExecution,
              nanda |-> NandaExecution, ard |-> ArdExecution]

(* One try block around all routes: an exception ends them all.            *)
OneTry == {"ard"}

Assumptions == Provider \subseteq {"openclaw", "n8n", "nanda", "ard"} /\ MaxJobs \in Nat

VARIABLES
    listed,      \* _providers, in the order of the dict
    registered,  \* _agents of each provider: what it was told of
    offered,     \* the agents that really are at a provider
    job,         \* the call each task has in progress, or its result
    jobs

vars == << listed, registered, offered, job, jobs >>

Idle == [kind |-> "none", pc |-> "idle"]

Init ==
    /\ listed = << >>
    /\ registered = [p \in Provider |-> {}] /\ offered = [p \in Provider |-> {}]
    /\ job = [t \in Task |-> Idle] /\ jobs = 0

-----------------------------------------------------------------------------
(* The registry of providers.                                              *)

(* register_provider, once for each name (init_providers is a singleton).   *)
RegisterProvider(p) ==
    /\ ~Contains(listed, p)
    /\ listed' = Append(listed, p)
    /\ UNCHANGED << registered, offered, job, jobs >>

(* register_discovered_agent: ignored for a provider that is not listed.   *)
RegisterDiscovered(p, a) ==
    /\ Contains(listed, p)
    /\ registered' = [registered EXCEPT ![p] = @ \cup {a}]
    /\ UNCHANGED << listed, offered, job, jobs >>

(* Agents come and go at a provider, which tells nobody.                   *)
Offer(p, a) ==
    /\ offered' = [offered EXCEPT ![p] = IF a \in @ THEN @ \ {a} ELSE @ \cup {a}]
    /\ UNCHANGED << listed, registered, job, jobs >>

-----------------------------------------------------------------------------
(* discover_from_providers walks over the dict and awaits inside the walk: *)
(* a provider that is registered meanwhile makes the walk raise.           *)

Start(t, j) ==
    /\ job[t].pc \notin {"asking", "running"}
    /\ jobs < MaxJobs /\ jobs' = jobs + 1
    /\ job' = [job EXCEPT ![t] = j]
    /\ UNCHANGED << listed, registered, offered >>

Discover(t) ==
    Start(t, [kind |-> "discover", pc |-> IF listed = << >> THEN "found" ELSE "asking",
              at |-> 1, route |-> 1, size |-> Len(listed), found |-> {}])

At(t)     == listed[job[t].at]
Asking(t) == job[t].pc = "asking"

NextProvider(t, seen) ==
    job' = [job EXCEPT ![t].at = @ + 1, ![t].route = 1, ![t].found = @ \cup seen,
                       ![t].pc = IF job[t].size # Len(listed) THEN "raised"
                                 ELSE IF job[t].at = Len(listed) THEN "found" ELSE @]

(* What a route found is registered before anybody else runs, and then     *)
(* added to the list.                                                      *)
Register(p, as) == [registered EXCEPT ![p] = @ \cup as]

RouteFinds(t) ==
    LET p == At(t) IN
    /\ Asking(t) /\ job[t].route <= Len(Discovery[p])
    /\ registered' = Register(p, offered[p])
    /\ NextProvider(t, {p} \X offered[p])
    /\ UNCHANGED << listed, offered, jobs >>

RouteFails(t) ==
    /\ Asking(t)
    /\ IF job[t].route < Len(Discovery[At(t)])
       THEN job' = [job EXCEPT ![t].route = @ + 1] ELSE NextProvider(t, {})
    /\ UNCHANGED << listed, registered, offered, jobs >>

-----------------------------------------------------------------------------
(* execute_agent goes to the first provider that was told of the agent,    *)
(* and to no other.  A route may run the agent and not be heard: the next  *)
(* route then runs it once more.                                           *)

Owners(a) == Kept(listed, { k \in DOMAIN listed : a \in registered[listed[k]] })

Execute(t, a) ==
    Start(t, IF Owners(a) = << >>
             THEN [kind |-> "execute", pc |-> "answered", heard |-> FALSE,
                   agent |-> a, ran |-> 0, unheard |-> 0]
             ELSE [kind |-> "execute", pc |-> "running", heard |-> FALSE, agent |-> a,
                   by |-> Owners(a)[1], route |-> 1, ran |-> 0, unheard |-> 0])

Running(t)   == job[t].pc = "running" /\ job[t].route <= Len(Execution[job[t].by])
IsOffered(t) == job[t].agent \in offered[job[t].by]

(* A route that answers ends the call, whatever the answer says.           *)
TryNext(t) == job' = [job EXCEPT ![t].route = @ + 1, ![t].heard = TRUE,      \* mutant
                                 ![t].ran = @ + 1]
Return(t)  == job' = [job EXCEPT ![t].pc = "answered", ![t].heard = TRUE,
                                 ![t].ran = @ + 1]

RouteAnswers(t) ==
    /\ Running(t) /\ IsOffered(t)
    /\ Return(t)
    /\ UNCHANGED << listed, registered, offered, jobs >>

RoutesLeft(t) ==
    {job[t].route + 1} \cup
    (IF job[t].by \in OneTry THEN {Len(Execution[job[t].by]) + 1} ELSE {})

RouteUnheard(t) ==
    /\ Running(t)
    /\ \E n \in IF IsOffered(t) THEN {0, 1} ELSE {0}, r \in RoutesLeft(t) :
          job' = [job EXCEPT ![t].route = r, ![t].ran = @ + n, ![t].unheard = @ + n]
    /\ UNCHANGED << listed, registered, offered, jobs >>

OutOfRoutes(t) ==
    /\ job[t].pc = "running" /\ ~Running(t)
    /\ job' = [job EXCEPT ![t].pc = "answered"]
    /\ UNCHANGED << listed, registered, offered, jobs >>

-----------------------------------------------------------------------------
Step(t) ==
    \/ RouteFinds(t) \/ RouteFails(t)
    \/ RouteAnswers(t) \/ RouteUnheard(t) \/ OutOfRoutes(t)

Next ==
    \/ \E p \in Provider : RegisterProvider(p)
    \/ \E p \in Provider, a \in Agent : RegisterDiscovered(p, a) \/ Offer(p, a)
    \/ \E t \in Task : Discover(t) \/ Step(t) \/ \E a \in Agent : Execute(t, a)

-----------------------------------------------------------------------------
(* Properties.                                                             *)

(* When a call of an agent is over, at most one of its runs was heard, and *)
(* that is the one reported: what else ran, on a route that timed out or   *)
(* broke, is not in the report.  An answer that the agent failed is an     *)
(* answer (execute_agent and the four execute methods).                    *)
RunsAccountedFor ==
    \A t \in Task : job[t].kind = "execute" /\ job[t].pc = "answered" =>
        job[t].ran - job[t].unheard = (IF job[t].heard THEN 1 ELSE 0)
=============================================================================
