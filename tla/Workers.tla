------------------------------ MODULE Workers ------------------------------
(***************************************************************************)
(* Agents and the providers that host them (cognitiveos/agents): a task is *)
(* resolved to an agent, which hands it to its backend; a provider as a    *)
(* backend hands it to the first agent it hosts that can handle the        *)
(* action.  One action is modelled, which some of the agents can handle.   *)
(* No operation contains an await.                                         *)
(***************************************************************************)
EXTENDS Integers, FiniteSets, SequencesExt, Selection

CONSTANTS
    Provider, Agent,
    Able,                        \* the agents that can handle the action
    NoAgent, NoBackend, Worker   \* a Worker is a backend that does the work

Assumptions ==
    /\ IsFiniteSet(Agent) /\ Able \subseteq Agent /\ Agent \cap Provider = {}
    /\ {NoAgent, NoBackend, Worker} \cap (Agent \cup Provider) = {}

VARIABLES
    local,       \* _agents of the registry, in the order of the dict
    providers,   \* _providers of the registry, likewise
    hosted,      \* _agents of each provider, likewise
    home,        \* agent.provider
    backend      \* agent._backend

vars == << local, providers, hosted, home, backend >>

Init ==
    /\ local = << >> /\ providers = << >>
    /\ hosted = [p \in Provider |-> << >>]
    /\ home = [a \in Agent |-> "local"] /\ backend = [a \in Agent |-> NoBackend]

-----------------------------------------------------------------------------
Adding(s, x) == IF Contains(s, x) THEN s ELSE Append(s, x)

RegisterAgent(a) ==
    /\ local' = Adding(local, a)
    /\ UNCHANGED << providers, hosted, home, backend >>

RegisterProvider(p) ==
    /\ providers' = Adding(providers, p)
    /\ UNCHANGED << local, hosted, home, backend >>

(* Provider.register_agent: an agent hosted twice is at home with the      *)
(* later provider, and stays with the earlier one all the same.            *)
Host(p, a) ==
    /\ hosted' = [hosted EXCEPT ![p] = Adding(@, a)]
    /\ home' = [home EXCEPT ![a] = p]
    /\ UNCHANGED << local, providers, backend >>

SetBackend(a, b) ==
    /\ backend' = [backend EXCEPT ![a] = b]
    /\ UNCHANGED << local, providers, hosted, home >>

-----------------------------------------------------------------------------
(* resolve: local agents come first, then the providers' agents, in order. *)

CanHandle(a) == a \in Able

Known   == local \o FlattenSeq([k \in DOMAIN providers |-> hosted[providers[k]]])
FirstAble(s) == LET able == Kept(s, { k \in DOMAIN s : CanHandle(s[k]) })
                IN IF able = << >> THEN NoAgent ELSE Head(able)
Resolve == FirstAble(Known)

(* Who has the task once an agent has handed it on: a provider without a   *)
(* suitable agent fails.                                                   *)
ExecuteThrough(p) == FirstAble(hosted[p])

Delegate(a) == IF a \in Agent /\ backend[a] \in Provider
               THEN ExecuteThrough(backend[a]) ELSE a

(* The same after n hand-overs; the stack of the interpreter is their      *)
(* bound.                                                                  *)
Holder[n \in Nat] == IF n = 0 THEN Resolve ELSE Delegate(Holder[n - 1])

-----------------------------------------------------------------------------
Next ==
    \/ \E a \in Agent : RegisterAgent(a)
    \/ \E p \in Provider : RegisterProvider(p)
    \/ \E p \in Provider, a \in Agent : Host(p, a)
    \/ \E a \in Agent, b \in Provider \cup {Worker} : SetBackend(a, b)

-----------------------------------------------------------------------------
(* Properties.                                                             *)

(* An agent "executes tasks, uses provider infrastructure"                 *)
(* (agents/__init__.py:5): a task that is handed on from agent to backend  *)
(* comes to somebody who does it or fails.  After as many hand-overs as    *)
(* there are agents, one of them has had it twice.  It does not hold, for  *)
(* the provider an agent uses may be one that hosts it.                    *)
DelegationEnds ==
    LET last == Holder[Cardinality(Agent)]
    IN  last \in Agent => backend[last] \notin Provider
=============================================================================
