------------------------------- MODULE Buses -------------------------------
(***************************************************************************)
(* Who serves a step: CapabilityBus (cognitiveos/capability_bus.py),       *)
(* AgentBus (cognitiveos/agent_bus.py) and the ActionExecutor between the  *)
(* dispatcher and the former.  Providers are registered at any time; a     *)
(* capability is run inside one step of the event loop, an agent is        *)
(* awaited while other calls and registrations go on.                      *)
(***************************************************************************)
EXTENDS Integers, FiniteSets, SequencesExt

CONSTANTS
    Name,                 \* names of capabilities, of agents and of steps
    Words,                \* the words of a name, the structural ones left out
    Permission,
    Providers,            \* capabilities that may be registered
    Agents,               \* agents that may be registered: [name, id]
    Discoverable,         \* names the external registry of agents knows
    Grants,               \* permissions of the contexts that callers pass
    FailureRate,          \* whether failure_rate of the executor is positive
    Call, NoOne,
    MaxProviders          \* bound

ASSUME WordsAssumption == DOMAIN Words = Name /\ \A n \in Name : IsFiniteSet(Words[n])
ASSUME ProvidersAssumption ==
    Providers \subseteq
        [name : Name, proficiency : Nat, needs : SUBSET Permission,
         answer : {"produces", "reports failure", "raises", "no callable"}]
ASSUME AgentsAssumption == Agents \subseteq [name : Name, id : Nat]
ASSUME NoOneAssumption == NoOne \notin Providers \cup Agents
ASSUME GrantsAssumption == Grants \subseteq SUBSET Permission
ASSUME BoundsAssumption == FailureRate \in BOOLEAN /\ MaxProviders \in Nat

VARIABLES
    capabilities,   \* CapabilityBus: every provider, in order of registration
    agents,         \* AgentBus: the agent of a name
    call            \* the calls in flight and their results

vars == << capabilities, agents, call >>

Idle == [at |-> "idle"]

Init ==
    /\ capabilities = << >>
    /\ agents = [n \in Name |-> NoOne]
    /\ call = [c \in Call |-> Idle]

-----------------------------------------------------------------------------
(* Selection of a provider.                                                *)

(* max(...): of the places with the highest score, the first.              *)
Foremost(ks, score) ==
    CHOOSE k \in ks : \A m \in ks : /\ score[m] <= score[k]
                                    /\ m < k => score[m] < score[k]

ProvidersOf(cs, n) == {k \in DOMAIN cs : cs[k].name = n}

(* By proficiency, among the providers at some places.                     *)
Best(cs, ks) == cs[Foremost(ks, [k \in DOMAIN cs |-> cs[k].proficiency])]

Overlap(n, m) == Cardinality(Words[n] \cap Words[m])

(* The registered name with the largest overlap; of several, the one that  *)
(* was registered first.                                                   *)
FuzzyName(cs, n) ==
    cs[Foremost(DOMAIN cs, [k \in DOMAIN cs |-> Overlap(n, cs[k].name)])].name

FuzzySelect(cs, n) ==
    IF \A k \in DOMAIN cs : Overlap(n, cs[k].name) = 0 THEN NoOne
    ELSE Best(cs, ProvidersOf(cs, FuzzyName(cs, n)))

Select(cs, n) ==
    IF ProvidersOf(cs, n) # {} THEN Best(cs, ProvidersOf(cs, n))
    ELSE FuzzySelect(cs, n)

(* check_authorization: the permissions of the provider that would run.    *)
NeedsOfNamed(cs, n) ==                                          \* mutant
    IF ProvidersOf(cs, n) = {} THEN {} ELSE Best(cs, ProvidersOf(cs, n)).needs
Needs(cs, n) == IF Select(cs, n) = NoOne THEN {} ELSE Select(cs, n).needs

-----------------------------------------------------------------------------
RegisterCapability(p) ==
    /\ Len(capabilities) < MaxProviders
    /\ capabilities' = Append(capabilities, p)
    /\ UNCHANGED << agents, call >>

RegisterAgent(g) ==
    /\ agents' = [agents EXCEPT ![g.name] = g]
    /\ UNCHANGED << capabilities, call >>

Result(n, by, granted, success, failed) ==
    [at |-> "done", name |-> n, by |-> by, granted |-> granted,
     success |-> success, failed |-> failed]

(* CapabilityBus.execute through the executor: denied, not found, or run;  *)
(* what has no callable is answered with an error and success.             *)
Refuse(c, n, granted) ==
    /\ call[c] = Idle
    /\ \/ ~ (Needs(capabilities, n) \subseteq granted)
       \/ Select(capabilities, n) = NoOne
    /\ call' = [call EXCEPT ![c] = Result(n, NoOne, granted, FALSE, TRUE)]
    /\ UNCHANGED << capabilities, agents >>

Execute(c, n, granted) ==
    LET p == Select(capabilities, n)
    IN  /\ call[c] = Idle
        /\ p # NoOne
        /\ Needs(capabilities, n) \subseteq granted
        /\ call' = [call EXCEPT ![c] =
               Result(n, p, granted, p.answer \in {"produces", "no callable"},
                      p.answer # "produces")]
        /\ UNCHANGED << capabilities, agents >>

(* failure_rate: the executor fails before it asks the bus.                *)
FailByChance(c, n, granted) ==
    /\ FailureRate
    /\ call[c] = Idle
    /\ call' = [call EXCEPT ![c] = Result(n, NoOne, granted, FALSE, TRUE)]
    /\ UNCHANGED << capabilities, agents >>

(* AgentBus.execute up to the await: the agent of the bus, or one that the *)
(* external registry discovers.                                            *)
AskAgent(c, n) ==
    /\ call[c] = Idle
    /\ \/ agents[n] # NoOne \/ n \in Discoverable
    /\ call' = [call EXCEPT ![c] = [at |-> "handling", name |-> n, by |-> agents[n]]]
    /\ UNCHANGED << capabilities, agents >>

MissAgent(c, n) ==
    /\ call[c] = Idle
    /\ agents[n] = NoOne /\ n \notin Discoverable
    /\ call' = [call EXCEPT ![c] = Result(n, NoOne, {}, FALSE, TRUE)]
    /\ UNCHANGED << capabilities, agents >>

(* What handle() may return: a plain dict, or one with a payload, which is *)
(* all that is kept of it.                                                 *)
Raw == [payload : BOOLEAN, failed : BOOLEAN]
Success(raw) == raw.payload \/ ~ raw.failed

AgentAnswers(c, raw) ==
    /\ call[c].at = "handling"
    /\ call' = [call EXCEPT ![c] =
           Result(@.name, @.by, {}, Success(raw), raw.failed)]
    /\ UNCHANGED << capabilities, agents >>

AgentRaises(c) ==
    /\ call[c].at = "handling"
    /\ call' = [call EXCEPT ![c] = Result(@.name, @.by, {}, FALSE, TRUE)]
    /\ UNCHANGED << capabilities, agents >>

(* The caller takes the result.                                            *)
Take(c) ==
    /\ call[c].at = "done"
    /\ call' = [call EXCEPT ![c] = Idle]
    /\ UNCHANGED << capabilities, agents >>

-----------------------------------------------------------------------------
Register ==
    \/ \E p \in Providers : RegisterCapability(p)
    \/ \E g \in Agents : RegisterAgent(g)

Serve(c) ==
    \/ \E n \in Name, granted \in Grants :
           \/ Refuse(c, n, granted)
           \/ Execute(c, n, granted)
           \/ FailByChance(c, n, granted)
    \/ \E n \in Name : AskAgent(c, n) \/ MissAgent(c, n)
    \/ \E raw \in Raw : AgentAnswers(c, raw)
    \/ AgentRaises(c)
    \/ Take(c)

Next == Register \/ \E c \in Call : Serve(c)

Spec == Init /\ [][Next]_vars

-----------------------------------------------------------------------------
(* Properties.                                                             *)

Server == Providers \cup Agents \cup {NoOne}

(* Calls end with a result of one form, whoever served them.               *)
TypeOK ==
    /\ capabilities \in Seq(Providers)
    /\ agents \in [Name -> Agents \cup {NoOne}]
    /\ \A c \in Call :
          call[c] \in {Idle} \cup [at : {"handling"}, name : Name, by : Server]
                      \cup [at : {"done"}, name : Name, by : Server,
                            granted : SUBSET Permission, success : BOOLEAN,
                            failed : BOOLEAN]

(* A capability has run only for a caller with every permission that this  *)
(* provider requires, under whatever name it was asked for.                *)
NoUnauthorizedRun ==
    \A c \in Call :
        call[c].at = "done" /\ call[c].by \in Providers =>
            call[c].by.needs \subseteq call[c].granted

(* "real providers, not a silent last-registration-wins overwrite": who    *)
(* serves a name changes only to a newcomer, and only to one that is more  *)
(* proficient than the old server of that name or has a better name.       *)
Nearer(n, new, old) ==
    \/ new = n /\ old # n
    \/ old # n /\ Overlap(n, new) > Overlap(n, old)

BetterFor(n, p, q) ==
    \/ q = NoOne
    \/ p.name = q.name /\ p.proficiency > q.proficiency
    \/ Nearer(n, p.name, q.name)

NewcomerMustBeBetter ==
    [][\A n \in Name :
          LET old == Select(capabilities, n)
              new == Select(capabilities', n)
          IN  new # old => /\ new = Last(capabilities')
                           /\ BetterFor(n, new, old)]_vars

(* "failures surface as success=False results".                            *)
FailuresSurface ==
    \A c \in Call : call[c].at = "done" /\ call[c].failed => ~ call[c].success
=============================================================================
