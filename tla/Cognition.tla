----------------------------- MODULE Cognition -----------------------------
(***************************************************************************)
(* From a command to a plan: CognitiveOS.run() and tick() up to the plan,  *)
(* LightweightCognitiveEngine with DeterministicPlanner, and               *)
(* LLMPlannerEngine (cognitiveos/engine).  Calls share the intent and the  *)
(* goal of one actor; the LLM is asked off the event loop, while other     *)
(* calls go on.  Values and confidences are in hundredths of one, scores   *)
(* in ten-thousandths.                                                     *)
(***************************************************************************)
EXTENDS Integers, SequencesExt, Selection

CONSTANTS
    Name, NoName,             \* entities, attributes and words; none
    Lower,                    \* Lower[n]: n in lower case
    AfterColon,               \* AfterColon[n]: what of n follows its last colon
    Tells,                    \* Tells[n]: the keywords that Lower[n] contains
    Command, Named, GoalOf,   \* commands, the words heard in them: what to do,
                              \* with what, and to whom; and their goal types
    Owned,                    \* facts about capabilities and resources
    Facts,                    \* beliefs that may be told
    NoNumber,                 \* a value that is not a number
    Objectives,               \* objective= of the actor
    Call, NoCommand, AchieveGoal,
    MaxBeliefs, MaxCycles     \* bounds

Keyword == {"stock", "price", "distance", "delivery", "reliability", "freshness"}

(* A fact for the planner.  A belief with an attribute is revised by the   *)
(* next one about it; of any other, the attribute is its type and the      *)
(* value its confidence.                                                   *)
Fact == [entity : Name, attribute : Name, value : Int \cup {NoNumber},
         confidence : 0..100, revised : BOOLEAN]

World     == "world"
Requested == << "requested_action", "requested", "destination" >>

ASSUME NamesAssumption ==
    /\ Range(Requested) \subseteq Name
    /\ NoName \notin Name /\ AchieveGoal \notin Name /\ NoCommand \notin Command
    /\ NoNumber \notin Int
    /\ Lower \in [Name -> Name]
    /\ AfterColon \in [Name -> Name \cup {NoName}]
    /\ Tells \in [Name -> SUBSET Keyword]
    /\ \A a \in Range(Requested) : Tells[a] = {}
ASSUME CommandAssumption ==
    /\ Named \in [Command -> Seq(Name)] /\ GoalOf \in [Command -> Name]
    /\ \A c \in Command : /\ Len(Named[c]) \in 1..3
                          /\ \A n \in Range(Named[c]) : Lower[n] = n
ASSUME FactsAssumption ==
    /\ Facts \subseteq Fact /\ Owned \in Seq(Fact)
    /\ \A f \in Facts : f.revised \/ f.value = f.confidence
    /\ \A f \in Range(Owned) : Tells[f.attribute] = {}
ASSUME ObjectivesAssumption ==
    Objectives \subseteq {"", "cost", "speed", "reliability"}
ASSUME BoundsAssumption == MaxBeliefs \in Nat /\ MaxCycles \in Nat

VARIABLES
    objective,     \* _objective
    beliefs,       \* _beliefs of the actor
    intent,        \* _current_intent
    engine,        \* _engine: none, so that the built-in one plans, or an LLM
    call,          \* run() and tick() in flight, up to their plan
    cycles         \* bound on the calls that decay beliefs

vars == << objective, beliefs, intent, engine, call, cycles >>

Idle == [at |-> "idle"]

Init ==
    /\ objective \in Objectives
    /\ beliefs = << >>
    /\ intent = NoCommand
    /\ engine = "built-in"
    /\ call = [t \in Call |-> Idle]
    /\ cycles = 0

-----------------------------------------------------------------------------
(* The facts of the planner: what the actor has, believes and is asked.    *)

Heard(c) == IF Len(Named[c]) > 1 THEN 70 ELSE 40

OfIntent(c) ==
    [k \in DOMAIN Named[c] |->
        [entity |-> Named[c][k], attribute |-> Requested[k], value |-> 100,
         confidence |-> Heard(c), revised |-> FALSE]]

Observed(bs, c) == Owned \o bs \o OfIntent(c)

(* The goal's type, and of its description what follows the last colon.    *)
NoColonAfter(c, k) ==
    \A m \in (k + 1)..Len(Named[c]) : AfterColon[Named[c][m]] = Named[c][m]

GoalWords(c) ==
    {GoalOf[c]} \cup { AfterColon[Named[c][k]] :
                         k \in { k \in DOMAIN Named[c] : NoColonAfter(c, k) } }

Mentions(f, c) == {Lower[f.entity], Lower[f.attribute]} \cap GoalWords(c) # {}

(* _find_relevant_facts: the second loop of the code adds nothing.         *)
OnlyConfident(f, c) == f.confidence >= 70                       \* mutant
Relevant(f, c) == f.confidence >= 70 \/ Mentions(f, c)

RelevantFacts(bs, c) ==
    LET fs == Observed(bs, c)
    IN  Kept(fs, { k \in DOMAIN fs : Relevant(fs[k], c) })

About(fs, e) == Kept(fs, { k \in DOMAIN fs : fs[k].entity = e })
Stated(fs, e, kw) ==
    Kept(fs, { k \in DOMAIN fs : fs[k].entity = e /\ kw \in Tells[fs[k].attribute] })

(* by_entity: the entities in the order of their first fact.               *)
Firsts(fs) == { k \in DOMAIN fs : \A m \in 1..(k - 1) : fs[m].entity # fs[k].entity }

Entities(fs) ==
    LET first == Kept(fs, Firsts(fs))
    IN  [k \in DOMAIN first |-> first[k].entity]

Short(f) == f.value # NoNumber /\ f.value < 300

OutOfStock(fs, e) ==
    LET stock == Stated(fs, e, "stock")
    IN  stock # << >> /\ Short(Head(stock))

Candidates(fs) ==
    LET es == Entities(fs)
    IN  Kept(es, { k \in DOMAIN es : es[k] # World /\ ~ OutOfStock(fs, es[k]) })

-----------------------------------------------------------------------------
(* Scores: what the objective asks for, one fact after the other.          *)

Certain == 10000
AtLeast(v, least) == IF v < least THEN least ELSE v

Says(f, kw) == f.value # NoNumber /\ kw \in Tells[f.attribute]

OfCost(s, f) == IF Says(f, "price") THEN (100 * s) \div AtLeast(f.value, 50) ELSE s

OfSpeed(s, f) ==
    LET near == IF Says(f, "distance") THEN (100 * s) \div AtLeast(f.value, 50)
                ELSE s
    IN  IF Says(f, "delivery") THEN (100 * near) \div AtLeast(f.value, 100) ELSE near

OfReliability(s, f) ==
    LET trusted == IF Says(f, "reliability") THEN 80 * f.value ELSE s
    IN  IF Says(f, "freshness") THEN trusted + (20 * f.value) \div 72 ELSE trusted

Weighed(s, f) ==
    CASE objective = "cost" -> OfCost(s, f)
      [] objective = "speed" -> OfSpeed(s, f)
      [] objective = "reliability" -> OfReliability(s, f)
      [] OTHER -> s

Unweighed == IF objective = "reliability" THEN Certain \div 2 ELSE Certain

Score(fs) ==
    LET after[k \in 0..Len(fs)] ==
            IF k = 0 THEN Unweighed ELSE Weighed(after[k - 1], fs[k])
    IN  after[Len(fs)]

Clamped(s) == IF s < 0 THEN 0 ELSE IF s > Certain THEN Certain ELSE s

Scored(fs, e) == [entity |-> e, confidence |-> Clamped(Score(About(fs, e)))]

(* Stable sort, the most confident first.                                  *)
Before(s, i, j) ==
    \/ s[i].confidence > s[j].confidence
    \/ s[i].confidence = s[j].confidence /\ i < j

Sorted(s) ==
    Arranged(s, [k \in DOMAIN s |->
                    { m \in DOMAIN s : m = k \/ Before(s, m, k) }])

(* _generate_steps, with the last step when there is any.                  *)
Steps(fs) ==
    LET es     == Candidates(fs)
        scored == [k \in DOMAIN es |-> Scored(fs, es[k])]
    IN  Sorted(scored)

Plan(bs, c) ==
    LET steps == Steps(RelevantFacts(bs, c))
    IN  IF steps = << >> THEN << >>
        ELSE Append(steps, [entity |-> AchieveGoal,
                            confidence |-> Last(steps).confidence])

-----------------------------------------------------------------------------
(* Actor.add_belief: one value for each attribute of an entity.            *)
KeepAll(bs, f) == bs                                            \* mutant
Others(bs, f) ==
    Kept(bs, { k \in DOMAIN bs : ~ /\ f.revised /\ bs[k].revised
                                   /\ bs[k].entity = f.entity
                                   /\ bs[k].attribute = f.attribute })

Observe(f) ==
    /\ Len(Others(beliefs, f)) < MaxBeliefs
    /\ beliefs' = Append(Others(beliefs, f), f)
    /\ UNCHANGED << objective, intent, engine, call, cycles >>

(* set_engine.                                                             *)
SetEngine(e) ==
    /\ engine' = e
    /\ UNCHANGED << objective, beliefs, intent, call, cycles >>

(* decay_beliefs, once per run() and tick().                               *)
Faded(f) ==
    [f EXCEPT !.confidence = @ - 5,
              !.value = IF f.revised THEN @ ELSE f.confidence - 5]

Decay ==
    LET kept == Kept(beliefs, { k \in DOMAIN beliefs : beliefs[k].confidence > 6 })
    IN  /\ cycles < MaxCycles
        /\ cycles' = cycles + 1
        /\ beliefs' = [k \in DOMAIN kept |-> Faded(kept[k])]

Planned(t, c, of) ==
    call' = [call EXCEPT ![t] = [at |-> "planned", command |-> c, plan |-> of]]

(* run(): the built-in engine plans in the same step of the event loop.    *)
RunBuiltIn(t, c) ==
    /\ call[t] = Idle /\ engine = "built-in"
    /\ Decay
    /\ intent' = c
    /\ Planned(t, c, intent')
    /\ UNCHANGED << objective, engine >>

(* run() and tick() with an LLM: the prompt is made before the await.      *)
Ask(t, c) ==
    call' = [call EXCEPT ![t] = [at |-> "asking", command |-> c, prompt |-> intent']]

RunLLM(t, c) ==
    /\ call[t] = Idle /\ engine = "llm"
    /\ Decay
    /\ intent' = c
    /\ Ask(t, c)
    /\ UNCHANGED << objective, engine >>

TickLLM(t) ==
    /\ call[t] = Idle /\ engine = "llm"
    /\ Decay
    /\ UNCHANGED intent
    /\ Ask(t, intent)
    /\ UNCHANGED << objective, engine >>

(* The answer: a list of names; or no answer, no list, no JSON.            *)
PromptNow(t) == intent                                          \* mutant
Prompt(t) == call[t].prompt

LLMAnswers(t) ==
    /\ call[t].at = "asking"
    /\ Planned(t, call[t].command, Prompt(t))
    /\ UNCHANGED << objective, beliefs, intent, engine, cycles >>

LLMFails(t) ==
    /\ call[t].at = "asking"
    /\ Planned(t, call[t].command, NoCommand)
    /\ UNCHANGED << objective, beliefs, intent, engine, cycles >>

(* The plan goes on to the dispatcher.                                     *)
Dispatch(t) ==
    /\ call[t].at = "planned"
    /\ call' = [call EXCEPT ![t] = Idle]
    /\ UNCHANGED << objective, beliefs, intent, engine, cycles >>

-----------------------------------------------------------------------------
Think(t) ==
    \/ \E c \in Command : RunBuiltIn(t, c) \/ RunLLM(t, c)
    \/ TickLLM(t)
    \/ LLMAnswers(t)
    \/ LLMFails(t)
    \/ Dispatch(t)

Next ==
    \/ \E f \in Facts : Observe(f)
    \/ \E e \in {"built-in", "llm"} : SetEngine(e)
    \/ \E t \in Call : Think(t)

Spec == Init /\ [][Next]_vars

-----------------------------------------------------------------------------
(* Properties.  What the built-in engine would plan is asked of every      *)
(* state of mind that can be reached, for every command.                   *)

Commands == Command \cup {NoCommand}
PlanOf(c) == Plan(beliefs, c)
Place(p, e) == CHOOSE k \in DOMAIN p : p[k].entity = e
Visits(p) == { p[k].entity : k \in DOMAIN p } \ {AchieveGoal}

(* Steps keep a confidence in [0, 1], whatever prices and scores are.      *)
TypeOK ==
    /\ objective \in Objectives
    /\ beliefs \in Seq(Fact)
    /\ intent \in Commands
    /\ engine \in {"built-in", "llm"}
    /\ \A t \in Call :
          call[t] \in {Idle}
              \cup [at : {"asking"}, command : Commands, prompt : Commands]
              \cup [at : {"planned"}, command : Commands, plan : Commands]
    /\ \A c \in Command : \A k \in DOMAIN PlanOf(c) :
          PlanOf(c)[k].confidence \in 0..Certain

(* A call is given a plan for its own command, whatever other calls have   *)
(* made the actor's intent while the engine was thinking.                  *)
PlansOwnCommand ==
    \A t \in Call :
        call[t].at = "planned" =>
            call[t].plan \in {call[t].command, NoCommand}

(* What is believed of the stock of an entity, and not out of date: several *)
(* attributes may contain the word.                                        *)
Outdated(k) ==
    \E m \in (k + 1)..Len(beliefs) :
        /\ beliefs[k].revised /\ beliefs[m].revised
        /\ beliefs[m].entity = beliefs[k].entity
        /\ beliefs[m].attribute = beliefs[k].attribute

StockOf(e, c) ==
    { k \in DOMAIN beliefs : /\ beliefs[k].entity = e
                             /\ "stock" \in Tells[beliefs[k].attribute]
                             /\ Relevant(beliefs[k], c)
                             /\ ~ Outdated(k) }

(* "Skip entities with insufficient stock": the planner looks at the first *)
(* fact about the stock only.  Whatever has been revised since, it visits  *)
(* an entity only if nothing relevant is known of its stock, or if by one  *)
(* of the latest accounts there is enough.                                 *)
OutOfStockSkipped ==
    \A c \in Command : \A e \in Visits(PlanOf(c)) :
        StockOf(e, c) = {} \/ \E k \in StockOf(e, c) : ~ Short(beliefs[k])

(* The comment of planning_engine.py:160, "Skip entities with insufficient *)
(* stock (need at least 3 units)": no entity is visited of which a latest  *)
(* account says that there is too little.                                  *)
LowStockSkipped ==
    \A c \in Command : \A e \in Visits(PlanOf(c)) :
        \A k \in StockOf(e, c) : ~ Short(beliefs[k])

(* "otherwise a command like 'Translate text' never produces a 'translate' *)
(* entity at all": what a command names is in its plan, however uncertain  *)
(* the intent, unless its stock is low by a latest account.  A single word *)
(* with a colon in it is not: the goal's words do not contain it.          *)
CommandHeard ==
    \A c \in Command : \A e \in Range(Named[c]) \ {World} :
        \/ e \in Visits(PlanOf(c))
        \/ Len(Named[c]) = 1 /\ AfterColon[e] # e
        \/ \E k \in StockOf(e, c) : Short(beliefs[k])

(* "Weighted reliability score: reliability*0.8 + (freshness/72)*0.2".     *)
ReliabilityFormula ==
    objective = "reliability" =>
        \A c \in Command : \A e \in Visits(PlanOf(c)) :
            LET fs == RelevantFacts(beliefs, c)
            IN  \A f \in Range(Stated(fs, e, "reliability")),
                   g \in Range(Stated(fs, e, "freshness")) :
                    NoNumber \notin {f.value, g.value} =>
                        PlanOf(c)[Place(PlanOf(c), e)].confidence =
                            Clamped(80 * f.value + (20 * g.value) \div 72)
=============================================================================
