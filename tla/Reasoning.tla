----------------------------- MODULE Reasoning -----------------------------
(***************************************************************************)
(* From words to a decision (cognitiveos/os.py): a command is parsed into  *)
(* an intent, which becomes a goal; a sentence is observed, which makes    *)
(* beliefs that fade; and synthesize() picks a goal that can be achieved.  *)
(* Confidence, proficiency and trust are in hundredths.  Words that the    *)
(* parser skips are left out of the commands.                              *)
(***************************************************************************)
EXTENDS Integers, SequencesExt, Selection

CONSTANTS
    Verb, Noun, Modifier, Plain, \* the words, by the tables they are in
    VerbGoal, NounGoal,          \* _INTENT_ACTION_MAP, _SUBJECT_GOAL_MAP
    Otherwise,                   \* "accomplishment"
    Urgent,                      \* words of _URGENT_KEYWORDS
    Required,                    \* _GOAL_CAPABILITY_MAP
    Commands, Sentences, Skills, \* what callers give
    Person, Levels,
    NoWord,
    Lifetime,                    \* cycles until an observation has faded
    MaxGoals, MaxSkills, MaxLinks \* bounds

Word    == Verb \cup Noun \cup Modifier \cup Plain
Goal    == DOMAIN Required
Ability == UNION { ToSet(Required[g]) : g \in Goal }

Assumptions ==
    /\ Verb \cap Noun = {} /\ NoWord \notin Word \cup Goal
    /\ Modifier \cap (Verb \cup Noun) = {} /\ Plain \cap (Verb \cup Noun \cup Modifier) = {}
    /\ VerbGoal \in [Verb -> Goal] /\ NounGoal \in [Noun -> Goal] /\ Otherwise \in Goal
    /\ \A g \in Goal : Required[g] \in Seq(Ability)
    /\ \A c \in Commands : c \in Seq(Word)
    /\ \A s \in Skills : s.proficiency \in 0..100 /\ s.available \in BOOLEAN
    /\ Lifetime \in Nat /\ MaxGoals \in Nat /\ MaxSkills \in Nat /\ MaxLinks \in Nat

VARIABLES
    goals,       \* _goal_states of the actor
    skills,      \* _capabilities
    beliefs,     \* _beliefs: [about, value, left]
    links,       \* the targets of its affiliations
    trust        \* in them

vars == << goals, skills, beliefs, links, trust >>

Init ==
    /\ goals = << >> /\ skills = << >> /\ beliefs = << >> /\ links = << >>
    /\ trust = [p \in Person |-> 50]

-----------------------------------------------------------------------------
(* _parse_intent: every word takes the first role that is free for it.     *)

Unread == [action |-> NoWord, subject |-> NoWord, target |-> NoWord, modifiers |-> << >>]

Free(p, role) == p[role] = NoWord

NextFree(p) == IF Free(p, "action") THEN "action"
               ELSE IF Free(p, "subject") THEN "subject"
               ELSE IF Free(p, "target") THEN "target" ELSE "none"

Role(p, w) == IF w \in Verb /\ Free(p, "action") THEN "action"
              ELSE IF w \in Noun /\ Free(p, "subject") THEN "subject"
              ELSE IF w \in Modifier THEN "modifiers" ELSE NextFree(p)

Read(p, w) == CASE Role(p, w) = "none" -> p
                [] Role(p, w) = "modifiers" -> [p EXCEPT !.modifiers = Append(@, w)]
                [] OTHER -> [p EXCEPT ![Role(p, w)] = w]

Reading(c) == FoldLeft(Read, Unread, c)

GoalOf(f, w) == IF w \in DOMAIN f THEN f[w] ELSE Otherwise

(* A subject without an action says nothing about the goal.                *)
ParseIntent(c) ==
    LET p == Reading(c) IN
    CASE Free(p, "action") -> Otherwise
      [] ~Free(p, "action") /\ Free(p, "subject") -> GoalOf(VerbGoal, p.action)
      [] OTHER -> GoalOf(NounGoal, p.subject)

InferPriority(c) == IF \E k \in DOMAIN c : c[k] \in Urgent THEN 5 ELSE 30

-----------------------------------------------------------------------------
(* The head of run(): the goal is tracked and the beliefs decay.           *)

Wanted(c) == [type |-> ParseIntent(c), priority |-> InferPriority(c), label |-> c]

Faded(bs) ==
    LET kept == SelectSeq(bs, LAMBDA b : b.left > 1)
    IN [k \in DOMAIN kept |-> [kept[k] EXCEPT !.left = @ - 1]]

Tell(c) ==
    /\ goals' = IF Contains(goals, Wanted(c)) THEN goals ELSE Append(goals, Wanted(c))
    /\ Len(goals') <= MaxGoals
    /\ beliefs' = Faded(beliefs)
    /\ UNCHANGED << skills, links, trust >>

(* add_goal and add_capability.                                            *)
AddGoal(g) ==
    /\ Len(goals) < MaxGoals
    /\ goals' = Append(goals, [type |-> g, priority |-> 50, label |-> << >>])
    /\ UNCHANGED << skills, beliefs, links, trust >>

AddCapability(s) ==
    /\ Len(skills) < MaxSkills
    /\ skills' = Append(skills, s)
    /\ UNCHANGED << goals, beliefs, links, trust >>

-----------------------------------------------------------------------------
(* observe: extract_facts knows "X is Y", "there is a C X in Y" and "the   *)
(* C X contains N Y"; a sentence can be of the last two at once.           *)

Fact(e, at, v) == [about |-> << e, at >>, value |-> v, left |-> Lifetime]

Color(part, e) == IF part.color = NoWord THEN << >> ELSE << Fact(e, "color", part.color) >>

Existence(part) == Color(part, part.entity) \o << Fact(part.entity, "location", part.location) >>

(* A count that is not a number loses the items, and keeps the colour.     *)
Containment(part) ==
    Color(part, part.container) \o
    IF part.count \notin Nat THEN << >>
    ELSE << Fact(part.item, "count", part.count), Fact(part.item, "location", part.container) >>

Copula(part) == << Fact(part.entity, "state", part.state) >>

Facts(part) == CASE part.shape = "copula" -> Copula(part)
                 [] part.shape = "existence" -> Existence(part)
                 [] part.shape = "containment" -> Containment(part)

ExtractFacts(s) ==
    IF s # << >> /\ s[1].shape = "copula" THEN Facts(s[1])
    ELSE FlattenSeq([k \in DOMAIN s |-> Facts(s[k])])

(* add_belief replaces what was believed of the same aspect.               *)
AddBelief(bs, f) == Append(SelectSeq(bs, LAMBDA b : b.about # f.about), f)

Observe(s) ==
    /\ beliefs' = FoldLeft(AddBelief, beliefs, ExtractFacts(s))
    /\ UNCHANGED << goals, skills, links, trust >>

-----------------------------------------------------------------------------
(* Who the actor knows, and how far it trusts them.                        *)

Affiliate(p, l) ==
    /\ Len(links) < MaxLinks
    /\ links' = Append(links, p)
    /\ trust' = [trust EXCEPT ![p] = l]
    /\ UNCHANGED << goals, skills, beliefs >>

-----------------------------------------------------------------------------
(* The queries.  has_capability asks for one entry that is available, the  *)
(* proficiency of a match counts all.                                      *)

Of(c)             == { k \in DOMAIN skills : skills[k].type = c }
EverHad(c)        == Of(c) # {}                                 \* mutant
HasCapability(c)  == \E k \in Of(c) : skills[k].available
Proficiency(c)    == Max({0} \cup { skills[k].proficiency : k \in Of(c) })

MatchForGoal(g) ==
    [k \in DOMAIN Required[g] |->
        [capability |-> Required[g][k], goal |-> g,
         available |-> HasCapability(Required[g][k]),
         proficiency |-> Proficiency(Required[g][k])]]

MatchCapabilities == FlattenSeq([k \in DOMAIN goals |-> MatchForGoal(goals[k].type)])

(* A goal that requires nothing known can be achieved by any believer, and *)
(* resources neither block a goal nor make it likelier.                    *)
EvaluateGoal(g) ==
    LET ms == MatchForGoal(g) IN
    [goal |-> g,
     achievable |-> beliefs # << >> /\ \A k \in DOMAIN ms : ms[k].available,
     confidence |-> Max({50} \cup { ms[k].proficiency :
                                    k \in { n \in DOMAIN ms : ms[n].available } })]

EvaluateGoals == [k \in DOMAIN goals |-> EvaluateGoal(goals[k].type)]

Achievable == LET es == EvaluateGoals IN Kept(es, { k \in DOMAIN es : es[k].achievable })

(* Of equals the first: the priority compared is that of one and the same  *)
(* goal, the first of all.                                                 *)
BestOf(es) ==
    es[CHOOSE k \in DOMAIN es : \A n \in DOMAIN es :
           \/ es[k].confidence > es[n].confidence
           \/ es[k].confidence = es[n].confidence /\ k <= n]

TrustActions == SelectSeq(links, LAMBDA p : trust[p] < 50)

Undecided == [goal |-> NoWord, capabilities |-> << >>, trust |-> << >>, confidence |-> 0]

Synthesize ==
    IF Achievable = << >> THEN Undecided
    ELSE LET best == BestOf(Achievable)
             ms   == MatchCapabilities
             used == Kept(ms, { k \in DOMAIN ms : ms[k].goal = best.goal /\ ms[k].available })
         IN [goal |-> best.goal, confidence |-> best.confidence, trust |-> TrustActions,
             capabilities |-> [k \in DOMAIN used |-> used[k].capability]]

-----------------------------------------------------------------------------
Next ==
    \/ \E c \in Commands : Tell(c)
    \/ \E g \in Goal : AddGoal(g)
    \/ \E s \in Skills : AddCapability(s)
    \/ \E s \in Sentences : Observe(s)
    \/ \E p \in Person, l \in Levels : Affiliate(p, l)

-----------------------------------------------------------------------------
(* Properties.                                                             *)

(* A decision is made whenever some goal can be achieved, and it can be    *)
(* carried out: it names every capability that its goal requires, each of  *)
(* which the actor can use now, whatever unusable entries of the same      *)
(* capability and other goals of the same type there are besides           *)
(* (synthesize, _match_for_goal).                                          *)
Usable(c) == \E k \in DOMAIN skills : skills[k].type = c /\ skills[k].available

CanBeDone(g) == \A k \in DOMAIN Required[g] : Usable(Required[g][k])

DecisionCanBeDone ==
    LET d == Synthesize IN
    /\ d.goal # NoWord <=> beliefs # << >> /\ \E k \in DOMAIN goals : CanBeDone(goals[k].type)
    /\ d.goal # NoWord =>
          /\ CanBeDone(d.goal)
          /\ ToSet(d.capabilities) = ToSet(Required[d.goal])
=============================================================================
