----------------------------- MODULE ActorMind -----------------------------
(***************************************************************************)
(* The beliefs and the goals of an Actor (cognitiveos/actor.py), with the  *)
(* operations of CognitiveOS that change them: observe(), the head of      *)
(* run() and tick().  None of them contains an await.                      *)
(*                                                                         *)
(* Confidence and progress are in hundredths.  A belief is about an aspect *)
(* (a subject with an attribute, which has one current value) or about a   *)
(* topic (a subject alone, of which beliefs only accumulate).              *)
(***************************************************************************)
EXTENDS Integers, Sequences, SequencesExt, Selection

CONSTANTS
    Actor, Aspect, Topic, Value,
    Told,        \* confidences given to add_belief, in hundredths
    GoalType, Label, Urgent, NoLabel,
    Priorities,  \* given to add_goal
    NoGoal,
    Gains,       \* progress given to update_goal_progress, in hundredths
    Ref,         \* identities of Python lists of goal types
    Refs,        \* the lists the actors are constructed with: see Init
    MaxBeliefs, MaxGoals, MaxCycles     \* bounds

ASSUME NumbersAssumption ==
    /\ Told \subseteq Int /\ Gains \subseteq Int /\ Priorities \subseteq Int
    /\ MaxBeliefs \in Nat /\ MaxGoals \in Nat /\ MaxCycles \in Nat \ {0}
ASSUME NamesAssumption ==
    /\ Urgent \subseteq Label
    /\ NoLabel \notin Label \cup Value
    /\ NoGoal \notin GoalType
    /\ Aspect \cap Topic = {}
ASSUME RefsAssumption == Actor \subseteq Ref /\ Refs \subseteq [Actor -> Ref]

VARIABLES
    beliefs,     \* _beliefs
    goals,       \* _goal_states
    current,     \* _current_goal
    lists,       \* the contents of the list objects
    ref,         \* the list object _goals of each actor is
    told,        \* history: what was last told about an aspect, and when
    asked,       \* history: the (type, label) of the run() calls since the
                 \* last remove_goal of that type
    added        \* history: likewise of the add_goal calls of callers

mindVars == << beliefs, told >>
requests == << asked, added >>
goalVars == << goals, current, lists, ref, requests >>
vars == << beliefs, goals, current, lists, ref, told, requests >>

About == Aspect \cup Topic
Types(gs) == { gs[k].type : k \in DOMAIN gs }
GoalsList(a) == lists[ref[a]]            \* actor._goals

NotTold == [value |-> NoLabel, confidence |-> 0, cycles |-> 0]

(* Actor(goals=...): a list that is not empty is kept, not copied.         *)
Init ==
    /\ ref \in Refs
    /\ lists \in [Ref -> { << >> } \cup { << t >> : t \in GoalType }]
    /\ \A a \in Actor : lists[a] = << >>
    /\ \A a \in Actor : ref[a] # a => lists[ref[a]] # << >>
    /\ goals = [a \in Actor |->
                   [k \in DOMAIN lists[ref[a]] |->
                       [type |-> lists[ref[a]][k], priority |-> 50,
                        progress |-> 0, label |-> NoLabel]]]
    /\ current = [a \in Actor |-> IF lists[ref[a]] = << >> THEN NoGoal
                                  ELSE Head(lists[ref[a]])]
    /\ beliefs = [a \in Actor |-> << >>]
    /\ told = [a \in Actor |-> [x \in Aspect |-> NotTold]]
    /\ asked = [a \in Actor |-> {}] /\ added = [a \in Actor |-> {}]

-----------------------------------------------------------------------------
(* Beliefs.                                                                *)

Clamped(x) == IF x < 0 THEN 0 ELSE IF x > 100 THEN 100 ELSE x

(* The bound on what is counted is beyond what any belief lasts.           *)
ASSUME CyclesAssumption == \A c \in Told : Clamped(c) - 5 * MaxCycles <= 1

(* add_belief: an aspect is revised, a topic accumulates.                  *)
WithoutValue(bs, x, v) ==                                       \* mutant
    Kept(bs, { k \in DOMAIN bs : bs[k].about # x \/ bs[k].value # v })
Without(bs, x, v) == Kept(bs, { k \in DOMAIN bs : bs[k].about # x })

AddBelief(a, x, v, c) ==
    LET kept == IF x \in Aspect THEN Without(beliefs[a], x, v) ELSE beliefs[a]
    IN  /\ Len(kept) < MaxBeliefs
        /\ beliefs' = [beliefs EXCEPT ![a] =
               Append(kept, [about |-> x, value |-> v,
                             confidence |-> Clamped(c), age |-> 0])]
        /\ told' = IF x \in Aspect
                   THEN [told EXCEPT ![a][x] =
                            [value |-> v, confidence |-> c, cycles |-> 0]]
                   ELSE told
        /\ UNCHANGED goalVars

(* decay_beliefs with its default rate: one cycle takes 0.05 and drops     *)
(* what would not be left with more than 0.01.                             *)
Survives(b) == b.confidence - 5 > 1

Faded(b) == [b EXCEPT !.confidence = IF @ > 5 THEN @ - 5 ELSE 0, !.age = @ + 1]

Older(t) == IF t.cycles < MaxCycles THEN [t EXCEPT !.cycles = @ + 1] ELSE t

NoDecay(a) == UNCHANGED mindVars                                \* mutant
Decay(a) ==
    LET kept == Kept(beliefs[a], { k \in DOMAIN beliefs[a] : Survives(beliefs[a][k]) })
    IN  /\ beliefs' = [beliefs EXCEPT ![a] = [k \in DOMAIN kept |-> Faded(kept[k])]]
        /\ told' = [told EXCEPT ![a] = [x \in Aspect |-> Older(@[x])]]

(* tick() with an engine.                                                  *)
Tick(a) == Decay(a) /\ UNCHANGED goalVars

(* _evaluate_condition: the first belief about the subject and attribute.  *)
Holds(bs, x, v) ==
    \E k \in DOMAIN bs :
        /\ bs[k].about = x /\ bs[k].value = v
        /\ \A m \in 1..(k - 1) : bs[m].about # x

-----------------------------------------------------------------------------
(* Goals.                                                                  *)

GoalState(t, p, l) == [type |-> t, priority |-> p, progress |-> 0, label |-> l]

(* add_goal: whatever is pursued already.                                  *)
AddGoal(a, t, p, l) ==
    /\ Len(goals[a]) < MaxGoals
    /\ Len(GoalsList(a)) < 2 * MaxGoals
    /\ goals' = [goals EXCEPT ![a] = Append(@, GoalState(t, p, l))]
    /\ lists' = [lists EXCEPT ![ref[a]] = Append(@, t)]
    /\ current' = [current EXCEPT ![a] = IF @ = NoGoal THEN t ELSE @]
    /\ added' = [added EXCEPT ![a] = @ \cup {<< t, l >>}]
    /\ UNCHANGED << mindVars, ref, asked >>

(* run() up to the engine: the type becomes the current goal, the request  *)
(* is tracked by type and label, and the beliefs decay.                    *)
TrackedByType(gs, t, l) == \E k \in DOMAIN gs : gs[k].type = t  \* mutant
Tracked(gs, t, l) == \E k \in DOMAIN gs : gs[k].type = t /\ gs[k].label = l

InferPriority(l) == IF l \in Urgent THEN 5 ELSE 30

AppendNew(s, t) == IF Contains(s, t) THEN s ELSE Append(s, t)

Run(a, t, l) ==
    LET known == Tracked(goals[a], t, l)
        noted == AppendNew(GoalsList(a), t)
    IN  /\ known \/ (Len(goals[a]) < MaxGoals /\ Len(noted) < 2 * MaxGoals)
        /\ goals' = IF known THEN goals
                    ELSE [goals EXCEPT ![a] =
                             Append(@, GoalState(t, InferPriority(l), l))]
        /\ lists' = [lists EXCEPT ![ref[a]] =
                         IF known THEN noted ELSE Append(noted, t)]
        /\ current' = [current EXCEPT ![a] = t]
        /\ asked' = [asked EXCEPT ![a] = @ \cup {<< t, l >>}]
        /\ Decay(a)
        /\ UNCHANGED << ref, added >>

(* remove_goal: _goals becomes a list of the actor's own.                  *)
WithoutFirst(s, t) == RemoveFirst(s, t)                         \* mutant
WithoutType(s, t) == Kept(s, { k \in DOMAIN s : s[k] # t })
GoalsWithout(gs, t) == Kept(gs, { k \in DOMAIN gs : gs[k].type # t })

RemoveGoal(a, t) ==
    LET rest == WithoutType(GoalsList(a), t)
    IN  /\ goals' = [goals EXCEPT ![a] = GoalsWithout(@, t)]
        /\ lists' = [lists EXCEPT ![a] = rest]
        /\ ref' = [ref EXCEPT ![a] = a]
        /\ current' = [current EXCEPT ![a] =
               IF @ # t THEN @ ELSE IF rest = << >> THEN NoGoal ELSE Head(rest)]
        /\ asked' = [asked EXCEPT ![a] = { r \in @ : r[1] # t }]
        /\ added' = [added EXCEPT ![a] = { r \in @ : r[1] # t }]
        /\ UNCHANGED mindVars

(* update_goal_progress: every goal of the type.                           *)
Progressed(g, t, p) ==
    IF g.type = t THEN [g EXCEPT !.progress = Clamped(p)] ELSE g

UpdateProgress(a, t, p) ==
    /\ goals' = [goals EXCEPT ![a] =
           [k \in DOMAIN @ |-> Progressed(@[k], t, p)]]
    /\ UNCHANGED << mindVars, current, lists, ref, requests >>

(* set_goal: any goal, pursued or not.                                     *)
SetGoal(a, g) ==
    /\ current' = [current EXCEPT ![a] = g]
    /\ UNCHANGED << mindVars, goals, lists, ref, requests >>

-----------------------------------------------------------------------------
Believe ==
    \E a \in Actor, x \in About, v \in Value, c \in Told : AddBelief(a, x, v, c)

Cycle == \E a \in Actor : Tick(a)

Pursue ==
    \E a \in Actor, t \in GoalType :
        \/ \E p \in Priorities, l \in Label \cup {NoLabel} : AddGoal(a, t, p, l)
        \/ \E l \in Label : Run(a, t, l)
        \/ RemoveGoal(a, t)
        \/ \E p \in Gains : UpdateProgress(a, t, p)

Choose == \E a \in Actor, g \in GoalType \cup {NoGoal} : SetGoal(a, g)

Next == Believe \/ Cycle \/ Pursue \/ Choose

Spec == Init /\ [][Next]_vars

(* The owner of an actor keeps ticking its OS.                             *)
FairSpec == Spec /\ \A a \in Actor : WF_vars(Tick(a))

-----------------------------------------------------------------------------
(* Properties.                                                             *)

Belief == [about : About, value : Value, confidence : 0..100, age : Nat]
Goal == [type : GoalType, priority : {5, 30, 50} \cup Priorities, progress : 0..100,
         label : Label \cup {NoLabel}]

(* The fields have the types and ranges that actor.py gives them.          *)
TypeOK ==
    /\ beliefs \in [Actor -> Seq(Belief)]
    /\ goals \in [Actor -> Seq(Goal)]
    /\ current \in [Actor -> GoalType \cup {NoGoal}]
    /\ lists \in [Ref -> Seq(GoalType)]
    /\ ref \in [Actor -> Ref]
    /\ told \in [Actor -> [Aspect -> [value : Value \cup {NoLabel},
                                      confidence : Int, cycles : Nat]]]
    /\ asked \in [Actor -> SUBSET (GoalType \X Label)]
    /\ added \in [Actor -> SUBSET (GoalType \X (Label \cup {NoLabel}))]

(* "a property with one current value": a condition is answered by what    *)
(* was last told about the aspect, as long as the cycles since then have   *)
(* left some of its confidence, and by nothing before and after.           *)
Left(a, x) == Clamped(told[a][x].confidence) - 5 * told[a][x].cycles

ConditionIsLatest ==
    \A a \in Actor, x \in Aspect, v \in Value :
        Holds(beliefs[a], x, v) <=> /\ told[a][x].value = v
                                    /\ \/ told[a][x].cycles = 0
                                       \/ Left(a, x) > 1

(* A belief about an aspect has aged by one for every cycle since it was   *)
(* told and lost 0.05 of its confidence each time.                         *)
HonestAge ==
    \A a \in Actor : \A k \in DOMAIN beliefs[a] :
        LET b == beliefs[a][k]
        IN  b.about \in Aspect =>
                /\ b.age = told[a][b.about].cycles
                /\ b.confidence = Left(a, b.about)

(* "decay once per cognitive cycle so a long-running actor's belief list   *)
(* doesn't grow forever": what is told no more is forgotten.               *)
Forgets ==
    <>[][~ Believe]_vars => <>[](\A a \in Actor : beliefs[a] = << >>)

(* "a second distinct request isn't silently dropped just because its type *)
(* coincides with an earlier one's": every request of run() or add_goal()  *)
(* is tracked until its type is removed, and one that run() alone made,    *)
(* however often, is tracked once.                                         *)
TracksOf(a, r) == { k \in DOMAIN goals[a] : /\ goals[a][k].type = r[1]
                                            /\ goals[a][k].label = r[2] }

RequestsTracked ==
    \A a \in Actor :
        /\ \A r \in asked[a] \cup added[a] : TracksOf(a, r) # {}
        /\ \A r \in asked[a] \ added[a] : \A k, m \in TracksOf(a, r) : k = m

(* _goals and _goal_states name the same goals, as long as no two actors   *)
(* are constructed with one list.                                          *)
GoalsAgree ==
    \A a \in Actor : Range(GoalsList(a)) = Types(goals[a])

OwnLists == \A r \in Refs : \A a, b \in Actor : r[a] = r[b] => a = b

(* A current goal that no caller of set_goal() chose is one of them.       *)
CurrentIsPursued ==
    [][\A a \in Actor :
          current'[a] # current[a] =>
              current'[a] \in Types(goals'[a]) \cup {NoGoal} \/ Choose]_vars
=============================================================================
