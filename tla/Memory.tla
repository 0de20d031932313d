------------------------------- MODULE Memory -------------------------------
(***************************************************************************)
(* The belief state of an engine (engine/belief_state.py): facts and       *)
(* hypotheses that fade and are pruned by decay_and_prune(), lists that    *)
(* only grow, and the bookkeeping of the actor that reasons                *)
(* (engine/pipeline_actor.py).  Confidence is in units of 1/Whole, and is  *)
(* stored by decay_and_prune() in multiples of Grain; a tick is ten        *)
(* seconds, and keeps half of a confidence.                                *)
(***************************************************************************)
EXTENDS Integers, SequencesExt, Selection

CONSTANTS
    Whole,                       \* confidence 1.0
    Grain,                       \* the last digit that is stored
    Levels,                      \* confidences given by callers
    FactThreshold, HypothesisThreshold,
    Floor,                       \* fact_confidence_floor
    Cap,                         \* max_hypotheses
    MaxAdds, MaxAge, MaxOther, MaxCycles   \* bounds

Assumptions ==
    /\ Grain \in Nat \ {0} /\ Whole % Grain = 0
    /\ Whole \in Nat /\ Levels \subseteq 1 .. Whole
    /\ FactThreshold \in 1 .. Whole /\ HypothesisThreshold \in 1 .. Whole
    /\ Floor \in 0 .. Whole /\ Cap \in Nat
    /\ MaxAdds \in Nat /\ MaxOther \in Nat /\ MaxCycles \in Nat
    /\ MaxAge \in Nat \ {0} /\ Whole < 2^MaxAge

VARIABLES
    facts,       \* [id, confidence, age]
    hypotheses,  \* likewise
    others,      \* lengths of the lists that are only appended to
    expired,     \* whether working memory holds an entry past its time
    adds,        \* how many facts and hypotheses were added, which names them
    status, cycles   \* of the PipelineActor

beliefs == << facts, hypotheses, adds >>
rest    == << others, expired >>
actor   == << status, cycles >>
vars    == << facts, hypotheses, others, expired, adds, status, cycles >>

Lists == {"observations", "assumptions", "predictions", "learned_updates", "working_memory"}

Init ==
    /\ facts = << >> /\ hypotheses = << >> /\ adds = 0
    /\ others = [l \in Lists |-> 0] /\ expired = FALSE
    /\ status = "idle" /\ cycles = 0

-----------------------------------------------------------------------------
(* What callers add.                                                       *)

New(c) == [id |-> adds, confidence |-> c, age |-> 0]

AddFact(c) ==
    /\ adds < MaxAdds /\ adds' = adds + 1
    /\ facts' = Append(facts, New(c))
    /\ UNCHANGED << hypotheses, rest, actor >>

AddHypothesis(c) ==
    /\ adds < MaxAdds /\ adds' = adds + 1
    /\ hypotheses' = Append(hypotheses, New(c))
    /\ UNCHANGED << facts, rest, actor >>

AddOther(l) ==
    /\ others[l] < MaxOther
    /\ others' = [others EXCEPT ![l] = @ + 1]
    /\ UNCHANGED << beliefs, expired, actor >>

-----------------------------------------------------------------------------
(* Time, and decay_and_prune.  A confidence is halved as often as its age  *)
(* says, at every call again.                                              *)

Older(s) == [k \in DOMAIN s |-> [s[k] EXCEPT !.age = IF @ < MaxAge THEN @ + 1 ELSE @]]

Tick ==
    /\ facts' = Older(facts) /\ hypotheses' = Older(hypotheses)
    /\ expired' = (others["working_memory"] > 0)
    /\ UNCHANGED << others, adds, actor >>

Larger(a, b)  == IF a > b THEN a ELSE b
Smaller(a, b) == IF a < b THEN a ELSE b

Decayed(b) ==
    LET Halved[n \in 0..MaxAge] == IF n = 0 THEN b.confidence ELSE Halved[n - 1] \div 2
    IN Halved[Larger(1, b.age)]

(* The floor holds decay up, and lifts nothing that lies below it.         *)
LiftedToFloor(b) == Larger(Decayed(b), Floor)                   \* mutant
Clamped(b)       == Larger(Decayed(b), Smaller(Floor, b.confidence))

(* Whether a fact stays is asked of the decayed confidence.                *)
ClampedSuffices(b) == Clamped(b) >= FactThreshold               \* mutant
FactStays(b)       == Decayed(b) >= FactThreshold

HypothesisStays(b) == Decayed(b) >= HypothesisThreshold

(* round(): to the nearest multiple, of two the even one.                  *)
Rounded(c) ==
    LET steps == c \div Grain
        left  == c % Grain
        down  == 2 * left < Grain \/ (2 * left = Grain /\ steps % 2 = 0)
    IN  Grain * (IF down THEN steps ELSE steps + 1)

With(b, c) == [b EXCEPT !.confidence = Rounded(c)]

KeptFacts ==
    LET kept == Kept(facts, { k \in DOMAIN facts : FactStays(facts[k]) })
    IN [k \in DOMAIN kept |-> With(kept[k], Clamped(kept[k]))]
FadedHypotheses ==
    LET kept == Kept(hypotheses, { k \in DOMAIN hypotheses : HypothesisStays(hypotheses[k]) })
    IN [k \in DOMAIN kept |-> With(kept[k], Decayed(kept[k]))]

(* Over the cap the strongest stay, of equals the first in the list.       *)
NotWeaker(s, k) == { m \in DOMAIN s : \/ s[m].confidence > s[k].confidence
                                      \/ s[m].confidence = s[k].confidence /\ m <= k }

Strongest(s) == SubSeq(Arranged(s, [k \in DOMAIN s |-> NotWeaker(s, k)]), 1, Cap)

KeptHypotheses ==
    IF Len(FadedHypotheses) > Cap THEN Strongest(FadedHypotheses) ELSE FadedHypotheses

DecayAndPrune ==
    /\ facts' = KeptFacts
    /\ hypotheses' = KeptHypotheses
    /\ UNCHANGED << adds, rest, actor >>

-----------------------------------------------------------------------------
(* The PipelineActor: a cycle of the engine has no await in it, and takes  *)
(* no notice of having been blocked or terminated.  An engine that raises  *)
(* leaves it reasoning.                                                    *)

Cycle ==
    /\ status' = "idle"
    /\ cycles' = IF cycles < MaxCycles THEN cycles + 1 ELSE cycles
    /\ UNCHANGED << beliefs, rest >>

SetStatus(s) ==
    /\ status' = s
    /\ UNCHANGED << cycles, beliefs, rest >>

NextBeliefs == \/ \E c \in Levels : AddFact(c) \/ AddHypothesis(c)
               \/ Tick \/ DecayAndPrune

NextRest == \/ \E l \in Lists : AddOther(l)
            \/ Tick
            \/ Cycle \/ \E s \in {"reasoning", "blocked", "terminated"} : SetStatus(s)

Next == NextBeliefs \/ NextRest

(* Time passes, and decay_and_prune is "called each tick".                 *)
Fairness == WF_vars(Tick) /\ WF_vars(DecayAndPrune)

-----------------------------------------------------------------------------
(* Properties.                                                             *)

In(s, i) == \E k \in DOMAIN s : s[k].id = i
Of(s, i) == s[CHOOSE k \in DOMAIN s : s[k].id = i]

OrRounded(c) == Larger(c, Rounded(c))

RoundedUp(t, s) ==
    \A k \in DOMAIN t : In(s, t[k].id) =>
        t[k].confidence <= OrRounded(Of(s, t[k].id).confidence)

NotUp(t, s) ==
    \A k \in DOMAIN t : In(s, t[k].id) =>
        t[k].confidence <= Of(s, t[k].id).confidence

(* No belief grows more certain by itself, but by rounding: a floor under  *)
(* decay must not lift what lies below it, call after call, and what was   *)
(* rounded once is never raised again (decay_and_prune).                   *)
OnlyRoundingRaises ==
    [][RoundedUp(facts', facts) /\ RoundedUp(hypotheses', hypotheses)]_beliefs

(* The comment of belief_state.py:391-392: decay "must never raise a       *)
(* fact's confidence above what it started with".                          *)
NeverRaised == [][NotUp(facts', facts)]_beliefs

(* Beliefs do not accumulate: when nothing more is added, every fact and   *)
(* every hypothesis is forgotten, those on the floor too.                  *)
Forgotten == <>[](facts = << >> /\ hypotheses = << >>)
=============================================================================
