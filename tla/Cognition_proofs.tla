-------------------------- MODULE Cognition_proofs --------------------------
(***************************************************************************)
(* Proofs about Cognition, for every set of names, commands, facts,        *)
(* objectives and concurrent calls.                                        *)
(***************************************************************************)
EXTENDS Cognition, Lemmas

-----------------------------------------------------------------------------
(* Scores.                                                                 *)

(* One more fact makes of a number a number.                               *)
LEMMA WeighedNumber ==
    ASSUME NEW s \in Int, NEW f \in Fact
    PROVE  Weighed(s, f) \in Int
<1>1. \A v \in Int, least \in {50, 100} : AtLeast(v, least) \in Int \ {0} /\ AtLeast(v, least) > 0
    BY DEF AtLeast
<1>2. \A x, y \in Int : y > 0 => x \div y \in Int
    OBVIOUS
<1>3. f.value # NoNumber => f.value \in Int
    BY DEF Fact
<1> DEFINE v == f.value
<1>4. ASSUME NEW x \in Int, NEW kw, NEW least \in {50, 100}
      PROVE  (IF Says(f, kw) THEN (100 * x) \div AtLeast(v, least) ELSE x) \in Int
  <2>1. CASE Says(f, kw)
    <3>1. v \in Int
        BY <1>3, <2>1 DEF Says
    <3>2. 100 * x \in Int
        OBVIOUS
    <3> QED BY <1>1, <1>2, <2>1, <3>1, <3>2
  <2> QED BY <2>1
<1>5. OfCost(s, f) \in Int
    BY <1>4 DEF OfCost
<1>6. OfSpeed(s, f) \in Int
    BY <1>4 DEF OfSpeed
<1>7. OfReliability(s, f) \in Int
  <2> DEFINE trusted == IF Says(f, "reliability") THEN 80 * v ELSE s
  <2>1. trusted \in Int
      BY <1>3 DEF Says
  <2>2. Says(f, "freshness") => trusted + (20 * v) \div 72 \in Int
      BY <1>3, <2>1 DEF Says
  <2> QED BY <2>1, <2>2 DEF OfReliability
<1> QED BY <1>5, <1>6, <1>7 DEF Weighed

Folded(fs, h) ==
    h = [k \in 0..Len(fs) |->
            IF k = 0 THEN Unweighed ELSE Weighed(h[k - 1], fs[k])]

(* Score is what some recursive function gives for all of the facts.       *)
LEMMA ScoreFolded ==
    ASSUME NEW fs \in Seq(Fact), NEW g, Folded(fs, g)
    PROVE  \E h : Folded(fs, h) /\ Score(fs) = h[Len(fs)]
<1> DEFINE h == CHOOSE h : Folded(fs, h)
<1>1. Folded(fs, h)
    BY Zenon
<1>2. Score(fs) = h[Len(fs)]
    BY Zenon DEF Score, Folded
<1> QED BY <1>1, <1>2

(* The score of any list of facts is a number.                             *)
LEMMA ScoreNumber ==
    ASSUME NEW fs \in Seq(Fact)
    PROVE  Score(fs) \in Int
<1> DEFINE n == Len(fs)
           Reaches(h, m) == /\ h \in [0..m -> Int] /\ h[0] = Unweighed
                            /\ \A k \in 1..m : h[k] = Weighed(h[k - 1], fs[k])
<1>1. n \in Nat /\ \A k \in 1..n : fs[k] \in Fact
    OBVIOUS
<1>2. Unweighed \in Int
    BY DEF Unweighed, Certain
<1> HIDE DEF n
<1>3. ASSUME NEW m \in 0..n
      PROVE  \E h : Reaches(h, m)
  <2> DEFINE T == { k \in 0..n : ~ \E h : Reaches(h, k) }
  <2>1. T = {}
    <3> SUFFICES ASSUME T # {}
                 PROVE  FALSE
        OBVIOUS
    <3>1. T \in SUBSET Nat
        BY <1>1
    <3>2. PICK k \in T : \A l \in T : k <= l
      <4> HIDE DEF T
      <4> QED BY <3>1, LeastNumber
    <3>3. k \in 0..n /\ ~ \E h : Reaches(h, k)
        OBVIOUS
    <3>4. CASE k = 0
      <4> DEFINE h == [i \in 0..0 |-> Unweighed]
      <4>1. Reaches(h, 0)
          BY <1>2
      <4> QED BY <3>3, <3>4, <4>1
    <3>5. CASE k # 0
      <4>1. k - 1 \in 0..n /\ k \in 1..n /\ ~ (k <= k - 1)
          BY <1>1, <3>3, <3>5
      <4>2. PICK g : Reaches(g, k - 1)
          BY <3>2, <4>1
      <4> DEFINE last == Weighed(g[k - 1], fs[k])
                 h == [i \in 0..k |-> IF i = k THEN last ELSE g[i]]
      <4>3. last \in Int
        <5>1. g[k - 1] \in Int
            BY <1>1, <4>1, <4>2
        <5> QED BY <1>1, <4>1, <5>1, WeighedNumber
      <4>4. h \in [0..k -> Int] /\ h[0] = Unweighed
          BY <1>1, <4>1, <4>2, <4>3
      <4>5. ASSUME NEW i \in 1..k
            PROVE  h[i] = Weighed(h[i - 1], fs[i])
        <5>1. h[i - 1] = g[i - 1]
            BY <1>1, <4>1
        <5>2. CASE i = k
          <6>1. h[i] = last
              BY <1>1, <4>1, <5>2
          <6> QED BY <5>1, <5>2, <6>1
        <5>3. CASE i # k
          <6>1. i \in 1..(k - 1) /\ h[i] = g[i]
              BY <1>1, <4>1, <5>3
          <6> QED BY <4>2, <5>1, <6>1
        <5> QED BY <5>2, <5>3
      <4> HIDE DEF h
      <4>6. Reaches(h, k)
          BY <4>4, <4>5
      <4> QED BY <3>3, <4>6
    <3> QED BY <3>4, <3>5
  <2> QED BY <2>1
<1>4. PICK g : Reaches(g, n)
  <2>1. n \in 0..n
      BY <1>1
  <2> QED BY <1>3, <2>1
<1>5. Folded(fs, g)
  <2>1. \A k \in 0..n : g[k] = IF k = 0 THEN Unweighed ELSE Weighed(g[k - 1], fs[k])
    <3> TAKE k \in 0..n
    <3>1. k # 0 => k \in 1..n
        BY <1>1
    <3> QED BY <1>4, <3>1
  <2> QED BY <1>4, <2>1 DEF Folded, n
<1>6. PICK h : Folded(fs, h) /\ Score(fs) = h[n]
    BY <1>5, ScoreFolded DEF n
<1>7. \A k \in 0..n : h[k] = IF k = 0 THEN Unweighed ELSE Weighed(h[k - 1], fs[k])
    BY <1>6 DEF Folded, n
<1> DEFINE T == { k \in 0..n : h[k] \notin Int }
<1>8. T = {}
  <2> SUFFICES ASSUME T # {}
               PROVE  FALSE
      OBVIOUS
  <2>1. T \in SUBSET Nat
      BY <1>1
  <2>2. PICK k \in T : \A l \in T : k <= l
    <3> HIDE DEF T
    <3> QED BY <2>1, LeastNumber
  <2>3. k \in 0..n /\ h[k] \notin Int /\ k # 0
      BY <1>2, <1>7
  <2>4. k - 1 \in 0..n /\ k \in 1..n /\ ~ (k <= k - 1)
      BY <1>1, <2>3
  <2>5. h[k - 1] \in Int
      BY <2>2, <2>4
  <2>6. h[k] \in Int
      BY <1>1, <1>7, <2>3, <2>4, <2>5, WeighedNumber
  <2> QED BY <2>3, <2>6
<1>9. h[n] \in Int
    BY <1>1, <1>8
<1> QED BY <1>6, <1>9

-----------------------------------------------------------------------------
(* The entities that a plan visits.                                        *)

Spoken(fs) == { fs[k].entity : k \in DOMAIN fs }

LEMMA FactFields ==
    ASSUME NEW fs \in Seq(Fact), NEW k \in DOMAIN fs
    PROVE  /\ fs[k] \in Fact /\ fs[k].entity \in Name
           /\ fs[k].attribute \in Name
<1>1. fs[k] \in Fact
    OBVIOUS
<1> QED BY <1>1 DEF Fact

(* by_entity has every entity that some fact is about.                     *)
LEMMA EntitiesSpoken ==
    ASSUME NEW fs \in Seq(Fact)
    PROVE  Entities(fs) \in Seq(Name) /\ Range(Entities(fs)) = Spoken(fs)
<1> DEFINE P == Firsts(fs)
           first == Kept(fs, P)
           es == Entities(fs)
<1>1. P \in SUBSET DOMAIN fs
    BY DEF Firsts
<1>2. \A k \in P : \A m \in 1..(k - 1) : fs[m].entity # fs[k].entity
    BY DEF Firsts
<1>3. \A k \in DOMAIN fs : (\A m \in 1..(k - 1) : fs[m].entity # fs[k].entity) => k \in P
    BY DEF Firsts
<1> HIDE DEF P
<1>4. first \in Seq(Fact) /\ Range(first) = { fs[k] : k \in P }
    BY <1>1, KeptSelects, KeptRange
<1>5. es = [k \in DOMAIN first |-> first[k].entity]
    BY DEF Entities, P
<1> HIDE DEF first, es
<1>6. es \in Seq(Name)
  <2> DEFINE n == Len(first)
  <2>1. n \in Nat /\ DOMAIN first = 1..n
      BY <1>4
  <2>2. \A k \in DOMAIN first : first[k].entity \in Name
      BY <1>4, FactFields
  <2> HIDE DEF n
  <2>3. es \in [1..n -> Name]
      BY <1>5, <2>1, <2>2
  <2> QED BY <2>1, <2>3
<1>7. ASSUME NEW e \in Range(es)
      PROVE  e \in Spoken(fs)
  <2>1. PICK k \in DOMAIN first : e = first[k].entity
      BY <1>5 DEF Range
  <2>2. first[k] \in Range(first)
      BY DEF Range
  <2>3. PICK m \in P : first[k] = fs[m]
      BY <1>4, <2>2
  <2> QED BY <1>1, <2>1, <2>3 DEF Spoken
<1>8. ASSUME NEW e \in Spoken(fs)
      PROVE  e \in Range(es)
  <2> DEFINE T == { k \in DOMAIN fs : fs[k].entity = e }
  <2>1. T \in SUBSET Nat /\ T # {}
      BY DEF Spoken
  <2>2. PICK k \in T : \A l \in T : k <= l
    <3> HIDE DEF T
    <3> QED BY <2>1, LeastNumber
  <2>3. k \in DOMAIN fs /\ fs[k].entity = e
      OBVIOUS
  <2>4. ASSUME NEW m \in 1..(k - 1)
        PROVE  fs[m].entity # fs[k].entity
    <3>1. m \in DOMAIN fs /\ ~ (k <= m)
        BY <2>3
    <3> QED BY <2>2, <2>3, <3>1
  <2>5. k \in P
      BY <1>3, <2>3, <2>4
  <2>6. fs[k] \in Range(first)
      BY <1>4, <2>5
  <2>7. PICK i \in DOMAIN first : first[i] = fs[k]
      BY <2>6 DEF Range
  <2> QED BY <1>5, <2>3, <2>7 DEF Range
<1> QED BY <1>6, <1>7, <1>8 DEF es

(* The candidates are what the facts are about, except the world and what  *)
(* is out of stock.                                                        *)
LEMMA CandidatesSpoken ==
    ASSUME NEW fs \in Seq(Fact)
    PROVE  /\ Candidates(fs) \in Seq(Name)
           /\ Range(Candidates(fs)) =
                 { e \in Spoken(fs) : e # World /\ ~ OutOfStock(fs, e) }
<1> DEFINE es == Entities(fs)
           Open(e) == e # World /\ ~ OutOfStock(fs, e)
           P == { k \in DOMAIN es : Open(es[k]) }
<1>1. es \in Seq(Name) /\ Range(es) = Spoken(fs)
    BY EntitiesSpoken
<1>2. Candidates(fs) = Kept(es, P)
    BY DEF Candidates
<1>3. P \in SUBSET DOMAIN es /\ \A k \in DOMAIN es : k \in P <=> Open(es[k])
    OBVIOUS
<1> HIDE DEF es, P, Open
<1>4. Kept(es, P) \in Seq(Name) /\ Range(Kept(es, P)) = { es[k] : k \in P }
    BY <1>1, <1>3, KeptSelects, KeptRange
<1>5. { es[k] : k \in P } = { e \in Range(es) : Open(e) }
    BY <1>3 DEF Range
<1> QED BY <1>1, <1>2, <1>4, <1>5 DEF Open

PlanStep == [entity : Name \cup {AchieveGoal}, confidence : 0..Certain]

(* Sorting steps by confidence loses none and adds none.                   *)
LEMMA SortedSteps ==
    ASSUME NEW s \in Seq(PlanStep)
    PROVE  Sorted(s) \in Seq(PlanStep) /\ Range(Sorted(s)) = Range(s)
<1> DEFINE D == DOMAIN s
           upTo == [k \in D |-> { m \in D : m = k \/ Before(s, m, k) }]
<1>1. \A k \in D : k \in Nat /\ s[k] \in PlanStep
    OBVIOUS
<1>2. \A k \in D : k \in Nat /\ s[k].confidence \in Int
  <2>1. \A i \in 0..Certain : i \in Int
      BY DEF Certain
  <2>2. \A x \in PlanStep : x.confidence \in 0..Certain
      BY DEF PlanStep
  <2> QED BY <1>1, <2>1, <2>2
<1>3. Sorted(s) = Arranged(s, upTo)
    BY DEF Sorted
<1>4. \A k \in D : upTo[k] = { m \in D : m = k \/ Before(s, m, k) }
    OBVIOUS
<1>5. upTo \in [D -> SUBSET D] /\ \A k \in D : k \in upTo[k]
    OBVIOUS
<1> HIDE DEF D, upTo
<1>6. ASSUME NEW k \in D, NEW m \in D, Before(s, m, k)
      PROVE  Earlier(m, k, upTo)
  <2>1. m \in upTo[k] /\ k \notin upTo[m]
      BY <1>2, <1>4, <1>6 DEF Before
  <2>2. ASSUME NEW x \in upTo[m]
        PROVE  x \in upTo[k]
      BY <1>2, <1>4, <1>6 DEF Before
  <2> QED BY <2>1, <2>2 DEF Earlier
<1>7. \A k, m \in D : k # m => Before(s, m, k) \/ Before(s, k, m)
    BY <1>2 DEF Before
<1>8. Orders(upTo, D)
    BY <1>5, <1>6, <1>7 DEF Orders
<1> QED BY <1>3, <1>8, ArrangedSpec DEF D

Visited(s) == { s[k].entity : k \in DOMAIN s }

(* The steps of a plan visit the candidates.                               *)
LEMMA StepsVisit ==
    ASSUME NEW fs \in Seq(Fact)
    PROVE  /\ Steps(fs) \in Seq(PlanStep)
           /\ Visited(Steps(fs)) = Range(Candidates(fs))
<1> DEFINE es == Candidates(fs)
           scored == [k \in DOMAIN es |-> Scored(fs, es[k])]
           n == Len(es)
<1>1. es \in Seq(Name)
    BY CandidatesSpoken
<1>2. Steps(fs) = Sorted(scored)
    BY DEF Steps
<1>3. n \in Nat /\ DOMAIN es = 1..n /\ \A k \in DOMAIN es : es[k] \in Name
    BY <1>1
<1> HIDE DEF es, n
<1>4. ASSUME NEW e \in Name
      PROVE  Scored(fs, e) \in PlanStep /\ Scored(fs, e).entity = e
  <2> DEFINE P == { k \in DOMAIN fs : fs[k].entity = e }
             x == Score(About(fs, e))
  <2>1. About(fs, e) = Kept(fs, P) /\ P \in SUBSET DOMAIN fs
      BY DEF About
  <2> HIDE DEF P
  <2>2. About(fs, e) \in Seq(Fact)
      BY <2>1, KeptSelects
  <2>3. x \in Int
      BY <2>2, ScoreNumber
  <2>4. Scored(fs, e) = [entity |-> e, confidence |-> Clamped(x)]
      BY DEF Scored
  <2> HIDE DEF x
  <2>5. Clamped(x) \in 0..Certain
      BY <2>3 DEF Clamped, Certain
  <2> QED BY <2>4, <2>5 DEF PlanStep
<1>5. DOMAIN scored = DOMAIN es
      /\ \A k \in DOMAIN es : scored[k] \in PlanStep /\ scored[k].entity = es[k]
    BY <1>3, <1>4
<1>6. scored = [k \in 1..n |-> scored[k]]
    BY <1>3
<1> HIDE DEF scored
<1>7. scored \in Seq(PlanStep)
  <2>1. scored \in [1..n -> PlanStep]
      BY <1>3, <1>5, <1>6
  <2> QED BY <1>3, <2>1
<1>8. Sorted(scored) \in Seq(PlanStep) /\ Range(Sorted(scored)) = Range(scored)
    BY <1>7, SortedSteps
<1>9. Visited(Sorted(scored)) = { x.entity : x \in Range(Sorted(scored)) }
    BY DEF Visited, Range
<1>10. { x.entity : x \in Range(scored) } = Range(es)
    BY <1>5 DEF Range
<1> QED BY <1>2, <1>8, <1>9, <1>10 DEF es

(* A plan visits what the relevant facts are about, except the world and   *)
(* what is out of stock, with confidences in [0, 1].                       *)
LEMMA PlanVisits ==
    ASSUME NEW bs, NEW c, RelevantFacts(bs, c) \in Seq(Fact)
    PROVE  /\ Plan(bs, c) \in Seq(PlanStep)
           /\ Visits(Plan(bs, c)) =
                 { e \in Spoken(RelevantFacts(bs, c)) :
                      e # World /\ ~ OutOfStock(RelevantFacts(bs, c), e) }
<1> DEFINE fs == RelevantFacts(bs, c)
           steps == Steps(fs)
           goal == [entity |-> AchieveGoal, confidence |-> Last(steps).confidence]
           p == Plan(bs, c)
<1>1. /\ steps \in Seq(PlanStep)
      /\ Visited(steps) = { e \in Spoken(fs) : e # World /\ ~ OutOfStock(fs, e) }
    BY StepsVisit, CandidatesSpoken
<1>2. p = IF steps = << >> THEN << >> ELSE Append(steps, goal)
    BY DEF Plan
<1>3. Spoken(fs) \subseteq Name
    BY FactFields DEF Spoken
<1> HIDE DEF fs, steps, p
<1>4. AchieveGoal \notin Visited(steps)
    BY <1>1, <1>3, NamesAssumption
<1>5. CASE steps = << >>
  <2>1. Visits(p) = Visited(steps)
      BY <1>2, <1>5 DEF Visits, Visited
  <2> QED BY <1>1, <1>2, <1>5, <2>1 DEF fs, p
<1>6. CASE steps # << >>
  <2>1. steps[Len(steps)] \in PlanStep
      BY <1>1, <1>6
  <2>2. goal \in PlanStep /\ goal.entity = AchieveGoal
      BY <2>1 DEF PlanStep, Last
  <2> HIDE DEF goal
  <2>3. p \in Seq(PlanStep) /\ Range(p) = Range(steps) \cup {goal}
      BY <1>1, <1>2, <1>6, <2>2, Appended
  <2>4. Visits(p) = { x.entity : x \in Range(p) } \ {AchieveGoal}
      BY DEF Visits, Range
  <2>5. Visited(steps) = { x.entity : x \in Range(steps) }
      BY DEF Visited, Range
  <2>6. Visits(p) = Visited(steps)
      BY <1>4, <2>2, <2>3, <2>4, <2>5
  <2> QED BY <1>1, <2>3, <2>6 DEF fs, p
<1> QED BY <1>5, <1>6

-----------------------------------------------------------------------------
(* The facts that are relevant to a command.                               *)

(* What the actor has and what the intent adds say nothing about stock, and *)
(* the intent adds a fact about everything that the command names.         *)
LEMMA ObservedFacts ==
    ASSUME NEW bs \in Seq(Fact), NEW c \in Command
    PROVE  /\ Observed(bs, c) \in Seq(Fact)
           /\ \A f \in Range(Observed(bs, c)) :
                 f \in Range(bs) \/ Tells[f.attribute] = {}
           /\ Range(bs) \subseteq Range(Observed(bs, c))
           /\ \A k \in DOMAIN Named[c] : \E f \in Range(Observed(bs, c)) :
                 f.entity = Named[c][k] /\ f.confidence = Heard(c)
<1> DEFINE named == Named[c]
           n == Len(named)
           said == OfIntent(c)
           Said(k) == [entity |-> named[k], attribute |-> Requested[k], value |-> 100,
                       confidence |-> Heard(c), revised |-> FALSE]
<1>1. named \in Seq(Name) /\ n \in 1..3 /\ Heard(c) \in 0..100
    BY CommandAssumption DEF Heard
<1>2. n \in Nat /\ DOMAIN named = 1..n /\ \A k \in DOMAIN named : named[k] \in Name
    BY <1>1
<1>3. said = [k \in DOMAIN named |-> Said(k)]
    BY DEF OfIntent
<1>4. ASSUME NEW k \in DOMAIN named
      PROVE  /\ Said(k) \in Fact /\ Tells[Said(k).attribute] = {}
             /\ Said(k).entity = named[k] /\ Said(k).confidence = Heard(c)
  <2>1. k \in 1..3 /\ DOMAIN Requested = 1..3
      BY <1>1, <1>2 DEF Requested
  <2>2. Requested[k] \in Range(Requested)
      BY <2>1 DEF Range
  <2>3. Requested[k] \in Name /\ Tells[Requested[k]] = {}
      BY <2>2, NamesAssumption
  <2> QED BY <1>1, <1>2, <2>3 DEF Fact
<1> HIDE DEF named, n, said, Said
<1>5. said \in Seq(Fact)
  <2>1. said \in [1..n -> Fact]
      BY <1>2, <1>3, <1>4
  <2> QED BY <1>2, <2>1
<1>6. Owned \in Seq(Fact) /\ \A f \in Range(Owned) : Tells[f.attribute] = {}
    BY FactsAssumption
<1> DEFINE mine == Owned \o bs
<1>7. mine \in Seq(Fact) /\ Range(mine) = Range(Owned) \cup Range(bs)
    BY <1>6, Concatenated
<1>8. Observed(bs, c) = mine \o said
    BY DEF Observed, said
<1> HIDE DEF mine
<1>9. mine \o said \in Seq(Fact) /\ Range(mine \o said) = Range(mine) \cup Range(said)
    BY <1>5, <1>7, Concatenated
<1>10. \A f \in Range(said) : Tells[f.attribute] = {}
    BY <1>3, <1>4 DEF Range
<1>11. \A k \in DOMAIN named : \E f \in Range(said) :
          f.entity = named[k] /\ f.confidence = Heard(c)
    BY <1>3, <1>4 DEF Range
<1> QED BY <1>6, <1>7, <1>8, <1>9, <1>10, <1>11 DEF named

(* The relevant facts are the observed ones that pass the test.            *)
LEMMA RelevantOnes ==
    ASSUME NEW bs \in Seq(Fact), NEW c \in Command
    PROVE  /\ RelevantFacts(bs, c) \in Seq(Fact)
           /\ Range(RelevantFacts(bs, c)) =
                 { f \in Range(Observed(bs, c)) : Relevant(f, c) }
<1> DEFINE fs == Observed(bs, c)
           P == { k \in DOMAIN fs : Relevant(fs[k], c) }
<1>1. fs \in Seq(Fact)
    BY ObservedFacts
<1>2. RelevantFacts(bs, c) = Kept(fs, P)
    BY DEF RelevantFacts
<1>3. P \in SUBSET DOMAIN fs /\ \A k \in DOMAIN fs : k \in P <=> Relevant(fs[k], c)
    OBVIOUS
<1> HIDE DEF fs, P
<1>4. Kept(fs, P) \in Seq(Fact) /\ Range(Kept(fs, P)) = { fs[k] : k \in P }
    BY <1>1, <1>3, KeptSelects, KeptRange
<1>5. { fs[k] : k \in P } = { f \in Range(fs) : Relevant(f, c) }
    BY <1>3 DEF Range
<1> QED BY <1>2, <1>4, <1>5 DEF fs

(* One belief for each attribute of an entity, of those that are revised.  *)
Once(bs) ==
    /\ bs \in Seq(Fact)
    /\ \A k, m \in DOMAIN bs :
          /\ bs[k].revised /\ bs[m].revised
          /\ bs[k].entity = bs[m].entity /\ bs[k].attribute = bs[m].attribute
          => k = m

(* What is stated of an entity, in the order of the facts.                 *)
LEMMA StatedOnes ==
    ASSUME NEW fs \in Seq(Fact), NEW e, NEW kw
    PROVE  /\ Stated(fs, e, kw) \in Seq(Fact)
           /\ Range(Stated(fs, e, kw)) =
                 { f \in Range(fs) : f.entity = e /\ kw \in Tells[f.attribute] }
<1> DEFINE P == { k \in DOMAIN fs : fs[k].entity = e /\ kw \in Tells[fs[k].attribute] }
<1>1. Stated(fs, e, kw) = Kept(fs, P)
    BY DEF Stated
<1>2. /\ P \in SUBSET DOMAIN fs
      /\ \A k \in DOMAIN fs : k \in P <=> fs[k].entity = e /\ kw \in Tells[fs[k].attribute]
    OBVIOUS
<1> HIDE DEF P
<1>3. Kept(fs, P) \in Seq(Fact) /\ Range(Kept(fs, P)) = { fs[k] : k \in P }
    BY <1>2, KeptSelects, KeptRange
<1>4. { fs[k] : k \in P } = { f \in Range(fs) : f.entity = e /\ kw \in Tells[f.attribute] }
    BY <1>2 DEF Range
<1> QED BY <1>1, <1>3, <1>4

(* The facts about the stock of an entity are the beliefs about it, none   *)
(* of which is out of date; the first one decides.                         *)
LEMMA StockIsLatest ==
    ASSUME Once(beliefs), NEW c \in Command, NEW e
    PROVE  /\ OutOfStock(RelevantFacts(beliefs, c), e) =>
                 \E k \in StockOf(e, c) : Short(beliefs[k])
           /\ ~ OutOfStock(RelevantFacts(beliefs, c), e) =>
                 StockOf(e, c) = {} \/ \E k \in StockOf(e, c) : ~ Short(beliefs[k])
<1> DEFINE fs == RelevantFacts(beliefs, c)
           stock == Stated(fs, e, "stock")
<1>1. /\ fs \in Seq(Fact) /\ beliefs \in Seq(Fact)
      /\ Range(fs) = { f \in Range(Observed(beliefs, c)) : Relevant(f, c) }
    BY RelevantOnes DEF Once
<1>2. /\ \A f \in Range(Observed(beliefs, c)) :
            f \in Range(beliefs) \/ Tells[f.attribute] = {}
      /\ Range(beliefs) \subseteq Range(Observed(beliefs, c))
    BY <1>1, ObservedFacts
<1>3. /\ stock \in Seq(Fact)
      /\ Range(stock) = { f \in Range(fs) : f.entity = e /\ "stock" \in Tells[f.attribute] }
    BY <1>1, StatedOnes
<1>4. OutOfStock(fs, e) <=> stock # << >> /\ Short(Head(stock))
    BY DEF OutOfStock
<1> HIDE DEF fs, stock
<1>5. \A f : f \in Range(stock) <=>
                /\ f \in Range(beliefs) /\ Relevant(f, c)
                /\ f.entity = e /\ "stock" \in Tells[f.attribute]
    BY <1>1, <1>2, <1>3
<1>6. ASSUME NEW k \in DOMAIN beliefs
      PROVE  ~ Outdated(k)
  <2> SUFFICES ASSUME NEW m \in (k + 1)..Len(beliefs),
                      beliefs[k].revised, beliefs[m].revised,
                      beliefs[m].entity = beliefs[k].entity,
                      beliefs[m].attribute = beliefs[k].attribute
               PROVE  FALSE
      BY DEF Outdated
  <2>1. m \in DOMAIN beliefs /\ m # k
      BY <1>1
  <2> QED BY <2>1 DEF Once
<1>7. \A k \in DOMAIN beliefs : k \in StockOf(e, c) <=> beliefs[k] \in Range(stock)
    BY <1>5, <1>6 DEF StockOf, Range
<1>8. StockOf(e, c) \subseteq DOMAIN beliefs
    BY DEF StockOf
<1>9. ASSUME stock # << >>
      PROVE  \E k \in StockOf(e, c) : beliefs[k] = Head(stock)
  <2>1. 1 \in DOMAIN stock /\ Head(stock) = stock[1]
      BY <1>3, <1>9
  <2>2. Head(stock) \in Range(stock)
      BY <2>1 DEF Range
  <2>3. PICK k \in DOMAIN beliefs : beliefs[k] = Head(stock)
      BY <1>5, <2>2 DEF Range
  <2> QED BY <1>7, <2>2, <2>3
<1>10. ASSUME stock = << >>
       PROVE  StockOf(e, c) = {}
  <2>1. Range(stock) = {}
      BY <1>10 DEF Range
  <2> QED BY <1>7, <1>8, <2>1
<1> QED BY <1>4, <1>9, <1>10 DEF fs

-----------------------------------------------------------------------------
(* The beliefs stay one for each attribute of an entity.                   *)

(* Some of the beliefs are as unique as all of them.                       *)
LEMMA KeptOnce ==
    ASSUME NEW bs, Once(bs), NEW P \in SUBSET (DOMAIN bs)
    PROVE  Once(Kept(bs, P))
<1> DEFINE t == Kept(bs, P)
<1>1. bs \in Seq(Fact)
    BY DEF Once
<1>2. t \in Seq(Fact) /\ Selects(t, bs, P)
    BY <1>1, KeptSelects
<1> HIDE DEF t
<1>3. PICK from \in [DOMAIN t -> P] :
        /\ \A i \in DOMAIN t : t[i] = bs[from[i]]
        /\ \A i, j \in DOMAIN t : i < j => from[i] < from[j]
    BY <1>2 DEF Selects
<1>4. ASSUME NEW k \in DOMAIN t, NEW m \in DOMAIN t, t[k].revised, t[m].revised,
             t[k].entity = t[m].entity, t[k].attribute = t[m].attribute
      PROVE  k = m
  <2>1. from[k] = from[m]
      BY <1>3, <1>4 DEF Once
  <2>2. k \in Nat /\ m \in Nat /\ from[k] \in Nat /\ from[m] \in Nat
      BY <1>1, <1>2, <1>3
  <2> QED BY <1>3, <2>1, <2>2
<1> QED BY <1>2, <1>4 DEF Once, t

(* add_belief takes away the belief that the new one replaces.             *)
LEMMA ObserveOnce ==
    ASSUME Once(beliefs), NEW f \in Facts, Observe(f)
    PROVE  Once(beliefs')
<1> DEFINE Replaces(x) == /\ f.revised /\ x.revised
                          /\ x.entity = f.entity /\ x.attribute = f.attribute
           P == { k \in DOMAIN beliefs : ~ Replaces(beliefs[k]) }
           t == Kept(beliefs, P)
<1>1. beliefs' = Append(t, f) /\ f \in Fact
    BY FactsAssumption DEF Observe, Others
<1>2. Once(t)
    BY KeptOnce
<1>3. beliefs \in Seq(Fact) /\ t \in Seq(Fact)
    BY <1>2 DEF Once
<1>4. Range(t) = { beliefs[k] : k \in P }
    BY <1>3, KeptRange
<1>5. \A x \in Range(t) : ~ Replaces(x)
    BY <1>4
<1> HIDE DEF P, t
<1>6. \A k \in DOMAIN t : ~ Replaces(t[k])
    BY <1>5 DEF Range
<1> DEFINE u == Append(t, f)
           n == Len(t)
<1>7. /\ u \in Seq(Fact) /\ n \in Nat
      /\ DOMAIN t = 1..n /\ DOMAIN u = 1..(n + 1)
      /\ \A k \in 1..n : u[k] = t[k]
      /\ u[n + 1] = f
    BY <1>1, <1>3, Appended
<1> HIDE DEF u, n
<1>8. ASSUME NEW k \in DOMAIN u, NEW m \in DOMAIN u, u[k].revised, u[m].revised,
             u[k].entity = u[m].entity, u[k].attribute = u[m].attribute
      PROVE  k = m
  <2>1. CASE k \in 1..n /\ m \in 1..n
      BY <1>2, <1>7, <1>8, <2>1 DEF Once
  <2>2. CASE k = n + 1 /\ m \in 1..n
      BY <1>6, <1>7, <1>8, <2>2
  <2>3. CASE k \in 1..n /\ m = n + 1
      BY <1>6, <1>7, <1>8, <2>3
  <2>4. CASE k = n + 1 /\ m = n + 1
      BY <2>4
  <2>5. (k \in 1..n \/ k = n + 1) /\ (m \in 1..n \/ m = n + 1)
      BY <1>7
  <2> QED BY <2>1, <2>2, <2>3, <2>4, <2>5
<1>9. Once(u)
    BY <1>7, <1>8 DEF Once
<1> QED BY <1>1, <1>9 DEF u

(* decay_beliefs changes nothing of a belief but its confidence.           *)
LEMMA DecayOnce ==
    ASSUME Once(beliefs), Decay
    PROVE  Once(beliefs')
<1> DEFINE P == { k \in DOMAIN beliefs : beliefs[k].confidence > 6 }
           t == Kept(beliefs, P)
           u == [k \in DOMAIN t |-> Faded(t[k])]
           n == Len(t)
<1>1. beliefs' = u
    BY DEF Decay
<1>2. Once(t)
    BY KeptOnce
<1>3. beliefs \in Seq(Fact) /\ t \in Seq(Fact)
    BY <1>2 DEF Once
<1>4. Range(t) = { beliefs[k] : k \in P }
    BY <1>3, KeptRange
<1>5. \A x \in Range(t) : x.confidence > 6
    BY <1>4
<1> HIDE DEF P, t
<1>6. \A k \in DOMAIN t : t[k] \in Fact /\ t[k].confidence > 6
    BY <1>3, <1>5 DEF Range
<1>7. n \in Nat /\ DOMAIN t = 1..n
    BY <1>3
<1>8. ASSUME NEW k \in DOMAIN t
      PROVE  /\ u[k] \in Fact
             /\ u[k].entity = t[k].entity /\ u[k].attribute = t[k].attribute
             /\ u[k].revised = t[k].revised
  <2> DEFINE x == t[k]
             y == Faded(x)
  <2>1. x \in Fact /\ x.confidence > 6 /\ u[k] = y
      BY <1>6
  <2> HIDE DEF x
  <2>2. x.confidence - 5 \in 0..100 /\ x.confidence - 5 \in Int
      BY <2>1 DEF Fact
  <2> DEFINE v == IF x.revised THEN x.value ELSE x.confidence - 5
  <2>3. v \in Int \cup {NoNumber}
      BY <2>1, <2>2 DEF Fact
  <2>4. y = [x EXCEPT !.confidence = x.confidence - 5, !.value = v]
      BY DEF Faded
  <2> HIDE DEF v
  <2>5. /\ y \in Fact /\ y.entity = x.entity /\ y.attribute = x.attribute
        /\ y.revised = x.revised
    <3> HIDE DEF y
    <3> QED BY <2>1, <2>2, <2>3, <2>4 DEF Fact
  <2> QED BY <2>1, <2>5 DEF x
<1>9. DOMAIN u = DOMAIN t
    OBVIOUS
<1>10. u = [k \in 1..n |-> u[k]]
    BY <1>7
<1> HIDE DEF u, n
<1>11. u \in Seq(Fact)
  <2>1. u \in [1..n -> Fact]
      BY <1>7, <1>8, <1>10
  <2> QED BY <1>7, <2>1
<1>12. Once(u)
    BY <1>2, <1>8, <1>9, <1>11 DEF Once
<1> QED BY <1>1, <1>12

-----------------------------------------------------------------------------
(* What a call is thinking about is its own command.                       *)

Asking   == { [at |-> "asking", command |-> c, prompt |-> c] : c \in Commands }
Answered == { [at |-> "planned", command |-> c, plan |-> c] : c \in Commands }
Failed   == { [at |-> "planned", command |-> c, plan |-> NoCommand] : c \in Commands }

Thinking == {Idle} \cup Asking \cup Answered \cup Failed

Thoughts ==
    /\ objective \in Objectives
    /\ intent \in Commands
    /\ engine \in {"built-in", "llm"}
    /\ call \in [Call -> Thinking]

(* The inductive invariant: a call that asks has the prompt of its own     *)
(* command, and no two beliefs are about one attribute of one entity.      *)
CognitionOK == Once(beliefs) /\ Thoughts

(* What the fields of a call in flight say.                                *)
LEMMA ThinkingFacts ==
    ASSUME NEW x \in Thinking
    PROVE  /\ x.at = "asking" =>
                 x.command \in Commands /\ x.prompt = x.command
           /\ x.at = "planned" =>
                 x.command \in Commands /\ x.plan \in {x.command, NoCommand}
           /\ x \in {Idle}
                 \cup [at : {"asking"}, command : Commands, prompt : Commands]
                 \cup [at : {"planned"}, command : Commands, plan : Commands]
<1>1. CASE x = Idle
  <2>1. x.at = "idle"
      BY <1>1 DEF Idle
  <2> QED BY <1>1, <2>1
<1>2. CASE x \in Asking
    BY <1>2 DEF Asking
<1>3. CASE x \in Answered
    BY <1>3 DEF Answered
<1>4. CASE x \in Failed
  <2>1. NoCommand \in Commands
      BY DEF Commands
  <2> QED BY <1>4, <2>1 DEF Failed
<1> QED BY <1>1, <1>2, <1>3, <1>4 DEF Thinking

LEMMA InitCognition == Init => CognitionOK
<1> SUFFICES ASSUME Init
             PROVE  CognitionOK
    OBVIOUS
<1>1. << >> \in Seq(Fact) /\ DOMAIN << >> = {}
    OBVIOUS
<1>2. Once(beliefs)
    BY <1>1 DEF Init, Once
<1>3. Thoughts
    BY DEF Init, Thoughts, Thinking, Commands
<1> QED BY <1>2, <1>3 DEF CognitionOK

LEMMA ThinkCognition ==
    ASSUME CognitionOK, NEW t \in Call, Think(t)
    PROVE  CognitionOK'
<1> USE DEF CognitionOK
<1>1. Once(beliefs) /\ Thoughts
    OBVIOUS
<1>2. ASSUME NEW x \in Thinking, call' = [call EXCEPT ![t] = x],
             intent' \in Commands, UNCHANGED << objective, engine >>
      PROVE  Thoughts'
    BY <1>1, <1>2 DEF Thoughts
<1>3. \A c \in Command : c \in Commands
    BY DEF Commands
<1>4. CASE \E c \in Command : RunBuiltIn(t, c)
  <2>1. PICK c \in Command : RunBuiltIn(t, c)
      BY <1>4
  <2> DEFINE x == [at |-> "planned", command |-> c, plan |-> c]
  <2>2. x \in Thinking
      BY <1>3 DEF Thinking, Answered
  <2>3. /\ call' = [call EXCEPT ![t] = x]
        /\ intent' = c /\ UNCHANGED << objective, engine >> /\ Decay
      BY <2>1 DEF RunBuiltIn, Planned
  <2> HIDE DEF x
  <2>4. Thoughts'
      BY <1>2, <1>3, <2>2, <2>3
  <2> QED BY <1>1, <2>3, <2>4, DecayOnce
<1>5. CASE \E c \in Command : RunLLM(t, c)
  <2>1. PICK c \in Command : RunLLM(t, c)
      BY <1>5
  <2> DEFINE x == [at |-> "asking", command |-> c, prompt |-> c]
  <2>2. x \in Thinking
      BY <1>3 DEF Thinking, Asking
  <2>3. /\ call' = [call EXCEPT ![t] = x]
        /\ intent' = c /\ UNCHANGED << objective, engine >> /\ Decay
      BY <2>1 DEF RunLLM, Ask
  <2> HIDE DEF x
  <2>4. Thoughts'
      BY <1>2, <1>3, <2>2, <2>3
  <2> QED BY <1>1, <2>3, <2>4, DecayOnce
<1>6. CASE TickLLM(t)
  <2> DEFINE x == [at |-> "asking", command |-> intent, prompt |-> intent]
  <2>1. intent \in Commands
      BY <1>1 DEF Thoughts
  <2>2. x \in Thinking
      BY <2>1 DEF Thinking, Asking
  <2>3. /\ call' = [call EXCEPT ![t] = x]
        /\ intent' = intent /\ UNCHANGED << objective, engine >> /\ Decay
      BY <1>6 DEF TickLLM, Ask
  <2> HIDE DEF x
  <2>4. Thoughts'
      BY <1>2, <2>1, <2>2, <2>3
  <2> QED BY <1>1, <2>3, <2>4, DecayOnce
<1>7. CASE LLMAnswers(t)
  <2> DEFINE c == call[t].command
             x == [at |-> "planned", command |-> c, plan |-> c]
  <2>1. call[t].at = "asking" /\ call[t] \in Thinking /\ intent \in Commands
      BY <1>1, <1>7 DEF LLMAnswers, Thoughts
  <2>2. c \in Commands /\ call[t].prompt = c
      BY <2>1, ThinkingFacts
  <2>3. /\ call' = [call EXCEPT ![t] = x]
        /\ UNCHANGED << objective, beliefs, intent, engine >>
      BY <1>7, <2>2 DEF LLMAnswers, Planned, Prompt
  <2> HIDE DEF c
  <2>4. x \in Thinking
      BY <2>2 DEF Thinking, Answered
  <2> HIDE DEF x
  <2>5. Thoughts'
      BY <1>2, <2>1, <2>3, <2>4
  <2> QED BY <1>1, <2>3, <2>5
<1>8. CASE LLMFails(t)
  <2> DEFINE c == call[t].command
             x == [at |-> "planned", command |-> c, plan |-> NoCommand]
  <2>1. call[t].at = "asking" /\ call[t] \in Thinking /\ intent \in Commands
      BY <1>1, <1>8 DEF LLMFails, Thoughts
  <2>2. c \in Commands
      BY <2>1, ThinkingFacts
  <2>3. /\ call' = [call EXCEPT ![t] = x]
        /\ UNCHANGED << objective, beliefs, intent, engine >>
      BY <1>8 DEF LLMFails, Planned
  <2> HIDE DEF c
  <2>4. x \in Thinking
      BY <2>2 DEF Thinking, Failed
  <2> HIDE DEF x
  <2>5. Thoughts'
      BY <1>2, <2>1, <2>3, <2>4
  <2> QED BY <1>1, <2>3, <2>5
<1>9. CASE Dispatch(t)
  <2>1. /\ call' = [call EXCEPT ![t] = Idle] /\ Idle \in Thinking
        /\ UNCHANGED << objective, beliefs, intent, engine >>
      BY <1>9 DEF Dispatch, Thinking
  <2>2. intent' \in Commands
      BY <1>1, <2>1 DEF Thoughts
  <2>3. Thoughts'
      BY <1>2, <2>1, <2>2
  <2> QED BY <1>1, <2>1, <2>3
<1> QED BY <1>4, <1>5, <1>6, <1>7, <1>8, <1>9 DEF Think

LEMMA NextCognition == CognitionOK /\ [Next]_vars => CognitionOK'
<1> SUFFICES ASSUME CognitionOK, [Next]_vars
             PROVE  CognitionOK'
    OBVIOUS
<1>1. Once(beliefs) /\ Thoughts
    BY DEF CognitionOK
<1>2. ASSUME NEW f \in Facts, Observe(f)
      PROVE  CognitionOK'
  <2>1. Once(beliefs')
      BY <1>1, <1>2, ObserveOnce
  <2>2. Thoughts'
      BY <1>1, <1>2 DEF Observe, Thoughts
  <2> QED BY <2>1, <2>2 DEF CognitionOK
<1>3. ASSUME NEW e \in {"built-in", "llm"}, SetEngine(e)
      PROVE  CognitionOK'
  <2>1. Thoughts' /\ beliefs' = beliefs
      BY <1>1, <1>3 DEF SetEngine, Thoughts
  <2> QED BY <1>1, <2>1 DEF CognitionOK
<1>4. ASSUME NEW t \in Call, Think(t)
      PROVE  CognitionOK'
    BY <1>4, ThinkCognition
<1>5. CASE UNCHANGED vars
  <2>1. Thoughts' /\ beliefs' = beliefs
      BY <1>1, <1>5 DEF vars, Thoughts
  <2> QED BY <1>1, <2>1 DEF CognitionOK
<1> QED BY <1>2, <1>3, <1>4, <1>5 DEF Next

(* The invariant holds in every reachable state.                           *)
LEMMA CognitionAlwaysOK == Spec => []CognitionOK
<1> QED BY InitCognition, NextCognition, PTL DEF Spec

-----------------------------------------------------------------------------
(* A call is given a plan for its own command, whatever other calls have   *)
(* made the intent of the actor while the LLM was thinking.                *)
THEOREM PlansAreForTheirCommand == Spec => []PlansOwnCommand
<1>1. CognitionOK => PlansOwnCommand
  <2> SUFFICES ASSUME CognitionOK, NEW t \in Call, call[t].at = "planned"
               PROVE  call[t].plan \in {call[t].command, NoCommand}
      BY DEF PlansOwnCommand
  <2>1. call[t] \in Thinking
      BY DEF CognitionOK, Thoughts
  <2> QED BY <2>1, ThinkingFacts
<1> QED BY <1>1, CognitionAlwaysOK, PTL

(* Fields keep their types, and every confidence of a plan is in [0, 1],   *)
(* however many facts an entity has and whatever they say.                 *)
THEOREM PlansStayInBounds == Spec => []TypeOK
<1>1. CognitionOK => TypeOK
  <2> SUFFICES ASSUME CognitionOK
               PROVE  TypeOK
      OBVIOUS
  <2>1. Once(beliefs) /\ Thoughts /\ beliefs \in Seq(Fact)
      BY DEF CognitionOK, Once
  <2>2. ASSUME NEW t \in Call
        PROVE  call[t] \in {Idle}
                 \cup [at : {"asking"}, command : Commands, prompt : Commands]
                 \cup [at : {"planned"}, command : Commands, plan : Commands]
    <3>1. call[t] \in Thinking
        BY <2>1 DEF Thoughts
    <3> QED BY <3>1, ThinkingFacts
  <2>3. ASSUME NEW c \in Command, NEW k \in DOMAIN PlanOf(c)
        PROVE  PlanOf(c)[k].confidence \in 0..Certain
    <3>1. RelevantFacts(beliefs, c) \in Seq(Fact)
        BY <2>1, RelevantOnes
    <3>2. PlanOf(c) \in Seq(PlanStep)
        BY <3>1, PlanVisits DEF PlanOf
    <3>3. PlanOf(c)[k] \in PlanStep
        BY <3>2
    <3> QED BY <3>3 DEF PlanStep
  <2> QED BY <2>1, <2>2, <2>3 DEF TypeOK, Thoughts
<1> QED BY <1>1, CognitionAlwaysOK, PTL

(* The planner looks at the first fact about the stock only; whatever has  *)
(* been revised, it visits an entity only if nothing relevant is known of  *)
(* the stock, or if one of the latest accounts is that there is enough.    *)
THEOREM OutOfStockIsSkipped == Spec => []OutOfStockSkipped
<1>1. CognitionOK => OutOfStockSkipped
  <2> SUFFICES ASSUME CognitionOK, NEW c \in Command, NEW e \in Visits(PlanOf(c))
               PROVE  StockOf(e, c) = {} \/ \E k \in StockOf(e, c) : ~ Short(beliefs[k])
      BY DEF OutOfStockSkipped
  <2>1. Once(beliefs) /\ beliefs \in Seq(Fact)
      BY DEF CognitionOK, Once
  <2>2. RelevantFacts(beliefs, c) \in Seq(Fact)
      BY <2>1, RelevantOnes
  <2>3. ~ OutOfStock(RelevantFacts(beliefs, c), e)
      BY <2>2, PlanVisits DEF PlanOf
  <2> QED BY <2>1, <2>3, StockIsLatest
<1> QED BY <1>1, CognitionAlwaysOK, PTL

(* What a command names is in its plan, however uncertain the intent,      *)
(* unless its stock is low by a latest account, or the command is a single *)
(* word with a colon in it.                                                *)
THEOREM CommandsAreHeard == Spec => []CommandHeard
<1>1. CognitionOK => CommandHeard
  <2> SUFFICES ASSUME CognitionOK, NEW c \in Command,
                      NEW e \in Range(Named[c]) \ {World},
                      Len(Named[c]) = 1 => AfterColon[e] = e
               PROVE  \/ e \in Visits(PlanOf(c))
                      \/ \E k \in StockOf(e, c) : Short(beliefs[k])
      BY DEF CommandHeard
  <2> DEFINE fs == RelevantFacts(beliefs, c)
  <2>1. Once(beliefs) /\ beliefs \in Seq(Fact)
      BY DEF CognitionOK, Once
  <2>2. /\ fs \in Seq(Fact)
        /\ Range(fs) = { f \in Range(Observed(beliefs, c)) : Relevant(f, c) }
      BY <2>1, RelevantOnes
  <2>3. PICK k \in DOMAIN Named[c] : Named[c][k] = e
      BY DEF Range
  <2>4. PICK f \in Range(Observed(beliefs, c)) :
            f.entity = e /\ f.confidence = Heard(c)
      BY <2>1, <2>3, ObservedFacts
  <2>5. Relevant(f, c)
    <3>1. CASE Len(Named[c]) > 1
        BY <2>4, <3>1 DEF Heard, Relevant
    <3>2. CASE Len(Named[c]) = 1
      <4>1. Named[c] \in Seq(Name) /\ Lower[e] = e
          BY CommandAssumption
      <4>2. k = 1 /\ (k + 1)..Len(Named[c]) = {}
          BY <2>3, <3>2, <4>1
      <4>3. NoColonAfter(c, k)
          BY <4>2 DEF NoColonAfter
      <4>4. AfterColon[Named[c][k]] \in GoalWords(c)
          BY <2>3, <4>3 DEF GoalWords
      <4>5. Lower[f.entity] \in GoalWords(c)
          BY <2>3, <2>4, <3>2, <4>1, <4>4
      <4> QED BY <4>5 DEF Mentions, Relevant
    <3>3. Len(Named[c]) \in 1..3
        BY CommandAssumption
    <3> QED BY <3>1, <3>2, <3>3
  <2>6. e \in Spoken(fs)
      BY <2>2, <2>4, <2>5 DEF Spoken, Range
  <2>7. Visits(PlanOf(c)) =
            { x \in Spoken(fs) : x # World /\ ~ OutOfStock(fs, x) }
      BY <2>2, PlanVisits DEF PlanOf
  <2>8. OutOfStock(fs, e) => \E i \in StockOf(e, c) : Short(beliefs[i])
      BY <2>1, StockIsLatest
  <2> QED BY <2>6, <2>7, <2>8
<1> QED BY <1>1, CognitionAlwaysOK, PTL
=============================================================================
