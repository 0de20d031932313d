-------------------------- MODULE ActorMind_proofs --------------------------
(***************************************************************************)
(* Proofs about ActorMind, for every set of actors, aspects, topics,       *)
(* values, goals and confidences.                                          *)
(***************************************************************************)
EXTENDS ActorMind, Lemmas

-----------------------------------------------------------------------------
(* Beliefs: what was last told about an aspect is the one belief about it, *)
(* and it is there as long as some of its confidence is left.              *)

Telling  == [value : Value \cup {NoLabel}, confidence : Told \cup {0},
             cycles : 0..MaxCycles]
LeftOf(t) == Clamped(t.confidence) - 5 * t.cycles
Lives(t)  == t.cycles = 0 \/ LeftOf(t) > 1

Latest(b, t) ==
    /\ b.value = t.value /\ t.value # NoLabel
    /\ b.age = t.cycles /\ b.confidence = LeftOf(t)
    /\ Lives(t)

Faithful(bs, ts) ==
    /\ bs \in Seq(Belief)
    /\ ts \in [Aspect -> Telling]
    /\ \A k \in DOMAIN bs : bs[k].about \in Aspect => Latest(bs[k], ts[bs[k].about])
    /\ \A k, m \in DOMAIN bs :
          bs[k].about \in Aspect /\ bs[m].about = bs[k].about => k = m
    /\ \A x \in Aspect :
          ts[x].value # NoLabel /\ Lives(ts[x]) => \E k \in DOMAIN bs : bs[k].about = x

Minds ==
    /\ beliefs \in [Actor -> Seq(Belief)]
    /\ told \in [Actor -> [Aspect -> Telling]]
    /\ \A a \in Actor : Faithful(beliefs[a], told[a])

LEMMA ClampedRange ==
    ASSUME NEW c \in Int
    PROVE  Clamped(c) \in 0..100
BY DEF Clamped

(* The numbers of a telling, and that none lives MaxCycles cycles.         *)
LEMMA TellingFacts ==
    ASSUME NEW t \in Telling
    PROVE  /\ t.cycles \in Nat /\ t.cycles <= MaxCycles /\ MaxCycles \in Nat \ {0}
           /\ t.value \in Value \cup {NoLabel}
           /\ t.confidence \in Int
           /\ Clamped(t.confidence) \in 0..100
           /\ LeftOf(t) \in Int /\ LeftOf(t) <= 100
           /\ t.cycles = MaxCycles => LeftOf(t) <= 1
<1>1. /\ t.cycles \in Nat /\ t.cycles <= MaxCycles /\ MaxCycles \in Nat \ {0}
      /\ t.value \in Value \cup {NoLabel} /\ t.confidence \in Told \cup {0}
    BY NumbersAssumption DEF Telling
<1>2. t.confidence \in Int
  <2>1. CASE t.confidence \in Told
    <3>1. \A c \in Told : c \in Int
        BY NumbersAssumption
    <3> QED BY <2>1, <3>1, Zenon
  <2>2. CASE t.confidence = 0
      BY <2>2
  <2>3. t.confidence \in Told \/ t.confidence = 0
      BY <1>1, Zenon
  <2> QED BY <2>1, <2>2, <2>3
<1>3. Clamped(t.confidence) \in 0..100
    BY <1>2, ClampedRange
<1>4. Clamped(t.confidence) - 5 * MaxCycles <= 1
  <2>1. CASE t.confidence \in Told
      BY <2>1, CyclesAssumption
  <2>2. CASE t.confidence = 0
      BY <1>1, <2>2 DEF Clamped
  <2> QED BY <1>1, <2>1, <2>2
<1> QED BY <1>1, <1>2, <1>3, <1>4 DEF LeftOf

LEMMA BeliefFacts ==
    ASSUME NEW bs \in Seq(Belief), NEW k \in DOMAIN bs
    PROVE  /\ bs[k] \in Belief
           /\ bs[k].about \in About /\ bs[k].value \in Value
           /\ bs[k].confidence \in 0..100 /\ bs[k].age \in Nat
<1>1. bs[k] \in Belief
    OBVIOUS
<1> QED BY <1>1 DEF Belief

(* A new belief about a topic is one more.                                 *)
LEMMA TopicFaithful ==
    ASSUME NEW bs, NEW ts, Faithful(bs, ts),
           NEW b \in Belief, b.about \notin Aspect
    PROVE  Faithful(Append(bs, b), ts)
<1> DEFINE new == Append(bs, b)
<1>1. bs \in Seq(Belief)
    BY DEF Faithful
<1>2. /\ new \in Seq(Belief) /\ Len(bs) \in Nat
      /\ DOMAIN bs = 1..Len(bs) /\ DOMAIN new = 1..(Len(bs) + 1)
      /\ \A k \in 1..Len(bs) : new[k] = bs[k]
      /\ new[Len(bs) + 1] = b
    BY <1>1, Appended
<1> HIDE DEF new
<1>3. \A k \in DOMAIN new : new[k].about \in Aspect => k \in DOMAIN bs /\ new[k] = bs[k]
    BY <1>2
<1>4. \A k \in DOMAIN bs : k \in DOMAIN new /\ new[k] = bs[k]
    BY <1>2
<1>5. Faithful(new, ts)
    BY <1>2, <1>3, <1>4 DEF Faithful
<1> QED BY <1>5 DEF new

(* A new belief about an aspect is the only one.                           *)
LEMMA AspectFaithful ==
    ASSUME NEW bs, NEW ts, Faithful(bs, ts),
           NEW x \in Aspect, NEW v \in Value, NEW c \in Told,
           NEW b \in Belief, b.about = x, b.value = v, b.age = 0,
           b.confidence = Clamped(c)
    PROVE  Faithful(Append(Without(bs, x, v), b),
                    [ts EXCEPT ![x] = [value |-> v, confidence |-> c, cycles |-> 0]])
<1> DEFINE P == { k \in DOMAIN bs : bs[k].about # x }
           rest == Without(bs, x, v)
           new == Append(rest, b)
           t == [value |-> v, confidence |-> c, cycles |-> 0]
           told1 == [ts EXCEPT ![x] = t]
<1>1. bs \in Seq(Belief) /\ ts \in [Aspect -> Telling]
    BY DEF Faithful
<1>2. /\ rest \in Seq(Belief)
      /\ Selects(rest, bs, P)
    BY <1>1, KeptSelects DEF Without
<1>3. PICK from \in [DOMAIN rest -> P] :
        /\ \A i \in DOMAIN rest : rest[i] = bs[from[i]]
        /\ \A i, j \in DOMAIN rest : i < j => from[i] < from[j]
        /\ \A k \in P : \E i \in DOMAIN rest : from[i] = k
    BY <1>2 DEF Selects
<1>4. /\ new \in Seq(Belief) /\ Len(rest) \in Nat
      /\ DOMAIN rest = 1..Len(rest) /\ DOMAIN new = 1..(Len(rest) + 1)
      /\ \A k \in 1..Len(rest) : new[k] = rest[k]
      /\ new[Len(rest) + 1] = b
    BY <1>2, Appended
<1>5. \A k \in P : k \in DOMAIN bs /\ bs[k].about # x /\ k \in Int
    BY <1>1
<1>6. \A k \in DOMAIN bs : bs[k].about # x => k \in P
    OBVIOUS
<1>7. t \in Telling /\ told1 \in [Aspect -> Telling] /\ told1[x] = t
      /\ \A y \in Aspect \ {x} : told1[y] = ts[y]
  <2>1. t \in Telling
      BY NumbersAssumption DEF Telling
  <2> HIDE DEF t
  <2> QED BY <1>1, <2>1
<1>8. Latest(b, t)
  <2>1. LeftOf(t) = Clamped(c)
    <3>1. Clamped(c) \in 0..100
        BY NumbersAssumption, ClampedRange
    <3> QED BY <3>1 DEF LeftOf
  <2>2. v # NoLabel
      BY NamesAssumption
  <2> QED BY <2>1, <2>2 DEF Latest, Lives
<1> HIDE DEF P, rest, new, t, told1
<1>9. \A k \in DOMAIN new : \/ k \in DOMAIN rest /\ new[k] = bs[from[k]]
                            \/ k = Len(rest) + 1 /\ new[k] = b
    BY <1>3, <1>4
<1>10. ASSUME NEW k \in DOMAIN new, new[k].about \in Aspect
       PROVE  Latest(new[k], told1[new[k].about])
  <2>1. CASE k \in DOMAIN rest /\ new[k] = bs[from[k]]
    <3>1. from[k] \in P /\ from[k] \in DOMAIN bs /\ bs[from[k]].about # x
        BY <1>3, <1>5, <2>1
    <3>2. Latest(bs[from[k]], ts[bs[from[k]].about])
        BY <1>10, <2>1, <3>1 DEF Faithful
    <3> QED BY <1>7, <1>10, <2>1, <3>1, <3>2
  <2>2. CASE new[k] = b
      BY <1>7, <1>8, <2>2
  <2> QED BY <1>9, <2>1, <2>2
<1>11. ASSUME NEW k \in DOMAIN new, NEW m \in DOMAIN new,
              new[k].about \in Aspect, new[m].about = new[k].about
       PROVE  k = m
  <2>1. \A i \in DOMAIN rest : /\ from[i] \in P /\ from[i] \in DOMAIN bs
                               /\ bs[from[i]].about # x
      BY <1>3, <1>5
  <2>2. CASE k \in DOMAIN rest /\ m \in DOMAIN rest
    <3>1. from[k] = from[m]
        BY <1>3, <1>4, <1>11, <2>1, <2>2 DEF Faithful
    <3>2. ~ (k < m) /\ ~ (m < k)
        BY <1>3, <1>5, <2>1, <2>2, <3>1
    <3> QED BY <1>4, <2>2, <3>2
  <2> QED BY <1>9, <1>11, <2>1, <2>2
<1>12. ASSUME NEW y \in Aspect, told1[y].value # NoLabel, Lives(told1[y])
       PROVE  \E k \in DOMAIN new : new[k].about = y
  <2>1. CASE y = x
    <3>1. Len(rest) + 1 \in DOMAIN new
        BY <1>4
    <3> QED BY <1>4, <2>1, <3>1
  <2>2. CASE y # x
    <3>1. PICK k \in DOMAIN bs : bs[k].about = y
        BY <1>7, <1>12, <2>2 DEF Faithful
    <3>2. k \in P
        BY <1>6, <2>2, <3>1
    <3>3. PICK i \in DOMAIN rest : from[i] = k
        BY <1>3, <3>2
    <3>4. i \in DOMAIN new /\ new[i].about = y
        BY <1>3, <1>4, <3>1, <3>3
    <3> QED BY <3>4
  <2> QED BY <2>1, <2>2
<1>13. Faithful(new, told1)
    BY <1>4, <1>7, <1>10, <1>11, <1>12 DEF Faithful
<1> QED BY <1>13 DEF new, rest, told1, t

(* One cycle takes as much from every belief as it counts.                 *)
LEMMA DecayFaithful ==
    ASSUME NEW bs, NEW ts, Faithful(bs, ts)
    PROVE  LET kept == Kept(bs, { k \in DOMAIN bs : Survives(bs[k]) })
           IN  Faithful([k \in DOMAIN kept |-> Faded(kept[k])],
                        [x \in Aspect |-> Older(ts[x])])
<1> DEFINE P == { k \in DOMAIN bs : Survives(bs[k]) }
           kept == Kept(bs, P)
           new == [k \in DOMAIN kept |-> Faded(kept[k])]
           told1 == [x \in Aspect |-> Older(ts[x])]
<1>1. bs \in Seq(Belief) /\ ts \in [Aspect -> Telling]
    BY DEF Faithful
<1>2. /\ kept \in Seq(Belief)
      /\ Selects(kept, bs, P)
    BY <1>1, KeptSelects
<1>3. PICK from \in [DOMAIN kept -> P] :
        /\ \A i \in DOMAIN kept : kept[i] = bs[from[i]]
        /\ \A i, j \in DOMAIN kept : i < j => from[i] < from[j]
        /\ \A k \in P : \E i \in DOMAIN kept : from[i] = k
    BY <1>2 DEF Selects
<1>4. \A k \in P : /\ k \in DOMAIN bs /\ k \in Int
                   /\ bs[k].confidence \in 0..100 /\ bs[k].confidence > 6
  <2> SUFFICES ASSUME NEW k \in P
               PROVE  /\ k \in DOMAIN bs /\ k \in Int
                      /\ bs[k].confidence \in 0..100 /\ bs[k].confidence > 6
      OBVIOUS
  <2>1. k \in DOMAIN bs /\ Survives(bs[k])
      OBVIOUS
  <2>2. k \in Int /\ bs[k].confidence \in 0..100
      BY <1>1, <2>1, BeliefFacts
  <2> HIDE DEF P
  <2>3. bs[k].confidence - 5 > 1
      BY <2>1 DEF Survives
  <2> QED BY <2>1, <2>2, <2>3
<1>5. ASSUME NEW k \in DOMAIN bs, bs[k].confidence > 6
      PROVE  k \in P
  <2>1. bs[k].confidence \in 0..100
      BY <1>1, BeliefFacts
  <2>2. bs[k].confidence - 5 > 1
      BY <1>5, <2>1
  <2> QED BY <2>2 DEF Survives
<1>6. ASSUME NEW y \in Aspect
      PROVE  /\ told1[y] \in Telling
             /\ told1[y].value = ts[y].value
             /\ Lives(told1[y]) =>
                   /\ ts[y].cycles < MaxCycles /\ told1[y].cycles = ts[y].cycles + 1
                   /\ LeftOf(told1[y]) = LeftOf(ts[y]) - 5 /\ LeftOf(ts[y]) > 6
             /\ LeftOf(ts[y]) > 6 => Lives(told1[y])
  <2> DEFINE t == ts[y]
             u == IF t.cycles < MaxCycles THEN [t EXCEPT !.cycles = @ + 1] ELSE t
  <2>1. t \in Telling /\ told1[y] = u
      BY <1>1 DEF Older
  <2>2. /\ t.cycles \in Nat /\ t.cycles <= MaxCycles /\ MaxCycles \in Nat \ {0}
        /\ Clamped(t.confidence) \in 0..100
        /\ LeftOf(t) \in Int
        /\ t.cycles = MaxCycles => LeftOf(t) <= 1
      BY <2>1, TellingFacts
  <2> HIDE DEF t, told1
  <2>3. CASE t.cycles < MaxCycles
    <3>1. /\ u.cycles = t.cycles + 1 /\ u.value = t.value /\ u.confidence = t.confidence
          /\ u \in Telling
        BY <2>1, <2>2, <2>3 DEF Telling
    <3>2. LeftOf(u) = LeftOf(t) - 5
      <4>1. LeftOf(u) = Clamped(t.confidence) - 5 * (t.cycles + 1)
          BY <3>1 DEF LeftOf
      <4>2. LeftOf(t) = Clamped(t.confidence) - 5 * t.cycles
          BY DEF LeftOf
      <4>3. 5 * (t.cycles + 1) = 5 * t.cycles + 5
          BY <2>2
      <4> QED BY <2>2, <4>1, <4>2, <4>3
    <3>3. Lives(u) <=> LeftOf(t) > 6
      <4>1. u.cycles # 0
          BY <2>2, <3>1
      <4> QED BY <2>2, <3>2, <4>1 DEF Lives
    <3> HIDE DEF u
    <3> QED BY <2>1, <2>2, <2>3, <3>1, <3>2, <3>3 DEF t
  <2>4. CASE ~ (t.cycles < MaxCycles)
    <3>1. u = t /\ t.cycles = MaxCycles /\ LeftOf(t) <= 1 /\ ~ Lives(t)
        BY <2>2, <2>4 DEF Lives
    <3> QED BY <2>1, <2>2, <3>1 DEF t
  <2> QED BY <2>3, <2>4
<1>7. told1 \in [Aspect -> Telling]
  <2>1. told1 = [y \in Aspect |-> told1[y]]
      OBVIOUS
  <2> HIDE DEF told1
  <2> QED BY <1>6, <2>1
<1>8. ASSUME NEW i \in DOMAIN kept
      PROVE  /\ from[i] \in DOMAIN bs /\ from[i] \in P
             /\ new[i] \in Belief
             /\ new[i].about = bs[from[i]].about /\ new[i].value = bs[from[i]].value
             /\ new[i].age = bs[from[i]].age + 1
             /\ new[i].confidence = bs[from[i]].confidence - 5
  <2> DEFINE b == bs[from[i]]
  <2>1. from[i] \in P /\ from[i] \in DOMAIN bs /\ b \in Belief /\ kept[i] = b
        /\ b.confidence \in 0..100 /\ b.confidence > 6 /\ b.age \in Nat
      BY <1>1, <1>3, <1>4, BeliefFacts
  <2>2. new[i] = Faded(b)
      BY <1>3
  <2> HIDE DEF b, new
  <2>3. /\ Faded(b).about = b.about /\ Faded(b).value = b.value
        /\ Faded(b).age = b.age + 1 /\ Faded(b).confidence = b.confidence - 5
        /\ Faded(b) \in Belief
    <3>1. b.confidence > 5 /\ b.confidence - 5 \in 0..100 /\ b.age + 1 \in Nat
        BY <2>1
    <3>2. Faded(b) = [b EXCEPT !.confidence = b.confidence - 5, !.age = b.age + 1]
        BY <2>1, <3>1 DEF Faded, Belief
    <3> QED BY <2>1, <3>1, <3>2 DEF Belief
  <2> QED BY <2>1, <2>2, <2>3 DEF b
<1>9. DOMAIN new = DOMAIN kept /\ new \in Seq(Belief)
  <2>1. DOMAIN new = DOMAIN kept /\ DOMAIN kept = 1..Len(kept) /\ Len(kept) \in Nat
      BY <1>2
  <2>2. new = [i \in 1..Len(kept) |-> new[i]]
      BY <2>1
  <2> DEFINE n == Len(kept)
  <2>3. n \in Nat /\ new = [i \in 1..n |-> new[i]] /\ \A i \in 1..n : new[i] \in Belief
      BY <1>8, <2>1, <2>2
  <2> HIDE DEF n, new
  <2>4. new \in [1..n -> Belief]
      BY <2>3
  <2>5. new \in Seq(Belief)
      BY <2>3, <2>4
  <2> QED BY <2>1, <2>5
<1> HIDE DEF P, kept, new, told1
<1>10. ASSUME NEW i \in DOMAIN new, new[i].about \in Aspect
       PROVE  Latest(new[i], told1[new[i].about])
  <2> DEFINE y == new[i].about
             b == bs[from[i]]
  <2>1. /\ from[i] \in DOMAIN bs /\ b.about = y /\ y \in Aspect
        /\ new[i].value = b.value /\ new[i].age = b.age + 1
        /\ new[i].confidence = b.confidence - 5 /\ b.confidence > 6
      BY <1>4, <1>8, <1>9, <1>10
  <2>2. Latest(b, ts[y])
      BY <2>1 DEF Faithful
  <2>3. LeftOf(ts[y]) = b.confidence /\ LeftOf(ts[y]) > 6
      BY <2>1, <2>2 DEF Latest
  <2> HIDE DEF y, b
  <2>4. /\ told1[y].value = ts[y].value /\ Lives(told1[y])
        /\ told1[y].cycles = ts[y].cycles + 1 /\ LeftOf(told1[y]) = LeftOf(ts[y]) - 5
      BY <1>6, <2>1, <2>3
  <2>5. Latest(new[i], told1[y])
      BY <2>1, <2>2, <2>3, <2>4 DEF Latest
  <2> QED BY <2>5 DEF y
<1>11. ASSUME NEW i \in DOMAIN new, NEW j \in DOMAIN new,
              new[i].about \in Aspect, new[j].about = new[i].about
       PROVE  i = j
  <2>1. /\ from[i] \in DOMAIN bs /\ from[j] \in DOMAIN bs
        /\ from[i] \in P /\ from[j] \in P
        /\ bs[from[i]].about \in Aspect /\ bs[from[j]].about = bs[from[i]].about
      BY <1>8, <1>9, <1>11
  <2>2. from[i] = from[j]
      BY <2>1 DEF Faithful
  <2>3. from[i] \in Int
      BY <1>4, <2>1
  <2>4. ~ (i < j) /\ ~ (j < i)
      BY <1>3, <1>9, <2>2, <2>3
  <2>5. i \in Int /\ j \in Int
      BY <1>2, <1>9
  <2> QED BY <2>4, <2>5
<1>12. ASSUME NEW y \in Aspect, told1[y].value # NoLabel, Lives(told1[y])
       PROVE  \E i \in DOMAIN new : new[i].about = y
  <2>1. LeftOf(ts[y]) > 6 /\ ts[y].value # NoLabel /\ ts[y] \in Telling
      BY <1>1, <1>6, <1>12
  <2>2. Lives(ts[y])
    <3>1. LeftOf(ts[y]) \in Int
        BY <2>1, TellingFacts
    <3> QED BY <2>1, <3>1 DEF Lives
  <2>3. PICK k \in DOMAIN bs : bs[k].about = y
      BY <2>1, <2>2 DEF Faithful
  <2>4. bs[k].confidence > 6
      BY <2>1, <2>3 DEF Faithful, Latest
  <2>5. PICK i \in DOMAIN kept : from[i] = k
      BY <1>3, <1>5, <2>4
  <2>6. i \in DOMAIN new /\ new[i].about = y
      BY <1>8, <1>9, <2>3, <2>5
  <2> QED BY <2>6
<1>13. Faithful(new, told1)
    BY <1>7, <1>9, <1>10, <1>11, <1>12 DEF Faithful
<1> QED BY <1>13 DEF new, kept, P, told1

LEMMA InitMinds == Init => Minds
<1> SUFFICES ASSUME Init
             PROVE  Minds
    OBVIOUS
<1> DEFINE ts == [x \in Aspect |-> NotTold]
<1>1. << >> \in Seq(Belief) /\ DOMAIN << >> = {}
    OBVIOUS
<1>2. NotTold \in Telling /\ NotTold.value = NoLabel
    BY NumbersAssumption DEF NotTold, Telling
<1>3. ts \in [Aspect -> Telling] /\ \A x \in Aspect : ts[x].value = NoLabel
    BY <1>2
<1> HIDE DEF ts
<1>4. Faithful(<< >>, ts)
    BY <1>1, <1>3 DEF Faithful
<1>5. beliefs = [a \in Actor |-> << >>] /\ told = [a \in Actor |-> ts]
    BY DEF Init, ts
<1> QED BY <1>1, <1>3, <1>4, <1>5 DEF Minds

(* An actor whose own beliefs and tellings stay faithful.                  *)
LEMMA OneMind ==
    ASSUME Minds, NEW a \in Actor, NEW bs, NEW ts, Faithful(bs, ts),
           beliefs' = [beliefs EXCEPT ![a] = bs],
           told' = [told EXCEPT ![a] = ts]
    PROVE  Minds'
<1>1. bs \in Seq(Belief) /\ ts \in [Aspect -> Telling]
    BY DEF Faithful
<1>2. /\ beliefs' \in [Actor -> Seq(Belief)]
      /\ told' \in [Actor -> [Aspect -> Telling]]
      /\ beliefs'[a] = bs /\ told'[a] = ts
      /\ \A c \in Actor \ {a} : beliefs'[c] = beliefs[c] /\ told'[c] = told[c]
    BY <1>1 DEF Minds
<1>3. ASSUME NEW c \in Actor
      PROVE  Faithful(beliefs'[c], told'[c])
    BY <1>2 DEF Minds
<1> QED BY <1>2, <1>3 DEF Minds

LEMMA DecayMinds ==
    ASSUME Minds, NEW a \in Actor, Decay(a)
    PROVE  Minds'
<1> DEFINE kept == Kept(beliefs[a], { k \in DOMAIN beliefs[a] : Survives(beliefs[a][k]) })
           bs == [k \in DOMAIN kept |-> Faded(kept[k])]
           ts == [x \in Aspect |-> Older(told[a][x])]
<1>1. Faithful(beliefs[a], told[a])
    BY DEF Minds
<1>2. Faithful(bs, ts)
    BY <1>1, DecayFaithful
<1>3. beliefs' = [beliefs EXCEPT ![a] = bs]
    BY DEF Decay
<1>4. told' = [told EXCEPT ![a] = ts]
    BY DEF Decay, Minds
<1> HIDE DEF bs, ts
<1> QED BY <1>2, <1>3, <1>4, OneMind

LEMMA BeliefMinds ==
    ASSUME Minds, NEW a \in Actor, NEW x \in About, NEW v \in Value, NEW c \in Told,
           AddBelief(a, x, v, c)
    PROVE  Minds'
<1> DEFINE b == [about |-> x, value |-> v, confidence |-> Clamped(c), age |-> 0]
           t == [value |-> v, confidence |-> c, cycles |-> 0]
<1>1. b \in Belief /\ b.about = x /\ b.value = v /\ b.age = 0 /\ b.confidence = Clamped(c)
  <2>1. Clamped(c) \in 0..100
      BY NumbersAssumption, ClampedRange
  <2> QED BY <2>1 DEF Belief
<1>2. Faithful(beliefs[a], told[a])
    BY DEF Minds
<1>3. CASE x \in Aspect
  <2> DEFINE bs == Append(Without(beliefs[a], x, v), b)
             ts == [told[a] EXCEPT ![x] = t]
  <2>1. beliefs' = [beliefs EXCEPT ![a] = bs]
      BY <1>3 DEF AddBelief
  <2>2. told' = [told EXCEPT ![a] = ts]
      BY <1>3 DEF AddBelief, Minds
  <2> HIDE DEF b
  <2>3. Faithful(bs, ts)
      BY <1>1, <1>2, <1>3, AspectFaithful
  <2> HIDE DEF bs, ts
  <2> QED BY <2>1, <2>2, <2>3, OneMind
<1>4. CASE x \notin Aspect
  <2> DEFINE bs == Append(beliefs[a], b)
  <2>1. beliefs' = [beliefs EXCEPT ![a] = bs]
      BY <1>4 DEF AddBelief
  <2>2. told' = [told EXCEPT ![a] = told[a]]
      BY <1>4 DEF AddBelief, Minds
  <2> HIDE DEF b
  <2>3. Faithful(bs, told[a])
      BY <1>1, <1>2, <1>4, TopicFaithful
  <2> HIDE DEF bs
  <2> QED BY <2>1, <2>2, <2>3, OneMind
<1> QED BY <1>3, <1>4

LEMMA NextMinds == Minds /\ [Next]_vars => Minds'
<1> SUFFICES ASSUME Minds, [Next]_vars
             PROVE  Minds'
    OBVIOUS
<1>1. CASE Believe
    BY <1>1, BeliefMinds DEF Believe
<1>2. CASE \E a \in Actor : Decay(a)
    BY <1>2, DecayMinds
<1>3. CASE UNCHANGED mindVars
    BY <1>3 DEF Minds, mindVars
<1>4. Believe \/ (\E a \in Actor : Decay(a)) \/ UNCHANGED mindVars
    BY DEF Next, Cycle, Tick, Pursue, AddGoal, Run, RemoveGoal, UpdateProgress, Choose,
           SetGoal, vars, mindVars
<1> QED BY <1>1, <1>2, <1>3, <1>4

(* Every actor's beliefs about aspects are one for each aspect that was    *)
(* told and has confidence left, with the value, the age and the           *)
(* confidence that add_belief and decay_beliefs owe it.                    *)
THEOREM MindsStayFaithful == Spec => []Minds
BY InitMinds, NextMinds, PTL DEF Spec

(* A condition is answered by what was last told about its aspect, until   *)
(* too little of its confidence is left, and by nothing before and after.  *)
THEOREM ConditionsTakeTheLatest == Spec => []ConditionIsLatest
<1>1. Minds => ConditionIsLatest
  <2> SUFFICES ASSUME Minds, NEW a \in Actor, NEW x \in Aspect, NEW v \in Value
               PROVE  Holds(beliefs[a], x, v) <=>
                          /\ told[a][x].value = v
                          /\ told[a][x].cycles = 0 \/ Left(a, x) > 1
      BY DEF ConditionIsLatest
  <2> DEFINE bs == beliefs[a]
             t == told[a][x]
  <2>1. Faithful(bs, told[a])
      BY DEF Minds
  <2>2. Left(a, x) = LeftOf(t)
      BY DEF Left, LeftOf
  <2> HIDE DEF bs, t
  <2>3. ASSUME Holds(bs, x, v)
        PROVE  t.value = v /\ Lives(t)
    <3>1. PICK k \in DOMAIN bs : bs[k].about = x /\ bs[k].value = v
        BY <2>3 DEF Holds
    <3>2. Latest(bs[k], told[a][x])
        BY <2>1, <3>1 DEF Faithful
    <3> QED BY <3>1, <3>2 DEF Latest, t
  <2>4. ASSUME t.value = v, Lives(t)
        PROVE  Holds(bs, x, v)
    <3>1. t.value # NoLabel
        BY <2>4, NamesAssumption
    <3>2. PICK k \in DOMAIN bs : bs[k].about = x
        BY <2>1, <2>4, <3>1 DEF Faithful, t
    <3>3. Latest(bs[k], told[a][x])
        BY <2>1, <3>2 DEF Faithful
    <3>4. bs[k].value = v
        BY <2>4, <3>3 DEF Latest, t
    <3>5. \A m \in 1..(k - 1) : bs[m].about # x
      <4>1. bs \in Seq(Belief)
          BY <2>1 DEF Faithful
      <4>2. \A m \in DOMAIN bs : bs[m].about = x => m = k
          BY <2>1, <3>2 DEF Faithful
      <4>3. \A m \in 1..(k - 1) : m \in DOMAIN bs /\ m # k
          BY <3>2, <4>1
      <4> QED BY <4>2, <4>3
    <3> QED BY <3>2, <3>4, <3>5 DEF Holds
  <2> QED BY <2>2, <2>3, <2>4 DEF Lives, bs, t
<1> QED BY <1>1, MindsStayFaithful, PTL

(* A belief about an aspect is as old as the cycles since it was told, and *)
(* has lost 0.05 of its confidence in each of them.                        *)
THEOREM AgesAreHonest == Spec => []HonestAge
<1>1. Minds => HonestAge
  <2> SUFFICES ASSUME Minds, NEW a \in Actor, NEW k \in DOMAIN beliefs[a],
                      beliefs[a][k].about \in Aspect
               PROVE  /\ beliefs[a][k].age = told[a][beliefs[a][k].about].cycles
                      /\ beliefs[a][k].confidence = Left(a, beliefs[a][k].about)
      BY DEF HonestAge
  <2>1. Latest(beliefs[a][k], told[a][beliefs[a][k].about])
      BY DEF Minds, Faithful
  <2> QED BY <2>1 DEF Latest, Left, LeftOf
<1> QED BY <1>1, MindsStayFaithful, PTL

-----------------------------------------------------------------------------
(* Goals.                                                                  *)

Books ==
    /\ goals \in [Actor -> Seq(Goal)]
    /\ current \in [Actor -> GoalType \cup {NoGoal}]
    /\ lists \in [Ref -> Seq(GoalType)]
    /\ ref \in [Actor -> Ref]
    /\ asked \in [Actor -> SUBSET (GoalType \X Label)]
    /\ added \in [Actor -> SUBSET (GoalType \X (Label \cup {NoLabel}))]

(* What was asked or added is tracked, and no two goals are of one request *)
(* that was not added.                                                     *)
Remembers(gs, as, ad) ==
    /\ \A r \in as \cup ad : \E k \in DOMAIN gs : gs[k].type = r[1] /\ gs[k].label = r[2]
    /\ \A k \in DOMAIN gs :
          gs[k].label # NoLabel /\ << gs[k].type, gs[k].label >> \notin ad =>
              \A m \in DOMAIN gs :
                  gs[m].label = gs[k].label /\ gs[m].type = gs[k].type => k = m

Requests == \A a \in Actor : Remembers(goals[a], asked[a], added[a])

(* No actor's list is another one's.                                       *)
Apart == \A a, b \in Actor : a # b => ref[a] # ref[b] /\ ref[a] # b

LEMMA GoalFacts ==
    ASSUME NEW gs \in Seq(Goal), NEW k \in DOMAIN gs
    PROVE  /\ gs[k] \in Goal /\ gs[k].type \in GoalType
           /\ gs[k].label \in Label \cup {NoLabel}
<1>1. gs[k] \in Goal
    OBVIOUS
<1> QED BY <1>1 DEF Goal

LEMMA NewGoalType ==
    ASSUME NEW t \in GoalType, NEW p \in {5, 30, 50} \cup Priorities,
           NEW l \in Label \cup {NoLabel}
    PROVE  /\ GoalState(t, p, l) \in Goal
           /\ GoalState(t, p, l).type = t /\ GoalState(t, p, l).label = l
BY DEF GoalState, Goal

(* One goal more, which was added or is of a request not yet tracked.      *)
LEMMA MoreGoals ==
    ASSUME NEW gs \in Seq(Goal), NEW as, NEW ad, Remembers(gs, as, ad), NEW g \in Goal,
           NEW more \in SUBSET {<< g.type, g.label >>},
           \/ << g.type, g.label >> \in more
           \/ ~ Tracked(gs, g.type, g.label)
    PROVE  /\ Append(gs, g) \in Seq(Goal)
           /\ Remembers(Append(gs, g), as, ad \cup more)
           /\ Tracked(Append(gs, g), g.type, g.label)
           /\ Types(Append(gs, g)) = Types(gs) \cup {g.type}
<1> DEFINE new == Append(gs, g)
<1>1. /\ new \in Seq(Goal) /\ Len(gs) \in Nat
      /\ DOMAIN gs = 1..Len(gs) /\ DOMAIN new = 1..(Len(gs) + 1)
      /\ \A k \in 1..Len(gs) : new[k] = gs[k]
      /\ new[Len(gs) + 1] = g
    BY Appended
<1> HIDE DEF new
<1>2. /\ \A k \in DOMAIN gs : k \in DOMAIN new /\ new[k] = gs[k]
      /\ \A k \in DOMAIN new : \/ k \in DOMAIN gs /\ new[k] = gs[k]
                               \/ k = Len(gs) + 1 /\ new[k] = g
      /\ Len(gs) + 1 \in DOMAIN new /\ new[Len(gs) + 1] = g
    BY <1>1
<1>3. \A r \in as \cup (ad \cup more) :
          \E k \in DOMAIN new : new[k].type = r[1] /\ new[k].label = r[2]
  <2> TAKE r \in as \cup (ad \cup more)
  <2>1. CASE r \in as \cup ad
    <3>1. PICK k \in DOMAIN gs : gs[k].type = r[1] /\ gs[k].label = r[2]
        BY <2>1 DEF Remembers
    <3> QED BY <1>2, <3>1
  <2>2. CASE r \in more
    <3>1. r[1] = g.type /\ r[2] = g.label
        BY <2>2
    <3> QED BY <1>2, <3>1
  <2> QED BY <2>1, <2>2
<1>4. ASSUME NEW k \in DOMAIN new, NEW m \in DOMAIN new, new[k].label # NoLabel,
             << new[k].type, new[k].label >> \notin ad \cup more,
             new[m].label = new[k].label, new[m].type = new[k].type
      PROVE  k = m
  <2>1. CASE k \in DOMAIN gs /\ m \in DOMAIN gs
      BY <1>2, <1>4, <2>1 DEF Remembers
  <2>2. CASE k = Len(gs) + 1 /\ m = Len(gs) + 1
      BY <2>2
  <2>3. CASE (k = Len(gs) + 1 /\ m \in DOMAIN gs) \/ (m = Len(gs) + 1 /\ k \in DOMAIN gs)
    <3>1. Tracked(gs, g.type, g.label)
        BY <1>2, <1>4, <2>3 DEF Tracked
    <3>2. new[k].type = g.type /\ new[k].label = g.label
        BY <1>2, <1>4, <2>3
    <3> QED BY <1>4, <3>1, <3>2
  <2> QED BY <1>2, <2>1, <2>2, <2>3
<1>5. Tracked(new, g.type, g.label)
    BY <1>2 DEF Tracked
<1>6. Types(new) = Types(gs) \cup {g.type}
    BY <1>2 DEF Types
<1>7. Remembers(new, as, ad \cup more)
    BY <1>3, <1>4 DEF Remembers
<1> QED BY <1>1, <1>5, <1>6, <1>7 DEF new

(* The goals of one type and the requests for it leave together.           *)
LEMMA FewerGoals ==
    ASSUME NEW gs \in Seq(Goal), NEW as, NEW ad, Remembers(gs, as, ad), NEW t
    PROVE  /\ GoalsWithout(gs, t) \in Seq(Goal)
           /\ Remembers(GoalsWithout(gs, t), { r \in as : r[1] # t }, { r \in ad : r[1] # t })
           /\ Types(GoalsWithout(gs, t)) = Types(gs) \ {t}
<1> DEFINE P == { k \in DOMAIN gs : gs[k].type # t }
           new == GoalsWithout(gs, t)
<1>1. new \in Seq(Goal) /\ Selects(new, gs, P) /\ P \in SUBSET DOMAIN gs
    BY KeptSelects DEF GoalsWithout
<1>2. PICK from \in [DOMAIN new -> P] :
        /\ \A i \in DOMAIN new : new[i] = gs[from[i]]
        /\ \A i, j \in DOMAIN new : i < j => from[i] < from[j]
        /\ \A k \in P : \E i \in DOMAIN new : from[i] = k
  <2> HIDE DEF new, P
  <2> QED BY <1>1 DEF Selects
<1>3. \A k \in P : k \in DOMAIN gs /\ gs[k].type # t /\ k \in Int
    OBVIOUS
<1>4. \A k \in DOMAIN gs : gs[k].type # t => k \in P
    OBVIOUS
<1> HIDE DEF new, P
<1>5. ASSUME NEW r \in as \cup ad, r[1] # t
      PROVE  \E i \in DOMAIN new : new[i].type = r[1] /\ new[i].label = r[2]
  <2>1. PICK k \in DOMAIN gs : gs[k].type = r[1] /\ gs[k].label = r[2]
      BY DEF Remembers
  <2>2. PICK i \in DOMAIN new : from[i] = k
      BY <1>2, <1>4, <1>5, <2>1
  <2> QED BY <1>2, <2>1, <2>2
<1>6. ASSUME NEW i \in DOMAIN new, NEW j \in DOMAIN new, new[i].label # NoLabel,
             << new[i].type, new[i].label >> \notin { r \in ad : r[1] # t },
             new[j].label = new[i].label, new[j].type = new[i].type
      PROVE  i = j
  <2>1. from[i] \in P /\ from[j] \in P /\ from[i] \in DOMAIN gs /\ from[j] \in DOMAIN gs
        /\ from[i] \in Int
      BY <1>2, <1>3
  <2>2. from[i] = from[j]
    <3>1. new[i] = gs[from[i]] /\ new[j] = gs[from[j]] /\ new[i].type # t
        BY <1>2, <1>3
    <3>2. << new[i].type, new[i].label >> \notin ad
        BY <1>6, <3>1
    <3> QED BY <1>6, <2>1, <3>1, <3>2 DEF Remembers
  <2>3. ~ (i < j) /\ ~ (j < i)
      BY <1>2, <2>1, <2>2
  <2>4. i \in Int /\ j \in Int
      BY <1>1
  <2> QED BY <2>3, <2>4
<1>7. Types(new) = Types(gs) \ {t}
  <2>1. \A i \in DOMAIN new : new[i].type \in Types(gs) \ {t}
      BY <1>2, <1>3 DEF Types
  <2>2. \A k \in DOMAIN gs : gs[k].type # t => \E i \in DOMAIN new : new[i].type = gs[k].type
      BY <1>2, <1>4
  <2> QED BY <2>1, <2>2 DEF Types
<1>8. Remembers(new, { r \in as : r[1] # t }, { r \in ad : r[1] # t })
  <2>1. { r \in as : r[1] # t } \cup { r \in ad : r[1] # t } = { r \in as \cup ad : r[1] # t }
      OBVIOUS
  <2> QED BY <1>5, <1>6, <2>1 DEF Remembers
<1> QED BY <1>1, <1>7, <1>8 DEF new

(* The same goals, further on.                                             *)
LEMMA ProgressedGoals ==
    ASSUME NEW gs \in Seq(Goal), NEW as, NEW ad, Remembers(gs, as, ad),
           NEW t, NEW p \in Gains
    PROVE  LET new == [k \in DOMAIN gs |-> Progressed(gs[k], t, p)]
           IN  new \in Seq(Goal) /\ Remembers(new, as, ad) /\ Types(new) = Types(gs)
<1> DEFINE new == [k \in DOMAIN gs |-> Progressed(gs[k], t, p)]
<1>1. Clamped(p) \in 0..100
  <2>1. p \in Int
      BY NumbersAssumption
  <2> QED BY <2>1, ClampedRange
<1>2. ASSUME NEW k \in DOMAIN gs
      PROVE  /\ new[k] \in Goal /\ new[k].type = gs[k].type /\ new[k].label = gs[k].label
  <2>1. gs[k] \in Goal /\ new[k] = Progressed(gs[k], t, p)
      BY GoalFacts
  <2> HIDE DEF new
  <2> QED BY <1>1, <2>1 DEF Progressed, Goal
<1>3. DOMAIN new = DOMAIN gs /\ DOMAIN gs = 1..Len(gs) /\ Len(gs) \in Nat
    OBVIOUS
<1>4. new = [k \in 1..Len(gs) |-> new[k]]
    BY <1>3
<1> HIDE DEF new
<1>5. new \in Seq(Goal)
  <2> DEFINE n == Len(gs)
  <2>1. n \in Nat /\ new = [k \in 1..n |-> new[k]] /\ \A k \in 1..n : new[k] \in Goal
      BY <1>2, <1>3, <1>4
  <2> HIDE DEF n
  <2>2. new \in [1..n -> Goal]
      BY <2>1
  <2> QED BY <2>1, <2>2
<1>6. Remembers(new, as, ad)
  <2>1. \A r \in as \cup ad : \E k \in DOMAIN new : new[k].type = r[1] /\ new[k].label = r[2]
    <3> TAKE r \in as \cup ad
    <3>1. PICK k \in DOMAIN gs : gs[k].type = r[1] /\ gs[k].label = r[2]
        BY DEF Remembers
    <3> QED BY <1>2, <1>3, <3>1
  <2>2. ASSUME NEW k \in DOMAIN new, NEW m \in DOMAIN new, new[k].label # NoLabel,
               << new[k].type, new[k].label >> \notin ad,
               new[m].label = new[k].label, new[m].type = new[k].type
        PROVE  k = m
    <3>1. /\ k \in DOMAIN gs /\ m \in DOMAIN gs
          /\ new[k].type = gs[k].type /\ new[k].label = gs[k].label
          /\ new[m].type = gs[m].type /\ new[m].label = gs[m].label
        BY <1>2, <1>3
    <3> QED BY <2>2, <3>1 DEF Remembers
  <2> QED BY <2>1, <2>2 DEF Remembers
<1>7. Types(new) = Types(gs)
    BY <1>2, <1>3 DEF Types
<1> QED BY <1>5, <1>6, <1>7 DEF new

LEMMA InitGoals == Init => Books /\ Requests /\ GoalsAgree
<1> SUFFICES ASSUME Init
             PROVE  Books /\ Requests /\ GoalsAgree
    OBVIOUS
<1>1. ref \in [Actor -> Ref]
    BY RefsAssumption DEF Init
<1>2. /\ lists \in [Ref -> Seq(GoalType)]
      /\ \A q \in Ref : lists[q] = << >> \/ \E t \in GoalType : lists[q] = << t >>
  <2>1. /\ lists = [q \in Ref |-> lists[q]]
        /\ \A q \in Ref : lists[q] \in { << >> } \cup { << t >> : t \in GoalType }
      BY DEF Init
  <2>2. \A q \in Ref : lists[q] = << >> \/ \E t \in GoalType : lists[q] = << t >>
      BY <2>1
  <2>3. << >> \in Seq(GoalType) /\ \A t \in GoalType : << t >> \in Seq(GoalType)
      OBVIOUS
  <2>4. \A q \in Ref : lists[q] \in Seq(GoalType)
      BY <2>2, <2>3
  <2> QED BY <2>1, <2>2, <2>4
<1>3. ASSUME NEW a \in Actor
      PROVE  /\ goals[a] \in Seq(Goal)
             /\ Types(goals[a]) = Range(lists[ref[a]])
             /\ \A k \in DOMAIN goals[a] : goals[a][k].label = NoLabel
             /\ current[a] \in GoalType \cup {NoGoal}
  <2> DEFINE l == lists[ref[a]]
             g(t) == [type |-> t, priority |-> 50, progress |-> 0, label |-> NoLabel]
  <2>1. goals[a] = [k \in DOMAIN l |-> g(l[k])]
      BY DEF Init
  <2>2. l \in Seq(GoalType) /\ (l = << >> \/ \E t \in GoalType : l = << t >>)
      BY <1>1, <1>2
  <2>3. current[a] = IF l = << >> THEN NoGoal ELSE Head(l)
      BY DEF Init
  <2> HIDE DEF l
  <2>4. \A t \in GoalType : g(t) \in Goal /\ g(t).type = t /\ g(t).label = NoLabel
      BY DEF Goal
  <2> HIDE DEF g
  <2>5. DOMAIN l = 1..Len(l) /\ Len(l) \in Nat /\ \A k \in DOMAIN l : l[k] \in GoalType
      BY <2>2
  <2>6. goals[a] \in Seq(Goal)
    <3> DEFINE n == Len(l)
    <3>1. goals[a] = [k \in 1..n |-> g(l[k])] /\ n \in Nat
          /\ \A k \in 1..n : g(l[k]) \in Goal
        BY <2>1, <2>4, <2>5
    <3> HIDE DEF n
    <3>2. goals[a] \in [1..n -> Goal]
        BY <3>1
    <3> QED BY <3>1, <3>2
  <2>7. \A k \in DOMAIN l : goals[a][k].type = l[k] /\ goals[a][k].label = NoLabel
      BY <2>1, <2>4, <2>5
  <2>8. DOMAIN goals[a] = DOMAIN l
      BY <2>1
  <2>9. Types(goals[a]) = Range(l)
      BY <2>7, <2>8 DEF Types, Range
  <2>10. current[a] \in GoalType \cup {NoGoal}
      BY <2>2, <2>3
  <2> QED BY <2>6, <2>7, <2>8, <2>9, <2>10 DEF l
<1>4. goals \in [Actor -> Seq(Goal)] /\ current \in [Actor -> GoalType \cup {NoGoal}]
  <2>1. /\ goals = [a \in Actor |-> goals[a]]
        /\ current = [a \in Actor |-> current[a]]
      BY DEF Init
  <2>2. goals \in [Actor -> Seq(Goal)]
      BY <1>3, <2>1
  <2>3. current \in [Actor -> GoalType \cup {NoGoal}]
      BY <1>3, <2>1
  <2> QED BY <2>2, <2>3
<1>5. asked = [a \in Actor |-> {}] /\ added = [a \in Actor |-> {}]
    BY DEF Init
<1>6. Books
    BY <1>1, <1>2, <1>4, <1>5 DEF Books
<1>7. Requests
    BY <1>3, <1>5 DEF Requests, Remembers
<1>8. GoalsAgree
    BY <1>3 DEF GoalsAgree, GoalsList
<1> QED BY <1>6, <1>7, <1>8

(* What a call on one actor does: new goals and requests, and the contents *)
(* of the list that it has, or of a list of its own.                       *)
Effect(a, gs, as, ad, q, l) ==
    /\ goals' = [goals EXCEPT ![a] = gs] /\ gs \in Seq(Goal)
    /\ asked' = [asked EXCEPT ![a] = as] /\ as \in SUBSET (GoalType \X Label)
    /\ added' = [added EXCEPT ![a] = ad]
    /\ ad \in SUBSET (GoalType \X (Label \cup {NoLabel}))
    /\ lists' = [lists EXCEPT ![q] = l] /\ l \in Seq(GoalType)
    /\ ref' = [ref EXCEPT ![a] = q] /\ q \in {ref[a], a}
    /\ current' \in [Actor -> GoalType \cup {NoGoal}]
    /\ Remembers(gs, as, ad)
    /\ Range(GoalsList(a)) = Types(goals[a]) => Range(l) = Types(gs)

LEMMA EffectKeeps ==
    ASSUME Books, Requests, NEW a \in Actor, NEW gs, NEW as, NEW ad, NEW q, NEW l,
           Effect(a, gs, as, ad, q, l)
    PROVE  /\ Books' /\ Requests'
           /\ Apart /\ GoalsAgree => Apart' /\ GoalsAgree'
<1>1. /\ gs \in Seq(Goal) /\ as \in SUBSET (GoalType \X Label) /\ l \in Seq(GoalType)
      /\ ad \in SUBSET (GoalType \X (Label \cup {NoLabel}))
      /\ q \in Ref /\ q \in {ref[a], a}
    BY RefsAssumption DEF Effect, Books
<1>2. /\ goals' \in [Actor -> Seq(Goal)] /\ goals'[a] = gs
      /\ asked' \in [Actor -> SUBSET (GoalType \X Label)] /\ asked'[a] = as
      /\ added' \in [Actor -> SUBSET (GoalType \X (Label \cup {NoLabel}))] /\ added'[a] = ad
      /\ lists' \in [Ref -> Seq(GoalType)] /\ lists'[q] = l
      /\ ref' \in [Actor -> Ref] /\ ref'[a] = q
      /\ \A b \in Actor \ {a} : /\ goals'[b] = goals[b] /\ asked'[b] = asked[b]
                                /\ added'[b] = added[b] /\ ref'[b] = ref[b]
      /\ \A p \in Ref \ {q} : lists'[p] = lists[p]
    BY <1>1 DEF Effect, Books
<1>3. Books'
    BY <1>2 DEF Books, Effect
<1>4. Requests'
    BY <1>2 DEF Requests, Effect
<1>5. ASSUME Apart, GoalsAgree
      PROVE  Apart' /\ GoalsAgree'
  <2>1. ASSUME NEW b \in Actor, b # a
        PROVE  ref'[b] = ref[b] /\ ref'[b] # q /\ ref'[b] # a /\ q # b
    <3>1. ref[b] # ref[a] /\ ref[b] # a /\ ref[a] # b
        BY <1>5, <2>1 DEF Apart
    <3>2. ref'[b] = ref[b]
        BY <1>2, <2>1
    <3> QED BY <1>1, <2>1, <3>1, <3>2
  <2>2. Apart'
    <3> SUFFICES ASSUME NEW b \in Actor, NEW c \in Actor, b # c
                 PROVE  ref'[b] # ref'[c] /\ ref'[b] # c
        BY DEF Apart
    <3>1. CASE b = a
        BY <1>2, <2>1, <3>1
    <3>2. CASE c = a
        BY <1>2, <2>1, <3>2
    <3>3. CASE b # a /\ c # a
        BY <1>5, <2>1, <3>3 DEF Apart
    <3> QED BY <3>1, <3>2, <3>3
  <2>3. Range(l) = Types(gs)
      BY <1>5 DEF Effect, GoalsAgree
  <2>4. ASSUME NEW b \in Actor
        PROVE  Range(lists'[ref'[b]]) = Types(goals'[b])
    <3>1. CASE b = a
        BY <1>2, <2>3, <3>1
    <3>2. CASE b # a
      <4>1. ref[b] \in Ref \ {q} /\ ref'[b] = ref[b]
          BY <2>1, <3>2 DEF Books
      <4>2. lists'[ref'[b]] = lists[ref[b]] /\ goals'[b] = goals[b]
          BY <1>2, <3>2, <4>1
      <4> QED BY <1>5, <4>2 DEF GoalsAgree, GoalsList
    <3> QED BY <3>1, <3>2
  <2> QED BY <2>2, <2>4 DEF GoalsAgree, GoalsList
<1> QED BY <1>3, <1>4, <1>5

LEMMA SameList ==
    ASSUME Books, NEW a \in Actor
    PROVE  /\ ref[a] \in Ref /\ GoalsList(a) \in Seq(GoalType)
           /\ goals[a] \in Seq(Goal)
           /\ asked[a] \in SUBSET (GoalType \X Label)
           /\ added[a] \in SUBSET (GoalType \X (Label \cup {NoLabel}))
           /\ goals = [goals EXCEPT ![a] = goals[a]]
           /\ asked = [asked EXCEPT ![a] = asked[a]]
           /\ added = [added EXCEPT ![a] = added[a]]
           /\ lists = [lists EXCEPT ![ref[a]] = lists[ref[a]]]
           /\ ref = [ref EXCEPT ![a] = ref[a]]
BY DEF Books, GoalsList

LEMMA AddEffect ==
    ASSUME Books, Requests, NEW a \in Actor, NEW t \in GoalType, NEW p \in Priorities,
           NEW label \in Label \cup {NoLabel}, AddGoal(a, t, p, label)
    PROVE  /\ \E gs, as, ad, q, l : Effect(a, gs, as, ad, q, l)
           /\ \A b \in Actor : current'[b] # current[b] =>
                 current'[b] \in Types(goals'[b])
<1> DEFINE g == GoalState(t, p, label)
           gs == Append(goals[a], g)
           l == Append(GoalsList(a), t)
           more == {<< t, label >>}
           ad == added[a] \cup more
<1>1. g \in Goal /\ g.type = t /\ g.label = label
  <2> DEFINE every == {5, 30, 50} \cup Priorities
             all == Label \cup {NoLabel}
  <2>1. p \in every /\ label \in all
      OBVIOUS
  <2>2. \A q \in every, n \in all :
           /\ GoalState(t, q, n) \in Goal
           /\ GoalState(t, q, n).type = t /\ GoalState(t, q, n).label = n
      BY NewGoalType
  <2> HIDE DEF every, all
  <2> QED BY <2>1, <2>2
<1>2. Remembers(goals[a], asked[a], added[a])
    BY DEF Requests
<1>3. /\ gs \in Seq(Goal) /\ Remembers(gs, asked[a], ad)
      /\ Types(gs) = Types(goals[a]) \cup {t}
  <2>1. more \in SUBSET {<< g.type, g.label >>} /\ << g.type, g.label >> \in more
      BY <1>1
  <2> HIDE DEF g, more
  <2> QED BY <1>1, <1>2, <2>1, SameList, MoreGoals
<1>4. l \in Seq(GoalType) /\ Range(l) = Range(GoalsList(a)) \cup {t}
    BY SameList, Appended
<1>5. /\ goals' = [goals EXCEPT ![a] = gs] /\ asked' = asked
      /\ added' = [added EXCEPT ![a] = ad]
      /\ lists' = [lists EXCEPT ![ref[a]] = l] /\ ref' = ref
      /\ current' = [current EXCEPT ![a] = IF current[a] = NoGoal THEN t ELSE current[a]]
    BY DEF AddGoal, GoalsList
<1>9. ad \in SUBSET (GoalType \X (Label \cup {NoLabel}))
    BY SameList
<1> HIDE DEF gs, l, ad
<1>6. current' \in [Actor -> GoalType \cup {NoGoal}]
    BY <1>5 DEF Books
<1>7. Effect(a, gs, asked[a], ad, ref[a], l)
    BY <1>3, <1>4, <1>5, <1>6, <1>9, SameList DEF Effect
<1>8. goals'[a] = gs /\ \A b \in Actor : current'[b] # current[b] => b = a /\ current'[b] = t
    BY <1>5 DEF Books
<1> QED BY <1>3, <1>7, <1>8

LEMMA RunEffect ==
    ASSUME Books, Requests, NEW a \in Actor, NEW t \in GoalType, NEW label \in Label,
           Run(a, t, label)
    PROVE  /\ \E gs, as, ad, q, l : Effect(a, gs, as, ad, q, l)
           /\ \A b \in Actor : current'[b] # current[b] =>
                 current'[b] \in Types(goals'[b])
<1> DEFINE known == Tracked(goals[a], t, label)
           noted == AppendNew(GoalsList(a), t)
           g == GoalState(t, InferPriority(label), label)
           gs == IF known THEN goals[a] ELSE Append(goals[a], g)
           l == IF known THEN noted ELSE Append(noted, t)
           as == asked[a] \cup {<< t, label >>}
<1>1. g \in Goal /\ g.type = t /\ g.label = label
  <2>1. InferPriority(label) \in {5, 30, 50} \cup Priorities
      BY DEF InferPriority
  <2>2. label \in Label \cup {NoLabel}
      OBVIOUS
  <2> QED BY <2>1, <2>2, NewGoalType, Zenon
<1>2. Remembers(goals[a], asked[a], added[a])
    BY DEF Requests
<1>3. noted \in Seq(GoalType) /\ Range(noted) = Range(GoalsList(a)) \cup {t}
  <2>1. GoalsList(a) \in Seq(GoalType)
      BY SameList
  <2>2. CASE Contains(GoalsList(a), t)
    <3>1. noted = GoalsList(a) /\ t \in Range(GoalsList(a))
        BY <2>1, <2>2 DEF AppendNew, Contains, Range
    <3> QED BY <2>1, <3>1
  <2>3. CASE ~ Contains(GoalsList(a), t)
      BY <2>1, <2>3, Appended DEF AppendNew
  <2> QED BY <2>2, <2>3
<1>4. l \in Seq(GoalType) /\ Range(l) = Range(GoalsList(a)) \cup {t}
  <2> HIDE DEF noted
  <2>1. Append(noted, t) \in Seq(GoalType) /\ Range(Append(noted, t)) = Range(noted) \cup {t}
      BY <1>3, Appended
  <2> QED BY <1>3, <2>1
<1>5. /\ goals' = [goals EXCEPT ![a] = gs]
      /\ asked' = [asked EXCEPT ![a] = as] /\ added' = added
      /\ lists' = [lists EXCEPT ![ref[a]] = l] /\ ref' = ref
      /\ current' = [current EXCEPT ![a] = t]
    BY SameList DEF Run
<1>6. /\ gs \in Seq(Goal) /\ Remembers(gs, asked[a], added[a]) /\ Tracked(gs, t, label)
      /\ Types(gs) = Types(goals[a]) \cup {t}
  <2> HIDE DEF g
  <2>1. CASE known
    <3>1. t \in Types(goals[a])
        BY <2>1 DEF Tracked, Types
    <3> QED BY <1>2, <2>1, <3>1, SameList
  <2>2. CASE ~ known
    <3> DEFINE as0 == asked[a]
               ad == added[a]
               more == {}
    <3>1. more \in SUBSET {<< g.type, g.label >>} /\ ad \cup more = ad
        OBVIOUS
    <3>2. Remembers(goals[a], as0, ad) /\ goals[a] \in Seq(Goal)
        BY <1>2, SameList
    <3>3. ~ Tracked(goals[a], g.type, g.label)
        BY <1>1, <2>2
    <3> HIDE DEF as0, ad, more, known
    <3>4. /\ Append(goals[a], g) \in Seq(Goal)
          /\ Remembers(Append(goals[a], g), as0, ad \cup more)
          /\ Tracked(Append(goals[a], g), g.type, g.label)
          /\ Types(Append(goals[a], g)) = Types(goals[a]) \cup {g.type}
        BY <1>1, <3>1, <3>2, <3>3, MoreGoals
    <3> QED BY <1>1, <2>2, <3>1, <3>4 DEF as0, ad
  <2> QED BY <2>1, <2>2
<1> HIDE DEF known, noted, g, gs, l
<1>7. Remembers(gs, as, added[a])
    BY <1>6 DEF Remembers, Tracked
<1>8. as \in SUBSET (GoalType \X Label)
    BY SameList
<1> HIDE DEF as
<1>9. current' \in [Actor -> GoalType \cup {NoGoal}]
    BY <1>5 DEF Books
<1>10. Effect(a, gs, as, added[a], ref[a], l)
    BY <1>4, <1>5, <1>6, <1>7, <1>8, <1>9, SameList DEF Effect
<1>11. goals'[a] = gs /\ \A b \in Actor : current'[b] # current[b] => b = a /\ current'[b] = t
    BY <1>5 DEF Books
<1> QED BY <1>6, <1>10, <1>11

LEMMA RemoveEffect ==
    ASSUME Books, Requests, NEW a \in Actor, NEW t \in GoalType, RemoveGoal(a, t)
    PROVE  /\ \E gs, as, ad, q, l : Effect(a, gs, as, ad, q, l)
           /\ Range(GoalsList(a)) = Types(goals[a]) =>
                 \A b \in Actor : current'[b] # current[b] =>
                    current'[b] \in Types(goals'[b]) \cup {NoGoal}
<1> DEFINE gs == GoalsWithout(goals[a], t)
           l == WithoutType(GoalsList(a), t)
           as == { r \in asked[a] : r[1] # t }
           ad == { r \in added[a] : r[1] # t }
<1>1. Remembers(goals[a], asked[a], added[a])
    BY DEF Requests
<1>2. /\ gs \in Seq(Goal) /\ Remembers(gs, as, ad) /\ Types(gs) = Types(goals[a]) \ {t}
  <2> DEFINE old == goals[a]
             ask == asked[a]
             add == added[a]
  <2>1. old \in Seq(Goal) /\ Remembers(old, ask, add)
      BY <1>1, SameList
  <2> HIDE DEF old, ask, add
  <2>2. /\ GoalsWithout(old, t) \in Seq(Goal)
        /\ Remembers(GoalsWithout(old, t), { r \in ask : r[1] # t }, { r \in add : r[1] # t })
        /\ Types(GoalsWithout(old, t)) = Types(old) \ {t}
      BY <2>1, FewerGoals
  <2> QED BY <2>2 DEF old, ask, add
<1>3. l \in Seq(GoalType) /\ Range(l) = Range(GoalsList(a)) \ {t}
  <2> DEFINE s == GoalsList(a)
             P == { k \in DOMAIN s : s[k] # t }
  <2>1. s \in Seq(GoalType)
      BY SameList
  <2>2. l = Kept(s, P)
      BY DEF WithoutType
  <2> HIDE DEF s, l
  <2>3. l \in Seq(GoalType) /\ Range(l) = { s[k] : k \in P }
    <3>1. P \in SUBSET (DOMAIN s)
        OBVIOUS
    <3> HIDE DEF P
    <3> QED BY <2>1, <2>2, <3>1, KeptSelects, KeptRange
  <2>4. { s[k] : k \in P } = Range(s) \ {t}
      BY DEF Range
  <2> QED BY <2>3, <2>4 DEF s
<1>4. /\ goals' = [goals EXCEPT ![a] = gs]
      /\ asked' = [asked EXCEPT ![a] = as] /\ added' = [added EXCEPT ![a] = ad]
      /\ lists' = [lists EXCEPT ![a] = l]
      /\ ref' = [ref EXCEPT ![a] = a]
      /\ current' = [current EXCEPT ![a] =
             IF current[a] # t THEN current[a] ELSE IF l = << >> THEN NoGoal ELSE Head(l)]
    BY DEF RemoveGoal
<1> HIDE DEF gs, l
<1>5. l # << >> => Head(l) \in GoalType /\ Head(l) \in Range(l)
    BY <1>3 DEF Range
<1>6. current' \in [Actor -> GoalType \cup {NoGoal}]
  <2> DEFINE c == IF current[a] # t THEN current[a]
                  ELSE IF l = << >> THEN NoGoal ELSE Head(l)
  <2>1. c \in GoalType \cup {NoGoal}
      BY <1>5 DEF Books
  <2>2. current' = [current EXCEPT ![a] = c]
      BY <1>4
  <2> HIDE DEF c
  <2> QED BY <2>1, <2>2 DEF Books
<1>7. as \in SUBSET (GoalType \X Label) /\ ad \in SUBSET (GoalType \X (Label \cup {NoLabel}))
    BY SameList
<1> HIDE DEF as, ad
<1>8. Effect(a, gs, as, ad, a, l)
    BY <1>2, <1>3, <1>4, <1>6, <1>7 DEF Effect
<1>9. ASSUME Range(GoalsList(a)) = Types(goals[a]),
             NEW b \in Actor, current'[b] # current[b]
      PROVE  current'[b] \in Types(goals'[b]) \cup {NoGoal}
  <2>1. b = a /\ current'[a] = IF l = << >> THEN NoGoal ELSE Head(l)
      BY <1>4, <1>9 DEF Books
  <2>2. goals'[a] = gs
      BY <1>4 DEF Books
  <2> QED BY <1>2, <1>3, <1>5, <1>9, <2>1, <2>2
<1> QED BY <1>8, <1>9

LEMMA ProgressEffect ==
    ASSUME Books, Requests, NEW a \in Actor, NEW t \in GoalType, NEW p \in Gains,
           UpdateProgress(a, t, p)
    PROVE  \E gs, as, ad, q, l : Effect(a, gs, as, ad, q, l)
<1> DEFINE gs == [k \in DOMAIN goals[a] |-> Progressed(goals[a][k], t, p)]
<1>1. Remembers(goals[a], asked[a], added[a])
    BY DEF Requests
<1>2. gs \in Seq(Goal) /\ Remembers(gs, asked[a], added[a]) /\ Types(gs) = Types(goals[a])
  <2> DEFINE old == goals[a]
             ask == asked[a]
             add == added[a]
             new == [k \in DOMAIN old |-> Progressed(old[k], t, p)]
  <2>1. old \in Seq(Goal) /\ Remembers(old, ask, add)
      BY <1>1, SameList
  <2> HIDE DEF old, ask, add
  <2>2. new \in Seq(Goal) /\ Remembers(new, ask, add) /\ Types(new) = Types(old)
      BY <2>1, ProgressedGoals
  <2> QED BY <2>2 DEF old, ask, add
<1>3. /\ goals' = [goals EXCEPT ![a] = gs]
      /\ asked' = asked /\ added' = added
      /\ lists' = lists /\ ref' = ref /\ current' = current
    BY DEF UpdateProgress, requests
<1> HIDE DEF gs
<1>4. Effect(a, gs, asked[a], added[a], ref[a], GoalsList(a))
  <2>1. current' \in [Actor -> GoalType \cup {NoGoal}]
      BY <1>3 DEF Books
  <2>2. lists' = [lists EXCEPT ![ref[a]] = GoalsList(a)]
      BY <1>3, SameList DEF GoalsList
  <2> QED BY <1>2, <1>3, <2>1, <2>2, SameList DEF Effect
<1> QED BY <1>4

LEMMA NextGoals ==
    ASSUME Books, Requests, [Next]_vars
    PROVE  /\ Books' /\ Requests'
           /\ Apart /\ GoalsAgree => Apart' /\ GoalsAgree'
<1>1. CASE \E a \in Actor : \E gs, as, ad, q, l : Effect(a, gs, as, ad, q, l)
    BY <1>1, EffectKeeps
<1>2. CASE UNCHANGED goalVars
    BY <1>2 DEF goalVars, requests, Books, Requests, Apart, GoalsAgree, GoalsList
<1>3. CASE Choose
  <2>1. /\ UNCHANGED << goals, lists, ref, asked, added >>
        /\ current' \in [Actor -> GoalType \cup {NoGoal}]
      BY <1>3 DEF Choose, SetGoal, Books, requests
  <2> QED BY <2>1 DEF Books, Requests, Apart, GoalsAgree, GoalsList
<1>4. CASE Pursue
  <2>1. \E a \in Actor : \E gs, as, ad, q, l : Effect(a, gs, as, ad, q, l)
      BY <1>4, AddEffect, RunEffect, RemoveEffect, ProgressEffect DEF Pursue
  <2> QED BY <1>1, <2>1
<1>5. CASE Believe \/ Cycle \/ UNCHANGED vars
  <2>1. UNCHANGED goalVars
      BY <1>5 DEF Believe, Cycle, Tick, AddBelief, vars, goalVars, requests
  <2> QED BY <1>2, <2>1
<1> QED BY <1>3, <1>4, <1>5 DEF Next

(* A request is tracked until goals of its type are removed, however many  *)
(* others have the same type, and by one goal if only run() made it.       *)
THEOREM RequestsAreTracked == Spec => []RequestsTracked
<1>1. Init => Books /\ Requests
    BY InitGoals
<1>2. Books /\ Requests /\ [Next]_vars => Books' /\ Requests'
    BY NextGoals
<1>3. Books /\ Requests => RequestsTracked
  <2> SUFFICES ASSUME Books, Requests, NEW a \in Actor
               PROVE  /\ \A r \in asked[a] \cup added[a] : TracksOf(a, r) # {}
                      /\ \A r \in asked[a] \ added[a] : \A k, m \in TracksOf(a, r) : k = m
      BY DEF RequestsTracked
  <2>1. Remembers(goals[a], asked[a], added[a])
      BY DEF Requests
  <2>2. ASSUME NEW r \in asked[a] \cup added[a]
        PROVE  TracksOf(a, r) # {}
      BY <2>1 DEF Remembers, TracksOf
  <2>3. ASSUME NEW r \in asked[a] \ added[a],
               NEW k \in TracksOf(a, r), NEW m \in TracksOf(a, r)
        PROVE  k = m
    <3>1. r = << r[1], r[2] >> /\ r[2] \in Label
      <4>1. r \in GoalType \X Label
          BY DEF Books
      <4> QED BY <4>1
    <3>2. r[2] # NoLabel
        BY <3>1, NamesAssumption
    <3>3. /\ k \in DOMAIN goals[a] /\ goals[a][k].type = r[1] /\ goals[a][k].label = r[2]
          /\ m \in DOMAIN goals[a] /\ goals[a][m].type = r[1] /\ goals[a][m].label = r[2]
        BY DEF TracksOf
    <3>4. << goals[a][k].type, goals[a][k].label >> \notin added[a]
        BY <3>1, <3>3
    <3> QED BY <2>1, <3>2, <3>3, <3>4 DEF Remembers
  <2> QED BY <2>2, <2>3
<1> QED BY <1>1, <1>2, <1>3, PTL DEF Spec

(* The fields keep the types and ranges that actor.py gives them, whatever *)
(* lists the actors are constructed with.                                  *)
THEOREM FieldsKeepTheirTypes == Spec => []TypeOK
<1>1. Spec => []Books
  <2>1. Init => Books /\ Requests
      BY InitGoals
  <2>2. Books /\ Requests /\ [Next]_vars => Books' /\ Requests'
      BY NextGoals
  <2> QED BY <2>1, <2>2, PTL DEF Spec
<1>2. Minds /\ Books => TypeOK
  <2> SUFFICES ASSUME Minds, Books
               PROVE  TypeOK
      OBVIOUS
  <2>1. Telling \subseteq [value : Value \cup {NoLabel}, confidence : Int, cycles : Nat]
    <3>1. /\ \A c \in Told \cup {0} : c \in Int
          /\ \A n \in 0..MaxCycles : n \in Nat
        BY NumbersAssumption
    <3> QED BY <3>1 DEF Telling
  <2>2. told \in [Actor -> [Aspect -> Telling]]
      BY DEF Minds
  <2> DEFINE T == [value : Value \cup {NoLabel}, confidence : Int, cycles : Nat]
  <2> HIDE DEF T
  <2>3. told \in [Actor -> [Aspect -> T]]
      BY <2>1, <2>2 DEF T
  <2> QED BY <2>3 DEF TypeOK, Minds, Books, T
<1> QED BY <1>1, <1>2, MindsStayFaithful, PTL

LEMMA InitApart == OwnLists /\ Init => Apart
<1> SUFFICES ASSUME OwnLists, Init
             PROVE  Apart
    OBVIOUS
<1>1. ref \in Refs /\ \A a, b \in Actor : ref[a] = ref[b] => a = b
    BY DEF Init, OwnLists
<1>2. ASSUME NEW a \in Actor, NEW b \in Actor, a # b
      PROVE  ref[a] # b
  <2>1. ref[a] # a => lists[ref[a]] # << >>
      BY DEF Init
  <2>2. lists[b] = << >>
      BY DEF Init
  <2> QED BY <1>2, <2>1, <2>2
<1> QED BY <1>1, <1>2 DEF Apart

LEMMA GoalsAlwaysAgree ==
    ASSUME OwnLists
    PROVE  Spec => [](Books /\ Requests /\ Apart /\ GoalsAgree)
<1> DEFINE Inv == Books /\ Requests /\ Apart /\ GoalsAgree
<1>1. Init => Inv
    BY InitGoals, InitApart
<1>2. Inv /\ [Next]_vars => Inv'
    BY NextGoals
<1> QED BY <1>1, <1>2, PTL DEF Spec

(* _goal_states and _goals name the same goals, through every add_goal,    *)
(* remove_goal and run(), for actors whose lists are their own.            *)
THEOREM BothGoalListsAgree ==
    ASSUME OwnLists
    PROVE  Spec => []GoalsAgree
BY GoalsAlwaysAgree, PTL

(* When a call other than set_goal() changes the current goal, it becomes  *)
(* a goal that the actor pursues, or none.                                 *)
THEOREM CurrentGoalIsPursued ==
    ASSUME OwnLists
    PROVE  Spec => CurrentIsPursued
<1> DEFINE Step == \A a \in Actor :
                      current'[a] # current[a] =>
                          current'[a] \in Types(goals'[a]) \cup {NoGoal} \/ Choose
<1>1. Books /\ Requests /\ GoalsAgree /\ [Next]_vars => [Step]_vars
  <2> SUFFICES ASSUME Books, Requests, GoalsAgree, Next
               PROVE  Step
      OBVIOUS
  <2>1. CASE Pursue
    <3> USE <2>1 DEF Pursue
    <3> SUFFICES ASSUME NEW a \in Actor, NEW t \in GoalType,
                        \/ \E p \in Priorities, l \in Label \cup {NoLabel} : AddGoal(a, t, p, l)
                        \/ \E l \in Label : Run(a, t, l)
                        \/ RemoveGoal(a, t)
                        \/ \E p \in Gains : UpdateProgress(a, t, p)
                 PROVE  Step
        OBVIOUS
    <3>1. CASE \/ \E p \in Priorities, l \in Label \cup {NoLabel} : AddGoal(a, t, p, l)
               \/ \E l \in Label : Run(a, t, l)
        BY <3>1, AddEffect, RunEffect
    <3>2. CASE RemoveGoal(a, t)
        BY <3>2, RemoveEffect DEF GoalsAgree
    <3>3. CASE \E p \in Gains : UpdateProgress(a, t, p)
        BY <3>3 DEF UpdateProgress
    <3> QED BY <3>1, <3>2, <3>3
  <2>2. CASE Believe \/ Cycle
    <3>1. current' = current
        BY <2>2 DEF Believe, Cycle, AddBelief, Tick, goalVars
    <3> QED BY <3>1
  <2>3. CASE Choose
      BY <2>3
  <2> QED BY <2>1, <2>2, <2>3 DEF Next
<1>2. Spec => [](Books /\ Requests /\ Apart /\ GoalsAgree)
    BY GoalsAlwaysAgree
<1>3. Spec => [][Step]_vars
    BY <1>1, <1>2, PTL DEF Spec
<1> QED BY <1>3 DEF CurrentIsPursued

=============================================================================
