--------------------------- MODULE Society_proofs ---------------------------
(***************************************************************************)
(* Proofs about Society, for every set of actors, affiliations, targets,   *)
(* levels and outcomes, and every limit of the local message bus.          *)
(***************************************************************************)
EXTENDS Society, Lemmas

-----------------------------------------------------------------------------
(* Levels and places.                                                      *)

(* Whatever is asked for, a level of trust is in [0, 1].                   *)
LEMMA ClampedLevel ==
    ASSUME NEW x \in Int
    PROVE  Clamped(x) \in Level
BY DEF Clamped, Level

LEMMA TrustLevel ==
    ASSUME NEW known \in Trusts, NEW t \in Target
    PROVE  TrustIn(known, t) \in Level
<1>1. known[t] \in Level \cup {Unset} /\ 50 \in Level
    BY DEF Trusts, Level
<1> QED BY <1>1 DEF TrustIn

(* An outcome moves trust by a whole number of hundredths.                 *)
LEMMA DeltaNumber ==
    ASSUME NEW o \in Outcomes
    PROVE  Delta(o) \in Int
<1>1. Weight(o) \in Int
    BY DEF Weight
<1>2. Advice(o) \in {-12, 0, 5}
    BY DEF Advice
<1>3. Duty(o) \in {-15, 0, 3}
    BY DEF Duty
<1>4. Advice(o) + Duty(o) \in Int
    BY <1>2, <1>3
<1> QED BY <1>1, <1>4 DEF Delta

Row == [id : Affil, target : Target, level : Int]

LEMMA PlaceThere ==
    ASSUME NEW rows, NEW i, Has(rows, i)
    PROVE  Place(rows, i) \in DOMAIN rows /\ rows[Place(rows, i)].id = i
BY DEF Has, Place

(* One row of the dict replaced, added, and taken out.                     *)
LEMMA RowReplaced ==
    ASSUME NEW rows \in Seq(Row), NEW k \in DOMAIN rows, NEW r \in Row
    PROVE  [rows EXCEPT ![k] = r] \in Seq(Row)
<1>2. DOMAIN rows = 1..Len(rows) /\ Len(rows) \in Nat /\ \A m \in 1..Len(rows) : rows[m] \in Row
    OBVIOUS
<1> DEFINE n == Len(rows)
           new == [rows EXCEPT ![k] = r]
<1>3. new = [m \in 1..n |-> new[m]] /\ \A m \in 1..n : new[m] \in Row
    BY <1>2
<1> HIDE DEF new, n
<1>4. n \in Nat
    BY <1>2 DEF n
<1>5. new \in [1..n -> Row]
    BY <1>3
<1>6. new \in Seq(Row)
    BY <1>4, <1>5
<1> QED BY <1>6 DEF new

LEMMA RowAdded ==
    ASSUME NEW rows \in Seq(Row), NEW r \in Row
    PROVE  Put(rows, r) \in Seq(Row)
<1>1. CASE Has(rows, r.id)
    BY <1>1, PlaceThere, RowReplaced DEF Put
<1>2. CASE ~ Has(rows, r.id)
  <2>1. Append(rows, r) \in Seq(Row)
      OBVIOUS
  <2> QED BY <1>2, <2>1 DEF Put
<1> QED BY <1>1, <1>2

LEMMA RowRemoved ==
    ASSUME NEW rows \in Seq(Row), NEW k \in DOMAIN rows
    PROVE  RemoveAt(rows, k) \in Seq(Row)
<1>2. k \in Int /\ 1 <= k /\ k <= Len(rows) /\ Len(rows) \in Nat
    OBVIOUS
<1>3. SubSeq(rows, 1, k - 1) \in Seq(Row)
    BY <1>2
<1>4. SubSeq(rows, k + 1, Len(rows)) \in Seq(Row)
    BY <1>2
<1>5. SubSeq(rows, 1, k - 1) \o SubSeq(rows, k + 1, Len(rows)) \in Seq(Row)
    BY <1>3, <1>4
<1> QED BY <1>5 DEF RemoveAt

(* from_dict() gives everybody a level, or leaves them unknown.            *)
LEMMA LoadedLevel ==
    ASSUME NEW rows \in Seq(Row), NEW t, NEW l \in Level \cup {Unset}
    PROVE  LoadedTrust(rows, t, l) \in Level \cup {Unset}
<1> DEFINE P == { k \in DOMAIN rows : rows[k].target = t }
           ours == Kept(rows, P)
<1>1. P \in SUBSET DOMAIN rows
    OBVIOUS
<1>2. ours \in Seq(Row)
  <2> HIDE DEF P
  <2> QED BY <1>1, KeptSelects
<1>3. Added(rows, t) = IF ours = << >> THEN Unset ELSE Clamped(Last(ours).level)
    BY DEF Added
<1> HIDE DEF ours
<1>4. ASSUME ours # << >>
      PROVE  Clamped(Last(ours).level) \in Level
  <2>1. Len(ours) \in DOMAIN ours /\ ours[Len(ours)] \in Row
      BY <1>2, <1>4
  <2>2. Last(ours).level \in Int
      BY <2>1 DEF Last, Row
  <2> QED BY <2>2, ClampedLevel
<1> QED BY <1>3, <1>4 DEF LoadedTrust

-----------------------------------------------------------------------------
(* Affiliations and trust.                                                 *)

Minded ==
    /\ affil \in [Actor -> Seq(Row)]
    /\ trust \in [Actor -> Trusts]
    /\ saved \in [Actor -> [affil : Seq(Row), trust : Trusts] \cup {NoSave}]
    /\ edits \in 0..MaxEdits

(* Trust in one target becomes another level.                              *)
LEMMA LevelSet ==
    ASSUME trust \in [Actor -> Trusts], NEW a \in Actor, NEW t \in Target,
           NEW l \in Level, trust' = [trust EXCEPT ![a][t] = l]
    PROVE  trust' \in [Actor -> Trusts]
<1> DEFINE new == [trust[a] EXCEPT ![t] = l]
<1>1. new \in Trusts
    BY DEF Trusts
<1>2. trust' = [trust EXCEPT ![a] = new]
    OBVIOUS
<1> HIDE DEF new
<1> QED BY <1>1, <1>2

LEMMA RowsSet ==
    ASSUME affil \in [Actor -> Seq(Row)], NEW a \in Actor, NEW rows \in Seq(Row),
           affil' = [affil EXCEPT ![a] = rows]
    PROVE  affil' \in [Actor -> Seq(Row)]
OBVIOUS

LEMMA ManageMinded ==
    ASSUME Minded, NEW a \in Actor, Manage(a) \/ Learn(a)
    PROVE  Minded' /\ UNCHANGED messageVars
<1>1. /\ affil[a] \in Seq(Row) /\ trust[a] \in Trusts
      /\ saved[a] # NoSave => /\ saved[a].affil \in Seq(Row)
                              /\ saved[a].trust \in Trusts
    BY DEF Minded
<1>2. Edit => edits' \in 0..MaxEdits /\ UNCHANGED messageVars
    BY BoundsAssumption DEF Edit, Minded
<1>3. ASSUME NEW i \in Affil, NEW t \in Target, NEW l \in Levels, Add(a, i, t, l)
      PROVE  Minded' /\ UNCHANGED messageVars
  <2> DEFINE r == [id |-> i, target |-> t, level |-> l]
             rows == Put(affil[a], r)
  <2>1. r \in Row /\ l \in Int
      BY LevelsAssumption DEF Row
  <2> HIDE DEF r
  <2>2. rows \in Seq(Row) /\ Clamped(l) \in Level
      BY <1>1, <2>1, RowAdded, ClampedLevel
  <2>3. /\ affil' = [affil EXCEPT ![a] = rows]
        /\ trust' = [trust EXCEPT ![a][t] = Clamped(l)]
        /\ saved' = saved /\ Edit
      BY <1>3 DEF Add, r
  <2> HIDE DEF rows
  <2> QED BY <1>2, <2>2, <2>3, RowsSet, LevelSet DEF Minded
<1>4. ASSUME NEW i \in Affil, NEW t \in Target, Retarget(a, i, t)
      PROVE  Minded' /\ UNCHANGED messageVars
  <2> DEFINE k == Place(affil[a], i)
             r == [affil[a][k] EXCEPT !.target = t]
             rows == [affil[a] EXCEPT ![k] = r]
  <2>1. k \in DOMAIN affil[a]
      BY <1>4, PlaceThere DEF Retarget
  <2>2. /\ affil' = [affil EXCEPT ![a] = rows]
        /\ trust' = trust /\ saved' = saved /\ Edit
      BY <1>4 DEF Retarget
  <2> HIDE DEF k
  <2>3. affil[a][k] \in Row
      BY <1>1, <2>1
  <2>4. r \in Row
      BY <2>3 DEF Row
  <2> HIDE DEF r
  <2>5. rows \in Seq(Row)
      BY <1>1, <2>1, <2>4, RowReplaced
  <2> HIDE DEF rows
  <2> QED BY <1>2, <2>2, <2>5, RowsSet DEF Minded
<1>5. ASSUME NEW i \in Affil, NEW l \in Levels, Relevel(a, i, l)
      PROVE  Minded' /\ UNCHANGED messageVars
  <2> DEFINE k == Place(affil[a], i)
             t == affil[a][k].target
             r == [affil[a][k] EXCEPT !.level = l]
             rows == [affil[a] EXCEPT ![k] = r]
  <2>1. k \in DOMAIN affil[a]
      BY <1>5, PlaceThere DEF Relevel
  <2>2. /\ affil' = [affil EXCEPT ![a] = rows]
        /\ trust' = [trust EXCEPT ![a][t] = Clamped(l)]
        /\ saved' = saved /\ Edit
      BY <1>5 DEF Relevel
  <2> HIDE DEF k
  <2>3. affil[a][k] \in Row /\ l \in Int
      BY <1>1, <2>1, LevelsAssumption
  <2>4. r \in Row /\ t \in Target
      BY <2>3 DEF Row
  <2> HIDE DEF r, t
  <2>5. rows \in Seq(Row) /\ Clamped(l) \in Level
      BY <1>1, <2>1, <2>3, <2>4, RowReplaced, ClampedLevel
  <2> HIDE DEF rows
  <2> QED BY <1>2, <2>2, <2>4, <2>5, RowsSet, LevelSet DEF Minded
<1>6. ASSUME NEW i \in Affil, Drop(a, i)
      PROVE  Minded' /\ UNCHANGED messageVars
  <2> DEFINE k == Place(affil[a], i)
             rows == RemoveAt(affil[a], k)
  <2>1. k \in DOMAIN affil[a]
      BY <1>6, PlaceThere DEF Drop
  <2>2. /\ affil' = [affil EXCEPT ![a] = rows]
        /\ trust' = trust /\ saved' = saved /\ Edit
      BY <1>6 DEF Drop
  <2> HIDE DEF k
  <2>3. rows \in Seq(Row)
      BY <1>1, <2>1, RowRemoved
  <2> HIDE DEF rows
  <2> QED BY <1>2, <2>2, <2>3, RowsSet DEF Minded
<1>7. ASSUME NEW t \in Target, NEW l \in Levels, SetTrust(a, t, l)
      PROVE  Minded' /\ UNCHANGED messageVars
  <2>1. Clamped(l) \in Level
      BY LevelsAssumption, ClampedLevel
  <2> QED BY <1>2, <1>7, <2>1, LevelSet DEF SetTrust, Minded
<1>8. CASE Save(a)
  <2>1. [affil |-> affil[a], trust |-> trust[a]] \in [affil : Seq(Row), trust : Trusts]
      BY <1>1
  <2> QED BY <1>2, <1>8, <2>1 DEF Save, Minded
<1>9. CASE Load(a)
  <2> DEFINE rows == saved[a].affil
             new == [t \in Target |-> LoadedTrust(rows, t, saved[a].trust[t])]
  <2>1. rows \in Seq(Row) /\ saved[a].trust \in Trusts
      BY <1>1, <1>9 DEF Load
  <2>2. /\ affil' = [affil EXCEPT ![a] = rows]
        /\ trust' = [trust EXCEPT ![a] = new]
        /\ saved' = saved /\ Edit
      BY <1>9 DEF Load
  <2> HIDE DEF rows
  <2>3. \A t \in Target : LoadedTrust(rows, t, saved[a].trust[t]) \in Level \cup {Unset}
      BY <2>1, LoadedLevel DEF Trusts
  <2>4. new \in Trusts
      BY <2>3 DEF Trusts
  <2> HIDE DEF new
  <2>5. affil' \in [Actor -> Seq(Row)] /\ trust' \in [Actor -> Trusts]
      BY <2>1, <2>2, <2>4 DEF Minded
  <2> QED BY <1>2, <2>2, <2>5 DEF Minded
<1>10. ASSUME NEW t \in Target, NEW o \in Outcomes, Outcome(a, t, o)
       PROVE  Minded' /\ UNCHANGED messageVars
  <2> DEFINE l == Clamped(TrustIn(trust[a], t) + Delta(o))
  <2>1. l \in Level
    <3> DEFINE now == TrustIn(trust[a], t)
               more == Delta(o)
    <3>1. now \in Level /\ more \in Int
        BY <1>1, TrustLevel, DeltaNumber
    <3> HIDE DEF now, more
    <3>2. now + more \in Int
        BY <3>1 DEF Level
    <3> QED BY <3>2, ClampedLevel DEF now, more
  <2>2. trust' = [trust EXCEPT ![a][t] = l] /\ affil' = affil /\ saved' = saved /\ Edit
      BY <1>10 DEF Outcome
  <2> HIDE DEF l
  <2> QED BY <1>2, <2>1, <2>2, LevelSet DEF Minded
<1> QED BY <1>3, <1>4, <1>5, <1>6, <1>7, <1>8, <1>9, <1>10 DEF Manage, Learn

-----------------------------------------------------------------------------
(* What an actor trusts rests on its affiliations.                         *)

(* No affiliation is there twice, and the trust in the target of each one  *)
(* is known unless update() gave it that target.                           *)
Separate(rows) ==
    \A k, m \in DOMAIN rows : rows[k].id = rows[m].id => k = m

Known(rows, mv, tr) ==
    \A k \in DOMAIN rows : rows[k].id \notin mv => tr[rows[k].target] # Unset

Founded ==
    /\ moved \in [Actor -> SUBSET Affil]
    /\ \A a \in Actor : Separate(affil[a]) /\ Known(affil[a], moved[a], trust[a])
    /\ \A a \in Actor : saved[a] # NoSave => Separate(saved[a].affil)

(* Nobody that was known is unknown again.                                 *)
Grows(tr, new) == \A t \in Target : tr[t] # Unset => new[t] # Unset

(* A row in the place of one with its identity, at the end, and one fewer: *)
(* the others keep their trust.                                            *)
LEMMA FoundedReplaced ==
    ASSUME NEW rows \in Seq(Row), NEW k \in DOMAIN rows, NEW r \in Row,
           NEW mv, NEW mv2, NEW tr, NEW tr2,
           Separate(rows), Known(rows, mv, tr), Grows(tr, tr2),
           r.id = rows[k].id, mv \ {r.id} \subseteq mv2,
           r.id \in mv2 \/ tr2[r.target] # Unset
    PROVE  /\ Separate([rows EXCEPT ![k] = r])
           /\ Known([rows EXCEPT ![k] = r], mv2, tr2)
<1> DEFINE new == [rows EXCEPT ![k] = r]
<1>1. /\ DOMAIN new = DOMAIN rows /\ new[k] = r
      /\ \A m \in DOMAIN rows : m # k => new[m] = rows[m]
      /\ \A m \in DOMAIN rows : rows[m] \in Row
    OBVIOUS
<1> HIDE DEF new
<1>2. \A m \in DOMAIN rows : new[m].id = rows[m].id
    BY <1>1
<1>3. Separate(new)
    BY <1>1, <1>2 DEF Separate
<1>4. ASSUME NEW m \in DOMAIN rows, new[m].id \notin mv2
      PROVE  tr2[new[m].target] # Unset
  <2>1. CASE m = k
      BY <1>1, <1>4, <2>1
  <2>2. CASE m # k
    <3>1. new[m] = rows[m] /\ rows[m].id # r.id /\ rows[m].target \in Target
        BY <1>1, <2>2 DEF Separate, Row
    <3>2. rows[m].id \notin mv
        BY <1>4, <3>1
    <3> QED BY <3>1, <3>2 DEF Known, Grows
  <2> QED BY <2>1, <2>2
<1> QED BY <1>1, <1>3, <1>4 DEF Known, new

(* A row added with its trust keeps the others apart and known, too.       *)
LEMMA FoundedPut ==
    ASSUME NEW rows \in Seq(Row), NEW r \in Row,
           NEW mv, NEW mv2, NEW tr, NEW tr2,
           Separate(rows), Known(rows, mv, tr), Grows(tr, tr2),
           mv \ {r.id} \subseteq mv2, tr2[r.target] # Unset
    PROVE  Separate(Put(rows, r)) /\ Known(Put(rows, r), mv2, tr2)
<1>1. CASE Has(rows, r.id)
  <2> DEFINE k == Place(rows, r.id)
  <2>1. k \in DOMAIN rows /\ rows[k].id = r.id
      BY <1>1, PlaceThere
  <2>2. Put(rows, r) = [rows EXCEPT ![k] = r]
      BY <1>1 DEF Put
  <2> HIDE DEF k
  <2>3. /\ Separate([rows EXCEPT ![k] = r])
        /\ Known([rows EXCEPT ![k] = r], mv2, tr2)
      BY <2>1, FoundedReplaced, Zenon
  <2> QED BY <2>2, <2>3
<1>2. CASE ~ Has(rows, r.id)
  <2> DEFINE new == Append(rows, r)
             n == Len(rows)
  <2>1. /\ n \in Nat /\ DOMAIN rows = 1..n /\ DOMAIN new = 1..(n + 1)
        /\ \A m \in 1..n : new[m] = rows[m]
        /\ new[n + 1] = r
      BY Appended
  <2>2. \A m \in 1..n : rows[m].id # r.id /\ rows[m].target \in Target
    <3>1. \A m \in 1..n : rows[m] \in Row
        BY <2>1
    <3>2. \A m \in 1..n : rows[m].target \in Target
        BY <3>1 DEF Row
    <3>3. \A m \in 1..n : rows[m].id # r.id
        BY <1>2, <2>1 DEF Has
    <3> QED BY <3>2, <3>3
  <2>3. \A m \in 1..(n + 1) : m \in 1..n \/ m = n + 1
      BY <2>1
  <2>4. Put(rows, r) = new
      BY <1>2 DEF Put
  <2> HIDE DEF new, n
  <2>5. Separate(new)
      BY <2>1, <2>2, <2>3 DEF Separate
  <2>6. ASSUME NEW m \in 1..(n + 1), new[m].id \notin mv2
        PROVE  tr2[new[m].target] # Unset
    <3>1. CASE m = n + 1
        BY <2>1, <3>1
    <3>2. CASE m \in 1..n
      <4>1. rows[m].id \notin mv
          BY <2>1, <2>2, <2>6, <3>2
      <4> QED BY <2>1, <2>2, <3>2, <4>1 DEF Known, Grows
    <3> QED BY <2>3, <3>1, <3>2
  <2> QED BY <2>1, <2>4, <2>5, <2>6 DEF Known
<1> QED BY <1>1, <1>2

(* Where the elements of a concatenation are.                              *)
LEMMA JoinedPlaces ==
    ASSUME NEW S, NEW s \in Seq(S), NEW t \in Seq(S)
    PROVE  /\ Len(s \o t) = Len(s) + Len(t) /\ DOMAIN (s \o t) = 1..(Len(s) + Len(t))
           /\ \A m \in 1..Len(s) : (s \o t)[m] = s[m]
           /\ \A m \in 1..Len(t) : (s \o t)[Len(s) + m] = t[m]
<1>1. Len(s) \in Nat /\ Len(t) \in Nat
    OBVIOUS
<1>2. /\ Len(s \o t) = Len(s) + Len(t) /\ DOMAIN (s \o t) = 1..(Len(s) + Len(t))
      /\ \A m \in 1..(Len(s) + Len(t)) :
            (s \o t)[m] = IF m <= Len(s) THEN s[m] ELSE t[m - Len(s)]
    OBVIOUS
<1>3. ASSUME NEW m \in 1..Len(t)
      PROVE  (s \o t)[Len(s) + m] = t[m]
  <2>1. /\ Len(s) + m \in 1..(Len(s) + Len(t)) /\ ~ (Len(s) + m <= Len(s))
        /\ Len(s) + m - Len(s) = m
      BY <1>1
  <2> QED BY <1>2, <2>1
<1> QED BY <1>1, <1>2, <1>3

(* And without one of its rows the dict is as it should be.                *)
LEMMA FoundedRemoved ==
    ASSUME NEW rows \in Seq(Row), NEW k \in DOMAIN rows, NEW mv, NEW tr,
           Separate(rows), Known(rows, mv, tr)
    PROVE  /\ Separate(RemoveAt(rows, k))
           /\ Known(RemoveAt(rows, k), mv, tr)
<1> DEFINE new == RemoveAt(rows, k)
           n == Len(rows)
           from(m) == IF m < k THEN m ELSE m + 1
<1>1. n \in Nat /\ k \in 1..n /\ DOMAIN rows = 1..n
    OBVIOUS
<1>2. /\ DOMAIN new = 1..(n - 1)
      /\ \A m \in 1..(n - 1) : new[m] = rows[from(m)]
  <2> DEFINE front == SubSeq(rows, 1, k - 1)
             back == SubSeq(rows, k + 1, n)
  <2>1. /\ front \in Seq(Row) /\ back \in Seq(Row)
        /\ Len(front) = k - 1 /\ Len(back) = n - k
        /\ \A m \in 1..(k - 1) : front[m] = rows[m]
        /\ \A m \in 1..(n - k) : back[m] = rows[m + k]
      BY <1>1
  <2>2. new = front \o back
      BY DEF RemoveAt
  <2> HIDE DEF front, back, new, n
  <2> DEFINE both == front \o back
  <2>3. /\ DOMAIN both = 1..(Len(front) + Len(back))
        /\ \A m \in 1..Len(front) : both[m] = front[m]
        /\ \A m \in 1..Len(back) : both[Len(front) + m] = back[m]
    <3>1. front \in Seq(Row) /\ back \in Seq(Row)
        BY <2>1
    <3> QED BY <3>1, JoinedPlaces
  <2>5. DOMAIN both = 1..(n - 1)
      BY <1>1, <2>1, <2>3
  <2> HIDE DEF both
  <2>4. ASSUME NEW m \in 1..(n - 1)
        PROVE  both[m] = rows[from(m)]
    <3>1. CASE m < k
      <4>1. both[m] = front[m] /\ m \in 1..(k - 1)
          BY <1>1, <2>1, <2>3, <3>1
      <4> QED BY <2>1, <3>1, <4>1
    <3>2. CASE ~ (m < k)
      <4> DEFINE j == m - (k - 1)
      <4>1. j \in 1..(n - k) /\ m = (k - 1) + j /\ m + 1 = j + k
          BY <1>1, <3>2
      <4> HIDE DEF j
      <4>2. both[m] = back[j]
          BY <1>1, <2>1, <2>3, <4>1
      <4>3. back[j] = rows[j + k]
          BY <2>1, <4>1
      <4> QED BY <3>2, <4>1, <4>2, <4>3
    <3> QED BY <3>1, <3>2
  <2> QED BY <2>2, <2>5, <2>4 DEF both
<1>3. ASSUME NEW m \in 1..(n - 1)
      PROVE  from(m) \in 1..n
    BY <1>1
<1>4. ASSUME NEW m \in 1..(n - 1), NEW j \in 1..(n - 1), from(m) = from(j)
      PROVE  m = j
    BY <1>1, <1>4
<1> HIDE DEF new, from, n
<1> QED BY <1>1, <1>2, <1>3, <1>4 DEF Separate, Known, new

(* from_dict() leaves the target of no affiliation unknown.                *)
LEMMA LoadedKnown ==
    ASSUME NEW rows \in Seq(Row), NEW k \in DOMAIN rows, NEW l
    PROVE  LoadedTrust(rows, rows[k].target, l) # Unset
<1> DEFINE t == rows[k].target
           P == { m \in DOMAIN rows : rows[m].target = t }
           ours == Kept(rows, P)
<1>1. P \in SUBSET DOMAIN rows /\ k \in P
    OBVIOUS
<1>2. Added(rows, t) = IF ours = << >> THEN Unset ELSE Clamped(Last(ours).level)
    BY DEF Added
<1> HIDE DEF P, t
<1>3. ours \in Seq(Row) /\ rows[k] \in Range(ours)
    BY <1>1, KeptSelects, KeptRange
<1> HIDE DEF ours
<1>4. ours # << >>
    BY <1>3 DEF Range
<1>5. Len(ours) \in DOMAIN ours /\ ours[Len(ours)] \in Row
    BY <1>3, <1>4
<1>6. Last(ours).level \in Int
    BY <1>5 DEF Last, Row
<1>7. Clamped(Last(ours).level) # Unset
  <2>1. Clamped(Last(ours).level) \in Level
      BY <1>6, ClampedLevel
  <2>2. Unset \notin Level
      BY DEF Level, Unset
  <2> QED BY <2>1, <2>2
<1> QED BY <1>2, <1>4, <1>7 DEF LoadedTrust, t

(* Trust in somebody is known once it is set.                              *)
LEMMA LevelKnown ==
    ASSUME trust \in [Actor -> Trusts], NEW a \in Actor, NEW t \in Target,
           NEW l \in Level, trust' = [trust EXCEPT ![a][t] = l]
    PROVE  /\ \A b \in Actor : b # a => trust'[b] = trust[b]
           /\ Grows(trust[a], trust'[a]) /\ trust'[a][t] # Unset
<1>1. l # Unset
    BY DEF Level, Unset
<1> QED BY <1>1 DEF Grows, Trusts

(* What concerns one actor leaves the affiliations of the others founded.  *)
LEMMA FoundedAt ==
    ASSUME Founded, NEW a \in Actor, NEW mv \in SUBSET Affil,
           moved' = [moved EXCEPT ![a] = mv], saved' = saved,
           \A b \in Actor : b # a => affil'[b] = affil[b] /\ trust'[b] = trust[b],
           Separate(affil'[a]), Known(affil'[a], mv, trust'[a])
    PROVE  Founded'
<1>1. moved' \in [Actor -> SUBSET Affil] /\ moved'[a] = mv
    BY DEF Founded
<1>2. \A b \in Actor : b # a => moved'[b] = moved[b]
    BY DEF Founded
<1>3. ASSUME NEW b \in Actor
      PROVE  Separate(affil'[b]) /\ Known(affil'[b], moved'[b], trust'[b])
    BY <1>1, <1>2 DEF Founded
<1> QED BY <1>1, <1>3 DEF Founded

(* A row of the dict, and what update() makes of it.                       *)
LEMMA RowAt ==
    ASSUME NEW rows \in Seq(Row), NEW k \in DOMAIN rows
    PROVE  rows[k] \in Row /\ rows[k].target \in Target
<1>1. rows[k] \in Row
    OBVIOUS
<1> QED BY <1>1 DEF Row

LEMMA RowRetargeted ==
    ASSUME NEW r \in Row, NEW t \in Target
    PROVE  [r EXCEPT !.target = t] \in Row /\ [r EXCEPT !.target = t].id = r.id
BY DEF Row

LEMMA RowReleveled ==
    ASSUME NEW r \in Row, NEW l \in Int
    PROVE  /\ [r EXCEPT !.level = l] \in Row /\ [r EXCEPT !.level = l].id = r.id
           /\ [r EXCEPT !.level = l].target = r.target
BY DEF Row

(* Every change of affiliations and trust keeps what trust rests on:       *)
(* add() and a new level set it, a new target marks the row as moved.      *)
LEMMA ManageFounded ==
    ASSUME Minded, Founded, NEW a \in Actor, Manage(a) \/ Learn(a)
    PROVE  Founded'
<1> DEFINE rows == affil[a]
           mv == moved[a]
<1>1. /\ rows \in Seq(Row) /\ trust[a] \in Trusts
      /\ affil \in [Actor -> Seq(Row)] /\ trust \in [Actor -> Trusts]
      /\ moved \in [Actor -> SUBSET Affil] /\ mv \in SUBSET Affil
      /\ Separate(rows) /\ Known(rows, mv, trust[a])
      /\ moved = [moved EXCEPT ![a] = mv] /\ Grows(trust[a], trust[a])
    BY DEF Minded, Founded, Grows
<1>2. ASSUME NEW i \in Affil, NEW t \in Target, NEW l \in Levels, Add(a, i, t, l)
      PROVE  Founded'
  <2> DEFINE r == [id |-> i, target |-> t, level |-> l]
             mv2 == mv \ {i}
  <2>1. r \in Row /\ r.id = i /\ r.target = t /\ Clamped(l) \in Level
      BY LevelsAssumption, ClampedLevel DEF Row
  <2>2. /\ affil' = [affil EXCEPT ![a] = Put(rows, r)]
        /\ trust' = [trust EXCEPT ![a][t] = Clamped(l)]
        /\ moved' = [moved EXCEPT ![a] = mv2] /\ saved' = saved
      BY <1>1, <1>2 DEF Add
  <2> HIDE DEF r
  <2>3. /\ \A b \in Actor : b # a => trust'[b] = trust[b]
        /\ Grows(trust[a], trust'[a]) /\ trust'[a][t] # Unset
      BY <1>1, <2>1, <2>2, LevelKnown
  <2>4. /\ affil'[a] = Put(rows, r) /\ \A b \in Actor : b # a => affil'[b] = affil[b]
      BY <1>1, <2>2
  <2>5. mv \ {r.id} \subseteq mv2 /\ trust'[a][r.target] # Unset
      BY <2>1, <2>3
  <2> HIDE DEF rows, mv
  <2>6. Separate(Put(rows, r)) /\ Known(Put(rows, r), mv2, trust'[a])
      BY <1>1, <2>1, <2>3, <2>5, FoundedPut, Zenon
  <2>7. mv2 \in SUBSET Affil
      BY <1>1
  <2> HIDE DEF mv2
  <2> QED BY <2>2, <2>3, <2>4, <2>6, <2>7, FoundedAt
<1>3. ASSUME NEW i \in Affil, NEW t \in Target, Retarget(a, i, t)
      PROVE  Founded'
  <2> DEFINE k == Place(rows, i)
             r == [rows[k] EXCEPT !.target = t]
             mv2 == mv \cup {i}
  <2>1. k \in DOMAIN rows /\ rows[k].id = i
      BY <1>3, PlaceThere DEF Retarget
  <2>2. /\ affil' = [affil EXCEPT ![a] = [rows EXCEPT ![k] = r]]
        /\ moved' = [moved EXCEPT ![a] = mv2]
        /\ trust' = trust /\ saved' = saved
      BY <1>3 DEF Retarget
  <2> HIDE DEF k
  <2>3. r \in Row /\ r.id = rows[k].id
    <3>1. rows[k] \in Row
        BY <1>1, <2>1, RowAt
    <3> DEFINE old == rows[k]
    <3> HIDE DEF old
    <3> QED BY <3>1, RowRetargeted DEF old
  <2> HIDE DEF r
  <2>4. /\ affil'[a] = [rows EXCEPT ![k] = r]
        /\ \A b \in Actor : b # a => affil'[b] = affil[b] /\ trust'[b] = trust[b]
      BY <1>1, <2>2
  <2>5. mv \ {r.id} \subseteq mv2 /\ r.id \in mv2 /\ trust'[a] = trust[a]
      BY <2>1, <2>2, <2>3
  <2> HIDE DEF rows, mv
  <2>6. /\ Separate([rows EXCEPT ![k] = r])
        /\ Known([rows EXCEPT ![k] = r], mv2, trust[a])
      BY <1>1, <2>1, <2>3, <2>5, FoundedReplaced, Zenon
  <2>7. mv2 \in SUBSET Affil
      BY <1>1
  <2> HIDE DEF mv2
  <2> QED BY <2>2, <2>4, <2>5, <2>6, <2>7, FoundedAt
<1>4. ASSUME NEW i \in Affil, NEW l \in Levels, Relevel(a, i, l)
      PROVE  Founded'
  <2> DEFINE k == Place(rows, i)
             t == rows[k].target
             r == [rows[k] EXCEPT !.level = l]
             mv2 == mv \ {i}
  <2>1. k \in DOMAIN rows /\ rows[k].id = i
      BY <1>4, PlaceThere DEF Relevel
  <2>2. /\ affil' = [affil EXCEPT ![a] = [rows EXCEPT ![k] = r]]
        /\ trust' = [trust EXCEPT ![a][t] = Clamped(l)]
        /\ moved' = [moved EXCEPT ![a] = mv2] /\ saved' = saved
      BY <1>1, <1>4 DEF Relevel
  <2> HIDE DEF k
  <2>3. rows[k] \in Row /\ t \in Target /\ l \in Int /\ Clamped(l) \in Level
    <3>1. rows[k] \in Row /\ t \in Target
        BY <1>1, <2>1, RowAt
    <3> QED BY <3>1, LevelsAssumption, ClampedLevel
  <2>4. r \in Row /\ r.id = rows[k].id /\ r.target = t
      BY <2>3, RowReleveled
  <2> HIDE DEF r, t
  <2>5. /\ \A b \in Actor : b # a => trust'[b] = trust[b]
        /\ Grows(trust[a], trust'[a]) /\ trust'[a][t] # Unset
      BY <1>1, <2>2, <2>3, LevelKnown
  <2>6. /\ affil'[a] = [rows EXCEPT ![k] = r]
        /\ \A b \in Actor : b # a => affil'[b] = affil[b]
      BY <1>1, <2>2
  <2>7. mv \ {r.id} \subseteq mv2 /\ trust'[a][r.target] # Unset
      BY <2>1, <2>4, <2>5
  <2> HIDE DEF rows, mv
  <2>8. /\ Separate([rows EXCEPT ![k] = r])
        /\ Known([rows EXCEPT ![k] = r], mv2, trust'[a])
      BY <1>1, <2>1, <2>4, <2>5, <2>7, FoundedReplaced, Zenon
  <2>9. mv2 \in SUBSET Affil
      BY <1>1
  <2> HIDE DEF mv2
  <2> QED BY <2>2, <2>5, <2>6, <2>8, <2>9, FoundedAt
<1>5. ASSUME NEW i \in Affil, Drop(a, i)
      PROVE  Founded'
  <2> DEFINE k == Place(rows, i)
  <2>1. k \in DOMAIN rows
      BY <1>5, PlaceThere DEF Drop
  <2>2. /\ affil' = [affil EXCEPT ![a] = RemoveAt(rows, k)]
        /\ trust' = trust /\ saved' = saved /\ moved' = moved
      BY <1>5 DEF Drop
  <2> HIDE DEF k
  <2>3. /\ affil'[a] = RemoveAt(rows, k)
        /\ \A b \in Actor : b # a => affil'[b] = affil[b] /\ trust'[b] = trust[b]
        /\ moved' = [moved EXCEPT ![a] = mv] /\ trust'[a] = trust[a]
      BY <1>1, <2>2
  <2> HIDE DEF rows, mv
  <2>4. /\ Separate(RemoveAt(rows, k))
        /\ Known(RemoveAt(rows, k), mv, trust[a])
      BY <1>1, <2>1, FoundedRemoved, Zenon
  <2> QED BY <1>1, <2>2, <2>3, <2>4, FoundedAt
<1>6. ASSUME NEW t \in Target, NEW l \in Level, affil' = affil, saved' = saved,
             moved' = moved, trust' = [trust EXCEPT ![a][t] = l]
      PROVE  Founded'
  <2>1. /\ \A b \in Actor : b # a => trust'[b] = trust[b]
        /\ Grows(trust[a], trust'[a])
      BY <1>1, <1>6, LevelKnown
  <2>2. Known(rows, mv, trust'[a])
    <3>1. \A k \in DOMAIN rows : rows[k].target \in Target
        BY <1>1, RowAt
    <3> HIDE DEF rows, mv
    <3> QED BY <1>1, <2>1, <3>1 DEF Known, Grows
  <2>3. /\ Separate(affil'[a]) /\ Known(affil'[a], mv, trust'[a])
        /\ moved' = [moved EXCEPT ![a] = mv]
      BY <1>1, <1>6, <2>2
  <2>4. \A b \in Actor : b # a => affil'[b] = affil[b] /\ trust'[b] = trust[b]
      BY <1>6, <2>1
  <2> HIDE DEF rows, mv
  <2> QED BY <1>1, <1>6, <2>3, <2>4, FoundedAt
<1>7. ASSUME NEW t \in Target, NEW l \in Levels, SetTrust(a, t, l)
      PROVE  Founded'
  <2>1. Clamped(l) \in Level
      BY LevelsAssumption, ClampedLevel
  <2> QED BY <1>6, <1>7, <2>1 DEF SetTrust
<1>8. CASE Save(a)
  <2> DEFINE snap == [affil |-> rows, trust |-> trust[a]]
  <2>1. saved' = [saved EXCEPT ![a] = snap] /\ snap.affil = rows
      BY <1>8 DEF Save
  <2> HIDE DEF snap
  <2>2. saved'[a] = snap /\ \A b \in Actor : b # a => saved'[b] = saved[b]
      BY <2>1 DEF Minded
  <2>3. \A b \in Actor : saved'[b] # NoSave => Separate(saved'[b].affil)
      BY <1>1, <2>1, <2>2 DEF Founded
  <2>4. UNCHANGED << affil, trust, moved >>
      BY <1>8 DEF Save
  <2> QED BY <2>3, <2>4 DEF Founded
<1>9. CASE Load(a)
  <2> DEFINE old == saved[a].affil
             l == saved[a].trust
             new == [t \in Target |-> LoadedTrust(old, t, l[t])]
  <2>1. old \in Seq(Row) /\ Separate(old)
      BY <1>9 DEF Load, Minded, Founded
  <2>2. /\ affil' = [affil EXCEPT ![a] = old] /\ trust' = [trust EXCEPT ![a] = new]
        /\ moved' = [moved EXCEPT ![a] = {}] /\ saved' = saved
      BY <1>9 DEF Load
  <2>3. /\ affil'[a] = old /\ trust'[a] = new
        /\ \A b \in Actor : b # a => affil'[b] = affil[b] /\ trust'[b] = trust[b]
    <3> HIDE DEF old, new
    <3> QED BY <1>1, <2>2
  <2>4. Known(old, {}, new)
    <3> HIDE DEF old, l
    <3>1. ASSUME NEW k \in DOMAIN old
          PROVE  new[old[k].target] # Unset
      <4>1. old[k].target \in Target
          BY <2>1, RowAt
      <4>2. LoadedTrust(old, old[k].target, l[old[k].target]) # Unset
          BY <2>1, LoadedKnown
      <4> QED BY <4>1, <4>2
    <3> QED BY <3>1 DEF Known
  <2>5. {} \in SUBSET Affil
      OBVIOUS
  <2>6. Separate(affil'[a]) /\ Known(affil'[a], {}, trust'[a])
      BY <2>1, <2>3, <2>4
  <2>7. \A b \in Actor : b # a => affil'[b] = affil[b] /\ trust'[b] = trust[b]
      BY <2>3
  <2>8. moved' = [moved EXCEPT ![a] = {}] /\ saved' = saved
      BY <2>2
  <2> QED BY <2>5, <2>6, <2>7, <2>8, FoundedAt
<1>10. ASSUME NEW t \in Target, NEW o \in Outcomes, Outcome(a, t, o)
       PROVE  Founded'
  <2> DEFINE now == TrustIn(trust[a], t)
             more == Delta(o)
  <2>1. now \in Level /\ more \in Int
      BY <1>1, TrustLevel, DeltaNumber
  <2>2. /\ trust' = [trust EXCEPT ![a][t] = Clamped(now + more)]
        /\ affil' = affil /\ saved' = saved /\ moved' = moved
      BY <1>10 DEF Outcome
  <2> HIDE DEF now, more
  <2>3. now + more \in Int
      BY <2>1 DEF Level
  <2>4. Clamped(now + more) \in Level
      BY <2>3, ClampedLevel
  <2> QED BY <1>6, <2>2, <2>4
<1> QED BY <1>2, <1>3, <1>4, <1>5, <1>7, <1>8, <1>9, <1>10 DEF Manage, Learn

(* With its affiliations founded, to_dict() and from_dict() change trust   *)
(* in nobody but the targets that update() gave to affiliations.           *)
LEMMA FoundedRestart ==
    ASSUME NEW rows \in Seq(Row), NEW mv, NEW tr, Known(rows, mv, tr),
           NEW t,
           ~ \E k \in DOMAIN rows : rows[k].target = t /\ rows[k].id \in mv
    PROVE  LoadedTrust(rows, t, tr[t]) = tr[t]
<1>1. CASE tr[t] # Unset
    BY <1>1 DEF LoadedTrust
<1>2. CASE tr[t] = Unset
  <2> DEFINE P == { k \in DOMAIN rows : rows[k].target = t }
  <2>1. P = {}
      BY <1>2 DEF Known
  <2>2. Kept(rows, {}) = << >>
    <3>1. Kept(rows, {}) \in Seq(Row) /\ Range(Kept(rows, {})) = {}
        BY KeptSelects, KeptRange
    <3> DEFINE none == Kept(rows, {})
    <3> HIDE DEF none
    <3>2. none \in Seq(Row) /\ \A k \in DOMAIN none : none[k] \in Range(none)
        BY <3>1 DEF none, Range
    <3>3. DOMAIN none = {} /\ DOMAIN none = 1..Len(none) /\ Len(none) \in Nat
        BY <3>1, <3>2 DEF none
    <3>4. none = << >>
        BY <3>2, <3>3
    <3> QED BY <3>4 DEF none
  <2>3. Added(rows, t) = Unset
      BY <2>1, <2>2 DEF Added
  <2> QED BY <1>2, <2>3 DEF LoadedTrust
<1> QED BY <1>1, <1>2

-----------------------------------------------------------------------------
(* Messages.                                                               *)

Letter == [from : Actor, to : Actor, trusted : Level]

(* What the runtime holds was sent in trust, by an actor that it knows.    *)
Careful(m) == m.trusted >= Threshold

Mailed ==
    /\ linked \subseteq Linked /\ IsFiniteSet(linked)
    /\ bus \in [Actor -> Seq(Letter)]
    /\ mailbox \in [Actor -> Seq(Letter)]
    /\ log \in [Actor -> Seq(Letter)]
    /\ reported \in [Actor -> Nat]

Sent == \A b \in Actor : \A k \in DOMAIN mailbox[b] : Careful(mailbox[b][k])

(* The last messages of a log, as many as the limit allows.                *)
Window(s, t) ==
    /\ Len(s) = IF Len(t) < MaxLocal THEN Len(t) ELSE MaxLocal
    /\ \A k \in 1..Len(s) : s[k] = t[Len(t) - Len(s) + k]

Windows == \A a \in Actor : Window(bus[a], log[a])

(* A message that may be sent is trusted, and by a level.                  *)
LEMMA LetterSent ==
    ASSUME trust \in [Actor -> Trusts], NEW a \in Actor, NEW b \in Actor \cap Target,
           CheckTrust(a, b)
    PROVE  Message(a, b) \in Letter /\ Careful(Message(a, b))
<1>1. TrustIn(trust[a], b) \in Level
    BY TrustLevel
<1> QED BY <1>1 DEF Message, Letter, Careful, CheckTrust

(* One message more, and the window moves on by one.                       *)
LEMMA WindowMoves ==
    ASSUME NEW s \in Seq(Letter), NEW t \in Seq(Letter), Window(s, t),
           NEW m \in Letter
    PROVE  /\ Trimmed(Append(s, m)) \in Seq(Letter)
           /\ Window(Trimmed(Append(s, m)), Append(t, m))
<1> DEFINE s1 == Append(s, m)
           t1 == Append(t, m)
<1>1. MaxLocal \in Nat /\ MaxLocal >= 1
    BY BoundsAssumption
<1>2. /\ s1 \in Seq(Letter) /\ Len(s) \in Nat /\ Len(s1) = Len(s) + 1
      /\ \A k \in 1..Len(s) : s1[k] = s[k]
      /\ s1[Len(s) + 1] = m
    BY Appended
<1>3. /\ Len(t) \in Nat /\ Len(t1) = Len(t) + 1
      /\ \A k \in 1..Len(t) : t1[k] = t[k]
      /\ t1[Len(t) + 1] = m
    BY Appended
<1>4. /\ Len(s) = IF Len(t) < MaxLocal THEN Len(t) ELSE MaxLocal
      /\ \A k \in 1..Len(s) : s[k] = t[Len(t) - Len(s) + k]
    BY DEF Window
<1> HIDE DEF s1, t1
<1>5. CASE Len(s) < MaxLocal
  <2>1. Len(s) = Len(t) /\ Trimmed(s1) = s1
    <3>1. Len(s) = IF Len(t) < MaxLocal THEN Len(t) ELSE MaxLocal
        BY <1>4
    <3>2. Len(s) = Len(t)
        BY <1>1, <1>5, <3>1
    <3>3. Len(s1) = Len(s) + 1 /\ Len(s) \in Nat
        BY <1>2
    <3>4. ~ (Len(s1) > MaxLocal)
        BY <1>1, <1>5, <3>3
    <3> QED BY <3>2, <3>4 DEF Trimmed
  <2>2. \A k \in 1..Len(s1) : s1[k] = t1[Len(t1) - Len(s1) + k]
    <3> SUFFICES ASSUME NEW k \in 1..Len(s1)
                 PROVE  s1[k] = t1[k]
        BY <1>2, <1>3, <2>1
    <3>1. CASE k = Len(s) + 1
        BY <1>2, <1>3, <2>1, <3>1
    <3>2. CASE k \in 1..Len(s)
      <4>1. s[k] = t[Len(t) - Len(s) + k] /\ Len(t) - Len(s) + k = k
          BY <1>3, <1>4, <2>1, <3>2
      <4> QED BY <1>2, <1>3, <2>1, <3>2, <4>1
    <3> QED BY <1>2, <3>1, <3>2
  <2>3. Len(s1) = IF Len(t1) < MaxLocal THEN Len(t1) ELSE MaxLocal
      BY <1>1, <1>2, <1>3, <1>5, <2>1
  <2>4. Window(s1, t1)
      BY <2>2, <2>3 DEF Window
  <2> QED BY <1>2, <2>1, <2>4 DEF s1, t1
<1>6. CASE Len(s) >= MaxLocal
  <2> DEFINE new == SubSeq(s1, 2, MaxLocal + 1)
  <2>1. Len(s) = MaxLocal /\ Len(t) >= MaxLocal /\ Trimmed(s1) = new
      BY <1>1, <1>2, <1>3, <1>4, <1>6 DEF Trimmed
  <2>2. /\ new \in Seq(Letter) /\ Len(new) = MaxLocal
        /\ \A k \in 1..MaxLocal : new[k] = s1[k + 1]
      BY <1>1, <1>2, <2>1
  <2> HIDE DEF new
  <2>3. ASSUME NEW k \in 1..MaxLocal
        PROVE  new[k] = t1[Len(t1) - Len(new) + k]
    <3>1. new[k] = s1[k + 1] /\ Len(t1) - Len(new) + k = Len(t) - MaxLocal + k + 1
        BY <1>1, <1>3, <2>2
    <3>2. CASE k = MaxLocal
        BY <1>1, <1>2, <1>3, <2>1, <3>1, <3>2
    <3>3. CASE k < MaxLocal
      <4>1. k + 1 \in 1..Len(s) /\ Len(t) - MaxLocal + k + 1 \in 1..Len(t)
          BY <1>1, <1>3, <2>1, <3>3
      <4>2. s[k + 1] = t[Len(t) - MaxLocal + (k + 1)]
          BY <1>4, <2>1, <4>1
      <4>3. Len(t) - MaxLocal + (k + 1) = Len(t) - MaxLocal + k + 1
          BY <1>1, <1>3
      <4> QED BY <1>2, <1>3, <3>1, <4>1, <4>2, <4>3
    <3> QED BY <1>1, <3>2, <3>3
  <2>4. Window(new, t1)
      BY <1>1, <1>3, <2>1, <2>2, <2>3 DEF Window
  <2> QED BY <2>1, <2>2, <2>4 DEF s1, t1
<1> QED BY <1>1, <1>2, <1>5, <1>6

(* What is posted reaches the mailboxes of some peers, once each.          *)
LEMMA Posted ==
    ASSUME Mailed, Sent, NEW a \in Actor, NEW peers \in SUBSET Actor, Post(a, peers),
           \A b \in peers : Message(a, b) \in Letter /\ Careful(Message(a, b))
    PROVE  mailbox' \in [Actor -> Seq(Letter)] /\ Sent'
<1>1. ASSUME NEW b \in Actor
      PROVE  /\ mailbox'[b] \in Seq(Letter)
             /\ \A k \in DOMAIN mailbox'[b] : Careful(mailbox'[b][k])
  <2> DEFINE old == mailbox[b]
             m == Message(a, b)
  <2>1. old \in Seq(Letter) /\ \A k \in DOMAIN old : Careful(old[k])
      BY DEF Mailed, Sent
  <2>2. mailbox'[b] = IF b \in peers THEN Append(old, m) ELSE old
      BY DEF Post
  <2>3. CASE b \in peers
    <3>1. m \in Letter /\ Careful(m)
        BY <2>3
    <3> HIDE DEF old, m
    <3>2. /\ Append(old, m) \in Seq(Letter)
          /\ DOMAIN old = 1..Len(old) /\ DOMAIN Append(old, m) = 1..(Len(old) + 1)
          /\ \A k \in 1..Len(old) : Append(old, m)[k] = old[k]
          /\ Append(old, m)[Len(old) + 1] = m /\ Len(old) \in Nat
        BY <2>1, <3>1, Appended
    <3>3. ASSUME NEW k \in DOMAIN Append(old, m)
          PROVE  Careful(Append(old, m)[k])
      <4>1. k = Len(old) + 1 \/ k \in 1..Len(old)
          BY <3>2
      <4> QED BY <2>1, <3>1, <3>2, <4>1
    <3> QED BY <2>2, <2>3, <3>2, <3>3
  <2>4. CASE b \notin peers
      BY <2>1, <2>2, <2>4
  <2> QED BY <2>3, <2>4
<1>2. mailbox' = [b \in Actor |-> mailbox'[b]]
    BY DEF Post
<1> QED BY <1>1, <1>2 DEF Sent

LEMMA TalkMailed ==
    ASSUME Minded, Mailed, Sent, Windows, NEW a \in Actor, Talk(a)
    PROVE  Mailed' /\ Sent' /\ Windows' /\ UNCHANGED << trustVars, edits >>
<1>0. trust \in [Actor -> Trusts] /\ reported[a] \in Nat
    BY DEF Minded, Mailed
<1>1. ASSUME NEW b \in Actor \cap Target, SendLocal(a, b)
      PROVE  Mailed' /\ Sent' /\ Windows' /\ UNCHANGED << trustVars, edits >>
  <2> DEFINE m == Message(a, b)
             s == Trimmed(Append(bus[a], m))
             t == Append(log[a], m)
  <2>1. m \in Letter
      BY <1>0, <1>1, LetterSent DEF SendLocal
  <2>2. /\ bus' = [bus EXCEPT ![a] = s] /\ log' = [log EXCEPT ![a] = t]
        /\ reported' = [reported EXCEPT ![a] = reported[a] + 1]
        /\ UNCHANGED << trustVars, linked, mailbox, edits >>
      BY <1>1 DEF SendLocal
  <2>3. s \in Seq(Letter) /\ Window(s, t) /\ t \in Seq(Letter)
    <3> DEFINE before == bus[a]
               all == log[a]
    <3>1. before \in Seq(Letter) /\ all \in Seq(Letter) /\ Window(before, all)
        BY DEF Mailed, Windows
    <3> HIDE DEF m, before, all
    <3>2. /\ Trimmed(Append(before, m)) \in Seq(Letter)
          /\ Window(Trimmed(Append(before, m)), Append(all, m))
        BY <2>1, <3>1, WindowMoves
    <3>3. Append(all, m) \in Seq(Letter)
        BY <2>1, <3>1
    <3> QED BY <3>2, <3>3 DEF before, all
  <2> HIDE DEF m, s, t
  <2>4. Mailed'
      BY <1>0, <2>2, <2>3 DEF Mailed
  <2>5. Windows'
      BY <2>2, <2>3 DEF Windows, Mailed
  <2>6. Sent'
      BY <2>2 DEF Sent
  <2> QED BY <2>2, <2>4, <2>5, <2>6
<1>2. ASSUME NEW b \in Actor \cap Target, SendLinked(a, b)
      PROVE  Mailed' /\ Sent' /\ Windows' /\ UNCHANGED << trustVars, edits >>
  <2>1. Message(a, b) \in Letter /\ Careful(Message(a, b))
      BY <1>0, <1>2, LetterSent DEF SendLinked
  <2>2. Post(a, {b}) /\ {b} \in SUBSET Actor
      BY <1>2 DEF SendLinked
  <2>3. mailbox' \in [Actor -> Seq(Letter)] /\ Sent'
      BY <2>1, <2>2, Posted
  <2>4. /\ reported' = [reported EXCEPT ![a] = reported[a] + 1]
        /\ UNCHANGED << trustVars, linked, bus, log, edits >>
      BY <1>2 DEF SendLinked
  <2>5. Mailed' /\ Windows'
      BY <1>0, <2>3, <2>4 DEF Mailed, Windows
  <2> QED BY <2>3, <2>4, <2>5
<1>3. CASE Broadcast(a)
  <2> DEFINE n == Count(a)
  <2>1. ASSUME NEW b \in Trusted(a)
        PROVE  b \in Actor \cap Target /\ Message(a, b) \in Letter /\ Careful(Message(a, b))
    <3>1. b \in linked /\ CheckTrust(a, b)
        BY DEF Trusted
    <3>2. b \in Actor \cap Target
        BY <3>1, ActorsAssumption DEF Mailed
    <3> QED BY <1>0, <3>1, <3>2, LetterSent
  <2>2. mailbox' \in [Actor -> Seq(Letter)] /\ Sent'
    <3>1. Post(a, Trusted(a)) /\ Trusted(a) \in SUBSET Actor
        BY <1>3, <2>1 DEF Broadcast
    <3> QED BY <2>1, <3>1, Posted
  <2>3. n \in Nat
    <3>1. IsFiniteSet(linked) /\ Trusted(a) \in SUBSET linked
        BY DEF Mailed, Trusted
    <3>2. IsFiniteSet(Trusted(a))
        BY <3>1, FS_Subset
    <3> QED BY <3>2, FS_CardinalityType DEF Count
  <2>4. /\ reported' = [reported EXCEPT ![a] = reported[a] + n]
        /\ UNCHANGED << trustVars, linked, bus, log, edits >>
      BY <1>3 DEF Broadcast
  <2> HIDE DEF n
  <2>5. Mailed' /\ Windows'
      BY <1>0, <2>2, <2>3, <2>4 DEF Mailed, Windows
  <2> QED BY <2>2, <2>4, <2>5
<1>4. CASE Link(a)
  <2>1. IsFiniteSet(linked \cup {a})
      BY FS_AddElement DEF Mailed
  <2>2. /\ linked' = linked \cup {a} /\ a \in Linked
        /\ UNCHANGED << trustVars, bus, mailbox, log, reported, edits >>
      BY <1>4 DEF Link
  <2>3. Mailed' /\ Sent' /\ Windows'
      BY <2>1, <2>2 DEF Mailed, Sent, Windows
  <2> QED BY <2>2, <2>3
<1> QED BY <1>1, <1>2, <1>3, <1>4 DEF Talk

-----------------------------------------------------------------------------
(* What is reported and what is delivered.                                 *)

(* Every actor's reported number is that of the places its messages hold,  *)
(* which are finitely many.                                                *)
Accounted ==
    \A a \in Actor : IsFiniteSet(Delivered(a)) /\ Handed(a) = reported[a]

(* The places that a message to each of some peers takes.                  *)
Fresh(peers) == { << b, Len(mailbox[b]) + 1 >> : b \in peers }

(* One message more is one more from its sender, and none from another.    *)
LEMMA FromAppended ==
    ASSUME NEW s \in Seq(Letter), NEW m \in Letter, NEW c
    PROVE  From(c, Append(s, m)) = IF m.from = c THEN From(c, s) \cup {Len(s) + 1}
                                   ELSE From(c, s)
<1> DEFINE new == Append(s, m)
           n == Len(s)
<1>1. /\ n \in Nat /\ DOMAIN s = 1..n /\ DOMAIN new = 1..(n + 1)
      /\ \A k \in 1..n : new[k] = s[k]
      /\ new[n + 1] = m
    BY Appended
<1> HIDE DEF new, n
<1>2. ASSUME NEW k
      PROVE  k \in From(c, new) <=> k \in From(c, s) \/ (k = n + 1 /\ m.from = c)
  <2>1. k \in 1..(n + 1) <=> k \in 1..n \/ k = n + 1
      BY <1>1
  <2>2. ~ (n + 1 \in 1..n)
      BY <1>1
  <2> QED BY <1>1, <2>1, <2>2 DEF From
<1>3. From(c, new) = IF m.from = c THEN From(c, s) \cup {n + 1} ELSE From(c, s)
    BY <1>2
<1> QED BY <1>3 DEF new, n

(* What is posted adds its places to those of its sender alone.            *)
LEMMA DeliveredPosted ==
    ASSUME Mailed, NEW a \in Actor, NEW peers \in SUBSET Actor, Post(a, peers),
           \A b \in peers : Message(a, b) \in Letter, NEW c
    PROVE  Delivered(c)' = IF a = c THEN Delivered(c) \cup Fresh(peers) ELSE Delivered(c)
<1> DEFINE now(b) == IF a = c /\ b \in peers THEN From(c, mailbox[b]) \cup {Len(mailbox[b]) + 1}
                     ELSE From(c, mailbox[b])
<1>1. ASSUME NEW b \in Actor
      PROVE  From(c, mailbox'[b]) = now(b)
  <2> DEFINE m == Message(a, b)
             s == mailbox[b]
  <2>1. /\ s \in Seq(Letter) /\ m.from = a /\ (b \in peers => m \in Letter)
        /\ mailbox'[b] = IF b \in peers THEN Append(s, m) ELSE s
      BY DEF Mailed, Message, Post
  <2>2. now(b) = IF a = c /\ b \in peers THEN From(c, s) \cup {Len(s) + 1} ELSE From(c, s)
      OBVIOUS
  <2> HIDE DEF m, s, now
  <2>3. CASE b \in peers
    <3>1. From(c, Append(s, m)) = IF m.from = c THEN From(c, s) \cup {Len(s) + 1}
                                  ELSE From(c, s)
        BY <2>1, <2>3, FromAppended
    <3> QED BY <2>1, <2>2, <2>3, <3>1
  <2>4. CASE b \notin peers
      BY <2>1, <2>2, <2>4
  <2> QED BY <2>3, <2>4
<1>2. Delivered(c)' = UNION { {b} \X From(c, mailbox'[b]) : b \in Actor }
    BY DEF Delivered
<1>3. ASSUME NEW p
      PROVE  p \in Delivered(c)' <=>
             p \in Delivered(c) \/ (a = c /\ p \in Fresh(peers))
  <2>1. p \in Delivered(c)' <=> \E b \in Actor : p \in {b} \X now(b)
      BY <1>1, <1>2
  <2>2. p \in Delivered(c) <=> \E b \in Actor : p \in {b} \X From(c, mailbox[b])
      BY DEF Delivered
  <2>3. p \in Fresh(peers) <=> \E b \in peers : p = << b, Len(mailbox[b]) + 1 >>
      BY DEF Fresh
  <2>4. ASSUME NEW b \in Actor
        PROVE  p \in {b} \X now(b) <=>
               \/ p \in {b} \X From(c, mailbox[b])
               \/ a = c /\ b \in peers /\ p = << b, Len(mailbox[b]) + 1 >>
      OBVIOUS
  <2> HIDE DEF now
  <2> QED BY <2>1, <2>2, <2>3, <2>4
<1>4. CASE a = c
  <2>1. \A p : p \in Delivered(c)' <=> p \in Delivered(c) \cup Fresh(peers)
      BY <1>3, <1>4
  <2> DEFINE new == Delivered(c)'
             both == Delivered(c) \cup Fresh(peers)
  <2> HIDE DEF new, both
  <2>2. \A p : p \in new <=> p \in both
      BY <2>1 DEF new, both
  <2>3. new = both
      BY <2>2
  <2> QED BY <1>4, <2>3 DEF new, both
<1>5. CASE a # c
  <2> DEFINE new == Delivered(c)'
             old == Delivered(c)
  <2>1. \A p : p \in new <=> p \in old
      BY <1>3, <1>5
  <2> HIDE DEF new, old
  <2>2. new = old
      BY <2>1
  <2> QED BY <1>5, <2>2 DEF new, old
<1> QED BY <1>4, <1>5

(* These places are as many as the peers, and none was taken before.       *)
LEMMA FreshPlaces ==
    ASSUME Mailed, NEW peers \in SUBSET Actor, IsFiniteSet(peers), NEW c
    PROVE  /\ IsFiniteSet(Fresh(peers)) /\ Cardinality(Fresh(peers)) = Cardinality(peers)
           /\ Delivered(c) \cap Fresh(peers) = {}
<1> DEFINE f == [b \in peers |-> << b, Len(mailbox[b]) + 1 >>]
<1>1. f \in Bijection(peers, Fresh(peers))
  <2>1. f \in [peers -> Fresh(peers)]
      BY DEF Fresh
  <2>2. \A b, d \in peers : f[b] = f[d] => b = d
      OBVIOUS
  <2>3. \A p \in Fresh(peers) : \E b \in peers : f[b] = p
      BY DEF Fresh
  <2> HIDE DEF f
  <2> QED BY <2>1, <2>2, <2>3, Fun_IsBij, Zenon
<1>2. ExistsBijection(peers, Fresh(peers))
    BY <1>1, Zenon DEF ExistsBijection
<1>3. IsFiniteSet(Fresh(peers)) /\ Cardinality(Fresh(peers)) = Cardinality(peers)
    BY <1>2, FS_Bijection, Zenon
<1>4. ASSUME NEW p \in Delivered(c), p \in Fresh(peers)
      PROVE  FALSE
  <2>1. PICK b \in Actor : p \in {b} \X From(c, mailbox[b])
      BY DEF Delivered
  <2>2. PICK d \in peers : p = << d, Len(mailbox[d]) + 1 >>
      BY <1>4 DEF Fresh
  <2>3. Len(mailbox[b]) + 1 \in DOMAIN mailbox[b]
      BY <2>1, <2>2 DEF From
  <2>4. mailbox[b] \in Seq(Letter)
      BY DEF Mailed
  <2> QED BY <2>3, <2>4
<1> QED BY <1>3, <1>4

(* What is posted to some peers is that many more deliveries of its        *)
(* sender.                                                                 *)
LEMMA PostAccounted ==
    ASSUME Mailed, Accounted, NEW a \in Actor, NEW peers \in SUBSET Actor,
           IsFiniteSet(peers), Post(a, peers),
           \A b \in peers : Message(a, b) \in Letter, log' = log,
           reported' = [reported EXCEPT ![a] = reported[a] + Cardinality(peers)]
    PROVE  Accounted'
<1>1. ASSUME NEW c \in Actor
      PROVE  IsFiniteSet(Delivered(c)') /\ Handed(c)' = reported'[c]
  <2>1. Delivered(c)' = IF a = c THEN Delivered(c) \cup Fresh(peers) ELSE Delivered(c)
      BY DeliveredPosted
  <2>2. /\ IsFiniteSet(Fresh(peers)) /\ Cardinality(Fresh(peers)) = Cardinality(peers)
        /\ Delivered(c) \cap Fresh(peers) = {}
      BY FreshPlaces
  <2>3. /\ IsFiniteSet(Delivered(c)) /\ reported[c] = Len(log[c]) + Cardinality(Delivered(c))
        /\ Len(log[c]) \in Nat /\ Cardinality(Delivered(c)) \in Nat
    <3>1. IsFiniteSet(Delivered(c)) /\ Handed(c) = reported[c] /\ log[c] \in Seq(Letter)
        BY DEF Accounted, Mailed
    <3> QED BY <3>1, FS_CardinalityType DEF Handed
  <2>4. /\ Handed(c)' = Len(log[c]) + Cardinality(Delivered(c)')
        /\ reported'[c] = IF a = c THEN reported[c] + Cardinality(peers) ELSE reported[c]
      BY DEF Handed, Mailed
  <2>5. Cardinality(peers) \in Nat
      BY FS_CardinalityType
  <2>6. CASE a = c
    <3> DEFINE old == Delivered(c)
               more == Fresh(peers)
               new == Delivered(c)'
    <3>1. /\ new = old \cup more /\ IsFiniteSet(old) /\ IsFiniteSet(more)
          /\ old \cap more = {}
        BY <2>1, <2>2, <2>3, <2>6
    <3> HIDE DEF old, more, new
    <3>2. /\ IsFiniteSet(old \cup more)
          /\ Cardinality(old \cup more)
                = Cardinality(old) + Cardinality(more) - Cardinality(old \cap more)
        BY <3>1, FS_Union, Zenon
    <3>3. Cardinality(old \cap more) = 0
        BY <3>1, FS_EmptySet
    <3>4. IsFiniteSet(new) /\ Cardinality(new) = Cardinality(old) + Cardinality(more) - 0
        BY <3>1, <3>2, <3>3
    <3>5. Cardinality(old) \in Nat /\ Cardinality(more) = Cardinality(peers)
        BY <2>2, <2>3 DEF old, more
    <3>6. Cardinality(new) = Cardinality(old) + Cardinality(peers)
        BY <2>5, <3>4, <3>5
    <3> QED BY <2>3, <2>4, <2>5, <2>6, <3>4, <3>5, <3>6 DEF old, new
  <2>7. CASE a # c
      BY <2>1, <2>3, <2>4, <2>7
  <2> QED BY <2>6, <2>7
<1> QED BY <1>1 DEF Accounted

(* So every way to talk keeps the account, on the local bus and without.   *)
LEMMA TalkAccounted ==
    ASSUME Minded, Mailed, Accounted, NEW a \in Actor, Talk(a)
    PROVE  Accounted'
<1>0. trust \in [Actor -> Trusts] /\ reported \in [Actor -> Nat] /\ log \in [Actor -> Seq(Letter)]
    BY DEF Minded, Mailed
<1>1. ASSUME NEW b \in Actor \cap Target, SendLocal(a, b)
      PROVE  Accounted'
  <2> DEFINE m == Message(a, b)
             s == log[a]
  <2>1. m \in Letter /\ s \in Seq(Letter)
      BY <1>0, <1>1, LetterSent DEF SendLocal
  <2>2. /\ log' = [log EXCEPT ![a] = Append(s, m)] /\ mailbox' = mailbox
        /\ reported' = [reported EXCEPT ![a] = reported[a] + 1]
      BY <1>1 DEF SendLocal
  <2> HIDE DEF m, s
  <2>3. Len(Append(s, m)) = Len(s) + 1 /\ Len(s) \in Nat
      BY <2>1, Appended
  <2>4. ASSUME NEW c \in Actor
        PROVE  IsFiniteSet(Delivered(c)') /\ Handed(c)' = reported'[c]
    <3>1. Delivered(c)' = Delivered(c)
        BY <2>2 DEF Delivered
    <3>2. IsFiniteSet(Delivered(c)) /\ Handed(c) = reported[c]
        BY DEF Accounted
    <3>3. Handed(c)' = Len(log'[c]) + Cardinality(Delivered(c))
        BY <3>1 DEF Handed
    <3>4. CASE c = a
      <4>1. log'[c] = Append(s, m) /\ reported'[c] = reported[c] + 1
          BY <1>0, <2>2, <3>4
      <4>2. reported[c] = Len(s) + Cardinality(Delivered(c))
          BY <3>2, <3>4 DEF Handed, s
      <4>3. Cardinality(Delivered(c)) \in Nat
          BY <3>2, FS_CardinalityType
      <4> QED BY <2>3, <3>1, <3>2, <3>3, <4>1, <4>2, <4>3
    <3>5. CASE c # a
      <4>1. log'[c] = log[c] /\ reported'[c] = reported[c]
          BY <1>0, <2>2, <3>5
      <4> QED BY <3>1, <3>2, <3>3, <4>1 DEF Handed
    <3> QED BY <3>4, <3>5
  <2> QED BY <2>4 DEF Accounted
<1>2. ASSUME NEW b \in Actor \cap Target, SendLinked(a, b)
      PROVE  Accounted'
  <2>1. Message(a, b) \in Letter
      BY <1>0, <1>2, LetterSent DEF SendLinked
  <2>2. /\ Post(a, {b}) /\ log' = log
        /\ reported' = [reported EXCEPT ![a] = reported[a] + 1]
      BY <1>2 DEF SendLinked
  <2>3. IsFiniteSet({b}) /\ Cardinality({b}) = 1 /\ {b} \in SUBSET Actor
      BY FS_Singleton
  <2>4. reported' = [reported EXCEPT ![a] = reported[a] + Cardinality({b})]
      BY <2>2, <2>3
  <2>5. \A d \in {b} : Message(a, d) \in Letter
      BY <2>1
  <2> QED BY <2>2, <2>3, <2>4, <2>5, PostAccounted
<1>3. CASE Broadcast(a)
  <2> DEFINE peers == Trusted(a)
  <2>1. \A b \in peers : b \in Actor \cap Target /\ CheckTrust(a, b)
      BY ActorsAssumption DEF Trusted, Mailed
  <2>2. \A b \in peers : Message(a, b) \in Letter
      BY <1>0, <2>1, LetterSent
  <2>3. IsFiniteSet(peers) /\ peers \in SUBSET Actor
    <3>1. IsFiniteSet(linked) /\ peers \in SUBSET linked
        BY DEF Mailed, Trusted
    <3> QED BY <2>1, <3>1, FS_Subset
  <2>4. /\ Post(a, peers) /\ log' = log
        /\ reported' = [reported EXCEPT ![a] = reported[a] + Cardinality(peers)]
      BY <1>3 DEF Broadcast, Count
  <2> HIDE DEF peers
  <2> QED BY <2>2, <2>3, <2>4, PostAccounted
<1>4. CASE Link(a)
  <2>1. UNCHANGED << mailbox, log, reported >>
      BY <1>4 DEF Link
  <2> QED BY <2>1 DEF Accounted, Handed, Delivered
<1> QED BY <1>1, <1>2, <1>3, <1>4 DEF Talk

-----------------------------------------------------------------------------
(* The inductive invariant: types, the affiliations that trust rests on,   *)
(* the trust each message was sent in, the window of the log that the      *)
(* local bus is, and the places of the messages that were reported.        *)

SocietyOK == Minded /\ Founded /\ Mailed /\ Sent /\ Windows /\ Accounted

LEMMA SocietyStarts == Init => SocietyOK
<1> SUFFICES ASSUME Init
             PROVE  SocietyOK
    OBVIOUS
<1>1. << >> \in Seq(Row) /\ << >> \in Seq(Letter) /\ DOMAIN << >> = {} /\ Len(<< >>) = 0
    OBVIOUS
<1>2. [t \in Target |-> Unset] \in Trusts
    BY DEF Trusts
<1>3. Minded
    BY <1>1, <1>2, BoundsAssumption DEF Init, Minded
<1>4. Mailed
  <2>1. IsFiniteSet({})
      BY FS_EmptySet
  <2> QED BY <1>1, <2>1 DEF Init, Mailed
<1>5. Sent
    BY <1>1 DEF Init, Sent
<1>6. Windows
  <2>1. Window(<< >>, << >>)
      BY <1>1, BoundsAssumption DEF Window
  <2> QED BY <2>1 DEF Init, Windows
<1>7. Founded
    BY <1>1 DEF Init, Founded, Separate, Known
<1>8. Accounted
  <2>1. ASSUME NEW a \in Actor
        PROVE  IsFiniteSet(Delivered(a)) /\ Handed(a) = reported[a]
    <3>1. Delivered(a) = {}
        BY <1>1 DEF Init, Delivered, From
    <3>2. IsFiniteSet({}) /\ Cardinality({}) = 0
        BY FS_EmptySet
    <3>3. Len(log[a]) = 0 /\ reported[a] = 0
        BY <1>1 DEF Init
    <3> QED BY <3>1, <3>2, <3>3 DEF Handed
  <2> QED BY <2>1 DEF Accounted
<1> QED BY <1>3, <1>4, <1>5, <1>6, <1>7, <1>8 DEF SocietyOK

LEMMA SocietyGoesOn == SocietyOK /\ [Next]_vars => SocietyOK'
<1> SUFFICES ASSUME SocietyOK, [Next]_vars
             PROVE  SocietyOK'
    OBVIOUS
<1>1. UNCHANGED messageVars => Mailed' /\ Sent' /\ Windows' /\ Accounted'
    BY DEF SocietyOK, Mailed, Sent, Windows, Accounted, Handed, Delivered, messageVars
<1>2. UNCHANGED << trustVars, edits >> => Minded' /\ Founded'
    BY DEF SocietyOK, Minded, Founded, trustVars
<1>3. CASE UNCHANGED vars
  <2>1. UNCHANGED messageVars /\ UNCHANGED << trustVars, edits >>
      BY <1>3 DEF vars, messageVars, trustVars
  <2> QED BY <1>1, <1>2, <2>1 DEF SocietyOK
<1>4. ASSUME NEW a \in Actor, Manage(a) \/ Learn(a)
      PROVE  SocietyOK'
  <2>1. Minded' /\ UNCHANGED messageVars
      BY <1>4, ManageMinded DEF SocietyOK
  <2>2. Founded'
      BY <1>4, ManageFounded DEF SocietyOK
  <2> QED BY <1>1, <2>1, <2>2 DEF SocietyOK
<1>5. ASSUME NEW a \in Actor, Talk(a)
      PROVE  SocietyOK'
  <2>1. Mailed' /\ Sent' /\ Windows' /\ UNCHANGED << trustVars, edits >>
      BY <1>5, TalkMailed DEF SocietyOK
  <2>2. Accounted'
      BY <1>5, TalkAccounted DEF SocietyOK
  <2> QED BY <1>2, <2>1, <2>2 DEF SocietyOK
<1> QED BY <1>3, <1>4, <1>5 DEF Next

LEMMA SocietyStaysOK == Spec => []SocietyOK
BY SocietyStarts, SocietyGoesOn, PTL DEF Spec

(* Trust stays in [0, 1] through every add, update, override, outcome and  *)
(* restore, and the messages keep their types.                             *)
THEOREM TrustStaysInRange == Spec => []TypeOK
<1>1. SocietyOK => TypeOK
  <2> SUFFICES ASSUME SocietyOK
               PROVE  TypeOK
      OBVIOUS
  <2>1. Affils = Seq(Row) /\ Mail = Seq(Letter)
      BY DEF Affils, Mail, Row, Letter
  <2>2. linked \subseteq Actor
      BY ActorsAssumption DEF SocietyOK, Mailed
  <2> QED BY <2>1, <2>2 DEF SocietyOK, Minded, Founded, Mailed, TypeOK
<1> QED BY <1>1, SocietyStaysOK, PTL

(* Saving and restoring an actor changes its trust in nobody but those     *)
(* whom update() made the target of an affiliation, whatever was added,    *)
(* overridden, reported, dropped and restored before.                      *)
THEOREM RestartKeepsTrust == Spec => []RestartChangesNothing
<1>1. SocietyOK => RestartChangesNothing
  <2> SUFFICES ASSUME SocietyOK, NEW a \in Actor, NEW t \in Target, ~ Moved(a, t)
               PROVE  Restored(a, t) = trust[a][t]
      BY DEF RestartChangesNothing
  <2> DEFINE rows == affil[a]
             mv == moved[a]
             tr == trust[a]
  <2>1. rows \in Seq(Row) /\ Known(rows, mv, tr)
      BY DEF SocietyOK, Minded, Founded
  <2>2. ~ \E k \in DOMAIN rows : rows[k].target = t /\ rows[k].id \in mv
      BY DEF Moved
  <2>3. Restored(a, t) = LoadedTrust(rows, t, tr[t])
      BY DEF Restored
  <2> HIDE DEF rows, mv, tr
  <2>4. LoadedTrust(rows, t, tr[t]) = tr[t]
      BY <2>1, <2>2, FoundedRestart
  <2> QED BY <2>3, <2>4 DEF tr
<1> QED BY <1>1, SocietyStaysOK, PTL

(* send_message and broadcast count what they hand over, message by        *)
(* message: neither a refused message is counted nor a sent one left out.  *)
THEOREM MessagesAccounted == Spec => []ReportsAreHonest
<1>1. SocietyOK => ReportsAreHonest
    BY DEF SocietyOK, Accounted, ReportsAreHonest
<1> QED BY <1>1, SocietyStaysOK, PTL

(* get_messages never shows a message that was sent without trust, nor one *)
(* from somebody the reader has stopped trusting since it was sent.        *)
THEOREM NobodyHearsTheDistrusted == Spec => []NoDistrustedTalk
<1>1. SocietyOK => NoDistrustedTalk
  <2> SUFFICES ASSUME SocietyOK, NEW b \in linked, NEW k \in DOMAIN Inbox(b)
               PROVE  /\ Inbox(b)[k].trusted >= Threshold
                      /\ TrustIn(trust[b], Inbox(b)[k].from) >= Threshold
      BY DEF NoDistrustedTalk
  <2> DEFINE s == mailbox[b]
             P == { i \in DOMAIN s : CheckTrust(b, s[i].from) }
             t == Inbox(b)
  <2>1. b \in Actor
      BY ActorsAssumption DEF SocietyOK, Mailed
  <2>2. s \in Seq(Letter) /\ \A i \in DOMAIN s : Careful(s[i])
      BY <2>1 DEF SocietyOK, Mailed, Sent
  <2>3. t = Kept(s, P)
      BY DEF Inbox
  <2>4. P \in SUBSET DOMAIN s /\ \A i \in P : CheckTrust(b, s[i].from)
      OBVIOUS
  <2>5. k \in DOMAIN t
      OBVIOUS
  <2> HIDE DEF s, P, t
  <2>6. Range(t) = { s[i] : i \in P }
      BY <2>2, <2>3, <2>4, KeptRange
  <2>7. PICK i \in P : t[k] = s[i]
      BY <2>5, <2>6 DEF Range
  <2>8. Careful(s[i]) /\ CheckTrust(b, s[i].from)
      BY <2>2, <2>4
  <2>9. t[k].trusted >= Threshold /\ TrustIn(trust[b], t[k].from) >= Threshold
      BY <2>7, <2>8 DEF Careful, CheckTrust
  <2> QED BY <2>9 DEF t
<1> QED BY <1>1, SocietyStaysOK, PTL

(* The local bus holds the most recent messages in their order, whatever   *)
(* its limit: nothing but the oldest is dropped.                           *)
THEOREM LocalBusKeepsLatest == Spec => []BusKeepsLatest
<1>1. SocietyOK => BusKeepsLatest
  <2> SUFFICES ASSUME SocietyOK, NEW a \in Actor
               PROVE  /\ Len(bus[a]) = IF Len(log[a]) < MaxLocal
                                       THEN Len(log[a]) ELSE MaxLocal
                      /\ IsSuffix(bus[a], log[a])
      BY DEF BusKeepsLatest
  <2> DEFINE s == bus[a]
             t == log[a]
             n == Len(s)
  <2>1. s \in Seq(Letter) /\ t \in Seq(Letter) /\ Window(s, t)
      BY DEF SocietyOK, Mailed, Windows
  <2>2. n = IF Len(t) < MaxLocal THEN Len(t) ELSE MaxLocal
      BY <2>1 DEF Window
  <2>3. n \in Nat /\ Len(t) \in Nat /\ n <= Len(t)
      BY <2>1, <2>2, BoundsAssumption
  <2>4. \A k \in 1..n : s[k] = t[Len(t) - n + k]
      BY <2>1 DEF Window
  <2> DEFINE s1 == Reverse(s)
             t1 == Reverse(t)
  <2>5. /\ Len(s1) = n /\ \A k \in 1..n : s1[k] = s[n - k + 1]
        /\ Len(t1) = Len(t) /\ \A k \in 1..Len(t) : t1[k] = t[Len(t) - k + 1]
        /\ s1 \in Seq(Letter) /\ t1 \in Seq(Letter)
      BY <2>1, <2>3 DEF Reverse
  <2> HIDE DEF s, t, s1, t1, n
  <2>6. ASSUME NEW k \in 1..n
        PROVE  s1[k] = t1[k]
    <3>1. k \in Int /\ 1 <= k /\ k <= n
        BY <2>3
    <3> DEFINE i == n - k + 1
    <3>2. i \in 1..n /\ Len(t) - n + i = Len(t) - k + 1
        BY <2>3, <3>1
    <3>3. s1[k] = s[i] /\ t1[k] = t[Len(t) - k + 1]
      <4>1. s1[k] = s[i]
          BY <2>5
      <4>2. k \in 1..Len(t)
          BY <2>3, <3>1
      <4>3. t1[k] = t[Len(t) - k + 1]
          BY <2>5, <4>2
      <4> QED BY <4>1, <4>3
    <3>4. s[i] = t[Len(t) - n + i]
        BY <2>4, <3>2
    <3> HIDE DEF i
    <3> QED BY <3>2, <3>3, <3>4
  <2>7. SubSeq(s1, 1, n) = SubSeq(t1, 1, n)
    <3>1. /\ SubSeq(s1, 1, n) = [k \in 1..n |-> s1[k]]
          /\ SubSeq(t1, 1, n) = [k \in 1..n |-> t1[k]]
        BY <2>3, <2>5
    <3> QED BY <2>6, <3>1
  <2>8. IsSuffix(s, t)
    <3>1. Len(s1) <= Len(t1) /\ SubSeq(s1, 1, Len(s1)) = SubSeq(t1, 1, Len(s1))
        BY <2>3, <2>5, <2>7
    <3>2. s1 = Reverse(s) /\ t1 = Reverse(t)
        BY DEF s1, t1
    <3> QED BY <3>1, <3>2 DEF IsSuffix, IsPrefix
  <2> QED BY <2>2, <2>8 DEF n, s, t
<1> QED BY <1>1, SocietyStaysOK, PTL

=============================================================================
