---------------------------- MODULE Parts_proofs ----------------------------
(***************************************************************************)
(* Proofs about the buses, and about the parts that no other part calls    *)
(* (Parts): who serves a name and for whom a capability runs, that beliefs *)
(* only fade, that runs and tasks are accounted for, that a degraded       *)
(* adapter is announced once, and that a decision can be carried out; for  *)
(* any providers, callers, tasks, runtimes, words and capabilities.  They  *)
(* share the lemma that there is a first among the best (ForemostExists).  *)
(***************************************************************************)
EXTENDS Parts, Lemmas

-----------------------------------------------------------------------------
(* The first of the highest: it exists, and is only one.                   *)

IsForemost(k, ks, score) ==
    \A m \in ks : /\ score[m] <= score[k]
                  /\ m < k => score[m] < score[k]

(* Among finitely many places there is one: there is no least number of    *)
(* places that would do without.                                           *)
LEMMA ForemostExists ==
    ASSUME NEW n \in Nat, NEW score \in [1..n -> Nat], NEW ks \in SUBSET (1..n), ks # {}
    PROVE  \E k \in ks : IsForemost(k, ks, score)
<1> DEFINE Without(m) == \E js \in SUBSET (1..m) :
                            /\ js # {} /\ js \subseteq ks
                            /\ ~ \E k \in js : IsForemost(k, js, score)
           bad == {m \in Nat : Without(m)}
<1>1. SUFFICES ASSUME bad # {}
               PROVE  FALSE
  <2>1. ~ Without(n)
      BY <1>1
  <2> QED BY <2>1
<1>2. PICK m \in bad : \A i \in bad : m <= i
  <2>1. bad \in SUBSET Nat
      OBVIOUS
  <2> HIDE DEF bad
  <2> QED BY <1>1, <2>1, LeastNumber
<1>3. /\ m \in Nat
      /\ \A i \in Nat : i < m => ~ Without(i)
  <2>1. m \in Nat
      OBVIOUS
  <2>2. ASSUME NEW i \in Nat, i < m, Without(i)
        PROVE  FALSE
    <3>1. i \in bad
        BY <2>2
    <3>2. m <= i
        BY <1>2, <3>1
    <3> QED BY <2>1, <2>2, <3>2
  <2> QED BY <2>1, <2>2
<1>4. PICK js \in SUBSET (1..m) : /\ js # {} /\ js \subseteq ks
                                  /\ ~ \E k \in js : IsForemost(k, js, score)
    BY <1>2
<1>5. m \in js /\ m > 0
  <2>1. CASE m \notin js \/ m = 0
    <3>1. m # 0 /\ m \notin js
      <4>1. PICK j \in js : TRUE
          BY <1>4
      <4>2. j \in 1..m
          BY <1>4
      <4> QED BY <1>3, <2>1, <4>2
    <3>2. js \in SUBSET (1..(m - 1)) /\ m - 1 \in Nat
        BY <1>3, <1>4, <3>1
    <3>3. Without(m - 1)
        BY <1>4, <3>2
    <3> HIDE DEF Without
    <3> QED BY <1>3, <3>2, <3>3
  <2> QED BY <1>3, <2>1
<1> DEFINE rest == js \ {m}
<1>6. CASE rest = {}
  <2>1. js = {m}
      BY <1>5, <1>6
  <2>2. IsForemost(m, js, score)
      BY <1>3, <1>4, <2>1 DEF IsForemost
  <2> QED BY <1>4, <1>5, <2>2
<1>7. CASE rest # {}
  <2>1. rest \in SUBSET (1..(m - 1)) /\ rest \subseteq ks /\ m - 1 \in Nat
      BY <1>3, <1>4, <1>5
  <2>2. ~ Without(m - 1)
    <3> HIDE DEF Without
    <3> QED BY <1>3, <2>1
  <2>3. PICK k \in rest : IsForemost(k, rest, score)
      BY <1>7, <2>1, <2>2
  <2>4. score[k] \in Nat /\ score[m] \in Nat /\ k \in js /\ k < m /\ k \in Nat
      BY <1>3, <1>4, <1>5, <2>1, <2>3
  <2>5. CASE score[m] <= score[k]
    <3>1. IsForemost(k, js, score)
        BY <1>3, <2>3, <2>4, <2>5 DEF IsForemost
    <3> QED BY <1>4, <2>4, <3>1
  <2>6. CASE score[m] > score[k]
    <3>1. IsForemost(m, js, score)
      <4> SUFFICES ASSUME NEW j \in js
                   PROVE  /\ score[j] <= score[m]
                          /\ j < m => score[j] < score[m]
          BY DEF IsForemost
      <4>1. CASE j = m
          BY <1>3, <2>4, <4>1
      <4>2. CASE j \in rest
        <5>1. score[j] <= score[k] /\ score[j] \in Nat
            BY <1>4, <2>3, <4>2 DEF IsForemost
        <5> QED BY <2>4, <2>6, <5>1
      <4> QED BY <4>1, <4>2
    <3> QED BY <1>4, <1>5, <3>1
  <2> QED BY <2>4, <2>5, <2>6
<1> QED BY <1>6, <1>7

(* The one that Foremost names is such a one.                              *)
LEMMA ForemostIs ==
    ASSUME NEW n \in Nat, NEW score \in [1..n -> Nat], NEW ks \in SUBSET (1..n), ks # {}
    PROVE  /\ Foremost(ks, score) \in ks
           /\ IsForemost(Foremost(ks, score), ks, score)
<1>1. \E k \in ks : IsForemost(k, ks, score)
    BY ForemostExists
<1>2. Foremost(ks, score) = CHOOSE k \in ks : IsForemost(k, ks, score)
    BY DEF Foremost, IsForemost
<1> QED BY <1>1, <1>2

(* And no other place is.                                                  *)
LEMMA ForemostUnique ==
    ASSUME NEW n \in Nat, NEW score \in [1..n -> Nat], NEW ks \in SUBSET (1..n),
           NEW k \in ks, IsForemost(k, ks, score)
    PROVE  Foremost(ks, score) = k
<1> DEFINE f == Foremost(ks, score)
<1>1. f \in ks /\ IsForemost(f, ks, score)
    BY ForemostIs
<1>2. f \in Nat /\ k \in Nat /\ score[f] \in Nat /\ score[k] \in Nat
  <2> HIDE DEF f
  <2> QED BY <1>1
<1>3. /\ score[k] <= score[f] /\ (k < f => score[k] < score[f])
      /\ score[f] <= score[k] /\ (f < k => score[f] < score[k])
    BY <1>1, <1>2 DEF IsForemost
<1> HIDE DEF f
<1>4. f = k
    BY <1>2, <1>3
<1> QED BY <1>4 DEF f

(* One place more, with a score: it is foremost if it is the only one, or  *)
(* if its score is higher; otherwise nothing changes.                      *)
LEMMA OneMorePlace ==
    ASSUME NEW n \in Nat, NEW score \in [1..n -> Nat], NEW more \in [1..(n + 1) -> Nat],
           NEW ks \in SUBSET (1..n),
           \A k \in 1..n : more[k] = score[k]
    PROVE  /\ Foremost(ks, more) = Foremost(ks, score)
           /\ ks = {} => Foremost(ks \cup {n + 1}, more) = n + 1
           /\ ks # {} => Foremost(ks \cup {n + 1}, more)
                           = IF more[n + 1] > score[Foremost(ks, score)] THEN n + 1
                             ELSE Foremost(ks, score)
<1> DEFINE js == ks \cup {n + 1}
           f  == Foremost(ks, score)
<1>1. /\ js \in SUBSET (1..(n + 1)) /\ js # {} /\ n + 1 \in Nat
    OBVIOUS
<1>2. Foremost(ks, more) = f
    BY DEF Foremost
<1>3. n + 1 \in js
    OBVIOUS
<1>4. ASSUME ks = {}
      PROVE  Foremost(js, more) = n + 1
  <2>1. IsForemost(n + 1, js, more)
      BY <1>1, <1>4 DEF IsForemost
  <2> HIDE DEF js
  <2> QED BY <1>1, <1>3, <2>1, ForemostUnique
<1>5. ASSUME ks # {}
      PROVE  Foremost(js, more) = IF more[n + 1] > score[f] THEN n + 1 ELSE f
  <2>1. f \in ks /\ IsForemost(f, ks, score)
      BY <1>5, ForemostIs
  <2>2. score[f] \in Nat /\ more[f] = score[f] /\ f \in 1..n
      BY <2>1
  <2> HIDE DEF f
  <2>3. CASE more[n + 1] > score[f]
    <3>1. IsForemost(n + 1, js, more)
        BY <2>1, <2>2, <2>3 DEF IsForemost
    <3> HIDE DEF js
    <3> QED BY <1>1, <1>3, <2>3, <3>1, ForemostUnique
  <2>4. CASE ~ (more[n + 1] > score[f])
    <3>1. IsForemost(f, js, more)
        BY <2>1, <2>2, <2>4 DEF IsForemost
    <3>2. f \in js
        BY <2>1
    <3> HIDE DEF js
    <3> QED BY <1>1, <2>4, <3>1, <3>2, ForemostUnique
  <2> QED BY <2>3, <2>4
<1> QED BY <1>2, <1>4, <1>5

-----------------------------------------------------------------------------
(* What is registered, and what a call may hold.                           *)

Scores(cs) == [k \in DOMAIN cs |-> cs[k].proficiency]
Nearness(cs, n) == [k \in DOMAIN cs |-> Overlap(n, cs[k].name)]

(* Scores are numbers.                                                     *)
LEMMA ScoresType ==
    ASSUME NEW cs \in Seq(Providers), NEW n \in Name
    PROVE  /\ Len(cs) \in Nat /\ DOMAIN cs = 1..Len(cs)
           /\ \A k \in DOMAIN cs : cs[k] \in Providers /\ cs[k].name \in Name
           /\ Scores(cs) \in [1..Len(cs) -> Nat]
           /\ Nearness(cs, n) \in [1..Len(cs) -> Nat]
           /\ \A m : ProvidersOf(cs, m) \in SUBSET (1..Len(cs))
<1>1. Len(cs) \in Nat /\ DOMAIN cs = 1..Len(cs)
    OBVIOUS
<1>2. \A k \in DOMAIN cs : /\ cs[k] \in Providers /\ cs[k].name \in Name
                           /\ cs[k].proficiency \in Nat
  <2> SUFFICES ASSUME NEW k \in DOMAIN cs
               PROVE  /\ cs[k] \in Providers /\ cs[k].name \in Name
                      /\ cs[k].proficiency \in Nat
      OBVIOUS
  <2>1. cs[k] \in Providers
      OBVIOUS
  <2> QED BY <2>1, ProvidersAssumption
<1>3. \A m \in Name : Overlap(n, m) \in Nat
  <2> SUFFICES ASSUME NEW m \in Name
               PROVE  Cardinality(Words[n] \cap Words[m]) \in Nat
      BY DEF Overlap
  <2>1. IsFiniteSet(Words[n] \cap Words[m])
      BY WordsAssumption, FS_Intersection
  <2> QED BY <2>1, FS_CardinalityType
<1> QED BY <1>1, <1>2, <1>3 DEF Scores, Nearness, ProvidersOf

(* The best of some places is one of them.                                 *)
LEMMA BestIsOne ==
    ASSUME NEW cs \in Seq(Providers), NEW n \in Name, ProvidersOf(cs, n) # {}
    PROVE  /\ Best(cs, ProvidersOf(cs, n)) \in Providers
           /\ Best(cs, ProvidersOf(cs, n)).name = n
<1> DEFINE k == Foremost(ProvidersOf(cs, n), Scores(cs))
<1>1. k \in ProvidersOf(cs, n)
    BY ScoresType, ForemostIs
<1>2. Best(cs, ProvidersOf(cs, n)) = cs[k]
    BY DEF Best, Scores
<1> QED BY <1>1, <1>2, ScoresType DEF ProvidersOf

(* Of the agents of a name the nearest is one of them.                     *)
LEMMA NearestIsOne ==
    ASSUME NEW cs \in Seq(Providers), NEW n \in Name, cs # << >>
    PROVE  LET k == Foremost(DOMAIN cs, Nearness(cs, n))
           IN  /\ k \in DOMAIN cs
               /\ IsForemost(k, DOMAIN cs, Nearness(cs, n))
               /\ FuzzyName(cs, n) = cs[k].name
               /\ FuzzyName(cs, n) \in Name
               /\ ProvidersOf(cs, FuzzyName(cs, n)) # {}
<1> DEFINE k == Foremost(DOMAIN cs, Nearness(cs, n))
<1>1. /\ Len(cs) \in Nat /\ DOMAIN cs = 1..Len(cs)
      /\ Nearness(cs, n) \in [1..Len(cs) -> Nat]
    BY ScoresType
<1>2. DOMAIN cs # {}
  <2>1. Len(cs) # 0
      OBVIOUS
  <2> QED BY <1>1, <2>1
<1>4. k \in DOMAIN cs /\ IsForemost(k, DOMAIN cs, Nearness(cs, n))
    BY <1>1, <1>2, ForemostIs
<1>3. FuzzyName(cs, n) = cs[k].name
    BY DEF FuzzyName, Nearness
<1> QED BY <1>3, <1>4, ScoresType DEF ProvidersOf

(* What is selected is an agent, or nobody.                                *)
LEMMA SelectType ==
    ASSUME NEW cs \in Seq(Providers), NEW n \in Name
    PROVE  Select(cs, n) \in Providers \cup {NoOne}
<1>1. CASE ProvidersOf(cs, n) # {}
    BY <1>1, BestIsOne DEF Select
<1>2. CASE ProvidersOf(cs, n) = {} /\ \A k \in DOMAIN cs : Overlap(n, cs[k].name) = 0
    BY <1>2 DEF Select, FuzzySelect
<1>3. CASE /\ ProvidersOf(cs, n) = {}
           /\ ~ \A k \in DOMAIN cs : Overlap(n, cs[k].name) = 0
  <2>1. cs # << >>
      BY <1>3
  <2>2. Best(cs, ProvidersOf(cs, FuzzyName(cs, n))) \in Providers
      BY <2>1, NearestIsOne, BestIsOne
  <2> QED BY <1>3, <2>2 DEF Select, FuzzySelect
<1> QED BY <1>1, <1>2, <1>3

-----------------------------------------------------------------------------
(* Nobody runs what he may not run.                                        *)

Handling == [at : {"handling"}, name : Name, by : Agents \cup {NoOne}]
Results  == [at : {"done"}, name : Name, by : Server, granted : SUBSET Permission,
             success : BOOLEAN, failed : BOOLEAN]

(* Who is asked for is an agent of the bus, or one of another registry.    *)
CallOK(r) ==
    \/ r = Idle
    \/ r \in Handling
    \/ r \in Results /\ (r.by \in Providers => r.by.needs \subseteq r.granted)

CallsOK ==
    /\ capabilities \in Seq(Providers)
    /\ agents \in [Name -> Agents \cup {NoOne}]
    /\ DOMAIN call = Call
    /\ \A c \in Call : CallOK(call[c])

(* Nobody is not a provider.                                               *)
LEMMA NeitherIsProvider ==
    ASSUME NEW g \in Agents \cup {NoOne}
    PROVE  g \notin Providers /\ g \in Server
<1>1. ASSUME g \in Agents, g \in Providers
      PROVE  FALSE
  <2>1. DOMAIN g = {"name", "id"}
      BY <1>1, AgentsAssumption
  <2>2. "needs" \in DOMAIN g
      BY <1>1, ProvidersAssumption
  <2> QED BY <2>1, <2>2
<1> QED BY <1>1, NoOneAssumption DEF Server

(* A result that no capability has given claims nothing.                   *)
LEMMA NoCapability ==
    ASSUME NEW n \in Name, NEW g \in Agents \cup {NoOne}, NEW granted \in SUBSET Permission,
           NEW success \in BOOLEAN, NEW failed \in BOOLEAN
    PROVE  CallOK(Result(n, g, granted, success, failed))
BY NeitherIsProvider DEF CallOK, Result, Results

(* A result that a capability has given, to somebody who may have it.      *)
LEMMA ByCapability ==
    ASSUME NEW n \in Name, NEW p \in Providers, NEW granted \in SUBSET Permission,
           NEW success \in BOOLEAN, NEW failed \in BOOLEAN, p.needs \subseteq granted
    PROVE  CallOK(Result(n, p, granted, success, failed))
BY DEF CallOK, Result, Results, Server

(* Only one call changes.                                                  *)
LEMMA OneCall ==
    ASSUME CallsOK, NEW c \in Call, NEW r, CallOK(r),
           call' = [call EXCEPT ![c] = r], UNCHANGED << capabilities, agents >>
    PROVE  CallsOK'
<1>1. DOMAIN call' = Call /\ \A d \in Call : call'[d] = IF d = c THEN r ELSE call[d]
    BY DEF CallsOK
<1> QED BY <1>1 DEF CallsOK

(* Serving a call.                                                         *)
LEMMA ServeStep ==
    ASSUME CallsOK, NEW c \in Call, Serve(c)
    PROVE  CallsOK'
<1>1. CallOK(call[c]) /\ capabilities \in Seq(Providers)
      /\ agents \in [Name -> Agents \cup {NoOne}]
    BY DEF CallsOK
<1>2. Grants \subseteq SUBSET Permission
    BY GrantsAssumption
<1>3. ASSUME NEW n \in Name, NEW granted \in Grants,
             Refuse(c, n, granted) \/ FailByChance(c, n, granted)
      PROVE  CallsOK'
  <2>1. CallOK(Result(n, NoOne, granted, FALSE, TRUE))
      BY <1>2, NoCapability
  <2> QED BY <1>3, <2>1, OneCall DEF Refuse, FailByChance
<1>4. ASSUME NEW n \in Name, NEW granted \in Grants, Execute(c, n, granted)
      PROVE  CallsOK'
  <2> DEFINE p == Select(capabilities, n)
             r == Result(n, p, granted, p.answer \in {"produces", "no callable"},
                         p.answer # "produces")
  <2>1. p \in Providers
      BY <1>1, <1>4, SelectType DEF Execute
  <2>2. p.needs \subseteq granted
      BY <1>4 DEF Execute, Needs
  <2>3. call' = [call EXCEPT ![c] = r] /\ UNCHANGED << capabilities, agents >>
      BY <1>4 DEF Execute
  <2>4. CallOK(r)
    <3>1. /\ (p.answer \in {"produces", "no callable"}) \in BOOLEAN
          /\ (p.answer # "produces") \in BOOLEAN
        OBVIOUS
    <3> HIDE DEF p
    <3> QED BY <1>2, <2>1, <2>2, <3>1, ByCapability
  <2> HIDE DEF r
  <2> QED BY <2>3, <2>4, OneCall
<1>5. ASSUME NEW n \in Name, AskAgent(c, n)
      PROVE  CallsOK'
  <2>1. CallOK([at |-> "handling", name |-> n, by |-> agents[n]])
      BY <1>1 DEF CallOK, Handling
  <2> QED BY <1>5, <2>1, OneCall DEF AskAgent
<1>6. ASSUME NEW n \in Name, MissAgent(c, n)
      PROVE  CallsOK'
  <2>1. CallOK(Result(n, NoOne, {}, FALSE, TRUE))
      BY NoCapability
  <2> QED BY <1>6, <2>1, OneCall DEF MissAgent
<1>7. ASSUME call[c].at = "handling"
      PROVE  call[c].name \in Name /\ call[c].by \in Agents \cup {NoOne}
    BY <1>1, <1>7 DEF CallOK, Handling, Results, Idle
<1>8. ASSUME NEW raw \in Raw, AgentAnswers(c, raw)
      PROVE  CallsOK'
  <2> DEFINE r == Result(call[c].name, call[c].by, {}, Success(raw), raw.failed)
  <2>1. call[c].at = "handling" /\ call' = [call EXCEPT ![c] = r]
        /\ UNCHANGED << capabilities, agents >>
      BY <1>8 DEF AgentAnswers, CallsOK
  <2>2. Success(raw) \in BOOLEAN /\ raw.failed \in BOOLEAN
      BY DEF Success, Raw
  <2>3. CallOK(r)
      BY <1>7, <2>1, <2>2, NoCapability
  <2> HIDE DEF r
  <2> QED BY <2>1, <2>3, OneCall
<1>9. CASE AgentRaises(c)
  <2> DEFINE r == Result(call[c].name, call[c].by, {}, FALSE, TRUE)
  <2>1. call[c].at = "handling" /\ call' = [call EXCEPT ![c] = r]
        /\ UNCHANGED << capabilities, agents >>
      BY <1>9 DEF AgentRaises, CallsOK
  <2>2. CallOK(r)
      BY <1>7, <2>1, NoCapability
  <2> HIDE DEF r
  <2> QED BY <2>1, <2>2, OneCall
<1>10. CASE Take(c)
  <2>1. CallOK(Idle)
      BY DEF CallOK
  <2> QED BY <1>10, <2>1, OneCall DEF Take
<1> QED BY <1>3, <1>4, <1>5, <1>6, <1>8, <1>9, <1>10 DEF Serve

(* Registering and leaving.                                                *)
LEMMA RegisterStep ==
    ASSUME CallsOK, Register
    PROVE  CallsOK'
<1>1. ASSUME NEW p \in Providers, RegisterCapability(p)
      PROVE  CallsOK'
  <2>1. capabilities' \in Seq(Providers)
      BY <1>1 DEF RegisterCapability, CallsOK
  <2> QED BY <1>1, <2>1 DEF RegisterCapability, CallsOK
<1>2. ASSUME NEW g \in Agents, RegisterAgent(g)
      PROVE  CallsOK'
  <2>1. agents' \in [Name -> Agents \cup {NoOne}]
      BY <1>2 DEF RegisterAgent, CallsOK
  <2> QED BY <1>2, <2>1 DEF RegisterAgent, CallsOK
<1> QED BY <1>1, <1>2 DEF Register

(* The invariant of the calls: each is idle, waits for one agent, or has a *)
(* result, and who gave the result had the permissions it needs.           *)
THEOREM CallsInvariant == Spec => []CallsOK
<1>1. Init => CallsOK
    BY DEF Init, CallsOK, CallOK
<1>2. CallsOK /\ [Next]_vars => CallsOK'
    BY RegisterStep, ServeStep DEF Next, vars, CallsOK
<1> QED BY <1>1, <1>2, PTL DEF Spec

(* Types: what a call holds is a call in progress or a result.             *)
THEOREM TypeCorrect == Spec => []TypeOK
<1>1. CallsOK => TypeOK
  <2> SUFFICES ASSUME CallsOK, NEW c \in Call
               PROVE  call[c] \in {Idle} \cup [at : {"handling"}, name : Name, by : Server]
                                  \cup Results
      BY DEF TypeOK, Results, CallsOK
  <2>1. Agents \cup {NoOne} \subseteq Server
      BY NeitherIsProvider
  <2> QED BY <2>1 DEF CallsOK, CallOK, Handling
<1> QED BY <1>1, CallsInvariant, PTL

(* check_authorization and execute agree on who would run, also when a     *)
(* name is only near: no capability has run for a caller who lacks one of  *)
(* the permissions that it requires.                                       *)
THEOREM OnlyAuthorizedRuns == Spec => []NoUnauthorizedRun
<1>1. CallsOK => NoUnauthorizedRun
    BY NeitherIsProvider DEF CallsOK, CallOK, NoUnauthorizedRun, Results, Handling, Idle
<1> QED BY <1>1, CallsInvariant, PTL

-----------------------------------------------------------------------------
(* One provider more.                                                      *)

LEMMA AppendFacts ==
    ASSUME NEW cs \in Seq(Providers), NEW p \in Providers, NEW n \in Name
    PROVE  LET ds == Append(cs, p)
               l  == Len(cs)
           IN  /\ ds \in Seq(Providers) /\ l \in Nat
               /\ DOMAIN cs = 1..l /\ DOMAIN ds = DOMAIN cs \cup {l + 1}
               /\ \A k \in DOMAIN cs : ds[k] = cs[k]
               /\ ds[l + 1] = p /\ p.name \in Name
               /\ Scores(cs) \in [1..l -> Nat] /\ Scores(ds) \in [1..(l + 1) -> Nat]
               /\ \A k \in 1..l : Scores(ds)[k] = Scores(cs)[k]
               /\ Scores(ds)[l + 1] = p.proficiency
               /\ Nearness(cs, n) \in [1..l -> Nat]
               /\ Nearness(ds, n) \in [1..(l + 1) -> Nat]
               /\ \A k \in 1..l : Nearness(ds, n)[k] = Nearness(cs, n)[k]
               /\ Nearness(ds, n)[l + 1] = Overlap(n, p.name)
               /\ \A m : ProvidersOf(cs, m) \in SUBSET (1..l)
               /\ \A m : ProvidersOf(ds, m) = IF p.name = m
                                              THEN ProvidersOf(cs, m) \cup {l + 1}
                                              ELSE ProvidersOf(cs, m)
<1> DEFINE ds == Append(cs, p)
           l  == Len(cs)
<1>1. /\ ds \in Seq(Providers) /\ l \in Nat /\ Len(ds) = l + 1
      /\ DOMAIN cs = 1..l /\ DOMAIN ds = 1..(l + 1)
      /\ DOMAIN ds = DOMAIN cs \cup {l + 1}
      /\ \A k \in DOMAIN cs : ds[k] = cs[k]
      /\ ds[l + 1] = p
    OBVIOUS
<1> HIDE DEF ds, l
<1>2. p.name \in Name
    BY ProvidersAssumption
<1>3. /\ Scores(cs) \in [1..l -> Nat] /\ Scores(ds) \in [1..(l + 1) -> Nat]
      /\ Nearness(cs, n) \in [1..l -> Nat] /\ Nearness(ds, n) \in [1..(l + 1) -> Nat]
      /\ \A m : ProvidersOf(cs, m) \in SUBSET (1..l)
  <2>1. Len(cs) = l
      BY DEF l
  <2> QED BY <1>1, <2>1, ScoresType
<1>4. /\ \A k \in 1..l : Scores(ds)[k] = Scores(cs)[k]
      /\ Scores(ds)[l + 1] = p.proficiency
      /\ \A k \in 1..l : Nearness(ds, n)[k] = Nearness(cs, n)[k]
      /\ Nearness(ds, n)[l + 1] = Overlap(n, p.name)
    BY <1>1 DEF Scores, Nearness
<1>5. \A m : ProvidersOf(ds, m) = IF p.name = m THEN ProvidersOf(cs, m) \cup {l + 1}
                                  ELSE ProvidersOf(cs, m)
    BY <1>1 DEF ProvidersOf
<1> QED BY <1>1, <1>2, <1>3, <1>4, <1>5 DEF ds, l

(* The best provider of a name changes only to a more proficient one.      *)
LEMMA BestAfter ==
    ASSUME NEW cs \in Seq(Providers), NEW p \in Providers, NEW m \in Name
    PROVE  LET ds  == Append(cs, p)
               old == Best(cs, ProvidersOf(cs, m))
               new == Best(ds, ProvidersOf(ds, m))
           IN  /\ ProvidersOf(cs, m) = {} /\ p.name = m => new = p
               /\ ProvidersOf(cs, m) # {} /\ p.name # m => new = old
               /\ ProvidersOf(cs, m) # {} /\ p.name = m =>
                     new = IF p.proficiency > old.proficiency THEN p ELSE old
<1> DEFINE ds  == Append(cs, p)
           l   == Len(cs)
           ks  == ProvidersOf(cs, m)
           js  == ProvidersOf(ds, m)
           f   == Foremost(ks, Scores(cs))
           g   == Foremost(js, Scores(ds))
<1>1. /\ l \in Nat /\ DOMAIN cs = 1..l
      /\ \A k \in DOMAIN cs : ds[k] = cs[k]
      /\ ds[l + 1] = p
      /\ Scores(cs) \in [1..l -> Nat] /\ Scores(ds) \in [1..(l + 1) -> Nat]
      /\ \A k \in 1..l : Scores(ds)[k] = Scores(cs)[k]
      /\ Scores(ds)[l + 1] = p.proficiency
      /\ ks \in SUBSET (1..l)
      /\ js = IF p.name = m THEN ks \cup {l + 1} ELSE ks
    BY AppendFacts
<1>2. Best(cs, ks) = cs[f] /\ Best(ds, js) = ds[g]
    BY DEF Best, Scores
<1>3. ks # {} => f \in ks /\ Scores(cs)[f] = cs[f].proficiency
  <2>1. ks # {} => f \in ks
      BY <1>1, ForemostIs
  <2> QED BY <1>1, <2>1 DEF Scores
<1>4. /\ p.name # m => g = Foremost(ks, Scores(ds))
      /\ p.name = m => g = Foremost(ks \cup {l + 1}, Scores(ds))
    BY <1>1
<1>5. /\ Foremost(ks, Scores(ds)) = f
      /\ ks = {} => Foremost(ks \cup {l + 1}, Scores(ds)) = l + 1
      /\ ks # {} => Foremost(ks \cup {l + 1}, Scores(ds))
                      = IF Scores(ds)[l + 1] > Scores(cs)[f] THEN l + 1 ELSE f
  <2> DEFINE held == Scores(cs)
             more == Scores(ds)
  <2>2. /\ l \in Nat /\ held \in [1..l -> Nat] /\ more \in [1..(l + 1) -> Nat]
        /\ ks \in SUBSET (1..l) /\ \A k \in 1..l : more[k] = held[k]
      BY <1>1
  <2>3. f = Foremost(ks, held)
      OBVIOUS
  <2> HIDE DEF ds, ks, f, l, held, more
  <2>4. /\ Foremost(ks, more) = Foremost(ks, held)
        /\ ks = {} => Foremost(ks \cup {l + 1}, more) = l + 1
        /\ ks # {} => Foremost(ks \cup {l + 1}, more)
                        = IF more[l + 1] > held[Foremost(ks, held)] THEN l + 1
                          ELSE Foremost(ks, held)
      BY <2>2, OneMorePlace, Zenon
  <2> QED BY <2>3, <2>4 DEF held, more
<1> HIDE DEF ds, ks, js, f, g, l
<1>6. /\ ks = {} /\ p.name = m => ds[g] = p
      /\ ks # {} /\ p.name # m => ds[g] = cs[f]
      /\ ks # {} /\ p.name = m =>
            ds[g] = IF p.proficiency > cs[f].proficiency THEN p ELSE cs[f]
    BY <1>1, <1>3, <1>4, <1>5
<1> QED BY <1>2, <1>6 DEF ds, ks, js

(* And the nearest name only to a nearer one.                              *)
LEMMA NearestAfter ==
    ASSUME NEW cs \in Seq(Providers), NEW p \in Providers, NEW n \in Name
    PROVE  LET ds == Append(cs, p)
           IN  /\ cs = << >> => FuzzyName(ds, n) = p.name
               /\ cs # << >> =>
                     FuzzyName(ds, n) = IF Overlap(n, p.name) > Overlap(n, FuzzyName(cs, n))
                                        THEN p.name ELSE FuzzyName(cs, n)
<1> DEFINE ds == Append(cs, p)
           l  == Len(cs)
           ks == DOMAIN cs
           js == DOMAIN ds
           f  == Foremost(ks, Nearness(cs, n))
           g  == Foremost(js, Nearness(ds, n))
<1>1. /\ l \in Nat /\ ks = 1..l /\ js = ks \cup {l + 1}
      /\ \A k \in ks : ds[k] = cs[k]
      /\ ds[l + 1] = p
      /\ Nearness(cs, n) \in [1..l -> Nat] /\ Nearness(ds, n) \in [1..(l + 1) -> Nat]
      /\ \A k \in 1..l : Nearness(ds, n)[k] = Nearness(cs, n)[k]
      /\ Nearness(ds, n)[l + 1] = Overlap(n, p.name)
    BY AppendFacts
<1>2. FuzzyName(cs, n) = cs[f].name /\ FuzzyName(ds, n) = ds[g].name
    BY DEF FuzzyName, Nearness
<1>3. ks # {} => f \in ks /\ Nearness(cs, n)[f] = Overlap(n, cs[f].name)
  <2>1. ks # {} => f \in ks
      BY <1>1, ForemostIs
  <2> QED BY <1>1, <2>1 DEF Nearness
<1>4. (cs = << >>) <=> (ks = {})
    OBVIOUS
<1>5. /\ ks = {} => g = l + 1
      /\ ks # {} => g = IF Nearness(ds, n)[l + 1] > Nearness(cs, n)[f] THEN l + 1 ELSE f
  <2>1. g = Foremost(ks \cup {l + 1}, Nearness(ds, n))
      BY <1>1
  <2> DEFINE near == Nearness(cs, n)
             more == Nearness(ds, n)
  <2>2. /\ l \in Nat /\ near \in [1..l -> Nat] /\ more \in [1..(l + 1) -> Nat]
        /\ ks \in SUBSET (1..l) /\ \A k \in 1..l : more[k] = near[k]
      BY <1>1
  <2>3. f = Foremost(ks, near) /\ g = Foremost(ks \cup {l + 1}, more)
      BY <2>1
  <2> HIDE DEF ds, ks, js, f, g, l, near, more
  <2>4. /\ Foremost(ks, more) = Foremost(ks, near)
        /\ ks = {} => Foremost(ks \cup {l + 1}, more) = l + 1
        /\ ks # {} => Foremost(ks \cup {l + 1}, more)
                        = IF more[l + 1] > near[Foremost(ks, near)] THEN l + 1
                          ELSE Foremost(ks, near)
      BY <2>2, OneMorePlace, Zenon
  <2> QED BY <2>3, <2>4 DEF near, more
<1> HIDE DEF ds, ks, js, f, g, l
<1> QED BY <1>1, <1>2, <1>3, <1>4, <1>5 DEF ds

(* Who serves a name after a registration: the one who did, or the         *)
(* newcomer, who is then better for it.                                    *)
LEMMA NewcomerIsBetter ==
    ASSUME NEW cs \in Seq(Providers), NEW p \in Providers, NEW n \in Name,
           Select(Append(cs, p), n) # Select(cs, n)
    PROVE  /\ Select(Append(cs, p), n) = p
           /\ BetterFor(n, p, Select(cs, n))
<1> DEFINE ds == Append(cs, p)
           l  == Len(cs)
<1>1. /\ ds \in Seq(Providers) /\ DOMAIN ds = DOMAIN cs \cup {l + 1}
      /\ \A k \in DOMAIN cs : ds[k] = cs[k] /\ cs[k].name \in Name
      /\ ds[l + 1] = p /\ p.name \in Name
      /\ \A m : ProvidersOf(ds, m) = IF p.name = m THEN ProvidersOf(cs, m) \cup {l + 1}
                                     ELSE ProvidersOf(cs, m)
    BY AppendFacts, ScoresType
<1>2. \A m \in Name : ProvidersOf(cs, m) # {} =>
          Best(cs, ProvidersOf(cs, m)) \in Providers /\ Best(cs, ProvidersOf(cs, m)).name = m
    BY BestIsOne
<1>3. \A m \in Name : Overlap(n, m) \in Nat
  <2>1. \A m \in Name : IsFiniteSet(Words[n] \cap Words[m])
      BY WordsAssumption, FS_Intersection
  <2> QED BY <2>1, FS_CardinalityType DEF Overlap
<1>4. CASE ProvidersOf(cs, n) # {}
  <2>1. Select(cs, n) = Best(cs, ProvidersOf(cs, n))
      BY <1>4 DEF Select
  <2>2. Select(ds, n) = Best(ds, ProvidersOf(ds, n))
      BY <1>1, <1>4 DEF Select
  <2> QED BY <1>2, <1>4, <2>1, <2>2, BestAfter DEF BetterFor
<1>5. CASE ProvidersOf(cs, n) = {} /\ p.name = n
  <2>1. Select(ds, n) = p
      BY <1>1, <1>5, BestAfter DEF Select
  <2>2. Select(cs, n) = NoOne \/ Select(cs, n).name # n
    <3>1. CASE \A k \in DOMAIN cs : Overlap(n, cs[k].name) = 0
        BY <1>5, <3>1 DEF Select, FuzzySelect
    <3>2. CASE ~ \A k \in DOMAIN cs : Overlap(n, cs[k].name) = 0
      <4> DEFINE near == FuzzyName(cs, n)
      <4>1. near \in Name /\ ProvidersOf(cs, near) # {}
        <5>1. cs # << >>
            BY <3>2
        <5> QED BY <5>1, NearestIsOne
      <4>2. Select(cs, n) = Best(cs, ProvidersOf(cs, near))
          BY <1>5, <3>2 DEF Select, FuzzySelect
      <4> QED BY <1>2, <1>5, <4>1, <4>2
    <3> QED BY <3>1, <3>2
  <2> QED BY <1>5, <2>1, <2>2 DEF BetterFor, Nearer
<1>6. CASE ProvidersOf(cs, n) = {} /\ p.name # n
  <2> DEFINE near == FuzzyName(cs, n)
             Far(xs) == \A k \in DOMAIN xs : Overlap(n, xs[k].name) = 0
             o == Overlap(n, p.name)
  <2>1. /\ Select(cs, n) = IF Far(cs) THEN NoOne ELSE Best(cs, ProvidersOf(cs, near))
        /\ Select(ds, n) = IF Far(ds) THEN NoOne
                           ELSE Best(ds, ProvidersOf(ds, FuzzyName(ds, n)))
      BY <1>1, <1>6 DEF Select, FuzzySelect
  <2>2. Far(ds) <=> Far(cs) /\ o = 0
      BY <1>1
  <2>3. o \in Nat
      BY <1>1, <1>3
  <2>4. cs # << >> => /\ near \in Name /\ ProvidersOf(cs, near) # {}
                      /\ \A k \in DOMAIN cs : Overlap(n, cs[k].name) <= Overlap(n, near)
    <3> SUFFICES ASSUME cs # << >>
                 PROVE  /\ near \in Name /\ ProvidersOf(cs, near) # {}
                        /\ \A k \in DOMAIN cs : Overlap(n, cs[k].name) <= Overlap(n, near)
        OBVIOUS
    <3> DEFINE f == Foremost(DOMAIN cs, Nearness(cs, n))
    <3>1. /\ f \in DOMAIN cs /\ IsForemost(f, DOMAIN cs, Nearness(cs, n))
          /\ near = cs[f].name /\ near \in Name /\ ProvidersOf(cs, near) # {}
        BY NearestIsOne
    <3> HIDE DEF f
    <3>2. \A k \in DOMAIN cs : Nearness(cs, n)[k] = Overlap(n, cs[k].name)
        BY DEF Nearness
    <3> QED BY <3>1, <3>2 DEF IsForemost
  <2> HIDE DEF near
  <2>5. CASE Far(cs)
    <3>1. o > 0 /\ Select(cs, n) = NoOne
        BY <2>1, <2>2, <2>3, <2>5
    <3>2. ProvidersOf(cs, p.name) = {}
        BY <2>5, <3>1 DEF ProvidersOf
    <3>3. FuzzyName(ds, n) = p.name
      <4>1. CASE cs = << >>
          BY <4>1, NearestAfter
      <4>2. CASE cs # << >>
        <5>1. Overlap(n, near) = 0
            BY <2>4, <2>5, <4>2 DEF ProvidersOf
        <5> QED BY <3>1, <4>2, <5>1, NearestAfter DEF near
      <4> QED BY <4>1, <4>2
    <3>4. Select(ds, n) = p
        BY <1>1, <2>1, <2>2, <2>3, <3>1, <3>2, <3>3, BestAfter
    <3> QED BY <3>1, <3>4 DEF BetterFor
  <2>6. CASE ~ Far(cs)
    <3>1. cs # << >>
        BY <2>6
    <3>2. Select(cs, n) = Best(cs, ProvidersOf(cs, near))
          /\ Select(ds, n) = Best(ds, ProvidersOf(ds, FuzzyName(ds, n)))
        BY <2>1, <2>2, <2>6
    <3>3. Select(cs, n).name = near /\ near # n
        BY <1>2, <1>6, <2>4, <3>1, <3>2
    <3>4. CASE o > Overlap(n, near)
      <4>1. FuzzyName(ds, n) = p.name
          BY <3>1, <3>4, NearestAfter DEF near
      <4>2. ProvidersOf(cs, p.name) = {}
          BY <1>1, <1>3, <2>3, <2>4, <3>1, <3>4 DEF ProvidersOf
      <4>3. Select(ds, n) = p
          BY <1>1, <3>2, <4>1, <4>2, BestAfter
      <4> QED BY <3>3, <3>4, <4>3 DEF BetterFor, Nearer
    <3>5. CASE ~ (o > Overlap(n, near))
      <4>1. FuzzyName(ds, n) = near
          BY <3>1, <3>5, NearestAfter DEF near
      <4> QED BY <1>2, <2>4, <3>1, <3>2, <3>3, <4>1, BestAfter DEF BetterFor
    <3> QED BY <3>4, <3>5
  <2> QED BY <2>5, <2>6
<1> QED BY <1>4, <1>5, <1>6

(* "real providers, not a silent last-registration-wins overwrite": a      *)
(* registration hands a name over only to a newcomer who is better for it  *)
(* than whoever served it, by exact name or by nearness.                   *)
THEOREM NewcomersAreBetter == Spec => NewcomerMustBeBetter
<1> DEFINE Better ==
        \A n \in Name :
          LET old == Select(capabilities, n)
              new == Select(capabilities', n)
          IN  new # old => new = Last(capabilities') /\ BetterFor(n, new, old)
<1>1. CallsOK /\ [Next]_vars => Better
  <2> SUFFICES ASSUME CallsOK, [Next]_vars
               PROVE  Better
      OBVIOUS
  <2>1. CASE capabilities' = capabilities
      BY <2>1
  <2>2. ASSUME NEW p \in Providers, RegisterCapability(p)
        PROVE  Better
    <3>1. capabilities' = Append(capabilities, p) /\ capabilities \in Seq(Providers)
        BY <2>2 DEF RegisterCapability, CallsOK
    <3>2. Last(capabilities') = p
        BY <3>1 DEF Last
    <3>3. ASSUME NEW n \in Name, Select(capabilities', n) # Select(capabilities, n)
          PROVE  /\ Select(capabilities', n) = Last(capabilities')
                 /\ BetterFor(n, Select(capabilities', n), Select(capabilities, n))
        BY <3>1, <3>2, <3>3, NewcomerIsBetter
    <3> QED BY <3>3
  <2>3. \/ capabilities' = capabilities
        \/ \E p \in Providers : RegisterCapability(p)
      BY DEF Next, vars, Register, RegisterAgent, Serve, Refuse, Execute, FailByChance,
             AskAgent, MissAgent, AgentAnswers, AgentRaises, Take
  <2> QED BY <2>1, <2>2, <2>3
<1>2. CallsOK /\ [Next]_vars
      => [\A n \in Name :
             LET old == Select(capabilities, n)
                 new == Select(capabilities', n)
             IN  new # old => /\ new = Last(capabilities')
                              /\ BetterFor(n, new, old)]_vars
    BY <1>1
<1> QED BY <1>2, CallsInvariant, PTL DEF Spec, NewcomerMustBeBetter

-----------------------------------------------------------------------------
(* A step of the parts is a step of each part, or leaves it alone.         *)
LEMMA PartSteps ==
    ASSUME [PartsNext]_partsVars
    PROVE  /\ [Memory!Next]_ofMemory /\ [External!Next]_ofExternal
           /\ [Hosting!Next]_ofHosting /\ [Lifecycle!Next]_ofLifecycle
           /\ [Scheduler!Next]_ofScheduler /\ [Reasoning!Next]_ofReasoning
           /\ [Next]_vars
BY DEF PartsNext, partsVars, StepOfBeliefs, StepOfRest, StepOfExternal, StepOfHosting,
       StepOfLifecycle, StepOfScheduler, StepOfReasoning, StepOfBuses, ofBuses,
       OthersThanMemory, Memory!Next,
       ofMemory, ofExternal, ofHosting, ofLifecycle, ofScheduler, ofReasoning

(* What is shown of the buses holds of them among the parts.               *)
THEOREM BusesAmongParts == PartsSpec => Spec
<1>1. PartsInit => Init
    BY DEF PartsInit
<1>2. [PartsNext]_partsVars => [Next]_vars
    BY PartSteps
<1> QED BY <1>1, <1>2, PTL DEF PartsSpec, Spec

-----------------------------------------------------------------------------
(* Beliefs that fade.                                                      *)

Belief == [id : Nat, confidence : 0..Whole, age : 0..MaxAge]

Distinct(s)    == \A k, m \in DOMAIN s : k # m => s[k].id # s[m].id
NamedBy(s, n)  == \A k \in DOMAIN s : s[k].id < n
Remembered(s, n) == s \in Seq(Belief) /\ Distinct(s) /\ NamedBy(s, n)

MemoryOK == adds \in Nat /\ Remembered(facts, adds) /\ Remembered(hypotheses, adds)

(* Every element of t was one of s, no two the same one, under its name    *)
(* and with no more certainty than rounding gives.                         *)
Fainter(t, s) ==
    /\ t \in Seq(Belief)
    /\ \E from \in [DOMAIN t -> DOMAIN s] :
          /\ \A i \in DOMAIN t : /\ t[i].id = s[from[i]].id
                                 /\ t[i].confidence <= Memory!OrRounded(s[from[i]].confidence)
          /\ \A i, j \in DOMAIN t : i # j => from[i] # from[j]

(* What the constants of the belief state are.                             *)
LEMMA MemoryConstants ==
    /\ Whole \in Nat /\ MaxAge \in Nat \ {0} /\ Floor \in Nat /\ Cap \in Nat
    /\ Grain \in Nat \ {0} /\ Whole % Grain = 0 /\ Certainties \subseteq 0..Whole
<1>1. /\ Whole \in Nat /\ Certainties \subseteq 1..Whole /\ Floor \in 0..Whole
      /\ MaxAge \in Nat \ {0} /\ Cap \in Nat /\ Grain \in Nat \ {0} /\ Whole % Grain = 0
    BY MemoryAssumption DEF Memory!Assumptions
<1> QED BY <1>1

(* The parts of a belief are numbers.                                      *)
LEMMA BeliefType ==
    ASSUME NEW b \in Belief
    PROVE  b.id \in Nat /\ b.confidence \in Nat /\ b.confidence <= Whole /\ b.age \in 0..MaxAge
BY MemoryConstants DEF Belief

(* What is rounded is a number of the scale, and is not rounded again.    *)
LEMMA RoundedNumber ==
    ASSUME NEW x \in Nat
    PROVE  /\ Memory!Rounded(x) \in Nat
           /\ x <= Whole => Memory!Rounded(x) <= Whole
           /\ Memory!Rounded(Memory!Rounded(x)) = Memory!Rounded(x)
<1> DEFINE q == x \div Grain
           r == x % Grain
           even == q % 2 = 0
           down == 2 * r < Grain \/ (2 * r = Grain /\ even)
           n == IF down THEN q ELSE q + 1
<1>1. q \in Nat /\ r \in 0..(Grain - 1) /\ x = Grain * q + r
    BY MemoryConstants, QuotientAndRest
<1>2. Memory!Rounded(x) = Grain * n
    BY DEF Memory!Rounded
<1> HIDE DEF q, r, even
<1>3. n \in Nat /\ (n = q \/ (n = q + 1 /\ r > 0))
  <2>1. down => n = q
      OBVIOUS
  <2>2. ~ down => n = q + 1 /\ ~ (2 * r < Grain)
      OBVIOUS
  <2> HIDE DEF n, down
  <2> QED BY <1>1, <2>1, <2>2, MemoryConstants
<1> HIDE DEF n
<1>4. Grain * n \in Nat
    BY <1>3, MemoryConstants, Times
<1>5. Memory!Rounded(Grain * n) = Grain * n
  <2>1. (Grain * n) \div Grain = n /\ (Grain * n) % Grain = 0
    <3>1. 0 \in 0..(Grain - 1) /\ Grain * n + 0 = Grain * n
        BY <1>4, MemoryConstants
    <3> QED BY <1>3, <3>1, MemoryConstants, QuotientOf
  <2> QED BY <1>3, <2>1, MemoryConstants DEF Memory!Rounded
<1>6. ASSUME x <= Whole
      PROVE  Grain * n <= Whole
  <2> DEFINE w == Whole \div Grain
  <2>1. w \in Nat /\ Whole = Grain * w
    <3>1. w \in Nat /\ Whole = Grain * w + (Whole % Grain)
        BY MemoryConstants, QuotientAndRest
    <3> QED BY <3>1, MemoryConstants, Times
  <2> HIDE DEF w
  <2>2. n <= w
    <3>1. CASE n = q
      <4>1. Grain * q < Grain * w + Grain
          BY <1>1, <1>6, <2>1, MemoryConstants, Times
      <4> QED BY <1>1, <2>1, <3>1, <4>1, MemoryConstants, Times
    <3>2. CASE n = q + 1 /\ r > 0
      <4>1. Grain * (q + 1) < Grain * w + Grain
          BY <1>1, <1>6, <2>1, <3>2, MemoryConstants, Times
      <4> QED BY <1>1, <2>1, <3>2, <4>1, MemoryConstants, Times
    <3> QED BY <1>3, <3>1, <3>2
  <2> QED BY <1>3, <2>1, <2>2, MemoryConstants, Times
<1> QED BY <1>2, <1>4, <1>5, <1>6

(* Rounding keeps the order.                                              *)
LEMMA RoundedMonotone ==
    ASSUME NEW x \in Nat, NEW y \in Nat, x <= y
    PROVE  Memory!Rounded(x) <= Memory!Rounded(y)
<1> DEFINE Q(v) == v \div Grain
           R(v) == v % Grain
           Even(k) == k % 2 = 0
           Down(k, m) == 2 * m < Grain \/ (2 * m = Grain /\ Even(k))
           N(v) == IF Down(Q(v), R(v)) THEN Q(v) ELSE Q(v) + 1
<1>1. \A v \in Nat : Q(v) \in Nat /\ R(v) \in 0..(Grain - 1) /\ v = Grain * Q(v) + R(v)
    BY MemoryConstants, QuotientAndRest
<1>2. \A v : Memory!Rounded(v) = Grain * N(v)
    BY DEF Memory!Rounded
<1>3. Q(x) <= Q(y)
  <2>1. Grain * Q(x) < Grain * Q(y) + Grain
    <3> HIDE DEF Q, R
    <3>1. Grain * Q(x) \in Nat /\ Grain * Q(y) \in Nat
        BY <1>1, MemoryConstants, Times
    <3> QED BY <1>1, <3>1, MemoryConstants
  <2> HIDE DEF Q
  <2> QED BY <1>1, <2>1, MemoryConstants, Times
<1>4. Q(x) = Q(y) => R(x) <= R(y)
  <2> HIDE DEF Q, R
  <2>1. Grain * Q(x) \in Nat /\ Grain * Q(y) \in Nat
      BY <1>1, MemoryConstants, Times
  <2> QED BY <1>1, <2>1, MemoryConstants
<1> HIDE DEF Q, R
<1>5. ASSUME Q(x) = Q(y), Down(Q(y), R(y))
      PROVE  Down(Q(x), R(x))
  <2>1. R(x) <= R(y) /\ R(x) \in Int /\ R(y) \in Int
      BY <1>1, <1>4, <1>5, MemoryConstants
  <2>2. 2 * R(y) < Grain => 2 * R(x) < Grain
      BY <2>1, MemoryConstants
  <2>3. 2 * R(y) = Grain => 2 * R(x) < Grain \/ 2 * R(x) = Grain
      BY <2>1, MemoryConstants
  <2> HIDE DEF Even
  <2> QED BY <1>5, <2>2, <2>3, Zenon
<1> HIDE DEF Down
<1>6. N(x) \in {Q(x), Q(x) + 1} /\ N(y) \in {Q(y), Q(y) + 1}
    BY Zenon
<1>7. Q(x) = Q(y) => N(x) = Q(x) \/ N(y) = Q(y) + 1
    BY <1>5, Zenon
<1> HIDE DEF N
<1>8. N(x) \in Nat /\ N(y) \in Nat /\ N(x) <= N(y)
  <2>1. Q(x) \in Nat /\ Q(y) \in Nat
      BY <1>1
  <2> QED BY <1>3, <1>6, <1>7, <2>1
<1> QED BY <1>2, <1>8, MemoryConstants, Times

(* A confidence or what it is rounded to, whichever is larger.             *)
LEMMA OrRoundedIs ==
    ASSUME NEW c \in Nat
    PROVE  /\ Memory!OrRounded(c) \in Nat /\ c <= Memory!OrRounded(c)
           /\ Memory!Rounded(c) <= Memory!OrRounded(c)
           /\ Memory!OrRounded(c) = c \/ Memory!OrRounded(c) = Memory!Rounded(c)
<1>1. Memory!Rounded(c) \in Nat
    BY RoundedNumber
<1> QED BY <1>1 DEF Memory!OrRounded, Memory!Larger

(* Rounding upon rounding raises nothing further.                          *)
LEMMA OrRoundedComposes ==
    ASSUME NEW c \in Nat, NEW d \in Nat, d <= Memory!OrRounded(c)
    PROVE  Memory!OrRounded(d) <= Memory!OrRounded(c)
<1> DEFINE rc == Memory!Rounded(c)
           rd == Memory!Rounded(d)
           oc == Memory!OrRounded(c)
           od == Memory!OrRounded(d)
<1>1. rc \in Nat /\ rd \in Nat /\ Memory!Rounded(rc) = rc
    BY RoundedNumber
<1>2. /\ oc \in Nat /\ c <= oc /\ rc <= oc /\ (oc = c \/ oc = rc)
      /\ od \in Nat /\ (od = d \/ od = rd)
    BY OrRoundedIs
<1>3. d <= oc
    OBVIOUS
<1>4. rd <= rc
  <2>1. CASE oc = c
      BY <1>3, <2>1, RoundedMonotone
  <2>2. CASE oc = rc
    <3>1. d <= rc
        BY <1>3, <2>2
    <3>2. rd <= Memory!Rounded(rc)
        BY <1>1, <3>1, RoundedMonotone
    <3> QED BY <1>1, <3>2
  <2> QED BY <1>2, <2>1, <2>2
<1> HIDE DEF rc, rd, oc, od
<1>5. od <= oc
    BY <1>1, <1>2, <1>3, <1>4
<1> QED BY <1>5 DEF oc, od

(* Names tell the elements apart, so that a faint one is compared with the *)
(* one it was.                                                             *)
LEMMA FainterIs ==
    ASSUME NEW n \in Nat, NEW s \in Seq(Belief), Distinct(s), NamedBy(s, n),
           NEW t, Fainter(t, s)
    PROVE  Remembered(t, n) /\ Memory!RoundedUp(t, s)
<1>1. PICK from \in [DOMAIN t -> DOMAIN s] :
          /\ \A i \in DOMAIN t : /\ t[i].id = s[from[i]].id
                                 /\ t[i].confidence <= Memory!OrRounded(s[from[i]].confidence)
          /\ \A i, j \in DOMAIN t : i # j => from[i] # from[j]
    BY DEF Fainter
<1>2. t \in Seq(Belief)
    BY DEF Fainter
<1>3. Distinct(t)
    BY <1>1 DEF Distinct
<1>4. NamedBy(t, n)
    BY <1>1 DEF NamedBy
<1>5. ASSUME NEW k \in DOMAIN t
      PROVE  t[k].confidence <= Memory!OrRounded(Memory!Of(s, t[k].id).confidence)
  <2> DEFINE c == CHOOSE m \in DOMAIN s : s[m].id = t[k].id
  <2>1. from[k] \in DOMAIN s /\ s[from[k]].id = t[k].id
      BY <1>1
  <2>2. c \in DOMAIN s /\ s[c].id = t[k].id
      BY <2>1
  <2>3. Memory!Of(s, t[k].id) = s[c]
      BY DEF Memory!Of
  <2> HIDE DEF c
  <2>4. c = from[k]
      BY <2>1, <2>2 DEF Distinct
  <2> QED BY <1>1, <2>3, <2>4
<1> QED BY <1>2, <1>3, <1>4, <1>5 DEF Remembered, Memory!RoundedUp

(* What fades twice has faded.                                             *)
LEMMA FainterComposes ==
    ASSUME NEW s \in Seq(Belief), NEW t, NEW u, Fainter(t, s), Fainter(u, t)
    PROVE  Fainter(u, s)
<1>1. PICK f \in [DOMAIN t -> DOMAIN s] :
          /\ \A i \in DOMAIN t : /\ t[i].id = s[f[i]].id
                                 /\ t[i].confidence <= Memory!OrRounded(s[f[i]].confidence)
          /\ \A i, j \in DOMAIN t : i # j => f[i] # f[j]
    BY DEF Fainter
<1>2. PICK g \in [DOMAIN u -> DOMAIN t] :
          /\ \A i \in DOMAIN u : /\ u[i].id = t[g[i]].id
                                 /\ u[i].confidence <= Memory!OrRounded(t[g[i]].confidence)
          /\ \A i, j \in DOMAIN u : i # j => g[i] # g[j]
    BY DEF Fainter
<1>3. t \in Seq(Belief) /\ u \in Seq(Belief)
    BY DEF Fainter
<1> DEFINE h == [i \in DOMAIN u |-> f[g[i]]]
<1>4. h \in [DOMAIN u -> DOMAIN s] /\ \A i \in DOMAIN u : h[i] = f[g[i]] /\ g[i] \in DOMAIN t
    BY <1>1, <1>2
<1> HIDE DEF h
<1>5. ASSUME NEW i \in DOMAIN u
      PROVE  u[i].id = s[h[i]].id /\ u[i].confidence <= Memory!OrRounded(s[h[i]].confidence)
  <2>1. g[i] \in DOMAIN t /\ h[i] = f[g[i]] /\ h[i] \in DOMAIN s
      BY <1>4
  <2>2. s[h[i]] \in Belief /\ t[g[i]] \in Belief /\ u[i] \in Belief
      BY <1>3, <2>1
  <2>3. s[h[i]].confidence \in Nat /\ t[g[i]].confidence \in Nat /\ u[i].confidence \in Nat
      BY <2>2, BeliefType
  <2>4. /\ t[g[i]].id = s[h[i]].id /\ t[g[i]].confidence <= Memory!OrRounded(s[h[i]].confidence)
        /\ u[i].id = t[g[i]].id /\ u[i].confidence <= Memory!OrRounded(t[g[i]].confidence)
      BY <1>1, <1>2, <2>1
  <2>5. Memory!OrRounded(t[g[i]].confidence) <= Memory!OrRounded(s[h[i]].confidence)
      BY <2>3, <2>4, OrRoundedComposes
  <2>6. /\ Memory!OrRounded(t[g[i]].confidence) \in Nat
        /\ Memory!OrRounded(s[h[i]].confidence) \in Nat
      BY <2>3, OrRoundedIs
  <2> QED BY <2>3, <2>4, <2>5, <2>6
<1>6. \A i, j \in DOMAIN u : i # j => h[i] # h[j]
    BY <1>1, <1>2, <1>4
<1> QED BY <1>3, <1>4, <1>5, <1>6 DEF Fainter

(* What is left alone is no more certain.                                  *)
LEMMA FainterItself ==
    ASSUME NEW s \in Seq(Belief)
    PROVE  Fainter(s, s)
<1> DEFINE f == [i \in DOMAIN s |-> i]
<1>1. f \in [DOMAIN s -> DOMAIN s] /\ \A i \in DOMAIN s : f[i] = i
    OBVIOUS
<1> HIDE DEF f
<1>2. \A i \in DOMAIN s : s[i].confidence <= Memory!OrRounded(s[i].confidence)
  <2> TAKE i \in DOMAIN s
  <2>1. s[i] \in Belief
      OBVIOUS
  <2> QED BY <2>1, BeliefType, OrRoundedIs
<1> QED BY <1>1, <1>2 DEF Fainter

(* Place by place, each under its name and with no more certainty.         *)
LEMMA FainterEach ==
    ASSUME NEW s \in Seq(Belief), NEW t \in Seq(Belief), DOMAIN t = DOMAIN s,
           \A i \in DOMAIN s : /\ t[i].id = s[i].id
                               /\ t[i].confidence <= Memory!OrRounded(s[i].confidence)
    PROVE  Fainter(t, s)
<1> DEFINE f == [i \in DOMAIN s |-> i]
<1>1. f \in [DOMAIN t -> DOMAIN s] /\ \A i \in DOMAIN t : f[i] = i
    OBVIOUS
<1> HIDE DEF f
<1> QED BY <1>1 DEF Fainter

(* Some of the elements, in their order.                                   *)
LEMMA FainterKept ==
    ASSUME NEW s \in Seq(Belief), NEW P \in SUBSET (DOMAIN s)
    PROVE  Fainter(Kept(s, P), s)
<1> DEFINE t == Kept(s, P)
<1>1. t \in Seq(Belief) /\ Selects(t, s, P)
    BY KeptSelects
<1> HIDE DEF t
<1>2. PICK f \in [DOMAIN t -> P] :
          /\ \A i \in DOMAIN t : t[i] = s[f[i]]
          /\ \A i, j \in DOMAIN t : i < j => f[i] < f[j]
    BY <1>1 DEF Selects
<1>3. f \in [DOMAIN t -> DOMAIN s]
    BY <1>2
<1>4. \A i \in DOMAIN t : i \in Nat /\ f[i] \in Nat /\ t[i].confidence \in Nat
  <2> TAKE i \in DOMAIN t
  <2>1. t[i] \in Belief /\ f[i] \in DOMAIN s
      BY <1>1, <1>3
  <2> QED BY <1>1, <2>1, BeliefType
<1>5. \A i, j \in DOMAIN t : i # j => f[i] # f[j]
  <2> SUFFICES ASSUME NEW i \in DOMAIN t, NEW j \in DOMAIN t, i # j
               PROVE  f[i] # f[j]
      OBVIOUS
  <2>1. i < j \/ j < i
      BY <1>4
  <2> QED BY <1>2, <1>4, <2>1
<1>6. \A i \in DOMAIN t : /\ t[i].id = s[f[i]].id
                          /\ t[i].confidence <= Memory!OrRounded(s[f[i]].confidence)
    BY <1>2, <1>4, OrRoundedIs
<1> QED BY <1>1, <1>3, <1>5, <1>6 DEF Fainter, t

-----------------------------------------------------------------------------
(* Decay and clamping.                                                     *)

(* A half is no more than the whole.                                       *)
LEMMA Halving ==
    ASSUME NEW c \in Nat, NEW x \in 0..c
    PROVE  x \div 2 \in 0..c
OBVIOUS

(* Halved as often as may be, a confidence is no larger.                   *)
LEMMA DecayedIsLess ==
    ASSUME NEW b \in Belief
    PROVE  Memory!Decayed(b) \in 0..b.confidence
<1> DEFINE c == b.confidence
           n == MaxAge
           half == [x \in 0..c |-> x \div 2]
           step == [k \in 1..n |-> half]
           Halves(h) == h = [k \in 0..n |-> IF k = 0 THEN c ELSE h[k - 1] \div 2]
           h == CHOOSE f : Halves(f)
           m == Memory!Larger(1, b.age)
<1>1. c \in Nat /\ b.age \in 0..n /\ n \in Nat \ {0}
    BY MemoryConstants DEF Belief
<1>2. Memory!Decayed(b) = h[m]
    BY Zenon DEF Memory!Decayed
<1>3. m \in 0..n
    BY <1>1 DEF Memory!Larger
<1> HIDE DEF c, n, m
<1>4. step \in [1..n -> [0..c -> 0..c]]
  <2>1. half \in [0..c -> 0..c]
      BY <1>1, Halving
  <2> HIDE DEF half
  <2> QED BY <2>1
<1>5. PICK g \in [0..n -> 0..c] : Stepwise(g, n, c, step)
  <2>1. c \in 0..c /\ n \in Nat
      BY <1>1
  <2> HIDE DEF step
  <2> QED BY <1>4, <2>1, StepwiseExists
<1>6. \A k \in 0..n : g[k] = IF k = 0 THEN c ELSE g[k - 1] \div 2
  <2> TAKE k \in 0..n
  <2>1. g[k] = IF k = 0 THEN c ELSE step[k][g[k - 1]]
    <3> HIDE DEF step
    <3> QED BY <1>5, Zenon DEF Stepwise
  <2>2. k # 0 => k \in 1..n /\ k - 1 \in 0..n
      BY <1>1
  <2>3. k # 0 => step[k][g[k - 1]] = g[k - 1] \div 2
      BY <1>5, <2>2
  <2> HIDE DEF step
  <2> QED BY <2>1, <2>3
<1>7. Halves(g)
    BY <1>5, <1>6
<1>8. Halves(h)
    BY <1>7, Zenon
<1>9. \A k \in 0..n : h[k] = IF k = 0 THEN c ELSE h[k - 1] \div 2
    BY <1>8, Zenon
<1> HIDE DEF h, step
<1>10. \A k \in 0..n : h[k] = g[k]
  <2> DEFINE P == { k \in 0..n : h[k] = g[k] }
  <2>1. 0 \in P
      BY <1>1, <1>6, <1>9
  <2>2. \A k \in 1..n : k - 1 \in P => k \in P
    <3> TAKE k \in 1..n
    <3>1. k \in 0..n /\ k # 0
        BY <1>1
    <3> QED BY <1>6, <1>9, <3>1
  <2>3. \A k \in 0..n : k \in P
    <3>1. P \in SUBSET (0..n)
        OBVIOUS
    <3> HIDE DEF P
    <3> QED BY <1>1, <2>1, <2>2, <3>1, Upward
  <2> QED BY <2>3
<1> QED BY <1>2, <1>3, <1>5, <1>10 DEF c

(* The floor lifts nothing: what lies below it is clamped to itself.       *)
LEMMA ClampedIsLess ==
    ASSUME NEW b \in Belief
    PROVE  Memory!Clamped(b) \in 0..b.confidence
<1> DEFINE d == Memory!Decayed(b)
<1>1. d \in 0..b.confidence /\ b.confidence \in Nat /\ Floor \in Nat
    BY DecayedIsLess, MemoryConstants DEF Belief
<1>2. Memory!Clamped(b) = Memory!Larger(d, Memory!Smaller(Floor, b.confidence))
    BY DEF Memory!Clamped
<1> HIDE DEF d
<1> QED BY <1>1, <1>2 DEF Memory!Larger, Memory!Smaller

(* A belief with a lower confidence is the same belief, and no more        *)
(* certain but by rounding.                                                *)
LEMMA WithIs ==
    ASSUME NEW b \in Belief, NEW c \in 0..b.confidence
    PROVE  /\ Memory!With(b, c) \in Belief
           /\ Memory!With(b, c).id = b.id
           /\ Memory!With(b, c).confidence <= Memory!OrRounded(b.confidence)
<1> DEFINE top == b.confidence
           low == Memory!Rounded(c)
<1>1. top \in Nat /\ top <= Whole /\ Whole \in Nat
    BY BeliefType, MemoryConstants
<1>2. c \in Nat /\ c <= top /\ c <= Whole
    BY <1>1
<1>3. low \in 0..Whole
    BY <1>1, <1>2, RoundedNumber
<1>4. low <= Memory!Rounded(top) /\ Memory!Rounded(top) <= Memory!OrRounded(top)
    BY <1>1, <1>2, RoundedMonotone, OrRoundedIs
<1>5. Memory!Rounded(top) \in Nat /\ Memory!OrRounded(top) \in Nat
    BY <1>1, RoundedNumber, OrRoundedIs
<1>6. Memory!With(b, c) = [b EXCEPT !.confidence = low]
    BY DEF Memory!With
<1> HIDE DEF low
<1>7. low <= Memory!OrRounded(top)
    BY <1>3, <1>4, <1>5
<1> QED BY <1>3, <1>6, <1>7 DEF Belief

(* The instances have copies of the operators of Selection.                *)
LEMMA KeptOfMemory ==
    ASSUME NEW s, NEW P
    PROVE  Memory!Kept(s, P) = Kept(s, P)
BY DEF Memory!Kept, Memory!Nth, Memory!Cardinality, Kept, Nth, Cardinality

(* So it is with sorting.                                                  *)
LEMMA ArrangedOfMemory ==
    ASSUME NEW s, NEW upTo
    PROVE  Memory!Arranged(s, upTo) = Arranged(s, upTo)
BY DEF Memory!Arranged, Memory!Cardinality, Arranged, Cardinality

(* What is kept, each with a confidence no higher.                         *)
LEMMA FainterLowered ==
    ASSUME NEW s \in Seq(Belief), NEW P \in SUBSET (DOMAIN s), NEW low,
           \A b \in Belief : low[b] \in 0..b.confidence
    PROVE  Fainter([k \in DOMAIN Kept(s, P) |-> Memory!With(Kept(s, P)[k], low[Kept(s, P)[k]])], s)
<1> DEFINE t == Kept(s, P)
           u == [k \in DOMAIN t |-> Memory!With(t[k], low[t[k]])]
<1>1. t \in Seq(Belief) /\ Fainter(t, s)
    BY FainterKept, KeptSelects
<1> HIDE DEF t
<1>2. \A k \in DOMAIN t : /\ t[k] \in Belief /\ u[k] \in Belief
                          /\ u[k].id = t[k].id
                          /\ u[k].confidence <= Memory!OrRounded(t[k].confidence)
  <2> TAKE k \in DOMAIN t
  <2>1. t[k] \in Belief
      BY <1>1
  <2>2. low[t[k]] \in 0..(t[k].confidence)
      BY <2>1
  <2>3. u[k] = Memory!With(t[k], low[t[k]])
      OBVIOUS
  <2> QED BY <2>1, <2>2, <2>3, WithIs
<1>3. u \in Seq(Belief) /\ DOMAIN u = DOMAIN t
    BY <1>1, <1>2
<1> HIDE DEF u
<1>4. Fainter(u, t)
    BY <1>1, <1>2, <1>3, FainterEach
<1>5. Fainter(u, s)
    BY <1>1, <1>4, FainterComposes
<1> QED BY <1>5 DEF u, t

(* Decay, on the facts.                                                    *)
LEMMA KeptFactsFainter ==
    ASSUME facts \in Seq(Belief)
    PROVE  Fainter(Memory!KeptFacts, facts)
<1> DEFINE ks == { k \in DOMAIN facts : Memory!FactStays(facts[k]) }
           t == Kept(facts, ks)
           low == [b \in Belief |-> Memory!Clamped(b)]
           u == [k \in DOMAIN t |-> Memory!With(t[k], low[t[k]])]
<1>1. ks \in SUBSET (DOMAIN facts)
    OBVIOUS
<1>2. Memory!KeptFacts = [k \in DOMAIN t |-> Memory!With(t[k], Memory!Clamped(t[k]))]
    BY KeptOfMemory DEF Memory!KeptFacts
<1> HIDE DEF ks
<1>3. \A k \in DOMAIN t : low[t[k]] = Memory!Clamped(t[k])
  <2>1. t \in Seq(Belief)
      BY <1>1, KeptSelects
  <2> HIDE DEF t
  <2> QED BY <2>1
<1>4. Memory!KeptFacts = u
    BY <1>2, <1>3
<1>5. \A b \in Belief : low[b] \in 0..b.confidence
    BY ClampedIsLess
<1> HIDE DEF low
<1>6. Fainter(u, facts)
    BY <1>1, <1>5, FainterLowered
<1> QED BY <1>4, <1>6

(* Decay, on the hypotheses.                                               *)
LEMMA FadedFainter ==
    ASSUME hypotheses \in Seq(Belief)
    PROVE  Fainter(Memory!FadedHypotheses, hypotheses)
<1> DEFINE ks == { k \in DOMAIN hypotheses : Memory!HypothesisStays(hypotheses[k]) }
           t == Kept(hypotheses, ks)
           low == [b \in Belief |-> Memory!Decayed(b)]
           u == [k \in DOMAIN t |-> Memory!With(t[k], low[t[k]])]
<1>1. ks \in SUBSET (DOMAIN hypotheses)
    OBVIOUS
<1>2. Memory!FadedHypotheses = [k \in DOMAIN t |-> Memory!With(t[k], Memory!Decayed(t[k]))]
    BY KeptOfMemory DEF Memory!FadedHypotheses
<1> HIDE DEF ks
<1>3. \A k \in DOMAIN t : low[t[k]] = Memory!Decayed(t[k])
  <2>1. t \in Seq(Belief)
      BY <1>1, KeptSelects
  <2> HIDE DEF t
  <2> QED BY <2>1
<1>4. Memory!FadedHypotheses = u
    BY <1>2, <1>3
<1>5. \A b \in Belief : low[b] \in 0..b.confidence
    BY DecayedIsLess
<1> HIDE DEF low
<1>6. Fainter(u, hypotheses)
    BY <1>1, <1>5, FainterLowered
<1> QED BY <1>4, <1>6

(* The cap on the hypotheses takes from a list in another order.           *)
LEMMA NotWeakerOrders ==
    ASSUME NEW s \in Seq(Belief)
    PROVE  Orders([k \in DOMAIN s |-> Memory!NotWeaker(s, k)], DOMAIN s)
<1> DEFINE up == [k \in DOMAIN s |-> Memory!NotWeaker(s, k)]
           c(k) == s[k].confidence
<1>1. \A k \in DOMAIN s : k \in Nat /\ c(k) \in Nat
  <2> TAKE k \in DOMAIN s
  <2>1. s[k] \in Belief
      OBVIOUS
  <2> QED BY <2>1, BeliefType
<1>2. \A k, m \in DOMAIN s : m \in up[k] <=> c(m) > c(k) \/ (c(m) = c(k) /\ m <= k)
    BY DEF Memory!NotWeaker
<1>3. up \in [DOMAIN s -> SUBSET (DOMAIN s)]
    BY DEF Memory!NotWeaker
<1> HIDE DEF up, c
<1>4. \A k \in DOMAIN s : k \in up[k]
    BY <1>1, <1>2
<1>5. ASSUME NEW k \in DOMAIN s, NEW m \in DOMAIN s,
             c(m) > c(k) \/ (c(m) = c(k) /\ m < k)
      PROVE  Earlier(m, k, up)
  <2>1. m \in up[k] /\ k \notin up[m]
      BY <1>1, <1>2, <1>5
  <2>2. ASSUME NEW i \in DOMAIN s, i \in up[m]
        PROVE  i \in up[k]
      BY <1>1, <1>2, <1>5, <2>2
  <2>3. up[m] \subseteq up[k]
      BY <1>3, <2>2
  <2> QED BY <2>1, <2>3 DEF Earlier
<1>6. \A k, m \in DOMAIN s : k # m => Earlier(m, k, up) \/ Earlier(k, m, up)
    BY <1>1, <1>5
<1> QED BY <1>3, <1>4, <1>6 DEF Orders, up

(* The strongest are some of all.                                          *)
LEMMA FainterSorted ==
    ASSUME NEW s \in Seq(Belief), Cap < Len(s)
    PROVE  Fainter(Memory!Strongest(s), s)
<1> DEFINE up == [k \in DOMAIN s |-> Memory!NotWeaker(s, k)]
           t == Arranged(s, up)
           u == SubSeq(t, 1, Cap)
<1>1. Memory!Strongest(s) = u
    BY ArrangedOfMemory DEF Memory!Strongest
<1>2. Orders(up, DOMAIN s)
    BY NotWeakerOrders
<1> HIDE DEF up
<1>3. t \in Seq(Belief) /\ Len(t) = Len(s)
    BY <1>2, ArrangedSpec
<1>4. PICK f \in [DOMAIN s -> DOMAIN s] :
        /\ t = [p \in DOMAIN s |-> s[f[p]]]
        /\ \A p, q \in DOMAIN s : p < q => f[p] # f[q] /\ f[p] \in up[f[q]]
  <2>1. \E f \in [DOMAIN s -> DOMAIN s] :
        /\ Arranged(s, up) = [p \in DOMAIN s |-> s[f[p]]]
        /\ \A p, q \in DOMAIN s : p < q => f[p] # f[q] /\ f[p] \in up[f[q]]
      BY <1>2, ArrangedSpec
  <2> QED BY <2>1
<1> HIDE DEF t
<1>5. Cap \in Nat /\ Len(s) \in Nat /\ DOMAIN s = 1..Len(s)
    BY MemoryConstants
<1>6. /\ u \in Seq(Belief) /\ DOMAIN u = 1..Cap
      /\ \A i \in 1..Cap : u[i] = t[i]
    BY <1>3, <1>5
<1> HIDE DEF u
<1> DEFINE g == [i \in 1..Cap |-> f[i]]
<1>7. \A i \in 1..Cap : i \in DOMAIN s
    BY <1>5
<1>8. g \in [DOMAIN u -> DOMAIN s] /\ \A i \in 1..Cap : g[i] = f[i] /\ u[i] = s[f[i]]
    BY <1>4, <1>6, <1>7
<1> HIDE DEF g
<1>9. \A i, j \in 1..Cap : i # j => g[i] # g[j]
  <2> SUFFICES ASSUME NEW i \in 1..Cap, NEW j \in 1..Cap, i # j
               PROVE  g[i] # g[j]
      OBVIOUS
  <2>1. i < j \/ j < i
      BY <1>5
  <2> QED BY <1>4, <1>7, <1>8, <2>1
<1>10. \A i \in DOMAIN u : /\ u[i].id = s[g[i]].id
                          /\ u[i].confidence <= Memory!OrRounded(s[g[i]].confidence)
  <2> TAKE i \in DOMAIN u
  <2>1. u[i] = s[g[i]] /\ g[i] \in DOMAIN s
      BY <1>6, <1>8
  <2>2. s[g[i]].confidence \in Nat
    <3>1. s[g[i]] \in Belief
        BY <2>1
    <3> QED BY <3>1, BeliefType
  <2> QED BY <2>1, <2>2, OrRoundedIs
<1>11. \A i, j \in DOMAIN u : i # j => g[i] # g[j]
    BY <1>6, <1>9
<1>12. Fainter(u, s)
    BY <1>6, <1>8, <1>10, <1>11 DEF Fainter
<1> QED BY <1>1, <1>12

(* Decay and the cap, on the hypotheses.                                   *)
LEMMA KeptHypothesesFainter ==
    ASSUME hypotheses \in Seq(Belief)
    PROVE  Fainter(Memory!KeptHypotheses, hypotheses)
<1> DEFINE t == Memory!FadedHypotheses
<1>1. t \in Seq(Belief) /\ Fainter(t, hypotheses)
    BY FadedFainter DEF Fainter
<1>2. CASE Len(t) > Cap
  <2>1. Memory!KeptHypotheses = Memory!Strongest(t)
      BY <1>2 DEF Memory!KeptHypotheses
  <2> HIDE DEF t
  <2>2. Fainter(Memory!Strongest(t), t)
    <3>1. Cap < Len(t)
        BY <1>1, <1>2, MemoryConstants
    <3> QED BY <1>1, <3>1, FainterSorted
  <2> QED BY <1>1, <2>1, <2>2, FainterComposes
<1>3. CASE ~ (Len(t) > Cap)
    BY <1>1, <1>3 DEF Memory!KeptHypotheses
<1> QED BY <1>2, <1>3

(* Growing older takes nothing of a confidence by itself.                  *)
LEMMA OlderFainter ==
    ASSUME NEW s \in Seq(Belief)
    PROVE  Fainter(Memory!Older(s), s)
<1> DEFINE t == Memory!Older(s)
           up(n) == IF n < MaxAge THEN n + 1 ELSE n
<1>1. t = [k \in DOMAIN s |-> [s[k] EXCEPT !.age = up(@)]]
    BY DEF Memory!Older
<1>2. ASSUME NEW k \in DOMAIN s
      PROVE  /\ t[k] \in Belief /\ t[k].id = s[k].id /\ t[k].confidence = s[k].confidence
             /\ t[k].confidence <= Memory!OrRounded(s[k].confidence)
  <2>1. s[k] \in Belief
      OBVIOUS
  <2>2. up(s[k].age) \in 0..MaxAge
      BY <2>1, BeliefType, MemoryConstants
  <2>3. t[k] = [s[k] EXCEPT !.age = up(s[k].age)]
      BY <1>1
  <2> HIDE DEF up
  <2>4. t[k] \in Belief /\ t[k].id = s[k].id /\ t[k].confidence = s[k].confidence
      BY <2>1, <2>2, <2>3 DEF Belief
  <2> QED BY <2>1, <2>4, BeliefType, OrRoundedIs
<1>3. t \in Seq(Belief) /\ DOMAIN t = DOMAIN s
  <2> DEFINE e == [k \in DOMAIN s |-> [s[k] EXCEPT !.age = up(@)]]
  <2>1. \A k \in DOMAIN s : e[k] \in Belief
      BY <1>1, <1>2
  <2>2. e \in Seq(Belief) /\ DOMAIN e = DOMAIN s
    <3>1. DOMAIN e = 1..Len(s) /\ Len(s) \in Nat /\ DOMAIN s = 1..Len(s)
        OBVIOUS
    <3>2. e = [k \in 1..Len(s) |-> e[k]]
        BY <3>1
    <3> HIDE DEF e
    <3> QED BY <2>1, <3>1, <3>2
  <2> HIDE DEF e
  <2> QED BY <1>1, <2>2 DEF e
<1> HIDE DEF t
<1> QED BY <1>2, <1>3, FainterEach DEF t

(* What is added has a name of its own.                                    *)
LEMMA AddedKeeps ==
    ASSUME NEW n \in Nat, NEW s, Remembered(s, n), NEW b \in Belief, b.id = n
    PROVE  Remembered(Append(s, b), n + 1) /\ Memory!RoundedUp(Append(s, b), s)
<1> DEFINE t == Append(s, b)
<1>1. s \in Seq(Belief) /\ Distinct(s) /\ NamedBy(s, n)
    BY DEF Remembered
<1>2. /\ t \in Seq(Belief) /\ Len(s) \in Nat
      /\ DOMAIN s = 1..Len(s) /\ DOMAIN t = 1..(Len(s) + 1)
      /\ \A k \in 1..Len(s) : t[k] = s[k]
      /\ t[Len(s) + 1] = b
    BY <1>1, Appended
<1> HIDE DEF t
<1>3. \A k \in DOMAIN t : k \in DOMAIN s \/ k = Len(s) + 1
    BY <1>2
<1>4. \A k \in DOMAIN s : s[k].id \in Nat /\ s[k].id < n
  <2> TAKE k \in DOMAIN s
  <2>1. s[k] \in Belief
      BY <1>1
  <2> QED BY <1>1, <2>1, BeliefType DEF NamedBy
<1>5. \A k \in DOMAIN s : t[k].id = s[k].id
    BY <1>2
<1>6. t[Len(s) + 1].id = n
    BY <1>2
<1>7. Distinct(t)
  <2> SUFFICES ASSUME NEW k \in DOMAIN t, NEW m \in DOMAIN t, k # m
               PROVE  t[k].id # t[m].id
      BY DEF Distinct
  <2>1. \A i \in DOMAIN s : s[i].id # n
      BY <1>4
  <2>2. CASE k \in DOMAIN s /\ m \in DOMAIN s
      BY <1>1, <1>5, <2>2 DEF Distinct
  <2>3. CASE k \in DOMAIN s /\ m = Len(s) + 1
      BY <1>5, <1>6, <2>1, <2>3
  <2>4. CASE k = Len(s) + 1 /\ m \in DOMAIN s
      BY <1>5, <1>6, <2>1, <2>4
  <2> QED BY <1>3, <2>2, <2>3, <2>4
<1>8. NamedBy(t, n + 1)
  <2> SUFFICES ASSUME NEW k \in DOMAIN t
               PROVE  t[k].id < n + 1
      BY DEF NamedBy
  <2>1. CASE k \in DOMAIN s
      BY <1>4, <1>5, <2>1
  <2>2. CASE k = Len(s) + 1
      BY <1>6, <2>2
  <2> QED BY <1>3, <2>1, <2>2
<1>9. Memory!RoundedUp(t, s)
  <2> SUFFICES ASSUME NEW k \in DOMAIN t, Memory!In(s, t[k].id)
               PROVE  t[k].confidence <= Memory!OrRounded(Memory!Of(s, t[k].id).confidence)
      BY DEF Memory!RoundedUp
  <2>1. PICK m \in DOMAIN s : s[m].id = t[k].id
      BY DEF Memory!In
  <2>2. k \in DOMAIN s
    <3>1. s[m].id # n
        BY <1>4
    <3> QED BY <1>3, <1>6, <2>1, <3>1
  <2>3. t[k] = s[k]
      BY <1>2, <2>2
  <2>4. Memory!RoundedUp(s, s)
      BY <1>1, FainterItself, FainterIs
  <2> QED BY <2>2, <2>3, <2>1 , <2>4 DEF Memory!RoundedUp, Memory!In
<1> QED BY <1>2, <1>7, <1>8, <1>9 DEF Remembered, t

(* A list that is what it was.                                             *)
LEMMA SameRemembered ==
    ASSUME NEW n \in Nat, NEW s, Remembered(s, n)
    PROVE  Remembered(s, n + 1) /\ Memory!RoundedUp(s, s)
<1>1. s \in Seq(Belief) /\ Distinct(s) /\ NamedBy(s, n)
    BY DEF Remembered
<1>2. NamedBy(s, n + 1)
  <2> SUFFICES ASSUME NEW k \in DOMAIN s
               PROVE  s[k].id < n + 1
      BY DEF NamedBy
  <2>1. s[k] \in Belief /\ s[k].id < n
      BY <1>1 DEF NamedBy
  <2> QED BY <2>1, BeliefType
<1> QED BY <1>1, <1>2, FainterItself, FainterIs DEF Remembered

(* Every step keeps the names apart and makes no belief more certain.      *)
LEMMA MemoryStep ==
    ASSUME MemoryOK, Memory!Next
    PROVE  MemoryOK' /\ Memory!RoundedUp(facts', facts) /\ Memory!RoundedUp(hypotheses', hypotheses)
<1>1. /\ adds \in Nat /\ Remembered(facts, adds) /\ Remembered(hypotheses, adds)
      /\ facts \in Seq(Belief) /\ Distinct(facts) /\ NamedBy(facts, adds)
      /\ hypotheses \in Seq(Belief) /\ Distinct(hypotheses) /\ NamedBy(hypotheses, adds)
    BY DEF MemoryOK, Remembered
<1>2. ASSUME UNCHANGED Memory!beliefs
      PROVE  MemoryOK' /\ Memory!RoundedUp(facts', facts) /\ Memory!RoundedUp(hypotheses', hypotheses)
  <2>1. facts' = facts /\ hypotheses' = hypotheses /\ adds' = adds
      BY <1>2 DEF Memory!beliefs
  <2>2. Memory!RoundedUp(facts, facts) /\ Memory!RoundedUp(hypotheses, hypotheses)
      BY <1>1, SameRemembered
  <2> QED BY <1>1, <2>1, <2>2 DEF MemoryOK
<1>3. \A c \in Certainties : Memory!New(c) \in Belief /\ Memory!New(c).id = adds
    BY <1>1, MemoryConstants DEF Memory!New, Belief
<1>4. ASSUME NEW c \in Certainties, Memory!AddFact(c)
      PROVE  MemoryOK' /\ Memory!RoundedUp(facts', facts) /\ Memory!RoundedUp(hypotheses', hypotheses)
  <2>1. adds' = adds + 1 /\ facts' = Append(facts, Memory!New(c)) /\ hypotheses' = hypotheses
      BY <1>4 DEF Memory!AddFact
  <2>2. Remembered(facts', adds + 1) /\ Memory!RoundedUp(facts', facts)
      BY <1>1, <1>3, <2>1, AddedKeeps
  <2>3. Remembered(hypotheses, adds + 1) /\ Memory!RoundedUp(hypotheses, hypotheses)
      BY <1>1, SameRemembered
  <2> QED BY <1>1, <2>1, <2>2, <2>3 DEF MemoryOK
<1>5. ASSUME NEW c \in Certainties, Memory!AddHypothesis(c)
      PROVE  MemoryOK' /\ Memory!RoundedUp(facts', facts) /\ Memory!RoundedUp(hypotheses', hypotheses)
  <2>1. adds' = adds + 1 /\ hypotheses' = Append(hypotheses, Memory!New(c)) /\ facts' = facts
      BY <1>5 DEF Memory!AddHypothesis
  <2>2. Remembered(hypotheses', adds + 1) /\ Memory!RoundedUp(hypotheses', hypotheses)
      BY <1>1, <1>3, <2>1, AddedKeeps
  <2>3. Remembered(facts, adds + 1) /\ Memory!RoundedUp(facts, facts)
      BY <1>1, SameRemembered
  <2> QED BY <1>1, <2>1, <2>2, <2>3 DEF MemoryOK
<1>6. ASSUME Fainter(facts', facts), Fainter(hypotheses', hypotheses), adds' = adds
      PROVE  MemoryOK' /\ Memory!RoundedUp(facts', facts) /\ Memory!RoundedUp(hypotheses', hypotheses)
    BY <1>1, <1>6, FainterIs DEF MemoryOK
<1>7. ASSUME Memory!Tick
      PROVE  MemoryOK' /\ Memory!RoundedUp(facts', facts) /\ Memory!RoundedUp(hypotheses', hypotheses)
  <2>1. facts' = Memory!Older(facts) /\ hypotheses' = Memory!Older(hypotheses) /\ adds' = adds
      BY <1>7 DEF Memory!Tick
  <2> QED BY <1>1, <1>6, <2>1, OlderFainter
<1>8. ASSUME Memory!DecayAndPrune
      PROVE  MemoryOK' /\ Memory!RoundedUp(facts', facts) /\ Memory!RoundedUp(hypotheses', hypotheses)
  <2>1. facts' = Memory!KeptFacts /\ hypotheses' = Memory!KeptHypotheses /\ adds' = adds
      BY <1>8 DEF Memory!DecayAndPrune
  <2> QED BY <1>1, <1>6, <2>1, KeptFactsFainter, KeptHypothesesFainter
<1>9. ASSUME NEW l \in Memory!Lists, Memory!AddOther(l)
      PROVE  UNCHANGED Memory!beliefs
    BY <1>9 DEF Memory!AddOther
<1>10. ASSUME Memory!Cycle
       PROVE  UNCHANGED Memory!beliefs
    BY <1>10 DEF Memory!Cycle
<1>11. ASSUME NEW s, Memory!SetStatus(s)
       PROVE  UNCHANGED Memory!beliefs
    BY <1>11 DEF Memory!SetStatus
<1> QED BY <1>2, <1>4, <1>5, <1>7, <1>8, <1>9, <1>10, <1>11
        DEF Memory!Next, Memory!NextBeliefs, Memory!NextRest

(* Of the belief state: a belief has a name that no other has in its list. *)
THEOREM MemoryInvariant == PartsSpec => []MemoryOK
<1>1. PartsInit => MemoryOK
  <2> SUFFICES ASSUME PartsInit
               PROVE  MemoryOK
      OBVIOUS
  <2>1. facts = << >> /\ hypotheses = << >> /\ adds = 0
      BY DEF PartsInit, Memory!Init
  <2> QED BY <2>1 DEF MemoryOK, Remembered, Distinct, NamedBy
<1>2. MemoryOK /\ [PartsNext]_partsVars => MemoryOK'
  <2> SUFFICES ASSUME MemoryOK, [PartsNext]_partsVars
               PROVE  MemoryOK'
      OBVIOUS
  <2>1. CASE Memory!Next
      BY <2>1, MemoryStep
  <2>2. CASE UNCHANGED ofMemory
    <3>1. UNCHANGED << facts, hypotheses, adds >>
        BY <2>2 DEF ofMemory
    <3> QED BY <3>1 DEF MemoryOK, Remembered, Distinct, NamedBy
  <2> QED BY <2>1, <2>2, PartSteps
<1> QED BY <1>1, <1>2, PTL DEF PartsSpec

(* No step makes a belief more certain than it was, or than that rounded   *)
(* to the digits that decay_and_prune stores.                              *)
THEOREM BeliefsOnlyFade == PartsSpec => OnlyRoundingRaises
<1> DEFINE Fade == Memory!RoundedUp(facts', facts) /\ Memory!RoundedUp(hypotheses', hypotheses)
<1>1. MemoryOK /\ [PartsNext]_partsVars => [Fade]_(Memory!beliefs)
  <2> SUFFICES ASSUME MemoryOK, [PartsNext]_partsVars
               PROVE  Fade \/ UNCHANGED Memory!beliefs
      OBVIOUS
  <2>1. CASE Memory!Next
      BY <2>1, MemoryStep
  <2>2. CASE UNCHANGED ofMemory
      BY <2>2 DEF ofMemory, Memory!beliefs
  <2> QED BY <2>1, <2>2, PartSteps
<1> QED BY <1>1, MemoryInvariant, PTL DEF PartsSpec, OnlyRoundingRaises, Memory!OnlyRoundingRaises

-----------------------------------------------------------------------------
(* Calls of agents at external providers.                                  *)

Sighting    == Platform \X Agent

Discovering == [kind : {"discover"}, pc : {"asking", "found", "raised"},
                at : Nat, route : Nat, size : Nat, found : SUBSET Sighting]
Unowned     == [kind : {"execute"}, pc : {"answered"}, heard : {FALSE}, agent : Agent,
                ran : {0}, unheard : {0}]
Executing   == [kind : {"execute"}, pc : {"running", "answered"}, heard : BOOLEAN,
                agent : Agent, by : Platform, route : Nat, ran : Nat, unheard : Nat]

(* While a call runs, none of its runs was heard of; the one that is, ends *)
(* it.                                                                     *)
Tallied(r) == r.unheard = IF r.heard THEN r.ran - 1 ELSE r.ran

JobOK(r, n) ==
    \/ r = External!Idle
    \/ r \in Discovering /\ (r.pc = "asking" => r.at \in 1..n)
    \/ r \in Unowned
    \/ r \in Executing /\ Tallied(r) /\ (r.pc = "running" => ~ r.heard)

JobsOK(j, n) == j = [t \in Task |-> j[t]] /\ \A t \in Task : JobOK(j[t], n)

ExternalOK ==
    /\ listed \in Seq(Platform)
    /\ registered \in [Platform -> SUBSET Agent] /\ offered \in [Platform -> SUBSET Agent]
    /\ JobsOK(job, Len(listed))

(* Who owns an agent is a listed provider.                                 *)
LEMMA FirstOwner ==
    ASSUME ExternalOK, NEW a \in Agent, External!Owners(a) # << >>
    PROVE  External!Owners(a)[1] \in Platform
<1> DEFINE P == { k \in DOMAIN listed : a \in registered[listed[k]] }
<1>1. External!Owners(a) = Kept(listed, P)
    BY DEF External!Owners, External!Kept, External!Nth, Kept, Nth,
           External!Cardinality, Cardinality
<1>2. Kept(listed, P) \in Seq(Platform)
  <2>1. listed \in Seq(Platform) /\ P \in SUBSET (DOMAIN listed)
      BY DEF ExternalOK
  <2> HIDE DEF P
  <2> QED BY <2>1, KeptSelects
<1> HIDE DEF P
<1> QED BY <1>1, <1>2

(* A call that replaces or continues one of a task leaves the others.      *)
LEMMA OneJob ==
    ASSUME ExternalOK, NEW t \in Task, NEW r, JobOK(r, Len(listed)),
           job' = [job EXCEPT ![t] = r]
    PROVE  JobsOK(job', Len(listed))
<1> DEFINE n == Len(listed)
<1>1. job = [u \in Task |-> job[u]] /\ \A u \in Task : JobOK(job[u], n)
    BY DEF ExternalOK, JobsOK
<1> HIDE DEF n
<1>2. \A u \in Task : job'[u] = IF u = t THEN r ELSE job[u]
    BY <1>1
<1>3. job' = [u \in Task |-> job'[u]]
    BY <1>1
<1>4. JobOK(r, n)
    BY DEF n
<1> QED BY <1>1, <1>2, <1>3, <1>4 DEF JobsOK, n

(* What a job says of its kind and of where it is.                         *)
LEMMA JobCases ==
    ASSUME ExternalOK, NEW t \in Task
    PROVE  /\ job[t].pc = "asking" => /\ job[t] \in Discovering
                                      /\ job[t].at \in 1..Len(listed)
           /\ job[t].pc = "running" => /\ job[t] \in Executing
                                       /\ Tallied(job[t]) /\ ~ job[t].heard
           /\ job[t].pc = "answered" => job[t] \in Unowned \cup Executing /\ Tallied(job[t])
<1> DEFINE r == job[t]
           n == Len(listed)
<1>1. JobOK(r, n)
    BY DEF ExternalOK, JobsOK
<1>2. r = External!Idle => r.pc = "idle"
    BY DEF External!Idle
<1>3. r \in Discovering => r.pc \in {"asking", "found", "raised"}
    BY DEF Discovering
<1>4. r \in Unowned => r.pc = "answered" /\ Tallied(r)
    BY DEF Unowned, Tallied
<1>5. r \in Executing => r.pc \in {"running", "answered"}
    BY DEF Executing
<1> HIDE DEF r, n
<1>6. r.pc = "asking" => r \in Discovering /\ r.at \in 1..n
    BY <1>1, <1>2, <1>4, <1>5 DEF JobOK
<1>7. r.pc = "running" => r \in Executing /\ Tallied(r) /\ ~ r.heard
    BY <1>1, <1>2, <1>3, <1>4 DEF JobOK
<1>8. r.pc = "answered" => r \in Unowned \cup Executing /\ Tallied(r)
    BY <1>1, <1>2, <1>3, <1>4 DEF JobOK
<1> QED BY <1>6, <1>7, <1>8 DEF r, n

(* The walk goes on to the next provider, if there is one.                 *)
LEMMA NextProviderOK ==
    ASSUME ExternalOK, NEW t \in Task, External!Asking(t),
           NEW seen \in SUBSET Sighting, External!NextProvider(t, seen)
    PROVE  JobsOK(job', Len(listed))
<1>1. job[t] \in Discovering /\ job[t].at \in 1..Len(listed)
    BY JobCases DEF External!Asking
<1> DEFINE q == IF job[t].size # Len(listed) THEN "raised"
                ELSE IF job[t].at = Len(listed) THEN "found" ELSE job[t].pc
           n == job[t].at + 1
           f == job[t].found \cup seen
           r == [job[t] EXCEPT !.at = n, !.route = 1, !.found = f, !.pc = q]
<1>2. job' = [job EXCEPT ![t] = r]
    BY DEF External!NextProvider
<1>3. q \in {"asking", "found", "raised"}
    BY <1>1 DEF Discovering
<1>4. n \in Nat /\ 1 \in Nat
    BY <1>1 DEF Discovering
<1>5. f \in SUBSET Sighting
    BY <1>1 DEF Discovering
<1>6. q = "asking" => n \in 1..Len(listed)
  <2>1. Len(listed) \in Nat
      BY DEF ExternalOK
  <2> QED BY <1>1, <2>1
<1> HIDE DEF q, n, f
<1>7. r \in Discovering /\ r.at = n /\ r.pc = q
    BY <1>1, <1>3, <1>4, <1>5 DEF Discovering
<1>8. JobOK(r, Len(listed))
    BY <1>6, <1>7 DEF JobOK
<1> HIDE DEF r
<1> QED BY <1>2, <1>8, OneJob

(* A task starts a call.                                                   *)
LEMMA StartOK ==
    ASSUME ExternalOK, NEW t \in Task,
           External!Discover(t) \/ \E a \in Agent : External!Execute(t, a)
    PROVE  JobsOK(job', Len(listed))
<1>0. listed \in Seq(Platform) /\ Len(listed) \in Nat
    BY DEF ExternalOK
<1>1. CASE External!Discover(t)
  <2> DEFINE q == IF listed = << >> THEN "found" ELSE "asking"
             n == Len(listed)
             r == [kind |-> "discover", pc |-> q,
                   at |-> 1, route |-> 1, size |-> n, found |-> {}]
  <2>1. job' = [job EXCEPT ![t] = r]
      BY <1>1 DEF External!Discover, External!Start
  <2>2. q \in {"asking", "found", "raised"} /\ (q = "asking" => 1 \in 1..n)
      BY <1>0
  <2>3. n \in Nat /\ {} \in SUBSET Sighting
      BY <1>0
  <2> HIDE DEF q, n
  <2>4. r \in Discovering
      BY <2>2, <2>3 DEF Discovering
  <2>5. JobOK(r, n)
      BY <2>2, <2>4 DEF JobOK
  <2> HIDE DEF r
  <2> QED BY <2>1, <2>5, OneJob DEF n
<1>2. ASSUME NEW a \in Agent, External!Execute(t, a)
      PROVE  JobsOK(job', Len(listed))
  <2> DEFINE refused == [kind |-> "execute", pc |-> "answered", heard |-> FALSE,
                         agent |-> a, ran |-> 0, unheard |-> 0]
             p == External!Owners(a)[1]
             started == [kind |-> "execute", pc |-> "running", heard |-> FALSE, agent |-> a,
                         by |-> p, route |-> 1, ran |-> 0, unheard |-> 0]
             r == IF External!Owners(a) = << >> THEN refused ELSE started
  <2>1. job' = [job EXCEPT ![t] = r]
      BY <1>2 DEF External!Execute, External!Start
  <2>2. refused \in Unowned
      BY DEF Unowned
  <2>3. External!Owners(a) # << >> => p \in Platform
      BY FirstOwner
  <2> HIDE DEF p
  <2>4. External!Owners(a) # << >> => started \in Executing
      BY <2>3 DEF Executing
  <2>5. Tallied(started) /\ ~ started.heard
      BY DEF Tallied
  <2> HIDE DEF refused, started
  <2>6. JobOK(r, Len(listed))
      BY <2>2, <2>4, <2>5 DEF JobOK
  <2> HIDE DEF r
  <2> QED BY <2>1, <2>6, OneJob
<1> QED BY <1>1, <1>2

(* A route runs the agent or not, and is heard or not: the tally is kept,  *)
(* and the first that is heard ends the call.                              *)
LEMMA RouteOK ==
    ASSUME ExternalOK, NEW t \in Task,
           External!RouteAnswers(t) \/ External!RouteUnheard(t) \/ External!OutOfRoutes(t)
    PROVE  JobsOK(job', Len(listed))
<1> DEFINE r == job[t]
<1>1. r \in Executing /\ Tallied(r) /\ ~ r.heard
  <2>1. r.pc = "running"
      BY DEF External!RouteAnswers, External!RouteUnheard, External!OutOfRoutes,
             External!Running
  <2> QED BY <2>1, JobCases
<1>2. r.unheard = r.ran /\ r.ran \in Nat /\ r.route \in Nat
    BY <1>1 DEF Tallied, Executing
<1>3. CASE External!RouteAnswers(t)
  <2> DEFINE n == r.ran + 1
             s == [r EXCEPT !.pc = "answered", !.heard = TRUE, !.ran = n]
  <2>1. job' = [job EXCEPT ![t] = s]
      BY <1>3 DEF External!RouteAnswers, External!Return
  <2>2. n \in Nat /\ n - 1 = r.unheard
      BY <1>2
  <2> HIDE DEF n, r
  <2>3. s \in Executing /\ s.heard /\ s.ran = n /\ s.unheard = r.unheard /\ s.pc = "answered"
      BY <1>1, <2>2 DEF Executing
  <2> HIDE DEF s
  <2>4. JobOK(s, Len(listed))
      BY <2>2, <2>3 DEF JobOK, Tallied
  <2> QED BY <2>1, <2>4, OneJob
<1>4. CASE External!RouteUnheard(t)
  <2>1. PICK i \in {0, 1}, q \in External!RoutesLeft(t) :
           job' = [job EXCEPT ![t].route = q, ![t].ran = @ + i, ![t].unheard = @ + i]
      BY <1>4 DEF External!RouteUnheard
  <2> DEFINE n == r.ran + i
             s == [r EXCEPT !.route = q, !.ran = n, !.unheard = n]
  <2>2. job' = [job EXCEPT ![t] = s]
      BY <1>2, <2>1
  <2>3. n \in Nat
      BY <1>2
  <2>4. q \in Nat
    <3>1. \A p \in Platform : Len(External!Execution[p]) \in Nat
      <4>1. Platform \subseteq {"openclaw", "n8n", "nanda", "ard"}
          BY ExternalAssumption DEF External!Assumptions
      <4> QED BY <4>1 DEF External!Execution, External!OpenClawExecution,
                 External!N8nExecution, External!NandaExecution, External!ArdExecution
    <3>2. r.by \in Platform
        BY <1>1 DEF Executing
    <3> QED BY <1>2, <3>1, <3>2 DEF External!RoutesLeft
  <2> HIDE DEF n, r
  <2>5. s \in Executing /\ s.heard = r.heard /\ s.ran = n /\ s.unheard = n
      BY <1>1, <2>3, <2>4 DEF Executing
  <2> HIDE DEF s
  <2>6. JobOK(s, Len(listed))
      BY <1>1, <2>5 DEF JobOK, Tallied
  <2> QED BY <2>2, <2>6, OneJob
<1>5. CASE External!OutOfRoutes(t)
  <2> DEFINE s == [r EXCEPT !.pc = "answered"]
  <2>1. job' = [job EXCEPT ![t] = s]
      BY <1>5 DEF External!OutOfRoutes
  <2> HIDE DEF r
  <2>2. s \in Executing /\ s.heard = r.heard /\ s.ran = r.ran /\ s.unheard = r.unheard
        /\ s.pc = "answered"
      BY <1>1 DEF Executing
  <2> HIDE DEF s
  <2>3. JobOK(s, Len(listed))
      BY <1>1, <2>2 DEF JobOK, Tallied
  <2> QED BY <2>1, <2>3, OneJob
<1> QED BY <1>3, <1>4, <1>5

(* A call that starts.                                                     *)
LEMMA AskStep ==
    ASSUME ExternalOK, NEW t \in Task,
           External!RouteFinds(t) \/ External!RouteFails(t)
    PROVE  /\ listed' = listed /\ offered' = offered
           /\ registered' \in [Platform -> SUBSET Agent]
           /\ JobsOK(job', Len(listed))
<1>1. /\ External!Asking(t) /\ listed' = listed /\ offered' = offered
      /\ job[t] \in Discovering /\ job[t].at \in 1..Len(listed)
    BY JobCases DEF External!RouteFinds, External!RouteFails, External!Asking
<1> DEFINE p == External!At(t)
<1>2. p \in Platform
    BY <1>1 DEF External!At, ExternalOK
<1>3. offered[p] \in SUBSET Agent /\ registered[p] \in SUBSET Agent
    BY <1>2 DEF ExternalOK
<1> HIDE DEF p
<1>4. CASE External!RouteFinds(t)
  <2>1. registered' = [registered EXCEPT ![p] = @ \cup offered[p]]
      BY <1>4 DEF External!RouteFinds, External!Register, p
  <2>2. registered' \in [Platform -> SUBSET Agent]
      BY <1>3, <2>1 DEF ExternalOK
  <2> DEFINE seen == {p} \X offered[p]
  <2>3. seen \in SUBSET Sighting
      BY <1>2, <1>3 DEF Sighting
  <2>4. External!NextProvider(t, seen)
      BY <1>4 DEF External!RouteFinds, p
  <2> HIDE DEF seen
  <2> QED BY <1>1, <2>2, <2>3, <2>4, NextProviderOK
<1>5. CASE External!RouteFails(t)
  <2>1. registered' = registered
      BY <1>5 DEF External!RouteFails
  <2>2. CASE External!NextProvider(t, {})
    <3>1. {} \in SUBSET Sighting
        OBVIOUS
    <3>2. JobsOK(job', Len(listed))
        BY <1>1, <2>2, <3>1, NextProviderOK
    <3> QED BY <1>1, <2>1, <3>2 DEF ExternalOK
  <2>3. CASE job' = [job EXCEPT ![t].route = @ + 1]
    <3> DEFINE n == job[t].route + 1
               r == [job[t] EXCEPT !.route = n]
    <3>1. job' = [job EXCEPT ![t] = r]
        BY <2>3
    <3>2. n \in Nat
        BY <1>1 DEF Discovering
    <3> HIDE DEF n
    <3>3. r \in Discovering /\ r.at = job[t].at
        BY <1>1, <3>2 DEF Discovering
    <3>4. JobOK(r, Len(listed))
        BY <1>1, <3>3 DEF JobOK
    <3> HIDE DEF r
    <3>5. JobsOK(job', Len(listed))
        BY <3>1, <3>4, OneJob
    <3> QED BY <1>1, <2>1, <3>5 DEF ExternalOK
  <2> QED BY <1>5, <2>2, <2>3 DEF External!RouteFails
<1> QED BY <1>4, <1>5

(* Every step of the registry and of its calls.                            *)
LEMMA ExternalStep ==
    ASSUME ExternalOK, [External!Next]_ofExternal
    PROVE  ExternalOK'
<1>0. listed \in Seq(Platform) /\ Len(listed) \in Nat
    BY DEF ExternalOK
<1>1. CASE UNCHANGED ofExternal
    BY <1>1 DEF ofExternal, ExternalOK, JobsOK
<1>2. ASSUME NEW p \in Platform, External!RegisterProvider(p)
      PROVE  ExternalOK'
  <2>1. /\ listed' = Append(listed, p)
        /\ registered' = registered /\ offered' = offered /\ job' = job
      BY <1>2 DEF External!RegisterProvider
  <2>2. listed' \in Seq(Platform) /\ Len(listed') = Len(listed) + 1
      BY <1>0, <2>1
  <2>3. \A r : JobOK(r, Len(listed)) => JobOK(r, Len(listed'))
    <3>1. \A k \in 1..Len(listed) : k \in 1..Len(listed')
        BY <1>0, <2>2
    <3> QED BY <3>1 DEF JobOK
  <2> QED BY <2>1, <2>2, <2>3 DEF ExternalOK, JobsOK
<1>3. ASSUME NEW p \in Platform, NEW a \in Agent,
             External!RegisterDiscovered(p, a) \/ External!Offer(p, a)
      PROVE  ExternalOK'
  <2>1. listed' = listed /\ job' = job
      BY <1>3 DEF External!RegisterDiscovered, External!Offer
  <2>2. registered' \in [Platform -> SUBSET Agent] /\ offered' \in [Platform -> SUBSET Agent]
      BY <1>3 DEF External!RegisterDiscovered, External!Offer, ExternalOK
  <2> QED BY <2>1, <2>2 DEF ExternalOK, JobsOK
<1>4. ASSUME NEW t \in Task, External!RouteFinds(t) \/ External!RouteFails(t)
      PROVE  ExternalOK'
  <2>1. /\ listed' = listed /\ offered' = offered
        /\ registered' \in [Platform -> SUBSET Agent]
        /\ JobsOK(job', Len(listed))
      BY <1>4, AskStep
  <2> QED BY <2>1 DEF ExternalOK
<1>5. ASSUME NEW t \in Task,
             \/ External!Discover(t) \/ \E a \in Agent : External!Execute(t, a)
             \/ External!RouteAnswers(t) \/ External!RouteUnheard(t) \/ External!OutOfRoutes(t)
      PROVE  ExternalOK'
  <2>1. listed' = listed /\ registered' = registered /\ offered' = offered
      BY <1>5 DEF External!Discover, External!Execute, External!Start, External!RouteAnswers,
                  External!RouteUnheard, External!OutOfRoutes
  <2>2. JobsOK(job', Len(listed))
      BY <1>5, StartOK, RouteOK
  <2> QED BY <2>1, <2>2 DEF ExternalOK
<1> QED BY <1>1, <1>2, <1>3, <1>4, <1>5 DEF External!Next, External!Step

(* The registry, the jobs and their tallies stay what they must be.        *)
THEOREM ExternalInvariant == PartsSpec => []ExternalOK
<1>1. PartsInit => ExternalOK
  <2> SUFFICES ASSUME PartsInit
               PROVE  ExternalOK
      OBVIOUS
  <2>1. /\ listed = << >> /\ job = [t \in Task |-> External!Idle]
        /\ registered = [p \in Platform |-> {}] /\ offered = [p \in Platform |-> {}]
      BY DEF PartsInit, External!Init
  <2>2. JobsOK(job, Len(listed))
      BY <2>1 DEF JobsOK, JobOK
  <2> QED BY <2>1, <2>2 DEF ExternalOK
<1>2. ExternalOK /\ [PartsNext]_partsVars => ExternalOK'
    BY PartSteps, ExternalStep
<1> QED BY <1>1, <1>2, PTL DEF PartsSpec

(* When a call of an agent is over, at most one of its runs was heard, and *)
(* that is the one reported: none that was heard is followed by another    *)
(* (execute_agent).                                                        *)
THEOREM AgentRunsAccounted == PartsSpec => []RunsAccountedFor
<1>1. ExternalOK => RunsAccountedFor
  <2> SUFFICES ASSUME ExternalOK, NEW t \in Task,
                      job[t].kind = "execute", job[t].pc = "answered"
               PROVE  job[t].ran - job[t].unheard = (IF job[t].heard THEN 1 ELSE 0)
      BY DEF RunsAccountedFor, External!RunsAccountedFor
  <2>1. job[t] \in Unowned \cup Executing /\ Tallied(job[t])
      BY JobCases
  <2>2. \A r \in Unowned : r.ran = 0
      BY DEF Unowned
  <2>3. \A r \in Executing : r.ran \in Nat
      BY DEF Executing
  <2> QED BY <2>1, <2>2, <2>3 DEF Tallied
<1> QED BY <1>1, ExternalInvariant, PTL

-----------------------------------------------------------------------------
(* What is announced of adapters.                                          *)

Listed == Range(Registry)

Checking   == [pc : {"checking"}, at : Listed, rest : Seq(Listed)]
Announcing == [pc : {"announcing"}, at : Listed, rest : Seq(Listed), ok : BOOLEAN]

LoopOK(l) == l \in {Lifecycle!Off, Lifecycle!Sleeping} \cup Checking \cup Announcing

(* Of the adapter is kept, or about to be kept, that it is not healthy.    *)
Unhealthy(a) == IF loop.pc = "announcing" /\ loop.at = a THEN loop.ok = FALSE
                ELSE health[a] = FALSE

(* Outside the loop, what was announced as degraded is not healthy; while  *)
(* starting, all that have their turn behind them were announced anew.     *)
LifecycleOK ==
    /\ phase \in {"down", "starting", "up", "stopping"}
    /\ todo \in Seq(Listed) /\ adapters \in Seq(Listed)
    /\ health \in [Adapter -> BOOLEAN]
    /\ told \in [Adapter -> {"nothing", "ready", "failed", "recovered", "degraded", "shutdown"}]
    /\ LoopOK(loop) /\ (phase # "up" => loop = Lifecycle!Off)
    /\ phase = "up" => \A a \in Listed :
                           told[a] = "degraded" => Unhealthy(a)
    /\ phase = "starting" => \A a \in Listed : told[a] = "degraded" => a \in Range(todo)

(* What is in the registry are adapters.                                   *)
LEMMA ListedAreAdapters == Registry \in Seq(Listed) /\ Listed \subseteq Adapter
<1>1. Registry \in Seq(Adapter)
    BY LifecycleAssumption DEF Lifecycle!Assumptions
<1>2. DOMAIN Registry = 1..Len(Registry) /\ Len(Registry) \in Nat
      /\ Registry \in [1..Len(Registry) -> Adapter]
    BY <1>1
<1>3. Registry \in [1..Len(Registry) -> Listed] /\ Listed \subseteq Adapter
    BY <1>2 DEF Listed, Range
<1> QED BY <1>2, <1>3

(* The first of a sequence and those after it are all of it.               *)
LEMMA HeadAndTail ==
    ASSUME NEW S, NEW s \in Seq(S), s # << >>
    PROVE  /\ Head(s) \in S /\ Tail(s) \in Seq(S)
           /\ Range(s) = {Head(s)} \cup Range(Tail(s))
<1>1. /\ Head(s) \in S /\ Tail(s) \in Seq(S)
      /\ Len(s) \in Nat /\ Len(s) > 0 /\ Len(Tail(s)) = Len(s) - 1
      /\ DOMAIN s = 1..Len(s) /\ DOMAIN Tail(s) = 1..(Len(s) - 1)
      /\ Head(s) = s[1] /\ \A k \in 1..(Len(s) - 1) : Tail(s)[k] = s[k + 1]
    OBVIOUS
<1>2. \A x \in Range(s) : x \in {Head(s)} \cup Range(Tail(s))
  <2> SUFFICES ASSUME NEW k \in 1..Len(s), k # 1
               PROVE  s[k] \in Range(Tail(s))
      BY <1>1 DEF Range
  <2>1. k - 1 \in 1..(Len(s) - 1) /\ s[k] = Tail(s)[k - 1]
      BY <1>1
  <2> QED BY <1>1, <2>1 DEF Range
<1>3. Head(s) \in Range(s)
    BY <1>1 DEF Range
<1>4. \A x \in Range(Tail(s)) : x \in Range(s)
  <2> SUFFICES ASSUME NEW k \in 1..(Len(s) - 1)
               PROVE  Tail(s)[k] \in Range(s)
      BY <1>1 DEF Range
  <2>1. k + 1 \in 1..Len(s) /\ s[k + 1] = Tail(s)[k]
      BY <1>1
  <2> QED BY <1>1, <2>1 DEF Range
<1> QED BY <1>1, <1>2, <1>3, <1>4

(* Where the loop goes on to.                                              *)
LEMMA ContinueOK ==
    ASSUME NEW rest \in Seq(Listed), Lifecycle!Continue(rest)
    PROVE  LoopOK(loop') /\ loop'.pc \in {"sleeping", "checking"}
<1>1. CASE rest = << >>
    BY <1>1 DEF Lifecycle!Continue, LoopOK, Lifecycle!Sleeping
<1>2. CASE rest # << >>
  <2>1. Head(rest) \in Listed /\ Tail(rest) \in Seq(Listed)
      BY <1>2, HeadAndTail
  <2>2. loop' = [pc |-> "checking", at |-> Head(rest), rest |-> Tail(rest)]
      BY <1>2 DEF Lifecycle!Continue, Lifecycle!Check
  <2>3. loop' \in Checking
      BY <2>1, <2>2 DEF Checking
  <2> QED BY <2>2, <2>3 DEF LoopOK
<1> QED BY <1>1, <1>2

(* The loop is off, asleep, or at an adapter.                              *)
LEMMA LoopCases ==
    ASSUME NEW l, LoopOK(l)
    PROVE  /\ l.pc = "checking" => l \in Checking /\ l.at \in Listed /\ l.rest \in Seq(Listed)
           /\ l.pc = "announcing" => /\ l \in Announcing /\ l.at \in Listed
                                     /\ l.rest \in Seq(Listed) /\ l.ok \in BOOLEAN
           /\ l.pc \in {"checking", "announcing", "sleeping"} => l # Lifecycle!Off
<1>1. l = Lifecycle!Off => l.pc = "none"
    BY DEF Lifecycle!Off
<1>2. l = Lifecycle!Sleeping => l.pc = "sleeping"
    BY DEF Lifecycle!Sleeping
<1>3. l \in Checking => l.pc = "checking" /\ l.at \in Listed /\ l.rest \in Seq(Listed)
    BY DEF Checking
<1>4. l \in Announcing => /\ l.pc = "announcing" /\ l.at \in Listed
                          /\ l.rest \in Seq(Listed) /\ l.ok \in BOOLEAN
    BY DEF Announcing
<1> QED BY <1>1, <1>2, <1>3, <1>4 DEF LoopOK

(* Starting: one adapter after the other, and then the loop.               *)
LEMMA StartingStep ==
    ASSUME LifecycleOK,
           \/ Lifecycle!Startup \/ Lifecycle!Initialized \/ Lifecycle!InitializeRaises
           \/ Lifecycle!Started
    PROVE  LifecycleOK'
<1>1. CASE Lifecycle!Startup
  <2>1. todo' = Registry /\ phase' = "starting"
        /\ UNCHANGED << adapters, health, loop, told >> /\ phase = "down"
      BY <1>1 DEF Lifecycle!Startup
  <2>2. todo' \in Seq(Listed) /\ Range(todo') = Listed
      BY <2>1, ListedAreAdapters DEF Listed
  <2> QED BY <2>1, <2>2 DEF LifecycleOK
<1>2. CASE Lifecycle!Initialized \/ Lifecycle!InitializeRaises
  <2>1. /\ phase = "starting" /\ phase' = "starting" /\ todo # << >>
        /\ todo' = Tail(todo) /\ loop' = loop
        /\ \E what \in {"ready", "failed"} : told' = [told EXCEPT ![Head(todo)] = what]
        /\ health' \in {health, [health EXCEPT ![Head(todo)] = TRUE]}
        /\ adapters' \in {adapters, Append(adapters, Head(todo))}
      BY <1>2 DEF Lifecycle!Initialized, Lifecycle!InitializeRaises, Lifecycle!Adding
  <2>2. /\ Head(todo) \in Listed /\ todo' \in Seq(Listed)
        /\ Range(todo) = {Head(todo)} \cup Range(todo')
      BY <2>1, HeadAndTail DEF LifecycleOK
  <2>3. adapters' \in Seq(Listed)
    <3>1. adapters \in Seq(Listed) /\ Append(adapters, Head(todo)) \in Seq(Listed)
        BY <2>2 DEF LifecycleOK
    <3> QED BY <2>1, <3>1
  <2>4. Head(todo) \in Adapter
      BY <2>2, ListedAreAdapters
  <2>5. health' \in [Adapter -> BOOLEAN]
      BY <2>1, <2>4 DEF LifecycleOK
  <2>6. /\ told' \in [Adapter -> {"nothing", "ready", "failed", "recovered", "degraded", "shutdown"}]
        /\ told'[Head(todo)] # "degraded"
        /\ \A a \in Adapter \ {Head(todo)} : told'[a] = told[a]
      BY <2>1, <2>4 DEF LifecycleOK
  <2>7. \A a \in Listed : told'[a] = "degraded" => a \in Range(todo')
    <3> SUFFICES ASSUME NEW a \in Listed, told'[a] = "degraded"
                 PROVE  a \in Range(todo')
        OBVIOUS
    <3>1. a # Head(todo) /\ told[a] = "degraded"
        BY <2>6, ListedAreAdapters
    <3>2. a \in Range(todo)
        BY <2>1, <3>1 DEF LifecycleOK
    <3> QED BY <2>2, <3>1, <3>2
  <2> QED BY <2>1, <2>2, <2>3, <2>5, <2>6, <2>7 DEF LifecycleOK
<1>3. CASE Lifecycle!Started
  <2>1. /\ phase = "starting" /\ todo = << >> /\ phase' = "up"
        /\ loop' = Lifecycle!Sleeping
        /\ UNCHANGED << todo, adapters, health, told >>
      BY <1>3 DEF Lifecycle!Started
  <2>2. \A a \in Listed : told[a] # "degraded"
    <3>1. Range(todo) = {}
        BY <2>1 DEF Range
    <3> QED BY <2>1, <3>1 DEF LifecycleOK
  <2>3. LoopOK(loop')
      BY <2>1 DEF LoopOK
  <2> QED BY <2>1, <2>2, <2>3 DEF LifecycleOK
<1> QED BY <1>1, <1>2, <1>3

(* What a step of the loop leaves as it must be: it has kept what it was   *)
(* to keep, and announced as degraded only what it is going to keep.       *)
LEMMA LoopKeeps ==
    ASSUME LifecycleOK, loop # Lifecycle!Off,
           UNCHANGED << phase, todo, adapters >>,
           LoopOK(loop'), health' \in [Adapter -> BOOLEAN],
           told' \in [Adapter -> {"nothing", "ready", "failed", "recovered", "degraded", "shutdown"}],
           \A a \in Listed : told'[a] = "degraded" => Unhealthy(a)'
    PROVE  LifecycleOK'
<1>1. phase = "up"
    BY DEF LifecycleOK
<1> QED BY <1>1 DEF LifecycleOK

(* A step of the health loop.                                              *)
LEMMA LoopStep ==
    ASSUME LifecycleOK,
           \/ Lifecycle!Wake \/ Lifecycle!CheckRaises \/ Lifecycle!Announced
           \/ \E ok \in BOOLEAN : Lifecycle!Checked(ok)
    PROVE  LifecycleOK'
<1>0. /\ LoopOK(loop) /\ Listed \subseteq Adapter /\ adapters \in Seq(Listed)
      /\ health \in [Adapter -> BOOLEAN]
      /\ told \in [Adapter -> {"nothing", "ready", "failed", "recovered", "degraded", "shutdown"}]
    BY ListedAreAdapters DEF LifecycleOK
<1>1. /\ loop # Lifecycle!Off /\ UNCHANGED << phase, todo, adapters >>
      /\ loop.pc \in {"checking", "announcing", "sleeping"}
    BY <1>0, LoopCases DEF Lifecycle!Wake, Lifecycle!CheckRaises, Lifecycle!Announced,
                           Lifecycle!Checked
<1>2. \A a \in Listed : told[a] = "degraded" => Unhealthy(a)
    BY <1>1 DEF LifecycleOK
<1>3. CASE Lifecycle!Wake
  <2>1. /\ loop.pc = "sleeping" /\ Lifecycle!Continue(adapters)
        /\ UNCHANGED << health, told >>
      BY <1>3 DEF Lifecycle!Wake
  <2>2. LoopOK(loop') /\ loop'.pc # "announcing"
      BY <1>0, <2>1, ContinueOK
  <2>3. \A a \in Listed : told'[a] = "degraded" => Unhealthy(a)'
      BY <1>2, <2>1, <2>2 DEF Unhealthy
  <2> QED BY <1>0, <1>1, <2>1, <2>2, <2>3, LoopKeeps
<1>4. CASE Lifecycle!CheckRaises
  <2>1. /\ loop.pc = "checking" /\ Lifecycle!Continue(loop.rest)
        /\ health' = [health EXCEPT ![loop.at] = FALSE] /\ told' = told
      BY <1>4 DEF Lifecycle!CheckRaises
  <2>2. loop.at \in Adapter /\ loop.rest \in Seq(Listed)
      BY <1>0, <2>1, LoopCases
  <2>3. LoopOK(loop') /\ loop'.pc # "announcing"
      BY <2>1, <2>2, ContinueOK
  <2>4. health' \in [Adapter -> BOOLEAN]
      BY <1>0, <2>1
  <2>5. \A a \in Listed : told'[a] = "degraded" => Unhealthy(a)'
      BY <1>0, <1>2, <2>1, <2>2, <2>3 DEF Unhealthy
  <2> QED BY <1>0, <1>1, <2>1, <2>3, <2>4, <2>5, LoopKeeps
<1>5. CASE Lifecycle!Announced
  <2>1. /\ loop.pc = "announcing" /\ Lifecycle!Continue(loop.rest)
        /\ health' = [health EXCEPT ![loop.at] = loop.ok] /\ told' = told
      BY <1>5 DEF Lifecycle!Announced, Lifecycle!KeptHealth
  <2>2. loop.at \in Adapter /\ loop.rest \in Seq(Listed) /\ loop.ok \in BOOLEAN
      BY <1>0, <2>1, LoopCases
  <2>3. LoopOK(loop') /\ loop'.pc # "announcing"
      BY <2>1, <2>2, ContinueOK
  <2>4. health' \in [Adapter -> BOOLEAN]
      BY <1>0, <2>1, <2>2
  <2>5. \A a \in Listed : told'[a] = "degraded" => Unhealthy(a)'
    <3> TAKE a \in Listed
    <3>1. Unhealthy(a) => health'[a] = FALSE
        BY <1>0, <2>1, <2>2 DEF Unhealthy
    <3> QED BY <1>2, <2>1, <2>3, <3>1 DEF Unhealthy
  <2> QED BY <1>0, <1>1, <2>1, <2>3, <2>4, <2>5, LoopKeeps
<1>6. ASSUME NEW ok \in BOOLEAN, Lifecycle!Checked(ok)
      PROVE  LifecycleOK'
  <2>1. loop.pc = "checking"
      BY <1>6 DEF Lifecycle!Checked
  <2>2. loop.at \in Listed /\ loop.at \in Adapter /\ loop.rest \in Seq(Listed)
      BY <1>0, <2>1, LoopCases
  <2>3. CASE Lifecycle!Announces(loop.at, ok)
    <3>1. /\ told' = [told EXCEPT ![loop.at] = IF ok THEN "recovered" ELSE "degraded"]
          /\ loop' = [pc |-> "announcing", at |-> loop.at, rest |-> loop.rest, ok |-> ok]
          /\ health' = health
        BY <1>6, <2>3 DEF Lifecycle!Checked, Lifecycle!Announce
    <3>2. loop' \in Announcing
        BY <2>2, <3>1 DEF Announcing
    <3>3. told' \in [Adapter -> {"nothing", "ready", "failed", "recovered", "degraded", "shutdown"}]
        BY <1>0, <3>1
    <3>4. \A a \in Listed : told'[a] = "degraded" => Unhealthy(a)'
      <4> TAKE a \in Listed
      <4>1. CASE a = loop.at
        <5>1. told'[a] = IF ok THEN "recovered" ELSE "degraded"
            BY <1>0, <2>2, <3>1, <4>1
        <5>2. told'[a] = "degraded" => ok = FALSE
            BY <5>1
        <5> QED BY <3>1, <4>1, <5>2 DEF Unhealthy
      <4>2. CASE a # loop.at
        <5>1. told'[a] = told[a] /\ loop'.at = loop.at
            BY <1>0, <3>1, <4>2
        <5> QED BY <1>2, <2>1, <3>1, <4>2, <5>1 DEF Unhealthy
      <4> QED BY <4>1, <4>2
    <3> QED BY <1>0, <1>1, <3>1, <3>2, <3>3, <3>4, LoopKeeps DEF LoopOK
  <2>4. CASE ~ Lifecycle!Announces(loop.at, ok)
    <3>1. Lifecycle!Continue(loop.rest) /\ told' = told /\ health' = health
        BY <1>6, <2>4 DEF Lifecycle!Checked
    <3>2. LoopOK(loop') /\ loop'.pc # "announcing"
        BY <2>2, <3>1, ContinueOK
    <3>3. \A a \in Listed : told'[a] = "degraded" => Unhealthy(a)'
        BY <1>2, <2>1, <3>1, <3>2 DEF Unhealthy
    <3> QED BY <1>0, <1>1, <3>1, <3>2, <3>3, LoopKeeps
  <2> QED BY <2>3, <2>4
<1> QED BY <1>3, <1>4, <1>5, <1>6

(* Shutting down goes through the same adapters the other way.             *)
LEMMA ReverseType ==
    ASSUME NEW S, NEW s \in Seq(S)
    PROVE  Lifecycle!Reverse(s) \in Seq(S)
<1>1. Lifecycle!Reverse(s) = [i \in 1..Len(s) |-> s[(Len(s) - i) + 1]]
    BY DEF Lifecycle!Reverse
<1>2. \A i \in 1..Len(s) : (Len(s) - i) + 1 \in 1..Len(s)
    OBVIOUS
<1> QED BY <1>1, <1>2

(* Shutting down, whatever was about to be kept, and serving calls.        *)
LEMMA OtherStep ==
    ASSUME LifecycleOK,
           \/ \E t \in Task : Lifecycle!Executed(t) \/ \E a \in Adapter : Lifecycle!Execute(t, a)
           \/ Lifecycle!Shutdown \/ Lifecycle!Stopped
           \/ \E ok \in BOOLEAN : Lifecycle!Closed(ok)
    PROVE  LifecycleOK'
<1>1. CASE \E t \in Task : Lifecycle!Executed(t) \/ \E a \in Adapter : Lifecycle!Execute(t, a)
  <2>1. UNCHANGED << phase, todo, adapters, health, loop, told >>
      BY <1>1 DEF Lifecycle!Executed, Lifecycle!Execute
  <2> QED BY <2>1 DEF LifecycleOK, Unhealthy
<1>2. CASE Lifecycle!Shutdown
  <2>1. /\ phase' = "stopping" /\ loop' = Lifecycle!Off /\ todo' = Lifecycle!Reverse(adapters)
        /\ UNCHANGED << adapters, health, told >>
      BY <1>2 DEF Lifecycle!Shutdown
  <2>2. todo' \in Seq(Listed)
      BY <2>1, ReverseType DEF LifecycleOK
  <2> QED BY <2>1, <2>2 DEF LifecycleOK, LoopOK
<1>3. CASE Lifecycle!Stopped
  <2>1. phase = "stopping" /\ phase' = "down" /\ UNCHANGED << todo, adapters, health, loop, told >>
      BY <1>3 DEF Lifecycle!Stopped
  <2> QED BY <2>1 DEF LifecycleOK
<1>4. ASSUME NEW ok \in BOOLEAN, Lifecycle!Closed(ok)
      PROVE  LifecycleOK'
  <2>1. /\ phase = "stopping" /\ todo # << >> /\ todo' = Tail(todo)
        /\ told' \in {told, [told EXCEPT ![Head(todo)] = "shutdown"]}
        /\ UNCHANGED << phase, adapters, health, loop >>
      BY <1>4 DEF Lifecycle!Closed
  <2>2. todo' \in Seq(Listed)
      BY <2>1, HeadAndTail DEF LifecycleOK
  <2>3. told' \in [Adapter -> {"nothing", "ready", "failed", "recovered", "degraded", "shutdown"}]
      BY <2>1 DEF LifecycleOK
  <2> QED BY <2>1, <2>2, <2>3 DEF LifecycleOK
<1> QED BY <1>1, <1>2, <1>3, <1>4

(* What was announced as degraded is not healthy, or about to be kept so,  *)
(* as long as the loop runs.                                               *)
THEOREM LifecycleInvariant == PartsSpec => []LifecycleOK
<1>1. PartsInit => LifecycleOK
  <2> SUFFICES ASSUME PartsInit
               PROVE  LifecycleOK
      OBVIOUS
  <2>1. /\ phase = "down" /\ todo = << >> /\ adapters = << >>
        /\ health = [a \in Adapter |-> FALSE] /\ loop = Lifecycle!Off
        /\ told = [a \in Adapter |-> "nothing"]
      BY DEF PartsInit, Lifecycle!Init, Lifecycle!Nothing
  <2> QED BY <2>1 DEF LifecycleOK, LoopOK
<1>2. LifecycleOK /\ [PartsNext]_partsVars => LifecycleOK'
  <2> SUFFICES ASSUME LifecycleOK, [Lifecycle!Next]_ofLifecycle
               PROVE  LifecycleOK'
      BY PartSteps
  <2>1. CASE UNCHANGED ofLifecycle
      BY <2>1 DEF ofLifecycle, LifecycleOK, Unhealthy
  <2> QED BY <2>1, StartingStep, LoopStep, OtherStep DEF Lifecycle!Next
<1> QED BY <1>1, <1>2, PTL DEF PartsSpec

(* No adapter is announced as degraded twice without a recovery, a         *)
(* shutdown or a new start in between (_health_check_loop).                *)
THEOREM DegradedOnce == PartsSpec => AnnouncedOnce
<1> DEFINE Once == loop.pc = "checking" /\ loop'.pc = "announcing" /\ ~loop'.ok
                      => told[loop.at] # "degraded"
           lifecycle == Lifecycle!vars
<1>1. LifecycleOK /\ [PartsNext]_partsVars => [Once]_lifecycle
  <2> SUFFICES ASSUME LifecycleOK, [PartsNext]_partsVars,
                      loop.pc = "checking", loop'.pc = "announcing", ~loop'.ok
               PROVE  told[loop.at] # "degraded"
      OBVIOUS
  <2>1. Lifecycle!Next
    <3>1. loop' # loop
        OBVIOUS
    <3> QED BY <3>1, PartSteps DEF ofLifecycle
  <2>2. /\ loop.at \in Listed /\ loop.rest \in Seq(Listed) /\ loop # Lifecycle!Off
        /\ loop.at \in Adapter /\ health \in [Adapter -> BOOLEAN]
      BY LoopCases, ListedAreAdapters DEF LifecycleOK
  <2>3. \A rest \in Seq(Listed) : ~ Lifecycle!Continue(rest)
      BY ContinueOK
  <2>4. \E ok \in BOOLEAN : Lifecycle!Checked(ok) /\ Lifecycle!Announces(loop.at, ok)
    <3>1. ~ Lifecycle!CheckRaises
        BY <2>2, <2>3 DEF Lifecycle!CheckRaises
    <3>2. \E ok \in BOOLEAN : Lifecycle!Checked(ok)
        BY <2>1, <3>1
           DEF Lifecycle!Next, Lifecycle!Startup, Lifecycle!Initialized,
               Lifecycle!InitializeRaises, Lifecycle!Started, Lifecycle!Wake,
               Lifecycle!Announced, Lifecycle!Executed, Lifecycle!Execute,
               Lifecycle!Shutdown, Lifecycle!Off, Lifecycle!Sleeping,
               Lifecycle!Stopped, Lifecycle!Closed
    <3> QED BY <2>2, <2>3, <3>2 DEF Lifecycle!Checked
  <2>5. health[loop.at] # FALSE
    <3>1. PICK ok \in BOOLEAN : Lifecycle!Checked(ok) /\ Lifecycle!Announces(loop.at, ok)
        BY <2>4
    <3>2. loop'.ok = ok
        BY <3>1 DEF Lifecycle!Checked, Lifecycle!Announce
    <3> QED BY <3>1, <3>2 DEF Lifecycle!Announces
  <2>6. phase = "up" /\ ~ Unhealthy(loop.at)
      BY <2>2, <2>5 DEF LifecycleOK, Unhealthy
  <2> QED BY <2>2, <2>6 DEF LifecycleOK
<1> QED BY <1>1, LifecycleInvariant, PTL DEF PartsSpec, AnnouncedOnce, Lifecycle!AnnouncedOnce

-----------------------------------------------------------------------------
(* Tasks that wait for a runtime.                                          *)

Description == [id : Runtime, caps : SUBSET Capability, cpu : 0..10, memory : 0..10,
                depth : Nat, active : Nat, online : BOOLEAN]
Placement   == [Job -> Runtime \cup {Scheduler!Nowhere, Scheduler!Unasked}]

Unplaced(pl, j) == pl[j] = Scheduler!Nowhere
Waits(q, j)     == j \in Range(q)

SchedulerOK ==
    /\ runtimes \in Seq(Description)
    /\ queue \in Seq(Job) /\ Len(queue) <= MaxQueue
    /\ placed \in Placement
    /\ \A j \in Job : Unplaced(placed, j) /\ j \notin turned => Waits(queue, j)
    /\ \A j \in Job : Waits(queue, j) => Unplaced(placed, j)

(* What the constants of the scheduler are.                                *)
LEMMA SchedulerConstants ==
    /\ Scheduler!Nowhere \notin Runtime /\ Scheduler!Unasked \notin Runtime
    /\ Scheduler!Nowhere # Scheduler!Unasked
    /\ Demands \in [Job -> SUBSET Capability] /\ Descriptors \subseteq Description
    /\ Beats \subseteq [cpu : 0..10, memory : 0..10, depth : Nat]
    /\ MaxQueue \in Nat
BY SchedulerAssumption DEF Scheduler!Assumptions, Scheduler!Nowhere, Scheduler!Unasked, Description

(* The copy of Kept.                                                       *)
LEMMA KeptOfScheduler ==
    ASSUME NEW s, NEW P
    PROVE  Scheduler!Kept(s, P) = Kept(s, P)
BY DEF Scheduler!Kept, Scheduler!Nth, Scheduler!Cardinality, Kept, Nth, Cardinality

(* The first part of a runtime is a number, and so is the score.           *)
LEMMA Quotient ==
    ASSUME NEW n \in Nat
    PROVE  120 \div (n + 1) \in Nat
OBVIOUS

(* The score is a number.                                                  *)
LEMMA ScoreType ==
    ASSUME NEW r \in Description
    PROVE  Scheduler!Score(r) \in Nat
<1>1. r.cpu \in 0..10 /\ r.memory \in 0..10 /\ r.depth \in Nat /\ r.active \in Nat
    BY DEF Description
<1> DEFINE d == 120 \div (r.depth + 1)
           a == 120 \div (r.active + 1)
<1>2. d \in Nat /\ a \in Nat
    BY <1>1, Quotient
<1>3. Scheduler!Score(r) = 18 * r.cpu + 18 * r.memory + d + a
    BY DEF Scheduler!Score
<1> HIDE DEF d, a
<1> QED BY <1>1, <1>2, <1>3

(* If there are runtimes that may take a task, the best of them is one.    *)
LEMMA BestTakes ==
    ASSUME NEW rs \in Seq(Description), NEW j \in Job, Scheduler!Takers(rs, j) # {}
    PROVE  Scheduler!Best(rs, j) \in Scheduler!Takers(rs, j)
<1> DEFINE n == Len(rs)
           ks == Scheduler!Takers(rs, j)
           score == [k \in 1..n |-> Scheduler!Score(rs[k])]
<1>1. n \in Nat /\ DOMAIN rs = 1..n /\ \A k \in 1..n : rs[k] \in Description
    OBVIOUS
<1>2. score \in [1..n -> Nat]
    BY <1>1, ScoreType
<1>3. ks \in SUBSET (1..n)
    BY <1>1 DEF Scheduler!Takers
<1> HIDE DEF n, ks
<1>4. PICK k \in ks : IsForemost(k, ks, score)
  <2> HIDE DEF score
  <2>1. ks # {}
      BY DEF ks
  <2> QED BY <1>1, <1>2, <1>3, <2>1, ForemostExists
<1>5. ASSUME NEW l \in ks
      PROVE  \/ Scheduler!Score(rs[k]) > Scheduler!Score(rs[l])
             \/ Scheduler!Score(rs[k]) = Scheduler!Score(rs[l]) /\ k <= l
  <2>1. /\ score[l] = Scheduler!Score(rs[l]) /\ score[k] = Scheduler!Score(rs[k])
        /\ score[l] \in Nat /\ score[k] \in Nat /\ k \in Nat /\ l \in Nat
      BY <1>1, <1>2, <1>3
  <2>2. score[l] <= score[k] /\ (l < k => score[l] < score[k])
      BY <1>4 DEF IsForemost
  <2> HIDE DEF score
  <2> QED BY <2>1, <2>2
<1> QED BY <1>4, <1>5, Zenon DEF Scheduler!Best, ks

-----------------------------------------------------------------------------
(* The tasks that are placed while the walk is at them.                    *)

(* Who may take a task is the same in both.                                *)
SameTakers(rs, old) == \A j \in Job : Scheduler!Takers(rs, j) = Scheduler!Takers(old, j)

Placing == { s \in [runtimes : Seq(Description), placed : Placement] :
                SameTakers(s.runtimes, runtimes) }

(* Placing one task changes nothing about who may take which task.         *)
LEMMA ScheduledPlaces ==
    ASSUME NEW s \in Placing, NEW j \in Job, Scheduler!Takers(runtimes, j) # {}
    PROVE  /\ Scheduler!Scheduled(s, j) \in Placing
           /\ Scheduler!Scheduled(s, j).placed[j] \in Runtime
           /\ \A i \in Job \ {j} : Scheduler!Scheduled(s, j).placed[i] = s.placed[i]
<1> DEFINE rs == s.runtimes
           k == Scheduler!Best(rs, j)
           rt == [rs[k] EXCEPT !.depth = @ + 1]
           more == [rs EXCEPT ![k] = rt]
           pl == [s.placed EXCEPT ![j] = rs[k].id]
<1>1. /\ s \in [runtimes : Seq(Description), placed : Placement]
      /\ rs \in Seq(Description) /\ s.placed \in Placement /\ SameTakers(rs, runtimes)
    BY DEF Placing
<1>2. k \in Scheduler!Takers(rs, j) /\ k \in DOMAIN rs
  <2>1. Scheduler!Takers(rs, j) # {}
      BY <1>1 DEF SameTakers
  <2> HIDE DEF rs
  <2> QED BY <1>1, <2>1, BestTakes DEF Scheduler!Takers
<1> HIDE DEF k, rs
<1>3. rs[k] \in Description
    BY <1>1, <1>2
<1>4. /\ rt \in Description /\ rt.id = rs[k].id /\ rt.caps = rs[k].caps /\ rt.cpu = rs[k].cpu
      /\ rt.memory = rs[k].memory /\ rt.online = rs[k].online
    BY <1>3 DEF Description
<1> HIDE DEF rt
<1>5. more \in Seq(Description) /\ DOMAIN more = DOMAIN rs /\ more[k] = rt
      /\ \A i \in DOMAIN rs : i # k => more[i] = rs[i]
    BY <1>1, <1>2, <1>4
<1>6. SameTakers(more, runtimes)
  <2> SUFFICES ASSUME NEW i \in Job
               PROVE  Scheduler!Takers(more, i) = Scheduler!Takers(rs, i)
      BY <1>1 DEF SameTakers
  <2>1. \A m \in DOMAIN rs : Scheduler!MayTake(more[m], i) <=> Scheduler!MayTake(rs[m], i)
      BY <1>4, <1>5 DEF Scheduler!MayTake, Scheduler!IsAvailable
  <2> HIDE DEF more
  <2> QED BY <1>5, <2>1 DEF Scheduler!Takers
<1>7. rs[k].id \in Runtime
    BY <1>3 DEF Description
<1>8. pl \in Placement /\ pl[j] \in Runtime /\ \A i \in Job \ {j} : pl[i] = s.placed[i]
    BY <1>1, <1>7 DEF Placement
<1>9. Scheduler!Scheduled(s, j) = [runtimes |-> more, placed |-> pl]
  <2>1. Scheduler!Scheduled(s, j) = [s EXCEPT !.runtimes = more, !.placed = pl]
      BY DEF Scheduler!Scheduled, k, rs, rt
  <2> HIDE DEF more, pl
  <2> QED BY <1>1, <2>1
<1> HIDE DEF more, pl
<1> QED BY <1>5, <1>6, <1>8, <1>9 DEF Placing

(* Every task of a walk over tasks that can be placed is placed.           *)
PlacedAll(s, js, k) == /\ \A i \in 1..k : s.placed[js[i]] \in Runtime
                       /\ \A i \in Job \ Range(js) : s.placed[i] = placed[i]

(* The walk places its tasks, and leaves the others as they are.           *)
LEMMA AllPlaced ==
    ASSUME NEW js \in Seq(Job), Scheduler!State \in Placing,
           \A k \in 1..Len(js) : Scheduler!Takers(runtimes, js[k]) # {}
    PROVE  /\ Scheduler!AllScheduled(js) \in Placing
           /\ PlacedAll(Scheduler!AllScheduled(js), js, Len(js))
<1> DEFINE n == Len(js)
           step == [k \in 1..n |-> [s \in Placing |-> Scheduler!Scheduled(s, js[k])]]
           Walked(h) == h = [k \in 0..n |-> IF k = 0 THEN Scheduler!State
                                            ELSE Scheduler!Scheduled(h[k - 1], js[k])]
           h == CHOOSE f : Walked(f)
<1>1. n \in Nat /\ \A k \in 1..n : js[k] \in Job /\ js[k] \in Range(js)
    BY DEF Range
<1>2. \A s \in Placing, k \in 1..n : Scheduler!Scheduled(s, js[k]) \in Placing
  <2> HIDE DEF n
  <2> TAKE s \in Placing, k \in 1..n
  <2>1. js[k] \in Job /\ Scheduler!Takers(runtimes, js[k]) # {}
      BY <1>1 DEF n
  <2> QED BY <2>1, ScheduledPlaces
<1> HIDE DEF n
<1>3. step \in [1..n -> [Placing -> Placing]]
  <2>1. \A k \in 1..n : [s \in Placing |-> Scheduler!Scheduled(s, js[k])] \in [Placing -> Placing]
      BY <1>2
  <2> QED BY <2>1
<1>4. PICK g \in [0..n -> Placing] : Stepwise(g, n, Scheduler!State, step)
  <2> HIDE DEF step
  <2> QED BY <1>1, <1>3, StepwiseExists
<1>5. \A k \in 0..n : g[k] = IF k = 0 THEN Scheduler!State ELSE Scheduler!Scheduled(g[k - 1], js[k])
  <2> TAKE k \in 0..n
  <2>1. g[k] = IF k = 0 THEN Scheduler!State ELSE step[k][g[k - 1]]
    <3> HIDE DEF step
    <3> QED BY <1>4, Zenon DEF Stepwise
  <2>2. k # 0 => k \in 1..n /\ k - 1 \in 0..n
      BY <1>1
  <2>3. k # 0 => step[k][g[k - 1]] = Scheduler!Scheduled(g[k - 1], js[k])
      BY <1>4, <2>2
  <2> HIDE DEF step
  <2> QED BY <2>1, <2>3
<1>6. Walked(g)
    BY <1>4, <1>5
<1>7. Walked(h)
    BY <1>6, Zenon
<1>8. Scheduler!AllScheduled(js) = h[n]
    BY Zenon DEF Scheduler!AllScheduled, n
<1>9. \A k \in 0..n : h[k] = IF k = 0 THEN Scheduler!State ELSE Scheduler!Scheduled(h[k - 1], js[k])
    BY <1>7, Zenon
<1> HIDE DEF h, step
<1>10. \A k \in 0..n : h[k] = g[k]
  <2> DEFINE P == { k \in 0..n : h[k] = g[k] }
  <2>1. 0 \in P
      BY <1>1, <1>5, <1>9
  <2>2. \A k \in 1..n : k - 1 \in P => k \in P
    <3> TAKE k \in 1..n
    <3>1. k \in 0..n /\ k # 0
        BY <1>1
    <3> QED BY <1>5, <1>9, <3>1
  <2>3. \A k \in 0..n : k \in P
    <3>1. P \in SUBSET (0..n)
        OBVIOUS
    <3> HIDE DEF P
    <3> QED BY <1>1, <2>1, <2>2, <3>1, Upward
  <2> QED BY <2>3
<1>11. \A k \in 0..n : PlacedAll(g[k], js, k)
  <2> DEFINE P == { k \in 0..n : PlacedAll(g[k], js, k) }
  <2>1. 0 \in P
    <3>1. 0 \in 0..n /\ g[0].placed = placed
        BY <1>1, <1>5 DEF Scheduler!State
    <3> QED BY <3>1 DEF PlacedAll
  <2>2. \A k \in 1..n : k - 1 \in P => k \in P
    <3> SUFFICES ASSUME NEW k \in 1..n, k - 1 \in P
                 PROVE  PlacedAll(g[k], js, k)
        BY <1>1
    <3>1. k - 1 \in 0..n /\ k \in 0..n /\ k # 0
        BY <1>1
    <3>2. g[k] = Scheduler!Scheduled(g[k - 1], js[k]) /\ g[k - 1] \in Placing
        BY <1>4, <1>5, <3>1
    <3>3. js[k] \in Job /\ js[k] \in Range(js) /\ Scheduler!Takers(runtimes, js[k]) # {}
        BY <1>1 DEF n
    <3>4. /\ g[k].placed[js[k]] \in Runtime
          /\ \A i \in Job \ {js[k]} : g[k].placed[i] = g[k - 1].placed[i]
        BY <3>2, <3>3, ScheduledPlaces
    <3>5. PlacedAll(g[k - 1], js, k - 1)
        OBVIOUS
    <3>6. ASSUME NEW i \in 1..k
          PROVE  g[k].placed[js[i]] \in Runtime
      <4>1. CASE js[i] = js[k]
          BY <3>4, <4>1
      <4>2. CASE js[i] # js[k]
        <5>1. i \in 1..(k - 1) /\ i \in 1..n
            BY <1>1, <4>2
        <5> QED BY <1>1, <3>4, <3>5, <4>2, <5>1 DEF PlacedAll
      <4> QED BY <4>1, <4>2
    <3>7. \A i \in Job \ Range(js) : g[k].placed[i] = placed[i]
        BY <3>3, <3>4, <3>5 DEF PlacedAll
    <3> QED BY <3>6, <3>7 DEF PlacedAll
  <2>3. \A k \in 0..n : k \in P
    <3>1. P \in SUBSET (0..n)
        OBVIOUS
    <3> HIDE DEF P
    <3> QED BY <1>1, <2>1, <2>2, <3>1, Upward
  <2> QED BY <2>3
<1>12. n \in 0..n
    BY <1>1
<1> QED BY <1>4, <1>8, <1>10, <1>11, <1>12 DEF n

-----------------------------------------------------------------------------
(* What cannot be placed comes round as often as the list has room for.    *)
LEMMA RoundsHold ==
    ASSUME NEW u \in Seq(Job), NEW n \in Nat
    PROVE  /\ Scheduler!Rounds(u, n) \in Seq(Job)
           /\ Len(Scheduler!Rounds(u, n)) <= Len(u) + n
           /\ Range(Scheduler!Rounds(u, n)) = Range(u)
<1> DEFINE m == Len(u)
           r == [k \in 1..(m + n) |-> u[((k - 1) % m) + 1]]
<1>1. m \in Nat /\ DOMAIN u = 1..m /\ \A k \in 1..m : u[k] \in Job
    OBVIOUS
<1>2. CASE u = << >>
  <2>1. Scheduler!Rounds(u, n) = u
      BY <1>2 DEF Scheduler!Rounds
  <2> QED BY <1>1, <2>1
<1>3. CASE u # << >>
  <2>1. m \in Nat \ {0}
      BY <1>3
  <2>2. Scheduler!Rounds(u, n) = r
      BY <1>3 DEF Scheduler!Rounds
  <2>3. \A k \in 1..(m + n) : ((k - 1) % m) + 1 \in 1..m
    <3> TAKE k \in 1..(m + n)
    <3>1. k - 1 \in Nat
        BY <1>1
    <3> DEFINE i == k - 1
    <3> HIDE DEF i, m
    <3>2. i % m \in 0..(m - 1)
        BY <2>1, <3>1 DEF i
    <3> QED BY <2>1, <3>2 DEF i
  <2>4. \A k \in 1..m : k \in 1..(m + n) /\ ((k - 1) % m) + 1 = k
    <3> TAKE k \in 1..m
    <3> DEFINE i == k - 1
    <3>1. i \in 0..(m - 1) /\ i + 1 = k
        BY <2>1
    <3> HIDE DEF i, m
    <3>2. i % m = i
        BY <2>1, <3>1
    <3>3. k \in 1..(m + n)
        BY <2>1
    <3> QED BY <3>1, <3>2, <3>3 DEF i
  <2> HIDE DEF m
  <2>5. \A k \in 1..(m + n) : r[k] = u[((k - 1) % m) + 1] /\ r[k] \in Job
      BY <1>1, <2>3
  <2>6. r \in Seq(Job) /\ Len(r) = m + n /\ DOMAIN r = 1..(m + n)
      BY <2>1, <2>5
  <2>7. \A k \in 1..m : r[k] = u[k]
      BY <2>4
  <2> HIDE DEF r
  <2>8. ASSUME NEW j
        PROVE  j \in Range(r) <=> j \in Range(u)
    <3>1. ASSUME j \in Range(r)
          PROVE  j \in Range(u)
      <4>1. PICK k \in 1..(m + n) : r[k] = j
          BY <2>6, <3>1 DEF Range
      <4> QED BY <1>1, <2>3, <2>5, <4>1 DEF Range
    <3>2. ASSUME j \in Range(u)
          PROVE  j \in Range(r)
      <4>1. PICK k \in 1..m : u[k] = j
          BY <1>1, <3>2 DEF Range
      <4> QED BY <2>4, <2>6, <2>7, <4>1 DEF Range
    <3> QED BY <3>1, <3>2
  <2> QED BY <2>1, <2>2, <2>6, <2>8 DEF m
<1> QED BY <1>2, <1>3

(* The two halves of the queue.                                            *)
LEMMA QueueDivides ==
    ASSUME SchedulerOK
    PROVE  /\ Scheduler!PlaceableOnes(queue) \in Seq(Job)
           /\ Scheduler!Stuck(queue) \in Seq(Job)
           /\ Len(Scheduler!Stuck(queue)) <= Len(queue)
           /\ Range(Scheduler!PlaceableOnes(queue)) =
                 { j \in Range(queue) : Scheduler!Takers(runtimes, j) # {} }
           /\ Range(Scheduler!Stuck(queue)) =
                 { j \in Range(queue) : Scheduler!Takers(runtimes, j) = {} }
<1> DEFINE ps == { k \in DOMAIN queue : Scheduler!Placeable(queue[k]) }
           us == { k \in DOMAIN queue : ~Scheduler!Placeable(queue[k]) }
<1>1. queue \in Seq(Job)
    BY DEF SchedulerOK
<1>2. Scheduler!PlaceableOnes(queue) = Kept(queue, ps)
    BY KeptOfScheduler DEF Scheduler!PlaceableOnes
<1>3. Scheduler!Stuck(queue) = Kept(queue, us)
    BY KeptOfScheduler DEF Scheduler!Stuck
<1>4. { queue[k] : k \in ps } = { j \in Range(queue) : Scheduler!Takers(runtimes, j) # {} }
    BY DEF Range, Scheduler!Placeable
<1>5. { queue[k] : k \in us } = { j \in Range(queue) : Scheduler!Takers(runtimes, j) = {} }
    BY DEF Range, Scheduler!Placeable
<1>6. ps \in SUBSET (DOMAIN queue) /\ us \in SUBSET (DOMAIN queue)
    OBVIOUS
<1> HIDE DEF ps, us
<1>7. Kept(queue, ps) \in Seq(Job) /\ Range(Kept(queue, ps)) = { queue[k] : k \in ps }
    BY <1>1, <1>6, KeptSelects, KeptRange
<1>8. /\ Kept(queue, us) \in Seq(Job) /\ Range(Kept(queue, us)) = { queue[k] : k \in us }
      /\ Len(Kept(queue, us)) <= Len(queue)
    BY <1>1, <1>6, KeptSelects, KeptRange
<1> QED BY <1>2, <1>3, <1>4, <1>5, <1>7, <1>8

(* Rescheduling places what can be placed, and what cannot be stays.       *)
LEMMA RescheduleStep ==
    ASSUME SchedulerOK, Scheduler!ReschedulePending
    PROVE  SchedulerOK'
<1> DEFINE js == Scheduler!PlaceableOnes(queue)
           us == Scheduler!Stuck(queue)
           s == Scheduler!AllScheduled(js)
           q == Scheduler!Rounds(us, MaxQueue - Len(queue))
<1>1. /\ runtimes \in Seq(Description) /\ queue \in Seq(Job) /\ Len(queue) \in Nat
      /\ Len(queue) <= MaxQueue /\ placed \in Placement /\ MaxQueue \in Nat
    BY SchedulerConstants DEF SchedulerOK
<1>2. /\ runtimes' = s.runtimes /\ placed' = s.placed /\ queue' = q /\ turned' = turned
    BY DEF Scheduler!ReschedulePending
<1>3. /\ js \in Seq(Job) /\ us \in Seq(Job) /\ Len(us) \in Nat /\ Len(us) <= Len(queue)
      /\ Range(js) = { j \in Range(queue) : Scheduler!Takers(runtimes, j) # {} }
      /\ Range(us) = { j \in Range(queue) : Scheduler!Takers(runtimes, j) = {} }
    BY QueueDivides
<1> HIDE DEF js, us
<1>4. \A k \in 1..Len(js) : js[k] \in Range(js)
    BY <1>3 DEF Range
<1>5. Scheduler!State \in Placing
    BY <1>1 DEF Scheduler!State, Placing, SameTakers
<1>6. s \in Placing /\ PlacedAll(s, js, Len(js))
  <2>1. \A k \in 1..Len(js) : Scheduler!Takers(runtimes, js[k]) # {}
      BY <1>3, <1>4
  <2> QED BY <1>3, <1>5, <2>1, AllPlaced
<1> HIDE DEF s
<1>7. \A j \in Range(js) : s.placed[j] \in Runtime
  <2> TAKE j \in Range(js)
  <2>1. PICK k \in 1..Len(js) : js[k] = j
      BY <1>3 DEF Range
  <2> QED BY <1>6, <2>1 DEF PlacedAll
<1>8. \A j \in Job \ Range(js) : s.placed[j] = placed[j]
    BY <1>6 DEF PlacedAll
<1>9. s.runtimes \in Seq(Description) /\ s.placed \in Placement
    BY <1>6 DEF Placing
<1>10. q \in Seq(Job) /\ Len(q) <= MaxQueue /\ Range(q) = Range(us)
  <2> DEFINE n == MaxQueue - Len(queue)
  <2>1. n \in Nat /\ Len(us) + n <= MaxQueue
      BY <1>1, <1>3
  <2>2. /\ Scheduler!Rounds(us, n) \in Seq(Job)
        /\ Len(Scheduler!Rounds(us, n)) <= Len(us) + n
        /\ Range(Scheduler!Rounds(us, n)) = Range(us)
    <3> HIDE DEF n
    <3> QED BY <1>3, <2>1, RoundsHold
  <2>3. Len(Scheduler!Rounds(us, n)) \in Nat
      BY <2>2
  <2> HIDE DEF n
  <2>4. Len(Scheduler!Rounds(us, n)) <= MaxQueue
      BY <1>1, <1>3, <2>1, <2>2, <2>3
  <2> QED BY <2>2, <2>4 DEF n
<1> HIDE DEF q
<1>11. ASSUME NEW j \in Job, Unplaced(placed, j)', j \notin turned'
       PROVE  Waits(queue, j)'
  <2>1. s.placed[j] = Scheduler!Nowhere
      BY <1>2, <1>11 DEF Unplaced
  <2>2. j \notin Range(js)
      BY <1>7, <2>1, SchedulerConstants
  <2>3. Unplaced(placed, j) /\ j \notin turned
      BY <1>2, <1>8, <1>11, <2>1, <2>2 DEF Unplaced
  <2>4. j \in Range(queue)
      BY <2>3 DEF SchedulerOK, Waits
  <2> QED BY <1>2, <1>3, <1>10, <2>2, <2>4 DEF Waits
<1>12. ASSUME NEW j \in Job, Waits(queue, j)'
       PROVE  Unplaced(placed, j)'
  <2>1. j \in Range(us)
      BY <1>2, <1>10, <1>12 DEF Waits
  <2>2. j \in Range(queue) /\ j \notin Range(js)
      BY <1>3, <2>1
  <2>3. Unplaced(placed, j)
      BY <2>2 DEF SchedulerOK, Waits
  <2> QED BY <1>2, <1>8, <2>2, <2>3 DEF Unplaced
<1> QED BY <1>2, <1>9, <1>10, <1>11, <1>12 DEF SchedulerOK

(* A task that is submitted is placed, queued, or noted as turned away.    *)
LEMMA ScheduleStep ==
    ASSUME SchedulerOK, NEW j \in Job, Scheduler!Schedule(j)
    PROVE  SchedulerOK'
<1>1. /\ runtimes \in Seq(Description) /\ queue \in Seq(Job) /\ Len(queue) \in Nat
      /\ Len(queue) <= MaxQueue /\ placed \in Placement /\ MaxQueue \in Nat
    BY SchedulerConstants DEF SchedulerOK
<1>2. placed[j] = Scheduler!Unasked /\ j \notin Range(queue)
    BY SchedulerConstants DEF Scheduler!Schedule, SchedulerOK, Unplaced, Waits
<1>3. CASE Scheduler!Takers(runtimes, j) # {}
  <2> DEFINE s == Scheduler!Scheduled(Scheduler!State, j)
  <2>1. runtimes' = s.runtimes /\ placed' = s.placed /\ queue' = queue /\ turned' = turned
      BY <1>3 DEF Scheduler!Schedule
  <2>2. Scheduler!State \in Placing /\ Scheduler!State.placed = placed
      BY <1>1 DEF Scheduler!State, Placing, SameTakers
  <2>3. /\ s \in Placing /\ s.placed[j] \in Runtime
        /\ \A i \in Job \ {j} : s.placed[i] = placed[i]
      BY <1>3, <2>2, ScheduledPlaces
  <2> HIDE DEF s
  <2>4. s.runtimes \in Seq(Description) /\ s.placed \in Placement
      BY <2>3 DEF Placing
  <2>5. ~ Unplaced(placed, j)'
      BY <2>1, <2>3, SchedulerConstants DEF Unplaced
  <2>6. \A i \in Job : i # j => (Unplaced(placed, i)' <=> Unplaced(placed, i))
      BY <2>1, <2>3 DEF Unplaced
  <2> QED BY <1>1, <1>2, <2>1, <2>4, <2>5, <2>6 DEF SchedulerOK, Waits
<1>4. CASE Scheduler!Takers(runtimes, j) = {}
  <2>1. runtimes' = runtimes /\ placed' = [placed EXCEPT ![j] = Scheduler!Nowhere]
      BY <1>4 DEF Scheduler!Schedule
  <2>2. placed' \in Placement /\ Unplaced(placed, j)'
      BY <1>1, <2>1 DEF Placement, Unplaced
  <2>3. \A i \in Job : i # j => (Unplaced(placed, i)' <=> Unplaced(placed, i))
      BY <1>1, <2>1 DEF Placement, Unplaced
  <2>4. CASE Len(queue) < MaxQueue
    <3>1. queue' = Append(queue, j) /\ turned' = turned
        BY <1>4, <2>4 DEF Scheduler!Schedule
    <3>2. /\ Append(queue, j) \in Seq(Job) /\ Len(Append(queue, j)) = Len(queue) + 1
          /\ Range(Append(queue, j)) = Range(queue) \cup {j}
        BY <1>1, Appended
    <3>3. queue' \in Seq(Job) /\ Len(queue)' <= MaxQueue
        BY <1>1, <2>4, <3>1, <3>2
    <3>4. \A i \in Job : Waits(queue, i)' <=> Waits(queue, i) \/ i = j
        BY <3>1, <3>2 DEF Waits
    <3> QED BY <1>1, <2>1, <2>2, <2>3, <3>1, <3>3, <3>4 DEF SchedulerOK
  <2>5. CASE ~ (Len(queue) < MaxQueue)
    <3>1. queue' = queue /\ turned' = turned \cup {j}
        BY <1>4, <2>5 DEF Scheduler!Schedule
    <3>2. \A i \in Job : Waits(queue, i)' <=> Waits(queue, i)
        BY <3>1 DEF Waits
    <3>3. ~ Waits(queue, j)
        BY <1>2 DEF Waits
    <3> QED BY <1>1, <2>1, <2>2, <2>3, <3>1, <3>2, <3>3 DEF SchedulerOK
  <2> QED BY <2>4, <2>5
<1> QED BY <1>3, <1>4

(* The operations on runtimes say nothing about tasks.                     *)
LEMMA RuntimeStep ==
    ASSUME SchedulerOK, runtimes' \in Seq(Description), UNCHANGED << queue, placed, turned >>
    PROVE  SchedulerOK'
BY DEF SchedulerOK, Unplaced, Waits

(* A registered runtime is at its place.                                   *)
LEMMA RuntimePlace ==
    ASSUME NEW i, Scheduler!Here(runtimes, i), runtimes \in Seq(Description)
    PROVE  /\ Scheduler!Place(runtimes, i) \in DOMAIN runtimes
           /\ runtimes[Scheduler!Place(runtimes, i)] \in Description
<1>1. Scheduler!Place(runtimes, i) \in DOMAIN runtimes
    BY DEF Scheduler!Here, Scheduler!Place
<1> QED BY <1>1

(* Counting down stops at zero.                                            *)
LEMMA OneLess ==
    ASSUME NEW n \in Nat
    PROVE  Scheduler!LessOne(n) \in Nat
BY DEF Scheduler!LessOne

(* Every step of the scheduler.                                            *)
LEMMA SchedulerStep ==
    ASSUME SchedulerOK, Scheduler!Next
    PROVE  SchedulerOK'
<1>1. runtimes \in Seq(Description)
    BY DEF SchedulerOK
<1>2. ASSUME NEW d \in Descriptors, Scheduler!RegisterRuntime(d)
      PROVE  SchedulerOK'
  <2>1. d \in Description
      BY SchedulerConstants
  <2>2. runtimes' \in Seq(Description) /\ UNCHANGED << queue, placed, turned >>
    <3>1. CASE Scheduler!Here(runtimes, d.id)
      <4> DEFINE k == Scheduler!Place(runtimes, d.id)
      <4>1. k \in DOMAIN runtimes
          BY <1>1, <3>1, RuntimePlace
      <4>2. runtimes' = [runtimes EXCEPT ![k] = d] /\ UNCHANGED << queue, placed, turned >>
          BY <1>2, <3>1 DEF Scheduler!RegisterRuntime
      <4> HIDE DEF k
      <4> QED BY <1>1, <2>1, <4>1, <4>2
    <3>2. CASE ~ Scheduler!Here(runtimes, d.id)
        BY <1>1, <1>2, <2>1, <3>2 DEF Scheduler!RegisterRuntime
    <3> QED BY <3>1, <3>2
  <2> QED BY <2>2, RuntimeStep
<1>3. ASSUME NEW i \in Runtime, Scheduler!UnregisterRuntime(i)
      PROVE  SchedulerOK'
  <2> DEFINE ks == { k \in DOMAIN runtimes : runtimes[k].id # i }
  <2>1. runtimes' = Kept(runtimes, ks) /\ UNCHANGED << queue, placed, turned >>
      BY <1>3, KeptOfScheduler DEF Scheduler!UnregisterRuntime
  <2>2. Kept(runtimes, ks) \in Seq(Description)
    <3>1. ks \in SUBSET (DOMAIN runtimes)
        OBVIOUS
    <3> HIDE DEF ks
    <3> QED BY <1>1, <3>1, KeptSelects
  <2> QED BY <2>1, <2>2, RuntimeStep
<1>4. ASSUME NEW i \in Runtime, NEW b \in Beats, Scheduler!Heartbeat(i, b)
      PROVE  SchedulerOK'
  <2> DEFINE k == Scheduler!Place(runtimes, i)
             rt == [runtimes[k] EXCEPT !.cpu = b.cpu, !.memory = b.memory,
                                       !.depth = b.depth, !.online = TRUE]
  <2>1. k \in DOMAIN runtimes /\ runtimes[k] \in Description
      BY <1>1, <1>4, RuntimePlace DEF Scheduler!Heartbeat
  <2>2. /\ runtimes' = [runtimes EXCEPT ![k] = rt]
        /\ UNCHANGED << queue, placed, turned >>
      BY <1>4 DEF Scheduler!Heartbeat
  <2>3. b.cpu \in 0..10 /\ b.memory \in 0..10 /\ b.depth \in Nat
      BY SchedulerConstants
  <2> HIDE DEF k
  <2>4. rt \in Description
      BY <2>1, <2>3 DEF Description
  <2> HIDE DEF rt
  <2>5. runtimes' \in Seq(Description)
      BY <1>1, <2>1, <2>2, <2>4
  <2> QED BY <2>2, <2>5, RuntimeStep
<1>5. ASSUME NEW i \in Runtime, Scheduler!CompleteTask(i)
      PROVE  SchedulerOK'
  <2> DEFINE k == Scheduler!Place(runtimes, i)
             r == runtimes[k]
             depth == Scheduler!LessOne(r.depth)
             active == Scheduler!LessOne(r.active)
             rt == [r EXCEPT !.depth = depth, !.active = active]
  <2>1. k \in DOMAIN runtimes /\ r \in Description
      BY <1>1, <1>5, RuntimePlace DEF Scheduler!CompleteTask
  <2>2. /\ runtimes' = [runtimes EXCEPT ![k] = rt]
        /\ UNCHANGED << queue, placed, turned >>
    <3>1. runtimes' = [runtimes EXCEPT ![k].depth = Scheduler!LessOne(@),
                                       ![k].active = Scheduler!LessOne(@)]
          /\ UNCHANGED << queue, placed, turned >>
        BY <1>5 DEF Scheduler!CompleteTask
    <3> HIDE DEF k
    <3> QED BY <1>1, <2>1, <3>1
  <2> HIDE DEF r
  <2>3. depth \in Nat /\ active \in Nat
    <3>1. r.depth \in Nat /\ r.active \in Nat
        BY <2>1 DEF Description
    <3> QED BY <3>1, OneLess
  <2> HIDE DEF k, depth, active
  <2>5. rt \in Description
      BY <2>1, <2>3 DEF Description
  <2> HIDE DEF rt
  <2>6. runtimes' \in Seq(Description)
      BY <1>1, <2>1, <2>2, <2>5
  <2> QED BY <2>2, <2>6, RuntimeStep
<1>6. ASSUME NEW j \in Job, Scheduler!Schedule(j)
      PROVE  SchedulerOK'
    BY <1>6, ScheduleStep
<1>7. ASSUME Scheduler!ReschedulePending
      PROVE  SchedulerOK'
    BY <1>7, RescheduleStep
<1> QED BY <1>2, <1>3, <1>4, <1>5, <1>6, <1>7 DEF Scheduler!Next

(* Of the scheduler: the queue is within its bound, what waits in it has   *)
(* no runtime, and what has none waits in it or was turned away.           *)
THEOREM SchedulerInvariant == PartsSpec => []SchedulerOK
<1>1. PartsInit => SchedulerOK
  <2> SUFFICES ASSUME PartsInit
               PROVE  SchedulerOK
      OBVIOUS
  <2>1. /\ runtimes = << >> /\ queue = << >> /\ turned = {}
        /\ placed = [j \in Job |-> Scheduler!Unasked]
      BY DEF PartsInit, Scheduler!Init
  <2>2. placed \in Placement /\ \A j \in Job : ~ Unplaced(placed, j) /\ ~ Waits(queue, j)
      BY <2>1, SchedulerConstants DEF Placement, Unplaced, Waits, Range
  <2> QED BY <2>1, <2>2, SchedulerConstants DEF SchedulerOK
<1>2. SchedulerOK /\ [PartsNext]_partsVars => SchedulerOK'
  <2> SUFFICES ASSUME SchedulerOK, [PartsNext]_partsVars
               PROVE  SchedulerOK'
      OBVIOUS
  <2>1. CASE Scheduler!Next
      BY <2>1, SchedulerStep
  <2>2. CASE UNCHANGED ofScheduler
    <3>1. UNCHANGED << runtimes, queue, placed, turned >>
        BY <2>2 DEF ofScheduler
    <3> QED BY <3>1 DEF SchedulerOK, Unplaced, Waits
  <2> QED BY <2>1, <2>2, PartSteps
<1> QED BY <1>1, <1>2, PTL DEF PartsSpec

(* A task that was submitted has a runtime or waits in the queue, unless   *)
(* it found the queue full (schedule, reschedule_pending).                 *)
THEOREM SubmittedTasksKept == PartsSpec => []NothingLost
<1>1. SchedulerOK => NothingLost
  <2> SUFFICES ASSUME SchedulerOK, NEW j \in Job,
                      placed[j] = Scheduler!Nowhere, j \notin turned
               PROVE  Scheduler!Contains(queue, j)
      BY DEF NothingLost, Scheduler!NothingLost
  <2>1. queue \in Seq(Job) /\ j \in Range(queue)
      BY DEF SchedulerOK, Unplaced, Waits
  <2> QED BY <2>1 DEF Range, Scheduler!Contains
<1> QED BY <1>1, SchedulerInvariant, PTL

-----------------------------------------------------------------------------
(* From goals and capabilities to a decision.                              *)

Aim     == Reasoning!Goal
Tracked == [type : Aim, priority : Nat, label : Seq(Reasoning!Word)]
Match   == [capability : Reasoning!Ability, goal : Aim, available : BOOLEAN, proficiency : 0..100]
Verdict == [goal : Aim, achievable : BOOLEAN, confidence : 0..100]

ReasoningOK == goals \in Seq(Tracked) /\ skills \in Seq(Skills)

(* What the constants of the queries are.                                  *)
LEMMA ReasoningConstants ==
    /\ NoWord \notin Aim /\ Aim = DOMAIN Required /\ Otherwise \in Aim
    /\ \A w \in DOMAIN VerbGoal : VerbGoal[w] \in Aim
    /\ \A w \in DOMAIN NounGoal : NounGoal[w] \in Aim
    /\ \A g \in Aim : Required[g] \in Seq(Reasoning!Ability)
    /\ \A c \in Commands : c \in Seq(Reasoning!Word)
    /\ \A s \in Skills : s.proficiency \in 0..100 /\ s.available \in BOOLEAN
BY ReasoningAssumption DEF Reasoning!Assumptions, Aim, Reasoning!Goal

(* The copies of what the queries use.                                     *)
LEMMA KeptOfReasoning ==
    ASSUME NEW s, NEW P
    PROVE  Reasoning!Kept(s, P) = Kept(s, P)
BY DEF Reasoning!Kept, Reasoning!Nth, Reasoning!Cardinality, Kept, Nth, Cardinality

(* The copy of FlattenSeq.                                                 *)
LEMMA FlattenOfReasoning ==
    ASSUME NEW s
    PROVE  Reasoning!FlattenSeq(s) = FlattenSeq(s)
BY DEF Reasoning!FlattenSeq, FlattenSeq

(* The copy of Max.                                                        *)
LEMMA MaxOfReasoning ==
    ASSUME NEW T
    PROVE  Reasoning!Max(T) = Max(T)
BY DEF Reasoning!Max, Max

(* Whatever is told, the goal is one that is known.                        *)
LEMMA WantedType ==
    ASSUME NEW c \in Commands
    PROVE  Reasoning!Wanted(c) \in Tracked
<1>1. Reasoning!ParseIntent(c) \in Aim
  <2> DEFINE p == Reasoning!Reading(c)
  <2>1. \A w : /\ Reasoning!GoalOf(VerbGoal, w) \in Aim
               /\ Reasoning!GoalOf(NounGoal, w) \in Aim
      BY ReasoningConstants DEF Reasoning!GoalOf
  <2>2. \/ Reasoning!ParseIntent(c) = Otherwise
        \/ Reasoning!ParseIntent(c) = Reasoning!GoalOf(VerbGoal, p.action)
        \/ Reasoning!ParseIntent(c) = Reasoning!GoalOf(NounGoal, p.subject)
      BY DEF Reasoning!ParseIntent
  <2> HIDE DEF p
  <2> QED BY <2>1, <2>2, ReasoningConstants
<1>2. Reasoning!InferPriority(c) \in Nat
    BY DEF Reasoning!InferPriority
<1>3. c \in Seq(Reasoning!Word)
    BY ReasoningConstants
<1> QED BY <1>1, <1>2, <1>3 DEF Reasoning!Wanted, Tracked

(* Of the actor: what it wants is known, and so is what it can do.         *)
LEMMA ReasoningStep ==
    ASSUME ReasoningOK, Reasoning!Next
    PROVE  ReasoningOK'
<1>1. goals \in Seq(Tracked) /\ skills \in Seq(Skills)
    BY DEF ReasoningOK
<1>2. ASSUME NEW c \in Commands, Reasoning!Tell(c)
      PROVE  ReasoningOK'
  <2>1. (goals' = goals \/ goals' = Append(goals, Reasoning!Wanted(c))) /\ skills' = skills
      BY <1>2 DEF Reasoning!Tell
  <2> QED BY <1>1, <2>1, WantedType DEF ReasoningOK
<1>3. ASSUME NEW g \in Reasoning!Goal, Reasoning!AddGoal(g)
      PROVE  ReasoningOK'
  <2> DEFINE t == [type |-> g, priority |-> 50, label |-> << >>]
  <2>1. goals' = Append(goals, t) /\ skills' = skills
      BY <1>3 DEF Reasoning!AddGoal
  <2>2. t \in Tracked
      BY DEF Tracked, Aim
  <2> HIDE DEF t
  <2> QED BY <1>1, <2>1, <2>2 DEF ReasoningOK
<1>4. ASSUME NEW s \in Skills, Reasoning!AddCapability(s)
      PROVE  ReasoningOK'
    BY <1>1, <1>4 DEF Reasoning!AddCapability, ReasoningOK
<1>5. ASSUME NEW s \in Sentences, Reasoning!Observe(s)
      PROVE  ReasoningOK'
    BY <1>1, <1>5 DEF Reasoning!Observe, ReasoningOK
<1>6. ASSUME NEW p \in Person, NEW l \in Levels, Reasoning!Affiliate(p, l)
      PROVE  ReasoningOK'
    BY <1>1, <1>6 DEF Reasoning!Affiliate, ReasoningOK
<1> QED BY <1>2, <1>3, <1>4, <1>5, <1>6 DEF Reasoning!Next

(* Of the actor (os.py): its goals are of known types.                     *)
THEOREM ReasoningInvariant == PartsSpec => []ReasoningOK
<1>1. PartsInit => ReasoningOK
    BY DEF PartsInit, Reasoning!Init, ReasoningOK
<1>2. ReasoningOK /\ [PartsNext]_partsVars => ReasoningOK'
  <2> SUFFICES ASSUME ReasoningOK, [PartsNext]_partsVars
               PROVE  ReasoningOK'
      OBVIOUS
  <2>1. CASE Reasoning!Next
      BY <2>1, ReasoningStep
  <2>2. CASE UNCHANGED ofReasoning
      BY <2>2 DEF ofReasoning, ReasoningOK
  <2> QED BY <2>1, <2>2, PartSteps
<1> QED BY <1>1, <1>2, PTL DEF PartsSpec

-----------------------------------------------------------------------------
(* What a query finds.                                                     *)

(* The index over the capabilities asks what the property asks.            *)
LEMMA UsableIs ==
    ASSUME NEW c
    PROVE  Reasoning!HasCapability(c) <=> Reasoning!Usable(c)
BY DEF Reasoning!HasCapability, Reasoning!Usable, Reasoning!Of

(* A proficiency is a number of hundredths.                                *)
LEMMA ProficiencyType ==
    ASSUME ReasoningOK, NEW c
    PROVE  Reasoning!Proficiency(c) \in 0..100
<1> DEFINE T == {0} \cup { skills[k].proficiency : k \in Reasoning!Of(c) }
<1>1. \A k \in Reasoning!Of(c) : skills[k].proficiency \in 0..100
  <2> TAKE k \in Reasoning!Of(c)
  <2>1. skills[k] \in Skills
      BY DEF Reasoning!Of, ReasoningOK
  <2> QED BY <2>1, ReasoningConstants
<1>2. T \in SUBSET (0..100) /\ T # {}
    BY <1>1
<1>3. Reasoning!Proficiency(c) = Max(T)
    BY MaxOfReasoning DEF Reasoning!Proficiency
<1> HIDE DEF T
<1> QED BY <1>2, <1>3, LargestOf

(* One match for every capability that a goal requires.                    *)
MatchesGoal(ms, g) ==
    /\ ms \in Seq(Match) /\ DOMAIN ms = DOMAIN Required[g]
    /\ \A k \in DOMAIN ms : /\ ms[k].capability = Required[g][k] /\ ms[k].goal = g
                            /\ (ms[k].available = TRUE) <=> Reasoning!Usable(Required[g][k])

(* One match for each, available exactly if usable.                        *)
LEMMA MatchesAre ==
    ASSUME ReasoningOK, NEW g \in Aim
    PROVE  MatchesGoal(Reasoning!MatchForGoal(g), g)
<1> DEFINE ms == Reasoning!MatchForGoal(g)
           r == Required[g]
           row(c) == [capability |-> c, goal |-> g, available |-> Reasoning!HasCapability(c),
                      proficiency |-> Reasoning!Proficiency(c)]
<1>1. r \in Seq(Reasoning!Ability)
    BY ReasoningConstants
<1>2. ms = [k \in DOMAIN r |-> row(r[k])]
    BY DEF Reasoning!MatchForGoal
<1> HIDE DEF r, ms
<1>3. ASSUME NEW c \in Reasoning!Ability
      PROVE  /\ row(c) \in Match /\ row(c).capability = c /\ row(c).goal = g
             /\ (row(c).available = TRUE) <=> Reasoning!Usable(c)
  <2> DEFINE has == Reasoning!HasCapability(c)
             n == Reasoning!Proficiency(c)
  <2>1. n \in 0..100 /\ (has <=> Reasoning!Usable(c))
      BY ProficiencyType, UsableIs
  <2>2. has \in BOOLEAN
      BY DEF Reasoning!HasCapability
  <2> HIDE DEF has, n
  <2>3. row(c) = [capability |-> c, goal |-> g, available |-> has, proficiency |-> n]
      BY DEF has, n
  <2>4. row(c).available = has
      BY <2>3
  <2>5. row(c) \in Match
      BY <2>1, <2>2, <2>3 DEF Match
  <2>6. (row(c).available = TRUE) <=> Reasoning!Usable(c)
      BY <2>1, <2>2, <2>4
  <2> QED BY <2>3, <2>5, <2>6
<1> HIDE DEF row
<1>4. \A k \in DOMAIN r : r[k] \in Reasoning!Ability /\ ms[k] = row(r[k])
    BY <1>1, <1>2
<1>5. ms \in Seq(Match) /\ DOMAIN ms = DOMAIN r
  <2>1. DOMAIN r = 1..Len(r) /\ Len(r) \in Nat
      BY <1>1
  <2>2. \A k \in DOMAIN r : row(r[k]) \in Match
      BY <1>3, <1>4
  <2> QED BY <1>2, <2>1, <2>2
<1>6. \A k \in DOMAIN r : /\ ms[k].capability = r[k] /\ ms[k].goal = g
                          /\ (ms[k].available = TRUE) <=> Reasoning!Usable(r[k])
  <2> TAKE k \in DOMAIN r
  <2>1. r[k] \in Reasoning!Ability /\ ms[k] = row(r[k])
      BY <1>4
  <2>2. /\ row(r[k]).capability = r[k] /\ row(r[k]).goal = g
        /\ (row(r[k]).available = TRUE) <=> Reasoning!Usable(r[k])
      BY <1>3, <2>1
  <2> QED BY <2>1, <2>2
<1> QED BY <1>5, <1>6 DEF MatchesGoal, ms, r

(* A goal can be achieved by whoever believes anything and can use all     *)
(* that it requires.                                                       *)
Possible(g) == beliefs # << >> /\ Reasoning!CanBeDone(g)

Judges(e, g) == e \in Verdict /\ e.goal = g /\ (e.achievable = TRUE <=> Possible(g))

(* The verdict on a goal says whether it is possible.                      *)
LEMMA EvaluationIs ==
    ASSUME ReasoningOK, NEW g \in Aim
    PROVE  Judges(Reasoning!EvaluateGoal(g), g)
<1> DEFINE ms == Reasoning!MatchForGoal(g)
           can == beliefs # << >> /\ \A k \in DOMAIN ms : ms[k].available
           T == {50} \cup { ms[k].proficiency : k \in { n \in DOMAIN ms : ms[n].available } }
           most == Reasoning!Max(T)
           e == [goal |-> g, achievable |-> can, confidence |-> most]
<1>1. MatchesGoal(ms, g)
    BY MatchesAre
<1>2. Reasoning!EvaluateGoal(g) = e
    BY DEF Reasoning!EvaluateGoal
<1> HIDE DEF ms
<1>3. \A k \in DOMAIN ms : /\ ms[k].proficiency \in 0..100 /\ ms[k].available \in BOOLEAN
                           /\ ms[k].available = TRUE <=> Reasoning!Usable(Required[g][k])
  <2> TAKE k \in DOMAIN ms
  <2>1. ms[k] \in Match
      BY <1>1 DEF MatchesGoal
  <2> QED BY <1>1, <2>1 DEF MatchesGoal, Match
<1>4. most \in 0..100
  <2>1. T \in SUBSET (0..100) /\ T # {}
      BY <1>3
  <2>2. most = Max(T)
      BY MaxOfReasoning
  <2> HIDE DEF T, most
  <2> QED BY <2>1, <2>2, LargestOf
<1>5. can <=> Possible(g)
  <2>1. DOMAIN ms = DOMAIN Required[g]
      BY <1>1 DEF MatchesGoal
  <2> QED BY <1>3, <2>1 DEF Possible, Reasoning!CanBeDone
<1>6. can \in BOOLEAN
    OBVIOUS
<1> HIDE DEF can, most
<1>7. e \in Verdict /\ e.goal = g /\ e.achievable = can
    BY <1>4, <1>6 DEF Verdict
<1> HIDE DEF e
<1> QED BY <1>2, <1>5, <1>6, <1>7 DEF Judges

(* The achievable ones of the goals.                                       *)
LEMMA AchievableAre ==
    ASSUME ReasoningOK
    PROVE  /\ Reasoning!Achievable \in Seq(Verdict)
           /\ \A e \in Range(Reasoning!Achievable) :
                 \E k \in DOMAIN goals : e.goal = goals[k].type /\ Possible(goals[k].type)
           /\ (\E k \in DOMAIN goals : Possible(goals[k].type)) => Reasoning!Achievable # << >>
<1> DEFINE es == Reasoning!EvaluateGoals
           ks == { k \in DOMAIN es : es[k].achievable }
           as1 == Reasoning!Achievable
<1>1. DOMAIN es = DOMAIN goals /\ \A k \in DOMAIN goals : es[k] = Reasoning!EvaluateGoal(goals[k].type)
    BY DEF Reasoning!EvaluateGoals
<1>2. \A k \in DOMAIN goals : Judges(es[k], goals[k].type)
  <2> TAKE k \in DOMAIN goals
  <2>1. goals[k] \in Tracked
      BY DEF ReasoningOK
  <2>2. goals[k].type \in Aim
      BY <2>1 DEF Tracked
  <2> QED BY <1>1, <2>2, EvaluationIs
<1>3. es \in Seq(Verdict)
  <2>1. DOMAIN goals = 1..Len(goals) /\ Len(goals) \in Nat
      BY DEF ReasoningOK
  <2>2. es = [k \in 1..Len(goals) |-> Reasoning!EvaluateGoal(goals[k].type)]
      BY <2>1 DEF Reasoning!EvaluateGoals
  <2> HIDE DEF es
  <2>3. \A k \in 1..Len(goals) : Reasoning!EvaluateGoal(goals[k].type) \in Verdict
      BY <1>1, <1>2, <2>1 DEF Judges
  <2> QED BY <2>1, <2>2, <2>3
<1>4. as1 = Kept(es, ks)
    BY KeptOfReasoning DEF Reasoning!Achievable
<1>5. \A k \in DOMAIN goals : k \in ks <=> Possible(goals[k].type)
  <2> TAKE k \in DOMAIN goals
  <2>1. es[k] \in Verdict /\ (es[k].achievable = TRUE <=> Possible(goals[k].type))
      BY <1>2 DEF Judges
  <2>2. es[k].achievable \in BOOLEAN
      BY <2>1 DEF Verdict
  <2> HIDE DEF es
  <2> QED BY <1>1, <2>1, <2>2
<1>6. ks \in SUBSET (DOMAIN es)
    OBVIOUS
<1> HIDE DEF es, ks, as1
<1>7. as1 \in Seq(Verdict) /\ Range(as1) = { es[k] : k \in ks }
    BY <1>3, <1>4, <1>6, KeptSelects, KeptRange
<1>8. ASSUME NEW e \in Range(as1)
      PROVE  \E k \in DOMAIN goals : e.goal = goals[k].type /\ Possible(goals[k].type)
  <2>1. PICK k \in ks : e = es[k]
      BY <1>7
  <2>2. k \in DOMAIN goals /\ e.goal = goals[k].type
      BY <1>1, <1>2, <1>6, <2>1 DEF Judges
  <2> QED BY <1>5, <2>2
<1>9. ASSUME NEW k \in DOMAIN goals, Possible(goals[k].type)
      PROVE  as1 # << >>
  <2>1. es[k] \in Range(as1)
      BY <1>5, <1>7, <1>9
  <2> QED BY <2>1 DEF Range
<1> QED BY <1>7, <1>8, <1>9 DEF as1

(* A verdict's confidence can be compared.                                 *)
LEMMA VerdictType ==
    ASSUME NEW e \in Verdict
    PROVE  e.confidence \in Nat
<1>1. e.confidence \in 0..100
    BY DEF Verdict
<1> QED BY <1>1

(* Of some verdicts the best is one.                                       *)
LEMMA BestVerdict ==
    ASSUME NEW es \in Seq(Verdict), es # << >>
    PROVE  Reasoning!BestOf(es) \in Range(es)
<1> DEFINE n == Len(es)
           score == [k \in 1..n |-> es[k].confidence]
           ks == 1..n
<1>1. n \in Nat /\ DOMAIN es = 1..n /\ ks # {}
    OBVIOUS
<1>2. score \in [1..n -> Nat]
  <2>1. \A k \in 1..n : es[k].confidence \in Nat
    <3> TAKE k \in 1..n
    <3>1. es[k] \in Verdict
        OBVIOUS
    <3> HIDE DEF score, ks
    <3> QED BY <3>1, VerdictType
  <2> QED BY <2>1
<1>3. ks \in SUBSET (1..n)
    OBVIOUS
<1> HIDE DEF n
<1>4. PICK k \in ks : IsForemost(k, ks, score)
  <2> HIDE DEF ks, score
  <2> QED BY <1>1, <1>2, <1>3, ForemostExists
<1>5. ASSUME NEW m \in DOMAIN es
      PROVE  \/ es[k].confidence > es[m].confidence
             \/ es[k].confidence = es[m].confidence /\ k <= m
  <2>1. /\ score[m] = es[m].confidence /\ score[k] = es[k].confidence
        /\ score[m] \in Nat /\ score[k] \in Nat /\ k \in Nat /\ m \in Nat
      BY <1>1, <1>2
  <2>2. score[m] <= score[k] /\ (m < k => score[m] < score[k])
      BY <1>1, <1>4 DEF IsForemost
  <2> HIDE DEF score
  <2> QED BY <2>1, <2>2
<1> DEFINE c == CHOOSE i \in DOMAIN es : \A m \in DOMAIN es :
                   \/ es[i].confidence > es[m].confidence
                   \/ es[i].confidence = es[m].confidence /\ i <= m
<1>6. k \in DOMAIN es
    BY <1>1, <1>4
<1>7. c \in DOMAIN es
    BY <1>5, <1>6, Zenon
<1>8. Reasoning!BestOf(es) = es[c]
    BY DEF Reasoning!BestOf
<1> HIDE DEF c
<1> QED BY <1>7, <1>8 DEF Range

(* All matches of all goals are those of each.                             *)
LEMMA AllMatches ==
    ASSUME ReasoningOK
    PROVE  /\ Reasoning!MatchCapabilities \in Seq(Match)
           /\ \A x : x \in Range(Reasoning!MatchCapabilities) <=>
                 \E k \in DOMAIN goals : x \in Range(Reasoning!MatchForGoal(goals[k].type))
<1> DEFINE s == [k \in DOMAIN goals |-> Reasoning!MatchForGoal(goals[k].type)]
<1>1. s \in Seq(Seq(Match)) /\ DOMAIN s = DOMAIN goals
  <2>1. DOMAIN goals = 1..Len(goals) /\ Len(goals) \in Nat
      BY DEF ReasoningOK
  <2>2. \A k \in DOMAIN goals : Reasoning!MatchForGoal(goals[k].type) \in Seq(Match)
    <3> TAKE k \in DOMAIN goals
    <3>1. goals[k] \in Tracked
        BY DEF ReasoningOK
    <3>2. goals[k].type \in Aim
        BY <3>1 DEF Tracked
    <3> QED BY <3>2, MatchesAre DEF MatchesGoal
  <2> QED BY <2>1, <2>2
<1>2. Reasoning!MatchCapabilities = FlattenSeq(s)
    BY FlattenOfReasoning DEF Reasoning!MatchCapabilities
<1>3. \A k \in DOMAIN goals : s[k] = Reasoning!MatchForGoal(goals[k].type)
    OBVIOUS
<1> HIDE DEF s
<1>4. /\ FlattenSeq(s) \in Seq(Match)
      /\ \A x : x \in Range(FlattenSeq(s)) <=> \E k \in DOMAIN s : x \in Range(s[k])
    BY <1>1, FlattenRange
<1> QED BY <1>1, <1>2, <1>3, <1>4

(* The matches of a goal that is wanted and can be done are its required   *)
(* capabilities, each of them usable.                                      *)
LEMMA UsedAre ==
    ASSUME ReasoningOK, NEW g, NEW j \in DOMAIN goals, g = goals[j].type, Reasoning!CanBeDone(g),
           NEW used, used = Kept(Reasoning!MatchCapabilities,
                                 { k \in DOMAIN Reasoning!MatchCapabilities :
                                      /\ Reasoning!MatchCapabilities[k].goal = g
                                      /\ Reasoning!MatchCapabilities[k].available })
    PROVE  ToSet([k \in DOMAIN used |-> used[k].capability]) = ToSet(Required[g])
<1> DEFINE ms == Reasoning!MatchCapabilities
           ks == { k \in DOMAIN ms : ms[k].goal = g /\ ms[k].available }
           of(i) == Reasoning!MatchForGoal(goals[i].type)
<1>1. /\ ms \in Seq(Match)
      /\ \A x : x \in Range(ms) <=> \E k \in DOMAIN goals : x \in Range(of(k))
    BY AllMatches
<1>2. \A i \in DOMAIN goals : goals[i].type \in Aim /\ MatchesGoal(of(i), goals[i].type)
  <2> TAKE i \in DOMAIN goals
  <2>1. goals[i] \in Tracked
      BY DEF ReasoningOK
  <2>2. goals[i].type \in Aim
      BY <2>1 DEF Tracked
  <2> QED BY <2>2, MatchesAre
<1> HIDE DEF ms, of
<1>3. Range(used) = { ms[k] : k \in ks }
  <2>1. ks \in SUBSET (DOMAIN ms)
      OBVIOUS
  <2>2. used = Kept(ms, ks)
      BY DEF ms
  <2> HIDE DEF ks
  <2> QED BY <1>1, <2>1, <2>2, KeptRange
<1>4. ToSet([k \in DOMAIN used |-> used[k].capability]) = { x.capability : x \in Range(used) }
    BY DEF ToSet, Range
<1>5. ASSUME NEW x \in Range(used)
      PROVE  x.capability \in ToSet(Required[g])
  <2>1. PICK k \in ks : x = ms[k]
      BY <1>3
  <2>2. k \in DOMAIN ms /\ x.goal = g /\ x \in Range(ms)
      BY <2>1 DEF Range
  <2>3. PICK i \in DOMAIN goals : x \in Range(of(i))
      BY <1>1, <2>2
  <2>4. MatchesGoal(of(i), goals[i].type)
      BY <1>2
  <2>5. PICK m \in DOMAIN of(i) : x = of(i)[m]
      BY <2>3 DEF Range
  <2>6. /\ x.goal = goals[i].type /\ x.capability = Required[goals[i].type][m]
        /\ m \in DOMAIN Required[goals[i].type]
      BY <2>4, <2>5 DEF MatchesGoal
  <2> QED BY <2>2, <2>6 DEF ToSet
<1>6. ASSUME NEW m \in DOMAIN Required[g]
      PROVE  \E x \in Range(used) : x.capability = Required[g][m]
  <2> DEFINE x == of(j)[m]
  <2>1. MatchesGoal(of(j), g)
      BY <1>2
  <2>2. /\ m \in DOMAIN of(j) /\ x \in Match /\ x.capability = Required[g][m] /\ x.goal = g
        /\ x.available = TRUE <=> Reasoning!Usable(Required[g][m])
      BY <2>1 DEF MatchesGoal
  <2>3. x.available = TRUE
      BY <2>2 DEF Reasoning!CanBeDone
  <2>4. x \in Range(of(j))
      BY <2>2 DEF Range
  <2> HIDE DEF x
  <2>5. x \in Range(ms)
      BY <1>1, <2>4
  <2>6. PICK k \in DOMAIN ms : ms[k] = x
      BY <2>5 DEF Range
  <2>7. k \in ks
      BY <2>2, <2>3, <2>6
  <2> HIDE DEF ks
  <2>8. x \in Range(used)
      BY <1>3, <2>6, <2>7
  <2> QED BY <2>2, <2>8
<1>7. \A c : c \in ToSet(Required[g]) <=> \E x \in Range(used) : c = x.capability
  <2> HIDE DEF ks
  <2> QED BY <1>5, <1>6 DEF ToSet
<1> DEFINE caps == { x.capability : x \in Range(used) }
           required == ToSet(Required[g])
<1>8. \A c : c \in required <=> c \in caps
  <2> HIDE DEF ks, required
  <2> QED BY <1>7 DEF required
<1> HIDE DEF ks, caps, required
<1>9. required = caps
    BY <1>8
<1> QED BY <1>4, <1>9 DEF required, caps

(* A decision is made whenever some goal can be achieved, and it can be    *)
(* carried out: it names all that the goal requires (synthesize).          *)
THEOREM DecisionsCarriedOut == PartsSpec => []DecisionCanBeDone
<1>1. ReasoningOK => DecisionCanBeDone
  <2> SUFFICES ASSUME ReasoningOK
               PROVE  DecisionCanBeDone
      OBVIOUS
  <2> DEFINE d == Reasoning!Synthesize
             es == Reasoning!Achievable
             best == Reasoning!BestOf(es)
             some == \E k \in DOMAIN goals : Possible(goals[k].type)
             ms == Reasoning!MatchCapabilities
             used == Kept(ms, { k \in DOMAIN ms : ms[k].goal = best.goal /\ ms[k].available })
             caps == [k \in DOMAIN used |-> used[k].capability]
  <2>1. /\ es \in Seq(Verdict)
        /\ \A e \in Range(es) :
              \E k \in DOMAIN goals : e.goal = goals[k].type /\ Possible(goals[k].type)
        /\ some => es # << >>
      BY AchievableAre
  <2>2. some <=> beliefs # << >> /\ \E k \in DOMAIN goals : Reasoning!CanBeDone(goals[k].type)
      BY DEF Possible
  <2>3. CASE es = << >>
    <3>1. d.goal = NoWord
        BY <2>3 DEF Reasoning!Synthesize, Reasoning!Undecided
    <3>2. ~ some
        BY <2>1, <2>3
    <3> HIDE DEF d, some
    <3>3. /\ d.goal # NoWord <=> beliefs # << >> /\ \E k \in DOMAIN goals :
                                                      Reasoning!CanBeDone(goals[k].type)
          /\ d.goal = NoWord
        BY <2>2, <3>1, <3>2
    <3> QED BY <3>3 DEF DecisionCanBeDone, Reasoning!DecisionCanBeDone, d
  <2>4. CASE es # << >>
    <3>1. best \in Range(es)
        BY <2>1, <2>4, BestVerdict
    <3>2. PICK j \in DOMAIN goals : best.goal = goals[j].type /\ Possible(goals[j].type)
        BY <2>1, <3>1
    <3>3. d = [goal |-> best.goal, confidence |-> best.confidence,
               trust |-> Reasoning!TrustActions, capabilities |-> caps]
        BY <2>4, KeptOfReasoning DEF Reasoning!Synthesize
    <3>4. d.goal = best.goal /\ d.capabilities = caps
        BY <3>3
    <3>5. goals[j].type \in Aim
      <4>1. goals[j] \in Tracked
          BY DEF ReasoningOK
      <4> QED BY <4>1 DEF Tracked
    <3>6. d.goal # NoWord /\ some /\ Reasoning!CanBeDone(best.goal)
        BY <3>2, <3>4, <3>5, ReasoningConstants DEF Possible
    <3>7. ToSet(caps) = ToSet(Required[best.goal])
      <4> HIDE DEF best
      <4> QED BY <3>2, <3>6, UsedAre
    <3>8. \A s : Reasoning!ToSet(s) = ToSet(s)
        BY DEF Reasoning!ToSet, ToSet
    <3> HIDE DEF best, caps, d, some
    <3>9. /\ d.goal # NoWord <=> beliefs # << >> /\ \E k \in DOMAIN goals :
                                                      Reasoning!CanBeDone(goals[k].type)
          /\ d.goal # NoWord => /\ Reasoning!CanBeDone(d.goal)
                                /\ Reasoning!ToSet(d.capabilities) = Reasoning!ToSet(Required[d.goal])
        BY <2>2, <3>4, <3>6, <3>7, <3>8
    <3> QED BY <3>9 DEF DecisionCanBeDone, Reasoning!DecisionCanBeDone, d
  <2> QED BY <2>3, <2>4
<1> QED BY <1>1, ReasoningInvariant, PTL
=============================================================================
