-------------------------- MODULE GraphRun_proofs --------------------------
(***************************************************************************)
(* Proofs about GraphRun, for every set of graphs, names, beliefs and      *)
(* resources: what holds of any graph, and what holds if every step        *)
(* reports under its own name (NamesKept).                                 *)
(***************************************************************************)
EXTENDS GraphRun, Lemmas

-----------------------------------------------------------------------------
(* The inductive invariant.  The first part holds for every graph; the     *)
(* second one, Memory, for graphs whose names are kept.                    *)

Plan    == NamesIn(graph)
Started == { n \in Name : dispatches[n] > 0 }
Open    == pc \in {"wave", "gather", "idle"}

(* What is left of a plan has the steps of the plan.                       *)
PartOf(given, plan) ==
    /\ given \in Seq(Node)
    /\ \A n \in NamesIn(given) :
          n \in NamesIn(plan) /\ given[Index(given, n)] = plan[Index(plan, n)]

Types ==
    /\ graph \in Graphs
    /\ PartOf(steps, graph)
    /\ remaining \subseteq NamesIn(steps)
    /\ pc \in PCs
    /\ believed \subseteq Belief
    /\ byName \in [Name -> Status \cup {"none"}]
    /\ dispatches \in [Name -> {0, 1}]
    /\ pc # "returned" => results \in Seq(NodeResult)

NotBegun ==
    /\ steps = graph
    /\ results = << >> /\ byName = NoResults
    /\ flight = NoFlight
    /\ Started = {} /\ won = {} /\ lost = {}

Checkpoint ==
    /\ PartOf(suspended.steps, graph)
    /\ NamesIn(suspended.steps) = remaining
    /\ suspended.results = results

(* A task has been started once it is past "scheduled", and its outcome is *)
(* known once it is done.                                                  *)
TaskOK(n) ==
    LET t == flight[n]
    IN  \/ /\ t = [at |-> "scheduled"]
           /\ dispatches[n] = 0 /\ n \notin won \cup lost
        \/ /\ t \in [at : {"attempt"}, leaf : Leaf, attempt : Nat \ {0}]
           /\ t.leaf \in { Chosen(StepOf(graph, n), b) : b \in SUBSET Belief }
           /\ dispatches[n] = 1 /\ n \notin won \cup lost
        \/ /\ t \in [at : {"done"}, result : NodeResult]
           /\ dispatches[n] = 1
           /\ n \in IF t.result.status = "success" THEN won ELSE lost

Tasks ==
    /\ DOMAIN flight \subseteq NamesIn(steps)
    /\ pc # "raised" => DOMAIN flight \subseteq remaining
    /\ pc \notin {"gather", "raised"} => flight = NoFlight
    /\ \A n \in DOMAIN flight : TaskOK(n)

(* Each name of the plan is settled when it no longer remains, and one     *)
(* that remains is untouched unless there is a task for it.                *)
Settled ==
    /\ won \cap lost = {}
    /\ won \subseteq Started
    /\ Started \cup lost \subseteq Plan
    /\ pc # "raised" =>
          \A n \in remaining \ DOMAIN flight :
              dispatches[n] = 0 /\ n \notin won \cup lost
    /\ Open \/ pc = "returned" =>
          /\ Plan \ remaining \subseteq won \cup lost
          /\ Len(results) + Cardinality(remaining) = Cardinality(Plan)
    /\ pc = "returned" => remaining = {}

Bookkeeping ==
    /\ Types
    /\ pc = "planning" => NotBegun
    /\ pc = "idle" => Checkpoint
    /\ Tasks
    /\ Settled

(* The results of a plan that was never resumed are those of its steps.    *)
Numbers(rs)  == { r.number : r \in Range(rs) }
Places(S)    == { Index(graph, n) : n \in S }

Numbered ==
    /\ ~ resumed => steps = graph
    /\ ~ resumed /\ Open => Numbers(results) = Places(Plan \ remaining)
    /\ \A n \in DOMAIN flight :
          flight[n].at = "done" => flight[n].result.number = Index(steps, n)

(* What the dispatcher knows of a step that another one depends on.        *)
Recorded == Plan \ remaining

KnownTruly(n) ==
    /\ byName[n] # "none" =>
          n \in Recorded /\ (byName[n] = "success" <=> n \in won)
    /\ n \in Recorded /\ remaining # {} => byName[n] # "none"

ReportedTruly(n) ==
    /\ \A r \in Range(results) : r.name = n =>
          n \in Recorded /\ (r.status = "success" <=> n \in won)
    /\ n \in Recorded => \E r \in Range(results) : r.name = n

NameOfTask(n, m) == m = n \/ {n, m} \cap Needed(graph) = {}

Memory ==
    /\ NamesKept(graph)
    /\ pc \in {"wave", "gather"} => \A n \in Needed(graph) : KnownTruly(n)
    /\ Open => \A n \in Needed(graph) : ReportedTruly(n)
    /\ \A n \in DOMAIN flight :
          /\ flight[n].at = "done" => NameOfTask(n, flight[n].result.name)
          /\ flight[n].at = "scheduled" => DepsOf(graph, n) \subseteq won
    /\ \A n \in Started : DepsOf(graph, n) \subseteq won
    /\ \A n \in lost \ Started :
          \E m \in DepsOf(graph, n) : m \notin Plan \/ m \in lost

-----------------------------------------------------------------------------
(* Lemmas about plans, results and branches.                               *)

(* The last step of a name exists.                                         *)
LEMMA IndexSpec ==
    ASSUME NEW plan \in Seq(Node), NEW n \in NamesIn(plan)
    PROVE  /\ Index(plan, n) \in DOMAIN plan
           /\ Index(plan, n) \in Nat \ {0}
           /\ plan[Index(plan, n)] \in Node
           /\ plan[Index(plan, n)].step.name = n
<1> DEFINE T == { i \in DOMAIN plan : plan[i].step.name = n }
<1>1. DOMAIN plan = 1..Len(plan) /\ Len(plan) \in Nat
    OBVIOUS
<1>2. T \in SUBSET (1..Len(plan)) /\ T # {}
    BY <1>1 DEF NamesIn
<1>3. PICK i \in T : \A k \in (i + 1)..Len(plan) : k \notin T
  <2> HIDE DEF T
  <2> QED BY <1>1, <1>2, LastPlace
<1>4. \A k \in (i + 1)..Len(plan) : plan[k].step.name # n
  <2> TAKE k \in (i + 1)..Len(plan)
  <2>1. k \in DOMAIN plan /\ k \notin T
      BY <1>1, <1>3
  <2> QED BY <2>1
<1>5. /\ Index(plan, n) \in DOMAIN plan
      /\ plan[Index(plan, n)].step.name = n
    BY <1>3, <1>4 DEF Index
<1> QED BY <1>1, <1>5

LEMMA NodeType ==
    ASSUME NEW plan \in Seq(Node), NEW n \in NamesIn(plan)
    PROVE  /\ n \in Name
           /\ StepOf(plan, n) \in Step
           /\ DepsOf(plan, n) \subseteq Name
<1>1. plan[Index(plan, n)] \in Node /\ plan[Index(plan, n)].step.name = n
    BY IndexSpec
<1>2. StepOf(plan, n) \in Step /\ DepsOf(plan, n) \subseteq Name
    BY <1>1 DEF StepOf, DepsOf, Node
<1>3. StepOf(plan, n).name \in Name
    BY <1>2 DEF Step, Leaf, Conditional
<1> QED BY <1>1, <1>2, <1>3 DEF StepOf

LEMMA NamesFinite ==
    ASSUME NEW plan \in Seq(Node)
    PROVE  IsFiniteSet(NamesIn(plan)) /\ NamesIn(plan) \subseteq Name
<1> DEFINE f == [i \in 1..Len(plan) |-> plan[i].step.name]
<1>1. Len(plan) \in Nat /\ DOMAIN plan = 1..Len(plan)
    OBVIOUS
<1>2. f \in [1..Len(plan) -> NamesIn(plan)]
      /\ \A n \in NamesIn(plan) : \E i \in 1..Len(plan) : f[i] = n
    BY <1>1 DEF NamesIn
<1>3. f \in Surjection(1..Len(plan), NamesIn(plan))
  <2> HIDE DEF f
  <2> QED BY <1>2, Fun_IsSurj
<1>4. IsFiniteSet(1..Len(plan))
    BY <1>1, FS_Interval
<1>5. IsFiniteSet(NamesIn(plan))
  <2> HIDE DEF f
  <2> QED BY <1>3, <1>4, FS_Surjection
<1>6. NamesIn(plan) \subseteq Name
    BY NodeType
<1> QED BY <1>5, <1>6

LEMMA GraphType ==
    ASSUME NEW g \in Graphs
    PROVE  g \in Seq(Node)
BY GraphsAssumption DEF Node

(* What is executed for a step is a leaf, or nothing.                      *)
LEMMA ChosenType ==
    ASSUME NEW step \in Step, NEW b
    PROVE  Chosen(step, b) \in Leaf \cup {NoStep}
<1>1. CASE step \in Leaf
    BY <1>1 DEF Leaf, Chosen
<1>2. CASE step \in Conditional
    BY <1>2 DEF Conditional, Chosen, Branch
<1> QED BY <1>1, <1>2 DEF Step

LEMMA ResultType ==
    ASSUME NEW i \in Nat \ {0}, NEW n \in Name, NEW s \in Status, NEW e \in Causes
    PROVE  /\ ResultOf(i, n, s, e) \in NodeResult
           /\ ResultOf(i, n, s, e).name = n
           /\ ResultOf(i, n, s, e).status = s
           /\ ResultOf(i, n, s, e).number = i
BY DEF ResultOf, NodeResult

(* The refusals of some steps: one result each, and all of them failures.  *)
LEMMA FailuresType ==
    ASSUME steps \in Seq(Node), NEW S \in SUBSET NamesIn(steps), NEW e \in Causes
    PROVE  LET rs == Failures(S, e)
           IN  /\ rs \in Seq(NodeResult)
               /\ Len(rs) = Cardinality(S) /\ Len(rs) \in Nat
               /\ \A r \in Range(rs) : /\ r.name \in S /\ r.status = "failed"
                                       /\ r.number = Index(steps, r.name)
               /\ \A n \in S : \E r \in Range(rs) : r.name = n
<1> DEFINE order == SetToSeq(S)
           rs == Failures(S, e)
<1>1. IsFiniteSet(S) /\ Cardinality(S) \in Nat
    BY NamesFinite, FS_Subset, FS_CardinalityType
<1>2. IsOrderOf(order, S)
    BY <1>1, OneOrder
<1>3. rs = [k \in DOMAIN order |->
               ResultOf(Index(steps, order[k]), order[k], "failed", e)]
    BY DEF Failures
<1>4. ASSUME NEW k \in DOMAIN order
      PROVE  /\ rs[k] \in NodeResult /\ rs[k].name = order[k] /\ rs[k].status = "failed"
             /\ rs[k].number = Index(steps, rs[k].name)
  <2>1. order[k] \in NamesIn(steps) /\ order[k] \in Name
      BY <1>2, NamesFinite DEF IsOrderOf
  <2>2. Index(steps, order[k]) \in Nat \ {0}
      BY <2>1, IndexSpec
  <2> QED BY <1>3, <2>1, <2>2, ResultType DEF Status
<1>5. DOMAIN rs = DOMAIN order /\ DOMAIN order = 1..Cardinality(S)
    BY <1>2, <1>3 DEF IsOrderOf
<1>6. rs \in Seq(NodeResult) /\ Len(rs) = Cardinality(S)
  <2> HIDE DEF rs, order
  <2>1. rs = [k \in 1..Cardinality(S) |-> rs[k]]
      BY <1>3, <1>5
  <2>2. \A k \in 1..Cardinality(S) : rs[k] \in NodeResult
      BY <1>4, <1>5
  <2>3. rs \in [1..Cardinality(S) -> NodeResult]
      BY <2>1, <2>2
  <2> QED BY <1>1, <2>3
<1>7. \A n \in S : \E k \in DOMAIN order : order[k] = n
    BY <1>2 DEF IsOrderOf
<1>8. \A k \in DOMAIN order : order[k] \in S
    BY <1>2 DEF IsOrderOf
<1> HIDE DEF rs, order
<1>9. /\ \A k \in DOMAIN rs : /\ rs[k].name \in S /\ rs[k].status = "failed"
                                /\ rs[k].number = Index(steps, rs[k].name)
      /\ \A n \in S : \E k \in DOMAIN rs : rs[k].name = n
    BY <1>4, <1>5, <1>7, <1>8
<1>10. /\ \A r \in Range(rs) : /\ r.name \in S /\ r.status = "failed"
                                /\ r.number = Index(steps, r.name)
       /\ \A n \in S : \E r \in Range(rs) : r.name = n
    BY <1>9 DEF Range
<1> QED BY <1>1, <1>6, <1>10 DEF rs

(* resume() finds the status of a result of that name, if there is one.    *)
LEMMA PriorSpec ==
    ASSUME NEW rs \in Seq(NodeResult), NEW n \in Name
    PROVE  /\ PriorNames(rs) \in [Name -> Status \cup {"none"}]
           /\ PriorNames(rs)[n] = "none" => \A r \in Range(rs) : r.name # n
           /\ PriorNames(rs)[n] # "none" =>
                 \E r \in Range(rs) : r.name = n /\ r.status = PriorNames(rs)[n]
<1> DEFINE Latest(m) == CHOOSE k \in DOMAIN rs :
                          /\ rs[k].name = m
                          /\ \A j \in (k + 1)..Len(rs) : rs[j].name # m
<1>1. \A k \in DOMAIN rs : rs[k].status \in Status
  <2>1. \A k \in DOMAIN rs : rs[k] \in NodeResult
      OBVIOUS
  <2> QED BY <2>1 DEF NodeResult
<1>2. ASSUME NEW m, \E k \in DOMAIN rs : rs[k].name = m
      PROVE  Latest(m) \in DOMAIN rs /\ rs[Latest(m)].name = m
  <2> DEFINE T == { k \in DOMAIN rs : rs[k].name = m }
  <2>1. T \in SUBSET (1..Len(rs)) /\ T # {} /\ Len(rs) \in Nat
      BY <1>2
  <2>2. PICK i \in T : \A j \in (i + 1)..Len(rs) : j \notin T
    <3> HIDE DEF T
    <3> QED BY <2>1, LastPlace
  <2>3. i \in DOMAIN rs /\ rs[i].name = m /\ i \in Nat /\ DOMAIN rs = 1..Len(rs)
      BY <2>1, <2>2
  <2>4. \A j \in (i + 1)..Len(rs) : rs[j].name # m
    <3> TAKE j \in (i + 1)..Len(rs)
    <3>1. j \in DOMAIN rs /\ j \notin T
        BY <2>1, <2>2, <2>3
    <3> QED BY <3>1
  <2> QED BY <2>3, <2>4
<1>3. PriorNames(rs) = [m \in Name |-> IF \E k \in DOMAIN rs : rs[k].name = m
                                       THEN rs[Latest(m)].status ELSE "none"]
    BY DEF PriorNames
<1> HIDE DEF Last
<1>4. PriorNames(rs) \in [Name -> Status \cup {"none"}]
    BY <1>1, <1>2, <1>3
<1>5. CASE \E k \in DOMAIN rs : rs[k].name = n
  <2>1. Latest(n) \in DOMAIN rs /\ rs[Latest(n)].name = n
      BY <1>2, <1>5
  <2>2. PriorNames(rs)[n] = rs[Latest(n)].status /\ rs[Latest(n)].status # "none"
      BY <1>1, <1>3, <1>5, <2>1 DEF Status
  <2> QED BY <1>4, <2>1, <2>2 DEF Range
<1>6. CASE ~ \E k \in DOMAIN rs : rs[k].name = n
    BY <1>3, <1>4, <1>6 DEF Range
<1> QED BY <1>5, <1>6

-----------------------------------------------------------------------------
(* Bookkeeping is inductive.                                               *)

LEMMA PlanFacts ==
    ASSUME Types
    PROVE  /\ graph \in Seq(Node) /\ steps \in Seq(Node)
           /\ NamesIn(steps) \subseteq Plan
           /\ IsFiniteSet(Plan) /\ Plan \subseteq Name
           /\ IsFiniteSet(remaining) /\ remaining \subseteq Plan
           /\ Cardinality(remaining) \in Nat /\ Cardinality(Plan) \in Nat
<1>1. graph \in Seq(Node) /\ steps \in Seq(Node) /\ NamesIn(steps) \subseteq Plan
    BY GraphType DEF Types, PartOf, Plan
<1>2. IsFiniteSet(Plan) /\ Plan \subseteq Name
    BY <1>1, NamesFinite DEF Plan
<1>3. remaining \in SUBSET Plan
    BY <1>1 DEF Types
<1> QED BY <1>1, <1>2, <1>3, FS_Subset, FS_CardinalityType

(* A step that is left is the step of the plan.                            *)
LEMMA SameStep ==
    ASSUME Types, NEW n \in NamesIn(steps)
    PROVE  /\ n \in Plan /\ n \in Name
           /\ StepOf(steps, n) = StepOf(graph, n)
           /\ DepsOf(steps, n) = DepsOf(graph, n)
           /\ StepOf(graph, n) \in Step
           /\ DepsOf(graph, n) \subseteq Name
           /\ Index(steps, n) \in Nat \ {0}
<1>1. n \in Plan /\ steps[Index(steps, n)] = graph[Index(graph, n)]
    BY DEF Types, PartOf, Plan
<1>2. steps \in Seq(Node) /\ graph \in Seq(Node)
    BY PlanFacts
<1> QED BY <1>1, <1>2, NodeType, IndexSpec DEF StepOf, DepsOf, Plan

(* The steps of a checkpoint, in whatever order they are put there.        *)
LEMMA CheckpointSteps ==
    ASSUME Types, NEW order \in SetToSeqs(remaining)
    PROVE  LET rest == [k \in DOMAIN order |-> steps[Index(steps, order[k])]]
           IN  PartOf(rest, graph) /\ NamesIn(rest) = remaining
<1> DEFINE rest == [k \in DOMAIN order |-> steps[Index(steps, order[k])]]
<1>1. /\ IsOrderOf(order, remaining)
      /\ Cardinality(remaining) \in Nat
      /\ steps \in Seq(Node)
    BY AnyOrder, PlanFacts
<1>2. remaining \subseteq NamesIn(steps)
    BY DEF Types
<1>3. DOMAIN order = 1..Cardinality(remaining)
    BY <1>1 DEF IsOrderOf
<1>4. ASSUME NEW k \in DOMAIN order
      PROVE  /\ order[k] \in remaining /\ rest[k] \in Node
             /\ rest[k].step.name = order[k]
             /\ order[k] \in Plan /\ rest[k] = graph[Index(graph, order[k])]
  <2>1. order[k] \in remaining /\ order[k] \in NamesIn(steps)
      BY <1>1, <1>2 DEF IsOrderOf
  <2>2. rest[k] = steps[Index(steps, order[k])]
      OBVIOUS
  <2>3. /\ order[k] \in Plan
        /\ steps[Index(steps, order[k])] = graph[Index(graph, order[k])]
      BY <2>1 DEF Types, PartOf, Plan
  <2>4. /\ steps[Index(steps, order[k])] \in Node
        /\ steps[Index(steps, order[k])].step.name = order[k]
      BY <1>1, <2>1, IndexSpec
  <2> HIDE DEF rest
  <2> QED BY <2>1, <2>2, <2>3, <2>4
<1>5. DOMAIN rest = 1..Cardinality(remaining)
    BY <1>3
<1> HIDE DEF rest
<1>6. rest \in Seq(Node)
  <2>1. rest \in [1..Cardinality(remaining) -> Node]
    <3>1. \A k \in 1..Cardinality(remaining) : rest[k] \in Node
        BY <1>3, <1>4
    <3>2. rest = [k \in 1..Cardinality(remaining) |-> rest[k]]
        BY <1>5 DEF rest
    <3> QED BY <3>1, <3>2
  <2> QED BY <1>1, <2>1
<1>7. NamesIn(rest) = remaining
  <2>1. \A x \in remaining : \E k \in DOMAIN order : order[k] = x
      BY <1>1 DEF IsOrderOf
  <2> QED BY <1>3, <1>4, <1>5, <2>1 DEF NamesIn
<1>8. ASSUME NEW n \in NamesIn(rest)
      PROVE  n \in Plan /\ rest[Index(rest, n)] = graph[Index(graph, n)]
  <2>1. Index(rest, n) \in DOMAIN order /\ rest[Index(rest, n)].step.name = n
      BY <1>3, <1>5, <1>6, <1>8, IndexSpec
  <2> QED BY <1>4, <2>1
<1>9. PartOf(rest, graph) /\ NamesIn(rest) = remaining
    BY <1>6, <1>7, <1>8 DEF PartOf, Plan
<1> QED BY <1>9 DEF rest

LEMMA InitBookkeeping == Init => Bookkeeping
<1> SUFFICES ASSUME Init
             PROVE  Bookkeeping
    OBVIOUS
<1>1. graph \in Seq(Node) /\ steps = graph /\ graph \in Graphs
    BY GraphType DEF Init
<1>2. Types
    BY <1>1 DEF Init, Types, PartOf, PCs, NoResults
<1>3. Started = {} /\ NotBegun
    BY DEF Init, Started, NotBegun
<1>4. pc = "planning" /\ DOMAIN flight = {}
    BY DEF Init, NoFlight
<1>5. Tasks
    BY <1>4 DEF Init, Tasks
<1>6. Settled
    BY <1>3, <1>4 DEF Init, Settled, Open
<1> QED BY <1>2, <1>3, <1>4, <1>5, <1>6 DEF Bookkeeping

(* What a step of one task may change.                                     *)
OnlyTask(n) ==
    /\ n \in DOMAIN flight
    /\ UNCHANGED << requested, suspended, steps, remaining, byName, results,
                    believed, graph, resumed >>
    /\ \/ pc' = pc /\ DOMAIN flight' = DOMAIN flight
       \/ pc' = "raised" /\ DOMAIN flight' = DOMAIN flight \ {n}
    /\ \A m \in DOMAIN flight \ {n} : flight'[m] = flight[m]
    /\ dispatches' \in [Name -> {0, 1}]
    /\ \A m \in Name \ {n} : dispatches'[m] = dispatches[m]
    /\ won' \in {won, won \cup {n}} /\ lost' \in {lost, lost \cup {n}}

LEMMA TaskBookkeeping ==
    ASSUME Bookkeeping, NEW n \in Name, OnlyTask(n),
           dispatches'[n] = 1, n \notin won' \cap lost',
           n \in DOMAIN flight' => TaskOK(n)'
    PROVE  Bookkeeping'
<1> USE DEF Bookkeeping
<1>1. n \in NamesIn(steps) /\ n \in Plan /\ pc \in {"gather", "raised"} /\ pc' \in PCs
  <2>1. flight # NoFlight
      BY DEF OnlyTask, NoFlight
  <2> QED BY <2>1, SameStep DEF OnlyTask, Tasks, Types, PCs
<1>2. dispatches' \in [Name -> {0, 1}]
    BY DEF OnlyTask
<1>3. Types'
    BY <1>1, <1>2 DEF Types, OnlyTask, PCs
<1>4. pc' \in {"gather", "raised"}
    BY <1>1 DEF OnlyTask
<1>5. Tasks'
  <2>1. /\ DOMAIN flight' \subseteq DOMAIN flight
        /\ \A m \in DOMAIN flight' \ {n} : m \in Name
      BY SameStep DEF OnlyTask, Tasks
  <2>2. ASSUME NEW m \in DOMAIN flight'
        PROVE  TaskOK(m)'
    <3>1. CASE m = n
        BY <3>1
    <3>2. CASE m # n
      <4>1. /\ m \in DOMAIN flight \ {n} /\ m \in Name
            /\ flight'[m] = flight[m] /\ dispatches'[m] = dispatches[m]
            /\ (m \in won' <=> m \in won) /\ (m \in lost' <=> m \in lost)
            /\ graph' = graph
          BY <2>1, <3>2 DEF OnlyTask
      <4>2. TaskOK(m)
          BY <4>1 DEF Tasks
      <4> QED BY <4>1, <4>2 DEF TaskOK
    <3> QED BY <3>1, <3>2
  <2>3. /\ DOMAIN flight' \subseteq NamesIn(steps')
        /\ pc' # "raised" => DOMAIN flight' \subseteq remaining'
      BY <2>1 DEF OnlyTask, Tasks
  <2> QED BY <1>4, <2>2, <2>3 DEF Tasks
<1>6. Settled'
  <2>1. n \in Started' /\ Started' \subseteq Started \cup {n} /\ Started \subseteq Started'
      BY <1>2 DEF Started, OnlyTask, Types
  <2>2. Plan' = Plan
      BY DEF Plan, OnlyTask
  <2>3. /\ won' \cap lost' = {} /\ won' \subseteq Started'
        /\ (Started \cup lost)' \subseteq Plan'
      BY <1>1, <2>1, <2>2 DEF Settled, OnlyTask
  <2>4. pc' # "raised" =>
          \A m \in remaining' \ DOMAIN flight' :
              dispatches'[m] = 0 /\ m \notin won' \cup lost'
      BY PlanFacts DEF Settled, OnlyTask
  <2>5. Open' \/ pc' = "returned" =>
          /\ (Plan \ remaining)' \subseteq (won \cup lost)'
          /\ (Len(results) + Cardinality(remaining) = Cardinality(Plan))'
      BY <1>4, <2>2 DEF Settled, OnlyTask, Open
  <2> QED BY <1>4, <2>3, <2>4, <2>5 DEF Settled
<1> QED BY <1>3, <1>4, <1>5, <1>6

(* The step that is executed for a name of the plan.                       *)
LEMMA LeafOfTask ==
    ASSUME Types, NEW n \in NamesIn(steps)
    PROVE  LET leaf == Chosen(StepOf(steps, n), believed)
           IN  /\ leaf \in Leaf \cup {NoStep}
               /\ leaf # NoStep => leaf \in Leaf /\ leaf.name \in Name
               /\ leaf \in { Chosen(StepOf(graph, n), b) : b \in SUBSET Belief }
<1> DEFINE leaf == Chosen(StepOf(steps, n), believed)
<1>1. leaf \in Leaf \cup {NoStep}
    BY SameStep, ChosenType
<1>2. leaf = Chosen(StepOf(graph, n), believed) /\ believed \in SUBSET Belief
    BY SameStep DEF Types
<1>3. leaf \in { Chosen(StepOf(graph, n), b) : b \in SUBSET Belief }
    BY <1>2
<1>4. leaf \in Leaf => leaf.name \in Name
    BY DEF Leaf
<1> HIDE DEF leaf
<1>5. leaf # NoStep => leaf \in Leaf /\ leaf.name \in Name
    BY <1>1, <1>4
<1> QED BY <1>1, <1>3, <1>5 DEF leaf

(* A task that is handed to _dispatch_step is handed to it once.           *)
LEMMA DispatchCounts ==
    ASSUME Bookkeeping, NEW n \in Name, Dispatch(n)
    PROVE  /\ n \in DOMAIN flight /\ n \in NamesIn(steps)
           /\ dispatches[n] = 0 /\ n \notin won \cup lost
           /\ dispatches' \in [Name -> {0, 1}] /\ dispatches'[n] = 1
           /\ \A m \in Name \ {n} : dispatches'[m] = dispatches[m]
<1>1. n \in DOMAIN flight /\ flight[n].at = "scheduled"
    BY DEF Dispatch, InFlight
<1>2. TaskOK(n) /\ n \in NamesIn(steps)
    BY <1>1 DEF Bookkeeping, Tasks
<1>3. dispatches[n] = 0 /\ n \notin won \cup lost
    BY <1>1, <1>2 DEF TaskOK
<1>4. dispatches' = [dispatches EXCEPT ![n] = 1] /\ dispatches \in [Name -> {0, 1}]
    BY <1>3 DEF Dispatch, Bookkeeping, Types
<1> QED BY <1>1, <1>2, <1>3, <1>4

LEMMA DoneTask ==
    ASSUME Types, NEW n \in DOMAIN flight, n \in NamesIn(steps),
           NEW status \in Status, NEW name \in Name,
           Done(n, status, name), dispatches'[n] = 1, n \notin won \cup lost
    PROVE  /\ DOMAIN flight' = DOMAIN flight
           /\ \A m \in DOMAIN flight \ {n} : flight'[m] = flight[m]
           /\ won' \in {won, won \cup {n}} /\ lost' \in {lost, lost \cup {n}}
           /\ n \notin won' \cap lost'
           /\ TaskOK(n)'
           /\ flight'[n].result.name = name /\ flight'[n].at = "done"
           /\ flight'[n].result.number = Index(steps, n)
<1>1. Index(steps, n) \in Nat \ {0}
    BY SameStep
<1> DEFINE r == ResultOf(Index(steps, n), name, status, "ran")
<1>2. /\ r \in NodeResult /\ r.status = status /\ r.name = name
      /\ r.number = Index(steps, n)
  <2>1. "ran" \in Causes
      BY DEF Causes
  <2> QED BY <1>1, <2>1, ResultType
<1>3. flight' = [flight EXCEPT ![n] = [at |-> "done", result |-> r]]
    BY DEF Done
<1>4. IF status = "success" THEN won' = won \cup {n} /\ lost' = lost
                            ELSE won' = won /\ lost' = lost \cup {n}
    BY DEF Done
<1> HIDE DEF r
<1>5. flight'[n] = [at |-> "done", result |-> r]
    BY <1>3
<1>6. flight'[n].result.status = status
    BY <1>2, <1>5
<1>7. TaskOK(n)'
  <2>1. flight'[n] \in [at : {"done"}, result : NodeResult]
      BY <1>2, <1>5
  <2>2. n \in IF flight'[n].result.status = "success" THEN won' ELSE lost'
      BY <1>4, <1>6
  <2> QED BY <2>1, <2>2 DEF TaskOK
<1> QED BY <1>2, <1>3, <1>4, <1>5, <1>7

LEMMA TaskStepIsOnlyTask ==
    ASSUME Bookkeeping, NEW n \in Name, TaskStep(n)
    PROVE  /\ OnlyTask(n)
           /\ dispatches'[n] = 1 /\ n \notin won' \cap lost'
           /\ n \in DOMAIN flight' => TaskOK(n)'
<1> DEFINE leaf == Chosen(StepOf(steps, n), believed)
<1>0. Types
    BY DEF Bookkeeping
<1>1. CASE SkipStep(n)
  <2>1. Dispatch(n) /\ Done(n, "skipped", n) /\ pc' = pc
      BY <1>1 DEF SkipStep
  <2>2. "skipped" \in Status
      BY DEF Status
  <2>3. UNCHANGED << requested, suspended, steps, remaining, byName, results,
                     believed, graph, resumed >>
      BY <2>1 DEF Dispatch, envVars
  <2> QED BY <1>0, <2>1, <2>2, <2>3, DispatchCounts, DoneTask DEF OnlyTask
<1>2. CASE MissResources(n)
  <2>1. Dispatch(n) /\ leaf # NoStep /\ Done(n, "failed", leaf.name) /\ pc' = pc
      BY <1>2 DEF MissResources
  <2>2. "failed" \in Status /\ leaf.name \in Name
      BY <1>0, <2>1, DispatchCounts, LeafOfTask DEF Status
  <2>3. UNCHANGED << requested, suspended, steps, remaining, byName, results,
                     believed, graph, resumed >>
      BY <2>1 DEF Dispatch, envVars
  <2> HIDE DEF leaf
  <2> QED BY <1>0, <2>1, <2>2, <2>3, DispatchCounts, DoneTask DEF OnlyTask
<1>3. CASE StartStep(n)
  <2>1. /\ Dispatch(n) /\ leaf # NoStep /\ pc' = pc /\ won' = won /\ lost' = lost
        /\ flight' = [flight EXCEPT ![n] =
                         [at |-> "attempt", leaf |-> leaf, attempt |-> 1]]
      BY <1>3 DEF StartStep
  <2>2. /\ leaf \in Leaf
        /\ leaf \in { Chosen(StepOf(graph, n), b) : b \in SUBSET Belief }
      BY <1>0, <2>1, DispatchCounts, LeafOfTask
  <2>3. UNCHANGED << requested, suspended, steps, remaining, byName, results,
                     believed, graph, resumed >>
      BY <2>1 DEF Dispatch, envVars
  <2> HIDE DEF leaf
  <2>4. /\ n \in DOMAIN flight /\ dispatches'[n] = 1
        /\ flight'[n] = [at |-> "attempt", leaf |-> leaf, attempt |-> 1]
        /\ n \notin won' \cup lost'
      BY <2>1, DispatchCounts
  <2>5. TaskOK(n)'
    <3>1. flight'[n] \in [at : {"attempt"}, leaf : Leaf, attempt : Nat \ {0}]
          /\ flight'[n].leaf = leaf
        BY <2>2, <2>4
    <3> QED BY <2>2, <2>3, <2>4, <3>1 DEF TaskOK
  <2> QED BY <2>1, <2>3, <2>4, <2>5, DispatchCounts DEF OnlyTask
<1>4. CASE RaiseMalformed(n)
  <2>1. /\ Dispatch(n) /\ pc' = "raised" /\ won' = won /\ lost' = lost
        /\ flight' = [m \in DOMAIN flight \ {n} |-> flight[m]]
      BY <1>4 DEF RaiseMalformed
  <2>2. UNCHANGED << requested, suspended, steps, remaining, byName, results,
                     believed, graph, resumed >>
      BY <2>1 DEF Dispatch, envVars
  <2> QED BY <2>1, <2>2, DispatchCounts DEF OnlyTask
<1>5. ASSUME InFlight(n, "attempt")
      PROVE  /\ n \in DOMAIN flight /\ n \in NamesIn(steps)
             /\ flight[n] \in [at : {"attempt"}, leaf : Leaf, attempt : Nat \ {0}]
             /\ flight[n].leaf \in { Chosen(StepOf(graph, n), b) : b \in SUBSET Belief }
             /\ flight[n].leaf.name \in Name
             /\ dispatches[n] = 1 /\ n \notin won \cup lost
             /\ dispatches \in [Name -> {0, 1}]
  <2>1. n \in DOMAIN flight /\ flight[n].at = "attempt"
      BY <1>5 DEF InFlight
  <2>2. TaskOK(n) /\ n \in NamesIn(steps)
      BY <2>1 DEF Bookkeeping, Tasks
  <2>3. /\ flight[n] \in [at : {"attempt"}, leaf : Leaf, attempt : Nat \ {0}]
        /\ flight[n].leaf \in { Chosen(StepOf(graph, n), b) : b \in SUBSET Belief }
        /\ dispatches[n] = 1 /\ n \notin won \cup lost
      BY <2>1, <2>2 DEF TaskOK
  <2> QED BY <1>0, <2>1, <2>2, <2>3 DEF Leaf, Types
<1>6. CASE AttemptSucceeds(n)
  <2>1. /\ InFlight(n, "attempt") /\ Done(n, "success", flight[n].leaf.name)
        /\ pc' = pc /\ dispatches' = dispatches
        /\ UNCHANGED << requested, suspended, steps, remaining, byName, results,
                        believed, graph, resumed >>
      BY <1>6 DEF AttemptSucceeds, envVars
  <2>2. "success" \in Status
      BY DEF Status
  <2> QED BY <1>0, <1>5, <2>1, <2>2, DoneTask DEF OnlyTask
<1>7. CASE AttemptFails(n)
  <2>1. /\ InFlight(n, "attempt") /\ pc' = pc /\ dispatches' = dispatches
        /\ UNCHANGED << requested, suspended, steps, remaining, byName, results,
                        believed, graph, resumed >>
      BY <1>7 DEF AttemptFails, envVars
  <2>2. CASE Done(n, "failed", flight[n].leaf.name)
    <3>1. "failed" \in Status
        BY DEF Status
    <3> QED BY <1>0, <1>5, <2>1, <2>2, <3>1, DoneTask DEF OnlyTask
  <2>3. CASE /\ flight' = [flight EXCEPT ![n].attempt = @ + 1]
             /\ won' = won /\ lost' = lost
    <3>1. /\ flight'[n] \in [at : {"attempt"}, leaf : Leaf, attempt : Nat \ {0}]
          /\ flight'[n].leaf = flight[n].leaf
        BY <1>5, <2>1, <2>3
    <3>2. TaskOK(n)'
        BY <1>5, <2>1, <2>3, <3>1 DEF TaskOK
    <3> QED BY <1>5, <2>1, <2>3, <3>2 DEF OnlyTask
  <2> QED BY <1>7, <2>2, <2>3 DEF AttemptFails
<1> QED BY <1>1, <1>2, <1>3, <1>4, <1>6, <1>7 DEF TaskStep

(* One head of the loop that refuses some of the steps that remain: both   *)
(* NextWave and BreakCycle do, for two reasons at once.                    *)
Refusing(H1, e1, H2, e2) ==
    /\ pc = "wave"
    /\ results' = results \o Failures(H1, e1) \o Failures(H2, e2)
    /\ remaining' = remaining \ (H1 \cup H2)
    /\ lost' = lost \cup H1 \cup H2
    /\ UNCHANGED << steps, graph, won, dispatches, believed >>

(* Each of some steps has a result of its name and number.                 *)
Reported(S, rs) ==
    \A n \in S : \E r \in Range(rs) : r.name = n /\ r.number = Index(steps, n)

LEMMA Refusals ==
    ASSUME Bookkeeping, NEW H1 \in SUBSET remaining, NEW H2 \in SUBSET (remaining \ H1),
           NEW e1 \in Causes, NEW e2 \in Causes, Refusing(H1, e1, H2, e2)
    PROVE  /\ results' \in Seq(NodeResult)
           /\ Len(results') + Cardinality(remaining') = Cardinality(Plan')
           /\ \A r \in Range(results') \ Range(results) :
                 /\ r.name \in H1 \cup H2 /\ r.status = "failed"
                 /\ r.number = Index(steps, r.name)
           /\ Range(results) \subseteq Range(results')
           /\ Reported(H1 \cup H2, results')
           /\ (Plan \ remaining)' \subseteq (won \cup lost)'
           /\ won' \cap lost' = {} /\ won' \subseteq Started'
           /\ (Started \cup lost)' \subseteq Plan'
           /\ \A m \in remaining' : dispatches'[m] = 0 /\ m \notin won' \cup lost'
<1> DEFINE f1 == Failures(H1, e1)
           f2 == Failures(H2, e2)
<1>1. /\ Types /\ pc = "wave" /\ results \in Seq(NodeResult)
      /\ remaining \subseteq NamesIn(steps)
    BY DEF Refusing, Bookkeeping, Types
<1>2. /\ IsFiniteSet(remaining) /\ remaining \subseteq Plan
      /\ steps \in Seq(Node)
      /\ Cardinality(remaining) \in Nat /\ Cardinality(Plan) \in Nat
    BY <1>1, PlanFacts
<1>3. H1 \in SUBSET NamesIn(steps) /\ H2 \in SUBSET NamesIn(steps)
    BY <1>1
<1>4. /\ f1 \in Seq(NodeResult) /\ Len(f1) = Cardinality(H1) /\ Len(f1) \in Nat
      /\ \A r \in Range(f1) : /\ r.name \in H1 /\ r.status = "failed"
                              /\ r.number = Index(steps, r.name)
      /\ \A n \in H1 : \E r \in Range(f1) : r.name = n
    BY <1>2, <1>3, FailuresType
<1>5. /\ f2 \in Seq(NodeResult) /\ Len(f2) = Cardinality(H2) /\ Len(f2) \in Nat
      /\ \A r \in Range(f2) : /\ r.name \in H2 /\ r.status = "failed"
                              /\ r.number = Index(steps, r.name)
      /\ \A n \in H2 : \E r \in Range(f2) : r.name = n
    BY <1>2, <1>3, FailuresType
<1>6. results' = (results \o f1) \o f2
    BY DEF Refusing
<1> HIDE DEF f1, f2
<1>7. /\ results' \in Seq(NodeResult)
      /\ Len(results') = Len(results) + Len(f1) + Len(f2)
      /\ Range(results') = Range(results) \cup Range(f1) \cup Range(f2)
  <2>1. /\ results \o f1 \in Seq(NodeResult)
        /\ Len(results \o f1) = Len(results) + Len(f1)
        /\ Range(results \o f1) = Range(results) \cup Range(f1)
      BY <1>1, <1>4, Concatenated
  <2> DEFINE first == results \o f1
  <2>3. first \in Seq(NodeResult)
      BY <2>1
  <2> HIDE DEF first
  <2>2. /\ first \o f2 \in Seq(NodeResult)
        /\ Len(first \o f2) = Len(first) + Len(f2)
        /\ Range(first \o f2) = Range(first) \cup Range(f2)
      BY <1>5, <2>3, Concatenated
  <2> QED BY <1>6, <2>1, <2>2 DEF first
<1>8. /\ Len(results) + Cardinality(remaining) = Cardinality(Plan)
      /\ Plan \ remaining \subseteq won \cup lost
      /\ Len(results) \in Nat
    BY <1>1 DEF Bookkeeping, Settled, Open
<1>9. Cardinality(remaining') = Cardinality(remaining) - Cardinality(H1) - Cardinality(H2)
  <2>1. /\ IsFiniteSet(H1) /\ IsFiniteSet(H2)
        /\ Cardinality(H1) \in Nat /\ Cardinality(H2) \in Nat
      BY <1>2, FS_Subset, FS_CardinalityType
  <2>2. /\ IsFiniteSet(remaining \ H1)
        /\ Cardinality(remaining \ H1) = Cardinality(remaining) - Cardinality(H1)
    <3>1. remaining \cap H1 = H1
        OBVIOUS
    <3> QED BY <1>2, <3>1, FS_Difference
  <2>3. Cardinality((remaining \ H1) \ H2) =
            Cardinality(remaining \ H1) - Cardinality(H2)
    <3> DEFINE others == remaining \ H1
    <3>1. others \cap H2 = H2
        OBVIOUS
    <3>2. IsFiniteSet(others)
        BY <2>2
    <3> HIDE DEF others
    <3>3. Cardinality(others \ H2) = Cardinality(others) - Cardinality(others \cap H2)
        BY <3>2, FS_Difference
    <3> QED BY <3>1, <3>3 DEF others
  <2>4. remaining' = (remaining \ H1) \ H2
      BY DEF Refusing
  <2> QED BY <2>1, <2>2, <2>3, <2>4
<1>10. Plan' = Plan /\ Started' = Started
    BY DEF Refusing, Plan, Started
<1>11. Cardinality(H1) \in Nat /\ Cardinality(H2) \in Nat
    BY <1>4, <1>5
<1>12. Len(results') + Cardinality(remaining') = Cardinality(Plan')
    BY <1>2, <1>4, <1>5, <1>7, <1>8, <1>9, <1>10, <1>11
<1>13. /\ \A r \in Range(results') \ Range(results) :
             /\ r.name \in H1 \cup H2 /\ r.status = "failed"
             /\ r.number = Index(steps, r.name)
       /\ Range(results) \subseteq Range(results')
       /\ Reported(H1 \cup H2, results')
    BY <1>4, <1>5, <1>7 DEF Reported
<1>14. /\ won \cap lost = {} /\ won \subseteq Started /\ Started \cup lost \subseteq Plan
       /\ \A m \in remaining : dispatches[m] = 0 /\ m \notin won \cup lost
  <2>1. DOMAIN flight = {}
      BY <1>1 DEF Bookkeeping, Tasks, NoFlight
  <2> QED BY <1>1, <2>1 DEF Bookkeeping, Settled
<1>15. /\ (Plan \ remaining)' \subseteq (won \cup lost)'
       /\ won' \cap lost' = {} /\ won' \subseteq Started'
       /\ (Started \cup lost)' \subseteq Plan'
       /\ \A m \in remaining' : dispatches'[m] = 0 /\ m \notin won' \cup lost'
    BY <1>2, <1>8, <1>10, <1>14 DEF Refusing
<1> QED BY <1>7, <1>12, <1>13, <1>15

LEMMA BeginBookkeeping == Bookkeeping /\ Begin => Bookkeeping'
<1> SUFFICES ASSUME Bookkeeping, Begin
             PROVE  Bookkeeping'
    OBVIOUS
<1>1. /\ NotBegun /\ Types
      /\ pc' = "wave" /\ remaining' = Plan
      /\ UNCHANGED << steps, byName, results, flight, believed, graph, dispatches,
                      won, lost >>
    BY DEF Bookkeeping, Begin, NotBegun, Plan, envVars, historyVars
<1>2. Types'
  <2>1. remaining' \subseteq NamesIn(steps') /\ results \in Seq(NodeResult)
      BY <1>1 DEF NotBegun, Plan
  <2> QED BY <1>1, <2>1 DEF Types, PCs
<1>3. DOMAIN flight = {} /\ flight = NoFlight /\ dispatches \in [Name -> {0, 1}]
    BY <1>1 DEF NotBegun, NoFlight, Types
<1>4. Tasks'
    BY <1>1, <1>3 DEF Tasks
<1>5. \A n \in Plan : dispatches[n] = 0 /\ n \notin won \cup lost
    BY <1>1, <1>3, PlanFacts DEF NotBegun, Started
<1>6. Plan' = Plan /\ Started' = Started
    BY <1>1 DEF Plan, Started
<1>7. Len(results) + Cardinality(Plan) = Cardinality(Plan)
    BY <1>1, PlanFacts DEF NotBegun
<1>8. Settled'
    BY <1>1, <1>5, <1>6, <1>7 DEF Settled, NotBegun
<1> QED BY <1>1, <1>2, <1>4, <1>8 DEF Bookkeeping

LEMMA SuspendBookkeeping == Bookkeeping /\ Suspend => Bookkeeping'
<1> SUFFICES ASSUME Bookkeeping, Suspend
             PROVE  Bookkeeping'
    OBVIOUS
<1>1. /\ Types /\ pc = "wave" /\ pc' = "idle"
      /\ UNCHANGED << steps, remaining, byName, results, flight, believed, graph,
                      dispatches, won, lost >>
    BY DEF Bookkeeping, Suspend, envVars, historyVars
<1>2. PICK order \in SetToSeqs(remaining) :
          suspended' = [steps   |-> [k \in DOMAIN order |->
                                        steps[Index(steps, order[k])]],
                        results |-> results]
    BY DEF Suspend, Undispatched
<1>3. Checkpoint'
  <2> DEFINE rest == [k \in DOMAIN order |-> steps[Index(steps, order[k])]]
  <2>1. PartOf(rest, graph) /\ NamesIn(rest) = remaining
      BY <1>1, CheckpointSteps
  <2>2. suspended'.steps = rest /\ suspended'.results = results
      BY <1>2
  <2> HIDE DEF rest
  <2> QED BY <1>1, <2>1, <2>2 DEF Checkpoint
<1>4. Types'
    BY <1>1 DEF Types, PCs
<1>5. Tasks'
    BY <1>1 DEF Tasks, TaskOK, Bookkeeping, NoFlight
<1>6. Plan' = Plan /\ Started' = Started
    BY <1>1 DEF Plan, Started
<1>7. Settled'
    BY <1>1, <1>6 DEF Settled, Open, Bookkeeping
<1> QED BY <1>1, <1>3, <1>4, <1>5, <1>7 DEF Bookkeeping

LEMMA ReadySteps ==
    /\ Unknown \in SUBSET remaining
    /\ ReadyLater \subseteq remaining \ Unknown
    /\ ReadyNow \subseteq ReadyLater
BY DEF Unknown, ReadyLater, ReadyNow

LEMMA WaveBookkeeping == Bookkeeping /\ NextWave => Bookkeeping'
<1> SUFFICES ASSUME Bookkeeping, NextWave
             PROVE  Bookkeeping'
    OBVIOUS
<1>0. Types /\ pc = "wave"
    BY DEF Bookkeeping, NextWave
<1>1. PICK ready \in SUBSET ReadyLater :
        LET run  == { n \in ready : MayRun(n) }
            fail == ready \ run
        IN  /\ byName' = FailedIn(Unknown \cup fail)
            /\ results' = results \o Failures(Unknown, "unknown_dependency")
                                  \o Failures(fail, "dependency_failed")
            /\ remaining' = remaining \ (Unknown \cup fail)
            /\ flight' = [n \in run |-> [at |-> "scheduled"]]
            /\ pc' = IF run = {} THEN "wave" ELSE "gather"
            /\ lost' = lost \cup Unknown \cup fail
    BY DEF NextWave
<1> DEFINE run  == { n \in ready : MayRun(n) }
           fail == ready \ run
<1>2. /\ byName' = FailedIn(Unknown \cup fail)
      /\ flight' = [n \in run |-> [at |-> "scheduled"]]
      /\ pc' = IF run = {} THEN "wave" ELSE "gather"
    BY <1>1
<1>3. UNCHANGED << steps, graph, won, dispatches, believed >>
    BY DEF NextWave, envVars
<1>4. Refusing(Unknown, "unknown_dependency", fail, "dependency_failed")
    BY <1>0, <1>1, <1>3 DEF Refusing
<1>5. fail \in SUBSET (remaining \ Unknown) /\ Unknown \in SUBSET remaining
      /\ run \subseteq remaining \ (Unknown \cup fail)
    BY ReadySteps
<1> HIDE DEF run, fail
<1>6. "unknown_dependency" \in Causes /\ "dependency_failed" \in Causes
    BY DEF Causes
<1>7. /\ results' \in Seq(NodeResult)
      /\ Len(results') + Cardinality(remaining') = Cardinality(Plan')
      /\ (Plan \ remaining)' \subseteq (won \cup lost)'
      /\ won' \cap lost' = {} /\ won' \subseteq Started'
      /\ (Started \cup lost)' \subseteq Plan'
      /\ \A m \in remaining' : dispatches'[m] = 0 /\ m \notin won' \cup lost'
    BY <1>4, <1>5, <1>6, Refusals
<1>8. remaining' = remaining \ (Unknown \cup fail) /\ pc' \in {"wave", "gather"}
    BY <1>2, <1>4 DEF Refusing
<1>9. byName' \in [Name -> Status \cup {"none"}]
    BY <1>0, <1>2 DEF FailedIn, Types, Status
<1>10. Types'
    BY <1>0, <1>3, <1>7, <1>8, <1>9 DEF Types, PCs
<1>11. Tasks'
  <2>1. DOMAIN flight' = run /\ run \subseteq remaining'
      BY <1>2, <1>5, <1>8
  <2>2. \A n \in run : flight'[n] = [at |-> "scheduled"]
      BY <1>2
  <2>3. \A n \in DOMAIN flight' : TaskOK(n)'
      BY <1>7, <2>1, <2>2 DEF TaskOK
  <2>4. pc' \notin {"gather", "raised"} => flight' = NoFlight
    <3>1. ASSUME run = {}
          PROVE  flight' = NoFlight
        BY <1>2, <3>1 DEF NoFlight
    <3> QED BY <1>2, <3>1
  <2>5. remaining' \subseteq NamesIn(steps')
      BY <1>10 DEF Types
  <2> QED BY <2>1, <2>3, <2>4, <2>5 DEF Tasks
<1>12. Settled'
    BY <1>7, <1>8 DEF Settled
<1> QED BY <1>8, <1>10, <1>11, <1>12 DEF Bookkeeping

LEMMA CycleBookkeeping == Bookkeeping /\ BreakCycle => Bookkeeping'
<1> SUFFICES ASSUME Bookkeeping, BreakCycle
             PROVE  Bookkeeping'
    OBVIOUS
<1> DEFINE rest == remaining \ Unknown
<1>1. /\ Types /\ pc = "wave" /\ pc' = "wave" /\ flight = NoFlight /\ flight' = flight
      /\ byName' = FailedIn(Unknown) /\ remaining' = {}
      /\ UNCHANGED << steps, graph, won, dispatches, believed >>
    BY DEF Bookkeeping, BreakCycle, envVars, Tasks
<1>2. Unknown \in SUBSET remaining /\ rest \in SUBSET (remaining \ Unknown)
      /\ remaining = Unknown \cup rest
    BY ReadySteps
<1>3. Refusing(Unknown, "unknown_dependency", rest, "dependency_cycle")
  <2>1. /\ results' = results \o Failures(Unknown, "unknown_dependency")
                              \o Failures(rest, "dependency_cycle")
        /\ lost' = lost \cup remaining
      BY DEF BreakCycle
  <2> QED BY <1>1, <1>2, <2>1 DEF Refusing
<1> HIDE DEF rest
<1>4. "unknown_dependency" \in Causes /\ "dependency_cycle" \in Causes
    BY DEF Causes
<1>5. /\ results' \in Seq(NodeResult)
      /\ Len(results') + Cardinality(remaining') = Cardinality(Plan')
      /\ (Plan \ remaining)' \subseteq (won \cup lost)'
      /\ won' \cap lost' = {} /\ won' \subseteq Started'
      /\ (Started \cup lost)' \subseteq Plan'
    BY <1>2, <1>3, <1>4, Refusals
<1>6. byName' \in [Name -> Status \cup {"none"}]
    BY <1>1 DEF FailedIn, Types, Status
<1>7. Types'
    BY <1>1, <1>5, <1>6 DEF Types
<1>8. Tasks'
    BY <1>1 DEF Tasks, NoFlight
<1>9. Settled'
    BY <1>1, <1>5 DEF Settled
<1> QED BY <1>1, <1>7, <1>8, <1>9 DEF Bookkeeping

LEMMA GatherBookkeeping == Bookkeeping /\ GatherReturns => Bookkeeping'
<1> SUFFICES ASSUME Bookkeeping, GatherReturns
             PROVE  Bookkeeping'
    OBVIOUS
<1>1. /\ Types /\ pc = "gather" /\ pc' = "wave"
      /\ byName' = [n \in Name |-> IF n \in Finished
                                   THEN flight[n].result.status ELSE byName[n]]
      /\ remaining' = remaining \ Finished
      /\ flight' = [n \in DOMAIN flight \ Finished |-> flight[n]]
      /\ UNCHANGED << steps, graph, won, lost, dispatches, believed >>
    BY DEF Bookkeeping, GatherReturns, envVars, historyVars
<1>2. Finished = DOMAIN flight
    BY DEF GatherReturns, AllDone, Finished
<1>3. flight' = NoFlight
    BY <1>1, <1>2 DEF NoFlight
<1>4. ASSUME NEW n \in Finished
      PROVE  /\ flight[n].result \in NodeResult
             /\ flight[n].result.status \in Status
             /\ n \in won \cup lost
  <2>1. TaskOK(n) /\ flight[n].at = "done"
      BY <1>4 DEF Bookkeeping, Tasks, Finished
  <2>2. flight[n] \in [at : {"done"}, result : NodeResult]
        /\ n \in IF flight[n].result.status = "success" THEN won ELSE lost
      BY <2>1 DEF TaskOK
  <2> QED BY <2>2 DEF NodeResult
<1>5. Finished \in SUBSET remaining /\ Finished \subseteq Plan
    BY <1>1, <1>2, PlanFacts DEF Bookkeeping, Tasks
<1>6. PICK order \in SetToSeqs(Finished) :
          results' = results \o [k \in DOMAIN order |-> flight[order[k]].result]
    BY DEF GatherReturns
<1> DEFINE news == [k \in DOMAIN order |-> flight[order[k]].result]
<1>7. IsFiniteSet(Finished) /\ Cardinality(Finished) \in Nat
    BY <1>1, <1>5, PlanFacts, FS_Subset, FS_CardinalityType
<1>8. IsOrderOf(order, Finished)
    BY <1>7, AnyOrder
<1>9. news \in Seq(NodeResult) /\ Len(news) = Cardinality(Finished)
  <2>1. DOMAIN order = 1..Cardinality(Finished) /\ \A k \in DOMAIN order : order[k] \in Finished
      BY <1>8 DEF IsOrderOf
  <2>2. \A k \in DOMAIN order : flight[order[k]].result \in NodeResult
      BY <1>4, <2>1
  <2>3. news \in [1..Cardinality(Finished) -> NodeResult]
      BY <2>1, <2>2
  <2> HIDE DEF news
  <2> QED BY <1>7, <2>3
<1>10. results \in Seq(NodeResult) /\ results' = results \o news
    BY <1>1, <1>6 DEF Types
<1> HIDE DEF news
<1>11. results' \in Seq(NodeResult) /\ Len(results') = Len(results) + Len(news)
    BY <1>9, <1>10, Concatenated
<1>12. Types'
  <2>1. byName' \in [Name -> Status \cup {"none"}]
      BY <1>1, <1>4 DEF Types
  <2> QED BY <1>1, <1>11, <2>1 DEF Types, PCs
<1>13. Tasks'
    BY <1>1, <1>3 DEF Tasks, NoFlight
<1>14. Settled'
  <2>1. Plan' = Plan /\ Started' = Started
      BY <1>1 DEF Plan, Started
  <2>2. /\ Plan \ remaining \subseteq won \cup lost
        /\ Len(results) + Cardinality(remaining) = Cardinality(Plan)
        /\ Len(results) \in Nat
        /\ \A n \in remaining \ DOMAIN flight : dispatches[n] = 0 /\ n \notin won \cup lost
      BY <1>1, <1>10 DEF Bookkeeping, Settled, Open
  <2>3. (Plan \ remaining)' \subseteq (won \cup lost)'
      BY <1>1, <1>4, <2>1, <2>2
  <2>4. Cardinality(remaining') = Cardinality(remaining) - Cardinality(Finished)
    <3>1. remaining \cap Finished = Finished /\ IsFiniteSet(remaining)
        BY <1>1, <1>5, PlanFacts
    <3>2. Cardinality(remaining \ Finished) =
              Cardinality(remaining) - Cardinality(remaining \cap Finished)
        BY <3>1, FS_Difference
    <3> QED BY <1>1, <3>1, <3>2
  <2>5. Len(results') + Cardinality(remaining') = Cardinality(Plan)
      BY <1>1, <1>7, <1>9, <1>11, <2>2, <2>4, PlanFacts
  <2>6. \A n \in remaining' : dispatches[n] = 0 /\ n \notin won \cup lost
      BY <1>1, <1>2, <2>2
  <2> QED BY <1>1, <2>1, <2>3, <2>5, <2>6 DEF Bookkeeping, Settled
<1> QED BY <1>1, <1>12, <1>13, <1>14 DEF Bookkeeping

(* Sorting puts each result at its place: how many come up to it.          *)
LEMMA SortedSpec ==
    ASSUME NEW rs \in Seq(NodeResult)
    PROVE  /\ Sorted(rs) \in Seq(NodeResult)
           /\ Len(Sorted(rs)) = Len(rs)
           /\ Range(Sorted(rs)) = Range(rs)
           /\ \E from \in [DOMAIN rs -> DOMAIN rs] :
                 /\ Sorted(rs) = [p \in DOMAIN rs |-> rs[from[p]]]
                 /\ \A p, q \in DOMAIN rs : p < q =>
                       from[p] # from[q] /\ rs[from[p]].number <= rs[from[q]].number
<1> DEFINE D == DOMAIN rs
           Before(m, k) == \/ rs[m].number < rs[k].number
                           \/ rs[m].number = rs[k].number /\ m <= k
           upTo == [k \in D |-> UpTo(rs, k)]
           sorted == Arranged(rs, upTo)
<1>1. \A k \in D : k \in Nat /\ rs[k] \in NodeResult
    OBVIOUS
<1>2. \A k \in D : k \in Nat /\ rs[k].number \in Nat
    BY <1>1 DEF NodeResult
<1>3. ASSUME NEW k \in D
      PROVE  UpTo(rs, k) = { m \in D : Before(m, k) }
    BY DEF UpTo
<1>4. Orders(upTo, D)
  <2>1. ASSUME NEW k \in D
        PROVE  upTo[k] = { m \in D : Before(m, k) }
      BY <1>3
  <2> HIDE DEF D, upTo
  <2>2. \A k \in D : upTo[k] \in SUBSET D /\ k \in upTo[k]
      BY <1>2, <2>1
  <2>3. ASSUME NEW k \in D, NEW m \in D, k # m
        PROVE  Earlier(m, k, upTo) \/ Earlier(k, m, upTo)
    <3>1. CASE rs[m].number < rs[k].number \/ (rs[m].number = rs[k].number /\ m <= k)
      <4>1. m \in upTo[k] /\ k \notin upTo[m]
          BY <1>2, <2>1, <2>3, <3>1
      <4>2. ASSUME NEW x \in upTo[m]
            PROVE  x \in upTo[k]
          BY <1>2, <2>1, <2>3, <3>1
      <4> QED BY <4>1, <4>2 DEF Earlier
    <3>2. CASE rs[k].number < rs[m].number \/ (rs[m].number = rs[k].number /\ k <= m)
      <4>1. k \in upTo[m] /\ m \notin upTo[k]
          BY <1>2, <2>1, <2>3, <3>2
      <4>2. ASSUME NEW x \in upTo[k]
            PROVE  x \in upTo[m]
          BY <1>2, <2>1, <2>3, <3>2
      <4> QED BY <4>1, <4>2 DEF Earlier
    <3> QED BY <1>2, <3>1, <3>2
  <2>4. upTo = [k \in D |-> upTo[k]]
      BY DEF upTo
  <2> QED BY <2>2, <2>3, <2>4 DEF Orders
<1>5. Sorted(rs) = sorted
    BY DEF Sorted
<1>6. \A k, m \in D : m \in upTo[k] => rs[m].number <= rs[k].number
    BY <1>2, <1>3
<1> HIDE DEF upTo, sorted
<1>7. /\ sorted \in Seq(NodeResult) /\ Len(sorted) = Len(rs) /\ Range(sorted) = Range(rs)
      /\ \E from \in [D -> D] :
            /\ sorted = [p \in D |-> rs[from[p]]]
            /\ \A p, q \in D : p < q => from[p] # from[q] /\ from[p] \in upTo[from[q]]
    BY <1>4, ArrangedSpec DEF sorted
<1>8. PICK from \in [D -> D] :
            /\ sorted = [p \in D |-> rs[from[p]]]
            /\ \A p, q \in D : p < q => from[p] # from[q] /\ from[p] \in upTo[from[q]]
    BY <1>7
<1> HIDE DEF D
<1>9. ASSUME NEW p \in D, NEW q \in D, p < q
      PROVE  from[p] # from[q] /\ rs[from[p]].number <= rs[from[q]].number
    BY <1>6, <1>8, <1>9
<1> QED BY <1>5, <1>7, <1>8, <1>9 DEF D

LEMMA ReturnBookkeeping == Bookkeeping /\ Return => Bookkeeping'
<1> SUFFICES ASSUME Bookkeeping, Return
             PROVE  Bookkeeping'
    OBVIOUS
<1>1. /\ Types /\ pc = "wave" /\ pc' = "returned" /\ remaining = {}
      /\ results' = Sorted(results)
      /\ UNCHANGED << steps, remaining, byName, flight, graph, won, lost, dispatches,
                      believed >>
    BY DEF Bookkeeping, Return, envVars, historyVars
<1>2. Len(results') = Len(results)
  <2>1. results \in Seq(NodeResult)
      BY <1>1 DEF Types
  <2>2. results' = Sorted(results)
      BY <1>1
  <2> QED BY <2>1, <2>2, SortedSpec
<1>3. Types'
    BY <1>1 DEF Types, PCs
<1>4. Tasks'
    BY <1>1 DEF Bookkeeping, Tasks, TaskOK, NoFlight
<1>5. Plan' = Plan /\ Started' = Started
    BY <1>1 DEF Plan, Started
<1>6. Settled'
    BY <1>1, <1>2, <1>5 DEF Bookkeeping, Settled, Open
<1> QED BY <1>1, <1>3, <1>4, <1>6 DEF Bookkeeping

LEMMA ResumeBookkeeping == Bookkeeping /\ Resume => Bookkeeping'
<1> SUFFICES ASSUME Bookkeeping, Resume
             PROVE  Bookkeeping'
    OBVIOUS
<1>1. /\ Types /\ Checkpoint /\ pc = "idle" /\ pc' = "wave"
      /\ steps' = suspended.steps
      /\ remaining' = NamesIn(suspended.steps)
      /\ results' = suspended.results
      /\ byName' = PriorNames(suspended.results)
      /\ UNCHANGED << flight, graph, won, lost, dispatches, believed >>
    BY DEF Bookkeeping, Resume, envVars
<1>2. /\ remaining' = remaining /\ results' = results /\ PartOf(steps', graph)
      /\ results \in Seq(NodeResult)
    BY <1>1 DEF Checkpoint, Types
<1>3. byName' \in [Name -> Status \cup {"none"}]
  <2>1. CASE Name = {}
      BY <1>1, <1>2, <2>1 DEF PriorNames
  <2>2. CASE Name # {}
      BY <1>1, <1>2, <2>2, PriorSpec
  <2> QED BY <2>1, <2>2
<1>4. Types'
    BY <1>1, <1>2, <1>3 DEF Types, PCs
<1>5. Tasks'
    BY <1>1, <1>2 DEF Bookkeeping, Tasks, NoFlight
<1>6. Plan' = Plan /\ Started' = Started
    BY <1>1 DEF Plan, Started
<1>7. Settled'
    BY <1>1, <1>2, <1>6 DEF Bookkeeping, Settled, Open
<1> QED BY <1>1, <1>4, <1>5, <1>7 DEF Bookkeeping

LEMMA RestBookkeeping ==
    Bookkeeping /\ (Interrupt \/ Observe \/ UNCHANGED vars) => Bookkeeping'
<1> SUFFICES ASSUME Bookkeeping, Interrupt \/ Observe \/ UNCHANGED vars
             PROVE  Bookkeeping'
    OBVIOUS
<1>1. /\ UNCHANGED << suspended, pc, steps, remaining, byName, results, flight,
                      graph, dispatches, won, lost >>
      /\ believed' \subseteq Belief
    BY DEF Interrupt, Observe, vars, envVars, historyVars, Bookkeeping, Types
<1>2. Types'
    BY <1>1 DEF Bookkeeping, Types
<1>3. Plan' = Plan /\ Started' = Started
    BY <1>1 DEF Plan, Started
<1>4. NotBegun' <=> NotBegun
    BY <1>1, <1>3 DEF NotBegun
<1>5. Checkpoint' <=> Checkpoint
    BY <1>1 DEF Checkpoint
<1>6. \A n : TaskOK(n)' <=> TaskOK(n)
    BY <1>1 DEF TaskOK
<1>7. Tasks'
    BY <1>1, <1>6 DEF Bookkeeping, Tasks
<1>8. Settled'
    BY <1>1, <1>3 DEF Bookkeeping, Settled, Open
<1> QED BY <1>1, <1>2, <1>4, <1>5, <1>7, <1>8 DEF Bookkeeping

LEMMA NextBookkeeping == Bookkeeping /\ [Next]_vars => Bookkeeping'
<1>1. ASSUME Bookkeeping, NEW n \in Name, TaskStep(n)
      PROVE  Bookkeeping'
    BY <1>1, TaskStepIsOnlyTask, TaskBookkeeping
<1> QED BY <1>1, BeginBookkeeping, SuspendBookkeeping, WaveBookkeeping,
           CycleBookkeeping, GatherBookkeeping, ReturnBookkeeping,
           ResumeBookkeeping, RestBookkeeping
        DEF Next, LoopStep

(* What the dispatcher keeps of a plan is consistent, for any graph: tasks *)
(* only for steps that remain, every other step won or lost, as many       *)
(* results as steps that are settled.                                      *)
THEOREM BooksKept == Spec => []Bookkeeping
BY InitBookkeeping, NextBookkeeping, PTL DEF Spec

(* No name of the plan is without its result, none has two, and none has   *)
(* both succeeded and failed, in whatever waves and calls the plan ran.    *)
THEOREM EveryStepHasItsResult == Spec => []OneResultEach
<1>1. Bookkeeping => OneResultEach
  <2> SUFFICES ASSUME Bookkeeping, pc = "returned"
               PROVE  /\ Len(results) = Cardinality(Plan)
                      /\ won \cap lost = {}
                      /\ won \cup lost = Plan
      BY DEF OneResultEach, Plan
  <2>1. /\ remaining = {} /\ Plan \ remaining \subseteq won \cup lost
        /\ won \cap lost = {} /\ won \subseteq Started /\ Started \cup lost \subseteq Plan
        /\ Len(results) + Cardinality(remaining) = Cardinality(Plan)
      BY DEF Bookkeeping, Settled
  <2>2. Cardinality(remaining) = 0 /\ Cardinality(Plan) \in Nat
      BY <2>1, FS_EmptySet, PlanFacts DEF Bookkeeping
  <2> QED BY <2>1, <2>2
<1> QED BY <1>1, BooksKept, PTL

(* A step goes to _dispatch_step at most once.                             *)
THEOREM NothingDispatchedTwice == Spec => []DispatchedOnce
<1>1. Bookkeeping => DispatchedOnce
    BY DEF Bookkeeping, Types, DispatchedOnce
<1> QED BY <1>1, BooksKept, PTL

-----------------------------------------------------------------------------
(* The results of a plan that runs without a resume() are in plan order.   *)

(* What a task leaves: the number of its step, and its name or that of the *)
(* branch that was executed for it.                                        *)
LEMMA TaskResult ==
    ASSUME Bookkeeping, NEW n \in Name, TaskStep(n)
    PROVE  /\ n \in DOMAIN flight' => flight'[n].at # "scheduled"
           /\ n \in DOMAIN flight' /\ flight'[n].at = "done" =>
                 /\ flight'[n].result.number = Index(steps, n)
                 /\ \/ flight'[n].result.name = n
                    \/ \E b \in SUBSET Belief :
                          LET leaf == Chosen(StepOf(graph, n), b)
                          IN  leaf # NoStep /\ flight'[n].result.name = leaf.name
<1> DEFINE leaf == Chosen(StepOf(steps, n), believed)
           Branches == { Chosen(StepOf(graph, n), b) : b \in SUBSET Belief }
<1>0. Types
    BY DEF Bookkeeping
<1>1. ASSUME Dispatch(n)
      PROVE  /\ n \in DOMAIN flight /\ n \in NamesIn(steps)
             /\ dispatches'[n] = 1 /\ n \notin won \cup lost
             /\ leaf # NoStep => leaf \in Leaf /\ leaf.name \in Name
             /\ leaf \in Branches
    BY <1>0, <1>1, DispatchCounts, LeafOfTask
<1>2. ASSUME InFlight(n, "attempt")
      PROVE  /\ n \in DOMAIN flight /\ n \in NamesIn(steps)
             /\ flight[n].leaf \in Branches /\ flight[n].leaf # NoStep
             /\ flight[n].leaf.name \in Name
             /\ dispatches[n] = 1 /\ n \notin won \cup lost
             /\ flight[n].at = "attempt"
  <2>1. n \in DOMAIN flight /\ flight[n].at = "attempt"
      BY <1>2 DEF InFlight
  <2>2. TaskOK(n) /\ n \in NamesIn(steps)
      BY <2>1 DEF Bookkeeping, Tasks
  <2>3. /\ flight[n] \in [at : {"attempt"}, leaf : Leaf, attempt : Nat \ {0}]
        /\ flight[n].leaf \in Branches
        /\ dispatches[n] = 1 /\ n \notin won \cup lost
      BY <2>1, <2>2 DEF TaskOK
  <2>4. NoStep \notin Leaf
      BY NoStepAssumption DEF Step
  <2> QED BY <2>1, <2>2, <2>3, <2>4 DEF Leaf
<1> HIDE DEF leaf
<1>3. ASSUME NEW status \in Status, NEW name \in Name, Done(n, status, name),
             n \in DOMAIN flight, n \in NamesIn(steps), dispatches'[n] = 1,
             n \notin won \cup lost
      PROVE  /\ flight'[n].at = "done" /\ flight'[n].result.name = name
             /\ flight'[n].result.number = Index(steps, n)
    BY <1>0, <1>3, DoneTask
<1>4. "skipped" \in Status /\ "failed" \in Status /\ "success" \in Status
    BY DEF Status
<1>5. CASE SkipStep(n)
    BY <1>1, <1>3, <1>4, <1>5 DEF SkipStep
<1>6. CASE MissResources(n)
  <2>1. Dispatch(n) /\ leaf # NoStep /\ Done(n, "failed", leaf.name)
      BY <1>6 DEF MissResources, leaf
  <2> QED BY <1>1, <1>3, <1>4, <2>1
<1>7. CASE StartStep(n)
  <2>1. /\ Dispatch(n)
        /\ flight' = [flight EXCEPT ![n] =
                         [at |-> "attempt", leaf |-> leaf, attempt |-> 1]]
      BY <1>7 DEF StartStep, leaf
  <2>2. flight'[n].at = "attempt"
      BY <1>1, <2>1
  <2> QED BY <2>2
<1>8. CASE RaiseMalformed(n)
    BY <1>8 DEF RaiseMalformed
<1>9. CASE AttemptSucceeds(n)
  <2>1. /\ InFlight(n, "attempt") /\ Done(n, "success", flight[n].leaf.name)
        /\ dispatches' = dispatches
      BY <1>9 DEF AttemptSucceeds
  <2> QED BY <1>2, <1>3, <1>4, <2>1
<1>10. CASE AttemptFails(n)
  <2>1. InFlight(n, "attempt") /\ dispatches' = dispatches
      BY <1>10 DEF AttemptFails
  <2>2. CASE Done(n, "failed", flight[n].leaf.name)
      BY <1>2, <1>3, <1>4, <2>1, <2>2
  <2>3. CASE flight' = [flight EXCEPT ![n].attempt = @ + 1]
    <3>1. TaskOK(n) /\ flight[n].at = "attempt"
        BY <1>2, <2>1 DEF Bookkeeping, Tasks
    <3>2. flight[n] \in [at : {"attempt"}, leaf : Leaf, attempt : Nat \ {0}]
        BY <3>1 DEF TaskOK
    <3>3. flight'[n].at = "attempt"
        BY <1>2, <2>1, <2>3, <3>2
    <3> QED BY <3>3
  <2> QED BY <1>10, <2>2, <2>3 DEF AttemptFails
<1> QED BY <1>5, <1>6, <1>7, <1>8, <1>9, <1>10 DEF TaskStep

LEMMA InitNumbered == Init => Numbered /\ UninterruptedInPlanOrder
BY DEF Init, Numbered, Open, NoFlight, UninterruptedInPlanOrder

LEMMA TaskNumbered ==
    ASSUME Bookkeeping, Numbered, NEW n \in Name, TaskStep(n)
    PROVE  Numbered'
<1>1. OnlyTask(n) /\ pc \in {"gather", "raised"}
  <2>1. OnlyTask(n)
      BY TaskStepIsOnlyTask
  <2>2. flight # NoFlight
      BY <2>1 DEF OnlyTask, NoFlight
  <2> QED BY <2>1, <2>2 DEF Bookkeeping, Tasks
<1>2. ASSUME NEW m \in DOMAIN flight', flight'[m].at = "done"
      PROVE  flight'[m].result.number = Index(steps', m)
  <2>1. steps' = steps /\ m \in DOMAIN flight
      BY <1>1 DEF OnlyTask
  <2>2. CASE m = n
      BY <1>2, <2>1, <2>2, TaskResult
  <2>3. CASE m # n
      BY <1>1, <1>2, <2>1, <2>3 DEF OnlyTask, Numbered
  <2> QED BY <2>2, <2>3
<1>3. /\ UNCHANGED << steps, graph, resumed, results, remaining >>
      /\ pc' \in {pc, "raised"}
    BY <1>1 DEF OnlyTask
<1>4. Plan' = Plan /\ Places(Plan \ remaining)' = Places(Plan \ remaining)
      /\ Numbers(results)' = Numbers(results)
    BY <1>3 DEF Plan, Places, Numbers
<1> QED BY <1>1, <1>2, <1>3, <1>4 DEF Numbered, Open

(* Refusals are numbered as the steps that they refuse.                    *)
LEMMA RefusalsNumbered ==
    ASSUME Bookkeeping, Numbered, ~ resumed,
           NEW H1 \in SUBSET remaining, NEW H2 \in SUBSET (remaining \ H1),
           NEW e1 \in Causes, NEW e2 \in Causes, Refusing(H1, e1, H2, e2)
    PROVE  Numbers(results') = Places(Plan \ remaining)'
<1>1. /\ \A r \in Range(results') \ Range(results) :
            r.name \in H1 \cup H2 /\ r.number = Index(steps, r.name)
      /\ Range(results) \subseteq Range(results')
      /\ \A n \in H1 \cup H2 :
            \E r \in Range(results') : r.name = n /\ r.number = Index(steps, n)
  <2>1. Range(results) \subseteq Range(results')
      BY Refusals
  <2>2. Reported(H1 \cup H2, results')
      BY Refusals
  <2>3. \A r \in Range(results') \ Range(results) :
           r.name \in H1 \cup H2 /\ r.number = Index(steps, r.name)
      BY Refusals
  <2> QED BY <2>1, <2>2, <2>3 DEF Reported
<1>2. /\ Numbers(results) = Places(Plan \ remaining) /\ steps = graph
      /\ remaining \subseteq Plan
    BY PlanFacts DEF Numbered, Refusing, Open, Bookkeeping
<1>3. Plan' = Plan /\ graph' = graph /\ remaining' = remaining \ (H1 \cup H2)
    BY DEF Refusing, Plan
<1>4. Plan' \ remaining' = (Plan \ remaining) \cup (H1 \cup H2)
    BY <1>2, <1>3
<1>5. Places(Plan \ remaining)' = Places(Plan \ remaining) \cup Places(H1 \cup H2)
    BY <1>3, <1>4 DEF Places
<1>6. Numbers(results') \subseteq Numbers(results) \cup Places(H1 \cup H2)
    BY <1>1, <1>2 DEF Numbers, Places
<1>7. Numbers(results) \subseteq Numbers(results')
    BY <1>1 DEF Numbers
<1>8. Places(H1 \cup H2) \subseteq Numbers(results')
    BY <1>1, <1>2 DEF Numbers, Places
<1> QED BY <1>2, <1>5, <1>6, <1>7, <1>8

LEMMA WaveNumbered == Bookkeeping /\ Numbered /\ NextWave => Numbered'
<1> SUFFICES ASSUME Bookkeeping, Numbered, NextWave
             PROVE  Numbered'
    OBVIOUS
<1>1. PICK ready \in SUBSET ReadyLater :
        LET run  == { n \in ready : MayRun(n) }
            fail == ready \ run
        IN  /\ results' = results \o Failures(Unknown, "unknown_dependency")
                                  \o Failures(fail, "dependency_failed")
            /\ remaining' = remaining \ (Unknown \cup fail)
            /\ flight' = [n \in run |-> [at |-> "scheduled"]]
            /\ lost' = lost \cup Unknown \cup fail
    BY DEF NextWave
<1> DEFINE run  == { n \in ready : MayRun(n) }
           fail == ready \ run
<1>2. /\ UNCHANGED << steps, graph, won, dispatches, believed, resumed >>
      /\ pc = "wave"
    BY DEF NextWave, envVars
<1>3. Refusing(Unknown, "unknown_dependency", fail, "dependency_failed")
    BY <1>1, <1>2 DEF Refusing
<1>4. \A n \in DOMAIN flight' : flight'[n].at = "scheduled"
    BY <1>1
<1>5. fail \in SUBSET (remaining \ Unknown) /\ Unknown \in SUBSET remaining
    BY ReadySteps
<1> HIDE DEF run, fail
<1>6. "unknown_dependency" \in Causes /\ "dependency_failed" \in Causes
    BY DEF Causes
<1>7. ~ resumed => Numbers(results') = Places(Plan \ remaining)'
    BY <1>3, <1>5, <1>6, RefusalsNumbered
<1> QED BY <1>2, <1>4, <1>7 DEF Numbered, Numbers, Places, Plan

LEMMA CycleNumbered == Bookkeeping /\ Numbered /\ BreakCycle => Numbered'
<1> SUFFICES ASSUME Bookkeeping, Numbered, BreakCycle
             PROVE  Numbered'
    OBVIOUS
<1> DEFINE rest == remaining \ Unknown
<1>1. /\ UNCHANGED << steps, graph, won, dispatches, believed, resumed, flight >>
      /\ pc = "wave" /\ remaining' = {}
    BY DEF BreakCycle, envVars
<1>2. Unknown \in SUBSET remaining /\ rest \in SUBSET (remaining \ Unknown)
      /\ remaining = Unknown \cup rest
    BY ReadySteps
<1>3. Refusing(Unknown, "unknown_dependency", rest, "dependency_cycle")
  <2>1. /\ results' = results \o Failures(Unknown, "unknown_dependency")
                              \o Failures(rest, "dependency_cycle")
        /\ lost' = lost \cup remaining
      BY DEF BreakCycle
  <2> QED BY <1>1, <1>2, <2>1 DEF Refusing
<1> HIDE DEF rest
<1>4. "unknown_dependency" \in Causes /\ "dependency_cycle" \in Causes
    BY DEF Causes
<1>5. ~ resumed => Numbers(results') = Places(Plan \ remaining)'
    BY <1>2, <1>3, <1>4, RefusalsNumbered
<1> QED BY <1>1, <1>5 DEF Numbered, Numbers, Places, Plan

(* The results of a gather are appended in whatever order.                 *)
LEMMA Gathered ==
    ASSUME Bookkeeping, GatherReturns
    PROVE  /\ Finished = DOMAIN flight /\ Finished \subseteq remaining
           /\ Range(results') = Range(results) \cup { flight[n].result : n \in Finished }
           /\ \A n \in Finished : /\ flight[n].at = "done"
                                  /\ flight[n].result \in NodeResult
                                  /\ n \in IF flight[n].result.status = "success"
                                           THEN won ELSE lost
<1>1. Types /\ pc = "gather" /\ results \in Seq(NodeResult)
    BY DEF GatherReturns, Bookkeeping, Types
<1>2. Finished = DOMAIN flight /\ Finished \in SUBSET remaining
    BY <1>1 DEF GatherReturns, AllDone, Finished, Bookkeeping, Tasks
<1>3. ASSUME NEW n \in Finished
      PROVE  /\ flight[n].at = "done" /\ flight[n].result \in NodeResult
             /\ n \in IF flight[n].result.status = "success" THEN won ELSE lost
  <2>1. TaskOK(n) /\ flight[n].at = "done"
      BY <1>3 DEF Bookkeeping, Tasks, Finished
  <2> QED BY <2>1 DEF TaskOK
<1>4. PICK order \in SetToSeqs(Finished) :
          results' = results \o [k \in DOMAIN order |-> flight[order[k]].result]
    BY DEF GatherReturns
<1> DEFINE news == [k \in DOMAIN order |-> flight[order[k]].result]
<1>5. IsFiniteSet(Finished) /\ Cardinality(Finished) \in Nat
    BY <1>1, <1>2, PlanFacts, FS_Subset, FS_CardinalityType
<1>6. IsOrderOf(order, Finished)
    BY <1>5, AnyOrder
<1>7. /\ DOMAIN order = 1..Cardinality(Finished)
      /\ \A k \in DOMAIN order : order[k] \in Finished
      /\ \A n \in Finished : \E k \in DOMAIN order : order[k] = n
    BY <1>6 DEF IsOrderOf
<1>8. news \in Seq(NodeResult)
  <2>1. \A k \in DOMAIN order : flight[order[k]].result \in NodeResult
      BY <1>3, <1>7
  <2>2. news \in [1..Cardinality(Finished) -> NodeResult]
      BY <1>7, <2>1
  <2> HIDE DEF news
  <2> QED BY <1>5, <2>2
<1>9. Range(news) = { flight[n].result : n \in Finished }
    BY <1>7 DEF Range
<1> HIDE DEF news
<1>10. Range(results') = Range(results) \cup Range(news)
    BY <1>1, <1>4, <1>8, Concatenated DEF news
<1> QED BY <1>2, <1>3, <1>9, <1>10

LEMMA GatherNumbered == Bookkeeping /\ Numbered /\ GatherReturns => Numbered'
<1> SUFFICES ASSUME Bookkeeping, Numbered, GatherReturns
             PROVE  Numbered'
    OBVIOUS
<1>1. /\ UNCHANGED << steps, graph, resumed >> /\ pc = "gather"
      /\ remaining' = remaining \ Finished
      /\ flight' = [n \in DOMAIN flight \ Finished |-> flight[n]]
    BY DEF GatherReturns, historyVars
<1>2. /\ Finished = DOMAIN flight /\ Finished \subseteq remaining /\ remaining \subseteq Plan
      /\ Range(results') = Range(results) \cup { flight[n].result : n \in Finished }
      /\ \A n \in Finished : flight[n].result.number = Index(steps, n)
    BY Gathered, PlanFacts DEF Numbered, Bookkeeping
<1>3. Plan' = Plan /\ Plan' \ remaining' = (Plan \ remaining) \cup Finished
    BY <1>1, <1>2 DEF Plan
<1>4. ASSUME ~ resumed
      PROVE  Numbers(results') = Places(Plan \ remaining)'
  <2>1. steps = graph /\ Numbers(results) = Places(Plan \ remaining)
      BY <1>1, <1>4 DEF Numbered, Open
  <2>2. Places(Plan \ remaining)' = Places(Plan \ remaining) \cup Places(Finished)
      BY <1>1, <1>3 DEF Places
  <2>3. Numbers(results') = Numbers(results) \cup { flight[n].result.number : n \in Finished }
      BY <1>2 DEF Numbers
  <2>4. { flight[n].result.number : n \in Finished } = Places(Finished)
      BY <1>2, <2>1 DEF Places
  <2> QED BY <2>1, <2>2, <2>3, <2>4
<1>5. DOMAIN flight' = {}
    BY <1>1, <1>2
<1> QED BY <1>1, <1>4, <1>5 DEF Numbered, Numbers, Places, Plan

LEMMA OtherNumbered ==
    ASSUME Bookkeeping, Numbered,
           Begin \/ Suspend \/ Return \/ Resume \/ Interrupt \/ Observe \/ UNCHANGED vars
    PROVE  Numbered'
<1>1. CASE Begin
  <2>1. /\ NotBegun /\ pc' = "wave" /\ remaining' = Plan
        /\ UNCHANGED << steps, graph, results, flight, resumed >>
      BY <1>1 DEF Begin, Bookkeeping, NotBegun, Plan, historyVars
  <2>2. Numbers(results) = {} /\ Plan' \ remaining' = {}
      BY <2>1 DEF NotBegun, Numbers, Range, Plan
  <2>3. Places(Plan \ remaining)' = {} /\ Numbers(results)' = {}
      BY <2>1, <2>2 DEF Places, Numbers
  <2> QED BY <2>1, <2>3 DEF Numbered, Open
<1>2. CASE Resume
  <2>1. resumed' = TRUE /\ UNCHANGED flight /\ pc = "idle"
      BY <1>2 DEF Resume
  <2>2. DOMAIN flight = {}
      BY <2>1 DEF Bookkeeping, Tasks, NoFlight
  <2> QED BY <2>1, <2>2 DEF Numbered
<1>3. CASE Return
  <2>1. UNCHANGED << steps, graph, flight, resumed >> /\ pc' = "returned"
      BY <1>3 DEF Return, historyVars
  <2> QED BY <2>1 DEF Numbered, Open
<1>4. CASE Suspend \/ Interrupt \/ Observe \/ UNCHANGED vars
  <2>1. /\ UNCHANGED << steps, graph, results, flight, resumed, remaining >>
        /\ pc' = pc \/ pc = "wave"
      BY <1>4 DEF Suspend, Interrupt, Observe, vars, historyVars
  <2>2. /\ Places(Plan \ remaining)' = Places(Plan \ remaining)
        /\ Numbers(results)' = Numbers(results)
      BY <2>1 DEF Plan, Places, Numbers
  <2> QED BY <2>1, <2>2 DEF Numbered, Open
<1> QED BY <1>1, <1>2, <1>3, <1>4

LEMMA NextNumbered == Bookkeeping /\ Numbered /\ [Next]_vars => Numbered'
BY TaskNumbered, WaveNumbered, CycleNumbered, GatherNumbered, OtherNumbered
DEF Next, LoopStep

(* As many results as steps, and every step among them: none twice, and    *)
(* sorting puts them in the order of the plan.                             *)
LEMMA ReturnInOrder ==
    ASSUME Bookkeeping, Numbered, Return, ~ resumed
    PROVE  InPlanOrder'
<1>1. /\ Types /\ pc = "wave" /\ remaining = {}
      /\ results' = Sorted(results) /\ UNCHANGED << graph, steps >>
    BY DEF Bookkeeping, Return, historyVars
<1>2. /\ results \in Seq(NodeResult) /\ graph \in Seq(Node)
      /\ IsFiniteSet(Plan) /\ Cardinality(Plan) \in Nat
      /\ Cardinality(remaining) = 0
    BY <1>1, PlanFacts, FS_EmptySet DEF Types
<1>3. Numbers(results) = Places(Plan)
  <2>1. Plan \ remaining = Plan
      BY <1>1
  <2> QED BY <1>1, <2>1 DEF Numbered, Open
<1>4. Len(results) = Cardinality(Plan)
    BY <1>1, <1>2 DEF Bookkeeping, Settled, Open
<1> DEFINE n == Len(results)
           number == [k \in 1..n |-> results[k].number]
           place == [m \in Plan |-> Index(graph, m)]
<1>5. n \in Nat /\ DOMAIN results = 1..n /\ IsFiniteSet(1..n) /\ Cardinality(1..n) = n
  <2>1. n \in Nat /\ DOMAIN results = 1..n
      BY <1>2
  <2> HIDE DEF n
  <2> QED BY <2>1, FS_Interval
<1>6. place \in Injection(Plan, Places(Plan)) /\ place \in Surjection(Plan, Places(Plan))
  <2>1. /\ place \in [Plan -> Places(Plan)]
        /\ \A x \in Places(Plan) : \E m \in Plan : place[m] = x
      BY DEF Places
  <2>2. \A m, p \in Plan : place[m] = place[p] => m = p
      BY <1>2, IndexSpec DEF Plan
  <2> HIDE DEF place
  <2> QED BY <2>1, <2>2, Fun_IsInj, Fun_IsSurj
<1>7. Cardinality(Places(Plan)) = n
    BY <1>2, <1>4, <1>6, FS_Surjection
<1>8. number \in Surjection(1..n, Places(Plan))
  <2>1. /\ number \in [1..n -> Numbers(results)]
        /\ \A x \in Numbers(results) : \E k \in 1..n : number[k] = x
      BY <1>5 DEF Numbers, Range
  <2> HIDE DEF number, n
  <2> QED BY <1>3, <2>1, Fun_IsSurj
<1>9. number \in Injection(1..n, Places(Plan))
  <2> HIDE DEF number, n
  <2> QED BY <1>5, <1>7, <1>8, FS_Surjection
<1>10. \A k, m \in 1..n : number[k] = number[m] => k = m
  <2> HIDE DEF number, n
  <2> QED BY <1>9, Fun_InjectionProperties
<1>11. \A k, m \in DOMAIN results : results[k].number = results[m].number => k = m
    BY <1>5, <1>10
<1>12. PICK from \in [DOMAIN results -> DOMAIN results] :
          /\ Sorted(results) = [p \in DOMAIN results |-> results[from[p]]]
          /\ \A p, q \in DOMAIN results : p < q =>
                from[p] # from[q] /\ results[from[p]].number <= results[from[q]].number
    BY <1>2, SortedSpec
<1>13. \A k \in DOMAIN results : results[k].number \in Nat
  <2>1. \A k \in DOMAIN results : results[k] \in NodeResult
      BY <1>2
  <2> QED BY <2>1 DEF NodeResult
<1>14. \A k, m \in DOMAIN results' : k < m => results'[k].number < results'[m].number
  <2> TAKE k, m \in DOMAIN results'
  <2> HAVE k < m
  <2>1. k \in DOMAIN results /\ m \in DOMAIN results
      BY <1>1, <1>12
  <2>2. /\ from[k] \in DOMAIN results /\ from[m] \in DOMAIN results
        /\ results'[k] = results[from[k]] /\ results'[m] = results[from[m]]
      BY <1>1, <1>12, <2>1
  <2>3. from[k] # from[m] /\ results[from[k]].number <= results[from[m]].number
      BY <1>12, <2>1
  <2>4. results[from[k]].number # results[from[m]].number
      BY <1>11, <2>2, <2>3
  <2> QED BY <1>13, <2>2, <2>3, <2>4
<1>15. \A m \in NamesIn(graph') : \E k \in DOMAIN results' :
          results'[k].number = Index(graph', m)
  <2> TAKE m \in NamesIn(graph')
  <2>1. Index(graph, m) \in Numbers(results) /\ graph' = graph
      BY <1>1, <1>3 DEF Places, Plan
  <2>2. PICK r \in Range(results) : r.number = Index(graph, m)
      BY <2>1 DEF Numbers
  <2>3. r \in Range(results')
      BY <1>1, <1>2, SortedSpec
  <2> QED BY <2>1, <2>2, <2>3 DEF Range
<1> QED BY <1>14, <1>15 DEF InPlanOrder

(* A plan that ran without a resume() gives its results in plan order.     *)
THEOREM ResultsInPlanOrder == Spec => []UninterruptedInPlanOrder
<1> DEFINE Inv == Bookkeeping /\ Numbered /\ UninterruptedInPlanOrder
<1>1. Init => Inv
    BY InitBookkeeping, InitNumbered
<1>2. Inv /\ [Next]_vars => Inv'
  <2> SUFFICES ASSUME Bookkeeping, Numbered, UninterruptedInPlanOrder, [Next]_vars
               PROVE  Inv'
      OBVIOUS
  <2>1. Bookkeeping' /\ Numbered'
      BY NextBookkeeping, NextNumbered
  <2>2. ASSUME pc' = "returned", ~ resumed'
        PROVE  InPlanOrder'
    <3>1. CASE Return
      <4>1. ~ resumed
          BY <2>2, <3>1 DEF Return, historyVars
      <4> QED BY <3>1, <4>1, ReturnInOrder
    <3>2. CASE ~ Return
      <4>1. ~ \E n \in Name : TaskStep(n)
        <5>1. ASSUME NEW n \in Name, TaskStep(n)
              PROVE  FALSE
          <6>1. OnlyTask(n)
              BY <5>1, TaskStepIsOnlyTask
          <6>2. pc = "returned" /\ flight # NoFlight
              BY <2>2, <6>1 DEF OnlyTask, NoFlight
          <6> QED BY <6>2 DEF Bookkeeping, Tasks
        <5> QED BY <5>1
      <4>2. pc = "returned" /\ UNCHANGED << results, graph, resumed >>
        <5>1. Interrupt \/ Observe \/ UNCHANGED vars
            BY <2>2, <3>2, <4>1
            DEF Next, LoopStep, Begin, Suspend, NextWave, BreakCycle, GatherReturns,
                Resume
        <5> QED BY <2>2, <5>1 DEF Interrupt, Observe, vars, historyVars
      <4> QED BY <2>2, <4>2 DEF UninterruptedInPlanOrder, InPlanOrder
    <3> QED BY <3>1, <3>2
  <2> QED BY <2>1, <2>2 DEF UninterruptedInPlanOrder
<1>3. Inv => UninterruptedInPlanOrder
    OBVIOUS
<1> QED BY <1>1, <1>2, <1>3, PTL DEF Spec

-----------------------------------------------------------------------------
(* What the dispatcher remembers, when names are kept.                     *)

(* A step that another one depends on is a name, but it need not be one of *)
(* the plan.                                                               *)
LEMMA NeededType ==
    ASSUME Types
    PROVE  /\ Needed(graph) \subseteq Name
           /\ \A n \in Plan : DepsOf(graph, n) \subseteq Needed(graph)
<1>1. graph \in Seq(Node)
    BY PlanFacts
<1> QED BY <1>1, NodeType DEF Needed, Plan

(* A step refused between two gathers waited for a name that is no step, a *)
(* lost step, or a step refused with it.                                   *)
Refuses(H) ==
    /\ H \subseteq remaining
    /\ lost' = lost \cup H /\ remaining' = remaining \ H
    /\ UNCHANGED << steps, graph, won, dispatches >>
    /\ \A r \in Range(results') \ Range(results) : r.name \in H /\ r.status = "failed"
    /\ Range(results) \subseteq Range(results')
    /\ \A n \in H : \E r \in Range(results') : r.name = n
    /\ \A n \in H : \E d \in DepsOf(graph, n) : d \notin Plan \/ d \in lost \cup H

LEMMA RefusingRefuses ==
    ASSUME Bookkeeping, NEW H1 \in SUBSET remaining, NEW H2 \in SUBSET (remaining \ H1),
           NEW e1 \in Causes, NEW e2 \in Causes, Refusing(H1, e1, H2, e2),
           \A n \in H1 \cup H2 :
              \E d \in DepsOf(graph, n) : d \notin Plan \/ d \in lost \cup H1 \cup H2
    PROVE  Refuses(H1 \cup H2)
<1>1. Range(results) \subseteq Range(results') /\ Reported(H1 \cup H2, results')
    BY Refusals
<1>2. \A r \in Range(results') \ Range(results) :
         r.name \in H1 \cup H2 /\ r.status = "failed"
    BY Refusals
<1>3. /\ remaining' = remaining \ (H1 \cup H2) /\ lost' = lost \cup (H1 \cup H2)
      /\ UNCHANGED << steps, graph, won, dispatches >>
    BY DEF Refusing
<1> QED BY <1>1, <1>2, <1>3 DEF Refuses, Reported

(* A dependency that the dispatcher does not know is none of the plan.     *)
LEMMA UnknownIsNoStep ==
    ASSUME Bookkeeping, Memory, pc = "wave", NEW n \in Unknown
    PROVE  \E d \in DepsOf(graph, n) : d \notin Plan
<1>1. Types /\ n \in remaining /\ n \in NamesIn(steps) /\ HasUnknown(n)
    BY DEF Bookkeeping, Types, Unknown
<1>2. PICK d \in DepsOf(steps, n) : d \notin NamesIn(steps) /\ byName[d] = "none"
    BY <1>1 DEF HasUnknown
<1>3. d \in DepsOf(graph, n) /\ n \in Plan
    BY <1>1, <1>2, SameStep
<1>4. d \in Needed(graph)
    BY <1>1, <1>3, NeededType
<1>5. d \notin remaining
    BY <1>1, <1>2 DEF Types
<1>6. ~ (d \in Plan)
    BY <1>1, <1>2, <1>4, <1>5 DEF Memory, KnownTruly, Recorded
<1> QED BY <1>3, <1>6

LEMMA WaveRefuses ==
    ASSUME Bookkeeping, Memory, NextWave
    PROVE  \E ready \in SUBSET ReadyLater :
              LET run  == { n \in ready : MayRun(n) }
                  fail == ready \ run
              IN  /\ Refuses(Unknown \cup fail)
                  /\ run \cap (Unknown \cup fail) = {}
                  /\ byName' = FailedIn(Unknown \cup fail)
                  /\ flight' = [n \in run |-> [at |-> "scheduled"]]
                  /\ pc' \in {"wave", "gather"}
<1>1. PICK ready \in SUBSET ReadyLater :
        LET run  == { n \in ready : MayRun(n) }
            fail == ready \ run
        IN  /\ byName' = FailedIn(Unknown \cup fail)
            /\ results' = results \o Failures(Unknown, "unknown_dependency")
                                  \o Failures(fail, "dependency_failed")
            /\ remaining' = remaining \ (Unknown \cup fail)
            /\ flight' = [n \in run |-> [at |-> "scheduled"]]
            /\ pc' = IF run = {} THEN "wave" ELSE "gather"
            /\ lost' = lost \cup Unknown \cup fail
    BY DEF NextWave
<1> DEFINE run  == { n \in ready : MayRun(n) }
           fail == ready \ run
<1>2. /\ pc = "wave" /\ Types
      /\ UNCHANGED << steps, graph, won, dispatches, believed >>
    BY DEF NextWave, envVars, Bookkeeping
<1>3. Refusing(Unknown, "unknown_dependency", fail, "dependency_failed")
    BY <1>1, <1>2 DEF Refusing
<1>4. /\ fail \in SUBSET (remaining \ Unknown) /\ Unknown \in SUBSET remaining
      /\ fail \subseteq ReadyLater /\ \A n \in fail : ~ MayRun(n)
      /\ run \cap (Unknown \cup fail) = {}
    BY ReadySteps
<1>5. /\ byName' = FailedIn(Unknown \cup fail)
      /\ flight' = [n \in run |-> [at |-> "scheduled"]]
      /\ pc' \in {"wave", "gather"}
    BY <1>1
<1>6. "unknown_dependency" \in Causes /\ "dependency_failed" \in Causes
    BY DEF Causes
<1> HIDE DEF run, fail
<1>7. ASSUME NEW n \in fail
      PROVE  \E d \in DepsOf(graph, n) : d \in lost \cup Unknown
  <2>1. n \in remaining /\ n \in NamesIn(steps)
      BY <1>2, <1>4 DEF Types
  <2>2. PICK d \in DepsOf(steps, n) : FailedIn(Unknown)[d] # "success"
      BY <1>4, <1>7 DEF MayRun
  <2>3. byName[d] # "none" \/ d \in Unknown
      BY <1>4, <1>7, <2>2 DEF ReadyLater
  <2>4. d \in DepsOf(graph, n) /\ n \in Plan
      BY <1>2, <2>1, <2>2, SameStep
  <2>5. d \in Needed(graph) /\ d \in Name
      BY <1>2, <2>4, NeededType
  <2>6. CASE d \notin Unknown
    <3>1. byName[d] # "none" /\ byName[d] # "success"
        BY <2>2, <2>3, <2>5, <2>6 DEF FailedIn
    <3>2. d \in Recorded /\ d \notin won
        BY <1>2, <2>5, <3>1 DEF Memory, KnownTruly
    <3>3. d \in lost
        BY <1>2, <3>2 DEF Bookkeeping, Settled, Open, Recorded
    <3> QED BY <2>4, <3>3
  <2> QED BY <2>4, <2>6
<1>8. \A n \in Unknown \cup fail :
         \E d \in DepsOf(graph, n) : d \notin Plan \/ d \in lost \cup Unknown \cup fail
    BY <1>2, <1>7, UnknownIsNoStep
<1>9. Refuses(Unknown \cup fail)
    BY <1>3, <1>4, <1>6, <1>8, RefusingRefuses
<1> QED BY <1>4, <1>5, <1>9 DEF run, fail

LEMMA CycleRefuses ==
    ASSUME Bookkeeping, Memory, BreakCycle
    PROVE  Refuses(remaining)
<1> DEFINE rest == remaining \ Unknown
<1>1. /\ pc = "wave" /\ Types
      /\ UNCHANGED << steps, graph, won, dispatches, believed >>
      /\ remaining' = {}
    BY DEF BreakCycle, envVars, Bookkeeping
<1>2. Unknown \in SUBSET remaining /\ rest \in SUBSET (remaining \ Unknown)
      /\ remaining = Unknown \cup rest
    BY ReadySteps
<1>3. Refusing(Unknown, "unknown_dependency", rest, "dependency_cycle")
  <2>1. /\ results' = results \o Failures(Unknown, "unknown_dependency")
                              \o Failures(rest, "dependency_cycle")
        /\ lost' = lost \cup remaining
      BY DEF BreakCycle
  <2> QED BY <1>1, <1>2, <2>1 DEF Refusing
<1>4. "unknown_dependency" \in Causes /\ "dependency_cycle" \in Causes
    BY DEF Causes
<1>5. ASSUME NEW n \in rest
      PROVE  \E d \in DepsOf(graph, n) : d \in remaining
  <2>1. n \in remaining /\ n \in NamesIn(steps) /\ ~ HasUnknown(n)
      BY <1>1 DEF Types, Unknown
  <2>2. PICK d \in DepsOf(steps, n) : byName[d] = "none"
    <3>1. n \notin ReadyNow
        BY DEF BreakCycle, Blocked
    <3> QED BY <3>1 DEF ReadyNow
  <2>3. d \in NamesIn(steps)
      BY <2>1, <2>2 DEF HasUnknown
  <2>4. d \in DepsOf(graph, n) /\ n \in Plan /\ d \in Plan
      BY <1>1, <2>1, <2>2, <2>3, SameStep
  <2>5. d \in Needed(graph)
      BY <1>1, <2>4, NeededType
  <2>6. d \in remaining
      BY <1>1, <2>1, <2>2, <2>4, <2>5 DEF Memory, KnownTruly, Recorded
  <2> QED BY <2>4, <2>6
<1> HIDE DEF rest
<1>6. \A n \in Unknown \cup rest :
         \E d \in DepsOf(graph, n) : d \notin Plan \/ d \in lost \cup Unknown \cup rest
    BY <1>1, <1>2, <1>5, UnknownIsNoStep
<1>7. Refuses(Unknown \cup rest)
    BY <1>2, <1>3, <1>4, <1>6, RefusingRefuses
<1> QED BY <1>2, <1>7

(* What is remembered when a head of the loop refuses some steps.          *)
LEMMA RefusesRemembers ==
    ASSUME Bookkeeping, Memory, pc = "wave", NEW H, Refuses(H)
    PROVE  /\ NamesKept(graph)'
           /\ \A n \in Needed(graph)' : ReportedTruly(n)'
           /\ \A n \in H \cap Needed(graph) : n \in Recorded' /\ n \notin won'
           /\ Recorded' = Recorded \cup H
           /\ \A n \in Started' : DepsOf(graph, n)' \subseteq won'
           /\ \A n \in lost' \ Started' :
                 \E m \in DepsOf(graph, n)' : m \notin Plan' \/ m \in lost'
<1>1. /\ H \subseteq remaining /\ lost' = lost \cup H /\ remaining' = remaining \ H
      /\ UNCHANGED << steps, graph, won, dispatches >>
      /\ Types /\ remaining \subseteq Plan
    BY PlanFacts DEF Refuses, Bookkeeping
<1>2. Plan' = Plan /\ Started' = Started /\ Recorded' = Recorded \cup H
    BY <1>1 DEF Plan, Started, Recorded
<1>3. \A n \in remaining : n \notin won
  <2>1. DOMAIN flight = {}
      BY DEF Bookkeeping, Tasks, NoFlight
  <2> QED BY <2>1 DEF Bookkeeping, Settled
<1>4. ASSUME NEW n \in Needed(graph)
      PROVE  ReportedTruly(n)'
  <2>1. ASSUME NEW r \in Range(results'), r.name = n
        PROVE  n \in Recorded' /\ (r.status = "success" <=> n \in won')
    <3>1. CASE r \in Range(results)
        BY <1>1, <1>2, <2>1, <3>1 DEF Memory, Open, ReportedTruly
    <3>2. CASE r \notin Range(results)
      <4>1. n \in H /\ r.status = "failed"
          BY <2>1, <3>2 DEF Refuses
      <4> QED BY <1>1, <1>2, <1>3, <4>1
    <3> QED BY <3>1, <3>2
  <2>2. ASSUME n \in Recorded'
        PROVE  \E r \in Range(results') : r.name = n
    <3>1. CASE n \in H
        BY <3>1 DEF Refuses
    <3>2. CASE n \in Recorded
        BY <3>2 DEF Refuses, Memory, Open, ReportedTruly
    <3> QED BY <1>2, <2>2, <3>1, <3>2
  <2> QED BY <2>1, <2>2 DEF ReportedTruly
<1>5. NamesKept(graph)' /\ Needed(graph)' = Needed(graph)
    BY <1>1 DEF Memory
<1>6. \A n \in lost' \ Started' : \E m \in DepsOf(graph, n)' : m \notin Plan' \/ m \in lost'
    BY <1>1, <1>2 DEF Memory, Refuses
<1>7. \A n \in Started' : DepsOf(graph, n)' \subseteq won'
    BY <1>1, <1>2 DEF Memory
<1> QED BY <1>1, <1>2, <1>3, <1>4, <1>5, <1>6, <1>7

LEMMA WaveMemory == Bookkeeping /\ Memory /\ NextWave => Memory'
<1> SUFFICES ASSUME Bookkeeping, Memory, NextWave
             PROVE  Memory'
    OBVIOUS
<1>1. PICK ready \in SUBSET ReadyLater :
              LET run  == { n \in ready : MayRun(n) }
                  fail == ready \ run
              IN  /\ Refuses(Unknown \cup fail)
                  /\ run \cap (Unknown \cup fail) = {}
                  /\ byName' = FailedIn(Unknown \cup fail)
                  /\ flight' = [n \in run |-> [at |-> "scheduled"]]
                  /\ pc' \in {"wave", "gather"}
    BY WaveRefuses
<1> DEFINE run  == { n \in ready : MayRun(n) }
           H    == Unknown \cup (ready \ run)
<1>2. /\ Refuses(H) /\ byName' = FailedIn(H)
      /\ flight' = [n \in run |-> [at |-> "scheduled"]]
      /\ pc' \in {"wave", "gather"} /\ pc = "wave" /\ Types
      /\ \A n \in run : MayRun(n) /\ n \in remaining
    BY <1>1, ReadySteps DEF NextWave, Bookkeeping
<1> HIDE DEF run, H
<1>3. /\ NamesKept(graph)'
      /\ \A n \in Needed(graph)' : ReportedTruly(n)'
      /\ \A n \in H \cap Needed(graph) : n \in Recorded' /\ n \notin won'
      /\ Recorded' = Recorded \cup H
      /\ \A n \in Started' : DepsOf(graph, n)' \subseteq won'
      /\ \A n \in lost' \ Started' :
            \E m \in DepsOf(graph, n)' : m \notin Plan' \/ m \in lost'
    BY <1>2, RefusesRemembers
<1>4. won' = won /\ graph' = graph /\ remaining' \subseteq remaining
    BY <1>2 DEF Refuses
<1>5. ASSUME NEW n \in Needed(graph)
      PROVE  KnownTruly(n)'
  <2>1. n \in Name /\ byName'[n] = IF n \in H THEN "failed" ELSE byName[n]
      BY <1>2, NeededType DEF FailedIn
  <2>2. KnownTruly(n)
      BY <1>2 DEF Memory
  <2> QED BY <1>3, <1>4, <2>1, <2>2 DEF KnownTruly
<1>6. ASSUME NEW n \in DOMAIN flight'
      PROVE  flight'[n].at = "scheduled" /\ DepsOf(graph, n) \subseteq won
  <2>1. n \in run /\ flight'[n] = [at |-> "scheduled"]
      BY <1>2
  <2>2. n \in NamesIn(steps) /\ MayRun(n)
      BY <1>2, <2>1 DEF Types
  <2>3. n \in Plan /\ DepsOf(steps, n) = DepsOf(graph, n)
      BY <1>2, <2>2, SameStep
  <2>4. ASSUME NEW d \in DepsOf(graph, n)
        PROVE  d \in won
    <3>1. d \in Needed(graph) /\ d \in Name
        BY <1>2, <2>3, NeededType
    <3>2. FailedIn(Unknown)[d] = "success"
        BY <2>2, <2>3 DEF MayRun
    <3>3. byName[d] = "success"
        BY <3>1, <3>2 DEF FailedIn
    <3> QED BY <1>2, <3>1, <3>3 DEF Memory, KnownTruly
  <2> QED BY <2>1, <2>4
<1> QED BY <1>3, <1>4, <1>5, <1>6 DEF Memory

LEMMA CycleMemory == Bookkeeping /\ Memory /\ BreakCycle => Memory'
<1> SUFFICES ASSUME Bookkeeping, Memory, BreakCycle
             PROVE  Memory'
    OBVIOUS
<1>1. /\ Refuses(remaining) /\ byName' = FailedIn(Unknown) /\ flight' = flight
      /\ pc = "wave" /\ pc' = "wave" /\ Types /\ Unknown \subseteq remaining
      /\ remaining' = {}
    BY CycleRefuses, ReadySteps DEF BreakCycle, Bookkeeping
<1>2. /\ NamesKept(graph)'
      /\ \A n \in Needed(graph)' : ReportedTruly(n)'
      /\ \A n \in remaining \cap Needed(graph) : n \in Recorded' /\ n \notin won'
      /\ Recorded' = Recorded \cup remaining
      /\ \A n \in Started' : DepsOf(graph, n)' \subseteq won'
      /\ \A n \in lost' \ Started' :
            \E m \in DepsOf(graph, n)' : m \notin Plan' \/ m \in lost'
    BY <1>1, RefusesRemembers
<1>3. won' = won /\ graph' = graph
    BY <1>1 DEF Refuses
<1>4. ASSUME NEW n \in Needed(graph)
      PROVE  KnownTruly(n)'
  <2>1. n \in Name /\ byName'[n] = IF n \in Unknown THEN "failed" ELSE byName[n]
      BY <1>1, NeededType DEF FailedIn
  <2>2. KnownTruly(n)
      BY <1>1 DEF Memory
  <2> QED BY <1>1, <1>2, <1>3, <2>1, <2>2 DEF KnownTruly
<1>5. DOMAIN flight' = {}
    BY <1>1 DEF Bookkeeping, Tasks, NoFlight
<1> QED BY <1>2, <1>3, <1>4, <1>5 DEF Memory

(* A step is started from a task that was scheduled.                       *)
LEMMA StartedFromSchedule ==
    ASSUME NEW n \in Name, TaskStep(n)
    PROVE  flight[n].at = "scheduled" \/ dispatches' = dispatches
BY DEF TaskStep, SkipStep, MissResources, StartStep, RaiseMalformed, AttemptSucceeds,
       AttemptFails, Dispatch, InFlight

LEMMA TaskMemory ==
    ASSUME Bookkeeping, Memory, NEW n \in Name, TaskStep(n)
    PROVE  Memory'
<1>1. OnlyTask(n) /\ dispatches'[n] = 1
    BY TaskStepIsOnlyTask
<1>2. /\ n \in DOMAIN flight /\ n \in Plan /\ Types
      /\ dispatches \in [Name -> {0, 1}] /\ dispatches' \in [Name -> {0, 1}]
    BY <1>1, PlanFacts DEF OnlyTask, Bookkeeping, Tasks, Types
<1>3. /\ Plan' = Plan /\ Recorded' = Recorded /\ Needed(graph)' = Needed(graph)
      /\ UNCHANGED << graph, remaining, byName, results >>
      /\ \A m : DepsOf(graph, m)' = DepsOf(graph, m)
    BY <1>1 DEF OnlyTask, Plan, Recorded
<1>4. /\ won \subseteq won' /\ lost \subseteq lost'
      /\ \A m : m # n => (m \in won' <=> m \in won) /\ (m \in lost' <=> m \in lost)
    BY <1>1 DEF OnlyTask
<1>5. Started \subseteq Started' /\ Started' \subseteq Started \cup {n} /\ n \in Started'
    BY <1>1, <1>2 DEF OnlyTask, Started
<1>6. ASSUME Open'
      PROVE  Open /\ n \notin Recorded /\ pc' = pc
  <2>1. pc' = pc
      BY <1>1, <1>6 DEF OnlyTask, Open
  <2>2. n \in remaining
      BY <1>2, <1>6, <2>1 DEF Bookkeeping, Tasks, Open
  <2> QED BY <1>6, <2>1, <2>2 DEF Open, Recorded
<1>7. ASSUME pc' \in {"wave", "gather"}, NEW m \in Needed(graph)
      PROVE  KnownTruly(m)'
  <2>1. Open' /\ pc' = pc /\ n \notin Recorded
      BY <1>6, <1>7 DEF Open
  <2>2. KnownTruly(m)
      BY <1>7, <2>1 DEF Memory
  <2> QED BY <1>3, <1>4, <2>1, <2>2 DEF KnownTruly
<1>8. ASSUME Open', NEW m \in Needed(graph)
      PROVE  ReportedTruly(m)'
  <2>1. n \notin Recorded /\ ReportedTruly(m)
      BY <1>6, <1>8 DEF Memory
  <2> QED BY <1>3, <1>4, <2>1 DEF ReportedTruly
<1>9. ASSUME NEW m \in DOMAIN flight'
      PROVE  /\ flight'[m].at = "done" => NameOfTask(m, flight[m].result.name)'
             /\ flight'[m].at = "scheduled" => DepsOf(graph, m) \subseteq won'
  <2>1. CASE m # n
    <3>1. m \in DOMAIN flight /\ flight'[m] = flight[m]
        BY <1>1, <1>9, <2>1 DEF OnlyTask
    <3>2. /\ flight[m].at = "done" => NameOfTask(m, flight[m].result.name)
          /\ flight[m].at = "scheduled" => DepsOf(graph, m) \subseteq won
        BY <3>1 DEF Memory
    <3> QED BY <1>3, <1>4, <3>1, <3>2 DEF NameOfTask
  <2>2. CASE m = n
    <3>1. flight'[n].at # "scheduled"
        BY <1>9, <2>2, TaskResult
    <3>2. ASSUME flight'[n].at = "done"
          PROVE  NameOfTask(n, flight'[n].result.name)
      <4>1. \/ flight'[n].result.name = n
            \/ \E b \in SUBSET Belief :
                  LET leaf == Chosen(StepOf(graph, n), b)
                  IN  leaf # NoStep /\ flight'[n].result.name = leaf.name
          BY <1>9, <2>2, <3>2, TaskResult
      <4>2. \A b \in SUBSET Belief :
               LET leaf == Chosen(StepOf(graph, n), b)
               IN  leaf = NoStep \/ leaf.name = n \/ {n, leaf.name} \cap Needed(graph) = {}
          BY <1>2 DEF Memory, NamesKept, Plan
      <4> QED BY <4>1, <4>2 DEF NameOfTask
    <3> QED BY <1>3, <2>2, <3>1, <3>2 DEF NameOfTask
  <2> QED BY <2>1, <2>2
<1>10. ASSUME NEW m \in Started'
       PROVE  DepsOf(graph, m) \subseteq won'
  <2>1. CASE m \in Started
      BY <1>4, <2>1 DEF Memory
  <2>2. CASE m \notin Started
    <3>1. m = n /\ dispatches' # dispatches
        BY <1>5, <1>10, <2>2 DEF Started
    <3>2. flight[n].at = "scheduled"
        BY <3>1, StartedFromSchedule
    <3> QED BY <1>2, <1>4, <3>1, <3>2 DEF Memory
  <2> QED BY <2>1, <2>2
<1>11. ASSUME NEW m \in lost' \ Started'
       PROVE  \E d \in DepsOf(graph, m) : d \notin Plan \/ d \in lost'
  <2>1. m \in lost \ Started
      BY <1>4, <1>5, <1>11
  <2> QED BY <1>4, <2>1 DEF Memory
<1>12. NamesKept(graph)'
    BY <1>3 DEF Memory
<1> QED BY <1>3, <1>7, <1>8, <1>9, <1>10, <1>11, <1>12 DEF Memory

LEMMA GatherMemory == Bookkeeping /\ Memory /\ GatherReturns => Memory'
<1> SUFFICES ASSUME Bookkeeping, Memory, GatherReturns
             PROVE  Memory'
    OBVIOUS
<1>1. /\ pc = "gather" /\ pc' = "wave" /\ Types
      /\ byName' = [n \in Name |-> IF n \in Finished
                                   THEN flight[n].result.status ELSE byName[n]]
      /\ remaining' = remaining \ Finished
      /\ flight' = [n \in DOMAIN flight \ Finished |-> flight[n]]
      /\ UNCHANGED << graph, won, lost, dispatches >>
    BY DEF Bookkeeping, GatherReturns, historyVars
<1>2. /\ Finished = DOMAIN flight /\ Finished \subseteq remaining /\ remaining \subseteq Plan
      /\ Range(results') = Range(results) \cup { flight[n].result : n \in Finished }
    BY <1>1, Gathered, PlanFacts
<1>3. ASSUME NEW n \in Finished
      PROVE  /\ NameOfTask(n, flight[n].result.name)
             /\ flight[n].result.status = "success" <=> n \in won
             /\ flight[n].result.status # "none"
  <2>1. /\ flight[n].at = "done" /\ flight[n].result \in NodeResult
        /\ n \in IF flight[n].result.status = "success" THEN won ELSE lost
      BY <1>3, Gathered
  <2>2. won \cap lost = {}
      BY DEF Bookkeeping, Settled
  <2>3. flight[n].result.status \in Status
      BY <2>1 DEF NodeResult
  <2>4. NameOfTask(n, flight[n].result.name)
      BY <1>2, <1>3, <2>1 DEF Memory
  <2> QED BY <2>1, <2>2, <2>3, <2>4 DEF Status
<1>4. /\ Plan' = Plan /\ Started' = Started /\ Needed(graph)' = Needed(graph)
      /\ Recorded' = Recorded \cup Finished
    BY <1>1, <1>2 DEF Plan, Started, Recorded
<1>5. ASSUME NEW n \in Needed(graph)
      PROVE  KnownTruly(n)'
  <2>1. n \in Name
      BY <1>1, NeededType
  <2>2. byName'[n] = IF n \in Finished THEN flight[n].result.status ELSE byName[n]
      BY <1>1, <2>1
  <2>3. KnownTruly(n)
      BY <1>1 DEF Memory
  <2>4. remaining' # {} => remaining # {}
      BY <1>1
  <2> QED BY <1>1, <1>3, <1>4, <2>2, <2>3, <2>4 DEF KnownTruly
<1>6. ASSUME NEW n \in Needed(graph)
      PROVE  ReportedTruly(n)'
  <2>1. ReportedTruly(n)
      BY <1>1 DEF Memory, Open
  <2>2. \A m \in Finished : flight[m].result.name = n <=> m = n
      BY <1>3 DEF NameOfTask
  <2>3. \A r \in Range(results') : r.name = n =>
           n \in Recorded' /\ (r.status = "success" <=> n \in won')
      BY <1>1, <1>2, <1>3, <1>4, <2>1, <2>2 DEF ReportedTruly
  <2>4. n \in Recorded' => \E r \in Range(results') : r.name = n
      BY <1>2, <1>4, <2>1, <2>2 DEF ReportedTruly
  <2> QED BY <2>3, <2>4 DEF ReportedTruly
<1>7. DOMAIN flight' = {}
    BY <1>1, <1>2
<1> QED BY <1>1, <1>4, <1>5, <1>6, <1>7 DEF Memory

LEMMA BeginMemory == Bookkeeping /\ Memory /\ Begin => Memory'
<1> SUFFICES ASSUME Bookkeeping, Memory, Begin
             PROVE  Memory'
    OBVIOUS
<1>1. /\ NotBegun /\ Types /\ pc' = "wave" /\ remaining' = Plan
      /\ UNCHANGED << graph, byName, results, flight, dispatches, won, lost >>
    BY DEF Begin, Bookkeeping, NotBegun, Plan, historyVars
<1>2. /\ Plan' = Plan /\ Started' = Started /\ Recorded' = {}
      /\ Range(results') = {} /\ DOMAIN flight' = {} /\ Started = {} /\ lost = {}
    BY <1>1 DEF NotBegun, Plan, Started, Recorded, Range, NoFlight
<1>3. ASSUME NEW n \in Needed(graph)
      PROVE  KnownTruly(n)' /\ ReportedTruly(n)'
  <2>1. n \in Name
      BY <1>1, NeededType
  <2>2. byName'[n] = "none"
      BY <1>1, <2>1 DEF NotBegun, NoResults
  <2> QED BY <1>2, <2>2 DEF KnownTruly, ReportedTruly
<1> QED BY <1>1, <1>2, <1>3 DEF Memory

LEMMA ResumeMemory == Bookkeeping /\ Memory /\ Resume => Memory'
<1> SUFFICES ASSUME Bookkeeping, Memory, Resume
             PROVE  Memory'
    OBVIOUS
<1>1. /\ Types /\ Checkpoint /\ pc = "idle" /\ pc' = "wave" /\ flight = NoFlight
      /\ remaining' = NamesIn(suspended.steps)
      /\ results' = suspended.results
      /\ byName' = PriorNames(suspended.results)
      /\ UNCHANGED << flight, graph, won, lost, dispatches >>
    BY DEF Bookkeeping, Resume, Tasks
<1>2. /\ remaining' = remaining /\ results' = results /\ byName' = PriorNames(results)
      /\ results \in Seq(NodeResult)
    BY <1>1 DEF Checkpoint, Types
<1>3. /\ Plan' = Plan /\ Started' = Started /\ Recorded' = Recorded
      /\ DOMAIN flight' = {}
    BY <1>1, <1>2 DEF Plan, Started, Recorded, NoFlight
<1>4. ASSUME NEW n \in Needed(graph)
      PROVE  KnownTruly(n)' /\ ReportedTruly(n)'
  <2>1. n \in Name
      BY <1>1, NeededType
  <2>2. ReportedTruly(n)
      BY <1>1 DEF Memory, Open
  <2>3. /\ byName'[n] = "none" => \A r \in Range(results) : r.name # n
        /\ byName'[n] # "none" =>
              \E r \in Range(results) : r.name = n /\ r.status = byName'[n]
      BY <1>2, <2>1, PriorSpec
  <2> QED BY <1>1, <1>2, <1>3, <2>2, <2>3 DEF KnownTruly, ReportedTruly
<1> QED BY <1>1, <1>3, <1>4 DEF Memory

LEMMA RestMemory ==
    ASSUME Bookkeeping, Memory, Suspend \/ Return \/ Interrupt \/ Observe \/ UNCHANGED vars
    PROVE  Memory'
<1>1. /\ UNCHANGED << graph, remaining, byName, flight, dispatches, won, lost >>
      /\ \/ pc' = pc /\ results' = results
         \/ pc = "wave" /\ pc' = "idle" /\ results' = results
         \/ pc = "wave" /\ pc' = "returned"
  <2>1. CASE Suspend
      BY <2>1 DEF Suspend, historyVars
  <2>2. CASE Return
      BY <2>2 DEF Return, historyVars
  <2>3. CASE Interrupt
      BY <2>3 DEF Interrupt, historyVars
  <2>4. CASE Observe
      BY <2>4 DEF Observe, historyVars
  <2>5. CASE UNCHANGED vars
      BY <2>5 DEF vars
  <2> QED BY <2>1, <2>2, <2>3, <2>4, <2>5
<1>2. /\ Plan' = Plan /\ Started' = Started /\ Recorded' = Recorded
      /\ Needed(graph)' = Needed(graph)
    BY <1>1 DEF Plan, Started, Recorded
<1>3. ASSUME pc' \in {"wave", "gather"}, NEW n \in Needed(graph)
      PROVE  KnownTruly(n)'
    BY <1>1, <1>2, <1>3 DEF Memory, KnownTruly
<1>4. ASSUME Open', NEW n \in Needed(graph)
      PROVE  ReportedTruly(n)'
    BY <1>1, <1>2, <1>4 DEF Memory, Open, ReportedTruly
<1> QED BY <1>1, <1>2, <1>3, <1>4 DEF Memory, NameOfTask

LEMMA InitMemory ==
    ASSUME \A g \in Graphs : NamesKept(g), Init
    PROVE  Memory
<1>1. /\ NamesKept(graph) /\ pc = "planning" /\ DOMAIN flight = {}
      /\ Started = {} /\ lost = {}
    BY DEF Init, NoFlight, Started
<1> QED BY <1>1 DEF Memory, Open

LEMMA NextMemory == Bookkeeping /\ Memory /\ [Next]_vars => Memory'
BY TaskMemory, WaveMemory, CycleMemory, GatherMemory, BeginMemory, ResumeMemory, RestMemory
DEF Next, LoopStep

LEMMA AlwaysRemembered ==
    ASSUME \A g \in Graphs : NamesKept(g)
    PROVE  Spec => [](Bookkeeping /\ Memory)
<1>1. Init => Bookkeeping /\ Memory
    BY InitBookkeeping, InitMemory
<1>2. Bookkeeping /\ Memory /\ [Next]_vars => Bookkeeping' /\ Memory'
    BY NextBookkeeping, NextMemory
<1> QED BY <1>1, <1>2, PTL DEF Spec

(* A step that was never handed to _dispatch_step had a dependency that is *)
(* no step of the plan or did not succeed: no step is refused that could   *)
(* have run.                                                               *)
THEOREM RefusalsHaveACause ==
    ASSUME \A g \in Graphs : NamesKept(g)
    PROVE  Spec => []RefusedForCause
<1>1. Bookkeeping /\ Memory => RefusedForCause
  <2> SUFFICES ASSUME Bookkeeping, Memory, pc = "returned",
                      NEW n \in Plan, dispatches[n] = 0
               PROVE  ~ (DepsOf(graph, n) \subseteq won)
      BY DEF RefusedForCause, Plan
  <2>1. /\ Plan \subseteq won \cup lost /\ won \cap lost = {} /\ won \subseteq Started
        /\ Started \subseteq Plan
      BY DEF Bookkeeping, Settled
  <2>2. n \notin Started
      BY DEF Started
  <2>3. PICK d \in DepsOf(graph, n) : d \notin Plan \/ d \in lost
      BY <2>1, <2>2 DEF Memory
  <2> QED BY <2>1, <2>3
<1> QED BY <1>1, AlwaysRemembered, PTL

(* A step is handed to _dispatch_step only when every step that it depends *)
(* on has succeeded, before or after however many resumes.                 *)
THEOREM DependenciesComeFirst ==
    ASSUME \A g \in Graphs : NamesKept(g)
    PROVE  Spec => []RunsAfterDependencies
<1>1. Bookkeeping /\ Memory => RunsAfterDependencies
  <2> SUFFICES ASSUME Bookkeeping, Memory, NEW n \in Plan, dispatches[n] > 0
               PROVE  DepsOf(graph, n) \subseteq won
      BY DEF RunsAfterDependencies, Plan
  <2>1. n \in Started
      BY PlanFacts DEF Started, Bookkeeping
  <2> QED BY <2>1 DEF Memory
<1> QED BY <1>1, AlwaysRemembered, PTL

-----------------------------------------------------------------------------
(* The dispatcher implements the contract: each of its steps is a step of  *)
(* DependencyContract, or leaves what the contract speaks of as it is.     *)

LEMMA ContractStart == Init => Contract!Init
BY DEF Init, Contract!Init

LEMMA TasksImplement ==
    ASSUME Bookkeeping, Memory, NEW n \in Name, TaskStep(n)
    PROVE  Contract!Next \/ UNCHANGED Contract!vars
<1>1. OnlyTask(n) /\ dispatches'[n] = 1
    BY TaskStepIsOnlyTask
<1>2. /\ n \in DOMAIN flight /\ n \in Plan /\ TaskOK(n)
      /\ graph' = graph
      /\ dispatches \in [Name -> {0, 1}] /\ dispatches' \in [Name -> {0, 1}]
    BY <1>1, PlanFacts DEF OnlyTask, Bookkeeping, Tasks, Types
<1>3. Started' = Started \cup {n}
    BY <1>1, <1>2 DEF OnlyTask, Started
<1>4. CASE Dispatch(n)
  <2>1. n \notin Started /\ n \notin lost /\ DepsOf(graph, n) \subseteq won
    <3>1. flight[n].at = "scheduled"
        BY <1>4 DEF Dispatch, InFlight
    <3>2. dispatches[n] = 0 /\ n \notin lost
        BY <1>2, <3>1 DEF TaskOK
    <3> QED BY <1>2, <3>1, <3>2 DEF Memory, Started
  <2>2. won' = won /\ lost' \in {lost, lost \cup {n}}
    <3>1. ~ AttemptSucceeds(n) /\ ~ AttemptFails(n)
        BY <1>4 DEF Dispatch, InFlight, AttemptSucceeds, AttemptFails
    <3> QED BY <3>1 DEF TaskStep, SkipStep, MissResources, StartStep, RaiseMalformed, Done
  <2>3. Contract!Start(n)
      BY <1>2, <1>3, <2>1, <2>2
      DEF Contract!Start, Contract!Startable, Contract!Waiting, Contract!Steps, Started, Plan
  <2> QED BY <1>2, <2>3 DEF Contract!Next, Contract!Steps, Plan
<1>5. ASSUME InFlight(n, "attempt"), dispatches' = dispatches
      PROVE  n \in Started /\ n \notin won \cup lost /\ Started' = Started
  <2>1. flight[n].at = "attempt"
      BY <1>5 DEF InFlight
  <2>2. dispatches[n] = 1 /\ n \notin won \cup lost
      BY <1>2, <2>1 DEF TaskOK
  <2> QED BY <1>3, <1>5, <2>2 DEF Started
<1>6. CASE AttemptSucceeds(n)
  <2>1. n \in Started \ (won \cup lost) /\ Started' = Started
        /\ won' = won \cup {n} /\ lost' = lost
      BY <1>5, <1>6 DEF AttemptSucceeds, Done
  <2>2. Contract!Win(n)
      BY <1>2, <2>1 DEF Contract!Win, Started
  <2> QED BY <1>2, <2>2 DEF Contract!Next, Contract!Steps, Plan
<1>7. CASE AttemptFails(n)
  <2>1. n \in Started \ (won \cup lost) /\ Started' = Started
        /\ won' = won /\ lost' \in {lost, lost \cup {n}}
      BY <1>5, <1>7 DEF AttemptFails, Done
  <2>2. CASE lost' = lost
      BY <1>2, <2>1, <2>2 DEF Contract!vars, Started
  <2>3. CASE lost' = lost \cup {n}
    <3>1. Contract!Lose(n)
        BY <1>2, <2>1, <2>3 DEF Contract!Lose, Started
    <3> QED BY <1>2, <3>1 DEF Contract!Next, Contract!Steps, Plan
  <2> QED BY <2>1, <2>2, <2>3
<1> QED BY <1>4, <1>6, <1>7
        DEF TaskStep, SkipStep, MissResources, StartStep, RaiseMalformed

(* What is refused at once has no hope: not one of it can ever start.      *)
LEMMA RefusalsImplement ==
    ASSUME Bookkeeping, Memory, pc = "wave", NEW H, Refuses(H)
    PROVE  Contract!Next
<1>1. /\ H \subseteq remaining /\ remaining \subseteq Plan /\ lost' = lost \cup H
      /\ UNCHANGED << graph, won, dispatches >>
      /\ \A n \in H : \E d \in DepsOf(graph, n) : d \notin Plan \/ d \in lost \cup H
    BY PlanFacts DEF Refuses, Bookkeeping
<1>2. \A n \in remaining : dispatches[n] = 0 /\ n \notin lost
  <2>1. DOMAIN flight = {}
      BY DEF Bookkeeping, Tasks, NoFlight
  <2> QED BY <2>1 DEF Bookkeeping, Settled
<1>3. H \in SUBSET Contract!Waiting
    BY <1>1, <1>2 DEF Contract!Waiting, Contract!Steps, Plan
<1>4. \A n \in H : [m \in NamesIn(graph) |-> DepsOf(graph, m)][n] = DepsOf(graph, n)
    BY <1>1 DEF Plan
<1>5. H \subseteq Contract!Hopeless
    BY <1>1, <1>3, <1>4 DEF Contract!Hopeless, Contract!Steps, Plan
<1>6. Contract!Refuse
    BY <1>1, <1>5 DEF Contract!Refuse
<1> QED BY <1>6 DEF Contract!Next

LEMMA StepsImplement ==
    Bookkeeping /\ Memory /\ [Next]_vars => [Contract!Next]_(Contract!vars)
<1> SUFFICES ASSUME Bookkeeping, Memory, [Next]_vars
             PROVE  Contract!Next \/ UNCHANGED Contract!vars
    OBVIOUS
<1>1. CASE \E n \in Name : TaskStep(n)
    BY <1>1, TasksImplement
<1>2. CASE NextWave
  <2>1. \E H : Refuses(H)
      BY <1>2, WaveRefuses
  <2> QED BY <1>2, <2>1, RefusalsImplement DEF NextWave
<1>3. CASE BreakCycle
    BY <1>3, CycleRefuses, RefusalsImplement DEF BreakCycle
<1>4. CASE Begin \/ Suspend \/ GatherReturns \/ Return \/ Resume \/ Interrupt \/ Observe
           \/ UNCHANGED vars
  <2>1. UNCHANGED << graph, dispatches, won, lost >>
      BY <1>4
      DEF Begin, Suspend, GatherReturns, Return, Resume, Interrupt, Observe, vars, historyVars
  <2> QED BY <2>1 DEF Contract!vars
<1> QED BY <1>1, <1>2, <1>3, <1>4 DEF Next, LoopStep

(* Waves, gathers, cycles and checkpoints do what the contract promises: a *)
(* step starts once, only when all that it depends on has succeeded, and   *)
(* is refused only when it can never start.                                *)
THEOREM WavesImplementTheContract ==
    ASSUME \A g \in Graphs : NamesKept(g)
    PROVE  Spec => ImplementsContract
<1>1. Init => Contract!Init
    BY ContractStart
<1>2. Bookkeeping /\ Memory /\ [Next]_vars => [Contract!Next]_(Contract!vars)
    BY StepsImplement
<1> QED BY <1>1, <1>2, AlwaysRemembered, PTL DEF Spec, ImplementsContract, Contract!Spec

=============================================================================
