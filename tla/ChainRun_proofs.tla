--------------------------- MODULE ChainRun_proofs ---------------------------
(***************************************************************************)
(* Proofs about ChainRun, for every set of tasks, jobs, names, beliefs and *)
(* resources and every set of plans.                                       *)
(***************************************************************************)
EXTENDS ChainRun, TLAPS

-----------------------------------------------------------------------------
(* Lemmas about steps and results.                                         *)

(* Every plan a job can have is a sequence of steps.                       *)
LEMMA PlanType ==
    ASSUME NEW p \in Plans \cup {EmptyPlan}
    PROVE  /\ p.steps \in Seq(Step)
           /\ p.stop \in BOOLEAN
           /\ Len(p.steps) \in Nat
           /\ \A k \in 1..Len(p.steps) : p.steps[k] \in Step
<1>1. CASE p \in Plans
    BY <1>1, PlansAssumption
<1>2. CASE p = EmptyPlan
    BY <1>2 DEF EmptyPlan
<1> QED BY <1>1, <1>2

(* What is executed for a step is that step, or a branch of it, and is     *)
(* named as one of the step's names.                                       *)
LEMMA ChosenType ==
    ASSUME NEW step \in Step, NEW b
    PROVE  /\ step.name \in Name
           /\ step.name \in NamesOf(step)
           /\ Chosen(step, b) \in Leaf \cup {NoStep}
           /\ Chosen(step, b) # NoStep => Chosen(step, b).name \in NamesOf(step)
<1>1. CASE step \in Leaf
  <2>1. step.kind = "leaf" /\ step.name \in Name
      BY <1>1 DEF Leaf
  <2>2. Chosen(step, b) = step /\ NamesOf(step) = {step.name}
      BY <2>1 DEF Chosen, NamesOf
  <2> QED BY <1>1, <2>1, <2>2
<1>2. CASE step \in Conditional
  <2>1. /\ step.kind = "conditional"
        /\ step.name \in Name
        /\ step.ifTrue \in Leaf \cup {NoStep}
        /\ step.ifFalse \in Leaf \cup {NoStep}
      BY <1>2 DEF Conditional
  <2>2. Chosen(step, b) \in {step.ifTrue, step.ifFalse}
      BY <2>1 DEF Chosen, Branch
  <2>3. NamesOf(step) = {step.name} \cup
          { leaf.name : leaf \in {step.ifTrue, step.ifFalse} \ {NoStep} }
      BY <2>1 DEF NamesOf
  <2> QED BY <2>1, <2>2, <2>3
<1> QED BY <1>1, <1>2 DEF Step

(* The constructor of results makes results.                               *)
LEMMA ResultType ==
    ASSUME NEW i \in Nat \ {0}, NEW n \in Name, NEW s \in Status,
           NEW a \in Nat \ {0}
    PROVE  /\ Result(i, n, s, a) \in StepResult
           /\ Result(i, n, s, a).number = i
           /\ Result(i, n, s, a).name = n
           /\ Result(i, n, s, a).status = s
BY DEF Result, StepResult

(* Append and concatenation, element by element.                           *)
LEMMA AppendElements ==
    ASSUME NEW S, NEW s \in Seq(S), NEW e \in S
    PROVE  /\ Append(s, e) \in Seq(S)
           /\ Len(Append(s, e)) = Len(s) + 1
           /\ DOMAIN Append(s, e) = 1..(Len(s) + 1)
           /\ \A k \in 1..Len(s) : Append(s, e)[k] = s[k]
           /\ Append(s, e)[Len(s) + 1] = e
OBVIOUS

LEMMA InsertElements ==
    ASSUME NEW S, NEW s \in Seq(S), NEW e \in S, NEW q \in Seq(S),
           NEW m, m = Len(s) + 1 + Len(q)
    PROVE  LET rs == s \o << e >> \o q
           IN  /\ rs \in Seq(S)
               /\ Len(rs) = m
               /\ DOMAIN rs = 1..m
               /\ \A k \in 1..Len(s) : rs[k] = s[k]
               /\ rs[Len(s) + 1] = e
               /\ \A k \in (Len(s) + 2)..m : rs[k] = q[k - (Len(s) + 1)]
OBVIOUS

-----------------------------------------------------------------------------
(* A call that has just got the result of the step it stands at.           *)
Ready(c, result, p, r) ==
    /\ c.base = c.from
    /\ Len(c.results) = c.base + c.offset
    /\ Len(c.results) < Len(p.steps)
    /\ Len(r) = Len(c.results) + 1
    /\ \A k \in DOMAIN c.results : /\ c.results[k].number = k
                                   /\ c.results[k].name \in NamesOf(p.steps[k])
    /\ p.stop => \A k \in DOMAIN c.results : c.results[k].status = "success"
    /\ result.number = Number(c)
    /\ result.name \in NamesOf(p.steps[Position(c)])

(* What the rest of a plan is reported as.                                 *)
LEMMA SkippedRestType ==
    ASSUME NEW c, NEW n \in Nat, Position(c) = n + 1, Number(c) = n + 1,
           plan[c.job] \in Plans \cup {EmptyPlan},
           n < Len(plan[c.job].steps)
    PROVE  /\ SkippedRest(c) \in Seq(StepResult)
           /\ Len(SkippedRest(c)) = Len(plan[c.job].steps) - (n + 1)
           /\ \A k \in 1..(Len(plan[c.job].steps) - (n + 1)) :
                 /\ SkippedRest(c)[k].number = n + 1 + k
                 /\ SkippedRest(c)[k].name \in
                        NamesOf(plan[c.job].steps[n + 1 + k])
<1> DEFINE steps == plan[c.job].steps
           N == Len(steps)
           q == SkippedRest(c)
<1>1. N \in Nat /\ N - (n + 1) \in Nat /\ \A k \in 1..N : steps[k] \in Step
    BY PlanType
<1>2. q = [k \in 1..(N - (n + 1)) |->
              Result(n + 1 + k, steps[n + 1 + k].name, "skipped", 1)]
    BY DEF SkippedRest, StepName
<1> HIDE DEF steps, N, q
<1>3. ASSUME NEW k \in 1..(N - (n + 1))
      PROVE  /\ q[k] \in StepResult
             /\ q[k].number = n + 1 + k
             /\ q[k].name \in NamesOf(steps[n + 1 + k])
  <2>1. n + 1 + k \in 1..N /\ n + 1 + k \in Nat \ {0}
      BY <1>1
  <2>2. /\ steps[n + 1 + k].name \in Name
        /\ steps[n + 1 + k].name \in NamesOf(steps[n + 1 + k])
      BY <2>1, <1>1, ChosenType
  <2>3. q[k] = Result(n + 1 + k, steps[n + 1 + k].name, "skipped", 1)
      BY <1>2
  <2> QED BY <2>1, <2>2, <2>3, ResultType DEF Status
<1>4. q \in Seq(StepResult) /\ Len(q) = N - (n + 1)
    BY <1>1, <1>2, <1>3
<1> QED BY <1>3, <1>4 DEF q, N, steps

(* Recording the result of the step a call stands at keeps the call in     *)
(* order: this is the body of the loop of _run_chain, the early end of     *)
(* stop_on_failure included.                                               *)
LEMMA RecordKeepsOrder ==
    ASSUME NEW c \in CallType, c.job \in Job, NEW result \in StepResult,
           NEW p \in Plans \cup {EmptyPlan}, p = plan[c.job],
           NEW r,
           Ready(c, result, p, r)
    PROVE  /\ Record(c, result) \in CallType
           /\ Record(c, result).pc = "loop"
           /\ Record(c, result).job = c.job
           /\ CallOK(Record(c, result), p, r, "running")
<1> DEFINE n == Len(c.results)
           N == Len(p.steps)
           d == Record(c, result)
<1>1. /\ n \in Nat /\ N \in Nat /\ p.stop \in BOOLEAN
      /\ c.results \in Seq(StepResult)
      /\ DOMAIN c.results = 1..n
      /\ c.from \in Nat /\ c.base \in Nat /\ c.offset \in Nat
    BY PlanType DEF CallType
<1>2. /\ Position(c) = n + 1 /\ Number(c) = n + 1
      /\ c.base = c.from /\ n = c.base + c.offset /\ n < N
      /\ Len(r) = n + 1
    BY <1>1 DEF Position, Number, Ready
<1>6. /\ n \in Nat /\ N \in Nat /\ n < N /\ n = c.base + c.offset /\ c.base = c.from
      /\ c.from \in Nat /\ c.base \in Nat /\ c.offset \in Nat
    BY <1>1, <1>2
<1>3. ASSUME NEW rs \in Seq(StepResult), NEW offset \in Nat,
             d = AtLoop(c, offset, rs),
             Len(rs) = c.base + offset, Len(rs) <= N,
             LedgerOK(rs, p, r),
             \/ Len(r) = Len(rs)
             \/ p.stop /\ \E k \in DOMAIN rs : rs[k].status # "success"
      PROVE  /\ d \in CallType
             /\ d.pc = "loop"
             /\ d.job = c.job
             /\ CallOK(d, p, r, "running")
  <2>1. /\ d.pc = "loop" /\ d.job = c.job /\ d.from = c.from /\ d.base = c.base
        /\ d.offset = offset /\ d.results = rs
      BY <1>3 DEF AtLoop
  <2>2. d \in CallType
      BY <1>1, <1>3 DEF AtLoop, CallType
  <2> HIDE DEF d, N
  <2> QED BY <2>1, <2>2, <1>2, <1>3 DEF CallOK, N
<1>4. CASE ~ (Stops(c) /\ result.status # "success")
  <2> DEFINE rs == Append(c.results, result)
  <2>1. d = AtLoop(c, c.offset + 1, rs)
      BY <1>4 DEF Record
  <2>2. /\ rs \in Seq(StepResult) /\ Len(rs) = n + 1 /\ DOMAIN rs = 1..(n + 1)
        /\ \A k \in 1..n : rs[k] = c.results[k]
        /\ rs[n + 1] = result
      BY <1>1, AppendElements
  <2> HIDE DEF rs, d, n, N
  <2>3. ASSUME NEW k \in 1..(n + 1)
        PROVE  /\ rs[k].number = k
               /\ rs[k].name \in NamesOf(p.steps[k])
               /\ p.stop => rs[k].status = "success"
    <3>1. CASE k \in 1..n
        BY <3>1, <2>2, <1>1 DEF Ready
    <3>2. CASE k = n + 1
        BY <3>2, <2>2, <1>2, <1>4 DEF Ready, Stops
    <3> QED BY <3>1, <3>2, <1>1
  <2>4. LedgerOK(rs, p, r)
      BY <2>2, <2>3 DEF LedgerOK
  <2>5. c.offset + 1 \in Nat /\ Len(rs) = c.base + (c.offset + 1) /\ Len(rs) <= N
    <3>1. Len(rs) = n + 1
        BY <2>2
    <3> QED BY <3>1, <1>6
  <2> QED BY <1>3, <2>1, <2>2, <2>4, <2>5, <1>2 DEF d
<1>5. CASE Stops(c) /\ result.status # "success"
  <2> DEFINE q  == SkippedRest(c)
             rs == c.results \o << result >> \o q
  <2>1. d = AtLoop(c, N - c.from, rs)
      BY <1>5 DEF Record
  <2>2. /\ q \in Seq(StepResult)
        /\ Len(q) = N - (n + 1)
        /\ \A k \in 1..(N - (n + 1)) :
              /\ q[k].number = n + 1 + k
              /\ q[k].name \in NamesOf(p.steps[n + 1 + k])
      BY SkippedRestType, <1>1, <1>2
  <2>3. /\ n + 1 + Len(q) = N /\ N - c.from \in Nat
        /\ N = c.base + (N - c.from)
    <3>1. Len(q) = N - (n + 1)
        BY <2>2
    <3> HIDE DEF q, n, N
    <3> QED BY <3>1, <1>6
  <2>4. /\ rs \in Seq(StepResult) /\ Len(rs) = N /\ DOMAIN rs = 1..N
        /\ \A k \in 1..n : rs[k] = c.results[k]
        /\ rs[n + 1] = result
        /\ \A k \in (n + 2)..N : rs[k] = q[k - (n + 1)]
    <3>1. q \in Seq(StepResult) /\ N = Len(c.results) + 1 + Len(q)
        BY <2>2, <2>3
    <3>2. c.results \in Seq(StepResult)
        BY <1>1
    <3> HIDE DEF q, N
    <3> QED BY <3>1, <3>2, InsertElements
  <2> HIDE DEF rs, q, d, n, N
  <2>5. ASSUME NEW k \in 1..N
        PROVE  /\ rs[k].number = k
               /\ rs[k].name \in NamesOf(p.steps[k])
               /\ rs[k].status # "success" => Len(r) <= k
    <3>1. CASE k \in 1..n
        BY <3>1, <2>4, <1>1, <1>5 DEF Ready, Stops
    <3>2. CASE k = n + 1
        BY <3>2, <2>4, <1>1, <1>2 DEF Ready
    <3>3. CASE k \in (n + 2)..N
      <4>1. k - (n + 1) \in 1..(N - (n + 1)) /\ n + 1 + (k - (n + 1)) = k
          BY <3>3, <1>1
      <4>2. rs[k].number = k /\ rs[k].name \in NamesOf(p.steps[k])
          BY <4>1, <2>2, <2>4, <3>3
      <4> QED BY <4>2, <3>3, <1>1, <1>2
    <3> QED BY <3>1, <3>2, <3>3, <1>1
  <2>6. \E k \in DOMAIN rs : rs[k].status # "success"
    <3>1. n + 1 \in DOMAIN rs
        BY <2>4, <1>1, <1>2
    <3> QED BY <3>1, <2>4, <1>5
  <2>7. LedgerOK(rs, p, r)
      BY <2>4, <2>5 DEF LedgerOK, N
  <2>8. p.stop
      BY <1>5 DEF Stops
  <2>9. N - c.from \in Nat /\ Len(rs) = c.base + (N - c.from) /\ Len(rs) <= N
    <3>1. Len(rs) = N
        BY <2>4
    <3> QED BY <3>1, <2>3, <1>6
  <2> QED BY <1>3, <2>1, <2>4, <2>6, <2>7, <2>8, <2>9 DEF d
<1> QED BY <1>4, <1>5

-----------------------------------------------------------------------------
(* What the invariant says of the call a task is in.                       *)
LEMMA HeldFacts ==
    ASSUME Inductive, NEW t \in Task, call[t].pc # "idle"
    PROVE  /\ call[t] \in CallType
           /\ call[t].job \in Job
           /\ plan[call[t].job] \in Plans \cup {EmptyPlan}
           /\ reached[call[t].job] \in Seq(Nat)
           /\ CallOK(call[t], plan[call[t].job], reached[call[t].job], "running")
           /\ verdict[call[t].job] = "running"
           /\ \A u \in Held \ {t} : call[u].job # call[t].job
           /\ suspended # NoCheckpoint => suspended.job # call[t].job
           /\ \A k \in DOMAIN reached[call[t].job] : reached[call[t].job][k] = k
<1>1. t \in Held
    BY DEF Held
<1>2. TypeOK /\ OneOwner /\ Progress /\ StepsInOrder
    BY DEF Inductive
<1>3. call[t] \in CallType /\ call[t].job \in Job
    BY <1>1, <1>2 DEF TypeOK
<1>4. /\ plan[call[t].job] \in Plans \cup {EmptyPlan}
      /\ reached[call[t].job] \in Seq(Nat)
    BY <1>2, <1>3 DEF TypeOK
<1>5. CallOK(call[t], plan[call[t].job], reached[call[t].job], verdict[call[t].job])
    BY <1>1, <1>2 DEF Progress
<1>6. verdict[call[t].job] = "running"
    BY <1>5 DEF CallOK
<1>7. /\ \A u \in Held \ {t} : call[u].job # call[t].job
      /\ suspended # NoCheckpoint => suspended.job # call[t].job
    BY <1>1, <1>2 DEF OneOwner
<1>8. \A k \in DOMAIN reached[call[t].job] : reached[call[t].job][k] = k
    BY <1>2, <1>3 DEF StepsInOrder
<1> QED BY <1>3, <1>4, <1>5, <1>6, <1>7, <1>8

(* The parts of TypeOK that are not about the calls.                       *)
Rest ==
    /\ requested \in BOOLEAN
    /\ suspended \in CheckpointType \cup {NoCheckpoint}
    /\ plan \in [Job -> Plans \cup {EmptyPlan}]
    /\ data \in [Job -> SUBSET Name]
    /\ reached \in [Job -> Seq(Nat)]
    /\ verdict \in [Job -> {"new", "running", "success", "failure",
                            "interrupted", "raised", "cancelled"}]
    /\ aimedAt \subseteq Job
    /\ believed \subseteq Belief
    /\ stock \in [Resource -> 0..MaxStock]

LEMMA RestHolds == ASSUME Inductive PROVE Rest
BY DEF Inductive, TypeOK, Rest

(* One call of one job changes: it is enough to look at that job.          *)
LEMMA OneJobChanges ==
    ASSUME Inductive, Rest', NEW t \in Task, NEW j \in Job, NEW d \in CallType,
           call' = [call EXCEPT ![t] = d],
           \A u \in Held \ {t} : call[u].job # j,
           \A i \in Job \ {j} : /\ plan'[i] = plan[i]
                                /\ reached'[i] = reached[i]
                                /\ verdict'[i] = verdict[i],
           d.pc # "idle" => /\ d.job = j
                            /\ CallOK(d, plan'[j], reached'[j], verdict'[j]),
           \/ suspended' = NoCheckpoint
           \/ suspended' = suspended /\ suspended.job # j
           \/ /\ d.pc = "idle"
              /\ suspended'.job = j
              /\ SlotOK(suspended', plan'[j], reached'[j], verdict'[j]),
           Len(reached'[j]) <= Len(plan'[j].steps),
           verdict'[j] = "new" => plan'[j] = EmptyPlan,
           \A k \in DOMAIN reached'[j] : reached'[j][k] = k
    PROVE  Inductive'
<1>1. TypeOK /\ OneOwner /\ Progress /\ StepsInOrder
    BY DEF Inductive
<1>2. call \in [Task -> CallType] /\ \A u \in Held : call[u].job \in Job
    BY <1>1 DEF TypeOK
<1>3. call'[t] = d /\ \A u \in Task \ {t} : call'[u] = call[u]
    BY <1>2
<1>4. call' \in [Task -> CallType]
    BY <1>2
<1>5. \A u \in Held' : \/ u = t /\ d.pc # "idle" /\ call'[u].job = j
                       \/ u \in Held \ {t} /\ call'[u] = call[u] /\ call[u].job \in Job \ {j}
    BY <1>2, <1>3 DEF Held
<1>6. suspended # NoCheckpoint => suspended.job \in Job
    BY <1>1 DEF TypeOK, CheckpointType
<1>7. OneOwner'
  <2>1. \A u, v \in Held' : u # v => call'[u].job # call'[v].job
      BY <1>1, <1>5 DEF OneOwner
  <2>2. suspended' # NoCheckpoint => \A u \in Held' : call'[u].job # suspended'.job
      BY <1>1, <1>5 DEF OneOwner
  <2> QED BY <2>1, <2>2 DEF OneOwner
<1>8. Progress'
  <2>1. ASSUME NEW u \in Held'
        PROVE  CallOK(call'[u], plan'[call'[u].job], reached'[call'[u].job],
                      verdict'[call'[u].job])
    <3>1. CASE u = t /\ d.pc # "idle"
        BY <3>1, <1>3
    <3>2. CASE u \in Held \ {t} /\ call'[u] = call[u] /\ call[u].job \in Job \ {j}
      <4>1. CallOK(call[u], plan[call[u].job], reached[call[u].job],
                   verdict[call[u].job])
          BY <3>2, <1>1 DEF Progress
      <4> QED BY <3>2, <4>1
    <3> QED BY <3>1, <3>2, <1>5
  <2>2. ASSUME suspended' # NoCheckpoint
        PROVE  SlotOK(suspended', plan'[suspended'.job], reached'[suspended'.job],
                      verdict'[suspended'.job])
    <3>1. CASE suspended' = suspended /\ suspended.job # j
      <4>1. suspended.job \in Job \ {j}
          BY <2>2, <3>1, <1>6
      <4>2. SlotOK(suspended, plan[suspended.job], reached[suspended.job],
                   verdict[suspended.job])
          BY <2>2, <3>1, <1>1 DEF Progress
      <4> QED BY <3>1, <4>1, <4>2
    <3> QED BY <2>2, <3>1
  <2>3. ASSUME NEW i \in Job
        PROVE  /\ Len(reached'[i]) <= Len(plan'[i].steps)
               /\ verdict'[i] = "new" => plan'[i] = EmptyPlan
    <3>1. CASE i = j
        BY <3>1
    <3>2. CASE i # j
        BY <3>2, <1>1 DEF Progress
    <3> QED BY <3>1, <3>2
  <2> QED BY <2>1, <2>2, <2>3 DEF Progress
<1>9. StepsInOrder'
    BY <1>1 DEF StepsInOrder
<1>10. TypeOK'
    BY <1>4, <1>5 DEF TypeOK, Rest
<1> QED BY <1>7, <1>8, <1>9, <1>10 DEF Inductive

(* A call in the loop that is not at its end is about to reach the step    *)
(* after the last one reached, and can take a result for it.               *)
LEMMA ReachFacts ==
    ASSUME Inductive, NEW t \in Task, call[t].pc = "loop", ~ AtEnd(call[t])
    PROVE  LET c == call[t]
               p == plan[c.job]
               r == reached[c.job]
               a == Append(r, Position(c))
           IN  /\ Number(c) = Position(c)
               /\ Number(c) \in Nat \ {0}
               /\ Len(c.results) = Len(r)
               /\ c.from + c.offset = Len(r)
               /\ Position(c) = Len(r) + 1
               /\ Len(r) < Len(p.steps)
               /\ Current(c) = p.steps[Position(c)]
               /\ Current(c) \in Step
               /\ p.stop => \A k \in DOMAIN c.results : c.results[k].status = "success"
               /\ a \in Seq(Nat)
               /\ Len(a) = Len(r) + 1
               /\ \A k \in DOMAIN a : a[k] = k
               /\ \A result \in StepResult :
                     result.number = Number(c) /\ result.name \in NamesOf(Current(c))
                     => Ready(c, result, p, a)
<1> DEFINE c == call[t]
           p == plan[c.job]
           r == reached[c.job]
           a == Append(r, Position(c))
<1>1. /\ c \in CallType /\ p \in Plans \cup {EmptyPlan} /\ r \in Seq(Nat)
      /\ CallOK(c, p, r, "running")
      /\ \A k \in DOMAIN r : r[k] = k
    BY HeldFacts
<1>2. /\ c.from \in Nat /\ c.base \in Nat /\ c.offset \in Nat
      /\ c.results \in Seq(StepResult) /\ Len(p.steps) \in Nat
      /\ \A k \in 1..Len(p.steps) : p.steps[k] \in Step
      /\ Len(r) \in Nat /\ Len(c.results) \in Nat
    BY <1>1, PlanType DEF CallType
<1>3. /\ c.base = c.from
      /\ Len(c.results) = c.base + c.offset
      /\ LedgerOK(c.results, p, r)
      /\ \/ Len(r) = Len(c.results)
         \/ p.stop /\ \E k \in DOMAIN c.results : c.results[k].status # "success"
    BY <1>1 DEF CallOK
<1>4. c.from + c.offset < Len(p.steps) /\ Current(c) = p.steps[Position(c)]
    BY <1>2 DEF AtEnd, Position, Current
<1>5. /\ p.stop => \A k \in DOMAIN c.results : c.results[k].status = "success"
      /\ Len(r) = Len(c.results)
    BY <1>2, <1>3, <1>4 DEF LedgerOK
<1>6. /\ Position(c) = Len(r) + 1 /\ Number(c) = Len(r) + 1
      /\ c.from + c.offset = Len(r) /\ Len(r) < Len(p.steps)
      /\ Position(c) \in 1..Len(p.steps)
    BY <1>2, <1>3, <1>4, <1>5 DEF Position, Number
<1> HIDE DEF c, p
<1>7. /\ a \in Seq(Nat) /\ Len(a) = Len(r) + 1
      /\ \A k \in DOMAIN a : a[k] = k
  <2> HIDE DEF r
  <2>1. Position(c) \in Nat
      BY <1>2, <1>6
  <2>2. /\ a \in Seq(Nat) /\ Len(a) = Len(r) + 1 /\ DOMAIN a = 1..(Len(r) + 1)
        /\ \A k \in 1..Len(r) : a[k] = r[k]
        /\ a[Len(r) + 1] = Position(c)
      BY <2>1, <1>1, AppendElements
  <2> HIDE DEF a
  <2>3. ASSUME NEW k \in 1..(Len(r) + 1)
        PROVE  a[k] = k
    <3>1. CASE k \in 1..Len(r)
      <4>1. k \in DOMAIN r
          BY <3>1, <1>1
      <4> QED BY <3>1, <4>1, <2>2, <1>1
    <3>2. CASE k = Len(r) + 1
        BY <3>2, <2>2, <1>6
    <3> QED BY <3>1, <3>2, <1>2
  <2> QED BY <2>2, <2>3
<1> HIDE DEF a, r
<1>8. ASSUME NEW result \in StepResult, result.number = Number(c),
             result.name \in NamesOf(Current(c))
      PROVE  Ready(c, result, p, a)
    BY <1>8, <1>3, <1>4, <1>5, <1>6, <1>7 DEF Ready, LedgerOK
<1>9. Current(c) \in Step /\ Number(c) \in Nat \ {0} /\ Number(c) = Position(c)
    BY <1>2, <1>4, <1>6
<1> QED BY <1>4, <1>5, <1>6, <1>7, <1>8, <1>9 DEF c, p, r, a

(* A call with an attempt in flight has reached its step already.          *)
LEMMA AttemptFacts ==
    ASSUME Inductive, NEW t \in Task, call[t].pc = "attempt"
    PROVE  LET c == call[t]
               p == plan[c.job]
               r == reached[c.job]
           IN  /\ Number(c) \in Nat \ {0}
               /\ c.attempt \in Nat \ {0}
               /\ c.step \in Leaf
               /\ c.step.name \in Name
               /\ Len(r) <= Len(p.steps)
               /\ \A result \in StepResult :
                     result.number = Number(c) /\ result.name = c.step.name
                     => Ready(c, result, p, r)
<1> DEFINE c == call[t]
           p == plan[c.job]
           r == reached[c.job]
<1>1. /\ c \in CallType /\ p \in Plans \cup {EmptyPlan} /\ r \in Seq(Nat)
      /\ CallOK(c, p, r, "running")
    BY HeldFacts
<1>2. /\ c.from \in Nat /\ c.base \in Nat /\ c.offset \in Nat /\ c.attempt \in Nat
      /\ c.results \in Seq(StepResult) /\ Len(p.steps) \in Nat
      /\ Len(r) \in Nat /\ Len(c.results) \in Nat
    BY <1>1, PlanType DEF CallType
<1>3. /\ c.base = c.from
      /\ Len(c.results) = c.base + c.offset
      /\ LedgerOK(c.results, p, r)
      /\ Len(c.results) < Len(p.steps)
      /\ Len(r) = Len(c.results) + 1
      /\ c.attempt > 0
      /\ c.step \in Leaf
      /\ c.step.name \in NamesOf(p.steps[Len(r)])
    BY <1>1 DEF CallOK
<1>4. Position(c) = Len(r) /\ Number(c) = Len(r) /\ Len(r) \in Nat \ {0}
    BY <1>2, <1>3 DEF Position, Number
<1>5. p.stop => \A k \in DOMAIN c.results : c.results[k].status = "success"
    BY <1>2, <1>3 DEF LedgerOK
<1> HIDE DEF c, p, r
<1>6. c.step.name \in Name
    BY <1>3 DEF Leaf
<1>7. c.attempt \in Nat \ {0} /\ Len(r) <= Len(p.steps)
    BY <1>2, <1>3
<1>8. ASSUME NEW result \in StepResult, result.number = Number(c),
             result.name = c.step.name
      PROVE  Ready(c, result, p, r)
    BY <1>8, <1>3, <1>4, <1>5 DEF Ready, LedgerOK
<1> QED BY <1>3, <1>4, <1>6, <1>7, <1>8 DEF c, p, r

-----------------------------------------------------------------------------
(* The inductive invariant, one lemma per action.                          *)

LEMMA IdleCallType ==
    ASSUME NEW j \in Job \cup {NoJob}, NEW pc \in {"idle", "planning", "loop"}
    PROVE  NewCall(j, pc) \in CallType
BY DEF NewCall, CallType

LEMMA RunStep ==
    ASSUME Inductive, NEW t \in Task, NEW j \in Job, Run(t, j)
    PROVE  Inductive'
<1> DEFINE d == NewCall(j, "planning")
<1>1. /\ verdict[j] = "new" /\ call' = [call EXCEPT ![t] = d]
      /\ verdict' = [verdict EXCEPT ![j] = "running"]
      /\ suspended' = suspended /\ plan' = plan /\ reached' = reached
      /\ requested' = requested /\ data' = data /\ aimedAt' = aimedAt
      /\ believed' = believed /\ stock' = stock
    BY DEF Run, envVars
<1>2. Rest
    BY RestHolds
<1>3. Rest' /\ verdict'[j] = "running" /\ \A i \in Job \ {j} : verdict'[i] = verdict[i]
    BY <1>1, <1>2 DEF Rest
<1>4. d \in CallType /\ d.pc = "planning" /\ d.job = j
    BY IdleCallType DEF NewCall
<1>5. /\ reached[j] \in Seq(Nat) /\ Len(reached[j]) = 0 /\ plan[j] = EmptyPlan
      /\ \A k \in DOMAIN reached[j] : reached[j][k] = k
  <2>1. Progress /\ StepsInOrder
      BY DEF Inductive
  <2>2. plan[j] = EmptyPlan /\ Len(reached[j]) <= Len(plan[j].steps)
      BY <1>1, <2>1 DEF Progress
  <2>3. Len(EmptyPlan.steps) = 0
      BY DEF EmptyPlan
  <2>4. reached[j] \in Seq(Nat)
      BY <1>2 DEF Rest
  <2> QED BY <2>1, <2>2, <2>3, <2>4 DEF StepsInOrder
<1>6. CallOK(d, plan[j], reached[j], "running")
  <2>1. Len(plan[j].steps) = 0
      BY <1>5 DEF EmptyPlan
  <2>2. /\ d.from = 0 /\ d.base = 0 /\ d.offset = 0 /\ d.results = << >>
      BY DEF NewCall
  <2>3. reached[j] = << >>
      BY <1>5
  <2>4. LedgerOK(<< >>, plan[j], reached[j])
      BY DEF LedgerOK
  <2> HIDE DEF d
  <2> QED BY <1>4, <1>5, <2>1, <2>2, <2>3, <2>4 DEF CallOK
<1>7. \A u \in Held \ {t} : call[u].job # j
    BY <1>1, HeldFacts DEF Held
<1>8. suspended # NoCheckpoint => suspended.job # j
    BY <1>1 DEF Inductive, Progress, SlotOK
<1>9. Len(reached[j]) <= Len(plan[j].steps)
    BY DEF Inductive, Progress
<1> HIDE DEF d
<1>10. \A i \in Job \ {j} : /\ plan'[i] = plan[i]
                            /\ reached'[i] = reached[i]
                            /\ verdict'[i] = verdict[i]
    BY <1>1, <1>3
<1>11. CallOK(d, plan'[j], reached'[j], verdict'[j])
    BY <1>1, <1>3, <1>6
<1>12. suspended' = NoCheckpoint \/ (suspended' = suspended /\ suspended.job # j)
    BY <1>1, <1>8
<1>13. /\ Len(reached'[j]) <= Len(plan'[j].steps)
       /\ \A k \in DOMAIN reached'[j] : reached'[j][k] = k
       /\ verdict'[j] # "new"
    BY <1>1, <1>3, <1>5, <1>9
<1> QED BY <1>1, <1>3, <1>4, <1>7, <1>10, <1>11, <1>12, <1>13, OneJobChanges

(* The case of OneJobChanges in which the job is the one the task holds    *)
(* and the slot is left alone.                                             *)
LEMMA HeldMoves ==
    ASSUME Inductive, Rest', NEW t \in Task, call[t].pc # "idle",
           NEW d \in CallType, NEW j, j = call[t].job,
           call' = [call EXCEPT ![t] = d],
           suspended' = suspended,
           \A i \in Job \ {j} : /\ plan'[i] = plan[i]
                                /\ reached'[i] = reached[i]
                                /\ verdict'[i] = verdict[i],
           d.pc # "idle" => /\ d.job = j
                            /\ CallOK(d, plan'[j], reached'[j], verdict'[j]),
           Len(reached'[j]) <= Len(plan'[j].steps),
           verdict'[j] # "new",
           \A k \in DOMAIN reached'[j] : reached'[j][k] = k
    PROVE  Inductive'
<1>1. /\ j \in Job
      /\ \A u \in Held \ {t} : call[u].job # j
      /\ suspended # NoCheckpoint => suspended.job # j
    BY HeldFacts
<1>2. suspended' = NoCheckpoint \/ (suspended' = suspended /\ suspended.job # j)
    BY <1>1
<1> QED BY <1>1, <1>2, OneJobChanges

LEMMA EngineTickStep ==
    ASSUME Inductive, NEW t \in Task, EngineTick(t)
    PROVE  Inductive'
<1> DEFINE c == call[t]
           j == c.job
           d == NewCall(j, "loop")
<1>1. PICK p \in Plans \cup {EmptyPlan} : plan' = [plan EXCEPT ![j] = p]
    BY DEF EngineTick
<1>2. /\ c.pc = "planning" /\ call' = [call EXCEPT ![t] = d]
      /\ suspended' = suspended /\ reached' = reached /\ verdict' = verdict
      /\ requested' = requested /\ data' = data /\ aimedAt' = aimedAt
      /\ believed' = believed /\ stock' = stock
    BY DEF EngineTick, envVars
<1>3. /\ j \in Job /\ reached[j] \in Seq(Nat) /\ verdict[j] = "running"
      /\ CallOK(c, plan[j], reached[j], "running")
      /\ \A k \in DOMAIN reached[j] : reached[j][k] = k
    BY <1>2, HeldFacts
<1>4. Rest /\ Rest' /\ plan'[j] = p /\ \A i \in Job \ {j} : plan'[i] = plan[i]
    BY <1>1, <1>2, <1>3, RestHolds DEF Rest
<1>5. reached[j] = << >> /\ Len(p.steps) \in Nat
    BY <1>2, <1>3, PlanType DEF CallOK
<1>6. d \in CallType /\ d.pc = "loop" /\ d.job = j
    BY <1>3, IdleCallType DEF NewCall
<1>7. CallOK(d, p, reached[j], "running")
  <2>1. /\ d.from = 0 /\ d.base = 0 /\ d.offset = 0 /\ d.results = << >>
      BY DEF NewCall
  <2>2. LedgerOK(<< >>, p, reached[j])
      BY DEF LedgerOK
  <2> HIDE DEF d
  <2> QED BY <1>5, <1>6, <2>1, <2>2 DEF CallOK
<1> HIDE DEF d, c
<1>8. CallOK(d, plan'[j], reached'[j], verdict'[j])
    BY <1>2, <1>3, <1>4, <1>7
<1>9. Len(reached'[j]) <= Len(plan'[j].steps) /\ verdict'[j] # "new"
    BY <1>2, <1>3, <1>4, <1>5
<1> USE DEF c
<1> QED BY <1>2, <1>3, <1>4, <1>6, <1>8, <1>9, HeldMoves

LEMMA SuspendStep ==
    ASSUME Inductive, NEW t \in Task, Suspend(t)
    PROVE  Inductive'
<1> DEFINE c == call[t]
           j == c.job
           p == plan[j]
           r == reached[j]
           s == Checkpoint(c)
<1>1. /\ c.pc = "loop" /\ ~ AtEnd(c) /\ call' = [call EXCEPT ![t] = IdleCall]
      /\ requested' \in BOOLEAN /\ suspended' = s
      /\ verdict' = [verdict EXCEPT ![j] = "interrupted"]
      /\ plan' = plan /\ reached' = reached /\ data' = data
      /\ aimedAt' = aimedAt /\ believed' = believed /\ stock' = stock
    BY DEF Suspend, envVars, FlagAfterSuspend
<1>2. /\ c \in CallType /\ j \in Job /\ CallOK(c, p, r, "running")
      /\ \A u \in Held \ {t} : call[u].job # j
      /\ \A k \in DOMAIN r : r[k] = k
    BY <1>1, HeldFacts
<1>3. /\ Len(c.results) = Len(r) /\ c.from + c.offset = Len(r)
      /\ Len(r) < Len(p.steps)
    BY <1>1, ReachFacts
<1>4. s = [job |-> j, from |-> c.from + c.offset, results |-> c.results]
    BY DEF Checkpoint
<1>5. /\ c.from \in Nat /\ c.offset \in Nat /\ c.results \in Seq(StepResult)
    BY <1>2 DEF CallType
<1>6. s \in CheckpointType /\ s.job = j
    BY <1>2, <1>4, <1>5 DEF CheckpointType
<1>7. SlotOK(s, p, r, "interrupted")
    BY <1>2, <1>3, <1>4 DEF SlotOK, CallOK
<1>8. IdleCall \in CallType /\ IdleCall.pc = "idle"
    BY IdleCallType DEF IdleCall, NewCall
<1>9. /\ Rest /\ Rest' /\ verdict'[j] = "interrupted"
      /\ \A i \in Job \ {j} : verdict'[i] = verdict[i]
  <2> HIDE DEF s, c
  <2> QED BY <1>1, <1>2, <1>6, RestHolds DEF Rest
<1>10. Len(r) <= Len(p.steps)
    BY <1>2 DEF Inductive, Progress
<1> HIDE DEF s, c
<1>11. SlotOK(suspended', plan'[j], reached'[j], verdict'[j]) /\ suspended'.job = j
    BY <1>1, <1>6, <1>7, <1>9
<1>12. /\ Len(reached'[j]) <= Len(plan'[j].steps) /\ verdict'[j] # "new"
       /\ \A k \in DOMAIN reached'[j] : reached'[j][k] = k
    BY <1>1, <1>2, <1>9, <1>10
<1>13. \A i \in Job \ {j} : /\ plan'[i] = plan[i]
                            /\ reached'[i] = reached[i]
                            /\ verdict'[i] = verdict[i]
    BY <1>1, <1>9
<1> QED BY <1>1, <1>2, <1>8, <1>9, <1>11, <1>12, <1>13, OneJobChanges

(* A call that ends with its plan neither suspended nor extended.          *)
LEMMA CallEnds ==
    ASSUME Inductive, NEW t \in Task, call[t].pc # "idle",
           call' = [call EXCEPT ![t] = IdleCall],
           NEW v \in {"success", "failure", "raised", "cancelled"},
           verdict' = [verdict EXCEPT ![call[t].job] = v],
           UNCHANGED << requested, suspended, plan, data, reached, envVars >>
    PROVE  Inductive'
<1> DEFINE j == call[t].job
<1>1. /\ j \in Job /\ \A k \in DOMAIN reached[j] : reached[j][k] = k
      /\ Len(reached[j]) <= Len(plan[j].steps)
    BY HeldFacts DEF Inductive, Progress
<1>2. Rest' /\ verdict'[j] = v /\ \A i \in Job \ {j} : verdict'[i] = verdict[i]
    BY <1>1, RestHolds DEF Rest, envVars
<1>3. IdleCall \in CallType /\ IdleCall.pc = "idle"
    BY IdleCallType DEF IdleCall, NewCall
<1> QED BY <1>1, <1>2, <1>3, HeldMoves

LEMMA FinishStep ==
    ASSUME Inductive, NEW t \in Task, Finish(t)
    PROVE  Inductive'
BY CallEnds DEF Finish

LEMMA CancelStep ==
    ASSUME Inductive, NEW t \in Task, Cancel(t)
    PROVE  Inductive'
BY CallEnds DEF Cancel

LEMMA ResumeStep ==
    ASSUME Inductive, NEW t \in Task, Resume(t)
    PROVE  Inductive'
<1> DEFINE s == suspended
           j == s.job
           p == plan[j]
           r == reached[j]
           d == [pc |-> "loop", job |-> j, from |-> s.from,
                 base |-> Len(s.results), offset |-> 0, results |-> s.results,
                 step |-> NoStep, attempt |-> 0]
<1>1. /\ s # NoCheckpoint /\ call' = [call EXCEPT ![t] = d]
      /\ call[t].pc = "idle" /\ suspended' = NoCheckpoint
      /\ verdict' = [verdict EXCEPT ![j] = "running"]
      /\ plan' = plan /\ reached' = reached /\ data' = data
      /\ requested' = requested /\ aimedAt' = aimedAt
      /\ believed' = believed /\ stock' = stock
    BY DEF Resume, envVars, SlotAfterResume
<1>2. Rest /\ OneOwner /\ Progress /\ StepsInOrder
    BY RestHolds DEF Inductive
<1>3. /\ s \in [job : Job, from : Nat, results : Seq(StepResult)] /\ j \in Job
    BY <1>1, <1>2 DEF Rest, CheckpointType
<1>4. /\ SlotOK(s, p, r, "interrupted")
      /\ \A u \in Held \ {t} : call[u].job # j
      /\ Len(r) <= Len(p.steps)
      /\ \A k \in DOMAIN r : r[k] = k
    BY <1>1, <1>2, <1>3 DEF Progress, OneOwner, StepsInOrder, SlotOK
<1>5. Len(s.results) \in Nat /\ Len(p.steps) \in Nat
    BY <1>2, <1>3, PlanType DEF Rest
<1>6. d \in CallType /\ d.pc = "loop" /\ d.job = j
  <2> HIDE DEF s
  <2> QED BY <1>3, <1>5 DEF CallType
<1>7. CallOK(d, p, r, "running")
  <2>1. /\ d.base = Len(s.results) /\ d.from = s.from /\ d.offset = 0
        /\ d.results = s.results /\ d.pc = "loop"
      OBVIOUS
  <2>2. /\ LedgerOK(s.results, p, r) /\ s.from = Len(s.results)
        /\ Len(s.results) < Len(p.steps) /\ Len(r) = Len(s.results)
      BY <1>4 DEF SlotOK
  <2> HIDE DEF d, s, p, r
  <2> QED BY <1>5, <2>1, <2>2 DEF CallOK
<1> HIDE DEF d, s
<1>8. /\ Rest' /\ verdict'[j] = "running"
      /\ \A i \in Job \ {j} : verdict'[i] = verdict[i]
    BY <1>1, <1>2, <1>3 DEF Rest
<1>9. \A i \in Job \ {j} : /\ plan'[i] = plan[i]
                           /\ reached'[i] = reached[i]
                           /\ verdict'[i] = verdict[i]
    BY <1>1, <1>8
<1>10. CallOK(d, plan'[j], reached'[j], verdict'[j])
    BY <1>1, <1>7, <1>8
<1>11. /\ Len(reached'[j]) <= Len(plan'[j].steps) /\ verdict'[j] # "new"
       /\ \A k \in DOMAIN reached'[j] : reached'[j][k] = k
    BY <1>1, <1>4, <1>8
<1> QED BY <1>1, <1>3, <1>4, <1>6, <1>8, <1>9, <1>10, <1>11, OneJobChanges

(* Interrupt, Observe and Restock leave the calls, the slot and the plans. *)
LEMMA EnvironmentStep ==
    ASSUME Inductive, Rest',
           UNCHANGED << suspended, call, plan, reached, verdict >>
    PROVE  Inductive'
<1>1. TypeOK'
    BY DEF Inductive, TypeOK, Rest, Held
<1>2. OneOwner' /\ Progress' /\ StepsInOrder'
    BY DEF Inductive, OneOwner, Progress, StepsInOrder, Held
<1> QED BY <1>1, <1>2 DEF Inductive

(* What reaching a step does to the job of the call.                       *)
LEMMA ReachEffect ==
    ASSUME Inductive, NEW t \in Task, Reach(t), NEW j, j = call[t].job
    PROVE  LET a == Append(reached[j], Position(call[t]))
           IN  /\ j \in Job
               /\ reached' = [reached EXCEPT ![j] = a]
               /\ reached'[j] = a
               /\ \A i \in Job \ {j} : reached'[i] = reached[i]
               /\ reached' \in [Job -> Seq(Nat)]
               /\ \A k \in DOMAIN reached'[j] : reached'[j][k] = k
               /\ Len(reached'[j]) <= Len(plan[j].steps)
<1> DEFINE a == Append(reached[j], Position(call[t]))
<1>1. reached' = [reached EXCEPT ![j] = a]
    BY DEF Reach
<1>2. /\ j \in Job /\ reached \in [Job -> Seq(Nat)] /\ Len(plan[j].steps) \in Nat
      /\ Len(reached[j]) \in Nat
  <2>1. call[t].pc = "loop"
      BY DEF Reach
  <2> QED BY <2>1, HeldFacts, RestHolds, PlanType DEF Rest
<1>3. /\ a \in Seq(Nat) /\ Len(a) = Len(reached[j]) + 1
      /\ \A k \in DOMAIN a : a[k] = k
      /\ Len(reached[j]) < Len(plan[j].steps)
    BY ReachFacts DEF Reach
<1> HIDE DEF a
<1>4. Len(a) <= Len(plan[j].steps)
    BY <1>2, <1>3
<1> QED BY <1>1, <1>2, <1>3, <1>4 DEF a

(* A step that is reached and gets its result at once.                     *)
LEMMA ReachAndRecord ==
    ASSUME Inductive, NEW t \in Task, Reach(t), UNCHANGED verdict,
           NEW result \in StepResult, result.number = Number(call[t]),
           result.name \in NamesOf(Current(call[t])),
           call' = [call EXCEPT ![t] = Record(call[t], result)]
    PROVE  Inductive'
<1> DEFINE c == call[t]
           j == c.job
           p == plan[j]
           d == Record(c, result)
           a == Append(reached[j], Position(c))
<1>1. /\ c.pc = "loop" /\ suspended' = suspended /\ plan' = plan
      /\ verdict' = verdict /\ requested' = requested /\ data' = data
      /\ aimedAt' = aimedAt /\ believed' = believed /\ stock' = stock
    BY DEF Reach, envVars
<1>2. /\ c \in CallType /\ j \in Job /\ p \in Plans \cup {EmptyPlan}
      /\ verdict[j] = "running"
    BY <1>1, HeldFacts
<1>3. Ready(c, result, p, a)
    BY ReachFacts DEF Reach
<1>4. /\ d \in CallType /\ d.pc = "loop" /\ d.job = j
      /\ CallOK(d, p, a, "running")
    BY <1>2, <1>3, RecordKeepsOrder
<1>5. /\ reached'[j] = a /\ \A i \in Job \ {j} : reached'[i] = reached[i]
      /\ reached' \in [Job -> Seq(Nat)]
      /\ \A k \in DOMAIN reached'[j] : reached'[j][k] = k
      /\ Len(reached'[j]) <= Len(p.steps)
    BY ReachEffect
<1> HIDE DEF d, a
<1>6. Rest'
    BY <1>1, <1>5, RestHolds DEF Rest
<1>7. /\ CallOK(d, plan'[j], reached'[j], verdict'[j])
      /\ Len(reached'[j]) <= Len(plan'[j].steps) /\ verdict'[j] # "new"
    BY <1>1, <1>2, <1>4, <1>5
<1> QED BY <1>1, <1>4, <1>5, <1>6, <1>7, HeldMoves DEF d

LEMMA SkipStepStep ==
    ASSUME Inductive, NEW t \in Task, SkipStep(t)
    PROVE  Inductive'
<1> DEFINE result == Result(Number(call[t]), Current(call[t]).name, "skipped", 1)
<1>1. /\ Reach(t) /\ UNCHANGED verdict
      /\ call' = [call EXCEPT ![t] = Record(call[t], result)]
    BY DEF SkipStep
<1>2. Current(call[t]) \in Step /\ Number(call[t]) \in Nat \ {0}
    BY <1>1, ReachFacts DEF Reach
<1>3. /\ result \in StepResult /\ result.number = Number(call[t])
      /\ result.name \in NamesOf(Current(call[t]))
    BY <1>2, ChosenType, ResultType DEF Status
<1> HIDE DEF result
<1> QED BY <1>1, <1>3, ReachAndRecord

LEMMA MissResourcesStep ==
    ASSUME Inductive, NEW t \in Task, MissResources(t)
    PROVE  Inductive'
<1> DEFINE leaf == Chosen(Current(call[t]), believed)
           result == Result(Number(call[t]), leaf.name, "failed", 1)
<1>1. /\ Reach(t) /\ UNCHANGED verdict /\ leaf # NoStep
      /\ call' = [call EXCEPT ![t] = Record(call[t], result)]
    BY DEF MissResources
<1>2. Current(call[t]) \in Step /\ Number(call[t]) \in Nat \ {0}
    BY <1>1, ReachFacts DEF Reach
<1>3. leaf \in Leaf /\ leaf.name \in NamesOf(Current(call[t]))
    BY <1>1, <1>2, ChosenType
<1>4. leaf.name \in Name
    BY <1>3 DEF Leaf
<1> HIDE DEF leaf
<1>5. /\ result \in StepResult /\ result.number = Number(call[t])
      /\ result.name \in NamesOf(Current(call[t]))
    BY <1>2, <1>3, <1>4, ResultType DEF Status
<1> HIDE DEF result
<1> QED BY <1>1, <1>5, ReachAndRecord

LEMMA StartStepStep ==
    ASSUME Inductive, NEW t \in Task, StartStep(t)
    PROVE  Inductive'
<1> DEFINE c == call[t]
           j == c.job
           p == plan[j]
           r == reached[j]
           a == Append(r, Position(c))
           leaf == Chosen(Current(c), believed)
           d == AtAttempt(c, leaf, 1)
<1>1. /\ Reach(t) /\ leaf # NoStep /\ call' = [call EXCEPT ![t] = d]
      /\ c.pc = "loop" /\ suspended' = suspended /\ plan' = plan
      /\ verdict' = verdict /\ requested' = requested /\ data' = data
      /\ aimedAt' = aimedAt /\ believed' = believed /\ stock' = stock
    BY DEF StartStep, Reach, envVars
<1>2. /\ c \in CallType /\ j \in Job /\ p \in Plans \cup {EmptyPlan}
      /\ verdict[j] = "running" /\ CallOK(c, p, r, "running")
    BY <1>1, HeldFacts
<1>3. /\ Len(c.results) = Len(r) /\ c.from + c.offset = Len(r)
      /\ Position(c) = Len(r) + 1 /\ Len(r) < Len(p.steps)
      /\ Current(c) = p.steps[Position(c)] /\ Current(c) \in Step
      /\ Len(a) = Len(r) + 1
      /\ p.stop => \A k \in DOMAIN c.results : c.results[k].status = "success"
    BY <1>1, ReachFacts DEF Reach
<1>4. leaf \in Leaf /\ leaf.name \in NamesOf(Current(c))
    BY <1>1, <1>3, ChosenType
<1>5. /\ d.pc = "attempt" /\ d.job = j /\ d.from = c.from /\ d.base = c.base
      /\ d.offset = c.offset /\ d.results = c.results /\ d.step = leaf
      /\ d.attempt = 1
    BY DEF AtAttempt
<1>6. d \in CallType
  <2> HIDE DEF leaf
  <2> QED BY <1>2, <1>4 DEF AtAttempt, CallType
<1>7. /\ reached'[j] = a /\ \A i \in Job \ {j} : reached'[i] = reached[i]
      /\ reached' \in [Job -> Seq(Nat)]
      /\ \A k \in DOMAIN reached'[j] : reached'[j][k] = k
      /\ Len(reached'[j]) <= Len(p.steps)
    BY <1>1, ReachEffect
<1> HIDE DEF d, a, leaf, r, p
<1>8. CallOK(d, p, a, "running")
  <2>1. /\ c.base = c.from /\ Len(c.results) = c.base + c.offset
        /\ LedgerOK(c.results, p, r)
      BY <1>2 DEF CallOK
  <2>2. LedgerOK(c.results, p, a)
      BY <2>1, <1>3 DEF LedgerOK
  <2>3. leaf.name \in NamesOf(p.steps[Len(a)])
      BY <1>3, <1>4
  <2> HIDE DEF c, j
  <2> QED BY <2>1, <2>2, <2>3, <1>3, <1>4, <1>5 DEF CallOK
<1>9. Rest'
    BY <1>1, <1>7, RestHolds DEF Rest
<1>10. /\ CallOK(d, plan'[j], reached'[j], verdict'[j])
       /\ Len(reached'[j]) <= Len(plan'[j].steps) /\ verdict'[j] # "new"
    BY <1>1, <1>2, <1>7, <1>8 DEF p
<1> QED BY <1>1, <1>5, <1>6, <1>7, <1>9, <1>10, HeldMoves

LEMMA RaiseMalformedStep ==
    ASSUME Inductive, NEW t \in Task, RaiseMalformed(t)
    PROVE  Inductive'
<1> DEFINE j == call[t].job
<1>1. /\ Reach(t) /\ call[t].pc = "loop"
      /\ call' = [call EXCEPT ![t] = IdleCall]
      /\ verdict' = [verdict EXCEPT ![j] = "raised"]
      /\ suspended' = suspended /\ plan' = plan
      /\ requested' = requested /\ data' = data
      /\ aimedAt' = aimedAt /\ believed' = believed /\ stock' = stock
    BY DEF RaiseMalformed, Reach, envVars
<1>2. /\ j \in Job /\ \A i \in Job \ {j} : reached'[i] = reached[i]
      /\ reached' \in [Job -> Seq(Nat)]
      /\ \A k \in DOMAIN reached'[j] : reached'[j][k] = k
      /\ Len(reached'[j]) <= Len(plan[j].steps)
    BY <1>1, ReachEffect
<1>3. /\ Rest' /\ verdict'[j] = "raised"
      /\ \A i \in Job \ {j} : verdict'[i] = verdict[i]
    BY <1>1, <1>2, RestHolds DEF Rest
<1>4. IdleCall \in CallType /\ IdleCall.pc = "idle"
    BY IdleCallType DEF IdleCall, NewCall
<1>5. Len(reached'[j]) <= Len(plan'[j].steps) /\ verdict'[j] # "new"
    BY <1>1, <1>2, <1>3
<1> QED BY <1>1, <1>2, <1>3, <1>4, <1>5, HeldMoves

(* An attempt that ends with a result of the step, or with another attempt. *)
LEMMA AttemptMoves ==
    ASSUME Inductive, Rest', NEW t \in Task, call[t].pc = "attempt",
           NEW d \in CallType, d.pc # "idle", d.job = call[t].job,
           CallOK(d, plan[d.job], reached[d.job], "running"),
           call' = [call EXCEPT ![t] = d],
           UNCHANGED << suspended, plan, reached, verdict >>
    PROVE  Inductive'
<1> DEFINE j == call[t].job
<1>1. /\ j \in Job /\ verdict[j] = "running"
      /\ \A k \in DOMAIN reached[j] : reached[j][k] = k
      /\ Len(reached[j]) <= Len(plan[j].steps)
    BY HeldFacts DEF Inductive, Progress
<1> QED BY <1>1, HeldMoves

LEMMA AttemptRecorded ==
    ASSUME Inductive, NEW t \in Task, call[t].pc = "attempt",
           NEW s \in {"success", "failed"}
    PROVE  LET c == call[t]
               d == Record(c, Result(Number(c), c.step.name, s, c.attempt))
           IN  /\ d \in CallType
               /\ d.pc = "loop"
               /\ d.job = c.job
               /\ CallOK(d, plan[c.job], reached[c.job], "running")
<1> DEFINE c == call[t]
           p == plan[c.job]
           r == reached[c.job]
           result == Result(Number(c), c.step.name, s, c.attempt)
<1>1. /\ c \in CallType /\ c.job \in Job /\ p \in Plans \cup {EmptyPlan}
    BY HeldFacts
<1>2. /\ Number(c) \in Nat \ {0} /\ c.attempt \in Nat \ {0} /\ c.step.name \in Name
    BY AttemptFacts
<1>3. /\ result \in StepResult /\ result.number = Number(c)
      /\ result.name = c.step.name
  <2> HIDE DEF c
  <2> QED BY <1>2, ResultType DEF Status
<1> HIDE DEF result
<1>4. Ready(c, result, p, r)
    BY <1>3, AttemptFacts
<1> QED BY <1>1, <1>3, <1>4, RecordKeepsOrder DEF result

LEMMA AttemptSucceedsStep ==
    ASSUME Inductive, NEW t \in Task, AttemptSucceeds(t)
    PROVE  Inductive'
<1> DEFINE c == call[t]
           d == Record(c, Result(Number(c), c.step.name, "success", c.attempt))
<1>1. /\ c.pc = "attempt" /\ call' = [call EXCEPT ![t] = d]
      /\ data' = [data EXCEPT ![c.job] = @ \cup {c.step.name}]
      /\ UNCHANGED << requested, suspended, plan, reached, verdict, envVars >>
    BY DEF AttemptSucceeds, DataKey
<1>2. /\ d \in CallType /\ d.pc = "loop" /\ d.job = c.job
      /\ CallOK(d, plan[c.job], reached[c.job], "running")
    BY <1>1, AttemptRecorded
<1>3. c.step.name \in Name
    BY <1>1, AttemptFacts
<1>4. Rest'
    BY <1>1, <1>3, RestHolds DEF Rest, envVars
<1> HIDE DEF d
<1> QED BY <1>1, <1>2, <1>4, AttemptMoves

LEMMA AttemptFailsStep ==
    ASSUME Inductive, NEW t \in Task, AttemptFails(t)
    PROVE  Inductive'
<1> DEFINE c == call[t]
           p == plan[c.job]
           r == reached[c.job]
           n == c.attempt + 1
           d == AtAttempt(c, c.step, n)
           e == Record(c, Result(Number(c), c.step.name, "failed", c.attempt))
<1>1. /\ c.pc = "attempt" /\ call' = [call EXCEPT ![t] = AfterFailure(c)]
      /\ UNCHANGED << requested, suspended, plan, data, reached, verdict, envVars >>
    BY DEF AttemptFails
<1>2. Rest'
    BY <1>1, RestHolds DEF Rest, envVars
<1>3. CASE c.attempt < MaxAttempts(c.step)
  <2>1. AfterFailure(c) = d
      BY <1>3 DEF AfterFailure
  <2>2. c \in CallType /\ CallOK(c, p, r, "running")
      BY <1>1, HeldFacts
  <2>3. c.attempt \in Nat \ {0} /\ c.step \in Leaf
      BY <1>1, AttemptFacts
  <2>4. n \in Nat /\ n > 0
      BY <2>3
  <2> HIDE DEF n, c
  <2>5. d \in CallType
      BY <2>2, <2>3, <2>4 DEF CallType, AtAttempt
  <2>6. /\ d.pc = "attempt" /\ d.job = c.job /\ d.from = c.from /\ d.base = c.base
        /\ d.offset = c.offset /\ d.results = c.results /\ d.step = c.step
        /\ d.attempt = n
      BY DEF AtAttempt
  <2> HIDE DEF d, p, r
  <2>7. CallOK(d, p, r, "running")
      BY <1>1, <2>2, <2>4, <2>6 DEF CallOK
  <2> QED BY <1>1, <1>2, <2>1, <2>5, <2>6, <2>7, AttemptMoves DEF c, p, r
<1>4. CASE ~ (c.attempt < MaxAttempts(c.step))
  <2>1. AfterFailure(c) = e
      BY <1>4 DEF AfterFailure
  <2>2. /\ e \in CallType /\ e.pc = "loop" /\ e.job = c.job
        /\ CallOK(e, p, r, "running")
      BY <1>1, AttemptRecorded
  <2> HIDE DEF e
  <2> QED BY <1>1, <1>2, <2>1, <2>2, AttemptMoves
<1> QED BY <1>3, <1>4

LEMMA InitInductive == Init => Inductive
<1> SUFFICES ASSUME Init
             PROVE  Inductive
    OBVIOUS
<1>1. IdleCall \in CallType /\ IdleCall.pc = "idle"
    BY IdleCallType DEF IdleCall, NewCall
<1>2. Held = {}
    BY <1>1 DEF Init, Held
<1>3. TypeOK
  <2>1. reached \in [Job -> Seq(Nat)] /\ plan \in [Job -> Plans \cup {EmptyPlan}]
    <3>1. << >> \in Seq(Nat)
        OBVIOUS
    <3> QED BY <3>1 DEF Init
  <2>2. call \in [Task -> CallType]
      BY <1>1 DEF Init
  <2>3. data \in [Job -> SUBSET Name] /\ suspended = NoCheckpoint
      BY DEF Init
  <2> QED BY <1>2, <2>1, <2>2, <2>3 DEF Init, TypeOK
<1>4. OneOwner /\ StepsInOrder
    BY <1>2 DEF Init, OneOwner, StepsInOrder
<1>5. Progress
    BY <1>2 DEF Init, Progress, EmptyPlan
<1> QED BY <1>3, <1>4, <1>5 DEF Inductive

LEMMA NextInductive == Inductive /\ [Next]_vars => Inductive'
<1> SUFFICES ASSUME Inductive, [Next]_vars
             PROVE  Inductive'
    OBVIOUS
<1>1. ASSUME NEW t \in Task, NEW j \in Job, Run(t, j) PROVE Inductive'
    BY <1>1, RunStep
<1>2. ASSUME NEW t \in Task, TaskStep(t) PROVE Inductive'
    BY <1>2, EngineTickStep, SuspendStep, SkipStepStep, MissResourcesStep,
       StartStepStep, RaiseMalformedStep, AttemptSucceedsStep, AttemptFailsStep,
       FinishStep DEF TaskStep
<1>3. ASSUME NEW t \in Task, Cancel(t) PROVE Inductive'
    BY <1>3, CancelStep
<1>4. ASSUME NEW t \in Task, Resume(t) PROVE Inductive'
    BY <1>4, ResumeStep
<1>5. CASE Interrupt
  <2>1. Rest'
      BY <1>5, RestHolds DEF Interrupt, Rest
  <2> QED BY <2>1, <1>5, EnvironmentStep DEF Interrupt
<1>6. CASE Observe
  <2>1. Rest'
      BY <1>6, RestHolds DEF Observe, Rest, osVars
  <2> QED BY <2>1, <1>6, EnvironmentStep DEF Observe, osVars
<1>7. CASE Restock
  <2>1. Rest'
      BY <1>7, RestHolds DEF Restock, Rest, osVars
  <2> QED BY <2>1, <1>7, EnvironmentStep DEF Restock, osVars
<1>8. CASE UNCHANGED vars
  <2>1. Rest'
      BY <1>8, RestHolds DEF Rest, vars
  <2> QED BY <2>1, <1>8, EnvironmentStep DEF vars
<1> QED BY <1>1, <1>2, <1>3, <1>4, <1>5, <1>6, <1>7, <1>8 DEF Next

(* Where every plan stands, in every reachable state.                      *)
THEOREM InductiveHolds == Spec => []Inductive
BY InitInductive, NextInductive, PTL DEF Spec

(* Type correctness of the chain runner.                                   *)
THEOREM TypeCorrect == Spec => []TypeOK
<1>1. Inductive => TypeOK
    BY DEF Inductive
<1> QED BY <1>1, InductiveHolds, PTL

(* A plan is in one place: one call, or the checkpoint slot.               *)
THEOREM PlanHasOneOwner == Spec => []OneOwner
<1>1. Inductive => OneOwner
    BY DEF Inductive
<1> QED BY <1>1, InductiveHolds, PTL

(* Across any interrupts, resumes and concurrent calls, the steps of a     *)
(* plan are dispatched in order and none twice.                            *)
THEOREM StepsDispatchedInOrder == Spec => []StepsInOrder
<1>1. Inductive => StepsInOrder
    BY DEF Inductive
<1> QED BY <1>1, InductiveHolds, PTL

(* Every results list that exists agrees with its plan.                    *)
LEMMA LedgersInOrder ==
    ASSUME Inductive, NEW l \in Ledgers
    PROVE  LedgerOK(l.results, plan[l.job], reached[l.job])
<1>1. CASE \E t \in Held : l = [job |-> call[t].job, results |-> call[t].results]
  <2>1. PICK t \in Held : l = [job |-> call[t].job, results |-> call[t].results]
      BY <1>1
  <2>2. CallOK(call[t], plan[call[t].job], reached[call[t].job],
               verdict[call[t].job])
      BY <2>1 DEF Inductive, Progress
  <2> QED BY <2>1, <2>2 DEF CallOK
<1>2. CASE /\ suspended # NoCheckpoint
           /\ l = [job |-> suspended.job, results |-> suspended.results]
  <2>1. SlotOK(suspended, plan[suspended.job], reached[suspended.job],
               verdict[suspended.job])
      BY <1>2 DEF Inductive, Progress
  <2> QED BY <1>2, <2>1 DEF SlotOK
<1> QED BY <1>1, <1>2 DEF Ledgers

(* A result is numbered and named as its step in the original plan.        *)
THEOREM ResultsNumberedFaithfully == Spec => []NumbersFaithful
<1>1. Inductive => NumbersFaithful
  <2> SUFFICES ASSUME Inductive, NEW l \in Ledgers
               PROVE  \A k \in DOMAIN l.results :
                          /\ l.results[k].number = k
                          /\ l.results[k].name \in NamesOf(plan[l.job].steps[k])
      BY DEF NumbersFaithful
  <2>1. LedgerOK(l.results, plan[l.job], reached[l.job])
      BY LedgersInOrder
  <2> QED BY <2>1 DEF LedgerOK
<1> QED BY <1>1, InductiveHolds, PTL

(* stop_on_failure lets no later step run, whoever resumes the plan.       *)
THEOREM NothingRunsAfterStop == Spec => []StopMeansStop
<1>1. Inductive => StopMeansStop
  <2> SUFFICES ASSUME Inductive, NEW l \in Ledgers, plan[l.job].stop
               PROVE  \A k \in DOMAIN l.results :
                          l.results[k].status # "success"
                              => Len(reached[l.job]) <= k
      BY DEF StopMeansStop
  <2>1. LedgerOK(l.results, plan[l.job], reached[l.job])
      BY LedgersInOrder
  <2> QED BY <2>1 DEF LedgerOK
<1> QED BY <1>1, InductiveHolds, PTL

-----------------------------------------------------------------------------
(* Outputs and success.                                                    *)

(* One more result adds its name to what was earned iff it is a success.   *)
LEMMA EarnedAppend ==
    ASSUME NEW rs \in Seq(StepResult), NEW e \in StepResult
    PROVE  Earned(Append(rs, e)) =
               Earned(rs) \cup (IF e.status = "success" THEN {e.name} ELSE {})
<1> DEFINE a == Append(rs, e)
           n == Len(rs)
<1>1. /\ n \in Nat /\ DOMAIN rs = 1..n /\ DOMAIN a = 1..(n + 1)
      /\ \A k \in 1..n : a[k] = rs[k]
      /\ a[n + 1] = e
    BY AppendElements
<1> HIDE DEF a, n
<1>2. ASSUME NEW x
      PROVE  (\E k \in 1..(n + 1) : a[k].status = "success" /\ a[k].name = x)
             <=> \/ \E k \in 1..n : rs[k].status = "success" /\ rs[k].name = x
                 \/ e.status = "success" /\ e.name = x
  <2>1. ASSUME NEW k \in 1..(n + 1), a[k].status = "success", a[k].name = x
        PROVE  \/ \E i \in 1..n : rs[i].status = "success" /\ rs[i].name = x
               \/ e.status = "success" /\ e.name = x
    <3>1. k \in 1..n \/ k = n + 1
        BY <1>1
    <3> QED BY <3>1, <2>1, <1>1
  <2>2. ASSUME NEW k \in 1..n, rs[k].status = "success", rs[k].name = x
        PROVE  \E i \in 1..(n + 1) : a[i].status = "success" /\ a[i].name = x
    <3>1. k \in 1..(n + 1)
        BY <1>1
    <3> QED BY <3>1, <2>2, <1>1
  <2>3. ASSUME e.status = "success", e.name = x
        PROVE  \E i \in 1..(n + 1) : a[i].status = "success" /\ a[i].name = x
    <3>1. n + 1 \in 1..(n + 1)
        BY <1>1
    <3> QED BY <3>1, <2>3, <1>1
  <2> QED BY <2>1, <2>2, <2>3
<1>3. \A x : x \in Earned(a) <=>
                 \E k \in 1..(n + 1) : a[k].status = "success" /\ a[k].name = x
    BY <1>1 DEF Earned
<1>4. \A x : x \in Earned(rs) <=>
                 \E k \in 1..n : rs[k].status = "success" /\ rs[k].name = x
    BY <1>1 DEF Earned
<1> QED BY <1>2, <1>3, <1>4 DEF a

(* Results that are no success earn nothing.                               *)
LEMMA EarnedUnchanged ==
    ASSUME NEW rs \in Seq(StepResult), NEW e \in StepResult,
           NEW q \in Seq(StepResult),
           e.status # "success", \A k \in 1..Len(q) : q[k].status # "success"
    PROVE  Earned(rs \o << e >> \o q) = Earned(rs)
<1> DEFINE a == rs \o << e >> \o q
           n == Len(rs)
           m == n + 1 + Len(q)
<1>1. /\ n \in Nat /\ Len(q) \in Nat /\ DOMAIN rs = 1..n /\ DOMAIN a = 1..m
      /\ \A k \in 1..n : a[k] = rs[k]
      /\ a[n + 1] = e
      /\ \A k \in (n + 2)..m : a[k] = q[k - (n + 1)]
    BY InsertElements
<1> HIDE DEF a
<1>2. ASSUME NEW k \in 1..m, a[k].status = "success"
      PROVE  k \in 1..n
  <2>1. k \in 1..n \/ k = n + 1 \/ k \in (n + 2)..m
      BY <1>1
  <2>2. CASE k \in (n + 2)..m
    <3>1. k - (n + 1) \in 1..Len(q)
        BY <2>2, <1>1
    <3> QED BY <3>1, <2>2, <1>1, <1>2
  <2> QED BY <2>1, <2>2, <1>1, <1>2
<1>3. \A k \in 1..n : k \in 1..m
    BY <1>1
<1> HIDE DEF m, n
<1>4. { k \in 1..m : a[k].status = "success" } =
          { k \in 1..n : rs[k].status = "success" }
    BY <1>1, <1>2, <1>3
<1> QED BY <1>1, <1>4 DEF Earned, a

(* What the loop records is earned iff the result is a success.            *)
LEMMA RecordEarns ==
    ASSUME NEW c \in CallType, c.job \in Job, NEW result \in StepResult,
           NEW p \in Plans \cup {EmptyPlan}, p = plan[c.job],
           NEW r, Ready(c, result, p, r)
    PROVE  Earned(Record(c, result).results) =
               Earned(c.results) \cup
               (IF result.status = "success" THEN {result.name} ELSE {})
<1> DEFINE n == Len(c.results)
           d == Record(c, result)
           q == SkippedRest(c)
<1>1. /\ n \in Nat /\ c.results \in Seq(StepResult) /\ Len(p.steps) \in Nat
      /\ c.from \in Nat /\ c.base \in Nat /\ c.offset \in Nat
    BY PlanType DEF CallType
<1>2. Position(c) = n + 1 /\ Number(c) = n + 1 /\ n < Len(p.steps)
    BY <1>1 DEF Position, Number, Ready
<1>3. CASE ~ (Stops(c) /\ result.status # "success")
  <2>1. d.results = Append(c.results, result)
      BY <1>3 DEF Record, AtLoop
  <2> QED BY <1>1, <2>1, EarnedAppend
<1>4. CASE Stops(c) /\ result.status # "success"
  <2>1. d.results = c.results \o << result >> \o q
      BY <1>4 DEF Record, AtLoop
  <2>2. q \in Seq(StepResult) /\ Len(q) = Len(p.steps) - (n + 1)
      BY SkippedRestType, <1>1, <1>2
  <2>3. \A k \in 1..(Len(p.steps) - (n + 1)) : q[k].status = "skipped"
      BY <1>2 DEF SkippedRest, Result
  <2>4. \A k \in 1..Len(q) : q[k].status # "success"
      BY <2>2, <2>3
  <2> HIDE DEF q
  <2>5. Earned(c.results \o << result >> \o q) = Earned(c.results)
      BY <1>1, <1>4, <2>2, <2>4, EarnedUnchanged
  <2> QED BY <1>4, <2>1, <2>5
<1> QED BY <1>3, <1>4

(* HonestData, call by call.                                               *)
LEMMA HonestCalls ==
    HonestData <=>
        /\ \A t \in Held : data[call[t].job] = Earned(call[t].results)
        /\ suspended # NoCheckpoint =>
              data[suspended.job] = Earned(suspended.results)
<1>1. ASSUME HonestData, NEW t \in Held
      PROVE  data[call[t].job] = Earned(call[t].results)
  <2>1. [job |-> call[t].job, results |-> call[t].results] \in Ledgers
      BY DEF Ledgers
  <2> QED BY <1>1, <2>1 DEF HonestData
<1>2. ASSUME HonestData, suspended # NoCheckpoint
      PROVE  data[suspended.job] = Earned(suspended.results)
  <2>1. [job |-> suspended.job, results |-> suspended.results] \in Ledgers
      BY <1>2 DEF Ledgers
  <2> QED BY <1>2, <2>1 DEF HonestData
<1>3. ASSUME \A t \in Held : data[call[t].job] = Earned(call[t].results),
             suspended # NoCheckpoint =>
                 data[suspended.job] = Earned(suspended.results)
      PROVE  HonestData
  <2> SUFFICES ASSUME NEW l \in Ledgers
               PROVE  data[l.job] = Earned(l.results)
      BY DEF HonestData
  <2>1. CASE \E t \in Held : l = [job |-> call[t].job, results |-> call[t].results]
      BY <1>3, <2>1
  <2>2. CASE /\ suspended # NoCheckpoint
             /\ l = [job |-> suspended.job, results |-> suspended.results]
      BY <1>3, <2>2
  <2> QED BY <2>1, <2>2 DEF Ledgers
<1> QED BY <1>1, <1>2, <1>3

(* One call of one job changes: it is enough to look at that job.          *)
LEMMA OneJobAccounted ==
    ASSUME Inductive, Accounted, NEW t \in Task, NEW j \in Job, NEW d,
           call' = [call EXCEPT ![t] = d],
           \A u \in Held \ {t} : call[u].job # j,
           \A i \in Job \ {j} : /\ plan'[i] = plan[i]
                                /\ reached'[i] = reached[i]
                                /\ verdict'[i] = verdict[i]
                                /\ data'[i] = data[i],
           d.pc # "idle" => d.job = j /\ data'[j] = Earned(d.results),
           \/ suspended' = NoCheckpoint
           \/ suspended' = suspended /\ suspended.job # j
           \/ suspended'.job = j /\ data'[j] = Earned(suspended'.results),
           verdict'[j] # "new",
           verdict'[j] = "success" =>
              /\ plan'[j].steps # << >>
              /\ Len(reached'[j]) = Len(plan'[j].steps)
              /\ \A k \in DOMAIN plan'[j].steps :
                     \E n \in NamesOf(plan'[j].steps[k]) : n \in data'[j]
    PROVE  Accounted'
<1>1. /\ call \in [Task -> CallType]
      /\ \A u \in Held : call[u].job \in Job
      /\ suspended # NoCheckpoint => suspended.job \in Job
    BY DEF Inductive, TypeOK, CheckpointType
<1>2. HonestData /\ NewIsBlank /\ SuccessIsEarned
    BY DEF Accounted
<1>3. \A u \in Held' : \/ u = t /\ d.pc # "idle" /\ call'[u] = d
                       \/ u \in Held \ {t} /\ call'[u] = call[u]
    BY <1>1 DEF Held
<1>4. \A u \in Held' : data'[call'[u].job] = Earned(call'[u].results)
    BY <1>1, <1>2, <1>3, HonestCalls
<1>5. suspended' # NoCheckpoint => data'[suspended'.job] = Earned(suspended'.results)
    BY <1>1, <1>2, HonestCalls
<1>6. HonestData'
    BY <1>4, <1>5 DEF HonestData, Ledgers
<1>7. NewIsBlank'
    BY <1>2 DEF NewIsBlank
<1>8. SuccessIsEarned'
  <2> SUFFICES ASSUME NEW i \in Job, verdict'[i] = "success"
               PROVE  /\ plan'[i].steps # << >>
                      /\ Len(reached'[i]) = Len(plan'[i].steps)
                      /\ \A k \in DOMAIN plan'[i].steps :
                             \E n \in NamesOf(plan'[i].steps[k]) : n \in data'[i]
      BY DEF SuccessIsEarned
  <2>1. CASE i = j
      BY <2>1
  <2>2. CASE i # j
    <3>1. /\ plan[i].steps # << >>
          /\ Len(reached[i]) = Len(plan[i].steps)
          /\ \A k \in DOMAIN plan[i].steps :
                 \E n \in NamesOf(plan[i].steps[k]) : n \in data[i]
        BY <2>2, <1>2 DEF SuccessIsEarned
    <3>2. /\ plan'[i] = plan[i] /\ reached'[i] = reached[i] /\ data'[i] = data[i]
        BY <2>2
    <3> QED BY <3>1, <3>2
  <2> QED BY <2>1, <2>2
<1> QED BY <1>6, <1>7, <1>8 DEF Accounted

(* The case in which the job is the one the task holds and goes on.        *)
LEMMA RunningAccounted ==
    ASSUME Inductive, Accounted, NEW t \in Task, call[t].pc # "idle",
           NEW d, NEW j, j = call[t].job,
           call' = [call EXCEPT ![t] = d],
           suspended' = suspended,
           \A i \in Job \ {j} : /\ plan'[i] = plan[i]
                                /\ reached'[i] = reached[i]
                                /\ data'[i] = data[i],
           UNCHANGED verdict, d.job = j, data'[j] = Earned(d.results)
    PROVE  Accounted'
<1>1. /\ j \in Job /\ verdict[j] = "running"
      /\ \A u \in Held \ {t} : call[u].job # j
      /\ suspended # NoCheckpoint => suspended.job # j
    BY HeldFacts
<1>2. verdict'[j] = "running" /\ \A i \in Job \ {j} : verdict'[i] = verdict[i]
    BY <1>1
<1>3. suspended' = NoCheckpoint \/ (suspended' = suspended /\ suspended.job # j)
    BY <1>1
<1> QED BY <1>1, <1>2, <1>3, OneJobAccounted

(* The output of a held call is what its results say.                      *)
LEMMA HeldAccounted ==
    ASSUME Accounted, NEW t \in Task, call[t].pc # "idle"
    PROVE  data[call[t].job] = Earned(call[t].results)
BY HonestCalls DEF Accounted, Held

(* A call that ends without claiming success.                              *)
LEMMA EndAccounted ==
    ASSUME Inductive, Accounted, NEW t \in Task, call[t].pc # "idle",
           call' = [call EXCEPT ![t] = IdleCall],
           NEW v \in {"failure", "raised", "cancelled"},
           verdict' = [verdict EXCEPT ![call[t].job] = v],
           \A i \in Job \ {call[t].job} : reached'[i] = reached[i],
           UNCHANGED << suspended, plan, data >>
    PROVE  Accounted'
<1> DEFINE j == call[t].job
<1>1. /\ j \in Job
      /\ \A u \in Held \ {t} : call[u].job # j
      /\ suspended # NoCheckpoint => suspended.job # j
    BY HeldFacts
<1>2. verdict'[j] = v /\ \A i \in Job \ {j} : verdict'[i] = verdict[i]
    BY <1>1 DEF Inductive, TypeOK
<1>3. suspended' = NoCheckpoint \/ (suspended' = suspended /\ suspended.job # j)
    BY <1>1
<1>4. IdleCall.pc = "idle"
    BY DEF IdleCall, NewCall
<1>5. \A i \in Job \ {j} : /\ plan'[i] = plan[i]
                            /\ reached'[i] = reached[i]
                            /\ verdict'[i] = verdict[i]
                            /\ data'[i] = data[i]
    BY <1>2
<1>6. verdict'[j] # "new" /\ verdict'[j] # "success"
    BY <1>2
<1> HIDE DEF j
<1> QED BY <1>1, <1>3, <1>4, <1>5, <1>6, OneJobAccounted

(* _build_run_result: success is said of a plan whose every step has a     *)
(* result, and every result is a success.                                  *)
LEMMA FinishAccounted ==
    ASSUME Inductive, Accounted, NEW t \in Task, Finish(t)
    PROVE  Accounted'
<1> DEFINE c == call[t]
           j == c.job
           p == plan[j]
           r == reached[j]
<1>1. /\ c.pc = "loop" /\ AtEnd(c) /\ call' = [call EXCEPT ![t] = IdleCall]
      /\ verdict' = [verdict EXCEPT ![j] =
             IF AllSucceeded(c.results) THEN "success" ELSE "failure"]
      /\ UNCHANGED << suspended, plan, data, reached >>
    BY DEF Finish
<1>2. CASE ~ AllSucceeded(c.results)
  <2>1. verdict' = [verdict EXCEPT ![j] = "failure"]
      BY <1>1, <1>2
  <2> QED BY <1>1, <2>1, EndAccounted
<1>3. CASE AllSucceeded(c.results)
  <2>1. /\ c \in CallType /\ j \in Job /\ p \in Plans \cup {EmptyPlan}
        /\ CallOK(c, p, r, "running")
        /\ \A u \in Held \ {t} : call[u].job # j
        /\ suspended # NoCheckpoint => suspended.job # j
      BY <1>1, HeldFacts
  <2>2. /\ c.from \in Nat /\ c.base \in Nat /\ c.offset \in Nat
        /\ c.results \in Seq(StepResult) /\ p.steps \in Seq(Step)
        /\ Len(p.steps) \in Nat
      BY <2>1, PlanType DEF CallType
  <2>3. Len(c.results) = Len(p.steps)
    <3>1. /\ c.base = c.from /\ Len(c.results) = c.base + c.offset
          /\ Len(c.results) <= Len(p.steps)
        BY <2>1 DEF CallOK
    <3>2. c.from + c.offset + 1 > Len(p.steps)
        BY <1>1 DEF AtEnd, Position
    <3> HIDE DEF c, p
    <3> QED BY <3>1, <3>2, <2>2
  <2>4. Len(r) = Len(p.steps)
      BY <1>1, <1>3, <2>1, <2>3 DEF CallOK, AllSucceeded
  <2>5. p.steps # << >>
      BY <1>3, <2>2, <2>3 DEF AllSucceeded
  <2>6. ASSUME NEW k \in DOMAIN p.steps
        PROVE  \E n \in NamesOf(p.steps[k]) : n \in data[j]
    <3>1. k \in DOMAIN c.results
        BY <2>2, <2>3
    <3>2. c.results[k].name \in NamesOf(p.steps[k])
        BY <2>1, <3>1 DEF CallOK, LedgerOK
    <3>3. c.results[k].status = "success"
        BY <1>3, <3>1 DEF AllSucceeded
    <3>4. c.results[k].name \in Earned(c.results)
        BY <3>1, <3>3 DEF Earned
    <3>5. data[j] = Earned(c.results)
        BY <1>1, HeldAccounted
    <3> QED BY <3>2, <3>4, <3>5
  <2>7. verdict'[j] = "success" /\ \A i \in Job \ {j} : verdict'[i] = verdict[i]
      BY <1>1, <1>3, <2>1 DEF Inductive, TypeOK
  <2>8. IdleCall.pc = "idle"
      BY DEF IdleCall, NewCall
  <2>9. suspended' = NoCheckpoint \/ (suspended' = suspended /\ suspended.job # j)
      BY <1>1, <2>1
  <2>10. /\ plan'[j].steps # << >> /\ Len(reached'[j]) = Len(plan'[j].steps)
         /\ \A k \in DOMAIN plan'[j].steps :
                \E n \in NamesOf(plan'[j].steps[k]) : n \in data'[j]
      BY <1>1, <2>4, <2>5, <2>6
  <2>11. /\ \A i \in Job \ {j} : /\ plan'[i] = plan[i]
                                 /\ reached'[i] = reached[i]
                                 /\ verdict'[i] = verdict[i]
                                 /\ data'[i] = data[i]
         /\ verdict'[j] # "new"
      BY <1>1, <2>7
  <2> HIDE DEF c, j, p, r
  <2> QED BY <1>1, <2>1, <2>8, <2>9, <2>10, <2>11, OneJobAccounted
<1> QED BY <1>2, <1>3

(* A step that is reached and gets a result that is no success.            *)
LEMMA ReachAccounted ==
    ASSUME Inductive, Accounted, NEW t \in Task, Reach(t), UNCHANGED verdict,
           NEW d, d.job = call[t].job,
           Earned(d.results) = Earned(call[t].results),
           call' = [call EXCEPT ![t] = d]
    PROVE  Accounted'
<1> DEFINE j == call[t].job
<1>1. /\ call[t].pc = "loop" /\ UNCHANGED << suspended, plan, data >>
    BY DEF Reach
<1>2. \A i \in Job \ {j} : reached'[i] = reached[i]
    BY ReachEffect
<1>3. data'[j] = Earned(d.results)
    BY <1>1, HeldAccounted
<1> QED BY <1>1, <1>2, <1>3, RunningAccounted

LEMMA RecordAccounted ==
    ASSUME Inductive, NEW t \in Task, Reach(t),
           NEW result \in StepResult, result.number = Number(call[t]),
           result.name \in NamesOf(Current(call[t])),
           result.status # "success"
    PROVE  /\ Record(call[t], result).job = call[t].job
           /\ Earned(Record(call[t], result).results) = Earned(call[t].results)
<1> DEFINE c == call[t]
           p == plan[c.job]
           a == Append(reached[c.job], Position(c))
<1>1. c.pc = "loop"
    BY DEF Reach
<1>2. c \in CallType /\ c.job \in Job /\ p \in Plans \cup {EmptyPlan}
    BY <1>1, HeldFacts
<1>3. Ready(c, result, p, a)
    BY ReachFacts DEF Reach
<1> HIDE DEF a
<1> QED BY <1>2, <1>3, RecordEarns, RecordKeepsOrder

LEMMA SkipStepAccounted ==
    ASSUME Inductive, Accounted, NEW t \in Task, SkipStep(t)
    PROVE  Accounted'
<1> DEFINE result == Result(Number(call[t]), Current(call[t]).name, "skipped", 1)
<1>1. /\ Reach(t) /\ UNCHANGED verdict
      /\ call' = [call EXCEPT ![t] = Record(call[t], result)]
    BY DEF SkipStep
<1>2. Current(call[t]) \in Step /\ Number(call[t]) \in Nat \ {0}
    BY <1>1, ReachFacts DEF Reach
<1>3. /\ result \in StepResult /\ result.number = Number(call[t])
      /\ result.name \in NamesOf(Current(call[t])) /\ result.status = "skipped"
    BY <1>2, ChosenType, ResultType DEF Status
<1> HIDE DEF result
<1> QED BY <1>1, <1>3, RecordAccounted, ReachAccounted

LEMMA MissResourcesAccounted ==
    ASSUME Inductive, Accounted, NEW t \in Task, MissResources(t)
    PROVE  Accounted'
<1> DEFINE leaf == Chosen(Current(call[t]), believed)
           result == Result(Number(call[t]), leaf.name, "failed", 1)
<1>1. /\ Reach(t) /\ UNCHANGED verdict /\ leaf # NoStep
      /\ call' = [call EXCEPT ![t] = Record(call[t], result)]
    BY DEF MissResources
<1>2. Current(call[t]) \in Step /\ Number(call[t]) \in Nat \ {0}
    BY <1>1, ReachFacts DEF Reach
<1>3. leaf \in Leaf /\ leaf.name \in NamesOf(Current(call[t]))
    BY <1>1, <1>2, ChosenType
<1>4. leaf.name \in Name
    BY <1>3 DEF Leaf
<1> HIDE DEF leaf
<1>5. /\ result \in StepResult /\ result.number = Number(call[t])
      /\ result.name \in NamesOf(Current(call[t])) /\ result.status = "failed"
    BY <1>2, <1>3, <1>4, ResultType DEF Status
<1> HIDE DEF result
<1> QED BY <1>1, <1>5, RecordAccounted, ReachAccounted

LEMMA AttemptAccounted ==
    ASSUME Inductive, Accounted, NEW t \in Task, call[t].pc = "attempt",
           NEW s \in {"success", "failed"}
    PROVE  LET c == call[t]
               d == Record(c, Result(Number(c), c.step.name, s, c.attempt))
           IN  /\ d.job = c.job
               /\ Earned(d.results) = data[c.job] \cup
                      (IF s = "success" THEN {c.step.name} ELSE {})
<1> DEFINE c == call[t]
           p == plan[c.job]
           r == reached[c.job]
           result == Result(Number(c), c.step.name, s, c.attempt)
<1>1. /\ c \in CallType /\ c.job \in Job /\ p \in Plans \cup {EmptyPlan}
    BY HeldFacts
<1>2. /\ Number(c) \in Nat \ {0} /\ c.attempt \in Nat \ {0} /\ c.step.name \in Name
    BY AttemptFacts
<1>3. /\ result \in StepResult /\ result.number = Number(c)
      /\ result.name = c.step.name /\ result.status = s
  <2> HIDE DEF c
  <2> QED BY <1>2, ResultType DEF Status
<1> HIDE DEF result
<1>4. Ready(c, result, p, r)
    BY <1>3, AttemptFacts
<1>5. data[c.job] = Earned(c.results)
    BY HeldAccounted
<1> QED BY <1>1, <1>3, <1>4, <1>5, RecordEarns, RecordKeepsOrder DEF result

LEMMA AttemptSucceedsAccounted ==
    ASSUME Inductive, Accounted, NEW t \in Task, AttemptSucceeds(t)
    PROVE  Accounted'
<1> DEFINE c == call[t]
           j == c.job
           d == Record(c, Result(Number(c), c.step.name, "success", c.attempt))
<1>1. /\ c.pc = "attempt" /\ call' = [call EXCEPT ![t] = d]
      /\ data' = [data EXCEPT ![j] = @ \cup {c.step.name}]
      /\ UNCHANGED << suspended, plan, reached, verdict >>
    BY DEF AttemptSucceeds, DataKey
<1>2. d.job = j /\ Earned(d.results) = data[j] \cup {c.step.name}
    BY <1>1, AttemptAccounted
<1> HIDE DEF d
<1>3. j \in Job /\ data \in [Job -> SUBSET Name]
    BY <1>1, HeldFacts, RestHolds DEF Rest
<1>4. /\ data'[j] = Earned(d.results)
      /\ \A i \in Job \ {j} : data'[i] = data[i]
    BY <1>1, <1>2, <1>3
<1> QED BY <1>1, <1>2, <1>4, RunningAccounted

LEMMA AttemptFailsAccounted ==
    ASSUME Inductive, Accounted, NEW t \in Task, AttemptFails(t)
    PROVE  Accounted'
<1> DEFINE c == call[t]
           d == AfterFailure(c)
<1>1. /\ c.pc = "attempt" /\ call' = [call EXCEPT ![t] = d]
      /\ UNCHANGED << suspended, plan, data, reached, verdict >>
    BY DEF AttemptFails
<1>2. d.job = c.job /\ data[c.job] = Earned(d.results)
  <2>1. CASE c.attempt < MaxAttempts(c.step)
    <3>1. d = AtAttempt(c, c.step, c.attempt + 1)
        BY <2>1 DEF AfterFailure
    <3>2. d.job = c.job /\ d.results = c.results
        BY <3>1 DEF AtAttempt
    <3> QED BY <1>1, <3>2, HeldAccounted
  <2>2. CASE ~ (c.attempt < MaxAttempts(c.step))
    <3>1. d = Record(c, Result(Number(c), c.step.name, "failed", c.attempt))
        BY <2>2 DEF AfterFailure
    <3> QED BY <1>1, <3>1, AttemptAccounted
  <2> QED BY <2>1, <2>2
<1> HIDE DEF d
<1> QED BY <1>1, <1>2, RunningAccounted

LEMMA SuspendAccounted ==
    ASSUME Inductive, Accounted, NEW t \in Task, Suspend(t)
    PROVE  Accounted'
<1> DEFINE c == call[t]
           j == c.job
<1>1. /\ c.pc = "loop" /\ call' = [call EXCEPT ![t] = IdleCall]
      /\ suspended' = Checkpoint(c)
      /\ verdict' = [verdict EXCEPT ![j] = "interrupted"]
      /\ UNCHANGED << plan, data, reached >>
    BY DEF Suspend
<1>2. j \in Job /\ \A u \in Held \ {t} : call[u].job # j
    BY <1>1, HeldFacts
<1>3. suspended'.job = j /\ suspended'.results = c.results
    BY <1>1 DEF Checkpoint
<1>4. data'[j] = Earned(suspended'.results)
    BY <1>1, <1>3, HeldAccounted
<1>5. /\ verdict'[j] = "interrupted"
      /\ \A i \in Job \ {j} : verdict'[i] = verdict[i]
    BY <1>1, <1>2 DEF Inductive, TypeOK
<1>6. IdleCall.pc = "idle"
    BY DEF IdleCall, NewCall
<1> QED BY <1>1, <1>2, <1>3, <1>4, <1>5, <1>6, OneJobAccounted

LEMMA ResumeAccounted ==
    ASSUME Inductive, Accounted, NEW t \in Task, Resume(t)
    PROVE  Accounted'
<1>1. suspended # NoCheckpoint /\ suspended' = NoCheckpoint
    BY DEF Resume, SlotAfterResume
<1>2. PICK j \in Job : j = suspended.job
    BY <1>1, RestHolds DEF Rest, CheckpointType
<1>3. PICK d : /\ call' = [call EXCEPT ![t] = d]
               /\ d.job = j
               /\ d.results = suspended.results
  <2> DEFINE e == [pc |-> "loop", job |-> suspended.job, from |-> suspended.from,
                   base |-> Len(suspended.results), offset |-> 0,
                   results |-> suspended.results, step |-> NoStep, attempt |-> 0]
  <2>1. call' = [call EXCEPT ![t] = e]
      BY DEF Resume
  <2>2. e.job = j /\ e.results = suspended.results
      BY <1>2
  <2> HIDE DEF e
  <2> QED BY <2>1, <2>2
<1>4. /\ verdict' = [verdict EXCEPT ![j] = "running"]
      /\ UNCHANGED << plan, reached, data >>
    BY <1>2 DEF Resume
<1>5. \A u \in Held \ {t} : call[u].job # j
    BY <1>1, <1>2 DEF Inductive, OneOwner
<1>6. data'[j] = Earned(d.results)
    BY <1>1, <1>2, <1>3, <1>4, HonestCalls DEF Accounted
<1>7. /\ verdict'[j] = "running"
      /\ \A i \in Job \ {j} : verdict'[i] = verdict[i]
    BY <1>4 DEF Inductive, TypeOK
<1>8. \A i \in Job \ {j} : /\ plan'[i] = plan[i]
                           /\ reached'[i] = reached[i]
                           /\ verdict'[i] = verdict[i]
                           /\ data'[i] = data[i]
    BY <1>4, <1>7
<1> QED BY <1>1, <1>3, <1>5, <1>6, <1>7, <1>8, OneJobAccounted

LEMMA RunAccounted ==
    ASSUME Inductive, Accounted, NEW t \in Task, NEW j \in Job, Run(t, j)
    PROVE  Accounted'
<1> DEFINE d == NewCall(j, "planning")
<1>1. /\ call[t].pc = "idle" /\ verdict[j] = "new"
      /\ call' = [call EXCEPT ![t] = d]
      /\ verdict' = [verdict EXCEPT ![j] = "running"]
      /\ UNCHANGED << suspended, plan, data, reached >>
    BY DEF Run
<1>2. \A u \in Held \ {t} : call[u].job # j
    BY <1>1, HeldFacts DEF Held
<1>3. suspended # NoCheckpoint => suspended.job # j
    BY <1>1 DEF Inductive, Progress, SlotOK
<1>4. d.job = j /\ data'[j] = Earned(d.results)
  <2>1. data[j] = {}
      BY <1>1 DEF Accounted, NewIsBlank
  <2>2. d.job = j /\ d.results = << >>
      BY DEF NewCall
  <2>3. Earned(<< >>) = {}
      BY DEF Earned
  <2> QED BY <1>1, <2>1, <2>2, <2>3
<1> HIDE DEF d
<1>5. /\ verdict'[j] = "running"
      /\ \A i \in Job \ {j} : verdict'[i] = verdict[i]
    BY <1>1 DEF Inductive, TypeOK
<1>6. suspended' = NoCheckpoint \/ (suspended' = suspended /\ suspended.job # j)
    BY <1>1, <1>3
<1> QED BY <1>1, <1>2, <1>4, <1>5, <1>6, OneJobAccounted

LEMMA EngineTickAccounted ==
    ASSUME Inductive, Accounted, NEW t \in Task, EngineTick(t)
    PROVE  Accounted'
<1> DEFINE j == call[t].job
           d == NewCall(j, "loop")
<1>1. PICK p \in Plans \cup {EmptyPlan} : plan' = [plan EXCEPT ![j] = p]
    BY DEF EngineTick
<1>2. /\ call[t].pc = "planning" /\ call' = [call EXCEPT ![t] = d]
      /\ UNCHANGED << suspended, data, reached, verdict >>
    BY DEF EngineTick
<1>3. CallOK(call[t], plan[j], reached[j], "running") /\ call[t] \in CallType
      /\ plan \in [Job -> Plans \cup {EmptyPlan}]
    BY <1>2, HeldFacts, RestHolds DEF Rest
<1>4. call[t].results = << >>
  <2>1. Len(call[t].results) = 0 /\ call[t].results \in Seq(StepResult)
      BY <1>2, <1>3 DEF CallOK, CallType
  <2> QED BY <2>1
<1>5. d.job = j /\ d.results = << >>
    BY DEF NewCall
<1> HIDE DEF d
<1>6. data'[j] = Earned(d.results)
    BY <1>2, <1>4, <1>5, HeldAccounted
<1>7. \A i \in Job \ {j} : plan'[i] = plan[i]
    BY <1>1, <1>3
<1> QED BY <1>2, <1>5, <1>6, <1>7, RunningAccounted

LEMMA StartStepAccounted ==
    ASSUME Inductive, Accounted, NEW t \in Task, StartStep(t)
    PROVE  Accounted'
<1> DEFINE d == AtAttempt(call[t], Chosen(Current(call[t]), believed), 1)
<1>1. Reach(t) /\ UNCHANGED verdict /\ call' = [call EXCEPT ![t] = d]
    BY DEF StartStep
<1>2. d.job = call[t].job /\ d.results = call[t].results
    BY DEF AtAttempt
<1> HIDE DEF d
<1> QED BY <1>1, <1>2, ReachAccounted

LEMMA RaiseMalformedAccounted ==
    ASSUME Inductive, Accounted, NEW t \in Task, RaiseMalformed(t)
    PROVE  Accounted'
<1>1. /\ Reach(t) /\ call[t].pc = "loop"
      /\ call' = [call EXCEPT ![t] = IdleCall]
      /\ verdict' = [verdict EXCEPT ![call[t].job] = "raised"]
      /\ UNCHANGED << suspended, plan, data >>
    BY DEF RaiseMalformed, Reach
<1>2. \A i \in Job \ {call[t].job} : reached'[i] = reached[i]
    BY <1>1, ReachEffect
<1> QED BY <1>1, <1>2, EndAccounted

LEMMA NextAccounted == Inductive /\ Accounted /\ [Next]_vars => Accounted'
<1> SUFFICES ASSUME Inductive, Accounted, [Next]_vars
             PROVE  Accounted'
    OBVIOUS
<1>1. ASSUME NEW t \in Task, NEW j \in Job, Run(t, j) PROVE Accounted'
    BY <1>1, RunAccounted
<1>2. ASSUME NEW t \in Task, TaskStep(t) PROVE Accounted'
    BY <1>2, EngineTickAccounted, SuspendAccounted, SkipStepAccounted,
       MissResourcesAccounted, StartStepAccounted, RaiseMalformedAccounted,
       AttemptSucceedsAccounted, AttemptFailsAccounted, FinishAccounted
       DEF TaskStep
<1>3. ASSUME NEW t \in Task, Cancel(t) PROVE Accounted'
    BY <1>3, EndAccounted DEF Cancel
<1>4. ASSUME NEW t \in Task, Resume(t) PROVE Accounted'
    BY <1>4, ResumeAccounted
<1>5. ASSUME UNCHANGED << suspended, call, plan, data, reached, verdict >>
      PROVE  Accounted'
    BY <1>5 DEF Accounted, HonestData, NewIsBlank, SuccessIsEarned, Ledgers, Held
<1>6. CASE Interrupt \/ Observe \/ Restock \/ UNCHANGED vars
    BY <1>5, <1>6 DEF Interrupt, Observe, Restock, vars, osVars
<1> QED BY <1>1, <1>2, <1>3, <1>4, <1>6 DEF Next

LEMMA AccountedHolds == Spec => []Accounted
<1>1. Init => Accounted
    BY DEF Init, Accounted, HonestData, NewIsBlank, SuccessIsEarned, Ledgers,
           Held, IdleCall, NewCall
<1> QED BY <1>1, NextAccounted, InductiveHolds, PTL DEF Spec

(* The outputs a later step can read are those of the steps reported as    *)
(* successful, through every interrupt and resume.                         *)
THEOREM DataIsHonest == Spec => []HonestData
<1>1. Accounted => HonestData
    BY DEF Accounted
<1> QED BY <1>1, AccountedHolds, PTL

(* RunResult.success is said only of a plan that was reached to its last   *)
(* step and of which every step left its output.                           *)
THEOREM SuccessClaimsAreEarned == Spec => []SuccessIsEarned
<1>1. Accounted => SuccessIsEarned
    BY DEF Accounted
<1> QED BY <1>1, AccountedHolds, PTL

-----------------------------------------------------------------------------
(* The careful caller.                                                     *)

(* One call at a time, and none while a plan waits in the slot.            *)
OneAtATime ==
    /\ \A t, u \in Held : t = u
    /\ Held # {} => suspended = NoCheckpoint

LEMMA CarefulIsNext == [CarefulNext]_vars => [Next]_vars
BY DEF CarefulNext, Next

LEMMA CarefulStep ==
    Inductive /\ OneAtATime /\ NoPlanForgotten /\ [CarefulNext]_vars
        => OneAtATime' /\ NoPlanForgotten'
<1> SUFFICES ASSUME Inductive, OneAtATime, NoPlanForgotten, [CarefulNext]_vars
             PROVE  OneAtATime' /\ NoPlanForgotten'
    OBVIOUS
<1>1. /\ call \in [Task -> CallType] /\ DOMAIN verdict = Job
      /\ \A t \in Held : call[t].job \in Job /\ verdict[call[t].job] = "running"
  <2>1. call \in [Task -> CallType] /\ DOMAIN verdict = Job
      BY DEF Inductive, TypeOK
  <2> QED BY <2>1, HeldFacts DEF Held
<1>2. ASSUME NEW t \in Task, NEW j \in Job, AllIdle,
             suspended = NoCheckpoint, Run(t, j)
      PROVE  OneAtATime' /\ NoPlanForgotten'
    BY <1>1, <1>2 DEF Run, AllIdle, OneAtATime, NoPlanForgotten, Held
<1>3. ASSUME NEW t \in Held, NEW d, call' = [call EXCEPT ![t] = d],
             suspended' = suspended,
             \A i \in Job : verdict'[i] = "interrupted" => verdict[i] = "interrupted"
      PROVE  OneAtATime' /\ NoPlanForgotten'
  <2>1. Held' \subseteq Held
      BY <1>1, <1>3 DEF Held
  <2>2. suspended' = NoCheckpoint
      BY <1>3 DEF OneAtATime
  <2>3. \A i \in Job : verdict'[i] # "interrupted"
      BY <1>3, <2>2 DEF NoPlanForgotten
  <2> QED BY <2>1, <2>2, <2>3 DEF OneAtATime, NoPlanForgotten
<1>4. ASSUME NEW t \in Task, Suspend(t)
      PROVE  OneAtATime' /\ NoPlanForgotten'
  <2>1. /\ t \in Held /\ call' = [call EXCEPT ![t] = IdleCall]
        /\ suspended' = Checkpoint(call[t])
        /\ verdict' = [verdict EXCEPT ![call[t].job] = "interrupted"]
      BY <1>4 DEF Suspend, Held
  <2>2. suspended'.job = call[t].job /\ suspended' # NoCheckpoint
    <3>1. /\ call[t] \in CallType /\ call[t].job \in Job
        BY <1>1, <2>1
    <3>2. Checkpoint(call[t]) \in CheckpointType
        BY <3>1 DEF Checkpoint, CheckpointType, CallType
    <3> QED BY <2>1, <3>2, NoCheckpointAssumption DEF Checkpoint
  <2>3. Held' = {}
      BY <1>1, <2>1 DEF OneAtATime, Held, IdleCall, NewCall
  <2>4. \A i \in Job : verdict'[i] = "interrupted" => i = call[t].job
      BY <1>1, <2>1 DEF OneAtATime, NoPlanForgotten
  <2> QED BY <2>2, <2>3, <2>4 DEF OneAtATime, NoPlanForgotten
<1>5. ASSUME NEW t \in Task, AllIdle, Resume(t)
      PROVE  OneAtATime' /\ NoPlanForgotten'
  <2>1. /\ suspended # NoCheckpoint /\ suspended' = NoCheckpoint
        /\ verdict' = [verdict EXCEPT ![suspended.job] = "running"]
        /\ \A u \in Task \ {t} : call'[u] = call[u]
      BY <1>1, <1>5 DEF Resume, SlotAfterResume
  <2>2. \A i \in Job : verdict'[i] # "interrupted"
      BY <1>1, <2>1 DEF NoPlanForgotten
  <2>3. Held' \subseteq {t}
      BY <1>5, <2>1 DEF AllIdle, Held
  <2> QED BY <2>1, <2>2, <2>3 DEF OneAtATime, NoPlanForgotten
<1>6. ASSUME NEW t \in Task, TaskStep(t)
      PROVE  OneAtATime' /\ NoPlanForgotten'
  <2>1. CASE Suspend(t)
      BY <1>4, <2>1
  <2>2. CASE ~ Suspend(t)
    <3>1. t \in Held /\ suspended' = suspended /\ \E d : call' = [call EXCEPT ![t] = d]
        BY <1>6, <2>2 DEF TaskStep, EngineTick, SkipStep, MissResources, StartStep,
           RaiseMalformed, Reach, AttemptSucceeds, AttemptFails, Finish, Held
    <3>2. verdict' = verdict \/ \E v \in {"success", "failure", "raised"} :
              verdict' = [verdict EXCEPT ![call[t].job] = v]
        BY <1>6, <2>2 DEF TaskStep, EngineTick, SkipStep, MissResources, StartStep,
           RaiseMalformed, Reach, AttemptSucceeds, AttemptFails, Finish
    <3>3. \A i \in Job : verdict'[i] = "interrupted" => verdict[i] = "interrupted"
        BY <1>1, <3>2
    <3> QED BY <1>3, <3>1, <3>3
  <2> QED BY <2>1, <2>2
<1>7. ASSUME UNCHANGED << suspended, call, verdict >>
      PROVE  OneAtATime' /\ NoPlanForgotten'
    BY <1>7 DEF OneAtATime, NoPlanForgotten, Held
<1>8. CASE Interrupt \/ Observe \/ Restock \/ UNCHANGED vars
    BY <1>7, <1>8 DEF Interrupt, Observe, Restock, vars, osVars
<1> QED BY <1>2, <1>5, <1>6, <1>8 DEF CarefulNext

(* A caller that resumes what was suspended before it asks for something   *)
(* new never loses a plan: what an interrupted call left is in the slot.   *)
THEOREM CarefulCallerLosesNothing == CarefulSpec => []NoPlanForgotten
<1>1. Init => Inductive /\ OneAtATime /\ NoPlanForgotten
    BY InitInductive DEF Init, OneAtATime, NoPlanForgotten, Held, IdleCall, NewCall
<1>2. Inductive /\ OneAtATime /\ NoPlanForgotten /\ [CarefulNext]_vars
          => Inductive' /\ OneAtATime' /\ NoPlanForgotten'
    BY CarefulIsNext, CarefulStep, NextInductive
<1> QED BY <1>1, <1>2, PTL DEF CarefulSpec

-----------------------------------------------------------------------------
(* The refinement.                                                         *)

LEMMA ReachIsDispatch ==
    ASSUME Inductive, NEW t \in Task, Reach(t)
    PROVE  /\ call[t].job \in Job
           /\ verdict[call[t].job] = "running"
           /\ Contract!ReachNext(call[t].job)
<1> DEFINE j == call[t].job
<1>1. call[t].pc = "loop"
    BY DEF Reach
<1>2. j \in Job /\ verdict[j] = "running"
    BY <1>1, HeldFacts
<1>3. /\ Position(call[t]) = Len(reached[j]) + 1
      /\ Len(reached[j]) < Len(plan[j].steps)
    BY ReachFacts DEF Reach
<1>4. reached' = [reached EXCEPT ![j] = Append(@, Position(call[t]))]
    BY DEF Reach
<1> QED BY <1>2, <1>3, <1>4 DEF Contract!ReachNext

LEMMA FinishIsSucceedOrFail ==
    ASSUME Inductive, NEW t \in Task, Finish(t)
    PROVE  \E j \in Job : Contract!Succeed(j) \/ Contract!Fail(j)
<1> DEFINE c == call[t]
           j == c.job
           p == plan[j]
           r == reached[j]
<1>1. /\ c.pc = "loop" /\ AtEnd(c)
      /\ verdict' = [verdict EXCEPT ![j] =
             IF AllSucceeded(c.results) THEN "success" ELSE "failure"]
      /\ UNCHANGED << plan, reached >>
    BY DEF Finish
<1>2. /\ c \in CallType /\ j \in Job /\ verdict[j] = "running"
      /\ CallOK(c, p, r, "running") /\ p \in Plans \cup {EmptyPlan}
    BY <1>1, HeldFacts
<1>3. /\ c.from \in Nat /\ c.base \in Nat /\ c.offset \in Nat
      /\ Len(p.steps) \in Nat /\ p.steps \in Seq(Step)
      /\ c.results \in Seq(StepResult)
    BY <1>2, PlanType DEF CallType
<1>4. Len(c.results) = Len(p.steps)
  <2>1. /\ c.base = c.from /\ Len(c.results) = c.base + c.offset
        /\ Len(c.results) <= Len(p.steps)
      BY <1>2 DEF CallOK
  <2>2. c.from + c.offset + 1 > Len(p.steps)
      BY <1>1 DEF AtEnd, Position
  <2> HIDE DEF c, p
  <2> QED BY <2>1, <2>2, <1>3
<1>5. \/ Len(r) = Len(p.steps)
      \/ p.stop /\ ~ AllSucceeded(c.results)
    BY <1>1, <1>2, <1>4 DEF CallOK, AllSucceeded
<1>6. CASE AllSucceeded(c.results)
  <2>1. Len(r) = Len(p.steps) /\ verdict' = [verdict EXCEPT ![j] = "success"]
      BY <1>1, <1>5, <1>6
  <2>2. p.steps # << >>
      BY <1>3, <1>4, <1>6 DEF AllSucceeded
  <2> QED BY <1>1, <1>2, <2>1, <2>2 DEF Contract!Succeed
<1>7. CASE ~ AllSucceeded(c.results)
  <2>1. verdict' = [verdict EXCEPT ![j] = "failure"]
      BY <1>1, <1>7
  <2> QED BY <1>1, <1>2, <1>5, <2>1 DEF Contract!Fail
<1> QED BY <1>6, <1>7

LEMMA StepImplementsContract ==
    Inductive /\ [Next]_vars => [Contract!Next]_Contract!vars
<1> SUFFICES ASSUME Inductive, [Next]_vars
             PROVE  Contract!Next \/ UNCHANGED << plan, reached, verdict >>
    BY DEF Contract!vars
<1>1. ASSUME NEW t \in Task, NEW j \in Job, Run(t, j)
      PROVE  Contract!Next
    BY <1>1 DEF Run, Contract!Next, Contract!Start
<1>2. ASSUME NEW t \in Task, EngineTick(t)
      PROVE  Contract!Next \/ UNCHANGED << plan, reached, verdict >>
  <2> DEFINE j == call[t].job
  <2>1. PICK p \in Plans \cup {EmptyPlan} : plan' = [plan EXCEPT ![j] = p]
      BY <1>2 DEF EngineTick
  <2>2. call[t].pc = "planning" /\ UNCHANGED << reached, verdict >>
      BY <1>2 DEF EngineTick
  <2>3. /\ j \in Job /\ verdict[j] = "running" /\ plan[j] = EmptyPlan
        /\ reached[j] = << >>
      BY <2>2, HeldFacts DEF CallOK
  <2>4. CASE p \in Plans
    <3>1. Contract!Adopt(j)
        BY <2>1, <2>2, <2>3, <2>4 DEF Contract!Adopt
    <3> QED BY <3>1, <2>3 DEF Contract!Next
  <2>5. CASE p = EmptyPlan
    <3>1. plan \in [Job -> Plans \cup {EmptyPlan}]
        BY RestHolds DEF Rest
    <3>2. plan' = plan
        BY <3>1, <2>1, <2>3, <2>5
    <3> QED BY <3>2, <2>2
  <2> QED BY <2>4, <2>5
<1>3. ASSUME NEW t \in Task, Suspend(t)
      PROVE  Contract!Next
  <2> DEFINE j == call[t].job
  <2>1. /\ call[t].pc = "loop" /\ ~ AtEnd(call[t])
        /\ verdict' = [verdict EXCEPT ![j] = "interrupted"]
        /\ UNCHANGED << plan, reached >>
      BY <1>3 DEF Suspend
  <2>2. j \in Job /\ verdict[j] = "running"
      BY <2>1, HeldFacts
  <2>3. Len(reached[j]) < Len(plan[j].steps)
      BY <2>1, ReachFacts
  <2>4. Contract!Pause(j)
      BY <2>1, <2>2, <2>3 DEF Contract!Pause
  <2> QED BY <2>2, <2>4 DEF Contract!Next
<1>4. ASSUME NEW t \in Task, SkipStep(t) \/ MissResources(t) \/ StartStep(t)
      PROVE  Contract!Next
  <2>1. Reach(t) /\ UNCHANGED << plan, verdict >>
      BY <1>4 DEF SkipStep, MissResources, StartStep, Reach
  <2>2. call[t].job \in Job /\ Contract!Dispatch(call[t].job)
      BY <2>1, ReachIsDispatch DEF Contract!Dispatch
  <2> QED BY <2>2 DEF Contract!Next
<1>5. ASSUME NEW t \in Task, RaiseMalformed(t)
      PROVE  Contract!Next
  <2>1. Reach(t) /\ UNCHANGED plan
      BY <1>5 DEF RaiseMalformed, Reach
  <2>2. verdict' = [verdict EXCEPT ![call[t].job] = "raised"]
      BY <1>5 DEF RaiseMalformed
  <2>3. call[t].job \in Job /\ Contract!Raised(call[t].job)
      BY <2>1, <2>2, ReachIsDispatch DEF Contract!Raised
  <2> QED BY <2>3 DEF Contract!Next
<1>6. ASSUME NEW t \in Task, AttemptSucceeds(t) \/ AttemptFails(t)
      PROVE  UNCHANGED << plan, reached, verdict >>
    BY <1>6 DEF AttemptSucceeds, AttemptFails
<1>7. ASSUME NEW t \in Task, Finish(t)
      PROVE  Contract!Next
    BY <1>7, FinishIsSucceedOrFail DEF Contract!Next
<1>8. ASSUME NEW t \in Task, Cancel(t)
      PROVE  Contract!Next
  <2>1. /\ call[t].pc # "idle"
        /\ verdict' = [verdict EXCEPT ![call[t].job] = "cancelled"]
        /\ UNCHANGED << plan, reached >>
      BY <1>8 DEF Cancel
  <2>2. call[t].job \in Job /\ verdict[call[t].job] = "running"
      BY <2>1, HeldFacts
  <2>3. Contract!Cancelled(call[t].job)
      BY <2>1, <2>2 DEF Contract!Cancelled
  <2> QED BY <2>2, <2>3 DEF Contract!Next
<1>9. ASSUME NEW t \in Task, Resume(t)
      PROVE  Contract!Next
  <2>1. /\ suspended # NoCheckpoint
        /\ verdict' = [verdict EXCEPT ![suspended.job] = "running"]
        /\ UNCHANGED << plan, reached >>
      BY <1>9 DEF Resume
  <2>2. suspended.job \in Job
      BY <2>1, RestHolds DEF Rest, CheckpointType
  <2>3. verdict[suspended.job] = "interrupted"
      BY <2>1 DEF Inductive, Progress, SlotOK
  <2>4. Contract!Continue(suspended.job)
      BY <2>1, <2>2, <2>3 DEF Contract!Continue
  <2> QED BY <2>2, <2>4 DEF Contract!Next
<1>10. ASSUME Interrupt \/ Observe \/ Restock \/ UNCHANGED vars
       PROVE  UNCHANGED << plan, reached, verdict >>
    BY <1>10 DEF Interrupt, Observe, Restock, vars
<1> QED BY <1>1, <1>2, <1>3, <1>4, <1>5, <1>6, <1>7, <1>8, <1>9, <1>10
        DEF Next, TaskStep

(* run(), resume() and interrupt() with their tasks, flag and slot keep    *)
(* the promise that PlanContract makes about each plan on its own.         *)
THEOREM ChainRunImplementsContract == Spec => ImplementsContract
<1>1. Init => Contract!Init
    BY DEF Init, Contract!Init
<1>2. Inductive /\ [Next]_vars => [Contract!Next]_Contract!vars
    BY StepImplementsContract
<1> QED BY <1>1, <1>2, InductiveHolds, PTL DEF Spec, ImplementsContract, Contract!Spec

=============================================================================
