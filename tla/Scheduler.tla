----------------------------- MODULE Scheduler -----------------------------
(***************************************************************************)
(* The DistributedScheduler (_archived_dead_code/scheduler.py): tasks go   *)
(* to the best runtime that is available and has the capabilities, or into *)
(* a bounded queue that reschedule_pending() tries again.  Fractions of    *)
(* processor and memory are in tenths.  No operation contains an await.    *)
(***************************************************************************)
EXTENDS Integers, SequencesExt, Selection

CONSTANTS
    Runtime, Capability,
    Job,                         \* tasks that are submitted, each once
    Demands,                     \* their required_capabilities
    Descriptors,                 \* what register_runtime is given
    Beats,                       \* what heartbeat is given
    MaxQueue,                    \* _max_queue
    MaxDepth                     \* bound on the depth of a runtime's queue

Nowhere   == "nowhere"
Unasked   == "unasked"

Assumptions ==
    /\ Runtime \cap {Nowhere, Unasked} = {} /\ Demands \in [Job -> SUBSET Capability]
    /\ Descriptors \subseteq [id : Runtime, caps : SUBSET Capability, cpu : 0..10,
                              memory : 0..10, depth : Nat, active : Nat, online : BOOLEAN]
    /\ Beats \subseteq [cpu : 0..10, memory : 0..10, depth : Nat]
    /\ MaxQueue \in Nat /\ MaxDepth \in Nat

VARIABLES
    runtimes,    \* _runtimes, in the order of the dict
    queue,       \* _queue
    placed,      \* assigned_runtime
    turned       \* history: what found the queue full when it was submitted

vars == << runtimes, queue, placed, turned >>

Init ==
    /\ runtimes = << >> /\ queue = << >>
    /\ placed = [j \in Job |-> Unasked] /\ turned = {}

-----------------------------------------------------------------------------
(* Runtimes.                                                               *)

Here(rs, i)  == \E k \in DOMAIN rs : rs[k].id = i
Place(rs, i) == CHOOSE k \in DOMAIN rs : rs[k].id = i

RegisterRuntime(d) ==
    /\ runtimes' = IF Here(runtimes, d.id) THEN [runtimes EXCEPT ![Place(runtimes, d.id)] = d]
                   ELSE Append(runtimes, d)
    /\ UNCHANGED << queue, placed, turned >>

(* What was assigned to the runtime stays assigned to it.                  *)
UnregisterRuntime(i) ==
    /\ runtimes' = Kept(runtimes, { k \in DOMAIN runtimes : runtimes[k].id # i })
    /\ UNCHANGED << queue, placed, turned >>

Heartbeat(i, b) ==
    /\ Here(runtimes, i)
    /\ runtimes' = [runtimes EXCEPT ![Place(runtimes, i)] =
           [@ EXCEPT !.cpu = b.cpu, !.memory = b.memory, !.depth = b.depth, !.online = TRUE]]
    /\ UNCHANGED << queue, placed, turned >>

(* complete_task: any name of a task, and nothing of the task changes.     *)
LessOne(n) == IF n > 0 THEN n - 1 ELSE 0

CompleteTask(i) ==
    /\ Here(runtimes, i)
    /\ runtimes' = [runtimes EXCEPT ![Place(runtimes, i)].depth = LessOne(@),
                                    ![Place(runtimes, i)].active = LessOne(@)]
    /\ UNCHANGED << queue, placed, turned >>

-----------------------------------------------------------------------------
(* schedule.                                                               *)

IsAvailable(r)  == r.online /\ r.cpu > 1 /\ r.memory > 1
MayTake(r, j)   == IsAvailable(r) /\ Demands[j] \subseteq r.caps
Takers(rs, j)   == { k \in DOMAIN rs : MayTake(rs[k], j) }

(* In units of 1/600; the first of equals wins.                            *)
Score(r) == 18 * r.cpu + 18 * r.memory + 120 \div (r.depth + 1) + 120 \div (r.active + 1)

Best(rs, j) ==
    CHOOSE k \in Takers(rs, j) : \A l \in Takers(rs, j) :
        \/ Score(rs[k]) > Score(rs[l])
        \/ Score(rs[k]) = Score(rs[l]) /\ k <= l

Scheduled(s, j) ==
    LET k == Best(s.runtimes, j) IN
    [s EXCEPT !.runtimes[k].depth = @ + 1, !.placed[j] = s.runtimes[k].id]

State == [runtimes |-> runtimes, placed |-> placed]

Schedule(j) ==
    /\ placed[j] = Unasked
    /\ IF Takers(runtimes, j) # {}
       THEN LET s == Scheduled(State, j) IN
            runtimes' = s.runtimes /\ placed' = s.placed /\ UNCHANGED << queue, turned >>
       ELSE /\ placed' = [placed EXCEPT ![j] = Nowhere]
            /\ queue' = IF Len(queue) < MaxQueue THEN Append(queue, j) ELSE queue
            /\ turned' = IF Len(queue) < MaxQueue THEN turned ELSE turned \cup {j}
            /\ UNCHANGED runtimes

-----------------------------------------------------------------------------
(* reschedule_pending walks over the list to which schedule() appends      *)
(* again what it cannot place: the walk ends when the list is full, and    *)
(* the remaining tasks come round as often as it took.                     *)

Placeable(j)     == Takers(runtimes, j) # {}
PlaceableOnes(q) == Kept(q, { k \in DOMAIN q : Placeable(q[k]) })
Stuck(q)         == Kept(q, { k \in DOMAIN q : ~Placeable(q[k]) })

(* The placeable tasks one after the other.                                *)
AllScheduled(js) ==
    LET After[n \in 0..Len(js)] == IF n = 0 THEN State ELSE Scheduled(After[n - 1], js[n])
    IN After[Len(js)]

OnlyNew(u, n) == IF u = << >> THEN u                            \* mutant
                 ELSE [k \in 1 .. n |-> u[((k - 1) % Len(u)) + 1]]
Rounds(u, n)  == IF u = << >> THEN u
                 ELSE [k \in 1 .. (Len(u) + n) |-> u[((k - 1) % Len(u)) + 1]]

ReschedulePending ==
    LET s == AllScheduled(PlaceableOnes(queue)) IN
    /\ queue # << >>
    /\ runtimes' = s.runtimes /\ placed' = s.placed
    /\ queue' = Rounds(Stuck(queue), MaxQueue - Len(queue))
    /\ UNCHANGED turned

-----------------------------------------------------------------------------
Shallow(rs) == \A k \in DOMAIN rs : rs[k].depth <= MaxDepth

Next ==
    /\ \/ \E d \in Descriptors : RegisterRuntime(d)
       \/ \E i \in Runtime : UnregisterRuntime(i) \/ CompleteTask(i)
                             \/ \E b \in Beats : Heartbeat(i, b)
       \/ \E j \in Job : Schedule(j)
       \/ ReschedulePending
    /\ Shallow(runtimes')

-----------------------------------------------------------------------------
(* Properties.                                                             *)

(* A task that was submitted has a runtime or waits in the queue, unless   *)
(* it found the queue full: rescheduling, which rewrites the queue while   *)
(* it walks over it, may multiply a task and loses none.                   *)
NothingLost ==
    \A j \in Job : placed[j] = Nowhere /\ j \notin turned => Contains(queue, j)
=============================================================================
