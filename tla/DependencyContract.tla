------------------------ MODULE DependencyContract ------------------------
(***************************************************************************)
(* What a dependency-graph plan promises, without waves, gathers, resumes  *)
(* or step numbers: a step starts only when everything it depends on has   *)
(* succeeded, at most once, and is refused only when it can never start.   *)
(***************************************************************************)
EXTENDS Integers

VARIABLES
    deps,        \* the names each step of the plan depends on
    started,     \* steps that were started
    won,         \* steps that succeeded
    lost         \* steps that failed, were skipped or were refused

vars == << deps, started, won, lost >>

Steps   == DOMAIN deps
Waiting == Steps \ (started \cup lost)

(* Steps that wait, and will for ever, for a name that is no step, for a   *)
(* step that is lost, or for each other.                                   *)
Hopeless ==
    UNION { H \in SUBSET Waiting :
              \A n \in H : \E d \in deps[n] : d \notin Steps \/ d \in lost \cup H }

Init == started = {} /\ won = {} /\ lost = {}

Startable(n) == n \in Waiting /\ deps[n] \subseteq won

Start(n) ==
    /\ Startable(n)
    /\ started' = started \cup {n}
    /\ UNCHANGED << deps, won >>
    /\ lost' \in {lost, lost \cup {n}}       \* it may be lost as it starts

Win(n) ==
    /\ n \in started \ (won \cup lost)
    /\ won' = won \cup {n}
    /\ UNCHANGED << deps, started, lost >>

Lose(n) ==
    /\ n \in started \ (won \cup lost)
    /\ lost' = lost \cup {n}
    /\ UNCHANGED << deps, started, won >>

Refuse ==
    /\ lost' \in { lost \cup H : H \in SUBSET Hopeless }
    /\ UNCHANGED << deps, started, won >>

Next ==
    \/ \E n \in Steps : Start(n) \/ Win(n) \/ Lose(n)
    \/ Refuse

Spec == Init /\ [][Next]_vars
=============================================================================
