----------------------------- MODULE MCGraphRun -----------------------------
(* Small graphs for GraphRun: a diamond, a cycle with an innocent step, an *)
(* unknown dependency with a dependent, a conditional whose branch has     *)
(* another name, a name used twice, and a malformed step beside a sound    *)
(* one.                                                                    *)
EXTENDS GraphRun

CONSTANTS a, b, c, d, x, hungry, milk

Do(n, needs, retries) ==
    [kind |-> "leaf", name |-> n, needs |-> [r \in Resource |-> needs],
     retries |-> retries, wellFormed |-> TRUE]

Malformed(n) == [Do(n, 0, 0) EXCEPT !.wellFormed = FALSE]

If(n, yes, no) ==
    [kind |-> "conditional", name |-> n, cond |-> hungry,
     ifTrue |-> yes, ifFalse |-> no]

On(s, names) == [step |-> s, deps |-> names]

Diamond == << On(Do(d, 0, 0), {b, c}), On(Do(b, 1, 1), {a}),
              On(If(c, Do(c, 0, 0), NoStep), {a}), On(Do(a, 0, 0), {}) >>
Cyclic  == << On(Do(a, 0, 0), {b}), On(Do(b, 0, 0), {a}),
              On(Do(c, 0, 0), {b}), On(Do(d, 0, 0), {}) >>
Unkn    == << On(Do(a, 0, 0), {x}), On(Do(b, 0, 0), {a}), On(Do(c, 0, 0), {}) >>
Renamed == << On(Do(a, 0, 0), {}), On(If(b, Do(x, 0, 0), NoStep), {}),
              On(Do(c, 0, 0), {a}) >>
Twice   == << On(Do(a, 0, 0), {}), On(Do(b, 0, 0), {a}), On(Do(a, 0, 0), {}) >>
Broken  == << On(Malformed(a), {}), On(Do(b, 0, 0), {}) >>
(* The dependent of a conditional step.                                    *)
Waits   == << On(If(a, Do(x, 0, 0), NoStep), {}), On(Do(b, 0, 0), {a}),
              On(Do(c, 0, 0), {}) >>

SoundGraphs == {Diamond, Cyclic, Unkn, Renamed, Twice}
AllGraphs   == SoundGraphs \cup {Broken}
WaitsOnly   == {Waits}

ASSUME KeptAssumption ==
    /\ \A g \in AllGraphs : NamesKept(g)
    /\ ~ NamesKept(Waits)
=============================================================================
