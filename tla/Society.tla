------------------------------ MODULE Society ------------------------------
(***************************************************************************)
(* Trust, affiliations and messages: AffiliationManager and TrustEngine    *)
(* (cognitiveos/affiliations), and the messaging methods of CognitiveOS    *)
(* that ask them.  Every actor owns its affiliations and its trust; the    *)
(* society runtime that carries messages between actors is outside the     *)
(* repository and only keeps what it is given.  Trust is in hundredths.    *)
(***************************************************************************)
EXTENDS Integers, SequencesExt, Selection

CONSTANTS
    Actor, Affil,                \* actors and affiliation identities
    Target,                      \* who an affiliation may be with
    Levels,                      \* trust levels given by callers
    Outcomes,                    \* outcomes reported: [goal, rec, obl]
    MaxLocal,                    \* MAX_LOCAL_MESSAGE_BUS
    MaxSent, MaxEdits,           \* bounds
    Linked,                      \* actors that may join the runtime
    NoSave

ASSUME LevelsAssumption == Levels \subseteq Int
ASSUME OutcomesAssumption ==
    Outcomes \subseteq [goal : BOOLEAN, rec : {"yes", "no", "unsaid"},
                        obl : {"yes", "no", "unsaid"}]
ASSUME BoundsAssumption ==
    MaxLocal \in Nat \ {0} /\ MaxSent \in Nat /\ MaxEdits \in Nat
ASSUME ActorsAssumption == Linked \subseteq Actor \cap Target

VARIABLES
    affil,       \* _affiliations of each actor, in the order of the dict
    trust,       \* _trust of each actor's engine; a missing key is Unset
    saved,       \* the last to_dict() of each actor
    moved,       \* history: affiliations that were given another target
    linked,      \* actors with a society runtime
    bus,         \* _message_bus
    mailbox,     \* the runtime's messages for each actor
    log,         \* history: every message accepted by the local bus
    reported,    \* history: messages that send and broadcast said they sent
    edits        \* bound on the calls that are no messages

trustVars   == << affil, trust, saved, moved >>
messageVars == << linked, bus, mailbox, log, reported >>
vars == << affil, trust, saved, moved, linked, bus, mailbox, log, reported, edits >>

Unset == -1
Threshold == 30                          \* TRUST_COMMUNICATION_THRESHOLD

Unclamped(x) == x                                               \* mutant
Clamped(x) == IF x < 0 THEN 0 ELSE IF x > 100 THEN 100 ELSE x

(* TrustEngine.get_trust: 0.5 for somebody unknown.                        *)
TrustIn(known, t) == IF known[t] = Unset THEN 50 ELSE known[t]

Init ==
    /\ affil = [a \in Actor |-> << >>]
    /\ trust = [a \in Actor |-> [t \in Target |-> Unset]]
    /\ saved = [a \in Actor |-> NoSave]
    /\ moved = [a \in Actor |-> {}]
    /\ linked = {}
    /\ bus = [a \in Actor |-> << >>]
    /\ mailbox = [a \in Actor |-> << >>]
    /\ log = [a \in Actor |-> << >>]
    /\ reported = [a \in Actor |-> 0]
    /\ edits = 0

-----------------------------------------------------------------------------
(* Affiliations and trust.                                                 *)

Edit == edits < MaxEdits /\ edits' = edits + 1 /\ UNCHANGED messageVars

(* The place of an affiliation in the dict; a new one goes to the end.     *)
Has(as, i)   == \E k \in DOMAIN as : as[k].id = i
Place(as, i) == CHOOSE k \in DOMAIN as : as[k].id = i
Put(as, r)   == IF Has(as, r.id) THEN [as EXCEPT ![Place(as, r.id)] = r]
                ELSE Append(as, r)

(* add: the level of the affiliation becomes the trust in its target.      *)
Add(a, i, t, l) ==
    /\ Edit
    /\ affil' = [affil EXCEPT ![a] = Put(@, [id |-> i, target |-> t, level |-> l])]
    /\ trust' = [trust EXCEPT ![a][t] = Clamped(l)]
    /\ moved' = [moved EXCEPT ![a] = @ \ {i}]
    /\ UNCHANGED saved

(* update: a new target takes no trust with it, a new level does.          *)
Retarget(a, i, t) ==
    /\ Edit
    /\ Has(affil[a], i)
    /\ affil' = [affil EXCEPT ![a][Place(affil[a], i)].target = t]
    /\ moved' = [moved EXCEPT ![a] = @ \cup {i}]
    /\ UNCHANGED << trust, saved >>

Relevel(a, i, l) ==
    /\ Edit
    /\ Has(affil[a], i)
    /\ affil' = [affil EXCEPT ![a][Place(affil[a], i)].level = l]
    /\ trust' = [trust EXCEPT ![a][affil[a][Place(affil[a], i)].target] = Clamped(l)]
    /\ moved' = [moved EXCEPT ![a] = @ \ {i}]
    /\ UNCHANGED saved

(* remove: the trust stays.                                                *)
Drop(a, i) ==
    /\ Edit
    /\ Has(affil[a], i)
    /\ affil' = [affil EXCEPT ![a] = RemoveAt(@, Place(@, i))]
    /\ UNCHANGED << trust, saved, moved >>

(* set_trust: administrative override.                                     *)
SetTrust(a, t, l) ==
    /\ Edit
    /\ trust' = [trust EXCEPT ![a][t] = Clamped(l)]
    /\ UNCHANGED << affil, saved, moved >>

(* update_from_outcome: the goal counts only when nothing else is said.    *)
Weight(o) == IF o.goal THEN 5 ELSE -8
Advice(o) == CASE o.rec = "yes" -> 5 [] o.rec = "no" -> -12 [] OTHER -> 0
Duty(o)   == CASE o.obl = "yes" -> 3 [] o.obl = "no" -> -15 [] OTHER -> 0

Delta(o) == IF o.rec = "unsaid" /\ o.obl = "unsaid" THEN Weight(o)
            ELSE Advice(o) + Duty(o)

Outcome(a, t, o) ==
    /\ Edit
    /\ trust' = [trust EXCEPT ![a][t] = Clamped(TrustIn(trust[a], t) + Delta(o))]
    /\ UNCHANGED << affil, saved, moved >>

(* to_dict and from_dict: add() of every affiliation, and then the trust   *)
(* that was saved over it.                                                 *)
Save(a) ==
    /\ Edit
    /\ saved' = [saved EXCEPT ![a] = [affil |-> affil[a], trust |-> trust[a]]]
    /\ UNCHANGED << affil, trust, moved >>

Added(as, t) ==
    LET ours == Kept(as, { k \in DOMAIN as : as[k].target = t })
    IN  IF ours = << >> THEN Unset ELSE Clamped(Last(ours).level)

SavedFirst(as, t, known) ==                                     \* mutant
    IF Added(as, t) # Unset THEN Added(as, t) ELSE known
LoadedTrust(as, t, known) == IF known # Unset THEN known ELSE Added(as, t)

Load(a) ==
    /\ Edit
    /\ saved[a] # NoSave
    /\ affil' = [affil EXCEPT ![a] = saved[a].affil]
    /\ trust' = [trust EXCEPT ![a] =
           [t \in Target |-> LoadedTrust(saved[a].affil, t, saved[a].trust[t])]]
    /\ moved' = [moved EXCEPT ![a] = {}]
    /\ UNCHANGED saved

-----------------------------------------------------------------------------
(* Messages.                                                               *)

CheckTrust(a, b) == TrustIn(trust[a], b) >= Threshold

(* A message remembers how far its sender trusted its receiver.            *)
Message(a, b) == [from |-> a, to |-> b, trusted |-> TrustIn(trust[a], b)]

Post(a, peers) ==
    mailbox' = [b \in Actor |->
        IF b \in peers THEN Append(mailbox[b], Message(a, b)) ELSE mailbox[b]]

(* At most MaxLocal messages, the oldest dropped.                          *)
Trimmed(s) == IF Len(s) > MaxLocal
              THEN SubSeq(s, Len(s) - MaxLocal + 1, Len(s)) ELSE s

SendLocal(a, b) ==
    /\ a \notin linked
    /\ CheckTrust(a, b)
    /\ reported[a] < MaxSent
    /\ bus' = [bus EXCEPT ![a] = Trimmed(Append(@, Message(a, b)))]
    /\ log' = [log EXCEPT ![a] = Append(@, Message(a, b))]
    /\ reported' = [reported EXCEPT ![a] = @ + 1]
    /\ UNCHANGED << trustVars, linked, mailbox, edits >>

SendLinked(a, b) ==
    /\ a \in linked
    /\ CheckTrust(a, b)
    /\ reported[a] < MaxSent
    /\ Post(a, {b})
    /\ reported' = [reported EXCEPT ![a] = @ + 1]
    /\ UNCHANGED << trustVars, linked, bus, log, edits >>

(* broadcast: the peers of the runtime that the actor trusts.              *)
Everyone(a) == linked \ {a}                                     \* mutant
Trusted(a)  == { b \in linked \ {a} : CheckTrust(a, b) }

Count(a)    == Cardinality(Trusted(a))

Broadcast(a) ==
    /\ a \in linked
    /\ reported[a] + Count(a) <= MaxSent
    /\ Post(a, Trusted(a))
    /\ reported' = [reported EXCEPT ![a] = @ + Count(a)]
    /\ UNCHANGED << trustVars, linked, bus, log, edits >>

(* set_society_runtime.                                                    *)
Link(a) ==
    /\ a \in Linked \ linked
    /\ linked' = linked \cup {a}
    /\ UNCHANGED << trustVars, bus, mailbox, log, reported, edits >>

(* get_messages.                                                           *)
Inbox(b) == IF b \in linked
            THEN Kept(mailbox[b],
                      { k \in DOMAIN mailbox[b] : CheckTrust(b, mailbox[b][k].from) })
            ELSE bus[b]

-----------------------------------------------------------------------------
Manage(a) ==
    \/ \E i \in Affil, t \in Target, l \in Levels : Add(a, i, t, l)
    \/ \E i \in Affil, t \in Target : Retarget(a, i, t)
    \/ \E i \in Affil, l \in Levels : Relevel(a, i, l)
    \/ \E i \in Affil : Drop(a, i)
    \/ \E t \in Target, l \in Levels : SetTrust(a, t, l)
    \/ Save(a)
    \/ Load(a)

Learn(a) == \E t \in Target, o \in Outcomes : Outcome(a, t, o)

Talk(a) ==
    \/ \E b \in Actor \cap Target : SendLocal(a, b) \/ SendLinked(a, b)
    \/ Broadcast(a)
    \/ Link(a)

Next == \E a \in Actor : Manage(a) \/ Learn(a) \/ Talk(a)

Spec == Init /\ [][Next]_vars

-----------------------------------------------------------------------------
(* Properties.                                                             *)

Level  == 0..100
Affils == Seq([id : Affil, target : Target, level : Int])
Trusts == [Target -> Level \cup {Unset}]
Mail   == Seq([from : Actor, to : Actor, trusted : Level])

(* Trust stays in [0, 1] whatever is reported and set.                     *)
TypeOK ==
    /\ affil \in [Actor -> Affils]
    /\ trust \in [Actor -> Trusts]
    /\ saved \in [Actor -> [affil : Affils, trust : Trusts] \cup {NoSave}]
    /\ moved \in [Actor -> SUBSET Affil] /\ linked \subseteq Actor
    /\ bus \in [Actor -> Mail] /\ mailbox \in [Actor -> Mail]
    /\ log \in [Actor -> Mail]
    /\ reported \in [Actor -> Nat]
    /\ edits \in 0..MaxEdits

(* A message that get_messages shows was sent to somebody its sender       *)
(* trusted at that time and comes from somebody its reader trusts now.     *)
NoDistrustedTalk ==
    \A b \in linked : \A k \in DOMAIN Inbox(b) :
        /\ Inbox(b)[k].trusted >= Threshold
        /\ TrustIn(trust[b], Inbox(b)[k].from) >= Threshold

(* The bounded local bus holds the most recent messages, in order.         *)
BusKeepsLatest ==
    \A a \in Actor :
        /\ Len(bus[a]) = IF Len(log[a]) < MaxLocal THEN Len(log[a]) ELSE MaxLocal
        /\ IsSuffix(bus[a], log[a])

(* send_message and broadcast report exactly what they handed over: no     *)
(* blocked message is counted and none goes out unreported.                *)
From(a, ms)  == { k \in DOMAIN ms : ms[k].from = a }
Delivered(a) == UNION { {b} \X From(a, mailbox[b]) : b \in Actor }
Handed(a)    == Len(log[a]) + Cardinality(Delivered(a))

ReportsAreHonest == \A a \in Actor : Handed(a) = reported[a]

(* An actor restored from what to_dict() wrote a moment ago trusts         *)
(* everybody as before, known to it or not, whatever levels its            *)
(* affiliations were created with: update() is all that parts affiliations *)
(* from trust, by giving one another target.                               *)
Restored(a, t) == LoadedTrust(affil[a], t, trust[a][t])
Moved(a, t)    == \E k \in DOMAIN affil[a] :
                      affil[a][k].target = t /\ affil[a][k].id \in moved[a]

RestartChangesNothing ==
    \A a \in Actor, t \in Target : ~Moved(a, t) => Restored(a, t) = trust[a][t]
=============================================================================
