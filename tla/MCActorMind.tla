---------------------------- MODULE MCActorMind ----------------------------
(* A small instance of ActorMind: one actor, built from a list of goals    *)
(* that its caller keeps, with one aspect and one topic to believe about.  *)
EXTENDS ActorMind

CONSTANTS alice, caller, door, news, open, shut, errand, travel, milk, fire,
          Room   \* bound

(* Beliefs of 0.07 and 0.12 last one cycle and two; a progress of 1.4 is   *)
(* clamped.                                                                *)
SomeTold == {7, 12}
FewGains == {140}

CallersList == { [a \in Actor |-> caller] }

(* Beliefs and goals share their room, as neither needs the other.  Ticks  *)
(* take no room.                                                           *)
HasRoom == \A a \in Actor : Len(beliefs[a]) + Len(goals[a]) <= Room

RoomySpec == Init /\ [][Next /\ HasRoom']_vars /\ \A a \in Actor : WF_vars(Tick(a))
=============================================================================
