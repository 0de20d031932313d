---------------------------- MODULE MCCognition ----------------------------
(* A shop that sells tea, of whose stock two attributes tell; a command of *)
(* two words, which is heard with confidence, and two of one word, of      *)
(* which one has a colon; and beliefs that a run or two makes too old to   *)
(* be relevant unless the command mentions them.                           *)
EXTENDS Cognition, TLC

CONSTANTS buyTea, translate, sayHello, none

Names == { "buy", "tea", "Tea", "milk", "world", "translate", "say:hello",
           "hello", "accomplishment", "creation", "stock", "Stock_level",
           "price", "quantity", "observation" } \cup Range(Requested)

LowerOf == [n \in Names |-> IF n = "Tea" THEN "tea" ELSE n]
AfterColonOf  == [n \in Names |-> IF n = "say:hello" THEN "hello" ELSE n]
TellsOf == [n \in Names |->
                CASE n \in {"stock", "Stock_level"} -> {"stock"}
                  [] n = "price" -> {"price"}
                  [] OTHER -> {}]

NamedByCommand == ( buyTea :> << "buy", "tea" >> @@ translate :> << "translate" >>
                    @@ sayHello :> << "say:hello" >> )
GoalOfCommand == ( buyTea :> "accomplishment" @@ translate :> "creation"
                   @@ sayHello :> "creation" )

Told(e, at, v, c) ==
    [entity |-> e, attribute |-> at, value |-> v, confidence |-> c, revised |-> TRUE]
Felt(e, type, c) ==
    [entity |-> e, attribute |-> type, value |-> c, confidence |-> c, revised |-> FALSE]

OwnedFacts == << Felt("milk", "quantity", 100) >>

ShopFacts ==
    { Told("tea", "stock", 0, 72), Told("tea", "stock", 900, 90),
      Told("tea", "Stock_level", 100, 72), Told("tea", "Stock_level", none, 90),
      Told("Tea", "price", 150, 12), Told("world", "price", 1000, 100),
      Felt("translate", "observation", 72), Felt("translate", "stock", 60) }

=============================================================================
