------------------------------ MODULE MCGrocery ------------------------------
(* A small instance of GroceryPipeline: one shelf of milk, one wallet, a    *)
(* pipeline and two other clients, and a service that may crash once.       *)
EXTENDS GroceryPipeline, TLC

CONSTANTS milk, alice, rider1, rider2, ghost, admin, p1, c1, c2

User(o, r) == [owner |-> o, role |-> r]

Alice  == User(alice, "customer")
Boss   == User(admin, "admin")
Rider1 == User(rider1, "rider")

Prices   == (milk :> 1)
Shelf    == (milk :> 5)
Wallets  == (alice :> 4)
Handlers == {c1, c2, << p1, "os" >>, << p1, "dispatcher" >>}

Order(u, q)     == [kind |-> "order", by |-> u, quantity |-> q]
Give(u, r)      == [kind |-> "assign", by |-> u, order |-> 1, rider |-> r]
Move(u, s)      == [kind |-> "advance", by |-> u, order |-> 1, status |-> s]

(* After the pipeline's 2 units the shelf has too few for 4 and the wallet *)
(* too little for 3.                                                       *)
SomeCalls ==
    {Order(Alice, q) : q \in {0, 3, 4}} \cup {Order(Boss, 2)}
    \cup {Give(Boss, rider2), Give(Boss, ghost)}
    \cup {Move(Boss, "assigned"), Move(Boss, "delivered")}
    \cup {Move(Rider1, s) : s \in {"out_for_delivery", "delivered"}}
=============================================================================
