------------------------------ MODULE Grocery ------------------------------
(***************************************************************************)
(* The grocery backend (examples/grocery_service.py): requests that        *)
(* interleave between their awaits on one database, the transaction that   *)
(* takes stock and money and leaves an order and a shipment, the life of a *)
(* shipment, and a service that may crash and boot, seeding the database   *)
(* collection by collection.  Prices are whole units.                      *)
(***************************************************************************)
EXTENDS Integers, Sequences, FiniteSets

CONSTANTS
    Handler,                     \* places for a request being served
    Item, Price, FirstStock,     \* the catalogue
    Customer, FirstBalance,      \* customers that the seeding knows
    Rider,                       \* riders that the seeding knows
    Nobody,
    MaxOrders, MaxCrashes        \* bounds

ASSUME CatalogueAssumption ==
    /\ Price \in [Item -> Nat \ {0}]
    /\ FirstStock \in [Item -> Nat]
    /\ FirstBalance \in [Customer -> Nat]
ASSUME NobodyAssumption == Nobody \notin Rider
ASSUME BoundsAssumption == MaxOrders \in Nat /\ MaxCrashes \in Nat

VARIABLES
    life,        \* what the process of the service is doing
    filled,      \* the collections that have been seeded
    stock,       \* products[i].stock
    balance,     \* wallets[c].balance
    orders,      \* the orders, in order of creation; an id is a place
    shipment,    \* shipments by order id
    request,     \* what is in progress, or answered, at every handler
    crashes

service == << life, filled, stock, balance, orders, shipment, request, crashes >>
store   == << filled, stock, balance, orders, shipment >>

Idle == [pc |-> "idle", kind |-> "none"]
Lost == 0                                \* the code of an answer that never comes

(* The collections in the order in which _seed fills them.                 *)
Collections == << "products", "api_keys", "wallets", "riders", "customers" >>

Init ==
    /\ life = "down"
    /\ filled = {}
    /\ stock = [i \in Item |-> 0]
    /\ balance = [c \in Customer |-> 0]
    /\ orders = << >>
    /\ shipment = << >>
    /\ request = [h \in Handler |-> Idle]
    /\ crashes = 0

-----------------------------------------------------------------------------
(* The process.  Everything after the products is filled only when there   *)
(* are no keys yet, so a crash in between leaves the rest empty for ever.   *)

KeysMissing == "api_keys" \notin filled

Boot ==
    /\ life = "down"
    /\ life' = IF "products" \notin filled THEN "products"
               ELSE IF KeysMissing THEN "api_keys" ELSE "up"
    /\ UNCHANGED << filled, stock, balance, orders, shipment, request, crashes >>

AfterSeeding == [products |-> IF KeysMissing THEN "api_keys" ELSE "up",
                 api_keys |-> "wallets", wallets |-> "riders",
                 riders |-> "customers", customers |-> "up"]

Seed ==
    /\ life \in DOMAIN AfterSeeding
    /\ filled' = filled \cup {life}
    /\ stock' = IF life = "products" THEN FirstStock ELSE stock
    /\ balance' = IF life = "wallets" THEN FirstBalance ELSE balance
    /\ life' = AfterSeeding[life]
    /\ UNCHANGED << orders, shipment, request, crashes >>

(* A crash loses the requests and aborts their transactions.               *)
Crash ==
    /\ life # "down" /\ crashes < MaxCrashes
    /\ crashes' = crashes + 1
    /\ life' = "down"
    /\ request' = [h \in Handler |->
           IF request[h].pc \in {"idle", "answered"} THEN request[h]
           ELSE [request[h] EXCEPT !.pc = "answered", !.code = Lost]]
    /\ UNCHANGED store

-----------------------------------------------------------------------------
(* Authentication, and the roles: a principal is [owner, role].             *)

Known(p)          == p.owner = "anonymous" \/ ~KeysMissing
Satisfies(p, role) == p.role \in {"admin", role}

(* A request reaches its handler.  What is refused before the first await  *)
(* on the data is answered at once.                                        *)
Answer(h, code) ==
    request' = [request EXCEPT ![h].pc = "answered", ![h].code = code]

Free(h) == request[h].pc \in {"idle", "answered"}

Receive(h, r) ==
    /\ life = "up"
    /\ Free(h)
    /\ request' = [request EXCEPT ![h] = r]
    /\ UNCHANGED << life, store, crashes >>

Refused(kind, code) == [pc |-> "answered", kind |-> kind, code |-> code, order |-> 0]

PostOrder(h, p, i, q) ==
    Receive(h,
        IF ~Known(p) THEN Refused("order", 401)
        ELSE IF ~Satisfies(p, "customer") THEN Refused("order", 403)
        ELSE IF q <= 0 THEN Refused("order", 422)
        ELSE [pc |-> "reserve", kind |-> "order", owner |-> p.owner,
              item |-> i, quantity |-> q, order |-> 0, code |-> Lost])

PostAssign(h, p, o, r) ==
    Receive(h,
        IF ~Known(p) THEN Refused("assign", 401)
        ELSE IF ~Satisfies(p, "admin") THEN Refused("assign", 403)
        ELSE [pc |-> "look", kind |-> "assign", order |-> o, rider |-> r, code |-> Lost])

PatchStatus(h, p, o, s) ==
    Receive(h,
        IF ~Known(p) THEN Refused("advance", 401)
        ELSE [pc |-> "look", kind |-> "advance", by |-> p, order |-> o, status |-> s,
              seen |-> s, code |-> Lost])

At(h, kind, pc) == life = "up" /\ request[h].kind = kind /\ request[h].pc = pc

To(h, pc) == request' = [request EXCEPT ![h].pc = pc]

-----------------------------------------------------------------------------
(* _place_order, in its transaction.  MongoDB lets one transaction at a    *)
(* time write a document, and the loser runs again from the start; nothing *)
(* is visible to others before the commit.                                 *)

Open(h)      == request[h].kind = "order" /\ request[h].pc \in {"pay", "insert"}
Writes(h, d) == Open(h) /\ \/ d = request[h].item
                           \/ d = request[h].owner /\ request[h].pc = "insert"
Locked(d)    == \E h \in Handler : Writes(h, d)

Cost(h) == request[h].quantity * Price[request[h].item]

Sold(h)     == request[h].item \in Item
InStock(h)  == Sold(h) /\ stock[request[h].item] >= request[h].quantity
CanPay(h)   == /\ "wallets" \in filled
               /\ request[h].owner \in Customer
               /\ balance[request[h].owner] >= Cost(h)

(* Stock is taken if it suffices: 409 otherwise, or 404.                   *)
Reserve(h) ==
    /\ At(h, "order", "reserve")
    /\ InStock(h) => ~Locked(request[h].item)
    /\ IF ~Sold(h) THEN Answer(h, 404)
       ELSE IF InStock(h) THEN To(h, "pay") ELSE Answer(h, 409)
    /\ UNCHANGED << life, store, crashes >>

(* The wallet pays if it can; 402 aborts what was reserved.                *)
AfterNoAbort(h) ==                                              \* mutant
    [stock EXCEPT ![request[h].item] = @ - request[h].quantity]
AfterAbort(h) == stock

Pay(h) ==
    /\ At(h, "order", "pay")
    /\ CanPay(h) => ~Locked(request[h].owner)
    /\ IF CanPay(h) THEN To(h, "insert") /\ UNCHANGED stock
       ELSE Answer(h, 402) /\ stock' = AfterAbort(h)
    /\ UNCHANGED << life, filled, balance, orders, shipment, crashes >>

(* The order, its shipment, and the commit of all four writes.             *)
NewShipment(h) == [customer |-> request[h].owner, status |-> "pending", rider |-> Nobody]

WithShipment(h) == Append(shipment, NewShipment(h))

Commit(h) ==
    /\ At(h, "order", "insert")
    /\ Len(orders) < MaxOrders
    /\ stock' = [stock EXCEPT ![request[h].item] = @ - request[h].quantity]
    /\ balance' = [balance EXCEPT ![request[h].owner] = @ - Cost(h)]
    /\ orders' = Append(orders, [customer |-> request[h].owner, item |-> request[h].item,
                                 quantity |-> request[h].quantity, cost |-> Cost(h),
                                 via |-> h])
    /\ shipment' = WithShipment(h)
    /\ request' = [request EXCEPT ![h].pc = "notify", ![h].order = Len(orders) + 1]
    /\ UNCHANGED << life, filled, crashes >>

-----------------------------------------------------------------------------
(* The life of a shipment.                                                 *)

NextStatus == [pending |-> {"assigned"}, assigned |-> {"out_for_delivery"},
               out_for_delivery |-> {"delivered"}, delivered |-> {}]

Shipped(h) == request[h].order \in DOMAIN shipment
Ship(h)    == shipment[request[h].order]

(* assign_rider reads the shipment, then the rider, then writes.           *)
LookAssign(h) ==
    /\ At(h, "assign", "look")
    /\ IF ~Shipped(h) THEN Answer(h, 404)
       ELSE IF Ship(h).status # "pending" THEN Answer(h, 409)
       ELSE To(h, "write")
    /\ UNCHANGED << life, store, crashes >>

RiderKnown(h)  == "riders" \in filled /\ request[h].rider \in Rider
AnyShipment(h) == Shipped(h)                                    \* mutant
Unassigned(h)  == Ship(h).status = "pending"

FindRider(h) ==
    /\ At(h, "assign", "write")
    /\ IF RiderKnown(h) THEN To(h, "update") ELSE Answer(h, 404)
    /\ UNCHANGED << life, store, crashes >>

Assign(h) ==
    /\ At(h, "assign", "update")
    /\ IF Unassigned(h)
       THEN /\ shipment' = [shipment EXCEPT ![request[h].order].status = "assigned",
                                            ![request[h].order].rider = request[h].rider]
            /\ To(h, "notify")
       ELSE Answer(h, 409) /\ UNCHANGED shipment
    /\ UNCHANGED << life, filled, stock, balance, orders, crashes >>

(* update_shipment_status: the admin, or the shipment's own rider.         *)
MayAdvance(h) == \/ request[h].by.role = "admin"
                 \/ request[h].by.role = "rider" /\ Ship(h).rider = request[h].by.owner

Legal(h) == request[h].status \in NextStatus[Ship(h).status]

LookAdvance(h) ==
    /\ At(h, "advance", "look")
    /\ IF ~Shipped(h) THEN Answer(h, 404)
       ELSE IF ~MayAdvance(h) THEN Answer(h, 403)
       ELSE IF ~Legal(h) THEN Answer(h, 409)
       ELSE request' = [request EXCEPT ![h].pc = "update", ![h].seen = Ship(h).status]
    /\ UNCHANGED << life, store, crashes >>

WhateverNow(h) == Shipped(h)                                    \* mutant
Unchanged(h)   == Ship(h).status = request[h].seen

Advance(h) ==
    /\ At(h, "advance", "update")
    /\ IF Unchanged(h)
       THEN /\ shipment' = [shipment EXCEPT ![request[h].order].status = request[h].status]
            /\ IF request[h].status = "assigned" THEN Answer(h, 200) ELSE To(h, "notify")
       ELSE Answer(h, 409) /\ UNCHANGED shipment
    /\ UNCHANGED << life, filled, stock, balance, orders, crashes >>

-----------------------------------------------------------------------------
(* _notify: sent, or not sent, or an answer that is no JSON, which raises  *)
(* past the handler.  By then the data is committed.                       *)
Notify(h) ==
    /\ life = "up" /\ request[h].pc = "notify"
    /\ \E code \in {200, 500} : Answer(h, code)
    /\ UNCHANGED << life, store, crashes >>

OrderStep(h)  == Reserve(h) \/ Pay(h) \/ Commit(h)
AssignStep(h) == LookAssign(h) \/ FindRider(h) \/ Assign(h)
Serve(h) == OrderStep(h) \/ AssignStep(h) \/ LookAdvance(h) \/ Advance(h) \/ Notify(h)

Process == Boot \/ Seed \/ Crash

-----------------------------------------------------------------------------
(* The reading endpoints.                                                  *)

WalletOf(c) == IF "wallets" \in filled /\ c \in Customer THEN balance[c] ELSE 0

MaySee(p, o) ==
    \/ p.role = "admin"
    \/ p.role = "customer" /\ shipment[o].customer = p.owner
    \/ p.role = "rider" /\ shipment[o].rider = p.owner

-----------------------------------------------------------------------------
(* Properties.                                                             *)

(* What was there first, less what each order took in its turn, is what    *)
(* there is now, and was never below zero.                                 *)
Explains(first, taken, now) ==
    \E left \in [0..Len(taken) -> 0..first] :
        /\ left[0] = first
        /\ \A n \in DOMAIN taken : left[n] = left[n - 1] - taken[n]
        /\ left[Len(taken)] = now

Units(i) ==
    [o \in DOMAIN orders |-> IF orders[o].item = i THEN orders[o].quantity ELSE 0]
Charges(c) ==
    [o \in DOMAIN orders |-> IF orders[o].customer = c THEN orders[o].cost ELSE 0]

TypeOK ==
    /\ life \in {"down", "up"} \cup DOMAIN AfterSeeding
    /\ filled \subseteq DOMAIN AfterSeeding
    /\ stock \in [Item -> Nat]
    /\ balance \in [Customer -> Nat]
    /\ Len(orders) <= MaxOrders

(* Every unit that left the shelf and every coin that left a wallet is     *)
(* explained by the orders, one after the other; every order has its       *)
(* shipment, and neither stock nor money goes below zero: whatever orders  *)
(* race, fail half way or are lost in a crash (_place_order runs in a      *)
(* transaction).                                                           *)
BooksBalance ==
    /\ TypeOK
    /\ "products" \in filled => \A i \in Item : Explains(FirstStock[i], Units(i), stock[i])
    /\ "wallets" \in filled =>
          \A c \in Customer : Explains(FirstBalance[c], Charges(c), balance[c])
    /\ Len(shipment) = Len(orders)
    /\ \A o \in DOMAIN orders : shipment[o].customer = orders[o].customer

(* A shipment only moves to the status after its own, and a rider once     *)
(* given is never exchanged, though requests read it, wait and then write. *)
ForwardOnly ==
    [][\A o \in DOMAIN shipment :
          /\ \/ shipment'[o].status = shipment[o].status
             \/ shipment'[o].status \in NextStatus[shipment[o].status]
          /\ shipment[o].rider # Nobody => shipment'[o].rider = shipment[o].rider]_shipment

(* What was answered with success stays true: the order is there, and the  *)
(* rider that was assigned is the shipment's.  A refused order is not.     *)
AnswersTrue ==
    \A h \in Handler :
        LET r == request[h]
        IN r.pc = "answered" =>
              /\ r.kind = "order" /\ r.code = 200 => orders[r.order].via = h
              /\ r.kind = "order" /\ r.code \in 400 .. 499 => r.order = 0
              /\ r.kind = "assign" /\ r.code = 200 => shipment[r.order].rider = r.rider

(* A shipment that is past "pending" has a rider: the docstring has it     *)
(* that only POST assign moves a shipment to "assigned".  It does not      *)
(* hold, for an admin may PATCH a pending shipment to "assigned".          *)
AssignedHasRider ==
    \A o \in DOMAIN shipment : shipment[o].status # "pending" => shipment[o].rider # Nobody

(* When the service is up and the customer's key is seeded, so is its      *)
(* wallet: "The seeded customer also gets a starting wallet balance",      *)
(* grocery_service.py:21.  It does not hold, for a crash may come between  *)
(* the two, and the next start finds keys and seeds nothing more.          *)
CustomerHasWallet ==
    life = "up" /\ "api_keys" \in filled => "wallets" \in filled
=============================================================================
