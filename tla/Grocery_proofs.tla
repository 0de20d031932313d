--------------------------- MODULE Grocery_proofs ---------------------------
(***************************************************************************)
(* Proofs about the grocery service and the pipeline that buys from it,    *)
(* for every catalogue, every set of customers, riders, pipelines and      *)
(* other clients, and any number of orders and crashes.                    *)
(***************************************************************************)
EXTENDS GroceryPipeline, FiniteSetTheorems, TLAPS

-----------------------------------------------------------------------------
(* The inductive invariant of the service.                                 *)

(* What the clients may put into a request.                                *)
Owners   == {Shopper.owner} \cup {c.by.owner : c \in Calls}
Clients  == {c.by : c \in Calls}
Ids      == Nat \cup {c.order : c \in Calls}
Riders   == {Send} \cup {c.rider : c \in Calls}
Statuses == {c.status : c \in Calls}

Kinds  == {"order", "assign", "advance"}
States == {"pending", "assigned", "out_for_delivery", "delivered"}

RefusedRequests ==
    [pc : {"answered"}, kind : Kinds, code : {401, 403, 422}, order : {0}]
OrderRequests ==
    [pc : {"reserve", "pay", "insert", "notify", "answered"}, kind : {"order"},
     owner : Owners, item : {Wanted}, quantity : Nat \ {0}, order : Nat,
     code : Nat]
AssignRequests ==
    [pc : {"look", "write", "update", "notify", "answered"}, kind : {"assign"},
     order : Ids, rider : Riders, code : Nat]
AdvanceRequests ==
    [pc : {"look", "update", "notify", "answered"}, kind : {"advance"},
     by : Clients, order : Ids, status : Statuses, seen : Statuses \cup States,
     code : Nat]
Requests == {Idle} \cup RefusedRequests \cup OrderRequests \cup AssignRequests
            \cup AdvanceRequests

OrderRecords ==
    [customer : Customer, item : Item, quantity : Nat \ {0}, cost : Nat,
     via : Handler]
Shipments ==
    [customer : Customer, status : States, rider : Rider \cup {Nobody}]

Types ==
    /\ life \in {"down", "up", "products", "api_keys", "wallets", "riders",
                 "customers"}
    /\ filled \subseteq {"products", "api_keys", "wallets", "riders", "customers"}
    /\ stock \in [Item -> Nat]
    /\ balance \in [Customer -> Nat]
    /\ orders \in Seq(OrderRecords)
    /\ shipment \in Seq(Shipments)
    /\ request \in [Handler -> Requests]
    /\ Len(orders) <= MaxOrders

(* How far the seeding is; nothing is sold before the shelf and the        *)
(* wallets are there, and nothing is served while the service is not up.   *)
Seeding ==
    /\ life \notin {"down", "products"} => "products" \in filled
    /\ life = "products" => "products" \notin filled
    /\ "wallets" \in filled => "api_keys" \in filled
    /\ life = "api_keys" => "api_keys" \notin filled
    /\ life \in {"wallets", "riders", "customers"} => "api_keys" \in filled
    /\ life = "wallets" => "wallets" \notin filled
    /\ orders # << >> => "products" \in filled /\ "wallets" \in filled
    /\ life # "up" => \A h \in Handler : Free(h)

(* The order that a request for goods has led to.                          *)
Ordered(r, h) ==
    [customer |-> r.owner, item |-> r.item, quantity |-> r.quantity,
     cost |-> r.quantity * Price[r.item], via |-> h]

(* What a request has found out and still relies on, whatever the others   *)
(* have written meanwhile (in the collections fi, st, ba, os and sh).      *)
OrderOK(h, r, fi, st, ba, os) ==
    /\ r.pc \in {"reserve", "pay", "insert"} => r.order = 0
    /\ r.pc \in {"pay", "insert"} => r.item \in Item /\ st[r.item] >= r.quantity
    /\ r.pc = "insert" => /\ "wallets" \in fi
                          /\ r.owner \in Customer
                          /\ ba[r.owner] >= r.quantity * Price[r.item]
    /\ r.pc = "notify" \/ (r.pc = "answered" /\ r.code = 200) =>
          /\ r.order \in DOMAIN os
          /\ os[r.order] = Ordered(r, h)
    /\ r.pc = "answered" /\ r.code \in 400 .. 499 => r.order = 0

AssignOK(r, sh) ==
    /\ r.pc \in {"write", "update"} => r.order \in DOMAIN sh
    /\ r.pc = "update" => r.rider \in Rider
    /\ r.pc = "notify" \/ (r.pc = "answered" /\ r.code = 200) =>
          /\ r.order \in DOMAIN sh
          /\ r.rider \in Rider
          /\ sh[r.order].rider = r.rider

AdvanceOK(r, sh) ==
    r.pc = "update" => /\ r.order \in DOMAIN sh
                       /\ r.seen \in States
                       /\ r.status \in NextStatus[r.seen]

RequestOK(h, r, fi, st, ba, os, sh) ==
    /\ r.kind = "order" => OrderOK(h, r, fi, st, ba, os)
    /\ r.kind = "assign" => AssignOK(r, sh)
    /\ r.kind = "advance" => AdvanceOK(r, sh)

RequestsOK ==
    \A h \in Handler :
        RequestOK(h, request[h], filled, stock, balance, orders, shipment)

(* Two open transactions have written no document in common.               *)
Opened(r)   == r.kind = "order" /\ r.pc \in {"pay", "insert"}
Apart(r, s) ==
    Opened(r) /\ Opened(s) =>
        /\ r.item # s.item
        /\ r.pc = "insert" /\ s.pc = "insert" => r.owner # s.owner

Isolation == \A h, g \in Handler : h # g => Apart(request[h], request[g])

(* A shipment that waits for a rider has none.                             *)
PendingIsFree ==
    \A o \in DOMAIN shipment :
        shipment[o].status = "pending" => shipment[o].rider = Nobody

ServiceOK ==
    /\ Types
    /\ Seeding
    /\ RequestsOK
    /\ Isolation
    /\ PendingIsFree
    /\ BooksBalance

-----------------------------------------------------------------------------
(* The inductive invariant of the pipelines.                               *)

Own(p) == {o \in DOMAIN orders : orders[o].via = Os(p)}

BoughtBy(p) ==
    [customer |-> Shopper.owner, item |-> Wanted, quantity |-> Amount,
     cost |-> Amount * Price[Wanted], via |-> Os(p)]

PipeTypes ==
    /\ pipe \in [Pipeline -> [pc : {"checks", "posting", "polling", "reported"},
                              wallet : Int, price : Int, order : Nat,
                              success : BOOLEAN]]
    /\ dispatcher \in [Pipeline -> {"waiting", "deciding", "posting", "done", "raised"}]
    /\ queue \in [Pipeline -> Seq(Nat)]

(* The one request of a pipeline is made when it has made none, asks for   *)
(* what the pipeline wants, and leads to one order.                        *)
PipeOK(p) ==
    LET r == request[Os(p)]
    IN  /\ r.kind \in {"none", "order"}
        /\ r.kind = "order" /\ r \notin RefusedRequests =>
              r.owner = Shopper.owner /\ r.quantity = Amount
        /\ pipe[p].pc = "checks" => r.kind = "none"
        /\ r.pc \in {"idle", "reserve", "pay", "insert"} => Own(p) = {}
        /\ \A o, q \in Own(p) : o = q
        /\ pipe[p].pc \in {"checks", "posting"} => ~ pipe[p].success
        /\ pipe[p].pc = "polling" \/ pipe[p].success =>
              /\ pipe[p].order \in DOMAIN orders
              /\ orders[pipe[p].order] = BoughtBy(p)
        /\ pipe[p].success => pipe[p].pc = "reported" /\ NoLongerPending(pipe[p].order)
        /\ dispatcher[p] # "waiting" => queue[p] # << >>

PipelinesOK ==
    /\ PipeTypes
    /\ \A p \in Pipeline : PipeOK(p)

-----------------------------------------------------------------------------
(* Requests.                                                               *)

Active(r) == r.pc \notin {"idle", "answered"}

Answered(r, code) == [r EXCEPT !.pc = "answered", !.code = code]

(* A request in progress has the fields of its kind.                       *)
LEMMA RequestKinds ==
    ASSUME NEW r \in Requests
    PROVE  /\ r.kind \in Kinds \cup {"none"}
           /\ r.kind = "none" <=> r = Idle
           /\ r = Idle => r.pc = "idle"
           /\ r.pc = "idle" => r = Idle
           /\ r.kind = "order" /\ (r.pc # "answered" \/ r.code = 200) => r \in OrderRequests
           /\ r.kind = "assign" /\ (r.pc # "answered" \/ r.code = 200) => r \in AssignRequests
           /\ r.kind = "advance" /\ r.pc # "answered" => r \in AdvanceRequests
<1>1. CASE r = Idle
    BY <1>1 DEF Idle, Kinds
<1>2. CASE r \in RefusedRequests
    BY <1>2 DEF RefusedRequests, Kinds, Idle
<1>3. CASE r \in OrderRequests
    BY <1>3 DEF OrderRequests, Kinds, Idle
<1>4. CASE r \in AssignRequests
    BY <1>4 DEF AssignRequests, Kinds, Idle
<1>5. CASE r \in AdvanceRequests
    BY <1>5 DEF AdvanceRequests, Kinds, Idle
<1> QED BY <1>1, <1>2, <1>3, <1>4, <1>5 DEF Requests

(* An answer keeps what the request was about.                             *)
LEMMA AnsweredType ==
    ASSUME NEW r \in Requests, Active(r), NEW code \in Nat
    PROVE  /\ Answered(r, code) \in Requests
           /\ Answered(r, code).pc = "answered"
           /\ Answered(r, code).code = code
           /\ Answered(r, code).kind = r.kind
           /\ r.kind = "order" => /\ Answered(r, code) \in OrderRequests
                                  /\ Answered(r, code).order = r.order
                                  /\ \A h : Ordered(Answered(r, code), h) = Ordered(r, h)
           /\ r.kind = "assign" => /\ Answered(r, code).order = r.order
                                   /\ Answered(r, code).rider = r.rider
<1>1. CASE r \in OrderRequests
    BY <1>1 DEF OrderRequests, Answered, Requests, Ordered
<1>2. CASE r \in AssignRequests
    BY <1>2 DEF AssignRequests, Answered, Requests
<1>3. CASE r \in AdvanceRequests
    BY <1>3 DEF AdvanceRequests, Answered, Requests
<1> QED BY <1>1, <1>2, <1>3, RequestKinds DEF Active, Kinds, Idle

LEMMA AnswerIsOneRequest ==
    ASSUME request \in [Handler -> Requests], NEW h \in Handler,
           NEW code, Answer(h, code)
    PROVE  request' = [request EXCEPT ![h] = Answered(request[h], code)]
BY DEF Answer, Answered

(* Going on to the next await keeps everything but the place.              *)
Moved(r, pc) == [r EXCEPT !.pc = pc]

LEMMA ToIsOneRequest ==
    ASSUME request \in [Handler -> Requests], NEW h \in Handler,
           NEW pc, To(h, pc)
    PROVE  request' = [request EXCEPT ![h] = Moved(request[h], pc)]
BY DEF To, Moved

LEMMA MovedType ==
    ASSUME NEW r \in Requests, Active(r), NEW pc
    PROVE  /\ Moved(r, pc).pc = pc
           /\ Moved(r, pc).kind = r.kind
           /\ r.kind = "order" =>
                 /\ pc \in {"pay", "insert", "notify"} =>
                       Moved(r, pc) \in OrderRequests
                 /\ Moved(r, pc).order = r.order
                 /\ Moved(r, pc).item = r.item
                 /\ Moved(r, pc).owner = r.owner
                 /\ Moved(r, pc).quantity = r.quantity
                 /\ \A h : Ordered(Moved(r, pc), h) = Ordered(r, h)
           /\ r.kind = "assign" =>
                 /\ pc \in {"write", "update", "notify"} =>
                       Moved(r, pc) \in AssignRequests
                 /\ Moved(r, pc).order = r.order
                 /\ Moved(r, pc).rider = r.rider
           /\ r.kind = "advance" /\ pc = "notify" => Moved(r, pc) \in AdvanceRequests
<1>1. CASE r \in OrderRequests
    BY <1>1 DEF OrderRequests, Moved, Ordered
<1>2. CASE r \in AssignRequests
    BY <1>2 DEF AssignRequests, Moved
<1>3. CASE r \in AdvanceRequests
    BY <1>3 DEF AdvanceRequests, Moved
<1> QED BY <1>1, <1>2, <1>3, RequestKinds DEF Active, Kinds, Idle

-----------------------------------------------------------------------------
(* Books.                                                                  *)

(* The books of an empty list of orders.                                   *)
LEMMA NothingTaken ==
    ASSUME NEW first \in Nat, NEW taken, Len(taken) = 0, DOMAIN taken = {}
    PROVE  Explains(first, taken, first)
<1> DEFINE left == [n \in 0..0 |-> first]
<1>1. left \in [0..Len(taken) -> 0..first] /\ left[0] = first
    OBVIOUS
<1> QED BY <1>1 DEF Explains

(* One more order that takes no more than there is.                        *)
LEMMA OneMoreTaken ==
    ASSUME NEW first \in Nat, NEW now \in Nat, NEW k \in Nat, k <= now,
           NEW n \in Nat, NEW taken, NEW more,
           Len(taken) = n, DOMAIN taken = 1..n,
           Len(more) = n + 1, DOMAIN more = 1..(n + 1),
           \A o \in 1..n : more[o] = taken[o],
           more[n + 1] = k,
           Explains(first, taken, now)
    PROVE  Explains(first, more, now - k)
<1>1. PICK left \in [0..n -> 0..first] :
          /\ left[0] = first
          /\ \A o \in 1..n : left[o] = left[o - 1] - taken[o]
          /\ left[n] = now
    BY DEF Explains
<1> DEFINE after == [o \in 0..(n + 1) |-> IF o = n + 1 THEN now - k ELSE left[o]]
<1>2. now \in 0..first
    BY <1>1
<1>3. now - k \in 0..first
    BY <1>2
<1>4. after \in [0..(n + 1) -> 0..first]
    BY <1>1, <1>3
<1>5. after[0] = first /\ after[n + 1] = now - k
    BY <1>1
<1>6. ASSUME NEW o \in 1..(n + 1)
      PROVE  after[o] = after[o - 1] - more[o]
  <2>1. CASE o = n + 1
    <3>1. after[o - 1] = now /\ after[o] = now - k
        BY <1>1, <2>1
    <3> QED BY <2>1, <3>1
  <2>2. CASE o \in 1..n
    <3>1. after[o - 1] = left[o - 1] /\ after[o] = left[o]
        BY <2>2
    <3> QED BY <2>2, <3>1, <1>1
  <2> QED BY <2>1, <2>2
<1> QED BY <1>4, <1>5, <1>6 DEF Explains

-----------------------------------------------------------------------------
(* What the steps of the service leave alone.                              *)

LEMMA ServiceFacts ==
    ASSUME ServiceOK, NEW h \in Handler
    PROVE  /\ Types
           /\ request[h] \in Requests
           /\ RequestOK(h, request[h], filled, stock, balance, orders, shipment)
           /\ \A g \in Handler \ {h} : /\ Apart(request[h], request[g])
                                       /\ Apart(request[g], request[h])
BY DEF ServiceOK, Types, RequestsOK, Isolation

LEMMA TypesAreOK == Types => TypeOK
BY DEF Types, TypeOK, AfterSeeding

(* The books depend on stock, money, orders and whom shipments are for.    *)
LEMMA SameBooks ==
    ASSUME BooksBalance, Types', UNCHANGED << filled, stock, balance, orders >>,
           Len(shipment') = Len(shipment),
           \A o \in DOMAIN orders : shipment'[o].customer = shipment[o].customer
    PROVE  BooksBalance'
<1>1. TypeOK'
    BY TypesAreOK DEF Types, TypeOK, AfterSeeding
<1>2. /\ \A i : Units(i)' = Units(i)
      /\ \A c : Charges(c)' = Charges(c)
    BY DEF Units, Charges
<1>3. /\ "products" \in filled' =>
            \A i \in Item : Explains(FirstStock[i], Units(i)', stock'[i])
      /\ "wallets" \in filled' =>
            \A c \in Customer : Explains(FirstBalance[c], Charges(c)', balance'[c])
    BY <1>2 DEF BooksBalance
<1>4. /\ Len(shipment') = Len(orders')
      /\ \A o \in DOMAIN orders' : shipment'[o].customer = orders'[o].customer
    BY DEF BooksBalance
<1> QED BY <1>1, <1>3, <1>4 DEF BooksBalance

(* Only one request changes: it is enough to look at it.                   *)
LEMMA OneRequest ==
    ASSUME ServiceOK, life = "up", NEW h \in Handler, NEW r \in Requests,
           request' = [request EXCEPT ![h] = r],
           UNCHANGED << life, filled, stock, balance, orders, shipment >>,
           RequestOK(h, r, filled, stock, balance, orders, shipment),
           \A g \in Handler \ {h} : Apart(r, request[g]) /\ Apart(request[g], r)
    PROVE  ServiceOK'
<1>1. request' \in [Handler -> Requests]
    BY DEF ServiceOK, Types
<1>2. request'[h] = r /\ \A g \in Handler \ {h} : request'[g] = request[g]
    BY DEF ServiceOK, Types
<1>3. Types'
    BY <1>1 DEF ServiceOK, Types
<1>4. Seeding'
    BY DEF ServiceOK, Seeding
<1>5. RequestsOK'
    BY <1>2 DEF ServiceOK, RequestsOK
<1>6. Isolation'
    BY <1>2 DEF ServiceOK, Isolation
<1>7. PendingIsFree'
    BY DEF ServiceOK, PendingIsFree
<1>8. BooksBalance'
    BY <1>3, SameBooks DEF ServiceOK
<1> QED BY <1>3, <1>4, <1>5, <1>6, <1>7, <1>8 DEF ServiceOK

(* Nothing changes.                                                        *)
LEMMA NoServiceChange ==
    ASSUME ServiceOK, UNCHANGED service
    PROVE  ServiceOK'
<1>1. UNCHANGED << life, filled, stock, balance, orders, shipment, request >>
    BY DEF service
<1>2. Types' /\ Seeding' /\ RequestsOK' /\ Isolation' /\ PendingIsFree'
    BY <1>1 DEF ServiceOK, Types, Seeding, RequestsOK, Isolation, PendingIsFree, Free
<1>3. BooksBalance'
    BY <1>1, <1>2, SameBooks DEF ServiceOK
<1> QED BY <1>2, <1>3 DEF ServiceOK

(* A request that is answered, or that starts with nothing to rely on.     *)
LEMMA ClosedIsApart ==
    ASSUME NEW r, NEW s, ~ Opened(r)
    PROVE  Apart(r, s) /\ Apart(s, r)
BY DEF Apart

(* A handler that answers and has written nothing, with a code that claims *)
(* nothing.                                                                *)
LEMMA AnswerStep ==
    ASSUME ServiceOK, life = "up", NEW h \in Handler, Active(request[h]),
           NEW code \in Nat \ {200}, Answer(h, code),
           code \in 400 .. 499 => request[h].pc # "notify",
           UNCHANGED << life, filled, stock, balance, orders, shipment >>
    PROVE  ServiceOK'
<1> DEFINE r == request[h]
           a == Answered(r, code)
<1>1. r \in Requests /\ RequestOK(h, r, filled, stock, balance, orders, shipment)
      /\ request \in [Handler -> Requests]
    BY ServiceFacts DEF Types
<1>2. request' = [request EXCEPT ![h] = a]
    BY <1>1, AnswerIsOneRequest
<1>3. /\ a \in Requests /\ a.pc = "answered" /\ a.code = code /\ a.kind = r.kind
      /\ r.kind = "order" => a.order = r.order
    BY <1>1, AnsweredType
<1>4. r.kind = "order" /\ code \in 400 .. 499 => r.order = 0
  <2>1. r.kind = "order" => r \in OrderRequests
      BY <1>1, RequestKinds DEF Active
  <2>2. r.kind = "order" => r.pc \in {"reserve", "pay", "insert", "notify"}
      BY <2>1 DEF Active, OrderRequests
  <2> QED BY <1>1, <2>2 DEF RequestOK, OrderOK
<1> HIDE DEF a, r
<1>5. RequestOK(h, a, filled, stock, balance, orders, shipment)
    BY <1>3, <1>4 DEF RequestOK, OrderOK, AssignOK, AdvanceOK
<1>6. ~ Opened(a)
    BY <1>3 DEF Opened
<1> QED BY <1>2, <1>3, <1>5, <1>6, ClosedIsApart, OneRequest

(* A request reaches its handler.                                          *)
LEMMA ReceiveStep ==
    ASSUME ServiceOK, NEW h \in Handler, NEW r \in Requests, Receive(h, r),
           r \in RefusedRequests \/ r.pc = "look"
              \/ (r.pc = "reserve" /\ r.order = 0)
    PROVE  ServiceOK'
<1>1. /\ life = "up" /\ request' = [request EXCEPT ![h] = r]
      /\ UNCHANGED << life, filled, stock, balance, orders, shipment >>
    BY DEF Receive, store
<1>2. \/ r.pc = "answered" /\ r.code # 200 /\ r.order = 0
      \/ r.pc = "look"
      \/ r.pc = "reserve" /\ r.order = 0
    BY DEF RefusedRequests
<1>3. RequestOK(h, r, filled, stock, balance, orders, shipment) /\ ~ Opened(r)
    BY <1>2 DEF RequestOK, OrderOK, AssignOK, AdvanceOK, Opened
<1> QED BY <1>1, <1>3, ClosedIsApart, OneRequest

(* The others write what a request does not rely on: an order it has       *)
(* placed, a rider it has given and a reservation stay.                    *)
LEMMA OthersKeep ==
    ASSUME NEW h, NEW r, NEW fi, NEW st, NEW ba, NEW os, NEW sh,
           NEW fi2, NEW st2, NEW ba2, NEW os2, NEW sh2,
           RequestOK(h, r, fi, st, ba, os, sh),
           "wallets" \in fi => "wallets" \in fi2,
           Opened(r) => st2[r.item] = st[r.item],
           Opened(r) /\ r.pc = "insert" => ba2[r.owner] = ba[r.owner],
           \A o \in DOMAIN os : o \in DOMAIN os2 /\ os2[o] = os[o],
           \A o \in DOMAIN sh : /\ o \in DOMAIN sh2
                                /\ sh[o].rider # Nobody => sh2[o].rider = sh[o].rider
    PROVE  RequestOK(h, r, fi2, st2, ba2, os2, sh2)
<1>1. ASSUME r.kind = "order"
      PROVE  OrderOK(h, r, fi2, st2, ba2, os2)
  <2>1. OrderOK(h, r, fi, st, ba, os)
      BY <1>1 DEF RequestOK
  <2>2. r.pc \in {"pay", "insert"} => st2[r.item] = st[r.item]
      BY <1>1 DEF Opened
  <2>3. r.pc = "insert" => ba2[r.owner] = ba[r.owner]
      BY <1>1 DEF Opened
  <2> QED BY <2>1, <2>2, <2>3 DEF OrderOK
<1>2. ASSUME r.kind = "assign"
      PROVE  AssignOK(r, sh2)
    BY <1>2, NobodyAssumption DEF RequestOK, AssignOK
<1>3. ASSUME r.kind = "advance"
      PROVE  AdvanceOK(r, sh2)
    BY <1>3 DEF RequestOK, AdvanceOK
<1> QED BY <1>1, <1>2, <1>3 DEF RequestOK

-----------------------------------------------------------------------------
(* Orders.                                                                 *)

LEMMA OrderAt ==
    ASSUME ServiceOK, NEW h \in Handler, NEW pc \in {"reserve", "pay", "insert"},
           At(h, "order", pc)
    PROVE  /\ life = "up" /\ Active(request[h])
           /\ request[h] \in OrderRequests
           /\ request[h].kind = "order" /\ request[h].pc = pc
           /\ OrderOK(h, request[h], filled, stock, balance, orders)
           /\ request \in [Handler -> Requests]
<1>1. life = "up" /\ request[h].kind = "order" /\ request[h].pc = pc
    BY DEF At
<1>2. request[h] \in OrderRequests
    BY <1>1, ServiceFacts, RequestKinds
<1> QED BY <1>1, <1>2, ServiceFacts DEF RequestOK, Active, Types

LEMMA ReserveStep ==
    ASSUME ServiceOK, NEW h \in Handler, Reserve(h)
    PROVE  ServiceOK'
<1> DEFINE r == request[h]
           m == Moved(r, "pay")
<1>1. /\ At(h, "order", "reserve")
      /\ UNCHANGED << life, filled, stock, balance, orders, shipment >>
    BY DEF Reserve, store
<1>2. /\ life = "up" /\ Active(r) /\ r \in OrderRequests /\ r.kind = "order"
      /\ r.pc = "reserve" /\ r \in Requests
      /\ OrderOK(h, r, filled, stock, balance, orders)
      /\ request \in [Handler -> Requests]
    BY <1>1, OrderAt DEF Requests
<1>3. CASE ~ InStock(h)
  <2>1. Answer(h, 404) \/ Answer(h, 409)
      BY <1>3 DEF Reserve
  <2> QED BY <1>1, <1>2, <2>1, AnswerStep
<1>4. CASE InStock(h)
  <2>1. r.item \in Item /\ stock[r.item] >= r.quantity
      BY <1>4 DEF InStock, Sold
  <2>2. To(h, "pay") /\ ~ Locked(r.item)
      BY <1>4 DEF Reserve, InStock
  <2>3. request' = [request EXCEPT ![h] = m]
      BY <1>2, <2>2, ToIsOneRequest
  <2>4. /\ m.pc = "pay" /\ m.kind = "order" /\ m \in Requests /\ m.order = r.order
        /\ m.item = r.item /\ m.quantity = r.quantity
      BY <1>2, MovedType DEF Requests
  <2>5. r.order = 0
      BY <1>2 DEF OrderOK
  <2>6. \A g \in Handler : Opened(request[g]) => request[g].item # r.item
      BY <2>2 DEF Locked, Writes, Open, Opened
  <2> HIDE DEF r, m
  <2>7. RequestOK(h, m, filled, stock, balance, orders, shipment)
      BY <2>1, <2>4, <2>5 DEF RequestOK, OrderOK
  <2>8. \A g \in Handler \ {h} : Apart(m, request[g]) /\ Apart(request[g], m)
      BY <2>4, <2>6 DEF Apart
  <2> QED BY <1>1, <1>2, <2>3, <2>4, <2>7, <2>8, OneRequest
<1> QED BY <1>3, <1>4

LEMMA PayStep ==
    ASSUME ServiceOK, NEW h \in Handler, Pay(h)
    PROVE  ServiceOK'
<1> DEFINE r == request[h]
           m == Moved(r, "insert")
<1>1. /\ At(h, "order", "pay")
      /\ UNCHANGED << life, filled, stock, balance, orders, shipment >>
    BY DEF Pay, AfterAbort
<1>2. /\ life = "up" /\ Active(r) /\ r \in OrderRequests /\ r.kind = "order"
      /\ r.pc = "pay" /\ r \in Requests
      /\ OrderOK(h, r, filled, stock, balance, orders)
      /\ request \in [Handler -> Requests]
    BY <1>1, OrderAt DEF Requests
<1>3. CASE ~ CanPay(h)
  <2>1. Answer(h, 402)
      BY <1>3 DEF Pay
  <2> QED BY <1>1, <1>2, <2>1, AnswerStep
<1>4. CASE CanPay(h)
  <2>1. /\ "wallets" \in filled /\ r.owner \in Customer
        /\ balance[r.owner] >= r.quantity * Price[r.item]
      BY <1>4 DEF CanPay, Cost
  <2>2. To(h, "insert") /\ ~ Locked(r.owner)
      BY <1>4 DEF Pay
  <2>3. request' = [request EXCEPT ![h] = m]
      BY <1>2, <2>2, ToIsOneRequest
  <2>4. /\ m.pc = "insert" /\ m.kind = "order" /\ m \in Requests /\ m.order = r.order
        /\ m.item = r.item /\ m.quantity = r.quantity /\ m.owner = r.owner
      BY <1>2, MovedType DEF Requests
  <2>5. r.order = 0 /\ r.item \in Item /\ stock[r.item] >= r.quantity
      BY <1>2 DEF OrderOK
  <2>6. \A g \in Handler \ {h} :
            Opened(request[g]) =>
                /\ request[g].item # r.item
                /\ request[g].pc = "insert" => request[g].owner # r.owner
    <3> SUFFICES ASSUME NEW g \in Handler \ {h}, Opened(request[g])
                 PROVE  /\ request[g].item # r.item
                        /\ request[g].pc = "insert" => request[g].owner # r.owner
        OBVIOUS
    <3>1. Apart(r, request[g]) /\ Opened(r)
        BY <1>2, ServiceFacts DEF Opened
    <3>2. ~ Writes(g, r.owner)
        BY <2>2 DEF Locked
    <3> QED BY <3>1, <3>2 DEF Apart, Writes, Open, Opened
  <2> HIDE DEF r, m
  <2>7. RequestOK(h, m, filled, stock, balance, orders, shipment)
      BY <2>1, <2>4, <2>5 DEF RequestOK, OrderOK
  <2>8. \A g \in Handler \ {h} : Apart(m, request[g]) /\ Apart(request[g], m)
      BY <2>4, <2>6 DEF Apart
  <2> QED BY <1>1, <1>2, <2>3, <2>4, <2>7, <2>8, OneRequest
<1> QED BY <1>3, <1>4

LEMMA CommittedType ==
    ASSUME NEW r \in OrderRequests, NEW k \in Nat
    PROVE  LET c == [r EXCEPT !.pc = "notify", !.order = k]
           IN  /\ c \in OrderRequests /\ c.pc = "notify" /\ c.kind = "order"
               /\ c.order = k
               /\ \A g : Ordered(c, g) = Ordered(r, g)
BY DEF OrderRequests, Ordered

(* The commit: one more order, paid and taken from the shelf.              *)
LEMMA CommitFacts ==
    ASSUME ServiceOK, NEW h \in Handler, Commit(h)
    PROVE  LET r == request[h]
               n == Len(orders)
               cost == r.quantity * Price[r.item]
               c == [r EXCEPT !.pc = "notify", !.order = n + 1]
           IN  /\ life = "up" /\ n < MaxOrders
               /\ r \in OrderRequests /\ r.kind = "order" /\ r.pc = "insert"
               /\ r.item \in Item /\ r.owner \in Customer /\ "wallets" \in filled
               /\ cost \in Nat
               /\ stock[r.item] >= r.quantity /\ balance[r.owner] >= cost
               /\ stock' = [stock EXCEPT ![r.item] = @ - r.quantity]
               /\ balance' = [balance EXCEPT ![r.owner] = @ - cost]
               /\ orders' = Append(orders, Ordered(r, h))
               /\ Ordered(r, h) \in OrderRecords
               /\ shipment' = Append(shipment, NewShipment(h))
               /\ NewShipment(h) \in Shipments
               /\ request' = [request EXCEPT ![h] = c]
               /\ c \in OrderRequests /\ c.pc = "notify" /\ c.kind = "order"
               /\ c.order = n + 1
               /\ \A g : Ordered(c, g) = Ordered(r, g)
               /\ UNCHANGED << life, filled, crashes >>
<1> DEFINE r == request[h]
           n == Len(orders)
           cost == r.quantity * Price[r.item]
           c == [r EXCEPT !.pc = "notify", !.order = n + 1]
<1>1. /\ At(h, "order", "insert") /\ n < MaxOrders
      /\ UNCHANGED << life, filled, crashes >>
    BY DEF Commit
<1>2. /\ life = "up" /\ r \in OrderRequests /\ r.kind = "order" /\ r.pc = "insert"
      /\ OrderOK(h, r, filled, stock, balance, orders)
      /\ request \in [Handler -> Requests]
    BY <1>1, OrderAt
<1>3. /\ r.item \in Item /\ r.owner \in Customer /\ "wallets" \in filled
      /\ stock[r.item] >= r.quantity /\ balance[r.owner] >= cost
    BY <1>2 DEF OrderOK
<1>4. r.quantity \in Nat \ {0} /\ Price[r.item] \in Nat /\ cost \in Nat
  <2>1. r.quantity \in Nat \ {0} /\ Price[r.item] \in Nat
      BY <1>2, <1>3, CatalogueAssumption DEF OrderRequests
  <2> QED BY <2>1
<1>5. /\ stock' = [stock EXCEPT ![r.item] = @ - r.quantity]
      /\ balance' = [balance EXCEPT ![r.owner] = @ - cost]
      /\ orders' = Append(orders, Ordered(r, h))
      /\ shipment' = Append(shipment, NewShipment(h))
    BY DEF Commit, Cost, Ordered, WithShipment
<1>6. request' = [request EXCEPT ![h] = c]
    BY <1>2 DEF Commit
<1>7. n \in Nat
    BY DEF ServiceOK, Types
<1>8. /\ c \in OrderRequests /\ c.pc = "notify" /\ c.kind = "order"
      /\ c.order = n + 1
      /\ \A g : Ordered(c, g) = Ordered(r, g)
  <2>1. n + 1 \in Nat
      BY <1>7
  <2> HIDE DEF n, r
  <2> QED BY <1>2, <2>1, CommittedType
<1>9. Ordered(r, h) \in OrderRecords
    BY <1>3, <1>4 DEF Ordered, OrderRecords
<1>10. NewShipment(h) \in Shipments
    BY <1>3 DEF NewShipment, Shipments, States
<1> QED BY <1>1, <1>2, <1>3, <1>4, <1>5, <1>6, <1>8, <1>9, <1>10

LEMMA CommitStep ==
    ASSUME ServiceOK, NEW h \in Handler, Commit(h)
    PROVE  ServiceOK'
<1> DEFINE r == request[h]
           n == Len(orders)
           cost == r.quantity * Price[r.item]
           c == [r EXCEPT !.pc = "notify", !.order = n + 1]
           new == Ordered(r, h)
           ship == NewShipment(h)
<1>1. /\ life = "up" /\ n < MaxOrders /\ life' = life /\ filled' = filled
      /\ r \in OrderRequests /\ r.kind = "order" /\ r.pc = "insert"
      /\ r.item \in Item /\ r.owner \in Customer /\ "wallets" \in filled
      /\ cost \in Nat
      /\ stock[r.item] >= r.quantity /\ balance[r.owner] >= cost
      /\ stock' = [stock EXCEPT ![r.item] = @ - r.quantity]
      /\ balance' = [balance EXCEPT ![r.owner] = @ - cost]
      /\ orders' = Append(orders, new) /\ new \in OrderRecords
      /\ shipment' = Append(shipment, ship) /\ ship \in Shipments
      /\ request' = [request EXCEPT ![h] = c]
      /\ c \in OrderRequests /\ c.pc = "notify" /\ c.kind = "order"
      /\ c.order = n + 1
      /\ Ordered(c, h) = new
    BY CommitFacts
<1>2. /\ new.customer = r.owner /\ new.item = r.item /\ new.quantity = r.quantity
      /\ new.cost = cost
      /\ ship.customer = r.owner /\ ship.status = "pending" /\ ship.rider = Nobody
      /\ r.quantity \in Nat
    BY <1>1 DEF Ordered, NewShipment, OrderRequests
<1> HIDE DEF c, new, ship, cost
<1>3. /\ Types /\ Seeding /\ RequestsOK /\ Isolation /\ PendingIsFree /\ BooksBalance
      /\ Len(shipment) = n
      /\ n \in Nat
    BY DEF ServiceOK, BooksBalance, Types
<1>4. /\ orders' \in Seq(OrderRecords) /\ Len(orders') = n + 1
      /\ DOMAIN orders = 1..n /\ DOMAIN orders' = 1..(n + 1)
      /\ \A o \in 1..n : orders'[o] = orders[o]
      /\ orders'[n + 1] = new
    BY <1>1, <1>3 DEF Types
<1>5. /\ shipment' \in Seq(Shipments) /\ Len(shipment') = n + 1
      /\ DOMAIN shipment = 1..n /\ DOMAIN shipment' = 1..(n + 1)
      /\ \A o \in 1..n : shipment'[o] = shipment[o]
      /\ shipment'[n + 1] = ship
    BY <1>1, <1>3 DEF Types
<1>6. /\ request' \in [Handler -> Requests] /\ request'[h] = c
      /\ \A g \in Handler \ {h} : request'[g] = request[g]
    BY <1>1, <1>3 DEF Types, Requests
<1>7. /\ stock' \in [Item -> Nat] /\ stock'[r.item] = stock[r.item] - r.quantity
      /\ \A i \in Item \ {r.item} : stock'[i] = stock[i]
  <2>1. stock[r.item] \in Nat /\ stock[r.item] - r.quantity \in Nat
      BY <1>1, <1>2, <1>3 DEF Types
  <2> QED BY <1>1, <1>3, <2>1 DEF Types
<1>8. /\ balance' \in [Customer -> Nat] /\ balance'[r.owner] = balance[r.owner] - cost
      /\ \A k \in Customer \ {r.owner} : balance'[k] = balance[k]
  <2>1. balance[r.owner] \in Nat /\ balance[r.owner] - cost \in Nat
      BY <1>1, <1>3 DEF Types
  <2> QED BY <1>1, <1>3, <2>1 DEF Types
<1> HIDE DEF n
<1>9. Types'
  <2>1. Len(orders') <= MaxOrders
      BY <1>1, <1>3, <1>4, BoundsAssumption
  <2> QED BY <2>1, <1>1, <1>3, <1>4, <1>5, <1>6, <1>7, <1>8 DEF Types
<1>10. Seeding'
    BY <1>1, <1>3 DEF Seeding
<1>11. RequestsOK'
  <2> SUFFICES ASSUME NEW g \in Handler
               PROVE  RequestOK(g, request'[g], filled', stock', balance', orders',
                                shipment')
      BY DEF RequestsOK
  <2>1. CASE g = h
    <3>1. c.order \in DOMAIN orders' /\ orders'[c.order] = Ordered(c, h)
        BY <1>1, <1>3, <1>4
    <3>2. OrderOK(h, c, filled', stock', balance', orders')
        BY <1>1, <3>1 DEF OrderOK
    <3> QED BY <1>1, <1>6, <2>1, <3>2 DEF RequestOK
  <2>2. CASE g # h
    <3>1. /\ request'[g] = request[g] /\ g \in Handler \ {h}
          /\ RequestOK(g, request[g], filled, stock, balance, orders, shipment)
        BY <1>3, <1>6, <2>2 DEF RequestsOK
    <3>2. Opened(r) /\ Apart(request[g], r)
        BY <1>1, <1>3, <2>2 DEF Isolation, Opened
    <3>3. Opened(request[g]) => stock'[request[g].item] = stock[request[g].item]
        BY <1>7, <3>1, <3>2 DEF Apart, RequestOK, OrderOK, Opened
    <3>4. Opened(request[g]) /\ request[g].pc = "insert" =>
              balance'[request[g].owner] = balance[request[g].owner]
        BY <1>1, <1>8, <3>1, <3>2 DEF Apart, RequestOK, OrderOK, Opened
    <3>5. /\ \A o \in DOMAIN orders : o \in DOMAIN orders' /\ orders'[o] = orders[o]
          /\ \A o \in DOMAIN shipment : o \in DOMAIN shipment' /\ shipment'[o] = shipment[o]
        BY <1>3, <1>4, <1>5
    <3>6. filled' = filled
        BY <1>1
    <3> QED BY <3>1, <3>3, <3>4, <3>5, <3>6, OthersKeep
  <2> QED BY <2>1, <2>2
<1>12. Isolation'
  <2>1. ~ Opened(c)
      BY <1>1 DEF Opened
  <2>2. \A g, k \in Handler : g # k => Apart(request'[g], request'[k])
      BY <1>3, <1>6, <2>1, ClosedIsApart DEF Isolation
  <2> QED BY <2>2 DEF Isolation
<1>13. PendingIsFree'
  <2> SUFFICES ASSUME NEW o \in 1..(n + 1), shipment'[o].status = "pending"
               PROVE  shipment'[o].rider = Nobody
      BY <1>5 DEF PendingIsFree
  <2>1. CASE o = n + 1
      BY <1>2, <1>5, <2>1
  <2>2. CASE o \in 1..n
      BY <1>3, <1>5, <2>2 DEF PendingIsFree
  <2> QED BY <1>3, <2>1, <2>2
<1>14. BooksBalance'
  <2>1. ASSUME NEW i \in Item, "products" \in filled
        PROVE  Explains(FirstStock[i], Units(i)', stock'[i])
    <3> DEFINE k == IF r.item = i THEN r.quantity ELSE 0
    <3>1. Explains(FirstStock[i], Units(i), stock[i])
        BY <1>3, <2>1 DEF BooksBalance
    <3>2. Len(Units(i)) = n /\ DOMAIN Units(i) = 1..n
        BY <1>3, <1>4 DEF Units
    <3>3. /\ Len(Units(i)') = n + 1 /\ DOMAIN Units(i)' = 1..(n + 1)
          /\ \A o \in 1..n : Units(i)'[o] = Units(i)[o]
          /\ Units(i)'[n + 1] = k
        BY <1>2, <1>3, <1>4 DEF Units
    <3>4. /\ stock[i] \in Nat /\ k \in Nat /\ k <= stock[i]
          /\ stock'[i] = stock[i] - k /\ FirstStock[i] \in Nat
        BY <1>1, <1>2, <1>3, <1>7, CatalogueAssumption DEF Types
    <3> HIDE DEF k
    <3>5. Explains(FirstStock[i], Units(i)', stock[i] - k)
        BY <1>3, <3>1, <3>2, <3>3, <3>4, OneMoreTaken
    <3> QED BY <3>4, <3>5
  <2>2. ASSUME NEW u \in Customer
        PROVE  Explains(FirstBalance[u], Charges(u)', balance'[u])
    <3> DEFINE k == IF r.owner = u THEN cost ELSE 0
    <3>1. Explains(FirstBalance[u], Charges(u), balance[u])
        BY <1>1, <1>3 DEF BooksBalance
    <3>2. Len(Charges(u)) = n /\ DOMAIN Charges(u) = 1..n
        BY <1>3, <1>4 DEF Charges
    <3>3. /\ Len(Charges(u)') = n + 1 /\ DOMAIN Charges(u)' = 1..(n + 1)
          /\ \A o \in 1..n : Charges(u)'[o] = Charges(u)[o]
          /\ Charges(u)'[n + 1] = k
        BY <1>2, <1>3, <1>4 DEF Charges
    <3>4. /\ balance[u] \in Nat /\ k \in Nat /\ k <= balance[u]
          /\ balance'[u] = balance[u] - k /\ FirstBalance[u] \in Nat
        BY <1>1, <1>2, <1>3, <1>8, CatalogueAssumption DEF Types
    <3> HIDE DEF k
    <3>5. Explains(FirstBalance[u], Charges(u)', balance[u] - k)
        BY <1>3, <3>1, <3>2, <3>3, <3>4, OneMoreTaken
    <3> QED BY <3>4, <3>5
  <2>3. TypeOK'
      BY <1>9, TypesAreOK DEF Types, TypeOK, AfterSeeding
  <2>4. \A o \in 1..(n + 1) : shipment'[o].customer = orders'[o].customer
    <3>1. \A o \in 1..n : shipment[o].customer = orders[o].customer
        BY <1>3, <1>4 DEF BooksBalance
    <3> QED BY <3>1, <1>2, <1>3, <1>4, <1>5
  <2> QED BY <1>1, <1>4, <1>5, <2>1, <2>2, <2>3, <2>4 DEF BooksBalance
<1> QED BY <1>9, <1>10, <1>11, <1>12, <1>13, <1>14 DEF ServiceOK

-----------------------------------------------------------------------------
(* Shipments.                                                              *)

LEMMA AssignAt ==
    ASSUME ServiceOK, NEW h \in Handler, NEW pc \in {"look", "write", "update"},
           At(h, "assign", pc)
    PROVE  /\ life = "up" /\ Active(request[h]) /\ request[h] \in Requests
           /\ request[h] \in AssignRequests
           /\ request[h].kind = "assign" /\ request[h].pc = pc
           /\ AssignOK(request[h], shipment)
           /\ request \in [Handler -> Requests]
<1>1. life = "up" /\ request[h].kind = "assign" /\ request[h].pc = pc
    BY DEF At
<1>2. request[h] \in AssignRequests
    BY <1>1, ServiceFacts, RequestKinds
<1> QED BY <1>1, <1>2, ServiceFacts DEF RequestOK, Active, Types

(* An assignment that goes on without having written.                      *)
LEMMA AssignGoesOn ==
    ASSUME ServiceOK, NEW h \in Handler, NEW pc \in {"look", "write"},
           At(h, "assign", pc), NEW next \in {"write", "update"},
           To(h, next), Shipped(h), next = "update" => request[h].rider \in Rider,
           UNCHANGED << life, filled, stock, balance, orders, shipment >>
    PROVE  ServiceOK'
<1> DEFINE r == request[h]
           m == Moved(r, next)
<1>1. /\ life = "up" /\ Active(r) /\ r \in Requests /\ r.kind = "assign"
      /\ request \in [Handler -> Requests]
    BY AssignAt
<1>2. request' = [request EXCEPT ![h] = m]
    BY <1>1, ToIsOneRequest
<1>3. /\ m.pc = next /\ m.kind = "assign" /\ m \in Requests /\ m.order = r.order
      /\ m.rider = r.rider
    BY <1>1, MovedType DEF Requests
<1>4. r.order \in DOMAIN shipment
    BY DEF Shipped
<1> HIDE DEF m
<1>5. RequestOK(h, m, filled, stock, balance, orders, shipment) /\ ~ Opened(m)
    BY <1>3, <1>4 DEF RequestOK, AssignOK, Opened
<1> QED BY <1>1, <1>2, <1>3, <1>5, ClosedIsApart, OneRequest

LEMMA LookAssignStep ==
    ASSUME ServiceOK, NEW h \in Handler, LookAssign(h)
    PROVE  ServiceOK'
<1>1. /\ At(h, "assign", "look")
      /\ UNCHANGED << life, filled, stock, balance, orders, shipment >>
    BY DEF LookAssign, store
<1>2. CASE Shipped(h) /\ To(h, "write")
    BY <1>1, <1>2, AssignGoesOn
<1>3. CASE Answer(h, 404) \/ Answer(h, 409)
    BY <1>1, <1>3, AssignAt, AnswerStep
<1> QED BY <1>2, <1>3 DEF LookAssign

LEMMA FindRiderStep ==
    ASSUME ServiceOK, NEW h \in Handler, FindRider(h)
    PROVE  ServiceOK'
<1>1. /\ At(h, "assign", "write")
      /\ UNCHANGED << life, filled, stock, balance, orders, shipment >>
    BY DEF FindRider, store
<1>2. CASE RiderKnown(h) /\ To(h, "update")
  <2>1. Shipped(h)
      BY <1>1, AssignAt DEF AssignOK, Shipped
  <2> QED BY <1>1, <1>2, <2>1, AssignGoesOn DEF RiderKnown
<1>3. CASE Answer(h, 404)
    BY <1>1, <1>3, AssignAt, AnswerStep
<1> QED BY <1>2, <1>3 DEF FindRider

(* A shipment is written by the handler that goes on to notify.            *)
LEMMA ShipmentWritten ==
    ASSUME ServiceOK, life = "up", NEW h \in Handler, NEW o \in DOMAIN shipment,
           NEW s \in Shipments, NEW r \in Requests,
           shipment' = [shipment EXCEPT ![o] = s],
           s.customer = shipment[o].customer,
           shipment[o].rider # Nobody => s.rider = shipment[o].rider,
           s.status # "pending",
           request' = [request EXCEPT ![h] = r],
           ~ Opened(r),
           RequestOK(h, r, filled, stock, balance, orders, shipment'),
           UNCHANGED << life, filled, stock, balance, orders >>
    PROVE  ServiceOK'
<1>1. /\ Types /\ Seeding /\ RequestsOK /\ Isolation /\ PendingIsFree /\ BooksBalance
    BY DEF ServiceOK
<1>2. /\ shipment' \in Seq(Shipments) /\ Len(shipment') = Len(shipment)
      /\ DOMAIN shipment' = DOMAIN shipment
      /\ shipment'[o] = s
      /\ \A q \in DOMAIN shipment \ {o} : shipment'[q] = shipment[q]
    BY <1>1 DEF Types
<1>3. /\ request' \in [Handler -> Requests] /\ request'[h] = r
      /\ \A g \in Handler \ {h} : request'[g] = request[g]
    BY <1>1 DEF Types
<1>4. Types'
    BY <1>1, <1>2, <1>3 DEF Types
<1>5. Seeding'
    BY <1>1 DEF Seeding
<1>6. RequestsOK'
  <2> SUFFICES ASSUME NEW g \in Handler
               PROVE  RequestOK(g, request'[g], filled', stock', balance', orders',
                                shipment')
      BY DEF RequestsOK
  <2>1. CASE g = h
      BY <1>3, <2>1
  <2>2. CASE g # h
    <3>1. /\ request'[g] = request[g]
          /\ RequestOK(g, request[g], filled, stock, balance, orders, shipment)
        BY <1>1, <1>3, <2>2 DEF RequestsOK
    <3>2. \A q \in DOMAIN shipment :
              /\ q \in DOMAIN shipment'
              /\ shipment[q].rider # Nobody => shipment'[q].rider = shipment[q].rider
        BY <1>2
    <3>3. filled' = filled /\ stock' = stock /\ balance' = balance
        OBVIOUS
    <3>4. RequestOK(g, request[g], filled, stock, balance, orders, shipment')
        BY <3>1, <3>2, OthersKeep
    <3> QED BY <3>1, <3>3, <3>4
  <2> QED BY <2>1, <2>2
<1>7. Isolation'
  <2>1. \A g, k \in Handler : g # k => Apart(request'[g], request'[k])
      BY <1>1, <1>3, ClosedIsApart DEF Isolation
  <2> QED BY <2>1 DEF Isolation
<1>8. PendingIsFree'
    BY <1>1, <1>2 DEF PendingIsFree
<1>9. BooksBalance'
  <2>1. DOMAIN orders = DOMAIN shipment
      BY <1>1 DEF Types, BooksBalance
  <2>2. \A q \in DOMAIN orders : shipment'[q].customer = shipment[q].customer
      BY <1>2, <2>1
  <2> QED BY <1>1, <1>2, <1>4, <2>2, SameBooks
<1> QED BY <1>4, <1>5, <1>6, <1>7, <1>8, <1>9 DEF ServiceOK

(* What is read, where it is written: the handlers write only after they   *)
(* have checked the shipment again.                                        *)
LEMMA AssignFacts ==
    ASSUME ServiceOK, NEW h \in Handler, At(h, "assign", "update"), Unassigned(h)
    PROVE  LET r == request[h]
           IN  /\ r.order \in DOMAIN shipment
               /\ shipment[r.order] \in Shipments
               /\ shipment[r.order].status = "pending"
               /\ shipment[r.order].rider = Nobody
               /\ r.rider \in Rider
<1> DEFINE r == request[h]
<1>1. AssignOK(r, shipment) /\ r.pc = "update"
    BY AssignAt
<1>2. r.order \in DOMAIN shipment /\ r.rider \in Rider
    BY <1>1 DEF AssignOK
<1>3. shipment[r.order].status = "pending"
    BY DEF Unassigned, Ship
<1>4. shipment[r.order] \in Shipments
    BY <1>2 DEF ServiceOK, Types
<1> QED BY <1>2, <1>3, <1>4 DEF ServiceOK, PendingIsFree

LEMMA AssignStepOK ==
    ASSUME ServiceOK, NEW h \in Handler, Assign(h)
    PROVE  ServiceOK'
<1> DEFINE r == request[h]
           o == r.order
           s == [shipment[o] EXCEPT !.status = "assigned", !.rider = r.rider]
           m == Moved(r, "notify")
<1>1. /\ At(h, "assign", "update")
      /\ UNCHANGED << life, filled, stock, balance, orders >>
    BY DEF Assign
<1>2. /\ life = "up" /\ Active(r) /\ r \in Requests /\ r.kind = "assign"
      /\ r.pc = "update" /\ request \in [Handler -> Requests]
    BY <1>1, AssignAt
<1>3. CASE ~ Unassigned(h)
  <2>1. Answer(h, 409) /\ shipment' = shipment
      BY <1>3 DEF Assign
  <2> QED BY <1>1, <1>2, <2>1, AnswerStep
<1>4. CASE Unassigned(h)
  <2>1. /\ o \in DOMAIN shipment /\ shipment[o] \in Shipments /\ r.rider \in Rider
        /\ shipment[o].rider = Nobody
      BY <1>1, <1>4, AssignFacts
  <2>2. /\ shipment' = [shipment EXCEPT ![o].status = "assigned",
                                        ![o].rider = r.rider]
        /\ To(h, "notify")
      BY <1>4 DEF Assign
  <2>3. shipment' = [shipment EXCEPT ![o] = s]
      BY <2>1, <2>2
  <2>4. /\ s \in Shipments /\ s.customer = shipment[o].customer
        /\ s.rider = r.rider /\ s.status = "assigned"
    <3> HIDE DEF o, r
    <3> QED BY <2>1 DEF Shipments, States
  <2>5. request' = [request EXCEPT ![h] = m]
      BY <1>2, <2>2, ToIsOneRequest
  <2>6. /\ m.pc = "notify" /\ m.kind = "assign" /\ m \in Requests /\ m.order = o
        /\ m.rider = r.rider
      BY <1>2, MovedType DEF Requests
  <2>7. o \in DOMAIN shipment' /\ shipment'[o] = s
      BY <2>1, <2>3
  <2> HIDE DEF s, m, o, r
  <2>8. RequestOK(h, m, filled, stock, balance, orders, shipment') /\ ~ Opened(m)
      BY <2>1, <2>4, <2>6, <2>7 DEF RequestOK, AssignOK, Opened
  <2> QED BY <1>1, <1>2, <2>1, <2>3, <2>4, <2>5, <2>6, <2>8, ShipmentWritten
<1> QED BY <1>3, <1>4

LEMMA AdvanceAt ==
    ASSUME ServiceOK, NEW h \in Handler, NEW pc \in {"look", "update"},
           At(h, "advance", pc)
    PROVE  /\ life = "up" /\ Active(request[h]) /\ request[h] \in Requests
           /\ request[h] \in AdvanceRequests
           /\ request[h].kind = "advance" /\ request[h].pc = pc
           /\ AdvanceOK(request[h], shipment)
           /\ request \in [Handler -> Requests]
<1>1. life = "up" /\ request[h].kind = "advance" /\ request[h].pc = pc
    BY DEF At
<1>2. request[h] \in AdvanceRequests
    BY <1>1, ServiceFacts, RequestKinds
<1> QED BY <1>1, <1>2, ServiceFacts DEF RequestOK, Active, Types

LEMMA LookAdvanceStep ==
    ASSUME ServiceOK, NEW h \in Handler, LookAdvance(h)
    PROVE  ServiceOK'
<1> DEFINE r == request[h]
           m == [r EXCEPT !.pc = "update", !.seen = Ship(h).status]
<1>1. /\ At(h, "advance", "look")
      /\ UNCHANGED << life, filled, stock, balance, orders, shipment >>
    BY DEF LookAdvance, store
<1>2. /\ life = "up" /\ Active(r) /\ r \in AdvanceRequests /\ r.kind = "advance"
      /\ r.pc = "look" /\ r \in Requests /\ request \in [Handler -> Requests]
    BY <1>1, AdvanceAt
<1>3. CASE Answer(h, 404) \/ Answer(h, 403) \/ Answer(h, 409)
    BY <1>1, <1>2, <1>3, AnswerStep
<1>4. CASE /\ Shipped(h) /\ Legal(h)
           /\ request' = [request EXCEPT ![h].pc = "update",
                                         ![h].seen = Ship(h).status]
  <2>1. r.order \in DOMAIN shipment /\ shipment[r.order].status \in States
        /\ Ship(h).status = shipment[r.order].status
    <3>1. r.order \in DOMAIN shipment /\ shipment \in Seq(Shipments)
        BY <1>4 DEF Shipped, ServiceOK, Types
    <3>2. shipment[r.order] \in Shipments
        BY <3>1
    <3> QED BY <3>1, <3>2 DEF Ship, Shipments
  <2>2. request' = [request EXCEPT ![h] = m]
      BY <1>2, <1>4
  <2>3. /\ m.pc = "update" /\ m.kind = "advance" /\ m.order = r.order
        /\ m.seen = shipment[r.order].status /\ m.status = r.status
        /\ m \in AdvanceRequests
    <3> HIDE DEF r
    <3> QED BY <1>2, <2>1 DEF AdvanceRequests
  <2>4. r.status \in NextStatus[shipment[r.order].status]
      BY <1>4 DEF Legal, Ship
  <2> HIDE DEF m, r
  <2>5. RequestOK(h, m, filled, stock, balance, orders, shipment) /\ ~ Opened(m)
      BY <2>1, <2>3, <2>4 DEF RequestOK, AdvanceOK, Opened
  <2> QED BY <1>1, <1>2, <2>2, <2>3, <2>5, ClosedIsApart, OneRequest DEF Requests
<1> QED BY <1>3, <1>4 DEF LookAdvance

LEMMA AdvanceFacts ==
    ASSUME ServiceOK, NEW h \in Handler, At(h, "advance", "update"), Unchanged(h)
    PROVE  LET r == request[h]
           IN  /\ r.order \in DOMAIN shipment
               /\ shipment[r.order] \in Shipments
               /\ r.status \in NextStatus[shipment[r.order].status]
               /\ r.status \in States \ {"pending"}
<1> DEFINE r == request[h]
<1>1. AdvanceOK(r, shipment) /\ r.pc = "update"
    BY AdvanceAt
<1>2. /\ r.order \in DOMAIN shipment /\ r.seen \in States
      /\ r.status \in NextStatus[r.seen]
    BY <1>1 DEF AdvanceOK
<1>3. shipment[r.order].status = r.seen
    BY DEF Unchanged, Ship
<1>4. shipment[r.order] \in Shipments
    BY <1>2 DEF ServiceOK, Types
<1>5. r.status \in States \ {"pending"}
  <2> HIDE DEF r
  <2> QED BY <1>2 DEF NextStatus, States
<1> QED BY <1>2, <1>3, <1>4, <1>5

LEMMA AdvanceStep ==
    ASSUME ServiceOK, NEW h \in Handler, Advance(h)
    PROVE  ServiceOK'
<1> DEFINE r == request[h]
           o == r.order
           s == [shipment[o] EXCEPT !.status = r.status]
<1>1. /\ At(h, "advance", "update")
      /\ UNCHANGED << life, filled, stock, balance, orders >>
    BY DEF Advance
<1>2. /\ life = "up" /\ Active(r) /\ r \in Requests /\ r.kind = "advance"
      /\ r.pc = "update" /\ request \in [Handler -> Requests]
    BY <1>1, AdvanceAt
<1>3. CASE ~ Unchanged(h)
  <2>1. Answer(h, 409) /\ shipment' = shipment
      BY <1>3 DEF Advance
  <2> QED BY <1>1, <1>2, <2>1, AnswerStep
<1>4. CASE Unchanged(h)
  <2>1. /\ o \in DOMAIN shipment /\ shipment[o] \in Shipments
        /\ r.status \in States \ {"pending"}
      BY <1>1, <1>4, AdvanceFacts
  <2>2. /\ shipment' = [shipment EXCEPT ![o].status = r.status]
        /\ Answer(h, 200) \/ To(h, "notify")
      BY <1>4 DEF Advance
  <2>3. shipment' = [shipment EXCEPT ![o] = s]
      BY <2>1, <2>2
  <2>4. /\ s \in Shipments /\ s.customer = shipment[o].customer
        /\ s.rider = shipment[o].rider /\ s.status = r.status
    <3> HIDE DEF o, r
    <3> QED BY <2>1 DEF Shipments, States
  <2>5. PICK m \in Requests : /\ request' = [request EXCEPT ![h] = m]
                              /\ m.kind = "advance" /\ m.pc \in {"answered", "notify"}
    <3>1. CASE Answer(h, 200)
        BY <1>2, <3>1, AnswerIsOneRequest, AnsweredType
    <3>2. CASE To(h, "notify")
        BY <1>2, <3>2, ToIsOneRequest, MovedType DEF Requests
    <3> QED BY <2>2, <3>1, <3>2
  <2> HIDE DEF s, o, r
  <2>6. RequestOK(h, m, filled, stock, balance, orders, shipment') /\ ~ Opened(m)
      BY <2>5 DEF RequestOK, AdvanceOK, Opened
  <2> QED BY <1>1, <1>2, <2>1, <2>3, <2>4, <2>5, <2>6, ShipmentWritten
<1> QED BY <1>3, <1>4

(* The notification fails or not: the answer tells what was committed.     *)
LEMMA NotifyStep ==
    ASSUME ServiceOK, NEW h \in Handler, Notify(h)
    PROVE  ServiceOK'
<1> DEFINE r == request[h]
           a == Answered(r, 200)
<1>1. /\ life = "up" /\ r.pc = "notify"
      /\ UNCHANGED << life, filled, stock, balance, orders, shipment >>
      /\ Answer(h, 200) \/ Answer(h, 500)
    BY DEF Notify, store
<1>2. /\ Active(r) /\ r \in Requests /\ request \in [Handler -> Requests]
      /\ RequestOK(h, r, filled, stock, balance, orders, shipment)
    BY <1>1, ServiceFacts DEF Active, Types
<1>3. CASE Answer(h, 500)
    BY <1>1, <1>2, <1>3, AnswerStep
<1>4. CASE Answer(h, 200)
  <2>1. request' = [request EXCEPT ![h] = a]
      BY <1>2, <1>4, AnswerIsOneRequest
  <2>2. /\ a \in Requests /\ a.pc = "answered" /\ a.code = 200 /\ a.kind = r.kind
        /\ r.kind = "order" => a.order = r.order /\ Ordered(a, h) = Ordered(r, h)
        /\ r.kind = "assign" => a.order = r.order /\ a.rider = r.rider
      BY <1>2, AnsweredType
  <2> HIDE DEF a, r
  <2>3. a.kind = "order" => OrderOK(h, a, filled, stock, balance, orders)
      BY <1>1, <1>2, <2>2 DEF RequestOK, OrderOK
  <2>4. a.kind = "assign" => AssignOK(a, shipment)
      BY <1>1, <1>2, <2>2 DEF RequestOK, AssignOK
  <2>5. RequestOK(h, a, filled, stock, balance, orders, shipment) /\ ~ Opened(a)
      BY <2>2, <2>3, <2>4 DEF RequestOK, AdvanceOK, Opened
  <2> QED BY <1>1, <2>1, <2>2, <2>5, ClosedIsApart, OneRequest
<1> QED BY <1>1, <1>3, <1>4

-----------------------------------------------------------------------------
(* The process.                                                            *)

(* While nothing is being served, nothing relies on the store.             *)
LEMMA RestingRequest ==
    ASSUME NEW h, NEW r \in Requests, ~ Active(r),
           NEW fi, NEW st, NEW ba, NEW os, NEW sh, NEW fi2, NEW st2, NEW ba2,
           RequestOK(h, r, fi, st, ba, os, sh)
    PROVE  RequestOK(h, r, fi2, st2, ba2, os, sh)
BY DEF RequestOK, OrderOK, AssignOK, AdvanceOK, Active

LEMMA BootStep ==
    ASSUME ServiceOK, Boot
    PROVE  ServiceOK'
<1>1. /\ life = "down" /\ life' \in {"products", "api_keys", "up"}
      /\ life' = "products" => "products" \notin filled
      /\ life' # "products" => "products" \in filled
      /\ life' = "api_keys" => "api_keys" \notin filled
      /\ UNCHANGED << filled, stock, balance, orders, shipment, request >>
    BY DEF Boot, KeysMissing
<1>2. Types'
    BY <1>1 DEF ServiceOK, Types
<1>3. Seeding'
    BY <1>1 DEF ServiceOK, Seeding, Free
<1>4. RequestsOK' /\ Isolation' /\ PendingIsFree'
    BY <1>1 DEF ServiceOK, RequestsOK, Isolation, PendingIsFree
<1>5. BooksBalance'
    BY <1>1, <1>2, SameBooks DEF ServiceOK
<1> QED BY <1>2, <1>3, <1>4, <1>5 DEF ServiceOK

LEMMA SeedStep ==
    ASSUME ServiceOK, Seed
    PROVE  ServiceOK'
<1>1. /\ Types /\ Seeding /\ RequestsOK /\ Isolation /\ PendingIsFree /\ BooksBalance
    BY DEF ServiceOK
<1>2. /\ life \in {"products", "api_keys", "wallets", "riders", "customers"}
      /\ filled' = filled \cup {life}
      /\ stock' = IF life = "products" THEN FirstStock ELSE stock
      /\ balance' = IF life = "wallets" THEN FirstBalance ELSE balance
      /\ life' = AfterSeeding[life]
      /\ UNCHANGED << orders, shipment, request >>
    BY DEF Seed, AfterSeeding
<1>3. /\ life = "products" => life' \in {"api_keys", "up"}
      /\ life = "products" /\ life' = "api_keys" => "api_keys" \notin filled
      /\ life = "api_keys" => life' = "wallets"
      /\ life = "wallets" => life' = "riders"
      /\ life = "riders" => life' = "customers"
      /\ life = "customers" => life' = "up"
    BY <1>2 DEF AfterSeeding, KeysMissing
<1>4. Types'
  <2>1. stock' \in [Item -> Nat] /\ balance' \in [Customer -> Nat]
      BY <1>1, <1>2, CatalogueAssumption DEF Types
  <2>2. life' \in {"up", "api_keys", "wallets", "riders", "customers"}
      BY <1>2, <1>3
  <2> QED BY <1>1, <1>2, <2>1, <2>2 DEF Types
<1>5. Seeding'
  <2>1. \A h \in Handler : Free(h)'
      BY <1>1, <1>2 DEF Seeding, Free
  <2>2. /\ life' \notin {"down", "products"} /\ "products" \in filled'
        /\ life' = "api_keys" => "api_keys" \notin filled'
        /\ life' = "wallets" => "wallets" \notin filled'
        /\ "wallets" \in filled' => "api_keys" \in filled'
        /\ life' \in {"wallets", "riders", "customers"} => "api_keys" \in filled'
    <3>1. CASE life = "products"
        BY <1>1, <1>2, <1>3, <3>1 DEF Seeding
    <3>2. CASE life = "api_keys"
        BY <1>1, <1>2, <1>3, <3>2 DEF Seeding
    <3>3. CASE life = "wallets"
        BY <1>1, <1>2, <1>3, <3>3 DEF Seeding
    <3>4. CASE life \in {"riders", "customers"}
        BY <1>1, <1>2, <1>3, <3>4 DEF Seeding
    <3> QED BY <1>2, <3>1, <3>2, <3>3, <3>4
  <2>3. orders' # << >> => "products" \in filled' /\ "wallets" \in filled'
      BY <1>1, <1>2 DEF Seeding
  <2> QED BY <2>1, <2>2, <2>3 DEF Seeding
<1>6. RequestsOK'
  <2>1. \A h \in Handler : request[h] \in Requests /\ ~ Active(request[h])
      BY <1>1, <1>2 DEF Types, Seeding, Free, Active
  <2>2. \A h \in Handler :
            RequestOK(h, request[h], filled', stock', balance', orders, shipment)
      BY <1>1, <2>1, RestingRequest DEF RequestsOK
  <2> QED BY <1>2, <2>2 DEF RequestsOK
<1>7. Isolation' /\ PendingIsFree'
    BY <1>1, <1>2 DEF Isolation, PendingIsFree
<1>8. BooksBalance'
  <2>1. TypeOK'
      BY <1>4, TypesAreOK DEF Types, TypeOK, AfterSeeding
  <2>2. /\ \A i : Units(i)' = Units(i)
        /\ \A c : Charges(c)' = Charges(c)
      BY <1>2 DEF Units, Charges
  <2>3. life \in {"products", "wallets"} =>
            /\ \A i : Len(Units(i)) = 0 /\ DOMAIN Units(i) = {}
            /\ \A c : Len(Charges(c)) = 0 /\ DOMAIN Charges(c) = {}
    <3>1. life \in {"products", "wallets"} => orders = << >>
        BY <1>1 DEF Seeding
    <3> QED BY <3>1 DEF Units, Charges
  <2>4. ASSUME "products" \in filled', NEW i \in Item
        PROVE  Explains(FirstStock[i], Units(i)', stock'[i])
    <3>1. CASE life = "products"
      <4>1. stock'[i] = FirstStock[i] /\ FirstStock[i] \in Nat
          BY <1>2, <3>1, CatalogueAssumption
      <4>2. Explains(FirstStock[i], Units(i), FirstStock[i])
          BY <2>3, <3>1, <4>1, NothingTaken
      <4> QED BY <2>2, <4>1, <4>2
    <3>2. CASE life # "products"
        BY <1>1, <1>2, <2>2, <2>4, <3>2 DEF BooksBalance
    <3> QED BY <3>1, <3>2
  <2>5. ASSUME "wallets" \in filled', NEW c \in Customer
        PROVE  Explains(FirstBalance[c], Charges(c)', balance'[c])
    <3>1. CASE life = "wallets"
      <4>1. balance'[c] = FirstBalance[c] /\ FirstBalance[c] \in Nat
          BY <1>2, <3>1, CatalogueAssumption
      <4>2. Explains(FirstBalance[c], Charges(c), FirstBalance[c])
          BY <2>3, <3>1, <4>1, NothingTaken
      <4> QED BY <2>2, <4>1, <4>2
    <3>2. CASE life # "wallets"
        BY <1>1, <1>2, <2>2, <2>5, <3>2 DEF BooksBalance
    <3> QED BY <3>1, <3>2
  <2> QED BY <1>1, <1>2, <2>1, <2>4, <2>5 DEF BooksBalance
<1> QED BY <1>4, <1>5, <1>6, <1>7, <1>8 DEF ServiceOK

(* A crash answers nobody: what was in progress is lost with its writes.   *)
LEMMA LostRequest ==
    ASSUME NEW h, NEW r \in Requests, NEW a,
           a = IF r.pc \in {"idle", "answered"} THEN r
               ELSE [r EXCEPT !.pc = "answered", !.code = Lost],
           NEW fi, NEW st, NEW ba, NEW os, NEW sh,
           RequestOK(h, r, fi, st, ba, os, sh)
    PROVE  /\ a \in Requests /\ ~ Active(a) /\ ~ Opened(a)
           /\ RequestOK(h, a, fi, st, ba, os, sh)
<1>1. CASE r.pc \in {"idle", "answered"}
    BY <1>1 DEF Active, Opened
<1>2. CASE Active(r)
  <2>1. a = Answered(r, 0)
    <3>1. a = [r EXCEPT !.pc = "answered", !.code = Lost]
        BY <1>2 DEF Active
    <3> QED BY <3>1 DEF Answered, Lost
  <2>2. LET b == Answered(r, 0)
        IN  b \in Requests /\ b.pc = "answered" /\ b.code = 0
      BY <1>2, AnsweredType
  <2>3. a \in Requests /\ a.pc = "answered" /\ a.code = 0
      BY <2>1, <2>2
  <2>4. RequestOK(h, a, fi, st, ba, os, sh)
      BY <2>3 DEF RequestOK, OrderOK, AssignOK, AdvanceOK
  <2> QED BY <2>3, <2>4 DEF Active, Opened
<1> QED BY <1>1, <1>2 DEF Active

LEMMA CrashStep ==
    ASSUME ServiceOK, Crash
    PROVE  ServiceOK'
<1> DEFINE After(r) == IF r.pc \in {"idle", "answered"} THEN r
                       ELSE [r EXCEPT !.pc = "answered", !.code = Lost]
<1>1. /\ life' = "down"
      /\ request' = [h \in Handler |-> After(request[h])]
      /\ UNCHANGED << filled, stock, balance, orders, shipment >>
    BY DEF Crash, store
<1>2. /\ Types /\ Seeding /\ RequestsOK /\ Isolation /\ PendingIsFree /\ BooksBalance
    BY DEF ServiceOK
<1>3. \A h \in Handler :
          /\ request'[h] \in Requests /\ ~ Active(request'[h])
          /\ ~ Opened(request'[h])
          /\ RequestOK(h, request'[h], filled, stock, balance, orders, shipment)
    BY <1>1, <1>2, LostRequest DEF Types, RequestsOK
<1>4. DOMAIN request' = Handler /\ \A h \in Handler : request'[h] \in Requests
    BY <1>1, <1>3
<1>5. request' \in [Handler -> Requests]
    BY <1>1, <1>4
<1> HIDE DEF After
<1>6. Types'
    BY <1>1, <1>2, <1>5 DEF Types
<1>7. Seeding'
    BY <1>1, <1>2, <1>3 DEF Seeding, Free, Active
<1>8. RequestsOK'
    BY <1>1, <1>3 DEF RequestsOK
<1>9. Isolation'
    BY <1>3, ClosedIsApart DEF Isolation
<1>10. PendingIsFree'
    BY <1>1, <1>2 DEF PendingIsFree
<1>11. BooksBalance'
    BY <1>1, <1>2, <1>6, SameBooks
<1> QED BY <1>6, <1>7, <1>8, <1>9, <1>10, <1>11 DEF ServiceOK

-----------------------------------------------------------------------------
(* What a step of the service may do to what others have seen.             *)

Early == {"idle", "reserve", "pay", "insert"}

(* A request stays what it was about, and never returns to before its      *)
(* commit.                                                                 *)
Goes(r, s) ==
    /\ s.kind = r.kind
    /\ r.kind = "order" /\ s \notin RefusedRequests =>
          /\ r \notin RefusedRequests
          /\ s.owner = r.owner /\ s.quantity = r.quantity
    /\ s.pc \in Early => r.pc \in Early

Onward(o) ==
    /\ \/ shipment'[o].status = shipment[o].status
       \/ shipment'[o].status \in NextStatus[shipment[o].status]
    /\ shipment[o].rider # Nobody => shipment'[o].rider = shipment[o].rider

LEMMA AnsweredGoes ==
    ASSUME NEW r \in Requests, Active(r), NEW code
    PROVE  Goes(r, Answered(r, code)) /\ ~ Active(Answered(r, code))
<1>1. r \notin RefusedRequests
    BY DEF Active, RefusedRequests
<1>2. CASE r \in OrderRequests
    BY <1>1, <1>2 DEF OrderRequests, Answered, Goes, Active, Early
<1>3. CASE r \in AssignRequests
    BY <1>1, <1>3 DEF AssignRequests, Answered, Goes, Active, Early
<1>4. CASE r \in AdvanceRequests
    BY <1>1, <1>4 DEF AdvanceRequests, Answered, Goes, Active, Early
<1> QED BY <1>1, <1>2, <1>3, <1>4 DEF Requests, Active, Idle

LEMMA MovedGoes ==
    ASSUME NEW r \in Requests, Active(r), NEW pc,
           pc \in Early => r.pc \in Early
    PROVE  Goes(r, Moved(r, pc))
<1>1. r \notin RefusedRequests
    BY DEF Active, RefusedRequests
<1>2. CASE r \in OrderRequests
    BY <1>1, <1>2 DEF OrderRequests, Moved, Goes
<1>3. CASE r \in AssignRequests
    BY <1>1, <1>3 DEF AssignRequests, Moved, Goes
<1>4. CASE r \in AdvanceRequests
    BY <1>1, <1>4 DEF AdvanceRequests, Moved, Goes
<1> QED BY <1>1, <1>2, <1>3, <1>4 DEF Requests, Active, Idle

LEMMA AnswerFootprint ==
    ASSUME request \in [Handler -> Requests], NEW h \in Handler,
           Active(request[h]), NEW code, Answer(h, code)
    PROVE  /\ \A g \in Handler \ {h} : request'[g] = request[g]
           /\ Goes(request[h], request'[h])
<1>1. request' = [request EXCEPT ![h] = Answered(request[h], code)]
    BY AnswerIsOneRequest
<1>2. Goes(request[h], Answered(request[h], code))
    BY AnsweredGoes
<1> QED BY <1>1, <1>2

LEMMA MoveFootprint ==
    ASSUME request \in [Handler -> Requests], NEW h \in Handler,
           Active(request[h]), NEW pc, To(h, pc), pc \in Early => request[h].pc \in Early
    PROVE  /\ \A g \in Handler \ {h} : request'[g] = request[g]
           /\ Goes(request[h], request'[h])
<1>1. request' = [request EXCEPT ![h] = Moved(request[h], pc)]
    BY ToIsOneRequest
<1>2. Goes(request[h], Moved(request[h], pc))
    BY MovedGoes
<1> QED BY <1>1, <1>2

LEMMA SameShipments ==
    ASSUME shipment' = shipment
    PROVE  \A o \in DOMAIN shipment : Onward(o)
BY DEF Onward

LEMMA ReserveFootprint ==
    ASSUME ServiceOK, NEW h \in Handler, Reserve(h) \/ Pay(h)
    PROVE  /\ \A g \in Handler \ {h} : request'[g] = request[g]
           /\ Goes(request[h], request'[h])
           /\ orders' = orders /\ shipment' = shipment
<1>1. /\ orders' = orders /\ shipment' = shipment
      /\ At(h, "order", "reserve") \/ At(h, "order", "pay")
      /\ \/ \E code : Answer(h, code)
         \/ To(h, "pay") \/ To(h, "insert")
    BY DEF Reserve, Pay, store
<1>2. /\ request \in [Handler -> Requests] /\ Active(request[h])
      /\ request[h].pc \in Early
    BY <1>1, OrderAt DEF Early
<1> QED BY <1>1, <1>2, AnswerFootprint, MoveFootprint

LEMMA CommitFootprint ==
    ASSUME ServiceOK, NEW h \in Handler, Commit(h)
    PROVE  /\ \A g \in Handler \ {h} : request'[g] = request[g]
           /\ Goes(request[h], request'[h])
           /\ request[h].pc = "insert" /\ request'[h].pc = "notify"
           /\ \A o \in DOMAIN orders : o \in DOMAIN orders' /\ orders'[o] = orders[o]
           /\ DOMAIN orders' = DOMAIN orders \cup {Len(orders) + 1}
           /\ Len(orders) + 1 \notin DOMAIN orders
           /\ orders'[Len(orders) + 1].via = h
           /\ \A o \in DOMAIN shipment : shipment'[o] = shipment[o]
<1> DEFINE r == request[h]
           n == Len(orders)
           c == [r EXCEPT !.pc = "notify", !.order = n + 1]
           new == Ordered(r, h)
<1>1. /\ r \in OrderRequests /\ r.kind = "order" /\ r.pc = "insert"
      /\ orders' = Append(orders, new) /\ new \in OrderRecords
      /\ shipment' = Append(shipment, NewShipment(h))
      /\ request' = [request EXCEPT ![h] = c]
      /\ c \in OrderRequests /\ c.pc = "notify" /\ c.kind = "order"
      /\ Ordered(c, h) = new
    BY CommitFacts
<1>2. /\ request \in [Handler -> Requests] /\ orders \in Seq(OrderRecords)
      /\ shipment \in Seq(Shipments)
    BY DEF ServiceOK, Types
<1>3. new.via = h /\ c.owner = r.owner /\ c.quantity = r.quantity
    BY <1>1 DEF Ordered
<1> HIDE DEF c, new
<1>4. Goes(r, c)
    BY <1>1, <1>3 DEF Goes, RefusedRequests, Early
<1>5. request'[h] = c /\ \A g \in Handler \ {h} : request'[g] = request[g]
    BY <1>1, <1>2
<1>6. /\ \A o \in DOMAIN orders : o \in DOMAIN orders' /\ orders'[o] = orders[o]
      /\ DOMAIN orders' = DOMAIN orders \cup {n + 1} /\ n + 1 \notin DOMAIN orders
      /\ orders'[n + 1] = new
    BY <1>1, <1>2
<1>7. \A o \in DOMAIN shipment : shipment'[o] = shipment[o]
    BY <1>1, <1>2
<1> QED BY <1>1, <1>3, <1>4, <1>5, <1>6, <1>7

LEMMA AssignFootprint ==
    ASSUME ServiceOK, NEW h \in Handler, AssignStep(h)
    PROVE  /\ \A g \in Handler \ {h} : request'[g] = request[g]
           /\ Goes(request[h], request'[h])
           /\ orders' = orders
           /\ \A o \in DOMAIN shipment : Onward(o)
<1>1. /\ orders' = orders
      /\ At(h, "assign", "look") \/ At(h, "assign", "write") \/ At(h, "assign", "update")
      /\ \/ Answer(h, 404) \/ Answer(h, 409)
         \/ To(h, "write") \/ To(h, "update") \/ To(h, "notify")
      /\ shipment' = shipment \/ (Assign(h) /\ Unassigned(h))
  <2>1. CASE LookAssign(h)
      BY <2>1 DEF LookAssign, store
  <2>2. CASE FindRider(h)
      BY <2>2 DEF FindRider, store
  <2>3. CASE Assign(h)
      BY <2>3 DEF Assign
  <2> QED BY <2>1, <2>2, <2>3 DEF AssignStep
<1>2. request \in [Handler -> Requests] /\ Active(request[h])
    BY <1>1, AssignAt
<1>3. /\ \A g \in Handler \ {h} : request'[g] = request[g]
      /\ Goes(request[h], request'[h])
    BY <1>1, <1>2, AnswerFootprint, MoveFootprint DEF Early
<1>4. CASE Assign(h) /\ Unassigned(h)
  <2> DEFINE r == request[h]
  <2>1. /\ r.order \in DOMAIN shipment /\ shipment[r.order] \in Shipments
        /\ shipment[r.order].status = "pending" /\ shipment[r.order].rider = Nobody
        /\ shipment \in Seq(Shipments)
      BY <1>4, AssignFacts DEF Assign, ServiceOK, Types
  <2>2. shipment' = [shipment EXCEPT ![r.order].status = "assigned",
                                     ![r.order].rider = r.rider]
      BY <1>4 DEF Assign
  <2> HIDE DEF r
  <2>3. /\ shipment'[r.order].status = "assigned"
        /\ \A o \in DOMAIN shipment \ {r.order} : shipment'[o] = shipment[o]
      BY <2>1, <2>2 DEF Shipments
  <2>4. \A o \in DOMAIN shipment : Onward(o)
      BY <2>1, <2>3 DEF Onward, NextStatus
  <2> QED BY <1>1, <1>3, <2>4
<1> QED BY <1>1, <1>3, <1>4, SameShipments

LEMMA AdvanceFootprint ==
    ASSUME ServiceOK, NEW h \in Handler, LookAdvance(h) \/ Advance(h)
    PROVE  /\ \A g \in Handler \ {h} : request'[g] = request[g]
           /\ Goes(request[h], request'[h])
           /\ orders' = orders
           /\ \A o \in DOMAIN shipment : Onward(o)
<1> DEFINE r == request[h]
<1>1. /\ orders' = orders
      /\ At(h, "advance", "look") \/ At(h, "advance", "update")
      /\ \/ Answer(h, 404) \/ Answer(h, 403) \/ Answer(h, 409) \/ Answer(h, 200)
         \/ To(h, "notify")
         \/ request' = [request EXCEPT ![h].pc = "update", ![h].seen = Ship(h).status]
      /\ shipment' = shipment \/ (Advance(h) /\ Unchanged(h))
  <2>1. CASE LookAdvance(h)
      BY <2>1 DEF LookAdvance, store
  <2>2. CASE Advance(h)
    <3>1. CASE Unchanged(h)
        BY <2>2, <3>1 DEF Advance
    <3>2. CASE ~ Unchanged(h)
        BY <2>2, <3>2 DEF Advance
    <3> QED BY <3>1, <3>2
  <2> QED BY <2>1, <2>2
<1>2. /\ request \in [Handler -> Requests] /\ Active(r)
      /\ r \in AdvanceRequests /\ r.kind = "advance"
    BY <1>1, AdvanceAt
<1>3. /\ \A g \in Handler \ {h} : request'[g] = request[g]
      /\ Goes(r, request'[h])
  <2>1. CASE request' = [request EXCEPT ![h].pc = "update", ![h].seen = Ship(h).status]
    <3>1. /\ request'[h] = [r EXCEPT !.pc = "update", !.seen = Ship(h).status]
          /\ \A g \in Handler \ {h} : request'[g] = request[g]
        BY <1>2, <2>1
    <3>2. request'[h].kind = "advance" /\ request'[h].pc = "update"
      <4> HIDE DEF r
      <4> QED BY <1>2, <3>1 DEF AdvanceRequests
    <3> QED BY <1>2, <3>1, <3>2 DEF Goes, Early
  <2> QED BY <1>1, <1>2, <2>1, AnswerFootprint, MoveFootprint DEF Early
<1>4. CASE Advance(h) /\ Unchanged(h)
  <2>1. /\ r.order \in DOMAIN shipment /\ shipment[r.order] \in Shipments
        /\ r.status \in NextStatus[shipment[r.order].status]
        /\ shipment \in Seq(Shipments)
      BY <1>4, AdvanceFacts DEF Advance, ServiceOK, Types
  <2>2. shipment' = [shipment EXCEPT ![r.order].status = r.status]
      BY <1>4 DEF Advance
  <2>3. /\ shipment'[r.order].status = r.status
        /\ shipment'[r.order].rider = shipment[r.order].rider
        /\ \A o \in DOMAIN shipment \ {r.order} : shipment'[o] = shipment[o]
    <3> HIDE DEF r
    <3> QED BY <2>1, <2>2 DEF Shipments
  <2>4. \A o \in DOMAIN shipment : Onward(o)
    <3> HIDE DEF r
    <3> QED BY <2>1, <2>3 DEF Onward
  <2> QED BY <1>1, <1>3, <2>4
<1> QED BY <1>1, <1>3, <1>4, SameShipments

(* Every step that serves a request, put together.                         *)
LEMMA ServeFootprint ==
    ASSUME ServiceOK, NEW h \in Handler, Serve(h)
    PROVE  /\ ServiceOK'
           /\ \A g \in Handler \ {h} : request'[g] = request[g]
           /\ Goes(request[h], request'[h])
           /\ orders' = orders \/ Commit(h)
           /\ \A o \in DOMAIN shipment : Onward(o)
<1>1. CASE Reserve(h) \/ Pay(h)
    BY <1>1, ReserveStep, PayStep, ReserveFootprint, SameShipments
<1>2. CASE Commit(h)
  <2>1. \A o \in DOMAIN shipment : Onward(o)
      BY <1>2, CommitFootprint DEF Onward
  <2> QED BY <1>2, <2>1, CommitStep, CommitFootprint
<1>3. CASE AssignStep(h)
    BY <1>3, LookAssignStep, FindRiderStep, AssignStepOK, AssignFootprint
    DEF AssignStep
<1>4. CASE LookAdvance(h) \/ Advance(h)
    BY <1>4, LookAdvanceStep, AdvanceStep, AdvanceFootprint
<1>5. CASE Notify(h)
  <2>1. /\ request[h].pc = "notify" /\ \E code : Answer(h, code)
        /\ orders' = orders /\ shipment' = shipment
      BY <1>5 DEF Notify, store
  <2>2. Active(request[h]) /\ request \in [Handler -> Requests]
      BY <2>1 DEF Active, ServiceOK, Types
  <2> QED BY <1>5, <2>1, <2>2, NotifyStep, AnswerFootprint, SameShipments
<1> QED BY <1>1, <1>2, <1>3, <1>4, <1>5 DEF Serve, OrderStep

LEMMA ProcessFootprint ==
    ASSUME ServiceOK, Process
    PROVE  /\ ServiceOK'
           /\ \A g \in Handler : Goes(request[g], request'[g])
           /\ orders' = orders /\ shipment' = shipment
<1>1. CASE Boot \/ Seed
  <2>1. request' = request /\ orders' = orders /\ shipment' = shipment
      BY <1>1 DEF Boot, Seed
  <2> QED BY <1>1, <2>1, BootStep, SeedStep DEF Goes
<1>2. CASE Crash
  <2>1. /\ orders' = orders /\ shipment' = shipment
        /\ request' = [h \in Handler |->
              IF request[h].pc \in {"idle", "answered"} THEN request[h]
              ELSE [request[h] EXCEPT !.pc = "answered", !.code = Lost]]
      BY <1>2 DEF Crash, store
  <2>2. ASSUME NEW g \in Handler
        PROVE  Goes(request[g], request'[g])
    <3>1. CASE ~ Active(request[g])
      <4>1. request'[g] = request[g]
          BY <2>1, <3>1 DEF Active
      <4> QED BY <4>1 DEF Goes
    <3>2. CASE Active(request[g])
      <4>1. request'[g] = Answered(request[g], Lost)
          BY <2>1, <3>2 DEF Active, Answered
      <4> QED BY <3>2, <4>1, AnsweredGoes DEF ServiceOK, Types
    <3> QED BY <3>1, <3>2
  <2> QED BY <1>2, <2>1, <2>2, CrashStep
<1> QED BY <1>1, <1>2 DEF Process

-----------------------------------------------------------------------------
(* Calls that reach the service.                                           *)

LEMMA OrderPosted ==
    ASSUME NEW h \in Handler, NEW by, by.owner \in Owners, NEW q \in Int,
           PostOrder(h, by, Wanted, q)
    PROVE  \E r \in Requests :
              /\ Receive(h, r)
              /\ r.kind = "order"
              /\ \/ r \in RefusedRequests
                 \/ /\ r.pc = "reserve" /\ r.order = 0
                    /\ r.owner = by.owner /\ r.quantity = q
<1> DEFINE asked == [pc |-> "reserve", kind |-> "order", owner |-> by.owner,
                     item |-> Wanted, quantity |-> q, order |-> 0, code |-> Lost]
<1>1. ASSUME NEW code \in {401, 403, 422}
      PROVE  Refused("order", code) \in RefusedRequests /\ Refused("order", code).kind = "order"
    BY DEF Refused, RefusedRequests, Kinds
<1>2. ~ (q <= 0) => asked \in OrderRequests
    BY DEF OrderRequests, Lost
<1>3. \/ \E code \in {401, 403, 422} : Receive(h, Refused("order", code))
      \/ ~ (q <= 0) /\ Receive(h, asked)
    BY DEF PostOrder
<1>4. /\ asked.kind = "order" /\ asked.pc = "reserve" /\ asked.order = 0
      /\ asked.owner = by.owner /\ asked.quantity = q
    OBVIOUS
<1> HIDE DEF asked
<1> QED BY <1>1, <1>2, <1>3, <1>4 DEF Requests

LEMMA AssignPosted ==
    ASSUME NEW h \in Handler, NEW by, NEW o \in Ids, NEW d \in Riders,
           PostAssign(h, by, o, d)
    PROVE  \E r \in Requests :
              /\ Receive(h, r)
              /\ r \in RefusedRequests \/ r.pc = "look"
<1> DEFINE asked == [pc |-> "look", kind |-> "assign", order |-> o, rider |-> d,
                     code |-> Lost]
<1>1. ASSUME NEW code \in {401, 403, 422}
      PROVE  Refused("assign", code) \in RefusedRequests
    BY DEF Refused, RefusedRequests, Kinds
<1>2. asked \in AssignRequests /\ asked.pc = "look"
    BY DEF AssignRequests, Lost
<1>3. \/ \E code \in {401, 403, 422} : Receive(h, Refused("assign", code))
      \/ Receive(h, asked)
    BY DEF PostAssign
<1> HIDE DEF asked
<1> QED BY <1>1, <1>2, <1>3 DEF Requests

LEMMA StatusPatched ==
    ASSUME NEW h \in Handler, NEW by \in Clients, NEW o \in Ids, NEW s \in Statuses,
           PatchStatus(h, by, o, s)
    PROVE  \E r \in Requests :
              /\ Receive(h, r)
              /\ r \in RefusedRequests \/ r.pc = "look"
<1> DEFINE asked == [pc |-> "look", kind |-> "advance", by |-> by, order |-> o,
                     status |-> s, seen |-> s, code |-> Lost]
<1>1. ASSUME NEW code \in {401, 403, 422}
      PROVE  Refused("advance", code) \in RefusedRequests
    BY DEF Refused, RefusedRequests, Kinds
<1>2. asked \in AdvanceRequests /\ asked.pc = "look"
    BY DEF AdvanceRequests, Lost
<1>3. \/ \E code \in {401, 403, 422} : Receive(h, Refused("advance", code))
      \/ Receive(h, asked)
    BY DEF PatchStatus
<1> HIDE DEF asked
<1> QED BY <1>1, <1>2, <1>3 DEF Requests

(* Whatever another client calls is a request that may be received.        *)
LEMMA CallReceived ==
    ASSUME NEW h \in Handler, Call(h)
    PROVE  \E r \in Requests :
              /\ Receive(h, r)
              /\ \/ r \in RefusedRequests
                 \/ r.pc = "look"
                 \/ r.pc = "reserve" /\ r.order = 0
<1>1. PICK c \in Calls : Make(h, c)
    BY DEF Call
<1>2. CASE c.kind = "order" /\ PostOrder(h, c.by, Wanted, c.quantity)
  <2>1. c.by.owner \in Owners
      BY DEF Owners
  <2>2. c.quantity \in Int
      BY <1>2, QuantitiesAssumption
  <2>3. PICK r \in Requests :
            /\ Receive(h, r)
            /\ r \in RefusedRequests \/ (r.pc = "reserve" /\ r.order = 0)
      BY <1>2, <2>1, <2>2, OrderPosted
  <2> QED BY <2>3
<1>3. CASE c.kind = "assign" /\ PostAssign(h, c.by, c.order, c.rider)
  <2>1. c.order \in Ids /\ c.rider \in Riders
      BY DEF Ids, Riders
  <2>2. PICK r \in Requests : Receive(h, r) /\ (r \in RefusedRequests \/ r.pc = "look")
      BY <1>3, <2>1, AssignPosted
  <2> QED BY <2>2
<1>4. CASE c.kind = "advance" /\ PatchStatus(h, c.by, c.order, c.status)
  <2>1. c.by \in Clients /\ c.order \in Ids /\ c.status \in Statuses
      BY DEF Clients, Ids, Statuses
  <2>2. PICK r \in Requests : Receive(h, r) /\ (r \in RefusedRequests \/ r.pc = "look")
      BY <1>4, <2>1, StatusPatched
  <2> QED BY <2>2
<1> QED BY <1>1, <1>2, <1>3, <1>4 DEF Make

-----------------------------------------------------------------------------
(* The pipelines.                                                          *)

(* The handlers of the pipelines are apart from each other and from those  *)
(* of the other clients.                                                   *)
LEMMA OwnHandlers ==
    ASSUME NEW p \in Pipeline
    PROVE  /\ Os(p) \in Handler /\ Dispatch(p) \in Handler
           /\ \A q \in Pipeline : /\ Os(q) = Os(p) => q = p
                                  /\ Os(q) # Dispatch(p)
           /\ \A h \in Caller : h \in Handler /\ h # Os(p)
<1>1. Os(p) \in PipelineHandlers /\ Dispatch(p) \in PipelineHandlers
    BY DEF PipelineHandlers
<1>2. \A q \in Pipeline : /\ Os(q) = Os(p) => q = p
                          /\ Os(q) # Dispatch(p)
    BY DEF Os, Dispatch
<1> QED BY <1>1, <1>2, HandlersAssumption

(* A pipeline that takes no step sees its request go on, at most one order *)
(* more, at its commit, and no shipment back in "pending".                 *)
LEMMA PipeKept ==
    ASSUME NEW p \in Pipeline, PipeOK(p),
           pipe'[p] = pipe[p], dispatcher'[p] = dispatcher[p], queue'[p] = queue[p],
           Goes(request[Os(p)], request'[Os(p)]),
           \A o \in DOMAIN orders : o \in DOMAIN orders' /\ orders'[o] = orders[o],
           \/ Own(p)' = Own(p)
           \/ /\ Own(p) = {} /\ request'[Os(p)].pc \notin Early
              /\ \E o : Own(p)' = {o},
           \A o \in DOMAIN orders : NoLongerPending(o) => NoLongerPending(o)'
    PROVE  PipeOK(p)'
<1> DEFINE r == request[Os(p)]
           s == request'[Os(p)]
<1>1. /\ r.kind \in {"none", "order"}
      /\ r.kind = "order" /\ r \notin RefusedRequests =>
            r.owner = Shopper.owner /\ r.quantity = Amount
      /\ pipe[p].pc = "checks" => r.kind = "none"
      /\ r.pc \in Early => Own(p) = {}
      /\ \A o, q \in Own(p) : o = q
    BY DEF PipeOK, Early
<1>2. /\ pipe[p].pc \in {"checks", "posting"} => ~ pipe[p].success
      /\ pipe[p].pc = "polling" \/ pipe[p].success =>
            /\ pipe[p].order \in DOMAIN orders
            /\ orders[pipe[p].order] = BoughtBy(p)
      /\ pipe[p].success => pipe[p].pc = "reported" /\ NoLongerPending(pipe[p].order)
      /\ dispatcher[p] # "waiting" => queue[p] # << >>
    BY DEF PipeOK
<1>3. /\ s.kind = r.kind
      /\ r.kind = "order" /\ s \notin RefusedRequests =>
            /\ r \notin RefusedRequests
            /\ s.owner = r.owner /\ s.quantity = r.quantity
      /\ s.pc \in Early => r.pc \in Early
    BY DEF Goes
<1> HIDE DEF r
<1>4. s.pc \in Early => Own(p)' = {}
    BY <1>1, <1>3
<1>5. \A o, q \in Own(p)' : o = q
    BY <1>1
<1>6. /\ s.kind \in {"none", "order"}
      /\ s.kind = "order" /\ s \notin RefusedRequests =>
            s.owner = Shopper.owner /\ s.quantity = Amount
      /\ pipe'[p].pc = "checks" => s.kind = "none"
    BY <1>1, <1>3
<1>7. /\ pipe'[p].pc \in {"checks", "posting"} => ~ pipe'[p].success
      /\ dispatcher'[p] # "waiting" => queue'[p] # << >>
    BY <1>2
<1>8. /\ pipe'[p].pc = "polling" \/ pipe'[p].success =>
            /\ pipe'[p].order \in DOMAIN orders'
            /\ orders'[pipe'[p].order] = BoughtBy(p)
      /\ pipe'[p].success => pipe'[p].pc = "reported"
    BY <1>2
<1>9. (pipe[p].success => NoLongerPending(pipe[p].order))'
  <2>1. pipe[p].success => /\ NoLongerPending(pipe[p].order)'
                           /\ pipe'[p].order = pipe[p].order
    <3>1. ASSUME NEW o \in DOMAIN orders, NoLongerPending(o)
          PROVE  NoLongerPending(o)'
        BY <3>1
    <3> QED BY <1>2, <3>1
  <2> QED BY <2>1 DEF NoLongerPending
<1> QED BY <1>4, <1>5, <1>6, <1>7, <1>8, <1>9 DEF PipeOK, BoughtBy, Early

(* The step of a client or of a pipeline: its request is at its own        *)
(* handler, and orders and shipments are as they were.                     *)
LEMMA PipeUntouched ==
    ASSUME NEW p \in Pipeline, PipeOK(p),
           pipe'[p] = pipe[p], dispatcher'[p] = dispatcher[p], queue'[p] = queue[p],
           request'[Os(p)] = request[Os(p)],
           orders' = orders, shipment' = shipment
    PROVE  PipeOK(p)'
<1>1. Own(p)' = Own(p)
    BY DEF Own
<1>2. Goes(request[Os(p)], request'[Os(p)])
    BY DEF Goes
<1>3. \A o \in DOMAIN orders : NoLongerPending(o) => NoLongerPending(o)'
    BY DEF NoLongerPending
<1>4. \A o \in DOMAIN orders : o \in DOMAIN orders' /\ orders'[o] = orders[o]
    OBVIOUS
<1> QED BY <1>1, <1>2, <1>3, <1>4, PipeKept

LEMMA ServiceStepOK ==
    ASSUME ServiceOK, PipelinesOK, ServiceStep
    PROVE  ServiceOK' /\ PipelinesOK'
<1>1. UNCHANGED << pipe, dispatcher, queue >>
    BY DEF ServiceStep
<1>2. PipeTypes'
    BY <1>1 DEF PipelinesOK, PipeTypes
<1>3. /\ DOMAIN orders = DOMAIN shipment
      /\ shipment \in Seq(Shipments) /\ request \in [Handler -> Requests]
    BY DEF ServiceOK, Types, BooksBalance
<1>4. CASE Process
  <2>1. /\ ServiceOK' /\ orders' = orders /\ shipment' = shipment
        /\ \A g \in Handler : Goes(request[g], request'[g])
      BY <1>4, ProcessFootprint
  <2>2. ASSUME NEW p \in Pipeline
        PROVE  PipeOK(p)'
    <3>1. Own(p)' = Own(p)
        BY <2>1 DEF Own
    <3>2. \A o \in DOMAIN orders : NoLongerPending(o) => NoLongerPending(o)'
        BY <2>1 DEF NoLongerPending
    <3>3. \A o \in DOMAIN orders : o \in DOMAIN orders' /\ orders'[o] = orders[o]
        BY <2>1
    <3>4. Goes(request[Os(p)], request'[Os(p)])
        BY <2>1, OwnHandlers
    <3> QED BY <1>1, <3>1, <3>2, <3>3, <3>4, PipeKept DEF PipelinesOK
  <2> QED BY <1>2, <2>1, <2>2 DEF PipelinesOK
<1>5. ASSUME NEW h \in Handler, Serve(h)
      PROVE  ServiceOK' /\ PipelinesOK'
  <2>1. /\ ServiceOK'
        /\ \A g \in Handler \ {h} : request'[g] = request[g]
        /\ Goes(request[h], request'[h])
        /\ orders' = orders \/ Commit(h)
        /\ \A o \in DOMAIN shipment : Onward(o)
      BY <1>5, ServeFootprint
  <2>2. \A o \in DOMAIN orders : NoLongerPending(o) => NoLongerPending(o)'
    <3> SUFFICES ASSUME NEW o \in DOMAIN orders, shipment[o].status # "pending"
                 PROVE  shipment'[o].status # "pending"
        BY DEF NoLongerPending
    <3>1. shipment[o].status \in States
      <4>1. shipment[o] \in Shipments
          BY <1>3
      <4> QED BY <4>1 DEF Shipments
    <3> QED BY <1>3, <2>1, <3>1 DEF Onward, NextStatus, States
  <2>3. ASSUME NEW p \in Pipeline
        PROVE  PipeOK(p)'
    <3>1. Goes(request[Os(p)], request'[Os(p)])
      <4>1. Os(p) \in Handler
          BY OwnHandlers
      <4>2. CASE Os(p) = h
          BY <2>1, <4>2
      <4>3. CASE Os(p) # h
        <5>1. request'[Os(p)] = request[Os(p)]
            BY <2>1, <4>1, <4>3
        <5> QED BY <5>1 DEF Goes
      <4> QED BY <4>2, <4>3
    <3>2. CASE orders' = orders
      <4>1. Own(p)' = Own(p)
          BY <3>2 DEF Own
      <4>2. \A o \in DOMAIN orders : o \in DOMAIN orders' /\ orders'[o] = orders[o]
          BY <3>2
      <4> QED BY <1>1, <2>2, <3>1, <4>1, <4>2, PipeKept DEF PipelinesOK
    <3>3. CASE Commit(h)
      <4> DEFINE n == Len(orders) + 1
      <4>1. /\ request[h].pc = "insert" /\ request'[h].pc = "notify"
            /\ \A o \in DOMAIN orders : o \in DOMAIN orders' /\ orders'[o] = orders[o]
            /\ DOMAIN orders' = DOMAIN orders \cup {n} /\ n \notin DOMAIN orders
            /\ orders'[n].via = h
          BY <3>3, CommitFootprint
      <4> HIDE DEF n
      <4>2. CASE Os(p) = h
        <5>1. Own(p) = {}
            BY <4>1, <4>2 DEF PipelinesOK, PipeOK
        <5>2. Own(p)' = {n}
            BY <4>1, <4>2, <5>1 DEF Own
        <5>3. request'[Os(p)].pc \notin Early
            BY <4>1, <4>2 DEF Early
        <5> QED BY <1>1, <2>2, <3>1, <4>1, <5>1, <5>2, <5>3, PipeKept DEF PipelinesOK
      <4>3. CASE Os(p) # h
        <5>1. Own(p)' = Own(p)
            BY <4>1, <4>3 DEF Own
        <5> QED BY <1>1, <2>2, <3>1, <4>1, <5>1, PipeKept DEF PipelinesOK
      <4> QED BY <4>2, <4>3
    <3> QED BY <2>1, <3>2, <3>3
  <2> QED BY <1>2, <2>1, <2>3 DEF PipelinesOK
<1> QED BY <1>4, <1>5 DEF ServiceStep

(* A step of the pipeline itself that sends no order.                      *)
LEMMA PipeMoves ==
    ASSUME NEW p \in Pipeline, PipeOK(p),
           request'[Os(p)] = request[Os(p)], orders' = orders, shipment' = shipment,
           pipe'[p].pc = "checks" => pipe[p].pc = "checks",
           pipe'[p].pc \in {"checks", "posting"} => ~ pipe'[p].success,
           pipe'[p].pc = "polling" \/ pipe'[p].success =>
               /\ pipe'[p].order \in DOMAIN orders
               /\ orders[pipe'[p].order] = BoughtBy(p),
           pipe'[p].success => /\ pipe'[p].pc = "reported"
                               /\ shipment[pipe'[p].order].status # "pending",
           dispatcher'[p] # "waiting" => queue'[p] # << >>
    PROVE  PipeOK(p)'
<1>1. Own(p)' = Own(p)
    BY DEF Own
<1> QED BY <1>1 DEF PipeOK, BoughtBy, NoLongerPending

(* What the other pipelines see of it.                                     *)
LEMMA OnePipeline ==
    ASSUME PipelinesOK, NEW p \in Pipeline, PipeTypes', PipeOK(p)',
           orders' = orders, shipment' = shipment,
           \A q \in Pipeline \ {p} :
               /\ request'[Os(q)] = request[Os(q)]
               /\ pipe'[q] = pipe[q]
               /\ dispatcher'[q] = dispatcher[q]
               /\ queue'[q] = queue[q]
    PROVE  PipelinesOK'
<1>1. ASSUME NEW q \in Pipeline \ {p}
      PROVE  PipeOK(q)'
    BY <1>1, PipeUntouched DEF PipelinesOK
<1> QED BY <1>1 DEF PipelinesOK

(* A pipeline that does not call the service.                              *)
LEMMA NotCalling ==
    ASSUME ServiceOK, PipelinesOK, NEW p \in Pipeline, UNCHANGED service,
           PipeTypes',
           \A q \in Pipeline \ {p} : /\ pipe'[q] = pipe[q]
                                     /\ dispatcher'[q] = dispatcher[q]
                                     /\ queue'[q] = queue[q],
           pipe'[p].pc = "checks" => pipe[p].pc = "checks",
           pipe'[p].pc \in {"checks", "posting"} => ~ pipe'[p].success,
           pipe'[p].pc = "polling" \/ pipe'[p].success =>
               /\ pipe'[p].order \in DOMAIN orders
               /\ orders[pipe'[p].order] = BoughtBy(p),
           pipe'[p].success => /\ pipe'[p].pc = "reported"
                               /\ shipment[pipe'[p].order].status # "pending",
           dispatcher'[p] # "waiting" => queue'[p] # << >>
    PROVE  ServiceOK' /\ PipelinesOK'
<1>1. request' = request /\ orders' = orders /\ shipment' = shipment
    BY DEF service
<1>2. PipeOK(p)'
    BY <1>1, PipeMoves DEF PipelinesOK
<1>3. PipelinesOK'
    BY <1>1, <1>2, OnePipeline
<1> QED BY <1>3, NoServiceChange

LEMMA CheckStep ==
    ASSUME ServiceOK, PipelinesOK, NEW p \in Pipeline, CheckWallet(p) \/ CheckProduct(p)
    PROVE  ServiceOK' /\ PipelinesOK'
<1>1. /\ PipeTypes /\ PipeOK(p) /\ pipe[p].pc = "checks"
      /\ UNCHANGED << service, dispatcher, queue >>
    BY DEF PipelinesOK, CheckWallet, CheckProduct, Others
<1>2. /\ pipe' \in [Pipeline -> [pc : {"checks", "posting", "polling", "reported"},
                                 wallet : Int, price : Int, order : Nat,
                                 success : BOOLEAN]]
      /\ pipe'[p].pc = "checks" /\ pipe'[p].success = pipe[p].success
      /\ \A q \in Pipeline \ {p} : pipe'[q] = pipe[q]
  <2>1. CASE CheckWallet(p)
    <3>1. PICK w \in WalletAnswers : pipe' = [pipe EXCEPT ![p].wallet = w]
        BY <2>1 DEF CheckWallet
    <3>2. WalletOf(Shopper.owner) \in Nat
        BY DEF WalletOf, ServiceOK, Types
    <3>3. w \in Int
        BY <3>2 DEF WalletAnswers, Failed
    <3> QED BY <1>1, <3>1, <3>3 DEF PipeTypes
  <2>2. CASE CheckProduct(p)
    <3>1. PICK x \in ProductAnswers : pipe' = [pipe EXCEPT ![p].price = x]
        BY <2>2 DEF CheckProduct
    <3>2. x \in Int
        BY CatalogueAssumption DEF ProductAnswers, Failed
    <3> QED BY <1>1, <3>1, <3>2 DEF PipeTypes
  <2> QED BY <2>1, <2>2
<1>3. ~ pipe'[p].success
    BY <1>1, <1>2 DEF PipeOK
<1>4. PipeTypes'
    BY <1>1, <1>2 DEF PipeTypes
<1>5. dispatcher'[p] # "waiting" => queue'[p] # << >>
    BY <1>1 DEF PipeOK
<1> QED BY <1>1, <1>2, <1>3, <1>4, <1>5, NotCalling

(* A report of failure claims nothing.                                     *)
LEMMA FailureReported ==
    ASSUME ServiceOK, PipelinesOK, NEW p \in Pipeline, Report(p, FALSE),
           UNCHANGED << service, dispatcher, queue >>
    PROVE  ServiceOK' /\ PipelinesOK'
<1>1. /\ pipe' \in [Pipeline -> [pc : {"checks", "posting", "polling", "reported"},
                                 wallet : Int, price : Int, order : Nat,
                                 success : BOOLEAN]]
      /\ pipe'[p].pc = "reported" /\ pipe'[p].success = FALSE
      /\ \A q \in Pipeline \ {p} : pipe'[q] = pipe[q]
    BY DEF PipelinesOK, PipeTypes, Report
<1>2. PipeTypes'
    BY <1>1 DEF PipelinesOK, PipeTypes
<1>3. dispatcher'[p] # "waiting" => queue'[p] # << >>
    BY DEF PipelinesOK, PipeOK
<1> QED BY <1>1, <1>2, <1>3, NotCalling

LEMMA PlaceOrderStep ==
    ASSUME ServiceOK, PipelinesOK, NEW p \in Pipeline, PlaceOrder(p)
    PROVE  ServiceOK' /\ PipelinesOK'
<1>1. /\ pipe[p].pc = "checks"
      /\ PostOrder(Os(p), Shopper, Wanted, Amount)
      /\ pipe' = [pipe EXCEPT ![p].pc = "posting"]
      /\ UNCHANGED << dispatcher, queue >>
    BY DEF PlaceOrder, AtPlace, Others
<1>2. PipeTypes /\ PipeOK(p)
    BY DEF PipelinesOK
<1>3. Os(p) \in Handler /\ \A q \in Pipeline \ {p} : Os(q) \in Handler \ {Os(p)}
    BY OwnHandlers
<1>4. Shopper.owner \in Owners /\ Amount \in Int
    BY QuantitiesAssumption DEF Owners
<1>5. PICK r \in Requests :
          /\ Receive(Os(p), r)
          /\ r.kind = "order"
          /\ \/ r \in RefusedRequests
             \/ /\ r.pc = "reserve" /\ r.order = 0
                /\ r.owner = Shopper.owner /\ r.quantity = Amount
    BY <1>1, <1>3, <1>4, OrderPosted
<1>6. ServiceOK'
    BY <1>3, <1>5, ReceiveStep
<1>7. /\ request' = [request EXCEPT ![Os(p)] = r]
      /\ orders' = orders /\ shipment' = shipment
      /\ request \in [Handler -> Requests]
    BY <1>5 DEF Receive, store, ServiceOK, Types
<1>8. request'[Os(p)] = r /\ \A q \in Pipeline \ {p} : request'[Os(q)] = request[Os(q)]
    BY <1>3, <1>7
<1>9. /\ pipe' \in [Pipeline -> [pc : {"checks", "posting", "polling", "reported"},
                                 wallet : Int, price : Int, order : Nat,
                                 success : BOOLEAN]]
      /\ pipe'[p].pc = "posting" /\ pipe'[p].success = pipe[p].success
      /\ \A q \in Pipeline \ {p} : pipe'[q] = pipe[q]
    BY <1>1, <1>2 DEF PipeTypes
<1>10. PipeTypes'
    BY <1>1, <1>2, <1>9 DEF PipeTypes
<1>11. Own(p) = {} /\ Own(p)' = Own(p)
  <2>1. request[Os(p)].kind = "none" /\ request[Os(p)] \in Requests
      BY <1>1, <1>2, <1>3, <1>7 DEF PipeOK
  <2>2. request[Os(p)].pc = "idle"
      BY <2>1, RequestKinds
  <2> QED BY <1>2, <1>7, <2>2 DEF PipeOK, Own
<1>12. ~ pipe'[p].success /\ (dispatcher'[p] # "waiting" => queue'[p] # << >>)
    BY <1>1, <1>2, <1>9 DEF PipeOK
<1>13. PipeOK(p)'
    BY <1>5, <1>8, <1>9, <1>11, <1>12 DEF PipeOK
<1>14. PipelinesOK'
    BY <1>1, <1>7, <1>8, <1>9, <1>10, <1>13, OnePipeline
<1> QED BY <1>6, <1>14

(* An answer of success is about an order of one's own.                    *)
LEMMA OrderAnsweredStep ==
    ASSUME ServiceOK, PipelinesOK, NEW p \in Pipeline, OrderAnswered(p)
    PROVE  ServiceOK' /\ PipelinesOK'
<1> DEFINE r == request[Os(p)]
<1>1. /\ pipe[p].pc = "posting" /\ r.pc = "answered"
      /\ UNCHANGED << service, dispatcher >>
    BY DEF OrderAnswered
<1>2. PipeTypes /\ PipeOK(p)
    BY DEF PipelinesOK
<1>3. CASE r.code # 200
    BY <1>1, <1>3, FailureReported DEF OrderAnswered
<1>4. CASE r.code = 200
  <2>1. r \in Requests /\ RequestOK(Os(p), r, filled, stock, balance, orders, shipment)
      BY OwnHandlers, ServiceFacts
  <2>2. r.kind = "order"
      BY <1>1, <1>2, <2>1, RequestKinds DEF PipeOK
  <2>3. r \in OrderRequests
      BY <1>4, <2>1, <2>2, RequestKinds
  <2>4. r.order \in DOMAIN orders /\ orders[r.order] = Ordered(r, Os(p))
      BY <1>1, <1>4, <2>1, <2>2 DEF RequestOK, OrderOK
  <2>5. r.owner = Shopper.owner /\ r.quantity = Amount
      BY <1>2, <1>4, <2>2 DEF PipeOK, RefusedRequests
  <2>6. r.item = Wanted /\ r.order \in Nat
      BY <2>3 DEF OrderRequests
  <2>7. orders[r.order] = BoughtBy(p)
      BY <2>4, <2>5, <2>6 DEF Ordered, BoughtBy
  <2>8. /\ pipe' = [pipe EXCEPT ![p].pc = "polling", ![p].order = r.order]
        /\ queue' = [queue EXCEPT ![p] = Append(@, r.order)]
      BY <1>4 DEF OrderAnswered
  <2> HIDE DEF r
  <2>9. /\ pipe' \in [Pipeline -> [pc : {"checks", "posting", "polling", "reported"},
                                   wallet : Int, price : Int, order : Nat,
                                   success : BOOLEAN]]
        /\ pipe'[p].pc = "polling" /\ pipe'[p].success = pipe[p].success
        /\ pipe'[p].order = r.order
        /\ \A q \in Pipeline \ {p} : pipe'[q] = pipe[q]
      BY <1>2, <2>6, <2>8 DEF PipeTypes
  <2>10. /\ queue' \in [Pipeline -> Seq(Nat)] /\ queue'[p] # << >>
         /\ \A q \in Pipeline \ {p} : queue'[q] = queue[q]
    <3>1. queue[p] \in Seq(Nat)
        BY <1>2 DEF PipeTypes
    <3>2. Append(queue[p], r.order) \in Seq(Nat) /\ Append(queue[p], r.order) # << >>
        BY <2>6, <3>1
    <3> QED BY <1>2, <2>8, <3>2 DEF PipeTypes
  <2>11. PipeTypes'
      BY <1>1, <1>2, <2>9, <2>10 DEF PipeTypes
  <2>12. ~ pipe'[p].success
      BY <1>1, <1>2, <2>9 DEF PipeOK
  <2> QED BY <1>1, <2>4, <2>7, <2>9, <2>10, <2>11, <2>12, NotCalling
<1> QED BY <1>3, <1>4

LEMMA PollAnsweredStep ==
    ASSUME ServiceOK, PipelinesOK, NEW p \in Pipeline, PollAnswered(p)
    PROVE  ServiceOK' /\ PipelinesOK'
<1>1. /\ pipe[p].pc = "polling" /\ NoLongerPending(pipe[p].order)
      /\ Report(p, TRUE) /\ UNCHANGED << service, dispatcher, queue >>
    BY DEF PollAnswered, Others
<1>2. PipeTypes /\ PipeOK(p)
    BY DEF PipelinesOK
<1>3. /\ pipe' \in [Pipeline -> [pc : {"checks", "posting", "polling", "reported"},
                                 wallet : Int, price : Int, order : Nat,
                                 success : BOOLEAN]]
      /\ pipe'[p].pc = "reported" /\ pipe'[p].order = pipe[p].order
      /\ \A q \in Pipeline \ {p} : pipe'[q] = pipe[q]
    BY <1>1, <1>2 DEF PipeTypes, Report
<1>4. PipeTypes'
    BY <1>1, <1>2, <1>3 DEF PipeTypes
<1>5. /\ pipe'[p].order \in DOMAIN orders
      /\ orders[pipe'[p].order] = BoughtBy(p)
      /\ shipment[pipe'[p].order].status # "pending"
      /\ dispatcher'[p] # "waiting" => queue'[p] # << >>
    BY <1>1, <1>2, <1>3 DEF PipeOK, NoLongerPending
<1> QED BY <1>1, <1>3, <1>4, <1>5, NotCalling

LEMMA PipeStepOK ==
    ASSUME ServiceOK, PipelinesOK, NEW p \in Pipeline, PipeStep(p)
    PROVE  ServiceOK' /\ PipelinesOK'
<1>1. CASE RefuseOrder(p) \/ OrderUnreachable(p) \/ PollUnreachable(p)
  <2>1. Report(p, FALSE) /\ UNCHANGED << service, dispatcher, queue >>
      BY <1>1 DEF RefuseOrder, OrderUnreachable, GiveUp, PollUnreachable, Others
  <2> QED BY <2>1, FailureReported
<1> QED BY <1>1, CheckStep, PlaceOrderStep, OrderAnsweredStep, PollAnsweredStep
        DEF PipeStep

-----------------------------------------------------------------------------
(* The dispatchers and the other clients.                                  *)

LEMMA DispatcherMoves ==
    ASSUME ServiceOK, PipelinesOK, NEW p \in Pipeline,
           TakeOrder(p) \/ DispatcherEnds(p) \/ DispatcherRaises(p)
    PROVE  ServiceOK' /\ PipelinesOK'
<1>1. PipeTypes /\ PipeOK(p)
    BY DEF PipelinesOK
<1>2. /\ UNCHANGED << service, pipe, queue >>
      /\ Become(p, "deciding") \/ Become(p, "done") \/ Become(p, "raised")
      /\ queue[p] # << >>
    BY <1>1 DEF TakeOrder, DispatcherEnds, DispatcherRaises, PipeOK
<1>3. /\ PipeTypes'
      /\ \A q \in Pipeline \ {p} : dispatcher'[q] = dispatcher[q]
    BY <1>1, <1>2 DEF PipeTypes, Become
<1>4. /\ pipe[p].pc \in {"checks", "posting"} => ~ pipe[p].success
      /\ pipe[p].pc = "polling" \/ pipe[p].success =>
            /\ pipe[p].order \in DOMAIN orders
            /\ orders[pipe[p].order] = BoughtBy(p)
      /\ pipe[p].success => /\ pipe[p].pc = "reported"
                            /\ shipment[pipe[p].order].status # "pending"
    BY <1>1 DEF PipeOK, NoLongerPending
<1>5. pipe' = pipe /\ queue' = queue /\ UNCHANGED service
    BY <1>2
<1> QED BY <1>2, <1>3, <1>4, <1>5, NotCalling

(* A request of somebody else is received, and no pipeline goes on.        *)
LEMMA ReceivedElsewhere ==
    ASSUME ServiceOK, PipelinesOK, NEW h \in Handler, NEW r \in Requests,
           Receive(h, r),
           r \in RefusedRequests \/ r.pc = "look"
              \/ (r.pc = "reserve" /\ r.order = 0),
           \A p \in Pipeline : h # Os(p) /\ Os(p) \in Handler,
           pipe' = pipe, queue' = queue, PipeTypes',
           \A p \in Pipeline : dispatcher'[p] = dispatcher[p] \/ queue[p] # << >>
    PROVE  ServiceOK' /\ PipelinesOK'
<1>1. ServiceOK'
    BY ReceiveStep
<1>2. /\ request' = [request EXCEPT ![h] = r]
      /\ orders' = orders /\ shipment' = shipment
      /\ request \in [Handler -> Requests]
    BY DEF Receive, store, ServiceOK, Types
<1>3. ASSUME NEW p \in Pipeline
      PROVE  PipeOK(p)'
  <2>1. request'[Os(p)] = request[Os(p)]
      BY <1>2
  <2>2. PipeOK(p)
      BY DEF PipelinesOK
  <2>3. /\ pipe[p].pc \in {"checks", "posting"} => ~ pipe[p].success
        /\ pipe[p].pc = "polling" \/ pipe[p].success =>
              /\ pipe[p].order \in DOMAIN orders
              /\ orders[pipe[p].order] = BoughtBy(p)
        /\ pipe[p].success => /\ pipe[p].pc = "reported"
                              /\ shipment[pipe[p].order].status # "pending"
        /\ dispatcher'[p] # "waiting" => queue[p] # << >>
      BY <2>2 DEF PipeOK, NoLongerPending
  <2> QED BY <1>2, <2>1, <2>2, <2>3, PipeMoves
<1> QED BY <1>1, <1>3 DEF PipelinesOK

LEMMA SendRiderStep ==
    ASSUME ServiceOK, PipelinesOK, NEW p \in Pipeline, SendRider(p)
    PROVE  ServiceOK' /\ PipelinesOK'
<1>1. /\ dispatcher[p] = "deciding"
      /\ PostAssign(Dispatch(p), Admin, Head(queue[p]), Send)
      /\ Become(p, "posting") /\ pipe' = pipe /\ queue' = queue
    BY DEF SendRider
<1>2. PipeTypes /\ PipeOK(p)
    BY DEF PipelinesOK
<1>3. queue[p] # << >> /\ queue[p] \in Seq(Nat)
    BY <1>1, <1>2 DEF PipeOK, PipeTypes
<1>4. Head(queue[p]) \in Ids /\ Send \in Riders
    BY <1>3 DEF Ids, Riders
<1>5. /\ Dispatch(p) \in Handler
      /\ \A q \in Pipeline : Dispatch(p) # Os(q) /\ Os(q) \in Handler
    BY OwnHandlers
<1>6. PICK r \in Requests :
          Receive(Dispatch(p), r) /\ (r \in RefusedRequests \/ r.pc = "look")
    BY <1>1, <1>4, <1>5, AssignPosted
<1>7. /\ PipeTypes'
      /\ \A q \in Pipeline : dispatcher'[q] = dispatcher[q] \/ queue[q] # << >>
    BY <1>1, <1>2, <1>3 DEF PipeTypes, Become
<1> QED BY <1>1, <1>5, <1>6, <1>7, ReceivedElsewhere

LEMMA CallStep ==
    ASSUME ServiceOK, PipelinesOK, NEW h \in Caller, Call(h)
    PROVE  ServiceOK' /\ PipelinesOK'
<1>1. h \in Handler /\ \A p \in Pipeline : h # Os(p) /\ Os(p) \in Handler
    BY OwnHandlers, HandlersAssumption
<1>2. PICK r \in Requests :
          /\ Receive(h, r)
          /\ \/ r \in RefusedRequests
             \/ r.pc = "look"
             \/ r.pc = "reserve" /\ r.order = 0
    BY <1>1, CallReceived
<1>3. pipe' = pipe /\ queue' = queue /\ dispatcher' = dispatcher
    BY DEF Call
<1>4. PipeTypes'
    BY <1>3 DEF PipelinesOK, PipeTypes
<1> QED BY <1>1, <1>2, <1>3, <1>4, ReceivedElsewhere

-----------------------------------------------------------------------------
(* The theorems.                                                           *)

LEMMA NothingYet ==
    ASSUME PipelineInit
    PROVE  ServiceOK /\ PipelinesOK
<1>1. /\ life = "down" /\ filled = {} /\ orders = << >> /\ shipment = << >>
      /\ stock = [i \in Item |-> 0] /\ balance = [c \in Customer |-> 0]
      /\ request = [h \in Handler |-> Idle]
    BY DEF PipelineInit, Init
<1>2. \A h \in Handler : request[h] = Idle
    BY <1>1
<1>3. Idle \in Requests /\ Idle.pc = "idle" /\ Idle.kind = "none"
    BY DEF Requests, Idle
<1> HIDE DEF Idle
<1>4. Types
    BY <1>1, <1>3, BoundsAssumption DEF Types
<1>5. Seeding
    BY <1>1, <1>2, <1>3 DEF Seeding, Free
<1>6. RequestsOK /\ Isolation
    BY <1>2, <1>3 DEF RequestsOK, RequestOK, Isolation, Apart, Opened
<1>7. PendingIsFree
    BY <1>1 DEF PendingIsFree
<1>8. BooksBalance
    BY <1>1, <1>4, TypesAreOK DEF BooksBalance
<1>9. PipeTypes
    BY DEF PipelineInit, PipeTypes, Waiting
<1>10. ASSUME NEW p \in Pipeline
       PROVE  PipeOK(p)
  <2>1. Own(p) = {}
      BY <1>1 DEF Own
  <2>2. request[Os(p)].pc = "idle" /\ request[Os(p)].kind = "none"
      BY <1>2, <1>3, OwnHandlers
  <2>3. pipe[p].pc = "checks" /\ pipe[p].success = FALSE /\ dispatcher[p] = "waiting"
      BY DEF PipelineInit
  <2> QED BY <2>1, <2>2, <2>3 DEF PipeOK
<1> QED BY <1>4, <1>5, <1>6, <1>7, <1>8, <1>9, <1>10 DEF ServiceOK, PipelinesOK

LEMMA EveryStep ==
    ASSUME ServiceOK, PipelinesOK, [Next]_vars
    PROVE  ServiceOK' /\ PipelinesOK'
<1>1. CASE UNCHANGED vars
  <2>1. UNCHANGED << service, pipe, dispatcher, queue >>
      BY <1>1 DEF vars
  <2>2. request' = request /\ orders' = orders /\ shipment' = shipment
      BY <2>1 DEF service
  <2>3. PipeTypes'
      BY <2>1 DEF PipelinesOK, PipeTypes
  <2>4. \A p \in Pipeline : PipeOK(p)'
      BY <2>1, <2>2, PipeUntouched DEF PipelinesOK
  <2> QED BY <2>1, <2>3, <2>4, NoServiceChange DEF PipelinesOK
<1>2. ASSUME NEW p \in Pipeline, PipeStep(p)
      PROVE  ServiceOK' /\ PipelinesOK'
    BY <1>2, PipeStepOK
<1>3. ASSUME NEW p \in Pipeline, DispatcherStep(p)
      PROVE  ServiceOK' /\ PipelinesOK'
    BY <1>3, DispatcherMoves, SendRiderStep DEF DispatcherStep
<1>4. ASSUME NEW h \in Caller, Call(h)
      PROVE  ServiceOK' /\ PipelinesOK'
    BY <1>4, CallStep
<1>5. CASE ServiceStep
    BY <1>5, ServiceStepOK
<1> QED BY <1>1, <1>2, <1>3, <1>4, <1>5 DEF Next

(* The invariant of the service and of the pipelines that buy from it: no  *)
(* schedule, crash or refused call leads out of it.                        *)
THEOREM GroceryInvariant == Spec => [](ServiceOK /\ PipelinesOK)
<1>1. PipelineInit => ServiceOK /\ PipelinesOK
    BY NothingYet
<1>2. ServiceOK /\ PipelinesOK /\ [Next]_vars => (ServiceOK /\ PipelinesOK)'
    BY EveryStep
<1> QED BY <1>1, <1>2, PTL DEF Spec

(* The books of the service balance (_place_order is a transaction): what  *)
(* is missing from the shelf and the wallets is in the orders, and nothing *)
(* is oversold or overdrawn, for any number of orders that race.           *)
THEOREM BooksAlwaysBalance == Spec => []BooksBalance
<1>1. ServiceOK => BooksBalance
    BY DEF ServiceOK
<1> QED BY <1>1, GroceryInvariant, PTL

(* What the service has answered with success is still so, whoever writes  *)
(* afterwards, and a refused order has left nothing.                       *)
THEOREM AnswersStayTrue == Spec => []AnswersTrue
<1>1. ServiceOK => AnswersTrue
  <2> SUFFICES ASSUME ServiceOK, NEW h \in Handler, request[h].pc = "answered"
               PROVE  LET r == request[h]
                      IN  /\ r.kind = "order" /\ r.code = 200 => orders[r.order].via = h
                          /\ r.kind = "order" /\ r.code \in 400 .. 499 => r.order = 0
                          /\ r.kind = "assign" /\ r.code = 200 =>
                                shipment[r.order].rider = r.rider
      BY DEF AnswersTrue
  <2> DEFINE r == request[h]
  <2>1. RequestOK(h, r, filled, stock, balance, orders, shipment)
      BY ServiceFacts
  <2>2. r.kind = "order" => OrderOK(h, r, filled, stock, balance, orders)
      BY <2>1 DEF RequestOK
  <2>3. r.kind = "assign" => AssignOK(r, shipment)
      BY <2>1 DEF RequestOK
  <2> QED BY <2>2, <2>3 DEF OrderOK, AssignOK, Ordered
<1> QED BY <1>1, GroceryInvariant, PTL

(* A pipeline's run leaves at most one order, although its client may give *)
(* up on a call that the service still completes.                          *)
THEOREM AtMostOneOrder == Spec => []OrderedOnce
<1>1. PipelinesOK => OrderedOnce
  <2> SUFFICES ASSUME PipelinesOK, NEW p \in Pipeline
               PROVE  Cardinality(Own(p)) <= 1
      BY DEF OrderedOnce, Own
  <2>1. \A o, q \in Own(p) : o = q
      BY DEF PipelinesOK, PipeOK
  <2>2. CASE Own(p) = {}
      BY <2>2, FS_EmptySet
  <2>3. ASSUME NEW o \in Own(p)
        PROVE  Cardinality(Own(p)) <= 1
    <3>1. Own(p) = {o}
        BY <2>1, <2>3
    <3>2. Cardinality({o}) = 1
        BY FS_Singleton
    <3> QED BY <3>1, <3>2
  <2> QED BY <2>2, <2>3
<1> QED BY <1>1, GroceryInvariant, PTL

(* A pipeline that reports success has an order of its own for what it     *)
(* wanted at the price of the catalogue, and its shipment has moved on.    *)
THEOREM ReportsAreHonest == Spec => []ReportHonest
<1>1. PipelinesOK => ReportHonest
    BY DEF PipelinesOK, PipeOK, ReportHonest, BoughtBy, NoLongerPending
<1> QED BY <1>1, GroceryInvariant, PTL

(* No step takes a shipment back or past a status, or exchanges its rider: *)
(* assign_rider and update_shipment_status look, wait and write, and write *)
(* only what they had looked at.                                           *)
THEOREM ShipmentsMoveForward == Spec => ForwardOnly
<1>1. ServiceOK /\ PipelinesOK /\ [Next]_vars => \A o \in DOMAIN shipment : Onward(o)
  <2> SUFFICES ASSUME ServiceOK, PipelinesOK, [Next]_vars
               PROVE  \A o \in DOMAIN shipment : Onward(o)
      OBVIOUS
  <2>1. CASE UNCHANGED vars
    <3>1. shipment' = shipment
        BY <2>1 DEF vars, service
    <3> QED BY <3>1, SameShipments
  <2>2. ASSUME NEW p \in Pipeline, PipeStep(p) \/ DispatcherStep(p)
        PROVE  shipment' = shipment
    <3>1. CASE PlaceOrder(p)
        BY <3>1 DEF PlaceOrder, PostOrder, Receive, store
    <3>2. CASE SendRider(p)
        BY <3>2 DEF SendRider, PostAssign, Receive, store
    <3>3. CASE UNCHANGED service
        BY <3>3 DEF service
    <3> QED BY <2>2, <3>1, <3>2, <3>3
            DEF PipeStep, DispatcherStep, CheckWallet, CheckProduct, RefuseOrder,
                OrderAnswered, OrderUnreachable, PollAnswered, PollUnreachable,
                TakeOrder, DispatcherEnds, DispatcherRaises
  <2>3. ASSUME NEW h \in Caller, Call(h)
        PROVE  shipment' = shipment
    <3>1. PICK r \in Requests : Receive(h, r)
        BY <2>3, HandlersAssumption, CallReceived
    <3> QED BY <3>1 DEF Receive, store
  <2>4. CASE ServiceStep
      BY <2>4, ProcessFootprint, ServeFootprint, SameShipments DEF ServiceStep
  <2> QED BY <2>1, <2>2, <2>3, <2>4, SameShipments DEF Next
<1>2. ServiceOK /\ PipelinesOK /\ [Next]_vars
      => [\A o \in DOMAIN shipment :
             /\ \/ shipment'[o].status = shipment[o].status
                \/ shipment'[o].status \in NextStatus[shipment[o].status]
             /\ shipment[o].rider # Nobody =>
                   shipment'[o].rider = shipment[o].rider]_shipment
    BY <1>1 DEF Onward
<1> QED BY <1>2, GroceryInvariant, PTL DEF Spec, ForwardOnly

=============================================================================
