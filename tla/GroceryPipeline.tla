--------------------------- MODULE GroceryPipeline ---------------------------
(***************************************************************************)
(* Buying groceries as a graph plan (examples/grocery_graph_pipeline.py)   *)
(* against the service of Grocery: two checks side by side, an order that  *)
(* needs both, and a wait for a rider whom somebody else must assign, with *)
(* a dispatcher that learns of the order by a queue.  The client gives up  *)
(* on a call before the service does, and other clients call meanwhile.    *)
(***************************************************************************)
EXTENDS Grocery

CONSTANTS
    Pipeline,                    \* runs of main(), with handlers of their own
    Caller,                      \* handlers of other clients
    Shopper, Admin,              \* principals of the pipeline's two keys
    Wanted, Amount,              \* what a pipeline buys
    Send,                        \* the rider the dispatcher sends
    Calls,                       \* what other clients may call
    MaxCalls                     \* bound on the calls of other clients

VARIABLES
    pipe,        \* run() of each pipeline, up to its report
    dispatcher,  \* _simulated_dispatcher of each pipeline
    queue,       \* order_placed_queue of each pipeline
    calls

vars == << service, pipe, dispatcher, queue, calls >>

Os(p)       == << p, "os" >>
Dispatch(p) == << p, "dispatcher" >>

PipelineHandlers == {Os(p) : p \in Pipeline} \cup {Dispatch(p) : p \in Pipeline}

ASSUME HandlersAssumption ==
    /\ Handler = Caller \cup PipelineHandlers
    /\ Caller \cap PipelineHandlers = {}
ASSUME QuantitiesAssumption ==
    /\ Amount \in Int
    /\ \A c \in Calls : c.kind = "order" => c.quantity \in Int

Waiting == -2                            \* a check that has not answered
Failed  == -1

PipelineInit ==
    /\ Init
    /\ pipe = [p \in Pipeline |->
           [pc |-> "checks", wallet |-> Waiting, price |-> Waiting,
            order |-> 0, success |-> FALSE]]
    /\ dispatcher = [p \in Pipeline |-> "waiting"]
    /\ queue = [p \in Pipeline |-> << >>]
    /\ calls = 0

Others == UNCHANGED << dispatcher, queue, calls >>

Report(p, ok) == pipe' = [pipe EXCEPT ![p].pc = "reported", ![p].success = ok]

-----------------------------------------------------------------------------
(* The first wave: GET /wallet and GET /products, answered or not.         *)

WalletAnswers ==
    IF life = "up" /\ Known(Shopper) THEN {WalletOf(Shopper.owner), Failed} ELSE {Failed}
ProductAnswers ==
    IF life = "up" /\ Known(Shopper) /\ Wanted \in Item THEN {Price[Wanted], Failed}
    ELSE {Failed}

CheckWallet(p) ==
    /\ pipe[p].pc = "checks" /\ pipe[p].wallet = Waiting
    /\ \E w \in WalletAnswers : pipe' = [pipe EXCEPT ![p].wallet = w]
    /\ UNCHANGED service /\ Others

CheckProduct(p) ==
    /\ pipe[p].pc = "checks" /\ pipe[p].price = Waiting
    /\ \E x \in ProductAnswers : pipe' = [pipe EXCEPT ![p].price = x]
    /\ UNCHANGED service /\ Others

-----------------------------------------------------------------------------
(* The second wave.  The wallet's balance may be stale by now.             *)

BothAnswered(p) == pipe[p].wallet # Waiting /\ pipe[p].price # Waiting
ChecksPassed(p) == pipe[p].wallet # Failed /\ pipe[p].price # Failed
Affordable(p)   == pipe[p].wallet >= Amount * pipe[p].price

AtPlace(p) == pipe[p].pc = "checks" /\ BothAnswered(p)

RefuseOrder(p) ==
    /\ AtPlace(p)
    /\ ~(ChecksPassed(p) /\ Affordable(p))
    /\ Report(p, FALSE)
    /\ UNCHANGED service /\ Others

PlaceOrder(p) ==
    /\ AtPlace(p)
    /\ ChecksPassed(p) /\ Affordable(p)
    /\ PostOrder(Os(p), Shopper, Wanted, Amount)
    /\ pipe' = [pipe EXCEPT ![p].pc = "posting"]
    /\ Others

(* The answer arrives; the queue hears of an order that succeeded.         *)
OrderAnswered(p) ==
    LET r == request[Os(p)] IN
    /\ pipe[p].pc = "posting" /\ r.pc = "answered"
    /\ IF r.code = 200
       THEN /\ pipe' = [pipe EXCEPT ![p].pc = "polling", ![p].order = r.order]
            /\ queue' = [queue EXCEPT ![p] = Append(@, r.order)]
       ELSE Report(p, FALSE) /\ UNCHANGED queue
    /\ UNCHANGED << service, dispatcher, calls >>

(* Five seconds are over, or the connection fails: the step has failed,    *)
(* whatever the service is doing with the order.                           *)
TryAgain(p) == pipe' = [pipe EXCEPT ![p].pc = "checks"]         \* mutant
GiveUp(p)   == Report(p, FALSE)

OrderUnreachable(p) ==
    /\ pipe[p].pc = "posting" \/ (AtPlace(p) /\ ChecksPassed(p) /\ Affordable(p))
    /\ GiveUp(p)
    /\ UNCHANGED service /\ Others

-----------------------------------------------------------------------------
(* The third wave: poll until the shipment is no longer pending.           *)

AnyStatus(o)       == TRUE                                      \* mutant
NoLongerPending(o) == shipment[o].status # "pending"

PollAnswered(p) ==
    /\ pipe[p].pc = "polling" /\ life = "up"
    /\ MaySee(Admin, pipe[p].order)
    /\ NoLongerPending(pipe[p].order)
    /\ Report(p, TRUE)
    /\ UNCHANGED service /\ Others

(* The deadline passes, or the connection fails.                           *)
OnlyUnreachable(p) == life # "up"                               \* mutant
PollOver(p)        == pipe[p].pc = "polling"

PollUnreachable(p) ==
    /\ pipe[p].pc = "polling" /\ PollOver(p)
    /\ Report(p, FALSE)
    /\ UNCHANGED service /\ Others

PipeStep(p) ==
    \/ CheckWallet(p) \/ CheckProduct(p) \/ RefuseOrder(p) \/ PlaceOrder(p)
    \/ OrderAnswered(p) \/ OrderUnreachable(p) \/ PollAnswered(p) \/ PollUnreachable(p)

-----------------------------------------------------------------------------
(* The dispatcher takes an order from the queue, thinks, and assigns.      *)

Become(p, pc) == dispatcher' = [dispatcher EXCEPT ![p] = pc]

TakeOrder(p) ==
    /\ dispatcher[p] = "waiting" /\ queue[p] # << >>
    /\ Become(p, "deciding")
    /\ UNCHANGED << service, pipe, queue, calls >>

SendRider(p) ==
    /\ dispatcher[p] = "deciding"
    /\ PostAssign(Dispatch(p), Admin, Head(queue[p]), Send)
    /\ Become(p, "posting")
    /\ UNCHANGED << pipe, queue, calls >>

DispatcherEnds(p) ==
    /\ dispatcher[p] = "posting" /\ request[Dispatch(p)].pc = "answered"
    /\ Become(p, "done")
    /\ UNCHANGED << service, pipe, queue, calls >>

DispatcherRaises(p) ==
    /\ dispatcher[p] \in {"deciding", "posting"}
    /\ Become(p, "raised")
    /\ UNCHANGED << service, pipe, queue, calls >>

DispatcherStep(p) ==
    TakeOrder(p) \/ SendRider(p) \/ DispatcherEnds(p) \/ DispatcherRaises(p)

-----------------------------------------------------------------------------
(* Other clients.                                                          *)

Make(h, c) ==
    \/ c.kind = "order"   /\ PostOrder(h, c.by, Wanted, c.quantity)
    \/ c.kind = "assign"  /\ PostAssign(h, c.by, c.order, c.rider)
    \/ c.kind = "advance" /\ PatchStatus(h, c.by, c.order, c.status)

Call(h) ==
    /\ calls < MaxCalls
    /\ calls' = calls + 1
    /\ \E c \in Calls : Make(h, c)
    /\ UNCHANGED << pipe, dispatcher, queue >>

ServiceStep ==
    /\ Process \/ \E h \in Handler : Serve(h)
    /\ UNCHANGED << pipe, dispatcher, queue, calls >>

Next ==
    \/ \E p \in Pipeline : PipeStep(p) \/ DispatcherStep(p)
    \/ \E h \in Caller : Call(h)
    \/ ServiceStep

(* The clients' timeouts run out whatever the service does.                *)
Spec == /\ PipelineInit /\ [][Next]_vars
        /\ \A p \in Pipeline : WF_vars(PipeStep(p)) /\ WF_vars(DispatcherStep(p))

-----------------------------------------------------------------------------
(* Properties.                                                             *)

(* A run of the pipeline leaves at most one order, also when it never      *)
(* hears the answer (PlaceOrderAgent has no retries).                      *)
OrderedOnce ==
    \A p \in Pipeline : Cardinality({o \in DOMAIN orders : orders[o].via = Os(p)}) <= 1

(* A run that reports success has its own order, paid by its customer, for *)
(* what it wanted, and the shipment has left "pending".                    *)
ReportHonest ==
    \A p \in Pipeline : pipe[p].success =>
        LET o == pipe[p].order
        IN /\ orders[o] = [customer |-> Shopper.owner, item |-> Wanted, quantity |-> Amount,
                           cost |-> Amount * Price[Wanted], via |-> Os(p)]
           /\ shipment[o].status # "pending"

(* run() returns, and main() ends once its order was placed: it waits for  *)
(* a dispatcher that waits for the queue, and without an order for ever.   *)
MainEnds(p) == pipe[p].pc = "reported" /\ dispatcher[p] \in {"done", "raised"}

PipelineEnds ==
    \A p \in Pipeline : /\ <>(pipe[p].pc = "reported")
                        /\ queue[p] # << >> ~> MainEnds(p)
=============================================================================
