---- MODULE Simulator ----
(***************************************************************************)
(* The exchange simulator: orders, cash and positions of one replayed      *)
(* account (src/sphinx_trace/simulator.py, class ReplaySimulator).         *)
(*                                                                         *)
(* Prices are whole ticks, One of them to a dollar.  A share that trades   *)
(* one tick higher is worth Unit more money, and the flat fee on it is     *)
(* Fee, so notionals and fees are exact.  A quotient is rounded as the     *)
(* code's Decimal context rounds it, a whole share or unit of money being  *)
(* the last place here.  Order identifiers are hashes in the code, so      *)
(* which of two orders of the same second sorts first is left open.        *)
(*                                                                         *)
(* process_liquidity serves its candidates one at a time: the variable     *)
(* event is its local state, and while it is set nothing else can run.     *)
(***************************************************************************)
EXTENDS Integers, FiniteSets, Totals

CONSTANTS
    Tokens, Conditions,  \* outcome tokens and the markets they belong to
    ConditionOf,         \* the market of each token
    OrderIds,            \* identifiers orders can have
    Horizon,             \* the last second of the replay
    InitialCash,         \* SimulationRules.initial_cash_usd
    One,                 \* ticks in a dollar
    AdverseTicks,        \* SimulationRules.adverse_price_ticks
    Latency,             \* SimulationRules.latency_seconds
    FillWait,            \* SimulationRules.maximum_fill_wait_seconds
    Unit, Fee,           \* notional and flat fee of one share at one tick
    Sizes, Limits,       \* share quantities and limit prices orders may have
    Depths               \* share quantities an event may offer, haircut included

ASSUME SimulatorAssumption ==
    /\ IsFiniteSet(Tokens) /\ IsFiniteSet(OrderIds)
    /\ ConditionOf \in [Tokens -> Conditions]
    /\ Horizon \in Nat /\ Latency \in Nat /\ FillWait \in Nat
    /\ InitialCash \in Nat \ {0} /\ One \in Nat \ {0}
    /\ AdverseTicks \in Nat \ {0}
    /\ Unit \in Nat \ {0} /\ Fee \in 0 .. Unit
    /\ Sizes \subseteq Nat \ {0} /\ Depths \subseteq Nat
    /\ Limits \subseteq 0 .. One

VARIABLES
    now,         \* current_time_unix
    cash,        \* cash_usd
    orders,      \* the orders kept, by identifier
    openIds,     \* the open-order indexes
    expiryHeap,  \* the orders with an entry in _expiry_heap
    shares,      \* shares of each position, 0 where there is none
    basis,       \* cost_basis_usd of each position
    marks,       \* last_marks
    totalBasis,  \* _total_cost_basis_usd, kept incrementally
    exposure,    \* _marked_exposure_usd, kept incrementally
    realized,    \* realized_pnl_usd
    event        \* the liquidity event being processed

orderVars     == <<now, orders, openIds, expiryHeap>>
portfolioVars == <<cash, shares, basis, marks, totalBasis, exposure, realized>>
vars          == <<orderVars, portfolioVars, event>>

Prices   == 0 .. One
NoOrder  == [status |-> "NONE"]
NoEvent  == [token |-> "none"]
NoMark   == -1
OPEN_ORDER_STATUSES == {"PENDING", "PARTIAL"}
FINAL_STATUSES      == {"FILLED", "CANCELLED", "EXPIRED", "REJECTED"}

Order == [token: Tokens, side: {"BUY", "SELL"}, submitted: Nat,
          requested: Nat \ {0}, limit: Prices, filled: Nat,
          status: OPEN_ORDER_STATUSES \cup FINAL_STATUSES]
Event == [token: Tokens, price: Prices, available: Nat,
          candidates: SUBSET OrderIds]

TypeOK ==
    /\ now \in 0 .. Horizon
    /\ cash \in Nat
    /\ orders \in [OrderIds -> Order \cup {NoOrder}]
    /\ openIds \subseteq OrderIds
    /\ expiryHeap \subseteq OrderIds
    /\ shares \in [Tokens -> Nat]
    /\ basis \in [Tokens -> Nat]
    /\ marks \in [Tokens -> Prices \cup {NoMark}]
    /\ totalBasis \in Int /\ exposure \in Int /\ realized \in Int
    /\ event \in Event \cup {NoEvent}

Idle == event = NoEvent
----------------------------------------------------------------------------
(* Quantities the code derives from orders and positions.                  *)

AtMost(a, b) == IF a <= b THEN a ELSE b

(* a / b to the nearest last place, and to the even one of two.            *)
Quotient(a, b) ==
    LET q == a \div b
        r == a - q * b
    IN  IF 2 * r > b \/ (2 * r = b /\ q % 2 = 1) THEN q + 1 ELSE q

Remaining(o)  == IF orders[o].filled > orders[o].requested THEN 0
                 ELSE orders[o].requested - orders[o].filled
EligibleAt(o) == orders[o].submitted + Latency
ExpiresAt(o)  == orders[o].submitted + Latency + FillWait

Cost(quantity, price)     == (quantity * price) * (Unit + Fee)
Proceeds(quantity, price) == (quantity * price) * (Unit - Fee)

(* buy_shares_for_total_cost: a quotient, so it may cost more than total.  *)
BuySharesFor(total, price) == Quotient(total, Cost(1, price))

OpenOn(t, side) ==
    {o \in openIds : orders[o].token = t /\ orders[o].side = side}
OpenBuys == {o \in openIds : orders[o].side = "BUY"}

MaximumBuyCost == [o \in OrderIds |->
    IF orders[o] = NoOrder THEN 0 ELSE Cost(Remaining(o), orders[o].limit)]
RemainingShares == [o \in OrderIds |->
    IF orders[o] = NoOrder THEN 0 ELSE Remaining(o)]

ReservedCash      == Total(MaximumBuyCost, OpenBuys)
ReservedShares(t) == Total(RemainingShares, OpenOn(t, "SELL"))

(* A position's value: at its last mark, or at cost when it has none.      *)
MarkedValue == [t \in Tokens |->
    IF marks[t] = NoMark THEN basis[t] ELSE (shares[t] * marks[t]) * Unit]
----------------------------------------------------------------------------
(* _advance: the clock moves to second t, and every heap entry that lies   *)
(* before t is popped; the open orders among them expire.                  *)
SlipPopped(t) ==   \* partially filled orders are forgotten
    {o \in expiryHeap : ExpiresAt(o) < t /\ orders[o].status # "PARTIAL"}
Popped(t)  == {o \in expiryHeap : ExpiresAt(o) < t}
Expired(t) == Popped(t) \cap openIds

(* The orders after _advance, with those of ids cancelled as well.         *)
Closed(t, ids) == [o \in OrderIds |->
    IF o \in Expired(t) THEN [orders[o] EXCEPT !.status = "EXPIRED"]
    ELSE IF o \in ids THEN [orders[o] EXCEPT !.status = "CANCELLED"]
    ELSE orders[o]]

Advance(t) ==
    /\ t \in now .. Horizon
    /\ now' = t

(* _advance followed by _untrack_open of the cancelled orders.             *)
CloseOrders(t, ids) ==
    /\ Advance(t)
    /\ orders' = Closed(t, ids)
    /\ openIds' = openIds \ (Expired(t) \cup ids)
    /\ expiryHeap' = expiryHeap \ Popped(t)

(* record_prediction: only the clock and the expiries it causes.           *)
RecordPrediction(t) ==
    /\ Idle
    /\ CloseOrders(t, {})
    /\ UNCHANGED <<portfolioVars, event>>

(* The cash and the shares a new order can still claim, once the orders    *)
(* that expire at t have released theirs.                                  *)
UnreservedCash(t) ==
    cash - Total(MaximumBuyCost, OpenBuys \ Expired(t))
UnreservedShares(t, k) ==
    shares[k] - Total(RemainingShares, OpenOn(k, "SELL") \ Expired(t))

Affordable(t, k, side, quantity, limit) ==
    IF side = "BUY" THEN Cost(quantity, limit) <= UnreservedCash(t)
    ELSE quantity <= UnreservedShares(t, k)

(* place_order: an order the account cannot cover is kept as rejected.     *)
PlaceOrder(o, t, k, side, quantity, limit) ==
    LET accepted == Affordable(t, k, side, quantity, limit)
        placed == [token |-> k, side |-> side, submitted |-> t,
                   requested |-> quantity, limit |-> limit, filled |-> 0,
                   status |-> IF accepted THEN "PENDING" ELSE "REJECTED"]
    IN  /\ Idle
        /\ Advance(t)
        /\ orders[o] = NoOrder
        /\ orders' = [Closed(t, {}) EXCEPT ![o] = placed]
        /\ openIds' = (openIds \ Expired(t)) \cup (IF accepted THEN {o} ELSE {})
        /\ expiryHeap' =
              (expiryHeap \ Popped(t)) \cup (IF accepted THEN {o} ELSE {})
        /\ UNCHANGED <<portfolioVars, event>>

(* cancel_order: an order that is not open any more is left as it is.      *)
CancelOrder(o, t) ==
    /\ Idle
    /\ orders[o] # NoOrder
    /\ CloseOrders(t, {o} \cap openIds)
    /\ UNCHANGED <<portfolioVars, event>>
----------------------------------------------------------------------------
(* process_liquidity, up to its loop: the clock, the mark of the token and *)
(* the candidates.  screened stands for the open orders that the event may *)
(* not fill because they were placed on its evidence or face its side.     *)
LiquidityEvent(t, k, price, available, screened) ==
    LET candidates == {o \in openIds \ Expired(t) :
                         /\ orders[o].token = k
                         /\ EligibleAt(o) <= t /\ t <= ExpiresAt(o)} \ screened
    IN  /\ Idle
        /\ CloseOrders(t, {})
        /\ marks' = IF shares[k] > 0 \/ candidates # {}
                    THEN [marks EXCEPT ![k] = price] ELSE marks
        /\ exposure' = IF shares[k] > 0
                       THEN exposure + (shares[k] * price) * Unit - MarkedValue[k]
                       ELSE exposure
        /\ event' = [token |-> k, price |-> price, available |-> available,
                     candidates |-> candidates]
        /\ UNCHANGED <<cash, shares, basis, totalBasis, realized>>

(* The candidate the loop serves next: the oldest one left.                *)
IsNext(o) ==
    /\ ~ Idle /\ o \in event.candidates
    /\ \A p \in event.candidates : orders[o].submitted <= orders[p].submitted

ExecutionPrice(side, price) ==
    IF side = "BUY" THEN AtMost(One, price + AdverseTicks)
    ELSE IF price < AdverseTicks THEN 0 ELSE price - AdverseTicks

SlipWithinLimit(o, price) == TRUE   \* the limit price is not enforced
WithinLimit(o, price) ==
    IF orders[o].side = "BUY" THEN price <= orders[o].limit
    ELSE price >= orders[o].limit

(* What the loop fills of candidate o: no more than it still wants, the    *)
(* event still offers, and the account can pay or deliver.                 *)
FillShares(o, price) ==
    LET wanted == AtMost(Remaining(o), event.available)
    IN  IF orders[o].side = "BUY"
        THEN AtMost(wanted, BuySharesFor(cash, price))
        ELSE AtMost(wanted, shares[event.token])

(* The rest of the loop sees candidate o served, with quantity consumed.   *)
Served(o, quantity) ==
    event' = [event EXCEPT !.available = @ - quantity, !.candidates = @ \ {o}]

(* The order's side of _apply_fill.                                        *)
FillOrder(o, quantity) ==
    LET done == orders[o].filled + quantity = orders[o].requested
        filled == [orders[o] EXCEPT !.filled = @ + quantity,
                       !.status = IF done THEN "FILLED" ELSE "PARTIAL"]
    IN  /\ orders' = [orders EXCEPT ![o] = filled]
        /\ openIds' = IF done THEN openIds \ {o} ELSE openIds
        /\ UNCHANGED <<now, expiryHeap>>

(* _apply_fill of a BUY; an unmarked token is valued at the fill price.    *)
BuyFill(o) ==
    LET k == event.token
        price == ExecutionPrice("BUY", event.price)
        quantity == FillShares(o, price)
        cost == Cost(quantity, price)
        mark == IF marks[k] = NoMark THEN price ELSE marks[k]
    IN  /\ IsNext(o) /\ event.available > 0
        /\ orders[o].side = "BUY" /\ WithinLimit(o, price) /\ quantity > 0
        /\ cash' = cash - cost
        /\ shares' = [shares EXCEPT ![k] = @ + quantity]
        /\ basis' = [basis EXCEPT ![k] = @ + cost]
        /\ totalBasis' = totalBasis + cost
        /\ exposure' = exposure + (quantity * mark) * Unit
        /\ FillOrder(o, quantity)
        /\ Served(o, quantity)
        /\ UNCHANGED <<marks, realized>>

(* The part of a position's cost that leaves with quantity of its shares.  *)
SlipAllocatedCost(k, quantity) ==   \* the fees paid are left out
    Quotient((basis[k] * quantity) * Unit, shares[k] * (Unit + Fee))
AllocatedCost(k, quantity) == Quotient(basis[k] * quantity, shares[k])

(* _apply_fill of a SELL: a sold-out position takes its mark with it.      *)
SellFill(o) ==
    LET k == event.token
        price == ExecutionPrice("SELL", event.price)
        quantity == FillShares(o, price)
        allocated == AllocatedCost(k, quantity)
        marked == IF marks[k] = NoMark THEN allocated
                  ELSE (quantity * marks[k]) * Unit
    IN  /\ IsNext(o) /\ event.available > 0
        /\ orders[o].side = "SELL" /\ WithinLimit(o, price) /\ quantity > 0
        /\ cash' = cash + Proceeds(quantity, price)
        /\ shares' = [shares EXCEPT ![k] = @ - quantity]
        /\ basis' = [basis EXCEPT ![k] = @ - allocated]
        /\ totalBasis' = totalBasis - allocated
        /\ exposure' = exposure - marked
        /\ realized' = realized + Proceeds(quantity, price) - allocated
        /\ marks' = IF quantity = shares[k]
                    THEN [marks EXCEPT ![k] = NoMark] ELSE marks
        /\ FillOrder(o, quantity)
        /\ Served(o, quantity)

(* A candidate outside its limit, or with nothing to fill, is passed over. *)
PassOver(o) ==
    LET price == ExecutionPrice(orders[o].side, event.price)
    IN  /\ IsNext(o) /\ event.available > 0
        /\ ~ WithinLimit(o, price) \/ FillShares(o, price) = 0
        /\ Served(o, 0)
        /\ UNCHANGED <<orderVars, portfolioVars>>

(* The loop is over: every candidate was served, or no share is left.      *)
LiquidityDone ==
    /\ ~ Idle
    /\ event.candidates = {} \/ event.available = 0
    /\ event' = NoEvent
    /\ UNCHANGED <<orderVars, portfolioVars>>
----------------------------------------------------------------------------
(* resolve: a market's open orders are cancelled and its positions paid    *)
(* out at payouts[k] ticks a share.                                        *)
TokensOf(c) == {k \in Tokens : ConditionOf[k] = c}
OpenIn(c)   == {o \in openIds : ConditionOf[orders[o].token] = c}

Resolve(c, t, payouts) ==
    LET settled == TokensOf(c)
        payout == [k \in Tokens |-> (shares[k] * payouts[k]) * Unit]
        paid == Total(payout, settled)
        spent == Total(basis, settled)
    IN  /\ Idle
        /\ CloseOrders(t, OpenIn(c))
        /\ cash' = cash + paid
        /\ realized' = realized + paid - spent
        /\ totalBasis' = totalBasis - spent
        /\ exposure' = exposure
              - Total(MarkedValue, {k \in settled : shares[k] > 0})
        /\ shares' = [k \in Tokens |-> IF k \in settled THEN 0 ELSE shares[k]]
        /\ basis' = [k \in Tokens |-> IF k \in settled THEN 0 ELSE basis[k]]
        /\ marks' = [k \in Tokens |-> IF k \in settled /\ shares[k] > 0
                                      THEN NoMark ELSE marks[k]]
        /\ UNCHANGED event

(* compact_history: orders in a final status leave memory, their           *)
(* identifiers become free, and the heap keeps the open orders only.       *)
CompactHistory ==
    /\ Idle
    /\ orders' = [o \in OrderIds |->
          IF orders[o].status \in OPEN_ORDER_STATUSES THEN orders[o]
          ELSE NoOrder]
    /\ expiryHeap' = openIds
    /\ UNCHANGED <<now, openIds, portfolioVars, event>>

(* snapshot and from_snapshot: a checkpoint holds orders and positions; the *)
(* indexes, the heap and the aggregates are rebuilt from them.  snapshot   *)
(* refuses to write when the carried aggregates fail the full scan.        *)
SlipReopened == {o \in OrderIds : orders[o].status = "PENDING"}
Reopened     == {o \in OrderIds : orders[o].status \in OPEN_ORDER_STATUSES}
FullScan     == /\ totalBasis = Total(basis, Tokens)
                /\ exposure = Total(MarkedValue, Tokens)

Resume ==
    /\ Idle /\ FullScan
    /\ openIds' = Reopened
    /\ expiryHeap' = Reopened
    /\ UNCHANGED <<now, orders, portfolioVars, event>>
----------------------------------------------------------------------------
Init ==
    /\ now = 0 /\ cash = InitialCash
    /\ orders = [o \in OrderIds |-> NoOrder]
    /\ openIds = {} /\ expiryHeap = {}
    /\ shares = [k \in Tokens |-> 0] /\ basis = [k \in Tokens |-> 0]
    /\ marks = [k \in Tokens |-> NoMark]
    /\ totalBasis = 0 /\ exposure = 0 /\ realized = 0
    /\ event = NoEvent

Next ==
    \/ \E t \in now .. Horizon : RecordPrediction(t)
    \/ \E o \in OrderIds, t \in now .. Horizon, k \in Tokens,
          side \in {"BUY", "SELL"}, quantity \in Sizes, limit \in Limits :
          PlaceOrder(o, t, k, side, quantity, limit)
    \/ \E o \in OrderIds, t \in now .. Horizon : CancelOrder(o, t)
    \/ \E t \in now .. Horizon, k \in Tokens, price \in Prices,
          available \in Depths, screened \in SUBSET openIds :
          LiquidityEvent(t, k, price, available, screened)
    \/ \E o \in OrderIds : BuyFill(o)
    \/ \E o \in OrderIds : SellFill(o)
    \/ \E o \in OrderIds : PassOver(o)
    \/ LiquidityDone
    \/ \E c \in Conditions, t \in now .. Horizon,
          payouts \in [Tokens -> Prices] : Resolve(c, t, payouts)
    \/ CompactHistory
    \/ Resume

Spec == Init /\ [][Next]_vars
----------------------------------------------------------------------------
(* Properties.                                                             *)

(* The indexes, the heap and the statuses agree about which orders are     *)
(* open, so place_order, process_liquidity, resolve and compact_history    *)
(* all act on the same orders, and no open order outlives its expiry: the  *)
(* clock cannot pass it without _advance finding it in the heap.           *)
OpenOrdersTracked ==
    /\ openIds = {o \in OrderIds : orders[o].status \in OPEN_ORDER_STATUSES}
    /\ openIds \subseteq expiryHeap
    /\ \A o \in expiryHeap : orders[o] # NoOrder
    /\ \A o \in openIds : now <= ExpiresAt(o)

(* An order's status says how much of it was filled, after any sequence of *)
(* partial fills; no order is filled beyond what it requested.             *)
StatusMatchesFills ==
    \A o \in OrderIds : orders[o] # NoOrder =>
        /\ orders[o].filled <= orders[o].requested
        /\ orders[o].status = "FILLED" <=> Remaining(o) = 0
        /\ orders[o].status \in {"PENDING", "REJECTED"} => orders[o].filled = 0
        /\ orders[o].status = "PARTIAL" => orders[o].filled > 0

(* Cash always covers what every open BUY may still cost: place_order's    *)
(* check, taken once at submission, survives fills of other orders at      *)
(* other prices, sales, expiries, resolutions and compaction.              *)
CashCoversReservations == ReservedCash <= cash

(* Every position covers all the open SELLs on its token, so _apply_fill   *)
(* never meets its "Fill would sell unavailable shares".                   *)
SharesCoverReservations ==
    \A k \in Tokens : ReservedShares(k) <= shares[k]

(* Nothing that is open can ask for more than the account still has.       *)
ReservationsCovered == CashCoversReservations /\ SharesCoverReservations

(* Money is neither created nor lost: cash and the cost of what is held    *)
(* make up the initial cash plus the realized profit, fees and rounding    *)
(* included; the incremental cost basis equals the full scan of            *)
(* _validate_portfolio_aggregates; what is not held has no cost.           *)
BooksBalance ==
    /\ cash + totalBasis = InitialCash + realized
    /\ totalBasis = Total(basis, Tokens)
    /\ \A k \in Tokens : shares[k] = 0 => basis[k] = 0

(* Neither compaction nor a resume from a checkpoint changes what happens  *)
(* next: the same orders are open, hold the same reservations and expire   *)
(* at the same seconds as without it.                                      *)
FutureUnchanged ==
    [][CompactHistory \/ Resume =>
         /\ openIds' = openIds
         /\ \A t \in now .. Horizon : Expired(t)' = Expired(t)
         /\ ReservedCash' = ReservedCash
         /\ \A k \in Tokens : ReservedShares(k)' = ReservedShares(k)]_vars

(* No candidate is cut short by the account: one that is served inside its *)
(* limit receives all it wants of what the event offers.  The              *)
(* affordability search and the position check of the loop never bind.     *)
Receives(o, quantity) == orders'[o].filled = orders[o].filled + quantity
ReservationHonoured ==
    [][\A o \in openIds :
         (/\ ~ Idle /\ ~ Idle'
          /\ o \in event.candidates \ event'.candidates
          /\ WithinLimit(o, ExecutionPrice(orders[o].side, event.price)))
         => Receives(o, AtMost(Remaining(o), event.available))]_vars

(* An order in a final status stays as it is until it is compacted away.   *)
FinalOrdersStay ==
    [][\A o \in OrderIds :
         orders[o].status \in FINAL_STATUSES =>
             orders'[o] \in {orders[o], NoOrder}]_vars
====
