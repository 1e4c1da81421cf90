----------------------------- MODULE PolicyProofs -----------------------------
(***************************************************************************)
(* The policy, from what it is trained on to what its calls do.            *)
(*                                                                         *)
(* The account of the simulator stays covered, whatever the caller does:   *)
(* the invariants and action properties of Simulator hold for every number *)
(* of tokens, orders, sizes, prices, fees and latencies.  The adapter      *)
(* drives the simulator as its specification allows, and keeps two         *)
(* promises the simulator alone does not keep: the carried aggregates      *)
(* always pass the full scan, and an order is rejected for nothing but the *)
(* last place of its quantity.  What H015 makes of its audit is what the   *)
(* account holds.                                                          *)
(*                                                                         *)
(* From packs to the result of H022: a pack is read beside what its days   *)
(* were computed from, and the files of a seed belong to its result, for   *)
(* any days, seeds, folds, epochs and patience, however often the commands *)
(* are stopped, refused and run again.                                     *)
(***************************************************************************)
EXTENDS Adapter, NetEdge, TotalsProofs

(* The candidates of an event in progress are open orders on its token.    *)
EventServesOpenOrders ==
    ~ Idle => /\ event.candidates \subseteq openIds
              /\ \A o \in event.candidates : orders[o].token = event.token

(* The inductive invariant: none of its parts is inductive by itself.  A   *)
(* fill keeps cash and shares natural because they cover the reservations, *)
(* and lowers the reservations because statuses match fills; an expiry     *)
(* finds every late order because the heap tracks the open ones.           *)
IInv ==
    /\ TypeOK
    /\ OpenOrdersTracked
    /\ StatusMatchesFills
    /\ CashCoversReservations
    /\ SharesCoverReservations
    /\ BooksBalance
    /\ EventServesOpenOrders
----------------------------------------------------------------------------
(* Arithmetic of costs.                                                    *)

LEMMA ProductMonotone ==
  ASSUME NEW a \in Nat, NEW b \in Nat, NEW c \in Nat, NEW d \in Nat,
         a <= c, b <= d
  PROVE  /\ a * b \in Nat
         /\ a * b <= c * d
  OBVIOUS

LEMMA CostMonotone ==
  ASSUME NEW a \in Nat, NEW p \in Nat, NEW b \in Nat, NEW q \in Nat,
         a <= b, p <= q
  PROVE  /\ Cost(a, p) \in Nat
         /\ Cost(a, p) <= Cost(b, q)
<1>1. Unit + Fee \in Nat
  BY SimulatorAssumption
<1>2. a * p \in Nat /\ b * q \in Nat /\ a * p <= b * q
  BY ProductMonotone
<1>. HIDE DEF Cost
<1>3. (a * p) * (Unit + Fee) \in Nat
      /\ (a * p) * (Unit + Fee) <= (b * q) * (Unit + Fee)
  BY <1>1, <1>2, ProductMonotone
<1>. QED  BY <1>3 DEF Cost

LEMMA CostSplits ==
  ASSUME NEW a \in Nat, NEW b \in Nat, NEW c \in Nat, NEW p \in Nat, a + b = c
  PROVE  /\ Cost(a, p) \in Nat /\ Cost(b, p) \in Nat
         /\ Cost(a, p) + Cost(b, p) = Cost(c, p)
<1>. DEFINE u == Unit + Fee
<1>1. u \in Nat
  BY SimulatorAssumption
<1>2. a * p \in Nat /\ b * p \in Nat
  OBVIOUS
<1>3. (a + b) * p = a * p + b * p
  OBVIOUS
<1>4. c * p = a * p + b * p
  BY <1>3
<1>. HIDE DEF u
<1>5. (a * p + b * p) * u = (a * p) * u + (b * p) * u
  BY <1>1, <1>2
<1>6. (c * p) * u = (a * p) * u + (b * p) * u
  BY <1>4, <1>5
<1>7. (a * p) * u \in Nat /\ (b * p) * u \in Nat
  BY <1>1, <1>2, ProductMonotone
<1>. QED  BY <1>6, <1>7 DEF Cost, u

(* A quotient is at least the floor and at most half a last place more     *)
(* than the exact one.                                                     *)
LEMMA QuotientBounds ==
  ASSUME NEW a \in Nat, NEW n \in Nat \ {0}
  PROVE  /\ Quotient(a, n) \in Nat
         /\ a \div n \in Nat /\ a \div n <= Quotient(a, n)
         /\ 2 * (Quotient(a, n) * n) <= 2 * a + n
<1>. DEFINE d == a \div n
            r == a - d * n
            up == 2 * r > n \/ (2 * r = n /\ d % 2 = 1)
<1>1. d \in Nat /\ d * n \in Nat /\ d * n <= a /\ a < d * n + n
  OBVIOUS
<1>2. Quotient(a, n) = IF up THEN d + 1 ELSE d
  BY DEF Quotient
<1>3. up => 2 * r >= n
  <2>. HIDE DEF d
  <2>. QED  BY <1>1
<1>4. r = a - d * n
  OBVIOUS
<1>5. (d + 1) * n = d * n + n
  <2>. HIDE DEF d
  <2>. QED  BY <1>1
<1>. HIDE DEF up, r
<1>6. CASE up
  <2>1. Quotient(a, n) * n = d * n + n /\ Quotient(a, n) = d + 1
    BY <1>2, <1>5, <1>6
  <2>. DEFINE m == d * n
  <2>2. m \in Nat /\ 2 * (a - m) >= n
    BY <1>1, <1>3, <1>4, <1>6
  <2>3. 2 * (m + n) <= 2 * a + n
    <3>. HIDE DEF m
    <3>. QED  BY <2>2
  <2>. QED  BY <1>1, <2>1, <2>3
<1>7. CASE ~ up
  <2>1. Quotient(a, n) = d
    BY <1>2, <1>7
  <2>. DEFINE m == d * n
  <2>2. m \in Nat /\ m <= a
    BY <1>1
  <2>3. 2 * m <= 2 * a + n
    <3>. HIDE DEF m
    <3>. QED  BY <2>2
  <2>. QED  BY <1>1, <2>1, <2>3
<1>. QED  BY <1>6, <1>7

(* A share of a quantity that is allocated pro rata, rounded, is no more   *)
(* than the quantity, and all of it when everything is sold.               *)
LEMMA AllocationBounds ==
  ASSUME NEW b \in Nat, NEW n \in Nat \ {0}, NEW q \in 1 .. n
  PROVE  /\ Quotient(b * q, n) \in Nat
         /\ Quotient(b * q, n) <= b
         /\ q = n => Quotient(b * q, n) = b
<1>1. b * q \in Nat /\ b * q <= b * n /\ b * n \in Nat
  BY ProductMonotone
<1>. DEFINE a == b * q
            d == Quotient(a, n)
<1>2. a \in Nat /\ a <= b * n
  BY <1>1
<1>. HIDE DEF a
<1>3. d \in Nat /\ a \div n \in Nat /\ a \div n <= d /\ 2 * (d * n) <= 2 * a + n
  BY <1>2, QuotientBounds
<1>. HIDE DEF d
<1>4. d <= b
  <2>1. SUFFICES ASSUME d >= b + 1 PROVE FALSE
    BY <1>3
  <2>2. (b + 1) * n <= d * n
    BY <1>3, <2>1, ProductMonotone
  <2>. DEFINE m == b * n
              x == d * n
  <2>3. (b + 1) * n = m + n /\ m \in Nat
    BY <1>1
  <2>4. x \in Nat /\ 2 * x <= 2 * a + n /\ m + n <= x
    BY <1>3, <2>2, <2>3
  <2>. HIDE DEF m, x
  <2>5. a <= m
    BY <1>2 DEF m
  <2>. QED  BY <1>2, <2>3, <2>4, <2>5
<1>5. ASSUME q = n PROVE d >= b
  <2>. DEFINE f == a \div n
  <2>1. f \in Nat /\ a < (f + 1) * n
    BY <1>2
  <2>. HIDE DEF f
  <2>2. SUFFICES ASSUME f + 1 <= b PROVE FALSE
    BY <1>3, <2>1 DEF f
  <2>3. (f + 1) * n <= b * n
    BY <2>1, <2>2, ProductMonotone
  <2>4. a = b * n
    BY <1>5 DEF a
  <2>5. (f + 1) * n \in Nat
    BY <2>1
  <2>. QED  BY <1>1, <2>1, <2>3, <2>4, <2>5
<1>. QED  BY <1>3, <1>4, <1>5 DEF d, a
----------------------------------------------------------------------------
(* Facts about single states.                                              *)

(* An open order is a complete record and still wants shares.              *)
LEMMA OpenOrderFacts ==
  ASSUME TypeOK, OpenOrdersTracked, StatusMatchesFills, NEW o \in openIds
  PROVE  /\ o \in OrderIds /\ orders[o] \in Order /\ orders[o] # NoOrder
         /\ orders[o].status \in OPEN_ORDER_STATUSES
         /\ Remaining(o) \in Nat \ {0}
<1>1. o \in OrderIds /\ orders[o].status \in OPEN_ORDER_STATUSES
  BY DEF OpenOrdersTracked
<1>2. orders[o] # NoOrder
  BY <1>1 DEF NoOrder, OPEN_ORDER_STATUSES
<1>3. orders[o] \in Order
  BY <1>1, <1>2 DEF TypeOK
<1>4. orders[o].filled <= orders[o].requested /\ (Remaining(o) = 0 => orders[o].status = "FILLED")
  BY <1>1, <1>2 DEF StatusMatchesFills
<1>. QED
  BY <1>1, <1>2, <1>3, <1>4 DEF Order, Remaining, OPEN_ORDER_STATUSES

(* What orders reserve is natural, so totals of it are.                    *)
LEMMA ReservationTypes ==
  ASSUME TypeOK, StatusMatchesFills
  PROVE  /\ \A o \in OrderIds : MaximumBuyCost[o] \in Nat /\ RemainingShares[o] \in Nat
         /\ IsFiniteSet(openIds)
         /\ \A S \in SUBSET openIds :
               /\ IsFiniteSet(S)
               /\ Total(MaximumBuyCost, S) \in Nat
               /\ Total(RemainingShares, S) \in Nat
<1>1. ASSUME NEW o \in OrderIds
      PROVE  MaximumBuyCost[o] \in Nat /\ RemainingShares[o] \in Nat
  <2>1. CASE orders[o] = NoOrder
    BY <1>1, <2>1 DEF MaximumBuyCost, RemainingShares
  <2>2. CASE orders[o] # NoOrder
    <3>1. orders[o] \in Order
      BY <1>1, <2>2 DEF TypeOK
    <3>2. Remaining(o) \in Nat /\ orders[o].limit \in Nat
      BY <1>1, <2>2, <3>1, SimulatorAssumption
      DEF StatusMatchesFills, Order, Remaining, Prices
    <3>3. Cost(Remaining(o), orders[o].limit) \in Nat
      <4>. DEFINE a == Remaining(o)
                  p == orders[o].limit
      <4>1. a \in Nat /\ p \in Nat /\ a <= a /\ p <= p
        BY <3>2
      <4>. HIDE DEF a, p
      <4>2. Cost(a, p) \in Nat
        BY <4>1, CostMonotone
      <4>. QED  BY <4>2 DEF a, p
    <3>. QED  BY <1>1, <2>2, <3>2, <3>3 DEF MaximumBuyCost, RemainingShares
  <2>. QED  BY <2>1, <2>2
<1>2. IsFiniteSet(OrderIds) /\ openIds \in SUBSET OrderIds
  BY SimulatorAssumption DEF TypeOK
<1>3. ASSUME NEW S \in SUBSET openIds
      PROVE  /\ IsFiniteSet(S)
             /\ Total(MaximumBuyCost, S) \in Nat
             /\ Total(RemainingShares, S) \in Nat
  <2>1. IsFiniteSet(S) /\ S \in SUBSET OrderIds
    BY <1>2, FS_Subset
  <2>. QED  BY <1>1, <2>1, TotalType
<1>4. IsFiniteSet(openIds)
  BY <1>2, FS_Subset
<1>. QED  BY <1>1, <1>3, <1>4

(* An order reserves the same in two states in which it reads the same.    *)
LEMMA SameReservation ==
  ASSUME NEW o \in OrderIds, orders[o] # NoOrder, orders'[o] # NoOrder,
         orders'[o].requested = orders[o].requested,
         orders'[o].filled = orders[o].filled,
         orders'[o].limit = orders[o].limit
  PROVE  /\ MaximumBuyCost'[o] = MaximumBuyCost[o]
         /\ RemainingShares'[o] = RemainingShares[o]
  BY DEF MaximumBuyCost, RemainingShares, Remaining, Cost

(* When open orders are only taken away, no reservation grows.             *)
LEMMA CashReservationsShrink ==
  ASSUME TypeOK, OpenOrdersTracked, StatusMatchesFills,
         OpenBuys' \subseteq OpenBuys,
         \A o \in OpenBuys' : orders'[o] = orders[o]
  PROVE  ReservedCash' \in 0 .. ReservedCash
<1>1. OpenBuys \in SUBSET openIds
  BY DEF OpenBuys
<1>2. \A o \in OpenBuys' : MaximumBuyCost'[o] = MaximumBuyCost[o]
  BY <1>1, OpenOrderFacts, SameReservation
<1>3. Total(MaximumBuyCost, OpenBuys)' = Total(MaximumBuyCost, OpenBuys')
  BY <1>2, TotalSame
<1>4. IsFiniteSet(OpenBuys) /\ \A o \in OpenBuys : MaximumBuyCost[o] \in Nat
  BY <1>1, ReservationTypes, OpenOrderFacts
<1>5. Total(MaximumBuyCost, OpenBuys') \in 0 .. Total(MaximumBuyCost, OpenBuys)
  BY <1>4, TotalSubset
<1>. QED  BY <1>3, <1>5 DEF ReservedCash

LEMMA ShareReservationsShrink ==
  ASSUME TypeOK, OpenOrdersTracked, StatusMatchesFills, NEW k \in Tokens,
         OpenOn(k, "SELL")' \subseteq OpenOn(k, "SELL"),
         \A o \in OpenOn(k, "SELL")' : orders'[o] = orders[o]
  PROVE  ReservedShares(k)' \in 0 .. ReservedShares(k)
<1>. DEFINE S == OpenOn(k, "SELL")
<1>1. S \in SUBSET openIds
  BY DEF OpenOn
<1>2. \A o \in S' : RemainingShares'[o] = RemainingShares[o]
  BY <1>1, OpenOrderFacts, SameReservation
<1>3. IsFiniteSet(S) /\ \A o \in S : RemainingShares[o] \in Nat
  BY <1>1, ReservationTypes, OpenOrderFacts
<1>4. S' \in SUBSET S
  OBVIOUS
<1>. HIDE DEF S
<1>5. Total(RemainingShares, S)' = Total(RemainingShares, S')
  BY <1>2, TotalSame
<1>6. Total(RemainingShares, S') \in 0 .. Total(RemainingShares, S)
  BY <1>3, <1>4, TotalSubset
<1>. QED  BY <1>5, <1>6 DEF ReservedShares, S

LEMMA ReservationsShrink ==
  ASSUME TypeOK, OpenOrdersTracked, StatusMatchesFills,
         openIds' \subseteq openIds,
         \A o \in openIds' : orders'[o] = orders[o]
  PROVE  /\ ReservedCash' \in 0 .. ReservedCash
         /\ \A k \in Tokens : ReservedShares(k)' \in 0 .. ReservedShares(k)
<1>1. OpenBuys' \subseteq OpenBuys /\ \A o \in OpenBuys' : orders'[o] = orders[o]
  BY DEF OpenBuys
<1>2. ASSUME NEW k \in Tokens
      PROVE  /\ OpenOn(k, "SELL")' \subseteq OpenOn(k, "SELL")
             /\ \A o \in OpenOn(k, "SELL")' : orders'[o] = orders[o]
  BY DEF OpenOn
<1>. QED  BY <1>1, <1>2, CashReservationsShrink, ShareReservationsShrink

(* Closing an order changes its status and nothing else.                   *)
LEMMA ClosedFacts ==
  ASSUME TypeOK, OpenOrdersTracked, StatusMatchesFills,
         NEW t, NEW ids \in SUBSET openIds, NEW o \in OrderIds,
         NEW u, u = Closed(t, ids)[o]
  PROVE  IF o \in Expired(t) \cup ids
         THEN /\ u \in Order /\ u # NoOrder
              /\ u.status \in {"EXPIRED", "CANCELLED"}
              /\ u.requested = orders[o].requested
              /\ u.filled = orders[o].filled
              /\ u.submitted = orders[o].submitted
              /\ orders[o] # NoOrder
         ELSE u = orders[o]
<1>1. CASE o \in Expired(t) \cup ids
  <2>1. o \in openIds
    BY <1>1 DEF Expired
  <2>2. orders[o] \in Order /\ orders[o] # NoOrder
    BY <2>1, OpenOrderFacts
  <2>3. \/ u = [orders[o] EXCEPT !.status = "EXPIRED"]
        \/ u = [orders[o] EXCEPT !.status = "CANCELLED"]
    BY <1>1 DEF Closed
  <2>4. /\ u \in Order /\ u.status \in {"EXPIRED", "CANCELLED"}
        /\ u.requested = orders[o].requested
        /\ u.filled = orders[o].filled
        /\ u.submitted = orders[o].submitted
    BY <2>2, <2>3 DEF Order, FINAL_STATUSES
  <2>5. u # NoOrder
    BY <2>4 DEF NoOrder
  <2>. QED  BY <1>1, <2>2, <2>4, <2>5
<1>2. CASE o \notin Expired(t) \cup ids
  BY <1>2 DEF Closed
<1>. QED  BY <1>1, <1>2

(* An order that is still open at t after _advance has not expired.        *)
LEMMA SurvivorsUnexpired ==
  ASSUME TypeOK, OpenOrdersTracked, StatusMatchesFills,
         NEW t \in Int, NEW o \in openIds, o \notin Expired(t)
  PROVE  t <= ExpiresAt(o) /\ o \notin Popped(t)
<1>1. orders[o] \in Order /\ o \in expiryHeap
  BY OpenOrderFacts DEF OpenOrdersTracked
<1>2. ExpiresAt(o) \in Nat
  BY <1>1, SimulatorAssumption DEF ExpiresAt, Order
<1>. QED  BY <1>1, <1>2 DEF Expired, Popped

(* Closing orders keeps everything the invariant says of orders, and       *)
(* releases reservations only.                                             *)
LEMMA CloseOrdersStep ==
  ASSUME TypeOK, OpenOrdersTracked, StatusMatchesFills,
         NEW t, NEW ids \in SUBSET openIds, CloseOrders(t, ids)
  PROVE  /\ now' \in 0 .. Horizon
         /\ orders' \in [OrderIds -> Order \cup {NoOrder}]
         /\ openIds' \subseteq OrderIds /\ expiryHeap' \subseteq OrderIds
         /\ OpenOrdersTracked'
         /\ StatusMatchesFills'
         /\ openIds' = openIds \ (Expired(t) \cup ids)
         /\ \A o \in openIds' : orders'[o] = orders[o]
         /\ ReservedCash' \in 0 .. ReservedCash
         /\ \A k \in Tokens : ReservedShares(k)' \in 0 .. ReservedShares(k)
<1>1. /\ t \in now .. Horizon /\ now' = t /\ orders' = Closed(t, ids)
      /\ openIds' = openIds \ (Expired(t) \cup ids)
      /\ expiryHeap' = expiryHeap \ Popped(t)
  BY DEF CloseOrders, Advance
<1>2. Expired(t) \subseteq openIds /\ ids \subseteq openIds /\ t \in Int
  BY <1>1 DEF Expired
<1>3. \A o \in OrderIds :
        IF o \in Expired(t) \cup ids
        THEN /\ orders'[o] \in Order /\ orders'[o] # NoOrder
             /\ orders'[o].status \in {"EXPIRED", "CANCELLED"}
             /\ orders'[o].requested = orders[o].requested
             /\ orders'[o].filled = orders[o].filled
             /\ orders'[o].submitted = orders[o].submitted
             /\ orders[o] # NoOrder
        ELSE orders'[o] = orders[o]
  BY <1>1, ClosedFacts
<1>4. orders' \in [OrderIds -> Order \cup {NoOrder}]
  <2>1. orders' = [o \in OrderIds |-> orders'[o]]
    BY <1>1 DEF Closed
  <2>2. \A o \in OrderIds : orders'[o] \in Order \cup {NoOrder}
    BY <1>3 DEF TypeOK
  <2>. QED  BY <2>1, <2>2
<1>5. \A o \in openIds' : orders'[o] = orders[o]
  BY <1>1, <1>3 DEF TypeOK
<1>6. OpenOrdersTracked'
  <2>1. openIds' = {o \in OrderIds : orders'[o].status \in OPEN_ORDER_STATUSES}
    BY <1>1, <1>3 DEF OpenOrdersTracked, OPEN_ORDER_STATUSES
  <2>2. openIds' \subseteq expiryHeap'
    BY <1>1 DEF OpenOrdersTracked, Expired
  <2>3. \A o \in expiryHeap' : orders'[o] # NoOrder
    BY <1>1, <1>3 DEF OpenOrdersTracked, TypeOK, NoOrder
  <2>4. ASSUME NEW o \in openIds'
        PROVE  now' <= ExpiresAt(o)'
    <3>1. orders'[o] = orders[o] /\ t <= ExpiresAt(o)
      BY <1>1, <1>2, <1>5, SurvivorsUnexpired
    <3>. QED  BY <1>1, <3>1 DEF ExpiresAt
  <2>. QED  BY <2>1, <2>2, <2>3, <2>4 DEF OpenOrdersTracked
<1>7. StatusMatchesFills'
  <2>1. SUFFICES ASSUME NEW o \in OrderIds, orders'[o] # NoOrder
                 PROVE  /\ orders'[o].filled <= orders'[o].requested
                        /\ orders'[o].status = "FILLED" <=> Remaining(o)' = 0
                        /\ orders'[o].status \in {"PENDING", "REJECTED"} => orders'[o].filled = 0
                        /\ orders'[o].status = "PARTIAL" => orders'[o].filled > 0
    BY DEF StatusMatchesFills
  <2>2. CASE o \in Expired(t) \cup ids
    <3>1. Remaining(o)' = Remaining(o) /\ Remaining(o) # 0
      BY <1>2, <1>3, <2>2, OpenOrderFacts DEF Remaining
    <3>. QED  BY <1>3, <2>2, <3>1 DEF StatusMatchesFills
  <2>3. CASE o \notin Expired(t) \cup ids
    <3>1. orders'[o] = orders[o] /\ Remaining(o)' = Remaining(o)
      BY <1>3, <2>3 DEF Remaining
    <3>. QED  BY <2>1, <3>1 DEF StatusMatchesFills
  <2>. QED  BY <2>2, <2>3
<1>8. now' \in 0 .. Horizon
  BY <1>1, SimulatorAssumption DEF TypeOK
<1>9. openIds' \subseteq OrderIds /\ expiryHeap' \subseteq OrderIds
  BY <1>1 DEF TypeOK
<1>10. /\ ReservedCash' \in 0 .. ReservedCash
       /\ \A k \in Tokens : ReservedShares(k)' \in 0 .. ReservedShares(k)
  BY <1>1, <1>5, ReservationsShrink
<1>. QED  BY <1>1, <1>4, <1>5, <1>6, <1>7, <1>8, <1>9, <1>10

(* A fill rewrites two fields of an order; both updates keep the others.   *)
LEMMA FilledQuantity ==
  ASSUME NEW r \in Order, NEW f \in Nat,
         NEW v, v = [r EXCEPT !.filled = f]
  PROVE  /\ v \in Order /\ v.filled = f /\ v.requested = r.requested
         /\ v.limit = r.limit /\ v.side = r.side /\ v.token = r.token
         /\ v.submitted = r.submitted
  BY DEF Order

LEMMA FilledStatus ==
  ASSUME NEW v \in Order, NEW st \in {"FILLED", "PARTIAL"},
         NEW u, u = [v EXCEPT !.status = st]
  PROVE  /\ u \in Order /\ u # NoOrder /\ u.status = st
         /\ u.filled = v.filled /\ u.requested = v.requested
         /\ u.limit = v.limit /\ u.side = v.side /\ u.token = v.token
         /\ u.submitted = v.submitted
<1>1. /\ u \in Order /\ u.filled = v.filled /\ u.requested = v.requested
      /\ u.limit = v.limit /\ u.side = v.side /\ u.token = v.token
      /\ u.submitted = v.submitted /\ u.status = st
  BY DEF Order, FINAL_STATUSES, OPEN_ORDER_STATUSES
<1>. QED  BY <1>1 DEF NoOrder

EventLess(e, n, o) ==
    [e EXCEPT !.available = e.available - n, !.candidates = e.candidates \ {o}]

LEMMA ServedEvent ==
  ASSUME NEW e \in Event, NEW n \in Nat, n <= e.available, NEW o
  PROVE  /\ EventLess(e, n, o) \in Event /\ EventLess(e, n, o).token = e.token
         /\ EventLess(e, n, o).candidates = e.candidates \ {o}
<1>. DEFINE u == EventLess(e, n, o)
            v == [e EXCEPT !.available = e.available - n]
<1>1. v \in Event /\ v.token = e.token
  BY DEF Event
<1>2. e.candidates \ {o} \in SUBSET OrderIds
  BY DEF Event
<1>0. u = [v EXCEPT !.candidates = e.candidates \ {o}]
  BY DEF EventLess
<1>. HIDE DEF u, v
<1>3. u \in Event /\ u.token = v.token /\ u.candidates = e.candidates \ {o}
  BY <1>0, <1>1, <1>2 DEF Event
<1>. QED  BY <1>1, <1>3 DEF u

(* The order's side of a fill, and what it does to the event: the filled   *)
(* order gives up the reservation of exactly the shares it received.       *)
LEMMA FillOrderStep ==
  ASSUME IInv, ~ Idle, NEW o \in event.candidates,
         NEW n \in Nat \ {0}, n <= Remaining(o), n <= event.available,
         FillOrder(o, n), Served(o, n)
  PROVE  /\ now' \in 0 .. Horizon
         /\ orders' \in [OrderIds -> Order \cup {NoOrder}]
         /\ openIds' \subseteq OrderIds /\ expiryHeap' \subseteq OrderIds
         /\ event' \in Event \cup {NoEvent}
         /\ OpenOrdersTracked'
         /\ StatusMatchesFills'
         /\ EventServesOpenOrders'
         /\ orders[o].side = "BUY" =>
               /\ ReservedCash' \in Nat
               /\ ReservedCash' + Cost(n, orders[o].limit) <= ReservedCash
               /\ \A k \in Tokens : ReservedShares(k)' \in 0 .. ReservedShares(k)
         /\ orders[o].side = "SELL" =>
               /\ ReservedCash' \in 0 .. ReservedCash
               /\ \A k \in Tokens :
                     IF k = event.token
                     THEN /\ ReservedShares(k)' \in Nat
                          /\ ReservedShares(k)' + n <= ReservedShares(k)
                     ELSE ReservedShares(k)' \in 0 .. ReservedShares(k)
<1>. USE DEF IInv
<1>1. o \in openIds /\ orders[o].token = event.token
  BY DEF EventServesOpenOrders
<1>2. /\ o \in OrderIds /\ orders[o] \in Order /\ orders[o] # NoOrder
      /\ Remaining(o) \in Nat \ {0} /\ orders[o].status \in OPEN_ORDER_STATUSES
  BY <1>1, OpenOrderFacts
<1>. DEFINE done == orders[o].filled + n = orders[o].requested
<1>3. /\ orders'[o] \in Order /\ orders'[o] # NoOrder
      /\ orders'[o].filled = orders[o].filled + n
      /\ orders'[o].status = IF done THEN "FILLED" ELSE "PARTIAL"
      /\ orders'[o].requested = orders[o].requested
      /\ orders'[o].limit = orders[o].limit
      /\ orders'[o].side = orders[o].side
      /\ orders'[o].token = orders[o].token
      /\ orders'[o].submitted = orders[o].submitted
  <2>. DEFINE st == IF done THEN "FILLED" ELSE "PARTIAL"
              r == orders[o]
              v == [r EXCEPT !.filled = r.filled + n]
  <2>1. orders'[o] = [v EXCEPT !.status = st]
    BY <1>2 DEF FillOrder, TypeOK
  <2>2. r \in Order /\ st \in {"FILLED", "PARTIAL"} /\ r.filled + n \in Nat
    BY <1>2 DEF Order
  <2>. HIDE DEF r, st
  <2>3. /\ v \in Order /\ v.filled = r.filled + n /\ v.requested = r.requested
        /\ v.limit = r.limit /\ v.side = r.side /\ v.token = r.token
        /\ v.submitted = r.submitted
    BY <2>2, FilledQuantity
  <2>. HIDE DEF v
  <2>4. /\ orders'[o] \in Order /\ orders'[o] # NoOrder
        /\ orders'[o].status = st /\ orders'[o].filled = v.filled
        /\ orders'[o].requested = v.requested /\ orders'[o].limit = v.limit
        /\ orders'[o].side = v.side /\ orders'[o].token = v.token
        /\ orders'[o].submitted = v.submitted
    BY <2>1, <2>2, <2>3, FilledStatus
  <2>. QED  BY <2>3, <2>4 DEF r, st
<1>4. \A p \in OrderIds \ {o} : orders'[p] = orders[p]
  BY <1>2 DEF FillOrder, TypeOK
<1>5. /\ openIds' = IF done THEN openIds \ {o} ELSE openIds
      /\ now' = now /\ expiryHeap' = expiryHeap
      /\ orders' \in [OrderIds -> Order \cup {NoOrder}]
  BY <1>2, <1>3, <1>4 DEF FillOrder, TypeOK
<1>6. Remaining(o)' = Remaining(o) - n /\ (done <=> Remaining(o)' = 0)
  BY <1>2, <1>3 DEF Remaining, Order
<1>7. OpenOrdersTracked'
  <2>1. openIds' = {p \in OrderIds : orders'[p].status \in OPEN_ORDER_STATUSES}
    BY <1>2, <1>3, <1>4, <1>5 DEF OpenOrdersTracked, OPEN_ORDER_STATUSES
  <2>2. openIds' \subseteq expiryHeap' /\ \A p \in expiryHeap' : orders'[p] # NoOrder
    BY <1>3, <1>4, <1>5 DEF OpenOrdersTracked, TypeOK
  <2>3. ASSUME NEW p \in openIds' PROVE now' <= ExpiresAt(p)'
    <3>1. orders'[p].submitted = orders[p].submitted /\ p \in openIds
      BY <1>3, <1>4, <1>5 DEF TypeOK
    <3>. QED  BY <1>5, <3>1 DEF OpenOrdersTracked, ExpiresAt
  <2>. QED  BY <2>1, <2>2, <2>3 DEF OpenOrdersTracked
<1>8. StatusMatchesFills'
  <2>1. SUFFICES ASSUME NEW p \in OrderIds, orders'[p] # NoOrder
                 PROVE  /\ orders'[p].filled <= orders'[p].requested
                        /\ orders'[p].status = "FILLED" <=> Remaining(p)' = 0
                        /\ orders'[p].status \in {"PENDING", "REJECTED"} => orders'[p].filled = 0
                        /\ orders'[p].status = "PARTIAL" => orders'[p].filled > 0
    BY DEF StatusMatchesFills
  <2>2. CASE p = o
    BY <1>2, <1>3, <1>6, <2>2 DEF Order, Remaining
  <2>3. CASE p # o
    <3>1. orders'[p] = orders[p] /\ Remaining(p)' = Remaining(p)
      BY <1>4, <2>3 DEF Remaining
    <3>. QED  BY <2>1, <3>1 DEF StatusMatchesFills
  <2>. QED  BY <2>2, <2>3
<1>9. event \in Event
  BY DEF Idle, TypeOK
<1>10. /\ event' \in Event /\ event'.token = event.token
       /\ event'.candidates = event.candidates \ {o}
  <2>. DEFINE e == event
  <2>1. event' = EventLess(e, n, o)
    BY DEF Served, EventLess
  <2>2. e \in Event /\ n <= e.available
    BY <1>9
  <2>. HIDE DEF e
  <2>3. /\ event' \in Event /\ event'.token = e.token
        /\ event'.candidates = e.candidates \ {o}
    BY <2>1, <2>2, ServedEvent
  <2>. QED  BY <2>3 DEF e
<1>11. EventServesOpenOrders'
  <2>1. ASSUME NEW p \in event'.candidates
        PROVE  p \in openIds' /\ orders'[p].token = event'.token
    <3>1. p \in openIds /\ p # o /\ orders[p].token = event.token
      BY <1>10 DEF EventServesOpenOrders
    <3>2. p \in OrderIds
      BY <3>1 DEF TypeOK
    <3>. QED  BY <1>4, <1>5, <1>10, <3>1, <3>2
  <2>. QED  BY <2>1 DEF EventServesOpenOrders
<1>12. ASSUME NEW p \in openIds', p # o
       PROVE  p \in openIds /\ orders'[p] = orders[p]
  BY <1>4, <1>5, <1>12 DEF TypeOK
<1>13. /\ MaximumBuyCost[o] = Cost(Remaining(o), orders[o].limit)
       /\ MaximumBuyCost'[o] = Cost(Remaining(o) - n, orders[o].limit)
       /\ RemainingShares[o] = Remaining(o)
       /\ RemainingShares'[o] = Remaining(o) - n
  BY <1>2, <1>3, <1>6 DEF MaximumBuyCost, RemainingShares, Cost
<1>14. orders[o].limit \in Nat
  BY <1>2, SimulatorAssumption DEF Order, Prices
<1>15. \A p \in OrderIds : MaximumBuyCost[p] \in Nat /\ RemainingShares[p] \in Nat
  BY ReservationTypes
<1>16. ASSUME orders[o].side = "BUY"
       PROVE  /\ ReservedCash' \in Nat
              /\ ReservedCash' + Cost(n, orders[o].limit) <= ReservedCash
  <2>. DEFINE d == Cost(n, orders[o].limit)
  <2>1. OpenBuys' \in SUBSET OpenBuys /\ o \in OpenBuys
    BY <1>1, <1>3, <1>5, <1>12, <1>16 DEF OpenBuys
  <2>2. IsFiniteSet(OpenBuys) /\ OpenBuys \subseteq OrderIds
    BY ReservationTypes DEF OpenBuys, TypeOK
  <2>3. \A p \in OpenBuys' \ {o} : MaximumBuyCost'[p] = MaximumBuyCost[p]
    <3>1. SUFFICES ASSUME NEW p \in OpenBuys' \ {o}
                   PROVE  MaximumBuyCost'[p] = MaximumBuyCost[p]
      OBVIOUS
    <3>2. p \in openIds /\ p \in OrderIds /\ orders'[p] = orders[p]
      BY <1>12, <2>1, <2>2 DEF OpenBuys
    <3>. QED  BY <3>2, OpenOrderFacts, SameReservation
  <2>4. d \in Nat /\ MaximumBuyCost'[o] \in Nat /\ MaximumBuyCost'[o] + d = MaximumBuyCost[o]
    <3>1. PICK c \in Nat, r \in Nat, l \in Nat :
              c = Remaining(o) /\ r = Remaining(o) - n /\ r + n = c /\ l = orders[o].limit
      BY <1>2, <1>14
    <3>2. MaximumBuyCost'[o] = Cost(r, l) /\ MaximumBuyCost[o] = Cost(c, l) /\ d = Cost(n, l)
      BY <1>13, <3>1
    <3>. HIDE DEF d
    <3>3. Cost(r, l) \in Nat /\ Cost(n, l) \in Nat /\ Cost(r, l) + Cost(n, l) = Cost(c, l)
      <4>1. n \in Nat /\ r + n = c
        BY <3>1
      <4>. QED  BY <4>1, CostSplits
    <3>. QED  BY <3>2, <3>3
  <2>5. o \notin OpenBuys' => d <= MaximumBuyCost[o]
    BY <1>15, <2>4
  <2>. HIDE DEF d
  <2>6. /\ Total(MaximumBuyCost', OpenBuys') \in Nat
        /\ Total(MaximumBuyCost', OpenBuys') + d <= Total(MaximumBuyCost, OpenBuys)
    BY <1>15, <2>1, <2>2, <2>3, <2>4, <2>5, TotalDrop
  <2>. QED  BY <2>6 DEF ReservedCash, d
<1>17. ASSUME orders[o].side = "SELL", NEW k \in Tokens, k = event.token
       PROVE  /\ ReservedShares(k)' \in Nat
              /\ ReservedShares(k)' + n <= ReservedShares(k)
  <2>. DEFINE S == OpenOn(k, "SELL")
  <2>1. S' \in SUBSET S /\ o \in S
    BY <1>1, <1>3, <1>5, <1>12, <1>17 DEF OpenOn
  <2>2. IsFiniteSet(S) /\ S \subseteq OrderIds
    BY ReservationTypes DEF OpenOn, TypeOK
  <2>3. \A p \in S' \ {o} : RemainingShares'[p] = RemainingShares[p]
    <3>1. SUFFICES ASSUME NEW p \in S' \ {o}
                   PROVE  RemainingShares'[p] = RemainingShares[p]
      OBVIOUS
    <3>2. p \in openIds /\ p \in OrderIds /\ orders'[p] = orders[p]
      BY <1>12, <2>1, <2>2 DEF OpenOn
    <3>. QED  BY <3>2, OpenOrderFacts, SameReservation
  <2>4. /\ RemainingShares'[o] \in Nat /\ RemainingShares'[o] + n = RemainingShares[o]
        /\ n <= RemainingShares[o]
    BY <1>2, <1>13
  <2>. HIDE DEF S
  <2>5. /\ Total(RemainingShares', S') \in Nat
        /\ Total(RemainingShares', S') + n <= Total(RemainingShares, S)
    BY <1>15, <2>1, <2>2, <2>3, <2>4, TotalDrop
  <2>. QED  BY <2>5 DEF ReservedShares, S
<1>18. ASSUME orders[o].side = "SELL"
       PROVE  ReservedCash' \in 0 .. ReservedCash
  <2>1. OpenBuys' \subseteq OpenBuys /\ \A p \in OpenBuys' : orders'[p] = orders[p]
    BY <1>3, <1>12, <1>18 DEF OpenBuys
  <2>. QED  BY <2>1, CashReservationsShrink
<1>19. ASSUME NEW k \in Tokens, orders[o].side = "BUY" \/ k # event.token
       PROVE  ReservedShares(k)' \in 0 .. ReservedShares(k)
  <2>1. OpenOn(k, "SELL")' \subseteq OpenOn(k, "SELL")
    BY <1>1, <1>3, <1>12, <1>19 DEF OpenOn
  <2>2. \A p \in OpenOn(k, "SELL")' : orders'[p] = orders[p]
    BY <1>1, <1>3, <1>12, <1>19 DEF OpenOn
  <2>. QED  BY <2>1, <2>2, ShareReservationsShrink
<1>20. now' \in 0 .. Horizon /\ openIds' \subseteq OrderIds /\ expiryHeap' \subseteq OrderIds
  BY <1>5 DEF TypeOK
<1>. QED
  BY <1>5, <1>7, <1>8, <1>10, <1>11, <1>16, <1>17, <1>18, <1>19, <1>20
----------------------------------------------------------------------------
(* One lemma for each action: the step preserves IInv.                     *)

(* An action that leaves the portfolio alone keeps its part of IInv.       *)
LEMMA PortfolioKept ==
  ASSUME IInv, UNCHANGED portfolioVars
  PROVE  /\ cash' \in Nat /\ shares' \in [Tokens -> Nat]
         /\ basis' \in [Tokens -> Nat]
         /\ marks' \in [Tokens -> Prices \cup {NoMark}]
         /\ totalBasis' \in Int /\ exposure' \in Int /\ realized' \in Int
         /\ BooksBalance'
  BY DEF IInv, TypeOK, portfolioVars, BooksBalance

(* Fewer reservations are covered by the same cash and the same shares.    *)
LEMMA StillCovered ==
  ASSUME IInv, UNCHANGED <<cash, shares>>,
         ReservedCash' \in 0 .. ReservedCash,
         \A k \in Tokens : ReservedShares(k)' \in 0 .. ReservedShares(k)
  PROVE  CashCoversReservations' /\ SharesCoverReservations'
<1>1. ReservedCash \in Nat /\ cash \in Nat /\ ReservedCash <= cash
  BY ReservationTypes DEF IInv, TypeOK, CashCoversReservations, ReservedCash, OpenBuys
<1>2. ASSUME NEW k \in Tokens
      PROVE  /\ ReservedShares(k) \in Nat /\ shares[k] \in Nat
             /\ ReservedShares(k) <= shares[k]
  BY ReservationTypes DEF IInv, TypeOK, SharesCoverReservations, ReservedShares, OpenOn
<1>. QED
  BY <1>1, <1>2 DEF CashCoversReservations, SharesCoverReservations

(* record_prediction and cancel_order.                                     *)
LEMMA ClosingStep ==
  ASSUME IInv, Idle, NEW t, NEW ids \in SUBSET openIds,
         CloseOrders(t, ids), UNCHANGED <<portfolioVars, event>>
  PROVE  IInv'
<1>1. TypeOK /\ OpenOrdersTracked /\ StatusMatchesFills
  BY DEF IInv
<1>2. /\ now' \in 0 .. Horizon
      /\ orders' \in [OrderIds -> Order \cup {NoOrder}]
      /\ openIds' \subseteq OrderIds /\ expiryHeap' \subseteq OrderIds
      /\ OpenOrdersTracked' /\ StatusMatchesFills'
      /\ ReservedCash' \in 0 .. ReservedCash
      /\ \A k \in Tokens : ReservedShares(k)' \in 0 .. ReservedShares(k)
  BY <1>1, CloseOrdersStep
<1>3. UNCHANGED portfolioVars /\ event' = event
  OBVIOUS
<1>4. CashCoversReservations' /\ SharesCoverReservations'
  BY <1>2, StillCovered DEF portfolioVars
<1>5. TypeOK' /\ BooksBalance'
  BY <1>1, <1>2, <1>3, PortfolioKept DEF TypeOK
<1>6. EventServesOpenOrders'
  BY <1>3 DEF EventServesOpenOrders, Idle
<1>. QED  BY <1>2, <1>4, <1>5, <1>6 DEF IInv

(* place_order: an accepted order reserves what nobody else has claimed.   *)
LEMMA PlaceOrderStep ==
  ASSUME IInv, NEW o \in OrderIds, NEW t, NEW k \in Tokens,
         NEW side \in {"BUY", "SELL"}, NEW quantity \in Sizes,
         NEW limit \in Limits, PlaceOrder(o, t, k, side, quantity, limit)
  PROVE  IInv'
<1>. USE DEF IInv
<1>. DEFINE accepted == Affordable(t, k, side, quantity, limit)
            kept == openIds \ Expired(t)
<1>1. /\ Idle /\ t \in now .. Horizon /\ now' = t /\ orders[o] = NoOrder
      /\ orders' = [Closed(t, {}) EXCEPT ![o] =
           [token |-> k, side |-> side, submitted |-> t,
            requested |-> quantity, limit |-> limit, filled |-> 0,
            status |-> IF accepted THEN "PENDING" ELSE "REJECTED"]]
      /\ openIds' = kept \cup (IF accepted THEN {o} ELSE {})
      /\ expiryHeap' = (expiryHeap \ Popped(t)) \cup (IF accepted THEN {o} ELSE {})
      /\ UNCHANGED <<portfolioVars, event>>
  BY DEF PlaceOrder, Advance
<1>2. /\ quantity \in Nat \ {0} /\ t \in Nat /\ t \in 0 .. Horizon
      /\ limit \in Prices /\ limit \in Nat /\ Latency \in Nat /\ FillWait \in Nat
  BY <1>1, SimulatorAssumption DEF TypeOK, Prices
<1>3. o \notin openIds /\ kept \subseteq openIds /\ openIds \subseteq OrderIds
  BY <1>1, OpenOrderFacts DEF TypeOK
<1>4. /\ orders'[o].token = k /\ orders'[o].side = side
      /\ orders'[o].submitted = t /\ orders'[o].requested = quantity
      /\ orders'[o].limit = limit /\ orders'[o].filled = 0
      /\ orders'[o].status = IF accepted THEN "PENDING" ELSE "REJECTED"
      /\ orders'[o] \in Order
  BY <1>1, <1>2 DEF Closed, Order, OPEN_ORDER_STATUSES, FINAL_STATUSES
<1>5. orders'[o] # NoOrder /\ Remaining(o)' = quantity
  BY <1>2, <1>4 DEF NoOrder, Remaining
<1>6. \A p \in OrderIds \ {o} :
        IF p \in Expired(t)
        THEN /\ orders'[p] \in Order /\ orders'[p] # NoOrder
             /\ orders'[p].status \in {"EXPIRED", "CANCELLED"}
             /\ orders'[p].requested = orders[p].requested
             /\ orders'[p].filled = orders[p].filled
             /\ orders'[p].submitted = orders[p].submitted
             /\ orders[p] # NoOrder
        ELSE orders'[p] = orders[p]
  <2>1. SUFFICES ASSUME NEW p \in OrderIds \ {o}
                 PROVE  orders'[p] = Closed(t, {})[p]
    BY ClosedFacts
  <2>. QED  BY <1>1, <2>1 DEF Closed
<1>7. orders' \in [OrderIds -> Order \cup {NoOrder}]
  <2>1. orders' = [p \in OrderIds |-> orders'[p]]
    BY <1>1 DEF Closed
  <2>2. \A p \in OrderIds : orders'[p] \in Order \cup {NoOrder}
    BY <1>4, <1>6 DEF TypeOK
  <2>. QED  BY <2>1, <2>2
<1>. HIDE DEF accepted
<1>8. \A p \in kept : p \in OrderIds \ {o} /\ orders'[p] = orders[p]
  BY <1>3, <1>6
<1>9. OpenOrdersTracked'
  <2>1. openIds' = {p \in OrderIds : orders'[p].status \in OPEN_ORDER_STATUSES}
    <3>1. ASSUME NEW p \in OrderIds
          PROVE  p \in openIds' <=> orders'[p].status \in OPEN_ORDER_STATUSES
      <4>1. CASE p = o
        BY <1>1, <1>3, <1>4, <4>1 DEF OPEN_ORDER_STATUSES
      <4>2. CASE p # o
        BY <1>1, <1>6, <4>2 DEF OpenOrdersTracked, OPEN_ORDER_STATUSES
      <4>. QED  BY <4>1, <4>2
    <3>2. openIds' \subseteq OrderIds
      BY <1>1, <1>3
    <3>. QED  BY <3>1, <3>2
  <2>2. openIds' \subseteq expiryHeap'
    BY <1>1, <1>2, <1>3, SurvivorsUnexpired DEF OpenOrdersTracked
  <2>3. \A p \in expiryHeap' : orders'[p] # NoOrder
    BY <1>1, <1>5, <1>6 DEF OpenOrdersTracked, TypeOK
  <2>4. ASSUME NEW p \in openIds' PROVE now' <= ExpiresAt(p)'
    <3>1. CASE p = o
      BY <1>1, <1>2, <1>4, <3>1 DEF ExpiresAt
    <3>2. CASE p # o
      <4>1. p \in kept
        BY <1>1, <3>2
      <4>2. t <= ExpiresAt(p) /\ orders'[p] = orders[p]
        BY <1>2, <1>8, <4>1, SurvivorsUnexpired
      <4>. QED  BY <1>1, <4>2 DEF ExpiresAt
    <3>. QED  BY <3>1, <3>2
  <2>. QED  BY <2>1, <2>2, <2>3, <2>4 DEF OpenOrdersTracked
<1>10. StatusMatchesFills'
  <2>1. SUFFICES ASSUME NEW p \in OrderIds, orders'[p] # NoOrder
                 PROVE  /\ orders'[p].filled <= orders'[p].requested
                        /\ orders'[p].status = "FILLED" <=> Remaining(p)' = 0
                        /\ orders'[p].status \in {"PENDING", "REJECTED"} => orders'[p].filled = 0
                        /\ orders'[p].status = "PARTIAL" => orders'[p].filled > 0
    BY DEF StatusMatchesFills
  <2>2. CASE p = o
    BY <1>2, <1>4, <1>5, <2>2
  <2>3. CASE p # o /\ p \in Expired(t)
    <3>1. /\ orders'[p].status \in {"EXPIRED", "CANCELLED"}
          /\ orders'[p].filled = orders[p].filled
          /\ Remaining(p)' = Remaining(p) /\ orders[p] # NoOrder
      BY <1>6, <2>3 DEF Remaining
    <3>2. Remaining(p) # 0
      BY <2>3, OpenOrderFacts DEF Expired
    <3>. QED  BY <1>6, <2>3, <3>1, <3>2 DEF StatusMatchesFills
  <2>4. CASE p # o /\ p \notin Expired(t)
    <3>1. orders'[p] = orders[p] /\ Remaining(p)' = Remaining(p)
      BY <1>6, <2>4 DEF Remaining
    <3>. QED  BY <2>1, <3>1 DEF StatusMatchesFills
  <2>. QED  BY <2>2, <2>3, <2>4
<1>11. TypeOK' /\ BooksBalance'
  <2>1. openIds' \subseteq OrderIds /\ expiryHeap' \subseteq OrderIds
    BY <1>1, <1>3 DEF TypeOK
  <2>2. UNCHANGED portfolioVars /\ event' = event /\ now' \in 0 .. Horizon
    BY <1>1, <1>2
  <2>. QED  BY <1>7, <2>1, <2>2, PortfolioKept DEF TypeOK
<1>12. EventServesOpenOrders'
  BY <1>1 DEF EventServesOpenOrders, Idle
<1>13. CashCoversReservations'
  <2>. DEFINE S == OpenBuys \ Expired(t)
  <2>1. S \in SUBSET OpenBuys /\ S \subseteq kept
    BY DEF OpenBuys
  <2>2. IsFiniteSet(OpenBuys) /\ IsFiniteSet(S) /\ \A p \in OpenBuys : MaximumBuyCost[p] \in Nat
    BY <1>3, <2>1, ReservationTypes, FS_Subset DEF OpenBuys
  <2>3. OpenBuys' = S \cup (IF accepted /\ side = "BUY" THEN {o} ELSE {})
    BY <1>1, <1>4, <1>8 DEF OpenBuys
  <2>4. \A p \in S : MaximumBuyCost'[p] = MaximumBuyCost[p] /\ p # o
    BY <1>8, <2>1, <1>3, OpenOrderFacts, SameReservation
  <2>5. /\ Total(MaximumBuyCost, OpenBuys) \in Nat
        /\ Total(MaximumBuyCost, S) \in 0 .. Total(MaximumBuyCost, OpenBuys)
    BY <2>1, <2>2, TotalSubset
  <2>. HIDE DEF S
  <2>6. Total(MaximumBuyCost', S) = Total(MaximumBuyCost, S)
    BY <2>4, TotalSame
  <2>7. cash' = cash /\ cash \in Nat /\ Total(MaximumBuyCost, OpenBuys) <= cash
    BY <1>1 DEF portfolioVars, TypeOK, CashCoversReservations, ReservedCash
  <2>8. CASE accepted /\ side = "BUY"
    <3>1. MaximumBuyCost'[o] = Cost(quantity, limit)
      BY <1>4, <1>5 DEF MaximumBuyCost, Cost
    <3>2. Cost(quantity, limit) \in Nat
      BY <1>2, CostMonotone
    <3>3. Cost(quantity, limit) <= cash - Total(MaximumBuyCost, S)
      BY <2>8 DEF accepted, Affordable, UnreservedCash, S
    <3>4. OpenBuys' = S \cup {o} /\ IsFiniteSet(S \cup {o})
      BY <2>2, <2>3, <2>8, FS_AddElement
    <3>5. \A p \in S \cup {o} : MaximumBuyCost'[p] \in Nat
      BY <2>1, <2>2, <2>4, <3>1, <3>2
    <3>6. Total(MaximumBuyCost', S \cup {o})
            = MaximumBuyCost'[o] + Total(MaximumBuyCost', (S \cup {o}) \ {o})
      BY <3>4, <3>5, TotalRemove
    <3>7. (S \cup {o}) \ {o} = S
      BY <2>4
    <3>. QED
      BY <2>5, <2>6, <2>7, <3>1, <3>2, <3>3, <3>4, <3>6, <3>7
      DEF CashCoversReservations, ReservedCash
  <2>9. CASE ~ (accepted /\ side = "BUY")
    <3>1. OpenBuys' = S
      BY <2>3, <2>9
    <3>. QED
      BY <2>5, <2>6, <2>7, <3>1 DEF CashCoversReservations, ReservedCash
  <2>. QED  BY <2>8, <2>9
<1>14. SharesCoverReservations'
  <2>1. SUFFICES ASSUME NEW j \in Tokens PROVE ReservedShares(j)' <= shares'[j]
    BY DEF SharesCoverReservations
  <2>. DEFINE O == OpenOn(j, "SELL")
              S == O \ Expired(t)
  <2>2. S \in SUBSET O /\ S \subseteq kept /\ O \subseteq openIds
    BY DEF OpenOn
  <2>3. IsFiniteSet(O) /\ IsFiniteSet(S) /\ \A p \in O : RemainingShares[p] \in Nat
    BY <1>3, <2>2, ReservationTypes, FS_Subset
  <2>4. O' = S \cup (IF accepted /\ side = "SELL" /\ j = k THEN {o} ELSE {})
    BY <1>1, <1>4, <1>8 DEF OpenOn
  <2>5. \A p \in S : RemainingShares'[p] = RemainingShares[p] /\ p # o
    BY <1>8, <2>2, <1>3, OpenOrderFacts, SameReservation
  <2>. HIDE DEF O
  <2>6. /\ Total(RemainingShares, O) \in Nat
        /\ Total(RemainingShares, S) \in 0 .. Total(RemainingShares, O)
    BY <2>2, <2>3, TotalSubset
  <2>. HIDE DEF S
  <2>7. Total(RemainingShares', S) = Total(RemainingShares, S)
    BY <2>5, TotalSame
  <2>8. shares' = shares /\ shares[j] \in Nat /\ Total(RemainingShares, O) <= shares[j]
    BY <1>1 DEF portfolioVars, TypeOK, SharesCoverReservations, ReservedShares, O
  <2>9. CASE accepted /\ side = "SELL" /\ j = k
    <3>1. RemainingShares'[o] = quantity
      BY <1>5 DEF RemainingShares
    <3>2. quantity <= shares[j] - Total(RemainingShares, S)
      BY <2>9 DEF accepted, Affordable, UnreservedShares, S, O
    <3>3. O' = S \cup {o} /\ IsFiniteSet(S \cup {o})
      BY <2>3, <2>4, <2>9, FS_AddElement
    <3>4. \A p \in S \cup {o} : RemainingShares'[p] \in Nat
      BY <1>2, <2>2, <2>3, <2>5, <3>1
    <3>5. Total(RemainingShares', S \cup {o})
            = RemainingShares'[o] + Total(RemainingShares', (S \cup {o}) \ {o})
      BY <3>3, <3>4, TotalRemove
    <3>6. (S \cup {o}) \ {o} = S
      BY <2>5
    <3>7. Total(RemainingShares', O') = quantity + Total(RemainingShares, S)
      BY <2>7, <3>1, <3>3, <3>5, <3>6
    <3>8. Total(RemainingShares', O') <= shares[j]
      BY <1>2, <2>6, <2>8, <3>2, <3>7
    <3>. QED  BY <2>8, <3>8 DEF ReservedShares, O
  <2>10. CASE ~ (accepted /\ side = "SELL" /\ j = k)
    <3>1. O' = S
      BY <2>4, <2>10
    <3>2. Total(RemainingShares', O') <= shares[j]
      BY <2>6, <2>7, <2>8, <3>1
    <3>. QED  BY <2>8, <3>2 DEF ReservedShares, O
  <2>. QED  BY <2>9, <2>10
<1>. QED  BY <1>9, <1>10, <1>11, <1>12, <1>13, <1>14

(* process_liquidity until its loop.                                       *)
LEMMA LiquidityEventStep ==
  ASSUME IInv, NEW t, NEW k \in Tokens, NEW price \in Prices,
         NEW available \in Depths, NEW screened,
         LiquidityEvent(t, k, price, available, screened)
  PROVE  IInv'
<1>. DEFINE candidates == {o \in openIds \ Expired(t) :
                /\ orders[o].token = k
                /\ EligibleAt(o) <= t /\ t <= ExpiresAt(o)} \ screened
<1>1. /\ Idle /\ CloseOrders(t, {})
      /\ marks' = IF shares[k] > 0 \/ candidates # {}
                  THEN [marks EXCEPT ![k] = price] ELSE marks
      /\ exposure' = IF shares[k] > 0
                     THEN exposure + (shares[k] * price) * Unit - MarkedValue[k]
                     ELSE exposure
      /\ event' = [token |-> k, price |-> price, available |-> available,
                   candidates |-> candidates]
      /\ UNCHANGED <<cash, shares, basis, totalBasis, realized>>
  BY DEF LiquidityEvent
<1>2. TypeOK /\ OpenOrdersTracked /\ StatusMatchesFills
  BY DEF IInv
<1>3. /\ now' \in 0 .. Horizon
      /\ orders' \in [OrderIds -> Order \cup {NoOrder}]
      /\ openIds' \subseteq OrderIds /\ expiryHeap' \subseteq OrderIds
      /\ OpenOrdersTracked' /\ StatusMatchesFills'
      /\ openIds' = openIds \ Expired(t)
      /\ \A o \in openIds' : orders'[o] = orders[o]
      /\ ReservedCash' \in 0 .. ReservedCash
      /\ \A j \in Tokens : ReservedShares(j)' \in 0 .. ReservedShares(j)
  BY <1>1, <1>2, CloseOrdersStep
<1>4. CashCoversReservations' /\ SharesCoverReservations'
  BY <1>1, <1>3, StillCovered
<1>5. candidates \subseteq openIds' /\ \A o \in candidates : orders'[o].token = k
  BY <1>3
<1>. HIDE DEF candidates
<1>6. EventServesOpenOrders'
  BY <1>1, <1>5 DEF EventServesOpenOrders
<1>7. event' \in Event
  BY <1>1, <1>3, <1>5, SimulatorAssumption DEF Event
<1>8. marks' \in [Tokens -> Prices \cup {NoMark}]
  BY <1>1, <1>2 DEF TypeOK
<1>9. exposure' \in Int
  <2>1. /\ shares[k] \in Nat /\ price \in Nat /\ Unit \in Nat /\ basis[k] \in Nat
        /\ marks[k] \in Int /\ exposure \in Int
    BY <1>2, SimulatorAssumption DEF TypeOK, Prices, NoMark
  <2>2. MarkedValue[k] \in Int
    BY <2>1 DEF MarkedValue
  <2>3. (shares[k] * price) * Unit \in Int
    BY <2>1
  <2>. QED  BY <1>1, <2>1, <2>2, <2>3
<1>10. TypeOK'
  BY <1>1, <1>2, <1>3, <1>7, <1>8, <1>9 DEF TypeOK
<1>11. BooksBalance'
  BY <1>1 DEF IInv, BooksBalance
<1>. QED  BY <1>3, <1>4, <1>6, <1>10, <1>11 DEF IInv

(* A step that leaves orders and portfolio alone, and whose event serves   *)
(* no new candidate.                                                       *)
LEMMA EventOnlyStep ==
  ASSUME IInv, UNCHANGED <<orderVars, portfolioVars>>,
         event' \in Event \cup {NoEvent}, EventServesOpenOrders'
  PROVE  IInv'
<1>1. /\ UNCHANGED <<now, orders, openIds, expiryHeap>>
      /\ UNCHANGED <<cash, shares, basis, marks, totalBasis, exposure, realized>>
  BY DEF orderVars, portfolioVars
<1>2. TypeOK' /\ BooksBalance'
  BY <1>1, PortfolioKept DEF IInv, TypeOK, orderVars, portfolioVars
<1>3. OpenOrdersTracked' /\ StatusMatchesFills'
  BY <1>1 DEF IInv, OpenOrdersTracked, StatusMatchesFills, ExpiresAt, Remaining
<1>4. ReservedCash' = ReservedCash /\ \A k \in Tokens : ReservedShares(k)' = ReservedShares(k)
  BY <1>1 DEF ReservedCash, ReservedShares, OpenBuys, OpenOn, MaximumBuyCost,
              RemainingShares, Remaining, Cost
<1>5. CashCoversReservations' /\ SharesCoverReservations'
  BY <1>1, <1>4 DEF IInv, CashCoversReservations, SharesCoverReservations
<1>. QED  BY <1>2, <1>3, <1>5 DEF IInv

LEMMA PassOverStep ==
  ASSUME IInv, NEW o \in OrderIds, PassOver(o)
  PROVE  IInv'
<1>1. /\ o \in event.candidates /\ ~ Idle /\ Served(o, 0)
      /\ UNCHANGED <<orderVars, portfolioVars>>
  BY DEF PassOver, IsNext
<1>. DEFINE e == event
<1>2. e \in Event
  BY <1>1 DEF IInv, TypeOK, Idle
<1>3. event' = EventLess(e, 0, o)
  BY <1>1 DEF Served, EventLess
<1>4. 0 <= e.available
  BY <1>2 DEF Event
<1>. HIDE DEF e
<1>5. /\ event' \in Event /\ event'.token = e.token
      /\ event'.candidates = e.candidates \ {o}
  BY <1>2, <1>3, <1>4, ServedEvent
<1>6. EventServesOpenOrders'
  BY <1>1, <1>5 DEF IInv, EventServesOpenOrders, orderVars, e
<1>. QED  BY <1>1, <1>5, <1>6, EventOnlyStep

LEMMA LiquidityDoneStep ==
  ASSUME IInv, LiquidityDone
  PROVE  IInv'
<1>1. event' = NoEvent /\ UNCHANGED <<orderVars, portfolioVars>>
  BY DEF LiquidityDone
<1>2. EventServesOpenOrders'
  BY <1>1 DEF EventServesOpenOrders, Idle
<1>. QED  BY <1>1, <1>2, EventOnlyStep

LEMMA StutteringStep ==
  ASSUME IInv, UNCHANGED vars
  PROVE  IInv'
<1>1. UNCHANGED <<orderVars, portfolioVars>> /\ event' = event
  BY DEF vars
<1>2. event' \in Event \cup {NoEvent}
  BY <1>1 DEF IInv, TypeOK
<1>3. EventServesOpenOrders'
  BY <1>1 DEF IInv, EventServesOpenOrders, orderVars, Idle
<1>. QED  BY <1>1, <1>2, <1>3, EventOnlyStep

LEMMA CompactHistoryStep ==
  ASSUME IInv, CompactHistory
  PROVE  IInv'
<1>1. /\ orders' = [o \in OrderIds |->
                     IF orders[o].status \in OPEN_ORDER_STATUSES THEN orders[o]
                     ELSE NoOrder]
      /\ expiryHeap' = openIds /\ Idle
      /\ UNCHANGED <<now, openIds, portfolioVars, event>>
  BY DEF CompactHistory
<1>2. TypeOK /\ OpenOrdersTracked /\ StatusMatchesFills
  BY DEF IInv
<1>3. \A o \in OrderIds : orders'[o] = IF o \in openIds THEN orders[o] ELSE NoOrder
  BY <1>1, <1>2 DEF OpenOrdersTracked
<1>4. \A o \in openIds : o \in OrderIds /\ orders'[o] = orders[o] /\ orders[o] # NoOrder
  BY <1>2, <1>3, OpenOrderFacts
<1>5. TypeOK' /\ BooksBalance'
  <2>1. orders' \in [OrderIds -> Order \cup {NoOrder}]
    BY <1>1, <1>2 DEF TypeOK
  <2>2. UNCHANGED portfolioVars /\ openIds' = openIds /\ now' = now /\ event' = event
    BY <1>1
  <2>. QED  BY <1>1, <1>2, <2>1, <2>2, PortfolioKept DEF TypeOK
<1>6. OpenOrdersTracked'
  <2>1. openIds' = {o \in OrderIds : orders'[o].status \in OPEN_ORDER_STATUSES}
    <3>1. ASSUME NEW o \in OrderIds, o \notin openIds
          PROVE  orders'[o].status \notin OPEN_ORDER_STATUSES
      BY <1>3, <3>1 DEF NoOrder, OPEN_ORDER_STATUSES
    <3>2. \A o \in openIds : o \in OrderIds /\ orders'[o].status \in OPEN_ORDER_STATUSES
      BY <1>2, <1>4 DEF OpenOrdersTracked
    <3>. QED  BY <1>1, <3>1, <3>2
  <2>2. openIds' \subseteq expiryHeap' /\ \A o \in expiryHeap' : orders'[o] # NoOrder
    BY <1>1, <1>4
  <2>3. \A o \in openIds' : now' <= ExpiresAt(o)'
    BY <1>1, <1>2, <1>4 DEF OpenOrdersTracked, ExpiresAt
  <2>. QED  BY <2>1, <2>2, <2>3 DEF OpenOrdersTracked
<1>7. StatusMatchesFills'
  <2>1. SUFFICES ASSUME NEW p \in OrderIds, orders'[p] # NoOrder
                 PROVE  /\ orders'[p].filled <= orders'[p].requested
                        /\ orders'[p].status = "FILLED" <=> Remaining(p)' = 0
                        /\ orders'[p].status \in {"PENDING", "REJECTED"} => orders'[p].filled = 0
                        /\ orders'[p].status = "PARTIAL" => orders'[p].filled > 0
    BY DEF StatusMatchesFills
  <2>2. orders'[p] = orders[p] /\ Remaining(p)' = Remaining(p)
    BY <1>3, <2>1 DEF Remaining
  <2>. QED  BY <1>2, <2>1, <2>2 DEF StatusMatchesFills
<1>8. CashCoversReservations' /\ SharesCoverReservations'
  <2>1. openIds' \subseteq openIds /\ \A o \in openIds' : orders'[o] = orders[o]
    BY <1>1, <1>4
  <2>. QED  BY <1>1, <1>2, <2>1, ReservationsShrink, StillCovered DEF portfolioVars
<1>9. EventServesOpenOrders'
  BY <1>1 DEF EventServesOpenOrders, Idle
<1>. QED  BY <1>5, <1>6, <1>7, <1>8, <1>9 DEF IInv

LEMMA ResumeStep ==
  ASSUME IInv, Resume
  PROVE  IInv'
<1>1. /\ openIds' = Reopened /\ expiryHeap' = Reopened /\ Idle
      /\ UNCHANGED <<now, orders, portfolioVars, event>>
  BY DEF Resume
<1>2. TypeOK /\ OpenOrdersTracked /\ StatusMatchesFills
  BY DEF IInv
<1>3. Reopened = openIds
  BY <1>2 DEF Reopened, OpenOrdersTracked
<1>4. TypeOK' /\ BooksBalance'
  BY <1>1, <1>2, <1>3, PortfolioKept DEF TypeOK
<1>5. OpenOrdersTracked' /\ StatusMatchesFills'
  <2>1. \A o \in openIds : orders[o] # NoOrder
    BY <1>2, OpenOrderFacts
  <2>. QED
    BY <1>1, <1>2, <1>3, <2>1
    DEF OpenOrdersTracked, StatusMatchesFills, ExpiresAt, Remaining
<1>6. CashCoversReservations' /\ SharesCoverReservations'
  <2>1. openIds' \subseteq openIds /\ \A o \in openIds' : orders'[o] = orders[o]
    BY <1>1, <1>3
  <2>. QED  BY <1>1, <1>2, <2>1, ReservationsShrink, StillCovered DEF portfolioVars
<1>7. EventServesOpenOrders'
  BY <1>1 DEF EventServesOpenOrders, Idle
<1>. QED  BY <1>4, <1>5, <1>6, <1>7 DEF IInv

(* Replacing one entry of a total.                                         *)
LEMMA BasisReplaced ==
  ASSUME NEW b \in [Tokens -> Nat], NEW k \in Tokens, NEW v \in Nat
  PROVE  /\ Total(b, Tokens) \in Nat
         /\ Total([b EXCEPT ![k] = v], Tokens) = Total(b, Tokens) - b[k] + v
<1>. DEFINE c == [b EXCEPT ![k] = v]
            rest == Tokens \ {k}
<1>1. IsFiniteSet(Tokens) /\ c \in [Tokens -> Nat] /\ c[k] = v
  BY SimulatorAssumption
<1>2. \A j \in rest : c[j] = b[j]
  OBVIOUS
<1>3. /\ Total(b, Tokens) = b[k] + Total(b, Tokens \ {k})
      /\ Total(b, Tokens \ {k}) \in Nat
  BY <1>1, TotalRemove
<1>. HIDE DEF c
<1>4. Total(c, Tokens) = c[k] + Total(c, Tokens \ {k})
  BY <1>1, TotalRemove
<1>5. Total(c, rest) = Total(b, rest)
  BY <1>2, TotalSame
<1>6. Total(c, Tokens) = v + Total(b, Tokens \ {k}) /\ b[k] \in Nat
  BY <1>1, <1>4, <1>5
<1>7. Total(c, Tokens) = Total(b, Tokens) - b[k] + v
  BY <1>3, <1>6
<1>. QED  BY <1>3, <1>7 DEF c

(* A BUY pays at most the price it reserved, so it receives all it wants   *)
(* of the offer and its cost is covered.                                   *)
LEMMA BuyAmount ==
  ASSUME IInv, NEW o \in OrderIds, IsNext(o), event.available > 0,
         orders[o].side = "BUY",
         NEW price, price = ExecutionPrice("BUY", event.price),
         WithinLimit(o, price)
  PROVE  /\ price \in Nat /\ orders[o].limit \in Nat
         /\ FillShares(o, price) = AtMost(Remaining(o), event.available)
         /\ FillShares(o, price) \in Nat \ {0}
         /\ FillShares(o, price) <= Remaining(o)
         /\ FillShares(o, price) <= event.available
         /\ Cost(FillShares(o, price), price) \in Nat
         /\ Cost(FillShares(o, price), price)
               <= Cost(FillShares(o, price), orders[o].limit)
         /\ ReservedCash \in Nat
<1>1. TypeOK /\ OpenOrdersTracked /\ StatusMatchesFills
  BY DEF IInv
<1>2. o \in openIds /\ event \in Event
  BY <1>1 DEF IsNext, IInv, EventServesOpenOrders, TypeOK, Idle
<1>3. /\ orders[o] \in Order /\ Remaining(o) \in Nat \ {0} /\ orders[o] # NoOrder
      /\ event.available \in Nat \ {0} /\ event.price \in Nat
  BY <1>1, <1>2, OpenOrderFacts, SimulatorAssumption DEF Event, Prices
<1>4. orders[o].limit \in Nat
  BY <1>3, SimulatorAssumption DEF Order, Prices
<1>5. price \in Nat \ {0} /\ price <= orders[o].limit
  BY <1>3, SimulatorAssumption DEF ExecutionPrice, AtMost, WithinLimit
<1>. DEFINE w == AtMost(Remaining(o), event.available)
            unit == Cost(1, price)
<1>6. w \in Nat \ {0} /\ w <= Remaining(o) /\ w <= event.available
  BY <1>3 DEF AtMost
<1>. HIDE DEF w
<1>7. unit \in Nat \ {0} /\ Cost(w, price) = w * unit
  <2>. DEFINE u == Unit + Fee
  <2>1. u \in Nat \ {0}
    BY SimulatorAssumption
  <2>2. unit = price * u /\ Cost(w, price) = (w * price) * u
    BY <1>5 DEF Cost
  <2>. HIDE DEF u
  <2>3. price * u \in Nat \ {0} /\ (w * price) * u = w * (price * u)
    BY <1>5, <1>6, <2>1
  <2>. HIDE DEF unit
  <2>. QED  BY <2>2, <2>3
<1>8. /\ Cost(w, price) \in Nat /\ Cost(w, price) <= Cost(w, orders[o].limit)
      /\ Cost(w, price) <= Cost(Remaining(o), orders[o].limit)
  <2>1. Cost(w, price) \in Nat /\ Cost(w, price) <= Cost(w, orders[o].limit)
    <3>1. w \in Nat /\ w <= w
      BY <1>6
    <3>. QED  BY <1>4, <1>5, <3>1, CostMonotone
  <2>2. Cost(w, price) <= Cost(Remaining(o), orders[o].limit)
    BY <1>3, <1>4, <1>5, <1>6, CostMonotone
  <2>. QED  BY <2>1, <2>2
<1>9. /\ ReservedCash \in Nat
      /\ Cost(Remaining(o), orders[o].limit) <= ReservedCash
  <2>1. o \in OpenBuys /\ OpenBuys \in SUBSET openIds
    BY <1>2 DEF OpenBuys
  <2>2. IsFiniteSet(OpenBuys) /\ \A p \in OpenBuys : MaximumBuyCost[p] \in Nat
    BY <1>1, <2>1, ReservationTypes DEF TypeOK
  <2>3. /\ Total(MaximumBuyCost, OpenBuys)
             = MaximumBuyCost[o] + Total(MaximumBuyCost, OpenBuys \ {o})
        /\ Total(MaximumBuyCost, OpenBuys \ {o}) \in Nat
    BY <2>1, <2>2, TotalRemove
  <2>4. MaximumBuyCost[o] = Cost(Remaining(o), orders[o].limit)
    BY <1>3 DEF MaximumBuyCost
  <2>. QED  BY <2>1, <2>2, <2>3, <2>4 DEF ReservedCash
<1>10. cash \in Nat /\ w * unit <= cash
  <2>1. cash \in Nat /\ ReservedCash <= cash
    BY DEF IInv, TypeOK, CashCoversReservations
  <2>2. Cost(Remaining(o), orders[o].limit) \in Nat
    <3>. DEFINE r == Remaining(o)
                l == orders[o].limit
    <3>1. r \in Nat /\ l \in Nat /\ r <= r /\ l <= l
      BY <1>3, <1>4
    <3>. HIDE DEF r, l
    <3>2. Cost(r, l) \in Nat
      BY <3>1, CostMonotone
    <3>. QED  BY <3>2 DEF r, l
  <2>. HIDE DEF unit
  <2>. QED  BY <1>7, <1>8, <1>9, <2>1, <2>2
<1>. HIDE DEF unit
<1>11. w <= cash \div unit /\ cash \div unit \in Nat
  <2>. DEFINE d == cash \div unit
  <2>1. d \in Nat /\ cash < (d + 1) * unit
    BY <1>7, <1>10
  <2>. HIDE DEF d
  <2>2. SUFFICES ASSUME d + 1 <= w PROVE FALSE
    BY <1>6, <2>1 DEF d
  <2>3. (d + 1) * unit <= w * unit
    BY <1>6, <1>7, <2>1, <2>2, ProductMonotone
  <2>4. (d + 1) * unit \in Nat /\ w * unit \in Nat
    BY <1>6, <1>7, <2>1
  <2>. QED  BY <1>10, <2>1, <2>3, <2>4
<1>12. FillShares(o, price) = AtMost(w, Quotient(cash, unit))
  BY DEF FillShares, BuySharesFor, w, unit
<1>13. FillShares(o, price) = w
  <2>1. Quotient(cash, unit) \in Nat /\ cash \div unit <= Quotient(cash, unit)
    BY <1>7, <1>10, QuotientBounds
  <2>. QED  BY <1>6, <1>11, <1>12, <2>1 DEF AtMost
<1>. QED  BY <1>4, <1>5, <1>6, <1>8, <1>9, <1>13 DEF w

LEMMA BuyFillStep ==
  ASSUME IInv, NEW o \in OrderIds, BuyFill(o)
  PROVE  IInv'
<1>. DEFINE k == event.token
            price == ExecutionPrice("BUY", event.price)
            n == FillShares(o, price)
            cost == Cost(n, price)
            mark == IF marks[k] = NoMark THEN price ELSE marks[k]
<1>1. /\ IsNext(o) /\ event.available > 0
      /\ orders[o].side = "BUY" /\ WithinLimit(o, price)
      /\ cash' = cash - cost
      /\ shares' = [shares EXCEPT ![k] = shares[k] + n]
      /\ basis' = [basis EXCEPT ![k] = basis[k] + cost]
      /\ totalBasis' = totalBasis + cost
      /\ exposure' = exposure + (n * mark) * Unit
      /\ FillOrder(o, n) /\ Served(o, n)
      /\ UNCHANGED <<marks, realized>>
  BY DEF BuyFill
<1>2. /\ price \in Nat /\ n \in Nat \ {0} /\ n <= Remaining(o)
      /\ n <= event.available /\ cost \in Nat
      /\ cost <= Cost(n, orders[o].limit) /\ ReservedCash \in Nat
      /\ orders[o].limit \in Nat
  BY <1>1, BuyAmount
<1>3. /\ TypeOK /\ ~ Idle /\ o \in event.candidates /\ event \in Event /\ k \in Tokens
  BY <1>1 DEF IsNext, IInv, TypeOK, Idle, Event
<1>. HIDE DEF n, price
<1>4. /\ now' \in 0 .. Horizon
      /\ orders' \in [OrderIds -> Order \cup {NoOrder}]
      /\ openIds' \subseteq OrderIds /\ expiryHeap' \subseteq OrderIds
      /\ event' \in Event \cup {NoEvent}
      /\ OpenOrdersTracked' /\ StatusMatchesFills' /\ EventServesOpenOrders'
      /\ ReservedCash' \in Nat
      /\ ReservedCash' + Cost(n, orders[o].limit) <= ReservedCash
      /\ \A j \in Tokens : ReservedShares(j)' \in 0 .. ReservedShares(j)
  BY <1>1, <1>2, <1>3, FillOrderStep
<1>5. Cost(n, orders[o].limit) \in Nat
  BY <1>2, CostMonotone
<1>. HIDE DEF cost, k
<1>6. cash' \in Nat /\ ReservedCash' <= cash'
  BY <1>1, <1>2, <1>3, <1>4, <1>5 DEF IInv, TypeOK, CashCoversReservations
<1>7. SharesCoverReservations'
  <2>1. ASSUME NEW j \in Tokens PROVE ReservedShares(j)' <= shares'[j]
    <3>1. /\ ReservedShares(j) \in Nat /\ shares[j] \in Nat /\ ReservedShares(j) <= shares[j]
      BY ReservationTypes DEF IInv, TypeOK, SharesCoverReservations, ReservedShares, OpenOn
    <3>2. shares'[j] >= shares[j]
      BY <1>1, <1>2, <1>3, <3>1 DEF TypeOK
    <3>3. shares'[j] \in Nat
      BY <1>1, <1>2, <1>3 DEF TypeOK
    <3>. QED  BY <1>4, <3>1, <3>2, <3>3
  <2>. QED  BY <2>1 DEF SharesCoverReservations
<1>8. /\ shares' \in [Tokens -> Nat] /\ basis' \in [Tokens -> Nat]
      /\ marks' \in [Tokens -> Prices \cup {NoMark}]
      /\ totalBasis' \in Int /\ realized' \in Int
  BY <1>1, <1>2, <1>3 DEF TypeOK
<1>9. exposure' \in Int
  <2>1. mark \in Int /\ Unit \in Int /\ exposure \in Int
    BY <1>2, <1>3, SimulatorAssumption DEF TypeOK, NoMark, Prices
  <2>. HIDE DEF mark
  <2>2. (n * mark) * Unit \in Int
    BY <1>2, <2>1
  <2>. QED  BY <1>1, <2>1, <2>2
<1>10. BooksBalance'
  <2>1. basis[k] \in Nat /\ basis \in [Tokens -> Nat] /\ basis[k] + cost \in Nat
    BY <1>2, <1>3 DEF TypeOK
  <2>2. Total(basis', Tokens) = Total(basis, Tokens) - basis[k] + (basis[k] + cost)
        /\ Total(basis, Tokens) \in Nat
    BY <1>1, <1>3, <2>1, BasisReplaced
  <2>3. totalBasis' = Total(basis', Tokens) /\ cash' + totalBasis' = InitialCash + realized'
    BY <1>1, <1>2, <1>3, <2>1, <2>2 DEF IInv, BooksBalance, TypeOK
  <2>4. ASSUME NEW j \in Tokens, shares'[j] = 0 PROVE basis'[j] = 0
    <3>1. j # k
      BY <1>1, <1>2, <1>3, <2>4 DEF TypeOK
    <3>. QED  BY <1>1, <1>3, <2>4, <3>1 DEF IInv, BooksBalance, TypeOK
  <2>. QED  BY <2>3, <2>4 DEF BooksBalance
<1>. QED  BY <1>4, <1>6, <1>7, <1>8, <1>9, <1>10 DEF IInv, TypeOK, CashCoversReservations

(* A SELL can deliver all it wants of the offer.                           *)
LEMMA SellAmount ==
  ASSUME IInv, NEW o \in OrderIds, IsNext(o), event.available > 0,
         orders[o].side = "SELL", NEW price
  PROVE  /\ FillShares(o, price) = AtMost(Remaining(o), event.available)
         /\ FillShares(o, price) \in Nat \ {0}
         /\ FillShares(o, price) <= Remaining(o)
         /\ FillShares(o, price) <= event.available
         /\ FillShares(o, price) <= shares[event.token]
         /\ ReservedShares(event.token) \in Nat
<1>1. TypeOK /\ OpenOrdersTracked /\ StatusMatchesFills
  BY DEF IInv
<1>2. o \in openIds /\ event \in Event /\ orders[o].token = event.token
  BY <1>1 DEF IsNext, IInv, EventServesOpenOrders, TypeOK, Idle
<1>3. /\ orders[o] \in Order /\ Remaining(o) \in Nat \ {0} /\ orders[o] # NoOrder
      /\ event.available \in Nat \ {0} /\ event.token \in Tokens
  BY <1>1, <1>2, OpenOrderFacts DEF Event
<1>. DEFINE S == OpenOn(event.token, "SELL")
<1>4. o \in S /\ S \in SUBSET openIds
  BY <1>2 DEF OpenOn
<1>5. IsFiniteSet(S) /\ \A p \in S : RemainingShares[p] \in Nat
  BY <1>1, <1>4, ReservationTypes DEF TypeOK
<1>. HIDE DEF S
<1>6. /\ Total(RemainingShares, S) = RemainingShares[o] + Total(RemainingShares, S \ {o})
      /\ Total(RemainingShares, S \ {o}) \in Nat
  BY <1>4, <1>5, TotalRemove
<1>7. RemainingShares[o] = Remaining(o)
  BY <1>3 DEF RemainingShares
<1>8. /\ ReservedShares(event.token) = Total(RemainingShares, S)
      /\ shares[event.token] \in Nat /\ ReservedShares(event.token) <= shares[event.token]
  BY <1>3 DEF IInv, TypeOK, SharesCoverReservations, ReservedShares, S
<1>9. /\ Remaining(o) <= shares[event.token] /\ ReservedShares(event.token) \in Nat
  BY <1>3, <1>6, <1>7, <1>8
<1>. QED  BY <1>3, <1>8, <1>9 DEF FillShares, AtMost

LEMMA SellFillStep ==
  ASSUME IInv, NEW o \in OrderIds, SellFill(o)
  PROVE  IInv'
<1>. DEFINE k == event.token
            price == ExecutionPrice("SELL", event.price)
            n == FillShares(o, price)
            allocated == AllocatedCost(k, n)
            paid == Proceeds(n, price)
            marked == IF marks[k] = NoMark THEN allocated
                      ELSE (n * marks[k]) * Unit
<1>1. /\ IsNext(o) /\ event.available > 0 /\ orders[o].side = "SELL"
      /\ cash' = cash + paid
      /\ shares' = [shares EXCEPT ![k] = shares[k] - n]
      /\ basis' = [basis EXCEPT ![k] = basis[k] - allocated]
      /\ totalBasis' = totalBasis - allocated
      /\ exposure' = exposure - marked
      /\ realized' = realized + paid - allocated
      /\ marks' = IF n = shares[k] THEN [marks EXCEPT ![k] = NoMark] ELSE marks
      /\ FillOrder(o, n) /\ Served(o, n)
  BY DEF SellFill
<1>2. /\ n \in Nat \ {0} /\ n <= Remaining(o) /\ n <= event.available
      /\ n <= shares[k] /\ ReservedShares(k) \in Nat
  BY <1>1, SellAmount
<1>3. /\ TypeOK /\ ~ Idle /\ o \in event.candidates /\ event \in Event /\ k \in Tokens
  BY <1>1 DEF IsNext, IInv, TypeOK, Idle, Event
<1>4. price \in Nat
  BY <1>3, SimulatorAssumption DEF ExecutionPrice, Event, Prices
<1>. HIDE DEF n, price
<1>5. paid \in Nat
  <2>1. Unit - Fee \in Nat /\ n * price \in Nat
    BY <1>2, <1>4, SimulatorAssumption
  <2>2. (n * price) * (Unit - Fee) \in Nat
    BY <2>1, ProductMonotone
  <2>. QED  BY <2>2 DEF Proceeds
<1>6. basis[k] \in Nat /\ shares[k] \in Nat \ {0} /\ n \in 1 .. shares[k]
  BY <1>2, <1>3 DEF TypeOK
<1>7. /\ allocated \in Nat /\ allocated <= basis[k]
      /\ n = shares[k] => allocated = basis[k]
  BY <1>6, AllocationBounds DEF AllocatedCost
<1>8. /\ now' \in 0 .. Horizon
      /\ orders' \in [OrderIds -> Order \cup {NoOrder}]
      /\ openIds' \subseteq OrderIds /\ expiryHeap' \subseteq OrderIds
      /\ event' \in Event \cup {NoEvent}
      /\ OpenOrdersTracked' /\ StatusMatchesFills' /\ EventServesOpenOrders'
      /\ ReservedCash' \in 0 .. ReservedCash
      /\ \A j \in Tokens :
            IF j = k THEN /\ ReservedShares(j)' \in Nat
                          /\ ReservedShares(j)' + n <= ReservedShares(j)
            ELSE ReservedShares(j)' \in 0 .. ReservedShares(j)
  BY <1>1, <1>2, <1>3, FillOrderStep
<1>. HIDE DEF paid, allocated, k
<1>9. CashCoversReservations' /\ cash' \in Nat
  <2>1. ReservedCash \in Nat /\ cash \in Nat /\ ReservedCash <= cash
    BY ReservationTypes DEF IInv, TypeOK, CashCoversReservations, ReservedCash, OpenBuys
  <2>. QED  BY <1>1, <1>5, <1>8, <2>1 DEF CashCoversReservations
<1>10. SharesCoverReservations'
  <2>1. ASSUME NEW j \in Tokens PROVE ReservedShares(j)' <= shares'[j]
    <3>1. /\ ReservedShares(j) \in Nat /\ shares[j] \in Nat /\ ReservedShares(j) <= shares[j]
      BY ReservationTypes DEF IInv, TypeOK, SharesCoverReservations, ReservedShares, OpenOn
    <3>2. CASE j = k
      BY <1>1, <1>2, <1>3, <1>8, <3>1, <3>2 DEF TypeOK
    <3>3. CASE j # k
      <4>1. shares'[j] = shares[j]
        BY <1>1, <1>3, <3>3 DEF TypeOK
      <4>. QED  BY <1>8, <3>1, <3>3, <4>1
    <3>. QED  BY <3>2, <3>3
  <2>. QED  BY <2>1 DEF SharesCoverReservations
<1>11. /\ shares' \in [Tokens -> Nat] /\ basis' \in [Tokens -> Nat]
       /\ totalBasis' \in Int /\ realized' \in Int
  BY <1>1, <1>2, <1>3, <1>5, <1>6, <1>7 DEF TypeOK
<1>12. marks' \in [Tokens -> Prices \cup {NoMark}]
  BY <1>1, <1>3 DEF TypeOK
<1>13. exposure' \in Int
  <2>1. marks[k] \in Int /\ Unit \in Int /\ exposure \in Int
    BY <1>3, SimulatorAssumption DEF TypeOK, NoMark, Prices
  <2>2. (n * marks[k]) * Unit \in Int
    BY <1>2, <2>1
  <2>3. marked \in Int
    BY <1>7, <2>2
  <2>. HIDE DEF marked
  <2>. QED  BY <1>1, <2>1, <2>3
<1>14. BooksBalance'
  <2>1. basis \in [Tokens -> Nat] /\ basis[k] - allocated \in Nat
    BY <1>3, <1>6, <1>7 DEF TypeOK
  <2>2. Total(basis', Tokens) = Total(basis, Tokens) - basis[k] + (basis[k] - allocated)
        /\ Total(basis, Tokens) \in Nat
    BY <1>1, <1>3, <2>1, BasisReplaced
  <2>3. /\ cash \in Nat /\ totalBasis \in Int /\ realized \in Int /\ InitialCash \in Nat
        /\ cash + totalBasis = InitialCash + realized
        /\ totalBasis = Total(basis, Tokens)
    BY <1>3, SimulatorAssumption DEF IInv, BooksBalance, TypeOK
  <2>5. totalBasis' = Total(basis', Tokens)
    BY <1>1, <1>6, <1>7, <2>2, <2>3
  <2>6. cash' + totalBasis' = InitialCash + realized'
    <3>1. /\ cash' = cash + paid /\ totalBasis' = totalBasis - allocated
          /\ realized' = realized + paid - allocated
      BY <1>1
    <3>2. paid \in Int /\ allocated \in Int
      BY <1>5, <1>7
    <3>3. /\ cash \in Int /\ totalBasis \in Int /\ realized \in Int /\ InitialCash \in Int
          /\ cash + totalBasis = InitialCash + realized
      BY <2>3
    <3>. QED  BY <3>1, <3>2, <3>3
  <2>4. ASSUME NEW j \in Tokens, shares'[j] = 0 PROVE basis'[j] = 0
    <3>1. CASE j = k
      BY <1>1, <1>3, <1>6, <1>7, <2>1, <2>4, <3>1 DEF TypeOK
    <3>2. CASE j # k
      BY <1>1, <1>3, <2>4, <3>2 DEF IInv, BooksBalance, TypeOK
    <3>. QED  BY <3>1, <3>2
  <2>. QED  BY <2>4, <2>5, <2>6 DEF BooksBalance
<1>. QED  BY <1>8, <1>9, <1>10, <1>11, <1>12, <1>13, <1>14 DEF IInv, TypeOK

(* resolve: the market's whole cost leaves the books with its positions.   *)
LEMMA ResolveStep ==
  ASSUME IInv, NEW c, NEW t, NEW payouts \in [Tokens -> Prices],
         Resolve(c, t, payouts)
  PROVE  IInv'
<1>. DEFINE settled == TokensOf(c)
            payout == [k \in Tokens |-> (shares[k] * payouts[k]) * Unit]
            paid == Total(payout, settled)
            spent == Total(basis, settled)
            held == {k \in settled : shares[k] > 0}
<1>1. /\ Idle /\ CloseOrders(t, OpenIn(c))
      /\ cash' = cash + paid
      /\ realized' = realized + paid - spent
      /\ totalBasis' = totalBasis - spent
      /\ exposure' = exposure - Total(MarkedValue, held)
      /\ shares' = [k \in Tokens |-> IF k \in settled THEN 0 ELSE shares[k]]
      /\ basis' = [k \in Tokens |-> IF k \in settled THEN 0 ELSE basis[k]]
      /\ marks' = [k \in Tokens |-> IF k \in settled /\ shares[k] > 0
                                    THEN NoMark ELSE marks[k]]
      /\ event' = event
  BY DEF Resolve
<1>2. TypeOK /\ OpenOrdersTracked /\ StatusMatchesFills
  BY DEF IInv
<1>3. OpenIn(c) \in SUBSET openIds
  BY DEF OpenIn
<1>4. /\ now' \in 0 .. Horizon
      /\ orders' \in [OrderIds -> Order \cup {NoOrder}]
      /\ openIds' \subseteq OrderIds /\ expiryHeap' \subseteq OrderIds
      /\ OpenOrdersTracked' /\ StatusMatchesFills'
      /\ openIds' = openIds \ (Expired(t) \cup OpenIn(c))
      /\ \A o \in openIds' : orders'[o] = orders[o]
      /\ ReservedCash' \in 0 .. ReservedCash
      /\ \A k \in Tokens : ReservedShares(k)' \in 0 .. ReservedShares(k)
  BY <1>1, <1>2, <1>3, CloseOrdersStep
<1>5. /\ IsFiniteSet(Tokens) /\ settled \in SUBSET Tokens
      /\ IsFiniteSet(settled) /\ IsFiniteSet(Tokens \ settled)
  <2>1. settled \in SUBSET Tokens /\ Tokens \ settled \in SUBSET Tokens
    BY DEF TokensOf
  <2>. QED  BY <2>1, SimulatorAssumption, FS_Subset
<1>6. \A k \in Tokens : payout[k] \in Nat /\ basis[k] \in Nat /\ shares[k] \in Nat
  <2>1. SUFFICES ASSUME NEW k \in Tokens
                 PROVE  payout[k] \in Nat /\ basis[k] \in Nat /\ shares[k] \in Nat
    OBVIOUS
  <2>2. shares[k] \in Nat /\ basis[k] \in Nat /\ payouts[k] \in Nat /\ Unit \in Nat
    BY <1>2, SimulatorAssumption DEF TypeOK, Prices
  <2>3. shares[k] * payouts[k] \in Nat
    BY <2>2
  <2>4. (shares[k] * payouts[k]) * Unit \in Nat
    BY <2>2, <2>3
  <2>. QED  BY <2>2, <2>4
<1>. HIDE DEF settled, payout
<1>7. paid \in Nat /\ spent \in Nat
  BY <1>5, <1>6, TotalType
<1>8. /\ Total(basis, Tokens) = spent + Total(basis, Tokens \ settled)
      /\ Total(basis, Tokens \ settled) \in Nat
  <2>1. Total(basis, Tokens) = Total(basis, settled) + Total(basis, Tokens \ settled)
    BY <1>5, <1>6, TotalSplit
  <2>. QED  BY <1>5, <1>6, <2>1, TotalType
<1>9. Total(basis', Tokens) = Total(basis, Tokens \ settled)
  <2>1. \A k \in Tokens : basis'[k] = IF k \in settled THEN 0 ELSE basis[k]
    BY <1>1
  <2>. DEFINE b == basis'
  <2>2. /\ \A k \in settled : b[k] = 0
        /\ \A k \in Tokens \ settled : b[k] = basis[k]
        /\ \A k \in Tokens : b[k] \in Nat
    BY <1>5, <1>6, <2>1
  <2>. HIDE DEF b
  <2>3. Total(b, Tokens) = Total(b, settled) + Total(b, Tokens \ settled)
    BY <1>5, <2>2, TotalSplit
  <2>4. Total(b, settled) = 0
    BY <2>2, TotalZero
  <2>5. Total(b, Tokens \ settled) = Total(basis, Tokens \ settled)
    BY <2>2, TotalSame
  <2>6. Total(basis, Tokens \ settled) \in Nat
    BY <1>8
  <2>. QED  BY <2>3, <2>4, <2>5, <2>6 DEF b
<1>10. held \in SUBSET Tokens /\ Total(MarkedValue, held) \in Int
  <2>1. ASSUME NEW k \in held PROVE MarkedValue[k] \in Nat
    <3>1. k \in Tokens /\ shares[k] \in Nat /\ basis[k] \in Nat
      BY <1>5, <1>6
    <3>2. CASE marks[k] = NoMark
      BY <3>1, <3>2 DEF MarkedValue
    <3>3. CASE marks[k] # NoMark
      <4>1. marks[k] \in Nat /\ Unit \in Nat
        BY <1>2, <3>1, <3>3, SimulatorAssumption DEF TypeOK, Prices
      <4>2. shares[k] * marks[k] \in Nat
        BY <3>1, <4>1
      <4>3. (shares[k] * marks[k]) * Unit \in Nat
        BY <4>1, <4>2
      <4>. QED  BY <3>1, <3>3, <4>3 DEF MarkedValue
    <3>. QED  BY <3>2, <3>3
  <2>2. held \in SUBSET Tokens /\ IsFiniteSet(held)
    BY <1>5, FS_Subset
  <2>. HIDE DEF held
  <2>3. Total(MarkedValue, held) \in Nat
    BY <2>1, <2>2, TotalType
  <2>. QED  BY <2>2, <2>3
<1>. HIDE DEF held, paid, spent
<1>11. TypeOK'
  <2>1. shares' \in [Tokens -> Nat] /\ basis' \in [Tokens -> Nat]
    BY <1>1, <1>6
  <2>2. marks' \in [Tokens -> Prices \cup {NoMark}]
    BY <1>1, <1>2 DEF TypeOK
  <2>3. cash' \in Nat /\ realized' \in Int /\ totalBasis' \in Int /\ exposure' \in Int
    BY <1>1, <1>2, <1>7, <1>10 DEF TypeOK
  <2>. QED  BY <1>1, <1>2, <1>4, <2>1, <2>2, <2>3 DEF TypeOK
<1>12. CashCoversReservations'
  <2>1. ReservedCash \in Nat /\ cash \in Nat /\ ReservedCash <= cash
    BY <1>2, ReservationTypes DEF IInv, TypeOK, CashCoversReservations, ReservedCash, OpenBuys
  <2>. QED  BY <1>1, <1>4, <1>7, <2>1 DEF CashCoversReservations
<1>13. SharesCoverReservations'
  <2>1. ASSUME NEW k \in Tokens PROVE ReservedShares(k)' <= shares'[k]
    <3>1. /\ ReservedShares(k) \in Nat /\ shares[k] \in Nat /\ ReservedShares(k) <= shares[k]
      BY <1>2, ReservationTypes DEF IInv, TypeOK, SharesCoverReservations, ReservedShares, OpenOn
    <3>2. CASE k \in settled
      <4>1. OpenOn(k, "SELL")' = {}
        <5>1. SUFFICES ASSUME NEW o \in openIds', orders'[o].token = k PROVE FALSE
          BY DEF OpenOn
        <5>2. o \in openIds /\ o \notin OpenIn(c) /\ orders[o].token = k
          BY <1>4, <5>1
        <5>. QED  BY <3>2, <5>2 DEF OpenIn, settled, TokensOf
      <4>2. ReservedShares(k)' = 0
        BY <4>1, TotalZero DEF ReservedShares
      <4>. QED  BY <1>1, <3>2, <4>2
    <3>3. CASE k \notin settled
      <4>1. shares'[k] = shares[k]
        BY <1>1, <3>3
      <4>2. ReservedShares(k)' \in 0 .. ReservedShares(k)
        BY <1>4
      <4>. QED  BY <3>1, <4>1, <4>2
    <3>. QED  BY <3>2, <3>3
  <2>. QED  BY <2>1 DEF SharesCoverReservations
<1>14. BooksBalance'
  <2>1. /\ cash \in Nat /\ totalBasis \in Int /\ realized \in Int /\ InitialCash \in Nat
        /\ cash + totalBasis = InitialCash + realized
        /\ totalBasis = Total(basis, Tokens)
    BY <1>2, SimulatorAssumption DEF IInv, BooksBalance, TypeOK
  <2>3. cash' + totalBasis' = InitialCash + realized'
    BY <1>1, <1>7, <2>1
  <2>4. totalBasis' = Total(basis', Tokens)
    <3>1. totalBasis' = (spent + Total(basis, Tokens \ settled)) - spent
      BY <1>1, <1>8, <2>1
    <3>. QED  BY <1>7, <1>8, <1>9, <3>1
  <2>2. \A k \in Tokens : shares'[k] = 0 => basis'[k] = 0
    BY <1>1 DEF IInv, BooksBalance
  <2>. QED  BY <2>2, <2>3, <2>4 DEF BooksBalance
<1>15. EventServesOpenOrders'
  BY <1>1 DEF EventServesOpenOrders, Idle
<1>. QED  BY <1>4, <1>11, <1>12, <1>13, <1>14, <1>15 DEF IInv
----------------------------------------------------------------------------
(* The theorems.                                                           *)

LEMMA InitEstablishes == Init => IInv
<1>1. SUFFICES ASSUME Init PROVE IInv
  OBVIOUS
<1>2. TypeOK
  BY <1>1, SimulatorAssumption DEF Init, TypeOK
<1>3. OpenOrdersTracked /\ StatusMatchesFills /\ EventServesOpenOrders
  BY <1>1 DEF Init, OpenOrdersTracked, StatusMatchesFills, EventServesOpenOrders,
              Idle, NoOrder, OPEN_ORDER_STATUSES
<1>4. CashCoversReservations
  <2>1. OpenBuys = {} /\ cash \in Nat
    BY <1>1, SimulatorAssumption DEF Init, OpenBuys
  <2>2. ReservedCash = 0
    BY <2>1, TotalZero DEF ReservedCash
  <2>. QED  BY <2>1, <2>2 DEF CashCoversReservations
<1>5. SharesCoverReservations
  <2>1. SUFFICES ASSUME NEW k \in Tokens PROVE ReservedShares(k) <= shares[k]
    BY DEF SharesCoverReservations
  <2>2. OpenOn(k, "SELL") = {} /\ shares[k] = 0
    BY <1>1 DEF Init, OpenOn
  <2>3. ReservedShares(k) = 0
    BY <2>2, TotalZero DEF ReservedShares
  <2>. QED  BY <2>2, <2>3
<1>6. BooksBalance
  <2>1. Total(basis, Tokens) = 0
    <3>1. \A k \in Tokens : basis[k] = 0
      BY <1>1 DEF Init
    <3>. QED  BY <3>1, TotalZero
  <2>. QED  BY <1>1, <2>1, SimulatorAssumption DEF Init, BooksBalance
<1>. QED  BY <1>2, <1>3, <1>4, <1>5, <1>6 DEF IInv

LEMMA NextPreserves == IInv /\ [Next]_vars => IInv'
<1>1. SUFFICES ASSUME IInv, [Next]_vars PROVE IInv'
  OBVIOUS
<1>2. ASSUME NEW t \in now .. Horizon, RecordPrediction(t) PROVE IInv'
  <2>1. /\ Idle /\ CloseOrders(t, {}) /\ {} \in SUBSET openIds
        /\ UNCHANGED <<portfolioVars, event>>
    BY <1>2 DEF RecordPrediction
  <2>. QED  BY <1>1, <2>1, ClosingStep
<1>3. ASSUME NEW o \in OrderIds, NEW t \in now .. Horizon, NEW k \in Tokens,
             NEW side \in {"BUY", "SELL"}, NEW quantity \in Sizes,
             NEW limit \in Limits, PlaceOrder(o, t, k, side, quantity, limit)
      PROVE  IInv'
  BY <1>1, <1>3, PlaceOrderStep
<1>4. ASSUME NEW o \in OrderIds, NEW t \in now .. Horizon, CancelOrder(o, t)
      PROVE  IInv'
  <2>1. /\ Idle /\ CloseOrders(t, {o} \cap openIds)
        /\ {o} \cap openIds \in SUBSET openIds
        /\ UNCHANGED <<portfolioVars, event>>
    BY <1>4 DEF CancelOrder
  <2>. QED  BY <1>1, <2>1, ClosingStep
<1>5. ASSUME NEW t \in now .. Horizon, NEW k \in Tokens, NEW price \in Prices,
             NEW available \in Depths, NEW screened \in SUBSET openIds,
             LiquidityEvent(t, k, price, available, screened)
      PROVE  IInv'
  BY <1>1, <1>5, LiquidityEventStep
<1>6. ASSUME NEW o \in OrderIds, BuyFill(o) \/ SellFill(o) \/ PassOver(o)
      PROVE  IInv'
  BY <1>1, <1>6, BuyFillStep, SellFillStep, PassOverStep
<1>7. ASSUME NEW c \in Conditions, NEW t \in now .. Horizon,
             NEW payouts \in [Tokens -> Prices], Resolve(c, t, payouts)
      PROVE  IInv'
  BY <1>1, <1>7, ResolveStep
<1>8. CASE LiquidityDone \/ CompactHistory \/ Resume \/ UNCHANGED vars
  BY <1>1, <1>8, LiquidityDoneStep, CompactHistoryStep, ResumeStep, StutteringStep
<1>. QED  BY <1>1, <1>2, <1>3, <1>4, <1>5, <1>6, <1>7, <1>8 DEF Next

(* The inductive invariant holds in every reachable state.                 *)
THEOREM AccountInvariant == Spec => []IInv
  BY InitEstablishes, NextPreserves, PTL DEF Spec

(* Every variable of the simulator keeps its type: in particular cash,     *)
(* shares and cost bases never become negative.                            *)
THEOREM TypesHold == Spec => []TypeOK
<1>1. IInv => TypeOK
  BY DEF IInv
<1>. QED  BY <1>1, AccountInvariant, PTL

(* The account can always pay for all its open BUYs.                       *)
THEOREM CashIsCovered == Spec => []CashCoversReservations
<1>1. IInv => CashCoversReservations
  BY DEF IInv
<1>. QED  BY <1>1, AccountInvariant, PTL

(* The account can always deliver all its open SELLs.                      *)
THEOREM SharesAreCovered == Spec => []SharesCoverReservations
<1>1. IInv => SharesCoverReservations
  BY DEF IInv
<1>. QED  BY <1>1, AccountInvariant, PTL

(* Both together: nothing that is open can ask for more than the account   *)
(* still has.                                                              *)
THEOREM ReservationsAreCovered == Spec => []ReservationsCovered
<1>1. CashCoversReservations /\ SharesCoverReservations => ReservationsCovered
  BY DEF ReservationsCovered
<1>. QED  BY <1>1, CashIsCovered, SharesAreCovered, PTL

(* Indexes, heap, statuses and fill quantities of orders agree, and no     *)
(* open order is past its expiry.                                          *)
THEOREM OrdersAreTracked == Spec => [](OpenOrdersTracked /\ StatusMatchesFills)
<1>1. IInv => OpenOrdersTracked /\ StatusMatchesFills
  BY DEF IInv
<1>. QED  BY <1>1, AccountInvariant, PTL

(* Cash and cost basis always account for the initial cash and the         *)
(* realized profit, to the last unit.                                      *)
THEOREM BooksAlwaysBalance == Spec => []BooksBalance
<1>1. IInv => BooksBalance
  BY DEF IInv
<1>. QED  BY <1>1, AccountInvariant, PTL

(* A fill gives an order everything it wants of the event's offer: the     *)
(* account's funds never cut a fill short.                                 *)
THEOREM ReservationsAreHonoured == Spec => ReservationHonoured
<1>. DEFINE Honoured ==
       \A o \in openIds :
         (/\ ~ Idle /\ ~ Idle'
          /\ o \in event.candidates \ event'.candidates
          /\ WithinLimit(o, ExecutionPrice(orders[o].side, event.price)))
         => Receives(o, AtMost(Remaining(o), event.available))
<1>1. IInv /\ [Next]_vars => [Honoured]_vars
  <2>1. SUFFICES ASSUME IInv, Next, ~ Idle, ~ Idle', NEW o \in openIds,
                        o \in event.candidates \ event'.candidates,
                        WithinLimit(o, ExecutionPrice(orders[o].side, event.price))
                 PROVE  Receives(o, AtMost(Remaining(o), event.available))
    BY DEF Honoured
  <2>2. PICK p \in OrderIds : BuyFill(p) \/ SellFill(p) \/ PassOver(p)
    <3>1. /\ \A t : ~ RecordPrediction(t)
          /\ \A p, t, k, s, q, l : ~ PlaceOrder(p, t, k, s, q, l)
          /\ \A p, t : ~ CancelOrder(p, t)
          /\ \A t, k, x, a, s : ~ LiquidityEvent(t, k, x, a, s)
          /\ \A c, t, y : ~ Resolve(c, t, y)
          /\ ~ CompactHistory /\ ~ Resume
      BY <2>1 DEF RecordPrediction, PlaceOrder, CancelOrder, LiquidityEvent,
                  Resolve, CompactHistory, Resume
    <3>2. ~ LiquidityDone
      BY <2>1 DEF LiquidityDone, Idle
    <3>. QED  BY <2>1, <3>1, <3>2 DEF Next
  <2>3. p = o /\ IsNext(o) /\ event.available > 0 /\ o \in OrderIds
    <3>1. \E n : Served(p, n)
      BY <2>2 DEF BuyFill, SellFill, PassOver
    <3>2. event \in Event
      BY <2>1 DEF IInv, TypeOK, Idle
    <3>3. event'.candidates = event.candidates \ {p}
      BY <3>1, <3>2 DEF Served, Event
    <3>4. p = o
      BY <2>1, <3>3
    <3>. QED  BY <2>2, <3>4 DEF BuyFill, SellFill, PassOver
  <2>. DEFINE price == ExecutionPrice(orders[o].side, event.price)
              n == AtMost(Remaining(o), event.available)
  <2>4. orders[o] \in Order
    BY <2>1, OpenOrderFacts DEF IInv
  <2>5. FillShares(o, price) = n /\ n \in Nat \ {0}
    <3>1. CASE orders[o].side = "BUY"
      BY <2>1, <2>3, <3>1, BuyAmount
    <3>2. CASE orders[o].side = "SELL"
      BY <2>1, <2>3, <3>2, SellAmount
    <3>. QED  BY <2>4, <3>1, <3>2 DEF Order
  <2>6. FillOrder(o, n)
    <3>1. ~ PassOver(o)
      BY <2>1, <2>5 DEF PassOver
    <3>. QED  BY <2>2, <2>3, <2>5, <3>1 DEF BuyFill, SellFill
  <2>. HIDE DEF n
  <2>. DEFINE done == orders[o].filled + n = orders[o].requested
              v == [orders[o] EXCEPT !.filled = orders[o].filled + n]
              st == IF done THEN "FILLED" ELSE "PARTIAL"
  <2>7. orders'[o] = [v EXCEPT !.status = st]
    BY <2>1, <2>3, <2>6 DEF FillOrder, IInv, TypeOK
  <2>8. v \in Order /\ v.filled = orders[o].filled + n
    BY <2>4, <2>5 DEF Order
  <2>. HIDE DEF v, st
  <2>9. orders'[o].filled = v.filled
    BY <2>7, <2>8 DEF Order
  <2>. QED  BY <2>8, <2>9 DEF Receives, n
<1>. QED  BY <1>1, AccountInvariant, PTL DEF Spec, ReservationHonoured

(* Orders in a final status never change again.                            *)
THEOREM FinalOrdersNeverChange == Spec => FinalOrdersStay
<1>. DEFINE Stays ==
       \A o \in OrderIds :
         orders[o].status \in FINAL_STATUSES =>
             orders'[o] \in {orders[o], NoOrder}
<1>1. IInv /\ [Next]_vars => [Stays]_vars
  <2>1. SUFFICES ASSUME IInv, Next, NEW o \in OrderIds,
                        orders[o].status \in FINAL_STATUSES
                 PROVE  orders'[o] \in {orders[o], NoOrder}
    BY DEF Stays
  <2>2. o \notin openIds /\ orders[o] # NoOrder
    BY <2>1 DEF IInv, OpenOrdersTracked, OPEN_ORDER_STATUSES, FINAL_STATUSES, NoOrder
  <2>3. ASSUME NEW t, NEW ids \in SUBSET openIds, CloseOrders(t, ids)
        PROVE  orders'[o] = orders[o]
    BY <2>2, <2>3 DEF CloseOrders, Closed, Expired
  <2>4. ASSUME NEW p \in OrderIds, BuyFill(p) \/ SellFill(p)
        PROVE  orders'[o] = orders[o]
    <3>1. p \in openIds
      BY <2>1, <2>4 DEF BuyFill, SellFill, IsNext, IInv, EventServesOpenOrders
    <3>2. PICK n : FillOrder(p, n)
      BY <2>4 DEF BuyFill, SellFill
    <3>. QED  BY <2>1, <2>2, <3>1, <3>2 DEF FillOrder, IInv, TypeOK
  <2>5. ASSUME NEW p \in OrderIds, NEW t, NEW k, NEW side, NEW quantity, NEW limit,
               PlaceOrder(p, t, k, side, quantity, limit)
        PROVE  orders'[o] = orders[o]
    BY <2>1, <2>2, <2>5 DEF PlaceOrder, Closed, Expired
  <2>6. CASE CompactHistory \/ Resume
    BY <2>1, <2>6 DEF CompactHistory, Resume
  <2>7. ASSUME NEW p \in OrderIds, NEW t, CancelOrder(p, t)
        PROVE  orders'[o] = orders[o]
    BY <2>3, <2>7 DEF CancelOrder
  <2>8. ASSUME NEW c, NEW t, NEW payouts, Resolve(c, t, payouts)
        PROVE  orders'[o] = orders[o]
    <3>1. CloseOrders(t, OpenIn(c)) /\ OpenIn(c) \in SUBSET openIds
      BY <2>8 DEF Resolve, OpenIn
    <3>. QED  BY <2>3, <3>1
  <2>9. ASSUME NEW t, NEW k, NEW price, NEW available, NEW screened,
               LiquidityEvent(t, k, price, available, screened)
        PROVE  orders'[o] = orders[o]
    BY <2>3, <2>9 DEF LiquidityEvent
  <2>10. ASSUME NEW t, RecordPrediction(t) PROVE orders'[o] = orders[o]
    BY <2>3, <2>10 DEF RecordPrediction
  <2>11. ASSUME NEW p, PassOver(p) \/ LiquidityDone PROVE orders'[o] = orders[o]
    BY <2>11 DEF PassOver, LiquidityDone, orderVars
  <2>. QED
    BY <2>1, <2>4, <2>5, <2>6, <2>7, <2>8, <2>9, <2>10, <2>11 DEF Next
<1>. QED  BY <1>1, AccountInvariant, PTL DEF Spec, FinalOrdersStay

(* Compaction and resumes leave the future of every order as it was.       *)
THEOREM ResumesAreExact == Spec => FutureUnchanged
<1>. DEFINE Same ==
       CompactHistory \/ Resume =>
         /\ openIds' = openIds
         /\ \A t \in now .. Horizon : Expired(t)' = Expired(t)
         /\ ReservedCash' = ReservedCash
         /\ \A k \in Tokens : ReservedShares(k)' = ReservedShares(k)
<1>1. IInv /\ [Next]_vars => [Same]_vars
  <2>1. SUFFICES ASSUME IInv, CompactHistory \/ Resume
                 PROVE  /\ openIds' = openIds
                        /\ \A t \in now .. Horizon : Expired(t)' = Expired(t)
                        /\ ReservedCash' = ReservedCash
                        /\ \A k \in Tokens : ReservedShares(k)' = ReservedShares(k)
    BY DEF Same
  <2>2. TypeOK /\ OpenOrdersTracked /\ StatusMatchesFills
    BY <2>1 DEF IInv
  <2>3. openIds' = openIds /\ expiryHeap' = openIds
    BY <2>1, <2>2 DEF CompactHistory, Resume, Reopened, OpenOrdersTracked
  <2>4. \A o \in openIds : /\ o \in OrderIds /\ o \in expiryHeap
                           /\ orders'[o] = orders[o] /\ orders[o] # NoOrder
    <3>1. SUFFICES ASSUME NEW o \in openIds
                   PROVE  /\ o \in OrderIds /\ o \in expiryHeap
                          /\ orders'[o] = orders[o] /\ orders[o] # NoOrder
      OBVIOUS
    <3>2. o \in OrderIds /\ orders[o] # NoOrder /\ orders[o].status \in OPEN_ORDER_STATUSES
      BY <2>2, OpenOrderFacts
    <3>3. o \in expiryHeap /\ orders'[o] = orders[o]
      BY <2>1, <2>2, <3>2 DEF OpenOrdersTracked, CompactHistory, Resume
    <3>. QED  BY <3>2, <3>3
  <2>5. ASSUME NEW t \in now .. Horizon PROVE Expired(t)' = Expired(t)
    BY <2>3, <2>4 DEF Expired, Popped, ExpiresAt
  <2>6. \A o \in openIds : /\ MaximumBuyCost'[o] = MaximumBuyCost[o]
                           /\ RemainingShares'[o] = RemainingShares[o]
    BY <2>4, SameReservation
  <2>7. ReservedCash' = ReservedCash
    <3>1. OpenBuys' = OpenBuys /\ OpenBuys \subseteq openIds
      BY <2>3, <2>4 DEF OpenBuys
    <3>2. Total(MaximumBuyCost', OpenBuys) = Total(MaximumBuyCost, OpenBuys)
      BY <2>6, <3>1, TotalSame
    <3>. QED  BY <3>1, <3>2 DEF ReservedCash
  <2>8. ASSUME NEW k \in Tokens PROVE ReservedShares(k)' = ReservedShares(k)
    <3>. DEFINE S == OpenOn(k, "SELL")
    <3>1. S' = S /\ S \subseteq openIds
      BY <2>3, <2>4 DEF OpenOn
    <3>. HIDE DEF S
    <3>2. Total(RemainingShares', S) = Total(RemainingShares, S)
      BY <2>6, <3>1, TotalSame
    <3>. QED  BY <3>1, <3>2 DEF ReservedShares, S
  <2>. QED  BY <2>3, <2>5, <2>7, <2>8
<1>. QED  BY <1>1, AccountInvariant, PTL DEF Spec, FutureUnchanged

----------------------------------------------------------------------------
(* The adapter.                                                            *)

(* Every step of the adapter is a step of the simulator, or leaves it as   *)
(* it is.                                                                  *)
LEMMA StepsAreSimulatorSteps ==
  ASSUME IInv, [AdapterNext]_allVars
  PROVE  [Next]_vars
<1>1. now \in now .. Horizon
  BY SimulatorAssumption DEF IInv, TypeOK
<1>2. ASSUME NEW t \in now .. Horizon, NEW k \in Tokens, NEW price \in Prices,
             NEW available \in Depths, NEW screened \in SUBSET openIds,
             ObserveTrade(t, k, price, available, screened)
      PROVE  Next
  BY <1>2 DEF ObserveTrade, Next
<1>3. ASSUME NEW o \in OrderIds, FillBuy(o) \/ FillSell(o) \/ Pass(o)
      PROVE  Next
  BY <1>3 DEF FillBuy, FillSell, Pass, Next
<1>4. ASSUME NEW action, NEW k, NEW fraction, Decide(action, k, fraction)
      PROVE  Next
  <2>1. RecordPrediction(now)
    BY <1>4 DEF Decide
  <2>. QED  BY <1>1, <2>1 DEF Next
<1>5. ASSUME NEW o \in OrderIds, CancelPending(o)
      PROVE  Next
  <2>1. CancelOrder(o, now)
    BY <1>5 DEF CancelPending
  <2>. QED  BY <1>1, <2>1 DEF Next
<1>6. ASSUME NEW o \in OrderIds, NEW k \in Tokens, PlaceFor(o, k)
      PROVE  Next
  <2>. DEFINE w == Wanted(k)
  <2>1. w.side \in {"BUY", "SELL"}
    BY DEF Wanted
  <2>2. /\ w.quantity \in Sizes /\ w.limit \in Limits
        /\ PlaceOrder(o, now, k, w.side, w.quantity, w.limit)
    BY <1>6 DEF PlaceFor
  <2>. HIDE DEF w
  <2>. QED  BY <1>1, <2>1, <2>2 DEF Next
<1>7. ASSUME NEW c \in Conditions, NEW t \in now .. Horizon,
             NEW payouts \in Payouts(c), ResolveMarket(c, t, payouts)
      PROVE  Next
  <2>1. Resolve(c, t, payouts)
    BY <1>7 DEF ResolveMarket
  <2>2. payouts \in [Tokens -> Prices]
    BY SimulatorAssumption DEF Payouts, Prices
  <2>. QED  BY <2>1, <2>2 DEF Next
<1>8. CASE EndTrade \/ Compact \/ Restore
  BY <1>8 DEF EndTrade, Compact, Restore, Next
<1>9. CASE (\E k \in Tokens : NoOrderFor(k)) \/ EndCall \/ UNCHANGED allVars
  BY <1>9 DEF NoOrderFor, EndCall, allVars
<1>. QED
  BY <1>2, <1>3, <1>4, <1>5, <1>6, <1>7, <1>8, <1>9 DEF AdapterNext

(* The simulator's inductive invariant holds under the adapter.            *)
LEMMA AccountUnderAdapter == AdapterSpec => []IInv
<1>1. AdapterInit => IInv
  BY InitEstablishes DEF AdapterInit
<1>2. IInv /\ [AdapterNext]_allVars => IInv'
  BY StepsAreSimulatorSteps, NextPreserves
<1>. QED  BY <1>1, <1>2, PTL DEF AdapterSpec

(* Every behaviour of a replay is a behaviour of the simulator's           *)
(* specification, so that what is proved of Spec holds in every replay.    *)
THEOREM AdapterImplementsSimulator == AdapterSpec => Spec
<1>1. AdapterInit => Init
  BY DEF AdapterInit
<1>2. IInv /\ [AdapterNext]_allVars => [Next]_vars
  BY StepsAreSimulatorSteps
<1>. QED  BY <1>1, <1>2, AccountUnderAdapter, PTL DEF AdapterSpec, Spec
-----------------------------------------------------------------------------
(* What the simulator needs of its caller for its aggregates to stay exact.*)

(* No two open orders on a token face each other.                          *)
OneSided ==
    \A o, p \in openIds :
        orders[o].token = orders[p].token => orders[o].side = orders[p].side

(* A position has a mark, and so has a token that is about to be bought.   *)
HeldIsMarked == \A k \in Tokens : shares[k] > 0 => marks[k] # NoMark
BuyersMarked ==
    ~ Idle => \A o \in event.candidates :
                  orders[o].side = "BUY" => marks[event.token] # NoMark

ExposureExact == exposure = Total(MarkedValue, Tokens)

ScanInv == OneSided /\ HeldIsMarked /\ BuyersMarked /\ ExposureExact

LEMMA MarkedValueType ==
  ASSUME IInv
  PROVE  MarkedValue \in [Tokens -> Nat]
<1>1. ASSUME NEW k \in Tokens, marks[k] # NoMark
      PROVE  (shares[k] * marks[k]) * Unit \in Nat
  <2>1. shares[k] \in Nat /\ marks[k] \in Nat /\ Unit \in Nat
    BY <1>1, SimulatorAssumption DEF IInv, TypeOK, Prices
  <2>. QED  BY <2>1, ProductMonotone
<1>2. \A k \in Tokens : basis[k] \in Nat
  BY DEF IInv, TypeOK
<1>. QED  BY <1>1, <1>2 DEF MarkedValue

(* Orders that only close or fill do not change sides.                     *)
LEMMA SidesKept ==
  ASSUME OneSided, openIds' \subseteq openIds,
         \A o \in openIds' : /\ orders'[o].token = orders[o].token
                             /\ orders'[o].side = orders[o].side
  PROVE  OneSided'
  BY DEF OneSided

(* Steps that leave the portfolio alone and open no order.                 *)
LEMMA QuietStep ==
  ASSUME ScanInv, UNCHANGED portfolioVars, openIds' \subseteq openIds,
         \A o \in openIds' : orders'[o] = orders[o],
         \/ Idle'
         \/ /\ ~ Idle /\ orders' = orders
            /\ event'.token = event.token
            /\ event'.candidates \subseteq event.candidates
  PROVE  ScanInv'
<1>1. OneSided'
  BY SidesKept DEF ScanInv
<1>2. UNCHANGED <<shares, basis, marks, exposure>>
  BY DEF portfolioVars
<1>3. HeldIsMarked'
  BY <1>2 DEF ScanInv, HeldIsMarked
<1>4. BuyersMarked'
  BY <1>2 DEF ScanInv, BuyersMarked
<1>5. ExposureExact'
  BY <1>2 DEF ScanInv, ExposureExact, MarkedValue
<1>. QED  BY <1>1, <1>3, <1>4, <1>5 DEF ScanInv

(* A trade re-marks its token; where nothing is held the value stays zero. *)
LEMMA LiquidityKeepsScan ==
  ASSUME IInv, ScanInv, NEW t, NEW k \in Tokens, NEW price \in Prices,
         NEW available, NEW screened,
         LiquidityEvent(t, k, price, available, screened)
  PROVE  ScanInv'
<1>. DEFINE candidates == {o \in openIds \ Expired(t) :
                             /\ orders[o].token = k
                             /\ EligibleAt(o) <= t /\ t <= ExpiresAt(o)} \ screened
<1>1. /\ CloseOrders(t, {}) /\ {} \in SUBSET openIds
      /\ marks' = IF shares[k] > 0 \/ candidates # {}
                  THEN [marks EXCEPT ![k] = price] ELSE marks
      /\ exposure' = IF shares[k] > 0
                     THEN exposure + (shares[k] * price) * Unit - MarkedValue[k]
                     ELSE exposure
      /\ event' = [token |-> k, price |-> price, available |-> available,
                   candidates |-> candidates]
      /\ UNCHANGED <<shares, basis>>
  BY DEF LiquidityEvent
<1>. HIDE DEF candidates
<1>2. openIds' \subseteq openIds /\ \A o \in openIds' : orders'[o] = orders[o]
  BY <1>1, CloseOrdersStep DEF IInv
<1>3. OneSided'
  BY <1>2, SidesKept DEF ScanInv
<1>4. marks \in [Tokens -> Prices \cup {NoMark}] /\ price # NoMark /\ price \in Nat
      /\ shares \in [Tokens -> Nat] /\ exposure \in Int /\ Unit \in Nat
  BY SimulatorAssumption DEF IInv, TypeOK, Prices, NoMark
<1>5. HeldIsMarked'
  BY <1>1, <1>4 DEF ScanInv, HeldIsMarked
<1>6. BuyersMarked'
  BY <1>1, <1>4 DEF BuyersMarked
<1>7. ExposureExact'
  <2>1. CASE shares[k] > 0
    <3>. DEFINE v == (shares[k] * price) * Unit
    <3>1. v \in Nat
      BY <1>4, ProductMonotone
    <3>2. ASSUME NEW j \in Tokens
          PROVE  MarkedValue'[j] = IF j = k THEN v ELSE MarkedValue[j]
      BY <1>1, <1>4, <2>1 DEF MarkedValue
    <3>3. MarkedValue \in [Tokens -> Nat] /\ MarkedValue' = [j \in Tokens |-> MarkedValue'[j]]
      BY MarkedValueType DEF MarkedValue
    <3>. HIDE DEF v
    <3>4. MarkedValue' = [MarkedValue EXCEPT ![k] = v]
      BY <3>2, <3>3
    <3>5. Total(MarkedValue', Tokens) = Total(MarkedValue, Tokens) - MarkedValue[k] + v
          /\ Total(MarkedValue, Tokens) \in Nat
      BY <3>1, <3>3, <3>4, BasisReplaced
    <3>6. exposure' = exposure + v - MarkedValue[k] /\ MarkedValue[k] \in Nat
      BY <1>1, <2>1, <3>3 DEF v
    <3>. QED  BY <1>4, <3>1, <3>5, <3>6 DEF ScanInv, ExposureExact
  <2>2. CASE shares[k] = 0
    <3>1. basis[k] = 0
      BY <2>2 DEF IInv, BooksBalance
    <3>2. ASSUME NEW j \in Tokens PROVE MarkedValue'[j] = MarkedValue[j]
      <4>1. CASE j = k
        <5>1. \A m \in Int : (0 * m) * Unit = 0
          BY <1>4
        <5>2. /\ shares'[j] = 0 /\ basis'[j] = 0 /\ shares[j] = 0 /\ basis[j] = 0
              /\ marks[j] \in Int /\ marks'[j] \in Int
          BY <1>1, <1>4, <2>2, <3>1, <4>1, SimulatorAssumption DEF Prices, NoMark
        <5>. QED  BY <5>1, <5>2 DEF MarkedValue
      <4>2. CASE j # k
        BY <1>1, <1>4, <4>2 DEF MarkedValue
      <4>. QED  BY <4>1, <4>2
    <3>3. Total(MarkedValue', Tokens) = Total(MarkedValue, Tokens)
      BY <3>2, TotalSame
    <3>. QED  BY <1>1, <2>2, <3>3 DEF ScanInv, ExposureExact
  <2>3. shares[k] > 0 \/ shares[k] = 0
    BY <1>4
  <2>. QED  BY <2>1, <2>2, <2>3
<1>. QED  BY <1>3, <1>5, <1>6, <1>7 DEF ScanInv

(* A fill leaves an order on its token and its side.                       *)
LEMMA FillsKeepSides ==
  ASSUME IInv, ScanInv, ~ Idle, NEW o \in event.candidates,
         NEW n \in Nat \ {0}, FillOrder(o, n), Served(o, n), n <= event.available
  PROVE  /\ OneSided'
         /\ event'.token = event.token
         /\ event'.candidates \subseteq event.candidates \ {o}
         /\ \A p \in event'.candidates : orders'[p] = orders[p]
         /\ openIds' \subseteq openIds
         /\ \A p \in openIds : /\ orders'[p].token = orders[p].token
                               /\ orders'[p].side = orders[p].side
<1>1. /\ o \in openIds /\ event.candidates \subseteq openIds
      /\ orders[o] \in Order /\ o \in OrderIds /\ event \in Event
  BY OpenOrderFacts DEF IInv, EventServesOpenOrders, TypeOK, Idle
<1>. DEFINE v == [orders[o] EXCEPT !.filled = orders[o].filled + n]
            st == IF orders[o].filled + n = orders[o].requested
                  THEN "FILLED" ELSE "PARTIAL"
            u == [v EXCEPT !.status = st]
<1>2. orders[o].filled + n \in Nat
  BY <1>1 DEF Order
<1>3. v \in Order /\ v.side = orders[o].side /\ v.token = orders[o].token
  BY <1>1, <1>2, FilledQuantity
<1>4. st \in {"FILLED", "PARTIAL"}
  OBVIOUS
<1>5. orders' = [orders EXCEPT ![o] = u] /\ openIds' \subseteq openIds
  BY DEF FillOrder
<1>. HIDE DEF v, st
<1>6. u.side = orders[o].side /\ u.token = orders[o].token
  BY <1>3, <1>4, FilledStatus
<1>. HIDE DEF u
<1>7. \A p \in openIds : /\ orders'[p].token = orders[p].token
                         /\ orders'[p].side = orders[p].side
                         /\ p # o => orders'[p] = orders[p]
  BY <1>1, <1>5, <1>6 DEF IInv, TypeOK
<1>8. event'.token = event.token /\ event'.candidates = event.candidates \ {o}
  <2>1. n \in Nat /\ n <= event.available
    OBVIOUS
  <2>2. event' = EventLess(event, n, o)
    BY DEF Served, EventLess
  <2>. QED  BY <1>1, <2>1, <2>2, ServedEvent
<1>9. OneSided'
  BY <1>5, <1>7, SidesKept DEF ScanInv
<1>. QED  BY <1>1, <1>5, <1>7, <1>8, <1>9

(* A buy adds shares at the mark its token has.                            *)
LEMMA BuyKeepsScan ==
  ASSUME IInv, ScanInv, NEW o \in OrderIds, BuyFill(o)
  PROVE  ScanInv'
<1>. DEFINE k == event.token
            price == ExecutionPrice("BUY", event.price)
            n == FillShares(o, price)
<1>1. /\ IsNext(o) /\ event.available > 0 /\ orders[o].side = "BUY"
      /\ WithinLimit(o, price)
      /\ ~ Idle /\ o \in event.candidates
      /\ FillOrder(o, n) /\ Served(o, n)
      /\ shares' = [shares EXCEPT ![k] = @ + n]
      /\ basis' = [basis EXCEPT ![k] = @ + Cost(n, price)]
      /\ exposure' = exposure
            + (n * (IF marks[k] = NoMark THEN price ELSE marks[k])) * Unit
      /\ UNCHANGED marks
  BY DEF BuyFill, IsNext
<1>2. n \in Nat \ {0} /\ n <= event.available
  BY <1>1, BuyAmount
<1>. HIDE DEF n
<1>3. /\ OneSided' /\ event'.token = k
      /\ event'.candidates \subseteq event.candidates \ {o}
      /\ \A p \in event'.candidates : orders'[p] = orders[p]
  BY <1>1, <1>2, FillsKeepSides
<1>4. /\ k \in Tokens /\ shares \in [Tokens -> Nat] /\ basis \in [Tokens -> Nat]
      /\ marks \in [Tokens -> Prices \cup {NoMark}] /\ exposure \in Int
      /\ Unit \in Nat
  BY <1>1, SimulatorAssumption DEF IInv, TypeOK, Idle, Event
<1>5. marks[k] # NoMark /\ marks[k] \in Nat
  BY <1>1, <1>4, SimulatorAssumption DEF ScanInv, BuyersMarked, Prices, NoMark
<1>6. HeldIsMarked'
  BY <1>1, <1>2, <1>4, <1>5 DEF ScanInv, HeldIsMarked
<1>7. BuyersMarked'
  BY <1>1, <1>3, <1>5 DEF ScanInv, BuyersMarked
<1>8. ExposureExact'
  <2>. DEFINE added == (n * marks[k]) * Unit
  <2>1. added \in Nat /\ exposure' = exposure + added
    BY <1>1, <1>2, <1>4, <1>5, ProductMonotone
  <2>2. MarkedValue[k] = (shares[k] * marks[k]) * Unit
    BY <1>4, <1>5 DEF MarkedValue
  <2>3. ((shares[k] + n) * marks[k]) * Unit = MarkedValue[k] + added
    <3>1. \A a, b, m, u \in Nat : ((a + b) * m) * u = (a * m) * u + (b * m) * u
      OBVIOUS
    <3>. QED  BY <1>2, <1>4, <1>5, <2>2, <3>1
  <2>. HIDE DEF added
  <2>4. ASSUME NEW j \in Tokens
        PROVE  MarkedValue'[j] = IF j = k THEN MarkedValue[k] + added ELSE MarkedValue[j]
    <3>1. CASE j = k
      <4>1. shares'[j] = shares[k] + n /\ marks'[j] = marks[k]
        BY <1>1, <1>4, <3>1
      <4>. QED  BY <1>5, <2>3, <3>1, <4>1 DEF MarkedValue
    <3>2. CASE j # k
      BY <1>1, <1>4, <3>2 DEF MarkedValue
    <3>. QED  BY <3>1, <3>2
  <2>5. MarkedValue \in [Tokens -> Nat] /\ MarkedValue' = [j \in Tokens |-> MarkedValue'[j]]
    BY MarkedValueType DEF MarkedValue
  <2>6. MarkedValue' = [MarkedValue EXCEPT ![k] = MarkedValue[k] + added]
    BY <2>4, <2>5
  <2>7. MarkedValue[k] \in Nat
    BY <1>4, <2>5
  <2>8. /\ Total(MarkedValue, Tokens) \in Nat
        /\ Total(MarkedValue', Tokens)
              = Total(MarkedValue, Tokens) - MarkedValue[k] + (MarkedValue[k] + added)
    <3>. DEFINE value == MarkedValue[k] + added
    <3>1. MarkedValue \in [Tokens -> Nat] /\ k \in Tokens /\ value \in Nat
      BY <1>4, <2>1, <2>5, <2>7
    <3>2. MarkedValue' = [MarkedValue EXCEPT ![k] = value]
      BY <2>6
    <3>. HIDE DEF value, k
    <3>3. /\ Total(MarkedValue, Tokens) \in Nat
          /\ Total([MarkedValue EXCEPT ![k] = value], Tokens)
                = Total(MarkedValue, Tokens) - MarkedValue[k] + value
      BY <3>1, BasisReplaced
    <3>. QED  BY <3>2, <3>3 DEF value
  <2>. QED  BY <1>4, <2>1, <2>7, <2>8 DEF ScanInv, ExposureExact
<1>. QED  BY <1>3, <1>6, <1>7, <1>8 DEF ScanInv

(* A sale takes shares off at the mark; all that are left take the mark,   *)
(* and no buy of the same event is left without it.                        *)
LEMMA SellKeepsScan ==
  ASSUME IInv, ScanInv, NEW o \in OrderIds, SellFill(o)
  PROVE  ScanInv'
<1>. DEFINE k == event.token
            price == ExecutionPrice("SELL", event.price)
            n == FillShares(o, price)
            allocated == AllocatedCost(k, n)
<1>1. /\ IsNext(o) /\ event.available > 0 /\ orders[o].side = "SELL"
      /\ ~ Idle /\ o \in event.candidates
      /\ FillOrder(o, n) /\ Served(o, n)
      /\ shares' = [shares EXCEPT ![k] = @ - n]
      /\ basis' = [basis EXCEPT ![k] = @ - allocated]
      /\ exposure' = exposure - (IF marks[k] = NoMark THEN allocated
                                 ELSE (n * marks[k]) * Unit)
      /\ marks' = IF n = shares[k] THEN [marks EXCEPT ![k] = NoMark] ELSE marks
  BY DEF SellFill, IsNext
<1>2. n \in Nat \ {0} /\ n <= event.available /\ n <= shares[k]
  BY <1>1, SellAmount
<1>. HIDE DEF n
<1>3. /\ OneSided' /\ event'.token = k
      /\ event'.candidates \subseteq event.candidates \ {o}
      /\ \A p \in event'.candidates : orders'[p] = orders[p]
  BY <1>1, <1>2, FillsKeepSides
<1>4. /\ k \in Tokens /\ shares \in [Tokens -> Nat] /\ basis \in [Tokens -> Nat]
      /\ marks \in [Tokens -> Prices \cup {NoMark}] /\ exposure \in Int
      /\ Unit \in Nat
  BY <1>1, SimulatorAssumption DEF IInv, TypeOK, Idle, Event
<1>5. marks[k] # NoMark /\ marks[k] \in Nat
  BY <1>2, <1>4, SimulatorAssumption DEF ScanInv, HeldIsMarked, Prices, NoMark
<1>6. HeldIsMarked'
  <2>1. SUFFICES ASSUME NEW j \in Tokens, shares'[j] > 0 PROVE marks'[j] # NoMark
    BY DEF HeldIsMarked
  <2>2. CASE j = k
    <3>1. shares'[k] = shares[k] - n
      BY <1>1, <1>4
    <3>. QED  BY <1>1, <1>2, <1>4, <1>5, <2>1, <2>2, <3>1
  <2>3. CASE j # k
    BY <1>1, <1>4, <2>1, <2>3 DEF ScanInv, HeldIsMarked
  <2>. QED  BY <2>2, <2>3
<1>7. BuyersMarked'
  <2>1. \A p \in event.candidates : orders[p].side = "SELL"
    BY <1>1 DEF IInv, EventServesOpenOrders, ScanInv, OneSided
  <2>. QED  BY <1>3, <2>1 DEF BuyersMarked
<1>8. ExposureExact'
  <2>. DEFINE taken == (n * marks[k]) * Unit
  <2>1. taken \in Nat /\ exposure' = exposure - taken
    BY <1>1, <1>2, <1>4, <1>5, ProductMonotone
  <2>2. MarkedValue[k] = (shares[k] * marks[k]) * Unit
    BY <1>4, <1>5 DEF MarkedValue
  <2>3. /\ shares[k] - n \in Nat
        /\ ((shares[k] - n) * marks[k]) * Unit \in Nat
        /\ ((shares[k] - n) * marks[k]) * Unit = MarkedValue[k] - taken
    <3>1. \A a, b, m, u \in Nat : ((a - b) * m) * u = (a * m) * u - (b * m) * u
      OBVIOUS
    <3>2. shares[k] - n \in Nat
      BY <1>2, <1>4
    <3>. QED  BY <1>2, <1>4, <1>5, <2>2, <3>1, <3>2, ProductMonotone
  <2>. HIDE DEF taken
  <2>. DEFINE rest == MarkedValue[k] - taken
  <2>4. n = shares[k] => basis'[k] = 0 /\ rest = 0
    <3>1. allocated \in Nat /\ (n = shares[k] => allocated = basis[k])
      BY <1>2, <1>4, AllocationBounds DEF AllocatedCost
    <3>. HIDE DEF allocated
    <3>2. n = shares[k] => basis'[k] = 0
      BY <1>1, <1>4, <3>1
    <3>3. n = shares[k] => rest = 0
      BY <1>4, <1>5, <2>2, <2>3
    <3>. QED  BY <3>2, <3>3
  <2>5. ASSUME NEW j \in Tokens
        PROVE  MarkedValue'[j] = IF j = k THEN rest ELSE MarkedValue[j]
    <3>1. CASE j = k /\ n = shares[k]
      BY <1>1, <1>4, <2>4, <3>1 DEF MarkedValue
    <3>2. CASE j = k /\ n # shares[k]
      <4>1. shares'[j] = shares[k] - n /\ marks'[j] = marks[k]
        BY <1>1, <1>4, <3>2
      <4>. QED  BY <1>5, <2>3, <3>2, <4>1 DEF MarkedValue
    <3>3. CASE j # k
      BY <1>1, <1>4, <3>3 DEF MarkedValue
    <3>. QED  BY <3>1, <3>2, <3>3
  <2>6. MarkedValue \in [Tokens -> Nat] /\ MarkedValue' = [j \in Tokens |-> MarkedValue'[j]]
    BY MarkedValueType DEF MarkedValue
  <2>7. rest \in Nat /\ MarkedValue[k] \in Nat
    BY <1>4, <2>3, <2>6
  <2>8. rest = MarkedValue[k] - taken
    OBVIOUS
  <2>. HIDE DEF rest
  <2>9. MarkedValue' = [MarkedValue EXCEPT ![k] = rest]
    BY <2>5, <2>6
  <2>10. /\ Total(MarkedValue, Tokens) \in Nat
         /\ Total(MarkedValue', Tokens) = Total(MarkedValue, Tokens) - MarkedValue[k] + rest
    <3>1. MarkedValue \in [Tokens -> Nat] /\ k \in Tokens /\ rest \in Nat
      BY <1>4, <2>6, <2>7
    <3>. HIDE DEF k
    <3>2. /\ Total(MarkedValue, Tokens) \in Nat
          /\ Total([MarkedValue EXCEPT ![k] = rest], Tokens)
                = Total(MarkedValue, Tokens) - MarkedValue[k] + rest
      BY <3>1, BasisReplaced
    <3>. QED  BY <2>9, <3>2
  <2>. QED  BY <1>4, <2>1, <2>7, <2>8, <2>10 DEF ScanInv, ExposureExact
<1>. QED  BY <1>3, <1>6, <1>7, <1>8 DEF ScanInv

(* A token without shares is worth nothing, marked or not.                 *)
LEMMA NothingHeldNothingWorth ==
  ASSUME IInv, NEW k \in Tokens, shares[k] = 0
  PROVE  MarkedValue[k] = 0
<1>1. basis[k] = 0
  BY DEF IInv, BooksBalance
<1>2. marks[k] \in Int /\ Unit \in Int
  BY SimulatorAssumption DEF IInv, TypeOK, Prices, NoMark
<1>3. \A m, u \in Int : (0 * m) * u = 0
  OBVIOUS
<1>. QED  BY <1>1, <1>2, <1>3 DEF MarkedValue

(* A resolution takes out the positions it pays, and their marks.          *)
LEMMA ResolveKeepsScan ==
  ASSUME IInv, ScanInv, NEW c, NEW t, NEW payouts,
         Resolve(c, t, payouts)
  PROVE  ScanInv'
<1>. DEFINE settled == TokensOf(c)
            held == {k \in settled : shares[k] > 0}
<1>1. /\ Idle' /\ CloseOrders(t, OpenIn(c)) /\ OpenIn(c) \in SUBSET openIds
      /\ exposure' = exposure - Total(MarkedValue, held)
      /\ shares' = [k \in Tokens |-> IF k \in settled THEN 0 ELSE shares[k]]
      /\ basis' = [k \in Tokens |-> IF k \in settled THEN 0 ELSE basis[k]]
      /\ marks' = [k \in Tokens |-> IF k \in settled /\ shares[k] > 0
                                    THEN NoMark ELSE marks[k]]
  BY DEF Resolve, OpenIn, Idle
<1>2. held \in SUBSET Tokens /\ settled \subseteq Tokens /\ IsFiniteSet(Tokens)
  BY SimulatorAssumption DEF TokensOf
<1>. HIDE DEF settled
<1>3. openIds' \subseteq openIds /\ \A o \in openIds' : orders'[o] = orders[o]
  BY <1>1, CloseOrdersStep DEF IInv
<1>4. OneSided'
  BY <1>3, SidesKept DEF ScanInv
<1>5. HeldIsMarked'
  BY <1>1 DEF ScanInv, HeldIsMarked
<1>6. BuyersMarked'
  BY <1>1 DEF BuyersMarked
<1>7. ExposureExact'
  <2>1. \A k \in held : MarkedValue'[k] = 0
    BY <1>1, <1>2 DEF MarkedValue
  <2>2. ASSUME NEW k \in Tokens \ held PROVE MarkedValue'[k] = MarkedValue[k]
    <3>1. CASE k \in settled
      <4>1. shares[k] = 0
        BY <1>2, <2>2, <3>1 DEF IInv, TypeOK
      <4>2. shares'[k] = 0 /\ basis'[k] = 0 /\ marks'[k] = marks[k]
        BY <1>1, <3>1, <4>1
      <4>3. marks[k] \in Int /\ Unit \in Int /\ \A m, u \in Int : (0 * m) * u = 0
        BY SimulatorAssumption DEF IInv, TypeOK, Prices, NoMark
      <4>. QED  BY <4>1, <4>2, <4>3, NothingHeldNothingWorth DEF MarkedValue
    <3>2. CASE k \notin settled
      BY <1>1, <3>2 DEF MarkedValue
    <3>. QED  BY <3>1, <3>2
  <2>3. /\ \A k \in Tokens : MarkedValue[k] \in Nat
        /\ \A k \in Tokens : MarkedValue'[k] \in Nat
    BY <2>1, <2>2, MarkedValueType
  <2>. DEFINE rest == Tokens \ held
              before == MarkedValue
              after == MarkedValue'
  <2>4. /\ Total(before, Tokens) = Total(before, held) + Total(before, rest)
        /\ Total(after, Tokens) = Total(after, held) + Total(after, rest)
    <3>. HIDE DEF held, before, after
    <3>. QED  BY <1>2, <2>3, TotalSplit DEF before, after
  <2>5. Total(after, rest) = Total(before, rest)
    <3>1. \A k \in rest : after[k] = before[k]
      BY <2>2
    <3>. HIDE DEF rest, before, after
    <3>. QED  BY <3>1, TotalSame
  <2>6. Total(after, held) = 0
    <3>. HIDE DEF held
    <3>. QED  BY <2>1, TotalZero
  <2>7. Total(before, held) \in Nat /\ Total(before, rest) \in Nat
    <3>1. IsFiniteSet(held) /\ IsFiniteSet(rest)
      BY <1>2, FS_Subset
    <3>2. rest \subseteq Tokens
      OBVIOUS
    <3>. HIDE DEF held, rest, before
    <3>. QED  BY <1>2, <2>3, <3>1, <3>2, TotalType DEF before
  <2>8. exposure' = exposure - Total(before, held) /\ exposure = Total(before, Tokens)
    BY <1>1 DEF ScanInv, ExposureExact
  <2>. HIDE DEF held, rest, before
  <2>9. exposure' = Total(after, Tokens)
    BY <2>4, <2>5, <2>6, <2>7, <2>8
  <2>. QED  BY <2>9 DEF ExposureExact
<1>. QED  BY <1>4, <1>5, <1>6, <1>7 DEF ScanInv
-----------------------------------------------------------------------------
(* What a call in progress can rely on.                                    *)

Call == [action: {"CALL", "UPDATE", "REDUCE", "CLOSE"}, fraction: 0 .. Whole,
         decision: Nat, cancel: SUBSET OrderIds, tokens: SUBSET Tokens]

MemoryNames ==
    /\ memory = [c \in Conditions |-> memory[c]]
    /\ \A c \in Conditions :
          memory[c] # NoMemory => memory[c].token \in TokensOf(c) \cup {None}

TradeNames ==
    trade # NoTrade =>
        /\ trade.condition \in Conditions
        /\ \A k \in TokensOf(trade.condition) : trade.prices[k] \in Prices

(* The tokens left to be sized are of the market that traded, and an open  *)
(* order on one of them is still to be cancelled.                          *)
CallTargets ==
    call # NoCall =>
        /\ Idle /\ trade # NoTrade /\ call \in Call
        /\ call.tokens \subseteq TokensOf(trade.condition)
        /\ \A o \in openIds : orders[o].token \in call.tokens => o \in call.cancel

CallInv ==
    /\ ScanInv
    /\ MemoryNames
    /\ TradeNames
    /\ CallTargets
    /\ decided \in Nat

(* The orders a step rejects, and what CallsAreCovered says of them.       *)
NewlyRejected(o) == orders'[o] # orders[o] /\ orders'[o].status = "REJECTED"

OverByLastPlace(o) ==
    /\ orders'[o].side = "BUY"
    /\ 2 * (Cost(orders'[o].requested, orders'[o].limit) - (cash - ReservedCash))
           <= Cost(1, orders'[o].limit)

CoveredStep == \A o \in OrderIds : NewlyRejected(o) => OverByLastPlace(o)

(* No order is rejected by being closed or filled.                         *)
LEMMA ClosingRejectsNothing ==
  ASSUME IInv, NEW t, NEW ids \in SUBSET openIds, CloseOrders(t, ids)
  PROVE  CoveredStep
<1>1. SUFFICES ASSUME NEW o \in OrderIds, NewlyRejected(o) PROVE FALSE
  BY DEF CoveredStep
<1>2. orders' = Closed(t, ids)
  BY DEF CloseOrders
<1>3. IF o \in Expired(t) \cup ids
      THEN orders'[o].status \in {"EXPIRED", "CANCELLED"}
      ELSE orders'[o] = orders[o]
  BY <1>2, ClosedFacts DEF IInv
<1>. QED  BY <1>1, <1>3 DEF NewlyRejected

LEMMA FillingRejectsNothing ==
  ASSUME IInv, NEW o \in openIds, NEW n \in Nat, FillOrder(o, n)
  PROVE  CoveredStep
<1>. DEFINE v == [orders[o] EXCEPT !.filled = orders[o].filled + n]
            st == IF orders[o].filled + n = orders[o].requested
                  THEN "FILLED" ELSE "PARTIAL"
            u == [v EXCEPT !.status = st]
<1>1. orders[o] \in Order /\ o \in OrderIds
  BY OpenOrderFacts DEF IInv
<1>2. orders[o].filled + n \in Nat
  BY <1>1 DEF Order
<1>3. v \in Order
  BY <1>1, <1>2, FilledQuantity
<1>4. st \in {"FILLED", "PARTIAL"} /\ orders' = [orders EXCEPT ![o] = u]
  BY DEF FillOrder
<1>. HIDE DEF v, st
<1>5. u.status = st
  BY <1>3, <1>4, FilledStatus
<1>. HIDE DEF u
<1>. QED  BY <1>1, <1>4, <1>5 DEF CoveredStep, NewlyRejected, IInv, TypeOK

(* While a call is applied nothing expires.                                *)
LEMMA NothingExpiresNow ==
  ASSUME IInv
  PROVE  Expired(now) = {}
<1>1. SUFFICES ASSUME NEW o \in Expired(now) PROVE FALSE
  OBVIOUS
<1>2. o \in openIds /\ ExpiresAt(o) < now
  BY DEF Expired, Popped
<1>3. now <= ExpiresAt(o) /\ orders[o] \in Order
  BY <1>2, OpenOrderFacts DEF IInv, OpenOrdersTracked
<1>4. ExpiresAt(o) \in Int /\ now \in Int
  BY <1>3, SimulatorAssumption DEF IInv, TypeOK, ExpiresAt, Order
<1>. QED  BY <1>2, <1>3, <1>4
-----------------------------------------------------------------------------
(* What a call asks for is covered.                                        *)

(* A target is never negative, because the account's equity is not.        *)
LEMMA TargetType ==
  ASSUME IInv, CallInv, call # NoCall
  PROVE  TargetCost \in Nat
<1>1. call.fraction \in Nat /\ Whole \in Nat \ {0}
  BY AdapterAssumption DEF CallInv, CallTargets, Call
<1>2. \A k \in Tokens : MarkedValue[k] \in Nat
  BY MarkedValueType
<1>3. exposure \in Nat
  BY <1>2, TotalType, SimulatorAssumption DEF CallInv, ScanInv, ExposureExact
<1>4. Equity \in Nat
  BY <1>3 DEF Equity, IInv, TypeOK
<1>5. Equity * call.fraction \in Nat
  BY <1>1, <1>4, ProductMonotone
<1>. HIDE DEF Equity
<1>. QED  BY <1>1, <1>5, QuotientBounds DEF TargetCost

(* A buy costs at most half a last place more at its limit than is free.   *)
LEMMA BuysAreCovered ==
  ASSUME IInv, CallInv, call # NoCall, NEW k \in call.tokens,
         BuyQuantity(k) \in Nat \ {0}
  PROVE  2 * (Cost(BuyQuantity(k), BuyLimit(k)) - (cash - ReservedCash))
             <= Cost(1, BuyLimit(k))
<1>. DEFINE limit == BuyLimit(k)
            unit == Cost(1, limit)
            cost == AdditionalCost(k)
<1>1. /\ k \in Tokens /\ k \in TokensOf(trade.condition)
      /\ trade.prices[k] \in Nat /\ basis[k] \in Nat
  BY SimulatorAssumption DEF CallInv, CallTargets, TradeNames, TokensOf, Prices, IInv, TypeOK
<1>2. limit \in Nat \ {0}
  BY <1>1, SimulatorAssumption DEF BuyLimit, AtMost
<1>. HIDE DEF limit
<1>3. unit = limit * (Unit + Fee) /\ Unit + Fee \in Nat \ {0}
  BY <1>2, SimulatorAssumption DEF Cost
<1>4. unit \in Nat \ {0}
  BY <1>2, <1>3
<1>5. cash \in Nat /\ ReservedCash \in Nat
  BY ReservationTypes DEF IInv, TypeOK, ReservedCash, OpenBuys
<1>6. AvailableCash \in Nat /\ (AvailableCash > 0 => AvailableCash = cash - ReservedCash)
  BY <1>5 DEF AvailableCash
<1>7. cost \in Nat /\ cost <= AvailableCash
  BY <1>1, <1>6, TargetType DEF AdditionalCost, AtMost
<1>. HIDE DEF unit, cost
<1>. DEFINE q == BuyQuantity(k)
<1>8. q = Quotient(cost, unit)
  BY DEF BuyQuantity, BuySharesFor, cost, unit, limit
<1>9. 2 * (q * unit) <= 2 * cost + unit /\ q \in Nat \ {0}
  BY <1>4, <1>7, <1>8, QuotientBounds
<1>. HIDE DEF q
<1>10. Cost(q, limit) = q * unit
  <2>. DEFINE u == Unit + Fee
  <2>1. Cost(q, limit) = (q * limit) * u /\ unit = limit * u /\ u \in Nat
    BY <1>3 DEF Cost
  <2>. HIDE DEF u
  <2>2. (q * limit) * u = q * (limit * u)
    BY <1>2, <1>9, <2>1
  <2>. QED  BY <2>1, <2>2
<1>11. q * unit \in Nat
  BY <1>4, <1>9, ProductMonotone
<1>12. cost <= cash - ReservedCash
  <2>1. ReservedCash <= cash
    BY DEF IInv, CashCoversReservations
  <2>. QED  BY <1>5, <1>6, <1>7, <2>1 DEF AvailableCash
<1>13. 2 * (q * unit - (cash - ReservedCash)) <= unit
  BY <1>4, <1>5, <1>7, <1>9, <1>11, <1>12
<1>. QED  BY <1>10, <1>13 DEF q, limit, unit

(* A sale is of no more than what is held, and nothing else sells it.      *)
LEMMA SalesAreCovered ==
  ASSUME IInv, CallInv, call # NoCall, call.cancel = {}, NEW k \in call.tokens,
         ~ Buys(k), SellQuantity(k) \in Nat \ {0}
  PROVE  SellQuantity(k) <= UnreservedShares(now, k)
<1>1. /\ k \in Tokens /\ shares[k] \in Nat /\ basis[k] \in Nat /\ call \in Call
  BY DEF CallInv, CallTargets, TokensOf, IInv, TypeOK
<1>2. OpenOn(k, "SELL") = {}
  BY DEF CallInv, CallTargets, OpenOn
<1>3. UnreservedShares(now, k) = shares[k]
  <2>1. Total(RemainingShares, OpenOn(k, "SELL") \ Expired(now)) = 0
    BY <1>2, TotalZero
  <2>. QED  BY <1>1, <2>1 DEF UnreservedShares
<1>4. ASSUME NEW n \in Nat \ {0}, NEW q \in 0 .. n,
             SellQuantity(k) = Quotient(shares[k] * q, n)
      PROVE  SellQuantity(k) <= shares[k]
  <2>1. CASE q = 0
    <3>1. shares[k] * q = 0
      BY <1>1, <2>1
    <3>2. SellQuantity(k) = 0
      <4>1. Quotient(0, n) = 0
        <5>1. 2 * (Quotient(0, n) * n) <= n /\ Quotient(0, n) \in Nat
          BY QuotientBounds
        <5>. DEFINE x == Quotient(0, n)
        <5>2. SUFFICES ASSUME x >= 1 PROVE FALSE
          BY <5>1
        <5>. HIDE DEF x
        <5>3. x \in Nat /\ 2 * (x * n) <= n
          BY <5>1 DEF x
        <5>4. 1 * n <= x * n /\ x * n \in Nat
          BY <5>2, <5>3, ProductMonotone
        <5>. DEFINE y == x * n
        <5>5. n <= y /\ 2 * y <= n /\ y \in Nat
          BY <5>3, <5>4
        <5>. HIDE DEF y
        <5>. QED  BY <5>5
      <4>. QED  BY <1>4, <3>1, <4>1
    <3>. QED  BY <3>2
  <2>2. CASE q # 0
    <3>1. q \in 1 .. n
      BY <2>2
    <3>. QED  BY <1>1, <1>4, <3>1, AllocationBounds
  <2>. QED  BY <2>1, <2>2
<1>5. CASE call.action # "UPDATE"
  <2>1. Whole \in Nat \ {0} /\ SoldFraction \in 0 .. Whole
    BY <1>1, AdapterAssumption DEF SoldFraction, Call
  <2>2. SellQuantity(k) = Quotient(shares[k] * SoldFraction, Whole)
    BY <1>5 DEF SellQuantity
  <2>. HIDE DEF SoldFraction, SellQuantity
  <2>. QED  BY <1>3, <1>4, <2>1, <2>2
<1>6. CASE call.action = "UPDATE"
  <2>1. basis[k] # 0
    BY <1>6 DEF SellQuantity
  <2>2. TargetCost <= basis[k] /\ TargetCost \in Nat
    BY <1>1, <1>6, TargetType DEF Buys
  <2>. DEFINE q == basis[k] - TargetCost
  <2>3. q \in 0 .. basis[k] /\ basis[k] \in Nat \ {0}
    BY <1>1, <2>1, <2>2
  <2>4. SellQuantity(k) = Quotient(shares[k] * q, basis[k])
    BY <1>6, <2>1 DEF SellQuantity
  <2>. HIDE DEF q, SellQuantity
  <2>. QED  BY <1>3, <1>4, <2>3, <2>4
<1>. QED  BY <1>5, <1>6
-----------------------------------------------------------------------------
(* Each action keeps what a call relies on.                                *)

LEMMA ObserveTradeStep ==
  ASSUME IInv, CallInv, NEW t, NEW k \in Tokens, NEW price \in Prices,
         NEW available \in Depths, NEW screened,
         ObserveTrade(t, k, price, available, screened)
  PROVE  CallInv'
<1>1. /\ LiquidityEvent(t, k, price, available, screened)
      /\ call' = NoCall /\ UNCHANGED <<memory, decided>>
      /\ trade' \in {NoTrade, [condition |-> ConditionOf[k],
                               prices |-> ReferencePrices(k, price)]}
  BY DEF ObserveTrade
<1>2. ScanInv'
  BY <1>1, LiquidityKeepsScan DEF CallInv
<1>3. CloseOrders(t, {}) /\ {} \in SUBSET openIds
  BY <1>1 DEF LiquidityEvent
<1>4. TradeNames'
  <2>1. /\ ConditionOf[k] \in Conditions
        /\ \A j \in TokensOf(ConditionOf[k]) : ReferencePrices(k, price)[j] \in Prices
    BY SimulatorAssumption DEF ReferencePrices, Prices
  <2>. QED  BY <1>1, <2>1 DEF TradeNames, TokensOf
<1>5. MemoryNames'
  BY <1>1 DEF CallInv, MemoryNames, TokensOf
<1>. QED  BY <1>1, <1>2, <1>4, <1>5 DEF CallInv, CallTargets

LEMMA FillStep ==
  ASSUME IInv, CallInv, NEW o \in OrderIds, FillBuy(o) \/ FillSell(o)
  PROVE  CallInv'
<1>1. /\ BuyFill(o) \/ SellFill(o)
      /\ ~ Idle /\ o \in event.candidates /\ event.available > 0 /\ IsNext(o)
      /\ UNCHANGED <<memory, trade, call, decided>>
  BY DEF FillBuy, FillSell, BuyFill, SellFill, IsNext, adapterVars
<1>2. ScanInv'
  BY <1>1, BuyKeepsScan, SellKeepsScan DEF CallInv
<1>3. call' = NoCall
  BY <1>1 DEF CallInv, CallTargets
<1>4. TradeNames' /\ MemoryNames'
  BY <1>1 DEF CallInv, TradeNames, MemoryNames, TokensOf
<1>. QED  BY <1>1, <1>2, <1>3, <1>4 DEF CallInv, CallTargets

(* Steps that leave the orders, the account and the adapter as they are.   *)
LEMMA NoOrderStep ==
  ASSUME IInv, CallInv,
         \/ \E o \in OrderIds : Pass(o)
         \/ EndTrade
         \/ \E k \in Tokens : NoOrderFor(k)
         \/ EndCall
         \/ UNCHANGED allVars
  PROVE  CallInv'
<1>1. /\ UNCHANGED <<orders, openIds, portfolioVars, memory, trade, decided>>
      /\ \/ event' = event
         \/ Idle'
         \/ /\ ~ Idle /\ event'.token = event.token
            /\ event'.candidates \subseteq event.candidates
  <2>1. ASSUME NEW o \in OrderIds, Pass(o)
        PROVE  ~ Idle /\ event'.token = event.token /\ event'.candidates \subseteq event.candidates
    <3>1. ~ Idle /\ event \in Event /\ event.available > 0 /\ Served(o, 0)
      BY <2>1 DEF Pass, PassOver, IsNext, IInv, TypeOK, Idle
    <3>2. 0 <= event.available /\ event' = EventLess(event, 0, o)
      BY <3>1 DEF Event, Served, EventLess
    <3>3. event'.token = event.token /\ event'.candidates = event.candidates \ {o}
      BY <3>1, <3>2, ServedEvent
    <3>. QED  BY <3>1, <3>3
  <2>2. EndTrade => Idle'
    BY DEF EndTrade, LiquidityDone, Idle
  <2>3. (\E k \in Tokens : NoOrderFor(k)) \/ EndCall \/ UNCHANGED allVars => event' = event
    BY DEF NoOrderFor, EndCall, allVars, vars
  <2>4. UNCHANGED <<orders, openIds, portfolioVars, memory, trade, decided>>
    BY DEF Pass, PassOver, EndTrade, LiquidityDone, NoOrderFor, EndCall,
           allVars, vars, orderVars, adapterVars
  <2>. QED  BY <2>1, <2>2, <2>3, <2>4
<1>2. ScanInv'
  <2>1. CASE Idle' \/ (~ Idle /\ event'.token = event.token
                               /\ event'.candidates \subseteq event.candidates)
    BY <1>1, <2>1, QuietStep DEF CallInv
  <2>2. CASE event' = event
    BY <1>1, <2>2, QuietStep DEF CallInv, Idle
  <2>. QED  BY <1>1, <2>1, <2>2
<1>3. TradeNames' /\ MemoryNames' /\ decided' \in Nat
  BY <1>1 DEF CallInv, TradeNames, MemoryNames, TokensOf
<1>4. CallTargets'
  <2>1. CASE call' = NoCall
    BY <2>1 DEF CallTargets
  <2>2. CASE (\E o \in OrderIds : Pass(o)) \/ EndTrade
    <3>1. ~ Idle /\ call' = call
      BY <2>2 DEF Pass, PassOver, IsNext, EndTrade, LiquidityDone, adapterVars
    <3>. QED  BY <3>1 DEF CallInv, CallTargets
  <2>3. ASSUME NEW k \in Tokens, NoOrderFor(k) PROVE CallTargets'
    <3>1. call # NoCall /\ call' = [call EXCEPT !.tokens = call.tokens \ {k}]
          /\ event' = event
      BY <2>3 DEF NoOrderFor, vars
    <3>2. call \in Call
      BY <3>1 DEF CallInv, CallTargets
    <3>3. call' \in Call /\ call'.tokens = call.tokens \ {k} /\ call'.cancel = call.cancel
      BY <3>1, <3>2 DEF Call
    <3>. QED  BY <1>1, <3>1, <3>3 DEF CallInv, CallTargets, Idle, TokensOf
  <2>4. CASE UNCHANGED allVars
    <3>1. call' = call /\ event' = event
      BY <2>4 DEF allVars, adapterVars, vars
    <3>. QED  BY <1>1, <3>1 DEF CallInv, CallTargets, Idle, TokensOf
  <2>. QED  BY <2>1, <2>2, <2>3, <2>4 DEF EndCall
<1>. QED  BY <1>2, <1>3, <1>4 DEF CallInv

(* A call begins with all orders of its market to be cancelled, and what   *)
(* it is about is a token of that market.                                  *)
LEMMA DecideStep ==
  ASSUME IInv, CallInv,
         NEW action \in {"CALL", "SKIP", "UPDATE", "HOLD", "REDUCE", "CLOSE"},
         NEW k \in Tokens \cup {None}, NEW fraction \in Fractions,
         Decide(action, k, fraction)
  PROVE  CallInv'
<1>. DEFINE c == trade.condition
            tokens == IF action \in {"REDUCE", "CLOSE"} THEN PositionsIn(c)
                      ELSE {k} \ {None}
<1>1. /\ Idle /\ trade # NoTrade /\ RecordPrediction(now)
      /\ k \in SelectedTokens(c, action)
      /\ memory' = [memory EXCEPT ![c] = [token |-> k]]
      /\ decided' = decided + 1
      /\ call' = IF action \in {"SKIP", "HOLD"} THEN NoCall
                 ELSE [action |-> action, fraction |-> fraction,
                       decision |-> decided + 1, cancel |-> Pending(c),
                       tokens |-> tokens]
      /\ UNCHANGED trade
  BY DEF Decide, Free
<1>2. c \in Conditions
  BY <1>1 DEF CallInv, TradeNames
<1>3. k \in TokensOf(c) \cup {None}
  <2>1. memory[c] # NoMemory => memory[c].token \in TokensOf(c) \cup {None}
    BY <1>2 DEF CallInv, MemoryNames
  <2>. QED  BY <1>1, <2>1 DEF SelectedTokens, Costliest, PositionsIn
<1>4. MemoryNames'
  <2>1. memory' = [d \in Conditions |-> IF d = c THEN [token |-> k] ELSE memory[d]]
    BY <1>1, <1>2 DEF CallInv, MemoryNames
  <2>. HIDE DEF c
  <2>2. \A d \in Conditions :
           memory'[d] # NoMemory => memory'[d].token \in TokensOf(d) \cup {None}
    BY <1>3, <2>1 DEF CallInv, MemoryNames
  <2>3. memory' = [d \in Conditions |-> memory'[d]]
    BY <2>1
  <2>. QED  BY <2>2, <2>3 DEF MemoryNames, TokensOf
<1>5. CloseOrders(now, {}) /\ {} \in SUBSET openIds /\ UNCHANGED <<portfolioVars, event>>
  BY <1>1 DEF RecordPrediction
<1>6. openIds' \subseteq openIds /\ \A o \in openIds' : orders'[o] = orders[o]
  BY <1>5, CloseOrdersStep DEF IInv
<1>7. ScanInv'
  BY <1>1, <1>5, <1>6, QuietStep DEF CallInv, Idle
<1>8. TradeNames' /\ decided' \in Nat
  BY <1>1 DEF CallInv, TradeNames, TokensOf
<1>9. CallTargets'
  <2>1. SUFFICES ASSUME call' # NoCall PROVE CallTargets'
    BY DEF CallTargets
  <2>2. action \in {"CALL", "UPDATE", "REDUCE", "CLOSE"}
    BY <1>1, <2>1
  <2>3. Pending(c) \in SUBSET OrderIds
    BY DEF Pending, OpenIn, IInv, TypeOK
  <2>4. tokens \in SUBSET TokensOf(c) /\ tokens \in SUBSET Tokens
    BY <1>3 DEF PositionsIn, TokensOf
  <2>5. fraction \in 0 .. Whole /\ decided + 1 \in Nat
    BY AdapterAssumption DEF CallInv
  <2>. HIDE DEF tokens
  <2>6. /\ call' \in Call
        /\ call'.tokens = tokens /\ call'.cancel = Pending(c)
    BY <1>1, <2>1, <2>2, <2>3, <2>4, <2>5 DEF Call
  <2>7. \A o \in openIds' : orders'[o].token \in tokens => o \in Pending(c)
    BY <1>6, <2>4 DEF Pending, OpenIn, TokensOf
  <2>. QED  BY <1>1, <1>5, <2>4, <2>6, <2>7 DEF CallTargets, Idle, TokensOf
<1>. QED  BY <1>4, <1>7, <1>8, <1>9 DEF CallInv

LEMMA CancelPendingStep ==
  ASSUME IInv, CallInv, NEW o \in OrderIds, CancelPending(o)
  PROVE  CallInv'
<1>. DEFINE ids == {o} \cap openIds
<1>1. /\ call # NoCall /\ Idle /\ CloseOrders(now, ids) /\ ids \in SUBSET openIds
      /\ call' = [call EXCEPT !.cancel = call.cancel \ {o}]
      /\ UNCHANGED <<portfolioVars, event, memory, trade, decided>>
  BY DEF CancelPending, CancelOrder
<1>. HIDE DEF ids
<1>2. /\ openIds' = openIds \ (Expired(now) \cup ids)
      /\ \A p \in openIds' : orders'[p] = orders[p]
  BY <1>1, CloseOrdersStep DEF IInv
<1>3. ScanInv'
  BY <1>1, <1>2, QuietStep DEF CallInv, Idle
<1>4. TradeNames' /\ MemoryNames' /\ decided' \in Nat
  BY <1>1 DEF CallInv, TradeNames, MemoryNames, TokensOf
<1>5. call \in Call
  BY <1>1 DEF CallInv, CallTargets
<1>6. call' \in Call /\ call'.cancel = call.cancel \ {o} /\ call'.tokens = call.tokens
  BY <1>1, <1>5 DEF Call
<1>7. \A p \in openIds' : orders'[p].token \in call'.tokens => p \in call'.cancel
  BY <1>1, <1>2, <1>6 DEF CallInv, CallTargets, ids
<1>8. CallTargets'
  BY <1>1, <1>6, <1>7 DEF CallInv, CallTargets, Idle, TokensOf
<1>. QED  BY <1>3, <1>4, <1>8 DEF CallInv

(* The order a call places is alone on its token if it is accepted.        *)
LEMMA PlaceForStep ==
  ASSUME IInv, CallInv, NEW o \in OrderIds, NEW k \in Tokens, PlaceFor(o, k)
  PROVE  CallInv'
<1>. DEFINE w == Wanted(k)
            accepted == Affordable(now, k, w.side, w.quantity, w.limit)
            placed == [token |-> k, side |-> w.side, submitted |-> now,
                       requested |-> w.quantity, limit |-> w.limit, filled |-> 0,
                       status |-> IF accepted THEN "PENDING" ELSE "REJECTED"]
<1>1. /\ call # NoCall /\ call.cancel = {} /\ k \in call.tokens
      /\ w.quantity \in Sizes
      /\ PlaceOrder(o, now, k, w.side, w.quantity, w.limit)
      /\ call' = [call EXCEPT !.tokens = call.tokens \ {k}]
      /\ UNCHANGED <<memory, trade, decided>>
  BY DEF PlaceFor
<1>2. w.quantity \in Nat \ {0}
  BY <1>1, SimulatorAssumption
<1>3. /\ Idle /\ UNCHANGED <<portfolioVars, event>>
      /\ orders' = [Closed(now, {}) EXCEPT ![o] = placed]
      /\ openIds' = (openIds \ Expired(now)) \cup (IF accepted THEN {o} ELSE {})
      /\ orders[o] = NoOrder
  BY <1>1 DEF PlaceOrder
<1>4. orders' = [orders EXCEPT ![o] = placed]
      /\ openIds' = openIds \cup (IF accepted THEN {o} ELSE {})
  <2>1. Expired(now) = {}
    BY NothingExpiresNow
  <2>2. Closed(now, {}) = orders
    BY <2>1 DEF Closed, IInv, TypeOK
  <2>. QED  BY <1>3, <2>1, <2>2
<1>5. /\ orders'[o].token = k
      /\ \A p \in OrderIds \ {o} : orders'[p] = orders[p]
      /\ openIds \subseteq OrderIds /\ openIds' \subseteq openIds \cup {o}
  <2>. HIDE DEF w, accepted
  <2>. QED  BY <1>4 DEF IInv, TypeOK
<1>. HIDE DEF w, accepted
<1>6. \A p \in openIds' : orders'[p].token = k => p = o
  <2>1. SUFFICES ASSUME NEW p \in openIds', p # o, orders'[p].token = k
                 PROVE  FALSE
    OBVIOUS
  <2>2. p \in openIds /\ orders[p].token = k
    BY <1>5, <2>1
  <2>. QED  BY <1>1, <2>2 DEF CallInv, CallTargets
<1>7. ScanInv'
  <2>1. OneSided'
    BY <1>5, <1>6 DEF CallInv, ScanInv, OneSided
  <2>2. HeldIsMarked' /\ ExposureExact'
    BY <1>3 DEF CallInv, ScanInv, HeldIsMarked, ExposureExact, MarkedValue, portfolioVars
  <2>3. BuyersMarked'
    BY <1>3 DEF BuyersMarked, Idle
  <2>. QED  BY <2>1, <2>2, <2>3 DEF ScanInv
<1>8. call \in Call
  BY <1>1 DEF CallInv, CallTargets
<1>9. call' \in Call /\ call'.tokens = call.tokens \ {k} /\ call'.cancel = call.cancel
  BY <1>1, <1>8 DEF Call
<1>10. \A p \in openIds' : orders'[p].token \in call'.tokens => p \in call'.cancel
  BY <1>1, <1>5, <1>6, <1>9 DEF CallInv, CallTargets
<1>11. CallTargets'
  BY <1>1, <1>3, <1>9, <1>10 DEF CallInv, CallTargets, Idle, TokensOf
<1>12. TradeNames' /\ MemoryNames' /\ decided' \in Nat
  BY <1>1 DEF CallInv, TradeNames, MemoryNames, TokensOf
<1>. QED  BY <1>7, <1>11, <1>12 DEF CallInv

LEMMA ResolveMarketStep ==
  ASSUME IInv, CallInv, NEW c \in Conditions, NEW t, NEW payouts,
         ResolveMarket(c, t, payouts)
  PROVE  CallInv'
<1>1. /\ Resolve(c, t, payouts) /\ call' = NoCall /\ trade' = NoTrade
      /\ memory' = [memory EXCEPT ![c] = NoMemory] /\ UNCHANGED decided
  BY DEF ResolveMarket
<1>2. ScanInv'
  BY <1>1, ResolveKeepsScan DEF CallInv
<1>3. CloseOrders(t, OpenIn(c)) /\ OpenIn(c) \in SUBSET openIds
  BY <1>1 DEF Resolve, OpenIn
<1>4. MemoryNames'
  <2>1. memory' = [d \in Conditions |-> IF d = c THEN NoMemory ELSE memory[d]]
    BY <1>1 DEF CallInv, MemoryNames
  <2>2. memory' = [d \in Conditions |-> memory'[d]]
    BY <2>1
  <2>. QED  BY <2>1, <2>2 DEF CallInv, MemoryNames, TokensOf
<1>. QED  BY <1>1, <1>2, <1>4 DEF CallInv, CallTargets, TradeNames

(* The end of a day keeps every open order, and a restart finds them.      *)
LEMMA DayEndStep ==
  ASSUME IInv, CallInv, Compact \/ Restore
  PROVE  CallInv'
<1>1. /\ CompactHistory \/ Resume
      /\ Idle' /\ call' = NoCall /\ trade' = NoTrade
      /\ UNCHANGED <<portfolioVars, memory, decided>>
  BY DEF Compact, Restore, CompactHistory, Resume, Idle
<1>2. openIds' = openIds /\ \A o \in openIds : orders'[o] = orders[o]
  <2>1. \A o \in openIds : o \in OrderIds /\ orders[o].status \in OPEN_ORDER_STATUSES
    BY DEF IInv, OpenOrdersTracked
  <2>2. Reopened = openIds
    BY DEF IInv, OpenOrdersTracked, Reopened
  <2>. QED  BY <1>1, <2>1, <2>2 DEF CompactHistory, Resume
<1>3. ScanInv'
  BY <1>1, <1>2, QuietStep DEF CallInv
<1>4. MemoryNames' /\ decided' \in Nat
  BY <1>1 DEF CallInv, MemoryNames, TokensOf
<1>. QED  BY <1>1, <1>3, <1>4 DEF CallInv, CallTargets, TradeNames

LEMMA AdapterInitEstablishes == AdapterInit => CallInv
<1>1. SUFFICES ASSUME AdapterInit PROVE CallInv
  OBVIOUS
<1>2. /\ openIds = {} /\ orders = [o \in OrderIds |-> NoOrder] /\ exposure = 0
      /\ shares = [k \in Tokens |-> 0] /\ basis = [k \in Tokens |-> 0]
      /\ marks = [k \in Tokens |-> NoMark] /\ Idle
      /\ memory = [c \in Conditions |-> NoMemory] /\ trade = NoTrade
      /\ call = NoCall /\ decided = 0
  BY <1>1 DEF AdapterInit, Init, Idle
<1>3. ScanInv
  <2>1. \A k \in Tokens : MarkedValue[k] = 0
    BY <1>2 DEF MarkedValue
  <2>2. Total(MarkedValue, Tokens) = 0
    BY <2>1, TotalZero
  <2>. QED
    BY <1>2, <2>2 DEF ScanInv, OneSided, HeldIsMarked, BuyersMarked, ExposureExact
<1>4. MemoryNames
  BY <1>2 DEF MemoryNames
<1>. QED  BY <1>2, <1>3, <1>4 DEF CallInv, CallTargets, TradeNames

LEMMA AdapterNextPreserves == IInv /\ CallInv /\ [AdapterNext]_allVars => CallInv'
<1>1. SUFFICES ASSUME IInv, CallInv, [AdapterNext]_allVars PROVE CallInv'
  OBVIOUS
<1>2. ASSUME NEW t \in now .. Horizon, NEW k \in Tokens, NEW price \in Prices,
             NEW available \in Depths, NEW screened \in SUBSET openIds,
             ObserveTrade(t, k, price, available, screened)
      PROVE  CallInv'
  BY <1>1, <1>2, ObserveTradeStep
<1>3. ASSUME NEW o \in OrderIds, FillBuy(o) \/ FillSell(o) PROVE CallInv'
  BY <1>1, <1>3, FillStep
<1>4. ASSUME NEW action \in {"CALL", "SKIP", "UPDATE", "HOLD", "REDUCE", "CLOSE"},
             NEW k \in Tokens \cup {None}, NEW fraction \in Fractions,
             Decide(action, k, fraction)
      PROVE  CallInv'
  BY <1>1, <1>4, DecideStep
<1>5. ASSUME NEW o \in OrderIds, CancelPending(o) PROVE CallInv'
  BY <1>1, <1>5, CancelPendingStep
<1>6. ASSUME NEW o \in OrderIds, NEW k \in Tokens, PlaceFor(o, k) PROVE CallInv'
  BY <1>1, <1>6, PlaceForStep
<1>7. ASSUME NEW c \in Conditions, NEW t \in now .. Horizon,
             NEW payouts \in Payouts(c), ResolveMarket(c, t, payouts)
      PROVE  CallInv'
  BY <1>1, <1>7, ResolveMarketStep
<1>8. CASE Compact \/ Restore
  BY <1>1, <1>8, DayEndStep
<1>9. CASE \/ \E o \in OrderIds : Pass(o)
           \/ EndTrade
           \/ \E k \in Tokens : NoOrderFor(k)
           \/ EndCall
           \/ UNCHANGED allVars
  BY <1>1, <1>9, NoOrderStep
<1>. QED
  BY <1>1, <1>2, <1>3, <1>4, <1>5, <1>6, <1>7, <1>8, <1>9 DEF AdapterNext

LEMMA CallInvariant == AdapterSpec => []CallInv
  BY AdapterInitEstablishes, AdapterNextPreserves, AccountUnderAdapter, PTL
  DEF AdapterSpec

(* Whenever the adapter can take a snapshot, the aggregates carried along  *)
(* are those of the full scan: no checkpoint is refused, and a resume is   *)
(* never left without one to read.                                         *)
THEOREM SnapshotsAlwaysHold == AdapterSpec => []SnapshotsHold
<1>1. IInv /\ CallInv => SnapshotsHold
  BY DEF IInv, BooksBalance, CallInv, ScanInv, ExposureExact, SnapshotsHold, FullScan
<1>. QED  BY <1>1, AccountUnderAdapter, CallInvariant, PTL

(* What a call places is covered but for the last place of a BUY.          *)
LEMMA PlacingIsCovered ==
  ASSUME IInv, CallInv, NEW o \in OrderIds, NEW k \in Tokens, PlaceFor(o, k)
  PROVE  CoveredStep
<1>. DEFINE w == Wanted(k)
            accepted == Affordable(now, k, w.side, w.quantity, w.limit)
            placed == [token |-> k, side |-> w.side, submitted |-> now,
                       requested |-> w.quantity, limit |-> w.limit, filled |-> 0,
                       status |-> IF accepted THEN "PENDING" ELSE "REJECTED"]
<1>1. /\ call # NoCall /\ call.cancel = {} /\ k \in call.tokens
      /\ w.quantity \in Sizes
      /\ PlaceOrder(o, now, k, w.side, w.quantity, w.limit)
  BY DEF PlaceFor
<1>2. w.quantity \in Nat \ {0}
  BY <1>1, SimulatorAssumption
<1>3. orders' = [orders EXCEPT ![o] = placed]
  <2>1. Expired(now) = {}
    BY NothingExpiresNow
  <2>2. Closed(now, {}) = orders
    BY <2>1 DEF Closed, IInv, TypeOK
  <2>. QED  BY <1>1, <2>2 DEF PlaceOrder
<1>4. CASE Buys(k)
  <2>1. w.side = "BUY" /\ w.quantity = BuyQuantity(k) /\ w.limit = BuyLimit(k)
    BY <1>4 DEF Wanted
  <2>2. 2 * (Cost(w.quantity, w.limit) - (cash - ReservedCash)) <= Cost(1, w.limit)
    BY <1>1, <1>2, <2>1, BuysAreCovered
  <2>. HIDE DEF w, accepted
  <2>3. /\ \A p \in OrderIds \ {o} : orders'[p] = orders[p]
        /\ orders'[o].side = w.side
        /\ orders'[o].requested = w.quantity /\ orders'[o].limit = w.limit
    BY <1>3 DEF IInv, TypeOK
  <2>. QED  BY <2>1, <2>2, <2>3 DEF CoveredStep, NewlyRejected, OverByLastPlace
<1>5. CASE ~ Buys(k)
  <2>1. w.side = "SELL" /\ w.quantity = SellQuantity(k)
    BY <1>5 DEF Wanted
  <2>2. accepted
    BY <1>1, <1>2, <1>5, <2>1, SalesAreCovered DEF Affordable
  <2>. HIDE DEF w, accepted
  <2>3. /\ \A p \in OrderIds \ {o} : orders'[p] = orders[p]
        /\ orders'[o].status = "PENDING"
    BY <1>3, <2>2 DEF IInv, TypeOK
  <2>. QED  BY <2>3 DEF CoveredStep, NewlyRejected
<1>. QED  BY <1>4, <1>5

LEMMA AdapterStepsAreCovered ==
  ASSUME IInv, CallInv, [AdapterNext]_allVars
  PROVE  CoveredStep
<1>1. ASSUME NEW t, NEW ids \in SUBSET openIds, CloseOrders(t, ids) PROVE CoveredStep
  BY <1>1, ClosingRejectsNothing
<1>2. ASSUME NEW t \in now .. Horizon, NEW k \in Tokens, NEW price \in Prices,
             NEW available \in Depths, NEW screened \in SUBSET openIds,
             ObserveTrade(t, k, price, available, screened)
      PROVE  CoveredStep
  BY <1>1, <1>2 DEF ObserveTrade, LiquidityEvent
<1>3. ASSUME NEW o \in OrderIds, FillBuy(o) \/ FillSell(o) PROVE CoveredStep
  <2>1. /\ BuyFill(o) \/ SellFill(o)
        /\ ~ Idle /\ o \in event.candidates /\ event.available > 0 /\ IsNext(o)
    BY <1>3 DEF FillBuy, FillSell, BuyFill, SellFill, IsNext
  <2>2. o \in openIds
    BY <2>1 DEF IInv, EventServesOpenOrders
  <2>3. PICK n \in Nat : FillOrder(o, n)
    <3>1. CASE BuyFill(o)
      BY <2>1, <3>1, BuyAmount DEF BuyFill
    <3>2. CASE SellFill(o)
      BY <2>1, <3>2, SellAmount DEF SellFill
    <3>. QED  BY <2>1, <3>1, <3>2
  <2>. QED  BY <2>2, <2>3, FillingRejectsNothing
<1>4. ASSUME NEW action \in {"CALL", "SKIP", "UPDATE", "HOLD", "REDUCE", "CLOSE"},
             NEW k \in Tokens \cup {None}, NEW fraction \in Fractions,
             Decide(action, k, fraction)
      PROVE  CoveredStep
  BY <1>1, <1>4 DEF Decide, RecordPrediction
<1>5. ASSUME NEW o \in OrderIds, CancelPending(o) PROVE CoveredStep
  <2>. DEFINE ids == {o} \cap openIds
  <2>1. CloseOrders(now, ids) /\ ids \in SUBSET openIds
    BY <1>5 DEF CancelPending, CancelOrder
  <2>. HIDE DEF ids
  <2>. QED  BY <1>1, <2>1
<1>6. ASSUME NEW o \in OrderIds, NEW k \in Tokens, PlaceFor(o, k) PROVE CoveredStep
  BY <1>6, PlacingIsCovered
<1>7. ASSUME NEW c \in Conditions, NEW t \in now .. Horizon,
             NEW payouts \in Payouts(c), ResolveMarket(c, t, payouts)
      PROVE  CoveredStep
  <2>1. CloseOrders(t, OpenIn(c)) /\ OpenIn(c) \in SUBSET openIds
    BY <1>7 DEF ResolveMarket, Resolve, OpenIn
  <2>. QED  BY <1>1, <2>1
<1>8. CASE Compact \/ Restore
  <2>1. \A o \in OrderIds : orders'[o] \in {orders[o], NoOrder}
    BY <1>8 DEF Compact, Restore, CompactHistory, Resume
  <2>. QED  BY <2>1 DEF CoveredStep, NewlyRejected, NoOrder
<1>9. CASE \/ \E o \in OrderIds : Pass(o)
           \/ EndTrade
           \/ \E k \in Tokens : NoOrderFor(k)
           \/ EndCall
           \/ UNCHANGED allVars
  <2>1. orders' = orders
    BY <1>9 DEF Pass, PassOver, EndTrade, LiquidityDone, NoOrderFor, EndCall,
                allVars, vars, orderVars
  <2>. QED  BY <2>1 DEF CoveredStep, NewlyRejected
<1>. QED
  BY <1>2, <1>3, <1>4, <1>5, <1>6, <1>7, <1>8, <1>9 DEF AdapterNext

(* The simulator rejects an order of the adapter for nothing but the last  *)
(* place of a BUY for nearly all the cash: each is sized against cash no   *)
(* other order has reserved and shares no other sells, and only the        *)
(* rounding of the quantity can ask for more.                              *)
THEOREM CallsAlwaysCovered == AdapterSpec => CallsAreCovered
<1>1. IInv /\ CallInv /\ [AdapterNext]_allVars => [CoveredStep]_allVars
  BY AdapterStepsAreCovered
<1>2. [CoveredStep]_allVars
        => [\A o \in OrderIds :
              orders'[o] # orders[o] /\ orders'[o].status = "REJECTED" =>
                  LET demanded == Cost(orders'[o].requested, orders'[o].limit)
                  IN  /\ orders'[o].side = "BUY"
                      /\ 2 * (demanded - (cash - ReservedCash))
                             <= Cost(1, orders'[o].limit)]_allVars
  BY DEF CoveredStep, NewlyRejected, OverByLastPlace
<1>. QED
  BY <1>1, <1>2, AccountUnderAdapter, CallInvariant, PTL DEF AdapterSpec, CallsAreCovered
-----------------------------------------------------------------------------
(* Sums over the decisions e of an audit, by the token they name.          *)

Execution == [token: Tokens \cup {None}, requested: Nat,
              filled: Nat, cost: Nat, paid: Nat]

Of(e, S) == {d \in DOMAIN e : e[d].token \in S}
SumOf(e, field, S) == Total([d \in DOMAIN e |-> e[d][field]], Of(e, S))

Amounts == {"filled", "cost", "paid"}

LEMMA SumType ==
  ASSUME NEW e \in Seq(Execution), NEW field \in Amounts, NEW S
  PROVE  /\ \A d \in DOMAIN e : e[d][field] \in Nat
         /\ IsFiniteSet(Of(e, S))
         /\ SumOf(e, field, S) \in Nat
<1>1. \A d \in DOMAIN e : e[d] \in Execution
  OBVIOUS
<1>2. \A x \in Execution : x.filled \in Nat /\ x.cost \in Nat /\ x.paid \in Nat
  BY DEF Execution
<1>3. \A x \in Execution : x[field] \in Nat
  BY <1>2 DEF Amounts
<1>4. IsFiniteSet(DOMAIN e)
  <2>1. Len(e) \in Nat /\ DOMAIN e = 1 .. Len(e)
    OBVIOUS
  <2>. QED  BY <2>1, FS_Interval
<1>5. IsFiniteSet(Of(e, S))
  BY <1>4, FS_Subset DEF Of
<1>. DEFINE amount == [d \in DOMAIN e |-> e[d][field]]
<1>6. \A d \in Of(e, S) : amount[d] \in Nat
  BY <1>1, <1>3 DEF Of
<1>7. Total(amount, Of(e, S)) \in Nat
  <2>. HIDE DEF amount
  <2>. QED  BY <1>5, <1>6, TotalType
<1>. QED  BY <1>1, <1>3, <1>5, <1>7 DEF SumOf

(* A sum depends on the decisions it is about, and on nothing else.        *)
LEMMA SumSame ==
  ASSUME NEW e, NEW f, NEW field, NEW S, Of(f, S) = Of(e, S),
         \A d \in Of(e, S) : f[d][field] = e[d][field]
  PROVE  SumOf(f, field, S) = SumOf(e, field, S)
<1>. DEFINE before == [d \in DOMAIN e |-> e[d][field]]
            after == [d \in DOMAIN f |-> f[d][field]]
<1>1. Of(e, S) \subseteq DOMAIN e /\ Of(e, S) \subseteq DOMAIN f
  BY DEF Of
<1>2. \A d \in Of(e, S) : after[d] = before[d]
  BY <1>1
<1>. HIDE DEF before, after
<1>3. Total(after, Of(e, S)) = Total(before, Of(e, S))
  BY <1>2, TotalSame
<1>. QED  BY <1>3 DEF SumOf, before, after

(* One decision, taken out of a sum.                                       *)
SumWithout(e, field, S, d) ==
    Total([c \in DOMAIN e |-> e[c][field]], Of(e, S) \ {d})

LEMMA SumTakenOut ==
  ASSUME NEW e \in Seq(Execution), NEW field \in Amounts, NEW S, NEW d \in Of(e, S)
  PROVE  /\ SumOf(e, field, S) = e[d][field] + SumWithout(e, field, S, d)
         /\ SumWithout(e, field, S, d) \in Nat
<1>. DEFINE amount == [c \in DOMAIN e |-> e[c][field]]
<1>1. IsFiniteSet(Of(e, S))
  BY SumType
<1>2. \A c \in Of(e, S) : amount[c] \in Nat
  BY SumType DEF Of
<1>3. amount[d] = e[d][field]
  BY DEF Of
<1>. HIDE DEF amount
<1>4. /\ Total(amount, Of(e, S)) = amount[d] + Total(amount, Of(e, S) \ {d})
      /\ Total(amount, Of(e, S) \ {d}) \in Nat
  BY <1>1, <1>2, TotalRemove
<1>. QED  BY <1>3, <1>4 DEF SumOf, SumWithout, amount

LEMMA SumWithoutSame ==
  ASSUME NEW e, NEW f, NEW field, NEW S, NEW d, Of(f, S) = Of(e, S),
         \A c \in Of(e, S) \ {d} : f[c][field] = e[c][field]
  PROVE  SumWithout(f, field, S, d) = SumWithout(e, field, S, d)
<1>. DEFINE before == [c \in DOMAIN e |-> e[c][field]]
            after == [c \in DOMAIN f |-> f[c][field]]
            rest == Of(e, S) \ {d}
<1>1. \A c \in rest : after[c] = before[c]
  BY DEF Of
<1>. HIDE DEF before, after, rest
<1>2. Total(after, rest) = Total(before, rest)
  BY <1>1, TotalSame
<1>. QED  BY <1>2 DEF SumWithout, before, after, rest

(* Sums of different tokens add up.                                        *)
LEMMA SumSplit ==
  ASSUME NEW e \in Seq(Execution), NEW field \in Amounts,
         NEW S, NEW T, S \cap T = {}
  PROVE  SumOf(e, field, S \cup T) = SumOf(e, field, S) + SumOf(e, field, T)
<1>. DEFINE amount == [d \in DOMAIN e |-> e[d][field]]
            D == Of(e, S \cup T)
<1>1. Of(e, S) \in SUBSET D /\ Of(e, T) = D \ Of(e, S)
  BY DEF Of
<1>2. IsFiniteSet(D)
  BY SumType
<1>3. \A d \in D : amount[d] \in Nat
  BY SumType DEF Of
<1>. HIDE DEF amount, D
<1>4. Total(amount, D) = Total(amount, Of(e, S)) + Total(amount, D \ Of(e, S))
  BY <1>1, <1>2, <1>3, TotalSplit
<1>. QED  BY <1>1, <1>4 DEF SumOf, amount, D

(* A sum over tokens is the total of the sums of each.                     *)
LEMMA SumByToken ==
  ASSUME NEW e \in Seq(Execution), NEW field \in Amounts,
         NEW S, NEW n, \A k \in S : n[k] = SumOf(e, field, {k})
  PROVE  SumOf(e, field, S) = Total(n, S)
<1>. DEFINE amount == [d \in DOMAIN e |-> e[d][field]]
            D == Of(e, S)
            part == [k \in S |-> Of(e, {k})]
<1>1. IsFiniteSet(D)
  BY SumType
<1>2. \A d \in D : amount[d] \in Nat
  BY SumType DEF Of
<1>3. \A d \in D : \E k \in S : d \in part[k]
  BY DEF Of
<1>4. /\ part \in [S -> SUBSET D]
      /\ \A k, j \in S : k # j => part[k] \cap part[j] = {}
  BY DEF Of
<1>5. \A k \in S : n[k] = Total(amount, part[k])
  BY DEF SumOf
<1>. HIDE DEF amount, D, part
<1>6. Total(amount, D) = Total(n, S)
  BY <1>1, <1>2, <1>3, <1>4, <1>5, TotalByParts
<1>. QED  BY <1>6 DEF SumOf, amount, D

(* A decision that has nothing yet changes no sum.                         *)
LEMMA SumAppended ==
  ASSUME NEW e \in Seq(Execution), NEW field \in Amounts, NEW S,
         NEW x \in Execution, x[field] = 0
  PROVE  SumOf(Append(e, x), field, S) = SumOf(e, field, S)
<1>. DEFINE f == Append(e, x)
            new == Len(e) + 1
<1>1. /\ f \in Seq(Execution) /\ new \in Nat
      /\ DOMAIN e = 1 .. Len(e) /\ Len(e) \in Nat
      /\ DOMAIN f = 1 .. new /\ f[new] = x
      /\ \A d \in DOMAIN e : f[d] = e[d]
  OBVIOUS
<1>. HIDE DEF f
<1>2. new \in DOMAIN f /\ new \notin DOMAIN e /\ DOMAIN f = DOMAIN e \cup {new}
  BY <1>1
<1>. HIDE DEF new
<1>3. Of(e, S) = Of(f, S) \ {new}
  BY <1>1, <1>2 DEF Of
<1>4. CASE x.token \notin S
  <2>1. Of(f, S) = Of(e, S)
    BY <1>1, <1>3, <1>4 DEF Of
  <2>2. \A d \in Of(e, S) : f[d][field] = e[d][field]
    BY <1>1 DEF Of
  <2>3. SumOf(f, field, S) = SumOf(e, field, S)
    BY <2>1, <2>2, SumSame
  <2>. QED  BY <2>3 DEF f
<1>5. CASE x.token \in S
  <2>. DEFINE before == [d \in DOMAIN e |-> e[d][field]]
              after == [d \in DOMAIN f |-> f[d][field]]
  <2>1. new \in Of(f, S)
    BY <1>1, <1>2, <1>5 DEF Of
  <2>2. IsFiniteSet(Of(f, S)) /\ \A d \in Of(f, S) : after[d] \in Nat
    BY <1>1, SumType DEF Of
  <2>3. \A d \in Of(e, S) : after[d] = before[d]
    BY <1>1, <1>2 DEF Of
  <2>4. after[new] = 0
    BY <1>1, <1>2
  <2>. HIDE DEF before, after
  <2>5. /\ Total(after, Of(f, S)) = after[new] + Total(after, Of(f, S) \ {new})
        /\ Total(after, Of(f, S) \ {new}) \in Nat
    BY <2>1, <2>2, TotalRemove
  <2>6. Total(after, Of(e, S)) = Total(before, Of(e, S))
    BY <2>3, TotalSame
  <2>7. Total(after, Of(f, S)) = Total(before, Of(e, S))
    BY <1>3, <2>4, <2>5, <2>6
  <2>. QED  BY <2>7 DEF SumOf, before, after, f
<1>. QED  BY <1>4, <1>5
-----------------------------------------------------------------------------
(* What the attribution relies on.                                         *)

Recorded == executions \in Seq(Execution) /\ Len(executions) = decided

(* As long as the attribution goes on, every open order buys what the      *)
(* decision it came from called, in a market not resolved.                 *)
OrdersRecorded ==
    \A o \in openIds :
        /\ orders[o].side = "BUY"
        /\ orders[o].token \in Tokens \ Settled
        /\ source[o] \in DOMAIN executions
        /\ executions[source[o]].token = orders[o].token

CallRecorded ==
    call # NoCall =>
        /\ call.action = "CALL"
        /\ call.decision \in DOMAIN executions
        /\ \A k \in call.tokens : executions[call.decision].token = k

Attributed ==
    /\ \A k \in Tokens \ Settled :
          /\ SumOf(executions, "filled", {k}) = shares[k]
          /\ SumOf(executions, "cost", {k}) = basis[k]
    /\ SumOf(executions, "paid", Settled)
          = realized + SumOf(executions, "cost", Settled)

TradeUnresolved == trade # NoTrade => trade.condition \notin resolved

AttributionInv ==
    /\ source \in [OrderIds -> Nat]
    /\ TradeUnresolved
    /\ executions # Refused => Recorded /\ OrdersRecorded /\ CallRecorded /\ Attributed

(* Steps that change neither the decisions nor the account, and may only   *)
(* close orders and go on with the call.                                   *)
LEMMA QuietAttribution ==
  ASSUME AttributionInv,
         UNCHANGED <<executions, resolved, decided, shares, basis, realized>>,
         source' \in [OrderIds -> Nat],
         openIds' \subseteq openIds,
         \A o \in openIds' : /\ orders'[o].token = orders[o].token
                             /\ orders'[o].side = orders[o].side
                             /\ source'[o] = source[o],
         call' # NoCall => /\ call # NoCall
                           /\ call'.action = call.action
                           /\ call'.decision = call.decision
                           /\ call'.tokens \subseteq call.tokens,
         trade' \notin {NoTrade, trade} => trade'.condition \notin resolved
  PROVE  AttributionInv'
<1>1. Settled' = Settled
  BY DEF Settled
<1>2. TradeUnresolved'
  BY DEF AttributionInv, TradeUnresolved
<1>3. ASSUME executions # Refused
      PROVE  Recorded' /\ OrdersRecorded' /\ CallRecorded' /\ Attributed'
  <2>1. Recorded /\ OrdersRecorded /\ CallRecorded /\ Attributed
    BY <1>3 DEF AttributionInv
  <2>2. Recorded'
    BY <2>1 DEF Recorded
  <2>3. OrdersRecorded'
    BY <1>1, <2>1 DEF OrdersRecorded
  <2>4. CallRecorded'
    BY <2>1 DEF CallRecorded
  <2>5. Attributed'
    BY <1>1, <2>1 DEF Attributed
  <2>. QED  BY <2>2, <2>3, <2>4, <2>5
<1>. QED  BY <1>2, <1>3 DEF AttributionInv

(* The simulator serves only BUYs, which add what they fill and cost to    *)
(* the decision they came from.                                            *)
LEMMA FillBuyAttribution ==
  ASSUME IInv, CallInv, AttributionInv, NEW o \in OrderIds, FillBuy(o)
  PROVE  AttributionInv'
<1>. DEFINE k == event.token
            price == ExecutionPrice("BUY", event.price)
            n == FillShares(o, price)
            cost == Cost(n, price)
            d == source[o]
<1>1. /\ ~ Idle /\ o \in event.candidates /\ IsNext(o) /\ event.available > 0
      /\ orders[o].side = "BUY" /\ WithinLimit(o, price)
      /\ FillOrder(o, n) /\ Served(o, n)
      /\ shares' = [shares EXCEPT ![k] = @ + n]
      /\ basis' = [basis EXCEPT ![k] = @ + cost]
      /\ UNCHANGED <<realized, resolved, trade, call, decided, source>>
      /\ executions' = IF executions = Refused THEN Refused
                       ELSE [executions EXCEPT ![d].filled = @ + n, ![d].cost = @ + cost]
  BY DEF FillBuy, BuyFill, IsNext, IndexFill
<1>2. n \in Nat \ {0} /\ n <= event.available /\ cost \in Nat
  BY <1>1, BuyAmount
<1>. HIDE DEF n, cost
<1>3. /\ openIds' \subseteq openIds
      /\ \A p \in openIds : /\ orders'[p].token = orders[p].token
                            /\ orders'[p].side = orders[p].side
  BY <1>1, <1>2, FillsKeepSides DEF CallInv
<1>5. /\ o \in openIds /\ orders[o].token = k /\ k \in Tokens
      /\ shares \in [Tokens -> Nat] /\ basis \in [Tokens -> Nat]
  BY <1>1 DEF IInv, EventServesOpenOrders, TypeOK, Idle, Event
<1>6. Settled' = Settled
  BY <1>1 DEF Settled
<1>7. TradeUnresolved' /\ source' \in [OrderIds -> Nat]
  BY <1>1 DEF AttributionInv, TradeUnresolved
<1>8. ASSUME executions' # Refused
      PROVE  Recorded' /\ OrdersRecorded' /\ CallRecorded' /\ Attributed'
  <2>. DEFINE e == executions
              f == executions'
              x == [e[d] EXCEPT !.filled = e[d].filled + n, !.cost = e[d].cost + cost]
  <2>1. Recorded /\ OrdersRecorded /\ CallRecorded /\ Attributed /\ e # Refused
    BY <1>1, <1>8 DEF AttributionInv
  <2>2. e \in Seq(Execution) /\ d \in DOMAIN e /\ e[d].token = k /\ k \notin Settled
    BY <1>5, <2>1 DEF Recorded, OrdersRecorded
  <2>3. e[d] \in Execution
    BY <2>2
  <2>4. f = [e EXCEPT ![d] = x]
    BY <1>1, <2>1, <2>2
  <2>. DEFINE y == e[d]
              a == y.filled + n
              b == y.cost + cost
  <2>5. /\ x \in Execution /\ x.token = y.token /\ x.paid = y.paid
        /\ x.filled = a /\ x.cost = b
    <3>1. y \in Execution /\ x = [y EXCEPT !.filled = a, !.cost = b]
      BY <2>3
    <3>2. a \in Nat /\ b \in Nat
      BY <1>2, <3>1 DEF Execution
    <3>. DEFINE z == [y EXCEPT !.filled = a]
    <3>. HIDE DEF x, y, a, b
    <3>3. /\ z \in Execution /\ z.token = y.token /\ z.paid = y.paid /\ z.filled = a
      BY <3>1, <3>2 DEF Execution
    <3>4. x = [z EXCEPT !.cost = b]
      BY <3>1
    <3>. HIDE DEF z
    <3>. QED  BY <3>2, <3>3, <3>4 DEF Execution
  <2>. HIDE DEF x, e, f, d
  <2>6. /\ f \in Seq(Execution) /\ Len(f) = Len(e) /\ DOMAIN f = DOMAIN e
        /\ f[d] = x /\ \A c \in DOMAIN e \ {d} : f[c] = e[c]
    BY <2>2, <2>4, <2>5
  <2>7. \A c \in DOMAIN e : f[c].token = e[c].token /\ f[c].paid = e[c].paid
    BY <2>2, <2>5, <2>6
  <2>8. \A S : Of(f, S) = Of(e, S)
    BY <2>6, <2>7 DEF Of
  <2>9. ASSUME NEW S, k \notin S
        PROVE  SumOf(f, "filled", S) = SumOf(e, "filled", S) /\ SumOf(f, "cost", S) = SumOf(e, "cost", S)
    <3>1. \A c \in Of(e, S) : f[c] = e[c]
      BY <2>2, <2>6, <2>9 DEF Of
    <3>. QED  BY <2>8, <3>1, SumSame
  <2>10. SumOf(f, "filled", {k}) = SumOf(e, "filled", {k}) + n
    <3>1. /\ d \in Of(e, {k}) /\ d \in Of(f, {k})
          /\ \A c \in Of(e, {k}) \ {d} : f[c].filled = e[c].filled
          /\ Of(f, {k}) = Of(e, {k})
      BY <2>2, <2>6, <2>8 DEF Of
    <3>2. f[d].filled = e[d].filled + n /\ e[d].filled \in Nat
      BY <2>3, <2>5, <2>6 DEF Execution
    <3>3. /\ SumOf(e, "filled", {k}) = e[d].filled + SumWithout(e, "filled", {k}, d)
          /\ SumWithout(e, "filled", {k}, d) \in Nat
      BY <2>2, <3>1, SumTakenOut DEF Amounts
    <3>4. SumOf(f, "filled", {k}) = f[d].filled + SumWithout(f, "filled", {k}, d)
      BY <2>6, <3>1, SumTakenOut DEF Amounts
    <3>5. SumWithout(f, "filled", {k}, d) = SumWithout(e, "filled", {k}, d)
      BY <3>1, SumWithoutSame
    <3>. QED  BY <1>2, <3>2, <3>3, <3>4, <3>5
  <2>11. SumOf(f, "cost", {k}) = SumOf(e, "cost", {k}) + cost
    <3>1. /\ d \in Of(e, {k}) /\ d \in Of(f, {k})
          /\ \A c \in Of(e, {k}) \ {d} : f[c].cost = e[c].cost
          /\ Of(f, {k}) = Of(e, {k})
      BY <2>2, <2>6, <2>8 DEF Of
    <3>2. f[d].cost = e[d].cost + cost /\ e[d].cost \in Nat
      BY <2>3, <2>5, <2>6 DEF Execution
    <3>3. /\ SumOf(e, "cost", {k}) = e[d].cost + SumWithout(e, "cost", {k}, d)
          /\ SumWithout(e, "cost", {k}, d) \in Nat
      BY <2>2, <3>1, SumTakenOut DEF Amounts
    <3>4. SumOf(f, "cost", {k}) = f[d].cost + SumWithout(f, "cost", {k}, d)
      BY <2>6, <3>1, SumTakenOut DEF Amounts
    <3>5. SumWithout(f, "cost", {k}, d) = SumWithout(e, "cost", {k}, d)
      BY <3>1, SumWithoutSame
    <3>. QED  BY <1>2, <3>2, <3>3, <3>4, <3>5
  <2>12. SumOf(f, "paid", Settled) = SumOf(e, "paid", Settled)
    <3>1. \A c \in Of(e, Settled) : f[c].paid = e[c].paid
      BY <2>7 DEF Of
    <3>. QED  BY <2>8, <3>1, SumSame
  <2>13. ASSUME NEW j \in Tokens \ Settled
         PROVE  SumOf(f, "filled", {j}) = shares'[j] /\ SumOf(f, "cost", {j}) = basis'[j]
    <3>1. SumOf(e, "filled", {j}) = shares[j] /\ SumOf(e, "cost", {j}) = basis[j]
      BY <2>1 DEF Attributed, e
    <3>2. CASE j = k
      BY <1>1, <1>5, <2>10, <2>11, <3>1, <3>2
    <3>3. CASE j # k
      <4>1. shares'[j] = shares[j] /\ basis'[j] = basis[j] /\ k \notin {j}
        BY <1>1, <1>5, <3>3
      <4>. QED  BY <2>9, <3>1, <4>1
    <3>. QED  BY <3>2, <3>3
  <2>14. SumOf(f, "paid", Settled) = realized' + SumOf(f, "cost", Settled)
    BY <1>1, <2>1, <2>2, <2>9, <2>12 DEF Attributed, e
  <2>15. Attributed'
    BY <1>6, <2>13, <2>14 DEF Attributed, f
  <2>16. Recorded'
    BY <1>1, <2>1, <2>6 DEF Recorded, e, f
  <2>17. OrdersRecorded'
    BY <1>1, <1>3, <1>6, <2>1, <2>6, <2>7 DEF OrdersRecorded, e, f
  <2>18. CallRecorded'
    BY <1>1, <2>1, <2>6, <2>7 DEF CallRecorded, CallInv, CallTargets, e, f
  <2>. QED  BY <2>15, <2>16, <2>17, <2>18
<1>. QED  BY <1>7, <1>8 DEF AttributionInv

(* Steps that only close orders, or leave them as they are.                *)
LEMMA ClosingAttribution ==
  ASSUME IInv, CallInv, AttributionInv,
         \/ \E t \in now .. Horizon, k \in Tokens, price \in Prices,
               available \in Depths, screened \in SUBSET openIds :
               ObserveTrade(t, k, price, available, screened)
         \/ \E o \in OrderIds : Pass(o) \/ CancelPending(o)
         \/ EndTrade
         \/ \E k \in Tokens : NoOrderFor(k)
         \/ EndCall
         \/ Compact
         \/ Restore
         \/ UNCHANGED allVars
  PROVE  AttributionInv'
<1>1. source \in [OrderIds -> Nat] /\ openIds \subseteq OrderIds
  BY DEF AttributionInv, IInv, TypeOK
<1>2. ASSUME NEW t, NEW k \in Tokens, NEW price, NEW available, NEW screened,
             ObserveTrade(t, k, price, available, screened)
      PROVE  AttributionInv'
  <2>1. /\ CloseOrders(t, {}) /\ {} \in SUBSET openIds
        /\ UNCHANGED <<shares, basis, realized, resolved, decided, source, executions>>
        /\ call' = NoCall
        /\ trade' # NoTrade => trade'.condition \notin resolved
    BY <1>2 DEF ObserveTrade, LiquidityEvent, auditVars
  <2>2. openIds' \subseteq openIds /\ \A o \in openIds' : orders'[o] = orders[o]
    BY <2>1, CloseOrdersStep DEF IInv
  <2>. QED  BY <1>1, <2>1, <2>2, QuietAttribution
<1>3. ASSUME NEW o \in OrderIds, CancelPending(o)
      PROVE  AttributionInv'
  <2>. DEFINE ids == {o} \cap openIds
  <2>1. /\ CloseOrders(now, ids) /\ ids \in SUBSET openIds
        /\ UNCHANGED <<shares, basis, realized, resolved, decided, source, executions, trade>>
        /\ call # NoCall /\ call' = [call EXCEPT !.cancel = call.cancel \ {o}]
    BY <1>3 DEF CancelPending, CancelOrder, auditVars, portfolioVars
  <2>2. openIds' \subseteq openIds /\ \A p \in openIds' : orders'[p] = orders[p]
    BY <2>1, CloseOrdersStep DEF IInv
  <2>3. call \in Call
    BY <2>1 DEF CallInv, CallTargets
  <2>4. /\ call'.action = call.action /\ call'.decision = call.decision
        /\ call'.tokens = call.tokens
    BY <2>1, <2>3 DEF Call
  <2>. QED  BY <1>1, <2>1, <2>2, <2>4, QuietAttribution
<1>4. ASSUME NEW k \in Tokens, NoOrderFor(k)
      PROVE  AttributionInv'
  <2>1. /\ UNCHANGED <<orders, openIds, shares, basis, realized, resolved, decided,
                       source, executions, trade>>
        /\ call # NoCall /\ call' = [call EXCEPT !.tokens = call.tokens \ {k}]
    BY <1>4 DEF NoOrderFor, vars, orderVars, auditVars, portfolioVars
  <2>2. call \in Call
    BY <2>1 DEF CallInv, CallTargets
  <2>3. /\ call'.action = call.action /\ call'.decision = call.decision
        /\ call'.tokens = call.tokens \ {k}
    BY <2>1, <2>2 DEF Call
  <2>. QED  BY <1>1, <2>1, <2>3, QuietAttribution
<1>5. CASE Compact \/ Restore
  <2>1. /\ openIds' = openIds /\ \A o \in openIds : orders'[o] = orders[o]
    <3>1. \A o \in openIds : o \in OrderIds /\ orders[o].status \in OPEN_ORDER_STATUSES
      BY DEF IInv, OpenOrdersTracked
    <3>2. Reopened = openIds
      BY DEF IInv, OpenOrdersTracked, Reopened
    <3>. QED  BY <1>5, <3>1, <3>2 DEF Compact, Restore, CompactHistory, Resume
  <2>2. /\ UNCHANGED <<shares, basis, realized, resolved, decided, executions>>
        /\ call' = NoCall /\ trade' = NoTrade
    BY <1>5 DEF Compact, Restore, CompactHistory, Resume, portfolioVars, auditVars
  <2>3. source' \in [OrderIds -> Nat] /\ \A o \in openIds : source'[o] = source[o]
    <3>1. CASE Restore
      BY <1>1, <3>1 DEF Restore, auditVars
    <3>2. CASE Compact
      <4>1. source' = [o \in OrderIds |-> IF orders'[o] = NoOrder THEN 0 ELSE source[o]]
        BY <3>2 DEF Compact
      <4>2. \A o \in openIds : orders'[o] # NoOrder
        BY <2>1 DEF IInv, OpenOrdersTracked, NoOrder, OPEN_ORDER_STATUSES
      <4>. QED  BY <1>1, <4>1, <4>2
    <3>. QED  BY <1>5, <3>1, <3>2
  <2>. QED  BY <2>1, <2>2, <2>3, QuietAttribution
<1>6. CASE (\E o \in OrderIds : Pass(o)) \/ EndTrade \/ EndCall \/ UNCHANGED allVars
  <2>1. /\ UNCHANGED <<orders, openIds, shares, basis, realized, resolved, decided,
                       source, executions, trade>>
        /\ call' \in {NoCall, call}
    BY <1>6 DEF Pass, PassOver, EndTrade, LiquidityDone, EndCall, allVars, vars,
                orderVars, portfolioVars, adapterVars, auditVars
  <2>. QED  BY <1>1, <2>1, QuietAttribution
<1>. QED  BY <1>2, <1>3, <1>4, <1>5, <1>6

(* No SELL is ever open while the attribution goes on.                     *)
LEMMA FillSellAttribution ==
  ASSUME IInv, CallInv, AttributionInv, NEW o \in OrderIds, FillSell(o)
  PROVE  AttributionInv'
<1>1. o \in openIds /\ orders[o].side = "SELL" /\ UNCHANGED adapterVars
  BY DEF FillSell, SellFill, IsNext, IInv, EventServesOpenOrders
<1>2. executions = Refused /\ executions' = Refused
  BY <1>1 DEF AttributionInv, OrdersRecorded, adapterVars, auditVars
<1>. QED  BY <1>1, <1>2 DEF AttributionInv, TradeUnresolved, adapterVars, auditVars

(* A decision begins with nothing attributed to it.                        *)
LEMMA DecideAttribution ==
  ASSUME IInv, CallInv, AttributionInv,
         NEW action \in {"CALL", "SKIP", "UPDATE", "HOLD", "REDUCE", "CLOSE"},
         NEW k \in Tokens \cup {None}, NEW fraction \in Fractions,
         Decide(action, k, fraction)
  PROVE  AttributionInv'
<1>. DEFINE c == trade.condition
            x == [NoExecution EXCEPT !.token = IF action = "CALL" THEN k ELSE None]
            tokens == IF action \in {"REDUCE", "CLOSE"} THEN PositionsIn(c)
                      ELSE {k} \ {None}
<1>1. /\ RecordPrediction(now) /\ decided' = decided + 1
      /\ UNCHANGED <<resolved, trade, source>>
      /\ call' = IF action \in {"SKIP", "HOLD"} THEN NoCall
                 ELSE [action |-> action, fraction |-> fraction,
                       decision |-> decided + 1, cancel |-> Pending(c),
                       tokens |-> tokens]
      /\ executions' = IF executions = Refused \/ action \notin {"CALL", "SKIP"}
                       THEN Refused ELSE Append(executions, x)
  BY DEF Decide, IndexDecision
<1>2. CloseOrders(now, {}) /\ {} \in SUBSET openIds /\ UNCHANGED <<shares, basis, realized>>
  BY <1>1 DEF RecordPrediction, portfolioVars
<1>3. openIds' \subseteq openIds /\ \A o \in openIds' : orders'[o] = orders[o]
  BY <1>2, CloseOrdersStep DEF IInv
<1>4. TradeUnresolved' /\ source' \in [OrderIds -> Nat]
  BY <1>1 DEF AttributionInv, TradeUnresolved
<1>5. x \in Execution /\ x.filled = 0 /\ x.cost = 0 /\ x.paid = 0
      /\ (action = "CALL" => x.token = k)
  BY DEF NoExecution, Execution
<1>6. Settled' = Settled
  BY <1>1 DEF Settled
<1>7. ASSUME executions' # Refused
      PROVE  Recorded' /\ OrdersRecorded' /\ CallRecorded' /\ Attributed'
  <2>. DEFINE e == executions
              f == executions'
  <2>1. /\ Recorded /\ OrdersRecorded /\ CallRecorded /\ Attributed
        /\ action \in {"CALL", "SKIP"} /\ f = Append(e, x)
    BY <1>1, <1>7 DEF AttributionInv
  <2>. HIDE DEF x
  <2>2. /\ e \in Seq(Execution) /\ Len(e) = decided /\ decided \in Nat
    BY <2>1 DEF Recorded
  <2>3. /\ f \in Seq(Execution) /\ Len(f) = decided + 1
        /\ decided + 1 \in DOMAIN f /\ f[decided + 1] = x
        /\ \A d \in DOMAIN e : d \in DOMAIN f /\ f[d] = e[d]
    BY <1>5, <2>1, <2>2
  <2>4. \A S : /\ SumOf(f, "filled", S) = SumOf(e, "filled", S)
               /\ SumOf(f, "cost", S) = SumOf(e, "cost", S)
               /\ SumOf(f, "paid", S) = SumOf(e, "paid", S)
    BY <1>5, <2>1, <2>2, SumAppended DEF Amounts
  <2>. HIDE DEF e, f
  <2>5. Recorded'
    BY <1>1, <2>3 DEF Recorded, f
  <2>6. OrdersRecorded'
    BY <1>1, <1>3, <1>6, <2>1, <2>3 DEF OrdersRecorded, e, f
  <2>7. Attributed'
    BY <1>2, <1>6, <2>1, <2>4 DEF Attributed, e, f
  <2>8. CallRecorded'
    <3>1. SUFFICES ASSUME call' # NoCall PROVE CallRecorded'
      BY DEF CallRecorded
    <3>2. action = "CALL"
      BY <1>1, <2>1, <3>1
    <3>3. /\ call'.action = "CALL" /\ call'.decision = decided + 1
          /\ call'.tokens = {k} \ {None}
      BY <1>1, <3>2
    <3>. QED  BY <1>5, <2>3, <3>2, <3>3 DEF CallRecorded, f
  <2>. QED  BY <2>5, <2>6, <2>7, <2>8
<1>. QED  BY <1>4, <1>7 DEF AttributionInv

(* An order is placed for the decision at hand, whose token it buys.       *)
LEMMA PlaceForAttribution ==
  ASSUME IInv, CallInv, AttributionInv,
         NEW o \in OrderIds, NEW k \in Tokens, PlaceFor(o, k)
  PROVE  AttributionInv'
<1>. DEFINE w == Wanted(k)
            d == call.decision
            quantity == w.quantity
<1>1. /\ call # NoCall /\ k \in call.tokens
      /\ quantity \in Sizes /\ w.limit \in Limits
      /\ PlaceOrder(o, now, k, w.side, quantity, w.limit)
      /\ call' = [call EXCEPT !.tokens = call.tokens \ {k}]
      /\ source' = [source EXCEPT ![o] = d]
      /\ executions' = IF executions = Refused \/ w.side = "SELL" THEN Refused
                       ELSE [executions EXCEPT ![d].requested = @ + quantity]
      /\ UNCHANGED <<resolved, trade, decided>>
  BY DEF PlaceFor, IndexOrder
<1>2. /\ call \in Call /\ trade # NoTrade /\ k \in TokensOf(trade.condition)
  BY <1>1 DEF CallInv, CallTargets
<1>3. d \in Nat /\ quantity \in Nat
  BY <1>1, <1>2, SimulatorAssumption DEF Call
<1>4. /\ call'.action = call.action /\ call'.decision = d
      /\ call'.tokens = call.tokens \ {k}
  BY <1>1, <1>2 DEF Call
<1>. HIDE DEF w, quantity
<1>5. /\ UNCHANGED <<shares, basis, realized>>
      /\ orders'[o].token = k /\ orders'[o].side = w.side
      /\ openIds' \subseteq (openIds \ Expired(now)) \cup {o}
      /\ \A p \in openIds \ (Expired(now) \cup {o}) : orders'[p] = orders[p]
  BY <1>1 DEF PlaceOrder, portfolioVars, Closed, IInv, TypeOK
<1>6. Settled' = Settled
  BY <1>1 DEF Settled
<1>7. TradeUnresolved' /\ source' \in [OrderIds -> Nat]
  BY <1>1, <1>3 DEF AttributionInv, TradeUnresolved
<1>8. k \notin Settled
  BY <1>2 DEF AttributionInv, TradeUnresolved, Settled, TokensOf
<1>9. ASSUME executions' # Refused
      PROVE  Recorded' /\ OrdersRecorded' /\ CallRecorded' /\ Attributed'
  <2>. DEFINE e == executions
              f == executions'
              x == [e[d] EXCEPT !.requested = e[d].requested + quantity]
  <2>1. /\ Recorded /\ OrdersRecorded /\ CallRecorded /\ Attributed /\ w.side # "SELL"
        /\ e # Refused
    BY <1>1, <1>9 DEF AttributionInv
  <2>2. /\ e \in Seq(Execution) /\ d \in DOMAIN e /\ e[d].token = k /\ e[d] \in Execution
    BY <1>1, <2>1 DEF Recorded, CallRecorded
  <2>3. w.side = "BUY"
    BY <2>1 DEF w, Wanted
  <2>4. f = [e EXCEPT ![d] = x]
    BY <1>1, <2>1, <2>2
  <2>5. /\ x \in Execution /\ x.token = e[d].token /\ x.paid = e[d].paid
        /\ x.filled = e[d].filled /\ x.cost = e[d].cost
    <3>. DEFINE y == e[d]
    <3>1. y \in Execution /\ x = [y EXCEPT !.requested = y.requested + quantity]
      BY <2>2
    <3>. HIDE DEF x, y
    <3>2. y.requested + quantity \in Nat
      BY <1>3, <3>1 DEF Execution
    <3>3. /\ x \in Execution /\ x.token = y.token /\ x.paid = y.paid
          /\ x.filled = y.filled /\ x.cost = y.cost
      BY <3>1, <3>2 DEF Execution
    <3>. QED  BY <3>3 DEF y
  <2>. HIDE DEF x, e, f, d
  <2>6. /\ f \in Seq(Execution) /\ Len(f) = Len(e) /\ DOMAIN f = DOMAIN e
        /\ f[d] = x /\ \A c \in DOMAIN e \ {d} : f[c] = e[c]
    BY <2>2, <2>4, <2>5
  <2>7. \A c \in DOMAIN e : /\ f[c].token = e[c].token /\ f[c].paid = e[c].paid
                            /\ f[c].filled = e[c].filled /\ f[c].cost = e[c].cost
    BY <2>5, <2>6
  <2>8. \A S : Of(f, S) = Of(e, S)
    BY <2>6, <2>7 DEF Of
  <2>9. \A S : /\ SumOf(f, "filled", S) = SumOf(e, "filled", S)
               /\ SumOf(f, "cost", S) = SumOf(e, "cost", S)
               /\ SumOf(f, "paid", S) = SumOf(e, "paid", S)
    <3>1. \A S : \A c \in Of(e, S) : /\ f[c].filled = e[c].filled
                                     /\ f[c].cost = e[c].cost
                                     /\ f[c].paid = e[c].paid
      BY <2>7 DEF Of
    <3>. QED  BY <2>8, <3>1, SumSame
  <2>10. Recorded'
    BY <1>1, <2>1, <2>6 DEF Recorded, e, f
  <2>11. Attributed'
    BY <1>5, <1>6, <2>1, <2>9 DEF Attributed, e, f
  <2>12. CallRecorded'
    BY <1>1, <1>4, <2>1, <2>6, <2>7 DEF CallRecorded, d, e, f
  <2>13. OrdersRecorded'
    <3>1. SUFFICES ASSUME NEW p \in openIds'
                   PROVE  /\ orders'[p].side = "BUY"
                          /\ orders'[p].token \in Tokens \ Settled
                          /\ source'[p] \in DOMAIN f
                          /\ f[source'[p]].token = orders'[p].token
      BY <1>6 DEF OrdersRecorded, f
    <3>2. source \in [OrderIds -> Nat]
      BY DEF AttributionInv
    <3>3. CASE p = o
      <4>1. source'[o] = d
        BY <1>1, <3>2
      <4>. QED  BY <1>5, <1>8, <2>2, <2>3, <2>5, <2>6, <3>3, <4>1
    <3>4. CASE p # o
      <4>1. p \in openIds /\ orders'[p] = orders[p]
        BY <1>5, <3>1, <3>4
      <4>2. source'[p] = source[p]
        BY <1>1, <3>2, <3>4, <4>1 DEF IInv, TypeOK
      <4>. QED  BY <2>1, <2>6, <2>7, <4>1, <4>2 DEF OrdersRecorded, e
    <3>. QED  BY <3>3, <3>4
  <2>. QED  BY <2>10, <2>11, <2>12, <2>13
<1>. QED  BY <1>7, <1>9 DEF AttributionInv

(* What a resolution pays to the decisions is what it pays to the account. *)
LEMMA ResolveAttribution ==
  ASSUME IInv, CallInv, AttributionInv, NEW c \in Conditions, NEW t,
         NEW payouts \in Payouts(c), ResolveMarket(c, t, payouts)
  PROVE  AttributionInv'
<1>. DEFINE settled == TokensOf(c)
            payout == [k \in Tokens |-> (shares[k] * payouts[k]) * Unit]
<1>1. /\ Resolve(c, t, payouts) /\ c \notin resolved /\ resolved' = resolved \cup {c}
      /\ trade' = NoTrade /\ call' = NoCall /\ UNCHANGED <<decided, source>>
      /\ executions' = IF executions = Refused THEN Refused
            ELSE [d \in DOMAIN executions |->
                    IF executions[d].token \in settled
                    THEN [executions[d] EXCEPT
                            !.paid = PaidFor(executions[d], payouts[executions[d].token])]
                    ELSE executions[d]]
  BY DEF ResolveMarket, IndexPayout
<1>2. /\ CloseOrders(t, OpenIn(c)) /\ OpenIn(c) \in SUBSET openIds
      /\ realized' = realized + Total(payout, settled) - Total(basis, settled)
      /\ shares' = [k \in Tokens |-> IF k \in settled THEN 0 ELSE shares[k]]
      /\ basis' = [k \in Tokens |-> IF k \in settled THEN 0 ELSE basis[k]]
  BY <1>1 DEF Resolve, OpenIn
<1>3. /\ openIds' \subseteq openIds \ OpenIn(c)
      /\ \A o \in openIds' : orders'[o] = orders[o]
  BY <1>2, CloseOrdersStep DEF IInv
<1>4. Settled' = Settled \cup settled /\ Settled \cap settled = {}
  BY <1>1 DEF Settled, TokensOf
<1>5. TradeUnresolved' /\ source' \in [OrderIds -> Nat]
  BY <1>1 DEF AttributionInv, TradeUnresolved
<1>6. /\ settled \subseteq Tokens /\ realized \in Int
      /\ shares \in [Tokens -> Nat] /\ basis \in [Tokens -> Nat]
      /\ \A k \in Tokens : payouts[k] \in Nat
      /\ Unit \in Nat
  BY SimulatorAssumption DEF TokensOf, IInv, TypeOK, Payouts
<1>7. ASSUME executions' # Refused
      PROVE  Recorded' /\ OrdersRecorded' /\ CallRecorded' /\ Attributed'
  <2>. DEFINE e == executions
              f == executions'
  <2>1. Recorded /\ OrdersRecorded /\ CallRecorded /\ Attributed /\ e # Refused
    BY <1>1, <1>7 DEF AttributionInv
  <2>2. e \in Seq(Execution)
    BY <2>1 DEF Recorded
  <2>3. f = [d \in DOMAIN e |-> IF e[d].token \in settled
                THEN [e[d] EXCEPT !.paid = PaidFor(e[d], payouts[e[d].token])]
                ELSE e[d]]
    BY <1>1, <2>1
  <2>4. ASSUME NEW d \in DOMAIN e
        PROVE  /\ f[d] \in Execution /\ f[d].token = e[d].token
               /\ f[d].filled = e[d].filled /\ f[d].cost = e[d].cost
               /\ f[d].paid = IF e[d].token \in settled
                              THEN (e[d].filled * payouts[e[d].token]) * Unit
                              ELSE e[d].paid
    <3>. DEFINE y == e[d]
                paid == PaidFor(y, payouts[y.token])
    <3>1. y \in Execution /\ f[d] = IF y.token \in settled
                                    THEN [y EXCEPT !.paid = paid] ELSE y
      BY <2>2, <2>3
    <3>2. y.token \in settled => paid \in Nat
      BY <1>6, <3>1, ProductMonotone DEF Execution, PaidFor
    <3>3. y.token \in settled => paid = (y.filled * payouts[y.token]) * Unit
      BY DEF PaidFor
    <3>. HIDE DEF y, paid
    <3>4. /\ f[d] \in Execution /\ f[d].token = y.token
          /\ f[d].filled = y.filled /\ f[d].cost = y.cost
          /\ f[d].paid = IF y.token \in settled THEN paid ELSE y.paid
      BY <3>1, <3>2 DEF Execution
    <3>. QED  BY <3>3, <3>4 DEF y
  <2>5. f \in Seq(Execution) /\ Len(f) = Len(e) /\ DOMAIN f = DOMAIN e
    <3>1. DOMAIN e = 1 .. Len(e) /\ Len(e) \in Nat
      BY <2>2
    <3>2. f \in [1 .. Len(e) -> Execution]
      BY <2>3, <2>4, <3>1
    <3>. QED  BY <3>1, <3>2
  <2>. HIDE DEF e, f, settled, payout
  <2>6. \A S : Of(f, S) = Of(e, S)
    BY <2>4, <2>5 DEF Of
  <2>7. \A S : /\ SumOf(f, "filled", S) = SumOf(e, "filled", S)
               /\ SumOf(f, "cost", S) = SumOf(e, "cost", S)
    <3>1. \A S : \A d \in Of(e, S) : f[d].filled = e[d].filled /\ f[d].cost = e[d].cost
      BY <2>4 DEF Of
    <3>. QED  BY <2>6, <3>1, SumSame
  <2>8. SumOf(f, "paid", Settled) = SumOf(e, "paid", Settled)
    <3>1. \A d \in Of(e, Settled) : f[d].paid = e[d].paid
      BY <1>4, <2>4 DEF Of
    <3>. QED  BY <2>6, <3>1, SumSame
  <2>9. SumOf(e, "cost", settled) = Total(basis, settled)
    <3>1. \A k \in settled : basis[k] = SumOf(e, "cost", {k})
      BY <1>4, <1>6, <2>1 DEF Attributed, e
    <3>2. "cost" \in Amounts
      BY DEF Amounts
    <3>. QED  BY <2>2, <3>1, <3>2, SumByToken, ZenonT(60)
  <2>10. SumOf(f, "paid", settled) = Total(payout, settled)
    <3>1. ASSUME NEW k \in settled PROVE payout[k] = SumOf(f, "paid", {k})
      <4>. DEFINE D == Of(e, {k})
                  bought == [d \in DOMAIN e |-> e[d].filled]
                  paid == [d \in DOMAIN f |-> f[d].paid]
                  each == payouts[k] * Unit
      <4>1. /\ IsFiniteSet(D) /\ \A d \in DOMAIN e : e[d].filled \in Nat
        BY <2>2, SumType DEF Amounts
      <4>2. D \subseteq DOMAIN e /\ D \subseteq DOMAIN f /\ \A d \in D : e[d].token = k
        BY <2>5 DEF Of
      <4>3. each \in Nat
        BY <1>6, ProductMonotone
      <4>4. \A d \in D : bought[d] \in Nat
        BY <4>1, <4>2
      <4>5. ASSUME NEW d \in D PROVE paid[d] = bought[d] * each
        <5>1. paid[d] = (bought[d] * payouts[k]) * Unit
          BY <2>4, <4>2
        <5>2. \A a, b, m \in Nat : (a * b) * m = a * (b * m)
          OBVIOUS
        <5>. QED  BY <1>6, <4>4, <5>1, <5>2
      <4>6. SumOf(e, "filled", {k}) = Total(bought, D)
        BY DEF SumOf
      <4>7. SumOf(f, "paid", {k}) = Total(paid, D)
        BY <2>6 DEF SumOf
      <4>8. SumOf(e, "filled", {k}) = shares[k]
        BY <1>4, <1>6, <2>1 DEF Attributed, e
      <4>. HIDE DEF D, bought, paid, each
      <4>9. Total(paid, D) = Total(bought, D) * each
        BY <4>1, <4>3, <4>4, <4>5, TotalScaled
      <4>10. SumOf(f, "paid", {k}) = shares[k] * each
        BY <4>6, <4>7, <4>8, <4>9
      <4>11. \A a, b, m \in Nat : (a * b) * m = a * (b * m)
        OBVIOUS
      <4>12. payout[k] = shares[k] * each
        BY <1>6, <4>11 DEF payout, each
      <4>. QED  BY <4>10, <4>12
    <3>2. "paid" \in Amounts
      BY DEF Amounts
    <3>3. \A k \in settled : payout[k] = SumOf(f, "paid", {k})
      BY <3>1
    <3>4. f \in Seq(Execution)
      BY <2>5
    <3>. QED  BY <3>2, <3>3, <3>4, SumByToken, ZenonT(60)
  <2>11. /\ SumOf(f, "paid", Settled \cup settled)
               = SumOf(f, "paid", Settled) + SumOf(f, "paid", settled)
         /\ SumOf(f, "cost", Settled \cup settled)
               = SumOf(f, "cost", Settled) + SumOf(f, "cost", settled)
    BY <1>4, <2>5, SumSplit DEF Amounts
  <2>12. /\ SumOf(f, "paid", settled) \in Nat /\ SumOf(e, "cost", settled) \in Nat
         /\ SumOf(e, "cost", Settled) \in Nat
    BY <2>2, <2>5, SumType DEF Amounts
  <2>13. SumOf(e, "paid", Settled) = realized + SumOf(e, "cost", Settled)
    BY <2>1 DEF Attributed, e
  <2>14. SumOf(f, "paid", Settled \cup settled)
            = realized' + SumOf(f, "cost", Settled \cup settled)
    BY <1>2, <1>6, <2>7, <2>8, <2>9, <2>10, <2>11, <2>12, <2>13
  <2>15. ASSUME NEW k \in Tokens \ (Settled \cup settled)
         PROVE  SumOf(f, "filled", {k}) = shares'[k] /\ SumOf(f, "cost", {k}) = basis'[k]
    BY <1>2, <1>6, <2>1, <2>7 DEF Attributed, e
  <2>16. Attributed'
    BY <1>4, <2>14, <2>15 DEF Attributed, f
  <2>17. Recorded'
    BY <1>1, <2>1, <2>5 DEF Recorded, e, f
  <2>18. OrdersRecorded'
    <3>1. \A o \in openIds' : o \in openIds /\ orders[o].token \notin settled
      BY <1>3, <1>6 DEF OpenIn, settled, TokensOf
    <3>. QED  BY <1>1, <1>3, <1>4, <2>1, <2>4, <2>5, <3>1 DEF OrdersRecorded, e, f
  <2>19. CallRecorded'
    BY <1>1 DEF CallRecorded
  <2>. QED  BY <2>16, <2>17, <2>18, <2>19
<1>. QED  BY <1>5, <1>7 DEF AttributionInv

LEMMA AttributionInitEstablishes == AdapterInit => AttributionInv
<1>1. SUFFICES ASSUME AdapterInit PROVE AttributionInv
  OBVIOUS
<1>2. /\ openIds = {} /\ shares = [k \in Tokens |-> 0] /\ basis = [k \in Tokens |-> 0]
      /\ realized = 0 /\ resolved = {} /\ trade = NoTrade /\ call = NoCall
      /\ decided = 0 /\ source = [o \in OrderIds |-> 0] /\ executions = <<>>
  BY <1>1 DEF AdapterInit, Init
<1>3. \A field, S : SumOf(executions, field, S) = 0
  <2>1. \A S : Of(executions, S) = {}
    BY <1>2 DEF Of
  <2>2. \A f : Total(f, {}) = 0
    BY TotalZero
  <2>. QED  BY <2>1, <2>2 DEF SumOf
<1>4. Attributed
  BY <1>2, <1>3 DEF Attributed
<1>5. Recorded /\ OrdersRecorded /\ CallRecorded
  BY <1>2 DEF Recorded, OrdersRecorded, CallRecorded
<1>. QED  BY <1>2, <1>4, <1>5 DEF AttributionInv, TradeUnresolved

LEMMA AttributionPreserved ==
  IInv /\ CallInv /\ AttributionInv /\ [AdapterNext]_allVars => AttributionInv'
<1>1. SUFFICES ASSUME IInv, CallInv, AttributionInv, [AdapterNext]_allVars
               PROVE  AttributionInv'
  OBVIOUS
<1>2. ASSUME NEW o \in OrderIds, FillBuy(o) PROVE AttributionInv'
  BY <1>1, <1>2, FillBuyAttribution
<1>3. ASSUME NEW o \in OrderIds, FillSell(o) PROVE AttributionInv'
  BY <1>1, <1>3, FillSellAttribution
<1>4. ASSUME NEW action \in {"CALL", "SKIP", "UPDATE", "HOLD", "REDUCE", "CLOSE"},
             NEW k \in Tokens \cup {None}, NEW fraction \in Fractions,
             Decide(action, k, fraction)
      PROVE  AttributionInv'
  BY <1>1, <1>4, DecideAttribution
<1>5. ASSUME NEW o \in OrderIds, NEW k \in Tokens, PlaceFor(o, k) PROVE AttributionInv'
  BY <1>1, <1>5, PlaceForAttribution
<1>6. ASSUME NEW c \in Conditions, NEW t \in now .. Horizon,
             NEW payouts \in Payouts(c), ResolveMarket(c, t, payouts)
      PROVE  AttributionInv'
  BY <1>1, <1>6, ResolveAttribution
<1>. QED
  BY <1>1, <1>2, <1>3, <1>4, <1>5, <1>6, ClosingAttribution DEF AdapterNext

(* What H015 attributes to the decisions of an audit is what the account   *)
(* holds and has realized, over any tape and any number of decisions,      *)
(* orders, partial fills, cancellations, resolutions and restarts.         *)
THEOREM AttributionIsAlwaysAccount == AdapterSpec => []AttributionIsAccount
<1>1. AttributionInv => AttributionIsAccount
  BY DEF AttributionInv, Attributed, AttributionIsAccount, Sum, Decisions, SumOf, Of
<1>. QED
  BY <1>1, AttributionInitEstablishes, AttributionPreserved, AccountUnderAdapter,
     CallInvariant, PTL DEF AdapterSpec

(***************************************************************************)
(* Medians.                                                                *)
(***************************************************************************)

(* An odd number of values has a median among them.                        *)
LEMMA MedianExists ==
  ASSUME NEW q \in [1..Folds -> Nat]
  PROVE  Median(q) \in {q[i] : i \in 1..Folds}
<1>. DEFINE I == 1..Folds
            atMost == [i \in I |-> {j \in I : q[j] <= q[i]}]
            atLeast == [i \in I |-> {j \in I : q[j] >= q[i]}]
            half == {i \in I : 2 * Cardinality(atMost[i]) > Folds}
<1>1. Folds \in Nat /\ Folds % 2 = 1 /\ Folds > 0
  BY CrossFitAssumption
<1>2. IsFiniteSet(I) /\ Cardinality(I) = Folds /\ I # {}
  <2>1. /\ IsFiniteSet(1..Folds)
        /\ Cardinality(1..Folds) = IF 1 > Folds THEN 0 ELSE Folds - 1 + 1
    BY <1>1, FS_Interval
  <2>. QED  BY <1>1, <2>1
<1>3. \A T \in SUBSET I : IsFiniteSet(T) /\ Cardinality(T) \in Nat
  BY <1>2, FS_Subset, FS_CardinalityType
<1>4. half # {}
  <2>1. PICK k \in I : \A j \in I : q[j] <= q[k]
    BY <1>2, GreatestExists
  <2>2. atMost[k] = I
    BY <2>1
  <2>. HIDE DEF atMost
  <2>3. 2 * Cardinality(atMost[k]) > Folds
    BY <1>1, <1>2, <2>2
  <2>. QED  BY <2>3
<1>5. PICK i \in half : \A k \in half : Cardinality(atMost[i]) <= Cardinality(atMost[k])
  <2>. DEFINE counts == {Cardinality(atMost[k]) : k \in half}
  <2>1. counts \in SUBSET Nat /\ counts # {}
    <3>1. \A k \in half : Cardinality(atMost[k]) \in Nat
      BY <1>3
    <3>. HIDE DEF atMost, half
    <3>. QED  BY <1>4, <3>1
  <2>. HIDE DEF counts
  <2>2. \E x \in counts : \A y \in counts : x <= y
    BY <2>1, LeastExists
  <2>. HIDE DEF atMost, half
  <2>. QED  BY <2>2 DEF counts
<1>6. 2 * Cardinality(atLeast[i]) > Folds
  <2>. DEFINE below == {j \in I : q[j] < q[i]}
  <2>1. SUFFICES ASSUME ~(2 * Cardinality(atLeast[i]) > Folds)  PROVE FALSE
    OBVIOUS
  <2>2. below \in SUBSET I /\ atLeast[i] \in SUBSET I /\ below \cup atLeast[i] = I
        /\ below \cap atLeast[i] = {}
    OBVIOUS
  <2>3. Cardinality(below) + Cardinality(atLeast[i]) = Folds
    <3>. DEFINE B == below
                A == atLeast[i]
    <3>1. IsFiniteSet(B) /\ IsFiniteSet(A) /\ Cardinality(B) \in Nat /\ Cardinality(A) \in Nat
      BY <1>3, <2>2
    <3>. HIDE DEF below, A, B, atLeast
    <3>2. Cardinality(B \cup A) = Cardinality(B) + Cardinality(A) - Cardinality(B \cap A)
      BY <3>1, FS_Union
    <3>3. B \cup A = I /\ B \cap A = {}
      BY <2>2 DEF A, B
    <3>4. Cardinality(I) = Cardinality(B) + Cardinality(A) - 0
      BY <3>2, <3>3, FS_EmptySet
    <3>. QED  BY <1>2, <3>1, <3>4 DEF A, B
  <2>4. 2 * Cardinality(below) > Folds
    <3>1. Cardinality(below) \in Nat /\ Cardinality(atLeast[i]) \in Nat
      BY <1>3, <2>2
    <3>2. \A x \in Nat : 2 * x # Folds
      <4>1. \A x \in Nat : (2 * x) % 2 = 0
        OBVIOUS
      <4>. QED  BY <1>1, <4>1
    <3>. DEFINE x == Cardinality(below)
                y == Cardinality(atLeast[i])
    <3>3. x \in Nat /\ y \in Nat /\ x + y = Folds /\ ~(2 * y > Folds)
      BY <2>1, <2>3, <3>1
    <3>. HIDE DEF x, y
    <3>4. 2 * x >= Folds /\ 2 * x # Folds
      BY <1>1, <3>2, <3>3
    <3>5. 2 * x > Folds
      BY <1>1, <3>3, <3>4
    <3>. QED  BY <3>5 DEF x
  <2>5. below # {}
    <3>1. Cardinality(below) # 0
      <4>. HIDE DEF below
      <4>. QED  BY <1>1, <2>4
    <3>. QED  BY <3>1, FS_EmptySet
  <2>6. PICK k \in below : \A j \in below : q[j] <= q[k]
    <3>1. IsFiniteSet(below)
      BY <1>3, <2>2
    <3>. DEFINE p == [j \in below |-> q[j]]
    <3>2. p \in [below -> Nat]
      OBVIOUS
    <3>. HIDE DEF p, below
    <3>3. \E k \in below : \A j \in below : p[j] <= p[k]
      BY <2>5, <3>1, <3>2, GreatestExists
    <3>. QED  BY <3>3 DEF p
  <2>7. atMost[k] = below
    <3>1. q[k] < q[i] /\ k \in I /\ i \in I
      BY <2>6
    <3>2. \A j \in I : q[j] <= q[k] <=> j \in below
      BY <2>6, <3>1
    <3>. QED  BY <3>1, <3>2
  <2>8. k \in half
    BY <2>4, <2>6, <2>7
  <2>9. Cardinality(atMost[i]) <= Cardinality(below)
    BY <1>5, <2>7, <2>8
  <2>10. below \in SUBSET atMost[i] /\ i \in atMost[i] /\ i \notin below
    OBVIOUS
  <2>11. atMost[i] \in SUBSET I
    OBVIOUS
  <2>. HIDE DEF below, atMost
  <2>12. Cardinality(below) <= Cardinality(atMost[i])
         /\ (Cardinality(atMost[i]) = Cardinality(below) => atMost[i] = below)
    BY <1>3, <2>10, <2>11, FS_Subset
  <2>. QED  BY <1>3, <2>2, <2>9, <2>10, <2>11, <2>12
<1>7. 2 * Cardinality(atMost[i]) > Folds
  BY <1>5
<1>8. \E m \in Range(q) :
        /\ 2 * Cardinality({j \in DOMAIN q : q[j] <= m}) > Folds
        /\ 2 * Cardinality({j \in DOMAIN q : q[j] >= m}) > Folds
  <2>1. q[i] \in Range(q) /\ i \in I
    BY DEF Range
  <2>2. atMost[i] = {j \in DOMAIN q : q[j] <= q[i]}
        /\ atLeast[i] = {j \in DOMAIN q : q[j] >= q[i]}
    OBVIOUS
  <2>. HIDE DEF atMost, atLeast, half
  <2>. QED  BY <1>6, <1>7, <2>1, <2>2
<1>9. Range(q) = {q[j] : j \in 1..Folds}
  BY DEF Range
<1>10. Median(q) \in Range(q)
  BY <1>8 DEF Median
<1>. QED  BY <1>9, <1>10

(***************************************************************************)
(* The training.                                                           *)
(***************************************************************************)

FitStates == [fixed : Nat, epochs : Nat, best : Int, stale : Nat]
Results == [best : Seq(Nat), epochs : Nat, fixed : Nat]

(* A fit's best epoch is one of its epochs, and the final fit has no more  *)
(* of them than it should.                                                 *)
Sound(k, f) ==
    /\ k \in FitStates
    /\ IF k.epochs = 0 THEN k.best = -1 ELSE k.best \in Nat
    /\ f = Final => k.epochs <= k.fixed

Files ==
    /\ checkpoint \in [Seeds -> [Fits -> FitStates \cup {NoFit}]]
    /\ artifact \in [Seeds -> [Fits -> Int \cup {NoFit}]]
    /\ seedResult \in [Seeds -> Results \cup {NoFit}]
    /\ \A s \in Seeds, f \in Fits :
          checkpoint[s][f] # NoFit => Sound(checkpoint[s][f], f)

(* A process is in a seed that has no result yet, and in one of its fits.  *)
InFit == {"fit", "epoch", "trained", "fitted"}
InSeed == InFit \cup {"fold", "stacked"}

Place ==
    /\ pc \in {"idle", "seed"} \cup InSeed
    /\ todo \subseteq Seeds
    /\ fit \in Fits
    /\ receipts \in Seq(Nat)
    /\ pc \in InSeed => todo # {} /\ seedResult[NextSeed] = NoFit
    /\ pc \in InFit => Len(receipts) = fit - 1
    /\ pc \in {"fold", "stacked"} => Len(receipts) = fit
    /\ pc \in {"fold", "fitted"} => fit # Final
    /\ pc = "stacked" => fit = Final

(* The model in memory is the one last saved, for as many epochs as the    *)
(* folds of this process want.                                             *)
Memory ==
    /\ pc \in InFit \ {"fit"} =>
          /\ Sound(run, fit)
          /\ run.fixed = FixedEpochs
          /\ run.epochs # 0 => run = Stored
          /\ pc # "epoch" => run.epochs # 0
    /\ pc = "stacked" => run.epochs = run.fixed /\ run.fixed = FixedEpochs /\ run.epochs \in Nat

(* What was fitted on the way is in the files.                             *)
InFiles ==
    pc \in InSeed =>
       \A f \in 1..Len(receipts) :
          /\ artifact[NextSeed][f] = receipts[f]
          /\ checkpoint[NextSeed][f].best = receipts[f]

FitInv == Files /\ Place /\ Memory /\ InFiles /\ ResultsBelongTogether

LEMMA NextSeedFacts ==
  ASSUME todo \subseteq Seeds, todo # {}
  PROVE  NextSeed \in todo /\ NextSeed \in Seeds
<1>1. todo \in SUBSET Nat
  BY CrossFitAssumption
<1>2. \E s \in todo : \A t \in todo : s <= t
  BY <1>1, LeastExists
<1>. QED  BY <1>2 DEF NextSeed

LEMMA FixedFacts ==
  ASSUME Place, pc \in InSeed, fit = Final => Len(receipts) >= Folds
  PROVE  FixedEpochs \in Nat /\ (fit = Final => FixedEpochs > 0)
<1>1. CASE fit # Final
  BY <1>1 DEF FixedEpochs
<1>2. CASE fit = Final
  <2>. DEFINE q == [f \in 1..Folds |-> receipts[f] + 1]
  <2>1. \A f \in 1..Folds : receipts[f] \in Nat
    BY <1>2, CrossFitAssumption DEF Place
  <2>2. q \in [1..Folds -> Nat] /\ \A f \in 1..Folds : q[f] > 0
    BY <2>1
  <2>. HIDE DEF q
  <2>3. Median(q) \in {q[f] : f \in 1..Folds}
    BY <2>2, MedianExists
  <2>. QED  BY <1>2, <2>2, <2>3 DEF FixedEpochs, q
<1>. QED  BY <1>1, <1>2

LEMMA FitsFacts == Folds \in Nat /\ Folds > 0 /\ Final \in Fits /\ 1 \in Fits /\ 1 # Final
  BY CrossFitAssumption DEF Final, Fits

LEMMA CrossFitInit == FitInit => FitInv
<1>. SUFFICES ASSUME FitInit  PROVE FitInv
  OBVIOUS
<1>1. Files
  BY DEF FitInit, Files
<1>2. Place
  BY FitsFacts DEF FitInit, Place, InSeed, InFit
<1>3. Memory /\ InFiles
  BY DEF FitInit, Memory, InFiles, InSeed, InFit
<1>4. ResultsBelongTogether
  BY DEF FitInit, ResultsBelongTogether
<1>. QED  BY <1>1, <1>2, <1>3, <1>4 DEF FitInv

(* A process that is gone leaves its files.                                *)
LEMMA EndKeeps ==
  ASSUME FitInv, NEW how, End(how), UNCHANGED <<checkpoint, artifact, seedResult>>
  PROVE  FitInv'
<1>1. Files' /\ ResultsBelongTogether'
  BY DEF FitInv, Files, ResultsBelongTogether
<1>2. Place'
  BY FitsFacts DEF End, Place, InSeed, InFit
<1>3. Memory' /\ InFiles'
  BY DEF End, Memory, InFiles, InSeed, InFit
<1>. QED  BY <1>1, <1>2, <1>3 DEF FitInv

(* Between seeds there is nothing to remember.                             *)
LEMMA BetweenKeeps ==
  ASSUME FitInv, UNCHANGED <<checkpoint, artifact, seedResult, fit, run, receipts>>,
         pc' = "seed", todo' \subseteq Seeds
  PROVE  FitInv'
<1>1. Files' /\ ResultsBelongTogether'
  BY DEF FitInv, Files, ResultsBelongTogether
<1>2. Place'
  BY DEF FitInv, Place, InSeed, InFit
<1>3. Memory' /\ InFiles'
  BY DEF Memory, InFiles, InSeed, InFit
<1>. QED  BY <1>1, <1>2, <1>3 DEF FitInv

(* Nothing a process knows changes, but for how far it has come.           *)
LEMMA MoveKeeps ==
  ASSUME FitInv, UNCHANGED <<checkpoint, artifact, seedResult, todo, receipts>>,
         \/ UNCHANGED <<pc, fit, run>>
         \/ UNCHANGED <<fit, run>> /\ pc = "trained" /\ pc' = "epoch"
         \/ UNCHANGED <<fit, run>> /\ pc = "trained" /\ fit # Final /\ pc' = "fitted"
         \/ UNCHANGED run /\ pc = "fold" /\ fit' = fit + 1 /\ pc' = "fit"
  PROVE  FitInv'
<1>. USE DEF InSeed, InFit
<1>1. Files' /\ ResultsBelongTogether'
  BY DEF FitInv, Files, ResultsBelongTogether
<1>2. NextSeed' = NextSeed
  BY DEF NextSeed
<1>3. Place'
  <2>1. pc = "fold" => fit + 1 \in Fits /\ fit + 1 - 1 = fit
    BY CrossFitAssumption DEF FitInv, Place, Fits, Final
  <2>. QED  BY <1>2, <2>1 DEF FitInv, Place
<1>4. Memory'
  <2>1. pc' \in InFit \ {"fit"} => pc \in InFit \ {"fit"} /\ fit' = fit /\ run' = run
    OBVIOUS
  <2>2. fit' = fit => FixedEpochs' = FixedEpochs
    BY DEF FixedEpochs
  <2>3. fit' = fit => Stored' = Stored
    BY <1>2 DEF Stored
  <2>4. fit' = fit /\ run' = run => (Sound(run, fit)' <=> Sound(run, fit))
    BY DEF Sound
  <2>. QED  BY <2>1, <2>2, <2>3, <2>4 DEF FitInv, Memory
<1>5. InFiles'
  BY <1>2 DEF FitInv, InFiles
<1>. QED  BY <1>1, <1>3, <1>4, <1>5 DEF FitInv

LEMMA BeginSeedKeeps ==
  ASSUME FitInv, BeginSeed
  PROVE  FitInv'
<1>. USE DEF InSeed, InFit
<1>1. /\ UNCHANGED <<todo, run, checkpoint, artifact, seedResult>>
      /\ todo # {} /\ seedResult[NextSeed] = NoFit
      /\ pc' = "fit" /\ fit' = 1 /\ receipts' = <<>>
  BY DEF BeginSeed, Cached, files
<1>2. Files' /\ ResultsBelongTogether'
  BY <1>1 DEF FitInv, Files, ResultsBelongTogether
<1>3. NextSeed' = NextSeed
  BY <1>1 DEF NextSeed
<1>4. Place'
  BY <1>1, <1>3, FitsFacts DEF FitInv, Place
<1>5. Memory' /\ InFiles'
  BY <1>1 DEF Memory, InFiles
<1>. QED  BY <1>2, <1>4, <1>5 DEF FitInv

LEMMA StartFitKeeps ==
  ASSUME FitInv, StartFit
  PROVE  FitInv'
<1>. USE DEF InSeed, InFit
<1>1. /\ UNCHANGED <<todo, fit, receipts, checkpoint, artifact, seedResult>>
      /\ pc = "fit" /\ pc' = "epoch" /\ Accepted
      /\ run' = IF Stored = NoFit THEN FreshFit ELSE Stored
  BY DEF StartFit, files
<1>2. Files' /\ ResultsBelongTogether'
  BY <1>1 DEF FitInv, Files, ResultsBelongTogether
<1>3. NextSeed' = NextSeed /\ FixedEpochs' = FixedEpochs /\ Stored' = Stored
  BY <1>1 DEF NextSeed, FixedEpochs, Stored
<1>4. Place'
  BY <1>1, <1>3 DEF FitInv, Place
<1>5. Memory'
  <2>1. FixedEpochs \in Nat /\ (fit = Final => FixedEpochs > 0)
    <3>1. fit = Final => Len(receipts) >= Folds
      BY <1>1, FitsFacts DEF FitInv, Place, Final
    <3>. QED  BY <1>1, <3>1, FixedFacts DEF FitInv
  <2>2. NextSeed \in Seeds /\ fit \in Fits
    BY <1>1, NextSeedFacts DEF FitInv, Place
  <2>3. CASE Stored = NoFit
    <3>1. run' = FreshFit
      BY <1>1, <2>3
    <3>2. Sound(FreshFit, fit) /\ FreshFit.fixed = FixedEpochs /\ FreshFit.epochs = 0
      BY <2>1 DEF FreshFit, Sound, FitStates
    <3>. QED  BY <1>1, <1>3, <3>1, <3>2 DEF Memory, Sound
  <2>4. CASE Stored # NoFit
    <3>1. run' = Stored /\ Stored.fixed = FixedEpochs
      BY <1>1, <2>4 DEF Accepted
    <3>2. Sound(Stored, fit)
      BY <2>2, <2>4 DEF FitInv, Files, Stored
    <3>. QED  BY <1>1, <1>3, <3>1, <3>2 DEF Memory, Sound
  <2>. QED  BY <2>3, <2>4
<1>6. InFiles'
  BY <1>1, <1>3 DEF FitInv, InFiles
<1>. QED  BY <1>2, <1>4, <1>5, <1>6 DEF FitInv

LEMMA TrainEpochKeeps ==
  ASSUME FitInv, TrainEpoch
  PROVE  FitInv'
<1>. USE DEF InSeed, InFit
<1>1. /\ UNCHANGED <<todo, fit, receipts, artifact, seedResult>>
      /\ pc = "epoch" /\ pc' = "trained" /\ run.epochs < Limit
      /\ checkpoint' = [checkpoint EXCEPT ![NextSeed][fit] = run']
  BY DEF TrainEpoch
<1>2. PICK improved \in BOOLEAN :
        /\ run.best = -1 => improved
        /\ run' = [run EXCEPT !.epochs = @ + 1,
                              !.best = IF improved THEN run.epochs ELSE @,
                              !.stale = IF improved THEN 0 ELSE @ + 1]
  BY DEF TrainEpoch
<1>3. /\ Sound(run, fit) /\ run.fixed = FixedEpochs
      /\ NextSeed \in Seeds /\ fit \in Fits /\ seedResult[NextSeed] = NoFit
      /\ Len(receipts) = fit - 1
  BY <1>1, NextSeedFacts DEF FitInv, Memory, Place
<1>4. NextSeed' = NextSeed /\ FixedEpochs' = FixedEpochs
  BY <1>1 DEF NextSeed, FixedEpochs
<1>5. /\ run' \in FitStates /\ run'.epochs = run.epochs + 1 /\ run'.fixed = run.fixed
      /\ run'.best \in Nat /\ run.epochs \in Nat
  <2>1. run.epochs \in Nat /\ run.epochs + 1 \in Nat /\ run.stale + 1 \in Nat
        /\ run.best \in Int /\ (run.best # -1 => run.best \in Nat)
    BY <1>3 DEF Sound, FitStates
  <2>2. CASE improved
    <3>1. run' = [run EXCEPT !.epochs = run.epochs + 1, !.best = run.epochs, !.stale = 0]
      BY <1>2, <1>3, <2>2 DEF Sound, FitStates
    <3>2. run.epochs \in Int /\ run \in FitStates
      BY <1>3, <2>1 DEF Sound
    <3>. QED  BY <2>1, <3>1, <3>2 DEF FitStates
  <2>3. CASE ~improved
    <3>1. run' = [run EXCEPT !.epochs = run.epochs + 1, !.best = run.best,
                             !.stale = run.stale + 1]
      BY <1>2, <1>3, <2>3 DEF Sound, FitStates
    <3>. QED  BY <1>2, <1>3, <2>1, <2>3, <3>1 DEF Sound, FitStates
  <2>. QED  BY <2>2, <2>3
<1>6. Sound(run', fit)
  <2>1. fit = Final => run.epochs < run.fixed
    BY <1>1 DEF Limit
  <2>. QED  BY <1>3, <1>5, <2>1 DEF Sound, FitStates
<1>7. /\ checkpoint' \in [Seeds -> [Fits -> FitStates \cup {NoFit}]]
      /\ checkpoint'[NextSeed][fit] = run'
      /\ \A s \in Seeds, f \in Fits :
            s # NextSeed \/ f # fit => checkpoint'[s][f] = checkpoint[s][f]
  <2>. DEFINE D == [Fits -> FitStates \cup {NoFit}]
              row == [checkpoint[NextSeed] EXCEPT ![fit] = run']
  <2>1. checkpoint \in [Seeds -> D] /\ checkpoint[NextSeed] \in D
    BY <1>3 DEF FitInv, Files
  <2>2. row \in D /\ row[fit] = run'
        /\ \A f \in Fits : f # fit => row[f] = checkpoint[NextSeed][f]
    BY <1>3, <1>5, <2>1
  <2>3. checkpoint' = [checkpoint EXCEPT ![NextSeed] = row]
    BY <1>1
  <2>. HIDE DEF D, row
  <2>4. checkpoint' \in [Seeds -> D] /\ checkpoint'[NextSeed] = row
        /\ \A s \in Seeds : s # NextSeed => checkpoint'[s] = checkpoint[s]
    BY <1>3, <2>1, <2>2, <2>3
  <2>. QED  BY <2>2, <2>4 DEF D
<1>8. Files'
  BY <1>1, <1>6, <1>7 DEF FitInv, Files, Sound
<1>9. Place'
  BY <1>1, <1>4 DEF FitInv, Place
<1>10. Memory'
  <2>1. Stored' = run'
    BY <1>1, <1>4, <1>7 DEF Stored
  <2>. QED  BY <1>1, <1>3, <1>4, <1>5, <1>6, <2>1 DEF Memory, Sound
<1>11. InFiles'
  <2>1. \A f \in 1..Len(receipts) : f \in Fits /\ f # fit
    BY <1>3, CrossFitAssumption DEF Fits, Final
  <2>. QED  BY <1>1, <1>3, <1>4, <1>7, <2>1 DEF FitInv, InFiles
<1>12. ResultsBelongTogether'
  <2>1. \A s \in Seeds : seedResult[s] # NoFit => s # NextSeed
    BY <1>3
  <2>. QED  BY <1>1, <1>7, <2>1 DEF FitInv, ResultsBelongTogether
<1>. QED  BY <1>8, <1>9, <1>10, <1>11, <1>12 DEF FitInv

(* A fit ends: at its last epoch, or after stale ones.                     *)
LEMMA SaveArtifactKeeps ==
  ASSUME FitInv, SaveArtifact
  PROVE  FitInv'
<1>. USE DEF InSeed, InFit
<1>1. /\ UNCHANGED <<todo, fit, run, checkpoint, seedResult>>
      /\ pc = "fitted" \/ (pc = "epoch" /\ run.epochs >= Limit)
      /\ artifact' = [artifact EXCEPT ![NextSeed][fit] = run.best]
      /\ receipts' = Append(receipts, run.best)
      /\ pc' = IF fit = Final THEN "stacked" ELSE "fold"
  BY DEF SaveArtifact
<1>2. /\ Sound(run, fit) /\ run.fixed = FixedEpochs
      /\ NextSeed \in Seeds /\ fit \in Fits /\ seedResult[NextSeed] = NoFit
      /\ Len(receipts) = fit - 1 /\ receipts \in Seq(Nat)
      /\ pc \in InSeed /\ pc \in InFit
  BY <1>1, NextSeedFacts DEF FitInv, Memory, Place
<1>3. NextSeed' = NextSeed
  BY <1>1 DEF NextSeed
<1>4. FixedEpochs \in Nat /\ (fit = Final => FixedEpochs > 0)
  <2>1. fit = Final => Len(receipts) >= Folds
    BY <1>2, FitsFacts DEF Final
  <2>. QED  BY <1>2, <2>1, FixedFacts DEF FitInv
<1>5. run.epochs # 0 /\ (fit = Final => run.epochs = run.fixed) /\ run.epochs \in Nat
  <2>1. pc = "fitted" => run.epochs # 0 /\ fit # Final
    BY <1>1 DEF FitInv, Memory, Place
  <2>2. pc = "epoch" => run.epochs # 0 /\ (fit = Final => run.epochs = run.fixed)
    <3>1. CASE fit = Final
      BY <1>1, <1>2, <1>4, <3>1 DEF Limit, Sound, FitStates
    <3>2. CASE fit # Final
      BY <1>1, <1>2, <3>2, CrossFitAssumption DEF Limit, Sound, FitStates
    <3>. QED  BY <3>1, <3>2
  <2>. QED  BY <1>1, <1>2, <2>1, <2>2 DEF Sound, FitStates
<1>6. run.best \in Nat /\ run = checkpoint[NextSeed][fit]
  BY <1>1, <1>2, <1>5 DEF FitInv, Memory, Sound, Stored
<1>7. /\ artifact' \in [Seeds -> [Fits -> Int \cup {NoFit}]]
      /\ artifact'[NextSeed][fit] = run.best
      /\ \A s \in Seeds, f \in Fits :
            s # NextSeed \/ f # fit => artifact'[s][f] = artifact[s][f]
  <2>. DEFINE D == [Fits -> Int \cup {NoFit}]
              row == [artifact[NextSeed] EXCEPT ![fit] = run.best]
  <2>1. artifact \in [Seeds -> D] /\ artifact[NextSeed] \in D
    BY <1>2 DEF FitInv, Files
  <2>2. row \in D /\ row[fit] = run.best
        /\ \A f \in Fits : f # fit => row[f] = artifact[NextSeed][f]
    BY <1>2, <1>6, <2>1
  <2>3. artifact' = [artifact EXCEPT ![NextSeed] = row]
    BY <1>1
  <2>. HIDE DEF D, row
  <2>4. artifact' \in [Seeds -> D] /\ artifact'[NextSeed] = row
        /\ \A s \in Seeds : s # NextSeed => artifact'[s] = artifact[s]
    BY <1>2, <2>1, <2>2, <2>3
  <2>. QED  BY <2>2, <2>4 DEF D
<1>8. /\ receipts' \in Seq(Nat) /\ Len(receipts') = fit /\ receipts'[fit] = run.best
      /\ \A f \in 1..(fit - 1) : receipts'[f] = receipts[f]
      /\ \A f \in 1..fit : f \in 1..(fit - 1) \/ f = fit
      /\ \A f \in 1..(fit - 1) : f \in Fits /\ f # fit
  <2>1. fit \in Nat /\ fit > 0 /\ fit <= Final /\ Final \in Nat
    BY <1>2, CrossFitAssumption DEF Fits, Final
  <2>2. receipts' \in Seq(Nat) /\ Len(receipts') = fit
    BY <1>1, <1>2, <1>6, <2>1
  <2>3. receipts'[fit] = run.best /\ \A f \in 1..(fit - 1) : receipts'[f] = receipts[f]
    BY <1>1, <1>2, <1>6, <2>1
  <2>4. /\ \A f \in 1..fit : f \in 1..(fit - 1) \/ f = fit
        /\ \A f \in 1..(fit - 1) : f \in Fits /\ f # fit
    BY <2>1 DEF Fits
  <2>. QED  BY <2>2, <2>3, <2>4
<1>9. Files'
  BY <1>1, <1>7 DEF FitInv, Files, Sound
<1>10. Place'
  BY <1>1, <1>3, <1>8 DEF FitInv, Place
<1>11. Memory'
  <2>1. ASSUME fit = Final  PROVE FixedEpochs' = FixedEpochs
    <3>1. Folds = fit - 1
      BY <2>1, CrossFitAssumption DEF Final
    <3>2. \A f \in 1..Folds : receipts'[f] + 1 = receipts[f] + 1
      BY <1>8, <3>1
    <3>3. [f \in 1..Folds |-> receipts'[f] + 1] = [f \in 1..Folds |-> receipts[f] + 1]
      BY <3>2
    <3>. QED  BY <1>1, <2>1, <3>3 DEF FixedEpochs
  <2>. QED  BY <1>1, <1>2, <1>5, <2>1 DEF Memory
<1>12. InFiles'
  BY <1>1, <1>2, <1>3, <1>6, <1>7, <1>8 DEF FitInv, InFiles
<1>13. ResultsBelongTogether'
  <2>1. \A s \in Seeds : seedResult[s] # NoFit => s # NextSeed
    BY <1>2
  <2>. QED  BY <1>1, <1>7, <2>1 DEF FitInv, ResultsBelongTogether
<1>. QED  BY <1>9, <1>10, <1>11, <1>12, <1>13 DEF FitInv

LEMMA WriteSeedResultKeeps ==
  ASSUME FitInv, WriteSeedResult
  PROVE  FitInv'
<1>. USE DEF InSeed, InFit
<1>. DEFINE r == [best |-> receipts, epochs |-> run.epochs, fixed |-> run.fixed]
            new == NextSeed
<1>1. /\ UNCHANGED <<checkpoint, artifact>> /\ pc = "stacked"
      /\ seedResult' = [seedResult EXCEPT ![new] = r]
      /\ todo' = todo \ {new} /\ pc' = "seed" /\ fit' = 1 /\ receipts' = <<>>
  BY DEF WriteSeedResult
<1>2. /\ new \in Seeds /\ fit = Final /\ receipts \in Seq(Nat) /\ Len(receipts) = Final
      /\ run.epochs = run.fixed /\ run.fixed = FixedEpochs /\ run.epochs \in Nat
  BY <1>1, NextSeedFacts DEF FitInv, Place, Memory
<1>3. \A f \in Fits : artifact[new][f] = receipts[f] /\ checkpoint[new][f].best = receipts[f]
  BY <1>1, <1>2 DEF FitInv, InFiles, Fits
<1>4. run.fixed = Median([f \in 1..Folds |-> receipts[f] + 1])
  BY <1>2 DEF FixedEpochs
<1>5. r \in Results /\ r.best = receipts /\ r.epochs = run.epochs /\ r.fixed = run.fixed
  BY <1>2 DEF Results
<1>. HIDE DEF r, new
<1>6. /\ seedResult' \in [Seeds -> Results \cup {NoFit}] /\ seedResult'[new] = r
      /\ \A s \in Seeds : s # new => seedResult'[s] = seedResult[s]
  BY <1>1, <1>2, <1>5 DEF FitInv, Files
<1>7. Files'
  BY <1>1, <1>6 DEF FitInv, Files
<1>8. Place'
  BY <1>1, FitsFacts DEF FitInv, Place
<1>9. Memory' /\ InFiles'
  BY <1>1 DEF Memory, InFiles
<1>10. ResultsBelongTogether'
  <2>1. ASSUME NEW s \in Seeds, seedResult'[s] # NoFit
        PROVE  /\ seedResult'[s].fixed = Median([f \in 1..Folds |-> seedResult'[s].best[f] + 1])
               /\ seedResult'[s].epochs = seedResult'[s].fixed
               /\ \A f \in Fits : /\ artifact[s][f] = seedResult'[s].best[f]
                                  /\ checkpoint[s][f].best = seedResult'[s].best[f]
    <3>1. CASE s = new
      BY <1>2, <1>3, <1>4, <1>5, <1>6, <3>1
    <3>2. CASE s # new
      BY <1>6, <2>1, <3>2 DEF FitInv, ResultsBelongTogether
    <3>. QED  BY <3>1, <3>2
  <2>. QED  BY <1>1, <2>1 DEF ResultsBelongTogether, Median, Range
<1>. QED  BY <1>7, <1>8, <1>9, <1>10 DEF FitInv

LEMMA CrossFitNext ==
  ASSUME FitInv, [FitNext]_fitVars
  PROVE  FitInv'
<1>1. CASE TrainEpoch \/ SaveArtifact \/ WriteSeedResult \/ BeginSeed \/ StartFit
  BY <1>1, TrainEpochKeeps, SaveArtifactKeeps, WriteSeedResultKeeps, BeginSeedKeeps,
     StartFitKeeps
<1>2. CASE RefuseFit \/ PauseFit \/ PauseFold \/ WriteResult \/ Kill
  BY <1>2, EndKeeps DEF RefuseFit, PauseFit, PauseFold, WriteResult, Kill, files
<1>3. CASE SkipSeed \/ BeginSome
  <2>1. UNCHANGED <<checkpoint, artifact, seedResult, fit, run, receipts>> /\ pc' = "seed"
    BY <1>3 DEF SkipSeed, BeginSome, Begin, files
  <2>2. todo' \subseteq Seeds
    BY <1>3 DEF SkipSeed, BeginSome, Begin, FitInv, Place
  <2>. QED  BY <2>1, <2>2, BetweenKeeps
<1>4. CASE EndEpoch \/ EndFold \/ Pause \/ Unpause \/ UNCHANGED fitVars
  BY <1>4, MoveKeeps DEF EndEpoch, EndFold, Pause, Unpause, fitVars, files, process
<1>. QED  BY <1>1, <1>2, <1>3, <1>4 DEF FitNext, Work

(* Whatever the seeds, folds, epochs and patience: the final fit of every  *)
(* seed with a result ran for the median of its folds' best epochs, and    *)
(* the files of the seed are of the epochs the result names.               *)
THEOREM ResultsAlwaysBelongTogether == NetEdgeSpec => []ResultsBelongTogether
<1>1. NetEdgeInit => FitInv
  BY CrossFitInit DEF NetEdgeInit
<1>2. FitInv /\ [NetEdgeNext]_<<packVars, fitVars>> => FitInv'
  <2>1. [NetEdgeNext]_<<packVars, fitVars>> => [FitNext]_fitVars
    BY DEF NetEdgeNext, TrainCandidates
  <2>. QED  BY <2>1, CrossFitNext
<1>3. FitInv => ResultsBelongTogether
  BY DEF FitInv
<1>. QED  BY <1>1, <1>2, <1>3, PTL DEF NetEdgeSpec

(***************************************************************************)
(* The packs.                                                              *)
(***************************************************************************)

Stages == {"encodings", "pack"}

Setting ==
    /\ study \in Studies
    /\ DOMAIN made = Artifacts
    /\ \A a \in Artifacts : made[a] # Nothing => made[a].number \in Nat
    /\ writings \in [Artifacts -> Nat]
    /\ DOMAIN config = Configs /\ DOMAIN config["pack"] = PackSources
    /\ days = [stage \in Stages |-> days[stage]]
    /\ \A stage \in Stages : days[stage] \in [Steps(stage) -> Receipts \cup {Nothing}]

(* A day was computed from nothing but what its contract names.            *)
FromContract(day) ==
    \A a \in DOMAIN day.of : a \in DOMAIN day.contract /\ day.of[a] = day.contract[a]

Sourced(stage, day) ==
    /\ FromContract(day)
    /\ stage = "encodings" => day.of = day.contract
    /\ stage = "pack" => {"features", "encodings"} \subseteq DOMAIN day.of

Computed ==
    \A stage \in Stages : \A i \in Steps(stage) :
       days[stage][i] # Nothing => Sourced(stage, days[stage][i])

(* A manifest stands for all its days.                                     *)
Behind(stage, i, contract) ==
    days[stage][i] # Nothing /\ days[stage][i].contract = contract

AllWhole ==
    \A stage \in Stages : made[stage] # Nothing =>
       \A i \in Steps(stage) : Behind(stage, i, made[stage].of)

(* While a command works, nobody makes what it is bound to.                *)
Bound ==
    ~JobFree =>
       /\ ended.how \notin {"sources", "contract"}
       /\ job = [stage |-> job.stage, of |-> job.of, step |-> job.step]
       /\ job.step \in Nat \ {0}
       /\ job.stage = "encodings" => Present({"features"}) /\ job.of = EncodingContract
       /\ job.stage = "pack" => Present(PackSources) /\ job.of = Numbers(PackSources)
       /\ job.stage \in Stages =>
             \A i \in Steps(job.stage) : i < job.step => Behind(job.stage, i, job.of)
       /\ job.stage = "candidates" => Present(CandidateSources) /\ Bindings

Building == Setting /\ Computed /\ AllWhole /\ Bound
PackInv == OffsetsFit /\ (~training => Building)

LEMMA StudyFacts ==
  ASSUME study \in Studies
  PROVE  /\ PackSources \in SUBSET Artifacts
         /\ {"features", "encodings", Replays[1]} \subseteq PackSources
         /\ study # "H014" => Replays[2] \in PackSources
         /\ ProtocolTail => "fees" \in PackSources
         /\ PackSources \cap {"pack", "candidates"} = {}
         /\ Behaviors \in {1, 2} /\ (study # "H014" <=> Behaviors = 2)
         /\ Steps("encodings") = 1..PackDays
         /\ Steps("pack") = 1..(Behaviors * PackDays)
         /\ Behaviors * PackDays \in Nat
         /\ Stages \subseteq Artifacts /\ CandidateSources \subseteq Artifacts
<1>1. Replays[1] = "replay of H012" /\ Replays[2] = "replay of H014"
  BY DEF Replays
<1>2. Artifacts = {"features", "fees", "encodings", "pack", "candidates",
                   "replay of H012", "replay of H014"}
  BY <1>1 DEF Artifacts
<1>3. /\ study = "H014" => PackSources = {"features", "encodings", "replay of H012"}
      /\ study = "H015" => PackSources = {"features", "encodings", "replay of H012",
                                          "replay of H014"}
      /\ study \notin {"H014", "H015"} =>
            PackSources = {"features", "encodings", "replay of H012", "replay of H014", "fees"}
  BY <1>1 DEF PackSources, StateSources, OnPolicySources, TailSources, ProtocolTail
<1>4. ProtocolTail <=> study \notin {"H014", "H015"}
  BY DEF ProtocolTail
<1>5. Behaviors \in {1, 2} /\ (study # "H014" <=> Behaviors = 2)
  BY DEF Behaviors
<1>6. Behaviors * PackDays \in Nat
  BY <1>5, PacksAssumption
<1>7. Steps("encodings") = 1..PackDays /\ Steps("pack") = 1..(Behaviors * PackDays)
  BY DEF Steps, LastStep
<1>8. Stages \subseteq Artifacts /\ CandidateSources \subseteq Artifacts
  BY <1>2 DEF Stages, CandidateSources
<1>. QED  BY <1>1, <1>2, <1>3, <1>4, <1>5, <1>6, <1>7, <1>8

(* What depends on the study alone.                                        *)
LEMMA StudyStays ==
  ASSUME study' = study
  PROVE  /\ PackSources' = PackSources /\ Configs' = Configs
         /\ \A stage \in Stages : Steps(stage)' = Steps(stage)
<1>1. ProtocolTail' <=> ProtocolTail
  BY DEF ProtocolTail
<1>2. PackSources' = PackSources
  BY <1>1 DEF PackSources
<1>3. Configs' = Configs
  BY DEF Configs
<1>4. \A stage \in Stages : Steps(stage)' = Steps(stage)
  BY DEF Steps, LastStep, Behaviors
<1>. QED  BY <1>2, <1>3, <1>4

(* No process works, and nothing on the disk changes.                      *)
LEMMA RestKeeps ==
  ASSUME Building, UNCHANGED <<study, made, config, days, writings>>, JobFree'
  PROVE  Building'
<1>1. /\ PackSources' = PackSources /\ Configs' = Configs
      /\ \A stage \in Stages : Steps(stage)' = Steps(stage)
  BY StudyStays
<1>2. Setting'
  BY <1>1 DEF Building, Setting
<1>3. Computed'
  BY <1>1 DEF Building, Computed
<1>4. AllWhole'
  BY <1>1 DEF Building, AllWhole, Behind
<1>5. Bound'
  BY DEF Bound
<1>. QED  BY <1>2, <1>3, <1>4, <1>5 DEF Building

(* A command begins, bound to what it found.                               *)
LEMMA StartsKeeps ==
  ASSUME Building, NEW stage \in Stages \cup {"candidates"}, NEW of, Starts(stage, of),
         stage = "encodings" => Present({"features"}) /\ of = EncodingContract,
         stage = "pack" => Present(PackSources) /\ of = Numbers(PackSources),
         stage = "candidates" => Present(CandidateSources) /\ Bindings
  PROVE  Building'
<1>1. /\ UNCHANGED <<study, made, config, days, ended, writings>>
      /\ Answered(stage) /\ job' = [stage |-> stage, of |-> of, step |-> 1]
  BY DEF Starts
<1>2. /\ PackSources' = PackSources /\ Configs' = Configs
      /\ \A st \in Stages : Steps(st)' = Steps(st)
  BY <1>1, StudyStays
<1>3. Setting'
  BY <1>1, <1>2 DEF Building, Setting
<1>4. Computed'
  BY <1>1, <1>2 DEF Building, Computed
<1>5. AllWhole'
  BY <1>1, <1>2 DEF Building, AllWhole, Behind
<1>6. Bound'
  <2>1. /\ job'.stage = stage /\ job'.of = of /\ job'.step = 1
        /\ job' = [stage |-> job'.stage, of |-> job'.of, step |-> job'.step]
    BY <1>1
  <2>2. ended'.how \notin {"sources", "contract"}
    BY <1>1 DEF Answered
  <2>3. \A st \in Stages : \A i \in Steps(st)' : ~(i < 1)
    BY <1>2, StudyFacts, PacksAssumption DEF Building, Setting, Stages
  <2>4. /\ Numbers({"features"})' = Numbers({"features"})
        /\ Numbers(PackSources)' = Numbers(PackSources)
        /\ EncodingContract' = EncodingContract
        /\ Bindings' = Bindings
    BY <1>1, <1>2 DEF Numbers, EncodingContract, Bindings
  <2>5. /\ Present({"features"})' = Present({"features"})
        /\ Present(PackSources)' = Present(PackSources)
        /\ Present(CandidateSources)' = Present(CandidateSources)
    BY <1>1, <1>2 DEF Present
  <2>6. stage # "encodings" \/ stage # "pack"
    OBVIOUS
  <2>. QED  BY <2>1, <2>2, <2>3, <2>4, <2>5 DEF Bound
<1>. QED  BY <1>3, <1>4, <1>5, <1>6 DEF Building

LEMMA NumbersFacts ==
  ASSUME Setting, NEW S \in SUBSET Artifacts, Present(S)
  PROVE  /\ Numbers(S) \in Contracts /\ DOMAIN Numbers(S) = S
         /\ \A a \in S : Numbers(S)[a] = made[a].number
<1>1. \A a \in S : made[a].number \in Nat
  BY DEF Setting, Present
<1>2. Numbers(S) \in [S -> Nat]
  BY <1>1 DEF Numbers
<1>. QED  BY <1>2 DEF Contracts, Numbers

(* A day of the command's contract is there, from before or from now, and  *)
(* the command goes on or ends.                                            *)
LEMMA DayKeeps ==
  ASSUME Building, NEW stage \in Stages, Works(stage),
         NEW day \in Receipts, Today(stage) \in {Nothing, day},
         day.contract = job.of, Sourced(stage, day),
         days' = [days EXCEPT ![stage][job.step] = day],
         UNCHANGED <<study, made, config, writings>>, GoesOn \/ JobFree'
  PROVE  Building'
<1>. DEFINE step == job.step
<1>1. /\ PackSources' = PackSources /\ Configs' = Configs
      /\ \A st \in Stages : Steps(st)' = Steps(st)
  BY StudyStays
<1>2. ~JobFree /\ job.stage = stage /\ step \in Steps(stage) /\ day # Nothing
  BY NothingAssumption DEF Works, Receipts
<1>3. /\ days = [st \in Stages |-> days[st]]
      /\ \A st \in Stages : days[st] \in [Steps(st) -> Receipts \cup {Nothing}]
      /\ days[stage][step] \in {Nothing, day}
  BY DEF Building, Setting, Today
<1>4. /\ days' = [st \in Stages |-> days'[st]]
      /\ \A st \in Stages : days'[st] \in [Steps(st) -> Receipts \cup {Nothing}]
      /\ days'[stage][step] = day
      /\ \A st \in Stages : \A i \in Steps(st) :
            days'[st][i] = days[st][i] \/ (st = stage /\ i = step /\ days[st][i] = Nothing)
  <2>. DEFINE row == [days[stage] EXCEPT ![step] = day]
  <2>1. row \in [Steps(stage) -> Receipts \cup {Nothing}] /\ row[step] = day
        /\ \A i \in Steps(stage) : i # step => row[i] = days[stage][i]
    BY <1>2, <1>3
  <2>2. days' = [days EXCEPT ![stage] = row]
    OBVIOUS
  <2>. HIDE DEF row, step
  <2>3. days' = [st \in Stages |-> days'[st]] /\ days'[stage] = row
        /\ \A st \in Stages : st # stage => days'[st] = days[st]
    BY <1>3, <2>2
  <2>. QED  BY <1>3, <2>1, <2>3
<1>. HIDE DEF step
<1>5. Setting'
  BY <1>1, <1>4 DEF Building, Setting
<1>6. Computed'
  <2>1. ASSUME NEW st \in Stages, NEW i \in Steps(st), days'[st][i] # Nothing
        PROVE  Sourced(st, days'[st][i])
    <3>1. CASE days'[st][i] = days[st][i]
      BY <2>1, <3>1 DEF Building, Computed
    <3>2. CASE st = stage /\ i = step
      BY <1>4, <3>2
    <3>. QED  BY <1>4, <3>1, <3>2
  <2>. QED  BY <1>1, <2>1 DEF Computed, Sourced, FromContract
<1>7. \A st \in Stages : \A i \in Steps(st) : \A c : Behind(st, i, c) => Behind(st, i, c)'
  BY <1>4 DEF Behind
<1>8. AllWhole'
  BY <1>1, <1>7 DEF Building, AllWhole, Behind
<1>9. Bound'
  <2>1. CASE JobFree'
    BY <2>1 DEF Bound
  <2>2. CASE GoesOn
    <3>1. job' = [job EXCEPT !.step = @ + 1] /\ ended' = ended
      BY <2>2 DEF GoesOn
    <3>2. step \in Nat \ {0} /\ ended.how \notin {"sources", "contract"}
      BY <1>2 DEF Building, Bound, step
    <3>3. job'.stage = stage /\ job'.of = job.of /\ job'.step = step + 1
      <4>1. job = [stage |-> job.stage, of |-> job.of, step |-> job.step]
        BY <1>2 DEF Building, Bound
      <4>. HIDE DEF step
      <4>. QED  BY <1>2, <3>1, <4>1 DEF step
    <3>4. \A i \in Steps(stage) : i < step + 1 => Behind(stage, i, job.of)'
      <4>1. \A i \in Steps(stage) : i < step + 1 => i < step \/ i = step
        <5>1. \A i \in Steps(stage) : i \in Int
          <6>1. Steps(stage) = 1..LastStep[stage]
            BY DEF Steps
          <6>. QED  BY <6>1
        <5>. QED  BY <3>2, <5>1
      <4>2. \A i \in Steps(stage) : i < step =>
               days'[stage][i] # Nothing /\ days'[stage][i].contract = job.of
        <5>1. \A i \in Steps(stage) : i < step =>
                 days[stage][i] # Nothing /\ days[stage][i].contract = job.of
          BY <1>2 DEF Building, Bound, Behind, step
        <5>. QED  BY <1>4, <5>1
      <4>3. days'[stage][step] # Nothing /\ days'[stage][step].contract = job'.of
        BY <1>2, <1>4, <3>3
      <4>4. job'.of = job.of
        BY <3>3
      <4>. QED  BY <4>1, <4>2, <4>3, <4>4 DEF Behind
    <3>5. /\ Numbers({"features"})' = Numbers({"features"})
          /\ Numbers(PackSources)' = Numbers(PackSources)
          /\ EncodingContract' = EncodingContract
          /\ Present({"features"})' = Present({"features"})
          /\ Present(PackSources)' = Present(PackSources)
      BY <1>1 DEF Numbers, EncodingContract, Present
    <3>6. /\ stage = "encodings" => Present({"features"}) /\ job.of = EncodingContract
          /\ stage = "pack" => Present(PackSources) /\ job.of = Numbers(PackSources)
          /\ stage # "candidates"
      BY <1>2 DEF Building, Bound, Stages
    <3>7. job' = [stage |-> job'.stage, of |-> job'.of, step |-> job'.step]
          /\ step + 1 \in Nat \ {0}
      <4>1. job = [stage |-> job.stage, of |-> job.of, step |-> job.step]
        BY <1>2 DEF Building, Bound
      <4>. QED  BY <3>1, <3>2, <4>1
    <3>. QED  BY <1>1, <3>1, <3>2, <3>3, <3>4, <3>5, <3>6, <3>7 DEF Bound, Behind
  <2>. QED  BY <2>1, <2>2
<1>. QED  BY <1>5, <1>6, <1>8, <1>9 DEF Building

LEMMA BehaviorFacts ==
  ASSUME Building, Works("pack")
  PROVE  /\ Behavior(job.step) \in {Replays[1], Replays[2]}
         /\ Behavior(job.step) \in PackSources
<1>1. study \in Studies /\ job.step \in Nat \ {0} /\ job.step \in Steps("pack")
  BY DEF Building, Setting, Bound, Works
<1>2. job.step \in 1..(Behaviors * PackDays) /\ Behaviors \in {1, 2}
  BY <1>1, StudyFacts
<1>. DEFINE n == job.step - 1
            k == n \div PackDays
<1>3. n \in Nat /\ n < Behaviors * PackDays
  BY <1>1, <1>2, PacksAssumption
<1>. HIDE DEF n
<1>4. k = 0 \/ (Behaviors = 2 /\ k = 1)
  <2>1. CASE Behaviors = 1
    <3>1. n \in 0..(PackDays - 1)
      BY <1>3, <2>1, PacksAssumption
    <3>. QED  BY <3>1, PacksAssumption
  <2>2. CASE Behaviors = 2
    <3>1. n < PackDays + PackDays
      BY <1>3, <2>2, PacksAssumption
    <3>. QED  BY <1>3, <2>2, <3>1, PacksAssumption, Z3
  <2>. QED  BY <1>2, <2>1, <2>2
<1>5. Behavior(job.step) = Replays[1 + k]
  BY DEF Behavior, n
<1>. HIDE DEF k
<1>6. Behavior(job.step) = Replays[1] \/ (Behaviors = 2 /\ Behavior(job.step) = Replays[2])
  BY <1>4, <1>5
<1>. QED  BY <1>1, <1>6, StudyFacts

(* What is already there stays.                                            *)
LEMMA KeptDayKeeps ==
  ASSUME Building, NEW stage \in Stages, Works(stage), ReceiptValid(stage),
         UNCHANGED <<study, made, config, days, writings>>, GoesOn \/ JobFree'
  PROVE  Building'
<1>. DEFINE day == Today(stage)
<1>1. /\ job.step \in Steps(stage) /\ job.stage = stage
      /\ day # Nothing /\ day.contract = job.of /\ day = days[stage][job.step]
  BY DEF Works, ReceiptValid, Today
<1>2. /\ days = [st \in Stages |-> days[st]]
      /\ days[stage] \in [Steps(stage) -> Receipts \cup {Nothing}]
  BY DEF Building, Setting
<1>3. day \in Receipts /\ Sourced(stage, day)
  BY <1>1, <1>2 DEF Building, Computed
<1>4. days' = [days EXCEPT ![stage][job.step] = day]
  <2>1. days[stage] = [days[stage] EXCEPT ![job.step] = day]
    BY <1>1, <1>2
  <2>. QED  BY <1>2, <2>1
<1>5. Today(stage) \in {Nothing, day}
  OBVIOUS
<1>6. UNCHANGED <<study, made, config, writings>>
  OBVIOUS
<1>7. day.contract = job.of
  BY <1>1
<1>. HIDE DEF day
<1>. QED  BY <1>3, <1>4, <1>5, <1>6, <1>7, DayKeeps

(* A day that was missing is written.                                      *)
LEMMA NewDayKeeps ==
  ASSUME Building, NEW stage \in Stages, Works(stage), Today(stage) = Nothing,
         NEW S \in SUBSET Artifacts, Present(S), {"features"} \subseteq S,
         stage = "encodings" => S = {"features"},
         stage = "pack" => S \subseteq PackSources /\ {"features", "encodings"} \subseteq S,
         days' = [days EXCEPT ![stage][job.step] = [contract |-> job.of, of |-> Numbers(S)]],
         UNCHANGED <<study, made, config, writings>>, GoesOn \/ JobFree'
  PROVE  Building'
<1>. DEFINE day == [contract |-> job.of, of |-> Numbers(S)]
<1>1. Setting /\ job.stage = stage /\ PackSources \in SUBSET Artifacts
  BY StudyFacts DEF Building, Setting, Works
<1>2. /\ Numbers(S) \in Contracts /\ DOMAIN Numbers(S) = S
      /\ \A a \in S : Numbers(S)[a] = made[a].number
  BY <1>1, NumbersFacts
<1>3. stage = "encodings" => job.of = Numbers({"features"}) /\ Numbers(S) = job.of
  BY <1>1 DEF Building, Bound, Works, EncodingContract
<1>4. stage = "pack" => /\ job.of \in Contracts /\ DOMAIN job.of = PackSources
                        /\ \A a \in PackSources : job.of[a] = made[a].number
  <2>1. stage = "pack" => Present(PackSources) /\ job.of = Numbers(PackSources)
    BY <1>1 DEF Building, Bound, Works
  <2>. QED  BY <1>1, <2>1, NumbersFacts
<1>5. stage = "encodings" \/ stage = "pack"
  BY DEF Stages
<1>. HIDE DEF Contracts
<1>6. day \in Receipts /\ day.contract = job.of /\ day.of = Numbers(S)
  BY <1>2, <1>3, <1>4, <1>5 DEF Receipts
<1>7. Sourced(stage, day)
  BY <1>2, <1>3, <1>4, <1>5, <1>6 DEF Sourced, FromContract
<1>8. Today(stage) \in {Nothing, day} /\ UNCHANGED <<study, made, config, writings>>
  OBVIOUS
<1>9. days' = [days EXCEPT ![stage][job.step] = day]
  OBVIOUS
<1>. HIDE DEF day
<1>. QED  BY <1>6, <1>7, <1>8, <1>9, DayKeeps

LEMMA PackDaysKeep ==
  ASSUME Building,
         KeepEncodedDay \/ EncodeDay \/ KeepDay \/ BuildDay
  PROVE  Building'
<1>1. MayPause => GoesOn \/ JobFree'
  BY DEF MayPause, Ends, JobFree
<1>2. "encodings" \in Stages /\ "pack" \in Stages /\ "encodings" # "pack"
  BY DEF Stages
<1>3. CASE KeepEncodedDay
  BY <1>2, <1>3, KeptDayKeeps DEF KeepEncodedDay, KeepsOn
<1>4. CASE KeepDay
  BY <1>1, <1>2, <1>4, KeptDayKeeps DEF KeepDay
<1>5. CASE EncodeDay
  <2>. DEFINE S == {"features"}
              stage == "encodings"
  <2>1. /\ Works(stage) /\ Today(stage) = Nothing
        /\ UNCHANGED <<study, made, config, writings>>
        /\ GoesOn \/ JobFree'
    BY <1>1, <1>5 DEF EncodeDay
  <2>2. days' = [days EXCEPT ![stage][job.step] = [contract |-> job.of, of |-> Numbers(S)]]
    BY <1>5 DEF EncodeDay, WriteDay
  <2>3. Present(S)
    BY <2>1 DEF Building, Bound, Works
  <2>4. S \in SUBSET Artifacts /\ {"features"} \subseteq S
    BY DEF Artifacts
  <2>5. stage = "encodings" => S = {"features"}
    OBVIOUS
  <2>6. stage # "pack" /\ stage \in Stages
    BY <1>2
  <2>. HIDE DEF S, stage
  <2>. QED  BY <2>1, <2>2, <2>3, <2>4, <2>5, <2>6, NewDayKeeps
<1>6. CASE BuildDay
  <2>. DEFINE S == CASE study = "H014" -> {"features", "encodings", Replays[1]}
                     [] study = "H015" -> {"features", "encodings", Behavior(job.step)}
                     [] ProtocolTail -> {"features", "encodings", Behavior(job.step), "fees"}
              stage == "pack"
  <2>1. /\ Works(stage) /\ Today(stage) = Nothing
        /\ UNCHANGED <<study, made, config, writings>>
        /\ GoesOn \/ JobFree'
    BY <1>1, <1>6 DEF BuildDay
  <2>2. ProtocolTail <=> study \notin {"H014", "H015"}
    BY DEF ProtocolTail
  <2>3. days' = [days EXCEPT ![stage][job.step] = [contract |-> job.of, of |-> Numbers(S)]]
    BY <1>6, <2>2 DEF BuildDay, WriteDay, StateDay, OnPolicyDay, TailDay
  <2>4. PackSources \in SUBSET Artifacts
    BY StudyFacts DEF Building, Setting
  <2>5. S \in SUBSET PackSources /\ {"features", "encodings"} \subseteq S
    <3>1. study \in Studies
      BY DEF Building, Setting
    <3>2. Behavior(job.step) \in PackSources
      BY <2>1, BehaviorFacts
    <3>. QED  BY <2>2, <3>1, <3>2, StudyFacts
  <2>6. Present(S)
    <3>1. Present(PackSources)
      BY <2>1 DEF Building, Bound, Works
    <3>. QED  BY <2>5, <3>1 DEF Present
  <2>7. stage # "encodings" /\ stage \in Stages /\ {"features"} \subseteq S
    BY <1>2, <2>5
  <2>8. S \in SUBSET Artifacts
    BY <2>4, <2>5
  <2>. HIDE DEF S, stage
  <2>. QED  BY <2>1, <2>3, <2>5, <2>6, <2>7, <2>8, NewDayKeeps
<1>. QED  BY <1>3, <1>4, <1>5, <1>6

(* A manifest is written when all its days are there, or has none.         *)
LEMMA ManifestKeeps ==
  ASSUME Building, NEW a \in Artifacts, NEW of, Writes(a, of), JobFree',
         UNCHANGED <<study, config, days>>,
         a \in Stages => \A i \in Steps(a) : Behind(a, i, of)
  PROVE  Building'
<1>. DEFINE manifest == [number |-> writings[a] + 1, of |-> of]
<1>1. /\ PackSources' = PackSources /\ Configs' = Configs
      /\ \A st \in Stages : Steps(st)' = Steps(st)
  BY StudyStays
<1>2. DOMAIN made = Artifacts /\ writings \in [Artifacts -> Nat]
  BY DEF Building, Setting
<1>3. writings' \in [Artifacts -> Nat] /\ writings'[a] = writings[a] + 1
  BY <1>2 DEF Writes
<1>4. made' = [made EXCEPT ![a] = manifest] /\ manifest.number \in Nat /\ manifest.of = of
  BY <1>2, <1>3 DEF Writes
<1>. HIDE DEF manifest
<1>5. /\ DOMAIN made' = Artifacts /\ made'[a] = manifest
      /\ \A b \in Artifacts : b # a => made'[b] = made[b]
  BY <1>2, <1>4
<1>6. Setting'
  BY <1>1, <1>3, <1>4, <1>5 DEF Building, Setting
<1>7. Computed'
  BY <1>1 DEF Building, Computed
<1>8. AllWhole'
  <2>1. ASSUME NEW st \in Stages, made'[st] # Nothing, NEW i \in Steps(st)
        PROVE  Behind(st, i, made'[st].of)
    <3>1. CASE st = a
      BY <1>4, <1>5, <3>1
    <3>2. CASE st # a
      <4>1. made'[st] = made[st]
        BY <1>5, <3>2, StudyFacts DEF Building, Setting
      <4>. QED  BY <2>1, <4>1 DEF Building, AllWhole
    <3>. QED  BY <3>1, <3>2
  <2>. QED  BY <1>1, <2>1 DEF AllWhole, Behind
<1>9. Bound'
  BY DEF Bound
<1>. QED  BY <1>6, <1>7, <1>8, <1>9 DEF Building

(* A command that is done has done all its days.                           *)
LEMMA DoneFacts ==
  ASSUME Building, NEW stage \in Stages, Done(stage)
  PROVE  \A i \in Steps(stage) : Behind(stage, i, job.of)
<1>1. job.stage = stage /\ job.step \in Nat \ {0} /\ job.step \notin Steps(stage)
  BY DEF Building, Bound, Done
<1>2. Steps(stage) = 1..LastStep[stage] /\ LastStep[stage] \in Nat
  <2>1. study \in Studies
    BY DEF Building, Setting
  <2>2. Behaviors * PackDays \in Nat
    BY <2>1, StudyFacts
  <2>. QED  BY <2>2, PacksAssumption DEF Steps, LastStep, Stages
<1>3. \A i \in Steps(stage) : i < job.step
  BY <1>1, <1>2
<1>. QED  BY <1>1, <1>3 DEF Building, Bound, Done

(* The stages' manifests, and the sources the researcher makes.            *)
LEMMA MadeKeeps ==
  ASSUME Building,
         WriteEncodings \/ WritePack \/ WriteCandidates \/ \E a \in PackSources : Make(a)
  PROVE  Building'
<1>1. /\ Stages \subseteq Artifacts /\ "encodings" \in Stages /\ "pack" \in Stages
      /\ "candidates" \in Artifacts /\ "candidates" \notin Stages
      /\ PackSources \in SUBSET Artifacts /\ "pack" \notin PackSources
  BY StudyFacts DEF Building, Setting, Stages, Artifacts
<1>2. CASE WriteEncodings
  <2>1. /\ Done("encodings") /\ Writes("encodings", job.of) /\ JobFree'
        /\ UNCHANGED <<study, config, days>>
    BY <1>2 DEF WriteEncodings, Ends, JobFree
  <2>2. \A i \in Steps("encodings") : Behind("encodings", i, job.of)
    BY <1>1, <2>1, DoneFacts
  <2>. QED  BY <1>1, <2>1, <2>2, ManifestKeeps
<1>3. CASE WritePack
  <2>1. /\ Done("pack") /\ Writes("pack", job.of) /\ JobFree'
        /\ UNCHANGED <<study, config, days>>
    BY <1>3 DEF WritePack, Ends, JobFree
  <2>2. \A i \in Steps("pack") : Behind("pack", i, job.of)
    BY <1>1, <2>1, DoneFacts
  <2>. QED  BY <1>1, <2>1, <2>2, ManifestKeeps
<1>4. CASE WriteCandidates
  <2>1. /\ Writes("candidates", job.of) /\ JobFree'
        /\ UNCHANGED <<study, config, days>>
    BY <1>4 DEF WriteCandidates, Ends, JobFree
  <2>. QED  BY <1>1, <2>1, ManifestKeeps
<1>5. ASSUME NEW a \in PackSources, Make(a)
      PROVE  Building'
  <2>1. /\ Writes(a, Numbers(MadeOf(a))) /\ JobFree' /\ UNCHANGED <<study, config, days>>
        /\ a # "encodings"
    BY <1>5 DEF Make, JobFree
  <2>2. a \in Artifacts /\ a \notin Stages
    BY <1>1, <2>1 DEF Stages
  <2>. QED  BY <2>1, <2>2, ManifestKeeps
<1>. QED  BY <1>2, <1>3, <1>4, <1>5

(* A refusal is answered when nobody works.                                *)
LEMMA AnswerKeeps ==
  ASSUME Building, Register \/ Clear
  PROVE  Building'
<1>1. UNCHANGED <<study, job, writings>> /\ JobFree /\ JobFree'
  <2>1. UNCHANGED <<study, job, writings>> /\ ended.how \in {"sources", "contract"}
    BY DEF Register, Clear
  <2>. QED  BY <2>1 DEF Building, Bound, JobFree
<1>2. /\ PackSources' = PackSources /\ Configs' = Configs
      /\ \A st \in Stages : Steps(st)' = Steps(st)
  BY <1>1, StudyStays
<1>3. Bound'
  BY <1>1 DEF Bound
<1>4. CASE Register
  <2>1. UNCHANGED <<made, days>>
    BY <1>4 DEF Register
  <2>2. DOMAIN config' = DOMAIN config
    BY <1>4 DEF Register
  <2>3. DOMAIN config'["pack"] = DOMAIN config["pack"]
    <3>1. "pack" \in DOMAIN config
      BY DEF Building, Setting, Configs
    <3>. QED  BY <1>4, <3>1 DEF Register, Numbers
  <2>4. Setting'
    BY <1>1, <1>2, <2>1, <2>2, <2>3 DEF Building, Setting
  <2>5. Computed' /\ AllWhole'
    BY <1>2, <2>1 DEF Building, Computed, AllWhole, Behind
  <2>. QED  BY <1>3, <2>4, <2>5 DEF Building
<1>5. CASE Clear
  <2>1. /\ config' = config /\ made' = [made EXCEPT ![ended.stage] = Nothing]
        /\ DOMAIN made = Artifacts /\ days = [st \in Stages |-> days[st]]
    BY <1>5 DEF Clear, Building, Setting
  <2>2. /\ DOMAIN made' = Artifacts
        /\ \A a \in Artifacts : made'[a] = Nothing \/ (a # ended.stage /\ made'[a] = made[a])
    BY <2>1
  <2>3. days' = IF ended.stage \in Stages
                THEN [days EXCEPT ![ended.stage] =
                                     [i \in DOMAIN days[ended.stage] |-> Nothing]]
                ELSE days
    BY <1>5, <2>1 DEF Clear
  <2>4. /\ days' = [st \in Stages |-> days'[st]]
        /\ \A st \in Stages : st # ended.stage => days'[st] = days[st]
        /\ ended.stage \in Stages =>
              days'[ended.stage] = [i \in DOMAIN days[ended.stage] |-> Nothing]
    BY <2>1, <2>3
  <2>5. \A st \in Stages : /\ DOMAIN days[st] = Steps(st)
                           /\ days[st] \in [Steps(st) -> Receipts \cup {Nothing}]
    BY DEF Building, Setting
  <2>6. \A st \in Stages : /\ days'[st] \in [Steps(st) -> Receipts \cup {Nothing}]
                           /\ \A i \in Steps(st) : days'[st][i] \in {Nothing, days[st][i]}
    <3>1. ASSUME NEW st \in Stages
          PROVE  /\ days'[st] \in [Steps(st) -> Receipts \cup {Nothing}]
                 /\ \A i \in Steps(st) : days'[st][i] \in {Nothing, days[st][i]}
      <4>1. CASE st = ended.stage
        <5>1. days'[st] = [i \in Steps(st) |-> Nothing]
          BY <2>4, <2>5, <4>1
        <5>. QED  BY <5>1
      <4>2. CASE st # ended.stage
        BY <2>4, <2>5, <4>2
      <4>. QED  BY <4>1, <4>2
    <3>. QED  BY <3>1
  <2>7. Setting'
    BY <1>1, <1>2, <2>1, <2>2, <2>4, <2>6 DEF Building, Setting
  <2>8. Computed'
    BY <1>2, <2>6 DEF Building, Computed, Sourced, FromContract
  <2>9. AllWhole'
    <3>1. ASSUME NEW st \in Stages, made'[st] # Nothing, NEW i \in Steps(st)
          PROVE  days'[st][i] # Nothing /\ days'[st][i].contract = made'[st].of
      <4>1. st \in Artifacts
        BY StudyFacts DEF Building, Setting
      <4>2. st # ended.stage /\ made'[st] = made[st]
        BY <2>2, <3>1, <4>1
      <4>3. days'[st] = days[st]
        BY <2>4, <4>2
      <4>. QED  BY <3>1, <4>2, <4>3 DEF Building, AllWhole, Behind
    <3>. QED  BY <1>2, <3>1 DEF AllWhole, Behind
  <2>. QED  BY <1>3, <2>7, <2>8, <2>9 DEF Building
<1>. QED  BY <1>4, <1>5

(* The reader of a whole pack that is bound to what is there: every day    *)
(* is of the contract on the manifest, and so are all its numbers.         *)
LEMMA ReadsFit ==
  ASSUME Building, Present(CandidateSources), Bindings, ReadPack
  PROVE  OffsetsFit'
<1>. DEFINE S == {"features", "encodings"}
            pack == days["pack"]
            encoded == days["encodings"]
            contract == made["pack"].of
<1>1. /\ read' = [number |-> Numbers(S), pack |-> pack, encoded |-> encoded,
                  encodings |-> made["encodings"].of]
  BY DEF ReadPack
<1>2. /\ read'.pack = pack /\ read'.encoded = encoded
      /\ read'.number = Numbers(S) /\ read'.encodings = made["encodings"].of
  BY <1>1
<1>3. /\ made["pack"] # Nothing /\ made["encodings"] # Nothing
      /\ "pack" \in Stages /\ "encodings" \in Stages /\ "pack" # "encodings"
  BY DEF Present, CandidateSources, Stages
<1>4. DOMAIN pack = Steps("pack") /\ DOMAIN encoded = Steps("encodings")
  BY <1>3 DEF Building, Setting
<1>5. \A a \in S : Numbers(S)[a] = contract[a]
  BY DEF Bindings, Numbers
<1>6. ASSUME NEW i \in DOMAIN pack
      PROVE  /\ pack[i] # Nothing /\ S \subseteq DOMAIN pack[i].of
             /\ \A a \in DOMAIN pack[i].of : pack[i].of[a] = contract[a]
  <2>1. pack[i] # Nothing /\ pack[i].contract = contract
    BY <1>3, <1>4, <1>6 DEF Building, AllWhole, Behind
  <2>2. Sourced("pack", pack[i])
    BY <1>3, <1>4, <1>6, <2>1 DEF Building, Computed
  <2>. QED  BY <2>1, <2>2 DEF Sourced, FromContract
<1>7. ASSUME NEW i \in DOMAIN encoded
      PROVE  encoded[i] # Nothing /\ encoded[i].of = made["encodings"].of
  <2>1. encoded[i] # Nothing /\ encoded[i].contract = made["encodings"].of
    BY <1>3, <1>4, <1>7 DEF Building, AllWhole, Behind
  <2>2. Sourced("encodings", encoded[i])
    BY <1>3, <1>4, <1>7, <2>1 DEF Building, Computed
  <2>. QED  BY <2>1, <2>2 DEF Sourced
<1>8. \A i \in DOMAIN pack : \A a \in S : pack[i].of[a] = Numbers(S)[a]
  BY <1>5, <1>6
<1>9. \A i \in DOMAIN pack : \A j \in DOMAIN pack : \A a \in DOMAIN pack[i].of :
         a \in DOMAIN pack[j].of => pack[j].of[a] = pack[i].of[a]
  BY <1>6
<1>. HIDE DEF pack, encoded, contract
<1>. QED  BY <1>2, <1>6, <1>7, <1>8, <1>9 DEF OffsetsFit

(* What ends without a word on the disk, or begins.                        *)
LEMMA CommandKeeps ==
  ASSUME Building,
         \/ BeginEncodings \/ BeginCandidates \/ \E again \in BOOLEAN : BeginPack(again)
         \/ \E stage \in DOMAIN days : RefuseDay(stage)
         \/ RefuseRows \/ KillBuild
         \/ RefuseEncodings \/ RefusePack \/ RefuseResidual \/ RefuseCandidates \/ RefuseNetEdge
  PROVE  Building'
<1>1. CASE BeginEncodings
  <2>1. Starts("encodings", EncodingContract) /\ Present({"features"})
    BY <1>1 DEF BeginEncodings
  <2>2. "encodings" \in Stages /\ "encodings" # "pack" /\ "encodings" # "candidates"
    BY DEF Stages
  <2>. QED  BY <2>1, <2>2, StartsKeeps
<1>2. CASE BeginCandidates
  <2>1. Starts("candidates", config["candidates"]) /\ Present(CandidateSources) /\ Bindings
    BY <1>2 DEF BeginCandidates
  <2>. QED  BY <2>1, StartsKeeps
<1>3. CASE \E again \in BOOLEAN : BeginPack(again)
  <2>1. Starts("pack", config["pack"]) /\ Present(PackSources) /\ Registered("pack")
    BY <1>3 DEF BeginPack
  <2>2. config["pack"] = Numbers(PackSources)
    BY <2>1 DEF Registered, Building, Setting
  <2>3. "pack" \in Stages /\ "encodings" # "pack" /\ "pack" # "candidates"
    BY DEF Stages
  <2>. QED  BY <2>1, <2>2, <2>3, StartsKeeps
<1>4. CASE (\E stage \in DOMAIN days : RefuseDay(stage)) \/ RefuseRows \/ KillBuild
  <2>1. UNCHANGED <<study, made, config, days, writings>> /\ JobFree'
    BY <1>4 DEF RefuseDay, RefuseRows, KillBuild, Ends, JobFree
  <2>. QED  BY <2>1, RestKeeps
<1>5. CASE RefuseEncodings \/ RefusePack \/ RefuseResidual \/ RefuseCandidates \/ RefuseNetEdge
  <2>1. UNCHANGED <<study, made, config, days, writings>> /\ JobFree'
    BY <1>5 DEF RefuseEncodings, RefusePack, RefuseResidual, RefuseCandidates, RefuseNetEdge,
       Refuses, JobFree
  <2>. QED  BY <2>1, RestKeeps
<1>. QED  BY <1>1, <1>2, <1>3, <1>4, <1>5

(* A step that leaves the command, the disk and the answers alone.         *)
LEMMA FrameKeeps ==
  ASSUME Building, UNCHANGED <<study, made, config, days, job, ended, writings>>
  PROVE  Building'
<1>1. /\ PackSources' = PackSources /\ Configs' = Configs
      /\ \A stage \in Stages : Steps(stage)' = Steps(stage)
  BY StudyStays
<1>2. Setting'
  BY <1>1 DEF Building, Setting
<1>3. Computed' /\ AllWhole'
  BY <1>1 DEF Building, Computed, AllWhole, Behind
<1>4. Bound'
  BY <1>1 DEF Building, Bound, JobFree, Present, Numbers, EncodingContract, Bindings, Behind
<1>. QED  BY <1>2, <1>3, <1>4 DEF Building

(* The candidates read the pack they are bound to.                         *)
LEMMA CandidatesKeep ==
  ASSUME Building, CollectCandidates
  PROVE  Building' /\ OffsetsFit'
<1>1. /\ Works("candidates") /\ ReadPack /\ GoesOn
      /\ UNCHANGED <<study, made, config, days, ended, writings>>
  BY DEF CollectCandidates, GoesOn
<1>2. /\ ~JobFree /\ job.stage = "candidates" /\ job.step \in Nat \ {0}
      /\ job = [stage |-> job.stage, of |-> job.of, step |-> job.step]
      /\ ended.how \notin {"sources", "contract"}
      /\ Present(CandidateSources) /\ Bindings
  BY <1>1 DEF Works, Building, Bound
<1>3. OffsetsFit'
  BY <1>1, <1>2, ReadsFit
<1>4. /\ PackSources' = PackSources /\ Configs' = Configs
      /\ \A stage \in Stages : Steps(stage)' = Steps(stage)
  BY <1>1, StudyStays
<1>5. Setting'
  BY <1>1, <1>4 DEF Building, Setting
<1>6. Computed' /\ AllWhole'
  BY <1>1, <1>4 DEF Building, Computed, AllWhole, Behind
<1>7. Bound'
  <2>1. /\ job'.stage = "candidates" /\ job'.step = job.step + 1
        /\ job' = [stage |-> job'.stage, of |-> job'.of, step |-> job'.step]
    BY <1>1, <1>2 DEF GoesOn
  <2>2. Present(CandidateSources)' /\ Bindings'
    BY <1>1, <1>2 DEF Present, Bindings
  <2>3. job'.stage \notin Stages /\ job'.step \in Nat \ {0}
    BY <1>2, <2>1 DEF Stages
  <2>. QED  BY <1>1, <1>2, <2>1, <2>2, <2>3 DEF Bound, Stages
<1>. QED  BY <1>3, <1>5, <1>6, <1>7 DEF Building

LEMMA PackStart == PackInit => PackInv
<1>. SUFFICES ASSUME PackInit PROVE PackInv
  OBVIOUS
<1>1. /\ study \in Studies /\ made = [a \in Artifacts |-> Nothing]
      /\ config = [s \in Configs |-> [a \in RegisteredBy[s] |-> 0]]
      /\ days = [stage \in Stages |-> [i \in Steps(stage) |-> Nothing]]
      /\ job = Nothing /\ read = Nothing /\ writings = [a \in Artifacts |-> 0]
  BY DEF PackInit, Stages
<1>2. DOMAIN config["pack"] = PackSources
  BY <1>1 DEF Configs, RegisteredBy
<1>3. \A stage \in Stages : \A i \in Steps(stage) : days[stage][i] = Nothing
  BY <1>1
<1>4. days = [stage \in Stages |-> days[stage]]
      /\ \A stage \in Stages : days[stage] \in [Steps(stage) -> Receipts \cup {Nothing}]
  BY <1>1
<1>5. Setting
  BY <1>1, <1>2, <1>4 DEF Setting
<1>6. Stages \subseteq Artifacts
  BY <1>1, StudyFacts
<1>7. Computed /\ AllWhole /\ Bound
  BY <1>1, <1>3, <1>6 DEF Computed, AllWhole, Bound, JobFree
<1>. QED  BY <1>1, <1>5, <1>7 DEF PackInv, OffsetsFit, Building

LEMMA PacksNext ==
  ASSUME PackInv, PackNext
  PROVE  PackInv'
<1>1. Building /\ ~training
  BY DEF PackInv, PackNext
<1>2. CASE \/ BeginEncodings \/ BeginCandidates \/ \E again \in BOOLEAN : BeginPack(again)
           \/ \E stage \in DOMAIN days : RefuseDay(stage)
           \/ RefuseRows \/ KillBuild
           \/ RefuseEncodings \/ RefusePack \/ RefuseResidual \/ RefuseCandidates
           \/ RefuseNetEdge
  <2>1. read' = read
    BY <1>2 DEF BeginEncodings, BeginCandidates, BeginPack, Starts, RefuseDay, RefuseRows,
       KillBuild, RefuseEncodings, RefusePack, RefuseResidual, RefuseCandidates,
       RefuseNetEdge, Refuses
  <2>2. Building'
    BY <1>1, <1>2, CommandKeeps
  <2>. QED  BY <2>1, <2>2 DEF PackInv, OffsetsFit
<1>3. CASE KeepEncodedDay \/ EncodeDay \/ KeepDay \/ BuildDay
  <2>1. read' = read
    BY <1>3 DEF KeepEncodedDay, EncodeDay, KeepDay, BuildDay
  <2>. QED  BY <1>1, <1>3, <2>1, PackDaysKeep DEF PackInv, OffsetsFit
<1>4. CASE WriteEncodings \/ WritePack \/ WriteCandidates \/ \E a \in PackSources : Make(a)
  <2>1. read' = read
    BY <1>4 DEF WriteEncodings, WritePack, WriteCandidates, Make
  <2>. QED  BY <1>1, <1>4, <2>1, MadeKeeps DEF PackInv, OffsetsFit
<1>5. CASE Register \/ Clear
  <2>1. read' = read
    BY <1>5 DEF Register, Clear
  <2>. QED  BY <1>1, <1>5, <2>1, AnswerKeeps DEF PackInv, OffsetsFit
<1>6. CASE PauseBuild \/ UnpauseBuild
  <2>1. UNCHANGED <<study, made, config, days, job, ended, read, writings>>
    BY <1>6 DEF PauseBuild, UnpauseBuild
  <2>. QED  BY <1>1, <2>1, FrameKeeps DEF PackInv, OffsetsFit
<1>7. CASE CollectCandidates
  BY <1>1, <1>7, CandidatesKeep DEF PackInv
<1>8. CASE TrainState \/ TrainOnPolicy \/ TrainResidual
  <2>1. Present(CandidateSources) /\ Bindings /\ ReadPack /\ training'
    BY <1>8 DEF TrainState, TrainOnPolicy, TrainResidual, Trains, SourcesUnchanged
  <2>. QED  BY <1>1, <2>1, ReadsFit DEF PackInv
<1>9. CASE TrainNetEdge
  BY <1>9 DEF TrainNetEdge, PackInv, OffsetsFit
<1>. QED  BY <1>2, <1>3, <1>4, <1>5, <1>6, <1>7, <1>8, <1>9 DEF PackNext, PackWork

(* Whatever the days, the edits and the halts: whoever reads the pack      *)
(* reads it beside the features and the encodings each of its days was     *)
(* computed from.                                                          *)
THEOREM OffsetsAlwaysFit == NetEdgeSpec => []OffsetsFit
<1>1. NetEdgeInit => PackInv
  BY PackStart DEF NetEdgeInit
<1>2. PackInv /\ [NetEdgeNext]_<<packVars, fitVars>> => PackInv'
  <2>1. CASE PackNext
    BY <2>1, PacksNext
  <2>2. CASE LoadCandidates
    BY <2>2 DEF LoadCandidates, PackInv, OffsetsFit
  <2>3. ASSUME PackInv, UNCHANGED packVars
        PROVE  PackInv'
    BY <2>3, FrameKeeps DEF packVars, PackInv, OffsetsFit
  <2>. QED  BY <2>1, <2>2, <2>3 DEF NetEdgeNext, TrainCandidates
<1>3. PackInv => OffsetsFit
  BY DEF PackInv
<1>. QED  BY <1>1, <1>2, <1>3, PTL DEF NetEdgeSpec

===============================================================================
