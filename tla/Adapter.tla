------------------------------ MODULE Adapter ------------------------------
(***************************************************************************)
(* The H010 replay adapter on top of the simulator: each trade of the tape *)
(* is liquidity first and evidence for policy calls afterwards, and each   *)
(* call turns into predictions, cancellations and orders.  Whatever the    *)
(* policy network answers is left open within its physical action mask.    *)
(*                                                                         *)
(* A call is applied in several steps, one for each call into the          *)
(* simulator; the variable call is its local state, and while it is set    *)
(* nothing else can run.  A whole share is the last place of the           *)
(* adapter's quantities, which are rounded to the nearest one.             *)
(*                                                                         *)
(* executions is what build_logged_execution_index of H015 makes of the    *)
(* audit records so far.  It is a fold over these records, so it is kept   *)
(* up to date here instead of the records themselves.                      *)
(***************************************************************************)
EXTENDS Simulator, Sequences

CONSTANTS
    Fractions, Whole,   \* size fractions, in Whole parts
    MaxDecisions,       \* bound: policy decisions
    None

ASSUME AdapterAssumption ==
    /\ Whole \in Nat \ {0} /\ Fractions \subseteq 0 .. Whole
    /\ MaxDecisions \in Nat
    /\ None \notin Tokens

VARIABLES
    memory,      \* prediction_memory: the token of each market's last call
    resolved,    \* resolved_conditions
    trade,       \* the market and reference prices of the last trade
    call,        \* the policy call being applied
    decided,     \* decisions so far, which number them
    source,      \* decision_id of each order
    executions   \* decisions as H015 attributes fills and payouts to them

auditVars == <<source, executions>>
adapterVars == <<memory, resolved, trade, call, decided, auditVars>>
allVars == <<vars, adapterVars>>

NoMemory == [token |-> "none"]
NoCall == [action |-> "none"]
NoTrade == [condition |-> "none"]
Refused == <<[token |-> "refused"]>>

Unused == {o \in OrderIds : orders[o] = NoOrder}   \* bound: a call needs free ones

Free == Idle /\ call = NoCall
-----------------------------------------------------------------------------
(* What the adapter reads of the simulator.                                *)

SlipAvailableCash == cash   \* reservations are not taken off
AvailableCash == IF cash > ReservedCash THEN cash - ReservedCash ELSE 0

Equity == cash + exposure

PositionsIn(c) == {k \in TokensOf(c) : shares[k] > 0}

PhysicalActionMask(c) ==
    {"SKIP", "HOLD"}
        \cup (IF AvailableCash > 0 THEN {"CALL"} ELSE {})
        \cup (IF memory[c] # NoMemory \/ PositionsIn(c) # {} THEN {"UPDATE"} ELSE {})
        \cup (IF PositionsIn(c) # {} THEN {"REDUCE", "CLOSE"} ELSE {})

(* infer: the network answers within the mask, and the veto of H022 turns  *)
(* a call into a skip, which is in every mask.                             *)
Answers(c) == PhysicalActionMask(c)

(* A call that names no outcome means the token of the market's last call, *)
(* or else the position that cost most.                                    *)
Costliest(c) ==
    {k \in PositionsIn(c) : \A j \in PositionsIn(c) : basis[j] <= basis[k]}

SelectedTokens(c, action) ==
    IF action = "CALL" THEN TokensOf(c)
    ELSE IF memory[c] # NoMemory /\ memory[c].token # None THEN {memory[c].token}
    ELSE IF PositionsIn(c) # {} THEN Costliest(c)
    ELSE {None}
-----------------------------------------------------------------------------
(* The attribution of H015.  It knows calls and skips, and buys only; one  *)
(* record of another kind makes it refuse the audit.                       *)
NoExecution == [token |-> None, requested |-> 0, filled |-> 0, cost |-> 0, paid |-> 0]

IndexDecision(action, k) ==
    executions' =
        IF executions = Refused \/ action \notin {"CALL", "SKIP"} THEN Refused
        ELSE Append(executions, [NoExecution EXCEPT !.token =
                                    IF action = "CALL" THEN k ELSE None])

IndexOrder(side, quantity) ==
    executions' =
        IF executions = Refused \/ side = "SELL" THEN Refused
        ELSE [executions EXCEPT ![call.decision].requested = @ + quantity]

IndexFill(o, quantity, cost) ==
    executions' =
        IF executions = Refused THEN Refused
        ELSE [executions EXCEPT ![source[o]].filled = @ + quantity,
                                ![source[o]].cost = @ + cost]

SlipPaid(e, payout) == (e.requested * payout) * Unit   \* unfilled shares, too
PaidFor(e, payout) == (e.filled * payout) * Unit

(* The code knows the payouts beforehand and adds them fill by fill.       *)
IndexPayout(c, payouts) ==
    executions' =
        IF executions = Refused THEN Refused
        ELSE [d \in DOMAIN executions |->
                IF executions[d].token \in TokensOf(c)
                THEN [executions[d] EXCEPT
                         !.paid = PaidFor(executions[d], payouts[executions[d].token])]
                ELSE executions[d]]
-----------------------------------------------------------------------------
(* observe_trade; the trade is evidence until the tape goes on.  The tape  *)
(* has no trade of a market behind its resolution.                         *)
ReferencePrices(k, price) ==
    [j \in TokensOf(ConditionOf[k]) |-> IF j = k THEN price ELSE One - price]

ObserveTrade(t, k, price, available, screened) ==
    /\ call = NoCall
    /\ ConditionOf[k] \notin resolved
    /\ LiquidityEvent(t, k, price, available, screened)
    /\ trade' = IF decided = MaxDecisions THEN NoTrade   \* bound: no more calls
                ELSE [condition |-> ConditionOf[k], prices |-> ReferencePrices(k, price)]
    /\ UNCHANGED <<memory, resolved, call, decided, auditVars>>

FillBuy(o) ==
    /\ BuyFill(o)
    /\ LET price == ExecutionPrice("BUY", event.price)
           quantity == FillShares(o, price)
       IN  IndexFill(o, quantity, Cost(quantity, price))
    /\ UNCHANGED <<memory, resolved, trade, call, decided, source>>

FillSell(o) == SellFill(o) /\ UNCHANGED adapterVars
Pass(o)     == PassOver(o) /\ UNCHANGED adapterVars
EndTrade    == LiquidityDone /\ UNCHANGED adapterVars

(* apply_call, up to what depends on the action: the prediction and the    *)
(* market's memory.                                                        *)
SlipPending(c) == {}   \* the market's open orders stay
Pending(c) == OpenIn(c)

Decide(action, k, fraction) ==
    LET c == trade.condition
    IN  /\ Free /\ trade # NoTrade /\ decided < MaxDecisions
        /\ action \in Answers(c)
        /\ k \in SelectedTokens(c, action)
        /\ RecordPrediction(now)
        /\ memory' = [memory EXCEPT ![c] = [token |-> k]]
        /\ decided' = decided + 1
        /\ call' = IF action \in {"SKIP", "HOLD"} THEN NoCall
                   ELSE [action |-> action, fraction |-> fraction,
                         decision |-> decided + 1, cancel |-> Pending(c),
                         tokens |-> IF action \in {"REDUCE", "CLOSE"} THEN PositionsIn(c)
                                    ELSE {k} \ {None}]
        /\ call' # NoCall => Cardinality(call'.tokens) <= Cardinality(Unused)
        /\ IndexDecision(action, k)
        /\ UNCHANGED <<resolved, trade, source>>

CancelPending(o) ==
    /\ call # NoCall /\ o \in call.cancel
    /\ CancelOrder(o, now)
    /\ call' = [call EXCEPT !.cancel = @ \ {o}]
    /\ UNCHANGED <<memory, resolved, trade, decided, auditVars>>

(* _buy_to_fraction: up to the fraction of equity, for what is available.  *)
TargetCost == Quotient(Equity * call.fraction, Whole)
BuyLimit(k) == AtMost(One, trade.prices[k] + AdverseTicks)
SellLimit(k) ==
    IF trade.prices[k] < AdverseTicks THEN 0 ELSE trade.prices[k] - AdverseTicks

AdditionalCost(k) ==
    IF TargetCost <= basis[k] THEN 0 ELSE AtMost(TargetCost - basis[k], AvailableCash)

BuyQuantity(k) == BuySharesFor(AdditionalCost(k), BuyLimit(k))

SlipSoldFraction == call.fraction   \* CLOSE sells a fraction as REDUCE does
SoldFraction == IF call.action = "CLOSE" THEN Whole ELSE call.fraction

Buys(k) ==
    \/ call.action = "CALL"
    \/ call.action = "UPDATE" /\ (shares[k] = 0 \/ basis[k] < TargetCost)

SellQuantity(k) ==
    IF call.action # "UPDATE" THEN Quotient(shares[k] * SoldFraction, Whole)
    ELSE IF basis[k] = 0 THEN 0
    ELSE Quotient(shares[k] * (basis[k] - TargetCost), basis[k])

Wanted(k) ==
    IF Buys(k) THEN [side |-> "BUY", quantity |-> BuyQuantity(k), limit |-> BuyLimit(k)]
    ELSE [side |-> "SELL", quantity |-> SellQuantity(k), limit |-> SellLimit(k)]

PlaceFor(o, k) ==
    LET w == Wanted(k)
    IN  /\ call # NoCall /\ call.cancel = {} /\ k \in call.tokens
        /\ w.quantity \in Sizes /\ w.limit \in Limits
        /\ PlaceOrder(o, now, k, w.side, w.quantity, w.limit)
        /\ call' = [call EXCEPT !.tokens = @ \ {k}]
        /\ source' = [source EXCEPT ![o] = call.decision]
        /\ IndexOrder(w.side, w.quantity)
        /\ UNCHANGED <<memory, resolved, trade, decided>>

NoOrderFor(k) ==
    /\ call # NoCall /\ call.cancel = {} /\ k \in call.tokens
    /\ Wanted(k).quantity = 0
    /\ call' = [call EXCEPT !.tokens = @ \ {k}]
    /\ UNCHANGED <<vars, memory, resolved, trade, decided, auditVars>>

EndCall ==
    /\ call # NoCall /\ call.cancel = {} /\ call.tokens = {}
    /\ call' = NoCall
    /\ UNCHANGED <<vars, memory, resolved, trade, decided, auditVars>>

(* One outcome of a market pays a dollar a share, which need not be one    *)
(* of Tokens.                                                              *)
Payouts(c) ==
    {[k \in Tokens |-> IF k = winner THEN One ELSE 0] : winner \in TokensOf(c) \cup {None}}

ResolveMarket(c, t, payouts) ==
    /\ call = NoCall /\ c \notin resolved
    /\ Resolve(c, t, payouts)
    /\ memory' = [memory EXCEPT ![c] = NoMemory]
    /\ resolved' = resolved \cup {c}
    /\ trade' = NoTrade
    /\ IndexPayout(c, payouts)
    /\ UNCHANGED <<call, decided, source>>

(* The end of a day: history is compacted, and the next day may begin in   *)
(* another process that has the checkpoint of the compacted account.       *)
Compact ==
    /\ call = NoCall
    /\ CompactHistory
    /\ trade' = NoTrade
    /\ source' = [o \in OrderIds |-> IF orders'[o] = NoOrder THEN 0 ELSE source[o]]
    /\ UNCHANGED <<memory, resolved, call, decided, executions>>

Restore ==
    /\ call = NoCall
    /\ \A o \in OrderIds : orders[o].status \notin FINAL_STATUSES
    /\ Resume
    /\ trade' = NoTrade
    /\ UNCHANGED <<memory, resolved, call, decided, auditVars>>
-----------------------------------------------------------------------------
AdapterInit ==
    /\ Init
    /\ memory = [c \in Conditions |-> NoMemory]
    /\ resolved = {}
    /\ trade = NoTrade
    /\ call = NoCall
    /\ decided = 0
    /\ source = [o \in OrderIds |-> 0]
    /\ executions = <<>>

AdapterNext ==
    \/ \E t \in now .. Horizon, k \in Tokens, price \in Prices,
          available \in Depths, screened \in SUBSET openIds :
          ObserveTrade(t, k, price, available, screened)
    \/ \E o \in OrderIds : FillBuy(o)
    \/ \E o \in OrderIds : FillSell(o)
    \/ \E o \in OrderIds : Pass(o)
    \/ EndTrade
    \/ \E action \in {"CALL", "SKIP", "UPDATE", "HOLD", "REDUCE", "CLOSE"},
          k \in Tokens \cup {None}, fraction \in Fractions :
          Decide(action, k, fraction)
    \/ \E o \in OrderIds : CancelPending(o)
    \/ \E o \in OrderIds, k \in Tokens : PlaceFor(o, k)
    \/ \E k \in Tokens : NoOrderFor(k)
    \/ EndCall
    \/ \E c \in Conditions, t \in now .. Horizon :
          \E payouts \in Payouts(c) : ResolveMarket(c, t, payouts)
    \/ Compact
    \/ Restore

AdapterSpec == AdapterInit /\ [][AdapterNext]_allVars
-----------------------------------------------------------------------------
(* Properties.                                                             *)

(* The aggregates that the simulator carries along pass the full scan that *)
(* snapshot makes of them, whenever a snapshot can be taken: a checkpoint  *)
(* is never refused.  This is not so of the simulator alone, where a sale  *)
(* of all shares and a buy in one event lose the mark between them; the    *)
(* adapter never has orders of both sides open on a token.                 *)
SnapshotsHold == Idle => FullScan

(* An order the adapter sizes is rejected for nothing but the last place   *)
(* of its quantity, whatever is reserved for other markets and whatever a  *)
(* call finds still open of earlier ones: it is a BUY for nearly all the   *)
(* cash there is, whose division was rounded up, and asks for at most half *)
(* a last place more than the account has free.  A SELL is never rejected. *)
CallsAreCovered ==
    [][\A o \in OrderIds :
         orders'[o] # orders[o] /\ orders'[o].status = "REJECTED" =>
             LET asked == Cost(orders'[o].requested, orders'[o].limit)
             IN  /\ orders'[o].side = "BUY"
                 /\ 2 * (asked - (cash - ReservedCash))
                        <= Cost(1, orders'[o].limit)]_allVars

Decisions(S) == {d \in DOMAIN executions : executions[d].token \in S}
Sum(field, S) == Total([d \in DOMAIN executions |-> executions[d][field]], Decisions(S))
Settled == {k \in Tokens : ConditionOf[k] \in resolved}

(* What H015 attributes to the decisions is what the account holds: the    *)
(* shares and the cost of each position of a market still open, and the    *)
(* realized profit of all that are resolved, however orders were filled,   *)
(* expired, were cancelled or were cut in two by a restart.                *)
AttributionIsAccount ==
    executions # Refused =>
        /\ \A k \in Tokens \ Settled :
              Sum("filled", {k}) = shares[k] /\ Sum("cost", {k}) = basis[k]
        /\ Sum("paid", Settled) = realized + Sum("cost", Settled)
=============================================================================
