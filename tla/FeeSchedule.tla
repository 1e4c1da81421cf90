---- MODULE FeeSchedule ----
(***************************************************************************)
(* Fee schedules of H016 and the replays that use them.  The audits of     *)
(* replays say which markets need a schedule and when; a build proves one  *)
(* for each interval from transaction receipts, market info and market     *)
(* trades, all kept in caches that survive a stop; a replay under the book *)
(* fails closed at a trade without a schedule, and its miss is a target of *)
(* the next build (scripts/build_h016_fee_schedule.py,                     *)
(* sphinx_trace/fee_schedule_h016.py, sphinx_trace/polymarket_fees.py,     *)
(* scripts/run_h010_policy_replay.py).                                     *)
(*                                                                         *)
(* What a receipt shows of a market's active fill is the set of registered *)
(* tariffs its fee agrees with: none, one, or several that rounding does   *)
(* not tell apart.  Its protocol is that of the contract which emitted the *)
(* fill, and CLOB_V2_CUTOVER_UNIX need not be the second in which one      *)
(* contract gave way to the other.  A transaction stands for its receipt;  *)
(* smaller numbers have the better score.                                  *)
(***************************************************************************)
EXTENDS Integers, Sequences, FiniteSets, FiniteSetsExt

CONSTANTS
    Tape,         \* the trades in order: condition, time, transaction
    Decided,      \* trades a policy decision is bound to
    DayLength,    \* seconds of a day's shard
    Latency, Wait,        \* latency_seconds, maximum_fill_wait_seconds
    Boundaries,   \* SCHEDULE_BOUNDARIES
    FirstFee,     \* FIRST_PLATFORM_FEE_UNIX
    Cutover,      \* CLOB_V2_CUTOVER_UNIX
    TxTime,       \* time of each transaction
    Market,       \* per condition, the transactions the Data API lists
    Known,        \* tariffs of KNOWN_CURVE_SCHEDULES
    Receipts,     \* what the receipts may show, and which of them are V1's: pairs
    Infos,        \* what the market infos may allow, a set of functions
    PerSegment,   \* candidates_per_segment
    WaveSize,     \* receipts or answers stored at once
    MaxRounds,    \* bound on output directories of builds
    MaxStops,     \* bound on kills, pauses and failed requests
    None

Rows == DOMAIN Tape
Conditions == {Tape[i].condition : i \in Rows}
DayOf(i) == Tape[i].time \div DayLength + 1
LastDay == DayOf(Len(Tape))
Rounds == 1 .. MaxRounds

Zero == "zero"    \* the fee is zero; none is refunded whole
Gross == "gross"  \* the fee before its refund, where the refund is not seen

ASSUME FeeAssumption ==
    /\ Tape \in Seq([condition : Nat, time : Nat, tx : Nat]) /\ Tape # <<>>
    /\ \A i \in 2 .. Len(Tape) : Tape[i - 1].time =< Tape[i].time
    /\ \A i \in Rows : TxTime[Tape[i].tx] = Tape[i].time
    /\ Decided \subseteq Rows
    /\ {DayLength, PerSegment, WaveSize, MaxRounds} \subseteq Nat \ {0}
    /\ {Latency, Wait, FirstFee, Cutover, MaxStops} \subseteq Nat
    /\ Boundaries \in SUBSET Nat /\ IsFiniteSet(Boundaries)
    /\ {FirstFee, Cutover} \subseteq Boundaries
    /\ FirstFee =< Cutover
    /\ \A c \in Conditions : Market[c] \in SUBSET Nat

VARIABLES
    shown,     \* shown[tx][c]: tariffs the receipt's fill of c agrees with, {None} without evidence
    ofV1,      \* transactions whose fills a V1 contract emitted
    listed,    \* listed[c]: tariffs the market info of c leaves, {} without fee details
    base,      \* days of the first replay, which has no book
    replay,    \* per round, the replay under its book: days done, miss, calls open
    round,
    seeded,    \* the round's command names the book before it as a seed
    pc,        \* where the build is; "idle": no build runs
    plan,      \* plan.json of the round
    receipts,  \* receipt cache: per transaction, the markets whose refund it holds
    infos,     \* market info cache
    trades,    \* market trade cache: per condition, the transactions it holds
    open,      \* segments not resolved
    rank,
    found,     \* schedules, with their proofs
    book,      \* per round, the manifest and what it vouches for
    failed,    \* failures.json of the round
    stops

truth == <<shown, ofV1, listed>>
caches == <<receipts, infos, trades>>
work == <<open, rank, found>>
build == <<pc, plan, caches, work, book, failed>>
vars == <<truth, base, replay, round, seeded, build, stops>>

(***************************************************************************)
(* The plan.                                                               *)
(***************************************************************************)
(* Mutant: the half-open interval ends with the last second of a fill.     *)
SlipHorizon == Latency + Wait

(* An order fills at its expiry, too; intervals are half-open.             *)
Horizon == Latency + Wait + 1

Window(i, length) == [condition |-> Tape[i].condition, from |-> Tape[i].time, to |-> Tape[i].time + length]
Until(days) == {i \in Decided : DayOf(i) =< days}

(* Mutant: the miss of a replay is not read.                               *)
SlipTargets(sources) == {Window(i, Horizon) : i \in Until(sources.days)}

(* Every replay audits each decision of the days it finished, whatever it  *)
(* did about it.  Windows of orders and fills lie in those of decisions.   *)
Targets(sources) ==
    {Window(i, Horizon) : i \in Until(sources.days)} \cup {Window(i, 1) : i \in sources.misses}

End == Max({Tape[Len(Tape)].time, Max(Boundaries)}) + Horizon + 1
Epochs == {e \in (Boundaries \cup {0}) \X (Boundaries \cup {End}) :
              e[1] < e[2] /\ \A x \in Boundaries : ~(e[1] < x /\ x < e[2])}
Bigger(a, b) == IF a > b THEN a ELSE b
Lesser(a, b) == IF a < b THEN a ELSE b
Piece(w, epoch) ==
    [condition |-> w.condition, from |-> Bigger(w.from, epoch[1]), to |-> Lesser(w.to, epoch[2])]
Pieces(windows, epoch) == {p \in {Piece(w, epoch) : w \in windows} : p.from < p.to}

(* One interval per market and fee epoch, from the first piece to the last.*)
Joined(c, pieces) ==
    IF pieces = {} THEN {}
    ELSE {[condition |-> c, from |-> Min({p.from : p \in pieces}), to |-> Max({p.to : p \in pieces})]}
SplitRanges(targets) ==
    UNION {Joined(c, Pieces({w \in targets : w.condition = c}, e)) : c \in Conditions, e \in Epochs}

RowsIn(s) == {i \in Rows : Tape[i].condition = s.condition /\ s.from =< Tape[i].time /\ Tape[i].time < s.to}
RowsOf(s, tx) == Cardinality({i \in RowsIn(s) : Tape[i].tx = tx})

(* Transactions with the fewest rows of the market first.                  *)
Better(s, x, y) == RowsOf(s, x) < RowsOf(s, y) \/ (RowsOf(s, x) = RowsOf(s, y) /\ x < y)
Candidates(s) ==
    LET all == {Tape[i].tx : i \in RowsIn(s)}
    IN  [k \in 1 .. Lesser(PerSegment, Cardinality(all)) |->
            CHOOSE tx \in all : Cardinality({x \in all : Better(s, x, tx)}) = k - 1]

IsV1(s) == s.to =< Cutover

(* An interval without trades cannot fill and is left out.                 *)
Segments(targets) ==
    {[condition |-> s.condition, from |-> s.from, to |-> s.to, txs |-> Candidates(s)] :
        s \in {s \in SplitRanges(targets) : RowsIn(s) # {}}}

-----------------------------------------------------------------------------
(***************************************************************************)
(* What a receipt proves.                                                  *)
(***************************************************************************)
V1(tx) == tx \in ofV1

(* There is one active fill, with a fee; none that a V1 contract kept      *)
(* without a refund, which is no evidence at any stage.                    *)
Charged(tx, c) == shown[tx][c] \cap {Zero, None} = {}

(* The refund of a V1 fee is an event of its own in the receipt; V2 has no *)
(* refunds.                                                                *)
Refunded(tx, c, refunds) == V1(tx) /\ c \in refunds
Capped(tx, c, refunds) == V1(tx) /\ Charged(tx, c) /\ ~Refunded(tx, c, refunds)
Paid(tx, c, refunds) == IF Capped(tx, c, refunds) THEN {Gross} ELSE shown[tx][c]

(* Mutant: a V1 fee is taken as it stands although its refund is not seen. *)
SlipInferred(tx, c, refunds, rates) ==
    LET matches == Paid(tx, c, refunds) \cap (rates \cup {Gross})
    IN  {t \in matches : matches = {t}}

(* The one tariff among `rates' that the receipt agrees with, if it is one.*)
Inferred(tx, c, refunds, rates) ==
    LET matches == Paid(tx, c, refunds) \cap (rates \cup {Gross})
    IN  {t \in matches : matches = {t} /\ ~Capped(tx, c, refunds)}

Direct(tx, c, refunds) == Inferred(tx, c, refunds, Known \cup {Zero})
Reconciled(tx, c, refunds) == Inferred(tx, c, refunds, listed[c])

(* The one tariff that two or more receipts have in common; one that       *)
(* agrees with no tariff leaves none.                                      *)
Consensus(samples, c) ==
    LET common == {t \in listed[c] : \A tx \in samples : t \in shown[tx][c]}
    IN  {t \in common : Cardinality(samples) >= 2 /\ common = {t}}

Schedule(s, v1, tariff, source, tx) ==
    [condition |-> s.condition, from |-> s.from, to |-> s.to, v1 |-> v1,
     tariff |-> tariff, source |-> source, tx |-> tx]

(* A schedule with what is published as its proof: the receipts, each with *)
(* the one refund that is the schedule's own, and the market's trade.      *)
Proven(schedule, txs, trade) ==
    [schedule |-> schedule, trade |-> trade,
     proofs |-> {[tx |-> tx, refunds |-> receipts[tx] \cap {schedule.condition}] : tx \in txs}]

-----------------------------------------------------------------------------
(***************************************************************************)
(* A build.  A stop loses all but the plan, the caches and the results; a  *)
(* command that starts again begins with the official zero schedules.      *)
(***************************************************************************)
Sources ==
    [base |-> base, days |-> Max({base} \cup {replay[n].days : n \in 1 .. round - 1}),
     misses |-> UNION {replay[n].miss : n \in 1 .. round - 1}]

Init ==
    /\ \E r \in Receipts : shown = r[1] /\ ofV1 = r[2]
    /\ listed \in Infos
    /\ base \in 1 .. LastDay
    /\ replay = [n \in Rounds |-> [days |-> 0, miss |-> {}, calls |-> {}]]
    /\ round = 1
    /\ seeded = FALSE
    /\ pc = "idle"
    /\ plan = None
    /\ receipts = <<>>
    /\ infos = {}
    /\ trades = <<>>
    /\ open = {}
    /\ rank = 1
    /\ found = {}
    /\ book = [n \in Rounds |-> None]
    /\ failed = FALSE
    /\ stops = 0

Unfinished == pc = "idle" /\ book[round] = None /\ ~failed

(* Each replay named must have a manifest, or a shard and a checkpoint.    *)
Usable == base > 0 /\ \A n \in 1 .. round - 1 : replay[n].days > 0

(* plan.json is made once and must be of what the replays hold now.        *)
Begin ==
    /\ Unfinished
    /\ Usable
    /\ plan # None => plan.sources = Sources
    /\ plan' = IF plan = None THEN [sources |-> Sources, segments |-> Segments(Targets(Sources))] ELSE plan
    /\ pc' = IF seeded THEN "seed" ELSE "official"
    /\ UNCHANGED <<truth, base, replay, round, seeded, caches, work, book, failed, stops>>

(* A plan of other sources is refused: the command gets a new directory.   *)
StartOver ==
    /\ Unfinished
    /\ plan # None
    /\ plan.sources # Sources
    /\ plan' = None
    /\ receipts' = <<>> /\ infos' = {} /\ trades' = <<>>
    /\ UNCHANGED <<truth, base, replay, round, seeded, pc, work, book, failed, stops>>

Merged(f, txs, refunds(_)) ==
    [tx \in DOMAIN f \cup txs |-> IF tx \in DOMAIN f THEN f[tx] \cup refunds(tx) ELSE refunds(tx)]

(* The proofs of the book before this one go into the caches, where they   *)
(* count as complete answers.                                              *)
Seed ==
    /\ pc = "seed"
    /\ LET old == book[round - 1].found
           proofs == UNION {f.proofs : f \in old}
           Refunds(tx) == UNION {p.refunds : p \in {p \in proofs : p.tx = tx}}
           Listed(c) == UNION {f.trade : f \in {f \in old : f.schedule.condition = c}}
       IN  /\ receipts' = Merged(receipts, {p.tx : p \in proofs}, Refunds)
           /\ infos' = infos \cup book[round - 1].infos
           /\ trades' = Merged(trades, {c \in Conditions : Listed(c) # {}}, Listed)
    /\ pc' = "official"
    /\ UNCHANGED <<truth, base, replay, round, seeded, plan, work, book, failed, stops>>

(* Intervals that end before there were fees need no evidence.             *)
Official ==
    /\ pc = "official"
    /\ LET free == {s \in plan.segments : s.to =< FirstFee}
       IN  /\ found' = {Proven(Schedule(s, IsV1(s), Zero, "official", None), {}, {}) : s \in free}
           /\ open' = plan.segments \ free
           /\ pc' = IF plan.segments = free THEN "publish" ELSE "receipts"
    /\ rank' = 1
    /\ UNCHANGED <<truth, base, replay, round, seeded, plan, caches, book, failed, stops>>

(* Mutant: trades after the cutover are read, too.                         *)
SlipMarketWide(c) == trades[c]

(* The market's trades from before the cutover, by their time, whatever    *)
(* the segment's epoch.                                                    *)
BeforeCutover(txs) == {tx \in txs : TxTime[tx] < Cutover}
MarketWide(c) == BeforeCutover(trades[c])

Ranked == {s \in open : rank =< Len(s.txs)}
Wanted ==
    CASE pc = "receipts" -> {s.txs[rank] : s \in Ranked}
      [] pc = "market" -> UNION {MarketWide(s.condition) : s \in open}
      [] OTHER -> {}
Wave(missing) == {x \in missing : Cardinality({y \in missing : y < x}) < WaveSize}
Markets == {s.condition : s \in open}

FetchReceipts ==
    /\ Wanted \ DOMAIN receipts # {}
    /\ LET new == Wave(Wanted \ DOMAIN receipts)
       IN  receipts' = [tx \in DOMAIN receipts \cup new |-> IF tx \in new THEN Conditions ELSE receipts[tx]]
    /\ UNCHANGED <<truth, base, replay, round, seeded, pc, plan, infos, trades, work, book, failed, stops>>

FetchInfos ==
    /\ pc = "info"
    /\ Markets \ infos # {}
    /\ infos' = infos \cup Wave(Markets \ infos)
    /\ UNCHANGED <<truth, base, replay, round, seeded, pc, plan, receipts, trades, work, book, failed, stops>>

FetchTrades ==
    /\ pc = "trades"
    /\ Markets \ DOMAIN trades # {}
    /\ LET new == Wave(Markets \ DOMAIN trades)
       IN  trades' = [c \in DOMAIN trades \cup new |-> IF c \in new THEN Market[c] ELSE trades[c]]
    /\ UNCHANGED <<truth, base, replay, round, seeded, pc, plan, receipts, infos, work, book, failed, stops>>

Of(f, s) ==
    f.schedule.condition = s.condition /\ f.schedule.from = s.from /\ f.schedule.to = s.to

(* What a stage found; the segments it leaves open go to the next.         *)
Resolve(new, next) ==
    LET left == {s \in open : \A f \in new : ~Of(f, s)}
    IN  /\ found' = found \cup new
        /\ open' = left
        /\ pc' = IF left = {} THEN "publish" ELSE next

(* A receipt by itself, which must be of the planned protocol.             *)
ByReceipt(s, tx, refunds) == IF V1(tx) = IsV1(s) THEN Direct(tx, s.condition, refunds) ELSE {}

(* The candidate of the rank, if its receipt gives a tariff.               *)
ReceiptEvidence(s) ==
    LET tx == s.txs[rank]
    IN  IF rank =< Len(s.txs)
        THEN {Proven(Schedule(s, V1(tx), t, "receipt", tx), {tx}, {}) : t \in ByReceipt(s, tx, receipts[tx])}
        ELSE {}

Infer ==
    /\ pc = "receipts"
    /\ Wanted \subseteq DOMAIN receipts
    /\ Resolve(UNION {ReceiptEvidence(s) : s \in open},
               IF \E s \in open : rank < Len(s.txs) THEN "receipts" ELSE "info")
    /\ rank' = rank + 1
    /\ UNCHANGED <<truth, base, replay, round, seeded, plan, caches, book, failed, stops>>

First(places) == {k \in places : \A j \in places : k =< j}

(* The first of the same receipts that gives one of the tariffs the market *)
(* info leaves, whatever its protocol: nothing asks for the planned one    *)
(* here.                                                                   *)
InfoEvidence(s) ==
    LET By(k) == Reconciled(s.txs[k], s.condition, receipts[s.txs[k]])
    IN  UNION {{Proven(Schedule(s, V1(s.txs[k]), t, "info", s.txs[k]), {s.txs[k]}, {}) :
                   t \in By(k)} : k \in First({k \in DOMAIN s.txs : By(k) # {}})}

Settle ==
    /\ pc = "info"
    /\ Markets \subseteq infos
    /\ Resolve(UNION {InfoEvidence(s) : s \in open}, "trades")
    /\ UNCHANGED <<truth, base, replay, round, seeded, plan, caches, rank, book, failed, stops>>

ReadMarket ==
    /\ pc = "trades"
    /\ Markets \subseteq DOMAIN trades
    /\ pc' = "market"
    /\ UNCHANGED <<truth, base, replay, round, seeded, plan, caches, work, book, failed, stops>>

(* Any of the market's trades, by its receipt alone or with the market     *)
(* info; failing that, all receipts of the market whose refund is seen,    *)
(* which are of V1.                                                        *)
Either(tx, c, refunds) ==
    IF Direct(tx, c, refunds) # {} THEN Direct(tx, c, refunds) ELSE Reconciled(tx, c, refunds)
Basis(tx, c, refunds) == IF Direct(tx, c, refunds) # {} THEN "market" ELSE "market and info"
Samples(c) == {tx \in MarketWide(c) : Charged(tx, c) /\ Refunded(tx, c, receipts[tx])}
MarketEvidence(s) ==
    LET c == s.condition
        one == First({tx \in MarketWide(c) : Either(tx, c, receipts[tx]) # {}})
    IN  IF one # {}
        THEN UNION {{Proven(Schedule(s, V1(tx), t, Basis(tx, c, receipts[tx]), tx), {tx}, {tx}) :
                        t \in Either(tx, c, receipts[tx])} : tx \in one}
        ELSE {Proven(Schedule(s, TRUE, t, "consensus", Min(Samples(c))),
                     Samples(c), {Min(Samples(c))}) : t \in Consensus(Samples(c), c)}

(* The last stage: what stays open is a failure of the whole build.        *)
Agree ==
    /\ pc = "market"
    /\ Wanted \subseteq DOMAIN receipts
    /\ Resolve(UNION {MarketEvidence(s) : s \in open}, "idle")
    /\ failed' = (open' # {})
    /\ UNCHANGED <<truth, base, replay, round, seeded, plan, caches, rank, book, stops>>

UsesInfo(f) == f.schedule.source \in {"info", "market and info", "consensus"}

(* The four files, then the manifest.                                      *)
Publish ==
    /\ pc = "publish"
    /\ book' = [book EXCEPT ![round] =
          [sources |-> plan.sources, seeded |-> seeded, found |-> found,
           infos |-> {f.schedule.condition : f \in {f \in found : UsesInfo(f)}}]]
    /\ pc' = "idle"
    /\ open' = {} /\ found' = {} /\ rank' = 1
    /\ UNCHANGED <<truth, base, replay, round, seeded, plan, caches, failed, stops>>

(* Killed, paused before a wave, or ended by a request that failed too     *)
(* often.                                                                  *)
Stop ==
    /\ pc # "idle"
    /\ stops < MaxStops
    /\ stops' = stops + 1
    /\ pc' = "idle"
    /\ open' = {} /\ found' = {} /\ rank' = 1
    /\ UNCHANGED <<truth, base, replay, round, seeded, plan, caches, book, failed>>

Build ==
    \/ Begin \/ StartOver \/ Seed \/ Official
    \/ FetchReceipts \/ Infer \/ FetchInfos \/ Settle
    \/ FetchTrades \/ ReadMarket \/ Agree \/ Publish

-----------------------------------------------------------------------------
(***************************************************************************)
(* The replays.                                                            *)
(***************************************************************************)
(* FeeScheduleBook refuses a book whose intervals overlap or whose proofs  *)
(* are not exactly those its schedules call for.                           *)
Overlap(f, g) ==
    f.condition = g.condition /\ f.from < g.to /\ g.from < f.to
Accepted(b) ==
    LET schedules == {f.schedule : f \in b.found}
    IN  /\ schedules # {}
        /\ \A f, g \in schedules : f # g => ~Overlap(f, g)
        /\ \A f \in b.found : (f.proofs = {}) <=> f.schedule.source = "official"
        /\ \A f \in b.found : f.schedule.source = "consensus" => Cardinality(f.proofs) >= 2
        /\ b.infos = {f.schedule.condition : f \in {f \in b.found : UsesInfo(f)}}
        /\ \A f \in b.found : (f.trade = {}) <=> f.schedule.source \in {"official", "receipt", "info"}

Covers(b, c, time) ==
    \E f \in b.found : f.schedule.condition = c /\ f.schedule.from =< time /\ time < f.schedule.to

(* An order of decision i may fill at trade j.                             *)
MayFill(i, j) ==
    /\ i < j /\ Tape[i].condition = Tape[j].condition
    /\ Tape[i].time + Latency =< Tape[j].time
    /\ Tape[j].time =< Tape[i].time + Latency + Wait

(* A day under the round's book: a policy calls some of the decisions, for *)
(* each of which it needs a fee at once, and trades meet its orders, of    *)
(* which at most one matters here, the first without a schedule.           *)
(* The first trade without a schedule ends the replay, with its miss on    *)
(* file and the day lost.                                                  *)
PlayDay(called, met) ==
    LET day == replay[round].days + 1
        calls == replay[round].calls \cup called
        needed == called \cup {j \in met : \E i \in calls : MayFill(i, j)}
        missed == {j \in needed : ~Covers(book[round], Tape[j].condition, Tape[j].time)}
    IN  replay' = [replay EXCEPT ![round] =
                      IF missed = {}
                      THEN [days |-> day, miss |-> {},
                            calls |-> {i \in calls : Tape[i].time + Latency + Wait >= day * DayLength}]
                      ELSE [@ EXCEPT !.miss = {Min(missed)}]]

Playing == pc = "idle" /\ book[round] # None /\ replay[round].miss = {} /\ replay[round].days < LastDay

Play ==
    /\ Playing
    /\ Accepted(book[round])
    /\ LET today == {i \in Rows : DayOf(i) = replay[round].days + 1}
       IN  \E called \in SUBSET (today \cap Decided), met \in {{}} \cup {{j} : j \in today} : PlayDay(called, met)
    /\ UNCHANGED <<truth, base, round, seeded, build, stops>>

(* The miss is the next build's target, in a directory of its own, with or *)
(* without the last book as a seed.                                        *)
Extend ==
    /\ pc = "idle"
    /\ replay[round].miss # {}
    /\ round < MaxRounds
    /\ round' = round + 1
    /\ seeded' \in BOOLEAN
    /\ plan' = None
    /\ receipts' = <<>> /\ infos' = {} /\ trades' = <<>>
    /\ UNCHANGED <<truth, base, replay, pc, work, book, failed, stops>>

(* The replay without a book, paused so far, goes on by a day.             *)
BaseGoesOn ==
    /\ base < LastDay
    /\ base' = base + 1
    /\ UNCHANGED <<truth, replay, round, seeded, build, stops>>

Next == Build \/ Stop \/ Play \/ Extend \/ BaseGoesOn

Spec == Init /\ [][Next]_vars

(* Each command is run again until it has done its work.                   *)
FairSpec == Spec /\ WF_vars(Build) /\ WF_vars(Play) /\ WF_vars(Extend)

(***************************************************************************)
(* Properties.                                                             *)
(***************************************************************************)
Books == {n \in Rounds : book[n] # None}

(* docs/RESEARCH.md, 1561: the decisions audited cover those of any policy.*)
(* Under a book, no policy misses a schedule where one of the book's       *)
(* sources has audited a decision an order of which might be filled.       *)
FillsQualified ==
    \A n \in Books : \A j \in replay[n].miss :
        /\ j \notin Until(book[n].sources.days) \cup book[n].sources.misses
        /\ \A i \in Until(book[n].sources.days) : ~MayFill(i, j)

(* A receipt in the cache may be the proof of another book, without the    *)
(* refunds of other orders.  Still each published tariff is what the whole *)
(* receipts show, under the protocol of the contract that emitted them,    *)
(* and a receipt or info schedule is of the interval's own trades.  Only a *)
(* receipt schedule is of the protocol its interval was planned with.      *)
Genuine ==
    \A n \in Books : \A f \in book[n].found :
        LET c == f.schedule.condition IN
        /\ \A p \in f.proofs : f.schedule.tariff \in shown[p.tx][c] /\ V1(p.tx) = f.schedule.v1
        /\ f.schedule.source \in {"receipt", "info"} =>
              \A p \in f.proofs : f.schedule.from =< TxTime[p.tx] /\ TxTime[p.tx] < f.schedule.to
        /\ f.schedule.source = "receipt" => f.schedule.v1 = IsV1(f.schedule)
        /\ f.schedule.source = "consensus" =>
              Cardinality({t \in listed[c] : \A p \in f.proofs : t \in shown[p.tx][c]}) = 1

(* What one command with all receipts at hand finds for a segment.         *)
Expected(s) ==
    LET c == s.condition
        alone == First({k \in DOMAIN s.txs : ByReceipt(s, s.txs[k], Conditions) # {}})
        informed == First({k \in DOMAIN s.txs : Reconciled(s.txs[k], c, Conditions) # {}})
        wide == BeforeCutover(Market[c])
        market == First({tx \in wide : Either(tx, c, Conditions) # {}})
    IN  IF s.to =< FirstFee THEN {Zero}
        ELSE IF alone # {} THEN UNION {ByReceipt(s, s.txs[k], Conditions) : k \in alone}
        ELSE IF informed # {} THEN UNION {Reconciled(s.txs[k], c, Conditions) : k \in informed}
        ELSE IF market # {} THEN UNION {Either(tx, c, Conditions) : tx \in market}
        ELSE Consensus({tx \in wide : V1(tx) /\ Charged(tx, c)}, c)

(* docs/RESEARCH.md, 1517: an interval without a schedule rejects the      *)
(* whole qualification.  A build without a seed publishes what one command *)
(* without a stop would, one schedule for every interval of its plan, and  *)
(* fails only when that command would.                                     *)
StopsAreNeutral ==
    ~seeded /\ plan # None =>
        /\ book[round] # None =>
              /\ \A s \in plan.segments : {f.schedule.tariff : f \in {f \in book[round].found : Of(f, s)}} = Expected(s)
              /\ Cardinality(book[round].found) = Cardinality(plan.segments)
        /\ failed => \E s \in plan.segments : Expected(s) = {}

(* A miss leads to a build that covers it: with each command run again,    *)
(* the rounds end with a replay of the whole tape or with a build that has *)
(* no evidence for some interval.                                          *)
Qualifies == <>(failed \/ replay[round].days = LastDay)
=============================================================================
