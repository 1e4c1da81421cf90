---- MODULE Replay ----
(***************************************************************************)
(* The daily replay of a development tape: trades and public resolutions   *)
(* merged in time order, one audit shard and one checkpoint per day, and a *)
(* process that may be paused, killed and started again                    *)
(* (scripts/run_h010_policy_replay.py, with replay_h010.py,                *)
(* replay_audit.py and development_tape.py of src/sphinx_trace).           *)
(*                                                                         *)
(* What the account does with a trade or a resolution is the business of   *)
(* module Simulator; here it is the history of what was applied to it, so  *)
(* two accounts agree exactly when they were fed the same events in the    *)
(* same order.  Every retained trade carries a call on its market.         *)
(***************************************************************************)
EXTENDS Integers, FiniteSets, Sequences, SequencesExt

CONSTANTS
    Conditions,   \* the replayed markets, as naturals: their sort order
    DayStarts, DayEnds,  \* first and last second of each streamed day
    AfterLast,    \* a second behind the last streamed day
    MaxStops      \* bound on crashes and pauses

ASSUME CalendarAssumption ==
    /\ Conditions \subseteq Nat /\ IsFiniteSet(Conditions)
    /\ DayStarts \in Seq(Nat) /\ DayEnds \in Seq(Nat) /\ AfterLast \in Nat
    /\ Len(DayStarts) = Len(DayEnds)
    /\ \A i \in 1 .. Len(DayEnds) :
          /\ 0 < DayStarts[i] /\ DayStarts[i] =< DayEnds[i] /\ DayEnds[i] < AfterLast
          /\ \A j \in 1 .. i - 1 : DayEnds[j] < DayStarts[i]
    /\ MaxStops \in Nat

Days == 1 .. Len(DayEnds)
Terminal == Len(DayEnds) + 1
Shards == 1 .. Terminal
Seconds == 1 .. AfterLast
DayOf(d) == DayStarts[d] .. DayEnds[d]
Streamed == UNION {DayOf(d) : d \in Days}

Event(kind, second, condition) == <<kind, second, condition>>
Trades == {Event("trade", s, c) : s \in Streamed, c \in Conditions}
Resolutions == {Event("resolution", s, c) : s \in Seconds, c \in Conditions}

VARIABLES
    chronicle,    \* the source stream: its trades
    first,        \* per market, the second of its first qualified decision
    close,        \* per market, the second it resolves
    shard,        \* audit shards on disk: a function on those that exist
    receipt,      \* shards with a receipt
    saved,        \* the checkpoint file
    result,       \* result.json exists
    phase,        \* where the process is
    day,          \* shard_ordinal
    left,         \* rows of the day's tape shard not read yet
    account,      \* what the adapter and its simulator were fed
    written,      \* how much of it earlier audit shards hold
    position,     \* resolution_position
    pending,      \* markets with unsettled calls
    equity,       \* days of daily_equity
    stops

source == <<chronicle, first, close>>
durable == <<shard, receipt, saved, result>>
memory == <<day, left, account, written, position, pending, equity>>
vars == <<source, durable, phase, memory, stops>>

(***************************************************************************)
(* The tape and the catalog.                                               *)
(***************************************************************************)

(* build_development_tape keeps the trades of a market's causal window.    *)
Tape == {e \in chronicle : first[e[3]] =< e[2] /\ e[2] =< close[e[3]]}
RowsOf(d) == {e \in Tape : e[2] \in DayOf(d)}

(* Stream rows and resolutions are ordered by second, then by market.      *)
Before(e, f) == e[2] < f[2] \/ (e[2] = f[2] /\ e[3] < f[3])
InOrder(S, less(_, _)) ==
    [i \in 1 .. Cardinality(S) |->
        CHOOSE e \in S : Cardinality({f \in S : less(f, e)}) = i - 1]
Schedule == InOrder({Event("resolution", close[c], c) : c \in Conditions}, Before)
NextRow == CHOOSE e \in left : \A f \in left : e = f \/ Before(e, f)

Resolved(p) == {Schedule[i][3] : i \in 1 .. p}

\* Mutant: a shard starts over from the first event.
SlipRecords == account

(* Records of the shard being collected.                                   *)
Records == SubSeq(account, written + 1, Len(account))

Fresh ==
    [next |-> 1, account |-> <<>>, written |-> 0, position |-> 0,
     pending |-> {}, equity |-> <<>>]

(* A market's window opens with a qualified decision before its close.     *)
Init ==
    /\ chronicle \in SUBSET Trades
    /\ close \in [Conditions -> Seconds]
    /\ first \in [Conditions -> Streamed]
    /\ \A c \in Conditions :
          /\ first[c] < close[c]
          /\ Event("trade", first[c], c) \in chronicle
    /\ shard = [d \in {} |-> <<>>]
    /\ receipt = {}
    /\ saved = Fresh
    /\ result = FALSE
    /\ phase = "down"
    /\ day = 1
    /\ left = {}
    /\ account = <<>>
    /\ written = 0
    /\ position = 0
    /\ pending = {}
    /\ equity = <<>>
    /\ stops = 0

(***************************************************************************)
(* Starting, and reading one day.                                          *)
(***************************************************************************)
OpenDay(d) ==
    /\ day' = d
    /\ left' = IF d = Terminal THEN {} ELSE RowsOf(d)
    /\ phase' = IF d = Terminal THEN "terminal" ELSE "rows"

\* Mutant: the place in the resolution schedule is not restored.
SlipStart ==
    /\ phase = "down"
    /\ OpenDay(saved.next)
    /\ account' = saved.account
    /\ written' = saved.written
    /\ position' = 0
    /\ pending' = saved.pending
    /\ equity' = saved.equity
    /\ UNCHANGED <<source, durable, stops>>

Start ==
    /\ phase = "down"
    /\ OpenDay(saved.next)
    /\ account' = saved.account
    /\ written' = saved.written
    /\ position' = saved.position
    /\ pending' = saved.pending
    /\ equity' = saved.equity
    /\ UNCHANGED <<source, durable, stops>>

(* resolve_until: resolutions before the next row, up to the day's end, or *)
(* all that are left.                                                      *)
Due ==
    /\ position < Len(Schedule)
    /\ LET second == Schedule[position + 1][2]
       IN  \/ phase = "rows" /\ left # {} /\ second < NextRow[2]
           \/ phase = "rows" /\ left = {} /\ second =< DayEnds[day]
           \/ phase = "terminal"

Resolve ==
    /\ Due
    /\ account' = Append(account, Schedule[position + 1])
    /\ pending' = pending \ {Schedule[position + 1][3]}
    /\ position' = position + 1
    /\ UNCHANGED <<source, durable, phase, day, left, written, equity, stops>>

(* observe_trade and apply_call; a call on a resolved market raises.       *)
ObserveTrade ==
    /\ phase = "rows"
    /\ left # {}
    /\ ~Due
    /\ left' = left \ {NextRow}
    /\ account' = Append(account, NextRow)
    /\ pending' = pending \cup {NextRow[3]}
    /\ phase' = IF NextRow[3] \in Resolved(position) THEN "raised" ELSE "rows"
    /\ UNCHANGED <<source, durable, day, written, position, equity, stops>>

EndDay ==
    /\ phase = "rows"
    /\ left = {}
    /\ ~Due
    /\ phase' = "auditing"
    /\ UNCHANGED <<source, durable, memory, stops>>

(* Resolutions behind the last day get a shard of their own.               *)
EndTerminal ==
    /\ phase = "terminal"
    /\ ~Due
    /\ phase' = IF Records = <<>> THEN "concluding" ELSE "auditing"
    /\ UNCHANGED <<source, durable, memory, stops>>

(***************************************************************************)
(* write_audit_shard: two files, each replaced atomically.                 *)
(***************************************************************************)
TimesAscend(records) ==
    \A i \in 1 .. Len(records) - 1 : records[i][2] =< records[i + 1][2]

\* Mutant: a shard of an interrupted day counts as a conflict.
SlipReuseShard ==
    /\ phase = "auditing"
    /\ day \in DOMAIN shard
    /\ day \in receipt
    /\ phase' = "raised"
    /\ UNCHANGED <<source, durable, memory, stops>>

(* Both files are there: the receipt is returned, the records are not      *)
(* compared.                                                               *)
ReuseShard ==
    /\ phase = "auditing"
    /\ day \in DOMAIN shard
    /\ day \in receipt
    /\ phase' = "saving"
    /\ UNCHANGED <<source, durable, memory, stops>>

HalfShard == (day \in DOMAIN shard) # (day \in receipt)

RefuseHalfShard ==
    /\ phase = "auditing"
    /\ HalfShard
    /\ phase' = "raised"
    /\ UNCHANGED <<source, durable, memory, stops>>

WriteShard ==
    /\ phase = "auditing"
    /\ day \notin DOMAIN shard
    /\ day \notin receipt
    /\ IF TimesAscend(Records)
       THEN /\ shard' = [d \in DOMAIN shard \cup {day} |-> IF d = day THEN Records ELSE shard[d]]
            /\ phase' = "receipting"
       ELSE phase' = "raised" /\ UNCHANGED shard
    /\ UNCHANGED <<source, receipt, saved, result, memory, stops>>

WriteReceipt ==
    /\ phase = "receipting"
    /\ receipt' = receipt \cup {day}
    /\ phase' = "saving"
    /\ UNCHANGED <<source, shard, saved, result, memory, stops>>

(***************************************************************************)
(* The checkpoint, and the end of the run.                                 *)
(***************************************************************************)

Snapshot(next) ==
    [next |-> next, account |-> account, written |-> Len(account),
     position |-> position, pending |-> pending, equity |-> Append(equity, day)]

(* Equity, compaction and checkpoint of a day.  The PAUSE file ends the    *)
(* process behind it.                                                      *)
Save ==
    /\ phase = "saving"
    /\ day # Terminal
    /\ saved' = Snapshot(day + 1)
    /\ equity' = Append(equity, day)
    /\ written' = Len(account)
    /\ \/ OpenDay(day + 1) /\ UNCHANGED stops
       \/ /\ stops < MaxStops
          /\ stops' = stops + 1
          /\ phase' = "down"
          /\ UNCHANGED <<day, left>>
    /\ UNCHANGED <<source, shard, receipt, result, account, position, pending>>

SaveTerminal ==
    /\ phase = "saving"
    /\ day = Terminal
    /\ equity' = Append(equity, day)
    /\ written' = Len(account)
    /\ phase' = "concluding"
    /\ UNCHANGED <<source, durable, day, left, account, position, pending, stops>>

(* Everything must be settled; the audit manifest and the last checkpoint  *)
(* are written.                                                            *)
Settled == position = Len(Schedule) /\ pending = {}

Conclude ==
    /\ phase = "concluding"
    /\ IF Settled
       THEN saved' = [Snapshot(Terminal) EXCEPT !.equity = equity] /\ phase' = "finished"
       ELSE phase' = "raised" /\ UNCHANGED saved
    /\ UNCHANGED <<source, shard, receipt, result, memory, stops>>

Report ==
    /\ phase = "finished"
    /\ ~result
    /\ result' = TRUE
    /\ UNCHANGED <<source, shard, receipt, saved, phase, memory, stops>>

(* The process dies; what it did not write is gone.                        *)
Crash ==
    /\ phase \notin {"down", "raised"}
    /\ ~result
    /\ stops < MaxStops
    /\ stops' = stops + 1
    /\ phase' = "down"
    /\ UNCHANGED <<source, durable, memory>>

Work ==
    \/ Start \/ Resolve \/ ObserveTrade \/ EndDay \/ EndTerminal
    \/ ReuseShard \/ RefuseHalfShard \/ WriteShard \/ WriteReceipt
    \/ Save \/ SaveTerminal \/ Conclude \/ Report

Next == Work \/ Crash

(* The same command is run again after a stop.                             *)
Spec == Init /\ [][Next]_vars
FairSpec == Spec /\ WF_vars(Work)

(***************************************************************************)
(* Properties.                                                             *)
(***************************************************************************)

(* What an uninterrupted replay is fed: the tape and the resolutions in    *)
(* order of time, a market's resolution behind all trades of its second.   *)
Rank(e) == IF e[1] = "trade" THEN 0 ELSE 1
Causal(e, f) ==
    \/ e[2] < f[2]
    \/ e[2] = f[2] /\ Rank(e) < Rank(f)
    \/ e[2] = f[2] /\ Rank(e) = Rank(f) /\ e[3] < f[3]
Ideal == InOrder(Tape \cup Range(Schedule), Causal)

(* At any moment, after any number of crashes and pauses, the account has  *)
(* been fed a prefix of that sequence: nothing twice, nothing skipped,     *)
(* nothing early.                                                          *)
ResumesExactly == IsPrefix(account, Ideal)

(* Together the audit shards are the replay: each event in one shard, in   *)
(* the shard of its day, although days are replayed again after a crash.   *)
AuditIsComplete ==
    result => FlattenSeq([d \in Shards |-> IF d \in DOMAIN shard THEN shard[d] ELSE <<>>])
              = Ideal

(* Run again after every stop, the replay comes to its result, unless a    *)
(* stop left the shard of a day without its receipt.                       *)
ConcludesUnlessTorn == <>(result \/ (phase = "raised" /\ HalfShard))

====
