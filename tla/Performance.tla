---- MODULE Performance ----
(***************************************************************************)
(* The performance record of a replayed account: its equity curve with the *)
(* incrementally kept peak, its closed profits and losses, and how both    *)
(* pass through compaction and checkpoints (src/sphinx_trace/simulator.py, *)
(* _record_equity, metrics, compact_history, snapshot, from_snapshot).     *)
(*                                                                         *)
(* The equity recorded is whatever cash and marks make it at that moment.  *)
(***************************************************************************)
EXTENDS Integers, Sequences, Totals

CONSTANTS
    InitialCash,     \* SimulationRules.initial_cash_usd
    LastSecond,      \* bound on the clock
    Equities,        \* values the equity may take
    Pnls,            \* profits and losses a sale or a resolution may close
    MaxClosed        \* bound on the closed trades of a behaviour

ASSUME ValuesAssumption ==
    /\ InitialCash \in Nat
    /\ LastSecond \in Nat
    /\ Equities \subseteq Nat
    /\ Pnls \subseteq Int
    /\ MaxClosed \in Nat

VARIABLES
    curve,           \* equity_curve: pairs of second and equity
    priorPeak,       \* _prior_equity_peak_usd
    peak,            \* _peak_equity_usd
    closed,          \* closed_pnls since the last compaction
    archivedCount,   \* archived_closed_pnl_count
    archivedGains, archivedLosses

curveVars == <<curve, priorPeak, peak>>
pnlVars == <<closed, archivedCount, archivedGains, archivedLosses>>
recordVars == <<curveVars, pnlVars>>

Larger(a, b) == IF a < b THEN b ELSE a
LastPoint == curve[Len(curve)]
Value(i) == curve[i][2]

Point == (0 .. LastSecond) \X Nat

TypeOK ==
    /\ curve \in Seq(Point)
    /\ curve # <<>>
    /\ priorPeak \in Nat
    /\ peak \in Nat
    /\ closed \in Seq(Int)
    /\ archivedCount \in Nat
    /\ archivedGains \in Nat
    /\ archivedLosses \in Nat

RecordInit ==
    /\ curve = <<<<0, InitialCash>>>>
    /\ priorPeak = 0
    /\ peak = InitialCash
    /\ closed = <<>>
    /\ archivedCount = 0
    /\ archivedGains = 0
    /\ archivedLosses = 0

(***************************************************************************)
(* _record_equity: a second keeps its last equity only.                    *)
(***************************************************************************)
\* Mutant: the point that is replaced stays in the prior peak.
SlipSameSecond(t, e) ==
    /\ LastPoint[1] = t
    /\ curve' = [curve EXCEPT ![Len(curve)] = <<t, e>>]
    /\ priorPeak' = Larger(priorPeak, LastPoint[2])

SameSecond(t, e) ==
    /\ LastPoint[1] = t
    /\ curve' = [curve EXCEPT ![Len(curve)] = <<t, e>>]
    /\ UNCHANGED priorPeak

NewSecond(t, e) ==
    /\ LastPoint[1] < t
    /\ curve' = Append(curve, <<t, e>>)
    /\ priorPeak' = Larger(priorPeak, LastPoint[2])

RecordEquity(t, e) ==
    /\ SameSecond(t, e) \/ NewSecond(t, e)
    /\ peak' = Larger(priorPeak', e)
    /\ UNCHANGED pnlVars

(* A sale or a resolution closes a trade.                                  *)
ClosePnl(pnl) ==
    /\ archivedCount + Len(closed) < MaxClosed
    /\ closed' = Append(closed, pnl)
    /\ UNCHANGED <<curveVars, archivedCount, archivedGains, archivedLosses>>

(***************************************************************************)
(* metrics: profits and losses closed so far.                              *)
(***************************************************************************)
Gain(s) == [i \in 1 .. Len(s) |-> Larger(0, s[i])]
Loss(s) == [i \in 1 .. Len(s) |-> Larger(0, 0 - s[i])]
Sum(f) == Total(f, DOMAIN f)

Gains == archivedGains + Sum(Gain(closed))
Losses == archivedLosses + Sum(Loss(closed))

(* maximum_drawdown as a ratio <<loss, peak>>: the running peak and the    *)
(* worst loss below it, point by point.  The loop starts from nothing lost *)
(* below the first point and skips a peak of zero.                         *)
Worse(r, q) == r[1] * q[2] > q[1] * r[2]
RunningPeak[n \in 1 .. Len(curve)] ==
    IF n = 1 THEN Value(1) ELSE Larger(RunningPeak[n - 1], Value(n))

\* Mutant: measured from the first point of the curve.
SlipLossAt(n) == <<Value(1) - Value(n), Value(1)>>

LossAt(n) == <<RunningPeak[n] - Value(n), RunningPeak[n]>>
Drawdown[n \in 0 .. Len(curve)] ==
    IF n = 0 THEN <<0, 1>>
    ELSE IF RunningPeak[n] # 0 /\ Worse(LossAt(n), Drawdown[n - 1])
         THEN LossAt(n) ELSE Drawdown[n - 1]

(***************************************************************************)
(* compact_history, snapshot and from_snapshot.                            *)
(***************************************************************************)

\* Mutant: what was archived is not cleared.
SlipCompactHistory ==
    /\ archivedGains' = archivedGains + Sum(Gain(closed))
    /\ archivedLosses' = archivedLosses + Sum(Loss(closed))
    /\ archivedCount' = archivedCount + Len(closed)
    /\ UNCHANGED <<curveVars, closed>>

CompactHistory ==
    /\ archivedGains' = archivedGains + Sum(Gain(closed))
    /\ archivedLosses' = archivedLosses + Sum(Loss(closed))
    /\ archivedCount' = archivedCount + Len(closed)
    /\ closed' = <<>>
    /\ UNCHANGED curveVars

(* The peak of the first n points, ZERO when there are none.               *)
IsPeak(m, n) ==
    IF n = 0 THEN m = 0
    ELSE (\E i \in 1 .. n : m = Value(i)) /\ (\A i \in 1 .. n : Value(i) =< m)
PeakOf(n) == CHOOSE m \in {0} \cup {Value(i) : i \in 1 .. n} : IsPeak(m, n)

(* A checkpoint written and loaded: snapshot refuses a peak that is not    *)
(* the curve's maximum, and from_snapshot computes both peaks again and    *)
(* refuses values that changed.                                            *)
Accepted ==
    /\ IsPeak(peak, Len(curve))
    /\ priorPeak = PeakOf(Len(curve) - 1)
    /\ peak = Larger(priorPeak, LastPoint[2])

Resume == Accepted /\ UNCHANGED recordVars

RecordNext ==
    \/ \E t \in 0 .. LastSecond, e \in Equities : RecordEquity(t, e)
    \/ \E pnl \in Pnls : ClosePnl(pnl)
    \/ CompactHistory
    \/ Resume

RecordSpec == RecordInit /\ [][RecordNext]_recordVars

(***************************************************************************)
(* Properties.                                                             *)
(***************************************************************************)

(* The peak kept step by step is the highest equity of the curve, and the  *)
(* prior peak that of all points but the last, although a later record of  *)
(* the same second may lower the point that made the peak: no checkpoint   *)
(* is refused over them, when it is written or when it is loaded.          *)
PeakIsCurveMaximum ==
    /\ IsPeak(peak, Len(curve))
    /\ IsPeak(priorPeak, Len(curve) - 1)

(* One point a second, in order of time.                                   *)
CurveAscends == \A i, j \in 1 .. Len(curve) : i < j => curve[i][1] < curve[j][1]

(* The reported drawdown is the worst loss from any point of the curve to  *)
(* a later one, in proportion to the earlier: no pair is worse, and one is *)
(* as bad.                                                                 *)
LossBetween(i, j) == <<Value(i) - Value(j), Value(i)>>
Falls == {f \in (1 .. Len(curve)) \X (1 .. Len(curve)) : f[1] =< f[2] /\ Value(f[1]) > 0}
DrawdownIsWorstLoss ==
    LET reported == Drawdown[Len(curve)]
    IN  /\ \A f \in Falls : ~Worse(LossBetween(f[1], f[2]), reported)
        /\ \/ reported = <<0, 1>>
           \/ \E f \in Falls : LossBetween(f[1], f[2]) = reported

(* Compaction changes no figure of the report.                             *)
CompactionKeepsFigures ==
    [][CompactHistory =>
          /\ Gains' = Gains
          /\ Losses' = Losses
          /\ archivedCount' + Len(closed') = archivedCount + Len(closed)]_recordVars
====
