---------------------------- MODULE ReplayProofs ----------------------------
(***************************************************************************)
(* A replay that is killed, paused and started again any number of times   *)
(* feeds the account what an uninterrupted one would: at any moment a      *)
(* prefix of all trades and resolutions in causal order.  The account's    *)
(* performance record is right: peaks, checkpoints and compaction.         *)
(***************************************************************************)
EXTENDS Replay, Performance, TotalsProofs, FiniteSetTheorems, TLAPS

(* Events in their causal order.                                           *)

Events == {"trade", "resolution"} \X Nat \X Nat

LEMMA CausalOrder ==
  ASSUME NEW e \in Events, NEW f \in Events, NEW g \in Events
  PROVE  /\ ~ Causal(e, e)
         /\ Causal(e, f) /\ Causal(f, g) => Causal(e, g)
         /\ e = f \/ Causal(e, f) \/ Causal(f, e)
         /\ e[1] = f[1] => (Before(e, f) <=> Causal(e, f))
         /\ Causal(e, f) => e[2] <= f[2]
  BY DEF Events, Causal, Rank, Before

Preds(S) == [e \in S |-> {f \in S : Causal(f, e)}]

LEMMA PredsOrder ==
  ASSUME NEW S \in SUBSET Events
  PROVE  /\ Preds(S) \in [S -> SUBSET S]
         /\ \A e \in S : e \notin Preds(S)[e]
         /\ \A e, f \in S : e \in Preds(S)[f] => Preds(S)[e] \subseteq Preds(S)[f]
         /\ \A e, f \in S : e = f \/ e \in Preds(S)[f] \/ f \in Preds(S)[e]
  BY CausalOrder DEF Preds

LEMMA CausalList ==
  ASSUME NEW S \in SUBSET Events, IsFiniteSet(S)
  PROVE  /\ InOrder(S, Causal) \in Seq(S)
         /\ Len(InOrder(S, Causal)) = Cardinality(S)
         /\ \A i \in 1 .. Cardinality(S) :
               \A e \in S : Cardinality({f \in S : Causal(f, e)}) = i - 1
                               => InOrder(S, Causal)[i] = e
<1>. DEFINE n == Cardinality(S)
            P == Preds(S)
            Q == InOrder(S, Causal)
<1>1. n \in Nat
  BY FS_CardinalityType
<1>2. \A i \in 1 .. n : \E e \in S : Cardinality(P[e]) = i - 1
  BY PredsOrder, RanksCount
<1>3. \A e \in S : P[e] = {f \in S : Causal(f, e)}
  BY DEF Preds
<1>4. Q = [i \in 1 .. n |-> CHOOSE e \in S : Cardinality({f \in S : Causal(f, e)}) = i - 1]
  BY DEF InOrder
<1>. HIDE DEF n, P, Q
<1>5. ASSUME NEW i \in 1 .. n
      PROVE  Q[i] \in S /\ Cardinality(P[Q[i]]) = i - 1
  <2>1. \E e \in S : Cardinality({f \in S : Causal(f, e)}) = i - 1
    BY <1>2, <1>3
  <2>2. Q[i] = CHOOSE e \in S : Cardinality({f \in S : Causal(f, e)}) = i - 1
    BY <1>4
  <2>3. Q[i] \in S /\ Cardinality({f \in S : Causal(f, Q[i])}) = i - 1
    BY <2>1, <2>2
  <2>. QED  BY <1>3, <2>3
<1>6. \A e \in S, i \in 1 .. n : Cardinality(P[e]) = i - 1 => Q[i] = e
  BY <1>5, PredsOrder, RankedListsAll DEF n, P
<1>7. Q \in Seq(S) /\ Len(Q) = n
  <2>1. Q \in [1 .. n -> S]
    BY <1>4, <1>5
  <2>. QED  BY <1>1, <2>1
<1>. QED  BY <1>3, <1>6, <1>7 DEF n, Q
----------------------------------------------------------------------------
(* The tape and the catalog as finite sets of events.                      *)

SourceOK ==
    /\ chronicle \in SUBSET Trades
    /\ close \in [Conditions -> Seconds]
    /\ first \in [Conditions -> Streamed]

Closing == {Event("resolution", close[c], c) : c \in Conditions}

LEMMA Calendar ==
  /\ Streamed \subseteq 1 .. AfterLast
  /\ AfterLast \in Nat
  /\ Len(DayEnds) \in Nat
  /\ Days \subseteq Nat
  /\ \A i \in Days : /\ DayStarts[i] \in Nat /\ DayEnds[i] \in Nat
                     /\ \A j \in Days : i < j => DayEnds[i] < DayStarts[j]
<1>1. Len(DayEnds) \in Nat /\ Len(DayStarts) = Len(DayEnds) /\ AfterLast \in Nat
  BY CalendarAssumption
<1>2. \A i \in Days : DayStarts[i] \in Nat /\ DayEnds[i] \in Nat
  BY <1>1, CalendarAssumption DEF Days
<1>3. \A i, j \in Days : i < j => DayEnds[i] < DayStarts[j]
  <2>. SUFFICES ASSUME NEW i \in Days, NEW j \in Days, i < j
                PROVE  DayEnds[i] < DayStarts[j]
    OBVIOUS
  <2>1. i \in 1 .. j - 1
    BY <1>1 DEF Days
  <2>. QED  BY <2>1, CalendarAssumption DEF Days
<1>4. \A i \in Days : 0 < DayStarts[i] /\ DayEnds[i] < AfterLast
  BY CalendarAssumption DEF Days
<1>5. ASSUME NEW s \in Streamed
      PROVE  s \in 1 .. AfterLast
  <2>1. PICK i \in Days : s \in DayOf(i)
    BY DEF Streamed
  <2>. QED  BY <1>1, <1>2, <1>4, <2>1 DEF DayOf
<1>. QED  BY <1>1, <1>2, <1>3, <1>5 DEF Days

LEMMA SourceFinite ==
  ASSUME SourceOK
  PROVE  /\ Tape \in SUBSET Events /\ IsFiniteSet(Tape)
         /\ Closing \in SUBSET Events /\ IsFiniteSet(Closing)
         /\ \A e \in Tape : /\ e[1] = "trade" /\ e[3] \in Conditions
                            /\ e[2] =< close[e[3]]
                            /\ \E i \in Days : e[2] \in DayOf(i)
         /\ \A e \in Closing : e[1] = "resolution" /\ e[3] \in Conditions /\ e[2] = close[e[3]]
<1>. DEFINE Pairs == (1 .. AfterLast) \X Conditions
            All == {Event("trade", p[1], p[2]) : p \in Pairs}
            trade == [p \in Pairs |-> Event("trade", p[1], p[2])]
            closing == [c \in Conditions |-> Event("resolution", close[c], c)]
<1>1. IsFiniteSet(1 .. AfterLast) /\ IsFiniteSet(Conditions)
  BY Calendar, FS_Interval, CalendarAssumption
<1>2. IsFiniteSet(Pairs)
  BY <1>1, FS_Product
<1>3. trade \in Surjection(Pairs, All)
  BY DEF Surjection
<1>4. IsFiniteSet(All)
  <2>. HIDE DEF trade, Pairs, All
  <2>. QED  BY <1>2, <1>3, FS_Surjection
<1>5. Tape \in SUBSET All
  <2>. SUFFICES ASSUME NEW e \in Tape PROVE e \in All
    OBVIOUS
  <2>1. e \in Trades
    BY DEF SourceOK, Tape
  <2>2. PICK s \in Streamed, c \in Conditions : e = Event("trade", s, c)
    BY <2>1 DEF Trades
  <2>3. <<s, c>> \in Pairs
    BY Calendar
  <2>. QED  BY <2>2, <2>3
<1>6. IsFiniteSet(Tape)
  <2>. HIDE DEF All
  <2>. QED  BY <1>4, <1>5, FS_Subset
<1>7. closing \in Surjection(Conditions, Closing)
  BY DEF Surjection, Closing
<1>8. IsFiniteSet(Closing)
  <2>. HIDE DEF closing
  <2>. QED  BY <1>1, <1>7, FS_Surjection
<1>9. \A e \in Tape : /\ e[1] = "trade" /\ e[3] \in Conditions
                      /\ e[2] =< close[e[3]]
                      /\ \E i \in Days : e[2] \in DayOf(i)
  BY DEF SourceOK, Tape, Trades, Event, Streamed
<1>10. \A e \in Closing : e[1] = "resolution" /\ e[3] \in Conditions /\ e[2] = close[e[3]]
  BY DEF Closing, Event
<1>11. Closing \in SUBSET Events
  BY CalendarAssumption DEF SourceOK, Closing, Event, Events, Seconds
<1>12. All \in SUBSET Events
  <2>1. Conditions \subseteq Nat /\ 1 .. AfterLast \subseteq Nat
    BY Calendar, CalendarAssumption
  <2>2. \A p \in Pairs : p[1] \in Nat /\ p[2] \in Nat
    BY <2>1
  <2>. HIDE DEF Pairs
  <2>. QED  BY <2>2 DEF Event, Events
<1>13. Tape \in SUBSET Events
  <2>. HIDE DEF All
  <2>. QED  BY <1>5, <1>12
<1>. QED  BY <1>6, <1>8, <1>9, <1>10, <1>11, <1>13

(* The schedule lists the resolutions in their order.                      *)
LEMMA ScheduleFacts ==
  ASSUME SourceOK
  PROVE  /\ Schedule \in Seq(Closing)
         /\ Range(Schedule) = Closing
         /\ \A i, j \in 1 .. Len(Schedule) : i < j => Causal(Schedule[i], Schedule[j])
<1>. DEFINE n == Cardinality(Closing)
            P == Preds(Closing)
            Q == Schedule
<1>1. n \in Nat /\ IsFiniteSet(Closing) /\ Closing \in SUBSET Events
  BY SourceFinite, FS_CardinalityType
<1>2. \A i \in 1 .. n : \E e \in Closing : Cardinality(P[e]) = i - 1
  BY <1>1, PredsOrder, RanksCount
<1>3. \A e \in Closing : P[e] = {f \in Closing : Before(f, e)}
  BY <1>1, CausalOrder, SourceFinite DEF Preds
<1>4. Q = [i \in 1 .. n |->
             CHOOSE e \in Closing : Cardinality({f \in Closing : Before(f, e)}) = i - 1]
  BY DEF Schedule, InOrder, Closing
<1>. HIDE DEF n, P, Q
<1>5. ASSUME NEW i \in 1 .. n
      PROVE  Q[i] \in Closing /\ Cardinality(P[Q[i]]) = i - 1
  <2>1. \E e \in Closing : Cardinality({f \in Closing : Before(f, e)}) = i - 1
    BY <1>2, <1>3
  <2>2. Q[i] = CHOOSE e \in Closing : Cardinality({f \in Closing : Before(f, e)}) = i - 1
    BY <1>4
  <2>3. Q[i] \in Closing /\ Cardinality({f \in Closing : Before(f, Q[i])}) = i - 1
    BY <2>1, <2>2
  <2>. QED  BY <1>3, <2>3
<1>6. /\ \A e \in Closing : \E i \in 1 .. n : Q[i] = e
      /\ \A i, j \in 1 .. n : i < j => Q[i] \in P[Q[j]]
  BY <1>1, <1>5, PredsOrder, RankedListsAll DEF n, P
<1>7. Q \in Seq(Closing) /\ Len(Q) = n /\ DOMAIN Q = 1 .. n
  <2>1. Q \in [1 .. n -> Closing]
    BY <1>4, <1>5
  <2>. QED  BY <1>1, <2>1
<1>8. Range(Q) = Closing
  BY <1>5, <1>6, <1>7 DEF Range
<1>9. \A i, j \in 1 .. n : i < j => Causal(Q[i], Q[j])
  BY <1>5, <1>6 DEF P, Preds
<1>. QED  BY <1>7, <1>8, <1>9 DEF Q
----------------------------------------------------------------------------
(* Accounts that hold the first events of a set, in causal order.          *)

All == Tape \cup Closing

Fed(a) ==
    /\ a \in Seq(All)
    /\ \A i, j \in 1 .. Len(a) : i < j => Causal(a[i], a[j])
    /\ \A i \in 1 .. Len(a) : \A e \in All \ Range(a) : Causal(a[i], e)

LEMMA AllFinite ==
  ASSUME SourceOK
  PROVE  All \in SUBSET Events /\ IsFiniteSet(All)
<1>1. Tape \in SUBSET Events /\ IsFiniteSet(Tape) /\ Closing \in SUBSET Events /\ IsFiniteSet(Closing)
  BY SourceFinite
<1>2. IsFiniteSet(Tape \cup Closing)
  BY <1>1, FS_Union
<1>. QED  BY <1>1, <1>2 DEF All

(* The least event that is left out comes next.                            *)
LEMMA FedNext ==
  ASSUME SourceOK, NEW a, Fed(a), NEW e \in All \ Range(a),
         \A f \in All \ Range(a) : e = f \/ Causal(e, f)
  PROVE  /\ Fed(Append(a, e))
         /\ All \ Range(Append(a, e)) = (All \ Range(a)) \ {e}
<1>. DEFINE b == Append(a, e)
<1>1. a \in Seq(All) /\ Len(a) \in Nat
  BY DEF Fed
<1>2. /\ b \in Seq(All) /\ Len(b) = Len(a) + 1
      /\ b[Len(a) + 1] = e
      /\ \A i \in 1 .. Len(a) : b[i] = a[i]
  BY <1>1
<1>. HIDE DEF b
<1>3. Range(b) = Range(a) \cup {e}
  <2>1. DOMAIN a = 1 .. Len(a) /\ DOMAIN b = 1 .. Len(a) + 1
    BY <1>1, <1>2
  <2>2. \A i \in DOMAIN b : i \in DOMAIN a \/ i = Len(a) + 1
    BY <1>1, <2>1
  <2>3. DOMAIN a \subseteq DOMAIN b /\ Len(a) + 1 \in DOMAIN b
    BY <1>1, <2>1
  <2>. QED  BY <1>2, <2>1, <2>2, <2>3 DEF Range
<1>4. ASSUME NEW i \in 1 .. Len(b), NEW j \in 1 .. Len(b), i < j
      PROVE  Causal(b[i], b[j])
  <2>1. i \in 1 .. Len(a)
    BY <1>1, <1>2, <1>4
  <2>2. CASE j \in 1 .. Len(a)
    BY <1>2, <1>4, <2>1, <2>2 DEF Fed
  <2>3. CASE j = Len(a) + 1
    BY <1>2, <2>1, <2>3 DEF Fed
  <2>. QED  BY <1>1, <1>2, <2>2, <2>3
<1>5. ASSUME NEW i \in 1 .. Len(b), NEW f \in All \ Range(b)
      PROVE  Causal(b[i], f)
  <2>1. f \in All \ Range(a) /\ f # e
    BY <1>3
  <2>2. CASE i \in 1 .. Len(a)
    BY <1>2, <2>1, <2>2 DEF Fed
  <2>3. CASE i = Len(a) + 1
    BY <1>2, <2>1, <2>3
  <2>. QED  BY <1>1, <1>2, <2>2, <2>3
<1>. QED  BY <1>2, <1>3, <1>4, <1>5 DEF Fed, b

(* Such an account is a prefix of the uninterrupted replay.                *)
LEMMA FedIsPrefix ==
  ASSUME SourceOK, NEW a, Fed(a)
  PROVE  IsPrefix(a, Ideal)
<1>. DEFINE n == Cardinality(All)
            Q == InOrder(All, Causal)
<1>1. All \in SUBSET Events /\ IsFiniteSet(All) /\ n \in Nat
  BY AllFinite, FS_CardinalityType
<1>2. Ideal = Q
  BY ScheduleFacts DEF Ideal, All
<1>3. /\ Q \in Seq(All)
      /\ Len(Q) = n
      /\ \A i \in 1 .. n :
            \A e \in All : Cardinality({f \in All : Causal(f, e)}) = i - 1 => Q[i] = e
  BY <1>1, CausalList
<1>4. a \in Seq(All) /\ Len(a) \in Nat
  BY DEF Fed
<1>5. ASSUME NEW i \in 1 .. Len(a)
      PROVE  Cardinality({f \in All : Causal(f, a[i])}) = i - 1
  <2>. DEFINE T == {f \in All : Causal(f, a[i])}
              g == [j \in 1 .. i - 1 |-> a[j]]
  <2>1. \A j \in 1 .. i - 1 : j \in 1 .. Len(a) /\ a[j] \in T
    BY <1>4 DEF Fed
  <2>2. ASSUME NEW f \in T
        PROVE  \E j \in 1 .. i - 1 : a[j] = f
    <3>1. a[i] \in All
      BY <1>4
    <3>2. ~ Causal(a[i], f)
      BY <1>1, <3>1, CausalOrder
    <3>3. f \in Range(a)
      BY <3>2 DEF Fed
    <3>4. PICK j \in 1 .. Len(a) : a[j] = f
      BY <1>4, <3>3 DEF Range
    <3>5. j # i
      BY <1>1, <3>1, <3>4, CausalOrder
    <3>6. ~ (i < j)
      BY <3>2, <3>4 DEF Fed
    <3>. QED  BY <1>4, <3>4, <3>5, <3>6
  <2>3. \A j, k \in 1 .. i - 1 : a[j] = a[k] => j = k
    <3>. SUFFICES ASSUME NEW j \in 1 .. i - 1, NEW k \in 1 .. i - 1, j < k, a[j] = a[k]
                  PROVE  FALSE
      BY <1>4
    <3>1. Causal(a[j], a[k]) /\ a[j] \in All
      BY <1>4, <2>1 DEF Fed
    <3>. QED  BY <1>1, <3>1, CausalOrder
  <2>4. g \in Bijection(1 .. i - 1, T)
    <3>. HIDE DEF T
    <3>. QED  BY <2>1, <2>2, <2>3 DEF Bijection, Injection, Surjection, IsInjective
  <2>5. IsFiniteSet(1 .. i - 1) /\ Cardinality(1 .. i - 1) = i - 1
    BY <1>4, OneTo
  <2>6. ExistsBijection(1 .. i - 1, T)
    BY <2>4 DEF ExistsBijection
  <2>. QED  BY <2>5, <2>6, FS_Bijection
<1>6. Len(a) =< n
  <2>1. a \in Injection(1 .. Len(a), All)
    <3>1. a \in [1 .. Len(a) -> All]
      BY <1>4
    <3>2. ASSUME NEW j \in 1 .. Len(a), NEW k \in 1 .. Len(a), a[j] = a[k]
          PROVE  j = k
      <4>1. j - 1 = k - 1
        BY <1>5, <3>2
      <4>. QED  BY <4>1
    <3>. QED  BY <3>1, <3>2 DEF Injection, IsInjective
  <2>2. Cardinality(1 .. Len(a)) = Len(a)
    BY <1>4, OneTo
  <2>. QED  BY <1>1, <2>1, <2>2, FS_Injection
<1>7. \A i \in 1 .. Len(a) : Q[i] = a[i]
  <2>. HIDE DEF Q, n
  <2>. SUFFICES ASSUME NEW i \in 1 .. Len(a)
                PROVE  Q[i] = a[i]
    OBVIOUS
  <2>1. i \in 1 .. n /\ a[i] \in All
    BY <1>1, <1>4, <1>6
  <2>2. Cardinality({f \in All : Causal(f, a[i])}) = i - 1
    BY <1>5
  <2>. QED  BY <1>3, <2>1, <2>2
<1>. HIDE DEF Q, n
<1>8. SubSeq(a, 1, Len(a)) = SubSeq(Q, 1, Len(a))
  <2>1. SubSeq(a, 1, Len(a)) = [i \in 1 .. Len(a) |-> a[i]]
    BY <1>4
  <2>2. SubSeq(Q, 1, Len(a)) = [i \in 1 .. Len(a) |-> Q[i]]
    BY <1>1, <1>3, <1>4, <1>6
  <2>. QED  BY <1>7, <2>1, <2>2
<1>. QED  BY <1>2, <1>3, <1>6, <1>8 DEF IsPrefix
----------------------------------------------------------------------------
(* Where a replay stands: what the account was not fed yet is the rest of  *)
(* the schedule, the rest of the day's rows, and the rows of later days.   *)

Later(d) == {e \in Tape : \E i \in Days : d < i /\ e[2] \in DayOf(i)}
Ahead(p, d, l) == {Schedule[i] : i \in p + 1 .. Len(Schedule)} \cup l \cup Later(d)

Stands(a, p, d, l) ==
    /\ p \in 0 .. Len(Schedule)
    /\ Fed(a)
    /\ All \ Range(a) = Ahead(p, d, l)

(* At the start everything is ahead.                                       *)
LEMMA StandsAtStart ==
  ASSUME SourceOK
  PROVE  Stands(<<>>, 0, 0, {})
<1>1. Fed(<<>>) /\ Range(<<>>) = {}
  BY DEF Fed, Range
<1>2. Len(Schedule) \in Nat /\ {Schedule[i] : i \in 1 .. Len(Schedule)} = Closing
  BY ScheduleFacts DEF Range
<1>3. Later(0) = Tape
  BY SourceFinite, Calendar DEF Later, Days
<1>4. Ahead(0, 0, {}) = All
  BY <1>2, <1>3 DEF Ahead, All
<1>. QED  BY <1>1, <1>2, <1>4 DEF Stands

(* Opening a day puts its rows in hand.                                    *)
LEMMA StandsOpen ==
  ASSUME SourceOK, NEW a, NEW p, NEW d \in Shards, Stands(a, p, d - 1, {})
  PROVE  Stands(a, p, d, IF d = Terminal THEN {} ELSE RowsOf(d))
<1>1. Len(DayEnds) \in Nat /\ d \in Nat
  BY Calendar DEF Shards, Terminal
<1>2. CASE d = Terminal
  <2>1. Later(d - 1) = {} /\ Later(d) = {}
    BY <1>1, <1>2 DEF Later, Days, Terminal
  <2>. QED  BY <1>2, <2>1 DEF Stands, Ahead
<1>3. CASE d # Terminal
  <2>1. d \in Days
    BY <1>1, <1>3 DEF Shards, Days, Terminal
  <2>2. \A i \in Days : d - 1 < i <=> (i = d \/ d < i)
    BY <1>1 DEF Days
  <2>3. Later(d - 1) = RowsOf(d) \cup Later(d)
    BY <2>1, <2>2 DEF Later, RowsOf
  <2>. QED  BY <1>3, <2>3 DEF Stands, Ahead
<1>. QED  BY <1>2, <1>3

(* NextRow is the first of the rows left.                                  *)
LEMMA NextRowIsFirst ==
  ASSUME SourceOK, left \in SUBSET Tape, left # {}
  PROVE  /\ NextRow \in left
         /\ \A f \in left : f = NextRow \/ Causal(NextRow, f)
<1>1. left \in SUBSET Events /\ IsFiniteSet(left)
  BY SourceFinite, FS_Subset
<1>2. 1 \in 1 .. Cardinality(left)
  <2>1. Cardinality(left) \in Nat /\ Cardinality(left) # 0
    BY <1>1, FS_CardinalityType, FS_EmptySet
  <2>. QED  BY <2>1
<1>3. PICK e \in left : Cardinality(Preds(left)[e]) = 0
  <2>1. PICK e \in left : Cardinality(Preds(left)[e]) = 1 - 1
    BY <1>1, <1>2, PredsOrder, RanksCount
  <2>. QED  BY <2>1
<1>4. Preds(left)[e] = {}
  <2>1. Preds(left)[e] \in SUBSET left
    BY <1>1, PredsOrder
  <2>2. IsFiniteSet(Preds(left)[e])
    BY <1>1, <2>1, FS_Subset
  <2>. QED  BY <1>3, <2>2, FS_EmptySet
<1>5. \A f \in left : e = f \/ Causal(e, f)
  <2>1. \A f \in left : e = f \/ e \in Preds(left)[f] \/ f \in Preds(left)[e]
    BY <1>1, PredsOrder
  <2>. QED  BY <1>4, <2>1 DEF Preds
<1>6. \A f, g \in left : Before(f, g) <=> Causal(f, g)
  BY <1>1, CausalOrder, SourceFinite
<1>7. \E g \in left : \A f \in left : g = f \/ Before(g, f)
  BY <1>5, <1>6
<1>8. NextRow \in left /\ \A f \in left : NextRow = f \/ Before(NextRow, f)
  BY <1>7 DEF NextRow
<1>. QED  BY <1>6, <1>8
----------------------------------------------------------------------------
(* What is fed next is the first of what is ahead.                         *)

InHand ==
    /\ left \in SUBSET Tape
    /\ phase = "rows" => day \in Days /\ left \subseteq RowsOf(day)
    /\ phase = "terminal" => day = Terminal /\ left = {}

LEMMA DaysApart ==
  ASSUME NEW d \in Days, NEW e \in RowsOf(d), NEW f \in Later(d)
  PROVE  e[2] < f[2] /\ e[2] =< DayEnds[d] /\ DayEnds[d] < f[2]
<1>1. PICK i \in Days : d < i /\ f[2] \in DayOf(i)
  BY DEF Later
<1>2. /\ DayStarts[d] \in Nat /\ DayEnds[d] \in Nat
      /\ DayStarts[i] \in Nat /\ DayEnds[i] \in Nat
      /\ DayEnds[d] < DayStarts[i]
  BY <1>1, Calendar
<1>. QED  BY <1>1, <1>2 DEF RowsOf, DayOf

LEMMA ResolveStands ==
  ASSUME SourceOK, InHand, Due, Stands(account, position, day, left)
  PROVE  Stands(Append(account, Schedule[position + 1]), position + 1, day, left)
<1>. DEFINE e == Schedule[position + 1]
            p == position
<1>1. /\ Len(Schedule) \in Nat /\ p \in Nat /\ p + 1 \in 1 .. Len(Schedule)
      /\ p + 1 \in 0 .. Len(Schedule)
      /\ Schedule \in Seq(Closing)
      /\ \A i, j \in 1 .. Len(Schedule) : i < j => Causal(Schedule[i], Schedule[j])
  BY ScheduleFacts DEF Stands, Due
<1>2. e \in Closing /\ \A i \in 1 .. Len(Schedule) : Schedule[i] \in Closing
  BY <1>1
<1>3. /\ Closing \in SUBSET Events /\ Tape \in SUBSET Events
      /\ \A f \in Tape : f[1] = "trade"
      /\ \A f \in Closing : f[1] = "resolution"
  BY SourceFinite
<1>4. \A i \in p + 2 .. Len(Schedule) : Causal(e, Schedule[i])
  BY <1>1
<1>5. \A f \in left \cup Later(day) : e[2] < f[2]
  <2>1. CASE phase = "rows" /\ left # {} /\ e[2] < NextRow[2]
    <3>1. NextRow \in left /\ \A f \in left : f = NextRow \/ Causal(NextRow, f)
      BY <2>1, NextRowIsFirst DEF InHand
    <3>2. \A f \in left : NextRow[2] =< f[2]
      BY <1>3, <3>1, CausalOrder DEF InHand, Events
    <3>3. \A f \in Later(day) : NextRow[2] < f[2]
      BY <2>1, <3>1, DaysApart DEF InHand
    <3>4. \A f \in left \cup Later(day) : f[2] \in Nat
      BY <1>3 DEF InHand, Later, Events
    <3>5. e[2] \in Nat /\ NextRow[2] \in Nat
      BY <1>2, <1>3, <3>1 DEF InHand, Events
    <3>. QED  BY <2>1, <3>2, <3>3, <3>4, <3>5
  <2>2. CASE phase = "rows" /\ left = {} /\ e[2] =< DayEnds[day]
    <3>. SUFFICES ASSUME NEW f \in Later(day)
                  PROVE  e[2] < f[2]
      BY <2>2
    <3>1. PICK i \in Days : day < i /\ f[2] \in DayOf(i)
      BY DEF Later
    <3>2. /\ DayEnds[day] \in Nat /\ DayEnds[day] < DayStarts[i]
          /\ DayStarts[i] \in Nat /\ DayEnds[i] \in Nat
      BY <2>2, <3>1, Calendar DEF InHand
    <3>3. e[2] \in Nat
      BY <1>2, <1>3 DEF Events
    <3>. QED  BY <2>2, <3>1, <3>2, <3>3 DEF DayOf
  <2>3. CASE phase = "terminal"
    <3>1. left = {} /\ Later(day) = {}
      BY <2>3, Calendar DEF InHand, Later, Days, Terminal
    <3>. QED  BY <3>1
  <2>. QED  BY <2>1, <2>2, <2>3 DEF Due
<1>6. Ahead(p, day, left) = Ahead(p + 1, day, left) \cup {e}
  <2>1. \A i : i \in p + 1 .. Len(Schedule) <=> (i = p + 1 \/ i \in p + 2 .. Len(Schedule))
    BY <1>1
  <2>2. p + 1 + 1 = p + 2
    BY <1>1
  <2>. QED  BY <2>1, <2>2 DEF Ahead
<1>7. e \notin Ahead(p + 1, day, left)
  <2>1. \A i \in p + 2 .. Len(Schedule) : e # Schedule[i]
    BY <1>2, <1>3, <1>4, CausalOrder
  <2>2. e \notin left \cup Later(day)
    BY <1>2, <1>3 DEF InHand, Later
  <2>3. p + 1 + 1 = p + 2
    BY <1>1
  <2>. QED  BY <2>1, <2>2, <2>3 DEF Ahead
<1>8. \A f \in Ahead(p + 1, day, left) : Causal(e, f)
  <2>1. p + 1 + 1 = p + 2
    BY <1>1
  <2>2. \A f \in left \cup Later(day) : Causal(e, f)
    BY <1>5 DEF Causal
  <2>. QED  BY <1>4, <2>1, <2>2 DEF Ahead
<1>9. All \ Range(account) = Ahead(p, day, left) /\ Fed(account)
  BY DEF Stands
<1>. HIDE DEF e, p
<1>10. /\ Fed(Append(account, e))
       /\ All \ Range(Append(account, e)) = Ahead(p + 1, day, left)
  <2>1. e \in All \ Range(account) /\ \A f \in All \ Range(account) : e = f \/ Causal(e, f)
    BY <1>6, <1>8, <1>9
  <2>2. All \ Range(Append(account, e)) = Ahead(p, day, left) \ {e} /\ Fed(Append(account, e))
    BY <1>9, <2>1, FedNext
  <2>. QED  BY <1>6, <1>7, <2>2
<1>. QED  BY <1>1, <1>10 DEF Stands, e, p

LEMMA ObserveStands ==
  ASSUME SourceOK, InHand, phase = "rows", left # {}, ~ Due,
         Stands(account, position, day, left)
  PROVE  Stands(Append(account, NextRow), position, day, left \ {NextRow})
<1>. DEFINE e == NextRow
            p == position
<1>1. /\ Len(Schedule) \in Nat /\ p \in 0 .. Len(Schedule)
      /\ Schedule \in Seq(Closing)
      /\ \A i, j \in 1 .. Len(Schedule) : i < j => Causal(Schedule[i], Schedule[j])
  BY ScheduleFacts DEF Stands
<1>2. \A i \in 1 .. Len(Schedule) : Schedule[i] \in Closing
  BY <1>1
<1>3. /\ Closing \in SUBSET Events /\ Tape \in SUBSET Events
      /\ \A f \in Tape : f[1] = "trade"
      /\ \A f \in Closing : f[1] = "resolution"
  BY SourceFinite
<1>4. e \in left /\ \A f \in left : f = e \/ Causal(e, f)
  BY NextRowIsFirst DEF InHand
<1>5. e \in Tape /\ e \in RowsOf(day) /\ day \in Days /\ e[2] \in Nat
  BY <1>3, <1>4 DEF InHand, Events
<1>6. \A f \in Later(day) : Causal(e, f) /\ e # f
  BY <1>5, DaysApart DEF Causal
<1>7. ASSUME NEW i \in p + 1 .. Len(Schedule)
      PROVE  Causal(e, Schedule[i]) /\ e # Schedule[i]
  <2>1. /\ p + 1 \in 1 .. Len(Schedule) /\ i \in 1 .. Len(Schedule)
        /\ i = p + 1 \/ p + 1 < i
        /\ p < Len(Schedule)
    BY <1>1
  <2>2. Schedule[p + 1] \in Closing /\ Schedule[i] \in Closing
    BY <1>2, <2>1
  <2>3. Schedule[p + 1][2] \in Nat /\ Schedule[i][2] \in Nat
    BY <1>3, <2>2 DEF Events
  <2>4. ~ (Schedule[p + 1][2] < e[2])
    BY <2>1 DEF Due
  <2>5. i = p + 1 \/ Causal(Schedule[p + 1], Schedule[i])
    BY <1>1, <2>1
  <2>6. Schedule[p + 1][2] =< Schedule[i][2]
    BY <1>3, <2>2, <2>3, <2>5, CausalOrder
  <2>7. e[2] =< Schedule[i][2]
    BY <1>5, <2>3, <2>4, <2>6
  <2>8. e[1] = "trade" /\ Schedule[i][1] = "resolution"
    BY <1>3, <1>5, <2>2
  <2>9. e # Schedule[i] /\ Rank(e) < Rank(Schedule[i])
    BY <2>8 DEF Rank
  <2>. QED  BY <1>5, <2>3, <2>7, <2>9 DEF Causal
<1>8. \A f \in Ahead(p, day, left) : e = f \/ Causal(e, f)
  BY <1>4, <1>6, <1>7 DEF Ahead
<1>9. e \in Ahead(p, day, left) /\ Ahead(p, day, left) \ {e} = Ahead(p, day, left \ {e})
  BY <1>4, <1>6, <1>7 DEF Ahead
<1>10. All \ Range(account) = Ahead(p, day, left) /\ Fed(account)
  BY DEF Stands
<1>. HIDE DEF e, p
<1>11. /\ Fed(Append(account, e))
       /\ All \ Range(Append(account, e)) = Ahead(p, day, left \ {e})
  BY <1>8, <1>9, <1>10, FedNext
<1>. QED  BY <1>1, <1>11 DEF Stands, e, p
----------------------------------------------------------------------------
(* The inductive invariant: the account stands where the process is, and   *)
(* the checkpoint's account at the start of the day it names.              *)

SavedStands ==
    /\ saved.next \in Shards
    /\ Stands(saved.account, saved.position, saved.next - 1, {})

MemoryStands == phase # "down" => day \in Shards /\ Stands(account, position, day, left)

Hands ==
    /\ phase \in {"down", "rows", "raised"} \/ left = {}
    /\ phase = "rows" => day \in Days /\ left \subseteq RowsOf(day)
    /\ phase \in {"terminal", "concluding", "finished"} => day = Terminal

Feeding == SourceOK /\ SavedStands /\ MemoryStands /\ Hands /\ Fed(account)

LEMMA HandsInHand ==
  ASSUME Feeding, phase \in {"rows", "terminal"}
  PROVE  InHand
  BY DEF Feeding, Hands, InHand, RowsOf

LEMMA Frozen ==
  ASSUME UNCHANGED source
  PROVE  /\ Schedule' = Schedule
         /\ Tape' = Tape
         /\ Closing' = Closing
         /\ SourceOK' <=> SourceOK
<1>1. chronicle' = chronicle /\ first' = first /\ close' = close
  BY DEF source
<1>2. Schedule' = Schedule
  BY <1>1 DEF Schedule, InOrder, Event
<1>3. Tape' = Tape
  BY <1>1 DEF Tape
<1>4. Closing' = Closing
  BY <1>1 DEF Closing
<1>. QED  BY <1>1, <1>2, <1>3, <1>4 DEF SourceOK

(* A step that keeps the source and leaves the new state standing keeps    *)
(* the invariant's parts.                                                  *)
LEMMA FrozenStands ==
  ASSUME UNCHANGED source
  PROVE  /\ Stands(account', position', day', left') => Stands(account, position, day, left)'
         /\ Stands(saved'.account, saved'.position, saved'.next - 1, {})
               => Stands(saved.account, saved.position, saved.next - 1, {})'
         /\ Fed(account') => Fed(account)'
  BY Frozen DEF Stands, Fed, All, Ahead, Later

LEMMA FeedingInit ==
  ASSUME Init
  PROVE  Feeding
<1>1. SourceOK
  BY DEF Init, SourceOK
<1>2. 1 \in Shards /\ 1 - 1 = 0
  BY Calendar DEF Shards, Terminal
<1>3. Stands(<<>>, 0, 0, {})
  BY <1>1, StandsAtStart
<1>4. saved.next = 1 /\ saved.account = <<>> /\ saved.position = 0
  BY DEF Init, Fresh
<1>5. SavedStands
  BY <1>2, <1>3, <1>4 DEF SavedStands
<1>6. Fed(account)
  BY <1>3 DEF Init, Stands
<1>7. phase = "down"
  BY DEF Init
<1>. QED  BY <1>1, <1>5, <1>6, <1>7 DEF Feeding, MemoryStands, Hands

LEMMA FeedingNext ==
  ASSUME Feeding, [Next]_vars
  PROVE  Feeding'
<1>. USE DEF Feeding
<1>1. UNCHANGED source /\ SourceOK'
  <2>1. UNCHANGED source
    BY DEF Next, Work, Start, Resolve, ObserveTrade, EndDay, EndTerminal, ReuseShard,
           RefuseHalfShard, WriteShard, WriteReceipt, Save, SaveTerminal, Conclude,
           Report, Crash, vars, source
  <2>. QED  BY <2>1, Frozen
<1>2. /\ Len(DayEnds) \in Nat /\ Days \subseteq Shards
      /\ \A d \in Shards : d # Terminal => d \in Days /\ d + 1 \in Shards
      /\ Terminal \in Shards /\ Terminal \notin Days
  BY Calendar DEF Days, Shards, Terminal
<1>3. ASSUME NEW d \in Shards, OpenDay(d),
             NEW k, k = d - 1, Stands(account', position', k, {})
      PROVE  MemoryStands' /\ Hands' /\ Fed(account)'
  <2>1. Stands(account', position', d, left')
    BY <1>3, StandsOpen DEF OpenDay
  <2>2. Stands(account, position, day, left)'
    BY <1>1, <1>3, <2>1, FrozenStands DEF OpenDay
  <2>3. Fed(account)'
    BY <2>1, <1>1, FrozenStands DEF Stands
  <2>4. left' = IF d = Terminal THEN {} ELSE RowsOf(d)
    BY <1>3 DEF OpenDay
  <2>5. RowsOf(d)' = RowsOf(d)
    BY <1>1, Frozen DEF RowsOf
  <2>6. Hands'
    BY <1>2, <1>3, <2>4, <2>5 DEF OpenDay, Hands
  <2>. QED  BY <1>3, <2>2, <2>3, <2>6 DEF OpenDay, MemoryStands
<1>4. ASSUME UNCHANGED saved
      PROVE  SavedStands'
  BY <1>1, <1>4, FrozenStands DEF SavedStands
<1>5. ASSUME UNCHANGED <<account, position, day, left>>, phase # "down"
      PROVE  MemoryStands' /\ Fed(account)'
  <2>1. Stands(account', position', day', left') /\ day' \in Shards
    BY <1>5 DEF MemoryStands
  <2>. QED  BY <1>1, <2>1, FrozenStands DEF MemoryStands, Stands
<1>6. CASE Start
  <2>1. /\ OpenDay(saved.next) /\ UNCHANGED saved
        /\ account' = saved.account /\ position' = saved.position
    BY <1>6 DEF Start, durable
  <2>2. saved.next \in Shards /\ Stands(account', position', saved.next - 1, {})
    BY <2>1 DEF SavedStands
  <2>. QED  BY <1>1, <1>3, <1>4, <2>1, <2>2
<1>7. CASE Resolve
  <2>1. phase \in {"rows", "terminal"} /\ InHand /\ Stands(account, position, day, left)
    BY <1>7, HandsInHand DEF Resolve, Due, MemoryStands
  <2>2. Stands(account', position', day', left')
    BY <1>7, <2>1, ResolveStands DEF Resolve
  <2>3. Stands(account, position, day, left)' /\ Fed(account)'
    BY <1>1, <2>2, FrozenStands DEF Stands
  <2>4. SavedStands'
    BY <1>4, <1>7 DEF Resolve, durable
  <2>5. Hands' /\ day' \in Shards
    BY <1>1, <1>7, <2>1, Frozen DEF Resolve, Hands, MemoryStands, RowsOf
  <2>. QED  BY <1>1, <2>3, <2>4, <2>5 DEF MemoryStands
<1>8. CASE ObserveTrade
  <2>1. phase = "rows" /\ InHand /\ Stands(account, position, day, left)
    BY <1>8, HandsInHand DEF ObserveTrade, MemoryStands
  <2>2. Stands(account', position', day', left')
    BY <1>8, <2>1, ObserveStands DEF ObserveTrade
  <2>3. Stands(account, position, day, left)' /\ Fed(account)'
    BY <1>1, <2>2, FrozenStands DEF Stands
  <2>4. SavedStands'
    BY <1>4, <1>8 DEF ObserveTrade, durable
  <2>5. RowsOf(day)' = RowsOf(day)
    BY <1>1, <1>8, Frozen DEF ObserveTrade, RowsOf
  <2>6. Hands' /\ day' \in Shards
    BY <1>8, <2>1, <2>5 DEF ObserveTrade, Hands, MemoryStands
  <2>. QED  BY <1>1, <2>3, <2>4, <2>6 DEF MemoryStands
<1>9. CASE \/ EndDay \/ EndTerminal \/ ReuseShard \/ RefuseHalfShard
           \/ WriteShard \/ WriteReceipt \/ Report
  <2>1. UNCHANGED <<saved, account, position, day, left>> /\ phase # "down"
    BY <1>9 DEF EndDay, EndTerminal, ReuseShard, RefuseHalfShard, WriteShard,
                WriteReceipt, Report, durable, memory
  <2>2. Hands'
    BY <1>9, <2>1 DEF EndDay, EndTerminal, ReuseShard, RefuseHalfShard, WriteShard,
                      WriteReceipt, Report, Hands
  <2>. QED  BY <1>1, <1>4, <1>5, <2>1, <2>2
<1>10. CASE Save
  <2>1. /\ phase = "saving" /\ day # Terminal /\ left = {}
        /\ day \in Shards /\ Stands(account, position, day, {})
    BY <1>10 DEF Save, Hands, MemoryStands
  <2>2. /\ saved'.next = day + 1 /\ saved'.account = account
        /\ saved'.position = position
        /\ account' = account /\ position' = position
    BY <1>10 DEF Save, Snapshot
  <2>3. PICK d \in Shards : d = day + 1 /\ day = d - 1
    BY <1>2, <2>1 DEF Days
  <2>4. SavedStands'
    <3>1. saved'.next = d /\ saved'.next - 1 = day
      BY <2>2, <2>3
    <3>2. Stands(saved'.account, saved'.position, saved'.next - 1, {})
      BY <2>1, <2>2, <3>1, Zenon
    <3>. QED  BY <1>1, <3>1, <3>2, FrozenStands DEF SavedStands
  <2>5. CASE OpenDay(day + 1)
    <3>1. Stands(account', position', day, {})
      BY <2>1, <2>2
    <3>2. OpenDay(d)
      BY <2>3, <2>5
    <3>3. MemoryStands' /\ Hands' /\ Fed(account)'
      BY <1>3, <2>3, <3>1, <3>2
    <3>. QED  BY <1>1, <2>4, <3>3
  <2>6. CASE phase' = "down"
    <3>1. Fed(account)'
      BY <1>1, <2>2, FrozenStands
    <3>. QED  BY <1>1, <2>4, <2>6, <3>1 DEF MemoryStands, Hands
  <2>. QED  BY <1>10, <2>5, <2>6 DEF Save
<1>11. CASE SaveTerminal
  <2>1. /\ UNCHANGED <<saved, account, position, day, left>> /\ phase = "saving"
        /\ phase' = "concluding" /\ day = Terminal
    BY <1>11 DEF SaveTerminal, durable
  <2>2. Hands'
    BY <2>1 DEF Hands
  <2>. QED  BY <1>1, <1>4, <1>5, <2>1, <2>2
<1>12. CASE Conclude
  <2>1. /\ phase = "concluding" /\ UNCHANGED <<account, position, day, left>>
        /\ day = Terminal /\ left = {} /\ day \in Shards
        /\ Stands(account, position, Terminal, {})
    BY <1>12 DEF Conclude, memory, Hands, MemoryStands
  <2>2. Hands'
    BY <1>12, <2>1 DEF Conclude, Hands
  <2>3. CASE UNCHANGED saved
    BY <1>1, <1>4, <1>5, <2>1, <2>2, <2>3
  <2>4. CASE saved' = [Snapshot(Terminal) EXCEPT !.equity = equity]
    <3>1. saved'.next = Terminal /\ saved'.account = account /\ saved'.position = position
      BY <2>4 DEF Snapshot
    <3>2. Later(Terminal) = {} /\ Later(Terminal - 1) = {}
      BY <1>2 DEF Later, Days, Terminal
    <3>3. Stands(account, position, Terminal - 1, {})
      BY <2>1, <3>2 DEF Stands, Ahead
    <3>4. SavedStands'
      BY <1>1, <1>2, <3>1, <3>3, FrozenStands DEF SavedStands
    <3>. QED  BY <1>1, <1>5, <2>1, <2>2, <3>4
  <2>. QED  BY <1>12, <2>3, <2>4 DEF Conclude
<1>13. CASE Crash
  <2>1. UNCHANGED <<saved, account>> /\ phase' = "down"
    BY <1>13 DEF Crash, durable, memory
  <2>2. Fed(account)'
    BY <1>1, <2>1, FrozenStands
  <2>. QED  BY <1>1, <1>4, <2>1, <2>2 DEF MemoryStands, Hands
<1>14. CASE UNCHANGED vars
  <2>1. UNCHANGED <<saved, account, position, day, left, phase>>
    BY <1>14 DEF vars, durable, memory
  <2>2. CASE phase = "down"
    <3>1. Fed(account)'
      BY <1>1, <2>1, FrozenStands
    <3>. QED  BY <1>1, <1>4, <2>1, <2>2, <3>1 DEF MemoryStands, Hands
  <2>3. CASE phase # "down"
    <3>1. Hands'
      BY <1>1, <2>1, Frozen DEF Hands, RowsOf
    <3>. QED  BY <1>1, <1>4, <1>5, <2>1, <2>3, <3>1
  <2>. QED  BY <2>2, <2>3
<1>. QED  BY <1>6, <1>7, <1>8, <1>9, <1>10, <1>11, <1>12, <1>13, <1>14 DEF Next, Work

THEOREM AccountStands == Spec => []Feeding
<1>1. Init => Feeding
  BY FeedingInit
<1>2. Feeding /\ [Next]_vars => Feeding'
  BY FeedingNext
<1>. QED  BY <1>1, <1>2, PTL DEF Spec

(* After any number of crashes and pauses, wherever they hit, the account  *)
(* was fed a prefix of the uninterrupted replay: run_h010_policy_replay    *)
(* starts from its checkpoint with nothing twice and nothing left out.     *)
THEOREM ReplayResumesExactly == Spec => []ResumesExactly
<1>1. Feeding => ResumesExactly
  BY FedIsPrefix DEF Feeding, ResumesExactly
<1>. QED  BY <1>1, AccountStands, PTL
----------------------------------------------------------------------------
(* The audit: pieces of a sequence, put together again.                    *)

LEMMA IsSequence ==
  ASSUME NEW B, NEW n \in Nat, NEW s \in [1 .. n -> B]
  PROVE  s \in Seq(B) /\ Len(s) = n
  OBVIOUS

LEMMA ConcatFacts ==
  ASSUME NEW A, NEW s \in Seq(A), NEW t \in Seq(A)
  PROVE  /\ s \o t \in Seq(A) /\ Len(s \o t) = Len(s) + Len(t)
         /\ \A k \in 1 .. Len(s) : (s \o t)[k] = s[k]
         /\ \A k \in 1 .. Len(t) : (s \o t)[Len(s) + k] = t[k]
  OBVIOUS

LEMMA PieceFacts ==
  ASSUME NEW A, NEW Q \in Seq(A), NEW a \in Nat, NEW b \in Nat, a <= b, b <= Len(Q)
  PROVE  /\ SubSeq(Q, a + 1, b) \in Seq(A)
         /\ SubSeq(Q, 1, a) \o SubSeq(Q, a + 1, b) = SubSeq(Q, 1, b)
<1>. DEFINE s == SubSeq(Q, 1, a)
            t == SubSeq(Q, a + 1, b)
            u == SubSeq(Q, 1, b)
<1>1. s \in Seq(A) /\ Len(s) = a /\ \A k \in 1 .. a : s[k] = Q[k]
  OBVIOUS
<1>2. u \in Seq(A) /\ Len(u) = b /\ \A k \in 1 .. b : u[k] = Q[k]
  OBVIOUS
<1>3. t \in Seq(A) /\ Len(t) = b - a /\ \A k \in 1 .. b - a : t[k] = Q[k + a]
  <2>1. t = [k \in 1 .. b - a |-> Q[k + a]]
    OBVIOUS
  <2>2. \A k \in 1 .. b - a : Q[k + a] \in A
    OBVIOUS
  <2>. HIDE DEF t
  <2>. QED  BY <2>1, <2>2
<1>. HIDE DEF s, t, u
<1>4. s \o t \in Seq(A) /\ Len(s \o t) = b
  <2>1. s \o t \in Seq(A) /\ Len(s \o t) = Len(s) + Len(t)
    BY <1>1, <1>3, ConcatFacts
  <2>2. a + (b - a) = b
    OBVIOUS
  <2>. QED  BY <1>1, <1>3, <2>1, <2>2
<1>5. ASSUME NEW k \in 1 .. b
      PROVE  (s \o t)[k] = u[k]
  <2>1. ASSUME k <= a
        PROVE  (s \o t)[k] = s[k] /\ s[k] = Q[k]
    <3>1. k \in 1 .. a
      BY <2>1
    <3>. QED  BY <1>1, <1>3, <3>1, ConcatFacts
  <2>2. ASSUME ~(k <= a)
        PROVE  (s \o t)[k] = t[k - a] /\ t[k - a] = Q[k]
    <3>1. k - a \in 1 .. b - a /\ k - a + a = k /\ a + (k - a) = k
      BY <2>2
    <3>2. (s \o t)[Len(s) + (k - a)] = t[k - a]
      BY <1>1, <1>3, <3>1, ConcatFacts
    <3>3. t[k - a] = Q[k - a + a]
      BY <1>3, <3>1
    <3>. QED  BY <1>1, <3>1, <3>2, <3>3
  <2>3. u[k] = Q[k]
    BY <1>2
  <2>4. (s \o t)[k] = Q[k]
    <3>1. CASE k <= a
      BY <2>1, <3>1
    <3>2. CASE ~(k <= a)
      BY <2>2, <3>2
    <3>. QED  BY <3>1, <3>2, Zenon
  <2>. QED  BY <2>3, <2>4, Zenon
<1>6. s \o t = u
  BY <1>2, <1>4, <1>5
<1>. QED  BY <1>3, <1>6 DEF s, t, u

CutsUp(cut, n, len) ==
    /\ n \in Nat \ {0} /\ cut \in [0 .. n -> Nat] /\ cut[0] = 0 /\ cut[n] = len
    /\ \A i \in 1 .. n : cut[i - 1] <= cut[i] /\ cut[i] <= len

Pieces(Q, cut, n) == [i \in 1 .. n |-> SubSeq(Q, cut[i - 1] + 1, cut[i])]

LEMMA PiecesFlatten ==
  ASSUME NEW A, NEW Q \in Seq(A), NEW n, NEW cut, CutsUp(cut, n, Len(Q))
  PROVE  FlattenSeq(Pieces(Q, cut, n)) = Q
<1>. DEFINE s == Pieces(Q, cut, n)
<1>a. /\ n \in Nat \ {0} /\ cut \in [0 .. n -> Nat] /\ cut[0] = 0 /\ cut[n] = Len(Q)
      /\ \A i \in 1 .. n : cut[i - 1] <= cut[i] /\ cut[i] <= Len(Q)
  BY DEF CutsUp
<1>b. s = [i \in 1 .. n |-> SubSeq(Q, cut[i - 1] + 1, cut[i])]
  BY DEF Pieces
<1>. HIDE DEF s
<1>. DEFINE Flat == CHOOSE f : f = [i \in 1 .. n |-> IF i = 1 THEN s[i] ELSE f[i - 1] \o s[i]]
            G == [i \in 1 .. n |-> SubSeq(Q, 1, cut[i])]
<1>0. \A i \in 1 .. n : /\ cut[i - 1] \in Nat /\ cut[i] \in Nat
                        /\ cut[i - 1] <= cut[i] /\ cut[i] <= Len(Q)
  <2>1. \A i \in 1 .. n : i - 1 \in 0 .. n /\ i \in 0 .. n
    BY <1>a
  <2>. QED  BY <1>a, <2>1
<1>1. Len(s) = n /\ s \in Seq(Seq(A))
  <2>1. \A i \in 1 .. n : SubSeq(Q, cut[i - 1] + 1, cut[i]) \in Seq(A)
    BY <1>0, PieceFacts
  <2>2. s \in [1 .. n -> Seq(A)] /\ n \in Nat
    BY <1>a, <1>b, <2>1
  <2>. QED  BY <2>2, IsSequence
<1>. USE <1>a, <1>b
<1>2. FlattenSeq(s) = Flat[n]
  BY <1>1 DEF FlattenSeq
<1>3. \A i \in 1 .. n : i = 1 \/ i - 1 \in 1 .. n
  OBVIOUS
<1>4. \A i \in 1 .. n : G[i] = IF i = 1 THEN s[i] ELSE G[i - 1] \o s[i]
  <2>. SUFFICES ASSUME NEW i \in 1 .. n
                PROVE  SubSeq(Q, 1, cut[i]) = IF i = 1 THEN s[i] ELSE G[i - 1] \o s[i]
    OBVIOUS
  <2>. DEFINE a == cut[i - 1]
              b == cut[i]
  <2>1. a \in Nat /\ b \in Nat /\ a <= b /\ b <= Len(Q)
    BY <1>0
  <2>5. s[i] = SubSeq(Q, a + 1, b)
    OBVIOUS
  <2>2. i = 1 => a = 0
    <3>1. i = 1 => i - 1 = 0
      OBVIOUS
    <3>. QED  BY <3>1
  <2>3. i # 1 => G[i - 1] = SubSeq(Q, 1, a)
    BY <1>3
  <2>. HIDE DEF a, b, G
  <2>4. SubSeq(Q, 1, a) \o SubSeq(Q, a + 1, b) = SubSeq(Q, 1, b)
    BY <2>1, PieceFacts
  <2>6. SubSeq(Q, 0 + 1, b) = SubSeq(Q, 1, b)
    OBVIOUS
  <2>. QED  BY <2>2, <2>3, <2>4, <2>5, <2>6 DEF b
<1>5. G = [i \in 1 .. n |-> IF i = 1 THEN s[i] ELSE G[i - 1] \o s[i]]
  <2>1. G = [i \in 1 .. n |-> G[i]]
    OBVIOUS
  <2>. HIDE DEF G
  <2>. QED  BY <1>4, <2>1
<1>6. Flat = [i \in 1 .. n |-> IF i = 1 THEN s[i] ELSE Flat[i - 1] \o s[i]]
  <2>. HIDE DEF G
  <2>. QED  BY <1>5
<1>. HIDE DEF Flat
<1>7. \A i \in 1 .. n : Flat[i] = G[i]
  <2>. DEFINE Bad == {i \in 1 .. n : Flat[i] # G[i]}
  <2>0. SUFFICES ASSUME Bad # {}
                 PROVE  FALSE
    OBVIOUS
  <2>1. Bad \in SUBSET Nat
    OBVIOUS
  <2>2. PICK i \in Bad : \A j \in Bad : i <= j
    <3>. HIDE DEF Bad
    <3>. QED  BY <2>0, <2>1, LeastExists
  <2>3. i \in 1 .. n /\ Flat[i] # G[i]
    BY <2>2
  <2>. HIDE DEF G
  <2>4. i # 1 => Flat[i - 1] = G[i - 1]
    <3>1. i # 1 => i - 1 \in 1 .. n /\ ~(i <= i - 1)
      BY <2>3
    <3>. QED  BY <2>2, <3>1
  <2>5. Flat[i] = IF i = 1 THEN s[i] ELSE Flat[i - 1] \o s[i]
    BY <1>6, <2>3
  <2>6. G[i] = IF i = 1 THEN s[i] ELSE G[i - 1] \o s[i]
    BY <1>4, <2>3
  <2>. QED  BY <2>3, <2>4, <2>5, <2>6
<1>9. n \in 1 .. n
  OBVIOUS
<1>8. G[n] = SubSeq(Q, 1, Len(Q)) /\ SubSeq(Q, 1, Len(Q)) = Q
  <2>1. G[n] = SubSeq(Q, 1, cut[n])
    BY <1>9
  <2>. HIDE DEF G
  <2>2. G[n] = SubSeq(Q, 1, Len(Q))
    BY <2>1
  <2>3. SubSeq(Q, 1, Len(Q)) = Q
    OBVIOUS
  <2>. QED  BY <2>2, <2>3
<1>. HIDE DEF G
<1>. QED  BY <1>2, <1>7, <1>8, <1>9 DEF s

(* The events up to the end of a day.                                      *)
Until(d) == {e \in All : d = Terminal \/ (d \in Days /\ e[2] =< DayEnds[d])}
Cut(d) == Cardinality(Until(d))
Piece(d) == SubSeq(Ideal, Cut(d - 1) + 1, Cut(d))

LEMMA IdealFacts ==
  ASSUME SourceOK
  PROVE  Ideal \in Seq(All) /\ Len(Ideal) = Cardinality(All)
<1>1. Ideal = InOrder(All, Causal)
  BY ScheduleFacts DEF Ideal, All
<1>. QED  BY <1>1, AllFinite, CausalList

LEMMA CutFacts ==
  ASSUME SourceOK
  PROVE  /\ Terminal \in Nat \ {0} /\ Terminal \notin Days /\ 0 \notin Days
         /\ \A d \in 0 .. Terminal : Cut(d) \in 0 .. Cut(Terminal)
         /\ Cut(0) = 0 /\ Cut(Terminal) = Len(Ideal) /\ Until(Terminal) = All
         /\ \A d \in Shards : /\ d - 1 \in 0 .. Terminal /\ d \in 0 .. Terminal
                              /\ Until(d - 1) \subseteq Until(d) /\ Cut(d - 1) <= Cut(d)
<1>1. Len(DayEnds) \in Nat /\ IsFiniteSet(All) /\ All \in SUBSET Events
  BY Calendar, AllFinite
<1>2. /\ Terminal \in Nat \ {0} /\ Terminal \notin Days /\ 0 \notin Days
      /\ \A d \in Shards : d \in Nat /\ d - 1 \in 0 .. Terminal /\ d \in 0 .. Terminal
      /\ \A d \in Shards : d = Terminal \/ d \in Days
      /\ \A d \in Days : d \in Nat
  BY <1>1 DEF Terminal, Days, Shards
<1>3. \A d : Until(d) \in SUBSET All
  BY DEF Until
<1>4. \A d : IsFiniteSet(Until(d)) /\ Cut(d) \in Nat /\ Cut(d) <= Cardinality(All)
  BY <1>1, <1>3, FS_Subset, FS_CardinalityType DEF Cut
<1>5. Until(Terminal) = All /\ Until(0) = {}
  BY <1>2 DEF Until
<1>6. Cut(Terminal) = Cardinality(All) /\ Cut(0) = 0
  BY <1>5, FS_EmptySet DEF Cut
<1>7. ASSUME NEW d \in Shards
      PROVE  Until(d - 1) \subseteq Until(d)
  <2>1. CASE d = Terminal
    BY <1>3, <1>5, <2>1
  <2>2. CASE d # Terminal /\ d - 1 \in Days
    <3>1. d \in Days /\ d - 1 # Terminal
      BY <1>2, <2>2
    <3>2. /\ DayEnds[d - 1] \in Nat /\ DayEnds[d] \in Nat /\ DayStarts[d] \in Nat
          /\ DayEnds[d - 1] < DayStarts[d] /\ DayStarts[d] <= DayEnds[d]
      <4>1. d - 1 < d
        BY <1>2
      <4>2. DayStarts[d] <= DayEnds[d]
        BY <3>1, CalendarAssumption DEF Days
      <4>. QED  BY <2>2, <3>1, <4>1, <4>2, Calendar
    <3>3. \A e \in All : e[2] \in Nat
      BY <1>1 DEF Events
    <3>. QED  BY <2>2, <3>1, <3>2, <3>3 DEF Until
  <2>3. CASE d # Terminal /\ d - 1 \notin Days
    <3>1. d - 1 # Terminal
      BY <1>1, <1>2 DEF Shards
    <3>2. Until(d - 1) = {}
      BY <2>3, <3>1 DEF Until
    <3>. QED  BY <3>2
  <2>. QED  BY <2>1, <2>2, <2>3
<1>8. \A d \in Shards : Cut(d - 1) <= Cut(d)
  BY <1>3, <1>4, <1>7, FS_Subset DEF Cut
<1>9. \A d : Cut(d) \in 0 .. Cut(Terminal)
  BY <1>4, <1>6
<1>. QED  BY <1>2, <1>5, <1>6, <1>7, <1>8, <1>9, IdealFacts

(* An account that was fed the events up to a day's end is the replay up   *)
(* to there.                                                               *)
LEMMA FedUntil ==
  ASSUME SourceOK, NEW a, Fed(a), NEW d \in 0 .. Terminal, Range(a) = Until(d)
  PROVE  Len(a) = Cut(d) /\ \A i \in 1 .. Len(a) : a[i] = Ideal[i]
<1>1. a \in Seq(All) /\ Len(a) \in Nat /\ a \in [1 .. Len(a) -> All]
  BY DEF Fed
<1>2. \A i, j \in 1 .. Len(a) : a[i] = a[j] => i = j
  <2>. SUFFICES ASSUME NEW i \in 1 .. Len(a), NEW j \in 1 .. Len(a), i < j, a[i] = a[j]
                PROVE  FALSE
    BY <1>1
  <2>1. Causal(a[i], a[j]) /\ a[i] \in Events
    BY <1>1, AllFinite DEF Fed
  <2>. QED  BY <2>1, CausalOrder
<1>3. a \in Bijection(1 .. Len(a), Range(a))
  <2>1. \A e \in Range(a) : \E i \in 1 .. Len(a) : a[i] = e
    BY <1>1 DEF Range
  <2>2. a \in [1 .. Len(a) -> Range(a)]
    BY <1>1 DEF Range
  <2>. QED  BY <1>2, <2>1, <2>2 DEF Bijection, Injection, Surjection, IsInjective
<1>4. IsFiniteSet(1 .. Len(a)) /\ Cardinality(1 .. Len(a)) = Len(a)
  BY <1>1, OneTo
<1>5. ExistsBijection(1 .. Len(a), Range(a))
  BY <1>3 DEF ExistsBijection
<1>6. Len(a) = Cut(d)
  BY <1>4, <1>5, FS_Bijection DEF Cut
<1>7. Len(a) <= Len(Ideal) /\ SubSeq(a, 1, Len(a)) = SubSeq(Ideal, 1, Len(a))
  BY FedIsPrefix DEF IsPrefix
<1>8. ASSUME NEW i \in 1 .. Len(a)
      PROVE  a[i] = Ideal[i]
  <2>1. Ideal \in Seq(All)
    BY IdealFacts
  <2>2. SubSeq(a, 1, Len(a))[i] = a[i] /\ SubSeq(Ideal, 1, Len(a))[i] = Ideal[i]
    BY <1>1, <1>7, <2>1
  <2>. QED  BY <1>7, <2>2
<1>. QED  BY <1>6, <1>8

(* What the account holds when it is written to a shard.                   *)
LEMMA AppendRange ==
  ASSUME NEW A, NEW a \in Seq(A), NEW e \in A
  PROVE  /\ Range(Append(a, e)) = Range(a) \cup {e}
         /\ Len(Append(a, e)) = Len(a) + 1
<1>. DEFINE b == Append(a, e)
<1>1. /\ Len(a) \in Nat /\ Len(b) = Len(a) + 1 /\ b[Len(a) + 1] = e
      /\ \A i \in 1 .. Len(a) : b[i] = a[i]
      /\ DOMAIN a = 1 .. Len(a) /\ DOMAIN b = 1 .. Len(a) + 1
  OBVIOUS
<1>. HIDE DEF b
<1>2. \A i \in DOMAIN b : i \in DOMAIN a \/ i = Len(a) + 1
  BY <1>1
<1>3. DOMAIN a \subseteq DOMAIN b /\ Len(a) + 1 \in DOMAIN b
  BY <1>1
<1>4. Range(b) = Range(a) \cup {e}
  BY <1>1, <1>2, <1>3 DEF Range
<1>. QED  BY <1>1, <1>4 DEF b

(* What is resolved while a day is read belongs to the days up to it.      *)
LEMMA ResolveWithin ==
  ASSUME SourceOK, InHand, Due, phase = "rows",
         Stands(account, position, day, left), Range(account) \subseteq Until(day)
  PROVE  Range(Append(account, Schedule[position + 1])) \subseteq Until(day)
<1>. DEFINE e == Schedule[position + 1]
<1>1. /\ day \in Days /\ left \subseteq RowsOf(day) /\ left \in SUBSET Tape
  BY DEF InHand
<1>2. position + 1 \in 1 .. Len(Schedule)
  BY ScheduleFacts DEF Stands, Due
<1>3. e \in Closing /\ e \in All
  BY <1>2, ScheduleFacts DEF All
<1>4. account \in Seq(All)
  BY DEF Stands, Fed
<1>5. e[2] \in Nat /\ DayEnds[day] \in Nat
  BY <1>1, <1>3, AllFinite, Calendar DEF Events
<1>6. e[2] =< DayEnds[day]
  <2>1. CASE left # {} /\ e[2] < NextRow[2]
    <3>1. NextRow \in left
      BY <1>1, <2>1, NextRowIsFirst
    <3>2. NextRow[2] \in Nat /\ NextRow[2] =< DayEnds[day]
      <4>1. NextRow \in Events /\ NextRow[2] \in DayOf(day)
        BY <1>1, <3>1, SourceFinite DEF RowsOf
      <4>. QED  BY <1>1, <4>1, Calendar DEF Events, DayOf
    <3>. QED  BY <1>5, <2>1, <3>2
  <2>2. CASE left = {} /\ e[2] =< DayEnds[day]
    BY <2>2
  <2>. QED  BY <2>1, <2>2 DEF Due
<1>. HIDE DEF e
<1>7. e \in Until(day)
  BY <1>1, <1>3, <1>6 DEF Until
<1>8. Range(Append(account, e)) = Range(account) \cup {e}
  BY <1>3, <1>4, AppendRange
<1>. QED  BY <1>7, <1>8 DEF e

LEMMA ObserveWithin ==
  ASSUME SourceOK, InHand, phase = "rows", left # {},
         Stands(account, position, day, left), Range(account) \subseteq Until(day)
  PROVE  Range(Append(account, NextRow)) \subseteq Until(day)
<1>1. day \in Days /\ left \subseteq RowsOf(day) /\ left \in SUBSET Tape
  BY DEF InHand
<1>2. NextRow \in left
  BY <1>1, NextRowIsFirst
<1>3. NextRow \in All /\ NextRow[2] \in DayOf(day) /\ NextRow \in Events
  BY <1>1, <1>2, SourceFinite DEF RowsOf, All
<1>4. NextRow[2] =< DayEnds[day]
  BY <1>1, <1>3, Calendar DEF DayOf
<1>5. NextRow \in Until(day)
  BY <1>1, <1>3, <1>4 DEF Until
<1>6. account \in Seq(All)
  BY DEF Stands, Fed
<1>7. Range(Append(account, NextRow)) = Range(account) \cup {NextRow}
  BY <1>3, <1>6, AppendRange
<1>. QED  BY <1>5, <1>7

(* At the end of a day the account holds all events up to it.              *)
LEMMA DayClosed ==
  ASSUME SourceOK, phase = "rows", left = {}, day \in Days, ~ Due,
         Stands(account, position, day, left), Range(account) \subseteq Until(day)
  PROVE  Range(account) = Until(day)
<1>1. /\ position \in 0 .. Len(Schedule) /\ Len(Schedule) \in Nat
      /\ Schedule \in Seq(Closing)
      /\ \A i, j \in 1 .. Len(Schedule) : i < j => Causal(Schedule[i], Schedule[j])
  BY ScheduleFacts DEF Stands
<1>2. Closing \in SUBSET Events /\ Tape \in SUBSET Events /\ DayEnds[day] \in Nat
  BY SourceFinite, Calendar
<1>3. ASSUME NEW i \in position + 1 .. Len(Schedule)
      PROVE  DayEnds[day] < Schedule[i][2]
  <2>1. position < Len(Schedule) /\ position + 1 \in 1 .. Len(Schedule) /\ i \in 1 .. Len(Schedule)
    BY <1>1
  <2>2. Schedule[i] \in Events /\ Schedule[position + 1] \in Events
    BY <1>1, <1>2, <2>1
  <2>3. Schedule[i][2] \in Nat /\ Schedule[position + 1][2] \in Nat
    BY <2>2 DEF Events
  <2>4. ~(Schedule[position + 1][2] =< DayEnds[day])
    BY <2>1 DEF Due
  <2>5. CASE i = position + 1
    BY <1>2, <2>3, <2>4, <2>5
  <2>6. CASE i # position + 1
    <3>1. position + 1 < i
      BY <1>1, <2>6
    <3>2. Causal(Schedule[position + 1], Schedule[i])
      BY <1>1, <2>1, <3>1
    <3>3. Schedule[position + 1][2] =< Schedule[i][2]
      BY <2>3, <3>2 DEF Causal
    <3>. QED  BY <1>2, <2>3, <2>4, <3>3
  <2>. QED  BY <2>5, <2>6
<1>4. ASSUME NEW f \in Later(day)
      PROVE  DayEnds[day] < f[2]
  <2>1. PICK i \in Days : day < i /\ f[2] \in DayOf(i)
    BY DEF Later
  <2>2. /\ DayEnds[day] < DayStarts[i] /\ DayStarts[i] \in Nat /\ DayEnds[i] \in Nat
    BY <2>1, Calendar
  <2>. QED  BY <1>2, <2>1, <2>2 DEF DayOf
<1>5. \A e \in Ahead(position, day, {}) : DayEnds[day] < e[2]
  BY <1>3, <1>4 DEF Ahead
<1>6. day # Terminal
  BY CutFacts
<1>7. \A e \in Until(day) : e \in All /\ e[2] \in Nat /\ e[2] =< DayEnds[day]
  BY <1>6, AllFinite DEF Until, Events
<1>8. All \ Range(account) = Ahead(position, day, {})
  BY DEF Stands
<1>9. ASSUME NEW e \in Until(day)
      PROVE  e \in Range(account)
  <2>1. e \notin Ahead(position, day, {})
    BY <1>2, <1>5, <1>7
  <2>. QED  BY <1>7, <1>8, <2>1
<1>. QED  BY <1>9

LEMMA TailClosed ==
  ASSUME SourceOK, phase = "terminal", day = Terminal, left = {}, ~ Due,
         Stands(account, position, day, left)
  PROVE  Range(account) = All
<1>1. position \in 0 .. Len(Schedule) /\ Len(Schedule) \in Nat
  BY ScheduleFacts DEF Stands
<1>2. ~(position < Len(Schedule))
  BY DEF Due
<1>3. Later(day) = {}
  BY Calendar DEF Later, Days, Terminal
<1>4. Ahead(position, day, left) = {}
  BY <1>1, <1>2, <1>3 DEF Ahead
<1>5. account \in Seq(All)
  BY DEF Stands, Fed
<1>6. Range(account) \subseteq All
  BY <1>5 DEF Range
<1>. QED  BY <1>4, <1>6 DEF Stands

(* A shard written at the end of a day is the day's piece of the replay.   *)
LEMMA RecordsArePiece ==
  ASSUME SourceOK, Fed(account), day \in Shards, Range(account) = Until(day),
         written = Cut(day - 1)
  PROVE  Records = Piece(day)
<1>. DEFINE Q == Ideal
            a == Cut(day - 1)
            b == Cut(day)
<1>1. account \in Seq(All) /\ Q \in Seq(All)
  BY IdealFacts DEF Fed
<1>2. /\ a \in Nat /\ b \in Nat /\ a <= b /\ b <= Len(Q) /\ Len(Q) \in Nat
      /\ day \in 0 .. Terminal
  BY <1>1, CutFacts
<1>3. Len(account) = b /\ \A i \in 1 .. b : account[i] = Q[i]
  BY <1>2, FedUntil
<1>4. Records = SubSeq(account, a + 1, b)
  BY <1>3 DEF Records
<1>. HIDE DEF Q, a, b
<1>5. SubSeq(account, a + 1, b) = [i \in 1 .. b - a |-> account[i + a]]
  BY <1>1, <1>2, <1>3
<1>6. SubSeq(Q, a + 1, b) = [i \in 1 .. b - a |-> Q[i + a]]
  BY <1>1, <1>2
<1>7. \A i \in 1 .. b - a : i + a \in 1 .. b
  BY <1>2
<1>. QED  BY <1>3, <1>4, <1>5, <1>6, <1>7 DEF Piece, Q, a, b
----------------------------------------------------------------------------
(* The inductive invariant of the audit.  The shards on disk are the       *)
(* pieces of the replay that belong to their days; the checkpoint stands   *)
(* at the start of a day whose earlier shards exist; a day that is         *)
(* replayed again collects the same records it may already have written.   *)
Through(d, S) == 1 .. d - 1 \subseteq S
TailKept(S) == Terminal \in S \/ Cut(Terminal - 1) = Cut(Terminal)

Opens(a, w, d, S) ==
    /\ Through(d, S)
    /\ w = Len(a)
    /\ \/ Range(a) = Until(d - 1)
       \/ d = Terminal /\ Range(a) = All /\ TailKept(S)

Underway(p, d, a, w, S) ==
    /\ Through(d, S)
    /\ p = "rows" => Range(a) \subseteq Until(d)
    /\ p \in {"rows", "auditing"} => w = Cut(d - 1)
    /\ p = "terminal" => w = Cut(d - 1) \/ (Range(a) = All /\ w = Len(a) /\ TailKept(S))
    /\ p \in {"auditing", "receipting", "saving"} => Range(a) = Until(d)
    /\ p \in {"receipting", "saving"} => d \in S
    /\ p \in {"concluding", "finished"} => Range(a) = All /\ TailKept(S)

PiecesOf(f) == \A d \in DOMAIN f : d \in Shards /\ f[d] = Piece(d)

Auditing ==
    /\ PiecesOf(shard)
    /\ Opens(saved.account, saved.written, saved.next, DOMAIN shard)
    /\ phase \notin {"down", "raised"} => Underway(phase, day, account, written, DOMAIN shard)
    /\ result => Through(Terminal, DOMAIN shard) /\ TailKept(DOMAIN shard)

LEMMA FrozenAudit ==
  ASSUME UNCHANGED source,
         PiecesOf(shard'),
         Opens(saved'.account, saved'.written, saved'.next, DOMAIN shard'),
         phase' \notin {"down", "raised"}
            => Underway(phase', day', account', written', DOMAIN shard'),
         result' => Through(Terminal, DOMAIN shard') /\ TailKept(DOMAIN shard')
  PROVE  Auditing'
<1>1. Schedule' = Schedule /\ Tape' = Tape /\ Closing' = Closing
  BY Frozen
<1>2. PiecesOf(shard)'
  <2>1. Ideal' = Ideal
    BY <1>1 DEF Ideal, InOrder, Range
  <2>2. \A d : Cut(d)' = Cut(d)
    BY <1>1 DEF Cut, Until, All
  <2>3. \A d : Piece(d)' = Piece(d)
    BY <2>1, <2>2 DEF Piece
  <2>. QED  BY <2>3 DEF PiecesOf
<1>3. Opens(saved.account, saved.written, saved.next, DOMAIN shard)'
  BY <1>1 DEF Opens, Through, TailKept, Cut, Until, All
<1>4. Underway(phase', day', account', written', DOMAIN shard')
        => Underway(phase, day, account, written, DOMAIN shard)'
  BY <1>1 DEF Underway, Through, TailKept, Cut, Until, All
<1>5. (result => Through(Terminal, DOMAIN shard) /\ TailKept(DOMAIN shard))'
  BY <1>1 DEF Through, TailKept, Cut, Until, All
<1>. QED  BY <1>2, <1>3, <1>4, <1>5 DEF Auditing

(* A further shard takes nothing away.                                     *)
LEMMA MoreShards ==
  ASSUME NEW S, NEW T, S \subseteq T
  PROVE  /\ \A d : Through(d, S) => Through(d, T)
         /\ TailKept(S) => TailKept(T)
         /\ \A a, w, d : Opens(a, w, d, S) => Opens(a, w, d, T)
  BY DEF Opens, Through, TailKept

LEMMA AuditInit ==
  ASSUME Init
  PROVE  Auditing
<1>1. SourceOK
  BY DEF Init, SourceOK
<1>2. saved.account = <<>> /\ saved.written = 0 /\ saved.next = 1
  BY DEF Init, Fresh
<1>3. DOMAIN shard = {} /\ phase = "down" /\ ~ result
  BY DEF Init
<1>4. Terminal \in Nat \ {0} /\ Until(0) = {}
  BY <1>1, CutFacts DEF Until
<1>5. Range(<<>>) = {} /\ Len(<<>>) = 0 /\ 1 - 1 = 0 /\ 1 .. 0 = {}
  BY DEF Range
<1>6. Opens(<<>>, 0, 1, {})
  BY <1>4, <1>5 DEF Opens, Through
<1>. QED  BY <1>2, <1>3, <1>6 DEF Auditing, PiecesOf

(* A day that is opened starts where its checkpoint stands.                *)
LEMMA OpenedUnderway ==
  ASSUME SourceOK, NEW a, Fed(a), NEW w, NEW d \in Shards, NEW S, Opens(a, w, d, S)
  PROVE  Underway(IF d = Terminal THEN "terminal" ELSE "rows", d, a, w, S)
<1>1. d - 1 \in 0 .. Terminal /\ Until(d - 1) \subseteq Until(d)
  BY CutFacts
<1>2. Range(a) = Until(d - 1) => w = Cut(d - 1)
  BY <1>1, FedUntil DEF Opens
<1>3. CASE d = Terminal
  BY <1>2, <1>3 DEF Opens, Underway
<1>4. CASE d # Terminal
  BY <1>1, <1>2, <1>4 DEF Opens, Underway
<1>. QED  BY <1>3, <1>4

LEMMA ResolveUnderway ==
  ASSUME Feeding, Resolve, NEW S, Underway(phase, day, account, written, S)
  PROVE  Underway(phase, day, account', written, S)
<1>1. /\ Due /\ phase \in {"rows", "terminal"} /\ InHand /\ SourceOK
      /\ Stands(account, position, day, left)
      /\ account' = Append(account, Schedule[position + 1])
  BY HandsInHand DEF Resolve, Due, Feeding, MemoryStands
<1>2. CASE phase = "rows"
  <2>1. Range(account') \subseteq Until(day)
    BY <1>1, <1>2, ResolveWithin DEF Underway
  <2>. QED  BY <1>2, <2>1 DEF Underway
<1>3. CASE phase = "terminal"
  <2>1. position + 1 \in position + 1 .. Len(Schedule) /\ Schedule[position + 1] \in Closing
    BY <1>1, ScheduleFacts DEF Due, Stands
  <2>2. Schedule[position + 1] \in Ahead(position, day, left) /\ Schedule[position + 1] \in All
    BY <2>1 DEF Ahead, All
  <2>3. Range(account) # All
    BY <1>1, <2>2 DEF Stands
  <2>4. written = Cut(day - 1)
    BY <1>3, <2>3 DEF Underway
  <2>. QED  BY <1>3, <2>4 DEF Underway
<1>. QED  BY <1>1, <1>2, <1>3

LEMMA ObserveUnderway ==
  ASSUME Feeding, ObserveTrade, NEW S, Underway(phase, day, account, written, S)
  PROVE  Underway(phase, day, account', written, S)
<1>1. /\ phase = "rows" /\ left # {} /\ InHand /\ SourceOK
      /\ Stands(account, position, day, left)
      /\ account' = Append(account, NextRow)
  BY HandsInHand DEF ObserveTrade, Feeding, MemoryStands
<1>2. Range(account') \subseteq Until(day)
  BY <1>1, ObserveWithin DEF Underway
<1>. QED  BY <1>1, <1>2 DEF Underway

LEMMA EndTerminalUnderway ==
  ASSUME Feeding, EndTerminal, NEW S, Underway(phase, day, account, written, S)
  PROVE  Underway(phase', day, account, written, S)
<1>1. /\ phase = "terminal" /\ ~ Due /\ SourceOK /\ day = Terminal /\ left = {}
      /\ Stands(account, position, day, left) /\ Fed(account)
      /\ phase' = IF Records = <<>> THEN "concluding" ELSE "auditing"
  BY DEF EndTerminal, Feeding, MemoryStands, Hands
<1>2. Range(account) = All /\ Until(Terminal) = All
  BY <1>1, TailClosed, CutFacts
<1>3. /\ Terminal \in 0 .. Terminal /\ Terminal \in Shards
      /\ Cut(Terminal - 1) \in Nat /\ Cut(Terminal) \in Nat /\ Cut(Terminal - 1) <= Cut(Terminal)
  BY <1>1, CutFacts DEF Shards
<1>4. Len(account) = Cut(Terminal) /\ account \in Seq(All)
  BY <1>1, <1>2, <1>3, FedUntil DEF Fed
<1>5. ASSUME written \in Nat
      PROVE  Records = <<>> <=> ~(written < Len(account))
  <2>1. Records = SubSeq(account, written + 1, Len(account))
    BY DEF Records
  <2>2. Len(account) \in Nat
    BY <1>3, <1>4
  <2>. QED  BY <1>4, <1>5, <2>1, <2>2
<1>6. written = Cut(Terminal - 1)
         \/ (written = Len(account) /\ TailKept(S))
  BY <1>1 DEF Underway
<1>7. CASE Records = <<>>
  <2>1. TailKept(S)
    <3>1. CASE written = Cut(Terminal - 1)
      <4>1. ~(Cut(Terminal - 1) < Cut(Terminal))
        BY <1>3, <1>4, <1>5, <1>7, <3>1
      <4>. QED  BY <1>3, <4>1 DEF TailKept
    <3>. QED  BY <1>6, <3>1
  <2>2. phase' = "concluding"
    BY <1>1, <1>7
  <2>. QED  BY <1>2, <2>1, <2>2 DEF Underway
<1>8. CASE Records # <<>>
  <2>1. written = Cut(Terminal - 1)
    <3>1. ASSUME written = Len(account)
          PROVE  FALSE
      BY <1>3, <1>4, <1>5, <1>8, <3>1
    <3>. QED  BY <1>6, <3>1
  <2>2. phase' = "auditing"
    BY <1>1, <1>8
  <2>. QED  BY <1>1, <1>2, <2>1, <2>2 DEF Underway
<1>. QED  BY <1>7, <1>8

LEMMA SavedOpens ==
  ASSUME Feeding, Save, NEW S, Underway(phase, day, account, written, S)
  PROVE  /\ day \in Shards /\ day + 1 \in Shards
         /\ Opens(account, Len(account), day + 1, S)
<1>1. phase = "saving" /\ day # Terminal /\ day \in Shards
  BY DEF Save, Feeding, MemoryStands
<1>2. day \in Nat /\ day + 1 - 1 = day /\ day + 1 \in Shards
  BY <1>1, Calendar DEF Shards, Terminal
<1>3. 1 .. day = 1 .. day - 1 \cup {day} /\ day \in S
  BY <1>1, <1>2 DEF Underway, Shards
<1>. QED  BY <1>1, <1>2, <1>3 DEF Underway, Opens, Through

LEMMA AuditNext ==
  ASSUME Feeding, Auditing, [Next]_vars
  PROVE  Auditing'
<1>. DEFINE Running == phase \notin {"down", "raised"}
<1>1. UNCHANGED source
  BY DEF Next, Work, Start, Resolve, ObserveTrade, EndDay, EndTerminal, ReuseShard,
         RefuseHalfShard, WriteShard, WriteReceipt, Save, SaveTerminal, Conclude,
         Report, Crash, vars, source
<1>2. /\ SourceOK /\ Fed(account) /\ MemoryStands
      /\ saved.next \in Shards /\ Fed(saved.account)
  BY DEF Feeding, SavedStands, Stands
<1>3. /\ PiecesOf(shard)
      /\ Opens(saved.account, saved.written, saved.next, DOMAIN shard)
      /\ Running => Underway(phase, day, account, written, DOMAIN shard)
      /\ result => Through(Terminal, DOMAIN shard) /\ TailKept(DOMAIN shard)
  BY DEF Auditing
<1>4. ASSUME UNCHANGED <<shard, saved, result>>,
             phase' \notin {"down", "raised"}
                => Underway(phase', day', account', written', DOMAIN shard)
      PROVE  Auditing'
  BY <1>1, <1>3, <1>4, FrozenAudit
<1>5. CASE Start
  <2>1. /\ OpenDay(saved.next) /\ UNCHANGED <<shard, saved, result>>
        /\ account' = saved.account /\ written' = saved.written
    BY <1>5 DEF Start, durable
  <2>2. /\ day' = saved.next
        /\ phase' = IF saved.next = Terminal THEN "terminal" ELSE "rows"
    BY <2>1 DEF OpenDay
  <2>3. Underway(phase', day', account', written', DOMAIN shard)
    BY <1>2, <1>3, <2>1, <2>2, OpenedUnderway
  <2>. QED  BY <1>4, <2>1, <2>3
<1>6. CASE Resolve
  <2>1. /\ UNCHANGED <<shard, saved, result, phase, day, written>> /\ Running
    BY <1>6 DEF Resolve, Due, durable
  <2>2. Underway(phase, day, account', written, DOMAIN shard)
    BY <1>3, <1>6, <2>1, ResolveUnderway
  <2>. QED  BY <1>4, <2>1, <2>2
<1>7. CASE ObserveTrade
  <2>1. /\ UNCHANGED <<shard, saved, result, day, written>> /\ phase = "rows"
        /\ phase' \in {"rows", "raised"}
    BY <1>7 DEF ObserveTrade, durable
  <2>2. Underway(phase, day, account', written, DOMAIN shard)
    BY <1>3, <1>7, <2>1, ObserveUnderway
  <2>. QED  BY <1>4, <2>1, <2>2
<1>8. CASE EndDay
  <2>1. /\ UNCHANGED <<shard, saved, result, day, account, written>> /\ phase = "rows"
        /\ phase' = "auditing" /\ left = {} /\ ~ Due
    BY <1>8 DEF EndDay, durable, memory
  <2>2. day \in Days /\ Stands(account, position, day, left)
    BY <1>2, <2>1 DEF Feeding, Hands, MemoryStands
  <2>3. Underway(phase, day, account, written, DOMAIN shard)
    BY <1>3, <2>1
  <2>4. Range(account) = Until(day)
    BY <1>2, <2>1, <2>2, <2>3, DayClosed DEF Underway
  <2>5. Underway(phase', day, account, written, DOMAIN shard)
    BY <2>1, <2>3, <2>4 DEF Underway
  <2>. QED  BY <1>4, <2>1, <2>5
<1>9. CASE EndTerminal
  <2>1. UNCHANGED <<shard, saved, result, day, account, written>> /\ Running
    BY <1>9 DEF EndTerminal, durable, memory
  <2>2. Underway(phase', day, account, written, DOMAIN shard)
    BY <1>3, <1>9, <2>1, EndTerminalUnderway
  <2>. QED  BY <1>4, <2>1, <2>2
<1>10. CASE ReuseShard
  <2>1. /\ UNCHANGED <<shard, saved, result, day, account, written>> /\ phase = "auditing"
        /\ phase' = "saving" /\ day \in DOMAIN shard
    BY <1>10 DEF ReuseShard, durable, memory
  <2>2. Underway(phase', day, account, written, DOMAIN shard)
    BY <1>3, <2>1 DEF Underway
  <2>. QED  BY <1>4, <2>1, <2>2
<1>11. CASE RefuseHalfShard
  BY <1>4, <1>11 DEF RefuseHalfShard, durable
<1>12. CASE WriteShard
  <2>1. /\ UNCHANGED <<saved, result, day, account, written>> /\ phase = "auditing"
        /\ day \notin DOMAIN shard
        /\ \/ /\ shard' = [d \in DOMAIN shard \cup {day} |->
                             IF d = day THEN Records ELSE shard[d]]
              /\ phase' = "receipting"
           \/ UNCHANGED shard /\ phase' = "raised"
    BY <1>12 DEF WriteShard, memory
  <2>2. CASE UNCHANGED shard /\ phase' = "raised"
    BY <1>4, <2>1, <2>2
  <2>3. CASE /\ shard' = [d \in DOMAIN shard \cup {day} |->
                             IF d = day THEN Records ELSE shard[d]]
             /\ phase' = "receipting"
    <3>1. Underway(phase, day, account, written, DOMAIN shard) /\ day \in Shards
      BY <1>2, <1>3, <2>1 DEF MemoryStands
    <3>2. Records = Piece(day)
      BY <1>2, <2>1, <3>1, RecordsArePiece DEF Underway
    <3>3. /\ DOMAIN shard' = DOMAIN shard \cup {day}
          /\ \A d \in DOMAIN shard : shard'[d] = shard[d]
          /\ shard'[day] = Records
      BY <2>1, <2>3
    <3>4. PiecesOf(shard')
      BY <1>3, <3>1, <3>2, <3>3 DEF PiecesOf
    <3>5. /\ Opens(saved.account, saved.written, saved.next, DOMAIN shard')
          /\ result => Through(Terminal, DOMAIN shard') /\ TailKept(DOMAIN shard')
      BY <1>3, <3>3, MoreShards
    <3>6. Underway(phase', day, account, written, DOMAIN shard')
      BY <2>1, <2>3, <3>1, <3>3 DEF Underway, Through
    <3>. QED  BY <1>1, <2>1, <3>4, <3>5, <3>6, FrozenAudit
  <2>. QED  BY <2>1, <2>2, <2>3
<1>13. CASE WriteReceipt
  <2>1. /\ UNCHANGED <<shard, saved, result, day, account, written>> /\ phase = "receipting"
        /\ phase' = "saving"
    BY <1>13 DEF WriteReceipt, memory
  <2>2. Underway(phase', day, account, written, DOMAIN shard)
    BY <1>3, <2>1 DEF Underway
  <2>. QED  BY <1>4, <2>1, <2>2
<1>14. CASE Save
  <2>1. /\ UNCHANGED <<shard, result, account>> /\ phase = "saving"
        /\ saved' = Snapshot(day + 1) /\ written' = Len(account)
        /\ OpenDay(day + 1) \/ phase' = "down"
    BY <1>14 DEF Save
  <2>2. /\ day \in Shards /\ day + 1 \in Shards
        /\ Opens(account, Len(account), day + 1, DOMAIN shard)
    BY <1>3, <1>14, <2>1, SavedOpens
  <2>3. saved'.account = account /\ saved'.written = Len(account) /\ saved'.next = day + 1
    BY <2>1 DEF Snapshot
  <2>4. phase' \notin {"down", "raised"}
           => Underway(phase', day', account', written', DOMAIN shard)
    <3>1. CASE OpenDay(day + 1)
      <4>1. /\ day' = day + 1
            /\ phase' = IF day + 1 = Terminal THEN "terminal" ELSE "rows"
        BY <3>1 DEF OpenDay
      <4>. QED  BY <1>2, <2>1, <2>2, <4>1, OpenedUnderway
    <3>. QED  BY <2>1, <3>1
  <2>. QED  BY <1>1, <1>3, <2>1, <2>2, <2>3, <2>4, FrozenAudit
<1>15. CASE SaveTerminal
  <2>1. /\ UNCHANGED <<shard, saved, result, day, account>> /\ phase = "saving"
        /\ phase' = "concluding" /\ day = Terminal
    BY <1>15 DEF SaveTerminal, durable
  <2>2. Until(Terminal) = All
    BY <1>2, CutFacts
  <2>3. Underway(phase', day, account, written', DOMAIN shard)
    BY <1>3, <2>1, <2>2 DEF Underway, TailKept
  <2>. QED  BY <1>4, <2>1, <2>3
<1>16. CASE Conclude
  <2>1. /\ UNCHANGED <<shard, result, day, account, written>> /\ phase = "concluding"
        /\ \/ saved' = [Snapshot(Terminal) EXCEPT !.equity = equity] /\ phase' = "finished"
           \/ UNCHANGED saved /\ phase' = "raised"
    BY <1>16 DEF Conclude, memory
  <2>2. CASE UNCHANGED saved /\ phase' = "raised"
    BY <1>4, <2>1, <2>2
  <2>3. CASE saved' = [Snapshot(Terminal) EXCEPT !.equity = equity] /\ phase' = "finished"
    <3>1. saved'.account = account /\ saved'.written = Len(account) /\ saved'.next = Terminal
      BY <2>3 DEF Snapshot
    <3>2. Underway(phase, day, account, written, DOMAIN shard) /\ day = Terminal
      BY <1>3, <2>1 DEF Feeding, Hands
    <3>3. /\ Opens(account, Len(account), Terminal, DOMAIN shard)
          /\ Underway(phase', day, account, written, DOMAIN shard)
      BY <2>1, <2>3, <3>2 DEF Underway, Opens
    <3>. QED  BY <1>1, <1>3, <2>1, <3>1, <3>3, FrozenAudit
  <2>. QED  BY <2>1, <2>2, <2>3
<1>17. CASE Report
  <2>1. UNCHANGED <<shard, saved, phase, day, account, written>> /\ phase = "finished"
    BY <1>17 DEF Report, memory
  <2>2. Underway(phase, day, account, written, DOMAIN shard) /\ day = Terminal
    BY <1>3, <2>1 DEF Feeding, Hands
  <2>3. Through(Terminal, DOMAIN shard) /\ TailKept(DOMAIN shard)
    BY <2>1, <2>2 DEF Underway
  <2>. QED  BY <1>1, <1>3, <2>1, <2>2, <2>3, FrozenAudit
<1>18. CASE Crash
  BY <1>4, <1>18 DEF Crash, durable
<1>19. CASE UNCHANGED vars
  BY <1>3, <1>4, <1>19 DEF vars, durable, memory
<1>. QED  BY <1>5, <1>6, <1>7, <1>8, <1>9, <1>10, <1>11, <1>12, <1>13, <1>14, <1>15,
             <1>16, <1>17, <1>18, <1>19 DEF Next, Work

THEOREM AuditStands == Spec => []Auditing
<1>1. Init => Auditing
  BY AuditInit
<1>2. Feeding /\ Auditing /\ [Next]_vars => Auditing'
  BY AuditNext
<1>. QED  BY <1>1, <1>2, AccountStands, PTL DEF Spec

(* The result is reported only over shards that are the whole replay, each *)
(* event once and in the shard of its day: run_h010_policy_replay replays  *)
(* a day again after a crash, and write_audit_shard keeps what it finds.   *)
THEOREM AuditIsAlwaysComplete == Spec => []AuditIsComplete
<1>1. ASSUME Feeding, Auditing, result
      PROVE  FlattenSeq([d \in Shards |-> IF d \in DOMAIN shard THEN shard[d] ELSE <<>>]) = Ideal
  <2>. DEFINE s == [d \in Shards |-> IF d \in DOMAIN shard THEN shard[d] ELSE <<>>]
              Q == Ideal
              n == Terminal
              cut == [d \in 0 .. n |-> Cut(d)]
  <2>1. SourceOK /\ PiecesOf(shard) /\ 1 .. n - 1 \subseteq DOMAIN shard /\ TailKept(DOMAIN shard)
    BY <1>1 DEF Feeding, Auditing, Through
  <2>2. n \in Nat \ {0} /\ Shards = 1 .. n /\ Q \in Seq(All)
    BY <2>1, CutFacts, IdealFacts DEF Shards
  <2>3. cut \in [0 .. n -> Nat] /\ cut[0] = 0 /\ cut[n] = Len(Q)
    BY <2>1, <2>2, CutFacts
  <2>4. \A d \in 1 .. n : cut[d - 1] = Cut(d - 1) /\ cut[d] = Cut(d)
    BY <2>2
  <2>5. \A d \in 1 .. n : cut[d - 1] <= cut[d] /\ cut[d] <= Len(Q)
    BY <2>1, <2>2, <2>4, CutFacts
  <2>6. ASSUME NEW d \in 1 .. n
        PROVE  s[d] = SubSeq(Q, cut[d - 1] + 1, cut[d])
    <3>1. CASE d \in DOMAIN shard
      BY <2>1, <2>2, <2>4, <3>1 DEF PiecesOf, Piece
    <3>2. CASE d \notin DOMAIN shard
      <4>1. d = n
        BY <2>1, <2>2, <3>2
      <4>2. Cut(n - 1) = Cut(n) /\ Cut(n) \in Nat
        BY <2>1, <2>2, <3>2, <4>1, CutFacts DEF TailKept
      <4>3. SubSeq(Q, Cut(n) + 1, Cut(n)) = <<>>
        BY <2>2, <4>2
      <4>4. s[d] = <<>>
        BY <2>2, <3>2
      <4>. QED  BY <2>4, <4>1, <4>2, <4>3, <4>4
    <3>. QED  BY <3>1, <3>2
  <2>7. s = Pieces(Q, cut, n)
    <3>1. s = [d \in 1 .. n |-> s[d]]
      BY <2>2
    <3>. HIDE DEF s, cut
    <3>. QED  BY <2>6, <3>1 DEF Pieces
  <2>8. CutsUp(cut, n, Len(Q))
    <3>. HIDE DEF cut, n, Q
    <3>. QED  BY <2>2, <2>3, <2>5 DEF CutsUp
  <2>. HIDE DEF s, Q, n, cut
  <2>9. FlattenSeq(Pieces(Q, cut, n)) = Q
    BY <2>2, <2>8, PiecesFlatten
  <2>. QED  BY <2>7, <2>9 DEF s, Q
<1>2. Feeding /\ Auditing => AuditIsComplete
  BY <1>1 DEF AuditIsComplete
<1>. QED  BY <1>2, AccountStands, AuditStands, PTL

-----------------------------------------------------------------------------
(***************************************************************************)
(* The performance record of the replayed account: the incremental peak is *)
(* the maximum of the curve, no checkpoint is refused over it, and         *)
(* compaction changes no figure.                                           *)
(***************************************************************************)

(* The inductive invariant: nothing is needed beyond the types and the two *)
(* facts about the curve.                                                  *)
IInv == TypeOK /\ PeakIsCurveMaximum /\ CurveAscends

LEMMA InitCase == RecordInit => IInv
<1>. SUFFICES ASSUME RecordInit PROVE IInv
  OBVIOUS
<1>. USE ValuesAssumption DEF RecordInit
<1>1. curve = <<<<0, InitialCash>>>> /\ Len(curve) = 1 /\ curve[1] = <<0, InitialCash>>
  OBVIOUS
<1>2. TypeOK
  <2>1. <<0, InitialCash>> \in Point
    BY DEF Point
  <2>2. curve \in Seq(Point) /\ curve # <<>>
    BY <1>1, <2>1
  <2>3. closed \in Seq(Int)
    OBVIOUS
  <2>. QED  BY <2>2, <2>3 DEF TypeOK
<1>3. PeakIsCurveMaximum
  BY <1>1 DEF PeakIsCurveMaximum, IsPeak, Value
<1>4. CurveAscends
  BY <1>1 DEF CurveAscends
<1>. QED  BY <1>2, <1>3, <1>4 DEF IInv

LEMMA RecordCase ==
  ASSUME IInv, NEW t \in 0 .. LastSecond, NEW e \in Equities, RecordEquity(t, e)
  PROVE  IInv'
<1>. DEFINE n == Len(curve)
<1>1. curve \in Seq(Point) /\ n \in Nat /\ n >= 1 /\ e \in Nat /\ <<t, e>> \in Point
  BY ValuesAssumption DEF IInv, TypeOK, Point
<1>2. \A i \in 1 .. n : curve[i] \in Point /\ curve[i][1] \in 0 .. LastSecond /\ curve[i][2] \in Nat
  BY <1>1 DEF Point
<1>3. priorPeak \in Nat /\ peak \in Nat
  BY DEF IInv, TypeOK
<1>4. UNCHANGED pnlVars /\ peak' = Larger(priorPeak', e)
  BY DEF RecordEquity
<1>5. CASE SameSecond(t, e)
  <2>1. /\ curve' = [curve EXCEPT ![n] = <<t, e>>]
        /\ priorPeak' = priorPeak /\ curve[n][1] = t
    BY <1>5 DEF SameSecond, LastPoint
  <2>2. curve' \in Seq(Point) /\ Len(curve') = n /\ curve' # <<>>
    BY <1>1, <2>1
  <2>3. \A i \in 1 .. n : curve'[i] = IF i = n THEN <<t, e>> ELSE curve[i]
    BY <1>1, <2>1
  <2>4. TypeOK'
    BY <1>1, <1>3, <1>4, <2>1, <2>2 DEF TypeOK, pnlVars, Larger, IInv
  <2>5. CurveAscends'
    <3>1. \A i \in 1 .. n : curve'[i][1] = curve[i][1]
      BY <2>1, <2>3
    <3>. QED  BY <2>2, <3>1 DEF CurveAscends, IInv
  <2>6. IsPeak(priorPeak, n - 1)'
    <3>1. \A i \in 1 .. n - 1 : curve'[i] = curve[i]
      BY <1>1, <2>3
    <3>. QED  BY <1>1, <2>1, <2>2, <3>1 DEF IsPeak, Value, IInv, PeakIsCurveMaximum
  <2>7. IsPeak(peak, n)'
    <3>1. \A i \in 1 .. n - 1 : curve'[i] = curve[i] /\ curve[i][2] <= priorPeak
      <4>1. \A i \in 1 .. n - 1 : curve'[i] = curve[i]
        BY <1>1, <2>3
      <4>2. \A i \in 1 .. n - 1 : curve[i][2] <= priorPeak
        BY <1>1 DEF IInv, PeakIsCurveMaximum, IsPeak, Value
      <4>. QED  BY <4>1, <4>2
    <3>2. curve'[n][2] = e
      BY <1>1, <2>3
    <3>3. \A i \in 1 .. n : curve'[i][2] <= peak'
      BY <1>1, <1>2, <1>3, <1>4, <2>1, <3>1, <3>2 DEF Larger
    <3>4. \E i \in 1 .. n : peak' = curve'[i][2]
      <4>1. CASE priorPeak < e
        BY <1>1, <1>4, <2>1, <3>2, <4>1 DEF Larger
      <4>2. CASE ~(priorPeak < e) /\ n = 1
        <5>1. priorPeak = 0 /\ e = 0
          BY <1>1, <1>3, <4>2 DEF IInv, PeakIsCurveMaximum, IsPeak
        <5>. QED  BY <1>1, <1>4, <2>1, <3>2, <5>1 DEF Larger
      <4>3. CASE ~(priorPeak < e) /\ n # 1
        <5>1. PICK i \in 1 .. n - 1 : priorPeak = curve[i][2]
          BY <1>1, <4>3 DEF IInv, PeakIsCurveMaximum, IsPeak, Value
        <5>2. i \in 1 .. n /\ peak' = curve'[i][2]
          BY <1>1, <1>4, <2>1, <3>1, <4>3, <5>1 DEF Larger
        <5>. QED  BY <5>2
      <4>. QED  BY <4>1, <4>2, <4>3
    <3>. QED  BY <1>1, <2>2, <3>3, <3>4 DEF IsPeak, Value
  <2>8. PeakIsCurveMaximum'
    BY <2>2, <2>6, <2>7 DEF PeakIsCurveMaximum
  <2>. QED  BY <2>4, <2>5, <2>8 DEF IInv
<1>6. CASE NewSecond(t, e)
  <2>1. /\ curve' = Append(curve, <<t, e>>)
        /\ priorPeak' = Larger(priorPeak, curve[n][2]) /\ curve[n][1] < t
    BY <1>6 DEF NewSecond, LastPoint
  <2>2. curve' \in Seq(Point) /\ Len(curve') = n + 1 /\ curve' # <<>>
    BY <1>1, <2>1
  <2>3. /\ \A i \in 1 .. n : curve'[i] = curve[i]
        /\ curve'[n + 1] = <<t, e>>
    BY <1>1, <2>1
  <2>4. priorPeak' \in Nat /\ priorPeak' >= priorPeak /\ priorPeak' >= curve[n][2]
    BY <1>1, <1>2, <1>3, <2>1 DEF Larger
  <2>5. TypeOK'
    BY <1>1, <1>3, <1>4, <2>2, <2>4 DEF TypeOK, pnlVars, Larger, IInv
  <2>6. CurveAscends'
    <3>1. \A i \in 1 .. n : curve[i][1] < t
      <4>1. \A i \in 1 .. n : i < n => curve[i][1] < curve[n][1]
        BY <1>1 DEF IInv, CurveAscends
      <4>2. SUFFICES ASSUME NEW i \in 1 .. n PROVE curve[i][1] < t
        OBVIOUS
      <4>3. CASE i = n
        BY <2>1, <4>3
      <4>4. CASE i # n
        <5>1. curve[i][1] < curve[n][1]
          BY <1>1, <4>1, <4>4
        <5>2. curve[i][1] \in Nat /\ curve[n][1] \in Nat
          BY <1>1, <1>2
        <5>. QED  BY <2>1, <5>1, <5>2
      <4>. QED  BY <4>3, <4>4
    <3>2. \A i, j \in 1 .. n : i < j => curve'[i][1] < curve'[j][1]
      BY <2>3 DEF IInv, CurveAscends
    <3>3. SUFFICES ASSUME NEW i \in 1 .. n + 1, NEW j \in 1 .. n + 1, i < j
                   PROVE  curve'[i][1] < curve'[j][1]
      BY <2>2 DEF CurveAscends
    <3>4. i \in 1 .. n
      BY <1>1, <3>3
    <3>5. CASE j = n + 1
      BY <2>3, <3>1, <3>4, <3>5
    <3>6. CASE j # n + 1
      BY <1>1, <3>2, <3>3, <3>4, <3>6
    <3>. QED  BY <3>5, <3>6
  <2>7. IsPeak(priorPeak, Len(curve) - 1)'
    <3>1. \A i \in 1 .. n - 1 : curve[i][2] <= priorPeak
      BY <1>1 DEF IInv, PeakIsCurveMaximum, IsPeak, Value
    <3>2. \A i \in 1 .. n : curve'[i][2] <= priorPeak'
      <4>1. SUFFICES ASSUME NEW i \in 1 .. n PROVE curve[i][2] <= priorPeak'
        BY <2>3
      <4>2. curve[i][2] \in Nat
        BY <1>2
      <4>3. CASE i = n
        BY <2>4, <4>3
      <4>4. CASE i # n
        <5>1. curve[i][2] <= priorPeak
          BY <1>1, <3>1, <4>4
        <5>. QED  BY <1>3, <2>4, <4>2, <5>1
      <4>. QED  BY <4>3, <4>4
    <3>3. \E i \in 1 .. n : priorPeak' = curve'[i][2]
      <4>1. CASE priorPeak < curve[n][2]
        BY <1>1, <2>1, <2>3, <4>1 DEF Larger
      <4>2. CASE ~(priorPeak < curve[n][2]) /\ n = 1
        <5>1. priorPeak = 0 /\ curve[n][2] = 0
          BY <1>1, <1>2, <1>3, <4>2 DEF IInv, PeakIsCurveMaximum, IsPeak
        <5>. QED  BY <1>1, <2>1, <2>3, <5>1 DEF Larger
      <4>3. CASE ~(priorPeak < curve[n][2]) /\ n # 1
        <5>1. PICK i \in 1 .. n - 1 : priorPeak = curve[i][2]
          BY <1>1, <4>3 DEF IInv, PeakIsCurveMaximum, IsPeak, Value
        <5>2. i \in 1 .. n /\ priorPeak' = curve'[i][2]
          BY <1>1, <2>1, <2>3, <4>3, <5>1 DEF Larger
        <5>. QED  BY <5>2
      <4>. QED  BY <4>1, <4>2, <4>3
    <3>. QED  BY <1>1, <2>2, <3>2, <3>3 DEF IsPeak, Value
  <2>8. IsPeak(peak, Len(curve))'
    <3>0. Len(curve') - 1 = n
      BY <1>1, <2>2
    <3>1. /\ \A i \in 1 .. n : curve'[i][2] <= priorPeak'
          /\ \E i \in 1 .. n : priorPeak' = curve'[i][2]
      BY <1>1, <2>7, <3>0 DEF IsPeak, Value
    <3>2. curve'[n + 1][2] = e
      BY <2>3
    <3>3. \A i \in 1 .. n : curve'[i][2] \in Nat
      BY <1>2, <2>3
    <3>4. \A i \in 1 .. n + 1 : curve'[i][2] <= peak'
      <4>1. priorPeak' \in Nat /\ priorPeak' <= peak' /\ e <= peak'
        <5>1. priorPeak' \in Nat /\ e \in Nat
          BY <1>1, <2>4
        <5>. QED  BY <1>4, <5>1 DEF Larger
      <4>2. \A i \in 1 .. n + 1 : i \in 1 .. n \/ i = n + 1
        BY <1>1
      <4>. SUFFICES ASSUME NEW i \in 1 .. n + 1
                    PROVE  curve'[i][2] <= peak'
        OBVIOUS
      <4>3. CASE i \in 1 .. n
        <5>1. curve'[i][2] \in Nat /\ curve'[i][2] <= priorPeak'
          BY <3>1, <3>3, <4>3
        <5>2. peak' \in Nat
          BY <2>5 DEF TypeOK
        <5>. QED  BY <4>1, <5>1, <5>2
      <4>4. CASE i = n + 1
        BY <3>2, <4>1, <4>4
      <4>. QED  BY <4>2, <4>3, <4>4
    <3>5. \E i \in 1 .. n + 1 : peak' = curve'[i][2]
      <4>1. CASE priorPeak' < e
        BY <1>1, <1>4, <3>2, <4>1 DEF Larger
      <4>2. CASE ~(priorPeak' < e)
        BY <1>1, <1>4, <3>1, <4>2 DEF Larger
      <4>. QED  BY <4>1, <4>2
    <3>. QED  BY <1>1, <2>2, <3>4, <3>5 DEF IsPeak, Value
  <2>9. PeakIsCurveMaximum'
    BY <1>1, <2>2, <2>7, <2>8 DEF PeakIsCurveMaximum
  <2>. QED  BY <2>5, <2>6, <2>9 DEF IInv
<1>. QED  BY <1>5, <1>6 DEF RecordEquity

(* Two peaks of the same points are the same.                              *)
LEMMA PeakUnique ==
  ASSUME IInv, NEW n \in 0 .. Len(curve), NEW a, NEW b, IsPeak(a, n), IsPeak(b, n)
  PROVE  a = b
<1>1. CASE n = 0
  BY <1>1 DEF IsPeak
<1>2. CASE n # 0
  <2>1. \A i \in 1 .. n : curve[i][2] \in Nat
    BY DEF IInv, TypeOK, Point
  <2>2. PICK i \in 1 .. n : a = curve[i][2]
    BY <1>2 DEF IsPeak, Value
  <2>3. PICK j \in 1 .. n : b = curve[j][2]
    BY <1>2 DEF IsPeak, Value
  <2>4. a <= b /\ b <= a
    BY <1>2, <2>2, <2>3 DEF IsPeak, Value
  <2>. QED  BY <2>1, <2>2, <2>3, <2>4
<1>. QED  BY <1>1, <1>2

(* What a checkpoint recomputes is what the account had.                   *)
LEMMA PeaksAccepted ==
  ASSUME IInv
  PROVE  Accepted
<1>. DEFINE n == Len(curve)
<1>1. curve \in Seq(Point) /\ n \in Nat /\ n >= 1 /\ priorPeak \in Nat
  BY DEF IInv, TypeOK
<1>2. n - 1 \in 0 .. Len(curve) /\ n \in 0 .. Len(curve)
  BY <1>1
<1>3. priorPeak \in {0} \cup {Value(i) : i \in 1 .. n - 1} /\ IsPeak(priorPeak, n - 1)
  BY <1>1 DEF IInv, PeakIsCurveMaximum, IsPeak
<1>4. IsPeak(PeakOf(n - 1), n - 1)
  BY <1>3 DEF PeakOf
<1>5. priorPeak = PeakOf(n - 1)
  BY <1>2, <1>3, <1>4, PeakUnique
<1>6. peak = Larger(priorPeak, LastPoint[2])
  <2>1. IsPeak(Larger(priorPeak, LastPoint[2]), n)
    <3>1. \A i \in 1 .. n : curve[i][2] \in Nat
      BY <1>1 DEF Point
    <3>2. \A i \in 1 .. n : curve[i][2] <= Larger(priorPeak, curve[n][2])
      <4>1. \A i \in 1 .. n - 1 : curve[i][2] <= priorPeak
        <5>1. CASE n = 1
          BY <5>1
        <5>2. CASE n # 1
          BY <1>1, <1>3, <5>2 DEF IsPeak, Value
        <5>. QED  BY <5>1, <5>2
      <4>. QED  BY <1>1, <3>1, <4>1 DEF Larger
    <3>3. \E i \in 1 .. n : Larger(priorPeak, curve[n][2]) = curve[i][2]
      <4>1. CASE priorPeak < curve[n][2]
        BY <1>1, <4>1 DEF Larger
      <4>2. CASE ~(priorPeak < curve[n][2]) /\ n = 1
        <5>1. priorPeak = 0 /\ curve[n][2] = 0
          BY <1>1, <1>3, <3>1, <4>2 DEF IsPeak
        <5>. QED  BY <1>1, <5>1 DEF Larger
      <4>3. CASE ~(priorPeak < curve[n][2]) /\ n # 1
        <5>1. PICK i \in 1 .. n - 1 : priorPeak = curve[i][2]
          BY <1>1, <1>3, <4>3 DEF IsPeak, Value
        <5>. QED  BY <1>1, <4>3, <5>1 DEF Larger
      <4>. QED  BY <4>1, <4>2, <4>3
    <3>. QED  BY <1>1, <3>2, <3>3 DEF IsPeak, Value, LastPoint
  <2>2. IsPeak(peak, n)
    BY DEF IInv, PeakIsCurveMaximum
  <2>. QED  BY <1>2, <2>1, <2>2, PeakUnique
<1>. QED  BY <1>1, <1>5, <1>6 DEF Accepted, IInv, PeakIsCurveMaximum

(* Adding up the entries of a sequence gives a natural number; an empty    *)
(* sequence adds nothing.                                                  *)
LEMMA SumsAreNatural ==
  ASSUME NEW s \in Seq(Int)
  PROVE  Sum(Gain(s)) \in Nat /\ Sum(Loss(s)) \in Nat
<1>1. IsFiniteSet(1 .. Len(s))
  BY FS_Interval
<1>2. /\ DOMAIN Gain(s) = 1 .. Len(s) /\ DOMAIN Loss(s) = 1 .. Len(s)
      /\ \A i \in 1 .. Len(s) : Gain(s)[i] \in Nat
      /\ \A i \in 1 .. Len(s) : Loss(s)[i] \in Nat
  BY DEF Gain, Loss, Larger
<1>. QED  BY <1>1, <1>2, TotalType DEF Sum

LEMMA EmptySums == Sum(Gain(<<>>)) = 0 /\ Sum(Loss(<<>>)) = 0
<1>1. DOMAIN Gain(<<>>) = {} /\ DOMAIN Loss(<<>>) = {}
  BY DEF Gain, Loss
<1>. QED  BY <1>1, TotalZero DEF Sum

(* Nothing added changes nothing.                                          *)
LEMMA AddNothing == \A a \in Nat : a + 0 = a
  OBVIOUS

LEMMA CompactCase ==
  ASSUME IInv, CompactHistory
  PROVE  /\ IInv'
         /\ Gains' = Gains
         /\ Losses' = Losses
         /\ archivedCount' + Len(closed') = archivedCount + Len(closed)
<1>1. UNCHANGED <<curve, priorPeak, peak>> /\ closed' = <<>>
  BY DEF CompactHistory, curveVars
<1>2. /\ closed \in Seq(Int) /\ Len(closed) \in Nat
      /\ archivedCount \in Nat /\ archivedGains \in Nat /\ archivedLosses \in Nat
  BY DEF IInv, TypeOK
<1>3. Sum(Gain(closed)) \in Nat /\ Sum(Loss(closed)) \in Nat
  BY <1>2, SumsAreNatural
<1>4. Sum(Gain(closed')) = 0 /\ Sum(Loss(closed')) = 0 /\ Len(closed') = 0
  BY <1>1, EmptySums
<1>5. archivedGains' \in Nat /\ archivedLosses' \in Nat /\ archivedCount' \in Nat
  BY <1>2, <1>3 DEF CompactHistory
<1>6. IInv'
  <2>1. TypeOK'
    BY <1>1, <1>5 DEF IInv, TypeOK
  <2>2. PeakIsCurveMaximum' /\ CurveAscends'
    BY <1>1 DEF IInv, PeakIsCurveMaximum, CurveAscends, IsPeak, Value
  <2>. QED  BY <2>1, <2>2 DEF IInv
<1>7. /\ (archivedGains + Sum(Gain(closed)))' = archivedGains + Sum(Gain(closed))
      /\ (archivedLosses + Sum(Loss(closed)))' = archivedLosses + Sum(Loss(closed))
  <2>1. /\ (Sum(Gain(closed)))' = 0
        /\ (Sum(Loss(closed)))' = 0
    BY <1>4
  <2>2. /\ archivedGains' = archivedGains + Sum(Gain(closed))
        /\ archivedLosses' = archivedLosses + Sum(Loss(closed))
    BY DEF CompactHistory
  <2>3. archivedGains' + 0 = archivedGains' /\ archivedLosses' + 0 = archivedLosses'
    BY <1>5, AddNothing, Zenon
  <2>. QED  BY <2>1, <2>2, <2>3, Zenon
<1>8. archivedCount' + Len(closed') = archivedCount + Len(closed)
  BY <1>2, <1>4 DEF CompactHistory
<1>. QED  BY <1>6, <1>7, <1>8 DEF Gains, Losses

LEMMA ClosePnlCase ==
  ASSUME IInv, NEW pnl \in Pnls, ClosePnl(pnl)
  PROVE  IInv'
<1>1. UNCHANGED <<curve, priorPeak, peak>>
  BY DEF ClosePnl, curveVars
<1>2. TypeOK'
  BY <1>1, ValuesAssumption DEF ClosePnl, IInv, TypeOK
<1>3. PeakIsCurveMaximum' /\ CurveAscends'
  BY <1>1 DEF IInv, PeakIsCurveMaximum, CurveAscends, IsPeak, Value
<1>. QED  BY <1>2, <1>3 DEF IInv

LEMMA StutterCase == IInv /\ UNCHANGED recordVars => IInv'
<1>. SUFFICES ASSUME IInv, UNCHANGED recordVars PROVE IInv'
  OBVIOUS
<1>. USE DEF recordVars, curveVars, pnlVars
<1>1. TypeOK'
  BY DEF IInv, TypeOK
<1>2. PeakIsCurveMaximum' /\ CurveAscends'
  BY DEF IInv, PeakIsCurveMaximum, CurveAscends, IsPeak, Value
<1>. QED  BY <1>1, <1>2 DEF IInv

LEMMA Preserved == IInv /\ [RecordNext]_recordVars => IInv'
<1>. SUFFICES ASSUME IInv, [RecordNext]_recordVars PROVE IInv'
  OBVIOUS
<1>1. CASE \E t \in 0 .. LastSecond, e \in Equities : RecordEquity(t, e)
  BY <1>1, RecordCase
<1>2. CASE \E pnl \in Pnls : ClosePnl(pnl)
  BY <1>2, ClosePnlCase
<1>3. CASE CompactHistory
  BY <1>3, CompactCase
<1>4. CASE Resume
  BY <1>4, StutterCase DEF Resume
<1>5. CASE UNCHANGED recordVars
  BY <1>5, StutterCase
<1>. QED  BY <1>1, <1>2, <1>3, <1>4, <1>5 DEF RecordNext

(* The account's record has its types in every reachable state.            *)
THEOREM Types == RecordSpec => []TypeOK
<1>1. IInv => TypeOK
  BY DEF IInv
<1>. QED  BY <1>1, InitCase, Preserved, PTL DEF RecordSpec

(* The peak of _record_equity is the maximum of the recorded curve, so     *)
(* snapshot never refuses an account over it.                              *)
THEOREM PeakIsRight == RecordSpec => []PeakIsCurveMaximum
<1>1. IInv => PeakIsCurveMaximum
  BY DEF IInv
<1>. QED  BY <1>1, InitCase, Preserved, PTL DEF RecordSpec

(* The curve has one point a second, in order of time.                     *)
THEOREM CurveIsOrdered == RecordSpec => []CurveAscends
<1>1. IInv => CurveAscends
  BY DEF IInv
<1>. QED  BY <1>1, InitCase, Preserved, PTL DEF RecordSpec

(* No checkpoint is refused over a peak: what snapshot compares with the   *)
(* curve, and what from_snapshot computes again, is what the account has.  *)
THEOREM CheckpointsAreAccepted == RecordSpec => []Accepted
<1>1. IInv => Accepted
  BY PeaksAccepted
<1>. QED  BY <1>1, InitCase, Preserved, PTL DEF RecordSpec

(* Compacting the history changes no figure of the report: gains, losses   *)
(* and the number of closed trades stay what they were.                    *)
THEOREM FiguresAreKept == RecordSpec => CompactionKeepsFigures
<1>. DEFINE Kept == /\ Gains' = Gains
                    /\ Losses' = Losses
                    /\ archivedCount' + Len(closed') = archivedCount + Len(closed)
<1>1. IInv /\ [RecordNext]_recordVars => [CompactHistory => Kept]_recordVars
  BY CompactCase
<1>2. IInv /\ [RecordNext]_recordVars => IInv'
  BY Preserved
<1>3. CompactionKeepsFigures <=> [][CompactHistory => Kept]_recordVars
  BY DEF CompactionKeepsFigures
<1>. HIDE DEF Kept
<1>. QED  BY <1>1, <1>2, <1>3, InitCase, PTL DEF RecordSpec
----------------------------------------------------------------------------
(* Proportions: as bad is transitive, and less of a smaller value is lost  *)
(* when the loss comes down to the same.                                   *)
LEMMA Scaled ==
  ASSUME NEW x \in Int, NEW y \in Int, NEW k \in Nat
  PROVE  /\ x <= y => x * k <= y * k
         /\ k > 0 /\ x * k <= y * k => x <= y
  OBVIOUS

LEMMA NotWorse ==
  ASSUME NEW a \in Int, NEW b \in Nat, NEW c \in Int, NEW d \in Nat, NEW e \in Int, NEW f \in Nat,
         d > 0, a * d <= c * b, c * f <= e * d
  PROVE  a * f <= e * b
<1>1. (a * d) * f <= (c * b) * f
  <2>1. a * d \in Int /\ c * b \in Int
    OBVIOUS
  <2>. QED  BY <2>1, Scaled
<1>2. (c * f) * b <= (e * d) * b
  <2>1. c * f \in Int /\ e * d \in Int
    OBVIOUS
  <2>. QED  BY <2>1, Scaled
<1>3. (a * d) * f = (a * f) * d /\ (c * b) * f = (c * f) * b /\ (e * d) * b = (e * b) * d
  OBVIOUS
<1>4. a * f \in Int /\ e * b \in Int /\ c * f \in Int /\ (c * f) * b \in Int
  OBVIOUS
<1>5. (a * f) * d <= (e * b) * d
  BY <1>1, <1>2, <1>3, <1>4
<1>. QED  BY <1>4, <1>5, Scaled

LEMMA LessOfLess ==
  ASSUME NEW v \in Nat, NEW w \in Nat, NEW p \in Nat, v <= p
  PROVE  (v - w) * p <= (p - w) * v
<1>1. w * v <= w * p
  BY Scaled
<1>2. (v - w) * p = v * p - w * p /\ (p - w) * v = v * p - w * v
  OBVIOUS
<1>3. w * v \in Nat /\ w * p \in Nat /\ v * p \in Nat
  OBVIOUS
<1>. QED  BY <1>1, <1>2, <1>3

(* The running peak of the report is the peak of the points so far.        *)
LEMMA RunningPeakFacts ==
  ASSUME TypeOK, NEW N, N = Len(curve)
  PROVE  \A n \in 1 .. N : RunningPeak[n] \in Nat /\ IsPeak(RunningPeak[n], n)
<1>. DEFINE V == [i \in 1 .. N |-> Value(i)]
            Body(f) == [n \in 1 .. N |-> IF n = 1 THEN V[1] ELSE Larger(f[n - 1], V[n])]
            step == [q \in (1 .. N) \X Nat |->
                        IF q[1] = 1 THEN V[1] ELSE Larger(q[2], V[q[1]])]
<1>1. N \in Nat /\ N >= 1
  BY DEF TypeOK
<1>2. \A i \in 1 .. N : V[i] = Value(i) /\ Value(i) \in Nat
  BY DEF TypeOK, Point, Value
<1>3. RunningPeak = CHOOSE f : f = Body(f)
  <2>1. \A f : Body(f) = [n \in 1 .. Len(curve) |->
                             IF n = 1 THEN Value(1) ELSE Larger(f[n - 1], Value(n))]
    BY <1>1
  <2>. HIDE DEF Body
  <2>. QED  BY <2>1 DEF RunningPeak
<1>. HIDE DEF V
<1>4. \E f : f = Body(f)
  <2>1. step \in [(1 .. N) \X Nat -> Nat]
    <3>1. ASSUME NEW q \in (1 .. N) \X Nat
          PROVE  (IF q[1] = 1 THEN V[1] ELSE Larger(q[2], V[q[1]])) \in Nat
      BY <1>1, <1>2 DEF Larger
    <3>. QED  BY <3>1
  <2>. HIDE DEF step
  <2>2. PICK f \in [0 .. N -> Nat] : Follows(f, 0, step, N)
    <3>1. step \in StepsIn(Nat, N)
      BY <2>1 DEF StepsIn
    <3>. QED  BY <1>1, <3>1, StepsExist
  <2>. DEFINE g == [n \in 1 .. N |-> f[n]]
  <2>3. \A n \in 1 .. N : n - 1 \in 0 .. N /\ f[n - 1] \in Nat /\ (n = 1 \/ n - 1 \in 1 .. N)
    OBVIOUS
  <2>4. \A n \in 1 .. N : step[<<n, f[n - 1]>>] = IF n = 1 THEN V[1] ELSE Larger(f[n - 1], V[n])
    BY <2>3 DEF step
  <2>5. \A n \in 1 .. N : g[n] = IF n = 1 THEN V[1] ELSE Larger(g[n - 1], V[n])
    BY <2>2, <2>3, <2>4 DEF Follows
  <2>6. g = Body(g)
    BY <2>5
  <2>. HIDE DEF g, Body
  <2>. QED  BY <2>6
<1>5. RunningPeak = Body(RunningPeak)
  <2>. HIDE DEF Body
  <2>. QED  BY <1>3, <1>4
<1>. DEFINE R == RunningPeak
<1>6. \A n \in 1 .. N : R[n] = IF n = 1 THEN V[1] ELSE Larger(R[n - 1], V[n])
  BY <1>5
<1>. HIDE DEF R
<1>. DEFINE T == {n \in 0 .. N : n = 0 \/ (R[n] \in Nat /\ IsPeak(R[n], n))}
<1>7. 0 \in T
  BY <1>1
<1>8. ASSUME NEW n \in 1 .. N, n - 1 \in T
      PROVE  n \in T
  <2>1. CASE n = 1
    <3>1. R[1] = V[1] /\ 1 \in 1 .. N
      BY <1>1, <1>6
    <3>. QED  BY <1>2, <2>1, <3>1 DEF IsPeak
  <2>2. CASE n # 1
    <3>1. n - 1 # 0 /\ n - 1 \in 1 .. N
      BY <2>2
    <3>2. R[n - 1] \in Nat /\ IsPeak(R[n - 1], n - 1)
      BY <1>8, <3>1
    <3>3. R[n] = Larger(R[n - 1], Value(n)) /\ Value(n) \in Nat
      BY <1>2, <1>6, <2>2
    <3>4. /\ \A i \in 1 .. n - 1 : Value(i) <= R[n - 1]
          /\ \E i \in 1 .. n - 1 : R[n - 1] = Value(i)
      BY <3>1, <3>2 DEF IsPeak
    <3>5. \A i \in 1 .. n : Value(i) \in Nat /\ (i = n \/ i \in 1 .. n - 1)
      BY <1>2
    <3>6. \A i \in 1 .. n : Value(i) <= R[n]
      BY <3>2, <3>3, <3>4, <3>5 DEF Larger
    <3>7. \E i \in 1 .. n : R[n] = Value(i)
      BY <3>2, <3>3, <3>4 DEF Larger
    <3>8. R[n] \in Nat
      BY <3>2, <3>3 DEF Larger
    <3>. QED  BY <3>6, <3>7, <3>8 DEF IsPeak
  <2>. QED  BY <2>1, <2>2
<1>. HIDE DEF T
<1>9. \A n \in 0 .. N : n \in T
  BY <1>1, <1>7, <1>8, UpTo
<1>. QED  BY <1>9 DEF T, R

(* The report's loop keeps the worst of the losses it has seen.            *)
Ratios == Nat \X (Nat \ {0})
NoneWorse(n, r) == \A i \in 1 .. n : RunningPeak[i] # 0 => ~ Worse(LossAt(i), r)
OneAsBad(n, r) == r = <<0, 1>> \/ \E i \in 1 .. n : RunningPeak[i] # 0 /\ r = LossAt(i)

LEMMA LossIsRatio ==
  ASSUME TypeOK, NEW n \in 1 .. Len(curve), RunningPeak[n] # 0
  PROVE  LossAt(n) \in Ratios
<1>1. RunningPeak[n] \in Nat /\ IsPeak(RunningPeak[n], n)
  BY RunningPeakFacts
<1>2. Value(n) \in Nat /\ Value(n) <= RunningPeak[n]
  BY <1>1 DEF TypeOK, Point, Value, IsPeak
<1>3. RunningPeak[n] - Value(n) \in Nat
  BY <1>1, <1>2
<1>. QED  BY <1>1, <1>3 DEF LossAt, Ratios

LEMMA WorseOfWorse ==
  ASSUME NEW p \in Ratios, NEW q \in Ratios, NEW r \in Ratios, ~ Worse(p, q), Worse(r, q)
  PROVE  ~ Worse(p, r)
<1>. DEFINE a == p[1]  b == p[2]  c == q[1]  d == q[2]  e == r[1]  f == r[2]
<1>1. /\ a \in Nat /\ b \in Nat /\ c \in Nat /\ d \in Nat /\ e \in Nat /\ f \in Nat /\ d > 0
  BY DEF Ratios
<1>2. ~(a * d > c * b) /\ e * d > c * f
  BY DEF Worse
<1>. HIDE DEF a, b, c, d, e, f
<1>3. a * d \in Nat /\ c * b \in Nat /\ e * d \in Nat /\ c * f \in Nat /\ a * f \in Nat /\ e * b \in Nat
  BY <1>1
<1>4. a * d <= c * b /\ c * f <= e * d
  BY <1>2, <1>3
<1>5. a * f <= e * b
  BY <1>1, <1>4, NotWorse
<1>6. ~(a * f > e * b)
  BY <1>3, <1>5
<1>. QED  BY <1>6 DEF Worse, a, b, e, f

LEMMA DrawdownFacts ==
  ASSUME TypeOK, NEW N, N = Len(curve)
  PROVE  \A n \in 0 .. N : /\ Drawdown[n] \in Ratios
                            /\ NoneWorse(n, Drawdown[n]) /\ OneAsBad(n, Drawdown[n])
<1>. DEFINE L == [i \in 1 .. N |-> LossAt(i)]
            P == [i \in 1 .. N |-> RunningPeak[i]]
            Keep(n, r) == IF P[n] # 0 /\ Worse(L[n], r) THEN L[n] ELSE r
            Body(f) == [n \in 0 .. N |-> IF n = 0 THEN <<0, 1>> ELSE Keep(n, f[n - 1])]
            step == [q \in (1 .. N) \X Ratios |-> Keep(q[1], q[2])]
<1>1. N \in Nat /\ N >= 1
  BY DEF TypeOK
<1>2. \A i \in 1 .. N : L[i] = LossAt(i) /\ P[i] = RunningPeak[i] /\ (P[i] # 0 => L[i] \in Ratios)
  BY LossIsRatio
<1>. HIDE DEF L, P
<1>3. Drawdown = CHOOSE f : f = Body(f)
  <2>1. \A f : Body(f) = [n \in 0 .. Len(curve) |->
                            IF n = 0 THEN <<0, 1>>
                            ELSE IF RunningPeak[n] # 0 /\ Worse(LossAt(n), f[n - 1])
                                 THEN LossAt(n) ELSE f[n - 1]]
    <3>1. \A n \in 0 .. N : n # 0 => n \in 1 .. N
      OBVIOUS
    <3>. QED  BY <1>2, <3>1
  <2>. HIDE DEF Body
  <2>. QED  BY <2>1 DEF Drawdown
<1>4. <<0, 1>> \in Ratios /\ \A n \in 1 .. N, r \in Ratios : Keep(n, r) \in Ratios
  BY <1>2 DEF Ratios
<1>. HIDE DEF Keep
<1>5. \E f : f = Body(f)
  <2>1. step \in StepsIn(Ratios, N)
    BY <1>4 DEF StepsIn
  <2>2. \A n \in 1 .. N, r \in Ratios : step[<<n, r>>] = Keep(n, r)
    OBVIOUS
  <2>. HIDE DEF step
  <2>3. PICK f \in [0 .. N -> Ratios] : Follows(f, <<0, 1>>, step, N)
    BY <1>1, <1>4, <2>1, StepsExist
  <2>4. \A n \in 0 .. N : n = 0 \/ (n \in 1 .. N /\ n - 1 \in 0 .. N /\ f[n - 1] \in Ratios)
    OBVIOUS
  <2>5. \A n \in 0 .. N : f[n] = IF n = 0 THEN <<0, 1>> ELSE Keep(n, f[n - 1])
    BY <2>2, <2>3, <2>4 DEF Follows
  <2>6. f = Body(f)
    BY <2>5
  <2>. QED  BY <2>6
<1>6. Drawdown = Body(Drawdown)
  <2>. HIDE DEF Body
  <2>. QED  BY <1>3, <1>5
<1>. DEFINE D == Drawdown
<1>7. \A n \in 0 .. N : D[n] = IF n = 0 THEN <<0, 1>> ELSE Keep(n, D[n - 1])
  BY <1>6
<1>. HIDE DEF D
<1>. DEFINE T == {n \in 0 .. N : D[n] \in Ratios /\ NoneWorse(n, D[n]) /\ OneAsBad(n, D[n])}
<1>8. 0 \in T
  <2>1. 0 \in 0 .. N /\ D[0] = <<0, 1>>
    BY <1>1, <1>7
  <2>. QED  BY <1>4, <2>1 DEF NoneWorse, OneAsBad
<1>9. ASSUME NEW n \in 1 .. N, n - 1 \in T
      PROVE  n \in T
  <2>1. /\ n - 1 \in 0 .. N /\ n \in 0 .. N /\ n # 0
        /\ \A i \in 1 .. n : i \in 1 .. N /\ (i = n \/ i \in 1 .. n - 1)
        /\ 1 .. n - 1 \subseteq 1 .. n
    BY <1>1
  <2>2. D[n - 1] \in Ratios /\ NoneWorse(n - 1, D[n - 1]) /\ OneAsBad(n - 1, D[n - 1])
    BY <1>9
  <2>3. D[n] = Keep(n, D[n - 1])
    BY <1>7, <2>1
  <2>4. D[n] \in Ratios
    BY <1>4, <2>2, <2>3
  <2>5. CASE P[n] # 0 /\ Worse(L[n], D[n - 1])
    <3>1. D[n] = LossAt(n) /\ RunningPeak[n] # 0 /\ Worse(D[n], D[n - 1])
      BY <1>2, <2>3, <2>5 DEF Keep
    <3>2. ASSUME NEW i \in 1 .. n, RunningPeak[i] # 0
          PROVE  ~ Worse(LossAt(i), D[n])
      <4>1. LossAt(i) \in Ratios
        BY <1>2, <2>1, <3>2
      <4>2. CASE i = n
        BY <2>4, <3>1, <4>2 DEF Worse, Ratios
      <4>3. CASE i \in 1 .. n - 1
        <5>1. ~ Worse(LossAt(i), D[n - 1])
          BY <2>2, <3>2, <4>3 DEF NoneWorse
        <5>. QED  BY <2>2, <2>4, <3>1, <4>1, <5>1, WorseOfWorse
      <4>. QED  BY <2>1, <4>2, <4>3
    <3>3. OneAsBad(n, D[n])
      BY <3>1 DEF OneAsBad
    <3>4. NoneWorse(n, D[n])
      BY <3>2 DEF NoneWorse
    <3>. QED  BY <2>1, <2>4, <3>3, <3>4
  <2>6. CASE ~(P[n] # 0 /\ Worse(L[n], D[n - 1]))
    <3>1. D[n] = D[n - 1] /\ (RunningPeak[n] # 0 => ~ Worse(LossAt(n), D[n]))
      BY <1>2, <2>3, <2>6 DEF Keep
    <3>2. NoneWorse(n, D[n])
      BY <2>1, <2>2, <3>1 DEF NoneWorse
    <3>3. OneAsBad(n, D[n])
      BY <2>1, <2>2, <3>1 DEF OneAsBad
    <3>. QED  BY <2>1, <2>4, <3>2, <3>3
  <2>. QED  BY <2>5, <2>6
<1>. HIDE DEF T
<1>10. \A n \in 0 .. N : n \in T
  BY <1>1, <1>8, <1>9, UpTo
<1>. QED  BY <1>10 DEF T, D

LEMMA WorstIsReported ==
  ASSUME TypeOK
  PROVE  DrawdownIsWorstLoss
<1>. DEFINE n == Len(curve)
            r == Drawdown[n]
<1>1. n \in Nat /\ n >= 1
  BY DEF TypeOK
<1>2. \A i \in 1 .. n : /\ Value(i) \in Nat
                        /\ RunningPeak[i] \in Nat /\ IsPeak(RunningPeak[i], i)
  <2>1. \A i \in 1 .. n : Value(i) \in Nat
    BY DEF TypeOK, Point, Value
  <2>2. \A i \in 1 .. n : RunningPeak[i] \in Nat /\ IsPeak(RunningPeak[i], i)
    BY RunningPeakFacts
  <2>. QED  BY <2>1, <2>2
<1>3. r \in Ratios /\ NoneWorse(n, r) /\ OneAsBad(n, r)
  <2>1. n \in 0 .. n
    BY <1>1
  <2>. QED  BY <2>1, DrawdownFacts
<1>. HIDE DEF r
<1>4. ASSUME NEW f \in Falls
      PROVE  ~ Worse(LossBetween(f[1], f[2]), r)
  <2>. DEFINE i == f[1]
              j == f[2]
              v == Value(i)
              w == Value(j)
              p == RunningPeak[j]
  <2>1. i \in 1 .. n /\ j \in 1 .. n /\ i <= j /\ v > 0
    BY DEF Falls
  <2>2. i \in 1 .. j /\ j # 0
    BY <2>1
  <2>3. v \in Nat /\ w \in Nat /\ p \in Nat /\ v <= p /\ w <= p
    <3>1. j \in 1 .. j
      BY <2>1
    <3>. QED  BY <1>2, <2>1, <2>2, <3>1 DEF IsPeak
  <2>4. p > 0 /\ RunningPeak[j] # 0
    BY <2>1, <2>3
  <2>5. ~ Worse(<<p - w, p>>, r)
    BY <1>3, <2>1, <2>4 DEF NoneWorse, LossAt
  <2>. HIDE DEF v, w, p
  <2>6. r[1] \in Nat /\ r[2] \in Nat
    BY <1>3 DEF Ratios
  <2>7. (p - w) * r[2] <= r[1] * p
    <3>1. ~((p - w) * r[2] > r[1] * p)
      BY <2>5 DEF Worse
    <3>2. (p - w) * r[2] \in Int /\ r[1] * p \in Int
      BY <2>3, <2>6
    <3>. QED  BY <3>1, <3>2
  <2>8. (v - w) * p <= (p - w) * v
    BY <2>3, LessOfLess
  <2>9. (v - w) * r[2] <= r[1] * v
    <3>1. v - w \in Int /\ p - w \in Int /\ r[1] \in Int
      BY <2>3, <2>6
    <3>. QED  BY <2>3, <2>4, <2>6, <2>7, <2>8, <3>1, NotWorse
  <2>10. ~((v - w) * r[2] > r[1] * v)
    <3>1. (v - w) * r[2] \in Int /\ r[1] * v \in Int
      BY <2>3, <2>6
    <3>. QED  BY <2>9, <3>1
  <2>. QED  BY <2>10 DEF Worse, LossBetween, v, w
<1>5. ASSUME NEW i \in 1 .. n, RunningPeak[i] # 0, r = LossAt(i)
      PROVE  \E f \in Falls : LossBetween(f[1], f[2]) = r
  <2>1. PICK k \in 1 .. i : RunningPeak[i] = Value(k)
    BY <1>2 DEF IsPeak
  <2>2. k \in 1 .. n /\ k <= i /\ Value(k) > 0
    BY <1>2, <1>5, <2>1
  <2>3. <<k, i>> \in Falls
    BY <2>2 DEF Falls
  <2>4. LossBetween(k, i) = r
    BY <1>5, <2>1 DEF LossBetween, LossAt
  <2>. QED  BY <2>3, <2>4
<1>. QED  BY <1>3, <1>4, <1>5 DEF DrawdownIsWorstLoss, OneAsBad, r

(* The drawdown of a report is the worst loss of the recorded curve, from  *)
(* any point to a later one: metrics finds it in one pass.                 *)
THEOREM DrawdownIsRight == RecordSpec => []DrawdownIsWorstLoss
<1>1. TypeOK => DrawdownIsWorstLoss
  BY WorstIsReported
<1>. QED  BY <1>1, Types, PTL
=============================================================================
