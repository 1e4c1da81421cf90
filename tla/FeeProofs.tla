----------------------------- MODULE FeeProofs -----------------------------
(***************************************************************************)
(* Books of fee schedules cover what their sources audited, hold nothing   *)
(* the whole receipts do not show, and do not depend on where a build was  *)
(* stopped, for any tape, receipts, market infos, epochs, sizes of a wave  *)
(* and numbers of candidates, rounds and stops.                            *)
(***************************************************************************)
EXTENDS FeeSchedule, TotalsProofs

(***************************************************************************)
(* Numbers: least and greatest members, and the epochs.                    *)
(***************************************************************************)
(* The library defines Min and Max by CHOOSE.                              *)
LEMMA MinIsLeast ==
  ASSUME NEW S \in SUBSET Nat, S # {}
  PROVE  Min(S) \in S /\ \A y \in S : Min(S) <= y
<1>1. \E x \in S : \A y \in S : x <= y
  BY LeastExists
<1>. QED  BY <1>1 DEF Min

(* A finite set of numbers has a greatest one.                             *)
LEMMA MaxIsGreatest ==
  ASSUME NEW S \in SUBSET Nat, S # {}, IsFiniteSet(S)
  PROVE  Max(S) \in S /\ \A y \in S : y <= Max(S)
<1>. DEFINE P == [e \in S |-> {d \in S : d < e}]
            n == Cardinality(S)
<1>1. P \in [S -> SUBSET S]
  OBVIOUS
<1>2. \A e \in S : e \notin P[e]
  OBVIOUS
<1>3. \A e, f \in S : e \in P[f] => P[e] \subseteq P[f]
  <2>. SUFFICES ASSUME NEW e \in S, NEW f \in S, e \in P[f], NEW d \in P[e]
                PROVE  d \in P[f]
    OBVIOUS
  <2>. QED  OBVIOUS
<1>4. \A e, f \in S : e = f \/ e \in P[f] \/ f \in P[e]
  OBVIOUS
<1>5. \A e, f \in S : f < e => f \in P[e]
  OBVIOUS
<1>. HIDE DEF P
<1>6. /\ \A e \in S : Cardinality(P[e]) \in 0 .. n - 1
      /\ \A e, f \in S : e \in P[f] => Cardinality(P[e]) < Cardinality(P[f])
      /\ \A i \in 1 .. n : \E e \in S : Cardinality(P[e]) = i - 1
  BY <1>1, <1>2, <1>3, <1>4, RanksCount
<1>7. n \in Nat /\ n # 0
  BY FS_CardinalityType, FS_EmptySet
<1>8. PICK x \in S : Cardinality(P[x]) = n - 1
  BY <1>6, <1>7
<1>9. \A y \in S : x >= y
  <2>. SUFFICES ASSUME NEW y \in S, x < y
                PROVE  FALSE
    OBVIOUS
  <2>1. Cardinality(P[x]) < Cardinality(P[y]) /\ Cardinality(P[y]) \in 0 .. n - 1
    BY <1>5, <1>6
  <2>. QED  BY <1>7, <1>8, <2>1
<1>10. Max(S) \in S /\ \A y \in S : Max(S) >= y
  BY <1>9 DEF Max
<1>. QED  BY <1>10

(* The image of a finite set is finite.                                    *)
LEMMA FiniteRange ==
  ASSUME NEW S, IsFiniteSet(S), NEW f
  PROVE  IsFiniteSet({f[x] : x \in S})
<1>. DEFINE T == {f[x] : x \in S}
            g == [x \in S |-> f[x]]
<1>1. g \in Surjection(S, T)
  BY DEF Surjection
<1>. HIDE DEF g
<1>. QED  BY <1>1, FS_Surjection

(* The times of the tape ascend to the last.                               *)
LEMMA TapeFacts ==
  /\ Len(Tape) \in Nat /\ Len(Tape) \in Rows /\ Rows = 1 .. Len(Tape)
  /\ \A i \in Rows : /\ Tape[i].time \in Nat /\ Tape[i].tx \in Nat /\ Tape[i].condition \in Conditions
                     /\ TxTime[Tape[i].tx] = Tape[i].time
                     /\ Tape[i].time <= Tape[Len(Tape)].time
<1>. DEFINE n == Len(Tape)
<1>1. n \in Nat /\ Rows = 1 .. n /\ n # 0
  BY FeeAssumption DEF Rows
<1>2. \A i \in Rows : Tape[i].time \in Nat /\ Tape[i].tx \in Nat /\ Tape[i].condition \in Conditions
  <2>. SUFFICES ASSUME NEW i \in Rows
                PROVE  Tape[i].time \in Nat /\ Tape[i].tx \in Nat /\ Tape[i].condition \in Conditions
    OBVIOUS
  <2>1. Tape[i] \in [condition : Nat, time : Nat, tx : Nat]
    <3>. DEFINE R == [condition : Nat, time : Nat, tx : Nat]
    <3>1. Tape \in Seq(R)
      BY FeeAssumption
    <3>. HIDE DEF R
    <3>2. Tape[i] \in R
      BY <3>1 DEF Rows
    <3>. QED  BY <3>2 DEF R
  <2>. QED  BY <2>1 DEF Conditions
<1>3. n \in Rows /\ n - 1 \in Nat
  BY <1>1
<1>. DEFINE T == {k \in 0 .. n - 1 : Tape[n - k].time <= Tape[n].time}
<1>4. 0 \in T
  BY <1>1, <1>2, <1>3
<1>5. ASSUME NEW k \in 1 .. n - 1, k - 1 \in T
      PROVE  k \in T
  <2>1. n - (k - 1) \in 2 .. n /\ n - (k - 1) - 1 = n - k /\ n - k \in Rows /\ n - (k - 1) \in Rows
    BY <1>1, <1>3
  <2>2. Tape[n - k].time <= Tape[n - (k - 1)].time
    BY <2>1, FeeAssumption
  <2>3. Tape[n - (k - 1)].time <= Tape[n].time
    BY <1>5
  <2>4. Tape[n - k].time \in Nat /\ Tape[n - (k - 1)].time \in Nat /\ Tape[n].time \in Nat
    BY <1>2, <1>3, <2>1
  <2>5. Tape[n - k].time <= Tape[n].time
    BY <2>2, <2>3, <2>4
  <2>6. k \in 0 .. n - 1
    BY <1>3
  <2>. QED  BY <2>5, <2>6
<1>. HIDE DEF T
<1>6. \A k \in 0 .. n - 1 : k \in T
  BY <1>3, <1>4, <1>5, UpTo
<1>7. ASSUME NEW i \in Rows
      PROVE  Tape[i].time <= Tape[n].time
  <2>1. n - i \in 0 .. n - 1 /\ n - (n - i) = i
    BY <1>1
  <2>. QED  BY <1>6, <2>1 DEF T
<1>. QED  BY <1>1, <1>2, <1>3, <1>7, FeeAssumption

(* The last epoch ends after all trades.                                   *)
LEMMA BoundaryFacts ==
  /\ FirstFee \in Nat /\ Cutover \in Nat /\ FirstFee \in Boundaries /\ Cutover \in Boundaries
  /\ Latency \in Nat /\ Wait \in Nat /\ Horizon \in Nat \ {0}
  /\ Boundaries \in SUBSET Nat /\ Boundaries # {} /\ IsFiniteSet(Boundaries)
  /\ End \in Nat /\ \A i \in Rows : Tape[i].time < End
<1>1. /\ FirstFee \in Nat /\ Cutover \in Nat /\ FirstFee \in Boundaries /\ Cutover \in Boundaries
      /\ Latency \in Nat /\ Wait \in Nat
      /\ Boundaries \in SUBSET Nat /\ Boundaries # {} /\ IsFiniteSet(Boundaries)
  BY FeeAssumption
<1>2. Horizon \in Nat \ {0}
  BY <1>1 DEF Horizon
<1>. DEFINE t == Tape[Len(Tape)].time
            S == {t, Max(Boundaries)}
<1>3. Max(Boundaries) \in Nat
  BY <1>1, MaxIsGreatest
<1>4. t \in Nat
  BY TapeFacts
<1>5. S \in SUBSET Nat /\ S # {} /\ IsFiniteSet(S)
  <2>1. IsFiniteSet({t})
    BY FS_Singleton
  <2>2. IsFiniteSet({t} \cup {Max(Boundaries)})
    BY <2>1, FS_AddElement
  <2>3. {t} \cup {Max(Boundaries)} = S
    OBVIOUS
  <2>. QED  BY <1>3, <1>4, <2>2, <2>3
<1>6. Max(S) \in Nat /\ t <= Max(S)
  BY <1>5, MaxIsGreatest
<1>. HIDE DEF t, S
<1>7. End = Max(S) + Horizon + 1
  BY DEF End, S, t
<1>8. \A i \in Rows : Tape[i].time \in Nat /\ Tape[i].time <= t
  BY TapeFacts DEF t
<1>9. \A i \in Rows : Tape[i].time < End
  BY <1>2, <1>4, <1>6, <1>7, <1>8
<1>. QED  BY <1>1, <1>2, <1>6, <1>7, <1>9

(* Each trade of the tape lies in an epoch.                                *)
LEMMA EpochExists ==
  ASSUME NEW i \in Rows
  PROVE  \E e \in Epochs : e[1] <= Tape[i].time /\ Tape[i].time < e[2]
<1>. DEFINE t == Tape[i].time
            Lows == {x \in Boundaries \cup {0} : x <= t}
            Highs == {x \in Boundaries \cup {End} : t < x}
            a == Max(Lows)
            b == Min(Highs)
<1>1. t \in Nat /\ t < End /\ End \in Nat /\ Boundaries \in SUBSET Nat /\ IsFiniteSet(Boundaries)
  BY TapeFacts, BoundaryFacts
<1>2. Lows \in SUBSET Nat /\ Lows # {} /\ Highs \in SUBSET Nat /\ Highs # {}
  <2>1. 0 \in Lows /\ End \in Highs
    BY <1>1
  <2>2. Boundaries \cup {0} \in SUBSET Nat /\ Boundaries \cup {End} \in SUBSET Nat
    BY <1>1
  <2>. QED  BY <2>1, <2>2
<1>3. IsFiniteSet(Lows)
  <2>1. Lows \in SUBSET (Boundaries \cup {0}) /\ IsFiniteSet(Boundaries \cup {0})
    BY <1>1, FS_AddElement
  <2>. QED  BY <2>1, FS_Subset
<1>4. a \in Lows /\ \A y \in Lows : y <= a
  BY <1>2, <1>3, MaxIsGreatest
<1>5. b \in Highs /\ \A y \in Highs : b <= y
  BY <1>2, MinIsLeast
<1>. HIDE DEF a, b
<1>6. a < b /\ \A x \in Boundaries : ~(a < x /\ x < b)
  <2>1. a \in Nat /\ b \in Nat /\ a <= t /\ t < b
    BY <1>2, <1>4, <1>5
  <2>. SUFFICES ASSUME NEW x \in Boundaries, a < x, x < b
                PROVE  FALSE
    BY <1>1, <2>1
  <2>2. x \in Nat
    BY <1>1
  <2>3. CASE x <= t
    <3>1. x \in Lows
      BY <2>3
    <3>. QED  BY <1>4, <2>1, <2>2, <3>1
  <2>4. CASE t < x
    <3>1. x \in Highs
      BY <2>4
    <3>. QED  BY <1>5, <2>1, <2>2, <3>1
  <2>. QED  BY <1>1, <2>2, <2>3, <2>4
<1>7. <<a, b>> \in Epochs
  BY <1>4, <1>5, <1>6 DEF Epochs
<1>. QED  BY <1>4, <1>5, <1>7

(* No epoch has the cutover within it.                                     *)
LEMMA EpochFacts ==
  ASSUME NEW e \in Epochs
  PROVE  /\ e[1] \in Nat /\ e[2] \in Nat /\ e[1] < e[2]
         /\ e[2] <= Cutover \/ Cutover <= e[1]
<1>1. e \in (Boundaries \cup {0}) \X (Boundaries \cup {End})
  BY DEF Epochs
<1>2. e[1] \in Nat /\ e[2] \in Nat
  <2>1. e[1] \in Boundaries \cup {0} /\ e[2] \in Boundaries \cup {End}
    BY <1>1
  <2>2. Boundaries \in SUBSET Nat /\ End \in Nat /\ 0 \in Nat
    BY BoundaryFacts
  <2>. QED  BY <2>1, <2>2
<1>. QED  BY <1>2, BoundaryFacts DEF Epochs

(***************************************************************************)
(* The plan: every row within a target is within a segment, and a segment  *)
(* keeps to one epoch and names transactions of its own rows.              *)
(***************************************************************************)
Windowed == [condition : Conditions, from : Nat, to : Nat]

(* The pieces of windows keep to their epoch.                              *)
LEMMA PiecesFacts ==
  ASSUME NEW W \in SUBSET Windowed, IsFiniteSet(W), NEW e \in Epochs
  PROVE  LET P == Pieces(W, e) IN
         /\ \A p \in P : p.from \in Nat /\ p.to \in Nat /\ p.from < p.to /\ e[1] <= p.from /\ p.to <= e[2]
         /\ IsFiniteSet({p.from : p \in P}) /\ IsFiniteSet({p.to : p \in P})
<1>. DEFINE P == Pieces(W, e)
<1>1. e[1] \in Nat /\ e[2] \in Nat
  BY EpochFacts
<1>2. ASSUME NEW p \in P
      PROVE  p.from \in Nat /\ p.to \in Nat /\ p.from < p.to /\ e[1] <= p.from /\ p.to <= e[2]
  <2>1. PICK w \in W : p = Piece(w, e) /\ p.from < p.to
    BY DEF Pieces
  <2>2. p.from = Bigger(w.from, e[1]) /\ p.to = Lesser(w.to, e[2])
    BY <2>1 DEF Piece
  <2>3. w.from \in Nat /\ w.to \in Nat
    BY DEF Windowed
  <2>. QED  BY <1>1, <2>1, <2>2, <2>3 DEF Bigger, Lesser
<1>3. IsFiniteSet(P)
  <2>. DEFINE f == [w \in W |-> Piece(w, e)]
              I == {f[w] : w \in W}
  <2>1. IsFiniteSet(I)
    BY FiniteRange
  <2>2. P \in SUBSET I
    BY DEF Pieces
  <2>. QED  BY <2>1, <2>2, FS_Subset
<1>. HIDE DEF P
<1>4. IsFiniteSet({p.from : p \in P}) /\ IsFiniteSet({p.to : p \in P})
  <2>. DEFINE f == [p \in P |-> p.from]
              g == [p \in P |-> p.to]
  <2>1. {p.from : p \in P} = {f[p] : p \in P} /\ {p.to : p \in P} = {g[p] : p \in P}
    OBVIOUS
  <2>. HIDE DEF f, g
  <2>2. IsFiniteSet({f[p] : p \in P}) /\ IsFiniteSet({g[p] : p \in P})
    BY <1>3, FiniteRange
  <2>. QED  BY <2>1, <2>2
<1>. QED  BY <1>2, <1>4 DEF P

(* The interval of an epoch holds all its pieces and no more than the      *)
(* epoch.                                                                  *)
LEMMA JoinedFacts ==
  ASSUME NEW W \in SUBSET Windowed, IsFiniteSet(W), NEW e \in Epochs, NEW c,
         NEW r \in Joined(c, Pieces(W, e))
  PROVE  /\ r = [condition |-> c, from |-> r.from, to |-> r.to]
         /\ r.from \in Nat /\ r.to \in Nat
         /\ e[1] <= r.from /\ r.to <= e[2]
         /\ \A p \in Pieces(W, e) : r.from <= p.from /\ p.to <= r.to
<1>. DEFINE P == Pieces(W, e)
            F == {p.from : p \in P}
            G == {p.to : p \in P}
<1>1. /\ \A p \in P : p.from \in Nat /\ p.to \in Nat /\ p.from < p.to /\ e[1] <= p.from /\ p.to <= e[2]
      /\ IsFiniteSet(F) /\ IsFiniteSet(G)
  BY PiecesFacts
<1>. HIDE DEF P
<1>2. P # {} /\ r = [condition |-> c, from |-> Min(F), to |-> Max(G)]
  BY DEF Joined, P
<1>3. F \in SUBSET Nat /\ F # {} /\ G \in SUBSET Nat /\ G # {}
  BY <1>1, <1>2
<1>4. Min(F) \in F /\ \A y \in F : Min(F) <= y
  BY <1>3, MinIsLeast
<1>5. Max(G) \in G /\ \A y \in G : y <= Max(G)
  BY <1>1, <1>3, MaxIsGreatest
<1>6. \A p \in P : p.from \in F /\ p.to \in G
  OBVIOUS
<1>7. \A x \in F : x \in Nat /\ e[1] <= x
  BY <1>1
<1>8. \A x \in G : x \in Nat /\ x <= e[2]
  BY <1>1
<1>. HIDE DEF F, G
<1>9. r.from = Min(F) /\ r.to = Max(G)
  BY <1>2
<1>. QED  BY <1>2, <1>4, <1>5, <1>6, <1>7, <1>8, <1>9 DEF P

(* A trade within a window is within a segment: it is in an epoch, in the  *)
(* piece of the window there and in the interval that joins the pieces.    *)
LEMMA RowsCovered ==
  ASSUME NEW T \in SUBSET Windowed, IsFiniteSet(T), NEW w \in T, NEW j \in Rows,
         Tape[j].condition = w.condition, w.from <= Tape[j].time, Tape[j].time < w.to
  PROVE  \E s \in Segments(T) : /\ s.condition = Tape[j].condition
                                /\ s.from <= Tape[j].time /\ Tape[j].time < s.to
<1>. DEFINE t == Tape[j].time
            c == Tape[j].condition
            W == {v \in T : v.condition = c}
<1>1. t \in Nat /\ c \in Conditions
  BY TapeFacts
<1>2. PICK e \in Epochs : e[1] <= t /\ t < e[2]
  BY EpochExists
<1>3. W \in SUBSET Windowed /\ IsFiniteSet(W) /\ w \in W
  BY FS_Subset
<1>. DEFINE p == Piece(w, e)
<1>4. w.from \in Nat /\ w.to \in Nat
  BY DEF Windowed
<1>5. e[1] \in Nat /\ e[2] \in Nat
  BY EpochFacts
<1>6. p.from = Bigger(w.from, e[1]) /\ p.to = Lesser(w.to, e[2])
  BY DEF Piece
<1>7. p.from \in Nat /\ p.to \in Nat /\ p.from <= t /\ t < p.to
  BY <1>1, <1>2, <1>4, <1>5, <1>6 DEF Bigger, Lesser
<1>8. p \in Pieces(W, e)
  BY <1>1, <1>3, <1>7 DEF Pieces
<1>. HIDE DEF p
<1>9. PICK r \in Joined(c, Pieces(W, e)) : TRUE
  BY <1>8 DEF Joined
<1>. HIDE DEF W
<1>10. /\ r = [condition |-> c, from |-> r.from, to |-> r.to]
       /\ r.from \in Nat /\ r.to \in Nat /\ r.from <= p.from /\ p.to <= r.to
  BY <1>3, <1>8, JoinedFacts
<1>11. r \in SplitRanges(T)
  BY <1>1, <1>9 DEF SplitRanges, W
<1>12. r.condition = c /\ r.from <= t /\ t < r.to
  BY <1>1, <1>7, <1>10
<1>13. j \in RowsIn(r)
  BY <1>12 DEF RowsIn
<1>. DEFINE s == [condition |-> r.condition, from |-> r.from, to |-> r.to, txs |-> Candidates(r)]
<1>14. s \in Segments(T)
  BY <1>11, <1>13 DEF Segments
<1>15. s.condition = r.condition /\ s.from = r.from /\ s.to = r.to
  OBVIOUS
<1>. QED  BY <1>12, <1>14, <1>15

(* Rows of a market can be counted.                                        *)
LEMMA RowsAreFinite ==
  /\ IsFiniteSet(Rows)
  /\ \A s : RowsIn(s) \in SUBSET Rows
  /\ \A s, tx : RowsOf(s, tx) \in Nat
<1>1. IsFiniteSet(Rows)
  BY TapeFacts, OneTo
<1>2. \A s : RowsIn(s) \in SUBSET Rows
  BY DEF RowsIn
<1>3. ASSUME NEW s, NEW tx
      PROVE  RowsOf(s, tx) \in Nat
  <2>. DEFINE R == {i \in RowsIn(s) : Tape[i].tx = tx}
  <2>1. R \in SUBSET Rows
    BY <1>2
  <2>2. Cardinality(R) \in Nat
    BY <1>1, <2>1, FS_Subset, FS_CardinalityType
  <2>. QED  BY <2>2 DEF RowsOf
<1>. QED  BY <1>1, <1>2, <1>3

(* The order of the candidates is total, so each rank is somebody's.       *)
LEMMA CandidatesFacts ==
  ASSUME NEW s
  PROVE  /\ DOMAIN Candidates(s) = 1 .. Len(Candidates(s)) /\ Len(Candidates(s)) \in Nat
         /\ \A k \in DOMAIN Candidates(s) : \E i \in RowsIn(s) : Candidates(s)[k] = Tape[i].tx
<1>. DEFINE all == {Tape[i].tx : i \in RowsIn(s)}
            n == Cardinality(all)
            P == [tx \in all |-> {x \in all : Better(s, x, tx)}]
            m == Lesser(PerSegment, n)
            C == [k \in 1 .. m |-> CHOOSE tx \in all : Cardinality({x \in all : Better(s, x, tx)}) = k - 1]
<1>1. Candidates(s) = C
  BY DEF Candidates
<1>2. all \in SUBSET Nat /\ IsFiniteSet(all)
  <2>1. RowsIn(s) \in SUBSET Rows /\ IsFiniteSet(RowsIn(s))
    BY RowsAreFinite, FS_Subset
  <2>2. all \in SUBSET Nat
    BY <2>1, TapeFacts
  <2>. DEFINE f == [i \in RowsIn(s) |-> Tape[i].tx]
  <2>3. all = {f[i] : i \in RowsIn(s)}
    OBVIOUS
  <2>. HIDE DEF f, all
  <2>4. IsFiniteSet({f[i] : i \in RowsIn(s)})
    BY <2>1, FiniteRange
  <2>. QED  BY <2>2, <2>3, <2>4
<1>. DEFINE count == [x \in all |-> RowsOf(s, x)]
<1>3. count \in [all -> Nat]
  BY RowsAreFinite
<1>4. \A x, y \in all : Better(s, x, y) <=> count[x] < count[y] \/ (count[x] = count[y] /\ x < y)
  BY DEF Better
<1>. HIDE DEF all, count
<1>5. P \in [all -> SUBSET all]
  OBVIOUS
<1>6. \A x, y \in all : x \in P[y] <=> count[x] < count[y] \/ (count[x] = count[y] /\ x < y)
  BY <1>4
<1>7. \A x \in all : P[x] = {y \in all : Better(s, y, x)}
  OBVIOUS
<1>. HIDE DEF P
<1>8. \A x \in all : x \in Nat /\ count[x] \in Nat
  BY <1>2, <1>3
<1>9. \A x \in all : x \notin P[x]
  BY <1>6, <1>8
<1>10. ASSUME NEW x \in all, NEW y \in all, x \in P[y]
       PROVE  P[x] \subseteq P[y]
  <2>. SUFFICES ASSUME NEW z \in P[x]
                PROVE  z \in P[y]
    OBVIOUS
  <2>1. z \in all
    BY <1>5
  <2>. QED  BY <1>6, <1>8, <1>10, <2>1
<1>11. \A x, y \in all : x = y \/ x \in P[y] \/ y \in P[x]
  BY <1>6, <1>8
<1>12. \A k \in 1 .. n : \E x \in all : Cardinality(P[x]) = k - 1
  BY <1>2, <1>5, <1>9, <1>10, <1>11, RanksCount
<1>13. n \in Nat
  BY <1>2, FS_CardinalityType
<1>14. m \in Nat /\ m <= n
  <2>1. PerSegment \in Nat
    BY FeeAssumption
  <2>. QED  BY <1>13, <2>1 DEF Lesser
<1>. HIDE DEF n, m
<1>15. \A k \in 1 .. m : C[k] \in all
  <2>. SUFFICES ASSUME NEW k \in 1 .. m
                PROVE  C[k] \in all
    OBVIOUS
  <2>1. \E x \in all : Cardinality({y \in all : Better(s, y, x)}) = k - 1
    <3>1. k \in 1 .. n
      BY <1>13, <1>14
    <3>2. PICK x \in all : Cardinality(P[x]) = k - 1
      BY <1>12, <3>1
    <3>3. P[x] = {y \in all : Better(s, y, x)}
      BY <1>7
    <3>. QED  BY <3>2, <3>3
  <2>2. C[k] = CHOOSE tx \in all : Cardinality({x \in all : Better(s, x, tx)}) = k - 1
    OBVIOUS
  <2>. QED  BY <2>1, <2>2
<1>16. C \in Seq(all) /\ Len(C) = m /\ DOMAIN C = 1 .. m
  <2>1. C \in [1 .. m -> all]
    BY <1>15
  <2>2. DOMAIN C = 1 .. m
    OBVIOUS
  <2>. HIDE DEF C
  <2>. QED  BY <1>14, <2>1, <2>2
<1>. HIDE DEF C
<1>. QED  BY <1>1, <1>14, <1>15, <1>16 DEF all

(* A segment keeps to one protocol, its candidates are of its own rows,    *)
(* and its interval names it.                                              *)
LEMMA SegmentFacts ==
  ASSUME NEW T \in SUBSET Windowed, IsFiniteSet(T), NEW s \in Segments(T)
  PROVE  /\ s.condition \in Conditions /\ s.from \in Nat /\ s.to \in Nat
         /\ s.to <= Cutover \/ Cutover <= s.from
         /\ DOMAIN s.txs = 1 .. Len(s.txs) /\ Len(s.txs) \in Nat
         /\ \A k \in DOMAIN s.txs : \E i \in RowsIn(s) : s.txs[k] = Tape[i].tx
         /\ \A r \in Segments(T) :
              r.condition = s.condition /\ r.from = s.from /\ r.to = s.to => r = s
<1>. DEFINE Of3(r) == [condition |-> r.condition, from |-> r.from, to |-> r.to]
            Of4(r) == [condition |-> r.condition, from |-> r.from, to |-> r.to, txs |-> Candidates(r)]
<1>1. \A q \in Segments(T) : \E r \in SplitRanges(T) : q = Of4(r)
  BY DEF Segments
<1>2. ASSUME NEW r \in SplitRanges(T)
      PROVE  /\ r = Of3(r) /\ r.condition \in Conditions /\ r.from \in Nat /\ r.to \in Nat
             /\ r.to <= Cutover \/ Cutover <= r.from
  <2>1. PICK c \in Conditions, e \in Epochs : r \in Joined(c, Pieces({w \in T : w.condition = c}, e))
    BY DEF SplitRanges
  <2>. DEFINE W == {w \in T : w.condition = c}
  <2>2. W \in SUBSET Windowed /\ IsFiniteSet(W)
    BY FS_Subset
  <2>. HIDE DEF W
  <2>3. /\ r = [condition |-> c, from |-> r.from, to |-> r.to]
        /\ r.from \in Nat /\ r.to \in Nat /\ e[1] <= r.from /\ r.to <= e[2]
    BY <2>1, <2>2, JoinedFacts DEF W
  <2>4. r.condition = c
    BY <2>3
  <2>5. e[1] \in Nat /\ e[2] \in Nat /\ (e[2] <= Cutover \/ Cutover <= e[1]) /\ Cutover \in Nat
    BY EpochFacts, BoundaryFacts
  <2>6. r.to <= Cutover \/ Cutover <= r.from
    BY <2>3, <2>5
  <2>. QED  BY <2>3, <2>4, <2>6
<1>3. PICK r \in SplitRanges(T) : s = Of4(r)
  BY <1>1
<1>4. s.condition = r.condition /\ s.from = r.from /\ s.to = r.to /\ s.txs = Candidates(r)
  BY <1>3
<1>5. RowsIn(s) = RowsIn(r)
  BY <1>4 DEF RowsIn
<1>6. ASSUME NEW q \in Segments(T), q.condition = s.condition, q.from = s.from, q.to = s.to
      PROVE  q = s
  <2>1. PICK p \in SplitRanges(T) : q = Of4(p)
    BY <1>1
  <2>2. q.condition = p.condition /\ q.from = p.from /\ q.to = p.to
    BY <2>1
  <2>3. Of3(p) = Of3(r)
    BY <1>4, <1>6, <2>2
  <2>4. p = r
    BY <1>2, <2>3
  <2>. QED  BY <1>3, <2>1, <2>4
<1>. HIDE DEF Of3, Of4
<1>7. /\ DOMAIN s.txs = 1 .. Len(s.txs) /\ Len(s.txs) \in Nat
      /\ \A k \in DOMAIN s.txs : \E i \in RowsIn(s) : s.txs[k] = Tape[i].tx
  BY <1>4, <1>5, CandidatesFacts
<1>. QED  BY <1>2, <1>4, <1>6, <1>7

(* A plan has finitely many segments.                                      *)
LEMMA SegmentsFinite ==
  ASSUME NEW T
  PROVE  IsFiniteSet(Segments(T))
<1>. DEFINE J == [q \in Conditions \X Epochs |-> Joined(q[1], Pieces({w \in T : w.condition = q[1]}, q[2]))]
            F == {J[q] : q \in Conditions \X Epochs}
            R == {r \in SplitRanges(T) : RowsIn(r) # {}}
            g == [s \in R |-> [condition |-> s.condition, from |-> s.from, to |-> s.to, txs |-> Candidates(s)]]
<1>1. IsFiniteSet(Conditions)
  <2>. DEFINE f == [i \in Rows |-> Tape[i].condition]
  <2>1. Conditions = {f[i] : i \in Rows}
    BY DEF Conditions
  <2>. HIDE DEF f
  <2>. QED  BY <2>1, RowsAreFinite, FiniteRange
<1>2. IsFiniteSet(Epochs)
  <2>1. IsFiniteSet(Boundaries \cup {0}) /\ IsFiniteSet(Boundaries \cup {End})
    BY BoundaryFacts, FS_AddElement
  <2>. DEFINE A == (Boundaries \cup {0}) \X (Boundaries \cup {End})
  <2>2. IsFiniteSet(A)
    BY <2>1, FS_Product
  <2>3. Epochs \in SUBSET A
    BY DEF Epochs
  <2>. QED  BY <2>2, <2>3, FS_Subset
<1>3. IsFiniteSet(Conditions \X Epochs)
  BY <1>1, <1>2, FS_Product
<1>4. \A q \in Conditions \X Epochs : IsFiniteSet(J[q])
  <2>1. \A c, P : IsFiniteSet(Joined(c, P))
    BY FS_Singleton, FS_EmptySet DEF Joined
  <2>. QED  BY <2>1
<1>5. SplitRanges(T) \in SUBSET UNION F
  <2>. SUFFICES ASSUME NEW r \in SplitRanges(T)
                PROVE  r \in UNION F
    OBVIOUS
  <2>1. PICK c \in Conditions, e \in Epochs : r \in Joined(c, Pieces({w \in T : w.condition = c}, e))
    BY DEF SplitRanges
  <2>2. <<c, e>> \in Conditions \X Epochs /\ r \in J[<<c, e>>]
    BY <2>1
  <2>. QED  BY <2>2
<1>. HIDE DEF J
<1>6. IsFiniteSet(F)
  BY <1>3, FiniteRange
<1>7. IsFiniteSet(UNION F)
  <2>1. \A G \in F : IsFiniteSet(G)
    BY <1>4
  <2>. HIDE DEF F
  <2>. QED  BY <1>6, <2>1, FS_UNION
<1>. HIDE DEF F
<1>8. IsFiniteSet(R)
  <2>1. R \in SUBSET UNION F
    BY <1>5
  <2>. HIDE DEF R
  <2>. QED  BY <1>7, <2>1, FS_Subset
<1>9. Segments(T) = {g[s] : s \in R}
  BY DEF Segments
<1>. HIDE DEF g, R
<1>. QED  BY <1>8, <1>9, FiniteRange

(***************************************************************************)
(* The invariant.                                                          *)
(***************************************************************************)
Searching == {"receipts", "info", "trades", "market"}
Working == Searching \cup {"publish"}
Places == {"idle", "seed", "official"} \cup Working

PlanRight(p) ==
    p.segments = Segments(Targets(p.sources)) /\ p.sources.misses \subseteq Rows

(* What Genuine says of one schedule.                                      *)
IsGenuine(f) ==
    LET c == f.schedule.condition IN
    /\ \A p \in f.proofs : f.schedule.tariff \in shown[p.tx][c] /\ V1(p.tx) = f.schedule.v1
    /\ f.schedule.source \in {"receipt", "info"} =>
          \A p \in f.proofs : f.schedule.from =< TxTime[p.tx] /\ TxTime[p.tx] < f.schedule.to
    /\ f.schedule.source = "receipt" => f.schedule.v1 = IsV1(f.schedule)
    /\ f.schedule.source = "consensus" =>
          Cardinality({t \in listed[c] : \A p \in f.proofs : t \in shown[p.tx][c]}) = 1

EachHasOne(segments, schedules) == \A s \in segments : \E f \in schedules : Of(f, s)

Building ==
    /\ round \in Rounds /\ pc \in Places /\ rank \in Nat \ {0}
    /\ plan # None => PlanRight(plan)
    /\ pc # "idle" => book[round] = None /\ ~failed /\ PlanRight(plan)
    /\ pc \in Working => open \subseteq plan.segments /\ EachHasOne(plan.segments \ open, found)
    /\ pc = "publish" => open = {}

AllGenuine == \A f \in found : IsGenuine(f)

(* A book has a schedule for each segment of what it was built from, and   *)
(* what a replay under it misses is in none of them.                       *)
BookRight(b) ==
    /\ b.sources.misses \subseteq Rows
    /\ EachHasOne(Segments(Targets(b.sources)), b.found)
    /\ \A f \in b.found : IsGenuine(f)
MissRight(r, b) ==
    \A j \in r.miss : j \in Rows /\ ~Covers(b, Tape[j].condition, Tape[j].time)
BooksRight ==
    /\ DOMAIN book = Rounds /\ DOMAIN replay = Rounds
    /\ \A n \in Rounds :
        /\ n > round => book[n] = None
        /\ book[n] = None => replay[n].miss = {}
        /\ book[n] # None => BookRight(book[n]) /\ MissRight(replay[n], book[n])

FeeInv == Building /\ AllGenuine /\ BooksRight

(* What a receipt alone shows, and what it shows with the market info.     *)
Alone(s, tx) == ByReceipt(s, tx, Conditions)
Informed(tx, c) == Reconciled(tx, c, Conditions)

(* Each of the segments has exactly one of the schedules, the one expected.*)
Exact(segments, schedules) ==
    /\ \A s \in segments : \E f \in schedules :
          (\A g \in schedules : Of(g, s) <=> g = f) /\ Expected(s) = {f.schedule.tariff}
    /\ \A f \in schedules : \E s \in segments : Of(f, s)

CachesWhole ==
    /\ \A tx \in DOMAIN receipts : receipts[tx] = Conditions
    /\ \A c \in DOMAIN trades : trades[c] = Market[c]

(* What the stages so far have tried in vain for a segment that is open.   *)
Tried(s, k) == s.txs[k] \in DOMAIN receipts /\ Alone(s, s.txs[k]) = {}
StillOpen(s) ==
    /\ s.to > FirstFee
    /\ \A k \in DOMAIN s.txs :
          /\ Tried(s, k) \/ (pc = "receipts" /\ k >= rank)
          /\ pc \in {"trades", "market"} => Informed(s.txs[k], s.condition) = {}
    /\ pc = "market" => s.condition \in DOMAIN trades

NeutralInv ==
    /\ pc = "seed" => seeded
    /\ failed => pc = "idle" /\ book[round] = None
    /\ ~seeded =>
        /\ CachesWhole
        /\ pc \in Working => Exact(plan.segments \ open, found)
        /\ pc \in Searching => \A s \in open : StillOpen(s)
        /\ book[round] # None => Exact(plan.segments, book[round].found)
                                 /\ PlanRight(plan)
        /\ failed => \E s \in plan.segments : Expected(s) = {}

(***************************************************************************)
(* What a plan's segments are worth.                                       *)
(***************************************************************************)
(* Targets are windows of the tape.                                        *)
LEMMA TargetsWindowed ==
  ASSUME NEW src, src.misses \subseteq Rows
  PROVE  Targets(src) \in SUBSET Windowed /\ IsFiniteSet(Targets(src))
<1>1. Until(src.days) \in SUBSET Rows /\ src.misses \in SUBSET Rows /\ IsFiniteSet(Rows)
  BY FeeAssumption, RowsAreFinite DEF Until
<1>. DEFINE f == [i \in Rows |-> Window(i, Horizon)]
            g == [i \in Rows |-> Window(i, 1)]
            A == {f[i] : i \in Until(src.days)}
            B == {g[i] : i \in src.misses}
<1>2. Targets(src) = A \cup B
  BY <1>1 DEF Targets
<1>3. \A i \in Rows : f[i] \in Windowed /\ g[i] \in Windowed
  <2>. SUFFICES ASSUME NEW i \in Rows
                PROVE  Window(i, Horizon) \in Windowed /\ Window(i, 1) \in Windowed
    OBVIOUS
  <2>1. Tape[i].time \in Nat /\ Tape[i].condition \in Conditions /\ Horizon \in Nat
    BY TapeFacts, BoundaryFacts
  <2>2. Tape[i].time + Horizon \in Nat /\ Tape[i].time + 1 \in Nat
    BY <2>1
  <2>. QED  BY <2>1, <2>2 DEF Window, Windowed
<1>. HIDE DEF f, g
<1>4. IsFiniteSet(A) /\ IsFiniteSet(B)
  <2>1. IsFiniteSet(Until(src.days)) /\ IsFiniteSet(src.misses)
    BY <1>1, FS_Subset
  <2>. QED  BY <2>1, FiniteRange
<1>5. A \in SUBSET Windowed /\ B \in SUBSET Windowed
  BY <1>1, <1>3
<1>. HIDE DEF A, B
<1>. QED  BY <1>2, <1>4, <1>5, FS_Union

(* A book built for its targets covers each decision audited, each miss    *)
(* and each trade an audited decision's order may fill at.                 *)
LEMMA TargetsCovered ==
  ASSUME NEW src, src.misses \subseteq Rows, NEW b,
         EachHasOne(Segments(Targets(src)), b.found), NEW j \in Rows
  PROVE  /\ j \in Until(src.days) \cup src.misses => Covers(b, Tape[j].condition, Tape[j].time)
         /\ \A i \in Until(src.days) : MayFill(i, j) => Covers(b, Tape[j].condition, Tape[j].time)
<1>. DEFINE T == Targets(src)
            t == Tape[j].time
            c == Tape[j].condition
<1>1. T \in SUBSET Windowed /\ IsFiniteSet(T)
  BY TargetsWindowed
<1>2. ASSUME NEW w \in T, w.condition = c, w.from <= t, t < w.to
      PROVE  Covers(b, c, t)
  <2>1. PICK s \in Segments(T) : s.condition = c /\ s.from <= t /\ t < s.to
    BY <1>1, <1>2, RowsCovered
  <2>2. PICK f \in b.found : Of(f, s)
    BY <2>1 DEF EachHasOne
  <2>. QED  BY <2>1, <2>2 DEF Of, Covers
<1>3. t \in Nat /\ Horizon \in Nat \ {0} /\ Latency \in Nat /\ Wait \in Nat
  BY TapeFacts, BoundaryFacts
<1>4. ASSUME j \in Until(src.days)
      PROVE  Covers(b, c, t)
  <2>. DEFINE w == Window(j, Horizon)
  <2>1. w \in T
    BY <1>4 DEF Targets
  <2>2. w.condition = c /\ w.from = t /\ w.to = t + Horizon
    BY DEF Window
  <2>. HIDE DEF w
  <2>. QED  BY <1>2, <1>3, <2>1, <2>2
<1>5. ASSUME j \in src.misses
      PROVE  Covers(b, c, t)
  <2>. DEFINE w == Window(j, 1)
  <2>1. w \in T
    BY <1>5 DEF Targets
  <2>2. w.condition = c /\ w.from = t /\ w.to = t + 1
    BY DEF Window
  <2>. HIDE DEF w
  <2>. QED  BY <1>2, <1>3, <2>1, <2>2
<1>6. ASSUME NEW i \in Until(src.days), MayFill(i, j)
      PROVE  Covers(b, c, t)
  <2>. DEFINE w == Window(i, Horizon)
  <2>1. w \in T
    BY <1>6 DEF Targets
  <2>2. w.condition = Tape[i].condition /\ w.from = Tape[i].time /\ w.to = Tape[i].time + Horizon
    BY DEF Window
  <2>3. i \in Rows /\ Tape[i].time \in Nat
    BY FeeAssumption, TapeFacts DEF Until
  <2>4. w.condition = c /\ w.from <= t /\ t < w.to
    BY <1>3, <1>6, <2>2, <2>3 DEF MayFill, Horizon
  <2>. HIDE DEF w
  <2>. QED  BY <1>2, <2>1, <2>4
<1>. QED  BY <1>4, <1>5, <1>6

(* The candidates of a planned segment are of its time and protocol, and   *)
(* no schedule is of two segments.                                         *)
LEMMA PlannedSegment ==
  ASSUME NEW p, PlanRight(p), NEW s \in p.segments
  PROVE  /\ s.condition \in Conditions /\ s.from \in Nat /\ s.to \in Nat
         /\ DOMAIN s.txs = 1 .. Len(s.txs) /\ Len(s.txs) \in Nat
         /\ \A k \in DOMAIN s.txs : s.from <= TxTime[s.txs[k]] /\ TxTime[s.txs[k]] < s.to
         /\ \A r \in p.segments : \A f : Of(f, s) /\ Of(f, r) => r = s
<1>. DEFINE T == Targets(p.sources)
<1>1. T \in SUBSET Windowed /\ IsFiniteSet(T) /\ p.segments = Segments(T)
  BY TargetsWindowed DEF PlanRight
<1>. HIDE DEF T
<1>2. /\ s.condition \in Conditions /\ s.from \in Nat /\ s.to \in Nat
      /\ DOMAIN s.txs = 1 .. Len(s.txs) /\ Len(s.txs) \in Nat
      /\ \A k \in DOMAIN s.txs : \E i \in RowsIn(s) : s.txs[k] = Tape[i].tx
      /\ \A r \in p.segments : r.condition = s.condition /\ r.from = s.from /\ r.to = s.to => r = s
  BY <1>1, SegmentFacts
<1>3. ASSUME NEW k \in DOMAIN s.txs
      PROVE  s.from <= TxTime[s.txs[k]] /\ TxTime[s.txs[k]] < s.to
  <2>1. PICK i \in RowsIn(s) : s.txs[k] = Tape[i].tx
    BY <1>2
  <2>2. i \in Rows /\ s.from <= Tape[i].time /\ Tape[i].time < s.to
    BY DEF RowsIn
  <2>3. TxTime[s.txs[k]] = Tape[i].time
    BY <2>1, <2>2, TapeFacts
  <2>. QED  BY <2>2, <2>3
<1>4. ASSUME NEW r \in p.segments, NEW f, Of(f, s), Of(f, r)
      PROVE  r = s
  BY <1>2, <1>4 DEF Of
<1>. QED  BY <1>2, <1>3, <1>4

(***************************************************************************)
(* What evidence is worth.                                                 *)
(***************************************************************************)
(* A tariff inferred is one the receipt shows, and the only one.           *)
LEMMA InferredFacts ==
  ASSUME NEW tx, NEW c, NEW refunds, NEW rates, NEW t \in Inferred(tx, c, refunds, rates)
  PROVE  t \in shown[tx][c] /\ Inferred(tx, c, refunds, rates) = {t}
<1>1. ~Capped(tx, c, refunds) /\ Paid(tx, c, refunds) \cap (rates \cup {Gross}) = {t}
  BY DEF Inferred
<1>2. t \in shown[tx][c]
  BY <1>1 DEF Paid
<1>3. \A u \in Inferred(tx, c, refunds, rates) : u = t
  BY <1>1 DEF Inferred
<1>. QED  BY <1>2, <1>3

(* So are those of the three ways to infer.                                *)
LEMMA DirectFacts ==
  ASSUME NEW tx, NEW c, NEW refunds
  PROVE  /\ \A t \in Direct(tx, c, refunds) : t \in shown[tx][c] /\ Direct(tx, c, refunds) = {t}
         /\ \A t \in Reconciled(tx, c, refunds) : t \in shown[tx][c] /\ Reconciled(tx, c, refunds) = {t}
         /\ \A t \in Either(tx, c, refunds) : t \in shown[tx][c] /\ Either(tx, c, refunds) = {t}
<1>1. \A t \in Direct(tx, c, refunds) : t \in shown[tx][c] /\ Direct(tx, c, refunds) = {t}
  BY InferredFacts DEF Direct
<1>2. \A t \in Reconciled(tx, c, refunds) : t \in shown[tx][c] /\ Reconciled(tx, c, refunds) = {t}
  BY InferredFacts DEF Reconciled
<1>3. \A t \in Either(tx, c, refunds) : t \in shown[tx][c] /\ Either(tx, c, refunds) = {t}
  BY <1>1, <1>2 DEF Either
<1>. QED  BY <1>1, <1>2, <1>3

(* A consensus is what all samples show, and nothing else is.              *)
LEMMA ConsensusFacts ==
  ASSUME NEW samples, NEW c, NEW t \in Consensus(samples, c)
  PROVE  /\ Consensus(samples, c) = {t}
         /\ \A tx \in samples : t \in shown[tx][c]
         /\ {u \in listed[c] : \A tx \in samples : u \in shown[tx][c]} = {t}
<1>. DEFINE common == {u \in listed[c] : \A tx \in samples : u \in shown[tx][c]}
<1>1. common = {t}
  BY DEF Consensus
<1>2. \A u \in Consensus(samples, c) : u = t
  BY DEF Consensus
<1>3. \A tx \in samples : t \in shown[tx][c]
  <2>1. t \in common
    BY <1>1
  <2>. QED  BY <2>1
<1>. QED  BY <1>1, <1>2, <1>3

(* There is a first of any places, and one only.                           *)
LEMMA FirstFacts ==
  ASSUME NEW S \in SUBSET Nat
  PROVE  /\ First(S) \subseteq S
         /\ \A k, j \in First(S) : k = j
         /\ S # {} => First(S) # {}
<1>1. S # {} => First(S) # {}
  <2>. SUFFICES ASSUME S # {}
                PROVE  First(S) # {}
    OBVIOUS
  <2>1. \E x \in S : \A y \in S : x <= y
    BY LeastExists
  <2>. QED  BY <2>1 DEF First
<1>2. \A k, j \in First(S) : k = j
  BY DEF First
<1>. QED  BY <1>1, <1>2 DEF First

(* The parts of a schedule with its proof.                                 *)
LEMMA ProvenFacts ==
  ASSUME NEW s, NEW v1, NEW t, NEW source, NEW tx, NEW txs, NEW trade, NEW f,
         f = Proven(Schedule(s, v1, t, source, tx), txs, trade)
  PROVE  /\ Of(f, s)
         /\ f.schedule.condition = s.condition /\ f.schedule.from = s.from /\ f.schedule.to = s.to
         /\ f.schedule.tariff = t /\ f.schedule.source = source /\ f.schedule.v1 = v1
         /\ {p.tx : p \in f.proofs} = txs
<1>1. /\ f.schedule = Schedule(s, v1, t, source, tx)
      /\ f.proofs = {[tx |-> x, refunds |-> receipts[x] \cap {Schedule(s, v1, t, source, tx).condition}] : x \in txs}
  BY DEF Proven
<1>2. /\ f.schedule.condition = s.condition /\ f.schedule.from = s.from /\ f.schedule.to = s.to
      /\ f.schedule.tariff = t /\ f.schedule.source = source /\ f.schedule.v1 = v1
  BY <1>1 DEF Schedule
<1>3. \A p \in f.proofs : p.tx \in txs
  BY <1>1
<1>4. \A x \in txs : \E p \in f.proofs : p.tx = x
  <2>. SUFFICES ASSUME NEW x \in txs
                PROVE  \E p \in f.proofs : p.tx = x
    OBVIOUS
  <2>. DEFINE p == [tx |-> x, refunds |-> receipts[x] \cap {Schedule(s, v1, t, source, tx).condition}]
  <2>1. p \in f.proofs /\ p.tx = x
    BY <1>1
  <2>. QED  BY <2>1
<1>5. {p.tx : p \in f.proofs} = txs
  BY <1>3, <1>4
<1>. QED  BY <1>2, <1>5 DEF Of

(* What the receipt of the rank proves of a segment.                       *)
LEMMA ReceiptFacts ==
  ASSUME PlanRight(plan), NEW s \in plan.segments, rank \in Nat \ {0}
  PROVE  LET tx == s.txs[rank]
             By == ByReceipt(s, tx, receipts[tx])
         IN  /\ \A f \in ReceiptEvidence(s) :
                   Of(f, s) /\ IsGenuine(f) /\ rank \in DOMAIN s.txs /\ By = {f.schedule.tariff}
             /\ \A f, g \in ReceiptEvidence(s) : f = g
             /\ rank \in DOMAIN s.txs /\ By # {} => ReceiptEvidence(s) # {}
<1>. DEFINE tx == s.txs[rank]
            By == ByReceipt(s, tx, receipts[tx])
            P(t) == Proven(Schedule(s, V1(tx), t, "receipt", tx), {tx}, {})
            good == rank \in DOMAIN s.txs
<1>1. /\ DOMAIN s.txs = 1 .. Len(s.txs) /\ Len(s.txs) \in Nat
      /\ rank \in DOMAIN s.txs => s.from <= TxTime[tx] /\ TxTime[tx] < s.to
  BY PlannedSegment
<1>2. rank =< Len(s.txs) <=> rank \in DOMAIN s.txs
  BY <1>1
<1>3. ReceiptEvidence(s) = IF good THEN {P(t) : t \in By} ELSE {}
  BY <1>1, <1>2 DEF ReceiptEvidence
<1>. HIDE DEF By
<1>4. \A t \in By : t \in shown[tx][s.condition] /\ By = {t} /\ V1(tx) = IsV1(s)
  BY DirectFacts DEF By, ByReceipt
<1>5. ASSUME NEW f \in ReceiptEvidence(s)
      PROVE  Of(f, s) /\ IsGenuine(f) /\ good /\ By = {f.schedule.tariff}
  <2>1. good
    BY <1>3
  <2>2. PICK t \in By : f = P(t)
    BY <1>3
  <2>3. /\ Of(f, s)
        /\ f.schedule.condition = s.condition /\ f.schedule.from = s.from /\ f.schedule.to = s.to
        /\ f.schedule.tariff = t /\ f.schedule.source = "receipt" /\ f.schedule.v1 = V1(tx)
        /\ {p.tx : p \in f.proofs} = {tx}
    BY <2>2, ProvenFacts
  <2>4. \A p \in f.proofs : p.tx = tx
    BY <2>3
  <2>5. t \in shown[tx][s.condition] /\ By = {t} /\ V1(tx) = IsV1(s)
    BY <1>4
  <2>. HIDE DEF tx, P
  <2>6. IsV1(f.schedule) = IsV1(s)
    BY <2>3 DEF IsV1
  <2>7. IsGenuine(f)
    BY <1>1, <2>1, <2>3, <2>4, <2>5, <2>6 DEF IsGenuine
  <2>. QED  BY <2>1, <2>3, <2>5, <2>7
<1>6. \A f, g \in ReceiptEvidence(s) : f = g
  BY <1>3, <1>4
<1>7. good /\ By # {} => ReceiptEvidence(s) # {}
  BY <1>3
<1>. QED  BY <1>5, <1>6, <1>7 DEF By

(* What the receipts prove of a segment with the market info.              *)
LEMMA InfoFacts ==
  ASSUME PlanRight(plan), NEW s \in plan.segments
  PROVE  LET By(k) == Reconciled(s.txs[k], s.condition, receipts[s.txs[k]])
             first == First({k \in DOMAIN s.txs : By(k) # {}})
         IN  /\ \A f \in InfoEvidence(s) :
                   Of(f, s) /\ IsGenuine(f) /\ \E k \in first : By(k) = {f.schedule.tariff}
             /\ \A f, g \in InfoEvidence(s) : f = g
             /\ first # {} => InfoEvidence(s) # {}
<1>. DEFINE By(k) == Reconciled(s.txs[k], s.condition, receipts[s.txs[k]])
            good == {k \in DOMAIN s.txs : By(k) # {}}
            first == First(good)
            P(k, t) == Proven(Schedule(s, V1(s.txs[k]), t, "info", s.txs[k]), {s.txs[k]}, {})
<1>1. /\ DOMAIN s.txs = 1 .. Len(s.txs) /\ Len(s.txs) \in Nat
      /\ \A k \in DOMAIN s.txs : s.from <= TxTime[s.txs[k]] /\ TxTime[s.txs[k]] < s.to
  BY PlannedSegment
<1>2. InfoEvidence(s) = UNION {{P(k, t) : t \in By(k)} : k \in first}
  BY DEF InfoEvidence
<1>3. ASSUME NEW k, NEW t \in By(k)
      PROVE  t \in shown[s.txs[k]][s.condition] /\ By(k) = {t}
  BY DirectFacts
<1>4. good \in SUBSET Nat
  BY <1>1
<1>5. first \subseteq good /\ \A k, j \in first : k = j
  BY <1>4, FirstFacts
<1>. HIDE DEF first
<1>6. ASSUME NEW f \in InfoEvidence(s)
      PROVE  Of(f, s) /\ IsGenuine(f) /\ \E k \in first : By(k) = {f.schedule.tariff}
  <2>1. PICK k \in first : f \in {P(k, t) : t \in By(k)}
    BY <1>2
  <2>2. PICK t \in By(k) : f = P(k, t)
    BY <2>1
  <2>. DEFINE tx == s.txs[k]
  <2>3. /\ Of(f, s)
        /\ f.schedule.condition = s.condition /\ f.schedule.from = s.from /\ f.schedule.to = s.to
        /\ f.schedule.tariff = t /\ f.schedule.source = "info" /\ f.schedule.v1 = V1(tx)
        /\ {p.tx : p \in f.proofs} = {tx}
    <3>1. f = Proven(Schedule(s, V1(tx), t, "info", tx), {tx}, {})
      BY <2>2
    <3>. HIDE DEF tx, By, P, good
    <3>. QED  BY <3>1, ProvenFacts
  <2>4. \A p \in f.proofs : p.tx = tx
    BY <2>3
  <2>5. t \in shown[tx][s.condition] /\ By(k) = {t}
    BY <1>3
  <2>6. s.from <= TxTime[tx] /\ TxTime[tx] < s.to
    BY <1>1, <1>5
  <2>. HIDE DEF tx, P, By
  <2>7. IsGenuine(f)
    BY <2>3, <2>4, <2>5, <2>6 DEF IsGenuine
  <2>. QED  BY <2>3, <2>5, <2>7
<1>7. ASSUME NEW f \in InfoEvidence(s), NEW g \in InfoEvidence(s)
      PROVE  f = g
  <2>1. PICK k \in first : f \in {P(k, t) : t \in By(k)}
    BY <1>2
  <2>2. PICK j \in first : g \in {P(j, t) : t \in By(j)}
    BY <1>2
  <2>3. k = j
    BY <1>5
  <2>. HIDE DEF By
  <2>4. PICK t \in By(k) : f = P(k, t)
    BY <2>1
  <2>5. PICK u \in By(k) : g = P(k, u)
    BY <2>2, <2>3
  <2>6. t = u
    BY <1>3
  <2>. QED  BY <2>4, <2>5, <2>6
<1>8. ASSUME first # {}
      PROVE  InfoEvidence(s) # {}
  <2>1. PICK k \in first : TRUE
    BY <1>8
  <2>2. By(k) # {}
    BY <1>5
  <2>. HIDE DEF By
  <2>3. PICK t \in By(k) : TRUE
    BY <2>2
  <2>4. P(k, t) \in {P(k, u) : u \in By(k)}
    BY <2>3
  <2>. HIDE DEF P
  <2>. QED  BY <1>2, <2>4
<1>. QED  BY <1>6, <1>7, <1>8 DEF first

(* What the trades of the market prove of a segment.                       *)
LEMMA MarketFacts ==
  ASSUME PlanRight(plan), NEW s \in plan.segments
  PROVE  LET c == s.condition
             By(tx) == Either(tx, c, receipts[tx])
             one == First({tx \in MarketWide(c) : By(tx) # {}})
         IN  /\ \A f \in MarketEvidence(s) :
                   /\ Of(f, s) /\ IsGenuine(f)
                   /\ one # {} => \E tx \in one : By(tx) = {f.schedule.tariff}
                   /\ one = {} => Consensus(Samples(c), c) = {f.schedule.tariff}
             /\ MarketWide(c) \in SUBSET Nat => \A f, g \in MarketEvidence(s) : f = g
             /\ one # {} \/ Consensus(Samples(c), c) # {} => MarketEvidence(s) # {}
<1>. DEFINE c == s.condition
            By(tx) == Either(tx, c, receipts[tx])
            good == {tx \in MarketWide(c) : By(tx) # {}}
            one == First(good)
            P(tx, t) == Proven(Schedule(s, V1(tx), t, Basis(tx, c, receipts[tx]), tx), {tx}, {tx})
            m == Min(Samples(c))
            yes == TRUE
            Q(t) == Proven(Schedule(s, yes, t, "consensus", m), Samples(c), {m})
<1>1. MarketEvidence(s) = IF one # {} THEN UNION {{P(tx, t) : t \in By(tx)} : tx \in one}
                          ELSE {Q(t) : t \in Consensus(Samples(c), c)}
  BY DEF MarketEvidence
<1>2. ASSUME NEW tx, NEW t \in By(tx)
      PROVE  t \in shown[tx][c] /\ By(tx) = {t}
  BY DirectFacts
<1>3. one \subseteq good
  BY DEF First
<1>4. MarketWide(c) \in SUBSET Nat => \A k, j \in one : k = j
  <2>1. MarketWide(c) \in SUBSET Nat => good \in SUBSET Nat
    OBVIOUS
  <2>. HIDE DEF good
  <2>. QED  BY <2>1, FirstFacts
<1>. HIDE DEF one, m
<1>5. ASSUME one # {}
      PROVE  /\ \A f \in MarketEvidence(s) : Of(f, s) /\ IsGenuine(f) /\ \E tx \in one : By(tx) = {f.schedule.tariff}
             /\ MarketWide(c) \in SUBSET Nat => \A f, g \in MarketEvidence(s) : f = g
             /\ MarketEvidence(s) # {}
  <2>1. MarketEvidence(s) = UNION {{P(tx, t) : t \in By(tx)} : tx \in one}
    BY <1>1, <1>5
  <2>2. ASSUME NEW f \in MarketEvidence(s)
        PROVE  \E tx \in one : \E t \in By(tx) : f = P(tx, t)
    <3>. HIDE DEF By, P
    <3>1. PICK tx \in one : f \in {P(tx, t) : t \in By(tx)}
      BY <2>1
    <3>2. \E t \in By(tx) : f = P(tx, t)
      BY <3>1
    <3>. QED  BY <3>1, <3>2
  <2>3. ASSUME NEW f \in MarketEvidence(s)
        PROVE  Of(f, s) /\ IsGenuine(f) /\ \E tx \in one : By(tx) = {f.schedule.tariff}
    <3>. HIDE DEF By
    <3>0. PICK tx \in one : \E t \in By(tx) : f = P(tx, t)
      BY <2>2
    <3>1. PICK t \in By(tx) : f = P(tx, t)
      BY <3>0
    <3>. DEFINE source == Basis(tx, c, receipts[tx])
    <3>2. /\ Of(f, s) /\ f.schedule.condition = c
          /\ f.schedule.tariff = t /\ f.schedule.source = source /\ f.schedule.v1 = V1(tx)
          /\ {p.tx : p \in f.proofs} = {tx}
      BY <3>1, ProvenFacts
    <3>3. source \in {"market", "market and info"}
      BY DEF Basis
    <3>4. \A p \in f.proofs : p.tx = tx
      BY <3>2
    <3>5. t \in shown[tx][c] /\ By(tx) = {t}
      BY <1>2
    <3>. HIDE DEF source, P, c
    <3>6. IsGenuine(f)
      BY <3>2, <3>3, <3>4, <3>5 DEF IsGenuine
    <3>. QED  BY <3>2, <3>5, <3>6
  <2>4. ASSUME MarketWide(c) \in SUBSET Nat, NEW f \in MarketEvidence(s), NEW g \in MarketEvidence(s)
        PROVE  f = g
    <3>. HIDE DEF By, P
    <3>1. PICK tx \in one : \E t \in By(tx) : f = P(tx, t)
      BY <2>2
    <3>2. PICK x \in one : \E u \in By(x) : g = P(x, u)
      BY <2>2
    <3>3. tx = x
      BY <1>4, <2>4
    <3>4. PICK t \in By(tx), u \in By(tx) : f = P(tx, t) /\ g = P(tx, u)
      BY <3>1, <3>2, <3>3
    <3>5. t = u
      BY <1>2
    <3>. QED  BY <3>4, <3>5
  <2>5. MarketEvidence(s) # {}
    <3>1. PICK tx \in one : By(tx) # {}
      BY <1>3, <1>5
    <3>. HIDE DEF By, P
    <3>2. PICK t \in By(tx) : TRUE
      BY <3>1
    <3>3. P(tx, t) \in {P(tx, u) : u \in By(tx)}
      BY <3>2
    <3>. QED  BY <2>1, <3>1, <3>3
  <2>. QED  BY <2>3, <2>4, <2>5
<1>6. ASSUME one = {}
      PROVE  /\ \A f \in MarketEvidence(s) :
                   Of(f, s) /\ IsGenuine(f) /\ Consensus(Samples(c), c) = {f.schedule.tariff}
             /\ \A f, g \in MarketEvidence(s) : f = g
             /\ Consensus(Samples(c), c) # {} => MarketEvidence(s) # {}
  <2>. DEFINE S == Samples(c)
              C == Consensus(S, c)
  <2>1. MarketEvidence(s) = {Q(t) : t \in C}
    BY <1>1, <1>6
  <2>2. ASSUME NEW f \in MarketEvidence(s)
        PROVE  Of(f, s) /\ IsGenuine(f) /\ C = {f.schedule.tariff}
    <3>0. \A tx \in S : V1(tx) = yes
      BY DEF Samples, Refunded, V1
    <3>. HIDE DEF C, yes
    <3>1. PICK t \in C : f = Q(t)
      BY <2>1
    <3>2. /\ Of(f, s) /\ f.schedule.condition = c
          /\ f.schedule.tariff = t /\ f.schedule.source = "consensus" /\ f.schedule.v1 = yes
          /\ {p.tx : p \in f.proofs} = S
      BY <3>1, ProvenFacts
    <3>3. /\ C = {t}
          /\ \A tx \in S : t \in shown[tx][c]
          /\ {u \in listed[c] : \A tx \in S : u \in shown[tx][c]} = {t}
      BY ConsensusFacts DEF C
    <3>. HIDE DEF S, c, Q
    <3>4. (\A p \in f.proofs : p.tx \in S) /\ \A tx \in S : \E p \in f.proofs : p.tx = tx
      BY <3>2
    <3>5. {u \in listed[c] : \A p \in f.proofs : u \in shown[p.tx][c]} = {t}
      <4>1. \A u : (\A p \in f.proofs : u \in shown[p.tx][c]) <=> \A tx \in S : u \in shown[tx][c]
        BY <3>4
      <4>. QED  BY <3>3, <4>1
    <3>6. Cardinality({u \in listed[c] : \A p \in f.proofs : u \in shown[p.tx][c]}) = 1
      BY <3>5, FS_Singleton
    <3>7. IsGenuine(f)
      BY <3>0, <3>2, <3>3, <3>4, <3>6 DEF IsGenuine
    <3>. QED  BY <3>2, <3>3, <3>7
  <2>3. ASSUME NEW t \in C, NEW u \in C
        PROVE  t = u
    BY ConsensusFacts
  <2>. HIDE DEF C
  <2>4. \A f, g \in MarketEvidence(s) : f = g
    BY <2>1, <2>3
  <2>. QED  BY <2>1, <2>2, <2>4 DEF C
<1>. QED  BY <1>5, <1>6 DEF one

(***************************************************************************)
(* The invariant holds in every state.                                     *)
(***************************************************************************)
(* What is genuine stays so: the truth does not change.                    *)
LEMMA GenuineStays ==
  ASSUME UNCHANGED truth
  PROVE  /\ \A f : IsGenuine(f) <=> IsGenuine(f)'
         /\ UNCHANGED found /\ AllGenuine => AllGenuine'
<1>1. \A f : IsGenuine(f) <=> IsGenuine(f)'
  BY DEF truth, IsGenuine, V1
<1>2. UNCHANGED found /\ AllGenuine => AllGenuine'
  BY <1>1 DEF AllGenuine
<1>. QED  BY <1>1, <1>2

(* A book that is right stays right.                                       *)
LEMMA BookStays ==
  ASSUME UNCHANGED truth, NEW b, BookRight(b)
  PROVE  BookRight(b)'
  BY GenuineStays DEF BookRight

(* So do all books where no replay and no build ends.                      *)
LEMMA BooksStay ==
  ASSUME BooksRight, UNCHANGED <<truth, replay, book, round>>
  PROVE  BooksRight'
<1>1. DOMAIN book' = Rounds /\ DOMAIN replay' = Rounds
  BY DEF BooksRight
<1>2. ASSUME NEW n \in Rounds
      PROVE  (/\ n > round => book[n] = None
              /\ book[n] = None => replay[n].miss = {}
              /\ book[n] # None => BookRight(book[n]) /\ MissRight(replay[n], book[n]))'
  <2>1. PICK b : b = book[n]
    OBVIOUS
  <2>2. b # None => BookRight(b)'
    BY <2>1, BookStays DEF BooksRight
  <2>3. b # None => MissRight(replay[n], b)
    BY <2>1 DEF BooksRight
  <2>4. book[n]' = b
    BY <2>1
  <2>5. b # None => BookRight(book[n])'
    BY <2>2, <2>4
  <2>6. (n > round)' => b = None
    BY <2>1 DEF BooksRight
  <2>7. b = None => replay'[n].miss = {}
    BY <2>1 DEF BooksRight
  <2>8. b # None => MissRight(replay[n], book[n])'
    BY <2>3, <2>4 DEF MissRight
  <2>. QED  BY <2>4, <2>5, <2>6, <2>7, <2>8
<1>. QED  BY <1>1, <1>2 DEF BooksRight

(* A plan of what the replays hold is right: what they missed are trades.  *)
LEMMA SourcesRight ==
  ASSUME Building, BooksRight, plan # None => plan.sources = Sources
  PROVE  PlanRight(IF plan = None THEN [sources |-> Sources, segments |-> Segments(Targets(Sources))] ELSE plan)
<1>1. \A n \in Rounds : replay[n].miss \subseteq Rows
  BY DEF BooksRight, MissRight
<1>2. \A n \in 1 .. round - 1 : n \in Rounds
  BY FeeAssumption DEF Building, Rounds
<1>3. Sources.misses \subseteq Rows
  BY <1>1, <1>2 DEF Sources
<1>. QED  BY <1>3 DEF PlanRight, Building

(* A stage that finds genuine schedules of open segments.                  *)
LEMMA ResolveFacts ==
  ASSUME Building, AllGenuine, pc \in Searching, UNCHANGED <<truth, plan>>,
         NEW new, NEW next \in Searching \cup {"idle"}, Resolve(new, next),
         \A f \in new : IsGenuine(f)
  PROVE  /\ open' \subseteq plan'.segments /\ EachHasOne(plan'.segments \ open', found')
         /\ pc' = IF open' = {} THEN "publish" ELSE next
         /\ AllGenuine'
<1>1. /\ found' = found \cup new
      /\ open' = {s \in open : \A f \in new : ~Of(f, s)}
      /\ pc' = IF open' = {} THEN "publish" ELSE next
  BY DEF Resolve
<1>2. open \subseteq plan.segments /\ EachHasOne(plan.segments \ open, found)
  BY DEF Building, Working
<1>3. EachHasOne(plan'.segments \ open', found')
  BY <1>1, <1>2 DEF EachHasOne
<1>4. AllGenuine'
  BY <1>1, GenuineStays DEF AllGenuine
<1>. QED  BY <1>1, <1>2, <1>3, <1>4

(* One lemma for each action: it keeps the invariant.                      *)
LEMMA FeeInit ==
  ASSUME Init
  PROVE  FeeInv
<1>1. 1 \in Rounds
  BY FeeAssumption DEF Rounds
<1>2. Building
  BY <1>1 DEF Init, Building, Places, Working, Searching
<1>3. AllGenuine
  BY DEF Init, AllGenuine
<1>4. BooksRight
  <2>1. /\ book = [n \in Rounds |-> None]
        /\ replay = [n \in Rounds |-> [days |-> 0, miss |-> {}, calls |-> {}]]
    BY DEF Init
  <2>. QED  BY <2>1 DEF BooksRight
<1>. QED  BY <1>2, <1>3, <1>4 DEF FeeInv

(* A build begins with the plan of what the replays hold.                  *)
LEMMA FeeBegin ==
  ASSUME FeeInv, Begin
  PROVE  FeeInv'
<1>1. /\ Building /\ AllGenuine /\ BooksRight
      /\ pc' \in {"seed", "official"} /\ book'[round'] = None /\ ~failed'
      /\ UNCHANGED <<truth, replay, round, rank, found, book>>
      /\ plan' = IF plan = None THEN [sources |-> Sources, segments |-> Segments(Targets(Sources))] ELSE plan
  BY DEF FeeInv, Begin, Unfinished, work
<1>2. PlanRight(plan')
  BY <1>1, SourcesRight DEF Begin
<1>3. Building'
  BY <1>1, <1>2 DEF Building, Places, Working, Searching
<1>. QED  BY <1>1, <1>3, GenuineStays, BooksStay DEF FeeInv

(* A new directory has no plan.                                            *)
LEMMA FeeStartOver ==
  ASSUME FeeInv, StartOver
  PROVE  FeeInv'
<1>1. /\ Building /\ AllGenuine /\ BooksRight
      /\ pc = "idle" /\ plan' = None
      /\ UNCHANGED <<truth, replay, round, rank, found, book, pc>>
  BY DEF FeeInv, StartOver, Unfinished, work
<1>2. Building'
  BY <1>1 DEF Building, Working, Searching
<1>. QED  BY <1>1, <1>2, GenuineStays, BooksStay DEF FeeInv

(* What only fills the caches.                                             *)
LEMMA FeeFetches ==
  ASSUME FeeInv, pc # "idle", pc' = pc \/ (pc = "trades" /\ pc' = "market") \/ (pc = "seed" /\ pc' = "official"),
         UNCHANGED <<truth, base, replay, round, seeded, plan, work, book, failed, stops>>
  PROVE  FeeInv'
<1>1. /\ Building /\ AllGenuine /\ BooksRight
      /\ UNCHANGED <<truth, replay, round, rank, found, book, plan, open, failed>>
  BY DEF FeeInv, work
<1>2. Building'
  BY <1>1 DEF Building, Working, Searching, Places
<1>. QED  BY <1>1, <1>2, GenuineStays, BooksStay DEF FeeInv

(* The official schedules need no proof.                                   *)
LEMMA FeeOfficial ==
  ASSUME FeeInv, Official
  PROVE  FeeInv'
<1>. DEFINE free == {s \in plan.segments : s.to =< FirstFee}
            P(s) == Proven(Schedule(s, IsV1(s), Zero, "official", None), {}, {})
<1>1. /\ Building /\ AllGenuine /\ BooksRight
      /\ pc = "official" /\ UNCHANGED <<truth, replay, round, plan, book, failed>>
      /\ found' = {P(s) : s \in free} /\ open' = plan.segments \ free
      /\ pc' = IF plan.segments = free THEN "publish" ELSE "receipts"
      /\ rank' = 1
  BY DEF FeeInv, Official
<1>2. \A s \in free : Of(P(s), s) /\ IsGenuine(P(s))
  <2>. SUFFICES ASSUME NEW s \in free
                PROVE  Of(P(s), s) /\ IsGenuine(P(s))
    OBVIOUS
  <2>1. Of(P(s), s) /\ P(s).schedule.source = "official" /\ P(s).proofs = {}
    BY DEF Proven, Schedule, Of
  <2>. HIDE DEF P
  <2>. QED  BY <2>1 DEF IsGenuine
<1>3. EachHasOne(plan'.segments \ open', found')
  <2>. SUFFICES ASSUME NEW s \in plan'.segments \ open'
                PROVE  \E f \in found' : Of(f, s)
    BY DEF EachHasOne
  <2>1. s \in free
    BY <1>1
  <2>. QED  BY <1>1, <1>2, <2>1
<1>. HIDE DEF free, P
<1>4. AllGenuine'
  BY <1>1, <1>2, GenuineStays DEF AllGenuine
<1>5. /\ pc # "idle" /\ pc' \in {"publish", "receipts"} /\ open' \subseteq plan'.segments
      /\ pc' = "publish" => open' = {}
  BY <1>1 DEF free
<1>6. Building'
  BY <1>1, <1>3, <1>5 DEF Building, Working, Searching, Places
<1>. QED  BY <1>1, <1>4, <1>6, BooksStay DEF FeeInv

(* A stage keeps the invariant if what it finds is genuine.                *)
LEMMA FeeStage ==
  ASSUME FeeInv, pc \in Searching, NEW new, NEW next \in Searching \cup {"idle"}, Resolve(new, next),
         UNCHANGED <<truth, replay, round, plan, book>>, rank' \in {rank, rank + 1},
         failed' = failed \/ (next = "idle" /\ failed' = (open' # {})),
         \A f \in new : IsGenuine(f)
  PROVE  FeeInv'
<1>1. Building /\ AllGenuine /\ BooksRight
  BY DEF FeeInv
<1>2. /\ open' \subseteq plan'.segments /\ EachHasOne(plan'.segments \ open', found')
      /\ pc' = IF open' = {} THEN "publish" ELSE next
      /\ AllGenuine'
  BY <1>1, ResolveFacts
<1>3. pc # "idle" /\ next # "publish" /\ pc' \in Places
  BY <1>2 DEF Searching, Working, Places
<1>4. pc' # "idle" => ~failed'
  BY <1>1, <1>2, <1>3 DEF Building
<1>5. Building'
  BY <1>1, <1>2, <1>3, <1>4 DEF Building
<1>. QED  BY <1>1, <1>2, <1>5, BooksStay DEF FeeInv

(* The stage of the receipts.                                              *)
LEMMA FeeInfer ==
  ASSUME FeeInv, Infer
  PROVE  FeeInv'
<1>. DEFINE new == UNION {ReceiptEvidence(s) : s \in open}
            next == IF \E s \in open : rank < Len(s.txs) THEN "receipts" ELSE "info"
<1>1. /\ Building /\ pc \in Searching /\ pc \in Working /\ PlanRight(plan)
      /\ open \subseteq plan.segments /\ rank \in Nat \ {0}
  BY DEF FeeInv, Building, Infer, Searching, Working
<1>2. \A f \in new : IsGenuine(f)
  BY <1>1, ReceiptFacts
<1>3. Resolve(new, next)
  BY DEF Infer
<1>4. next \in Searching
  BY DEF Searching
<1>5. UNCHANGED <<truth, replay, round, plan, book>> /\ rank' \in {rank, rank + 1} /\ failed' = failed
  BY DEF Infer
<1>. HIDE DEF new, next
<1>. QED  BY <1>1, <1>2, <1>3, <1>4, <1>5, FeeStage

(* The stage of the market infos.                                          *)
LEMMA FeeSettle ==
  ASSUME FeeInv, Settle
  PROVE  FeeInv'
<1>. DEFINE new == UNION {InfoEvidence(s) : s \in open}
<1>1. /\ Building /\ pc \in Searching /\ pc \in Working /\ PlanRight(plan)
      /\ open \subseteq plan.segments
  BY DEF FeeInv, Building, Settle, Searching, Working
<1>2. \A f \in new : IsGenuine(f)
  BY <1>1, InfoFacts
<1>3. Resolve(new, "trades")
  BY DEF Settle
<1>4. "trades" \in Searching
  BY DEF Searching
<1>5. UNCHANGED <<truth, replay, round, plan, book>> /\ rank' = rank /\ failed' = failed
  BY DEF Settle
<1>. HIDE DEF new
<1>. QED  BY <1>1, <1>2, <1>3, <1>4, <1>5, FeeStage

(* The stage of the market trades, the last.                               *)
LEMMA FeeAgree ==
  ASSUME FeeInv, Agree
  PROVE  FeeInv'
<1>. DEFINE new == UNION {MarketEvidence(s) : s \in open}
<1>1. /\ Building /\ pc \in Searching /\ pc \in Working /\ PlanRight(plan)
      /\ open \subseteq plan.segments
  BY DEF FeeInv, Building, Agree, Searching, Working
<1>2. \A f \in new : IsGenuine(f)
  BY <1>1, MarketFacts
<1>3. Resolve(new, "idle")
  BY DEF Agree
<1>5. UNCHANGED <<truth, replay, round, plan, book>> /\ rank' = rank /\ failed' = (open' # {})
  BY DEF Agree
<1>. HIDE DEF new
<1>. QED  BY <1>1, <1>2, <1>3, <1>5, FeeStage

(* The manifest vouches for what was found when nothing is open.           *)
LEMMA FeePublish ==
  ASSUME FeeInv, Publish
  PROVE  FeeInv'
<1>. DEFINE b == [sources |-> plan.sources, seeded |-> seeded, found |-> found,
                  infos |-> {f.schedule.condition : f \in {f \in found : UsesInfo(f)}}]
<1>1. /\ Building /\ AllGenuine /\ BooksRight
      /\ pc = "publish" /\ pc' = "idle" /\ rank' = 1 /\ found' = {}
      /\ UNCHANGED <<truth, replay, round, plan, failed>>
      /\ book' = [book EXCEPT ![round] = b]
  BY DEF FeeInv, Publish
<1>2. /\ PlanRight(plan) /\ EachHasOne(plan.segments, found) /\ round \in Rounds /\ book[round] = None
      /\ plan # None => PlanRight(plan)
  <2>1. open = {} /\ EachHasOne(plan.segments \ open, found)
    BY <1>1 DEF Building, Working
  <2>2. plan.segments \ open = plan.segments
    BY <2>1
  <2>. QED  BY <1>1, <2>1, <2>2 DEF Building
<1>. HIDE DEF b
<1>3. Building'
  <2>1. 1 \in Nat \ {0} /\ "idle" \in Places /\ "idle" \notin Working
    BY DEF Places, Working, Searching
  <2>. QED  BY <1>1, <1>2, <2>1 DEF Building
<1>4. AllGenuine'
  BY <1>1 DEF AllGenuine
<1>5. BookRight(b)
  <2>1. b.sources = plan.sources /\ b.found = found
    BY DEF b
  <2>. QED  BY <1>1, <1>2, <2>1 DEF BookRight, PlanRight, AllGenuine
<1>6. BooksRight'
  <2>1. DOMAIN book' = Rounds /\ DOMAIN replay' = Rounds
    BY <1>1 DEF BooksRight
  <2>2. ASSUME NEW n \in Rounds
        PROVE  (/\ n > round => book[n] = None
                /\ book[n] = None => replay[n].miss = {}
                /\ book[n] # None => BookRight(book[n]) /\ MissRight(replay[n], book[n]))'
    <3>1. PICK x : x = book'[n]
      OBVIOUS
    <3>2. replay[n]' = replay[n]
      BY <1>1
    <3>3. CASE n = round
      <4>1. x = b /\ replay[n].miss = {}
        BY <1>1, <1>2, <3>1, <3>3 DEF BooksRight
      <4>2. BookRight(x)'
        BY <1>1, <1>5, <4>1, BookStays
      <4>3. BookRight(book[n])'
        BY <3>1, <4>2
      <4>4. ~(n > round')
        BY <1>1, <1>2, <3>3 DEF Rounds
      <4>5. MissRight(replay[n], book[n])' /\ replay[n].miss' = {}
        BY <3>2, <4>1 DEF MissRight
      <4>. QED  BY <4>3, <4>4, <4>5
    <3>4. CASE n # round
      <4>1. x = book[n] /\ (n > round' <=> n > round)
        BY <1>1, <3>1, <3>4 DEF BooksRight
      <4>2. /\ n > round => x = None
            /\ x = None => replay[n].miss = {}
            /\ x # None => BookRight(x) /\ MissRight(replay[n], x)
        BY <1>1, <4>1 DEF BooksRight
      <4>3. x # None => BookRight(book[n])'
        <5>1. x # None => BookRight(x)'
          BY <1>1, <4>2, BookStays
        <5>. QED  BY <3>1, <5>1
      <4>4. x # None => MissRight(replay[n], book[n])'
        BY <3>1, <3>2, <4>2 DEF MissRight
      <4>. QED  BY <3>1, <3>2, <4>1, <4>2, <4>3, <4>4
    <3>. QED  BY <3>3, <3>4
  <2>. QED  BY <2>1, <2>2 DEF BooksRight
<1>. QED  BY <1>3, <1>4, <1>6 DEF FeeInv

(* A stop leaves no schedule behind.                                       *)
LEMMA FeeStop ==
  ASSUME FeeInv, Stop
  PROVE  FeeInv'
<1>1. /\ Building /\ AllGenuine /\ BooksRight
      /\ pc' = "idle" /\ rank' = 1 /\ found' = {}
      /\ UNCHANGED <<truth, replay, round, plan, book>>
  BY DEF FeeInv, Stop
<1>2. Building'
  <2>1. 1 \in Nat \ {0} /\ "idle" \in Places /\ "idle" \notin Working
    BY DEF Places, Working, Searching
  <2>. QED  BY <1>1, <2>1 DEF Building
<1>3. AllGenuine'
  BY <1>1 DEF AllGenuine
<1>. QED  BY <1>1, <1>2, <1>3, BooksStay DEF FeeInv

(* A replay stops at the first trade its book does not cover.              *)
LEMMA FeePlay ==
  ASSUME FeeInv, Play
  PROVE  FeeInv'
<1>1. /\ Building /\ AllGenuine /\ BooksRight
      /\ UNCHANGED <<truth, round, pc, plan, rank, open, found, book, failed>>
      /\ book[round] # None
  BY DEF FeeInv, Play, Playing, build, work
<1>2. Building'
  BY <1>1 DEF Building
<1>3. AllGenuine'
  BY <1>1, GenuineStays
<1>4. PICK called \in SUBSET Rows, met \in SUBSET Rows : PlayDay(called, met)
  <2>. DEFINE today == {i \in Rows : DayOf(i) = replay[round].days + 1}
  <2>1. PICK called \in SUBSET (today \cap Decided), met \in {{}} \cup {{j} : j \in today} : PlayDay(called, met)
    BY DEF Play
  <2>2. called \in SUBSET Rows /\ met \in SUBSET Rows
    <3>1. today \subseteq Rows
      OBVIOUS
    <3>. HIDE DEF today
    <3>. QED  BY <3>1
  <2>. QED  BY <2>1, <2>2
<1>. DEFINE calls == replay[round].calls \cup called
            needed == called \cup {j \in met : \E i \in calls : MayFill(i, j)}
            missed == {j \in needed : ~Covers(book[round], Tape[j].condition, Tape[j].time)}
<1>5. PICK r : /\ replay' = [replay EXCEPT ![round] = r]
               /\ r.miss = IF missed = {} THEN {} ELSE {Min(missed)}
  <2>. DEFINE played == [days |-> replay[round].days + 1, miss |-> {},
                         calls |-> {i \in calls : Tape[i].time + Latency + Wait >= (replay[round].days + 1) * DayLength}]
              halted == [replay[round] EXCEPT !.miss = {Min(missed)}]
  <2>1. replay' = [replay EXCEPT ![round] = IF missed = {} THEN played ELSE halted]
    BY <1>4 DEF PlayDay
  <2>2. played.miss = {}
    OBVIOUS
  <2>. HIDE DEF missed
  <2>3. halted.miss = {Min(missed)}
    OBVIOUS
  <2>. HIDE DEF played, halted
  <2>. QED  BY <2>1, <2>2, <2>3
<1>6. missed \in SUBSET Nat /\ missed \subseteq Rows
  <2>1. Rows \subseteq Nat
    BY TapeFacts
  <2>. QED  BY <2>1
<1>7. \A j \in missed : ~Covers(book[round], Tape[j].condition, Tape[j].time)
  OBVIOUS
<1>. HIDE DEF missed
<1>8. MissRight(r, book[round])
  <2>1. \A j \in r.miss : j \in missed
    BY <1>5, <1>6, MinIsLeast
  <2>. QED  BY <1>6, <1>7, <2>1 DEF MissRight
<1>9. BooksRight'
  <2>1. DOMAIN book' = Rounds /\ DOMAIN replay' = Rounds
    BY <1>1, <1>5 DEF BooksRight
  <2>2. ASSUME NEW n \in Rounds
        PROVE  (/\ n > round => book[n] = None
                /\ book[n] = None => replay[n].miss = {}
                /\ book[n] # None => BookRight(book[n]) /\ MissRight(replay[n], book[n]))'
    <3>1. PICK x : x = book[n]
      OBVIOUS
    <3>2. x = book'[n] /\ (n > round' <=> n > round)
      BY <1>1, <3>1
    <3>3. /\ n > round => x = None
          /\ x = None => replay[n].miss = {}
          /\ x # None => BookRight(x) /\ MissRight(replay[n], x)
      BY <1>1, <3>1 DEF BooksRight
    <3>4. x # None => BookRight(book[n])'
      <4>1. x # None => BookRight(x)'
        BY <1>1, <3>3, BookStays
      <4>. QED  BY <3>2, <4>1
    <3>5. replay'[n] = IF n = round THEN r ELSE replay[n]
      BY <1>1, <1>5 DEF BooksRight
    <3>6. x # None => MissRight(replay[n], book[n])'
      <4>1. x # None => MissRight(replay'[n], x)
        BY <1>8, <3>1, <3>3, <3>5
      <4>. QED  BY <3>2, <4>1 DEF MissRight
    <3>7. x = None => replay'[n].miss = {}
      BY <1>1, <3>1, <3>3, <3>5
    <3>. QED  BY <3>2, <3>3, <3>4, <3>6, <3>7
  <2>. QED  BY <2>1, <2>2 DEF BooksRight
<1>. QED  BY <1>2, <1>3, <1>9 DEF FeeInv

(* The next round has no book yet.                                         *)
LEMMA FeeExtend ==
  ASSUME FeeInv, Extend
  PROVE  FeeInv'
<1>1. /\ Building /\ AllGenuine /\ BooksRight
      /\ pc = "idle" /\ plan' = None /\ round < MaxRounds /\ round' = round + 1
      /\ UNCHANGED <<truth, replay, pc, rank, open, found, book>>
  BY DEF FeeInv, Extend, work
<1>2. round \in Nat /\ round' \in Rounds
  BY <1>1, FeeAssumption DEF Building, Rounds
<1>3. Building'
  BY <1>1, <1>2 DEF Building, Working, Searching
<1>4. AllGenuine'
  BY <1>1, GenuineStays
<1>5. BooksRight'
  <2>1. DOMAIN book' = Rounds /\ DOMAIN replay' = Rounds
    BY <1>1 DEF BooksRight
  <2>2. ASSUME NEW n \in Rounds
        PROVE  (/\ n > round => book[n] = None
                /\ book[n] = None => replay[n].miss = {}
                /\ book[n] # None => BookRight(book[n]) /\ MissRight(replay[n], book[n]))'
    <3>1. PICK x : x = book[n]
      OBVIOUS
    <3>2. /\ n > round => x = None
          /\ x = None => replay[n].miss = {}
          /\ x # None => BookRight(x) /\ MissRight(replay[n], x)
      BY <1>1, <3>1 DEF BooksRight
    <3>3. x = book'[n] /\ replay'[n] = replay[n] /\ (n > round' => n > round)
      <4>1. n \in Nat
        BY DEF Rounds
      <4>. QED  BY <1>1, <1>2, <3>1, <4>1
    <3>4. x # None => BookRight(book[n])'
      <4>1. x # None => BookRight(x)'
        BY <1>1, <3>2, BookStays
      <4>. QED  BY <3>3, <4>1
    <3>5. x # None => MissRight(replay[n], book[n])'
      BY <3>2, <3>3 DEF MissRight
    <3>. QED  BY <3>2, <3>3, <3>4, <3>5
  <2>. QED  BY <2>1, <2>2 DEF BooksRight
<1>. QED  BY <1>3, <1>4, <1>5 DEF FeeInv

(* Every step keeps the invariant.                                         *)
LEMMA FeeStep ==
  ASSUME FeeInv, [Next]_vars
  PROVE  FeeInv'
<1>1. CASE Seed \/ FetchReceipts \/ FetchInfos \/ FetchTrades \/ ReadMarket
  <2>1. pc # "idle"
    <3>1. Wanted # {} => pc # "idle"
      BY DEF Wanted
    <3>. QED  BY <1>1, <3>1 DEF Seed, FetchReceipts, FetchInfos, FetchTrades, ReadMarket
  <2>2. /\ pc' = pc \/ (pc = "trades" /\ pc' = "market") \/ (pc = "seed" /\ pc' = "official")
        /\ UNCHANGED <<truth, base, replay, round, seeded, plan, work, book, failed, stops>>
    BY <1>1 DEF Seed, FetchReceipts, FetchInfos, FetchTrades, ReadMarket, caches
  <2>. QED  BY <2>1, <2>2, FeeFetches
<1>2. CASE BaseGoesOn \/ UNCHANGED vars
  <2>1. /\ Building /\ AllGenuine /\ BooksRight
        /\ UNCHANGED <<truth, replay, round, pc, plan, rank, open, found, book, failed>>
    BY <1>2 DEF FeeInv, BaseGoesOn, vars, build, work
  <2>2. Building'
    BY <2>1 DEF Building
  <2>. QED  BY <2>1, <2>2, GenuineStays, BooksStay DEF FeeInv
<1>. QED
  BY <1>1, <1>2, FeeBegin, FeeStartOver, FeeOfficial, FeeInfer, FeeSettle, FeeAgree, FeePublish,
     FeeStop, FeePlay, FeeExtend
  DEF Next, Build

(* The invariant of a build, its book and what a replay misses under it.   *)
THEOREM FeeInvariant == Spec => []FeeInv
<1>1. Init => FeeInv
  BY FeeInit
<1>2. FeeInv /\ [Next]_vars => FeeInv'
  BY FeeStep
<1>. QED  BY <1>1, <1>2, PTL DEF Spec

(* Under any book, of any number of builds and replays: no policy misses a *)
(* schedule where one of the book's sources has audited a decision an      *)
(* order of which might be filled.                                         *)
THEOREM FillsAreAlwaysQualified == Spec => []FillsQualified
<1>1. FeeInv => FillsQualified
  <2>. SUFFICES ASSUME FeeInv, NEW n \in Books, NEW j \in replay[n].miss
                PROVE  /\ j \notin Until(book[n].sources.days) \cup book[n].sources.misses
                       /\ \A i \in Until(book[n].sources.days) : ~MayFill(i, j)
    BY DEF FillsQualified
  <2>1. BookRight(book[n]) /\ MissRight(replay[n], book[n])
    BY DEF FeeInv, BooksRight, Books
  <2>2. j \in Rows /\ ~Covers(book[n], Tape[j].condition, Tape[j].time)
    BY <2>1 DEF MissRight
  <2>. QED  BY <2>1, <2>2, TargetsCovered DEF BookRight
<1>. QED  BY <1>1, FeeInvariant, PTL

(* Whatever the caches hold of other books: each published tariff is what  *)
(* the whole receipts show, under the protocol of the contract that        *)
(* emitted them; a receipt or info schedule is of the interval's own       *)
(* trades, and a receipt schedule of the protocol that was planned.        *)
THEOREM BooksAreAlwaysGenuine == Spec => []Genuine
<1>1. FeeInv => Genuine
  <2>. SUFFICES ASSUME FeeInv, NEW n \in Books, NEW f \in book[n].found
                PROVE  LET c == f.schedule.condition IN
        /\ \A p \in f.proofs : f.schedule.tariff \in shown[p.tx][c] /\ V1(p.tx) = f.schedule.v1
        /\ f.schedule.source \in {"receipt", "info"} =>
              \A p \in f.proofs : f.schedule.from =< TxTime[p.tx] /\ TxTime[p.tx] < f.schedule.to
        /\ f.schedule.source = "receipt" => f.schedule.v1 = IsV1(f.schedule)
        /\ f.schedule.source = "consensus" =>
              Cardinality({t \in listed[c] : \A p \in f.proofs : t \in shown[p.tx][c]}) = 1
    BY DEF Genuine
  <2>1. IsGenuine(f)
    BY DEF FeeInv, BooksRight, Books, BookRight
  <2>. QED  BY <2>1 DEF IsGenuine
<1>. QED  BY <1>1, FeeInvariant, PTL

(***************************************************************************)
(* Stops are neutral: without a seed, what a build has found is exactly    *)
(* what one command without a stop would find.                             *)
(***************************************************************************)
(* What receipts and infos show does not change.                           *)
LEMMA ShownStays ==
  ASSUME UNCHANGED truth
  PROVE  \A tx, c, refunds : /\ Direct(tx, c, refunds)' = Direct(tx, c, refunds)
                             /\ Reconciled(tx, c, refunds)' = Reconciled(tx, c, refunds)
                             /\ Either(tx, c, refunds)' = Either(tx, c, refunds)
                             /\ Charged(tx, c)' = Charged(tx, c)
<1>. TAKE tx, c, refunds
<1>1. shown' = shown /\ ofV1' = ofV1 /\ listed' = listed
  BY DEF truth
<1>2. Charged(tx, c)' = Charged(tx, c)
  BY <1>1 DEF Charged
<1>3. Capped(tx, c, refunds)' = Capped(tx, c, refunds)
  BY <1>1 DEF Capped, Charged, Refunded, V1
<1>4. Paid(tx, c, refunds)' = Paid(tx, c, refunds)
  BY <1>1, <1>3 DEF Paid
<1>5. ASSUME NEW rates
      PROVE  Inferred(tx, c, refunds, rates)' = Inferred(tx, c, refunds, rates)
  BY <1>3, <1>4 DEF Inferred
<1>6. Direct(tx, c, refunds)' = Direct(tx, c, refunds)
  BY <1>5 DEF Direct
<1>7. Reconciled(tx, c, refunds)' = Reconciled(tx, c, refunds)
  <2>1. PICK rates : rates = listed[c]
    OBVIOUS
  <2>. QED  BY <1>1, <1>5, <2>1 DEF Reconciled
<1>8. Either(tx, c, refunds)' = Either(tx, c, refunds)
  BY <1>6, <1>7 DEF Either
<1>. QED  BY <1>2, <1>6, <1>7, <1>8

(* So nothing else is expected of a segment later.                         *)
LEMMA ExpectedStays ==
  ASSUME UNCHANGED truth
  PROVE  /\ \A s : Expected(s)' = Expected(s)
         /\ \A s, tx : Alone(s, tx)' = Alone(s, tx)
         /\ \A tx, c : Informed(tx, c)' = Informed(tx, c)
         /\ \A S, F : Exact(S, F) => Exact(S, F)'
<1>1. shown' = shown /\ ofV1' = ofV1 /\ listed' = listed
  BY DEF truth
<1>2. \A samples, c : Consensus(samples, c)' = Consensus(samples, c)
  BY <1>1 DEF Consensus
<1>3. \A s : Expected(s)' = Expected(s)
  BY <1>1, <1>2 DEF Expected, ByReceipt, V1, BeforeCutover, Either, Direct, Reconciled, Inferred, Paid,
                    Capped, Charged, Refunded, Consensus
<1>4. /\ \A s, tx : Alone(s, tx)' = Alone(s, tx)
      /\ \A tx, c : Informed(tx, c)' = Informed(tx, c)
  BY <1>1, ShownStays DEF Alone, Informed, ByReceipt, V1
<1>5. \A S, F : Exact(S, F) => Exact(S, F)'
  BY <1>3 DEF Exact
<1>. QED  BY <1>3, <1>4, <1>5

(* The tariff expected of a segment where a receipt shows it alone.        *)
LEMMA ExpectedAlone ==
  ASSUME NEW s, DOMAIN s.txs \in SUBSET Nat, ~(s.to =< FirstFee), NEW r \in DOMAIN s.txs,
         \A k \in DOMAIN s.txs : k < r => Alone(s, s.txs[k]) = {},
         Alone(s, s.txs[r]) # {}
  PROVE  Expected(s) = Alone(s, s.txs[r])
<1>. DEFINE A(k) == ByReceipt(s, s.txs[k], Conditions)
            good == {k \in DOMAIN s.txs : A(k) # {}}
<1>1. First(good) = {r}
  <2>1. good \in SUBSET Nat /\ r \in good /\ \A k \in good : ~(k < r)
    BY DEF Alone
  <2>. HIDE DEF good
  <2>2. r \in First(good)
    BY <2>1 DEF First
  <2>3. \A k, j \in First(good) : k = j
    BY <2>1, FirstFacts
  <2>. QED  BY <2>2, <2>3
<1>2. Expected(s) = UNION {A(k) : k \in First(good)}
  BY <1>1 DEF Expected
<1>. HIDE DEF A, good
<1>3. Expected(s) = A(r)
  BY <1>1, <1>2
<1>. QED  BY <1>3 DEF A, Alone

(* The tariff expected where receipts show it with the market info only.   *)
LEMMA ExpectedInformed ==
  ASSUME NEW s, DOMAIN s.txs \in SUBSET Nat, ~(s.to =< FirstFee),
         \A k \in DOMAIN s.txs : Alone(s, s.txs[k]) = {},
         NEW r \in First({k \in DOMAIN s.txs : Informed(s.txs[k], s.condition) # {}})
  PROVE  Expected(s) = Informed(s.txs[r], s.condition)
<1>. DEFINE A(k) == ByReceipt(s, s.txs[k], Conditions)
            I(k) == Reconciled(s.txs[k], s.condition, Conditions)
            good == {k \in DOMAIN s.txs : I(k) # {}}
<1>1. First({k \in DOMAIN s.txs : A(k) # {}}) = {}
  BY DEF First, Alone
<1>2. First(good) = {r}
  <2>1. good \in SUBSET Nat /\ r \in First(good)
    BY DEF Informed
  <2>. HIDE DEF good
  <2>2. \A k, j \in First(good) : k = j
    BY <2>1, FirstFacts
  <2>. QED  BY <2>1, <2>2
<1>3. Expected(s) = UNION {I(k) : k \in First(good)}
  BY <1>1, <1>2 DEF Expected
<1>. HIDE DEF I, good
<1>4. Expected(s) = I(r)
  BY <1>2, <1>3
<1>. QED  BY <1>4 DEF I, Informed

(* The tariff expected where no receipt of the interval shows it.          *)
LEMMA ExpectedOfMarket ==
  ASSUME NEW s, s.condition \in Conditions, ~(s.to =< FirstFee),
         \A k \in DOMAIN s.txs : Alone(s, s.txs[k]) = {} /\ Informed(s.txs[k], s.condition) = {}
  PROVE  LET c == s.condition
             wide == BeforeCutover(Market[c])
             market == First({tx \in wide : Either(tx, c, Conditions) # {}})
         IN  /\ \A tx \in market : Expected(s) = Either(tx, c, Conditions)
             /\ market = {} => Expected(s) = Consensus({tx \in wide : V1(tx) /\ Charged(tx, c)}, c)
<1>. DEFINE c == s.condition
            A(k) == ByReceipt(s, s.txs[k], Conditions)
            I(k) == Reconciled(s.txs[k], c, Conditions)
            E(tx) == Either(tx, c, Conditions)
            wide == BeforeCutover(Market[c])
            good == {tx \in wide : E(tx) # {}}
            market == First(good)
<1>1. First({k \in DOMAIN s.txs : A(k) # {}}) = {}
  BY DEF First, Alone
<1>2. First({k \in DOMAIN s.txs : I(k) # {}}) = {}
  BY DEF First, Informed
<1>3. Expected(s) = IF market # {} THEN UNION {E(tx) : tx \in market}
                    ELSE Consensus({tx \in wide : V1(tx) /\ Charged(tx, c)}, c)
  BY <1>1, <1>2 DEF Expected
<1>4. good \in SUBSET Nat
  BY FeeAssumption DEF BeforeCutover
<1>. HIDE DEF good, wide
<1>5. \A k, j \in market : k = j
  BY <1>4, FirstFacts
<1>. HIDE DEF market, E
<1>6. ASSUME NEW tx \in market
      PROVE  Expected(s) = E(tx)
  <2>1. market = {tx}
    BY <1>5
  <2>. QED  BY <1>3, <2>1
<1>7. market = {} => Expected(s) = Consensus({tx \in wide : V1(tx) /\ Charged(tx, c)}, c)
  BY <1>3
<1>. QED  BY <1>6, <1>7 DEF market, E, good, wide

(* Schedules stay exact when a stage adds what it finds: E[s] is the       *)
(* evidence of segment s.                                                  *)
LEMMA ResolveExact ==
  ASSUME PlanRight(plan), open \subseteq plan.segments, Exact(plan.segments \ open, found),
         UNCHANGED <<truth, plan>>, NEW E, NEW next, Resolve(UNION {E[s] : s \in open}, next),
         \A s \in open : /\ \A f \in E[s] : Of(f, s) /\ Expected(s) = {f.schedule.tariff}
                         /\ \A f, g \in E[s] : f = g
  PROVE  /\ Exact(plan.segments \ open, found)'
         /\ open' \subseteq open
         /\ pc' = IF open' = {} THEN "publish" ELSE next
         /\ \A s \in open' : E[s] = {}
<1>. DEFINE new == UNION {E[s] : s \in open}
<1>1. /\ found' = found \cup new
      /\ open' = {s \in open : \A f \in new : ~Of(f, s)}
      /\ pc' = IF open' = {} THEN "publish" ELSE next
  BY DEF Resolve
<1>2. \A f \in new : \E s \in open : f \in E[s] /\ Of(f, s) /\ Expected(s) = {f.schedule.tariff}
  OBVIOUS
<1>3. \A s \in open : E[s] \subseteq new
  OBVIOUS
<1>. HIDE DEF new
<1>4. \A s \in plan.segments, r \in plan.segments : \A f : Of(f, s) /\ Of(f, r) => r = s
  BY PlannedSegment
<1>5. \A s \in open' : E[s] = {}
  BY <1>1, <1>3
<1>6. ASSUME NEW s \in plan.segments \ open'
      PROVE  \E f \in found' : (\A g \in found' : Of(g, s) <=> g = f) /\ Expected(s) = {f.schedule.tariff}
  <2>1. CASE s \notin open
    <3>1. PICK f \in found : (\A g \in found : Of(g, s) <=> g = f) /\ Expected(s) = {f.schedule.tariff}
      BY <2>1 DEF Exact
    <3>2. \A g \in new : ~Of(g, s)
      BY <1>2, <1>4, <2>1
    <3>. QED  BY <1>1, <3>1, <3>2
  <2>2. CASE s \in open
    <3>1. PICK f \in new : Of(f, s)
      BY <1>1, <2>2
    <3>2. f \in E[s] /\ Expected(s) = {f.schedule.tariff}
      BY <1>2, <1>4, <2>2, <3>1
    <3>3. \A g \in found : ~Of(g, s)
      <4>1. \A g \in found : \E r \in plan.segments \ open : Of(g, r)
        BY DEF Exact
      <4>. QED  BY <1>4, <2>2, <4>1
    <3>4. \A g \in new : Of(g, s) => g = f
      BY <1>2, <1>4, <2>2, <3>2
    <3>. QED  BY <1>1, <3>1, <3>2, <3>3, <3>4
  <2>. QED  BY <2>1, <2>2
<1>7. ASSUME NEW f \in found'
      PROVE  \E s \in plan.segments \ open' : Of(f, s)
  <2>1. CASE f \in found
    <3>1. PICK s \in plan.segments \ open : Of(f, s)
      BY <2>1 DEF Exact
    <3>. QED  BY <1>1, <3>1
  <2>2. CASE f \in new
    BY <1>1, <1>2, <2>2
  <2>. QED  BY <1>1, <2>1, <2>2
<1>8. PICK S, F : S = plan.segments \ open' /\ F = found'
  OBVIOUS
<1>9. Exact(S, F)
  BY <1>6, <1>7, <1>8 DEF Exact
<1>10. Exact(S, F)'
  BY <1>9, ExpectedStays
<1>11. Exact(plan.segments \ open, found)'
  BY <1>8, <1>10
<1>. QED  BY <1>1, <1>5, <1>11

(* One lemma for each action: it keeps NeutralInv.                         *)
LEMMA NeutralInit ==
  ASSUME Init
  PROVE  NeutralInv
<1>1. /\ pc = "idle" /\ failed = FALSE /\ receipts = <<>> /\ trades = <<>>
      /\ round = 1 /\ book = [n \in Rounds |-> None]
  BY DEF Init
<1>2. book[round] = None
  BY <1>1, FeeAssumption DEF Rounds
<1>3. CachesWhole
  BY <1>1 DEF CachesWhole
<1>. QED  BY <1>1, <1>2, <1>3 DEF NeutralInv, Working, Searching

(* What is left of the invariant where no book and no failure is.          *)
Clean ==
  ~seeded =>
    /\ CachesWhole
    /\ pc \in Working => Exact(plan.segments \ open, found)
    /\ pc \in Searching => \A s \in open : StillOpen(s)

(* While a build runs, nothing more is to be shown.                        *)
LEMMA CleanIsNeutral ==
  ASSUME Clean', (pc = "seed" => seeded)', ~failed', (book[round] = None)'
  PROVE  NeutralInv'
  BY DEF Clean, NeutralInv

(* What is known while a build runs.                                       *)
LEMMA NeutralFacts ==
  ASSUME FeeInv, NeutralInv, pc # "idle"
  PROVE  /\ ~failed /\ book[round] = None /\ PlanRight(plan)
         /\ Building /\ Clean /\ (pc = "seed" => seeded)
         /\ pc \in Searching => pc \in Working
         /\ pc \in Working => open \subseteq plan.segments
  BY DEF FeeInv, Building, NeutralInv, Clean, Working

(* A command that starts again begins with what the caches hold.           *)
LEMMA NeutralBegin ==
  ASSUME FeeInv, NeutralInv, Begin
  PROVE  NeutralInv'
<1>1. /\ pc' = IF seeded THEN "seed" ELSE "official"
      /\ ~failed' /\ (book[round] = None)'
      /\ UNCHANGED <<seeded, receipts, trades, truth>>
  BY DEF Begin, Unfinished, caches
<1>2. pc' \notin Working /\ pc' \notin Searching
  BY <1>1 DEF Working, Searching
<1>3. Clean'
  BY <1>1, <1>2 DEF Clean, NeutralInv, CachesWhole
<1>. QED  BY <1>1, <1>3, CleanIsNeutral

(* A new directory has empty caches.                                       *)
LEMMA NeutralStartOver ==
  ASSUME FeeInv, NeutralInv, StartOver
  PROVE  NeutralInv'
<1>1. /\ pc' = "idle" /\ ~failed' /\ (book[round] = None)'
      /\ receipts' = <<>> /\ trades' = <<>>
  BY DEF StartOver, Unfinished
<1>2. pc' \notin Working /\ pc' \notin Searching
  BY <1>1 DEF Working, Searching
<1>3. Clean'
  BY <1>1, <1>2 DEF Clean, CachesWhole
<1>. QED  BY <1>1, <1>3, CleanIsNeutral

(* A seed is none of the stops.                                            *)
LEMMA NeutralSeed ==
  ASSUME FeeInv, NeutralInv, Seed
  PROVE  NeutralInv'
<1>1. /\ pc = "seed" /\ pc' = "official" /\ UNCHANGED <<seeded, failed, book, round>>
  BY DEF Seed
<1>2. ~failed /\ book[round] = None /\ seeded
  BY <1>1, NeutralFacts
<1>3. Clean'
  BY <1>1, <1>2 DEF Clean
<1>. QED  BY <1>1, <1>2, <1>3, CleanIsNeutral

(* The official schedules are the ones expected before there were fees.    *)
LEMMA NeutralOfficial ==
  ASSUME FeeInv, NeutralInv, Official
  PROVE  NeutralInv'
<1>. DEFINE free == {s \in plan.segments : s.to =< FirstFee}
            P(s) == Proven(Schedule(s, IsV1(s), Zero, "official", None), {}, {})
<1>1. /\ pc = "official" /\ UNCHANGED <<truth, round, plan, book, failed, seeded, receipts, trades>>
      /\ found' = {P(s) : s \in free} /\ open' = plan.segments \ free
      /\ pc' = IF plan.segments = free THEN "publish" ELSE "receipts"
      /\ rank' = 1
  BY DEF Official, caches
<1>2. ~failed /\ book[round] = None /\ PlanRight(plan) /\ Clean
  BY <1>1, NeutralFacts
<1>3. \A s \in free : Of(P(s), s) /\ P(s).schedule.tariff = Zero /\ Expected(s) = {Zero}
  BY DEF Proven, Schedule, Of, Expected
<1>4. \A s \in free, r \in plan.segments : \A f : Of(f, s) /\ Of(f, r) => r = s
  BY <1>2, PlannedSegment
<1>5. CachesWhole /\ ~seeded' => CachesWhole'
  BY <1>1 DEF CachesWhole, truth
<1>6. Exact(plan.segments \ open, found)'
  <2>1. PICK S, F : S = free /\ F = found'
    OBVIOUS
  <2>2. ASSUME NEW s \in S
        PROVE  \E f \in F : (\A g \in F : Of(g, s) <=> g = f) /\ Expected(s) = {f.schedule.tariff}
    <3>. HIDE DEF P
    <3>1. P(s) \in F /\ Of(P(s), s) /\ Expected(s) = {P(s).schedule.tariff}
      BY <1>1, <1>3, <2>1
    <3>2. ASSUME NEW g \in F, Of(g, s)
          PROVE  g = P(s)
      <4>1. PICK r \in free : g = P(r)
        BY <1>1, <2>1
      <4>2. r = s
        BY <1>3, <1>4, <2>1, <3>2, <4>1
      <4>. QED  BY <4>1, <4>2
    <3>. QED  BY <3>1, <3>2
  <2>3. \A f \in F : \E s \in S : Of(f, s)
    BY <1>1, <1>3, <2>1
  <2>. HIDE DEF free, P
  <2>4. Exact(S, F)'
    BY <1>1, <2>2, <2>3, ExpectedStays DEF Exact
  <2>5. (plan.segments \ open)' = S
    BY <1>1, <2>1 DEF free
  <2>. QED  BY <2>1, <2>4, <2>5
<1>7. ASSUME pc' \in Searching, NEW s \in open'
      PROVE  StillOpen(s)'
  <2>1. pc' = "receipts" /\ s \in plan.segments /\ ~(s.to =< FirstFee)
    BY <1>1, <1>7 DEF Searching
  <2>2. /\ s.to \in Nat /\ FirstFee \in Nat
        /\ DOMAIN s.txs = 1 .. Len(s.txs) /\ Len(s.txs) \in Nat
    BY <1>2, <2>1, PlannedSegment, BoundaryFacts
  <2>3. s.to > FirstFee /\ \A k \in DOMAIN s.txs : k >= rank'
    BY <1>1, <2>1, <2>2
  <2>. QED  BY <2>1, <2>3 DEF StillOpen
<1>8. Clean'
  BY <1>1, <1>2, <1>5, <1>6, <1>7 DEF Clean
<1>9. pc' # "seed"
  BY <1>1
<1>. QED  BY <1>1, <1>2, <1>8, <1>9, CleanIsNeutral

(* The caches only grow.                                                   *)
LEMMA StillOpenStays ==
  ASSUME UNCHANGED <<truth, rank>>, NEW s, StillOpen(s),
         pc' = pc \/ (pc = "trades" /\ pc' = "market" /\ s.condition \in DOMAIN trades'),
         DOMAIN receipts \subseteq DOMAIN receipts', DOMAIN trades \subseteq DOMAIN trades'
  PROVE  StillOpen(s)'
<1>1. ASSUME NEW k \in DOMAIN s.txs
      PROVE  /\ Tried(s, k) => Tried(s, k)'
             /\ Informed(s.txs[k], s.condition)' = Informed(s.txs[k], s.condition)
  <2>1. Alone(s, s.txs[k])' = Alone(s, s.txs[k])
    BY ExpectedStays
  <2>. QED  BY <2>1, ExpectedStays DEF Tried
<1>. QED  BY <1>1 DEF StillOpen

(* Fetching leaves open what is open.                                      *)
LEMMA NeutralFetches ==
  ASSUME FeeInv, NeutralInv, FetchReceipts \/ FetchInfos \/ FetchTrades \/ ReadMarket
  PROVE  NeutralInv'
<1>1. pc # "idle"
  <2>1. Wanted # {} => pc # "idle"
    BY DEF Wanted
  <2>. QED  BY <2>1 DEF FetchReceipts, FetchInfos, FetchTrades, ReadMarket
<1>2. /\ pc' = pc \/ (pc = "trades" /\ pc' = "market" /\ Markets \subseteq DOMAIN trades')
      /\ UNCHANGED <<truth, round, seeded, plan, open, found, rank, book, failed>>
  BY DEF FetchReceipts, FetchInfos, FetchTrades, ReadMarket, caches, work
<1>3. /\ ~failed /\ book[round] = None /\ PlanRight(plan) /\ Clean /\ (pc = "seed" => seeded)
  BY <1>1, NeutralFacts
<1>4. DOMAIN receipts \subseteq DOMAIN receipts' /\ DOMAIN trades \subseteq DOMAIN trades'
  BY DEF FetchReceipts, FetchInfos, FetchTrades, ReadMarket, caches
<1>5. CachesWhole => CachesWhole'
  <2>. SUFFICES ASSUME CachesWhole
                PROVE  CachesWhole'
    OBVIOUS
  <2>1. \A tx \in DOMAIN receipts' : receipts'[tx] = Conditions
    BY DEF CachesWhole, FetchReceipts, FetchInfos, FetchTrades, ReadMarket, caches
  <2>2. \A c \in DOMAIN trades' : trades'[c] = Market[c]
    BY DEF CachesWhole, FetchReceipts, FetchInfos, FetchTrades, ReadMarket, caches
  <2>. QED  BY <2>1, <2>2 DEF CachesWhole
<1>6. pc' \in Working => pc \in Working
  BY <1>2 DEF Working, Searching
<1>7. pc' \in Searching => pc \in Searching
  BY <1>2 DEF Searching
<1>8. Exact(plan.segments \ open, found) => Exact(plan.segments \ open, found)'
  <2>1. PICK S, F : S = plan.segments \ open /\ F = found
    OBVIOUS
  <2>2. Exact(S, F) => Exact(S, F)'
    BY <1>2, ExpectedStays
  <2>3. S = (plan.segments \ open)' /\ F = found'
    BY <1>2, <2>1
  <2>. QED  BY <2>1, <2>2, <2>3
<1>9. ASSUME NEW s \in open', StillOpen(s)
      PROVE  StillOpen(s)'
  <2>1. pc' = "market" /\ pc = "trades" => s.condition \in DOMAIN trades'
    BY <1>2 DEF Markets
  <2>. QED  BY <1>2, <1>4, <1>9, <2>1, StillOpenStays
<1>10. Clean'
  BY <1>2, <1>3, <1>5, <1>6, <1>7, <1>8, <1>9 DEF Clean
<1>11. (pc = "seed" => seeded)'
  BY <1>2, <1>3
<1>. QED  BY <1>2, <1>3, <1>10, <1>11, CleanIsNeutral

(* The receipts are tried in the order of the candidates.                  *)
LEMMA NeutralInfer ==
  ASSUME FeeInv, NeutralInv, Infer
  PROVE  NeutralInv'
<1>. DEFINE E == [s \in open |-> ReceiptEvidence(s)]
            next == IF \E s \in open : rank < Len(s.txs) THEN "receipts" ELSE "info"
<1>1. /\ pc = "receipts" /\ pc \in Working /\ pc \in Searching
      /\ rank' = rank + 1 /\ UNCHANGED <<truth, round, seeded, plan, receipts, trades, book, failed>>
      /\ Resolve(UNION {E[s] : s \in open}, next)
  BY DEF Infer, caches, Working, Searching
<1>2. /\ ~failed /\ book[round] = None /\ PlanRight(plan) /\ Clean /\ open \subseteq plan.segments
      /\ rank \in Nat \ {0}
  BY <1>1, NeutralFacts DEF Building
<1>3. next \in {"receipts", "info"}
  OBVIOUS
<1>4. pc' \in {"publish", next}
  BY <1>1 DEF Resolve
<1>5. ASSUME ~seeded
      PROVE  Clean'
  <2>1. CachesWhole /\ Exact(plan.segments \ open, found) /\ \A s \in open : StillOpen(s)
    BY <1>1, <1>2, <1>5 DEF Clean
  <2>2. ASSUME NEW s \in open, rank \in DOMAIN s.txs
        PROVE  s.txs[rank] \in DOMAIN receipts /\ receipts[s.txs[rank]] = Conditions
    <3>1. DOMAIN s.txs = 1 .. Len(s.txs) /\ Len(s.txs) \in Nat
      BY <1>2, PlannedSegment
    <3>2. s \in Ranked
      BY <1>2, <2>2, <3>1 DEF Ranked
    <3>3. s.txs[rank] \in Wanted
      BY <1>1, <3>2 DEF Wanted
    <3>. QED  BY <2>1, <3>3 DEF Infer, CachesWhole
  <2>3. ASSUME NEW s \in open
        PROVE  /\ \A f \in E[s] : Of(f, s) /\ Expected(s) = {f.schedule.tariff}
               /\ \A f, g \in E[s] : f = g
               /\ E[s] = {} /\ rank \in DOMAIN s.txs => Tried(s, rank)
    <3>. DEFINE By == ByReceipt(s, s.txs[rank], receipts[s.txs[rank]])
    <3>1. /\ \A f \in E[s] : Of(f, s) /\ rank \in DOMAIN s.txs /\ By = {f.schedule.tariff}
          /\ \A f, g \in E[s] : f = g
          /\ rank \in DOMAIN s.txs /\ By # {} => E[s] # {}
      BY <1>2, ReceiptFacts
    <3>2. rank \in DOMAIN s.txs => By = Alone(s, s.txs[rank])
      BY <2>2 DEF Alone
    <3>. HIDE DEF By, E
    <3>3. /\ DOMAIN s.txs \in SUBSET Nat /\ ~(s.to =< FirstFee)
          /\ \A k \in DOMAIN s.txs : k < rank => Alone(s, s.txs[k]) = {}
      <4>1. DOMAIN s.txs = 1 .. Len(s.txs) /\ Len(s.txs) \in Nat /\ s.to \in Nat /\ FirstFee \in Nat
        BY <1>2, PlannedSegment, BoundaryFacts
      <4>2. StillOpen(s)
        BY <2>1
      <4>3. s.to > FirstFee
        BY <4>2 DEF StillOpen
      <4>4. ASSUME NEW k \in DOMAIN s.txs, k < rank
            PROVE  Alone(s, s.txs[k]) = {}
        <5>1. Tried(s, k) \/ k >= rank
          BY <4>2 DEF StillOpen
        <5>. QED  BY <1>2, <4>1, <4>4, <5>1 DEF Tried
      <4>5. DOMAIN s.txs \in SUBSET Nat
        BY <4>1
      <4>6. ~(s.to =< FirstFee)
        BY <4>1, <4>3
      <4>. QED  BY <4>4, <4>5, <4>6
    <3>4. ASSUME NEW f \in E[s]
          PROVE  Expected(s) = {f.schedule.tariff}
      <4>1. rank \in DOMAIN s.txs /\ Alone(s, s.txs[rank]) = {f.schedule.tariff}
        BY <3>1, <3>2
      <4>. QED  BY <3>3, <4>1, ExpectedAlone
    <3>5. E[s] = {} /\ rank \in DOMAIN s.txs => Tried(s, rank)
      BY <2>2, <3>1, <3>2 DEF Tried
    <3>. QED  BY <3>1, <3>4, <3>5
  <2>. HIDE DEF E, next
  <2>4. /\ Exact(plan.segments \ open, found)' /\ open' \subseteq open
        /\ pc' = IF open' = {} THEN "publish" ELSE next
        /\ \A s \in open' : E[s] = {}
    BY <1>1, <1>2, <2>1, <2>3, ResolveExact
  <2>5. ASSUME pc' \in Searching, NEW s \in open'
        PROVE  StillOpen(s)'
    <3>1. s \in open /\ StillOpen(s) /\ pc' = next
      BY <2>1, <2>4
    <3>2. DOMAIN s.txs = 1 .. Len(s.txs) /\ Len(s.txs) \in Nat
      BY <1>2, <3>1, PlannedSegment
    <3>3. next = "info" => ~(rank < Len(s.txs))
      BY <3>1 DEF next
    <3>4. ASSUME NEW k \in DOMAIN s.txs
          PROVE  Tried(s, k)' \/ (pc' = "receipts" /\ k >= rank')
      <4>1. Tried(s, k) => Tried(s, k)'
        <5>1. Alone(s, s.txs[k])' = Alone(s, s.txs[k])
          BY <1>1, ExpectedStays
        <5>. QED  BY <1>1, <5>1 DEF Tried
      <4>2. k = rank => Tried(s, k)
        BY <2>3, <2>4, <3>1
      <4>3. k < rank => Tried(s, k)
        BY <1>2, <3>1, <3>2 DEF StillOpen
      <4>4. k > rank => pc' = "receipts" /\ k >= rank'
        BY <1>1, <1>2, <1>3, <3>1, <3>2, <3>3
      <4>. QED  BY <1>2, <3>2, <4>1, <4>2, <4>3, <4>4
    <3>5. pc' \notin {"trades", "market"}
      BY <1>3, <3>1
    <3>6. s.to > FirstFee
      BY <3>1 DEF StillOpen
    <3>. QED  BY <3>4, <3>5, <3>6 DEF StillOpen
  <2>6. CachesWhole'
    BY <1>1, <2>1 DEF CachesWhole, truth
  <2>. QED  BY <2>4, <2>5, <2>6 DEF Clean
<1>6. Clean'
  BY <1>1, <1>5 DEF Clean
<1>7. (pc = "seed" => seeded)'
  BY <1>3, <1>4
<1>. QED  BY <1>1, <1>2, <1>6, <1>7, CleanIsNeutral

(* The market info is tried when no receipt is left.                       *)
LEMMA NeutralSettle ==
  ASSUME FeeInv, NeutralInv, Settle
  PROVE  NeutralInv'
<1>. DEFINE E == [s \in open |-> InfoEvidence(s)]
<1>1. /\ pc = "info" /\ pc \in Working /\ pc \in Searching
      /\ UNCHANGED <<truth, round, seeded, plan, receipts, trades, rank, book, failed>>
      /\ Resolve(UNION {E[s] : s \in open}, "trades")
  BY DEF Settle, caches, Working, Searching
<1>2. ~failed /\ book[round] = None /\ PlanRight(plan) /\ Clean /\ open \subseteq plan.segments
  BY <1>1, NeutralFacts
<1>3. pc' \in {"publish", "trades"}
  BY <1>1 DEF Resolve
<1>4. ASSUME ~seeded
      PROVE  Clean'
  <2>1. CachesWhole /\ Exact(plan.segments \ open, found) /\ \A s \in open : StillOpen(s)
    BY <1>1, <1>2, <1>4 DEF Clean
  <2>2. ASSUME NEW s \in open
        PROVE  /\ \A f \in E[s] : Of(f, s) /\ Expected(s) = {f.schedule.tariff}
               /\ \A f, g \in E[s] : f = g
               /\ E[s] = {} => \A k \in DOMAIN s.txs : Informed(s.txs[k], s.condition) = {}
    <3>. DEFINE By(k) == Reconciled(s.txs[k], s.condition, receipts[s.txs[k]])
                I(k) == Informed(s.txs[k], s.condition)
                good == {k \in DOMAIN s.txs : I(k) # {}}
    <3>1. \A k \in DOMAIN s.txs : Tried(s, k)
      BY <1>1, <2>1 DEF StillOpen
    <3>2. \A k \in DOMAIN s.txs : By(k) = I(k)
      BY <2>1, <3>1 DEF Tried, CachesWhole, Informed
    <3>3. {k \in DOMAIN s.txs : By(k) # {}} = good
      BY <3>2
    <3>4. /\ \A f \in E[s] : Of(f, s) /\ \E k \in First(good) : By(k) = {f.schedule.tariff}
          /\ \A f, g \in E[s] : f = g
          /\ First(good) # {} => E[s] # {}
      <4>1. LET first == First({k \in DOMAIN s.txs : By(k) # {}}) IN
            /\ \A f \in InfoEvidence(s) : Of(f, s) /\ \E k \in first : By(k) = {f.schedule.tariff}
            /\ \A f, g \in InfoEvidence(s) : f = g
            /\ first # {} => InfoEvidence(s) # {}
        BY <1>2, InfoFacts
      <4>. HIDE DEF By, good
      <4>. QED  BY <3>3, <4>1
    <3>5. /\ DOMAIN s.txs = 1 .. Len(s.txs) /\ Len(s.txs) \in Nat /\ s.to \in Nat /\ FirstFee \in Nat
          /\ s.to > FirstFee
      BY <1>2, <2>1, PlannedSegment, BoundaryFacts DEF StillOpen
    <3>6. DOMAIN s.txs \in SUBSET Nat
      BY <3>5
    <3>7. ~(s.to =< FirstFee)
      BY <3>5
    <3>8. ASSUME NEW f \in E[s]
          PROVE  Expected(s) = {f.schedule.tariff}
      <4>1. PICK k \in First(good) : By(k) = {f.schedule.tariff}
        BY <3>4
      <4>2. \A j \in DOMAIN s.txs : Alone(s, s.txs[j]) = {}
        BY <3>1 DEF Tried
      <4>3. Expected(s) = I(k)
        BY <3>6, <3>7, <4>2, ExpectedInformed
      <4>4. k \in DOMAIN s.txs
        BY DEF First
      <4>. HIDE DEF By, I
      <4>. QED  BY <3>2, <4>1, <4>3, <4>4
    <3>9. ASSUME E[s] = {}, NEW k \in DOMAIN s.txs
          PROVE  I(k) = {}
      <4>1. good \in SUBSET Nat
        BY <3>6
      <4>2. First(good) = {}
        BY <3>4, <3>9
      <4>3. good = {}
        <5>. HIDE DEF good
        <5>. QED  BY <4>1, <4>2, FirstFacts
      <4>. QED  BY <4>3
    <3>. QED  BY <3>4, <3>8, <3>9
  <2>. HIDE DEF E
  <2>3. /\ Exact(plan.segments \ open, found)' /\ open' \subseteq open
        /\ pc' = IF open' = {} THEN "publish" ELSE "trades"
        /\ \A s \in open' : E[s] = {}
    BY <1>1, <1>2, <2>1, <2>2, ResolveExact
  <2>4. ASSUME pc' \in Searching, NEW s \in open'
        PROVE  StillOpen(s)'
    <3>1. s \in open /\ StillOpen(s) /\ pc' = "trades"
      BY <2>1, <2>3
    <3>2. ASSUME NEW k \in DOMAIN s.txs
          PROVE  Tried(s, k)' /\ Informed(s.txs[k], s.condition)' = {}
      <4>1. /\ Alone(s, s.txs[k])' = Alone(s, s.txs[k])
            /\ Informed(s.txs[k], s.condition)' = Informed(s.txs[k], s.condition)
        BY <1>1, ExpectedStays
      <4>2. Tried(s, k)
        BY <1>1, <3>1 DEF StillOpen
      <4>3. Informed(s.txs[k], s.condition) = {}
        BY <2>2, <2>3, <3>1
      <4>. QED  BY <1>1, <4>1, <4>2, <4>3 DEF Tried
    <3>3. s.to > FirstFee
      BY <3>1 DEF StillOpen
    <3>. QED  BY <3>1, <3>2, <3>3 DEF StillOpen
  <2>5. CachesWhole'
    BY <1>1, <2>1 DEF CachesWhole, truth
  <2>. QED  BY <2>3, <2>4, <2>5 DEF Clean
<1>5. Clean'
  BY <1>1, <1>4 DEF Clean
<1>6. (pc = "seed" => seeded)'
  BY <1>3
<1>. QED  BY <1>1, <1>2, <1>5, <1>6, CleanIsNeutral

(* What the last stage finds for a segment with whole caches.              *)
LEMMA MarketExpected ==
  ASSUME PlanRight(plan), CachesWhole, Wanted \subseteq DOMAIN receipts, pc = "market",
         open \subseteq plan.segments, NEW s \in open, StillOpen(s)
  PROVE  /\ \A f \in MarketEvidence(s) : Of(f, s) /\ Expected(s) = {f.schedule.tariff}
         /\ \A f, g \in MarketEvidence(s) : f = g
         /\ MarketEvidence(s) = {} => Expected(s) = {}
<1>. DEFINE c == s.condition
            By(tx) == Either(tx, c, receipts[tx])
            E(tx) == Either(tx, c, Conditions)
            wide == BeforeCutover(Market[c])
            good == {tx \in wide : E(tx) # {}}
            market == First(good)
            C == Consensus(Samples(c), c)
<1>1. c \in Conditions /\ s.to \in Nat /\ FirstFee \in Nat /\ s.to > FirstFee
  BY PlannedSegment, BoundaryFacts DEF StillOpen
<1>2. ~(s.to =< FirstFee)
  BY <1>1
<1>3. MarketWide(c) = wide
  BY DEF StillOpen, CachesWhole, MarketWide
<1>4. wide \in SUBSET Nat
  BY <1>1, FeeAssumption DEF BeforeCutover
<1>5. ASSUME NEW tx \in wide
      PROVE  receipts[tx] = Conditions
  <2>1. Wanted = UNION {MarketWide(r.condition) : r \in open}
    BY DEF Wanted
  <2>2. tx \in Wanted
    BY <1>3, <1>5, <2>1
  <2>. QED  BY <2>2 DEF CachesWhole
<1>6. Samples(c) = {tx \in wide : V1(tx) /\ Charged(tx, c)}
  <2>. HIDE DEF wide
  <2>. QED  BY <1>1, <1>3, <1>5 DEF Samples, Refunded
<1>7. \A tx \in wide : By(tx) = E(tx)
  BY <1>5
<1>8. {tx \in MarketWide(c) : By(tx) # {}} = good
  BY <1>3, <1>7
<1>9. /\ \A f \in MarketEvidence(s) :
            /\ Of(f, s)
            /\ market # {} => \E tx \in market : By(tx) = {f.schedule.tariff}
            /\ market = {} => C = {f.schedule.tariff}
      /\ \A f, g \in MarketEvidence(s) : f = g
      /\ market # {} \/ C # {} => MarketEvidence(s) # {}
  <2>1. LET one == First({tx \in MarketWide(c) : By(tx) # {}}) IN
        /\ \A f \in MarketEvidence(s) :
              /\ Of(f, s)
              /\ one # {} => \E tx \in one : By(tx) = {f.schedule.tariff}
              /\ one = {} => Consensus(Samples(c), c) = {f.schedule.tariff}
        /\ MarketWide(c) \in SUBSET Nat => \A f, g \in MarketEvidence(s) : f = g
        /\ one # {} \/ Consensus(Samples(c), c) # {} => MarketEvidence(s) # {}
    BY MarketFacts
  <2>2. MarketWide(c) \in SUBSET Nat
    BY <1>3, <1>4
  <2>. HIDE DEF By, good
  <2>. QED  BY <1>8, <2>1, <2>2
<1>10. /\ \A tx \in market : Expected(s) = E(tx)
       /\ market = {} => Expected(s) = C
  <2>1. \A k \in DOMAIN s.txs : Alone(s, s.txs[k]) = {} /\ Informed(s.txs[k], s.condition) = {}
    BY DEF StillOpen, Tried
  <2>2. LET m == First({tx \in BeforeCutover(Market[c]) : Either(tx, c, Conditions) # {}})
        IN  /\ \A tx \in m : Expected(s) = Either(tx, c, Conditions)
            /\ m = {} => Expected(s) = Consensus({tx \in BeforeCutover(Market[c]) : V1(tx) /\ Charged(tx, c)}, c)
    BY <1>1, <1>2, <2>1, ExpectedOfMarket
  <2>. QED  BY <1>6, <2>2
<1>11. \A tx \in market : tx \in wide
  BY DEF First
<1>. HIDE DEF market, By, E, C
<1>12. ASSUME NEW f \in MarketEvidence(s)
       PROVE  Expected(s) = {f.schedule.tariff}
  BY <1>7, <1>9, <1>10, <1>11
<1>13. MarketEvidence(s) = {} => Expected(s) = {}
  BY <1>9, <1>10
<1>. QED  BY <1>9, <1>12, <1>13

(* What is left after the last stage has no tariff to expect.              *)
LEMMA NeutralAgree ==
  ASSUME FeeInv, NeutralInv, Agree
  PROVE  NeutralInv'
<1>. DEFINE E == [s \in open |-> MarketEvidence(s)]
<1>1. /\ pc = "market" /\ pc \in Working /\ pc \in Searching /\ Wanted \subseteq DOMAIN receipts
      /\ UNCHANGED <<truth, round, seeded, plan, receipts, trades, rank, book>>
      /\ failed' = (open' # {})
      /\ Resolve(UNION {E[s] : s \in open}, "idle")
  BY DEF Agree, caches, Working, Searching
<1>2. ~failed /\ book[round] = None /\ PlanRight(plan) /\ Clean /\ open \subseteq plan.segments
  BY <1>1, NeutralFacts
<1>3. pc' = (IF open' = {} THEN "publish" ELSE "idle") /\ open' \subseteq open
  BY <1>1 DEF Resolve
<1>4. ASSUME ~seeded
      PROVE  /\ CachesWhole'
             /\ Exact(plan.segments \ open, found)'
             /\ \A s \in open' : (Expected(s) = {})'
  <2>1. CachesWhole /\ Exact(plan.segments \ open, found) /\ \A s \in open : StillOpen(s)
    BY <1>1, <1>2, <1>4 DEF Clean
  <2>2. ASSUME NEW s \in open
        PROVE  /\ \A f \in E[s] : Of(f, s) /\ Expected(s) = {f.schedule.tariff}
               /\ \A f, g \in E[s] : f = g
               /\ E[s] = {} => Expected(s) = {}
    BY <1>1, <1>2, <2>1, MarketExpected
  <2>. HIDE DEF E
  <2>3. Exact(plan.segments \ open, found)' /\ \A s \in open' : E[s] = {}
    BY <1>1, <1>2, <2>1, <2>2, ResolveExact
  <2>4. CachesWhole'
    BY <1>1, <2>1 DEF CachesWhole, truth
  <2>5. ASSUME NEW s \in open'
        PROVE  (Expected(s) = {})'
    <3>1. Expected(s) = {}
      BY <1>3, <2>2, <2>3
    <3>2. Expected(s)' = Expected(s)
      BY <1>1, ExpectedStays
    <3>. QED  BY <3>1, <3>2
  <2>. QED  BY <2>3, <2>4, <2>5
<1>5. pc' \notin Searching /\ pc' # "seed"
  BY <1>3 DEF Searching
<1>6. failed' => pc' = "idle" /\ (book[round] = None)'
  BY <1>1, <1>2, <1>3
<1>7. ASSUME ~seeded, failed'
      PROVE  (\E s \in plan.segments : Expected(s) = {})'
  <2>1. PICK s \in open' : (Expected(s) = {})'
    BY <1>1, <1>4, <1>7
  <2>2. s \in plan'.segments
    BY <1>1, <1>2, <1>3, <2>1
  <2>. QED  BY <2>1, <2>2
<1>8. (book[round] = None)'
  BY <1>1, <1>2
<1>. QED  BY <1>1, <1>4, <1>5, <1>6, <1>7, <1>8 DEF NeutralInv

(* A book holds what was found when nothing is open.                       *)
LEMMA NeutralPublish ==
  ASSUME FeeInv, NeutralInv, Publish
  PROVE  NeutralInv'
<1>1. /\ pc = "publish" /\ pc' = "idle"
      /\ UNCHANGED <<truth, round, seeded, plan, receipts, trades, failed>>
      /\ pc \in Working /\ round \in Rounds /\ DOMAIN book = Rounds /\ open = {}
  BY DEF Publish, caches, Working, FeeInv, Building, BooksRight
<1>2. ~failed /\ PlanRight(plan) /\ Clean
  BY <1>1, NeutralFacts
<1>3. PICK b : book' = [book EXCEPT ![round] = b] /\ b.found = found
  <2>. DEFINE b == [sources |-> plan.sources, seeded |-> seeded, found |-> found,
                    infos |-> {f.schedule.condition : f \in {f \in found : UsesInfo(f)}}]
  <2>1. book' = [book EXCEPT ![round] = b]
    BY DEF Publish
  <2>2. b.found = found
    OBVIOUS
  <2>. HIDE DEF b
  <2>. QED  BY <2>1, <2>2
<1>4. PICK S, F : S = plan.segments /\ F = found
  OBVIOUS
<1>5. book'[round'] = b /\ b.found = F
  BY <1>1, <1>3, <1>4
<1>6. ~seeded => Exact(S, F)' /\ CachesWhole'
  <2>1. ~seeded => Exact(plan.segments \ open, found) /\ CachesWhole
    BY <1>1, <1>2 DEF Clean
  <2>2. plan.segments \ open = S
    BY <1>1, <1>4
  <2>3. ~seeded => Exact(S, F)
    BY <1>4, <2>1, <2>2
  <2>. QED  BY <1>1, <2>1, <2>3, ExpectedStays DEF CachesWhole, truth
<1>7. ~seeded => Exact(plan.segments, book[round].found)'
  BY <1>1, <1>4, <1>5, <1>6
<1>8. PlanRight(plan)'
  BY <1>1, <1>2 DEF PlanRight
<1>9. pc' \notin Working /\ pc' \notin Searching
  BY <1>1 DEF Working, Searching
<1>. QED  BY <1>1, <1>2, <1>6, <1>7, <1>8, <1>9 DEF NeutralInv

(* What neither the caches nor the truth nor the book changes.             *)
LEMMA NeutralStays ==
  ASSUME NeutralInv, UNCHANGED <<truth, round, seeded, plan, receipts, trades, book, failed, found, open, rank, pc>>
  PROVE  NeutralInv'
<1>1. CachesWhole => CachesWhole'
  BY DEF CachesWhole, truth
<1>2. ASSUME NEW S, NEW F, Exact(S, F)
      PROVE  Exact(S, F)'
  BY <1>2, ExpectedStays
<1>3. Exact(plan.segments \ open, found) => Exact(plan.segments \ open, found)'
  <2>1. PICK S, F : S = plan.segments \ open /\ F = found
    OBVIOUS
  <2>. QED  BY <1>2, <2>1
<1>4. Exact(plan.segments, book[round].found) => Exact(plan.segments, book[round].found)'
  <2>1. PICK S, F : S = plan.segments /\ F = book[round].found
    OBVIOUS
  <2>. QED  BY <1>2, <2>1
<1>5. \A s : StillOpen(s) => StillOpen(s)'
  BY StillOpenStays
<1>6. (\E s \in plan.segments : Expected(s) = {}) => (\E s \in plan.segments : Expected(s) = {})'
  BY ExpectedStays
<1>7. PlanRight(plan) => PlanRight(plan)'
  BY DEF PlanRight
<1>. QED  BY <1>1, <1>3, <1>4, <1>5, <1>6, <1>7 DEF NeutralInv

(* A stop leaves the caches whole.                                         *)
LEMMA NeutralStop ==
  ASSUME FeeInv, NeutralInv, Stop
  PROVE  NeutralInv'
<1>1. /\ pc # "idle" /\ pc' = "idle"
      /\ UNCHANGED <<truth, round, seeded, receipts, trades, book, failed>>
  BY DEF Stop, caches
<1>2. ~failed /\ book[round] = None /\ Clean
  BY <1>1, NeutralFacts
<1>3. pc' \notin Working /\ pc' \notin Searching
  BY <1>1 DEF Working, Searching
<1>4. Clean'
  BY <1>1, <1>2, <1>3 DEF Clean, NeutralInv, CachesWhole, truth
<1>. QED  BY <1>1, <1>2, <1>4, CleanIsNeutral

(* The next round begins with nothing.                                     *)
LEMMA NeutralExtend ==
  ASSUME FeeInv, NeutralInv, Extend
  PROVE  NeutralInv'
<1>1. /\ pc = "idle" /\ round < MaxRounds /\ round' = round + 1
      /\ receipts' = <<>> /\ trades' = <<>>
      /\ UNCHANGED <<pc, book, failed>>
      /\ round \in Rounds /\ replay[round].miss # {}
  BY DEF Extend, FeeInv, Building
<1>2. round \in Nat /\ round' \in Rounds /\ round' > round
  BY <1>1, FeeAssumption DEF Rounds
<1>3. book[round] # None /\ book[round'] = None
  BY <1>1, <1>2 DEF FeeInv, BooksRight
<1>4. ~failed
  BY <1>3 DEF NeutralInv
<1>5. pc' \notin Working /\ pc' \notin Searching
  BY <1>1 DEF Working, Searching
<1>6. Clean'
  BY <1>1, <1>5 DEF Clean, CachesWhole
<1>. QED  BY <1>1, <1>3, <1>4, <1>6, CleanIsNeutral

(* Every step keeps NeutralInv.                                            *)
LEMMA NeutralStep ==
  ASSUME FeeInv, NeutralInv, [Next]_vars
  PROVE  NeutralInv'
<1>1. CASE Play \/ BaseGoesOn \/ UNCHANGED vars
  <2>1. UNCHANGED <<truth, round, seeded, plan, receipts, trades, book, failed, found, open, rank, pc>>
    BY <1>1 DEF Play, BaseGoesOn, vars, build, work, caches
  <2>. QED  BY <2>1, NeutralStays
<1>. QED
  BY <1>1, NeutralBegin, NeutralStartOver, NeutralSeed, NeutralOfficial, NeutralFetches, NeutralInfer,
     NeutralSettle, NeutralAgree, NeutralPublish, NeutralStop, NeutralExtend
  DEF Next, Build

(* As many schedules as segments.                                          *)
LEMMA ExactCounts ==
  ASSUME NEW p, PlanRight(p), NEW F, Exact(p.segments, F)
  PROVE  Cardinality(F) = Cardinality(p.segments)
<1>. DEFINE S == p.segments
            m == [s \in S |-> CHOOSE f \in F : Of(f, s)]
<1>1. IsFiniteSet(S)
  BY SegmentsFinite DEF PlanRight
<1>2. \A s \in S : m[s] \in F /\ Of(m[s], s) /\ \A g \in F : Of(g, s) => g = m[s]
  BY DEF Exact
<1>3. \A s, r \in S : \A f : Of(f, s) /\ Of(f, r) => r = s
  BY PlannedSegment
<1>. HIDE DEF m
<1>4. \A f \in F : \E s \in S : m[s] = f
  BY <1>2 DEF Exact
<1>5. m \in [S -> F]
  BY <1>2 DEF m
<1>6. \A s, r \in S : m[s] = m[r] => s = r
  BY <1>2, <1>3
<1>7. m \in Bijection(S, F)
  BY <1>4, <1>5, <1>6 DEF Bijection, Injection, Surjection, IsInjective
<1>8. ExistsBijection(S, F)
  BY <1>7 DEF ExistsBijection
<1>. QED  BY <1>1, <1>8, FS_Bijection

(* However often a build without a seed is stopped and started again, it   *)
(* publishes exactly one schedule for every interval of its plan, the one  *)
(* a command without a stop finds, and fails only when that command would. *)
THEOREM StopsAreAlwaysNeutral == Spec => []StopsAreNeutral
<1>1. Init => NeutralInv
  BY NeutralInit
<1>2. FeeInv /\ NeutralInv /\ [Next]_vars => NeutralInv'
  BY NeutralStep
<1>3. NeutralInv => StopsAreNeutral
  <2>. SUFFICES ASSUME NeutralInv, ~seeded, plan # None
                PROVE  /\ book[round] # None =>
                            /\ \A s \in plan.segments :
                                  {f.schedule.tariff : f \in {f \in book[round].found : Of(f, s)}} = Expected(s)
                            /\ Cardinality(book[round].found) = Cardinality(plan.segments)
                       /\ failed => \E s \in plan.segments : Expected(s) = {}
    BY DEF StopsAreNeutral
  <2>1. ASSUME book[round] # None
        PROVE  /\ \A s \in plan.segments :
                    {f.schedule.tariff : f \in {f \in book[round].found : Of(f, s)}} = Expected(s)
               /\ Cardinality(book[round].found) = Cardinality(plan.segments)
    <3>1. Exact(plan.segments, book[round].found) /\ PlanRight(plan)
      BY <2>1 DEF NeutralInv
    <3>2. ASSUME NEW s \in plan.segments
          PROVE  {f.schedule.tariff : f \in {f \in book[round].found : Of(f, s)}} = Expected(s)
      <4>1. PICK f \in book[round].found :
                (\A g \in book[round].found : Of(g, s) <=> g = f) /\ Expected(s) = {f.schedule.tariff}
        BY <3>1 DEF Exact
      <4>2. {g \in book[round].found : Of(g, s)} = {f}
        BY <4>1
      <4>. QED  BY <4>1, <4>2
    <3>. QED  BY <3>1, <3>2, ExactCounts
  <2>2. failed => \E s \in plan.segments : Expected(s) = {}
    BY DEF NeutralInv
  <2>. QED  BY <2>1, <2>2
<1>. QED  BY <1>1, <1>2, <1>3, FeeInvariant, PTL DEF Spec
=============================================================================
