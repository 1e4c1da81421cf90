---- MODULE TotalsProofs ----
(***************************************************************************)
(* The laws of Total, and what several proofs need of numbers, functions   *)
(* defined by steps, and finite sets in order.                             *)
(***************************************************************************)
EXTENDS Totals, FiniteSetTheorems, WellFoundedInduction, TLAPS

(* The units of one entry form a finite set with f[x] members.             *)
LEMMA OwnUnits ==
  ASSUME NEW x, NEW n \in Nat
  PROVE  /\ IsFiniteSet({x} \X (1 .. n))
         /\ Cardinality({x} \X (1 .. n)) = n
<1>1. IsFiniteSet({x}) /\ Cardinality({x}) = 1
  BY FS_Singleton
<1>2. IsFiniteSet(1 .. n) /\ Cardinality(1 .. n) = n
  BY FS_Interval
<1>3. /\ IsFiniteSet({x} \X (1 .. n))
      /\ Cardinality({x} \X (1 .. n)) = Cardinality({x}) * Cardinality(1 .. n)
  BY <1>1, <1>2, FS_Product
<1>. QED  BY <1>1, <1>2, <1>3

(* A total of naturals over a finite set is a natural number.              *)
LEMMA TotalType ==
  ASSUME NEW S, IsFiniteSet(S), NEW f, \A x \in S : f[x] \in Nat
  PROVE  /\ IsFiniteSet(Units(f, S))
         /\ Total(f, S) \in Nat
<1>. DEFINE parts == {{x} \X (1 .. f[x]) : x \in S}
            part == [x \in S |-> {x} \X (1 .. f[x])]
<1>1. IsFiniteSet(parts)
  <2>1. part \in Surjection(S, parts)
    BY DEF Surjection
  <2>. HIDE DEF parts, part
  <2>. QED  BY <2>1, FS_Surjection
<1>2. \A T \in parts : IsFiniteSet(T)
  <2>1. SUFFICES ASSUME NEW x \in S
                 PROVE  IsFiniteSet({x} \X (1 .. f[x]))
    OBVIOUS
  <2>2. f[x] \in Nat
    OBVIOUS
  <2>. QED  BY <2>2, OwnUnits
<1>3. IsFiniteSet(UNION parts)
  BY <1>1, <1>2, FS_UNION
<1>. QED  BY <1>3, FS_CardinalityType DEF Total, Units

(* Totals depend only on the values they add.                              *)
LEMMA TotalSame ==
  ASSUME NEW S, NEW f, NEW g, \A x \in S : f[x] = g[x]
  PROVE  Total(f, S) = Total(g, S)
<1>1. Units(f, S) = Units(g, S)
  BY DEF Units
<1>. QED  BY <1>1 DEF Total

(* A total over S is the total over a part of S plus that over the rest.   *)
LEMMA TotalSplit ==
  ASSUME NEW S, IsFiniteSet(S), NEW T \in SUBSET S,
         NEW f, \A x \in S : f[x] \in Nat
  PROVE  Total(f, S) = Total(f, T) + Total(f, S \ T)
<1>1. IsFiniteSet(T) /\ IsFiniteSet(S \ T)
  BY FS_Subset
<1>2. /\ IsFiniteSet(Units(f, T)) /\ Total(f, T) \in Nat
      /\ IsFiniteSet(Units(f, S \ T)) /\ Total(f, S \ T) \in Nat
  BY <1>1, TotalType
<1>3. Units(f, S) = Units(f, T) \cup Units(f, S \ T)
  BY DEF Units
<1>4. Units(f, T) \cap Units(f, S \ T) = {}
  BY DEF Units
<1>5. Total(f, S) = Total(f, T) + Total(f, S \ T)
                      - Cardinality(Units(f, T) \cap Units(f, S \ T))
  BY <1>2, <1>3, FS_Union DEF Total
<1>6. Cardinality(Units(f, T) \cap Units(f, S \ T)) = 0
  BY <1>4, FS_EmptySet
<1>. QED  BY <1>2, <1>5, <1>6

(* The total over one entry is that entry.                                 *)
LEMMA TotalOne ==
  ASSUME NEW x, NEW f, f[x] \in Nat
  PROVE  Total(f, {x}) = f[x]
<1>1. Units(f, {x}) = {x} \X (1 .. f[x])
  BY DEF Units
<1>. QED  BY <1>1, OwnUnits DEF Total

(* Taking one entry out of a total.                                        *)
LEMMA TotalRemove ==
  ASSUME NEW S, IsFiniteSet(S), NEW x \in S,
         NEW f, \A y \in S : f[y] \in Nat
  PROVE  /\ Total(f, S) = f[x] + Total(f, S \ {x})
         /\ Total(f, S \ {x}) \in Nat
         /\ f[x] <= Total(f, S)
<1>1. {x} \in SUBSET S
  OBVIOUS
<1>2. Total(f, S) = Total(f, {x}) + Total(f, S \ {x})
  BY <1>1, TotalSplit
<1>3. Total(f, {x}) = f[x]
  BY TotalOne
<1>4. IsFiniteSet(S \ {x})
  BY FS_RemoveElement
<1>5. Total(f, S \ {x}) \in Nat
  BY <1>4, TotalType
<1>6. f[x] \in Nat
  OBVIOUS
<1>. QED  BY <1>2, <1>3, <1>5, <1>6

(* A total over fewer entries is not larger.                               *)
LEMMA TotalSubset ==
  ASSUME NEW S, IsFiniteSet(S), NEW T \in SUBSET S,
         NEW f, \A x \in S : f[x] \in Nat
  PROVE  /\ Total(f, S) \in Nat
         /\ Total(f, T) \in 0 .. Total(f, S)
<1>1. IsFiniteSet(T) /\ IsFiniteSet(S \ T)
  BY FS_Subset
<1>2. Total(f, T) \in Nat /\ Total(f, S \ T) \in Nat
  BY <1>1, TotalType
<1>. QED  BY <1>2, TotalSplit

(* A total of nothing, and a total of zeros, is zero.                      *)
LEMMA TotalZero ==
  ASSUME NEW S, NEW f, \A x \in S : f[x] = 0
  PROVE  Total(f, S) = 0
<1>1. Units(f, S) = {}
  BY DEF Units
<1>. QED  BY <1>1, FS_EmptySet DEF Total

(* When one entry x gives up d and other entries may only leave, the total *)
(* falls by d at least.                                                    *)
LEMMA TotalDrop ==
  ASSUME NEW S, IsFiniteSet(S), NEW T \in SUBSET S, NEW x \in S, NEW d \in Nat,
         NEW f, \A y \in S : f[y] \in Nat,
         NEW g, \A y \in T \ {x} : g[y] = f[y],
         IF x \in T THEN g[x] \in Nat /\ g[x] + d = f[x] ELSE d <= f[x]
  PROVE  /\ Total(g, T) \in Nat
         /\ Total(g, T) + d <= Total(f, S)
<1>1. /\ Total(f, S) = f[x] + Total(f, S \ {x})
      /\ Total(f, S \ {x}) \in Nat
  BY TotalRemove
<1>2. /\ IsFiniteSet(S \ {x}) /\ IsFiniteSet(T)
      /\ T \ {x} \in SUBSET (S \ {x})
  BY FS_RemoveElement, FS_Subset
<1>3. Total(f, T \ {x}) <= Total(f, S \ {x})
  BY <1>2, TotalSubset
<1>4. Total(g, T \ {x}) = Total(f, T \ {x})
  BY TotalSame
<1>5. IsFiniteSet(T \ {x}) /\ Total(f, T \ {x}) \in Nat
  <2>1. IsFiniteSet(T \ {x})
    BY <1>2, FS_RemoveElement
  <2>. QED  BY <2>1, TotalType
<1>6. CASE x \in T
  <2>1. \A y \in T : g[y] \in Nat
    BY <1>6
  <2>2. Total(g, T) = g[x] + Total(g, T \ {x})
    BY <1>2, <1>6, <2>1, TotalRemove
  <2>3. f[x] \in Nat
    OBVIOUS
  <2>. QED  BY <1>1, <1>3, <1>4, <1>5, <1>6, <2>2, <2>3
<1>7. CASE x \notin T
  <2>1. T \ {x} = T
    BY <1>7
  <2>2. f[x] \in Nat
    OBVIOUS
  <2>3. Total(g, T) = Total(f, T \ {x}) /\ d <= f[x]
    BY <1>4, <1>7, <2>1
  <2>. QED  BY <1>1, <1>3, <1>5, <2>2, <2>3
<1>. QED  BY <1>6, <1>7

(* A finite set has as many elements as its parts together.                *)
LEMMA PartsAddUp ==
  ASSUME NEW U, IsFiniteSet(U), NEW S, NEW part \in [S -> SUBSET U],
         \A u \in U : \E x \in S : u \in part[x],
         \A x, y \in S : x # y => part[x] \cap part[y] = {},
         NEW n, \A x \in S : n[x] = Cardinality(part[x])
  PROVE  Cardinality(U) = Total(n, S)
<1>. DEFINE b == [x \in S |-> CHOOSE c : c \in Bijection(1 .. n[x], part[x])]
            h == [p \in Units(n, S) |-> b[p[1]][p[2]]]
<1>1. ASSUME NEW x \in S
      PROVE  /\ n[x] \in Nat
             /\ b[x] \in Bijection(1 .. n[x], part[x])
  <2>1. IsFiniteSet(part[x])
    BY FS_Subset
  <2>2. n[x] \in Nat /\ ExistsBijection(1 .. n[x], part[x])
    BY <2>1, FS_CardinalityType
  <2>. QED  BY <2>2 DEF ExistsBijection
<1>2. \A p \in Units(n, S) : p = <<p[1], p[2]>> /\ p[1] \in S /\ p[2] \in 1 .. n[p[1]]
  BY DEF Units
<1>3. \A x \in S : \A i \in 1 .. n[x] : <<x, i>> \in Units(n, S)
  BY DEF Units
<1>. HIDE DEF b
<1>4. \A p \in Units(n, S) : h[p] \in U /\ h[p] \in part[p[1]]
  <2>. SUFFICES ASSUME NEW p \in Units(n, S)
                PROVE  h[p] \in U /\ h[p] \in part[p[1]]
    OBVIOUS
  <2>1. b[p[1]] \in [1 .. n[p[1]] -> part[p[1]]]
    BY <1>1, <1>2 DEF Bijection, Injection
  <2>2. h[p] \in part[p[1]]
    BY <1>2, <2>1
  <2>. QED  BY <1>2, <2>2
<1>5. \A p, q \in Units(n, S) : h[p] = h[q] => p = q
  <2>. SUFFICES ASSUME NEW p \in Units(n, S), NEW q \in Units(n, S), h[p] = h[q]
                PROVE  p = q
    OBVIOUS
  <2>1. /\ p[1] \in S /\ q[1] \in S
        /\ h[p] \in part[p[1]] /\ h[p] \in part[q[1]]
    BY <1>2, <1>4
  <2>. HIDE DEF h
  <2>2. p[1] = q[1]
    BY <2>1
  <2>3. b[p[1]][p[2]] = b[p[1]][q[2]]
    BY <2>2 DEF h
  <2>4. p[2] = q[2]
    BY <1>1, <1>2, <2>2, <2>3 DEF Bijection, Injection, IsInjective
  <2>. QED  BY <1>2, <2>2, <2>4
<1>6. \A u \in U : \E p \in Units(n, S) : h[p] = u
  <2>. SUFFICES ASSUME NEW u \in U
                PROVE  \E p \in Units(n, S) : h[p] = u
    OBVIOUS
  <2>1. PICK x \in S : u \in part[x]
    OBVIOUS
  <2>2. PICK i \in 1 .. n[x] : b[x][i] = u
    BY <1>1, <2>1 DEF Bijection, Surjection
  <2>3. <<x, i>> \in Units(n, S)
    BY <1>3, <2>1
  <2>4. h[<<x, i>>] = u
    BY <2>2, <2>3
  <2>. QED  BY <2>3, <2>4
<1>7. h \in [Units(n, S) -> U]
  BY <1>4
<1>8. h \in Bijection(Units(n, S), U)
  <2>. HIDE DEF h
  <2>1. h \in Injection(Units(n, S), U)
    BY <1>5, <1>7 DEF Injection, IsInjective
  <2>2. h \in Surjection(Units(n, S), U)
    BY <1>6, <1>7 DEF Surjection
  <2>. QED  BY <2>1, <2>2 DEF Bijection
<1>9. Cardinality(Units(n, S)) = Cardinality(U)
  <2>. HIDE DEF h
  <2>1. h \in Injection(Units(n, S), U) /\ h \in Surjection(Units(n, S), U)
    BY <1>8 DEF Bijection
  <2>. QED  BY <2>1, FS_Injection
<1>. QED  BY <1>9 DEF Total

(* A total may be taken part by part.                                      *)
LEMMA TotalByParts ==
  ASSUME NEW D, IsFiniteSet(D), NEW f, \A d \in D : f[d] \in Nat,
         NEW S, NEW part \in [S -> SUBSET D],
         \A d \in D : \E x \in S : d \in part[x],
         \A x, y \in S : x # y => part[x] \cap part[y] = {},
         NEW n, \A x \in S : n[x] = Total(f, part[x])
  PROVE  Total(f, D) = Total(n, S)
<1>. DEFINE U == Units(f, D)
            units == [x \in S |-> Units(f, part[x])]
<1>1. IsFiniteSet(U) /\ Total(f, D) = Cardinality(U)
  BY TotalType DEF Total
<1>2. \A u \in U : \E x \in S : u \in units[x]
  BY DEF Units
<1>3. units \in [S -> SUBSET U]
  BY DEF Units
<1>4. \A x, y \in S : x # y => units[x] \cap units[y] = {}
  BY DEF Units
<1>5. \A x \in S : n[x] = Cardinality(units[x])
  BY DEF Total
<1>. HIDE DEF U, units
<1>6. Cardinality(U) = Total(n, S)
  BY <1>1, <1>2, <1>3, <1>4, <1>5, PartsAddUp
<1>. QED  BY <1>1, <1>6

(* A total of multiples is the multiple of the total.                      *)
LEMMA TotalScaled ==
  ASSUME NEW S, IsFiniteSet(S), NEW f, \A x \in S : f[x] \in Nat, NEW c \in Nat,
         NEW g, \A x \in S : g[x] = f[x] * c
  PROVE  Total(g, S) = Total(f, S) * c
<1>. DEFINE C == 1 .. c
            U == Units(f, S) \X C
            own == [x \in S |-> {x} \X (1 .. f[x])]
            units == [x \in S |-> own[x] \X C]
<1>1. IsFiniteSet(C) /\ Cardinality(C) = c
  BY FS_Interval
<1>2. IsFiniteSet(Units(f, S)) /\ Total(f, S) = Cardinality(Units(f, S))
  BY TotalType DEF Total
<1>3. IsFiniteSet(U) /\ Cardinality(U) = Total(f, S) * c
  <2>. HIDE DEF C
  <2>. QED  BY <1>1, <1>2, FS_Product
<1>. HIDE DEF C
<1>4. \A u \in U : \E x \in S : u \in units[x]
  BY DEF Units
<1>5. units \in [S -> SUBSET U]
  BY DEF Units
<1>6. \A x, y \in S : x # y => units[x] \cap units[y] = {}
  <2>1. ASSUME NEW x \in S, NEW y \in S, NEW u \in units[x], u \in units[y]
        PROVE  x = y
    <3>1. u[1][1] = x /\ u[1][1] = y
      BY <2>1
    <3>. QED  BY <3>1
  <2>. HIDE DEF units
  <2>. QED  BY <2>1
<1>7. ASSUME NEW x \in S
      PROVE  g[x] = Cardinality(units[x])
  <2>1. f[x] \in Nat
    OBVIOUS
  <2>2. IsFiniteSet(own[x]) /\ Cardinality(own[x]) = f[x]
    BY <2>1, OwnUnits
  <2>3. units[x] = own[x] \X C
    OBVIOUS
  <2>4. Cardinality(own[x] \X C) = f[x] * c
    <3>. DEFINE W == own[x]
    <3>1. IsFiniteSet(W) /\ Cardinality(W) = f[x]
      BY <2>2
    <3>. HIDE DEF W, own, units
    <3>2. Cardinality(W \X C) = Cardinality(W) * Cardinality(C)
      BY <1>1, <3>1, FS_Product
    <3>. QED  BY <1>1, <3>1, <3>2 DEF W
  <2>. QED  BY <2>3, <2>4
<1>. HIDE DEF U, units
<1>8. Cardinality(U) = Total(g, S)
  BY <1>3, <1>4, <1>5, <1>6, <1>7, PartsAddUp
<1>. QED  BY <1>3, <1>8

(* A set of naturals has a least member: what holds of the first number,   *)
(* and of each number behind one it holds of, has no least exception.      *)
LEMMA LeastExists ==
  ASSUME NEW T \in SUBSET Nat, T # {}
  PROVE  \E x \in T : \A y \in T : x <= y
<1>. DEFINE R == OpToRel(<, Nat)
<1>1. \E x \in T : \A y \in T : ~ (<<y, x>> \in R)
  BY NatLessThanWellFounded, WFMin
<1>2. PICK x \in T : \A y \in T : ~ (<<y, x>> \in R)
  BY <1>1
<1>. HIDE DEF R
<1>3. ASSUME NEW y \in T PROVE x <= y
  <2>1. x \in Nat /\ y \in Nat
    OBVIOUS
  <2>2. y < x => <<y, x>> \in R
    BY <2>1 DEF R, OpToRel
  <2>. QED  BY <1>2, <2>1, <2>2
<1>. QED  BY <1>3

(* Of finitely many places one has a greatest value: the one with the      *)
(* fewest values at least as great.                                        *)
LEMMA GreatestExists ==
  ASSUME NEW T, IsFiniteSet(T), T # {}, NEW q \in [T -> Nat]
  PROVE  \E k \in T : \A j \in T : q[j] <= q[k]
<1>. DEFINE above == [k \in T |-> {j \in T : q[j] >= q[k]}]
            counts == {Cardinality(above[k]) : k \in T}
<1>1. \A k \in T : /\ above[k] \in SUBSET T
                   /\ IsFiniteSet(above[k]) /\ Cardinality(above[k]) \in Nat
  BY FS_Subset, FS_CardinalityType
<1>2. counts \in SUBSET Nat /\ counts # {}
  BY <1>1
<1>3. PICK k \in T : \A i \in T : Cardinality(above[k]) <= Cardinality(above[i])
  <2>. HIDE DEF counts
  <2>1. \E x \in counts : \A y \in counts : x <= y
    BY <1>2, LeastExists
  <2>. HIDE DEF above
  <2>. QED  BY <2>1 DEF counts
<1>4. ASSUME NEW j \in T  PROVE q[j] <= q[k]
  <2>1. SUFFICES ASSUME q[k] < q[j]  PROVE FALSE
    OBVIOUS
  <2>2. k \in above[k] /\ k \notin above[j]
    BY <2>1
  <2>3. above[j] \subseteq above[k]
    BY <2>1
  <2>. HIDE DEF above, counts
  <2>4. above[j] # above[k] /\ above[j] \in SUBSET above[k]
    BY <2>2, <2>3
  <2>5. Cardinality(above[j]) <= Cardinality(above[k])
        /\ Cardinality(above[j]) # Cardinality(above[k])
    BY <1>1, <2>4, FS_Subset
  <2>. QED  BY <1>1, <1>3, <2>5
<1>. QED  BY <1>4

(* What holds at zero and passes from each number to the next holds up to  *)
(* the bound.                                                              *)
LEMMA UpTo ==
  ASSUME NEW N \in Nat, NEW T, 0 \in T, \A n \in 1 .. N : n - 1 \in T => n \in T
  PROVE  \A n \in 0 .. N : n \in T
<1>. DEFINE Bad == (0 .. N) \ T
<1>1. SUFFICES ASSUME Bad # {} PROVE FALSE
  OBVIOUS
<1>2. Bad \in SUBSET Nat
  OBVIOUS
<1>3. PICK n \in Bad : \A m \in Bad : n <= m
  <2>. HIDE DEF Bad
  <2>. QED  BY <1>1, <1>2, LeastExists
<1>4. n \in 1 .. N /\ n - 1 \in 0 .. N /\ ~(n <= n - 1)
  OBVIOUS
<1>5. n - 1 \in T
  BY <1>3, <1>4
<1>. QED  BY <1>4, <1>5

(* A function defined by its first value and by steps exists.              *)
StepsIn(S, N) == [(1 .. N) \X S -> S]
Follows(f, base, step, N) ==
    f[0] = base /\ \A n \in 1 .. N : f[n] = step[<<n, f[n - 1]>>]

LEMMA StepsExist ==
  ASSUME NEW S, NEW base \in S, NEW N \in Nat, NEW step \in StepsIn(S, N)
  PROVE  \E f \in [0 .. N -> S] : Follows(f, base, step, N)
<1>. USE DEF StepsIn
<1>. DEFINE Defines(f, m) == f[0] = base /\ \A n \in 1 .. m : f[n] = step[<<n, f[n - 1]>>]
            T == {m \in 0 .. N : \E f \in [0 .. m -> S] : Defines(f, m)}
<1>1. 0 \in T
  <2>. DEFINE f == [n \in 0 .. 0 |-> base]
  <2>1. f \in [0 .. 0 -> S] /\ Defines(f, 0)
    OBVIOUS
  <2>2. \E h \in [0 .. 0 -> S] : Defines(h, 0)
    BY <2>1
  <2>3. 0 \in 0 .. N
    OBVIOUS
  <2>. HIDE DEF Defines
  <2>. QED  BY <2>2, <2>3
<1>2. ASSUME NEW m \in 1 .. N, m - 1 \in T
      PROVE  m \in T
  <2>1. PICK f \in [0 .. m - 1 -> S] : Defines(f, m - 1)
    BY <1>2
  <2>. DEFINE g == [n \in 0 .. m |-> IF n = m THEN step[<<m, f[m - 1]>>] ELSE f[n]]
  <2>2. m - 1 \in 0 .. m - 1 /\ f[m - 1] \in S /\ step[<<m, f[m - 1]>>] \in S
    OBVIOUS
  <2>3. \A n \in 0 .. m : n = m \/ n \in 0 .. m - 1
    OBVIOUS
  <2>4. g \in [0 .. m -> S]
    BY <2>2, <2>3
  <2>5. g[m] = step[<<m, f[m - 1]>>] /\ \A n \in 0 .. m - 1 : g[n] = f[n]
    OBVIOUS
  <2>. HIDE DEF g
  <2>6. g[0] = base
    BY <2>1, <2>5
  <2>7. ASSUME NEW n \in 1 .. m
        PROVE  g[n] = step[<<n, g[n - 1]>>]
    <3>1. n - 1 \in 0 .. m - 1 /\ g[n - 1] = f[n - 1]
      BY <2>5
    <3>2. CASE n = m
      BY <2>5, <3>1, <3>2
    <3>3. CASE n # m
      <4>1. n \in 1 .. m - 1 /\ n \in 0 .. m - 1
        BY <3>3
      <4>. QED  BY <2>1, <2>5, <3>1, <4>1
    <3>. QED  BY <3>2, <3>3
  <2>. QED  BY <2>4, <2>6, <2>7
<1>. HIDE DEF T
<1>3. \A n \in 0 .. N : n \in T
  BY <1>1, <1>2, UpTo
<1>4. N \in 0 .. N
  OBVIOUS
<1>. QED  BY <1>3, <1>4 DEF T, Follows

(* A finite set in strict total order is counted by the number of          *)
(* predecessors, without a gap and without a tie.                          *)
LEMMA RanksCount ==
  ASSUME NEW S, IsFiniteSet(S), NEW P \in [S -> SUBSET S],
         \A e \in S : e \notin P[e],
         \A e, f \in S : e \in P[f] => P[e] \subseteq P[f],
         \A e, f \in S : e = f \/ e \in P[f] \/ f \in P[e]
  PROVE  /\ \A e \in S : Cardinality(P[e]) \in 0 .. Cardinality(S) - 1
         /\ \A e, f \in S : e \in P[f] => Cardinality(P[e]) < Cardinality(P[f])
         /\ \A i \in 1 .. Cardinality(S) : \E e \in S : Cardinality(P[e]) = i - 1
<1>. DEFINE n == Cardinality(S)
            rank == [e \in S |-> Cardinality(P[e])]
<1>1. n \in Nat
  BY FS_CardinalityType
<1>2. ASSUME NEW e \in S
      PROVE  IsFiniteSet(P[e]) /\ rank[e] \in Nat /\ rank[e] < n
  <2>1. P[e] \in SUBSET S /\ P[e] # S
    OBVIOUS
  <2>2. IsFiniteSet(P[e]) /\ Cardinality(P[e]) <= n /\ Cardinality(P[e]) # n
    BY <2>1, FS_Subset
  <2>3. Cardinality(P[e]) \in Nat
    BY <2>2, FS_CardinalityType
  <2>. QED  BY <1>1, <2>2, <2>3
<1>3. ASSUME NEW e \in S, NEW f \in S, e \in P[f]
      PROVE  rank[e] < rank[f]
  <2>1. P[e] \in SUBSET P[f] /\ P[e] # P[f]
    BY <1>3
  <2>2. Cardinality(P[e]) <= Cardinality(P[f]) /\ Cardinality(P[e]) # Cardinality(P[f])
    BY <1>2, <2>1, FS_Subset
  <2>. QED  BY <1>2, <2>2
<1>4. rank \in Injection(S, 0 .. n - 1)
  <2>1. rank \in [S -> 0 .. n - 1]
    BY <1>1, <1>2
  <2>2. \A e, f \in S : rank[e] = rank[f] => e = f
    BY <1>2, <1>3
  <2>. HIDE DEF rank
  <2>. QED  BY <2>1, <2>2 DEF Injection, IsInjective
<1>5. IsFiniteSet(0 .. n - 1) /\ Cardinality(0 .. n - 1) = n
  <2>. DEFINE m == n - 1
  <2>1. m \in Int /\ m + 1 = n /\ ~(0 > m /\ n # 0)
    BY <1>1
  <2>. HIDE DEF m, n
  <2>2. IsFiniteSet(0 .. m) /\ Cardinality(0 .. m) = (IF 0 > m THEN 0 ELSE m - 0 + 1)
    BY <2>1, FS_Interval
  <2>3. Cardinality(0 .. m) = n
    BY <1>1, <2>1, <2>2
  <2>. QED  BY <2>2, <2>3 DEF m
<1>6. rank \in Surjection(S, 0 .. n - 1)
  <2>. HIDE DEF rank
  <2>. QED  BY <1>4, <1>5, FS_Injection
<1>7. \A i \in 0 .. n - 1 : \E e \in S : rank[e] = i
  <2>. HIDE DEF rank
  <2>. QED  BY <1>6 DEF Surjection
<1>8. \A i \in 1 .. n : i - 1 \in 0 .. n - 1
  BY <1>1
<1>. QED  BY <1>1, <1>2, <1>3, <1>7, <1>8

LEMMA OneTo ==
  ASSUME NEW k \in Nat
  PROVE  IsFiniteSet(1 .. k) /\ Cardinality(1 .. k) = k
<1>1. CASE k = 0
  <2>1. 1 .. k = {}
    BY <1>1
  <2>. QED  BY <1>1, <2>1, FS_EmptySet
<1>2. CASE k > 0
  BY <1>2, FS_Interval
<1>. QED  BY <1>1, <1>2

(* So a sequence that puts each element at its rank lists all of them, in  *)
(* their order.                                                            *)
LEMMA RankedListsAll ==
  ASSUME NEW S, IsFiniteSet(S), NEW P \in [S -> SUBSET S],
         \A e \in S : e \notin P[e],
         \A e, f \in S : e \in P[f] => P[e] \subseteq P[f],
         \A e, f \in S : e = f \/ e \in P[f] \/ f \in P[e],
         NEW Q, \A i \in 1 .. Cardinality(S) : Q[i] \in S /\ Cardinality(P[Q[i]]) = i - 1
  PROVE  /\ \A e \in S, i \in 1 .. Cardinality(S) : Cardinality(P[e]) = i - 1 => Q[i] = e
         /\ \A e \in S : \E i \in 1 .. Cardinality(S) : Q[i] = e
         /\ \A i, j \in 1 .. Cardinality(S) : i < j => Q[i] \in P[Q[j]]
<1>. DEFINE n == Cardinality(S)
<1>1. n \in Nat
  BY FS_CardinalityType
<1>2. /\ \A e \in S : Cardinality(P[e]) \in 0 .. n - 1
      /\ \A e, f \in S : e \in P[f] => Cardinality(P[e]) < Cardinality(P[f])
  BY RanksCount
<1>. HIDE DEF n
<1>3. \A e \in S, i \in 1 .. n : Cardinality(P[e]) = i - 1 => Q[i] = e
  BY <1>1, <1>2 DEF n
<1>4. ASSUME NEW e \in S
      PROVE  \E i \in 1 .. n : Q[i] = e
  <2>1. Cardinality(P[e]) + 1 \in 1 .. n
    BY <1>1, <1>2
  <2>. QED  BY <1>1, <1>2, <1>3, <2>1
<1>5. \A i, j \in 1 .. n : i < j => Q[i] \in P[Q[j]]
  BY <1>1, <1>2 DEF n
<1>. QED  BY <1>3, <1>4, <1>5 DEF n

(* The numbers that divide by c, and quotients by c.                       *)
LEMMA Multiples ==
  ASSUME NEW P \in Nat \ {0}
  PROVE  /\ \A o \in Nat : o % P = 0 => \E q \in Nat : o = q * P
         /\ \A q \in Nat : q * P \in Nat /\ (q * P) % P = 0 /\ (q + 1) * P = q * P + P
         /\ \A q, k \in Nat : q * P < k * P <=> q < k
<1>1. \A o \in Nat : o = (o \div P) * P + (o % P) /\ o \div P \in Nat
  OBVIOUS
<1>2. \A o \in Nat : o % P = 0 => \E q \in Nat : o = q * P
  <2>. SUFFICES ASSUME NEW o \in Nat, o % P = 0
                PROVE  \E q \in Nat : o = q * P
    OBVIOUS
  <2>1. o = (o \div P) * P /\ o \div P \in Nat
    BY <1>1
  <2>. QED  BY <2>1
<1>3. \A q \in Nat : q * P \in Nat /\ (q + 1) * P = q * P + P
  OBVIOUS
<1>4. \A q \in Nat : (q * P) % P = 0
  OBVIOUS
<1>5. ASSUME NEW q \in Nat, NEW k \in Nat
      PROVE  q * P < k * P <=> q < k
  OBVIOUS
<1>. QED  BY <1>2, <1>3, <1>4, <1>5

LEMMA Quotients ==
  ASSUME NEW c \in Nat \ {0}
  PROVE  /\ \A x \in Nat : x \div c \in Nat /\ (x \div c) * c <= x /\ x < (x \div c) * c + c
         /\ \A x, y \in Nat : x + c <= y => x \div c + 1 <= y \div c
         /\ \A x, y \in Nat : x <= y => x \div c <= y \div c
         /\ \A d \in Nat : (d * c) \div c = d /\ (d * 0) \div c = 0
<1>1. \A x \in Nat : x \div c \in Nat /\ (x \div c) * c <= x /\ x < (x \div c) * c + c
  OBVIOUS
<1>2. \A q, k \in Nat : q * c < k * c + c => q <= k
  <2>. SUFFICES ASSUME NEW q \in Nat, NEW k \in Nat, q * c < k * c + c, k < q
                PROVE  FALSE
    OBVIOUS
  <2>1. (k + 1) * c = k * c + c /\ ~(q < k + 1)
    BY Multiples
  <2>2. q = k + 1 \/ (k + 1) * c < q * c
    BY Multiples
  <2>. QED  BY <2>1, <2>2
<1>3. ASSUME NEW x \in Nat, NEW y \in Nat, x + c <= y
      PROVE  x \div c + 1 <= y \div c
  <2>. DEFINE q == x \div c
              k == y \div c
  <2>1. q \in Nat /\ k \in Nat /\ q * c <= x /\ y < k * c + c /\ q * c \in Nat /\ k * c \in Nat
    BY <1>1
  <2>. HIDE DEF q, k
  <2>2. (q + 1) * c = q * c + c
    BY <2>1, Multiples
  <2>3. (q + 1) * c < k * c + c /\ q + 1 \in Nat
    BY <1>3, <2>1, <2>2
  <2>4. q + 1 <= k
    BY <1>2, <2>1, <2>3
  <2>. QED  BY <2>4 DEF q, k
<1>4. ASSUME NEW x \in Nat, NEW y \in Nat, x <= y
      PROVE  x \div c <= y \div c
  <2>. DEFINE q == x \div c
              k == y \div c
  <2>1. q \in Nat /\ k \in Nat /\ q * c <= x /\ y < k * c + c /\ q * c \in Nat /\ k * c \in Nat
    BY <1>1
  <2>. HIDE DEF q, k
  <2>2. q * c < k * c + c
    BY <1>4, <2>1
  <2>3. q <= k
    BY <1>2, <2>1, <2>2
  <2>. QED  BY <2>3 DEF q, k
<1>5. ASSUME NEW d \in Nat
      PROVE  (d * c) \div c = d /\ (d * 0) \div c = 0
  OBVIOUS
<1>. QED  BY <1>1, <1>3, <1>4, <1>5
====
