---------------------------- MODULE ChronicleProofs ----------------------------
(***************************************************************************)
(* The chronicle, for any ledger, group size, limits, days and strides,    *)
(* however often a build is paused, killed and run again with another      *)
(* limit.  A merge of runs that are merges is the list of all their trades *)
(* in one order, so the stream a manifest names is exact; a database holds *)
(* passes from nothing over the first dates of its scopes, each over a     *)
(* file some limit left, and with one spread beside the whole ledger equal *)
(* row totals say that no date was another limit's.                        *)
(***************************************************************************)
EXTENDS Chronicle, TotalsProofs, SequenceTheorems

(***************************************************************************)
(* The chronicle: rows and their order.                                    *)
(***************************************************************************)

Keyed(t) == t.time \in Nat /\ t.id \in Nat
Listing(s) == Len(s) \in Nat /\ DOMAIN s = 1 .. Len(s)

(* Inputs of a merge: finitely many files of rows with time and identifier.*)
Mergeable(inputs) ==
    /\ IsFiniteSet(DOMAIN inputs)
    /\ \A i \in DOMAIN inputs : Listing(inputs[i]) /\ \A k \in DOMAIN inputs[i] : Keyed(inputs[i][k])

(* Rows are ordered by time, then by identifier.                           *)
LEMMA EarlierOrder ==
  ASSUME NEW t, NEW u, NEW v, Keyed(t), Keyed(u), Keyed(v)
  PROVE  /\ ~ Earlier(t, t)
         /\ Earlier(t, u) => ~ Earlier(u, t) /\ t.time <= u.time
         /\ Earlier(t, u) /\ Earlier(u, v) => Earlier(t, v)
         /\ ~ Earlier(t, u) /\ Earlier(t, v) => Earlier(u, v)
         /\ t.id # u.id => Earlier(t, u) \/ Earlier(u, t)
  BY DEF Earlier, Keyed

(* Some head comes before no other.                                        *)
LEMMA LeastHead ==
  ASSUME NEW W, W # {}, NEW head, \A i \in W : Keyed(head[i])
  PROVE  \E i \in W : \A j \in W : ~ Earlier(head[j], head[i])
<1>. DEFINE times == {head[i].time : i \in W}
<1>1. times \in SUBSET Nat /\ times # {}
  BY DEF Keyed
<1>2. PICK t \in times : \A y \in times : t <= y
  <2>. HIDE DEF times
  <2>. QED  BY <1>1, LeastExists
<1>. DEFINE ids == {head[i].id : i \in {i \in W : head[i].time = t}}
<1>3. ids \in SUBSET Nat /\ ids # {}
  BY DEF Keyed
<1>4. PICK d \in ids : \A y \in ids : d <= y
  <2>. HIDE DEF ids
  <2>. QED  BY <1>3, LeastExists
<1>5. PICK i \in W : head[i].time = t /\ head[i].id = d
  BY <1>4
<1>6. ASSUME NEW j \in W
      PROVE  ~ Earlier(head[j], head[i])
  <2>1. t <= head[j].time /\ head[j].time \in Nat /\ t \in Nat
    BY <1>1, <1>2 DEF Keyed
  <2>2. head[j].time = t => d <= head[j].id /\ head[j].id \in Nat /\ d \in Nat
    BY <1>3, <1>4 DEF Keyed
  <2>. QED  BY <1>5, <2>1, <2>2 DEF Earlier
<1>. QED  BY <1>6

(* The length of what is defined on an interval.                           *)
LEMMA LenOf ==
  ASSUME NEW n \in Nat, NEW f, DOMAIN f = 1 .. n, f = [i \in 1 .. n |-> f[i]]
  PROVE  Len(f) = n /\ Listing(f)
<1>1. f \in [1 .. n -> {f[i] : i \in 1 .. n}]
  OBVIOUS
<1>2. f \in Seq({f[i] : i \in 1 .. n}) /\ Len(f) = n
  BY <1>1
<1>. QED  BY <1>2 DEF Listing

(* There are as many places as rows.                                       *)
LEMMA PlacesCount ==
  ASSUME NEW inputs, Mergeable(inputs)
  PROVE  /\ IsFiniteSet(Places(inputs)) /\ Cardinality(Places(inputs)) \in Nat
         /\ \A i, k : <<i, k>> \in Places(inputs)
                        <=> i \in DOMAIN inputs /\ k \in 1 .. Len(inputs[i])
         /\ \A p \in Places(inputs) : p = <<p[1], p[2]>>
         /\ Cardinality(Places(inputs))
              = Total([i \in DOMAIN inputs |-> Len(inputs[i])], DOMAIN inputs)
<1>. DEFINE f == [i \in DOMAIN inputs |-> Len(inputs[i])]
            D == DOMAIN inputs
<1>1. Places(inputs) = Units(f, D)
  BY DEF Places, Units, Mergeable, Listing
<1>2. \A x \in D : f[x] \in Nat
  BY DEF Mergeable, Listing
<1>3. IsFiniteSet(D)
  BY DEF Mergeable
<1>. HIDE DEF f, D
<1>4. IsFiniteSet(Units(f, D)) /\ Total(f, D) \in Nat
  BY <1>2, <1>3, TotalType
<1>5. \A i, k : <<i, k>> \in Places(inputs) <=> i \in DOMAIN inputs /\ k \in 1 .. Len(inputs[i])
  BY DEF Places, Mergeable, Listing
<1>6. \A p \in Places(inputs) : p = <<p[1], p[2]>>
  BY DEF Places
<1>. QED  BY <1>1, <1>4, <1>5, <1>6 DEF Total, f, D

(***************************************************************************)
(* What a merge has given after each row, and what comes next.             *)
(***************************************************************************)
Advance(inputs, g) == [g EXCEPT ![NextInput(inputs, g)] = @ + 1]
Waiting(inputs, g) == {i \in DOMAIN inputs : g[i] < Len(inputs[i])}

(* What each input has given goes up by one row of the next input at a     *)
(* time.                                                                   *)
LEMMA GivenSteps ==
  ASSUME NEW inputs, Mergeable(inputs)
  PROVE  /\ Given(inputs) \in [0 .. Cardinality(Places(inputs)) -> [DOMAIN inputs -> Nat]]
         /\ Given(inputs)[0] = [i \in DOMAIN inputs |-> 0]
         /\ \A n \in 1 .. Cardinality(Places(inputs)) :
               Given(inputs)[n] = Advance(inputs, Given(inputs)[n - 1])
<1>. DEFINE N == Cardinality(Places(inputs))
            S == [DOMAIN inputs -> Nat]
            base == [i \in DOMAIN inputs |-> 0]
            step == [q \in (1 .. N) \X S |-> Advance(inputs, q[2])]
            Body(f) == [n \in 0 .. N |-> IF n = 0 THEN base ELSE Advance(inputs, f[n - 1])]
<1>1. N \in Nat
  BY PlacesCount
<1>2. base \in S
  OBVIOUS
<1>3. ASSUME NEW g \in S
      PROVE  Advance(inputs, g) \in S
  <2>. DEFINE e == NextInput(inputs, g)
  <2>1. Advance(inputs, g) = [g EXCEPT ![e] = @ + 1]
    BY DEF Advance
  <2>. HIDE DEF e
  <2>2. [g EXCEPT ![e] = @ + 1] = [i \in DOMAIN inputs |-> IF i = e THEN g[i] + 1 ELSE g[i]]
    OBVIOUS
  <2>3. [i \in DOMAIN inputs |-> IF i = e THEN g[i] + 1 ELSE g[i]] \in S
    OBVIOUS
  <2>. HIDE DEF S
  <2>. QED  BY <2>1, <2>2, <2>3
<1>. HIDE DEF S, N, base
<1>4. step \in StepsIn(S, N)
  BY <1>3 DEF StepsIn
<1>5. \A n \in 1 .. N, g \in S : step[<<n, g>>] = Advance(inputs, g)
  OBVIOUS
<1>. HIDE DEF step
<1>6. PICK f \in [0 .. N -> S] : Follows(f, base, step, N)
  BY <1>1, <1>2, <1>4, StepsExist
<1>7. \A n \in 0 .. N : n = 0 \/ (n \in 1 .. N /\ n - 1 \in 0 .. N /\ f[n - 1] \in S)
  BY <1>1, <1>6
<1>8. \A n \in 0 .. N : f[n] = IF n = 0 THEN base ELSE Advance(inputs, f[n - 1])
  BY <1>5, <1>6, <1>7 DEF Follows
<1>9. f = Body(f)
  BY <1>6, <1>8
<1>. DEFINE F == CHOOSE h : h = Body(h)
<1>10. F = Body(F)
  <2>. HIDE DEF Body
  <2>. QED  BY <1>9
<1>11. Given(inputs) = F
  BY DEF Given, F, N, base, Advance
<1>. HIDE DEF F
<1>12. F[0] = base /\ \A n \in 1 .. N : F[n] = Advance(inputs, F[n - 1])
  <2>1. 0 \in 0 .. N /\ \A n \in 1 .. N : n \in 0 .. N /\ n # 0
    BY <1>1
  <2>2. \A n \in 0 .. N : F[n] = IF n = 0 THEN base ELSE Advance(inputs, F[n - 1])
    BY <1>10
  <2>. QED  BY <2>1, <2>2
<1>13. \A n \in 0 .. N : F[n] \in S
  <2>. DEFINE T == {n \in 0 .. N : F[n] \in S}
  <2>1. 0 \in T
    BY <1>1, <1>2, <1>12
  <2>2. \A n \in 1 .. N : n - 1 \in T => n \in T
    BY <1>3, <1>12
  <2>. HIDE DEF T
  <2>3. \A n \in 0 .. N : n \in T
    BY <1>1, <2>1, <2>2, UpTo
  <2>. QED  BY <2>3 DEF T
<1>14. F \in [0 .. N -> S]
  BY <1>10, <1>13
<1>. QED  BY <1>11, <1>12, <1>14 DEF N, S, base

(* The next input is one that waits, and no other head comes before its.   *)
LEMMA NextIsLeast ==
  ASSUME NEW inputs, Mergeable(inputs), NEW g \in [DOMAIN inputs -> Nat], Waiting(inputs, g) # {}
  PROVE  /\ NextInput(inputs, g) \in Waiting(inputs, g)
         /\ \A j \in Waiting(inputs, g) :
               LET i == NextInput(inputs, g)
               IN ~ Earlier(inputs[j][g[j] + 1], inputs[i][g[i] + 1])
<1>. DEFINE W == Waiting(inputs, g)
            head == [i \in W |-> inputs[i][g[i] + 1]]
            Least(i) == \A j \in W : ~ Earlier(head[j], head[i])
<1>1. \A i \in W : Keyed(head[i])
  BY DEF Mergeable, Listing, Waiting
<1>2. \E i \in W : Least(i)
  <2>. HIDE DEF W, head
  <2>. QED  BY <1>1, LeastHead DEF W
<1>3. NextInput(inputs, g) = CHOOSE i \in W : Least(i)
  BY DEF NextInput, Waiting
<1>4. NextInput(inputs, g) \in W /\ Least(NextInput(inputs, g))
  <2>. HIDE DEF W, Least
  <2>. QED  BY <1>2, <1>3
<1>. QED  BY <1>4

(* What is merged: the n-th row is the at[n]-th row of the input src[n].   *)
(* Each row of each input has its place, an input's rows keep their order, *)
(* and a row that comes while another input waits is followed by a row of  *)
(* that input that is not earlier.                                         *)
Merges(inputs, out, src, at) ==
    /\ Listing(out) /\ Len(out) = Cardinality(Places(inputs))
    /\ \A n \in DOMAIN out : /\ src[n] \in DOMAIN inputs /\ at[n] \in DOMAIN inputs[src[n]]
                             /\ out[n] = inputs[src[n]][at[n]]
    /\ \A m, n \in DOMAIN out : m < n /\ src[m] = src[n] => at[m] < at[n]
    /\ \A p \in Places(inputs) : \E n \in DOMAIN out : <<src[n], at[n]>> = p
    /\ \A m, n \in DOMAIN out : m < n /\ src[m] # src[n] =>
          \E l \in DOMAIN out : /\ m < l /\ l <= n /\ src[l] = src[n]
                                /\ ~ Earlier(out[l], out[m])

(* A merge gives every row of every input once, each input's in its own    *)
(* order, and never a row while an earlier one is at the head of another   *)
(* input.                                                                  *)
LEMMA MergeIsStepwise ==
  ASSUME NEW inputs, Mergeable(inputs)
  PROVE  \E src, at : Merges(inputs, Merge(inputs), src, at)
<1>. DEFINE D == DOMAIN inputs
            N == Cardinality(Places(inputs))
            g == Given(inputs)
            src == [n \in 1 .. N |-> NextInput(inputs, g[n - 1])]
            at == [n \in 1 .. N |-> g[n - 1][src[n]] + 1]
            out == Merge(inputs)
            em == [n \in 1 .. N |-> <<src[n], at[n]>>]
            Reached(n) == \A i \in D : \A k \in 1 .. g[n][i] : \E m \in 1 .. n : em[m] = <<i, k>>
            Within(n) == \A i \in D : g[n][i] <= Len(inputs[i])
            T == {n \in 0 .. N : Reached(n) /\ Within(n)}
<1>1. N \in Nat /\ IsFiniteSet(Places(inputs))
  BY PlacesCount
<1>2. /\ \A n \in 0 .. N : g[n] \in [D -> Nat]
      /\ g[0] = [i \in D |-> 0]
      /\ \A n \in 1 .. N : g[n] = [g[n - 1] EXCEPT ![src[n]] = @ + 1]
  <2>1. \A n \in 1 .. N : Advance(inputs, g[n - 1]) = [g[n - 1] EXCEPT ![src[n]] = @ + 1]
    BY DEF Advance
  <2>. HIDE DEF src
  <2>. QED  BY <2>1, GivenSteps
<1>3. out = [n \in 1 .. N |-> inputs[src[n]][at[n]]]
  <2>1. \A n \in 1 .. N : LET i == NextInput(inputs, g[n - 1]) IN
             inputs[i][g[n - 1][i] + 1] = inputs[src[n]][at[n]]
    OBVIOUS
  <2>. HIDE DEF src, at
  <2>. QED  BY <2>1 DEF Merge
<1>4. \A n \in 1 .. N : n - 1 \in 0 .. N /\ n \in 0 .. N /\ em[n] = <<src[n], at[n]>>
                        /\ at[n] = g[n - 1][src[n]] + 1
  BY <1>1
<1>5. \A i \in D : Listing(inputs[i])
  BY DEF Mergeable
<1>6. \A n \in 1 .. N : Waiting(inputs, g[n - 1]) # {} =>
         /\ src[n] \in D /\ at[n] \in DOMAIN inputs[src[n]]
         /\ \A j \in D : g[n - 1][j] < Len(inputs[j]) =>
               ~ Earlier(inputs[j][g[n - 1][j] + 1], inputs[src[n]][at[n]])
  <2>. SUFFICES ASSUME NEW n \in 1 .. N, Waiting(inputs, g[n - 1]) # {}
                PROVE  /\ src[n] \in D /\ at[n] \in DOMAIN inputs[src[n]]
                       /\ \A j \in D : g[n - 1][j] < Len(inputs[j]) =>
                            ~ Earlier(inputs[j][g[n - 1][j] + 1], inputs[src[n]][at[n]])
    OBVIOUS
  <2>. DEFINE h == g[n - 1]
  <2>1. h \in [D -> Nat]
    BY <1>2, <1>4
  <2>2. src[n] = NextInput(inputs, h) /\ at[n] = h[src[n]] + 1
    BY <1>4
  <2>. HIDE DEF h, src, at, g
  <2>3. /\ src[n] \in Waiting(inputs, h)
        /\ \A j \in Waiting(inputs, h) : ~ Earlier(inputs[j][h[j] + 1], inputs[src[n]][at[n]])
    BY <2>1, <2>2, NextIsLeast DEF h
  <2>. QED  BY <1>5, <2>1, <2>2, <2>3 DEF Waiting, Listing, h
<1>. HIDE DEF src, at, g, em
<1>7. 0 \in T
  BY <1>1, <1>2, <1>5 DEF Listing
<1>8. \A i, k : <<i, k>> \in Places(inputs) <=> i \in D /\ k \in 1 .. Len(inputs[i])
  BY PlacesCount
<1>8a. \A p \in Places(inputs) : p = <<p[1], p[2]>>
  BY PlacesCount
<1>9. \A n \in 1 .. N : n - 1 \in T => Waiting(inputs, g[n - 1]) # {}
  <2>. SUFFICES ASSUME NEW n \in 1 .. N, n - 1 \in T, Waiting(inputs, g[n - 1]) = {}
                PROVE  FALSE
    OBVIOUS
  <2>. DEFINE image == {em[m] : m \in 1 .. n - 1}
  <2>1. Places(inputs) \subseteq image
    <3>. SUFFICES ASSUME NEW p \in Places(inputs)
                  PROVE  p \in image
      OBVIOUS
    <3>1. p[1] \in D /\ p[2] \in 1 .. Len(inputs[p[1]]) /\ p = <<p[1], p[2]>>
      BY <1>8, <1>8a
    <3>2. p[2] \in 1 .. g[n - 1][p[1]]
      BY <1>2, <1>4, <1>5, <3>1 DEF Waiting, Listing
    <3>. QED  BY <3>1, <3>2
  <2>2. n - 1 \in Nat /\ n - 1 < N
    BY <1>1
  <2>3. IsFiniteSet(image) /\ Cardinality(image) <= n - 1
    <3>1. IsFiniteSet(1 .. n - 1) /\ Cardinality(1 .. n - 1) = n - 1
      BY <2>2, OneTo
    <3>. DEFINE I == 1 .. n - 1
                f == [m \in I |-> em[m]]
    <3>2. f \in Surjection(I, image)
      BY DEF Surjection
    <3>. HIDE DEF I, f, image
    <3>. QED  BY <3>1, <3>2, FS_Surjection DEF I
  <2>. HIDE DEF image
  <2>4. N <= Cardinality(image) /\ Cardinality(image) \in Nat
    BY <2>1, <2>3, FS_Subset, FS_CardinalityType
  <2>. QED  BY <1>1, <2>2, <2>3, <2>4
<1>10. \A n \in 1 .. N : n - 1 \in T => n \in T
  <2>. SUFFICES ASSUME NEW n \in 1 .. N, n - 1 \in T
                PROVE  n \in T
    OBVIOUS
  <2>1. src[n] \in D /\ at[n] \in 1 .. Len(inputs[src[n]]) /\ at[n] = g[n - 1][src[n]] + 1
    BY <1>4, <1>5, <1>6, <1>9 DEF Listing
  <2>2. g[n - 1] \in [D -> Nat] /\ g[n] = [g[n - 1] EXCEPT ![src[n]] = @ + 1]
    BY <1>2, <1>4
  <2>3. \A i \in D : g[n][i] = IF i = src[n] THEN at[n] ELSE g[n - 1][i]
    BY <2>1, <2>2
  <2>4. Within(n)
    <3>. SUFFICES ASSUME NEW i \in D
                  PROVE  g[n][i] <= Len(inputs[i])
      OBVIOUS
    <3>1. g[n - 1][i] <= Len(inputs[i])
      OBVIOUS
    <3>. QED  BY <2>1, <2>3, <3>1
  <2>5. Reached(n)
    <3>. SUFFICES ASSUME NEW i \in D, NEW k \in 1 .. g[n][i]
                  PROVE  \E m \in 1 .. n : em[m] = <<i, k>>
      OBVIOUS
    <3>1. CASE i = src[n] /\ k = at[n]
      BY <1>4, <3>1
    <3>2. CASE ~ (i = src[n] /\ k = at[n])
      <4>1. k \in 1 .. g[n - 1][i]
        BY <2>1, <2>2, <2>3, <3>2
      <4>2. PICK m \in 1 .. n - 1 : em[m] = <<i, k>>
        BY <4>1
      <4>. QED  BY <4>2
    <3>. QED  BY <3>1, <3>2
  <2>6. n \in 0 .. N
    BY <1>4
  <2>. HIDE DEF Within, Reached
  <2>. QED  BY <2>4, <2>5, <2>6
<1>11. \A n \in 0 .. N : n \in T
  <2>. HIDE DEF T
  <2>. QED  BY <1>1, <1>7, <1>10, UpTo
<1>12. \A n \in 1 .. N : /\ src[n] \in D /\ at[n] \in DOMAIN inputs[src[n]]
                         /\ \A j \in D : g[n - 1][j] < Len(inputs[j]) =>
                               ~ Earlier(inputs[j][g[n - 1][j] + 1], out[n])
                         /\ \A i \in D : g[n][i] = IF i = src[n] THEN at[n] ELSE g[n - 1][i]
  <2>. SUFFICES ASSUME NEW n \in 1 .. N
                PROVE  /\ src[n] \in D /\ at[n] \in DOMAIN inputs[src[n]]
                       /\ \A j \in D : g[n - 1][j] < Len(inputs[j]) =>
                               ~ Earlier(inputs[j][g[n - 1][j] + 1], out[n])
                       /\ \A i \in D : g[n][i] = IF i = src[n] THEN at[n] ELSE g[n - 1][i]
    OBVIOUS
  <2>1. Waiting(inputs, g[n - 1]) # {} /\ out[n] = inputs[src[n]][at[n]]
    BY <1>3, <1>4, <1>9, <1>11
  <2>2. src[n] \in D /\ g[n - 1] \in [D -> Nat] /\ g[n] = [g[n - 1] EXCEPT ![src[n]] = @ + 1]
    BY <1>2, <1>4, <1>6, <2>1
  <2>. HIDE DEF D, T
  <2>. QED  BY <1>4, <1>6, <2>1, <2>2
<1>13. \A m \in 0 .. N : \A n \in 0 .. N : \A i \in D : m <= n => g[m][i] <= g[n][i]
  <2>. SUFFICES ASSUME NEW m \in 0 .. N, NEW i \in D
                PROVE  \A n \in 0 .. N : m <= n => g[m][i] <= g[n][i]
    OBVIOUS
  <2>. DEFINE U == {n \in 0 .. N : m <= n => g[m][i] <= g[n][i]}
  <2>1. \A n \in 0 .. N : g[n][i] \in Nat
    BY <1>2
  <2>2. 0 \in U
    BY <1>1, <2>1
  <2>3. ASSUME NEW n \in 1 .. N, n - 1 \in U
        PROVE  n \in U
    <3>1. g[n - 1][i] <= g[n][i]
      BY <1>4, <1>12, <2>1
    <3>2. n \in 0 .. N /\ n - 1 \in 0 .. N
      BY <1>4
    <3>4. m <= n => m = n \/ m <= n - 1
      BY <3>2
    <3>3. g[m][i] \in Nat /\ g[n][i] \in Nat /\ g[n - 1][i] \in Nat
      BY <2>1, <3>2
    <3>. QED  BY <2>3, <3>1, <3>2, <3>3, <3>4
  <2>. HIDE DEF U
  <2>4. \A n \in 0 .. N : n \in U
    BY <1>1, <2>2, <2>3, UpTo
  <2>. QED  BY <2>4 DEF U
<1>14. \A m, n \in 1 .. N : m < n => g[m][src[n]] < at[n]
  <2>. SUFFICES ASSUME NEW m \in 1 .. N, NEW n \in 1 .. N, m < n
                PROVE  g[m][src[n]] < at[n]
    OBVIOUS
  <2>1. m \in 0 .. N /\ n - 1 \in 0 .. N /\ m <= n - 1 /\ src[n] \in D
    BY <1>4, <1>12
  <2>2. g[m][src[n]] <= g[n - 1][src[n]] /\ g[m][src[n]] \in Nat /\ g[n - 1][src[n]] \in Nat
    BY <1>2, <1>13, <2>1
  <2>. QED  BY <1>4, <2>2
<1>15. \A m, n \in 1 .. N : m < n /\ src[m] = src[n] => at[m] < at[n]
  <2>. SUFFICES ASSUME NEW m \in 1 .. N, NEW n \in 1 .. N, m < n, src[m] = src[n]
                PROVE  at[m] < at[n]
    OBVIOUS
  <2>1. g[m][src[m]] = at[m]
    BY <1>12
  <2>. QED  BY <1>14, <2>1
<1>16. Listing(out) /\ Len(out) = N
  BY <1>1, <1>3, LenOf
<1>17. \A p \in Places(inputs) : \E n \in 1 .. N : <<src[n], at[n]>> = p
  <2>. DEFINE I == 1 .. N
  <2>1. em \in Injection(I, Places(inputs))
    <3>1. \A n \in I : em[n] \in Places(inputs)
      <4>. SUFFICES ASSUME NEW n \in I PROVE em[n] \in Places(inputs)
        OBVIOUS
      <4>1. src[n] \in D /\ at[n] \in 1 .. Len(inputs[src[n]])
        BY <1>5, <1>12 DEF Listing
      <4>2. <<src[n], at[n]>> \in Places(inputs)
        BY <1>8, <4>1
      <4>. QED  BY <1>4, <4>2
    <3>2. \A m, n \in I : em[m] = em[n] => m = n
      <4>. SUFFICES ASSUME NEW m \in I, NEW n \in I, em[m] = em[n], m # n
                    PROVE  FALSE
        OBVIOUS
      <4>1. src[m] = src[n] /\ at[m] = at[n]
        BY <1>4
      <4>2. m < n \/ n < m
        OBVIOUS
      <4>3. at[m] < at[n] \/ at[n] < at[m]
        BY <1>15, <4>1, <4>2
      <4>4. at[m] \in Nat
        BY <1>5, <1>12 DEF Listing
      <4>. QED  BY <4>1, <4>3, <4>4
    <3>3. em = [n \in I |-> em[n]]
      BY DEF em
    <3>4. em \in [I -> Places(inputs)]
      BY <3>1, <3>3
    <3>. QED  BY <3>2, <3>4 DEF Injection, IsInjective
  <2>2. Cardinality(I) = N /\ IsFiniteSet(I)
    BY <1>1, OneTo
  <2>3. em \in Surjection(I, Places(inputs))
    <3>. HIDE DEF I, em
    <3>1. IsFiniteSet(Places(inputs)) /\ Cardinality(I) = Cardinality(Places(inputs))
      BY <1>1, <2>2
    <3>. QED  BY <2>1, <3>1, FS_Injection
  <2>. QED  BY <1>4, <2>3 DEF Surjection
<1>18. \A m, n \in 1 .. N : m < n /\ src[m] # src[n] =>
          \E l \in 1 .. N : /\ m < l /\ l <= n /\ src[l] = src[n]
                            /\ ~ Earlier(out[l], out[m])
  <2>. SUFFICES ASSUME NEW m \in 1 .. N, NEW n \in 1 .. N, m < n, src[m] # src[n]
                PROVE  \E l \in 1 .. N : /\ m < l /\ l <= n /\ src[l] = src[n]
                                         /\ ~ Earlier(out[l], out[m])
    OBVIOUS
  <2>. DEFINE i == src[n]
              k == g[m - 1][i] + 1
  <2>1. i \in D /\ g[m][i] = g[m - 1][i] /\ g[m - 1][i] \in Nat /\ at[n] \in 1 .. Len(inputs[i])
    <3>1. i \in D /\ m - 1 \in 0 .. N /\ at[n] \in 1 .. Len(inputs[i])
      BY <1>4, <1>5, <1>12 DEF Listing
    <3>2. g[m][i] = g[m - 1][i]
      BY <1>12, <3>1
    <3>3. g[m - 1][i] \in Nat
      BY <1>2, <3>1
    <3>. QED  BY <3>1, <3>2, <3>3
  <2>2. k <= at[n] /\ k \in 1 .. Len(inputs[i])
    <3>1. g[m][i] < at[n]
      BY <1>14
    <3>2. Len(inputs[i]) \in Nat
      BY <1>5, <2>1 DEF Listing
    <3>. DEFINE before == g[m - 1][i]
                place == at[n]
                length == Len(inputs[i])
    <3>3. before \in Nat /\ before < place /\ place \in 1 .. length /\ length \in Nat
      BY <2>1, <3>1, <3>2
    <3>. HIDE DEF before, place, length
    <3>4. before + 1 <= place /\ before + 1 \in 1 .. length
      BY <3>3
    <3>. QED  BY <3>4 DEF before, place, length
  <2>3. PICK l \in 1 .. N : <<src[l], at[l]>> = <<i, k>>
    BY <1>8, <1>17, <2>1, <2>2
  <2>4. src[l] = i /\ at[l] = k
    BY <2>3
  <2>5. out[l] = inputs[i][k]
    BY <1>3, <2>4
  <2>6. ~ Earlier(out[l], out[m])
    <3>1. g[m - 1][i] < Len(inputs[i])
      BY <2>1, <2>2
    <3>. QED  BY <1>12, <2>1, <2>5, <3>1
  <2>7. l <= n
    <3>. SUFFICES ASSUME n < l PROVE FALSE
      OBVIOUS
    <3>1. at[n] < at[l]
      BY <1>15, <2>4
    <3>. QED  BY <2>1, <2>2, <2>4, <3>1
  <2>8. m < l
    <3>. SUFFICES ASSUME l < m PROVE FALSE
      BY <2>4
    <3>1. l \in 0 .. N /\ m - 1 \in 0 .. N /\ l <= m - 1
      BY <1>4
    <3>2. g[l][i] <= g[m - 1][i] /\ g[l][i] = k
      BY <1>12, <1>13, <2>1, <2>4, <3>1
    <3>. QED  BY <2>1, <3>2
  <2>. QED  BY <2>4, <2>6, <2>7, <2>8
<1>19. Merges(inputs, out, src, at)
  <2>. HIDE DEF out, N, D
  <2>1. DOMAIN out = 1 .. N
    BY <1>16 DEF Listing
  <2>2. \A n \in 1 .. N : out[n] = inputs[src[n]][at[n]]
    BY <1>3
  <2>. QED  BY <1>12, <1>15, <1>16, <1>17, <1>18, <2>1, <2>2 DEF Merges, N, D
<1>. QED  BY <1>19

(***************************************************************************)
(* The order of trades: a trade's rank is the latest key of its scope up   *)
(* to it.  Within a scope the order is the scope's own.                    *)
(***************************************************************************)
Ledger == {Row(Scopes, p) : p \in Places(Scopes)}
PlaceOf(t) == CHOOSE p \in Places(Scopes) : Row(Scopes, p) = t
ScopeOf(t) == PlaceOf(t)[1]
At(t) == PlaceOf(t)[2]
Precedes(t, u) ==
    IF ScopeOf(t) = ScopeOf(u) THEN At(t) < At(u)
    ELSE \E l \in 1 .. At(u) : \A k \in 1 .. At(t) :
            Earlier(Scopes[ScopeOf(t)][k], Scopes[ScopeOf(u)][l])

(* The scopes are files a merge can read, each in the order of time.       *)
LEMMA ScopesFacts ==
  /\ Mergeable(Scopes)
  /\ \A s \in DOMAIN Scopes : \A i, j \in DOMAIN Scopes[s] :
        i < j => Scopes[s][i].time <= Scopes[s][j].time
  /\ DOMAIN Scopes = 1 .. Len(Scopes) /\ Len(Scopes) \in Nat
<1>1. IsFiniteSet(DOMAIN Scopes)
  BY ScopesAssumption, OneTo
<1>. QED  BY <1>1, ScopesAssumption DEF Mergeable, Listing, Keyed

(* A trade of the ledger has one scope and one place in it.                *)
LEMMA TradeFacts ==
  /\ \A t \in Ledger : /\ ScopeOf(t) \in DOMAIN Scopes
                       /\ At(t) \in 1 .. Len(Scopes[ScopeOf(t)]) /\ At(t) \in Nat
                       /\ Scopes[ScopeOf(t)][At(t)] = t
                       /\ Keyed(t)
  /\ \A s \in DOMAIN Scopes : \A k \in 1 .. Len(Scopes[s]) :
        /\ Scopes[s][k] \in Ledger /\ Keyed(Scopes[s][k])
        /\ ScopeOf(Scopes[s][k]) = s /\ At(Scopes[s][k]) = k
<1>1. \A i, k : <<i, k>> \in Places(Scopes) <=> i \in DOMAIN Scopes /\ k \in 1 .. Len(Scopes[i])
  BY ScopesFacts, PlacesCount
<1>2. \A p \in Places(Scopes) : p = <<p[1], p[2]>>
  BY ScopesFacts, PlacesCount
<1>3. \A s \in DOMAIN Scopes : Listing(Scopes[s]) /\ \A k \in DOMAIN Scopes[s] : Keyed(Scopes[s][k])
  BY ScopesFacts DEF Mergeable
<1>4. \A p, q \in Places(Scopes) : Row(Scopes, p) = Row(Scopes, q) => p = q
  BY ScopesAssumption
<1>5. \A t \in Ledger : PlaceOf(t) \in Places(Scopes) /\ Row(Scopes, PlaceOf(t)) = t
  BY DEF Ledger, PlaceOf
<1>6. \A p \in Places(Scopes) : Row(Scopes, p) \in Ledger /\ PlaceOf(Row(Scopes, p)) = p
  BY <1>4, <1>5 DEF Ledger
<1>7. ASSUME NEW t \in Ledger
      PROVE  /\ ScopeOf(t) \in DOMAIN Scopes
             /\ At(t) \in 1 .. Len(Scopes[ScopeOf(t)]) /\ At(t) \in Nat
             /\ Scopes[ScopeOf(t)][At(t)] = t
             /\ Keyed(t)
  <2>1. PlaceOf(t) = <<ScopeOf(t), At(t)>> /\ <<ScopeOf(t), At(t)>> \in Places(Scopes)
    BY <1>2, <1>5 DEF ScopeOf, At
  <2>2. ScopeOf(t) \in DOMAIN Scopes /\ At(t) \in 1 .. Len(Scopes[ScopeOf(t)])
    BY <1>1, <2>1
  <2>3. Scopes[ScopeOf(t)][At(t)] = t
    BY <1>5 DEF Row, ScopeOf, At
  <2>. QED  BY <1>3, <2>2, <2>3 DEF Listing
<1>8. ASSUME NEW s \in DOMAIN Scopes, NEW k \in 1 .. Len(Scopes[s])
      PROVE  /\ Scopes[s][k] \in Ledger /\ Keyed(Scopes[s][k])
             /\ ScopeOf(Scopes[s][k]) = s /\ At(Scopes[s][k]) = k
  <2>1. <<s, k>> \in Places(Scopes) /\ Row(Scopes, <<s, k>>) = Scopes[s][k]
    BY <1>1 DEF Row
  <2>2. Scopes[s][k] \in Ledger /\ PlaceOf(Scopes[s][k]) = <<s, k>>
    BY <1>6, <2>1
  <2>. QED  BY <1>3, <2>2 DEF Listing, ScopeOf, At
<1>. QED  BY <1>7, <1>8

(* Trades of different scopes have different identifiers.                  *)
LEMMA TradesApart ==
  ASSUME NEW t \in Ledger, NEW u \in Ledger, t # u
  PROVE  t.id # u.id
<1>1. \A v \in Ledger : PlaceOf(v) \in Places(Scopes) /\ Row(Scopes, PlaceOf(v)) = v
  BY DEF Ledger, PlaceOf
<1>. QED  BY <1>1, ScopesAssumption

(* Among the first rows of a scope one is the latest.                      *)
LEMMA LatestExists ==
  ASSUME NEW s \in DOMAIN Scopes, NEW n \in 1 .. Len(Scopes[s])
  PROVE  \E k \in 1 .. n : \A j \in 1 .. n : ~ Earlier(Scopes[s][k], Scopes[s][j])
<1>. DEFINE r == Scopes[s]
            N == Len(r)
            T == {m \in 0 .. N : m = 0 \/ \E k \in 1 .. m : \A j \in 1 .. m : ~ Earlier(r[k], r[j])}
<1>1. N \in Nat /\ \A k \in 1 .. N : Keyed(r[k])
  BY ScopesFacts DEF Mergeable, Listing
<1>2. 0 \in T
  BY <1>1
<1>3. ASSUME NEW m \in 1 .. N, m - 1 \in T
      PROVE  m \in T
  <2>1. Keyed(r[m]) /\ m \in 0 .. N
    BY <1>1
  <2>2. CASE m = 1
    <3>1. ~ Earlier(r[1], r[1])
      BY <1>1, <2>1, <2>2, EarlierOrder
    <3>. HIDE DEF r, N
    <3>2. \E k \in 1 .. m : \A j \in 1 .. m : ~ Earlier(r[k], r[j])
      BY <2>2, <3>1
    <3>. QED  BY <2>1, <3>2
  <2>3. CASE m # 1
    <3>. DEFINE HasLatest(x) == \E k \in 1 .. x : \A j \in 1 .. x : ~ Earlier(r[k], r[j])
    <3>a. m - 1 # 0 /\ (m - 1 = 0 \/ HasLatest(m - 1))
      <4>. HIDE DEF r, N, HasLatest
      <4>. QED  BY <1>3, <2>3 DEF HasLatest
    <3>1. PICK k \in 1 .. m - 1 : \A j \in 1 .. m - 1 : ~ Earlier(r[k], r[j])
      BY <3>a
    <3>2. Keyed(r[k]) /\ k \in 1 .. m /\ \A j \in 1 .. m - 1 : Keyed(r[j])
      BY <1>1
    <3>3. CASE Earlier(r[k], r[m])
      <4>1. \A j \in 1 .. m - 1 : ~ Earlier(r[m], r[j])
        BY <2>1, <3>1, <3>2, <3>3, EarlierOrder
      <4>2. ~ Earlier(r[m], r[m])
        BY <2>1, EarlierOrder
      <4>. HIDE DEF r, N
      <4>3. \A j \in 1 .. m : j = m \/ j \in 1 .. m - 1
        OBVIOUS
      <4>4. m \in 1 .. m
        OBVIOUS
      <4>. QED  BY <2>1, <4>1, <4>2, <4>3, <4>4
    <3>4. CASE ~ Earlier(r[k], r[m])
      <4>. HIDE DEF r, N
      <4>1. \A j \in 1 .. m : j = m \/ j \in 1 .. m - 1
        OBVIOUS
      <4>. QED  BY <2>1, <3>1, <3>2, <3>4, <4>1
    <3>. QED  BY <3>3, <3>4
  <2>. QED  BY <2>2, <2>3
<1>. HIDE DEF T
<1>4. \A m \in 0 .. N : m \in T
  BY <1>1, <1>2, <1>3, UpTo
<1>5. n \in 0 .. N /\ n # 0
  BY <1>1
<1>. QED  BY <1>4, <1>5 DEF T

(* Of two trades one precedes the other, and is not later.                 *)
LEMMA PrecedesTotal ==
  ASSUME NEW t \in Ledger, NEW u \in Ledger
  PROVE  /\ ~ (Precedes(t, u) /\ Precedes(u, t))
         /\ t # u => Precedes(t, u) \/ Precedes(u, t)
         /\ ~ Precedes(t, t)
         /\ Precedes(t, u) => t.time <= u.time
<1>. DEFINE a == Scopes[ScopeOf(t)]
            b == Scopes[ScopeOf(u)]
            m == At(t)
            n == At(u)
<1>1. /\ m \in Nat /\ n \in Nat /\ 1 <= m /\ 1 <= n
      /\ ScopeOf(t) \in DOMAIN Scopes /\ ScopeOf(u) \in DOMAIN Scopes
      /\ m \in 1 .. Len(a) /\ n \in 1 .. Len(b)
      /\ a[m] = t /\ b[n] = u /\ Keyed(t) /\ Keyed(u)
  BY TradeFacts
<1>2. /\ \A k \in 1 .. m : /\ Keyed(a[k]) /\ a[k] \in Ledger /\ a[k].time <= t.time
                           /\ ScopeOf(a[k]) = ScopeOf(t)
      /\ \A l \in 1 .. n : /\ Keyed(b[l]) /\ b[l] \in Ledger /\ b[l].time <= u.time
                           /\ ScopeOf(b[l]) = ScopeOf(u)
  <2>1. ASSUME NEW v \in Ledger, NEW k \in 1 .. At(v)
        PROVE  LET c == Scopes[ScopeOf(v)]
               IN Keyed(c[k]) /\ c[k] \in Ledger /\ c[k].time <= v.time /\ ScopeOf(c[k]) = ScopeOf(v)
    <3>. DEFINE c == Scopes[ScopeOf(v)]
    <3>1. ScopeOf(v) \in DOMAIN Scopes /\ At(v) \in 1 .. Len(c) /\ c[At(v)] = v /\ Keyed(v)
      BY TradeFacts
    <3>2. k \in 1 .. Len(c) /\ DOMAIN c = 1 .. Len(c) /\ Len(c) \in Nat
      BY <3>1, ScopesFacts DEF Mergeable, Listing
    <3>3. Keyed(c[k]) /\ c[k] \in Ledger /\ ScopeOf(c[k]) = ScopeOf(v)
      BY <3>1, <3>2, TradeFacts
    <3>4. k = At(v) \/ k < At(v)
      BY <3>1
    <3>5. c[k].time <= v.time
      <4>1. CASE k = At(v)
        BY <3>1, <4>1 DEF Keyed
      <4>2. CASE k < At(v)
        BY <3>1, <3>2, <4>2, ScopesFacts
      <4>. QED  BY <3>4, <4>1, <4>2
    <3>. QED  BY <3>3, <3>5
  <2>. QED  BY <2>1
<1>3. CASE ScopeOf(t) = ScopeOf(u)
  <2>1. (Precedes(t, u) <=> m < n) /\ (Precedes(u, t) <=> n < m) /\ ~ Precedes(t, t)
    BY <1>1, <1>3 DEF Precedes
  <2>2. t # u => m # n
    BY <1>1, <1>3
  <2>3. m < n => t.time <= u.time
    BY <1>1, <1>2, <1>3
  <2>. QED  BY <1>1, <2>1, <2>2, <2>3
<1>4. CASE ScopeOf(t) # ScopeOf(u)
  <2>1. /\ Precedes(t, u) <=> \E l \in 1 .. n : \A k \in 1 .. m : Earlier(a[k], b[l])
        /\ Precedes(u, t) <=> \E k \in 1 .. m : \A l \in 1 .. n : Earlier(b[l], a[k])
    BY <1>4 DEF Precedes
  <2>2. ~ Precedes(t, t)
    BY <1>1 DEF Precedes
  <2>3. PICK k \in 1 .. m : \A j \in 1 .. m : ~ Earlier(a[k], a[j])
    BY <1>1, LatestExists
  <2>4. PICK l \in 1 .. n : \A j \in 1 .. n : ~ Earlier(b[l], b[j])
    BY <1>1, LatestExists
  <2>. HIDE DEF a, b, m, n
  <2>5. Earlier(a[k], b[l]) \/ Earlier(b[l], a[k])
    <3>1. a[k] # b[l]
      BY <1>2, <1>4
    <3>. QED  BY <1>2, <3>1, TradesApart, EarlierOrder
  <2>6. Earlier(a[k], b[l]) => \A j \in 1 .. m : Earlier(a[j], b[l])
    BY <1>2, <2>3, EarlierOrder
  <2>7. Earlier(b[l], a[k]) => \A j \in 1 .. n : Earlier(b[j], a[k])
    BY <1>2, <2>4, EarlierOrder
  <2>8. Precedes(t, u) \/ Precedes(u, t)
    BY <2>1, <2>5, <2>6, <2>7
  <2>9. ~ (Precedes(t, u) /\ Precedes(u, t))
    <3>. SUFFICES ASSUME Precedes(t, u), Precedes(u, t) PROVE FALSE
      OBVIOUS
    <3>1. PICK y \in 1 .. n : \A x \in 1 .. m : Earlier(a[x], b[y])
      BY <2>1
    <3>2. PICK x \in 1 .. m : \A z \in 1 .. n : Earlier(b[z], a[x])
      BY <2>1
    <3>3. Earlier(a[x], b[y]) /\ Earlier(b[y], a[x])
      BY <3>1, <3>2
    <3>. QED  BY <1>2, <3>3, EarlierOrder
  <2>10. Precedes(t, u) => t.time <= u.time
    <3>. SUFFICES ASSUME Precedes(t, u) PROVE t.time <= u.time
      OBVIOUS
    <3>1. PICK y \in 1 .. n : \A x \in 1 .. m : Earlier(a[x], b[y])
      BY <2>1
    <3>2. Earlier(t, b[y]) /\ Keyed(b[y]) /\ b[y].time <= u.time
      BY <1>1, <1>2, <3>1
    <3>3. t.time <= b[y].time
      BY <1>1, <3>2, EarlierOrder
    <3>. QED  BY <1>1, <3>2, <3>3 DEF Keyed
  <2>. QED  BY <2>2, <2>8, <2>9, <2>10
<1>. QED  BY <1>3, <1>4

(***************************************************************************)
(* Files that list trades in this order, each once.                        *)
(***************************************************************************)
Lists(rows, S) ==
    /\ Listing(rows)
    /\ \A n \in DOMAIN rows : rows[n] \in S
    /\ \A t \in S : \E n \in DOMAIN rows : rows[n] = t
    /\ \A m, n \in DOMAIN rows : m < n => Precedes(rows[m], rows[n])

(* A list of trades has each once, in the order that Precedes says.        *)
LEMMA ListsOnce ==
  ASSUME NEW S \in SUBSET Ledger, NEW rows, Lists(rows, S)
  PROVE  /\ \A m, n \in DOMAIN rows : rows[m] = rows[n] => m = n
         /\ \A m, n \in DOMAIN rows : Precedes(rows[m], rows[n]) <=> m < n
         /\ \A m, n \in DOMAIN rows : m < n => rows[m].time <= rows[n].time
         /\ IsFiniteSet(S) /\ Cardinality(S) = Len(rows)
<1>1. DOMAIN rows = 1 .. Len(rows) /\ Len(rows) \in Nat
  BY DEF Lists, Listing
<1>2. \A n \in DOMAIN rows : rows[n] \in Ledger
  BY DEF Lists
<1>3. \A m, n \in DOMAIN rows : m < n => Precedes(rows[m], rows[n])
  BY DEF Lists
<1>4. \A m, n \in DOMAIN rows : Precedes(rows[m], rows[n]) <=> m < n
  <2>. SUFFICES ASSUME NEW m \in DOMAIN rows, NEW n \in DOMAIN rows
                PROVE  Precedes(rows[m], rows[n]) <=> m < n
    OBVIOUS
  <2>1. m < n \/ m = n \/ n < m
    BY <1>1
  <2>2. ~ (m < n /\ m = n) /\ ~ (m < n /\ n < m)
    BY <1>1
  <2>3. /\ ~ (Precedes(rows[m], rows[n]) /\ Precedes(rows[n], rows[m]))
        /\ ~ Precedes(rows[m], rows[m])
    BY <1>2, PrecedesTotal
  <2>. QED  BY <1>3, <2>1, <2>2, <2>3
<1>5. \A m, n \in DOMAIN rows : rows[m] = rows[n] => m = n
  <2>. SUFFICES ASSUME NEW m \in DOMAIN rows, NEW n \in DOMAIN rows, rows[m] = rows[n], m # n
                PROVE  FALSE
    OBVIOUS
  <2>1. m < n \/ n < m
    BY <1>1
  <2>2. ~ Precedes(rows[m], rows[m]) /\ ~ Precedes(rows[n], rows[n])
    BY <1>2, PrecedesTotal
  <2>. QED  BY <1>3, <2>1, <2>2
<1>6. \A m, n \in DOMAIN rows : m < n => rows[m].time <= rows[n].time
  BY <1>2, <1>3, PrecedesTotal
<1>7. IsFiniteSet(S) /\ Cardinality(S) = Len(rows)
  <2>. DEFINE I == 1 .. Len(rows)
  <2>1. IsFiniteSet(I) /\ Cardinality(I) = Len(rows)
    BY <1>1, OneTo
  <2>. DEFINE f == [n \in I |-> rows[n]]
  <2>2. f \in [I -> S] /\ \A n \in I : f[n] = rows[n]
    BY <1>1 DEF Lists
  <2>. HIDE DEF f
  <2>3. f \in Surjection(I, S)
    BY <1>1, <2>2 DEF Surjection, Lists
  <2>4. f \in Injection(I, S)
    BY <1>1, <1>5, <2>2 DEF Injection, IsInjective
  <2>. HIDE DEF I
  <2>. QED  BY <2>1, <2>3, <2>4, FS_Surjection
<1>. QED  BY <1>4, <1>5, <1>6, <1>7

(* There is one such file.                                                 *)
LEMMA ListsAgree ==
  ASSUME NEW S \in SUBSET Ledger, NEW a, NEW b, Lists(a, S), Lists(b, S),
         a = [n \in DOMAIN a |-> a[n]], b = [n \in DOMAIN b |-> b[n]]
  PROVE  a = b
<1>1. /\ Len(a) = Len(b) /\ DOMAIN a = 1 .. Len(a) /\ DOMAIN b = 1 .. Len(a) /\ Len(a) \in Nat
  BY ListsOnce DEF Lists, Listing
<1>. DEFINE N == Len(a)
            Before(c, n) == {c[k] : k \in 1 .. n - 1}
<1>2. ASSUME NEW c, Lists(c, S), DOMAIN c = 1 .. N, NEW n \in 1 .. N
      PROVE  /\ Before(c, n) = {u \in S : Precedes(u, c[n])}
             /\ Cardinality(Before(c, n)) = n - 1
  <2>1. \A m \in 1 .. N : Precedes(c[m], c[n]) <=> m < n
    BY <1>2, ListsOnce
  <2>2. \A m \in 1 .. N : c[m] \in S
    BY <1>2 DEF Lists
  <2>3. \A u \in S : \E m \in 1 .. N : c[m] = u
    BY <1>2 DEF Lists
  <2>4. \A k \in 1 .. n - 1 : k \in 1 .. N /\ k < n
    BY <1>1
  <2>5. \A m \in 1 .. N : m < n => m \in 1 .. n - 1
    BY <1>1
  <2>6. Before(c, n) = {u \in S : Precedes(u, c[n])}
    <3>. HIDE DEF N
    <3>1. ASSUME NEW u \in S, Precedes(u, c[n])
          PROVE  u \in Before(c, n)
      BY <2>1, <2>3, <2>5, <3>1
    <3>2. ASSUME NEW u \in Before(c, n)
          PROVE  u \in S /\ Precedes(u, c[n])
      BY <2>1, <2>2, <2>4
    <3>. QED  BY <3>1, <3>2
  <2>7. Cardinality(Before(c, n)) = n - 1
    <3>. DEFINE I == 1 .. n - 1
                f == [k \in I |-> c[k]]
                B == Before(c, n)
    <3>1. n - 1 \in Nat
      BY <1>1
    <3>2. IsFiniteSet(I) /\ Cardinality(I) = n - 1
      BY <3>1, OneTo
    <3>3. f \in Surjection(I, B)
      BY DEF Surjection
    <3>4. f \in Injection(I, B)
      <4>1. \A j, k \in I : c[j] = c[k] => j = k
        BY <1>2, <2>4, ListsOnce
      <4>2. f \in [I -> B]
        OBVIOUS
      <4>. QED  BY <4>1, <4>2 DEF Injection, IsInjective
    <3>. HIDE DEF I, f, B
    <3>5. Cardinality(B) = Cardinality(I)
      BY <3>2, <3>3, <3>4, FS_Surjection
    <3>. QED  BY <3>2, <3>5 DEF B
  <2>. QED  BY <2>6, <2>7
<1>3. ASSUME NEW n \in 1 .. N
      PROVE  a[n] = b[n]
  <2>1. a[n] \in S
    BY <1>1 DEF Lists
  <2>2. PICK m \in 1 .. N : b[m] = a[n]
    BY <1>1, <2>1 DEF Lists
  <2>3. Cardinality(Before(a, n)) = n - 1 /\ Before(a, n) = {u \in S : Precedes(u, a[n])}
    BY <1>1, <1>2
  <2>4. Cardinality(Before(b, m)) = m - 1 /\ Before(b, m) = {u \in S : Precedes(u, a[n])}
    BY <1>1, <1>2, <2>2
  <2>. HIDE DEF Before
  <2>5. n - 1 = m - 1
    BY <2>3, <2>4
  <2>. QED  BY <1>1, <2>2, <2>5
<1>4. a = [n \in 1 .. N |-> a[n]] /\ b = [n \in 1 .. N |-> b[n]]
  BY <1>1
<1>. HIDE DEF N
<1>. QED  BY <1>3, <1>4

(* A merge of files in this order is a file in this order, where no two    *)
(* inputs share a scope, and no row is missing from an input that a row of *)
(* another one would have to wait for.                                     *)
Mergeables(inputs, S) ==
    /\ IsFiniteSet(DOMAIN inputs)
    /\ \A i \in DOMAIN inputs : S[i] \in SUBSET Ledger /\ Lists(inputs[i], S[i])
    /\ \A i, j \in DOMAIN inputs : i # j =>
          \A t \in S[i], u \in S[j] : ScopeOf(t) # ScopeOf(u)
    /\ \A i, j \in DOMAIN inputs : \A t \in S[i], u \in S[j], z \in Ledger :
          ScopeOf(z) = ScopeOf(t) /\ At(z) <= At(t) /\ Earlier(u, z) => z \in S[i]

(* Merged lists of trades of different scopes, each with all that comes    *)
(* before its trades in their scopes, are the list of all of their trades. *)
LEMMA MergeLists ==
  ASSUME NEW inputs, NEW S, Mergeables(inputs, S)
  PROVE  Lists(Merge(inputs), UNION {S[i] : i \in DOMAIN inputs})
<1>. DEFINE D == DOMAIN inputs
            All == UNION {S[i] : i \in D}
            out == Merge(inputs)
<1>1. \A i \in D : S[i] \in SUBSET Ledger /\ Lists(inputs[i], S[i])
  BY DEF Mergeables
<1>2. Mergeable(inputs)
  <2>1. \A t \in Ledger : Keyed(t)
    BY TradeFacts
  <2>2. \A i \in D : Listing(inputs[i]) /\ \A k \in DOMAIN inputs[i] : inputs[i][k] \in S[i]
    BY <1>1 DEF Lists
  <2>. QED  BY <1>1, <2>1, <2>2 DEF Mergeable, Mergeables
<1>3. PICK src, at : Merges(inputs, out, src, at)
  BY <1>2, MergeIsStepwise
<1>. DEFINE I == DOMAIN out
<1>4. /\ Listing(out) /\ I = 1 .. Len(out) /\ Len(out) \in Nat
      /\ \A n \in I : /\ src[n] \in D /\ at[n] \in DOMAIN inputs[src[n]]
                      /\ out[n] = inputs[src[n]][at[n]]
      /\ \A m, n \in I : m < n /\ src[m] = src[n] => at[m] < at[n]
      /\ \A p \in Places(inputs) : \E n \in I : <<src[n], at[n]>> = p
      /\ \A m, n \in I : m < n /\ src[m] # src[n] =>
            \E l \in I : /\ m < l /\ l <= n /\ src[l] = src[n] /\ ~ Earlier(out[l], out[m])
  BY <1>3 DEF Merges, Listing
<1>. HIDE DEF out, I, All, D
<1>6. \A n \in I : out[n] \in S[src[n]] /\ out[n] \in Ledger /\ Keyed(out[n])
  <2>1. ASSUME NEW n \in I PROVE out[n] \in S[src[n]]
    <3>. DEFINE i == src[n]
                k == at[n]
    <3>1. i \in D /\ k \in DOMAIN inputs[i] /\ out[n] = inputs[i][k]
      BY <1>4
    <3>. HIDE DEF i, k
    <3>2. inputs[i][k] \in S[i]
      BY <1>1, <3>1 DEF Lists
    <3>. QED  BY <3>1, <3>2 DEF i
  <2>. QED  BY <1>1, <1>4, <2>1, TradeFacts
<1>7. \A i \in D : \A t \in S[i] : \E n \in I : src[n] = i /\ out[n] = t
  <2>. SUFFICES ASSUME NEW i \in D, NEW t \in S[i]
                PROVE  \E n \in I : src[n] = i /\ out[n] = t
    OBVIOUS
  <2>1. PICK k \in DOMAIN inputs[i] : inputs[i][k] = t
    BY <1>1 DEF Lists
  <2>2. <<i, k>> \in Places(inputs)
    BY <2>1 DEF Places, D
  <2>3. PICK n \in I : <<src[n], at[n]>> = <<i, k>>
    BY <1>4, <2>2
  <2>. QED  BY <1>4, <2>1, <2>3
<1>8. \A m, n \in I : m < n /\ src[m] = src[n] => Precedes(out[m], out[n])
  <2>. SUFFICES ASSUME NEW m \in I, NEW n \in I, m < n, src[m] = src[n]
                PROVE  Precedes(out[m], out[n])
    OBVIOUS
  <2>1. at[m] < at[n] /\ Lists(inputs[src[m]], S[src[m]])
    BY <1>1, <1>4
  <2>. QED  BY <1>4, <2>1 DEF Lists
<1>9. \A m, n \in I : m < n /\ src[m] # src[n] => Precedes(out[m], out[n])
  <2>. SUFFICES ASSUME NEW m \in I, NEW n \in I, m < n, src[m] # src[n],
                       ~ Precedes(out[m], out[n])
                PROVE  FALSE
    OBVIOUS
  <2>. DEFINE x == out[m]
              y == out[n]
              a == Scopes[ScopeOf(x)]
              b == Scopes[ScopeOf(y)]
  <2>1. x \in S[src[m]] /\ y \in S[src[n]] /\ x \in Ledger /\ y \in Ledger /\ src[m] \in D /\ src[n] \in D
    BY <1>4, <1>6
  <2>2. ScopeOf(x) # ScopeOf(y)
    BY <2>1 DEF Mergeables, D
  <2>3. Precedes(y, x)
    <3>1. x # y
      BY <2>2
    <3>. QED  BY <2>1, <3>1, PrecedesTotal
  <2>4. PICK k \in 1 .. At(x) : \A l \in 1 .. At(y) : Earlier(b[l], a[k])
    BY <2>2, <2>3 DEF Precedes
  <2>. DEFINE z == a[k]
  <2>5. z \in Ledger /\ ScopeOf(z) = ScopeOf(x) /\ At(z) = k /\ At(z) <= At(x) /\ Keyed(z)
    <3>1. ScopeOf(x) \in DOMAIN Scopes /\ At(x) \in 1 .. Len(a) /\ At(x) \in Nat
      BY <2>1, TradeFacts
    <3>2. k \in 1 .. Len(a)
      BY <3>1, ScopesFacts DEF Mergeable, Listing
    <3>. QED  BY <3>1, <3>2, TradeFacts
  <2>6. Earlier(y, z)
    <3>1. b[At(y)] = y /\ At(y) \in 1 .. At(y)
      BY <2>1, TradeFacts
    <3>. QED  BY <2>4, <3>1
  <2>. HIDE DEF x, y, z, a, b
  <2>7. z \in S[src[m]]
    BY <2>1, <2>5, <2>6 DEF Mergeables, D
  <2>8. PICK q \in I : src[q] = src[m] /\ out[q] = z
    BY <1>7, <2>1, <2>7
  <2>9. q <= m
    <3>. SUFFICES ASSUME ~ (q <= m) PROVE FALSE
      OBVIOUS
    <3>1. m < q
      BY <1>4
    <3>2. Precedes(x, z)
      BY <1>8, <2>8, <3>1 DEF x
    <3>3. At(x) < At(z)
      BY <2>5, <3>2 DEF Precedes
    <3>. QED  BY <2>1, <2>5, <3>3, TradeFacts
  <2>10. q < n /\ src[q] # src[n]
    BY <1>4, <2>8, <2>9
  <2>11. PICK l \in I : q < l /\ l <= n /\ src[l] = src[n] /\ ~ Earlier(out[l], z)
    BY <1>4, <2>8, <2>10
  <2>. DEFINE w == out[l]
  <2>12. w \in Ledger /\ Keyed(w) /\ w \in S[src[n]] /\ (w = y \/ Precedes(w, y))
    <3>1. l = n \/ l < n
      BY <1>4, <2>11
    <3>. QED  BY <1>6, <1>8, <2>11, <3>1 DEF y
  <2>. HIDE DEF w
  <2>13. w # y
    BY <2>6, <2>11 DEF w
  <2>14. CASE ScopeOf(w) = ScopeOf(y)
    <3>1. At(w) < At(y)
      BY <2>12, <2>13, <2>14 DEF Precedes
    <3>2. At(w) \in 1 .. At(y) /\ b[At(w)] = w
      <4>1. At(w) \in Nat /\ 1 <= At(w) /\ At(y) \in Nat
        BY <2>1, <2>12, TradeFacts
      <4>2. Scopes[ScopeOf(w)][At(w)] = w
        BY <2>12, TradeFacts
      <4>. QED  BY <2>14, <3>1, <4>1, <4>2 DEF b
    <3>3. Earlier(w, z)
      BY <2>4, <3>2 DEF z
    <3>. QED  BY <2>11, <3>3 DEF w
  <2>15. CASE ScopeOf(w) # ScopeOf(y)
    <3>1. PICK j \in 1 .. At(y) : \A i \in 1 .. At(w) : Earlier(Scopes[ScopeOf(w)][i], b[j])
      BY <2>12, <2>13, <2>15 DEF Precedes, b
    <3>2. Earlier(w, b[j])
      <4>1. At(w) \in 1 .. At(w) /\ Scopes[ScopeOf(w)][At(w)] = w
        BY <2>12, TradeFacts
      <4>. QED  BY <3>1, <4>1
    <3>3. Earlier(b[j], z)
      BY <2>4, <3>1 DEF z
    <3>4. Keyed(b[j])
      <4>1. ScopeOf(y) \in DOMAIN Scopes /\ At(y) \in 1 .. Len(b) /\ At(y) \in Nat
        BY <2>1, TradeFacts DEF b
      <4>2. j \in 1 .. Len(b)
        BY <4>1, ScopesFacts DEF Mergeable, Listing, b
      <4>. QED  BY <4>1, <4>2, TradeFacts DEF b
    <3>5. Earlier(w, z)
      BY <2>5, <2>12, <3>2, <3>3, <3>4, EarlierOrder
    <3>. QED  BY <2>11, <3>5 DEF w
  <2>. QED  BY <2>14, <2>15
<1>10. \A t \in All : \E n \in I : out[n] = t
  BY <1>7 DEF All
<1>11. \A n \in I : out[n] \in All
  BY <1>4, <1>6 DEF All
<1>. QED  BY <1>4, <1>8, <1>9, <1>10, <1>11 DEF Lists, I, All, D, out

(***************************************************************************)
(* Numbers in order, and the rows of a date.                               *)
(***************************************************************************)
Below(S) == [e \in S |-> {y \in S : y < e}]

(* The numbers below each number of a set.                                 *)
LEMMA BelowOrder ==
  ASSUME NEW S \in SUBSET Int
  PROVE  /\ Below(S) \in [S -> SUBSET S]
         /\ \A e \in S : e \notin Below(S)[e]
         /\ \A e, f \in S : e \in Below(S)[f] => Below(S)[e] \subseteq Below(S)[f]
         /\ \A e, f \in S : e = f \/ e \in Below(S)[f] \/ f \in Below(S)[e]
         /\ \A e, f \in S : e \in Below(S)[f] <=> e < f
<1>1. \A e \in S : e \in Int
  OBVIOUS
<1>2. Below(S) \in [S -> SUBSET S]
  BY DEF Below
<1>3. \A e, f \in S : e \in Below(S)[f] <=> e < f
  BY DEF Below
<1>4. \A e \in S : ~ (e < e)
  BY <1>1
<1>5. \A e, f \in S : e = f \/ e < f \/ f < e
  BY <1>1
<1>6. \A d, e, f \in S : d < e /\ e < f => d < f
  BY <1>1
<1>7. \A e, f \in S : e \in Below(S)[f] => Below(S)[e] \subseteq Below(S)[f]
  BY <1>2, <1>3, <1>6
<1>. QED  BY <1>2, <1>3, <1>4, <1>5, <1>7

(* Numbers in order: each of them once, going up.                          *)
LEMMA InOrderFacts ==
  ASSUME NEW S \in SUBSET Int, IsFiniteSet(S)
  PROVE  /\ Listing(InOrder(S)) /\ Len(InOrder(S)) = Cardinality(S)
         /\ InOrder(S) \in [1 .. Len(InOrder(S)) -> S]
         /\ \A x \in S : \E n \in 1 .. Len(InOrder(S)) : InOrder(S)[n] = x
         /\ \A m, n \in 1 .. Len(InOrder(S)) : m < n => InOrder(S)[m] < InOrder(S)[n]
<1>. DEFINE N == Cardinality(S)
            P == Below(S)
            Q == InOrder(S)
<1>1. N \in Nat
  BY FS_CardinalityType
<1>3. \A i \in 1 .. N : Q[i] = CHOOSE x \in S : Cardinality({y \in S : y < x}) = i - 1
  BY DEF InOrder
<1>4. Q = [i \in 1 .. N |-> Q[i]]
  <2>1. Q = [i \in 1 .. N |-> CHOOSE x \in S : Cardinality({y \in S : y < x}) = i - 1]
    BY DEF InOrder
  <2>2. [i \in 1 .. N |-> CHOOSE x \in S : Cardinality({y \in S : y < x}) = i - 1]
           = [i \in 1 .. N |-> Q[i]]
    BY <1>3
  <2>. HIDE DEF Q, N
  <2>. QED  BY <2>1, <2>2
<1>2. \A e \in S : P[e] = {y \in S : y < e}
  BY DEF Below
<1>5. /\ P \in [S -> SUBSET S]
      /\ \A e \in S : e \notin P[e]
      /\ \A e, f \in S : e \in P[f] => P[e] \subseteq P[f]
      /\ \A e, f \in S : e = f \/ e \in P[f] \/ f \in P[e]
  BY BelowOrder
<1>5a. \A e, f \in S : e \in P[f] <=> e < f
  BY <1>2
<1>. HIDE DEF P, Q, N
<1>6. \A i \in 1 .. N : \E x \in S : Cardinality(P[x]) = i - 1
  BY <1>5, RanksCount DEF N
<1>7. ASSUME NEW i \in 1 .. N
      PROVE  Q[i] \in S /\ Cardinality(P[Q[i]]) = i - 1
  <2>1. \E x \in S : Cardinality({y \in S : y < x}) = i - 1
    BY <1>2, <1>6
  <2>2. Q[i] = CHOOSE x \in S : Cardinality({y \in S : y < x}) = i - 1
    BY <1>3
  <2>3. Q[i] \in S /\ Cardinality({y \in S : y < Q[i]}) = i - 1
    BY <2>1, <2>2
  <2>. QED  BY <1>2, <2>3
<1>8a. \A i \in 1 .. Cardinality(S) : Q[i] \in S /\ Cardinality(P[Q[i]]) = i - 1
  BY <1>7 DEF N
<1>8d. \A e \in S : Cardinality(P[e]) \in 0 .. Cardinality(S) - 1
  BY <1>5, RanksCount
<1>8e. \A e \in S, i \in 1 .. Cardinality(S) : Cardinality(P[e]) = i - 1 => Q[i] = e
  BY <1>5, <1>8a, RankedListsAll
<1>8b. \A e \in S : \E i \in 1 .. Cardinality(S) : Q[i] = e
  <2>. SUFFICES ASSUME NEW e \in S
                PROVE  \E i \in 1 .. Cardinality(S) : Q[i] = e
    OBVIOUS
  <2>. DEFINE c == Cardinality(P[e])
              M == Cardinality(S)
              j == c + 1
  <2>1. c \in 0 .. M - 1 /\ M \in Nat
    BY <1>1, <1>8d DEF N
  <2>. HIDE DEF c, M
  <2>2. j \in 1 .. M /\ c = j - 1
    BY <2>1
  <2>. HIDE DEF j
  <2>3. Q[j] = e
    BY <1>8e, <2>2 DEF c, M
  <2>. QED  BY <2>2, <2>3 DEF M
<1>8c. \A i, j \in 1 .. Cardinality(S) : i < j => Q[i] \in P[Q[j]]
  BY <1>5, <1>8a, RankedListsAll
<1>8. /\ \A e \in S : \E i \in 1 .. N : Q[i] = e
      /\ \A i, j \in 1 .. N : i < j => Q[i] \in P[Q[j]]
  BY <1>8b, <1>8c DEF N
<1>9. Len(Q) = N /\ Listing(Q)
  <2>1. DOMAIN Q = 1 .. N
    BY <1>4
  <2>. QED  BY <1>1, <1>4, <2>1, LenOf
<1>10. Q \in [1 .. N -> S]
  BY <1>4, <1>7 DEF N
<1>11. \A i, j \in 1 .. N : i < j => Q[i] < Q[j]
  BY <1>5a, <1>7, <1>8
<1>. QED  BY <1>8, <1>9, <1>10, <1>11 DEF N, Q

(* Later trades have later dates, or the same.                             *)
LEMMA DatesOf ==
  /\ DayLength \in Nat \ {0}
  /\ \A t \in Ledger : DateOf(t) \in Nat
  /\ \A t, u \in Ledger : t.time <= u.time => DateOf(t) <= DateOf(u)
<1>1. DayLength \in Nat \ {0}
  BY ScopesAssumption
<1>2. \A t \in Ledger : t.time \in Nat
  BY TradeFacts DEF Keyed
<1>. QED  BY <1>1, <1>2, Quotients DEF DateOf

Dated(S, date) == {t \in S : DateOf(t) = date}

(* The rows of a date are the list of its trades.                          *)
LEMMA OnDateLists ==
  ASSUME NEW S \in SUBSET Ledger, NEW rows, Lists(rows, S), NEW date
  PROVE  Lists(OnDate(rows, date), Dated(S, date))
<1>. DEFINE places == {i \in DOMAIN rows : DateOf(rows[i]) = date}
            a == InOrder(places)
            day == OnDate(rows, date)
<1>1. /\ DOMAIN rows = 1 .. Len(rows) /\ Len(rows) \in Nat
      /\ \A n \in DOMAIN rows : rows[n] \in S
      /\ \A t \in S : \E n \in DOMAIN rows : rows[n] = t
      /\ \A m, n \in DOMAIN rows : m < n => Precedes(rows[m], rows[n])
  BY DEF Lists, Listing
<1>2. IsFiniteSet(places) /\ places \in SUBSET Int
  <2>1. IsFiniteSet(DOMAIN rows)
    BY <1>1, OneTo
  <2>. QED  BY <1>1, <2>1, FS_Subset
<1>3. /\ Listing(a) /\ a \in [1 .. Len(a) -> places]
      /\ \A x \in places : \E n \in 1 .. Len(a) : a[n] = x
      /\ \A m, n \in 1 .. Len(a) : m < n => a[m] < a[n]
  <2>. HIDE DEF places
  <2>. QED  BY <1>2, InOrderFacts
<1>4. day = [n \in DOMAIN a |-> rows[a[n]]]
  BY DEF OnDate
<1>. HIDE DEF a, day
<1>5. DOMAIN a = 1 .. Len(a) /\ Len(a) \in Nat
  BY <1>3 DEF Listing
<1>6. /\ DOMAIN day = 1 .. Len(a) /\ \A n \in 1 .. Len(a) : day[n] = rows[a[n]]
  BY <1>4, <1>5
<1>7. Listing(day)
  <2>1. day = [n \in 1 .. Len(a) |-> day[n]]
    BY <1>4, <1>5
  <2>. QED  BY <1>5, <1>6, <2>1, LenOf
<1>8. \A n \in 1 .. Len(a) : a[n] \in DOMAIN rows /\ DateOf(rows[a[n]]) = date
  BY <1>3
<1>9. \A n \in 1 .. Len(a) : day[n] \in Dated(S, date)
  BY <1>1, <1>6, <1>8 DEF Dated
<1>10. \A t \in Dated(S, date) : \E n \in 1 .. Len(a) : day[n] = t
  <2>. SUFFICES ASSUME NEW t \in Dated(S, date)
                PROVE  \E n \in 1 .. Len(a) : day[n] = t
    OBVIOUS
  <2>1. t \in S /\ DateOf(t) = date
    BY DEF Dated
  <2>2. PICK i \in DOMAIN rows : rows[i] = t
    BY <1>1, <2>1
  <2>3. i \in places
    BY <2>1, <2>2
  <2>. QED  BY <1>3, <1>6, <2>2, <2>3
<1>11. \A m, n \in 1 .. Len(a) : m < n => Precedes(day[m], day[n])
  BY <1>1, <1>3, <1>6, <1>8
<1>. QED  BY <1>6, <1>7, <1>9, <1>10, <1>11 DEF Lists, day

(***************************************************************************)
(* Scopes, runs and dates.                                                 *)
(***************************************************************************)
TradesOf(S) == {t \in Ledger : ScopeOf(t) \in S}

(* A scope's file is the list of its trades.                               *)
LEMMA ScopeLists ==
  ASSUME NEW s \in DOMAIN Scopes
  PROVE  Lists(Scopes[s], TradesOf({s}))
<1>. DEFINE r == Scopes[s]
            N == Len(r)
<1>1. Listing(r) /\ N \in Nat /\ DOMAIN r = 1 .. N
  BY ScopesFacts DEF Mergeable, Listing
<1>4. \A n \in 1 .. N : r[n] \in Ledger /\ ScopeOf(r[n]) = s /\ At(r[n]) = n
  BY TradeFacts
<1>5. \A t \in TradesOf({s}) : \E n \in 1 .. N : r[n] = t
  <2>. SUFFICES ASSUME NEW t \in Ledger, ScopeOf(t) = s
                PROVE  \E n \in 1 .. N : r[n] = t
    BY DEF TradesOf
  <2>1. At(t) \in 1 .. N /\ Scopes[s][At(t)] = t
    BY TradeFacts
  <2>. QED  BY <2>1
<1>. HIDE DEF r, N
<1>6. \A m, n \in 1 .. N : m < n => Precedes(r[m], r[n])
  BY <1>4 DEF Precedes
<1>. QED  BY <1>1, <1>4, <1>5, <1>6 DEF Lists, TradesOf, r

(* A limit takes that many scopes, spread over the ledger, in order.       *)
LEMMA Spread ==
  ASSUME NEW n \in Limits
  PROVE  /\ n \in Nat /\ 1 <= n /\ n <= Len(Scopes)
         /\ Listing(Selected(n)) /\ Len(Selected(n)) = n
         /\ \A i \in 1 .. n : Selected(n)[i] \in DOMAIN Scopes
         /\ \A i, j \in 1 .. n : i < j => Selected(n)[i] < Selected(n)[j]
<1>. DEFINE L == Len(Scopes)
            s == Selected(n)
<1>1. n \in Nat \ {0} /\ L \in Nat /\ 1 <= n /\ n <= L /\ DOMAIN Scopes = 1 .. L
  BY ScopesAssumption
<1>2. s = [i \in 1 .. n |-> ((i - 1) * L) \div n + 1]
  BY DEF Selected
<1>3. DOMAIN s = 1 .. n /\ s = [i \in 1 .. n |-> s[i]]
        /\ \A i \in 1 .. n : s[i] = ((i - 1) * L) \div n + 1
  BY <1>2
<1>. HIDE DEF s, L
<1>4. Listing(s) /\ Len(s) = n
  BY <1>1, <1>3, LenOf
<1>5. \A i \in 1 .. n : (i - 1) * L \in Nat /\ i - 1 \in Nat
  BY <1>1
<1>6. \A i, j \in 1 .. n : i < j => (i - 1) * L + n <= (j - 1) * L
  <2>. SUFFICES ASSUME NEW i \in 1 .. n, NEW j \in 1 .. n, i < j
                PROVE  (i - 1) * L + n <= (j - 1) * L
    OBVIOUS
  <2>. DEFINE a == i - 1
              b == j - 1
              c == b - a - 1
  <2>1. a \in Nat /\ b \in Nat /\ c \in Nat /\ b = a + 1 + c
    OBVIOUS
  <2>. HIDE DEF a, b, c
  <2>2. b * L = a * L + L + c * L
    BY <1>1, <2>1
  <2>3. c * L \in Nat /\ a * L \in Nat
    BY <1>1, <2>1
  <2>4. a * L + n <= b * L
    BY <1>1, <2>2, <2>3
  <2>. QED  BY <2>4 DEF a, b
<1>7. \A i, j \in 1 .. n : i < j => s[i] < s[j]
  <2>. SUFFICES ASSUME NEW i \in 1 .. n, NEW j \in 1 .. n, i < j
                PROVE  s[i] < s[j]
    OBVIOUS
  <2>. DEFINE x == (i - 1) * L
              y == (j - 1) * L
  <2>1. x \in Nat /\ y \in Nat /\ x + n <= y /\ s[i] = x \div n + 1 /\ s[j] = y \div n + 1
    BY <1>3, <1>5, <1>6
  <2>. HIDE DEF x, y
  <2>2. x \div n + 1 <= y \div n /\ x \div n \in Nat /\ y \div n \in Nat
    BY <1>1, <2>1, Quotients
  <2>. QED  BY <2>1, <2>2
<1>8. ASSUME NEW i \in 1 .. n
      PROVE  s[i] \in 1 .. L
  <2>. DEFINE x == (i - 1) * L
              y == L * n
  <2>1. x \in Nat /\ s[i] = x \div n + 1
    BY <1>3, <1>5
  <2>2. x + n <= y /\ y \in Nat
    <3>. DEFINE a == i - 1
                c == n - i
    <3>1. a \in Nat /\ c \in Nat /\ n = a + 1 + c
      BY <1>1
    <3>. HIDE DEF a, c
    <3>2. L * n = a * L + L + c * L
      BY <1>1, <3>1
    <3>3. c * L \in Nat /\ a * L \in Nat
      BY <1>1, <3>1
    <3>. QED  BY <1>1, <3>2, <3>3 DEF a
  <2>3. y \div n = L
    BY <1>1, Quotients
  <2>. HIDE DEF x, y
  <2>4. x \div n + 1 <= y \div n /\ x \div n \in Nat
    BY <1>1, <2>1, <2>2, Quotients
  <2>. QED  BY <1>1, <2>1, <2>3, <2>4
<1>. QED  BY <1>1, <1>4, <1>7, <1>8 DEF s, L

Members(n, g) == {i \in 1 .. n : (g - 1) * GroupSize < i /\ i <= g * GroupSize}

(* The groups cut the chosen scopes into pieces.                           *)
LEMMA GroupFacts ==
  ASSUME NEW n \in Limits
  PROVE  /\ IsFiniteSet(DOMAIN Groups(n)) /\ DOMAIN Groups(n) \in SUBSET Nat
         /\ \A g \in DOMAIN Groups(n) :
               /\ Listing(Groups(n)[g])
               /\ \A k \in DOMAIN Groups(n)[g] : \E i \in Members(n, g) :
                     i = (g - 1) * GroupSize + k /\ Groups(n)[g][k] = Selected(n)[i]
               /\ \A i \in Members(n, g) : \E k \in DOMAIN Groups(n)[g] :
                     Groups(n)[g][k] = Selected(n)[i]
         /\ \A i \in 1 .. n : \E g \in DOMAIN Groups(n) : i \in Members(n, g)
         /\ \A g, h \in DOMAIN Groups(n) : g # h => Members(n, g) \cap Members(n, h) = {}
<1>. DEFINE G == GroupSize
            Q == (n + G - 1) \div G
            s == Selected(n)
<1>1. G \in Nat \ {0} /\ n \in Nat /\ 1 <= n
  BY ScopesAssumption, Spread
<1>2. Q \in Nat /\ Q * G <= n + G - 1 /\ n + G - 1 < Q * G + G
  <2>. DEFINE x == n + G - 1
  <2>1. x \in Nat
    BY <1>1
  <2>. HIDE DEF x
  <2>2. x \div G \in Nat /\ (x \div G) * G <= x /\ x < (x \div G) * G + G
    BY <1>1, <2>1, Quotients
  <2>. QED  BY <2>2 DEF x
<1>3. DOMAIN Groups(n) = 1 .. Q
        /\ \A g \in 1 .. Q : Groups(n)[g] = SubSeq(s, (g - 1) * G + 1, Min({g * G, n}))
  BY DEF Groups
<1>. HIDE DEF Q, s, G
<1>4. \A g \in Nat : g * G \in Nat /\ (g + 1) * G = g * G + G
  BY <1>1, Multiples
<1>4a. \A g, h \in Nat : g * G < h * G <=> g < h
  BY <1>1, Multiples
<1>5. ASSUME NEW g \in 1 .. Q
      PROVE  /\ (g - 1) * G \in Nat /\ g * G \in Nat /\ g * G = (g - 1) * G + G
             /\ (g - 1) * G < n
  <2>. DEFINE h == g - 1
  <2>1. h \in Nat /\ g = h + 1
    BY <1>2
  <2>. HIDE DEF h
  <2>2. h * G \in Nat /\ g * G = h * G + G
    BY <1>4, <2>1
  <2>3. h * G < n
    <3>1. g \in Nat /\ Q \in Nat /\ ~(Q < g)
      BY <1>2
    <3>2. g * G \in Nat /\ Q * G \in Nat /\ ~(Q * G < g * G)
      BY <1>4, <1>4a, <3>1
    <3>. QED  BY <1>1, <1>2, <2>2, <3>2
  <2>. QED  BY <1>1, <2>2, <2>3 DEF h
<1>6. ASSUME NEW g \in 1 .. Q
      PROVE  LET a == (g - 1) * G
                 q == Groups(n)[g]
             IN /\ Listing(q)
                /\ \A k \in DOMAIN q : a + k \in Members(n, g) /\ q[k] = s[a + k]
                /\ \A i \in Members(n, g) : i - a \in DOMAIN q
  <2>. DEFINE a == (g - 1) * G
              b == g * G
              e == Min({b, n})
              q == Groups(n)[g]
  <2>1. a \in Nat /\ b \in Nat /\ b = a + G /\ a < n
    BY <1>5
  <2>2. q = SubSeq(s, a + 1, e)
    BY <1>3
  <2>3. Members(n, g) = {i \in 1 .. n : a < i /\ i <= b}
    BY DEF Members, G
  <2>. HIDE DEF a, b, q
  <2>4. e \in {b, n} /\ e <= b /\ e <= n /\ e \in Nat
    <3>. DEFINE S == {b, n}
    <3>1. S \in SUBSET Nat /\ S # {}
      BY <1>1, <2>1
    <3>. HIDE DEF S
    <3>2. \E x \in S : \A y \in S : x <= y
      BY <3>1, LeastExists
    <3>3. Min(S) \in S /\ \A y \in S : Min(S) <= y
      BY <3>2 DEF Min
    <3>. QED  BY <3>1, <3>3 DEF S
  <2>. HIDE DEF e
  <2>5. e - a \in Nat /\ e - (a + 1) + 1 = e - a /\ a + 1 <= e /\ a + 1 \in Int /\ e \in Int
    BY <1>1, <2>1, <2>4
  <2>6. \A k \in 1 .. e - a : a + k \in 1 .. n /\ a < a + k /\ a + k <= b /\ (a + 1) + k - 1 = a + k
    BY <1>1, <2>1, <2>4, <2>5
  <2>7. /\ q \in Seq({s[x] : x \in (a + 1) .. e}) /\ Len(q) = e - a
        /\ \A k \in 1 .. e - a : q[k] = s[(a + 1) + k - 1]
    <3>. DEFINE V == {s[x] : x \in (a + 1) .. e}
                lo == a + 1
    <3>1. lo \in Int /\ \A x \in lo .. e : s[x] \in V
      BY <2>5
    <3>2. lo <= e /\ e - lo + 1 = e - a
      BY <2>5
    <3>. HIDE DEF V, lo
    <3>3. /\ q \in Seq(V)
          /\ Len(q) = IF lo <= e THEN e - lo + 1 ELSE 0
          /\ \A k \in 1 .. e - lo + 1 : q[k] = s[lo + k - 1]
      BY <2>2, <2>5, <3>1, SubSeqProperties DEF lo
    <3>. QED  BY <3>2, <3>3 DEF V, lo
  <2>8. Listing(q) /\ DOMAIN q = 1 .. e - a
    BY <2>5, <2>7 DEF Listing
  <2>9. \A k \in 1 .. e - a : q[k] = s[a + k] /\ a + k \in 1 .. n /\ a < a + k /\ a + k <= b
    BY <2>6, <2>7
  <2>10. \A i \in Members(n, g) : i - a \in 1 .. e - a
    BY <1>1, <2>1, <2>3, <2>4
  <2>. QED  BY <2>3, <2>8, <2>9, <2>10 DEF a, q
<1>7. ASSUME NEW i \in 1 .. n
      PROVE  \E g \in 1 .. Q : i \in Members(n, g)
  <2>. DEFINE x == i - 1
              h == x \div G
              g == h + 1
  <2>1. x \in Nat
    BY <1>1
  <2>2. h \in Nat /\ h * G <= x /\ x < h * G + G
    BY <1>1, <2>1, Quotients
  <2>. HIDE DEF h
  <2>3. g * G = h * G + G /\ h * G \in Nat /\ g - 1 = h
    BY <1>4, <2>2
  <2>4. h * G < i /\ i <= g * G
    BY <1>1, <2>2, <2>3
  <2>5. g \in 1 .. Q
    <3>1. ~ (Q < g)
      <4>. SUFFICES ASSUME Q < g PROVE FALSE
        OBVIOUS
      <4>1. Q = h \/ Q < h
        BY <1>2, <2>2
      <4>2. Q * G <= h * G /\ Q * G \in Nat
        BY <1>2, <1>4, <1>4a, <2>2, <4>1
      <4>. QED  BY <1>1, <1>2, <2>3, <2>4, <4>2
    <3>. QED  BY <1>2, <2>2, <3>1
  <2>. QED  BY <2>3, <2>4, <2>5 DEF Members, G
<1>8. ASSUME NEW g \in 1 .. Q, NEW h \in 1 .. Q, g < h
      PROVE  Members(n, g) \cap Members(n, h) = {}
  <2>. DEFINE f == h - 1
  <2>1. f \in Nat /\ g \in Nat /\ ~ (f < g)
    BY <1>2, <1>8
  <2>2. f * G \in Nat /\ g * G \in Nat /\ ~ (f * G < g * G)
    BY <1>4, <1>4a, <2>1
  <2>. QED  BY <1>1, <2>2 DEF Members, G
<1>9. IsFiniteSet(1 .. Q)
  BY <1>2, OneTo
<1>10. \A g, h \in 1 .. Q : g # h => Members(n, g) \cap Members(n, h) = {}
  <2>1. \A g, h \in 1 .. Q : g # h => g < h \/ h < g
    BY <1>2
  <2>. QED  BY <1>8, <2>1
<1>11. ASSUME NEW g \in 1 .. Q
       PROVE  /\ Listing(Groups(n)[g])
              /\ \A k \in DOMAIN Groups(n)[g] : \E i \in Members(n, g) :
                     i = (g - 1) * GroupSize + k /\ Groups(n)[g][k] = Selected(n)[i]
              /\ \A i \in Members(n, g) : \E k \in DOMAIN Groups(n)[g] :
                     Groups(n)[g][k] = Selected(n)[i]
  <2>. DEFINE a == (g - 1) * G
              q == Groups(n)[g]
  <2>1. /\ Listing(q)
        /\ \A k \in DOMAIN q : a + k \in Members(n, g) /\ q[k] = s[a + k]
        /\ \A i \in Members(n, g) : i - a \in DOMAIN q
    BY <1>6
  <2>2. a \in Nat
    BY <1>5
  <2>3. \A i \in Members(n, g) : i \in Nat /\ a + (i - a) = i
    BY <2>2 DEF Members
  <2>4. a = (g - 1) * GroupSize /\ s = Selected(n)
    BY DEF G, s
  <2>. HIDE DEF a, q
  <2>5. \A i \in Members(n, g) : \E k \in DOMAIN q : q[k] = s[i]
    BY <2>1, <2>3
  <2>. QED  BY <2>1, <2>4, <2>5 DEF q
<1>12. 1 .. Q \in SUBSET Nat
  BY <1>2
<1>. QED  BY <1>3, <1>7, <1>9, <1>10, <1>11, <1>12

(***************************************************************************)
(* Runs and the dates of the stream.                                       *)
(***************************************************************************)
Chosen(n) == {Selected(n)[i] : i \in 1 .. n}
Held(n, g) == {Selected(n)[i] : i \in Members(n, g)}

(* A limit's scopes are taken once, and each is in one group.              *)
LEMMA SelectedOnce ==
  ASSUME NEW n \in Limits
  PROVE  /\ \A i, j \in 1 .. n : Selected(n)[i] = Selected(n)[j] => i = j
         /\ Chosen(n) \subseteq DOMAIN Scopes
         /\ \A g \in DOMAIN Groups(n) : Held(n, g) \subseteq Chosen(n)
         /\ \A g, h \in DOMAIN Groups(n) : g # h => Held(n, g) \cap Held(n, h) = {}
         /\ \A s \in Chosen(n) : \E g \in DOMAIN Groups(n) : s \in Held(n, g)
         /\ ToSet(Selected(n)) = Chosen(n)
<1>1. n \in Nat /\ DOMAIN Scopes = 1 .. Len(Scopes) /\ Len(Scopes) \in Nat
  BY Spread, ScopesFacts
<1>2. \A i \in 1 .. n : Selected(n)[i] \in DOMAIN Scopes
  BY Spread
<1>3. \A i, j \in 1 .. n : i < j => Selected(n)[i] < Selected(n)[j]
  BY Spread
<1>4. \A i, j \in 1 .. n : Selected(n)[i] = Selected(n)[j] => i = j
  BY <1>1, <1>2, <1>3
<1>5. Chosen(n) \subseteq DOMAIN Scopes
  BY <1>2 DEF Chosen
<1>6. \A g : Members(n, g) \subseteq 1 .. n
  BY DEF Members
<1>7. \A g : Held(n, g) \subseteq Chosen(n)
  BY <1>6 DEF Held, Chosen
<1>8. \A g, h \in DOMAIN Groups(n) : g # h => Members(n, g) \cap Members(n, h) = {}
  BY GroupFacts
<1>9. \A g, h \in DOMAIN Groups(n) : g # h => Held(n, g) \cap Held(n, h) = {}
  BY <1>4, <1>6, <1>8 DEF Held
<1>10. \A i \in 1 .. n : \E g \in DOMAIN Groups(n) : i \in Members(n, g)
  BY GroupFacts
<1>11. \A s \in Chosen(n) : \E g \in DOMAIN Groups(n) : s \in Held(n, g)
  BY <1>10 DEF Chosen, Held
<1>12. DOMAIN Selected(n) = 1 .. n
  BY DEF Selected
<1>13. ToSet(Selected(n)) = Chosen(n)
  BY <1>12 DEF ToSet, Chosen
<1>. QED  BY <1>4, <1>5, <1>7, <1>9, <1>11, <1>13

(* The trades of scopes, part by part.                                     *)
LEMMA TradesOfParts ==
  ASSUME NEW I, NEW part
  PROVE  UNION {TradesOf(part[i]) : i \in I} = TradesOf(UNION {part[i] : i \in I})
  BY DEF TradesOf

(* A run is the list of the trades of its group's scopes.                  *)
LEMMA RunLists ==
  ASSUME NEW n \in Limits, NEW g \in DOMAIN Groups(n)
  PROVE  Lists(Run(Groups(n)[g]), TradesOf(Held(n, g)))
<1>. DEFINE q == Groups(n)[g]
            inputs == [k \in DOMAIN q |-> Scopes[q[k]]]
            S == [k \in DOMAIN q |-> TradesOf({q[k]})]
<1>1. /\ Listing(q)
      /\ \A k \in DOMAIN q : \E i \in Members(n, g) : i = (g - 1) * GroupSize + k /\ q[k] = Selected(n)[i]
      /\ \A i \in Members(n, g) : \E k \in DOMAIN q : q[k] = Selected(n)[i]
  BY GroupFacts
<1>. DEFINE a == (g - 1) * GroupSize
<1>2. a \in Int
  <2>1. g \in Nat /\ GroupSize \in Nat
    BY GroupFacts, ScopesAssumption
  <2>. QED  BY <2>1
<1>3. DOMAIN q \in SUBSET Nat /\ IsFiniteSet(DOMAIN q)
  BY <1>1, OneTo DEF Listing
<1>4. \A k \in DOMAIN q : q[k] \in Held(n, g) /\ q[k] \in DOMAIN Scopes
  BY <1>1, SelectedOnce DEF Held
<1>5. \A k, l \in DOMAIN q : q[k] = q[l] => k = l
  <2>1. Members(n, g) \subseteq 1 .. n
    BY DEF Members
  <2>2. \A i, j \in 1 .. n : Selected(n)[i] = Selected(n)[j] => i = j
    BY SelectedOnce
  <2>3. \A k \in DOMAIN q : a + k \in 1 .. n /\ q[k] = Selected(n)[a + k]
    BY <1>1, <2>1
  <2>. HIDE DEF a, q
  <2>4. \A k, l \in DOMAIN q : a + k = a + l => k = l
    BY <1>2, <1>3
  <2>. QED  BY <2>2, <2>3, <2>4
<1>6. Held(n, g) = UNION {{q[k]} : k \in DOMAIN q}
  BY <1>1, <1>4 DEF Held
<1>7. \A k \in DOMAIN q : S[k] \in SUBSET Ledger /\ Lists(inputs[k], S[k])
  BY <1>4, ScopeLists DEF TradesOf
<1>8. DOMAIN inputs = DOMAIN q
  OBVIOUS
<1>9. \A k \in DOMAIN q : S[k] = TradesOf({q[k]})
  OBVIOUS
<1>10. Run(q) = Merge(inputs)
  BY DEF Run
<1>. HIDE DEF q, inputs, S
<1>11. Mergeables(inputs, S)
  BY <1>3, <1>5, <1>7, <1>8, <1>9 DEF Mergeables, TradesOf
<1>12. Lists(Merge(inputs), UNION {S[k] : k \in DOMAIN inputs})
  BY <1>11, MergeLists
<1>13. UNION {S[k] : k \in DOMAIN inputs} = TradesOf(Held(n, g))
  BY <1>6, <1>8, <1>9 DEF TradesOf
<1>. QED  BY <1>10, <1>12, <1>13 DEF q

(* A merged date is a function on its places.                              *)
LEMMA MergedDateFunction ==
  ASSUME NEW groups, NEW date
  PROVE  LET m == MergedDate(groups, date) IN m = [i \in DOMAIN m |-> m[i]]
BY DEF MergedDate, Merge

(* The runs merged for a date are the list of the limit's trades of that   *)
(* date: what the merge of runs of merges gives is what one merge would.   *)
LEMMA MergedDateLists ==
  ASSUME NEW n \in Limits, NEW date
  PROVE  Lists(MergedDate(Groups(n), date), Dated(TradesOf(Chosen(n)), date))
<1>. DEFINE D == DOMAIN Groups(n)
            inputs == [g \in D |-> OnDate(Run(Groups(n)[g]), date)]
            S == [g \in D |-> Dated(TradesOf(Held(n, g)), date)]
<1>1. IsFiniteSet(D)
  BY GroupFacts
<1>2. \A g \in D : TradesOf(Held(n, g)) \in SUBSET Ledger
  BY DEF TradesOf
<1>3. \A g \in D : S[g] \in SUBSET Ledger /\ Lists(inputs[g], S[g])
  BY <1>2, RunLists, OnDateLists DEF Dated
<1>4. DOMAIN inputs = D /\ \A g \in D : S[g] = Dated(TradesOf(Held(n, g)), date)
  OBVIOUS
<1>5. MergedDate(Groups(n), date) = Merge(inputs)
  BY DEF MergedDate
<1>. HIDE DEF D, inputs, S
<1>6. \A g, h \in D : g # h => \A t \in S[g], u \in S[h] : ScopeOf(t) # ScopeOf(u)
  <2>1. \A g, h \in D : g # h => Held(n, g) \cap Held(n, h) = {}
    BY SelectedOnce DEF D
  <2>. QED  BY <1>4, <2>1 DEF Dated, TradesOf
<1>7. ASSUME NEW g \in D, NEW h \in D, NEW t \in S[g], NEW u \in S[h], NEW z \in Ledger,
             ScopeOf(z) = ScopeOf(t), At(z) <= At(t), Earlier(u, z)
      PROVE  z \in S[g]
  <2>1. t \in Ledger /\ u \in Ledger /\ DateOf(t) = date /\ DateOf(u) = date
    BY <1>4 DEF Dated, TradesOf
  <2>2. u.time <= z.time
    BY <1>7, <2>1, TradeFacts, EarlierOrder
  <2>3. z.time <= t.time
    <3>. DEFINE r == Scopes[ScopeOf(t)]
    <3>1. /\ ScopeOf(t) \in DOMAIN Scopes /\ At(t) \in DOMAIN r /\ At(z) \in DOMAIN r
          /\ r[At(t)] = t /\ r[At(z)] = z
          /\ At(t) \in Nat /\ At(z) \in Nat
      BY <1>7, <2>1, TradeFacts, ScopesFacts DEF Mergeable, Listing
    <3>2. \A i, j \in DOMAIN r : i < j => r[i].time <= r[j].time
      BY <3>1, ScopesFacts
    <3>3. t.time \in Nat
      BY <2>1, TradeFacts DEF Keyed
    <3>. HIDE DEF r
    <3>4. At(z) = At(t) \/ At(z) < At(t)
      BY <1>7, <3>1
    <3>5. CASE At(z) = At(t)
      BY <3>1, <3>3, <3>5
    <3>6. CASE At(z) < At(t)
      BY <3>1, <3>2, <3>6
    <3>. QED  BY <3>4, <3>5, <3>6
  <2>4. DateOf(u) <= DateOf(z) /\ DateOf(z) <= DateOf(t) /\ DateOf(z) \in Nat /\ DateOf(t) \in Nat
    BY <2>1, <2>2, <2>3, DatesOf
  <2>5. DateOf(z) = date
    BY <2>1, <2>4
  <2>6. ScopeOf(t) \in Held(n, g)
    BY <1>4 DEF Dated, TradesOf
  <2>. QED  BY <1>4, <1>7, <2>5, <2>6 DEF Dated, TradesOf
<1>8. Mergeables(inputs, S)
  BY <1>1, <1>3, <1>4, <1>6, <1>7 DEF Mergeables
<1>9. Lists(Merge(inputs), UNION {S[g] : g \in DOMAIN inputs})
  BY <1>8, MergeLists
<1>10. UNION {S[g] : g \in DOMAIN inputs} = Dated(TradesOf(Chosen(n)), date)
  <2>1. \A g \in D : Held(n, g) \subseteq Chosen(n)
    BY SelectedOnce DEF D
  <2>2. \A s \in Chosen(n) : \E g \in D : s \in Held(n, g)
    BY SelectedOnce DEF D
  <2>. QED  BY <1>4, <2>1, <2>2 DEF Dated, TradesOf
<1>. QED  BY <1>5, <1>9, <1>10

(* The dates and wallets of the runs are those of the chosen trades.       *)
LEMMA RunsOf ==
  ASSUME NEW n \in Limits
  PROVE  /\ RunDates(Groups(n)) = {DateOf(t) : t \in TradesOf(Chosen(n))}
         /\ Wallets(Groups(n)) = {t.wallet : t \in TradesOf(Chosen(n))}
         /\ RunDates(Groups(n)) \in SUBSET Nat /\ IsFiniteSet(RunDates(Groups(n)))
<1>. DEFINE D == DOMAIN Groups(n)
            T == TradesOf(Chosen(n))
<1>1. \A g \in D : Lists(Run(Groups(n)[g]), TradesOf(Held(n, g)))
  BY RunLists
<1>2. \A g \in D : ToSet(Run(Groups(n)[g])) = TradesOf(Held(n, g))
  BY <1>1 DEF Lists, ToSet
<1>3. \A g \in D : Held(n, g) \subseteq Chosen(n)
  BY SelectedOnce
<1>4. \A s \in Chosen(n) : \E g \in D : s \in Held(n, g)
  BY SelectedOnce
<1>5. /\ \A g \in D : TradesOf(Held(n, g)) \subseteq T
      /\ \A t \in T : \E g \in D : t \in TradesOf(Held(n, g))
  BY <1>3, <1>4 DEF TradesOf
<1>6. RunDates(Groups(n)) = UNION {{DateOf(t) : t \in TradesOf(Held(n, g))} : g \in D}
  BY <1>2 DEF RunDates
<1>7. Wallets(Groups(n)) = UNION {{t.wallet : t \in TradesOf(Held(n, g))} : g \in D}
  BY <1>2 DEF Wallets
<1>. HIDE DEF T, D
<1>8. RunDates(Groups(n)) = {DateOf(t) : t \in T}
  BY <1>5, <1>6
<1>9. Wallets(Groups(n)) = {t.wallet : t \in T}
  BY <1>5, <1>7
<1>10. T \in SUBSET Ledger
  BY DEF T, TradesOf
<1>11. IsFiniteSet(T)
  <2>. DEFINE P == Places(Scopes)
              row == [p \in P |-> Row(Scopes, p)]
  <2>1. IsFiniteSet(P)
    BY ScopesFacts, PlacesCount
  <2>2. row \in Surjection(P, Ledger)
    BY DEF Surjection, Ledger
  <2>. HIDE DEF P, row
  <2>3. IsFiniteSet(Ledger)
    BY <2>1, <2>2, FS_Surjection
  <2>. QED  BY <1>10, <2>3, FS_Subset
<1>12. RunDates(Groups(n)) \in SUBSET Nat
  BY <1>8, <1>10, DatesOf
<1>13. IsFiniteSet(RunDates(Groups(n)))
  <2>. DEFINE R == RunDates(Groups(n))
              f == [t \in T |-> DateOf(t)]
  <2>1. f \in Surjection(T, R)
    BY <1>8 DEF Surjection
  <2>. HIDE DEF f, R
  <2>2. IsFiniteSet(R)
    BY <1>11, <2>1, FS_Surjection
  <2>. QED  BY <2>2 DEF R
<1>. QED  BY <1>8, <1>9, <1>12, <1>13 DEF T

(* The stream of the runs of a limit is exact.                             *)
Exact(manifest, n) ==
    /\ manifest.scopes = Selected(n) /\ manifest.wallets = Wallets(Groups(n))
    /\ manifest.shards = [d \in RunDates(Groups(n)) |-> MergedDate(Groups(n), d)]

(* The stream that the limit's runs make is exact.                         *)
LEMMA ExactStreams ==
  ASSUME NEW n \in Limits, Exact(streamManifest, n)
  PROVE  StreamExact
<1>. DEFINE shards == streamManifest.shards
            T == TradesOf(Chosen(n))
            places == Places(shards)
            row == [p \in places |-> Row(shards, p)]
            chosen == ToSet(streamManifest.scopes)
            R == RunDates(Groups(n))
<1>1. chosen = Chosen(n)
  BY SelectedOnce DEF Exact
<1>2. DOMAIN shards = R /\ \A d \in R : Lists(shards[d], Dated(T, d))
  <2>1. shards = [d \in R |-> MergedDate(Groups(n), d)]
    BY DEF Exact
  <2>2. \A d \in R : shards[d] = MergedDate(Groups(n), d)
    BY <2>1
  <2>. QED  BY <2>1, <2>2, MergedDateLists
<1>3. /\ R = {DateOf(t) : t \in T} /\ R \in SUBSET Nat
      /\ streamManifest.wallets = {t.wallet : t \in T}
  BY RunsOf DEF Exact
<1>4. T \in SUBSET Ledger
  BY DEF TradesOf
<1>5. \A p \in places : p[1] \in R /\ p[2] \in DOMAIN shards[p[1]] /\ row[p] = shards[p[1]][p[2]]
  BY <1>2 DEF Places, Row
<1>6. \A d \in R : \A k \in DOMAIN shards[d] : <<d, k>> \in places /\ row[<<d, k>>] = shards[d][k]
  BY <1>2 DEF Places, Row
<1>. HIDE DEF places, row, shards, T, chosen, R
<1>7. \A p \in places : row[p] \in Dated(T, p[1]) /\ row[p] \in T /\ DateOf(row[p]) = p[1]
  BY <1>2, <1>5 DEF Lists, Dated
<1>8. \A t \in T : \E p \in places : row[p] = t
  <2>. SUFFICES ASSUME NEW t \in T PROVE \E p \in places : row[p] = t
    OBVIOUS
  <2>1. DateOf(t) \in R /\ t \in Dated(T, DateOf(t))
    BY <1>3 DEF Dated
  <2>2. PICK k \in DOMAIN shards[DateOf(t)] : shards[DateOf(t)][k] = t
    BY <1>2, <2>1 DEF Lists
  <2>. QED  BY <1>6, <2>1, <2>2
<1>9. {row[p] : p \in places} = T
  BY <1>7, <1>8
<1>10. UNION {ToSet(Scopes[s]) : s \in chosen} = T
  <2>1. \A s \in chosen : ToSet(Scopes[s]) = TradesOf({s})
    <3>1. \A s \in chosen : Lists(Scopes[s], TradesOf({s}))
      BY <1>1, SelectedOnce, ScopeLists
    <3>. QED  BY <3>1 DEF Lists, ToSet
  <2>2. T = {t \in Ledger : ScopeOf(t) \in chosen}
    BY <1>1 DEF T, TradesOf
  <2>. QED  BY <2>1, <2>2 DEF TradesOf
<1>11. streamManifest.wallets = {row[p].wallet : p \in places}
  BY <1>3, <1>7, <1>8
<1>12. ASSUME NEW p \in places, NEW q \in places, Ahead(p, q)
       PROVE  /\ row[p] # row[q] /\ row[p].time <= row[q].time
              /\ <<row[q], row[p]>> \notin Followed
  <2>1. /\ row[p] \in Ledger /\ row[q] \in Ledger
        /\ row[p].time \in Nat /\ row[q].time \in Nat
        /\ p[1] \in Nat /\ q[1] \in Nat /\ DateOf(row[p]) = p[1] /\ DateOf(row[q]) = q[1]
    BY <1>3, <1>4, <1>5, <1>7, TradeFacts DEF Keyed
  <2>2. ASSUME <<row[q], row[p]>> \in Followed
        PROVE  /\ row[q].time <= row[p].time
               /\ ScopeOf(row[p]) = ScopeOf(row[q]) /\ At(row[q]) < At(row[p])
    <3>. DEFINE b == row[p]
                a == row[q]
    <3>. HIDE DEF a, b, row
    <3>a. PICK s \in DOMAIN Scopes :
             <<a, b>> \in {<<Scopes[s][i - 1], Scopes[s][i]>> : i \in 2 .. Len(Scopes[s])}
      BY <2>2 DEF Followed, a, b
    <3>b. PICK i \in 2 .. Len(Scopes[s]) : <<a, b>> = <<Scopes[s][i - 1], Scopes[s][i]>>
      BY <3>a
    <3>1. row[q] = Scopes[s][i - 1] /\ row[p] = Scopes[s][i]
      BY <3>b DEF a, b
    <3>2. Len(Scopes[s]) \in Nat /\ DOMAIN Scopes[s] = 1 .. Len(Scopes[s])
      BY <3>1, ScopesFacts DEF Mergeable, Listing
    <3>3. i \in 1 .. Len(Scopes[s]) /\ i - 1 \in 1 .. Len(Scopes[s]) /\ i - 1 < i
      BY <3>2
    <3>4. Scopes[s][i - 1].time <= Scopes[s][i].time
      BY <3>1, <3>2, <3>3, ScopesFacts
    <3>5. ScopeOf(Scopes[s][i]) = s /\ At(Scopes[s][i]) = i
      BY <3>1, <3>3, TradeFacts
    <3>6. ScopeOf(Scopes[s][i - 1]) = s /\ At(Scopes[s][i - 1]) = i - 1
      BY <3>1, <3>3, TradeFacts
    <3>. QED  BY <3>1, <3>3, <3>4, <3>5, <3>6
  <2>3. CASE p[1] < q[1]
    <3>1. ~ (row[q].time <= row[p].time)
      <4>1. row[q].time <= row[p].time => DateOf(row[q]) <= DateOf(row[p])
        BY <2>1, DatesOf
      <4>. QED  BY <2>1, <2>3, <4>1
    <3>2. row[p] # row[q]
      BY <2>1, <2>3
    <3>3. row[p].time <= row[q].time
      BY <2>1, <3>1
    <3>. QED  BY <2>2, <3>1, <3>2, <3>3
  <2>4. CASE p[1] = q[1] /\ p[2] < q[2]
    <3>. DEFINE rows == shards[p[1]]
    <3>1. /\ Lists(rows, Dated(T, p[1])) /\ p[2] \in DOMAIN rows /\ q[2] \in DOMAIN rows
          /\ row[p] = rows[p[2]] /\ row[q] = rows[q[2]]
      BY <1>2, <1>5, <2>4
    <3>. HIDE DEF rows
    <3>2. Precedes(row[p], row[q])
      BY <2>4, <3>1 DEF Lists
    <3>3. row[p].time <= row[q].time /\ ~ Precedes(row[p], row[p])
      BY <2>1, <3>2, PrecedesTotal
    <3>4. ScopeOf(row[p]) = ScopeOf(row[q]) => At(row[p]) < At(row[q])
      BY <3>2 DEF Precedes
    <3>5. ~ (At(row[q]) < At(row[p]) /\ At(row[p]) < At(row[q]))
      BY <2>1, TradeFacts
    <3>. QED  BY <2>2, <3>2, <3>3, <3>4, <3>5
  <2>. QED  BY <1>12, <2>3, <2>4 DEF Ahead
<1>. QED  BY <1>9, <1>10, <1>11, <1>12 DEF StreamExact, places, row, chosen, shards

(***************************************************************************)
(* What the files on disk can be.                                          *)
(***************************************************************************)
MergedManifest(n) ==
    [scopes |-> Selected(n), runs |-> Groups(n), rows |-> RowsOf(Groups(n)), full |-> n = Len(Scopes)]
StreamReceipt(n, d) == [scopes |-> Selected(n), content |-> MergedDate(Groups(n), d)]
Streaming == {"stream", "streamReceipt", "participants", "participantsReceipt", "streamManifest"}
Receipted(n, d) == d \in DOMAIN streamReceipts /\ streamReceipts[d].scopes = Selected(n)

(* A command at the stream has the runs of its own limit; every file of a  *)
(* date is that of some limit, and a receipt tells which limit's it was.   *)
FilesInv ==
    /\ limit \in Limits
    /\ pc \in Streaming => runsManifest = MergedManifest(limit)
    /\ \A d \in DOMAIN streamFiles : \E n \in Limits :
          d \in RunDates(Groups(n)) /\ streamFiles[d] = MergedDate(Groups(n), d)
    /\ \A d \in DOMAIN streamReceipts :
          d \in DOMAIN streamFiles /\ \E n \in Limits : streamReceipts[d] = StreamReceipt(n, d)

(* A date of the command's runs is yet to be gone through or has a receipt.*)
DatesInv ==
    /\ pc \in {"stream", "streamReceipt"} =>
          /\ todo \in Seq(RunDates(Groups(limit)))
          /\ \A d \in RunDates(Groups(limit)) :
                Receipted(limit, d) \/ \E i \in 1 .. Len(todo) : todo[i] = d
    /\ pc = "streamReceipt" =>
          /\ todo # <<>> /\ Head(todo) \in DOMAIN streamFiles
          /\ streamFiles[Head(todo)] = MergedDate(Groups(limit), Head(todo))
    /\ pc \in {"participants", "participantsReceipt", "streamManifest"} =>
          \A d \in RunDates(Groups(limit)) : Receipted(limit, d)

WalletsInv ==
    /\ participants = [file |-> participants.file, scopes |-> participants.scopes,
                       wallets |-> participants.wallets]
    /\ \/ participants.scopes = <<>>
       \/ \E n \in Limits : /\ participants.scopes = Selected(n)
                            /\ participants.wallets = Wallets(Groups(n))
    /\ pc = "participantsReceipt" => participants.file = Wallets(Groups(limit))
    /\ pc = "streamManifest" => participants.scopes = Selected(limit)

ManifestInv ==
    streamManifest = NoManifest \/ \E n \in Limits :
        /\ Exact(streamManifest, n)
        /\ streamManifest.rows = RowsIn(streamManifest.shards)
        /\ RunDates(Groups(n)) \subseteq DOMAIN streamFiles

(* The rest of a list has all of it but its head.                          *)
LEMMA TailLists ==
  ASSUME NEW R, NEW s \in Seq(R), s # <<>>
  PROVE  /\ Head(s) \in R /\ Head(s) = s[1] /\ Len(s) \in Nat /\ 1 <= Len(s)
         /\ Tail(s) \in Seq(R) /\ Len(Tail(s)) = Len(s) - 1
         /\ \A i \in 1 .. Len(s) - 1 : Tail(s)[i] = s[i + 1]
         /\ \A i \in 1 .. Len(s) : s[i] = Head(s) \/ \E j \in 1 .. Len(Tail(s)) : Tail(s)[j] = s[i]
<1>1. /\ Head(s) \in R /\ Head(s) = s[1] /\ Len(s) \in Nat /\ 1 <= Len(s)
      /\ Tail(s) \in Seq(R) /\ Len(Tail(s)) = Len(s) - 1
      /\ \A i \in 1 .. Len(s) - 1 : Tail(s)[i] = s[i + 1]
  OBVIOUS
<1>2. ASSUME NEW i \in 1 .. Len(s)
      PROVE  s[i] = Head(s) \/ \E j \in 1 .. Len(Tail(s)) : Tail(s)[j] = s[i]
  <2>1. i = 1 \/ (i - 1 \in 1 .. Len(Tail(s)) /\ Tail(s)[i - 1] = s[i])
    BY <1>1
  <2>. QED  BY <1>1, <2>1
<1>. QED  BY <1>1, <1>2

(* Two limits take different scopes.                                       *)
LEMMA LimitsApart ==
  ASSUME NEW m \in Limits, NEW n \in Limits
  PROVE  /\ Selected(m) = Selected(n) => m = n
         /\ Selected(m) # <<>>
<1>1. Len(Selected(m)) = m /\ Len(Selected(n)) = n /\ 1 <= m /\ m \in Nat
  BY Spread
<1>2. Len(<<>>) = 0
  OBVIOUS
<1>. QED  BY <1>1, <1>2

(* The dates of a limit's runs in order.                                   *)
LEMMA DatesListed ==
  ASSUME NEW n \in Limits
  PROVE  LET R == RunDates(Groups(n))
             all == InOrder(R)
         IN /\ all \in Seq(R) /\ Len(all) \in Nat /\ Len(all) = Cardinality(R)
            /\ \A d \in R : \E i \in 1 .. Len(all) : all[i] = d
            /\ \A i, j \in 1 .. Len(all) : i < j => all[i] < all[j]
<1>. DEFINE R == RunDates(Groups(n))
            all == InOrder(R)
<1>1. R \in SUBSET Int /\ IsFiniteSet(R)
  <2>1. R \in SUBSET Nat /\ IsFiniteSet(R)
    BY RunsOf
  <2>. QED  BY <2>1
<1>. HIDE DEF R
<1>2. /\ Listing(all) /\ Len(all) = Cardinality(R)
      /\ all \in [1 .. Len(all) -> R]
      /\ \A x \in R : \E i \in 1 .. Len(all) : all[i] = x
      /\ \A i, j \in 1 .. Len(all) : i < j => all[i] < all[j]
  BY <1>1, InOrderFacts
<1>. HIDE DEF all
<1>3. all \in Seq(R) /\ Len(all) \in Nat
  BY <1>2 DEF Listing
<1>. QED  BY <1>2, <1>3 DEF R, all

(* A build starts with no file.                                            *)
LEMMA FilesStart ==
  Init => FilesInv /\ DatesInv /\ WalletsInv /\ ManifestInv
<1>. SUFFICES ASSUME Init PROVE FilesInv /\ DatesInv /\ WalletsInv /\ ManifestInv
  OBVIOUS
<1>1. DOMAIN streamFiles = {} /\ DOMAIN streamReceipts = {}
  BY DEF Init
<1>. QED  BY <1>1 DEF Init, FilesInv, DatesInv, WalletsInv, ManifestInv, Streaming, NoParticipants

(* The steps at the runs and the stream.                                   *)
LEMMA FilesSteps ==
  ASSUME FilesInv, DatesInv, [Next]_vars
  PROVE  FilesInv'
<1>. USE DEF FilesInv, Streaming
<1>1. CASE UNCHANGED vars
  BY <1>1 DEF vars, streams, decisions
<1>2. CASE Start
  BY <1>2 DEF Start, Begin, streams, decisions
<1>3. CASE BuildCatalog
  BY <1>3 DEF BuildCatalog, streams, decisions
<1>4. CASE NextBatch
  BY <1>4 DEF NextBatch, streams, decisions
<1>5. CASE \E g \in pool : BuildRun(g)
  BY <1>5 DEF BuildRun, streams, decisions
<1>6. CASE WriteRunsManifest
  BY <1>6 DEF WriteRunsManifest, MergedManifest, streams, decisions
<1>7. CASE KeepStreamDate
  BY <1>7 DEF KeepStreamDate, streams, decisions
<1>8. CASE WriteStreamFile
  <2>1. /\ streamFiles' = With(streamFiles, Head(todo), MergedDate(Groups(limit), Head(todo)))
        /\ Head(todo) \in RunDates(Groups(limit))
    BY <1>8 DEF WriteStreamFile, MergedManifest, DatesInv
  <2>2. \A d \in DOMAIN streamFiles' : \E n \in Limits :
          d \in RunDates(Groups(n)) /\ streamFiles'[d] = MergedDate(Groups(n), d)
    BY <2>1 DEF With
  <2>3. DOMAIN streamFiles \subseteq DOMAIN streamFiles'
    BY <2>1 DEF With
  <2>. QED  BY <1>8, <2>2, <2>3 DEF WriteStreamFile
<1>9. CASE WriteStreamReceipt
  <2>. DEFINE receiptNow == [scopes |-> runsManifest.scopes, content |-> streamFiles[Head(todo)]]
  <2>1. streamReceipts' = With(streamReceipts, Head(todo), receiptNow)
    BY <1>9 DEF WriteStreamReceipt
  <2>2. Head(todo) \in DOMAIN streamFiles /\ receiptNow = StreamReceipt(limit, Head(todo))
    BY <1>9 DEF WriteStreamReceipt, MergedManifest, DatesInv, StreamReceipt
  <2>. HIDE DEF receiptNow
  <2>3. /\ DOMAIN streamReceipts' = DOMAIN streamReceipts \cup {Head(todo)}
        /\ \A d \in DOMAIN streamReceipts' :
              streamReceipts'[d] = IF d = Head(todo) THEN receiptNow ELSE streamReceipts[d]
    BY <2>1 DEF With
  <2>4. limit' = limit /\ streamFiles' = streamFiles /\ runsManifest' = runsManifest /\ pc' = "stream"
    BY <1>9 DEF WriteStreamReceipt
  <2>5. ASSUME NEW d \in DOMAIN streamReceipts'
        PROVE  d \in DOMAIN streamFiles /\ \E n \in Limits : streamReceipts'[d] = StreamReceipt(n, d)
    <3>1. CASE d = Head(todo)
      BY <2>2, <2>3, <3>1
    <3>2. CASE d # Head(todo)
      BY <2>3, <3>2
    <3>. QED  BY <3>1, <3>2
  <2>6. pc \in Streaming
    BY <1>9 DEF WriteStreamReceipt
  <2>. QED  BY <2>4, <2>5, <2>6
<1>10. CASE EndStream
  BY <1>10 DEF EndStream, streams, decisions
<1>11. CASE WriteParticipants \/ WriteParticipantsReceipt \/ WriteStreamManifest
  BY <1>11 DEF WriteParticipants, WriteParticipantsReceipt, WriteStreamManifest
<1>12. CASE OpenDecisions \/ KeepDecisionDay \/ WriteDecisions \/ CommitDay
  BY <1>12 DEF OpenDecisions, KeepDecisionDay, WriteDecisions, CommitDay, streams, decisions
<1>13. CASE WriteDecisionManifest \/ WriteReceipt
  BY <1>13 DEF WriteDecisionManifest, WriteReceipt, streams, decisions
<1>14. CASE Pause \/ Kill
  BY <1>14 DEF Pause, Kill, Halt, streams, decisions
<1>15. CASE PolygonCompletes
  BY <1>15 DEF PolygonCompletes, streams, decisions
<1>. QED
  BY <1>1, <1>2, <1>3, <1>4, <1>5, <1>6, <1>7, <1>8, <1>9, <1>10, <1>11, <1>12, <1>13, <1>14, <1>15
     DEF Next, Work

(* The dates gone through keep their receipts.                             *)
LEMMA DatesSteps ==
  ASSUME FilesInv, DatesInv, [Next]_vars
  PROVE  DatesInv'
<1>. DEFINE R == RunDates(Groups(limit))
<1>1. CASE UNCHANGED vars
  BY <1>1 DEF DatesInv, Receipted, vars, streams, decisions
<1>2. CASE Start
  BY <1>2 DEF DatesInv, Start, Begin
<1>3. CASE BuildCatalog
  BY <1>3 DEF DatesInv, BuildCatalog
<1>4. CASE NextBatch
  BY <1>4 DEF DatesInv, NextBatch
<1>5. CASE \E g \in pool : BuildRun(g)
  BY <1>5 DEF DatesInv, BuildRun
<1>6. CASE WriteRunsManifest
  <2>1. todo' = InOrder(R) /\ limit' = limit /\ pc' = "stream"
    BY <1>6 DEF WriteRunsManifest
  <2>2. todo' \in Seq(R) /\ \A d \in R : \E i \in 1 .. Len(todo') : todo'[i] = d
    BY <2>1, DatesListed DEF FilesInv
  <2>. QED  BY <2>1, <2>2 DEF DatesInv
<1>7. CASE KeepStreamDate
  <2>1. /\ pc = "stream" /\ todo # <<>> /\ todo' = Tail(todo) /\ pc' = pc
        /\ limit' = limit /\ streamReceipts' = streamReceipts
        /\ Head(todo) \in DOMAIN streamReceipts
        /\ streamReceipts[Head(todo)].scopes = runsManifest.scopes
    BY <1>7 DEF KeepStreamDate, Streamed, streams
  <2>2. Receipted(limit, Head(todo))
    BY <2>1 DEF FilesInv, Streaming, MergedManifest, Receipted
  <2>3. /\ todo \in Seq(R)
        /\ \A d \in R : Receipted(limit, d) \/ \E i \in 1 .. Len(todo) : todo[i] = d
    BY <2>1 DEF DatesInv
  <2>4. todo' \in Seq(R) /\ \A i \in 1 .. Len(todo) :
           todo[i] = Head(todo) \/ \E j \in 1 .. Len(todo') : todo'[j] = todo[i]
    BY <2>1, <2>3, TailLists
  <2>. HIDE DEF R
  <2>5. ASSUME NEW d \in R
        PROVE  Receipted(limit, d) \/ \E i \in 1 .. Len(todo') : todo'[i] = d
    <3>1. CASE Receipted(limit, d)
      BY <3>1
    <3>2. CASE \E i \in 1 .. Len(todo) : todo[i] = d
      BY <2>2, <2>4, <3>2
    <3>. QED  BY <2>3, <3>1, <3>2
  <2>6. \A d : Receipted(limit, d)' <=> Receipted(limit, d)
    BY <2>1 DEF Receipted
  <2>. QED  BY <2>1, <2>4, <2>5, <2>6 DEF DatesInv, R
<1>8. CASE WriteStreamFile
  <2>1. /\ pc = "stream" /\ todo # <<>> /\ todo' = todo /\ pc' = "streamReceipt"
        /\ limit' = limit /\ streamReceipts' = streamReceipts
        /\ streamFiles' = With(streamFiles, Head(todo), MergedDate(Groups(limit), Head(todo)))
    BY <1>8 DEF WriteStreamFile, MergedManifest, FilesInv, Streaming
  <2>. QED  BY <2>1 DEF DatesInv, Receipted, With
<1>9. CASE WriteStreamReceipt
  <2>. DEFINE receiptNow == [scopes |-> runsManifest.scopes, content |-> streamFiles[Head(todo)]]
  <2>1. /\ pc = "streamReceipt" /\ todo # <<>> /\ todo' = Tail(todo) /\ pc' = "stream"
        /\ limit' = limit /\ streamReceipts' = With(streamReceipts, Head(todo), receiptNow)
    BY <1>9 DEF WriteStreamReceipt, DatesInv
  <2>2. receiptNow.scopes = Selected(limit)
    BY <2>1 DEF FilesInv, Streaming, MergedManifest
  <2>. HIDE DEF receiptNow
  <2>3. /\ \A d \in DOMAIN streamReceipts :
              /\ d \in DOMAIN streamReceipts'
              /\ streamReceipts'[d] = IF d = Head(todo) THEN receiptNow ELSE streamReceipts[d]
        /\ Head(todo) \in DOMAIN streamReceipts' /\ streamReceipts'[Head(todo)] = receiptNow
    BY <2>1 DEF With
  <2>. DEFINE Now(d) == d \in DOMAIN streamReceipts' /\ streamReceipts'[d].scopes = Selected(limit)
  <2>4. Now(Head(todo)) /\ \A d : Receipted(limit, d) => Now(d)
    BY <2>2, <2>3 DEF Receipted
  <2>4a. \A d : Receipted(limit, d)' <=> Now(d)
    BY <2>1 DEF Receipted
  <2>5. /\ todo \in Seq(R)
        /\ \A d \in R : Receipted(limit, d) \/ \E i \in 1 .. Len(todo) : todo[i] = d
    BY <2>1 DEF DatesInv
  <2>6. todo' \in Seq(R) /\ \A i \in 1 .. Len(todo) :
           todo[i] = Head(todo) \/ \E j \in 1 .. Len(todo') : todo'[j] = todo[i]
    BY <2>1, <2>5, TailLists
  <2>. HIDE DEF R, Now
  <2>7. ASSUME NEW d \in R
        PROVE  Now(d) \/ \E i \in 1 .. Len(todo') : todo'[i] = d
    <3>1. CASE Receipted(limit, d)
      BY <2>4, <3>1
    <3>2. CASE \E i \in 1 .. Len(todo) : todo[i] = d
      BY <2>4, <2>6, <3>2
    <3>. QED  BY <2>5, <3>1, <3>2
  <2>. QED  BY <2>1, <2>4a, <2>6, <2>7 DEF DatesInv, R
<1>10. CASE EndStream
  <2>1. /\ todo = <<>> /\ pc = "stream" /\ pc' \in {"refused", "streamManifest", "participants"}
        /\ limit' = limit /\ streamReceipts' = streamReceipts
    BY <1>10 DEF EndStream, streams
  <2>2. \A d \in R : Receipted(limit, d)
    <3>1. \A i \in 1 .. Len(todo) : FALSE
      BY <2>1
    <3>. QED  BY <2>1, <3>1 DEF DatesInv
  <2>3. \A d \in R : Receipted(limit, d)'
    BY <2>1, <2>2 DEF Receipted
  <2>. QED  BY <2>1, <2>3 DEF DatesInv
<1>11. CASE WriteParticipants \/ WriteParticipantsReceipt \/ WriteStreamManifest
  BY <1>11 DEF DatesInv, Receipted, WriteParticipants, WriteParticipantsReceipt, WriteStreamManifest
<1>12. CASE OpenDecisions \/ KeepDecisionDay \/ WriteDecisions \/ CommitDay
  BY <1>12 DEF DatesInv, OpenDecisions, KeepDecisionDay, WriteDecisions, CommitDay
<1>13. CASE WriteDecisionManifest \/ WriteReceipt
  BY <1>13 DEF DatesInv, WriteDecisionManifest, WriteReceipt
<1>14. CASE Pause \/ Kill
  BY <1>14 DEF DatesInv, Pause, Kill, Halt
<1>15. CASE PolygonCompletes
  BY <1>15 DEF DatesInv, Receipted, PolygonCompletes, streams, decisions
<1>. QED
  BY <1>1, <1>2, <1>3, <1>4, <1>5, <1>6, <1>7, <1>8, <1>9, <1>10, <1>11, <1>12, <1>13, <1>14, <1>15
     DEF Next, Work

(* The participants are those of the scopes beside them.                   *)
LEMMA WalletsSteps ==
  ASSUME FilesInv, WalletsInv, [Next]_vars
  PROVE  WalletsInv'
<1>. USE DEF WalletsInv
<1>1. CASE UNCHANGED vars
  BY <1>1 DEF vars, streams
<1>2. CASE Start
  BY <1>2 DEF Start, Begin, streams
<1>3. CASE BuildCatalog
  BY <1>3 DEF BuildCatalog, streams
<1>4. CASE NextBatch
  BY <1>4 DEF NextBatch, streams
<1>5. CASE \E g \in pool : BuildRun(g)
  BY <1>5 DEF BuildRun, streams
<1>6. CASE WriteRunsManifest
  BY <1>6 DEF WriteRunsManifest, streams
<1>7. CASE KeepStreamDate
  BY <1>7 DEF KeepStreamDate, streams
<1>8. CASE WriteStreamFile \/ WriteStreamReceipt
  BY <1>8 DEF WriteStreamFile, WriteStreamReceipt
<1>9. CASE EndStream
  <2>1. /\ participants' = participants /\ limit' = limit /\ pc = "stream"
        /\ pc' = "streamManifest" => participants.scopes = runsManifest.scopes
        /\ pc' # "participantsReceipt"
    BY <1>9 DEF EndStream, streams
  <2>2. runsManifest.scopes = Selected(limit)
    BY <2>1 DEF FilesInv, Streaming, MergedManifest
  <2>. QED  BY <2>1, <2>2
<1>10. CASE WriteParticipants
  <2>1. /\ participants' = [participants EXCEPT !.file = Wallets(Groups(limit))]
        /\ limit' = limit /\ pc' = "participantsReceipt"
    BY <1>10 DEF WriteParticipants, FilesInv, Streaming, MergedManifest
  <2>2. participants' = [file |-> Wallets(Groups(limit)), scopes |-> participants.scopes,
                         wallets |-> participants.wallets]
    BY <2>1
  <2>. QED  BY <2>1, <2>2
<1>11. CASE WriteParticipantsReceipt
  <2>1. /\ participants' = [participants EXCEPT !.scopes = Selected(limit), !.wallets = participants.file]
        /\ limit' = limit /\ pc' = "streamManifest" /\ pc = "participantsReceipt"
    <3>1. runsManifest.scopes = Selected(limit)
      BY <1>11 DEF WriteParticipantsReceipt, FilesInv, Streaming, MergedManifest
    <3>. QED  BY <1>11, <3>1 DEF WriteParticipantsReceipt
  <2>2. participants' = [file |-> participants.file, scopes |-> Selected(limit),
                         wallets |-> participants.file]
    BY <2>1
  <2>. QED  BY <2>1, <2>2 DEF FilesInv
<1>12. CASE WriteStreamManifest
  BY <1>12 DEF WriteStreamManifest
<1>13. CASE OpenDecisions \/ KeepDecisionDay \/ WriteDecisions \/ CommitDay
  BY <1>13 DEF OpenDecisions, KeepDecisionDay, WriteDecisions, CommitDay, streams
<1>14. CASE WriteDecisionManifest \/ WriteReceipt
  BY <1>14 DEF WriteDecisionManifest, WriteReceipt, streams
<1>15. CASE Pause \/ Kill
  BY <1>15 DEF Pause, Kill, Halt, streams
<1>16. CASE PolygonCompletes
  BY <1>16 DEF PolygonCompletes, streams
<1>. QED
  BY <1>1, <1>2, <1>3, <1>4, <1>5, <1>6, <1>7, <1>8, <1>9, <1>10, <1>11, <1>12, <1>13, <1>14, <1>15,
     <1>16 DEF Next, Work

(* The stream's manifest is written when every date is that limit's.       *)
LEMMA ManifestSteps ==
  ASSUME FilesInv, DatesInv, WalletsInv, ManifestInv, [Next]_vars
  PROVE  ManifestInv'
<1>1. ASSUME UNCHANGED streamManifest, DOMAIN streamFiles \subseteq DOMAIN streamFiles'
      PROVE  ManifestInv'
  <2>1. streamManifest' = streamManifest
    BY <1>1
  <2>2. CASE streamManifest = NoManifest
    BY <2>1, <2>2 DEF ManifestInv
  <2>3. CASE streamManifest # NoManifest
    <3>1. PICK n \in Limits : /\ Exact(streamManifest, n)
                              /\ streamManifest.rows = RowsIn(streamManifest.shards)
                              /\ RunDates(Groups(n)) \subseteq DOMAIN streamFiles
      BY <2>3 DEF ManifestInv
    <3>2. Exact(streamManifest, n)' /\ streamManifest'.rows = RowsIn(streamManifest'.shards)
      BY <2>1, <3>1 DEF Exact
    <3>3. RunDates(Groups(n)) \subseteq DOMAIN streamFiles'
      BY <1>1, <3>1
    <3>. QED  BY <3>2, <3>3 DEF ManifestInv
  <2>. QED  BY <2>2, <2>3
<1>2. CASE WriteStreamFile
  <2>1. DOMAIN streamFiles \subseteq DOMAIN streamFiles'
    BY <1>2 DEF WriteStreamFile, With
  <2>. QED  BY <1>1, <1>2, <2>1 DEF WriteStreamFile
<1>3. CASE WriteStreamManifest
  <2>. DEFINE R == RunDates(Groups(limit))
  <2>1. runsManifest = MergedManifest(limit) /\ limit \in Limits /\ pc = "streamManifest"
    BY <1>3 DEF WriteStreamManifest, FilesInv, Streaming
  <2>2. StreamDates = R
    BY <2>1 DEF StreamDates, MergedManifest
  <2>3. ASSUME NEW d \in R
        PROVE  streamReceipts[d].content = MergedDate(Groups(limit), d) /\ d \in DOMAIN streamFiles
    <3>1. Receipted(limit, d)
      BY <2>1 DEF DatesInv
    <3>2. PICK n \in Limits : streamReceipts[d] = StreamReceipt(n, d)
      BY <3>1 DEF FilesInv, Receipted
    <3>3. n = limit
      BY <2>1, <3>1, <3>2, LimitsApart DEF StreamReceipt, Receipted
    <3>4. d \in DOMAIN streamFiles
      BY <3>1 DEF FilesInv, Receipted
    <3>. QED  BY <3>2, <3>3, <3>4 DEF StreamReceipt
  <2>4. Shards = [d \in R |-> MergedDate(Groups(limit), d)]
    BY <2>2, <2>3 DEF Shards
  <2>5. participants.wallets = Wallets(Groups(limit))
    <3>1. participants.scopes = Selected(limit)
      BY <2>1 DEF WalletsInv
    <3>2. PICK n \in Limits : participants.scopes = Selected(n) /\ participants.wallets = Wallets(Groups(n))
      BY <2>1, <3>1, LimitsApart DEF WalletsInv
    <3>3. n = limit
      BY <2>1, <3>1, <3>2, LimitsApart
    <3>. QED  BY <3>2, <3>3
  <2>. DEFINE S == Shards
  <2>6. streamManifest' = [scopes |-> Selected(limit), full |-> runsManifest.full,
                           rows |-> RowsIn(S), wallets |-> participants.wallets, shards |-> S]
        /\ streamFiles' = streamFiles
    BY <1>3, <2>1 DEF WriteStreamManifest, MergedManifest
  <2>. HIDE DEF S
  <2>7. /\ streamManifest'.scopes = Selected(limit) /\ streamManifest'.rows = RowsIn(S)
        /\ streamManifest'.wallets = participants.wallets /\ streamManifest'.shards = S
    BY <2>6
  <2>8. Exact(streamManifest', limit)
    BY <2>4, <2>5, <2>7 DEF Exact, S
  <2>9. streamManifest'.rows = RowsIn(streamManifest'.shards)
    BY <2>7
  <2>10. R \subseteq DOMAIN streamFiles'
    BY <2>3, <2>6
  <2>. QED  BY <2>1, <2>8, <2>9, <2>10 DEF ManifestInv, Exact
<1>4. CASE UNCHANGED vars
  BY <1>1, <1>4 DEF vars, streams
<1>5. CASE Start \/ BuildCatalog \/ NextBatch \/ (\E g \in pool : BuildRun(g)) \/ WriteRunsManifest
  BY <1>1, <1>5 DEF Start, Begin, BuildCatalog, NextBatch, BuildRun, WriteRunsManifest, streams
<1>6. CASE KeepStreamDate \/ WriteStreamReceipt \/ EndStream \/ WriteParticipants \/ WriteParticipantsReceipt
  BY <1>1, <1>6 DEF KeepStreamDate, WriteStreamReceipt, EndStream, WriteParticipants,
                    WriteParticipantsReceipt, streams
<1>7. CASE OpenDecisions \/ KeepDecisionDay \/ WriteDecisions \/ CommitDay
  BY <1>1, <1>7 DEF OpenDecisions, KeepDecisionDay, WriteDecisions, CommitDay, streams
<1>8. CASE WriteDecisionManifest \/ WriteReceipt \/ Pause \/ Kill \/ PolygonCompletes
  BY <1>1, <1>8 DEF WriteDecisionManifest, WriteReceipt, Pause, Kill, Halt, PolygonCompletes, streams
<1>. QED
  BY <1>2, <1>3, <1>4, <1>5, <1>6, <1>7, <1>8 DEF Next, Work

(* What the build leaves on disk, after any stops, restarts and changes of *)
(* the limit: every file, receipt and manifest of the stream is one that   *)
(* some limit's runs make, and a command's dates each have a receipt of    *)
(* its own limit by the time it counts the rows.                           *)
StreamInv == FilesInv /\ DatesInv /\ WalletsInv /\ ManifestInv

(* The inductive invariant of the stream.                                  *)
THEOREM StreamInvariant == Spec => []StreamInv
<1>1. Init => StreamInv
  BY FilesStart DEF StreamInv
<1>2. StreamInv /\ [Next]_vars => StreamInv'
  <2>. SUFFICES ASSUME StreamInv, [Next]_vars PROVE StreamInv'
    OBVIOUS
  <2>1. FilesInv /\ DatesInv /\ WalletsInv /\ ManifestInv
    BY DEF StreamInv
  <2>. QED  BY <2>1, FilesSteps, DatesSteps, WalletsSteps, ManifestSteps DEF StreamInv
<1>. QED  BY <1>1, <1>2, PTL DEF Spec

(* No trade of the manifest's scopes is lost or doubled by the merges, the *)
(* stream is in time order and in each scope's own order, for any ledger,  *)
(* group size and limits, however often the build was stopped.             *)
THEOREM StreamIsAlwaysExact == Spec => []StreamExact
<1>1. StreamInv => StreamExact
  <2>. SUFFICES ASSUME StreamInv PROVE StreamExact
    OBVIOUS
  <2>1. CASE streamManifest = NoManifest
    BY <2>1 DEF StreamExact
  <2>2. CASE \E n \in Limits : Exact(streamManifest, n)
    BY <2>2, ExactStreams
  <2>. QED  BY <2>1, <2>2 DEF StreamInv, ManifestInv
<1>. QED  BY <1>1, StreamInvariant, PTL

(***************************************************************************)
(* What the decisions can be.  The dates of a limit are decided one after  *)
(* the other, each on a file that some limit with that date left there.    *)
(***************************************************************************)
Dates(n) == InOrder(RunDates(Groups(n)))
FirstDates(n, k) == {Dates(n)[i] : i \in 1 .. k}
ReadOf(source, d) == MergedDate(Groups(source[d]), d)

(* The passes over the first k dates of a limit, from nothing.             *)
Passes(index, n, flag, k, source, passes) ==
    /\ k \in 0 .. Len(Dates(n))
    /\ \A i \in 1 .. k : /\ source[Dates(n)[i]] \in Limits
                         /\ Dates(n)[i] \in RunDates(Groups(source[Dates(n)[i]]))
    /\ passes[0] = NoPass
    /\ \A i \in 1 .. k :
          passes[i] = Pass(index, passes[i - 1].states, ReadOf(source, Dates(n)[i]), flag)

(* A database has the first dates of its limit done.                       *)
Stored(index, n, flag, stored) ==
    \E k, source, passes :
        /\ Passes(index, n, flag, k, source, passes)
        /\ DOMAIN stored.days = FirstDates(n, k)
        /\ \A i \in 1 .. k : stored.days[Dates(n)[i]] =
              [content |-> passes[i].out, rows |-> Len(ReadOf(source, Dates(n)[i]))]
        /\ stored.states = passes[k].states

(* A manifest of decisions has all of them.                                *)
RowsDecided(n, source) == Total([i \in 1 .. Len(Dates(n)) |-> Len(ReadOf(source, Dates(n)[i]))],
                              1 .. Len(Dates(n)))
Decided(index, n, manifest) ==
    \E source, passes :
        /\ Passes(index, n, manifest.flag, Len(Dates(n)), source, passes)
        /\ manifest.scopes = Selected(n)
        /\ manifest.shards = [d \in RunDates(Groups(n)) |-> manifest.shards[d]]
        /\ \A i \in 1 .. Len(Dates(n)) : manifest.shards[Dates(n)[i]] = passes[i].out
        /\ manifest.rows = RowsDecided(n, source)

(* The dates of a limit, gone through one after the other.                 *)
LEMMA DatesFacts ==
  ASSUME NEW n \in Limits
  PROVE  /\ Len(Dates(n)) \in Nat /\ Dates(n) \in Seq(RunDates(Groups(n)))
         /\ \A i \in 1 .. Len(Dates(n)) : Dates(n)[i] \in RunDates(Groups(n))
         /\ \A i, j \in 1 .. Len(Dates(n)) : Dates(n)[i] = Dates(n)[j] => i = j
         /\ FirstDates(n, Len(Dates(n))) = RunDates(Groups(n))
         /\ FirstDates(n, 0) = {}
         /\ \A k \in 0 .. Len(Dates(n)) - 1 : FirstDates(n, k + 1) = FirstDates(n, k) \cup {Dates(n)[k + 1]}
         /\ \A k \in 0 .. Len(Dates(n)), i \in 1 .. Len(Dates(n)) :
               Dates(n)[i] \in FirstDates(n, k) <=> i <= k
<1>. DEFINE R == RunDates(Groups(n))
            D == Dates(n)
            N == Len(D)
<1>1. /\ D \in Seq(R) /\ N \in Nat
      /\ \A d \in R : \E i \in 1 .. N : D[i] = d
      /\ \A i, j \in 1 .. N : i < j => D[i] < D[j]
  BY DatesListed DEF Dates
<1>2. R \in SUBSET Nat
  BY RunsOf
<1>3. \A k : FirstDates(n, k) = {D[i] : i \in 1 .. k}
  BY DEF FirstDates
<1>. HIDE DEF R, D, N
<1>4. \A i \in 1 .. N : D[i] \in R
  BY <1>1 DEF N
<1>5. \A i, j \in 1 .. N : D[i] = D[j] => i = j
  <2>1. \A i \in 1 .. N : D[i] \in Nat
    BY <1>2, <1>4
  <2>. SUFFICES ASSUME NEW i \in 1 .. N, NEW j \in 1 .. N, D[i] = D[j], i # j PROVE FALSE
    OBVIOUS
  <2>2. i < j \/ j < i
    BY <1>1
  <2>. QED  BY <1>1, <2>1, <2>2
<1>6. FirstDates(n, N) = R
  <2>1. FirstDates(n, N) = {D[i] : i \in 1 .. N}
    BY <1>3
  <2>2. \A d \in R : \E i \in 1 .. N : D[i] = d
    BY <1>1
  <2>. QED  BY <1>4, <2>1, <2>2
<1>7. FirstDates(n, 0) = {}
  BY <1>3
<1>8. \A k \in 0 .. N - 1 : FirstDates(n, k + 1) = FirstDates(n, k) \cup {D[k + 1]}
  <2>. SUFFICES ASSUME NEW k \in 0 .. N - 1
                PROVE  FirstDates(n, k + 1) = FirstDates(n, k) \cup {D[k + 1]}
    OBVIOUS
  <2>1. 1 .. k + 1 = (1 .. k) \cup {k + 1}
    BY <1>1
  <2>. QED  BY <1>3, <2>1
<1>9. \A k \in 0 .. N, i \in 1 .. N : D[i] \in FirstDates(n, k) <=> i <= k
  <2>. SUFFICES ASSUME NEW k \in 0 .. N, NEW i \in 1 .. N
                PROVE  D[i] \in FirstDates(n, k) <=> i <= k
    OBVIOUS
  <2>1. i <= k => i \in 1 .. k
    BY <1>1
  <2>2. \A j \in 1 .. k : j \in 1 .. N /\ j <= k
    BY <1>1
  <2>. QED  BY <1>3, <1>5, <2>1, <2>2
<1>. QED  BY <1>1, <1>4, <1>5, <1>6, <1>7, <1>8, <1>9 DEF R, D, N

(* An empty database holds the passes over no date.                        *)
LEMMA StoredNothing ==
  ASSUME NEW index, NEW n \in Limits, NEW flag
  PROVE  Stored(index, n, flag, NoDays)
<1>. DEFINE passes == [i \in {0} |-> NoPass]
<1>1. Passes(index, n, flag, 0, <<>>, passes)
  BY DatesFacts DEF Passes
<1>2. passes[0].states = <<>>
  BY DEF NoPass
<1>3. DOMAIN NoDays.days = FirstDates(n, 0) /\ NoDays.states = <<>>
  BY DatesFacts DEF NoDays
<1>. HIDE DEF passes
<1>4. \A i \in 1 .. 0 : FALSE
  OBVIOUS
<1>. QED  BY <1>1, <1>2, <1>3, <1>4 DEF Stored

(* One more date: its pass goes on from where the database's states are.   *)
LEMMA StoredDay ==
  ASSUME NEW index, NEW n \in Limits, NEW flag, NEW stored, Stored(index, n, flag, stored),
         NEW j \in 0 .. Len(Dates(n)), j < Len(Dates(n)),
         FirstDates(n, j) \subseteq DOMAIN stored.days, Dates(n)[j + 1] \notin DOMAIN stored.days,
         NEW m \in Limits, Dates(n)[j + 1] \in RunDates(Groups(m)),
         NEW rows, rows = MergedDate(Groups(m), Dates(n)[j + 1]),
         NEW pass, pass = Pass(index, stored.states, rows, flag)
  PROVE  Stored(index, n, flag,
                [states |-> pass.states,
                 days |-> With(stored.days, Dates(n)[j + 1], [content |-> pass.out, rows |-> Len(rows)])])
<1>. DEFINE R == RunDates(Groups(n))
            D == Dates(n)
            N == Len(D)
            d == D[j + 1]
<1>1. PICK k, source, passes :
        /\ Passes(index, n, flag, k, source, passes)
        /\ DOMAIN stored.days = FirstDates(n, k)
        /\ \A i \in 1 .. k : stored.days[Dates(n)[i]] =
              [content |-> passes[i].out, rows |-> Len(ReadOf(source, Dates(n)[i]))]
        /\ stored.states = passes[k].states
  BY DEF Stored
<1>2. /\ N \in Nat /\ k \in 0 .. N /\ j \in Nat /\ j < N
      /\ \A i \in 1 .. N : D[i] \in R
      /\ \A i, l \in 1 .. N : D[i] = D[l] => i = l
      /\ \A h \in 0 .. N - 1 : FirstDates(n, h + 1) = FirstDates(n, h) \cup {D[h + 1]}
      /\ \A h \in 0 .. N, i \in 1 .. N : D[i] \in FirstDates(n, h) <=> i <= h
  BY <1>1, DatesFacts DEF Passes
<1>. HIDE DEF R, D, N
<1>3. k = j
  <2>1. j + 1 \in 1 .. N
    BY <1>2
  <2>2. ~ (j + 1 <= k)
    BY <1>1, <1>2, <2>1 DEF D
  <2>3. j = 0 \/ j <= k
    <3>1. j # 0 => j \in 1 .. N /\ j \in 0 .. N
      BY <1>2
    <3>2. j # 0 => D[j] \in FirstDates(n, j)
      BY <1>2, <3>1
    <3>3. j # 0 => D[j] \in FirstDates(n, k)
      BY <1>1, <3>2
    <3>. QED  BY <1>2, <3>1, <3>3
  <2>. QED  BY <1>2, <2>2, <2>3
<1>. DEFINE source2 == [x \in R |-> IF x = d THEN m ELSE source[x]]
            passes2 == [i \in 0 .. k + 1 |-> IF i = k + 1 THEN pass ELSE passes[i]]
            days2 == With(stored.days, d, [content |-> pass.out, rows |-> Len(rows)])
<1>4. k + 1 \in 1 .. N /\ k + 1 \in 0 .. N /\ k \in 0 .. N - 1 /\ k + 1 # k /\ k \in Nat
  BY <1>2, <1>3
<1>5. \A i \in 1 .. k : i \in 1 .. N /\ i # k + 1 /\ D[i] # d /\ i \in 0 .. k + 1 /\ i - 1 \in 0 .. k + 1 /\ i - 1 # k + 1
  <2>1. \A i \in 1 .. k : i \in 1 .. N /\ i # k + 1 /\ i \in 0 .. k + 1 /\ i - 1 \in 0 .. k + 1 /\ i - 1 # k + 1
    BY <1>2, <1>4
  <2>2. d = D[k + 1]
    BY <1>3
  <2>. QED  BY <1>2, <1>4, <2>1, <2>2
<1>6. \A i \in 1 .. k + 1 : i = k + 1 \/ i \in 1 .. k
  BY <1>4
<1>7. d \in R /\ d = D[k + 1]
  BY <1>2, <1>3, <1>4
<1>8. /\ source2[d] = m /\ \A i \in 1 .. k : source2[D[i]] = source[D[i]]
      /\ passes2[k + 1] = pass /\ \A i \in 0 .. k : passes2[i] = passes[i]
  <2>1. \A i \in 0 .. k : i \in 0 .. k + 1 /\ i # k + 1
    BY <1>4
  <2>2. k + 1 \in 0 .. k + 1
    BY <1>4
  <2>. QED  BY <1>2, <1>5, <1>7, <2>1, <2>2
<1>. HIDE DEF source2, passes2, d
<1>9. ReadOf(source2, d) = rows /\ \A i \in 1 .. k : ReadOf(source2, D[i]) = ReadOf(source, D[i])
  BY <1>8 DEF ReadOf, d, D
<1>10. /\ \A i \in 1 .. k : /\ source[D[i]] \in Limits /\ D[i] \in RunDates(Groups(source[D[i]]))
                            /\ passes[i] = Pass(index, passes[i - 1].states, ReadOf(source, D[i]), flag)
       /\ passes[0] = NoPass
  BY <1>1 DEF Passes, D
<1>11. Passes(index, n, flag, k + 1, source2, passes2)
  <2>1. passes2[0] = NoPass
    BY <1>4, <1>8, <1>10
  <2>2. ASSUME NEW i \in 1 .. k + 1
        PROVE  /\ source2[D[i]] \in Limits /\ D[i] \in RunDates(Groups(source2[D[i]]))
               /\ passes2[i] = Pass(index, passes2[i - 1].states, ReadOf(source2, D[i]), flag)
    <3>1. CASE i = k + 1
      <4>1. D[i] = d /\ i - 1 = k /\ passes2[k] = passes[k]
        BY <1>4, <1>7, <1>8, <3>1
      <4>2. pass = Pass(index, passes[k].states, rows, flag)
        BY <1>1
      <4>. QED  BY <1>8, <1>9, <3>1, <4>1, <4>2 DEF d, D
    <3>2. CASE i \in 1 .. k
      <4>1. i - 1 \in 0 .. k /\ i \in 0 .. k
        BY <1>4, <3>2
      <4>. QED  BY <1>8, <1>9, <1>10, <3>2, <4>1
    <3>. QED  BY <1>6, <3>1, <3>2
  <2>. QED  BY <1>4, <2>1, <2>2 DEF Passes, D, N
<1>12. DOMAIN days2 = FirstDates(n, k + 1)
  <2>1. DOMAIN days2 = DOMAIN stored.days \cup {d}
    BY DEF With
  <2>2. FirstDates(n, k + 1) = FirstDates(n, k) \cup {D[k + 1]}
    BY <1>2, <1>4
  <2>. QED  BY <1>1, <1>7, <2>1, <2>2
<1>13. ASSUME NEW i \in 1 .. k + 1
       PROVE  days2[D[i]] = [content |-> passes2[i].out, rows |-> Len(ReadOf(source2, D[i]))]
  <2>1. CASE i = k + 1
    <3>1. D[i] = d
      BY <1>7, <2>1
    <3>2. days2[d] = [content |-> pass.out, rows |-> Len(rows)]
      BY DEF With
    <3>. HIDE DEF days2
    <3>. QED  BY <1>8, <1>9, <2>1, <3>1, <3>2
  <2>2. CASE i \in 1 .. k
    <3>1. D[i] # d /\ D[i] \in DOMAIN stored.days
      BY <1>1, <1>5, <2>2 DEF FirstDates, D
    <3>2. days2[D[i]] = stored.days[D[i]]
      BY <3>1 DEF With
    <3>3. stored.days[D[i]] = [content |-> passes[i].out, rows |-> Len(ReadOf(source, D[i]))]
      BY <1>1, <2>2 DEF D
    <3>4. i \in 0 .. k
      BY <1>4, <2>2
    <3>. HIDE DEF days2
    <3>. QED  BY <1>8, <1>9, <2>2, <3>2, <3>3, <3>4
  <2>. QED  BY <1>6, <2>1, <2>2
<1>. DEFINE now == [states |-> pass.states, days |-> days2]
<1>. HIDE DEF days2
<1>14. now.days = days2 /\ now.states = passes2[k + 1].states
  BY <1>8
<1>15. Stored(index, n, flag, now)
  <2>. HIDE DEF now
  <2>. QED  BY <1>11, <1>12, <1>13, <1>14 DEF Stored, D
<1>. QED  BY <1>15 DEF days2, d, D

(***************************************************************************)
(* One spread of scopes beside the whole ledger.  The digest of a receipt  *)
(* and the presence of a file do not tell a file that another spread left  *)
(* there; the row totals do, where the spreads are nested.                 *)
(***************************************************************************)
OneSpread == \E n \in Limits : Limits \subseteq {n, Len(Scopes)}

(* The limit of all scopes takes the whole ledger.                         *)
LEMMA WholeLedger ==
  ASSUME Len(Scopes) \in Limits
  PROVE  TradesOf(Chosen(Len(Scopes))) = Ledger
<1>. DEFINE L == Len(Scopes)
<1>1. L \in Nat \ {0} /\ DOMAIN Scopes = 1 .. L
  BY ScopesAssumption
<1>2. \A i \in 1 .. L : ((i - 1) * L) \div L = i - 1
  <2>1. \A i \in 1 .. L : i - 1 \in Nat
    BY <1>1
  <2>. HIDE DEF L
  <2>. QED  BY <1>1, <2>1, Quotients
<1>3. \A i \in 1 .. L : Selected(L)[i] = i
  <2>. SUFFICES ASSUME NEW i \in 1 .. L PROVE Selected(L)[i] = i
    OBVIOUS
  <2>1. Selected(L)[i] = ((i - 1) * L) \div L + 1
    BY DEF Selected
  <2>2. (i - 1) + 1 = i
    BY <1>1
  <2>. QED  BY <1>2, <2>1, <2>2
<1>4. Chosen(L) = 1 .. L
  BY <1>3 DEF Chosen
<1>. QED  BY <1>1, <1>4, TradeFacts DEF TradesOf

(* The ledger is finite.                                                   *)
LEMMA LedgerFinite ==
  IsFiniteSet(Ledger)
<1>. DEFINE P == Places(Scopes)
            row == [p \in P |-> Row(Scopes, p)]
<1>1. IsFiniteSet(P)
  BY ScopesFacts, PlacesCount
<1>2. row \in Surjection(P, Ledger)
  BY DEF Surjection, Ledger
<1>. HIDE DEF P, row
<1>. QED  BY <1>1, <1>2, FS_Surjection

(* Rows of lists that hold the trades of S date by date.                   *)
LEMMA RowsByDate ==
  ASSUME NEW S \in SUBSET Ledger, NEW I, NEW date, NEW rows,
         \A i \in I : Lists(rows[i], Dated(S, date[i])),
         \A t \in S : \E i \in I : DateOf(t) = date[i],
         \A i, j \in I : date[i] = date[j] => i = j
  PROVE  Cardinality(S) = Total([i \in I |-> Len(rows[i])], I)
<1>. DEFINE part == [i \in I |-> Dated(S, date[i])]
            n == [i \in I |-> Len(rows[i])]
<1>1. IsFiniteSet(S)
  BY LedgerFinite, FS_Subset
<1>2. part \in [I -> SUBSET S] /\ \A i \in I : part[i] = Dated(S, date[i])
  BY DEF Dated
<1>3. \A i \in I : n[i] = Cardinality(part[i])
  <2>. SUFFICES ASSUME NEW i \in I PROVE n[i] = Cardinality(part[i])
    OBVIOUS
  <2>1. Dated(S, date[i]) \in SUBSET Ledger /\ Lists(rows[i], Dated(S, date[i]))
    BY DEF Dated
  <2>2. Cardinality(Dated(S, date[i])) = Len(rows[i])
    BY <2>1, ListsOnce
  <2>. QED  BY <2>2
<1>. HIDE DEF part, n
<1>4. \A t \in S : \E i \in I : t \in part[i]
  BY <1>2 DEF Dated
<1>5. \A i, j \in I : i # j => part[i] \cap part[j] = {}
  BY <1>2 DEF Dated
<1>6. Cardinality(S) = Total(n, I)
  BY <1>1, <1>2, <1>3, <1>4, <1>5, PartsAddUp
<1>. QED  BY <1>6 DEF n

(* The stream's rows are the trades of its limit.                          *)
LEMMA StreamRows ==
  ASSUME NEW n \in Limits, NEW shards,
         shards = [d \in RunDates(Groups(n)) |-> MergedDate(Groups(n), d)]
  PROVE  RowsIn(shards) = Cardinality(TradesOf(Chosen(n)))
<1>. DEFINE R == RunDates(Groups(n))
            T == TradesOf(Chosen(n))
            date == [d \in R |-> d]
            rows == shards
<1>1. DOMAIN shards = R /\ \A d \in R : Lists(shards[d], Dated(T, date[d]))
  BY MergedDateLists
<1>2. T \in SUBSET Ledger
  BY DEF TradesOf
<1>3. \A t \in T : \E d \in R : DateOf(t) = date[d]
  BY RunsOf
<1>4. \A d, e \in R : date[d] = date[e] => d = e
  OBVIOUS
<1>. HIDE DEF R, T, date
<1>4a. \A d \in R : Lists(rows[d], Dated(T, date[d]))
  BY <1>1
<1>. HIDE DEF rows
<1>5. Cardinality(T) = Total([d \in R |-> Len(rows[d])], R)
  BY <1>2, <1>3, <1>4, <1>4a, RowsByDate
<1>. QED  BY <1>1, <1>5 DEF RowsIn, T, rows

(* Files that hold as many rows as the limit's own hold the limit's own.   *)
LEMMA SameRows ==
  ASSUME OneSpread, NEW n \in Limits, NEW m \in Limits, NEW index, NEW flag, NEW source, NEW passes,
         Passes(index, m, flag, Len(Dates(m)), source, passes),
         RowsDecided(m, source) = Cardinality(TradesOf(Chosen(n)))
  PROVE  /\ RunDates(Groups(m)) = RunDates(Groups(n))
         /\ \A d \in RunDates(Groups(n)) : ReadOf(source, d) = MergedDate(Groups(n), d)
<1>. DEFINE R == RunDates(Groups(m))
            D == Dates(m)
            N == Len(D)
            T == TradesOf(Chosen(n))
            Read(d) == Dated(TradesOf(Chosen(source[d])), d)
            U == UNION {Read(d) : d \in R}
<1>1. /\ N \in Nat /\ \A i \in 1 .. N : D[i] \in R
      /\ \A i, j \in 1 .. N : D[i] = D[j] => i = j
      /\ R = {D[i] : i \in 1 .. N}
  BY DatesFacts DEF FirstDates
<1>2. \A d \in R : source[d] \in Limits /\ d \in RunDates(Groups(source[d]))
  BY <1>1 DEF Passes
<1>3. \A d \in R : Lists(ReadOf(source, d), Read(d)) /\ Read(d) \in SUBSET Ledger
  BY <1>2, MergedDateLists DEF ReadOf, Dated, TradesOf
<1>4. T \in SUBSET Ledger /\ U \in SUBSET Ledger
  BY <1>3 DEF TradesOf
<1>5. \A d \in R : Dated(U, d) = Read(d)
  BY DEF Dated
<1>6. \A t \in U : DateOf(t) \in R
  BY DEF Dated
<1>7. Cardinality(U) = RowsDecided(m, source)
  <2>. DEFINE rows == [i \in 1 .. N |-> ReadOf(source, D[i])]
              I == 1 .. N
  <2>1. \A i \in I : rows[i] = ReadOf(source, D[i])
    OBVIOUS
  <2>. HIDE DEF rows
  <2>2. \A i \in I : Lists(rows[i], Dated(U, D[i]))
    BY <1>1, <1>3, <1>5, <2>1
  <2>3. \A t \in U : \E i \in I : DateOf(t) = D[i]
    BY <1>1, <1>6
  <2>4. \A i, j \in I : D[i] = D[j] => i = j
    BY <1>1
  <2>. HIDE DEF U, D, N, I
  <2>5. Cardinality(U) = Total([i \in I |-> Len(rows[i])], I)
    BY <1>4, <2>2, <2>3, <2>4, RowsByDate
  <2>6. [i \in I |-> Len(rows[i])] = [i \in I |-> Len(ReadOf(source, D[i]))]
    BY <2>1
  <2>. QED  BY <2>5, <2>6 DEF RowsDecided, D, N, I
<1>8. IsFiniteSet(U) /\ IsFiniteSet(T) /\ IsFiniteSet(Ledger)
  <2>. HIDE DEF U, T
  <2>. QED  BY <1>4, LedgerFinite, FS_Subset
<1>8a. Cardinality(U) = Cardinality(T)
  BY <1>7
<1>9. U = T
  <2>1. CASE n = Len(Scopes)
    <3>1. T = Ledger
      BY <2>1, WholeLedger
    <3>. HIDE DEF U, T
    <3>. QED  BY <1>4, <1>8, <1>8a, <3>1, FS_Subset
  <2>2. CASE n # Len(Scopes)
    <3>1. \A k \in Limits : k = n \/ k = Len(Scopes)
      BY <2>2 DEF OneSpread
    <3>2. \A k \in Limits : T \subseteq TradesOf(Chosen(k))
      <4>. SUFFICES ASSUME NEW k \in Limits PROVE T \subseteq TradesOf(Chosen(k))
        OBVIOUS
      <4>1. CASE k = n
        BY <4>1
      <4>2. CASE k = Len(Scopes)
        BY <1>4, <4>2, WholeLedger
      <4>. QED  BY <3>1, <4>1, <4>2
    <3>3. ASSUME NEW t \in T
          PROVE  t \in U
      <4>1. t \in TradesOf(Chosen(m))
        BY <3>2
      <4>2. DateOf(t) \in R
        BY <4>1, RunsOf
      <4>3. t \in TradesOf(Chosen(source[DateOf(t)]))
        BY <1>2, <3>2, <4>2
      <4>. QED  BY <4>2, <4>3 DEF Dated
    <3>. HIDE DEF U, T
    <3>4. T \in SUBSET U
      BY <3>3
    <3>. QED  BY <1>8, <1>8a, <3>4, FS_Subset
  <2>. QED  BY <2>1, <2>2
<1>10. R = RunDates(Groups(n))
  <2>1. ASSUME NEW d \in R PROVE d \in RunDates(Groups(n))
    <3>1. PICK t \in TradesOf(Chosen(source[d])) : DateOf(t) = d
      BY <1>2, RunsOf
    <3>2. t \in U
      BY <3>1 DEF Dated
    <3>. QED  BY <1>9, <3>1, <3>2, RunsOf
  <2>2. ASSUME NEW d \in RunDates(Groups(n)) PROVE d \in R
    <3>1. PICK t \in T : DateOf(t) = d
      BY RunsOf
    <3>. HIDE DEF U, T
    <3>. QED  BY <1>6, <1>9, <3>1
  <2>. QED  BY <2>1, <2>2
<1>11. ASSUME NEW d \in R
       PROVE  ReadOf(source, d) = MergedDate(Groups(n), d)
  <2>. DEFINE a == ReadOf(source, d)
              b == MergedDate(Groups(n), d)
              V == Dated(T, d)
  <2>1. Lists(a, V)
    BY <1>3, <1>5, <1>9
  <2>2. Lists(b, V)
    BY MergedDateLists
  <2>3. V \in SUBSET Ledger
    BY <1>4 DEF Dated
  <2>4. a = [i \in DOMAIN a |-> a[i]]
    BY MergedDateFunction DEF ReadOf
  <2>4b. b = [i \in DOMAIN b |-> b[i]]
    BY MergedDateFunction
  <2>. HIDE DEF a, b, V
  <2>5. a = b
    BY <2>1, <2>2, <2>3, <2>4, <2>4b, ListsAgree
  <2>. QED  BY <2>5 DEF a, b
<1>. QED  BY <1>10, <1>11

(* The passes over all dates of a limit are the one pass over its stream.  *)
LEMMA OnePassOf ==
  ASSUME NEW n \in Limits, NEW flag, NEW source, NEW passes,
         Passes(catalog, n, flag, Len(Dates(n)), source, passes),
         NEW shards, DOMAIN shards = RunDates(Groups(n)),
         \A d \in RunDates(Groups(n)) : shards[d] = ReadOf(source, d)
  PROVE  /\ DOMAIN OnePass(shards, flag) = RunDates(Groups(n))
         /\ OnePass(shards, flag) = [d \in RunDates(Groups(n)) |-> OnePass(shards, flag)[d]]
         /\ \A i \in 1 .. Len(Dates(n)) : OnePass(shards, flag)[Dates(n)[i]] = passes[i].out
<1>. DEFINE R == RunDates(Groups(n))
            D == Dates(n)
            N == Len(D)
            days == InOrder(DOMAIN shards)
            Body(f) == [i \in 0 .. Len(days) |->
                          IF i = 0 THEN NoPass
                          ELSE Pass(catalog, f[i - 1].states, shards[days[i]], flag)]
            F == CHOOSE f : f = Body(f)
            h == [i \in 0 .. N |-> passes[i]]
<1>1. days = D
  BY DEF Dates
<1>2. /\ N \in Nat /\ \A i \in 1 .. N : D[i] \in R
      /\ \A i, j \in 1 .. N : D[i] = D[j] => i = j
      /\ R = {D[i] : i \in 1 .. N} /\ DOMAIN D = 1 .. N
  <2>1. D \in Seq(R) /\ N \in Nat
    BY DatesFacts
  <2>2. \A i \in 1 .. N : D[i] \in R
    BY DatesFacts
  <2>3. \A i, j \in 1 .. N : D[i] = D[j] => i = j
    BY DatesFacts
  <2>4. FirstDates(n, Len(Dates(n))) = R
    BY DatesFacts
  <2>5. R = {D[i] : i \in 1 .. N}
    BY <2>4 DEF FirstDates
  <2>. HIDE DEF R, D
  <2>6. DOMAIN D = 1 .. N
    BY <2>1
  <2>. QED  BY <2>1, <2>2, <2>3, <2>5, <2>6
<1>3. OnePass(shards, flag) = [d \in R |-> F[CHOOSE i \in DOMAIN D : D[i] = d].out]
  BY <1>1 DEF OnePass
<1>4. passes[0] = NoPass /\ \A i \in 1 .. N :
         passes[i] = Pass(catalog, passes[i - 1].states, shards[D[i]], flag)
  BY <1>2 DEF Passes
<1>. HIDE DEF R, D, N
<1>5. \A i \in 0 .. N : i = 0 \/ (i \in 1 .. N /\ i - 1 \in 0 .. N)
  BY <1>2
<1>6. h = Body(h)
  <2>1. \A i \in 0 .. N : h[i] = IF i = 0 THEN NoPass
                                 ELSE Pass(catalog, h[i - 1].states, shards[D[i]], flag)
    BY <1>4, <1>5
  <2>2. Body(h) = [i \in 0 .. N |-> IF i = 0 THEN NoPass
                                    ELSE Pass(catalog, h[i - 1].states, shards[D[i]], flag)]
    BY <1>1 DEF N
  <2>. QED  BY <2>1, <2>2
<1>7. F = Body(F)
  BY <1>6
<1>. HIDE DEF F
<1>8. F = [i \in 0 .. N |-> IF i = 0 THEN NoPass
                            ELSE Pass(catalog, F[i - 1].states, shards[D[i]], flag)]
  BY <1>1, <1>7 DEF N
<1>9. \A i \in 0 .. N : F[i] = passes[i]
  <2>. DEFINE T == {i \in 0 .. N : F[i] = passes[i]}
  <2>1. 0 \in T
    BY <1>2, <1>4, <1>8
  <2>2. \A i \in 1 .. N : F[i] = Pass(catalog, F[i - 1].states, shards[D[i]], flag) /\ i \in 0 .. N
    BY <1>2, <1>8
  <2>3. \A i \in 1 .. N : i - 1 \in T => i \in T
    BY <1>4, <2>2
  <2>. HIDE DEF T
  <2>4. \A i \in 0 .. N : i \in T
    BY <1>2, <2>1, <2>3, UpTo
  <2>. QED  BY <2>4 DEF T
<1>10. ASSUME NEW i \in 1 .. N
       PROVE  OnePass(shards, flag)[D[i]] = passes[i].out
  <2>. DEFINE place(d) == CHOOSE j \in DOMAIN D : D[j] = d
  <2>1. place(D[i]) = i
    BY <1>2
  <2>2. D[i] \in R /\ i \in 0 .. N
    BY <1>2
  <2>3. OnePass(shards, flag) = [d \in R |-> F[place(d)].out]
    BY <1>3
  <2>. HIDE DEF place
  <2>4. OnePass(shards, flag)[D[i]] = F[i].out
    BY <2>1, <2>2, <2>3
  <2>. QED  BY <1>9, <2>2, <2>4
<1>11. OnePass(shards, flag) = [d \in R |-> OnePass(shards, flag)[d]] /\ DOMAIN OnePass(shards, flag) = R
  BY <1>3
<1>. QED  BY <1>10, <1>11 DEF R, D, N

(* What a manifest with the stream's row total has decided.                *)
LEMMA DecidedOnePass ==
  ASSUME OneSpread, NEW n \in Limits, Exact(streamManifest, n),
         streamManifest.rows = RowsIn(streamManifest.shards),
         NEW m \in Limits, Decided(catalog, m, decisionManifest),
         streamManifest.rows = decisionManifest.rows
  PROVE  decisionManifest.shards = OnePass(streamManifest.shards, decisionManifest.flag)
<1>. DEFINE shards == streamManifest.shards
            flag == decisionManifest.flag
            R == RunDates(Groups(n))
            one == OnePass(shards, flag)
            made == decisionManifest.shards
<1>1. PICK source, passes :
        /\ Passes(catalog, m, flag, Len(Dates(m)), source, passes)
        /\ made = [d \in RunDates(Groups(m)) |-> made[d]]
        /\ \A i \in 1 .. Len(Dates(m)) : made[Dates(m)[i]] = passes[i].out
        /\ decisionManifest.rows = RowsDecided(m, source)
  BY DEF Decided
<1>2. shards = [d \in R |-> MergedDate(Groups(n), d)]
  BY DEF Exact
<1>3. RowsDecided(m, source) = Cardinality(TradesOf(Chosen(n)))
  BY <1>1, <1>2, StreamRows
<1>4. RunDates(Groups(m)) = R /\ \A d \in R : ReadOf(source, d) = MergedDate(Groups(n), d)
  BY <1>1, <1>3, SameRows
<1>5. DOMAIN shards = RunDates(Groups(m)) /\ \A d \in RunDates(Groups(m)) : shards[d] = ReadOf(source, d)
  BY <1>2, <1>4
<1>. HIDE DEF shards, flag, one, made
<1>6. /\ one = [d \in R |-> one[d]]
      /\ \A i \in 1 .. Len(Dates(m)) : one[Dates(m)[i]] = passes[i].out
  BY <1>1, <1>4, <1>5, OnePassOf DEF one
<1>7. R = {Dates(m)[i] : i \in 1 .. Len(Dates(m))}
  BY <1>4, DatesFacts DEF FirstDates
<1>8. \A d \in R : one[d] = made[d]
  BY <1>1, <1>6, <1>7
<1>. HIDE DEF R
<1>9. made = [d \in R |-> made[d]]
  BY <1>1, <1>4
<1>10. made = one
  BY <1>6, <1>8, <1>9
<1>. QED  BY <1>10 DEF made, one, shards, flag

(***************************************************************************)
(* The decisions' part of the state.                                       *)
(***************************************************************************)
Deciding == {"open", "decisions", "commit", "receipt"}

(* The catalog is built once, before anything is decided.                  *)
CatalogInv ==
    /\ catalog = NoCatalog \/ catalog = Catalog(atlas)
    /\ pc \in {"runs"} \cup Streaming \cup Deciding => catalog = Catalog(atlas)
    /\ DOMAIN decisionStates # {} \/ decisionManifest # NoManifest => catalog = Catalog(atlas)

StatesInv ==
    \A key \in DOMAIN decisionStates : \E n \in Limits :
        key = <<Selected(n), key[2]>> /\ Stored(Catalog(atlas), n, key[2], decisionStates[key])

MadeInv ==
    decisionManifest = NoManifest \/ \E n \in Limits : Decided(Catalog(atlas), n, decisionManifest)

(* A command at its decisions has gone through the first j dates.          *)
Underway(n, j, days, left) ==
    /\ j \in 0 .. Len(Dates(n))
    /\ left \in Seq(RunDates(Groups(n))) /\ Len(left) = Len(Dates(n)) - j
    /\ \A i \in 1 .. Len(left) : left[i] = Dates(n)[j + i]
    /\ FirstDates(n, j) \subseteq DOMAIN days
Recalled(n, j, days) == [d \in FirstDates(n, j) |-> days[d].content]
RowsSoFar(n, j, days) == Total([i \in 1 .. j |-> days[Dates(n)[i]].rows], 1 .. j)
Reading(n, j, done, held) ==
    /\ held.states = done.states /\ held.shards = Recalled(n, j, done.days)
    /\ held.rows = RowsSoFar(n, j, done.days)
HasRead(n, j, done, held, date, rows, pass) ==
    /\ date \notin DOMAIN done.days /\ held.states = pass.states
    /\ held.shards = With(Recalled(n, j, done.days), date, pass.out)
    /\ held.rows = RowsSoFar(n, j, done.days) + Len(rows)

WorkInv ==
    pc \in {"decisions", "commit"} =>
        /\ memory = [flag |-> memory.flag, states |-> memory.states, rows |-> memory.rows,
                     shards |-> memory.shards]
        /\ Database \in DOMAIN decisionStates
        /\ \E n \in Limits : \E j \in 0 .. Len(Dates(n)) :
              /\ streamManifest.scopes = Selected(n)
              /\ Underway(n, j, DaysDone, todo)
              /\ pc = "decisions" => Reading(n, j, decisionStates[Database], memory)
              /\ pc = "commit" => /\ todo # <<>>
                                  /\ HasRead(n, j, decisionStates[Database], memory,
                                             Head(todo), streamFiles[Head(todo)],
                                             Pass(catalog, decisionStates[Database].states,
                                                  streamFiles[Head(todo)], memory.flag))

EndInv ==
    /\ pc \in Deciding => streamManifest # NoManifest
    /\ pc = "receipt" => decisionManifest # NoManifest /\ decisionManifest.scopes = streamManifest.scopes
    /\ pc = "done" /\ receipt.structural =>
          /\ streamManifest # NoManifest /\ decisionManifest # NoManifest
          /\ decisionManifest.scopes = streamManifest.scopes
          /\ decisionManifest.rows = streamManifest.rows

(* What the steps leave alone.                                             *)
LEMMA Kept ==
  ASSUME [Next]_vars
  PROVE  /\ atlas' = atlas
         /\ catalog' = catalog \/ BuildCatalog
         /\ streamManifest' = streamManifest \/ WriteStreamManifest
         /\ decisionStates' = decisionStates \/ OpenDecisions \/ CommitDay
         /\ decisionManifest' = decisionManifest \/ WriteDecisionManifest
         /\ pc' \in {"decisions", "commit"} =>
               \/ OpenDecisions \/ KeepDecisionDay \/ WriteDecisions \/ CommitDay
               \/ UNCHANGED <<pc, todo, memory, streamFiles, streamManifest, decisionStates, catalog>>
<1>. DEFINE Goal == /\ atlas' = atlas
                    /\ catalog' = catalog \/ BuildCatalog
                    /\ streamManifest' = streamManifest \/ WriteStreamManifest
                    /\ decisionStates' = decisionStates \/ OpenDecisions \/ CommitDay
                    /\ decisionManifest' = decisionManifest \/ WriteDecisionManifest
                    /\ pc' \in {"decisions", "commit"} =>
                         \/ OpenDecisions \/ KeepDecisionDay \/ WriteDecisions \/ CommitDay
                         \/ UNCHANGED <<pc, todo, memory, streamFiles, streamManifest,
                                        decisionStates, catalog>>
<1>1. CASE UNCHANGED vars
  BY <1>1 DEF vars, streams, decisions
<1>2. CASE Start
  BY <1>2 DEF Start, Begin, streams, decisions
<1>3. CASE BuildCatalog
  <2>1. /\ atlas' = atlas /\ streamManifest' = streamManifest /\ decisionStates' = decisionStates
        /\ decisionManifest' = decisionManifest /\ pc' = "runs"
    BY <1>3 DEF BuildCatalog, streams, decisions
  <2>. QED  BY <1>3, <2>1
<1>4. CASE NextBatch
  BY <1>4 DEF NextBatch, streams, decisions
<1>5. CASE \E g \in pool : BuildRun(g)
  BY <1>5 DEF BuildRun, streams, decisions
<1>6. CASE WriteRunsManifest
  BY <1>6 DEF WriteRunsManifest, streams, decisions
<1>7. CASE KeepStreamDate
  BY <1>7 DEF KeepStreamDate, streams, decisions
<1>8. CASE WriteStreamFile \/ WriteStreamReceipt
  BY <1>8 DEF WriteStreamFile, WriteStreamReceipt, decisions
<1>9. CASE EndStream
  BY <1>9 DEF EndStream, streams, decisions
<1>10. CASE WriteParticipants \/ WriteParticipantsReceipt
  BY <1>10 DEF WriteParticipants, WriteParticipantsReceipt, decisions
<1>11. CASE WriteStreamManifest
  <2>1. /\ atlas' = atlas /\ catalog' = catalog /\ decisionStates' = decisionStates
        /\ decisionManifest' = decisionManifest /\ pc' = "open"
    BY <1>11 DEF WriteStreamManifest, decisions
  <2>. QED  BY <1>11, <2>1
<1>12. CASE OpenDecisions
  <2>1. /\ atlas' = atlas /\ catalog' = catalog /\ streamManifest' = streamManifest
        /\ decisionManifest' = decisionManifest
    BY <1>12 DEF OpenDecisions, streams
  <2>. QED  BY <1>12, <2>1
<1>13. CASE KeepDecisionDay
  <2>1. /\ atlas' = atlas /\ catalog' = catalog /\ streamManifest' = streamManifest
        /\ decisionStates' = decisionStates /\ decisionManifest' = decisionManifest
    BY <1>13 DEF KeepDecisionDay, streams, decisions
  <2>. QED  BY <1>13, <2>1
<1>14. CASE WriteDecisions
  <2>1. /\ atlas' = atlas /\ catalog' = catalog /\ streamManifest' = streamManifest
        /\ decisionStates' = decisionStates /\ decisionManifest' = decisionManifest
    BY <1>14 DEF WriteDecisions, streams
  <2>. QED  BY <1>14, <2>1
<1>15. CASE CommitDay
  <2>1. /\ atlas' = atlas /\ catalog' = catalog /\ streamManifest' = streamManifest
        /\ decisionManifest' = decisionManifest
    BY <1>15 DEF CommitDay, streams
  <2>. QED  BY <1>15, <2>1
<1>16. CASE WriteDecisionManifest
  <2>1. /\ atlas' = atlas /\ catalog' = catalog /\ streamManifest' = streamManifest
        /\ decisionStates' = decisionStates /\ pc' = "receipt"
    BY <1>16 DEF WriteDecisionManifest, streams
  <2>. QED  BY <1>16, <2>1
<1>17. CASE WriteReceipt
  BY <1>17 DEF WriteReceipt, streams, decisions
<1>18. CASE Pause \/ Kill
  BY <1>18 DEF Pause, Kill, Halt, streams, decisions
<1>19. CASE PolygonCompletes
  BY <1>19 DEF PolygonCompletes, streams, decisions
<1>. QED
  BY <1>1, <1>2, <1>3, <1>4, <1>5, <1>6, <1>7, <1>8, <1>9, <1>10, <1>11, <1>12, <1>13, <1>14, <1>15,
     <1>16, <1>17, <1>18, <1>19 DEF Next, Work

(* The catalog is that of the atlas, once built.                           *)
LEMMA CatalogSteps ==
  ASSUME CatalogInv, [Next]_vars
  PROVE  CatalogInv' /\ (catalog = Catalog(atlas) => catalog' = catalog)
<1>1. atlas' = atlas /\ (catalog' = catalog \/ BuildCatalog)
  BY Kept
<1>2. BuildCatalog => catalog' = Catalog(atlas)
  BY DEF BuildCatalog, CatalogInv
<1>3. catalog = Catalog(atlas) => catalog' = catalog
  BY <1>1, <1>2
<1>4. catalog' = NoCatalog \/ catalog' = Catalog(atlas)
  BY <1>1, <1>2 DEF CatalogInv
<1>5. ASSUME DOMAIN decisionStates' # {} \/ decisionManifest' # NoManifest
      PROVE  catalog' = Catalog(atlas)
  <2>1. CASE OpenDecisions \/ CommitDay \/ WriteDecisionManifest
    <3>1. pc \in Deciding
      BY <2>1 DEF OpenDecisions, CommitDay, WriteDecisionManifest, Deciding
    <3>. QED  BY <1>3, <3>1 DEF CatalogInv
  <2>2. CASE decisionStates' = decisionStates /\ decisionManifest' = decisionManifest
    BY <1>3, <1>5, <2>2 DEF CatalogInv
  <2>. QED  BY <2>1, <2>2, Kept
<1>6. ASSUME pc' \in {"runs"} \cup Streaming \cup Deciding
      PROVE  catalog' = Catalog(atlas)
  <2>1. CASE BuildCatalog
    BY <1>2, <2>1
  <2>2. CASE ~ BuildCatalog
    <3>1. pc \in {"runs"} \cup Streaming \cup Deciding
      <4>. USE DEF Streaming, Deciding
      <4>1. CASE UNCHANGED vars
        BY <1>6, <4>1 DEF vars
      <4>2. CASE Start
        BY <1>6, <4>2 DEF Start, Begin
      <4>3. CASE NextBatch \/ (\E g \in pool : BuildRun(g)) \/ WriteRunsManifest
        BY <4>3 DEF NextBatch, BuildRun, WriteRunsManifest
      <4>4. CASE KeepStreamDate \/ WriteStreamFile \/ WriteStreamReceipt \/ EndStream
        BY <4>4 DEF KeepStreamDate, WriteStreamFile, WriteStreamReceipt, EndStream
      <4>5. CASE WriteParticipants \/ WriteParticipantsReceipt \/ WriteStreamManifest
        BY <4>5 DEF WriteParticipants, WriteParticipantsReceipt, WriteStreamManifest
      <4>6. CASE OpenDecisions \/ KeepDecisionDay \/ WriteDecisions \/ CommitDay
        BY <4>6 DEF OpenDecisions, KeepDecisionDay, WriteDecisions, CommitDay
      <4>7. CASE WriteDecisionManifest \/ WriteReceipt
        BY <4>7 DEF WriteDecisionManifest, WriteReceipt
      <4>8. CASE Pause \/ Kill
        BY <1>6, <4>8 DEF Pause, Kill, Halt
      <4>9. CASE PolygonCompletes
        BY <1>6, <4>9 DEF PolygonCompletes
      <4>. QED  BY <2>2, <4>1, <4>2, <4>3, <4>4, <4>5, <4>6, <4>7, <4>8, <4>9 DEF Next, Work
    <3>. QED  BY <1>3, <3>1 DEF CatalogInv
  <2>. QED  BY <2>1, <2>2
<1>7. CatalogInv'
  BY <1>1, <1>4, <1>5, <1>6 DEF CatalogInv
<1>. QED  BY <1>3, <1>7

(* A build ends, or makes its receipt, only with a manifest of decisions.  *)
LEMMA EndSteps ==
  ASSUME EndInv, [Next]_vars
  PROVE  EndInv'
<1>. USE DEF EndInv, Deciding
<1>1. CASE UNCHANGED vars
  BY <1>1 DEF vars, streams, decisions
<1>2. CASE Start
  BY <1>2 DEF Start, Begin
<1>3. CASE BuildCatalog \/ NextBatch \/ (\E g \in pool : BuildRun(g)) \/ WriteRunsManifest
  BY <1>3 DEF BuildCatalog, NextBatch, BuildRun, WriteRunsManifest
<1>4. CASE KeepStreamDate \/ WriteStreamFile \/ WriteStreamReceipt \/ EndStream
  BY <1>4 DEF KeepStreamDate, WriteStreamFile, WriteStreamReceipt, EndStream
<1>5. CASE WriteParticipants \/ WriteParticipantsReceipt
  BY <1>5 DEF WriteParticipants, WriteParticipantsReceipt
<1>6. CASE WriteStreamManifest
  <2>1. DOMAIN streamManifest' # DOMAIN NoManifest /\ pc' = "open"
    BY <1>6 DEF WriteStreamManifest, NoManifest
  <2>. QED  BY <2>1
<1>7. CASE OpenDecisions \/ KeepDecisionDay \/ WriteDecisions \/ CommitDay
  BY <1>7 DEF OpenDecisions, KeepDecisionDay, WriteDecisions, CommitDay, streams
<1>8. CASE WriteDecisionManifest
  <2>1. /\ decisionManifest' = [scopes |-> streamManifest.scopes, rows |-> memory.rows,
                                flag |-> memory.flag, shards |-> memory.shards]
        /\ streamManifest' = streamManifest /\ pc = "decisions" /\ pc' = "receipt"
    BY <1>8 DEF WriteDecisionManifest, streams
  <2>2. DOMAIN decisionManifest' # DOMAIN NoManifest /\ decisionManifest'.scopes = streamManifest.scopes
    BY <2>1 DEF NoManifest
  <2>. QED  BY <2>1, <2>2
<1>9. CASE WriteReceipt
  BY <1>9 DEF WriteReceipt, Structural, streams, decisions
<1>10. CASE Pause \/ Kill
  BY <1>10 DEF Pause, Kill, Halt
<1>11. CASE PolygonCompletes
  BY <1>11 DEF PolygonCompletes, streams, decisions
<1>. QED
  BY <1>1, <1>2, <1>3, <1>4, <1>5, <1>6, <1>7, <1>8, <1>9, <1>10, <1>11 DEF Next, Work

(***************************************************************************)
(* The steps of the decisions.                                             *)
(***************************************************************************)

(* What a day in a database holds.                                         *)
LEMMA DayParts ==
  ASSUME NEW c, NEW l, NEW x, x = [content |-> c, rows |-> l]
  PROVE  x.content = c /\ x.rows = l
OBVIOUS

(* Rows of the days done are numbers.                                      *)
LEMMA StoredRows ==
  ASSUME NEW index, NEW n \in Limits, NEW flag, NEW stored, Stored(index, n, flag, stored)
  PROVE  \A d \in DOMAIN stored.days : stored.days[d].rows \in Nat
<1>1. PICK k, source, passes :
        /\ Passes(index, n, flag, k, source, passes)
        /\ DOMAIN stored.days = FirstDates(n, k)
        /\ \A i \in 1 .. k : stored.days[Dates(n)[i]] =
              [content |-> passes[i].out, rows |-> Len(ReadOf(source, Dates(n)[i]))]
  BY DEF Stored
<1>2. ASSUME NEW i \in 1 .. k
      PROVE  Len(ReadOf(source, Dates(n)[i])) \in Nat
  <2>1. source[Dates(n)[i]] \in Limits
    BY <1>1 DEF Passes
  <2>. QED  BY <2>1, MergedDateLists DEF ReadOf, Lists, Listing
<1>3. \A d \in DOMAIN stored.days : \E i \in 1 .. k : d = Dates(n)[i]
  BY <1>1 DEF FirstDates
<1>4. \A i \in 1 .. k : stored.days[Dates(n)[i]].rows \in Nat
  <2>. SUFFICES ASSUME NEW i \in 1 .. k PROVE stored.days[Dates(n)[i]].rows \in Nat
    OBVIOUS
  <2>. DEFINE c == passes[i].out
              l == Len(ReadOf(source, Dates(n)[i]))
              x == stored.days[Dates(n)[i]]
  <2>1. x = [content |-> c, rows |-> l]
    BY <1>1
  <2>2. l \in Nat
    BY <1>2
  <2>. HIDE DEF c, l, x
  <2>3. x.rows = l
    BY <2>1, DayParts
  <2>4. x.rows \in Nat
    BY <2>2, <2>3
  <2>. QED  BY <2>4 DEF x
<1>. QED  BY <1>3, <1>4

(* A total goes up by what the next entry holds.                           *)
LEMMA TotalNext ==
  ASSUME NEW j \in Nat, NEW f, NEW g, \A i \in 1 .. j : f[i] = g[i], \A i \in 1 .. j + 1 : g[i] \in Nat
  PROVE  Total(g, 1 .. j + 1) = Total(f, 1 .. j) + g[j + 1]
<1>. DEFINE S == 1 .. j + 1
            I == 1 .. j
<1>1. IsFiniteSet(S) /\ IsFiniteSet(I)
  BY OneTo
<1>2. j + 1 \in S /\ S \ {j + 1} = I
  OBVIOUS
<1>3. \A i \in S : g[i] \in Nat
  OBVIOUS
<1>4. \A i \in I : f[i] = g[i] /\ f[i] \in Nat
  OBVIOUS
<1>. HIDE DEF S, I
<1>5. Total(g, S) = g[j + 1] + Total(g, I)
  BY <1>1, <1>2, <1>3, TotalRemove
<1>6. Total(f, I) = Total(g, I)
  BY <1>4, TotalSame
<1>7. Total(f, I) \in Nat /\ g[j + 1] \in Nat
  BY <1>1, <1>2, <1>3, <1>4, TotalType
<1>8. Total(g, S) = Total(f, I) + g[j + 1]
  BY <1>5, <1>6, <1>7
<1>. QED  BY <1>8 DEF S, I

(* One more date gone through, with days that have it.                     *)
LEMMA OneDateOn ==
  ASSUME NEW n \in Limits, NEW j, NEW days, NEW left, Underway(n, j, days, left), left # <<>>,
         NEW after, DOMAIN days \subseteq DOMAIN after, Head(left) \in DOMAIN after,
         \A d \in FirstDates(n, j) : after[d] = days[d],
         \A d \in DOMAIN after : after[d].rows \in Nat
  PROVE  /\ j \in Nat /\ j < Len(Dates(n)) /\ j + 1 \in 0 .. Len(Dates(n))
         /\ Head(left) = Dates(n)[j + 1] /\ Head(left) \in RunDates(Groups(n))
         /\ Underway(n, j + 1, after, Tail(left))
         /\ Recalled(n, j + 1, after) = With(Recalled(n, j, days), Head(left), after[Head(left)].content)
         /\ RowsSoFar(n, j + 1, after) = RowsSoFar(n, j, days) + after[Head(left)].rows
<1>. DEFINE R == RunDates(Groups(n))
            D == Dates(n)
            N == Len(D)
            d == Head(left)
<1>1. /\ N \in Nat /\ \A i \in 1 .. N : D[i] \in R
      /\ \A k \in 0 .. N - 1 : FirstDates(n, k + 1) = FirstDates(n, k) \cup {D[k + 1]}
      /\ \A k \in 0 .. N, i \in 1 .. N : D[i] \in FirstDates(n, k) <=> i <= k
  BY DatesFacts
<1>2. /\ j \in 0 .. N /\ left \in Seq(R) /\ Len(left) = N - j
      /\ \A i \in 1 .. Len(left) : left[i] = D[j + i]
      /\ FirstDates(n, j) \subseteq DOMAIN days
  BY DEF Underway
<1>. HIDE DEF R, D, N, d
<1>3. /\ d \in R /\ d = left[1] /\ Len(left) \in Nat /\ 1 <= Len(left)
      /\ Tail(left) \in Seq(R) /\ Len(Tail(left)) = Len(left) - 1
      /\ \A i \in 1 .. Len(left) - 1 : Tail(left)[i] = left[i + 1]
  BY <1>2, TailLists DEF d
<1>4. j \in Nat /\ j < N /\ j + 1 \in 0 .. N /\ j + 1 \in 1 .. N /\ j \in 0 .. N - 1
  BY <1>1, <1>2, <1>3
<1>5. d = D[j + 1]
  BY <1>2, <1>3
<1>6. FirstDates(n, j + 1) = FirstDates(n, j) \cup {d} /\ d \notin FirstDates(n, j)
  <2>1. ~ (j + 1 <= j)
    BY <1>4
  <2>. QED  BY <1>1, <1>2, <1>4, <1>5, <2>1
<1>7. Underway(n, j + 1, after, Tail(left))
  <2>1. Len(Tail(left)) = N - (j + 1)
    BY <1>1, <1>2, <1>3, <1>4
  <2>2. ASSUME NEW i \in 1 .. Len(Tail(left))
        PROVE  Tail(left)[i] = D[(j + 1) + i]
    <3>1. i \in 1 .. Len(left) - 1 /\ i + 1 \in 1 .. Len(left) /\ j + (i + 1) = (j + 1) + i
      BY <1>3, <1>4
    <3>. QED  BY <1>2, <1>3, <3>1
  <2>3. FirstDates(n, j + 1) \subseteq DOMAIN after
    BY <1>2, <1>6 DEF d
  <2>. QED  BY <1>3, <1>4, <2>1, <2>2, <2>3 DEF Underway, R, D, N
<1>8. Recalled(n, j + 1, after) = With(Recalled(n, j, days), d, after[d].content)
  <2>. DEFINE F == FirstDates(n, j)
              old == Recalled(n, j, days)
  <2>1. DOMAIN old = F /\ \A x \in F : old[x] = after[x].content
    BY DEF Recalled
  <2>2. Recalled(n, j + 1, after) = [x \in F \cup {d} |-> after[x].content]
    BY <1>6 DEF Recalled
  <2>. HIDE DEF old, F
  <2>3. With(old, d, after[d].content) = [x \in F \cup {d} |-> IF x = d THEN after[d].content ELSE old[x]]
    BY <2>1 DEF With
  <2>4. \A x \in F \cup {d} : after[x].content = IF x = d THEN after[d].content ELSE old[x]
    BY <2>1
  <2>5. Recalled(n, j + 1, after) = With(old, d, after[d].content)
    BY <2>2, <2>3, <2>4
  <2>. QED  BY <2>5 DEF old
<1>9. RowsSoFar(n, j + 1, after) = RowsSoFar(n, j, days) + after[d].rows
  <2>. DEFINE f == [i \in 1 .. j |-> days[D[i]].rows]
              g == [i \in 1 .. j + 1 |-> after[D[i]].rows]
  <2>1. \A i \in 1 .. j : i \in 1 .. j + 1 /\ i \in 1 .. N /\ i <= j
    BY <1>1, <1>4
  <2>2. \A i \in 1 .. j : D[i] \in FirstDates(n, j)
    BY <1>1, <1>2, <2>1
  <2>3. \A i \in 1 .. j : f[i] = g[i]
    BY <2>1, <2>2
  <2>4. \A i \in 1 .. j + 1 : i = j + 1 \/ i \in 1 .. j
    BY <1>4
  <2>5. \A i \in 1 .. j + 1 : D[i] \in DOMAIN after
    BY <1>2, <1>5, <2>2, <2>4 DEF d
  <2>6. \A i \in 1 .. j + 1 : g[i] \in Nat
    BY <2>5
  <2>7. g[j + 1] = after[d].rows
    BY <1>4, <1>5
  <2>. HIDE DEF f, g
  <2>8. Total(g, 1 .. j + 1) = Total(f, 1 .. j) + g[j + 1]
    BY <1>4, <2>3, <2>6, TotalNext
  <2>. QED  BY <2>7, <2>8 DEF RowsSoFar, f, g, D
<1>. QED  BY <1>3, <1>4, <1>5, <1>7, <1>8, <1>9 DEF R, D, N, d

(* A database of a known key belongs to the limit of its scopes.           *)
LEMMA DatabaseOf ==
  ASSUME StatesInv, NEW n \in Limits, NEW key \in DOMAIN decisionStates, NEW flag,
         key = <<Selected(n), flag>>
  PROVE  Stored(Catalog(atlas), n, flag, decisionStates[key])
<1>1. PICK m \in Limits : /\ key = <<Selected(m), key[2]>>
                          /\ Stored(Catalog(atlas), m, key[2], decisionStates[key])
  BY DEF StatesInv
<1>2. Selected(m) = Selected(n) /\ key[2] = flag
  BY <1>1
<1>3. m = n
  BY <1>2, LimitsApart
<1>. QED  BY <1>1, <1>2, <1>3

(* The file a command at its decisions reads is one some limit left.       *)
LEMMA FileRead ==
  ASSUME FilesInv, ManifestInv, streamManifest # NoManifest, NEW n \in Limits,
         streamManifest.scopes = Selected(n), NEW d \in RunDates(Groups(n))
  PROVE  \E m \in Limits : d \in RunDates(Groups(m)) /\ streamFiles[d] = MergedDate(Groups(m), d)
<1>1. PICK k \in Limits : Exact(streamManifest, k) /\ RunDates(Groups(k)) \subseteq DOMAIN streamFiles
  BY DEF ManifestInv
<1>2. Selected(k) = Selected(n)
  BY <1>1 DEF Exact
<1>3. k = n
  BY <1>2, LimitsApart
<1>. QED  BY <1>1, <1>3 DEF FilesInv

(* A database is opened at the dates it has done.                          *)
LEMMA OpenSteps ==
  ASSUME FilesInv, ManifestInv, StatesInv, EndInv, OpenDecisions
  PROVE  WorkInv'
<1>. DEFINE key == <<streamManifest.scopes, polygon>>
            stored == IF key \in DOMAIN decisionStates THEN decisionStates[key] ELSE NoDays
<1>1. /\ pc = "open" /\ pc' = "decisions" /\ streamManifest' = streamManifest
      /\ decisionStates' = With(decisionStates, key, stored)
      /\ memory' = [NoMemory EXCEPT !.flag = polygon, !.states = stored.states]
      /\ todo' = InOrder(DOMAIN streamManifest.shards)
  BY DEF OpenDecisions, streams
<1>2. streamManifest # NoManifest
  BY <1>1 DEF EndInv, Deciding
<1>3. PICK n \in Limits : Exact(streamManifest, n)
  BY <1>2 DEF ManifestInv
<1>4. streamManifest.scopes = Selected(n) /\ DOMAIN streamManifest.shards = RunDates(Groups(n))
  BY <1>3 DEF Exact
<1>. HIDE DEF stored
<1>5. memory' = [flag |-> polygon, states |-> stored.states, rows |-> 0, shards |-> <<>>]
  BY <1>1 DEF NoMemory
<1>6. /\ memory'.flag = polygon /\ memory'.states = stored.states /\ memory'.rows = 0
      /\ memory'.shards = <<>>
  BY <1>5
<1>7. Database' = key
  BY <1>1, <1>6 DEF Database
<1>. HIDE DEF key
<1>8. key \in DOMAIN decisionStates' /\ decisionStates'[key] = stored
  BY <1>1 DEF With
<1>9. todo' = Dates(n)
  BY <1>1, <1>4 DEF Dates
<1>10. FirstDates(n, 0) = {} /\ Dates(n) \in Seq(RunDates(Groups(n))) /\ Len(Dates(n)) \in Nat
  BY DatesFacts
<1>11. Underway(n, 0, stored.days, todo')
  <2>1. \A i \in 1 .. Len(Dates(n)) : 0 + i = i
    BY <1>10
  <2>. QED  BY <1>9, <1>10, <2>1 DEF Underway
<1>12. Recalled(n, 0, stored.days) = <<>>
  BY <1>10 DEF Recalled
<1>13. RowsSoFar(n, 0, stored.days) = 0
  <2>. DEFINE f == [i \in 1 .. 0 |-> stored.days[Dates(n)[i]].rows]
              S == 1 .. 0
  <2>1. \A i \in S : f[i] = 0
    OBVIOUS
  <2>. HIDE DEF f, S
  <2>2. Total(f, S) = 0
    BY <2>1, TotalZero
  <2>. QED  BY <2>2 DEF RowsSoFar, f, S
<1>14. Reading(n, 0, stored, memory')
  BY <1>6, <1>12, <1>13 DEF Reading
<1>15. memory' = [flag |-> memory'.flag, states |-> memory'.states, rows |-> memory'.rows,
                  shards |-> memory'.shards]
  BY <1>5, <1>6
<1>16. DaysDone' = stored.days
  BY <1>7, <1>8 DEF DaysDone
<1>17. decisionStates'[Database'] = stored /\ Database' \in DOMAIN decisionStates'
  BY <1>7, <1>8
<1>18. 0 \in 0 .. Len(Dates(n)) /\ streamManifest'.scopes = Selected(n) /\ pc' = "decisions"
  BY <1>1, <1>4, <1>10
<1>. HIDE DEF Database, DaysDone
<1>. QED  BY <1>11, <1>14, <1>15, <1>16, <1>17, <1>18 DEF WorkInv

(* A date the database has is kept as it is.                               *)
LEMMA KeepSteps ==
  ASSUME StatesInv, WorkInv, KeepDecisionDay
  PROVE  WorkInv'
<1>1. /\ pc = "decisions" /\ todo # <<>> /\ Head(todo) \in DOMAIN DaysDone
      /\ streamManifest' = streamManifest /\ decisionStates' = decisionStates
      /\ streamFiles' = streamFiles /\ catalog' = catalog
  BY DEF KeepDecisionDay, streams, decisions
<1>2. CASE pc' = "refused"
  BY <1>2 DEF WorkInv
<1>3. CASE pc' # "refused"
  <2>. DEFINE date == Head(todo)
              done == decisionStates[Database]
              kept == DaysDone[date]
  <2>1. /\ memory' = [memory EXCEPT !.rows = @ + kept.rows, !.shards = With(@, date, kept.content)]
        /\ todo' = Tail(todo) /\ pc' = pc
    BY <1>3 DEF KeepDecisionDay
  <2>a. PICK n \in Limits : \E j \in 0 .. Len(Dates(n)) :
          /\ streamManifest.scopes = Selected(n)
          /\ Underway(n, j, DaysDone, todo)
          /\ Reading(n, j, decisionStates[Database], memory)
    BY <1>1 DEF WorkInv
  <2>2. PICK j \in 0 .. Len(Dates(n)) :
          /\ streamManifest.scopes = Selected(n)
          /\ Underway(n, j, DaysDone, todo)
          /\ Reading(n, j, decisionStates[Database], memory)
    BY <2>a
  <2>3. /\ memory = [flag |-> memory.flag, states |-> memory.states, rows |-> memory.rows,
                     shards |-> memory.shards]
        /\ Database \in DOMAIN decisionStates
    BY <1>1 DEF WorkInv
  <2>4. \A d \in DOMAIN DaysDone : DaysDone[d].rows \in Nat
    <3>1. Stored(Catalog(atlas), n, memory.flag, decisionStates[Database])
      BY <2>2, <2>3, DatabaseOf DEF Database
    <3>. QED  BY <3>1, StoredRows DEF DaysDone
  <2>5. DaysDone = done.days
    BY DEF DaysDone
  <2>. HIDE DEF DaysDone, kept, done, date
  <2>6. /\ j + 1 \in 0 .. Len(Dates(n))
        /\ Underway(n, j + 1, DaysDone, Tail(todo))
        /\ Recalled(n, j + 1, DaysDone) = With(Recalled(n, j, DaysDone), date, kept.content)
        /\ RowsSoFar(n, j + 1, DaysDone) = RowsSoFar(n, j, DaysDone) + kept.rows
    BY <1>1, <2>2, <2>4, OneDateOn DEF date, kept
  <2>7. /\ memory.states = done.states /\ memory.shards = Recalled(n, j, DaysDone)
        /\ memory.rows = RowsSoFar(n, j, DaysDone)
    BY <2>2, <2>5 DEF Reading, done
  <2>8. memory' = [flag |-> memory.flag, states |-> memory.states, rows |-> memory.rows + kept.rows,
                   shards |-> With(memory.shards, date, kept.content)]
    BY <2>1, <2>3
  <2>9. /\ memory'.flag = memory.flag /\ memory'.states = memory.states
        /\ memory'.rows = memory.rows + kept.rows
        /\ memory'.shards = With(memory.shards, date, kept.content)
    BY <2>8
  <2>10. memory' = [flag |-> memory'.flag, states |-> memory'.states, rows |-> memory'.rows,
                    shards |-> memory'.shards]
    BY <2>8, <2>9
  <2>11. Reading(n, j + 1, done, memory')
    BY <2>5, <2>6, <2>7, <2>9 DEF Reading
  <2>12. Database' = Database
    BY <1>1, <2>9 DEF Database
  <2>13. DaysDone' = DaysDone /\ decisionStates'[Database'] = done
    BY <1>1, <2>12 DEF DaysDone, done
  <2>14. /\ streamManifest'.scopes = Selected(n) /\ pc' = "decisions"
         /\ Database' \in DOMAIN decisionStates' /\ todo' = Tail(todo)
    BY <1>1, <2>1, <2>2, <2>3, <2>12
  <2>. HIDE DEF Database
  <2>. QED  BY <2>6, <2>10, <2>11, <2>13, <2>14 DEF WorkInv
<1>. QED  BY <1>2, <1>3

(* A date's file is read, and its decisions made in memory.                *)
LEMMA ReadSteps ==
  ASSUME CatalogInv, StatesInv, WorkInv, WriteDecisions
  PROVE  WorkInv'
<1>. DEFINE date == Head(todo)
            done == decisionStates[Database]
            rows == streamFiles[date]
            pass == Pass(catalog, memory.states, rows, memory.flag)
<1>1. /\ pc = "decisions" /\ todo # <<>> /\ date \notin DOMAIN DaysDone
      /\ streamManifest' = streamManifest /\ decisionStates' = decisionStates
      /\ streamFiles' = streamFiles /\ catalog' = catalog /\ todo' = todo /\ pc' = "commit"
      /\ memory' = [memory EXCEPT !.states = pass.states, !.rows = @ + Len(rows),
                                  !.shards = With(@, date, pass.out)]
  BY DEF WriteDecisions, streams, RowsRead
<1>a. PICK n \in Limits : \E j \in 0 .. Len(Dates(n)) :
        /\ streamManifest.scopes = Selected(n)
        /\ Underway(n, j, DaysDone, todo)
        /\ Reading(n, j, decisionStates[Database], memory)
  BY <1>1 DEF WorkInv
<1>2. PICK j \in 0 .. Len(Dates(n)) :
        /\ streamManifest.scopes = Selected(n)
        /\ Underway(n, j, DaysDone, todo)
        /\ Reading(n, j, decisionStates[Database], memory)
  BY <1>a
<1>3. /\ memory = [flag |-> memory.flag, states |-> memory.states, rows |-> memory.rows,
                   shards |-> memory.shards]
      /\ Database \in DOMAIN decisionStates
  BY <1>1 DEF WorkInv
<1>4. DaysDone = done.days
  BY DEF DaysDone
<1>5. /\ memory.states = done.states /\ memory.shards = Recalled(n, j, done.days)
      /\ memory.rows = RowsSoFar(n, j, done.days)
  BY <1>2 DEF Reading
<1>6. pass = Pass(catalog, done.states, rows, memory.flag)
  BY <1>5
<1>. HIDE DEF pass, rows, done, date, DaysDone
<1>7. memory' = [flag |-> memory.flag, states |-> pass.states, rows |-> memory.rows + Len(rows),
                 shards |-> With(memory.shards, date, pass.out)]
  BY <1>1, <1>3
<1>8. /\ memory'.flag = memory.flag /\ memory'.states = pass.states
      /\ memory'.rows = memory.rows + Len(rows)
      /\ memory'.shards = With(memory.shards, date, pass.out)
  BY <1>7
<1>9. memory' = [flag |-> memory'.flag, states |-> memory'.states, rows |-> memory'.rows,
                 shards |-> memory'.shards]
  BY <1>7, <1>8
<1>10. HasRead(n, j, done, memory', date, rows, pass)
  BY <1>1, <1>4, <1>5, <1>8 DEF HasRead
<1>11. Database' = Database
  BY <1>1, <1>8 DEF Database
<1>12. DaysDone' = DaysDone /\ decisionStates'[Database'] = done
  BY <1>1, <1>11 DEF DaysDone, done
<1>13. Head(todo') = date /\ streamFiles'[Head(todo')] = rows /\ todo' # <<>>
       /\ pass = Pass(catalog', done.states, streamFiles'[Head(todo')], memory'.flag)
  BY <1>1, <1>6, <1>8 DEF date, rows
<1>14. /\ streamManifest'.scopes = Selected(n) /\ pc' = "commit" /\ Database' \in DOMAIN decisionStates'
       /\ Underway(n, j, DaysDone', todo')
  BY <1>1, <1>2, <1>3, <1>11, <1>12
<1>. HIDE DEF Database
<1>. QED  BY <1>9, <1>10, <1>12, <1>13, <1>14 DEF WorkInv

(* A day is committed with its counts.                                     *)
LEMMA CommitSteps ==
  ASSUME FilesInv, ManifestInv, CatalogInv, StatesInv, WorkInv, EndInv, CommitDay
  PROVE  WorkInv' /\ StatesInv'
<1>. DEFINE date == Head(todo)
            done == decisionStates[Database]
            rows == streamFiles[date]
            pass == Pass(catalog, done.states, rows, memory.flag)
            day == [content |-> memory.shards[date], rows |-> Len(rows)]
            now == [states |-> memory.states, days |-> With(done.days, date, day)]
<1>1. /\ pc = "commit" /\ pc' = "decisions" /\ todo' = Tail(todo)
      /\ atlas' = atlas /\ catalog' = catalog /\ memory' = memory /\ streamManifest' = streamManifest
      /\ streamFiles' = streamFiles
      /\ decisionStates' = [decisionStates EXCEPT ![Database] = now]
  BY DEF CommitDay, streams, Committed, RowsRead
<1>a. PICK n \in Limits : \E j \in 0 .. Len(Dates(n)) :
        /\ streamManifest.scopes = Selected(n)
        /\ Underway(n, j, DaysDone, todo) /\ todo # <<>>
        /\ HasRead(n, j, done, memory, date, rows, pass)
  BY <1>1 DEF WorkInv
<1>2. PICK j \in 0 .. Len(Dates(n)) :
        /\ streamManifest.scopes = Selected(n)
        /\ Underway(n, j, DaysDone, todo) /\ todo # <<>>
        /\ HasRead(n, j, done, memory, date, rows, pass)
  BY <1>a
<1>3. /\ memory = [flag |-> memory.flag, states |-> memory.states, rows |-> memory.rows,
                   shards |-> memory.shards]
      /\ Database \in DOMAIN decisionStates /\ catalog = Catalog(atlas)
      /\ streamManifest # NoManifest
  BY <1>1 DEF WorkInv, CatalogInv, Deciding, EndInv
<1>4. DaysDone = done.days
  BY DEF DaysDone
<1>5. Stored(catalog, n, memory.flag, done)
  BY <1>2, <1>3, DatabaseOf DEF Database
<1>. HIDE DEF pass, day, now
<1>6. /\ date \notin DOMAIN done.days /\ memory.states = pass.states
      /\ memory.shards = With(Recalled(n, j, done.days), date, pass.out)
      /\ memory.rows = RowsSoFar(n, j, done.days) + Len(rows)
  BY <1>2 DEF HasRead
<1>7. memory.shards[date] = pass.out
  BY <1>6 DEF With
<1>8. day = [content |-> pass.out, rows |-> Len(rows)] /\ day.content = pass.out /\ day.rows = Len(rows)
  BY <1>7 DEF day
<1>. HIDE DEF rows, done, date
<1>9. now.states = pass.states /\ now.days = With(done.days, date, day)
  BY <1>6 DEF now
<1>10. /\ DOMAIN now.days = DOMAIN done.days \cup {date} /\ now.days[date] = day
       /\ \A d \in DOMAIN done.days : now.days[d] = done.days[d]
  BY <1>6, <1>9 DEF With
<1>11. date \in RunDates(Groups(n)) /\ j < Len(Dates(n)) /\ date = Dates(n)[j + 1] /\ j \in Nat
       /\ FirstDates(n, j) \subseteq DOMAIN done.days
  <2>1. /\ todo \in Seq(RunDates(Groups(n))) /\ Len(todo) = Len(Dates(n)) - j
        /\ \A i \in 1 .. Len(todo) : todo[i] = Dates(n)[j + i]
        /\ FirstDates(n, j) \subseteq DOMAIN done.days
    BY <1>2, <1>4 DEF Underway
  <2>2. date \in RunDates(Groups(n)) /\ date = todo[1] /\ 1 <= Len(todo) /\ Len(todo) \in Nat
    BY <1>2, <2>1, TailLists DEF date
  <2>3. Len(Dates(n)) \in Nat
    BY DatesFacts
  <2>. QED  BY <2>1, <2>2, <2>3
<1>12. PICK m \in Limits : date \in RunDates(Groups(m)) /\ rows = MergedDate(Groups(m), date)
  BY <1>2, <1>3, <1>11, FileRead DEF rows
<1>13. pass = Pass(catalog, done.states, rows, memory.flag)
  BY DEF pass, done, rows
<1>14. Stored(catalog, n, memory.flag, now)
  <2>1. now = [states |-> pass.states, days |-> With(done.days, date, [content |-> pass.out, rows |-> Len(rows)])]
    BY <1>6, <1>8 DEF now
  <2>2. /\ FirstDates(n, j) \subseteq DOMAIN done.days
        /\ Dates(n)[j + 1] \notin DOMAIN done.days
        /\ Dates(n)[j + 1] \in RunDates(Groups(m))
        /\ rows = MergedDate(Groups(m), Dates(n)[j + 1])
    BY <1>6, <1>11, <1>12
  <2>3. Stored(catalog, n, memory.flag,
               [states |-> pass.states,
                days |-> With(done.days, Dates(n)[j + 1], [content |-> pass.out, rows |-> Len(rows)])])
    BY <1>5, <1>11, <1>13, <2>2, StoredDay
  <2>. QED  BY <1>11, <2>1, <2>3
<1>15. \A d \in DOMAIN now.days : now.days[d].rows \in Nat
  BY <1>14, StoredRows
<1>16. /\ j + 1 \in 0 .. Len(Dates(n))
       /\ Underway(n, j + 1, now.days, Tail(todo))
       /\ Recalled(n, j + 1, now.days) = With(Recalled(n, j, done.days), date, day.content)
       /\ RowsSoFar(n, j + 1, now.days) = RowsSoFar(n, j, done.days) + day.rows
  <2>1. Underway(n, j, done.days, todo) /\ todo # <<>>
    BY <1>2, <1>4
  <2>2. /\ DOMAIN done.days \subseteq DOMAIN now.days /\ Head(todo) \in DOMAIN now.days
        /\ \A d \in FirstDates(n, j) : now.days[d] = done.days[d]
    BY <1>10, <1>11 DEF date
  <2>. QED  BY <1>10, <1>15, <2>1, <2>2, OneDateOn DEF date
<1>17. Reading(n, j + 1, now, memory')
  BY <1>1, <1>6, <1>8, <1>9, <1>16 DEF Reading
<1>18. Database' = Database
  BY <1>1 DEF Database
<1>19. decisionStates'[Database'] = now /\ Database' \in DOMAIN decisionStates'
  BY <1>1, <1>3, <1>18
<1>20. DaysDone' = now.days
  BY <1>19 DEF DaysDone
<1>21. WorkInv'
  <2>1. streamManifest'.scopes = Selected(n) /\ pc' = "decisions" /\ todo' = Tail(todo)
        /\ memory' = [flag |-> memory'.flag, states |-> memory'.states, rows |-> memory'.rows,
                      shards |-> memory'.shards]
    BY <1>1, <1>2, <1>3
  <2>. HIDE DEF Database, DaysDone
  <2>. QED  BY <1>16, <1>17, <1>19, <1>20, <2>1 DEF WorkInv
<1>22. StatesInv'
  <2>1. Database = <<Selected(n), Database[2]>> /\ Database[2] = memory.flag
    BY <1>2 DEF Database
  <2>. HIDE DEF Database
  <2>2. ASSUME NEW key \in DOMAIN decisionStates
        PROVE  \E k \in Limits : /\ key = <<Selected(k), key[2]>>
                                 /\ Stored(Catalog(atlas), k, key[2], decisionStates'[key])
    <3>1. CASE key = Database
      <4>1. decisionStates'[key] = now
        BY <1>1, <3>1
      <4>. QED  BY <1>3, <1>14, <2>1, <3>1, <4>1
    <3>2. CASE key # Database
      <4>1. decisionStates'[key] = decisionStates[key]
        BY <1>1, <3>2
      <4>. QED  BY <4>1 DEF StatesInv
    <3>. QED  BY <3>1, <3>2
  <2>3. DOMAIN decisionStates' = DOMAIN decisionStates
    BY <1>1
  <2>. QED  BY <1>1, <2>2, <2>3 DEF StatesInv
<1>. QED  BY <1>21, <1>22

(* Whatever step is made, the work agrees with its database.               *)
LEMMA WorkSteps ==
  ASSUME FilesInv, ManifestInv, CatalogInv, StatesInv, WorkInv, EndInv, [Next]_vars
  PROVE  WorkInv'
<1>1. CASE OpenDecisions
  BY <1>1, OpenSteps
<1>2. CASE KeepDecisionDay
  BY <1>2, KeepSteps
<1>3. CASE WriteDecisions
  BY <1>3, ReadSteps
<1>4. CASE CommitDay
  BY <1>4, CommitSteps
<1>5. CASE UNCHANGED <<pc, todo, memory, streamFiles, streamManifest, decisionStates, catalog>>
  BY <1>5 DEF WorkInv, Database, DaysDone
<1>6. CASE pc' \notin {"decisions", "commit"}
  BY <1>6 DEF WorkInv
<1>. QED  BY <1>1, <1>2, <1>3, <1>4, <1>5, <1>6, Kept

(* Whatever step is made, each database holds passes from nothing.         *)
LEMMA StatesSteps ==
  ASSUME FilesInv, ManifestInv, CatalogInv, StatesInv, WorkInv, EndInv, [Next]_vars
  PROVE  StatesInv'
<1>1. CASE OpenDecisions
  <2>. DEFINE key == <<streamManifest.scopes, polygon>>
              stored == IF key \in DOMAIN decisionStates THEN decisionStates[key] ELSE NoDays
  <2>1. pc = "open" /\ decisionStates' = With(decisionStates, key, stored)
    BY <1>1 DEF OpenDecisions
  <2>2. streamManifest # NoManifest
    BY <2>1 DEF EndInv, Deciding
  <2>3. PICK n \in Limits : streamManifest.scopes = Selected(n)
    BY <2>2 DEF ManifestInv, Exact
  <2>4. key = <<Selected(n), key[2]>>
    BY <2>3
  <2>. HIDE DEF key
  <2>5. ASSUME NEW k \in DOMAIN decisionStates'
        PROVE  \E m \in Limits : /\ k = <<Selected(m), k[2]>>
                                 /\ Stored(Catalog(atlas), m, k[2], decisionStates'[k])
    <3>1. CASE k \in DOMAIN decisionStates
      <4>1. decisionStates'[k] = decisionStates[k]
        BY <2>1, <3>1 DEF With
      <4>. QED  BY <3>1, <4>1 DEF StatesInv
    <3>2. CASE k \notin DOMAIN decisionStates
      <4>1. k = key /\ decisionStates'[k] = NoDays
        BY <2>1, <3>2 DEF With
      <4>. QED  BY <2>4, <4>1, StoredNothing
    <3>. QED  BY <3>1, <3>2
  <2>6. atlas' = atlas
    BY Kept
  <2>. QED  BY <2>5, <2>6 DEF StatesInv
<1>2. CASE CommitDay
  BY <1>2, CommitSteps
<1>3. CASE decisionStates' = decisionStates
  <2>1. atlas' = atlas
    BY Kept
  <2>. QED  BY <1>3, <2>1 DEF StatesInv
<1>. QED  BY <1>1, <1>2, <1>3, Kept

(* The manifest of decisions is that of a database with every date.        *)
LEMMA MadeSteps ==
  ASSUME CatalogInv, StatesInv, WorkInv, MadeInv, [Next]_vars
  PROVE  MadeInv'
<1>1. CASE WriteDecisionManifest
  <2>. DEFINE done == decisionStates[Database]
              flag == memory.flag
              days == done.days
  <2>1. /\ pc = "decisions" /\ todo = <<>> /\ atlas' = atlas
        /\ decisionManifest' = [scopes |-> streamManifest.scopes, rows |-> memory.rows,
                                flag |-> flag, shards |-> memory.shards]
    BY <1>1 DEF WriteDecisionManifest
  <2>a. PICK n \in Limits : \E j \in 0 .. Len(Dates(n)) :
          /\ streamManifest.scopes = Selected(n) /\ Underway(n, j, DaysDone, todo)
          /\ Reading(n, j, done, memory)
    BY <2>1 DEF WorkInv
  <2>2. PICK j \in 0 .. Len(Dates(n)) :
          /\ streamManifest.scopes = Selected(n) /\ Underway(n, j, DaysDone, todo)
          /\ Reading(n, j, done, memory)
    BY <2>a
  <2>3. Database \in DOMAIN decisionStates
    BY <2>1 DEF WorkInv
  <2>4. Stored(Catalog(atlas), n, flag, done)
    BY <2>2, <2>3, DatabaseOf DEF Database
  <2>5. DaysDone = days
    BY DEF DaysDone
  <2>6. /\ memory.shards = Recalled(n, j, days) /\ memory.rows = RowsSoFar(n, j, days)
    BY <2>2 DEF Reading
  <2>. DEFINE N == Len(Dates(n))
              D == Dates(n)
              R == RunDates(Groups(n))
  <2>7. /\ N \in Nat /\ FirstDates(n, N) = R
        /\ \A k \in 0 .. N, i \in 1 .. N : D[i] \in FirstDates(n, k) <=> i <= k
        /\ \A i \in 1 .. N : D[i] \in R
    BY DatesFacts
  <2>8. j = N
    <3>1. Len(todo) = 0 /\ Len(todo) = N - j
      BY <2>1, <2>2 DEF Underway
    <3>. QED  BY <2>7, <3>1
  <2>9. PICK k, source, passes :
          /\ Passes(Catalog(atlas), n, flag, k, source, passes)
          /\ DOMAIN days = FirstDates(n, k)
          /\ \A i \in 1 .. k : days[D[i]] =
                [content |-> passes[i].out, rows |-> Len(ReadOf(source, D[i]))]
    BY <2>4 DEF Stored
  <2>. HIDE DEF days, done, flag, D, N, R
  <2>10. k = N
    <3>1. k \in 0 .. N
      BY <2>9 DEF Passes, N
    <3>2. R \subseteq FirstDates(n, k)
      BY <2>2, <2>5, <2>7, <2>8, <2>9 DEF Underway
    <3>3. N # 0 => N \in 1 .. N /\ N <= k
      BY <2>7, <3>1, <3>2
    <3>. QED  BY <2>7, <3>1, <3>3
  <2>b. ASSUME NEW i \in 1 .. N
        PROVE  days[D[i]].content = passes[i].out /\ days[D[i]].rows = Len(ReadOf(source, D[i]))
    <3>. DEFINE c == passes[i].out
                l == Len(ReadOf(source, D[i]))
                x == days[D[i]]
    <3>1. x = [content |-> c, rows |-> l]
      BY <2>9, <2>10
    <3>. HIDE DEF c, l, x
    <3>2. x.content = c /\ x.rows = l
      BY <3>1, DayParts
    <3>. QED  BY <3>2 DEF c, l, x
  <2>. DEFINE made == decisionManifest'
  <2>11. /\ made.scopes = Selected(n) /\ made.flag = flag
         /\ made.shards = Recalled(n, N, days) /\ made.rows = RowsSoFar(n, N, days)
    BY <2>1, <2>2, <2>6, <2>8
  <2>. HIDE DEF made
  <2>12. made.shards = [d \in R |-> days[d].content]
    BY <2>7, <2>11 DEF Recalled
  <2>13. /\ made.shards = [d \in R |-> made.shards[d]]
         /\ \A i \in 1 .. N : made.shards[D[i]] = passes[i].out
    <3>1. \A d \in R : made.shards[d] = days[d].content
      BY <2>12
    <3>2. \A i \in 1 .. N : days[D[i]].content = passes[i].out
      BY <2>b
    <3>. QED  BY <2>7, <2>12, <3>1, <3>2
  <2>14. made.rows = RowsDecided(n, source)
    <3>. DEFINE f == [i \in 1 .. N |-> days[D[i]].rows]
                g == [i \in 1 .. N |-> Len(ReadOf(source, D[i]))]
    <3>1. \A i \in 1 .. N : days[D[i]].rows = Len(ReadOf(source, D[i]))
      BY <2>b
    <3>2. f = g
      BY <3>1
    <3>3. RowsSoFar(n, N, days) = Total(f, 1 .. N) /\ RowsDecided(n, source) = Total(g, 1 .. N)
      BY DEF RowsSoFar, RowsDecided, D, N
    <3>. QED  BY <2>11, <3>2, <3>3
  <2>15. Passes(Catalog(atlas), n, made.flag, N, source, passes)
    BY <2>9, <2>10, <2>11
  <2>16. Decided(Catalog(atlas), n, made)
    BY <2>11, <2>13, <2>14, <2>15 DEF Decided, D, N, R
  <2>17. \E m \in Limits : Decided(Catalog(atlas'), m, decisionManifest')
    BY <2>1, <2>16 DEF made
  <2>. QED  BY <2>17 DEF MadeInv
<1>2. CASE decisionManifest' = decisionManifest
  <2>1. atlas' = atlas
    BY Kept
  <2>. QED  BY <1>2, <2>1 DEF MadeInv
<1>. QED  BY <1>1, <1>2, Kept

(* Whatever the stops, the changes of the limit and the completed graph, a *)
(* database holds the counts and days of passes from nothing over the      *)
(* first dates of its own scopes, each over a file some limit left there.  *)
DecisionsInv == CatalogInv /\ StatesInv /\ WorkInv /\ MadeInv /\ EndInv

(* The inductive invariant of the decisions.                               *)
THEOREM DecisionsInvariant == Spec => []DecisionsInv
<1>1. Init => DecisionsInv
  <2>. SUFFICES ASSUME Init PROVE DecisionsInv
    OBVIOUS
  <2>1. DOMAIN decisionStates = {} /\ decisionManifest = NoManifest /\ pc = "idle"
    BY DEF Init
  <2>2. catalog = NoCatalog
    BY DEF Init
  <2>. QED  BY <2>1, <2>2 DEF DecisionsInv, CatalogInv, StatesInv, WorkInv, MadeInv, EndInv,
                            Streaming, Deciding
<1>2. StreamInv /\ DecisionsInv /\ [Next]_vars => DecisionsInv'
  <2>. SUFFICES ASSUME StreamInv, DecisionsInv, [Next]_vars PROVE DecisionsInv'
    OBVIOUS
  <2>1. FilesInv /\ ManifestInv /\ CatalogInv /\ StatesInv /\ WorkInv /\ MadeInv /\ EndInv
    BY DEF StreamInv, DecisionsInv
  <2>2. CatalogInv' /\ EndInv'
    BY <2>1, CatalogSteps, EndSteps
  <2>3. WorkInv' /\ StatesInv' /\ MadeInv'
    BY <2>1, WorkSteps, StatesSteps, MadeSteps
  <2>. QED  BY <2>2, <2>3 DEF DecisionsInv
<1>. QED  BY <1>1, <1>2, StreamInvariant, PTL DEF Spec

(* With one spread of scopes beside the whole ledger, a build that ends    *)
(* with a structurally valid receipt has made the decisions of one pass    *)
(* over the stream of its manifest, and so has every file the validator    *)
(* passes, however the builds before it were stopped and restarted.        *)
THEOREM DecisionsAreAlwaysOnePass ==
  ASSUME OneSpread
  PROVE  Spec => []DecisionsAreOnePass
<1>1. StreamInv /\ DecisionsInv => DecisionsAreOnePass
  <2>. SUFFICES ASSUME StreamInv, DecisionsInv PROVE DecisionsAreOnePass
    OBVIOUS
  <2>1. ManifestInv /\ CatalogInv /\ MadeInv /\ EndInv
    BY DEF StreamInv, DecisionsInv
  <2>2. ASSUME streamManifest # NoManifest, decisionManifest # NoManifest,
               streamManifest.rows = decisionManifest.rows
        PROVE  decisionManifest.shards = OnePass(streamManifest.shards, decisionManifest.flag)
    <3>1. PICK n \in Limits : /\ Exact(streamManifest, n)
                              /\ streamManifest.rows = RowsIn(streamManifest.shards)
      BY <2>1, <2>2 DEF ManifestInv
    <3>2. catalog = Catalog(atlas)
      BY <2>1, <2>2 DEF CatalogInv
    <3>3. PICK m \in Limits : Decided(catalog, m, decisionManifest)
      BY <2>1, <2>2, <3>2 DEF MadeInv
    <3>. QED  BY <2>2, <3>1, <3>3, DecidedOnePass
  <2>3. ASSUME pc = "done", receipt.structural
        PROVE  /\ decisionManifest.scopes = streamManifest.scopes
               /\ decisionManifest.shards = OnePass(streamManifest.shards, decisionManifest.flag)
    BY <2>1, <2>2, <2>3 DEF EndInv
  <2>4. ASSUME Valid, NEW d \in DOMAIN streamManifest.shards
        PROVE  decisionFiles[d] = OnePass(streamManifest.shards, polygon)[d]
    <3>1. /\ streamManifest # NoManifest /\ decisionManifest # NoManifest
          /\ streamManifest.rows = decisionManifest.rows /\ decisionManifest.flag = polygon
          /\ FilesMatch(decisionManifest.shards, decisionFiles)
      BY <2>4 DEF Valid
    <3>. DEFINE one == OnePass(streamManifest.shards, polygon)
    <3>2. decisionManifest.shards = one
      BY <2>2, <3>1
    <3>3. d \in DOMAIN one
      BY DEF OnePass
    <3>. HIDE DEF one
    <3>4. decisionFiles[d] = one[d]
      BY <3>1, <3>2, <3>3 DEF FilesMatch
    <3>. QED  BY <3>4 DEF one
  <2>. QED  BY <2>3, <2>4 DEF DecisionsAreOnePass
<1>. QED  BY <1>1, StreamInvariant, DecisionsInvariant, PTL

(***************************************************************************)
(* The union-find of the catalog.                                          *)
(***************************************************************************)

(* R gives each event its root: the root is its own parent, an event and   *)
(* its parent have one root, and ranks rise on the way.                    *)
Rooted(u, R) ==
    /\ u = [parent |-> u.parent, rank |-> u.rank]
    /\ IsFiniteSet(DOMAIN R)
    /\ R \in [DOMAIN R -> DOMAIN R]
    /\ u.parent \in [DOMAIN R -> DOMAIN R]
    /\ u.rank \in [DOMAIN R -> Nat]
    /\ \A x \in DOMAIN R :
          /\ R[R[x]] = R[x] /\ u.parent[R[x]] = R[x] /\ R[u.parent[x]] = R[x]
          /\ u.parent[x] = x => R[x] = x
          /\ u.parent[x] # x => u.rank[x] < u.rank[u.parent[x]]
          /\ R[x] # x => u.rank[x] < u.rank[R[x]]

(* The root found by going up is that root.                                *)
LEMMA RootIs ==
  ASSUME NEW u, NEW R, Rooted(u, R)
  PROVE  \A x \in DOMAIN R : Root(u, x) = R[x]
<1>. DEFINE D == DOMAIN R
            p == u.parent
            Body(f) == [x \in D |-> IF p[x] = x THEN x ELSE f[p[x]]]
            F == CHOOSE f : f = Body(f)
<1>1. /\ IsFiniteSet(D) /\ R \in [D -> D] /\ p \in [D -> D] /\ u.rank \in [D -> Nat]
      /\ \A x \in D : /\ R[p[x]] = R[x] /\ (p[x] = x => R[x] = x)
                      /\ (p[x] # x => u.rank[x] < u.rank[p[x]])
  BY DEF Rooted
<1>. HIDE DEF D, p
<1>2. R = Body(R)
  <2>1. R = [x \in D |-> R[x]]
    BY <1>1
  <2>2. \A x \in D : R[x] = IF p[x] = x THEN x ELSE R[p[x]]
    BY <1>1
  <2>. QED  BY <2>1, <2>2
<1>3. F = Body(F)
  <2>. HIDE DEF Body
  <2>. QED  BY <1>2
<1>4. \A x : Root(u, x) = F[x]
  <2>1. DOMAIN u.parent = D
    BY <1>1 DEF p
  <2>. QED  BY <2>1 DEF Root, p
<1>. HIDE DEF F
<1>5. \A x \in D : F[x] = IF p[x] = x THEN x ELSE F[p[x]]
  BY <1>3
<1>. DEFINE T == {x \in D : F[x] # R[x]}
<1>6. T = {}
  <2>. SUFFICES ASSUME T # {} PROVE FALSE
    OBVIOUS
  <2>. DEFINE q == [x \in T |-> u.rank[x]]
  <2>1. IsFiniteSet(T)
    BY <1>1, FS_Subset
  <2>2. q \in [T -> Nat]
    BY <1>1
  <2>3. PICK k \in T : \A j \in T : q[j] <= q[k]
    <3>. HIDE DEF q, T
    <3>. QED  BY <2>1, <2>2, GreatestExists
  <2>4. p[k] # k /\ p[k] \in T
    BY <1>1, <1>5
  <2>5. u.rank[k] < u.rank[p[k]] /\ u.rank[k] \in Nat /\ u.rank[p[k]] \in Nat
    BY <1>1, <2>4
  <2>6. q[p[k]] <= q[k]
    BY <2>3, <2>4
  <2>. QED  BY <2>4, <2>5, <2>6
<1>7. \A x \in D : F[x] = R[x]
  BY <1>6
<1>. QED  BY <1>4, <1>7 DEF D

(* The events met on the way up share the root.                            *)
LEMMA PathSharesRoot ==
  ASSUME NEW u, NEW R, Rooted(u, R)
  PROVE  \A e \in DOMAIN R : \A x \in Path(u, e) \cap DOMAIN R : R[x] = R[e]
<1>. DEFINE D == DOMAIN R
            p == u.parent
            Body(f) == [x \in D |-> IF p[x] = x THEN {x} ELSE {x} \cup f[p[x]]]
            F == CHOOSE f : f = Body(f)
            Closed(S, x) == x \in S /\ \A y \in S : p[y] \in S
            G == [x \in D |-> {y \in D : \A S \in SUBSET D : Closed(S, x) => y \in S}]
<1>1. /\ IsFiniteSet(D) /\ p \in [D -> D] /\ u.rank \in [D -> Nat]
      /\ \A x \in D : R[p[x]] = R[x] /\ (p[x] # x => u.rank[x] < u.rank[p[x]])
  BY DEF Rooted
<1>. HIDE DEF D, p
<1>2. \A x \in D : G[x] = IF p[x] = x THEN {x} ELSE {x} \cup G[p[x]]
  <2>. SUFFICES ASSUME NEW x \in D
                PROVE  G[x] = IF p[x] = x THEN {x} ELSE {x} \cup G[p[x]]
    OBVIOUS
  <2>1. x \in G[x] /\ p[x] \in D
    BY <1>1
  <2>2. CASE p[x] = x
    <3>1. {x} \in SUBSET D /\ Closed({x}, x)
      BY <2>2
    <3>2. G[x] \subseteq {x}
      BY <3>1
    <3>. QED  BY <2>1, <2>2, <3>2
  <2>3. CASE p[x] # x
    <3>. DEFINE S == {x} \cup G[p[x]]
    <3>1. S \in SUBSET D
      BY <1>1, <2>1
    <3>2. p[x] \in G[p[x]]
      BY <1>1, <2>1
    <3>3. \A y \in G[p[x]] : p[y] \in G[p[x]]
      BY <1>1, <2>1
    <3>4. Closed(S, x)
      <4>. HIDE DEF G
      <4>. QED  BY <3>2, <3>3
    <3>5. G[x] \subseteq S
      <4>. HIDE DEF S, Closed
      <4>. QED  BY <3>1, <3>4
    <3>6. G[p[x]] \subseteq G[x]
      <4>1. \A z \in D : \A y : y \in G[z] <=> y \in D /\ \A Q \in SUBSET D : Closed(Q, z) => y \in Q
        OBVIOUS
      <4>2. \A Q \in SUBSET D : Closed(Q, x) => Closed(Q, p[x])
        OBVIOUS
      <4>. HIDE DEF Closed, G
      <4>. QED  BY <2>1, <4>1, <4>2
    <3>. HIDE DEF G
    <3>. QED  BY <2>1, <2>3, <3>5, <3>6
  <2>. QED  BY <2>2, <2>3
<1>3. G = Body(G)
  <2>1. G = [x \in D |-> G[x]]
    OBVIOUS
  <2>. HIDE DEF G
  <2>. QED  BY <1>2, <2>1
<1>4. F = Body(F)
  <2>. HIDE DEF Body, G
  <2>. QED  BY <1>3
<1>5. \A x : Path(u, x) = F[x]
  <2>1. DOMAIN u.parent = D
    BY <1>1 DEF p
  <2>. QED  BY <2>1 DEF Path, p
<1>. HIDE DEF F, G
<1>6. \A x \in D : F[x] = IF p[x] = x THEN {x} ELSE {x} \cup F[p[x]]
  BY <1>4
<1>. DEFINE T == {e \in D : \E x \in F[e] \cap D : R[x] # R[e]}
<1>7. T = {}
  <2>. SUFFICES ASSUME T # {} PROVE FALSE
    OBVIOUS
  <2>. DEFINE q == [x \in T |-> u.rank[x]]
  <2>1. IsFiniteSet(T)
    BY <1>1, FS_Subset
  <2>2. q \in [T -> Nat]
    BY <1>1
  <2>3. PICK k \in T : \A j \in T : q[j] <= q[k]
    <3>. HIDE DEF q, T
    <3>. QED  BY <2>1, <2>2, GreatestExists
  <2>4. PICK x \in F[k] \cap D : R[x] # R[k]
    OBVIOUS
  <2>5. p[k] # k /\ x \in F[p[k]] /\ p[k] \in D /\ R[p[k]] = R[k]
    <3>1. k \in D /\ x \in F[k] /\ x # k
      BY <2>4
    <3>2. F[k] = IF p[k] = k THEN {k} ELSE {k} \cup F[p[k]]
      BY <1>6, <3>1
    <3>. HIDE DEF T
    <3>. QED  BY <1>1, <3>1, <3>2
  <2>6. p[k] \in T
    BY <2>4, <2>5
  <2>7. u.rank[k] < u.rank[p[k]] /\ u.rank[k] \in Nat /\ u.rank[p[k]] \in Nat
    BY <1>1, <2>5
  <2>8. q[p[k]] <= q[k]
    BY <2>3, <2>6
  <2>. QED  BY <2>6, <2>7, <2>8
<1>. QED  BY <1>5, <1>7 DEF D

(* The roots of R, and that of an event that may be new.                   *)
Widens(R, e, K) ==
    /\ DOMAIN K = DOMAIN R \cup {e}
    /\ \A x \in DOMAIN R : K[x] = R[x]
    /\ e \notin DOMAIN R => K[e] = e

(* Adding an event.                                                        *)
LEMMA AddRoots ==
  ASSUME NEW u, NEW R, Rooted(u, R), NEW e
  PROVE  \E K : Rooted(Add(u, e), K) /\ Widens(R, e, K)
<1>. DEFINE D == DOMAIN R
<1>1. /\ IsFiniteSet(D) /\ R \in [D -> D]
      /\ u.parent \in [D -> D] /\ u.rank \in [D -> Nat]
      /\ \A x \in D :
           /\ R[R[x]] = R[x] /\ u.parent[R[x]] = R[x] /\ R[u.parent[x]] = R[x]
           /\ u.parent[x] = x => R[x] = x
           /\ u.parent[x] # x => u.rank[x] < u.rank[u.parent[x]]
           /\ R[x] # x => u.rank[x] < u.rank[R[x]]
  BY DEF Rooted
<1>2. CASE e \in D
  <2>1. Add(u, e) = u /\ D = D \cup {e}
    BY <1>1, <1>2 DEF Add
  <2>2. Widens(R, e, R)
    BY <1>2 DEF Widens
  <2>. QED  BY <2>1, <2>2
<1>3. CASE e \notin D
  <2>. DEFINE N == D \cup {e}
              K == [x \in N |-> IF x = e THEN e ELSE R[x]]
              p == [x \in N |-> IF x = e THEN e ELSE u.parent[x]]
              r == [x \in N |-> IF x = e THEN 0 ELSE u.rank[x]]
              v == Add(u, e)
  <2>1. v = [parent |-> p, rank |-> r]
    BY <1>1, <1>3 DEF Add, With
  <2>2. v.parent = p /\ v.rank = r /\ v = [parent |-> v.parent, rank |-> v.rank]
    BY <2>1
  <2>3. IsFiniteSet(N)
    BY <1>1, FS_AddElement
  <2>4. /\ DOMAIN K = N /\ K[e] = e /\ p[e] = e /\ \A x \in D : K[x] = R[x] /\ p[x] = u.parent[x] /\ r[x] = u.rank[x]
        /\ K \in [N -> N] /\ p \in [N -> N] /\ r \in [N -> Nat]
    BY <1>1, <1>3
  <2>. HIDE DEF K, p, r, v
  <2>5. \A x \in D :
           /\ K[K[x]] = K[x] /\ p[K[x]] = K[x] /\ K[p[x]] = K[x]
           /\ p[x] = x => K[x] = x
           /\ p[x] # x => r[x] < r[p[x]]
           /\ K[x] # x => r[x] < r[K[x]]
    BY <1>1, <2>4
  <2>6. Rooted(v, K)
    <3>1. \A x \in N :
           /\ K[K[x]] = K[x] /\ p[K[x]] = K[x] /\ K[p[x]] = K[x]
           /\ p[x] = x => K[x] = x
           /\ p[x] # x => r[x] < r[p[x]]
           /\ K[x] # x => r[x] < r[K[x]]
      BY <2>4, <2>5
    <3>. HIDE DEF N
    <3>. QED  BY <2>2, <2>3, <2>4, <3>1 DEF Rooted
  <2>7. Widens(R, e, K)
    BY <2>4 DEF Widens
  <2>. QED  BY <2>6, <2>7 DEF v
<1>. QED  BY <1>2, <1>3

(* Finding an event that may be new.                                       *)
LEMMA FindRoots ==
  ASSUME NEW u, NEW R, Rooted(u, R), NEW e
  PROVE  \E K : Rooted(Find(u, e), K) /\ Widens(R, e, K)
<1>. DEFINE w == Add(u, e)
<1>1. PICK K : Rooted(w, K) /\ Widens(R, e, K)
  BY AddRoots
<1>. DEFINE D == DOMAIN K
            P == Path(w, e)
            p == [x \in D |-> IF x \in P THEN K[e] ELSE w.parent[x]]
            v == Find(u, e)
<1>. HIDE DEF w
<1>2. /\ IsFiniteSet(D) /\ K \in [D -> D]
      /\ w.parent \in [D -> D] /\ w.rank \in [D -> Nat]
      /\ w = [parent |-> w.parent, rank |-> w.rank]
      /\ \A x \in D :
           /\ K[K[x]] = K[x] /\ w.parent[K[x]] = K[x] /\ K[w.parent[x]] = K[x]
           /\ w.parent[x] = x => K[x] = x
           /\ w.parent[x] # x => w.rank[x] < w.rank[w.parent[x]]
           /\ K[x] # x => w.rank[x] < w.rank[K[x]]
  BY <1>1 DEF Rooted
<1>3. e \in D
  BY <1>1 DEF Widens
<1>4. Root(w, e) = K[e] /\ \A x \in P \cap D : K[x] = K[e]
  BY <1>1, <1>3, RootIs, PathSharesRoot
<1>5. v = [parent |-> p, rank |-> w.rank]
  <2>. DEFINE a == w.parent b == w.rank
              p2 == [x \in DOMAIN a |-> IF x \in P THEN Root(w, e) ELSE a[x]]
  <2>1. v = [w EXCEPT !.parent = p2]
    BY DEF Find, w
  <2>2. p2 = p
    BY <1>2, <1>4
  <2>3. w = [parent |-> a, rank |-> b]
    BY <1>2
  <2>. HIDE DEF a, b, p, p2, v
  <2>. QED  BY <2>1, <2>2, <2>3 DEF b
<1>6. v.parent = p /\ v.rank = w.rank /\ v = [parent |-> v.parent, rank |-> v.rank]
  BY <1>5
<1>7. p \in [D -> D] /\ \A x \in D : p[x] = IF x \in P THEN K[e] ELSE w.parent[x]
  BY <1>2, <1>3
<1>. HIDE DEF D, P, p, v
<1>8. \A x \in D :
        /\ K[K[x]] = K[x] /\ p[K[x]] = K[x] /\ K[p[x]] = K[x]
        /\ p[x] = x => K[x] = x
        /\ p[x] # x => w.rank[x] < w.rank[p[x]]
        /\ K[x] # x => w.rank[x] < w.rank[K[x]]
  <2>. SUFFICES ASSUME NEW x \in D
                PROVE  /\ K[K[x]] = K[x] /\ p[K[x]] = K[x] /\ K[p[x]] = K[x]
                       /\ p[x] = x => K[x] = x
                       /\ p[x] # x => w.rank[x] < w.rank[p[x]]
                       /\ K[x] # x => w.rank[x] < w.rank[K[x]]
    OBVIOUS
  <2>1. K[x] \in D /\ K[e] \in D
    BY <1>2, <1>3
  <2>2. p[K[x]] = K[x]
    BY <1>2, <1>3, <1>4, <1>7, <2>1
  <2>3. CASE x \in P
    <3>1. p[x] = K[e] /\ K[x] = K[e]
      BY <1>4, <1>7, <2>3
    <3>. QED  BY <1>2, <2>1, <2>2, <3>1
  <2>4. CASE x \notin P
    <3>1. p[x] = w.parent[x]
      BY <1>7, <2>4
    <3>. QED  BY <1>2, <2>1, <2>2, <3>1
  <2>. QED  BY <2>3, <2>4
<1>9. Rooted(v, K)
  BY <1>2, <1>6, <1>7, <1>8 DEF Rooted, D
<1>. QED  BY <1>1, <1>9 DEF v

(* S is a union of classes of events with one root.                        *)
Respects(R, S) == \A x, y \in DOMAIN R : R[x] = R[y] => (x \in S <=> y \in S)

(* From R to K the events of J come into one class, none is split, and     *)
(* nothing else is joined.                                                 *)
Joins(R, K, J) ==
    /\ DOMAIN K = DOMAIN R \cup J
    /\ \A x, y \in DOMAIN R : R[x] = R[y] => K[x] = K[y]
    /\ \A x, y \in J : K[x] = K[y]
    /\ \A S : Respects(R, S) /\ (J \subseteq S \/ J \cap S = {}) => Respects(K, S)

(* Linking one root under another.                                         *)
LEMMA LinkRoots ==
  ASSUME NEW u, NEW R, Rooted(u, R), NEW over \in DOMAIN R, NEW under \in DOMAIN R,
         R[over] = over, R[under] = under, over # under,
         NEW v, NEW bump \in {0, 1},
         v = [parent |-> [u.parent EXCEPT ![under] = over], rank |-> [u.rank EXCEPT ![over] = @ + bump]],
         u.rank[under] < u.rank[over] + bump
  PROVE  Rooted(v, [x \in DOMAIN R |-> IF R[x] = under THEN over ELSE R[x]])
<1>. DEFINE D == DOMAIN R
            K == [x \in D |-> IF R[x] = under THEN over ELSE R[x]]
            p == v.parent
            r == v.rank
<1>1. /\ IsFiniteSet(D) /\ R \in [D -> D]
      /\ u.parent \in [D -> D] /\ u.rank \in [D -> Nat]
      /\ \A x \in D :
           /\ R[R[x]] = R[x] /\ u.parent[R[x]] = R[x] /\ R[u.parent[x]] = R[x]
           /\ u.parent[x] = x => R[x] = x
           /\ u.parent[x] # x => u.rank[x] < u.rank[u.parent[x]]
           /\ R[x] # x => u.rank[x] < u.rank[R[x]]
  BY DEF Rooted
<1>2. /\ p \in [D -> D] /\ r \in [D -> Nat] /\ K \in [D -> D] /\ DOMAIN K = D
      /\ v = [parent |-> v.parent, rank |-> v.rank]
      /\ \A x \in D : /\ p[x] = IF x = under THEN over ELSE u.parent[x]
                      /\ r[x] = IF x = over THEN u.rank[x] + bump ELSE u.rank[x]
                      /\ K[x] = IF R[x] = under THEN over ELSE R[x]
  BY <1>1
<1>. HIDE DEF p, r, K
<1>3. ASSUME NEW x \in D
      PROVE  /\ K[K[x]] = K[x] /\ p[K[x]] = K[x] /\ K[p[x]] = K[x]
             /\ p[x] = x => K[x] = x
             /\ p[x] # x => r[x] < r[p[x]]
             /\ K[x] # x => r[x] < r[K[x]]
  <2>1. R[x] \in D /\ K[x] \in D /\ p[x] \in D /\ u.parent[x] \in D
    BY <1>1, <1>2
  <2>2. K[K[x]] = K[x] /\ p[K[x]] = K[x]
    BY <1>1, <1>2, <2>1
  <2>3. K[p[x]] = K[x]
    BY <1>1, <1>2, <2>1
  <2>4. p[x] = x => K[x] = x
    BY <1>1, <1>2, <2>1
  <2>5. u.rank[x] \in Nat /\ \A y \in D : u.rank[y] \in Nat /\ r[y] \in Nat /\ u.rank[y] <= r[y]
    BY <1>1, <1>2
  <2>6. p[x] # x => r[x] < r[p[x]]
    <3>1. CASE x = under
      BY <1>1, <1>2, <2>5, <3>1
    <3>2. CASE x # under
      <4>. SUFFICES ASSUME p[x] # x PROVE r[x] < r[p[x]]
        OBVIOUS
      <4>1. p[x] = u.parent[x] /\ x # over /\ r[x] = u.rank[x]
        BY <1>1, <1>2, <3>2
      <4>. QED  BY <1>1, <2>1, <2>5, <4>1
    <3>. QED  BY <3>1, <3>2
  <2>7. K[x] # x => r[x] < r[K[x]]
    <3>. SUFFICES ASSUME K[x] # x PROVE r[x] < r[K[x]]
      OBVIOUS
    <3>1. x # over
      BY <1>1, <1>2
    <3>2. r[x] = u.rank[x]
      BY <1>2, <3>1
    <3>3. CASE R[x] = under
      <4>1. K[x] = over /\ r[over] = u.rank[over] + bump
        BY <1>2, <3>3
      <4>2. u.rank[x] <= u.rank[under]
        BY <1>1, <2>5, <3>3
      <4>. QED  BY <2>5, <3>2, <4>1, <4>2
    <3>4. CASE R[x] # under
      <4>1. K[x] = R[x]
        BY <1>2, <3>4
      <4>. QED  BY <1>1, <2>1, <2>5, <3>2, <4>1
    <3>. QED  BY <3>3, <3>4
  <2>. QED  BY <2>2, <2>3, <2>4, <2>6, <2>7
<1>4. Rooted(v, K)
  BY <1>1, <1>2, <1>3 DEF Rooted, p, r
<1>. QED  BY <1>4 DEF K

(* New events alone in their classes join nothing.                         *)
LEMMA NewAlone ==
  ASSUME NEW R, R \in [DOMAIN R -> DOMAIN R], NEW K, DOMAIN R \subseteq DOMAIN K,
         \A x \in DOMAIN R : K[x] = R[x], \A x \in DOMAIN K \ DOMAIN R : K[x] = x,
         NEW S, Respects(R, S)
  PROVE  Respects(K, S)
<1>. SUFFICES ASSUME NEW x \in DOMAIN K, NEW y \in DOMAIN K, K[x] = K[y]
              PROVE  x \in S <=> y \in S
  BY DEF Respects
<1>1. CASE x \in DOMAIN R /\ y \in DOMAIN R
  BY <1>1 DEF Respects
<1>2. CASE x \notin DOMAIN R \/ y \notin DOMAIN R
  <2>1. x = y
    BY <1>2
  <2>. QED  BY <2>1
<1>. QED  BY <1>1, <1>2

(* Joining once more through a shared event.                               *)
LEMMA JoinsCompose ==
  ASSUME NEW R, NEW K, NEW L, NEW J, NEW H, Joins(R, K, J), Joins(K, L, H), NEW e \in J \cap H
  PROVE  Joins(R, L, J \cup H)
<1>1. DOMAIN L = DOMAIN R \cup (J \cup H)
  BY DEF Joins
<1>2. \A x, y \in DOMAIN R : R[x] = R[y] => L[x] = L[y]
  BY DEF Joins
<1>3. \A x \in J \cup H : L[x] = L[e]
  BY DEF Joins
<1>4. ASSUME NEW S, Respects(R, S), J \cup H \subseteq S \/ (J \cup H) \cap S = {}
      PROVE  Respects(L, S)
  <2>1. (J \subseteq S \/ J \cap S = {}) /\ (H \subseteq S \/ H \cap S = {})
    BY <1>4
  <2>2. Respects(K, S)
    BY <1>4, <2>1 DEF Joins
  <2>. QED  BY <2>1, <2>2 DEF Joins
<1>. QED  BY <1>1, <1>2, <1>3, <1>4 DEF Joins

(* Adding one event.                                                       *)
LEMMA AddJoins ==
  ASSUME NEW u, NEW R, Rooted(u, R), NEW e
  PROVE  \E K : Rooted(Add(u, e), K) /\ Joins(R, K, {e})
<1>1. PICK K : Rooted(Add(u, e), K) /\ Widens(R, e, K)
  BY AddRoots
<1>2. R \in [DOMAIN R -> DOMAIN R]
  BY DEF Rooted
<1>3. /\ DOMAIN K = DOMAIN R \cup {e} /\ \A x \in DOMAIN R : K[x] = R[x]
      /\ \A x \in DOMAIN K \ DOMAIN R : K[x] = x
  BY <1>1 DEF Widens
<1>4. \A S : Respects(R, S) => Respects(K, S)
  BY <1>2, <1>3, NewAlone
<1>5. Joins(R, K, {e})
  BY <1>3, <1>4 DEF Joins
<1>. QED  BY <1>1, <1>5

(* A union of two events.                                                  *)
LEMMA UnionJoins ==
  ASSUME NEW u, NEW R, Rooted(u, R), NEW left, NEW right
  PROVE  \E L : Rooted(Union(u, left, right), L) /\ Joins(R, L, {left, right})
<1>. DEFINE once == Find(u, left)
            found == Find(once, right)
<1>1. PICK K1 : Rooted(once, K1) /\ Widens(R, left, K1)
  BY FindRoots
<1>. HIDE DEF once
<1>2. PICK K : Rooted(found, K) /\ Widens(K1, right, K)
  BY <1>1, FindRoots
<1>. HIDE DEF found
<1>. DEFINE D == DOMAIN K
            J == {left, right}
            a == K[left]
            b == K[right]
<1>3. /\ D = DOMAIN R \cup J
      /\ \A x \in DOMAIN R : K[x] = R[x]
      /\ \A x \in D \ DOMAIN R : K[x] = x
  <2>1. DOMAIN K1 = DOMAIN R \cup {left} /\ D = DOMAIN K1 \cup {right}
    BY <1>1, <1>2 DEF Widens
  <2>2. \A x \in DOMAIN R : K1[x] = R[x] /\ K[x] = K1[x]
    BY <1>1, <1>2, <2>1 DEF Widens
  <2>3. ASSUME NEW x \in D \ DOMAIN R PROVE K[x] = x
    <3>1. CASE x \in DOMAIN K1
      BY <1>1, <1>2, <2>1, <2>3, <3>1 DEF Widens
    <3>2. CASE x \notin DOMAIN K1
      BY <1>2, <2>1, <3>2 DEF Widens
    <3>. QED  BY <3>1, <3>2
  <2>. QED  BY <2>1, <2>2, <2>3
<1>4. R \in [DOMAIN R -> DOMAIN R]
  BY DEF Rooted
<1>5. \A S : Respects(R, S) => Respects(K, S)
  BY <1>3, <1>4, NewAlone
<1>6. /\ left \in D /\ right \in D /\ a \in D /\ b \in D /\ K[a] = a /\ K[b] = b
      /\ found.rank \in [D -> Nat] /\ found = [parent |-> found.parent, rank |-> found.rank]
      /\ K \in [D -> D] /\ \A x \in D : K[K[x]] = K[x]
  BY <1>2, <1>3 DEF Rooted
<1>7. Root(found, left) = a /\ Root(found, right) = b
  BY <1>2, <1>6, RootIs
<1>8. CASE a = b
  <2>1. Union(u, left, right) = found
    BY <1>7, <1>8 DEF Union, found, once
  <2>2. Joins(R, K, J)
    BY <1>3, <1>5, <1>8 DEF Joins
  <2>. QED  BY <1>2, <2>1, <2>2
<1>9. CASE a # b
  <2>. DEFINE tie == found.rank[a] = found.rank[b]
              swap == found.rank[a] < found.rank[b] \/ (tie /\ a > b)
              over == IF swap THEN b ELSE a
              under == IF swap THEN a ELSE b
              bump == IF tie THEN 1 ELSE 0
              v == [parent |-> [found.parent EXCEPT ![under] = over],
                    rank |-> [found.rank EXCEPT ![over] = @ + bump]]
              L == [x \in D |-> IF K[x] = under THEN over ELSE K[x]]
  <2>1. Union(u, left, right) = v
    BY <1>7, <1>9 DEF Union, found, once
  <2>2. /\ over \in D /\ under \in D /\ K[over] = over /\ K[under] = under /\ over # under
        /\ bump \in {0, 1} /\ {over, under} = {a, b}
    BY <1>6, <1>9
  <2>3. found.rank[under] < found.rank[over] + bump
    <3>1. found.rank[a] \in Nat /\ found.rank[b] \in Nat
      BY <1>6
    <3>2. CASE swap
      <4>1. over = b /\ under = a
        BY <3>2
      <4>. HIDE DEF over, under
      <4>. QED  BY <3>1, <3>2, <4>1
    <3>3. CASE ~ swap
      <4>1. over = a /\ under = b
        BY <3>3
      <4>. HIDE DEF over, under
      <4>. QED  BY <3>1, <3>3, <4>1
    <3>. QED  BY <3>2, <3>3
  <2>. HIDE DEF bump, over, under
  <2>4. Rooted(v, L)
    <3>. DEFINE w == v
    <3>1. w = [parent |-> [found.parent EXCEPT ![under] = over],
               rank |-> [found.rank EXCEPT ![over] = @ + bump]]
      OBVIOUS
    <3>. HIDE DEF w
    <3>2. Rooted(w, L)
      BY <1>2, <2>2, <2>3, <3>1, LinkRoots
    <3>. QED  BY <3>2 DEF w
  <2>5. DOMAIN L = D /\ \A x \in D : L[x] = IF K[x] = under THEN over ELSE K[x]
    OBVIOUS
  <2>. HIDE DEF L, v
  <2>6. \A x, y \in DOMAIN R : R[x] = R[y] => L[x] = L[y]
    BY <1>3, <2>5
  <2>7. L[left] = L[right]
    BY <1>6, <2>2, <2>5
  <2>8. ASSUME NEW S, Respects(R, S), J \subseteq S \/ J \cap S = {}
        PROVE  Respects(L, S)
    <3>1. Respects(K, S)
      BY <1>5, <2>8
    <3>2. \A x \in D : x \in S <=> K[x] \in S
      BY <1>6, <3>1 DEF Respects
    <3>3. over \in S <=> under \in S
      <4>1. a \in S <=> b \in S
        BY <1>6, <2>8, <3>2
      <4>. QED  BY <2>2, <4>1
    <3>4. \A x \in D : x \in S <=> L[x] \in S
      BY <2>2, <2>5, <3>2, <3>3
    <3>. QED  BY <2>5, <3>4 DEF Respects
  <2>9. Joins(R, L, J)
    BY <1>3, <2>5, <2>6, <2>7, <2>8 DEF Joins
  <2>. QED  BY <2>1, <2>4, <2>9
<1>. QED  BY <1>8, <1>9

(* The states of the union-find over events of E.                          *)
Forests(E) ==
    {u \in UNION {[parent : [D -> D], rank : [D -> Nat]] : D \in SUBSET E} :
        \E R : Rooted(u, R) /\ DOMAIN R \subseteq E}

(* They are the forests with roots in E.                                   *)
LEMMA ForestsAre ==
  ASSUME NEW E, NEW u
  PROVE  u \in Forests(E) <=> \E R : Rooted(u, R) /\ DOMAIN R \subseteq E
<1>1. ASSUME NEW R, Rooted(u, R), DOMAIN R \subseteq E
      PROVE  u \in UNION {[parent : [D -> D], rank : [D -> Nat]] : D \in SUBSET E}
  <2>. DEFINE D == DOMAIN R
  <2>1. u \in [parent : [D -> D], rank : [D -> Nat]] /\ D \in SUBSET E
    BY <1>1 DEF Rooted
  <2>. HIDE DEF D
  <2>. QED  BY <2>1
<1>. QED  BY <1>1 DEF Forests

(* A group of events becomes one class.                                    *)
LEMMA AddGroupJoins ==
  ASSUME NEW u, NEW R, Rooted(u, R), NEW T, NEW events \in Seq(T)
  PROVE  \E K : Rooted(AddGroup(u, events), K) /\ Joins(R, K, ToSet(events))
<1>1. CASE events = <<>>
  <2>1. AddGroup(u, events) = u
    BY <1>1 DEF AddGroup
  <2>2. ToSet(events) = {}
    BY <1>1 DEF ToSet
  <2>3. Joins(R, R, {})
    BY DEF Joins
  <2>. QED  BY <2>1, <2>2, <2>3
<1>2. CASE events # <<>>
  <2>. DEFINE N == Len(events) - 1
              E == DOMAIN R \cup ToSet(events)
              S == Forests(E)
              base == Add(u, events[1])
              Onto(v, n) == Union(v, events[1], events[n + 1])
              step == [q \in (1 .. N) \X S |-> Onto(q[2], q[1])]
              Body(f) == [n \in 0 .. N |-> IF n = 0 THEN base ELSE Onto(f[n - 1], n)]
              F == CHOOSE f : f = Body(f)
              first(n) == {events[i] : i \in 1 .. n}
  <2>1. N \in Nat /\ DOMAIN events = 1 .. N + 1
    BY <1>2
  <2>2. ToSet(events) = first(N + 1) /\ \A i \in 1 .. N + 1 : events[i] \in E
    BY <2>1 DEF ToSet
  <2>3. PICK K0 : Rooted(base, K0) /\ Joins(R, K0, {events[1]})
    BY AddJoins
  <2>4. base \in S
    <3>1. DOMAIN K0 \subseteq E
      BY <2>1, <2>2, <2>3 DEF Joins
    <3>. HIDE DEF base, E
    <3>. QED  BY <2>3, <3>1, ForestsAre
  <2>5. ASSUME NEW n \in 1 .. N, NEW v \in S
        PROVE  Onto(v, n) \in S
    <3>1. PICK Q : Rooted(v, Q) /\ DOMAIN Q \subseteq E
      <4>. HIDE DEF E
      <4>. QED  BY ForestsAre
    <3>2. PICK K : Rooted(Onto(v, n), K) /\ Joins(Q, K, {events[1], events[n + 1]})
      BY <3>1, UnionJoins
    <3>3. DOMAIN K \subseteq E
      BY <2>1, <2>2, <3>1, <3>2 DEF Joins
    <3>. HIDE DEF Onto, E
    <3>. QED  BY <3>2, <3>3, ForestsAre
  <2>6. AddGroup(u, events) = F[N]
    BY <1>2 DEF AddGroup
  <2>. HIDE DEF S, N, base, Onto, E
  <2>7. F = Body(F)
    <3>1. step \in StepsIn(S, N)
      BY <2>5 DEF StepsIn
    <3>2. \A n \in 1 .. N, v \in S : step[<<n, v>>] = Onto(v, n)
      OBVIOUS
    <3>. HIDE DEF step
    <3>3. PICK f \in [0 .. N -> S] : Follows(f, base, step, N)
      BY <2>1, <2>4, <3>1, StepsExist
    <3>4. \A n \in 0 .. N : n = 0 \/ (n \in 1 .. N /\ f[n - 1] \in S)
      BY <2>1, <3>3
    <3>5. \A n \in 0 .. N : f[n] = IF n = 0 THEN base ELSE Onto(f[n - 1], n)
      BY <3>2, <3>3, <3>4 DEF Follows
    <3>6. f = Body(f)
      BY <3>3, <3>5
    <3>. HIDE DEF Body
    <3>. QED  BY <3>6
  <2>. HIDE DEF F
  <2>8. F[0] = base /\ \A n \in 1 .. N : F[n] = Onto(F[n - 1], n)
    <3>1. 0 \in 0 .. N /\ \A n \in 1 .. N : n \in 0 .. N /\ n # 0
      BY <2>1
    <3>2. \A n \in 0 .. N : F[n] = IF n = 0 THEN base ELSE Onto(F[n - 1], n)
      BY <2>7
    <3>. QED  BY <3>1, <3>2
  <2>. DEFINE G == {n \in 0 .. N : \E K : Rooted(F[n], K) /\ Joins(R, K, first(n + 1))}
  <2>9. 0 \in G
    <3>1. first(0 + 1) = {events[1]}
      OBVIOUS
    <3>2. 0 \in 0 .. N
      BY <2>1
    <3>. HIDE DEF first
    <3>3. Rooted(F[0], K0) /\ Joins(R, K0, first(0 + 1))
      BY <2>3, <2>8, <3>1
    <3>. QED  BY <3>2, <3>3
  <2>10. ASSUME NEW n \in 1 .. N, n - 1 \in G
         PROVE  n \in G
    <3>1. n - 1 + 1 = n /\ n \in 0 .. N
      BY <2>1
    <3>. HIDE DEF first
    <3>2. PICK Q : Rooted(F[n - 1], Q) /\ Joins(R, Q, first(n))
      BY <2>10, <3>1
    <3>. DEFINE v == F[n - 1]
                H == {events[1], events[n + 1]}
    <3>3. PICK K : Rooted(Onto(v, n), K) /\ Joins(Q, K, H)
      <4>. HIDE DEF v
      <4>1. Rooted(v, Q)
        BY <3>2 DEF v
      <4>. QED  BY <4>1, UnionJoins DEF Onto
    <3>4. events[1] \in first(n) \cap H /\ first(n + 1) = first(n) \cup H
      BY DEF first
    <3>5. Joins(R, K, first(n + 1))
      <4>. HIDE DEF H
      <4>. QED  BY <3>2, <3>3, <3>4, JoinsCompose
    <3>6. F[n] = Onto(v, n)
      BY <2>8
    <3>. HIDE DEF v
    <3>. QED  BY <3>1, <3>3, <3>5, <3>6
  <2>. HIDE DEF G
  <2>11. N \in G
    <3>1. \A n \in 0 .. N : n \in G
      BY <2>1, <2>9, <2>10, UpTo
    <3>. QED  BY <2>1, <3>1
  <2>. HIDE DEF first
  <2>. QED  BY <2>2, <2>6, <2>11 DEF G
<1>. QED  BY <1>1, <1>2

(* The groups of the first n markets joined: each market's events are one  *)
(* class, and no more is joined than the markets ask for.                  *)
Whole(events, S) == ToSet(events) \subseteq S \/ ToSet(events) \cap S = {}
Grouped(markets, n, R) ==
    /\ DOMAIN R = UNION {ToSet(markets[m].events) : m \in 1 .. n}
    /\ \A m \in 1 .. n : \A x, y \in ToSet(markets[m].events) : R[x] = R[y]
    /\ \A S : (\A m \in 1 .. n : Whole(markets[m].events, S)) => Respects(R, S)

(* One more market.                                                        *)
LEMMA GroupedNext ==
  ASSUME NEW markets, NEW n \in Nat \ {0}, NEW R, Grouped(markets, n - 1, R),
         NEW K, Joins(R, K, ToSet(markets[n].events))
  PROVE  Grouped(markets, n, K)
<1>. DEFINE J(m) == ToSet(markets[m].events)
<1>1. \A m : m \in 1 .. n <=> m \in 1 .. n - 1 \/ m = n
  OBVIOUS
<1>. HIDE DEF J
<1>2. DOMAIN K = UNION {J(m) : m \in 1 .. n}
  <2>1. DOMAIN K = (UNION {J(m) : m \in 1 .. n - 1}) \cup J(n)
    BY DEF Joins, Grouped, J
  <2>. QED  BY <1>1, <2>1
<1>3. ASSUME NEW m \in 1 .. n, NEW x \in J(m), NEW y \in J(m)
      PROVE  K[x] = K[y]
  <2>1. CASE m = n
    BY <1>3, <2>1 DEF Joins, J
  <2>2. CASE m \in 1 .. n - 1
    <3>1. x \in DOMAIN R /\ y \in DOMAIN R /\ R[x] = R[y]
      BY <1>3, <2>2 DEF Grouped, J
    <3>. QED  BY <3>1 DEF Joins
  <2>. QED  BY <1>1, <2>1, <2>2
<1>4. ASSUME NEW S, \A m \in 1 .. n : Whole(markets[m].events, S)
      PROVE  Respects(K, S)
  <2>1. Respects(R, S)
    BY <1>1, <1>4 DEF Grouped
  <2>2. J(n) \subseteq S \/ J(n) \cap S = {}
    BY <1>1, <1>4 DEF Whole, J
  <2>. QED  BY <2>1, <2>2 DEF Joins, J
<1>. QED  BY <1>2, <1>3, <1>4 DEF Grouped, J

(* What an atlas is.                                                       *)
LEMMA AtlasFacts ==
  ASSUME NEW markets \in Atlases
  PROVE  /\ Len(markets) \in Nat /\ DOMAIN markets = 1 .. Len(markets)
         /\ \A m \in DOMAIN markets : /\ markets[m].events \in Seq(Nat)
                                     /\ markets[m].closed \in Nat \cup {Open}
<1>. DEFINE M == [events : Seq(Nat), closed : Nat \cup {Open}, replayable : BOOLEAN]
<1>1. markets \in Seq(M)
  BY AtlasesAssumption
<1>2. \A x \in M : x.events \in Seq(Nat) /\ x.closed \in Nat \cup {Open}
  OBVIOUS
<1>. HIDE DEF M
<1>3. Len(markets) \in Nat /\ DOMAIN markets = 1 .. Len(markets)
  BY <1>1
<1>4. \A m \in DOMAIN markets : markets[m] \in M
  BY <1>1, <1>3
<1>. QED  BY <1>2, <1>3, <1>4

(* The union-find of a list of markets.                                    *)
LEMMA UnionsGroup ==
  ASSUME NEW markets \in Atlases
  PROVE  \E R : Rooted(Unions(markets), R) /\ Grouped(markets, Len(markets), R)
<1>. DEFINE N == Len(markets)
            group == [m \in 1 .. N |-> markets[m].events]
            E == UNION {ToSet(group[m]) : m \in 1 .. N}
            S == Forests(E)
            base == NoEvents
            Onto(v, n) == AddGroup(v, markets[n].events)
            step == [q \in (1 .. N) \X S |-> Onto(q[2], q[1])]
            Body(f) == [n \in 0 .. N |-> IF n = 0 THEN base ELSE Onto(f[n - 1], n)]
            F == CHOOSE f : f = Body(f)
<1>1. N \in Nat /\ \A n \in 1 .. N : markets[n].events \in Seq(Nat)
  BY AtlasFacts
<1>2. Rooted(base, <<>>) /\ DOMAIN (<<>>) = {}
  <2>1. IsFiniteSet({})
    BY FS_EmptySet
  <2>. QED  BY <2>1 DEF Rooted, NoEvents
<1>3. base \in S
  <2>. HIDE DEF base, E
  <2>. QED  BY <1>2, ForestsAre
<1>4. ASSUME NEW n \in 1 .. N, NEW v \in S
      PROVE  Onto(v, n) \in S
  <2>1. PICK Q : Rooted(v, Q) /\ DOMAIN Q \subseteq E
    <3>. HIDE DEF E
    <3>. QED  BY ForestsAre
  <2>2. PICK K : Rooted(Onto(v, n), K) /\ Joins(Q, K, ToSet(markets[n].events))
    BY <1>1, <2>1, AddGroupJoins
  <2>3. ToSet(markets[n].events) \subseteq E
    OBVIOUS
  <2>4. DOMAIN K \subseteq E
    <3>. HIDE DEF E
    <3>. QED  BY <2>1, <2>2, <2>3 DEF Joins
  <2>. HIDE DEF Onto, E
  <2>. QED  BY <2>2, <2>4, ForestsAre
<1>5. Unions(markets) = F[N]
  BY DEF Unions
<1>. HIDE DEF S, N, base, Onto, E
<1>6. F = Body(F)
  <2>1. step \in StepsIn(S, N)
    BY <1>4 DEF StepsIn
  <2>2. \A n \in 1 .. N, v \in S : step[<<n, v>>] = Onto(v, n)
    OBVIOUS
  <2>. HIDE DEF step
  <2>3. PICK f \in [0 .. N -> S] : Follows(f, base, step, N)
    BY <1>1, <1>3, <2>1, StepsExist
  <2>4. \A n \in 0 .. N : n = 0 \/ (n \in 1 .. N /\ f[n - 1] \in S)
    BY <1>1, <2>3
  <2>5. \A n \in 0 .. N : f[n] = IF n = 0 THEN base ELSE Onto(f[n - 1], n)
    BY <2>2, <2>3, <2>4 DEF Follows
  <2>6. f = Body(f)
    BY <2>3, <2>5
  <2>. HIDE DEF Body
  <2>. QED  BY <2>6
<1>. HIDE DEF F
<1>7. F[0] = base /\ \A n \in 1 .. N : F[n] = Onto(F[n - 1], n)
  <2>1. 0 \in 0 .. N /\ \A n \in 1 .. N : n \in 0 .. N /\ n # 0
    BY <1>1
  <2>2. \A n \in 0 .. N : F[n] = IF n = 0 THEN base ELSE Onto(F[n - 1], n)
    BY <1>6
  <2>. QED  BY <2>1, <2>2
<1>. DEFINE G == {n \in 0 .. N : \E K : Rooted(F[n], K) /\ Grouped(markets, n, K)}
<1>8. 0 \in G
  <2>1. Grouped(markets, 0, <<>>)
    BY <1>2 DEF Grouped, Respects
  <2>2. 0 \in 0 .. N
    BY <1>1
  <2>. QED  BY <1>2, <1>7, <2>1, <2>2
<1>9. ASSUME NEW n \in 1 .. N, n - 1 \in G
      PROVE  n \in G
  <2>1. n \in 0 .. N /\ n \in Nat \ {0}
    BY <1>1
  <2>2. PICK Q : Rooted(F[n - 1], Q) /\ Grouped(markets, n - 1, Q)
    BY <1>9
  <2>. DEFINE v == F[n - 1]
  <2>3. PICK K : Rooted(Onto(v, n), K) /\ Joins(Q, K, ToSet(markets[n].events))
    <3>. HIDE DEF v
    <3>1. Rooted(v, Q)
      BY <2>2 DEF v
    <3>. QED  BY <1>1, <3>1, AddGroupJoins DEF Onto
  <2>4. Grouped(markets, n, K)
    BY <2>1, <2>2, <2>3, GroupedNext
  <2>5. F[n] = Onto(v, n)
    BY <1>7
  <2>. HIDE DEF v
  <2>. QED  BY <2>1, <2>3, <2>4, <2>5
<1>. HIDE DEF G
<1>10. N \in G
  <2>1. \A n \in 0 .. N : n \in G
    BY <1>1, <1>8, <1>9, UpTo
  <2>. QED  BY <1>1, <2>1
<1>. QED  BY <1>5, <1>10 DEF G, N

(***************************************************************************)
(* Components, their splits and their labels.                              *)
(***************************************************************************)
Shared(a, m, n) == ToSet(a[m].events) \cap ToSet(a[n].events) # {}
Chained(a, m, n) ==
    \A S \in SUBSET DOMAIN a :
        m \in S /\ (\A x \in S, y \in DOMAIN a : Shared(a, x, y) => y \in S) => n \in S

(* Two markets are one component just when events chain them.              *)
LEMMA ComponentsChain ==
  ASSUME NEW a \in Atlases
  PROVE  \A m, n \in DOMAIN a :
            Chained(a, m, n) <=> Component(Unions(a), a, m) = Component(Unions(a), a, n)
<1>. DEFINE uf == Unions(a)
            A == DOMAIN a
            J(m) == ToSet(a[m].events)
            C(m) == Component(uf, a, m)
            head(m) == a[m].events[1]
<1>1. PICK R : Rooted(uf, R) /\ Grouped(a, Len(a), R)
  BY UnionsGroup
<1>2. A = 1 .. Len(a) /\ \A m \in A : a[m].events \in Seq(Nat)
  BY AtlasFacts
<1>3. DOMAIN uf.parent = DOMAIN R
  BY <1>1 DEF Rooted
<1>4. \A e \in DOMAIN R : Root(uf, e) = R[e]
  BY <1>1, RootIs
<1>5. DOMAIN R = UNION {J(m) : m \in A} /\ \A m \in A : \A x, y \in J(m) : R[x] = R[y]
  BY <1>1, <1>2 DEF Grouped
<1>6. ASSUME NEW m \in A
      PROVE  /\ a[m].events = <<>> <=> J(m) = {}
             /\ a[m].events # <<>> => head(m) \in J(m)
  <2>. DEFINE s == a[m].events
  <2>1. s \in Seq(Nat)
    BY <1>2
  <2>. HIDE DEF s
  <2>2. /\ s = <<>> <=> ToSet(s) = {}
        /\ s # <<>> => s[1] \in ToSet(s)
    <3>1. ASSUME s = <<>> PROVE ToSet(s) = {}
      BY <3>1 DEF ToSet
    <3>2. ASSUME s # <<>> PROVE s[1] \in ToSet(s)
      <4>1. Len(s) \in Nat /\ Len(s) # 0 /\ DOMAIN s = 1 .. Len(s)
        BY <2>1, <3>2, EmptySeq
      <4>2. 1 \in DOMAIN s
        BY <4>1
      <4>. QED  BY <4>2 DEF ToSet
    <3>. QED  BY <3>1, <3>2
  <2>. QED  BY <2>2 DEF s
<1>. HIDE DEF uf
<1>7. ASSUME NEW m \in A
      PROVE  C(m) = IF J(m) = {} THEN {<<"orphan", m>>}
                    ELSE {<<"event", e>> : e \in {e \in DOMAIN R : R[e] = R[head(m)]}}
  <2>1. J(m) # {} => head(m) \in DOMAIN R
    BY <1>5, <1>6
  <2>2. J(m) # {} => {e \in DOMAIN R : R[e] = R[head(m)]}
                        = {e \in DOMAIN uf.parent : Root(uf, e) = Root(uf, head(m))}
    BY <1>3, <1>4, <2>1
  <2>. QED  BY <1>6, <2>2 DEF Component
<1>8. ASSUME NEW m \in A, NEW n \in A
      PROVE  C(m) = C(n) <=> m = n \/ (J(m) # {} /\ J(n) # {} /\ R[head(m)] = R[head(n)])
  <2>1. ASSUME J(m) = {}, J(n) = {} PROVE C(m) = C(n) <=> m = n
    <3>1. C(m) = {<<"orphan", m>>} /\ C(n) = {<<"orphan", n>>}
      BY <1>7, <2>1
    <3>2. <<"orphan", m>> = <<"orphan", n>> => m = n
      OBVIOUS
    <3>. HIDE DEF C
    <3>3. C(m) = C(n) => <<"orphan", m>> = <<"orphan", n>>
      BY <3>1
    <3>. QED  BY <3>1, <3>2, <3>3
  <2>2. ASSUME NEW k \in A, NEW l \in A, J(k) = {}, J(l) # {} PROVE C(k) # C(l)
    <3>1. <<"orphan", k>> \in C(k)
      BY <1>7, <2>2
    <3>2. \A c \in C(l) : c[1] = "event"
      BY <1>7, <2>2
    <3>. HIDE DEF C, J
    <3>. QED  BY <3>1, <3>2
  <2>3. ASSUME J(m) # {}, J(n) # {} PROVE C(m) = C(n) <=> R[head(m)] = R[head(n)]
    <3>1. head(m) \in DOMAIN R
      BY <1>5, <1>6, <2>3
    <3>2. \A e : <<"event", e>> \in C(m) <=> e \in DOMAIN R /\ R[e] = R[head(m)]
      BY <1>7, <2>3
    <3>3. \A e : <<"event", e>> \in C(n) <=> e \in DOMAIN R /\ R[e] = R[head(n)]
      BY <1>7, <2>3
    <3>4. R[head(m)] = R[head(n)] => C(m) = C(n)
      BY <1>7, <2>3
    <3>. HIDE DEF C, J, head
    <3>. QED  BY <3>1, <3>2, <3>3, <3>4
  <2>. HIDE DEF C, J, head
  <2>. QED  BY <2>1, <2>2, <2>3
<1>. HIDE DEF C
<1>9. ASSUME NEW m \in A, NEW n \in A, C(m) = C(n)
      PROVE  Chained(a, m, n)
  <2>. SUFFICES ASSUME NEW S \in SUBSET A, m \in S,
                       \A x \in S, y \in A : J(x) \cap J(y) # {} => y \in S
                PROVE  n \in S
    BY DEF Chained, Shared
  <2>1. CASE m = n
    BY <2>1
  <2>2. CASE m # n
    <3>. DEFINE U == UNION {J(x) : x \in S}
    <3>1. J(m) # {} /\ J(n) # {} /\ R[head(m)] = R[head(n)]
      BY <1>8, <1>9, <2>2
    <3>2. head(m) \in J(m) /\ head(n) \in J(n)
      BY <1>6, <3>1
    <3>. HIDE DEF J, head
    <3>3. \A k \in A : J(k) \subseteq U \/ J(k) \cap U = {}
      OBVIOUS
    <3>4. \A k \in 1 .. Len(a) : Whole(a[k].events, U)
      BY <1>2, <3>3 DEF Whole, J
    <3>5. Respects(R, U)
      BY <1>1, <3>4 DEF Grouped
    <3>6. head(m) \in U /\ head(m) \in DOMAIN R /\ head(n) \in DOMAIN R
      BY <1>5, <3>2
    <3>7. head(n) \in U
      BY <3>1, <3>5, <3>6 DEF Respects
    <3>. QED  BY <3>2, <3>7
  <2>. QED  BY <2>1, <2>2
<1>10. ASSUME NEW m \in A, NEW n \in A, Chained(a, m, n)
       PROVE  C(m) = C(n)
  <2>. DEFINE S == {k \in A : C(k) = C(m)}
  <2>1. ASSUME NEW x \in S, NEW y \in A, J(x) \cap J(y) # {} PROVE y \in S
    <3>1. PICK e : e \in J(x) /\ e \in J(y)
      BY <2>1
    <3>2. head(x) \in J(x) /\ head(y) \in J(y)
      BY <1>6, <3>1
    <3>. HIDE DEF J, head
    <3>3. R[head(x)] = R[e] /\ R[head(y)] = R[e]
      BY <1>5, <3>1, <3>2
    <3>. QED  BY <1>8, <3>1, <3>3
  <2>2. \A x \in S, y \in DOMAIN a : Shared(a, x, y) => y \in S
    BY <2>1 DEF Shared
  <2>3. m \in S /\ S \in SUBSET DOMAIN a
    OBVIOUS
  <2>4. n \in S
    <3>. HIDE DEF S, A
    <3>. QED  BY <1>10, <2>2, <2>3 DEF Chained
  <2>. QED  BY <2>4
<1>. QED  BY <1>9, <1>10 DEF C, uf

(* The greatest of finitely many numbers.                                  *)
LEMMA GreatestNumber ==
  ASSUME NEW T \in SUBSET Nat, IsFiniteSet(T), T # {}
  PROVE  Max(T) \in T /\ \A y \in T : Max(T) >= y
<1>. DEFINE q == [x \in T |-> x]
<1>1. q \in [T -> Nat]
  OBVIOUS
<1>2. \E k \in T : \A j \in T : q[j] <= q[k]
  <2>. HIDE DEF q
  <2>. QED  BY <1>1, GreatestExists
<1>3. \E k \in T : \A j \in T : k >= j
  BY <1>2
<1>. QED  BY <1>3 DEF Max

(* What is computed over a finite set of places is finite.                 *)
LEMMA ValuesFinite ==
  ASSUME NEW D, IsFiniteSet(D), NEW f, f = [d \in D |-> f[d]]
  PROVE  IsFiniteSet({f[d] : d \in D})
<1>. DEFINE T == {f[d] : d \in D}
<1>1. f \in Surjection(D, T)
  BY DEF Surjection
<1>. HIDE DEF T
<1>2. IsFiniteSet(T)
  BY <1>1, FS_Surjection
<1>. QED  BY <1>2 DEF T

(* A window whose labels may be opened ends by the last of them.           *)
LEMMA WindowsEnd ==
  ASSUME NEW time \in Nat, Locate(time) \in LabelSplits
  PROVE  LastLabel \in Nat /\ time < LastLabel
<1>. DEFINE D == DOMAIN Splits
            containing == {i \in D : Splits[i].start <= time /\ time < Splits[i].end}
            L == {i \in D : Splits[i].id \in LabelSplits}
            ends == {Splits[i].end : i \in L}
            i0 == Min(containing)
<1>1. Len(Splits) \in Nat /\ D = 1 .. Len(Splits)
      /\ \A i \in D : Splits[i].start \in Nat /\ Splits[i].end \in Nat
  <2>. DEFINE W == [id : STRING, start : Nat, end : Nat]
  <2>1. Splits \in Seq(W)
    BY AtlasesAssumption
  <2>2. \A w \in W : w.start \in Nat /\ w.end \in Nat
    OBVIOUS
  <2>. HIDE DEF W
  <2>3. Len(Splits) \in Nat /\ D = 1 .. Len(Splits) /\ \A i \in D : Splits[i] \in W
    BY <2>1
  <2>. QED  BY <2>2, <2>3
<1>2. containing # {} /\ Locate(time) = Splits[i0].id
  <2>1. Locate(time) = IF containing = {} THEN "none" ELSE Splits[i0].id
    BY DEF Locate
  <2>. HIDE DEF containing, i0
  <2>. QED  BY <2>1, AtlasesAssumption
<1>3. i0 \in containing
  <2>1. containing \in SUBSET Nat
    BY <1>1
  <2>. HIDE DEF containing
  <2>2. \E x \in containing : \A y \in containing : x <= y
    BY <1>2, <2>1, LeastExists
  <2>. QED  BY <2>2 DEF Min
<1>. HIDE DEF i0
<1>4. i0 \in L /\ time < Splits[i0].end
  BY <1>2, <1>3
<1>5. ends \in SUBSET Nat /\ ends # {} /\ Splits[i0].end \in ends
  BY <1>1, <1>4
<1>6. IsFiniteSet(ends)
  <2>. DEFINE f == [i \in L |-> Splits[i].end]
  <2>1. IsFiniteSet(D)
    BY <1>1, FS_Interval
  <2>2. IsFiniteSet(L)
    BY <2>1, FS_Subset
  <2>3. ends = {f[i] : i \in L}
    OBVIOUS
  <2>4. f = [i \in L |-> f[i]]
    OBVIOUS
  <2>. HIDE DEF f, L, ends
  <2>. QED  BY <2>2, <2>3, <2>4, ValuesFinite
<1>7. LastLabel = Max(ends)
  BY DEF LastLabel
<1>. HIDE DEF ends
<1>8. LastLabel \in Nat /\ LastLabel >= Splits[i0].end
  BY <1>5, <1>6, <1>7, GreatestNumber
<1>. QED  BY <1>1, <1>4, <1>8 DEF L

(* The catalog of an atlas joins what events chain, and labels no market   *)
(* of a component that is open or closes behind the last label window.     *)
LEMMA CatalogSeals ==
  ASSUME NEW a \in Atlases, NEW c, c = Catalog(a)
  PROVE  \A m, n \in DOMAIN a :
            /\ Chained(a, m, n) <=> c.component[m] = c.component[n]
            /\ Chained(a, m, n) /\ m \in c.labelled => a[n].closed # Open /\ a[n].closed < LastLabel
<1>. DEFINE A == DOMAIN a
            comp == [m \in A |-> Component(Unions(a), a, m)]
            closings(m) == {a[k].closed : k \in {k \in A : comp[k] = comp[m]}}
            split == [m \in A |-> SplitOf(closings(m))]
            labelled == {m \in A : split[m] \in LabelSplits /\ a[m].replayable}
<1>1. c = [component |-> comp, split |-> split, labelled |-> labelled]
  BY DEF Catalog
<1>2. c.component = comp /\ c.labelled = labelled
  <2>. HIDE DEF comp, split, labelled
  <2>. QED  BY <1>1
<1>3. \A m, n \in A : Chained(a, m, n) <=> comp[m] = comp[n]
  BY ComponentsChain
<1>4. IsFiniteSet(A) /\ \A k \in A : a[k].closed \in Nat \cup {Open}
  <2>1. Len(a) \in Nat /\ A = 1 .. Len(a) /\ \A k \in A : a[k].closed \in Nat \cup {Open}
    BY AtlasFacts
  <2>. HIDE DEF A
  <2>. QED  BY <2>1, FS_Interval
<1>. HIDE DEF comp
<1>5. ASSUME NEW m \in A, NEW n \in A, comp[m] = comp[n], m \in labelled
      PROVE  a[n].closed # Open /\ a[n].closed < LastLabel
  <2>. DEFINE T == closings(m)
              I == {k \in A : comp[k] = comp[m]}
              f == [k \in I |-> a[k].closed]
  <2>1. a[n].closed \in T /\ T = {f[k] : k \in I} /\ f = [k \in I |-> f[k]]
    BY <1>5
  <2>2. IsFiniteSet(T)
    <3>1. IsFiniteSet(I)
      BY <1>4, FS_Subset
    <3>. HIDE DEF T, I, f
    <3>. QED  BY <2>1, <3>1, ValuesFinite
  <2>3. T \subseteq Nat \cup {Open}
    BY <1>4
  <2>4. SplitOf(T) \in LabelSplits
    BY <1>5
  <2>. HIDE DEF T, I, f
  <2>5. Open \notin T /\ Locate(Max(T)) \in LabelSplits
    BY <2>4, AtlasesAssumption DEF SplitOf
  <2>6. T \in SUBSET Nat
    BY <2>3, <2>5
  <2>7. Max(T) \in Nat /\ Max(T) >= a[n].closed
    BY <2>1, <2>2, <2>6, GreatestNumber
  <2>8. Max(T) < LastLabel
    BY <2>5, <2>7, WindowsEnd
  <2>9. LastLabel \in Nat
    BY <2>5, <2>7, WindowsEnd
  <2>10. a[n].closed # Open /\ a[n].closed \in Nat
    BY <2>1, <2>5, <2>6
  <2>. QED  BY <2>7, <2>8, <2>9, <2>10
<1>. HIDE DEF labelled
<1>. QED  BY <1>2, <1>3, <1>5

(* The atlas is one of the atlases.                                        *)
LEMMA AtlasStays == Spec => [](atlas \in Atlases)
<1>1. Init => atlas \in Atlases
  BY DEF Init
<1>2. atlas \in Atlases /\ [Next]_vars => (atlas \in Atlases)'
  BY Kept
<1>. QED  BY <1>1, <1>2, PTL DEF Spec

(* In every catalog a build puts in place, the components are the classes  *)
(* of markets that events chain, and a market is labelled only when its    *)
(* whole component closed before the last label window ends: for any       *)
(* atlas, windows, limits, pauses and kills.                               *)
THEOREM ComponentsAreAlwaysSealed == Spec => ComponentsSealed
<1>1. atlas \in Atlases /\ CatalogInv /\ [Next]_vars => [catalog' # catalog => Sealed']_vars
  <2>. SUFFICES ASSUME atlas \in Atlases, CatalogInv, [Next]_vars, catalog' # catalog
                PROVE  Sealed'
    OBVIOUS
  <2>1. atlas' = atlas /\ catalog' = Catalog(atlas)
    BY Kept, CatalogSteps DEF BuildCatalog, CatalogInv
  <2>2. \A m, n \in DOMAIN atlas :
            /\ Chained(atlas, m, n) <=> catalog'.component[m] = catalog'.component[n]
            /\ Chained(atlas, m, n) /\ m \in catalog'.labelled =>
                  atlas[n].closed # Open /\ atlas[n].closed < LastLabel
    BY <2>1, CatalogSeals
  <2>3. \A m, n : Connected(m, n)' <=> Chained(atlas, m, n)
    BY <2>1 DEF Connected, Sharing, Chained, Shared
  <2>. QED  BY <2>1, <2>2, <2>3 DEF Sealed
<1>2. DecisionsInv => CatalogInv
  BY DEF DecisionsInv
<1>. QED  BY <1>1, <1>2, AtlasStays, DecisionsInvariant, PTL DEF Spec, ComponentsSealed
==============================================================================
