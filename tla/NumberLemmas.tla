---------------------------- MODULE NumberLemmas ----------------------------
(***************************************************************************)
(* Natural numbers: products and quotients, and induction for the loops of *)
(* the code, stated with sets and functions only.                          *)
(***************************************************************************)
EXTENDS Naturals, WellFoundedInduction, TLAPS

(* Multiplication is monotonic.                                            *)
LEMMA Mul ==
  ASSUME NEW a \in Nat, NEW b \in Nat, NEW c \in Nat, a <= b
  PROVE  c * a <= c * b /\ c * a \in Nat
OBVIOUS

(* The quotient and the remainder of a length are unique (the number of    *)
(* full fragments of a packet and the length of its last one).             *)
LEMMA DivUnique ==
  ASSUME NEW m \in Nat, m > 0, NEW q \in Nat, NEW r \in Nat, r < m
  PROVE  (q * m + r) \div m = q /\ (q * m + r) % m = r
OBVIOUS

(* A position has a quotient and a remainder (the fragment a byte is in).  *)
LEMMA DivSplit ==
  ASSUME NEW m \in Nat, m > 0, NEW x \in Nat
  PROVE  \E q \in Nat, r \in 0 .. m - 1 : x = q * m + r /\ x \div m = q
OBVIOUS

(* Sums of fragment lengths.                                               *)
LEMMA Distributes ==
  ASSUME NEW a \in Nat, NEW b \in Nat, NEW m \in Nat
  PROVE  /\ (a + b) * m = a * m + b * m /\ m * (a + b) = m * a + m * b
         /\ a * m \in Nat /\ m * a \in Nat
OBVIOUS

(* Every nonempty set of numbers has a smallest one.                       *)
LEMMA SmallestOf ==
  ASSUME NEW T, T \subseteq Nat, T # {}
  PROVE  \E n \in T : \A m \in T : n <= m
<1>1. PICK n \in T : \A m \in T : ~(<<m, n>> \in OpToRel(<, Nat))
  BY NatLessThanWellFounded, WFMin
<1>2. \A m \in T : ~(m < n)
  BY <1>1 DEF OpToRel
<1> QED
  BY <1>2

(* What holds before a loop and is kept by each of its n iterations holds  *)
(* throughout: good is the set of iterations after which it holds.         *)
LEMMA LoopInduction ==
  ASSUME NEW n \in Nat, NEW good, 0 \in good,
         \A i \in 1 .. n : i - 1 \in good => i \in good
  PROVE  \A i \in 0 .. n : i \in good
<1> DEFINE bad == {i \in 0 .. n : i \notin good}
<1> SUFFICES ASSUME bad # {} PROVE FALSE
  OBVIOUS
<1>1. bad \subseteq Nat
  OBVIOUS
<1>2. \E k \in bad : \A m \in bad : k <= m
  <2> HIDE DEF bad
  <2> QED
    BY <1>1, SmallestOf
<1>3. PICK k \in bad : \A m \in bad : k <= m
  BY <1>2
<1>4. k \in 1 .. n /\ k - 1 \in 0 .. n /\ k - 1 \notin bad
  BY <1>3
<1> QED
  BY <1>3, <1>4

(* The values f[i] a variable of a loop has after i of its n iterations,   *)
(* iteration i computing the next value by step[i].                        *)
IsLoop(f, n, S, start, step) ==
  /\ f \in [0 .. n -> S]
  /\ f[0] = start
  /\ \A i \in 1 .. n : f[i] = step[i][f[i - 1]]

(* Such a loop has a value after every iteration.                          *)
LEMMA LoopExists ==
  ASSUME NEW n \in Nat, NEW S, NEW start \in S, NEW step \in [1 .. n -> [S -> S]]
  PROVE  \E f : IsLoop(f, n, S, start, step)
<1> DEFINE Runs(k, f) == f[0] = start /\ \A i \in 1 .. k : f[i] = step[i][f[i - 1]]
           good == {k \in 0 .. n : \E f \in [0 .. k -> S] : Runs(k, f)}
<1>1. 0 \in good
  <2>1. [i \in 0 .. 0 |-> start] \in [0 .. 0 -> S] /\ Runs(0, [i \in 0 .. 0 |-> start])
    OBVIOUS
  <2>2. \E f \in [0 .. 0 -> S] : Runs(0, f)
    BY <2>1, Zenon
  <2> QED
    BY <2>2
<1>2. ASSUME NEW k \in 1 .. n, k - 1 \in good PROVE k \in good
  <2>1. PICK f \in [0 .. (k - 1) -> S] : Runs(k - 1, f)
    BY <1>2
  <2> DEFINE g == [i \in 0 .. k |-> IF i = k THEN step[k][f[k - 1]] ELSE f[i]]
  <2>2. step[k][f[k - 1]] \in S
    BY <2>1
  <2>3. g \in [0 .. k -> S]
    BY <2>2
  <2>4. Runs(k, g)
    BY <2>1
  <2>5. \E h \in [0 .. k -> S] : Runs(k, h)
    <3> HIDE DEF g, Runs
    <3> QED
      BY <2>3, <2>4
  <2> QED
    BY <2>5
<1>3. n \in good
  <2>1. \A k \in 1 .. n : k - 1 \in good => k \in good
    BY <1>2
  <2> HIDE DEF good
  <2>2. \A k \in 0 .. n : k \in good
    BY <1>1, <2>1, LoopInduction
  <2> QED
    BY <2>2
<1> QED
  BY <1>3 DEF IsLoop
(* The values of a walk over a message, from its end to its start: at a    *)
(* place in stop it has its last value, at any other it follows from the   *)
(* value at a later place.                                                 *)
IsWalk(f, S, stop, last, next, step) ==
  /\ f \in [Nat -> S]
  /\ \A x \in Nat : f[x] = IF x \in stop THEN last[x] ELSE step[x][f[next[x]]]

(* A walk that stops beyond top has a value at every place.                *)
LEMMA WalkExists ==
  ASSUME NEW S, NEW top \in Nat, NEW stop, NEW last \in [Nat -> S], NEW next \in [Nat -> Nat],
         NEW step \in [Nat -> [S -> S]],
         \A x \in Nat : x \notin stop => x <= top /\ next[x] > x
  PROVE  \E f : IsWalk(f, S, stop, last, next, step)
<1> DEFINE Again(f) == [x \in Nat |-> IF x \in stop THEN last[x] ELSE step[x][f[next[x]]]]
           F == [Nat -> S]
           size == top + 1
           rounds == [k \in 1 .. size |-> [f \in F |-> Again(f)]]
<1>1. ASSUME NEW f \in F PROVE Again(f) \in F
  OBVIOUS
<1>2. rounds \in [1 .. size -> [F -> F]] /\ size \in Nat /\ last \in F
  <2>1. last \in F /\ size \in Nat
    OBVIOUS
  <2> HIDE DEF F, Again
  <2>2. rounds \in [1 .. size -> [F -> F]]
    BY <1>1
  <2> QED
    BY <2>1, <2>2
<1>3. \E g : IsLoop(g, size, F, last, rounds)
  <2> HIDE DEF rounds, F, size
  <2> QED
    BY <1>2, LoopExists
<1>4. PICK g : IsLoop(g, size, F, last, rounds)
  BY <1>3
<1>5. g \in [0 .. size -> F] /\ g[0] = last /\ \A k \in 1 .. size : g[k] = rounds[k][g[k - 1]]
  <2> HIDE DEF rounds, F, size
  <2> QED
    BY <1>4 DEF IsLoop
<1>6. ASSUME NEW k \in 1 .. size PROVE g[k] = Again(g[k - 1]) /\ g[k] \in F /\ g[k - 1] \in F
  <2>1. k - 1 \in 0 .. size /\ k \in 0 .. size
    OBVIOUS
  <2>2. g[k - 1] \in F /\ g[k] \in F
    <3> HIDE DEF F, rounds
    <3> QED
      BY <1>5, <2>1
  <2>3. rounds[k][g[k - 1]] = Again(g[k - 1])
    <3> HIDE DEF F, Again
    <3> QED
      BY <2>2
  <2> HIDE DEF F, Again, rounds
  <2> QED
    BY <1>5, <2>2, <2>3
<1>7. \A k \in 1 .. size : \A x \in Nat :
        g[k][x] = IF x \in stop THEN last[x] ELSE step[x][g[k - 1][next[x]]]
  <2>1. ASSUME NEW k \in 1 .. size, NEW x \in Nat
        PROVE  g[k][x] = IF x \in stop THEN last[x] ELSE step[x][g[k - 1][next[x]]]
    <3>1. g[k] = Again(g[k - 1])
      BY <1>6
    <3>2. Again(g[k - 1])[x] = IF x \in stop THEN last[x] ELSE step[x][g[k - 1][next[x]]]
      OBVIOUS
    <3> QED
      BY <3>1, <3>2, Zenon
  <2> QED
    BY <2>1
<1> DEFINE good == {k \in 0 .. top : \A x \in Nat : x + k > top => g[k + 1][x] = g[k][x]}
<1> HIDE DEF rounds
<1>8. 0 \in good
  <2>1. ASSUME NEW x \in Nat, x + 0 > top PROVE g[0 + 1][x] = g[0][x]
    <3>1. x \in stop
      BY <2>1
    <3>2. 1 \in 1 .. size
      OBVIOUS
    <3>3. g[1][x] = last[x]
      BY <1>7, <3>1, <3>2
    <3> QED
      BY <1>5, <3>3
  <2> QED
    BY <2>1
<1>9. ASSUME NEW k \in 1 .. top, k - 1 \in good PROVE k \in good
  <2>1. ASSUME NEW x \in Nat, x + k > top PROVE g[k + 1][x] = g[k][x]
    <3>0. k + 1 \in 1 .. size /\ k \in 1 .. size /\ (k + 1) - 1 = k /\ (k - 1) + 1 = k
      OBVIOUS
    <3>1. g[k + 1][x] = IF x \in stop THEN last[x] ELSE step[x][g[k][next[x]]]
      BY <1>7, <3>0
    <3>2. g[k][x] = IF x \in stop THEN last[x] ELSE step[x][g[k - 1][next[x]]]
      BY <1>7, <3>0
    <3>3. CASE x \in stop
      BY <3>1, <3>2, <3>3
    <3>4. CASE x \notin stop
      <4>1. next[x] \in Nat /\ next[x] > x
        BY <3>4
      <4>2. next[x] + (k - 1) > top
        BY <2>1, <4>1
      <4>3. g[(k - 1) + 1][next[x]] = g[k - 1][next[x]]
        BY <1>9, <4>1, <4>2
      <4>4. g[k][next[x]] = g[k - 1][next[x]]
        BY <3>0, <4>3
      <4> QED
        BY <3>1, <3>2, <3>4, <4>4
    <3> QED
      BY <3>3, <3>4
  <2> QED
    BY <2>1
<1>10. top \in good
  <2>1. \A k \in 1 .. top : k - 1 \in good => k \in good
    BY <1>9
  <2> HIDE DEF good
  <2>2. \A k \in 0 .. top : k \in good
    BY <1>8, <2>1, LoopInduction
  <2> QED
    BY <2>2
<1> DEFINE f == [x \in Nat |-> g[size][x]]
<1>11. ASSUME NEW x \in Nat
       PROVE  g[size][x] = IF x \in stop THEN last[x] ELSE step[x][g[size][next[x]]]
  <2>1. size \in 1 .. size /\ size - 1 = top
    OBVIOUS
  <2>2. g[size][x] = IF x \in stop THEN last[x] ELSE step[x][g[top][next[x]]]
    BY <1>7, <2>1
  <2>3. CASE x \in stop
    BY <2>2, <2>3
  <2>4. CASE x \notin stop
    <3>1. next[x] \in Nat /\ next[x] + top > top
      BY <2>4
    <3>2. g[top + 1][next[x]] = g[top][next[x]]
      BY <1>10, <3>1
    <3> QED
      BY <2>2, <2>4, <3>2
  <2> QED
    BY <2>3, <2>4
<1>12. f \in [Nat -> S]
  <2>1. size \in 1 .. size
    OBVIOUS
  <2>2. g[size] \in [Nat -> S]
    BY <1>6, <2>1
  <2> QED
    BY <2>2
<1>13. \A x \in Nat : f[x] = IF x \in stop THEN last[x] ELSE step[x][f[next[x]]]
  <2>1. \A x \in Nat : next[x] \in Nat
    OBVIOUS
  <2> HIDE DEF size
  <2> QED
    BY <1>11, <2>1
<1> HIDE DEF f
<1> QED
  BY <1>12, <1>13 DEF IsWalk

(* What holds where a walk stops, and at a place when it holds at the next *)
(* one, holds at every place.                                              *)
LEMMA WalkInduction ==
  ASSUME NEW top \in Nat, NEW stop, NEW next, NEW good,
         \A x \in Nat : x \in stop => x \in good,
         \A x \in Nat : x \notin stop =>
           x <= top /\ next[x] \in Nat /\ next[x] > x /\ (next[x] \in good => x \in good)
  PROVE  \A x \in Nat : x \in good
<1> DEFINE bad == {k \in 0 .. top : top - k \notin good}
<1> SUFFICES ASSUME NEW x \in Nat, x \notin good PROVE FALSE
  OBVIOUS
<1>1. x \notin stop /\ x <= top
  OBVIOUS
<1>2. top - x \in bad
  <2>1. top - (top - x) = x /\ top - x \in 0 .. top
    BY <1>1
  <2> QED
    BY <2>1
<1>3. bad \subseteq Nat
  OBVIOUS
<1>4. bad # {}
  BY <1>2, Zenon
<1>5. PICK k \in bad : \A m \in bad : k <= m
  <2> HIDE DEF bad
  <2> QED
    BY <1>3, <1>4, SmallestOf
<1> DEFINE y == top - k
<1>6. y \in Nat /\ y \notin good /\ y <= top /\ k \in 0 .. top
  BY <1>5
<1>7. next[y] \in Nat /\ next[y] > y /\ next[y] \notin good
  BY <1>6
<1>8. next[y] <= top
  BY <1>7
<1>9. top - next[y] \in 0 .. top /\ top - (top - next[y]) = next[y] /\ top - next[y] < k
  BY <1>6, <1>7, <1>8
<1>10. top - next[y] \in bad
  BY <1>7, <1>9
<1> QED
  BY <1>5, <1>6, <1>9, <1>10
=============================================================================
