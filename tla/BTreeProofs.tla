----------------------------- MODULE BTreeProofs -----------------------------
(***************************************************************************)
(* Theorems about two algorithms of btree.c, for every input: how          *)
(* balance_nonroot distributes cells over siblings (Distribution), and the *)
(* list of free pages (FreeList).  What they compute, they compute step by *)
(* step, so the definitions are recursive functions: the first section     *)
(* says what such a function is.                                           *)
(***************************************************************************)
EXTENDS FreeList, Distribution, FiniteSetTheorems, SequenceTheorems, WellFoundedInduction, TLAPS

-------------------------------------------------------------------------------
(* Recursive functions, and the sums they make of the cells.                 *)

\* Any set of numbers has a least one.
LEMMA Least ==
  ASSUME NEW T \in SUBSET Nat, T # {}
  PROVE  \E m \in T : \A k \in T : m <= k
<1>1. PICK m \in T : \A k \in T : ~(<<k, m>> \in OpToRel(<, Nat))
  BY NatLessThanWellFounded, WFMin
<1>2. \A k \in T : ~(k < m)
  BY <1>1 DEF OpToRel
<1> QED
  BY <1>2

\* Any set of numbers up to n has a greatest one.
LEMMA Greatest ==
  ASSUME NEW n \in Nat, NEW T \in SUBSET (0..n), T # {}
  PROVE  \E m \in T : \A k \in T : k <= m
<1> DEFINE U == {x \in 0..n : n - x \in T}
<1>1. U \in SUBSET Nat /\ U # {}
  <2>1. PICK k \in T : TRUE
    OBVIOUS
  <2>2. n - k \in 0..n /\ n - (n - k) = k
    BY <2>1
  <2>3. n - k \in U
    BY <2>1, <2>2
  <2>4. U \subseteq Nat
    OBVIOUS
  <2> QED
    BY <2>3, <2>4
<1>2. PICK u \in U : \A x \in U : u <= x
  <2> HIDE DEF U
  <2> QED
    BY <1>1, Least
<1>3. n - u \in T /\ u \in 0..n
  BY <1>2
<1>4. ASSUME NEW k \in T PROVE k <= n - u
  <2>1. k \in 0..n
    OBVIOUS
  <2>2. n - k \in 0..n /\ n - (n - k) = k
    BY <2>1
  <2>3. n - k \in U
    BY <2>2
  <2>4. u <= n - k
    <3> HIDE DEF U
    <3> QED
      BY <1>2, <2>3
  <2> QED
    BY <1>3, <2>1, <2>4
<1> QED
  BY <1>3, <1>4

\* A set that has lo and, with each number below hi, the next one, has all from lo to hi.
LEMMA Upward ==
  ASSUME NEW lo \in Int, NEW hi \in Int, NEW T,
         lo <= hi => lo \in T,
         \A k \in lo..hi : k \in T /\ k < hi => k + 1 \in T
  PROVE  \A k \in lo..hi : k \in T
<1> DEFINE Bad == {x \in Nat : lo + x \in lo..hi /\ lo + x \notin T}
<1> SUFFICES ASSUME NEW k \in lo..hi, k \notin T PROVE FALSE
  OBVIOUS
<1>1. k - lo \in Bad
  OBVIOUS
<1>2. PICK x \in Bad : \A y \in Bad : x <= y
  <2>1. Bad \in SUBSET Nat
    OBVIOUS
  <2> HIDE DEF Bad
  <2> QED
    BY <1>1, <2>1, Least
<1>3. x \in Nat /\ lo + x \in lo..hi /\ lo + x \notin T
  BY <1>2
<1>4. x # 0
  BY <1>3
<1>5. x - 1 \in Nat /\ lo + (x - 1) \in lo..hi /\ lo + (x - 1) < hi
      /\ (lo + (x - 1)) + 1 = lo + x
  BY <1>3, <1>4
<1>6. x - 1 \notin Bad
  <2>1. ~(x <= x - 1)
    BY <1>3
  <2> HIDE DEF Bad
  <2> QED
    BY <1>2, <2>1
<1>7. lo + (x - 1) \in T
  BY <1>5, <1>6
<1> HIDE DEF Bad
<1> QED
  BY <1>3, <1>5, <1>7

\* The same from hi down.
LEMMA Downward ==
  ASSUME NEW lo \in Int, NEW hi \in Int, NEW T,
         lo <= hi => hi \in T,
         \A k \in lo..hi : k \in T /\ lo < k => k - 1 \in T
  PROVE  \A k \in lo..hi : k \in T
<1> DEFINE U == {k \in lo..hi : (lo + hi) - k \in T}
<1>1. lo <= hi => lo \in U
  OBVIOUS
<1>2. ASSUME NEW k \in lo..hi, k \in U, k < hi PROVE k + 1 \in U
  <2>1. (lo + hi) - k \in lo..hi /\ lo < (lo + hi) - k /\ (lo + hi) - k \in T
    BY <1>2
  <2>2. ((lo + hi) - k) - 1 \in T
    BY <2>1
  <2>3. (lo + hi) - (k + 1) = ((lo + hi) - k) - 1 /\ k + 1 \in lo..hi
    BY <1>2
  <2> QED
    BY <2>2, <2>3
<1>3. \A k \in lo..hi : k \in U
  <2> HIDE DEF U
  <2> QED
    BY <1>1, <1>2, Upward
<1> SUFFICES ASSUME NEW k \in lo..hi PROVE k \in T
  OBVIOUS
<1>4. (lo + hi) - k \in lo..hi /\ (lo + hi) - ((lo + hi) - k) = k
  OBVIOUS
<1>5. (lo + hi) - k \in U
  <2> HIDE DEF U
  <2> QED
    BY <1>3, <1>4
<1> QED
  BY <1>4, <1>5

\* f starts with x, and each value comes from the one before it.
Iterates(f, x, step, L) ==
  \A i \in 0..L : f[i] = IF i = 0 THEN x ELSE step[<<i, f[i - 1]>>]

\* A function on 0..L can be defined by such a recursion.
LEMMA Recursion ==
  ASSUME NEW S, NEW x \in S, NEW L \in Nat, NEW step \in [(1..L) \X S -> S]
  PROVE  \E f \in [0..L -> S] : Iterates(f, x, step, L)
<1> DEFINE Steps(f, m) == \A i \in 0..m : f[i] = IF i = 0 THEN x ELSE step[<<i, f[i - 1]>>]
           T == {m \in 0..L : \E f \in [0..m -> S] : Steps(f, m)}
<1>1. 0 \in T
  <2>1. [i \in 0..0 |-> x] \in [0..0 -> S] /\ Steps([i \in 0..0 |-> x], 0)
    OBVIOUS
  <2>2. 0 \in 0..L
    OBVIOUS
  <2> QED
    BY <2>1, <2>2
<1>2. ASSUME NEW m \in 0..L, m \in T, m < L PROVE m + 1 \in T
  <2>1. PICK f \in [0..m -> S] : Steps(f, m)
    BY <1>2
  <2> DEFINE g == [i \in 0..(m + 1) |-> IF i = m + 1 THEN step[<<m + 1, f[m]>>] ELSE f[i]]
  <2>2. m + 1 \in 1..L /\ m \in 0..m
    BY <1>2
  <2>3. f[m] \in S
    BY <2>2
  <2>4. step[<<m + 1, f[m]>>] \in S
    BY <2>2, <2>3
  <2>5. g \in [0..(m + 1) -> S]
    BY <2>4
  <2>6. ASSUME NEW i \in 0..(m + 1)
        PROVE  g[i] = IF i = 0 THEN x ELSE step[<<i, g[i - 1]>>]
    <3>1. CASE i = m + 1
      <4>1. g[m] = f[m] /\ i - 1 = m /\ i # 0
        BY <3>1
      <4> QED
        BY <3>1, <4>1
    <3>2. CASE i # m + 1
      <4>1. i \in 0..m /\ (i # 0 => i - 1 \in 0..m /\ i - 1 # m + 1 /\ i - 1 \in 0..(m + 1))
        BY <3>2
      <4>2. g[i] = f[i] /\ (i # 0 => g[i - 1] = f[i - 1])
        BY <3>2, <4>1
      <4>3. f[i] = IF i = 0 THEN x ELSE step[<<i, f[i - 1]>>]
        BY <2>1, <4>1
      <4> HIDE DEF g
      <4> QED
        BY <4>2, <4>3
    <3> QED
      BY <3>1, <3>2
  <2>7. m + 1 \in 0..L
    BY <1>2
  <2> HIDE DEF g
  <2> QED
    BY <2>5, <2>6, <2>7
<1>3. L \in T
  <2> HIDE DEF T
  <2>1. 0 \in Int /\ L \in Int /\ L \in 0..L
    OBVIOUS
  <2>2. \A k \in 0..L : k \in T
    BY <1>1, <1>2, <2>1, Upward
  <2> QED
    BY <2>1, <2>2
<1> QED
  BY <1>3 DEF Iterates

-------------------------------------------------------------------------------
(* How cells are distributed.                                                 *)

\* What balance_nonroot is given: each cell takes more than its two bytes of pointer,
\* and fits on a page; where cells go to the parent, two cells do.
Cells(sz, keep, room) ==
  /\ sz \in Seq(Nat) /\ room \in Nat /\ keep \in {0, 1}
  /\ \A i \in 1..Len(sz) : sz[i] > 2 /\ (2 - keep) * sz[i] <= room

\* t[k] is the sum of the first k sizes.
LEMMA BeforeExists ==
  ASSUME NEW sz \in Seq(Nat)
  PROVE  \E t \in [0..Len(sz) -> Nat] :
           \A k \in 0..Len(sz) : t[k] = IF k = 0 THEN 0 ELSE t[k - 1] + sz[k]
<1> DEFINE L == Len(sz)
           Adds(t, m) == \A k \in 0..m : t[k] = IF k = 0 THEN 0 ELSE t[k - 1] + sz[k]
           Bad == {m \in 0..L : ~\E t \in [0..m -> Nat] : Adds(t, m)}
<1>0. L \in Nat /\ \A k \in 1..L : sz[k] \in Nat
  OBVIOUS
<1>1. SUFFICES ASSUME Bad # {} PROVE FALSE
  <2>1. L \in 0..L
    BY <1>0
  <2> QED
    BY <1>1, <2>1
<1> HIDE DEF L
<1>2. PICK m \in Bad : \A k \in Bad : m <= k
  <2>1. Bad \in SUBSET Nat
    OBVIOUS
  <2> HIDE DEF Bad
  <2> QED
    BY <1>1, <2>1, Least
<1>3. CASE m = 0
  <2>1. [k \in 0..0 |-> 0] \in [0..0 -> Nat] /\ Adds([k \in 0..0 |-> 0], 0)
    OBVIOUS
  <2> QED
    BY <1>3, <2>1
<1>4. CASE m # 0
  <2>0. m \in 0..L /\ \A k \in Bad : m <= k
    BY <1>2
  <2>1. m - 1 \in 0..L /\ m - 1 \notin Bad
    <3>1. m - 1 \in 0..L /\ ~(m <= m - 1)
      BY <1>0, <1>4, <2>0
    <3> HIDE DEF Bad
    <3> QED
      BY <2>0, <3>1
  <2>2. PICK t \in [0..(m - 1) -> Nat] : Adds(t, m - 1)
    BY <2>1
  <2> DEFINE h == [k \in 0..m |-> IF k = m THEN t[m - 1] + sz[m] ELSE t[k]]
  <2>3. h \in [0..m -> Nat]
    <3>1. t[m - 1] + sz[m] \in Nat
      <4>1. m - 1 \in 0..(m - 1) /\ m \in 1..L
        BY <1>0, <1>4, <2>0
      <4>2. t[m - 1] \in Nat
        BY <4>1
      <4>3. sz[m] \in Nat
        BY <1>0, <4>1
      <4> QED
        BY <4>2, <4>3
    <3>2. \A k \in 0..m : k # m => t[k] \in Nat
      BY <2>0
    <3> QED
      BY <3>1, <3>2
  <2>4. ASSUME NEW k \in 0..m PROVE h[k] = IF k = 0 THEN 0 ELSE h[k - 1] + sz[k]
    <3>1. CASE k = m
      BY <1>0, <1>4, <2>0, <3>1
    <3>2. CASE k # m
      <4>1. k \in 0..(m - 1)
        BY <2>0, <3>2
      <4>2. t[k] = IF k = 0 THEN 0 ELSE t[k - 1] + sz[k]
        BY <2>2, <4>1
      <4>3. h[k] = t[k] /\ (k # 0 => h[k - 1] = t[k - 1])
        BY <2>0, <3>2, <4>1
      <4> QED
        BY <4>2, <4>3
    <3> QED
      BY <3>1, <3>2
  <2> QED
    BY <2>3, <2>4
<1> QED
  BY <1>3, <1>4

\* Before(sz) adds up the sizes.
LEMMA BeforeAdds ==
  ASSUME NEW sz \in Seq(Nat)
  PROVE  LET t == Before(sz)
         IN  /\ t \in [0..Len(sz) -> Nat] /\ t[0] = 0
             /\ \A k \in 1..Len(sz) : t[k] = t[k - 1] + sz[k]
<1> DEFINE L == Len(sz)
           Sums(t) == t = [k \in 0..L |-> IF k = 0 THEN 0 ELSE t[k - 1] + sz[k]]
           b == CHOOSE t : Sums(t)
<1>1. L \in Nat
  OBVIOUS
<1>2. PICK h \in [0..L -> Nat] : \A k \in 0..L : h[k] = IF k = 0 THEN 0 ELSE h[k - 1] + sz[k]
  BY BeforeExists
<1>3. Sums(h)
  BY <1>2
<1>4. Sums(b)
  BY <1>3
<1>5. Before(sz) = b
  BY DEF Before
<1> HIDE DEF L, b
<1>6. DOMAIN b = 0..L /\ \A k \in 0..L : b[k] = IF k = 0 THEN 0 ELSE b[k - 1] + sz[k]
  BY <1>4
<1>7. \A k \in 0..L : b[k] = h[k]
  <2> DEFINE Bad == {k \in 0..L : b[k] # h[k]}
  <2> SUFFICES ASSUME Bad # {} PROVE FALSE
    OBVIOUS
  <2>1. PICK m \in Bad : \A k \in Bad : m <= k
    <3>1. Bad \in SUBSET Nat
      OBVIOUS
    <3> HIDE DEF Bad
    <3> QED
      BY <3>1, Least
  <2>2. m \in 0..L /\ b[m] # h[m]
    BY <2>1
  <2>3. m # 0 => b[m - 1] = h[m - 1]
    <3>1. m # 0 => (m - 1 \in 0..L /\ ~(m <= m - 1))
      BY <1>1, <2>2
    <3>2. m # 0 => m - 1 \notin Bad
      <4> HIDE DEF Bad
      <4> QED
        BY <2>1, <3>1
    <3> QED
      BY <3>1, <3>2
  <2> QED
    BY <1>2, <1>6, <2>2, <2>3
<1>8. b = h
  <2>1. DOMAIN h = 0..L /\ b = [k \in 0..L |-> b[k]] /\ h = [k \in 0..L |-> h[k]]
    BY <1>2, <1>4
  <2> QED
    BY <1>7, <2>1
<1>9. /\ h \in [0..L -> Nat] /\ h[0] = 0
      /\ \A k \in 1..L : h[k] = h[k - 1] + sz[k]
  BY <1>1, <1>2
<1> QED
  BY <1>5, <1>8, <1>9 DEF L

\* The sums grow by more than two with each cell, by at most what a page has room for.
LEMMA SumsGrow ==
  ASSUME NEW sz, NEW keep, NEW room, Cells(sz, keep, room)
  PROVE  LET t == Before(sz)  n == Len(sz)
         IN  /\ n \in Nat /\ t \in [0..n -> Nat] /\ t[0] = 0
             /\ \A k \in 1..n : /\ t[k] = t[k - 1] + sz[k] /\ sz[k] \in Nat /\ sz[k] > 2
                                /\ sz[k] <= room /\ (keep = 0 => sz[k] + sz[k] <= room)
             /\ \A a, b \in 0..n : a <= b => t[a] <= t[b]
             /\ \A a, b \in 0..n : a < b => t[a] + 2 < t[b]
<1> DEFINE t == Before(sz)
           n == Len(sz)
<1>0. /\ sz \in Seq(Nat) /\ room \in Nat /\ keep \in {0, 1}
      /\ \A i \in 1..n : sz[i] > 2 /\ (2 - keep) * sz[i] <= room
  BY DEF Cells
<1>1. n \in Nat /\ t \in [0..n -> Nat] /\ t[0] = 0 /\ \A k \in 1..n : t[k] = t[k - 1] + sz[k]
  BY <1>0, BeforeAdds
<1>2. ASSUME NEW k \in 1..n
      PROVE  sz[k] \in Nat /\ sz[k] > 2 /\ sz[k] <= room /\ (keep = 0 => sz[k] + sz[k] <= room)
  <2>1. sz[k] \in Nat /\ sz[k] > 2 /\ (2 - keep) * sz[k] <= room
    BY <1>0
  <2>2. CASE keep = 0
    BY <1>0, <2>1, <2>2
  <2>3. CASE keep = 1
    BY <1>0, <2>1, <2>3
  <2> QED
    BY <1>0, <2>2, <2>3
<1> HIDE DEF t, n
<1>3. ASSUME NEW a \in 0..n PROVE \A b \in a..n : a < b => t[a] + 2 < t[b]
  <2> DEFINE T == {b \in 0..n : b = a \/ t[a] + 2 < t[b]}
  <2>1. a \in T
    OBVIOUS
  <2>2. ASSUME NEW b \in a..n, b \in T, b < n PROVE b + 1 \in T
    <3>1. b \in 0..n /\ b + 1 \in 1..n /\ (b + 1) - 1 = b /\ b + 1 \in 0..n
      BY <1>1, <2>2
    <3>2. t[b + 1] = t[b] + sz[b + 1] /\ sz[b + 1] \in Nat /\ sz[b + 1] > 2
      BY <1>1, <1>2, <3>1
    <3>3. b = a \/ t[a] + 2 < t[b]
      BY <2>2
    <3>4. t[a] \in Nat /\ t[b] \in Nat /\ t[b + 1] \in Nat
      BY <1>1, <3>1
    <3>5. t[a] + 2 < t[b + 1]
      BY <3>2, <3>3, <3>4
    <3> QED
      BY <3>1, <3>5
  <2>3. \A b \in a..n : b \in T
    <3>1. a \in Int /\ n \in Int
      BY <1>1
    <3> HIDE DEF T
    <3> QED
      BY <2>1, <2>2, <3>1, Upward
  <2> QED
    BY <2>3
<1>4. \A a, b \in 0..n : a < b => t[a] + 2 < t[b]
  BY <1>1, <1>3
<1>5. \A a, b \in 0..n : a <= b => t[a] <= t[b]
  <2> SUFFICES ASSUME NEW a \in 0..n, NEW b \in 0..n, a <= b PROVE t[a] <= t[b]
    OBVIOUS
  <2>1. t[a] \in Nat /\ t[b] \in Nat /\ (a < b \/ a = b)
    BY <1>1
  <2> QED
    BY <1>4, <2>1
<1> QED
  BY <1>1, <1>2, <1>4, <1>5 DEF t, n

\* A page that is filled from cell a on holds what fits and not one cell more.  It is
\* not empty, and holds two cells at least if its cells may go to the parent.
LEMMA FilledFacts ==
  ASSUME NEW sz, NEW keep, NEW room, Cells(sz, keep, room), NEW a \in 1..(Len(sz) + 1)
  PROVE  LET t == Before(sz)  n == Len(sz)  j == Filled(sz, room, a)
         IN  /\ j \in (a - 1)..n /\ j \in 0..n
             /\ t[j] - t[a - 1] <= room
             /\ j < n => t[j + 1] - t[a - 1] > room
             /\ a <= n => a <= j
             /\ keep = 0 /\ j < n => a + 1 <= j
<1> DEFINE t == Before(sz)
           n == Len(sz)
           Fits(j) == t[j] - t[a - 1] <= room /\ (j < n => t[j + 1] - t[a - 1] > room)
           j == CHOOSE x \in (a - 1)..n : Fits(x)
           T == {x \in (a - 1)..n : t[x] - t[a - 1] <= room}
<1>1. /\ n \in Nat /\ t \in [0..n -> Nat]
      /\ \A k \in 1..n : /\ t[k] = t[k - 1] + sz[k] /\ sz[k] \in Nat /\ sz[k] > 2
                         /\ sz[k] <= room /\ (keep = 0 => sz[k] + sz[k] <= room)
  BY SumsGrow
<1>2. room \in Nat /\ keep \in {0, 1} /\ a \in 1..(n + 1)
  BY DEF Cells
<1>3. Filled(sz, room, a) = j
  BY DEF Filled
<1> HIDE DEF t, n
<1>4. a - 1 \in (a - 1)..n /\ a - 1 \in 0..n /\ (a - 1)..n \subseteq 0..n
  BY <1>1, <1>2
<1>5. t[a - 1] - t[a - 1] <= room
  BY <1>1, <1>2, <1>4
<1>6. PICK m \in T : \A x \in T : x <= m
  <2>1. T \in SUBSET (0..n) /\ T # {}
    BY <1>4, <1>5
  <2> HIDE DEF T
  <2> QED
    BY <1>1, <2>1, Greatest
<1>7. m \in (a - 1)..n /\ Fits(m)
  <2>1. m \in (a - 1)..n /\ t[m] - t[a - 1] <= room
    BY <1>6
  <2>2. ASSUME m < n PROVE t[m + 1] - t[a - 1] > room
    <3>1. m + 1 \in (a - 1)..n /\ ~(m + 1 <= m) /\ m + 1 \in 0..n
      BY <1>1, <1>2, <2>1, <2>2
    <3>2. m + 1 \notin T
      <4> HIDE DEF T
      <4> QED
        BY <1>6, <3>1
    <3>3. ~(t[m + 1] - t[a - 1] <= room)
      BY <3>1, <3>2
    <3>4. t[m + 1] \in Nat /\ t[a - 1] \in Nat
      BY <1>1, <1>4, <3>1
    <3> QED
      BY <1>2, <3>3, <3>4
  <2> QED
    BY <2>1, <2>2
<1>8. j \in (a - 1)..n /\ Fits(j)
  <2> HIDE DEF Fits
  <2> QED
    BY <1>7
<1> HIDE DEF j
<1>9. j \in (a - 1)..n /\ j \in 0..n /\ t[j] - t[a - 1] <= room
      /\ (j < n => t[j + 1] - t[a - 1] > room)
  BY <1>4, <1>8
<1>10. ASSUME a <= n PROVE a <= j
  <2> SUFFICES ASSUME j = a - 1 PROVE FALSE
    BY <1>2, <1>9
  <2>1. a \in 1..n /\ j < n /\ j + 1 = a /\ t[a - 1] \in Nat
    BY <1>1, <1>2, <1>4, <1>10
  <2>2. t[a] = t[a - 1] + sz[a] /\ sz[a] \in Nat /\ sz[a] <= room
    BY <1>1, <2>1
  <2> QED
    BY <1>2, <1>9, <2>1, <2>2
<1>11. ASSUME keep = 0, j < n PROVE a + 1 <= j
  <2>1. a <= j
    <3>1. a <= n
      BY <1>1, <1>2, <1>9, <1>11
    <3> QED
      BY <1>10, <3>1
  <2> SUFFICES ASSUME j = a PROVE FALSE
    BY <1>2, <1>9, <2>1
  <2>2. a \in 1..n /\ a + 1 \in 1..n /\ (a + 1) - 1 = a /\ t[a - 1] \in Nat
    BY <1>1, <1>2, <1>4, <1>9, <1>11
  <2>3. t[a] = t[a - 1] + sz[a] /\ sz[a] \in Nat /\ sz[a] + sz[a] <= room
    BY <1>1, <1>11, <2>2
  <2>4. t[a + 1] = t[a] + sz[a + 1] /\ sz[a + 1] \in Nat /\ sz[a + 1] + sz[a + 1] <= room
    BY <1>1, <1>11, <2>2
  <2>5. t[a + 1] - t[a - 1] > room
    BY <1>9, <1>11
  <2>6. t[a + 1] - t[a - 1] = sz[a] + sz[a + 1]
    BY <2>2, <2>3, <2>4
  <2>7. sz[a] + sz[a + 1] > room
    BY <2>5, <2>6
  <2>8. \A u, v, w \in Nat : u + u <= w /\ v + v <= w => ~(u + v > w)
    OBVIOUS
  <2> QED
    BY <1>2, <2>3, <2>4, <2>7, <2>8
<1> QED
  BY <1>3, <1>9, <1>10, <1>11 DEF t, n

-------------------------------------------------------------------------------
(* Packing the cells.                                                        *)

\* The definition of Packed by recursion has a solution.
LEMMA EndsExist ==
  ASSUME NEW sz, NEW keep, NEW room, Cells(sz, keep, room)
  PROVE  LET n == Len(sz)
         IN  \E e \in [1..(n + 1) -> 0..n] :
               e = [i \in 1..(n + 1) |->
                     IF i = 1 THEN Filled(sz, room, 1)
                     ELSE IF e[i - 1] = n THEN n ELSE Filled(sz, room, e[i - 1] + 2 - keep)]
<1> DEFINE n == Len(sz)
           S == 0..n
           x == Filled(sz, room, 1)
           After(y) == IF y = n THEN n ELSE Filled(sz, room, y + 2 - keep)
           step == [p \in (1..n) \X S |-> After(p[2])]
<1>1. n \in Nat /\ keep \in {0, 1}
  BY SumsGrow DEF Cells
<1> HIDE DEF n
<1>2. ASSUME NEW a \in 1..(n + 1) PROVE Filled(sz, room, a) \in S
  BY FilledFacts DEF n
<1>3. x \in S
  <2>1. 1 \in 1..(n + 1)
    BY <1>1
  <2> QED
    BY <1>2, <2>1
<1>4. ASSUME NEW y \in S PROVE After(y) \in S
  <2>1. CASE y = n
    BY <1>1, <2>1
  <2>2. CASE y # n
    <3>1. y + 2 - keep \in 1..(n + 1)
      BY <1>1, <2>2
    <3> QED
      BY <1>2, <2>2, <3>1
  <2> QED
    BY <2>1, <2>2
<1>5. step \in [(1..n) \X S -> S]
  <2> HIDE DEF After, S
  <2> QED
    BY <1>4
<1>6. PICK f \in [0..n -> S] : Iterates(f, x, step, n)
  <2> HIDE DEF step, x, S
  <2> QED
    BY <1>1, <1>3, <1>5, Recursion
<1> DEFINE e == [i \in 1..(n + 1) |-> f[i - 1]]
<1>7. e \in [1..(n + 1) -> S]
  <2>1. \A i \in 1..(n + 1) : i - 1 \in 0..n
    BY <1>1
  <2> HIDE DEF S
  <2> QED
    BY <1>6, <2>1
<1>8. ASSUME NEW i \in 1..(n + 1) PROVE e[i] = IF i = 1 THEN x ELSE After(e[i - 1])
  <2>1. i - 1 \in 0..n /\ (i - 1 = 0 <=> i = 1) /\ e[i] = f[i - 1]
    BY <1>1
  <2>2. f[i - 1] = IF i - 1 = 0 THEN x ELSE step[<<i - 1, f[(i - 1) - 1]>>]
    <3> HIDE DEF step, x, S
    <3> QED
      BY <1>6, <2>1 DEF Iterates
  <2>3. CASE i = 1
    BY <2>1, <2>2, <2>3
  <2>4. CASE i # 1
    <3>1. i - 1 \in 1..n /\ i - 1 \in 1..(n + 1) /\ (i - 1) - 1 \in 0..n
      BY <1>1, <2>4
    <3>2. e[i - 1] = f[(i - 1) - 1] /\ f[(i - 1) - 1] \in S
      <4> HIDE DEF S
      <4> QED
        BY <1>6, <3>1
    <3>3. step[<<i - 1, f[(i - 1) - 1]>>] = After(f[(i - 1) - 1])
      <4> HIDE DEF After, S, e
      <4> QED
        BY <3>1, <3>2
    <3> HIDE DEF After, S, e, x, step
    <3> QED
      BY <2>1, <2>2, <2>4, <3>2, <3>3
  <2> QED
    BY <2>3, <2>4
<1>9. e = [i \in 1..(n + 1) |-> IF i = 1 THEN x ELSE After(e[i - 1])]
  <2>1. DOMAIN e = 1..(n + 1) /\ e = [i \in 1..(n + 1) |-> e[i]]
    OBVIOUS
  <2> HIDE DEF e, After, x
  <2> QED
    BY <1>8, <2>1
<1> HIDE DEF e
<1> QED
  BY <1>7, <1>9 DEF n

\* Each page of a packing but the last one is filled and leaves cells for the next one.
LEMMA PackedFacts ==
  ASSUME NEW sz, NEW keep, NEW room, Cells(sz, keep, room)
  PROVE  LET n == Len(sz)  cnt == Packed(sz, keep, room)  k == Len(cnt)
         IN  /\ k \in 1..(n + 1) /\ (n >= 1 => k <= n) /\ cnt \in [1..k -> 0..n]
             /\ cnt[k] = n
             /\ \A i \in 1..(k - 1) : cnt[i] < n
             /\ cnt[1] = Filled(sz, room, 1)
             /\ \A i \in 2..k : cnt[i] = Filled(sz, room, cnt[i - 1] + 2 - keep)
<1> DEFINE n == Len(sz)
           Rec(e) == e = [i \in 1..(n + 1) |->
                            IF i = 1 THEN Filled(sz, room, 1)
                            ELSE IF e[i - 1] = n THEN n ELSE Filled(sz, room, e[i - 1] + 2 - keep)]
           ends == CHOOSE e : Rec(e)
           IsLast(i) == ends[i] = n /\ \A j \in 1..(i - 1) : ends[j] < n
           last == CHOOSE i \in 1..(n + 1) : IsLast(i)
           cnt == [i \in 1..last |-> ends[i]]
<1>1. n \in Nat /\ keep \in {0, 1}
  BY SumsGrow DEF Cells
<1>2. Packed(sz, keep, room) = cnt
  BY DEF Packed
<1>3. \E e \in [1..(n + 1) -> 0..n] : Rec(e)
  BY EndsExist
<1>4. Rec(ends)
  BY <1>3
<1> HIDE DEF n, ends
<1>5. /\ ends[1] = Filled(sz, room, 1)
      /\ \A i \in 2..(n + 1) : ends[i] = IF ends[i - 1] = n THEN n
                                         ELSE Filled(sz, room, ends[i - 1] + 2 - keep)
  <2>1. 1 \in 1..(n + 1) /\ \A i \in 2..(n + 1) : i \in 1..(n + 1) /\ i # 1
    BY <1>1
  <2> QED
    BY <1>4, <2>1
<1> DEFINE T == {i \in 1..(n + 1) : ends[i] \in 0..n /\ (ends[i] = n \/ ends[i] >= i)}
<1>6. 1 \in T
  <2>1. 1 \in 1..(n + 1) /\ 1 \in 1..(Len(sz) + 1)
    BY <1>1 DEF n
  <2>2. ends[1] \in 0..n /\ (1 <= n => 1 <= ends[1])
    BY <1>5, <2>1, FilledFacts DEF n
  <2> QED
    BY <1>1, <2>1, <2>2
<1>7. ASSUME NEW i \in 1..(n + 1), i \in T, i < n + 1 PROVE i + 1 \in T
  <2>1. i + 1 \in 1..(n + 1) /\ i + 1 \in 2..(n + 1) /\ (i + 1) - 1 = i
    BY <1>1, <1>7
  <2>2. ends[i] \in 0..n /\ (ends[i] = n \/ ends[i] >= i)
    BY <1>7
  <2>3. ends[i + 1] = IF ends[i] = n THEN n ELSE Filled(sz, room, ends[i] + 2 - keep)
    BY <1>5, <2>1
  <2>4. CASE ends[i] = n
    BY <1>1, <2>1, <2>3, <2>4
  <2>5. CASE ends[i] # n
    <3> DEFINE a == ends[i] + 2 - keep
    <3>1. a \in 1..(n + 1) /\ a >= i + 1
      BY <1>1, <2>2, <2>5
    <3> HIDE DEF a
    <3>2. Filled(sz, room, a) \in 0..n /\ (a <= n => a <= Filled(sz, room, a))
          /\ Filled(sz, room, a) >= a - 1
      <4>1. a \in 1..(Len(sz) + 1)
        BY <3>1 DEF n
      <4>2. Filled(sz, room, a) \in (a - 1)..n /\ (a <= n => a <= Filled(sz, room, a))
            /\ Filled(sz, room, a) \in 0..n
        BY <4>1, FilledFacts DEF n
      <4> QED
        BY <1>1, <3>1, <4>2
    <3>3. ends[i + 1] = Filled(sz, room, a)
      BY <2>3, <2>5 DEF a
    <3>4. Filled(sz, room, a) = n \/ Filled(sz, room, a) >= i + 1
      BY <1>1, <3>1, <3>2
    <3> QED
      BY <2>1, <3>2, <3>3, <3>4
  <2> QED
    BY <2>4, <2>5
<1>8. ASSUME NEW i \in 1..(n + 1) PROVE ends[i] \in 0..n /\ (ends[i] = n \/ ends[i] >= i)
  <2>1. \A k \in 1..(n + 1) : k \in T
    <3>1. n + 1 \in Int /\ 1 \in Int
      BY <1>1
    <3> HIDE DEF T
    <3> QED
      BY <1>6, <1>7, <3>1, Upward
  <2> QED
    BY <2>1
<1>9. \E m \in 1..(n + 1) : IsLast(m) /\ (n >= 1 => m <= n)
  <2> DEFINE E == {i \in 1..(n + 1) : ends[i] = n}
  <2>1. E \in SUBSET Nat
    BY <1>1
  <2>2. n + 1 \in E
    <3>1. n + 1 \in 1..(n + 1)
      BY <1>1
    <3>2. ends[n + 1] \in 0..n /\ (ends[n + 1] = n \/ ends[n + 1] >= n + 1)
      BY <1>8, <3>1
    <3> QED
      BY <1>1, <3>1, <3>2
  <2>3. n >= 1 => n \in E
    <3>1. n >= 1 => n \in 1..(n + 1)
      BY <1>1
    <3>2. n >= 1 => ends[n] \in 0..n /\ (ends[n] = n \/ ends[n] >= n)
      BY <1>8, <3>1
    <3> QED
      BY <1>1, <3>1, <3>2
  <2>4. PICK m \in E : \A i \in E : m <= i
    <3> HIDE DEF E
    <3> QED
      BY <2>1, <2>2, Least
  <2>5. m \in 1..(n + 1) /\ ends[m] = n
    BY <2>4
  <2>6. ASSUME NEW j \in 1..(m - 1) PROVE ends[j] < n
    <3>1. j \in 1..(n + 1) /\ ~(m <= j)
      BY <1>1, <2>5
    <3>2. j \notin E
      <4> HIDE DEF E
      <4> QED
        BY <2>4, <3>1
    <3>3. ends[j] # n /\ ends[j] \in 0..n
      BY <1>8, <3>1, <3>2
    <3> QED
      BY <1>1, <3>3
  <2>7. n >= 1 => m <= n
    BY <2>3, <2>4
  <2> QED
    BY <2>5, <2>6, <2>7
<1>10. last \in 1..(n + 1) /\ IsLast(last)
  <2> HIDE DEF IsLast
  <2> QED
    BY <1>9
<1>11. n >= 1 => last <= n
  <2>1. PICK m \in 1..(n + 1) : IsLast(m) /\ (n >= 1 => m <= n)
    BY <1>9
  <2> HIDE DEF last
  <2>2. last <= m
    <3> SUFFICES ASSUME m < last PROVE FALSE
      BY <1>1, <1>10, <2>1
    <3>1. m \in 1..(last - 1)
      BY <1>1, <1>10, <2>1
    <3>2. ends[m] < n /\ ends[m] = n
      BY <1>10, <2>1, <3>1
    <3> QED
      BY <1>1, <3>2
  <2> QED
    BY <1>1, <1>10, <2>1, <2>2
<1> HIDE DEF last
<1>12. DOMAIN cnt = 1..last /\ Len(cnt) = last /\ cnt \in [1..last -> 0..n]
  <2>1. last \in Nat /\ 1..last \subseteq 1..(n + 1)
    BY <1>1, <1>10
  <2>2. \A i \in 1..last : ends[i] \in 0..n
    BY <1>8, <2>1
  <2>3. cnt \in Seq(0..n)
    BY <2>1, <2>2
  <2> QED
    BY <2>1, <2>2, <2>3
<1>13. \A i \in 1..last : cnt[i] = ends[i]
  OBVIOUS
<1> HIDE DEF cnt
<1>14. last \in 1..last /\ 1 \in 1..last
  BY <1>1, <1>10
<1>15. cnt[last] = n /\ \A i \in 1..(last - 1) : cnt[i] < n
  <2>1. \A i \in 1..(last - 1) : i \in 1..last
    BY <1>1, <1>10
  <2> QED
    BY <1>10, <1>13, <1>14, <2>1
<1>16. cnt[1] = Filled(sz, room, 1)
  BY <1>5, <1>13, <1>14
<1>17. ASSUME NEW i \in 2..last PROVE cnt[i] = Filled(sz, room, cnt[i - 1] + 2 - keep)
  <2>1. i \in 2..(n + 1) /\ i \in 1..last /\ i - 1 \in 1..last /\ i - 1 \in 1..(last - 1)
    BY <1>1, <1>10
  <2>2. ends[i - 1] < n /\ ends[i - 1] \in 0..n
    BY <1>12, <1>13, <1>15, <2>1
  <2>3. ends[i - 1] # n
    BY <1>1, <2>2
  <2> QED
    BY <1>5, <1>13, <2>1, <2>3
<1> QED
  BY <1>2, <1>10, <1>11, <1>12, <1>15, <1>16, <1>17 DEF n

\* The bytes of the cells from a to e.
Bytes(sz, a, e) == Before(sz)[e] - Before(sz)[a - 1]

\* The pages of a packing fit.  The last one may be empty, but not in a table.
LEMMA PackedPages ==
  ASSUME NEW sz, NEW keep, NEW room, Cells(sz, keep, room)
  PROVE  LET n == Len(sz)  cnt == Packed(sz, keep, room)  k == Len(cnt)
         IN  \A i \in 1..k :
               LET a == Start(cnt, i, keep)
               IN  /\ a \in 1..(n + 1) /\ cnt[i] \in (a - 1)..n
                   /\ Bytes(sz, a, cnt[i]) <= room
                   /\ cnt[i] < n => Bytes(sz, a, cnt[i] + 1) > room
                   /\ i < k => a <= cnt[i] /\ (keep = 0 => a + 1 <= cnt[i])
                   /\ i = k /\ keep = 1 /\ n >= 1 => a <= cnt[i]
<1> DEFINE n == Len(sz)
           cnt == Packed(sz, keep, room)
           k == Len(cnt)
<1>1. n \in Nat /\ keep \in {0, 1}
  BY SumsGrow DEF Cells
<1>2. /\ k \in 1..(n + 1) /\ cnt \in [1..k -> 0..n] /\ cnt[k] = n
      /\ \A i \in 1..(k - 1) : cnt[i] < n
      /\ cnt[1] = Filled(sz, room, 1)
      /\ \A i \in 2..k : cnt[i] = Filled(sz, room, cnt[i - 1] + 2 - keep)
  BY PackedFacts
<1> SUFFICES ASSUME NEW i \in 1..k
             PROVE  LET a == Start(cnt, i, keep)
                    IN  /\ a \in 1..(n + 1) /\ cnt[i] \in (a - 1)..n
                        /\ Bytes(sz, a, cnt[i]) <= room
                        /\ cnt[i] < n => Bytes(sz, a, cnt[i] + 1) > room
                        /\ i < k => a <= cnt[i] /\ (keep = 0 => a + 1 <= cnt[i])
                        /\ i = k /\ keep = 1 /\ n >= 1 => a <= cnt[i]
  OBVIOUS
<1> DEFINE a == Start(cnt, i, keep)
<1> HIDE DEF n, cnt, k
<1>3. a \in 1..(n + 1) /\ cnt[i] = Filled(sz, room, a) /\ (keep = 1 /\ n >= 1 => a <= n)
  <2>1. CASE i = 1
    <3>1. a = 1
      BY <2>1 DEF Start
    <3> QED
      BY <1>1, <1>2, <2>1, <3>1
  <2>2. CASE i # 1
    <3>1. i - 1 \in 1..k /\ i - 1 \in 1..(k - 1) /\ i \in 2..k
      BY <1>1, <1>2, <2>2
    <3>2. cnt[i - 1] \in 0..n /\ cnt[i - 1] < n
      BY <1>2, <3>1
    <3>3. a = cnt[i - 1] + 2 - keep
      BY <2>2 DEF Start
    <3>4. a \in 1..(n + 1) /\ (keep = 1 => a <= n)
      BY <1>1, <3>2, <3>3
    <3> QED
      BY <1>2, <3>1, <3>3, <3>4
  <2> QED
    BY <2>1, <2>2
<1> HIDE DEF a
<1>4. /\ cnt[i] \in (a - 1)..n
      /\ Before(sz)[cnt[i]] - Before(sz)[a - 1] <= room
      /\ cnt[i] < n => Before(sz)[cnt[i] + 1] - Before(sz)[a - 1] > room
      /\ a <= n => a <= cnt[i]
      /\ keep = 0 /\ cnt[i] < n => a + 1 <= cnt[i]
  <2>1. a \in 1..(Len(sz) + 1)
    BY <1>3 DEF n
  <2> QED
    BY <1>3, <2>1, FilledFacts DEF n
<1>5. ASSUME i < k PROVE a <= cnt[i] /\ (keep = 0 => a + 1 <= cnt[i])
  <2>1. cnt[i] < n
    BY <1>1, <1>2, <1>5
  <2>2. a <= n
    BY <1>1, <1>3, <1>4, <2>1
  <2> QED
    BY <1>4, <2>1, <2>2
<1>6. /\ a \in 1..(n + 1) /\ cnt[i] \in (a - 1)..n
      /\ Bytes(sz, a, cnt[i]) <= room
      /\ cnt[i] < n => Bytes(sz, a, cnt[i] + 1) > room
      /\ i < k => a <= cnt[i] /\ (keep = 0 => a + 1 <= cnt[i])
      /\ i = k /\ keep = 1 /\ n >= 1 => a <= cnt[i]
  BY <1>3, <1>4, <1>5 DEF Bytes
<1> QED
  BY <1>6 DEF a

\* What the evening of two pages finds: the cells from a to `from` fit, and those after them up
\* to e fit on the next page, or that page is empty and this one has more than a cell.
Movable(sz, keep, room, a, from, e, extra) ==
  /\ Cells(sz, keep, room) /\ extra \in {0, 2}
  /\ a \in 1..Len(sz) /\ from \in a..Len(sz) /\ e \in 1..Len(sz)
  /\ Bytes(sz, a, from) <= room
  /\ \/ from + 2 - keep <= e /\ Bytes(sz, from + 2 - keep, e) <= room
     \/ extra = 0 /\ e = from + 1 - keep /\ a + 1 <= from

\* Cells move to the next page until it has some, and then while the two become more
\* alike: they never leave the page empty, and fit on the next one.
LEMMA SettledFacts ==
  ASSUME NEW sz, NEW keep, NEW room, NEW a, NEW from, NEW e, NEW extra,
         Movable(sz, keep, room, a, from, e, extra)
  PROVE  LET r == Settled(sz, keep, a, from, e, extra)
         IN  r \in a..from /\ r + 2 - keep <= e /\ Bytes(sz, r + 2 - keep, e) <= room
<1> DEFINE t == Before(sz)
           n == Len(sz)
           M(x) == MovesOn(sz, keep, a, x, e, extra)
           Rest(x) == /\ \A y \in (x + 1)..from : M(y)
                      /\ ~M(x)
           r == CHOOSE x \in (a - 1)..from : Rest(x)
           T == {x \in a..from : ~M(x)}
<1>0. Cells(sz, keep, room)
  BY DEF Movable
<1>1. n \in Nat /\ \A k \in 0..n : t[k] \in Nat
  <2>1. n \in Nat /\ t \in [0..n -> Nat]
    BY <1>0, SumsGrow
  <2> HIDE DEF t, n
  <2> QED
    BY <2>1
<1>s. \A k \in 1..n : t[k] = t[k - 1] + sz[k] /\ sz[k] \in Nat /\ sz[k] > 2 /\ sz[k] <= room
  BY <1>0, SumsGrow
<1>m. /\ \A b, c \in 0..n : b <= c => t[b] <= t[c]
      /\ \A b, c \in 0..n : b < c => t[b] + 2 < t[c]
  BY <1>0, SumsGrow
<1>2. room \in Nat /\ keep \in {0, 1} /\ a \in 1..n /\ from \in a..n /\ e \in 1..n
      /\ extra \in {0, 2}
  BY <1>0 DEF Cells, Movable
<1>d. /\ n \in Nat /\ a \in Nat /\ from \in Nat /\ e \in Nat /\ 1 <= a /\ a <= from /\ from <= n
      /\ 1 <= e /\ e <= n /\ keep \in Nat /\ extra \in Nat
      /\ a \in 1..n /\ a \in a..from /\ from \in a..from /\ from \in 0..n
      /\ e \in 0..n /\ a - 1 \in 0..n
  BY <1>1, <1>2
<1>3. Settled(sz, keep, a, from, e, extra) = r
  BY DEF Settled
<1>4. t[from] - t[a - 1] <= room
  BY DEF Bytes, Movable
<1>5. \/ from + 2 - keep <= e /\ t[e] - t[from + 1 - keep] <= room
      \/ extra = 0 /\ e = from + 1 - keep /\ a + 1 <= from
  <2>1. (from + 2 - keep) - 1 = from + 1 - keep
    BY <1>2
  <2> QED
    BY <2>1 DEF Bytes, Movable
<1> HIDE DEF t, n
<1>6. ASSUME NEW x \in a..from
      PROVE  /\ x + 1 - keep \in 1..n /\ x + 1 - keep <= e /\ x \in 1..n /\ x - 1 \in 0..n
             /\ M(x) <=> \/ t[e] - t[x + 1 - keep] + extra = 0
                         \/ t[e] - t[x + 1 - keep] + extra + sz[x + 1 - keep]
                              <= (t[x] - t[a - 1] + 2) - sz[x]
  <2>1. x + 1 - keep \in 1..n /\ x + 1 - keep <= e /\ x \in 1..n /\ x - 1 \in 0..n
    BY <1>2, <1>5, <1>d
  <2>2. M(x) <=> \/ t[e] - t[x + 1 - keep] + extra = 0
                 \/ t[e] - t[x + 1 - keep] + extra + sz[x + 1 - keep]
                      <= (t[x] - t[a - 1] + 2) - sz[x]
    BY DEF MovesOn, t
  <2> QED
    BY <2>1, <2>2
<1> HIDE DEF M
<1>7. ~M(a)
  <2> DEFINE d == a + 1 - keep
  <2>2. d \in 1..n /\ d <= e /\ d \in 0..n /\ e \in 0..n
    BY <1>6, <1>d
  <2>3. t[d] \in Nat /\ t[e] \in Nat /\ t[a] \in Nat /\ t[a - 1] \in Nat
    <3>1. a \in 0..n
      BY <1>d
    <3> QED
      BY <1>1, <1>d, <2>2, <3>1
  <2>4. t[d] <= t[e] /\ (d < e => t[d] + 2 < t[e])
    BY <1>m, <2>2
  <2>5. d < e
    BY <1>2, <1>5, <1>d
  <2>6. sz[d] \in Nat /\ sz[d] > 2 /\ sz[a] \in Nat /\ t[a] = t[a - 1] + sz[a]
    BY <1>s, <1>d, <2>2
  <2>7. M(a) <=> \/ t[e] - t[d] + extra = 0
                 \/ t[e] - t[d] + extra + sz[d] <= (t[a] - t[a - 1] + 2) - sz[a]
    BY <1>6, <1>d
  <2> HIDE DEF d
  <2>8. t[e] - t[d] + extra # 0 /\ t[e] - t[d] + extra + sz[d] > (t[a] - t[a - 1] + 2) - sz[a]
    <3>1. extra \in Nat
      BY <1>d
    <3> QED
      BY <2>3, <2>4, <2>5, <2>6, <3>1
  <2> QED
    <3>1. /\ t[e] - t[d] + extra + sz[d] \in Int /\ (t[a] - t[a - 1] + 2) - sz[a] \in Int
      BY <1>d, <2>3, <2>6
    <3> QED
      BY <2>7, <2>8, <3>1
<1>8. \E x \in (a - 1)..from : Rest(x)
  <2>1. T \in SUBSET (0..n) /\ T # {}
    <3>1. a..from \subseteq 0..n
      BY <1>d
    <3> QED
      BY <1>7, <1>d, <3>1
  <2>2. PICK m \in T : \A x \in T : x <= m
    <3> HIDE DEF T
    <3> QED
      BY <1>1, <2>1, Greatest
  <2>3. m \in a..from /\ ~M(m)
    BY <2>2
  <2>4. ASSUME NEW y \in (m + 1)..from PROVE M(y)
    <3>1. y \in a..from /\ ~(y <= m)
      BY <1>2, <2>3
    <3>2. y \notin T
      <4> HIDE DEF T
      <4> QED
        BY <2>2, <3>1
    <3> QED
      BY <3>1, <3>2
  <2>5. m \in (a - 1)..from
    BY <1>2, <2>3
  <2> QED
    BY <2>3, <2>4, <2>5
<1>9. r \in (a - 1)..from /\ Rest(r)
  <2> HIDE DEF Rest
  <2> QED
    BY <1>8
<1> HIDE DEF r
<1>10. r \in a..from
  <2> SUFFICES ASSUME r = a - 1 PROVE FALSE
    BY <1>2, <1>9
  <2>1. a \in (r + 1)..from
    BY <1>2
  <2> QED
    BY <1>7, <1>9, <2>1
<1>11. CASE r = from
  <2>1. from \in a..from /\ ~M(from)
    BY <1>9, <1>10, <1>11
  <2>2. ~(t[e] - t[from + 1 - keep] + extra = 0)
    BY <1>6, <2>1
  <2>3. from + 2 - keep <= e /\ t[e] - t[from + 1 - keep] <= room
    <3> SUFFICES ASSUME extra = 0 /\ e = from + 1 - keep PROVE FALSE
      BY <1>5
    <3>1. t[e] \in Nat
      BY <1>1, <1>d
    <3> QED
      BY <2>2, <3>1
  <2>4. (r + 2 - keep) - 1 = from + 1 - keep
    BY <1>2, <1>11
  <2> QED
    BY <1>3, <1>10, <1>11, <2>3, <2>4 DEF Bytes, t
<1>12. CASE r # from
  <2> DEFINE x == r + 1
             d == r + 2 - keep
  <2>1. x \in (r + 1)..from /\ x \in a..from /\ d = x + 1 - keep /\ x - 1 = r /\ x <= from
    BY <1>2, <1>10, <1>12
  <2>2. d \in 1..n /\ d <= e /\ x \in 1..n /\ x <= from
    BY <1>6, <2>1
  <2>3. /\ d - 1 \in 0..n /\ d \in 0..n /\ x \in 0..n
    BY <1>1, <2>2
  <2>4. \/ t[e] - t[d] + extra = 0
        \/ t[e] - t[d] + extra + sz[d] <= (t[x] - t[a - 1] + 2) - sz[x]
    <3>1. M(x)
      BY <1>9, <2>1
    <3> QED
      BY <1>6, <2>1, <3>1
  <2>5. sz[d] \in Nat /\ sz[d] <= room /\ t[d] = t[d - 1] + sz[d]
    BY <1>s, <2>2
  <2>6. sz[x] \in Nat /\ sz[x] > 2
    BY <1>s, <2>2
  <2> HIDE DEF x, d
  <2>7. t[e] \in Nat /\ t[d] \in Nat /\ t[d - 1] \in Nat /\ t[x] \in Nat /\ t[a - 1] \in Nat
        /\ t[from] \in Nat
    BY <1>1, <1>d, <2>3
  <2>8. t[x] <= t[from]
    BY <1>m, <1>d, <2>2, <2>3
  <2>9. t[e] - t[d - 1] <= room
    <3>1. room \in Nat /\ extra \in Nat
      BY <1>2, <1>d
    <3> QED
      BY <1>4, <2>4, <2>5, <2>6, <2>7, <2>8, <3>1
  <2> QED
    BY <1>3, <1>10, <2>2, <2>9 DEF Bytes, t, d
<1> QED
  BY <1>11, <1>12

-------------------------------------------------------------------------------
(* Evening the pages out.                                                    *)

\* Where page i of a packing ends when the next one ends at y.
EvenedEnd(sz, keep, cnt, i, y) ==
  Settled(sz, keep, Start(cnt, i, keep), cnt[i], y, IF i + 1 = Len(cnt) THEN 0 ELSE 2)

\* A page may give cells away, but never all of them; the last one has no page to give to.
EndOK(keep, cnt, i, y) ==
  /\ y \in Nat /\ y <= cnt[i]
  /\ IF i = Len(cnt) THEN y = cnt[i] ELSE Start(cnt, i, keep) <= y

\* From the end of the next page to the one of this page.
LEMMA EvenedStep ==
  ASSUME NEW sz, NEW keep, NEW room, Cells(sz, keep, room), Len(sz) >= 1,
         NEW cnt, cnt = Packed(sz, keep, room), NEW i \in 1..(Len(cnt) - 1),
         NEW y, EndOK(keep, cnt, i + 1, y)
  PROVE  LET x == EvenedEnd(sz, keep, cnt, i, y)
         IN  EndOK(keep, cnt, i, x) /\ x + 2 - keep <= y /\ Bytes(sz, x + 2 - keep, y) <= room
<1> DEFINE n == Len(sz)
           k == Len(cnt)
           a == Start(cnt, i, keep)
           b == Start(cnt, i + 1, keep)
           extra == IF i + 1 = k THEN 0 ELSE 2
           x == Settled(sz, keep, a, cnt[i], y, extra)
           t == Before(sz)
<1>1. n \in Nat /\ n >= 1 /\ keep \in {0, 1} /\ room \in Nat
  BY SumsGrow DEF Cells
<1>2. k \in 1..(n + 1) /\ cnt \in [1..k -> 0..n] /\ cnt[k] = n /\ \A j \in 1..(k - 1) : cnt[j] < n
  BY PackedFacts
<1>3. /\ a \in 1..(n + 1) /\ cnt[i] \in (a - 1)..n /\ Bytes(sz, a, cnt[i]) <= room
      /\ i < k => a <= cnt[i] /\ (keep = 0 => a + 1 <= cnt[i])
  <2>1. i \in 1..k
    BY <1>1, <1>2
  <2> QED
    BY <2>1, PackedPages
<1>4. /\ b \in 1..(n + 1) /\ cnt[i + 1] \in (b - 1)..n /\ Bytes(sz, b, cnt[i + 1]) <= room
      /\ i + 1 < k => b <= cnt[i + 1]
      /\ i + 1 = k /\ keep = 1 => b <= cnt[i + 1]
  <2>1. i + 1 \in 1..k
    BY <1>1, <1>2
  <2> QED
    BY <1>1, <2>1, PackedPages
<1>5. EvenedEnd(sz, keep, cnt, i, y) = x
  BY DEF EvenedEnd
<1>6. b = cnt[i] + 2 - keep
  <2>1. i + 1 # 1 /\ (i + 1) - 1 = i
    BY <1>1, <1>2
  <2> QED
    BY <2>1 DEF Start
<1> HIDE DEF n, k, a, b
<1>7. i \in 1..(k - 1) /\ i \in 1..k /\ i + 1 \in 1..k /\ i # k
  <2>1. i \in 1..(k - 1)
    BY DEF k
  <2> QED
    BY <1>1, <1>2, <2>1
<1>8. y \in Nat /\ y <= cnt[i + 1] /\ (i + 1 = k => y = cnt[i + 1]) /\ (i + 1 # k => b <= y)
  BY DEF EndOK, k, b
<1>9. a \in 1..n /\ cnt[i] \in a..n /\ cnt[i] \in Nat /\ (keep = 0 => a + 1 <= cnt[i])
  BY <1>1, <1>2, <1>3, <1>7
<1>10. /\ y \in 1..n /\ b - 1 <= y
       /\ ~(b <= y) => keep = 0 /\ y = b - 1 /\ i + 1 = k
  <2>1. cnt[i + 1] \in Nat /\ cnt[i + 1] <= n /\ b - 1 <= cnt[i + 1] /\ b \in Nat
    BY <1>1, <1>4
  <2>2. b >= 2
    <3>1. cnt[i] \in Nat /\ cnt[i] >= 1 /\ (keep = 0 \/ keep = 1)
      BY <1>1, <1>9
    <3>2. CASE keep = 0
      BY <1>6, <3>1, <3>2
    <3>3. CASE keep = 1
      BY <1>6, <3>1, <3>3
    <3> QED
      BY <3>1, <3>2, <3>3
  <2>3. CASE i + 1 = k
    BY <1>1, <1>4, <1>8, <2>1, <2>2, <2>3
  <2>4. CASE i + 1 # k
    BY <1>1, <1>8, <2>1, <2>2, <2>4
  <2> QED
    BY <2>3, <2>4
<1>11. ASSUME b <= y PROVE Bytes(sz, b, y) <= room
  <2>1. n \in Nat /\ t \in [0..n -> Nat] /\ \A c, d \in 0..n : c <= d => t[c] <= t[d]
    BY SumsGrow DEF n
  <2> HIDE DEF t
  <2>2. y \in 0..n /\ cnt[i + 1] \in 0..n /\ b - 1 \in 0..n /\ y <= cnt[i + 1]
    BY <1>1, <1>2, <1>4, <1>7, <1>8, <1>10
  <2>3. t[y] <= t[cnt[i + 1]] /\ t[y] \in Nat /\ t[cnt[i + 1]] \in Nat /\ t[b - 1] \in Nat
    BY <2>1, <2>2
  <2>4. t[cnt[i + 1]] - t[b - 1] <= room
    BY <1>4 DEF Bytes, t
  <2>5. t[y] - t[b - 1] <= room
    BY <1>1, <2>3, <2>4
  <2> QED
    BY <2>5 DEF Bytes, t
<1>12. Movable(sz, keep, room, a, cnt[i], y, extra)
  <2>1. /\ extra \in {0, 2} /\ a \in 1..Len(sz) /\ cnt[i] \in a..Len(sz) /\ y \in 1..Len(sz)
        /\ Bytes(sz, a, cnt[i]) <= room
    BY <1>3, <1>9, <1>10 DEF n
  <2>2. CASE b <= y
    BY <1>6, <1>11, <2>1, <2>2 DEF Movable
  <2>3. CASE ~(b <= y)
    <3>1. extra = 0 /\ keep = 0 /\ a + 1 <= cnt[i]
      BY <1>9, <1>10, <2>3
    <3>2. y = cnt[i] + 1 - keep
      <4>1. y = b - 1 /\ keep = 0 /\ cnt[i] \in Nat
        BY <1>9, <1>10, <2>3
      <4> QED
        BY <1>6, <4>1
    <3> QED
      BY <2>1, <3>1, <3>2 DEF Movable
  <2> QED
    BY <2>2, <2>3
<1>13. x \in a..cnt[i] /\ x + 2 - keep <= y /\ Bytes(sz, x + 2 - keep, y) <= room
  <2> HIDE DEF extra
  <2> QED
    BY <1>12, SettledFacts
<1> HIDE DEF x
<1>14. x \in Nat /\ x <= cnt[i] /\ a <= x
  BY <1>9, <1>13
<1>15. EndOK(keep, cnt, i, x)
  BY <1>7, <1>14 DEF EndOK, a, k
<1> QED
  BY <1>5, <1>13, <1>15

\* The evened pages: what is known of their ends.
LEMMA EvenedFacts ==
  ASSUME NEW sz, NEW keep, NEW room, Cells(sz, keep, room),
         NEW cnt, cnt = Packed(sz, keep, room)
  PROVE  LET k == Len(cnt)  e == Evened(sz, keep, cnt)
         IN  /\ e \in [1..k -> Nat]
             /\ \A i \in 1..k : EndOK(keep, cnt, i, e[i])
             /\ \A i \in 1..(k - 1) : e[i] = EvenedEnd(sz, keep, cnt, i, e[i + 1])
<1> DEFINE k == Len(cnt)
           n == Len(sz)
           End(i, y) == EvenedEnd(sz, keep, cnt, i, y)
           Rec(e) == e = [i \in 1..k |-> IF i = k THEN cnt[k] ELSE End(i, e[i + 1])]
           ends == CHOOSE e : Rec(e)
           S == Nat
           x == cnt[k]
           Kept(y) == IF y \in S THEN y ELSE 0
           step == [p \in (1..(k - 1)) \X S |-> Kept(End(k - p[1], p[2]))]
           OK(i, y) == EndOK(keep, cnt, i, y)
<1>1. n \in Nat
  BY SumsGrow
<1>2. k <= n + 1 /\ k \in Nat /\ k >= 1 /\ cnt[k] \in Nat
  <2>1. Len(cnt) \in 1..(Len(sz) + 1) /\ cnt[Len(cnt)] = Len(sz)
    BY PackedFacts
  <2> QED
    BY <1>1, <2>1
<1>3. ASSUME NEW i \in 1..(k - 1), NEW y, OK(i + 1, y) PROVE OK(i, End(i, y))
  <2>1. Len(sz) >= 1
    BY <1>1, <1>2
  <2> QED
    BY <1>3, <2>1, EvenedStep
<1>4. OK(k, cnt[k])
  BY <1>2 DEF EndOK
<1>5. \A i, y : OK(i, y) => y \in Nat
  BY DEF EndOK
<1>6. Evened(sz, keep, cnt) = ends
  BY DEF Evened, EvenedEnd
<1> HIDE DEF OK, End, k, n
<1>7. x \in S /\ step \in [(1..(k - 1)) \X S -> S]
  <2>1. \A y : Kept(y) \in S
    OBVIOUS
  <2> HIDE DEF Kept, S
  <2> QED
    BY <1>2, <2>1 DEF S
<1>8. PICK f \in [0..(k - 1) -> S] : Iterates(f, x, step, k - 1)
  <2>1. k - 1 \in Nat
    BY <1>2
  <2> HIDE DEF step, x, S
  <2> QED
    BY <1>7, <2>1, Recursion
<1>9. ASSUME NEW j \in 1..(k - 1) PROVE f[j] = Kept(End(k - j, f[j - 1]))
  <2>1. j \in 0..(k - 1) /\ j - 1 \in 0..(k - 1) /\ j # 0
    BY <1>2
  <2>2. f[j] = step[<<j, f[j - 1]>>] /\ f[j - 1] \in S
    <3> HIDE DEF step, S
    <3> QED
      BY <1>8, <2>1 DEF Iterates
  <2> HIDE DEF Kept, S
  <2> QED
    BY <2>2
<1>10. f[0] = x
  <2>1. 0 \in 0..(k - 1)
    BY <1>2
  <2> HIDE DEF step, x
  <2> QED
    BY <1>8, <2>1 DEF Iterates
<1> DEFINE T == {j \in 0..(k - 1) : OK(k - j, f[j])}
<1>11. ASSUME NEW j \in 0..(k - 1) PROVE OK(k - j, f[j])
  <2>1. 0 \in T
    <3>1. 0 \in 0..(k - 1) /\ k - 0 = k
      BY <1>2
    <3> QED
      BY <1>4, <1>10, <3>1
  <2>2. ASSUME NEW m \in 0..(k - 1), m \in T, m < k - 1 PROVE m + 1 \in T
    <3>1. /\ m + 1 \in 1..(k - 1) /\ m + 1 \in 0..(k - 1) /\ k - (m + 1) \in 1..(k - 1)
          /\ (k - (m + 1)) + 1 = k - m /\ (m + 1) - 1 = m
      BY <1>2, <2>2
    <3>2. OK(k - m, f[m])
      BY <2>2
    <3>3. OK(k - (m + 1), End(k - (m + 1), f[m]))
      BY <1>3, <3>1, <3>2
    <3>4. End(k - (m + 1), f[m]) \in S
      BY <1>5, <3>3
    <3>5. f[m + 1] = End(k - (m + 1), f[m])
      BY <1>9, <3>1, <3>4
    <3> QED
      BY <3>1, <3>3, <3>5
  <2>3. \A m \in 0..(k - 1) : m \in T
    <3>1. 0 \in Int /\ k - 1 \in Int
      BY <1>2
    <3> HIDE DEF T
    <3> QED
      BY <2>1, <2>2, <3>1, Upward
  <2> QED
    BY <2>3
<1> DEFINE g == [i \in 1..k |-> f[k - i]]
<1>12. ASSUME NEW i \in 1..k PROVE g[i] = IF i = k THEN cnt[k] ELSE End(i, g[i + 1])
  <2>1. CASE i = k
    <3>1. k - i = 0
      BY <1>2, <2>1
    <3> QED
      BY <1>10, <2>1, <3>1
  <2>2. CASE i # k
    <3> DEFINE j == k - i
    <3>1. /\ j \in 1..(k - 1) /\ j \in 0..(k - 1) /\ k - j = i /\ i + 1 \in 1..k
          /\ k - (i + 1) = j - 1 /\ j - 1 \in 0..(k - 1) /\ i \in 1..(k - 1) /\ k - (j - 1) = i + 1
      BY <1>2, <2>2
    <3>2. g[i] = f[j] /\ g[i + 1] = f[j - 1]
      BY <3>1
    <3> HIDE DEF j, g
    <3>3. f[j] = Kept(End(i, f[j - 1]))
      BY <1>9, <3>1
    <3>4. OK(i + 1, f[j - 1])
      BY <1>11, <3>1
    <3>5. End(i, f[j - 1]) \in S
      BY <1>3, <1>5, <3>1, <3>4
    <3> QED
      BY <2>2, <3>2, <3>3, <3>5
  <2> QED
    BY <2>1, <2>2
<1>13. Rec(g)
  <2>1. DOMAIN g = 1..k /\ g = [i \in 1..k |-> g[i]]
    OBVIOUS
  <2> HIDE DEF g
  <2> QED
    BY <1>12, <2>1
<1>14. Rec(ends)
  <2> HIDE DEF Rec
  <2> QED
    BY <1>13
<1> HIDE DEF ends
<1>15. /\ DOMAIN ends = 1..k
       /\ \A i \in 1..k : ends[i] = IF i = k THEN cnt[k] ELSE End(i, ends[i + 1])
  BY <1>14
<1> DEFINE U == {i \in 1..k : OK(i, ends[i])}
<1>16. ASSUME NEW i \in 1..k PROVE OK(i, ends[i])
  <2>1. k \in U
    <3>1. k \in 1..k
      BY <1>2
    <3> QED
      BY <1>4, <1>15, <3>1
  <2>2. ASSUME NEW m \in 1..k, m \in U, 1 < m PROVE m - 1 \in U
    <3>1. m - 1 \in 1..(k - 1) /\ m - 1 \in 1..k /\ (m - 1) + 1 = m /\ m - 1 # k
      BY <1>2, <2>2
    <3>2. OK(m, ends[m])
      BY <2>2
    <3>3. ends[m - 1] = End(m - 1, ends[m])
      BY <1>15, <3>1
    <3>4. OK(m - 1, End(m - 1, ends[m]))
      BY <1>3, <3>1, <3>2
    <3> QED
      BY <3>1, <3>3, <3>4
  <2>3. \A m \in 1..k : m \in U
    <3>1. 1 \in Int /\ k \in Int
      BY <1>2
    <3> HIDE DEF U
    <3> QED
      BY <2>1, <2>2, <3>1, Downward
  <2> QED
    BY <2>3
<1>t. ends \in [1..k -> Nat]
  <2>1. \A i \in 1..k : ends[i] \in Nat
    BY <1>5, <1>16
  <2> QED
    BY <1>14, <2>1
<1>17. ASSUME NEW i \in 1..(k - 1) PROVE ends[i] = End(i, ends[i + 1])
  <2>1. i \in 1..k /\ i # k
    BY <1>2
  <2> QED
    BY <1>15, <2>1
<1> QED
  BY <1>6, <1>t, <1>16, <1>17 DEF OK, End, k

-------------------------------------------------------------------------------
(* What balance_nonroot may rely on.                                         *)

\* A distribution of all cells whose pages fit.
Fits(sz, keep, room, cnt) ==
  /\ cnt \in Seq(0..Len(sz)) /\ Len(cnt) >= 1 /\ cnt[Len(cnt)] = Len(sz)
  /\ \A i \in 1..Len(cnt) :
       /\ Start(cnt, i, keep) - 1 <= cnt[i]
       /\ Bytes(sz, Start(cnt, i, keep), cnt[i]) <= room

NewSiblings(sz, keep, room) == Evened(sz, keep, Packed(sz, keep, room))

\* balance_nonroot distributes all cells over pages they fit on, and leaves none of
\* them empty (the assertions before and after assemblePage).  Without cells there is
\* one empty page, the only child of an empty root on page 1.
THEOREM EverySiblingFits ==
  ASSUME NEW sz, NEW keep, NEW room, Cells(sz, keep, room)
  PROVE  LET cnt == NewSiblings(sz, keep, room)
         IN  /\ Fits(sz, keep, room, cnt)
             /\ IF sz = <<>> THEN cnt = <<0>>
                ELSE \A i \in 1..Len(cnt) : Start(cnt, i, keep) <= cnt[i]
<1> DEFINE n == Len(sz)
           pk == Packed(sz, keep, room)
           k == Len(pk)
           e == Evened(sz, keep, pk)
           a(i) == Start(e, i, keep)
           t == Before(sz)
<1>1. n \in Nat /\ keep \in {0, 1} /\ room \in Nat /\ (n = 0 <=> sz = <<>>)
  BY SumsGrow DEF Cells
<1>2. /\ k \in 1..(n + 1) /\ (n >= 1 => k <= n) /\ pk \in [1..k -> 0..n] /\ pk[k] = n
  BY PackedFacts
<1>3. /\ e \in [1..k -> Nat]
      /\ \A i \in 1..k : EndOK(keep, pk, i, e[i])
      /\ \A i \in 1..(k - 1) : e[i] = EvenedEnd(sz, keep, pk, i, e[i + 1])
  BY EvenedFacts
<1>4. /\ 1 <= k => Start(pk, 1, keep) = 1 /\ a(1) = 1
      /\ 1 \in 1..k
      /\ Bytes(sz, 1, pk[1]) <= room /\ (1 < k => 1 <= pk[1])
  <2>1. 1 \in 1..k
    BY <1>1, <1>2
  <2>2. Start(pk, 1, keep) = 1 /\ a(1) = 1
    BY DEF Start
  <2> QED
    BY <2>1, <2>2, PackedPages
<1> HIDE DEF n, pk, k, e
<1>5. ASSUME NEW i \in 1..k PROVE e[i] \in 0..n /\ e[i] \in Nat /\ e[i] <= pk[i]
  <2>1. e[i] \in Nat /\ e[i] <= pk[i]
    BY <1>3 DEF EndOK
  <2>2. pk[i] \in 0..n
    BY <1>2
  <2> QED
    BY <1>1, <2>1, <2>2
<1>6. e[k] = n /\ k \in 1..k
  <2>1. k \in 1..k
    BY <1>1, <1>2
  <2>2. e[k] = pk[k]
    BY <1>3, <2>1 DEF EndOK, k
  <2> QED
    BY <1>2, <2>1, <2>2
<1>7. e \in Seq(0..n) /\ Len(e) = k
  <2>1. e \in [1..k -> 0..n]
    BY <1>3, <1>5
  <2>2. k \in Nat
    BY <1>1, <1>2
  <2> HIDE DEF a
  <2>3. e \in Seq(0..n)
    <3> DEFINE S == 0..n
    <3> HIDE DEF S
    <3>1. e \in [1..k -> S]
      BY <2>1 DEF S
    <3>2. e \in Seq(S)
      BY <2>2, <3>1
    <3> QED
      BY <3>2 DEF S
  <2>4. DOMAIN e = 1..k /\ DOMAIN e = 1..Len(e) /\ Len(e) \in Nat
    BY <2>1, <2>3
  <2> QED
    BY <2>2, <2>3, <2>4
<1>8. ASSUME NEW i \in 1..k
      PROVE  /\ a(i) - 1 <= e[i] /\ Bytes(sz, a(i), e[i]) <= room
             /\ n >= 1 => a(i) <= e[i]
  <2>1. CASE i = 1
    <3>1. Bytes(sz, 1, e[1]) <= room
      <4>1. n \in Nat /\ t \in [0..n -> Nat] /\ \A c, d \in 0..n : c <= d => t[c] <= t[d]
        BY SumsGrow DEF n
      <4> HIDE DEF t
      <4>2. e[1] \in 0..n /\ pk[1] \in 0..n /\ e[1] <= pk[1] /\ 0 \in 0..n
        BY <1>1, <1>2, <1>4, <1>5
      <4>3. t[e[1]] <= t[pk[1]] /\ t[e[1]] \in Nat /\ t[pk[1]] \in Nat /\ t[0] \in Nat
        BY <4>1, <4>2
      <4>4. t[pk[1]] - t[0] <= room
        BY <1>4 DEF Bytes, t
      <4>5. t[e[1]] - t[0] <= room
        BY <1>1, <4>3, <4>4
      <4> QED
        BY <4>5 DEF Bytes, t
    <3>2. n >= 1 => 1 <= e[1]
      <4>1. CASE k = 1
        BY <1>1, <1>6, <4>1
      <4>2. CASE k # 1
        <5>1. EndOK(keep, pk, 1, e[1]) /\ Start(pk, 1, keep) = 1
          BY <1>1, <1>2, <1>3, <1>4
        <5>2. Start(pk, 1, keep) <= e[1]
          BY <4>2, <5>1 DEF EndOK, k
        <5> QED
          BY <5>1, <5>2
      <4> QED
        BY <4>1, <4>2
    <3> QED
      BY <1>1, <1>2, <1>4, <1>5, <2>1, <3>1, <3>2
  <2>2. CASE i # 1
    <3> DEFINE j == i - 1
    <3>1. j \in 1..(k - 1) /\ j \in 1..k /\ j + 1 = i /\ j \in 1..(Len(pk) - 1)
      BY <1>1, <1>2, <2>2 DEF k
    <3>2. EndOK(keep, pk, j + 1, e[i])
      BY <1>3, <3>1
    <3>3. k >= 2
      BY <1>1, <1>2, <3>1
    <3>4. n >= 1
      BY <1>1, <1>2, <3>3
    <3>5. e[j] = EvenedEnd(sz, keep, pk, j, e[i])
      BY <1>3, <3>1
    <3>6. e[j] + 2 - keep <= e[i] /\ Bytes(sz, e[j] + 2 - keep, e[i]) <= room
      <4> HIDE DEF j
      <4>1. Len(sz) >= 1
        BY <3>4 DEF n
      <4> QED
        BY <3>1, <3>2, <3>5, <4>1, EvenedStep DEF pk
    <3>7. a(i) = e[j] + 2 - keep
      BY <2>2 DEF Start
    <3>8. e[j] \in Nat /\ e[i] \in Nat
      BY <1>5, <3>1
    <3> HIDE DEF a, j
    <3> QED
      BY <1>1, <3>6, <3>7, <3>8
  <2> QED
    BY <2>1, <2>2
<1>9. Fits(sz, keep, room, e)
  BY <1>1, <1>2, <1>6, <1>7, <1>8 DEF Fits, n
<1>10. ASSUME sz = <<>> PROVE e = <<0>>
  <2>1. n = 0 /\ k = 1
    BY <1>1, <1>2, <1>10
  <2>2. e[1] = 0 /\ e \in [1..1 -> Nat]
    BY <1>3, <1>6, <2>1
  <2> QED
    BY <2>2
<1>11. ASSUME sz # <<>> PROVE \A i \in 1..Len(e) : a(i) <= e[i]
  <2>1. n >= 1
    BY <1>1, <1>11
  <2> QED
    BY <1>7, <1>8, <2>1
<1>12. NewSiblings(sz, keep, room) = e
  BY DEF NewSiblings, e, pk
<1> QED
  BY <1>9, <1>10, <1>11, <1>12

\* No distribution takes fewer pages: filling the pages from the left gets as far as any
\* other one, page by page.
THEOREM FewestSiblings ==
  ASSUME NEW sz, NEW keep, NEW room, Cells(sz, keep, room), NEW b, Fits(sz, keep, room, b)
  PROVE  Len(NewSiblings(sz, keep, room)) <= Len(b)
<1> DEFINE n == Len(sz)
           pk == Packed(sz, keep, room)
           k == Len(pk)
           m == Len(b)
           t == Before(sz)
           T == {i \in Nat : i \in 1..k /\ b[i] <= pk[i]}
<1>1. n \in Nat /\ keep \in {0, 1} /\ room \in Nat
  BY SumsGrow DEF Cells
<1>2. /\ k \in 1..(n + 1) /\ pk \in [1..k -> 0..n] /\ pk[k] = n
      /\ \A i \in 1..(k - 1) : pk[i] < n
  BY PackedFacts
<1>3. \A i \in 1..k : Start(pk, i, keep) \in 1..(n + 1)
  BY PackedPages
<1>p. \A i \in 1..k : pk[i] < n => Bytes(sz, Start(pk, i, keep), pk[i] + 1) > room
  BY PackedPages
<1>4. /\ b \in [1..m -> 0..n] /\ m \in Nat /\ m >= 1 /\ b[m] = n
      /\ \A i \in 1..m : /\ Start(b, i, keep) - 1 <= b[i]
                         /\ Bytes(sz, Start(b, i, keep), b[i]) <= room
  BY DEF Fits
<1>5. Len(NewSiblings(sz, keep, room)) = k
  <2> DEFINE e == Evened(sz, keep, pk)
  <2>1. e \in [1..k -> Nat]
    BY EvenedFacts
  <2>2. k \in Nat
    BY <1>1, <1>2
  <2> HIDE DEF e, k
  <2>3. Len(e) = k
    <3>1. e \in Seq(Nat)
      BY <2>1, <2>2
    <3>2. DOMAIN e = 1..k /\ DOMAIN e = 1..Len(e) /\ Len(e) \in Nat
      BY <2>1, <3>1
    <3> QED
      BY <2>2, <3>2
  <2> QED
    BY <2>3 DEF NewSiblings, e
<1>6. n \in Nat /\ t \in [0..n -> Nat] /\ \A c, d \in 0..n : c <= d => t[c] <= t[d]
  BY SumsGrow
<1> HIDE DEF n, pk, k, m, t
<1> SUFFICES ASSUME m < k PROVE FALSE
  BY <1>1, <1>2, <1>4, <1>5 DEF m
\* A page that starts no earlier ends no earlier.
<1>7. ASSUME NEW i \in 1..m, Start(b, i, keep) <= Start(pk, i, keep),
             Start(b, i, keep) \in Nat \ {0}
      PROVE  b[i] <= pk[i]
  <2> DEFINE u == Start(b, i, keep)
             v == Start(pk, i, keep)
  <2>1. i \in 1..k /\ i \in 1..(k - 1)
    BY <1>1, <1>2, <1>4
  <2>2. pk[i] < n /\ pk[i] \in 0..n /\ v \in 1..(n + 1) /\ b[i] \in 0..n
    <3>1. pk[i] < n /\ pk[i] \in 0..n
      BY <1>2, <2>1
    <3>2. v \in 1..(n + 1)
      BY <1>3, <2>1
    <3>3. b[i] \in 0..n
      BY <1>4
    <3> QED
      BY <3>1, <3>2, <3>3
  <2>3. u <= v /\ u \in Nat /\ u >= 1
    BY <1>7
  <2>4. Bytes(sz, v, pk[i] + 1) > room
    BY <1>p, <2>1, <2>2
  <2>5. Bytes(sz, u, b[i]) <= room
    BY <1>4
  <2> HIDE DEF u, v
  <2> SUFFICES ASSUME pk[i] < b[i] PROVE FALSE
    BY <2>2
  <2>6. /\ pk[i] + 1 \in 0..n /\ pk[i] + 1 <= b[i]
        /\ u - 1 \in 0..n /\ v - 1 \in 0..n /\ u - 1 <= v - 1
    BY <1>1, <2>2, <2>3
  <2>7. t[pk[i] + 1] <= t[b[i]] /\ t[u - 1] <= t[v - 1]
    BY <1>6, <2>2, <2>6
  <2>8. t[pk[i] + 1] \in Nat /\ t[b[i]] \in Nat /\ t[u - 1] \in Nat /\ t[v - 1] \in Nat
    BY <1>6, <2>2, <2>6
  <2>9. t[pk[i] + 1] - t[v - 1] > room /\ t[b[i]] - t[u - 1] <= room
    BY <2>4, <2>5 DEF Bytes, t
  <2> QED
    BY <1>1, <2>7, <2>8, <2>9
<1>8. 1 \in T
  <2>1. Start(b, 1, keep) = 1 /\ Start(pk, 1, keep) = 1
    BY DEF Start
  <2>2. 1 \in 1..m /\ 1 \in 1..k
    BY <1>1, <1>2, <1>4
  <2> QED
    BY <1>7, <2>1, <2>2
<1>9. ASSUME NEW i \in 1..m, i \in T, i < m PROVE i + 1 \in T
  <2>1. i + 1 \in 1..m /\ i + 1 \in 1..k /\ i \in 1..k /\ i + 1 # 1 /\ (i + 1) - 1 = i
    BY <1>1, <1>2, <1>4, <1>9
  <2>2. Start(b, i + 1, keep) = b[i] + 2 - keep /\ Start(pk, i + 1, keep) = pk[i] + 2 - keep
    BY <2>1 DEF Start
  <2>3. b[i] \in 0..n /\ pk[i] \in 0..n /\ b[i] <= pk[i]
    BY <1>2, <1>4, <1>9, <2>1
  <2>4. Start(b, i + 1, keep) <= Start(pk, i + 1, keep) /\ Start(b, i + 1, keep) \in Nat \ {0}
    BY <1>1, <2>2, <2>3
  <2>5. b[i + 1] <= pk[i + 1]
    BY <1>7, <2>1, <2>4
  <2> QED
    BY <1>1, <2>1, <2>5
<1>10. m \in T
  <2>1. 1 \in Int /\ m \in Int /\ m \in 1..m
    BY <1>4
  <2> HIDE DEF T
  <2>2. \A i \in 1..m : i \in T
    BY <1>8, <1>9, <2>1, Upward
  <2> QED
    BY <2>1, <2>2
<1>11. n <= pk[m]
  BY <1>4, <1>10
<1>12. m \in 1..(k - 1) /\ pk[m] \in 0..n
  BY <1>1, <1>2, <1>4
<1> QED
  BY <1>1, <1>2, <1>11, <1>12

\* The siblings before they are balanced: the pages fit but for page p, which would without the
\* cells from x to y; and these would fit on a page of their own.
OneOverfull(sz, keep, room, cnt, p, x, y) ==
  /\ cnt \in Seq(0..Len(sz)) /\ Len(cnt) >= 1 /\ cnt[Len(cnt)] = Len(sz)
  /\ p \in 1..Len(cnt)
  /\ \A i \in 1..Len(cnt) :
       /\ Start(cnt, i, keep) - 1 <= cnt[i]
       /\ i # p => Bytes(sz, Start(cnt, i, keep), cnt[i]) <= room
  /\ x \in Start(cnt, p, keep)..cnt[p] /\ y \in x..cnt[p]
  /\ Bytes(sz, Start(cnt, p, keep), x - 1) + Bytes(sz, y + 1, cnt[p]) <= room
  /\ Bytes(sz, x, y) <= room

\* The pages i of c, where they are given one by one, are a distribution that fits.
LEMMA FitsIf ==
  ASSUME NEW sz, NEW keep, NEW room, Cells(sz, keep, room), NEW m \in Nat, m >= 1,
         NEW c, c \in [1..m -> 0..Len(sz)], c[m] = Len(sz),
         \A i \in 1..m : Start(c, i, keep) - 1 <= c[i] /\ Bytes(sz, Start(c, i, keep), c[i]) <= room
  PROVE  Fits(sz, keep, room, c) /\ Len(c) = m
<1> DEFINE S == 0..Len(sz)
<1>1. c \in Seq(S) /\ Len(c) = m
  <2>1. c \in [1..m -> S]
    OBVIOUS
  <2> HIDE DEF S
  <2>2. c \in Seq(S)
    BY <2>1
  <2>3. DOMAIN c = 1..m /\ DOMAIN c = 1..Len(c) /\ Len(c) \in Nat
    BY <2>1, <2>2
  <2> QED
    BY <2>2, <2>3
<1> QED
  BY <1>1 DEF Fits

\* balance_nonroot makes at most two siblings more than there were: with NB of them, its
\* arrays of NB + 2 are large enough.
THEOREM AtMostTwoMore ==
  ASSUME NEW sz, NEW keep, NEW room, Cells(sz, keep, room),
         NEW b, NEW p, NEW x, NEW y, OneOverfull(sz, keep, room, b, p, x, y)
  PROVE  Len(NewSiblings(sz, keep, room)) <= Len(b) + 2
<1> DEFINE n == Len(sz)
           m == Len(b)
           t == Before(sz)
           a(i) == Start(b, i, keep)
           yy == IF keep = 1 THEN y ELSE y - 1
<1>1. n \in Nat /\ keep \in {0, 1} /\ room \in Nat
  BY SumsGrow DEF Cells
<1>2. /\ \A i \in 0..n : t[i] \in Nat
      /\ \A u, v \in 0..n : u <= v => t[u] <= t[v]
  <2>1. n \in Nat /\ t \in [0..n -> Nat] /\ \A u, v \in 0..n : u <= v => t[u] <= t[v]
    BY SumsGrow
  <2> HIDE DEF n, t
  <2> QED
    BY <2>1
<1>3. /\ b \in [1..m -> 0..n] /\ m \in Nat /\ m >= 1 /\ b[m] = n /\ p \in 1..m
      /\ \A i \in 1..m : a(i) - 1 <= b[i]
      /\ \A i \in 1..m : i # p => Bytes(sz, a(i), b[i]) <= room
      /\ x \in a(p)..b[p] /\ y \in x..b[p]
      /\ Bytes(sz, a(p), x - 1) + Bytes(sz, y + 1, b[p]) <= room
      /\ Bytes(sz, x, y) <= room
  <2>1. b \in Seq(0..n) /\ m >= 1 /\ b[m] = n
    BY DEF OneOverfull
  <2>2. b \in [1..m -> 0..n] /\ m \in Nat
    <3> DEFINE S == 0..n
    <3>1. b \in Seq(S)
      BY <2>1
    <3> HIDE DEF S
    <3>2. b \in [1..Len(b) -> S] /\ Len(b) \in Nat
      BY <3>1
    <3> QED
      BY <3>2 DEF S
  <2>3. /\ p \in 1..m
        /\ \A i \in 1..m : a(i) - 1 <= b[i] /\ (i # p => Bytes(sz, a(i), b[i]) <= room)
    BY DEF OneOverfull
  <2>4. /\ x \in a(p)..b[p] /\ y \in x..b[p]
        /\ Bytes(sz, a(p), x - 1) + Bytes(sz, y + 1, b[p]) <= room
        /\ Bytes(sz, x, y) <= room
    BY DEF OneOverfull
  <2> HIDE DEF n, m, a
  <2> QED
    BY <2>1, <2>2, <2>3, <2>4
<1>4. \A i \in 1..m : a(i) = IF i = 1 THEN 1 ELSE b[i - 1] + 2 - keep
  BY DEF Start
<1> HIDE DEF n, t, m, a
<1>5. ASSUME NEW i \in 1..m PROVE a(i) \in Nat /\ a(i) >= 1
  <2>1. CASE i = 1
    BY <1>4, <2>1
  <2>2. CASE i # 1
    <3>1. i - 1 \in 1..m
      BY <1>3, <2>2
    <3>2. b[i - 1] \in 0..n /\ a(i) = b[i - 1] + 2 - keep
      BY <1>3, <1>4, <2>2, <3>1
    <3> QED
      BY <1>1, <3>2
  <2> QED
    BY <2>1, <2>2
<1>6. /\ x \in 1..n /\ y \in 1..n /\ x <= y /\ y <= b[p] /\ b[p] \in 0..n /\ a(p) \in Nat
      /\ a(p) >= 1 /\ a(p) <= x
  <2>1. a(p) \in Nat /\ a(p) >= 1 /\ b[p] \in 0..n
    BY <1>3, <1>5
  <2> QED
    BY <1>1, <1>3, <2>1
\* The parts of page p fit.
<1>7. /\ Bytes(sz, a(p), x - 1) <= room
      /\ Bytes(sz, y + 1, b[p]) <= room
      /\ x < y => Bytes(sz, x + 1, y - 1) <= room
  <2> DEFINE q == a(p) - 1
  <2>1. /\ q \in 0..n /\ x - 1 \in 0..n /\ q <= x - 1 /\ y \in 0..n /\ x \in 0..n
        /\ x - 1 <= x /\ y - 1 \in 0..n /\ y - 1 <= y
        /\ (y + 1) - 1 = y /\ (x + 1) - 1 = x
    BY <1>1, <1>6
  <2> HIDE DEF q
  <2>2. /\ t[q] \in Nat /\ t[x - 1] \in Nat /\ t[y] \in Nat /\ t[b[p]] \in Nat /\ t[x] \in Nat
        /\ t[y - 1] \in Nat /\ t[q] <= t[x - 1] /\ t[y] <= t[b[p]] /\ t[x - 1] <= t[x]
        /\ t[y - 1] <= t[y]
    BY <1>2, <1>6, <2>1
  <2>3. (t[x - 1] - t[q]) + (t[b[p]] - t[y]) <= room /\ t[y] - t[x - 1] <= room
    BY <1>3, <2>1 DEF Bytes, t, q
  <2>4. t[x - 1] - t[q] <= room /\ t[b[p]] - t[y] <= room /\ t[y - 1] - t[x] <= room
    BY <1>1, <2>2, <2>3
  <2> QED
    BY <2>1, <2>4 DEF Bytes, t, q
<1>8. CASE keep = 0 /\ x = y
  <2> DEFINE c == [i \in 1..(m + 1) |-> IF i < p THEN b[i] ELSE IF i = p THEN x - 1 ELSE b[i - 1]]
  <2>0. p \in Nat /\ 1 <= p /\ p <= m /\ m \in Nat
    BY <1>3
  <2>1. c \in [1..(m + 1) -> 0..n] /\ c[m + 1] = n
    <3>1. ASSUME NEW i \in 1..(m + 1)
          PROVE (IF i < p THEN b[i] ELSE IF i = p THEN x - 1 ELSE b[i - 1]) \in 0..n
      <4>1. CASE i < p
        <5>1. i \in 1..m
          BY <2>0, <4>1
        <5> QED
          BY <1>3, <4>1, <5>1
      <4>2. CASE i = p
        <5>1. x - 1 \in 0..n
          BY <1>1, <1>6
        <5> QED
          BY <2>0, <4>2, <5>1
      <4>3. CASE p < i
        <5>1. i - 1 \in 1..m
          BY <2>0, <4>3
        <5> QED
          BY <1>3, <2>0, <4>3, <5>1
      <4> QED
        BY <2>0, <4>1, <4>2, <4>3
    <3>2. m + 1 \in 1..(m + 1) /\ ~(m + 1 < p) /\ m + 1 # p /\ (m + 1) - 1 = m
      BY <2>0
    <3> QED
      BY <1>3, <3>1, <3>2
  <2>2. ASSUME NEW i \in 1..(m + 1)
        PROVE  Start(c, i, keep) - 1 <= c[i] /\ Bytes(sz, Start(c, i, keep), c[i]) <= room
    <3>1. CASE i < p
      <4>1. i \in 1..m /\ i # p /\ (i # 1 => i - 1 \in 1..(m + 1) /\ i - 1 < p)
        BY <2>0, <3>1
      <4>2. c[i] = b[i] /\ (i # 1 => c[i - 1] = b[i - 1])
        BY <3>1, <4>1
      <4>3. Start(c, i, keep) = a(i)
        <5> HIDE DEF c
        <5> QED
          BY <1>4, <4>1, <4>2 DEF Start
      <4> HIDE DEF c
      <4> QED
        BY <1>3, <4>1, <4>2, <4>3
    <3>2. CASE i = p
      <4>1. i \in 1..m /\ (i # 1 => i - 1 \in 1..(m + 1) /\ i - 1 < p) /\ ~(i < p)
        BY <2>0, <3>2
      <4>2. c[i] = x - 1 /\ (i # 1 => c[i - 1] = b[i - 1])
        BY <3>2, <4>1
      <4>3. Start(c, i, keep) = a(i)
        <5> HIDE DEF c
        <5> QED
          BY <1>4, <4>1, <4>2 DEF Start
      <4>4. a(p) - 1 <= x - 1
        BY <1>6
      <4> HIDE DEF c
      <4> QED
        BY <1>7, <3>2, <4>2, <4>3, <4>4
    <3>3. CASE i = p + 1
      <4>1. /\ i \in 1..(m + 1) /\ i # 1 /\ i - 1 = p /\ p \in 1..(m + 1)
            /\ ~(i < p) /\ i # p /\ ~(p < p)
        BY <2>0, <3>3
      <4>2. c[i] = b[p] /\ c[i - 1] = x - 1
        BY <4>1
      <4>3. Start(c, i, keep) = y + 1
        <5>1. (x - 1) + 2 - keep = y + 1
          BY <1>6, <1>8
        <5> HIDE DEF c
        <5> QED
          BY <4>1, <4>2, <5>1 DEF Start
      <4>4. (y + 1) - 1 <= b[p]
        BY <1>6
      <4> HIDE DEF c
      <4> QED
        BY <1>7, <4>2, <4>3, <4>4
    <3>4. CASE i > p + 1
      <4> DEFINE j == i - 1
      <4>1. /\ j \in 1..m /\ j # p /\ j # 1 /\ i # 1 /\ ~(i < p) /\ i # p /\ j \in 1..(m + 1)
            /\ ~(j < p) /\ j - 1 \in 1..m
        BY <2>0, <3>4
      <4>2. c[i] = b[j] /\ c[i - 1] = b[j - 1]
        BY <4>1
      <4> HIDE DEF c, j
      <4>3. Start(c, i, keep) = a(j)
        BY <1>4, <4>1, <4>2 DEF Start
      <4> QED
        BY <1>3, <4>1, <4>2, <4>3
    <3> QED
      BY <2>0, <3>1, <3>2, <3>3, <3>4
  <2>3. m + 1 \in Nat /\ m + 1 >= 1
    BY <2>0
  <2>4. Fits(sz, keep, room, c) /\ Len(c) = m + 1
    <3> HIDE DEF c
    <3> QED
      BY <2>1, <2>2, <2>3, FitsIf DEF n
  <2>5. Len(NewSiblings(sz, keep, room)) <= m + 1
    <3> HIDE DEF c
    <3> QED
      BY <2>4, FewestSiblings
  <2>6. Len(NewSiblings(sz, keep, room)) \in Nat
    BY EverySiblingFits DEF Fits
  <2> QED
    BY <2>0, <2>5, <2>6 DEF m
<1>9. CASE ~(keep = 0 /\ x = y)
  <2> DEFINE c == [i \in 1..(m + 2) |-> IF i < p THEN b[i] ELSE IF i = p THEN x - 1
                                        ELSE IF i = p + 1 THEN yy ELSE b[i - 2]]
  <2>0. p \in Nat /\ 1 <= p /\ p <= m /\ m \in Nat
    BY <1>3
  <2>y. yy \in 0..n /\ yy + 2 - keep = y + 1 /\ (keep = 0 => x < y)
    BY <1>1, <1>6, <1>9
  <2>1. c \in [1..(m + 2) -> 0..n] /\ c[m + 2] = n
    <3>1. ASSUME NEW i \in 1..(m + 2)
          PROVE (IF i < p THEN b[i] ELSE IF i = p THEN x - 1
                 ELSE IF i = p + 1 THEN yy ELSE b[i - 2]) \in 0..n
      <4>1. CASE i < p
        <5>1. i \in 1..m
          BY <2>0, <4>1
        <5> QED
          BY <1>3, <4>1, <5>1
      <4>2. CASE i = p
        <5>1. x - 1 \in 0..n
          BY <1>1, <1>6
        <5> QED
          BY <2>0, <4>2, <5>1
      <4>3. CASE i = p + 1
        BY <2>0, <2>y, <4>3
      <4>4. CASE p + 1 < i
        <5>1. i - 2 \in 1..m
          BY <2>0, <4>4
        <5> QED
          BY <1>3, <2>0, <4>4, <5>1
      <4> QED
        BY <2>0, <4>1, <4>2, <4>3, <4>4
    <3>2. /\ m + 2 \in 1..(m + 2) /\ ~(m + 2 < p) /\ m + 2 # p /\ m + 2 # p + 1
          /\ (m + 2) - 2 = m
      BY <2>0
    <3> HIDE DEF yy
    <3> QED
      BY <1>3, <3>1, <3>2
  <2> HIDE DEF yy
  <2>2. ASSUME NEW i \in 1..(m + 2)
        PROVE  Start(c, i, keep) - 1 <= c[i] /\ Bytes(sz, Start(c, i, keep), c[i]) <= room
    <3>1. CASE i < p
      <4>1. i \in 1..m /\ i # p /\ (i # 1 => i - 1 \in 1..(m + 2) /\ i - 1 < p)
        BY <2>0, <3>1
      <4>2. c[i] = b[i] /\ (i # 1 => c[i - 1] = b[i - 1])
        BY <3>1, <4>1
      <4>3. Start(c, i, keep) = a(i)
        <5> HIDE DEF c
        <5> QED
          BY <1>4, <4>1, <4>2 DEF Start
      <4> HIDE DEF c
      <4> QED
        BY <1>3, <4>1, <4>2, <4>3
    <3>2. CASE i = p
      <4>1. i \in 1..m /\ (i # 1 => i - 1 \in 1..(m + 2) /\ i - 1 < p) /\ ~(i < p)
        BY <2>0, <3>2
      <4>2. c[i] = x - 1 /\ (i # 1 => c[i - 1] = b[i - 1])
        BY <3>2, <4>1
      <4>3. Start(c, i, keep) = a(i)
        <5> HIDE DEF c
        <5> QED
          BY <1>4, <4>1, <4>2 DEF Start
      <4>4. a(p) - 1 <= x - 1
        BY <1>6
      <4> HIDE DEF c
      <4> QED
        BY <1>7, <3>2, <4>2, <4>3, <4>4
    <3>3. CASE i = p + 1
      <4>1. /\ i \in 1..(m + 2) /\ i # 1 /\ i - 1 = p /\ p \in 1..(m + 2) /\ ~(i < p) /\ i # p
            /\ ~(p < p)
        BY <2>0, <3>3
      <4>2. c[i] = yy /\ c[i - 1] = x - 1
        BY <3>3, <4>1
      <4>3. Start(c, i, keep) = (x - 1) + 2 - keep
        <5> HIDE DEF c
        <5> QED
          BY <4>1, <4>2 DEF Start
      <4> HIDE DEF c
      <4>4. CASE keep = 1
        <5>1. (x - 1) + 2 - keep = x /\ yy = y /\ x - 1 <= y
          BY <1>6, <4>4 DEF yy
        <5> QED
          BY <1>3, <4>2, <4>3, <5>1
      <4>5. CASE keep = 0
        <5>1. (x - 1) + 2 - keep = x + 1 /\ yy = y - 1 /\ x < y /\ (x + 1) - 1 <= y - 1
          BY <1>6, <2>y, <4>5 DEF yy
        <5> QED
          BY <1>7, <4>2, <4>3, <5>1
      <4> QED
        BY <1>1, <4>4, <4>5
    <3>4. CASE i = p + 2
      <4>1. /\ i \in 1..(m + 2) /\ i # 1 /\ i - 1 = p + 1 /\ p + 1 \in 1..(m + 2)
            /\ ~(i < p) /\ i # p
            /\ i # p + 1 /\ i - 2 = p /\ ~(p + 1 < p) /\ p + 1 # p
        BY <2>0, <3>4
      <4>2. c[i] = b[p] /\ c[i - 1] = yy
        BY <4>1
      <4>3. Start(c, i, keep) = y + 1
        <5> HIDE DEF c
        <5> QED
          BY <2>y, <4>1, <4>2 DEF Start
      <4>4. (y + 1) - 1 <= b[p]
        BY <1>6
      <4> HIDE DEF c
      <4> QED
        BY <1>7, <4>2, <4>3, <4>4
    <3>5. CASE i > p + 2
      <4> DEFINE j == i - 2
      <4>1. /\ j \in 1..m /\ j # p /\ j # 1 /\ i # 1 /\ ~(i < p) /\ i # p /\ i # p + 1
            /\ i - 1 \in 1..(m + 2) /\ ~(i - 1 < p) /\ i - 1 # p /\ i - 1 # p + 1
            /\ (i - 1) - 2 = j - 1 /\ j - 1 \in 1..m
        BY <2>0, <3>5
      <4>2. c[i] = b[j] /\ c[i - 1] = b[j - 1]
        BY <4>1
      <4> HIDE DEF c, j
      <4>3. Start(c, i, keep) = a(j)
        BY <1>4, <4>1, <4>2 DEF Start
      <4> QED
        BY <1>3, <4>1, <4>2, <4>3
    <3> QED
      BY <2>0, <3>1, <3>2, <3>3, <3>4, <3>5
  <2>3. m + 2 \in Nat /\ m + 2 >= 1
    BY <2>0
  <2>4. Fits(sz, keep, room, c) /\ Len(c) = m + 2
    <3> HIDE DEF c
    <3> QED
      BY <2>1, <2>2, <2>3, FitsIf DEF n
  <2>5. Len(NewSiblings(sz, keep, room)) <= m + 2
    <3> HIDE DEF c
    <3> QED
      BY <2>4, FewestSiblings
  <2> QED
    BY <2>5 DEF m
<1> QED
  BY <1>8, <1>9

\* Cell c is on page i of a distribution, or goes to the parent.
OnPage(cnt, keep, i, c) == c \in Start(cnt, i, keep)..cnt[i]
IsDivider(cnt, keep, i, c) == keep = 0 /\ i < Len(cnt) /\ c = cnt[i] + 1

\* No cell is lost and none is copied: each is on one of the siblings or, but for
\* the leaves of a table, between two of them in their parent.
THEOREM EveryCellOnce ==
  ASSUME NEW sz \in Seq(Nat), NEW keep \in {0, 1}, NEW room, NEW cnt, Fits(sz, keep, room, cnt)
  PROVE  LET K == 1..Len(cnt)
         IN  \A c \in 1..Len(sz) :
               /\ \E i \in K : OnPage(cnt, keep, i, c) \/ IsDivider(cnt, keep, i, c)
               /\ \A i, j \in K : OnPage(cnt, keep, i, c) /\ OnPage(cnt, keep, j, c) => i = j
               /\ \A i, j \in K : IsDivider(cnt, keep, i, c) /\ IsDivider(cnt, keep, j, c) => i = j
               /\ \A i, j \in K : ~(OnPage(cnt, keep, i, c) /\ IsDivider(cnt, keep, j, c))
<1> DEFINE n == Len(sz)
           k == Len(cnt)
           S == 0..n
<1>1. n \in Nat /\ keep \in Nat /\ keep <= 1
  OBVIOUS
<1>2. cnt \in Seq(S) /\ k >= 1 /\ cnt[k] = n
  BY DEF Fits
<1>3. /\ \A i \in 1..k : cnt[i] \in 0..n
      /\ k \in Nat
  <2> HIDE DEF S
  <2>1. k \in Nat /\ \A i \in 1..k : cnt[i] \in S
    BY <1>2
  <2> QED
    BY <2>1 DEF S
<1>4. \A i \in 1..k : Start(cnt, i, keep) = (IF i = 1 THEN 1 ELSE (cnt[i - 1] + 2) - keep)
  BY <1>1, <1>3 DEF Start
<1>5. \A i \in 1..k : Start(cnt, i, keep) - 1 <= cnt[i]
  BY DEF Fits
<1> HIDE DEF n, k, S
\* From each page to the next one.
<1>6. \A i \in 1..k : i + 1 \in 1..k => (cnt[i] + 1) - keep <= cnt[i + 1]
  <2> SUFFICES ASSUME NEW i \in 1..k, i + 1 \in 1..k PROVE (cnt[i] + 1) - keep <= cnt[i + 1]
    OBVIOUS
  <2>1. Start(cnt, i + 1, keep) = (cnt[i] + 2) - keep
    <3>1. i + 1 # 1 /\ (i + 1) - 1 = i
      BY <1>3
    <3> QED
      BY <1>4, <3>1
  <2>2. Start(cnt, i + 1, keep) - 1 <= cnt[i + 1] /\ cnt[i] \in Nat /\ cnt[i + 1] \in Nat
    BY <1>1, <1>3, <1>5
  <2> QED
    BY <1>1, <2>1, <2>2
<1>7. \A i, j \in 1..k : i < j => (cnt[i] + 1) - keep <= cnt[j]
  <2> SUFFICES ASSUME NEW i \in 1..k PROVE \A j \in (i + 1)..k : (cnt[i] + 1) - keep <= cnt[j]
    BY <1>3
  <2> DEFINE T == {j \in (i + 1)..k : (cnt[i] + 1) - keep <= cnt[j]}
  <2>1. i + 1 <= k => i + 1 \in T
    BY <1>3, <1>6
  <2>2. ASSUME NEW j \in (i + 1)..k, j \in T, j < k PROVE j + 1 \in T
    <3>1. /\ j \in 1..k /\ j + 1 \in 1..k /\ j + 1 \in (i + 1)..k
          /\ (cnt[i] + 1) - keep <= cnt[j]
      BY <1>3, <2>2
    <3>2. (cnt[j] + 1) - keep <= cnt[j + 1]
      BY <1>6, <3>1
    <3>3. cnt[i] \in Nat /\ cnt[j] \in Nat /\ cnt[j + 1] \in Nat
      BY <1>1, <1>3, <3>1
    <3> QED
      BY <1>1, <3>1, <3>2, <3>3
  <2> HIDE DEF T
  <2>3. \A j \in (i + 1)..k : j \in T
    <3>1. i + 1 \in Int /\ k \in Int
      BY <1>3
    <3> QED
      BY <2>1, <2>2, <3>1, Upward
  <2> QED
    BY <2>3 DEF T
<1>8. \A i, j \in 1..k :
        i < j => /\ cnt[i] < Start(cnt, j, keep)
                 /\ keep = 0 => cnt[i] + 1 < Start(cnt, j, keep)
  <2> SUFFICES ASSUME NEW i \in 1..k, NEW j \in 1..k, i < j
               PROVE  cnt[i] < Start(cnt, j, keep) /\ (keep = 0 => cnt[i] + 1 < Start(cnt, j, keep))
    OBVIOUS
  <2>1. j # 1 /\ j - 1 \in 1..k /\ (i = j - 1 \/ i < j - 1)
    BY <1>3
  <2>2. cnt[i] \in Nat /\ cnt[j - 1] \in Nat /\ cnt[i] <= cnt[j - 1]
    <3>1. cnt[i] \in Nat /\ cnt[j - 1] \in Nat
      BY <1>1, <1>3, <2>1
    <3>2. i < j - 1 => (cnt[i] + 1) - keep <= cnt[j - 1]
      BY <1>7, <2>1
    <3>3. CASE i < j - 1
      BY <1>1, <3>1, <3>2, <3>3
    <3>4. CASE i = j - 1
      BY <3>1, <3>4
    <3> QED
      BY <2>1, <3>1, <3>3, <3>4
  <2>3. Start(cnt, j, keep) = (cnt[j - 1] + 2) - keep
    BY <1>4, <2>1
  <2> QED
    BY <1>1, <2>2, <2>3
<1> SUFFICES ASSUME NEW c \in 1..n
             PROVE  /\ \E i \in 1..k : OnPage(cnt, keep, i, c) \/ IsDivider(cnt, keep, i, c)
                    /\ \A i, j \in 1..k :
                         OnPage(cnt, keep, i, c) /\ OnPage(cnt, keep, j, c) => i = j
                    /\ \A i, j \in 1..k :
                         IsDivider(cnt, keep, i, c) /\ IsDivider(cnt, keep, j, c) => i = j
                    /\ \A i, j \in 1..k : ~(OnPage(cnt, keep, i, c) /\ IsDivider(cnt, keep, j, c))
  BY DEF n, k
<1>9. \E i \in 1..k : OnPage(cnt, keep, i, c) \/ IsDivider(cnt, keep, i, c)
  <2> DEFINE T == {i \in 1..k : c <= cnt[i]}
  <2>1. T \in SUBSET Nat /\ T # {}
    BY <1>1, <1>2, <1>3
  <2> HIDE DEF T
  <2>2. PICK m \in T : \A i \in T : m <= i
    BY <2>1, Least
  <2>3. m \in 1..k /\ c <= cnt[m] /\ cnt[m] \in 0..n
    BY <1>3, <2>2 DEF T
  <2>4. CASE m = 1
    BY <1>4, <2>3, <2>4 DEF OnPage
  <2>5. CASE m # 1
    <3>1. m - 1 \in 1..k /\ m - 1 < k /\ ~(m <= m - 1) /\ (m - 1) + 1 = m
      BY <1>3, <2>3, <2>5
    <3>2. ~(c <= cnt[m - 1]) /\ cnt[m - 1] \in 0..n
      BY <1>3, <2>2, <3>1 DEF T
    <3>3. Start(cnt, m, keep) = (cnt[m - 1] + 2) - keep
      BY <1>4, <2>3, <2>5
    <3>4. CASE (cnt[m - 1] + 2) - keep <= c
      <4>1. c \in ((cnt[m - 1] + 2) - keep)..cnt[m]
        BY <1>1, <2>3, <3>2, <3>4
      <4>2. OnPage(cnt, keep, m, c)
        BY <3>3, <4>1 DEF OnPage
      <4> QED
        BY <2>3, <4>2
    <3>5. CASE ~((cnt[m - 1] + 2) - keep <= c)
      <4>1. keep = 0 /\ c = cnt[m - 1] + 1
        <5>1. keep # 1
          BY <3>2, <3>5
        <5>2. keep = 0
          BY <5>1
        <5> QED
          BY <3>2, <3>5, <5>2
      <4>2. IsDivider(cnt, keep, m - 1, c)
        BY <3>1, <4>1 DEF IsDivider, k
      <4> QED
        BY <3>1, <4>2
    <3> QED
      BY <3>4, <3>5
  <2> QED
    BY <2>4, <2>5
<1>10. \A i \in 1..k : OnPage(cnt, keep, i, c) => Start(cnt, i, keep) <= c /\ c <= cnt[i]
  <2> SUFFICES ASSUME NEW i \in 1..k, OnPage(cnt, keep, i, c)
               PROVE  Start(cnt, i, keep) <= c /\ c <= cnt[i]
    OBVIOUS
  <2> QED
    BY DEF OnPage
<1>11. \A i \in 1..k : IsDivider(cnt, keep, i, c) => keep = 0 /\ c = cnt[i] + 1 /\ i + 1 \in 1..k
  BY <1>3 DEF IsDivider, k
<1>12. \A i \in 1..k : cnt[i] \in Nat /\ Start(cnt, i, keep) \in Int
  <2> SUFFICES ASSUME NEW i \in 1..k PROVE cnt[i] \in Nat /\ Start(cnt, i, keep) \in Int
    OBVIOUS
  <2>1. i # 1 => i - 1 \in 1..k
    BY <1>3
  <2>2. cnt[i] \in Nat /\ (i # 1 => cnt[i - 1] \in Nat)
    BY <1>1, <1>3, <2>1
  <2>3. CASE i = 1
    BY <1>4, <2>2, <2>3
  <2>4. CASE i # 1
    <3>1. Start(cnt, i, keep) = (cnt[i - 1] + 2) - keep
      BY <1>4, <2>4
    <3> QED
      BY <1>1, <2>2, <2>4, <3>1
  <2> QED
    BY <2>3, <2>4
<1>13. \A i, j \in 1..k : i < j => ~(OnPage(cnt, keep, i, c) /\ OnPage(cnt, keep, j, c))
  BY <1>8, <1>10, <1>12
<1>14. \A i, j \in 1..k : i < j => ~(IsDivider(cnt, keep, i, c) /\ IsDivider(cnt, keep, j, c))
  <2> SUFFICES ASSUME NEW i \in 1..k, NEW j \in 1..k, i < j,
                      IsDivider(cnt, keep, i, c), IsDivider(cnt, keep, j, c)
               PROVE  FALSE
    OBVIOUS
  <2>1. keep = 0 /\ c = cnt[i] + 1 /\ c = cnt[j] + 1 /\ cnt[i] \in Nat /\ cnt[j] \in Nat
    BY <1>11, <1>12
  <2>2. (cnt[i] + 1) - keep <= cnt[j]
    BY <1>7
  <2> QED
    BY <2>1, <2>2
<1>15. \A i, j \in 1..k : ~(OnPage(cnt, keep, i, c) /\ IsDivider(cnt, keep, j, c))
  <2> SUFFICES ASSUME NEW i \in 1..k, NEW j \in 1..k,
                      OnPage(cnt, keep, i, c), IsDivider(cnt, keep, j, c)
               PROVE  FALSE
    OBVIOUS
  <2>1. /\ Start(cnt, i, keep) <= c /\ c <= cnt[i] /\ keep = 0 /\ c = cnt[j] + 1
        /\ cnt[i] \in Nat /\ cnt[j] \in Nat /\ Start(cnt, i, keep) \in Int
    BY <1>10, <1>11, <1>12
  <2>2. ~(j < i)
    BY <1>8, <2>1
  <2>3. i < j => cnt[i] + 1 <= cnt[j]
    BY <1>7, <2>1
  <2> QED
    BY <1>3, <2>1, <2>2, <2>3
<1>16. \A i, j \in 1..k : i < j \/ j < i \/ i = j
  BY <1>3
<1> QED
  BY <1>9, <1>13, <1>14, <1>15, <1>16

-------------------------------------------------------------------------------
(* The free list: taking a page from it.                                     *)

Trunks == [page : Nat, leaves : Seq(Nat)]
Spaces == [free : Seq(Trunks), nPage : Nat]

\* The places of a free list: <<i, 0>> is trunk i, <<i, j>> its j-th leaf.
Places(s) == {u \in (1..Len(s.free)) \X Nat : u[2] <= Len(s.free[u[1]].leaves)}
PageAt(s, u) == IF u[2] = 0 THEN s.free[u[1]].page ELSE s.free[u[1]].leaves[u[2]]
OnList(s) == {PageAt(s, u) : u \in Places(s)}
InUse(s) == (1..s.nPage) \ OnList(s)

\* A free list names pages of the file, each once, and a trunk no more than it has room for.
WellFormed(s) ==
  /\ s \in Spaces
  /\ \A u \in Places(s) : PageAt(s, u) \in 1..s.nPage
  /\ \A u, v \in Places(s) : PageAt(s, u) = PageAt(s, v) => u = v
  /\ \A i \in 1..Len(s.free) : Len(s.free[i].leaves) <= TrunkMax

\* allocatePage finds a leaf near a page.
LEMMA ClosestIsLeaf ==
  ASSUME NEW leaves \in Seq(Nat), leaves # <<>>, NEW nearby \in Nat
  PROVE  Closest(leaves, nearby) \in 1..Len(leaves)
<1> DEFINE k == Len(leaves)
           dist(i) == IF leaves[i] < nearby THEN nearby - leaves[i] ELSE leaves[i] - nearby
           Best(i) == \A j \in DOMAIN leaves : dist(i) < dist(j) \/ (dist(i) = dist(j) /\ i <= j)
           D == {dist(i) : i \in 1..k}
<1>1. k \in Nat /\ k >= 1 /\ DOMAIN leaves = 1..k /\ \A i \in 1..k : leaves[i] \in Nat
  OBVIOUS
<1>2. \A i \in 1..k : dist(i) \in Nat
  BY <1>1
<1> HIDE DEF k, dist
<1>3. PICK d \in D : \A e \in D : d <= e
  <2>1. D \in SUBSET Nat
    BY <1>2
  <2>2. dist(1) \in D
    BY <1>1
  <2> HIDE DEF D
  <2> QED
    BY <2>1, <2>2, Least
<1> DEFINE I == {i \in 1..k : dist(i) = d}
<1>4. PICK i \in I : \A j \in I : i <= j
  <2>1. I \in SUBSET Nat /\ I # {}
    BY <1>1, <1>3
  <2> HIDE DEF I
  <2> QED
    BY <2>1, Least
<1>5. i \in 1..k /\ Best(i)
  <2>1. i \in 1..k /\ dist(i) = d
    BY <1>4
  <2>2. ASSUME NEW j \in 1..k PROVE dist(i) < dist(j) \/ (dist(i) = dist(j) /\ i <= j)
    <3>1. dist(i) <= dist(j) /\ dist(i) \in Nat /\ dist(j) \in Nat
      BY <1>2, <1>3, <2>1
    <3>2. dist(j) = dist(i) => i <= j
      BY <1>4, <2>1
    <3> QED
      BY <3>1, <3>2
  <2> QED
    BY <1>1, <2>1, <2>2
<1>6. CASE nearby = NoPage
  <2>1. Closest(leaves, nearby) = 1
    BY <1>6 DEF Closest
  <2> QED
    BY <1>1, <2>1 DEF k
<1>7. CASE nearby # NoPage
  <2>1. Closest(leaves, nearby) = CHOOSE x \in DOMAIN leaves : Best(x)
    BY <1>7 DEF Closest, dist
  <2>2. \E x \in DOMAIN leaves : Best(x)
    <3> HIDE DEF Best
    <3> QED
      BY <1>1, <1>5
  <2> HIDE DEF Best
  <2>3. (CHOOSE x \in DOMAIN leaves : Best(x)) \in DOMAIN leaves
    BY <2>2
  <2> QED
    BY <1>1, <2>1, <2>3 DEF k
<1> QED
  BY <1>6, <1>7

\* s is r without what is at place w: each of its pages is at one other place of r.
Without(r, s, w, m) ==
  /\ s \in Spaces /\ s.nPage = r.nPage
  /\ \A i \in 1..Len(s.free) : Len(s.free[i].leaves) <= TrunkMax
  /\ w \in Places(r) /\ m \in [Places(s) -> Places(r)]
  /\ \A u \in Places(s) : m[u] # w /\ PageAt(s, u) = PageAt(r, m[u])
  /\ \A u, v \in Places(s) : m[u] = m[v] => u = v
  /\ \A x \in Places(r) : x # w => \E u \in Places(s) : m[u] = x

\* Then it lists all that r lists but the page at w.
LEMMA PlaceGone ==
  ASSUME NEW r, WellFormed(r), NEW s, NEW w, NEW m, Without(r, s, w, m)
  PROVE  /\ WellFormed(s) /\ OnList(s) = OnList(r) \ {PageAt(r, w)}
         /\ PageAt(r, w) \in OnList(r)
<1>0. /\ w \in Places(r) /\ m \in [Places(s) -> Places(r)] /\ s.nPage = r.nPage
      /\ \A u \in Places(s) : m[u] # w /\ PageAt(s, u) = PageAt(r, m[u])
      /\ \A u, v \in Places(s) : m[u] = m[v] => u = v
      /\ \A x \in Places(r) : x # w => \E u \in Places(s) : m[u] = x
  BY DEF Without
<1>1. \A u \in Places(r) : PageAt(r, u) \in 1..r.nPage
  BY DEF WellFormed
<1>2. \A u, v \in Places(r) : PageAt(r, u) = PageAt(r, v) => u = v
  BY DEF WellFormed
<1>3. \A u \in Places(s) : PageAt(s, u) \in 1..s.nPage
  BY <1>0, <1>1
<1>4. ASSUME NEW u \in Places(s), NEW v \in Places(s), PageAt(s, u) = PageAt(s, v) PROVE u = v
  BY <1>0, <1>2, <1>4
<1>5. WellFormed(s)
  BY <1>3, <1>4 DEF WellFormed, Without
<1>6. \A x : x \in OnList(s) => x \in OnList(r) /\ x # PageAt(r, w)
  BY <1>0, <1>2 DEF OnList
<1>7. \A x : x \in OnList(r) /\ x # PageAt(r, w) => x \in OnList(s)
  BY <1>0 DEF OnList
<1>8. PageAt(r, w) \in OnList(r)
  BY <1>0 DEF OnList
<1> QED
  BY <1>5, <1>6, <1>7, <1>8

\* Parts of a free list.
LEMMA SpaceTypes ==
  ASSUME NEW s \in Spaces
  PROVE  /\ s.free \in Seq(Trunks) /\ Len(s.free) \in Nat /\ s.nPage \in Nat
         /\ s = [free |-> s.free, nPage |-> s.nPage]
         /\ \A i \in 1..Len(s.free) : /\ s.free[i] \in Trunks /\ s.free[i].page \in Nat
                                      /\ s.free[i].leaves \in Seq(Nat)
                                      /\ Len(s.free[i].leaves) \in Nat
<1>1. s.free \in Seq(Trunks) /\ s.nPage \in Nat /\ s = [free |-> s.free, nPage |-> s.nPage]
  BY DEF Spaces
<1> DEFINE f == s.free
<1>2. f \in Seq(Trunks)
  BY <1>1
<1> HIDE DEF f
<1>3. Len(f) \in Nat /\ \A i \in 1..Len(f) : f[i] \in Trunks
  BY <1>2
<1>4. \A x \in Trunks : x.page \in Nat /\ x.leaves \in Seq(Nat) /\ Len(x.leaves) \in Nat
  BY DEF Trunks
<1> QED
  BY <1>1, <1>3, <1>4 DEF f

\* A space with another list, a trunk with other leaves.
LEMMA Replaced ==
  /\ \A s \in Spaces : \A x : [s EXCEPT !.free = x] = [free |-> x, nPage |-> s.nPage]
  /\ \A t \in Trunks : \A x : [t EXCEPT !.leaves = x] = [page |-> t.page, leaves |-> x]
  BY DEF Spaces, Trunks

\* With no free page the file grows.
LEMMA AllocateNew ==
  ASSUME NEW s, WellFormed(s), NEW nearby \in Nat, s.free = <<>>
  PROVE  LET a == Allocate(s, nearby)
         IN  /\ WellFormed(a.space) /\ OnList(a.space) = {} /\ OnList(s) = {}
             /\ a.page = s.nPage + 1 /\ a.space.nPage = s.nPage + 1
<1> DEFINE r == [free |-> <<>>, nPage |-> s.nPage + 1]
<1>1. Allocate(s, nearby) = [page |-> s.nPage + 1, space |-> r]
  BY DEF Allocate
<1>2. s.nPage \in Nat
  BY SpaceTypes DEF WellFormed
<1>3. r \in Spaces
  BY <1>2 DEF Spaces
<1>4. Places(r) = {} /\ Places(s) = {}
  BY DEF Places
<1>5. Len(r.free) = 0
  OBVIOUS
<1> HIDE DEF r
<1>6. WellFormed(r)
  BY <1>3, <1>4, <1>5 DEF WellFormed
<1>7. OnList(r) = {} /\ OnList(s) = {}
  BY <1>4 DEF OnList
<1> QED
  BY <1>1, <1>6, <1>7 DEF r

\* A trunk without leaves is taken itself.
LEMMA AllocateTrunk ==
  ASSUME NEW s, WellFormed(s), NEW nearby \in Nat, s.free # <<>>, Len(s.free[1].leaves) = 0
  PROVE  LET a == Allocate(s, nearby)
         IN  /\ WellFormed(a.space) /\ OnList(a.space) = OnList(s) \ {a.page}
             /\ a.page \in OnList(s) /\ a.space.nPage = s.nPage
<1> DEFINE f == s.free
           r == [s EXCEPT !.free = Tail(@)]
           w == <<1, 0>>
           m == [u \in Places(r) |-> <<u[1] + 1, u[2]>>]
<1>0. s \in Spaces
  BY DEF WellFormed
<1>1. Allocate(s, nearby) = [page |-> f[1].page, space |-> r]
  <2>1. Head(s.free) = s.free[1]
    BY <1>0, SpaceTypes
  <2> QED
    BY <2>1 DEF Allocate
<1>2. /\ f \in Seq(Trunks) /\ f # <<>> /\ Len(f) \in Nat /\ Len(f) >= 1 /\ s.nPage \in Nat
      /\ s = [free |-> f, nPage |-> s.nPage]
  BY <1>0, SpaceTypes
<1>3. r = [free |-> Tail(f), nPage |-> s.nPage]
  BY <1>0, Replaced
<1> HIDE DEF f
<1>4. /\ Tail(f) \in Seq(Trunks) /\ Len(Tail(f)) = Len(f) - 1
      /\ \A i \in 1..(Len(f) - 1) : Tail(f)[i] = f[i + 1]
  BY <1>2
<1>5. r \in Spaces /\ r.nPage = s.nPage /\ r.free = Tail(f)
  BY <1>2, <1>3, <1>4 DEF Spaces
<1> HIDE DEF r
<1>6. \A i \in 1..Len(r.free) : i + 1 \in 1..Len(f) /\ r.free[i] = f[i + 1]
  BY <1>2, <1>4, <1>5
<1>7. \A i \in 1..Len(r.free) : Len(r.free[i].leaves) <= TrunkMax
  BY <1>6 DEF WellFormed, f
<1>8. \A u \in Places(r) : /\ u[1] \in 1..Len(r.free) /\ u[2] \in Nat /\ u = <<u[1], u[2]>>
                           /\ u[2] <= Len(r.free[u[1]].leaves)
  BY DEF Places
<1>9. \A u \in Places(s) : /\ u[1] \in 1..Len(f) /\ u[2] \in Nat /\ u = <<u[1], u[2]>>
                           /\ u[2] <= Len(f[u[1]].leaves)
  BY DEF Places, f
<1>10. ASSUME NEW u \in Places(r) PROVE <<u[1] + 1, u[2]>> \in Places(s)
  <2>1. u[1] + 1 \in 1..Len(f) /\ u[2] \in Nat /\ u[2] <= Len(f[u[1] + 1].leaves)
    BY <1>6, <1>8
  <2> QED
    BY <2>1 DEF Places, f
<1>11. m \in [Places(r) -> Places(s)]
  BY <1>10
<1>12. ASSUME NEW u \in Places(r) PROVE m[u] # w /\ PageAt(r, u) = PageAt(s, m[u])
  <2>1. m[u] = <<u[1] + 1, u[2]>> /\ u[1] + 1 # 1
    BY <1>8
  <2>2. r.free[u[1]] = f[u[1] + 1]
    BY <1>6, <1>8
  <2> QED
    BY <2>1, <2>2 DEF PageAt, f
<1>13. ASSUME NEW u \in Places(r), NEW v \in Places(r), m[u] = m[v] PROVE u = v
  <2>1. u[1] + 1 = v[1] + 1 /\ u[2] = v[2]
    BY <1>13
  <2>2. u[1] = v[1]
    BY <1>8, <2>1
  <2> QED
    BY <1>8, <2>1, <2>2
<1>14. ASSUME NEW x \in Places(s), x # w PROVE \E u \in Places(r) : m[u] = x
  <2> DEFINE u == <<x[1] - 1, x[2]>>
  <2>1. x[1] # 1
    <3> SUFFICES ASSUME x[1] = 1 PROVE FALSE
      OBVIOUS
    <3>1. x[2] = 0
      BY <1>9 DEF f
    <3> QED
      BY <1>9, <1>14, <3>1
  <2>2. x[1] - 1 \in 1..Len(r.free) /\ (x[1] - 1) + 1 = x[1] /\ x[2] \in Nat
    BY <1>2, <1>4, <1>5, <1>9, <2>1
  <2>3. x[2] <= Len(r.free[x[1] - 1].leaves)
    BY <1>6, <1>9, <2>2
  <2>4. u \in Places(r)
    BY <2>2, <2>3 DEF Places
  <2>5. m[u] = x
    BY <1>9, <2>2, <2>4
  <2> QED
    BY <2>4, <2>5
<1>15. w \in Places(s) /\ PageAt(s, w) = f[1].page
  <2>1. 1 \in 1..Len(s.free) /\ 0 <= Len(s.free[1].leaves)
    BY <1>2 DEF f
  <2> QED
    BY <2>1 DEF Places, PageAt, f
<1> HIDE DEF m, w
<1>16. WellFormed(r) /\ OnList(r) = OnList(s) \ {PageAt(s, w)} /\ PageAt(s, w) \in OnList(s)
  <2>1. Without(s, r, w, m)
    BY <1>5, <1>7, <1>11, <1>12, <1>13, <1>14, <1>15 DEF Without
  <2> QED
    BY <2>1, PlaceGone
<1> QED
  BY <1>1, <1>5, <1>15, <1>16

\* Otherwise a leaf of the first trunk is taken, and the last leaf comes in its place.
LEMMA AllocateLeaf ==
  ASSUME NEW s, WellFormed(s), NEW nearby \in Nat, s.free # <<>>, Len(s.free[1].leaves) # 0
  PROVE  LET a == Allocate(s, nearby)
         IN  /\ WellFormed(a.space) /\ OnList(a.space) = OnList(s) \ {a.page}
             /\ a.page \in OnList(s) /\ a.space.nPage = s.nPage
<1> DEFINE f == s.free
           l == f[1].leaves
           k == Len(l)
           i == Closest(l, nearby)
           l2 == [l EXCEPT ![i] = l[k]]
           rest == SubSeq(l2, 1, k - 1)
           r == [s EXCEPT !.free[1].leaves = rest]
           w == <<1, i>>
           m == [u \in Places(r) |-> IF u = w THEN <<1, k>> ELSE u]
<1>0. s \in Spaces
  BY DEF WellFormed
<1>1. Allocate(s, nearby) = [page |-> l[i], space |-> r]
  <2>1. Head(s.free) = s.free[1]
    BY <1>0, SpaceTypes
  <2> QED
    BY <2>1 DEF Allocate
<1>2. /\ f \in Seq(Trunks) /\ Len(f) \in Nat /\ Len(f) >= 1 /\ s.nPage \in Nat /\ 1 \in 1..Len(f)
      /\ s = [free |-> f, nPage |-> s.nPage]
      /\ \A j \in 1..Len(f) : f[j] \in Trunks
  BY <1>0, SpaceTypes
<1>3. l \in Seq(Nat) /\ f[1].page \in Nat /\ f[1] = [page |-> f[1].page, leaves |-> l]
  BY <1>2 DEF Trunks
<1>4. k \in Nat /\ k >= 1 /\ l # <<>>
  BY <1>3
<1>5. i \in 1..k
  BY <1>3, <1>4, ClosestIsLeaf
<1>6. /\ rest \in Seq(Nat) /\ Len(rest) = k - 1
      /\ \A j \in 1..(k - 1) : rest[j] = IF j = i THEN l[k] ELSE l[j]
  <2> HIDE DEF l, i
  <2>1. l2 \in Seq(Nat) /\ Len(l2) = k /\ \A j \in 1..k : l2[j] = IF j = i THEN l[k] ELSE l[j]
    BY <1>3, <1>4, <1>5
  <2> HIDE DEF l2, k
  <2> QED
    BY <1>4, <2>1
<1>7. r = [free |-> [f EXCEPT ![1] = [page |-> f[1].page, leaves |-> rest]], nPage |-> s.nPage]
  <2> HIDE DEF rest
  <2>1. r = [s EXCEPT !.free = [f EXCEPT ![1] = [f[1] EXCEPT !.leaves = rest]]]
    OBVIOUS
  <2> HIDE DEF f, r
  <2>2. [f[1] EXCEPT !.leaves = rest] = [page |-> f[1].page, leaves |-> rest]
    BY <1>2, Replaced
  <2> DEFINE x == [f EXCEPT ![1] = [f[1] EXCEPT !.leaves = rest]]
  <2>3. r = [free |-> x, nPage |-> s.nPage]
    <3>1. r = [s EXCEPT !.free = x]
      BY <2>1
    <3> HIDE DEF x
    <3> QED
      BY <1>0, <3>1, Replaced
  <2> QED
    BY <2>2, <2>3
<1> HIDE DEF rest, i, k, l, f, r
<1> DEFINE t1 == [page |-> f[1].page, leaves |-> rest]
           g == [f EXCEPT ![1] = t1]
<1>8. t1 \in Trunks
  BY <1>3, <1>6 DEF Trunks
<1>9. g \in Seq(Trunks) /\ Len(g) = Len(f) /\ \A j \in 1..Len(f) : g[j] = IF j = 1 THEN t1 ELSE f[j]
  <2> HIDE DEF t1
  <2> QED
    BY <1>2, <1>8
<1>10. r \in Spaces /\ r.nPage = s.nPage /\ r.free = g
  <2>1. r = [free |-> g, nPage |-> s.nPage]
    BY <1>7
  <2> HIDE DEF g
  <2> QED
    BY <1>2, <1>9, <2>1 DEF Spaces
<1>11. /\ Len(r.free) = Len(f) /\ r.free[1].page = f[1].page /\ r.free[1].leaves = rest
       /\ \A j \in 1..Len(f) : j # 1 => r.free[j] = f[j]
  <2> HIDE DEF g
  <2> QED
    BY <1>2, <1>9, <1>10
<1> HIDE DEF t1, g
<1>12. \A j \in 1..Len(r.free) : Len(r.free[j].leaves) <= TrunkMax
  <2>1. \A j \in 1..Len(f) : Len(f[j].leaves) <= TrunkMax
    BY DEF WellFormed, f
  <2>2. Len(rest) <= TrunkMax
    <3>1. k <= TrunkMax
      BY <1>2, <2>1 DEF k, l
    <3> QED
      BY <1>4, <1>6, <3>1, FreeListAssumption
  <2> SUFFICES ASSUME NEW j \in 1..Len(f) PROVE Len(r.free[j].leaves) <= TrunkMax
    BY <1>11
  <2>3. CASE j = 1
    BY <1>11, <2>2, <2>3
  <2>4. CASE j # 1
    BY <1>11, <2>1, <2>4
  <2> QED
    BY <2>3, <2>4
<1>13. \A u \in Places(r) : /\ u[1] \in 1..Len(f) /\ u[2] \in Nat /\ u = <<u[1], u[2]>>
                            /\ u[1] = 1 => u[2] <= k - 1
                            /\ u[1] # 1 => u[2] <= Len(f[u[1]].leaves)
  BY <1>6, <1>11 DEF Places
<1>14. \A u \in Places(s) : /\ u[1] \in 1..Len(f) /\ u[2] \in Nat /\ u = <<u[1], u[2]>>
                            /\ u[1] = 1 => u[2] <= k
                            /\ u[1] # 1 => u[2] <= Len(f[u[1]].leaves)
  BY DEF Places, f, k, l
<1>15. \A a \in 1..Len(f), b \in Nat :
         /\ (IF a = 1 THEN b <= k - 1 ELSE b <= Len(f[a].leaves)) => <<a, b>> \in Places(r)
         /\ (IF a = 1 THEN b <= k ELSE b <= Len(f[a].leaves)) => <<a, b>> \in Places(s)
  <2>1. \A a \in 1..Len(f), b \in Nat :
          (IF a = 1 THEN b <= k - 1 ELSE b <= Len(f[a].leaves)) => <<a, b>> \in Places(r)
    BY <1>6, <1>11 DEF Places
  <2>2. \A a \in 1..Len(f), b \in Nat :
          (IF a = 1 THEN b <= k ELSE b <= Len(f[a].leaves)) => <<a, b>> \in Places(s)
    BY DEF Places, f, k, l
  <2> QED
    BY <2>1, <2>2
<1> HIDE DEF m
<1>16. m \in [Places(r) -> Places(s)] /\ w \in Places(s)
  <2>1. <<1, k>> \in Places(s)
    BY <1>2, <1>4, <1>15
  <2>2. w \in Places(s)
    BY <1>2, <1>4, <1>5, <1>15
  <2>3. \A u \in Places(r) : u \in Places(s)
    <3> SUFFICES ASSUME NEW u \in Places(r) PROVE u \in Places(s)
      OBVIOUS
    <3>1. /\ u[1] \in 1..Len(f) /\ u[2] \in Nat /\ u = <<u[1], u[2]>>
          /\ IF u[1] = 1 THEN u[2] <= k ELSE u[2] <= Len(f[u[1]].leaves)
      BY <1>4, <1>13
    <3>2. <<u[1], u[2]>> \in Places(s)
      BY <1>15, <3>1
    <3> QED
      BY <3>1, <3>2
  <2> QED
    BY <2>1, <2>2, <2>3 DEF m
<1>17. /\ \A u \in Places(r) : m[u] = IF u = w THEN <<1, k>> ELSE u
       /\ \A u \in Places(r) : u = <<1, k>> => FALSE
  <2>1. \A u \in Places(r) : u = <<1, k>> => FALSE
    BY <1>4, <1>13
  <2> QED
    BY <2>1 DEF m
<1>18. ASSUME NEW u \in Places(r) PROVE m[u] # w /\ PageAt(r, u) = PageAt(s, m[u])
  <2>1. CASE u = w
    <3>1. m[u] = <<1, k>> /\ u[1] = 1 /\ u[2] = i
      BY <1>17, <2>1
    <3>2. i \in 1..(k - 1)
      BY <1>4, <1>5, <1>13, <3>1
    <3>3. rest[i] = l[k] /\ i # 0 /\ k # 0 /\ i # k
      BY <1>4, <1>6, <3>2
    <3>4. PageAt(r, u) = rest[i]
      BY <1>11, <3>1, <3>3 DEF PageAt
    <3>5. PageAt(s, m[u]) = l[k]
      BY <3>1, <3>3 DEF PageAt, l, f
    <3> QED
      BY <3>1, <3>3, <3>4, <3>5
  <2>2. CASE u # w /\ u[1] = 1
    <3>1. m[u] = u /\ u[2] # i /\ u[2] \in Nat /\ u[2] <= k - 1
      BY <1>13, <1>17, <2>2
    <3>2. u[2] # 0 => rest[u[2]] = l[u[2]]
      BY <1>4, <1>6, <3>1
    <3>3. r.free[u[1]].page = f[1].page /\ r.free[u[1]].leaves = rest
      BY <1>11, <2>2
    <3>4. PageAt(r, u) = IF u[2] = 0 THEN f[1].page ELSE rest[u[2]]
      BY <3>3 DEF PageAt
    <3>5. PageAt(s, u) = IF u[2] = 0 THEN f[1].page ELSE l[u[2]]
      BY <2>2 DEF PageAt, f, l
    <3> QED
      BY <2>2, <3>1, <3>2, <3>4, <3>5
  <2>3. CASE u # w /\ u[1] # 1
    <3>1. m[u] = u /\ r.free[u[1]] = f[u[1]]
      BY <1>11, <1>13, <1>17, <2>3
    <3> QED
      BY <2>3, <3>1 DEF PageAt, f
  <2> QED
    BY <2>1, <2>2, <2>3
<1>19. ASSUME NEW u \in Places(r), NEW v \in Places(r), m[u] = m[v] PROVE u = v
  BY <1>17, <1>19
<1>20. ASSUME NEW x \in Places(s), x # w PROVE \E u \in Places(r) : m[u] = x
  <2>1. CASE x = <<1, k>>
    <3>1. i # k
      BY <1>20, <2>1
    <3>2. w \in Places(r)
      BY <1>2, <1>4, <1>5, <1>15, <3>1
    <3> QED
      BY <1>17, <2>1, <3>2
  <2>2. CASE x # <<1, k>>
    <3>1. /\ x[1] \in 1..Len(f) /\ x[2] \in Nat /\ x = <<x[1], x[2]>>
          /\ x[1] = 1 => x[2] <= k /\ x[2] # k
          /\ x[1] # 1 => x[2] <= Len(f[x[1]].leaves)
      BY <1>14, <2>2
    <3>2. IF x[1] = 1 THEN x[2] <= k - 1 ELSE x[2] <= Len(f[x[1]].leaves)
      BY <1>4, <3>1
    <3>3. <<x[1], x[2]>> \in Places(r)
      BY <1>15, <3>1, <3>2
    <3> QED
      BY <1>17, <1>20, <3>1, <3>3
  <2> QED
    BY <2>1, <2>2
<1>21. PageAt(s, w) = l[i]
  <2>1. i # 0
    BY <1>4, <1>5
  <2> QED
    BY <2>1 DEF PageAt, l, f
<1> HIDE DEF w
<1>22. WellFormed(r) /\ OnList(r) = OnList(s) \ {PageAt(s, w)} /\ PageAt(s, w) \in OnList(s)
  <2>1. Without(s, r, w, m)
    BY <1>10, <1>12, <1>16, <1>18, <1>19, <1>20 DEF Without
  <2> QED
    BY <2>1, PlaceGone
<1> QED
  BY <1>1, <1>10, <1>21, <1>22

\* allocatePage never hands out a page that is in use, and takes it off the list.  It makes the
\* file longer only when no page is free.
THEOREM AllocateTakesFree ==
  ASSUME NEW s, WellFormed(s), NEW nearby \in Nat
  PROVE  LET a == Allocate(s, nearby)
         IN  /\ WellFormed(a.space)
             /\ a.page \in Nat \ {NoPage} /\ a.page \notin InUse(s)
             /\ InUse(a.space) = InUse(s) \union {a.page}
             /\ a.space.nPage = IF OnList(s) = {} THEN s.nPage + 1 ELSE s.nPage
<1> DEFINE a == Allocate(s, nearby)
<1>1. s \in Spaces /\ s.nPage \in Nat /\ OnList(s) \subseteq 1..s.nPage
  <2>1. OnList(s) \subseteq 1..s.nPage
    BY DEF WellFormed, OnList
  <2> QED
    BY <2>1, SpaceTypes DEF WellFormed
<1>2. CASE s.free = <<>>
  <2>1. /\ WellFormed(a.space) /\ OnList(a.space) = {} /\ OnList(s) = {}
        /\ a.page = s.nPage + 1 /\ a.space.nPage = s.nPage + 1
    BY <1>2, AllocateNew
  <2> HIDE DEF a
  <2>2. InUse(s) = 1..s.nPage /\ InUse(a.space) = 1..(s.nPage + 1)
    BY <2>1 DEF InUse
  <2>3. 1..(s.nPage + 1) = (1..s.nPage) \union {s.nPage + 1} /\ s.nPage + 1 \notin 1..s.nPage
        /\ s.nPage + 1 \in Nat \ {0}
    BY <1>1
  <2> QED
    BY <2>1, <2>2, <2>3 DEF a, NoPage
<1>3. CASE s.free # <<>>
  <2>1. /\ WellFormed(a.space) /\ OnList(a.space) = OnList(s) \ {a.page}
        /\ a.page \in OnList(s) /\ a.space.nPage = s.nPage
    BY <1>3, AllocateTrunk, AllocateLeaf
  <2> HIDE DEF a
  <2>2. a.page \in 1..s.nPage /\ a.page \in Nat \ {0}
    BY <1>1, <2>1
  <2>3. InUse(a.space) = InUse(s) \union {a.page} /\ a.page \notin InUse(s)
    BY <2>1, <2>2 DEF InUse
  <2>4. OnList(s) # {}
    BY <2>1
  <2> QED
    BY <2>1, <2>2, <2>3, <2>4 DEF a, NoPage
<1> QED
  BY <1>2, <1>3

-------------------------------------------------------------------------------
(* The free list: putting pages on it.                                       *)

\* The other way round: r is s and, at place w, a page that s does not list.
LEMMA PlaceAdded ==
  ASSUME NEW s, WellFormed(s), NEW r \in Spaces, NEW w, NEW m, Without(r, s, w, m),
         \A i \in 1..Len(r.free) : Len(r.free[i].leaves) <= TrunkMax,
         PageAt(r, w) \in InUse(s)
  PROVE  WellFormed(r) /\ OnList(r) = OnList(s) \union {PageAt(r, w)}
<1>0. /\ w \in Places(r) /\ m \in [Places(s) -> Places(r)] /\ s.nPage = r.nPage
      /\ \A u \in Places(s) : m[u] # w /\ PageAt(s, u) = PageAt(r, m[u])
      /\ \A x \in Places(r) : x # w => \E u \in Places(s) : m[u] = x
  BY DEF Without
<1>1. /\ \A u \in Places(s) : PageAt(s, u) \in 1..s.nPage
      /\ \A u, v \in Places(s) : PageAt(s, u) = PageAt(s, v) => u = v
  BY DEF WellFormed
<1>2. PageAt(r, w) \in 1..s.nPage /\ \A u \in Places(s) : PageAt(s, u) # PageAt(r, w)
  BY DEF InUse, OnList
<1>3. ASSUME NEW x \in Places(r) PROVE PageAt(r, x) \in 1..r.nPage
  BY <1>0, <1>1, <1>2
<1>4. ASSUME NEW x \in Places(r), NEW y \in Places(r), PageAt(r, x) = PageAt(r, y) PROVE x = y
  <2>1. CASE x # w /\ y # w
    <3>1. PICK u \in Places(s) : m[u] = x
      BY <1>0, <2>1
    <3>2. PICK v \in Places(s) : m[v] = y
      BY <1>0, <2>1
    <3>3. PageAt(s, u) = PageAt(s, v)
      BY <1>0, <1>4, <3>1, <3>2
    <3> QED
      BY <1>1, <3>1, <3>2, <3>3
  <2>2. \A z \in Places(r) : z # w => PageAt(r, z) # PageAt(r, w)
    BY <1>0, <1>2
  <2> QED
    BY <1>0, <1>4, <2>1, <2>2
<1>5. WellFormed(r)
  BY <1>3, <1>4 DEF WellFormed
<1>6. \A z : z \in OnList(r) => z \in OnList(s) \union {PageAt(r, w)}
  BY <1>0 DEF OnList
<1>7. \A z : z \in OnList(s) \union {PageAt(r, w)} => z \in OnList(r)
  BY <1>0 DEF OnList
<1> QED
  BY <1>5, <1>6, <1>7

\* freePage puts a page on the list that was in use, and nothing else.
THEOREM FreePageLists ==
  ASSUME NEW s, WellFormed(s), NEW p \in InUse(s)
  PROVE  LET r == FreePage(s, p)
         IN  WellFormed(r) /\ InUse(r) = InUse(s) \ {p} /\ r.nPage = s.nPage
<1> DEFINE f == s.free
           r == FreePage(s, p)
           n == Len(f)
<1>0. s \in Spaces
  BY DEF WellFormed
<1>1. /\ f \in Seq(Trunks) /\ n \in Nat /\ s.nPage \in Nat /\ f = s.free
      /\ \A j \in 1..n : /\ f[j] \in Trunks /\ f[j].page \in Nat
                         /\ f[j].leaves \in Seq(Nat) /\ Len(f[j].leaves) \in Nat
  BY <1>0, SpaceTypes
<1>2. p \in 1..s.nPage /\ p \notin OnList(s) /\ p \in Nat
  BY DEF InUse
<1>3. \A j \in 1..n : Len(f[j].leaves) <= TrunkMax
  BY DEF WellFormed
<1>4. \A u \in Places(s) : /\ u[1] \in 1..n /\ u[2] \in Nat /\ u = <<u[1], u[2]>>
                           /\ u[2] <= Len(f[u[1]].leaves)
  BY DEF Places
<1>5. \A a \in 1..n, b \in Nat : b <= Len(f[a].leaves) => <<a, b>> \in Places(s)
  BY DEF Places
<1>6. (f # <<>> => n >= 1 /\ 1 \in 1..n /\ Head(f) = f[1]) /\ (n = 0 => f = <<>>)
  BY <1>1
<1> HIDE DEF f, n, r
<1>e. ASSUME NEW w, NEW m, r \in Spaces, Without(r, s, w, m), PageAt(r, w) = p,
             \A i \in 1..Len(r.free) : Len(r.free[i].leaves) <= TrunkMax
      PROVE  WellFormed(r) /\ InUse(r) = InUse(s) \ {p} /\ r.nPage = s.nPage
  <2>1. WellFormed(r) /\ OnList(r) = OnList(s) \union {PageAt(r, w)}
    BY <1>e, PlaceAdded
  <2>2. r.nPage = s.nPage
    BY <1>e DEF Without
  <2> QED
    BY <1>e, <2>1, <2>2 DEF InUse
<1>7. CASE f # <<>> /\ Len(f[1].leaves) < TrunkMax
  <2> DEFINE l == f[1].leaves
             k == Len(l)
             l2 == Append(l, p)
             t1 == [page |-> f[1].page, leaves |-> l2]
             g == [f EXCEPT ![1] = t1]
             w == <<1, k + 1>>
             m == [u \in Places(s) |-> u]
  <2>1. /\ l2 \in Seq(Nat) /\ Len(l2) = k + 1 /\ k \in Nat /\ l2[k + 1] = p
        /\ \A j \in 1..k : l2[j] = l[j]
    <3>1. l \in Seq(Nat) /\ k \in Nat
      BY <1>1, <1>6, <1>7
    <3> HIDE DEF l
    <3> QED
      BY <1>2, <3>1
  <2>2. r = [free |-> g, nPage |-> s.nPage]
    <3>1. r = [s EXCEPT !.free[1].leaves = l2]
      BY <1>1, <1>6, <1>7 DEF r, FreePage
    <3>2. r = [s EXCEPT !.free = [f EXCEPT ![1] = [f[1] EXCEPT !.leaves = l2]]]
      BY <1>1, <3>1
    <3>3. [f[1] EXCEPT !.leaves = l2] = t1
      <4> HIDE DEF l2
      <4> QED
        BY <1>1, <1>6, <1>7, Replaced
    <3> DEFINE x == [f EXCEPT ![1] = [f[1] EXCEPT !.leaves = l2]]
    <3>4. r = [free |-> x, nPage |-> s.nPage]
      <4>1. r = [s EXCEPT !.free = x]
        BY <3>2
      <4> HIDE DEF x
      <4> QED
        BY <1>0, <4>1, Replaced
    <3> QED
      BY <3>3, <3>4
  <2> HIDE DEF k, l2
  <2>3. t1 \in Trunks
    BY <1>1, <1>6, <1>7, <2>1 DEF Trunks
  <2>4. g \in Seq(Trunks) /\ Len(g) = n /\ \A j \in 1..n : g[j] = IF j = 1 THEN t1 ELSE f[j]
    <3>1. Len(f) \in Nat /\ 1 \in 1..Len(f) /\ f \in Seq(Trunks)
      BY <1>1, <1>6, <1>7 DEF n
    <3> HIDE DEF t1
    <3> QED
      BY <2>3, <3>1 DEF n
  <2>5. t1.page = f[1].page /\ t1.leaves = l2
    OBVIOUS
  <2> HIDE DEF g, t1
  <2>6. r \in Spaces /\ r.free = g /\ r.nPage = s.nPage
    BY <1>1, <2>2, <2>4 DEF Spaces
  <2>7. /\ Len(r.free) = n /\ r.free[1].page = f[1].page /\ r.free[1].leaves = l2
        /\ \A j \in 1..n : j # 1 => r.free[j] = f[j]
    BY <1>6, <1>7, <2>4, <2>5, <2>6
  <2>8. \A j \in 1..Len(r.free) : Len(r.free[j].leaves) <= TrunkMax
    <3>1. Len(l2) <= TrunkMax
      BY <1>7, <2>1, FreeListAssumption DEF k
    <3> SUFFICES ASSUME NEW j \in 1..n PROVE Len(r.free[j].leaves) <= TrunkMax
      BY <2>7
    <3> QED
      BY <1>3, <2>7, <3>1
  <2>9. \A u \in Places(r) : /\ u[1] \in 1..n /\ u[2] \in Nat /\ u = <<u[1], u[2]>>
                             /\ u[1] = 1 => u[2] <= k + 1
                             /\ u[1] # 1 => u[2] <= Len(f[u[1]].leaves)
    BY <2>1, <2>7 DEF Places
  <2>10. \A a \in 1..n, b \in Nat :
           (IF a = 1 THEN b <= k + 1 ELSE b <= Len(f[a].leaves)) => <<a, b>> \in Places(r)
    BY <2>1, <2>7 DEF Places
  <2> HIDE DEF l
  <2>11. w \in Places(r)
    BY <1>6, <1>7, <2>1, <2>10
  <2>12. ASSUME NEW u \in Places(s)
         PROVE  u \in Places(r) /\ u # w /\ PageAt(s, u) = PageAt(r, u)
    <3>1. /\ u[1] \in 1..n /\ u[2] \in Nat /\ u = <<u[1], u[2]>> /\ u[2] <= Len(f[u[1]].leaves)
      BY <1>4
    <3>2. CASE u[1] = 1
      <4>1. u[2] <= k
        BY <3>1, <3>2 DEF k, l
      <4>2. <<u[1], u[2]>> \in Places(r)
        BY <2>1, <2>10, <3>1, <3>2, <4>1
      <4>3. u[2] # k + 1
        BY <2>1, <3>1, <4>1
      <4>4. u[2] # 0 => l2[u[2]] = l[u[2]]
        BY <2>1, <3>1, <4>1
      <4>5. PageAt(r, u) = IF u[2] = 0 THEN f[1].page ELSE l2[u[2]]
        BY <2>7, <3>2 DEF PageAt
      <4>6. PageAt(s, u) = IF u[2] = 0 THEN f[1].page ELSE l[u[2]]
        BY <1>1, <3>2 DEF PageAt, l
      <4> QED
        BY <3>1, <4>2, <4>3, <4>4, <4>5, <4>6
    <3>3. CASE u[1] # 1
      <4>1. <<u[1], u[2]>> \in Places(r)
        BY <2>10, <3>1, <3>3
      <4>2. r.free[u[1]] = f[u[1]]
        BY <2>7, <3>1, <3>3
      <4>3. u \in Places(r) /\ u # w
        BY <3>1, <3>3, <4>1
      <4>4. PageAt(s, u) = PageAt(r, u)
        BY <1>1, <4>2 DEF PageAt
      <4> QED
        BY <4>3, <4>4
    <3> QED
      BY <3>2, <3>3
  <2>13. ASSUME NEW x \in Places(r), x # w PROVE x \in Places(s)
    <3>1. /\ x[1] \in 1..n /\ x[2] \in Nat /\ x = <<x[1], x[2]>>
          /\ x[1] = 1 => x[2] <= k + 1 /\ x[2] # k + 1
          /\ x[1] # 1 => x[2] <= Len(f[x[1]].leaves)
      BY <2>9, <2>13
    <3>2. x[2] <= Len(f[x[1]].leaves)
      BY <2>1, <3>1 DEF k, l
    <3> QED
      BY <1>5, <3>1, <3>2
  <2>14. PageAt(r, w) = p
    <3>1. k + 1 # 0
      BY <2>1
    <3> QED
      BY <2>1, <2>7, <3>1 DEF PageAt
  <2>15. m \in [Places(s) -> Places(r)] /\ \A u \in Places(s) : m[u] = u
    BY <2>12
  <2> HIDE DEF m, w
  <2>16. Without(r, s, w, m)
    <3>1. s.nPage = r.nPage /\ \A i \in 1..Len(s.free) : Len(s.free[i].leaves) <= TrunkMax
      BY <2>6 DEF WellFormed
    <3> QED
      BY <1>0, <2>11, <2>12, <2>13, <2>15, <3>1 DEF Without
  <2> QED
    BY <1>e, <2>6, <2>8, <2>14, <2>16 DEF r
<1>8. CASE ~(f # <<>> /\ Len(f[1].leaves) < TrunkMax)
  <2> DEFINE t1 == [page |-> p, leaves |-> <<>>]
             g == <<t1>> \o f
             w == <<1, 0>>
             m == [u \in Places(s) |-> <<u[1] + 1, u[2]>>]
  <2>1. r = [free |-> g, nPage |-> s.nPage]
    <3>1. r = [s EXCEPT !.free = g]
      BY <1>1, <1>6, <1>8 DEF r, FreePage
    <3> HIDE DEF g
    <3> QED
      BY <1>0, <3>1, Replaced
  <2>2. t1 \in Trunks /\ t1.page = p /\ t1.leaves = <<>> /\ Len(t1.leaves) = 0
    BY <1>2 DEF Trunks
  <2> HIDE DEF t1
  <2>3. g \in Seq(Trunks) /\ Len(g) = n + 1 /\ g[1] = t1 /\ \A j \in 1..n : g[j + 1] = f[j]
    BY <1>1, <2>2 DEF n
  <2> HIDE DEF g
  <2>4. r \in Spaces /\ r.free = g /\ r.nPage = s.nPage
    BY <1>1, <2>1, <2>3 DEF Spaces
  <2>5. /\ Len(r.free) = n + 1 /\ r.free[1].page = p /\ Len(r.free[1].leaves) = 0
        /\ \A j \in 1..n : r.free[j + 1] = f[j]
    BY <2>2, <2>3, <2>4
  <2>6. \A i \in 1..(n + 1) : i # 1 => i - 1 \in 1..n /\ r.free[i] = f[i - 1]
    <3> SUFFICES ASSUME NEW i \in 1..(n + 1), i # 1 PROVE i - 1 \in 1..n /\ r.free[i] = f[i - 1]
      OBVIOUS
    <3>1. i - 1 \in 1..n /\ (i - 1) + 1 = i
      BY <1>1
    <3>2. r.free[(i - 1) + 1] = f[i - 1]
      BY <2>5, <3>1
    <3> QED
      BY <3>1, <3>2
  <2>7. \A j \in 1..Len(r.free) : Len(r.free[j].leaves) <= TrunkMax
    <3> SUFFICES ASSUME NEW j \in 1..(n + 1) PROVE Len(r.free[j].leaves) <= TrunkMax
      BY <2>5
    <3>1. CASE j = 1
      BY <2>5, <3>1, FreeListAssumption
    <3>2. CASE j # 1
      BY <1>3, <2>6, <3>2
    <3> QED
      BY <3>1, <3>2
  <2>8. w \in Places(r) /\ PageAt(r, w) = p
    <3>1. 1 \in 1..Len(r.free) /\ 0 <= Len(r.free[1].leaves)
      BY <1>1, <2>5
    <3> QED
      BY <2>5, <3>1 DEF Places, PageAt
  <2>9. ASSUME NEW u \in Places(s)
        PROVE  /\ <<u[1] + 1, u[2]>> \in Places(r) /\ <<u[1] + 1, u[2]>> # w
               /\ PageAt(s, u) = PageAt(r, <<u[1] + 1, u[2]>>)
    <3>1. /\ u[1] \in 1..n /\ u[2] \in Nat /\ u[2] <= Len(f[u[1]].leaves)
      BY <1>4
    <3>2. u[1] + 1 \in 1..Len(r.free) /\ r.free[u[1] + 1] = f[u[1]] /\ u[1] + 1 # 1
      <4>1. n \in Nat /\ Len(r.free) = n + 1 /\ \A j \in 1..n : r.free[j + 1] = f[j]
        BY <1>1, <2>5
      <4>2. r.free[u[1] + 1] = f[u[1]]
        BY <3>1, <4>1
      <4> QED
        BY <3>1, <4>1, <4>2
    <3> QED
      BY <1>1, <3>1, <3>2 DEF Places, PageAt
  <2>10. ASSUME NEW x \in Places(r), x # w
         PROVE  <<x[1] - 1, x[2]>> \in Places(s) /\ <<(x[1] - 1) + 1, x[2]>> = x
    <3>1. /\ x[1] \in 1..(n + 1) /\ x[2] \in Nat /\ x = <<x[1], x[2]>>
          /\ x[2] <= Len(r.free[x[1]].leaves)
      BY <2>5 DEF Places
    <3>2. x[1] # 1
      <4> SUFFICES ASSUME x[1] = 1 PROVE FALSE
        OBVIOUS
      <4>1. x[2] = 0
        BY <2>5, <3>1
      <4> QED
        BY <2>10, <3>1, <4>1
    <3>3. x[1] - 1 \in 1..n /\ r.free[x[1]] = f[x[1] - 1] /\ (x[1] - 1) + 1 = x[1]
      BY <1>1, <2>6, <3>1, <3>2
    <3> QED
      BY <1>5, <3>1, <3>3
  <2>11. m \in [Places(s) -> Places(r)] /\ \A u \in Places(s) : m[u] = <<u[1] + 1, u[2]>>
    BY <2>9
  <2>12. \A u, v \in Places(s) : m[u] = m[v] => u = v
    <3> SUFFICES ASSUME NEW u \in Places(s), NEW v \in Places(s), m[u] = m[v] PROVE u = v
      OBVIOUS
    <3> HIDE DEF m
    <3>1. u[1] + 1 = v[1] + 1 /\ u[2] = v[2]
      BY <2>11
    <3>2. u[1] = v[1]
      BY <1>4, <3>1
    <3> QED
      BY <1>4, <3>1, <3>2
  <2>13. ASSUME NEW x \in Places(r), x # w PROVE \E u \in Places(s) : m[u] = x
    <3> DEFINE u == <<x[1] - 1, x[2]>>
    <3>1. u \in Places(s) /\ <<u[1] + 1, u[2]>> = x
      BY <2>10, <2>13
    <3> HIDE DEF m, u
    <3> QED
      BY <2>11, <3>1
  <2> HIDE DEF m, w
  <2>14. Without(r, s, w, m)
    <3>1. s.nPage = r.nPage /\ \A i \in 1..Len(s.free) : Len(s.free[i].leaves) <= TrunkMax
      BY <2>4 DEF WellFormed
    <3> QED
      BY <1>0, <2>8, <2>9, <2>11, <2>12, <2>13, <3>1 DEF Without
  <2> QED
    BY <1>e, <2>4, <2>7, <2>8, <2>14 DEF r
<1> QED
  BY <1>7, <1>8

\* The first k pages of a sequence.
PagesOf(ps, k) == {ps[i] : i \in 1..k}

\* FreeAll puts all pages of an overflow chain, or of a table that is emptied, on the
\* list, each once.
THEOREM FreeAllLists ==
  ASSUME NEW s, WellFormed(s), NEW ps \in Seq(InUse(s)),
         \A i, j \in 1..Len(ps) : ps[i] = ps[j] => i = j
  PROVE  LET r == FreeAll(s, ps)
         IN  WellFormed(r) /\ InUse(r) = InUse(s) \ PagesOf(ps, Len(ps)) /\ r.nPage = s.nPage
<1> DEFINE n == Len(ps)
           Step(f, m) == \A k \in 0..m : f[k] = IF k = 0 THEN s ELSE FreePage(f[k - 1], ps[k])
           Rec(f, m) == f = [k \in 0..m |-> IF k = 0 THEN s ELSE FreePage(f[k - 1], ps[k])]
           E == {m \in 0..n : \E f : Rec(f, m)}
           after == CHOOSE f : Rec(f, n)
           Good(k) == /\ WellFormed(after[k]) /\ after[k].nPage = s.nPage
                      /\ InUse(after[k]) = InUse(s) \ PagesOf(ps, k)
           T == {k \in 0..n : Good(k)}
<1>1. n \in Nat /\ \A i \in 1..n : ps[i] \in InUse(s)
  OBVIOUS
<1>2. FreeAll(s, ps) = after[n]
  BY DEF FreeAll
<1> HIDE DEF n
<1>3. 0 \in E
  <2> DEFINE f == [k \in 0..0 |-> s]
  <2>1. Rec(f, 0)
    OBVIOUS
  <2>2. 0 \in 0..n
    BY <1>1
  <2> HIDE DEF f, Rec
  <2> QED
    BY <2>1, <2>2
<1>4. ASSUME NEW m \in 0..n, m \in E, m < n PROVE m + 1 \in E
  <2>1. PICK f : Rec(f, m)
    BY <1>4
  <2> DEFINE x == FreePage(f[m], ps[m + 1])
             g == [k \in 0..(m + 1) |-> IF k = m + 1 THEN x ELSE f[k]]
  <2>2. \A k \in 0..m : f[k] = IF k = 0 THEN s ELSE FreePage(f[k - 1], ps[k])
    BY <2>1
  <2>3. ASSUME NEW k \in 0..(m + 1) PROVE g[k] = IF k = 0 THEN s ELSE FreePage(g[k - 1], ps[k])
    <3>1. CASE k = m + 1
      <4>1. g[k] = x /\ g[m] = f[m] /\ k # 0 /\ k - 1 = m
        BY <3>1
      <4> HIDE DEF g
      <4> QED
        BY <3>1, <4>1
    <3>2. CASE k # m + 1
      <4>1. k \in 0..m /\ (k # 0 => k - 1 \in 0..(m + 1) /\ k - 1 # m + 1)
        BY <3>2
      <4>2. g[k] = f[k] /\ (k # 0 => g[k - 1] = f[k - 1])
        BY <3>2, <4>1
      <4> HIDE DEF g
      <4> QED
        BY <2>2, <4>1, <4>2
    <3> QED
      BY <3>1, <3>2
  <2>4. Rec(g, m + 1)
    <3>1. g = [k \in 0..(m + 1) |-> g[k]]
      OBVIOUS
    <3> HIDE DEF g
    <3> QED
      BY <2>3, <3>1
  <2>5. m + 1 \in 0..n
    BY <1>1, <1>4
  <2> HIDE DEF g, Rec
  <2> QED
    BY <2>4, <2>5
<1>5. n \in E
  <2>1. 0 \in Int /\ n \in Int /\ n \in 0..n
    BY <1>1
  <2> HIDE DEF E
  <2>2. \A k \in 0..n : k \in E
    BY <1>3, <1>4, <2>1, Upward
  <2> QED
    BY <2>1, <2>2
<1>6. \A k \in 0..n : after[k] = IF k = 0 THEN s ELSE FreePage(after[k - 1], ps[k])
  <2>1. Rec(after, n)
    <3> HIDE DEF Rec
    <3> QED
      BY <1>5
  <2> HIDE DEF after
  <2> QED
    BY <2>1
<1> HIDE DEF after, E
<1>7. 0 \in T
  <2>1. 0 \in 0..n /\ after[0] = s
    BY <1>1, <1>6
  <2>2. PagesOf(ps, 0) = {}
    BY DEF PagesOf
  <2> QED
    BY <2>1, <2>2
<1>8. ASSUME NEW k \in 0..n, k \in T, k < n PROVE k + 1 \in T
  <2>1. k + 1 \in 1..n /\ k + 1 \in 0..n /\ k + 1 # 0 /\ (k + 1) - 1 = k /\ 1..k \subseteq 1..n
    BY <1>1, <1>8
  <2>2. Good(k)
    BY <1>8
  <2>3. after[k + 1] = FreePage(after[k], ps[k + 1])
    BY <1>6, <2>1
  <2>4. ps[k + 1] \in InUse(s) /\ ps[k + 1] \notin PagesOf(ps, k)
    <3>1. ASSUME NEW i \in 1..k PROVE ps[i] # ps[k + 1]
      <4>1. i \in 1..n /\ i # k + 1
        BY <2>1
      <4> QED
        BY <2>1, <4>1 DEF n
    <3> QED
      BY <1>1, <2>1, <3>1 DEF PagesOf
  <2>5. ps[k + 1] \in InUse(after[k])
    BY <2>2, <2>4
  <2>6. /\ WellFormed(after[k + 1]) /\ after[k + 1].nPage = s.nPage
        /\ InUse(after[k + 1]) = InUse(after[k]) \ {ps[k + 1]}
    BY <2>2, <2>3, <2>5, FreePageLists
  <2>7. PagesOf(ps, k + 1) = PagesOf(ps, k) \union {ps[k + 1]}
    <3>1. 1..(k + 1) = (1..k) \union {k + 1}
      BY <1>8
    <3> QED
      BY <3>1 DEF PagesOf
  <2> QED
    BY <2>1, <2>2, <2>6, <2>7
<1>9. n \in T
  <2>1. 0 \in Int /\ n \in Int /\ n \in 0..n
    BY <1>1
  <2> HIDE DEF T
  <2>2. \A k \in 0..n : k \in T
    BY <1>7, <1>8, <2>1, Upward
  <2> QED
    BY <2>1, <2>2
<1> QED
  BY <1>2, <1>9 DEF n

\* AllocateMany takes n different pages, none of them in use before.
THEOREM AllocateManyTakesFree ==
  ASSUME NEW s, WellFormed(s), NEW n \in Nat, NEW nearby \in Nat
  PROVE  LET a == AllocateMany(s, n, nearby)
         IN  /\ WellFormed(a.space)
             /\ a.pages \in Seq(Nat) /\ Len(a.pages) = n
             /\ \A i, j \in 1..n : a.pages[i] = a.pages[j] => i = j
             /\ \A i \in 1..n : a.pages[i] \notin InUse(s)
             /\ InUse(a.space) = InUse(s) \union PagesOf(a.pages, n)
<1> DEFINE More(y, k) ==
             LET a == Allocate(y.space, IF k = 1 THEN nearby ELSE y.pages[k - 1])
             IN  [pages |-> Append(y.pages, a.page), space |-> a.space]
           start == [pages |-> <<>>, space |-> s]
           Rec(f, m) == f = [k \in 0..m |-> IF k = 0 THEN start ELSE More(f[k - 1], k)]
           E == {m \in 0..n : \E f : Rec(f, m)}
           after == CHOOSE f : Rec(f, n)
           Good(y, k) ==
             /\ WellFormed(y.space) /\ y.pages \in Seq(Nat) /\ Len(y.pages) = k
             /\ \A i, j \in 1..k : y.pages[i] = y.pages[j] => i = j
             /\ \A i \in 1..k : y.pages[i] \notin InUse(s)
             /\ InUse(y.space) = InUse(s) \union PagesOf(y.pages, k)
           T == {k \in 0..n : Good(after[k], k)}
<1>2. AllocateMany(s, n, nearby) = after[n]
  BY DEF AllocateMany
<1>k. ASSUME NEW y, NEW k \in Nat, Good(y, k) PROVE Good(More(y, k + 1), k + 1)
  <2> DEFINE near == IF k + 1 = 1 THEN nearby ELSE y.pages[(k + 1) - 1]
             a == Allocate(y.space, near)
             ps == y.pages
             q == Append(ps, a.page)
             z == [pages |-> q, space |-> a.space]
  <2>1. near \in Nat
    <3>1. CASE k = 0
      BY <3>1
    <3>2. CASE k # 0
      <4>1. k \in 1..k /\ (k + 1) - 1 = k /\ k + 1 # 1
        BY <3>2
      <4>2. ps \in Seq(Nat) /\ Len(ps) = k
        BY <1>k
      <4> HIDE DEF ps
      <4>3. ps[k] \in Nat
        BY <4>1, <4>2
      <4> QED
        BY <4>1, <4>3 DEF ps
    <3> QED
      BY <3>1, <3>2
  <2> HIDE DEF near
  <2>2. /\ WellFormed(a.space) /\ a.page \in Nat /\ a.page \notin InUse(y.space)
        /\ InUse(a.space) = InUse(y.space) \union {a.page}
    BY <1>k, <2>1, AllocateTakesFree
  <2> HIDE DEF a
  <2>3. ps \in Seq(Nat) /\ Len(ps) = k
    BY <1>k
  <2>4. /\ \A i, j \in 1..k : ps[i] = ps[j] => i = j
        /\ \A i \in 1..k : ps[i] \notin InUse(s)
        /\ InUse(y.space) = InUse(s) \union PagesOf(ps, k)
    BY <1>k
  <2> HIDE DEF ps
  <2>5. /\ q \in Seq(Nat) /\ Len(q) = k + 1 /\ q[k + 1] = a.page /\ \A i \in 1..k : q[i] = ps[i]
    BY <2>2, <2>3
  <2> HIDE DEF q
  <2>6. 1..(k + 1) = (1..k) \union {k + 1}
    OBVIOUS
  <2>7. \A i \in 1..k : ps[i] # a.page
    BY <2>2, <2>4 DEF PagesOf
  <2>8. \A i, j \in 1..(k + 1) : q[i] = q[j] => i = j
    BY <2>4, <2>5, <2>6, <2>7
  <2>9. \A i \in 1..(k + 1) : q[i] \notin InUse(s)
    BY <2>2, <2>4, <2>5, <2>6
  <2>10. PagesOf(q, k + 1) = PagesOf(ps, k) \union {a.page}
    BY <2>5, <2>6 DEF PagesOf
  <2>11. InUse(a.space) = InUse(s) \union PagesOf(q, k + 1)
    BY <2>2, <2>4, <2>10
  <2>12. Good(z, k + 1)
    BY <2>2, <2>5, <2>8, <2>9, <2>11
  <2>13. More(y, k + 1) = z
    BY DEF a, near, q, ps
  <2> HIDE DEF Good, More, z
  <2> QED
    BY <2>12, <2>13
<1>s. Good(start, 0)
  <2>1. PagesOf(<<>>, 0) = {}
    BY DEF PagesOf
  <2> QED
    BY <2>1
<1> HIDE DEF More, start, Good
<1>3. 0 \in E
  <2> DEFINE f == [k \in 0..0 |-> start]
  <2>1. Rec(f, 0)
    OBVIOUS
  <2>2. 0 \in 0..n
    OBVIOUS
  <2> HIDE DEF f, Rec
  <2> QED
    BY <2>1, <2>2
<1>4. ASSUME NEW m \in 0..n, m \in E, m < n PROVE m + 1 \in E
  <2>1. PICK f : Rec(f, m)
    BY <1>4
  <2> DEFINE g == [k \in 0..(m + 1) |-> IF k = m + 1 THEN More(f[m], m + 1) ELSE f[k]]
  <2>2. \A k \in 0..m : f[k] = IF k = 0 THEN start ELSE More(f[k - 1], k)
    BY <2>1
  <2>3. ASSUME NEW k \in 0..(m + 1) PROVE g[k] = IF k = 0 THEN start ELSE More(g[k - 1], k)
    <3>1. CASE k = m + 1
      <4>1. g[k] = More(f[m], m + 1) /\ g[m] = f[m] /\ k # 0 /\ k - 1 = m
        BY <3>1
      <4> HIDE DEF g
      <4> QED
        BY <3>1, <4>1
    <3>2. CASE k # m + 1
      <4>1. k \in 0..m /\ (k # 0 => k - 1 \in 0..(m + 1) /\ k - 1 # m + 1)
        BY <3>2
      <4>2. g[k] = f[k] /\ (k # 0 => g[k - 1] = f[k - 1])
        BY <3>2, <4>1
      <4> HIDE DEF g
      <4> QED
        BY <2>2, <4>1, <4>2
    <3> QED
      BY <3>1, <3>2
  <2>4. Rec(g, m + 1)
    <3>1. g = [k \in 0..(m + 1) |-> g[k]]
      OBVIOUS
    <3> HIDE DEF g
    <3> QED
      BY <2>3, <3>1
  <2>5. m + 1 \in 0..n
    BY <1>4
  <2> HIDE DEF g, Rec
  <2> QED
    BY <2>4, <2>5
<1>5. n \in E
  <2>1. 0 \in Int /\ n \in Int /\ n \in 0..n
    OBVIOUS
  <2> HIDE DEF E
  <2>2. \A k \in 0..n : k \in E
    BY <1>3, <1>4, <2>1, Upward
  <2> QED
    BY <2>1, <2>2
<1>6. \A k \in 0..n : after[k] = IF k = 0 THEN start ELSE More(after[k - 1], k)
  <2>1. Rec(after, n)
    <3> HIDE DEF Rec
    <3> QED
      BY <1>5
  <2> HIDE DEF after
  <2> QED
    BY <2>1
<1> HIDE DEF after, E
<1>7. 0 \in T
  <2>1. 0 \in 0..n /\ after[0] = start
    BY <1>6
  <2> QED
    BY <1>s, <2>1
<1>8. ASSUME NEW k \in 0..n, k \in T, k < n PROVE k + 1 \in T
  <2>1. k \in Nat /\ k + 1 \in 0..n /\ k + 1 # 0 /\ (k + 1) - 1 = k
    BY <1>8
  <2>2. after[k + 1] = More(after[k], k + 1)
    BY <1>6, <2>1
  <2>3. Good(after[k], k)
    BY <1>8
  <2> QED
    BY <1>k, <2>1, <2>2, <2>3
<1>9. n \in T
  <2>1. 0 \in Int /\ n \in Int /\ n \in 0..n
    OBVIOUS
  <2> HIDE DEF T
  <2>2. \A k \in 0..n : k \in T
    BY <1>7, <1>8, <2>1, Upward
  <2> QED
    BY <2>1, <2>2
<1> QED
  BY <1>2, <1>9 DEF Good

-------------------------------------------------------------------------------
(* The pages of the new siblings.                                            *)

\* The numbers 1 to n are n.
LEMMA UpTo ==
  ASSUME NEW n \in Nat
  PROVE  IsFiniteSet(1..n) /\ Cardinality(1..n) = n
BY FS_Interval

\* Ascending(I) goes through I once, upwards: the rank of a number in I is a
\* bijection from I to 1..Cardinality(I).
LEMMA AscendingFacts ==
  ASSUME NEW I \in SUBSET Nat, IsFiniteSet(I)
  PROVE  /\ Cardinality(I) \in Nat
         /\ Ascending(I) \in [1..Cardinality(I) -> I]
         /\ \A k, l \in 1..Cardinality(I) : k < l => Ascending(I)[k] < Ascending(I)[l]
         /\ \A i \in I : \E k \in 1..Cardinality(I) : Ascending(I)[k] = i
<1> DEFINE n == Cardinality(I)
           upto(i) == {j \in I : j <= i}
           rank == [i \in I |-> Cardinality(upto(i))]
<1>1. n \in Nat
  BY FS_CardinalityType
<1>2. \A i \in I : IsFiniteSet(upto(i)) /\ rank[i] \in 1..n
  <2> TAKE i \in I
  <2>1. IsFiniteSet(upto(i)) /\ Cardinality(upto(i)) <= n
    BY FS_Subset, upto(i) \in SUBSET I
  <2>2. i \in upto(i)
    OBVIOUS
  <2>3. Cardinality(upto(i)) \in Nat /\ Cardinality(upto(i)) # 0
    BY <2>1, <2>2, FS_CardinalityType, FS_EmptySet
  <2> QED
    BY <1>1, <2>1, <2>3
<1>3. \A i, j \in I : i < j => rank[i] < rank[j]
  <2> SUFFICES ASSUME NEW i \in I, NEW j \in I, i < j
               PROVE  Cardinality(upto(i)) < Cardinality(upto(j))
    OBVIOUS
  <2>0. i \in Nat /\ j \in Nat
    OBVIOUS
  <2>1. upto(i) \in SUBSET upto(j) /\ j \in upto(j) /\ j \notin upto(i)
    <3>1. \A m \in I : m \in Nat
      OBVIOUS
    <3>2. \A m \in upto(i) : m \in upto(j)
      BY <2>0, <3>1
    <3>3. j \in upto(j) /\ j \notin upto(i)
      BY <2>0
    <3> QED
      BY <3>2, <3>3
  <2>2. Cardinality(upto(i)) <= Cardinality(upto(j)) /\ Cardinality(upto(i)) # Cardinality(upto(j))
    BY <1>2, <2>1, FS_Subset
  <2>3. Cardinality(upto(i)) \in Nat /\ Cardinality(upto(j)) \in Nat
    BY <1>2, FS_CardinalityType
  <2> QED
    BY <2>2, <2>3
<1>4. rank \in Injection(I, 1..n)
  <2>1. rank \in [I -> 1..n]
    BY <1>2
  <2>2. \A i, j \in I : rank[i] = rank[j] => i = j
    <3> TAKE i, j \in I
    <3> HAVE rank[i] = rank[j]
    <3>1. rank[i] \in 1..n /\ i \in Nat /\ j \in Nat
      BY <1>2
    <3>2. ~(i < j) /\ ~(j < i)
      BY <1>1, <1>3, <3>1
    <3> QED
      BY <3>1, <3>2
  <2> HIDE DEF rank
  <2> QED
    BY <2>1, <2>2 DEF Injection, IsInjective
<1>5. \A k \in 1..n : \E i \in I : rank[i] = k
  <2>1. IsFiniteSet(1..n) /\ Cardinality(1..n) = n
    BY <1>1, UpTo
  <2>2. rank \in Surjection(I, 1..n)
    BY <1>4, <2>1, FS_Injection
  <2> QED
    BY <2>2 DEF Surjection
<1>6. \A k \in 1..n : Ascending(I)[k] \in I /\ rank[Ascending(I)[k]] = k
  <2> TAKE k \in 1..n
  <2>1. PICK i \in I : Cardinality(upto(i)) = k
    BY <1>5
  <2>2. Ascending(I)[k] = CHOOSE j \in I : Cardinality(upto(j)) = k
    BY DEF Ascending
  <2> QED
    BY <2>1, <2>2
<1>7. Ascending(I) \in [1..n -> I]
  BY <1>6 DEF Ascending
<1>8. \A k, l \in 1..n : k < l => Ascending(I)[k] < Ascending(I)[l]
  <2> SUFFICES ASSUME NEW k \in 1..n, NEW l \in 1..n, k < l
               PROVE  Ascending(I)[k] < Ascending(I)[l]
    OBVIOUS
  <2> DEFINE a == Ascending(I)[k]  b == Ascending(I)[l]
  <2>1. a \in I /\ b \in I /\ rank[a] = k /\ rank[b] = l
    BY <1>6
  <2> HIDE DEF a, b, rank
  <2>2. a # b /\ ~(b < a)
    BY <1>1, <1>3, <2>1
  <2>3. a < b
    BY <2>1, <2>2
  <2> QED
    BY <2>3 DEF a, b
<1>9. \A i \in I : \E k \in 1..n : Ascending(I)[k] = i
  <2> TAKE i \in I
  <2>1. rank[i] \in 1..n
    BY <1>2
  <2>2. Ascending(I)[rank[i]] \in I /\ rank[Ascending(I)[rank[i]]] = rank[i]
    BY <1>6, <2>1
  <2> HIDE DEF rank
  <2>3. Ascending(I)[rank[i]] = i
    BY <1>4, <2>2 DEF Injection, IsInjective
  <2> QED
    BY <2>1, <2>3
<1> QED
  BY <1>1, <1>7, <1>8, <1>9

\* Two sequences of pages in a row.
LEMMA Joined ==
  ASSUME NEW a \in Seq(Nat), NEW b \in Seq(Nat)
  PROVE  /\ a \o b \in [1..(Len(a) + Len(b)) -> Nat]
         /\ Len(a \o b) = Len(a) + Len(b)
         /\ \A i \in 1..Len(a) : (a \o b)[i] = a[i]
         /\ \A i \in 1..Len(b) : (a \o b)[i + Len(a)] = b[i]
<1> DEFINE t == a \o b
           h == Len(a)
           n == Len(b)
<1>1. t \in Seq(Nat) /\ h \in Nat /\ n \in Nat
  OBVIOUS
<1>2. Len(t) = h + n
  OBVIOUS
<1>3. \A i \in 1..(h + n) : t[i] = IF i <= h THEN a[i] ELSE b[i - h]
  OBVIOUS
<1> HIDE DEF t, h, n
<1>4. t \in [1..(h + n) -> Nat]
  BY <1>1, <1>2
<1>5. \A i \in 1..h : t[i] = a[i]
  BY <1>1, <1>3
<1>6. ASSUME NEW i \in 1..n PROVE t[i + h] = b[i]
  <2>1. i + h \in 1..(h + n) /\ ~(i + h <= h) /\ (i + h) - h = i
    BY <1>1
  <2> QED
    BY <1>3, <2>1
<1> QED
  BY <1>1, <1>2, <1>4, <1>5, <1>6 DEF t, h, n

\* SiblingPages: the new siblings have k pages, which are old ones or were free; the
\* other old ones are free now, and nothing else has changed.
THEOREM SiblingsTakePages ==
  ASSUME NEW s, WellFormed(s), NEW old \in Seq(InUse(s)), old # <<>>,
         \A i, j \in 1..Len(old) : old[i] = old[j] => i = j,
         NEW k \in Nat \ {0}
  PROVE  LET r == SiblingPages(s, old, k)
             others == InUse(s) \ PagesOf(old, Len(old))
         IN  /\ WellFormed(r.space)
             /\ r.pages \in [1..k -> Nat]
             /\ \A i, j \in 1..k : i < j => r.pages[i] < r.pages[j]
             /\ \A i \in 1..k : r.pages[i] \notin others
             /\ InUse(r.space) = others \union PagesOf(r.pages, k)
<1> DEFINE m == Len(old)
           h == IF k < m THEN k ELSE m
           kept == SubSeq(old, 1, h)
           n == k - Len(kept)
           new == AllocateMany(s, n, kept[Len(kept)])
           all == kept \o new.pages
           rest == SubSeq(old, k + 1, m)
           I == {all[i] : i \in 1..Len(all)}
           U == InUse(s)
           V == InUse(new.space)
<1>1. m \in Nat /\ m >= 1 /\ \A i \in 1..m : old[i] \in U /\ old[i] \in Nat
  <2>1. U \in SUBSET Nat
    BY DEF InUse, WellFormed, Spaces
  <2>2. old \in Seq(U)
    OBVIOUS
  <2> HIDE DEF U
  <2>3. Len(old) \in Nat /\ Len(old) # 0 /\ \A i \in 1..Len(old) : old[i] \in U
    BY <2>2
  <2>4. m \in Nat /\ m >= 1
    BY <2>3
  <2>5. \A x \in U : x \in Nat
    BY <2>1
  <2> HIDE DEF m
  <2> QED
    BY <2>3, <2>4, <2>5 DEF m
<1>2. /\ h \in 1..m /\ h <= k /\ k \in Nat
      /\ kept \in Seq(U) /\ Len(kept) = h /\ \A i \in 1..h : kept[i] = old[i]
  <2>1. h \in 1..m /\ h <= k /\ k \in Nat
    BY <1>1
  <2>2. old \in Seq(U) /\ 1 \in 1..(m + 1) /\ h \in 0..m
    BY <1>1, <2>1
  <2> HIDE DEF U, h
  <2>3. kept \in Seq(U) /\ Len(kept) = h /\ \A i \in 1..h : kept[i] = old[i]
    BY <1>1, <2>1, <2>2
  <2> QED
    BY <2>1, <2>3
<1>3. n \in Nat /\ h + n = k /\ kept[Len(kept)] \in Nat
  BY <1>1, <1>2
<1> HIDE DEF h, kept, n
<1>4. /\ WellFormed(new.space)
      /\ new.pages \in Seq(Nat) /\ Len(new.pages) = n
      /\ \A i, j \in 1..n : new.pages[i] = new.pages[j] => i = j
      /\ \A i \in 1..n : new.pages[i] \notin U
      /\ V = U \union PagesOf(new.pages, n)
  BY <1>3, AllocateManyTakesFree
<1> DEFINE np == new.pages
<1> HIDE DEF new, V
\* The pages not needed.
<1>5. /\ rest \in Seq(V)
      /\ Len(rest) = IF k < m THEN m - k ELSE 0
      /\ \A i \in 1..Len(rest) : i + k \in 1..m /\ rest[i] = old[i + k]
  <2>1. old \in Seq(U) /\ U \subseteq V /\ k \in Nat /\ m \in Nat
    BY <1>1, <1>2, <1>4
  <2> HIDE DEF U
  <2>2. old \in Seq(V) /\ Len(old) = m
    BY <2>1
  <2>3. CASE k < m
    <3>1. k + 1 \in 1..m /\ (m - (k + 1)) + 1 = m - k /\ m - k \in Nat
      BY <2>1, <2>3
    <3>2. /\ rest \in Seq(V) /\ Len(rest) = m - k
          /\ \A i \in 1..(m - k) : rest[i] = old[(k + 1) + i - 1]
      BY <2>1, <2>2, <3>1
    <3>3. \A i \in 1..(m - k) : (k + 1) + i - 1 = i + k /\ i + k \in 1..m
      BY <2>1, <2>3
    <3> QED
      BY <2>3, <3>2, <3>3
  <2>4. CASE ~(k < m)
    <3>1. rest = <<>>
      BY <2>1, <2>4
    <3> QED
      BY <2>4, <3>1
  <2> QED
    BY <2>3, <2>4
<1>6. \A i, j \in 1..Len(rest) : rest[i] = rest[j] => i = j
  <2> SUFFICES ASSUME NEW i \in 1..Len(rest), NEW j \in 1..Len(rest), rest[i] = rest[j]
               PROVE  i = j
    OBVIOUS
  <2>1. i + k \in 1..m /\ j + k \in 1..m /\ old[i + k] = old[j + k]
    BY <1>5
  <2>2. i + k = j + k /\ i \in Int /\ j \in Int /\ k \in Int
    BY <1>2, <2>1
  <2> QED
    BY <2>2
<1> DEFINE last == FreeAll(new.space, rest)
<1>7. WellFormed(last) /\ InUse(last) = V \ PagesOf(rest, Len(rest))
  BY <1>4, <1>5, <1>6, FreeAllLists DEF V
<1>8. SiblingPages(s, old, k) = [pages |-> Ascending(I), space |-> last]
  BY DEF SiblingPages, new, n, kept, h
<1> HIDE DEF rest, last
\* The pages of the new siblings.
<1>9. /\ Len(all) = k /\ all \in [1..k -> Nat]
      /\ \A i \in 1..h : all[i] = old[i]
      /\ \A i \in 1..n : all[i + h] = np[i]
  <2>1. /\ kept \in Seq(Nat) /\ np \in Seq(Nat) /\ Len(kept) = h /\ Len(np) = n
        /\ h \in Nat /\ n \in Nat /\ h + n = k
    <3>1. U \in SUBSET Nat
      BY DEF InUse, WellFormed, Spaces
    <3> HIDE DEF U
    <3>2. kept \in Seq(Nat)
      <4>1. \A X, Y : X \subseteq Y => Seq(X) \subseteq Seq(Y)
        OBVIOUS
      <4> QED
        BY <1>2, <3>1, <4>1
    <3>3. np \in Seq(Nat) /\ Len(np) = n
      BY <1>4
    <3> QED
      BY <1>1, <1>2, <1>3, <3>2, <3>3
  <2>2. all = kept \o np
    OBVIOUS
  <2> HIDE DEF np, all
  <2>3. /\ all \in [1..(h + n) -> Nat] /\ Len(all) = h + n
        /\ \A i \in 1..h : all[i] = kept[i]
        /\ \A i \in 1..n : all[i + h] = np[i]
    <3>1. /\ kept \o np \in [1..(Len(kept) + Len(np)) -> Nat]
          /\ Len(kept \o np) = Len(kept) + Len(np)
          /\ \A i \in 1..Len(kept) : (kept \o np)[i] = kept[i]
          /\ \A i \in 1..Len(np) : (kept \o np)[i + Len(kept)] = np[i]
      BY <2>1, Joined
    <3> QED
      BY <2>1, <2>2, <3>1
  <2> QED
    BY <1>2, <2>1, <2>3
<1> HIDE DEF all, np
<1>10. \A i \in 1..k : \/ i \in 1..h /\ all[i] = old[i] /\ old[i] \in U
                       \/ /\ i \notin 1..h /\ i - h \in 1..n /\ (i - h) + h = i
                          /\ all[i] = np[i - h] /\ np[i - h] \notin U
  <2> SUFFICES ASSUME NEW i \in 1..k, i \notin 1..h
               PROVE  /\ i - h \in 1..n /\ (i - h) + h = i
                      /\ all[i] = np[i - h] /\ np[i - h] \notin U
    BY <1>1, <1>2, <1>9
  <2>1. i - h \in 1..n /\ (i - h) + h = i
    BY <1>2, <1>3
  <2> QED
    BY <1>4, <1>9, <2>1 DEF np
<1> HIDE DEF U
<1>11. \A i, j \in 1..k : all[i] = all[j] => i = j
  <2> SUFFICES ASSUME NEW i \in 1..k, NEW j \in 1..k, all[i] = all[j] PROVE i = j
    OBVIOUS
  <2>1. CASE i \in 1..h /\ j \in 1..h
    BY <1>1, <1>2, <1>9, <2>1
  <2>2. CASE i \notin 1..h /\ j \notin 1..h
    <3>1. /\ i - h \in 1..n /\ j - h \in 1..n /\ (i - h) + h = i /\ (j - h) + h = j
          /\ np[i - h] = np[j - h]
      BY <1>10, <2>2
    <3>2. i - h = j - h
      BY <1>4, <3>1 DEF np
    <3> QED
      BY <3>1, <3>2
  <2> QED
    BY <1>10, <2>1, <2>2
<1>12. I \in SUBSET Nat /\ IsFiniteSet(I) /\ Cardinality(I) = k
  <2>1. I = {all[i] : i \in 1..k}
    BY <1>9
  <2>2. all \in Bijection(1..k, I)
    <3> HIDE DEF I
    <3>1. all \in [1..k -> I] /\ \A x \in I : \E i \in 1..k : all[i] = x
      BY <1>9, <2>1
    <3> QED
      BY <1>11, <3>1 DEF Bijection, Injection, Surjection, IsInjective
  <2>3. IsFiniteSet(1..k) /\ Cardinality(1..k) = k
    BY <1>2, UpTo
  <2>4. I \in SUBSET Nat
    BY <1>9, <2>1
  <2> HIDE DEF I
  <2> QED
    BY <2>2, <2>3, <2>4, FS_Bijection DEF ExistsBijection
<1> DEFINE ps == Ascending(I)
<1> HIDE DEF I
<1>13. /\ ps \in [1..k -> I]
       /\ \A i, j \in 1..k : i < j => ps[i] < ps[j]
       /\ \A x \in I : \E i \in 1..k : ps[i] = x
  BY <1>12, AscendingFacts
<1> HIDE DEF ps
<1>14. PagesOf(ps, k) = I
  BY <1>13 DEF PagesOf
\* What is in use then.
<1> DEFINE R == PagesOf(rest, Len(rest))
           O == PagesOf(old, m)
           N == PagesOf(np, n)
<1>15. \A x : x \in R <=> \E i \in 1..m : ~(i \in 1..h) /\ x = old[i]
  <2>1. ASSUME NEW x \in R PROVE \E i \in 1..m : ~(i \in 1..h) /\ x = old[i]
    <3>1. PICK i \in 1..Len(rest) : x = rest[i]
      BY <2>1 DEF PagesOf
    <3>2. i + k \in 1..m /\ x = old[i + k]
      BY <1>5, <3>1 DEF rest
    <3>3. ~(i + k \in 1..h)
      BY <1>2
    <3> QED
      BY <3>2, <3>3
  <2>2. ASSUME NEW i \in 1..m, ~(i \in 1..h) PROVE old[i] \in R
    <3>1. k < m /\ h = k /\ i - k \in 1..(m - k) /\ (i - k) + k = i
      BY <1>1, <1>2, <2>2 DEF h
    <3>2. Len(rest) = m - k /\ \A j \in 1..Len(rest) : rest[j] = old[j + k]
      BY <1>5, <3>1 DEF rest
    <3>3. rest[i - k] = old[i]
      BY <3>1, <3>2
    <3> QED
      BY <3>1, <3>2, <3>3 DEF PagesOf
  <2> HIDE DEF R
  <2> QED
    BY <2>1, <2>2
<1>16. \A x : x \in O <=> \E i \in 1..m : x = old[i]
  BY DEF PagesOf
<1>17. \A x : x \in N <=> \E i \in 1..n : x = np[i]
  BY DEF PagesOf
<1>18. \A x : x \in I <=> \E i \in 1..k : x = all[i]
  BY <1>9 DEF I
<1>19. \A x : x \in I <=> x \in N \/ \E i \in 1..h : x = old[i]
  <2>1. ASSUME NEW x, x \in I PROVE x \in N \/ \E i \in 1..h : x = old[i]
    BY <1>10, <1>17, <1>18, <2>1
  <2>2. ASSUME NEW i \in 1..h PROVE old[i] \in I
    <3>1. i \in 1..k
      BY <1>2
    <3> QED
      BY <1>9, <1>18, <3>1
  <2>3. ASSUME NEW i \in 1..n PROVE np[i] \in I
    <3>1. i + h \in 1..k
      BY <1>2, <1>3
    <3> QED
      BY <1>9, <1>18, <3>1
  <2> HIDE DEF N
  <2> QED
    BY <1>17, <2>1, <2>2, <2>3
<1>20. InUse(last) = (V \ R) /\ V = U \union N /\ \A x \in N : x \notin U
  <2>1. InUse(last) = (V \ R)
    BY <1>7 DEF R
  <2>2. V = U \union N
    BY <1>4 DEF np
  <2>3. \A i \in 1..n : np[i] \notin U
    BY <1>4 DEF np
  <2> HIDE DEF N
  <2> QED
    BY <1>17, <2>1, <2>2, <2>3
<1> HIDE DEF R, O, N
<1>21. \A i \in 1..h : i \in 1..m
  BY <1>2
<1>22. \A x \in I : x \notin U \ O
  BY <1>16, <1>19, <1>20, <1>21
<1>23. InUse(last) = (U \ O) \union I
  <2>1. \A x \in R : x \in U /\ x \in O /\ x \notin I
    <3> SUFFICES ASSUME NEW i \in 1..m, ~(i \in 1..h)
                 PROVE  old[i] \in U /\ old[i] \in O /\ old[i] \notin I
      BY <1>15
    <3>1. old[i] \in U /\ old[i] \in O
      BY <1>1, <1>16
    <3>2. ~\E j \in 1..h : old[i] = old[j]
      BY <1>21
    <3> QED
      BY <1>19, <1>20, <3>1, <3>2
  <2>2. \A x \in O : x \in R \/ x \in I
    BY <1>15, <1>16, <1>19
  <2>3. \A x \in I : x \in U \/ x \in N
    BY <1>1, <1>19, <1>21
  <2>4. \A x \in N : x \in I
    BY <1>19
  <2> QED
    BY <1>20, <2>1, <2>2, <2>3, <2>4
<1>24. \A i \in 1..k : ps[i] \in I
  BY <1>13
<1>25. ps \in [1..k -> Nat]
  <2> HIDE DEF I
  <2> QED
    BY <1>12, <1>13
<1> QED
  <2>1. SiblingPages(s, old, k).pages = ps /\ SiblingPages(s, old, k).space = last
    BY <1>8 DEF ps
  <2>2. WellFormed(last)
    BY <1>7
  <2> QED
    BY <1>13, <1>14, <1>22, <1>23, <1>24, <1>25, <2>1, <2>2 DEF U, O
===============================================================================
