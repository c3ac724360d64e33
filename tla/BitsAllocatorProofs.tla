------------------------ MODULE BitsAllocatorProofs ------------------------
(***************************************************************************)
(* Proofs about BitsAllocator, for every width of a long and every layout  *)
(* of it: allocate() keeps the order of the fields, parseUID() recovers    *)
(* them, and worker ids keep uids apart.                                   *)
(*                                                                         *)
(* Powers of two and the operators on bits are recursive functions.  That  *)
(* these exist, and what they compute, is proved by induction first.  Then *)
(* `or` of fields that share no bit is their sum, so that a uid is a       *)
(* number in positional notation, wrapped to the width of a long.          *)
(***************************************************************************)
EXTENDS BitsAllocator, WellFoundedInduction, TLAPS

-----------------------------------------------------------------------------
(* Induction and recursion over the naturals *)

\* Induction, of sets rather than of predicates.
LEMMA Induction ==
  ASSUME NEW S, 0 \in S, \A n \in Nat : n \in S => n + 1 \in S
  PROVE  Nat \subseteq S
  <1> SUFFICES ASSUME Nat \ S # {} PROVE FALSE
    OBVIOUS
  <1>1. PICK n \in Nat \ S : \A m \in Nat \ S : ~(<<m, n>> \in OpToRel(<, Nat))
    <2> DEFINE T == Nat \ S
    <2>1. T \subseteq Nat /\ T # {}
      OBVIOUS
    <2>2. \E n \in T : \A m \in T : ~(<<m, n>> \in OpToRel(<, Nat))
      <3> HIDE DEF T
      <3> QED BY <2>1, NatLessThanWellFounded, WFMin, Zenon
    <2> QED BY <2>2
  <1>2. n # 0 /\ n - 1 \in Nat
    OBVIOUS
  <1>3. n - 1 \notin S
    <2>1. n - 1 \in S => n - 1 + 1 \in S
      BY <1>2
    <2>2. n - 1 + 1 = n
      OBVIOUS
    <2> QED BY <2>1, <2>2
  <1>4. ~(<<n - 1, n>> \in OpToRel(<, Nat))
    BY <1>1, <1>2, <1>3
  <1> QED BY <1>2, <1>4 DEF OpToRel

\* The function over the naturals that begins with `a`, and in which each value is a
\* step from the one before.
Follows(f, V, a, step) ==
  f \in [Nat -> V] /\ f[0] = a /\ \A n \in Nat : f[n + 1] = step[f[n]]

\* There is one, for every beginning and every step.
LEMMA Recursion ==
  ASSUME NEW V, NEW a \in V, NEW step \in [V -> V]
  PROVE  \E f : Follows(f, V, a, step)
  <1> DEFINE Begun(n, f) ==
               /\ f \in [0 .. n -> V]
               /\ \A i \in 0 .. n : f[i] = IF i = 0 THEN a ELSE step[f[i - 1]]
             S == {n \in Nat : \E f : Begun(n, f)}
  <1>1. 0 \in S
    <2> DEFINE f == [i \in 0 .. 0 |-> a]
    <2>1. Begun(0, f)
      OBVIOUS
    <2> QED BY <2>1
  <1>2. ASSUME NEW n \in Nat, n \in S PROVE n + 1 \in S
    <2>1. PICK f : Begun(n, f)
      BY <1>2
    <2> DEFINE g == [i \in 0 .. n + 1 |-> IF i = n + 1 THEN step[f[n]] ELSE f[i]]
    <2>2. f[n] \in V
      BY <2>1
    <2>3. g \in [0 .. n + 1 -> V]
      BY <2>1, <2>2
    <2>4. ASSUME NEW i \in 0 .. n + 1 PROVE g[i] = IF i = 0 THEN a ELSE step[g[i - 1]]
      <3>1. CASE i = n + 1
        <4>1. g[i] = step[f[n]] /\ i - 1 = n /\ g[n] = f[n]
          BY <3>1
        <4> QED BY <3>1, <4>1
      <3>2. CASE i \in 1 .. n
        <4>1. g[i] = f[i] /\ i - 1 \in 0 .. n /\ g[i - 1] = f[i - 1]
          BY <3>2
        <4> QED BY <2>1, <3>2, <4>1
      <3>3. CASE i = 0
        BY <2>1, <3>3
      <3> QED BY <3>1, <3>2, <3>3
    <2>5. Begun(n + 1, g)
      BY <2>3, <2>4
    <2> HIDE DEF Begun, g
    <2> QED BY <2>5
  <1>3. \A n \in Nat : \E f : Begun(n, f)
    <2> HIDE DEF Begun
    <2>1. Nat \subseteq S
      <3>1. \A n \in Nat : n \in S => n + 1 \in S
        BY <1>2
      <3> HIDE DEF S
      <3> QED BY <1>1, <3>1, Induction
    <2> QED BY <2>1
  <1>4. ASSUME NEW m \in Nat, NEW n \in Nat, NEW f, NEW g, Begun(m, f), Begun(n, g)
        PROVE  \A i \in 0 .. m : i <= n => f[i] = g[i]
    <2> DEFINE T == {i \in Nat : i <= m /\ i <= n => f[i] = g[i]}
    <2>1. 0 \in T
      BY <1>4
    <2>2. \A i \in Nat : i \in T => i + 1 \in T
      <3> SUFFICES ASSUME NEW i \in Nat, i \in T, i + 1 <= m, i + 1 <= n
                   PROVE  f[i + 1] = g[i + 1]
        OBVIOUS
      <3>1. f[i] = g[i]
        OBVIOUS
      <3>2. f[i + 1] = step[f[i]] /\ g[i + 1] = step[g[i]]
        BY <1>4
      <3> QED BY <3>1, <3>2
    <2>3. Nat \subseteq T
      <3> HIDE DEF T
      <3> QED BY <2>1, <2>2, Induction
    <2> QED BY <2>3
  <1> DEFINE part == [n \in Nat |-> CHOOSE f : Begun(n, f)]
             F == [n \in Nat |-> part[n][n]]
  <1>5. \A n \in Nat : Begun(n, part[n])
    <2> HIDE DEF Begun
    <2> QED BY <1>3
  <1>6. F \in [Nat -> V]
    BY <1>5
  <1>7. ASSUME NEW n \in Nat PROVE F[n] = IF n = 0 THEN a ELSE step[F[n - 1]]
    <2>1. CASE n = 0
      <3>1. Begun(0, part[0])
        <4> HIDE DEF Begun, part
        <4> QED BY <1>5
      <3>2. part[0][0] = a
        <4> HIDE DEF part
        <4> QED BY <3>1
      <3> QED BY <2>1, <3>2
    <2>2. CASE n # 0
      <3>1. n - 1 \in Nat /\ n - 1 <= n
        BY <2>2
      <3>2. Begun(n - 1, part[n - 1]) /\ Begun(n, part[n])
        BY <1>5, <3>1
      <3>3. part[n - 1][n - 1] = part[n][n - 1]
        <4> HIDE DEF Begun, part
        <4> QED BY <1>4, <3>1, <3>2
      <3>4. part[n][n] = step[part[n][n - 1]]
        <4> HIDE DEF part
        <4> QED BY <2>2, <3>2
      <3> QED BY <2>2, <3>1, <3>3, <3>4
    <2> QED BY <2>1, <2>2
  <1> HIDE DEF F
  <1>8. F[0] = a /\ \A n \in Nat : F[n + 1] = step[F[n]]
    BY <1>7
  <1> QED BY <1>6, <1>8 DEF Follows

-----------------------------------------------------------------------------
(* Powers of two *)

\* pow2 is such a function: a power doubles the one before.
LEMMA Pow2IsRecursive ==
  /\ pow2 \in [Nat -> Nat]
  /\ pow2[0] = 1
  /\ \A n \in Nat : pow2[n + 1] = 2 * pow2[n]
  <1> DEFINE Is(f) == f = [n \in Nat |-> IF n = 0 THEN 1 ELSE 2 * f[n - 1]]
             double == [v \in Nat |-> 2 * v]
  <1>1. PICK f \in [Nat -> Nat] : f[0] = 1 /\ \A n \in Nat : f[n + 1] = double[f[n]]
    <2> DEFINE V == Nat
               one == 1
    <2>1. double \in [V -> V] /\ one \in V
      OBVIOUS
    <2> HIDE DEF double, V, one
    <2>2. \E f : Follows(f, V, one, double)
      BY <2>1, Recursion
    <2> QED BY <2>2 DEF V, one, Follows
  <1>2. Is(f)
    <2>1. \A n \in Nat : f[n] = IF n = 0 THEN 1 ELSE 2 * f[n - 1]
      <3> SUFFICES ASSUME NEW n \in Nat \ {0} PROVE f[n] = 2 * f[n - 1]
        BY <1>1
      <3>1. n - 1 \in Nat /\ n - 1 + 1 = n
        OBVIOUS
      <3>2. f[n - 1] \in Nat /\ f[n - 1 + 1] = double[f[n - 1]]
        BY <1>1, <3>1
      <3> QED BY <3>1, <3>2
    <2> QED BY <1>1, <2>1
  <1>3. Is(pow2)
    <2>1. pow2 = CHOOSE g : Is(g)
      BY DEF pow2
    <2> HIDE DEF Is
    <2> QED BY <1>2, <2>1
  <1>4. \A n \in Nat : pow2[n] = IF n = 0 THEN 1 ELSE 2 * pow2[n - 1]
    BY <1>3
  <1>5. pow2[0] = 1 /\ \A n \in Nat : pow2[n + 1] = 2 * pow2[n]
    BY <1>4
  <1>6. \A n \in Nat : pow2[n] \in Nat
    <2> DEFINE S == {n \in Nat : pow2[n] \in Nat}
    <2>1. 0 \in S /\ \A n \in Nat : n \in S => n + 1 \in S
      BY <1>5
    <2>2. Nat \subseteq S
      <3> HIDE DEF S
      <3> QED BY <2>1, Induction
    <2> QED BY <2>2
  <1>7. pow2 \in [Nat -> Nat]
    BY <1>3, <1>6
  <1> QED BY <1>5, <1>7

\* Powers are positive.
LEMMA Pow2IsPositive == \A n \in Nat : pow2[n] \in Nat \ {0}
  <1> DEFINE S == {n \in Nat : pow2[n] \in Nat \ {0}}
  <1>1. 0 \in S /\ \A n \in Nat : n \in S => n + 1 \in S
    BY Pow2IsRecursive
  <1>2. Nat \subseteq S
    <2> HIDE DEF S
    <2> QED BY <1>1, Induction
  <1> QED BY <1>2

\* The power of a sum is the product of powers.
LEMMA Pow2OfSum ==
  ASSUME NEW m \in Nat, NEW n \in Nat PROVE pow2[m + n] = pow2[m] * pow2[n]
  <1> DEFINE S == {k \in Nat : pow2[m + k] = pow2[m] * pow2[k]}
  <1>1. 0 \in S
    BY Pow2IsRecursive
  <1>2. ASSUME NEW k \in Nat, k \in S PROVE k + 1 \in S
    <2>1. pow2[m + k + 1] = 2 * pow2[m + k] /\ pow2[k + 1] = 2 * pow2[k]
      BY Pow2IsRecursive
    <2>2. pow2[m + k] = pow2[m] * pow2[k]
      BY <1>2
    <2>3. pow2[m] \in Nat /\ pow2[k] \in Nat
      BY Pow2IsRecursive
    <2>4. 2 * (pow2[m] * pow2[k]) = pow2[m] * (2 * pow2[k])
      BY <2>3
    <2>5. m + (k + 1) = m + k + 1
      OBVIOUS
    <2> QED BY <2>1, <2>2, <2>4, <2>5
  <1>3. Nat \subseteq S
    <2> HIDE DEF S
    <2> QED BY <1>1, <1>2, Induction
  <1> QED BY <1>3

\* A larger power is twice as large at least.
LEMMA Pow2Grows ==
  ASSUME NEW m \in Nat, NEW n \in Nat, m < n PROVE 2 * pow2[m] <= pow2[n]
  <1>1. n - m - 1 \in Nat /\ (m + 1) + (n - m - 1) = n
    OBVIOUS
  <1>2. pow2[n] = pow2[m + 1] * pow2[n - m - 1]
    BY <1>1, Pow2OfSum
  <1>3. pow2[m + 1] = 2 * pow2[m] /\ pow2[m + 1] \in Nat \ {0} /\ pow2[n - m - 1] \in Nat \ {0}
    BY <1>1, Pow2IsRecursive, Pow2IsPositive
  <1>4. \A a, b \in Nat \ {0} : a <= a * b
    OBVIOUS
  <1> QED BY <1>2, <1>3, <1>4

-----------------------------------------------------------------------------
(* Division *)

\* Quotient and remainder are the only ones there are.
LEMMA Division ==
  ASSUME NEW p \in Nat \ {0}, NEW q \in Int, NEW r \in 0 .. p - 1
  PROVE  (q * p + r) \div p = q /\ (q * p + r) % p = r
  <1> DEFINE x == q * p + r
             k == x \div p
  <1>1. k \in Int /\ x \in Int /\ x % p \in 0 .. p - 1 /\ x = p * k + (x % p)
    OBVIOUS
  <1> HIDE DEF k
  <1>2. p * (k - q) = r - (x % p)
    BY <1>1
  <1>3. ~(k - q >= 1)
    <2> SUFFICES ASSUME k - q >= 1 PROVE FALSE
      OBVIOUS
    <2>1. p * (k - q) >= p
      BY <1>1
    <2> QED BY <1>1, <1>2, <2>1
  <1>4. ~(k - q <= -1)
    <2> SUFFICES ASSUME k - q <= -1 PROVE FALSE
      OBVIOUS
    <2>1. p * (k - q) <= -p
      BY <1>1
    <2> QED BY <1>1, <1>2, <2>1
  <1>5. k = q
    BY <1>1, <1>3, <1>4
  <1>6. x % p = r
    BY <1>1, <1>5
  <1> QED BY <1>5, <1>6 DEF k

\* Every integer is a quotient and a remainder.
LEMMA Quotient ==
  ASSUME NEW p \in Nat \ {0}, NEW x \in Int
  PROVE  x \div p \in Int /\ x % p \in 0 .. p - 1 /\ x = (x \div p) * p + (x % p)
  OBVIOUS

\* A multiple of the divisor does not change the remainder.
LEMMA SameRemainder ==
  ASSUME NEW p \in Nat \ {0}, NEW x \in Int, NEW k \in Int
  PROVE  (x + k * p) % p = x % p
  <1> DEFINE q == x \div p
             r == x % p
  <1>1. q \in Int /\ r \in 0 .. p - 1 /\ x = q * p + r
    BY Quotient
  <1> HIDE DEF q, r
  <1>2. x + k * p = (q + k) * p + r /\ q + k \in Int
    BY <1>1
  <1>3. ((q + k) * p + r) % p = r
    BY <1>1, <1>2, Division
  <1> QED BY <1>2, <1>3 DEF r

\* A factor of a number and of the divisor is one of the remainder.
LEMMA RemainderOfProduct ==
  ASSUME NEW p \in Nat \ {0}, NEW n \in Nat \ {0}, NEW x \in Int
  PROVE  (x * p) % (n * p) = (x % n) * p
  <1> DEFINE q == x \div n
             r == x % n
  <1>1. q \in Int /\ r \in 0 .. n - 1 /\ x = q * n + r
    BY Quotient
  <1> HIDE DEF q, r
  <1>2. x * p = q * (n * p) + r * p
    BY <1>1
  <1>3. n * p \in Nat \ {0}
    OBVIOUS
  <1>4. r * p \in 0 .. n * p - 1
    <2>1. r * p \in Nat
      BY <1>1
    <2>2. (n - 1 - r) * p >= 0
      BY <1>1
    <2>3. r * p <= (n - 1) * p
      BY <1>1, <2>2
    <2>4. (n - 1) * p = n * p - p
      OBVIOUS
    <2> QED BY <1>3, <2>1, <2>3, <2>4
  <1>5. (q * (n * p) + r * p) % (n * p) = r * p
    BY <1>1, <1>3, <1>4, Division
  <1> QED BY <1>2, <1>5 DEF r

-----------------------------------------------------------------------------
(* Bits *)

\* Halving takes the lowest bit away.
LEMMA Halves ==
  /\ \A x \in Nat : x \div 2 \in Nat /\ x % 2 \in {0, 1} /\ x = 2 * (x \div 2) + (x % 2)
  /\ \A h \in Int : (2 * h) \div 2 = h /\ (2 * h) % 2 = 0
  /\ \A h \in Int : (2 * h + 1) \div 2 = h /\ (2 * h + 1) % 2 = 1
  OBVIOUS

\* A bit put below a number.
LEMMA NextIsNatural == ASSUME NEW a \in Nat, NEW b \in Nat PROVE 2 * a + b \in Nat
  OBVIOUS

\* What is made bit by bit exists.
LEMMA BitsRecursion ==
  ASSUME NEW half \in [Nat -> Nat], NEW bit \in [Nat -> [Nat -> Nat]]
  PROVE  \E f \in [Nat -> [Nat -> [Nat -> Nat]]] :
           \A x, y \in Nat :
             /\ f[0][x][y] = 0
             /\ \A n \in Nat : f[n + 1][x][y] = 2 * f[n][half[x]][half[y]] + bit[x][y]
  <1> DEFINE V == [Nat -> [Nat -> Nat]]
             zero == [x \in Nat |-> [y \in Nat |-> 0]]
             next(h, x, y) == 2 * h[half[x]][half[y]] + bit[x][y]
             step == [h \in V |-> [x \in Nat |-> [y \in Nat |-> next(h, x, y)]]]
  <1>1. zero \in V
    OBVIOUS
  <1>2. ASSUME NEW h \in V, NEW x \in Nat, NEW y \in Nat PROVE next(h, x, y) \in Nat
    <2>1. half[x] \in Nat /\ half[y] \in Nat
      OBVIOUS
    <2>2. h[half[x]] \in [Nat -> Nat]
      BY <2>1
    <2>3. h[half[x]][half[y]] \in Nat
      BY <2>1, <2>2
    <2>4. bit[x] \in [Nat -> Nat]
      OBVIOUS
    <2>5. bit[x][y] \in Nat
      BY <2>4
    <2> HIDE DEF V
    <2> QED BY <2>3, <2>5, NextIsNatural
  <1>3. step \in [V -> V]
    <2>1. ASSUME NEW h \in V PROVE [x \in Nat |-> [y \in Nat |-> next(h, x, y)]] \in V
      <3> HIDE DEF next
      <3>1. \A x \in Nat : [y \in Nat |-> next(h, x, y)] \in [Nat -> Nat]
        BY <1>2
      <3> QED BY <3>1
    <2> HIDE DEF V, next
    <2> QED BY <2>1
  <1>4. PICK f \in [Nat -> V] : f[0] = zero /\ \A n \in Nat : f[n + 1] = step[f[n]]
    <2> HIDE DEF V, zero, step, next
    <2>1. zero \in V /\ step \in [V -> V]
      BY <1>1, <1>3
    <2>2. \E f : Follows(f, V, zero, step)
      BY <2>1, Recursion
    <2> QED BY <2>2 DEF Follows
  <1>5. ASSUME NEW x \in Nat, NEW y \in Nat
        PROVE  /\ f[0][x][y] = 0
               /\ \A n \in Nat : f[n + 1][x][y] = next(f[n], x, y)
    <2>1. f[0][x][y] = 0
      BY <1>4
    <2>2. ASSUME NEW n \in Nat PROVE f[n + 1][x][y] = next(f[n], x, y)
      <3>1. f[n] \in V /\ f[n + 1] = step[f[n]]
        <4> HIDE DEF V, step
        <4> QED BY <1>4
      <3> HIDE DEF V, next
      <3>2. step[f[n]] = [u \in Nat |-> [v \in Nat |-> next(f[n], u, v)]]
        BY <3>1
      <3> HIDE DEF step
      <3> QED BY <3>1, <3>2
    <2> QED BY <2>1, <2>2
  <1> QED BY <1>4, <1>5

\* The function inside of `bitwise`, which combines the lowest n bits ...
Lowest(table, f) ==
  f = [n \in Nat |-> [x \in Nat |-> [y \in Nat |->
        IF n = 0 THEN 0
        ELSE 2 * f[n - 1][x \div 2][y \div 2] + table[x % 2][y % 2]]]]

\* ... is the one its definition says.
LEMMA BitwiseIsRecursive ==
  ASSUME NEW table \in [{0, 1} -> [{0, 1} -> Nat]]
  PROVE  LET lowest == CHOOSE f : Lowest(table, f)
         IN  \A x, y \in Nat :
               /\ lowest[0][x][y] = 0
               /\ \A n \in Nat : lowest[n + 1][x][y]
                    = 2 * lowest[n][x \div 2][y \div 2] + table[x % 2][y % 2]
  <1> DEFINE half == [x \in Nat |-> x \div 2]
             low(x, y) == table[x % 2][y % 2]
             lowest == CHOOSE f : Lowest(table, f)
             bit == [x \in Nat |-> [y \in Nat |-> low(x, y)]]
             body(f, n, x, y) ==
               IF n = 0 THEN 0 ELSE 2 * f[n - 1][x \div 2][y \div 2] + low(x, y)
             Is(f) == f = [n \in Nat |-> [x \in Nat |-> [y \in Nat |-> body(f, n, x, y)]]]
  <1>1. half \in [Nat -> Nat] /\ bit \in [Nat -> [Nat -> Nat]]
    BY Halves
  <1>2. \A x, y \in Nat : half[x] = x \div 2 /\ half[y] = y \div 2 /\ bit[x][y] = low(x, y)
    OBVIOUS
  <1>3. PICK f \in [Nat -> [Nat -> [Nat -> Nat]]] :
          \A x, y \in Nat :
             /\ f[0][x][y] = 0
             /\ \A n \in Nat : f[n + 1][x][y] = 2 * f[n][half[x]][half[y]] + bit[x][y]
    <2> HIDE DEF half, bit
    <2> QED BY <1>1, BitsRecursion
  <1> HIDE DEF half, bit, low, lowest
  <1>4. ASSUME NEW n \in Nat, NEW x \in Nat, NEW y \in Nat
        PROVE  f[n][x][y] = body(f, n, x, y)
    <2>1. CASE n = 0
      BY <1>3, <2>1
    <2>2. CASE n # 0
      <3>1. n - 1 \in Nat /\ n - 1 + 1 = n
        BY <2>2
      <3>2. f[n - 1 + 1][x][y] = 2 * f[n - 1][half[x]][half[y]] + bit[x][y]
        BY <1>3, <3>1
      <3> QED BY <1>2, <2>2, <3>1, <3>2
    <2> QED BY <2>1, <2>2
  <1>5. Is(f)
    <2> HIDE DEF body
    <2>1. ASSUME NEW n \in Nat, NEW x \in Nat
          PROVE  f[n][x] = [y \in Nat |-> body(f, n, x, y)]
      <3>1. f[n] \in [Nat -> [Nat -> Nat]]
        BY <1>3
      <3>2. f[n][x] \in [Nat -> Nat]
        BY <3>1
      <3> QED BY <1>4, <3>2
    <2>2. ASSUME NEW n \in Nat
          PROVE  f[n] = [x \in Nat |-> [y \in Nat |-> body(f, n, x, y)]]
      <3>1. f[n] \in [Nat -> [Nat -> Nat]]
        BY <1>3
      <3> QED BY <2>1, <3>1
    <2> QED BY <1>3, <2>2
  <1>6. lowest = CHOOSE g : Is(g)
    BY DEF Lowest, low, lowest
  <1>7. Is(lowest)
    <2> HIDE DEF Is
    <2> QED BY <1>5, <1>6
  <1>8. ASSUME NEW n \in Nat, NEW x \in Nat, NEW y \in Nat
        PROVE  lowest[n][x][y] = body(lowest, n, x, y)
    <2> HIDE DEF body
    <2>1. lowest[n] = [u \in Nat |-> [v \in Nat |-> body(lowest, n, u, v)]]
      BY <1>7
    <2> HIDE DEF Is
    <2>2. lowest[n][x] = [v \in Nat |-> body(lowest, n, x, v)]
      BY <2>1
    <2> QED BY <2>2
  <1>9. ASSUME NEW x \in Nat, NEW y \in Nat
        PROVE  /\ lowest[0][x][y] = 0
               /\ \A n \in Nat : lowest[n + 1][x][y]
                                   = 2 * lowest[n][x \div 2][y \div 2] + low(x, y)
    <2>1. lowest[0][x][y] = 0
      BY <1>8
    <2>2. ASSUME NEW n \in Nat
          PROVE  lowest[n + 1][x][y] = 2 * lowest[n][x \div 2][y \div 2] + low(x, y)
      <3>1. n + 1 \in Nat /\ n + 1 # 0 /\ n + 1 - 1 = n
        OBVIOUS
      <3>2. lowest[n + 1][x][y] = body(lowest, n + 1, x, y)
        <4> HIDE DEF body
        <4> QED BY <1>8, <3>1
      <3> QED BY <3>1, <3>2
    <2> QED BY <2>1, <2>2
  <1> QED BY <1>9 DEF low, lowest

\* Of two numbers that have no bit in common `or` makes the sum.
LEMMA OrOfDisjoint ==
  ASSUME NEW n \in Nat, NEW k \in 0 .. n, NEW m \in 0 .. pow2[n - k] - 1,
         NEW y \in 0 .. pow2[k] - 1
  PROVE  LET lowest == CHOOSE f : Lowest(OrTable, f)
         IN  lowest[n][m * pow2[k]][y] = m * pow2[k] + y
  <1> DEFINE lowest == CHOOSE f : Lowest(OrTable, f)
             Sums(i) == \A j \in 0 .. i : \A u \in 0 .. pow2[i - j] - 1 :
                          \A v \in 0 .. pow2[j] - 1 :
                            lowest[i][u * pow2[j]][v] = u * pow2[j] + v
             S == {i \in Nat : Sums(i)}
  <1>1. \A x, y_1 \in Nat :
               /\ lowest[0][x][y_1] = 0
               /\ \A i \in Nat : lowest[i + 1][x][y_1]
                    = 2 * lowest[i][x \div 2][y_1 \div 2] + OrTable[x % 2][y_1 % 2]
    <2>1. OrTable \in [{0, 1} -> [{0, 1} -> Nat]]
      BY DEF OrTable
    <2> QED BY <2>1, BitwiseIsRecursive
  <1>2. /\ OrTable[0][0] = 0 /\ OrTable[0][1] = 1
        /\ OrTable[1][0] = 1
    BY DEF OrTable
  <1> HIDE DEF lowest
  <1>3. 0 \in S
    <2> SUFFICES ASSUME NEW j \in 0 .. 0, NEW u \in 0 .. pow2[0 - j] - 1,
                        NEW v \in 0 .. pow2[j] - 1
                 PROVE  lowest[0][u * pow2[j]][v] = u * pow2[j] + v
      OBVIOUS
    <2>1. u = 0 /\ v = 0 /\ u * pow2[j] = 0
      BY Pow2IsRecursive
    <2>2. lowest[0][0][0] = 0
      BY <1>1
    <2> QED BY <2>1, <2>2
  <1>4. ASSUME NEW i \in Nat, i \in S PROVE i + 1 \in S
    <2> SUFFICES ASSUME NEW j \in 0 .. i + 1, NEW u \in 0 .. pow2[i + 1 - j] - 1,
                        NEW v \in 0 .. pow2[j] - 1
                 PROVE  lowest[i + 1][u * pow2[j]][v] = u * pow2[j] + v
      OBVIOUS
    <2>1. CASE j = 0
      <3>1. pow2[j] = 1 /\ v = 0 /\ u * pow2[j] = u
        BY <2>1, Pow2IsRecursive
      <3>2. pow2[i + 1] = 2 * pow2[i] /\ pow2[i] \in Nat
        BY Pow2IsRecursive
      <3>3. /\ u \in Nat /\ u \div 2 \in 0 .. pow2[i] - 1 /\ u % 2 \in {0, 1}
            /\ u = 2 * (u \div 2) + (u % 2)
        BY <2>1, <3>2
      <3>4. lowest[i][(u \div 2) * pow2[0]][0] = (u \div 2) * pow2[0] + 0
        <4>1. 0 \in 0 .. i /\ i - 0 = i /\ 0 \in 0 .. pow2[0] - 1
          BY Pow2IsRecursive
        <4>2. Sums(i)
          BY <1>4
        <4> QED BY <3>3, <4>1, <4>2
      <3>5. (u \div 2) * pow2[0] = u \div 2 /\ u \div 2 \in Nat
        BY <3>3, Pow2IsRecursive
      <3>6. lowest[i + 1][u][0] = 2 * lowest[i][u \div 2][0 \div 2] + OrTable[u % 2][0 % 2]
        BY <1>1, <3>3, <3>5
      <3>7. OrTable[u % 2][0] = u % 2
        BY <1>2, <3>3
      <3> QED BY <3>1, <3>3, <3>4, <3>5, <3>6, <3>7
    <2>2. CASE j # 0
      <3> DEFINE h == u * pow2[j - 1]
      <3>1. j - 1 \in 0 .. i /\ j - 1 + 1 = j /\ i - (j - 1) = i + 1 - j
        BY <2>2
      <3>2. pow2[j] = 2 * pow2[j - 1] /\ pow2[j - 1] \in Nat
        BY <3>1, Pow2IsRecursive
      <3>3. u \in Nat /\ h \in Nat /\ u * pow2[j] = 2 * h
        <4>1. i + 1 - j \in Nat
          OBVIOUS
        <4>2. u \in Nat
          BY <4>1, Pow2IsRecursive
        <4> QED BY <3>2, <4>2
      <3>4. /\ v \in Nat /\ v \div 2 \in 0 .. pow2[j - 1] - 1 /\ v % 2 \in {0, 1}
            /\ v = 2 * (v \div 2) + (v % 2)
        BY <3>2
      <3>5. lowest[i][h][v \div 2] = h + (v \div 2)
        <4>1. Sums(i)
          BY <1>4
        <4> QED BY <3>1, <3>4, <4>1
      <3> HIDE DEF h
      <3>6. lowest[i + 1][2 * h][v]
              = 2 * lowest[i][(2 * h) \div 2][v \div 2] + OrTable[(2 * h) % 2][v % 2]
        <4>1. 2 * h \in Nat
          BY <3>3
        <4> QED BY <1>1, <3>4, <4>1
      <3>7. (2 * h) \div 2 = h /\ (2 * h) % 2 = 0
        BY <3>3, Halves
      <3>8. OrTable[0][v % 2] = v % 2
        BY <1>2, <3>4
      <3>9. lowest[i + 1][2 * h][v] = 2 * (h + (v \div 2)) + (v % 2)
        BY <3>5, <3>6, <3>7, <3>8
      <3> QED BY <3>3, <3>4, <3>9
    <2> QED BY <2>1, <2>2
  <1>5. Nat \subseteq S
    <2> HIDE DEF S
    <2> QED BY <1>3, <1>4, Induction
  <1>6. Sums(n)
    BY <1>5
  <1>7. lowest[n][m * pow2[k]][y] = m * pow2[k] + y
    BY <1>6
  <1> QED BY <1>7 DEF lowest

\* With a mask of k ones `and` makes the remainder.
LEMMA AndWithMask ==
  ASSUME NEW n \in Nat, NEW k \in 0 .. n, NEW x \in Nat
  PROVE  LET lowest == CHOOSE f : Lowest(AndTable, f)
         IN  lowest[n][x][pow2[k] - 1] = x % pow2[k]
  <1> DEFINE lowest == CHOOSE f : Lowest(AndTable, f)
             Masks(i) == \A j \in 0 .. i : \A u \in Nat :
                           lowest[i][u][pow2[j] - 1] = u % pow2[j]
             S == {i \in Nat : Masks(i)}
  <1>1. \A u, v \in Nat :
               /\ lowest[0][u][v] = 0
               /\ \A i \in Nat : lowest[i + 1][u][v]
                    = 2 * lowest[i][u \div 2][v \div 2] + AndTable[u % 2][v % 2]
    <2>1. AndTable \in [{0, 1} -> [{0, 1} -> Nat]]
      BY DEF AndTable
    <2> QED BY <2>1, BitwiseIsRecursive
  <1>2. /\ AndTable[0][0] = 0 /\ AndTable[0][1] = 0
        /\ AndTable[1][0] = 0 /\ AndTable[1][1] = 1
    BY DEF AndTable
  <1> HIDE DEF lowest
  <1>3. 0 \in S
    <2> SUFFICES ASSUME NEW j \in 0 .. 0, NEW u \in Nat
                 PROVE  lowest[0][u][pow2[j] - 1] = u % pow2[j]
      OBVIOUS
    <2>1. pow2[j] = 1
      BY Pow2IsRecursive
    <2>2. lowest[0][u][0] = 0 /\ u % 1 = 0
      BY <1>1
    <2> QED BY <2>1, <2>2
  <1>4. ASSUME NEW i \in Nat, i \in S PROVE i + 1 \in S
    <2> SUFFICES ASSUME NEW j \in 0 .. i + 1, NEW u \in Nat
                 PROVE  lowest[i + 1][u][pow2[j] - 1] = u % pow2[j]
      OBVIOUS
    <2>1. u \div 2 \in Nat /\ u % 2 \in {0, 1} /\ u = 2 * (u \div 2) + (u % 2)
      BY Halves
    <2>2. CASE j = 0
      <3>1. pow2[j] = 1
        BY <2>2, Pow2IsRecursive
      <3>2. lowest[i][u \div 2][pow2[0] - 1] = (u \div 2) % pow2[0]
        <4>1. Masks(i) /\ 0 \in 0 .. i
          BY <1>4
        <4> QED BY <2>1, <4>1
      <3>3. lowest[i + 1][u][0] = 2 * lowest[i][u \div 2][0 \div 2] + AndTable[u % 2][0 % 2]
        BY <1>1
      <3>4. AndTable[u % 2][0] = 0
        BY <1>2, <2>1
      <3>5. (u \div 2) % 1 = 0 /\ u % 1 = 0 /\ pow2[0] = 1
        BY <2>1, Pow2IsRecursive
      <3> QED BY <3>1, <3>2, <3>3, <3>4, <3>5
    <2>3. CASE j # 0
      <3> DEFINE p == pow2[j - 1]
                 h == u \div 2
                 b == u % 2
                 q == h \div p
                 r == h % p
      <3>1. j - 1 \in 0 .. i /\ j - 1 + 1 = j
        BY <2>3
      <3>2. pow2[j] = 2 * p /\ p \in Nat \ {0}
        BY <3>1, Pow2IsRecursive, Pow2IsPositive
      <3>3. lowest[i][h][p - 1] = h % p
        <4>1. Masks(i)
          BY <1>4
        <4> QED BY <2>1, <3>1, <4>1
      <3>4. /\ 2 * p - 1 \in Nat /\ 2 * p - 1 = 2 * (p - 1) + 1
            /\ (2 * p - 1) \div 2 = p - 1 /\ (2 * p - 1) % 2 = 1
        BY <3>2, Halves
      <3>5. lowest[i + 1][u][2 * p - 1]
              = 2 * lowest[i][h][(2 * p - 1) \div 2] + AndTable[b][(2 * p - 1) % 2]
        <4> HIDE DEF p
        <4> QED BY <1>1, <3>4
      <3>6. AndTable[b][1] = b
        BY <1>2, <2>1
      <3>7. h \in Nat /\ b \in {0, 1} /\ u = 2 * h + b
        BY <2>1
      <3> HIDE DEF p, h, b
      <3>8. q \in Int /\ r \in 0 .. p - 1 /\ h = q * p + r
        <4>1. h \in Int
          BY <3>7
        <4> QED BY <3>2, <4>1, Quotient
      <3> HIDE DEF q, r
      <3>9. u = q * (2 * p) + (2 * r + b) /\ 2 * r + b \in 0 .. 2 * p - 1
        BY <3>2, <3>7, <3>8
      <3>10. 2 * p \in Nat \ {0}
        BY <3>2
      <3>11. (q * (2 * p) + (2 * r + b)) % (2 * p) = 2 * r + b
        BY <3>8, <3>9, <3>10, Division
      <3>12. lowest[i + 1][u][2 * p - 1] = 2 * r + b
        BY <3>3, <3>4, <3>5, <3>6 DEF r
      <3> QED BY <3>2, <3>9, <3>11, <3>12
    <2> QED BY <2>2, <2>3
  <1>5. Nat \subseteq S
    <2> HIDE DEF S
    <2> QED BY <1>3, <1>4, Induction
  <1>6. Masks(n)
    BY <1>5
  <1>7. lowest[n][x][pow2[k] - 1] = x % pow2[k]
    BY <1>6
  <1> QED BY <1>7 DEF lowest

-----------------------------------------------------------------------------
(* Longs *)

\* The check of the constructor: the widths add up.
LEMMA LayoutFills ==
  /\ LongBits \in Nat \ {0} /\ timestampBits \in Nat
  /\ workerIdBits \in Nat /\ sequenceBits \in Nat
  /\ 1 + timestampBits + workerIdBits + sequenceBits = LongBits
  BY AllocateTotalBits DEF signBits

\* Half of the longs are negative.
Half == pow2[LongBits - 1]

\* The range of a long.
LEMMA SpanIsTwiceHalf ==
  Half \in Nat \ {0} /\ Span = 2 * Half /\ Span \in Nat \ {0} /\ Span \div 2 = Half
  <1>1. LongBits - 1 \in Nat /\ LongBits - 1 + 1 = LongBits
    BY LayoutFills
  <1>2. pow2[LongBits - 1 + 1] = 2 * pow2[LongBits - 1] /\ pow2[LongBits - 1] \in Nat \ {0}
    BY <1>1, Pow2IsRecursive, Pow2IsPositive
  <1> QED BY <1>1, <1>2 DEF Half, Span

\* A long differs from the number it stands for by a multiple of the span.
LEMMA LongOfInteger ==
  ASSUME NEW x \in Int
  PROVE  /\ toLong(x) \in -Half .. Half - 1
         /\ \E k \in Int : toLong(x) = x + k * Span
  <1> DEFINE y == x + Half
             q == y \div Span
             r == y % Span
  <1>1. y \in Int /\ Half \in Nat \ {0} /\ Span = 2 * Half /\ Span \in Nat \ {0}
    BY SpanIsTwiceHalf
  <1>2. q \in Int /\ r \in 0 .. Span - 1 /\ y = q * Span + r
    <2> HIDE DEF y
    <2> QED BY <1>1, Quotient
  <1>3. toLong(x) = r - Half
    BY SpanIsTwiceHalf DEF toLong
  <1> HIDE DEF q, r
  <1>4. toLong(x) = x + (-q) * Span /\ -q \in Int
    BY <1>1, <1>2, <1>3
  <1>5. toLong(x) \in -Half .. Half - 1
    BY <1>1, <1>2, <1>3
  <1>6. \E k \in Int : toLong(x) = x + k * Span
    BY <1>4
  <1> QED BY <1>5, <1>6

\* Which multiple does not matter.
LEMMA LongOfCongruent ==
  ASSUME NEW x \in Int, NEW k \in Int
  PROVE  /\ toLong(x + k * Span) = toLong(x)
         /\ toUnsignedLong(x + k * Span) = toUnsignedLong(x)
  <1>1. Half \in Nat /\ Span \in Nat \ {0} /\ Span \div 2 = Half
    BY SpanIsTwiceHalf
  <1>2. (x + k * Span) + Half = (x + Half) + k * Span /\ x + Half \in Int
    BY <1>1
  <1>3. ((x + Half) + k * Span) % Span = (x + Half) % Span
    BY <1>1, <1>2, SameRemainder
  <1>4. (x + k * Span) % Span = x % Span
    BY <1>1, SameRemainder
  <1>5. toLong(x + k * Span) = toLong(x)
    BY <1>1, <1>2, <1>3 DEF toLong
  <1> QED BY <1>4, <1>5 DEF toUnsignedLong

\* Numbers of the range are their own longs; those of the upper half of the unsigned
\* range wrap.
LEMMA LongInRange ==
  ASSUME NEW x \in Int
  PROVE  /\ x \in -Half .. Half - 1 => toLong(x) = x
         /\ x \in Half .. Span - 1 => toLong(x) = x - Span
         /\ x \in 0 .. Span - 1 => toUnsignedLong(x) = x
  <1>1. Half \in Nat \ {0} /\ Span = 2 * Half /\ Span \in Nat \ {0} /\ Span \div 2 = Half
    BY SpanIsTwiceHalf
  <1>2. ASSUME NEW y \in Int, y \in 0 .. Span - 1 PROVE y % Span = y
    <2>1. (0 * Span + y) % Span = y /\ 0 * Span + y = y
      BY <1>1, <1>2, Division
    <2> QED BY <2>1
  <1>3. ASSUME x \in -Half .. Half - 1 PROVE toLong(x) = x
    <2>1. x + Half \in 0 .. Span - 1
      BY <1>1, <1>3
    <2>2. (x + Half) % Span = x + Half
      BY <1>2, <2>1
    <2> QED BY <1>1, <2>2 DEF toLong
  <1>4. ASSUME x \in Half .. Span - 1 PROVE toLong(x) = x - Span
    <2>1. x - Span \in Int /\ x - Span \in -Half .. Half - 1 /\ (x - Span) + Half \in 0 .. Span - 1
      BY <1>1, <1>4
    <2>2. ((x - Span) + Half) % Span = (x - Span) + Half
      BY <1>2, <2>1
    <2>3. toLong(x - Span) = x - Span
      BY <1>1, <2>1, <2>2 DEF toLong
    <2>4. toLong((x - Span) + 1 * Span) = toLong(x - Span)
      BY <2>1, LongOfCongruent
    <2>5. (x - Span) + 1 * Span = x
      BY <1>1
    <2> QED BY <2>3, <2>4, <2>5
  <1>5. x \in 0 .. Span - 1 => toUnsignedLong(x) = x
    BY <1>2 DEF toUnsignedLong
  <1> QED BY <1>3, <1>4, <1>5

\* So wrapping in the middle of sums and products does not show at the end.
LEMMA LongInTheMiddle ==
  ASSUME NEW x \in Int, NEW y \in Int
  PROVE  /\ toLong(toLong(x) * y) = toLong(x * y)
         /\ toLong(toLong(x) + y) = toLong(x + y)
         /\ toUnsignedLong(toLong(x)) = toUnsignedLong(x)
  <1>1. PICK k \in Int : toLong(x) = x + k * Span
    BY LongOfInteger
  <1>2. Span \in Nat
    BY SpanIsTwiceHalf
  <1>3. (x + k * Span) * y = x * y + (k * y) * Span /\ x * y \in Int /\ k * y \in Int
    BY <1>2
  <1>4. (x + k * Span) + y = (x + y) + k * Span /\ x + y \in Int
    BY <1>2
  <1>5. toLong(x * y + (k * y) * Span) = toLong(x * y)
    BY <1>3, LongOfCongruent
  <1>6. toLong((x + y) + k * Span) = toLong(x + y)
    BY <1>4, LongOfCongruent
  <1>7. toUnsignedLong(x + k * Span) = toUnsignedLong(x)
    BY LongOfCongruent
  <1> QED BY <1>1, <1>3, <1>4, <1>5, <1>6, <1>7

\* A shift by less than the width of a long.
LEMMA Shifts ==
  ASSUME NEW x \in Int, NEW n \in 0 .. LongBits - 1
  PROVE  /\ shiftLeft(x, n) = toLong(x * pow2[n])
         /\ unsignedShiftRight(x, n) = toLong(toUnsignedLong(x) \div pow2[n])
  <1>1. n % LongBits = n
    BY LayoutFills
  <1> QED BY <1>1 DEF shiftLeft, unsignedShiftRight

\* The masks: n ones.
LEMMA MaskOfOnes ==
  ASSUME NEW n \in 0 .. LongBits - 1
  PROVE  not(shiftLeft(-1, n)) = pow2[n] - 1 /\ pow2[n] \in 1 .. Half
  <1>1. n \in Nat /\ LongBits - 1 \in Nat
    BY LayoutFills
  <1>2. pow2[n] \in Nat \ {0} /\ pow2[n] <= Half
    <2>1. CASE n = LongBits - 1
      BY <1>1, <2>1, Pow2IsPositive DEF Half
    <2>2. CASE n < LongBits - 1
      BY <1>1, <2>2, Pow2IsPositive, Pow2Grows DEF Half
    <2> QED BY <1>1, <2>1, <2>2
  <1>3. Half \in Nat \ {0}
    BY SpanIsTwiceHalf
  <1>4. shiftLeft(-1, n) = -pow2[n]
    <2>1. shiftLeft(-1, n) = toLong((-1) * pow2[n])
      BY Shifts
    <2>2. (-1) * pow2[n] = -pow2[n] /\ -pow2[n] \in -Half .. Half - 1 /\ -pow2[n] \in Int
      BY <1>2, <1>3
    <2> QED BY <2>1, <2>2, LongInRange
  <1>5. pow2[n] - 1 \in -Half .. Half - 1 /\ pow2[n] - 1 \in Int /\ -(-pow2[n]) - 1 = pow2[n] - 1
    BY <1>2, <1>3
  <1> QED BY <1>2, <1>4, <1>5, LongInRange DEF not

-----------------------------------------------------------------------------
(* The layout *)

\* The masks of the constructor are the largest values of the fields.
LEMMA LargestValues ==
  /\ maxDeltaSeconds = pow2[timestampBits] - 1
  /\ maxWorkerId = pow2[workerIdBits] - 1
  /\ maxSequence = pow2[sequenceBits] - 1
  /\ {maxDeltaSeconds, maxWorkerId, maxSequence} \subseteq Nat
  <1>1. /\ timestampBits \in 0 .. LongBits - 1 /\ workerIdBits \in 0 .. LongBits - 1
        /\ sequenceBits \in 0 .. LongBits - 1
    BY LayoutFills
  <1>2. /\ maxDeltaSeconds = pow2[timestampBits] - 1 /\ pow2[timestampBits] \in 1 .. Half
        /\ maxWorkerId = pow2[workerIdBits] - 1 /\ pow2[workerIdBits] \in 1 .. Half
        /\ maxSequence = pow2[sequenceBits] - 1 /\ pow2[sequenceBits] \in 1 .. Half
    BY <1>1, MaskOfOnes DEF maxDeltaSeconds, maxWorkerId, maxSequence
  <1>3. Half \in Nat
    BY SpanIsTwiceHalf
  <1> QED BY <1>2, <1>3

\* `or` of a long whose lowest k bits are 0 and a number of k bits.
LEMMA OrOfField ==
  ASSUME NEW d \in Int, NEW k \in 0 .. LongBits, NEW y \in 0 .. pow2[k] - 1
  PROVE  or(toLong(d * pow2[k]), y) = toLong(d * pow2[k] + y)
  <1> DEFINE p == pow2[k]
             n == pow2[LongBits - k]
             m == d % n
             q == d \div n
             lowest == CHOOSE f : Lowest(OrTable, f)
  <1>1. LongBits \in Nat /\ k \in Nat /\ LongBits - k \in Nat /\ (LongBits - k) + k = LongBits
    BY LayoutFills
  <1>2. p \in Nat \ {0} /\ n \in Nat \ {0} /\ Span = n * p
    BY <1>1, Pow2IsPositive, Pow2OfSum DEF Span
  <1>3. y \in 0 .. Span - 1 /\ y \in Int
    <2>1. p <= n * p
      BY <1>2
    <2> HIDE DEF n
    <2> QED BY <1>2, <2>1
  <1>4. toUnsignedLong(y) = y
    BY <1>3, LongInRange
  <1>5. q \in Int /\ m \in 0 .. n - 1 /\ d = q * n + m
    BY <1>2, Quotient
  <1>6. toUnsignedLong(toLong(d * p)) = m * p
    <2> HIDE DEF p, n
    <2>1. d * p \in Int
      BY <1>2
    <2>2. (d * p) % (n * p) = (d % n) * p
      BY <1>2, RemainderOfProduct
    <2>3. toUnsignedLong(toLong(d * p)) = (d * p) % Span
      BY <2>1, LongInTheMiddle DEF toUnsignedLong
    <2> QED BY <1>2, <2>2, <2>3
  <1>7. lowest[LongBits][m * p][y] = m * p + y
    <2> HIDE DEF m, lowest
    <2> USE DEF p, n
    <2>1. m \in 0 .. pow2[LongBits - k] - 1
      BY <1>5
    <2> QED BY <1>1, <2>1, OrOfDisjoint DEF lowest
  <1>8. or(toLong(d * p), y) = toLong(lowest[LongBits][m * p][y])
    <2> HIDE DEF m, p, n
    <2> QED BY <1>4, <1>6 DEF or, bitwise, Lowest
  <1> HIDE DEF p, n, m, q
  <1>9. d * p + y = (m * p + y) + q * Span /\ m * p + y \in Int
    BY <1>2, <1>3, <1>5
  <1>10. toLong(d * p + y) = toLong(m * p + y)
    BY <1>5, <1>9, LongOfCongruent
  <1> QED BY <1>7, <1>8, <1>10 DEF p

\* `and` with the largest sequence.
LEMMA AndWithLargest ==
  ASSUME NEW x \in 0 .. Span - 1
  PROVE  and(x, maxSequence) = x % pow2[sequenceBits]
  <1> DEFINE p == pow2[sequenceBits]
             lowest == CHOOSE f : Lowest(AndTable, f)
  <1>1. /\ sequenceBits \in 0 .. LongBits - 1 /\ sequenceBits \in 0 .. LongBits
        /\ LongBits \in Nat /\ sequenceBits \in Nat
    BY LayoutFills
  <1>2. maxSequence = p - 1 /\ p \in 1 .. Half
    BY <1>1, LargestValues, MaskOfOnes
  <1>3. Half \in Nat \ {0} /\ Span = 2 * Half
    BY SpanIsTwiceHalf
  <1>4. x \in Int /\ x \in 0 .. Span - 1 /\ p - 1 \in Int /\ p - 1 \in 0 .. Span - 1 /\ x \in Nat
    <2> HIDE DEF p
    <2> QED BY <1>2, <1>3
  <1>5. toUnsignedLong(x) = x /\ toUnsignedLong(p - 1) = p - 1
    <2> HIDE DEF p
    <2> QED BY <1>4, LongInRange
  <1>6. lowest[LongBits][x][p - 1] = x % p
    BY <1>1, <1>4, AndWithMask
  <1>7. and(x, maxSequence) = toLong(lowest[LongBits][x][p - 1])
    <2> HIDE DEF p
    <2> QED BY <1>2, <1>5 DEF and, bitwise, Lowest
  <1>8. x % p \in Int /\ x % p \in -Half .. Half - 1
    <2> HIDE DEF p
    <2>1. x % p \in 0 .. p - 1
      BY <1>2, <1>4
    <2> QED BY <1>2, <1>3, <2>1
  <1>9. toLong(x % p) = x % p
    <2> HIDE DEF p
    <2> QED BY <1>8, LongInRange
  <1> QED BY <1>6, <1>7, <1>9

\* A uid in positional notation.
Fields(d, w, s) == (d * pow2[workerIdBits] + w) * pow2[sequenceBits] + s

\* The weights of its fields.
LEMMA FieldsAreSum ==
  /\ timestampShift \in Nat /\ timestampShift \in 0 .. LongBits - 1
  /\ pow2[timestampShift] = pow2[workerIdBits] * pow2[sequenceBits]
  /\ pow2[timestampShift] \in Nat \ {0} /\ pow2[workerIdBits] \in Nat \ {0}
  /\ pow2[sequenceBits] \in Nat \ {0} /\ pow2[timestampBits] \in Nat \ {0}
  /\ Half = pow2[timestampBits] * pow2[timestampShift]
  /\ \A d, w, s \in Int :
       /\ Fields(d, w, s) \in Int
       /\ Fields(d, w, s) = d * pow2[timestampShift] + (w * pow2[sequenceBits] + s)
  <1>1. /\ timestampBits \in Nat /\ workerIdBits \in Nat /\ sequenceBits \in Nat
        /\ timestampShift = workerIdBits + sequenceBits
        /\ timestampShift \in Nat /\ timestampShift \in 0 .. LongBits - 1
        /\ timestampBits + timestampShift = LongBits - 1
    BY LayoutFills DEF timestampShift
  <1>2. /\ pow2[timestampShift] = pow2[workerIdBits] * pow2[sequenceBits]
        /\ Half = pow2[timestampBits] * pow2[timestampShift]
    BY <1>1, Pow2OfSum DEF Half
  <1>3. /\ pow2[timestampShift] \in Nat \ {0} /\ pow2[workerIdBits] \in Nat \ {0}
        /\ pow2[sequenceBits] \in Nat \ {0} /\ pow2[timestampBits] \in Nat \ {0}
    BY <1>1, Pow2IsPositive
  <1>4. ASSUME NEW d \in Int, NEW w \in Int, NEW s \in Int
        PROVE  /\ Fields(d, w, s) \in Int
               /\ Fields(d, w, s) = d * pow2[timestampShift] + (w * pow2[sequenceBits] + s)
    <2> DEFINE v == pow2[workerIdBits]
               q == pow2[sequenceBits]
    <2>1. v \in Nat /\ q \in Nat
      BY <1>3
    <2> HIDE DEF v, q
    <2>2. (d * v + w) * q + s = d * (v * q) + (w * q + s) /\ (d * v + w) * q + s \in Int
      BY <2>1
    <2> QED BY <1>2, <2>2 DEF Fields, v, q
  <1> QED BY <1>1, <1>2, <1>3, <1>4

\* What is below the seconds fits below them.
LEMMA LowFields ==
  ASSUME NEW w \in 0 .. maxWorkerId, NEW s \in 0 .. maxSequence
  PROVE  /\ w \in Nat /\ s \in Nat
         /\ w * pow2[sequenceBits] \in 0 .. pow2[timestampShift] - 1
         /\ w * pow2[sequenceBits] + s \in 0 .. pow2[timestampShift] - 1
  <1> DEFINE v == pow2[workerIdBits]
             q == pow2[sequenceBits]
  <1>1. v \in Nat \ {0} /\ q \in Nat \ {0} /\ pow2[timestampShift] = v * q
    BY FieldsAreSum
  <1>2. maxWorkerId = v - 1 /\ maxSequence = q - 1
    BY LargestValues
  <1> HIDE DEF v, q
  <1>3. w \in Nat /\ s \in Nat /\ w <= v - 1 /\ s <= q - 1
    BY <1>1, <1>2
  <1>4. w * q \in Nat /\ (v - 1 - w) * q \in Nat
    BY <1>1, <1>3
  <1>5. (v - 1 - w) * q = v * q - q - w * q
    BY <1>1, <1>3
  <1>6. v * q \in Nat
    BY <1>1
  <1> QED BY <1>1, <1>3, <1>4, <1>5, <1>6 DEF q

\* What allocate() makes, of any second: the fields side by side, wrapped.
LEMMA AllocateIsFields ==
  ASSUME NEW d \in Int, NEW w \in 0 .. maxWorkerId, NEW s \in 0 .. maxSequence
  PROVE  allocate(d, w, s) = toLong(Fields(d, w, s))
  <1> DEFINE q == pow2[sequenceBits]
             t == pow2[timestampShift]
             v == pow2[workerIdBits]
  <1>1. /\ sequenceBits \in 0 .. LongBits - 1 /\ sequenceBits \in 0 .. LongBits
        /\ timestampShift \in 0 .. LongBits - 1 /\ timestampShift \in 0 .. LongBits
    <2>1. timestampShift \in Nat /\ timestampShift \in 0 .. LongBits - 1
      BY FieldsAreSum
    <2> QED BY <2>1, LayoutFills
  <1>2. q \in Nat \ {0} /\ t \in Nat \ {0} /\ v \in Nat \ {0} /\ t = v * q
    BY FieldsAreSum
  <1>3. w \in Nat /\ s \in Nat /\ w * q \in 0 .. t - 1 /\ s \in 0 .. q - 1
    BY LowFields, LargestValues
  <1>4. shiftLeft(d, timestampShift) = toLong(d * t)
    BY <1>1, Shifts
  <1>5. shiftLeft(w, workerIdShift) = w * q
    <2>1. shiftLeft(w, sequenceBits) = toLong(w * q)
      BY <1>1, <1>3, Shifts
    <2>2. t <= Half /\ Half \in Nat
      BY <1>1, MaskOfOnes, SpanIsTwiceHalf
    <2> HIDE DEF q, t
    <2>3. w * q \in Int /\ w * q \in -Half .. Half - 1
      BY <1>2, <1>3, <2>2
    <2> QED BY <2>1, <2>3, LongInRange DEF workerIdShift
  <1>6. or(toLong(d * t), w * q) = toLong(d * t + w * q)
    BY <1>1, <1>3, OrOfField
  <1>7. d * t + w * q = (d * v + w) * q /\ d * v + w \in Int
    <2> HIDE DEF q, t, v
    <2> QED BY <1>2, <1>3
  <1>8. or(toLong((d * v + w) * q), s) = toLong((d * v + w) * q + s)
    <2> HIDE DEF v
    <2> QED BY <1>1, <1>3, <1>7, OrOfField
  <1>9. allocate(d, w, s) = or(or(toLong(d * t), w * q), s)
    BY <1>4, <1>5 DEF allocate
  <1> QED BY <1>6, <1>7, <1>8, <1>9 DEF Fields

\* A shift to the left drops what is above the lowest m bits.
LEMMA ShiftedOut ==
  ASSUME NEW m \in Nat, NEW k \in 0 .. LongBits - 1, m + k = LongBits,
         NEW a \in Int, NEW b \in 0 .. pow2[m] - 1
  PROVE  toUnsignedLong(shiftLeft(toLong(a * pow2[m] + b), k)) = b * pow2[k]
  <1> DEFINE p == pow2[m]
             n == pow2[k]
             x == a * p + b
  <1>1. k \in Nat
    BY LayoutFills
  <1>2. p \in Nat \ {0} /\ n \in Nat \ {0} /\ Span = p * n
    BY <1>1, Pow2IsPositive, Pow2OfSum DEF Span
  <1>3. x \in Int /\ x * n \in Int /\ toLong(x) \in Int /\ b \in 0 .. p - 1
    <2> HIDE DEF p, n
    <2>1. x \in Int /\ x * n \in Int
      BY <1>2
    <2>2. toLong(x) \in -Half .. Half - 1 /\ Half \in Nat
      <3> HIDE DEF x
      <3> QED BY <2>1, LongOfInteger, SpanIsTwiceHalf
    <2> QED BY <2>1, <2>2 DEF p
  <1>4. shiftLeft(toLong(x), k) = toLong(x * n)
    <2>1. shiftLeft(toLong(x), k) = toLong(toLong(x) * n)
      <3> HIDE DEF x
      <3> QED BY <1>3, Shifts
    <2> HIDE DEF x, n
    <2> QED BY <1>2, <1>3, <2>1, LongInTheMiddle
  <1>5. x % p = b
    <2> HIDE DEF p
    <2> QED BY <1>2, <1>3, Division
  <1> HIDE DEF p, n, x
  <1>6. (x * n) % (p * n) = b * n
    BY <1>2, <1>3, <1>5, RemainderOfProduct
  <1>7. toUnsignedLong(toLong(x * n)) = (x * n) % Span
    BY <1>3, LongInTheMiddle DEF toUnsignedLong
  <1> QED BY <1>2, <1>4, <1>6, <1>7 DEF p, n, x

\* A field c of a uid: above the lowest j of the lowest m bits, which k others precede.
FieldAt(m, k, j, a, b, c, e) ==
  /\ m \in Nat /\ k \in 0 .. LongBits - 1 /\ m + k = LongBits
  /\ j \in Nat /\ k + j <= LongBits - 1
  /\ a \in Int /\ b \in 0 .. pow2[m] - 1
  /\ c \in 0 .. Half - 1 /\ e \in 0 .. pow2[j] - 1 /\ b = c * pow2[j] + e

\* The pair of shifts with which parseUID() takes a field out.
LEMMA FieldFound ==
  ASSUME NEW m, NEW k, NEW j, NEW a, NEW b, NEW c, NEW e, FieldAt(m, k, j, a, b, c, e)
  PROVE  unsignedShiftRight(shiftLeft(toLong(a * pow2[m] + b), k), k + j) = c
  <1> USE DEF FieldAt
  <1> DEFINE n == pow2[k]
             q == pow2[j]
             x == shiftLeft(toLong(a * pow2[m] + b), k)
  <1>1. k \in Nat /\ k + j \in 0 .. LongBits - 1 /\ pow2[m] \in Nat /\ a * pow2[m] + b \in Int
    <2>1. k \in Nat /\ k + j \in 0 .. LongBits - 1
      BY LayoutFills
    <2>2. pow2[m] \in Nat
      BY Pow2IsPositive
    <2> QED BY <2>1, <2>2
  <1>2. n \in Nat \ {0} /\ q \in Nat \ {0} /\ pow2[k + j] = n * q
    BY <1>1, Pow2IsPositive, Pow2OfSum
  <1>3. toUnsignedLong(x) = b * n
    BY ShiftedOut
  <1>4. x \in Int
    <2> DEFINE u == toLong(a * pow2[m] + b)
    <2>1. Half \in Nat
      BY SpanIsTwiceHalf
    <2>2. u \in -Half .. Half - 1
      BY <1>1, LongOfInteger
    <2>3. u \in Int
      BY <2>1, <2>2
    <2> HIDE DEF u
    <2>4. shiftLeft(u, k) = toLong(u * n)
      BY <2>3, Shifts
    <2>5. u * n \in Int
      BY <1>2, <2>3
    <2>6. toLong(u * n) \in -Half .. Half - 1
      BY <2>5, LongOfInteger
    <2> QED BY <2>1, <2>4, <2>6 DEF u
  <1>5. unsignedShiftRight(x, k + j) = toLong((b * n) \div (n * q))
    <2> HIDE DEF x, n, q
    <2> QED BY <1>1, <1>2, <1>3, <1>4, Shifts
  <1> HIDE DEF n, q
  <1>6. c \in Nat /\ e \in 0 .. q - 1
    BY SpanIsTwiceHalf DEF q
  <1>7. b * n = c * (n * q) + e * n
    <2>1. b = c * q + e
      BY DEF q
    <2> QED BY <1>2, <1>6, <2>1
  <1>8. n * q \in Nat \ {0} /\ e * n \in 0 .. n * q - 1
    <2>1. (q - 1 - e) * n >= 0 /\ e * n >= 0
      BY <1>2, <1>6
    <2>2. (q - 1 - e) * n = q * n - n - e * n
      BY <1>2, <1>6
    <2>3. n * q \in Nat \ {0} /\ n * q = q * n /\ e * n \in Int
      BY <1>2, <1>6
    <2> QED BY <1>2, <2>1, <2>2, <2>3
  <1>9. (c * (n * q) + e * n) \div (n * q) = c
    <2> DEFINE p == n * q
               r == e * n
    <2>1. p \in Nat \ {0} /\ r \in 0 .. p - 1 /\ c \in Int
      BY <1>6, <1>8
    <2> HIDE DEF p, r
    <2>2. (c * p + r) \div p = c
      BY <2>1, Division
    <2> QED BY <2>2 DEF p, r
  <1>10. c \in Int /\ c \in -Half .. Half - 1
    BY <1>6, SpanIsTwiceHalf
  <1>11. toLong(c) = c
    BY <1>10, LongInRange
  <1> QED BY <1>5, <1>7, <1>9, <1>11

\* parseUID() finds the sequence ...
LEMMA SequenceParses ==
  ASSUME sequenceBits > 0,
         NEW d \in Int, NEW w \in 0 .. maxWorkerId, NEW s \in 0 .. maxSequence
  PROVE  parseSequence(allocate(d, w, s)) = s
  <1> DEFINE q == pow2[sequenceBits]
             k == LongBits - sequenceBits
             a == d * pow2[workerIdBits] + w
  <1>1. k \in 0 .. LongBits - 1 /\ k + 0 <= LongBits - 1 /\ sequenceBits + k = LongBits /\ k + 0 = k
        /\ sequenceBits \in Nat /\ sequenceBits \in 0 .. LongBits - 1
    BY LayoutFills
  <1>2. q \in Nat \ {0} /\ pow2[workerIdBits] \in Nat \ {0} /\ maxSequence = q - 1 /\ q <= Half
        /\ Half \in Nat
    BY <1>1, FieldsAreSum, LargestValues, MaskOfOnes, SpanIsTwiceHalf
  <1>3. w \in Nat /\ s \in Nat
    BY LowFields
  <1>4. a \in Int /\ s \in 0 .. q - 1 /\ s \in 0 .. Half - 1
    <2> HIDE DEF q
    <2> QED BY <1>2, <1>3
  <1>5. allocate(d, w, s) = toLong(a * q + s)
    BY AllocateIsFields DEF Fields
  <1>6. 0 \in 0 .. pow2[0] - 1 /\ s = s * pow2[0] + 0 /\ 0 \in Nat
    BY <1>3, Pow2IsRecursive
  <1>7. unsignedShiftRight(shiftLeft(toLong(a * q + s), k), k + 0) = s
    <2> HIDE DEF a, k
    <2>1. FieldAt(sequenceBits, k, 0, a, s, s, 0)
      BY <1>1, <1>4, <1>6 DEF FieldAt
    <2> QED BY <2>1, FieldFound
  <1> QED BY <1>1, <1>5, <1>7 DEF parseSequence

\* ... the worker id ...
LEMMA WorkerIdParses ==
  ASSUME workerIdBits > 0,
         NEW d \in Int, NEW w \in 0 .. maxWorkerId, NEW s \in 0 .. maxSequence
  PROVE  parseWorkerId(allocate(d, w, s)) = w
  <1> DEFINE q == pow2[sequenceBits]
             t == pow2[timestampShift]
             k == timestampBits + signBits
             b == w * q + s
  <1>1. /\ k \in 0 .. LongBits - 1 /\ k + sequenceBits <= LongBits - 1
        /\ timestampShift + k = LongBits /\ k + sequenceBits = LongBits - workerIdBits
        /\ sequenceBits \in Nat /\ workerIdBits \in 0 .. LongBits - 1
    BY LayoutFills DEF signBits, timestampShift
  <1>2. timestampShift \in Nat /\ t \in Nat \ {0} /\ q \in Nat \ {0} /\ maxSequence = q - 1
    BY FieldsAreSum, LargestValues
  <1>3. w \in Nat /\ s \in Nat /\ b \in 0 .. t - 1
    BY LowFields
  <1>4. s \in 0 .. q - 1
    <2> HIDE DEF q
    <2> QED BY <1>2
  <1>5. w \in 0 .. Half - 1
    <2>1. maxWorkerId = pow2[workerIdBits] - 1 /\ pow2[workerIdBits] \in 1 .. Half /\ Half \in Nat
      BY <1>1, LargestValues, MaskOfOnes, SpanIsTwiceHalf
    <2> QED BY <1>3, <2>1
  <1>6. allocate(d, w, s) = toLong(d * t + b)
    <2>1. Fields(d, w, s) = d * t + b
      BY <1>3, FieldsAreSum
    <2> QED BY <2>1, AllocateIsFields
  <1>7. unsignedShiftRight(shiftLeft(toLong(d * t + b), k), k + sequenceBits) = w
    <2>1. b = w * q + s
      OBVIOUS
    <2> HIDE DEF k, b
    <2>2. FieldAt(timestampShift, k, sequenceBits, d, b, w, s)
      BY <1>1, <1>2, <1>3, <1>4, <1>5, <2>1 DEF FieldAt
    <2> QED BY <2>2, FieldFound
  <1> QED BY <1>1, <1>6, <1>7 DEF parseWorkerId

\* ... and the seconds, also those that run into the sign bit.
LEMMA DeltaSecondsParse ==
  ASSUME workerIdBits + sequenceBits > 0, NEW d \in 0 .. 2 * maxDeltaSeconds + 1,
         NEW w \in 0 .. maxWorkerId, NEW s \in 0 .. maxSequence
  PROVE  parseDeltaSeconds(allocate(d, w, s)) = d
  <1> DEFINE t == pow2[timestampShift]
             h == pow2[timestampBits]
             b == w * pow2[sequenceBits] + s
             x == Fields(d, w, s)
  <1>1. /\ timestampShift \in 0 .. LongBits - 1 /\ t \in Nat \ {0} /\ h \in Nat \ {0}
        /\ Half = h * t /\ Span = 2 * Half /\ maxDeltaSeconds = h - 1
        /\ timestampShift = workerIdBits + sequenceBits
    BY FieldsAreSum, SpanIsTwiceHalf, LargestValues DEF timestampShift
  <1>2. d \in Nat /\ d <= 2 * h - 1
    <2> HIDE DEF h
    <2> QED BY <1>1
  <1>3. w \in Nat /\ s \in Nat /\ b \in 0 .. t - 1 /\ x = d * t + b /\ x \in Int
    <2>1. w \in Nat /\ s \in Nat /\ b \in 0 .. t - 1
      BY LowFields
    <2> QED BY <1>2, <2>1, FieldsAreSum
  <1>4. x \in 0 .. Span - 1
    <2> HIDE DEF b, t, h, x
    <2>1. (2 * h - 1 - d) * t >= 0 /\ d * t >= 0
      BY <1>1, <1>2
    <2>2. (2 * h - 1 - d) * t = 2 * (h * t) - t - d * t
      BY <1>1, <1>2
    <2> QED BY <1>1, <1>2, <1>3, <2>1, <2>2
  <1>5. toLong(x) \in Int /\ toUnsignedLong(toLong(x)) = x
    <2> HIDE DEF x
    <2>1. toUnsignedLong(toLong(x)) = x
      BY <1>3, <1>4, LongInTheMiddle, LongInRange
    <2>2. toLong(x) \in -Half .. Half - 1 /\ Half \in Nat
      BY <1>3, LongOfInteger, SpanIsTwiceHalf
    <2> QED BY <2>1, <2>2
  <1>6. unsignedShiftRight(toLong(x), timestampShift) = toLong(x \div t)
    <2> HIDE DEF x
    <2> QED BY <1>1, <1>5, Shifts
  <1>7. x \div t = d
    <2> HIDE DEF b, t, x
    <2>1. d \in Int
      BY <1>2
    <2>2. (d * t + b) \div t = d
      BY <1>1, <1>3, <2>1, Division
    <2> QED BY <1>3, <2>2
  <1>8. d \in -Half .. Half - 1
    <2>1. t >= 2
      <3>1. timestampShift \in Nat /\ 0 < timestampShift
        BY <1>1, LayoutFills
      <3>2. 2 * pow2[0] <= t
        BY <3>1, Pow2Grows
      <3> QED BY <3>2, Pow2IsRecursive
    <2> HIDE DEF t, h
    <2>2. h * (t - 2) >= 0 /\ h * (t - 2) = h * t - 2 * h
      BY <1>1, <2>1
    <2>3. 2 * h <= Half /\ Half \in Nat
      BY <1>1, <2>2
    <2> QED BY <1>1, <1>2, <2>3
  <1>9. toLong(d) = d
    BY <1>2, <1>8, LongInRange
  <1>10. allocate(d, w, s) = toLong(x)
    BY <1>2, AllocateIsFields
  <1> QED BY <1>1, <1>6, <1>7, <1>9, <1>10 DEF parseDeltaSeconds

\* The digits of a larger number decide before those of a smaller one.
LEMMA HigherDigitsDecide ==
  ASSUME NEW p \in Nat \ {0}, NEW d \in Int, NEW e \in Int,
         NEW b \in 0 .. p - 1, NEW c \in 0 .. p - 1, d < e
  PROVE  d * p + b < e * p + c
  <1>1. (e - d - 1) * p >= 0
    OBVIOUS
  <1>2. (e - d - 1) * p = e * p - d * p - p
    OBVIOUS
  <1>3. e * p \in Int /\ d * p \in Int
    OBVIOUS
  <1> QED BY <1>1, <1>2, <1>3

\* Up to the largest seconds a uid is the number itself; up to twice as many it is
\* negative.
LEMMA UidOfFields ==
  ASSUME NEW d \in 0 .. 2 * maxDeltaSeconds + 1,
         NEW w \in 0 .. maxWorkerId, NEW s \in 0 .. maxSequence
  PROVE  /\ d <= maxDeltaSeconds =>
              allocate(d, w, s) = Fields(d, w, s) /\ Fields(d, w, s) \in Nat
         /\ d > maxDeltaSeconds =>
              allocate(d, w, s) = Fields(d, w, s) - Span /\ allocate(d, w, s) < 0
         /\ allocate(d, w, s) \in Int
  <1> DEFINE t == pow2[timestampShift]
             h == pow2[timestampBits]
             b == w * pow2[sequenceBits] + s
             x == Fields(d, w, s)
  <1>1. /\ t \in Nat \ {0} /\ h \in Nat \ {0} /\ Half = h * t /\ Half \in Nat \ {0}
        /\ Span = 2 * Half /\ maxDeltaSeconds = h - 1
    BY FieldsAreSum, SpanIsTwiceHalf, LargestValues
  <1>2. d \in Nat /\ d <= 2 * h - 1 /\ d \in Int
    <2> HIDE DEF h
    <2> QED BY <1>1
  <1>3. w \in Nat /\ s \in Nat /\ b \in 0 .. t - 1 /\ x = d * t + b /\ x \in Int
    <2>1. w \in Nat /\ s \in Nat /\ b \in 0 .. t - 1
      BY LowFields
    <2> QED BY <1>2, <2>1, FieldsAreSum
  <1>4. allocate(d, w, s) = toLong(x)
    BY <1>2, AllocateIsFields
  <1>5. toLong(x) \in -Half .. Half - 1
    <2> HIDE DEF x
    <2> QED BY <1>3, LongOfInteger
  <1> HIDE DEF b, t, h, x
  <1>6. d * t >= 0 /\ d * t \in Int /\ h * t \in Int
    BY <1>1, <1>2
  <1>7. ASSUME d <= h - 1 PROVE x \in 0 .. Half - 1
    <2>1. d * t + b < h * t + 0
      <3>1. d < h /\ h \in Int /\ d \in Int /\ 0 \in 0 .. t - 1
        BY <1>1, <1>2, <1>7
      <3> QED BY <1>1, <1>3, <3>1, HigherDigitsDecide
    <2> QED BY <1>1, <1>3, <1>6, <2>1
  <1>8. ASSUME d > h - 1 PROVE x \in Half .. Span - 1
    <2>1. d * t + b < (2 * h) * t + 0
      <3>1. d < 2 * h /\ 2 * h \in Int /\ d \in Int /\ 0 \in 0 .. t - 1
        BY <1>1, <1>2
      <3> QED BY <1>1, <1>3, <3>1, HigherDigitsDecide
    <2>2. (d - h) * t >= 0 /\ (d - h) * t = d * t - h * t /\ (2 * h) * t = 2 * (h * t)
      BY <1>1, <1>2, <1>8
    <2> QED BY <1>1, <1>3, <1>6, <2>1, <2>2
  <1>9. d <= maxDeltaSeconds => toLong(x) = x /\ x \in Nat
    <2> SUFFICES ASSUME d <= maxDeltaSeconds PROVE toLong(x) = x /\ x \in Nat
      OBVIOUS
    <2>1. x \in 0 .. Half - 1
      BY <1>1, <1>7
    <2> QED BY <1>1, <1>3, <2>1, LongInRange
  <1>10. d > maxDeltaSeconds => toLong(x) = x - Span /\ toLong(x) < 0
    <2> SUFFICES ASSUME d > maxDeltaSeconds PROVE toLong(x) = x - Span /\ toLong(x) < 0
      OBVIOUS
    <2>1. x \in Half .. Span - 1
      BY <1>1, <1>8
    <2> QED BY <1>1, <1>3, <2>1, LongInRange
  <1> QED BY <1>1, <1>4, <1>5, <1>9, <1>10 DEF x

\* Sequences of a second follow each other, on both sides of the sign.
LEMMA SequencesFollow ==
  ASSUME NEW d \in 0 .. 2 * maxDeltaSeconds + 1,
         NEW w \in 0 .. maxWorkerId, NEW s \in 0 .. maxSequence - 1
  PROVE  allocate(d, w, s + 1) = allocate(d, w, s) + 1 /\ allocate(d, w, s) \in Int
  <1>1. /\ maxDeltaSeconds \in Nat /\ maxSequence \in Nat /\ maxWorkerId \in Nat
        /\ d \in Int /\ w \in Int /\ s \in Int /\ Span \in Int
        /\ s \in 0 .. maxSequence /\ s + 1 \in 0 .. maxSequence
    BY LargestValues, SpanIsTwiceHalf
  <1>2. /\ Fields(d, w, s) \in Int
        /\ Fields(d, w, s + 1) = Fields(d, w, s) + 1
    <2> DEFINE q == pow2[sequenceBits]
               v == pow2[workerIdBits]
    <2>1. q \in Nat /\ v \in Nat
      BY FieldsAreSum
    <2> HIDE DEF q, v
    <2>2. /\ (d * v + w) * q + s \in Int
          /\ (d * v + w) * q + (s + 1) = ((d * v + w) * q + s) + 1
      BY <1>1, <2>1
    <2> QED BY <2>2 DEF q, v, Fields
  <1>3. /\ d <= maxDeltaSeconds => /\ allocate(d, w, s) = Fields(d, w, s)
                                  /\ allocate(d, w, s + 1) = Fields(d, w, s + 1)
        /\ d > maxDeltaSeconds => /\ allocate(d, w, s) = Fields(d, w, s) - Span
                                 /\ allocate(d, w, s + 1) = Fields(d, w, s + 1) - Span
    BY <1>1, UidOfFields
  <1> QED BY <1>1, <1>2, <1>3

\* The sum of the first uid of a second and an offset is the uid of that sequence.
LEMMA OffsetsAreSequences ==
  ASSUME NEW d \in Int, NEW w \in 0 .. maxWorkerId, NEW s \in 0 .. maxSequence
  PROVE  uidsOfSecond(d, w)[s] = allocate(d, w, s)
  <1>1. maxSequence \in Nat /\ maxWorkerId \in Nat
    BY LargestValues
  <1>2. 0 \in 0 .. maxSequence /\ w \in Int /\ s \in Int
    BY <1>1
  <1>3. /\ allocate(d, w, 0) = toLong(Fields(d, w, 0))
        /\ allocate(d, w, s) = toLong(Fields(d, w, s))
    BY <1>2, AllocateIsFields
  <1>4. /\ Fields(d, w, 0) \in Int
        /\ Fields(d, w, 0) + s = Fields(d, w, s)
    <2> DEFINE q == pow2[sequenceBits]
               v == pow2[workerIdBits]
    <2>1. q \in Nat /\ v \in Nat
      BY FieldsAreSum
    <2> HIDE DEF q, v
    <2>2. /\ (d * v + w) * q + 0 \in Int
          /\ ((d * v + w) * q + 0) + s = (d * v + w) * q + s
      BY <1>2, <2>1
    <2> QED BY <2>2 DEF q, v, Fields
  <1>5. toLong(toLong(Fields(d, w, 0)) + s) = toLong(Fields(d, w, 0) + s)
    BY <1>2, <1>4, LongInTheMiddle
  <1> QED BY <1>3, <1>4, <1>5 DEF uidsOfSecond, add

-----------------------------------------------------------------------------
(* What the layout promises *)

\* allocate(): uids are in the order of their seconds, worker ids and sequences, in
\* this order.
THEOREM AllocateKeepsOrder ==
  ASSUME NEW d \in 0 .. maxDeltaSeconds, NEW e \in 0 .. maxDeltaSeconds,
         NEW v \in 0 .. maxWorkerId, NEW w \in 0 .. maxWorkerId,
         NEW s \in 0 .. maxSequence, NEW t \in 0 .. maxSequence
  PROVE  /\ allocate(d, v, s) \in Nat
         /\ d < e \/ (d = e /\ (v < w \/ (v = w /\ s < t)))
              => allocate(d, v, s) < allocate(e, w, t)
  <1> DEFINE p == pow2[timestampShift]
             q == pow2[sequenceBits]
  <1>1. {maxDeltaSeconds, maxWorkerId, maxSequence} \subseteq Nat
    BY LargestValues
  <1>2. /\ d \in Int /\ e \in Int /\ v \in Int /\ w \in Int /\ s \in Int /\ t \in Int
        /\ d <= maxDeltaSeconds /\ d \in 0 .. 2 * maxDeltaSeconds + 1
        /\ e <= maxDeltaSeconds /\ e \in 0 .. 2 * maxDeltaSeconds + 1
    BY <1>1
  <1>3. /\ allocate(d, v, s) = Fields(d, v, s) /\ Fields(d, v, s) \in Nat
        /\ allocate(e, w, t) = Fields(e, w, t)
    BY <1>2, UidOfFields
  <1>4. /\ Fields(d, v, s) = d * p + (v * q + s)
        /\ Fields(e, w, t) = e * p + (w * q + t)
        /\ p \in Nat \ {0} /\ q \in Nat \ {0}
    BY <1>2, FieldsAreSum
  <1>5. v * q + s \in 0 .. p - 1 /\ w * q + t \in 0 .. p - 1
    BY LowFields
  <1>6. s \in 0 .. q - 1 /\ t \in 0 .. q - 1
    BY LargestValues
  <1> HIDE DEF p, q
  <1>7. d < e => d * p + (v * q + s) < e * p + (w * q + t)
    BY <1>2, <1>4, <1>5, HigherDigitsDecide
  <1>8. v < w => v * q + s < w * q + t
    BY <1>2, <1>4, <1>6, HigherDigitsDecide
  <1>9. v * q \in Int /\ w * q \in Int /\ d * p \in Int
    BY <1>2, <1>4
  <1>10. d = e /\ (v < w \/ (v = w /\ s < t)) => d * p + (v * q + s) < e * p + (w * q + t)
    BY <1>2, <1>8, <1>9
  <1> QED BY <1>3, <1>4, <1>7, <1>10

\* parseUID() recovers the fields, of layouts whose fields are not empty, also of uids
\* whose seconds have run into the sign bit; these are the negative ones.
THEOREM ParsingInvertsAllocating ==
  ASSUME workerIdBits > 0, sequenceBits > 0, NEW d \in 0 .. 2 * maxDeltaSeconds + 1,
         NEW w \in 0 .. maxWorkerId, NEW s \in 0 .. maxSequence
  PROVE  /\ parseDeltaSeconds(allocate(d, w, s)) = d
         /\ parseWorkerId(allocate(d, w, s)) = w
         /\ parseSequence(allocate(d, w, s)) = s
         /\ allocate(d, w, s) < 0 <=> d > maxDeltaSeconds
  <1>1. workerIdBits + sequenceBits > 0
    BY LayoutFills
  <1>2. d \in Int /\ maxDeltaSeconds \in Int
    BY LargestValues
  <1>3. allocate(d, w, s) < 0 <=> d > maxDeltaSeconds
    BY <1>2, UidOfFields
  <1> QED BY <1>1, <1>2, <1>3, DeltaSecondsParse, WorkerIdParses, SequenceParses

\* The uids of two worker ids differ, whatever their seconds, also those that are
\* not in range.
THEOREM WorkerIdsSeparate ==
  ASSUME NEW d \in Int, NEW e \in Int,
         NEW v \in 0 .. maxWorkerId, NEW w \in 0 .. maxWorkerId,
         NEW s \in 0 .. maxSequence, NEW t \in 0 .. maxSequence,
         allocate(d, v, s) = allocate(e, w, t)
  PROVE  v = w
  <1>1. CASE workerIdBits = 0
    <2>1. maxWorkerId = 0
      BY <1>1, LargestValues, Pow2IsRecursive
    <2> QED BY <2>1
  <1>2. CASE workerIdBits # 0
    <2>1. workerIdBits > 0
      BY <1>2, LayoutFills
    <2>2. parseWorkerId(allocate(d, v, s)) = v
      BY <2>1, WorkerIdParses
    <2>3. parseWorkerId(allocate(e, w, t)) = w
      BY <2>1, WorkerIdParses
    <2> QED BY <2>2, <2>3
  <1> QED BY <1>1, <1>2

\* The sequence of nextId() goes on by one, and begins again after the largest.
LEMMA SequenceWraps ==
  ASSUME NEW s \in 0 .. maxSequence
  PROVE  and(s + 1, maxSequence) = IF s = maxSequence THEN 0 ELSE s + 1
  <1> DEFINE p == pow2[sequenceBits]
  <1>1. sequenceBits \in 0 .. LongBits - 1
    BY LayoutFills
  <1>2. maxSequence = p - 1 /\ p \in 1 .. Half /\ Half \in Nat \ {0} /\ Span = 2 * Half
    BY <1>1, LargestValues, MaskOfOnes, SpanIsTwiceHalf
  <1> HIDE DEF p
  <1>3. s \in 0 .. p - 1 /\ s + 1 \in 0 .. Span - 1 /\ p \in Nat \ {0} /\ 0 \in 0 .. p - 1
    BY <1>2
  <1>4. and(s + 1, maxSequence) = (s + 1) % p
    BY <1>3, AndWithLargest DEF p
  <1>5. CASE s = p - 1
    <2>1. (1 * p + 0) % p = 0
      BY <1>3, Division
    <2>2. 1 * p + 0 = s + 1
      BY <1>2, <1>5
    <2> QED BY <1>2, <1>4, <1>5, <2>1, <2>2
  <1>6. CASE s # p - 1
    <2>1. s + 1 \in 0 .. p - 1
      BY <1>3, <1>6
    <2>2. (0 * p + (s + 1)) % p = s + 1
      BY <1>3, <2>1, Division
    <2>3. 0 * p + (s + 1) = s + 1
      BY <1>2, <2>1
    <2> QED BY <1>2, <1>4, <1>6, <2>2, <2>3
  <1> QED BY <1>5, <1>6

\* Seconds that fit their field are longs, and a uid of nothing has no seconds.
LEMMA SecondsAreLongs ==
  /\ \A d \in 0 .. maxDeltaSeconds : toLong(d) = d
  /\ parseDeltaSeconds(0) = 0
  <1>1. /\ timestampBits \in 0 .. LongBits - 1
        /\ workerIdBits + sequenceBits \in 0 .. LongBits - 1
    BY LayoutFills
  <1>2. /\ maxDeltaSeconds = pow2[timestampBits] - 1 /\ pow2[timestampBits] \in 1 .. Half
        /\ Half \in Nat \ {0} /\ Span = 2 * Half
    BY <1>1, LargestValues, MaskOfOnes, SpanIsTwiceHalf
  <1>3. ASSUME NEW d \in 0 .. maxDeltaSeconds PROVE toLong(d) = d
    <2>1. d \in Int /\ d \in -Half .. Half - 1
      BY <1>2
    <2> QED BY <2>1, LongInRange
  <1>4. toLong(0) = 0 /\ toUnsignedLong(0) = 0
    <2>1. 0 \in Int /\ 0 \in -Half .. Half - 1 /\ 0 \in 0 .. Span - 1
      BY <1>2
    <2> QED BY <2>1, LongInRange
  <1>5. parseDeltaSeconds(0) = toLong(toUnsignedLong(0) \div pow2[workerIdBits + sequenceBits])
    BY <1>1, Shifts DEF parseDeltaSeconds
  <1>6. 0 \div pow2[workerIdBits + sequenceBits] = 0
    <2> DEFINE p == pow2[workerIdBits + sequenceBits]
    <2>1. p \in Nat \ {0} /\ 0 \in 0 .. p - 1
      BY <1>1, LayoutFills, Pow2IsPositive
    <2> HIDE DEF p
    <2>2. (0 * p + 0) \div p = 0
      BY <2>1, Division
    <2> QED BY <2>1, <2>2 DEF p
  <1> QED BY <1>3, <1>4, <1>5, <1>6
=============================================================================
