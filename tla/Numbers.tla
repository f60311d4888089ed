-------------------------------- MODULE Numbers --------------------------------
(***************************************************************************)
(* Facts about numbers the proofs share: a set that holds 0 and every       *)
(* successor has all of Nat, a function defined by recursion exists, and    *)
(* division by a divisor that is not a literal.                             *)
(***************************************************************************)
EXTENDS Integers, WellFoundedInduction, TLAPS

Below == {p \in Nat \X Nat : p[1] < p[2]}

LEMMA BelowWellFounded == IsWellFoundedOn(Below, Nat)
<1>1. OpToRel(<, Nat) = Below
  BY DEF OpToRel, Below
<1>2. QED
  BY <1>1, NatLessThanWellFounded

\* Induction, stated of a set.
LEMMA EveryNumber ==
    ASSUME NEW S, 0 \in S, \A n \in Nat : n \in S => n + 1 \in S
    PROVE  Nat \subseteq S
<1> DEFINE T == Nat \ S
<1>1. SUFFICES ASSUME T # {} PROVE FALSE
  OBVIOUS
<1>2. T \subseteq Nat
  OBVIOUS
<1> HIDE DEF T
<1>3. PICK n \in T : \A m \in T : <<m, n>> \notin Below
  BY <1>1, <1>2, BelowWellFounded, WFMin
<1>4. n \in Nat /\ n # 0 /\ n \notin S
  BY DEF T
<1>5. n - 1 \in Nat /\ n = (n - 1) + 1 /\ <<n - 1, n>> \in Below
  BY <1>4 DEF Below
<1>6. n - 1 \in S
  BY <1>3, <1>5 DEF T
<1>7. QED
  BY <1>4, <1>5, <1>6

-----------------------------------------------------------------------------
(* Recursion: a first value in X, and a step for every number.             *)

\* The values up to the n-th, as a finite function.
UpTo(X, a, F, f, n) ==
    /\ f \in [0..n -> X]
    /\ f[0] = a
    /\ \A i \in 1..n : f[i] = F[i][f[i - 1]]

LEMMA UpToExists ==
    ASSUME NEW X, NEW a \in X, NEW F \in [Nat -> [X -> X]]
    PROVE  \A n \in Nat : \E f : UpTo(X, a, F, f, n)
<1> DEFINE S == {n \in Nat : \E f : UpTo(X, a, F, f, n)}
<1>1. 0 \in S
  <2>1. UpTo(X, a, F, [i \in 0..0 |-> a], 0)
    BY DEF UpTo
  <2>2. QED
    BY <2>1
<1>2. ASSUME NEW n \in Nat, n \in S PROVE n + 1 \in S
  <2>1. PICK f : UpTo(X, a, F, f, n)
    BY <1>2
  <2>2. PICK g : g = [i \in 0..n + 1 |-> IF i <= n THEN f[i] ELSE F[n + 1][f[n]]]
    OBVIOUS
  <2>3. g[n + 1] = F[n + 1][f[n]] /\ \A i \in 0..n : g[i] = f[i]
    BY <2>2
  <2>4. DOMAIN g = 0..n + 1 /\ g = [i \in 0..n + 1 |-> g[i]]
    BY <2>2
  <2>5. \A i \in 0..n : f[i] \in X
    BY <2>1 DEF UpTo
  <2>6. \A i \in 0..n + 1 : g[i] \in X
    <3> SUFFICES ASSUME NEW i \in 0..n + 1 PROVE g[i] \in X
        OBVIOUS
    <3>1. CASE i = n + 1
      <4>1. f[n] \in X
        BY <2>5
      <4>2. F[n + 1][f[n]] \in X
        BY <4>1
      <4>3. QED
        BY <2>3, <3>1, <4>2
    <3>2. CASE i \in 0..n
      BY <2>3, <2>5, <3>2
    <3>3. QED
      BY <3>1, <3>2
  <2>7. g \in [0..n + 1 -> X] /\ g[0] = a
    <3>1. [i \in 0..n + 1 |-> g[i]] \in [0..n + 1 -> X]
      BY <2>6
    <3>2. g \in [0..n + 1 -> X]
      BY <2>4, <3>1, Zenon
    <3>3. 0 \in 0..n /\ f[0] = a
      BY <2>1 DEF UpTo
    <3>4. QED
      BY <2>3, <3>2, <3>3
  <2>8. \A i \in 1..n + 1 : g[i] = F[i][g[i - 1]]
    <3> SUFFICES ASSUME NEW i \in 1..n + 1 PROVE g[i] = F[i][g[i - 1]]
        OBVIOUS
    <3>1. i - 1 \in 0..n /\ g[i - 1] = f[i - 1]
      BY <2>3
    <3>2. CASE i = n + 1
      BY <2>3, <3>1, <3>2
    <3>3. CASE i \in 1..n
      BY <2>1, <2>3, <3>1, <3>3 DEF UpTo
    <3>4. QED
      BY <3>2, <3>3
  <2>9. UpTo(X, a, F, g, n + 1)
    BY <2>7, <2>8 DEF UpTo
  <2>10. QED
    BY <2>9
<1> HIDE DEF S
<1>3. Nat \subseteq S
  BY <1>1, <1>2, EveryNumber
<1>4. QED
  BY <1>3 DEF S

LEMMA UpToUnique ==
    ASSUME NEW X, NEW a, NEW F, NEW m \in Nat, NEW n \in Nat, NEW f, NEW g,
           UpTo(X, a, F, f, m), UpTo(X, a, F, g, n)
    PROVE  \A i \in Nat : i <= m /\ i <= n => f[i] = g[i]
<1> DEFINE S == {i \in Nat : i <= m /\ i <= n => f[i] = g[i]}
<1>1. 0 \in S
  BY DEF UpTo
<1>2. ASSUME NEW i \in Nat, i \in S PROVE i + 1 \in S
  <2>1. SUFFICES ASSUME i + 1 <= m, i + 1 <= n PROVE f[i + 1] = g[i + 1]
    OBVIOUS
  <2>2. f[i + 1] = F[i + 1][f[(i + 1) - 1]] /\ g[i + 1] = F[i + 1][g[(i + 1) - 1]] /\ (i + 1) - 1 = i
    BY <2>1 DEF UpTo
  <2>3. QED
    BY <1>2, <2>1, <2>2
<1> HIDE DEF S
<1>3. Nat \subseteq S
  BY <1>1, <1>2, EveryNumber
<1>4. QED
  BY <1>3 DEF S

\* So the recursion has a solution, and the definition of a recursive function chooses one.
Solves(h, a, F) == \A n \in Nat : h[n] = IF n = 0 THEN a ELSE F[n][h[n - 1]]

LEMMA RecursionExists ==
    ASSUME NEW X, NEW a \in X, NEW F \in [Nat -> [X -> X]]
    PROVE  \E h \in [Nat -> X] : Solves(h, a, F)
<1> DEFINE Of(n) == CHOOSE f : UpTo(X, a, F, f, n)
           h == [n \in Nat |-> Of(n)[n]]
<1>1. \A n \in Nat : UpTo(X, a, F, Of(n), n)
  BY UpToExists
<1> HIDE DEF Of
<1>2. \A n \in Nat : h[n] = IF n = 0 THEN a ELSE F[n][h[n - 1]]
  <2> SUFFICES ASSUME NEW n \in Nat PROVE h[n] = IF n = 0 THEN a ELSE F[n][h[n - 1]]
    OBVIOUS
  <2>1. CASE n = 0
    BY <1>1, <2>1 DEF UpTo
  <2>2. CASE n # 0
    <3>1. n - 1 \in Nat
      BY <2>2
    <3>2. Of(n)[n] = F[n][Of(n)[n - 1]]
      BY <1>1, <2>2 DEF UpTo
    <3>3. Of(n)[n - 1] = Of(n - 1)[n - 1]
      BY <1>1, <3>1, UpToUnique
    <3>4. h[n] = Of(n)[n] /\ h[n - 1] = Of(n - 1)[n - 1]
      BY <3>1
    <3>5. QED
      BY <2>2, <3>2, <3>3, <3>4
  <2>3. QED
    BY <2>1, <2>2
<1>3. \A n \in Nat : Of(n)[n] \in X
  BY <1>1 DEF UpTo
<1>4. h \in [Nat -> X]
  BY <1>3
<1> HIDE DEF h
<1>5. QED
  BY <1>2, <1>4, Zenon DEF Solves

\* A geometric sequence.
LEMMA GeometricExists ==
    ASSUME NEW a \in Nat, NEW r \in Nat
    PROVE  \E h : h = [n \in Nat |-> IF n = 0 THEN a ELSE r * h[n - 1]]
<1> DEFINE F == [n \in Nat |-> [k \in Nat |-> r * k]]
<1>1. \A k \in Nat : r * k \in Nat
  OBVIOUS
<1>2. F \in [Nat -> [Nat -> Nat]]
  BY <1>1
<1>3. \A n, k \in Nat : F[n][k] = r * k
  OBVIOUS
<1> HIDE DEF F
<1>4. PICK h \in [Nat -> Nat] : Solves(h, a, F)
  BY <1>2, RecursionExists, Zenon
<1>5. \A n \in Nat : h[n] = IF n = 0 THEN a ELSE r * h[n - 1]
  <2> SUFFICES ASSUME NEW n \in Nat PROVE h[n] = IF n = 0 THEN a ELSE r * h[n - 1]
    OBVIOUS
  <2>1. n # 0 => n - 1 \in Nat /\ h[n - 1] \in Nat
    OBVIOUS
  <2>2. n # 0 => F[n][h[n - 1]] = r * h[n - 1]
    BY <1>3, <2>1
  <2>3. QED
    BY <1>4, <2>2 DEF Solves
<1>6. h = [n \in Nat |-> h[n]]
  OBVIOUS
<1>7. [n \in Nat |-> h[n]] = [n \in Nat |-> IF n = 0 THEN a ELSE r * h[n - 1]]
  BY <1>5, Zenon
<1>8. QED
  BY <1>6, <1>7, Zenon

\* And a solution steps by the ratio.
LEMMA GeometricSteps ==
    ASSUME NEW a \in Nat, NEW r \in Nat, NEW h,
           h = [n \in Nat |-> IF n = 0 THEN a ELSE r * h[n - 1]]
    PROVE  h[0] = a /\ \A n \in Nat : h[n + 1] = r * h[n] /\ h[n] \in Nat
<1>1. ASSUME NEW n \in Nat PROVE h[n] = IF n = 0 THEN a ELSE r * h[n - 1]
  BY Zenon
<1>2. h[0] = a
  BY <1>1
<1>3. ASSUME NEW n \in Nat PROVE h[n + 1] = r * h[n]
  <2>1. n + 1 \in Nat /\ n + 1 # 0 /\ (n + 1) - 1 = n
    OBVIOUS
  <2>2. h[n + 1] = IF n + 1 = 0 THEN a ELSE r * h[(n + 1) - 1]
    BY <1>1, <2>1, Zenon
  <2>3. QED
    BY <2>1, <2>2, Zenon
<1> DEFINE S == {n \in Nat : h[n] \in Nat}
<1>4. 0 \in S
  BY <1>2
<1>5. ASSUME NEW n \in Nat, n \in S PROVE n + 1 \in S
  <2>1. r * h[n] \in Nat
    <3>1. h[n] \in Nat
      BY <1>5
    <3> HIDE <1>5
    <3>2. \A k \in Nat : r * k \in Nat
      OBVIOUS
    <3>3. QED
      BY <3>1, <3>2, Zenon
  <2>2. h[n + 1] = r * h[n]
    BY <1>3, Zenon
  <2>3. h[n + 1] \in Nat
    BY <2>1, <2>2, Zenon
  <2>4. n + 1 \in Nat
    OBVIOUS
  <2>5. QED
    BY <2>3, <2>4, Zenon
<1> HIDE DEF S
<1>6. Nat \subseteq S
  BY <1>4, <1>5, EveryNumber
<1>7. \A n \in Nat : h[n] \in Nat
  BY <1>6, Zenon DEF S
<1>8. QED
  BY <1>2, <1>3, <1>7, Zenon

-----------------------------------------------------------------------------
(* Products and quotients.                                                 *)

LEMMA ProductPositive ==
    ASSUME NEW a \in Int, NEW b \in Int, a > 0, b > 0
    PROVE  a * b \in Int /\ a * b > 0
OBVIOUS

\* A product is negative, none or positive as one factor when the other is positive.
LEMMA ProductSign ==
    ASSUME NEW a \in Int, NEW b \in Int, b > 0
    PROVE  a * b \in Int /\ (a > 0 <=> a * b > 0) /\ (a < 0 <=> a * b < 0) /\ (a = 0 <=> a * b = 0)
OBVIOUS

LEMMA ProductOrder ==
    ASSUME NEW a \in Int, NEW b \in Int, NEW c \in Int, c > 0
    PROVE  (a < b <=> a * c < b * c) /\ (a <= b <=> a * c <= b * c) /\ (a = b <=> a * c = b * c)
OBVIOUS

\* Division by b leaves what is less than b.
LEMMA Quotient ==
    ASSUME NEW a \in Int, NEW b \in Int, b > 0
    PROVE  /\ a \div b \in Int /\ a % b \in Int
           /\ 0 <= a % b /\ a % b < b
           /\ a = b * (a \div b) + (a % b)
OBVIOUS

LEMMA QuotientIs ==
    ASSUME NEW b \in Int, b > 0, NEW q \in Int, NEW r \in Int, 0 <= r, r < b
    PROVE  (b * q + r) \div b = q /\ (b * q + r) % b = r
OBVIOUS
================================================================================
