------------------------------ MODULE ReadsProofs ------------------------------
(***************************************************************************)
(* Theorems about the iterators, for any pages and cursors a server may     *)
(* hand out, any candles, limits and bounds: what a walk yielded is the     *)
(* start of the server's list, newest candle first, and all of it when the  *)
(* walk ended by itself; and its requests are bounded by the data.          *)
(***************************************************************************)
EXTENDS Reads, Numbers, FiniteSetTheorems, TLAPS

-----------------------------------------------------------------------------
(* A set of times, newest first. *)

\* A time's rank is a place in its set, and the later one is before the earlier.
LEMMA RankType ==
    ASSUME NEW S, IsFiniteSet(S), S \subseteq Int, NEW t \in S
    PROVE  Cardinality(S) \in Nat /\ Rank(S, t) \in 1..Cardinality(S) /\ Rank(S, t) \in Nat
<1> DEFINE A == {u \in S : u >= t}
<1>1. t \in A /\ A \in SUBSET S
  OBVIOUS
<1>2. Cardinality(S) \in Nat
  BY FS_CardinalityType
<1> HIDE DEF A
<1>3. IsFiniteSet(A) /\ Cardinality(A) <= Cardinality(S)
  BY <1>1, FS_Subset
<1>4. Cardinality(A) \in Nat
  BY <1>3, FS_CardinalityType
<1>5. Cardinality(A) # 0
  BY <1>1, <1>3, FS_EmptySet
<1>6. Cardinality(A) \in 1..Cardinality(S)
  BY <1>2, <1>3, <1>4, <1>5
<1>7. Rank(S, t) = Cardinality(A)
  BY DEF Rank, A
<1> QED
  BY <1>2, <1>4, <1>6, <1>7

LEMMA RankOrder ==
    ASSUME NEW S, IsFiniteSet(S), S \subseteq Int, NEW t \in S, NEW v \in S, t < v
    PROVE  Rank(S, v) < Rank(S, t)
<1> DEFINE A == {u \in S : u >= v}
           B == {u \in S : u >= t}
<1>0. t \in Int /\ v \in Int /\ \A u \in S : u \in Int
  OBVIOUS
<1>1. A \in SUBSET B /\ B \in SUBSET S /\ t \in B /\ t \notin A
  <2>1. \A u \in S : u >= v => u >= t
    BY <1>0
  <2>2. A \subseteq B /\ B \subseteq S
    BY <2>1
  <2>3. t \in B /\ t \notin A
    BY <1>0
  <2> QED
    BY <2>2, <2>3
<1> HIDE DEF A, B
<1>2. IsFiniteSet(B)
  BY <1>1, FS_Subset
<1>3. IsFiniteSet(A) /\ Cardinality(A) <= Cardinality(B) /\ (Cardinality(B) = Cardinality(A) => B = A)
  BY <1>1, <1>2, FS_Subset
<1>4. Cardinality(A) \in Nat /\ Cardinality(B) \in Nat /\ Cardinality(A) # Cardinality(B)
  BY <1>1, <1>2, <1>3, FS_CardinalityType
<1>5. Cardinality(A) < Cardinality(B)
  BY <1>3, <1>4
<1>6. Rank(S, v) = Cardinality(A) /\ Rank(S, t) = Cardinality(B)
  BY DEF Rank, A, B
<1> QED
  BY <1>5, <1>6

\* What is later among some is later among more.
LEMMA RankGrows ==
    ASSUME NEW S, IsFiniteSet(S), S \subseteq Int, NEW t \in S, NEW v \in S, t <= v
    PROVE  Rank(S, v) <= Rank(S, t)
<1>1. Rank(S, v) \in Nat /\ Rank(S, t) \in Nat /\ t \in Int /\ v \in Int
  BY RankType
<1>2. CASE t = v
  BY <1>1, <1>2
<1>3. CASE t < v
  <2>1. Rank(S, v) < Rank(S, t)
    BY <1>3, RankOrder
  <2> QED
    BY <1>1, <2>1
<1> QED
  BY <1>1, <1>2, <1>3

\* Every rank is some element's: the ranks of a finite set are as many as its elements.
LEMMA DescendingIs ==
    ASSUME NEW S, IsFiniteSet(S), S \subseteq Int
    PROVE  /\ Cardinality(S) \in Nat
           /\ Descending(S) \in Seq(S) /\ Len(Descending(S)) = Cardinality(S)
           /\ \A i \in 1..Cardinality(S) : Descending(S)[i] \in S /\ Rank(S, Descending(S)[i]) = i
           /\ \A t \in S : Rank(S, t) \in 1..Cardinality(S) /\ Descending(S)[Rank(S, t)] = t
<1> DEFINE n == Cardinality(S)
           f == [t \in S |-> Rank(S, t)]
<1>1. n \in Nat
  BY FS_CardinalityType
<1>2. \A t \in S : Rank(S, t) \in 1..n
  BY RankType
<1>3. \A t, v \in S : Rank(S, t) = Rank(S, v) => t = v
  <2>1. SUFFICES ASSUME NEW t \in S, NEW v \in S, Rank(S, t) = Rank(S, v), t # v PROVE FALSE
    OBVIOUS
  <2>2. t < v \/ v < t
    BY <2>1
  <2>3. Rank(S, t) \in Int /\ Rank(S, v) \in Int
    BY <1>1, <1>2
  <2>4. Rank(S, t) < Rank(S, v) \/ Rank(S, v) < Rank(S, t)
    BY <2>2, RankOrder
  <2> QED
    BY <2>1, <2>3, <2>4
<1>4. f \in Injection(S, 1..n)
  BY <1>2, <1>3 DEF Injection, IsInjective
<1>5. IsFiniteSet(1..n) /\ Cardinality(1..n) = n
  BY <1>1, FS_Interval
<1>6. f \in Surjection(S, 1..n)
  BY <1>4, <1>5, FS_Injection
<1>7. \A i \in 1..n : \E t \in S : Rank(S, t) = i
  BY <1>6 DEF Surjection
<1>8. Descending(S) = [i \in 1..n |-> CHOOSE t \in S : Rank(S, t) = i]
  BY DEF Descending
<1>9. ASSUME NEW i \in 1..n PROVE Descending(S)[i] \in S /\ Rank(S, Descending(S)[i]) = i
  <2>1. Descending(S)[i] = CHOOSE t \in S : Rank(S, t) = i
    BY <1>8
  <2> QED
    BY <1>7, <2>1
<1>10. DOMAIN Descending(S) = 1..n
  BY <1>8
<1>11. Descending(S) \in [1..n -> S]
  BY <1>8, <1>9, <1>10
<1>12. Descending(S) \in Seq(S) /\ Len(Descending(S)) = n
  BY <1>1, <1>11
<1>13. \A t \in S : Descending(S)[Rank(S, t)] = t
  BY <1>2, <1>3, <1>9
<1> QED
  BY <1>1, <1>2, <1>9, <1>12, <1>13

\* A sequence that falls.
Falls(s) == \A i, j \in 1..Len(s) : i < j => s[i] > s[j]
\* One in which nothing of S is missing above what it holds.
Gapless(s, S) == \A i \in 1..Len(s), t \in S : t >= s[i] => \E j \in 1..Len(s) : s[j] = t
Holds(s, t) == \E j \in 1..Len(s) : s[j] = t

\* Such a sequence is the start of its set, newest first, and is all of it when it holds all.
LEMMA FallingIsPrefix ==
    ASSUME NEW S, IsFiniteSet(S), S \subseteq Int, NEW s \in Seq(S), Falls(s), Gapless(s, S)
    PROVE  /\ IsPrefix(s, Descending(S))
           /\ (\A t \in S : Holds(s, t)) => s = Descending(S)
<1> DEFINE n == Len(s)
           c == Cardinality(S)
           d == Descending(S)
<1>0. n \in Nat /\ \A i \in 1..n : s[i] \in S
  OBVIOUS
<1>1. n \in Nat /\ c \in Nat /\ d \in Seq(S) /\ Len(d) = c
  <2>1. c \in Nat /\ d \in Seq(S) /\ Len(d) = c
    BY DescendingIs
  <2> QED
    BY <1>0, <2>1
<1>2. ASSUME NEW i \in 1..n PROVE i <= c /\ d[i] = s[i]
  <2> DEFINE A == {t \in S : t >= s[i]}
             f == [k \in 1..i |-> s[k]]
  <2>1. ASSUME NEW k \in 1..i PROVE k \in 1..n /\ s[k] \in A
    <3>1. k \in 1..n /\ s[k] \in S /\ s[i] \in S
      BY <1>1
    <3>2. s[k] \in Int /\ s[i] \in Int
      BY <3>1
    <3>3. i \in 1..n /\ (k = i \/ k < i)
      BY <1>0
    <3>4. k < i => s[k] > s[i]
      BY <3>1, <3>3 DEF Falls
    <3>5. s[k] >= s[i]
      BY <3>2, <3>3, <3>4
    <3> QED
      BY <3>1, <3>5
  <2>2. \A k, l \in 1..i : f[k] = f[l] => k = l
    <3>1. SUFFICES ASSUME NEW k \in 1..i, NEW l \in 1..i, s[k] = s[l], k # l PROVE FALSE
      BY DEF f
    <3>2. k < l \/ l < k
      BY <3>1
    <3>3. k \in 1..n /\ l \in 1..n /\ s[k] \in Int /\ s[l] \in Int
      BY <2>1
    <3>4. s[k] > s[l] \/ s[l] > s[k]
      BY <3>2, <3>3 DEF Falls
    <3> QED
      BY <3>1, <3>3, <3>4
  <2>3. \A t \in A : \E k \in 1..i : f[k] = t
    <3>1. SUFFICES ASSUME NEW t \in A PROVE \E k \in 1..i : s[k] = t
      BY DEF f
    <3>2. PICK j \in 1..n : s[j] = t
      BY DEF Gapless
    <3>3. ~(i < j)
      <4>1. SUFFICES ASSUME i < j PROVE FALSE
        OBVIOUS
      <4>2. s[i] > s[j]
        BY <4>1 DEF Falls
      <4>3. s[i] \in S /\ s[j] >= s[i] /\ s[j] \in S
        BY <1>1, <3>2
      <4>4. s[i] \in Int /\ s[j] \in Int
        BY <4>3
      <4> QED
        BY <4>2, <4>3, <4>4
    <3>4. j \in 1..i
      BY <1>1, <3>3
    <3> QED
      BY <3>2, <3>4
  <2>4. f \in [1..i -> A]
    BY <2>1
  <2> HIDE DEF f, A
  <2>5. f \in Bijection(1..i, A)
    BY <2>2, <2>3, <2>4 DEF Bijection, Injection, IsInjective, Surjection
  <2>6. IsFiniteSet(1..i) /\ Cardinality(1..i) = i
    BY <1>1, FS_Interval
  <2>7. Cardinality(A) = i
    BY <2>5, <2>6, FS_Bijection DEF ExistsBijection
  <2>8. s[i] \in S /\ Rank(S, s[i]) = i
    BY <1>1, <2>7 DEF Rank, A
  <2>9. \A t \in S : Rank(S, t) \in 1..c /\ d[Rank(S, t)] = t
    BY DescendingIs
  <2>10. i \in 1..c /\ d[i] = s[i]
    BY <2>8, <2>9
  <2> QED
    BY <1>1, <2>10
<1>3. n <= c
  BY <1>1, <1>2
<1>4. SubSeq(s, 1, n) = SubSeq(d, 1, n)
  BY <1>1, <1>2, <1>3
<1>5. IsPrefix(s, d)
  BY <1>1, <1>3, <1>4 DEF IsPrefix
<1>6. ASSUME \A t \in S : Holds(s, t) PROVE s = d
  <2>1. c = n
    <3>1. SUFFICES ASSUME n < c PROVE FALSE
      BY <1>1, <1>3
    <3>2. n + 1 \in 1..c
      BY <1>1, <3>1
    <3>3. d[n + 1] \in S /\ Rank(S, d[n + 1]) = n + 1
      BY <3>2, DescendingIs
    <3>4. PICK j \in 1..n : s[j] = d[n + 1]
      BY <1>6, <3>3 DEF Holds
    <3>5. d[j] = d[n + 1] /\ j \in 1..c
      BY <1>1, <1>2, <3>2, <3>4
    <3>6. Rank(S, d[j]) = j
      BY <3>5, DescendingIs
    <3> QED
      BY <1>1, <3>3, <3>5, <3>6
  <2> QED
    BY <1>1, <1>2, <2>1
<1> QED
  BY <1>5, <1>6

\* Read backwards it rises, and holds its set.
LEMMA AscendingIs ==
    ASSUME NEW S, IsFiniteSet(S), S \subseteq Int, NEW s, s = Reverse(Descending(S))
    PROVE  /\ s \in Seq(S) /\ (s = <<>> <=> S = {})
           /\ \A i, j \in 1..Len(s) : i < j => s[i] < s[j]
           /\ \A t \in S : Holds(s, t)
<1> DEFINE n == Cardinality(S)
           d == Descending(S)
<1>1. n \in Nat /\ d \in Seq(S) /\ Len(d) = n
  BY DescendingIs
<1> HIDE DEF d, n
<1>2. s = [i \in 1..n |-> d[(n - i) + 1]]
  BY <1>1 DEF Reverse, d
<1>3. \A i \in 1..n : (n - i) + 1 \in 1..n /\ d[(n - i) + 1] \in S
  BY <1>1
<1>4. s \in Seq(S) /\ Len(s) = n /\ \A i \in 1..n : s[i] = d[(n - i) + 1]
  <2>1. s \in [1..n -> S]
    BY <1>2, <1>3
  <2> QED
    BY <1>1, <1>2, <2>1
<1>5. s = <<>> <=> S = {}
  <2>1. n = 0 <=> S = {}
    BY FS_EmptySet DEF n
  <2> QED
    BY <1>1, <1>4, <2>1
<1>6. ASSUME NEW i \in 1..n, NEW j \in 1..n, i < j PROVE s[i] < s[j]
  <2> DEFINE k == (n - i) + 1
             l == (n - j) + 1
  <2>1. k \in 1..n /\ l \in 1..n /\ k > l
    BY <1>1, <1>6
  <2> HIDE DEF k, l
  <2>2. d[k] \in S /\ d[l] \in S /\ Rank(S, d[k]) = k /\ Rank(S, d[l]) = l
    BY <2>1, DescendingIs DEF d, n
  <2>3. ~(d[l] <= d[k])
    <3>1. SUFFICES ASSUME d[l] <= d[k] PROVE FALSE
      OBVIOUS
    <3>2. Rank(S, d[k]) <= Rank(S, d[l])
      BY <2>2, <3>1, RankGrows
    <3> QED
      BY <1>1, <2>1, <2>2, <3>2
  <2>4. d[k] < d[l]
    <3>1. d[k] \in Int /\ d[l] \in Int
      BY <2>2
    <3> QED
      BY <2>3, <3>1
  <2> QED
    BY <1>4, <2>4 DEF k, l
<1>7. ASSUME NEW t \in S PROVE Holds(s, t)
  <2> DEFINE r == Rank(S, t)
             k == (n - r) + 1
  <2>1. r \in 1..n /\ d[r] = t
    BY DescendingIs DEF d, n
  <2> HIDE DEF r
  <2>2. k \in 1..n /\ (n - k) + 1 = r
    BY <1>1, <2>1
  <2>3. s[k] = t
    BY <1>4, <2>1, <2>2
  <2> QED
    BY <1>4, <2>2, <2>3 DEF Holds
<1> QED
  BY <1>4, <1>5, <1>6, <1>7

-----------------------------------------------------------------------------
(* FetchOHLCVHistory. *)

CandlesType ==
    /\ walk \in [of : {"candles"}, start : Times \cup {0}, end : Times \cup {0}, limit : Limits]
    /\ served \in [times : SUBSET Times, honours : BOOLEAN, malformed : BOOLEAN]
    /\ pc \in {"ask", "yield", "done"} /\ cursor \in Nat
    /\ page \in Seq(Times) /\ out \in Seq(InWindow)

\* The next request ends no later than the walk does, and the window's candles after it were yielded.
Asking ==
    /\ walk.end # 0 => cursor # 0 /\ cursor <= walk.end
    /\ \A t \in InWindow : Holds(out, t) <=> cursor # 0 /\ t > cursor

\* What is left of a response is served, in the walk's bound, rises and misses nothing in between, and the
\* window's candles after its last were yielded.
Rises(s) == \A i, j \in 1..Len(s) : i < j => s[i] < s[j]
Yielding ==
    /\ page # <<>> /\ Rises(page)
    /\ \A i \in 1..Len(page) : page[i] \in Until(walk.end)
    /\ \A t \in Until(walk.end) : t >= page[1] /\ t <= Last(page) => Holds(page, t)
    /\ \A t \in InWindow : Holds(out, t) <=> t > Last(page)

CandlesInv ==
    /\ CandlesType
    /\ Falls(out) /\ Gapless(out, InWindow)
    /\ pc = "ask" => Asking
    /\ pc = "yield" => Yielding
    /\ why = "end" => pc = "done" /\ \A t \in InWindow : Holds(out, t)

LEMMA HoldsAppended ==
    ASSUME NEW S, NEW s \in Seq(S), NEW item \in S, NEW t
    PROVE  Holds(Append(s, item), t) <=> Holds(s, t) \/ t = item
<1> DEFINE r == Append(s, item)
           n == Len(s)
<1>1. n \in Nat /\ Len(r) = n + 1 /\ r[n + 1] = item /\ \A i \in 1..n : r[i] = s[i]
  OBVIOUS
<1> HIDE DEF r, n
<1>2. 1..n + 1 = (1..n) \cup {n + 1}
  BY <1>1
<1> QED
  BY <1>1, <1>2 DEF Holds, r, n

\* An item before everything that was yielded, with nothing between, may be yielded next.
LEMMA NextKeeps ==
    ASSUME NEW S, S \subseteq Int, NEW s \in Seq(S), Falls(s), NEW item \in S,
           \A t \in S : Holds(s, t) <=> t > item,
           NEW r, r = Append(s, item)
    PROVE  /\ r \in Seq(S) /\ Falls(r) /\ Gapless(r, S)
           /\ \A t \in S : Holds(r, t) <=> t >= item
<1> DEFINE n == Len(s)
<1>1. n \in Nat /\ r \in Seq(S) /\ Len(r) = n + 1 /\ r[n + 1] = item /\ \A i \in 1..n : r[i] = s[i] /\ s[i] \in S
  OBVIOUS
<1>2. ASSUME NEW i \in 1..n PROVE s[i] > item
  <2>1. Holds(s, s[i]) /\ s[i] \in S
    BY <1>1 DEF Holds
  <2> QED
    BY <2>1
<1>3. Falls(r)
  <2> SUFFICES ASSUME NEW i \in 1..n + 1, NEW j \in 1..n + 1, i < j PROVE r[i] > r[j]
    BY <1>1 DEF Falls
  <2>1. i \in 1..n /\ (j \in 1..n \/ j = n + 1)
    BY <1>1
  <2>2. CASE j \in 1..n
    BY <1>1, <2>1, <2>2 DEF Falls
  <2>3. CASE j = n + 1
    BY <1>1, <1>2, <2>1, <2>3
  <2> QED
    BY <2>1, <2>2, <2>3
<1>4. \A t \in S : t \in Int
  OBVIOUS
<1>5. \A t \in S : Holds(r, t) <=> t >= item
  BY <1>4, HoldsAppended
<1>6. \A i \in 1..Len(r) : r[i] >= item /\ r[i] \in S
  <2>1. ASSUME NEW i \in 1..n + 1 PROVE r[i] >= item /\ r[i] \in S
    <3>1. i \in 1..n \/ i = n + 1
      BY <1>1
    <3>2. CASE i \in 1..n
      <4>1. r[i] = s[i] /\ s[i] \in S /\ s[i] > item
        BY <1>1, <1>2, <3>2
      <4>2. s[i] \in Int /\ item \in Int
        BY <1>4, <4>1
      <4> QED
        BY <4>1, <4>2
    <3>3. CASE i = n + 1
      BY <1>1, <1>4, <3>3
    <3> QED
      BY <3>1, <3>2, <3>3
  <2> QED
    BY <1>1, <2>1
<1>7. Gapless(r, S)
  <2> SUFFICES ASSUME NEW i \in 1..Len(r), NEW t \in S, t >= r[i] PROVE Holds(r, t)
    BY DEF Gapless, Holds
  <2>1. t \in Int /\ r[i] \in Int /\ r[i] >= item /\ item \in Int
    BY <1>4, <1>6
  <2>2. t >= item
    BY <2>1
  <2> QED
    BY <1>5, <2>2
<1> QED
  BY <1>1, <1>3, <1>5, <1>7

LEMMA TimesAre ==
    /\ IsFiniteSet(Times) /\ Times \subseteq Int /\ Times \subseteq Nat
    /\ \A t \in Times : t \in Nat /\ t \in Int /\ t # 1
BY ReadsAssumption

LEMMA WindowIs ==
    ASSUME CandlesType
    PROVE  /\ InWindow \subseteq Until(walk.end) /\ Until(walk.end) \subseteq Times
           /\ IsFiniteSet(InWindow) /\ InWindow \subseteq Int /\ InWindow \subseteq Nat
<1>1. InWindow \subseteq Until(walk.end) /\ Until(walk.end) \subseteq Times
  BY DEF CandlesType, InWindow, Until
<1>2. InWindow \in SUBSET Times
  BY <1>1
<1> QED
  BY <1>1, <1>2, TimesAre, FS_Subset

\* What a server answers: the newest of its candles, oldest first, none missing above the first.
LEMMA LatestIs ==
    ASSUME NEW ts \in SUBSET Times, NEW n \in Limits, NEW s, s = Reverse(Descending(Latest(ts, n)))
    PROVE  /\ s \in Seq(ts) /\ Rises(s) /\ (s = <<>> <=> ts = {})
           /\ \A i \in 1..Len(s) : \A t \in ts : t >= s[i] => Holds(s, t)
<1> DEFINE L == Latest(ts, n)
<1>1. L \in SUBSET ts /\ L \subseteq ts /\ ts \subseteq Int /\ IsFiniteSet(ts) /\ n \in Nat /\ n >= 1
  <2>1. L \subseteq ts
    BY DEF Latest
  <2>2. ts \subseteq Int /\ IsFiniteSet(ts)
    BY TimesAre, FS_Subset
  <2>3. n \in Nat /\ n # 0
    BY ReadsAssumption
  <2> QED
    BY <2>1, <2>2, <2>3
<1>2. IsFiniteSet(L) /\ L \subseteq Int
  BY <1>1, FS_Subset
<1>3. \A t \in ts : t \in L <=> Rank(ts, t) <= n
  BY DEF Latest
<1> HIDE DEF L
<1>4. s = Reverse(Descending(L))
  BY DEF L
<1>5. s \in Seq(L) /\ (s = <<>> <=> L = {}) /\ Rises(s) /\ \A t \in L : Holds(s, t)
  BY <1>2, <1>4, AscendingIs DEF Rises
<1>6. s \in Seq(ts) /\ \A i \in 1..Len(s) : s[i] \in L /\ s[i] \in ts
  <2>1. \A i \in 1..Len(s) : s[i] \in L
    BY <1>5
  <2>2. \A i \in 1..Len(s) : s[i] \in ts
    BY <1>1, <2>1
  <2>3. s \in [1..Len(s) -> ts] /\ Len(s) \in Nat
    BY <1>5, <2>2
  <2> QED
    BY <2>1, <2>2, <2>3
<1>7. ts = {} <=> L = {}
  <2>1. SUFFICES ASSUME ts # {} PROVE L # {}
    BY <1>1
  <2>2. Cardinality(ts) \in Nat /\ Cardinality(ts) # 0
    BY <1>1, <2>1, FS_CardinalityType, FS_EmptySet
  <2>3. 1 \in 1..Cardinality(ts)
    BY <2>2
  <2>4. PICK t \in ts : Rank(ts, t) = 1
    BY <1>1, <2>3, DescendingIs
  <2> QED
    BY <1>1, <1>3, <2>4
<1>8. ASSUME NEW i \in 1..Len(s), NEW t \in ts, t >= s[i] PROVE Holds(s, t)
  <2>1. s[i] \in L /\ s[i] \in ts
    BY <1>6
  <2>2. Rank(ts, s[i]) <= n
    BY <1>3, <2>1
  <2>3. s[i] <= t /\ s[i] \in Int /\ t \in Int
    BY <1>1, <1>8, <2>1
  <2>4. Rank(ts, t) <= Rank(ts, s[i])
    BY <1>1, <2>1, <2>3, RankGrows
  <2>5. Rank(ts, t) \in Nat /\ Rank(ts, s[i]) \in Nat
    BY <1>1, <2>1, RankType
  <2>6. Rank(ts, t) <= n
    BY <1>1, <2>2, <2>4, <2>5
  <2> QED
    BY <1>3, <1>5, <2>6
<1> QED
  BY <1>5, <1>6, <1>7, <1>8

\* A response that passes the check of its last bar is the newest of what is before the cursor, also from
\* a server that ignores endTime; an empty one says that there is nothing before it.
LEMMA AnswerIs ==
    ASSUME CandlesType, NEW bars, bars = Candles(cursor)
    PROVE  /\ bars \in Seq(Times) /\ Rises(bars) /\ (bars = <<>> => Until(cursor) = {})
           /\ bars # <<>> /\ ~(cursor # 0 /\ Last(bars) > cursor) =>
                 /\ \A i \in 1..Len(bars) : bars[i] \in Until(cursor)
                 /\ \A i \in 1..Len(bars) : \A t \in Until(cursor) : t >= bars[i] => Holds(bars, t)
<1> DEFINE ts == IF served.honours THEN Until(cursor) ELSE served.times
           n == walk.limit
<1>1. ts \in SUBSET Times /\ n \in Limits /\ Until(cursor) \subseteq ts /\ cursor \in Int
  BY DEF CandlesType, Until
<1>2. bars = Reverse(Descending(Latest(ts, n)))
  BY DEF Candles
<1> HIDE DEF ts, n
<1>3. /\ bars \in Seq(ts) /\ Rises(bars) /\ (bars = <<>> <=> ts = {})
      /\ \A i \in 1..Len(bars) : \A t \in ts : t >= bars[i] => Holds(bars, t)
  BY <1>1, <1>2, LatestIs
<1>4. Len(bars) \in Nat /\ \A i \in 1..Len(bars) : bars[i] \in ts /\ bars[i] \in Times
  BY <1>1, <1>3
<1>5. bars \in Seq(Times)
  <2>1. bars \in [1..Len(bars) -> Times]
    BY <1>3, <1>4
  <2> QED
    BY <1>4, <2>1
<1>6. ASSUME bars # <<>>, ~(cursor # 0 /\ Last(bars) > cursor), NEW i \in 1..Len(bars)
      PROVE  bars[i] \in Until(cursor)
  <2> DEFINE m == Len(bars)
  <2>1. m \in 1..m /\ (i = m \/ i < m)
    BY <1>3, <1>4, <1>6
  <2>2. bars[i] \in Int /\ bars[m] \in Int
    BY <1>4, <2>1, TimesAre
  <2>3. i < m => bars[i] < bars[m]
    BY <1>3, <2>1 DEF Rises
  <2>4. bars[i] <= bars[m]
    BY <2>1, <2>2, <2>3
  <2>5. cursor = 0 \/ bars[m] <= cursor
    BY <1>1, <1>6, <2>2 DEF Last
  <2>6. cursor = 0 \/ bars[i] <= cursor
    BY <1>1, <2>2, <2>4, <2>5
  <2>7. bars[i] \in ts
    BY <1>4
  <2> QED
    BY <2>6, <2>7 DEF ts, Until
<1>7. \A i \in 1..Len(bars) : \A t \in Until(cursor) : t >= bars[i] => Holds(bars, t)
  BY <1>1, <1>3
<1> QED
  BY <1>1, <1>3, <1>5, <1>6, <1>7

\* The variables that a step of a walk leaves alone.
LEMMA SameWindow ==
    ASSUME UNCHANGED <<walk, served>>
    PROVE  InWindow' = InWindow /\ Until(walk.end)' = Until(walk.end)
BY DEF InWindow, Until

LEMMA AskKeepsCandles ==
    ASSUME CandlesInv, AskCandles
    PROVE  CandlesInv'
<1>1. CandlesType /\ UNCHANGED <<walk, served, cursor, out>> /\ pc = "ask" /\ why # "end"
  BY DEF CandlesInv, AskCandles
<1>2. InWindow' = InWindow /\ Until(walk.end)' = Until(walk.end)
  BY <1>1, SameWindow
<1>3. Asking
  BY <1>1 DEF CandlesInv
<1>4. (Falls(out) /\ Gapless(out, InWindow))'
  BY <1>1, <1>2 DEF CandlesInv
<1> DEFINE bars == Candles(cursor)
<1>5. /\ bars \in Seq(Times) /\ Rises(bars) /\ (bars = <<>> => Until(cursor) = {})
      /\ bars # <<>> /\ ~(cursor # 0 /\ Last(bars) > cursor) =>
            /\ \A i \in 1..Len(bars) : bars[i] \in Until(cursor)
            /\ \A i \in 1..Len(bars) : \A t \in Until(cursor) : t >= bars[i] => Holds(bars, t)
  BY <1>1, AnswerIs
<1>6. \/ bars = <<>> /\ Ends("end")
      \/ bars # <<>> /\ ~(cursor # 0 /\ Last(bars) > cursor) /\ Yields(bars)
      \/ Ends("error")
  BY DEF AskCandles
<1> HIDE DEF bars
<1>7. ASSUME NEW t \in InWindow, t \notin Until(cursor) PROVE Holds(out, t)
  <2>1. t \in Until(walk.end) /\ t \in Int /\ cursor \in Int
    BY <1>1, WindowIs DEF CandlesType
  <2>2. cursor # 0 /\ t > cursor
    BY <1>7, <2>1 DEF Until
  <2> QED
    BY <1>3, <2>2 DEF Asking
<1>8. CASE bars = <<>> /\ Ends("end")
  <2>1. \A t \in InWindow : Holds(out, t)
    BY <1>5, <1>7, <1>8
  <2>2. CandlesType'
    BY <1>1, <1>2, <1>8 DEF CandlesType, Ends
  <2>3. pc' = "done" /\ why' = "end"
    BY <1>8 DEF Ends
  <2>4. (\A t \in InWindow : Holds(out, t))'
    BY <1>1, <1>2, <2>1
  <2> QED
    BY <1>4, <2>2, <2>3, <2>4 DEF CandlesInv
<1>9. CASE bars # <<>> /\ ~(cursor # 0 /\ Last(bars) > cursor) /\ Yields(bars)
  <2> DEFINE m == Len(bars)
  <2>1. pc' = "yield" /\ page' = bars /\ why' = why
    BY <1>9 DEF Yields
  <2>2. CandlesType'
    BY <1>1, <1>2, <1>5, <2>1 DEF CandlesType
  <2>3. m \in Nat /\ 1 \in 1..m /\ m \in 1..m /\ \A i \in 1..m : bars[i] \in Int
    <3>1. m \in Nat /\ 1 \in 1..m /\ m \in 1..m /\ \A i \in 1..m : bars[i] \in Times
      BY <1>5, <1>9
    <3>2. \A i \in 1..m : bars[i] \in Int
      BY <3>1, TimesAre
    <3> QED
      BY <3>1, <3>2
  <2>4. bars[m] \in Until(cursor) /\ Last(bars) = bars[m] /\ bars[m] \in Int /\ cursor \in Int
    <3>1. bars[m] \in Until(cursor)
      BY <1>5, <1>9, <2>3
    <3>2. cursor \in Int
      BY <1>1 DEF CandlesType
    <3> QED
      BY <2>3, <3>1, <3>2 DEF Last
  <2>5. ASSUME NEW t \in Until(walk.end), t <= Last(bars) PROVE t \in Until(cursor)
    <3>1. t \in Int /\ t \in served.times
      <4>1. t \in Times
        BY <1>1, WindowIs
      <4> QED
        BY <4>1, TimesAre DEF Until
    <3>2. cursor = 0 \/ bars[m] <= cursor
      BY <2>4 DEF Until
    <3>3. cursor = 0 \/ t <= cursor
      BY <2>4, <2>5, <3>1, <3>2
    <3> QED
      BY <3>1, <3>3 DEF Until
  <2>6. ASSUME NEW i \in 1..m PROVE bars[i] \in Until(walk.end)
    <3>1. bars[i] \in Until(cursor) /\ bars[i] \in Int
      BY <1>5, <1>9, <2>3
    <3>2. walk.end = 0 \/ (cursor # 0 /\ cursor <= walk.end /\ walk.end \in Int)
      BY <1>1, <1>3, TimesAre DEF Asking, CandlesType
    <3>3. walk.end = 0 \/ bars[i] <= walk.end
      BY <2>4, <3>1, <3>2 DEF Until
    <3> QED
      BY <3>1, <3>3 DEF Until
  <2>7. ASSUME NEW t \in Until(walk.end), t >= bars[1], t <= Last(bars) PROVE Holds(bars, t)
    BY <1>5, <1>9, <2>3, <2>5, <2>7
  <2>8. ASSUME NEW t \in InWindow PROVE Holds(out, t) <=> t > Last(bars)
    <3>1. t \in Int /\ t \in Until(walk.end)
      BY <1>1, WindowIs
    <3>2. ASSUME Holds(out, t) PROVE t > Last(bars)
      <4>1. cursor # 0 /\ t > cursor
        BY <1>3, <3>2 DEF Asking
      <4> QED
        BY <1>9, <2>4, <3>1, <4>1
    <3>3. ASSUME t > Last(bars), ~Holds(out, t) PROVE FALSE
      <4>1. t \in Until(cursor)
        BY <1>7, <3>3
      <4>2. Holds(bars, t)
        BY <1>5, <1>9, <2>3, <2>4, <3>1, <3>3, <4>1
      <4>3. PICK j \in 1..m : bars[j] = t
        BY <4>2 DEF Holds
      <4>4. j = m \/ bars[j] < bars[m]
        BY <1>5, <2>3 DEF Rises
      <4> QED
        BY <2>4, <3>1, <3>3, <4>3, <4>4
    <3> QED
      BY <3>2, <3>3
  <2>9. Yielding'
    BY <1>1, <1>2, <1>5, <1>9, <2>1, <2>6, <2>7, <2>8 DEF Yielding
  <2>10. why' # "end" /\ pc' # "ask"
    BY <1>1, <2>1
  <2> QED
    BY <1>4, <2>2, <2>9, <2>10 DEF CandlesInv
<1>10. CASE Ends("error")
  <2>1. pc' = "done" /\ why' = "error"
    BY <1>10 DEF Ends
  <2>2. CandlesType'
    BY <1>1, <1>2, <1>10 DEF CandlesType, Ends
  <2> QED
    BY <1>4, <2>1, <2>2 DEF CandlesInv
<1> QED
  BY <1>6, <1>8, <1>9, <1>10

\* One candle is yielded, or the walk has passed its start: every place of the loop keeps what is known.
LEMMA YieldKeepsCandles ==
    ASSUME CandlesInv, Yield
    PROVE  CandlesInv'
<1> DEFINE m == Len(page)
           item == page[m]
<1>1. CandlesType /\ UNCHANGED <<walk, served>> /\ pc = "yield" /\ page # <<>> /\ why # "end" /\ walk.of = "candles"
  BY DEF CandlesInv, Yield, CandlesType
<1>2. InWindow' = InWindow /\ Until(walk.end)' = Until(walk.end)
  BY <1>1, SameWindow
<1>3. Yielding
  BY <1>1 DEF CandlesInv
<1>4. m \in Nat /\ m \in 1..m /\ 1 \in 1..m /\ \A i \in 1..m : page[i] \in Times
  BY <1>1 DEF CandlesType
<1>5. \A i \in 1..m : page[i] \in Int /\ page[i] \in Nat /\ page[i] # 1
  BY <1>4, TimesAre
<1>6. Last(page) = item /\ Item = item /\ item \in Until(walk.end)
  BY <1>1, <1>3, <1>4 DEF Last, Item, Yielding
<1>7. \A t \in InWindow : Holds(out, t) <=> t > item
  BY <1>3, <1>6 DEF Yielding
<1>8. walk.start \in Nat /\ walk.end \in Nat /\ cursor \in Nat
  <2>1. walk.start \in Times \cup {0} /\ walk.end \in Times \cup {0} /\ cursor \in Nat
    BY <1>1 DEF CandlesType
  <2>2. ASSUME NEW t \in Times \cup {0} PROVE t \in Nat
    BY TimesAre
  <2> QED
    BY <2>1, <2>2
<1>9. /\ InWindow \subseteq Until(walk.end) /\ \A t \in InWindow : t \in Int /\ t \in Nat
      /\ \A t \in Until(walk.end) : t \in Int
  BY <1>1, WindowIs, TimesAre
<1>10. CASE item < walk.start
  <2>1. Ends("end") /\ UNCHANGED <<out, cursor>>
    BY <1>1, <1>6, <1>10 DEF Yield
  <2>2. pc' = "done" /\ why' = "end" /\ page' = <<>>
    BY <2>1 DEF Ends
  <2>3. ASSUME NEW t \in InWindow PROVE Holds(out, t)
    <3>1. t >= walk.start /\ t \in Int
      BY <1>9 DEF InWindow
    <3>2. t > item
      BY <1>4, <1>5, <1>8, <1>10, <3>1
    <3> QED
      BY <1>7, <3>2
  <2>4. CandlesType'
    BY <1>1, <1>2, <2>1, <2>2 DEF CandlesType
  <2>5. (\A t \in InWindow : Holds(out, t))' /\ (Falls(out) /\ Gapless(out, InWindow))'
    BY <1>2, <2>1, <2>3 DEF CandlesInv
  <2> QED
    BY <2>2, <2>4, <2>5 DEF CandlesInv
<1>11. CASE ~(item < walk.start)
  <2>1. item \in InWindow
    BY <1>4, <1>5, <1>6, <1>8, <1>11 DEF InWindow
  <2>2. out' = Append(out, item)
    BY <1>1, <1>6, <1>11 DEF Yield
  <2>3. /\ out' \in Seq(InWindow) /\ Falls(out') /\ Gapless(out', InWindow)
        /\ \A t \in InWindow : Holds(out', t) <=> t >= item
    <3>1. out \in Seq(InWindow) /\ Falls(out) /\ InWindow \subseteq Int
      BY <1>1, <1>9 DEF CandlesInv, CandlesType
    <3> HIDE DEF item
    <3> QED
      BY <1>7, <2>1, <2>2, <3>1, NextKeeps
  <2>4. (Falls(out) /\ Gapless(out, InWindow))'
    BY <1>2, <2>3
  <2>5. \/ Ends("break") /\ UNCHANGED cursor
        \/ m > 1 /\ page' = Front(page) /\ UNCHANGED <<pc, why, cursor>>
        \/ m = 1 /\ item <= 0 /\ Ends("end") /\ UNCHANGED cursor
        \/ m = 1 /\ ~(item <= 0) /\ pc' = "ask" /\ page' = <<>> /\ cursor' = NextEnd(item) /\ UNCHANGED why
    BY <1>1, <1>6, <1>11 DEF Yield
  <2>6. CASE Ends("break") /\ UNCHANGED cursor
    <3>1. pc' = "done" /\ why' = "break" /\ page' = <<>>
      BY <2>6 DEF Ends
    <3>2. CandlesType'
      BY <1>1, <1>2, <2>3, <2>6, <3>1 DEF CandlesType
    <3> QED
      BY <2>4, <3>1, <3>2 DEF CandlesInv
  <2>7. CASE m > 1 /\ page' = Front(page) /\ UNCHANGED <<pc, why, cursor>>
    <3> DEFINE k == m - 1
               p == Front(page)
    <3>1. k \in Nat /\ k \in 1..m /\ k < m /\ k >= 1 /\ k \in Int /\ m = k + 1
      BY <1>4, <2>7
    <3>2. p \in Seq(Times) /\ Len(p) = k /\ p # <<>> /\ \A i \in 1..k : p[i] = page[i] /\ i \in 1..m
      <4>1. page \in Seq(Times) /\ p = SubSeq(page, 1, k)
        BY <1>1 DEF Front, CandlesType
      <4>2. p = [i \in 1..k |-> page[i]]
        BY <3>1, <4>1
      <4>3. \A i \in 1..k : p[i] = page[i] /\ i \in 1..m /\ p[i] \in Times
        BY <1>4, <3>1, <4>2
      <4>4. p \in Seq(Times) /\ Len(p) = k
        BY <3>1, <4>2, <4>3
      <4> QED
        BY <3>1, <4>3, <4>4
    <3> HIDE DEF p, k
    <3>3. Last(p) = page[k] /\ page[k] < item /\ p[1] = page[1] /\ page[k] \in Int
      <4>1. page[k] < item
        BY <1>3, <1>4, <3>1 DEF Yielding, Rises
      <4> QED
        BY <1>5, <3>1, <3>2, <4>1 DEF Last
    <3>4. Rises(p)
      <4>1. ASSUME NEW i \in 1..k, NEW j \in 1..k, i < j PROVE p[i] < p[j]
        BY <1>3, <3>2, <4>1 DEF Yielding, Rises
      <4> QED
        BY <3>2, <4>1 DEF Rises
    <3>5. \A i \in 1..Len(p) : p[i] \in Until(walk.end)
      BY <1>3, <3>2 DEF Yielding
    <3>6. ASSUME NEW t \in Until(walk.end), t >= page[1], t < item PROVE \E i \in 1..k : page[i] = t
      <4>1. t \in Int /\ t <= item
        BY <1>4, <1>5, <1>9, <3>6
      <4>2. PICK j \in 1..m : page[j] = t
        BY <1>3, <1>6, <3>6, <4>1 DEF Yielding, Holds
      <4>3. j # m
        BY <1>4, <1>5, <3>6, <4>1, <4>2
      <4> QED
        BY <1>4, <3>1, <4>2, <4>3
    <3>7. ASSUME NEW t \in Until(walk.end), t >= p[1], t <= Last(p) PROVE Holds(p, t)
      <4>1. t >= page[1] /\ t < item
        BY <1>4, <1>5, <1>9, <3>3, <3>7
      <4> QED
        BY <3>2, <3>6, <4>1 DEF Holds
    <3>8. ASSUME NEW t \in InWindow PROVE Holds(out', t) <=> t > Last(p)
      <4>1. t \in Int /\ t \in Until(walk.end) /\ item \in Int /\ page[1] \in Int
        BY <1>4, <1>5, <1>9
      <4>2. t >= item => t > page[k]
        BY <3>3, <4>1
      <4>3. ASSUME t > page[k], t < item PROVE FALSE
        <5>1. page[1] <= page[k]
          <6>1. 1 = k \/ 1 < k
            BY <3>1
          <6>2. 1 < k => page[1] < page[k]
            BY <1>3, <1>4, <3>1 DEF Yielding, Rises
          <6>3. page[1] < page[k] => page[1] <= page[k]
            BY <3>3, <4>1
          <6>4. 1 = k => page[1] <= page[k]
            BY <4>1
          <6> QED
            BY <6>1, <6>2, <6>3, <6>4
        <5>2. t >= page[1]
          BY <3>3, <4>1, <4>3, <5>1
        <5>3. PICK i \in 1..k : page[i] = t
          BY <3>6, <4>1, <4>3, <5>2
        <5>4. i = k \/ page[i] < page[k]
          BY <1>3, <3>1, <3>2 DEF Yielding, Rises
        <5> QED
          BY <3>3, <4>1, <4>3, <5>3, <5>4
      <4>4. t >= item <=> t > page[k]
        BY <3>3, <4>1, <4>2, <4>3
      <4> QED
        BY <2>3, <3>3, <4>4
    <3>9. Yielding'
      BY <1>2, <2>7, <3>2, <3>4, <3>5, <3>7, <3>8 DEF Yielding, p
    <3>10. CandlesType'
      BY <1>1, <1>2, <2>3, <2>7, <3>2 DEF CandlesType, p
    <3>11. pc' = "yield" /\ why' # "end"
      BY <1>1, <2>7
    <3> QED
      BY <2>4, <3>9, <3>10, <3>11 DEF CandlesInv
  <2>8. CASE m = 1 /\ item <= 0 /\ Ends("end") /\ UNCHANGED cursor
    <3>1. pc' = "done" /\ why' = "end" /\ page' = <<>>
      BY <2>8 DEF Ends
    <3>2. CandlesType'
      BY <1>1, <1>2, <2>3, <2>8, <3>1 DEF CandlesType
    <3>3. ASSUME NEW t \in InWindow PROVE Holds(out', t)
      <4>1. t >= item
        BY <1>4, <1>5, <1>9, <2>8
      <4> QED
        BY <2>3, <4>1
    <3>4. (\A t \in InWindow : Holds(out, t))'
      BY <1>2, <3>3
    <3> QED
      BY <2>4, <3>1, <3>2, <3>4 DEF CandlesInv
  <2>9. CASE m = 1 /\ ~(item <= 0) /\ pc' = "ask" /\ page' = <<>> /\ cursor' = NextEnd(item) /\ UNCHANGED why
    <3>1. item \in Nat /\ item # 1 /\ item # 0 /\ cursor' = item - 1
      BY <1>4, <1>5, <2>9 DEF NextEnd
    <3>2. cursor' \in Nat /\ cursor' # 0 /\ \A t \in Int : t >= item <=> t > cursor'
      BY <3>1
    <3>3. walk.end # 0 => cursor' <= walk.end
      BY <1>6, <1>8, <3>1 DEF Until
    <3>4. \A t \in InWindow : Holds(out', t) <=> t > cursor'
      BY <1>9, <2>3, <3>2
    <3>5. Asking'
      BY <1>1, <1>2, <3>2, <3>3, <3>4 DEF Asking
    <3>6. CandlesType'
      BY <1>1, <1>2, <2>3, <2>9, <3>2 DEF CandlesType
    <3> QED
      BY <1>1, <2>4, <2>9, <3>5, <3>6 DEF CandlesInv
  <2> QED
    BY <2>5, <2>6, <2>7, <2>8, <2>9
<1> QED
  BY <1>10, <1>11

InitCandles ==
    Init /\ walk.of = "candles"

LEMMA InitCandlesInv == InitCandles => CandlesInv
<1> SUFFICES ASSUME InitCandles PROVE CandlesInv
    OBVIOUS
<1>1. /\ walk \in [of : {"candles"}, start : Times \cup {0}, end : Times \cup {0}, limit : Limits]
      /\ served \in [times : SUBSET Times, honours : BOOLEAN, malformed : BOOLEAN]
      /\ cursor = walk.end /\ pc = "ask" /\ page = <<>> /\ out = <<>> /\ why = "none"
  BY DEF InitCandles, Init
<1>2. cursor \in Nat
  <2>1. ASSUME NEW t \in Times \cup {0} PROVE t \in Nat
    BY TimesAre
  <2>2. cursor \in Times \cup {0}
    BY <1>1
  <2> QED
    BY <2>1, <2>2
<1>3. CandlesType
  BY <1>1, <1>2 DEF CandlesType
<1>4. \A t : ~Holds(out, t)
  BY <1>1 DEF Holds
<1>5. \A t \in InWindow : ~(cursor # 0 /\ t > cursor)
  <2>1. ASSUME NEW t \in InWindow, cursor # 0 PROVE ~(t > cursor)
    <3>1. t \in Until(cursor) /\ t \in Int
      BY <1>1, <1>3, WindowIs
    <3> QED
      BY <1>2, <2>1, <3>1 DEF Until
  <2> QED
    BY <2>1
<1>6. Asking
  BY <1>1, <1>2, <1>4, <1>5 DEF Asking
<1>7. Falls(out) /\ Gapless(out, InWindow)
  BY <1>1 DEF Falls, Gapless
<1> QED
  BY <1>1, <1>3, <1>6, <1>7 DEF CandlesInv

LEMMA StepCandlesInv == CandlesInv /\ [Next]_vars => CandlesInv'
<1> SUFFICES ASSUME CandlesInv, [Next]_vars PROVE CandlesInv'
    OBVIOUS
<1>1. walk.of = "candles"
  BY DEF CandlesInv, CandlesType
<1>2. CASE AskCandles
  BY <1>2, AskKeepsCandles
<1>3. CASE Yield
  BY <1>3, YieldKeepsCandles
<1>4. CASE UNCHANGED vars
  <2>1. UNCHANGED <<walk, served, pc, cursor, page, asked, out, why>>
    BY <1>4 DEF vars
  <2>2. InWindow' = InWindow /\ Until(walk.end)' = Until(walk.end)
    BY <2>1, SameWindow
  <2>3. CandlesType' /\ (pc' = "ask" => Asking') /\ (pc' = "yield" => Yielding')
    BY <2>1, <2>2 DEF CandlesInv, CandlesType, Asking, Yielding
  <2> QED
    BY <2>1, <2>2, <2>3 DEF CandlesInv
<1> QED
  BY <1>1, <1>2, <1>3, <1>4 DEF Next, Step, AskPage, PageDone

LEMMA CandlesAreWhole ==
    ASSUME CandlesInv
    PROVE  IsPrefix(out, Descending(InWindow)) /\ (why = "end" => out = Descending(InWindow))
<1>1. /\ out \in Seq(InWindow) /\ Falls(out) /\ Gapless(out, InWindow)
      /\ IsFiniteSet(InWindow) /\ InWindow \subseteq Int
  BY WindowIs DEF CandlesInv, CandlesType
<1>2. /\ IsPrefix(out, Descending(InWindow))
      /\ (\A t \in InWindow : Holds(out, t)) => out = Descending(InWindow)
  BY <1>1, FallingIsPrefix
<1> QED
  BY <1>2 DEF CandlesInv

-----------------------------------------------------------------------------
(* paginate. *)

X == Cursors \cup {First}
Items == X \X Nat

LEMMA PageIs ==
    ASSUME NEW p \in Pages, NEW c \in X
    PROVE  p.next \in X /\ NextCursor(p) = p.next /\ ItemsOf(c, p) \in Seq(Items)
<1>1. p.next \in X /\ p.size \in Nat /\ p.shape \in Shapes
  BY ReadsAssumption DEF Pages, X
<1>2. NextCursor(p) = p.next
  BY <1>1 DEF NextCursor, HeaderOf, BodyOf, Shapes
<1>3. ItemsOf(c, p) \in [1..p.size -> Items]
  BY <1>1 DEF ItemsOf, Items
<1> QED
  BY <1>1, <1>2, <1>3

\* The cursors a faithful client meets: the first, and then each page's next.
LEMMA CursorsStep ==
    ASSUME NEW pages \in [X -> Pages]
    PROVE  /\ CursorsOf(pages)[0] = First
           /\ \A n \in Nat : /\ CursorsOf(pages)[n] \in X
                             /\ CursorsOf(pages)[n + 1] = pages[CursorsOf(pages)[n]].next
<1> DEFINE F == [n \in Nat |-> [c \in X |-> pages[c].next]]
           f == CursorsOf(pages)
<1>1. First \in X /\ \A c \in X : pages[c].next \in X
  BY PageIs DEF X
<1>2. F \in [Nat -> [X -> X]]
  BY <1>1
<1>3. \A n \in Nat, c \in X : F[n][c] = pages[c].next
  OBVIOUS
<1> HIDE DEF F
<1>4. PICK h \in [Nat -> X] : Solves(h, First, F)
  BY <1>1, <1>2, RecursionExists, Zenon
<1>5. ASSUME NEW n \in Nat PROVE h[n] = IF n = 0 THEN First ELSE pages[h[n - 1]].next
  <2>1. n # 0 => n - 1 \in Nat /\ h[n - 1] \in X
    OBVIOUS
  <2>2. n # 0 => F[n][h[n - 1]] = pages[h[n - 1]].next
    BY <1>3, <2>1
  <2> QED
    BY <1>4, <2>2 DEF Solves
<1>6. h = [n \in Nat |-> h[n]]
  OBVIOUS
<1>7. [n \in Nat |-> h[n]] = [n \in Nat |-> IF n = 0 THEN First ELSE pages[h[n - 1]].next]
  BY <1>5, Zenon
<1>8. \E g : g = [n \in Nat |-> IF n = 0 THEN First ELSE pages[g[n - 1]].next]
  BY <1>6, <1>7, Zenon
<1>9. f = [n \in Nat |-> IF n = 0 THEN First ELSE pages[f[n - 1]].next]
  BY <1>8, Zenon DEF CursorsOf
<1> HIDE DEF f
<1>10. ASSUME NEW n \in Nat PROVE f[n] = IF n = 0 THEN First ELSE pages[f[n - 1]].next
  BY <1>9, Zenon
<1>11. f[0] = First
  BY <1>10
<1>12. ASSUME NEW n \in Nat PROVE f[n + 1] = pages[f[n]].next
  <2>1. n + 1 \in Nat /\ n + 1 # 0 /\ (n + 1) - 1 = n
    OBVIOUS
  <2> QED
    BY <1>10, <2>1
<1> DEFINE S == {n \in Nat : f[n] \in X}
<1>13. 0 \in S
  BY <1>1, <1>11
<1>14. \A n \in Nat : n \in S => n + 1 \in S
  BY <1>1, <1>12
<1> HIDE DEF S
<1>15. Nat \subseteq S
  BY <1>13, <1>14, EveryNumber
<1>16. \A n \in Nat : f[n] \in X
  BY <1>15 DEF S
<1> QED
  BY <1>11, <1>12, <1>16 DEF f

\* And the items of one more page follow those of the pages before.
LEMMA ItemsStep ==
    ASSUME NEW pages \in [X -> Pages]
    PROVE  /\ ItemsIn(pages)[0] = <<>>
           /\ \A n \in Nat :
                 /\ ItemsIn(pages)[n] \in Seq(Items)
                 /\ ItemsIn(pages)[n + 1] =
                      ItemsIn(pages)[n] \o ItemsOf(CursorsOf(pages)[n], pages[CursorsOf(pages)[n]])
<1> DEFINE G(n) == ItemsOf(CursorsOf(pages)[n], pages[CursorsOf(pages)[n]])
           F == [n \in Nat |-> [s \in Seq(Items) |-> IF n = 0 THEN s ELSE s \o G(n - 1)]]
           f == ItemsIn(pages)
<1>1. \A n \in Nat : G(n) \in Seq(Items)
  BY CursorsStep, PageIs
<1> HIDE DEF G
<1>2. \A n \in Nat, s \in Seq(Items) : (IF n = 0 THEN s ELSE s \o G(n - 1)) \in Seq(Items)
  <2> SUFFICES ASSUME NEW n \in Nat, NEW s \in Seq(Items), n # 0 PROVE s \o G(n - 1) \in Seq(Items)
    OBVIOUS
  <2>1. G(n - 1) \in Seq(Items)
    BY <1>1
  <2> QED
    BY <2>1
<1>3. F \in [Nat -> [Seq(Items) -> Seq(Items)]]
  BY <1>2
<1>4. \A n \in Nat, s \in Seq(Items) : n # 0 => F[n][s] = s \o G(n - 1)
  OBVIOUS
<1>5. <<>> \in Seq(Items)
  OBVIOUS
<1> HIDE DEF F
<1>6. PICK h \in [Nat -> Seq(Items)] : Solves(h, <<>>, F)
  BY <1>3, <1>5, RecursionExists, Zenon
<1>7. ASSUME NEW n \in Nat PROVE h[n] = IF n = 0 THEN <<>> ELSE h[n - 1] \o G(n - 1)
  <2>1. n # 0 => n - 1 \in Nat /\ h[n - 1] \in Seq(Items)
    OBVIOUS
  <2>2. n # 0 => F[n][h[n - 1]] = h[n - 1] \o G(n - 1)
    BY <1>4, <2>1
  <2> QED
    BY <1>6, <2>2 DEF Solves
<1>8. h = [n \in Nat |-> h[n]]
  OBVIOUS
<1>9. [n \in Nat |-> h[n]] = [n \in Nat |-> IF n = 0 THEN <<>> ELSE h[n - 1] \o G(n - 1)]
  BY <1>7, Zenon
<1>10. \E g : g = [n \in Nat |-> IF n = 0 THEN <<>> ELSE g[n - 1] \o G(n - 1)]
  BY <1>8, <1>9, Zenon
<1>11. f = [n \in Nat |-> IF n = 0 THEN <<>> ELSE f[n - 1] \o G(n - 1)]
  BY <1>10, Zenon DEF ItemsIn, G
<1> HIDE DEF f
<1>12. ASSUME NEW n \in Nat PROVE f[n] = IF n = 0 THEN <<>> ELSE f[n - 1] \o G(n - 1)
  BY <1>11, Zenon
<1>13. f[0] = <<>>
  BY <1>12
<1>14. ASSUME NEW n \in Nat PROVE f[n + 1] = f[n] \o G(n)
  <2>1. n + 1 \in Nat /\ n + 1 # 0 /\ (n + 1) - 1 = n
    OBVIOUS
  <2> QED
    BY <1>12, <2>1
<1> DEFINE S == {n \in Nat : f[n] \in Seq(Items)}
<1>15. 0 \in S
  BY <1>5, <1>13
<1>16. ASSUME NEW n \in Nat, n \in S PROVE n + 1 \in S
  <2>1. f[n] \in Seq(Items) /\ G(n) \in Seq(Items)
    BY <1>1, <1>16
  <2>2. f[n] \o G(n) \in Seq(Items)
    BY <2>1
  <2>3. f[n + 1] = f[n] \o G(n)
    BY <1>14
  <2>4. f[n + 1] \in Seq(Items)
    BY <2>2, <2>3, Zenon
  <2> QED
    BY <2>4
<1> HIDE DEF S
<1>17. Nat \subseteq S
  BY <1>15, <1>16, EveryNumber
<1>18. \A n \in Nat : f[n] \in Seq(Items)
  BY <1>17 DEF S
<1> QED
  BY <1>13, <1>14, <1>18 DEF f, G

PagesInv ==
    /\ walk.of = "pages" /\ served \in [X -> Pages]
    /\ pc \in {"ask", "yield", "done"} /\ asked \in Nat /\ cursor \in X
    /\ page \in Seq(Items) /\ out \in Seq(Items)
    /\ pc = "ask" => cursor = CursorAt(asked) /\ out = ItemsUpTo(asked)
    /\ pc = "yield" => asked > 0 /\ cursor = CursorAt(asked - 1) /\ out \o page = ItemsUpTo(asked)
    /\ pc = "done" => IsPrefix(out, ItemsUpTo(asked))
    /\ why = "end" => pc = "done" /\ out = ItemsUpTo(asked) /\ CursorAt(asked) = First

LEMMA PartIsPrefix ==
    ASSUME NEW S, NEW s \in Seq(S), NEW r \in Seq(S), NEW w, w = s \o r
    PROVE  IsPrefix(s, w)
<1>1. Len(s) \in Nat /\ Len(r) \in Nat /\ Len(w) = Len(s) + Len(r) /\ \A i \in 1..Len(s) : w[i] = s[i]
  OBVIOUS
<1>2. SubSeq(s, 1, Len(s)) = SubSeq(w, 1, Len(s))
  BY <1>1
<1> QED
  BY <1>1, <1>2 DEF IsPrefix

LEMMA AllIsPrefix == ASSUME NEW s, Len(s) \in Nat PROVE IsPrefix(s, s)
BY DEF IsPrefix

LEMMA StepPagesInv == PagesInv /\ [Next]_vars => PagesInv'
<1> SUFFICES ASSUME PagesInv, [Next]_vars PROVE PagesInv'
    OBVIOUS
<1>1. /\ walk.of = "pages" /\ served \in [X -> Pages] /\ asked \in Nat /\ cursor \in X
      /\ page \in Seq(Items) /\ out \in Seq(Items)
  BY DEF PagesInv
<1>2. /\ CursorAt(0) = First /\ ItemsUpTo(0) = <<>>
      /\ \A n \in Nat : /\ CursorAt(n) \in X /\ ItemsUpTo(n) \in Seq(Items)
                        /\ CursorAt(n + 1) = served[CursorAt(n)].next
                        /\ ItemsUpTo(n + 1) = ItemsUpTo(n) \o ItemsOf(CursorAt(n), served[CursorAt(n)])
  BY <1>1, CursorsStep, ItemsStep DEF CursorAt, ItemsUpTo
<1>3. <<>> \in Seq(Items)
  OBVIOUS
<1>4. ASSUME pc = "ask" PROVE IsPrefix(out, ItemsUpTo(asked))
  BY <1>1, <1>4, AllIsPrefix DEF PagesInv
<1>5. ASSUME pc = "yield" PROVE IsPrefix(out, ItemsUpTo(asked))
  BY <1>1, <1>5, PartIsPrefix DEF PagesInv
<1>6. CASE AskPage
  <2>1. pc = "ask" /\ UNCHANGED <<walk, served, cursor, out>> /\ why # "end"
    BY <1>6 DEF AskPage, PagesInv
  <2>2. CASE Yields(ItemsOf(cursor, served[cursor])) /\ asked' = asked + 1
    <3>1. pc' = "yield" /\ page' = ItemsOf(cursor, served[cursor]) /\ why' = why
      BY <2>2 DEF Yields
    <3>2. page' \in Seq(Items)
      BY <1>1, <3>1, PageIs
    <3>3. cursor = CursorAt(asked) /\ out = ItemsUpTo(asked)
      BY <2>1 DEF PagesInv
    <3>4. out' \o page' = ItemsUpTo(asked + 1) /\ cursor' = CursorAt(asked)
      BY <1>1, <1>2, <2>1, <3>1, <3>3
    <3>5. asked' \in Nat /\ asked' > 0 /\ asked' - 1 = asked
      BY <1>1, <2>2
    <3>6. CursorAt(asked - 1)' = CursorAt(asked) /\ ItemsUpTo(asked)' = ItemsUpTo(asked + 1)
      BY <2>1, <2>2, <3>5, Zenon DEF CursorAt, ItemsUpTo
    <3> QED
      BY <1>1, <2>1, <2>2, <3>1, <3>2, <3>4, <3>5, <3>6 DEF PagesInv
  <2>3. CASE Ends("error") /\ UNCHANGED asked
    <3>1. pc' = "done" /\ page' = <<>> /\ why' = "error"
      BY <2>3 DEF Ends
    <3>2. ItemsUpTo(asked)' = ItemsUpTo(asked)
      BY <2>1, <2>3, Zenon DEF ItemsUpTo
    <3>3. IsPrefix(out, ItemsUpTo(asked))'
      BY <1>4, <2>1, <3>2 DEF IsPrefix
    <3> QED
      BY <1>1, <1>3, <2>1, <2>3, <3>1, <3>3 DEF PagesInv
  <2> QED
    BY <1>6, <2>2, <2>3 DEF AskPage
<1>7. CASE PageDone
  <2>1. pc = "yield" /\ page = <<>> /\ UNCHANGED <<walk, served, asked, out>> /\ why # "end"
    BY <1>7 DEF PageDone, PagesInv
  <2>2. asked > 0 /\ cursor = CursorAt(asked - 1) /\ out = ItemsUpTo(asked)
    BY <1>1, <2>1 DEF PagesInv
  <2>3. asked - 1 \in Nat /\ (asked - 1) + 1 = asked
    BY <1>1, <2>2
  <2>4. CursorAt(asked) = NextCursor(served[cursor])
    <3>1. CursorAt((asked - 1) + 1) = served[cursor].next
      BY <1>2, <2>2, <2>3
    <3> QED
      BY <1>1, <2>3, <3>1, PageIs
  <2>5. CursorAt(asked)' = CursorAt(asked) /\ ItemsUpTo(asked)' = ItemsUpTo(asked)
    BY <2>1, Zenon DEF CursorAt, ItemsUpTo
  <2>6. IsPrefix(out, ItemsUpTo(asked))'
    BY <1>5, <2>1, <2>5 DEF IsPrefix
  <2>7. CASE NextCursor(served[cursor]) = First /\ Ends("end") /\ UNCHANGED cursor
    BY <1>1, <1>3, <2>1, <2>2, <2>4, <2>5, <2>6, <2>7 DEF PagesInv, Ends
  <2>8. CASE Ends("error") /\ UNCHANGED cursor
    BY <1>1, <1>3, <2>1, <2>6, <2>8 DEF PagesInv, Ends
  <2>9. CASE pc' = "ask" /\ cursor' = NextCursor(served[cursor]) /\ UNCHANGED <<page, why>>
    <3>1. cursor' = CursorAt(asked)' /\ out' = ItemsUpTo(asked)'
      BY <2>1, <2>2, <2>4, <2>5, <2>9
    <3>2. cursor' \in X
      BY <1>1, <1>2, <2>4, <2>9
    <3> QED
      BY <1>1, <2>1, <2>9, <3>1, <3>2 DEF PagesInv
  <2> QED
    BY <1>7, <2>7, <2>8, <2>9 DEF PageDone
<1>8. CASE Yield
  <2>1. pc = "yield" /\ page # <<>> /\ UNCHANGED <<walk, served, asked>> /\ why # "end" /\ out' = Append(out, Head(page))
    BY <1>1, <1>8 DEF Yield, PagesInv, Item
  <2>2. \/ Ends("break") /\ UNCHANGED cursor
        \/ page' = Tail(page) /\ UNCHANGED <<pc, why, cursor>>
    BY <1>1, <1>8 DEF Yield
  <2>3. /\ Head(page) \in Items /\ Tail(page) \in Seq(Items) /\ Append(out, Head(page)) \in Seq(Items)
        /\ Append(out, Head(page)) \o Tail(page) = out \o page
    BY <1>1, <2>1
  <2>4. CursorAt(asked - 1)' = CursorAt(asked - 1) /\ ItemsUpTo(asked)' = ItemsUpTo(asked)
    BY <2>1, Zenon DEF CursorAt, ItemsUpTo
  <2>5. asked > 0 /\ cursor = CursorAt(asked - 1) /\ ItemsUpTo(asked) = out' \o Tail(page) /\ out' \in Seq(Items)
    BY <2>1, <2>3 DEF PagesInv
  <2>6. CASE Ends("break") /\ UNCHANGED cursor
    <3>1. IsPrefix(out', ItemsUpTo(asked))
      BY <2>3, <2>5, PartIsPrefix
    <3>2. IsPrefix(out, ItemsUpTo(asked))'
      BY <2>4, <3>1 DEF IsPrefix
    <3> QED
      BY <1>1, <1>3, <2>1, <2>5, <2>6, <3>2 DEF PagesInv, Ends
  <2>7. CASE page' = Tail(page) /\ UNCHANGED <<pc, why, cursor>>
    <3>1. asked' > 0 /\ cursor' = CursorAt(asked - 1)' /\ out' \o page' = ItemsUpTo(asked)'
      BY <2>1, <2>4, <2>5, <2>7
    <3> QED
      BY <1>1, <2>1, <2>3, <2>5, <2>7, <3>1 DEF PagesInv
  <2> QED
    BY <2>2, <2>6, <2>7
<1>9. CASE UNCHANGED vars
  <2>1. UNCHANGED <<walk, served, pc, cursor, page, asked, out, why>>
    BY <1>9 DEF vars
  <2>2. /\ CursorAt(asked)' = CursorAt(asked) /\ ItemsUpTo(asked)' = ItemsUpTo(asked)
        /\ CursorAt(asked - 1)' = CursorAt(asked - 1)
    BY <2>1, Zenon DEF CursorAt, ItemsUpTo
  <2>3. IsPrefix(out, ItemsUpTo(asked))' <=> IsPrefix(out, ItemsUpTo(asked))
    BY <2>1, <2>2 DEF IsPrefix
  <2> QED
    BY <2>1, <2>2, <2>3 DEF PagesInv
<1>10. ~AskCandles
  BY <1>1 DEF AskCandles
<1> QED
  BY <1>6, <1>7, <1>8, <1>9, <1>10 DEF Next, Step

LEMMA InitPagesInv == Init /\ walk.of # "candles" => PagesInv
<1> SUFFICES ASSUME Init, walk.of # "candles" PROVE PagesInv
    OBVIOUS
<1>1. /\ walk.of = "pages" /\ served \in [X -> Pages] /\ cursor = First
      /\ pc = "ask" /\ page = <<>> /\ asked = 0 /\ out = <<>> /\ why = "none"
  BY DEF Init, X
<1>2. CursorAt(0) = First /\ ItemsUpTo(0) = <<>>
  BY <1>1, CursorsStep, ItemsStep DEF CursorAt, ItemsUpTo
<1> QED
  BY <1>1, <1>2 DEF PagesInv, X

LEMMA PagesAreWhole ==
    ASSUME PagesInv
    PROVE  /\ IsPrefix(out, ItemsUpTo(asked))
           /\ why = "end" => out = ItemsUpTo(asked) /\ CursorAt(asked) = First
<1>1. out \in Seq(Items) /\ page \in Seq(Items)
  BY DEF PagesInv
<1>2. CASE pc = "ask"
  BY <1>1, <1>2, AllIsPrefix DEF PagesInv
<1>3. CASE pc = "yield"
  BY <1>1, <1>3, PartIsPrefix DEF PagesInv
<1>4. CASE pc = "done"
  BY <1>4 DEF PagesInv
<1> QED
  BY <1>2, <1>3, <1>4 DEF PagesInv

-----------------------------------------------------------------------------
(* Both. *)

\* What a walk yielded is the start of the server's list, item by item and page by page, newest candle
\* first, and when it ended by itself it is the whole list: for every chain of pages in either shape, every
\* set of candles and every limit, and also when the server ignores endTime (paginate, FetchOHLCVHistory).
THEOREM WalksAreWhole == Spec => []Whole
<1> DEFINE I == CandlesInv \/ PagesInv
<1>1. Init => I
  BY InitCandlesInv, InitPagesInv DEF InitCandles
<1>2. I /\ [Next]_vars => I'
  BY StepCandlesInv, StepPagesInv
<1>3. I => Whole
  <2>1. CandlesInv => walk.of = "candles"
    BY DEF CandlesInv, CandlesType
  <2>2. PagesInv => walk.of = "pages"
    BY DEF PagesInv
  <2> QED
    BY <2>1, <2>2, CandlesAreWhole, PagesAreWhole DEF Whole
<1>4. QED
  BY <1>1, <1>2, <1>3, PTL DEF Spec

-----------------------------------------------------------------------------
(* How many requests a walk may make. *)

\* The chain of cursors ends, or stands still, at its n-th.
Stops(n) == CursorAt(n) = First \/ CursorAt(n) = CursorAt(n - 1)

\* Candles: no more requests than candles in the window, and one.  Pages: no more than the chain is long.
Bounded ==
    /\ walk.of = "candles" => asked <= Cardinality(InWindow) + 1
    /\ walk.of = "pages" => \A n \in Nat \ {0} : Stops(n) => asked <= n

\* Every response but the last of a walk of candles has yielded one at least.
Earned ==
    /\ asked \in Nat
    /\ asked <= Len(out) + 1
    /\ pc = "ask" => asked <= Len(out)

LEMMA StepEarned ==
    ASSUME CandlesInv, Earned, [Next]_vars
    PROVE  Earned'
<1>1. walk.of = "candles" /\ out \in Seq(InWindow) /\ Len(out) \in Nat /\ asked \in Nat
  BY DEF CandlesInv, CandlesType, Earned
<1>2. CASE AskCandles
  <2>1. asked' = asked + 1 /\ out' = out /\ asked <= Len(out)
    BY <1>2 DEF AskCandles, Earned
  <2>2. pc' # "ask"
    BY <1>2 DEF AskCandles, Ends, Yields
  <2> QED
    BY <1>1, <2>1, <2>2 DEF Earned
<1>3. CASE Yield
  <2>1. asked' = asked /\ pc = "yield" /\ asked <= Len(out) + 1
    BY <1>3 DEF Yield, Earned
  <2>2. CASE Item < walk.start
    <3>1. out' = out /\ pc' = "done"
      BY <1>1, <1>3, <2>2 DEF Yield, Ends
    <3> QED
      BY <1>1, <2>1, <3>1 DEF Earned
  <2>3. CASE ~(Item < walk.start)
    <3>1. out' = Append(out, Item)
      BY <1>3, <2>3 DEF Yield
    <3>2. Len(out') = Len(out) + 1
      BY <1>1, <3>1
    <3> QED
      BY <1>1, <2>1, <3>2 DEF Earned
  <2> QED
    BY <2>2, <2>3
<1>4. CASE UNCHANGED vars
  BY <1>4 DEF vars, Earned
<1> QED
  BY <1>1, <1>2, <1>3, <1>4 DEF Next, Step, AskPage, PageDone

LEMMA CandlesAreBounded ==
    ASSUME CandlesInv, Earned
    PROVE  Bounded
<1>1. walk.of = "candles" /\ out \in Seq(InWindow) /\ IsFiniteSet(InWindow) /\ InWindow \subseteq Int
  BY WindowIs DEF CandlesInv, CandlesType
<1>2. IsPrefix(out, Descending(InWindow))
  BY CandlesAreWhole
<1>3. /\ Cardinality(InWindow) \in Nat
      /\ Descending(InWindow) \in Seq(InWindow) /\ Len(Descending(InWindow)) = Cardinality(InWindow)
  BY <1>1, DescendingIs
<1>4. Len(out) \in Nat /\ Len(out) <= Cardinality(InWindow)
  BY <1>1, <1>2, <1>3 DEF IsPrefix
<1>5. asked \in Nat /\ asked <= Len(out) + 1
  BY DEF Earned
<1>6. asked <= Cardinality(InWindow) + 1
  BY <1>3, <1>4, <1>5
<1> QED
  BY <1>1, <1>6 DEF Bounded

\* The cursors of the requests so far were all new: before a request the chain has not stopped.
Fresh ==
    /\ \A n \in Nat \ {0} : Stops(n) => asked <= n
    /\ pc = "ask" => \A n \in Nat \ {0} : Stops(n) => asked < n

LEMMA StepFresh ==
    ASSUME PagesInv, Fresh, [Next]_vars
    PROVE  Fresh'
<1>1. walk.of = "pages" /\ served \in [X -> Pages] /\ asked \in Nat /\ cursor \in X
  BY DEF PagesInv
<1>2. \A n \in Nat \ {0} : n \in Nat /\ n \in Int /\ n - 1 \in Nat /\ n >= 1
  OBVIOUS
<1>3. ASSUME UNCHANGED served, NEW n \in Nat \ {0} PROVE Stops(n)' <=> Stops(n)
  BY <1>3, Zenon DEF Stops, CursorAt
<1>4. CASE AskPage
  <2>1. pc = "ask" /\ UNCHANGED served
    BY <1>4 DEF AskPage
  <2>2. (asked' = asked + 1 /\ pc' = "yield") \/ (asked' = asked /\ pc' = "done")
    BY <1>4 DEF AskPage, Yields, Ends
  <2>3. ASSUME NEW n \in Nat \ {0}, Stops(n) PROVE asked' <= n
    <3>1. asked < n
      BY <2>1, <2>3 DEF Fresh
    <3> QED
      BY <1>1, <2>2, <3>1
  <2> QED
    BY <1>3, <2>1, <2>2, <2>3 DEF Fresh
<1>5. CASE PageDone
  <2>1. pc = "yield" /\ UNCHANGED <<served, asked>>
    BY <1>5 DEF PageDone
  <2>2. asked > 0 /\ cursor = CursorAt(asked - 1)
    BY <2>1 DEF PagesInv
  <2>3. CursorAt(asked) = NextCursor(served[cursor])
    <3>1. asked - 1 \in Nat /\ (asked - 1) + 1 = asked
      BY <1>1, <2>2
    <3>2. CursorAt((asked - 1) + 1) = served[cursor].next
      BY <1>1, <2>2, <3>1, CursorsStep DEF CursorAt
    <3> QED
      BY <1>1, <3>1, <3>2, PageIs
  <2>4. pc' = "ask" => NextCursor(served[cursor]) \notin {First, cursor}
    BY <1>5 DEF PageDone, Ends
  <2>5. pc' = "ask" => ~Stops(asked)
    BY <2>2, <2>3, <2>4 DEF Stops
  <2>6. ASSUME NEW n \in Nat \ {0}, Stops(n) PROVE asked <= n /\ (pc' = "ask" => asked < n)
    <3>1. asked <= n
      BY <2>6 DEF Fresh
    <3>2. pc' = "ask" => asked # n
      BY <2>5, <2>6
    <3> QED
      BY <1>1, <3>1, <3>2
  <2> QED
    BY <1>3, <2>1, <2>6 DEF Fresh
<1>6. CASE Yield
  <2>1. UNCHANGED <<served, asked>> /\ pc' # "ask"
    BY <1>1, <1>6 DEF Yield, Ends
  <2> QED
    BY <1>3, <2>1 DEF Fresh
<1>7. CASE UNCHANGED vars
  BY <1>3, <1>7 DEF vars, Fresh
<1> QED
  BY <1>1, <1>4, <1>5, <1>6, <1>7 DEF Next, Step, AskCandles

\* A walk makes a bounded number of requests: of candles, at most one more than the window has candles, also
\* from a server that ignores endTime or answers one candle at a time; of pages, at most as many as there
\* are cursors until the chain ends or returns the one it was sent (FetchOHLCVHistory, paginate).
THEOREM WalksAreBounded == Spec => []Bounded
<1> DEFINE I == (CandlesInv /\ Earned) \/ (PagesInv /\ Fresh)
<1>1. Init => I
  <2> SUFFICES ASSUME Init PROVE I
      OBVIOUS
  <2>1. asked = 0 /\ out = <<>>
    BY DEF Init
  <2>2. Earned
    BY <2>1 DEF Earned
  <2>3. Fresh
    BY <2>1 DEF Fresh
  <2> QED
    BY <2>2, <2>3, InitCandlesInv, InitPagesInv DEF InitCandles
<1>2. I /\ [Next]_vars => I'
  BY StepCandlesInv, StepPagesInv, StepEarned, StepFresh
<1>3. I => Bounded
  <2>1. PagesInv => walk.of = "pages"
    BY DEF PagesInv
  <2>2. PagesInv /\ Fresh => Bounded
    BY <2>1 DEF Fresh, Bounded
  <2> QED
    BY <2>2, CandlesAreBounded
<1>4. QED
  BY <1>1, <1>2, <1>3, PTL DEF Spec
===============================================================================
