--------------------------- MODULE RateLimitProofs ---------------------------
(***************************************************************************)
(* Proofs about RateLimit: the types, that a 429's retry-after is honoured, *)
(* and that a bucket never sends more than was reported and refilled.       *)
(***************************************************************************)
EXTENDS RateLimit, FiniteSetTheorems, TLAPS

-----------------------------------------------------------------------------
(* Arithmetic of the buckets *)

\* Products keep the order of a factor.
LEMMA Scale ==
    ASSUME NEW m \in Nat, NEW x \in Int, NEW y \in Int, x <= y
    PROVE  m * x <= m * y /\ m * x \in Int /\ m * y \in Int
  OBVIOUS

\* A charge is at most one second of tokens (AtMost in Charge).
LEMMA ChargeBounds ==
    ASSUME NEW w \in Nat, NEW l \in Nat
    PROVE  Charge(w, l) \in 0..Full(l) /\ Full(l) \in Nat
<1>1. Second \in Nat
  BY RateAssumption
<1>2. AtMost(w, l) \in Nat /\ AtMost(w, l) <= l
  BY DEF AtMost
<1>3. Second * 0 <= Second * AtMost(w, l) /\ Second * AtMost(w, l) <= Second * l
  BY <1>1, <1>2, Scale
<1> QED
  BY <1>1, <1>2, <1>3 DEF Charge, Full

\* reserve waits a whole number of ticks, and long enough for the deficit to be refilled.
LEMMA DeficitRefilled ==
    ASSUME NEW x \in Int, NEW l \in Nat \ {0}
    PROVE  /\ Deficit(x, l) \in Nat
           /\ x + Deficit(x, l) * l >= 0
           /\ Deficit(x, l) = 0 => x >= 0
<1>1. CASE x >= 0
  <2>1. Deficit(x, l) = 0
    BY <1>1 DEF Deficit
  <2> QED
    BY <1>1, <2>1
<1>2. CASE x < 0
  <2> DEFINE a == l - 1 - x
             q == a \div l
  <2>1. a \in Nat /\ a >= l /\ Deficit(x, l) = q
    BY <1>2 DEF Deficit
  <2>2. q \in Int /\ q * l <= a /\ a < q * l + l
    <3> HIDE DEF a
    <3> QED BY <2>1
  <2>3. q >= 1
    <3>1. CASE q <= 0
      <4>1. l * q <= l * 0
        BY <2>2, <3>1, Scale
      <4> QED BY <2>1, <2>2, <4>1
    <3> QED BY <2>2, <3>1
  <2> QED
    BY <2>1, <2>2, <2>3
<1> QED
  BY <1>1, <1>2
-----------------------------------------------------------------------------
(* The types, and the retry-after *)

\* What reserve computes for a request: the bucket's new level and the wait.
Left(r) == Refilled(ClassOf[r], stamp[r]) - Charge(WeightOf[r], limit[ClassOf[r]])
Short(r) ==
    IF limit[ClassOf[r]] = 0 THEN 0 ELSE Deficit(Left(r), limit[ClassOf[r]])
Wait(r) == Delay(ClassOf[r], stamp[r], Short(r))

\* Only a request that is not a cancel reserves, so its class is a bucket; a timer
\* is not started before the until that the reservation saw (Delay).
Inv ==
    /\ TypeOK
    /\ \A r \in Requests : pc[r] \in {"reserve", "waiting"} => ClassOf[r] \in Buckets
    /\ \A r \in Requests : pc[r] = "waiting" => due[r] >= promised[r]

\* The parts reserved on a bucket are finitely many.
LEMMA ReservedFinite ==
    ASSUME NEW l \in Nat, NEW S, S \subseteq Requests \X (1..Full(l))
    PROVE  IsFiniteSet(S) /\ Cardinality(S) \in Nat
<1>1. IsFiniteSet(1..Full(l))
  <2>1. Full(l) \in Int
    BY RateAssumption DEF Full
  <2> QED
    BY <2>1, FS_Interval
<1>2. IsFiniteSet(Requests \X (1..Full(l)))
  BY <1>1, RateAssumption, FS_Product
<1>3. IsFiniteSet(S)
  BY <1>2, FS_Subset
<1> QED
  BY <1>3, FS_CardinalityType

LEMMA LimitNat ==
    ASSUME TypeOK, NEW b \in Buckets
    PROVE  limit[b] \in Nat
<1>1. limit[b] \in Limits \cup {0}
  BY DEF TypeOK
<1>2. \A l \in Limits \cup {0} : l \in Nat
  BY RateAssumption
<1> QED
  BY <1>1, <1>2, Zenon

LEMMA ChargeTyped ==
    ASSUME TypeOK, NEW r \in Requests, NEW b \in Buckets
    PROVE  /\ limit[b] \in Nat /\ Full(limit[b]) \in Nat
           /\ Charge(WeightOf[r], limit[b]) \in Nat
           /\ Charge(WeightOf[r], limit[b]) <= Full(limit[b])
<1>1. limit[b] \in Nat /\ WeightOf[r] \in Nat
  BY LimitNat, RateAssumption
<1>2. Charge(WeightOf[r], limit[b]) \in 0..Full(limit[b]) /\ Full(limit[b]) \in Nat
  BY <1>1, ChargeBounds
<1> QED
  BY <1>1, <1>2

\* What reserve computes has its type, the level is within one second of tokens, and
\* the wait covers both the retry-after and the deficit.
LEMMA ReserveComputes ==
    ASSUME TypeOK, NEW r \in Requests, ClassOf[r] \in Buckets
    PROVE  /\ Left(r) \in Int /\ Left(r) <= Full(limit[ClassOf[r]])
           /\ Short(r) \in Nat
           /\ Wait(r) \in Int /\ Wait(r) >= Short(r)
           /\ Wait(r) >= until[ClassOf[r]] - stamp[r]
<1> DEFINE b == ClassOf[r]
           l == limit[b]
           t == stamp[r]
<1>1. b \in Buckets /\ l \in Nat /\ t \in 0..now /\ now \in Nat
  BY LimitNat DEF TypeOK
<1>2. level[b] \in Int /\ level[b] <= Full(l) /\ at[b] \in Nat /\ until[b] \in Nat
  BY <1>1 DEF TypeOK
<1>3. WeightOf[r] \in Nat /\ Charge(WeightOf[r], l) \in 0..Full(l) /\ Full(l) \in Nat
  BY <1>1, RateAssumption, ChargeBounds
<1>4. Refilled(b, t) \in Int /\ Refilled(b, t) <= Full(l)
  <2>1. (t - at[b]) * l \in Int
    BY <1>1, <1>2
  <2> QED
    BY <1>1, <1>2, <1>3, <2>1 DEF Refilled, AtMost
<1>5. Left(r) \in Int /\ Left(r) <= Full(l)
  BY <1>3, <1>4 DEF Left
<1>6. Short(r) \in Nat
  BY <1>1, <1>5, DeficitRefilled DEF Short
<1>7. /\ Wait(r) \in Int /\ Wait(r) >= Short(r)
      /\ Wait(r) >= until[b] - t
  BY <1>1, <1>2, <1>6 DEF Wait, Delay, AtLeast
<1> QED
  BY <1>5, <1>6, <1>7

\* Reserve, with its local definitions named.
LEMMA ReserveIs ==
    ASSUME NEW r, Reserve(r)
    PROVE  LET b == ClassOf[r] IN
           /\ pc[r] = "reserve"
           /\ \/ limit[b] = 0 /\ UNCHANGED <<level, at>>
              \/ /\ limit[b] > 0
                 /\ level' = [level EXCEPT ![b] = Left(r)]
                 /\ at' = [at EXCEPT ![b] = stamp[r]]
           /\ promised' = [promised EXCEPT ![r] = until[b]]
           /\ \/ Wait(r) <= 0 /\ Send(r, b) /\ UNCHANGED due
              \/ /\ Wait(r) > 0
                 /\ pc' = [pc EXCEPT ![r] = "waiting"]
                 /\ due' = [due EXCEPT ![r] = now + Wait(r)]
                 /\ UNCHANGED credit
           /\ stamp' = [stamp EXCEPT ![r] = 0]
           /\ UNCHANGED <<now, limit, until>>
  BY DEF Reserve, Left, Short, Wait

LEMMA InitInv == Init => Inv
  BY RateAssumption DEF Init, Inv, TypeOK, Buckets, Full, Charge

\* Send leaves the types alone.
LEMMA SendTyped ==
    ASSUME TypeOK, NEW r \in Requests, NEW b \in Buckets, Send(r, b)
    PROVE  /\ credit' \in [Buckets -> Int]
           /\ pc' \in [Requests -> {"idle", "reserve", "waiting", "sent", "observe"}]
           /\ pc'[r] = "sent" /\ \A q \in Requests \ {r} : pc'[q] = pc[q]
<1>1. Charge(WeightOf[r], limit[b]) \in Int
  BY ChargeTyped
<1> QED
  BY <1>1 DEF Send, TypeOK

LEMMA CallInv ==
    ASSUME Inv, NEW r \in Requests, Call(r)
    PROVE  Inv'
<1>1. pc[r] # "waiting" /\ ClassOf[r] \in Classes
  BY RateAssumption DEF Call
<1>2. pc'[r] \in {"sent", "reserve"} /\ (pc'[r] = "reserve" => ClassOf[r] \in Buckets)
      /\ \A q \in Requests \ {r} : pc'[q] = pc[q]
  BY <1>1 DEF Call, Inv, TypeOK, Classes
<1>3. pc' \in [Requests -> {"idle", "reserve", "waiting", "sent", "observe"}] /\ stamp' \in [Requests -> 0..now']
  BY DEF Inv, TypeOK, Call
<1>4. TypeOK'
  BY <1>3 DEF Inv, TypeOK, Call, bucketVars
<1> QED
  BY <1>2, <1>4 DEF Inv, Call

LEMMA ReserveInv ==
    ASSUME Inv, NEW r \in Requests, Reserve(r)
    PROVE  Inv'
<1> DEFINE b == ClassOf[r]
<1>1. b \in Buckets /\ pc[r] = "reserve"
  BY DEF Inv, Reserve
<1>2. /\ Left(r) \in Int /\ Left(r) <= Full(limit[b])
      /\ Wait(r) \in Int /\ Wait(r) >= until[b] - stamp[r]
  BY <1>1, ReserveComputes DEF Inv
<1>3. /\ level' \in [Buckets -> Int] /\ \A a \in Buckets : level'[a] <= Full(limit'[a])
      /\ at' \in [Buckets -> 0..now']
  BY <1>1, <1>2, ReserveIs DEF Inv, TypeOK
<1>4. promised' \in [Requests -> Nat] /\ stamp' \in [Requests -> 0..now'] /\ promised'[r] = until[b]
  BY <1>1, ReserveIs DEF Inv, TypeOK
<1>5. CASE Send(r, b) /\ UNCHANGED due
  <2>1. TypeOK'
    BY <1>1, <1>3, <1>4, <1>5, SendTyped, ReserveIs DEF Inv, TypeOK
  <2> QED
    BY <1>1, <1>5, <2>1, SendTyped, ReserveIs DEF Inv, TypeOK
<1>6. CASE /\ Wait(r) > 0 /\ UNCHANGED credit
           /\ pc' = [pc EXCEPT ![r] = "waiting"]
           /\ due' = [due EXCEPT ![r] = now + Wait(r)]
  <2>1. now + Wait(r) \in Nat /\ now + Wait(r) >= until[b]
    BY <1>1, <1>2, <1>6 DEF Inv, TypeOK
  <2>2. TypeOK'
    BY <1>1, <1>3, <1>4, <1>6, <2>1, ReserveIs DEF Inv, TypeOK
  <2>3. /\ due'[r] = now + Wait(r) /\ promised'[r] = until[b]
        /\ \A q \in Requests \ {r} : due'[q] = due[q] /\ promised'[q] = promised[q] /\ pc'[q] = pc[q]
    <3>1. promised' = [promised EXCEPT ![r] = until[b]]
      BY ReserveIs
    <3> QED BY <1>6, <3>1 DEF Inv, TypeOK
  <2> QED
    BY <1>1, <2>1, <2>2, <2>3 DEF Inv
<1> QED
  BY <1>5, <1>6, ReserveIs

LEMMA TimerFiresInv ==
    ASSUME Inv, NEW r \in Requests, TimerFires(r)
    PROVE  Inv'
<1>1. ClassOf[r] \in Buckets
  BY DEF Inv, TimerFires
<1>2. TypeOK'
  BY <1>1, SendTyped DEF Inv, TypeOK, TimerFires, bucketVars
<1> QED
  BY <1>1, <1>2, SendTyped DEF Inv, TypeOK, TimerFires

LEMMA CtxEndsInv ==
    ASSUME Inv, NEW r \in Requests, CtxEnds(r)
    PROVE  Inv'
<1> DEFINE b == ClassOf[r]
<1>1. b \in Buckets
  BY DEF Inv, CtxEnds
<1>2. Charge(WeightOf[r], limit[b]) \in Int /\ Full(limit[b]) \in Int
  BY <1>1, ChargeTyped DEF Inv
<1>3. Refund(b, WeightOf[r]) \in Int /\ Refund(b, WeightOf[r]) <= Full(limit[b])
  BY <1>1, <1>2 DEF Refund, AtMost, Inv, TypeOK
<1>4. TypeOK'
  BY <1>1, <1>3 DEF Inv, TypeOK, CtxEnds
<1> QED
  BY <1>4 DEF Inv, TypeOK, CtxEnds

\* A report of a budget or none, and a retry-after or none, for a bucket.
LEMMA ObserveIs ==
    ASSUME NEW r \in Requests, NEW label, Observe(r, label)
    PROVE  /\ pc[r] = "observe" /\ pc' = [pc EXCEPT ![r] = "idle"] /\ stamp' = [stamp EXCEPT ![r] = 0]
           /\ \/ UNCHANGED <<limit, level, at, credit>>
              \/ \E b \in Buckets, l \in Limits : \E remaining \in 0..l : Set(b, l, remaining, b, stamp[r])
           /\ \/ UNCHANGED until
              \/ \E b \in Buckets, retryAfter \in RetryAfters : Block(b, retryAfter, stamp[r])
           /\ promised' = [promised EXCEPT ![r] = 0]
           /\ UNCHANGED <<now, due>>
<1> DEFINE D == Described(ClassOf[r], label)
<1>1. /\ D \subseteq Buckets
      /\ D # {} => Reported(ClassOf[r], label) = D
      /\ \A b \in D : D = {b}
  BY DEF Described, Reported, Labelled, Buckets
<1>2. CASE D = {} /\ UNCHANGED <<bucketVars, credit>>
  BY <1>2 DEF Observe, bucketVars
<1>3. CASE \E b \in D :
             /\ \/ UNCHANGED <<limit, level, at, credit>>
                \/ \E l \in Limits, about \in Reported(ClassOf[r], label) :
                      \E remaining \in 0..l : Set(b, l, remaining, about, stamp[r])
             /\ \/ UNCHANGED until
                \/ \E retryAfter \in RetryAfters : Block(b, retryAfter, stamp[r])
  BY <1>1, <1>3 DEF Observe
<1> QED
  BY <1>2, <1>3 DEF Observe

LEMMA AnsweredInv ==
    ASSUME Inv, NEW r \in Requests, Answered(r)
    PROVE  Inv'
<1>1. pc' = [pc EXCEPT ![r] = "observe"] /\ stamp' = [stamp EXCEPT ![r] = now]
      /\ UNCHANGED <<now, bucketVars, due, promised, credit>>
  BY DEF Answered
<1>2. now \in 0..now /\ TypeOK'
  BY <1>1 DEF Inv, TypeOK, bucketVars
<1> QED
  BY <1>1, <1>2 DEF Inv, TypeOK

LEMMA ObserveInv ==
    ASSUME Inv, NEW r \in Requests, NEW label, Observe(r, label)
    PROVE  Inv'
<1>1. /\ limit' \in [Buckets -> Limits \cup {0}] /\ level' \in [Buckets -> Int]
      /\ \A a \in Buckets : level'[a] <= Full(limit'[a])
      /\ at' \in [Buckets -> 0..now] /\ credit' \in [Buckets -> Int]
  <2>1. CASE UNCHANGED <<limit, level, at, credit>>
    BY <2>1 DEF Inv, TypeOK
  <2>2. ASSUME NEW b \in Buckets, NEW l \in Limits, NEW remaining \in 0..l, Set(b, l, remaining, b, stamp[r])
        PROVE  <1>1
    <3> DEFINE parts == Second * AtMost(remaining, l)
    <3>1. l \in Nat /\ remaining \in Nat
      BY RateAssumption
    <3>2. parts \in Int /\ parts <= Full(l)
      <4>1. parts = Charge(remaining, l)
        BY DEF Charge
      <4>2. Charge(remaining, l) \in 0..Full(l) /\ Full(l) \in Nat
        BY <3>1, ChargeBounds
      <4> QED
        BY <4>1, <4>2
    <3>3. Reserved(b, l) \subseteq Requests \X (1..Full(l))
      BY DEF Reserved
    <3>4. Waiting(b, l) \in Nat
      BY <3>1, <3>3, ReservedFinite DEF Waiting
    <3> DEFINE credited == parts + (now - stamp[r]) * l + Waiting(b, l)
    <3>6. credited \in Int /\ stamp[r] \in 0..now
      <4>1. stamp[r] \in 0..now /\ now \in Nat
        BY DEF Inv, TypeOK
      <4>2. (now - stamp[r]) * l \in Int
        BY <3>1, <4>1
      <4> HIDE DEF parts
      <4> QED
        BY <3>2, <3>4, <4>1, <4>2
    <3> HIDE DEF parts, credited
    <3>5. /\ limit' = [limit EXCEPT ![b] = l] /\ level' = [level EXCEPT ![b] = parts]
          /\ at' = [at EXCEPT ![b] = stamp[r]] /\ credit' = [credit EXCEPT ![b] = credited]
      BY <2>2 DEF Set, parts, credited
    <3> QED
      BY <3>2, <3>5, <3>6 DEF Inv, TypeOK
  <2> QED
    BY <2>1, <2>2, ObserveIs
<1>2. until' \in [Buckets -> Nat]
  <2>1. ASSUME NEW b \in Buckets, NEW retryAfter \in RetryAfters, Block(b, retryAfter, stamp[r])
        PROVE  until' \in [Buckets -> Nat]
    <3>1. retryAfter \in Nat /\ Second \in Nat
      BY RateAssumption
    <3> QED
      BY <2>1, <3>1 DEF Block, AtLeast, Inv, TypeOK
  <2> QED
    BY <2>1, ObserveIs DEF Inv, TypeOK
<1>3. /\ pc' = [pc EXCEPT ![r] = "idle"] /\ promised' = [promised EXCEPT ![r] = 0]
      /\ stamp' = [stamp EXCEPT ![r] = 0] /\ UNCHANGED <<now, due>>
  BY ObserveIs
<1>4. TypeOK'
  BY <1>1, <1>2, <1>3 DEF Inv, TypeOK
<1> QED
  BY <1>3, <1>4 DEF Inv, TypeOK

LEMMA TickInv ==
    ASSUME Inv, Tick
    PROVE  Inv'
<1>1. now' \in 0..MaxNow /\ now' = now + 1
  BY RateAssumption DEF Inv, TypeOK, Tick
<1>2. credit' \in [Buckets -> Int]
  <2>1. \A b \in Buckets : credit[b] + limit[b] \in Int
    BY LimitNat DEF Inv, TypeOK
  <2> QED
    BY <2>1 DEF Tick
<1>3. TypeOK'
  BY <1>1, <1>2 DEF Inv, TypeOK, Tick, bucketVars, requestVars
<1> QED
  BY <1>3 DEF Inv, Tick, requestVars

LEMMA StepInv ==
    ASSUME Inv, [Next]_vars
    PROVE  Inv'
<1>1. CASE UNCHANGED vars
  BY <1>1 DEF Inv, TypeOK, vars, bucketVars, requestVars
<1> QED
  BY <1>1, TickInv, CallInv, ReserveInv, TimerFiresInv, CtxEndsInv, AnsweredInv, ObserveInv DEF Next

\* ratelimit.go: a bucket's clock never runs ahead, its level never passes one second of
\* tokens, and a goroutine is at one place of do and wait at a time.
THEOREM RateLimitTypeCorrect == Spec => []TypeOK
<1>1. Inv => TypeOK
  BY DEF Inv
<1> QED
  BY <1>1, InitInv, StepInv, PTL DEF Spec

\* ratelimit.go:185-190, 210-226: whatever the interleaving, no request that reserves after a
\* 429 was adopted leaves before that 429's retry-after has passed.
THEOREM RetryAfterHonoured == Spec => BlockHonoured
<1> DEFINE Honoured ==
      \A r \in Requests :
         pc[r] \in {"reserve", "waiting"} /\ pc'[r] = "sent" => now >= promised'[r]
<1>1. ASSUME Inv, [Next]_vars
      PROVE  Honoured
  <2> SUFFICES ASSUME NEW q \in Requests, pc[q] \in {"reserve", "waiting"}, pc'[q] = "sent"
               PROVE  now >= promised'[q]
    OBVIOUS
  <2>1. ASSUME NEW r \in Requests, Reserve(r)
        PROVE  now >= promised'[q]
    <3> DEFINE b == ClassOf[r]
    <3>1. /\ b \in Buckets /\ pc[r] = "reserve"
          /\ promised' = [promised EXCEPT ![r] = until[b]]
      BY <1>1, <2>1, ReserveIs DEF Inv
    <3>2. /\ Wait(r) \in Int /\ Wait(r) >= until[b] - stamp[r]
          /\ until[b] \in Nat /\ stamp[r] \in 0..now /\ now \in Nat
      BY <1>1, <3>1, ReserveComputes DEF Inv, TypeOK
    <3>3. \/ Wait(r) <= 0 /\ pc' = [pc EXCEPT ![r] = "sent"]
          \/ pc' = [pc EXCEPT ![r] = "waiting"]
      BY <2>1, ReserveIs DEF Send
    <3>4. q = r /\ Wait(r) <= 0
      BY <1>1, <3>3 DEF Inv, TypeOK
    <3>5. promised'[q] = until[b]
      BY <1>1, <3>1, <3>4 DEF Inv, TypeOK
    <3> QED
      BY <3>2, <3>4, <3>5
  <2>2. ASSUME NEW r \in Requests, TimerFires(r)
        PROVE  now >= promised'[q]
    <3>1. q = r
      BY <1>1, <2>2 DEF TimerFires, Send, Inv, TypeOK
    <3> QED
      BY <1>1, <2>2, <3>1 DEF TimerFires, Inv, TypeOK
  <2>3. ASSUME NEW r \in Requests, Call(r) \/ CtxEnds(r) \/ Answered(r) \/ \E label \in Labels : Observe(r, label)
        PROVE  FALSE
    BY <1>1, <2>3, ObserveIs DEF Call, CtxEnds, Answered, Inv, TypeOK
  <2>4. CASE Tick \/ UNCHANGED vars
    BY <2>4 DEF Tick, vars, requestVars
  <2> QED
    BY <1>1, <2>1, <2>2, <2>3, <2>4 DEF Next
<1>2. Spec => [][Honoured]_vars
  BY <1>1, InitInv, StepInv, PTL DEF Spec
<1> QED
  BY <1>2 DEF BlockHonoured
-----------------------------------------------------------------------------
(* What is reserved, as a request starts or stops to wait *)

\* The level of b at a limit of l, t ticks into the run, if nothing else is reserved and the
\* cap did not exist.
Level(b, l, t) == level[b] + (t - at[b]) * l

\* The parts reserved on b whose requests leave after t, and those of r alone.
Later(b, l, t) == {p \in Reserved(b, l) : due[p[1]] > t}
Own(r, l) == {r} \X (1..Charge(WeightOf[r], l))

LEMMA LaterBounds ==
    ASSUME NEW b, NEW l \in Nat, NEW t
    PROVE  /\ Cardinality(Reserved(b, l)) \in Nat /\ IsFiniteSet(Reserved(b, l))
           /\ Cardinality(Later(b, l, t)) \in Nat /\ IsFiniteSet(Later(b, l, t))
           /\ Cardinality(Later(b, l, t)) <= Cardinality(Reserved(b, l))
<1>1. Reserved(b, l) \subseteq Requests \X (1..Full(l)) /\ Later(b, l, t) \subseteq Reserved(b, l)
  BY DEF Reserved, Later
<1>2. IsFiniteSet(Reserved(b, l)) /\ Cardinality(Reserved(b, l)) \in Nat
  BY <1>1, ReservedFinite
<1> QED
  BY <1>1, <1>2, FS_Subset, FS_CardinalityType

LEMMA OwnCount ==
    ASSUME NEW r \in Requests, NEW l \in Nat
    PROVE  IsFiniteSet(Own(r, l)) /\ Cardinality(Own(r, l)) = Charge(WeightOf[r], l)
<1> DEFINE c == Charge(WeightOf[r], l)
           I == 1..c
<1>1. WeightOf[r] \in Nat
  BY RateAssumption
<1>2. c \in 0..Full(l) /\ Full(l) \in Nat
  BY <1>1, ChargeBounds
<1> HIDE DEF c
<1>3. IsFiniteSet(I) /\ Cardinality(I) = c
  BY <1>2, FS_Interval
<1>4. IsFiniteSet({r}) /\ Cardinality({r}) = 1
  BY FS_Singleton
<1> HIDE DEF I
<1>5. IsFiniteSet({r} \X I) /\ Cardinality({r} \X I) = Cardinality({r}) * Cardinality(I)
  BY <1>3, <1>4, FS_Product
<1>6. Own(r, l) = {r} \X I
  BY DEF Own, I, c
<1>7. IsFiniteSet({r} \X I) /\ Cardinality({r} \X I) = c
  BY <1>2, <1>3, <1>4, <1>5
<1> QED
  BY <1>6, <1>7 DEF c

LEMMA Removed ==
    ASSUME NEW S, IsFiniteSet(S), NEW P, IsFiniteSet(P)
    PROVE  /\ Cardinality(S \ P) \in Nat /\ Cardinality(S) \in Nat /\ Cardinality(P) \in Nat
           /\ Cardinality(S \ P) >= Cardinality(S) - Cardinality(P)
           /\ P \subseteq S => Cardinality(S \ P) = Cardinality(S) - Cardinality(P)
<1>1. IsFiniteSet(S \ P) /\ Cardinality(S \ P) = Cardinality(S) - Cardinality(S \cap P)
  BY FS_Difference
<1>2. S \cap P \subseteq P /\ (P \subseteq S => S \cap P = P)
  OBVIOUS
<1>3. IsFiniteSet(S \cap P) /\ Cardinality(S \cap P) <= Cardinality(P)
  BY <1>2, FS_Subset
<1>4. /\ Cardinality(S \ P) \in Nat /\ Cardinality(S) \in Nat /\ Cardinality(P) \in Nat
      /\ Cardinality(S \cap P) \in Nat
  BY <1>1, <1>3, FS_CardinalityType
<1> QED
  BY <1>1, <1>2, <1>3, <1>4

LEMMA Joined ==
    ASSUME NEW S, IsFiniteSet(S), NEW P, IsFiniteSet(P), S \cap P = {}
    PROVE  Cardinality(S \cup P) = Cardinality(S) + Cardinality(P)
<1>1. Cardinality(S \cup P) = Cardinality(S) + Cardinality(P) - Cardinality(S \cap P)
  BY FS_Union
<1>2. Cardinality(S \cap P) = 0 /\ Cardinality(S) \in Nat /\ Cardinality(P) \in Nat
  BY FS_EmptySet, FS_CardinalityType
<1> QED
  BY <1>1, <1>2

\* Nobody but r moves, and r does not wait on b before or after.
LEMMA NobodyWaits ==
    ASSUME NEW r \in Requests, NEW b, NEW l \in Nat,
           \A q \in Requests \ {r} : pc'[q] = pc[q] /\ due'[q] = due[q],
           ClassOf[r] # b \/ (pc[r] # "waiting" /\ pc'[r] # "waiting")
    PROVE  Reserved(b, l)' = Reserved(b, l) /\ \A t : Later(b, l, t)' = Later(b, l, t)
<1>1. Reserved(b, l)' = Reserved(b, l)
  BY DEF Reserved
<1>2. \A p \in Reserved(b, l) : due'[p[1]] = due[p[1]]
  BY DEF Reserved
<1>3. ASSUME NEW t PROVE Later(b, l, t)' = Later(b, l, t)
  BY <1>1, <1>2 DEF Later
<1> QED
  BY <1>1, <1>3

\* r stops to wait: its parts go, whenever it was due.
LEMMA StopsWaiting ==
    ASSUME NEW r \in Requests, NEW b, NEW l \in Nat, ClassOf[r] = b,
           \A q \in Requests \ {r} : pc'[q] = pc[q] /\ due'[q] = due[q],
           pc[r] = "waiting", pc'[r] # "waiting"
    PROVE  /\ Cardinality(Reserved(b, l)') = Cardinality(Reserved(b, l)) - Charge(WeightOf[r], l)
           /\ \A t : /\ Cardinality(Later(b, l, t)') \in Nat
                    /\ Cardinality(Later(b, l, t)') >= Cardinality(Later(b, l, t)) - Charge(WeightOf[r], l)
           /\ \A t : ~(due[r] > t) => Later(b, l, t)' = Later(b, l, t)
<1> DEFINE c == Charge(WeightOf[r], l)
<1>1. c \in 0..Full(l) /\ Full(l) \in Nat
  BY RateAssumption, ChargeBounds
<1>2. Own(r, l) \subseteq Reserved(b, l)
  BY <1>1 DEF Own, Reserved
<1>3. Reserved(b, l)' = Reserved(b, l) \ Own(r, l)
  BY DEF Reserved, Own
<1>4. Cardinality(Reserved(b, l)') = Cardinality(Reserved(b, l)) - c
  <2>1. IsFiniteSet(Reserved(b, l)) /\ IsFiniteSet(Own(r, l)) /\ Cardinality(Own(r, l)) = c
    BY LaterBounds, OwnCount
  <2> QED
    BY <1>2, <1>3, <2>1, Removed
<1>5. \A p \in Reserved(b, l) \ Own(r, l) : due'[p[1]] = due[p[1]]
  BY DEF Reserved, Own
<1>6. ASSUME NEW t
      PROVE  Later(b, l, t)' = Later(b, l, t) \ Own(r, l)
  BY <1>3, <1>5 DEF Later
<1>7. ASSUME NEW t
      PROVE  /\ Cardinality(Later(b, l, t)') \in Nat
             /\ Cardinality(Later(b, l, t)') >= Cardinality(Later(b, l, t)) - c
  BY <1>6, LaterBounds, OwnCount, Removed, ZenonT(60)
<1>8. ASSUME NEW t, ~(due[r] > t)
      PROVE  Later(b, l, t)' = Later(b, l, t)
  <2>1. \A p \in Own(r, l) : p[1] = r
    BY DEF Own
  <2>2. Later(b, l, t) \cap Own(r, l) = {}
    BY <1>8, <2>1 DEF Later
  <2> QED
    BY <1>6, <2>2
<1> QED
  BY <1>4, <1>7, <1>8

\* r starts to wait: its parts come, and count as long as it is not due.
LEMMA StartsWaiting ==
    ASSUME NEW r \in Requests, NEW b, NEW l \in Nat, ClassOf[r] = b,
           \A q \in Requests \ {r} : pc'[q] = pc[q] /\ due'[q] = due[q],
           pc[r] # "waiting", pc'[r] = "waiting"
    PROVE  /\ Cardinality(Reserved(b, l)') = Cardinality(Reserved(b, l)) + Charge(WeightOf[r], l)
           /\ \A t : due'[r] > t =>
                 Cardinality(Later(b, l, t)') = Cardinality(Later(b, l, t)) + Charge(WeightOf[r], l)
           /\ \A t : ~(due'[r] > t) => Later(b, l, t)' = Later(b, l, t)
<1> DEFINE c == Charge(WeightOf[r], l)
<1>1. c \in 0..Full(l) /\ Full(l) \in Nat
  BY RateAssumption, ChargeBounds
<1>2. Own(r, l) \cap Reserved(b, l) = {}
  BY DEF Own, Reserved
<1>3. Reserved(b, l)' = Reserved(b, l) \cup Own(r, l)
  BY <1>1 DEF Reserved, Own
<1>4. Cardinality(Reserved(b, l)') = Cardinality(Reserved(b, l)) + c
  <2>1. IsFiniteSet(Reserved(b, l)) /\ IsFiniteSet(Own(r, l)) /\ Cardinality(Own(r, l)) = c
    BY LaterBounds, OwnCount
  <2> QED
    BY <1>2, <1>3, <2>1, Joined
<1>5. \A p \in Reserved(b, l) : due'[p[1]] = due[p[1]]
  BY DEF Reserved
<1>6. \A p \in Own(r, l) : due'[p[1]] = due'[r]
  BY DEF Own
<1>7. ASSUME NEW t, due'[r] > t
      PROVE  Cardinality(Later(b, l, t)') = Cardinality(Later(b, l, t)) + c
  <2>1. Later(b, l, t)' = Later(b, l, t) \cup Own(r, l)
    BY <1>3, <1>5, <1>6, <1>7 DEF Later
  <2>2. Later(b, l, t) \cap Own(r, l) = {}
    BY <1>2 DEF Later
  <2> QED
    BY <2>1, <2>2, LaterBounds, OwnCount, Joined, ZenonT(60)
<1>8. ASSUME NEW t, ~(due'[r] > t)
      PROVE  Later(b, l, t)' = Later(b, l, t)
  BY <1>3, <1>5, <1>6, <1>8 DEF Later
<1> QED
  BY <1>4, <1>7, <1>8
-----------------------------------------------------------------------------
(* Never more than was reported and refilled *)

\* The bound of what was sent: credit covers the level and every reservation that waits.
Backed(b, l) == credit[b] >= Level(b, l, now) + Waiting(b, l)

\* A reservation leaves when its part of the deficit is refilled: at any time from now on,
\* the level by then and the reservations that still wait then are no deficit.
Covered(b, l) ==
    \A t \in Nat : t >= now => Level(b, l, t) + Cardinality(Later(b, l, t)) >= 0

\* A request, or its response, locks the bucket within the tick in which the clock was read.
Fresh == \A r \in Requests : pc[r] \in {"reserve", "observe"} => stamp[r] = now

PacedInv ==
    /\ Inv /\ Fresh
    /\ \A b \in Buckets, l \in Nat : limit[b] = l => Backed(b, l) /\ Covered(b, l)

\* The level is linear in time.
LEMMA LevelTyped ==
    ASSUME TypeOK, NEW b \in Buckets, NEW l \in Nat, NEW t \in Nat
    PROVE  /\ Level(b, l, t) \in Int
           /\ Level(b, l, t + 1) = Level(b, l, t) + l
           /\ t >= at[b] => Level(b, l, t) >= level[b]
<1>1. level[b] \in Int /\ at[b] \in Int /\ (t - at[b]) \in Int
  BY DEF TypeOK
<1>2. (t - at[b]) * l \in Int /\ (t + 1 - at[b]) * l = (t - at[b]) * l + l
  BY <1>1
<1>3. t >= at[b] => (t - at[b]) * l >= 0
  BY <1>1
<1> QED
  BY <1>1, <1>2, <1>3 DEF Level

LEMMA PacedFollows ==
    ASSUME PacedInv
    PROVE  Paced
<1> SUFFICES ASSUME NEW b \in Buckets
             PROVE  credit[b] >= 0
  BY DEF Paced
<1>1. PICK l \in Nat : limit[b] = l
  BY LimitNat DEF PacedInv, Inv
<1>2. now \in Nat /\ credit[b] \in Int
  BY DEF PacedInv, Inv, TypeOK
<1>3. Level(b, l, now) \in Int
  BY <1>2, LevelTyped DEF PacedInv, Inv
<1>4. /\ Waiting(b, l) \in Nat /\ Cardinality(Later(b, l, now)) \in Nat
      /\ Cardinality(Later(b, l, now)) <= Waiting(b, l)
  BY LaterBounds DEF Waiting
<1>5. Backed(b, l) /\ Covered(b, l)
  BY <1>1 DEF PacedInv
<1> QED
  BY <1>2, <1>3, <1>4, <1>5 DEF Backed, Covered

LEMMA InitPaced == Init => PacedInv
<1> SUFFICES ASSUME Init
             PROVE  PacedInv
  OBVIOUS
<1>1. ASSUME NEW b \in Buckets, NEW l \in Nat, limit[b] = l
      PROVE  Backed(b, l) /\ Covered(b, l)
  <2>1. l = 0 /\ now = 0 /\ credit[b] = 0
    BY <1>1 DEF Init
  <2>2. \A t \in Nat : Level(b, l, t) = 0
    BY <2>1 DEF Init, Level
  <2>3. Reserved(b, l) = {}
    BY DEF Init, Reserved
  <2>4. Waiting(b, l) = 0 
    BY <2>3, FS_EmptySet DEF Waiting
  <2>5. \A t \in Nat : Cardinality(Later(b, l, t)) \in Nat
    BY LaterBounds
  <2> QED
    BY <2>1, <2>2, <2>4, <2>5 DEF Backed, Covered
<1> QED
  BY <1>1, InitInv DEF PacedInv, Fresh, Init

\* A step that leaves a bucket, and what is reserved on it, alone.
LEMMA BucketAlone ==
    ASSUME PacedInv, NEW b \in Buckets, NEW l \in Nat, limit[b] = l,
           UNCHANGED <<now, level[b], at[b], credit[b]>>,
           Reserved(b, l)' = Reserved(b, l), \A t : Later(b, l, t)' = Later(b, l, t)
    PROVE  Backed(b, l)' /\ Covered(b, l)'
<1>1. Backed(b, l) /\ Covered(b, l)
  BY DEF PacedInv
<1>2. \A t \in Nat : Level(b, l, t)' = Level(b, l, t)
  BY DEF Level
<1>3. now \in Nat
  BY DEF PacedInv, Inv, TypeOK
<1>4. Level(b, l, now)' = Level(b, l, now)
  BY <1>2, <1>3 DEF Level
<1>5. Waiting(b, l)' = Waiting(b, l)
  BY DEF Waiting
<1>6. Backed(b, l)'
  BY <1>1, <1>4, <1>5 DEF Backed
<1>7. Covered(b, l)'
  BY <1>1, <1>2 DEF Covered
<1> QED
  BY <1>6, <1>7

LEMMA CallPaced ==
    ASSUME PacedInv, NEW r \in Requests, Call(r)
    PROVE  PacedInv'
<1>1. pc[r] = "idle" /\ pc'[r] # "waiting" /\ UNCHANGED <<now, limit, level, at, credit, due>>
      /\ \A q \in Requests \ {r} : pc'[q] = pc[q]
  BY DEF Call, PacedInv, Inv, TypeOK, bucketVars
<1>2. ASSUME NEW b \in Buckets, NEW l \in Nat, limit'[b] = l
      PROVE  Backed(b, l)' /\ Covered(b, l)'
  <2>1. Reserved(b, l)' = Reserved(b, l) /\ \A t : Later(b, l, t)' = Later(b, l, t)
    BY <1>1, NobodyWaits
  <2> QED
    BY <1>1, <1>2, <2>1, BucketAlone
<1>3. Fresh'
  BY DEF Call, Fresh, PacedInv, Inv, TypeOK
<1> QED
  BY <1>2, <1>3, CallInv DEF PacedInv

LEMMA TickPaced ==
    ASSUME ~SlowLock, PacedInv, Tick
    PROVE  PacedInv'
<1>1. now \in Nat /\ now' = now + 1 /\ UNCHANGED <<limit, level, at, pc, due>>
  BY DEF Tick, PacedInv, Inv, TypeOK, bucketVars, requestVars
<1>2. ASSUME NEW b \in Buckets, NEW l \in Nat, limit'[b] = l
      PROVE  Backed(b, l)' /\ Covered(b, l)'
  <2>1. Backed(b, l) /\ Covered(b, l) /\ limit[b] = l
    BY <1>1, <1>2 DEF PacedInv
  <2>2. Reserved(b, l)' = Reserved(b, l)
    BY <1>1 DEF Reserved
  <2>3. \A t : Later(b, l, t)' = Later(b, l, t)
    BY <1>1, <2>2 DEF Later
  <2>4. \A t \in Nat : Level(b, l, t)' = Level(b, l, t)
    BY <1>1 DEF Level
  <2>5. Level(b, l, now)' = Level(b, l, now) + l /\ Level(b, l, now) \in Int
    <3>1. Level(b, l, now)' = Level(b, l, now + 1)
      BY <1>1 DEF Level
    <3> QED
      BY <1>1, <3>1, LevelTyped DEF PacedInv, Inv
  <2>6. credit'[b] = credit[b] + l /\ credit[b] \in Int
    BY <2>1 DEF Tick, PacedInv, Inv, TypeOK
  <2>7. Waiting(b, l)' = Waiting(b, l) /\ Waiting(b, l) \in Nat
    BY <2>2, LaterBounds DEF Waiting
  <2>8. Backed(b, l)'
    BY <2>1, <2>5, <2>6, <2>7 DEF Backed
  <2>9. Covered(b, l)'
    BY <1>1, <2>1, <2>3, <2>4 DEF Covered
  <2> QED
    BY <2>8, <2>9
<1>3. Fresh'
  BY <1>1 DEF Tick, Fresh
<1> QED
  BY <1>2, <1>3, TickInv DEF PacedInv

LEMMA TimerFiresPaced ==
    ASSUME PacedInv, NEW r \in Requests, TimerFires(r)
    PROVE  PacedInv'
<1> DEFINE a == ClassOf[r]
<1>1. /\ a \in Buckets /\ pc[r] = "waiting" /\ now >= due[r] /\ now \in Nat /\ due[r] \in Nat
      /\ UNCHANGED <<now, limit, level, at, stamp>>
  BY DEF TimerFires, PacedInv, Inv, TypeOK, bucketVars
<1>2. /\ pc'[r] = "sent" /\ \A q \in Requests \ {r} : pc'[q] = pc[q] /\ due'[q] = due[q]
      /\ \A b \in Buckets \ {a} : credit'[b] = credit[b]
      /\ credit'[a] = IF limit[a] = 0 THEN 0 ELSE credit[a] - Charge(WeightOf[r], limit[a])
  BY <1>1 DEF TimerFires, Send, PacedInv, Inv, TypeOK
<1>3. ASSUME NEW b \in Buckets, NEW l \in Nat, limit'[b] = l, b # a
      PROVE  Backed(b, l)' /\ Covered(b, l)'
  <2>1. Reserved(b, l)' = Reserved(b, l) /\ \A t : Later(b, l, t)' = Later(b, l, t)
    BY <1>2, <1>3, NobodyWaits
  <2>2. limit[b] = l /\ UNCHANGED <<now, level[b], at[b], credit[b]>>
    BY <1>1, <1>2, <1>3
  <2> QED
    BY <1>3, <2>1, <2>2, BucketAlone
<1>4. ASSUME NEW l \in Nat, limit[a] = l
      PROVE  Backed(a, l)' /\ Covered(a, l)'
  <2> DEFINE c == Charge(WeightOf[r], l)
  <2>1. /\ c \in Nat /\ credit[a] \in Int /\ level[a] <= Full(l)
        /\ level[a] \in Int /\ at[a] \in 0..now
    BY <1>1, <1>4, ChargeTyped DEF PacedInv, Inv, TypeOK
  <2>2. Backed(a, l) /\ Covered(a, l)
    BY <1>1, <1>4 DEF PacedInv
  <2>3. /\ Cardinality(Reserved(a, l)') = Cardinality(Reserved(a, l)) - c
        /\ \A t : ~(due[r] > t) => Later(a, l, t)' = Later(a, l, t)
    BY <1>1, <1>2, StopsWaiting
  <2>4. \A t \in Nat : Level(a, l, t)' = Level(a, l, t)
    BY <1>1 DEF Level
  <2>5. Level(a, l, now)' = Level(a, l, now) /\ Level(a, l, now) \in Int
    BY <1>1, LevelTyped DEF Level, PacedInv, Inv
  <2>6. Waiting(a, l)' = Waiting(a, l) - c /\ Waiting(a, l) \in Nat
    BY <2>3, LaterBounds DEF Waiting
  <2>7. Backed(a, l)'
    <3>1. CASE l = 0
      <4>1. Full(l) = 0
        BY <3>1, RateAssumption DEF Full
      <4>2. c = 0 /\ credit'[a] = 0
        BY <1>2, <1>4, <3>1, RateAssumption, ChargeBounds, <4>1
      <4>3. Reserved(a, l) = {}
        BY <4>1 DEF Reserved
      <4>4. Waiting(a, l) = 0
        BY <4>3, FS_EmptySet DEF Waiting
      <4>5. Level(a, l, now) <= 0
        <5>1. now - at[a] \in Int
          BY <1>1, <2>1
        <5>2. (now - at[a]) * l = 0
          BY <3>1, <5>1
        <5> QED BY <2>1, <4>1, <5>2 DEF Level
      <4> QED
        BY <2>5, <2>6, <4>2, <4>4, <4>5 DEF Backed
    <3>2. CASE l # 0
      <4>1. credit'[a] = credit[a] - c
        BY <1>2, <1>4, <3>2
      <4> QED
        BY <2>1, <2>2, <2>5, <2>6, <4>1 DEF Backed
    <3> QED
      BY <3>1, <3>2
  <2>8. Covered(a, l)'
    <3>1. \A t \in Nat : t >= now => ~(due[r] > t)
      BY <1>1
    <3> QED
      BY <1>1, <2>2, <2>3, <2>4, <3>1 DEF Covered
  <2> QED
    BY <2>7, <2>8
<1>5. Fresh'
  BY <1>1, <1>2 DEF Fresh, PacedInv
<1> QED
  BY <1>1, <1>3, <1>4, <1>5, TimerFiresInv DEF PacedInv

LEMMA CtxEndsPaced ==
    ASSUME PacedInv, NEW r \in Requests, CtxEnds(r)
    PROVE  PacedInv'
<1> DEFINE a == ClassOf[r]
           back == IF limit[a] = 0 THEN level[a] ELSE Refund(a, WeightOf[r])
<1>1. /\ a \in Buckets /\ pc[r] = "waiting" /\ now \in Nat
      /\ UNCHANGED <<now, limit, at, credit, stamp>>
  BY DEF CtxEnds, PacedInv, Inv, TypeOK
<1>2. /\ pc'[r] = "idle" /\ \A q \in Requests \ {r} : pc'[q] = pc[q] /\ due'[q] = due[q]
      /\ \A b \in Buckets \ {a} : level'[b] = level[b]
      /\ level'[a] = back
  BY <1>1 DEF CtxEnds, PacedInv, Inv, TypeOK
<1>3. ASSUME NEW b \in Buckets, NEW l \in Nat, limit'[b] = l, b # a
      PROVE  Backed(b, l)' /\ Covered(b, l)'
  <2>1. Reserved(b, l)' = Reserved(b, l) /\ \A t : Later(b, l, t)' = Later(b, l, t)
    BY <1>2, <1>3, NobodyWaits
  <2>2. limit[b] = l /\ UNCHANGED <<now, level[b], at[b], credit[b]>>
    BY <1>1, <1>2, <1>3
  <2> QED
    BY <1>3, <2>1, <2>2, BucketAlone
<1>4. ASSUME NEW l \in Nat, limit[a] = l
      PROVE  Backed(a, l)' /\ Covered(a, l)'
  <2> DEFINE c == Charge(WeightOf[r], l)
  <2>1. /\ c \in Nat /\ Full(l) \in Nat /\ c <= Full(l) /\ credit[a] \in Int
        /\ level[a] \in Int /\ level[a] <= Full(l) /\ at[a] \in 0..now
    BY <1>1, <1>4, ChargeTyped DEF PacedInv, Inv, TypeOK
  <2>2. Backed(a, l) /\ Covered(a, l)
    BY <1>1, <1>4 DEF PacedInv
  <2>3. /\ Cardinality(Reserved(a, l)') = Cardinality(Reserved(a, l)) - c
        /\ \A t : /\ Cardinality(Later(a, l, t)') \in Nat
                 /\ Cardinality(Later(a, l, t)') >= Cardinality(Later(a, l, t)) - c
    BY <1>1, <1>2, StopsWaiting
  <2>4. /\ level'[a] \in Int /\ level'[a] <= level[a] + c
        /\ level'[a] = level[a] + c \/ level'[a] >= 0
    <3>1. CASE limit[a] = 0
      <4>1. Full(l) = 0
        BY <1>4, <3>1, RateAssumption DEF Full
      <4> QED
        BY <1>2, <2>1, <3>1, <4>1
    <3>2. CASE limit[a] # 0
      <4>1. back = AtMost(Full(l), level[a] + c)
        BY <1>4, <3>2 DEF Refund
      <4> QED
        BY <1>2, <2>1, <4>1 DEF AtMost
    <3> QED
      BY <3>1, <3>2
  <2>5. \A t \in Nat : /\ Level(a, l, t) \in Int
                       /\ Level(a, l, t)' = Level(a, l, t) + (level'[a] - level[a])
    <3>1. ASSUME NEW t \in Nat
          PROVE  /\ Level(a, l, t) \in Int
                 /\ Level(a, l, t)' = Level(a, l, t) + (level'[a] - level[a])
      <4>1. (t - at[a]) * l \in Int
        BY <1>1, <2>1
      <4> QED
        BY <1>1, <2>1, <2>4, <4>1 DEF Level
    <3> QED
      BY <3>1
  <2>6. Level(a, l, now)' = Level(a, l, now) + (level'[a] - level[a]) /\ Level(a, l, now) \in Int
    <3>1. Level(a, l, now)' = level'[a] + (now - at[a]) * l
      BY <1>1 DEF Level
    <3>2. (now - at[a]) * l \in Int
      BY <1>1, <2>1
    <3> QED
      BY <2>1, <2>4, <3>1, <3>2 DEF Level
  <2>7. Waiting(a, l)' = Waiting(a, l) - c /\ Waiting(a, l) \in Nat
    BY <2>3, LaterBounds DEF Waiting
  <2>8. Backed(a, l)'
    <3>1. credit'[a] >= Level(a, l, now)' + Waiting(a, l)'
      BY <1>1, <2>1, <2>2, <2>4, <2>6, <2>7 DEF Backed
    <3> QED BY <3>1 DEF Backed
  <2>9. Covered(a, l)'
    <3>1. ASSUME NEW t \in Nat, t >= now
          PROVE  Level(a, l, t)' + Cardinality(Later(a, l, t)') >= 0
      <4>1. Cardinality(Later(a, l, t)) \in Nat
        BY LaterBounds
      <4>2. Cardinality(Later(a, l, t)') \in Nat
        BY <2>3
      <4>3. CASE level'[a] = level[a] + c
        <5>1. Level(a, l, t)' = Level(a, l, t) + c
          BY <2>1, <2>5, <4>3
        <5> QED
          BY <2>1, <2>2, <2>3, <2>5, <3>1, <4>1, <4>2, <5>1 DEF Covered
      <4>4. CASE level'[a] >= 0
        <5>1. (t - at[a]) * l >= 0 /\ (t - at[a]) * l \in Int
          BY <1>1, <2>1, <3>1
        <5>2. Level(a, l, t)' = level'[a] + (t - at[a]) * l
          BY <1>1 DEF Level
        <5> QED
          BY <2>4, <4>2, <4>4, <5>1, <5>2
      <4> QED
        BY <2>4, <4>3, <4>4
    <3> QED
      BY <1>1, <3>1 DEF Covered
  <2> QED
    BY <2>8, <2>9
<1>5. Fresh'
  BY <1>1, <1>2 DEF Fresh, PacedInv
<1> QED
  BY <1>1, <1>3, <1>4, <1>5, CtxEndsInv DEF PacedInv

\* The level that a request which reserves leaves behind: no more than it found and its
\* charge, and with the cap no deficit that the next second does not cover.
LEMMA LeftBounds ==
    ASSUME PacedInv, NEW r \in Requests, Reserve(r), NEW l \in Nat \ {0}, limit[ClassOf[r]] = l
    PROVE  LET b == ClassOf[r]
               c == Charge(WeightOf[r], l)
           IN  /\ Left(r) + c <= Level(b, l, now)
               /\ Left(r) + c = Level(b, l, now) \/ Left(r) >= 0
<1> DEFINE b == ClassOf[r]
           c == Charge(WeightOf[r], l)
           R == Refilled(b, now)
<1>1. b \in Buckets /\ stamp[r] = now /\ now \in Nat
  BY ReserveIs DEF PacedInv, Inv, Fresh, TypeOK
<1>2. /\ c \in Nat /\ c <= Full(l) /\ Full(l) \in Nat
      /\ level[b] \in Int /\ level[b] <= Full(l) /\ at[b] \in 0..now
  BY <1>1, ChargeTyped DEF PacedInv, Inv, TypeOK
<1>3. Left(r) = R - c
  BY <1>1 DEF Left
<1>4. (now - at[b]) * l \in Int /\ Level(b, l, now) = level[b] + (now - at[b]) * l
      /\ (now = at[b] => (now - at[b]) * l = 0)
  BY <1>1, <1>2 DEF Level
<1>5. R = Level(b, l, now) \/ (R = Full(l) /\ Full(l) <= Level(b, l, now))
  <2>1. CASE now > at[b]
    <3>1. R = AtMost(Full(l), Level(b, l, now))
      BY <2>1 DEF Refilled, Level
    <3>2. Level(b, l, now) \in Int
      BY <1>2, <1>4
    <3> QED
      BY <1>2, <3>1, <3>2 DEF AtMost
  <2>2. CASE ~(now > at[b])
    <3>1. now = at[b] /\ R = level[b]
      BY <1>1, <1>2, <2>2 DEF Refilled
    <3> QED
      BY <1>2, <1>4, <3>1
  <2> QED
    BY <2>1, <2>2
<1> QED
  BY <1>2, <1>3, <1>4, <1>5

LEMMA ReservePaced ==
    ASSUME PacedInv, NEW r \in Requests, Reserve(r)
    PROVE  PacedInv'
<1> DEFINE a == ClassOf[r]
<1>1. /\ a \in Buckets /\ pc[r] = "reserve" /\ stamp[r] = now /\ now \in Nat
      /\ UNCHANGED <<now, limit>>
  BY ReserveIs DEF PacedInv, Inv, Fresh, TypeOK
<1>2. \/ /\ Wait(r) <= 0 /\ pc' = [pc EXCEPT ![r] = "sent"] /\ UNCHANGED due
         /\ credit' = [credit EXCEPT ![a] =
                IF limit[a] = 0 THEN 0 ELSE @ - Charge(WeightOf[r], limit[a])]
      \/ /\ Wait(r) > 0 /\ pc' = [pc EXCEPT ![r] = "waiting"]
         /\ due' = [due EXCEPT ![r] = now + Wait(r)] /\ UNCHANGED credit
  BY ReserveIs DEF Send
<1>3. /\ \A q \in Requests \ {r} : pc'[q] = pc[q] /\ due'[q] = due[q]
      /\ \A b \in Buckets \ {a} : level'[b] = level[b] /\ at'[b] = at[b] /\ credit'[b] = credit[b]
  <2>1. \A b \in Buckets \ {a} : level'[b] = level[b] /\ at'[b] = at[b]
    BY ReserveIs DEF PacedInv, Inv, TypeOK
  <2> QED
    BY <1>2, <2>1 DEF PacedInv, Inv, TypeOK
<1>4. ASSUME NEW b \in Buckets, NEW l \in Nat, limit'[b] = l, b # a
      PROVE  Backed(b, l)' /\ Covered(b, l)'
  <2>1. Reserved(b, l)' = Reserved(b, l) /\ \A t : Later(b, l, t)' = Later(b, l, t)
    BY <1>3, <1>4, NobodyWaits
  <2> QED
    BY <1>1, <1>3, <1>4, <2>1, BucketAlone
<1>5. ASSUME NEW l \in Nat, limit[a] = l, l = 0
      PROVE  Backed(a, l)' /\ Covered(a, l)'
  <2>1. UNCHANGED <<level, at>> /\ level[a] \in Int /\ level[a] <= Full(l) /\ at[a] \in Int /\ credit[a] \in Int
    BY <1>1, <1>5, ReserveIs DEF PacedInv, Inv, TypeOK
  <2>2. Full(l) = 0
    BY <1>5, RateAssumption DEF Full
  <2>3. Reserved(a, l) = {} /\ Reserved(a, l)' = {}
    BY <2>2 DEF Reserved
  <2>4. \A t : Later(a, l, t) = {} /\ Later(a, l, t)' = {}
    BY <2>3 DEF Later
  <2>5. \A t \in Nat : Level(a, l, t) = level[a] /\ Level(a, l, t)' = level[a]
    <3>1. \A t \in Nat : (t - at[a]) * l = 0
      BY <1>5, <2>1
    <3> QED
      BY <2>1, <3>1 DEF Level
  <2>6. Level(a, l, now)' = level[a]
    BY <1>1, <2>5 DEF Level
  <2>7. Backed(a, l) /\ Covered(a, l)
    BY <1>1, <1>5 DEF PacedInv
  <2>8. Waiting(a, l) = 0 /\ Waiting(a, l)' = 0 /\ Cardinality({}) = 0
    BY <2>3, FS_EmptySet DEF Waiting
  <2>9. credit'[a] = 0 \/ credit'[a] = credit[a]
    BY <1>1, <1>2, <1>5 DEF PacedInv, Inv, TypeOK
  <2>10. Backed(a, l)'
    <3>1. credit'[a] >= level[a]
      BY <1>1, <2>1, <2>2, <2>5, <2>7, <2>8, <2>9 DEF Backed
    <3> QED
      BY <2>1, <2>6, <2>8, <3>1 DEF Backed
  <2>11. Covered(a, l)'
    <3>1. level[a] >= 0
      BY <1>1, <2>1, <2>4, <2>5, <2>7, <2>8 DEF Covered
    <3> QED
      BY <1>1, <2>1, <2>4, <2>5, <2>8, <3>1 DEF Covered
  <2> QED
    BY <2>10, <2>11
<1>6. ASSUME NEW l \in Nat \ {0}, limit[a] = l
      PROVE  Backed(a, l)' /\ Covered(a, l)'
  <2> DEFINE c == Charge(WeightOf[r], l)
             left == Left(r)
             wait == Wait(r)
  <2>1. /\ c \in Nat /\ credit[a] \in Int /\ level[a] \in Int /\ at[a] \in 0..now
        /\ left \in Int /\ wait \in Int /\ wait >= Short(r) /\ Short(r) \in Nat
    BY <1>1, <1>6, ChargeTyped, ReserveComputes DEF PacedInv, Inv, TypeOK
  <2>2. /\ left + c <= Level(a, l, now)
        /\ left + c = Level(a, l, now) \/ left >= 0
    BY <1>6, LeftBounds
  <2>3. left + Short(r) * l >= 0 /\ (Short(r) = 0 => left >= 0)
    BY <1>6, <2>1, DeficitRefilled DEF Short
  <2>4. Backed(a, l) /\ Covered(a, l)
    BY <1>1, <1>6 DEF PacedInv
  <2>5. level'[a] = left /\ at'[a] = now
    BY <1>1, <1>6, ReserveIs DEF PacedInv, Inv, TypeOK
  <2> HIDE DEF c, left, wait
  <2>6. \A t \in Nat : /\ Level(a, l, t)' = left + (t - now) * l
                       /\ Level(a, l, t) = level[a] + (t - at[a]) * l
                       /\ (t - now) * l \in Int /\ (t - at[a]) * l \in Int /\ (now - at[a]) * l \in Int
                       /\ (t - at[a]) * l = (t - now) * l + (now - at[a]) * l
    BY <1>1, <2>1, <2>5 DEF Level
  <2>7. Level(a, l, now)' = left
    <3>1. Level(a, l, now)' = left + (now - now) * l
      BY <1>1, <2>5 DEF Level
    <3> QED
      BY <1>1, <2>1, <3>1
  <2>8. /\ Level(a, l, now) = level[a] + (now - at[a]) * l
        /\ Level(a, l, now) \in Int
        /\ Waiting(a, l) \in Nat
        /\ \A t \in Nat : Cardinality(Later(a, l, t)) \in Nat
    <3>1. Level(a, l, now) \in Int
      BY <1>1, LevelTyped DEF PacedInv, Inv
    <3> QED
      BY <3>1, LaterBounds DEF Level, Waiting
  <2>9. CASE wait <= 0 /\ pc'[r] = "sent" /\ credit'[a] = credit[a] - c
    <3>1. Reserved(a, l)' = Reserved(a, l) /\ \A t : Later(a, l, t)' = Later(a, l, t)
      <4>1. pc[r] # "waiting" /\ pc'[r] # "waiting"
        BY <1>1, <2>9
      <4> QED
        BY <1>3, <4>1, NobodyWaits
    <3>2. left >= 0
      BY <2>1, <2>3, <2>9
    <3>3. Backed(a, l)'
      <4>1. Waiting(a, l)' = Waiting(a, l)
        BY <3>1 DEF Waiting
      <4> QED
        BY <2>1, <2>2, <2>4, <2>7, <2>8, <2>9, <4>1 DEF Backed
    <3>4. ASSUME NEW t \in Nat, t >= now
          PROVE  Level(a, l, t)' + Cardinality(Later(a, l, t)') >= 0
      <4>1. (t - now) * l >= 0 
        BY <1>1, <3>4
      <4>2. Cardinality(Later(a, l, t)') \in Nat
        BY <2>8, <3>1
      <4> QED
        BY <2>1, <2>6, <3>2, <4>1, <4>2
    <3> QED
      BY <1>1, <3>3, <3>4 DEF Covered
  <2>10. CASE wait > 0 /\ pc'[r] = "waiting" /\ due'[r] = now + wait /\ credit'[a] = credit[a]
    <3>1. /\ Cardinality(Reserved(a, l)') = Cardinality(Reserved(a, l)) + c
          /\ \A t : due'[r] > t => Cardinality(Later(a, l, t)') = Cardinality(Later(a, l, t)) + c
          /\ \A t : ~(due'[r] > t) => Later(a, l, t)' = Later(a, l, t)
      BY <1>1, <1>3, <2>10, StartsWaiting DEF c
    <3>2. Backed(a, l)'
      <4>1. Waiting(a, l)' = Waiting(a, l) + c
        BY <3>1 DEF Waiting
      <4> QED
        BY <2>1, <2>2, <2>4, <2>7, <2>8, <2>10, <4>1 DEF Backed
    <3>3. ASSUME NEW t \in Nat, t >= now
          PROVE  Level(a, l, t)' + Cardinality(Later(a, l, t)') >= 0
      <4>1. (t - now) * l >= 0
        BY <1>1, <3>3
      <4>2. Level(a, l, t) + Cardinality(Later(a, l, t)) >= 0
        BY <2>4, <3>3 DEF Covered
      <4>3. CASE due'[r] > t
        <5>1. Cardinality(Later(a, l, t)') = Cardinality(Later(a, l, t)) + c
          BY <3>1, <4>3
        <5>2. CASE left + c = Level(a, l, now)
          <6>1. Level(a, l, t)' + c = Level(a, l, t)
            <7>1. (t - now) * l \in Int /\ (now - at[a]) * l \in Int
              BY <2>6
            <7>2. Level(a, l, t)' = left + (t - now) * l
              BY <2>6
            <7>3. Level(a, l, t) = level[a] + ((t - now) * l + (now - at[a]) * l)
              BY <2>6
            <7>4. left + c = level[a] + (now - at[a]) * l
              BY <2>8, <5>2
            <7> QED
              BY <2>1, <7>1, <7>2, <7>3, <7>4
          <6>2. Level(a, l, t)' \in Int
            BY <2>1, <2>6
          <6> QED
            BY <2>1, <2>8, <4>2, <5>1, <6>1, <6>2
        <5>3. CASE left >= 0
          BY <2>1, <2>6, <2>8, <4>1, <5>1, <5>3
        <5> QED
          BY <2>2, <5>2, <5>3
      <4>4. CASE ~(due'[r] > t)
        <5>1. t - now \in Int /\ Short(r) <= t - now
          BY <1>1, <2>1, <2>10, <4>4
        <5>2. l * Short(r) <= l * (t - now)
          BY <2>1, <5>1, Scale
        <5>3. left + (t - now) * l >= 0
          BY <2>1, <2>3, <5>1, <5>2
        <5>4. Later(a, l, t)' = Later(a, l, t)
          BY <3>1, <4>4
        <5> QED
          BY <2>1, <2>6, <2>8, <5>3, <5>4
      <4> QED
        BY <4>3, <4>4
    <3> QED
      BY <1>1, <3>2, <3>3 DEF Covered
  <2>11. \/ wait <= 0 /\ pc'[r] = "sent" /\ credit'[a] = credit[a] - c
         \/ wait > 0 /\ pc'[r] = "waiting" /\ due'[r] = now + wait /\ credit'[a] = credit[a]
    BY <1>1, <1>2, <1>6 DEF PacedInv, Inv, TypeOK, c, wait
  <2> QED
    BY <2>9, <2>10, <2>11
<1>7. Fresh'
  <2>1. stamp' = [stamp EXCEPT ![r] = 0]
    BY ReserveIs
  <2> QED
    BY <1>1, <1>2, <2>1 DEF Fresh, PacedInv, Inv, TypeOK
<1> QED
  BY <1>1, <1>4, <1>5, <1>6, <1>7, ReserveInv DEF PacedInv

LEMMA AnsweredPaced ==
    ASSUME PacedInv, NEW r \in Requests, Answered(r)
    PROVE  PacedInv'
<1>1. pc[r] = "sent" /\ pc'[r] # "waiting" /\ UNCHANGED <<now, limit, level, at, credit, due>>
      /\ \A q \in Requests \ {r} : pc'[q] = pc[q]
  BY DEF Answered, PacedInv, Inv, TypeOK, bucketVars
<1>2. ASSUME NEW b \in Buckets, NEW l \in Nat, limit'[b] = l
      PROVE  Backed(b, l)' /\ Covered(b, l)'
  <2>1. Reserved(b, l)' = Reserved(b, l) /\ \A t : Later(b, l, t)' = Later(b, l, t)
    BY <1>1, NobodyWaits
  <2> QED
    BY <1>1, <1>2, <2>1, BucketAlone
<1>3. Fresh'
  BY DEF Answered, Fresh, PacedInv, Inv, TypeOK
<1> QED
  BY <1>2, <1>3, AnsweredInv DEF PacedInv

LEMMA ObservePaced ==
    ASSUME PacedInv, NEW r \in Requests, NEW label, Observe(r, label)
    PROVE  PacedInv'
<1>1. /\ pc[r] # "waiting" /\ pc'[r] # "waiting" /\ UNCHANGED <<now, due>> /\ now \in Nat
      /\ \A q \in Requests \ {r} : pc'[q] = pc[q] /\ stamp'[q] = stamp[q]
      /\ pc'[r] = "idle" /\ stamp[r] = now
  BY ObserveIs DEF PacedInv, Inv, TypeOK, Fresh
<1>2. ASSUME NEW b, NEW l \in Nat
      PROVE  Reserved(b, l)' = Reserved(b, l) /\ \A t : Later(b, l, t)' = Later(b, l, t)
  BY <1>1, NobodyWaits
<1>3. ASSUME NEW b \in Buckets, NEW l \in Nat, limit'[b] = l, UNCHANGED <<limit[b], level[b], at[b], credit[b]>>
      PROVE  Backed(b, l)' /\ Covered(b, l)'
  BY <1>1, <1>2, <1>3, BucketAlone
<1>4. ASSUME NEW a \in Buckets, NEW m \in Limits, NEW remaining \in 0..m, Set(a, m, remaining, a, stamp[r]),
             NEW b \in Buckets, NEW l \in Nat, limit'[b] = l
      PROVE  Backed(b, l)' /\ Covered(b, l)'
  <2> DEFINE parts == Second * AtMost(remaining, m)
  <2>1. m \in Nat /\ remaining \in Nat
    BY RateAssumption
  <2>2. parts \in Nat
    <3>1. parts = Charge(remaining, m)
      BY DEF Charge
    <3>2. Charge(remaining, m) \in 0..Full(m) /\ Full(m) \in Nat
      BY <2>1, ChargeBounds
    <3> QED
      BY <3>1, <3>2
  <2> HIDE DEF parts
  <2>3. /\ limit' = [limit EXCEPT ![a] = m] /\ level' = [level EXCEPT ![a] = parts]
        /\ at' = [at EXCEPT ![a] = now] /\ credit' = [credit EXCEPT ![a] = parts + (now - now) * m + Waiting(a, m)]
    BY <1>1, <1>4 DEF Set, parts
  <2>4. CASE b # a
    BY <1>3, <1>4, <2>3, <2>4 DEF PacedInv, Inv, TypeOK
  <2>5. CASE b = a
    <3>1. l = m /\ level'[b] = parts /\ at'[b] = now /\ credit'[b] = parts + Waiting(b, l)
      <4>1. Waiting(a, m) \in Nat
        BY <2>1, LaterBounds DEF Waiting
      <4>2. parts + (now - now) * m + Waiting(a, m) = parts + Waiting(a, m)
        <5>1. (now - now) * m = 0
          BY <1>1, <2>1
        <5> QED
          BY <2>2, <4>1, <5>1
      <4> QED
        BY <1>4, <2>3, <2>5, <4>2 DEF PacedInv, Inv, TypeOK
    <3>2. Waiting(b, l)' = Waiting(b, l) /\ Waiting(b, l) \in Nat
      BY <1>2, LaterBounds DEF Waiting
    <3>3. Level(b, l, now)' = parts
      <4>1. Level(b, l, now)' = parts + (now - now) * l
        BY <1>1, <3>1 DEF Level
      <4> QED
        BY <1>1, <2>2, <4>1
    <3>4. Backed(b, l)'
      BY <2>2, <3>1, <3>2, <3>3 DEF Backed
    <3>5. ASSUME NEW t \in Nat, t >= now
          PROVE  Level(b, l, t)' + Cardinality(Later(b, l, t)') >= 0
      <4>1. (t - now) * l >= 0 /\ (t - now) * l \in Int
        BY <1>1, <3>5
      <4>2. Level(b, l, t)' = parts + (t - now) * l
        BY <3>1 DEF Level
      <4>3. Cardinality(Later(b, l, t)') \in Nat
        <5>1. Later(b, l, t)' = Later(b, l, t)
          BY <1>2
        <5>2. Cardinality(Later(b, l, t)) \in Nat
          BY LaterBounds
        <5> QED BY <5>1, <5>2
      <4> QED
        BY <2>2, <4>1, <4>2, <4>3
    <3> QED
      BY <1>1, <3>4, <3>5 DEF Covered
  <2> QED
    BY <2>4, <2>5
<1>5. Fresh'
  BY <1>1 DEF Fresh, PacedInv
<1>6. \A b \in Buckets, l \in Nat : limit'[b] = l => Backed(b, l)' /\ Covered(b, l)'
  <2>1. CASE UNCHANGED <<limit, level, at, credit>>
    BY <1>3, <2>1
  <2>2. CASE \E b \in Buckets, l \in Limits : \E remaining \in 0..l : Set(b, l, remaining, b, stamp[r])
    BY <1>4, <2>2
  <2> QED
    BY <2>1, <2>2, ObserveIs
<1> QED
  BY <1>5, <1>6, ObserveInv DEF PacedInv

LEMMA StepPaced ==
    ASSUME ~SlowLock, PacedInv, [Next]_vars
    PROVE  PacedInv'
<1>1. CASE UNCHANGED vars
  <2>1. Inv'
    BY <1>1, StepInv DEF PacedInv
  <2>2. UNCHANGED <<now, limit, level, at, pc, stamp, due, credit>>
    BY <1>1 DEF vars, bucketVars, requestVars
  <2>3. ASSUME NEW b \in Buckets, NEW l \in Nat, limit'[b] = l
        PROVE  Backed(b, l)' /\ Covered(b, l)'
    <3>1. Reserved(b, l)' = Reserved(b, l)
      BY <2>2 DEF Reserved
    <3>2. \A t : Later(b, l, t)' = Later(b, l, t)
      BY <2>2, <3>1 DEF Later
    <3> QED
      BY <2>2, <2>3, <3>1, <3>2, BucketAlone
  <2>4. Fresh'
    BY <2>2 DEF Fresh, PacedInv
  <2> QED
    BY <2>1, <2>3, <2>4 DEF PacedInv
<1> QED
  BY <1>1, TickPaced, CallPaced, ReservePaced, TimerFiresPaced, CtxEndsPaced, AnsweredPaced, ObservePaced DEF Next

\* ratelimit.go:176-184: if nobody waits for a bucket's lock for longer than the tick in which the
\* clock was read, then however requests reserve, wait, fire late and are given up, a bucket
\* never sends more than was last reported and refilled since, but for what was waiting then.
\* Without that condition the run ratelimit_slowlock shows a bucket that does.
THEOREM NeverMoreThanReported == ~SlowLock => (Spec => []Paced)
<1> SUFFICES ASSUME ~SlowLock
             PROVE  Spec => []Paced
  OBVIOUS
<1>1. Init => PacedInv
  BY InitPaced
<1>2. PacedInv /\ [Next]_vars => PacedInv'
  BY StepPaced
<1>3. PacedInv => Paced
  BY PacedFollows
<1> QED
  BY <1>1, <1>2, <1>3, PTL DEF Spec
=============================================================================
