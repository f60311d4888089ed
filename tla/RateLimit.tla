------------------------------ MODULE RateLimit ------------------------------
(***************************************************************************)
(* Client-side pacing (internal/transport/ratelimit.go): the three buckets  *)
(* that model the server's budgets, and the concurrent requests that        *)
(* reserve on them, wait, are sent, and adopt what the responses report.    *)
(*                                                                          *)
(* Time is counted in ticks, Second of them to a second.  An amount of      *)
(* tokens is counted in parts, Second of them to a token, so that a budget  *)
(* of limit tokens a second refills by limit parts a tick.                  *)
(***************************************************************************)
EXTENDS Integers, FiniteSets

CONSTANTS
    Requests,       \* the goroutines that send requests, one at a time each
    ClassOf,        \* ClassOf[r]: the class costOf gives the requests of r
    WeightOf,       \* WeightOf[r]: their weight in tokens
    Labels,         \* the labels a response may carry, or "none"
    Limits,         \* the limits the server may report
    RetryAfters,    \* the retry-after of a 429, in ticks
    Second,         \* ticks to a second
    SlowLock,       \* time may pass between reading the clock and locking the bucket
    LateTimers,     \* a timer may fire later than it is due
    MayCancel,      \* a waiting request's ctx may end
    MaxNow          \* bound of the clock

Buckets == {"request", "order", "login"}
Classes == Buckets \cup {"cancel"}

ASSUME RateAssumption ==
    /\ IsFiniteSet(Requests)
    /\ ClassOf \in [Requests -> Classes]
    /\ WeightOf \in [Requests -> Nat \ {0}]
    /\ Limits \subseteq Nat \ {0}
    /\ RetryAfters \subseteq Nat
    /\ Second \in Nat \ {0} /\ MaxNow \in Nat
    /\ {SlowLock, LateTimers, MayCancel} \subseteq BOOLEAN

VARIABLES
    now,
    limit, level, at, until,  \* the fields of each bucket
    pc, stamp, due,  \* where each request is, the clock it read, when its timer fires
    promised,        \* history: the until its reservation saw
    credit           \* history: parts reported and refilled since, less those sent

bucketVars  == <<limit, level, at, until>>
requestVars == <<pc, stamp, due, promised>>
vars == <<now, bucketVars, requestVars, credit>>

Init ==
    /\ now   = 0
    /\ limit = [b \in Buckets |-> 0]  \* not reported yet
    /\ level = [b \in Buckets |-> 0]
    /\ at    = [b \in Buckets |-> 0]
    /\ until = [b \in Buckets |-> 0]
    /\ pc    = [r \in Requests |-> "idle"]
    /\ stamp = [r \in Requests |-> 0]
    /\ due   = [r \in Requests |-> 0]
    /\ promised = [r \in Requests |-> 0]
    /\ credit = [b \in Buckets |-> 0]

-----------------------------------------------------------------------------
AtMost(x, y)  == IF x < y THEN x ELSE y
AtLeast(x, y) == IF x > y THEN x ELSE y

\* What one request of weight w is charged when the limit is l: one second of
\* tokens at most.
Charge(w, l) == Second * AtMost(w, l)
Full(l) == Second * l

\* limiter.labelled: the bucket a label names, if the SDK paces it
Labelled(label) ==
    IF label \in {"key", "owner", "ip"} THEN {"request"} ELSE {label} \cap {"order", "login"}

\* Mutant: an unlabelled report describes the class of the call.
DescribedByClass(c, label) ==
    IF label # "none" THEN Labelled(label) ELSE {c} \cap Buckets

\* observe: the bucket a response to a request of class c describes.  Without a
\* label only the response to a request-class call describes one.
Described(c, label) ==
    IF label # "none" THEN Labelled(label)
    ELSE IF c = "request" THEN {"request"} ELSE {}

\* The budgets a report may really be about (external): without a label, the
\* spec does not say which one the response to an order write describes.
Reported(c, label) ==
    IF label = "none" /\ c # "request" THEN Buckets ELSE Described(c, label)

\* The request leaves the process.
Send(r, b) ==
    /\ credit' = [credit EXCEPT ![b] =
          IF limit[b] = 0 THEN 0 ELSE @ - Charge(WeightOf[r], limit[b])]
    /\ pc' = [pc EXCEPT ![r] = "sent"]

-----------------------------------------------------------------------------
(* One request                                                             *)

\* do: a cancel is sent at once; any other request reads the clock.
Call(r) ==
    /\ pc[r] = "idle"
    /\ IF ClassOf[r] = "cancel"
       THEN pc' = [pc EXCEPT ![r] = "sent"] /\ UNCHANGED stamp
       ELSE pc' = [pc EXCEPT ![r] = "reserve"] /\ stamp' = [stamp EXCEPT ![r] = now]
    /\ UNCHANGED <<now, bucketVars, due, promised, credit>>

\* Mutant: the level grows past one second of tokens.
RefilledUncapped(b, t) == level[b] + AtLeast(t - at[b], 0) * limit[b]

\* reserve: the level once it is refilled up to t
Refilled(b, t) ==
    IF t > at[b] THEN AtMost(Full(limit[b]), level[b] + (t - at[b]) * limit[b]) ELSE level[b]

\* ticks until a level of x parts is back at zero
Deficit(x, l) == IF x < 0 THEN (l - 1 - x) \div l ELSE 0

DelayEither(b, t, deficit) ==  \* mutant: a deficit hides the retry-after
    IF deficit > 0 THEN deficit ELSE until[b] - t
\* how long to wait: until the 429's retry-after and the deficit are both over
Delay(b, t, deficit) == AtLeast(until[b] - t, deficit)

\* wait: reserve under the bucket's lock, then send or start a timer.
Reserve(r) ==
    LET b == ClassOf[r]
        t == stamp[r]
        left == Refilled(b, t) - Charge(WeightOf[r], limit[b])
        deficit == IF limit[b] = 0 THEN 0 ELSE Deficit(left, limit[b])
        d == Delay(b, t, deficit)
    IN /\ pc[r] = "reserve"
       /\ \/ limit[b] = 0 /\ UNCHANGED <<level, at>>
          \/ /\ limit[b] > 0
             /\ level' = [level EXCEPT ![b] = left]
             /\ at' = [at EXCEPT ![b] = t]
       /\ promised' = [promised EXCEPT ![r] = until[b]]
       /\ \/ d <= 0 /\ Send(r, b) /\ UNCHANGED due
          \/ /\ d > 0
             /\ pc' = [pc EXCEPT ![r] = "waiting"]
             /\ due' = [due EXCEPT ![r] = now + d]
             /\ UNCHANGED credit
       /\ stamp' = [stamp EXCEPT ![r] = 0]
       /\ UNCHANGED <<now, limit, until>>

TimerFires(r) ==
    /\ pc[r] = "waiting" /\ now >= due[r]
    /\ Send(r, ClassOf[r])
    /\ due' = [due EXCEPT ![r] = 0]
    /\ UNCHANGED <<now, bucketVars, stamp, promised>>

\* the level once a request of weight w gives its charge back
Refund(b, w) == AtMost(Full(limit[b]), level[b] + Charge(w, limit[b]))

\* wait: ctx ends first, and the tokens go back.
CtxEnds(r) ==
    LET b == ClassOf[r] IN
    /\ MayCancel /\ pc[r] = "waiting"
    /\ level' = [level EXCEPT ![b] = IF limit[b] = 0 THEN @ ELSE Refund(b, WeightOf[r])]
    /\ pc'  = [pc EXCEPT ![r] = "idle"]
    /\ due' = [due EXCEPT ![r] = 0]
    /\ promised' = [promised EXCEPT ![r] = 0]
    /\ UNCHANGED <<now, limit, at, until, stamp, credit>>

\* The parts that the requests waiting on b have reserved, at a limit of l, each
\* named by its request and its number; and how many they are
Reserved(b, l) ==
    {p \in Requests \X (1..Full(l)) :
        pc[p[1]] = "waiting" /\ ClassOf[p[1]] = b /\ p[2] <= Charge(WeightOf[p[1]], l)}
Waiting(b, l) == Cardinality(Reserved(b, l))

\* do: a response arrives, and the clock is read.
Answered(r) ==
    /\ pc[r] = "sent"
    /\ pc' = [pc EXCEPT ![r] = "observe"]
    /\ stamp' = [stamp EXCEPT ![r] = now]
    /\ UNCHANGED <<now, bucketVars, due, promised, credit>>

\* bucket.set: what the response that came at t reports replaces the local level.
\* The history starts again, at t, if the report is about this bucket.
Set(b, l, remaining, about, t) ==
    LET parts == Second * AtMost(remaining, l) IN
    /\ limit' = [limit EXCEPT ![b] = l]
    /\ level' = [level EXCEPT ![b] = parts]
    /\ at'    = [at EXCEPT ![b] = t]
    /\ IF about = b
       THEN credit' = [credit EXCEPT ![b] = parts + (now - t) * l + Waiting(b, l)]
       ELSE UNCHANGED credit

\* bucket.block: the latest of the retry-afters seen
Block(b, retryAfter, t) ==
    until' = [until EXCEPT ![b] = AtLeast(@, t + AtLeast(retryAfter, Second))]

\* observe, under the bucket's lock: the response, of any status, may report a budget or none.
Observe(r, label) ==
    /\ pc[r] = "observe"
    /\ pc' = [pc EXCEPT ![r] = "idle"]
    /\ \/ Described(ClassOf[r], label) = {} /\ UNCHANGED <<bucketVars, credit>>
       \/ \E b \in Described(ClassOf[r], label) :
             /\ \/ UNCHANGED <<limit, level, at, credit>>
                \/ \E l \in Limits, about \in Reported(ClassOf[r], label) :
                      \E remaining \in 0..l : Set(b, l, remaining, about, stamp[r])
             /\ \/ UNCHANGED until
                \/ \E retryAfter \in RetryAfters : Block(b, retryAfter, stamp[r])
    /\ promised' = [promised EXCEPT ![r] = 0]
    /\ stamp' = [stamp EXCEPT ![r] = 0]
    /\ UNCHANGED <<now, due>>

\* The clock: unless SlowLock, a goroutine that read it locks within the same tick;
\* unless LateTimers, a timer fires within the tick it is due in.
Tick ==
    /\ now < MaxNow
    /\ SlowLock \/ \A r \in Requests : pc[r] \notin {"reserve", "observe"}
    /\ LateTimers \/ \A r \in Requests : pc[r] = "waiting" => now < due[r]
    /\ now' = now + 1
    /\ credit' = [b \in Buckets |-> credit[b] + limit[b]]
    /\ UNCHANGED <<bucketVars, requestVars>>

Next ==
    \/ Tick
    \/ \E r \in Requests :
          \/ Call(r) \/ Reserve(r) \/ TimerFires(r) \/ CtxEnds(r) \/ Answered(r)
          \/ \E label \in Labels : Observe(r, label)

Spec == Init /\ [][Next]_vars

-----------------------------------------------------------------------------
(* Properties                                                              *)

\* A bucket holds at most one second of tokens, and its clock does not run ahead.
TypeOK ==
    /\ now \in 0..MaxNow
    /\ limit \in [Buckets -> Limits \cup {0}]
    /\ level \in [Buckets -> Int] /\ \A b \in Buckets : level[b] <= Full(limit[b])
    /\ at    \in [Buckets -> 0..now]
    /\ until \in [Buckets -> Nat]
    /\ pc    \in [Requests -> {"idle", "reserve", "waiting", "sent", "observe"}]
    /\ stamp \in [Requests -> 0..now]
    /\ due \in [Requests -> Nat] /\ promised \in [Requests -> Nat]
    /\ credit \in [Buckets -> Int]

\* ratelimit.go:176-184: however requests reserve, wait and are given up, a bucket
\* never sends more than the budget last reported and what has been refilled
\* since, but for the reservations that were waiting when it was reported.
Paced == \A b \in Buckets : credit[b] >= 0

\* ratelimit.go:185-190, 210-226: a request that reserves once a 429 has been
\* adopted is not sent before that 429's retry-after has passed.
BlockHonoured ==
    [][\A r \in Requests :
         pc[r] \in {"reserve", "waiting"} /\ pc'[r] = "sent" => now >= promised'[r]]_vars
=============================================================================
