------------------------------- MODULE Decimals -------------------------------
(***************************************************************************)
(* The SDK's decimals (internal/models/decimal.go), its rounding to a       *)
(* market's grid (rounding.go), and the quoting bot's price arithmetic      *)
(* (examples/bot/main.go).  A Decimal keeps the digits it was served with:  *)
(* [n |-> 150, d |-> 2] is "1.50".  big.Rat is a pair <<num, den>>.         *)
(***************************************************************************)
EXTENDS Integers, Sequences

Buy == "buy"
Sell == "sell"
None == [n |-> 0, d |-> -1]      \* a field that is absent: a nil *Decimal
Dec(n, d) == [n |-> n, d |-> d]
IsDecimal(x) == x.n \in Int /\ x.d \in Nat

Ten[k \in Nat] == IF k = 0 THEN 1 ELSE 10 * Ten[k - 1]     \* 10^k
Abs(x) == IF x < 0 THEN -x ELSE x
Sign(x) == IF x < 0 THEN -1 ELSE IF x > 0 THEN 1 ELSE 0
Rat(x) == <<x.n, Ten[x.d]>>
Plus(p, q) == <<p[1] * q[2] + q[1] * p[2], p[2] * q[2]>>
Minus(p, q) == Plus(p, <<-q[1], q[2]>>)
Times(p, k) == <<p[1] * k, p[2]>>
SameValue(p, q) == p[1] * q[2] = q[1] * p[2]
Leq(p, q) == p[1] * q[2] <= q[1] * p[2]

\* big.Rat.FloatString: k decimals, the last one rounded, a half away from zero.
FloatString(p, k) == Dec(Sign(p[1]) * ((2 * Abs(p[1]) * Ten[k] + p[2]) \div (2 * p[2])), k)

\* Trailing zeros of the fraction are cut, and a fraction that is left empty with its point.
Trim(x) ==
    LET k == CHOOSE j \in 0..x.d : /\ x.n % Ten[j] = 0
                                   /\ j = x.d \/ x.n % Ten[j + 1] # 0
    IN  Dec(x.n \div Ten[k], x.d - k)

\* Truncation toward zero, then a step away from zero if there is a remainder.
Steps(v, step, awayFromZero) ==
    LET q == Rat(v)[1] * step[2]
        by == Rat(v)[2] * step[1]
        n == Sign(q) * (Abs(q) \div by)
    IN  IF awayFromZero /\ Abs(q) % by # 0 THEN n + Sign(q) ELSE n

roundToIncrement(v, inc, awayFromZero) ==
    IF inc = None \/ inc.n = 0 THEN v
    ELSE Trim(FloatString(Times(Rat(inc), Steps(v, Rat(inc), awayFromZero)), inc.d))

RoundPriceNearest(tick, price, side) == roundToIncrement(price, tick, FALSE)
RoundPrice(tick, price, side) == roundToIncrement(price, tick, side = Sell)
RoundSize(lot, size) == roundToIncrement(size, lot, FALSE)

\* quoter.quote: the price offset ticks outside best, or None for a bid that would not be positive.
quote(tick, offset, side, best) ==
    LET off == Times(Rat(tick), offset)
        p == IF side = Buy THEN Minus(Rat(best), off) ELSE Plus(Rat(best), off)
    IN  IF p[1] <= 0 THEN None ELSE FloatString(p, tick.d)

-----------------------------------------------------------------------------
OnGrid(x, tick) == (x.n * Ten[tick.d]) % (Ten[x.d] * tick.n) = 0

\* What a price may become: on the grid, no further from it than a tick, and on the side "that never
\* rounds toward crossing the book" (rounding.go): a Buy no further from zero, a Sell no nearer.
Passive(x, tick, price, side) ==
    /\ OnGrid(x, tick)
    /\ LET gap == Minus(Rat(IF side = Sell THEN x ELSE price), Rat(IF side = Sell THEN price ELSE x))
           along == <<Sign(price.n) * gap[1], gap[2]>>
       IN  along[1] >= 0 /\ Leq(along, Rat(tick)) /\ ~SameValue(along, Rat(tick))
===============================================================================
