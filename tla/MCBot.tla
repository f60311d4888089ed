--------------------------------- MODULE MCBot ---------------------------------
EXTENDS Bot

QuarterTick == Dec(25, 2)
SomeTicks == {Dec(5, 1), Dec(25, 2), Dec(10, 1), Dec(3, 0)}
\* A book whose bid leaves no positive quote, and one that leaves both.
SomeBooks == {[bid |-> Dec(50, 2), ask |-> Dec(75, 2)], [bid |-> Dec(5, 0), ask |-> Dec(60, 1)]}
SomePrices == {Dec(n, d) : n \in -60..60, d \in 0..1} \cup {Dec(n, 2) : n \in -130..130}
===============================================================================
