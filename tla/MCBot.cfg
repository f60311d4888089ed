SPECIFICATION Spec
CONSTANTS
    Tick <- QuarterTick
    Ticks <- SomeTicks
    Offset = 2
    Books <- SomeBooks
    Prices <- SomePrices
    MaxRounds = 2
INVARIANTS TypeOK Accounted GridSafe
PROPERTIES NothingLeft
\* The bot ends.
CHECK_DEADLOCK FALSE
