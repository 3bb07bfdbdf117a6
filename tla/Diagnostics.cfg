\* Two exchanges with two parallel dials, five ticks.
SPECIFICATION Spec
CONSTANTS
    Dials = {"tcp"}
    MaxTicks = 5
    MaxExchanges = 2
    MaxAttempts = 2
INVARIANTS OverlapsCountOnce ResponseWaitIsExact
CHECK_DEADLOCK FALSE
