------------------------------ MODULE RetryDelay ------------------------------
(***************************************************************************)
(* The delay before the next poll (src/listener.go:284-310): backoffBase   *)
(* and equalJitter over the machine integers of Config, for the bounds     *)
(* BackoffInitial and BackoffMax.  Pure operators.                         *)
(***************************************************************************)
EXTENDS Config

CONSTANT MaxFailures    \* bound: consecutive failures looked at

ASSUME MaxFailuresAssumption == MaxFailures \in Nat

Minimum(a, b) == IF a < b THEN a ELSE b

\* Variant of Doubled: the cap is compared without leaving room to double.
DoubledUnguarded(d, max) == IF d >= max THEN max ELSE Wrap(d * 2)

(* One turn of the loop in backoffBase; reaching the early return, it      *)
(* stays at BackoffMax.                                                    *)
Doubled(d, max) == IF d >= Wrap(max - d) THEN max ELSE Wrap(d * 2)

BackoffBase(initial, max, n) ==
    LET turn[i \in 1..MaxFailures] ==
            IF i = 1 THEN initial ELSE Doubled(turn[i - 1], max)
    IN  Minimum(turn[n], max)

(* equalJitter: half + rand.Int64N(d - half + 1).                          *)
Jittered(d) ==
    IF d <= 1 THEN {d}
    ELSE LET half == d \div 2 IN {half + r : r \in 0..(d - half)}
=============================================================================
