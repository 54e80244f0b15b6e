------------------------------- MODULE Moment -------------------------------
(***************************************************************************)
(* The game clock mmt_t of mmt.c: a total of milliseconds and the same     *)
(* moment in hours, minutes, seconds and milliseconds.  moment_inc adds an *)
(* increment to the total and carries it through the units, one turn of    *)
(* its loop per unit.                                                      *)
(***************************************************************************)
EXTENDS Integers, Sequences

CONSTANTS
    TimeIncs,   \* the increments of time blocks (two bytes)
    MaxTotal    \* bound of the model: the total that is reached at most

ASSUME IncsAssumption == 
    (\A inc \in TimeIncs : inc \in Nat /\ inc < 65536) /\ MaxTotal \in Nat

VARIABLES
    total_ms, ms, sec, min, hour,
    pc,         \* idle, or inside moment_inc
    idx,        \* index of the unit the carry goes to
    cnt,        \* the carry
    eras        \* history: how often the hours wrapped, the carry being dropped

vars == <<total_ms, ms, sec, min, hour, pc, idx, cnt, eras>>

\* moment_zero.
Init ==
    /\ total_ms = 0 /\ ms = 0 /\ sec = 0 /\ min = 0 /\ hour = 0
    /\ pc = "idle" /\ idx = 0 /\ cnt = 0 /\ eras = 0

moment_inc ==
    /\ pc = "idle"
    /\ \E time_inc \in TimeIncs :
        /\ total_ms + time_inc <= MaxTotal
        /\ total_ms' = total_ms + time_inc
        /\ cnt' = time_inc
    /\ idx' = 0 /\ pc' = "carry"
    /\ UNCHANGED <<ms, sec, min, hour, eras>>

\* A mistake to check against: a full unit is kept.
RadixTooBig == <<1001, 61, 61, 1000001>>

Radix == <<1000, 60, 60, 1000000>>

Value == << ms, sec, min, hour >>

SetUnit(value) ==
    /\ ms'   = IF idx = 0 THEN value ELSE ms
    /\ sec'  = IF idx = 1 THEN value ELSE sec
    /\ min'  = IF idx = 2 THEN value ELSE min
    /\ hour' = IF idx = 3 THEN value ELSE hour

Sum == cnt + Value[idx + 1]

\* The unit holds the sum: there is nothing to carry on.
Settle ==
    /\ pc = "carry" /\ Sum < Radix[idx + 1]
    /\ SetUnit(Sum)
    /\ pc' = "idle" /\ idx' = 0 /\ cnt' = 0
    /\ UNCHANGED <<total_ms, eras>>

\* A mistake to check against: the unit starts again from 0.
Remainder0 == 0

Remainder == Sum % Radix[idx + 1]

Carry ==
    /\ pc = "carry" /\ Sum >= Radix[idx + 1]
    /\ SetUnit(Remainder)
    /\ IF idx < 3
       THEN pc' = "carry" /\ idx' = idx + 1 /\ cnt' = Sum \div Radix[idx + 1]
            /\ eras' = eras
       ELSE pc' = "idle" /\ idx' = 0 /\ cnt' = 0
            /\ eras' = eras + (Sum \div Radix[idx + 1])
    /\ UNCHANGED total_ms

\* No further time block.
Stop == pc = "idle" /\ UNCHANGED vars

Next == moment_inc \/ Settle \/ Carry \/ Stop

Spec == Init /\ [][Next]_vars

-----------------------------------------------------------------------------
(***************************************************************************)
(* Properties.                                                             *)
(***************************************************************************)

\* Each unit is below the next one, also between two turns of the loop, and the
\* carry stays within what div() takes.
TypeOK ==
    /\ total_ms \in Nat /\ total_ms <= MaxTotal
    /\ ms \in 0..999 /\ sec \in 0..59 /\ min \in 0..59
    /\ hour \in Nat /\ hour < 1000000
    /\ pc \in { "idle", "carry" } /\ idx \in 0..3 /\ cnt \in Nat /\ cnt < 65536
    /\ eras \in Nat
    /\ pc = "idle" => idx = 0 /\ cnt = 0

\* What the units say, in milliseconds, and what the carry still adds to it: it
\* counts in the unit it goes to.
ClockOf(a, b, c, d, e) == a + 1000 * (b + 60 * (c + 60 * (d + 1000000 * e)))

Clock == ClockOf(ms, sec, min, hour, eras)

Pending ==
    CASE idx = 0 -> cnt
      [] idx = 1 -> 1000 * cnt
      [] idx = 2 -> 1000 * (60 * cnt)
      [] idx = 3 -> 1000 * (60 * (60 * cnt))

\* The units and the total name the same moment: what the units lack during
\* moment_inc is the carry, and between two calls they lack nothing, until
\* 1000000 hours have passed.
ClockAgrees == total_ms = Clock + Pending
=============================================================================
