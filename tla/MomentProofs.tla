---------------------------- MODULE MomentProofs ----------------------------
(***************************************************************************)
(* The game clock keeps its units below their radices and in agreement     *)
(* with the total, for every sequence of increments and every bound.       *)
(***************************************************************************)
EXTENDS Moment, TLAPS

\* The unit and the radix that a turn of the loop works on.
LEMMA UnitAt ==
    /\ idx = 0 => Value[idx + 1] = ms   /\ Radix[idx + 1] = 1000
    /\ idx = 1 => Value[idx + 1] = sec  /\ Radix[idx + 1] = 60
    /\ idx = 2 => Value[idx + 1] = min  /\ Radix[idx + 1] = 60
    /\ idx = 3 => Value[idx + 1] = hour /\ Radix[idx + 1] = 1000000
<1>1. idx = 0 => Value[idx + 1] = ms   /\ Radix[idx + 1] = 1000
  BY SMT DEF Value, Radix
<1>2. idx = 1 => Value[idx + 1] = sec  /\ Radix[idx + 1] = 60
  BY SMT DEF Value, Radix
<1>3. idx = 2 => Value[idx + 1] = min  /\ Radix[idx + 1] = 60
  BY SMT DEF Value, Radix
<1>4. idx = 3 => Value[idx + 1] = hour /\ Radix[idx + 1] = 1000000
  BY SMT DEF Value, Radix
<1> QED
  BY <1>1, <1>2, <1>3, <1>4, SMT

\* Division with remainder by the radices.
LEMMA Division ==
    ASSUME NEW n \in Nat
    PROVE  /\ n \div 1000 \in Nat /\ n % 1000 \in 0..999
           /\ n = 1000 * (n \div 1000) + (n % 1000)
           /\ n \div 60 \in Nat /\ n % 60 \in 0..59
           /\ n = 60 * (n \div 60) + (n % 60)
           /\ n \div 1000000 \in Nat /\ n % 1000000 \in Nat /\ n % 1000000 < 1000000
           /\ n = 1000000 * (n \div 1000000) + (n % 1000000)
<1>1. n \div 1000 \in Nat /\ n % 1000 \in 0..999 /\ n = 1000 * (n \div 1000) + (n % 1000)
  BY SMT
<1>2. n \div 60 \in Nat /\ n % 60 \in 0..59 /\ n = 60 * (n \div 60) + (n % 60)
  BY SMT
<1>3. /\ n \div 1000000 \in Nat /\ n % 1000000 \in Nat /\ n % 1000000 < 1000000
      /\ n = 1000000 * (n \div 1000000) + (n % 1000000)
  BY SMT
<1> QED
  BY <1>1, <1>2, <1>3, SMT

LEMMA TypeInit == Init => TypeOK
  BY IncsAssumption, SMT DEF Init, TypeOK

\* A turn that settles: the sum stays below the radix of its unit.
LEMMA SettleTyped == TypeOK /\ Settle => TypeOK'
<1> SUFFICES ASSUME TypeOK, Settle PROVE TypeOK'
  OBVIOUS
<1>1. idx \in 0..3 /\ Sum \in Nat
  BY UnitAt, SMT DEF Sum, TypeOK
<1>6. pc' = "idle" /\ idx' = 0 /\ cnt' = 0 /\ UNCHANGED <<total_ms, eras>>
  BY DEF Settle
<1>2. CASE idx = 0
  <2>1. Sum < 1000 /\ ms' = Sum /\ UNCHANGED <<sec, min, hour>>
    BY <1>1, <1>2, UnitAt, SMT DEF Settle, SetUnit
  <2> QED
    BY <1>1, <1>6, <2>1, SMT DEF TypeOK
<1>3. CASE idx = 1
  <2>1. Sum < 60 /\ sec' = Sum /\ UNCHANGED <<ms, min, hour>>
    BY <1>1, <1>3, UnitAt, SMT DEF Settle, SetUnit
  <2> QED
    BY <1>1, <1>6, <2>1, SMT DEF TypeOK
<1>4. CASE idx = 2
  <2>1. Sum < 60 /\ min' = Sum /\ UNCHANGED <<ms, sec, hour>>
    BY <1>1, <1>4, UnitAt, SMT DEF Settle, SetUnit
  <2> QED
    BY <1>1, <1>6, <2>1, SMT DEF TypeOK
<1>5. CASE idx = 3
  <2>1. Sum < 1000000 /\ hour' = Sum /\ UNCHANGED <<ms, sec, min>>
    BY <1>1, <1>5, UnitAt, SMT DEF Settle, SetUnit
  <2> QED
    BY <1>1, <1>6, <2>1, SMT DEF TypeOK
<1> QED
  BY <1>1, <1>2, <1>3, <1>4, <1>5, SMT

\* A turn that carries: the remainder is in range, and the carry gets smaller.
LEMMA CarryTyped == TypeOK /\ Carry => TypeOK'
<1> SUFFICES ASSUME TypeOK, Carry PROVE TypeOK'
  OBVIOUS
<1>1. idx \in 0..3 /\ Sum \in Nat
  BY UnitAt, SMT DEF Sum, TypeOK
<1>2. CASE idx = 0
  <2>1. Sum < 65536 + 1000
    BY <1>2, UnitAt, SMT DEF Sum, TypeOK
  <2>2. Sum \div 1000 \in Nat /\ Sum \div 1000 < 65536 /\ Sum % 1000 \in 0..999
    BY <1>1, <2>1, Division, SMT
  <2>3. ms' = Sum % 1000 /\ UNCHANGED <<sec, min, hour, total_ms>>
    BY <1>2, UnitAt, SMT DEF Carry, SetUnit, Remainder
  <2>4. pc' = "carry" /\ idx' = 1 /\ cnt' = Sum \div 1000 /\ eras' = eras
    BY <1>2, UnitAt, SMT DEF Carry
  <2> QED
    BY <2>2, <2>3, <2>4, SMT DEF TypeOK
<1>3. CASE idx = 1
  <2>1. Sum < 65536 + 60
    BY <1>3, UnitAt, SMT DEF Sum, TypeOK
  <2>2. Sum \div 60 \in Nat /\ Sum \div 60 < 65536 /\ Sum % 60 \in 0..59
    BY <1>1, <2>1, Division, SMT
  <2>3. sec' = Sum % 60 /\ UNCHANGED <<ms, min, hour, total_ms>>
    BY <1>3, UnitAt, SMT DEF Carry, SetUnit, Remainder
  <2>4. pc' = "carry" /\ idx' = 2 /\ cnt' = Sum \div 60 /\ eras' = eras
    BY <1>3, UnitAt, SMT DEF Carry
  <2> QED
    BY <2>2, <2>3, <2>4, SMT DEF TypeOK
<1>4. CASE idx = 2
  <2>1. Sum < 65536 + 60
    BY <1>4, UnitAt, SMT DEF Sum, TypeOK
  <2>2. Sum \div 60 \in Nat /\ Sum \div 60 < 65536 /\ Sum % 60 \in 0..59
    BY <1>1, <2>1, Division, SMT
  <2>3. min' = Sum % 60 /\ UNCHANGED <<ms, sec, hour, total_ms>>
    BY <1>4, UnitAt, SMT DEF Carry, SetUnit, Remainder
  <2>4. pc' = "carry" /\ idx' = 3 /\ cnt' = Sum \div 60 /\ eras' = eras
    BY <1>4, UnitAt, SMT DEF Carry
  <2> QED
    BY <2>2, <2>3, <2>4, SMT DEF TypeOK
<1>5. CASE idx = 3
  <2>1. Sum < 65536 + 1000000
    BY <1>5, UnitAt, SMT DEF Sum, TypeOK
  <2>2. /\ Sum \div 1000000 \in Nat /\ Sum \div 1000000 < 65536
        /\ Sum % 1000000 \in Nat /\ Sum % 1000000 < 1000000
    BY <1>1, <2>1, Division, SMT
  <2>3. hour' = Sum % 1000000 /\ UNCHANGED <<ms, sec, min, total_ms>>
    BY <1>5, UnitAt, SMT DEF Carry, SetUnit, Remainder
  <2>4. pc' = "idle" /\ idx' = 0 /\ cnt' = 0 /\ eras' = eras + (Sum \div 1000000)
    BY <1>5, UnitAt, SMT DEF Carry
  <2> QED
    BY <2>2, <2>3, <2>4, SMT DEF TypeOK
<1> QED
  BY <1>1, <1>2, <1>3, <1>4, <1>5, SMT

LEMMA TypeNext == TypeOK /\ [Next]_vars => TypeOK'
<1> SUFFICES ASSUME TypeOK, [Next]_vars PROVE TypeOK'
  OBVIOUS
<1>1. CASE moment_inc
  <2>1. PICK inc \in TimeIncs :
          total_ms + inc <= MaxTotal /\ total_ms' = total_ms + inc /\ cnt' = inc
    BY <1>1 DEF moment_inc
  <2>2. idx' = 0 /\ pc' = "carry" /\ UNCHANGED <<ms, sec, min, hour, eras>>
    BY <1>1 DEF moment_inc
  <2> QED
    BY <2>1, <2>2, IncsAssumption, SMT DEF TypeOK
<1>2. CASE Settle
  BY <1>2, SettleTyped
<1>3. CASE Carry
  BY <1>3, CarryTyped
<1>4. CASE Stop \/ UNCHANGED vars
  <2>1. UNCHANGED <<total_ms, ms, sec, min, hour, pc, idx, cnt, eras>>
    BY <1>4 DEF Stop, vars
  <2> QED
    BY <2>1 DEF TypeOK
<1> QED
  BY <1>1, <1>2, <1>3, <1>4 DEF Next

\* The units never reach their radices, and the division in moment_inc always
\* gets a number that an int holds.
THEOREM TypeCorrect == Spec => []TypeOK
  BY TypeInit, TypeNext, PTL DEF Spec

-----------------------------------------------------------------------------
\* What the carry is worth when it goes to each unit.
LEMMA PendingAt ==
    /\ idx = 0 => Pending = cnt
    /\ idx = 1 => Pending = 1000 * cnt
    /\ idx = 2 => Pending = 1000 * (60 * cnt)
    /\ idx = 3 => Pending = 1000 * (60 * (60 * cnt))
  BY SMT DEF Pending

LEMMA AgreeInit == Init => ClockAgrees
  BY PendingAt, SMT DEF Init, ClockAgrees, Clock, ClockOf

\* The unit takes the whole carry.
LEMMA SettleAgrees == TypeOK /\ ClockAgrees /\ Settle => ClockAgrees'
<1> SUFFICES ASSUME TypeOK, ClockAgrees, Settle PROVE ClockAgrees'
  OBVIOUS
<1>1. Pending' = 0
  BY SMT DEF Settle, Pending
<1>2. CASE idx = 0
  BY <1>1, <1>2, UnitAt, PendingAt, SMT
     DEF Settle, SetUnit, Sum, TypeOK, ClockAgrees, Clock, ClockOf
<1>3. CASE idx = 1
  BY <1>1, <1>3, UnitAt, PendingAt, SMT
     DEF Settle, SetUnit, Sum, TypeOK, ClockAgrees, Clock, ClockOf
<1>4. CASE idx = 2
  BY <1>1, <1>4, UnitAt, PendingAt, SMT
     DEF Settle, SetUnit, Sum, TypeOK, ClockAgrees, Clock, ClockOf
<1>5. CASE idx = 3
  BY <1>1, <1>5, UnitAt, PendingAt, SMT
     DEF Settle, SetUnit, Sum, TypeOK, ClockAgrees, Clock, ClockOf
<1> QED
  BY <1>2, <1>3, <1>4, <1>5, SMT DEF TypeOK

\* The unit keeps the remainder, and the quotient is worth the rest in the next
\* unit, or is dropped with the hours.
LEMMA CarryAgrees == TypeOK /\ ClockAgrees /\ Carry => ClockAgrees'
<1> SUFFICES ASSUME TypeOK, ClockAgrees, Carry PROVE ClockAgrees'
  OBVIOUS
<1>0. /\ ms \in Int /\ sec \in Int /\ min \in Int /\ hour \in Int /\ eras \in Int
      /\ cnt \in Int /\ total_ms \in Int
  BY SMT DEF TypeOK
<1>1. idx \in 0..3 /\ Sum \in Nat
  BY UnitAt, SMT DEF Sum, TypeOK
<1>2. CASE idx = 0
  <2> DEFINE m == Sum \div 1000
             u == Sum % 1000
  <2>1. m \in Int /\ u \in Int /\ cnt + ms = 1000 * m + u
    BY <1>1, <1>2, UnitAt, Division, SMT DEF Sum
  <2>2. /\ cnt' = m /\ ms' = u /\ idx' = 1
        /\ UNCHANGED <<total_ms, sec, min, hour, eras>>
    BY <1>2, UnitAt, SMT DEF Carry, SetUnit, Remainder
  <2> HIDE DEF m, u
  <2>3. Pending' = 1000 * m /\ Pending = cnt
    BY <1>2, <2>2, PendingAt, SMT DEF Pending
  <2>4. ClockOf(ms, sec, min, hour, eras) + cnt
          = ClockOf(u, sec, min, hour, eras) + 1000 * m
    BY <1>0, <2>1, SMT DEF ClockOf
  <2> QED
    BY <2>2, <2>3, <2>4, SMT DEF ClockAgrees, Clock
<1>3. CASE idx = 1
  <2> DEFINE m == Sum \div 60
             u == Sum % 60
  <2>1. m \in Int /\ u \in Int /\ cnt + sec = 60 * m + u
    BY <1>1, <1>3, UnitAt, Division, SMT DEF Sum
  <2>2. /\ cnt' = m /\ sec' = u /\ idx' = 2
        /\ UNCHANGED <<total_ms, ms, min, hour, eras>>
    BY <1>3, UnitAt, SMT DEF Carry, SetUnit, Remainder
  <2> HIDE DEF m, u
  <2>3. Pending' = 1000 * (60 * m) /\ Pending = 1000 * cnt
    BY <1>3, <2>2, PendingAt, SMT DEF Pending
  <2>4. ClockOf(ms, sec, min, hour, eras) + 1000 * cnt
          = ClockOf(ms, u, min, hour, eras) + 1000 * (60 * m)
    BY <1>0, <2>1, SMT DEF ClockOf
  <2> QED
    BY <2>2, <2>3, <2>4, SMT DEF ClockAgrees, Clock
<1>4. CASE idx = 2
  <2> DEFINE m == Sum \div 60
             u == Sum % 60
  <2>1. m \in Int /\ u \in Int /\ cnt + min = 60 * m + u
    BY <1>1, <1>4, UnitAt, Division, SMT DEF Sum
  <2>2. /\ cnt' = m /\ min' = u /\ idx' = 3
        /\ UNCHANGED <<total_ms, ms, sec, hour, eras>>
    BY <1>4, UnitAt, SMT DEF Carry, SetUnit, Remainder
  <2> HIDE DEF m, u
  <2>3. Pending' = 1000 * (60 * (60 * m)) /\ Pending = 1000 * (60 * cnt)
    BY <1>4, <2>2, PendingAt, SMT DEF Pending
  <2>4. ClockOf(ms, sec, min, hour, eras) + 1000 * (60 * cnt)
          = ClockOf(ms, sec, u, hour, eras) + 1000 * (60 * (60 * m))
    BY <1>0, <2>1, SMT DEF ClockOf
  <2> QED
    BY <2>2, <2>3, <2>4, SMT DEF ClockAgrees, Clock
<1>5. CASE idx = 3
  <2> DEFINE quot == Sum \div 1000000
  <2>1. /\ cnt + hour = 1000000 * quot + hour' /\ eras' = eras + quot
        /\ quot \in Nat /\ hour' \in Nat
    BY <1>1, <1>5, UnitAt, Division, SMT DEF Carry, SetUnit, Remainder, Sum, TypeOK
  <2>2. idx' = 0 /\ cnt' = 0 /\ UNCHANGED <<total_ms, ms, sec, min>>
    BY <1>5, SMT DEF Carry, SetUnit
  <2>3. Pending' = 0 /\ Pending = 1000 * (60 * (60 * cnt))
    BY <1>5, <2>2, PendingAt, SMT DEF Pending
  <2>4. ClockOf(ms, sec, min, hour, eras) + 1000 * (60 * (60 * cnt))
          = ClockOf(ms, sec, min, hour', eras + quot)
    BY <1>0, <2>1, SMT DEF ClockOf
  <2> QED
    BY <2>2, <2>3, <2>4, <2>1, SMT DEF ClockAgrees, Clock
<1> QED
  BY <1>1, <1>2, <1>3, <1>4, <1>5, SMT

LEMMA AgreeNext == TypeOK /\ ClockAgrees /\ [Next]_vars => ClockAgrees'
<1> SUFFICES ASSUME TypeOK, ClockAgrees, [Next]_vars PROVE ClockAgrees'
  OBVIOUS
<1>1. CASE moment_inc
  <2>1. PICK inc \in TimeIncs : total_ms' = total_ms + inc /\ cnt' = inc
    BY <1>1 DEF moment_inc
  <2>2. /\ idx = 0 /\ cnt = 0 /\ idx' = 0 /\ inc \in Nat
        /\ UNCHANGED <<ms, sec, min, hour, eras>>
    BY <1>1, IncsAssumption, SMT DEF moment_inc, TypeOK
  <2>3. Pending = 0 /\ Pending' = inc
    BY <2>1, <2>2, PendingAt, SMT DEF Pending
  <2>4. Clock' = Clock
    BY <2>2 DEF Clock
  <2>5. total_ms = Clock
    BY <2>3, SMT DEF ClockAgrees, Clock, ClockOf, TypeOK
  <2> QED
    BY <2>1, <2>3, <2>4, <2>5 DEF ClockAgrees
<1>2. CASE Settle
  BY <1>2, SettleAgrees
<1>3. CASE Carry
  BY <1>3, CarryAgrees
<1>4. CASE Stop \/ UNCHANGED vars
  <2>1. Clock' = Clock
    BY <1>4 DEF Stop, vars, Clock
  <2>2. idx' = idx /\ cnt' = cnt /\ total_ms' = total_ms
    BY <1>4 DEF Stop, vars
  <2>3. Pending' = Pending
    BY <2>2, SMT DEF Pending
  <2> QED
    BY <2>1, <2>2, <2>3 DEF ClockAgrees
<1> QED
  BY <1>1, <1>2, <1>3, <1>4 DEF Next

\* The units and the total name the same moment at every step of moment_inc, up
\* to the hours that went beyond 999999.
THEOREM ClockCorrect == Spec => []ClockAgrees
<1>1. Init => TypeOK /\ ClockAgrees
  BY TypeInit, AgreeInit
<1>2. TypeOK /\ ClockAgrees /\ [Next]_vars => TypeOK' /\ ClockAgrees'
  BY TypeNext, AgreeNext
<1> QED
  BY <1>1, <1>2, PTL DEF Spec
=============================================================================
