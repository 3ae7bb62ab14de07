------------------------------- MODULE Reloj --------------------------------
(***************************************************************************)
(* The clocks of the firmware are uint32_t counters that wrap around, and  *)
(* the code compares them in two ways only: the unsigned difference (the   *)
(* age of a stamp) and the sign of the difference cast to int32_t (which   *)
(* of two stamps is the older one).  ClockMod stands for 2^32.             *)
(***************************************************************************)
EXTENDS Integers

CONSTANT ClockMod

ASSUME ClockModAssumption == ClockMod \in Nat \ {0, 1}

Clock == 0 .. ClockMod - 1

\* (uint32_t)(now - stamp)
Edad(now, stamp) == IF now >= stamp THEN now - stamp ELSE now - stamp + ClockMod

\* (int32_t)(a - b) < 0
Antes(a, b) == Edad(a, b) >= ClockMod \div 2

\* Mutant of Suma: the clock does not wrap around.
SumaSinVuelta(now, ms) == now + ms

\* now + ms, in the width of the clock; ms is in Clock too
Suma(now, ms) == IF now + ms < ClockMod THEN now + ms ELSE now + ms - ClockMod
=============================================================================
