----------------------------- MODULE CycleTimer -----------------------------
(***************************************************************************)
(* The cycle timer of the E32C simulator (core/peripherals/timer.py) as    *)
(* functions on its state.  A device word is a pair of halves, so a word   *)
(* of the code is the special case Half = 2^16.                            *)
(***************************************************************************)
EXTENDS Integers

CONSTANTS
  Half,           \* number of values of half a device word (2^16)
  DefaultPeriod,  \* the threshold the device powers up with (27 000 000)
  OrHigh(_, _)    \* bitwise OR of two halves

ASSUME TimerAssumption ==
  /\ Half \in Nat \ {0}
  /\ DefaultPeriod \in 0 .. Half * Half - 1
  /\ \A a, b \in 0 .. Half - 1 : OrHigh(a, b) \in 0 .. Half - 1

HalfWord == 0 .. Half - 1
WordMod  == Half * Half
Word     == 0 .. WordMod - 1

High(w) == w \div Half
Low(w)  == w % Half
Join(h, l) == h * Half + l

TimerState ==
  [counter : Word, period : Word, irqEn : BOOLEAN, pending : BOOLEAN]

TimerInit ==
  [counter |-> 0, period |-> DefaultPeriod, irqEn |-> FALSE, pending |-> FALSE]

(***************************************************************************)
(* Register writes.  PERIOD_LO takes the whole 32-bit store value and ORs  *)
(* it into the high half the register already holds.                       *)
(***************************************************************************)
WritePeriodLo(t, v) ==
  [t EXCEPT !.period = Join(OrHigh(High(t.period), High(v)), Low(v))]

WritePeriodHi(t, v) ==
  [t EXCEPT !.period = Join(Low(v), Low(t.period))]

\* Bit 0 of CTRL enables the line; bit 2 acknowledges, which restarts the count.
WriteCtrl(t, en, ack) ==
  [t EXCEPT !.irqEn = en,
            !.pending = @ /\ ~ack,
            !.counter = IF ack THEN 0 ELSE @]

\* Altered ticks, against which the properties of the core are validated: a
\* counter that does not wrap, a strict threshold, a threshold met exactly.
TickUnbounded(t, delta) == [t EXCEPT !.counter = @ + delta]
TickStrict(t, delta) ==
  LET count == (t.counter + delta) % WordMod
  IN  [t EXCEPT !.counter = count,
                !.pending = @ \/ (t.period # 0 /\ count > t.period)]
TickExact(t, delta) ==
  LET count == (t.counter + delta) % WordMod
  IN  [t EXCEPT !.counter = count,
                !.pending = @ \/ (t.period # 0 /\ count = t.period)]

(***************************************************************************)
(* process(): the counter takes the cycles of the retired instruction and  *)
(* latches pending at the threshold; a zero period disarms both this and   *)
(* the request line.                                                       *)
(***************************************************************************)
Tick(t, delta) ==
  LET count == (t.counter + delta) % WordMod
  IN  [t EXCEPT !.counter = count,
                !.pending = @ \/ (t.period # 0 /\ count >= t.period)]

Requests(t) == t.period # 0 /\ t.pending /\ t.irqEn
=============================================================================
