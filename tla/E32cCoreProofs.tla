--------------------------- MODULE E32cCoreProofs ---------------------------
(***************************************************************************)
(* Theorems about E32cCore, for every word width, address space, program   *)
(* repertoire and set of core variants that CoreAssumption admits.         *)
(***************************************************************************)
EXTENDS E32cCore, TLAPS

-----------------------------------------------------------------------------
(* The timer. *)

\* A word splits into two half words.
LEMMA Halves ==
  ASSUME NEW w \in Word
  PROVE  High(w) \in HalfWord /\ Low(w) \in HalfWord
<1>. DEFINE q == w \div Half
<1>1. Half \in Nat /\ Half > 0 /\ w \in Nat /\ w < Half * Half
  BY TimerAssumption DEF Word, WordMod
<1>2. q \in Nat /\ q * Half <= w
  BY <1>1
<1>3. q < Half
  <2>1. SUFFICES ASSUME q >= Half PROVE FALSE
    BY <1>1, <1>2
  <2>2. q * Half >= Half * Half
    BY <2>1, <1>1, <1>2
  <2>3. QED
    BY <2>2, <1>1, <1>2
<1>4. w % Half \in 0 .. Half - 1
  BY <1>1
<1>. QED
  BY <1>1, <1>2, <1>3, <1>4 DEF High, Low, HalfWord

\* Two half words make a word.
LEMMA Joined ==
  ASSUME NEW h \in HalfWord, NEW l \in HalfWord
  PROVE  Join(h, l) \in Word
<1>1. Half \in Nat /\ h \in Nat /\ l \in Nat /\ h <= Half - 1 /\ l < Half
  BY TimerAssumption DEF HalfWord
<1>2. h * Half <= (Half - 1) * Half
  BY <1>1
<1>3. (Half - 1) * Half = Half * Half - Half
  BY <1>1
<1>4. h * Half \in Nat /\ Half * Half \in Nat
  BY <1>1
<1>. QED
  BY <1>1, <1>2, <1>3, <1>4 DEF Join, Word, WordMod

\* Zero is a word and addition modulo the word size stays in range.
LEMMA WordArithmetic ==
  /\ WordMod \in Nat \ {0}
  /\ 0 \in Word
  /\ \A n \in Nat : n % WordMod \in Word
<1>1. Half \in Nat /\ Half > 0
  BY TimerAssumption
<1>2. Half * Half \in Nat /\ Half * Half > 0
  BY <1>1
<1>. QED
  BY <1>2 DEF WordMod, Word

LEMMA TimerWritesTyped ==
  ASSUME NEW t \in TimerState
  PROVE  /\ \A v \in Word : /\ WritePeriodLo(t, v) \in TimerState
                            /\ WritePeriodHi(t, v) \in TimerState
         /\ \A en, ack \in BOOLEAN : WriteCtrl(t, en, ack) \in TimerState
<1>1. ASSUME NEW v \in Word
      PROVE  WritePeriodLo(t, v) \in TimerState
  <2>1. t.period \in Word
    BY DEF TimerState
  <2>2. OrHigh(High(t.period), High(v)) \in HalfWord
    BY <2>1, <1>1, Halves, TimerAssumption DEF HalfWord
  <2>3. Join(OrHigh(High(t.period), High(v)), Low(v)) \in Word
    BY <2>2, <1>1, Halves, Joined
  <2>. QED
    BY <2>3 DEF WritePeriodLo, TimerState
<1>2. ASSUME NEW v \in Word
      PROVE  WritePeriodHi(t, v) \in TimerState
  <2>1. Join(Low(v), Low(t.period)) \in Word
    BY <1>2, Halves, Joined DEF TimerState
  <2>. QED
    BY <2>1 DEF WritePeriodHi, TimerState
<1>3. ASSUME NEW en \in BOOLEAN, NEW ack \in BOOLEAN
      PROVE  WriteCtrl(t, en, ack) \in TimerState
  BY WordArithmetic DEF WriteCtrl, TimerState
<1>. QED
  BY <1>1, <1>2, <1>3

\* One tick keeps the timer well typed and leaves no reached threshold
\* unlatched, whatever the timer held before.
LEMMA TickLatches ==
  ASSUME NEW t \in TimerState, NEW d \in Nat
  PROVE  /\ Tick(t, d) \in TimerState
         /\ \/ Tick(t, d).period = 0
            \/ Tick(t, d).pending
            \/ Tick(t, d).counter < Tick(t, d).period
<1>. DEFINE count == (t.counter + d) % WordMod
            reached == t.period # 0 /\ count >= t.period
            latch == t.pending \/ reached
<1>1. t.counter \in Nat /\ t.period \in Word
  BY DEF TimerState, Word
<1>2. count \in Word
  BY <1>1, WordArithmetic
<1>3. count \in Int /\ t.period \in Int
  BY <1>1, <1>2 DEF Word
<1>4. reached \/ t.period = 0 \/ count < t.period
  BY <1>3
<1>. HIDE DEF count, reached
<1>5. latch \in BOOLEAN
  OBVIOUS
<1>6. Tick(t, d) = [t EXCEPT !.counter = count, !.pending = latch]
  BY DEF Tick, TimerState, count, reached
<1>. HIDE DEF latch
<1>7. /\ Tick(t, d) \in TimerState
      /\ Tick(t, d).counter = count
      /\ Tick(t, d).period = t.period
      /\ Tick(t, d).pending = latch
  BY <1>2, <1>5, <1>6 DEF TimerState
<1>. QED
  BY <1>4, <1>7 DEF latch
-----------------------------------------------------------------------------
(* The end of a completed step. *)

LEMMA CpuUpdates ==
  ASSUME NEW c \in CpuState, NEW a \in Addr, NEW b \in BOOLEAN
  PROVE  /\ [c EXCEPT !.pc = a] \in CpuState
         /\ [c EXCEPT !.ie = b] \in CpuState
         /\ [c EXCEPT !.halted = b] \in CpuState
         /\ [c EXCEPT !.inService = b, !.pc = a] \in CpuState
         /\ \A i \in Sprs : [c EXCEPT !.spr[i] = a] \in CpuState
  BY DEF CpuState

\* Delivery keeps the processor well typed and leaves nothing to deliver.
LEMMA DeliverServes ==
  ASSUME NEW c \in CpuState, NEW t \in TimerState
  PROVE  /\ Deliver(c, t) \in CpuState
         /\ ~( /\ Requests(t)
               /\ Deliver(c, t).ie
               /\ ~Deliver(c, t).inService
               /\ Deliver(c, t).spr[MASK] % 2 = 0 )
<1>1. SAVED \in Sprs /\ VECTOR \in Sprs /\ MASK \in Sprs
  BY DEF Sprs
<1>2. c.spr \in [Sprs -> Addr] /\ c.pc \in Addr /\ c.spr[VECTOR] \in Addr
  BY <1>1 DEF CpuState
<1>3. c.spr[MASK] \in Int
  BY <1>1, <1>2 DEF Addr
<1>4. c.spr[MASK] % 2 = 0 \/ c.spr[MASK] % 2 = 1
  BY <1>3
<1>. DEFINE open == Requests(t) /\ c.ie /\ ~c.inService /\ c.spr[MASK] % 2 # 1
<1>5. CASE open
  <2>1. Deliver(c, t) = [c EXCEPT !.inService = TRUE, !.spr[SAVED] = c.pc,
                                  !.pc = c.spr[VECTOR]]
    BY <1>5 DEF Deliver, RaiseIrq
  <2>2. [c.spr EXCEPT ![SAVED] = c.pc] \in [Sprs -> Addr]
    BY <1>1, <1>2
  <2>3. Deliver(c, t) =
          [pc |-> c.spr[VECTOR], ie |-> c.ie, halted |-> c.halted,
           inService |-> TRUE, spr |-> [c.spr EXCEPT ![SAVED] = c.pc],
           variant |-> c.variant]
    BY <2>1 DEF CpuState
  <2>. QED
    BY <2>2, <2>3, <1>2 DEF CpuState
<1>6. CASE ~open
  <2>1. Deliver(c, t) = c
    BY <1>6 DEF Deliver, RaiseIrq
  <2>. QED
    BY <2>1, <1>4, <1>6
<1>. QED
  BY <1>5, <1>6

LEMMA DeltaBounded ==
  ASSUME TypeOK, NEW cost \in 1 .. MaxCost
  PROVE  Delta(cost) \in 1 .. MaxCost
  BY DEF TypeOK, Delta, MaxCost

\* With watchpoints the peripherals never tick, so the timer stands still.
WatchedTimerStands == Watched => timer.counter = 0 /\ ~timer.pending

IInv ==
  TypeOK /\ Latched /\ NoDeliverableLeft /\ WatchedTimerStands

\* What every instruction relies on: a processor c and timer t it may leave.
Retirable(c, t) ==
  /\ c \in CpuState
  /\ t \in TimerState
  /\ Watched => t.counter = 0 /\ ~t.pending

LEMMA RetirePreserves ==
  ASSUME IInv, NEW c, NEW t, NEW cost \in 1 .. MaxCost, NEW name \in StepKinds,
         Retirable(c, t), Retire(c, t, cost, name)
  PROVE  IInv'
<1>. DEFINE ticked == IF Watched THEN t ELSE Tick(t, Delta(cost))
<1>1. c \in CpuState /\ t \in TimerState /\ TypeOK
  BY DEF IInv, Retirable
<1>2. Delta(cost) \in Nat
  BY <1>1, DeltaBounded DEF MaxCost
<1>3. timer' = ticked /\ cpu' = IF Watched THEN c ELSE Deliver(c, ticked)
  BY DEF Retire
<1>4. ticked \in TimerState
  BY <1>1, <1>2, TickLatches
<1>. HIDE DEF ticked
<1>5. TypeOK'
  <2>1. cpu' \in CpuState
    BY <1>1, <1>3, <1>4, DeliverServes
  <2>2. cycles' \in 0 .. MaxCost
    BY <1>1 DEF Retire, AtMost, TypeOK, MaxCost
  <2>3. lag' \in 0 .. MaxCost
    BY <1>1 DEF Retire, TypeOK, MaxCost
  <2>4. flow' \in Addr
    BY <1>1 DEF Retire, CpuState
  <2>5. /\ breaks' \subseteq BreakTargets /\ last' \in StepKinds
        /\ meddled' \in BOOLEAN
    BY <1>1 DEF Retire, TypeOK
  <2>. QED
    BY <1>3, <1>4, <2>1, <2>2, <2>3, <2>4, <2>5 DEF TypeOK
<1>6. CASE Watched
  <2>1. timer' = t /\ t.counter = 0 /\ t.pending = FALSE
    BY <1>3, <1>6, <1>1 DEF Retirable, TimerState, ticked
  <2>2. t.period \in Nat
    BY <1>1 DEF TimerState, Word
  <2>3. Latched'
    BY <2>1, <2>2 DEF Latched
  <2>4. NoDeliverableLeft'
    BY <2>1 DEF NoDeliverableLeft, Requests
  <2>5. WatchedTimerStands'
    BY <2>1 DEF WatchedTimerStands
  <2>. QED
    BY <2>3, <2>4, <2>5, <1>5 DEF IInv
<1>7. CASE ~Watched
  <2>1. timer' = Tick(t, Delta(cost)) /\ cpu' = Deliver(c, timer')
    BY <1>3, <1>7 DEF ticked
  <2>2. Latched'
    BY <2>1, <1>1, <1>2, TickLatches DEF Latched
  <2>3. NoDeliverableLeft'
    <3>1. timer' \in TimerState
      BY <1>3, <1>4
    <3>. QED
      BY <2>1, <3>1, <1>1, DeliverServes DEF NoDeliverableLeft, Open
  <2>4. WatchedTimerStands'
    BY <1>7 DEF WatchedTimerStands
  <2>. QED
    BY <2>2, <2>3, <2>4, <1>5 DEF IInv
<1>. QED
  BY <1>6, <1>7

\* A step that touches neither the timer nor what opens the processor.
LEMMA QuietPreserves ==
  ASSUME IInv, TypeOK', timer' = timer,
         cpu'.ie = cpu.ie, cpu'.inService = cpu.inService, cpu'.spr = cpu.spr,
         meddled' = meddled
  PROVE  IInv'
  BY DEF IInv, Latched, NoDeliverableLeft, Open, Requests,
         WatchedTimerStands
LEMMA InitEstablishes == Init => IInv
<1>. SUFFICES ASSUME Init PROVE IInv
  OBVIOUS
<1>1. PICK v \in Variants : cpu = FreshCpu(v)
  BY DEF Init
<1>2. 0 \in Addr /\ LoadAddr \in Addr
  BY CoreAssumption DEF Addr
<1>3. cpu \in CpuState /\ cpu.ie = FALSE
  BY <1>1, <1>2, CoreAssumption DEF FreshCpu, CpuState
<1>4. timer \in TimerState
  BY TimerAssumption, WordArithmetic DEF Init, TimerInit, TimerState, Word, WordMod
<1>5. TypeOK
  <2>1. last \in StepKinds /\ meddled \in BOOLEAN /\ breaks \subseteq BreakTargets
    BY DEF Init, StepKinds
  <2>2. cycles \in 0 .. MaxCost /\ lag \in 0 .. MaxCost /\ flow \in Addr
    BY <1>2 DEF Init, MaxCost
  <2>. QED
    BY <1>3, <1>4, <2>1, <2>2 DEF TypeOK
<1>6. timer.counter = 0 /\ timer.pending = FALSE /\ timer.period \in Nat
  BY <1>4 DEF Init, TimerInit, TimerState, Word
<1>7. Latched
  BY <1>6 DEF Latched
<1>8. NoDeliverableLeft /\ WatchedTimerStands
  BY <1>3, <1>6 DEF NoDeliverableLeft, Open, WatchedTimerStands
<1>. QED
  BY <1>5, <1>7, <1>8 DEF IInv

\* The processor as an instruction leaves it, and the address after it.
LEMMA AdvancedTyped ==
  ASSUME TypeOK
  PROVE  /\ NextPc(cpu.pc) \in Addr
         /\ Advanced \in CpuState
<1>1. cpu \in CpuState /\ cpu.pc \in Nat
  BY DEF TypeOK, CpuState, Addr
<1>2. InsnBytes \in Nat /\ PcMod \in Nat \ {0}
  BY CoreAssumption
<1>3. (cpu.pc + InsnBytes) % PcMod \in 0 .. PcMod - 1
  BY <1>1, <1>2
<1>4. NextPc(cpu.pc) \in Addr
  BY <1>3 DEF NextPc, Addr
<1>. QED
  BY <1>1, <1>4, CpuUpdates DEF Advanced

LEMMA FreshTyped ==
  ASSUME NEW v \in {"full", "tn9k", "lite"}
  PROVE  /\ FreshCpu(v) \in CpuState
         /\ FreshCpu(v).ie = FALSE
         /\ FreshCpu(v).pc = LoadAddr
         /\ FreshCpu(v).inService = FALSE
<1>1. 0 \in Addr /\ LoadAddr \in Addr
  BY CoreAssumption DEF Addr
<1>. QED
  BY <1>1 DEF FreshCpu, CpuState

LEMMA ResetPreserves ==
  ASSUME IInv, NEW v \in {"full", "tn9k", "lite"}, Reset(v),
         breaks' \subseteq BreakTargets
  PROVE  IInv'
<1>1. cpu' = FreshCpu(v) /\ timer' = timer /\ TypeOK
  BY DEF Reset, IInv
<1>2. TypeOK'
  BY <1>1, FreshTyped DEF Reset, TypeOK, MaxCost, StepKinds, CpuState
<1>3. Latched' /\ WatchedTimerStands'
  BY <1>1 DEF Reset, IInv, Latched, WatchedTimerStands
<1>4. NoDeliverableLeft'
  BY <1>1, FreshTyped DEF NoDeliverableLeft, Open
<1>. QED
  BY <1>2, <1>3, <1>4 DEF IInv

\* Every instruction hands Retire a processor and a timer it may leave.
LEMMA CompletePreserves == IInv /\ Complete => IInv'
<1>. SUFFICES ASSUME IInv, Complete PROVE IInv'
  OBVIOUS
<1>1. TypeOK /\ cpu \in CpuState /\ timer \in TimerState
  BY DEF IInv, TypeOK
<1>2. Advanced \in CpuState
  BY <1>1, AdvancedTyped
<1>3. \A c \in CpuState : Retirable(c, timer)
  BY <1>1 DEF IInv, WatchedTimerStands, Retirable
<1>4. 1 \in 1 .. MaxCost /\ 2 \in 1 .. MaxCost /\ 3 \in 1 .. MaxCost
  BY DEF MaxCost
<1>5. {"plain", "acked", "other"} \subseteq StepKinds
  BY DEF StepKinds
<1>6. CASE Alu
  BY <1>2, <1>3, <1>4, <1>5, <1>6, RetirePreserves DEF Alu
<1>7. CASE Mem
  BY <1>2, <1>3, <1>4, <1>5, <1>7, RetirePreserves DEF Mem
<1>8. CASE Mul
  BY <1>2, <1>3, <1>4, <1>5, <1>8, RetirePreserves DEF Mul
<1>9. CASE Iret
  <2>1. cpu.spr[SAVED] \in Addr
    BY <1>1 DEF CpuState, Sprs
  <2>2. [cpu EXCEPT !.inService = FALSE, !.pc = cpu.spr[SAVED]] \in CpuState
    BY <2>1, <1>1, CpuUpdates
  <2>. QED
    BY <2>2, <1>3, <1>4, <1>5, <1>9, RetirePreserves DEF Iret
<1>10. CASE Halt
  <2>1. [cpu EXCEPT !.halted = TRUE] \in CpuState
    BY <1>1 DEF CpuState
  <2>. QED
    BY <2>1, <1>3, <1>4, <1>5, <1>10, RetirePreserves DEF Halt
<1>11. ASSUME NEW a \in JumpTargets, Jump(a) PROVE IInv'
  <2>1. [cpu EXCEPT !.pc = a] \in CpuState
    BY <1>1, CpuUpdates, CoreAssumption
  <2>. QED
    BY <2>1, <1>3, <1>4, <1>5, <1>11, RetirePreserves DEF Jump
<1>12. ASSUME NEW b \in BOOLEAN, SetIntEnable(b) PROVE IInv'
  <2>1. [Advanced EXCEPT !.ie = b] \in CpuState
    BY <1>2 DEF CpuState
  <2>. QED
    BY <2>1, <1>3, <1>4, <1>5, <1>12, RetirePreserves DEF SetIntEnable
<1>13. ASSUME NEW w \in SprWrites, WriteSpr(w[1], w[2]) PROVE IInv'
  <2>1. w[1] \in Sprs \union ReadOnlySprs /\ w[2] \in Addr
    BY CoreAssumption
  <2>. DEFINE c == IF w[1] \in ReadOnlySprs THEN Advanced
                                           ELSE [Advanced EXCEPT !.spr[w[1]] = w[2]]
  <2>2. c \in CpuState
    BY <2>1, <1>2, CpuUpdates
  <2>3. Retire(c, timer, 1, "other")
    BY <1>13 DEF WriteSpr
  <2>. QED
    BY <2>2, <2>3, <1>3, <1>4, <1>5, RetirePreserves
<1>14. ASSUME NEW v \in PeriodWrites, StorePeriodLo(v) \/ StorePeriodHi(v)
       PROVE  IInv'
  <2>. DEFINE lo == WritePeriodLo(timer, v)
              hi == WritePeriodHi(timer, v)
  <2>1. lo \in TimerState /\ hi \in TimerState
    BY <1>1, CoreAssumption, TimerWritesTyped
  <2>2. /\ lo.counter = timer.counter /\ lo.pending = timer.pending
        /\ hi.counter = timer.counter /\ hi.pending = timer.pending
    BY <1>1 DEF WritePeriodLo, WritePeriodHi, TimerState
  <2>3. Retirable(Advanced, lo) /\ Retirable(Advanced, hi)
    BY <2>1, <2>2, <1>2 DEF IInv, WatchedTimerStands, Retirable
  <2>4. Retire(Advanced, lo, 2, "other") \/ Retire(Advanced, hi, 2, "other")
    BY <1>14 DEF StorePeriodLo, StorePeriodHi
  <2>. QED
    BY <2>3, <2>4, <1>4, <1>5, RetirePreserves
<1>15. ASSUME NEW en \in BOOLEAN, NEW ack \in BOOLEAN, StoreCtrl(en, ack)
       PROVE  IInv'
  <2>. DEFINE t == WriteCtrl(timer, en, ack)
  <2>1. t \in TimerState
    BY <1>1, TimerWritesTyped
  <2>2. /\ timer.counter = 0 => t.counter = 0
        /\ ~timer.pending => ~t.pending
    BY <1>1 DEF WriteCtrl, TimerState
  <2>3. Retirable(Advanced, t)
    BY <2>1, <2>2, <1>2 DEF IInv, WatchedTimerStands, Retirable
  <2>4. Retire(Advanced, t, 2, IF ack THEN "acked" ELSE "other")
    BY <1>15 DEF StoreCtrl
  <2>. QED
    BY <2>3, <2>4, <1>4, <1>5, RetirePreserves
<1>. QED
  BY <1>6, <1>7, <1>8, <1>9, <1>10, <1>11, <1>12, <1>13, <1>14, <1>15
  DEF Complete
\* Refused steps leave the timer and what opens the processor alone.
LEMMA RefusedPreserves ==
  IInv /\ (Fault \/ BreakpointHit \/ CpuHalted) => IInv'
<1>1. ASSUME IInv, Fault PROVE IInv'
  <2>1. TypeOK /\ cpu \in CpuState
    BY <1>1 DEF IInv, TypeOK
  <2>2. cpu' = cpu \/ \E a \in JumpTargets : cpu' = [cpu EXCEPT !.pc = a]
    BY <1>1 DEF Fault
  <2>3. /\ cpu' \in CpuState
        /\ cpu'.ie = cpu.ie /\ cpu'.inService = cpu.inService
        /\ cpu'.spr = cpu.spr
    BY <2>1, <2>2, CoreAssumption DEF CpuState
  <2>4. TypeOK'
    BY <1>1, <2>1, <2>3 DEF Fault, TypeOK, StepKinds, CpuState
  <2>. QED
    BY <1>1, <2>3, <2>4, QuietPreserves DEF Fault
<1>2. ASSUME IInv, BreakpointHit \/ CpuHalted PROVE IInv'
  <2>1. TypeOK'
    BY <1>2 DEF IInv, TypeOK, BreakpointHit, CpuHalted, StepKinds, CpuState
  <2>. QED
    BY <1>2, <2>1, QuietPreserves DEF BreakpointHit, CpuHalted
<1>. QED
  BY <1>1, <1>2

LEMMA DebuggerPreserves == IInv /\ Debugger => IInv'
<1>1. ASSUME IInv, NEW preserve \in BOOLEAN, ResetCpu(preserve) PROVE IInv'
  <2>1. cpu.variant \in {"full", "tn9k", "lite"} /\ breaks \subseteq BreakTargets
    BY <1>1 DEF IInv, TypeOK, CpuState
  <2>. QED
    BY <1>1, <2>1, ResetPreserves DEF ResetCpu
<1>2. ASSUME IInv, NEW v \in Variants, SetCoreVariant(v) PROVE IInv'
  <2>1. v \in {"full", "tn9k", "lite"} /\ breaks \subseteq BreakTargets
    BY <1>2, CoreAssumption DEF IInv, TypeOK
  <2>. QED
    BY <1>2, <2>1, ResetPreserves DEF SetCoreVariant
<1>3. ASSUME IInv, NEW a \in JumpTargets, SetPc(a) PROVE IInv'
  <2>1. cpu \in CpuState /\ cpu' = [cpu EXCEPT !.pc = a] /\ a \in Addr
    BY <1>3, CoreAssumption DEF IInv, TypeOK, SetPc
  <2>2. TypeOK'
    BY <1>3, <2>1 DEF IInv, TypeOK, SetPc, StepKinds, CpuState
  <2>3. cpu'.ie = cpu.ie /\ cpu'.inService = cpu.inService /\ cpu'.spr = cpu.spr
    BY <2>1 DEF CpuState
  <2>. QED
    BY <1>3, <2>2, <2>3, QuietPreserves DEF SetPc
<1>4. ASSUME IInv, NEW a \in BreakTargets, ToggleBreak(a) PROVE IInv'
  <2>1. TypeOK'
    BY <1>4 DEF IInv, TypeOK, ToggleBreak, StepKinds, CpuState
  <2>. QED
    BY <1>4, <2>1, QuietPreserves DEF ToggleBreak
<1>. QED
  BY <1>1, <1>2, <1>3, <1>4 DEF Debugger

\* A write of a GDB client that leaves the timer and the processor typed.
LEMMA MeddlePreserves ==
  ASSUME IInv, NEW c \in CpuState, NEW t \in TimerState,
         NEW name \in StepKinds, Meddle(c, t, name), meddled' = TRUE,
         Watched => t.counter = 0 /\ ~t.pending
  PROVE  IInv'
<1>1. TypeOK'
  BY DEF IInv, TypeOK, Meddle, CpuState
<1>2. WatchedTimerStands'
  BY DEF Meddle, WatchedTimerStands
<1>. QED
  BY <1>1, <1>2 DEF IInv, Latched, NoDeliverableLeft

\* What a client writes to the timer is typed, and moves the counter only to
\* acknowledge it.
LEMMA ClientTimer ==
  ASSUME TypeOK
  PROVE  /\ \A v \in PeriodWrites :
              \A t \in {WritePeriodLo(timer, v), WritePeriodHi(timer, v)} :
                t \in TimerState /\ t.counter = timer.counter
                                /\ t.pending = timer.pending
         /\ \A en, ack \in BOOLEAN :
              /\ WriteCtrl(timer, en, ack) \in TimerState
              /\ WriteCtrl(timer, en, ack).counter
                   = IF ack THEN 0 ELSE timer.counter
              /\ WriteCtrl(timer, en, ack).pending => timer.pending
<1>1. timer \in TimerState
  BY DEF TypeOK
<1>2. ASSUME NEW v \in PeriodWrites
      PROVE  \A t \in {WritePeriodLo(timer, v), WritePeriodHi(timer, v)} :
               t \in TimerState /\ t.counter = timer.counter
                               /\ t.pending = timer.pending
  <2>1. WritePeriodLo(timer, v) \in TimerState /\ WritePeriodHi(timer, v) \in TimerState
    BY <1>1, CoreAssumption, TimerWritesTyped
  <2>. QED
    BY <1>1, <2>1 DEF WritePeriodLo, WritePeriodHi, TimerState
<1>3. ASSUME NEW en \in BOOLEAN, NEW ack \in BOOLEAN
      PROVE  /\ WriteCtrl(timer, en, ack) \in TimerState
             /\ WriteCtrl(timer, en, ack).counter
                  = IF ack THEN 0 ELSE timer.counter
             /\ WriteCtrl(timer, en, ack).pending => timer.pending
  <2>1. WriteCtrl(timer, en, ack) \in TimerState
    BY <1>1, TimerWritesTyped
  <2>. QED
    BY <1>1, <2>1 DEF WriteCtrl, TimerState
<1>. QED
  BY <1>2, <1>3

LEMMA GdbClientPreserves == IInv /\ GdbClient => IInv'
<1>. SUFFICES ASSUME IInv, GdbClient PROVE IInv'
  OBVIOUS
<1>1. /\ TypeOK /\ cpu \in CpuState /\ timer \in TimerState
      /\ Watched => timer.counter = 0 /\ ~timer.pending
  BY DEF IInv, TypeOK, WatchedTimerStands
<1>2. {"acked", "other"} \subseteq StepKinds
  BY DEF StepKinds
<1>3. ASSUME NEW a \in JumpTargets, GdbWritePc(a) PROVE IInv'
  <2>1. cpu' = [cpu EXCEPT !.pc = a] /\ a \in Addr
    BY <1>3, CoreAssumption DEF GdbWritePc, Meddle
  <2>2. TypeOK'
    BY <1>1, <1>2, <1>3, <2>1 DEF TypeOK, GdbWritePc, Meddle, CpuState
  <2>3. cpu'.ie = cpu.ie /\ cpu'.inService = cpu.inService /\ cpu'.spr = cpu.spr
    BY <1>1, <2>1 DEF CpuState
  <2>. QED
    BY <1>3, <2>2, <2>3, QuietPreserves DEF GdbWritePc, Meddle
<1>4. ASSUME NEW b \in BOOLEAN, GdbWriteFlags(b) PROVE IInv'
  <2>1. [cpu EXCEPT !.ie = b] \in CpuState
    BY <1>1 DEF CpuState
  <2>. QED
    BY <1>1, <1>2, <1>4, <2>1, MeddlePreserves DEF GdbWriteFlags
<1>5. ASSUME NEW w \in SprWrites, GdbWriteSpr(w[1], w[2]) PROVE IInv'
  <2>1. w[1] \in Sprs /\ w[2] \in Addr
    BY <1>5, CoreAssumption DEF GdbWriteSpr, Sprs
  <2>2. [cpu EXCEPT !.spr[w[1]] = w[2]] \in CpuState
    BY <1>1, <2>1, CpuUpdates
  <2>. QED
    BY <1>1, <1>2, <1>5, <2>2, MeddlePreserves DEF GdbWriteSpr
<1>6. ASSUME NEW v \in PeriodWrites, GdbWritePeriod(v) PROVE IInv'
  BY <1>1, <1>2, <1>6, ClientTimer, MeddlePreserves DEF GdbWritePeriod
<1>7. ASSUME NEW en \in BOOLEAN, NEW ack \in BOOLEAN, GdbWriteCtrl(en, ack)
      PROVE  IInv'
  <2>. DEFINE t == WriteCtrl(timer, en, ack)
              name == IF ack THEN "acked" ELSE "other"
  <2>1. t \in TimerState /\ name \in StepKinds
    BY <1>1, <1>2, ClientTimer
  <2>2. Watched => t.counter = 0 /\ ~t.pending
    BY <1>1, ClientTimer
  <2>3. Meddle(cpu, t, name) /\ meddled' = TRUE
    BY <1>7 DEF GdbWriteCtrl
  <2>. HIDE DEF t, name
  <2>. QED
    BY <1>1, <2>1, <2>2, <2>3, MeddlePreserves
<1>. QED
  BY <1>3, <1>4, <1>5, <1>6, <1>7 DEF GdbClient

LEMMA StutterPreserves == IInv /\ UNCHANGED vars => IInv'
  BY DEF vars, IInv, TypeOK, Latched, NoDeliverableLeft, Open, Requests,
         WatchedTimerStands

\* The inductive invariant: the properties of every step boundary together
\* with the types and, for a watching Runner, the timer at rest.
THEOREM Inductive == Spec => []IInv
<1>1. Init => IInv
  BY InitEstablishes
<1>2. IInv /\ [Next]_vars => IInv'
  BY CompletePreserves, RefusedPreserves, DebuggerPreserves, GdbClientPreserves,
     StutterPreserves
  DEF Next, Step
<1>. QED
  BY <1>1, <1>2, PTL DEF Spec

\* Every variable keeps its type: in particular the program counter, the
\* threshold and the counter stay words and the cycle lag stays bounded.
THEOREM TypeCorrect == Spec => []TypeOK
<1>1. IInv => TypeOK
  BY DEF IInv
<1>. QED
  BY <1>1, Inductive, PTL

-----------------------------------------------------------------------------
(* The threshold is met. *)

\* A number below the modulus is its own remainder.
LEMMA SmallRest ==
  ASSUME NEW n \in Nat, NEW m \in Nat, n < m
  PROVE  n % m = n
OBVIOUS

\* A threshold ahead of the counter, with room for the tick below the top,
\* cannot be passed or wrapped over without the latch.
LEMMA TickMeets ==
  ASSUME NEW t \in TimerState, NEW d \in 0 .. MaxCost,
         t.period \in 1 .. WordMod - MaxCost, t.counter < t.period
  PROVE  \/ Tick(t, d).pending
         \/ Tick(t, d).counter \in t.counter .. t.period - 1
<1>. DEFINE sum == t.counter + d
<1>1. /\ t.counter \in Nat /\ t.period \in Nat /\ d \in Nat /\ d <= 3
      /\ WordMod \in Nat \ {0} /\ t.period <= WordMod - 3
  BY WordArithmetic DEF TimerState, Word, MaxCost
<1>2. sum \in Nat /\ sum >= t.counter /\ sum < WordMod
  BY <1>1
<1>. HIDE DEF sum
<1>3. sum % WordMod = sum
  BY <1>1, <1>2, SmallRest
<1>4. Tick(t, d) = [t EXCEPT !.counter = sum,
                             !.pending = @ \/ (t.period # 0 /\ sum >= t.period)]
  BY <1>3 DEF Tick, sum
<1>5. Tick(t, d).counter = sum
  BY <1>4 DEF TimerState
<1>6. CASE sum >= t.period
  <2>1. t.period # 0
    OBVIOUS
  <2>2. Tick(t, d).pending = (t.pending \/ TRUE)
    BY <1>4, <1>6, <2>1 DEF TimerState
  <2>. QED
    BY <2>2
<1>7. CASE sum < t.period
  BY <1>1, <1>2, <1>5, <1>7
<1>. QED
  BY <1>1, <1>2, <1>6, <1>7

\* A step that leaves the counter alone meets every threshold.
LEMMA StandingMeets ==
  ASSUME TypeOK, timer' \in TimerState, timer'.counter = timer.counter
  PROVE  Met
  BY DEF TypeOK, TimerState, Word, Met

\* A completed step that does not acknowledge the timer hands Retire a timer
\* with the counter it found.
LEMMA RetireMeets ==
  ASSUME TypeOK, NEW c, NEW t \in TimerState, NEW cost \in 1 .. MaxCost,
         NEW name, Retire(c, t, cost, name),
         name # "acked" => t.counter = timer.counter
  PROVE  Met
<1>. SUFFICES ASSUME timer'.period \in 1 .. WordMod - MaxCost,
                     timer.counter < timer'.period, last' # "acked"
              PROVE  \/ timer'.pending
                     \/ timer'.counter \in timer.counter .. timer'.period - 1
  BY DEF Met
<1>1. t.counter = timer.counter
  BY DEF Retire
<1>2. CASE Watched
  <2>1. timer' = t
    BY <1>2 DEF Retire
  <2>. QED
    BY <1>1, <2>1 DEF TypeOK, TimerState, Word
<1>3. CASE ~Watched
  <2>1. timer' = Tick(t, Delta(cost)) /\ Delta(cost) \in 0 .. MaxCost
    BY <1>3, DeltaBounded DEF Retire, MaxCost
  <2>2. Tick(t, Delta(cost)).period = t.period
    BY DEF Tick, TimerState
  <2>. QED
    BY <1>1, <2>1, <2>2, TickMeets
<1>. QED
  BY <1>2, <1>3

LEMMA CompleteMeets == TypeOK /\ Complete => Met
<1>. SUFFICES ASSUME TypeOK, Complete PROVE Met
  OBVIOUS
<1>1. timer \in TimerState /\ {1, 2, 3} \subseteq 1 .. MaxCost
  BY DEF TypeOK, MaxCost
<1>2. CASE \/ Alu \/ Mem \/ Mul \/ Iret \/ Halt
           \/ \E a \in JumpTargets : Jump(a)
           \/ \E b \in BOOLEAN : SetIntEnable(b)
           \/ \E w \in SprWrites : WriteSpr(w[1], w[2])
  <2>1. CASE Alu \/ \E a \in JumpTargets : Jump(a)
    BY <1>1, <2>1, RetireMeets DEF Alu, Jump
  <2>2. CASE Mem \/ Mul
    BY <1>1, <2>2, RetireMeets DEF Mem, Mul
  <2>3. CASE Iret \/ Halt
    BY <1>1, <2>3, RetireMeets DEF Iret, Halt
  <2>4. CASE \E b \in BOOLEAN : SetIntEnable(b)
    BY <1>1, <2>4, RetireMeets DEF SetIntEnable
  <2>5. CASE \E w \in SprWrites : WriteSpr(w[1], w[2])
    <3>1. PICK c : Retire(c, timer, 1, "other")
      BY <2>5 DEF WriteSpr
    <3>. QED
      BY <1>1, <3>1, RetireMeets
  <2>. QED
    BY <1>2, <2>1, <2>2, <2>3, <2>4, <2>5
<1>3. ASSUME NEW v \in PeriodWrites, StorePeriodLo(v) \/ StorePeriodHi(v)
      PROVE  Met
  <2>1. PICK t \in {WritePeriodLo(timer, v), WritePeriodHi(timer, v)} :
          Retire(Advanced, t, 2, "other")
    BY <1>3 DEF StorePeriodLo, StorePeriodHi
  <2>2. t \in TimerState /\ t.counter = timer.counter
    BY ClientTimer
  <2>. QED
    BY <1>1, <2>1, <2>2, RetireMeets
<1>4. ASSUME NEW en \in BOOLEAN, NEW ack \in BOOLEAN, StoreCtrl(en, ack)
      PROVE  Met
  <2>. DEFINE t == WriteCtrl(timer, en, ack)
              name == IF ack THEN "acked" ELSE "other"
  <2>1. t \in TimerState /\ (name # "acked" => t.counter = timer.counter)
    BY ClientTimer
  <2>2. Retire(Advanced, t, 2, name)
    BY <1>4 DEF StoreCtrl
  <2>. HIDE DEF t, name
  <2>. QED
    BY <1>1, <2>1, <2>2, RetireMeets
<1>. QED
  BY <1>2, <1>3, <1>4 DEF Complete

LEMMA OthersMeet ==
  TypeOK /\ (Fault \/ BreakpointHit \/ CpuHalted \/ Debugger \/ GdbClient) => Met
<1>. SUFFICES ASSUME TypeOK,
                     Fault \/ BreakpointHit \/ CpuHalted \/ Debugger \/ GdbClient
              PROVE  Met
  OBVIOUS
<1>1. timer \in TimerState
  BY DEF TypeOK
<1>2. CASE Fault \/ BreakpointHit \/ CpuHalted \/ Debugger
  <2>1. timer' = timer
    BY <1>2 DEF Fault, BreakpointHit, CpuHalted, Debugger, ResetCpu,
                SetCoreVariant, Reset, SetPc, ToggleBreak
  <2>. QED
    BY <1>1, <2>1, StandingMeets
<1>3. ASSUME NEW v \in PeriodWrites, GdbWritePeriod(v) PROVE Met
  <2>1. timer' \in {WritePeriodLo(timer, v), WritePeriodHi(timer, v)}
    BY <1>3 DEF GdbWritePeriod, Meddle
  <2>. QED
    BY <2>1, ClientTimer, StandingMeets
<1>4. ASSUME NEW en \in BOOLEAN, NEW ack \in BOOLEAN, GdbWriteCtrl(en, ack)
      PROVE  Met
  <2>1. timer' = WriteCtrl(timer, en, ack)
    BY <1>4 DEF GdbWriteCtrl, Meddle
  <2>2. CASE ack
    <3>1. last' = "acked"
      BY <1>4, <2>2 DEF GdbWriteCtrl, Meddle
    <3>. QED
      BY <3>1 DEF Met
  <2>3. CASE ~ack
    BY <2>1, <2>3, ClientTimer, StandingMeets
  <2>. QED
    BY <2>2, <2>3
<1>5. ASSUME \/ \E a \in JumpTargets : GdbWritePc(a)
             \/ \E b \in BOOLEAN : GdbWriteFlags(b)
             \/ \E w \in SprWrites : GdbWriteSpr(w[1], w[2])
      PROVE  Met
  <2>1. timer' = timer
    BY <1>5 DEF GdbWritePc, GdbWriteFlags, GdbWriteSpr, Meddle
  <2>. QED
    BY <1>1, <2>1, StandingMeets
<1>. QED
  BY <1>2, <1>3, <1>4, <1>5 DEF GdbClient

\* No threshold is outrun: a counter at or past it has latched it at every step
\* boundary that no GDB client has meddled with, and a threshold ahead that
\* leaves the longest instruction room below the top is never passed, wrapped
\* over or lost, whatever the program and the debugger do.
THEOREM ExpiryLatched == Spec => NoMissedExpiry
<1>1. IInv => TypeOK
  BY DEF IInv
<1>2. IInv' => Latched'
  BY DEF IInv
<1>3. TypeOK /\ [Next]_vars => [Met]_vars
  BY CompleteMeets, OthersMeet DEF Next, Step
<1>4. IInv /\ IInv' /\ [Next]_vars => [Latched' /\ Met]_vars
  BY <1>1, <1>2, <1>3
<1>. QED
  BY <1>4, Inductive, PTL DEF Spec, NoMissedExpiry

\* At no step boundary does a deliverable timer interrupt wait, save one that a
\* GDB client has just made deliverable: it waits for the next completed step.
THEOREM DeliveryIsPrompt == Spec => []NoDeliverableLeft
<1>1. IInv => NoDeliverableLeft
  BY DEF IInv
<1>. QED
  BY <1>1, Inductive, PTL
-----------------------------------------------------------------------------
(* E32cCore implements InterruptContexts. *)

\* How a completed step ends: as the instruction left the processor, or with
\* the interrupt taken from there.
Outcome(c) ==
  /\ flow' = c.pc
  /\ \/ cpu' = c
     \/ /\ ~c.inService
        /\ cpu'.inService = TRUE
        /\ cpu'.spr[SAVED] = c.pc
        /\ cpu'.pc \in Addr

LEMMA RetireOutcome ==
  ASSUME NEW c \in CpuState, NEW t, NEW cost, NEW name, Retire(c, t, cost, name)
  PROVE  Outcome(c)
<1>. DEFINE ticked == IF Watched THEN t ELSE Tick(t, Delta(cost))
            entered == [c EXCEPT !.inService = TRUE, !.spr[SAVED] = c.pc,
                                 !.pc = c.spr[VECTOR]]
<1>1. flow' = c.pc /\ (cpu' = c \/ cpu' = Deliver(c, ticked))
  BY DEF Retire
<1>2. Deliver(c, ticked) = c \/ (~c.inService /\ Deliver(c, ticked) = entered)
  BY DEF Deliver, RaiseIrq
<1>3. c.spr \in [Sprs -> Addr] /\ SAVED \in Sprs /\ VECTOR \in Sprs
  BY DEF CpuState, Sprs
<1>4. entered.inService = TRUE /\ entered.pc \in Addr /\ entered.spr[SAVED] = c.pc
  BY <1>3 DEF CpuState
<1>. HIDE DEF ticked, entered
<1>. QED
  BY <1>1, <1>2, <1>4 DEF Outcome

\* A step that leaves the service state and the return address alone.
LEMMA QuietRefines ==
  ASSUME TypeOK, NEW c \in CpuState, Outcome(c),
         c.inService = cpu.inService, c.spr[SAVED] = cpu.spr[SAVED]
  PROVE  Contexts!Next
<1>1. c.pc \in Addr
  BY DEF CpuState
<1>2. CASE cpu.inService
  <2>1. cpu' = c /\ flow' = c.pc
    BY <1>2 DEF Outcome
  <2>2. Contexts!RunHandler
    BY <1>1, <1>2, <2>1 DEF Contexts!RunHandler
  <2>. QED
    BY <2>2 DEF Contexts!Next
<1>3. CASE ~cpu.inService
  <2>1. CASE cpu' = c
    <3>1. Contexts!RunMain
      BY <1>1, <1>3, <2>1 DEF Outcome, Contexts!RunMain, CpuState, TypeOK
    <3>. QED
      BY <3>1 DEF Contexts!Next
  <2>2. CASE /\ cpu'.inService = TRUE
             /\ cpu'.spr[SAVED] = c.pc /\ cpu'.pc \in Addr
    <3>1. Contexts!Preempt
      BY <1>1, <1>3, <2>2 DEF Outcome, Contexts!Preempt
    <3>. QED
      BY <3>1 DEF Contexts!Next
  <2>. QED
    BY <2>1, <2>2 DEF Outcome
<1>. QED
  BY <1>2, <1>3
LEMMA IretRefines == TypeOK /\ Iret => Contexts!Next
<1>. SUFFICES ASSUME TypeOK, Iret PROVE Contexts!Next
  OBVIOUS
<1>. DEFINE c == [cpu EXCEPT !.inService = FALSE, !.pc = cpu.spr[SAVED]]
<1>1. cpu \in CpuState /\ cpu.spr[SAVED] \in Addr
  BY DEF TypeOK, CpuState, Sprs
<1>2. c \in CpuState
  BY <1>1, CpuUpdates
<1>3. Outcome(c)
  BY <1>2, RetireOutcome DEF Iret
<1>4. c.inService = FALSE /\ c.pc = cpu.spr[SAVED] /\ c.spr = cpu.spr
  BY <1>1 DEF CpuState
<1>. HIDE DEF c
<1>5. CASE ~cpu.inService
  <2>1. c.inService = cpu.inService
    BY <1>1, <1>4, <1>5 DEF CpuState
  <2>. QED
    BY <2>1, <1>2, <1>3, <1>4, QuietRefines
<1>6. CASE cpu.inService
  <2>1. CASE cpu' = c
    <3>1. Contexts!Return
      BY <1>3, <1>4, <1>6, <2>1 DEF Outcome, Contexts!Return
    <3>. QED
      BY <3>1 DEF Contexts!Next
  <2>2. CASE /\ cpu'.inService = TRUE
             /\ cpu'.spr[SAVED] = c.pc /\ cpu'.pc \in Addr
    <3>1. cpu.inService = TRUE
      BY <1>1, <1>6 DEF CpuState
    <3>2. Contexts!Reenter
      BY <1>3, <1>4, <3>1, <2>2 DEF Outcome, Contexts!Reenter
    <3>. QED
      BY <3>2 DEF Contexts!Next
  <2>. QED
    BY <1>3, <2>1, <2>2 DEF Outcome
<1>. QED
  BY <1>5, <1>6

LEMMA WriteSprRefines ==
  ASSUME TypeOK, NEW w \in SprWrites, WriteSpr(w[1], w[2])
  PROVE  Contexts!Next
<1>. DEFINE c == IF w[1] \in ReadOnlySprs THEN Advanced
                                         ELSE [Advanced EXCEPT !.spr[w[1]] = w[2]]
<1>1. cpu \in CpuState /\ cpu.pc \in Addr /\ NextPc(cpu.pc) \in Addr
  BY AdvancedTyped DEF TypeOK, CpuState
<1>2. w[1] \in Sprs \union ReadOnlySprs /\ w[2] \in Addr
  BY CoreAssumption
<1>3. c \in CpuState
  BY <1>2, AdvancedTyped, CpuUpdates
<1>4. Outcome(c)
  BY <1>3, RetireOutcome DEF WriteSpr
<1>5. c.inService = cpu.inService /\ c.pc = NextPc(cpu.pc)
  BY <1>1 DEF Advanced, CpuState
<1>6. c.spr[SAVED] \in Addr
  BY <1>3 DEF CpuState, Sprs
<1>. HIDE DEF c
<1>7. CASE cpu.inService
  <2>1. cpu' = c /\ flow' = c.pc
    BY <1>4, <1>5, <1>7 DEF Outcome
  <2>2. Contexts!Redirect
    BY <1>1, <1>5, <1>6, <1>7, <2>1 DEF Contexts!Redirect
  <2>. QED
    BY <2>2 DEF Contexts!Next
<1>8. CASE ~cpu.inService
  <2>1. CASE cpu' = c
    <3>1. Contexts!RunMain
      BY <1>1, <1>4, <1>5, <1>8, <2>1 DEF Outcome, Contexts!RunMain
    <3>. QED
      BY <3>1 DEF Contexts!Next
  <2>2. CASE /\ cpu'.inService = TRUE
             /\ cpu'.spr[SAVED] = c.pc /\ cpu'.pc \in Addr
    <3>1. Contexts!Preempt
      BY <1>1, <1>4, <1>5, <1>8, <2>2 DEF Outcome, Contexts!Preempt
    <3>. QED
      BY <3>1 DEF Contexts!Next
  <2>. QED
    BY <1>4, <2>1, <2>2 DEF Outcome
<1>. QED
  BY <1>7, <1>8
LEMMA CompleteRefines == TypeOK /\ Complete => Contexts!Next
<1>. SUFFICES ASSUME TypeOK, Complete PROVE Contexts!Next
  OBVIOUS
<1>1. cpu \in CpuState
  BY DEF TypeOK
<1>2. /\ Advanced \in CpuState
      /\ Advanced.inService = cpu.inService /\ Advanced.spr = cpu.spr
  BY <1>1, AdvancedTyped DEF Advanced, CpuState
<1>3. CASE Alu \/ Mem \/ Mul
  BY <1>2, <1>3, RetireOutcome, QuietRefines DEF Alu, Mem, Mul
<1>4. CASE Iret
  BY <1>4, IretRefines
<1>5. CASE Halt
  <2>. DEFINE c == [cpu EXCEPT !.halted = TRUE]
  <2>1. c \in CpuState /\ c.inService = cpu.inService /\ c.spr = cpu.spr
    BY <1>1 DEF CpuState
  <2>2. Outcome(c)
    BY <1>5, <2>1, RetireOutcome DEF Halt
  <2>. QED
    BY <2>1, <2>2, QuietRefines
<1>6. ASSUME NEW a \in JumpTargets, Jump(a) PROVE Contexts!Next
  <2>. DEFINE c == [cpu EXCEPT !.pc = a]
  <2>1. c \in CpuState /\ c.inService = cpu.inService /\ c.spr = cpu.spr
    BY <1>1, CoreAssumption DEF CpuState
  <2>2. Outcome(c)
    BY <1>6, <2>1, RetireOutcome DEF Jump
  <2>. QED
    BY <2>1, <2>2, QuietRefines
<1>7. ASSUME NEW b \in BOOLEAN, SetIntEnable(b) PROVE Contexts!Next
  <2>. DEFINE c == [Advanced EXCEPT !.ie = b]
  <2>1. c \in CpuState /\ c.inService = cpu.inService /\ c.spr = cpu.spr
    BY <1>2 DEF CpuState
  <2>2. Outcome(c)
    BY <1>7, <2>1, RetireOutcome DEF SetIntEnable
  <2>. QED
    BY <2>1, <2>2, QuietRefines
<1>8. ASSUME NEW w \in SprWrites, WriteSpr(w[1], w[2]) PROVE Contexts!Next
  BY <1>8, WriteSprRefines
<1>9. CASE \/ \E v \in PeriodWrites : StorePeriodLo(v) \/ StorePeriodHi(v)
           \/ \E en, ack \in BOOLEAN : StoreCtrl(en, ack)
  <2>1. PICK t, name : Retire(Advanced, t, 2, name)
    BY <1>9 DEF StorePeriodLo, StorePeriodHi, StoreCtrl
  <2>2. Outcome(Advanced)
    BY <1>2, <2>1, RetireOutcome
  <2>. QED
    BY <1>2, <2>2, QuietRefines
<1>. QED
  BY <1>3, <1>4, <1>5, <1>6, <1>7, <1>8, <1>9 DEF Complete

\* Refused steps and the debugger move the program counter of the context that
\* runs, reset the processor, or change nothing.
LEMMA OthersRefine ==
  ASSUME TypeOK, Fault \/ BreakpointHit \/ CpuHalted \/ Debugger
  PROVE  Contexts!Next
<1>1. cpu \in CpuState /\ cpu.pc \in Addr
  BY DEF TypeOK, CpuState
<1>2. \/ Reset(cpu.variant) \/ \E v \in Variants : Reset(v)
      \/ /\ flow' = cpu'.pc
         /\ cpu' = cpu \/ \E a \in JumpTargets : cpu' = [cpu EXCEPT !.pc = a]
  BY DEF Fault, BreakpointHit, CpuHalted, Debugger, ResetCpu, SetCoreVariant,
         SetPc, ToggleBreak
<1>3. ASSUME NEW v \in {"full", "tn9k", "lite"}, Reset(v) PROVE Contexts!Restart
  BY <1>3, FreshTyped DEF Reset, Contexts!Restart
<1>4. ASSUME flow' = cpu'.pc,
             cpu' = cpu \/ \E a \in JumpTargets : cpu' = [cpu EXCEPT !.pc = a]
      PROVE  Contexts!RunMain \/ Contexts!RunHandler
  <2>1. /\ cpu'.pc \in Addr
        /\ cpu'.inService = cpu.inService /\ cpu'.spr = cpu.spr
    BY <1>1, <1>4, CoreAssumption DEF CpuState
  <2>2. CASE cpu.inService
    BY <1>4, <2>1, <2>2 DEF Contexts!RunHandler
  <2>3. CASE ~cpu.inService
    BY <1>4, <2>1, <2>3 DEF Contexts!RunMain
  <2>. QED
    BY <2>2, <2>3
<1>5. cpu.variant \in {"full", "tn9k", "lite"}
  BY <1>1 DEF CpuState
<1>6. Variants \subseteq {"full", "tn9k", "lite"}
  BY CoreAssumption
<1>. QED
  BY <1>2, <1>3, <1>4, <1>5, <1>6 DEF Contexts!Next

\* A GDB client moves the context that runs, rewrites the address the handler
\* returns to, or changes nothing the contexts see.
LEMMA GdbClientRefines == TypeOK /\ GdbClient => Contexts!Next
<1>. SUFFICES ASSUME TypeOK, GdbClient PROVE Contexts!Next
  OBVIOUS
<1>1. cpu \in CpuState /\ cpu.pc \in Addr
  BY DEF TypeOK, CpuState
<1>2. /\ flow' = cpu'.pc
      /\ \/ cpu' = cpu
         \/ \E a \in JumpTargets : cpu' = [cpu EXCEPT !.pc = a]
         \/ \E b \in BOOLEAN : cpu' = [cpu EXCEPT !.ie = b]
         \/ \E w \in SprWrites : /\ w[1] \in Sprs
                                 /\ cpu' = [cpu EXCEPT !.spr[w[1]] = w[2]]
  BY DEF GdbClient, GdbWritePc, GdbWriteFlags, GdbWriteSpr, GdbWritePeriod,
         GdbWriteCtrl, Meddle, Sprs
<1>3. /\ cpu' \in CpuState
      /\ cpu'.inService = cpu.inService
      /\ cpu'.pc = cpu.pc \/ cpu'.spr = cpu.spr
  <2>1. ASSUME NEW w \in SprWrites, w[1] \in Sprs,
               cpu' = [cpu EXCEPT !.spr[w[1]] = w[2]]
        PROVE  /\ cpu' \in CpuState
               /\ cpu'.inService = cpu.inService /\ cpu'.pc = cpu.pc
    <3>1. w[2] \in Addr
      BY CoreAssumption
    <3>2. cpu' \in CpuState
      BY <1>1, <2>1, <3>1, CpuUpdates
    <3>. QED
      BY <1>1, <2>1, <3>2 DEF CpuState
  <2>. QED
    BY <1>1, <1>2, <2>1, CoreAssumption DEF CpuState
<1>4. cpu'.pc \in Addr /\ cpu'.spr[SAVED] \in Addr
  BY <1>3 DEF CpuState, Sprs
<1>5. CASE ~cpu.inService
  <2>1. Contexts!RunMain
    BY <1>2, <1>3, <1>4, <1>5 DEF Contexts!RunMain
  <2>. QED
    BY <2>1 DEF Contexts!Next
<1>6. CASE cpu.inService
  <2>1. Contexts!RunHandler \/ Contexts!Amend
    BY <1>2, <1>3, <1>4, <1>6 DEF Contexts!RunHandler, Contexts!Amend
  <2>. QED
    BY <2>1 DEF Contexts!Next
<1>. QED
  BY <1>5, <1>6

LEMMA InitRefines == Init => Contexts!Init
<1>. SUFFICES ASSUME Init PROVE Contexts!Init
  OBVIOUS
<1>1. PICK v \in {"full", "tn9k", "lite"} : cpu = FreshCpu(v)
  BY CoreAssumption DEF Init
<1>. QED
  BY <1>1, FreshTyped DEF Init, Contexts!Init

\* Interrupts are transparent: each step of the processor is one the two-context
\* abstraction allows, so an interrupted program resumes exactly where its own
\* last instruction left it unless its handler, a debugger or a reset decides
\* otherwise.
THEOREM InterruptsTransparent == Spec => ContextsPreserved
<1>1. Init => Contexts!Init
  BY InitRefines
<1>2. TypeOK /\ [Next]_vars => [Contexts!Next]_Contexts!ctxVars
  <2>1. ASSUME TypeOK, Next PROVE Contexts!Next
    BY <2>1, CompleteRefines, OthersRefine, GdbClientRefines DEF Next, Step
  <2>2. UNCHANGED vars => UNCHANGED Contexts!ctxVars
    BY DEF vars, Contexts!ctxVars
  <2>. QED
    BY <2>1, <2>2
<1>. QED
  BY <1>1, <1>2, TypeCorrect, PTL DEF Spec, ContextsPreserved, Contexts!Spec
=============================================================================
