------------------------------ MODULE E32cCore ------------------------------
(***************************************************************************)
(* One E32C processor with its cycle timer, as Runner.step drives them,    *)
(* and the DebugController operations on them.  The program is unknown:    *)
(* every step may fetch any instruction, so a behaviour is a run of some   *)
(* program.  The module keeps the control state: program counter,          *)
(* interrupt enable, halt, interrupt registers, timer.  General registers, *)
(* memory and the monitor are in LoadStore.                                *)
(***************************************************************************)
EXTENDS CycleTimer

CONSTANTS
  PcMod,        \* addresses are 0 .. PcMod - 1 (2^32)
  InsnBytes,    \* bytes of an instruction (4); other addresses are misaligned
  LoadAddr,     \* the address a program is loaded at and started from
  Variants,     \* core variants the debugger can select, "full" among them
  SprWrites,    \* pairs <<index, value>> the programs write with WRITESPR
  JumpTargets,  \* addresses the programs branch to, or rebase IP to
  BreakTargets, \* addresses the debugger sets breakpoints at
  PeriodWrites, \* words the programs store to PERIOD_LO and PERIOD_HI
  Watched       \* TRUE when the Runner was built with watchpoints

SAVED == 0     \* SPR 0, the return address of the interrupted program
VECTOR == 1    \* SPR 1, the address of the handler
MASK == 2      \* SPR 2, bit 0 masks the timer line
INFO == 3      \* SPR 3, stands for the read-only 3, 4 and 5
UNASSIGNED == 6     \* SPR 6, stands for the unassigned 6 .. 31

Addr == 0 .. PcMod - 1
ReadOnlySprs == {INFO}
Sprs == {SAVED, VECTOR, MASK, UNASSIGNED}

ASSUME CoreAssumption ==
  /\ PcMod \in Nat \ {0}
  /\ InsnBytes \in Nat \ {0}
  /\ LoadAddr \in Addr
  /\ Variants \subseteq {"full", "tn9k", "lite"}
  /\ SprWrites \subseteq (Sprs \union ReadOnlySprs) \X Addr
  /\ JumpTargets \subseteq Addr
  /\ BreakTargets \subseteq Addr
  /\ PeriodWrites \subseteq Word
  /\ Watched \in BOOLEAN

VARIABLES
  cpu,     \* CPUState: pc, flag bit 0, halted, in service, SPRs, variant
  timer,   \* CycleTimer
  cycles,  \* CycleCounter, up to MaxCost: larger totals behave alike
  lag,     \* how far the timer's last total is ahead of it, up to MaxCost
  breaks,  \* break_pcs of the Runner
  last,    \* history: what kind of step was the last one
  meddled, \* history: no step has completed since a GDB client wrote to the
           \* flags, the special registers or the timer
  flow     \* history: pc as the last instruction left it, before any interrupt

vars == <<cpu, timer, cycles, lag, breaks, last, meddled, flow>>

MaxCost == 3

CpuState ==
  [pc : Addr, ie : BOOLEAN, halted : BOOLEAN, inService : BOOLEAN,
   spr : [Sprs -> Addr], variant : {"full", "tn9k", "lite"}]

\* A completed step that touches neither the timer nor the interrupt state, a
\* write that acknowledges the timer, anything else.
StepKinds == {"plain", "acked", "other"}

AtMost(n, bound) == IF n > bound THEN bound ELSE n
NextPc(pc) == (pc + InsnBytes) % PcMod

FreshCpu(variant) ==
  [pc |-> LoadAddr, ie |-> FALSE, halted |-> FALSE, inService |-> FALSE,
   spr |-> [i \in Sprs |-> 0], variant |-> variant]

Init ==
  /\ cpu \in {FreshCpu(v) : v \in Variants}
  /\ timer = TimerInit
  /\ cycles = 0
  /\ lag = 0
  /\ breaks = {}
  /\ last = "other"
  /\ meddled = FALSE
  /\ flow = LoadAddr

-----------------------------------------------------------------------------
(* The end of a completed step. *)

\* An altered entry, against which ContextsPreserved is validated: it saves the
\* address of the instruction that has just completed.
RaiseIrqEarly(c, returnPc) ==
  [c EXCEPT !.inService = TRUE, !.spr[SAVED] = cpu.pc, !.pc = c.spr[VECTOR]]

\* raise_irq() on line 0.
RaiseIrq(c, returnPc) ==
  IF c.inService \/ ~c.ie \/ c.spr[MASK] % 2 = 1
  THEN c
  ELSE [c EXCEPT !.inService = TRUE,
                 !.spr[SAVED] = returnPc,
                 !.pc = c.spr[VECTOR]]

\* An altered delivery, against which NoDeliverableLeft is validated: it looks
\* at the interrupt state from before the instruction.
DeliverStale(c, t) ==
  IF Requests(t) /\ cpu.ie /\ ~cpu.inService THEN RaiseIrq(c, c.pc) ELSE c

\* The delivery half of process(): the line is requested and the processor open.
Deliver(c, t) ==
  IF Requests(t) /\ c.ie /\ ~c.inService THEN RaiseIrq(c, c.pc) ELSE c

\* The cycles process() charges: the growth of the total since its last call,
\* or one when a reset has put the total behind it.
Delta(cost) ==
  IF lag = 0 THEN cost ELSE IF cost > lag THEN cost - lag ELSE 1

\* The instruction has left the processor in c and the timer in t.
Retire(c, t, cost, name) ==
  LET ticked == IF Watched THEN t ELSE Tick(t, Delta(cost))
  IN  /\ timer' = ticked
      /\ cpu' = IF Watched THEN c ELSE Deliver(c, ticked)
      /\ cycles' = AtMost(cycles + cost, MaxCost)
      /\ lag' = IF Watched THEN lag ELSE 0
      /\ last' = name
      /\ meddled' = FALSE
      /\ flow' = c.pc
      /\ UNCHANGED breaks

-----------------------------------------------------------------------------
(* Runner.step: the instruction at pc is fetched and completes. *)

Fetched ==
  /\ ~cpu.halted
  /\ cpu.pc \notin breaks
  /\ cpu.pc % InsnBytes = 0

Advanced == [cpu EXCEPT !.pc = NextPc(cpu.pc)]

\* Arithmetic, READSPR, NOP, a branch not taken: nothing but the next address.
Alu == Fetched /\ Retire(Advanced, timer, 1, "plain")

\* The load and store family on anything but the timer.
Mem == Fetched /\ Retire(Advanced, timer, 2, "plain")

\* The multiply family, which only the full core has.
Mul == Fetched /\ cpu.variant = "full" /\ Retire(Advanced, timer, 3, "plain")

\* A branch taken.
Jump(target) ==
  Fetched /\ Retire([cpu EXCEPT !.pc = target], timer, 1, "plain")

SetIntEnable(b) ==
  /\ Fetched
  /\ Retire([Advanced EXCEPT !.ie = b], timer, 1, "other")

Iret ==
  /\ Fetched
  /\ Retire([cpu EXCEPT !.inService = FALSE, !.pc = cpu.spr[SAVED]],
            timer, 1, "other")

\* HALT leaves pc on itself, and its step ends like any other.
Halt == Fetched /\ Retire([cpu EXCEPT !.halted = TRUE], timer, 1, "other")

WriteSpr(i, v) ==
  /\ Fetched
  /\ Retire(IF i \in ReadOnlySprs THEN Advanced
                                  ELSE [Advanced EXCEPT !.spr[i] = v],
            timer, 1, "other")

\* A store to a timer register takes effect before the timer ticks.
StorePeriodLo(v) ==
  Fetched /\ Retire(Advanced, WritePeriodLo(timer, v), 2, "other")

StorePeriodHi(v) ==
  Fetched /\ Retire(Advanced, WritePeriodHi(timer, v), 2, "other")

StoreCtrl(en, ack) ==
  Fetched /\ Retire(Advanced, WriteCtrl(timer, en, ack), 2,
                   IF ack THEN "acked" ELSE "other")

-----------------------------------------------------------------------------
(* Runner.step: the step does not complete.  No cycles are charged, the    *)
(* peripherals do not tick and pc is not advanced.                         *)

\* A bad address or encoding, or an instruction the variant lacks.  LDRPRE and
\* STRPRE write their base register before the access that fails; with IP as
\* the base the program counter has then moved.
Fault ==
  /\ ~cpu.halted
  /\ cpu.pc \notin breaks
  /\ \/ UNCHANGED cpu
     \/ /\ cpu.pc % InsnBytes = 0
        /\ \E a \in JumpTargets : cpu' = [cpu EXCEPT !.pc = a]
  /\ last' = "other"
  /\ flow' = cpu'.pc
  /\ UNCHANGED <<timer, cycles, lag, breaks, meddled>>

BreakpointHit ==
  /\ ~cpu.halted
  /\ cpu.pc \in breaks
  /\ last' = "other"
  /\ flow' = cpu.pc
  /\ UNCHANGED <<cpu, timer, cycles, lag, breaks, meddled>>

CpuHalted ==
  /\ cpu.halted
  /\ last' = "other"
  /\ flow' = cpu.pc
  /\ UNCHANGED <<cpu, timer, cycles, lag, breaks, meddled>>

-----------------------------------------------------------------------------
(* The debugger, between two steps. *)

\* reset_cpu() rewinds the cycle counter but not the timer that follows it.
Reset(variant) ==
  /\ cpu' = FreshCpu(variant)
  /\ cycles' = 0
  /\ lag' = IF Watched \/ lag > 0 THEN lag ELSE cycles
  /\ last' = "other"
  /\ flow' = cpu'.pc
  /\ UNCHANGED <<timer, meddled>>

ResetCpu(preserve) ==
  /\ Reset(cpu.variant)
  /\ breaks' = IF preserve THEN breaks ELSE {}

\* set_core_variant() resets only when the variant changes.
SetCoreVariant(variant) ==
  /\ variant # cpu.variant
  /\ Reset(variant)
  /\ UNCHANGED breaks

\* set_gpr() on R31 takes aligned addresses only.
SetPc(a) ==
  /\ a % InsnBytes = 0
  /\ cpu' = [cpu EXCEPT !.pc = a]
  /\ last' = "other"
  /\ flow' = cpu'.pc
  /\ UNCHANGED <<timer, cycles, lag, breaks, meddled>>

ToggleBreak(a) ==
  /\ breaks' = IF a \in breaks THEN breaks \ {a} ELSE breaks \union {a}
  /\ last' = "other"
  /\ flow' = cpu.pc
  /\ UNCHANGED <<cpu, timer, cycles, lag, meddled>>

-----------------------------------------------------------------------------
(* A GDB client, between two steps.  Its G, P and M packets write straight *)
(* into the processor and the timer: no cycles pass, nothing is delivered. *)
(* A packet that writes several registers is several of these actions.     *)

Meddle(c, t, name) ==
  /\ cpu' = c
  /\ timer' = t
  /\ last' = name
  /\ flow' = c.pc
  /\ UNCHANGED <<cycles, lag, breaks>>

\* set_pc() takes any address, misaligned or not.
GdbWritePc(a) ==
  Meddle([cpu EXCEPT !.pc = a], timer, "other") /\ UNCHANGED meddled

GdbWriteFlags(b) ==
  Meddle([cpu EXCEPT !.ie = b], timer, "other") /\ meddled' = TRUE

GdbWriteSpr(i, v) ==
  /\ i \in {SAVED, VECTOR, MASK}
  /\ Meddle([cpu EXCEPT !.spr[i] = v], timer, "other")
  /\ meddled' = TRUE

GdbWritePeriod(v) ==
  /\ \/ Meddle(cpu, WritePeriodLo(timer, v), "other")
     \/ Meddle(cpu, WritePeriodHi(timer, v), "other")
  /\ meddled' = TRUE

GdbWriteCtrl(en, ack) ==
  /\ Meddle(cpu, WriteCtrl(timer, en, ack), IF ack THEN "acked" ELSE "other")
  /\ meddled' = TRUE

-----------------------------------------------------------------------------
Complete ==
  \/ Alu \/ Mem \/ Mul \/ Iret \/ Halt
  \/ \E a \in JumpTargets : Jump(a)
  \/ \E b \in BOOLEAN : SetIntEnable(b)
  \/ \E w \in SprWrites : WriteSpr(w[1], w[2])
  \/ \E v \in PeriodWrites : StorePeriodLo(v) \/ StorePeriodHi(v)
  \/ \E en, ack \in BOOLEAN : StoreCtrl(en, ack)

Step == Complete \/ Fault \/ BreakpointHit \/ CpuHalted

Debugger ==
  \/ \E preserve \in BOOLEAN : ResetCpu(preserve)
  \/ \E v \in Variants : SetCoreVariant(v)
  \/ \E a \in JumpTargets : SetPc(a)
  \/ \E a \in BreakTargets : ToggleBreak(a)

GdbClient ==
  \/ \E a \in JumpTargets : GdbWritePc(a)
  \/ \E b \in BOOLEAN : GdbWriteFlags(b)
  \/ \E w \in SprWrites : GdbWriteSpr(w[1], w[2])
  \/ \E v \in PeriodWrites : GdbWritePeriod(v)
  \/ \E en, ack \in BOOLEAN : GdbWriteCtrl(en, ack)

Next == Step \/ Debugger \/ GdbClient

Spec == Init /\ [][Next]_vars

\* The driver (run, run_n, the debugger's continue) steps again and again.
FairSpec == Spec /\ WF_vars(Step)

-----------------------------------------------------------------------------
TypeOK ==
  /\ cpu \in CpuState
  /\ timer \in TimerState
  /\ cycles \in 0 .. MaxCost
  /\ lag \in 0 .. MaxCost
  /\ breaks \subseteq BreakTargets
  /\ last \in StepKinds
  /\ meddled \in BOOLEAN
  /\ flow \in Addr

\* A counter at or past its threshold has latched it.
Latched == ~meddled /\ timer.period # 0 /\ ~timer.pending
             => timer.counter < timer.period

\* A threshold ahead of the counter stays ahead or is latched.
Met == timer'.period \in 1 .. WordMod - MaxCost
         /\ timer.counter < timer'.period /\ last' # "acked"
       => timer'.pending \/ timer'.counter \in timer.counter .. timer'.period - 1

\* No threshold is outrun (timer.py, process).  After every step, and until a
\* GDB client interferes, a counter at or past its threshold has latched it.
\* And a threshold that lies ahead, with room for the longest instruction
\* between it and the top, is met: no tick, store, fault, reset or debugger
\* takes the counter past it, wraps it or sets it back without the latch; only
\* an acknowledgement restarts the count.  Thresholds in the last MaxCost - 1
\* words below the top are outside the second promise, since the counter can
\* wrap over them; and a threshold lowered below a counter that wraps in the
\* very same step is not latched either.
NoMissedExpiry == [][Latched' /\ Met]_vars

\* The processor is open to the timer line.
Open == cpu.ie /\ ~cpu.inService /\ cpu.spr[MASK] % 2 = 0

\* No step leaves an interrupt that could be delivered undelivered: whatever
\* opens the processor or raises the line (EI, IRET, WRITESPR, a store, a tick)
\* delivers in that same step, and faults, resets and SetPc leave none.  What a
\* GDB client opens by writing past the processor waits, but no longer than the
\* next step that completes (timer.py, process; registers.py, bytes_to_reg).
NoDeliverableLeft == ~meddled => ~(Requests(timer) /\ Open)

\* The interrupted program and its handler are separated as InterruptContexts
\* promises: the interrupted pc survives the handler and IRET returns to it.
Contexts == INSTANCE InterruptContexts WITH
  Next4    <- NextPc,
  Boot     <- LoadAddr,
  NoPc     <- PcMod,
  handling <- cpu.inService,
  mainPc   <- IF cpu.inService THEN cpu.spr[SAVED] ELSE cpu.pc,
  isrPc    <- IF cpu.inService THEN cpu.pc ELSE PcMod

ContextsPreserved == Contexts!Spec

\* A processor that stays open to an enabled timer, and keeps retiring
\* instructions that leave the timer alone, is interrupted.  The threshold must
\* leave the longest instruction room before the counter wraps.
Awaiting == last = "plain" /\ Open /\ timer.irqEn
                           /\ timer.period \in 1 .. WordMod - MaxCost
AlarmFires == ~<>[]Awaiting
=============================================================================
