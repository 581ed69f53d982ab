--------------------------- MODULE PreemptedCode ----------------------------
(***************************************************************************)
(* A main program and an interrupt handler on one stack and one counter,   *)
(* instruction by instruction.  The instructions are those the assembler   *)
(* expands PUSH and POP to, and a LDREX, ADDI, STREX attempt to count.  An *)
(* interrupt may come after any instruction of the main program: the timer *)
(* runs at its own pace, and the hardware saves the program counter only.  *)
(* The handler saves the registers it uses and does not enable interrupts. *)
(* The flags, which it cannot save, are left out.                          *)
(***************************************************************************)
EXTENDS LoadStoreOps, Sequences

CONSTANTS
  Four,        \* the size of a word in bytes, added by POP
  MinusFour,   \* subtracted by PUSH
  Counter,     \* the address of the counter
  Top,         \* the initial stack pointer, just above the stack
  R1, R2, R3,  \* data, scratch and status of the programs
  SP,          \* R30, the stack pointer
  MaxDepth,    \* bound: words the main program keeps on its stack
  MaxCount,    \* bound: no program starts to count beyond it
  Depth(_),    \* how many words are above a stack pointer
  Slot(_)      \* the stack pointer above so many words, where the last one is

\* Arithmetic modulo 2^32, and an address that is not on the stack.
ASSUME CodeAssumption ==
  /\ {R1, R2, R3, SP} \subseteq Reg
  /\ R0 \notin {R1, R2, R3, SP} /\ R1 \notin {R2, R3, SP}
  /\ R2 \notin {R3, SP} /\ R3 # SP
  /\ Four \in Word /\ MinusFour \in Word /\ Counter \in Ram
  /\ \A w \in Word : Plus(w, Zero) = w /\ Plus(Zero, w) = w

\* The stack has room for the main program's words and two of the handler.
ASSUME StackAssumption ==
  /\ MaxDepth \in Nat
  /\ Slot(0) = Top
  /\ \A i \in 0 .. MaxDepth + 2 : Slot(i) \in Word /\ Depth(Slot(i)) = i
  /\ \A i \in 1 .. MaxDepth + 2 : Slot(i) \in Ram \ {Counter}
  /\ \A i \in 0 .. MaxDepth + 1 : /\ Plus(Slot(i), MinusFour) = Slot(i + 1)
                                 /\ Plus(Slot(i + 1), Four) = Slot(i)

FullMask == Lanes

VARIABLES
  cpu,       \* registers, memory, exclusive monitor
  main,      \* what is left of the operation the main program executes
  handler,   \* what is left of the handler, empty when it does not run
  view       \* history: the registers as the main program last left them

codeVars == <<cpu, main, handler, view>>

-----------------------------------------------------------------------------
(* Instructions. *)

Ins(op, base, reg, imm) == [op |-> op, base |-> base, reg |-> reg, imm |-> imm]

\* Altered expansions for the validation of the properties: a push that moves
\* the stack pointer after its store, a pop that moves it twice.
PushLate(r) == <<Ins("STR", SP, r, MinusFour), Ins("SUBI", SP, SP, MinusFour)>>
PopTwice(r) == <<Ins("LDRPOST", SP, r, Four), Ins("ADDI", SP, SP, Four)>>

\* expand_pseudo_line.
Push(r) == <<Ins("SUBI", SP, SP, MinusFour), Ins("STRPOST", SP, r, Zero)>>
Pop(r)  == <<Ins("LDRPOST", SP, r, Zero), Ins("ADDI", SP, SP, Four)>>

\* The machine after an instruction; ADDI and SUBI write base + imm to reg.
After(i) ==
  CASE i.op \in {"ADDI", "SUBI"} ->
         [cpu EXCEPT !.reg = Put(@, i.reg, Plus(@[i.base], i.imm))]
    [] i.op \in {"LDR", "LDRPOST", "LDREX"} ->
         Loaded(cpu, i.op, i.base, i.reg, FullMask, i.imm)
    [] i.op \in {"STR", "STRPOST"} ->
         Stored(cpu, i.op, i.base, i.reg, FullMask, i.imm)
    [] i.op = "STREX" ->
         Strexed(cpu, i.base, i.reg, R3, i.imm, Zero, One)
    [] i.op = "IRET" -> cpu

-----------------------------------------------------------------------------
(* Programs. *)

Attempt == <<Ins("LDREX", R0, R2, Counter), Ins("ADDI", R2, R2, One),
             Ins("STREX", R0, R2, Counter)>>

\* A handler runs alone, so it may also count with an ordinary store.
Plainly == <<Ins("LDR", R0, R2, Counter), Ins("ADDI", R2, R2, One),
             Ins("STR", R0, R2, Counter)>>

Handler(body) == Push(R2) \o Push(R3) \o body \o Pop(R3) \o Pop(R2)
                   \o <<Ins("IRET", R0, R0, Zero)>>

\* How far the main program has come with its stack: a push counts once the
\* word is written, a pop once it is read.
Shifted == main # << >> /\ \/ main[1].op = "STRPOST"
                           \/ main[1].op = "ADDI" /\ main[1].reg = SP
MainDepth == Depth(IF Shifted THEN Plus(view[SP], Four) ELSE view[SP])

CodeInit ==
  /\ cpu = [reg |-> [r \in Reg |-> IF r = SP THEN Top ELSE Zero],
          mem |-> [a \in Ram |-> Zero], valid |-> FALSE, addr |-> Zero]
  /\ main = << >> /\ handler = << >>
  /\ view = cpu.reg

Idle == main = << >> /\ handler = << >>

\* The main program computes its data register or starts an operation.
SetData(w) ==
  /\ Idle
  /\ cpu' = [cpu EXCEPT !.reg = Put(@, R1, w)]
  /\ view' = cpu'.reg
  /\ UNCHANGED <<main, handler>>

Start(code) == /\ Idle
               /\ main' = code
               /\ UNCHANGED <<cpu, handler, view>>

MainStep ==
  /\ main # << >> /\ handler = << >>
  /\ cpu' = After(Head(main))
  /\ main' = Tail(main)
  /\ view' = cpu'.reg
  /\ UNCHANGED handler

\* The interrupt comes between two instructions of the main program.
Interrupt(body) ==
  /\ handler = << >>
  /\ handler' = Handler(body)
  /\ UNCHANGED <<cpu, main, view>>

HandlerStep ==
  /\ handler # << >>
  /\ cpu' = After(Head(handler))
  /\ handler' = Tail(handler)
  /\ UNCHANGED <<main, view>>

CodeNext ==
  \/ \E w \in {Zero, One} : SetData(w)
  \/ MainDepth < MaxDepth /\ Start(Push(R1))
  \/ MainDepth > 0 /\ Start(Pop(R1))
  \/ cpu.mem[Counter] # MaxCount /\ Start(Attempt)
  \/ MainStep
  \/ cpu.mem[Counter] # MaxCount /\ \E b \in {Attempt, Plainly} : Interrupt(b)
  \/ Interrupt(<< >>)
  \/ HandlerStep

CodeSpec == CodeInit /\ [][CodeNext]_codeVars

-----------------------------------------------------------------------------
CodeTypeOK ==
  /\ cpu \in Machine
  /\ MainDepth \in 0 .. MaxDepth
  /\ view \in [Reg -> Word]

\* Main program and handler, preempted between any two instructions, behave as
\* if every push, pop and successful attempt were indivisible (pseudo.py; the
\* monitor in execute.py; raise_irq after a completed step).
Atomic == INSTANCE AtomicCode WITH
  stk     <- [i \in 1 .. MainDepth |-> cpu.mem[Slot(i)]],
  acc     <- view[R1],
  status  <- view[R3],
  counter <- cpu.mem[Counter]

CodeIsAtomic == Atomic!Spec

\* Whatever the handler did, the main program finds its registers, the stack
\* pointer among them, as it left them.
RegistersTransparent == handler = << >> => cpu.reg = view
=============================================================================
