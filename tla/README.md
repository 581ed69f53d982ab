# FuncSim, a verification development in TLA+

FuncSim is a functional simulator of the 32-bit E32C processor, with an
assembler, memory-mapped peripherals, a command line, a GDB remote stub, a
graphical debugger, and scripts that build firmware for an FPGA board. The
modules beside this file model the parts whose correctness depends on the order
of events, on failures, or on arithmetic at the edge of a word: the processor
with its timer interrupt, the arithmetic and logic instructions and their flags,
the load/store family with the exclusive monitor, code preempted between
instructions, the UART, the two SD storage devices and the files behind them,
the GDB stub, the two threads of the graphical debugger, the placement and
encoding of branches by the assembler, the UART calculator, and the scripts that
install firmware files.
TLC checks them on small instances; TLAPS proves the central invariants for
every value of the constants.

Paths below are relative to the repository root.

## 1. Inventory

| Component | State | Operations | Modelled |
|---|---|---|---|
| Processor control: `runner.py`, `state.py`, `cycles.py`, `flags.py` | pc, flags, halted, irq_in_service, 32 special registers, cycle total, breakpoints | `Runner.step`, `raise_irq`, system instructions | `E32cCore` |
| Cycle timer: `peripherals/timer.py` | counter, period, irq_enable, irq_pending, last cycle total | register writes, `process` at the end of a step | `CycleTimer` |
| Arithmetic and logic: `execute.py`, `flags.py` | registers, Z, C, V, S | one case per mnemonic, branch conditions | `AluOps`, `Alu` |
| Loads, stores, exclusives: `execute.py`, `memory.py` | registers, memory, exclusive monitor | one case per mnemonic, aligned access | `LoadStoreOps`, `LoadStore` |
| Decoding: `decode.py`, `instruction.py` | none | words to instructions | the words of branches, ADDI and address loads, in `BranchRelaxation` |
| Bus: `bus.py`, `mem_if.py` | devices | address ranges, sub-word merges, `on_step_end` | through the components that use it |
| UART: `peripherals/uart.py`, `cli/uart_terminal.py` | two FIFOs, sent bytes, the text of the window | TX, RX, STATUS, `feed_rx`, `tick`, the polls and buttons of the window | `Uart` |
| SD devices: `peripherals/sd_card.py`, `sd_spi.py` | status, buffer, card in memory, open file | mount, unmount, register writes, commands | `SdDevices`, `SdStorage` |
| GPIO: `peripherals/gpio.py` | one word | read, write | no behaviour to check |
| Debug controller: `debug_controller.py` | the machine, break and watch points, trace, snapshots | step, run, reset, load, edits | step, run, reset, edits in the modules of what they act on |
| GDB stub: `cli/gdb/`, `gdb_server.py` | stop reason, the controller, the connection | RSP packets, acknowledgement, framing | `GdbStub`, `GdbWire` |
| Graphical debugger: `cli/debug_gui/` | `_run_thread_active`, `_run_queue`, Auto | handlers of an event loop, a worker thread | `DebuggerGui`; display left out |
| Assembler: `core/asm/` | lines, labels, addresses | parse, macros, expressions, relaxation, emission | relaxation, emission and encoding of branches in `BranchRelaxation`, PUSH and POP in `PreemptedCode` |
| UART calculator: `examples/uart_calculator.py` | registers, what it has sent | the program it assembles | `UartCalculator` |
| Firmware scripts: `scripts/gen_firmware_hex.py`, `build_tn9k_firmware.py`, `restore_tn9k_baseline.py` | files of the FPGA project | link, write with retries, copy, remove | `FirmwareFiles` |
| Tools: `cli/asm.py`, `sim.py`, `debug.py`, `debug_common.py` | none of their own | arguments, REPL | no |
| Disassembler, loader, trace, generators of constants | none | formatting, files, generation | no |
| RTL, vendor projects, other examples, tutorials | - | - | not this program |

How they interact. `Runner.step` fetches, executes, advances pc, adds cycles,
and then calls `on_step_end` on the bus, which ticks the UART and the timer; the
timer may call back into `CPUState.raise_irq`. Stores of the program reach the
SD devices, which read and write files of the host within the instruction.
Everything outside the processor acts between two steps, except the graphical
debugger, whose event loop and worker thread share the machine without a lock.

What is hard. The order within a step (store, tick, delivery) decides whether an
interrupt is lost. There is one saved-pc register. The hardware saves the pc
only, so a handler can disturb flags, registers, the monitor and the stack. The
cycle total can be rewound under the timer. A status bit is read in one
instruction and used in another. Two threads read and write the pc. A host file
may fail in the middle of a sector, and the process may be killed at any moment,
after a sector has been acknowledged as well as before. A debugger caches what
it was told. A script may be stopped between two of its files. The carry of a
multi-word subtraction depends on all the words below. The full list, line by
line with the property that covers it, is under `hazards` in `PROJECT.json`.

What makes each component correct.

* Processor and timer: no threshold outrun that leaves the counter room below its
  top, no interrupt that could be delivered left waiting by a step, the interrupted
  pc preserved, an alarm that is set comes.
* Arithmetic: chains of ADDS/ADCS and SUBS/SBCS compute wide sums and
  differences, branches decide the comparison before them.
* Loads, stores, exclusives: an armed monitor is truthful, a faulting
  instruction leaves memory and registers as they were, but for the base of a
  pre-indexed form.
* Preempted code: the handler is invisible to the program it interrupts, except
  through the operations both perform on shared data, which are atomic.
* UART: no byte doubled or out of order, none of the program lost; STATUS stays true until used; the
  transmit FIFO drains.
* SD devices: what has been acknowledged, or saved by an unmount, survives any
  later error or kill; the card shows the image that is mounted.
* GDB stub: what the client caches between two stops is what the machine holds,
  and the reason of a stop is true.
* Assembler: a branch is emitted into the room counted for it wherever the last
  pass has left its label; when all branches have their room, each of them, decoded
  again, goes where its label is, in its short form and in its long one.
* Graphical debugger: what the event loop does beside a worker, which nothing
  prevents, tears no more than the step it falls into; counts are exact as long as
  no two threads have stepped at once; a reset holds; the buttons come back.
* Calculator: every expression gets its result or `?`, an error leaves nothing
  behind for the next line.
* Firmware scripts: however a script ends, each file is old or new, in the order
  in which the script goes through them, and it ends.

## 2. Modules

```
CycleTimer            timer registers and one tick                 (operators)
  E32cCore            processor + timer + debugger                 EXTENDS CycleTimer
    InterruptContexts abstract: a program and its handler          instantiated by E32cCore
    E32cCoreProofs    theorems
    MCE32cCore        small instance
AluOps                results, flags, conditions                   (operators)
  Alu                 any straight program of these instructions
    MCAlu
  UartCalculator      the calculator, with these instructions
    MCUartCalculator
  AluProofs           theorems about both
LoadStoreOps          what each load/store/exclusive does          (operators)
  LoadStore           any sequence of them, with a debugger
    MCLoadStore
  PreemptedCode       main program and handler on them
    AtomicCode        abstract: pushes, pops, counts in one step   instantiated by PreemptedCode
    MCPreemptedCode
  LoadStoreProofs     theorems about both
Uart                  the device, its program, its host, its window
  UartProofs          theorems
  MCUart
SdDevices             registers of both storage devices            (operators)
  SdStorage           a process with one of them, the files, kills
    SdStorageProofs   theorems
    MCSdStorage
GdbStub               a debugging session, packet by packet
  GdbStubProofs       theorems
  MCGdbStub
GdbWire               the bytes of its connection
DebuggerGui           event loop and worker thread
  DebuggerGuiProofs   theorems
  MCDebuggerGui
BranchRelaxation      addresses, forms and words of branches
  MCBranchRelaxation
FirmwareFiles         files and scripts
  MCFirmwareFiles
HostToolsProofs       theorems about BranchRelaxation and FirmwareFiles
```

### CycleTimer, E32cCore, InterruptContexts

One action of `E32cCore` is one whole `Runner.step` or one call of the debug
controller. The program is unknown: each step may fetch any instruction, so a
behaviour is a run of some program. `Retire` is the end of every completed step:
`cycles.add`, `on_step_end`, the timer's `process`, the delivery. The
instructions are grouped by what they do to the control state: `Alu`, `Mem` and
`Mul` only move on, at 1, 2 and 3 cycles; `Jump`, `SetIntEnable`, `Iret`,
`Halt`, `WriteSpr` and the stores to the timer registers are their own actions.
`Fault`, `BreakpointHit` and `CpuHalted` are the steps that do not complete:
they charge nothing and tick nothing. A fault may have moved pc, because a
pre-indexed access with R31 as its base writes the base first.

`cycles` and `lag` stand for the cycle total and the timer's last copy of it.
Only their difference matters to `process`, and only as far as the cost of one
instruction, hence the cap `MaxCost`. `lag` is positive after `reset_cpu`, which
rewinds the total and not the copy. `GdbClient` is a client of the GDB stub, whose
packets write pc, flags, special registers and timer registers past the processor:
no cycles pass and nothing is delivered. `meddled` says that no step has completed
since it wrote flags, special registers or the timer, which is how long what it
opens may wait. UART ticks are left to `Uart`. The constant
`Watched` stands for a Runner with watchpoints, whose steps never tick.

`InterruptContexts` is what the processor promises a programmer: two contexts,
one program counter each; entering the handler leaves that of the main program
alone, IRET returns to it, and only the software itself (SAVED is writable) or a
debugger can redirect it. `E32cCore` implements it under the mapping at the end of the
module.

The history variables `last` (the kind of the last step), `meddled` and `flow` (pc
before the delivery) are read by properties only.

### AluOps, Alu

A word is a number, `Signed` its two's complement reading. `AluOps` has one
operator per helper of `execute.py` (`_adds_flags` to `_sbcs_flags`), `Plain`
for the instructions that leave the flags alone, `Product` for the
multiplications, and `Taken` for the conditions of branches. `Alu` is a program
that executes any of them on any registers. The carry of a subtraction is the
absence of a borrow, SUBI changes Z and no other flag, and R0 stays zero.

The history variable `chain` follows one ADDS or SUBS and the ADCS or SBCS after
it as a number that grows by one word each: operands, result and scale. Whatever
else is executed in between is part of the behaviours; an instruction that sets
the flags for itself ends or restarts the chain. `whole` says that Z still
speaks of the whole difference. R31 as an operand, and the interrupt bit that
the code keeps beside the flags, are left out.

### UartCalculator

The firmware that `uart_calculator.py` assembles, one action per block between
two polls of the UART, its arithmetic with the operators of `AluOps`. The
reference beside it reads the same characters from each newline on, with exact
numbers. The transmit FIFO is taken to accept every byte, as it does on this
UART (`SentAsWritten`). `InReach` states for which operands the program promises
an answer; section 5 lists what it answers elsewhere. The answer it expects is
`Decimal`: the digit at each place, from the highest place that is not zero down,
which says nothing of how the program finds them by subtracting places.
`PowerAssumption` holds of the constants of the source, base 10, nine places and
words of 32 bits; TLC evaluates it on those of the run.

### LoadStoreOps, LoadStore

`m` holds the registers, the memory words, `exclusive_valid` and
`exclusive_addr`. A word is a function from lanes to bytes, so masks and
lane selection are those of `_apply_ldr_mask` and `_merge_str_mask`; addition is
the constant `Plus`, about which nothing is assumed but its type. All
combinations of registers occur, aliases included (base = destination, base =
status, R0). `FifthBit` is mask bit 4, which selects no lane and still makes the
access. The order of the code is kept: pre-index write, mask test, access,
register, post-index write; a fault is an exception that leaves what was written
before it. `FaultsAreConfined` says what that is: nothing, or the base of a
pre-indexed form, which then is the address that faulted, so that such an
instruction cannot be executed again.

### PreemptedCode, AtomicCode

A main program pushes, pops and counts with LDREX/ADDI/STREX, instruction by
instruction, with the expansions of `asm/pseudo.py` and the operators of
`LoadStoreOps`. An interrupt may come between any two of its instructions; the
handler saves the two registers it uses with PUSH and POP and counts as well, in
one of two ways, or does nothing. The main program stands for all programs that use these
sequences; the handler obeys the convention the tutorials teach (save what you
use, do not enable interrupts). `AtomicCode` has the same operations in one step
each. A STREX that fails is a step of `AtomicCode` too, one that counts nothing
and says so in the status register; the refinement shows that success and failure
are told apart correctly. The flags, which no handler can save, are left out.

### Uart

Each instruction of the program ends in `Tick`; the accesses of a debugger
(`stub.py`) do not tick. A store is a read of the same register followed by a
write, as `bus.py` does for sub-word merges, so a store to the data register
pops a received byte (`Popped`, `Taken`). The terminal window is modelled with
its length counter `_shown_len`, its three buttons and its poll. `poll` is what
the program knows from its last read of STATUS. `written` is the history of the
bytes that found room, of the program and of the debugger, in the order of the
writes; `lost` says that there was none for a byte of the program. A memory packet of the GDB stub
on a device register is one access per byte, as `stub.py` makes it.

### SdDevices, SdStorage

`SdDevices` holds the registers of `SdCardMmio`, whose sectors are those of an
open file, and of `SdSpiMmio`, a card in memory that is loaded at mount and
written back at unmount. A sector is one value. `behind` is what a failed write
has left in the buffer of the file: a later seek, flush or close may bring it to
the disk. `SdStorage` adds the files, the user who mounts, creates and unmounts,
a failing host, and `Restart`, the end of the process at any moment, which
unmounts nothing. Each access to a file has its outcomes as disjuncts: done,
failed before, failed with the data still behind, failed with the data on the
disk all the same.

`promise` is what each file must hold: its sectors as they were, those whose
`CMD_WRITE` was answered with READY, those of the card after an unmount that
found no error, which cuts off any others. `written` is what the driver has written
to sectors of the mounted card under their numbers, and `Expected` what it must find:
that, and elsewhere what the file on the disk holds. The data register looks at no
status, and `REG_BLKIDX` moves its sector without a command, so a program may write
under a number beyond the card and hit the sector with the same low bits; such
sectors are remembered in `strayed` and excepted. `chosen` says whether the sector
named last is one of the card. A creation that fails may leave the old file, none,
or a new one of any length (`Create`). The byte level of SPI, the word granularity of the data
registers, the response word, the interrupt and the choice of the device by
address are left out.

### GdbStub, GdbWire

One action of `GdbStub` is one packet, with all that `handle_packet` does for
it; a continue is a loop of steps. The client is a debugger that believes what
it was told until it resumes the program: one item of its cache, a register
number or a byte, is chosen in `Init` and followed. Register numbers share what
they share in the code: 31 and 32 are the program counter, 0 and numbers above
36 are no register. `ram` is the byte array of `Memory`. Writes of memory are whole words or a merge per byte, and
stop at the first word that is not there. `GdbWire` is the loop of `serve`
around `read_packet_from_stream`, with the reader that `serve` really passes.

### DebuggerGui

`thread` says where each of the two threads is within `run_n` and `Runner.step`.
A step is cut where it reads or writes what the other thread writes: the read of
pc, the test of the breakpoint, the execution, the write of pc, the two halves
of the increment of the cycle total (`cycles.py`). Handlers of the event loop
run only when it is not itself in a step (`Ready`). The user does as he likes: Step,
Auto, the opening of an image and the edit of R31 do not look at
`_run_thread_active`, and the model has them beside a worker as the code does
(`BeginBeside`). The reset within an opening is cut assignment by assignment
(`ClearRegs`, `Wake`, `Home`, `Rewind`), since the worker may step between them;
Reset itself is refused during a run and is one action.

Two histories say what the code promises when the two do meet. `met` is true of a
step during which the other thread was on the processor: such a step may be torn,
and `StepsAreWhole` is about the others, those after it included. `beside` says what
the event loop has done beside a worker since the last reset that no worker ran
beside: as long as it has done nothing the count is exact, after steps it may have
lost entries but has invented none, and only an image opened during a run can make
it too large. The modal error box, which runs a nested event loop, is taken to
return at once.

### BranchRelaxation

A program is a sequence of lines, chosen in `Init`: words, labels, branches,
`.align`, `.skip`, `.org`. `Collect` is `_collect_label_addresses`, `Assign` one
pass of `_assign_addresses`, `Emit` is `_emit_items`. A pass is one action, as
nothing runs beside it; `Sweep` is its loop as a recursive function, with the
labels of this pass for branches backwards and of the last one for branches
forwards. The emitted words carry their immediates as the encoder leaves them:
eleven bits for a short branch, two halves for an address that is loaded.
`Executed` decodes them and says where the processor ends up, so the properties
speak of that and not of offsets.

`seen` is a history variable: the labels the last pass started from. With it
`CountedAsEmitted` says what holds of every program, settled or not: a branch whose
label is behind it, or ahead and where the last pass found it, is emitted into the
room counted for it. A branch ahead whose label has moved in the last pass may not
be, and the code does not notice; section 5 has programs to which this happens after
sixteen passes. Settling is slow, or fails, because a pass is not monotone: a label
of the pass before is compared with an address of this one, so a branch that had
become long may look short for a pass.

`JumpsLand` is about settled programs (`Settled`) made of whole words (`Straight`)
below 2^32 (`Fits`). The processor starts at the place of the branch and executes the
words of the image until it has left those of the line (`Leaves`). That the words are
those of the line is part of the claim: the image keeps the word emitted last to an
address, and `Emitted` reads it word by word from the origin, as
`driver.py:349` does. Offsets are 32-bit differences (`Offset`), and
`Imm32` decodes the parts of an immediate as `decode.py` does.

### FirmwareFiles

A script is a list of operations on files, in the order of its `main`: link the
image, write (temporary file, replace, retries), remove, copy. `Generates`,
`Builds` and `Restores` are the lists of the three scripts. A file is absent, of
some version, or cut off. The FPGA tool may hold the ROM open, any operation may
fail, the user may kill a script anywhere. `gen_firmware_hex.py:14` imports
`core.elf`, which this commit does not have (docs/BACKLOG.md:10 has the loader
in progress); the model takes the module as present. Two scripts at once, which
would share the names of temporary files, are left out.

## 3. Runs

| Run | Question | Bounds and why they are enough |
|---|---|---|
| `core_flow` | No threshold outrun, no interrupt left, contexts separated; an awaited interrupt comes | Words of 4 x 4 halves: the counter runs to 15 and wraps, each instruction costs up to 3; periods 0, 1, 12 and 13, the last one below the top that no instruction can jump over; addresses 0..3 with 2-byte instructions: they wrap and are misaligned; program at 2, also a breakpoint, handler at 0; two variants; mask and return address rewritten by the program and by a GDB client, which writes pc, flags and timer as well |
| `alu_chain` | Chains compute, branches decide, types | Words of two bits, all values in two registers and as immediates, chains of two words: every carry in and out, overflow in either direction, Z and S of every result. The theorems of section 4 hold for every width and length |
| `loadstore` | Monitor, faults | 2 lanes of 2 bytes, 4 addresses of which 2 are words of memory, 3 registers with R0: aliases, unaligned, absent words; 4 masks; registers but R0 are symmetric, as no operator distinguishes them |
| `code_atomic` | Refinement of `AtomicCode`, registers preserved | two words of stack for the main program, two increments: preemption in each of the expansions, by each of the handlers, at an empty and a part-filled stack |
| `uart_flow` | FIFO order, STATUS, draining | depth 2 (full, empty, one below full), two byte values, 3 fed bytes: the RX FIFO overflows; two stored bytes and two injected by the debugger, interleaved: the TX FIFO holds two, is full when the program stores, and their order can be wrong |
| `sd_storage` | Acknowledged sectors stay, the card shows its image | two files, which are symmetric, cards of 2 sectors; images of 1 and 3 sectors, shorter and longer than the card, absent, created with one sector or left by a failed creation with none, one, or no valid size; programs name sector 0 and sector 2, by command or by `REG_BLKIDX`: 2 is beyond the card, in the longer image only, and has the low bits of 0; one sector of the card is never written. The cut of a creation to the size of the card is left to the proofs |
| `gdb_session` | The client's cache and the stop reasons are true | words of 2 bytes, RAM of 2 words, ranges and writes that are aligned, start or end inside a word, span two, run off the end; one breakpoint; register values above a word |
| `gdb_served` | (finding) packets are answered while the client is connected | two packets |
| `asm_relax` | Branches are counted as they are emitted, and land | four lines among word, two jumps and a conditional branch, or three of all kinds, with a skip of 6 bytes, an alignment to 8, `.org` 8 and a branch to an undefined label, and two labels, or one twice, anywhere; families of programs that the four passes do not settle, one that no number does; reach -12..11; half word 48: programs on both sides of it, long jumps before its middle |
| `gui_run` | What two threads without a lock do to steps, counts and resets; every run ends | 3 addresses, runs of 1 and 2 steps on either thread, 3 retired steps since a reset, so that a run of the worker meets a step of the event loop at every stage, or an opening; two load addresses |
| `calculator` | Answers are right, errors leave nothing behind, it always answers | base 3 in words of six bits for base 10 in words of 32: as there, the largest place is below the sign bit, a small multiple of it above (twice 27 against 32; in the firmware three times 10^9 against 2^31), and the next power is no word; numbers up to 69, beyond a word |
| `firmware` | Files in order, scripts end | two banks, two attempts, two versions, two scripts one after the other |

Deadlock is checked in every run but `asm_relax`, where the assembler ends,
`firmware`, where the user has run his scripts, and `gdb_served`, where the
connection is closed. A closed GDB session and a halted calculator stutter by an
action of their own.

Each property of a passing run is validated by a mutant, an altered definition
that stands beside the original in the module (`TickStrict`, `AdcsFlagsShort`,
`StoredArmed`, `PushLate`, `BlockWriteBehind`, `ReasonStuck`, ...): with it TLC
finds the property violated.

### Fairness

* `core_flow`: weak fairness of `Step`. `AlarmFires` is about a driver that
  keeps stepping (`run`, `run_n`, Continue); it says nothing of one that stops.
  `Awaiting` must hold for ever for a violation, so a program that masks the
  timer, rewrites it or faults for ever refutes nothing.
* `uart_flow`: weak fairness of the instructions, for the same reason, and of
  the poll, which re-arms itself every 80 ms. Nothing is assumed of host,
  debugger, terminal or clears.
* `gui_run`: weak fairness of each thread within a run, which the operating
  system gives, and strong fairness of `PollQueue`: the event loop re-arms it
  every 100 ms and serves it between handlers, however many the user triggers.
* `calculator`: weak fairness of `Program`, the blocks that need no character;
  the host may fall silent.
* `firmware`: weak fairness of `Works`, the script that runs. Its operations may
  fail as often as they like, and nothing is assumed of the FPGA tool.
* `gdb_served`: weak fairness of `Server`: it reads when there is something to
  read.

## 4. Theorems

`E32cCoreProofs` proves, for all values of the constants that satisfy
`CoreAssumption` and the assumptions of `CycleTimer`:

* `TypeCorrect`, `ExpiryLatched` (`NoMissedExpiry`), `DeliveryIsPrompt`
  (`NoDeliverableLeft`), and
* `InterruptsTransparent`: `Spec => ContextsPreserved`, the refinement.

The inductive invariant is
`TypeOK /\ Latched /\ NoDeliverableLeft /\ WatchedTimerStands`. These are almost
inductive by themselves, because `Retire` establishes them from any state: a tick
latches what it reaches, and a delivery clears `Open`; a GDB client suspends them
until then (`meddled`). `NoMissedExpiry` adds the action property `Met` to
`Latched`: a threshold ahead of the counter that leaves `MaxCost` below the top is
still ahead after a step, or latched. It follows from the types alone, a lemma for
each action: with that room no tick can wrap the counter past the threshold.
The exception is a Runner with watchpoints, where no step ticks: there the
invariant holds because the timer has never advanced nor latched
(`WatchedTimerStands`), which stores to its registers keep. The lemmas on
`CycleTimer` (what a tick does to the counter and the latch, what each register
write keeps) are proved first and cited by the step of each action. The refinement
needs the invariant for the type of the mapped program counters only.

`AluProofs` proves `AluTypes` (`TypeOK`), `ChainsComputeAlways`
(`ChainsCompute`) and `ConditionsDecideAlways` (`ConditionsDecide`) for words of
any even range, any registers and immediates, and chains of any length. The
inductive invariant `ChainInv` adds to `ChainsCompute` that the numbers of a
chain are below its scale, that the scale is even, and that Z is that of the
result as long as `whole` holds. A step that extends a chain is the argument
behind multi-word arithmetic: a word above a number below s decides comparisons
with multiples of s (`Carried`), hence the sign of the longer number
(`WordAbove`, `SignedAbove`) and whether it fits (`FitsAbove`); the carry
equation of one word times s, plus the equation of the words below, is the
equation of the longer chain. `ConditionsDecide` follows by linear arithmetic.
`BitsAssumption`, that the numbers of `Width` bits are words, is what HalfRange
= 2^(Width - 1) means; deriving it would need induction over the bits, so it is
an assumption on the constants, which TLC evaluates in `alu_chain` and
`calculator`. Only the type of the bitwise results rests on it.

`LoadStoreProofs` proves `TypeCorrect`, `MonitorSound` (`MonitorGuardsWord`) and
`FaultsConfined` (`FaultsAreConfined`) for every set of lanes, bytes, words of
memory and registers, and every addition. `MonitorSound` follows from `Stored`
and `Strexed` disarming in all cases in which they write; `FaultsConfined` from
one lemma per operator that says what it leaves alone when it faults.

The same module proves `CodeTypes` (`CodeTypeOK`), `RegistersKept`
(`RegistersTransparent`) and `CodeRefines` (`CodeSpec => CodeIsAtomic`: every
behaviour of `PreemptedCode` is one of `AtomicCode`) for any memory and words and a
stack of any depth. `CodeAssumption` and `StackAssumption` are what the layout of a
program must give: the registers are different, the places of the stack are
different words, none of them the counter, and the arithmetic moves between
neighbours. The inductive invariant `CodeInv` goes through the handler instruction
by instruction (`Saving`, `Counting`, `Restoring`): which registers it has changed
and in which words the values of the main program lie. What makes counting right is
`Reserved`: a reservation that would still hold means that the count the main
program has read is the count in memory, and once the handler has written anything,
it does not hold. It can be proved because each store of `LoadStoreOps`
disarms the monitor. In the refinement a push is the step that writes its word, a
pop the one that reads it, and an increment the STREX, which succeeds or not; the
handler shows its store of the counter alone, as its saves lie above the words of
the main program.

`AluProofs` also proves the firmware of the calculator: `CalcTypes` (`CalcTypeOK`),
`LinesCleanAlways` (`LinesStartClean`) and `AnswersRightAlways` (`AnswersRight`),
for any base, number of places and width that `PowerAssumption` admits, whatever is
typed. None of the three is inductive, and each invariant builds on the one before.

* `TypeInv`, the types with `LineOK`, `InStep` and `PlaceOK`: the program
  reads what the reference reads, exactly as long as both numbers are words; beyond,
  it can only be in the blocks that read numbers or in the one that answers `?`.
  That a newline finds the registers cleared is part of it.
* `AnswerInv` adds what is due while the program computes (`Computing`) and while it
  prints (`Printing`). The invariant of the print loop is `Split` and `Led`: with p
  the place it stands at, the number printed is its digits above p, times the power
  above p, plus the digit counted so far at p, plus what is left; and the
  characters sent are all its digits above p. A difference that runs below zero is
  told by the sign flag, rightly for the numbers that are printed (`Fitting`),
  some of which do have the sign bit set.

That a number has a number of places at all (`Places` chooses one) is an induction,
and made by contradiction: `LeastNumber`, that a set of numbers that is not empty
has a least one, follows from the theorems on well-founded relations that take no
operator. `PowerAssumption` states the powers of the base as far as they
are used, since exponentiation is unknown to the provers.

`UartProofs` proves `UartTypes` (`TypeOK`), `SentAsWrittenAlways`,
`ReceivedAsFedAlways` and `StatusStaysTrueAlways` for FIFOs of any depth and any
alphabet. The conjunction is inductive. Without a debugger the TX FIFO is empty
between instructions, since the tick at the end of each sends the byte stored in it,
so that every byte finds room; with one, what has been sent and what waits are
still the accepted bytes in order. The rest are lemmas on what appending to and
taking from a bounded queue do; `ReceivedAsFed` is stated over the concatenation of
what was taken and what waits.

`SdStorageProofs` proves `SdTypes` (`TypeOK`), `PromisesKeptAlways` and
`CardShowsImageAlways` for any files, sector contents, cards and images. The
properties are not inductive: a flush is harmless only because the sector that a
failed write has left behind is no longer promised (`BehindFree`), the end of a
process cannot touch a file in SPI mode only because the block device then has none,
and a data write hits the sector named if its number is one of the card (`ChosenOK`),
and another one, which is then excepted, if not. A save keeps its promise because the
card shows its image (`CardShowsImage`). A step is one lemma; each lemma changes one file (`OneFile`) or none.

`GdbStubProofs` proves `SessionTypes` (`TypeOK`), `StopsToldAlways`
(`StopsAreTold`) and `BeliefsHoldAlways` (`BeliefsHold`) for every word size,
memory, set of breakpoints and cost, and any ranges and writes. `SessionInv` adds
to `StopsAreTold` what a continue remembers while it is under way: it has failed
nowhere, has crossed no breakpoint, and remembers the HALT it may have executed. `BeliefInv` adds to
`BeliefsHold` that the client follows a register or a byte, and that it believes
nothing while the program runs. The lemmas on the operators of the memory carry it:
a write that is told to be done, of whole words or merged byte by byte, leaves in
each of its bytes what was sent and all others alone; and of a register number the client may keep no more than the register holds.

`DebuggerGuiProofs` proves `GuiTypes` (`TypeOK`), `FlagHonest`, `StepsWhole`,
`CyclesExact` and `ResetStays` for any address space, length of run and bound on the
steps, whatever the user does while a worker runs. The invariant `GuiInv` adds to the
properties that threads which run at once have met, by a step or an image of the
event loop (`Together`); that a worker that runs has reported nothing (`Reported`);
that an opening nobody meets finds the processor as it has left it (`Opened`); that
a thread about to store the count has seen the last one, or no more than was retired
if it had company (`Counted`); and that the steps that remain are within the bound
(`Room`). `StageInv` reduces every step of a thread to its new stage; the handlers that
do not look at the flag are one lemma (`BesideInv`).

`HostToolsProofs` proves, of the scripts, `DoneInOrderAlways` (`DoneInOrder`) for any number of
lanes, attempts and runs. What makes a prefix of the work stay done is a property of
the lists of operations, `Ordered`: each file is the target of one operation, and no
operation writes a file that an earlier one has copied. It is proved of the three
scripts first (`GeneratesSound` and the like), then each step moves the place by
one.

Of the assembler the same module proves, for every program, reach, half word, origin
and number of passes that `RelaxationAssumption` admits (the half word is a multiple of
the values of the short field, as 2^16 is of 2^11):

* `AsmTypes` (`AsmTypeOK`) and `CountedAlways` (`CountedAsEmitted`).
* `JumpsLandAlways` (`JumpsLand`): encoding, emission, decoding and execution together.
* `StableSettles`: if the last pass has moved no label, and each is defined once, every
  branch has its room. The loop at `driver.py:224` need only compare the labels of two
  passes to be safe.
* `InReachLands`: a program whose branches all reach their labels as single words
  (`InReach`, which speaks of the estimate alone) has settled after any number of
  passes, in the places of the estimate, with every branch short, and all its branches
  land. This is the usual program, and why the missing test is seldom missed.

`Estimate` and `Sweep` are recursive functions on the lines of a program, and that such
functions exist must be proved: `EstimateScans` and `SweepScans` do it for the prefixes
of a program one by one. Their inductions, over the natural numbers up to a bound, are
made by contradiction, from the least number where the claim fails (`LeastNumber`,
`Upward`). The inductive invariant `AsmInv` says that after any pass labels and places
are those of one `Sweep` over `seen`, and that the image is `Emitted`.

`CountedAlways` needs that a label behind a branch is known to the pass when it comes to
the branch and not redefined later, and one ahead is not yet known: then `Seen` is the
label emission uses. For `JumpsLandAlways` the lines of a settled, straight program follow each
other (`LinesFollow`), so no two lines share a word and the image has at the address of
each word of a line just that word (`ImageWord`). Then a short branch arrives because
eleven bits, encoded and extended again, give back every offset in reach modulo 2^32
(`ShortArrives`), and a long jump because the two parts of a half word below its middle
do (`NearLoaded`); `ShortLands` and `LongLands` run the processor over them.
`InReachInv` is kept by a pass because, with one word for each branch, a sweep over the
estimated labels is the estimate again.

Only model-checked: the liveness properties (`AlarmFires`, `FifoDrains`,
`RunEnds`, `AnswerComes`, `ScriptEnds`), as liveness under fairness is beyond the
prover. Of the assembler nothing is claimed about how many passes a program out of
reach needs: there are programs for which no number is enough (section 5).

## 5. Where code and documents part

With a run that shows it:

* `src/cli/gdb/stub.py:222`: `serve` hands `stream.read` to
  `read_packet_from_stream`, which takes it for a read of one byte. Called without
  a size it reads to the end of the stream, so no packet is answered while the
  client is connected (`gdb_served`; src/cli/gdb/rsp.py:32).

Modelled as the code does, and noted here only.

Processor and instructions:

* `src/core/runner.py:82`: with watchpoints the memory is a wrapper, so neither
  UART nor timer ticks (docs/core-full/04-python-reference.md:37); the constant
  `Watched` models it.
* `src/core/execute.py:323`: SUBI, and so PUSH, sets Z, so a handler that saves
  what it can still changes Z of the program it interrupts (docs/isa/spec.md:62).
* docs/isa/spec.md:178 calls the timer line a level; `timer.py:74` withholds a
  latched interrupt while the period is zero.
* docs/isa/spec.md:156 has HALT stop on itself; `runner.py:82` may deliver an
  interrupt at the end of its step, so pc moves to the handler.
* docs/mmio.md:86 and docs/tutorial/10-peripherals-mmio.md:49 promise the interrupt
  whenever `counter >= period`; `timer.py:73` adds the cost of an instruction modulo
  2^32 before it compares, so the counter jumps over a period of 2^32 - 2 or
  2^32 - 1, and over one that is lowered by the store in whose step it wraps. The
  interrupt comes a whole round later, or never. `NoMissedExpiry` and `AlarmFires`
  leave these periods out.
* `registers.py:48` and `:54`: a GDB client that writes the flags or IRQ_MASK, or the
  registers of the timer (`stub.py:154`), opens a delivery that waits for the end of
  the next completed step, where docs/isa/spec.md:178 has the line a level.
* `execute.py:380` (and `:351` for loads): LDRPRE and STRPRE have moved their base
  when their access faults, so executing them again moves it twice.
* docs/mmio.md:80 has PERIOD_LO as the low half; `timer.py:56` ORs the stored
  word into the old high half.
* docs/isa/spec.md:173 has special registers 6 to 31 read zero; `state.py:95`
  keeps what was written.
* docs/isa/spec.md:193 has STRPRE move its base once; with an empty mask
  `execute.py:388` moves it again.
* docs/core-full/01-architecture.md:117 has any LDR disarm the monitor;
  `execute.py:344` does not. Writes of a debugger leave it armed
  (`debug_controller.py:350`).

UART window, graphical debugger, assembler:

* `src/cli/uart_terminal.py:78`: the window polls a FIFO that each step empties,
  and shows nothing a program sends.
* `src/cli/debug_gui/actions_mixin.py:240` and `:248`: an image can be opened
  while a run is on, and the worker then steps in the middle of the reset and may overwrite the
  reset pc; R31 can be edited then, too (`:127`). Reset is refused during
  a run (`:418`).
* `:286` and `:67`: Step and Auto step the processor beside a worker, in the middle
  of its instruction. `cycles.py:41` reads and writes without a lock, so the total
  misses cycles, and an image opened at that moment can set it back to its old value
  ("Monotonic cycle count", `cycles.py:29`).
* `src/core/asm/long_branch.py:56`: the long form of a conditional branch is
  always taken (docs/tutorial/08-assembler-and-images.md:45).
* docs/tutorial/08-assembler-and-images.md:45 has the long form load the address
  of any label; `long_branch.py:22` lets ADDI extend the sign of 0x8000 to 0xFFFF,
  and from 0x10000 on it shifts the low half up, adds the high half below it, and
  overwrites R2.
* `driver.py:224`: sixteen passes need not settle, and emission then writes over the
  next line. With B for `BNE`, J for `JMP`, numbers for `.word` lines, the program
  `B2 B2 J2 B2 B2 B2 B2 B0 L3: J1 B1 21 B0 J0 221 L2: 8 L1: 26 L0:` at 0 has the second
  J0 (at 208) counted as one word and emitted as two. `BNE x`, `y: BNE z`, `.skip 1020`,
  `z: BNE y`, `x:` at 64480 settles in no number of passes, since x swings around
  0x10000; the first branch is counted as three words and emitted as six.
* `driver.py:349`: the words are read at the origin and every four bytes on, so those
  emitted beside, after a `.skip 6` for instance, are lost.

SD devices:

* `sd_spi.py:119`: SPI writes reach the file at unmount only, and neither the
  command line nor the debugger unmounts at exit. `:128`: the save cuts or extends
  the image to sixteen sectors.
* `sd_spi.py:89`: a mount of an absent path keeps the card of the image before.
  `sd_card.py:87`: a failed mount leaves the device unmounted.
* `sd_card.py:154`: the OSError of a seek is not caught and faults the
  instruction.
* `sd_spi.py:132`: data writes look at neither READY nor ERROR and wrap the sector
  at sixteen, with `:226` to any sector without a command; `:218`: a command to a disabled device leaves the old STATUS.

GDB stub:

* `stub.py:143`, `:167`: memory packets on device registers are merged byte by
  byte, each with its own reads, so an unaligned one takes or sends several bytes
  of the UART. `ReceivedAsFed` therefore speaks of a machine without a debugger.
* `stub.py:160`: a write that runs off the memory has written a part.
  `:191`: a continue at a breakpoint makes no progress, and none can be interrupted.
  `:52`: hexadecimal data of odd length ends the process.
* `rsp.py:61`: a bad checksum ends the session without a NACK; the checksum is
  compared over the payload with its escapes removed.

Calculator:

* `uart_calculator.py:248`: from 2^31 + 10^9 on the digits are wrong, since a number
  less 10^9 still has the sign bit set; `:202`: a sum
  wraps; `:205`: a difference of 2^31 or more is answered with `?`, and one below
  -2^31 with a number; `:116`: the last digit of a number may wrap it.
* `:290`: after a `?` in the middle of a line the rest of it is read as a new
  expression.

Firmware scripts:

* `gen_firmware_hex.py:137`: with the defaults, `--words 1024` and
  `--if-rom-words 512`, the padded image never fits the instruction ROM, and the
  script ends after six files have been written
  (docs/tutorial/08-assembler-and-images.md:41 gives this command).
* `:121`: a lock that outlasts the attempts leaves banks of the new firmware beside
  the old ROM. The baseline is copied in place (`build_tn9k_firmware.py:147`), so a
  kill can leave a file cut off.

## 6. Not modelled

* Display, formatting, argument parsing, the REPL, the disassembler, the trace
  records and the expression, macro and preprocessor passes of the assembler:
  they turn text into text and keep no state that others depend on.
* Memory search, snapshots and watch lists of the debug controller, performance
  figures and the memory view of the graphical debugger: reads and dumps.
* Decoding of the instructions other than those `BranchRelaxation` decodes, and
  the encoding of those it does not emit: one table in both directions, better
  compared by exhaustive tests.
* The bit level of SPI, the response word, the word granularity of the data
  registers, and the interrupt enable of the SD devices.
* Generators of constants, RTL, vendor projects and the other examples: not this
  program, or no state.

Next in this development: proofs for the long forms of conditional branches and the far addresses, once the code handles them as documented; snapshots of the debug controller
as a save and restore of the state of `E32cCore`.
