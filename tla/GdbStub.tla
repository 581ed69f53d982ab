------------------------------ MODULE GdbStub -------------------------------
(***************************************************************************)
(* A remote debugging session: GdbStub.handle_packet (cli/gdb/stub.py) on  *)
(* the registers, the RAM and the Runner of a DebugController, one packet  *)
(* at a time.  The debugged program is unknown.  A continue is a loop of   *)
(* steps, one action each.                                                 *)
(*                                                                         *)
(* The client keeps what it has been told, as a debugger caches registers  *)
(* and memory between two stops.  One item, any of them, is followed: item *)
(* and belief are that part of its cache, and nothing else looks at them.  *)
(***************************************************************************)
EXTENDS Integers, Sequences

CONSTANTS
  WordMod,    \* words are 0 .. WordMod - 1 (2^32)
  WordBytes,  \* bytes of a word (4)
  RamWords,   \* words of the RAM
  Byte,       \* what a byte may be
  ZeroByte,   \* the byte reported where there is no memory
  BreakAddrs, \* addresses the client sets breakpoints at
  Sent,       \* numbers the client writes to registers, some of more than 32 bits
  Ranges,     \* pairs <<address, bytes>> of memory the client asks for
  Writes      \* pairs <<address, sequence of bytes>> the client writes

ASSUME SessionAssumption ==
  /\ WordMod \in Nat \ {0}
  /\ WordBytes \in Nat \ {0}
  /\ RamWords \in Nat \ {0}
  /\ ZeroByte \in Byte
  /\ BreakAddrs \subseteq 0 .. WordMod - 1
  /\ Sent \subseteq Nat
  /\ Ranges \subseteq Nat \X Nat
  /\ Writes \subseteq Nat \X Seq(Byte)

VARIABLES
  regs,    \* the registers of CPUState behind the numbers of the protocol
  halted,
  ram,     \* _data of the Memory, byte by byte
  breaks,  \* break_pcs of the Runner
  mode,    \* "open": waits for a packet, "running": in _continue, or "closed"
  reason,  \* _stop_reason
  resumed, \* history: what has happened since the last s or c
  item,    \* history: the register number or the address the client follows
  belief   \* history: what it takes the item for, or Unknown

machine == <<regs, halted, ram, breaks>>
client == <<item, belief>>
vars == <<machine, mode, reason, resumed, client>>

Word == 0 .. WordMod - 1
RamWord == 0 .. RamWords - 1
RamByte == 0 .. RamWords * WordBytes - 1
Unknown == -1

\* Register 1 stands for 1 to 30, 33 for the flags and the special registers, 33
\* to 36, and 37 for the numbers above.  31 and 32 are the program counter, 0 is
\* no register.
Slots == {"r1", "pc", "flags"}
Slot == [n \in {1, 31, 32, 33} |->
           CASE n = 1 -> "r1" [] n \in {31, 32} -> "pc" [] n = 33 -> "flags"]
Numbers == DOMAIN Slot \union {0, 37}

\* reg_to_bytes
RegAt(n) == IF n \in DOMAIN Slot THEN regs[Slot[n]] ELSE 0

\* An altered bytes_to_reg, against which TypeOK is validated: it takes all the
\* bytes of the packet.
WrittenWhole(file, n, v) ==
  IF n \in DOMAIN Slot THEN [file EXCEPT ![Slot[n]] = v] ELSE file

\* bytes_to_reg: the low 32 bits, alignment is not looked at.
Written(file, n, v) ==
  IF n \in DOMAIN Slot THEN [file EXCEPT ![Slot[n]] = v % WordMod] ELSE file

\* write_all_g_packet, in the order of the numbers: of the two of pc the later wins.
WrittenAll(v) ==
  Written(Written(Written(Written(regs, 1, v[1]), 31, v[31]), 32, v[32]), 33, v[33])

\* _read_mem_hex, a byte: what is not there reads as zero.
ByteAt(a) == IF a \in RamByte THEN ram[a] ELSE ZeroByte

\* An altered _write_mem, against which BeliefsHold is validated: it takes every
\* write for one of whole words and fills the last one up.
StoredWords(addr, data) ==
  LET last == (addr + Len(data) - 1) \div WordBytes
  IN  [ram |-> [a \in RamByte |->
                 LET i == a - addr + 1
                 IN  IF a \div WordBytes \notin addr \div WordBytes .. last THEN ram[a]
                     ELSE IF i \in 1 .. Len(data) THEN data[i] ELSE ZeroByte],
       ok  |-> last \in RamWord]

\* _write_mem: whole words when the address and the length allow it, else a read,
\* a change of one byte and a write for every byte.  It stops at the first word
\* that is not there; what has been written stays.  The bytes of a word are there
\* together: either way the bytes up to the first that is not are written.
Reached(addr, i) == \A j \in 1 .. i : addr + j - 1 \in RamByte
Stored(addr, data) ==
  [ram |-> [a \in RamByte |->
             LET i == a - addr + 1
             IN  IF i \in 1 .. Len(data) /\ Reached(addr, i) THEN data[i] ELSE ram[a]],
   ok  |-> Reached(addr, Len(data))]

Fresh ==
  [by |-> "none", ran |-> 0, failed |-> FALSE, crossed |-> FALSE, at |-> "elsewhere"]

Init ==
  /\ regs = [s \in Slots |-> 0]
  /\ halted = FALSE
  /\ ram \in [RamByte -> Byte]
  /\ breaks = {}
  /\ mode = "open"
  /\ reason = "S05"
  /\ resumed = Fresh
  /\ item \in ({"register"} \X Numbers)
              \union ({"byte"} \X (0 .. WordBytes * (RamWords + 1) - 1))
  /\ belief = Unknown

-----------------------------------------------------------------------------
(* What the client makes of the replies, having read docs/gdb/README.md: R0  *)
(* is always 0, and register 32 is a copy of r31.                            *)

Told(n, v) ==
  IF item[1] = "register" /\ (item[2] = n \/ {item[2], n} = {31, 32})
  THEN IF n = 0 THEN 0 ELSE IF n = 37 THEN Unknown ELSE v
  ELSE belief

\* The registers of a G packet; two values for one program counter tell nothing.
ToldAll(v) ==
  IF item[1] = "register" /\ item[2] # 37
  THEN IF item[2] \in {31, 32} /\ v[31] # v[32] THEN Unknown ELSE Told(item[2], v[item[2]])
  ELSE belief

Covers(addr, n) == item[1] = "byte" /\ item[2] \in addr .. addr + n - 1

-----------------------------------------------------------------------------
(* Packets that do not run the program. *)

Handled == mode = "open" /\ UNCHANGED <<mode, reason, resumed, item>>

\* ?, whose reply is reason, the queries, and what is not understood or is a
\* breakpoint of another kind than Z1.
Answer == Handled /\ UNCHANGED <<machine, belief>>

\* g, and p for one register.
ReadRegisters ==
  /\ Handled
  /\ belief' = IF item[1] = "register" /\ item[2] # 37 THEN RegAt(item[2]) ELSE belief
  /\ UNCHANGED machine

ReadRegister(n) ==
  /\ Handled
  /\ belief' = IF item = <<"register", n>> THEN RegAt(n) ELSE belief
  /\ UNCHANGED machine

WriteRegisters(v) ==
  /\ Handled
  /\ regs' = WrittenAll(v)
  /\ belief' = ToldAll(v)
  /\ UNCHANGED <<halted, ram, breaks>>

WriteRegister(n, v) ==
  /\ Handled
  /\ regs' = Written(regs, n, v)
  /\ belief' = IF v \in Word THEN Told(n, v) ELSE Told(n, Unknown)
  /\ UNCHANGED <<halted, ram, breaks>>

ReadMemory(addr, n) ==
  /\ Handled
  /\ belief' = IF Covers(addr, n) THEN ByteAt(item[2]) ELSE belief
  /\ UNCHANGED machine

WriteMemory(addr, data) ==
  LET stored == Stored(addr, data)
  IN  /\ Handled  \* the reply is OK, or E03 when not stored.ok
      /\ ram' = stored.ram
      /\ belief' = IF ~Covers(addr, Len(data)) THEN belief
                   ELSE IF stored.ok THEN data[item[2] - addr + 1] ELSE Unknown
      /\ UNCHANGED <<regs, halted, breaks>>

SetBreak(a) ==
  /\ Handled
  /\ breaks' = breaks \union {a}
  /\ UNCHANGED <<regs, halted, ram, belief>>

ClearBreak(a) ==
  /\ Handled
  /\ breaks' = breaks \ {a}
  /\ UNCHANGED <<regs, halted, ram, belief>>

\* k, the end of the stream, a packet with a wrong checksum (read_packet_from_-
\* stream returns None and serve ends), hexadecimal data of odd length (an
\* exception ends the process).
Close ==
  /\ mode = "open"
  /\ mode' = "closed"
  /\ UNCHANGED <<machine, reason, resumed, client>>

-----------------------------------------------------------------------------
(* s and c. *)

\* An instruction of the unknown program: the registers and a word of the RAM
\* may change, or it is a HALT.
Execute ==
  \/ /\ \E pc, r1 \in Word : regs' = [regs EXCEPT !["pc"] = pc, !["r1"] = r1]
     /\ \/ UNCHANGED ram
        \/ \E w \in RamWord, x \in Byte :
             ram' = [a \in RamByte |-> IF a \div WordBytes = w THEN x ELSE ram[a]]
     /\ UNCHANGED halted
  \/ halted' = TRUE /\ UNCHANGED <<regs, ram>>

\* DebugController.step and _set_stop_from_result, its result being kind.
Step(kind) ==
  /\ UNCHANGED breaks
  /\ CASE kind = "breakpoint" -> /\ regs["pc"] \in breaks
                                 /\ UNCHANGED <<regs, halted, ram>>
       [] kind = "error" -> /\ regs["pc"] \notin breaks
                            /\ \/ UNCHANGED regs
                               \* LDRPRE, STRPRE: the base is written first
                               \/ \E s \in {"pc", "r1"}, v \in Word :
                                    regs' = [regs EXCEPT ![s] = v]
                            /\ UNCHANGED <<halted, ram>>
       [] kind = "ok" -> regs["pc"] \notin breaks /\ Execute

Results == {"ok", "error", "breakpoint"}
After(history, kind) ==
  [history EXCEPT !.ran = IF kind = "ok" /\ history.by = "s" THEN @ + 1 ELSE @,
                  !.failed = kind = "error",
                  !.crossed = @ \/ (kind = "ok" /\ regs["pc"] \in breaks),
                  !.at = CASE halted' -> "halt"
                           [] ~halted' /\ regs'["pc"] \in breaks -> "breakpoint"
                           [] OTHER -> "elsewhere"]

\* An altered reason, against which StopsAreTold is validated: an error stays
\* the reason of later stops.
ReasonStuck(kind) == IF kind = "error" THEN "S06" ELSE reason
ReasonOf(kind) == IF kind = "error" THEN "S06" ELSE "S05"

\* The reply is the reason.
Stop(why) == mode' = "open" /\ reason' = why

\* Both packets on a halted processor.
ResumeHalted(by) ==
  /\ mode = "open"
  /\ halted
  /\ Stop("S05")
  /\ resumed' = [Fresh EXCEPT !.by = by, !.at = "halt"]
  /\ belief' = Unknown
  /\ UNCHANGED <<machine, item>>

StepOnce ==
  /\ mode = "open"
  /\ ~halted
  /\ \E kind \in Results :
       /\ Step(kind)
       /\ Stop(ReasonOf(kind))
       /\ resumed' = After([Fresh EXCEPT !.by = "s"], kind)
  /\ belief' = Unknown
  /\ UNCHANGED item

Continue ==
  /\ mode = "open"
  /\ ~halted
  /\ mode' = "running"
  /\ resumed' = [Fresh EXCEPT !.by = "c"]
  /\ belief' = Unknown
  /\ UNCHANGED <<machine, reason, item>>

\* A turn of the loop of _continue.
Turn ==
  /\ mode = "running"
  /\ ~halted
  /\ \E kind \in Results :
       /\ Step(kind)
       /\ resumed' = After(resumed, kind)
       /\ IF kind = "ok" THEN UNCHANGED <<mode, reason>> ELSE Stop(ReasonOf(kind))
  /\ UNCHANGED client

LoopEnds ==
  /\ mode = "running"
  /\ halted
  /\ Stop("S05")
  /\ UNCHANGED <<machine, resumed, client>>

-----------------------------------------------------------------------------
Closed == mode = "closed" /\ UNCHANGED vars

Next ==
  \/ Answer \/ ReadRegisters \/ Close \/ Closed
  \/ \E n \in Numbers : ReadRegister(n) \/ \E v \in Sent : WriteRegister(n, v)
  \/ \E v1, v31, v32 \in Sent \intersect Word :
       WriteRegisters([n \in Numbers |->
         CASE n = 31 -> v31 [] n = 32 -> v32 [] OTHER -> v1])
  \/ \E r \in Ranges : ReadMemory(r[1], r[2])
  \/ \E w \in Writes : WriteMemory(w[1], w[2])
  \/ \E a \in BreakAddrs : SetBreak(a) \/ ClearBreak(a)
  \/ \E by \in {"s", "c"} : ResumeHalted(by)
  \/ StepOnce \/ Continue \/ Turn \/ LoopEnds

Spec == Init /\ [][Next]_vars

-----------------------------------------------------------------------------
(* Properties. *)

TypeOK ==
  /\ regs \in [Slots -> Word]
  /\ halted \in BOOLEAN
  /\ ram \in [RamByte -> Byte]
  /\ breaks \subseteq BreakAddrs
  /\ mode \in {"open", "running", "closed"}
  /\ reason \in {"S05", "S06"}

\* Between two stops what the client has read, or has written with the reply OK,
\* is what the machine holds: registers under all their numbers, memory byte by
\* byte, and beside a write that failed half way.
BeliefsHold ==
  mode = "open" /\ belief # Unknown =>
    belief = IF item[1] = "register" THEN RegAt(item[2]) ELSE ByteAt(item[2])

\* The reply to s and c is true of the machine: S06 says that the last instruction
\* failed; otherwise s has executed exactly one, or none when the processor is
\* halted or at a breakpoint, and c stands on a HALT or at a breakpoint.  No
\* instruction at a breakpoint is ever executed, even as the first one.
StopsAreTold ==
  /\ ~resumed.crossed
  /\ mode = "open" /\ resumed.by # "none" =>
       /\ reason = "S06" <=> resumed.failed
       /\ \/ resumed.failed
          \/ resumed.by = "s" /\ resumed.ran = 1
          \/ resumed.by = "s" /\ resumed.ran = 0 /\ resumed.at # "elsewhere"
          \/ resumed.by = "c" /\ resumed.at # "elsewhere"
=============================================================================
