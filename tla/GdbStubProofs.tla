--------------------------- MODULE GdbStubProofs ----------------------------
(***************************************************************************)
(* What the stub answers to s and c is true, and what a client has read or *)
(* written is so until the next stop, whatever the program does and for    *)
(* every word size, memory and set of breakpoints, ranges and writes.      *)
(***************************************************************************)
EXTENDS GdbStub, TLAPS

Resumed ==
  [by : {"none", "s", "c"}, ran : Nat, failed : BOOLEAN, crossed : BOOLEAN,
   at : {"halt", "breakpoint", "elsewhere"}]

\* A continue under way has failed nowhere, and when its last instruction was a
\* HALT the history says so: the reply is yet to come.
SessionInv ==
  /\ resumed \in Resumed
  /\ StopsAreTold
  /\ mode = "running" => /\ resumed.by = "c"
                         /\ ~resumed.failed
                         /\ halted => resumed.at = "halt"

-----------------------------------------------------------------------------
LEMMA FreshRun ==
  ASSUME NEW by \in {"none", "s", "c"}
  PROVE  /\ [Fresh EXCEPT !.by = by] \in Resumed
         /\ [Fresh EXCEPT !.by = by].by = by
         /\ [Fresh EXCEPT !.by = by].ran = 0
         /\ ~[Fresh EXCEPT !.by = by].failed
         /\ ~[Fresh EXCEPT !.by = by].crossed
BY DEF Fresh, Resumed

LEMMA InitInv ==
  ASSUME Init
  PROVE  SessionInv
BY DEF Init, Fresh, Resumed, SessionInv, StopsAreTold

\* A step adds to the history what has happened: an error, a stop in front of a
\* breakpoint, or an instruction that was not at one.
LEMMA StepHistory ==
  ASSUME NEW h \in Resumed, ~h.crossed, NEW kind \in Results, ~halted, Step(kind),
         NEW n, n = After(h, kind)
  PROVE  /\ n \in Resumed
         /\ n.by = h.by
         /\ ~n.crossed
         /\ n.failed <=> kind = "error"
         /\ n.ran = IF kind = "ok" /\ h.by = "s" THEN h.ran + 1 ELSE h.ran
         /\ halted' => n.at = "halt"
         /\ kind = "breakpoint" => n.at = "breakpoint"
<1> DEFINE at == CASE halted' -> "halt"
                   [] ~halted' /\ regs'["pc"] \in breaks -> "breakpoint"
                   [] OTHER -> "elsewhere"
           ran == IF kind = "ok" /\ h.by = "s" THEN h.ran + 1 ELSE h.ran
           crossed == h.crossed \/ (kind = "ok" /\ regs["pc"] \in breaks)
           failed == kind = "error"
<1>1. at \in {"halt", "breakpoint", "elsewhere"} /\ (halted' => at = "halt")
  OBVIOUS
<1>2. kind = "ok" => regs["pc"] \notin breaks
  BY DEF Step
<1>3. crossed = FALSE
  BY <1>2 DEF Resumed
<1>4. kind = "breakpoint" => at = "breakpoint"
  BY DEF Step
<1>5. ran \in Nat
  BY DEF Resumed
<1>6. n = [h EXCEPT !.ran = ran, !.failed = failed,
                    !.crossed = crossed, !.at = at]
  BY DEF After
<1>7. failed \in BOOLEAN /\ crossed \in BOOLEAN /\ h.by \in {"none", "s", "c"}
  BY <1>3 DEF Resumed
<1>8. failed <=> kind = "error"
  OBVIOUS
<1> HIDE DEF at, ran, crossed, failed
<1>9. n = [by |-> h.by, ran |-> ran, failed |-> failed,
           crossed |-> crossed, at |-> at]
  BY <1>6 DEF Resumed
<1>10. n \in Resumed
  BY <1>1, <1>7, <1>5, <1>9 DEF Resumed
<1>11. /\ n.by = h.by /\ n.ran = ran /\ n.failed = failed /\ n.crossed = crossed
      /\ n.at = at
  BY <1>9
<1> QED BY <1>1, <1>3, <1>4, <1>8, <1>10, <1>11 DEF ran

\* The packets that do not run the program leave the history alone.
LEMMA HandledStep ==
  ASSUME SessionInv, UNCHANGED <<mode, reason, resumed>>, mode = "open"
  PROVE  SessionInv'
BY DEF SessionInv, StopsAreTold

LEMMA CloseStep ==
  ASSUME SessionInv, Close
  PROVE  SessionInv'
BY DEF Close, SessionInv, StopsAreTold

LEMMA ResumeHaltedStep ==
  ASSUME SessionInv, NEW by \in {"s", "c"}, ResumeHalted(by)
  PROVE  SessionInv'
<1>1. /\ resumed' \in Resumed /\ resumed'.by = by /\ resumed'.ran = 0
      /\ ~resumed'.failed /\ ~resumed'.crossed /\ resumed'.at = "halt"
  BY DEF ResumeHalted, Fresh, Resumed
<1>2. mode' = "open" /\ reason' = "S05"
  BY DEF ResumeHalted, Stop
<1> QED BY <1>1, <1>2 DEF SessionInv, StopsAreTold

LEMMA StepOnceStep ==
  ASSUME SessionInv, StepOnce
  PROVE  SessionInv'
<1>1. PICK kind \in Results :
        /\ Step(kind)
        /\ Stop(ReasonOf(kind))
        /\ resumed' = After([Fresh EXCEPT !.by = "s"], kind)
  BY DEF StepOnce
<1> DEFINE h == [Fresh EXCEPT !.by = "s"]
<1>2. /\ h \in Resumed /\ h.by = "s" /\ h.ran = 0 /\ ~h.crossed
  BY FreshRun
<1>3. ~halted /\ resumed' = After(h, kind)
  BY <1>1 DEF StepOnce
<1> HIDE DEF h
<1>4. /\ resumed' \in Resumed /\ resumed'.by = "s" /\ ~resumed'.crossed
      /\ resumed'.failed <=> kind = "error"
      /\ kind = "ok" => resumed'.ran = 1
      /\ kind # "ok" => resumed'.ran = 0
      /\ kind = "breakpoint" => resumed'.at = "breakpoint"
  BY <1>1, <1>2, <1>3, StepHistory
<1>5. mode' = "open" /\ (reason' = "S06" <=> kind = "error")
  BY <1>1 DEF Stop, ReasonOf
<1> QED BY <1>4, <1>5 DEF SessionInv, StopsAreTold, Results

LEMMA ContinueStep ==
  ASSUME SessionInv, Continue
  PROVE  SessionInv'
<1>1. /\ resumed' \in Resumed /\ resumed'.by = "c"
      /\ ~resumed'.failed /\ ~resumed'.crossed
  BY FreshRun DEF Continue
<1>2. mode' = "running" /\ ~halted'
  BY DEF Continue, machine
<1> QED BY <1>1, <1>2 DEF SessionInv, StopsAreTold

LEMMA TurnStep ==
  ASSUME SessionInv, Turn
  PROVE  SessionInv'
<1>1. PICK kind \in Results :
        /\ Step(kind)
        /\ resumed' = After(resumed, kind)
        /\ IF kind = "ok" THEN UNCHANGED <<mode, reason>> ELSE Stop(ReasonOf(kind))
  BY DEF Turn
<1>2. /\ mode = "running" /\ ~halted /\ resumed \in Resumed
      /\ ~resumed.crossed /\ resumed.by = "c"
  BY DEF Turn, SessionInv, StopsAreTold
<1>3. /\ resumed' \in Resumed /\ resumed'.by = "c" /\ ~resumed'.crossed
      /\ resumed'.failed <=> kind = "error"
      /\ halted' => resumed'.at = "halt"
      /\ kind = "breakpoint" => resumed'.at = "breakpoint"
  BY <1>1, <1>2, StepHistory
<1>4. CASE kind = "ok"
  BY <1>1, <1>2, <1>3, <1>4 DEF SessionInv, StopsAreTold
<1>5. CASE kind # "ok"
  <2>1. mode' = "open" /\ (reason' = "S06" <=> kind = "error")
    BY <1>1, <1>5 DEF Stop, ReasonOf
  <2>2. kind = "error" \/ kind = "breakpoint"
    BY <1>5 DEF Results
  <2> QED BY <1>3, <2>1, <2>2 DEF SessionInv, StopsAreTold
<1> QED BY <1>4, <1>5

LEMMA LoopEndsStep ==
  ASSUME SessionInv, LoopEnds
  PROVE  SessionInv'
BY DEF LoopEnds, Stop, SessionInv, StopsAreTold

LEMMA StepInv ==
  ASSUME SessionInv, [Next]_vars
  PROVE  SessionInv'
<1>1. CASE Answer \/ ReadRegisters
  BY <1>1, HandledStep DEF Answer, ReadRegisters, Handled
<1>2. CASE Close
  BY <1>2, CloseStep
<1>3. CASE Closed \/ UNCHANGED vars
  BY <1>3 DEF Closed, vars, machine, SessionInv, StopsAreTold
<1>4. CASE \E n \in Numbers : ReadRegister(n) \/ \E v \in Sent : WriteRegister(n, v)
  BY <1>4, HandledStep DEF ReadRegister, WriteRegister, Handled
<1>5. CASE \E v1, v31, v32 \in Sent \intersect Word :
             WriteRegisters([n \in Numbers |->
               CASE n = 31 -> v31 [] n = 32 -> v32 [] OTHER -> v1])
  BY <1>5, HandledStep DEF WriteRegisters, Handled
<1>6. CASE \E r \in Ranges : ReadMemory(r[1], r[2])
  BY <1>6, HandledStep DEF ReadMemory, Handled
<1>7. CASE \E w \in Writes : WriteMemory(w[1], w[2])
  BY <1>7, HandledStep DEF WriteMemory, Handled
<1>8. CASE \E a \in BreakAddrs : SetBreak(a) \/ ClearBreak(a)
  BY <1>8, HandledStep DEF SetBreak, ClearBreak, Handled
<1>9. CASE \E by \in {"s", "c"} : ResumeHalted(by)
  BY <1>9, ResumeHaltedStep
<1>10. CASE StepOnce
  BY <1>10, StepOnceStep
<1>11. CASE Continue
  BY <1>11, ContinueStep
<1>12. CASE Turn
  BY <1>12, TurnStep
<1>13. CASE LoopEnds
  BY <1>13, LoopEndsStep
<1> QED BY <1>1, <1>2, <1>3, <1>4, <1>5, <1>6, <1>7, <1>8, <1>9, <1>10, <1>11,
           <1>12, <1>13 DEF Next

-----------------------------------------------------------------------------
\* The reply to s and c is true of the machine, and no instruction at a breakpoint
\* is ever executed (_stop_reason, _continue and _set_stop_from_result).
THEOREM StopsToldAlways == Spec => []StopsAreTold
<1>1. Init => SessionInv
  BY InitInv
<1>2. SessionInv /\ [Next]_vars => SessionInv'
  BY StepInv
<1>3. SessionInv => StopsAreTold
  BY DEF SessionInv
<1> QED BY <1>1, <1>2, <1>3, PTL DEF Spec

-----------------------------------------------------------------------------
(* What the client believes. *)

\* What a client can follow.
Items == {<<"register", n>> : n \in Numbers} \union {<<"byte", a>> : a \in Nat}

\* What the client holds to be so is so, and once the program runs it holds nothing.
BeliefInv ==
  /\ TypeOK
  /\ item \in Items
  /\ mode = "running" => belief = Unknown
  /\ BeliefsHold

\* Numbers cut to a word.
LEMMA WordType ==
  /\ WordMod \in Nat \ {0}
  /\ 0 \in Word
  /\ \A v \in Nat : v % WordMod \in Word
  /\ \A v \in Word : v % WordMod = v /\ v # Unknown
BY SessionAssumption DEF Word, Unknown

\* The registers behind the numbers.
LEMMA SlotAt ==
  /\ DOMAIN Slot = {1, 31, 32, 33}
  /\ Slot[1] = "r1" /\ Slot[31] = "pc" /\ Slot[32] = "pc" /\ Slot[33] = "flags"
BY DEF Slot

\* A register write keeps the register file's type, and takes a word as it is.
LEMMA WrittenType ==
  ASSUME NEW file \in [Slots -> Word], NEW n \in Numbers, NEW v \in Nat
  PROVE  Written(file, n, v) \in [Slots -> Word]
BY WordType, SlotAt DEF Written, Slots

\* The number that each register has.
LEMMA WrittenAt ==
  ASSUME NEW file \in [Slots -> Word], NEW v \in Word
  PROVE  /\ Written(file, 1, v) = [file EXCEPT !["r1"] = v]
         /\ Written(file, 31, v) = [file EXCEPT !["pc"] = v]
         /\ Written(file, 32, v) = [file EXCEPT !["pc"] = v]
         /\ Written(file, 33, v) = [file EXCEPT !["flags"] = v]
         /\ Written(file, 0, v) = file
         /\ Written(file, 37, v) = file
<1>1. v % WordMod = v
  BY WordType
<1>2. /\ 1 \in DOMAIN Slot /\ 31 \in DOMAIN Slot /\ 32 \in DOMAIN Slot
      /\ 33 \in DOMAIN Slot /\ 0 \notin DOMAIN Slot /\ 37 \notin DOMAIN Slot
  BY SlotAt
<1>3. /\ Written(file, 0, v) = file
      /\ Written(file, 37, v) = file
  BY <1>2 DEF Written
<1>4. Written(file, 1, v) = [file EXCEPT !["r1"] = v]
  BY <1>1, <1>2, SlotAt DEF Written
<1>5. /\ Written(file, 31, v) = [file EXCEPT !["pc"] = v]
      /\ Written(file, 32, v) = [file EXCEPT !["pc"] = v]
  BY <1>1, <1>2, SlotAt DEF Written
<1>6. Written(file, 33, v) = [file EXCEPT !["flags"] = v]
  BY <1>1, <1>2, SlotAt DEF Written
<1> QED BY <1>3, <1>4, <1>5, <1>6

\* What the client is told of each number.
LEMMA RegisterAt ==
  /\ RegAt(1) = regs["r1"] /\ RegAt(31) = regs["pc"] /\ RegAt(32) = regs["pc"]
  /\ RegAt(33) = regs["flags"] /\ RegAt(0) = 0 /\ RegAt(37) = 0
BY SlotAt DEF RegAt

\* The numbers.
LEMMA NumberSet == Numbers = {0, 1, 31, 32, 33, 37}
BY DEF Numbers, Slot

\* A write keeps the RAM's type.
LEMMA StoredType ==
  ASSUME ram \in [RamByte -> Byte], NEW addr \in Nat, NEW data \in Seq(Byte)
  PROVE  Stored(addr, data).ram \in [RamByte -> Byte]
<1> DEFINE Cell(a) == LET i == a - addr + 1
                      IN  IF i \in 1 .. Len(data) /\ Reached(addr, i) THEN data[i]
                          ELSE ram[a]
<1>1. Stored(addr, data).ram = [a \in RamByte |-> Cell(a)]
  BY DEF Stored
<1>2. ASSUME NEW a \in RamByte PROVE Cell(a) \in Byte
  OBVIOUS
<1> HIDE DEF Cell
<1> QED BY <1>1, <1>2

\* A byte of a write that was told to be done is there and holds what was sent,
\* and one beside the write what it held.
LEMMA StoredAt ==
  ASSUME ram \in [RamByte -> Byte], NEW addr \in Nat, NEW data \in Seq(Byte),
         ram' = Stored(addr, data).ram, NEW a \in Nat
  PROVE  /\ a \in addr .. addr + Len(data) - 1 /\ Stored(addr, data).ok
              => ByteAt(a)' = data[a - addr + 1]
         /\ a \notin addr .. addr + Len(data) - 1 => ByteAt(a)' = ByteAt(a)
<1> DEFINE i == a - addr + 1
<1>1. i \in 1 .. Len(data) <=> a \in addr .. addr + Len(data) - 1
  OBVIOUS
<1>2. ByteAt(a)' = IF a \in RamByte THEN ram'[a] ELSE ZeroByte
  BY DEF ByteAt
<1>3. a \in RamByte =>
        ram'[a] = IF i \in 1 .. Len(data) /\ Reached(addr, i) THEN data[i] ELSE ram[a]
  BY DEF Stored
<1>4. ASSUME i \in 1 .. Len(data), Stored(addr, data).ok
      PROVE  a \in RamByte /\ Reached(addr, i)
  <2>1. \A j \in 1 .. Len(data) : addr + j - 1 \in RamByte
    BY <1>4 DEF Stored, Reached
  <2>2. addr + i - 1 = a
    OBVIOUS
  <2>3. i \in 1 .. Len(data) /\ Len(data) \in Nat
    BY <1>4
  <2>4. \A j \in 1 .. i : j \in 1 .. Len(data)
    BY <2>3
  <2>5. Reached(addr, i)
    <3> HIDE DEF i
    <3> QED BY <2>1, <2>4 DEF Reached
  <2> QED BY <2>1, <2>2, <2>3, <2>5
<1> QED BY <1>1, <1>2, <1>3, <1>4 DEF ByteAt

\* The client starts with no belief.
LEMMA BeliefInit ==
  ASSUME Init
  PROVE  BeliefInv
<1>1. item \in Items
  BY SessionAssumption DEF Init, Items
<1>2. regs \in [Slots -> Word]
  BY WordType DEF Init
<1> QED BY <1>1, <1>2 DEF Init, BeliefInv, TypeOK, BeliefsHold

\* The item is what it was when neither the registers nor the RAM change.
LEMMA Unchanged ==
  ASSUME BeliefInv, UNCHANGED <<regs, ram, item>>
  PROVE  /\ ByteAt(item[2])' = ByteAt(item[2])
         /\ RegAt(item[2])' = RegAt(item[2])
BY DEF ByteAt, RegAt

\* A packet that leaves the machine alone and tells what is so, or nothing, ...
LEMMA QuietStep ==
  ASSUME BeliefInv, mode = "open", UNCHANGED <<regs, halted, ram, mode, reason, item>>,
         breaks' \subseteq BreakAddrs,
         \/ belief' = belief
         \/ belief' = IF item[1] = "register" THEN RegAt(item[2]) ELSE ByteAt(item[2])
  PROVE  BeliefInv'
BY Unchanged DEF BeliefInv, TypeOK, BeliefsHold

\* ... as g, ...
LEMMA ReadRegistersStep ==
  ASSUME BeliefInv, ReadRegisters
  PROVE  BeliefInv'
BY QuietStep DEF ReadRegisters, Handled, machine, BeliefInv, TypeOK

\* ... p ...
LEMMA ReadRegisterStep ==
  ASSUME BeliefInv, NEW n \in Numbers, ReadRegister(n)
  PROVE  BeliefInv'
BY QuietStep DEF ReadRegister, Handled, machine, BeliefInv, TypeOK

\* ... and m do.
LEMMA ReadMemoryStep ==
  ASSUME BeliefInv, NEW r \in Ranges, ReadMemory(r[1], r[2])
  PROVE  BeliefInv'
BY QuietStep DEF ReadMemory, Covers, Handled, machine, BeliefInv, TypeOK

\* What the client takes a register for after P: it holds 31 and 32 for one register,
\* 0 for zero, and nothing of a number that does not fit a word.
LEMMA RegisterWritten ==
  ASSUME BeliefInv, item[1] = "register", NEW n \in Numbers, NEW v \in Nat,
         regs' = Written(regs, n, v), item' = item,
         belief' = IF v \in Word THEN Told(n, v) ELSE Told(n, Unknown),
         belief' # Unknown, mode = "open"
  PROVE  belief' = RegAt(item[2])'
<1>1. item[2] \in {0, 1, 31, 32, 33, 37} /\ n \in {0, 1, 31, 32, 33, 37}
  BY NumberSet DEF BeliefInv, Items
<1>2. regs \in [Slots -> Word] /\ regs' \in [Slots -> Word]
  BY WrittenType DEF BeliefInv, TypeOK
<1>3. /\ RegAt(1)' = regs'["r1"] /\ RegAt(31)' = regs'["pc"] /\ RegAt(32)' = regs'["pc"]
      /\ RegAt(33)' = regs'["flags"] /\ RegAt(0)' = 0 /\ RegAt(37)' = 0
  BY SlotAt DEF RegAt
<1>4. belief # Unknown => belief = RegAt(item[2])
  BY DEF BeliefInv, BeliefsHold
<1>5. CASE v \in Word
  <2>1. belief' = Told(n, v)
    BY <1>5
  <2>2. /\ n = 1 => regs' = [regs EXCEPT !["r1"] = v]
        /\ n = 31 => regs' = [regs EXCEPT !["pc"] = v]
        /\ n = 32 => regs' = [regs EXCEPT !["pc"] = v]
        /\ n = 33 => regs' = [regs EXCEPT !["flags"] = v]
        /\ n = 0 => regs' = regs
        /\ n = 37 => regs' = regs
    BY <1>2, <1>5, WrittenAt
  <2>3. /\ n = 1 => /\ regs'["r1"] = v
                    /\ regs'["pc"] = regs["pc"] /\ regs'["flags"] = regs["flags"]
        /\ n \in {31, 32} => /\ regs'["pc"] = v
                    /\ regs'["r1"] = regs["r1"] /\ regs'["flags"] = regs["flags"]
        /\ n = 33 => /\ regs'["flags"] = v
                     /\ regs'["pc"] = regs["pc"] /\ regs'["r1"] = regs["r1"]
        /\ n \in {0, 37} => regs' = regs
    BY <1>2, <2>2 DEF Slots
  <2> QED BY <1>1, <1>3, <1>4, <2>1, <2>3, RegisterAt DEF Told
<1>6. CASE v \notin Word
  <2>1. belief' = Told(n, Unknown)
    BY <1>6
  <2>2. /\ item[2] # n \/ n = 0
        /\ {item[2], n} # {31, 32} /\ (n = 37 => item[2] # 37)
        /\ belief' = IF n = 0 /\ item[2] = 0 THEN 0 ELSE belief
    BY <1>1, <2>1 DEF Told
  <2>3. /\ n = 1 => regs'["pc"] = regs["pc"] /\ regs'["flags"] = regs["flags"]
        /\ n \in {31, 32} => regs'["r1"] = regs["r1"] /\ regs'["flags"] = regs["flags"]
        /\ n = 33 => regs'["pc"] = regs["pc"] /\ regs'["r1"] = regs["r1"]
        /\ n \in {0, 37} => regs' = regs
    BY <1>2, SlotAt DEF Written, Slots
  <2>4. ~(n \in {31, 32} /\ item[2] \in {31, 32})
    BY <2>2
  <2> QED BY <1>1, <1>3, <1>4, <2>2, <2>3, <2>4, RegisterAt
<1> QED BY <1>5, <1>6

\* P, one register, ...
LEMMA WriteRegisterStep ==
  ASSUME BeliefInv, NEW n \in Numbers, NEW v \in Sent, WriteRegister(n, v)
  PROVE  BeliefInv'
<1>1. /\ mode = "open" /\ regs' = Written(regs, n, v) /\ v \in Nat
      /\ UNCHANGED <<mode, reason, item, halted, ram, breaks>>
      /\ belief' = IF v \in Word THEN Told(n, v) ELSE Told(n, Unknown)
  BY SessionAssumption DEF WriteRegister, Handled
<1>2. TypeOK'
  BY <1>1, WrittenType DEF BeliefInv, TypeOK
<1>3. CASE item[1] = "register"
  BY <1>1, <1>2, <1>3, RegisterWritten DEF BeliefInv, BeliefsHold
<1>4. CASE item[1] # "register"
  <2>1. belief' = belief /\ ByteAt(item[2])' = ByteAt(item[2])
    BY <1>1, <1>4 DEF Told, ByteAt
  <2> QED BY <1>1, <1>2, <1>4, <2>1 DEF BeliefInv, BeliefsHold
<1> QED BY <1>3, <1>4

\* ... G, all of them: of two values for pc the later wins, and the client believes
\* neither, ...
LEMMA WriteRegistersStep ==
  ASSUME BeliefInv, NEW v \in [Numbers -> Word], WriteRegisters(v)
  PROVE  BeliefInv'
<1>1. /\ mode = "open" /\ regs' = WrittenAll(v) /\ belief' = ToldAll(v)
      /\ UNCHANGED <<mode, reason, item, halted, ram, breaks>>
  BY DEF WriteRegisters, Handled
<1>2. v[1] \in Word /\ v[31] \in Word /\ v[32] \in Word /\ v[33] \in Word
  BY NumberSet
<1>3. regs \in [Slots -> Word]
  BY DEF BeliefInv, TypeOK
<1>4. /\ regs' \in [Slots -> Word]
      /\ regs'["r1"] = v[1] /\ regs'["pc"] = v[32] /\ regs'["flags"] = v[33]
  <2> DEFINE a == [regs EXCEPT !["r1"] = v[1]]
             b == [a EXCEPT !["pc"] = v[31]]
             c == [b EXCEPT !["pc"] = v[32]]
             d == [c EXCEPT !["flags"] = v[33]]
  <2>1. /\ a \in [Slots -> Word] /\ b \in [Slots -> Word] /\ c \in [Slots -> Word]
        /\ d \in [Slots -> Word]
    BY <1>2, <1>3
  <2>2. a = Written(regs, 1, v[1])
    BY <1>2, <1>3, WrittenAt
  <2>3. b = Written(a, 31, v[31])
    <3> HIDE DEF a
    <3> QED BY <1>2, <2>1, WrittenAt
  <2>4. c = Written(b, 32, v[32])
    <3> HIDE DEF b
    <3> QED BY <1>2, <2>1, WrittenAt
  <2>5. d = Written(c, 33, v[33])
    <3> HIDE DEF c
    <3> QED BY <1>2, <2>1, WrittenAt
  <2>6. d["r1"] = v[1] /\ d["pc"] = v[32] /\ d["flags"] = v[33]
    BY <1>3 DEF Slots
  <2> HIDE DEF a, b, c, d
  <2> QED BY <1>1, <2>1, <2>2, <2>3, <2>4, <2>5, <2>6 DEF WrittenAll
<1>5. TypeOK'
  BY <1>1, <1>4 DEF BeliefInv, TypeOK
<1>6. CASE item[1] = "register"
  <2>1. item[2] \in {0, 1, 31, 32, 33, 37}
    BY <1>6, NumberSet DEF BeliefInv, Items
  <2>2. /\ RegAt(1)' = v[1] /\ RegAt(31)' = v[32] /\ RegAt(32)' = v[32]
        /\ RegAt(33)' = v[33] /\ RegAt(0)' = 0 /\ RegAt(37)' = 0
    BY <1>4, SlotAt DEF RegAt
  <2>3. belief # Unknown => belief = RegAt(item[2])
    BY <1>1, <1>6 DEF BeliefInv, BeliefsHold
  <2>4. belief' # Unknown => belief' = RegAt(item[2])'
    <3>1. CASE item[2] = 37
      BY <1>1, <1>6, <2>2, <2>3, <3>1, RegisterAt DEF ToldAll
    <3>2. CASE item[2] \in {31, 32}
      BY <1>1, <1>6, <2>2, <3>2 DEF ToldAll, Told
    <3>3. CASE item[2] \in {0, 1, 33}
      BY <1>1, <1>6, <2>2, <3>3 DEF ToldAll, Told
    <3> QED BY <2>1, <3>1, <3>2, <3>3
  <2> QED BY <1>1, <1>5, <1>6, <2>4 DEF BeliefInv, BeliefsHold
<1>7. CASE item[1] # "register"
  <2>1. belief' = belief /\ ByteAt(item[2])' = ByteAt(item[2])
    BY <1>1, <1>7 DEF ToldAll, ByteAt
  <2> QED BY <1>1, <1>5, <1>7, <2>1 DEF BeliefInv, BeliefsHold
<1> QED BY <1>6, <1>7

\* ... and M: a byte inside the write that is told to be done, one beside it, and the
\* bytes of one that failed half way.
LEMMA WriteMemoryStep ==
  ASSUME BeliefInv, NEW addr \in Nat, NEW data \in Seq(Byte), WriteMemory(addr, data)
  PROVE  BeliefInv'
<1>1. /\ mode = "open" /\ ram' = Stored(addr, data).ram
      /\ UNCHANGED <<mode, reason, item, regs, halted, breaks>>
      /\ belief' = IF ~Covers(addr, Len(data)) THEN belief
                   ELSE IF Stored(addr, data).ok THEN data[item[2] - addr + 1]
                   ELSE Unknown
  BY DEF WriteMemory, Handled
<1>2. ram \in [RamByte -> Byte]
  BY DEF BeliefInv, TypeOK
<1>3. TypeOK'
  BY <1>1, <1>2, StoredType DEF BeliefInv, TypeOK
<1>4. CASE item[1] = "byte"
  <2>1. item[2] \in Nat
    BY <1>4 DEF BeliefInv, Items
  <2>2. CASE ~Covers(addr, Len(data))
    <3>1. belief' = belief /\ ByteAt(item[2])' = ByteAt(item[2])
      <4>1. item[2] \notin addr .. addr + Len(data) - 1
        BY <1>4, <2>2 DEF Covers
      <4>2. item' = item
        BY <1>1
      <4> DEFINE a == item[2]
      <4>3. ByteAt(a)' = IF a' \in RamByte THEN ram'[a'] ELSE ZeroByte
        BY DEF ByteAt
      <4>4. \A x \in Nat : x \notin addr .. addr + Len(data) - 1 =>
              (IF x \in RamByte THEN ram'[x] ELSE ZeroByte) = ByteAt(x)
        BY <1>1, <1>2, StoredAt DEF ByteAt
      <4> QED BY <1>1, <2>1, <2>2, <4>1, <4>2, <4>3, <4>4
    <3> QED BY <1>1, <1>3, <1>4, <3>1 DEF BeliefInv, BeliefsHold
  <2>3. CASE Covers(addr, Len(data)) /\ Stored(addr, data).ok
    <3>1. belief' = ByteAt(item[2])'
      <4>1. item[2] \in addr .. addr + Len(data) - 1
        BY <1>4, <2>3 DEF Covers
      <4>2. item' = item
        BY <1>1
      <4>3. \A x \in Nat : x \in addr .. addr + Len(data) - 1 =>
              (IF x \in RamByte THEN ram'[x] ELSE ZeroByte) = data[x - addr + 1]
        BY <1>1, <1>2, <2>3, StoredAt DEF ByteAt
      <4> QED BY <1>1, <2>1, <2>3, <4>1, <4>2, <4>3 DEF ByteAt
    <3> QED BY <1>1, <1>3, <1>4, <3>1 DEF BeliefInv, BeliefsHold
  <2>4. CASE Covers(addr, Len(data)) /\ ~Stored(addr, data).ok
    BY <1>1, <1>3, <2>4 DEF BeliefInv, BeliefsHold
  <2> QED BY <2>2, <2>3, <2>4
<1>5. CASE item[1] # "byte"
  <2>1. item[1] = "register" /\ belief' = belief
    BY <1>1, <1>5 DEF BeliefInv, Items, Covers
  <2>2. RegAt(item[2])' = RegAt(item[2])
    BY <1>1 DEF RegAt
  <2> QED BY <1>1, <1>3, <2>1, <2>2 DEF BeliefInv, BeliefsHold
<1> QED BY <1>4, <1>5

\* The machine's types under an instruction or a step.
LEMMA StepTypes ==
  ASSUME TypeOK, NEW kind \in Results, Step(kind)
  PROVE  /\ regs' \in [Slots -> Word] /\ halted' \in BOOLEAN
         /\ ram' \in [RamByte -> Byte] /\ breaks' \subseteq BreakAddrs
<1>1. CASE kind = "ok"
  <2>1. Execute /\ breaks' = breaks
    BY <1>1 DEF Step
  <2>2. CASE halted' = TRUE /\ UNCHANGED <<regs, ram>>
    BY <2>1, <2>2 DEF TypeOK
  <2>3. CASE ~(halted' = TRUE /\ UNCHANGED <<regs, ram>>)
    <3>1. regs' \in [Slots -> Word] /\ halted' = halted
      BY <2>1, <2>3 DEF TypeOK, Execute, Slots
    <3>2. ram' \in [RamByte -> Byte]
      BY <2>1, <2>3 DEF TypeOK, Execute
    <3> QED BY <2>1, <3>1, <3>2 DEF TypeOK
  <2> QED BY <2>2, <2>3
<1>2. CASE kind = "error"
  BY <1>2 DEF Step, TypeOK, Slots
<1>3. CASE kind = "breakpoint"
  BY <1>3 DEF Step, TypeOK
<1> QED BY <1>1, <1>2, <1>3 DEF Results

\* Packets that run the program, and the loop of a continue.
LEMMA RunStep ==
  ASSUME BeliefInv,
         \/ \E by \in {"s", "c"} : ResumeHalted(by)
         \/ StepOnce \/ Continue \/ Turn \/ LoopEnds
  PROVE  BeliefInv'
<1>1. belief' = Unknown /\ item' = item
  BY DEF ResumeHalted, StepOnce, Continue, Turn, LoopEnds, BeliefInv, client
<1>2. TypeOK'
  <2>1. CASE (\E by \in {"s", "c"} : ResumeHalted(by)) \/ Continue \/ LoopEnds
    BY <2>1 DEF BeliefInv, TypeOK, ResumeHalted, Continue, LoopEnds, Stop, machine
  <2>2. CASE StepOnce
    <3>1. PICK kind \in Results : Step(kind) /\ Stop(ReasonOf(kind))
      BY <2>2 DEF StepOnce
    <3> QED BY <3>1, StepTypes DEF BeliefInv, TypeOK, Stop, ReasonOf
  <2>3. CASE Turn
    <3>1. PICK kind \in Results :
            /\ Step(kind)
            /\ IF kind = "ok" THEN UNCHANGED <<mode, reason>> ELSE Stop(ReasonOf(kind))
      BY <2>3 DEF Turn
    <3> QED BY <3>1, StepTypes DEF BeliefInv, TypeOK, Stop, ReasonOf
  <2> QED BY <2>1, <2>2, <2>3
<1> QED BY <1>1, <1>2 DEF BeliefInv, BeliefsHold

\* Every packet and every turn keeps the invariant.
LEMMA BeliefStep ==
  ASSUME BeliefInv, [Next]_vars
  PROVE  BeliefInv'
<1>1. CASE Answer \/ \E a \in BreakAddrs : SetBreak(a) \/ ClearBreak(a)
  BY <1>1, QuietStep
     DEF Answer, SetBreak, ClearBreak, Handled, machine, BeliefInv, TypeOK
<1>2. CASE ReadRegisters
  BY <1>2, ReadRegistersStep
<1>3. CASE Close \/ Closed \/ UNCHANGED vars
  BY <1>3 DEF Close, Closed, vars, machine, client, BeliefInv, TypeOK, BeliefsHold,
              RegAt, ByteAt
<1>4. CASE \E n \in Numbers : ReadRegister(n) \/ \E v \in Sent : WriteRegister(n, v)
  BY <1>4, ReadRegisterStep, WriteRegisterStep
<1>5. CASE \E v1, v31, v32 \in Sent \intersect Word :
             WriteRegisters([n \in Numbers |->
               CASE n = 31 -> v31 [] n = 32 -> v32 [] OTHER -> v1])
  <2>1. PICK v1, v31, v32 \in Sent \intersect Word :
          WriteRegisters([n \in Numbers |->
            CASE n = 31 -> v31 [] n = 32 -> v32 [] OTHER -> v1])
    BY <1>5
  <2> DEFINE v == [n \in Numbers |->
                    CASE n = 31 -> v31 [] n = 32 -> v32 [] OTHER -> v1]
  <2>2. v \in [Numbers -> Word]
    OBVIOUS
  <2>3. WriteRegisters(v)
    BY <2>1
  <2> HIDE DEF v
  <2> QED BY <2>2, <2>3, WriteRegistersStep
<1>6. CASE \E r \in Ranges : ReadMemory(r[1], r[2])
  BY <1>6, ReadMemoryStep
<1>7. CASE \E w \in Writes : WriteMemory(w[1], w[2])
  <2>1. PICK w \in Writes : WriteMemory(w[1], w[2])
    BY <1>7
  <2>2. w[1] \in Nat /\ w[2] \in Seq(Byte)
    BY SessionAssumption
  <2> QED BY <2>1, <2>2, WriteMemoryStep
<1>8. CASE \/ \E by \in {"s", "c"} : ResumeHalted(by)
           \/ StepOnce \/ Continue \/ Turn \/ LoopEnds
  BY <1>8, RunStep
<1> QED BY <1>1, <1>2, <1>3, <1>4, <1>5, <1>6, <1>7, <1>8 DEF Next

\* The invariant holds in every state.
LEMMA BeliefInvHolds == Spec => []BeliefInv
<1>1. Init => BeliefInv
  BY BeliefInit
<1>2. BeliefInv /\ [Next]_vars => BeliefInv'
  BY BeliefStep
<1> QED BY <1>1, <1>2, PTL DEF Spec

\* Registers stay words and the RAM bytes, whatever numbers and writes a client sends
\* (bytes_to_reg, _write_mem), and stops have one of their two reasons.
THEOREM SessionTypes == Spec => []TypeOK
<1>1. BeliefInv => TypeOK
  BY DEF BeliefInv
<1> QED BY <1>1, BeliefInvHolds, PTL

\* Between two stops what the client has read, or has written with the reply OK, is what
\* the machine holds: registers under all their numbers, and memory byte by byte, beside
\* a write that failed half way (_read_mem_hex, _write_mem, write_all_g_packet).
THEOREM BeliefsHoldAlways == Spec => []BeliefsHold
<1>1. BeliefInv => BeliefsHold
  BY DEF BeliefInv
<1> QED BY <1>1, BeliefInvHolds, PTL
=============================================================================
