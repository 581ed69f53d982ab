-------------------------- MODULE LoadStoreProofs ---------------------------
(***************************************************************************)
(* The load and store family keeps its types, guards the monitored word    *)
(* and confines its faults, for words of any width, any arithmetic, any    *)
(* memory and any registers; and the code that is preempted between its    *)
(* loads and stores keeps its types and its registers and implements the   *)
(* code with operations that nothing interrupts.                           *)
(***************************************************************************)
EXTENDS LoadStore, PreemptedCode, SequenceTheorems, TLAPS

\* A register write keeps the register file well typed.
LEMMA PutType ==
  ASSUME NEW reg \in [Reg -> Word], NEW r \in Reg, NEW w \in Word
  PROVE  Put(reg, r, w) \in [Reg -> Word]
BY DEF Put

\* Zero is a word, and so is every masked word and every merge of two words.
LEMMA MaskType ==
  ASSUME NEW old \in Word, NEW w \in Word, NEW mask
  PROVE  Zero \in Word /\ Select(w, mask) \in Word /\ Merge(old, w, mask) \in Word
BY LoadStoreAssumption DEF Zero, Select, Merge, Word

\* So is an effective address.
LEMMA AddressType ==
  ASSUME NEW kind, NEW base \in Word, NEW imm \in Word
  PROVE  EffectiveAddress(kind, base, imm) \in Word
BY LoadStoreAssumption DEF EffectiveAddress

\* The memory of a machine.
LEMMA FieldTypes ==
  ASSUME NEW x \in Machine
  PROVE  /\ x.reg \in [Reg -> Word]
         /\ x.mem \in [Ram -> Word]
         /\ x.valid \in BOOLEAN
         /\ x.addr \in Word
BY DEF Machine

\* A load leaves a machine, ...
LEMMA LoadedType ==
  ASSUME NEW x \in Machine, NEW kind, NEW ra \in Reg, NEW rd \in Reg,
         NEW mask, NEW imm \in Word
  PROVE  Loaded(x, kind, ra, rd, mask, imm) \in Machine
<1> DEFINE base  == x.reg[ra]
           ea    == EffectiveAddress(kind, base, imm)
           begun == [x EXCEPT
             !.reg   = IF kind \in PreIndexed THEN Put(@, ra, ea) ELSE @,
             !.valid = @ \/ kind = "LDREX",
             !.addr  = IF kind = "LDREX" THEN ea ELSE @]
           data  == IF mask = {} THEN Zero ELSE Select(x.mem[ea], mask)
           done  == Put(begun.reg, rd, data)
           last  == IF kind \in PostIndexed THEN Put(done, ra, Plus(base, imm))
                                            ELSE done
           y     == Loaded(x, kind, ra, rd, mask, imm)
<1> SUFFICES y \in Machine
  OBVIOUS
<1>1. base \in Word /\ ea \in Word /\ Plus(base, imm) \in Word
  BY FieldTypes, AddressType, LoadStoreAssumption
<1>2. Put(x.reg, ra, ea) \in [Reg -> Word]
  BY <1>1, FieldTypes, PutType
<1>3. begun \in Machine
  <2> HIDE DEF ea
  <2> QED BY <1>1, <1>2 DEF Machine
<1>4. y = IF Faults(ea, mask) THEN begun ELSE [begun EXCEPT !.reg = last]
  BY DEF Loaded
<1>5. CASE Faults(ea, mask)
  BY <1>3, <1>4, <1>5
<1>6. CASE ~Faults(ea, mask)
  <2>1. data \in Word
    <3>1. mask # {} => x.mem[ea] \in Word
      BY <1>6, <1>1, FieldTypes DEF Faults
    <3>2. Zero \in Word
      BY <1>1, MaskType
    <3> QED BY <3>1, <3>2, MaskType
  <2> HIDE DEF data
  <2>2. begun.reg \in [Reg -> Word]
    BY <1>3, FieldTypes
  <2> HIDE DEF begun
  <2>3. done \in [Reg -> Word]
    BY <2>1, <2>2, PutType
  <2> HIDE DEF done, base
  <2>4. last \in [Reg -> Word]
    BY <2>3, <1>1, PutType
  <2> HIDE DEF last
  <2>5. y = [begun EXCEPT !.reg = last]
    BY <1>4, <1>6
  <2> HIDE DEF y
  <2> QED BY <2>4, <2>5, <1>3 DEF Machine
<1> QED BY <1>5, <1>6

\* ... with the memory it found, ...
LEMMA LoadedMemory ==
  ASSUME NEW x \in Machine, NEW kind, NEW ra \in Reg, NEW rd \in Reg,
         NEW mask, NEW imm \in Word
  PROVE  Loaded(x, kind, ra, rd, mask, imm).mem = x.mem
BY DEF Loaded, Machine

\* ... armed if it was or if this is the exclusive load, ...
LEMMA LoadedMonitor ==
  ASSUME NEW x \in Machine, NEW kind, NEW ra \in Reg, NEW rd \in Reg,
         NEW mask, NEW imm \in Word
  PROVE  Loaded(x, kind, ra, rd, mask, imm).valid <=> x.valid \/ kind = "LDREX"
BY DEF Loaded, Machine

\* ... and when it faults the registers it found but a pre-indexed base.
LEMMA LoadedFault ==
  ASSUME NEW x \in Machine, NEW kind, NEW ra \in Reg, NEW rd \in Reg,
         NEW mask, NEW imm \in Word,
         Faults(EffectiveAddress(kind, x.reg[ra], imm), mask)
  PROVE  Loaded(x, kind, ra, rd, mask, imm).reg =
           IF kind \in PreIndexed THEN Put(x.reg, ra, Plus(x.reg[ra], imm))
                                  ELSE x.reg
<1>1. kind \in PreIndexed =>
        EffectiveAddress(kind, x.reg[ra], imm) = Plus(x.reg[ra], imm)
  BY DEF PreIndexed, PostIndexed, EffectiveAddress
<1> QED BY <1>1 DEF Loaded, Machine

\* A store leaves a machine, ...
LEMMA StoredType ==
  ASSUME NEW x \in Machine, NEW kind, NEW ra \in Reg, NEW rs \in Reg,
         NEW mask, NEW imm \in Word
  PROVE  Stored(x, kind, ra, rs, mask, imm) \in Machine
<1> DEFINE base  == x.reg[ra]
           ea    == EffectiveAddress(kind, base, imm)
           begun == [x EXCEPT
             !.reg   = IF kind \in PreIndexed THEN Put(@, ra, ea) ELSE @,
             !.valid = FALSE]
           moved == Put(begun.reg, ra, Plus(ea, imm))
           data  == Merge(begun.mem[ea], begun.reg[rs], mask)
           y     == Stored(x, kind, ra, rs, mask, imm)
<1> SUFFICES y \in Machine
  OBVIOUS
<1>1. base \in Word /\ ea \in Word
  BY FieldTypes, AddressType
<1>2. Plus(ea, imm) \in Word
  BY <1>1, LoadStoreAssumption
<1>3. Put(x.reg, ra, ea) \in [Reg -> Word]
  BY <1>1, FieldTypes, PutType
<1>4. begun \in Machine
  <2> HIDE DEF ea
  <2> QED BY <1>3 DEF Machine
<1>5. y = IF mask = {}
          THEN [begun EXCEPT !.reg = IF kind = "STR" THEN @ ELSE moved]
          ELSE IF Faults(ea, mask) THEN begun
          ELSE [begun EXCEPT !.mem[ea] = data,
                             !.reg = IF kind \in PostIndexed THEN moved ELSE @]
  BY DEF Stored
<1>6. moved \in [Reg -> Word]
  <2>1. begun.reg \in [Reg -> Word] BY <1>4, FieldTypes
  <2> HIDE DEF begun, ea
  <2> QED BY <2>1, <1>2, PutType
<1> HIDE DEF begun, moved, y, ea
<1>7. CASE mask = {}
  <2>1. y = [begun EXCEPT !.reg = IF kind = "STR" THEN @ ELSE moved]
    BY <1>5, <1>7
  <2> QED BY <2>1, <1>4, <1>6 DEF Machine
<1>8. CASE mask # {} /\ Faults(ea, mask)
  BY <1>4, <1>5, <1>8
<1>9. CASE mask # {} /\ ~Faults(ea, mask)
  <2> DEFINE mem == [begun.mem EXCEPT ![ea] = data]
             reg == IF kind \in PostIndexed THEN moved ELSE begun.reg
  <2>1. ea \in Ram
    BY <1>9 DEF Faults
  <2>2. data \in Word
    BY <2>1, <1>4, FieldTypes, MaskType
  <2> HIDE DEF data
  <2>3. mem \in [Ram -> Word] /\ reg \in [Reg -> Word]
    BY <2>2, <1>4, <1>6, FieldTypes
  <2>4. y = [begun EXCEPT !.mem = mem, !.reg = reg]
    BY <1>5, <1>9
  <2> HIDE DEF mem, reg
  <2> QED BY <2>3, <2>4, <1>4 DEF Machine
<1> QED BY <1>7, <1>8, <1>9

\* ... whose monitor is disarmed, ...
LEMMA StoredMonitor ==
  ASSUME NEW x \in Machine, NEW kind, NEW ra \in Reg, NEW rs \in Reg,
         NEW mask, NEW imm \in Word
  PROVE  ~Stored(x, kind, ra, rs, mask, imm).valid
BY DEF Stored, Machine

\* ... and when it faults the memory and the registers it found, but for a
\* pre-indexed base.
LEMMA StoredFault ==
  ASSUME NEW x \in Machine, NEW kind, NEW ra \in Reg, NEW rs \in Reg,
         NEW mask, NEW imm \in Word,
         Faults(EffectiveAddress(kind, x.reg[ra], imm), mask)
  PROVE  /\ Stored(x, kind, ra, rs, mask, imm).mem = x.mem
         /\ Stored(x, kind, ra, rs, mask, imm).reg =
              IF kind \in PreIndexed THEN Put(x.reg, ra, Plus(x.reg[ra], imm))
                                     ELSE x.reg
<1>1. kind \in PreIndexed =>
        EffectiveAddress(kind, x.reg[ra], imm) = Plus(x.reg[ra], imm)
  BY DEF PreIndexed, PostIndexed, EffectiveAddress
<1>2. mask # {}
  BY DEF Faults
<1> QED BY <1>1, <1>2 DEF Stored, Machine

\* An exclusive store leaves a machine, ...
LEMMA StrexedType ==
  ASSUME NEW x \in Machine, NEW ra \in Reg, NEW rs \in Reg, NEW rstatus \in Reg,
         NEW imm \in Word
  PROVE  Strexed(x, ra, rs, rstatus, imm, Zero, One) \in Machine
<1> DEFINE ea    == Plus(x.reg[ra], imm)
           begun == [x EXCEPT !.valid = FALSE]
           y     == Strexed(x, ra, rs, rstatus, imm, Zero, One)
<1> SUFFICES y \in Machine
  OBVIOUS
<1>1. x.reg[rs] \in Word /\ Zero \in Word /\ One \in Word
  BY FieldTypes, MaskType, LoadStoreAssumption
<1>2. begun \in Machine /\ begun.mem = x.mem /\ begun.reg = x.reg
  BY DEF Machine
<1>3. /\ Put(x.reg, rstatus, Zero) \in [Reg -> Word]
      /\ Put(x.reg, rstatus, One) \in [Reg -> Word]
  BY <1>1, FieldTypes, PutType
<1>4. y = IF ~ExclusiveHeld(x, ea)
          THEN [begun EXCEPT !.reg = Put(@, rstatus, One)]
          ELSE IF ea \notin Ram THEN begun
          ELSE [begun EXCEPT !.mem[ea] = x.reg[rs],
                             !.reg = Put(@, rstatus, Zero)]
  BY DEF Strexed
<1> HIDE DEF begun, y, ea
<1>5. CASE ~ExclusiveHeld(x, ea)
  BY <1>2, <1>3, <1>4, <1>5 DEF Machine
<1>6. CASE ExclusiveHeld(x, ea) /\ ea \notin Ram
  BY <1>2, <1>4, <1>6
<1>7. CASE ExclusiveHeld(x, ea) /\ ea \in Ram
  <2> DEFINE mem == [begun.mem EXCEPT ![ea] = x.reg[rs]]
             reg == Put(begun.reg, rstatus, Zero)
  <2>1. mem \in [Ram -> Word] /\ reg \in [Reg -> Word]
    BY <1>1, <1>2, <1>3, FieldTypes
  <2>2. y = [begun EXCEPT !.mem = mem, !.reg = reg]
    BY <1>4, <1>7
  <2> HIDE DEF mem, reg
  <2> QED BY <2>1, <2>2, <1>2 DEF Machine
<1> QED BY <1>5, <1>6, <1>7

\* ... whose monitor is spent, ...
LEMMA StrexedMonitor ==
  ASSUME NEW x \in Machine, NEW ra \in Reg, NEW rs \in Reg, NEW rstatus \in Reg,
         NEW imm \in Word
  PROVE  ~Strexed(x, ra, rs, rstatus, imm, Zero, One).valid
BY DEF Strexed, Machine

\* ... and when it faults the memory and the registers it found.
LEMMA StrexedFault ==
  ASSUME NEW x \in Machine, NEW ra \in Reg, NEW rs \in Reg, NEW rstatus \in Reg,
         NEW imm \in Word, StrexFaults(x, Plus(x.reg[ra], imm))
  PROVE  /\ Strexed(x, ra, rs, rstatus, imm, Zero, One).mem = x.mem
         /\ Strexed(x, ra, rs, rstatus, imm, Zero, One).reg = x.reg
BY DEF Strexed, StrexFaults, Machine

-----------------------------------------------------------------------------
\* A load, a store or an exclusive store, of any kind and on any operands.
LoadStep ==
  \E ra, r \in Reg, imm \in Imms, mask \in MaskUses, kind \in Loads :
    Load(kind, ra, r, mask, imm)
StoreStep ==
  \E ra, r \in Reg, imm \in Imms, mask \in MaskUses, kind \in Stores :
    Store(kind, ra, r, mask, imm)
StrexStep ==
  \E ra, rs, rstatus \in Reg, imm \in Imms : Strex(ra, rs, rstatus, imm)

\* A step is one of these.
LEMMA NextSplit ==
  ASSUME Next
  PROVE  \/ \E r \in Reg, w \in Word : SetReg(r, w)
         \/ LoadStep
         \/ StoreStep
         \/ StrexStep
         \/ ResetCpu
         \/ \E r \in Reg, w \in Word : SetGpr(r, w)
         \/ \E a \in Ram, w \in Word : WriteRamWord(a, w)
BY DEF Next, Instruction, Debugger, LoadStep, StoreStep, StrexStep

\* Registers, memory, monitor and history keep their types at every step of
\* every program and debugger.
THEOREM TypeCorrect == Spec => []TypeOK
<1>1. Init => TypeOK
  <2> SUFFICES ASSUME Init PROVE TypeOK
    OBVIOUS
  <2>1. m \in Machine
    BY MaskType, LoadStoreAssumption, StateAssumption DEF Init, Machine
  <2> QED BY <2>1 DEF Init, TypeOK, Ops
<1>2. TypeOK /\ [Next]_vars => TypeOK'
  <2> SUFFICES ASSUME TypeOK, [Next]_vars PROVE TypeOK'
    OBVIOUS
  <2>0. m \in Machine /\ Imms \subseteq Word /\ Zero \in Word
    BY StateAssumption, LoadStoreAssumption, MaskType DEF TypeOK
  <2>1. ASSUME NEW r \in Reg, NEW w \in Word, SetReg(r, w) PROVE TypeOK'
    <3>1. m' \in Machine
      BY <2>0, <2>1, FieldTypes, PutType DEF SetReg, Machine
    <3> QED BY <2>1, <3>1 DEF SetReg, TypeOK, Ops
  <2>2. ASSUME LoadStep PROVE TypeOK'
    <3>1. PICK ra \in Reg, r \in Reg, imm \in Imms, mask \in MaskUses,
               kind \in Loads : Load(kind, ra, r, mask, imm)
      BY <2>2 DEF LoadStep
    <3>2. m' \in Machine
      BY <3>1, <2>0, LoadedType DEF Load
    <3>3. fault' \in BOOLEAN
      BY <3>1 DEF Load, Faults
    <3> QED BY <3>1, <3>2, <3>3 DEF Load, TypeOK, Ops
  <2>3. ASSUME StoreStep PROVE TypeOK'
    <3>1. PICK ra \in Reg, r \in Reg, imm \in Imms, mask \in MaskUses,
               kind \in Stores : Store(kind, ra, r, mask, imm)
      BY <2>3 DEF StoreStep
    <3>2. m' \in Machine
      BY <3>1, <2>0, StoredType DEF Store
    <3>3. fault' \in BOOLEAN
      BY <3>1 DEF Store, Faults
    <3> QED BY <3>1, <3>2, <3>3 DEF Store, TypeOK, Ops
  <2>4. ASSUME StrexStep PROVE TypeOK'
    <3>1. PICK ra \in Reg, rs \in Reg, rstatus \in Reg, imm \in Imms :
               Strex(ra, rs, rstatus, imm)
      BY <2>4 DEF StrexStep
    <3>2. m' \in Machine
      BY <3>1, <2>0, StrexedType DEF Strex
    <3>3. fault' \in BOOLEAN /\ touched' \in BOOLEAN
      BY <3>1 DEF Strex, StrexFaults, ExclusiveHeld, TypeOK
    <3> QED BY <3>1, <3>2, <3>3 DEF Strex, TypeOK, Ops
  <2>5. ASSUME ResetCpu PROVE TypeOK'
    <3>1. m' \in Machine
      BY <2>0, <2>5 DEF ResetCpu, Machine
    <3> QED BY <2>5, <3>1 DEF ResetCpu, TypeOK, Ops
  <2>6. ASSUME NEW r \in Reg, NEW w \in Word, SetGpr(r, w) PROVE TypeOK'
    <3>1. m' \in Machine
      BY <2>0, <2>6 DEF SetGpr, Machine
    <3> QED BY <2>6, <3>1 DEF SetGpr, TypeOK, Ops
  <2>7. ASSUME NEW a \in Ram, NEW w \in Word, WriteRamWord(a, w) PROVE TypeOK'
    <3>1. m' \in Machine
      BY <2>0, <2>7 DEF WriteRamWord, Machine
    <3> QED BY <2>7, <3>1 DEF WriteRamWord, TypeOK, Ops
  <2>8. CASE UNCHANGED vars
    BY <2>8 DEF vars, TypeOK
  <2> QED BY <2>1, <2>2, <2>3, <2>4, <2>5, <2>6, <2>7, <2>8, NextSplit
<1> QED BY <1>1, <1>2, PTL DEF Spec

\* An armed monitor proves that no instruction has written the word it guards
\* since its LDREX.
THEOREM MonitorSound == Spec => []MonitorGuardsWord
<1>1. Init => MonitorGuardsWord
  BY DEF Init, MonitorGuardsWord
<1>2. TypeOK /\ MonitorGuardsWord /\ [Next]_vars => MonitorGuardsWord'
  <2> SUFFICES ASSUME TypeOK, MonitorGuardsWord, [Next]_vars
               PROVE  MonitorGuardsWord'
    OBVIOUS
  <2>0. m \in Machine /\ Imms \subseteq Word
    BY StateAssumption DEF TypeOK
  <2>1. ASSUME NEW r \in Reg, NEW w \in Word, SetReg(r, w)
        PROVE  MonitorGuardsWord'
    <3>1. m'.valid = m.valid BY <2>0, <2>1 DEF SetReg, Machine
    <3> QED BY <2>1, <3>1 DEF SetReg, MonitorGuardsWord
  <2>2. ASSUME LoadStep PROVE MonitorGuardsWord'
    <3>1. PICK ra \in Reg, r \in Reg, imm \in Imms, mask \in MaskUses,
               kind \in Loads : Load(kind, ra, r, mask, imm)
      BY <2>2 DEF LoadStep
    <3>2. m'.valid <=> m.valid \/ kind = "LDREX"
      BY <3>1, <2>0, LoadedMonitor DEF Load
    <3>3. touched' = (touched /\ kind # "LDREX")
      BY <3>1 DEF Load
    <3> QED BY <3>2, <3>3 DEF MonitorGuardsWord, TypeOK
  <2>3. ASSUME StoreStep PROVE MonitorGuardsWord'
    BY <2>0, <2>3, StoredMonitor DEF StoreStep, Store, MonitorGuardsWord
  <2>4. ASSUME StrexStep PROVE MonitorGuardsWord'
    BY <2>0, <2>4, StrexedMonitor DEF StrexStep, Strex, MonitorGuardsWord
  <2>5. ASSUME ResetCpu PROVE MonitorGuardsWord'
    BY <2>5 DEF ResetCpu, MonitorGuardsWord
  <2>6. ASSUME NEW r \in Reg, NEW w \in Word, SetGpr(r, w)
        PROVE  MonitorGuardsWord'
    <3>1. m'.valid = m.valid BY <2>0, <2>6 DEF SetGpr, Machine
    <3> QED BY <2>6, <3>1 DEF SetGpr, MonitorGuardsWord
  <2>7. ASSUME NEW a \in Ram, NEW w \in Word, WriteRamWord(a, w)
        PROVE  MonitorGuardsWord'
    <3>1. m'.valid = m.valid BY <2>0, <2>7 DEF WriteRamWord, Machine
    <3> QED BY <2>7, <3>1 DEF WriteRamWord, MonitorGuardsWord
  <2>8. CASE UNCHANGED vars
    BY <2>8 DEF vars, MonitorGuardsWord
  <2> QED BY <2>1, <2>2, <2>3, <2>4, <2>5, <2>6, <2>7, <2>8, NextSplit
<1> QED BY <1>1, <1>2, TypeCorrect, PTL DEF Spec

\* A faulting instruction leaves memory and registers as it found them, unless
\* it is pre-indexed: then its base, and only that, has become the address that
\* faulted.
THEOREM FaultsConfined == Spec => FaultsAreConfined
<1> DEFINE Confined ==
      fault' => /\ m'.mem = m.mem
                /\ IF op' \in PreIndexed
                   THEN \E ra \in Reg, imm \in Imms :
                          /\ m'.reg = Put(m.reg, ra, Plus(m.reg[ra], imm))
                          /\ Plus(m.reg[ra], imm) \notin Ram
                   ELSE m'.reg = m.reg
<1>1. TypeOK /\ [Next]_vars => [Confined]_vars
  <2> SUFFICES ASSUME TypeOK, Next PROVE Confined
    OBVIOUS
  <2>0. m \in Machine /\ Imms \subseteq Word
    BY StateAssumption DEF TypeOK
  <2>2. ASSUME LoadStep, fault' PROVE Confined
    <3>1. PICK ra \in Reg, r \in Reg, imm \in Imms, mask \in MaskUses,
               kind \in Loads : Load(kind, ra, r, mask, imm)
      BY <2>2 DEF LoadStep
    <3>2. /\ imm \in Word
          /\ Faults(EffectiveAddress(kind, m.reg[ra], imm), mask)
          /\ m' = Loaded(m, kind, ra, r, mask, imm)
          /\ op' = kind
      BY <3>1, <2>0, <2>2 DEF Load
    <3>3. m'.mem = m.mem
      BY <3>2, <2>0, LoadedMemory
    <3>4. m'.reg = IF kind \in PreIndexed THEN Put(m.reg, ra, Plus(m.reg[ra], imm))
                                          ELSE m.reg
      BY <3>2, <2>0, LoadedFault
    <3>5. kind \in PreIndexed => Plus(m.reg[ra], imm) \notin Ram
      BY <3>2 DEF Faults, EffectiveAddress, PreIndexed, PostIndexed
    <3> QED BY <3>2, <3>3, <3>4, <3>5
  <2>3. ASSUME StoreStep, fault' PROVE Confined
    <3>1. PICK ra \in Reg, r \in Reg, imm \in Imms, mask \in MaskUses,
               kind \in Stores : Store(kind, ra, r, mask, imm)
      BY <2>3 DEF StoreStep
    <3>2. /\ imm \in Word
          /\ Faults(EffectiveAddress(kind, m.reg[ra], imm), mask)
          /\ m' = Stored(m, kind, ra, r, mask, imm)
          /\ op' = kind
      BY <3>1, <2>0, <2>3 DEF Store
    <3>3. /\ m'.mem = m.mem
          /\ m'.reg = IF kind \in PreIndexed
                      THEN Put(m.reg, ra, Plus(m.reg[ra], imm)) ELSE m.reg
      BY <3>2, <2>0, StoredFault
    <3>4. kind \in PreIndexed => Plus(m.reg[ra], imm) \notin Ram
      BY <3>2 DEF Faults, EffectiveAddress, PreIndexed, PostIndexed
    <3> QED BY <3>2, <3>3, <3>4
  <2>4. ASSUME StrexStep, fault' PROVE Confined
    <3>1. PICK ra \in Reg, rs \in Reg, rstatus \in Reg, imm \in Imms :
               Strex(ra, rs, rstatus, imm)
      BY <2>4 DEF StrexStep
    <3>2. /\ imm \in Word
          /\ StrexFaults(m, Plus(m.reg[ra], imm))
          /\ m' = Strexed(m, ra, rs, rstatus, imm, Zero, One)
          /\ op' \notin PreIndexed
      BY <3>1, <2>0, <2>4 DEF Strex, PreIndexed
    <3> QED BY <3>2, <2>0, StrexedFault
  <2>5. ASSUME ~fault' PROVE Confined
    BY <2>5
  <2> HIDE DEF Confined
  <2> QED BY <2>2, <2>3, <2>4, <2>5, NextSplit DEF SetReg, ResetCpu, SetGpr, WriteRamWord
<1>2. Spec => [][Confined]_vars
  BY <1>1, TypeCorrect, PTL DEF Spec
<1> QED BY <1>2 DEF FaultsAreConfined

------------------------------------------------------------------------------
(***************************************************************************)
(* The instructions of the code, and what After makes of each of them.     *)
(***************************************************************************)
\* The instructions the code is written with.
Opcodes == {"ADDI", "SUBI", "LDR", "LDRPOST", "LDREX", "STR", "STRPOST", "STREX",
            "IRET"}
Instrs == [op : Opcodes, base : Reg, reg : Reg, imm : Word]

\* An instruction before a sequence of instructions.
Before(i, s) == <<i>> \o s

\* Such a sequence has its first instruction and the others.
LEMMA Consed ==
  ASSUME NEW S, NEW i \in S, NEW s \in Seq(S)
  PROVE  /\ Before(i, s) \in Seq(S)
         /\ Before(i, s) # << >>
         /\ Head(Before(i, s)) = i
         /\ Tail(Before(i, s)) = s
<1>1. <<i>> \in Seq(S) /\ Len(<<i>>) = 1 /\ <<i>>[1] = i
  OBVIOUS
<1>2. <<i>> \o s \in Seq(S) /\ Len(<<i>> \o s) = 1 + Len(s)
  BY <1>1
<1>3. <<i>> \o s # << >>
  BY <1>2
<1>4. Tail(<<i>> \o s) = s
  BY <1>1, <1>2, <1>3, SeqEqual
<1> QED BY <1>1, <1>2, <1>3, <1>4 DEF Before

\* One instruction, ...
LEMMA Single ==
  ASSUME NEW S, NEW a \in S
  PROVE  <<a>> # << >> /\ Head(<<a>>) = a /\ <<a>>[1] = a /\ Tail(<<a>>) = << >>
<1>1. <<a>> \in Seq(S) /\ Len(<<a>>) = 1 OBVIOUS
<1> QED BY <1>1, EmptySeq, SeqEqual, HeadTailProperties

\* Two, ...
LEMMA Pair ==
  ASSUME NEW S, NEW a \in S, NEW b \in S
  PROVE  /\ <<a, b>> # << >> /\ Head(<<a, b>>) = a /\ <<a, b>>[1] = a
         /\ Tail(<<a, b>>) = <<b>>
<1>1. <<a, b>> \in Seq(S) /\ Len(<<a, b>>) = 2 OBVIOUS
<1> QED BY <1>1, SeqEqual, HeadTailProperties

\* ... and three.
LEMMA Triple ==
  ASSUME NEW S, NEW a \in S, NEW b \in S, NEW c \in S
  PROVE  /\ <<a, b, c>> # << >> /\ Head(<<a, b, c>>) = a /\ <<a, b, c>>[1] = a
         /\ Tail(<<a, b, c>>) = <<b, c>>
<1>1. <<a, b, c>> \in Seq(S) /\ Len(<<a, b, c>>) = 3 OBVIOUS
<1> QED BY <1>1, SeqEqual, HeadTailProperties

\* The registers, the immediates and the address the code names.
LEMMA Regs ==
  /\ {R1, R2, R3, SP} \subseteq Reg /\ R0 \in Reg
  /\ Zero \in Word /\ One \in Word /\ Four \in Word /\ MinusFour \in Word
  /\ Counter \in Word /\ Counter \in Ram
BY CodeAssumption, LoadStoreAssumption DEF Zero, Word

\* An instruction and its fields.
LEMMA InsType ==
  ASSUME NEW i \in Opcodes, NEW b \in Reg, NEW r \in Reg, NEW w \in Word
  PROVE  /\ Ins(i, b, r, w) \in Instrs
         /\ Ins(i, b, r, w).op = i /\ Ins(i, b, r, w).base = b
         /\ Ins(i, b, r, w).reg = r /\ Ins(i, b, r, w).imm = w
BY DEF Ins, Instrs

\* Words of memory as wholes.
LEMMA WholeWord ==
  /\ Lanes # {}
  /\ \A w \in Word : Select(w, FullMask) = w
  /\ \A old, w \in Word : Merge(old, w, FullMask) = w
<1>1. Lanes # {}
  BY LoadStoreAssumption DEF Zero, Word
<1>2. ASSUME NEW w \in Word PROVE Select(w, FullMask) = w
  BY <1>2 DEF Select, FullMask, Word
<1>3. ASSUME NEW old \in Word, NEW w \in Word PROVE Merge(old, w, FullMask) = w
  BY <1>3 DEF Merge, FullMask, Word
<1> QED BY <1>1, <1>2, <1>3

\* A load that finds its word.
LEMMA LoadedWhole ==
  ASSUME NEW x \in Machine, NEW kind, NEW ra \in Reg, NEW rd \in Reg, NEW imm \in Word,
         NEW ea, ea = EffectiveAddress(kind, x.reg[ra], imm), ea \in Ram,
         kind \notin PreIndexed
  PROVE  LET y == Loaded(x, kind, ra, rd, FullMask, imm)
             done == Put(x.reg, rd, x.mem[ea])
         IN  /\ y.reg = IF kind \in PostIndexed
                        THEN Put(done, ra, Plus(x.reg[ra], imm)) ELSE done
             /\ y.addr = IF kind = "LDREX" THEN ea ELSE x.addr
<1>1. FullMask # {} /\ ~Faults(ea, FullMask) /\ x.mem[ea] \in Word
  BY WholeWord, FieldTypes DEF Faults, FullMask
<1>2. Select(x.mem[ea], FullMask) = x.mem[ea]
  BY <1>1, WholeWord
<1> DEFINE data == IF FullMask = {} THEN Zero ELSE Select(x.mem[ea], FullMask)
<1>3. data = x.mem[ea]
  BY <1>1, <1>2
<1> DEFINE begun == [x EXCEPT
             !.reg   = IF kind \in PreIndexed THEN Put(@, ra, ea) ELSE @,
             !.valid = @ \/ kind = "LDREX",
             !.addr  = IF kind = "LDREX" THEN ea ELSE @]
           done == Put(begun.reg, rd, data)
           last == IF kind \in PostIndexed THEN Put(done, ra, Plus(x.reg[ra], imm))
                                           ELSE done
           y == Loaded(x, kind, ra, rd, FullMask, imm)
<1>4. y = [begun EXCEPT !.reg = last]
  BY <1>1 DEF Loaded
<1>5. begun \in Machine /\ begun.reg = x.reg
      /\ begun.addr = IF kind = "LDREX" THEN ea ELSE x.addr
  <2> DEFINE valid == x.valid \/ kind = "LDREX"
             addr  == IF kind = "LDREX" THEN ea ELSE x.addr
  <2>1. valid \in BOOLEAN /\ addr \in Word
    BY FieldTypes, LoadStoreAssumption
  <2>2. begun = [x EXCEPT !.reg = @, !.valid = valid, !.addr = addr]
    OBVIOUS
  <2> HIDE DEF begun, valid, addr
  <2>3. begun \in Machine /\ begun.reg = x.reg /\ begun.addr = addr
    BY <2>1, <2>2 DEF Machine
  <2> QED BY <2>3 DEF addr
<1> HIDE DEF begun, last, y, data
<1>6. y.reg = last /\ y.addr = begun.addr
  BY <1>4, <1>5 DEF Machine
<1> QED BY <1>3, <1>5, <1>6 DEF last, y

\* A store that finds its word.
LEMMA StoredWhole ==
  ASSUME NEW x \in Machine, NEW kind, NEW ra \in Reg, NEW rs \in Reg, NEW imm \in Word,
         NEW ea, ea = EffectiveAddress(kind, x.reg[ra], imm), ea \in Ram,
         kind \notin PreIndexed
  PROVE  LET y == Stored(x, kind, ra, rs, FullMask, imm)
         IN  /\ y.reg = IF kind \in PostIndexed
                        THEN Put(x.reg, ra, Plus(ea, imm)) ELSE x.reg
             /\ y.mem = [x.mem EXCEPT ![ea] = x.reg[rs]]
<1>1. /\ FullMask # {} /\ ~Faults(ea, FullMask)
      /\ x.mem[ea] \in Word /\ x.reg[rs] \in Word
  BY WholeWord, FieldTypes DEF Faults, FullMask
<1>2. Merge(x.mem[ea], x.reg[rs], FullMask) = x.reg[rs]
  BY <1>1, WholeWord
<1> DEFINE begun == [x EXCEPT
             !.reg   = IF kind \in PreIndexed THEN Put(@, ra, ea) ELSE @,
             !.valid = FALSE]
           moved == Put(begun.reg, ra, Plus(ea, imm))
           data == Merge(begun.mem[ea], begun.reg[rs], FullMask)
           mem == [begun.mem EXCEPT ![ea] = data]
           reg == IF kind \in PostIndexed THEN moved ELSE begun.reg
           y == Stored(x, kind, ra, rs, FullMask, imm)
<1>3. y = [begun EXCEPT !.mem[ea] = data, !.reg = IF kind \in PostIndexed THEN moved ELSE @]
  BY <1>1 DEF Stored
<1>4. begun \in Machine /\ begun.reg = x.reg /\ begun.mem = x.mem
  BY DEF Machine
<1>5. data = x.reg[rs]
  BY <1>2, <1>4
<1> HIDE DEF begun, moved, data, y
<1>6. y = [begun EXCEPT !.mem = mem, !.reg = reg]
  BY <1>3
<1> HIDE DEF mem, reg
<1>7. y.mem = mem /\ y.reg = reg
  BY <1>6, <1>4 DEF Machine
<1> QED BY <1>4, <1>5, <1>7 DEF mem, reg, moved, y

\* An exclusive store to a word of memory.
LEMMA StrexedWhole ==
  ASSUME NEW x \in Machine, NEW ra \in Reg, NEW rs \in Reg, NEW rd \in Reg, NEW imm \in Word,
         Plus(x.reg[ra], imm) \in Ram
  PROVE  LET y == Strexed(x, ra, rs, rd, imm, Zero, One)
             ea == Plus(x.reg[ra], imm)
         IN  IF ExclusiveHeld(x, ea)
             THEN /\ y.mem = [x.mem EXCEPT ![ea] = x.reg[rs]]
                  /\ y.reg = Put(x.reg, rd, Zero)
             ELSE y.mem = x.mem /\ y.reg = Put(x.reg, rd, One)
<1> DEFINE begun == [x EXCEPT !.valid = FALSE]
           ea == Plus(x.reg[ra], imm)
           mem == [begun.mem EXCEPT ![ea] = x.reg[rs]]
           y == Strexed(x, ra, rs, rd, imm, Zero, One)
<1>1. begun \in Machine /\ begun.reg = x.reg /\ begun.mem = x.mem
  BY DEF Machine
<1>2. y = IF ~ExclusiveHeld(x, ea)
          THEN [begun EXCEPT !.reg = Put(@, rd, One)]
          ELSE [begun EXCEPT !.mem[ea] = x.reg[rs], !.reg = Put(@, rd, Zero)]
  BY DEF Strexed
<1> HIDE DEF begun, y
<1>3. CASE ExclusiveHeld(x, ea)
  <2>1. y = [begun EXCEPT !.mem = mem, !.reg = Put(@, rd, Zero)]
    BY <1>2, <1>3
  <2> HIDE DEF mem
  <2>2. y.mem = mem /\ y.reg = Put(begun.reg, rd, Zero)
    BY <2>1, <1>1 DEF Machine
  <2> QED BY <2>2, <1>1, <1>3 DEF mem, y
<1>4. CASE ~ExclusiveHeld(x, ea)
  <2>1. y.mem = begun.mem /\ y.reg = Put(begun.reg, rd, One)
    BY <1>1, <1>2, <1>4 DEF Machine
  <2> QED BY <2>1, <1>1, <1>4 DEF y
<1> QED BY <1>3, <1>4

\* ADDI and SUBI.
LEMMA AfterAdd ==
  ASSUME cpu \in Machine, NEW i \in {"ADDI", "SUBI"}, NEW b \in Reg,
         NEW r \in Reg, r # R0, NEW w \in Word,
         cpu' = After(Ins(i, b, r, w))
  PROVE  /\ cpu' \in Machine
         /\ cpu'.reg = [cpu.reg EXCEPT ![r] = Plus(cpu.reg[b], w)]
         /\ cpu'.mem = cpu.mem /\ (cpu'.valid <=> cpu.valid) /\ cpu'.addr = cpu.addr
<1>1. cpu' = [cpu EXCEPT !.reg = Put(@, r, Plus(@[b], w))]
  BY DEF After, Ins
<1>2. Put(cpu.reg, r, Plus(cpu.reg[b], w)) = [cpu.reg EXCEPT ![r] = Plus(cpu.reg[b], w)]
  BY DEF Put
<1>3. Plus(cpu.reg[b], w) \in Word
  BY FieldTypes, LoadStoreAssumption
<1> DEFINE reg == [cpu.reg EXCEPT ![r] = Plus(cpu.reg[b], w)]
<1>4. reg \in [Reg -> Word]
  BY <1>3, FieldTypes
<1>5. cpu' = [cpu EXCEPT !.reg = reg]
  BY <1>1, <1>2
<1> HIDE DEF reg
<1>6. /\ cpu' \in Machine /\ cpu'.reg = reg
      /\ cpu'.mem = cpu.mem /\ (cpu'.valid <=> cpu.valid) /\ cpu'.addr = cpu.addr
  BY <1>4, <1>5 DEF Machine
<1> QED BY <1>6 DEF reg

\* LDRPOST with the immediate 0, as POP uses it.
LEMMA AfterPopped ==
  ASSUME cpu \in Machine, NEW b \in Reg, NEW r \in Reg, r # R0, b # R0, r # b,
         cpu.reg[b] \in Ram,
         cpu' = After(Ins("LDRPOST", b, r, Zero))
  PROVE  /\ cpu' \in Machine
         /\ cpu'.reg = [cpu.reg EXCEPT ![r] = cpu.mem[cpu.reg[b]]]
         /\ cpu'.mem = cpu.mem /\ (cpu'.valid <=> cpu.valid) /\ cpu'.addr = cpu.addr
<1> DEFINE a == cpu.reg[b]
           kind == "LDRPOST"
<1>1. cpu' = Loaded(cpu, kind, b, r, FullMask, Zero)
  BY DEF After, Ins
<1>2. cpu' \in Machine
  BY <1>1, LoadedType, Regs
<1>3. a \in Word /\ cpu.mem[a] \in Word /\ Plus(a, Zero) = a
  BY FieldTypes, CodeAssumption
<1>4. /\ EffectiveAddress(kind, a, Zero) = a /\ ~Faults(a, FullMask)
      /\ FullMask # {} /\ Select(cpu.mem[a], FullMask) = cpu.mem[a]
  BY <1>3, WholeWord DEF EffectiveAddress, PostIndexed, Faults, FullMask
<1>5. kind \in PostIndexed /\ kind \notin PreIndexed /\ kind # "LDREX"
  BY DEF PostIndexed, PreIndexed
<1>6. cpu'.reg = Put(Put(cpu.reg, r, cpu.mem[a]), b, a) /\ cpu'.addr = cpu.addr
  <2>1. a = EffectiveAddress(kind, cpu.reg[b], Zero)
    BY <1>4
  <2> HIDE DEF kind, a
  <2>2. LET y == Loaded(cpu, kind, b, r, FullMask, Zero)
            done == Put(cpu.reg, r, cpu.mem[a])
        IN  /\ y.reg = IF kind \in PostIndexed
                       THEN Put(done, b, Plus(cpu.reg[b], Zero)) ELSE done
            /\ y.addr = IF kind = "LDREX" THEN a ELSE cpu.addr
    BY <2>1, <1>5, LoadedWhole, Regs DEF a
  <2> QED BY <2>2, <1>1, <1>3, <1>5 DEF a
<1>8. cpu'.mem = cpu.mem /\ (cpu'.valid <=> cpu.valid)
  BY <1>1, LoadedMemory, LoadedMonitor, Regs
<1>7. Put(Put(cpu.reg, r, cpu.mem[a]), b, a) = [cpu.reg EXCEPT ![r] = cpu.mem[a]]
  BY FieldTypes DEF Put
<1> QED BY <1>2, <1>6, <1>7, <1>8

\* LDR and LDREX of the counter.
LEMMA AfterLoaded ==
  ASSUME cpu \in Machine, NEW i \in {"LDR", "LDREX"}, NEW r \in Reg, r # R0,
         cpu.reg[R0] = Zero,
         cpu' = After(Ins(i, R0, r, Counter))
  PROVE  /\ cpu' \in Machine
         /\ cpu'.reg = [cpu.reg EXCEPT ![r] = cpu.mem[Counter]]
         /\ cpu'.mem = cpu.mem
<1>1. cpu' = Loaded(cpu, i, R0, r, FullMask, Counter)
  BY DEF After, Ins
<1>2. cpu' \in Machine
  BY <1>1, LoadedType, Regs
<1>3. Plus(Zero, Counter) = Counter /\ cpu.mem[Counter] \in Word
  BY FieldTypes, CodeAssumption, Regs
<1>4. i \notin PostIndexed /\ i \notin PreIndexed
  BY DEF PostIndexed, PreIndexed
<1>5. /\ EffectiveAddress(i, Zero, Counter) = Counter /\ ~Faults(Counter, FullMask)
      /\ FullMask # {} /\ Select(cpu.mem[Counter], FullMask) = cpu.mem[Counter]
  BY <1>3, <1>4, WholeWord, Regs DEF EffectiveAddress, Faults, FullMask
<1>6. /\ cpu'.reg = Put(cpu.reg, r, cpu.mem[Counter])
      /\ cpu'.mem = cpu.mem
  BY <1>1, <1>3, <1>4, <1>5 DEF Loaded, Machine
<1> QED BY <1>2, <1>6 DEF Put

\* STRPOST with the immediate 0, as PUSH uses it.
LEMMA AfterPushed ==
  ASSUME cpu \in Machine, NEW b \in Reg, NEW r \in Reg, b # R0,
         cpu.reg[b] \in Ram,
         cpu' = After(Ins("STRPOST", b, r, Zero))
  PROVE  /\ cpu' \in Machine
         /\ cpu'.reg = cpu.reg
         /\ cpu'.mem = [cpu.mem EXCEPT ![cpu.reg[b]] = cpu.reg[r]]
         /\ ~cpu'.valid
<1> DEFINE a == cpu.reg[b]
           kind == "STRPOST"
<1>1. cpu' = Stored(cpu, kind, b, r, FullMask, Zero)
  BY DEF After, Ins
<1>2. cpu' \in Machine
  BY <1>1, StoredType, Regs
<1>3. /\ a \in Word /\ cpu.mem[a] \in Word /\ Plus(a, Zero) = a
      /\ cpu.reg[r] \in Word
  BY FieldTypes, CodeAssumption
<1>4. /\ EffectiveAddress(kind, a, Zero) = a /\ ~Faults(a, FullMask)
      /\ FullMask # {} /\ Merge(cpu.mem[a], cpu.reg[r], FullMask) = cpu.reg[r]
  BY <1>3, WholeWord DEF EffectiveAddress, PostIndexed, Faults, FullMask
<1>5. kind \in PostIndexed /\ kind \notin PreIndexed
  BY DEF PostIndexed, PreIndexed
<1>6. /\ cpu'.reg = Put(cpu.reg, b, a)
      /\ cpu'.mem = [cpu.mem EXCEPT ![a] = cpu.reg[r]]
  <2>1. a = EffectiveAddress(kind, cpu.reg[b], Zero)
    BY <1>4
  <2> HIDE DEF kind, a
  <2>2. LET y == Stored(cpu, kind, b, r, FullMask, Zero)
        IN  /\ y.reg = IF kind \in PostIndexed
                       THEN Put(cpu.reg, b, Plus(a, Zero)) ELSE cpu.reg
            /\ y.mem = [cpu.mem EXCEPT ![a] = cpu.reg[r]]
    BY <2>1, <1>5, StoredWhole, Regs DEF a
  <2> QED BY <2>2, <1>1, <1>3, <1>5
<1>8. ~cpu'.valid
  BY <1>1, StoredMonitor, Regs
<1>7. Put(cpu.reg, b, a) = cpu.reg
  BY FieldTypes DEF Put
<1> QED BY <1>2, <1>6, <1>7, <1>8

\* STR to the counter.
LEMMA AfterStored ==
  ASSUME cpu \in Machine, NEW r \in Reg, cpu.reg[R0] = Zero,
         cpu' = After(Ins("STR", R0, r, Counter))
  PROVE  /\ cpu' \in Machine
         /\ cpu'.reg = cpu.reg
         /\ cpu'.mem = [cpu.mem EXCEPT ![Counter] = cpu.reg[r]]
         /\ ~cpu'.valid
<1> DEFINE kind == "STR"
<1>1. cpu' = Stored(cpu, kind, R0, r, FullMask, Counter)
  BY DEF After, Ins
<1>2. cpu' \in Machine
  BY <1>1, StoredType, Regs
<1>3. /\ Plus(Zero, Counter) = Counter /\ cpu.mem[Counter] \in Word
      /\ cpu.reg[r] \in Word
  BY FieldTypes, CodeAssumption, Regs
<1>4. kind \notin PostIndexed /\ kind \notin PreIndexed
  BY DEF PostIndexed, PreIndexed
<1>5. /\ EffectiveAddress(kind, Zero, Counter) = Counter /\ ~Faults(Counter, FullMask)
      /\ FullMask # {} /\ Merge(cpu.mem[Counter], cpu.reg[r], FullMask) = cpu.reg[r]
  BY <1>3, <1>4, WholeWord, Regs DEF EffectiveAddress, Faults, FullMask
<1>6. cpu'.reg = cpu.reg /\ cpu'.mem = [cpu.mem EXCEPT ![Counter] = cpu.reg[r]]
  <2>1. Counter = EffectiveAddress(kind, cpu.reg[R0], Counter)
    BY <1>5
  <2> HIDE DEF kind
  <2>2. LET y == Stored(cpu, kind, R0, r, FullMask, Counter)
        IN  /\ y.reg = IF kind \in PostIndexed
                       THEN Put(cpu.reg, R0, Plus(Counter, Counter)) ELSE cpu.reg
            /\ y.mem = [cpu.mem EXCEPT ![Counter] = cpu.reg[r]]
    BY <2>1, <1>4, StoredWhole, Regs
  <2> QED BY <2>2, <1>1, <1>4
<1>7. ~cpu'.valid
  BY <1>1, StoredMonitor, Regs
<1> QED BY <1>2, <1>6, <1>7

\* STREX to the counter, with its status in R3.
LEMMA AfterExclusive ==
  ASSUME cpu \in Machine, NEW r \in Reg, cpu.reg[R0] = Zero,
         cpu' = After(Ins("STREX", R0, r, Counter))
  PROVE  /\ cpu' \in Machine
         /\ ~cpu'.valid
         /\ \/ /\ cpu.valid /\ cpu.addr = Counter
               /\ cpu'.mem = [cpu.mem EXCEPT ![Counter] = cpu.reg[r]]
               /\ cpu'.reg = [cpu.reg EXCEPT ![R3] = Zero]
            \/ /\ cpu'.mem = cpu.mem
               /\ cpu'.reg = [cpu.reg EXCEPT ![R3] = One]
<1>1. cpu' = Strexed(cpu, R0, r, R3, Counter, Zero, One)
  BY DEF After, Ins
<1>2. cpu' \in Machine /\ ~cpu'.valid
  <2>1. R0 \in Reg /\ R3 \in Reg /\ Counter \in Word
    BY Regs
  <2>2. /\ Strexed(cpu, R0, r, R3, Counter, Zero, One) \in Machine
        /\ ~Strexed(cpu, R0, r, R3, Counter, Zero, One).valid
    BY <2>1, StrexedType, StrexedMonitor
  <2> QED BY <1>1, <2>2
<1>3. Plus(Zero, Counter) = Counter /\ Counter \in Ram /\ R3 # R0 /\ R3 \in Reg
  BY CodeAssumption, Regs
<1>4. IF ExclusiveHeld(cpu, Counter)
      THEN /\ cpu'.mem = [cpu.mem EXCEPT ![Counter] = cpu.reg[r]]
           /\ cpu'.reg = Put(cpu.reg, R3, Zero)
      ELSE cpu'.mem = cpu.mem /\ cpu'.reg = Put(cpu.reg, R3, One)
  BY <1>1, <1>3, StrexedWhole, Regs
<1>5. /\ Put(cpu.reg, R3, Zero) = [cpu.reg EXCEPT ![R3] = Zero]
      /\ Put(cpu.reg, R3, One) = [cpu.reg EXCEPT ![R3] = One]
  BY <1>3 DEF Put
<1>6. ExclusiveHeld(cpu, Counter) => cpu.valid /\ cpu.addr = Counter
  BY DEF ExclusiveHeld
<1> QED BY <1>2, <1>4, <1>5, <1>6

------------------------------------------------------------------------------
(***************************************************************************)
(* The code of the main program and of the handler, instruction by         *)
(* instruction.                                                            *)
(***************************************************************************)
\* What is left of the handler, from its end: IRET and the restored registers, ...
Rest1 == <<Ins("IRET", R0, R0, Zero)>>
Rest2 == Before(Ins("ADDI", SP, SP, Four), Rest1)
Rest3 == Before(Ins("LDRPOST", SP, R2, Zero), Rest2)
Rest4 == Before(Ins("ADDI", SP, SP, Four), Rest3)
Rest5 == Before(Ins("LDRPOST", SP, R3, Zero), Rest4)
\* ... the three instructions that count, with k to load, ...
Kinds == {"LDR", "LDREX"}
StoreOf(k) == IF k = "LDREX" THEN "STREX" ELSE "STR"
Body1(k) == Before(Ins(StoreOf(k), R0, R2, Counter), Rest5)
Body2(k) == Before(Ins("ADDI", R2, R2, One), Body1(k))
Body3(k) == Before(Ins(k, R0, R2, Counter), Body2(k))
Afters == {Body3(k) : k \in Kinds} \union {Rest5}
\* ... and the saved registers.
Saves1(s) == Before(Ins("STRPOST", SP, R3, Zero), s)
Saves2(s) == Before(Ins("SUBI", SP, SP, MinusFour), Saves1(s))
Saves3(s) == Before(Ins("STRPOST", SP, R2, Zero), Saves2(s))
Saves4(s) == Before(Ins("SUBI", SP, SP, MinusFour), Saves3(s))

\* What is left of a started operation of the main program.
Pushing1 == <<Ins("STRPOST", SP, R1, Zero)>>
Popping1 == <<Ins("ADDI", SP, SP, Four)>>
Counting2 == <<Ins("ADDI", R2, R2, One), Ins("STREX", R0, R2, Counter)>>
Counting1 == <<Ins("STREX", R0, R2, Counter)>>

\* Every instruction of the code is one.
LEMMA InsTypes ==
  /\ Ins("IRET", R0, R0, Zero) \in Instrs
  /\ Ins("ADDI", SP, SP, Four) \in Instrs
  /\ Ins("SUBI", SP, SP, MinusFour) \in Instrs
  /\ Ins("ADDI", R2, R2, One) \in Instrs
  /\ \A x \in {R1, R2, R3} : /\ Ins("LDRPOST", SP, x, Zero) \in Instrs
                             /\ Ins("STRPOST", SP, x, Zero) \in Instrs
  /\ \A k \in Kinds : /\ Ins(k, R0, R2, Counter) \in Instrs
                      /\ Ins(StoreOf(k), R0, R2, Counter) \in Instrs
<1>1. R0 \in Reg /\ SP \in Reg /\ R2 \in Reg /\ {R1, R2, R3} \subseteq Reg
  BY Regs
<1>2. ASSUME NEW k \in Kinds
      PROVE  k \in Opcodes /\ StoreOf(k) \in Opcodes
  <2>1. k = "LDR" \/ k = "LDREX" BY DEF Kinds
  <2> QED BY <2>1 DEF StoreOf, Opcodes
<1>3. \A x \in {R1, R2, R3} : /\ Ins("LDRPOST", SP, x, Zero) \in Instrs
                             /\ Ins("STRPOST", SP, x, Zero) \in Instrs
  BY <1>1, InsType, Regs DEF Opcodes
<1>4. /\ Ins("IRET", R0, R0, Zero) \in Instrs
      /\ Ins("ADDI", SP, SP, Four) \in Instrs
      /\ Ins("SUBI", SP, SP, MinusFour) \in Instrs
      /\ Ins("ADDI", R2, R2, One) \in Instrs
  BY <1>1, InsType, Regs DEF Opcodes
<1>5. \A k \in Kinds : /\ Ins(k, R0, R2, Counter) \in Instrs
                       /\ Ins(StoreOf(k), R0, R2, Counter) \in Instrs
  BY <1>1, <1>2, InsType, Regs
<1> QED BY <1>3, <1>4, <1>5

\* The handler, instruction by instruction.
LEMMA HandlerShape ==
  /\ Rest1 # << >> /\ Head(Rest1) = Ins("IRET", R0, R0, Zero) /\ Tail(Rest1) = << >>
  /\ Rest2 # << >> /\ Head(Rest2) = Ins("ADDI", SP, SP, Four) /\ Tail(Rest2) = Rest1
  /\ Rest3 # << >> /\ Head(Rest3) = Ins("LDRPOST", SP, R2, Zero) /\ Tail(Rest3) = Rest2
  /\ Rest4 # << >> /\ Head(Rest4) = Ins("ADDI", SP, SP, Four) /\ Tail(Rest4) = Rest3
  /\ Rest5 # << >> /\ Head(Rest5) = Ins("LDRPOST", SP, R3, Zero) /\ Tail(Rest5) = Rest4
  /\ Rest3 \in Seq(Instrs) /\ Rest5 \in Seq(Instrs)
<1>1. Rest1 \in Seq(Instrs)
  BY InsTypes DEF Rest1
<1>2. Rest1 # << >> /\ Head(Rest1) = Ins("IRET", R0, R0, Zero) /\ Tail(Rest1) = << >>
  BY InsTypes, Single DEF Rest1
<1> HIDE DEF Rest1
<1>3. /\ Rest2 # << >> /\ Head(Rest2) = Ins("ADDI", SP, SP, Four) /\ Tail(Rest2) = Rest1
      /\ Rest2 \in Seq(Instrs)
  BY <1>1, InsTypes, Consed DEF Rest2
<1>4. /\ Rest3 # << >> /\ Head(Rest3) = Ins("LDRPOST", SP, R2, Zero) /\ Tail(Rest3) = Rest2
      /\ Rest3 \in Seq(Instrs)
  BY <1>3, InsTypes, Consed DEF Rest3
<1>5. /\ Rest4 # << >> /\ Head(Rest4) = Ins("ADDI", SP, SP, Four) /\ Tail(Rest4) = Rest3
      /\ Rest4 \in Seq(Instrs)
  BY <1>4, InsTypes, Consed DEF Rest4
<1>6. /\ Rest5 # << >> /\ Head(Rest5) = Ins("LDRPOST", SP, R3, Zero) /\ Tail(Rest5) = Rest4
      /\ Rest5 \in Seq(Instrs)
  BY <1>5, InsTypes, Consed DEF Rest5
<1> QED BY <1>2, <1>3, <1>4, <1>5, <1>6

\* The three instructions that count, ...
LEMMA BodyShape ==
  ASSUME NEW k \in Kinds
  PROVE  /\ Body1(k) # << >> /\ Head(Body1(k)) = Ins(StoreOf(k), R0, R2, Counter)
         /\ Tail(Body1(k)) = Rest5
         /\ Body2(k) # << >> /\ Head(Body2(k)) = Ins("ADDI", R2, R2, One)
         /\ Tail(Body2(k)) = Body1(k)
         /\ Body3(k) # << >> /\ Head(Body3(k)) = Ins(k, R0, R2, Counter)
         /\ Tail(Body3(k)) = Body2(k)
         /\ Body3(k) \in Seq(Instrs)
<1>1. /\ Body1(k) # << >> /\ Head(Body1(k)) = Ins(StoreOf(k), R0, R2, Counter)
      /\ Tail(Body1(k)) = Rest5 /\ Body1(k) \in Seq(Instrs)
  <2>1. Ins(StoreOf(k), R0, R2, Counter) \in Instrs /\ Rest5 \in Seq(Instrs)
    BY HandlerShape, InsTypes
  <2> HIDE DEF Rest5
  <2> QED BY <2>1, Consed DEF Body1
<1>2. /\ Body2(k) # << >> /\ Head(Body2(k)) = Ins("ADDI", R2, R2, One)
      /\ Tail(Body2(k)) = Body1(k) /\ Body2(k) \in Seq(Instrs)
  BY <1>1, InsTypes, Consed DEF Body2
<1>3. /\ Body3(k) # << >> /\ Head(Body3(k)) = Ins(k, R0, R2, Counter)
      /\ Tail(Body3(k)) = Body2(k) /\ Body3(k) \in Seq(Instrs)
  BY <1>2, InsTypes, Consed DEF Body3
<1> QED BY <1>1, <1>2, <1>3

\* ... and those that save the registers.
LEMMA SavesShape ==
  ASSUME NEW s \in Afters
  PROVE  /\ s \in Seq(Instrs)
         /\ Saves1(s) # << >> /\ Head(Saves1(s)) = Ins("STRPOST", SP, R3, Zero)
         /\ Tail(Saves1(s)) = s
         /\ Saves2(s) # << >> /\ Head(Saves2(s)) = Ins("SUBI", SP, SP, MinusFour)
         /\ Tail(Saves2(s)) = Saves1(s) /\ Saves2(s) \in Seq(Instrs)
         /\ Saves3(s) # << >> /\ Head(Saves3(s)) = Ins("STRPOST", SP, R2, Zero)
         /\ Tail(Saves3(s)) = Saves2(s)
         /\ Saves4(s) # << >> /\ Head(Saves4(s)) = Ins("SUBI", SP, SP, MinusFour)
         /\ Tail(Saves4(s)) = Saves3(s)
<1>1. s \in Seq(Instrs)
  BY HandlerShape, BodyShape DEF Afters
<1>2. /\ Saves1(s) # << >> /\ Head(Saves1(s)) = Ins("STRPOST", SP, R3, Zero)
      /\ Tail(Saves1(s)) = s /\ Saves1(s) \in Seq(Instrs)
  BY <1>1, InsTypes, Consed DEF Saves1
<1>3. /\ Saves2(s) # << >> /\ Head(Saves2(s)) = Ins("SUBI", SP, SP, MinusFour)
      /\ Tail(Saves2(s)) = Saves1(s) /\ Saves2(s) \in Seq(Instrs)
  BY <1>2, InsTypes, Consed DEF Saves2
<1>4. /\ Saves3(s) # << >> /\ Head(Saves3(s)) = Ins("STRPOST", SP, R2, Zero)
      /\ Tail(Saves3(s)) = Saves2(s) /\ Saves3(s) \in Seq(Instrs)
  BY <1>3, InsTypes, Consed DEF Saves3
<1>5. /\ Saves4(s) # << >> /\ Head(Saves4(s)) = Ins("SUBI", SP, SP, MinusFour)
      /\ Tail(Saves4(s)) = Saves3(s)
  BY <1>4, InsTypes, Consed DEF Saves4
<1> QED BY <1>1, <1>2, <1>3, <1>4, <1>5

\* Two instructions are one before another.
LEMMA PairSplit == ASSUME NEW S, NEW a \in S, NEW b \in S
  PROVE <<a, b>> = <<a>> \o <<b>>
<1>1. /\ <<a, b>> \in Seq(S) /\ <<a>> \in Seq(S) /\ <<b>> \in Seq(S)
  OBVIOUS
<1>2. Len(<<a, b>>) = 2 /\ Len(<<a>>) = 1 /\ Len(<<b>>) = 1
  OBVIOUS
<1> DEFINE t == <<a>> \o <<b>>
           u == <<a, b>>
<1>3. Len(t) = 2 /\ t \in Seq(S) /\ t[1] = a /\ t[2] = b
  BY <1>1, <1>2
<1>4. u \in Seq(S) /\ Len(u) = 2 /\ u[1] = a /\ u[2] = b
  BY <1>1, <1>2
<1> HIDE DEF t, u
<1>5. \A i \in 1 .. Len(u) : u[i] = t[i]
  BY <1>3, <1>4
<1>6. u = t
  BY <1>3, <1>4, <1>5, SeqEqual
<1> QED BY <1>6 DEF t, u
\* Likewise for three.
LEMMA TripleSplit == ASSUME NEW S, NEW a \in S, NEW b \in S, NEW c \in S
  PROVE <<a, b, c>> = <<a>> \o <<b, c>>
<1>1. /\ <<a>> \in Seq(S) /\ <<b, c>> \in Seq(S)
  OBVIOUS
<1>2. Len(<<b, c>>) = 2 /\ Len(<<a>>) = 1
  OBVIOUS
<1> DEFINE t == <<a>> \o <<b, c>>
           u == <<a, b, c>>
<1>3. Len(t) = 3 /\ t \in Seq(S) /\ t[1] = a /\ t[2] = b /\ t[3] = c
  BY <1>1, <1>2
<1>4. u \in Seq(S) /\ Len(u) = 3 /\ u[1] = a /\ u[2] = b /\ u[3] = c
  OBVIOUS
<1> HIDE DEF t, u
<1>5. \A i \in 1 .. Len(u) : u[i] = t[i]
  BY <1>3, <1>4
<1>6. u = t
  BY <1>3, <1>4, <1>5, SeqEqual
<1> QED BY <1>6 DEF t, u

\* They are the same sequence written one way ...
LEMMA PairBefore ==
  ASSUME NEW S, NEW a \in S, NEW b \in S, NEW s \in Seq(S)
  PROVE  <<a, b>> \o s = Before(a, Before(b, s))
<1> DEFINE p == <<a>>
           q == <<b>>
           u == <<a, b>>
<1>1. p \in Seq(S) /\ q \in Seq(S)
  OBVIOUS
<1>2. u = p \o q
  BY PairSplit
<1>3. Before(a, Before(b, s)) = p \o (q \o s)
  BY DEF Before
<1> HIDE DEF p, q, u
<1>4. u \o s = p \o (q \o s)
  BY <1>1, <1>2, ConcatAssociative
<1> QED BY <1>3, <1>4 DEF u

\* ... or another.
LEMMA TripleBefore ==
  ASSUME NEW S, NEW a \in S, NEW b \in S, NEW c \in S, NEW s \in Seq(S)
  PROVE  <<a, b, c>> \o s = Before(a, Before(b, Before(c, s)))
<1> DEFINE p == <<a>>
           q == <<b, c>>
           u == <<a, b, c>>
<1>1. p \in Seq(S) /\ q \in Seq(S)
  OBVIOUS
<1>2. u = p \o q
  BY TripleSplit
<1>3. q \o s = Before(b, Before(c, s))
  BY PairBefore
<1>4. Before(a, q \o s) = p \o (q \o s)
  BY DEF Before
<1> HIDE DEF p, q, u
<1>5. u \o s = p \o (q \o s)
  BY <1>1, <1>2, ConcatAssociative
<1> QED BY <1>3, <1>4, <1>5 DEF u

\* Concatenation, and why six parts may be put together from either end.
Join(x, y) == x \o y

\* Code after code is code, ...
LEMMA JoinType ==
  ASSUME NEW S, NEW x \in Seq(S), NEW y \in Seq(S)
  PROVE  Join(x, y) \in Seq(S)
BY DEF Join

\* ... in whatever order it was put together.
LEMMA JoinAssociates ==
  ASSUME NEW S, NEW x \in Seq(S), NEW y \in Seq(S), NEW z \in Seq(S)
  PROVE  Join(Join(x, y), z) = Join(x, Join(y, z))
BY ConcatAssociative DEF Join

\* Six pieces of code in a row.
LEMMA SixInRow ==
  ASSUME NEW S, NEW x1 \in Seq(S), NEW x2 \in Seq(S), NEW x3 \in Seq(S),
         NEW x4 \in Seq(S), NEW x5 \in Seq(S), NEW x6 \in Seq(S)
  PROVE  Join(Join(Join(Join(Join(x1, x2), x3), x4), x5), x6)
           = Join(x1, Join(x2, Join(x3, Join(x4, Join(x5, x6)))))
<1>1. /\ Join(x1, x2) \in Seq(S)
      /\ Join(Join(x1, x2), x3) \in Seq(S)
      /\ Join(Join(Join(x1, x2), x3), x4) \in Seq(S)
      /\ Join(x5, x6) \in Seq(S)
      /\ Join(x4, Join(x5, x6)) \in Seq(S)
      /\ Join(x3, Join(x4, Join(x5, x6))) \in Seq(S)
  BY JoinType
<1> QED BY <1>1, JoinAssociates

\* The handler of every body starts as the invariant has it.
LEMMA HandlerCode ==
  /\ \A b \in {Attempt, Plainly, << >>} : \E s \in Afters : Handler(b) = Saves4(s)
<1>1. /\ Push(R2) \in Seq(Instrs) /\ Push(R3) \in Seq(Instrs)
      /\ Pop(R2) \in Seq(Instrs) /\ Pop(R3) \in Seq(Instrs)
      /\ Rest1 \in Seq(Instrs)
  BY InsTypes DEF Push, Pop, Rest1
<1>2. /\ Attempt \in Seq(Instrs) /\ Plainly \in Seq(Instrs)
  BY InsTypes DEF Attempt, Plainly, Kinds, StoreOf
<1>3. Pop(R2) \o Rest1 = Rest3
  BY <1>1, InsTypes, PairBefore DEF Pop, Rest3, Rest2
<1>4. Pop(R3) \o Rest3 = Rest5
  BY HandlerShape, InsTypes, PairBefore DEF Pop, Rest5, Rest4
<1>5. Attempt \o Rest5 = Body3("LDREX")
  <2>1. StoreOf("LDREX") = "STREX" /\ "LDREX" \in Kinds BY DEF StoreOf, Kinds
  <2>2. /\ Ins("LDREX", R0, R2, Counter) \in Instrs
        /\ Ins("STREX", R0, R2, Counter) \in Instrs
    BY <2>1, InsTypes
  <2> QED BY <2>1, <2>2, HandlerShape, InsTypes, TripleBefore
          DEF Attempt, Body3, Body2, Body1
<1>6. Plainly \o Rest5 = Body3("LDR")
  <2>1. StoreOf("LDR") = "STR" /\ "LDR" \in Kinds BY DEF StoreOf, Kinds
  <2>2. Ins("LDR", R0, R2, Counter) \in Instrs /\ Ins("STR", R0, R2, Counter) \in Instrs
    BY <2>1, InsTypes
  <2> QED BY <2>1, <2>2, HandlerShape, InsTypes, TripleBefore
          DEF Plainly, Body3, Body2, Body1
<1>7. ASSUME NEW b \in {Attempt, Plainly, << >>}
      PROVE  b \o Rest5 \in Afters /\ b \in Seq(Instrs)
  <2>1. << >> \o Rest5 = Rest5 /\ << >> \in Seq(Instrs)
    BY HandlerShape, ConcatEmptySeq
  <2>2. "LDR" \in Kinds /\ "LDREX" \in Kinds BY DEF Kinds
  <2> HIDE DEF Attempt, Plainly, Rest5
  <2> QED BY <1>2, <1>5, <1>6, <2>1, <2>2 DEF Afters
<1>8. ASSUME NEW s \in Afters
      PROVE  Push(R2) \o (Push(R3) \o s) = Saves4(s)
  <2>1. s \in Seq(Instrs) /\ Saves2(s) \in Seq(Instrs) BY SavesShape
  <2>2. Push(R3) \o s = Saves2(s)
    BY <2>1, InsTypes, PairBefore DEF Push, Saves2, Saves1
  <2>3. Push(R2) \o Saves2(s) = Saves4(s)
    BY <2>1, InsTypes, PairBefore DEF Push, Saves4, Saves3
  <2> QED BY <2>2, <2>3
<1>9. ASSUME NEW b \in {Attempt, Plainly, << >>}
      PROVE  Handler(b) = Push(R2) \o (Push(R3) \o (b \o Rest5))
  <2> DEFINE p2 == Push(R2)
             p3 == Push(R3)
             q3 == Pop(R3)
             q2 == Pop(R2)
  <2>1. Handler(b) = Join(Join(Join(Join(Join(p2, p3), b), q3), q2), Rest1)
    BY DEF Handler, Rest1, Join
  <2>2. /\ p2 \in Seq(Instrs) /\ p3 \in Seq(Instrs) /\ b \in Seq(Instrs)
        /\ q3 \in Seq(Instrs) /\ q2 \in Seq(Instrs) /\ Rest1 \in Seq(Instrs)
    BY <1>1, <1>7
  <2>3. Join(q3, Join(q2, Rest1)) = Rest5
    BY <1>3, <1>4 DEF Join
  <2> HIDE DEF p2, p3, q2, q3, Rest1, Rest5
  <2>4. Handler(b) = Join(p2, Join(p3, Join(b, Join(q3, Join(q2, Rest1)))))
    BY <2>1, <2>2, SixInRow
  <2> QED BY <2>3, <2>4 DEF p2, p3, Join
<1> QED BY <1>7, <1>8, <1>9

\* The operations of the main program, instruction by instruction.
LEMMA MainShape ==
  /\ Push(R1) # << >> /\ Head(Push(R1)) = Ins("SUBI", SP, SP, MinusFour)
  /\ Push(R1)[1] = Ins("SUBI", SP, SP, MinusFour) /\ Tail(Push(R1)) = Pushing1
  /\ Pushing1 # << >> /\ Head(Pushing1) = Ins("STRPOST", SP, R1, Zero)
  /\ Pushing1[1] = Ins("STRPOST", SP, R1, Zero) /\ Tail(Pushing1) = << >>
  /\ Pop(R1) # << >> /\ Head(Pop(R1)) = Ins("LDRPOST", SP, R1, Zero)
  /\ Pop(R1)[1] = Ins("LDRPOST", SP, R1, Zero) /\ Tail(Pop(R1)) = Popping1
  /\ Popping1 # << >> /\ Head(Popping1) = Ins("ADDI", SP, SP, Four)
  /\ Popping1[1] = Ins("ADDI", SP, SP, Four) /\ Tail(Popping1) = << >>
  /\ Attempt # << >> /\ Head(Attempt) = Ins("LDREX", R0, R2, Counter)
  /\ Attempt[1] = Ins("LDREX", R0, R2, Counter) /\ Tail(Attempt) = Counting2
  /\ Counting2 # << >> /\ Head(Counting2) = Ins("ADDI", R2, R2, One)
  /\ Counting2[1] = Ins("ADDI", R2, R2, One) /\ Tail(Counting2) = Counting1
  /\ Counting1 # << >> /\ Head(Counting1) = Ins("STREX", R0, R2, Counter)
  /\ Counting1[1] = Ins("STREX", R0, R2, Counter) /\ Tail(Counting1) = << >>
<1>1. /\ Ins("SUBI", SP, SP, MinusFour) \in Instrs /\ Ins("ADDI", SP, SP, Four) \in Instrs
      /\ Ins("ADDI", R2, R2, One) \in Instrs
      /\ Ins("STRPOST", SP, R1, Zero) \in Instrs /\ Ins("LDRPOST", SP, R1, Zero) \in Instrs
  BY InsTypes
<1>2. Ins("LDREX", R0, R2, Counter) \in Instrs /\ Ins("STREX", R0, R2, Counter) \in Instrs
  <2>1. "LDREX" \in Kinds /\ StoreOf("LDREX") = "STREX" BY DEF Kinds, StoreOf
  <2> QED BY <2>1, InsTypes
<1>3. /\ Push(R1) # << >> /\ Head(Push(R1)) = Ins("SUBI", SP, SP, MinusFour)
      /\ Push(R1)[1] = Ins("SUBI", SP, SP, MinusFour) /\ Tail(Push(R1)) = Pushing1
  BY <1>1, Pair DEF Push, Pushing1
<1>4. /\ Pushing1 # << >> /\ Head(Pushing1) = Ins("STRPOST", SP, R1, Zero)
      /\ Pushing1[1] = Ins("STRPOST", SP, R1, Zero) /\ Tail(Pushing1) = << >>
  BY <1>1, Single DEF Pushing1
<1>5. /\ Pop(R1) # << >> /\ Head(Pop(R1)) = Ins("LDRPOST", SP, R1, Zero)
      /\ Pop(R1)[1] = Ins("LDRPOST", SP, R1, Zero) /\ Tail(Pop(R1)) = Popping1
  BY <1>1, Pair DEF Pop, Popping1
<1>6. /\ Popping1 # << >> /\ Head(Popping1) = Ins("ADDI", SP, SP, Four)
      /\ Popping1[1] = Ins("ADDI", SP, SP, Four) /\ Tail(Popping1) = << >>
  BY <1>1, Single DEF Popping1
<1>7. /\ Attempt # << >> /\ Head(Attempt) = Ins("LDREX", R0, R2, Counter)
      /\ Attempt[1] = Ins("LDREX", R0, R2, Counter) /\ Tail(Attempt) = Counting2
  BY <1>1, <1>2, Triple DEF Attempt, Counting2
<1>8. /\ Counting2 # << >> /\ Head(Counting2) = Ins("ADDI", R2, R2, One)
      /\ Counting2[1] = Ins("ADDI", R2, R2, One) /\ Tail(Counting2) = Counting1
  BY <1>1, <1>2, Pair DEF Counting2, Counting1
<1>9. /\ Counting1 # << >> /\ Head(Counting1) = Ins("STREX", R0, R2, Counter)
      /\ Counting1[1] = Ins("STREX", R0, R2, Counter) /\ Tail(Counting1) = << >>
  BY <1>1, <1>2, Single DEF Counting1
<1> QED BY <1>3, <1>4, <1>5, <1>6, <1>7, <1>8, <1>9

\* The operations differ in their next instruction.
LEMMA MainDistinct ==
  /\ \A c \in {<< >>, Push(R1), Pushing1, Pop(R1), Popping1, Attempt} :
       c # Counting2 /\ c # Counting1
  /\ Counting2 # Counting1
<1> DEFINE Next2(c) == c # << >> /\ c[1].op = "ADDI" /\ c[1].reg # SP
           Next1(c) == c # << >> /\ c[1].op = "STREX"
<1>1. R2 # SP
  BY CodeAssumption
<1>2. /\ Ins("ADDI", R2, R2, One).op = "ADDI" /\ Ins("ADDI", R2, R2, One).reg = R2
      /\ Ins("STREX", R0, R2, Counter).op = "STREX"
      /\ Ins("SUBI", SP, SP, MinusFour).op = "SUBI"
      /\ Ins("STRPOST", SP, R1, Zero).op = "STRPOST"
      /\ Ins("LDRPOST", SP, R1, Zero).op = "LDRPOST"
      /\ Ins("ADDI", SP, SP, Four).op = "ADDI" /\ Ins("ADDI", SP, SP, Four).reg = SP
      /\ Ins("LDREX", R0, R2, Counter).op = "LDREX"
  BY DEF Ins
<1>3. Next2(Counting2) /\ Next1(Counting1) /\ ~Next2(Counting1)
  BY <1>1, <1>2, MainShape
<1>4. ASSUME NEW c \in {<< >>, Push(R1), Pushing1, Pop(R1), Popping1, Attempt}
      PROVE  ~Next2(c) /\ ~Next1(c)
  BY <1>2, <1>4, MainShape
<1> HIDE DEF Next2, Next1
<1> QED BY <1>3, <1>4

------------------------------------------------------------------------------
(***************************************************************************)
(* The invariant of the preempted code, and the steps of the handler.      *)
(***************************************************************************)
\* The registers the handler has not touched, and the words it saves in.
Same(X) == \A x \in Reg \ X : cpu.reg[x] = view[x]
At1 == Plus(view[SP], MinusFour)
At2 == Plus(At1, MinusFour)
SavedR2 == cpu.mem[At1] = view[R2]
SavedR3 == cpu.mem[At2] = view[R3]

\* A reservation that would still hold is for the counter the attempt has read.
Reserved ==
  cpu.valid /\ cpu.addr = Counter =>
    /\ main = Counting2 => view[R2] = cpu.mem[Counter]
    /\ main = Counting1 => view[R2] = Plus(cpu.mem[Counter], One)

\* The handler saves its registers, ...
Saving(s) ==
  \/ handler = Saves4(s) /\ cpu.reg = view /\ Reserved
  \/ handler = Saves3(s) /\ Same({SP}) /\ cpu.reg[SP] = At1 /\ Reserved
  \/ handler = Saves2(s) /\ Same({SP}) /\ cpu.reg[SP] = At1 /\ SavedR2 /\ ~cpu.valid
  \/ handler = Saves1(s) /\ Same({SP}) /\ cpu.reg[SP] = At2 /\ SavedR2 /\ ~cpu.valid
\* ... counts, ...
Counting(k) ==
  /\ SavedR2 /\ SavedR3 /\ cpu.reg[SP] = At2
  /\ \/ handler = Body3(k) /\ Same({SP}) /\ ~cpu.valid
     \/ handler = Body2(k) /\ Same({SP, R2}) /\ cpu.reg[R2] = cpu.mem[Counter]
     \/ handler = Body1(k) /\ Same({SP, R2}) /\ cpu.reg[R2] = Plus(cpu.mem[Counter], One)
\* ... and restores the registers, with no reservation left.
Restoring ==
  /\ ~cpu.valid
  /\ \/ handler = Rest5 /\ Same({SP, R2, R3}) /\ cpu.reg[SP] = At2 /\ SavedR2 /\ SavedR3
     \/ handler = Rest4 /\ Same({SP, R2}) /\ cpu.reg[SP] = At2 /\ SavedR2
     \/ handler = Rest3 /\ Same({SP, R2}) /\ cpu.reg[SP] = At1 /\ SavedR2
     \/ handler = Rest2 /\ Same({SP}) /\ cpu.reg[SP] = At1
     \/ handler = Rest1 /\ cpu.reg = view

\* What holds wherever the handler is, and when it does not run.
HandlerInv ==
  \/ handler = << >> /\ cpu.reg = view /\ Reserved
  \/ \E s \in Afters : Saving(s)
  \/ \E k \in Kinds : Counting(k)
  \/ Restoring

\* The main program has d words on its stack.
MainAt(d) ==
  \/ main \in {<< >>, Attempt, Counting2, Counting1} /\ view[SP] = Slot(d)
  \/ main = Push(R1) /\ d < MaxDepth /\ view[SP] = Slot(d)
  \/ main = Pushing1 /\ d < MaxDepth /\ view[SP] = Slot(d + 1)
  \/ main = Pop(R1) /\ d > 0 /\ view[SP] = Slot(d)
  \/ main = Popping1 /\ d < MaxDepth /\ view[SP] = Slot(d + 1)

\* The inductive invariant.
CodeInv ==
  /\ cpu \in Machine
  /\ view \in [Reg -> Word] /\ view[R0] = Zero
  /\ \E d \in 0 .. MaxDepth : MainAt(d)
  /\ HandlerInv

-----------------------------------------------------------------------------
\* The words the handler saves in are two words of memory above the main
\* program's, which are not the counter.
LEMMA DepthKnown ==
  ASSUME NEW d \in 0 .. MaxDepth, MainAt(d)
  PROVE  /\ MainDepth = d
         /\ \E e \in {d, d + 1} : e \in 0 .. MaxDepth /\ view[SP] = Slot(e)
<1> USE StackAssumption
<1>1. /\ Ins("ADDI", R2, R2, One).op = "ADDI" /\ Ins("ADDI", R2, R2, One).reg = R2
      /\ Ins("STREX", R0, R2, Counter).op = "STREX"
      /\ Ins("SUBI", SP, SP, MinusFour).op = "SUBI"
      /\ Ins("STRPOST", SP, R1, Zero).op = "STRPOST"
      /\ Ins("LDRPOST", SP, R1, Zero).op = "LDRPOST"
      /\ Ins("ADDI", SP, SP, Four).op = "ADDI" /\ Ins("ADDI", SP, SP, Four).reg = SP
      /\ Ins("LDREX", R0, R2, Counter).op = "LDREX"
  BY DEF Ins
<1>2. d \in 0 .. MaxDepth + 1 /\ Depth(Slot(d)) = d /\ Plus(Slot(d + 1), Four) = Slot(d)
  OBVIOUS
<1>3. CASE main \in {<< >>, Attempt, Counting2, Counting1, Push(R1), Pop(R1)}
           /\ view[SP] = Slot(d)
  <2>1. ~Shifted
    BY <1>1, <1>3, MainShape, CodeAssumption DEF Shifted
  <2> QED BY <1>2, <1>3, <2>1 DEF MainDepth
<1>4. CASE main \in {Pushing1, Popping1} /\ d < MaxDepth /\ view[SP] = Slot(d + 1)
  <2>1. Shifted
    BY <1>1, <1>4, MainShape DEF Shifted
  <2> QED BY <1>2, <1>4, <2>1 DEF MainDepth
<1> QED BY <1>3, <1>4 DEF MainAt

\* The two words the handler saves are in memory, below the main program's stack,
\* and neither is the counter.
LEMMA SavedApart ==
  ASSUME NEW e \in 0 .. MaxDepth, view[SP] = Slot(e)
  PROVE  /\ At1 \in Ram /\ At2 \in Ram /\ At1 # At2 /\ At1 # Counter /\ At2 # Counter
         /\ Plus(At2, Four) = At1 /\ Plus(At1, Four) = view[SP]
         /\ \A i \in 1 .. e : Slot(i) \in Ram \ {At1, At2, Counter}
<1> USE StackAssumption
<1>1. At1 = Slot(e + 1) /\ At2 = Slot(e + 2)
  <2>1. e \in 0 .. MaxDepth + 1 /\ e + 1 \in 0 .. MaxDepth + 1 /\ (e + 1) + 1 = e + 2
    OBVIOUS
  <2> QED BY <2>1 DEF At1, At2
<1>2. /\ Slot(e + 1) \in Ram \ {Counter} /\ Depth(Slot(e + 1)) = e + 1
      /\ Slot(e + 2) \in Ram \ {Counter} /\ Depth(Slot(e + 2)) = e + 2
  OBVIOUS
<1>3. Plus(Slot(e + 2), Four) = Slot(e + 1) /\ Plus(Slot(e + 1), Four) = Slot(e)
  <2>1. e \in 0 .. MaxDepth + 1 /\ e + 1 \in 0 .. MaxDepth + 1 /\ (e + 1) + 1 = e + 2
    OBVIOUS
  <2> QED BY <2>1
<1>4. ASSUME NEW i \in 1 .. e PROVE Slot(i) \in Ram \ {Slot(e + 1), Slot(e + 2), Counter}
  <2>1. Slot(i) \in Ram \ {Counter} /\ Depth(Slot(i)) = i
    OBVIOUS
  <2> QED BY <2>1, <1>2
<1> QED BY <1>1, <1>2, <1>3, <1>4

\* What an instruction of the handler does to the memory: it may count, and write
\* the words it saves its registers in.
Effect ==
  /\ \A a \in Ram \ {At1, At2, Counter} : cpu'.mem[a] = cpu.mem[a]
  /\ cpu'.mem[Counter] \in {cpu.mem[Counter], Plus(cpu.mem[Counter], One)}

\* The conditions under which the handler's instructions are looked at.
Running ==
  /\ cpu \in Machine /\ view \in [Reg -> Word] /\ view[R0] = Zero
  /\ handler # << >> /\ cpu' = After(Head(handler)) /\ handler' = Tail(handler)
  /\ UNCHANGED <<main, view>>
  /\ At1 \in Ram /\ At2 \in Ram /\ At1 # At2 /\ At1 # Counter /\ At2 # Counter
  /\ Plus(At2, Four) = At1 /\ Plus(At1, Four) = view[SP]

\* What it leaves alone.
LEMMA RunningFacts ==
  ASSUME Running
  PROVE  /\ At1' = At1 /\ At2' = At2
         /\ \A x \in Reg : view'[x] = view[x]
         /\ cpu.reg \in [Reg -> Word] /\ cpu.mem \in [Ram -> Word]
         /\ {R1, R2, R3, SP} \subseteq Reg /\ R0 \in Reg /\ Counter \in Ram
         /\ R0 # SP /\ R0 # R2 /\ R0 # R3 /\ R2 # SP /\ R3 # SP /\ R2 # R3
BY FieldTypes, CodeAssumption, Regs DEF Running, At1, At2

\* An instruction that saves a register, ...
LEMMA SavingStep ==
  ASSUME Running, NEW s \in Afters, Saving(s)
  PROVE  cpu' \in Machine /\ HandlerInv' /\ Effect
<1> USE RunningFacts, Regs
<1>1. CASE handler = Saves4(s) /\ cpu.reg = view /\ Reserved
  <2>1. cpu' = After(Ins("SUBI", SP, SP, MinusFour)) /\ handler' = Saves3(s)
    BY <1>1, SavesShape DEF Running
  <2>2. /\ cpu' \in Machine
        /\ cpu'.reg = [cpu.reg EXCEPT ![SP] = Plus(cpu.reg[SP], MinusFour)]
        /\ cpu'.mem = cpu.mem /\ (cpu'.valid <=> cpu.valid) /\ cpu'.addr = cpu.addr
    BY <2>1, AfterAdd DEF Running
  <2>3. Saving(s)'
    BY <1>1, <2>1, <2>2 DEF Saving, Same, At1, Reserved, Running
  <2> QED BY <2>2, <2>3 DEF HandlerInv, Effect
<1>2. CASE handler = Saves3(s) /\ Same({SP}) /\ cpu.reg[SP] = At1 /\ Reserved
  <2>1. cpu' = After(Ins("STRPOST", SP, R2, Zero)) /\ handler' = Saves2(s)
    BY <1>2, SavesShape DEF Running
  <2>2. /\ cpu' \in Machine /\ cpu'.reg = cpu.reg /\ ~cpu'.valid
        /\ cpu'.mem = [cpu.mem EXCEPT ![At1] = cpu.reg[R2]]
    BY <1>2, <2>1, AfterPushed DEF Running
  <2>3. Saving(s)'
    BY <1>2, <2>1, <2>2 DEF Saving, Same, SavedR2, Running
  <2> QED BY <2>2, <2>3 DEF HandlerInv, Effect, Running
<1>3. CASE handler = Saves2(s) /\ Same({SP}) /\ cpu.reg[SP] = At1 /\ SavedR2 /\ ~cpu.valid
  <2>1. cpu' = After(Ins("SUBI", SP, SP, MinusFour)) /\ handler' = Saves1(s)
    BY <1>3, SavesShape DEF Running
  <2>2. /\ cpu' \in Machine
        /\ cpu'.reg = [cpu.reg EXCEPT ![SP] = Plus(cpu.reg[SP], MinusFour)]
        /\ cpu'.mem = cpu.mem /\ (cpu'.valid <=> cpu.valid)
    BY <2>1, AfterAdd DEF Running
  <2>3. Saving(s)'
    BY <1>3, <2>1, <2>2 DEF Saving, Same, SavedR2, At2, Running
  <2> QED BY <2>2, <2>3 DEF HandlerInv, Effect
<1>4. CASE handler = Saves1(s) /\ Same({SP}) /\ cpu.reg[SP] = At2 /\ SavedR2 /\ ~cpu.valid
  <2>1. cpu' = After(Ins("STRPOST", SP, R3, Zero)) /\ handler' = s
    BY <1>4, SavesShape DEF Running
  <2>2. /\ cpu' \in Machine /\ cpu'.reg = cpu.reg /\ ~cpu'.valid
        /\ cpu'.mem = [cpu.mem EXCEPT ![At2] = cpu.reg[R3]]
    BY <1>4, <2>1, AfterPushed DEF Running
  <2>3. SavedR2' /\ SavedR3' /\ Same({SP})' /\ cpu'.reg[SP] = At2'
    BY <1>4, <2>2 DEF Same, SavedR2, SavedR3, Running
  <2>4. Effect
    BY <2>2 DEF Effect, Running
  <2>5. CASE s = Rest5
    <3>1. Restoring'
      BY <2>1, <2>2, <2>3, <2>5 DEF Restoring, Same
    <3> QED BY <2>2, <2>4, <3>1 DEF HandlerInv
  <2>6. CASE \E k \in Kinds : s = Body3(k)
    <3>1. PICK k \in Kinds : s = Body3(k) BY <2>6
    <3>2. Counting(k)'
      BY <2>1, <2>2, <2>3, <3>1 DEF Counting
    <3> QED BY <2>2, <2>4, <3>2 DEF HandlerInv
  <2> QED BY <2>5, <2>6 DEF Afters
<1> QED BY <1>1, <1>2, <1>3, <1>4 DEF Saving

\* ... one that counts, ...
LEMMA CountingStep ==
  ASSUME Running, NEW k \in Kinds, Counting(k)
  PROVE  cpu' \in Machine /\ HandlerInv' /\ Effect
<1> USE RunningFacts, Regs
<1>0. SavedR2 /\ SavedR3 /\ cpu.reg[SP] = At2
  BY DEF Counting
<1>1. CASE handler = Body3(k) /\ Same({SP}) /\ ~cpu.valid
  <2>1. cpu' = After(Ins(k, R0, R2, Counter)) /\ handler' = Body2(k)
    BY <1>1, BodyShape DEF Running
  <2>2. k \in {"LDR", "LDREX"} /\ cpu.reg[R0] = Zero
    BY <1>1 DEF Kinds, Same, Running
  <2>3. /\ cpu' \in Machine /\ cpu'.mem = cpu.mem
        /\ cpu'.reg = [cpu.reg EXCEPT ![R2] = cpu.mem[Counter]]
    BY <2>1, <2>2, AfterLoaded DEF Running
  <2>4. Counting(k)'
    BY <1>0, <1>1, <2>1, <2>3 DEF Counting, Same, SavedR2, SavedR3, Running
  <2> QED BY <2>3, <2>4 DEF HandlerInv, Effect
<1>2. CASE handler = Body2(k) /\ Same({SP, R2}) /\ cpu.reg[R2] = cpu.mem[Counter]
  <2>1. cpu' = After(Ins("ADDI", R2, R2, One)) /\ handler' = Body1(k)
    BY <1>2, BodyShape DEF Running
  <2>2. /\ cpu' \in Machine /\ cpu'.mem = cpu.mem
        /\ cpu'.reg = [cpu.reg EXCEPT ![R2] = Plus(cpu.reg[R2], One)]
    BY <2>1, AfterAdd DEF Running
  <2>3. Counting(k)'
    BY <1>0, <1>2, <2>1, <2>2 DEF Counting, Same, SavedR2, SavedR3, Running
  <2> QED BY <2>2, <2>3 DEF HandlerInv, Effect
<1>3. CASE handler = Body1(k) /\ Same({SP, R2}) /\ cpu.reg[R2] = Plus(cpu.mem[Counter], One)
  <2>1. cpu' = After(Ins(StoreOf(k), R0, R2, Counter)) /\ handler' = Rest5
    BY <1>3, BodyShape DEF Running
  <2>2. cpu.reg[R0] = Zero
    BY <1>3 DEF Same, Running
  <2>3. /\ cpu' \in Machine /\ ~cpu'.valid
        /\ \A x \in Reg \ {R3} : cpu'.reg[x] = cpu.reg[x]
        /\ \/ cpu'.mem = cpu.mem
           \/ cpu'.mem = [cpu.mem EXCEPT ![Counter] = cpu.reg[R2]]
    <3>1. CASE StoreOf(k) = "STR"
      BY <2>1, <2>2, <3>1, AfterStored DEF Running
    <3>2. CASE StoreOf(k) = "STREX"
      BY <2>1, <2>2, <3>2, AfterExclusive DEF Running
    <3> QED BY <3>1, <3>2 DEF StoreOf
  <2>4. Restoring'
    BY <1>0, <1>3, <2>1, <2>3 DEF Restoring, Same, SavedR2, SavedR3, Running
  <2>5. Effect
    BY <1>3, <2>3 DEF Effect, Running
  <2> QED BY <2>3, <2>4, <2>5 DEF HandlerInv
<1> QED BY <1>1, <1>2, <1>3 DEF Counting

\* ... and one that restores a register keep the invariant.
LEMMA RestoringStep ==
  ASSUME Running, Restoring
  PROVE  cpu' \in Machine /\ HandlerInv' /\ Effect
<1> USE RunningFacts, Regs
<1>0. ~cpu.valid
  BY DEF Restoring
<1>1. CASE handler = Rest5 /\ Same({SP, R2, R3}) /\ cpu.reg[SP] = At2 /\ SavedR2 /\ SavedR3
  <2>1. cpu' = After(Ins("LDRPOST", SP, R3, Zero)) /\ handler' = Rest4
    BY <1>1, HandlerShape DEF Running
  <2>2. /\ cpu' \in Machine /\ cpu'.mem = cpu.mem /\ ~cpu'.valid
        /\ cpu'.reg = [cpu.reg EXCEPT ![R3] = view[R3]]
    BY <1>0, <1>1, <2>1, AfterPopped DEF Running, SavedR3
  <2>3. Restoring'
    BY <1>1, <2>1, <2>2 DEF Restoring, Same, SavedR2, Running
  <2> QED BY <2>2, <2>3 DEF HandlerInv, Effect
<1>2. CASE handler = Rest4 /\ Same({SP, R2}) /\ cpu.reg[SP] = At2 /\ SavedR2
  <2>1. cpu' = After(Ins("ADDI", SP, SP, Four)) /\ handler' = Rest3
    BY <1>2, HandlerShape DEF Running
  <2>2. /\ cpu' \in Machine /\ cpu'.mem = cpu.mem /\ ~cpu'.valid
        /\ cpu'.reg = [cpu.reg EXCEPT ![SP] = Plus(cpu.reg[SP], Four)]
    BY <1>0, <2>1, AfterAdd DEF Running
  <2>3. Restoring'
    BY <1>2, <2>1, <2>2 DEF Restoring, Same, SavedR2, Running
  <2> QED BY <2>2, <2>3 DEF HandlerInv, Effect
<1>3. CASE handler = Rest3 /\ Same({SP, R2}) /\ cpu.reg[SP] = At1 /\ SavedR2
  <2>1. cpu' = After(Ins("LDRPOST", SP, R2, Zero)) /\ handler' = Rest2
    BY <1>3, HandlerShape DEF Running
  <2>2. /\ cpu' \in Machine /\ cpu'.mem = cpu.mem /\ ~cpu'.valid
        /\ cpu'.reg = [cpu.reg EXCEPT ![R2] = view[R2]]
    BY <1>0, <1>3, <2>1, AfterPopped DEF Running, SavedR2
  <2>3. Restoring'
    BY <1>3, <2>1, <2>2 DEF Restoring, Same, Running
  <2> QED BY <2>2, <2>3 DEF HandlerInv, Effect
<1>4. CASE handler = Rest2 /\ Same({SP}) /\ cpu.reg[SP] = At1
  <2>1. cpu' = After(Ins("ADDI", SP, SP, Four)) /\ handler' = Rest1
    BY <1>4, HandlerShape DEF Running
  <2>2. /\ cpu' \in Machine /\ cpu'.mem = cpu.mem /\ ~cpu'.valid
        /\ cpu'.reg = [cpu.reg EXCEPT ![SP] = Plus(cpu.reg[SP], Four)]
    BY <1>0, <2>1, AfterAdd DEF Running
  <2>3. cpu'.reg = view'
    <3>1. cpu'.reg \in [Reg -> Word] /\ view' \in [Reg -> Word]
      BY <2>2, FieldTypes DEF Running
    <3>2. \A x \in Reg : cpu'.reg[x] = view'[x]
      BY <1>4, <2>2 DEF Same, Running
    <3> QED BY <3>1, <3>2
  <2>4. Restoring'
    BY <2>1, <2>2, <2>3 DEF Restoring
  <2> QED BY <2>2, <2>4 DEF HandlerInv, Effect
<1>5. CASE handler = Rest1 /\ cpu.reg = view
  <2>1. cpu' = cpu /\ handler' = << >>
    BY <1>5, HandlerShape DEF Running, After, Ins
  <2>2. Reserved'
    BY <1>0, <2>1 DEF Reserved
  <2> QED BY <1>5, <2>1, <2>2 DEF HandlerInv, Effect, Running
<1> QED BY <1>1, <1>2, <1>3, <1>4, <1>5 DEF Restoring

------------------------------------------------------------------------------
(***************************************************************************)
(* The steps of the main program, and the theorems.                        *)
(***************************************************************************)
\* DepthKnown, before a step and after it.
DepthFact ==
  \A d \in 0 .. MaxDepth :
    MainAt(d) => /\ MainDepth = d
                 /\ \E e \in {d, d + 1} : e \in 0 .. MaxDepth /\ view[SP] = Slot(e)
\* It holds in every state, ...
LEMMA DepthNow == DepthFact
BY DepthKnown DEF DepthFact
\* (Temporal logic primes what holds in every state.)
LEMMA DepthThen == DepthFact'
BY DepthNow, PTL

\* The words of the main program's stack.
Words == [i \in 1 .. MainDepth |-> cpu.mem[Slot(i)]]

\* They are the same when neither the depth nor their memory changes.
LEMMA SameWords ==
  ASSUME NEW d \in 0 .. MaxDepth, MainAt(d), MainAt(d)',
         \A i \in 1 .. d : cpu'.mem[Slot(i)] = cpu.mem[Slot(i)]
  PROVE  Words' = Words
<1>1. MainDepth = d /\ MainDepth' = d
  BY DepthNow, DepthThen DEF DepthFact
<1> QED BY <1>1 DEF Words

\* The main program between two instructions, the handler not running.
Alone ==
  /\ cpu \in Machine /\ view \in [Reg -> Word] /\ view[R0] = Zero
  /\ cpu.reg = view /\ Reserved
  /\ main # << >> /\ handler = << >>
  /\ cpu' = After(Head(main)) /\ main' = Tail(main)
  /\ view' = cpu'.reg /\ handler' = << >>

\* What the cases below know.
LEMMA AloneFacts ==
  ASSUME Alone
  PROVE  /\ cpu.reg \in [Reg -> Word] /\ cpu.mem \in [Ram -> Word]
         /\ {R1, R2, R3, SP} \subseteq Reg /\ R0 \in Reg /\ Counter \in Ram
         /\ R0 # SP /\ R0 # R1 /\ R0 # R2 /\ R0 # R3 /\ R1 # SP /\ R1 # R3 /\ R1 # R2
         /\ R2 # SP /\ R3 # SP /\ R2 # R3
BY FieldTypes, CodeAssumption, Regs DEF Alone

\* What an instruction of the main program must show: the invariant again, and a
\* step of the abstract code or none.
Shown ==
  /\ cpu' \in Machine /\ view' \in [Reg -> Word] /\ view'[R0] = Zero
  /\ (\E d \in 0 .. MaxDepth : MainAt(d))'
  /\ HandlerInv'
  /\ Atomic!Next \/ UNCHANGED Atomic!atomicVars

\* Most of it is the same for every instruction.
LEMMA AloneKept ==
  ASSUME Alone, cpu' \in Machine, cpu'.reg[R0] = Zero, Reserved',
         NEW d \in 0 .. MaxDepth, MainAt(d)'
  PROVE  /\ cpu' \in Machine /\ view' \in [Reg -> Word] /\ view'[R0] = Zero
         /\ (\E x \in 0 .. MaxDepth : MainAt(x))'
         /\ HandlerInv'
<1>1. view' \in [Reg -> Word] /\ view'[R0] = Zero
  BY FieldTypes DEF Alone
<1>2. HandlerInv'
  BY DEF HandlerInv, Alone
<1> QED BY <1>1, <1>2

\* A step that changes none of it is no step of the abstract code.
LEMMA NothingShown ==
  ASSUME Words' = Words, view'[R1] = view[R1], view'[R3] = view[R3],
         cpu'.mem[Counter] = cpu.mem[Counter]
  PROVE  UNCHANGED Atomic!atomicVars
BY DEF Atomic!atomicVars, Words

\* The places of the stack, each next to the one above, apart from the counter.
LEMMA SlotFacts ==
  /\ MaxDepth \in Nat
  /\ \A i \in 0 .. MaxDepth : /\ Plus(Slot(i), MinusFour) = Slot(i + 1)
                              /\ Plus(Slot(i + 1), Four) = Slot(i)
  /\ \A i \in 1 .. MaxDepth : /\ Slot(i) \in Ram \ {Counter}
                              /\ \A j \in 1 .. MaxDepth : Slot(i) = Slot(j) => i = j
<1> USE StackAssumption
<1>1. \A i \in 0 .. MaxDepth : i \in 0 .. MaxDepth + 1
  OBVIOUS
<1>2. \A i \in 1 .. MaxDepth : i \in 1 .. MaxDepth + 2 /\ Depth(Slot(i)) = i
  OBVIOUS
<1>3. \A i \in 1 .. MaxDepth : Slot(i) \in Ram \ {Counter}
  BY <1>2
<1>4. \A i, j \in 1 .. MaxDepth : Slot(i) = Slot(j) => i = j
  BY <1>2
<1> QED BY <1>1, <1>3, <1>4

\* PUSH takes its word, ...
LEMMA PushStep ==
  ASSUME Alone, NEW d \in 0 .. MaxDepth, d < MaxDepth, view[SP] = Slot(d), main = Push(R1)
  PROVE  Shown
<1> USE AloneFacts, Regs
<1>1. cpu' = After(Ins("SUBI", SP, SP, MinusFour)) /\ main' = Pushing1
  BY MainShape DEF Alone
<1>2. /\ cpu' \in Machine
      /\ cpu'.reg = [cpu.reg EXCEPT ![SP] = Plus(cpu.reg[SP], MinusFour)]
      /\ cpu'.mem = cpu.mem
  BY <1>1, AfterAdd DEF Alone
<1>3. view'[SP] = Slot(d + 1) /\ cpu'.reg[R0] = Zero
  BY <1>2, SlotFacts DEF Alone
<1>4. MainAt(d) /\ MainAt(d)'
  BY <1>1, <1>3 DEF MainAt
<1>5. Reserved'
  BY <1>1, MainDistinct DEF Reserved
<1>6. Words' = Words
  BY <1>2, <1>4, SameWords
<1>7. UNCHANGED Atomic!atomicVars
  BY <1>2, <1>6, NothingShown DEF Alone
<1> QED BY <1>2, <1>3, <1>4, <1>5, <1>7, AloneKept DEF Shown

\* ... and writes it.
LEMMA PushingStep ==
  ASSUME Alone, NEW d \in 0 .. MaxDepth, d < MaxDepth, view[SP] = Slot(d + 1),
         main = Pushing1
  PROVE  Shown
<1> USE AloneFacts, Regs
<1>1. cpu' = After(Ins("STRPOST", SP, R1, Zero)) /\ main' = << >>
  BY MainShape DEF Alone
<1>2. d + 1 \in 1 .. MaxDepth /\ d + 1 \in 0 .. MaxDepth
  BY SlotFacts
<1>3. cpu.reg[SP] = Slot(d + 1) /\ Slot(d + 1) \in Ram \ {Counter}
  BY <1>2, SlotFacts DEF Alone
<1>4. /\ cpu' \in Machine /\ cpu'.reg = cpu.reg /\ ~cpu'.valid
      /\ cpu'.mem = [cpu.mem EXCEPT ![Slot(d + 1)] = view[R1]]
  BY <1>1, <1>3, AfterPushed DEF Alone
<1>5. MainAt(d) /\ MainAt(d + 1)'
  BY <1>1, <1>3, <1>4 DEF MainAt, Alone
<1>6. Reserved' /\ cpu'.reg[R0] = Zero
  BY <1>4 DEF Reserved, Alone
<1>7. MainDepth = d /\ MainDepth' = d + 1
  BY <1>2, <1>5, DepthNow, DepthThen DEF DepthFact
<1>8. Words' = Append(Words, view[R1])
  <2>1. Words = [i \in 1 .. d |-> cpu.mem[Slot(i)]]
    BY <1>7 DEF Words
  <2>2. Words' = [i \in 1 .. d + 1 |-> cpu'.mem[Slot(i)]]
    BY <1>7 DEF Words
  <2>3. \A i \in 1 .. d : cpu'.mem[Slot(i)] = cpu.mem[Slot(i)]
    BY <1>2, <1>3, <1>4, SlotFacts
  <2>4. cpu'.mem[Slot(d + 1)] = view[R1]
    BY <1>3, <1>4
  <2>5. d \in Nat /\ Len(Words) = d
    BY <2>1
  <2> QED BY <2>1, <2>2, <2>3, <2>4, <2>5
<1>9. /\ view'[R1] = view[R1] /\ view'[R3] = view[R3]
      /\ cpu'.mem[Counter] = cpu.mem[Counter]
  BY <1>3, <1>4 DEF Alone
<1>10. Atomic!Push
  BY <1>8, <1>9 DEF Atomic!Push, Words
<1>11. Atomic!Next
  BY <1>10 DEF Atomic!Next
<1> QED BY <1>2, <1>4, <1>5, <1>6, <1>11, AloneKept DEF Shown

\* POP reads its word, ...
LEMMA PopStep ==
  ASSUME Alone, NEW d \in 0 .. MaxDepth, d > 0, view[SP] = Slot(d), main = Pop(R1)
  PROVE  Shown
<1> USE AloneFacts, Regs
<1>1. cpu' = After(Ins("LDRPOST", SP, R1, Zero)) /\ main' = Popping1
  BY MainShape DEF Alone
<1>2. d \in 1 .. MaxDepth /\ d - 1 \in 0 .. MaxDepth /\ d - 1 < MaxDepth /\ (d - 1) + 1 = d
  BY SlotFacts
<1>3. cpu.reg[SP] = Slot(d) /\ Slot(d) \in Ram \ {Counter}
  BY <1>2, SlotFacts DEF Alone
<1>4. /\ cpu' \in Machine /\ cpu'.mem = cpu.mem
      /\ cpu'.reg = [cpu.reg EXCEPT ![R1] = cpu.mem[Slot(d)]]
  <2>1. /\ cpu \in Machine /\ R1 \in Reg /\ SP \in Reg /\ R1 # R0 /\ SP # R0 /\ R1 # SP
        /\ cpu.reg[SP] \in Ram
    BY <1>3 DEF Alone
  <2>2. /\ cpu' \in Machine /\ cpu'.mem = cpu.mem
        /\ cpu'.reg = [cpu.reg EXCEPT ![R1] = cpu.mem[cpu.reg[SP]]]
    BY <1>1, <2>1, AfterPopped
  <2> QED BY <1>3, <2>2
<1>5. MainAt(d) /\ MainAt(d - 1)'
  BY <1>1, <1>2, <1>3, <1>4 DEF MainAt, Alone
<1>6. Reserved' /\ cpu'.reg[R0] = Zero
  BY <1>1, <1>4, MainDistinct DEF Reserved, Alone
<1>7. MainDepth = d /\ MainDepth' = d - 1
  BY <1>2, <1>5, DepthNow, DepthThen DEF DepthFact
<1>8. /\ Words # << >> /\ Words[Len(Words)] = cpu.mem[Slot(d)]
      /\ Words' = SubSeq(Words, 1, Len(Words) - 1)
  <2>1. Words = [i \in 1 .. d |-> cpu.mem[Slot(i)]]
    BY <1>7 DEF Words
  <2>2. Words' = [i \in 1 .. d - 1 |-> cpu.mem[Slot(i)]]
    BY <1>4, <1>7 DEF Words
  <2>3. d \in Nat /\ Len(Words) = d /\ d \in 1 .. d
    BY <2>1, <1>2
  <2> QED BY <2>1, <2>2, <2>3
<1>9. /\ view'[R1] = cpu.mem[Slot(d)] /\ view'[R3] = view[R3]
      /\ cpu'.mem[Counter] = cpu.mem[Counter]
  BY <1>4 DEF Alone
<1>10. Atomic!Pop
  BY <1>8, <1>9 DEF Atomic!Pop, Words, Atomic!Last, Atomic!Front
<1>11. Atomic!Next
  BY <1>10 DEF Atomic!Next
<1> QED BY <1>2, <1>4, <1>5, <1>6, <1>11, AloneKept DEF Shown

\* ... and gives its place back.
LEMMA PoppingStep ==
  ASSUME Alone, NEW d \in 0 .. MaxDepth, d < MaxDepth, view[SP] = Slot(d + 1),
         main = Popping1
  PROVE  Shown
<1> USE AloneFacts, Regs
<1>1. cpu' = After(Ins("ADDI", SP, SP, Four)) /\ main' = << >>
  BY MainShape DEF Alone
<1>2. /\ cpu' \in Machine
      /\ cpu'.reg = [cpu.reg EXCEPT ![SP] = Plus(cpu.reg[SP], Four)]
      /\ cpu'.mem = cpu.mem
  BY <1>1, AfterAdd DEF Alone
<1>3. view'[SP] = Slot(d) /\ cpu'.reg[R0] = Zero
  BY <1>2, SlotFacts DEF Alone
<1>4. MainAt(d) /\ MainAt(d)'
  BY <1>1, <1>3 DEF MainAt
<1>5. Reserved'
  BY <1>1, MainDistinct DEF Reserved
<1>6. Words' = Words
  BY <1>2, <1>4, SameWords
<1>7. UNCHANGED Atomic!atomicVars
  BY <1>2, <1>6, NothingShown DEF Alone
<1> QED BY <1>2, <1>3, <1>4, <1>5, <1>7, AloneKept DEF Shown

\* The three instructions of an attempt to count.
LEMMA AttemptStep ==
  ASSUME Alone, NEW d \in 0 .. MaxDepth, view[SP] = Slot(d), main = Attempt
  PROVE  Shown
<1> USE AloneFacts, Regs
<1>1. cpu' = After(Ins("LDREX", R0, R2, Counter)) /\ main' = Counting2
  BY MainShape DEF Alone
<1>2. /\ cpu' \in Machine /\ cpu'.mem = cpu.mem
      /\ cpu'.reg = [cpu.reg EXCEPT ![R2] = cpu.mem[Counter]]
  BY <1>1, AfterLoaded DEF Alone
<1>3. view'[SP] = Slot(d) /\ cpu'.reg[R0] = Zero /\ view'[R2] = cpu.mem[Counter]
  BY <1>2 DEF Alone
<1>4. MainAt(d) /\ MainAt(d)'
  BY <1>1, <1>3 DEF MainAt
<1>5. Reserved'
  BY <1>1, <1>2, <1>3, MainDistinct DEF Reserved
<1>6. Words' = Words
  BY <1>2, <1>4, SameWords
<1>7. UNCHANGED Atomic!atomicVars
  BY <1>2, <1>6, NothingShown DEF Alone
<1> QED BY <1>2, <1>3, <1>4, <1>5, <1>7, AloneKept DEF Shown

\* ... which adds, ...
LEMMA AddingStep ==
  ASSUME Alone, NEW d \in 0 .. MaxDepth, view[SP] = Slot(d), main = Counting2
  PROVE  Shown
<1> USE AloneFacts, Regs
<1>1. cpu' = After(Ins("ADDI", R2, R2, One)) /\ main' = Counting1
  BY MainShape DEF Alone
<1>2. /\ cpu' \in Machine /\ cpu'.mem = cpu.mem
      /\ cpu'.reg = [cpu.reg EXCEPT ![R2] = Plus(cpu.reg[R2], One)]
      /\ (cpu'.valid <=> cpu.valid) /\ cpu'.addr = cpu.addr
  BY <1>1, AfterAdd DEF Alone
<1>3. view'[SP] = Slot(d) /\ cpu'.reg[R0] = Zero /\ view'[R2] = Plus(view[R2], One)
  BY <1>2 DEF Alone
<1>4. MainAt(d) /\ MainAt(d)'
  BY <1>1, <1>3 DEF MainAt
<1>5. Reserved'
  BY <1>1, <1>2, <1>3, MainDistinct DEF Reserved, Alone
<1>6. Words' = Words
  BY <1>2, <1>4, SameWords
<1>7. UNCHANGED Atomic!atomicVars
  BY <1>2, <1>6, NothingShown DEF Alone
<1> QED BY <1>2, <1>3, <1>4, <1>5, <1>7, AloneKept DEF Shown

\* ... and stores, when nothing has written the counter since.
LEMMA StoringStep ==
  ASSUME Alone, NEW d \in 0 .. MaxDepth, view[SP] = Slot(d), main = Counting1
  PROVE  Shown
<1> USE AloneFacts, Regs
<1>1. cpu' = After(Ins("STREX", R0, R2, Counter)) /\ main' = << >>
  BY MainShape DEF Alone
<1>2. /\ cpu' \in Machine /\ ~cpu'.valid
      /\ \/ /\ cpu.valid /\ cpu.addr = Counter
            /\ cpu'.mem = [cpu.mem EXCEPT ![Counter] = view[R2]]
            /\ cpu'.reg = [cpu.reg EXCEPT ![R3] = Zero]
         \/ /\ cpu'.mem = cpu.mem
            /\ cpu'.reg = [cpu.reg EXCEPT ![R3] = One]
  BY <1>1, AfterExclusive DEF Alone
<1>3. /\ view'[SP] = Slot(d) /\ cpu'.reg[R0] = Zero /\ view'[R1] = view[R1]
  BY <1>2 DEF Alone
<1>4. MainAt(d) /\ MainAt(d)'
  BY <1>1, <1>3 DEF MainAt
<1>5. Reserved'
  BY <1>2 DEF Reserved
<1>6. Words' = Words
  <2>1. \A i \in 1 .. d : cpu'.mem[Slot(i)] = cpu.mem[Slot(i)]
    BY <1>2, SlotFacts
  <2> QED BY <2>1, <1>4, SameWords
<1>7. Atomic!Next
  <2>1. CASE /\ cpu.valid /\ cpu.addr = Counter
             /\ cpu'.mem = [cpu.mem EXCEPT ![Counter] = view[R2]]
             /\ cpu'.reg = [cpu.reg EXCEPT ![R3] = Zero]
    <3>1. cpu'.mem[Counter] = Plus(cpu.mem[Counter], One) /\ view'[R3] = Zero
      BY <2>1 DEF Reserved, Alone
    <3>2. Atomic!Succeed
      BY <1>3, <1>6, <3>1 DEF Atomic!Succeed, Words
    <3> QED BY <3>2 DEF Atomic!Next
  <2>2. CASE /\ cpu'.mem = cpu.mem
             /\ cpu'.reg = [cpu.reg EXCEPT ![R3] = One]
    <3>1. cpu'.mem[Counter] = cpu.mem[Counter] /\ view'[R3] = One
      BY <2>2 DEF Alone
    <3>2. Atomic!Fail
      BY <1>3, <1>6, <3>1 DEF Atomic!Fail, Words
    <3> QED BY <3>2 DEF Atomic!Next
  <2> QED BY <1>2, <2>1, <2>2
<1> QED BY <1>2, <1>3, <1>4, <1>5, <1>7, AloneKept DEF Shown

-----------------------------------------------------------------------------

\* The invariant holds at the start.
LEMMA CodeInvInit == CodeInit => CodeInv
<1> SUFFICES ASSUME CodeInit PROVE CodeInv
  OBVIOUS
<1> USE Regs, CodeAssumption, StackAssumption
<1>1. Top \in Word
  OBVIOUS
<1>2. [r \in Reg |-> IF r = SP THEN Top ELSE Zero] \in [Reg -> Word]
  BY <1>1
<1>3. cpu \in Machine /\ cpu.reg = view /\ view \in [Reg -> Word]
  BY <1>2 DEF CodeInit, Machine
<1>4. view[SP] = Slot(0) /\ view[R0] = Zero
  BY <1>3 DEF CodeInit
<1>5. MainAt(0)
  BY <1>4 DEF CodeInit, MainAt
<1>6. HandlerInv
  BY <1>3 DEF HandlerInv, Reserved, CodeInit
<1> QED BY <1>3, <1>4, <1>5, <1>6 DEF CodeInv

\* A started operation or an interrupt changes no register and no memory.
LEMMA Begun ==
  ASSUME CodeInv, UNCHANGED <<cpu, view>>, NEW d \in 0 .. MaxDepth, MainAt(d), MainAt(d)'
  PROVE  UNCHANGED Atomic!atomicVars
<1>1. Words' = Words
  BY SameWords
<1> QED BY <1>1, NothingShown

\* An operation on a register between two others, ...
LEMMA SetDataStep ==
  ASSUME CodeInv, NEW w \in {Zero, One}, SetData(w)
  PROVE  CodeInv' /\ (Atomic!Next \/ UNCHANGED Atomic!atomicVars)
<1> USE Regs, CodeAssumption
<1>1. /\ main = << >> /\ handler = << >> /\ main' = << >> /\ handler' = << >>
      /\ w \in Word
  BY DEF SetData, Idle
<1>2. cpu.reg = view /\ cpu \in Machine /\ view \in [Reg -> Word] /\ view[R0] = Zero
  BY <1>1, HandlerShape, BodyShape, SavesShape
     DEF CodeInv, HandlerInv, Saving, Counting, Restoring
<1> DEFINE reg == [cpu.reg EXCEPT ![R1] = w]
<1>3. reg \in [Reg -> Word] /\ Put(cpu.reg, R1, w) = reg
  BY <1>1, <1>2, FieldTypes DEF Put
<1>4. cpu' = [cpu EXCEPT !.reg = reg] /\ view' = cpu'.reg
  BY <1>3 DEF SetData
<1> HIDE DEF reg
<1>5. cpu' \in Machine /\ cpu'.reg = reg /\ cpu'.mem = cpu.mem
  BY <1>2, <1>3, <1>4 DEF Machine
<1>6. /\ view' \in [Reg -> Word] /\ view'[R0] = Zero /\ view'[R1] = w
      /\ view'[SP] = view[SP] /\ view'[R3] = view[R3]
  BY <1>1, <1>2, <1>3, <1>4, <1>5 DEF reg
<1>7. PICK d \in 0 .. MaxDepth : MainAt(d)
  BY DEF CodeInv
<1>8. MainAt(d)'
  BY <1>1, <1>6, <1>7, MainShape DEF MainAt
<1>9. HandlerInv'
  BY <1>1, <1>4, MainDistinct DEF HandlerInv, Reserved
<1>10. Words' = Words
  BY <1>5, <1>7, <1>8, SameWords
<1>11. Atomic!SetAcc
  BY <1>1, <1>5, <1>6, <1>10 DEF Atomic!SetAcc, Words
<1>12. Atomic!Next
  BY <1>11 DEF Atomic!Next
<1> QED BY <1>5, <1>6, <1>7, <1>8, <1>9, <1>12 DEF CodeInv

\* ... the start of a PUSH, of a POP or of an attempt, ...
LEMMA StartStep ==
  ASSUME CodeInv, NEW code, Start(code),
         \/ MainDepth < MaxDepth /\ code = Push(R1)
         \/ MainDepth > 0 /\ code = Pop(R1)
         \/ code = Attempt
  PROVE  CodeInv' /\ (Atomic!Next \/ UNCHANGED Atomic!atomicVars)
<1>1. /\ main = << >> /\ handler = << >> /\ main' = code
      /\ UNCHANGED <<cpu, handler, view>>
  BY DEF Start, Idle
<1>2. PICK d \in 0 .. MaxDepth : MainAt(d)
  BY DEF CodeInv
<1>3. MainDepth = d /\ view[SP] = Slot(d)
  BY <1>1, <1>2, DepthNow, MainShape DEF DepthFact, MainAt
<1>4. MainAt(d)'
  BY <1>1, <1>3 DEF MainAt
<1>5. cpu.reg = view /\ Reserved
  BY <1>1, HandlerShape, BodyShape, SavesShape
     DEF CodeInv, HandlerInv, Saving, Counting, Restoring
<1>6. Reserved'
  BY <1>1, MainDistinct DEF Reserved
<1>7. HandlerInv'
  BY <1>1, <1>5, <1>6 DEF HandlerInv
<1>8. UNCHANGED Atomic!atomicVars
  BY <1>1, <1>2, <1>4, Begun
<1> QED BY <1>1, <1>4, <1>7, <1>8 DEF CodeInv

\* ... an interrupt, ...
LEMMA InterruptStep ==
  ASSUME CodeInv, NEW b \in {Attempt, Plainly, << >>}, Interrupt(b)
  PROVE  CodeInv' /\ (Atomic!Next \/ UNCHANGED Atomic!atomicVars)
<1>1. handler = << >> /\ handler' = Handler(b) /\ UNCHANGED <<cpu, main, view>>
  BY DEF Interrupt
<1>2. PICK d \in 0 .. MaxDepth : MainAt(d)
  BY DEF CodeInv
<1>3. MainAt(d)'
  BY <1>1, <1>2 DEF MainAt
<1>4. cpu.reg = view /\ Reserved
  BY <1>1, HandlerShape, BodyShape, SavesShape
     DEF CodeInv, HandlerInv, Saving, Counting, Restoring
<1>5. PICK s \in Afters : Handler(b) = Saves4(s)
  BY HandlerCode
<1>6. Saving(s)'
  BY <1>1, <1>4, <1>5 DEF Saving, Reserved
<1>7. HandlerInv'
  BY <1>6 DEF HandlerInv
<1>8. UNCHANGED Atomic!atomicVars
  BY <1>1, <1>2, <1>3, Begun
<1> QED BY <1>1, <1>3, <1>7, <1>8 DEF CodeInv

\* ... an instruction of the main program ...
LEMMA MainStepStep ==
  ASSUME CodeInv, MainStep
  PROVE  CodeInv' /\ (Atomic!Next \/ UNCHANGED Atomic!atomicVars)
<1>1. Alone
  <2>1. handler = << >> /\ handler' = << >>
    BY DEF MainStep
  <2>2. cpu.reg = view /\ Reserved
    BY <2>1, HandlerShape, BodyShape, SavesShape
       DEF CodeInv, HandlerInv, Saving, Counting, Restoring
  <2> QED BY <2>1, <2>2 DEF Alone, MainStep, CodeInv
<1>2. PICK d \in 0 .. MaxDepth : MainAt(d)
  BY DEF CodeInv
<1>3. Shown
  BY <1>1, <1>2, PushStep, PushingStep, PopStep, PoppingStep, AttemptStep, AddingStep,
     StoringStep DEF MainAt, Alone
<1> QED BY <1>3 DEF Shown, CodeInv

\* ... and one of the handler keep it, and show the abstract code's step or none.
LEMMA HandlerStepStep ==
  ASSUME CodeInv, HandlerStep
  PROVE  CodeInv' /\ (Atomic!Next \/ UNCHANGED Atomic!atomicVars)
<1>1. PICK d \in 0 .. MaxDepth : MainAt(d)
  BY DEF CodeInv
<1>2. PICK e \in {d, d + 1} : e \in 0 .. MaxDepth /\ view[SP] = Slot(e)
  BY <1>1, DepthNow DEF DepthFact
<1>3. /\ At1 \in Ram /\ At2 \in Ram /\ At1 # At2 /\ At1 # Counter /\ At2 # Counter
      /\ Plus(At2, Four) = At1 /\ Plus(At1, Four) = view[SP]
      /\ \A i \in 1 .. e : Slot(i) \in Ram \ {At1, At2, Counter}
  BY <1>2, SavedApart
<1>4. Running
  BY <1>3 DEF Running, HandlerStep, CodeInv
<1>5. cpu' \in Machine /\ HandlerInv' /\ Effect
  BY <1>4, SavingStep, CountingStep, RestoringStep DEF CodeInv, HandlerInv, Running
<1>6. MainAt(d)' /\ UNCHANGED <<main, view>>
  BY <1>1, <1>4 DEF MainAt, Running
<1>7. CodeInv'
  BY <1>5, <1>6 DEF CodeInv
<1>8. Words' = Words
  <2>1. \A i \in 1 .. d : cpu'.mem[Slot(i)] = cpu.mem[Slot(i)]
    BY <1>2, <1>3, <1>5 DEF Effect
  <2> QED BY <2>1, <1>1, <1>6, SameWords
<1>9. CASE cpu'.mem[Counter] = cpu.mem[Counter]
  BY <1>6, <1>7, <1>8, <1>9, NothingShown
<1>10. CASE cpu'.mem[Counter] = Plus(cpu.mem[Counter], One)
  <2>1. Atomic!HandlerCounts
    BY <1>6, <1>8, <1>10 DEF Atomic!HandlerCounts, Words
  <2> QED BY <1>7, <2>1 DEF Atomic!Next
<1> QED BY <1>5, <1>9, <1>10 DEF Effect

\* Every step keeps the invariant and is a step of the abstract code or none.
LEMMA CodeStep ==
  ASSUME CodeInv, [CodeNext]_codeVars
  PROVE  CodeInv' /\ (Atomic!Next \/ UNCHANGED Atomic!atomicVars)
<1>1. ASSUME UNCHANGED codeVars
      PROVE  CodeInv' /\ UNCHANGED Atomic!atomicVars
  <2>1. CodeInv'
    BY <1>1 DEF codeVars, CodeInv, MainAt, HandlerInv, Saving, Counting, Restoring,
       Reserved, Same, SavedR2, SavedR3, At1, At2
  <2>2. UNCHANGED Atomic!atomicVars
    BY <1>1 DEF codeVars, Atomic!atomicVars, MainDepth, Shifted
  <2> QED BY <2>1, <2>2
<1>2. ASSUME CodeNext
      PROVE  CodeInv' /\ (Atomic!Next \/ UNCHANGED Atomic!atomicVars)
  BY <1>2, SetDataStep, StartStep, InterruptStep, MainStepStep, HandlerStepStep
     DEF CodeNext
<1> QED BY <1>1, <1>2

\* The invariant holds in every state.
LEMMA CodeInvHolds == CodeSpec => []CodeInv
<1>1. CodeInv /\ [CodeNext]_codeVars => CodeInv'
  BY CodeStep
<1> QED BY <1>1, CodeInvInit, PTL DEF CodeSpec

\* The preempted code keeps its types: cpu, view and what is left of the two
\* programs, whatever instruction the interrupt came before (raise_irq,
\* execute_instruction, and the expansions of pseudo.py).
THEOREM CodeTypes == CodeSpec => []CodeTypeOK
<1>1. CodeInv => CodeTypeOK
  <2> SUFFICES ASSUME CodeInv PROVE CodeTypeOK
    OBVIOUS
  <2>1. PICK d \in 0 .. MaxDepth : MainAt(d)
    BY DEF CodeInv
  <2>2. MainDepth = d
    BY <2>1, DepthNow DEF DepthFact
  <2> QED BY <2>2 DEF CodeInv, CodeTypeOK
<1> QED BY <1>1, CodeInvHolds, PTL

\* Whenever the handler does not run, the registers are the ones the main program
\* left: an interrupt before any instruction of a PUSH, of a POP or of an attempt to
\* count is not seen in a register, SP included, though the handler pushes and pops
\* on the same stack.
THEOREM RegistersKept == CodeSpec => []RegistersTransparent
<1>1. CodeInv => RegistersTransparent
  BY HandlerShape, BodyShape, SavesShape
     DEF CodeInv, HandlerInv, Saving, Counting, Restoring, RegistersTransparent
<1> QED BY <1>1, CodeInvHolds, PTL

\* The two instructions of a PUSH and of a POP, and the three of an attempt to count,
\* are one step of the abstract code however interrupts fall between them: no word of
\* the stack is lost or seen twice, and an attempt that reports success has counted
\* once, with nothing counted by the handler overwritten.
THEOREM CodeRefines == CodeSpec => CodeIsAtomic
<1>1. CodeInit => Atomic!Init
  <2> SUFFICES ASSUME CodeInit PROVE Atomic!Init
    OBVIOUS
  <2>1. CodeInv
    BY CodeInvInit
  <2>2. view[SP] = Slot(0) /\ view[R1] = Zero /\ view[R3] = Zero
    BY Regs, CodeAssumption, StackAssumption DEF CodeInit
  <2>3. MainDepth = 0
    <3>1. MainAt(0)
      BY <2>2 DEF MainAt, CodeInit
    <3>2. 0 \in 0 .. MaxDepth
      BY SlotFacts
    <3> QED BY <3>1, <3>2, DepthNow DEF DepthFact
  <2>4. Words = << >>
    BY <2>3 DEF Words
  <2>5. cpu.mem[Counter] = Zero
    BY Regs DEF CodeInit
  <2> QED BY <2>2, <2>4, <2>5 DEF Atomic!Init, Words
<1>2. CodeInv /\ [CodeNext]_codeVars => [Atomic!Next]_(Atomic!atomicVars)
  BY CodeStep
<1>3. CodeSpec => Atomic!Spec
  BY <1>1, <1>2, CodeInvHolds, PTL DEF CodeSpec, Atomic!Spec
<1> QED BY <1>3 DEF CodeIsAtomic
=============================================================================
