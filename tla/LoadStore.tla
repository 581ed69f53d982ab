----------------------------- MODULE LoadStore ------------------------------
(***************************************************************************)
(* The load and store family under an unknown program: every step is any   *)
(* instruction on any registers, or an operation of the debugger between   *)
(* two steps.  Interrupts need no action of their own, since entering and  *)
(* leaving a handler touches neither registers, memory nor monitor: their  *)
(* instructions are among the ones that follow.                            *)
(***************************************************************************)
EXTENDS LoadStoreOps

CONSTANTS
  Imms,      \* immediates of the instructions
  MaskUses   \* masks of the instructions

ASSUME StateAssumption ==
  /\ Imms \subseteq Word
  /\ MaskUses \subseteq Masks

VARIABLES
  m,       \* registers, memory, exclusive monitor
  op,      \* history: the mnemonic of the last instruction
  fault,   \* history: whether it faulted
  touched  \* history: whether the program wrote the monitored word since LDREX

vars == <<m, op, fault, touched>>

Loads  == {"LDR", "LDRPOST", "LDRPRE", "LDREX"}
Stores == {"STR", "STRPOST", "STRPRE"}

Init ==
  /\ m \in [reg : {[r \in Reg |-> Zero]}, mem : [Ram -> Word],
            valid : {FALSE}, addr : {Zero}]
  /\ op = "NOP"
  /\ fault = FALSE
  /\ touched = FALSE

-----------------------------------------------------------------------------
\* An instruction that writes one register: arithmetic, READSPR.
SetReg(r, w) ==
  /\ m' = [m EXCEPT !.reg = Put(@, r, w)]
  /\ op' = "ADD"
  /\ fault' = FALSE
  /\ UNCHANGED touched

Load(kind, ra, rd, mask, imm) ==
  LET ea == EffectiveAddress(kind, m.reg[ra], imm)
  IN  /\ m' = Loaded(m, kind, ra, rd, mask, imm)
      /\ op' = kind
      /\ fault' = Faults(ea, mask)
      /\ touched' = (touched /\ kind # "LDREX")

Store(kind, ra, rs, mask, imm) ==
  LET ea == EffectiveAddress(kind, m.reg[ra], imm)
  IN  /\ m' = Stored(m, kind, ra, rs, mask, imm)
      /\ op' = kind
      /\ fault' = Faults(ea, mask)
      /\ touched' = (touched \/ (ea \in Ram /\ mask # {} /\ ea = m.addr))

Strex(ra, rs, rstatus, imm) ==
  LET ea == Plus(m.reg[ra], imm)
  IN  /\ m' = Strexed(m, ra, rs, rstatus, imm, Zero, One)
      /\ op' = "STREX"
      /\ fault' = StrexFaults(m, ea)
      /\ touched' = (touched \/ (ExclusiveHeld(m, ea) /\ ea \in Ram))

-----------------------------------------------------------------------------
(* The debugger. *)

\* reset_cpu(), set_core_variant(): a fresh CPUState, the memory stays.
ResetCpu ==
  /\ m' = [m EXCEPT !.reg = [r \in Reg |-> Zero], !.valid = FALSE,
                    !.addr = Zero]
  /\ op' = "reset"
  /\ fault' = FALSE
  /\ touched' = FALSE

\* set_gpr() refuses R0.
SetGpr(r, w) ==
  /\ r # R0
  /\ m' = [m EXCEPT !.reg[r] = w]
  /\ op' = "set_gpr"
  /\ fault' = FALSE
  /\ UNCHANGED touched

\* write_ram_word() leaves the monitor armed.
WriteRamWord(a, w) ==
  /\ m' = [m EXCEPT !.mem[a] = w]
  /\ op' = "write_ram_word"
  /\ fault' = FALSE
  /\ UNCHANGED touched

-----------------------------------------------------------------------------
Instruction ==
  \/ \E r \in Reg, w \in Word : SetReg(r, w)
  \/ \E ra, r \in Reg, imm \in Imms, mask \in MaskUses :
       \/ \E kind \in Loads : Load(kind, ra, r, mask, imm)
       \/ \E kind \in Stores : Store(kind, ra, r, mask, imm)
  \/ \E ra, rs, rstatus \in Reg, imm \in Imms : Strex(ra, rs, rstatus, imm)

Debugger ==
  \/ ResetCpu
  \/ \E r \in Reg, w \in Word : SetGpr(r, w)
  \/ \E a \in Ram, w \in Word : WriteRamWord(a, w)

Next == Instruction \/ Debugger

Spec == Init /\ [][Next]_vars

-----------------------------------------------------------------------------
Ops == Loads \union Stores \union
         {"NOP", "ADD", "STREX", "reset", "set_gpr", "write_ram_word"}

TypeOK ==
  /\ m \in Machine
  /\ op \in Ops
  /\ fault \in BOOLEAN
  /\ touched \in BOOLEAN

\* An armed monitor means that no instruction, of whichever program, wrote the
\* word it guards since the LDREX that armed it, so that a STREX that succeeds
\* is atomic with its LDREX (execute.py, store and strex).
MonitorGuardsWord == m.valid => ~touched

\* An instruction that faults has changed no memory, and no register unless it
\* is pre-indexed: it can be executed again on what it found (a STREX then
\* reports failure, its reservation being spent).  LDRPRE and STRPRE cannot:
\* their base has already become the address that faulted, so that a second
\* execution would move it a second time (execute.py, load_store and store).
FaultsAreConfined ==
  [][fault' => /\ m'.mem = m.mem
               /\ IF op' \in PreIndexed
                  THEN \E ra \in Reg, imm \in Imms :
                         /\ m'.reg = Put(m.reg, ra, Plus(m.reg[ra], imm))
                         /\ Plus(m.reg[ra], imm) \notin Ram
                  ELSE m'.reg = m.reg]_vars
=============================================================================
