---------------------------- MODULE LoadStoreOps ----------------------------
(***************************************************************************)
(* The load and store family of the E32C (core/execute.py) as functions on *)
(* a machine: general registers, memory, exclusive monitor.  A word is a   *)
(* function on its byte lanes; the arithmetic on addresses is a parameter. *)
(* Memory is Memory or the RAM of the bus: an address outside Ram is       *)
(* misaligned or unmapped and faults.                                      *)
(***************************************************************************)
EXTENDS Naturals

CONSTANTS
  Lanes,        \* byte lanes of a word (0 .. 3)
  Byte,         \* values of a byte, 0 among them
  FifthBit,     \* the bit of the mask field that selects no lane
  Plus(_, _),   \* addition modulo 2^32
  Ram,          \* the addresses of the words of memory
  Reg,          \* the general registers, without IP
  R0,           \* the register that reads as zero
  One           \* the status of a failed STREX; Zero is that of a successful one

Word == [Lanes -> Byte]
Zero == [k \in Lanes |-> 0]
Masks == SUBSET (Lanes \union {FifthBit})

ASSUME LoadStoreAssumption ==
  /\ 0 \in Byte
  /\ FifthBit \notin Lanes
  /\ \A a, b \in Word : Plus(a, b) \in Word
  /\ Ram \subseteq Word
  /\ R0 \in Reg
  /\ One \in Word /\ One # Zero

Machine ==
  [reg : [Reg -> Word], mem : [Ram -> Word], valid : BOOLEAN, addr : Word]

\* reg_write(): R0 ignores it, and so always reads as zero.
Put(reg, r, w) == IF r = R0 THEN reg ELSE [reg EXCEPT ![r] = w]

\* _apply_ldr_mask and _merge_str_mask.
Select(w, mask) == [k \in Lanes |-> IF k \in mask THEN w[k] ELSE 0]
\* MergeAdded is an altered merge for the validation of TypeOK: it does not
\* clear the byte it replaces.
MergeAdded(old, w, mask) ==
  [k \in Lanes |-> IF k \in mask THEN old[k] + w[k] ELSE old[k]]
Merge(old, w, mask) == [k \in Lanes |-> IF k \in mask THEN w[k] ELSE old[k]]

PreIndexed  == {"LDRPRE", "STRPRE"}
PostIndexed == {"LDRPOST", "STRPOST"}

EffectiveAddress(kind, base, imm) ==
  IF kind \in PostIndexed THEN base ELSE Plus(base, imm)

\* An empty mask makes no access; any other mask does, the fifth bit alone too.
Faults(ea, mask) == mask # {} /\ ea \notin Ram

\* Altered loads and stores for the validation of the properties: the
\* destination is cleared before the access; the monitor survives a store.
LoadedEager(m, kind, ra, rd, mask, imm) ==
  LET ea == EffectiveAddress(kind, m.reg[ra], imm)
      cleared == [m EXCEPT !.reg = Put(@, rd, Zero)]
  IN  IF Faults(ea, mask) THEN cleared
      ELSE [cleared EXCEPT !.reg = Put(@, rd, Select(m.mem[ea], mask))]
StoredArmed(m, kind, ra, rs, mask, imm) ==
  LET ea == EffectiveAddress(kind, m.reg[ra], imm)
  IN  IF mask = {} \/ ea \notin Ram THEN m
      ELSE [m EXCEPT !.mem[ea] = Merge(@, m.reg[rs], mask)]

(***************************************************************************)
(* A load.  The base of LDRPRE and the monitor of LDREX are written before *)
(* the access, so they stay written when it faults.                        *)
(***************************************************************************)
Loaded(m, kind, ra, rd, mask, imm) ==
  LET base  == m.reg[ra]
      ea    == EffectiveAddress(kind, base, imm)
      begun == [m EXCEPT
        !.reg   = IF kind \in PreIndexed THEN Put(@, ra, ea) ELSE @,
        !.valid = @ \/ kind = "LDREX",
        !.addr  = IF kind = "LDREX" THEN ea ELSE @]
      data  == IF mask = {} THEN Zero ELSE Select(m.mem[ea], mask)
      done  == Put(begun.reg, rd, data)
  IN  IF Faults(ea, mask) THEN begun
      ELSE [begun EXCEPT
        !.reg = IF kind \in PostIndexed THEN Put(done, ra, Plus(base, imm))
                                        ELSE done]

(***************************************************************************)
(* A store.  It disarms the monitor and writes the base of STRPRE before   *)
(* the access.  With an empty mask both indexed forms add the immediate on *)
(* the spot: for STRPRE it is the second time.                             *)
(***************************************************************************)
Stored(m, kind, ra, rs, mask, imm) ==
  LET base  == m.reg[ra]
      ea    == EffectiveAddress(kind, base, imm)
      begun == [m EXCEPT
        !.reg   = IF kind \in PreIndexed THEN Put(@, ra, ea) ELSE @,
        !.valid = FALSE]
      moved == Put(begun.reg, ra, Plus(ea, imm))
  IN  IF mask = {}
      THEN [begun EXCEPT !.reg = IF kind = "STR" THEN @ ELSE moved]
      ELSE IF Faults(ea, mask) THEN begun
      ELSE [begun EXCEPT
        !.mem[ea] = Merge(@, begun.reg[rs], mask),
        !.reg     = IF kind \in PostIndexed THEN moved ELSE @]

(***************************************************************************)
(* STREX: the whole word or nothing, and a status.  The monitor is spent   *)
(* before the write, which still faults when LDREX was given a bad address *)
(* and an empty mask, or faulted itself; the status is then not written.   *)
(***************************************************************************)
ExclusiveHeld(m, ea) == m.valid /\ m.addr = ea

Strexed(m, ra, rs, rstatus, imm, success, failure) ==
  LET ea == Plus(m.reg[ra], imm)
      begun == [m EXCEPT !.valid = FALSE]
  IN  IF ~ExclusiveHeld(m, ea)
      THEN [begun EXCEPT !.reg = Put(@, rstatus, failure)]
      ELSE IF ea \notin Ram THEN begun
      ELSE [begun EXCEPT !.mem[ea] = m.reg[rs],
                         !.reg = Put(@, rstatus, success)]

\* The exclusive store finds its reservation and still faults.
StrexFaults(m, ea) == ExclusiveHeld(m, ea) /\ ea \notin Ram
=============================================================================
