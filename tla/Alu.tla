-------------------------------- MODULE Alu ---------------------------------
(***************************************************************************)
(* A program of arithmetic and logic instructions on the registers and the *)
(* flags, as execute() carries them out.  The program is unknown: every    *)
(* step may be any of these instructions on any registers, so a behaviour  *)
(* is some straight run of it.  Loads are not here, but an ADDI on R0 puts *)
(* any value of Immediates into a register.                                *)
(*                                                                         *)
(* The properties are about chains: an ADDS or a SUBS on the low words of  *)
(* two wide numbers, and one ADCS or SBCS for each higher word, with other *)
(* instructions in between.                                                *)
(***************************************************************************)
EXTENDS AluOps

CONSTANTS
  Registers,   \* the registers in use, R0 among them
  Immediates,  \* the immediates of the program, extended to words
  MaxScale     \* bound: chains whose result fits below it are followed

ASSUME MachineAssumption ==
  /\ 0 \in Registers
  /\ Immediates \subseteq Words
  /\ MaxScale \in Nat

VARIABLES
  regs,   \* the general registers
  flags,  \* Z, C, V, S
  chain   \* history: the wide addition or subtraction under way

vars == <<regs, flags, chain>>

\* left, right: the operands seen so far as numbers below scale; result: the
\* words written; whole: Z still speaks of the whole difference.
NoChain == [op |-> "none", scale |-> 1, left |-> 0, right |-> 0, result |-> 0,
            whole |-> FALSE]
Started(op, a, b, r) ==
  [op |-> op, scale |-> WordRange, left |-> a, right |-> b, result |-> r,
   whole |-> TRUE]
Extended(op, a, b, r) ==
  IF chain.op # op \/ chain.scale * WordRange > MaxScale
  THEN NoChain
  ELSE [op |-> op, scale |-> chain.scale * WordRange,
        left |-> chain.left + chain.scale * a,
        right |-> chain.right + chain.scale * b,
        result |-> chain.result + chain.scale * r, whole |-> FALSE]

ChainSet ==
  [op : {"none", "sum", "difference"}, scale : Nat, left : Nat, right : Nat,
   result : Nat, whole : BOOLEAN]

\* Every register and flag holds what its type allows.  The flags are words of
\* bits in the code, kept apart here.
TypeOK ==
  /\ regs \in [Registers -> Words]
  /\ regs[0] = 0
  /\ flags \in FlagSet
  /\ chain \in ChainSet

Init ==
  /\ regs = [r \in Registers |-> 0]
  /\ flags = [z |-> FALSE, c |-> FALSE, v |-> FALSE, s |-> FALSE]
  /\ chain = NoChain

\* An altered write, against which TypeOK is validated: R0 is written as well.
PutAny(file, r, value) == [file EXCEPT ![r] = value]

\* reg_write: a write to R0 is ignored.
Put(file, r, value) == IF r = 0 THEN file ELSE [file EXCEPT ![r] = value]

-----------------------------------------------------------------------------
(* The instructions. *)

PlainRrr(m, r1, r2, res) ==
  /\ regs' = Put(regs, res, Plain(m, regs[r1], regs[r2], flags))
  /\ UNCHANGED <<flags, chain>>

Adds(a, b, res) ==
  LET sum == AddsFlags(a, b)
  IN  /\ regs' = Put(regs, res, sum.res)
      /\ flags' = sum.fl
      /\ chain' = Started("sum", a, b, sum.res)

Subs(a, b, res) ==
  LET difference == SubsFlags(a, b)
  IN  /\ regs' = Put(regs, res, difference.res)
      /\ flags' = difference.fl
      /\ chain' = Started("difference", a, b, difference.res)

Adcs(r1, r2, res) ==
  LET sum == AdcsFlags(regs[r1], regs[r2], flags.c)
  IN  /\ regs' = Put(regs, res, sum.res)
      /\ flags' = sum.fl
      /\ chain' = Extended("sum", regs[r1], regs[r2], sum.res)

Sbcs(r1, r2, res) ==
  LET difference == SbcsFlags(regs[r1], regs[r2], flags.c)
  IN  /\ regs' = Put(regs, res, difference.res)
      /\ flags' = difference.fl
      /\ chain' = Extended("difference", regs[r1], regs[r2], difference.res)

Ands(r1, r2, res) ==
  LET common == Plain("AND", regs[r1], regs[r2], flags)
  IN  /\ regs' = Put(regs, res, common)
      /\ flags' = ZS(common, FALSE, FALSE)
      /\ chain' = NoChain

\* The low word first, then the high word: the high one stays when both go to
\* the same register.
Multiply(m, r1, r2, res, resh) ==
  LET p == Product(m, regs[r1], regs[r2])
  IN  /\ regs' = Put(Put(regs, res, p[1]), resh, p[2])
      /\ UNCHANGED <<flags, chain>>

Mla(r1, r2, racc, res) ==
  /\ regs' = Put(regs, res,
                 Trunc(Product("MUL", regs[r1], regs[r2])[1] + regs[racc]))
  /\ UNCHANGED <<flags, chain>>

Addi(r1, res, imm) ==
  /\ regs' = Put(regs, res, Trunc(regs[r1] + imm))
  /\ UNCHANGED <<flags, chain>>

\* An altered SUBI, against which ConditionsDecide is validated: it sets all
\* four flags, as SUBSI does.
SubiAll(r1, res, imm) ==
  LET difference == SubsFlags(regs[r1], imm)
  IN  /\ regs' = Put(regs, res, difference.res)
      /\ flags' = difference.fl
      /\ chain' = [chain EXCEPT !.whole = FALSE]

\* SUBI, and so PUSH, changes Z alone: C, V and S keep speaking of the last
\* comparison.
Subi(r1, res, imm) ==
  LET value == Trunc(regs[r1] - imm)
  IN  /\ regs' = Put(regs, res, value)
      /\ flags' = [flags EXCEPT !.z = value = 0]
      /\ chain' = [chain EXCEPT !.whole = FALSE]

Next ==
  \/ \E r1, r2, res \in Registers :
       \/ \E m \in PlainNames : PlainRrr(m, r1, r2, res)
       \/ Adds(regs[r1], regs[r2], res)
       \/ Subs(regs[r1], regs[r2], res)
       \/ Adcs(r1, r2, res)
       \/ Sbcs(r1, r2, res)
       \/ Ands(r1, r2, res)
  \/ \E r1, r2, r3, res \in Registers :
       \/ \E m \in {"MUL", "UMULL", "SMULL"} : Multiply(m, r1, r2, res, r3)
       \/ Mla(r1, r2, r3, res)
  \/ \E r1, res \in Registers, imm \in Immediates :
       \/ Addi(r1, res, imm)
       \/ Subi(r1, res, imm)
       \/ Adds(regs[r1], imm, res)  \* ADDSI
       \/ Subs(regs[r1], imm, res)  \* SUBSI

Spec == Init /\ [][Next]_vars

-----------------------------------------------------------------------------
(* Properties. *)

\* A number below scale, read as two's complement of as many words.
WideSigned(x) == IF 2 * x >= chain.scale THEN x - chain.scale ELSE x
WideFits(x) == -chain.scale <= 2 * x /\ 2 * x < chain.scale

\* The words a chain of ADDS and ADCS (SUBS and SBCS) has written, with its
\* carry above them (less its borrow), are the sum (the difference) of the wide
\* operands; overflow and sign are those of the wide signed operation.  All this
\* whatever instructions that keep the flags came in between, among them SUBI and
\* the multiplications.  The carry in of ADCS and SBCS makes it so.
ChainsCompute ==
  LET l == WideSigned(chain.left)
      r == WideSigned(chain.right)
  IN  /\ chain.op = "sum" =>
           /\ chain.result + (IF flags.c THEN chain.scale ELSE 0)
                = chain.left + chain.right
           /\ flags.v = ~WideFits(l + r)
      /\ chain.op = "difference" =>
           /\ chain.result - (IF flags.c THEN 0 ELSE chain.scale)
                = chain.left - chain.right
           /\ flags.v = ~WideFits(l - r)
      /\ chain.op # "none" => flags.s = (2 * chain.result >= chain.scale)

\* After a comparison of any number of words the branches BCS, BCC decide the
\* unsigned order and BGE, BLT the signed one, until another instruction sets
\* these flags.  The branches that look at Z as well decide only after a
\* comparison of one word, and not after a SUBI: Z is that of the last result.
ConditionsDecide ==
  LET l == chain.left
      r == chain.right
      sl == WideSigned(l)
      sr == WideSigned(r)
      taken == Taken(flags)
  IN  /\ chain.op = "difference" =>
           /\ taken["BCS"] = (l >= r)
           /\ taken["BCC"] = (l < r)
           /\ taken["BGE"] = (sl >= sr)
           /\ taken["BLT"] = (sl < sr)
      /\ chain.op = "difference" /\ chain.whole =>
           /\ taken["BEQ"] = (l = r)
           /\ taken["BNE"] = (l # r)
           /\ taken["BHI"] = (l > r)
           /\ taken["BLS"] = (l <= r)
           /\ taken["BGT"] = (sl > sr)
           /\ taken["BLE"] = (sl <= sr)
=============================================================================
