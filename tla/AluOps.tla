------------------------------- MODULE AluOps -------------------------------
(***************************************************************************)
(* What the arithmetic and logic instructions of the E32C compute: results *)
(* and flags of src/core/execute.py, for words of any width.  A word is an *)
(* unsigned number; Signed is its two's complement reading.                *)
(***************************************************************************)
EXTENDS Integers, FiniteSetsExt

CONSTANTS
  Width,     \* bits of a word (32)
  HalfRange  \* 2^31, the first word whose sign bit is set

WordRange == 2 * HalfRange
Words == 0 .. WordRange - 1

ASSUME AluAssumption ==
  /\ Width \in Nat \ {0}
  /\ HalfRange \in Nat \ {0}

FlagSet == [z : BOOLEAN, c : BOOLEAN, v : BOOLEAN, s : BOOLEAN]

\* _u32 of a value less than one range away from a word: a sum or difference
\* of two words with a carry.
Trunc(x) ==
  IF x < 0 THEN x + WordRange ELSE IF x >= WordRange THEN x - WordRange ELSE x

Signed(x) == IF x >= HalfRange THEN x - WordRange ELSE x
SignedFits(x) == -HalfRange <= x /\ x < HalfRange
Negative(x) == x >= HalfRange

ZS(res, carry, overflow) ==
  [z |-> res = 0, c |-> carry, v |-> overflow, s |-> Negative(res)]

Result(res, carry, overflow) == [res |-> res, fl |-> ZS(res, carry, overflow)]

-----------------------------------------------------------------------------
(* Additions and subtractions that set the flags. *)

AddsFlags(a, b) ==
  Result(Trunc(a + b), a + b >= WordRange, ~SignedFits(Signed(a) + Signed(b)))

\* The carry of a subtraction is the absence of a borrow.
SubsFlags(a, b) ==
  Result(Trunc(a - b), a >= b, ~SignedFits(Signed(a) - Signed(b)))

\* An altered addition, against which ChainsCompute is validated: its carry out
\* forgets the carry in.
AdcsFlagsShort(a, b, carry) ==
  LET cin == IF carry THEN 1 ELSE 0
  IN  Result(Trunc(a + b + cin), a + b >= WordRange,
             ~SignedFits(Signed(a) + Signed(b) + cin))

AdcsFlags(a, b, carry) ==
  LET cin == IF carry THEN 1 ELSE 0
  IN  Result(Trunc(a + b + cin), a + b + cin >= WordRange,
             ~SignedFits(Signed(a) + Signed(b) + cin))

SbcsFlags(a, b, carry) ==
  LET borrow == IF carry THEN 0 ELSE 1
  IN  Result(Trunc(a - b - borrow), a - b - borrow >= 0,
             ~SignedFits(Signed(a) - Signed(b) - borrow))

\* The sixteen conditions of BJ but BAL and the reserved one; JZ, JNZ, JC, JS
\* and JO test the same flags as BEQ, BNE, BCS, BMI and BVS.
Taken(f) ==
  LET less == f.s # f.v
  IN  [BEQ |-> f.z, BNE |-> ~f.z, BCS |-> f.c, BCC |-> ~f.c, BMI |-> f.s,
       BPL |-> ~f.s, BVS |-> f.v, BVC |-> ~f.v, BHI |-> f.c /\ ~f.z,
       BLS |-> ~f.c \/ f.z, BGE |-> ~less, BLT |-> less,
       BGT |-> ~f.z /\ ~less, BLE |-> f.z \/ less]

-----------------------------------------------------------------------------
(* Bits, shifts and products. *)

Bits(x) == {i \in 0 .. Width - 1 : (x \div 2^i) % 2 = 1}
Number(S) == MapThenSumSet(LAMBDA i : 2^i, S)

\* The numbers of Width bits are words: HalfRange is 2^(Width - 1).
ASSUME BitsAssumption ==
  /\ \A k \in 0 .. Width - 1 : 2^k \in Nat \ {0}
  /\ \A S \in SUBSET (0 .. Width - 1) : Number(S) \in Words

\* The two ends of a left and of a right shift by k, and the rotations.
Shl(x, k) == (x * 2^k) % WordRange
Shr(x, k) == x \div 2^k
Rol(x, k) == Number({(i + k) % Width : i \in Bits(x)})
Ror(x, k) == Number({(i - k) % Width : i \in Bits(x)})

\* The three-register instructions that leave the flags alone.
Plain(m, a, b, f) ==
  LET k == b % Width  \* b & 0x1F
  IN  CASE m = "ADD" -> Trunc(a + b)
        [] m = "SUB" -> Trunc(a - b)
        [] m = "ADC" -> Trunc(a + b + IF f.c THEN 1 ELSE 0)
        [] m = "SBC" -> Trunc(a - b - IF f.c THEN 0 ELSE 1)
        [] m = "AND" -> Number(Bits(a) \intersect Bits(b))
        [] m = "OR"  -> Number(Bits(a) \union Bits(b))
        [] m = "XOR" -> Number((Bits(a) \union Bits(b)) \ (Bits(a) \intersect Bits(b)))
        [] m = "BIC" -> Number(Bits(a) \ Bits(b))
        [] m = "MVN" -> WordRange - 1 - b
        [] m = "NEG" -> Trunc(-Signed(b))
        [] m \in {"SLL", "SAL"} -> Shl(a, k)
        [] m = "SLR" -> Shr(a, k)
        [] m = "ROR" -> Ror(a, k)
        [] m = "ROL" -> Rol(a, k)
        [] m = "SMUL" -> (Signed(a) * Signed(b)) % WordRange
PlainNames == {"ADD", "SUB", "ADC", "SBC", "AND", "OR", "XOR", "BIC", "MVN",
               "NEG", "SLL", "SAL", "SLR", "ROR", "ROL", "SMUL"}

\* MUL and UMULL, SMULL: the product as <<low word, high word>>.
Product(m, a, b) ==
  LET p == IF m = "SMULL" THEN Signed(a) * Signed(b) ELSE a * b
  IN  <<p % WordRange, (p \div WordRange) % WordRange>>
=============================================================================
