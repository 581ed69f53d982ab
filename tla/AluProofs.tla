------------------------------ MODULE AluProofs -----------------------------
(***************************************************************************)
(* Registers stay words, chains of ADDS, ADCS, SUBS and SBCS compute wide  *)
(* sums and differences, and branches decide comparisons: for words of any *)
(* width, any registers and chains of any length.  The firmware that is    *)
(* computed with these instructions, the calculator, follows: it reads and *)
(* answers every line as the reference does, whatever is typed, for words  *)
(* of any width, any base and any number of places.                        *)
(***************************************************************************)
EXTENDS Alu, UartCalculator, SequenceTheorems, WellFoundedInduction, TLAPS

LEMMA WordRangeType == HalfRange \in Nat \ {0} /\ WordRange \in Nat /\ WordRange > 1
BY AluAssumption DEF WordRange

-----------------------------------------------------------------------------
(* What the instructions compute are words. *)

LEMMA TruncType ==
  ASSUME NEW x \in -WordRange .. 2 * WordRange - 1
  PROVE  Trunc(x) \in Words
BY WordRangeType DEF Trunc, Words

LEMMA ModWord ==
  ASSUME NEW x \in Int
  PROVE  x % WordRange \in Words
BY WordRangeType DEF Words

LEMMA QuotientWord ==
  ASSUME NEW x \in Words, NEW n \in Nat \ {0}
  PROVE  x \div n \in Words
<1>1. x \in Nat /\ x \div n \in Nat /\ x \div n <= x
  BY WordRangeType DEF Words
<1> QED BY <1>1, WordRangeType DEF Words

\* Flags and results of the four additions and subtractions.
LEMMA AddsType ==
  ASSUME NEW a \in Words, NEW b \in Words
  PROVE  AddsFlags(a, b).res \in Words /\ AddsFlags(a, b).fl \in FlagSet
<1>1. Trunc(a + b) \in Words
  BY WordRangeType, TruncType DEF Words
<1> QED BY <1>1 DEF AddsFlags, Result, ZS, FlagSet, SignedFits, Negative

LEMMA SubsType ==
  ASSUME NEW a \in Words, NEW b \in Words
  PROVE  SubsFlags(a, b).res \in Words /\ SubsFlags(a, b).fl \in FlagSet
<1>1. Trunc(a - b) \in Words
  BY WordRangeType, TruncType DEF Words
<1> QED BY <1>1 DEF SubsFlags, Result, ZS, FlagSet, SignedFits, Negative

LEMMA AdcsType ==
  ASSUME NEW a \in Words, NEW b \in Words, NEW carry \in BOOLEAN
  PROVE  AdcsFlags(a, b, carry).res \in Words /\ AdcsFlags(a, b, carry).fl \in FlagSet
<1> DEFINE cin == IF carry THEN 1 ELSE 0
<1>1. Trunc(a + b + cin) \in Words
  BY WordRangeType, TruncType DEF Words
<1> HIDE DEF cin
<1>2. AdcsFlags(a, b, carry) = Result(Trunc(a + b + cin), a + b + cin >= WordRange,
                                      ~SignedFits(Signed(a) + Signed(b) + cin))
  BY DEF AdcsFlags, cin
<1> QED BY <1>1, <1>2 DEF Result, ZS, FlagSet, SignedFits, Negative

LEMMA SbcsType ==
  ASSUME NEW a \in Words, NEW b \in Words, NEW carry \in BOOLEAN
  PROVE  SbcsFlags(a, b, carry).res \in Words /\ SbcsFlags(a, b, carry).fl \in FlagSet
<1> DEFINE bin == IF carry THEN 0 ELSE 1
<1>1. Trunc(a - b - bin) \in Words
  BY WordRangeType, TruncType DEF Words
<1> HIDE DEF bin
<1>2. SbcsFlags(a, b, carry) = Result(Trunc(a - b - bin), a - b - bin >= 0,
                                      ~SignedFits(Signed(a) - Signed(b) - bin))
  BY DEF SbcsFlags, bin
<1> QED BY <1>1, <1>2 DEF Result, ZS, FlagSet, SignedFits, Negative

\* The instructions that leave the flags alone.
LEMMA PlainType ==
  ASSUME NEW m \in PlainNames, NEW a \in Words, NEW b \in Words, NEW f \in FlagSet
  PROVE  Plain(m, a, b, f) \in Words
<1> DEFINE k == b % Width
<1>1. k \in 0 .. Width - 1 /\ 2^k \in Nat \ {0}
  <2>1. b \in Nat BY WordRangeType DEF Words
  <2>2. k \in 0 .. Width - 1 BY <2>1, AluAssumption
  <2> QED BY <2>2, BitsAssumption
<1>2. a \in Int /\ b \in Int /\ Signed(a) \in Int /\ Signed(b) \in Int
  BY WordRangeType DEF Words, Signed
<1>3. Trunc(a + b) \in Words /\ Trunc(a - b) \in Words
      /\ Trunc(a + b + IF f.c THEN 1 ELSE 0) \in Words
      /\ Trunc(a - b - IF f.c THEN 0 ELSE 1) \in Words
  BY WordRangeType, TruncType DEF Words
<1>4. WordRange - 1 - b \in Words /\ Trunc(-Signed(b)) \in Words
  BY WordRangeType, TruncType DEF Words, Signed, WordRange
<1>5. \A B \in SUBSET (0 .. Width - 1) : Number(B) \in Words
  BY BitsAssumption
<1>6. Bits(a) \subseteq 0 .. Width - 1 /\ Bits(b) \subseteq 0 .. Width - 1
  BY DEF Bits
<1>7. /\ Number(Bits(a) \intersect Bits(b)) \in Words
      /\ Number(Bits(a) \union Bits(b)) \in Words
      /\ Number((Bits(a) \union Bits(b)) \ (Bits(a) \intersect Bits(b))) \in Words
      /\ Number(Bits(a) \ Bits(b)) \in Words
  <2>1. /\ Bits(a) \intersect Bits(b) \in SUBSET (0 .. Width - 1)
        /\ Bits(a) \union Bits(b) \in SUBSET (0 .. Width - 1)
        /\ (Bits(a) \union Bits(b)) \ (Bits(a) \intersect Bits(b)) \in SUBSET (0 .. Width - 1)
        /\ Bits(a) \ Bits(b) \in SUBSET (0 .. Width - 1)
    BY <1>6
  <2> QED BY <2>1, <1>5
<1>8. Rol(a, k) \in Words /\ Ror(a, k) \in Words
  <2>1. \A i \in Bits(a) : (i + k) % Width \in 0 .. Width - 1
                           /\ (i - k) % Width \in 0 .. Width - 1
    BY <1>1, <1>6, AluAssumption
  <2>2. /\ {(i + k) % Width : i \in Bits(a)} \in SUBSET (0 .. Width - 1)
        /\ {(i - k) % Width : i \in Bits(a)} \in SUBSET (0 .. Width - 1)
    BY <2>1
  <2> QED BY <2>2, <1>5 DEF Rol, Ror
<1>9. Shl(a, k) \in Words /\ Shr(a, k) \in Words
  <2> DEFINE n == 2^k
  <2>1. Shl(a, k) = (a * n) % WordRange /\ Shr(a, k) = a \div n
    BY DEF Shl, Shr
  <2>2. n \in Nat \ {0}
    BY <1>1
  <2> HIDE DEF n
  <2>3. (a * n) % WordRange \in Words
    BY <1>2, <2>2, ModWord
  <2> QED BY <2>1, <2>2, <2>3, QuotientWord
<1>10. (Signed(a) * Signed(b)) % WordRange \in Words
  BY <1>2, ModWord
<1> HIDE DEF k
<1>11. Plain(m, a, b, f) \in
         {Trunc(a + b), Trunc(a - b), Trunc(a + b + IF f.c THEN 1 ELSE 0),
          Trunc(a - b - IF f.c THEN 0 ELSE 1), Number(Bits(a) \intersect Bits(b)),
          Number(Bits(a) \union Bits(b)),
          Number((Bits(a) \union Bits(b)) \ (Bits(a) \intersect Bits(b))),
          Number(Bits(a) \ Bits(b)), WordRange - 1 - b, Trunc(-Signed(b)),
          Shl(a, k), Shr(a, k), Rol(a, k), Ror(a, k),
          (Signed(a) * Signed(b)) % WordRange}
  BY DEF Plain, PlainNames, k
<1> QED BY <1>3, <1>4, <1>7, <1>8, <1>9, <1>10, <1>11

LEMMA ProductType ==
  ASSUME NEW m, NEW a \in Words, NEW b \in Words
  PROVE  Product(m, a, b)[1] \in Words /\ Product(m, a, b)[2] \in Words
<1> DEFINE p == IF m = "SMULL" THEN Signed(a) * Signed(b) ELSE a * b
<1>1. p \in Int
  <2>1. a \in Int /\ b \in Int /\ Signed(a) \in Int /\ Signed(b) \in Int
    BY WordRangeType DEF Words, Signed
  <2>2. Signed(a) * Signed(b) \in Int /\ a * b \in Int
    BY <2>1
  <2> QED BY <2>2
<1> HIDE DEF p
<1>2. p \div WordRange \in Int
  BY <1>1, WordRangeType
<1>3. Product(m, a, b) = <<p % WordRange, (p \div WordRange) % WordRange>>
  BY DEF Product, p
<1> QED BY <1>1, <1>2, <1>3, ModWord

LEMMA PutType ==
  ASSUME NEW file \in [Registers -> Words], file[0] = 0,
         NEW r \in Registers, NEW value \in Words
  PROVE  Put(file, r, value) \in [Registers -> Words] /\ Put(file, r, value)[0] = 0
BY MachineAssumption DEF Put

-----------------------------------------------------------------------------
(* Every register and flag keeps its type. *)

\* Fields of a chain, and the chains the instructions leave.
LEMMA StartedType ==
  ASSUME NEW op \in {"sum", "difference"}, NEW a \in Words, NEW b \in Words,
         NEW r \in Words
  PROVE  Started(op, a, b, r) \in ChainSet
BY WordRangeType DEF Started, ChainSet, Words

LEMMA ExtendedType ==
  ASSUME chain \in ChainSet, NEW op \in {"sum", "difference"},
         NEW a \in Words, NEW b \in Words, NEW r \in Words
  PROVE  Extended(op, a, b, r) \in ChainSet
<1>1. chain.scale \in Nat /\ chain.left \in Nat /\ chain.right \in Nat
      /\ chain.result \in Nat
  BY DEF ChainSet
<1>2. a \in Nat /\ b \in Nat /\ r \in Nat /\ WordRange \in Nat
  BY WordRangeType DEF Words
<1>3. /\ chain.scale * WordRange \in Nat
      /\ chain.left + chain.scale * a \in Nat
      /\ chain.right + chain.scale * b \in Nat
      /\ chain.result + chain.scale * r \in Nat
  BY <1>1, <1>2
<1>4. NoChain \in ChainSet
  BY DEF NoChain, ChainSet
<1> QED BY <1>3, <1>4 DEF Extended, ChainSet

\* An instruction that keeps the chain, or at most forgets that Z was its own.
LEMMA ForgottenType ==
  ASSUME chain \in ChainSet
  PROVE  [chain EXCEPT !.whole = FALSE] \in ChainSet
BY DEF ChainSet

LEMMA RegisterTypes ==
  ASSUME TypeOK, NEW r \in Registers
  PROVE  regs[r] \in Words
BY DEF TypeOK

LEMMA InitType ==
  ASSUME Init
  PROVE  TypeOK
BY WordRangeType, MachineAssumption
   DEF Init, TypeOK, Words, FlagSet, NoChain, ChainSet

\* Each instruction in turn.
LEMMA NextType ==
  ASSUME TypeOK, [Next]_vars
  PROVE  TypeOK'
<1> USE DEF TypeOK
<1>1. ASSUME NEW m \in PlainNames, NEW r1 \in Registers, NEW r2 \in Registers,
             NEW res \in Registers, PlainRrr(m, r1, r2, res)
      PROVE  TypeOK'
  BY <1>1, PlainType, PutType, RegisterTypes DEF PlainRrr
<1>2. ASSUME NEW a \in Words, NEW b \in Words, NEW res \in Registers, Adds(a, b, res)
      PROVE  TypeOK'
  BY <1>2, AddsType, PutType, StartedType DEF Adds
<1>3. ASSUME NEW a \in Words, NEW b \in Words, NEW res \in Registers, Subs(a, b, res)
      PROVE  TypeOK'
  BY <1>3, SubsType, PutType, StartedType DEF Subs
<1>4. ASSUME NEW r1 \in Registers, NEW r2 \in Registers, NEW res \in Registers,
             Adcs(r1, r2, res)
      PROVE  TypeOK'
  <2>1. flags.c \in BOOLEAN
    BY DEF FlagSet
  <2> QED BY <1>4, <2>1, AdcsType, PutType, ExtendedType, RegisterTypes DEF Adcs
<1>5. ASSUME NEW r1 \in Registers, NEW r2 \in Registers, NEW res \in Registers,
             Sbcs(r1, r2, res)
      PROVE  TypeOK'
  <2>1. flags.c \in BOOLEAN
    BY DEF FlagSet
  <2> QED BY <1>5, <2>1, SbcsType, PutType, ExtendedType, RegisterTypes DEF Sbcs
<1>6. ASSUME NEW r1 \in Registers, NEW r2 \in Registers, NEW res \in Registers,
             Ands(r1, r2, res)
      PROVE  TypeOK'
  <2> DEFINE common == Plain("AND", regs[r1], regs[r2], flags)
  <2>1. common \in Words
    BY PlainType, RegisterTypes DEF PlainNames
  <2> HIDE DEF common
  <2>2. ZS(common, FALSE, FALSE) \in FlagSet /\ NoChain \in ChainSet
    BY DEF ZS, FlagSet, Negative, NoChain, ChainSet
  <2>3. regs' = Put(regs, res, common) /\ flags' = ZS(common, FALSE, FALSE)
        /\ chain' = NoChain
    BY <1>6 DEF Ands, common
  <2> QED BY <2>1, <2>2, <2>3, PutType
<1>7. ASSUME NEW m, NEW r1 \in Registers, NEW r2 \in Registers,
             NEW res \in Registers, NEW resh \in Registers,
             Multiply(m, r1, r2, res, resh)
      PROVE  TypeOK'
  <2> DEFINE p == Product(m, regs[r1], regs[r2])
  <2>1. p[1] \in Words /\ p[2] \in Words
    BY ProductType, RegisterTypes
  <2>2. regs' = Put(Put(regs, res, p[1]), resh, p[2]) /\ UNCHANGED <<flags, chain>>
    BY <1>7 DEF Multiply
  <2> HIDE DEF p
  <2>3. Put(regs, res, p[1]) \in [Registers -> Words] /\ Put(regs, res, p[1])[0] = 0
    BY <2>1, PutType
  <2>4. regs' \in [Registers -> Words] /\ regs'[0] = 0
    BY <2>1, <2>2, <2>3, PutType
  <2> QED BY <2>2, <2>4
<1>8. ASSUME NEW r1 \in Registers, NEW r2 \in Registers, NEW racc \in Registers,
             NEW res \in Registers, Mla(r1, r2, racc, res)
      PROVE  TypeOK'
  <2> DEFINE low == Product("MUL", regs[r1], regs[r2])[1]
  <2>1. low \in Words /\ regs[racc] \in Words
    BY ProductType, RegisterTypes
  <2>2. Trunc(low + regs[racc]) \in Words
    BY <2>1, WordRangeType, TruncType DEF Words
  <2>3. regs' = Put(regs, res, Trunc(low + regs[racc])) /\ UNCHANGED <<flags, chain>>
    BY <1>8 DEF Mla
  <2> QED BY <2>2, <2>3, PutType
<1>9. ASSUME NEW r1 \in Registers, NEW res \in Registers, NEW imm \in Immediates,
             Addi(r1, res, imm)
      PROVE  TypeOK'
  <2>1. Trunc(regs[r1] + imm) \in Words
    BY MachineAssumption, RegisterTypes, WordRangeType, TruncType DEF Words
  <2> QED BY <1>9, <2>1, PutType DEF Addi
<1>10. ASSUME NEW r1 \in Registers, NEW res \in Registers, NEW imm \in Immediates,
              Subi(r1, res, imm)
       PROVE  TypeOK'
  <2> DEFINE value == Trunc(regs[r1] - imm)
  <2>1. value \in Words
    BY MachineAssumption, RegisterTypes, WordRangeType, TruncType DEF Words
  <2> HIDE DEF value
  <2>2. regs' = Put(regs, res, value) /\ flags' = [flags EXCEPT !.z = value = 0]
        /\ chain' = [chain EXCEPT !.whole = FALSE]
    BY <1>10 DEF Subi, value
  <2>3. flags' \in FlagSet
    BY <2>2 DEF FlagSet
  <2> QED BY <2>1, <2>2, <2>3, PutType, ForgottenType
<1>11. CASE UNCHANGED vars
  BY <1>11 DEF vars
<1>12. Immediates \subseteq Words
  BY MachineAssumption
<1> QED BY <1>1, <1>2, <1>3, <1>4, <1>5, <1>6, <1>7, <1>8, <1>9, <1>10, <1>11,
           <1>12, RegisterTypes DEF Next

\* Registers hold words, R0 zero, flags bits, whatever the program computes
\* (execute.py, reg_write).
THEOREM AluTypes == Spec => []TypeOK
<1>1. Init => TypeOK
  BY InitType
<1>2. TypeOK /\ [Next]_vars => TypeOK'
  BY NextType
<1> QED BY <1>1, <1>2, PTL DEF Spec

-----------------------------------------------------------------------------
(* Arithmetic of two words and of a word above a wide number. *)

\* One word: the truncated sum and its carry, the truncated difference and its
\* borrow, are the sum and the difference.
LEMMA SumOfWords ==
  ASSUME NEW a \in Words, NEW b \in Words, NEW cin \in {0, 1}
  PROVE  Trunc(a + b + cin) + (IF a + b + cin >= WordRange THEN WordRange ELSE 0)
           = a + b + cin
BY WordRangeType DEF Trunc, Words

LEMMA DifferenceOfWords ==
  ASSUME NEW a \in Words, NEW b \in Words, NEW bin \in {0, 1}
  PROVE  Trunc(a - b - bin) - (IF a - b - bin >= 0 THEN 0 ELSE WordRange)
           = a - b - bin
BY WordRangeType DEF Trunc, Words

\* The part below does not decide a comparison of the words above it.
LEMMA Carried ==
  ASSUME NEW s \in Nat \ {0}, NEW low \in 0 .. s - 1, NEW x \in Int, NEW y \in Int
  PROVE  low + s * x < s * y <=> x < y
<1>1. CASE x < y
  <2>1. s * (y - x - 1) >= 0
    BY <1>1
  <2>2. s * (y - x - 1) = s * y - s * x - s
    OBVIOUS
  <2> QED BY <2>1, <2>2, <1>1
<1>2. CASE x >= y
  <2>1. s * (x - y) >= 0
    BY <1>2
  <2>2. s * (x - y) = s * x - s * y
    OBVIOUS
  <2> QED BY <2>1, <2>2, <1>2
<1> QED BY <1>1, <1>2

\* A word above a number below s is a number below s * WordRange, and its sign
\* bit is that of the word.
LEMMA WordAbove ==
  ASSUME NEW s \in Nat \ {0}, NEW low \in 0 .. s - 1, NEW x \in Words
  PROVE  /\ s * WordRange = 2 * (s * HalfRange)
         /\ low + s * x \in 0 .. s * WordRange - 1
         /\ 2 * (low + s * x) >= s * WordRange <=> x >= HalfRange
<1>1. x \in Int /\ 0 <= x /\ x < WordRange /\ HalfRange \in Int /\ WordRange \in Int
  BY WordRangeType DEF Words
<1>2. s * WordRange = 2 * (s * HalfRange)
  BY WordRangeType DEF WordRange
<1>3. s * x >= 0 /\ s * x \in Int /\ s * WordRange \in Int /\ s * HalfRange \in Int
  BY <1>1
<1>4. low + s * x < s * WordRange
  BY <1>1, Carried
<1>5. low + s * x < s * HalfRange <=> x < HalfRange
  BY <1>1, Carried
<1> QED BY <1>1, <1>2, <1>3, <1>4, <1>5

\* A wide signed number fits when the part above fits.
LEMMA FitsAbove ==
  ASSUME NEW s \in Nat \ {0}, NEW low \in 0 .. s - 1, NEW x \in Int
  PROVE  (-(s * WordRange) <= 2 * (low + s * x) /\ 2 * (low + s * x) < s * WordRange)
           <=> SignedFits(x)
<1>1. HalfRange \in Int /\ -HalfRange \in Int
  BY WordRangeType
<1>2. s * WordRange = 2 * (s * HalfRange)
  BY WordRangeType DEF WordRange
<1>3. s * x \in Int /\ s * HalfRange \in Int /\ s * (-HalfRange) = -(s * HalfRange)
  BY <1>1
<1>4. low + s * x < s * HalfRange <=> x < HalfRange
  BY <1>1, Carried
<1>5. low + s * x < s * (-HalfRange) <=> x < -HalfRange
  BY <1>1, Carried
<1> QED BY <1>1, <1>2, <1>3, <1>4, <1>5 DEF SignedFits

-----------------------------------------------------------------------------
(* Chains. *)

\* ChainsCompute and what it needs to be preserved, of a chain k and flags f: the
\* numbers of the chain are below its scale, which is even, and Z is that of the
\* last word where it is to be looked at.
SignedBelow(x, s) == IF 2 * x >= s THEN x - s ELSE x
FitsBelow(x, s) == -s <= 2 * x /\ 2 * x < s

Bounded(k, f) ==
  k.op # "none" =>
    /\ k.scale \in Nat \ {0}
    /\ \E h \in Nat : k.scale = 2 * h
    /\ k.left \in 0 .. k.scale - 1
    /\ k.right \in 0 .. k.scale - 1
    /\ k.result \in 0 .. k.scale - 1
    /\ k.whole => (f.z <=> k.result = 0)

Computed(k, f) ==
  LET l == SignedBelow(k.left, k.scale)
      r == SignedBelow(k.right, k.scale)
  IN  /\ k.op = "sum" =>
           /\ k.result + (IF f.c THEN k.scale ELSE 0) = k.left + k.right
           /\ f.v <=> ~FitsBelow(l + r, k.scale)
      /\ k.op = "difference" =>
           /\ k.result - (IF f.c THEN 0 ELSE k.scale) = k.left - k.right
           /\ f.v <=> ~FitsBelow(l - r, k.scale)
      /\ k.op # "none" => (f.s <=> 2 * k.result >= k.scale)

ChainInv == TypeOK /\ Bounded(chain, flags) /\ Computed(chain, flags)

LEMMA FlagTypes ==
  ASSUME NEW f \in FlagSet
  PROVE  f.z \in BOOLEAN /\ f.c \in BOOLEAN /\ f.v \in BOOLEAN /\ f.s \in BOOLEAN
BY DEF FlagSet

LEMMA ComputedIsChainsCompute ==
  ASSUME flags \in FlagSet, Computed(chain, flags)
  PROVE  ChainsCompute
<1>1. flags.c \in BOOLEAN /\ flags.v \in BOOLEAN /\ flags.s \in BOOLEAN
  BY FlagTypes
<1> QED BY <1>1 DEF Computed, ChainsCompute, SignedBelow, FitsBelow, WideSigned, WideFits

\* A chain begins.
LEMMA AddsChain ==
  ASSUME NEW a \in Words, NEW b \in Words
  PROVE  /\ Bounded(Started("sum", a, b, AddsFlags(a, b).res), AddsFlags(a, b).fl)
         /\ Computed(Started("sum", a, b, AddsFlags(a, b).res), AddsFlags(a, b).fl)
<1> DEFINE r == Trunc(a + b)
           k == Started("sum", a, b, r)
           f == AddsFlags(a, b).fl
<1>1. /\ k.op = "sum" /\ k.scale = WordRange
      /\ k.left = a /\ k.right = b /\ k.result = r
  BY DEF Started
<1>2. /\ AddsFlags(a, b).res = r
      /\ f.z <=> r = 0
      /\ f.c <=> a + b >= WordRange
      /\ f.v <=> ~SignedFits(Signed(a) + Signed(b))
      /\ f.s <=> r >= HalfRange
  BY DEF AddsFlags, Result, ZS, Negative
<1>3. r \in Words
  BY WordRangeType, TruncType DEF Words
<1>4. r + (IF a + b >= WordRange THEN WordRange ELSE 0) = a + b
  BY WordRangeType DEF Trunc, Words
<1> HIDE DEF r, k, f
<1>5. SignedBelow(a, WordRange) = Signed(a) /\ SignedBelow(b, WordRange) = Signed(b)
  BY WordRangeType DEF SignedBelow, Signed, Words, WordRange
<1>6. Signed(a) + Signed(b) \in Int
  BY WordRangeType DEF Signed, Words
<1>7. FitsBelow(Signed(a) + Signed(b), WordRange) <=> SignedFits(Signed(a) + Signed(b))
  BY <1>6, WordRangeType DEF FitsBelow, SignedFits, WordRange
<1>8. 2 * r >= WordRange <=> r >= HalfRange
  BY <1>3, WordRangeType DEF Words, WordRange
<1>9. Bounded(k, f)
  BY <1>1, <1>2, <1>3, WordRangeType DEF Bounded, Words, WordRange
<1>10. Computed(k, f)
  BY <1>1, <1>2, <1>4, <1>5, <1>7, <1>8 DEF Computed
<1> QED BY <1>2, <1>9, <1>10 DEF k, f

LEMMA SubsChain ==
  ASSUME NEW a \in Words, NEW b \in Words
  PROVE  /\ Bounded(Started("difference", a, b, SubsFlags(a, b).res), SubsFlags(a, b).fl)
         /\ Computed(Started("difference", a, b, SubsFlags(a, b).res), SubsFlags(a, b).fl)
<1> DEFINE r == Trunc(a - b)
           k == Started("difference", a, b, r)
           f == SubsFlags(a, b).fl
<1>1. /\ k.op = "difference" /\ k.scale = WordRange
      /\ k.left = a /\ k.right = b /\ k.result = r
  BY DEF Started
<1>2. /\ SubsFlags(a, b).res = r
      /\ f.z <=> r = 0
      /\ f.c <=> a >= b
      /\ f.v <=> ~SignedFits(Signed(a) - Signed(b))
      /\ f.s <=> r >= HalfRange
  BY DEF SubsFlags, Result, ZS, Negative
<1>3. r \in Words
  BY WordRangeType, TruncType DEF Words
<1>4. r - (IF a >= b THEN 0 ELSE WordRange) = a - b
  BY WordRangeType DEF Trunc, Words
<1> HIDE DEF r, k, f
<1>5. SignedBelow(a, WordRange) = Signed(a) /\ SignedBelow(b, WordRange) = Signed(b)
  BY WordRangeType DEF SignedBelow, Signed, Words, WordRange
<1>6. Signed(a) - Signed(b) \in Int
  BY WordRangeType DEF Signed, Words
<1>7. FitsBelow(Signed(a) - Signed(b), WordRange) <=> SignedFits(Signed(a) - Signed(b))
  BY <1>6, WordRangeType DEF FitsBelow, SignedFits, WordRange
<1>8. 2 * r >= WordRange <=> r >= HalfRange
  BY <1>3, WordRangeType DEF Words, WordRange
<1>9. Bounded(k, f)
  BY <1>1, <1>2, <1>3, WordRangeType DEF Bounded, Words, WordRange
<1>10. Computed(k, f)
  BY <1>1, <1>2, <1>4, <1>5, <1>7, <1>8 DEF Computed
<1> QED BY <1>2, <1>9, <1>10 DEF k, f

\* A word above a chain, read as two's complement.
LEMMA SignedAbove ==
  ASSUME NEW s \in Nat \ {0}, NEW low \in 0 .. s - 1, NEW x \in Words
  PROVE  SignedBelow(low + s * x, s * WordRange) = low + s * Signed(x)
<1>1. s \in Int /\ x \in Int /\ WordRange \in Int
  BY WordRangeType DEF Words
<1>2. s * (x - WordRange) = s * x - s * WordRange /\ s * x \in Int
      /\ s * WordRange \in Int
  BY <1>1
<1>3. 2 * (low + s * x) >= s * WordRange <=> x >= HalfRange
  BY WordAbove
<1> QED BY <1>2, <1>3 DEF SignedBelow, Signed

\* A chain that has grown by the words a, b and r keeps its numbers below its
\* scale, and its sign is that of its last word.
LEMMA GrownBounds ==
  ASSUME NEW s \in Nat \ {0}, NEW left \in 0 .. s - 1, NEW right \in 0 .. s - 1,
         NEW result \in 0 .. s - 1, NEW a \in Words, NEW b \in Words, NEW r \in Words
  PROVE  /\ s * WordRange \in Nat \ {0}
         /\ \E h \in Nat : s * WordRange = 2 * h
         /\ left + s * a \in 0 .. s * WordRange - 1
         /\ right + s * b \in 0 .. s * WordRange - 1
         /\ result + s * r \in 0 .. s * WordRange - 1
         /\ 2 * (result + s * r) >= s * WordRange <=> r >= HalfRange
<1>1. s * WordRange = 2 * (s * HalfRange)
  BY WordAbove
<1>2. s * HalfRange \in Nat /\ s * WordRange \in Nat /\ s * WordRange # 0
  BY WordRangeType
<1> QED BY <1>1, <1>2, WordAbove

\* A chain grows, or is followed no further.
LEMMA AdcsChain ==
  ASSUME chain \in ChainSet, flags \in FlagSet,
         Bounded(chain, flags), Computed(chain, flags),
         NEW a \in Words, NEW b \in Words
  PROVE  LET sum == AdcsFlags(a, b, flags.c)
         IN  /\ Bounded(Extended("sum", a, b, sum.res), sum.fl)
             /\ Computed(Extended("sum", a, b, sum.res), sum.fl)
<1> DEFINE sum == AdcsFlags(a, b, flags.c)
           k == Extended("sum", a, b, sum.res)
<1>1. CASE chain.op # "sum" \/ chain.scale * WordRange > MaxScale
  <2>1. k = NoChain
    BY <1>1 DEF Extended
  <2> HIDE DEF sum, k
  <2>2. Bounded(k, sum.fl) /\ Computed(k, sum.fl)
    BY <2>1 DEF Bounded, Computed, NoChain
  <2> QED BY <2>2 DEF k, sum
<1>2. CASE ~(chain.op # "sum" \/ chain.scale * WordRange > MaxScale)
  <2> DEFINE s == chain.scale
             left == chain.left
             right == chain.right
             result == chain.result
             cin == IF flags.c THEN 1 ELSE 0
             r == Trunc(a + b + cin)
             cout == IF a + b + cin >= WordRange THEN 1 ELSE 0
             f == sum.fl
             x == Signed(a) + Signed(b) + cin
  <2>1. /\ k.op = "sum" /\ k.scale = s * WordRange /\ ~k.whole
        /\ k.left = left + s * a /\ k.right = right + s * b
        /\ k.result = result + s * sum.res
    BY <1>2 DEF Extended
  <2>2. /\ sum.res = r
        /\ f.c <=> a + b + cin >= WordRange
        /\ f.v <=> ~SignedFits(x)
        /\ f.s <=> r >= HalfRange
    BY DEF AdcsFlags, Result, ZS, Negative
  <2>3. flags.c \in BOOLEAN
    BY FlagTypes
  <2>4. cin \in {0, 1} /\ cout \in {0, 1}
    BY <2>3
  <2>5. r \in Words
    BY <2>4, WordRangeType, TruncType DEF Words
  <2>6. r + cout * WordRange = a + b + cin
    <3>1. r + (IF a + b + cin >= WordRange THEN WordRange ELSE 0) = a + b + cin
      BY <2>4, SumOfWords
    <3> QED BY <3>1, WordRangeType
  <2>7. /\ s \in Nat \ {0}
        /\ left \in 0 .. s - 1 /\ right \in 0 .. s - 1 /\ result \in 0 .. s - 1
    BY <1>2 DEF Bounded
  <2>8. result + cin * s = left + right
    <3>1. result + (IF flags.c THEN s ELSE 0) = left + right
      BY <1>2 DEF Computed
    <3> QED BY <2>3, <2>7, <3>1
  <2>9. f.c <=> cout = 1
    BY <2>2
  <2>10. /\ Signed(a) \in Int /\ Signed(b) \in Int /\ a \in Int /\ b \in Int
         /\ r \in Int /\ WordRange \in Int
    BY <2>5, WordRangeType DEF Signed, Words
  <2>11. x \in Int
    BY <2>4, <2>10
  <2> HIDE DEF s, left, right, result, cin, r, cout, f, k, sum
  <2>12. Bounded(k, f)
    <3>1. /\ s * WordRange \in Nat \ {0}
          /\ \E h \in Nat : s * WordRange = 2 * h
          /\ left + s * a \in 0 .. s * WordRange - 1
          /\ right + s * b \in 0 .. s * WordRange - 1
          /\ result + s * r \in 0 .. s * WordRange - 1
      BY <2>5, <2>7, GrownBounds
    <3> QED BY <2>1, <2>2, <3>1 DEF Bounded
  <2>13. (result + s * r) + cout * (s * WordRange) = (left + s * a) + (right + s * b)
    <3>1. s \in Int /\ left \in Int /\ right \in Int /\ result \in Int
      BY <2>7
    <3>2. s * (r + cout * WordRange) = s * r + cout * (s * WordRange)
      BY <3>1, <2>4, <2>10
    <3>3. s * (a + b + cin) = s * a + s * b + cin * s
      BY <3>1, <2>4, <2>10
    <3>4. s * r + cout * (s * WordRange) = s * a + s * b + cin * s
      BY <2>6, <3>2, <3>3
    <3>5. /\ s * r \in Int /\ cout * (s * WordRange) \in Int /\ s * a \in Int
          /\ s * b \in Int /\ cin * s \in Int
      BY <3>1, <2>4, <2>10
    <3> QED BY <3>1, <3>4, <3>5, <2>8
  <2>14. k.result + (IF f.c THEN k.scale ELSE 0) = k.left + k.right
    <3>1. s * WordRange \in Int
      BY <2>7, <2>10
    <3>2. cout * (s * WordRange) = IF f.c THEN s * WordRange ELSE 0
      BY <2>4, <2>9, <3>1
    <3> QED BY <2>1, <2>2, <2>13, <3>2
  <2>15. SignedBelow(k.left, k.scale) + SignedBelow(k.right, k.scale) = result + s * x
    <3>1. /\ SignedBelow(left + s * a, s * WordRange) = left + s * Signed(a)
          /\ SignedBelow(right + s * b, s * WordRange) = right + s * Signed(b)
      BY <2>7, SignedAbove
    <3>2. s * x = s * Signed(a) + s * Signed(b) + cin * s
      BY <2>4, <2>7, <2>10
    <3>3. s * Signed(a) \in Int /\ s * Signed(b) \in Int /\ cin * s \in Int
      BY <2>4, <2>7, <2>10
    <3> HIDE DEF x
    <3> QED BY <2>1, <2>7, <2>8, <3>1, <3>2, <3>3
  <2> HIDE DEF x
  <2>16. FitsBelow(result + s * x, s * WordRange) <=> SignedFits(x)
    BY <2>7, <2>11, FitsAbove DEF FitsBelow
  <2>17. f.s <=> 2 * k.result >= k.scale
    BY <2>1, <2>2, <2>5, <2>7, GrownBounds
  <2>18. Computed(k, f)
    BY <2>1, <2>2, <2>14, <2>15, <2>16, <2>17 DEF Computed
  <2> QED BY <2>12, <2>18 DEF f, k, sum
<1> QED BY <1>1, <1>2

LEMMA SbcsChain ==
  ASSUME chain \in ChainSet, flags \in FlagSet,
         Bounded(chain, flags), Computed(chain, flags),
         NEW a \in Words, NEW b \in Words
  PROVE  LET difference == SbcsFlags(a, b, flags.c)
         IN  /\ Bounded(Extended("difference", a, b, difference.res), difference.fl)
             /\ Computed(Extended("difference", a, b, difference.res), difference.fl)
<1> DEFINE difference == SbcsFlags(a, b, flags.c)
           k == Extended("difference", a, b, difference.res)
<1>1. CASE chain.op # "difference" \/ chain.scale * WordRange > MaxScale
  <2>1. k = NoChain
    BY <1>1 DEF Extended
  <2> HIDE DEF difference, k
  <2>2. Bounded(k, difference.fl) /\ Computed(k, difference.fl)
    BY <2>1 DEF Bounded, Computed, NoChain
  <2> QED BY <2>2 DEF k, difference
<1>2. CASE ~(chain.op # "difference" \/ chain.scale * WordRange > MaxScale)
  <2> DEFINE s == chain.scale
             left == chain.left
             right == chain.right
             result == chain.result
             bin == IF flags.c THEN 0 ELSE 1
             r == Trunc(a - b - bin)
             bout == IF a - b - bin >= 0 THEN 0 ELSE 1
             f == difference.fl
             x == Signed(a) - Signed(b) - bin
  <2>1. /\ k.op = "difference" /\ k.scale = s * WordRange /\ ~k.whole
        /\ k.left = left + s * a /\ k.right = right + s * b
        /\ k.result = result + s * difference.res
    BY <1>2 DEF Extended
  <2>2. /\ difference.res = r
        /\ f.c <=> a - b - bin >= 0
        /\ f.v <=> ~SignedFits(x)
        /\ f.s <=> r >= HalfRange
    BY DEF SbcsFlags, Result, ZS, Negative
  <2>3. flags.c \in BOOLEAN
    BY FlagTypes
  <2>4. bin \in {0, 1} /\ bout \in {0, 1}
    BY <2>3
  <2>5. r \in Words
    BY <2>4, WordRangeType, TruncType DEF Words
  <2>6. r - bout * WordRange = a - b - bin
    <3>1. r - (IF a - b - bin >= 0 THEN 0 ELSE WordRange) = a - b - bin
      BY <2>4, DifferenceOfWords
    <3> QED BY <3>1, WordRangeType
  <2>7. /\ s \in Nat \ {0}
        /\ left \in 0 .. s - 1 /\ right \in 0 .. s - 1 /\ result \in 0 .. s - 1
    BY <1>2 DEF Bounded
  <2>8. result - bin * s = left - right
    <3>1. result - (IF flags.c THEN 0 ELSE s) = left - right
      BY <1>2 DEF Computed
    <3> QED BY <2>3, <2>7, <3>1
  <2>9. ~f.c <=> bout = 1
    BY <2>2
  <2>10. /\ Signed(a) \in Int /\ Signed(b) \in Int /\ a \in Int /\ b \in Int
         /\ r \in Int /\ WordRange \in Int
    BY <2>5, WordRangeType DEF Signed, Words
  <2>11. x \in Int
    BY <2>4, <2>10
  <2> HIDE DEF s, left, right, result, bin, r, bout, f, k, difference
  <2>12. Bounded(k, f)
    <3>1. /\ s * WordRange \in Nat \ {0}
          /\ \E h \in Nat : s * WordRange = 2 * h
          /\ left + s * a \in 0 .. s * WordRange - 1
          /\ right + s * b \in 0 .. s * WordRange - 1
          /\ result + s * r \in 0 .. s * WordRange - 1
      BY <2>5, <2>7, GrownBounds
    <3> QED BY <2>1, <2>2, <3>1 DEF Bounded
  <2>13. (result + s * r) - bout * (s * WordRange) = (left + s * a) - (right + s * b)
    <3>1. s \in Int /\ left \in Int /\ right \in Int /\ result \in Int
      BY <2>7
    <3>2. s * (r - bout * WordRange) = s * r - bout * (s * WordRange)
      BY <3>1, <2>4, <2>10
    <3>3. s * (a - b - bin) = s * a - s * b - bin * s
      BY <3>1, <2>4, <2>10
    <3>4. s * r - bout * (s * WordRange) = s * a - s * b - bin * s
      BY <2>6, <3>2, <3>3
    <3>5. /\ s * r \in Int /\ bout * (s * WordRange) \in Int /\ s * a \in Int
          /\ s * b \in Int /\ bin * s \in Int
      BY <3>1, <2>4, <2>10
    <3>6. result = left - right + bin * s
      BY <2>8, <3>1, <3>5
    <3>7. s * r - bout * (s * WordRange) = s * a - s * b - bin * s
      BY <3>4
    <3> DEFINE sr == s * r
               ow == bout * (s * WordRange)
               sa == s * a
               sb == s * b
               is == bin * s
    <3> HIDE DEF sr, ow, sa, sb, is
    <3>8. /\ sr \in Int /\ ow \in Int /\ sa \in Int /\ sb \in Int /\ is \in Int
          /\ result = left - right + is
          /\ sr - ow = sa - sb - is
      BY <3>5, <3>6, <3>7 DEF sr, ow, sa, sb, is
    <3>9. (result + sr) - ow = (left + sa) - (right + sb)
      BY <3>1, <3>8
    <3> QED BY <3>9 DEF sr, ow, sa, sb
  <2>14. k.result - (IF f.c THEN 0 ELSE k.scale) = k.left - k.right
    <3>1. s * WordRange \in Int
      BY <2>7, <2>10
    <3>2. bout * (s * WordRange) = IF f.c THEN 0 ELSE s * WordRange
      BY <2>4, <2>9, <3>1
    <3> QED BY <2>1, <2>2, <2>13, <3>2
  <2>15. SignedBelow(k.left, k.scale) - SignedBelow(k.right, k.scale) = result + s * x
    <3>1. /\ SignedBelow(left + s * a, s * WordRange) = left + s * Signed(a)
          /\ SignedBelow(right + s * b, s * WordRange) = right + s * Signed(b)
      BY <2>7, SignedAbove
    <3>2. s * x = s * Signed(a) - s * Signed(b) - bin * s
      BY <2>4, <2>7, <2>10
    <3>3. s * Signed(a) \in Int /\ s * Signed(b) \in Int /\ bin * s \in Int
      BY <2>4, <2>7, <2>10
    <3> HIDE DEF x
    <3> QED BY <2>1, <2>7, <2>8, <3>1, <3>2, <3>3
  <2> HIDE DEF x
  <2>16. FitsBelow(result + s * x, s * WordRange) <=> SignedFits(x)
    BY <2>7, <2>11, FitsAbove DEF FitsBelow
  <2>17. f.s <=> 2 * k.result >= k.scale
    BY <2>1, <2>2, <2>5, <2>7, GrownBounds
  <2>18. Computed(k, f)
    BY <2>1, <2>2, <2>14, <2>15, <2>16, <2>17 DEF Computed
  <2> QED BY <2>12, <2>18 DEF f, k, difference
<1> QED BY <1>1, <1>2

\* SUBI makes Z speak of its own result.
LEMMA ForgottenChain ==
  ASSUME chain \in ChainSet, flags \in FlagSet,
         Bounded(chain, flags), Computed(chain, flags), NEW z \in BOOLEAN
  PROVE  /\ Bounded([chain EXCEPT !.whole = FALSE], [flags EXCEPT !.z = z])
         /\ Computed([chain EXCEPT !.whole = FALSE], [flags EXCEPT !.z = z])
<1> DEFINE k == [chain EXCEPT !.whole = FALSE]
           f == [flags EXCEPT !.z = z]
<1>1. /\ k.op = chain.op /\ k.scale = chain.scale /\ k.left = chain.left
      /\ k.right = chain.right /\ k.result = chain.result /\ ~k.whole
  BY DEF ChainSet
<1>2. f.c = flags.c /\ f.v = flags.v /\ f.s = flags.s
  BY DEF FlagSet
<1> HIDE DEF k, f
<1>3. Bounded(k, f)
  BY <1>1 DEF Bounded
<1>4. Computed(k, f)
  BY <1>1, <1>2 DEF Computed
<1> QED BY <1>3, <1>4 DEF k, f

LEMMA InitChain ==
  ASSUME Init
  PROVE  ChainInv
BY InitType DEF Init, ChainInv, Bounded, Computed, NoChain

\* Each instruction in turn: those that begin a chain, that extend it, that end
\* it, and those that leave it.
LEMMA NextChain ==
  ASSUME ChainInv, [Next]_vars
  PROVE  ChainInv'
<1>1. TypeOK /\ chain \in ChainSet /\ flags \in FlagSet
      /\ Bounded(chain, flags) /\ Computed(chain, flags)
  BY DEF ChainInv, TypeOK
<1>2. TypeOK'
  BY <1>1, NextType
<1> SUFFICES Bounded(chain', flags') /\ Computed(chain', flags')
  BY <1>2 DEF ChainInv
<1>3. ASSUME NEW a \in Words, NEW b \in Words, NEW res \in Registers, Adds(a, b, res)
      PROVE  Bounded(chain', flags') /\ Computed(chain', flags')
  BY <1>3, AddsChain DEF Adds
<1>4. ASSUME NEW a \in Words, NEW b \in Words, NEW res \in Registers, Subs(a, b, res)
      PROVE  Bounded(chain', flags') /\ Computed(chain', flags')
  BY <1>4, SubsChain DEF Subs
<1>5. ASSUME NEW r1 \in Registers, NEW r2 \in Registers, NEW res \in Registers,
             Adcs(r1, r2, res)
      PROVE  Bounded(chain', flags') /\ Computed(chain', flags')
  BY <1>1, <1>5, AdcsChain, RegisterTypes DEF Adcs
<1>6. ASSUME NEW r1 \in Registers, NEW r2 \in Registers, NEW res \in Registers,
             Sbcs(r1, r2, res)
      PROVE  Bounded(chain', flags') /\ Computed(chain', flags')
  BY <1>1, <1>6, SbcsChain, RegisterTypes DEF Sbcs
<1>7. ASSUME NEW r1 \in Registers, NEW r2 \in Registers, NEW res \in Registers,
             Ands(r1, r2, res)
      PROVE  Bounded(chain', flags') /\ Computed(chain', flags')
  <2>1. chain' = NoChain
    BY <1>7 DEF Ands
  <2> QED BY <2>1 DEF Bounded, Computed, NoChain
<1>8. ASSUME NEW r1 \in Registers, NEW res \in Registers, NEW imm \in Immediates,
             Subi(r1, res, imm)
      PROVE  Bounded(chain', flags') /\ Computed(chain', flags')
  <2> DEFINE z == Trunc(regs[r1] - imm) = 0
  <2>1. chain' = [chain EXCEPT !.whole = FALSE] /\ flags' = [flags EXCEPT !.z = z]
    BY <1>8 DEF Subi
  <2>2. z \in BOOLEAN
    OBVIOUS
  <2> HIDE DEF z
  <2> QED BY <1>1, <2>1, <2>2, ForgottenChain
<1>9. CASE UNCHANGED <<flags, chain>>
  BY <1>1, <1>9
<1>10. Immediates \subseteq Words
  BY MachineAssumption
<1> QED
  <2>1. CASE \E r1, r2, res \in Registers :
               \/ \E m \in PlainNames : PlainRrr(m, r1, r2, res)
               \/ Adds(regs[r1], regs[r2], res)
               \/ Subs(regs[r1], regs[r2], res)
               \/ Adcs(r1, r2, res)
               \/ Sbcs(r1, r2, res)
               \/ Ands(r1, r2, res)
    <3>1. PICK r1, r2, res \in Registers :
            \/ \E m \in PlainNames : PlainRrr(m, r1, r2, res)
            \/ Adds(regs[r1], regs[r2], res)
            \/ Subs(regs[r1], regs[r2], res)
            \/ Adcs(r1, r2, res)
            \/ Sbcs(r1, r2, res)
            \/ Ands(r1, r2, res)
      BY <2>1
    <3>2. CASE \E m \in PlainNames : PlainRrr(m, r1, r2, res)
      BY <3>2, <1>9 DEF PlainRrr
    <3> QED BY <3>1, <3>2, <1>1, <1>3, <1>4, <1>5, <1>6, <1>7, RegisterTypes
  <2>2. CASE \E r1, r2, r3, res \in Registers :
               \/ \E m \in {"MUL", "UMULL", "SMULL"} : Multiply(m, r1, r2, res, r3)
               \/ Mla(r1, r2, r3, res)
    BY <2>2, <1>9 DEF Multiply, Mla
  <2>3. CASE \E r1, res \in Registers, imm \in Immediates :
               \/ Addi(r1, res, imm)
               \/ Subi(r1, res, imm)
               \/ Adds(regs[r1], imm, res)
               \/ Subs(regs[r1], imm, res)
    <3>1. PICK r1 \in Registers, res \in Registers, imm \in Immediates :
               \/ Addi(r1, res, imm)
               \/ Subi(r1, res, imm)
               \/ Adds(regs[r1], imm, res)
               \/ Subs(regs[r1], imm, res)
      BY <2>3
    <3>2. CASE Addi(r1, res, imm)
      BY <3>2, <1>9 DEF Addi
    <3> QED BY <3>1, <3>2, <1>1, <1>3, <1>4, <1>8, <1>10, RegisterTypes
  <2>4. CASE UNCHANGED vars
    BY <2>4, <1>9 DEF vars
  <2> QED BY <2>1, <2>2, <2>3, <2>4 DEF Next

LEMMA ChainInvHolds == Spec => []ChainInv
<1>1. Init => ChainInv
  BY InitChain
<1>2. ChainInv /\ [Next]_vars => ChainInv'
  BY NextChain
<1> QED BY <1>1, <1>2, PTL DEF Spec

\* However many words ADDS, ADCS, SUBS and SBCS have chained, their results with
\* the carry are the wide sum or difference, V and S those of the wide signed
\* operation (execute.py, _adds to _sbcs).
THEOREM ChainsComputeAlways == Spec => []ChainsCompute
<1>1. ChainInv => ChainsCompute
  BY ComputedIsChainsCompute DEF ChainInv, TypeOK
<1> QED BY <1>1, ChainInvHolds, PTL

\* After a comparison of any number of words the branches decide the order of
\* the wide operands (execute.py, the conditions of BJ).
THEOREM ConditionsDecideAlways == Spec => []ConditionsDecide
<1>1. ASSUME ChainInv
      PROVE  ConditionsDecide
  <2> DEFINE s == chain.scale
             l == chain.left
             r == chain.right
             d == chain.result
             sl == WideSigned(l)
             sr == WideSigned(r)
  <2>1. /\ flags.z \in BOOLEAN /\ flags.c \in BOOLEAN /\ flags.v \in BOOLEAN
        /\ flags.s \in BOOLEAN
    BY <1>1, FlagTypes DEF ChainInv, TypeOK
  <2> SUFFICES ASSUME chain.op = "difference"
               PROVE  ConditionsDecide
    BY DEF ConditionsDecide
  <2>2. /\ s \in Nat \ {0} /\ l \in 0 .. s - 1 /\ r \in 0 .. s - 1 /\ d \in 0 .. s - 1
        /\ chain.whole => (flags.z <=> d = 0)
    BY <1>1 DEF ChainInv, Bounded
  <2>3. PICK h \in Nat : s = 2 * h
    BY <1>1 DEF ChainInv, Bounded
  <2>4. /\ d - (IF flags.c THEN 0 ELSE s) = l - r
        /\ flags.v <=> ~(-s <= 2 * (sl - sr) /\ 2 * (sl - sr) < s)
        /\ flags.s <=> 2 * d >= s
    BY <1>1 DEF ChainInv, Computed, SignedBelow, FitsBelow, WideSigned
  <2>5. sl = (IF 2 * l >= s THEN l - s ELSE l) /\ sr = (IF 2 * r >= s THEN r - s ELSE r)
    BY DEF WideSigned
  <2> DEFINE taken == Taken(flags)
  <2>6. /\ taken["BCS"] = flags.c /\ taken["BCC"] = ~flags.c
        /\ taken["BGE"] = ~(flags.s # flags.v) /\ taken["BLT"] = (flags.s # flags.v)
        /\ taken["BEQ"] = flags.z /\ taken["BNE"] = ~flags.z
        /\ taken["BHI"] = (flags.c /\ ~flags.z) /\ taken["BLS"] = (~flags.c \/ flags.z)
        /\ taken["BGT"] = (~flags.z /\ ~(flags.s # flags.v))
        /\ taken["BLE"] = (flags.z \/ (flags.s # flags.v))
    BY DEF Taken
  <2> HIDE DEF s, l, r, d, sl, sr, taken
  <2>7. (flags.c <=> l >= r) /\ (d = 0 <=> l = r)
    BY <2>1, <2>2, <2>4
  <2>8. sl = sr <=> l = r
    BY <2>2, <2>5
  <2>9. (flags.s # flags.v) <=> sl < sr
    <3>1. d = IF flags.c THEN l - r ELSE l - r + s
      BY <2>1, <2>2, <2>4
    <3> QED BY <2>1, <2>2, <2>3, <2>4, <2>5, <2>7, <3>1
  <2>10. sl \in Int /\ sr \in Int
    BY <2>2, <2>5
  <2>11. /\ taken["BCS"] = (l >= r) /\ taken["BCC"] = (l < r)
         /\ taken["BGE"] = (sl >= sr) /\ taken["BLT"] = (sl < sr)
    BY <2>1, <2>2, <2>6, <2>7, <2>9, <2>10
  <2>12. ASSUME chain.whole
         PROVE  /\ taken["BEQ"] = (l = r) /\ taken["BNE"] = (l # r)
                /\ taken["BHI"] = (l > r) /\ taken["BLS"] = (l <= r)
                /\ taken["BGT"] = (sl > sr) /\ taken["BLE"] = (sl <= sr)
    <3>1. flags.z <=> l = r
      BY <2>2, <2>7, <2>12
    <3> QED BY <2>1, <2>2, <2>6, <2>7, <2>8, <2>9, <2>10, <3>1
  <2> QED BY <2>11, <2>12 DEF ConditionsDecide, l, r, sl, sr, taken
<1>2. ChainInv => ConditionsDecide
  BY <1>1
<1> QED BY <1>2, ChainInvHolds, PTL

-----------------------------------------------------------------------------
(* The calculator: quotients, powers and places. *)

\* How to find a quotient.
LEMMA Quotient ==
  ASSUME NEW n \in Nat, NEW d \in Nat \ {0}, NEW q \in Nat, NEW m \in 0 .. d - 1,
         n = q * d + m
  PROVE  n \div d = q /\ n % d = m
<1>1. n \div d = q
  OBVIOUS
<1>2. n % d = m
  OBVIOUS
<1> QED BY <1>1, <1>2

\* The law of division.
LEMMA Division ==
  ASSUME NEW n \in Nat, NEW d \in Nat \ {0}
  PROVE  /\ n \div d \in Nat /\ n % d \in 0 .. d - 1
         /\ n = (n \div d) * d + (n % d)
OBVIOUS

\* The powers of the base.
LEMMA Power ==
  /\ Base \in Nat /\ Base > 1 /\ TopExp \in Nat /\ TopExp > 0
  /\ \A k \in 0 .. TopExp + 1 : Base ^ k \in Nat /\ Base ^ k > 0
  /\ \A k \in 0 .. TopExp : Base ^ (k + 1) = Base * Base ^ k /\ Base ^ k <= HalfRange
  /\ Base ^ 0 = 1 /\ Base ^ 1 = Base /\ Base <= HalfRange
<1>1. /\ Base \in Nat /\ Base > 1 /\ TopExp \in Nat /\ TopExp > 0
      /\ \A k \in 0 .. TopExp + 1 : Base ^ k \in Nat /\ Base ^ k > 0
      /\ \A k \in 0 .. TopExp : Base ^ (k + 1) = Base * Base ^ k
      /\ Base ^ 0 = 1
  BY PowerAssumption
<1>2. Base ^ 1 = Base
  <2>1. Base ^ (0 + 1) = Base * Base ^ 0
    BY <1>1
  <2> QED BY <1>1, <2>1
<1>3. \A k \in 0 .. TopExp : Base ^ k <= HalfRange
  BY <1>1, WordRangeType, PowerAssumption
<1> QED BY <1>1, <1>2, <1>3

\* A larger exponent gives a larger power.
LEMMA Monotone ==
  ASSUME NEW j \in 0 .. TopExp + 1, NEW k \in 0 .. TopExp + 1, j <= k
  PROVE  Base ^ j <= Base ^ k
BY PowerAssumption

\* The number of digits is the one that Places asks for.
LEMMA PlacesAt ==
  ASSUME NEW n \in Nat, NEW k \in 1 .. TopExp + 1,
         n < Base ^ k, k = 1 \/ Base ^ (k - 1) <= n
  PROVE  Places(n) = k
<1> DEFINE P(x) == n < Base ^ x /\ (x = 1 \/ Base ^ (x - 1) <= n)
           c == CHOOSE x \in 1 .. TopExp + 1 : P(x)
<1>1. c \in 1 .. TopExp + 1 /\ P(c)
  <2>1. \E x \in 1 .. TopExp + 1 : P(x)
    OBVIOUS
  <2> HIDE DEF P
  <2> QED BY <2>1 DEF c
<1>2. Places(n) = c
  BY DEF Places
<1> HIDE DEF c
<1>3. TopExp \in Nat /\ Base ^ c \in Nat /\ Base ^ k \in Nat
      /\ Base ^ (c - 1) \in Nat /\ Base ^ (k - 1) \in Nat
  BY <1>1, Power
<1>4. ~(c < k)
  <2> SUFFICES ASSUME c < k PROVE FALSE
    OBVIOUS
  <2>1. Base ^ c <= Base ^ (k - 1)
    BY <1>1, <1>3, Monotone
  <2> QED BY <1>1, <1>3, <2>1
<1>5. ~(k < c)
  <2> SUFFICES ASSUME k < c PROVE FALSE
    OBVIOUS
  <2>1. Base ^ k <= Base ^ (c - 1)
    BY <1>1, <1>3, Monotone
  <2> QED BY <1>1, <1>3, <2>1
<1> QED BY <1>1, <1>2, <1>4, <1>5

\* The digits.
LEMMA DigitType ==
  ASSUME NEW n \in 0 .. Base - 1
  PROVE  Digit(n) \in DOMAIN DigitOf /\ Printed(n) = Digit(n)
<1>1. \E d \in DOMAIN DigitOf : DigitOf[d] = n
  BY TypedAssumption
<1>2. Digit(n) \in DOMAIN DigitOf
  BY <1>1 DEF Digit
<1>3. n < Base
  BY Power
<1> QED BY <1>2, <1>3 DEF Printed

-----------------------------------------------------------------------------
(* What the reference has read, and how far the program is in step with it. *)

Forms == {"left", "right", "h1", "h2", "h3", "h4", "bad", "lost"}

Lines == [form : Forms, left : Nat, digits : BOOLEAN, op : Operators \union {"none"},
          right : Nat]

\* A line that is no expression has no numbers, and one that is has those it shows.
LineOK(l) ==
  /\ l \in Lines
  /\ l.form = "left" => l.op = "none" /\ l.right = 0 /\ (~l.digits => l.left = 0)
  /\ l.form = "right" => l.op \in Operators /\ (~l.digits => l.right = 0)
  /\ l.form \notin {"left", "right"} => l = [NewLine EXCEPT !.form = l.form]

Fits(l) == l.left < WordRange /\ l.right < WordRange

\* The truth values as the provers take them, for the fields of a record.
Yes == TRUE
No == FALSE

\* Registers of an expression that is read, and when the one of l has been read.
Noted(a, seenA, op, b, seenB) ==
  [a |-> a, op |-> op, b |-> b, seenA |-> seenA, seenB |-> seenB,
   rest |-> 0, place |-> 0, digit |-> 0, printed |-> No]
Heard(l) ==
  Noted(l.left, Yes, l.op, l.right, IF l.form = "right" /\ l.digits THEN Yes ELSE No)

\* The program reads what the reference reads: exactly, as long as the numbers are
\* words, and otherwise it may only be somewhere in the two blocks that read them.
InStep ==
  /\ at \notin Reading \union {"bad"} => line = NewLine
  /\ line = NewLine /\ at \in Reading => at = "read_a" /\ calc = Cleared
  /\ at = "read_a" => ~calc.seenB
  /\ line.form = "left" /\ line.digits =>
       /\ at \in {"read_a", "bad"}
       /\ Fits(line) => at = "read_a" /\ calc = Heard(line)
  /\ line.form = "right" =>
       /\ at \in {"read_a", "read_b", "bad"}
       /\ ~line.digits /\ at = "read_b" => ~calc.seenB
       /\ Fits(line) => at = "read_b" /\ calc = Heard(line)
  /\ line.form = "h1" => at = "halt_1"
  /\ line.form = "h2" => at = "halt_2"
  /\ line.form = "h3" => at = "halt_3"
  /\ line.form = "h4" => at = "halt_4"

ReadInv == CalcTypeOK /\ LineOK(line) /\ InStep

CalcRegisters == [a : Words, op : Operators \union {"none"}, b : Words, seenA : BOOLEAN,
            seenB : BOOLEAN, rest : Words, place : 0 .. TopExp, digit : Words,
            printed : BOOLEAN]

\* The kinds of characters.
LEMMA Kinds ==
  /\ "nl" \notin DOMAIN DigitOf /\ "H" \notin DOMAIN DigitOf /\ "A" \notin DOMAIN DigitOf
  /\ "L" \notin DOMAIN DigitOf /\ "T" \notin DOMAIN DigitOf /\ "x" \notin DOMAIN DigitOf
  /\ \A ch \in Operators : ch \notin DOMAIN DigitOf /\ ch # "nl" /\ ch # "H"
  /\ \A ch \in DOMAIN DigitOf : /\ ch \notin Operators /\ ch # "nl" /\ ch # "H"
                                /\ DigitOf[ch] \in Nat /\ DigitOf[ch] < Base
  /\ MaxTyped \in Nat /\ MaxTyped > 0
<1>1. /\ DOMAIN DigitOf \intersect (Operators \union {"nl", "H", "A", "L", "T", "x"}) = {}
      /\ MaxTyped \in Nat /\ MaxTyped > 0
  BY TypedAssumption
<1>2. \A ch \in DOMAIN DigitOf : DigitOf[ch] \in Nat /\ DigitOf[ch] < Base
  BY TypedAssumption, Power
<1>3. \A ch \in Operators : ch # "nl" /\ ch # "H"
  BY DEF Operators
<1> QED BY <1>1, <1>2, <1>3

\* Zero is a word and a place.
LEMMA Zeros == 0 \in Words /\ 0 \in 0 .. TopExp
BY WordRangeType, Power DEF Words

\* The cleared registers.
LEMMA ClearedFields ==
  /\ Cleared \in CalcRegisters
  /\ Cleared.a = 0 /\ Cleared.op = "none" /\ Cleared.b = 0 /\ ~Cleared.seenA
  /\ ~Cleared.seenB
BY Zeros DEF Cleared, CalcRegisters

\* The line of which nothing has been read.
LEMMA NewLineFields ==
  /\ LineOK(NewLine)
  /\ NewLine.form = "left" /\ NewLine.left = 0 /\ NewLine.right = 0 /\ ~NewLine.digits
  /\ NewLine.op = "none"
BY DEF LineOK, Lines, NewLine, Forms, Operators

\* A new line is the only one that shows nothing.
LEMMA OnlyNewLine ==
  ASSUME NEW l, LineOK(l), l.form = "left", ~l.digits
  PROVE  l = NewLine
<1>1. l.left = 0 /\ l.right = 0 /\ l.op = "none" /\ l.digits = FALSE
  BY DEF LineOK, Lines
<1>2. l = [form |-> l.form, left |-> l.left, digits |-> l.digits, op |-> l.op,
           right |-> l.right]
  BY DEF LineOK, Lines
<1> QED BY <1>1, <1>2 DEF NewLine

\* The line with one more character: which of the cases, and what becomes of it.
LEMMA TypedDigitLeft ==
  ASSUME NEW l, LineOK(l), NEW ch \in DOMAIN DigitOf, l.form = "left"
  PROVE  LET n == Typed(l, ch)
         IN  /\ LineOK(n) /\ n.form = "left" /\ n.digits /\ n.op = "none" /\ n.right = 0
             /\ n.left = l.left * Base + DigitOf[ch]
<1> DEFINE n == [l EXCEPT !.left = l.left * Base + DigitOf[ch], !.digits = TRUE]
<1>1. Typed(l, ch) = n
  BY DEF Typed
<1>2. l \in Lines /\ l.op = "none" /\ l.right = 0
  BY DEF LineOK
<1>3. l.left * Base + DigitOf[ch] \in Nat
  BY <1>2, Kinds, Power DEF Lines
<1>4. /\ n \in Lines /\ n.form = "left" /\ n.digits /\ n.op = "none" /\ n.right = 0
      /\ n.left = l.left * Base + DigitOf[ch]
  <2> DEFINE x == l.left * Base + DigitOf[ch]
  <2> HIDE DEF x
  <2> QED BY <1>2, <1>3 DEF Lines, x
<1> HIDE DEF n
<1> QED BY <1>1, <1>4 DEF LineOK

\* A digit of the second number.
LEMMA TypedDigitRight ==
  ASSUME NEW l, LineOK(l), NEW ch \in DOMAIN DigitOf, l.form = "right"
  PROVE  LET n == Typed(l, ch)
         IN  /\ LineOK(n) /\ n.form = "right" /\ n.digits /\ n.op = l.op
             /\ n.left = l.left /\ n.right = l.right * Base + DigitOf[ch]
<1> DEFINE n == [l EXCEPT !.right = l.right * Base + DigitOf[ch], !.digits = TRUE]
<1>1. Typed(l, ch) = n
  BY DEF Typed
<1>2. l \in Lines /\ l.op \in Operators
  BY DEF LineOK
<1>3. l.right * Base + DigitOf[ch] \in Nat
  BY <1>2, Kinds, Power DEF Lines
<1>4. /\ n \in Lines /\ n.form = "right" /\ n.digits /\ n.op = l.op /\ n.left = l.left
      /\ n.right = l.right * Base + DigitOf[ch]
  <2> DEFINE x == l.right * Base + DigitOf[ch]
  <2> HIDE DEF x
  <2> QED BY <1>2, <1>3 DEF Lines, x
<1> HIDE DEF n
<1> QED BY <1>1, <1>2, <1>4 DEF LineOK

\* An operator after the first number.
LEMMA TypedOperator ==
  ASSUME NEW l, LineOK(l), NEW ch \in Operators, l.form = "left", l.digits
  PROVE  LET n == Typed(l, ch)
         IN  /\ LineOK(n) /\ n.form = "right" /\ ~n.digits /\ n.op = ch
             /\ n.left = l.left /\ n.right = 0
<1> DEFINE n == [l EXCEPT !.form = "right", !.op = ch, !.digits = FALSE]
<1>1. Typed(l, ch) = n
  BY Kinds DEF Typed
<1>2. l \in Lines /\ l.right = 0
  BY DEF LineOK
<1>3. /\ n \in Lines /\ n.form = "right" /\ ~n.digits /\ n.op = ch /\ n.left = l.left
      /\ n.right = 0
  BY <1>2 DEF Lines, Forms
<1> HIDE DEF n
<1> QED BY <1>1, <1>3 DEF LineOK

\* Lines that are no expression.
LEMMA FormOf ==
  ASSUME NEW f \in Forms \ {"left", "right"}
  PROVE  LET n == [NewLine EXCEPT !.form = f]
         IN  LineOK(n) /\ n.form = f /\ n.left = 0 /\ n.right = 0
BY DEF LineOK, Lines, NewLine, Forms, Operators

\* Any other character.
LEMMA TypedOther ==
  ASSUME NEW l, LineOK(l), NEW ch,
         ~(ch \in DOMAIN DigitOf /\ l.form \in {"left", "right"}),
         ~(ch \in Operators /\ l.form = "left" /\ l.digits)
  PROVE  LET n == Typed(l, ch)
         IN  /\ LineOK(n) /\ n.left = 0 /\ n.right = 0
             /\ n.form =
                  IF l.form \in {"bad", "lost"} THEN "lost"
                  ELSE IF l.form \in DOMAIN HaltWord /\ ch = HaltWord[l.form] /\ ~l.digits
                  THEN NextOf[l.form] ELSE "bad"
<1> DEFINE f == IF l.form \in {"bad", "lost"} THEN "lost"
                ELSE IF l.form \in DOMAIN HaltWord /\ ch = HaltWord[l.form] /\ ~l.digits
                THEN NextOf[l.form] ELSE "bad"
<1>1. Typed(l, ch) = [NewLine EXCEPT !.form = f]
  BY DEF Typed
<1>2. \A x \in DOMAIN HaltWord : NextOf[x] \in {"h1", "h2", "h3", "h4"}
  BY DEF HaltWord, NextOf
<1>3. f \in Forms \ {"left", "right"}
  BY <1>2 DEF Forms
<1> HIDE DEF f
<1>4. LineOK(Typed(l, ch)) /\ Typed(l, ch).form = f /\ Typed(l, ch).left = 0
      /\ Typed(l, ch).right = 0
  BY <1>1, <1>3, FormOf
<1> QED BY <1>4 DEF f

-----------------------------------------------------------------------------
(* The first block that reads. *)

\* A digit more: exact as long as the number stays a word, and a word in any case.
LEMMA DigitRead ==
  ASSUME NEW n \in Words, NEW ch \in DOMAIN DigitOf
  PROVE  /\ WithDigit(n, ch) \in Words
         /\ n * Base + DigitOf[ch] < WordRange =>
              ~TooLong(n) /\ WithDigit(n, ch) = n * Base + DigitOf[ch]
<1> DEFINE p == n * Base
           low == p % WordRange
           d == DigitOf[ch]
<1>1. /\ n \in Nat /\ p \in Nat /\ d \in Nat /\ d < WordRange
      /\ WordRange \in Nat /\ WordRange > 1
  BY WordRangeType, Kinds, Power DEF Words, WordRange
<1>2. low \in Words /\ low \in Nat /\ low < WordRange
  BY <1>1, WordRangeType DEF Words
<1>3. /\ Product("MUL", n, Base)[1] = low
      /\ Product("MUL", n, Base)[2] = (p \div WordRange) % WordRange
  BY DEF Product
<1>4. WithDigit(n, ch) = Trunc(low + d)
  BY <1>3 DEF WithDigit
<1> HIDE DEF p, low, d
<1>5. Trunc(low + d) \in Words
  BY <1>1, <1>2, TruncType
<1>6. ASSUME p + d < WordRange
      PROVE  low = p /\ p \div WordRange = 0 /\ Trunc(low + d) = p + d
  <2>1. low = p /\ p \div WordRange = 0
    BY <1>1, <1>6 DEF low
  <2> QED BY <1>1, <1>6, <2>1 DEF Trunc
<1>7. ASSUME p + d < WordRange
      PROVE  ~TooLong(n)
  BY <1>1, <1>3, <1>6, <1>7 DEF TooLong
<1> QED BY <1>4, <1>5, <1>6, <1>7 DEF p, d

\* A number that is a word with one more digit was one before.
LEMMA Grows ==
  ASSUME NEW n \in Nat, NEW ch \in DOMAIN DigitOf, n * Base + DigitOf[ch] < WordRange
  PROVE  n < WordRange
<1>1. Base \in Nat /\ Base > 1 /\ DigitOf[ch] \in Nat /\ WordRange \in Nat
  BY Power, Kinds, WordRangeType
<1>2. n * Base >= n
  BY <1>1
<1> QED BY <1>1, <1>2

\* What a heard character does to the history.
LEMMA HearLine ==
  ASSUME LineOK(line), NEW ch, Hear(ch)
  PROVE  /\ ch = "nl" => line' = NewLine
         /\ ch # "nl" => line' = Typed(line, ch)
         /\ line'.left < MaxTyped /\ line'.right < MaxTyped
BY Kinds, NewLineFields DEF Hear

\* Away from the polls only a new line is in step.
LEMMA OnNewLine ==
  ASSUME line' = NewLine, at' \notin Reading
  PROVE  LineOK(line)' /\ InStep'
BY NewLineFields DEF InStep, Reading

\* A spoilt line asks for nothing.
LEMMA OnBadLine ==
  ASSUME LineOK(line'), line'.form \in {"bad", "lost"}, at' \in Reading \union {"bad"},
         at' = "read_a" => ~calc'.seenB
  PROVE  LineOK(line)' /\ InStep'
<1>1. line' # NewLine
  BY NewLineFields
<1> QED BY <1>1 DEF InStep

\* A character that is no digit, operator or letter of HALT in its place.
LEMMA OtherForm ==
  ASSUME LineOK(line), NEW ch \in Characters, line' = Typed(line, ch),
         ~(ch \in DOMAIN DigitOf /\ line.form \in {"left", "right"}),
         ~(ch \in Operators /\ line.form = "left" /\ line.digits)
  PROVE  /\ LineOK(line')
         /\ \/ line'.form \in {"bad", "lost"}
            \/ /\ line.form = "left" /\ ~line.digits /\ ch = "H" /\ line'.form = "h1"
            \/ /\ line.form = "h1" /\ ch = "A" /\ line'.form = "h2"
            \/ /\ line.form = "h2" /\ ch = "L" /\ line'.form = "h3"
            \/ /\ line.form = "h3" /\ ch = "T" /\ line'.form = "h4"
<1>1. /\ LineOK(line')
      /\ line'.form =
           IF line.form \in {"bad", "lost"} THEN "lost"
           ELSE IF line.form \in DOMAIN HaltWord /\ ch = HaltWord[line.form] /\ ~line.digits
           THEN NextOf[line.form] ELSE "bad"
  BY TypedOther
<1> QED BY <1>1 DEF HaltWord, NextOf

\* The registers of an expression, one set after the other.
NotedA(c, x) == [c EXCEPT !.a = x]
NotedB(c, x) == [c EXCEPT !.b = x]
NotedOp(c, x) == [c EXCEPT !.op = x]
NotedSeenA(c, t) == [c EXCEPT !.seenA = t]
NotedSeenB(c, t) == [c EXCEPT !.seenB = t]
LeftRead(c, x) == [c EXCEPT !.a = x, !.seenA = TRUE]
RightRead(c, x) == [c EXCEPT !.b = x, !.seenB = TRUE]

\* One register at a time.
LEMMA NotedOne ==
  ASSUME NEW a, NEW seenA, NEW op, NEW b, NEW seenB, NEW x
  PROVE  LET c == Noted(a, seenA, op, b, seenB)
         IN  /\ NotedA(c, x) = Noted(x, seenA, op, b, seenB)
             /\ NotedB(c, x) = Noted(a, seenA, op, x, seenB)
             /\ NotedOp(c, x) = Noted(a, seenA, x, b, seenB)
             /\ NotedSeenA(c, x) = Noted(a, x, op, b, seenB)
             /\ NotedSeenB(c, x) = Noted(a, seenA, op, b, x)
<1> DEFINE c == Noted(a, seenA, op, b, seenB)
<1>1. NotedA(c, x) = Noted(x, seenA, op, b, seenB)
  BY DEF Noted, NotedA
<1>2. NotedB(c, x) = Noted(a, seenA, op, x, seenB)
  BY DEF Noted, NotedB
<1>3. NotedOp(c, x) = Noted(a, seenA, x, b, seenB)
  BY DEF Noted, NotedOp
<1>4. NotedSeenA(c, x) = Noted(a, x, op, b, seenB)
  BY DEF Noted, NotedSeenA
<1>5. NotedSeenB(c, x) = Noted(a, seenA, op, b, x)
  BY DEF Noted, NotedSeenB
<1> QED BY <1>1, <1>2, <1>3, <1>4, <1>5

\* The registers of an expression are those noted.
LEMMA NotedFields ==
  ASSUME NEW a, NEW seenA, NEW op, NEW b, NEW seenB
  PROVE  LET c == Noted(a, seenA, op, b, seenB)
         IN  c.a = a /\ c.seenA = seenA /\ c.op = op /\ c.b = b /\ c.seenB = seenB
BY DEF Noted

\* A digit of the first number.
LEMMA NotedLeft ==
  ASSUME NEW a, NEW seenA, NEW op, NEW b, NEW seenB, NEW c, NEW x,
         c = Noted(a, seenA, op, b, seenB)
  PROVE  LeftRead(c, x) = Noted(x, Yes, op, b, seenB)
<1>1. NotedSeenA(NotedA(c, x), Yes) = Noted(x, Yes, op, b, seenB)
  BY NotedOne
<1>2. NotedSeenA(NotedA(c, x), Yes) = LeftRead(c, x)
  BY DEF NotedA, NotedSeenA, LeftRead, Yes
<1> QED BY <1>1, <1>2

\* A digit of the second number.
LEMMA NotedRight ==
  ASSUME NEW a, NEW seenA, NEW op, NEW b, NEW seenB, NEW c, NEW x,
         c = Noted(a, seenA, op, b, seenB)
  PROVE  RightRead(c, x) = Noted(a, seenA, op, x, Yes)
<1>1. NotedSeenB(NotedB(c, x), Yes) = Noted(a, seenA, op, x, Yes)
  BY NotedOne
<1>2. NotedSeenB(NotedB(c, x), Yes) = RightRead(c, x)
  BY DEF NotedB, NotedSeenB, RightRead, Yes
<1> QED BY <1>1, <1>2

\* Cleared registers note nothing.
LEMMA ClearedNoted == Cleared = Noted(0, No, "none", 0, No)
BY DEF Cleared, Noted, No

\* What is noted of a first number.
LEMMA HeardLeft ==
  ASSUME NEW l, l.form = "left", l.op = "none", l.right = 0
  PROVE  Heard(l) = Noted(l.left, Yes, "none", 0, No)
BY DEF Heard

\* What is noted of a second number.
LEMMA HeardRight ==
  ASSUME NEW l, l.form = "right"
  PROVE  /\ l.digits => Heard(l) = Noted(l.left, Yes, l.op, l.right, Yes)
         /\ ~l.digits => Heard(l) = Noted(l.left, Yes, l.op, l.right, No)
BY DEF Heard

\* The first number, the operator and the H of HALT.
LEMMA ReadAStep ==
  ASSUME ReadInv, NEW ch \in Characters, ReadA(ch)
  PROVE  LineOK(line)' /\ InStep'
<1>1. /\ at = "read_a" /\ Hear(ch) /\ LineOK(line) /\ InStep
      /\ calc \in CalcRegisters /\ ~calc.seenB
  BY DEF ReadInv, ReadA, CalcTypeOK, CalcRegisters, InStep
<1>2. /\ at' = "read_a" => calc' = LeftRead(calc, WithDigit(calc.a, ch))
      /\ ch \in Operators /\ calc.seenA => at' = "read_b" /\ calc' = NotedOp(calc, ch)
  BY <1>1, Kinds DEF ReadA, LeftRead, NotedOp
<1>3. /\ \/ at' = "halt_1" /\ ch = "H" /\ ~calc.seenA
         \/ at' = "read_b" /\ ch \in Operators /\ calc.seenA
         \/ at' = "read_a" /\ ch \in DOMAIN DigitOf /\ ~TooLong(calc.a)
         \/ at' = "bad"
      /\ calc'.seenB = calc.seenB
      /\ ch = "H" /\ ~calc.seenA => at' = "halt_1"
      /\ ch \in DOMAIN DigitOf /\ ~TooLong(calc.a) => at' = "read_a"
  BY <1>1, Kinds DEF ReadA, CalcRegisters
<1>4. /\ at' \in Reading \union {"bad"} /\ (at' = "read_a" => ~calc'.seenB)
      /\ at' = "read_b" => ~calc'.seenB
  BY <1>1, <1>3 DEF Reading, CalcRegisters
<1>5. CASE ch = "nl"
  <2>1. at' = "bad"
    BY <1>1, <1>3, <1>5, Kinds
  <2> QED BY <1>1, <1>5, <2>1, HearLine, OnNewLine DEF Reading
<1>6. CASE ch \in DOMAIN DigitOf /\ line.form = "left"
  <2> DEFINE n == Typed(line, ch)
  <2>1. line' = n
    BY <1>1, <1>6, HearLine, Kinds
  <2>2. /\ LineOK(n) /\ n.form = "left" /\ n.digits /\ n.op = "none" /\ n.right = 0
        /\ n.left = line.left * Base + DigitOf[ch]
    BY <1>1, <1>6, TypedDigitLeft
  <2>3. at' \in {"read_a", "bad"}
    BY <1>3, <1>6, Kinds
  <2>4. ASSUME Fits(n)
        PROVE  at' = "read_a" /\ calc' = Heard(n)
    <3>1. line.left \in Nat /\ line.left < WordRange /\ line.right = 0 /\ line.op = "none"
      BY <1>1, <1>6, <2>2, <2>4, Grows DEF Fits, LineOK, Lines
    <3>2. \E s : calc = Noted(line.left, s, "none", 0, No)
      <4>1. CASE line.digits
        <5>1. calc = Heard(line)
          BY <1>1, <1>6, <3>1, <4>1, WordRangeType DEF InStep, Fits
        <5> QED BY <1>6, <3>1, <5>1, HeardLeft
      <4>2. CASE ~line.digits
        <5>1. line = NewLine
          BY <1>1, <1>6, <4>2, OnlyNewLine
        <5>2. calc = Cleared
          BY <1>1, <5>1 DEF InStep, Reading
        <5> QED BY <5>1, <5>2, NewLineFields, ClearedNoted
      <4> QED BY <4>1, <4>2
    <3>2a. calc.a = line.left
      BY <3>2, NotedFields
    <3>3. calc.a \in Words /\ ~TooLong(calc.a) /\ WithDigit(calc.a, ch) = n.left
      <4>1. calc.a \in Words
        BY <3>1, <3>2a, WordRangeType DEF Words
      <4> QED BY <2>2, <2>4, <3>2a, <4>1, <1>6, DigitRead DEF Fits
    <3>4. at' = "read_a" /\ calc' = LeftRead(calc, n.left)
      BY <1>2, <1>3, <1>6, <3>3
    <3> HIDE DEF n
    <3>5. calc' = Noted(n.left, Yes, "none", 0, No)
      BY <3>2, <3>4, NotedLeft
    <3>6. Heard(n) = Noted(n.left, Yes, "none", 0, No)
      BY <2>2, HeardLeft
    <3> QED BY <3>4, <3>5, <3>6
  <2>5. n # NewLine
    BY <2>2, NewLineFields
  <2> HIDE DEF n
  <2> QED BY <1>4, <2>1, <2>2, <2>3, <2>4, <2>5 DEF InStep
<1>7. CASE ch \in DOMAIN DigitOf /\ line.form = "right"
  <2> DEFINE n == Typed(line, ch)
  <2>1. line' = n
    BY <1>1, <1>7, HearLine, Kinds
  <2>2. /\ LineOK(n) /\ n.form = "right" /\ n.digits
        /\ n.left = line.left /\ n.right = line.right * Base + DigitOf[ch]
    BY <1>1, <1>7, TypedDigitRight
  <2>3. at' \in {"read_a", "bad"}
    BY <1>3, <1>7, Kinds
  <2>4. ~Fits(n)
    <3>1. SUFFICES ASSUME Fits(n) PROVE FALSE
      OBVIOUS
    <3>2. Fits(line)
      BY <1>1, <1>7, <2>2, <3>1, Grows DEF Fits, LineOK, Lines
    <3> QED BY <1>1, <1>7, <3>2 DEF InStep
  <2>5. n # NewLine
    BY <2>2, NewLineFields
  <2> HIDE DEF n
  <2> QED BY <1>4, <2>1, <2>2, <2>3, <2>4, <2>5 DEF InStep
<1>8. CASE ch \in Operators /\ line.form = "left" /\ line.digits
  <2> DEFINE n == Typed(line, ch)
  <2>1. line' = n
    BY <1>1, <1>8, HearLine, Kinds
  <2>2. /\ LineOK(n) /\ n.form = "right" /\ ~n.digits /\ n.op = ch
        /\ n.left = line.left /\ n.right = 0
    BY <1>1, <1>8, TypedOperator
  <2>3. at' \in {"read_b", "bad"}
    BY <1>3, <1>8, Kinds
  <2>4. ASSUME Fits(n)
        PROVE  at' = "read_b" /\ calc' = Heard(n)
    <3>1. calc = Heard(line) /\ line.op = "none" /\ line.right = 0
      BY <1>1, <1>8, <2>2, <2>4, WordRangeType DEF InStep, Fits, LineOK
    <3>2. calc = Noted(line.left, Yes, "none", 0, No)
      BY <1>8, <3>1, HeardLeft
    <3>3. at' = "read_b" /\ calc' = NotedOp(calc, ch)
      <4>1. calc.seenA = Yes
        BY <3>2, NotedFields
      <4> QED BY <1>2, <1>8, <4>1 DEF Yes
    <3> HIDE DEF n
    <3>4. calc' = Noted(n.left, Yes, ch, 0, No)
      BY <2>2, <3>2, <3>3, NotedOne
    <3>5. Heard(n) = Noted(n.left, Yes, ch, 0, No)
      BY <2>2, HeardRight
    <3> QED BY <3>3, <3>4, <3>5
  <2>5. n # NewLine
    BY <2>2, NewLineFields
  <2> HIDE DEF n
  <2> QED BY <1>4, <2>1, <2>2, <2>3, <2>4, <2>5 DEF InStep
<1>9. CASE /\ ch # "nl" /\ ~(ch \in DOMAIN DigitOf /\ line.form \in {"left", "right"})
           /\ ~(ch \in Operators /\ line.form = "left" /\ line.digits)
  <2>1. line' = Typed(line, ch)
    BY <1>1, <1>9, HearLine
  <2>2. /\ LineOK(line')
        /\ \/ line'.form \in {"bad", "lost"}
           \/ /\ line.form = "left" /\ ~line.digits /\ ch = "H" /\ line'.form = "h1"
    <3>1. line.form \notin {"h1", "h2", "h3", "h4"}
      BY <1>1 DEF InStep
    <3> QED BY <1>1, <1>9, <2>1, <3>1, OtherForm
  <2>3. CASE line'.form \in {"bad", "lost"}
    BY <1>4, <2>2, <2>3, OnBadLine
  <2>4. CASE line.form = "left" /\ ~line.digits /\ ch = "H" /\ line'.form = "h1"
    <3>1. line = NewLine
      BY <1>1, <2>4, OnlyNewLine
    <3>2. ~calc.seenA
      BY <1>1, <3>1, ClearedFields DEF InStep, Reading
    <3>3. at' = "halt_1"
      BY <1>2, <1>3, <2>4, <3>2
    <3>4. line' # NewLine
      BY <2>4, NewLineFields
    <3> QED BY <2>2, <2>4, <3>3, <3>4 DEF InStep, Reading
  <2> QED BY <2>2, <2>3, <2>4
<1> QED BY <1>5, <1>6, <1>7, <1>8, <1>9

-----------------------------------------------------------------------------
(* The other blocks that read, and what the program does by itself. *)

\* The second number and the end of the line.
LEMMA ReadBStep ==
  ASSUME ReadInv, NEW ch \in Characters, ReadB(ch)
  PROVE  LineOK(line)' /\ InStep'
<1>1. /\ at = "read_b" /\ Hear(ch) /\ LineOK(line) /\ InStep
      /\ line.form \in Forms
  BY DEF ReadInv, ReadB, LineOK, Lines
<1>2. line.form \in {"right", "bad", "lost"}
  <2>1. ~(line.form = "left" /\ ~line.digits)
    BY <1>1, OnlyNewLine DEF InStep, Reading
  <2> QED BY <1>1, <2>1 DEF InStep, Forms
<1>3. at' = "read_b" => calc' = RightRead(calc, WithDigit(calc.b, ch))
  BY <1>1, Kinds DEF ReadB, RightRead
<1>4. /\ at' \in {"compute", "read_b", "bad"} /\ (ch # "nl" => at' # "compute")
      /\ ch = "nl" => at' = "compute"
      /\ at' = "read_b" => ch \in DOMAIN DigitOf
      /\ ch \in DOMAIN DigitOf /\ ~TooLong(calc.b) => at' = "read_b"
  BY <1>1, Kinds DEF ReadB
<1>5. CASE ch = "nl"
  BY <1>1, <1>4, <1>5, HearLine, OnNewLine DEF Reading
<1>6. CASE ch \in DOMAIN DigitOf /\ line.form = "right"
  <2> DEFINE n == Typed(line, ch)
  <2>1. line' = n
    BY <1>1, <1>6, HearLine, Kinds
  <2>2. /\ LineOK(n) /\ n.form = "right" /\ n.digits /\ n.op = line.op
        /\ n.left = line.left /\ n.right = line.right * Base + DigitOf[ch]
    BY <1>1, <1>6, TypedDigitRight
  <2>3. at' \in {"read_b", "bad"}
    BY <1>4, <1>6, Kinds
  <2>4. ASSUME Fits(n)
        PROVE  at' = "read_b" /\ calc' = Heard(n)
    <3>1. line.right \in Nat /\ line.right < WordRange /\ line.left < WordRange
      BY <1>1, <1>6, <2>2, <2>4, Grows DEF Fits, LineOK, Lines
    <3>2. \E s : calc = Noted(line.left, Yes, line.op, line.right, s)
      <4>1. calc = Heard(line)
        BY <1>1, <1>6, <3>1 DEF InStep, Fits
      <4> QED BY <1>6, <4>1, HeardRight
    <3>3. calc.b = line.right
      BY <3>2, NotedFields
    <3>4. ~TooLong(calc.b) /\ WithDigit(calc.b, ch) = n.right
      <4>1. calc.b \in Words
        BY <3>1, <3>3, WordRangeType DEF Words
      <4> QED BY <2>2, <2>4, <3>3, <4>1, <1>6, DigitRead DEF Fits
    <3>5. at' = "read_b" /\ calc' = RightRead(calc, n.right)
      BY <1>3, <1>4, <1>6, <3>4
    <3> HIDE DEF n
    <3>6. calc' = Noted(n.left, Yes, n.op, n.right, Yes)
      BY <2>2, <3>2, <3>5, NotedRight
    <3>7. Heard(n) = Noted(n.left, Yes, n.op, n.right, Yes)
      BY <2>2 DEF Heard
    <3> QED BY <3>5, <3>6, <3>7
  <2>5. n # NewLine
    BY <2>2, NewLineFields
  <2> HIDE DEF n
  <2> QED BY <2>1, <2>2, <2>3, <2>4, <2>5 DEF InStep, Reading
<1>7. CASE ch # "nl" /\ ~(ch \in DOMAIN DigitOf /\ line.form = "right")
  <2>1. line' = Typed(line, ch)
    BY <1>1, <1>7, HearLine
  <2>2. LineOK(line') /\ line'.form \in {"bad", "lost"}
    BY <1>1, <1>2, <1>7, <2>1, OtherForm
  <2>3. at' \in Reading \union {"bad"} /\ at' # "read_a"
    BY <1>4, <1>7 DEF Reading
  <2> QED BY <2>2, <2>3, OnBadLine
<1> QED BY <1>5, <1>6, <1>7

\* The rest of HALT.
LEMMA ReadHaltStep ==
  ASSUME ReadInv, NEW ch \in Characters, ReadHalt(ch)
  PROVE  LineOK(line)' /\ InStep'
<1>1. /\ at \in {"halt_1", "halt_2", "halt_3", "halt_4"} /\ Hear(ch) /\ LineOK(line)
      /\ InStep /\ line.form \in Forms
  BY DEF ReadInv, ReadHalt, HaltNext, LineOK, Lines
<1>2. /\ at' = "bad" \/ ch = HaltNext[at][1]
      /\ ch = HaltNext[at][1] => at' = HaltNext[at][2]
  BY DEF ReadHalt
<1>3. /\ at = "halt_1" /\ ch = "A" => at' = "halt_2"
      /\ at = "halt_2" /\ ch = "L" => at' = "halt_3"
      /\ at = "halt_3" /\ ch = "T" => at' = "halt_4"
      /\ \/ at' = "bad"
         \/ at' \in {"halt_2", "halt_3", "halt_4"} /\ ch # "nl"
         \/ at' = "halted" /\ ch = "nl"
  <2>1. /\ HaltNext["halt_1"] = <<"A", "halt_2">> /\ HaltNext["halt_2"] = <<"L", "halt_3">>
        /\ HaltNext["halt_3"] = <<"T", "halt_4">> /\ HaltNext["halt_4"] = <<"nl", "halted">>
    BY DEF HaltNext
  <2>2. CASE at = "halt_1"
    <3>1. HaltNext[at] = HaltNext["halt_1"]
      BY <2>2
    <3> QED BY <1>2, <2>1, <2>2, <3>1
  <2>3. CASE at = "halt_2"
    <3>1. HaltNext[at] = HaltNext["halt_2"]
      BY <2>3
    <3> QED BY <1>2, <2>1, <2>3, <3>1
  <2>4. CASE at = "halt_3"
    <3>1. HaltNext[at] = HaltNext["halt_3"]
      BY <2>4
    <3> QED BY <1>2, <2>1, <2>4, <3>1
  <2>5. CASE at = "halt_4"
    <3>1. HaltNext[at] = HaltNext["halt_4"]
      BY <2>5
    <3> QED BY <1>2, <2>1, <2>5, <3>1
  <2> QED BY <1>1, <2>2, <2>3, <2>4, <2>5
<1>4. /\ line.form \in {"bad", "lost"} \/ (line.form = "h1" /\ at = "halt_1")
         \/ (line.form = "h2" /\ at = "halt_2") \/ (line.form = "h3" /\ at = "halt_3")
         \/ line.form = "h4"
  <2>1. ~(line.form = "left" /\ ~line.digits)
    BY <1>1, OnlyNewLine DEF InStep, Reading
  <2> QED BY <1>1, <2>1 DEF InStep, Forms
<1>5. CASE ch = "nl"
  BY <1>1, <1>3, <1>5, HearLine, OnNewLine DEF Reading
<1>6. CASE ch # "nl"
  <2>1. line' = Typed(line, ch)
    BY <1>1, <1>6, HearLine
  <2>2. /\ LineOK(line')
        /\ \/ line'.form \in {"bad", "lost"}
           \/ line'.form = "h2" /\ at' = "halt_2"
           \/ line'.form = "h3" /\ at' = "halt_3"
           \/ line'.form = "h4" /\ at' = "halt_4"
    BY <1>1, <1>3, <1>4, <2>1, OtherForm
  <2>3. at' \in Reading \union {"bad"} /\ at' # "read_a"
    BY <1>3, <1>6 DEF Reading
  <2>4. CASE line'.form \in {"bad", "lost"}
    BY <2>2, <2>3, <2>4, OnBadLine
  <2>5. CASE line'.form \in {"h2", "h3", "h4"}
    <3>1. line' # NewLine
      BY <2>5, NewLineFields
    <3> QED BY <2>2, <2>3, <2>5, <3>1 DEF InStep, Reading
  <2> QED BY <2>2, <2>4, <2>5
<1> QED BY <1>5, <1>6

\* What the program does between two polls leaves the line alone.
LEMMA ProgramStep ==
  ASSUME ReadInv, Program
  PROVE  LineOK(line)' /\ InStep'
<1>1. LineOK(line) /\ InStep /\ line' = line /\ calc \in CalcRegisters
  BY DEF ReadInv, Program, Compute, CountPlace, NextPlace, PrintOnes, Bad, CalcTypeOK,
         CalcRegisters
<1>2. CASE Compute \/ CountPlace \/ NextPlace
  <2>1. at \in {"compute", "print_place"} /\ at' \in {"bad", "print_place", "print_ones"}
    BY <1>2 DEF Compute, CountPlace, NextPlace, PrintFrom
  <2>2. line = NewLine
    BY <1>1, <2>1 DEF InStep, Reading
  <2> QED BY <1>1, <2>1, <2>2, OnNewLine DEF Reading
<1>3. CASE PrintOnes \/ Bad
  <2>1. at \in {"print_ones", "bad"} /\ at' = "read_a" /\ calc' = Cleared
    BY <1>3 DEF PrintOnes, Bad
  <2>2. CASE line = NewLine
    BY <1>1, <2>1, <2>2, NewLineFields, ClearedFields DEF InStep
  <2>3. CASE line # NewLine
    <3>1. at = "bad"
      BY <1>1, <2>1, <2>3 DEF InStep, Reading
    <3>2. /\ line'.form = "left" /\ line'.digits => ~Fits(line')
          /\ line'.form = "right" => ~Fits(line')
          /\ line'.form \notin {"h1", "h2", "h3", "h4"}
      BY <1>1, <3>1 DEF InStep
    <3>3. at' = "read_a" /\ line' # NewLine /\ ~calc'.seenB
      BY <1>1, <2>1, <2>3, ClearedFields
    <3>4. InStep'
      BY <3>2, <3>3 DEF InStep, Reading
    <3> QED BY <1>1, <3>4
  <2> QED BY <2>2, <2>3
<1> QED BY <1>2, <1>3 DEF Program

-----------------------------------------------------------------------------
(* The types of the program. *)

PlaceOK == at = "print_place" => calc.place # 0

TypeInv == ReadInv /\ PlaceOK

\* What is printed is a character.
LEMMA PrintedType ==
  ASSUME NEW n \in Nat
  PROVE  Printed(n) \in Characters
<1>1. CASE n < Base
  BY <1>1, DigitType, Power DEF Characters
<1>2. CASE ~(n < Base)
  BY <1>2 DEF Printed, Characters
<1> QED BY <1>1, <1>2

Texts == Seq(Characters \union {"?"})

\* What a block does to the registers and to the text.
LEMMA HearTypes ==
  ASSUME NEW ch \in Characters, ReadA(ch) \/ ReadB(ch) \/ ReadHalt(ch), TypeInv
  PROVE  CalcTypeOK' /\ PlaceOK'
<1>1. Hear(ch) /\ LineOK(line) /\ calc \in CalcRegisters
  BY DEF ReadA, ReadB, ReadHalt, TypeInv, ReadInv, CalcTypeOK, CalcRegisters
<1>2. at' \in Blocks /\ at' # "print_place"
  <2>1. CASE ReadA(ch)
    BY <2>1 DEF ReadA, Blocks
  <2>2. CASE ReadB(ch)
    BY <2>2 DEF ReadB, Blocks
  <2>3. CASE ReadHalt(ch)
    <3>1. at \in {"halt_1", "halt_2", "halt_3", "halt_4"}
      BY <2>3 DEF ReadHalt, HaltNext
    <3>2. at' = "bad" \/ at' = HaltNext[at][2]
      BY <2>3 DEF ReadHalt
    <3>3. HaltNext[at][2] \in {"halt_2", "halt_3", "halt_4", "halted"}
      BY <3>1 DEF HaltNext
    <3> QED BY <3>2, <3>3 DEF Blocks
  <2> QED BY <2>1, <2>2, <2>3
<1>3. sent' \in Texts /\ line'.left < MaxTyped /\ line'.right < MaxTyped
  BY <1>1, HearLine DEF Hear, Texts
<1>4. calc' \in CalcRegisters
  <2>1. /\ \A c \in DOMAIN DigitOf : WithDigit(calc.a, c) \in Words
        /\ \A c \in DOMAIN DigitOf : WithDigit(calc.b, c) \in Words
    BY <1>1, DigitRead DEF CalcRegisters
  <2>2. CASE ReadA(ch)
    <3>1. \/ calc' = calc
          \/ ch \in Operators /\ calc' = [calc EXCEPT !.op = ch]
          \/ ch \in DOMAIN DigitOf
             /\ calc' = [calc EXCEPT !.a = WithDigit(calc.a, ch), !.seenA = TRUE]
      BY <2>2 DEF ReadA
    <3> HIDE DEF WithDigit
    <3> QED BY <1>1, <2>1, <3>1 DEF CalcRegisters
  <2>3. CASE ReadB(ch)
    <3>1. \/ calc' = calc
          \/ ch \in DOMAIN DigitOf
             /\ calc' = [calc EXCEPT !.b = WithDigit(calc.b, ch), !.seenB = TRUE]
      BY <2>3 DEF ReadB
    <3> QED BY <1>1, <2>1, <3>1 DEF CalcRegisters
  <2>4. CASE ReadHalt(ch)
    BY <1>1, <2>4 DEF ReadHalt
  <2> QED BY <2>2, <2>3, <2>4
<1> QED BY <1>2, <1>3, <1>4 DEF CalcTypeOK, PlaceOK, CalcRegisters, Texts

PrintStart(c, v) ==
  [c EXCEPT !.rest = v, !.place = TopExp, !.digit = 0, !.printed = FALSE]

\* The registers that the printing starts with.
LEMMA PrintFromTypes ==
  ASSUME calc \in CalcRegisters, NEW v \in Words, PrintFrom(v)
  PROVE  calc' \in CalcRegisters /\ at' = "print_place" /\ calc'.place = TopExp
<1>1. TopExp \in 0 .. TopExp /\ 0 \in Words
  BY Zeros, Power
<1>2. PrintStart(calc, v) \in CalcRegisters /\ PrintStart(calc, v).place = TopExp
  BY <1>1 DEF CalcRegisters, PrintStart
<1>3. at' = "print_place" /\ calc' = PrintStart(calc, v)
  BY DEF PrintFrom, PrintStart
<1> QED BY <1>2, <1>3

\* The registers after the computation.
LEMMA ComputeTypes ==
  ASSUME calc \in CalcRegisters, Compute
  PROVE  /\ calc' \in CalcRegisters /\ at' \in {"bad", "print_place"}
         /\ at' = "print_place" => calc'.place = TopExp
<1>1. calc.a \in Words /\ calc.b \in Words
  BY DEF CalcRegisters
<1>2. /\ Trunc(calc.a + calc.b) \in Words /\ SubsFlags(calc.a, calc.b).res \in Words
      /\ Product("MUL", calc.a, calc.b)[1] \in Words
  BY <1>1, WordRangeType, TruncType, SubsType, ProductType DEF Words
<1>3. \/ at' = "bad" /\ calc' = calc
      \/ PrintFrom(Trunc(calc.a + calc.b))
      \/ PrintFrom(SubsFlags(calc.a, calc.b).res)
      \/ PrintFrom(Product("MUL", calc.a, calc.b)[1])
  BY DEF Compute
<1> QED BY <1>2, <1>3, PrintFromTypes

\* Each block keeps the types.
LEMMA ProgramTypes ==
  ASSUME TypeInv, Program
  PROVE  CalcTypeOK' /\ PlaceOK'
<1>1. /\ calc \in CalcRegisters /\ sent \in Texts /\ at \in Blocks
      /\ line.left < MaxTyped /\ line.right < MaxTyped /\ line' = line
  BY DEF TypeInv, ReadInv, CalcTypeOK, CalcRegisters, Texts, Program, Compute, CountPlace,
         NextPlace, PrintOnes, Bad
<1>2. /\ calc.rest \in Words /\ calc.digit \in Nat /\ calc.rest \in Nat
      /\ calc.place \in 0 .. TopExp
  BY <1>1, WordRangeType DEF CalcRegisters, Words
<1>3. CASE Compute
  BY <1>1, <1>3, ComputeTypes, Power
     DEF Compute, CalcTypeOK, PlaceOK, CalcRegisters, Texts, Blocks
<1>4. CASE CountPlace
  <2>1. TakeOff(calc.rest) \in Words
    BY <1>2, Power, WordRangeType, TruncType DEF TakeOff, Words, WordRange
  <2>2. Trunc(calc.digit + 1) \in Words
    BY <1>1, WordRangeType, TruncType DEF CalcRegisters, Words
  <2>3. calc' = [calc EXCEPT !.rest = TakeOff(calc.rest), !.digit = Trunc(calc.digit + 1)]
    BY <1>4 DEF CountPlace
  <2>4. calc' \in CalcRegisters /\ calc'.place = calc.place
    BY <1>1, <2>1, <2>2, <2>3 DEF CalcRegisters
  <2>5. at' = at /\ sent' = sent
    BY <1>4 DEF CountPlace
  <2> QED BY <1>1, <2>4, <2>5 DEF TypeInv, CalcTypeOK, PlaceOK, CalcRegisters, Texts
<1>5. CASE NextPlace
  <2>1. at = "print_place" /\ calc.place # 0
    BY <1>5 DEF NextPlace, TypeInv, PlaceOK
  <2>2. calc.place - 1 \in 0 .. TopExp
    BY <1>2, <2>1, Power
  <2>3. \E shown \in BOOLEAN :
          calc' = [calc EXCEPT !.printed = shown, !.digit = 0, !.place = calc.place - 1]
    <3>1. (calc.printed \/ calc.digit # 0) \in BOOLEAN
      OBVIOUS
    <3> QED BY <1>5, <3>1 DEF NextPlace
  <2>4. calc' \in CalcRegisters /\ calc'.place = calc.place - 1
    BY <1>1, <2>2, <2>3, Zeros DEF CalcRegisters
  <2>5. sent' = sent \/ sent' = Append(sent, Printed(calc.digit))
    BY <1>5 DEF NextPlace
  <2>6. sent' \in Texts
    BY <1>1, <1>2, <2>5, PrintedType DEF Texts
  <2>7. at' = IF calc.place = 1 THEN "print_ones" ELSE "print_place"
    BY <1>5, <2>1 DEF NextPlace
  <2> QED BY <1>1, <1>2, <2>4, <2>6, <2>7
          DEF CalcTypeOK, PlaceOK, CalcRegisters, Texts, Blocks
<1>6. CASE PrintOnes
  <2>1. sent' \in Texts
    <3>1. Printed(calc.rest) \in Characters \union {"?"} /\ "nl" \in Characters \union {"?"}
      BY <1>2, PrintedType DEF Characters
    <3>2. <<Printed(calc.rest), "nl">> \in Texts
      BY <3>1 DEF Texts
    <3> QED BY <1>1, <1>6, <3>2 DEF PrintOnes, Texts
  <2> QED BY <1>1, <1>6, <2>1, ClearedFields
          DEF PrintOnes, CalcTypeOK, PlaceOK, CalcRegisters, Texts, Blocks
<1>7. CASE Bad
  <2>1. sent' \in Texts
    BY <1>7 DEF Bad, Texts, Characters
  <2> QED BY <1>1, <1>7, <2>1, ClearedFields
          DEF Bad, CalcTypeOK, PlaceOK, CalcRegisters, Texts, Blocks
<1> QED BY <1>3, <1>4, <1>5, <1>6, <1>7 DEF Program

\* The invariant of the types and of the reading, at the start.
LEMMA TypeInvInit == CalcInit => TypeInv
<1> SUFFICES ASSUME CalcInit PROVE TypeInv
  OBVIOUS
<1>1. CalcTypeOK
  BY ClearedFields, NewLineFields, Kinds DEF CalcInit, CalcTypeOK, CalcRegisters, Blocks
<1> QED BY <1>1, ClearedFields, NewLineFields
        DEF CalcInit, TypeInv, ReadInv, PlaceOK, InStep, Reading

\* And along every step.
LEMMA TypeInvNext == TypeInv /\ [CalcNext]_calcVars => TypeInv'
<1> SUFFICES ASSUME TypeInv, [CalcNext]_calcVars PROVE TypeInv'
  OBVIOUS
<1>1. CASE UNCHANGED calcVars
  BY <1>1 DEF calcVars, TypeInv, ReadInv, PlaceOK, CalcTypeOK, InStep, LineOK, Lines, Fits,
              Heard
<1>2. CASE Program
  BY <1>2, ProgramStep, ProgramTypes DEF TypeInv, ReadInv
<1>3. CASE Host
  BY <1>3, ReadAStep, ReadBStep, ReadHaltStep, HearTypes DEF Host, TypeInv, ReadInv
<1>4. CASE Halted
  BY <1>1, <1>4 DEF Halted
<1> QED BY <1>1, <1>2, <1>3, <1>4 DEF CalcNext

\* And always.
LEMMA TypeInvHolds == CalcSpec => []TypeInv
BY TypeInvInit, TypeInvNext, PTL DEF CalcSpec

\* The types of the program and of the history.
THEOREM CalcTypes == CalcSpec => []CalcTypeOK
<1>1. TypeInv => CalcTypeOK
  BY DEF TypeInv, ReadInv
<1> QED BY <1>1, TypeInvHolds, PTL

\* A line starts with nothing left over from what was typed before it, and while it
\* is an expression of words the program has read it as the reference does.
THEOREM LinesCleanAlways == CalcSpec => []LinesStartClean
<1>1. TypeInv => LinesStartClean
  <2> SUFFICES ASSUME TypeInv PROVE LinesStartClean
    OBVIOUS
  <2>1. InStep /\ LineOK(line)
    BY DEF TypeInv, ReadInv
  <2>2. ASSUME at \in {"read_a", "read_b"}, line.form \in {"left", "right"},
               line.left < WordRange, line.right < WordRange
        PROVE  calc.a = line.left /\ calc.b = line.right /\ calc.op = line.op
    <3>1. CASE line.form = "right" \/ (line.form = "left" /\ line.digits)
      <4>1. calc = Heard(line)
        BY <2>1, <2>2, <3>1 DEF InStep, Fits
      <4> QED BY <4>1, NotedFields DEF Heard
    <3>2. CASE line.form = "left" /\ ~line.digits
      <4>1. line = NewLine
        BY <2>1, <3>2, OnlyNewLine
      <4>2. calc = Cleared
        BY <2>1, <2>2, <4>1 DEF InStep, Reading
      <4> QED BY <4>1, <4>2, ClearedFields, NewLineFields
    <3> QED BY <2>2, <3>1, <3>2
  <2>3. at \in Reading /\ line = NewLine => at = "read_a" /\ calc = Cleared
    BY <2>1 DEF InStep
  <2> QED BY <2>2, <2>3 DEF LinesStartClean
<1> QED BY <1>1, TypeInvHolds, PTL

-----------------------------------------------------------------------------
(* The places of a number that is printed. *)

\* The digits before place p of a number of k digits.
Front(v, k, p) == [i \in 1 .. k - p - 1 |-> DigitAt(v, k - i)]

\* The printing of v at place p: its digits above are gone, digit times the place
\* has been taken off, and rest is left.
Split(v, p, digit, rest) ==
  /\ v < HalfRange + Base ^ TopExp
  /\ v = (v \div Base ^ (p + 1)) * Base ^ (p + 1) + digit * Base ^ p + rest
  /\ digit * Base ^ p + rest < Base ^ (p + 1)
  /\ rest < HalfRange + Base ^ p

\* The characters sent are all digits of v above place p.
Led(v, p, text) ==
  \E k \in p + 2 .. TopExp + 1 :
    v < Base ^ k /\ Base ^ (k - 1) <= v /\ text = Front(v, k, p)

\* SUBS tells whether the place fits, for the numbers that are printed.
LEMMA Fitting ==
  ASSUME NEW x \in Nat, NEW u \in Nat, u <= HalfRange, x < HalfRange + u
  PROVE  S(x, u) <=> x < u
<1>1. HalfRange \in Nat /\ HalfRange > 0
  BY WordRangeType
<1>2. S(x, u) <=> Trunc(x - u) >= HalfRange
  BY DEF S, SubsFlags, Result, ZS, Negative
<1>3. CASE x < u
  <2>1. Trunc(x - u) = x - u + WordRange
    BY <1>1, <1>3 DEF Trunc
  <2> QED BY <1>1, <1>2, <1>3, <2>1 DEF WordRange
<1>4. CASE ~(x < u)
  <2>1. Trunc(x - u) = x - u
    BY <1>1, <1>4 DEF Trunc, WordRange
  <2> QED BY <1>1, <1>2, <1>4, <2>1
<1> QED BY <1>3, <1>4

\* The numbers in a split.
LEMMA SplitType ==
  ASSUME NEW v \in Nat, NEW p \in 0 .. TopExp
  PROVE  /\ Base ^ p \in Nat /\ Base ^ p > 0 /\ Base ^ p <= HalfRange
         /\ Base ^ (p + 1) = Base * Base ^ p
         /\ Base ^ (p + 1) \in Nat /\ Base ^ (p + 1) > 0
         /\ v \div Base ^ (p + 1) \in Nat
<1>1. /\ Base ^ p \in Nat /\ Base ^ p > 0 /\ Base ^ p <= HalfRange
      /\ Base ^ (p + 1) = Base * Base ^ p
      /\ Base ^ (p + 1) \in Nat /\ Base ^ (p + 1) > 0
  BY Power
<1> QED BY <1>1, Division

\* One turn of the loop.
LEMMA Counts ==
  ASSUME NEW v \in Nat, NEW p \in 0 .. TopExp, NEW digit \in Nat, NEW rest \in Nat,
         Split(v, p, digit, rest), ~S(rest, Base ^ p)
  PROVE  /\ Trunc(rest - Base ^ p) = rest - Base ^ p
         /\ Trunc(digit + 1) = digit + 1
         /\ Split(v, p, digit + 1, rest - Base ^ p)
<1> DEFINE u == Base ^ p
           m == Base ^ (p + 1)
           q == v \div m
<1>1. /\ u \in Nat /\ u > 0 /\ u <= HalfRange /\ m = Base * u /\ m \in Nat /\ q \in Nat
      /\ Base \in Nat /\ Base <= HalfRange /\ HalfRange \in Nat /\ HalfRange > 0
  BY SplitType, Power, WordRangeType
<1>2. /\ v < HalfRange + Base ^ TopExp
      /\ v = q * m + digit * u + rest /\ digit * u + rest < m /\ rest < HalfRange + u
  BY DEF Split
<1> HIDE DEF u, m, q
<1>3. rest >= u
  BY <1>1, <1>2, Fitting DEF u
<1>4. Trunc(rest - u) = rest - u
  BY <1>1, <1>2, <1>3 DEF Trunc, WordRange
<1>5. (digit + 1) * u = digit * u + u /\ digit * u \in Nat /\ q * m \in Nat
  BY <1>1
<1>6. digit + 1 < Base
  <2>1. (digit + 1) * u < Base * u
    BY <1>1, <1>2, <1>3, <1>5
  <2> SUFFICES ASSUME digit + 1 >= Base PROVE FALSE
    BY <1>1
  <2>2. (digit + 1) * u >= Base * u
    BY <1>1
  <2> QED BY <1>1, <1>5, <2>1, <2>2
<1>7. Trunc(digit + 1) = digit + 1
  BY <1>1, <1>6 DEF Trunc, WordRange
<1>8. /\ v = q * m + (digit + 1) * u + (rest - u) /\ (digit + 1) * u + (rest - u) < m
      /\ rest - u < HalfRange + u
  BY <1>1, <1>2, <1>3, <1>5
<1> QED BY <1>2, <1>4, <1>7, <1>8 DEF Split, u, m, q

\* The end of the loop for a place: the digit counted is the digit of v.
LEMMA Ends ==
  ASSUME NEW v \in Nat, NEW p \in 0 .. TopExp, NEW digit \in Nat, NEW rest \in Nat,
         Split(v, p, digit, rest), rest < Base ^ p
  PROVE  /\ digit < Base /\ DigitAt(v, p) = Digit(digit)
         /\ v = (v \div Base ^ p) * Base ^ p + rest
         /\ digit = 0 /\ v < Base ^ (p + 1) => v < Base ^ p
         /\ digit # 0 => Base ^ p <= v
<1> DEFINE u == Base ^ p
           m == Base ^ (p + 1)
           q == v \div m
<1>1. /\ u \in Nat /\ u > 0 /\ u <= HalfRange /\ m = Base * u /\ m \in Nat /\ q \in Nat
      /\ Base \in Nat /\ Base > 1 /\ HalfRange \in Nat /\ HalfRange > 0 /\ m > 0
  BY SplitType, Power, WordRangeType
<1>2. v = q * m + digit * u + rest /\ digit * u + rest < m /\ rest < u
  BY DEF Split
<1>2a. v < m => q = 0
  BY <1>1
<1> HIDE DEF u, m, q
<1>3. digit < Base
  <2> SUFFICES ASSUME digit >= Base PROVE FALSE
    BY <1>1
  <2>1. digit * u >= Base * u /\ digit * u \in Nat
    BY <1>1
  <2> QED BY <1>1, <1>2, <2>1
<1>4. q * Base + digit \in Nat /\ v = (q * Base + digit) * u + rest
  <2>1. (q * Base + digit) * u = (q * Base) * u + digit * u
    BY <1>1
  <2>2. (q * Base) * u = q * (Base * u)
    BY <1>1
  <2> QED BY <1>1, <1>2, <2>1, <2>2
<1>5. v \div u = q * Base + digit
  <2>1. rest \in 0 .. u - 1 /\ u \in Nat \ {0}
    BY <1>1, <1>2
  <2> DEFINE w == q * Base + digit
  <2>2. w \in Nat /\ v = w * u + rest
    BY <1>4
  <2> HIDE DEF w
  <2>3. v \div u = w
    BY <2>1, <2>2, Quotient
  <2> QED BY <2>3 DEF w
<1>6. (q * Base + digit) % Base = digit
  <2>1. digit \in 0 .. Base - 1 /\ Base \in Nat \ {0}
    BY <1>1, <1>3
  <2> DEFINE w == q * Base + digit
  <2>2. w \in Nat /\ w = q * Base + digit
    BY <1>4
  <2> HIDE DEF w
  <2>3. w % Base = digit
    BY <1>1, <2>1, <2>2, Quotient
  <2> QED BY <2>3 DEF w
<1>7. DigitAt(v, p) = Digit(digit)
  BY <1>5, <1>6 DEF DigitAt, u
<1>8. digit = 0 /\ v < m => v < u
  BY <1>1, <1>2, <1>2a
<1>9. digit # 0 => u <= v
  <2> SUFFICES ASSUME digit # 0 PROVE u <= v
    OBVIOUS
  <2>1. digit * u >= u /\ q * m \in Nat
    BY <1>1
  <2> QED BY <1>1, <1>2, <2>1
<1>10. v = (v \div u) * u + rest
  BY <1>4, <1>5
<1> QED BY <1>3, <1>7, <1>8, <1>9, <1>10 DEF u, m

\* Digits are characters.
LEMMA DigitAtType ==
  ASSUME NEW v \in Nat, NEW k \in 0 .. TopExp + 1
  PROVE  DigitAt(v, k) \in Characters
<1> DEFINE x == v \div Base ^ k
<1>1. x \in Nat /\ Base \in Nat /\ Base > 1
  <2>1. Base ^ k \in Nat \ {0} /\ Base \in Nat /\ Base > 1
    BY Power
  <2> QED BY <2>1, Division
<1> HIDE DEF x
<1>2. x % Base \in 0 .. Base - 1
  BY <1>1
<1>3. Digit(x % Base) \in DOMAIN DigitOf
  BY <1>2, DigitType
<1> QED BY <1>3 DEF DigitAt, Characters, x

\* One digit more.
LEMMA FrontMore ==
  ASSUME NEW v \in Nat, NEW p \in 1 .. TopExp, NEW k \in p + 1 .. TopExp + 1
  PROVE  Append(Front(v, k, p), DigitAt(v, p)) = Front(v, k, p - 1)
<1> DEFINE D(i) == DigitAt(v, k - i)
           n == k - p - 1
<1>1. /\ n \in Nat /\ n + 1 = k - (p - 1) - 1 /\ k - (n + 1) = p
  BY Power
<1>2. \A i \in 1 .. n + 1 : D(i) \in Characters
  BY <1>1, DigitAtType, Power
<1>3. Front(v, k, p) = [i \in 1 .. n |-> D(i)] /\ Front(v, k, p - 1) = [i \in 1 .. n + 1 |-> D(i)]
  BY <1>1 DEF Front
<1>4. D(n + 1) = DigitAt(v, p)
  BY <1>1
<1> HIDE DEF D, n
<1>5. Append([i \in 1 .. n |-> D(i)], D(n + 1)) = [i \in 1 .. n + 1 |-> D(i)]
  <2>1. [i \in 1 .. n |-> D(i)] \in Seq(Characters)
    BY <1>1, <1>2
  <2> QED BY <1>1, <1>2, <2>1
<1> QED BY <1>3, <1>4, <1>5

\* No digits before the first.
LEMMA FrontNone ==
  ASSUME NEW v \in Nat, NEW p \in 0 .. TopExp
  PROVE  Front(v, p + 1, p) = << >>
BY DEF Front

\* A set of natural numbers has a least one.
LEMMA LeastNumber ==
  ASSUME NEW T \in SUBSET Nat, T # {}
  PROVE  \E x \in T : \A y \in T : x <= y
<1> DEFINE R == OpToRel(<, Nat)
<1>1. IsWellFoundedOn(R, Nat)
  BY NatLessThanWellFounded, Zenon
<1>2. \A y, x \in Nat : y < x => <<y, x>> \in R
  BY DEF OpToRel
<1> HIDE DEF R
<1>3. \E x \in T : \A y \in T : ~ (<<y, x>> \in R)
  BY <1>1, WFMin
<1>4. PICK x \in T : \A y \in T : ~ (<<y, x>> \in R)
  BY <1>3
<1>5. \A y \in T : x <= y
  <2> SUFFICES ASSUME NEW y \in T PROVE x <= y
    OBVIOUS
  <2>1. x \in Nat /\ y \in Nat
    OBVIOUS
  <2>2. y < x => <<y, x>> \in R
    BY <2>1, <1>2, Zenon
  <2>3. ~(<<y, x>> \in R)
    BY <1>4
  <2>4. ~(y < x)
    BY <2>2, <2>3, Zenon
  <2> QED BY <2>1, <2>4
<1> QED BY <1>5

\* A number that is printed has a number of digits.
LEMMA PlacesType ==
  ASSUME NEW n \in Nat, n < Base ^ (TopExp + 1)
  PROVE  Places(n) \in 1 .. TopExp + 1
<1> DEFINE T == {k \in 1 .. TopExp + 1 : n < Base ^ k}
<1>1. TopExp + 1 \in T /\ T \in SUBSET Nat
  BY Power
<1>2. PICK k \in T : \A j \in T : k <= j
  BY <1>1, LeastNumber
<1>3. k \in 1 .. TopExp + 1 /\ n < Base ^ k
  OBVIOUS
<1>4. k = 1 \/ Base ^ (k - 1) <= n
  <2> SUFFICES ASSUME k # 1 PROVE Base ^ (k - 1) <= n
    OBVIOUS
  <2>1. k - 1 \in 1 .. TopExp + 1 /\ ~(k <= k - 1)
    BY <1>3, Power
  <2>2. k - 1 \notin T
    BY <1>2, <2>1
  <2>3. Base ^ (k - 1) \in Nat
    BY <2>1, Power
  <2> QED BY <2>1, <2>2, <2>3
<1> QED BY <1>3, <1>4, PlacesAt

\* The decimal digits of a number that is printed.
LEMMA DecimalType ==
  ASSUME NEW v \in Nat, v < Base ^ (TopExp + 1)
  PROVE  Decimal(v) \in Seq(Characters) /\ Len(Decimal(v)) = Places(v)
<1> DEFINE n == Places(v)
           D(i) == DigitAt(v, n - i)
<1>1. n \in Nat /\ n \in 1 .. TopExp + 1
  BY PlacesType, Power
<1>2. Decimal(v) = [i \in 1 .. n |-> D(i)]
  BY DEF Decimal
<1> HIDE DEF n
<1>3. \A i \in 1 .. n : D(i) \in Characters
  <2> SUFFICES ASSUME NEW i \in 1 .. n PROVE D(i) \in Characters
    OBVIOUS
  <2>1. n - i \in 0 .. TopExp + 1
    BY <1>1, Power
  <2> QED BY <2>1, DigitAtType
<1> HIDE DEF D
<1>4. [i \in 1 .. n |-> D(i)] \in Seq(Characters) /\ Len([i \in 1 .. n |-> D(i)]) = n
  BY <1>1, <1>3
<1> QED BY <1>2, <1>4 DEF n

\* The last digit completes the number.
LEMMA FrontAll ==
  ASSUME NEW v \in Nat, NEW k \in 1 .. TopExp + 1, v < Base ^ k, k = 1 \/ Base ^ (k - 1) <= v
  PROVE  Front(v, k, 0) \o <<DigitAt(v, 0), "nl">> = Append(Decimal(v), "nl")
<1> DEFINE D(i) == DigitAt(v, k - i)
<1>1. Decimal(v) = [i \in 1 .. k |-> D(i)]
  BY PlacesAt DEF Decimal
<1>2. k \in Nat /\ k - 0 - 1 = k - 1 /\ k - k = 0
  BY Power
<1>3. Front(v, k, 0) = [i \in 1 .. k - 1 |-> D(i)] /\ D(k) = DigitAt(v, 0)
  BY <1>2 DEF Front
<1>4. \A i \in 1 .. k : D(i) \in Characters
  <2> SUFFICES ASSUME NEW i \in 1 .. k PROVE D(i) \in Characters
    OBVIOUS
  <2>1. k - i \in 0 .. TopExp + 1
    BY <1>2, Power
  <2> QED BY <2>1, DigitAtType
<1> HIDE DEF D
<1>5. [i \in 1 .. k - 1 |-> D(i)] \o <<D(k), "nl">> = Append([i \in 1 .. k |-> D(i)], "nl")
  <2>1. [i \in 1 .. k - 1 |-> D(i)] \in Seq(Characters)
    BY <1>2, <1>4
  <2>2. [i \in 1 .. k |-> D(i)] \in Seq(Characters)
    BY <1>2, <1>4
  <2>3. "nl" \in Characters /\ D(k) \in Characters
    BY <1>2, <1>4 DEF Characters
  <2>4. Len([i \in 1 .. k - 1 |-> D(i)]) = k - 1 /\ Len([i \in 1 .. k |-> D(i)]) = k
    BY <1>2
  <2> QED BY <1>2, <2>1, <2>2, <2>3, <2>4
<1> QED BY <1>1, <1>3, <1>5

-----------------------------------------------------------------------------
(* The answer under way. *)

Sorry == <<"?", "nl">>

\* The answer is the number v, of which the digits above the place are sent.
Prints(v) ==
  /\ due = Append(Decimal(v), "nl")
  /\ Split(v, calc.place, calc.digit, calc.rest)
  /\ at = "print_ones" => calc.digit = 0
  /\ calc.printed => Led(v, calc.place, sent)
  /\ ~calc.printed => v < Base ^ (calc.place + 1) /\ sent = << >>

\* The expression in the registers is the one of l, and the reference answers it.
Answers(l) ==
  /\ l.left = calc.a /\ l.op = calc.op /\ l.right = calc.b
  /\ InReach(l) /\ due = Wanted(l)

Computing ==
  /\ sent = << >>
  /\ ~calc.seenB => due \in {Sorry, NotDue}
  /\ calc.seenB => due = NotDue \/ \E l \in Lines : Answers(l)

Printing == due = NotDue \/ \E v \in Words : Prints(v)

AnswerInv ==
  /\ at \in {"read_b", "compute"} => calc.op \in Operators
  /\ due = <<"halt">> => at = "halted"
  /\ at = "halted" => due \in {<<"halt">>, NotDue}
  /\ at = "bad" => due \in {Sorry, NotDue}
  /\ at = "compute" => Computing
  /\ at \in {"print_place", "print_ones"} => Printing
  /\ at = "print_ones" => calc.place = 0
  /\ at = "read_a" /\ sent # << >> /\ due # NotDue => sent = due

\* The bounds of what is printed.
LEMMA PrintBound ==
  /\ HalfRange \in Nat /\ HalfRange > 0 /\ Base ^ TopExp \in Nat
  /\ HalfRange + Base ^ TopExp <= WordRange
  /\ HalfRange + Base ^ TopExp <= Base ^ (TopExp + 1)
<1>1. HalfRange \in Nat /\ HalfRange > 0
  BY WordRangeType
<1>2. Base ^ TopExp \in Nat /\ Base ^ TopExp <= HalfRange
  BY Power
<1>3. HalfRange + Base ^ TopExp <= Base ^ (TopExp + 1)
  BY PowerAssumption
<1> QED BY <1>1, <1>2, <1>3 DEF WordRange

\* No answer but that of HALT is the one of HALT.
LEMMA WantedIs ==
  ASSUME NEW l \in Lines, l.op \in Operators, InReach(l)
  PROVE  /\ Exact(l) \in Int
         /\ Exact(l) < 0 \/ Exact(l) >= WordRange => Wanted(l) = Sorry
         /\ 0 <= Exact(l) /\ Exact(l) < WordRange =>
              /\ Exact(l) < HalfRange + Base ^ TopExp
              /\ Wanted(l) = Append(Decimal(Exact(l)), "nl")
         /\ Wanted(l) # <<"halt">>
<1>1. l.left \in Nat /\ l.right \in Nat
  BY DEF Lines
<1>2. /\ l.op = "+" => Exact(l) = l.left + l.right
      /\ l.op = "-" => Exact(l) = l.left - l.right
      /\ l.op = "*" => Exact(l) = l.left * l.right
  BY DEF Exact
<1>3. Exact(l) \in Int
  BY <1>1, <1>2 DEF Operators
<1>4. Exact(l) < 0 \/ Exact(l) >= WordRange => Wanted(l) = Sorry
  BY DEF Wanted, Sorry
<1>5. ASSUME 0 <= Exact(l), Exact(l) < WordRange
      PROVE  /\ Exact(l) < HalfRange + Base ^ TopExp
             /\ Wanted(l) = Append(Decimal(Exact(l)), "nl")
  <2>1. Wanted(l) = Append(Decimal(Exact(l)), "nl")
    BY <1>3, <1>5, WordRangeType DEF Wanted
  <2>2. \/ l.op = "-" /\ Exact(l) < HalfRange
        \/ Exact(l) < HalfRange + Base ^ TopExp
        \/ Exact(l) >= WordRange
    BY DEF InReach, Operators
  <2> QED BY <1>3, <1>5, <2>1, <2>2, PrintBound, WordRangeType
<1>6. Wanted(l) # <<"halt">>
  <2>1. CASE Exact(l) < 0 \/ Exact(l) >= WordRange
    BY <1>4, <2>1 DEF Sorry
  <2>2. CASE 0 <= Exact(l) /\ Exact(l) < WordRange
    <3>1. Exact(l) \in Nat /\ Exact(l) < Base ^ (TopExp + 1)
      BY <1>3, <1>5, <2>2, PrintBound, Power
    <3>2. /\ Decimal(Exact(l)) \in Seq(Characters)
          /\ Len(Decimal(Exact(l))) = Places(Exact(l)) /\ Places(Exact(l)) > 0
          /\ Places(Exact(l)) \in Nat
      BY <3>1, DecimalType, PlacesType, Power
    <3>3. Len(Append(Decimal(Exact(l)), "nl")) > 1
      BY <3>2
    <3> QED BY <1>5, <2>2, <3>3
  <2> QED BY <1>3, <2>1, <2>2, WordRangeType
<1> QED BY <1>3, <1>4, <1>5, <1>6

\* The answers a line calls for.
LEMMA CallsOf ==
  ASSUME LineOK(line), NEW ch \in Characters
  PROVE  LET c == Calls(ch)
         IN  \/ c \in {Sorry, NotDue}
             \/ ch = "nl" /\ line.form = "h4" /\ c = <<"halt">>
             \/ /\ ch = "nl" /\ line.form = "right" /\ line.digits /\ InReach(line)
                /\ c = Wanted(line)
BY DEF Calls, Sorry

\* The three answers without a number differ.
LEMMA Dues == NotDue # <<"halt">> /\ Sorry # <<"halt">> /\ NotDue # Sorry
BY DEF NotDue, Sorry

-----------------------------------------------------------------------------
(* What is due when a character has been read. *)

\* The form of the line at the blocks that read, and the answer to a newline.
LEMMA FormAt ==
  ASSUME LineOK(line), InStep
  PROVE  /\ at = "read_b" => line.form \in {"right", "bad", "lost"}
         /\ at = "halt_4" => line.form \in {"h4", "bad", "lost"}
         /\ at \in {"halt_1", "halt_2", "halt_3", "halt_4"} => line.form # "right"
         /\ line.form = "h4" => at = "halt_4"
         /\ line.form = "right" /\ Fits(line) => at = "read_b" /\ calc = Heard(line)
<1>1. line.form \in Forms
  BY DEF LineOK, Lines
<1>2. line.form = "left" /\ ~line.digits /\ at \in Reading => at = "read_a"
  BY OnlyNewLine DEF InStep
<1>3. at = "read_b" => line.form \in {"right", "bad", "lost"}
  BY <1>1, <1>2 DEF InStep, Forms, Reading
<1>4. at = "halt_4" => line.form \in {"h4", "bad", "lost"}
  BY <1>1, <1>2 DEF InStep, Forms, Reading
<1>5. at \in {"halt_1", "halt_2", "halt_3", "halt_4"} => line.form # "right"
  BY DEF InStep
<1>6. line.form = "h4" => at = "halt_4"
  BY DEF InStep
<1>7. line.form = "right" /\ Fits(line) => at = "read_b" /\ calc = Heard(line)
  BY DEF InStep
<1> QED BY <1>3, <1>4, <1>5, <1>6, <1>7

\* Numbers within reach are words.
LEMMA ReachFits == ASSUME NEW l, InReach(l) PROVE Fits(l)
BY DEF InReach, Fits

\* The registers of an expression that has been read.
LEMMA HeardTruly ==
  ASSUME LineOK(line), line.form = "right", line.digits, calc = Heard(line)
  PROVE  /\ calc.a = line.left /\ calc.op = line.op /\ calc.b = line.right /\ calc.seenB
<1>1. calc = Noted(line.left, Yes, line.op, line.right, Yes)
  BY HeardRight
<1>2. calc.a = line.left /\ calc.op = line.op /\ calc.b = line.right /\ calc.seenB = Yes
  BY <1>1, NotedFields
<1> QED BY <1>2 DEF Yes

\* The first number calls for nothing but a question mark.
LEMMA ReadAAnswers ==
  ASSUME TypeInv, AnswerInv, NEW ch \in Characters, ReadA(ch)
  PROVE  AnswerInv'
<1>1. /\ at = "read_a" /\ Hear(ch) /\ LineOK(line) /\ InStep /\ calc \in CalcRegisters
  BY DEF ReadA, TypeInv, ReadInv, CalcTypeOK, CalcRegisters
<1>2. due' \in {Sorry, NotDue}
  BY <1>1, CallsOf, FormAt, ReachFits DEF Hear
<1>3. /\ at' \in {"halt_1", "read_b", "read_a", "bad"} /\ sent' = << >>
      /\ at' = "read_b" => calc'.op \in Operators
  BY <1>1 DEF ReadA, Hear, CalcRegisters
<1> QED BY <1>2, <1>3, Dues DEF AnswerInv

\* The end of the line calls for the answer to the line.
LEMMA ReadBAnswers ==
  ASSUME TypeInv, AnswerInv, NEW ch \in Characters, ReadB(ch)
  PROVE  AnswerInv'
<1>1. /\ at = "read_b" /\ Hear(ch) /\ LineOK(line) /\ InStep /\ calc \in CalcRegisters
      /\ calc.op \in Operators /\ due' = Calls(ch) /\ sent' = << >>
  BY DEF ReadB, TypeInv, ReadInv, CalcTypeOK, CalcRegisters, AnswerInv, Hear
<1>2. /\ at' \in {"compute", "read_b", "bad"} /\ calc'.op = calc.op
      /\ at' = "compute" => ch = "nl" /\ calc' = calc
      /\ ch = "nl" => at' = "compute"
  BY <1>1 DEF ReadB, CalcRegisters
<1>3. line.form \in {"right", "bad", "lost"}
  BY <1>1, FormAt
<1>4. /\ line.form \in {"bad", "lost"} => Calls("nl") = NotDue
      /\ line.form = "right" /\ ~line.digits => Calls("nl") = Sorry
      /\ line.form = "right" /\ line.digits /\ InReach(line) => Calls("nl") = Wanted(line)
      /\ line.form = "right" /\ line.digits /\ ~InReach(line) => Calls("nl") = NotDue
  BY <1>3 DEF Calls, Sorry
<1>5. ch # "nl" => due' \in {Sorry, NotDue}
  BY <1>1, CallsOf
<1>6. ASSUME ch = "nl"
      PROVE  Computing' /\ due' # <<"halt">>
  <2>1. due' = Calls("nl") /\ calc' = calc
    BY <1>1, <1>2, <1>6
  <2>2. CASE line.form \in {"bad", "lost"}
    BY <1>1, <1>4, <2>1, <2>2, Dues DEF Computing
  <2>3. CASE line.form = "right" /\ ~line.digits
    <3>1. ~calc.seenB
      BY <1>1, <2>3 DEF InStep
    <3> QED BY <1>1, <1>4, <2>1, <2>3, <3>1, Dues DEF Computing
  <2>4. CASE line.form = "right" /\ line.digits /\ ~InReach(line)
    BY <1>1, <1>4, <2>1, <2>4, Dues DEF Computing
  <2>5. CASE line.form = "right" /\ line.digits /\ InReach(line)
    <3>1. calc = Heard(line)
      BY <1>1, <2>5, FormAt, ReachFits
    <3>2. calc.a = line.left /\ calc.op = line.op /\ calc.b = line.right /\ calc.seenB
      BY <1>1, <2>5, <3>1, HeardTruly
    <3>3. Wanted(line) # <<"halt">> /\ line \in Lines
      BY <1>1, <2>5, WantedIs DEF LineOK
    <3>4. due' = Wanted(line)
      BY <1>4, <2>1, <2>5
    <3>5. \E l \in Lines : /\ l.left = calc'.a /\ l.op = calc'.op /\ l.right = calc'.b
                          /\ InReach(l) /\ due' = Wanted(l)
      BY <2>1, <2>5, <3>2, <3>3, <3>4
    <3> QED BY <1>1, <2>1, <3>2, <3>3, <3>4, <3>5 DEF Computing, Answers
  <2> QED BY <1>3, <2>2, <2>3, <2>4, <2>5
<1> QED BY <1>1, <1>2, <1>5, <1>6, Dues DEF AnswerInv

\* HALT and its newline stop the processor, and nothing else does.
LEMMA ReadHaltAnswers ==
  ASSUME TypeInv, AnswerInv, NEW ch \in Characters, ReadHalt(ch)
  PROVE  AnswerInv'
<1>1. /\ at \in {"halt_1", "halt_2", "halt_3", "halt_4"} /\ Hear(ch) /\ LineOK(line)
      /\ InStep /\ due' = Calls(ch) /\ sent' = << >>
  BY DEF ReadHalt, HaltNext, TypeInv, ReadInv, Hear
<1>2. /\ at' \in {"halt_2", "halt_3", "halt_4", "halted", "bad"}
      /\ at' = "halted" <=> at = "halt_4" /\ ch = "nl"
  <2>1. at' = IF ch = HaltNext[at][1] THEN HaltNext[at][2] ELSE "bad"
    BY DEF ReadHalt
  <2>2. /\ HaltNext["halt_1"] = <<"A", "halt_2">> /\ HaltNext["halt_2"] = <<"L", "halt_3">>
        /\ HaltNext["halt_3"] = <<"T", "halt_4">> /\ HaltNext["halt_4"] = <<"nl", "halted">>
    BY DEF HaltNext
  <2>3. \/ at = "halt_1" /\ at' \in {"halt_2", "bad"}
        \/ at = "halt_2" /\ at' \in {"halt_3", "bad"}
        \/ at = "halt_3" /\ at' \in {"halt_4", "bad"}
        \/ at = "halt_4" /\ at' = (IF ch = "nl" THEN "halted" ELSE "bad")
    <3>1. CASE at = "halt_1"
      BY <2>1, <2>2, <3>1
    <3>2. CASE at = "halt_2"
      BY <2>1, <2>2, <3>2
    <3>3. CASE at = "halt_3"
      BY <2>1, <2>2, <3>3
    <3>4. CASE at = "halt_4"
      BY <2>1, <2>2, <3>4
    <3> QED BY <1>1, <3>1, <3>2, <3>3, <3>4
  <2> QED BY <2>3
<1>3. line.form # "right" /\ (line.form = "h4" => at = "halt_4")
      /\ (at = "halt_4" => line.form \in {"h4", "bad", "lost"})
  BY <1>1, FormAt
<1>4. at' = "halted" => due' \in {<<"halt">>, NotDue}
  BY <1>1, <1>2, <1>3 DEF Calls
<1>5. \/ due' \in {Sorry, NotDue}
      \/ ch = "nl" /\ line.form = "h4" /\ due' = <<"halt">>
  BY <1>1, <1>3, CallsOf
<1> QED BY <1>1, <1>2, <1>3, <1>4, <1>5, Dues DEF AnswerInv

-----------------------------------------------------------------------------
(* Results within reach. *)

\* A smaller number divides to nothing.
LEMMA DivideBelow ==
  ASSUME NEW v \in Nat, NEW m \in Nat \ {0}, v < m
  PROVE  v \div m = 0
OBVIOUS

\* The first turn: nothing has been taken off.
LEMMA PrintBegins ==
  ASSUME NEW v \in Words, v < HalfRange + Base ^ TopExp, calc \in CalcRegisters,
         PrintFrom(v), sent = << >>, sent' = sent,
         due' = Append(Decimal(v), "nl")
  PROVE  Prints(v)'
<1>1. /\ calc'.rest = v /\ calc'.place = TopExp /\ calc'.digit = 0 /\ calc'.printed = FALSE
      /\ at' = "print_place"
  BY DEF PrintFrom, CalcRegisters
<1>2. v \in Nat /\ TopExp \in 0 .. TopExp
  BY WordRangeType, Power DEF Words
<1> DEFINE u == Base ^ TopExp
           m == Base ^ (TopExp + 1)
<1>3. /\ u \in Nat /\ u > 0 /\ m \in Nat \ {0} /\ v < m /\ v < HalfRange + u
      /\ HalfRange \in Nat
  <2>1. u \in Nat /\ u > 0 /\ m \in Nat /\ m > 0
    BY Power
  <2> QED BY <1>2, <2>1, PrintBound
<1>4. v \div m = 0
  BY <1>2, <1>3, DivideBelow
<1> HIDE DEF u, m
<1>5. /\ v < HalfRange + u /\ v = (v \div m) * m + 0 * u + v /\ 0 * u + v < m
      /\ v < HalfRange + u
  BY <1>2, <1>3, <1>4
<1>6. Split(v, TopExp, 0, v)
  BY <1>5 DEF Split, u, m
<1> QED BY <1>1, <1>3, <1>6 DEF Prints, m

\* Trunc and the flags of what is computed, where the reference has an answer.
LEMMA ComputeSum ==
  ASSUME NEW a \in Words, NEW b \in Words, a + b < WordRange
  PROVE  Trunc(a + b) = a + b /\ a + b \in Words
BY WordRangeType DEF Trunc, Words

\* SUBS within reach.
LEMMA ComputeDifference ==
  ASSUME NEW a \in Words, NEW b \in Words, a - b < HalfRange, -HalfRange <= a - b
  PROVE  /\ S(a, b) <=> a < b
         /\ a >= b => SubsFlags(a, b).res = a - b /\ a - b \in Words
<1>1. /\ a \in Nat /\ b \in Nat /\ HalfRange \in Nat /\ HalfRange > 0
      /\ WordRange = 2 * HalfRange
  BY WordRangeType DEF Words, WordRange
<1>2. (S(a, b) <=> Trunc(a - b) >= HalfRange) /\ SubsFlags(a, b).res = Trunc(a - b)
  BY DEF S, SubsFlags, Result, ZS, Negative
<1>3. CASE a < b
  <2>1. Trunc(a - b) = a - b + WordRange
    BY <1>1, <1>3 DEF Trunc
  <2> QED BY <1>1, <1>2, <1>3, <2>1
<1>4. CASE a >= b
  <2>1. Trunc(a - b) = a - b
    BY <1>1, <1>4 DEF Trunc
  <2>2. a - b \in Words
    BY <1>1, <1>4 DEF Words
  <2> QED BY <1>1, <1>2, <1>4, <2>1, <2>2
<1> QED BY <1>1, <1>3, <1>4

\* MUL: the high word tells whether the product is a word.
LEMMA ComputeProduct ==
  ASSUME NEW a \in Words, NEW b \in Words
  PROVE  /\ a * b \in Nat
         /\ a * b < WordRange =>
              Product("MUL", a, b)[2] = 0 /\ Product("MUL", a, b)[1] = a * b /\ a * b \in Words
         /\ a * b >= WordRange => Product("MUL", a, b)[2] # 0
<1> DEFINE p == a * b
           w == WordRange
<1>1. /\ a \in Nat /\ b \in Nat /\ a < w /\ b < w /\ w \in Nat /\ w > 1
  BY WordRangeType DEF Words
<1>2. p \in Nat
  BY <1>1
<1>3. Product("MUL", a, b)[1] = p % w /\ Product("MUL", a, b)[2] = (p \div w) % w
  BY DEF Product
<1>4. p < w * w
  <2>1. a * b <= a * w /\ a * w <= (w - 1) * w /\ (w - 1) * w = w * w - w /\ w * w \in Nat
    BY <1>1
  <2> QED BY <1>1, <1>2, <2>1
<1>5. ASSUME p < w
      PROVE  p % w = p /\ (p \div w) % w = 0 /\ p \in Words
  <2> HIDE DEF p
  <2>1. p = 0 * w + p /\ p \in 0 .. w - 1 /\ w \in Nat \ {0}
    BY <1>1, <1>2, <1>5
  <2>2. p \div w = 0 /\ p % w = p
    BY <1>2, <2>1, Quotient
  <2>3. 0 % w = 0
    BY <1>1
  <2> QED BY <2>1, <2>2, <2>3 DEF Words
<1>6. ASSUME p >= w
      PROVE  (p \div w) % w # 0
  <2> HIDE DEF p
  <2> DEFINE q == p \div w
  <2>1. w \in Nat \ {0}
    BY <1>1
  <2>2. q \in Nat /\ p % w \in 0 .. w - 1 /\ p = q * w + (p % w)
    BY <1>2, <2>1, Division
  <2>3. q # 0
    <3> SUFFICES ASSUME q = 0 PROVE FALSE
      OBVIOUS
    <3> QED BY <1>1, <1>2, <1>6, <2>2
  <2> HIDE DEF q
  <2>4. q < w
    <3> SUFFICES ASSUME q >= w PROVE FALSE
      BY <1>1, <2>2
    <3>1. q * w >= w * w /\ q * w \in Nat /\ w * w \in Nat
      BY <1>1, <2>2
    <3> QED BY <1>1, <1>2, <1>4, <2>2, <3>1 DEF p
  <2>5. q = 0 * w + q /\ q \in 0 .. w - 1
    BY <1>1, <2>2, <2>4
  <2>6. q % w = q
    BY <2>1, <2>2, <2>5, Quotient
  <2> QED BY <2>3, <2>6 DEF q
<1> QED BY <1>2, <1>3, <1>5, <1>6

-----------------------------------------------------------------------------
(* The program keeps the answer under way. *)

\* The result that is printed is the exact one.
LEMMA ComputeAnswers ==
  ASSUME TypeInv, AnswerInv, Compute
  PROVE  AnswerInv'
<1>1. /\ at = "compute" /\ sent' = sent /\ due' = due /\ calc \in CalcRegisters
      /\ sent = << >> /\ Computing /\ calc.op \in Operators /\ due # <<"halt">>
  BY DEF Compute, TypeInv, ReadInv, CalcTypeOK, CalcRegisters, AnswerInv, Computing
<1>2. calc.a \in Words /\ calc.b \in Words /\ calc.a \in Nat /\ calc.b \in Nat
  BY <1>1, WordRangeType DEF CalcRegisters, Words
<1>3. at' \in {"bad", "print_place"}
  BY <1>1, ComputeTypes
<1>4. ASSUME due # NotDue, calc.seenB
      PROVE  \/ at' = "bad" /\ due = Sorry
             \/ at' = "print_place" /\ \E v \in Words : Prints(v)'
  <2>1. PICK l \in Lines : Answers(l)
    BY <1>1, <1>4 DEF Computing
  <2>2. /\ l.left = calc.a /\ l.op = calc.op /\ l.right = calc.b
        /\ InReach(l) /\ due = Wanted(l)
    BY <2>1 DEF Answers
  <2>3. /\ Exact(l) \in Int
        /\ Exact(l) < 0 \/ Exact(l) >= WordRange => due = Sorry
        /\ 0 <= Exact(l) /\ Exact(l) < WordRange =>
             /\ Exact(l) < HalfRange + Base ^ TopExp
             /\ due = Append(Decimal(Exact(l)), "nl")
    BY <1>1, <2>2, WantedIs
  <2>4. CASE calc.op = "+"
    <3>1. Exact(l) = calc.a + calc.b
      BY <2>2, <2>4 DEF Exact
    <3>2. Exact(l) < HalfRange + Base ^ TopExp
      BY <2>2, <2>4 DEF InReach
    <3>3. calc.a + calc.b < WordRange
      BY <1>2, <3>1, <3>2, PrintBound, WordRangeType
    <3>4. PrintFrom(Trunc(calc.a + calc.b))
      BY <1>1, <1>4, <2>4 DEF Compute
    <3>5. PrintFrom(calc.a + calc.b) /\ calc.a + calc.b \in Words
      BY <1>2, <3>3, <3>4, ComputeSum
    <3>6. PICK v \in Words : v = Exact(l)
      BY <3>1, <3>5
    <3>7. v >= 0 /\ v < WordRange /\ PrintFrom(v)
      BY <1>2, <3>1, <3>3, <3>5, <3>6
    <3>8. Prints(v)'
      BY <1>1, <2>3, <3>2, <3>6, <3>7, PrintBegins
    <3> QED BY <3>7, <3>8 DEF PrintFrom
  <2>5. CASE calc.op = "-"
    <3>1. Exact(l) = calc.a - calc.b
      BY <2>2, <2>5 DEF Exact
    <3>2. Exact(l) < HalfRange /\ -HalfRange <= Exact(l)
      BY <2>2, <2>5 DEF InReach
    <3>3. /\ S(calc.a, calc.b) <=> calc.a < calc.b
          /\ calc.a >= calc.b => /\ SubsFlags(calc.a, calc.b).res = calc.a - calc.b
                                 /\ calc.a - calc.b \in Words
      BY <1>2, <3>1, <3>2, ComputeDifference
    <3>4. CASE calc.a < calc.b
      <4>1. at' = "bad"
        BY <1>1, <1>4, <2>5, <3>3, <3>4 DEF Compute
      <4> QED BY <1>2, <2>3, <3>1, <3>4, <4>1
    <3>5. CASE calc.a >= calc.b
      <4>1. ~S(calc.a, calc.b)
        BY <1>2, <3>3, <3>5
      <4>2. PrintFrom(SubsFlags(calc.a, calc.b).res)
        BY <1>1, <1>4, <2>5, <4>1 DEF Compute
      <4>3. PrintFrom(calc.a - calc.b) /\ calc.a - calc.b \in Words
        BY <3>3, <3>5, <4>2
      <4>4. 0 <= Exact(l) /\ Exact(l) < WordRange
        BY <1>2, <3>1, <3>2, <3>5, PrintBound DEF WordRange
      <4>5. PICK v \in Words : v = Exact(l)
        BY <3>1, <4>3
      <4>6. PrintFrom(v)
        BY <3>1, <4>3, <4>5
      <4>7. Prints(v)'
        BY <1>1, <2>3, <4>4, <4>5, <4>6, PrintBegins
      <4> QED BY <4>6, <4>7 DEF PrintFrom
    <3> QED BY <1>2, <3>4, <3>5
  <2>6. CASE calc.op = "*"
    <3> DEFINE p == calc.a * calc.b
    <3>1. Exact(l) = p
      BY <2>2, <2>6 DEF Exact
    <3>2. /\ p \in Nat
          /\ p < WordRange =>
               /\ Product("MUL", calc.a, calc.b)[2] = 0
               /\ Product("MUL", calc.a, calc.b)[1] = p /\ p \in Words
          /\ p >= WordRange => Product("MUL", calc.a, calc.b)[2] # 0
      BY <1>2, ComputeProduct
    <3>3. /\ Product("MUL", calc.a, calc.b)[2] # 0 => at' = "bad"
          /\ Product("MUL", calc.a, calc.b)[2] = 0 =>
               PrintFrom(Product("MUL", calc.a, calc.b)[1])
      BY <1>1, <1>4, <2>6 DEF Compute
    <3> HIDE DEF p
    <3>4. CASE p >= WordRange
      BY <2>3, <3>1, <3>2, <3>3, <3>4
    <3>5. CASE p < WordRange
      <4>1. PrintFrom(p) /\ p \in Words
        BY <3>2, <3>3, <3>5
      <4>2. PICK v \in Words : v = p
        BY <4>1
      <4>3. v < HalfRange + Base ^ TopExp /\ due = Append(Decimal(v), "nl")
        BY <2>3, <3>1, <3>2, <3>5, <4>2
      <4>4. Prints(v)'
        BY <1>1, <4>1, <4>2, <4>3, PrintBegins
      <4> QED BY <4>1, <4>4 DEF PrintFrom
    <3> QED BY <3>2, <3>4, <3>5, WordRangeType
  <2> QED BY <1>1, <2>4, <2>5, <2>6 DEF Operators
<1>5. ~calc.seenB => at' = "bad" /\ due \in {Sorry, NotDue}
  BY <1>1 DEF Compute, Computing
<1>6. at' = "print_place" => Printing'
  BY <1>1, <1>4, <1>5, Dues DEF Printing
<1>7. at' = "bad" => due' \in {Sorry, NotDue}
  BY <1>1, <1>4, <1>5
<1> QED BY <1>1, <1>3, <1>6, <1>7 DEF AnswerInv

\* A turn of the loop.
LEMMA CountAnswers ==
  ASSUME TypeInv, AnswerInv, CountPlace
  PROVE  AnswerInv'
<1>1. /\ at = "print_place" /\ at' = at /\ sent' = sent /\ due' = due /\ calc \in CalcRegisters
      /\ Printing /\ due # <<"halt">> /\ ~S(calc.rest, Base ^ calc.place)
  BY DEF CountPlace, TypeInv, ReadInv, CalcTypeOK, CalcRegisters, AnswerInv
<1>2. calc' = [calc EXCEPT !.rest = Trunc(calc.rest - Base ^ calc.place),
                           !.digit = Trunc(calc.digit + 1)]
  BY DEF CountPlace, TakeOff
<1>3. /\ calc'.place = calc.place /\ calc'.printed = calc.printed
      /\ calc'.rest = Trunc(calc.rest - Base ^ calc.place)
      /\ calc'.digit = Trunc(calc.digit + 1)
  BY <1>1, <1>2 DEF CalcRegisters
<1>4. ASSUME NEW v \in Words, Prints(v)
      PROVE  Prints(v)'
  <2>1. v \in Nat /\ calc.place \in 0 .. TopExp /\ calc.digit \in Nat /\ calc.rest \in Nat
    BY <1>1, WordRangeType DEF CalcRegisters, Words
  <2>2. /\ Trunc(calc.rest - Base ^ calc.place) = calc.rest - Base ^ calc.place
        /\ Trunc(calc.digit + 1) = calc.digit + 1
        /\ Split(v, calc.place, calc.digit + 1, calc.rest - Base ^ calc.place)
    BY <1>1, <1>4, <2>1, Counts DEF Prints
  <2>3. Split(v, calc'.place, calc'.digit, calc'.rest)
    BY <1>3, <2>2
  <2> QED BY <1>1, <1>3, <1>4, <2>3 DEF Prints
<1>5. Printing'
  BY <1>1, <1>4 DEF Printing
<1> QED BY <1>1, <1>5 DEF AnswerInv

\* The digit of a place.
LEMMA NextAnswers ==
  ASSUME TypeInv, AnswerInv, NextPlace
  PROVE  AnswerInv'
<1>1. /\ at = "print_place" /\ due' = due /\ calc \in CalcRegisters /\ calc.place # 0
      /\ Printing /\ due # <<"halt">> /\ S(calc.rest, Base ^ calc.place)
      /\ at' \in {"print_place", "print_ones"} /\ (at' = "print_ones" => calc.place = 1)
  BY DEF NextPlace, TypeInv, ReadInv, PlaceOK, CalcTypeOK, CalcRegisters, AnswerInv
<1> DEFINE p == calc.place
           shown == calc.printed \/ calc.digit # 0
<1>2. /\ calc'.place = p - 1 /\ calc'.digit = 0 /\ calc'.rest = calc.rest
      /\ calc'.printed <=> shown
  BY <1>1 DEF NextPlace, CalcRegisters
<1>3. /\ shown => sent' = Append(sent, Printed(calc.digit))
      /\ ~shown => sent' = sent
  BY DEF NextPlace
<1>4. p \in Nat /\ p \in 1 .. TopExp /\ p - 1 \in 0 .. TopExp /\ p \in 0 .. TopExp
      /\ (p - 1) + 1 = p /\ TopExp \in Nat
  BY <1>1, Power DEF CalcRegisters
<1>5. ASSUME NEW v \in Words, Prints(v)
      PROVE  Prints(v)'
  <2>1. v \in Nat /\ calc.digit \in Nat /\ calc.rest \in Nat
    BY <1>1, WordRangeType DEF CalcRegisters, Words
  <2>2. /\ Split(v, p, calc.digit, calc.rest) /\ due = Append(Decimal(v), "nl")
        /\ calc.printed => Led(v, p, sent)
        /\ ~calc.printed => v < Base ^ (p + 1) /\ sent = << >>
    BY <1>5 DEF Prints
  <2> HIDE DEF p
  <2>3. /\ v < HalfRange + Base ^ TopExp /\ calc.rest < HalfRange + Base ^ p
        /\ Base ^ p <= HalfRange /\ Base ^ p \in Nat /\ Base ^ p > 0
    BY <1>4, <2>2, Power DEF Split
  <2>4. calc.rest < Base ^ p
    BY <1>1, <2>1, <2>3, Fitting DEF p
  <2>5. /\ calc.digit < Base /\ DigitAt(v, p) = Digit(calc.digit)
        /\ v = (v \div Base ^ p) * Base ^ p + calc.rest
        /\ calc.digit = 0 /\ v < Base ^ (p + 1) => v < Base ^ p
        /\ calc.digit # 0 => Base ^ p <= v
    BY <1>4, <2>1, <2>2, <2>4, Ends
  <2>6. Split(v, p - 1, 0, calc.rest)
    <3> DEFINE u == Base ^ (p - 1)
               m == Base ^ p
    <3>1. u \in Nat /\ u > 0
      BY <1>4, Power
    <3>2. m \in Nat /\ m > 0 /\ v \div m \in Nat
      BY <2>1, <2>3, Division
    <3>3. v = (v \div m) * m + calc.rest /\ calc.rest < m /\ m <= HalfRange
          /\ HalfRange \in Nat
      BY <2>3, <2>4, <2>5, WordRangeType
    <3> HIDE DEF u, m
    <3>4. /\ v = (v \div m) * m + 0 * u + calc.rest /\ 0 * u + calc.rest < m
          /\ calc.rest < HalfRange + u
      BY <2>1, <3>1, <3>2, <3>3
    <3> QED BY <1>4, <2>3, <3>4 DEF Split, u, m
  <2>7. Printed(calc.digit) = DigitAt(v, p)
    <3>1. calc.digit \in 0 .. Base - 1
      BY <2>1, <2>5, Power
    <3> QED BY <2>5, <3>1, DigitType
  <2>8. ASSUME shown
        PROVE  Led(v, p - 1, sent')
    <3>1. PICK k \in p + 1 .. TopExp + 1 :
            v < Base ^ k /\ Base ^ (k - 1) <= v /\ sent = Front(v, k, p)
      <4>1. CASE calc.printed
        BY <1>4, <2>2, <4>1 DEF Led
      <4>2. CASE ~calc.printed /\ calc.digit # 0
        <5>1. sent = Front(v, p + 1, p) /\ v < Base ^ (p + 1) /\ Base ^ (p + 1 - 1) <= v
          BY <1>4, <2>1, <2>2, <2>5, <4>2, FrontNone
        <5>2. p + 1 \in p + 1 .. TopExp + 1
          BY <1>4
        <5>3. PICK k \in p + 1 .. TopExp + 1 : k = p + 1
          BY <5>2
        <5>4. k - 1 = p + 1 - 1
          BY <1>4, <5>3
        <5>5. v < Base ^ k /\ Base ^ (k - 1) <= v /\ sent = Front(v, k, p)
          BY <5>1, <5>3, <5>4
        <5> QED BY <5>5
      <4> QED BY <2>8, <4>1, <4>2
    <3>2. sent' = Front(v, k, p - 1)
      BY <1>3, <1>4, <2>1, <2>7, <2>8, <3>1, FrontMore
    <3>3. k \in (p - 1) + 2 .. TopExp + 1
      BY <1>4
    <3> QED BY <3>1, <3>2, <3>3 DEF Led
  <2>9. ASSUME ~shown
        PROVE  v < Base ^ ((p - 1) + 1) /\ sent' = << >>
    BY <1>3, <1>4, <2>2, <2>5, <2>9
  <2> QED BY <1>1, <1>2, <2>2, <2>6, <2>8, <2>9 DEF Prints
<1>6. Printing'
  BY <1>1, <1>5 DEF Printing
<1> QED BY <1>1, <1>2, <1>6 DEF AnswerInv

\* The last digit and the newline complete the answer.
LEMMA OnesAnswers ==
  ASSUME TypeInv, AnswerInv, PrintOnes
  PROVE  AnswerInv'
<1>1. /\ at = "print_ones" /\ due' = due /\ calc \in CalcRegisters /\ calc.place = 0
      /\ Printing /\ due # <<"halt">> /\ at' = "read_a"
      /\ sent' = sent \o <<Printed(calc.rest), "nl">>
  BY DEF PrintOnes, TypeInv, ReadInv, CalcTypeOK, CalcRegisters, AnswerInv
<1>2. ASSUME NEW v \in Words, Prints(v)
      PROVE  sent' = due
  <2>1. /\ v \in Nat /\ calc.rest \in Nat /\ 0 \in 0 .. TopExp /\ 0 + 1 = 1
        /\ Base \in Nat /\ Base > 1 /\ Base ^ 0 = 1 /\ Base ^ 1 = Base
    BY <1>1, WordRangeType, Power DEF CalcRegisters, Words
  <2>2. /\ Split(v, 0, 0, calc.rest) /\ due = Append(Decimal(v), "nl")
        /\ calc.printed => Led(v, 0, sent)
        /\ ~calc.printed => v < Base ^ 1 /\ sent = << >>
    BY <1>1, <1>2 DEF Prints
  <2>3. calc.rest < Base /\ v = (v \div Base) * Base + calc.rest /\ v \div Base \in Nat
    <3> DEFINE q == v \div Base
    <3>1. q \in Nat /\ Base \in Nat \ {0}
      <4>1. Base \in Nat \ {0}
        BY <2>1
      <4> QED BY <2>1, <4>1, Division
    <3>2. v = q * Base + 0 * 1 + calc.rest /\ 0 * 1 + calc.rest < Base
      BY <2>1, <2>2 DEF Split
    <3> HIDE DEF q
    <3>3. calc.rest < Base /\ v = q * Base + calc.rest
      BY <2>1, <3>1, <3>2
    <3> QED BY <3>1, <3>3 DEF q
  <2>4. calc.rest \in 0 .. Base - 1
    BY <2>1, <2>3
  <2>5. DigitAt(v, 0) = Printed(calc.rest)
    <3>1. v % Base = calc.rest
      <4> DEFINE q == v \div Base
      <4>1. q \in Nat /\ v = q * Base + calc.rest /\ Base \in Nat \ {0}
        BY <2>1, <2>3
      <4> HIDE DEF q
      <4> QED BY <2>1, <2>4, <4>1, Quotient
    <3>2. v \div 1 = v
      BY <2>1
    <3>3. DigitAt(v, 0) = Digit(calc.rest)
      BY <2>1, <3>1, <3>2 DEF DigitAt
    <3> QED BY <2>4, <3>3, DigitType
  <2>6. PICK k \in 1 .. TopExp + 1 : /\ v < Base ^ k /\ (k = 1 \/ Base ^ (k - 1) <= v)
                                    /\ sent = Front(v, k, 0)
    <3>1. CASE calc.printed
      BY <2>1, <2>2, <3>1 DEF Led
    <3>2. CASE ~calc.printed
      <4>1. sent = Front(v, 0 + 1, 0)
        BY <2>1, <2>2, <3>2, FrontNone
      <4>2. 1 \in 1 .. TopExp + 1
        BY Power
      <4> QED BY <2>1, <2>2, <3>2, <4>1, <4>2
    <3> QED BY <3>1, <3>2
  <2>7. Front(v, k, 0) \o <<DigitAt(v, 0), "nl">> = Append(Decimal(v), "nl")
    BY <2>1, <2>6, FrontAll
  <2> QED BY <1>1, <2>2, <2>5, <2>6, <2>7
<1>3. due' # NotDue => sent' = due'
  BY <1>1, <1>2 DEF Printing
<1> QED BY <1>1, <1>3 DEF AnswerInv

\* The question mark.
LEMMA BadAnswers ==
  ASSUME TypeInv, AnswerInv, Bad
  PROVE  AnswerInv'
<1>1. at = "bad" /\ at' = "read_a" /\ due' = due /\ due \in {Sorry, NotDue} /\ sent' = Sorry
  BY DEF Bad, AnswerInv, Sorry
<1> QED BY <1>1, Dues DEF AnswerInv

\* The invariant of the answer, at the start.
LEMMA AnswerInvInit == CalcInit => AnswerInv
BY Dues DEF CalcInit, AnswerInv

\* And along every step.
LEMMA AnswerInvNext == TypeInv /\ AnswerInv /\ [CalcNext]_calcVars => AnswerInv'
<1> SUFFICES ASSUME TypeInv, AnswerInv, [CalcNext]_calcVars PROVE AnswerInv'
  OBVIOUS
<1>1. CASE UNCHANGED calcVars
  BY <1>1 DEF calcVars, AnswerInv, Computing, Printing, Prints, Answers
<1>2. CASE Program
  BY <1>2, ComputeAnswers, CountAnswers, NextAnswers, OnesAnswers, BadAnswers DEF Program
<1>3. CASE Host
  BY <1>3, ReadAAnswers, ReadBAnswers, ReadHaltAnswers DEF Host
<1>4. CASE Halted
  BY <1>1, <1>4 DEF Halted
<1> QED BY <1>1, <1>2, <1>3, <1>4 DEF CalcNext

\* And always.
LEMMA AnswerInvHolds == CalcSpec => []AnswerInv
BY AnswerInvInit, AnswerInvNext, TypeInvHolds, PTL DEF CalcSpec

\* Every line gets the answer it calls for, whatever was typed before it, and HALT
\* alone stops the processor.
THEOREM AnswersRightAlways == CalcSpec => []AnswersRight
<1>1. AnswerInv => AnswersRight
  BY DEF AnswerInv, AnswersRight
<1> QED BY <1>1, AnswerInvHolds, PTL
=============================================================================
