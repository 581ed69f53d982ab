-------------------------- MODULE BranchRelaxation --------------------------
(***************************************************************************)
(* How the assembler (core/asm/driver.py) places the lines of a program    *)
(* whose branches have a short form and a long one: a first estimate of    *)
(* the labels, a fixed number of passes over the addresses, and emission,  *)
(* which resolves every branch once more.  Nothing tests whether the       *)
(* passes have settled.  Lines that end as one word (instructions, .word,  *)
(* the two lines of PUSH and POP) are alike here.                          *)
(***************************************************************************)
EXTENDS Integers, Sequences, FiniteSetsExt

CONSTANTS
  Labels,     \* names of labels
  Programs,   \* the programs given to the assembler: sequences of items
  Origin,     \* the address of the first line
  InsnBytes,  \* bytes of an instruction (4)
  ImmMin, ImmMax, \* the offsets a short branch can hold (-1024, 1023)
  Half,       \* values of half a word (2^16), so many times those of imm11
  Passes      \* passes over the addresses (16)

\* A line is a record with a kind: "insn"; "label" with a name; "jump", "cond"
\* and "direct" with a target; "align", "skip" and "org" with a number.  A jump
\* is B or JMP with a label, cond is a conditional branch or a jump on a flag
\* with a label, direct is a jump on a flag with R31 and a label.  The number of
\* an align is a power of two.
BranchKinds == {"jump", "cond", "direct"}
LineSet ==
  [kind : {"insn"}] \union [kind : {"label"}, name : Labels]
    \union [kind : BranchKinds, target : Labels]
    \union [kind : {"skip", "org"}, n : Nat] \union [kind : {"align"}, n : Nat \ {0}]

ASSUME RelaxationAssumption ==
  /\ Origin \in Nat /\ InsnBytes \in Nat \ {0} /\ Half \in Nat \ {0}
  /\ ImmMax \in Nat /\ ImmMin = -ImmMax - 1
  /\ Half % (ImmMax - ImmMin + 1) = 0
  /\ Passes \in Nat \ {0}
  /\ Programs \subseteq Seq(LineSet)

VARIABLES
  prog,    \* the lines of the program
  phase,   \* what the assembler does next
  pass,    \* passes made
  labels,  \* the address of each label
  seen,    \* history: the labels the last pass started from
  place,   \* the address and the size of each line
  image    \* the words of the image

asmVars == <<prog, phase, pass, labels, seen, place, image>>

Undefined == -1
WordMod == Half * Half
NoLabels == [l \in Labels |-> Undefined]

-----------------------------------------------------------------------------
(* The forms of a branch (pseudo.py, long_branch.py). *)

Offset(target, pc) ==
  LET u == (target - pc) % WordMod
  IN  IF u < WordMod \div 2 THEN u ELSE u - WordMod
NeedsLong(target, pc) == Offset(target, pc) \notin ImmMin .. ImmMax

Imm11Mod == ImmMax - ImmMin + 1

\* Altered: without the sign, for the validation of JumpsLand.
Imm11EncodeUnsigned(signed) == IF signed < 0 THEN -signed ELSE signed

\* imm11_encode: two's complement; an offset beyond the field is an error, but
\* NeedsLong has seen to it that there is none.
Imm11Encode(signed) == signed % Imm11Mod

SplitImm16(u) == [immh |-> u \div Imm11Mod, imm11 |-> u % Imm11Mod]

\* Words as assemble_line packs them: those of the branch formats hold imm11,
\* those of the format imm16 two parts; the others are alike here.
BranchWord(op, offset) == [op |-> op, imm11 |-> Imm11Encode(offset)]
Imm16Word(op, imm) ==
  LET s == SplitImm16(imm) IN [op |-> op, immh |-> s.immh, imm11 |-> s.imm11]
OtherWord(op) == [op |-> op]

\* ADDI of the low half, and for an address beyond it a shift into the high
\* half and ADDI of the other one.
LoadAddress(a) ==
  LET low == a % Half
      high == (a \div Half) % Half
  IN  IF high = 0 THEN <<Imm16Word("li", low)>>
      ELSE <<Imm16Word("li", low), OtherWord("shift"), OtherWord("sll"),
             Imm16Word("addi", high)>>

\* The words of a branch at pc to an address.  The long form of a conditional
\* branch begins with another condition (the opposite one, but for JC, JS, JO).
Resolved(kind, target, pc) ==
  IF ~NeedsLong(target, pc)
  THEN <<BranchWord(IF kind = "jump" THEN "jmp" ELSE "bcc", Offset(target, pc))>>
  ELSE (IF kind = "cond" THEN <<BranchWord("binv", InsnBytes)>> ELSE << >>)
         \o LoadAddress(target) \o <<BranchWord("jmpr", 0)>>

\* A direct branch has no long form, and no branch has an unknown target.
Refused(kind, target, pc) ==
  \/ target = Undefined
  \/ kind = "direct" /\ NeedsLong(target, pc)

\* _branch_size: a branch that will be refused counts as one word.
BranchSize(kind, target, pc) ==
  IF Refused(kind, target, pc)
  THEN InsnBytes
  ELSE InsnBytes * Len(Resolved(kind, target, pc))

-----------------------------------------------------------------------------
(* Addresses. *)

Aligned(a, n) == ((a + n - 1) \div n) * n

\* Where the next line goes when line begins at lc and takes size bytes.
NextLine(line, lc, size) ==
  CASE line.kind = "label" -> lc
    [] line.kind = "org"   -> line.n
    [] line.kind = "align" -> Aligned(lc, line.n)
    [] line.kind = "skip"  -> lc + line.n
    [] OTHER               -> lc + size

Named(line, lc, known) ==
  IF line.kind = "label" THEN [known EXCEPT ![line.name] = lc] ELSE known

\* _collect_label_addresses, line by line: every line that ends as words takes one.
Estimate(p) ==
  LET scan[i \in 0 .. Len(p)] ==
        IF i = 0 THEN [lc |-> Origin, known |-> NoLabels]
        ELSE [lc    |-> NextLine(p[i], scan[i - 1].lc, InsnBytes),
              known |-> Named(p[i], scan[i - 1].lc, scan[i - 1].known)]
  IN  scan

\* Altered: a branch backwards sees the label of the pass before, for the
\* validation of CountedAsEmitted.
SeenStale(fresh, old, l) == IF old[l] = Undefined THEN fresh[l] ELSE old[l]

\* A branch backwards sees the label of this pass, one forwards that of the pass
\* before.
Seen(fresh, old, l) == IF fresh[l] = Undefined THEN old[l] ELSE fresh[l]

SizeOf(line, fresh, old, lc) ==
  CASE line.kind \in BranchKinds ->
         BranchSize(line.kind, Seen(fresh, old, line.target), lc)
    [] line.kind = "skip" -> line.n
    [] OTHER -> InsnBytes

\* One pass of _assign_addresses, line by line, over the labels of the pass before.
Sweep(p, old) ==
  LET scan[i \in 0 .. Len(p)] ==
        IF i = 0 THEN [lc |-> Origin, known |-> NoLabels, at |-> << >>]
        ELSE LET s == scan[i - 1]
                 size == SizeOf(p[i], s.known, old, s.lc)
             IN  [lc    |-> NextLine(p[i], s.lc, size),
                  known |-> Named(p[i], s.lc, s.known),
                  at    |-> Append(s.at, [addr |-> s.lc, size |-> size])]
  IN  scan

-----------------------------------------------------------------------------
(* assemble_text. *)

AsmInit ==
  /\ prog \in Programs
  /\ phase = "collect" /\ pass = 0
  /\ labels = NoLabels /\ seen = NoLabels
  /\ place = << >> /\ image = << >>

Collect ==
  /\ phase = "collect"
  /\ labels' = Estimate(prog)[Len(prog)].known
  /\ phase' = "assign"
  /\ UNCHANGED <<prog, pass, seen, place, image>>

\* Altered: a pass too many, for the validation of AsmTypeOK.
AssignOnce ==
  /\ phase = "assign"
  /\ pass <= Passes
  /\ LET s == Sweep(prog, labels)[Len(prog)] IN labels' = s.known /\ place' = s.at
  /\ seen' = labels
  /\ pass' = pass + 1
  /\ UNCHANGED <<prog, phase, image>>

Assign ==
  /\ phase = "assign"
  /\ pass < Passes
  /\ LET s == Sweep(prog, labels)[Len(prog)] IN labels' = s.known /\ place' = s.at
  /\ seen' = labels
  /\ pass' = pass + 1
  /\ UNCHANGED <<prog, phase, image>>

\* The words line i is emitted as, with the labels of the last pass.
Lines(i) ==
  LET line == prog[i] IN
  CASE line.kind \in {"label", "org", "align"} -> << >>
    [] line.kind = "skip" ->
         [k \in 1 .. (line.n + InsnBytes - 1) \div InsnBytes |-> OtherWord("zero")]
    [] line.kind = "insn" -> <<OtherWord("insn")>>
    [] OTHER -> Resolved(line.kind, labels[line.target], place[i].addr)

\* The addresses of the words of line i.
Covered(i) ==
  {place[i].addr + InsnBytes * (k - 1) : k \in 1 .. Len(Lines(i))}

\* A word of the image is the last one emitted to its address.  The image is read
\* word by word from the origin, so words beside its places are lost, and it is
\* filled with zeros up to the last word.
Emitted ==
  LET covered == {a \in UNION {Covered(i) : i \in 1 .. Len(prog)} :
                    a >= Origin /\ (a - Origin) % InsnBytes = 0}
      At(a) == LET i == Max({j \in 1 .. Len(prog) : a \in Covered(j)})
               IN  Lines(i)[(a - place[i].addr) \div InsnBytes + 1]
  IN  [a \in covered |-> At(a)]

BranchLines == {i \in 1 .. Len(prog) : prog[i].kind \in BranchKinds}

Emit ==
  /\ phase = "assign" /\ pass = Passes
  /\ IF \E i \in BranchLines :
          Refused(prog[i].kind, labels[prog[i].target], place[i].addr)
     THEN phase' = "refused" /\ UNCHANGED image
     ELSE phase' = "done" /\ image' = Emitted
  /\ UNCHANGED <<prog, pass, labels, seen, place>>

AsmNext == Collect \/ Assign \/ Emit

AsmSpec == AsmInit /\ [][AsmNext]_asmVars

-----------------------------------------------------------------------------
AsmTypeOK ==
  /\ prog \in Seq(LineSet)
  /\ phase \in {"collect", "assign", "done", "refused"}
  /\ pass \in 0 .. Passes
  /\ {labels, seen} \subseteq [Labels -> Nat \union {Undefined}]
  /\ place \in Seq([addr : Nat, size : Nat])
  /\ Len(place) = IF pass = 0 THEN 0 ELSE Len(prog)
  /\ DOMAIN image \subseteq Nat

\* The lines that define a label; the last one counts.
Definitions(l) == {i \in 1 .. Len(prog) : prog[i] = [kind |-> "label", name |-> l]}

\* The words a branch is emitted as are those counted for it, if the label is behind
\* it or the last pass has left the label where it was.  Elsewhere the two may
\* differ: nothing tests whether the passes have settled, and there are programs
\* that sixteen passes do not settle, and others that none do
\* (driver.py, _assign_addresses and _emit_items).
CountedAsEmitted ==
  phase = "done" =>
    \A i \in BranchLines :
      LET l == prog[i].target
      IN  (\/ \A j \in Definitions(l) : j < i
           \/ (\A j \in Definitions(l) : j > i) /\ seen[l] = labels[l])
          => InsnBytes * Len(Lines(i)) = place[i].size

(* The processor on the image. *)

\* sext11 and imm16_from_parts: fields as 32-bit words.
Sext11(v) == IF v <= ImmMax THEN v ELSE WordMod - Imm11Mod + v

Imm16FromParts(immh, imm11) ==
  LET u == immh * Imm11Mod + imm11
  IN  IF u < Half \div 2 THEN u ELSE WordMod - Half + u

\* decode_word: the immediate operand of a word.
Imm32(w) ==
  CASE "immh" \in DOMAIN w            -> Imm16FromParts(w.immh, w.imm11)
    [] DOMAIN w = {"op", "imm11"}     -> Sext11(w.imm11)
    [] OTHER                          -> 0

\* One instruction at pc; reg is R14, the scratch register of the long forms,
\* and holds whether the condition of the branch is true.
Executed(s, holds) ==
  LET w == image[s.pc]
      next == s.pc + InsnBytes
      target == (s.pc + Imm32(w)) % WordMod
  IN  CASE w.op = "jmp"   -> [s EXCEPT !.pc = target]
        [] w.op = "bcc"   -> [s EXCEPT !.pc = IF holds THEN target ELSE next]
        [] w.op = "binv"  -> [s EXCEPT !.pc = IF holds THEN next ELSE target]
        [] w.op = "jmpr"  -> [s EXCEPT !.pc = (s.reg + Imm32(w)) % WordMod]
        [] w.op = "li"    -> [pc |-> next, reg |-> Imm32(w)]
        [] w.op = "sll"   -> [pc |-> next, reg |-> (s.reg * Half) % WordMod]
        [] w.op = "addi"  -> [pc |-> next, reg |-> (s.reg + Imm32(w)) % WordMod]
        [] OTHER          -> [s EXCEPT !.pc = next]

\* The same as long as the processor is on the words of line i.
OnLine(i, holds, s) == IF s.pc \in Covered(i) THEN Executed(s, holds) ELSE s

\* Where the processor is once it has left the at most six words of line i.
Leaves(i, holds) ==
  LET Step(s) == OnLine(i, holds, s)
      Steps(s) == Step(Step(Step(s)))
  IN  Steps(Steps([pc |-> place[i].addr, reg |-> 0])).pc

\* All branches have the room they need, whole words follow each other from a
\* whole one, and no line is beyond the address space.
Settled == \A i \in BranchLines : InsnBytes * Len(Lines(i)) = place[i].size
Straight ==
  /\ Origin % InsnBytes = 0
  /\ \A i \in 1 .. Len(prog) :
       /\ prog[i].kind # "org"
       /\ prog[i].kind \in {"skip", "align"} => prog[i].n % InsnBytes = 0
Fits == \A i \in 1 .. Len(prog) : place[i].addr < WordMod

\* Where a label is, what comes after a line, and where a branch should go.
Target(l) == place[Max(Definitions(l))].addr
Following(i) == place[i].addr + place[i].size
Destination(i, holds) ==
  IF prog[i].kind = "jump" \/ holds THEN Target(prog[i].target) ELSE Following(i)

\* ADDI extends the sign of its half word, so the scratch register can only be
\* loaded with addresses below the middle of it.
Near(l) == Target(l) < Half \div 2

\* A jump, short or long, and a short branch end where their label is, and no
\* instruction on the way is one that another line has been emitted over.
JumpsLand ==
  phase = "done" /\ Straight /\ Fits /\ Settled =>
    \A i \in BranchLines, holds \in BOOLEAN :
      (\/ Len(Lines(i)) = 1
       \/ prog[i].kind = "jump" /\ Near(prog[i].target)) =>
        Leaves(i, holds) = Destination(i, holds)
=============================================================================
