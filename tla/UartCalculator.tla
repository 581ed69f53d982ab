--------------------------- MODULE UartCalculator ---------------------------
(***************************************************************************)
(* The firmware of examples/uart_calculator.py: a program that reads       *)
(* <number><op><number>\n from the UART, computes with the instructions of *)
(* AluOps and sends the decimal result.  One action is one block of the    *)
(* program between two polls of the UART, or one turn of its print loop.   *)
(* The host may send any character at any poll.                            *)
(*                                                                         *)
(* line is a reference reading of the same characters, from the newline on *)
(* and with exact numbers; due is the answer it calls for.  Properties and *)
(* nothing else look at the two.                                           *)
(***************************************************************************)
EXTENDS AluOps, Sequences

CONSTANTS
  Base,      \* 10
  TopExp,    \* 9: the largest place printed is Base^TopExp
  DigitOf,   \* the digit characters, as a function to their values
  MaxTyped   \* bound: the numbers the host types are below it

VARIABLES
  at,      \* the block of the program: its label
  calc,    \* the registers a, op, b, seen_a, seen_b, and those of the printing
  sent,    \* characters of the answer under way, or of the last one
  line,    \* history: what has been typed since the last newline
  due      \* history: the answer the characters read call for

calcVars == <<at, calc, sent, line, due>>

Operators == {"+", "-", "*"}
\* "x" stands for all characters without a meaning.
Characters == DOMAIN DigitOf \union Operators \union {"nl", "H", "A", "L", "T", "x"}

\* Powers of the base are what the provers do not know them to be.  All the places
\* that are printed are below the sign bit, and a number at most one largest place
\* beyond it has no further digit.
ASSUME PowerAssumption ==
  /\ Base \in Nat \ {0, 1} /\ TopExp \in Nat \ {0}
  /\ Base ^ 0 = 1
  /\ \A k \in 0 .. TopExp + 1 : Base ^ k \in Nat \ {0}
  /\ \A k \in 0 .. TopExp : Base ^ (k + 1) = Base * Base ^ k
  /\ \A j, k \in 0 .. TopExp + 1 : j <= k => Base ^ j <= Base ^ k
  /\ Base ^ TopExp <= HalfRange
  /\ HalfRange + Base ^ TopExp <= Base ^ (TopExp + 1)

ASSUME TypedAssumption ==
  /\ DigitOf \in [DOMAIN DigitOf -> 0 .. Base - 1]
  /\ \A n \in 0 .. Base - 1 : \E d \in DOMAIN DigitOf : DigitOf[d] = n
  /\ DOMAIN DigitOf \intersect (Operators \union {"nl", "H", "A", "L", "T", "x"}) = {}
  /\ MaxTyped \in Nat \ {0}

Digit(n) == CHOOSE d \in DOMAIN DigitOf : DigitOf[d] = n
Printed(n) == IF n < Base THEN Digit(n) ELSE "x"

Blocks == {"read_a", "read_b", "halt_1", "halt_2", "halt_3", "halt_4",
           "compute", "print_place", "print_ones", "bad", "halted"}
Reading == {"read_a", "read_b", "halt_1", "halt_2", "halt_3", "halt_4"}

Cleared == [a |-> 0, op |-> "none", b |-> 0, seenA |-> FALSE, seenB |-> FALSE,
            rest |-> 0, place |-> 0, digit |-> 0, printed |-> FALSE]
NewLine == [form |-> "left", left |-> 0, digits |-> FALSE, op |-> "none", right |-> 0]
NotDue == <<"any">>

CalcInit ==
  /\ at = "read_a"
  /\ calc = Cleared
  /\ sent = << >>
  /\ line = NewLine
  /\ due = NotDue

-----------------------------------------------------------------------------
(* The reference reading. *)

\* Decimal digits of n, most significant first, without leading zeros.
Places(n) ==
  CHOOSE k \in 1 .. TopExp + 1 : n < Base ^ k /\ (k = 1 \/ Base ^ (k - 1) <= n)
DigitAt(n, k) == Digit((n \div Base ^ k) % Base)
Decimal(n) == [i \in 1 .. Places(n) |-> DigitAt(n, Places(n) - i)]

Exact(l) == CASE l.op = "+" -> l.left + l.right
              [] l.op = "-" -> l.left - l.right
              [] l.op = "*" -> l.left * l.right

\* The numbers for which the program promises an answer: operands are words,
\* sums and differences do not run into the sign bit (the print loop copes with
\* one largest place more).
InReach(l) ==
  /\ l.left < WordRange /\ l.right < WordRange
  /\ CASE l.op = "-" -> Exact(l) < HalfRange /\ -HalfRange <= Exact(l)
       [] l.op = "+" -> Exact(l) < HalfRange + Base ^ TopExp
       [] l.op = "*" -> Exact(l) < HalfRange + Base ^ TopExp \/ Exact(l) >= WordRange

Wanted(l) ==
  IF Exact(l) < 0 \/ Exact(l) >= WordRange
  THEN <<"?", "nl">> ELSE Append(Decimal(Exact(l)), "nl")

HaltWord == [left |-> "H", h1 |-> "A", h2 |-> "L", h3 |-> "T"]
NextOf == [left |-> "h1", h1 |-> "h2", h2 |-> "h3", h3 |-> "h4"]

\* The line with one more character, its form "bad" when no continuation makes
\* it an expression, and "lost" from the next character on.
Typed(l, ch) ==
  LET bad == [NewLine EXCEPT !.form = "bad"]
  IN  IF l.form \in {"bad", "lost"} THEN [NewLine EXCEPT !.form = "lost"]
      ELSE IF ch \in DOMAIN DigitOf /\ l.form = "left"
      THEN [l EXCEPT !.left = @ * Base + DigitOf[ch], !.digits = TRUE]
      ELSE IF ch \in DOMAIN DigitOf /\ l.form = "right"
      THEN [l EXCEPT !.right = @ * Base + DigitOf[ch], !.digits = TRUE]
      ELSE IF ch \in Operators /\ l.form = "left" /\ l.digits
      THEN [l EXCEPT !.form = "right", !.op = ch, !.digits = FALSE]
      ELSE IF l.form \in DOMAIN HaltWord /\ ch = HaltWord[l.form] /\ ~l.digits
      THEN [NewLine EXCEPT !.form = NextOf[l.form]]
      ELSE bad

\* The answer due when ch has been read in line.
Calls(ch) ==
  IF ch = "nl"
  THEN CASE line.form = "right" /\ line.digits ->
              IF InReach(line) THEN Wanted(line) ELSE NotDue
         [] line.form = "h4" -> <<"halt">>
         [] line.form \in {"bad", "lost"} -> NotDue
         [] OTHER -> <<"?", "nl">>
  ELSE IF Typed(line, ch).form = "bad" THEN <<"?", "nl">> ELSE NotDue

\* The host keeps to the bound on what it types; the program gets a character.
Hear(ch) ==
  /\ Typed(line, ch).left < MaxTyped /\ Typed(line, ch).right < MaxTyped
  /\ line' = IF ch = "nl" THEN NewLine ELSE Typed(line, ch)
  /\ due' = Calls(ch)
  /\ sent' = << >>

-----------------------------------------------------------------------------
(* The program. *)

\* The sign flag after SUBS x y.
S(x, y) == SubsFlags(x, y).fl.s

\* MUL n by 10, a high word not zero is an error; ADD of the digit wraps.
TooLong(n) == Product("MUL", n, Base)[2] # 0
\* An altered number, against which CalcTypeOK is validated: it does not wrap.
WithDigitWide(n, ch) == Product("MUL", n, Base)[1] + DigitOf[ch]
WithDigit(n, ch) == Trunc(Product("MUL", n, Base)[1] + DigitOf[ch])

ReadA(ch) ==
  /\ at = "read_a"
  /\ Hear(ch)
  /\ IF ch = "H" /\ ~calc.seenA
     THEN at' = "halt_1" /\ UNCHANGED calc
     ELSE IF ch \in Operators /\ calc.seenA
     THEN at' = "read_b" /\ calc' = [calc EXCEPT !.op = ch]
     ELSE IF ch \in DOMAIN DigitOf /\ ~TooLong(calc.a)
     THEN at' = at /\ calc' = [calc EXCEPT !.a = WithDigit(@, ch), !.seenA = TRUE]
     ELSE at' = "bad" /\ UNCHANGED calc

ReadB(ch) ==
  /\ at = "read_b"
  /\ Hear(ch)
  /\ IF ch = "nl"
     THEN at' = "compute" /\ UNCHANGED calc
     ELSE IF ch \in DOMAIN DigitOf /\ ~TooLong(calc.b)
     THEN at' = at /\ calc' = [calc EXCEPT !.b = WithDigit(@, ch), !.seenB = TRUE]
     ELSE at' = "bad" /\ UNCHANGED calc

HaltNext == [halt_1 |-> <<"A", "halt_2">>, halt_2 |-> <<"L", "halt_3">>,
             halt_3 |-> <<"T", "halt_4">>, halt_4 |-> <<"nl", "halted">>]

ReadHalt(ch) ==
  /\ at \in DOMAIN HaltNext
  /\ Hear(ch)
  /\ at' = IF ch = HaltNext[at][1] THEN HaltNext[at][2] ELSE "bad"
  /\ UNCHANGED calc

\* print_number: the result in r4, the largest place first.
PrintFrom(value) ==
  /\ at' = "print_place"
  /\ calc' = [calc EXCEPT !.rest = value, !.place = TopExp, !.digit = 0, !.printed = FALSE]

\* An altered computation, against which AnswersRight is validated: the carry of
\* a product is not looked at.
ComputeUnchecked ==
  /\ at = "compute"
  /\ UNCHANGED <<sent, line, due>>
  /\ \/ ~calc.seenB /\ at' = "bad" /\ UNCHANGED calc
     \/ /\ calc.seenB
        /\ calc.op = "+"
        /\ PrintFrom(Trunc(calc.a + calc.b))
     \/ /\ calc.seenB
        /\ calc.op = "-"
        /\ IF S(calc.a, calc.b) THEN at' = "bad" /\ UNCHANGED calc
           ELSE PrintFrom(SubsFlags(calc.a, calc.b).res)
     \/ /\ calc.seenB
        /\ calc.op = "*"
        /\ PrintFrom(Product("MUL", calc.a, calc.b)[1])

Compute ==
  /\ at = "compute"
  /\ UNCHANGED <<sent, line, due>>
  /\ \/ ~calc.seenB /\ at' = "bad" /\ UNCHANGED calc
     \/ /\ calc.seenB
        /\ calc.op = "+"
        /\ PrintFrom(Trunc(calc.a + calc.b))
     \/ /\ calc.seenB
        /\ calc.op = "-"
        /\ IF S(calc.a, calc.b) THEN at' = "bad" /\ UNCHANGED calc
           ELSE PrintFrom(SubsFlags(calc.a, calc.b).res)
     \/ /\ calc.seenB
        /\ calc.op = "*"
        /\ LET p == Product("MUL", calc.a, calc.b)
           IN  IF p[2] # 0 THEN at' = "bad" /\ UNCHANGED calc ELSE PrintFrom(p[1])

\* An altered turn, against which AnswerComes is validated: the place is not
\* taken off the rest.
TakePlaceOff(x) == x
\* SUB 4 7 4
TakeOff(x) == Trunc(x - Base ^ calc.place)

\* print_place_loop: the place fits once more into the rest.
CountPlace ==
  /\ at = "print_place"
  /\ ~S(calc.rest, Base ^ calc.place)
  /\ calc' = [calc EXCEPT !.rest = TakeOff(@), !.digit = Trunc(@ + 1)]
  /\ UNCHANGED <<at, sent, line, due>>

\* print_place_done and advance_place: the digit, but no leading zero, and the
\* next place.
NextPlace ==
  /\ at = "print_place"
  /\ S(calc.rest, Base ^ calc.place)
  /\ LET shown == calc.printed \/ calc.digit # 0
     IN  /\ sent' = IF shown THEN Append(sent, Printed(calc.digit)) ELSE sent
         /\ calc' = [calc EXCEPT !.printed = shown, !.digit = 0, !.place = @ - 1]
  /\ at' = IF calc.place = 1 THEN "print_ones" ELSE at
  /\ UNCHANGED <<line, due>>

\* main_loop clears the registers for the next expression.
PrintOnes ==
  /\ at = "print_ones"
  /\ sent' = sent \o <<Printed(calc.rest), "nl">>
  /\ at' = "read_a"
  /\ calc' = Cleared
  /\ UNCHANGED <<line, due>>

\* An altered end, against which LinesStartClean is validated: the registers
\* are not cleared after an error.
BadDirty ==
  /\ at = "bad"
  /\ sent' = <<"?", "nl">>
  /\ at' = "read_a"
  /\ UNCHANGED <<calc, line, due>>

Bad ==
  /\ at = "bad"
  /\ sent' = <<"?", "nl">>
  /\ at' = "read_a"
  /\ calc' = Cleared
  /\ UNCHANGED <<line, due>>

Program == Compute \/ CountPlace \/ NextPlace \/ PrintOnes \/ Bad
Host == \E ch \in Characters : ReadA(ch) \/ ReadB(ch) \/ ReadHalt(ch)
Halted == at = "halted" /\ UNCHANGED calcVars
CalcNext == Program \/ Host \/ Halted

\* The processor goes on executing; nothing is assumed of the host.
CalcSpec == CalcInit /\ [][CalcNext]_calcVars /\ WF_calcVars(Program)

-----------------------------------------------------------------------------
(* Properties. *)

CalcTypeOK ==
  /\ at \in Blocks
  /\ calc \in [a : Words, op : Operators \union {"none"}, b : Words, seenA : BOOLEAN,
            seenB : BOOLEAN, rest : Words, place : 0 .. TopExp, digit : Words,
            printed : BOOLEAN]
  /\ sent \in Seq(Characters \union {"?"})
  /\ line.left < MaxTyped /\ line.right < MaxTyped

\* Every expression in a line of its own gets its decimal result without leading
\* zeros, or ? when it is negative or too large, as far as InReach goes; the first
\* character that spoils a line gets a ? at once; the line HALT, and no expression,
\* stops the processor.
AnswersRight ==
  /\ at = "read_a" /\ sent # << >> /\ due # NotDue => sent = due
  /\ due = <<"halt">> => at = "halted"
  /\ at = "halted" => due \in {<<"halt">>, NotDue}

\* Whatever was typed before, a newline brings the program to the start of an
\* expression with nothing left over, once it has answered; and while a line is
\* an expression the program has read it as the reference does.
LinesStartClean ==
  /\ at \in Reading /\ line = NewLine => at = "read_a" /\ calc = Cleared
  /\ at \in {"read_a", "read_b"} /\ line.form \in {"left", "right"}
     /\ line.left < WordRange /\ line.right < WordRange =>
       /\ calc.a = line.left /\ calc.b = line.right /\ calc.op = line.op

\* A character is not waited for in vain: the program always comes back to a
\* poll, or has halted.
AnswerComes == []<>(at \in Reading \union {"halted"})
=============================================================================
