----------------------------- MODULE AtomicCode -----------------------------
(***************************************************************************)
(* What the writer of a main program may rely on when an interrupt handler *)
(* shares its stack and a counter: its pushes and pops are indivisible     *)
(* operations on a stack of its own, and an attempt to count either adds   *)
(* one indivisibly and says so, or changes nothing and says so.            *)
(***************************************************************************)
EXTENDS Sequences, SequencesExt

CONSTANTS
  Word,      \* values of a register
  Zero,      \* the status of a successful attempt
  One,       \* the status of a failed one, and the value the counter grows by
  Plus(_, _) \* addition of words

VARIABLES
  stk,      \* the stack of the main program
  acc,      \* the register it pushes from and pops to
  status,   \* what its last attempt to count reported
  counter   \* the shared counter

atomicVars == <<stk, acc, status, counter>>

Init ==
  /\ stk = << >>
  /\ acc = Zero /\ status = Zero /\ counter = Zero

SetAcc == acc' \in Word /\ UNCHANGED <<stk, status, counter>>

Push == stk' = Append(stk, acc) /\ UNCHANGED <<acc, status, counter>>

Pop ==
  /\ stk # << >>
  /\ acc' = Last(stk)
  /\ stk' = Front(stk)
  /\ UNCHANGED <<status, counter>>

Succeed ==
  /\ counter' = Plus(counter, One)
  /\ status' = Zero
  /\ UNCHANGED <<stk, acc>>

Fail == status' = One /\ UNCHANGED <<stk, acc, counter>>

\* The handler counts; nothing of the main program changes.
HandlerCounts ==
  /\ counter' = Plus(counter, One)
  /\ UNCHANGED <<stk, acc, status>>

Next == SetAcc \/ Push \/ Pop \/ Succeed \/ Fail \/ HandlerCounts

Spec == Init /\ [][Next]_atomicVars
=============================================================================
