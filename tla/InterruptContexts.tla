------------------------- MODULE InterruptContexts --------------------------
(***************************************************************************)
(* What the interrupt mechanism promises to the two flows of control it    *)
(* separates.  There is a main program and at most one handler; one of     *)
(* them runs at a time.  The program counter of the main program is frozen *)
(* while the handler runs, unless the handler or a debugger rewrites it,   *)
(* and the handler returns exactly there.  How the hardware keeps the      *)
(* frozen counter, what requests an interrupt and when, is left open.      *)
(***************************************************************************)
CONSTANTS
  Addr,     \* instruction addresses
  Next4(_), \* the address of the following instruction
  Boot,     \* where the processor starts
  NoPc      \* the counter of a handler that is not active

VARIABLES
  handling, \* whether the handler runs
  mainPc,   \* where the main program is, or will resume
  isrPc,    \* where the handler is
  flow      \* where the last instruction itself went, interrupt or not

ctxVars == <<handling, mainPc, isrPc, flow>>

Init == /\ handling = FALSE
        /\ mainPc = Boot
        /\ isrPc = NoPc
        /\ flow = Boot

\* The main program executes one instruction.
RunMain == /\ ~handling
           /\ flow' \in Addr
           /\ mainPc' = flow'
           /\ UNCHANGED <<handling, isrPc>>

\* The main program executes one instruction and the handler preempts it.
Preempt == /\ ~handling
           /\ handling' = TRUE
           /\ flow' \in Addr
           /\ mainPc' = flow'
           /\ isrPc' \in Addr

\* The handler executes one instruction.
RunHandler == /\ handling
              /\ flow' \in Addr
              /\ isrPc' = flow'
              /\ UNCHANGED <<handling, mainPc>>

\* The handler rewrites the address it will return to, and goes on.
Redirect == /\ handling
            /\ mainPc' \in Addr
            /\ flow' = Next4(isrPc)
            /\ isrPc' = flow'
            /\ UNCHANGED handling

\* A debugger rewrites the address the handler will return to.
Amend == /\ handling
         /\ mainPc' \in Addr
         /\ flow' = isrPc
         /\ UNCHANGED <<handling, isrPc>>

\* The handler ends and the main program goes on exactly where it was.
Return == /\ handling
          /\ handling' = FALSE
          /\ flow' = mainPc
          /\ isrPc' = NoPc
          /\ UNCHANGED mainPc

\* The handler ends and is entered again before the main program runs.
Reenter == /\ handling
           /\ flow' = mainPc
           /\ isrPc' \in Addr
           /\ UNCHANGED <<handling, mainPc>>

\* The processor is reset.
Restart == /\ handling' = FALSE
           /\ mainPc' = Boot
           /\ isrPc' = NoPc
           /\ flow' = Boot

Next == \/ RunMain \/ Preempt
        \/ RunHandler \/ Redirect \/ Amend \/ Return \/ Reenter
        \/ Restart

Spec == Init /\ [][Next]_ctxVars
=============================================================================
