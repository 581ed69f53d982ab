---------------------------- MODULE DebuggerGui -----------------------------
(***************************************************************************)
(* The threads of the graphical debugger (cli/debug_gui/actions_mixin.py)  *)
(* on one DebugController.  The event loop runs one handler at a time and  *)
(* may step the processor itself; a long run steps it on a worker thread   *)
(* and reports through a queue the event loop polls.  Nothing locks the    *)
(* processor: the flag _run_thread_active is all that keeps the two apart, *)
(* and the handlers of Step, Auto, of the register table and of the file   *)
(* menu do not look at it.                                                 *)
(*                                                                         *)
(* A step of Runner is cut where it reads or writes what the other thread  *)
(* writes.  Instructions are abstracted to what they do to pc and halted.  *)
(***************************************************************************)
EXTENDS Naturals, Sequences

CONSTANTS
  PcMod,     \* addresses are 0 .. PcMod - 1
  Bases,     \* load addresses the debugger may be started with
  RunLength, \* steps of a run: large ones go to the worker, small ones do not
  MaxSteps   \* bound: no run starts that could count beyond it

Addr == 0 .. PcMod - 1

ASSUME GuiAssumption ==
  /\ PcMod \in Nat \ {0}
  /\ Bases \subseteq Addr /\ Bases # {}
  /\ RunLength \in Nat \ {0}
  /\ MaxSteps \in Nat

VARIABLES
  pc, halted, \* of CPUState
  breaks,     \* break_pcs of the Runner
  loadAddr,   \* load_addr of the DebugController
  cycles,     \* CycleCounter
  active,     \* _run_thread_active
  queue,      \* _run_queue
  auto,       \* the Auto box
  thread,     \* where each thread is in a run, the event loop also in a reset
  retired,    \* history: instructions retired since the last reset
  fresh,      \* history: no step has begun since the last reset
  beside      \* history: what the event loop has done beside a worker since the
              \* last reset that no worker ran beside: steps, opening an image

cpuVars == <<pc, halted, cycles, retired, fresh, beside>>
uiVars  == <<breaks, loadAddr, active, auto>>
vars == <<cpuVars, uiVars, queue, thread>>

Threads == {"gui", "worker"}
Stages == {"idle", "loop", "read", "test", "execute", "advance", "count",
           "store", "clear", "wake", "home", "rewind"}

\* old is the program counter read when a step begins, seen the cycle count
\* read when it ends, left how many steps the run still has, by who began it.
\* met is history: the other thread was on the processor during this step, or
\* this reset.
Resting == [at |-> "idle", old |-> 0, seen |-> 0, left |-> 0, by |-> "user",
            met |-> FALSE]
Other(t) == IF t = "gui" THEN "worker" ELSE "gui"
Idle(t) == thread[t].at = "idle"

Init ==
  /\ loadAddr \in Bases
  /\ pc = loadAddr
  /\ halted = FALSE
  /\ breaks = {}
  /\ cycles = 0
  /\ active = FALSE
  /\ queue = << >>
  /\ auto = FALSE
  /\ thread = [t \in Threads |-> Resting]
  /\ retired = 0
  /\ fresh = TRUE
  /\ beside = {}

-----------------------------------------------------------------------------
(* A run, on either thread: run_n and Runner.step. *)

Goto(t, stage) == thread' = [thread EXCEPT ![t].at = stage]

\* The run is over.  That of the worker is reported, that of the event loop
\* returns to its handler, and _auto_tick stops Auto unless all went well.
Finish(t, ok) ==
  /\ thread' = [thread EXCEPT ![t] = Resting]
  /\ queue' = IF t = "worker" THEN Append(queue, "done") ELSE queue
  /\ auto' = (auto /\ (ok \/ thread[t].by = "user"))
  /\ UNCHANGED <<breaks, loadAddr, active>>

Loop(t) ==
  /\ thread[t].at = "loop"
  /\ IF halted \/ thread[t].left = 0
     THEN Finish(t, TRUE) /\ UNCHANGED cpuVars
     ELSE Goto(t, "read") /\ UNCHANGED <<cpuVars, uiVars, queue>>

ReadPc(t) ==
  /\ thread[t].at = "read"
  /\ IF halted
     THEN Finish(t, FALSE) /\ UNCHANGED cpuVars
     ELSE /\ thread' = [thread EXCEPT ![t].at = "test", ![t].old = pc,
                                        ![t].met = ~Idle(Other(t))]
          /\ fresh' = FALSE
          /\ UNCHANGED <<pc, halted, cycles, retired, beside, uiVars, queue>>

TestBreak(t) ==
  /\ thread[t].at = "test"
  /\ IF thread[t].old \in breaks
     THEN Finish(t, FALSE) /\ UNCHANGED cpuVars
     ELSE Goto(t, "execute") /\ UNCHANGED <<cpuVars, uiVars, queue>>

Execute(t) ==
  /\ thread[t].at = "execute"
  /\ \/ Goto(t, "advance") /\ UNCHANGED <<pc, halted>>
     \/ Goto(t, "count") /\ pc' \in Addr /\ UNCHANGED halted
     \/ Goto(t, "count") /\ halted' = TRUE /\ UNCHANGED pc
  /\ UNCHANGED <<cycles, retired, fresh, beside, uiVars, queue>>

\* The exception of a step becomes its result; a pre-indexed access on R31 has
\* moved pc before it.  An altered form for the validation of RunEnds: it ends
\* the thread and nothing is reported.
FaultSilent(t) ==
  /\ thread[t].at = "execute"
  /\ thread' = [thread EXCEPT ![t] = Resting]
  /\ UNCHANGED <<cpuVars, uiVars, queue>>
Fault(t) ==
  /\ thread[t].at = "execute"
  /\ pc' \in Addr
  /\ Finish(t, FALSE)
  /\ UNCHANGED <<halted, cycles, retired, fresh, beside>>

Advance(t) ==
  /\ thread[t].at = "advance"
  /\ pc' = IF halted THEN pc ELSE (thread[t].old + 1) % PcMod
  /\ Goto(t, "count")
  /\ UNCHANGED <<halted, cycles, retired, fresh, beside, uiVars, queue>>

\* CycleCounter.add() reads the total, then writes it.  The end of the step may
\* enter an interrupt handler.
Count(t) ==
  /\ thread[t].at = "count"
  /\ thread' = [thread EXCEPT ![t].at = "store", ![t].seen = cycles]
  /\ UNCHANGED <<cpuVars, uiVars, queue>>

Store(t) ==
  /\ thread[t].at = "store"
  /\ cycles' = thread[t].seen + 1
  /\ retired' = retired + 1
  /\ pc' \in Addr
  /\ thread' = [thread EXCEPT ![t].at = "loop", ![t].left = @ - 1]
  /\ UNCHANGED <<halted, fresh, beside, uiVars, queue>>

-----------------------------------------------------------------------------
(* reset_cpu() as the opening of an image calls it, assignment by          *)
(* assignment, since a worker may run beside it.                           *)

ClearRegs ==
  /\ thread["gui"].at = "clear"
  /\ pc' = 0
  /\ Goto("gui", "wake")
  /\ UNCHANGED <<halted, cycles, retired, fresh, beside, uiVars, queue>>

Wake ==
  /\ thread["gui"].at = "wake"
  /\ halted' = FALSE
  /\ Goto("gui", "home")
  /\ UNCHANGED <<pc, cycles, retired, fresh, beside, uiVars, queue>>

Home ==
  /\ thread["gui"].at = "home"
  /\ pc' = loadAddr
  /\ Goto("gui", "rewind")
  /\ UNCHANGED <<halted, cycles, retired, fresh, beside, uiVars, queue>>

Rewind ==
  /\ thread["gui"].at = "rewind"
  /\ cycles' = 0 /\ retired' = 0
  /\ fresh' = ~thread["gui"].met
  /\ beside' = IF thread["gui"].met THEN beside ELSE {}
  /\ thread' = [thread EXCEPT !["gui"] = Resting]
  /\ UNCHANGED <<pc, halted, uiVars, queue>>

-----------------------------------------------------------------------------
Running(t) ==
  \/ Loop(t) \/ ReadPc(t) \/ TestBreak(t) \/ Execute(t) \/ Fault(t)
  \/ Advance(t) \/ Count(t) \/ Store(t)
  \/ t = "gui" /\ (ClearRegs \/ Wake \/ Home \/ Rewind)

\* run_n begins at the head of its loop, step() within it.
Begun(stage, n, by) == [Resting EXCEPT !.at = stage, !.left = n, !.by = by]

\* A handler of the event loop that does not look at the flag begins what may
\* run beside a worker; the histories record that it does.
BeginBeside(what, stage, n, by) ==
  LET met == ~Idle("worker")
  IN  /\ thread' = [thread EXCEPT !["gui"] = [Begun(stage, n, by) EXCEPT !.met = met],
                                  !["worker"].met = met]
      /\ beside' = IF met THEN beside \union {what} ELSE beside

\* The bound on the runs: n more steps leave every count within MaxSteps.
Left == thread["gui"].left + thread["worker"].left
Counts == {retired, cycles, thread["gui"].seen, thread["worker"].seen}
Room(n) == \A c \in Counts : c + Left + n <= MaxSteps

-----------------------------------------------------------------------------
(* Handlers of the event loop. *)

Ready == Idle("gui")

\* _on_continue, and _on_run_n for a long run.  The altered form, for the
\* validation of FlagIsHonest and TypeOK, does not look at the flag.
ContinueBlind ==
  /\ Ready
  /\ Room(RunLength)
  /\ active' = TRUE
  /\ thread' = [thread EXCEPT !["worker"] = Begun("loop", RunLength, "user")]
  /\ UNCHANGED <<cpuVars, breaks, loadAddr, auto, queue>>
Continue == ContinueBlind /\ ~active

\* _on_step, which does not look at the flag.
StepOnce ==
  /\ Ready
  /\ Room(1)
  /\ BeginBeside("step", "read", 1, "user")
  /\ UNCHANGED <<pc, halted, cycles, retired, fresh, uiVars, queue>>

\* _on_run_n for a short run.  The altered form, for the validation of
\* StepsAreWhole, does not look at the flag.
RunShortBlind ==
  /\ Ready
  /\ Room(RunLength)
  /\ thread' = [thread EXCEPT !["gui"] = Begun("loop", RunLength, "user")]
  /\ UNCHANGED <<cpuVars, uiVars, queue>>
RunShort == RunShortBlind /\ ~active

\* _auto_tick, with a burst or without, which does not look at the flag.
AutoStep ==
  /\ IF halted
     THEN auto' = FALSE /\ UNCHANGED <<thread, beside>>
     ELSE /\ auto' = TRUE
          /\ \/ Room(1) /\ BeginBeside("step", "read", 1, "auto")
             \/ Room(RunLength) /\ BeginBeside("step", "loop", RunLength, "auto")
  /\ UNCHANGED <<pc, halted, cycles, retired, fresh, breaks, loadAddr, active,
                 queue>>

AutoTick == Ready /\ auto /\ AutoStep

\* _toggle_auto: switched on, it makes its first step at once.
StartAuto == Ready /\ ~auto /\ AutoStep
StopAuto ==
  /\ Ready
  /\ auto' = FALSE
  /\ UNCHANGED <<cpuVars, breaks, loadAddr, active, queue, thread>>

\* _poll_run_queue.
PollQueue ==
  /\ Ready
  /\ queue # << >>
  /\ queue' = << >>
  /\ active' = FALSE
  /\ UNCHANGED <<cpuVars, breaks, loadAddr, auto, thread>>

\* _on_reset, and _on_core_apply for another core: reset_cpu() at once, as no
\* worker runs.  An altered reset that does not look at the flag serves the
\* validation of ResetHolds and CyclesAreExact.
ResetBlind ==
  /\ Ready
  /\ auto' = FALSE
  /\ pc' = loadAddr /\ halted' = FALSE /\ cycles' = 0
  /\ retired' = 0 /\ fresh' = TRUE /\ beside' = {}
  /\ UNCHANGED <<breaks, loadAddr, active, queue, thread>>
Reset == ResetBlind /\ ~active

\* _open_hex and _open_binary, which do not look at the flag; the image is loaded
\* at the load address as it is.
Open ==
  /\ Ready
  /\ BeginBeside("image", "clear", 0, "user")
  /\ fresh' = FALSE
  /\ UNCHANGED <<pc, halted, cycles, retired, uiVars, queue>>

\* _on_reg_double on R31, which does not look at the flag.
EditPc(a) ==
  /\ Ready
  /\ pc' = a /\ fresh' = FALSE
  /\ thread' = [thread EXCEPT !["worker"].met = ~Idle("worker")]
  /\ UNCHANGED <<halted, cycles, retired, beside, uiVars, queue>>

\* Breakpoints, which the worker reads, may change during a run: in the listing
\* (_on_list_rclick) and in the list of breakpoints.
Breaks == Ready /\ UNCHANGED <<cpuVars, loadAddr, active, auto, queue, thread>>

ToggleBreak(a) ==
  Breaks /\ breaks' = IF a \in breaks THEN breaks \ {a} ELSE breaks \union {a}
AddBreak(a) == Breaks /\ breaks' = breaks \union {a}
RemoveBreak(a) == Breaks /\ a \in breaks /\ breaks' = breaks \ {a}
ClearBreaks == Breaks /\ breaks' = {}

User ==
  \/ Continue \/ StepOnce \/ RunShort \/ StartAuto \/ StopAuto \/ Reset
  \/ Open \/ ClearBreaks
  \/ \E a \in Addr : EditPc(a) \/ ToggleBreak(a) \/ AddBreak(a) \/ RemoveBreak(a)

Next == User \/ AutoTick \/ PollQueue \/ \E t \in Threads : Running(t)

Spec == Init /\ [][Next]_vars

\* Both threads run, and the event loop polls the queue every 100 ms.  A user
\* does as he likes, but does not keep the event loop busy for ever.
FairSpec ==
  /\ Spec
  /\ \A t \in Threads : WF_vars(Running(t))
  /\ SF_vars(PollQueue)

-----------------------------------------------------------------------------
ThreadState ==
  [at : Stages, old : Addr, seen : 0 .. MaxSteps, left : 0 .. RunLength,
   by : {"user", "auto"}, met : BOOLEAN]

TypeOK ==
  /\ pc \in Addr /\ loadAddr \in Bases /\ breaks \subseteq Addr
  /\ {halted, active, auto, fresh} \subseteq BOOLEAN
  /\ beside \subseteq {"step", "image"}
  /\ cycles \in 0 .. MaxSteps /\ retired \in 0 .. MaxSteps
  /\ queue \in Seq({"done"}) /\ Len(queue) <= 1
  /\ thread \in [Threads -> ThreadState]

\* The flag is raised exactly while the worker runs or its report waits, so
\* that no second worker starts and none is waited for in vain
\* (actions_mixin.py, _on_continue and _poll_run_queue).
FlagIsHonest == active <=> (thread["worker"].at # "idle" \/ queue # << >>)

\* Until a step writes the program counter nobody else has: the address it
\* fetched from is still the one it continues from (runner.py, step), whatever
\* the user does to breakpoints, runs and resets meanwhile.  A step, an Auto
\* tick, an edit of R31 or an image opened beside a worker tears at most the
\* step it falls into: the next one begun alone is whole again, with no reset.
StepsAreWhole ==
  \A t \in Threads :
    thread[t].at \in {"test", "execute", "advance"} /\ ~thread[t].met
      => pc = thread[t].old /\ ~halted

\* The cycle counter has one entry per retired instruction, whatever runs,
\* resets and images opened between runs do.  Two threads that step at once can
\* lose entries, as add() has no lock, but never invent one; only an image
\* opened during a run can, by a rewind between the read and the write of add()
\* (cycles.py).  A reset between two runs makes the count exact again.
CyclesAreExact ==
  /\ "image" \notin beside => cycles <= retired
  /\ beside = {} => cycles = retired

\* actions_mixin.py: "Wait for background run to finish before reset".  After a
\* reset, and after an image opened while no worker runs, the processor stays at
\* the load address with its counters at zero until a step begins.
ResetHolds == fresh => pc = loadAddr /\ ~halted /\ cycles = 0

\* Every background run ends and frees the buttons.
RunEnds == active ~> ~active
=============================================================================
