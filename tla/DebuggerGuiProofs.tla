------------------------- MODULE DebuggerGuiProofs -------------------------
(***************************************************************************)
(* The event loop and the worker of the graphical debugger, whatever the   *)
(* user does while the worker runs: for every address space, length of run *)
(* and number of steps.                                                    *)
(***************************************************************************)
EXTENDS DebuggerGui, TLAPS

Opening == {"clear", "wake", "home", "rewind"}

\* A worker that runs has not reported yet.
Reported == ~Idle("worker") => queue = << >>

\* Threads that run at once have met, by a step or an image of the event loop.
Together ==
  (\A t \in Threads : ~Idle(t)) => beside # {} /\ \A t \in Threads : thread[t].met

\* An image opened alone finds the processor as it has left it.
Opened ==
  /\ thread["worker"].at \notin Opening
  /\ thread["gui"].at \in Opening /\ thread["gui"].met => "image" \in beside
  /\ thread["gui"].at \in {"home", "rewind"} /\ ~thread["gui"].met => ~halted
  /\ thread["gui"].at = "rewind" /\ ~thread["gui"].met => pc = loadAddr

\* What a thread is about to store is one less than it may be; a run has steps
\* left; a processor that is as reset has not been touched.
Counted(t) ==
  /\ thread[t].at = "store" => /\ "image" \notin beside => thread[t].seen <= retired
                               /\ beside = {} => thread[t].seen = retired
  /\ thread[t].at \notin {"idle", "loop"} \union Opening => thread[t].left >= 1
  /\ fresh => thread[t].at \in {"idle", "loop", "read"}

GuiInv ==
  /\ TypeOK
  /\ FlagIsHonest
  /\ StepsAreWhole
  /\ CyclesAreExact
  /\ ResetHolds
  /\ Reported
  /\ Together
  /\ Opened
  /\ Room(0)
  /\ \A t \in Threads : Counted(t)

-----------------------------------------------------------------------------
(* The threads. *)

LEMMA Stacked ==
  /\ << >> \in Seq({"done"}) /\ Len(<< >>) = 0
  /\ Append(<< >>, "done") \in Seq({"done"})
  /\ Len(Append(<< >>, "done")) = 1
  /\ Append(<< >>, "done") # << >>
OBVIOUS

LEMMA RestingTypes ==
  /\ Resting \in ThreadState /\ Resting.at = "idle" /\ Resting.left = 0
  /\ Resting.seen = 0 /\ ~Resting.met
<1> DEFINE no == FALSE
<1>1. no \in BOOLEAN /\ ~no
  OBVIOUS
<1>2. Resting = [at |-> "idle", old |-> 0, seen |-> 0, left |-> 0, by |-> "user", met |-> no]
  BY DEF Resting
<1> HIDE DEF no
<1>3. Resting \in ThreadState /\ Resting.met = no
  BY <1>1, <1>2, GuiAssumption DEF ThreadState, Stages, Addr
<1> QED BY <1>1, <1>2, <1>3

LEMMA ThreadTypes ==
  ASSUME TypeOK, NEW t \in Threads
  PROVE  /\ thread[t].at \in Stages /\ thread[t].old \in Addr
         /\ thread[t].seen \in 0 .. MaxSteps /\ thread[t].left \in 0 .. RunLength
         /\ thread[t].by \in {"user", "auto"} /\ thread[t].met \in BOOLEAN
         /\ thread[t] \in ThreadState
BY DEF TypeOK, ThreadState

LEMMA Sums ==
  ASSUME NEW c \in Nat, NEW m \in Nat, NEW n \in Nat, NEW k \in Nat, c + m + n <= k
  PROVE  c + (n + m) + 0 <= k
OBVIOUS

\* The bound, thread by thread.
LEMMA Bounded ==
  ASSUME GuiInv, NEW t \in Threads, NEW u \in Threads, u # t
  PROVE  \A c \in {retired, cycles, thread[t].seen, thread[u].seen} :
           c \in Nat /\ c + thread[t].left + thread[u].left <= MaxSteps
<1>1. \A c \in {retired, cycles, thread["gui"].seen, thread["worker"].seen} :
        c + (thread["gui"].left + thread["worker"].left) + 0 <= MaxSteps
  BY DEF GuiInv, Room, Counts, Left
<1>2. /\ retired \in Nat /\ cycles \in Nat /\ MaxSteps \in Nat
      /\ \A x \in Threads : thread[x].seen \in Nat /\ thread[x].left \in Nat
  BY ThreadTypes, GuiAssumption DEF GuiInv, TypeOK
<1> QED BY <1>1, <1>2 DEF Threads

\* A thread takes a step and the other, which may be in a run, does not: what
\* remains to be shown.
LEMMA StageInv ==
  ASSUME GuiInv, NEW t \in Threads, ~Idle(t),
         NEW x \in ThreadState, thread' = [thread EXCEPT ![t] = x],
         UNCHANGED <<breaks, loadAddr, active, beside>>, auto' \in BOOLEAN,
         queue' = IF x.at = "idle" /\ t = "worker" THEN Append(queue, "done") ELSE queue,
         pc' \in Addr, halted' \in BOOLEAN, fresh' \in BOOLEAN,
         fresh' => fresh /\ UNCHANGED <<pc, halted, cycles>>,
         cycles' \in 0 .. MaxSteps, retired' \in 0 .. MaxSteps, retired <= retired',
         CyclesAreExact',
         x.at # "idle" /\ ~Idle(Other(t)) => x.met,
         x.at \in {"test", "execute", "advance"} /\ ~x.met => pc' = x.old /\ ~halted',
         x.at \in Opening => t = "gui" /\ x.met = thread[t].met /\ thread[t].at \in Opening,
         x.at \in {"home", "rewind"} /\ ~x.met => ~halted',
         x.at = "rewind" /\ ~x.met => pc' = loadAddr,
         x.at = "store" => /\ "image" \notin beside => x.seen <= retired'
                           /\ beside = {} => x.seen = retired',
         \A c \in {retired', cycles', x.seen, thread[Other(t)].seen} :
           c + x.left + thread[Other(t)].left <= MaxSteps,
         x.at \notin {"idle", "loop"} \union Opening => x.left >= 1,
         fresh' => x.at \in {"idle", "loop", "read"}
  PROVE  GuiInv'
<1> DEFINE u == Other(t)
<1>1. u \in Threads /\ u # t /\ Threads = {t, u} /\ (t = "gui" <=> u = "worker")
      /\ (t = "worker" <=> u = "gui")
  BY DEF Threads, Other
<1>2. thread'[t] = x /\ thread'[u] = thread[u]
  BY <1>1 DEF GuiInv, TypeOK
<1>3. /\ TypeOK /\ ThreadState = ThreadState' /\ beside' = beside
      /\ thread[u].at # "idle" => beside # {} /\ thread[u].met /\ thread[t].met
  BY <1>1 DEF GuiInv, Together, Idle, TypeOK
<1> HIDE DEF u
<1>4. TypeOK'
  <2>1. thread' \in [Threads -> ThreadState]
    BY DEF GuiInv, TypeOK
  <2>2. queue' \in Seq({"done"}) /\ Len(queue') <= 1
    BY <1>3, Stacked DEF GuiInv, TypeOK, Reported, Idle
  <2> QED BY <2>1, <2>2 DEF GuiInv, TypeOK
<1>5. FlagIsHonest' /\ Reported'
  <2>1. CASE t = "worker"
    BY <1>2, <2>1, Stacked DEF GuiInv, FlagIsHonest, Reported, Idle
  <2>2. CASE t # "worker"
    BY <1>1, <1>2, <2>2 DEF GuiInv, FlagIsHonest, Reported, Idle
  <2> QED BY <2>1, <2>2
<1>6. StepsAreWhole'
  BY <1>1, <1>2, <1>3, Zenon DEF StepsAreWhole
<1>7. ResetHolds'
  BY DEF GuiInv, ResetHolds
<1>8. Together'
  BY <1>1, <1>2, <1>3 DEF Together, Idle, u
<1>9. Opened'
  <2>1. CASE t = "worker"
    BY <1>1, <1>2, <1>3, <2>1 DEF GuiInv, Opened, Opening
  <2>2. CASE t = "gui"
    BY <1>1, <1>2, <1>3, <2>2 DEF GuiInv, Opened, Opening
  <2> QED BY <2>1, <2>2 DEF Threads
<1>10. Room(0)'
  <2>1. /\ retired' \in Nat /\ cycles' \in Nat /\ MaxSteps \in Nat
        /\ x.seen \in Nat /\ x.left \in Nat /\ thread[u].seen \in Nat /\ thread[u].left \in Nat
    BY <1>1, <1>3, ThreadTypes, GuiAssumption DEF ThreadState
  <2>2. \A c \in {retired', cycles', x.seen, thread[u].seen} :
          c \in Nat /\ c + x.left + thread[u].left <= MaxSteps
    BY <2>1 DEF u
  <2>3. CASE t = "worker"
    <3>1. \A c \in {retired', cycles', x.seen, thread[u].seen} :
            c + (thread[u].left + x.left) + 0 <= MaxSteps
      BY <2>1, <2>2, Sums
    <3> QED BY <1>1, <1>2, <2>3, <3>1 DEF Room, Counts, Left
  <2>4. CASE t = "gui"
    BY <1>1, <1>2, <2>1, <2>2, <2>4 DEF Room, Counts, Left
  <2> QED BY <2>3, <2>4 DEF Threads
<1>11. Counted(t)'
  BY <1>2, <1>3 DEF Counted
<1>12. Counted(u)'
  <2>1. thread[u].seen \in Nat /\ retired \in Nat /\ retired' \in Nat /\ Counted(u)
    BY <1>1, <1>3, ThreadTypes DEF GuiInv, TypeOK
  <2> QED BY <1>2, <1>3, <2>1 DEF Counted
<1> QED BY <1>1, <1>4, <1>5, <1>6, <1>7, <1>8, <1>9, <1>10, <1>11, <1>12 DEF GuiInv

LEMMA InitInv ==
  ASSUME Init
  PROVE  GuiInv
<1>1. \A t \in Threads : thread[t] = Resting
  BY DEF Init
<1>2. TypeOK
  <2>1. pc \in Addr /\ loadAddr \in Bases /\ breaks \subseteq Addr
    BY GuiAssumption DEF Init
  <2>2. {halted, active, auto, fresh} \subseteq BOOLEAN /\ beside \subseteq {"step", "image"}
    BY DEF Init
  <2>3. cycles \in 0 .. MaxSteps /\ retired \in 0 .. MaxSteps
    BY GuiAssumption DEF Init
  <2>4. queue \in Seq({"done"}) /\ Len(queue) <= 1
    BY Stacked DEF Init
  <2>5. thread \in [Threads -> ThreadState]
    BY RestingTypes DEF Init
  <2> QED BY <2>1, <2>2, <2>3, <2>4, <2>5 DEF TypeOK
<1>3. \A t \in Threads : thread[t].at = "idle" /\ thread[t].left = 0 /\ thread[t].seen = 0
  BY <1>1, RestingTypes
<1>4. FlagIsHonest /\ StepsAreWhole /\ CyclesAreExact /\ ResetHolds /\ Reported
  BY <1>3 DEF Init, FlagIsHonest, StepsAreWhole, CyclesAreExact, ResetHolds, Reported, Idle,
     Threads
<1>5. Together /\ Opened
  BY <1>3 DEF Together, Opened, Opening, Idle, Threads
<1>6. Room(0)
  BY <1>3, GuiAssumption DEF Init, Room, Counts, Left, Threads
<1>7. \A t \in Threads : Counted(t)
  BY <1>3 DEF Counted
<1> QED BY <1>2, <1>4, <1>5, <1>6, <1>7 DEF GuiInv

\* What the steps of a thread need of the invariant.
LEMMA Standing ==
  ASSUME GuiInv, NEW t \in Threads
  PROVE  /\ thread \in [Threads -> ThreadState] /\ thread[t] \in ThreadState
         /\ thread[t].at \in Stages /\ thread[t].old \in Addr
         /\ thread[t].seen \in 0 .. MaxSteps /\ thread[t].left \in 0 .. RunLength
         /\ thread[t].by \in {"user", "auto"} /\ thread[t].met \in BOOLEAN
         /\ pc \in Addr /\ halted \in BOOLEAN /\ fresh \in BOOLEAN /\ auto \in BOOLEAN
         /\ cycles \in 0 .. MaxSteps /\ retired \in 0 .. MaxSteps /\ MaxSteps \in Nat
         /\ CyclesAreExact /\ Counted(t)
         /\ Other(t) \in Threads /\ Other(t) # t /\ thread[Other(t)].left \in Nat
         /\ thread[Other(t)].seen \in Nat
         /\ ~Idle(t) /\ ~Idle(Other(t)) => thread[t].met
         /\ \A c \in {retired, cycles, thread[t].seen, thread[Other(t)].seen} :
              c \in Nat /\ c + thread[t].left + thread[Other(t)].left <= MaxSteps
<1>1. Other(t) \in Threads /\ Other(t) # t /\ Threads = {t, Other(t)}
  BY DEF Threads, Other
<1>2. ~Idle(t) /\ ~Idle(Other(t)) => thread[t].met
  BY <1>1 DEF GuiInv, Together
<1>3. thread[Other(t)].left \in Nat /\ thread[Other(t)].seen \in Nat
  BY <1>1, ThreadTypes, GuiAssumption DEF GuiInv
<1> QED BY <1>1, <1>2, <1>3, ThreadTypes, Bounded, GuiAssumption DEF GuiInv, TypeOK

\* The end of a run.
LEMMA FinishInv ==
  ASSUME GuiInv, NEW t \in Threads, ~Idle(t), NEW ok \in BOOLEAN,
         Finish(t, ok), UNCHANGED <<halted, cycles, retired, beside>>,
         fresh' \in BOOLEAN, fresh' => fresh /\ pc' = pc, pc' \in Addr
  PROVE  GuiInv'
<1>1. /\ Resting \in ThreadState /\ Resting.at = "idle" /\ Resting.left = 0
      /\ Resting.seen = 0 /\ ~Resting.met
  BY RestingTypes
<1>2. /\ auto' \in BOOLEAN /\ UNCHANGED <<breaks, loadAddr, active, beside>>
      /\ queue' = IF Resting.at = "idle" /\ t = "worker" THEN Append(queue, "done") ELSE queue
      /\ thread' = [thread EXCEPT ![t] = Resting]
  BY <1>1 DEF Finish
<1>3. /\ cycles \in 0 .. MaxSteps /\ retired \in 0 .. MaxSteps /\ retired <= retired
      /\ CyclesAreExact'
  BY Standing DEF CyclesAreExact
<1>4. \A c \in {retired', cycles', Resting.seen, thread[Other(t)].seen} :
        c + Resting.left + thread[Other(t)].left <= MaxSteps
  <2>1. /\ \A c \in {retired, cycles, thread[Other(t)].seen} :
             c \in Nat /\ c + thread[t].left + thread[Other(t)].left <= MaxSteps
        /\ thread[t].left \in Nat /\ thread[Other(t)].left \in Nat /\ MaxSteps \in Nat
    BY Standing, GuiAssumption
  <2> QED BY <1>1, <2>1
<1> QED BY <1>1, <1>2, <1>3, <1>4, Standing, StageInv DEF Opening, GuiInv, TypeOK

LEMMA StopInv ==
  ASSUME GuiInv, NEW t \in Threads, ~Idle(t), Finish(t, TRUE) \/ Finish(t, FALSE),
         UNCHANGED cpuVars
  PROVE  GuiInv'
<1>1. /\ UNCHANGED <<halted, cycles, retired, beside>>
      /\ fresh' \in BOOLEAN /\ (fresh' => fresh /\ pc' = pc) /\ pc' \in Addr
  BY Standing DEF cpuVars
<1>2. PICK ok \in BOOLEAN : Finish(t, ok)
  OBVIOUS
<1> QED BY <1>1, <1>2, FinishInv

\* A step that moves no count.
LEMMA MoveInv ==
  ASSUME GuiInv, NEW t \in Threads, ~Idle(t),
         NEW x \in ThreadState, thread' = [thread EXCEPT ![t] = x], x.at # "idle",
         UNCHANGED <<uiVars, queue, cycles, retired, beside>>,
         pc' \in Addr, halted' \in BOOLEAN, fresh' \in BOOLEAN,
         fresh' => fresh /\ UNCHANGED <<pc, halted>> /\ x.at \in {"loop", "read"},
         x.left = thread[t].left, x.seen \in {cycles, thread[t].seen},
         ~Idle(Other(t)) => x.met,
         x.at \in {"test", "execute", "advance"} /\ ~x.met => pc' = x.old /\ ~halted',
         x.at \in Opening => t = "gui" /\ x.met = thread[t].met /\ thread[t].at \in Opening,
         x.at \in {"home", "rewind"} /\ ~x.met => ~halted',
         x.at = "rewind" /\ ~x.met => pc' = loadAddr,
         x.at = "store" => x.seen = cycles,
         x.at \notin {"loop"} \union Opening => x.left >= 1
  PROVE  GuiInv'
<1>1. /\ cycles' \in 0 .. MaxSteps /\ retired' \in 0 .. MaxSteps /\ retired <= retired'
      /\ CyclesAreExact' /\ auto' \in BOOLEAN
      /\ UNCHANGED <<breaks, loadAddr, active, beside, cycles>>
  BY Standing DEF CyclesAreExact, uiVars
<1>2. queue' = IF x.at = "idle" /\ t = "worker" THEN Append(queue, "done") ELSE queue
  OBVIOUS
<1>3. x.at = "store" => /\ "image" \notin beside => x.seen <= retired'
                        /\ beside = {} => x.seen = retired'
  BY Standing DEF CyclesAreExact
<1>4. \A c \in {retired', cycles', x.seen, thread[Other(t)].seen} :
        c + x.left + thread[Other(t)].left <= MaxSteps
  BY Standing
<1> QED BY <1>1, <1>2, <1>3, <1>4, StageInv

\* The steps of a run.
LEMMA RunInv ==
  ASSUME GuiInv, NEW t \in Threads,
         Loop(t) \/ ReadPc(t) \/ TestBreak(t) \/ Execute(t) \/ Fault(t) \/ Advance(t)
           \/ Count(t) \/ Store(t)
  PROVE  GuiInv'
<1> DEFINE th == thread[t]
           u == Other(t)
<1>1. /\ th.at \in Stages /\ th.old \in Addr /\ th.seen \in 0 .. MaxSteps
      /\ th.left \in 0 .. RunLength /\ th.by \in {"user", "auto"} /\ th \in ThreadState
      /\ thread \in [Threads -> ThreadState] /\ th.met \in BOOLEAN
      /\ pc \in Addr /\ halted \in BOOLEAN /\ fresh \in BOOLEAN
  BY Standing
<1>2. /\ th.at \in {"test", "execute", "advance"} /\ ~th.met => pc = th.old /\ ~halted
      /\ Counted(t) /\ (~Idle(u) /\ ~Idle(t) => th.met)
  BY Standing DEF GuiInv, StepsAreWhole
<1>3. ~Idle(t)
  BY DEF Loop, ReadPc, TestBreak, Execute, Fault, Advance, Count, Store, Idle
<1> HIDE DEF u
<1>4. CASE Loop(t)
  <2>1. CASE halted \/ th.left = 0
    BY <1>3, <1>4, <2>1, StopInv DEF Loop
  <2>2. CASE ~(halted \/ th.left = 0)
    <3> DEFINE x == [th EXCEPT !.at = "read"]
    <3>1. /\ x \in ThreadState /\ x.at = "read" /\ x.left = th.left /\ x.seen = th.seen
          /\ x.met = th.met
          /\ thread' = [thread EXCEPT ![t] = x] /\ UNCHANGED <<cpuVars, uiVars, queue>>
      BY <1>1, <1>4, <2>2 DEF Loop, Goto, ThreadState, Stages
    <3>2. th.left >= 1
      BY <1>1, <2>2, GuiAssumption
    <3> HIDE DEF x
    <3> QED BY <1>1, <1>2, <1>3, <3>1, <3>2, MoveInv DEF cpuVars, Opening, u
  <2> QED BY <2>1, <2>2
<1>5. CASE ReadPc(t)
  <2>1. CASE halted
    BY <1>3, <1>5, <2>1, StopInv DEF ReadPc
  <2>2. CASE ~halted
    <3> DEFINE met == ~Idle(u)
               x == [th EXCEPT !.at = "test", !.old = pc, !.met = met]
    <3>1. met \in BOOLEAN
      OBVIOUS
    <3>2. thread' = [thread EXCEPT ![t] = x] /\ ~fresh' /\ fresh' \in BOOLEAN
          /\ UNCHANGED <<pc, halted, cycles, retired, beside, uiVars, queue>>
      BY <1>1, <1>5, <2>2 DEF ReadPc, u
    <3>3. met <=> ~Idle(u)
      OBVIOUS
    <3> HIDE DEF met
    <3>4. /\ x \in ThreadState /\ x.at = "test" /\ x.left = th.left /\ x.seen = th.seen
          /\ x.old = pc /\ x.met = met
      BY <1>1, <3>1 DEF ThreadState, Stages
    <3>5. th.left >= 1
      BY <1>2, <1>5 DEF Counted, ReadPc, Opening
    <3> HIDE DEF x
    <3> QED BY <1>1, <1>2, <1>3, <2>2, <3>2, <3>3, <3>4, <3>5, MoveInv DEF Opening, u
  <2> QED BY <2>1, <2>2
<1>6. CASE TestBreak(t)
  <2>1. CASE th.old \in breaks
    BY <1>3, <1>6, <2>1, StopInv DEF TestBreak
  <2>2. CASE th.old \notin breaks
    <3> DEFINE x == [th EXCEPT !.at = "execute"]
    <3>1. /\ x \in ThreadState /\ x.at = "execute" /\ x.left = th.left /\ x.seen = th.seen
          /\ x.old = th.old /\ x.met = th.met
          /\ thread' = [thread EXCEPT ![t] = x] /\ UNCHANGED <<cpuVars, uiVars, queue>>
          /\ th.at = "test"
      BY <1>1, <1>6, <2>2 DEF TestBreak, Goto, ThreadState, Stages
    <3>2. th.left >= 1 /\ ~fresh
      BY <1>2, <3>1 DEF Counted, Opening
    <3> HIDE DEF x
    <3> QED BY <1>1, <1>2, <1>3, <3>1, <3>2, MoveInv DEF cpuVars, Opening, u
  <2> QED BY <2>1, <2>2
<1>7. CASE Execute(t)
  <2>1. th.at = "execute" /\ th.left >= 1 /\ ~fresh
    BY <1>2, <1>7 DEF Execute, Counted, Opening
  <2>2. PICK stage \in {"advance", "count"} :
          /\ Goto(t, stage)
          /\ pc' \in Addr /\ halted' \in BOOLEAN
          /\ stage = "advance" => UNCHANGED <<pc, halted>>
    BY <1>1, <1>7 DEF Execute
  <2> DEFINE x == [th EXCEPT !.at = stage]
  <2>3. /\ x \in ThreadState /\ x.at = stage /\ x.left = th.left /\ x.seen = th.seen
        /\ x.old = th.old /\ x.met = th.met /\ thread' = [thread EXCEPT ![t] = x]
    BY <1>1, <2>2 DEF Goto, ThreadState, Stages
  <2>4. UNCHANGED <<cycles, retired, fresh, beside, uiVars, queue>>
    BY <1>7 DEF Execute
  <2> HIDE DEF x
  <2> QED BY <1>1, <1>2, <1>3, <2>1, <2>2, <2>3, <2>4, MoveInv DEF Opening, u
<1>8. CASE Fault(t)
  <2>1. ~fresh
    BY <1>2, <1>8 DEF Fault, Counted
  <2> QED BY <1>1, <1>3, <1>8, <2>1, FinishInv DEF Fault
<1>9. CASE Advance(t)
  <2>1. th.at = "advance" /\ th.left >= 1 /\ ~fresh
    BY <1>2, <1>9 DEF Advance, Counted, Opening
  <2> DEFINE x == [th EXCEPT !.at = "count"]
  <2>2. /\ x \in ThreadState /\ x.at = "count" /\ x.left = th.left /\ x.seen = th.seen
        /\ x.met = th.met /\ thread' = [thread EXCEPT ![t] = x]
        /\ UNCHANGED <<halted, cycles, retired, fresh, beside, uiVars, queue>>
    BY <1>1, <1>9 DEF Advance, Goto, ThreadState, Stages
  <2>3. pc' \in Addr
    BY <1>1, <1>9, GuiAssumption DEF Advance, Addr
  <2> HIDE DEF x
  <2> QED BY <1>1, <1>2, <1>3, <2>1, <2>2, <2>3, MoveInv DEF Opening, u
<1>10. CASE Count(t)
  <2>1. th.at = "count" /\ th.left >= 1 /\ ~fresh
    BY <1>2, <1>10 DEF Count, Counted, Opening
  <2> DEFINE x == [th EXCEPT !.at = "store", !.seen = cycles]
  <2>2. /\ x \in ThreadState /\ x.at = "store" /\ x.left = th.left /\ x.seen = cycles
        /\ x.met = th.met
        /\ thread' = [thread EXCEPT ![t] = x] /\ UNCHANGED <<cpuVars, uiVars, queue>>
    BY <1>1, <1>10, Standing DEF Count, ThreadState, Stages
  <2> HIDE DEF x
  <2> QED BY <1>1, <1>2, <1>3, <2>1, <2>2, MoveInv DEF cpuVars, Opening, u
<1>11. CASE Store(t)
  <2>1. th.at = "store" /\ th.left >= 1 /\ ~fresh
    BY <1>2, <1>11 DEF Store, Counted, Opening
  <2> DEFINE x == [th EXCEPT !.at = "loop", !.left = @ - 1]
  <2>2. x.at = "loop" /\ x.left = th.left - 1 /\ x.left \in 0 .. RunLength
        /\ x.seen = th.seen /\ x.met = th.met
    BY <1>1, <2>1, GuiAssumption DEF ThreadState
  <2>3. x \in ThreadState
    BY <1>1, <2>2 DEF ThreadState, Stages
  <2>4. /\ thread' = [thread EXCEPT ![t] = x] /\ pc' \in Addr
        /\ UNCHANGED <<halted, fresh, beside, breaks, loadAddr, active, auto, queue>>
        /\ cycles' = th.seen + 1 /\ retired' = retired + 1
    BY <1>1, <1>11, <2>1 DEF Store, uiVars
  <2> HIDE DEF x
  <2>5. /\ \A c \in {retired, cycles, th.seen, thread[u].seen} :
             c \in Nat /\ c + th.left + thread[u].left <= MaxSteps
        /\ th.left \in Nat /\ thread[u].left \in Nat /\ MaxSteps \in Nat
        /\ auto \in BOOLEAN
    BY Standing, GuiAssumption DEF u
  <2>6. /\ cycles' \in 0 .. MaxSteps /\ retired' \in 0 .. MaxSteps /\ retired <= retired'
        /\ \A c \in {retired', cycles', x.seen, thread[u].seen} :
             c + x.left + thread[u].left <= MaxSteps
    BY <2>1, <2>2, <2>4, <2>5
  <2>7. CyclesAreExact'
    BY <1>2, <2>1, <2>4, <2>5 DEF Counted, CyclesAreExact
  <2> QED BY <1>1, <1>2, <1>3, <2>1, <2>2, <2>3, <2>4, <2>5, <2>6, <2>7, StageInv DEF Opening, u
<1> QED BY <1>4, <1>5, <1>6, <1>7, <1>8, <1>9, <1>10, <1>11

\* The stages of an image opened by the event loop.
LEMMA OpeningInv ==
  ASSUME GuiInv, ClearRegs \/ Wake \/ Home
  PROVE  GuiInv'
<1> DEFINE th == thread["gui"]
<1>1. /\ th.at \in Stages /\ th \in ThreadState /\ th.met \in BOOLEAN
      /\ thread \in [Threads -> ThreadState] /\ "gui" \in Threads
      /\ pc \in Addr /\ halted \in BOOLEAN /\ fresh \in BOOLEAN
      /\ 0 \in Addr /\ loadAddr \in Addr
  BY Standing, GuiAssumption DEF Threads, GuiInv, TypeOK, Addr
<1>2. th.at \in Opening /\ ~Idle("gui") /\ (~Idle(Other("gui")) => th.met)
  BY <1>1, Standing DEF ClearRegs, Wake, Home, Opening, Idle
<1>3. ~fresh /\ (th.at \in {"home", "rewind"} /\ ~th.met => ~halted)
  BY <1>1, <1>2 DEF GuiInv, Counted, Opened, Opening
<1>4. PICK stage \in {"wake", "home", "rewind"} :
        /\ Goto("gui", stage)
        /\ UNCHANGED <<cycles, retired, fresh, beside, uiVars, queue>>
        /\ pc' \in Addr /\ halted' \in BOOLEAN
        /\ stage \in {"home", "rewind"} /\ ~th.met => ~halted'
        /\ stage = "rewind" => pc' = loadAddr
  <2>1. CASE ClearRegs
    BY <1>1, <2>1 DEF ClearRegs
  <2>2. CASE Wake
    BY <1>1, <2>2 DEF Wake
  <2>3. CASE Home
    BY <1>1, <1>3, <2>3 DEF Home
  <2> QED BY <2>1, <2>2, <2>3
<1> DEFINE x == [th EXCEPT !.at = stage]
<1>5. /\ x \in ThreadState /\ x.at = stage /\ x.left = th.left /\ x.seen = th.seen
      /\ x.met = th.met /\ thread' = [thread EXCEPT !["gui"] = x]
  BY <1>1, <1>4 DEF Goto, ThreadState, Stages
<1> HIDE DEF x
<1> QED BY <1>1, <1>2, <1>3, <1>4, <1>5, MoveInv DEF Opening

LEMMA RewindInv ==
  ASSUME GuiInv, Rewind
  PROVE  GuiInv'
<1> DEFINE th == thread["gui"]
           wo == thread["worker"]
<1>1. /\ TypeOK /\ th.at = "rewind" /\ ~Idle("gui") /\ Opened /\ Counted("worker")
      /\ th.met \in BOOLEAN /\ Threads = {"gui", "worker"}
  BY ThreadTypes DEF GuiInv, Rewind, Idle, Threads
<1>2. IF th.met THEN "image" \in beside
      ELSE wo.at = "idle" /\ pc = loadAddr /\ ~halted
  BY <1>1 DEF GuiInv, Opened, Opening, Together, Idle
<1>3. /\ cycles' = 0 /\ retired' = 0 /\ fresh' = ~th.met
      /\ beside' = IF th.met THEN beside ELSE {}
      /\ UNCHANGED <<pc, halted, breaks, loadAddr, active, auto, queue>>
      /\ thread' = [thread EXCEPT !["gui"] = Resting]
  BY DEF Rewind, uiVars
<1>4. /\ Resting \in ThreadState /\ Resting.at = "idle" /\ Resting.left = 0
      /\ Resting.seen = 0
  BY RestingTypes
<1>5. thread'["gui"] = Resting /\ thread'["worker"] = wo
  BY <1>1, <1>3 DEF TypeOK
<1>6. TypeOK'
  <2>1. thread' \in [Threads -> ThreadState]
    BY <1>1, <1>3, <1>4 DEF TypeOK
  <2>2. 0 \in 0 .. MaxSteps /\ fresh' \in BOOLEAN
    BY <1>1, <1>3, GuiAssumption
  <2>3. beside' \subseteq {"step", "image"}
    BY <1>1, <1>3 DEF TypeOK
  <2> QED BY <1>1, <1>3, <2>1, <2>2, <2>3 DEF TypeOK
<1>7. FlagIsHonest' /\ Reported' /\ Together' /\ Opened'
  BY <1>1, <1>3, <1>4, <1>5 DEF GuiInv, FlagIsHonest, Reported, Together, Opened, Opening, Idle
<1>8. StepsAreWhole'
  <2>1. wo.at \in {"test", "execute", "advance"} /\ ~wo.met => pc = wo.old /\ ~halted
    BY <1>1 DEF GuiInv, StepsAreWhole
  <2> QED BY <1>1, <1>3, <1>4, <1>5, <2>1, Zenon DEF StepsAreWhole
<1>9. CyclesAreExact' /\ ResetHolds'
  <2>1. cycles' <= retired' /\ cycles' = retired'
    BY <1>3
  <2>2. fresh' => pc' = loadAddr' /\ ~halted' /\ cycles' = 0
    <3>1. CASE th.met
      BY <1>3, <3>1
    <3>2. CASE ~th.met
      BY <1>2, <1>3, <3>2
    <3> QED BY <1>1, <3>1, <3>2
  <2> QED BY <2>1, <2>2 DEF CyclesAreExact, ResetHolds
<1>10. Room(0)'
  <2>1. /\ retired \in Nat /\ th.left \in Nat /\ wo.left \in Nat /\ wo.seen \in Nat
        /\ MaxSteps \in Nat
    BY <1>1, ThreadTypes, GuiAssumption DEF TypeOK
  <2>2. \A c \in {retired, wo.seen} : c + (th.left + wo.left) + 0 <= MaxSteps
    BY DEF GuiInv, Room, Counts, Left
  <2>3. \A c \in {0, wo.seen} : c + (0 + wo.left) + 0 <= MaxSteps
    BY <2>1, <2>2
  <2> QED BY <1>3, <1>4, <1>5, <2>3 DEF Room, Counts, Left
<1>11. \A t \in Threads : Counted(t)'
  BY <1>1, <1>2, <1>3, <1>4, <1>5 DEF Counted
<1> QED BY <1>6, <1>7, <1>8, <1>9, <1>10, <1>11 DEF GuiInv

LEMMA RunningInv ==
  ASSUME GuiInv, NEW t \in Threads, Running(t)
  PROVE  GuiInv'
BY RunInv, OpeningInv, RewindInv DEF Running

-----------------------------------------------------------------------------
(* The handlers of the event loop. *)

\* Without the flag no worker runs and no report waits.
LEMMA Quiet ==
  ASSUME GuiInv, ~active
  PROVE  thread["worker"].at = "idle" /\ queue = << >>
BY DEF GuiInv, FlagIsHonest

\* The event loop rests and begins something, or not, beside a worker that it may
\* mark as met.
LEMMA BesideInv ==
  ASSUME GuiInv, Idle("gui"), NEW g \in ThreadState, NEW w \in ThreadState,
         thread' = [thread EXCEPT !["gui"] = g, !["worker"] = w],
         g.at \in {"idle", "loop", "read", "clear"},
         w.at = thread["worker"].at, w.old = thread["worker"].old,
         w.seen = thread["worker"].seen, w.left = thread["worker"].left,
         w.at # "idle" /\ g.at # "idle" => w.met /\ g.met /\ beside' # {},
         w.at # "idle" /\ ~w.met => ~thread["worker"].met /\ pc' = pc,
         beside \subseteq beside', beside' \subseteq {"step", "image"},
         pc' \in Addr, auto' \in BOOLEAN, fresh' \in BOOLEAN,
         fresh' => fresh /\ pc' = pc /\ g.at # "clear",
         UNCHANGED <<halted, cycles, retired, breaks, loadAddr, active, queue>>,
         g.at = "clear" /\ g.met => "image" \in beside',
         g.at = "read" => g.left >= 1,
         \A c \in {retired, cycles, g.seen, w.seen} : c + (g.left + w.left) + 0 <= MaxSteps
  PROVE  GuiInv'
<1> DEFINE wo == thread["worker"]
<1>1. /\ TypeOK /\ Threads = {"gui", "worker"} /\ Counted("worker")
      /\ wo.at \notin Opening /\ Room(0) /\ thread["gui"].at = "idle"
      /\ wo.at \in {"test", "execute", "advance"} /\ ~wo.met => pc = wo.old /\ ~halted
  BY DEF GuiInv, Opened, Idle, Threads, StepsAreWhole
<1>2. thread'["gui"] = g /\ thread'["worker"] = w
  BY <1>1 DEF TypeOK
<1> HIDE DEF wo
<1>3. TypeOK'
  <2>1. thread' \in [Threads -> ThreadState]
    BY <1>1 DEF TypeOK
  <2> QED BY <1>1, <2>1 DEF TypeOK
<1>4. FlagIsHonest' /\ Reported' /\ Together' /\ Opened'
  BY <1>1, <1>2 DEF GuiInv, FlagIsHonest, Reported, Together, Opened, Opening, Idle, wo
<1>5. StepsAreWhole'
  <2>1. w.at \in {"test", "execute", "advance"} /\ ~w.met => pc' = w.old /\ ~halted'
    BY <1>1 DEF wo
  <2>2. g.at \notin {"test", "execute", "advance"}
    OBVIOUS
  <2> QED BY <1>1, <1>2, <2>1, <2>2, Zenon DEF StepsAreWhole
<1>6. CyclesAreExact' /\ ResetHolds'
  BY DEF GuiInv, CyclesAreExact, ResetHolds
<1>7. Room(0)'
  BY <1>2 DEF Room, Counts, Left
<1>8. Counted("gui")'
  BY <1>2 DEF Counted, Opening
<1>9. Counted("worker")'
  BY <1>1, <1>2 DEF Counted, wo
<1> QED BY <1>1, <1>3, <1>4, <1>5, <1>6, <1>7, <1>8, <1>9 DEF GuiInv

LEMMA BegunTypes ==
  ASSUME NEW stage \in Stages, NEW n \in 0 .. RunLength, NEW by \in {"user", "auto"},
         NEW met \in BOOLEAN
  PROVE  LET x == Begun(stage, n, by)
             y == [x EXCEPT !.met = met]
         IN  /\ x \in ThreadState /\ x.at = stage /\ x.left = n /\ x.seen = 0
             /\ y \in ThreadState /\ y.at = stage /\ y.left = n /\ y.seen = 0 /\ y.met = met
BY RestingTypes DEF Begun, ThreadState

LEMMA LoopBegun ==
  LET x == Begun("loop", RunLength, "user")
  IN  x \in ThreadState /\ x.at = "loop" /\ x.left = RunLength /\ x.seen = 0
<1>1. "loop" \in Stages /\ RunLength \in 0 .. RunLength
  BY GuiAssumption DEF Stages
<1> QED BY <1>1, RestingTypes DEF Begun, ThreadState

\* The bound leaves room for the run that begins.
LEMMA RoomBegun ==
  ASSUME GuiInv, NEW n \in 0 .. RunLength, Room(n), NEW t \in Threads
  PROVE  \A c \in {retired, cycles, 0, thread[Other(t)].seen} :
           /\ c + (n + thread[Other(t)].left) + 0 <= MaxSteps
           /\ c + (thread[Other(t)].left + n) + 0 <= MaxSteps
<1> DEFINE l == thread[t].left
           m == thread[Other(t)].left
<1>1. /\ l \in Nat /\ m \in Nat /\ n \in Nat /\ MaxSteps \in Nat /\ retired \in Nat
      /\ \A c \in {retired, cycles, 0, thread[Other(t)].seen} : c \in Nat
  BY Standing, GuiAssumption
<1>2. \A c \in {retired, cycles, thread[Other(t)].seen} :
        c + (thread["gui"].left + thread["worker"].left) + n <= MaxSteps
  BY DEF Room, Counts, Left, Other, Threads
<1>3. (t = "gui" /\ Other(t) = "worker") \/ (t = "worker" /\ Other(t) = "gui")
  BY DEF Threads, Other
<1>4. \A c \in {retired, cycles, 0, thread[Other(t)].seen} : c + (l + m) + n <= MaxSteps
  <2>1. CASE t = "gui"
    BY <1>1, <1>2, <1>3, <2>1
  <2>2. CASE t = "worker"
    BY <1>1, <1>2, <1>3, <2>2
  <2> QED BY <1>3, <2>1, <2>2
<1> HIDE DEF l
<1> QED BY <1>1, <1>4

LEMMA BeginInv ==
  ASSUME GuiInv, Idle("gui"), NEW what \in {"step", "image"},
         NEW stage \in {"loop", "read", "clear"}, NEW n \in 0 .. RunLength,
         NEW by \in {"user", "auto"}, BeginBeside(what, stage, n, by), Room(n),
         stage # "clear" => n >= 1, stage = "clear" => what = "image",
         auto' \in BOOLEAN, fresh' \in BOOLEAN, fresh' => fresh /\ stage # "clear",
         UNCHANGED <<pc, halted, cycles, retired, breaks, loadAddr, active, queue>>
  PROVE  GuiInv'
<1> DEFINE met == ~Idle("worker")
           wo == thread["worker"]
           g == [Begun(stage, n, by) EXCEPT !.met = met]
           w == [wo EXCEPT !.met = met]
<1>1. met \in BOOLEAN /\ stage \in Stages /\ "gui" \in Threads /\ "worker" \in Threads
      /\ Other("gui") = "worker" /\ TypeOK
  BY DEF Stages, Threads, Other, GuiInv
<1>2. /\ wo \in ThreadState /\ thread \in [Threads -> ThreadState]
      /\ pc \in Addr /\ beside \subseteq {"step", "image"}
  BY <1>1, ThreadTypes DEF TypeOK
<1>3. /\ thread' = [thread EXCEPT !["gui"] = g, !["worker"] = w]
      /\ beside' = IF met THEN beside \union {what} ELSE beside
      /\ met <=> wo.at # "idle"
  BY <1>2 DEF BeginBeside, Idle, Threads
<1> HIDE DEF met
<1>4. g \in ThreadState /\ g.at = stage /\ g.left = n /\ g.seen = 0 /\ g.met = met
  BY <1>1, BegunTypes
<1>5. /\ w \in ThreadState /\ w.at = wo.at /\ w.old = wo.old /\ w.seen = wo.seen
      /\ w.left = wo.left /\ w.met = met
  BY <1>1, <1>2 DEF ThreadState
<1> HIDE DEF g, w
<1>6. \A c \in {retired, cycles, 0, wo.seen} : c + (n + wo.left) + 0 <= MaxSteps
  BY <1>1, RoomBegun
<1> QED BY <1>1, <1>2, <1>3, <1>4, <1>5, <1>6, BesideInv

\* A long run begins while nobody runs.
LEMMA ContinueInv ==
  ASSUME GuiInv, Continue
  PROVE  GuiInv'
<1> DEFINE x == Begun("loop", RunLength, "user")
           me == thread["gui"]
<1>1. /\ Threads = {"gui", "worker"} /\ TypeOK /\ thread["gui"].at = "idle"
      /\ thread["worker"].at = "idle" /\ queue = << >>
  BY Quiet DEF Continue, ContinueBlind, Ready, Idle, GuiInv, Threads
<1>2. x \in ThreadState /\ x.at = "loop" /\ x.left = RunLength /\ x.seen = 0
  BY LoopBegun
<1>3. /\ thread' = [thread EXCEPT !["worker"] = x] /\ active' = TRUE
      /\ UNCHANGED <<pc, halted, cycles, retired, fresh, beside, breaks, loadAddr, auto, queue>>
  BY DEF Continue, ContinueBlind, cpuVars
<1> HIDE DEF x
<1>4. thread'["worker"] = x /\ thread'["gui"] = thread["gui"]
  BY <1>1, <1>3 DEF TypeOK
<1>5. TypeOK'
  <2>1. thread' \in [Threads -> ThreadState]
    BY <1>1, <1>2, <1>3 DEF TypeOK
  <2> QED BY <1>1, <1>3, <2>1 DEF TypeOK
<1>6. FlagIsHonest' /\ Reported' /\ Together' /\ Opened'
  BY <1>1, <1>2, <1>3, <1>4 DEF GuiInv, FlagIsHonest, Reported, Together, Opened, Opening, Idle
<1>7. StepsAreWhole' /\ CyclesAreExact' /\ ResetHolds'
  BY <1>1, <1>2, <1>3, <1>4 DEF GuiInv, StepsAreWhole, CyclesAreExact, ResetHolds
<1>8. Room(0)'
  <2>1. \A c \in {retired, cycles, 0, me.seen} : c + (me.left + RunLength) + 0 <= MaxSteps
    BY <1>1, RoomBegun, GuiAssumption DEF Other, Continue, ContinueBlind
  <2> QED BY <1>2, <1>3, <1>4, <2>1 DEF Room, Counts, Left
<1>9. \A t \in Threads : Counted(t)'
  BY <1>1, <1>2, <1>3, <1>4 DEF Counted, Opening
<1> QED BY <1>5, <1>6, <1>7, <1>8, <1>9 DEF GuiInv

\* A short run begins while no worker runs.
LEMMA RunShortInv ==
  ASSUME GuiInv, RunShort
  PROVE  GuiInv'
<1> DEFINE g == Begun("loop", RunLength, "user")
           wo == thread["worker"]
<1>1. /\ TypeOK /\ Idle("gui") /\ wo.at = "idle" /\ wo \in ThreadState
      /\ "gui" \in Threads /\ Other("gui") = "worker" /\ thread \in [Threads -> ThreadState]
  BY Quiet, ThreadTypes DEF RunShort, RunShortBlind, Ready, GuiInv, Threads, TypeOK, Other
<1>2. g \in ThreadState /\ g.at = "loop" /\ g.left = RunLength /\ g.seen = 0
  BY LoopBegun
<1>3. /\ thread' = [thread EXCEPT !["gui"] = g]
      /\ UNCHANGED <<cpuVars, uiVars, queue>>
  BY DEF RunShort, RunShortBlind
<1> HIDE DEF g
<1>4. thread' = [thread EXCEPT !["gui"] = g, !["worker"] = wo]
  BY <1>1, <1>3 DEF Threads
<1>5. \A c \in {retired, cycles, 0, wo.seen} : c + (RunLength + wo.left) + 0 <= MaxSteps
  BY <1>1, RoomBegun, GuiAssumption DEF RunShort, RunShortBlind
<1>6. /\ beside \subseteq {"step", "image"} /\ beside' = beside /\ pc' = pc /\ pc \in Addr
      /\ auto' \in BOOLEAN /\ fresh' \in BOOLEAN /\ (fresh' => fresh)
      /\ UNCHANGED <<halted, cycles, retired, breaks, loadAddr, active, queue>>
  BY <1>1, <1>3 DEF TypeOK, cpuVars, uiVars
<1> QED BY <1>1, <1>2, <1>4, <1>5, <1>6, BesideInv

\* The user edits the program counter or touches the Auto box.
LEMMA EditInv ==
  ASSUME GuiInv, Idle("gui"), NEW met \in BOOLEAN,
         thread' = [thread EXCEPT !["worker"].met = met],
         ~Idle("worker") /\ ~met => pc' = pc /\ ~thread["worker"].met,
         pc' \in Addr, auto' \in BOOLEAN, fresh' \in BOOLEAN, fresh' => fresh /\ pc' = pc,
         UNCHANGED <<halted, cycles, retired, beside, breaks, loadAddr, active, queue>>
  PROVE  GuiInv'
<1> DEFINE me == thread["gui"]
           wo == thread["worker"]
           w == [wo EXCEPT !.met = met]
<1>1. /\ TypeOK /\ "gui" \in Threads /\ "worker" \in Threads /\ Room(0)
      /\ wo \in ThreadState /\ me \in ThreadState /\ me.at = "idle"
      /\ thread \in [Threads -> ThreadState] /\ beside \subseteq {"step", "image"}
  BY ThreadTypes DEF GuiInv, Threads, TypeOK, Idle
<1>2. /\ w \in ThreadState /\ w.at = wo.at /\ w.old = wo.old /\ w.seen = wo.seen
      /\ w.left = wo.left /\ w.met = met
  BY <1>1 DEF ThreadState
<1>3. thread' = [thread EXCEPT !["gui"] = me, !["worker"] = w]
  BY <1>1
<1>4. \A c \in {retired, cycles, me.seen, w.seen} : c + (me.left + w.left) + 0 <= MaxSteps
  BY <1>1, <1>2 DEF Room, Counts, Left
<1>5. w.at # "idle" /\ ~w.met => ~wo.met /\ pc' = pc
  BY <1>2 DEF Idle
<1> HIDE DEF w, me, wo
<1>6. Idle("gui") /\ me.at \in {"idle", "loop", "read", "clear"}
  BY <1>1
<1> QED BY <1>1, <1>2, <1>3, <1>4, <1>5, <1>6, BesideInv DEF me, wo

\* A reset while nobody runs.
LEMMA ResetInv ==
  ASSUME GuiInv, Reset
  PROVE  GuiInv'
<1>1. /\ Threads = {"gui", "worker"} /\ TypeOK /\ \A t \in Threads : thread[t].at = "idle"
  BY Quiet DEF Reset, ResetBlind, Ready, Idle, GuiInv, Threads
<1>2. /\ pc' = loadAddr /\ halted' = FALSE /\ cycles' = 0 /\ retired' = 0 /\ fresh' = TRUE
      /\ beside' = {} /\ auto' = FALSE
      /\ UNCHANGED <<breaks, loadAddr, active, queue, thread>>
  BY DEF Reset, ResetBlind
<1>3. TypeOK'
  <2>1. pc' \in Addr /\ 0 \in 0 .. MaxSteps /\ beside' \subseteq {"step", "image"}
    BY <1>1, <1>2, GuiAssumption DEF TypeOK
  <2>2. {halted', active', auto', fresh'} \subseteq BOOLEAN
    BY <1>1, <1>2 DEF TypeOK
  <2> QED BY <1>1, <1>2, <2>1, <2>2 DEF TypeOK
<1>4. FlagIsHonest' /\ Reported' /\ Together' /\ Opened'
  BY <1>1, <1>2 DEF GuiInv, FlagIsHonest, Reported, Together, Opened, Opening, Idle
<1>5. StepsAreWhole' /\ CyclesAreExact' /\ ResetHolds' /\ \A t \in Threads : Counted(t)'
  BY <1>1, <1>2 DEF StepsAreWhole, CyclesAreExact, ResetHolds, Counted
<1>6. Room(0)'
  <2>1. \A c \in {retired, thread["gui"].seen, thread["worker"].seen} :
          c + (thread["gui"].left + thread["worker"].left) + 0 <= MaxSteps
    BY DEF GuiInv, Room, Counts, Left
  <2>2. /\ retired \in Nat /\ thread["gui"].left \in Nat /\ thread["worker"].left \in Nat
        /\ MaxSteps \in Nat
    BY <1>1, ThreadTypes, GuiAssumption DEF TypeOK
  <2>3. 0 + (thread["gui"].left + thread["worker"].left) + 0 <= MaxSteps
    BY <2>1, <2>2
  <2> QED BY <1>2, <2>1, <2>3 DEF Room, Counts, Left
<1> QED BY <1>3, <1>4, <1>5, <1>6 DEF GuiInv

\* The report is taken.
LEMMA PollInv ==
  ASSUME GuiInv, PollQueue
  PROVE  GuiInv'
<1>1. thread["worker"].at = "idle" /\ queue' = << >> /\ ~active' /\ active' \in BOOLEAN
  BY DEF PollQueue, GuiInv, Reported, Idle
<1>2. UNCHANGED <<pc, halted, cycles, retired, fresh, beside, breaks, loadAddr, auto, thread>>
  BY DEF PollQueue, cpuVars
<1>3. TypeOK'
  BY <1>1, <1>2, Stacked DEF GuiInv, TypeOK
<1>4. FlagIsHonest' /\ Reported'
  BY <1>1, <1>2 DEF FlagIsHonest, Reported, Idle
<1> QED BY <1>2, <1>3, <1>4 DEF GuiInv, StepsAreWhole, CyclesAreExact, ResetHolds, Together,
        Opened, Opening, Room, Counts, Left, Counted, Idle

LEMMA BreaksInv ==
  ASSUME GuiInv, Breaks, breaks' \subseteq Addr
  PROVE  GuiInv'
<1>1. /\ UNCHANGED <<pc, halted, cycles, retired, fresh, beside, loadAddr, active, auto>>
      /\ UNCHANGED <<queue, thread>>
  BY DEF Breaks, cpuVars
<1> QED BY <1>1 DEF GuiInv, TypeOK, FlagIsHonest, StepsAreWhole, CyclesAreExact,
        ResetHolds, Reported, Together, Opened, Opening, Room, Counts, Left, Counted, Idle

\* The Auto box, switched by the user or by its own tick.
LEMMA AutoInv ==
  ASSUME GuiInv, StartAuto \/ StopAuto \/ AutoTick
  PROVE  GuiInv'
<1>1. /\ Idle("gui") /\ pc \in Addr /\ fresh \in BOOLEAN /\ thread["worker"].met \in BOOLEAN
      /\ thread \in [Threads -> ThreadState] /\ 1 \in 0 .. RunLength
      /\ RunLength \in 0 .. RunLength /\ RunLength >= 1 /\ Threads = {"gui", "worker"}
  BY ThreadTypes, GuiAssumption
     DEF StartAuto, StopAuto, AutoTick, Ready, GuiInv, TypeOK, Threads
<1>2. thread = [thread EXCEPT !["worker"].met = thread["worker"].met]
  BY <1>1 DEF ThreadState
<1>3. ASSUME auto' = FALSE, UNCHANGED <<cpuVars, breaks, loadAddr, active, queue, thread>>
      PROVE  GuiInv'
  BY <1>1, <1>2, <1>3, EditInv DEF cpuVars
<1>4. ASSUME AutoStep, ~halted
      PROVE  GuiInv'
  <2>1. /\ auto' \in BOOLEAN /\ fresh' \in BOOLEAN /\ (fresh' => fresh)
        /\ UNCHANGED <<pc, halted, cycles, retired, breaks, loadAddr, active, queue>>
    BY <1>1, <1>4 DEF AutoStep
  <2>2. CASE Room(1) /\ BeginBeside("step", "read", 1, "auto")
    BY <1>1, <2>1, <2>2, BeginInv
  <2>3. CASE Room(RunLength) /\ BeginBeside("step", "loop", RunLength, "auto")
    BY <1>1, <2>1, <2>3, BeginInv
  <2> QED BY <1>4, <2>2, <2>3 DEF AutoStep
<1>5. CASE AutoStep /\ halted
  BY <1>3, <1>5 DEF AutoStep, cpuVars
<1> QED BY <1>3, <1>4, <1>5 DEF StartAuto, StopAuto, AutoTick

LEMMA HandlersInv ==
  ASSUME GuiInv, User \/ AutoTick \/ PollQueue
  PROVE  GuiInv'
<1>1. /\ pc \in Addr /\ fresh \in BOOLEAN /\ auto \in BOOLEAN /\ breaks \subseteq Addr
      /\ 1 \in 0 .. RunLength /\ 0 \in 0 .. RunLength /\ RunLength >= 1
  BY GuiAssumption DEF GuiInv, TypeOK
<1>2. CASE StepOnce
  <2>1. /\ Idle("gui") /\ Room(1) /\ BeginBeside("step", "read", 1, "user")
        /\ UNCHANGED <<pc, halted, cycles, retired, fresh, breaks, loadAddr, active, queue>>
        /\ auto' \in BOOLEAN /\ fresh' \in BOOLEAN /\ (fresh' => fresh)
    BY <1>1, <1>2 DEF StepOnce, Ready, uiVars
  <2> QED BY <1>1, <2>1, BeginInv
<1>3. CASE Open
  <2>1. /\ Idle("gui") /\ Room(0) /\ BeginBeside("image", "clear", 0, "user")
        /\ UNCHANGED <<pc, halted, cycles, retired, breaks, loadAddr, active, queue>>
        /\ auto' \in BOOLEAN /\ fresh' \in BOOLEAN /\ ~fresh'
    BY <1>1, <1>3 DEF Open, Ready, uiVars, GuiInv
  <2> QED BY <1>1, <2>1, BeginInv
<1>4. ASSUME NEW a \in Addr, EditPc(a)
      PROVE  GuiInv'
  <2> DEFINE met == ~Idle("worker")
  <2>1. /\ thread' = [thread EXCEPT !["worker"].met = met] /\ met \in BOOLEAN
        /\ Idle("gui") /\ pc' = a /\ ~fresh' /\ fresh' \in BOOLEAN /\ auto' \in BOOLEAN
        /\ UNCHANGED <<halted, cycles, retired, beside, breaks, loadAddr, active, queue>>
    BY <1>1, <1>4 DEF EditPc, Ready, uiVars
  <2>2. ~Idle("worker") => met
    OBVIOUS
  <2> HIDE DEF met
  <2> QED BY <1>4, <2>1, <2>2, EditInv
<1>5. CASE ClearBreaks \/ \E a \in Addr : ToggleBreak(a) \/ AddBreak(a) \/ RemoveBreak(a)
  BY <1>1, <1>5, BreaksInv DEF ClearBreaks, ToggleBreak, AddBreak, RemoveBreak
<1> QED BY <1>2, <1>3, <1>4, <1>5, ContinueInv, RunShortInv, ResetInv, PollInv, AutoInv DEF User

LEMMA GuiInvHolds == Spec => []GuiInv
<1>1. Init => GuiInv
  BY InitInv
<1>2. GuiInv /\ [Next]_vars => GuiInv'
  <2>1. ASSUME GuiInv, UNCHANGED vars
        PROVE  GuiInv'
    BY <2>1 DEF vars, cpuVars, uiVars, GuiInv, TypeOK, FlagIsHonest, StepsAreWhole,
       CyclesAreExact, ResetHolds, Reported, Together, Opened, Opening, Room, Counts, Left,
       Counted, Idle
  <2> QED BY <2>1, RunningInv, HandlersInv DEF Next
<1> QED BY <1>1, <1>2, PTL DEF Spec

-----------------------------------------------------------------------------
(* Theorems, for a user who does as he likes.                                *)

\* No thread counts beyond the bound, whatever the handlers start.
THEOREM GuiTypes == Spec => []TypeOK
<1>1. GuiInv => TypeOK
  BY DEF GuiInv
<1> QED BY <1>1, GuiInvHolds, PTL

\* _run_thread_active is up exactly while a worker runs or has not been polled.
THEOREM FlagHonest == Spec => []FlagIsHonest
<1>1. GuiInv => FlagIsHonest
  BY DEF GuiInv
<1> QED BY <1>1, GuiInvHolds, PTL

\* A step that no other thread has met continues from the address it fetched from,
\* also the next after one that was torn (Runner.step).
THEOREM StepsWhole == Spec => []StepsAreWhole
<1>1. GuiInv => StepsAreWhole
  BY DEF GuiInv
<1> QED BY <1>1, GuiInvHolds, PTL

\* The cycle counter invents nothing unless an image is opened during a run, and
\* loses nothing unless two threads step (CycleCounter.add).
THEOREM CyclesExact == Spec => []CyclesAreExact
<1>1. GuiInv => CyclesAreExact
  BY DEF GuiInv
<1> QED BY <1>1, GuiInvHolds, PTL

\* A processor reset between two runs stays as it is until a step begins
\* (reset_cpu).
THEOREM ResetStays == Spec => []ResetHolds
<1>1. GuiInv => ResetHolds
  BY DEF GuiInv
<1> QED BY <1>1, GuiInvHolds, PTL
=============================================================================
