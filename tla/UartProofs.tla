----------------------------- MODULE UartProofs -----------------------------
(***************************************************************************)
(* The UART loses and reorders nothing, for every set of byte values,      *)
(* every depth of its queues and any number of bytes.                      *)
(***************************************************************************)
EXTENDS Uart, SequenceTheorems, TLAPS

\* TypeOK with the queues as sequences of a bounded length.
Queue(q) == q \in Seq(Byte) /\ Len(q) <= Depth

Typed ==
  /\ Queue(tx)
  /\ Queue(rx)
  /\ shown \in 0 .. Depth
  /\ poll \subseteq {"RX_READY", "TX_ROOM"}
  /\ sent \in Seq(Byte) /\ screen \in Seq(Byte)
  /\ written \in Seq(Byte) /\ fed \in Seq(Byte) /\ got \in Seq(Byte)
  /\ stored \in 0 .. MaxStored /\ injected \in 0 .. MaxInjected
  /\ lost \in BOOLEAN

UartInv ==
  /\ debugger \in BOOLEAN
  /\ Typed
  /\ SentAsWritten
  /\ ReceivedAsFed
  /\ StatusStaysTrue

-----------------------------------------------------------------------------
(* The queues. *)

LEMMA QueueIsBounded ==
  ASSUME NEW q, Queue(q)
  PROVE  q \in BoundedSeq(Byte, Depth)
<1>1. Len(q) \in 0 .. Depth
  BY LenProperties, UartAssumption DEF Queue
<1>2. q \in [1 .. Len(q) -> Byte]
  BY LenProperties DEF Queue
<1> QED BY <1>1, <1>2 DEF BoundedSeq, SeqOf

LEMMA EmptyQueue == Queue(<< >>) /\ Len(<< >>) = 0 /\ << >> \in Seq(Byte)
BY EmptySeq, UartAssumption DEF Queue

LEMMA WriteTxKeepsQueue ==
  ASSUME NEW q, Queue(q), NEW b \in Byte
  PROVE  /\ Queue(WriteTx(q, b))
         /\ q = << >> => WriteTx(q, b) = <<b>>
<1>1. CASE Len(q) < Depth
  <2>1. Append(q, b) \in Seq(Byte) /\ Len(Append(q, b)) = Len(q) + 1
    BY AppendProperties DEF Queue
  <2>2. Append(<< >>, b) = <<b>>
    OBVIOUS
  <2>3. Len(q) + 1 <= Depth
    BY <1>1, LenProperties, UartAssumption DEF Queue
  <2> QED BY <1>1, <2>1, <2>2, <2>3 DEF Queue, WriteTx
<1>2. CASE ~(Len(q) < Depth)
  <2>1. q # << >>
    BY <1>2, EmptyQueue, UartAssumption
  <2> QED BY <1>2, <2>1 DEF WriteTx
<1> QED BY <1>1, <1>2

LEMMA PoppedKeepsQueue ==
  ASSUME NEW q, Queue(q)
  PROVE  /\ Queue(Popped(q))
         /\ Len(Popped(q)) <= Len(q)
         /\ Taken(q) \in Seq(Byte)
         /\ Taken(q) \o Popped(q) = q
<1>1. CASE q = << >>
  BY <1>1, EmptyQueue, ConcatEmptySeq DEF Popped, Taken
<1>2. CASE q # << >>
  <2>1. /\ Head(q) \in Byte /\ Tail(q) \in Seq(Byte)
        /\ Len(Tail(q)) = Len(q) - 1
        /\ \A i \in 1 .. Len(Tail(q)) : Tail(q)[i] = q[i + 1]
    BY <1>2, HeadTailProperties DEF Queue
  <2>2. Len(q) \in Nat /\ Len(q) <= Depth
    BY LenProperties DEF Queue
  <2>3. <<Head(q)>> \in Seq(Byte) /\ Len(<<Head(q)>>) = 1 /\ Head(q) = q[1]
    BY <1>2, <2>1
  <2> DEFINE c == <<Head(q)>> \o Tail(q)
  <2>4. /\ c \in Seq(Byte) /\ Len(c) = Len(q)
        /\ \A i \in 1 .. Len(c) :
              c[i] = IF i <= 1 THEN <<Head(q)>>[i] ELSE Tail(q)[i - 1]
    BY <2>1, <2>2, <2>3, ConcatProperties
  <2>5. ASSUME NEW i \in 1 .. Len(c)
        PROVE  c[i] = q[i]
    <3>1. CASE i = 1
      BY <3>1, <2>3, <2>4
    <3>2. CASE i # 1
      BY <3>2, <2>1, <2>2, <2>4
    <3> QED BY <3>1, <3>2
  <2>6. c = q
    BY <2>4, <2>5, SeqEqual DEF Queue
  <2> QED BY <1>2, <2>1, <2>2, <2>3, <2>6, UartAssumption DEF Queue, Popped, Taken
<1> QED BY <1>1, <1>2

\* ConcatAssociative, for bytes.
LEMMA Regroup ==
  ASSUME NEW q \in Seq(Byte), NEW r \in Seq(Byte), NEW s \in Seq(Byte)
  PROVE  (q \o r) \o s = q \o (r \o s)
BY ConcatAssociative

LEMMA AppendToBoth ==
  ASSUME NEW q \in Seq(Byte), NEW r \in Seq(Byte), NEW b \in Byte
  PROVE  q \o Append(r, b) = Append(q \o r, b)
<1>1. <<b>> \in Seq(Byte) /\ q \o r \in Seq(Byte)
  BY ConcatProperties
<1>2. Append(r, b) = r \o <<b>> /\ Append(q \o r, b) = (q \o r) \o <<b>>
  BY <1>1, AppendIsConcat
<1>3. (q \o r) \o <<b>> = q \o (r \o <<b>>)
  BY <1>1, Regroup
<1> QED BY <1>2, <1>3

LEMMA InitInv ==
  ASSUME Init
  PROVE  UartInv
<1>1. << >> \o << >> = << >>
  BY EmptyQueue, ConcatEmptySeq
<1>2. 0 \in 0 .. Depth /\ 0 \in 0 .. MaxStored /\ 0 \in 0 .. MaxInjected
  BY UartAssumption
<1>3. Typed
  BY <1>2, EmptyQueue DEF Init, Typed
<1> QED BY <1>1, <1>3
    DEF Init, UartInv, SentAsWritten, ReceivedAsFed, StatusStaysTrue

\* A tick on a queue: it stays one, no longer than before, its oldest byte moves
\* to the line, and a queue of one byte is left empty.
LEMMA TickShifts ==
  ASSUME UartInv, NEW q, Queue(q), Tick(q)
  PROVE  /\ Queue(tx') /\ Len(tx') <= Len(q)
         /\ sent' \in Seq(Byte)
         /\ sent' \o tx' = sent \o q
         /\ q = << >> => tx' = << >>
         /\ \A b \in Byte : q = <<b>> => tx' = << >>
<1>1. Queue(Popped(q)) /\ Len(Popped(q)) <= Len(q)
  BY PoppedKeepsQueue
<1>2. tx' = Popped(q)
  BY DEF Tick, Popped
<1>3. q # << >> => Head(q) \in Byte
  BY HeadTailProperties DEF Queue
<1>4. sent' \in Seq(Byte)
  BY <1>3, AppendProperties DEF Tick, UartInv, Typed
<1>5. ASSUME NEW b \in Byte, q = <<b>>
      PROVE  tx' = << >>
  <2>1. Tail(<<b>>) = << >> /\ <<b>> # << >>
    OBVIOUS
  <2> QED BY <1>5, <2>1 DEF Tick
<1>6. sent' \o tx' = sent \o q
  <2>1. CASE q = << >>
    BY <2>1 DEF Tick
  <2>2. CASE q # << >>
    <3>1. /\ <<Head(q)>> \in Seq(Byte) /\ Tail(q) \in Seq(Byte)
          /\ sent \in Seq(Byte)
      BY <1>3, <2>2, HeadTailProperties DEF Queue, UartInv, Typed
    <3>2. <<Head(q)>> \o Tail(q) = q
      BY <2>2, PoppedKeepsQueue DEF Popped, Taken
    <3>3. sent' = sent \o <<Head(q)>> /\ tx' = Tail(q)
      BY <1>3, <2>2, <3>1, AppendIsConcat DEF Tick
    <3>4. (sent \o <<Head(q)>>) \o Tail(q) = sent \o (<<Head(q)>> \o Tail(q))
      BY <3>1, Regroup
    <3> QED BY <3>2, <3>3, <3>4
  <2> QED BY <2>1, <2>2
<1> QED BY <1>1, <1>2, <1>4, <1>5, <1>6 DEF Tick

\* A write to TX puts the byte behind what was sent and what waits, and the
\* history records the same.
LEMMA WriteRecorded ==
  ASSUME UartInv, NEW b \in Byte,
         written' = IF Len(tx) < Depth THEN Append(written, b) ELSE written
  PROVE  /\ sent \o WriteTx(tx, b) = written'
         /\ written' \in Seq(Byte)
<1>1. sent \in Seq(Byte) /\ tx \in Seq(Byte) /\ sent \o tx = written
  BY DEF UartInv, Typed, Queue, SentAsWritten
<1>2. sent \o Append(tx, b) = Append(sent \o tx, b)
  BY <1>1, AppendToBoth
<1>3. written' \in Seq(Byte)
  BY AppendProperties DEF UartInv, Typed
<1> QED BY <1>1, <1>2, <1>3 DEF WriteTx

-----------------------------------------------------------------------------
(* The program. *)

LEMMA StoreTxStep ==
  ASSUME UartInv, NEW b \in Byte, StoreTx(b)
  PROVE  UartInv'
<1> USE DEF StoreTx, window, UartInv, Typed
<1>1. Queue(WriteTx(tx, b)) /\ (tx = << >> => WriteTx(tx, b) = <<b>>)
  BY WriteTxKeepsQueue
<1>2. /\ Queue(tx') /\ sent' \in Seq(Byte)
      /\ sent' \o tx' = sent \o WriteTx(tx, b)
      /\ WriteTx(tx, b) = <<b>> => tx' = << >>
  BY <1>1, TickShifts
<1>3. sent \o WriteTx(tx, b) = written' /\ written' \in Seq(Byte)
  BY WriteRecorded
<1>4. Typed'
  <2>1. stored' \in 0 .. MaxStored
    BY UartAssumption
  <2>2. lost' \in BOOLEAN
    OBVIOUS
  <2> QED BY <1>2, <1>3, <2>1, <2>2 DEF Queue
<1>5. SentAsWritten'
  <2>1. ASSUME ~debugger PROVE tx' = << >> /\ ~lost'
    <3>1. tx = << >> /\ ~lost /\ Len(tx) # Depth
      BY <2>1, EmptyQueue, UartAssumption DEF SentAsWritten
    <3> QED BY <1>1, <1>2, <3>1
  <2> QED BY <1>2, <1>3, <2>1 DEF SentAsWritten
<1>6. ReceivedAsFed'
  BY DEF ReceivedAsFed
<1>7. StatusStaysTrue'
  BY DEF StatusStaysTrue, Status
<1> QED BY <1>4, <1>5, <1>6, <1>7

\* The steps of the program that store nothing leave TX no longer.
LEMMA IdleTick ==
  ASSUME UartInv, Tick(tx), UNCHANGED <<debugger, written, lost>>
  PROVE  /\ Queue(tx') /\ Len(tx') <= Len(tx) /\ sent' \in Seq(Byte)
         /\ SentAsWritten'
<1> USE DEF UartInv, Typed
<1>1. /\ Queue(tx') /\ Len(tx') <= Len(tx) /\ sent' \in Seq(Byte)
      /\ sent' \o tx' = sent \o tx
      /\ tx = << >> => tx' = << >>
  BY TickShifts
<1> QED BY <1>1 DEF SentAsWritten

LEMMA Shorter ==
  ASSUME UartInv, Queue(tx'), Len(tx') <= Len(tx), Len(tx) < Depth
  PROVE  Len(tx') < Depth
<1>1. Len(tx') \in Nat /\ Len(tx) \in Nat
  BY LenProperties DEF Queue, UartInv, Typed
<1> QED BY <1>1, UartAssumption

LEMMA LoadRxStep ==
  ASSUME UartInv, LoadRx
  PROVE  UartInv'
<1> USE DEF LoadRx, window, UartInv, Typed
<1>1. /\ Queue(tx') /\ Len(tx') <= Len(tx) /\ sent' \in Seq(Byte)
      /\ SentAsWritten'
  BY IdleTick
<1>2. /\ Queue(Popped(rx)) /\ Taken(rx) \in Seq(Byte)
      /\ Taken(rx) \o Popped(rx) = rx
  BY PoppedKeepsQueue
<1>3. got' \in Seq(Byte)
  BY <1>2, ConcatProperties
<1>4. Typed'
  BY <1>1, <1>2, <1>3 DEF Queue
<1>5. (got \o Taken(rx)) \o Popped(rx) = got \o (Taken(rx) \o Popped(rx))
  BY <1>2, Regroup DEF Queue
<1>6. ReceivedAsFed'
  BY <1>2, <1>5 DEF ReceivedAsFed
<1>7. StatusStaysTrue'
  BY <1>1, Shorter DEF StatusStaysTrue, Status
<1> QED BY <1>1, <1>4, <1>6, <1>7

LEMMA LoadStatusStep ==
  ASSUME UartInv, LoadStatus
  PROVE  UartInv'
<1> USE DEF LoadStatus, window, history, UartInv, Typed
<1>1. /\ Queue(tx') /\ Len(tx') <= Len(tx) /\ sent' \in Seq(Byte)
      /\ SentAsWritten'
  BY IdleTick
<1>2. Typed'
  BY <1>1 DEF Queue, Status
<1>3. ReceivedAsFed'
  BY DEF ReceivedAsFed
<1>4. StatusStaysTrue'
  BY <1>1, Shorter DEF StatusStaysTrue, Status
<1> QED BY <1>1, <1>2, <1>3, <1>4

LEMMA OtherInstructionStep ==
  ASSUME UartInv, OtherInstruction
  PROVE  UartInv'
<1> USE DEF OtherInstruction, window, history, UartInv, Typed
<1>1. /\ Queue(tx') /\ Len(tx') <= Len(tx) /\ sent' \in Seq(Byte)
      /\ SentAsWritten'
  BY IdleTick
<1>2. Typed'
  BY <1>1 DEF Queue
<1>3. ReceivedAsFed'
  BY DEF ReceivedAsFed
<1>4. StatusStaysTrue'
  BY <1>1, Shorter DEF StatusStaysTrue, Status
<1> QED BY <1>1, <1>2, <1>3, <1>4

-----------------------------------------------------------------------------
(* The host, the debugger and the terminal. *)

LEMMA FeedRxStep ==
  ASSUME UartInv, NEW b \in Byte, FeedRx(b)
  PROVE  UartInv'
<1> USE DEF FeedRx, window, UartInv, Typed
<1>1. /\ rx' \in Seq(Byte) /\ Len(rx') = Len(rx) + 1
      /\ rx' # << >>
      /\ fed' \in Seq(Byte)
  BY AppendProperties DEF Queue
<1>2. Queue(rx')
  BY <1>1, LenProperties, UartAssumption DEF Queue
<1>3. Typed'
  BY <1>1, <1>2 DEF Queue
<1>4. got \o rx' = Append(got \o rx, b)
  BY AppendToBoth DEF Queue
<1>5. ReceivedAsFed'
  BY <1>4 DEF ReceivedAsFed
<1>6. SentAsWritten'
  BY DEF SentAsWritten
<1>7. StatusStaysTrue'
  BY <1>1 DEF StatusStaysTrue, Status
<1> QED BY <1>3, <1>5, <1>6, <1>7

LEMMA DebugReadRxStep ==
  ASSUME UartInv, DebugReadRx
  PROVE  UartInv'
<1> USE DEF DebugReadRx, window, history, UartInv
<1>1. Queue(Popped(rx))
  BY PoppedKeepsQueue DEF Typed
<1>2. Typed'
  BY <1>1 DEF Typed, Queue
<1> QED BY <1>2 DEF SentAsWritten, ReceivedAsFed, StatusStaysTrue

LEMMA DebugWriteTxStep ==
  ASSUME UartInv, NEW b \in Byte, DebugWriteTx(b)
  PROVE  UartInv'
<1> USE DEF DebugWriteTx, window, UartInv
<1>1. Queue(WriteTx(tx, b))
  BY WriteTxKeepsQueue DEF Typed
<1>2. sent \o WriteTx(tx, b) = written' /\ written' \in Seq(Byte)
  BY WriteRecorded
<1>3. injected' \in 0 .. MaxInjected
  BY UartAssumption DEF Typed
<1>4. Typed'
  BY <1>1, <1>2, <1>3 DEF Typed, Queue
<1> QED BY <1>2, <1>4 DEF SentAsWritten, ReceivedAsFed, StatusStaysTrue

\* The terminal never changes the device except to clear TX.
LEMMA WindowStep ==
  ASSUME UartInv, UNCHANGED <<debugger, device, poll, history>>,
         shown' \in 0 .. Depth, screen' \in Seq(Byte)
  PROVE  UartInv'
BY DEF UartInv, Typed, Queue, device, history, SentAsWritten, ReceivedAsFed,
       StatusStaysTrue, Status

LEMMA ShownFits ==
  ASSUME UartInv
  PROVE  Len(tx) \in 0 .. Depth
BY LenProperties, UartAssumption DEF UartInv, Typed, Queue

LEMMA PollStep ==
  ASSUME UartInv, Poll
  PROVE  UartInv'
<1> USE DEF UartInv, Typed
<1>1. Len(tx) \in 0 .. Depth /\ shown \in 0 .. Depth
  BY ShownFits
<1>2. \A i \in shown + 1 .. Len(tx) : tx[i] \in Byte
  BY <1>1, ElementOfSeq, UartAssumption DEF Queue
<1>3. SubSeq(tx, shown + 1, Len(tx)) \in Seq(Byte)
  BY <1>1, <1>2, SubSeqProperties
<1>4. screen' \in Seq(Byte) /\ shown' \in 0 .. Depth
  BY <1>1, <1>3, ConcatProperties DEF Poll
<1> QED BY <1>4, WindowStep DEF Poll

LEMMA ClearViewStep ==
  ASSUME UartInv, ClearView
  PROVE  UartInv'
BY ShownFits, EmptyQueue, WindowStep DEF ClearView

LEMMA FullResyncStep ==
  ASSUME UartInv, FullResync
  PROVE  UartInv'
BY ShownFits, WindowStep DEF FullResync, UartInv, Typed, Queue

LEMMA ClearHwTxStep ==
  ASSUME UartInv, ClearHwTx
  PROVE  UartInv'
<1> USE DEF ClearHwTx, UartInv
<1>0. 0 \in 0 .. Depth /\ 0 \in 0 .. MaxStored /\ 0 \in 0 .. MaxInjected
  BY UartAssumption
<1>1. Typed'
  BY <1>0, EmptyQueue DEF Typed, Queue
<1>2. StatusStaysTrue'
  BY EmptyQueue, UartAssumption DEF StatusStaysTrue, Status, Typed
<1>3. SentAsWritten'
  BY EmptyQueue, ConcatEmptySeq DEF SentAsWritten
<1> QED BY <1>1, <1>2, <1>3 DEF ReceivedAsFed

LEMMA StepInv ==
  ASSUME UartInv, [Next]_vars
  PROVE  UartInv'
<1>1. CASE \E b \in Byte : StoreTx(b)
  BY <1>1, StoreTxStep
<1>2. CASE LoadRx
  BY <1>2, LoadRxStep
<1>3. CASE LoadStatus
  BY <1>3, LoadStatusStep
<1>4. CASE OtherInstruction
  BY <1>4, OtherInstructionStep
<1>5. CASE Poll
  BY <1>5, PollStep
<1>6. CASE \E b \in Byte : FeedRx(b)
  BY <1>6, FeedRxStep
<1>7. CASE \E b \in Byte : DebugWriteTx(b)
  BY <1>7, DebugWriteTxStep
<1>8. CASE DebugReadRx
  BY <1>8, DebugReadRxStep
<1>9. CASE ClearView
  BY <1>9, ClearViewStep
<1>10. CASE ClearHwTx
  BY <1>10, ClearHwTxStep
<1>11. CASE FullResync
  BY <1>11, FullResyncStep
<1>12. CASE UNCHANGED vars
  <2>1. UNCHANGED <<debugger, device, poll, history>> /\ UNCHANGED window
    BY <1>12 DEF vars
  <2>2. shown' \in 0 .. Depth /\ screen' \in Seq(Byte)
    BY <2>1 DEF UartInv, Typed, window
  <2> QED BY <2>1, <2>2, WindowStep
<1> QED BY <1>1, <1>2, <1>3, <1>4, <1>5, <1>6, <1>7, <1>8, <1>9, <1>10, <1>11,
           <1>12 DEF Next, Instruction, User

\* The inductive invariant holds in every reachable state.
THEOREM UartInvHolds == Spec => []UartInv
<1>1. Init => UartInv
  BY InitInv
<1>2. UartInv /\ [Next]_vars => UartInv'
  BY StepInv
<1> QED BY <1>1, <1>2, PTL DEF Spec

-----------------------------------------------------------------------------
(* Theorems. *)

\* No queue grows beyond FIFO_DEPTH and the terminal never counts more bytes than
\* the TX FIFO holds places.
THEOREM UartTypes == Spec => []TypeOK
<1>1. UartInv => TypeOK
  BY QueueIsBounded DEF UartInv, Typed, TypeOK
<1> QED BY <1>1, UartInvHolds, PTL

\* The line carries what found room in the FIFO in the order it was written, and
\* without a debugger that is every byte of the program, though it never looks at
\* STATUS (UartDevice.write_reg and tick).
THEOREM SentAsWrittenAlways == Spec => []SentAsWritten
<1>1. UartInv => SentAsWritten
  BY DEF UartInv
<1> QED BY <1>1, UartInvHolds, PTL

\* Without a debugger the program takes the fed bytes in order, each once
\* (UartDevice.feed_rx and _read_rx).
THEOREM ReceivedAsFedAlways == Spec => []ReceivedAsFed
<1>1. UartInv => ReceivedAsFed
  BY DEF UartInv
<1> QED BY <1>1, UartInvHolds, PTL

\* What STATUS told the program stays true until it acts on it.
THEOREM StatusStaysTrueAlways == Spec => []StatusStaysTrue
<1>1. UartInv => StatusStaysTrue
  BY DEF UartInv
<1> QED BY <1>1, UartInvHolds, PTL
=============================================================================
