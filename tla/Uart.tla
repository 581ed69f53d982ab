-------------------------------- MODULE Uart --------------------------------
(***************************************************************************)
(* The UART (core/peripherals/uart.py) between a program, the host that    *)
(* feeds it, a debugger on the same bus and the terminal window of the     *)
(* GUI (cli/uart_terminal.py).  A completed instruction ends with one tick *)
(* that shifts one byte out; the debugger's accesses do not.  A store is a *)
(* read of the register followed by a write.                               *)
(***************************************************************************)
EXTENDS Naturals, Sequences, SequencesExt

CONSTANTS
  Byte,        \* byte values
  Depth,       \* FIFO_DEPTH (8)
  MaxStored,   \* bound: bytes the program stores since a clear
  MaxInjected, \* bound: bytes the debugger writes since a clear
  MaxFed       \* bound: bytes the host feeds

ASSUME UartAssumption ==
  /\ Depth \in Nat \ {0}
  /\ {MaxStored, MaxInjected, MaxFed} \subseteq Nat

VARIABLES
  debugger, \* whether a debugger reads RX and writes TX over the bus
  tx,       \* TX FIFO
  rx,       \* RX FIFO
  sent,     \* bytes driven to the line
  shown,    \* _shown_len of the terminal
  screen,   \* the text of the terminal
  poll,     \* what the program knows from STATUS and has not yet acted on
  stored,   \* history: how many bytes the program stored since a clear
  injected, \* history: how many bytes the debugger wrote since a clear
  written,  \* history: the bytes of both for which there was room, in order
  lost,     \* history: whether there was none for a byte of the program
  fed,      \* history: every byte the RX FIFO accepted
  got       \* history: every byte the program took out of it

device  == <<tx, rx, sent>>
window  == <<shown, screen>>
history == <<stored, injected, written, lost, fed, got>>
vars == <<debugger, device, window, poll, history>>

Init ==
  /\ debugger \in BOOLEAN
  /\ tx = << >> /\ rx = << >> /\ sent = << >>
  /\ shown = 0 /\ screen = << >>
  /\ poll = {}
  /\ stored = 0 /\ injected = 0 /\ written = << >> /\ lost = FALSE
  /\ fed = << >> /\ got = << >>

-----------------------------------------------------------------------------
(* The device. *)

\* A full TX FIFO drops the byte.
WriteTx(q, b) == IF Len(q) < Depth THEN Append(q, b) ELSE q

\* TickLazy is an altered tick for the validation of the properties: it leaves
\* a single byte in the FIFO.
TickLazy(q)  == /\ tx' = IF Len(q) > 1 THEN Tail(q) ELSE q
                /\ sent' = IF Len(q) > 1 THEN Append(sent, Head(q)) ELSE sent

\* TickNewest takes the youngest byte from the wrong end of the queue.
TickNewest(q) ==
  /\ tx' = IF q # << >> THEN Front(q) ELSE q
  /\ sent' = IF q # << >> THEN Append(sent, Last(q)) ELSE sent

\* tick(): the step that stored a byte shifts out the oldest one.
Tick(q) ==
  /\ tx' = IF q # << >> THEN Tail(q) ELSE q
  /\ sent' = IF q # << >> THEN Append(sent, Head(q)) ELSE sent

\* Reading RX takes a byte if there is one.
Popped(q) == IF q # << >> THEN Tail(q) ELSE q
Taken(q)  == IF q # << >> THEN <<Head(q)>> ELSE << >>

\* _status(), as the two bits a program waits for.
Status == {bit \in {"RX_READY", "TX_ROOM"} :
             IF bit = "RX_READY" THEN rx # << >> ELSE Len(tx) < Depth}

-----------------------------------------------------------------------------
(* The program: one completed instruction. *)

StoreTx(b) ==
  /\ stored < MaxStored
  /\ Tick(WriteTx(tx, b))
  /\ stored' = stored + 1
  /\ written' = IF Len(tx) < Depth THEN Append(written, b) ELSE written
  /\ lost' = (lost \/ Len(tx) = Depth)
  /\ poll' = poll \ {"TX_ROOM"}
  /\ UNCHANGED <<debugger, rx, window, injected, fed, got>>

\* A load of RX, and a store to it, whose read half takes a byte as well.
LoadRx ==
  /\ Tick(tx)
  /\ rx' = Popped(rx)
  /\ got' = got \o Taken(rx)
  /\ poll' = poll \ {"RX_READY"}
  /\ UNCHANGED <<debugger, window, stored, injected, written, lost, fed>>

LoadStatus ==
  /\ Tick(tx)
  /\ poll' = Status
  /\ UNCHANGED <<debugger, rx, window, history>>

OtherInstruction ==
  /\ Tick(tx)
  /\ UNCHANGED <<debugger, rx, poll, window, history>>

-----------------------------------------------------------------------------
(* The host, the debugger and the terminal, between two instructions. *)

\* FeedRxUnchecked and FeedRxOver are altered for the validation of the
\* properties: without the test for room, in a list or in a bounded deque.
FeedRxUnchecked(b) ==
  /\ Len(fed) < MaxFed
  /\ rx' = Append(rx, b)
  /\ fed' = Append(fed, b)
  /\ UNCHANGED <<debugger, tx, sent, window, poll, got>>
  /\ UNCHANGED <<stored, injected, written, lost>>
FeedRxOver(b) ==
  /\ Len(fed) < MaxFed
  /\ rx' = IF Len(rx) < Depth THEN Append(rx, b) ELSE Append(Tail(rx), b)
  /\ fed' = Append(fed, b)
  /\ UNCHANGED <<debugger, tx, sent, window, poll, got>>
  /\ UNCHANGED <<stored, injected, written, lost>>

\* feed_rx(), byte by byte: it stops at the first byte without room.
FeedRx(b) ==
  /\ Len(fed) < MaxFed
  /\ Len(rx) < Depth
  /\ rx' = Append(rx, b)
  /\ fed' = Append(fed, b)
  /\ UNCHANGED <<debugger, tx, sent, window, poll, got>>
  /\ UNCHANGED <<stored, injected, written, lost>>

\* A memory read of the debugger over the bus, GDB's or that of a snapshot.
DebugReadRx ==
  /\ debugger
  /\ rx' = Popped(rx)
  /\ UNCHANGED <<debugger, tx, sent, window, poll, history>>

\* A memory write of GDB over the bus: no tick follows.
DebugWriteTx(b) ==
  /\ debugger
  /\ injected < MaxInjected
  /\ tx' = WriteTx(tx, b)
  /\ injected' = injected + 1
  /\ written' = IF Len(tx) < Depth THEN Append(written, b) ELSE written
  /\ UNCHANGED <<debugger, rx, sent, window, poll, stored, lost, fed, got>>

\* _poll_tx(): shows what is in the TX FIFO beyond the length already shown.
Poll ==
  /\ shown' = IF Len(tx) > shown THEN Len(tx) ELSE shown
  /\ screen' = screen \o SubSeq(tx, shown + 1, Len(tx))
  /\ UNCHANGED <<debugger, device, poll, history>>

ClearView ==
  /\ screen' = << >>
  /\ shown' = Len(tx)
  /\ UNCHANGED <<debugger, device, poll, history>>

\* An altered clear for the validation of StatusStaysTrue: it empties RX, too.
ClearHwBoth ==
  /\ tx' = << >> /\ rx' = << >> /\ sent' = << >>
  /\ screen' = << >> /\ shown' = 0
  /\ stored' = 0 /\ injected' = 0 /\ written' = << >> /\ lost' = FALSE
  /\ UNCHANGED <<debugger, poll, fed, got>>

\* _clear_hw_tx(): clear_tx(), then _clear_view().
ClearHwTx ==
  /\ tx' = << >> /\ sent' = << >>
  /\ screen' = << >> /\ shown' = 0
  /\ stored' = 0 /\ injected' = 0 /\ written' = << >> /\ lost' = FALSE
  /\ UNCHANGED <<debugger, rx, poll, fed, got>>

FullResync ==
  /\ screen' = tx
  /\ shown' = Len(tx)
  /\ UNCHANGED <<debugger, device, poll, history>>

-----------------------------------------------------------------------------
Instruction == \/ \E b \in Byte : StoreTx(b)
               \/ LoadRx \/ LoadStatus \/ OtherInstruction

User == \/ \E b \in Byte : FeedRx(b) \/ DebugWriteTx(b)
        \/ DebugReadRx
        \/ ClearView \/ ClearHwTx \/ FullResync

Next == Instruction \/ Poll \/ User

Spec == Init /\ [][Next]_vars

\* The processor keeps running, and the window re-arms its timer at each poll.
FairSpec == Spec /\ WF_vars(Instruction) /\ WF_vars(Poll)

-----------------------------------------------------------------------------
TypeOK ==
  /\ tx \in BoundedSeq(Byte, Depth)
  /\ rx \in BoundedSeq(Byte, Depth)
  /\ shown \in 0 .. Depth
  /\ poll \subseteq {"RX_READY", "TX_ROOM"}
  /\ {sent, screen, written, fed, got} \subseteq Seq(Byte)
  /\ stored \in 0 .. MaxStored /\ injected \in 0 .. MaxInjected
  /\ lost \in BOOLEAN

\* The line carries the bytes that found room in the FIFO in the order they
\* were written, none twice and none out of turn, whoever wrote them.  And
\* without a debugger on the bus every byte of the program finds room and has
\* left when its instruction completes, although the program never looks at
\* STATUS: the drop of a full FIFO cannot hit it (uart.py, write_reg and tick).
SentAsWritten ==
  /\ sent \o tx = written
  /\ ~debugger => tx = << >> /\ ~lost

\* Without a debugger the program takes the fed bytes in order, none lost and
\* none twice.
ReceivedAsFed == ~debugger => got \o rx = fed

\* What STATUS has told the program is still true when the program acts on it,
\* whatever the host and the terminal do in between.
StatusStaysTrue == ~debugger => poll \subseteq Status

\* Every byte that waits in the TX FIFO, those a debugger put there included,
\* reaches the line unless the user clears TX first (uart.py, tick).
FifoDrains ==
  \A n \in 1 .. MaxStored + MaxInjected :
    (tx # << >> /\ Len(written) = n) ~> (Len(sent) >= n \/ written = << >>)
=============================================================================
