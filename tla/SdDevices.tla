----------------------------- MODULE SdDevices ------------------------------
(***************************************************************************)
(* The two storage devices of the bus as functions on their state:         *)
(* SdCardMmio (sd_card.py), whose sectors are those of an open file, and   *)
(* SdSpiMmio (sd_spi.py), a card in memory that is written to the file     *)
(* when it is unmounted.  A sector is one value: the 128 words of its data *)
(* registers are written and read together.                                *)
(***************************************************************************)
EXTENDS Integers

CONSTANTS
  Paths,        \* files of the host that may hold an image
  Data,         \* contents of a sector
  Zero,         \* a sector of zeros
  CardSectors,  \* MAX_SECTORS, the sectors of the SPI card (16)
  Lbas          \* sector numbers the programs use, some beyond any image

NoPath == "none"

ASSUME SdAssumption ==
  /\ Zero \in Data
  /\ CardSectors \in Nat \ {0}
  /\ 0 \in Lbas /\ Lbas \subseteq Nat
  /\ NoPath \notin Paths

Card == 0 .. CardSectors - 1

\* A file of the host: absent, an image, or of a size no multiple of a sector.
Absent == [is |-> "absent", at |-> << >>]
Ragged == [is |-> "ragged", at |-> << >>]
Image(sectors) == [is |-> "image", at |-> sectors]
Blank(n) == Image([s \in 0 .. n - 1 |-> Zero])
HasSector(file, s) == file.is = "image" /\ s \in DOMAIN file.at
WithSector(file, s, d) == [file EXCEPT !.at[s] = d]

-----------------------------------------------------------------------------
(* SdCardMmio.  behind is the buffer of the open file: a sector that has     *)
(* been written to it and not yet to the disk, after an error of the host.   *)

NoSector == [lba |-> -1, data |-> Zero]
BlockInit ==
  [path |-> NoPath, lba |-> 0, buf |-> Zero, st |-> {"noMedium"}, err |-> "none",
   behind |-> NoSector]

BlockMounted(b, p) ==
  [b EXCEPT !.path = p, !.st = {"ready"}, !.err = "none", !.behind = NoSector]
BlockUnmounted(b) ==
  [b EXCEPT !.path = NoPath, !.st = {"noMedium"}, !.err = "none", !.behind = NoSector]

BlockError(b, code) ==
  [b EXCEPT !.st = (@ \union {"error"}) \ {"ready"}, !.err = code]
\* An altered clearing, against which TypeOK is validated: the code stays.
ClearedInPart(b) == [b EXCEPT !.st = @ \ {"error"}]
ErrorCleared(b) == [b EXCEPT !.st = @ \ {"error"}, !.err = "none"]

\* What a flush brings to the disk.
Flushed(file, b) ==
  IF HasSector(file, b.behind.lba) THEN WithSector(file, b.behind.lba, b.behind.data)
  ELSE file

-----------------------------------------------------------------------------
(* SdSpiMmio.  file: the image is open; a mount of an absent path leaves the *)
(* device with the path and without a file.                                  *)

SpiInit ==
  [path |-> NoPath, file |-> FALSE, en |-> FALSE, ready |-> FALSE, app |-> FALSE,
   error |-> FALSE, blkidx |-> 0,
   card |-> [s \in Card |-> Zero]]

\* An altered load, against which CardShowsImage is validated: it keeps the
\* sectors of the card that the image does not reach.
LoadedOver(v, file) ==
  [v EXCEPT !.card = [s \in Card |-> IF HasSector(file, s) THEN file.at[s] ELSE @[s]],
            !.file = TRUE]

\* _load_file: the first sectors of the image, zeros above a short one.
Loaded(v, file) ==
  [v EXCEPT !.card = [s \in Card |-> IF HasSector(file, s) THEN file.at[s] ELSE Zero],
            !.file = TRUE]

SpiUnmounted(v) == [v EXCEPT !.path = NoPath, !.file = FALSE, !.ready = FALSE]

\* The sector the data registers reach.
Slot(v) == v.blkidx % CardSectors

\* _run_cmd: CMD0, 8, 55, 41, 17, 24 or another.
Commanded(v, idx, arg) ==
  LET base == [v EXCEPT !.error = FALSE]
  IN  CASE idx = 0 -> [base EXCEPT !.ready = FALSE, !.app = FALSE]
        [] idx = 8 -> base
        [] idx = 55 -> [base EXCEPT !.app = TRUE]
        [] idx = 41 ->
             IF v.app THEN [base EXCEPT !.ready = TRUE, !.app = FALSE]
             ELSE [base EXCEPT !.error = TRUE]
        [] idx \in {17, 24} ->
             [base EXCEPT !.blkidx = arg, !.error = ~(v.ready /\ arg < CardSectors)]
        [] OTHER -> [base EXCEPT !.error = TRUE]
=============================================================================
