----------------------------- MODULE SdStorage ------------------------------
(***************************************************************************)
(* One process of the simulator with one of its storage devices, the       *)
(* program that uses the device through its registers, the user who mounts *)
(* and unmounts images, and the files of the host, on which any operation  *)
(* may fail with an OSError.  The process may be killed at any time; the   *)
(* files stay.                                                             *)
(***************************************************************************)
EXTENDS SdDevices

CONSTANTS
  FirstDisks,  \* what the files may be at the start
  NewSizes     \* sector counts the user creates images with

\* A file of the host as a record of a kind and a function on sectors.
FileOK(file) ==
  /\ file = [is |-> file.is, at |-> file.at]
  /\ file.is \in {"absent", "image", "ragged"}
  /\ file.at = [s \in DOMAIN file.at |-> file.at[s]]
  /\ \A s \in DOMAIN file.at : s \in Nat /\ file.at[s] \in Data
  /\ file.is # "image" => DOMAIN file.at = {}

ASSUME StorageAssumption ==
  /\ \A d \in FirstDisks : /\ d = [p \in Paths |-> d[p]]
                          /\ \A p \in Paths : FileOK(d[p])
  /\ NewSizes \subseteq Nat

VARIABLES
  mode,     \* _sd_spi_mode of the bus: "block" or "spi"
  disk,     \* the files of the host
  blk,      \* sd_block
  spi,      \* sd_spi_dev
  promise,  \* history: sectors a file must hold, and what
  written,  \* history: what the program has written to sectors of the mounted card
  strayed,  \* history: sectors of it written under another number
  chosen    \* history: the sector the program last named is one of the card

vars == <<mode, disk, blk, spi, promise, written, strayed, chosen>>

Init ==
  /\ mode \in {"block", "spi"}
  /\ disk \in FirstDisks
  /\ blk = BlockInit
  /\ spi = SpiInit
  /\ promise = [p \in Paths |-> disk[p].at]
  /\ written = << >>
  /\ strayed = {}
  /\ chosen = FALSE

TypeOK ==
  /\ mode \in {"block", "spi"}
  /\ \A p \in Paths : FileOK(disk[p])
  /\ blk.path \in Paths \union {NoPath} /\ blk.lba \in Lbas /\ blk.buf \in Data
  /\ blk.st \subseteq {"ready", "error", "noMedium"}
  /\ "error" \in blk.st <=> blk.err # "none"
  /\ blk.err # "none" => "ready" \notin blk.st
  /\ blk.path = NoPath <=> "noMedium" \in blk.st
  /\ spi.path \in Paths \union {NoPath} /\ spi.blkidx \in Lbas
  /\ spi.card \in [Card -> Data]
  /\ spi.file => spi.path # NoPath

-----------------------------------------------------------------------------
(* unmount() and mount().  Every operation of the host may fail; an unmount  *)
(* swallows the error, a mount passes it to the user and stays unmounted.    *)

\* _flush_to_file: all sectors of the card, and nothing above them.
Saved(card) == Image([s \in Card |-> card[s]])

\* The same interrupted: some sectors are written, and a longer file is not cut.
SavedInPart(card, file) ==
  {Image([s \in (0 .. k - 1) \union DOMAIN file.at |->
            IF s < k THEN card[s] ELSE file.at[s]]) : k \in 0 .. CardSectors}

\* What the program must find in a sector of the card: what it has written, or what
\* the image holds, with zeros above its end.
OnDisk(s) == IF HasSector(disk[spi.path], s) THEN disk[spi.path].at[s] ELSE Zero
Expected(s) == IF s \in DOMAIN written THEN written[s] ELSE OnDisk(s)

\* The possible disks and promises after the unmount of the device in use.  After
\* a save the image holds what the program must find on the card, and no sector above
\* the card's; after a failed one it holds what it did where nothing else was written.
AfterUnmount ==
  CASE mode = "block" /\ blk.path = NoPath -> {<<disk, promise>>}
    [] mode = "block" /\ blk.path # NoPath ->
         {<<disk, promise>>, <<[disk EXCEPT ![blk.path] = Flushed(@, blk)], promise>>}
    [] mode = "spi" /\ ~spi.file -> {<<disk, promise>>}
    [] mode = "spi" /\ spi.file ->
         {<<[disk EXCEPT ![spi.path] = Saved(spi.card)],
            [promise EXCEPT ![spi.path] = [s \in Card \ strayed |-> Expected(s)]]>>}
         \union
         {<<[disk EXCEPT ![spi.path] = f],
            [promise EXCEPT ![spi.path] =
               [s \in {x \in DOMAIN @ \ strayed :
                         x \in DOMAIN written => written[x] = @[x]} |-> @[s]]]>> :
             f \in SavedInPart(spi.card, disk[spi.path])}

\* The device in use is unmounted.
Unmounted ==
  /\ blk' = IF mode = "block" THEN BlockUnmounted(blk) ELSE blk
  /\ spi' = IF mode = "spi" THEN SpiUnmounted(spi) ELSE spi

\* The device after the attempt to mount p, where file is found, the old image
\* having been unmounted.
BlockMounts(p, file) ==
  /\ \/ file.is = "image" /\ blk' = BlockMounted(blk, p)
     \/ blk' = BlockUnmounted(blk)  \* FileNotFoundError, ValueError, OSError
  /\ UNCHANGED spi

SpiMounts(p, file) ==
  LET out == SpiUnmounted(spi)
  IN  /\ \/ /\ file.is = "image"
            /\ \/ spi' = [Loaded(out, file) EXCEPT !.path = p]
               \/ spi' = [Loaded(out, file) EXCEPT !.file = FALSE]  \* not writable
         \/ file.is = "absent" /\ spi' = [out EXCEPT !.path = p]
         \/ spi' = out  \* ValueError, OSError
      /\ UNCHANGED blk

Mounts(p, file) ==
  \/ mode = "block" /\ BlockMounts(p, file)
  \/ mode = "spi" /\ SpiMounts(p, file)

Replugged == written' = << >> /\ strayed' = {} /\ UNCHANGED <<mode, chosen>>

\* _on_sd_mount, and the image given to the constructor of the bus.
Attach(p) ==
  \E after \in AfterUnmount :
    /\ disk' = after[1]
    /\ promise' = after[2]
    /\ Mounts(p, after[1][p])
    /\ Replugged

\* _on_sd_create_mount: the old file is removed, then a new one is written.
\* write_bytes may fail before, within or after its writing.
Create(p, n) ==
  LET size == IF mode = "spi" /\ n > CardSectors THEN CardSectors ELSE n
  IN  \E after \in AfterUnmount :
        /\ \/ /\ disk' = after[1]
              /\ promise' = after[2]
              /\ Unmounted
           \/ \E left \in {Absent, Ragged} \union {Blank(k) : k \in 0 .. size} :
                /\ disk' = [after[1] EXCEPT ![p] = left]
                /\ promise' = [after[2] EXCEPT ![p] = << >>]
                /\ Unmounted
           \/ /\ disk' = [after[1] EXCEPT ![p] = Blank(size)]
              /\ promise' = [after[2] EXCEPT ![p] = Blank(size).at]
              /\ Mounts(p, Blank(size))
        /\ Replugged

\* _on_sd_umount
Detach ==
  \E after \in AfterUnmount :
    /\ disk' = after[1]
    /\ promise' = after[2]
    /\ Unmounted
    /\ Replugged

\* The process ends, killed or not: nothing unmounts the image, the open file
\* may or may not be flushed.  A new process is started, in either mode.
Restart ==
  /\ \/ UNCHANGED disk
     \/ /\ blk.path # NoPath
        /\ disk' = [disk EXCEPT ![blk.path] = Flushed(@, blk)]
  /\ mode' \in {"block", "spi"}
  /\ blk' = BlockInit
  /\ spi' = SpiInit
  /\ chosen' = FALSE
  /\ written' = << >>
  /\ strayed' = {}
  /\ UNCHANGED promise

-----------------------------------------------------------------------------
(* Registers of the block device. *)

OnBlock == mode = "block" /\ UNCHANGED <<mode, spi, written, strayed, chosen>>

BlockLba(n) ==
  /\ OnBlock
  /\ blk' = [blk EXCEPT !.lba = n]
  /\ UNCHANGED <<disk, promise>>

BlockData(d) ==
  /\ OnBlock
  /\ blk' = [blk EXCEPT !.buf = d]
  /\ UNCHANGED <<disk, promise>>

\* A command without a medium.
BlockNoMedium ==
  /\ OnBlock
  /\ blk.path = NoPath
  /\ blk' = [blk EXCEPT !.st = {"noMedium", "error"}, !.err = "badImage"]
  /\ UNCHANGED <<disk, promise>>

Mounted == OnBlock /\ blk.path # NoPath

BlockFlush ==
  LET b == ErrorCleared(blk)
  IN  /\ Mounted
      /\ \/ /\ disk' = [disk EXCEPT ![b.path] = Flushed(@, b)]
            /\ blk' = [b EXCEPT !.st = @ \union {"ready"}, !.behind = NoSector]
         \/ /\ blk' = BlockError(b, "io")
            /\ UNCHANGED disk
      /\ UNCHANGED promise

\* _sector_count seeks, which flushes what is behind.  Its error is not caught:
\* the instruction faults, with the error of the last command already cleared.
BlockSeekFails ==
  /\ Mounted
  /\ blk.behind # NoSector
  /\ blk' = ErrorCleared(blk)
  /\ UNCHANGED <<disk, promise>>

\* The device and its file after the seek of _sector_count.
Sought == [ErrorCleared(blk) EXCEPT !.behind = NoSector]
SoughtFile == Flushed(disk[blk.path], blk)

\* The sector does not exist, or the command does not.
BlockRefused ==
  /\ Mounted
  /\ blk' = BlockError(Sought, "badLba")
  /\ disk' = [disk EXCEPT ![blk.path] = SoughtFile]
  /\ UNCHANGED promise

BlockRead ==
  /\ Mounted
  /\ HasSector(SoughtFile, blk.lba)
  /\ \/ blk' = [Sought EXCEPT !.buf = SoughtFile.at[blk.lba], !.st = {"ready"}]
     \/ blk' = BlockError(Sought, "io")
  /\ disk' = [disk EXCEPT ![blk.path] = SoughtFile]
  /\ UNCHANGED promise

\* READY promises the sector; a write that fails takes the promise back.
Promised(old) ==
  [s \in DOMAIN old \union {blk.lba} |-> IF s = blk.lba THEN blk.buf ELSE old[s]]
Withdrawn(old) == [s \in DOMAIN old \ {blk.lba} |-> old[s]]

\* An altered write, against which PromisesKept is validated: it does not flush.
BlockWriteBehind ==
  /\ Mounted
  /\ HasSector(SoughtFile, blk.lba)
  /\ blk' = [Sought EXCEPT !.st = {"ready"},
                           !.behind = [lba |-> blk.lba, data |-> blk.buf]]
  /\ disk' = [disk EXCEPT ![blk.path] = SoughtFile]
  /\ promise' = [promise EXCEPT ![blk.path] = Promised(@)]

\* write() and flush(): done, or an error with the sector still behind, lost, or
\* on the disk all the same.
BlockWrite ==
  LET stored == [disk EXCEPT ![blk.path] = WithSector(SoughtFile, blk.lba, blk.buf)]
      kept == [disk EXCEPT ![blk.path] = SoughtFile]
      failed == BlockError(Sought, "io")
  IN  /\ Mounted
      /\ HasSector(SoughtFile, blk.lba)
      /\ \/ /\ blk' = [Sought EXCEPT !.st = {"ready"}]
            /\ disk' = stored
            /\ promise' = [promise EXCEPT ![blk.path] = Promised(@)]
         \/ /\ \/ /\ blk' = [failed EXCEPT !.behind =
                               [lba |-> blk.lba, data |-> blk.buf]]
                  /\ disk' = kept
               \/ blk' = failed /\ disk' \in {kept, stored}
            /\ promise' = [promise EXCEPT ![blk.path] = Withdrawn(@)]

-----------------------------------------------------------------------------
(* Registers of the SPI device.  The data register looks at no status: a     *)
(* program that writes it without having named a sector of the card writes   *)
(* to the sector whose number has the same low bits.                         *)

OnSpi == mode = "spi" /\ UNCHANGED <<mode, disk, blk, promise>>

SpiControl(en) ==
  /\ OnSpi
  /\ spi' = [spi EXCEPT !.en = en]
  /\ UNCHANGED <<written, strayed, chosen>>

\* REG_ARG and REG_CMD with its start bit, which only an enabled device obeys.
SpiCommand(idx, arg) ==
  /\ OnSpi
  /\ spi' = IF spi.en THEN Commanded(spi, idx, arg) ELSE spi
  /\ chosen' = IF idx \in {17, 24} THEN spi.en /\ ~spi'.error ELSE chosen
  /\ UNCHANGED <<written, strayed>>

\* REG_BLKIDX, which moves the sector of the data register without a command.
SpiBlockIndex(n) ==
  /\ OnSpi
  /\ spi' = [spi EXCEPT !.blkidx = n]
  /\ chosen' = (n \in Card)
  /\ UNCHANGED <<written, strayed>>

\* REG_DATAWR, with an image mounted or without.
SpiWriteData(d) ==
  /\ OnSpi
  /\ spi' = [spi EXCEPT !.card[Slot(spi)] = d]
  /\ IF spi.file /\ chosen
     THEN /\ written' = [s \in DOMAIN written \union {spi.blkidx} |->
                           IF s = spi.blkidx THEN d ELSE written[s]]
          /\ strayed' = strayed \ {spi.blkidx}
     ELSE /\ strayed' = IF spi.file THEN strayed \union {Slot(spi)} ELSE strayed
          /\ UNCHANGED written
  /\ UNCHANGED chosen

-----------------------------------------------------------------------------
User == Detach \/ Restart \/ \E p \in Paths : Attach(p) \/ \E n \in NewSizes : Create(p, n)
BlockProgram ==
  \/ \E n \in Lbas : BlockLba(n)
  \/ \E d \in Data : BlockData(d)
  \/ BlockNoMedium \/ BlockFlush \/ BlockSeekFails \/ BlockRefused \/ BlockRead
  \/ BlockWrite
SpiProgram ==
  \/ \E en \in BOOLEAN : SpiControl(en)
  \/ \E idx \in {0, 8, 55, 41, 1} : SpiCommand(idx, 0)
  \/ \E idx \in {17, 24}, arg \in Lbas : SpiCommand(idx, arg)
  \/ \E n \in Lbas : SpiBlockIndex(n)
  \/ \E d \in Data : SpiWriteData(d)
Next == User \/ BlockProgram \/ SpiProgram

Spec == Init /\ [][Next]_vars

-----------------------------------------------------------------------------
(* Properties. *)

\* Every file holds the sectors it is promised to hold, at every moment at which
\* the process may be killed: those it had, but for the ones a program has written;
\* those whose CMD_WRITE the block device has answered with READY; those of the
\* card once it has been unmounted without an error, which cuts off the others.
\* Sectors of an interrupted write or save are promised nothing.
PromisesKept ==
  \A p \in Paths : \A s \in DOMAIN promise[p] :
    HasSector(disk[p], s) /\ disk[p].at[s] = promise[p][s]

\* While an image is open behind the SPI card, every sector reads as the driver has
\* last written it under its number, and where it has not as the file on the disk
\* holds it, with zeros above its end: although the card outlives unmounts and
\* failed mounts, and the sector register moves without a command.  Writes under a
\* number beyond the card fall into other sectors, which are excepted.
CardShowsImage ==
  mode = "spi" /\ spi.file => \A s \in Card \ strayed : spi.card[s] = Expected(s)
=============================================================================
