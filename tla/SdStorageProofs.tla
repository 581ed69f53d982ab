-------------------------- MODULE SdStorageProofs ---------------------------
(***************************************************************************)
(* The files keep what they are promised to hold and the SPI card shows    *)
(* its image: for cards and images of any size, any files and contents.    *)
(***************************************************************************)
EXTENDS SdStorage, TLAPS

FilesGood(d) == d = [p \in Paths |-> d[p]] /\ \A p \in Paths : FileOK(d[p])

Holds(file, q) == \A s \in DOMAIN q : HasSector(file, s) /\ file.at[s] = q[s]

\* Disks and promises that belong together.
Kept(d, pr) ==
  /\ FilesGood(d)
  /\ pr = [p \in Paths |-> pr[p]]
  /\ \A p \in Paths : Holds(d[p], pr[p])

BlockState ==
  [path : Paths \union {NoPath}, lba : Lbas, buf : Data,
   st : SUBSET {"ready", "error", "noMedium"},
   err : {"none", "badImage", "badLba", "io"}, behind : [lba : Int, data : Data]]

StatusOK(b) ==
  /\ "error" \in b.st <=> b.err # "none"
  /\ b.err # "none" => "ready" \notin b.st
  /\ b.path = NoPath <=> "noMedium" \in b.st

SpiState ==
  [path : Paths \union {NoPath}, file : BOOLEAN, en : BOOLEAN, ready : BOOLEAN,
   app : BOOLEAN, error : BOOLEAN, blkidx : Lbas, card : [Card -> Data]]

\* What a failed write has left behind is promised nowhere, so a later flush breaks
\* no promise; the SPI device has no open file of the block device; the sector
\* the program has named last is one of the card.
BlockOK == blk \in BlockState /\ StatusOK(blk)
SpiOK == spi \in SpiState /\ (spi.file => spi.path # NoPath)
BehindFree ==
  /\ blk.path # NoPath => blk.behind.lba \notin DOMAIN promise[blk.path]
  /\ mode = "spi" => blk.path = NoPath
ChosenOK == chosen => spi.blkidx \in Card

StorageInv ==
  /\ mode \in {"block", "spi"}
  /\ Kept(disk, promise)
  /\ BlockOK
  /\ SpiOK
  /\ BehindFree
  /\ ChosenOK
  /\ CardShowsImage

-----------------------------------------------------------------------------
(* Files. *)

LEMMA WithSectorGood ==
  ASSUME NEW f, FileOK(f), NEW s, HasSector(f, s), NEW d \in Data
  PROVE  /\ FileOK(WithSector(f, s, d))
         /\ WithSector(f, s, d).is = f.is
         /\ DOMAIN WithSector(f, s, d).at = DOMAIN f.at
         /\ WithSector(f, s, d).at[s] = d
         /\ \A x \in DOMAIN f.at : x # s => WithSector(f, s, d).at[x] = f.at[x]
<1> DEFINE at == [f.at EXCEPT ![s] = d]
<1>1. f = [is |-> f.is, at |-> f.at]
  BY DEF FileOK
<1>2. WithSector(f, s, d) = [is |-> f.is, at |-> at]
  BY <1>1 DEF WithSector
<1>3. /\ DOMAIN at = DOMAIN f.at /\ at[s] = d
      /\ \A x \in DOMAIN f.at : x # s => at[x] = f.at[x]
      /\ at = [x \in DOMAIN at |-> at[x]]
  BY DEF FileOK, HasSector
<1> HIDE DEF at
<1>4. \A x \in DOMAIN at : x \in Nat /\ at[x] \in Data
  BY <1>3 DEF FileOK
<1> DEFINE g == WithSector(f, s, d)
<1>5. g = [is |-> g.is, at |-> g.at] /\ g.is = f.is /\ g.at = at
  BY <1>2
<1>6. f.is \in {"absent", "image", "ragged"} /\ f.is = "image"
  BY DEF FileOK, HasSector
<1> HIDE DEF g
<1>7. FileOK(g)
  BY <1>3, <1>4, <1>5, <1>6 DEF FileOK
<1> QED BY <1>3, <1>5, <1>7 DEF g

LEMMA FlushedGood ==
  ASSUME NEW f, FileOK(f), NEW b \in BlockState
  PROVE  /\ FileOK(Flushed(f, b))
         /\ Flushed(f, b).is = f.is
         /\ DOMAIN Flushed(f, b).at = DOMAIN f.at
         /\ \A s \in DOMAIN f.at : s # b.behind.lba => Flushed(f, b).at[s] = f.at[s]
<1>1. b.behind.data \in Data
  BY DEF BlockState
<1> QED BY <1>1, WithSectorGood DEF Flushed

\* A flush breaks no promise.
LEMMA FlushHolds ==
  ASSUME NEW f, FileOK(f), NEW b \in BlockState, NEW q, Holds(f, q),
         b.behind.lba \notin DOMAIN q
  PROVE  Holds(Flushed(f, b), q)
BY FlushedGood DEF Holds, HasSector

\* One file and its promise change.
LEMMA OneFile ==
  ASSUME NEW d, NEW pr, Kept(d, pr), NEW p \in Paths, NEW f, FileOK(f), NEW q,
         Holds(f, q), NEW e, e = [d EXCEPT ![p] = f],
         NEW r, r = [pr EXCEPT ![p] = q]
  PROVE  Kept(e, r)
<1>1. /\ e = [x \in Paths |-> e[x]] /\ e[p] = f
      /\ \A x \in Paths : x # p => e[x] = d[x]
  BY DEF Kept, FilesGood
<1>2. /\ r = [x \in Paths |-> r[x]] /\ r[p] = q
      /\ \A x \in Paths : x # p => r[x] = pr[x]
  BY DEF Kept
<1> QED BY <1>1, <1>2 DEF Kept, FilesGood

\* One file changes and keeps its promise.
LEMMA OneFileKept ==
  ASSUME NEW d, NEW pr, Kept(d, pr), NEW p \in Paths, NEW f, FileOK(f),
         Holds(f, pr[p]), NEW e, e = [d EXCEPT ![p] = f]
  PROVE  Kept(e, pr)
<1>1. /\ e = [x \in Paths |-> e[x]] /\ e[p] = f
      /\ \A x \in Paths : x # p => e[x] = d[x]
  BY DEF Kept, FilesGood
<1> QED BY <1>1 DEF Kept, FilesGood

\* No sector has the number of no sector.
LEMMA NoSectorFree ==
  ASSUME NEW d, NEW pr, Kept(d, pr), NEW p \in Paths
  PROVE  NoSector.lba \notin DOMAIN pr[p]
<1>1. NoSector.lba = -1
  BY DEF NoSector
<1>2. \A s \in DOMAIN pr[p] : s \in Nat
  BY DEF Kept, FilesGood, FileOK, Holds, HasSector
<1> QED BY <1>1, <1>2

LEMMA Devices ==
  /\ NoSector \in [lba : Int, data : Data]
  /\ BlockInit \in BlockState /\ StatusOK(BlockInit)
  /\ BlockInit.path = NoPath /\ BlockInit.behind = NoSector
  /\ SpiInit \in SpiState /\ ~SpiInit.file
<1>1. NoSector \in [lba : Int, data : Data]
  BY SdAssumption DEF NoSector
<1>2. BlockInit \in BlockState
  BY <1>1, SdAssumption DEF BlockInit, BlockState
<1>3. StatusOK(BlockInit) /\ BlockInit.path = NoPath /\ BlockInit.behind = NoSector
  BY DEF BlockInit, StatusOK
<1>4. [s \in Card |-> Zero] \in [Card -> Data] /\ FALSE \in BOOLEAN
  BY SdAssumption
<1>5. SpiInit \in SpiState /\ ~SpiInit.file
  BY <1>4, SdAssumption DEF SpiInit, SpiState
<1> QED BY <1>1, <1>2, <1>3, <1>5

LEMMA InitInv ==
  ASSUME Init
  PROVE  StorageInv
<1>1. disk \in FirstDisks /\ promise = [p \in Paths |-> disk[p].at]
  BY DEF Init
<1>2. FilesGood(disk)
  BY <1>1, StorageAssumption DEF FilesGood
<1>3. \A p \in Paths : Holds(disk[p], promise[p])
  BY <1>1, <1>2 DEF FilesGood, FileOK, Holds, HasSector
<1>4. Kept(disk, promise)
  BY <1>1, <1>2, <1>3 DEF Kept
<1>5. BlockOK /\ SpiOK /\ BehindFree /\ CardShowsImage
  BY Devices DEF Init, BlockOK, SpiOK, BehindFree, CardShowsImage
<1>6. ChosenOK
  BY DEF Init, ChosenOK
<1> QED BY <1>4, <1>5, <1>6 DEF Init, StorageInv

-----------------------------------------------------------------------------
(* Unmounting. *)

LEMMA ImageGood ==
  ASSUME NEW S \in SUBSET Nat, NEW g, g = [s \in S |-> g[s]], \A s \in S : g[s] \in Data
  PROVE  /\ FileOK(Image(g)) /\ Image(g).is = "image" /\ Image(g).at = g
         /\ \A s : HasSector(Image(g), s) <=> s \in S
<1>1. Image(g) = [is |-> "image", at |-> g]
  BY DEF Image
<1>2. DOMAIN g = S
  OBVIOUS
<1> QED BY <1>1, <1>2 DEF FileOK, HasSector

LEMMA CardNat == Card \in SUBSET Nat
BY SdAssumption DEF Card

\* A save brings the card to the file.
LEMMA SavedHolds ==
  ASSUME NEW card \in [Card -> Data], NEW X \in SUBSET Card, NEW q,
         q = [s \in X |-> q[s]], \A s \in X : q[s] = card[s]
  PROVE  FileOK(Saved(card)) /\ Holds(Saved(card), q)
<1> DEFINE g == [s \in Card |-> card[s]]
<1>1. g = [s \in Card |-> g[s]] /\ (\A s \in Card : g[s] \in Data) /\ g = card
  OBVIOUS
<1>2. Saved(card) = Image(g)
  BY DEF Saved
<1> HIDE DEF g
<1>3. /\ FileOK(Image(g)) /\ Image(g).at = g
      /\ \A s : HasSector(Image(g), s) <=> s \in Card
  BY <1>1, CardNat, ImageGood
<1>4. DOMAIN q = X
  OBVIOUS
<1> QED BY <1>1, <1>2, <1>3, <1>4 DEF Holds

\* A save in part leaves what it has not reached, and what it brings anew.
LEMMA SavedInPartHolds ==
  ASSUME NEW card \in [Card -> Data], NEW old, FileOK(old), NEW q, Holds(old, q),
         NEW f \in SavedInPart(card, old), NEW X \in SUBSET DOMAIN q,
         \A x \in X : x \in Card => card[x] = q[x]
  PROVE  FileOK(f) /\ Holds(f, [s \in X |-> q[s]])
<1>1. PICK k \in 0 .. CardSectors :
        f = Image([s \in (0 .. k - 1) \union DOMAIN old.at |->
                     IF s < k THEN card[s] ELSE old.at[s]])
  BY DEF SavedInPart
<1> DEFINE S == (0 .. k - 1) \union DOMAIN old.at
           g == [s \in S |-> IF s < k THEN card[s] ELSE old.at[s]]
<1>2. S \in SUBSET Nat
  BY DEF FileOK
<1>3. \A s \in S : s < k => s \in Card
  BY <1>2, SdAssumption DEF Card
<1>4. \A s \in S : ~(s < k) => s \in DOMAIN old.at
  BY <1>1
<1>5. /\ g = [s \in S |-> g[s]]
      /\ \A s \in S : g[s] = IF s < k THEN card[s] ELSE old.at[s]
  OBVIOUS
<1>6. f = Image(g) /\ DOMAIN old.at \subseteq S
  BY <1>1
<1> HIDE DEF S, g
<1>7. \A s \in S : g[s] \in Data
  BY <1>3, <1>4, <1>5 DEF FileOK
<1>8. FileOK(f) /\ f.at = g /\ \A s : HasSector(f, s) <=> s \in S
  BY <1>2, <1>5, <1>6, <1>7, ImageGood
<1>9. ASSUME NEW s \in X
      PROVE  HasSector(f, s) /\ f.at[s] = q[s]
  <2>1. s \in DOMAIN old.at /\ old.at[s] = q[s]
    BY DEF Holds, HasSector
  <2> QED BY <2>1, <1>3, <1>5, <1>6, <1>8, <1>9
<1> QED BY <1>8, <1>9 DEF Holds

LEMMA UnmountKeeps ==
  ASSUME StorageInv, NEW after \in AfterUnmount
  PROVE  Kept(after[1], after[2])
<1>1. Kept(disk, promise) /\ mode \in {"block", "spi"} /\ blk \in BlockState
  BY DEF StorageInv, BlockOK
<1>2. CASE after = <<disk, promise>>
  BY <1>1, <1>2
<1>3. CASE /\ mode = "block" /\ blk.path # NoPath
           /\ after = <<[disk EXCEPT ![blk.path] = Flushed(@, blk)], promise>>
  <2> DEFINE p == blk.path
             f == Flushed(disk[p], blk)
             e == [disk EXCEPT ![p] = f]
             q == promise[p]
  <2>1. p \in Paths
    BY <1>1, <1>3 DEF BlockState
  <2>2. FileOK(disk[p]) /\ Holds(disk[p], q) /\ blk.behind.lba \notin DOMAIN q
    BY <1>1, <1>3, <2>1 DEF Kept, FilesGood, StorageInv, BehindFree
  <2>3. FileOK(f) /\ Holds(f, q)
    BY <1>1, <2>2, FlushedGood, FlushHolds
  <2>4. promise = [promise EXCEPT ![p] = q]
    BY <1>1, <2>1 DEF Kept
  <2>5. e = [disk EXCEPT ![p] = f]
    OBVIOUS
  <2>6. after[1] = e /\ after[2] = promise
    BY <1>3
  <2> HIDE DEF p, f, e, q
  <2>7. Kept(e, promise)
    BY <1>1, <2>1, <2>3, <2>4, <2>5, OneFile
  <2> QED BY <2>6, <2>7
<1>4. CASE mode = "spi" /\ spi.file
  <2> DEFINE p == spi.path
  <2>1. /\ p \in Paths /\ spi.card \in [Card -> Data]
        /\ \A s \in Card \ strayed : spi.card[s] = Expected(s)
    BY <1>4 DEF StorageInv, SpiOK, SpiState, CardShowsImage
  <2>2. FileOK(disk[p]) /\ Holds(disk[p], promise[p])
    BY <1>1, <2>1 DEF Kept, FilesGood
  <2>3. ASSUME after = <<[disk EXCEPT ![p] = Saved(spi.card)],
                         [promise EXCEPT ![p] = [s \in Card \ strayed |-> Expected(s)]]>>
        PROVE  Kept(after[1], after[2])
    <3> DEFINE X == Card \ strayed
               r == [s \in X |-> Expected(s)]
               g == Saved(spi.card)
    <3>1. X \in SUBSET Card /\ r = [s \in X |-> r[s]] /\ \A s \in X : r[s] = spi.card[s]
      BY <2>1
    <3>2. after[1] = [disk EXCEPT ![p] = g] /\ after[2] = [promise EXCEPT ![p] = r]
      BY <2>3
    <3> HIDE DEF X, r
    <3>3. FileOK(g) /\ Holds(g, r)
      BY <2>1, <3>1, SavedHolds
    <3> HIDE DEF p, g
    <3> QED BY <1>1, <2>1, <3>2, <3>3, OneFile
  <2>4. ASSUME NEW f \in SavedInPart(spi.card, disk[p]),
               after = <<[disk EXCEPT ![p] = f],
                         [promise EXCEPT ![p] =
                            [s \in {x \in DOMAIN @ \ strayed :
                                      x \in DOMAIN written => written[x] = @[x]} |-> @[s]]]>>
        PROVE  Kept(after[1], after[2])
    <3> DEFINE q == promise[p]
               X == {x \in DOMAIN q \ strayed : x \in DOMAIN written => written[x] = q[x]}
               r == [s \in X |-> q[s]]
    <3>1. \A x \in X : x \in Card => spi.card[x] = q[x]
      BY <2>1, <2>2 DEF Expected, OnDisk, Holds
    <3>2. after[1] = [disk EXCEPT ![p] = f] /\ after[2] = [promise EXCEPT ![p] = r]
      BY <2>4
    <3>3. X \in SUBSET DOMAIN q
      OBVIOUS
    <3> HIDE DEF X
    <3>4. FileOK(f) /\ Holds(f, r)
      BY <2>1, <2>2, <3>1, <3>3, SavedInPartHolds
    <3> HIDE DEF p, r
    <3> QED BY <1>1, <2>1, <3>2, <3>4, OneFile
  <2>5. \/ after = <<[disk EXCEPT ![p] = Saved(spi.card)],
                     [promise EXCEPT ![p] = [s \in Card \ strayed |-> Expected(s)]]>>
        \/ \E f \in SavedInPart(spi.card, disk[p]) :
             after = <<[disk EXCEPT ![p] = f],
                       [promise EXCEPT ![p] =
                          [s \in {x \in DOMAIN @ \ strayed :
                                    x \in DOMAIN written => written[x] = @[x]} |-> @[s]]]>>
    BY <1>4 DEF AfterUnmount
  <2> QED BY <2>3, <2>4, <2>5
<1>5. CASE mode = "block" /\ blk.path = NoPath
  BY <1>1, <1>5, <1>2 DEF AfterUnmount
<1>6. CASE mode = "block" /\ blk.path # NoPath
  BY <1>2, <1>3, <1>6 DEF AfterUnmount
<1>7. CASE mode = "spi" /\ ~spi.file
  BY <1>2, <1>7 DEF AfterUnmount
<1> QED BY <1>1, <1>4, <1>5, <1>6, <1>7

-----------------------------------------------------------------------------
(* The user. *)

LEMMA BlockTypes ==
  ASSUME NEW b \in BlockState, StatusOK(b)
  PROVE  /\ BlockUnmounted(b) \in BlockState /\ StatusOK(BlockUnmounted(b))
         /\ BlockUnmounted(b).path = NoPath
         /\ \A p \in Paths : /\ BlockMounted(b, p) \in BlockState
                              /\ StatusOK(BlockMounted(b, p))
                              /\ BlockMounted(b, p).path = p
                              /\ BlockMounted(b, p).behind = NoSector
<1>1. NoSector \in [lba : Int, data : Data]
  BY Devices
<1>2. /\ BlockUnmounted(b) \in BlockState
      /\ BlockUnmounted(b).path = NoPath /\ BlockUnmounted(b).st = {"noMedium"}
      /\ BlockUnmounted(b).err = "none"
  BY <1>1 DEF BlockUnmounted, BlockState
<1>3. ASSUME NEW p \in Paths
      PROVE  /\ BlockMounted(b, p) \in BlockState
             /\ BlockMounted(b, p).path = p /\ BlockMounted(b, p).st = {"ready"}
             /\ BlockMounted(b, p).err = "none" /\ BlockMounted(b, p).behind = NoSector
  BY <1>1 DEF BlockMounted, BlockState
<1> QED BY <1>2, <1>3, SdAssumption DEF StatusOK

LEMMA SpiTypes ==
  ASSUME NEW v \in SpiState
  PROVE  LET out == SpiUnmounted(v)
         IN  /\ out \in SpiState /\ ~out.file /\ out.blkidx = v.blkidx
             /\ \A p \in Paths : /\ [out EXCEPT !.path = p] \in SpiState
                                  /\ ~[out EXCEPT !.path = p].file
                                  /\ [out EXCEPT !.path = p].blkidx = v.blkidx
<1> DEFINE no == FALSE
           out == SpiUnmounted(v)
<1>1. no \in BOOLEAN /\ ~no
  OBVIOUS
<1>2. out = [v EXCEPT !.path = NoPath, !.file = no, !.ready = no]
  BY DEF SpiUnmounted
<1> HIDE DEF no, out
<1>3. out \in SpiState /\ out.file = no /\ out.blkidx = v.blkidx
  BY <1>1, <1>2 DEF SpiState
<1>4. ASSUME NEW p \in Paths
      PROVE  /\ [out EXCEPT !.path = p] \in SpiState
             /\ [out EXCEPT !.path = p].file = no
             /\ [out EXCEPT !.path = p].blkidx = v.blkidx
  BY <1>3 DEF SpiState
<1> QED BY <1>1, <1>3, <1>4 DEF out

\* The card that shows an image.
CardOf(file) == [s \in Card |-> IF HasSector(file, s) THEN file.at[s] ELSE Zero]

LEMMA LoadedTypes ==
  ASSUME NEW v \in SpiState, NEW file, FileOK(file)
  PROVE  /\ CardOf(file) \in [Card -> Data]
         /\ Loaded(v, file) \in SpiState /\ Loaded(v, file).card = CardOf(file)
         /\ Loaded(v, file).blkidx = v.blkidx
<1> DEFINE yes == TRUE
           card == CardOf(file)
<1>1. yes \in BOOLEAN
  OBVIOUS
<1>2. card \in [Card -> Data]
  BY SdAssumption DEF FileOK, HasSector, CardOf
<1>3. Loaded(v, file) = [v EXCEPT !.card = card, !.file = yes]
  BY DEF Loaded, CardOf
<1> HIDE DEF yes, card
<1>4. /\ Loaded(v, file) \in SpiState /\ Loaded(v, file).card = card
      /\ Loaded(v, file).blkidx = v.blkidx
  BY <1>1, <1>2, <1>3 DEF SpiState
<1> QED BY <1>2, <1>4 DEF card

\* After an unmount any mount, or none, leaves the devices in order.
LEMMA MountsStep ==
  ASSUME StorageInv, NEW p \in Paths, NEW file, FileOK(file), Mounts(p, file),
         Kept(disk', promise'), file = disk'[p], Replugged
  PROVE  StorageInv'
<1>1. /\ mode \in {"block", "spi"} /\ blk \in BlockState /\ StatusOK(blk)
      /\ spi \in SpiState /\ (spi.file => spi.path # NoPath)
      /\ (chosen => spi.blkidx \in Card)
      /\ (mode = "spi" => blk.path = NoPath)
      /\ mode' = mode /\ chosen' = chosen /\ written' = << >> /\ strayed' = {}
  BY DEF StorageInv, BlockOK, SpiOK, ChosenOK, BehindFree, Replugged
<1>2. CASE mode = "block" /\ BlockMounts(p, file)
  <2>1. /\ blk' \in BlockState /\ StatusOK(blk')
        /\ blk'.path = NoPath \/ (blk'.path = p /\ blk'.behind = NoSector)
    BY <1>1, <1>2, BlockTypes DEF BlockMounts
  <2>2. BlockOK' /\ SpiOK' /\ ChosenOK' /\ CardShowsImage'
    BY <1>1, <1>2, <2>1 DEF BlockMounts, BlockOK, SpiOK, ChosenOK, CardShowsImage, Card
  <2>3. NoSector.lba \notin DOMAIN promise'[p]
    BY NoSectorFree
  <2>4. BehindFree'
    BY <1>1, <1>2, <2>1, <2>3 DEF BehindFree
  <2> QED BY <1>1, <2>2, <2>4 DEF StorageInv
<1>3. CASE mode = "spi" /\ SpiMounts(p, file)
  <2> DEFINE out == SpiUnmounted(spi)
             card == CardOf(file)
  <2>1. out \in SpiState /\ ~out.file /\ out.blkidx = spi.blkidx
    BY <1>1, SpiTypes
  <2>2. \/ spi' = [Loaded(out, file) EXCEPT !.path = p]
        \/ spi' = [Loaded(out, file) EXCEPT !.file = FALSE]
        \/ spi' = [out EXCEPT !.path = p]
        \/ spi' = out
    BY <1>3 DEF SpiMounts
  <2>3. /\ spi' \in SpiState
        /\ spi'.blkidx = spi.blkidx
        /\ spi'.file => spi'.path = p /\ spi'.card = card
    <3> DEFINE l == Loaded(out, file)
    <3> HIDE DEF out
    <3>0. /\ l \in SpiState /\ l.card = card /\ l.blkidx = out.blkidx
          /\ card \in [Card -> Data]
      BY <2>1, LoadedTypes
    <3> HIDE DEF l, card
    <3>1. CASE spi' = [l EXCEPT !.path = p]
      <4>1. [l EXCEPT !.path = p] \in SpiState
        BY <3>0 DEF SpiState
      <4>2. /\ [l EXCEPT !.path = p].path = p /\ [l EXCEPT !.path = p].card = card
            /\ [l EXCEPT !.path = p].blkidx = l.blkidx
        BY <3>0 DEF SpiState
      <4> QED BY <3>0, <3>1, <4>1, <4>2, <2>1
    <3>2. CASE spi' = [l EXCEPT !.file = FALSE]
      <4> DEFINE no == FALSE
                 shut == [l EXCEPT !.file = no]
      <4>1. no \in BOOLEAN /\ ~no /\ spi' = shut
        BY <3>2
      <4> HIDE DEF no
      <4>2. shut \in SpiState /\ shut.file = no /\ shut.blkidx = l.blkidx
        BY <3>0, <4>1 DEF SpiState
      <4> HIDE DEF shut
      <4> QED BY <3>0, <4>1, <4>2, <2>1
    <3>3. CASE spi' = [out EXCEPT !.path = p]
      BY <3>3, <1>1, <2>1, SpiTypes DEF out
    <3>4. CASE spi' = out
      BY <3>4, <1>1, <2>1
    <3> QED BY <2>2, <3>1, <3>2, <3>3, <3>4 DEF out, l, card
  <2>4. UNCHANGED blk
    BY <1>3 DEF SpiMounts
  <2>5. BlockOK' /\ BehindFree'
    BY <1>1, <1>3, <2>4 DEF BlockOK, BehindFree, StatusOK
  <2>6. CardShowsImage'
    <3>1. ASSUME spi'.file, NEW s \in Card
          PROVE  spi'.card[s] = IF HasSector(disk'[spi'.path], s)
                                THEN disk'[spi'.path].at[s] ELSE Zero
      BY <2>3, <3>1 DEF CardOf
    <3> QED BY <1>1, <3>1 DEF CardShowsImage, Expected, OnDisk, HasSector, Card
  <2>7. SpiOK' /\ ChosenOK'
    BY <1>1, <2>3, SdAssumption DEF SpiOK, ChosenOK, Card
  <2> QED BY <1>1, <2>5, <2>6, <2>7 DEF StorageInv
<1> QED BY <1>2, <1>3 DEF Mounts

\* The device in use is unmounted and nothing mounted.
LEMMA UnmountedStep ==
  ASSUME StorageInv, Kept(disk', promise'), Unmounted, Replugged
  PROVE  StorageInv'
<1>1. /\ mode \in {"block", "spi"} /\ blk \in BlockState /\ StatusOK(blk)
      /\ spi \in SpiState /\ (spi.file => spi.path # NoPath)
      /\ (chosen => spi.blkidx \in Card)
      /\ (mode = "spi" => blk.path = NoPath)
      /\ mode' = mode /\ chosen' = chosen
      /\ blk' = IF mode = "block" THEN BlockUnmounted(blk) ELSE blk
      /\ spi' = IF mode = "spi" THEN SpiUnmounted(spi) ELSE spi
  BY DEF StorageInv, BlockOK, SpiOK, ChosenOK, BehindFree, Replugged, Unmounted
<1>2. blk' \in BlockState /\ StatusOK(blk') /\ blk'.path = NoPath
  BY <1>1, BlockTypes
<1>3. /\ spi' \in SpiState /\ spi'.blkidx = spi.blkidx
      /\ spi'.file => spi'.path # NoPath /\ mode = "block"
  BY <1>1, SpiTypes
<1>4. BlockOK' /\ BehindFree'
  BY <1>2 DEF BlockOK, BehindFree
<1>5. SpiOK' /\ ChosenOK' /\ CardShowsImage'
  BY <1>1, <1>3, SdAssumption DEF SpiOK, ChosenOK, CardShowsImage, Card
<1> QED BY <1>1, <1>4, <1>5 DEF StorageInv

LEMMA DetachStep ==
  ASSUME StorageInv, Detach
  PROVE  StorageInv'
BY UnmountKeeps, UnmountedStep DEF Detach

LEMMA AttachStep ==
  ASSUME StorageInv, NEW p \in Paths, Attach(p)
  PROVE  StorageInv'
<1>1. PICK after \in AfterUnmount :
        /\ disk' = after[1] /\ promise' = after[2]
        /\ Mounts(p, after[1][p])
        /\ Replugged
  BY DEF Attach
<1>2. Kept(disk', promise')
  BY <1>1, UnmountKeeps
<1>3. FileOK(after[1][p])
  BY <1>1, <1>2 DEF Kept, FilesGood
<1> QED BY <1>1, <1>2, <1>3, MountsStep

LEMMA MadeGood ==
  ASSUME NEW size \in Nat
  PROVE  FileOK(Blank(size)) /\ Holds(Blank(size), Blank(size).at)
<1> DEFINE made == Blank(size)
           S == 0 .. size - 1
           g == [s \in S |-> Zero]
<1>1. S \in SUBSET Nat /\ g = [s \in S |-> g[s]] /\ \A s \in S : g[s] \in Data
  BY SdAssumption
<1>2. made = Image(g) /\ DOMAIN g = S
  BY DEF Blank
<1> HIDE DEF S, g
<1>3. FileOK(made) /\ made.at = g /\ \A s : HasSector(made, s) <=> s \in S
  BY <1>1, <1>2, ImageGood
<1> QED BY <1>2, <1>3 DEF Holds

\* What is left of a file whose creation fails, of which nothing is promised.
LEMMA LeftGood ==
  ASSUME NEW size \in Nat,
         NEW left \in {Absent, Ragged} \union {Blank(k) : k \in 0 .. size}
  PROVE  FileOK(left) /\ Holds(left, << >>)
<1>1. \A k \in 0 .. size : FileOK(Blank(k))
  BY MadeGood
<1>2. FileOK(Absent) /\ FileOK(Ragged)
  BY DEF Absent, Ragged, FileOK
<1> QED BY <1>1, <1>2 DEF Holds

LEMMA CreateStep ==
  ASSUME StorageInv, NEW p \in Paths, NEW n \in NewSizes, Create(p, n)
  PROVE  StorageInv'
<1> DEFINE size == IF mode = "spi" /\ n > CardSectors THEN CardSectors ELSE n
<1>1. PICK after \in AfterUnmount :
        /\ \/ disk' = after[1] /\ promise' = after[2] /\ Unmounted
           \/ \E left \in {Absent, Ragged} \union {Blank(k) : k \in 0 .. size} :
                /\ disk' = [after[1] EXCEPT ![p] = left]
                /\ promise' = [after[2] EXCEPT ![p] = << >>]
                /\ Unmounted
           \/ /\ disk' = [after[1] EXCEPT ![p] = Blank(size)]
              /\ promise' = [after[2] EXCEPT ![p] = Blank(size).at]
              /\ Mounts(p, Blank(size))
        /\ Replugged
  BY DEF Create
<1>2. size \in Nat
  BY SdAssumption, StorageAssumption
<1> HIDE DEF size
<1>3. Kept(after[1], after[2])
  BY UnmountKeeps
<1>4. CASE disk' = after[1] /\ promise' = after[2] /\ Unmounted
  BY <1>1, <1>3, <1>4, UnmountedStep
<1>5. ASSUME NEW left \in {Absent, Ragged} \union {Blank(k) : k \in 0 .. size},
             disk' = [after[1] EXCEPT ![p] = left],
             promise' = [after[2] EXCEPT ![p] = << >>], Unmounted
      PROVE  StorageInv'
  <2>1. Kept(disk', promise')
    BY <1>2, <1>3, <1>5, LeftGood, OneFile
  <2> QED BY <1>1, <1>5, <2>1, UnmountedStep
<1>6. CASE /\ disk' = [after[1] EXCEPT ![p] = Blank(size)]
           /\ promise' = [after[2] EXCEPT ![p] = Blank(size).at]
           /\ Mounts(p, Blank(size))
  <2>1. FileOK(Blank(size)) /\ Holds(Blank(size), Blank(size).at)
    BY <1>2, MadeGood
  <2>2. Kept(disk', promise')
    BY <1>3, <1>6, <2>1, OneFile
  <2>3. disk'[p] = Blank(size)
    BY <1>3, <1>6 DEF Kept, FilesGood
  <2> QED BY <1>1, <1>6, <2>1, <2>2, <2>3, MountsStep
<1> QED BY <1>1, <1>4, <1>5, <1>6

\* A flush of what is behind, at the end of the process or before a command.
LEMMA FlushKeeps ==
  ASSUME StorageInv, blk.path # NoPath, NEW b \in BlockState, b.path = blk.path,
         b.behind = blk.behind, NEW e, e = [disk EXCEPT ![blk.path] = Flushed(@, b)]
  PROVE  /\ blk.path \in Paths
         /\ FileOK(Flushed(disk[blk.path], b))
         /\ Holds(Flushed(disk[blk.path], b), promise[blk.path])
         /\ Kept(e, promise)
<1> DEFINE p == blk.path
           f == Flushed(disk[p], b)
           q == promise[p]
<1>1. /\ p \in Paths /\ Kept(disk, promise) /\ b.behind.lba \notin DOMAIN q
  BY DEF StorageInv, BlockOK, BehindFree, BlockState
<1>2. FileOK(disk[p]) /\ Holds(disk[p], q)
  BY <1>1 DEF Kept, FilesGood
<1>3. FileOK(f) /\ Holds(f, q)
  BY <1>1, <1>2, FlushedGood, FlushHolds
<1> QED BY <1>1, <1>2, <1>3, OneFileKept

LEMMA RestartStep ==
  ASSUME StorageInv, Restart
  PROVE  StorageInv'
<1>1. Kept(disk', promise')
  <2>1. promise' = promise /\ blk \in BlockState /\ Kept(disk, promise)
    BY DEF Restart, StorageInv, BlockOK
  <2>2. CASE disk' = disk
    BY <2>1, <2>2
  <2>3. CASE blk.path # NoPath /\ disk' = [disk EXCEPT ![blk.path] = Flushed(@, blk)]
    BY <2>1, <2>3, FlushKeeps
  <2> QED BY <2>2, <2>3 DEF Restart
<1>2. /\ mode' \in {"block", "spi"} /\ blk' = BlockInit /\ spi' = SpiInit
      /\ chosen' = FALSE
  BY DEF Restart
<1>3. BlockOK' /\ SpiOK' /\ BehindFree' /\ CardShowsImage'
  BY <1>2, Devices DEF BlockOK, SpiOK, BehindFree, CardShowsImage
<1>4. ChosenOK'
  BY <1>2 DEF ChosenOK
<1> QED BY <1>1, <1>2, <1>3, <1>4 DEF StorageInv
-----------------------------------------------------------------------------
(* The program of the block device. *)

\* A command keeps the promises, and leaves nothing promised behind.
LEMMA BlockStep ==
  ASSUME StorageInv, OnBlock, blk' \in BlockState, StatusOK(blk'),
         Kept(disk', promise'),
         blk'.path # NoPath => blk'.behind.lba \notin DOMAIN promise'[blk'.path]
  PROVE  StorageInv'
<1>1. mode' = "block" /\ UNCHANGED <<spi, chosen>>
  BY DEF OnBlock
<1>2. BlockOK' /\ BehindFree' /\ CardShowsImage'
  BY <1>1 DEF BlockOK, BehindFree, CardShowsImage
<1>3. SpiOK' /\ ChosenOK'
  BY <1>1 DEF StorageInv, SpiOK, ChosenOK, Card
<1> QED BY <1>1, <1>2, <1>3 DEF StorageInv

\* What a command makes of the device.
LEMMA BlockResults ==
  ASSUME NEW b \in BlockState, StatusOK(b)
  PROVE  LET c == ErrorCleared(b)
         IN  /\ c \in BlockState /\ StatusOK(c) /\ c.err = "none"
             /\ c.path = b.path /\ c.behind = b.behind
             /\ c.lba = b.lba /\ c.buf = b.buf
             /\ \A code \in {"badLba", "io"} :
                  /\ BlockError(b, code) \in BlockState /\ StatusOK(BlockError(b, code))
                  /\ BlockError(b, code).path = b.path
                  /\ BlockError(b, code).behind = b.behind
                  /\ BlockError(b, code).lba = b.lba /\ BlockError(b, code).buf = b.buf
<1> DEFINE c == ErrorCleared(b)
<1>1. /\ c \in BlockState /\ c.st = b.st \ {"error"} /\ c.err = "none"
      /\ c.path = b.path /\ c.behind = b.behind
      /\ c.lba = b.lba /\ c.buf = b.buf
  BY DEF ErrorCleared, BlockState
<1> HIDE DEF c
<1>2. StatusOK(c)
  BY <1>1 DEF StatusOK
<1>3. ASSUME NEW code \in {"badLba", "io"}
      PROVE  LET e == BlockError(b, code)
             IN  /\ e \in BlockState /\ StatusOK(e)
                 /\ e.path = b.path /\ e.behind = b.behind
                 /\ e.lba = b.lba /\ e.buf = b.buf
  <2> DEFINE e == BlockError(b, code)
  <2>1. /\ e \in BlockState /\ e.st = (b.st \union {"error"}) \ {"ready"}
        /\ e.err = code /\ e.path = b.path /\ e.behind = b.behind
        /\ e.lba = b.lba /\ e.buf = b.buf
    BY DEF BlockError, BlockState
  <2> HIDE DEF e
  <2>2. StatusOK(e)
    BY <2>1 DEF StatusOK
  <2> QED BY <2>1, <2>2 DEF e
<1> QED BY <1>1, <1>2, <1>3 DEF c

\* The registers do not touch the status.
LEMMA BlockRegisters ==
  ASSUME NEW b \in BlockState, StatusOK(b)
  PROVE  /\ \A n \in Lbas : LET c == [b EXCEPT !.lba = n]
                           IN  /\ c \in BlockState /\ StatusOK(c)
                               /\ c.path = b.path /\ c.behind = b.behind
         /\ \A d \in Data : LET c == [b EXCEPT !.buf = d]
                           IN  /\ c \in BlockState /\ StatusOK(c)
                               /\ c.path = b.path /\ c.behind = b.behind
BY DEF BlockState, StatusOK

LEMMA RegisterStep ==
  ASSUME StorageInv,
         (\E n \in Lbas : BlockLba(n)) \/ (\E d \in Data : BlockData(d))
  PROVE  StorageInv'
<1>1. blk \in BlockState /\ StatusOK(blk) /\ Kept(disk, promise) /\ BehindFree
  BY DEF StorageInv, BlockOK
<1>2. OnBlock /\ UNCHANGED <<disk, promise>>
  BY DEF BlockLba, BlockData
<1>3. \/ \E n \in Lbas : blk' = [blk EXCEPT !.lba = n]
      \/ \E d \in Data : blk' = [blk EXCEPT !.buf = d]
  BY DEF BlockLba, BlockData
<1>4. /\ blk' \in BlockState /\ StatusOK(blk')
      /\ blk'.path = blk.path /\ blk'.behind = blk.behind
  BY <1>1, <1>3, BlockRegisters
<1>5. blk'.path # NoPath => blk'.behind.lba \notin DOMAIN promise'[blk'.path]
  BY <1>1, <1>2, <1>4 DEF BehindFree
<1>6. Kept(disk', promise')
  BY <1>1, <1>2
<1> QED BY <1>2, <1>4, <1>5, <1>6, BlockStep

LEMMA NoMediumStep ==
  ASSUME StorageInv, BlockNoMedium
  PROVE  StorageInv'
<1>1. blk \in BlockState /\ Kept(disk, promise) /\ blk.path = NoPath
  BY DEF StorageInv, BlockOK, BlockNoMedium
<1>2. OnBlock /\ UNCHANGED <<disk, promise>>
      /\ blk' = [blk EXCEPT !.st = {"noMedium", "error"}, !.err = "badImage"]
  BY DEF BlockNoMedium
<1>3. /\ blk' \in BlockState /\ blk'.path = NoPath
      /\ blk'.st = {"noMedium", "error"} /\ blk'.err = "badImage"
  BY <1>1, <1>2 DEF BlockState
<1>4. StatusOK(blk')
  BY <1>3 DEF StatusOK
<1>5. Kept(disk', promise')
  BY <1>1, <1>2
<1> QED BY <1>2, <1>3, <1>4, <1>5, BlockStep

LEMMA FlushStep ==
  ASSUME StorageInv, BlockFlush
  PROVE  StorageInv'
<1> DEFINE b == ErrorCleared(blk)
<1>1. blk \in BlockState /\ StatusOK(blk) /\ Kept(disk, promise) /\ BehindFree
  BY DEF StorageInv, BlockOK
<1>2. OnBlock /\ blk.path # NoPath /\ promise' = promise
  BY DEF BlockFlush, Mounted
<1>3. /\ b \in BlockState /\ StatusOK(b) /\ b.err = "none"
      /\ b.path = blk.path /\ b.behind = blk.behind
  BY <1>1, BlockResults
<1>4. \/ /\ disk' = [disk EXCEPT ![b.path] = Flushed(@, b)]
         /\ blk' = [b EXCEPT !.st = @ \union {"ready"}, !.behind = NoSector]
      \/ blk' = BlockError(b, "io") /\ disk' = disk
  BY DEF BlockFlush
<1> HIDE DEF b
<1>5. CASE /\ disk' = [disk EXCEPT ![b.path] = Flushed(@, b)]
           /\ blk' = [b EXCEPT !.st = @ \union {"ready"}, !.behind = NoSector]
  <2>1. blk.path \in Paths /\ Kept(disk', promise')
    BY <1>2, <1>3, <1>5, FlushKeeps
  <2>2. /\ blk' \in BlockState /\ blk'.path = b.path /\ blk'.behind = NoSector
        /\ blk'.st = b.st \union {"ready"} /\ blk'.err = b.err
    BY <1>3, <1>5, Devices DEF BlockState
  <2>3. StatusOK(blk')
    BY <1>3, <2>2 DEF StatusOK
  <2>4. NoSector.lba \notin DOMAIN promise'[blk.path]
    BY <2>1, NoSectorFree
  <2> QED BY <1>2, <1>3, <2>1, <2>2, <2>3, <2>4, BlockStep
<1>6. CASE blk' = BlockError(b, "io") /\ disk' = disk
  <2>1. /\ blk' \in BlockState /\ StatusOK(blk')
        /\ blk'.path = blk.path /\ blk'.behind = blk.behind
    BY <1>3, <1>6, BlockResults
  <2>2. blk'.behind.lba \notin DOMAIN promise'[blk'.path]
    BY <1>1, <1>2, <2>1 DEF BehindFree
  <2>3. Kept(disk', promise')
    BY <1>1, <1>2, <1>6
  <2> QED BY <1>2, <2>1, <2>2, <2>3, BlockStep
<1> QED BY <1>4, <1>5, <1>6

LEMMA SeekFailsStep ==
  ASSUME StorageInv, BlockSeekFails
  PROVE  StorageInv'
<1>1. blk \in BlockState /\ StatusOK(blk) /\ Kept(disk, promise) /\ BehindFree
  BY DEF StorageInv, BlockOK
<1>2. OnBlock /\ UNCHANGED <<disk, promise>> /\ blk' = ErrorCleared(blk)
  BY DEF BlockSeekFails, Mounted
<1>3. /\ blk' \in BlockState /\ StatusOK(blk')
      /\ blk'.path = blk.path /\ blk'.behind = blk.behind
  BY <1>1, <1>2, BlockResults
<1>4. blk'.path # NoPath => blk'.behind.lba \notin DOMAIN promise'[blk'.path]
  BY <1>1, <1>2, <1>3 DEF BehindFree
<1>5. Kept(disk', promise')
  BY <1>1, <1>2
<1> QED BY <1>2, <1>3, <1>4, <1>5, BlockStep

\* The seek of _sector_count has flushed the file.
LEMMA SoughtGood ==
  ASSUME StorageInv, Mounted
  PROVE  /\ blk.path \in Paths
         /\ Sought \in BlockState /\ StatusOK(Sought) /\ Sought.err = "none"
         /\ Sought.path = blk.path /\ Sought.behind = NoSector
         /\ Sought.lba = blk.lba /\ Sought.buf = blk.buf
         /\ FileOK(SoughtFile) /\ Holds(SoughtFile, promise[blk.path])
         /\ Kept([disk EXCEPT ![blk.path] = SoughtFile], promise)
         /\ NoSector.lba \notin DOMAIN promise[blk.path]
<1> DEFINE b == ErrorCleared(blk)
<1>1. blk \in BlockState /\ StatusOK(blk) /\ blk.path # NoPath /\ Kept(disk, promise)
  BY DEF StorageInv, BlockOK, Mounted
<1>2. /\ b \in BlockState /\ StatusOK(b) /\ b.err = "none" /\ b.path = blk.path
      /\ b.lba = blk.lba /\ b.buf = blk.buf
  BY <1>1, BlockResults
<1>3. Sought = [b EXCEPT !.behind = NoSector]
  BY DEF Sought
<1> HIDE DEF b
<1>4. /\ Sought \in BlockState /\ Sought.st = b.st /\ Sought.err = b.err
      /\ Sought.path = b.path /\ Sought.behind = NoSector
      /\ Sought.lba = b.lba /\ Sought.buf = b.buf
  BY <1>2, <1>3, Devices DEF BlockState
<1>5. StatusOK(Sought)
  BY <1>2, <1>4 DEF StatusOK
<1>6. /\ blk.path \in Paths
      /\ FileOK(SoughtFile) /\ Holds(SoughtFile, promise[blk.path])
      /\ Kept([disk EXCEPT ![blk.path] = SoughtFile], promise)
  BY <1>1, FlushKeeps DEF SoughtFile
<1>7. NoSector.lba \notin DOMAIN promise[blk.path]
  BY <1>1, <1>6, NoSectorFree
<1> QED BY <1>2, <1>4, <1>5, <1>6, <1>7

LEMMA RefusedStep ==
  ASSUME StorageInv, BlockRefused
  PROVE  StorageInv'
<1>1. /\ Mounted /\ OnBlock /\ promise' = promise
      /\ blk' = BlockError(Sought, "badLba")
      /\ disk' = [disk EXCEPT ![blk.path] = SoughtFile]
  BY DEF BlockRefused, Mounted
<1>2. /\ blk' \in BlockState /\ StatusOK(blk')
      /\ blk'.path = blk.path /\ blk'.behind = NoSector
  BY <1>1, SoughtGood, BlockResults
<1> QED BY <1>1, <1>2, SoughtGood, BlockStep

LEMMA ReadStep ==
  ASSUME StorageInv, BlockRead
  PROVE  StorageInv'
<1>1. /\ Mounted /\ OnBlock /\ promise' = promise
      /\ HasSector(SoughtFile, blk.lba)
      /\ disk' = [disk EXCEPT ![blk.path] = SoughtFile]
  BY DEF BlockRead, Mounted
<1>2. /\ Sought \in BlockState /\ StatusOK(Sought) /\ Sought.err = "none"
      /\ Sought.path = blk.path /\ Sought.path # NoPath /\ Sought.behind = NoSector
      /\ SoughtFile.at[blk.lba] \in Data
  BY <1>1, SoughtGood DEF FileOK, HasSector, Mounted
<1>3. CASE blk' = [Sought EXCEPT !.buf = SoughtFile.at[blk.lba], !.st = {"ready"}]
  <2>1. /\ blk' \in BlockState /\ blk'.path = Sought.path
        /\ blk'.behind = NoSector /\ blk'.st = {"ready"} /\ blk'.err = Sought.err
    BY <1>2, <1>3 DEF BlockState
  <2>2. StatusOK(blk')
    BY <1>2, <2>1 DEF StatusOK
  <2> QED BY <1>1, <1>2, <2>1, <2>2, SoughtGood, BlockStep
<1>4. CASE blk' = BlockError(Sought, "io")
  <2>1. /\ blk' \in BlockState /\ StatusOK(blk')
        /\ blk'.path = blk.path /\ blk'.behind = NoSector
    BY <1>2, <1>4, BlockResults
  <2> QED BY <1>1, <2>1, SoughtGood, BlockStep
<1> QED BY <1>3, <1>4 DEF BlockRead

\* A sector written and promised, or of which nothing is promised any more.
LEMMA Writing ==
  ASSUME NEW f, FileOK(f), NEW q, Holds(f, q), HasSector(f, blk.lba), blk.buf \in Data
  PROVE  LET g == WithSector(f, blk.lba, blk.buf)
         IN  /\ FileOK(g)
             /\ Holds(g, Promised(q)) /\ Holds(g, Withdrawn(q)) /\ Holds(f, Withdrawn(q))
             /\ blk.lba \notin DOMAIN Withdrawn(q)
             /\ DOMAIN Withdrawn(q) \subseteq DOMAIN q
<1> DEFINE g == WithSector(f, blk.lba, blk.buf)
<1>1. /\ FileOK(g) /\ g.is = f.is /\ DOMAIN g.at = DOMAIN f.at
      /\ g.at[blk.lba] = blk.buf
      /\ \A x \in DOMAIN f.at : x # blk.lba => g.at[x] = f.at[x]
  BY WithSectorGood
<1> HIDE DEF g
<1>2. Holds(g, Promised(q))
  BY <1>1 DEF Holds, HasSector, Promised
<1>3. Holds(g, Withdrawn(q)) /\ Holds(f, Withdrawn(q))
  BY <1>1 DEF Holds, HasSector, Withdrawn
<1>4. blk.lba \notin DOMAIN Withdrawn(q) /\ DOMAIN Withdrawn(q) \subseteq DOMAIN q
  BY DEF Withdrawn
<1> QED BY <1>1, <1>2, <1>3, <1>4 DEF g

LEMMA WriteStep ==
  ASSUME StorageInv, BlockWrite
  PROVE  StorageInv'
<1> DEFINE p == blk.path
           f == SoughtFile
           g == WithSector(f, blk.lba, blk.buf)
           q == promise[p]
           failed == BlockError(Sought, "io")
           left == [lba |-> blk.lba, data |-> blk.buf]
<1>1. Mounted /\ OnBlock /\ HasSector(f, blk.lba) /\ p # NoPath
  BY DEF BlockWrite, Mounted
<1>2. /\ p \in Paths /\ FileOK(f) /\ Holds(f, q)
      /\ Kept(disk, promise) /\ NoSector.lba \notin DOMAIN q
      /\ blk.buf \in Data /\ blk.lba \in Nat
  BY <1>1, SoughtGood, SdAssumption DEF StorageInv, BlockOK, BlockState
<1>3. /\ FileOK(g)
      /\ Holds(g, Promised(q)) /\ Holds(g, Withdrawn(q)) /\ Holds(f, Withdrawn(q))
      /\ blk.lba \notin DOMAIN Withdrawn(q) /\ NoSector.lba \notin DOMAIN Withdrawn(q)
  BY <1>1, <1>2, Writing
<1>4. /\ Sought \in BlockState /\ StatusOK(Sought) /\ Sought.err = "none"
      /\ Sought.path = p /\ Sought.behind = NoSector
  BY <1>1, SoughtGood
<1>5. /\ failed \in BlockState /\ StatusOK(failed)
      /\ failed.path = p /\ failed.behind = NoSector
  BY <1>4, BlockResults
<1>6. CASE /\ blk' = [Sought EXCEPT !.st = {"ready"}]
           /\ disk' = [disk EXCEPT ![p] = g]
           /\ promise' = [promise EXCEPT ![p] = Promised(@)]
  <2>1. /\ blk' \in BlockState /\ blk'.path = p /\ blk'.behind = NoSector
        /\ blk'.st = {"ready"} /\ blk'.err = "none"
    BY <1>4, <1>6 DEF BlockState
  <2>2. StatusOK(blk')
    BY <1>1, <2>1 DEF StatusOK
  <2>3. Kept(disk', promise')
    BY <1>2, <1>3, <1>6, OneFile
  <2>4. blk'.behind.lba \notin DOMAIN promise'[blk'.path]
    BY <1>2, <2>1, <2>3, NoSectorFree
  <2> QED BY <1>1, <2>1, <2>2, <2>3, <2>4, BlockStep
<1>7. CASE /\ promise' = [promise EXCEPT ![p] = Withdrawn(@)]
           /\ disk' \in {[disk EXCEPT ![p] = f], [disk EXCEPT ![p] = g]}
           /\ blk' \in {failed, [failed EXCEPT !.behind = left]}
  <2>1. Kept(disk', promise')
    BY <1>2, <1>3, <1>7, OneFile
  <2>2. promise'[p] = Withdrawn(q)
    BY <1>2, <1>7 DEF Kept
  <2>3. left \in [lba : Int, data : Data] /\ left.lba = blk.lba
    BY <1>2
  <2> HIDE DEF left, failed
  <2>4. /\ blk' \in BlockState /\ blk'.path = p
        /\ blk'.st = failed.st /\ blk'.err = failed.err
        /\ blk'.behind.lba \in {blk.lba, NoSector.lba}
    BY <1>5, <1>7, <2>3 DEF BlockState
  <2>5. StatusOK(blk')
    BY <1>5, <2>4 DEF StatusOK
  <2> HIDE DEF p, q
  <2>6. blk'.path # NoPath => blk'.behind.lba \notin DOMAIN promise'[blk'.path]
    BY <1>3, <2>2, <2>4
  <2> QED BY <1>1, <2>1, <2>4, <2>5, <2>6, BlockStep
<1> QED BY <1>6, <1>7 DEF BlockWrite

-----------------------------------------------------------------------------
(* The driver of the SPI card. *)

\* The driver leaves the files and the block device alone.
LEMMA SpiStep ==
  ASSUME StorageInv, OnSpi, SpiOK', ChosenOK', CardShowsImage'
  PROVE  StorageInv'
<1>1. mode' = "spi" /\ UNCHANGED <<disk, blk, promise>> /\ mode = "spi"
  BY DEF OnSpi
<1>2. Kept(disk', promise') /\ BlockOK' /\ BehindFree'
  BY <1>1 DEF StorageInv, BlockOK, BehindFree, StatusOK
<1> QED BY <1>1, <1>2 DEF StorageInv

LEMMA ControlStep ==
  ASSUME StorageInv, NEW en \in BOOLEAN, SpiControl(en)
  PROVE  StorageInv'
<1>1. /\ OnSpi /\ UNCHANGED <<written, strayed, chosen>> /\ spi' = [spi EXCEPT !.en = en]
      /\ SpiOK /\ ChosenOK /\ CardShowsImage /\ mode = "spi" /\ mode' = "spi"
  BY DEF SpiControl, OnSpi, StorageInv
<1>2. /\ spi' \in SpiState /\ spi'.path = spi.path /\ spi'.file = spi.file
      /\ spi'.card = spi.card /\ spi'.blkidx = spi.blkidx
  BY <1>1 DEF SpiOK, SpiState
<1>3. SpiOK' /\ ChosenOK' /\ CardShowsImage'
  BY <1>1, <1>2 DEF SpiOK, ChosenOK, CardShowsImage, Card, OnSpi, Expected, OnDisk, HasSector
<1> QED BY <1>1, <1>3, SpiStep

\* A command changes neither the image nor the card, and the sector only when it
\* names one, which without an error is a sector of the card.
LEMMA CommandedTypes ==
  ASSUME NEW v \in SpiState, NEW idx, NEW arg \in Lbas
  PROVE  LET c == Commanded(v, idx, arg)
         IN  /\ c \in SpiState /\ c.path = v.path /\ c.file = v.file /\ c.card = v.card
             /\ idx \notin {17, 24} => c.blkidx = v.blkidx
             /\ idx \in {17, 24} /\ ~c.error => c.blkidx \in Card
<1> DEFINE no == FALSE
           yes == TRUE
           base == [v EXCEPT !.error = no]
           bad == ~(v.ready /\ arg < CardSectors)
           c == Commanded(v, idx, arg)
<1>1. no \in BOOLEAN /\ yes \in BOOLEAN /\ bad \in BOOLEAN
  OBVIOUS
<1>2. ~bad => arg \in Card
  BY SdAssumption DEF Card
<1>3. \/ c = [base EXCEPT !.ready = no, !.app = no] /\ idx \notin {17, 24}
      \/ c = base /\ idx \notin {17, 24}
      \/ c = [base EXCEPT !.app = yes] /\ idx \notin {17, 24}
      \/ c = [base EXCEPT !.ready = yes, !.app = no] /\ idx \notin {17, 24}
      \/ c = [base EXCEPT !.error = yes] /\ idx \notin {17, 24}
      \/ c = [base EXCEPT !.blkidx = arg, !.error = bad] /\ idx \in {17, 24}
  BY DEF Commanded
<1> HIDE DEF no, yes, bad, c
<1>4. /\ base \in SpiState /\ base.path = v.path /\ base.file = v.file
      /\ base.card = v.card /\ base.blkidx = v.blkidx
  BY <1>1 DEF SpiState
<1> HIDE DEF base
<1>5. /\ c \in SpiState /\ c.path = base.path /\ c.file = base.file
      /\ c.card = base.card
  BY <1>1, <1>3, <1>4 DEF SpiState
<1>6. \/ c.blkidx = base.blkidx /\ idx \notin {17, 24}
      \/ c.blkidx = arg /\ c.error = bad /\ idx \in {17, 24}
  BY <1>1, <1>3, <1>4 DEF SpiState
<1> QED BY <1>2, <1>4, <1>5, <1>6 DEF c

LEMMA CommandStep ==
  ASSUME StorageInv, NEW idx, NEW arg \in Lbas, SpiCommand(idx, arg)
  PROVE  StorageInv'
<1>1. /\ OnSpi /\ UNCHANGED <<written, strayed, disk>> /\ mode = "spi" /\ mode' = "spi"
      /\ SpiOK /\ ChosenOK /\ CardShowsImage
  BY DEF SpiCommand, OnSpi, StorageInv
<1>2. /\ spi' = IF spi.en THEN Commanded(spi, idx, arg) ELSE spi
      /\ chosen' = IF idx \in {17, 24} THEN spi.en /\ ~spi'.error ELSE chosen
  BY DEF SpiCommand
<1>3. /\ spi' \in SpiState /\ spi'.path = spi.path /\ spi'.file = spi.file
      /\ spi'.card = spi.card
      /\ idx \notin {17, 24} => spi'.blkidx = spi.blkidx
      /\ idx \in {17, 24} /\ spi.en /\ ~spi'.error => spi'.blkidx \in Card
  BY <1>1, <1>2, CommandedTypes DEF SpiOK
<1>4. SpiOK' /\ CardShowsImage'
  BY <1>1, <1>3 DEF SpiOK, CardShowsImage, Card, Expected, OnDisk, HasSector
<1>5. ChosenOK'
  BY <1>1, <1>2, <1>3 DEF ChosenOK, Card
<1> QED BY <1>1, <1>4, <1>5, SpiStep

LEMMA BlockIndexStep ==
  ASSUME StorageInv, NEW n \in Lbas, SpiBlockIndex(n)
  PROVE  StorageInv'
<1>1. /\ OnSpi /\ mode = "spi" /\ mode' = "spi" /\ chosen' = (n \in Card)
      /\ UNCHANGED <<written, strayed, disk>>
      /\ spi' = [spi EXCEPT !.blkidx = n]
      /\ SpiOK /\ CardShowsImage
  BY DEF SpiBlockIndex, OnSpi, StorageInv
<1>2. /\ spi' \in SpiState /\ spi'.path = spi.path /\ spi'.file = spi.file
      /\ spi'.card = spi.card /\ spi'.blkidx = n
  BY <1>1 DEF SpiOK, SpiState
<1>3. SpiOK' /\ ChosenOK' /\ CardShowsImage'
  BY <1>1, <1>2 DEF SpiOK, ChosenOK, CardShowsImage, Card, Expected, OnDisk, HasSector
<1> QED BY <1>1, <1>3, SpiStep

LEMMA WriteDataStep ==
  ASSUME StorageInv, NEW d \in Data, SpiWriteData(d)
  PROVE  StorageInv'
<1> DEFINE b == Slot(spi)
           new == [spi.card EXCEPT ![b] = d]
<1>1. /\ OnSpi /\ mode = "spi" /\ mode' = "spi" /\ chosen' = chosen /\ disk' = disk
      /\ SpiOK /\ ChosenOK /\ CardShowsImage
      /\ spi' = [spi EXCEPT !.card = new]
  BY DEF SpiWriteData, OnSpi, StorageInv
<1>2. b \in Card /\ (chosen => spi.blkidx = b)
  BY <1>1, SdAssumption DEF ChosenOK, Card, Slot, SpiOK, SpiState
<1>3. /\ new \in [Card -> Data] /\ new[b] = d
      /\ \A s \in Card : s # b => new[s] = spi.card[s]
  BY <1>1, <1>2 DEF SpiOK, SpiState
<1>4. IF spi.file /\ chosen
      THEN /\ written' = [s \in DOMAIN written \union {b} |->
                            IF s = b THEN d ELSE written[s]]
           /\ strayed' = strayed \ {b}
      ELSE /\ strayed' = IF spi.file THEN strayed \union {b} ELSE strayed
           /\ written' = written
  BY <1>2 DEF SpiWriteData
<1> HIDE DEF new, b
<1>5. /\ spi' \in SpiState /\ spi'.path = spi.path /\ spi'.file = spi.file
      /\ spi'.card = new /\ spi'.blkidx = spi.blkidx
  BY <1>1, <1>3 DEF SpiOK, SpiState
<1>6. SpiOK' /\ ChosenOK'
  BY <1>1, <1>5 DEF SpiOK, ChosenOK, Card
<1>7. CardShowsImage'
  <2> DEFINE held(s) == IF HasSector(disk[spi.path], s) THEN disk[spi.path].at[s] ELSE Zero
  <2>1. ASSUME spi.file, NEW s \in Card, s \notin strayed'
        PROVE  new[s] = IF s \in DOMAIN written' THEN written'[s] ELSE held(s)
    <3>1. s \notin strayed => spi.card[s] = IF s \in DOMAIN written THEN written[s] ELSE held(s)
      BY <1>1, <2>1 DEF CardShowsImage, Expected, OnDisk
    <3> HIDE DEF held
    <3>2. CASE chosen
      BY <1>3, <1>4, <2>1, <3>1, <3>2
    <3>3. CASE ~chosen
      BY <1>3, <1>4, <2>1, <3>1, <3>3
    <3> QED BY <3>2, <3>3
  <2> QED BY <1>1, <1>5, <2>1 DEF CardShowsImage, Expected, OnDisk, HasSector, Card
<1> QED BY <1>1, <1>6, <1>7, SpiStep

-----------------------------------------------------------------------------
LEMMA StutterStep ==
  ASSUME StorageInv, UNCHANGED vars
  PROVE  StorageInv'
<1>1. UNCHANGED <<mode, disk, blk, spi, promise, written, strayed, chosen>>
  BY DEF vars
<1>2. Kept(disk', promise') /\ BlockOK' /\ SpiOK' /\ BehindFree' /\ ChosenOK'
  BY <1>1 DEF StorageInv, BlockOK, SpiOK, BehindFree, ChosenOK, StatusOK, Card
<1>3. CardShowsImage'
  BY <1>1 DEF StorageInv, CardShowsImage, Expected, OnDisk, HasSector, Card
<1> QED BY <1>1, <1>2, <1>3 DEF StorageInv

LEMMA NextStep ==
  ASSUME StorageInv, [Next]_vars
  PROVE  StorageInv'
<1>1. CASE User
  BY <1>1, DetachStep, RestartStep, AttachStep, CreateStep DEF User
<1>2. CASE BlockProgram
  BY <1>2, RegisterStep, NoMediumStep, FlushStep, SeekFailsStep, RefusedStep, ReadStep,
     WriteStep DEF BlockProgram
<1>3. CASE SpiProgram
  BY <1>3, ControlStep, CommandStep, BlockIndexStep, WriteDataStep, SdAssumption DEF SpiProgram
<1>4. CASE UNCHANGED vars
  BY <1>4, StutterStep
<1> QED BY <1>1, <1>2, <1>3, <1>4 DEF Next

THEOREM StorageInvHolds == Spec => []StorageInv
<1>1. Init => StorageInv
  BY InitInv
<1>2. StorageInv /\ [Next]_vars => StorageInv'
  BY NextStep
<1> QED BY <1>1, <1>2, PTL DEF Spec

\* The registers agree with each other: an error code with the ERROR bit and against
\* READY, the NO_MEDIUM bit with the missing image, an open file with a path, for
\* cards and images of any size.
THEOREM SdTypes == Spec => []TypeOK
<1>1. StorageInv => TypeOK
  BY DEF StorageInv, Kept, FilesGood, BlockOK, BlockState, StatusOK, SpiOK, SpiState, TypeOK
<1> QED BY <1>1, StorageInvHolds, PTL

\* Whatever fails, and whenever the process is killed, the files hold the sectors
\* they are promised to hold.
THEOREM PromisesKeptAlways == Spec => []PromisesKept
<1>1. StorageInv => PromisesKept
  BY DEF StorageInv, Kept, Holds, PromisesKept
<1> QED BY <1>1, StorageInvHolds, PTL

\* The SPI card reads as its file on the disk and the writes since, whatever the
\* program does to the sector registers, for cards of any size.
THEOREM CardShowsImageAlways == Spec => []CardShowsImage
<1>1. StorageInv => CardShowsImage
  BY DEF StorageInv
<1> QED BY <1>1, StorageInvHolds, PTL
=============================================================================
