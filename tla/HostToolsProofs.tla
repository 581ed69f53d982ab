-------------------------- MODULE HostToolsProofs --------------------------
(***************************************************************************)
(* Theorems about the tools on the host.  However a firmware script ends,  *)
(* it leaves a prefix of its work: for any number of banks, firmware       *)
(* versions, attempts and scripts.  Whatever the program, the passes and   *)
(* the fields of a branch, the assembler emits a branch into the room it   *)
(* counted, where the last pass has not moved its label, and the branches  *)
(* of a settled program go where their labels are.                         *)
(***************************************************************************)
EXTENDS FirmwareFiles, BranchRelaxation, SequenceTheorems, WellFoundedInduction, TLAPS

-----------------------------------------------------------------------------
(* Firmware scripts. *)

\* Names and places of the files the operations may be about.
Name  == {"firmware_b", "firmware_rom", "fetch_rom_nop", "instr_rom",
          "firmware_store_b", "demo_main"} \X Nat
Place == {"src", "baseline", "examples", "nothing"} \X Name
Operation == [kind : {"link", "write", "text", "unlink", "copy"}, place : Place]

ScriptState ==
  [ops : Seq(Operation), version : Versions \union {Absent},
   long : {"no", "padded", "program"}, at : Nat \ {0}, tries : Nat, tmp : BOOLEAN,
   exit : {"ok", "running", "failed", "killed"}]

\* No operation undoes an earlier one: it has another target, and the target is
\* not what an earlier copy was made from.  Linking is about no file.
Ordered(ops) ==
  /\ \A i, j \in DOMAIN ops : i < j =>
       /\ ops[j].place # ops[i].place
       /\ ops[i].kind = "copy" => ops[j].place # Twin(ops[i].place)
  /\ \A i \in DOMAIN ops : ops[i].kind = "link" => ops[i].place = Nowhere

FilesInv ==
  /\ script \in ScriptState
  /\ Ordered(script.ops)
  /\ files = [p \in Places |-> files[p]]
  /\ before = [p \in Places |-> before[p]]
  /\ DoneInOrder

-----------------------------------------------------------------------------
(* Lists of operations. *)

Targets(ops) == {ops[i].place : i \in DOMAIN ops}
Copies(ops) == \E i \in DOMAIN ops : ops[i].kind = "copy"

Sound(ops) == ops \in Seq(Operation) /\ Ordered(ops)

\* One list after another, of other files, the first without copies.
LEMMA OneAfterAnother ==
  ASSUME NEW a, NEW b, Sound(a), Sound(b), ~Copies(a),
         Targets(a) \intersect Targets(b) = {}
  PROVE  /\ Sound(a \o b)
         /\ Targets(a \o b) = Targets(a) \union Targets(b)
         /\ ~Copies(b) => ~Copies(a \o b)
<1> DEFINE c == a \o b
<1>1. /\ a \in Seq(Operation) /\ b \in Seq(Operation)
      /\ Len(a) \in Nat /\ Len(b) \in Nat
      /\ DOMAIN a = 1 .. Len(a) /\ DOMAIN b = 1 .. Len(b)
  BY LenProperties DEF Sound
<1>2. /\ c \in Seq(Operation) /\ Len(c) = Len(a) + Len(b)
      /\ \A i \in 1 .. Len(a) + Len(b) :
            c[i] = IF i <= Len(a) THEN a[i] ELSE b[i - Len(a)]
  BY <1>1, ConcatProperties
<1>3. DOMAIN c = 1 .. Len(a) + Len(b)
  BY <1>2, LenProperties
<1> HIDE DEF c
<1>4. ASSUME NEW i \in DOMAIN c
      PROVE  \/ i \in DOMAIN a /\ c[i] = a[i]
             \/ /\ i - Len(a) \in DOMAIN b
                /\ c[i] = b[i - Len(a)]
  BY <1>1, <1>2, <1>3
<1>5. ASSUME NEW i \in DOMAIN a
      PROVE  i \in DOMAIN c /\ c[i] = a[i]
  BY <1>1, <1>2, <1>3
<1>6. ASSUME NEW i \in DOMAIN b
      PROVE  i + Len(a) \in DOMAIN c /\ c[i + Len(a)] = b[i]
  BY <1>1, <1>2, <1>3
<1>7. Targets(c) = Targets(a) \union Targets(b)
  <2>1. Targets(c) \subseteq Targets(a) \union Targets(b)
    BY <1>4 DEF Targets
  <2>2. Targets(a) \subseteq Targets(c)
    BY <1>5 DEF Targets
  <2>3. Targets(b) \subseteq Targets(c)
    BY <1>6 DEF Targets
  <2> QED BY <2>1, <2>2, <2>3
<1>8. ~Copies(b) => ~Copies(c)
  BY <1>4 DEF Copies
<1>9. ASSUME NEW i \in DOMAIN c, NEW j \in DOMAIN c, i < j
      PROVE  /\ c[j].place # c[i].place
             /\ c[i].kind = "copy" => c[j].place # Twin(c[i].place)
  <2>1. CASE i \in DOMAIN a /\ j \in DOMAIN a
    BY <2>1, <1>5, <1>9 DEF Sound, Ordered
  <2>2. CASE i \in DOMAIN a /\ j \notin DOMAIN a
    <3>1. c[j].place \in Targets(b)
      BY <2>2, <1>4 DEF Targets
    <3>2. c[i].place \in Targets(a) /\ c[i].kind # "copy"
      BY <2>2, <1>5 DEF Targets, Copies
    <3> QED BY <3>1, <3>2
  <2>3. CASE i \notin DOMAIN a
    <3>1. i - Len(a) \in DOMAIN b /\ c[i] = b[i - Len(a)]
      BY <2>3, <1>4
    <3>2. j \notin DOMAIN a
      BY <2>3, <1>1, <1>3, <1>9
    <3>3. j - Len(a) \in DOMAIN b /\ c[j] = b[j - Len(a)]
      BY <3>2, <1>4
    <3>4. i - Len(a) < j - Len(a)
      BY <1>1, <1>3, <1>9
    <3> QED BY <3>1, <3>3, <3>4 DEF Sound, Ordered
  <2> QED BY <2>1, <2>2, <2>3
<1>10. \A i \in DOMAIN c : c[i].kind = "link" => c[i].place = Nowhere
  BY <1>4 DEF Sound, Ordered
<1>11. Ordered(c)
  BY <1>9, <1>10 DEF Ordered
<1> QED BY <1>2, <1>7, <1>8, <1>11 DEF Sound, c

\* Operations of one kind on one directory.
LEMMA OneDirectory ==
  ASSUME NEW kind \in {"write", "unlink", "copy"}, NEW dir \in {"src", "baseline"},
         NEW names \in Seq(Name), IsInjective(names),
         NEW places, places = [i \in DOMAIN names |-> <<dir, names[i]>>]
  PROVE  /\ Sound(Ops(kind, places))
         /\ Targets(Ops(kind, places)) = {dir} \X ToSet(names)
         /\ kind # "copy" => ~Copies(Ops(kind, places))
<1> DEFINE ops == Ops(kind, places)
<1>1. Len(names) \in Nat /\ DOMAIN names = 1 .. Len(names)
  BY LenProperties
<1>2. DOMAIN ops = DOMAIN names
  BY DEF Ops
<1>3. ASSUME NEW i \in DOMAIN names
      PROVE  /\ ops[i] = [kind |-> kind, place |-> <<dir, names[i]>>]
             /\ ops[i].place = <<dir, names[i]>>
             /\ ops[i].kind = kind
  BY DEF Ops
<1>4. ops = [i \in 1 .. Len(names) |-> ops[i]]
  BY <1>1 DEF Ops
<1> HIDE DEF ops
<1>5. ops \in Seq(Operation)
  <2>1. ASSUME NEW i \in DOMAIN names
        PROVE  ops[i] \in Operation
    <3>1. <<dir, names[i]>> \in Place
      BY <1>1, ElementOfSeq DEF Place
    <3>2. [kind |-> kind, place |-> <<dir, names[i]>>] \in Operation
      BY <3>1 DEF Operation
    <3> QED BY <3>2, <1>3
  <2> QED BY <2>1, <1>1, <1>4
<1>6. ASSUME NEW i \in DOMAIN ops, NEW j \in DOMAIN ops, i < j
      PROVE  /\ ops[j].place # ops[i].place
             /\ ops[j].place # Twin(ops[i].place)
  <2>1. /\ ops[i].place = <<dir, names[i]>> /\ ops[j].place = <<dir, names[j]>>
    BY <1>2, <1>3
  <2>2. names[i] # names[j]
    BY <1>1, <1>2, <1>6 DEF IsInjective
  <2>3. Twin(<<dir, names[i]>>) = <<IF dir = "src" THEN "baseline" ELSE "src", names[i]>>
    BY DEF Twin
  <2> QED BY <2>1, <2>2, <2>3
<1>7. Targets(ops) = {dir} \X ToSet(names)
  <2>1. Targets(ops) = {<<dir, names[i]>> : i \in DOMAIN names}
    BY <1>2, <1>3 DEF Targets
  <2> QED BY <2>1 DEF ToSet
<1>8. kind # "copy" => ~Copies(ops)
  BY <1>2, <1>3 DEF Copies
<1>9. \A i \in DOMAIN ops : ops[i].kind # "link"
  BY <1>2, <1>3
<1> QED BY <1>5, <1>6, <1>7, <1>8, <1>9 DEF Sound, Ordered, ops

LEMMA OneOperation ==
  ASSUME NEW kind \in {"link", "text"}, NEW where \in Place,
         kind = "link" => where = Nowhere
  PROVE  LET ops == <<[kind |-> kind, place |-> where]>>
         IN  Sound(ops) /\ Targets(ops) = {where} /\ ~Copies(ops)
<1> DEFINE ops == <<[kind |-> kind, place |-> where]>>
<1>1. [kind |-> kind, place |-> where] \in Operation
  BY DEF Operation
<1>2. ops \in Seq(Operation) /\ DOMAIN ops = {1}
  BY <1>1
<1>3. ops[1].kind = kind /\ ops[1].place = where
  OBVIOUS
<1> HIDE DEF ops
<1>4. Ordered(ops)
  BY <1>2, <1>3 DEF Ordered
<1>5. Targets(ops) = {where}
  BY <1>2, <1>3 DEF Targets
<1>6. ~Copies(ops)
  BY <1>2, <1>3 DEF Copies
<1> QED BY <1>2, <1>4, <1>5, <1>6 DEF Sound, ops

LEMMA NoOperation == Sound(<< >>) /\ Targets(<< >>) = {} /\ ~Copies(<< >>)
BY DEF Sound, Ordered, Targets, Copies

-----------------------------------------------------------------------------
(* The names of the files. *)

LEMMA NumberedNames ==
  ASSUME NEW name \in {"firmware_b", "firmware_store_b"}
  PROVE  /\ Numbered(name) \in Seq(Name) /\ IsInjective(Numbered(name))
         /\ ToSet(Numbered(name)) = {name} \X (1 .. Lanes)
         /\ DOMAIN Numbered(name) = 1 .. Lanes
         /\ \A lane \in 1 .. Lanes : Numbered(name)[lane] = <<name, lane>>
         /\ Len(Numbered(name)) = Lanes
<1> DEFINE f == Numbered(name)
<1>1. /\ DOMAIN f = 1 .. Lanes
      /\ \A lane \in 1 .. Lanes : f[lane] = <<name, lane>>
      /\ f = [lane \in 1 .. Lanes |-> f[lane]]
  BY DEF Numbered
<1> HIDE DEF f
<1>2. ASSUME NEW lane \in 1 .. Lanes
      PROVE  f[lane] \in Name
  <2>1. <<name, lane>> \in Name
    BY FirmwareAssumption DEF Name
  <2> QED BY <2>1, <1>1
<1>3. Lanes \in Nat
  BY FirmwareAssumption
<1>4. f \in Seq(Name) /\ Len(f) = Lanes
  BY <1>1, <1>2, <1>3
<1>5. IsInjective(f)
  BY <1>1 DEF IsInjective
<1>6. ToSet(f) = {<<name, lane>> : lane \in 1 .. Lanes}
  BY <1>1 DEF ToSet
<1>7. ToSet(f) = {name} \X (1 .. Lanes)
  BY <1>6
<1> QED BY <1>1, <1>4, <1>5, <1>7 DEF f

LEMMA RomName == Rom \in Name
BY DEF Rom, Name

LEMMA BootNames ==
  /\ Boot \in Seq(Name) /\ IsInjective(Boot)
  /\ ToSet(Boot) = ({"firmware_b"} \X (1 .. Lanes)) \union {Rom}
<1> DEFINE b == Boot
<1>1. /\ Banks \in Seq(Name) /\ DOMAIN Banks = 1 .. Lanes /\ Len(Banks) = Lanes
      /\ ToSet(Banks) = {"firmware_b"} \X (1 .. Lanes)
      /\ \A lane \in 1 .. Lanes : Banks[lane] = <<"firmware_b", lane>>
  BY NumberedNames DEF Banks
<1>2. /\ b \in Seq(Name) /\ Len(b) = Lanes + 1
      /\ \A lane \in 1 .. Lanes : b[lane] = Banks[lane]
      /\ b[Lanes + 1] = Rom
  BY <1>1, RomName, AppendProperties DEF Boot
<1>3. DOMAIN b = 1 .. Lanes + 1
  BY <1>2, LenProperties
<1> HIDE DEF b
<1>4. Lanes \in Nat
  BY FirmwareAssumption
<1>5. \A lane \in 1 .. Lanes : b[lane] = <<"firmware_b", lane>> /\ b[lane] # Rom
  BY <1>1, <1>2 DEF Rom
<1>6. ASSUME NEW i \in DOMAIN b, NEW j \in DOMAIN b, b[i] = b[j]
      PROVE  i = j
  <2>1. CASE i \in 1 .. Lanes /\ j \in 1 .. Lanes
    BY <1>5, <1>6, <2>1
  <2>2. CASE i = Lanes + 1 \/ j = Lanes + 1
    BY <1>2, <1>3, <1>4, <1>5, <1>6, <2>2
  <2> QED BY <1>3, <1>4, <2>1, <2>2
<1>7. ToSet(b) = ToSet(Banks) \union {Rom}
  <2>1. ToSet(b) \subseteq ToSet(Banks) \union {Rom}
    <3>1. ASSUME NEW i \in DOMAIN b
          PROVE  b[i] = Rom \/ (i \in DOMAIN Banks /\ b[i] = Banks[i])
      BY <1>1, <1>2, <1>3, <1>4
    <3> QED BY <3>1 DEF ToSet
  <2>2. ToSet(Banks) \subseteq ToSet(b)
    <3>1. \A i \in DOMAIN Banks : i \in DOMAIN b /\ b[i] = Banks[i]
      BY <1>1, <1>2, <1>3, <1>4
    <3> QED BY <3>1 DEF ToSet
  <2>3. Rom \in ToSet(b)
    <3>1. Lanes + 1 \in DOMAIN b
      BY <1>3, <1>4
    <3> QED BY <3>1, <1>2 DEF ToSet
  <2> QED BY <2>1, <2>2, <2>3
<1> QED BY <1>1, <1>2, <1>6, <1>7 DEF IsInjective, b

LEMMA InstalledNames ==
  Installed \in Seq(Name) /\ IsInjective(Installed)
<1> DEFINE b == Installed
<1>1. /\ Banks \in Seq(Name) /\ DOMAIN Banks = 1 .. Lanes /\ Len(Banks) = Lanes
      /\ \A lane \in 1 .. Lanes : Banks[lane] = <<"firmware_b", lane>>
  BY NumberedNames DEF Banks
<1>2. <<Rom>> \in Seq(Name) /\ Len(<<Rom>>) = 1
  BY RomName
<1>3. Lanes \in Nat
  BY FirmwareAssumption
<1>4. /\ b \in Seq(Name) /\ Len(b) = Lanes + 1
      /\ \A i \in 1 .. 1 + Lanes : b[i] = IF i <= 1 THEN <<Rom>>[i] ELSE Banks[i - 1]
  BY <1>1, <1>2, <1>3, ConcatProperties DEF Installed
<1>5. DOMAIN b = 1 .. Lanes + 1
  BY <1>4, LenProperties
<1> HIDE DEF b
<1>6. b[1] = Rom
  BY <1>3, <1>4
<1>7. \A i \in 2 .. Lanes + 1 : b[i] = <<"firmware_b", i - 1>> /\ b[i] # Rom
  BY <1>1, <1>3, <1>4 DEF Rom
<1>8. ASSUME NEW i \in DOMAIN b, NEW j \in DOMAIN b, b[i] = b[j]
      PROVE  i = j
  <2>1. CASE i = 1 \/ j = 1
    BY <2>1, <1>3, <1>5, <1>6, <1>7, <1>8
  <2>2. CASE i # 1 /\ j # 1
    <3>1. i \in 2 .. Lanes + 1 /\ j \in 2 .. Lanes + 1
      BY <2>2, <1>3, <1>5
    <3>2. i - 1 = j - 1
      BY <3>1, <1>7, <1>8
    <3> QED BY <3>1, <3>2
  <2> QED BY <2>1, <2>2
<1> QED BY <1>4, <1>8 DEF IsInjective, b

LEMMA FetchNames ==
  /\ Fetch \in Seq(Name) /\ IsInjective(Fetch)
  /\ ToSet(Fetch) = {<<"fetch_rom_nop", 0>>, <<"instr_rom", 0>>}
<1>1. /\ DOMAIN Fetch = {1, 2}
      /\ Fetch[1] = <<"fetch_rom_nop", 0>> /\ Fetch[2] = <<"instr_rom", 0>>
  BY DEF Fetch
<1>2. Fetch \in Seq(Name)
  BY DEF Fetch, Name
<1> QED BY <1>1, <1>2 DEF IsInjective, ToSet

LEMMA StoreNames ==
  /\ Store \in Seq(Name) /\ IsInjective(Store)
  /\ ToSet(Store) = {"firmware_store_b"} \X (1 .. Lanes)
BY NumberedNames DEF Store

-----------------------------------------------------------------------------
(* The scripts. *)

LEMMA WriteSrc ==
  ASSUME NEW kind \in {"write", "unlink", "copy"},
         NEW names \in Seq(Name), IsInjective(names)
  PROVE  /\ Sound(Ops(kind, InSrc(names)))
         /\ Targets(Ops(kind, InSrc(names))) = {"src"} \X ToSet(names)
         /\ kind # "copy" => ~Copies(Ops(kind, InSrc(names)))
BY OneDirectory DEF InSrc

LEMMA NowherePlace == Nowhere \in Place
BY RomName DEF Nowhere, Place

\* The names of the four groups differ.
LEMMA NamesDiffer ==
  /\ ToSet(Boot) \intersect ToSet(Fetch) = {}
  /\ ToSet(Boot) \intersect ToSet(Store) = {}
  /\ ToSet(Fetch) \intersect ToSet(Store) = {}
BY BootNames, FetchNames, StoreNames DEF Rom

LEMMA GeneratesSound ==
  ASSUME NEW fetch \in BOOLEAN, NEW store \in BOOLEAN
  PROVE  /\ Sound(Generates(fetch, store)) /\ ~Copies(Generates(fetch, store))
         /\ Targets(Generates(fetch, store)) =
              {Nowhere} \union ({"src"} \X ToSet(Boot))
                \union (IF fetch THEN {"src"} \X ToSet(Fetch) ELSE {})
                \union (IF store THEN {"src"} \X ToSet(Store) ELSE {})
<1> DEFINE a == <<[kind |-> "link", place |-> Nowhere]>>
           b == Ops("write", InSrc(Boot))
           c == IF fetch THEN Ops("write", InSrc(Fetch)) ELSE << >>
           d == IF store THEN Ops("write", InSrc(Store)) ELSE << >>
<1>1. Sound(a) /\ Targets(a) = {Nowhere} /\ ~Copies(a)
  BY OneOperation, NowherePlace
<1>2. Sound(b) /\ Targets(b) = {"src"} \X ToSet(Boot) /\ ~Copies(b)
  BY WriteSrc, BootNames
<1>3. /\ Sound(c) /\ ~Copies(c)
      /\ Targets(c) = IF fetch THEN {"src"} \X ToSet(Fetch) ELSE {}
  BY WriteSrc, FetchNames, NoOperation
<1>4. /\ Sound(d) /\ ~Copies(d)
      /\ Targets(d) = IF store THEN {"src"} \X ToSet(Store) ELSE {}
  BY WriteSrc, StoreNames, NoOperation
<1>5. Generates(fetch, store) = ((a \o b) \o c) \o d
  BY DEF Generates
<1> HIDE DEF a, b, c, d
<1>6. /\ Sound(a \o b) /\ ~Copies(a \o b)
      /\ Targets(a \o b) = {Nowhere} \union ({"src"} \X ToSet(Boot))
  <2>1. Targets(a) \intersect Targets(b) = {}
    BY <1>1, <1>2 DEF Nowhere
  <2> QED BY <2>1, <1>1, <1>2, OneAfterAnother
<1>7. /\ Sound((a \o b) \o c) /\ ~Copies((a \o b) \o c)
      /\ Targets((a \o b) \o c) = Targets(a \o b) \union Targets(c)
  <2>1. Targets(a \o b) \intersect Targets(c) = {}
    BY <1>3, <1>6, NamesDiffer DEF Nowhere
  <2> QED BY <2>1, <1>3, <1>6, OneAfterAnother
<1>8. /\ Sound(((a \o b) \o c) \o d) /\ ~Copies(((a \o b) \o c) \o d)
      /\ Targets(((a \o b) \o c) \o d) = Targets((a \o b) \o c) \union Targets(d)
  <2>1. Targets((a \o b) \o c) \intersect Targets(d) = {}
    BY <1>3, <1>4, <1>6, <1>7, NamesDiffer DEF Nowhere
  <2> QED BY <2>1, <1>4, <1>7, OneAfterAnother
<1> QED BY <1>3, <1>4, <1>5, <1>6, <1>7, <1>8

LEMMA BuildsSound ==
  ASSUME NEW demo \in BOOLEAN, NEW install \in BOOLEAN
  PROVE  Sound(Builds(demo, install))
<1> DEFINE a == IF demo THEN <<[kind |-> "text", place |-> Demo]>> ELSE << >>
           b == Generates(FALSE, FALSE)
           c == Ops("unlink", InSrc(Store))
           d == IF install THEN Ops("copy", InBaseline(Installed)) ELSE << >>
<1>1. Sound(a) /\ Targets(a) \subseteq {Demo} /\ ~Copies(a)
  <2>1. Demo \in Place
    BY DEF Demo, Place, Name
  <2> QED BY <2>1, OneOperation, NoOperation
<1>2. /\ Sound(b) /\ ~Copies(b)
      /\ Targets(b) = {Nowhere} \union ({"src"} \X ToSet(Boot))
  BY GeneratesSound
<1>3. Sound(c) /\ Targets(c) = {"src"} \X ToSet(Store) /\ ~Copies(c)
  BY WriteSrc, StoreNames
<1>4. Sound(d) /\ Targets(d) \subseteq {"baseline"} \X ToSet(Installed)
  BY OneDirectory, InstalledNames, NoOperation DEF InBaseline
<1>5. Builds(demo, install) = ((a \o b) \o c) \o d
  BY DEF Builds
<1> HIDE DEF a, b, c, d
<1>6. /\ Sound(a \o b) /\ ~Copies(a \o b)
      /\ Targets(a \o b) \subseteq {Demo, Nowhere} \union ({"src"} \X ToSet(Boot))
  <2>1. Targets(a) \intersect Targets(b) = {}
    BY <1>1, <1>2 DEF Demo, Nowhere
  <2> QED BY <2>1, <1>1, <1>2, OneAfterAnother
<1>7. /\ Sound((a \o b) \o c) /\ ~Copies((a \o b) \o c)
      /\ Targets((a \o b) \o c) \subseteq
           {Demo, Nowhere} \union ({"src"} \X (ToSet(Boot) \union ToSet(Store)))
  <2>1. Targets(a \o b) \intersect Targets(c) = {}
    BY <1>3, <1>6, NamesDiffer DEF Demo, Nowhere
  <2>2. Targets((a \o b) \o c) = Targets(a \o b) \union Targets(c)
    BY <2>1, <1>3, <1>6, OneAfterAnother
  <2>3. /\ {"src"} \X ToSet(Boot) \subseteq {"src"} \X (ToSet(Boot) \union ToSet(Store))
        /\ {"src"} \X ToSet(Store) \subseteq {"src"} \X (ToSet(Boot) \union ToSet(Store))
    OBVIOUS
  <2> QED BY <2>1, <2>2, <2>3, <1>3, <1>6, OneAfterAnother
<1>8. Sound(((a \o b) \o c) \o d)
  <2>1. Targets((a \o b) \o c) \intersect Targets(d) = {}
    BY <1>4, <1>7 DEF Demo, Nowhere
  <2> QED BY <2>1, <1>4, <1>7, OneAfterAnother
<1> QED BY <1>5, <1>8

LEMMA RestoresSound == Sound(Restores)
BY WriteSrc, InstalledNames DEF Restores

-----------------------------------------------------------------------------
(* The steps. *)

LEMMA ScriptFacts ==
  ASSUME FilesInv
  PROVE  /\ script.ops \in Seq(Operation) /\ DOMAIN script.ops = 1 .. Len(script.ops)
         /\ Len(script.ops) \in Nat /\ script.at \in Nat \ {0}
         /\ \A i \in DOMAIN script.ops : script.ops[i] \in Operation
<1>1. script.ops \in Seq(Operation) /\ script.at \in Nat \ {0}
  BY DEF FilesInv, ScriptState
<1> QED BY <1>1, LenProperties, ElementOfSeq

LEMMA InitInv ==
  ASSUME Init
  PROVE  FilesInv
<1>1. Idle \in ScriptState /\ Idle.ops = << >> /\ Idle.exit = "ok" /\ Idle.at = 1
  BY DEF Idle, ScriptState
<1>2. files = [p \in Places |-> files[p]]
  BY DEF Init
<1>3. DoneInOrder
  BY <1>1 DEF Init, DoneInOrder
<1> QED BY <1>1, <1>2, <1>3 DEF Init, FilesInv, Ordered

LEMMA RunStep ==
  ASSUME FilesInv, NEW ops, Sound(ops), NEW version \in Versions \union {Absent},
         NEW long \in {"no", "padded", "program"}, Run(ops, version, long)
  PROVE  FilesInv'
<1>1. script' = [ops |-> ops, version |-> version, long |-> long, at |-> 1, tries |-> 0,
                 tmp |-> FALSE, exit |-> "running"]
  BY DEF Run, Idle
<1>2. script' \in ScriptState
  BY <1>1 DEF ScriptState, Sound
<1>3. before' = files /\ files' = files
  BY DEF Run
<1>4. DOMAIN ops = 1 .. Len(ops) /\ Len(ops) \in Nat
  BY LenProperties DEF Sound
<1>5. DoneInOrder'
  BY <1>1, <1>3, <1>4 DEF DoneInOrder, Goal
<1> QED BY <1>1, <1>2, <1>3, <1>5 DEF FilesInv, Sound

\* A script that ends, or tries again, has changed no file.
LEMMA SameFiles ==
  ASSUME FilesInv, script' \in ScriptState, UNCHANGED <<files, before>>,
         script'.ops = script.ops, script'.version = script.version,
         script'.at = script.at, script'.exit = "ok" => script.at > Len(script.ops)
  PROVE  FilesInv'
<1>1. \A i \in DOMAIN script.ops : Goal(i)' = Goal(i)
  BY DEF Goal
<1>2. DoneInOrder'
  BY <1>1 DEF FilesInv, DoneInOrder
<1> QED BY <1>2 DEF FilesInv

\* The goal of an operation done is not touched by a later one.
LEMMA GoalStays ==
  ASSUME FilesInv, NEW i \in DOMAIN script.ops, NEW j \in DOMAIN script.ops, i < j,
         NEW v, files' = [files EXCEPT ![script.ops[j].place] = v],
         script'.ops = script.ops, script'.version = script.version
  PROVE  /\ Goal(i)' = Goal(i)
         /\ files'[script.ops[i].place] = files[script.ops[i].place]
<1>1. /\ script.ops[j].place # script.ops[i].place
      /\ script.ops[i].kind = "copy" =>
           script.ops[j].place # Twin(script.ops[i].place)
  BY DEF FilesInv, Ordered
<1>2. files = [p \in Places |-> files[p]]
  BY DEF FilesInv
<1>3. \A p : p # script.ops[j].place => files'[p] = files[p]
  BY <1>2
<1> QED BY <1>1, <1>3 DEF Goal

LEMMA TwinDiffers ==
  ASSUME NEW p \in Place
  PROVE  Twin(p) # p
<1>1. PICK d \in {"src", "baseline", "examples", "nothing"}, n \in Name : p = <<d, n>>
  BY DEF Place
<1> QED BY <1>1 DEF Twin

LEMMA NowhereNoPlace == Nowhere \notin Places
BY DEF Nowhere, Places, Demo

\* The operation at hand writes its file: what it has been asked for, or,
\* as long as it is at it, Cut.
LEMMA Touches ==
  ASSUME FilesInv, NEW n \in DOMAIN script.ops, script.at = n, NEW v,
         Op.kind # "link",
         files' = [files EXCEPT ![Op.place] = v],
         before' = before, script' \in ScriptState,
         script'.ops = script.ops, script'.version = script.version,
         script'.exit = "running",
         \/ /\ script'.at = n + 1
            /\ v = Goal(n)
         \/ /\ script'.at = n
            /\ v = Cut
            /\ Op.kind \in {"copy", "text"}
  PROVE  FilesInv'
<1>1. /\ DOMAIN script.ops = 1 .. Len(script.ops) /\ Len(script.ops) \in Nat
      /\ n \in Nat \ {0}
      /\ \A i \in DOMAIN script.ops : script.ops[i] \in Operation
  BY ScriptFacts
<1>2. files = [p \in Places |-> files[p]]
  BY DEF FilesInv
<1>3. /\ files' = [p \in Places |-> files'[p]]
      /\ \A p \in Places : p # Op.place => files'[p] = files[p]
      /\ Op.place \in Places => files'[Op.place] = v
  BY <1>2
<1>4. Op.place \in Place /\ Op = script.ops[n]
  BY <1>1 DEF Op, Operation
<1>5. ASSUME NEW i \in DOMAIN script.ops, script.ops[i].place \in Places
      PROVE  LET now == files'[script.ops[i].place]
             IN  /\ i < n => now = Goal(i)'
                 /\ i > n => now = before[script.ops[i].place]
                 /\ i = n => now = v
  <2>1. CASE i < n
    <3>1. files[script.ops[i].place] = Goal(i)
      BY <2>1, <1>5 DEF FilesInv, DoneInOrder
    <3>2. /\ Goal(i)' = Goal(i)
          /\ files'[script.ops[i].place] = files[script.ops[i].place]
      BY <2>1, <1>4, GoalStays
    <3> QED BY <2>1, <3>1, <3>2, <1>1
  <2>2. CASE i > n
    <3>1. script.ops[i].place # Op.place
      BY <2>2, <1>1, <1>4 DEF FilesInv, Ordered
    <3>2. files[script.ops[i].place] = before[script.ops[i].place]
      BY <2>2, <1>5 DEF FilesInv, DoneInOrder
    <3> QED BY <2>2, <3>1, <3>2, <1>1, <1>3, <1>5
  <2>3. CASE i = n
    BY <2>3, <1>1, <1>3, <1>4, <1>5
  <2> QED BY <2>1, <2>2, <2>3, <1>1
<1>6. v = Goal(n) => Goal(n)' = v
  <2>1. CASE Op.kind # "copy"
    <3>1. Op.kind \in {"write", "text", "unlink"}
      BY <2>1, <1>1, <1>4 DEF Operation
    <3> QED BY <3>1, <1>4 DEF Goal
  <2>2. CASE Op.kind = "copy"
    <3>1. Goal(n) = files[Twin(Op.place)] /\ Goal(n)' = files'[Twin(Op.place)]
      BY <2>2, <1>4 DEF Goal
    <3>2. files'[Twin(Op.place)] = files[Twin(Op.place)]
      BY <1>2, <1>4, TwinDiffers
    <3> QED BY <3>1, <3>2
  <2> QED BY <2>1, <2>2
<1>7. ASSUME NEW p \in Places, files'[p] # before'[p]
      PROVE  \E i \in DOMAIN script.ops : script.ops[i].place = p
  <2>1. CASE p = Op.place
    BY <2>1, <1>4
  <2>2. CASE p # Op.place
    BY <2>2, <1>3, <1>7 DEF FilesInv, DoneInOrder
  <2> QED BY <2>1, <2>2
<1>8. ASSUME NEW i \in DOMAIN script.ops, script.ops[i].place \in Places
      PROVE  LET now == files'[script.ops[i].place]
             IN  /\ i < script'.at => now = Goal(i)'
                 /\ i > script'.at => now = before'[script.ops[i].place]
                 /\ i = script'.at =>
                      \/ now = before'[script.ops[i].place]
                      \/ now = Cut /\ script.ops[i].kind \in {"copy", "text"}
  <2>1. CASE script'.at = n + 1 /\ v = Goal(n)
    <3>1. i < script'.at => i < n \/ i = n
      BY <2>1, <1>1
    <3>2. i >= script'.at => i > n
      BY <2>1, <1>1
    <3> QED BY <3>1, <3>2, <2>1, <1>1, <1>5, <1>6, <1>8
  <2>2. CASE script'.at = n /\ v = Cut /\ Op.kind \in {"copy", "text"}
    BY <2>2, <1>1, <1>4, <1>5, <1>8
  <2> QED BY <2>1, <2>2
<1>9. DoneInOrder'
  BY <1>7, <1>8 DEF DoneInOrder
<1> QED BY <1>3, <1>9 DEF FilesInv

LEMMA DoneScript ==
  ASSUME FilesInv, Running
  PROVE  /\ Done(script) \in ScriptState /\ Done(script).ops = script.ops
         /\ Done(script).version = script.version /\ Done(script).at = script.at + 1
         /\ Done(script).exit = "running"
<1> DEFINE at == script.at + 1
           tries == 0
           tmp == FALSE
<1>1. script \in ScriptState /\ script.exit = "running"
  BY DEF FilesInv, Running
<1>2. at \in Nat \ {0} /\ at = script.at + 1 /\ tries \in Nat /\ tmp \in BOOLEAN
  BY <1>1 DEF ScriptState
<1>3. Done(script) = [script EXCEPT !.at = at, !.tries = tries, !.tmp = tmp]
  BY DEF Done
<1> HIDE DEF at, tries, tmp
<1> QED BY <1>1, <1>2, <1>3 DEF ScriptState

\* Linking done is no file changed.
LEMMA LinkDone ==
  ASSUME FilesInv, Running, Working("link"), script' = Done(script), UNCHANGED files
  PROVE  FilesInv'
<1>1. /\ DOMAIN script.ops = 1 .. Len(script.ops) /\ Len(script.ops) \in Nat
      /\ script.at \in Nat \ {0}
  BY ScriptFacts
<1>2. /\ script.at \in DOMAIN script.ops /\ Op.kind = "link"
      /\ Op.place \notin Places
  BY NowhereNoPlace DEF Working, Op, FilesInv, Ordered
<1>3. /\ script' \in ScriptState /\ script'.ops = script.ops
      /\ script'.version = script.version /\ script'.at = script.at + 1
      /\ script'.exit = "running"
  BY DoneScript
<1>4. before' = before
  BY DEF Working
<1>5. \A i \in DOMAIN script.ops : Goal(i)' = Goal(i)
  BY <1>3 DEF Goal
<1>6. ASSUME NEW i \in DOMAIN script.ops, script.ops[i].place \in Places
      PROVE  LET now == files[script.ops[i].place]
             IN  /\ i < script.at + 1 => now = Goal(i)
                 /\ i >= script.at + 1 => now = before[script.ops[i].place]
                 /\ i # script.at + 1 \/ now = before[script.ops[i].place]
  <2>1. i # script.at
    BY <1>2, <1>6 DEF Op
  <2>2. i < script.at + 1 => i < script.at
    BY <2>1, <1>1
  <2>3. i >= script.at + 1 => i > script.at
    BY <1>1
  <2>4. /\ i < script.at => files[script.ops[i].place] = Goal(i)
        /\ i > script.at =>
             files[script.ops[i].place] = before[script.ops[i].place]
    BY <1>6 DEF FilesInv, DoneInOrder
  <2>5. i = script.at + 1 => i > script.at
    BY <1>1
  <2> QED BY <2>2, <2>3, <2>4, <2>5
<1>7. DoneInOrder'
  <2>1. \A p \in Places : files'[p] # before'[p] =>
          \E i \in DOMAIN script'.ops : script'.ops[i].place = p
    BY <1>3, <1>4 DEF FilesInv, DoneInOrder
  <2>2. ASSUME NEW i \in DOMAIN script'.ops, script'.ops[i].place \in Places
        PROVE  LET now == files'[script'.ops[i].place]
               IN  /\ i < script'.at => now = Goal(i)'
                   /\ i > script'.at => now = before'[script'.ops[i].place]
                   /\ i = script'.at => now = before'[script'.ops[i].place]
    BY <1>1, <1>3, <1>4, <1>5, <1>6, <2>2
  <2> QED BY <2>1, <2>2, <1>3 DEF DoneInOrder
<1> QED BY <1>3, <1>4, <1>7 DEF FilesInv

LEMMA FailedScript ==
  ASSUME FilesInv
  PROVE  /\ Failed(script) \in ScriptState /\ Failed(script).ops = script.ops
         /\ Failed(script).version = script.version /\ Failed(script).at = script.at
         /\ Failed(script).exit = "failed"
BY DEF Failed, FilesInv, ScriptState

LEMMA FailStep ==
  ASSUME FilesInv, script' = Failed(script), UNCHANGED <<files, before>>
  PROVE  FilesInv'
BY FailedScript, SameFiles

\* A script that is at its work: the operation done, or tried once more.
LEMMA DoneStep ==
  ASSUME FilesInv, NEW kind \in {"write", "text", "unlink", "copy"}, Working(kind),
         script' = Done(script), files' = [files EXCEPT ![Op.place] = Goal(script.at)]
  PROVE  FilesInv'
<1>1. PICK n \in DOMAIN script.ops : script.at = n
  BY DEF Working
<1>2. /\ Running /\ Op.kind # "link" /\ before' = before
  BY DEF Working
<1>3. files' = [files EXCEPT ![Op.place] = Goal(n)]
  BY <1>1
<1> QED BY <1>1, <1>2, <1>3, DoneScript, Touches

LEMMA TriedStep ==
  ASSUME FilesInv, Running, UNCHANGED <<files, before>>, NEW tmp \in BOOLEAN, NEW tries \in Nat,
         script' = [script EXCEPT !.tmp = tmp, !.tries = tries]
  PROVE  FilesInv'
<1>1. /\ script' \in ScriptState /\ script'.ops = script.ops
      /\ script'.version = script.version /\ script'.at = script.at
      /\ script'.exit = "running"
  BY DEF FilesInv, ScriptState, Running
<1> QED BY <1>1, SameFiles

LEMMA LinkStep ==
  ASSUME FilesInv, Link
  PROVE  FilesInv'
<1>1. CASE script' = Done(script)
  BY <1>1, LinkDone DEF Link, Working
<1>2. CASE script' = Failed(script)
  BY <1>2, FailStep DEF Link, Working
<1> QED BY <1>1, <1>2 DEF Link

LEMMA WriteTmpStep ==
  ASSUME FilesInv, WriteTmp
  PROVE  FilesInv'
<1>1. script.tries \in Nat
  BY DEF FilesInv, ScriptState
<1>2. script' = [script EXCEPT !.tmp = TRUE, !.tries = script.tries]
  BY DEF WriteTmp, FilesInv, ScriptState
<1>3. Running /\ UNCHANGED <<files, before>>
  BY DEF WriteTmp, Working
<1> QED BY <1>1, <1>2, <1>3, TriedStep

LEMMA AttemptFailsStep ==
  ASSUME FilesInv, AttemptFails
  PROVE  FilesInv'
<1>1. script.tries + 1 \in Nat
  BY DEF FilesInv, ScriptState
<1>2. Running /\ UNCHANGED <<files, before>>
  BY DEF AttemptFails, Working
<1>3. CASE script.tries + 1 < Retries
  <2>1. script' = [script EXCEPT !.tmp = FALSE, !.tries = script.tries + 1]
    BY <1>3 DEF AttemptFails
  <2> QED BY <2>1, <1>1, <1>2, TriedStep
<1>4. CASE ~(script.tries + 1 < Retries)
  BY <1>4, <1>2, FailStep DEF AttemptFails
<1> QED BY <1>3, <1>4

\* The goal of the operation at hand.
LEMMA GoalHere ==
  ASSUME FilesInv, NEW kind \in {"write", "text", "unlink", "copy"}, Working(kind)
  PROVE  Goal(script.at) = CASE kind \in {"write", "text"} -> script.version
                             [] kind = "unlink" -> Absent
                             [] kind = "copy" -> files[Twin(Op.place)]
<1>1. Op = script.ops[script.at] /\ Op.kind = kind
  BY DEF Op, Working
<1> QED BY <1>1 DEF Goal

LEMMA ReplaceStep ==
  ASSUME FilesInv, Replace
  PROVE  FilesInv'
<1>1. Working("write") /\ script' = Done(script)
  BY DEF Replace
<1>2. Goal(script.at) = script.version
  BY <1>1, GoalHere
<1>3. files' = [files EXCEPT ![Op.place] = Goal(script.at)]
  BY <1>2 DEF Replace
<1> QED BY <1>1, <1>3, DoneStep

LEMMA UnlinkStep ==
  ASSUME FilesInv, Unlink
  PROVE  FilesInv'
<1>1. Working("unlink")
  BY DEF Unlink
<1>2. Goal(script.at) = Absent
  BY <1>1, GoalHere
<1>3. CASE files' = [files EXCEPT ![Op.place] = Absent] /\ script' = Done(script)
  <2>1. files' = [files EXCEPT ![Op.place] = Goal(script.at)]
    BY <1>2, <1>3
  <2> QED BY <1>1, <1>3, <2>1, DoneStep
<1>4. CASE script' = Failed(script) /\ UNCHANGED files
  BY <1>1, <1>4, FailStep DEF Working
<1> QED BY <1>3, <1>4 DEF Unlink

LEMMA CopyOpenStep ==
  ASSUME FilesInv, CopyOpen
  PROVE  FilesInv'
<1>1. /\ Running /\ Op.kind \in {"copy", "text"} /\ before' = before
      /\ script.at \in DOMAIN script.ops
  BY DEF CopyOpen, InPlace, Working
<1>2. PICK n \in DOMAIN script.ops : script.at = n
  BY <1>1
<1>3. /\ script' \in ScriptState /\ script'.ops = script.ops
      /\ script'.version = script.version /\ script'.at = n
      /\ script'.exit = "running"
  BY <1>1, <1>2 DEF CopyOpen, FilesInv, ScriptState, Running
<1>4. files' = [files EXCEPT ![Op.place] = Cut]
  BY DEF CopyOpen
<1> QED BY <1>1, <1>2, <1>3, <1>4, Touches

LEMMA CopyDataStep ==
  ASSUME FilesInv, CopyData
  PROVE  FilesInv'
<1>1. /\ Op.kind \in {"copy", "text"} /\ Working(Op.kind)
      /\ script' = Done(script)
  BY DEF CopyData, InPlace
<1>2. Goal(script.at) = IF Op.kind = "copy" THEN files[Twin(Op.place)] ELSE script.version
  BY <1>1, GoalHere
<1>3. files' = [files EXCEPT ![Op.place] = Goal(script.at)]
  BY <1>2 DEF CopyData
<1> QED BY <1>1, <1>3, DoneStep

LEMMA StepInv ==
  ASSUME FilesInv, [Next]_vars
  PROVE  FilesInv'
<1>1. CASE Generate
  BY <1>1, GeneratesSound, RunStep DEF Generate
<1>2. CASE Build
  BY <1>2, BuildsSound, RunStep DEF Build
<1>3. CASE Restore
  BY <1>3, RestoresSound, RunStep DEF Restore
<1>4. CASE Kill
  <2>1. /\ script' \in ScriptState /\ script'.ops = script.ops
        /\ script'.version = script.version /\ script'.at = script.at
        /\ script'.exit = "killed"
    BY <1>4 DEF Kill, FilesInv, ScriptState
  <2> QED BY <1>4, <2>1, SameFiles DEF Kill
<1>5. CASE Hold \/ UNCHANGED vars
  <2>1. UNCHANGED <<files, script, before>>
    BY <1>5 DEF Hold, vars
  <2> QED BY <2>1 DEF FilesInv, DoneInOrder, Goal
<1>6. CASE Link
  BY <1>6, LinkStep
<1>7. CASE RefuseLong \/ CopyFails
  BY <1>7, FailStep DEF RefuseLong, CopyFails, Working
<1>8. CASE WriteTmp
  BY <1>8, WriteTmpStep
<1>9. CASE Replace
  BY <1>9, ReplaceStep
<1>10. CASE AttemptFails
  BY <1>10, AttemptFailsStep
<1>11. CASE Unlink
  BY <1>11, UnlinkStep
<1>12. CASE CopyOpen
  BY <1>12, CopyOpenStep
<1>13. CASE CopyData
  BY <1>13, CopyDataStep
<1>14. CASE End
  <2>1. /\ script' \in ScriptState /\ script'.ops = script.ops
        /\ script'.version = script.version /\ script'.at = script.at
        /\ script'.exit = "ok" /\ script.at > Len(script.ops)
    BY <1>14 DEF End, FilesInv, ScriptState
  <2> QED BY <1>14, <2>1, SameFiles DEF End
<1> QED BY <1>1, <1>2, <1>3, <1>4, <1>5, <1>6, <1>7, <1>8, <1>9, <1>10, <1>11,
           <1>12, <1>13, <1>14 DEF Next, Works

-----------------------------------------------------------------------------
\* However a script ends it leaves a prefix of its work, and exit status 0 means
\* that all of it is done (the scripts gen_firmware_hex.py, build_tn9k_firmware.py
\* and restore_tn9k_baseline.py).
THEOREM DoneInOrderAlways == Spec => []DoneInOrder
<1>1. Init => FilesInv
  BY InitInv
<1>2. FilesInv /\ [Next]_vars => FilesInv'
  BY StepInv
<1>3. FilesInv => DoneInOrder
  BY DEF FilesInv
<1> QED BY <1>1, <1>2, <1>3, PTL DEF Spec

-----------------------------------------------------------------------------
(* The assembler: natural numbers. *)

\* Every nonempty set of natural numbers has a least member.
LEMMA LeastNumber ==
  ASSUME NEW T \in SUBSET Nat, T # {}
  PROVE  \E x \in T : \A y \in T : x <= y
<1> DEFINE R == OpToRel(<, Nat)
<1>1. IsWellFoundedOn(R, Nat)
  BY NatLessThanWellFounded, Zenon
<1>2. \A y, x \in Nat : y < x => <<y, x>> \in R
  BY DEF OpToRel
<1> HIDE DEF R
<1>3. \E x \in T : \A y \in T : ~ (<<y, x>> \in R)
  BY <1>1, WFMin
<1>4. PICK x \in T : \A y \in T : ~ (<<y, x>> \in R)
  BY <1>3
<1>5. \A y \in T : x <= y
  <2> SUFFICES ASSUME NEW y \in T PROVE x <= y
    OBVIOUS
  <2>1. x \in Nat /\ y \in Nat
    OBVIOUS
  <2>2. y < x => <<y, x>> \in R
    BY <2>1, <1>2, Zenon
  <2>3. ~(<<y, x>> \in R)
    BY <1>4
  <2>4. ~(y < x)
    BY <2>2, <2>3, Zenon
  <2> QED BY <2>1, <2>4
<1> QED BY <1>5

\* What holds of 0 and goes from each number to the next holds up to n.
LEMMA Upward ==
  ASSUME NEW n \in Nat, NEW T, 0 \in T, \A i \in 0 .. n - 1 : i \in T => i + 1 \in T
  PROVE  \A i \in 0 .. n : i \in T
<1> SUFFICES ASSUME (0 .. n) \ T # {} PROVE FALSE
  OBVIOUS
<1>0. (0 .. n) \ T \in SUBSET Nat
  OBVIOUS
<1>1. PICK x \in (0 .. n) \ T : \A y \in (0 .. n) \ T : x <= y
  BY <1>0, LeastNumber
<1>2. x \in 1 .. n
  OBVIOUS
<1>3. x - 1 \in 0 .. n - 1 /\ ~(x <= x - 1)
  BY <1>2
<1>4. x - 1 \in T
  BY <1>1, <1>3
<1>5. (x - 1) + 1 \in T
  BY <1>3, <1>4
<1>6. (x - 1) + 1 = x /\ x \notin T
  BY <1>2
<1> QED BY <1>5, <1>6

-----------------------------------------------------------------------------
(* A scan of a program exists: each of its states follows from the one before. *)

Begun == [lc |-> Origin, known |-> NoLabels, at |-> << >>]
Stepped(p, old, i, s) ==
  LET size == SizeOf(p[i], s.known, old, s.lc)
  IN  [lc    |-> NextLine(p[i], s.lc, size),
       known |-> Named(p[i], s.lc, s.known),
       at    |-> Append(s.at, [addr |-> s.lc, size |-> size])]

\* The states of a pass: the first, and each from the one before it.
LEMMA SweepScans ==
  ASSUME NEW p, NEW old, Len(p) \in Nat
  PROVE  /\ Sweep(p, old)[0] = Begun
         /\ \A i \in 1 .. Len(p) : Sweep(p, old)[i] = Stepped(p, old, i, Sweep(p, old)[i - 1])
<1> DEFINE Scans(f, m) ==
      f = [i \in 0 .. m |-> IF i = 0 THEN Begun ELSE Stepped(p, old, i, f[i - 1])]
    T == {m \in 0 .. Len(p) : \E f : Scans(f, m)}
<1>1. 0 \in T
  <2>1. Scans([i \in 0 .. 0 |-> Begun], 0)
    OBVIOUS
  <2>2. \E f : Scans(f, 0)
    BY <2>1
  <2> HIDE DEF Scans
  <2> QED BY <2>2
<1>2. \A m \in 0 .. Len(p) - 1 : m \in T => m + 1 \in T
  <2> SUFFICES ASSUME NEW m \in 0 .. Len(p) - 1, m \in T PROVE m + 1 \in T
    OBVIOUS
  <2>1. PICK f : Scans(f, m)
    OBVIOUS
  <2> DEFINE g == [i \in 0 .. m + 1 |->
                     IF i = m + 1 THEN Stepped(p, old, i, f[m]) ELSE f[i]]
  <2>2. \A i \in 0 .. m + 1 :
          g[i] = IF i = 0 THEN Begun ELSE Stepped(p, old, i, g[i - 1])
    <3> SUFFICES ASSUME NEW i \in 0 .. m + 1
                 PROVE  g[i] = IF i = 0 THEN Begun ELSE Stepped(p, old, i, g[i - 1])
      OBVIOUS
    <3> HIDE DEF Stepped
    <3>1. CASE i = m + 1
      BY <3>1
    <3>2. CASE i # m + 1
      <4>1. i \in 0 .. m /\ (i # 0 => i - 1 \in 0 .. m + 1 /\ i - 1 # m + 1)
        BY <3>2
      <4>2. f[i] = IF i = 0 THEN Begun ELSE Stepped(p, old, i, f[i - 1])
        BY <2>1, <4>1
      <4> QED BY <4>1, <4>2, <3>2
    <3> QED BY <3>1, <3>2
  <2>3. Scans(g, m + 1)
    BY <2>2
  <2>4. \E h : Scans(h, m + 1)
    BY <2>3
  <2> HIDE DEF Scans, g
  <2> QED BY <2>4
<1>3. \E f : Scans(f, Len(p))
  <2> HIDE DEF Scans
  <2>1. \A m \in 0 .. Len(p) : m \in T
    <3> HIDE DEF T
    <3> QED BY <1>1, <1>2, Upward
  <2> QED BY <2>1
<1>4. Sweep(p, old) = CHOOSE f : Scans(f, Len(p))
  BY DEF Sweep, Begun, Stepped
<1>5. Scans(Sweep(p, old), Len(p))
  <2> HIDE DEF Scans
  <2> QED BY <1>3, <1>4
<1> QED BY <1>5
Origins == [lc |-> Origin, known |-> NoLabels]
Counted(p, i, s) == [lc    |-> NextLine(p[i], s.lc, InsnBytes),
                     known |-> Named(p[i], s.lc, s.known)]

\* The states of the first estimate, likewise.
LEMMA EstimateScans ==
  ASSUME NEW p, Len(p) \in Nat
  PROVE  /\ Estimate(p)[0] = Origins
         /\ \A i \in 1 .. Len(p) : Estimate(p)[i] = Counted(p, i, Estimate(p)[i - 1])
<1> DEFINE Scans(f, m) ==
      f = [i \in 0 .. m |-> IF i = 0 THEN Origins ELSE Counted(p, i, f[i - 1])]
    T == {m \in 0 .. Len(p) : \E f : Scans(f, m)}
<1>1. 0 \in T
  <2>1. Scans([i \in 0 .. 0 |-> Origins], 0)
    OBVIOUS
  <2>2. \E f : Scans(f, 0)
    BY <2>1
  <2> HIDE DEF Scans
  <2> QED BY <2>2
<1>2. \A m \in 0 .. Len(p) - 1 : m \in T => m + 1 \in T
  <2> SUFFICES ASSUME NEW m \in 0 .. Len(p) - 1, m \in T PROVE m + 1 \in T
    OBVIOUS
  <2>1. PICK f : Scans(f, m)
    OBVIOUS
  <2> DEFINE g == [i \in 0 .. m + 1 |->
                     IF i = m + 1 THEN Counted(p, i, f[m]) ELSE f[i]]
  <2>2. \A i \in 0 .. m + 1 :
          g[i] = IF i = 0 THEN Origins ELSE Counted(p, i, g[i - 1])
    <3> SUFFICES ASSUME NEW i \in 0 .. m + 1
                 PROVE  g[i] = IF i = 0 THEN Origins ELSE Counted(p, i, g[i - 1])
      OBVIOUS
    <3> HIDE DEF Counted
    <3>1. CASE i = m + 1
      BY <3>1
    <3>2. CASE i # m + 1
      <4>1. i \in 0 .. m /\ (i # 0 => i - 1 \in 0 .. m + 1 /\ i - 1 # m + 1)
        BY <3>2
      <4>2. f[i] = IF i = 0 THEN Origins ELSE Counted(p, i, f[i - 1])
        BY <2>1, <4>1
      <4> QED BY <4>1, <4>2, <3>2
    <3> QED BY <3>1, <3>2
  <2>3. Scans(g, m + 1)
    BY <2>2
  <2>4. \E h : Scans(h, m + 1)
    BY <2>3
  <2> HIDE DEF Scans, g
  <2> QED BY <2>4
<1>3. \E f : Scans(f, Len(p))
  <2> HIDE DEF Scans
  <2>1. \A m \in 0 .. Len(p) : m \in T
    <3> HIDE DEF T
    <3> QED BY <1>1, <1>2, Upward
  <2> QED BY <2>1
<1>4. Estimate(p) = CHOOSE f : Scans(f, Len(p))
  BY DEF Estimate, Origins, Counted
<1>5. Scans(Estimate(p), Len(p))
  <2> HIDE DEF Scans
  <2> QED BY <1>3, <1>4
<1> QED BY <1>5

-----------------------------------------------------------------------------
(* Lines and the words of a branch. *)

LabelMap == [Labels -> Nat \union {Undefined}]
Room == [addr : Nat, size : Nat]

\* What the proofs use of the constants.
LEMMA Constants ==
  /\ Origin \in Nat /\ InsnBytes \in Nat /\ InsnBytes > 0
  /\ Half \in Nat /\ Half > 0 /\ WordMod \in Nat /\ WordMod > 0
  /\ ImmMax \in Nat /\ Imm11Mod \in Nat /\ Imm11Mod = 2 * ImmMax + 2 /\ ImmMin = -ImmMax - 1
  /\ Half <= WordMod /\ Passes \in Nat /\ Passes > 0
<1>1. \A x \in Nat : x > 0 => x * x \in Nat /\ x <= x * x
  OBVIOUS
<1> QED BY <1>1, RelaxationAssumption DEF WordMod, Imm11Mod

\* What the lines of a program hold.
LEMMA LineTypes ==
  ASSUME NEW line \in LineSet
  PROVE  /\ line.kind \in {"insn", "label", "skip", "org", "align"} \union BranchKinds
         /\ line.kind = "label" =>
              line.name \in Labels /\ line = [kind |-> "label", name |-> line.name]
         /\ line.kind \in BranchKinds => line.target \in Labels
         /\ line.kind \in {"skip", "org", "align"} => line.n \in Nat
         /\ line.kind = "align" => line.n > 0
BY DEF LineSet, BranchKinds

\* An alignment goes up to a multiple (_align_lc).
LEMMA AlignedUp ==
  ASSUME NEW a \in Nat, NEW n \in Nat, n > 0
  PROVE  Aligned(a, n) \in Nat /\ Aligned(a, n) >= a /\ Aligned(a, n) % n = 0
<1> DEFINE q == (a + n - 1) \div n
           r == (a + n - 1) % n
<1>1. q \in Nat /\ r \in 0 .. n - 1 /\ a + n - 1 = n * q + r
  OBVIOUS
<1>2. n * q = q * n /\ q * n \in Nat
  BY <1>1
<1>3. q * n >= a
  BY <1>1, <1>2
<1>4. (q * n) % n = 0
  BY <1>1
<1> QED BY <1>2, <1>3, <1>4 DEF Aligned

\* Addresses are natural numbers.
LEMMA NextLineType ==
  ASSUME NEW line \in LineSet, NEW lc \in Nat, NEW size \in Nat
  PROVE  NextLine(line, lc, size) \in Nat
BY LineTypes, AlignedUp DEF NextLine

\* The labels known so far have addresses.
LEMMA NamedType ==
  ASSUME NEW line \in LineSet, NEW lc \in Nat, NEW known \in LabelMap
  PROVE  Named(line, lc, known) \in LabelMap
BY LineTypes DEF Named, LabelMap

\* The words a branch can be made of.
LoadSet(a) == {Imm16Word("li", a % Half), OtherWord("shift"), OtherWord("sll"),
               Imm16Word("addi", (a \div Half) % Half)}
ShortWord(kind, target, pc) ==
  BranchWord(IF kind = "jump" THEN "jmp" ELSE "bcc", Offset(target, pc))
FirstWord == BranchWord("binv", InsnBytes)
LastWord == BranchWord("jmpr", 0)
FormSet(kind, target, pc) ==
  LoadSet(target) \union {ShortWord(kind, target, pc), FirstWord, LastWord}

\* Short sequences.
LEMMA Ones == \A S : \A x \in S : <<x>> \in Seq(S) /\ Len(<<x>>) = 1
OBVIOUS

\* Four words.
LEMMA Fours ==
  \A S : \A w, x, y, z \in S : <<w, x, y, z>> \in Seq(S) /\ Len(<<w, x, y, z>>) = 4
OBVIOUS

\* An address is loaded by one word or by four.
LEMMA LoadWords ==
  ASSUME NEW a \in Nat
  PROVE  LoadAddress(a) \in Seq(LoadSet(a)) /\ Len(LoadAddress(a)) \in {1, 4}
<1> DEFINE high == (a \div Half) % Half
           li == Imm16Word("li", a % Half)
           shift == OtherWord("shift")
           sll == OtherWord("sll")
           addi == Imm16Word("addi", high)
<1>1. LoadAddress(a) = IF high = 0 THEN <<li>> ELSE <<li, shift, sll, addi>>
  BY DEF LoadAddress
<1>2. {li, shift, sll, addi} = LoadSet(a)
  BY DEF LoadSet
<1> HIDE DEF high, li, shift, sll, addi
<1>3. li \in LoadSet(a) /\ shift \in LoadSet(a) /\ sll \in LoadSet(a) /\ addi \in LoadSet(a)
  BY <1>2
<1>4. <<li>> \in Seq(LoadSet(a)) /\ Len(<<li>>) = 1
  BY <1>3, Ones
<1>5. /\ <<li, shift, sll, addi>> \in Seq(LoadSet(a))
      /\ Len(<<li, shift, sll, addi>>) = 4
  BY <1>3, Fours
<1> QED BY <1>1, <1>4, <1>5

\* A branch is one word in its short form, and two to six in its long one.
LEMMA ResolvedWords ==
  ASSUME NEW kind, NEW target \in Nat, NEW pc \in Nat
  PROVE  /\ Resolved(kind, target, pc) \in Seq(FormSet(kind, target, pc))
         /\ Len(Resolved(kind, target, pc)) \in 1 .. 6
         /\ Len(Resolved(kind, target, pc)) = 1 <=> ~NeedsLong(target, pc)
<1> DEFINE short == ShortWord(kind, target, pc)
           load == LoadAddress(target)
           T == FormSet(kind, target, pc)
           head == IF kind = "cond" THEN <<FirstWord>> ELSE << >>
<1>1. load \in Seq(LoadSet(target)) /\ Len(load) \in {1, 4}
  BY LoadWords
<1>2. Resolved(kind, target, pc) =
        IF ~NeedsLong(target, pc) THEN <<short>> ELSE (head \o load) \o <<LastWord>>
  BY DEF Resolved, ShortWord, FirstWord, LastWord
<1>3. short \in T /\ FirstWord \in T /\ LastWord \in T /\ LoadSet(target) \subseteq T
  BY DEF FormSet
<1> HIDE DEF short, load, T
<1>4. head \in Seq(T) /\ Len(head) \in {0, 1} /\ <<LastWord>> \in Seq(T)
      /\ <<short>> \in Seq(T) /\ Len(<<LastWord>>) = 1 /\ Len(<<short>>) = 1
  BY <1>3
<1>5. load \in Seq(T)
  BY <1>1, <1>3
<1> HIDE DEF head
<1>6. head \o load \in Seq(T) /\ Len(head \o load) = Len(head) + Len(load)
  BY <1>4, <1>5
<1>7. /\ (head \o load) \o <<LastWord>> \in Seq(T)
      /\ Len((head \o load) \o <<LastWord>>) = Len(head) + Len(load) + 1
  BY <1>4, <1>6
<1>8. /\ Resolved(kind, target, pc) \in Seq(T)
      /\ Len(Resolved(kind, target, pc)) \in 1 .. 6
      /\ Len(Resolved(kind, target, pc)) = 1 <=> ~NeedsLong(target, pc)
  <2>1. CASE ~NeedsLong(target, pc)
    BY <2>1, <1>2, <1>4
  <2>2. CASE NeedsLong(target, pc)
    <3>1. Resolved(kind, target, pc) = (head \o load) \o <<LastWord>>
      BY <2>2, <1>2, Zenon
    <3>2. Len(head) + Len(load) + 1 \in 2 .. 6
      <4>1. \A x \in {0, 1}, y \in {1, 4} : x + y + 1 \in 2 .. 6
        OBVIOUS
      <4> QED BY <1>1, <1>4, <4>1, Zenon
    <3>3. Len(Resolved(kind, target, pc)) \in 2 .. 6
      BY <3>1, <3>2, <1>7
    <3> QED BY <2>2, <3>1, <3>3, <1>7
  <2> QED BY <2>1, <2>2
<1> QED BY <1>8 DEF T

\* A branch counts a natural number of bytes.
LEMMA BranchSizeType ==
  ASSUME NEW kind, NEW target \in Nat \union {Undefined}, NEW pc \in Nat
  PROVE  BranchSize(kind, target, pc) \in Nat
<1>1. \A k \in Nat : InsnBytes * k \in Nat
  BY Constants
<1>2. CASE Refused(kind, target, pc)
  BY <1>2, Constants DEF BranchSize
<1>3. CASE ~Refused(kind, target, pc)
  <2>1. target \in Nat
    BY <1>3 DEF Refused
  <2>2. Len(Resolved(kind, target, pc)) \in Nat
    BY <2>1, ResolvedWords
  <2> QED BY <1>1, <1>3, <2>2 DEF BranchSize
<1> QED BY <1>2, <1>3

\* So does every line.
LEMMA SizeType ==
  ASSUME NEW line \in LineSet, NEW fresh \in LabelMap, NEW old \in LabelMap, NEW lc \in Nat
  PROVE  SizeOf(line, fresh, old, lc) \in Nat
<1>1. CASE line.kind \in BranchKinds
  <2>1. Seen(fresh, old, line.target) \in Nat \union {Undefined}
    BY LineTypes, <1>1 DEF Seen, LabelMap
  <2>2. BranchSize(line.kind, Seen(fresh, old, line.target), lc) \in Nat
    BY <2>1, BranchSizeType
  <2>3. SizeOf(line, fresh, old, lc)
          = BranchSize(line.kind, Seen(fresh, old, line.target), lc)
    BY <1>1 DEF SizeOf, BranchKinds
  <2> QED BY <2>2, <2>3
<1>2. CASE line.kind \notin BranchKinds
  BY <1>2, LineTypes, Constants DEF SizeOf
<1> QED BY <1>1, <1>2

\* What the first estimate has found before a line.
LEMMA EstimateTypes ==
  ASSUME NEW p \in Seq(LineSet)
  PROVE  \A i \in 0 .. Len(p) :
           Estimate(p)[i].lc \in Nat /\ Estimate(p)[i].known \in LabelMap
<1> DEFINE OK(i) == Estimate(p)[i].lc \in Nat /\ Estimate(p)[i].known \in LabelMap
           T == {i \in 0 .. Len(p) : OK(i)}
<1>1. Len(p) \in Nat
  OBVIOUS
<1>2. OK(0)
  BY <1>1, EstimateScans, Constants DEF Origins, NoLabels, LabelMap
<1>3. ASSUME NEW i \in 0 .. Len(p) - 1, OK(i) PROVE OK(i + 1)
  <2>1. i + 1 \in 1 .. Len(p) /\ (i + 1) - 1 = i /\ p[i + 1] \in LineSet
    OBVIOUS
  <2>2. Estimate(p)[i + 1] = Counted(p, i + 1, Estimate(p)[i])
    BY <1>1, <2>1, EstimateScans
  <2>3. NextLine(p[i + 1], Estimate(p)[i].lc, InsnBytes) \in Nat
    BY <1>3, <2>1, NextLineType, Constants
  <2>4. Named(p[i + 1], Estimate(p)[i].lc, Estimate(p)[i].known) \in LabelMap
    BY <1>3, <2>1, NamedType
  <2> QED BY <2>2, <2>3, <2>4 DEF Counted
<1> HIDE DEF OK
<1>4. 0 \in T /\ \A i \in 0 .. Len(p) - 1 : i \in T => i + 1 \in T
  BY <1>1, <1>2, <1>3
<1> HIDE DEF T
<1>5. \A i \in 0 .. Len(p) : i \in T
  BY <1>1, <1>4, Upward
<1> QED BY <1>5 DEF T, OK

-----------------------------------------------------------------------------
(* What a pass leaves. *)

Start(p, old, i) == Sweep(p, old)[i - 1].lc
RoomOf(p, old, i) ==
  [addr |-> Start(p, old, i),
   size |-> SizeOf(p[i], Sweep(p, old)[i - 1].known, old, Start(p, old, i))]

\* The state after line i, from the one before it.
LEMMA SweepStep ==
  ASSUME NEW p \in Seq(LineSet), NEW old, NEW i \in 1 .. Len(p)
  PROVE  /\ p[i] \in LineSet /\ i - 1 \in 0 .. Len(p)
         /\ Sweep(p, old)[i].lc = NextLine(p[i], Start(p, old, i), RoomOf(p, old, i).size)
         /\ Sweep(p, old)[i].known = Named(p[i], Start(p, old, i), Sweep(p, old)[i - 1].known)
         /\ Sweep(p, old)[i].at = Append(Sweep(p, old)[i - 1].at, RoomOf(p, old, i))
<1>1. Len(p) \in Nat
  OBVIOUS
<1>2. Sweep(p, old)[i] = Stepped(p, old, i, Sweep(p, old)[i - 1])
  BY <1>1, SweepScans
<1>3. p[i] \in LineSet /\ i - 1 \in 0 .. Len(p)
  OBVIOUS
<1> QED BY <1>2, <1>3 DEF Stepped, RoomOf, Start

\* The state after line i + 1, from that after line i.
LEMMA SweepNext ==
  ASSUME NEW p \in Seq(LineSet), NEW old, NEW i \in 0 .. Len(p) - 1
  PROVE  LET s == Sweep(p, old)[i]
             t == Sweep(p, old)[i + 1]
             r == RoomOf(p, old, i + 1)
         IN  /\ i \in 0 .. Len(p) /\ i + 1 \in 1 .. Len(p) /\ p[i + 1] \in LineSet
             /\ Start(p, old, i + 1) = s.lc /\ r.addr = s.lc
             /\ r.size = SizeOf(p[i + 1], s.known, old, s.lc)
             /\ t.lc = NextLine(p[i + 1], s.lc, r.size)
             /\ t.known = Named(p[i + 1], s.lc, s.known)
             /\ t.at = Append(s.at, r)
<1>1. i \in 0 .. Len(p) /\ i + 1 \in 1 .. Len(p) /\ (i + 1) - 1 = i
  OBVIOUS
<1> DEFINE n == i + 1
<1>2. n \in 1 .. Len(p) /\ n - 1 = i
  BY <1>1
<1> HIDE DEF n
<1>3. /\ p[n] \in LineSet
      /\ Sweep(p, old)[n].lc = NextLine(p[n], Start(p, old, n), RoomOf(p, old, n).size)
      /\ Sweep(p, old)[n].known = Named(p[n], Start(p, old, n), Sweep(p, old)[n - 1].known)
      /\ Sweep(p, old)[n].at = Append(Sweep(p, old)[n - 1].at, RoomOf(p, old, n))
  BY <1>2, SweepStep
<1>4. Start(p, old, n) = Sweep(p, old)[i].lc
  BY <1>2, Zenon DEF Start
<1>5. RoomOf(p, old, n).addr = Sweep(p, old)[i].lc
  BY <1>4 DEF RoomOf
<1>6. RoomOf(p, old, n).size
        = SizeOf(p[n], Sweep(p, old)[i].known, old, Sweep(p, old)[i].lc)
  BY <1>2, <1>4 DEF RoomOf
<1> QED BY <1>1, <1>2, <1>3, <1>4, <1>5, <1>6, Zenon DEF n

\* What the states of a pass hold.
LEMMA SweepTypes ==
  ASSUME NEW p \in Seq(LineSet), NEW old \in LabelMap
  PROVE  \A i \in 0 .. Len(p) :
           /\ Sweep(p, old)[i].lc \in Nat /\ Sweep(p, old)[i].known \in LabelMap
           /\ Sweep(p, old)[i].at \in Seq(Room) /\ Len(Sweep(p, old)[i].at) = i
<1> DEFINE OK(i) == /\ Sweep(p, old)[i].lc \in Nat /\ Sweep(p, old)[i].known \in LabelMap
                    /\ Sweep(p, old)[i].at \in Seq(Room) /\ Len(Sweep(p, old)[i].at) = i
           T == {i \in 0 .. Len(p) : OK(i)}
<1>1. Len(p) \in Nat
  OBVIOUS
<1>2. OK(0)
  <2>1. Sweep(p, old)[0] = Begun
    BY <1>1, SweepScans
  <2>2. NoLabels \in LabelMap
    BY DEF NoLabels, LabelMap
  <2> QED BY <2>1, <2>2, Constants DEF Begun
<1>3. ASSUME NEW i \in 0 .. Len(p) - 1, OK(i) PROVE OK(i + 1)
  <2> DEFINE s == Sweep(p, old)[i]
             r == RoomOf(p, old, i + 1)
  <2>1. /\ i \in 0 .. Len(p) /\ i + 1 \in 1 .. Len(p) /\ p[i + 1] \in LineSet
        /\ r.addr = s.lc /\ r.size = SizeOf(p[i + 1], s.known, old, s.lc)
        /\ Sweep(p, old)[i + 1].lc = NextLine(p[i + 1], s.lc, r.size)
        /\ Sweep(p, old)[i + 1].known = Named(p[i + 1], s.lc, s.known)
        /\ Sweep(p, old)[i + 1].at = Append(s.at, r)
    BY SweepNext
  <2>2. r = [addr |-> r.addr, size |-> r.size]
    BY DEF RoomOf
  <2>3. r \in Room
    BY <1>3, <2>1, <2>2, SizeType DEF Room
  <2>4. NextLine(p[i + 1], s.lc, r.size) \in Nat
    <3>1. r.size \in Nat
      BY <2>3 DEF Room
    <3> QED BY <1>3, <2>1, <3>1, NextLineType
  <2>5. Named(p[i + 1], s.lc, s.known) \in LabelMap
    BY <1>3, <2>1, NamedType
  <2> HIDE DEF r
  <2>6. Append(s.at, r) \in Seq(Room) /\ Len(Append(s.at, r)) = i + 1
    BY <1>3, <2>3
  <2> QED BY <2>1, <2>4, <2>5, <2>6
<1> HIDE DEF OK
<1>4. 0 \in T /\ \A i \in 0 .. Len(p) - 1 : i \in T => i + 1 \in T
  BY <1>1, <1>2, <1>3
<1> HIDE DEF T
<1>5. \A i \in 0 .. Len(p) : i \in T
  BY <1>1, <1>4, Upward
<1> QED BY <1>5 DEF T, OK

\* A pass leaves every line the room it computed for it.
LEMMA SweepRooms ==
  ASSUME NEW p \in Seq(LineSet), NEW old \in LabelMap
  PROVE  \A i \in 0 .. Len(p) : \A j \in 1 .. i : Sweep(p, old)[i].at[j] = RoomOf(p, old, j)
<1> DEFINE OK(i) == \A j \in 1 .. i : Sweep(p, old)[i].at[j] = RoomOf(p, old, j)
           T == {i \in 0 .. Len(p) : OK(i)}
<1>1. Len(p) \in Nat
  OBVIOUS
<1>2. OK(0)
  OBVIOUS
<1>3. ASSUME NEW i \in 0 .. Len(p) - 1, OK(i) PROVE OK(i + 1)
  <2> DEFINE s == Sweep(p, old)[i]
             r == RoomOf(p, old, i + 1)
  <2>1. i + 1 \in 1 .. Len(p) /\ (i + 1) - 1 = i /\ i \in 0 .. Len(p)
    OBVIOUS
  <2>2. Sweep(p, old)[i + 1].at = Append(s.at, r)
    BY SweepNext
  <2>3. s.at \in Seq(Room) /\ Len(s.at) = i
    BY <2>1, SweepTypes
  <2> HIDE DEF s
  <2>4. \A j \in 1 .. i + 1 : Append(s.at, r)[j] = IF j = i + 1 THEN r ELSE s.at[j]
    <3> HIDE DEF r
    <3> QED BY <2>3
  <2>5. \A j \in 1 .. i + 1 : j # i + 1 => j \in 1 .. i
    OBVIOUS
  <2> QED BY <1>3, <2>2, <2>4, <2>5 DEF s
<1> HIDE DEF OK
<1>4. 0 \in T /\ \A i \in 0 .. Len(p) - 1 : i \in T => i + 1 \in T
  BY <1>1, <1>2, <1>3
<1> HIDE DEF T
<1>5. \A i \in 0 .. Len(p) : i \in T
  BY <1>1, <1>4, Upward
<1> QED BY <1>5 DEF T, OK

\* The lines up to i that define a label, and what the scan knows of it there.
DefinedBy(p, i, l) == {j \in 1 .. i : p[j] = [kind |-> "label", name |-> l]}
LastDefinition(p, i, l, j) ==
  j \in DefinedBy(p, i, l) /\ \A k \in DefinedBy(p, i, l) : k <= j

\* After line i a pass knows the labels defined up to there, each at its last
\* definition, and no others.
LEMMA SweepNames ==
  ASSUME NEW p \in Seq(LineSet), NEW old \in LabelMap, NEW l \in Labels
  PROVE  \A i \in 0 .. Len(p) :
           /\ DefinedBy(p, i, l) = {} => Sweep(p, old)[i].known[l] = Undefined
           /\ \A j : LastDefinition(p, i, l, j) => Sweep(p, old)[i].known[l] = Start(p, old, j)
           /\ DefinedBy(p, i, l) # {} => \E j : LastDefinition(p, i, l, j)
<1> DEFINE OK(i) ==
      /\ DefinedBy(p, i, l) = {} => Sweep(p, old)[i].known[l] = Undefined
      /\ \A j : LastDefinition(p, i, l, j) => Sweep(p, old)[i].known[l] = Start(p, old, j)
      /\ DefinedBy(p, i, l) # {} => \E j : LastDefinition(p, i, l, j)
    T == {i \in 0 .. Len(p) : OK(i)}
<1>1. Len(p) \in Nat
  OBVIOUS
<1>2. OK(0)
  <2>1. DefinedBy(p, 0, l) = {}
    BY DEF DefinedBy
  <2>2. Sweep(p, old)[0].known[l] = Undefined
    BY <1>1, SweepScans DEF Begun, NoLabels
  <2> QED BY <2>1, <2>2 DEF LastDefinition
<1>3. ASSUME NEW i \in 0 .. Len(p) - 1, OK(i) PROVE OK(i + 1)
  <2> DEFINE s == Sweep(p, old)[i]
             t == Sweep(p, old)[i + 1]
             here == [kind |-> "label", name |-> l]
  <2>1. /\ i \in 0 .. Len(p) /\ i + 1 \in 1 .. Len(p) /\ p[i + 1] \in LineSet
        /\ Start(p, old, i + 1) = s.lc
        /\ t.known = Named(p[i + 1], s.lc, s.known)
    BY SweepNext
  <2>2. s.known \in LabelMap
    BY <2>1, SweepTypes
  <2> HIDE DEF s, t
  <2>3. CASE p[i + 1] = here
    <3>1. t.known[l] = s.lc
      BY <2>1, <2>2, <2>3 DEF Named, LabelMap
    <3>2. LastDefinition(p, i + 1, l, i + 1)
      BY <2>1, <2>3 DEF LastDefinition, DefinedBy
    <3>3. \A j : LastDefinition(p, i + 1, l, j) => j = i + 1
      BY <2>1, <3>2 DEF LastDefinition, DefinedBy
    <3>4. DefinedBy(p, i + 1, l) # {}
      BY <3>2 DEF LastDefinition
    <3> QED BY <2>1, <3>1, <3>2, <3>3, <3>4, Zenon DEF t
  <2>4. CASE p[i + 1] # here
    <3>1. t.known[l] = s.known[l]
      <4>1. CASE p[i + 1].kind = "label"
        <5>1. p[i + 1].name \in Labels /\ p[i + 1].name # l
          BY <2>1, <2>4, <4>1, LineTypes
        <5> QED BY <2>1, <2>2, <4>1, <5>1 DEF Named, LabelMap
      <4>2. CASE p[i + 1].kind # "label"
        BY <2>1, <4>2 DEF Named
      <4> QED BY <4>1, <4>2
    <3>2. DefinedBy(p, i + 1, l) = DefinedBy(p, i, l)
      BY <2>1, <2>4 DEF DefinedBy
    <3>3. \A j : LastDefinition(p, i + 1, l, j) <=> LastDefinition(p, i, l, j)
      BY <3>2 DEF LastDefinition
    <3> QED BY <1>3, <3>1, <3>2, <3>3, Zenon DEF s, t
  <2> QED BY <2>3, <2>4
<1> HIDE DEF OK
<1>4. 0 \in T /\ \A i \in 0 .. Len(p) - 1 : i \in T => i + 1 \in T
  BY <1>1, <1>2, <1>3
<1> HIDE DEF T
<1>5. \A i \in 0 .. Len(p) : i \in T
  BY <1>1, <1>4, Upward
<1> QED BY <1>5 DEF T, OK

-----------------------------------------------------------------------------
(* The assembler's steps. *)

AsmInv ==
  /\ AsmTypeOK
  /\ phase = "collect" => pass = 0
  /\ pass > 0 => /\ labels = Sweep(prog, seen)[Len(prog)].known
                 /\ place = Sweep(prog, seen)[Len(prog)].at
  /\ phase = "done" =>
       /\ pass = Passes /\ image = Emitted
       /\ \A i \in BranchLines :
            ~Refused(prog[i].kind, labels[prog[i].target], place[i].addr)

\* The words of a line, and those of a branch that is not refused.
LEMMA LinesType ==
  ASSUME prog \in Seq(LineSet), labels \in LabelMap, place \in Seq(Room),
         Len(place) = Len(prog), NEW i \in 1 .. Len(prog),
         i \in BranchLines => ~Refused(prog[i].kind, labels[prog[i].target], place[i].addr)
  PROVE  /\ Len(Lines(i)) \in Nat
         /\ i \in BranchLines =>
              /\ labels[prog[i].target] \in Nat
              /\ Lines(i) = Resolved(prog[i].kind, labels[prog[i].target], place[i].addr)
<1>1. prog[i] \in LineSet /\ place[i] \in Room /\ place[i].addr \in Nat
  <2>1. \A S : \A s \in Seq(S) : \A n \in 1 .. Len(s) : s[n] \in S
    OBVIOUS
  <2>2. prog[i] \in LineSet /\ place[i] \in Room
    BY <2>1
  <2> QED BY <2>2 DEF Room
<1>2. CASE prog[i].kind \in BranchKinds
  <2>1. i \in BranchLines
    BY <1>2 DEF BranchLines
  <2>2. Lines(i) = Resolved(prog[i].kind, labels[prog[i].target], place[i].addr)
    BY <1>2 DEF Lines, BranchKinds
  <2>3. labels[prog[i].target] \in Nat
    BY <1>1, <1>2, <2>1, LineTypes DEF Refused, LabelMap
  <2> QED BY <1>1, <2>1, <2>2, <2>3, ResolvedWords
<1>3. CASE prog[i].kind \notin BranchKinds
  <2>1. i \notin BranchLines
    BY <1>3 DEF BranchLines
  <2>2. CASE prog[i].kind = "skip"
    <3>1. prog[i].n \in Nat
      BY <1>1, <2>2, LineTypes
    <3>2. (prog[i].n + InsnBytes - 1) \div InsnBytes \in Nat
      <4>1. \A a \in Nat : \A b \in Nat : b > 0 => a \div b \in Nat /\ a + b - 1 \in Nat
        OBVIOUS
      <4> QED BY <3>1, <4>1, Constants, Zenon
    <3>3. Lines(i) = [k \in 1 .. (prog[i].n + InsnBytes - 1) \div InsnBytes
                        |-> OtherWord("zero")]
      BY <2>2 DEF Lines
    <3> HIDE DEF Lines
    <3> QED BY <2>1, <3>2, <3>3
  <2>3. CASE prog[i].kind # "skip"
    <3>1. Lines(i) = << >> \/ Lines(i) = <<OtherWord("insn")>>
      BY <1>1, <1>3, <2>3, LineTypes DEF Lines
    <3> QED BY <2>1, <3>1
  <2> QED BY <2>2, <2>3
<1> QED BY <1>2, <1>3

\* The words of a line have addresses.
LEMMA CoveredType ==
  ASSUME prog \in Seq(LineSet), labels \in LabelMap, place \in Seq(Room),
         Len(place) = Len(prog), NEW i \in 1 .. Len(prog),
         i \in BranchLines => ~Refused(prog[i].kind, labels[prog[i].target], place[i].addr)
  PROVE  Covered(i) \subseteq Nat
<1>1. Len(Lines(i)) \in Nat
  BY LinesType
<1>2. place[i].addr \in Nat
  <2>1. \A S : \A s \in Seq(S) : \A n \in 1 .. Len(s) : s[n] \in S
    OBVIOUS
  <2>2. place[i] \in Room
    BY <2>1
  <2> QED BY <2>2 DEF Room
<1>3. \A k \in 1 .. Len(Lines(i)) : InsnBytes * (k - 1) \in Nat
  BY <1>1, Constants
<1> QED BY <1>2, <1>3 DEF Covered

\* The initial states satisfy the invariant.
LEMMA AsmBegins == AsmInit => AsmInv
<1> SUFFICES ASSUME AsmInit PROVE AsmInv
  OBVIOUS
<1>1. NoLabels \in [Labels -> Nat \union {Undefined}]
  BY DEF NoLabels
<1>2. prog \in Seq(LineSet) /\ pass \in 0 .. Passes /\ pass = 0
  BY RelaxationAssumption DEF AsmInit
<1>3. place = << >> /\ place \in Seq([addr : Nat, size : Nat]) /\ Len(place) = 0
  BY DEF AsmInit
<1>4. DOMAIN image = {}
  BY DEF AsmInit
<1> QED BY <1>1, <1>2, <1>3, <1>4 DEF AsmInit, AsmInv, AsmTypeOK

\* No step leaves the invariant.
LEMMA AsmSteps == AsmInv /\ [AsmNext]_asmVars => AsmInv'
<1> SUFFICES ASSUME AsmInv, [AsmNext]_asmVars PROVE AsmInv'
  OBVIOUS
<1>0. /\ prog \in Seq(LineSet) /\ labels \in LabelMap /\ seen \in LabelMap
      /\ place \in Seq(Room) /\ pass \in 0 .. Passes /\ Len(prog) \in Nat
  BY DEF AsmInv, AsmTypeOK, LabelMap, Room
<1>1. CASE Collect
  <2>1. labels' \in LabelMap
    <3>1. Len(prog) \in 0 .. Len(prog)
      BY <1>0
    <3> QED BY <1>0, <1>1, <3>1, EstimateTypes DEF Collect
  <2> QED BY <1>1, <2>1 DEF Collect, AsmInv, AsmTypeOK, LabelMap
<1>2. CASE Assign
  <2>1. /\ labels' = Sweep(prog, labels)[Len(prog)].known
        /\ place' = Sweep(prog, labels)[Len(prog)].at
    BY <1>2 DEF Assign
  <2>2. /\ labels' \in LabelMap /\ place' \in Seq(Room) /\ Len(place') = Len(prog)
    BY <1>0, <2>1, SweepTypes
  <2>3. pass' \in 0 .. Passes /\ pass' > 0
    BY <1>0, <1>2, Constants DEF Assign
  <2>4. AsmTypeOK'
    BY <1>2, <2>2, <2>3 DEF Assign, AsmInv, AsmTypeOK, LabelMap, Room
  <2>5. phase' = "assign" /\ prog' = prog /\ seen' = labels
    BY <1>2 DEF Assign
  <2> QED BY <2>1, <2>3, <2>4, <2>5 DEF AsmInv
<1>3. CASE Emit
  <2>1. /\ pass = Passes /\ pass > 0 /\ Len(place) = Len(prog)
        /\ UNCHANGED <<prog, pass, labels, seen, place>> /\ phase' \in {"done", "refused"}
    BY <1>3, Constants DEF Emit, AsmInv, AsmTypeOK
  <2>2. CASE \E i \in BranchLines :
               Refused(prog[i].kind, labels[prog[i].target], place[i].addr)
    BY <1>3, <2>1, <2>2 DEF Emit, AsmInv, AsmTypeOK
  <2>3. CASE ~\E i \in BranchLines :
               Refused(prog[i].kind, labels[prog[i].target], place[i].addr)
    <3>1. phase' = "done" /\ image' = Emitted
      BY <1>3, <2>3 DEF Emit
    <3>2. Emitted' = Emitted /\ BranchLines' = BranchLines
      BY <2>1 DEF Emitted, Covered, Lines, BranchLines
    <3>3. DOMAIN Emitted \subseteq UNION {Covered(i) : i \in 1 .. Len(prog)}
      BY DEF Emitted
    <3>4. \A i \in 1 .. Len(prog) : Covered(i) \subseteq Nat
      BY <1>0, <2>1, <2>3, CoveredType
    <3>5. DOMAIN image' \subseteq Nat
      BY <3>1, <3>3, <3>4
    <3>6. AsmTypeOK'
      BY <2>1, <3>1, <3>5 DEF AsmInv, AsmTypeOK
    <3> HIDE DEF Emitted, BranchLines
    <3> QED BY <2>1, <2>3, <3>1, <3>2, <3>6 DEF AsmInv
  <2> QED BY <2>2, <2>3
<1>4. CASE UNCHANGED asmVars
  <2>1. UNCHANGED <<prog, phase, pass, labels, seen, place, image>>
    BY <1>4 DEF asmVars
  <2>2. Emitted' = Emitted /\ BranchLines' = BranchLines
    BY <2>1 DEF Emitted, Covered, Lines, BranchLines
  <2> QED BY <2>1, <2>2 DEF AsmInv, AsmTypeOK
<1> QED BY <1>1, <1>2, <1>3, <1>4 DEF AsmNext

\* The invariant holds throughout.
LEMMA AsmAlways == AsmSpec => []AsmInv
BY AsmBegins, AsmSteps, PTL DEF AsmSpec

\* The type invariant: the assembler makes no more passes than it should, each
\* of them gives every line an address and a size, and no label, address or word
\* is at a negative address (driver.py, _assign_addresses).
THEOREM AsmTypes == AsmSpec => []AsmTypeOK
<1>1. AsmInv => AsmTypeOK
  BY DEF AsmInv
<1> QED BY <1>1, AsmAlways, PTL

-----------------------------------------------------------------------------
(* What the last pass knew of the labels, and the words it counted. *)

\* The assembler at its end.
Assembled == AsmInv /\ phase = "done"
Before(i) == Sweep(prog, seen)[i - 1]

\* What the last pass has left for line i.
LEMMA Placed ==
  ASSUME Assembled, NEW i \in 1 .. Len(prog)
  PROVE  /\ prog \in Seq(LineSet) /\ labels \in LabelMap /\ seen \in LabelMap
         /\ place \in Seq(Room) /\ Len(place) = Len(prog)
         /\ prog[i] \in LineSet /\ i - 1 \in 0 .. Len(prog)
         /\ place[i] = RoomOf(prog, seen, i)
         /\ place[i].addr = Start(prog, seen, i) /\ place[i].addr \in Nat
         /\ place[i].size = SizeOf(prog[i], Before(i).known, seen, place[i].addr)
         /\ place[i].size \in Nat
         /\ Before(i).known \in LabelMap
<1>1. /\ prog \in Seq(LineSet) /\ labels \in LabelMap /\ seen \in LabelMap
      /\ place \in Seq(Room) /\ pass = Passes /\ Len(prog) \in Nat
  BY DEF Assembled, AsmInv, AsmTypeOK, LabelMap, Room
<1>2. Len(place) = Len(prog) /\ place = Sweep(prog, seen)[Len(prog)].at
  BY <1>1, Constants DEF Assembled, AsmInv, AsmTypeOK
<1>3. place[i] = RoomOf(prog, seen, i)
  BY <1>1, <1>2, SweepRooms
<1>4. place[i] \in Room
  BY <1>1, <1>2
<1>5. prog[i] \in LineSet /\ i - 1 \in 0 .. Len(prog)
  BY <1>1
<1>6. place[i].addr = Start(prog, seen, i) /\ place[i].addr \in Nat /\ place[i].size \in Nat
  BY <1>3, <1>4 DEF RoomOf, Room
<1>7. place[i].size = SizeOf(prog[i], Before(i).known, seen, place[i].addr)
  BY <1>3, <1>6 DEF RoomOf, Before
<1>8. Before(i).known \in LabelMap
  BY <1>1, <1>5, SweepTypes DEF Before
<1> QED BY <1>1, <1>2, <1>3, <1>5, <1>6, <1>7, <1>8

\* What emission does with a branch.
LEMMA NotRefused ==
  ASSUME Assembled, NEW i \in BranchLines
  PROVE  /\ i \in 1 .. Len(prog) /\ prog[i].kind \in BranchKinds /\ prog[i].target \in Labels
         /\ ~Refused(prog[i].kind, labels[prog[i].target], place[i].addr)
         /\ labels[prog[i].target] \in Nat
         /\ Lines(i) = Resolved(prog[i].kind, labels[prog[i].target], place[i].addr)
         /\ Len(Lines(i)) \in 1 .. 6
<1>1. i \in 1 .. Len(prog) /\ prog[i].kind \in BranchKinds
  BY DEF BranchLines
<1>2. prog[i].target \in Labels
  BY <1>1, Placed, LineTypes
<1>3. ~Refused(prog[i].kind, labels[prog[i].target], place[i].addr)
  BY DEF Assembled, AsmInv
<1>4. labels[prog[i].target] \in Nat
      /\ Lines(i) = Resolved(prog[i].kind, labels[prog[i].target], place[i].addr)
  BY <1>1, <1>3, Placed, LinesType
<1>5. Len(Lines(i)) \in 1 .. 6
  BY <1>1, <1>4, Placed, ResolvedWords
<1> QED BY <1>1, <1>2, <1>3, <1>4, <1>5

\* What the last pass knew of a label before line i, and what it ends as.
LEMMA LastKnown ==
  ASSUME Assembled, NEW i \in 1 .. Len(prog), NEW l \in Labels, labels[l] # Undefined
  PROVE  /\ (\A j \in Definitions(l) : j < i) => Before(i).known[l] = labels[l]
         /\ (\A j \in Definitions(l) : j > i) => Before(i).known[l] = Undefined
         /\ \E j \in Definitions(l) :
              (\A k \in Definitions(l) : k <= j) /\ labels[l] = place[j].addr
<1> DEFINE n == Len(prog)
<1>1. /\ prog \in Seq(LineSet) /\ seen \in LabelMap /\ i - 1 \in 0 .. n /\ n \in Nat
  BY Placed
<1>2. labels = Sweep(prog, seen)[n].known
  BY Constants DEF Assembled, AsmInv
<1>3. Definitions(l) = DefinedBy(prog, n, l)
  BY DEF Definitions, DefinedBy
<1>4. n \in 0 .. n
  BY <1>1
<1> HIDE DEF n
<1>5. DefinedBy(prog, n, l) # {}
  BY <1>1, <1>2, <1>4, SweepNames DEF n
<1>6. PICK j : LastDefinition(prog, n, l, j)
  BY <1>1, <1>4, <1>5, SweepNames DEF n
<1>7. labels[l] = Start(prog, seen, j)
  BY <1>1, <1>2, <1>4, <1>6, SweepNames DEF n
<1>8. j \in Definitions(l) /\ \A k \in Definitions(l) : k <= j
  BY <1>3, <1>6 DEF LastDefinition
<1>9. labels[l] = place[j].addr
  <2>1. j \in 1 .. Len(prog)
    BY <1>8 DEF Definitions
  <2> QED BY <1>7, <2>1, Placed
<1>10. ASSUME \A k \in Definitions(l) : k < i PROVE Before(i).known[l] = labels[l]
  <2>1. DefinedBy(prog, i - 1, l) = Definitions(l)
    BY <1>10, <1>1 DEF DefinedBy, Definitions, n
  <2>2. LastDefinition(prog, i - 1, l, j)
    BY <1>8, <2>1 DEF LastDefinition
  <2>3. Sweep(prog, seen)[i - 1].known[l] = Start(prog, seen, j)
    BY <1>1, <2>2, SweepNames DEF n
  <2> QED BY <1>7, <2>3 DEF Before
<1>11. ASSUME \A k \in Definitions(l) : k > i PROVE Before(i).known[l] = Undefined
  <2>1. DefinedBy(prog, i - 1, l) = {}
    BY <1>11, <1>1 DEF DefinedBy, Definitions, n
  <2>2. Sweep(prog, seen)[i - 1].known[l] = Undefined
    BY <1>1, <2>1, SweepNames DEF n
  <2> QED BY <2>2 DEF Before
<1> QED BY <1>8, <1>9, <1>10, <1>11

\* The size of a branch is that of its words when the last pass saw the label
\* where it ends.
LEMMA Counts == Assembled => CountedAsEmitted
<1> SUFFICES ASSUME Assembled, NEW i \in BranchLines,
                    LET l == prog[i].target
                    IN  \/ \A j \in Definitions(l) : j < i
                        \/ (\A j \in Definitions(l) : j > i) /\ seen[l] = labels[l]
             PROVE  InsnBytes * Len(Lines(i)) = place[i].size
  BY DEF CountedAsEmitted
<1> DEFINE l == prog[i].target
<1>1. /\ i \in 1 .. Len(prog) /\ prog[i].kind \in BranchKinds /\ l \in Labels
      /\ ~Refused(prog[i].kind, labels[l], place[i].addr)
      /\ labels[l] \in Nat /\ labels[l] # Undefined
      /\ Lines(i) = Resolved(prog[i].kind, labels[l], place[i].addr)
  BY NotRefused DEF Undefined
<1>2. Seen(Before(i).known, seen, l) = labels[l]
  BY <1>1, LastKnown DEF Seen
<1>3. place[i].size = BranchSize(prog[i].kind, labels[l], place[i].addr)
  BY <1>1, <1>2, Placed DEF SizeOf, BranchKinds
<1> QED BY <1>1, <1>3 DEF BranchSize

\* For any program and any number of passes, settled or not: a branch whose label
\* is behind it, or has not been moved by the last pass, is emitted as the words
\* counted for it (driver.py, _assign_addresses and _emit_items).
THEOREM CountedAlways == AsmSpec => []CountedAsEmitted
<1>1. AsmInv => CountedAsEmitted
  <2>1. CASE phase = "done"
    BY <2>1, Counts DEF Assembled
  <2>2. CASE phase # "done"
    BY <2>2 DEF CountedAsEmitted
  <2> QED BY <2>1, <2>2
<1> QED BY <1>1, AsmAlways, PTL

-----------------------------------------------------------------------------
(* The lines of a settled program follow each other. *)

\* A program JumpsLand is about, at its end.
Landing == Assembled /\ Straight /\ Fits /\ Settled
EndOf(i) == Sweep(prog, seen)[i].lc

\* Sums, multiples and quotients of multiples.
LEMMA Multiples ==
  ASSUME NEW b \in Nat, b > 0
  PROVE  /\ \A x, y \in Nat : x % b = 0 /\ y % b = 0 => (x + y) % b = 0
         /\ \A x, y \in Nat : y > 0 /\ x % y = 0 /\ y % b = 0 => x % b = 0
         /\ \A x \in Nat : x % b = 0 => b * ((x + b - 1) \div b) = x
         /\ \A x \in Nat : (b * x) % b = 0 /\ b * x \in Nat
         /\ b % b = 0
<1>1. \A x \in Nat : x % b = 0 => \E q \in Nat : x = b * q
  OBVIOUS
<1>2. \A q \in Nat : (b * q) % b = 0 /\ b * q \in Nat
  OBVIOUS
<1>3. ASSUME NEW x \in Nat, NEW y \in Nat, x % b = 0, y % b = 0 PROVE (x + y) % b = 0
  <2>1. PICK q \in Nat : x = b * q
    BY <1>1, <1>3
  <2>2. PICK r \in Nat : y = b * r
    BY <1>1, <1>3
  <2>3. x + y = b * (q + r)
    BY <2>1, <2>2
  <2> QED BY <1>2, <2>3
<1>4. ASSUME NEW x \in Nat, NEW y \in Nat, y > 0, x % y = 0, y % b = 0 PROVE x % b = 0
  <2>1. PICK q \in Nat : y = b * q
    BY <1>1, <1>4
  <2>2. PICK r \in Nat : x = y * r
    BY <1>4
  <2>3. x = b * (q * r) /\ q * r \in Nat
    BY <2>1, <2>2
  <2> QED BY <1>2, <2>3
<1>5. ASSUME NEW x \in Nat, x % b = 0 PROVE b * ((x + b - 1) \div b) = x
  <2>1. PICK q \in Nat : x = b * q
    BY <1>1, <1>5
  <2>2. (b * q + (b - 1)) \div b = q
    OBVIOUS
  <2>3. x + b - 1 = b * q + (b - 1)
    BY <2>1
  <2> QED BY <2>1, <2>2, <2>3
<1>6. b % b = 0
  OBVIOUS
<1> QED BY <1>2, <1>3, <1>4, <1>5, <1>6

\* What a line takes, when it begins at a whole word.
LEMMA LineRoom ==
  ASSUME Landing, NEW i \in 1 .. Len(prog), place[i].addr % InsnBytes = 0
  PROVE  /\ Len(Lines(i)) \in Nat /\ InsnBytes * Len(Lines(i)) \in Nat
         /\ EndOf(i) \in Nat /\ EndOf(i) % InsnBytes = 0
         /\ place[i].addr + InsnBytes * Len(Lines(i)) <= EndOf(i)
         /\ prog[i].kind = "label" => EndOf(i) = place[i].addr
<1> DEFINE line == prog[i]
           c == place[i].addr
           size == place[i].size
<1>0. /\ Assembled /\ line \in LineSet /\ c \in Nat /\ size \in Nat
      /\ i - 1 \in 0 .. Len(prog) /\ i \in 0 .. Len(prog) /\ prog \in Seq(LineSet)
      /\ seen \in LabelMap /\ c % InsnBytes = 0
  BY Placed DEF Landing
<1>1. EndOf(i) = NextLine(line, c, size)
  <2>1. /\ Sweep(prog, seen)[i].lc
             = NextLine(prog[i], Start(prog, seen, i), RoomOf(prog, seen, i).size)
        /\ place[i] = RoomOf(prog, seen, i) /\ place[i].addr = Start(prog, seen, i)
    BY <1>0, SweepStep, Placed
  <2> QED BY <2>1, Zenon DEF EndOf
<1>2. /\ InsnBytes \in Nat /\ InsnBytes > 0 /\ InsnBytes % InsnBytes = 0
  BY Constants, Multiples
<1>3. line.kind # "org" /\ (line.kind \in {"skip", "align"} => line.n % InsnBytes = 0)
  BY DEF Landing, Straight
<1>4. size = SizeOf(line, Before(i).known, seen, c)
  BY <1>0, Placed
<1>5. CASE line.kind \in BranchKinds
  <2>1. i \in BranchLines
    BY <1>5 DEF BranchLines
  <2>2. size = InsnBytes * Len(Lines(i)) /\ Len(Lines(i)) \in Nat
    BY <1>0, <2>1, NotRefused DEF Landing, Settled
  <2>3. EndOf(i) = c + size /\ line.kind # "label"
    BY <1>1, <1>5 DEF NextLine, BranchKinds
  <2> HIDE DEF size
  <2>4. size % InsnBytes = 0
    BY <1>2, <2>2, Multiples
  <2>5. (c + size) % InsnBytes = 0
    <3> HIDE DEF c
    <3> QED BY <1>0, <1>2, <2>4, Multiples
  <2> QED BY <1>0, <2>2, <2>3, <2>5
<1>6. CASE line.kind = "insn"
  <2>1. size = InsnBytes
    BY <1>4, <1>6 DEF SizeOf, BranchKinds
  <2>2. Lines(i) = <<OtherWord("insn")>>
    BY <1>6 DEF Lines
  <2>3. Len(Lines(i)) = 1
    BY <2>2
  <2>4. EndOf(i) = c + size
    BY <1>1, <1>6 DEF NextLine
  <2>5. (c + size) % InsnBytes = 0
    BY <1>0, <1>2, <2>1, Multiples
  <2>6. InsnBytes * 1 = InsnBytes
    BY <1>2
  <2>7. InsnBytes * Len(Lines(i)) = InsnBytes
    BY <2>3, <2>6, Zenon
  <2>8. prog[i].kind # "label"
    BY <1>6
  <2> HIDE DEF c, size
  <2>9. EndOf(i) \in Nat /\ EndOf(i) = c + InsnBytes /\ EndOf(i) % InsnBytes = 0
    BY <1>0, <1>2, <2>1, <2>4, <2>5
  <2> QED BY <1>0, <1>2, <2>3, <2>7, <2>8, <2>9 DEF c
<1>7. CASE line.kind \in {"label", "align"}
  <2>1. Lines(i) = << >>
    BY <1>7 DEF Lines
  <2>2. Len(Lines(i)) = 0 /\ InsnBytes * 0 = 0
    BY <1>2, <2>1
  <2>3. CASE line.kind = "label"
    <3>1. EndOf(i) = c
      BY <1>1, <2>3 DEF NextLine
    <3> QED BY <1>0, <2>2, <3>1
  <2>4. CASE line.kind = "align"
    <3>1. EndOf(i) = Aligned(c, line.n) /\ line.n \in Nat /\ line.n > 0
      BY <1>0, <1>1, <2>4, LineTypes DEF NextLine
    <3>2. EndOf(i) \in Nat /\ EndOf(i) >= c /\ EndOf(i) % line.n = 0
      <4> DEFINE n == line.n
      <4>1. n \in Nat /\ n > 0 /\ EndOf(i) = Aligned(c, n)
        BY <3>1
      <4> HIDE DEF n, c
      <4>2. Aligned(c, n) \in Nat /\ Aligned(c, n) >= c /\ Aligned(c, n) % n = 0
        BY <1>0, <4>1, AlignedUp
      <4> QED BY <4>1, <4>2 DEF n
    <3>3. EndOf(i) % InsnBytes = 0
      <4>1. line.n % InsnBytes = 0
        BY <1>3, <2>4
      <4> QED BY <1>2, <3>1, <3>2, <4>1, Multiples
    <3> QED BY <1>0, <2>2, <2>4, <3>2, <3>3
  <2> QED BY <1>7, <2>3, <2>4
<1>8. CASE line.kind = "skip"
  <2>1. line.n \in Nat /\ line.n % InsnBytes = 0
    BY <1>0, <1>3, <1>8, LineTypes
  <2>2. EndOf(i) = c + line.n
    BY <1>1, <1>8 DEF NextLine
  <2> DEFINE m == (line.n + InsnBytes - 1) \div InsnBytes
  <2>3. InsnBytes * m = line.n
    BY <1>2, <2>1, Multiples
  <2>4. m \in Nat
    <3>1. \A a \in Nat : \A b \in Nat : b > 0 => a \div b \in Nat /\ a + b - 1 \in Nat
      OBVIOUS
    <3> QED BY <1>2, <2>1, <3>1, Zenon
  <2>5. Len(Lines(i)) = m
    <3>1. Lines(i) = [k \in 1 .. m |-> OtherWord("zero")]
      BY <1>8 DEF Lines
    <3> HIDE DEF Lines, m
    <3> QED BY <2>4, <3>1
  <2>6. (c + line.n) % InsnBytes = 0
    BY <1>0, <1>2, <2>1, Multiples
  <2> HIDE DEF m
  <2> QED BY <1>0, <1>8, <2>1, <2>2, <2>3, <2>4, <2>5, <2>6
<1> QED BY <1>0, <1>3, <1>5, <1>6, <1>7, <1>8, LineTypes

\* Every line begins at a whole word, from the origin on.
LEMMA WholeWords ==
  ASSUME Landing
  PROVE  /\ \A i \in 0 .. Len(prog) :
              EndOf(i) \in Nat /\ EndOf(i) % InsnBytes = 0 /\ EndOf(i) >= Origin
         /\ \A i \in 1 .. Len(prog) : place[i].addr = EndOf(i - 1)
<1> DEFINE OK(i) == EndOf(i) \in Nat /\ EndOf(i) % InsnBytes = 0 /\ EndOf(i) >= Origin
           T == {i \in 0 .. Len(prog) : OK(i)}
<1>1. Assembled /\ Len(prog) \in Nat /\ prog \in Seq(LineSet)
  BY DEF Landing, Assembled, AsmInv, AsmTypeOK
<1>2. OK(0)
  <2>1. EndOf(0) = Origin
    BY <1>1, SweepScans DEF EndOf, Begun
  <2> QED BY <2>1, Constants DEF Landing, Straight
<1>3. \A i \in 1 .. Len(prog) : place[i].addr = EndOf(i - 1)
  BY <1>1, Placed DEF EndOf, Start
<1>4. ASSUME NEW i \in 0 .. Len(prog) - 1, OK(i) PROVE OK(i + 1)
  <2> DEFINE n == i + 1
  <2>1. n \in 1 .. Len(prog) /\ n - 1 = i
    OBVIOUS
  <2> HIDE DEF n
  <2>2. place[n].addr = EndOf(i)
    BY <1>3, <2>1
  <2>3. /\ Len(Lines(n)) \in Nat /\ InsnBytes * Len(Lines(n)) \in Nat
        /\ EndOf(n) \in Nat /\ EndOf(n) % InsnBytes = 0
        /\ place[n].addr + InsnBytes * Len(Lines(n)) <= EndOf(n)
    BY <1>4, <2>1, <2>2, LineRoom
  <2>4. EndOf(n) >= Origin
    BY <1>4, <2>2, <2>3, Constants
  <2> QED BY <2>3, <2>4 DEF n
<1> HIDE DEF OK
<1>5. 0 \in T /\ \A i \in 0 .. Len(prog) - 1 : i \in T => i + 1 \in T
  BY <1>1, <1>2, <1>4
<1> HIDE DEF T
<1>6. \A i \in 0 .. Len(prog) : i \in T
  BY <1>1, <1>5, Upward
<1> QED BY <1>3, <1>6 DEF T, OK

\* The lines follow each other: none begins before one ahead of it has ended.
LEMMA LinesFollow ==
  ASSUME Landing, NEW i \in 1 .. Len(prog), NEW j \in 1 .. Len(prog), i < j
  PROVE  place[i].addr + InsnBytes * Len(Lines(i)) <= place[j].addr
<1> DEFINE OK(k) == k >= i => EndOf(i) <= EndOf(k)
           T == {k \in 0 .. Len(prog) : OK(k)}
<1>1. Assembled /\ Len(prog) \in Nat /\ i \in 0 .. Len(prog)
  BY DEF Landing, Assembled, AsmInv, AsmTypeOK
<1>2. EndOf(i) \in Nat
  BY <1>1, WholeWords
<1>3. OK(0)
  OBVIOUS
<1>4. ASSUME NEW k \in 0 .. Len(prog) - 1, OK(k) PROVE OK(k + 1)
  <2> DEFINE n == k + 1
  <2>1. /\ n \in 1 .. Len(prog) /\ n - 1 = k /\ n \in Nat
        /\ k \in 0 .. Len(prog) /\ n - 1 \in 0 .. Len(prog)
    OBVIOUS
  <2> HIDE DEF n
  <2>2. place[n].addr = EndOf(k) /\ EndOf(k) \in Nat /\ EndOf(k) % InsnBytes = 0
    BY <2>1, WholeWords
  <2>3. /\ InsnBytes * Len(Lines(n)) \in Nat /\ EndOf(n) \in Nat
        /\ place[n].addr + InsnBytes * Len(Lines(n)) <= EndOf(n)
    BY <2>1, <2>2, LineRoom
  <2>4. EndOf(k) <= EndOf(n)
    BY <2>2, <2>3
  <2>5. CASE n = i
    BY <1>2, <2>5 DEF n
  <2>6. CASE n # i
    <3>1. n >= i => k >= i
      BY <2>1, <2>6
    <3>2. n >= i => EndOf(i) <= EndOf(n)
      BY <1>2, <1>4, <2>2, <2>3, <2>4, <3>1
    <3> QED BY <3>2 DEF n
  <2> QED BY <2>5, <2>6
<1> HIDE DEF OK
<1>5. 0 \in T /\ \A k \in 0 .. Len(prog) - 1 : k \in T => k + 1 \in T
  BY <1>1, <1>3, <1>4
<1> HIDE DEF T
<1>6. \A k \in 0 .. Len(prog) : k \in T
  BY <1>1, <1>5, Upward
<1>7. j - 1 \in 0 .. Len(prog) /\ j - 1 >= i /\ i - 1 \in 0 .. Len(prog)
  BY <1>1
<1>8. EndOf(i) <= EndOf(j - 1)
  BY <1>6, <1>7 DEF T, OK
<1>9. place[j].addr = EndOf(j - 1) /\ EndOf(j - 1) \in Nat
      /\ place[i].addr \in Nat /\ place[i].addr % InsnBytes = 0
  BY <1>1, <1>7, WholeWords
<1>10. place[i].addr + InsnBytes * Len(Lines(i)) <= EndOf(i)
       /\ InsnBytes * Len(Lines(i)) \in Nat
  BY <1>9, LineRoom
<1> QED BY <1>2, <1>8, <1>9, <1>10

\* A line covers addresses from its own up to its last word.
LEMMA CoveredRange ==
  ASSUME Landing, NEW i \in 1 .. Len(prog), NEW a \in Covered(i)
  PROVE  a \in Nat /\ place[i].addr <= a /\ a < place[i].addr + InsnBytes * Len(Lines(i))
<1>1. /\ place[i].addr \in Nat /\ Len(Lines(i)) \in Nat
  <2>1. i - 1 \in 0 .. Len(prog) /\ place[i].addr \in Nat
    BY Placed DEF Landing
  <2>2. place[i].addr % InsnBytes = 0
    BY <2>1, WholeWords
  <2> QED BY <2>1, <2>2, LineRoom
<1>2. PICK k \in 1 .. Len(Lines(i)) : a = place[i].addr + InsnBytes * (k - 1)
  BY DEF Covered
<1>3. \A b \in Nat : \A m \in Nat : \A x \in 1 .. m :
        b > 0 => b * (x - 1) \in Nat /\ b * m \in Nat /\ b * (x - 1) < b * m
  <2> SUFFICES ASSUME NEW b \in Nat, b > 0, NEW m \in Nat, NEW x \in 1 .. m
               PROVE  b * (x - 1) \in Nat /\ b * m \in Nat /\ b * (x - 1) < b * m
    OBVIOUS
  <2>1. b * (x - 1) \in Nat /\ b * m \in Nat /\ b * (m - x) \in Nat
    OBVIOUS
  <2>2. b * m = b * (x - 1) + b * (m - x) + b
    OBVIOUS
  <2> QED BY <2>1, <2>2
<1>4. /\ InsnBytes * (k - 1) \in Nat /\ InsnBytes * Len(Lines(i)) \in Nat
      /\ InsnBytes * (k - 1) < InsnBytes * Len(Lines(i))
  BY <1>1, <1>3, Constants
<1> QED BY <1>1, <1>2, <1>4

\* The distance of two whole words, one or more words apart.
LEMMA Beyond ==
  ASSUME NEW b \in Nat, b > 0
  PROVE  \A x, y, z \in Nat : x >= y /\ x % b = 0 /\ y % b = 0 =>
           ((x + b * z) - y) % b = 0 /\ x + b * z >= y
<1>1. \A n \in Nat : n % b = 0 => \E q \in Nat : n = b * q
  OBVIOUS
<1>2. \A n \in Int : (b * n) % b = 0
  OBVIOUS
<1>3. \A n \in Nat : b * n \in Nat
  OBVIOUS
<1> SUFFICES ASSUME NEW x \in Nat, NEW y \in Nat, NEW z \in Nat,
                    x >= y, x % b = 0, y % b = 0
             PROVE  ((x + b * z) - y) % b = 0 /\ x + b * z >= y
  OBVIOUS
<1>4. PICK q \in Nat : x = b * q
  BY <1>1
<1>5. PICK r \in Nat : y = b * r
  BY <1>1
<1>6. (x + b * z) - y = b * ((q + z) - r)
  BY <1>4, <1>5
<1>7. (q + z) - r \in Int
  OBVIOUS
<1>8. ((x + b * z) - y) % b = 0
  BY <1>2, <1>6, <1>7, Zenon
<1>9. b * z \in Nat
  BY <1>3
<1> QED BY <1>8, <1>9

\* The image holds every word of every line: no line is emitted over another.
LEMMA ImageWord ==
  ASSUME Landing, NEW i \in 1 .. Len(prog), NEW k \in 1 .. Len(Lines(i))
  PROVE  /\ place[i].addr + InsnBytes * (k - 1) \in Covered(i)
         /\ image[place[i].addr + InsnBytes * (k - 1)] = Lines(i)[k]
<1> DEFINE c == place[i].addr
           a == c + InsnBytes * (k - 1)
           covered == {b \in UNION {Covered(j) : j \in 1 .. Len(prog)} :
                         b >= Origin /\ (b - Origin) % InsnBytes = 0}
           At(b) == LET j == Max({n \in 1 .. Len(prog) : b \in Covered(n)})
                    IN  Lines(j)[(b - place[j].addr) \div InsnBytes + 1]
<1>1. Assembled /\ image = Emitted
  BY DEF Landing, Assembled, AsmInv
<1>2. Emitted = [b \in covered |-> At(b)]
  BY DEF Emitted
<1>3. a \in Covered(i)
  BY DEF Covered
<1>4. \A j \in 1 .. Len(prog) : a \in Covered(j) => j = i
  <2> SUFFICES ASSUME NEW j \in 1 .. Len(prog), a \in Covered(j), j # i PROVE FALSE
    OBVIOUS
  <2> HIDE DEF a
  <2>1. /\ a \in Nat /\ place[i].addr <= a /\ a < place[i].addr + InsnBytes * Len(Lines(i))
        /\ place[j].addr <= a /\ a < place[j].addr + InsnBytes * Len(Lines(j))
    BY <1>3, CoveredRange
  <2>2. /\ place[i].addr \in Nat /\ InsnBytes * Len(Lines(i)) \in Nat
        /\ place[j].addr \in Nat /\ InsnBytes * Len(Lines(j)) \in Nat
    <3>1. \A n \in 1 .. Len(prog) : place[n].addr \in Nat /\ InsnBytes * Len(Lines(n)) \in Nat
      <4> SUFFICES ASSUME NEW n \in 1 .. Len(prog)
                   PROVE  place[n].addr \in Nat /\ InsnBytes * Len(Lines(n)) \in Nat
        OBVIOUS
      <4>1. n - 1 \in 0 .. Len(prog) /\ place[n].addr \in Nat
        BY <1>1, Placed
      <4>2. place[n].addr % InsnBytes = 0
        BY <4>1, WholeWords
      <4> QED BY <4>1, <4>2, LineRoom
    <3> QED BY <3>1
  <2>3. i < j \/ j < i
    OBVIOUS
  <2>4. i < j => place[i].addr + InsnBytes * Len(Lines(i)) <= place[j].addr
    BY LinesFollow
  <2>5. j < i => place[j].addr + InsnBytes * Len(Lines(j)) <= place[i].addr
    BY LinesFollow
  <2> DEFINE m == InsnBytes * Len(Lines(i))
             n == InsnBytes * Len(Lines(j))
             d == place[j].addr
  <2> HIDE DEF m, n, c, d
  <2>6. /\ c \in Nat /\ d \in Nat /\ m \in Nat /\ n \in Nat /\ a \in Nat
        /\ c <= a /\ a < c + m /\ d <= a /\ a < d + n
    BY <2>1, <2>2 DEF m, n, c, d
  <2>7. (i < j => c + m <= d) /\ (j < i => d + n <= c)
    BY <2>4, <2>5, Zenon DEF m, n, c, d
  <2> QED BY <2>3, <2>6, <2>7
<1>5. {n \in 1 .. Len(prog) : a \in Covered(n)} = {i}
  <2> HIDE DEF a
  <2> QED BY <1>3, <1>4
<1>6. \A n \in Int : Max({n}) = n
  BY DEF Max
<1>7. At(a) = Lines(i)[(a - c) \div InsnBytes + 1]
  <2>1. Max({n \in 1 .. Len(prog) : a \in Covered(n)}) = i
    <3> HIDE DEF a
    <3> QED BY <1>5, <1>6
  <2> HIDE DEF a
  <2> QED BY <2>1
<1>8. /\ i - 1 \in 0 .. Len(prog) /\ c \in Nat /\ c % InsnBytes = 0
      /\ c >= Origin /\ Origin \in Nat /\ Origin % InsnBytes = 0
  <2>1. i - 1 \in 0 .. Len(prog) /\ c \in Nat
    BY <1>1, Placed
  <2> QED BY <2>1, WholeWords, Constants DEF Landing, Straight
<1>9. k - 1 \in Nat
  BY <1>8, LineRoom
<1>10. (a - c) \div InsnBytes + 1 = k
  <2>1. \A b \in Nat : \A x \in Nat : b > 0 => (b * x) \div b = x /\ b * x \in Nat
    OBVIOUS
  <2>2. (InsnBytes * (k - 1)) \div InsnBytes = k - 1 /\ InsnBytes * (k - 1) \in Nat
    BY <1>9, <2>1, Constants
  <2>3. a - c = InsnBytes * (k - 1)
    BY <1>8, <2>2
  <2> QED BY <1>9, <2>2, <2>3
<1>11. a \in covered
  <2>1. \A x, y, z \in Nat : x >= y /\ x % InsnBytes = 0 /\ y % InsnBytes = 0 =>
          ((x + InsnBytes * z) - y) % InsnBytes = 0 /\ x + InsnBytes * z >= y
    BY Beyond, Constants
  <2>2. /\ ((c + InsnBytes * (k - 1)) - Origin) % InsnBytes = 0
        /\ c + InsnBytes * (k - 1) >= Origin
    <3> HIDE DEF c
    <3> DEFINE z == k - 1
    <3> HIDE DEF z
    <3>1. z \in Nat
      BY <1>9 DEF z
    <3>2. ((c + InsnBytes * z) - Origin) % InsnBytes = 0 /\ c + InsnBytes * z >= Origin
      BY <1>8, <3>1, <2>1, Constants
    <3> QED BY <3>2 DEF z
  <2> DEFINE e == InsnBytes * (k - 1)
  <2>3. ((c + e) - Origin) % InsnBytes = 0 /\ c + e >= Origin /\ a = c + e
    BY <2>2
  <2> HIDE DEF e, a, c
  <2>4. a >= Origin /\ (a - Origin) % InsnBytes = 0
    BY <2>3
  <2>5. a \in UNION {Covered(j) : j \in 1 .. Len(prog)}
    BY <1>3
  <2> QED BY <2>4, <2>5, Zenon
<1>12. image[a] = At(a)
  <2> HIDE DEF At, a, covered
  <2> QED BY <1>1, <1>2, <1>11
<1>13. image[a] = Lines(i)[k]
  <2> HIDE DEF At, a, covered
  <2> QED BY <1>7, <1>10, <1>12
<1> QED BY <1>3, <1>13

-----------------------------------------------------------------------------
(* The numbers of a short branch and of a load. *)

\* Residues of numbers at most two turns away.
LEMMA Around ==
  ASSUME NEW m \in Nat, m > 0
  PROVE  /\ \A x \in Int : x % m \in 0 .. m - 1 /\ x % m \in Int
         /\ \A x \in 0 .. m - 1 : x % m = x /\ (x + m) % m = x /\ (x + 2 * m) % m = x
         /\ \A x \in -m .. -1 : x % m = x + m
<1>1. \A x \in 0 .. m - 1 : x = m * 0 + x /\ x + m = m * 1 + x /\ x + 2 * m = m * 2 + x
  OBVIOUS
<1>2. \A q \in Int : \A x \in 0 .. m - 1 : (m * q + x) % m = x
  OBVIOUS
<1>3. \A x \in 0 .. m - 1 : x % m = x /\ (x + m) % m = x /\ (x + 2 * m) % m = x
  BY <1>1, <1>2
<1>4. ASSUME NEW x \in -m .. -1 PROVE x % m = x + m
  <2>1. x = m * (-1) + (x + m) /\ x + m \in 0 .. m - 1
    BY <1>4
  <2> QED BY <1>2, <2>1
<1>5. \A x \in Int : x % m \in 0 .. m - 1 /\ x % m \in Int
  OBVIOUS
<1> QED BY <1>3, <1>4, <1>5

\* The offset of a branch leads to its target, up to a turn of the address space.
LEMMA OffsetReaches ==
  ASSUME NEW t \in 0 .. WordMod - 1, NEW pc \in 0 .. WordMod - 1
  PROVE  /\ Offset(t, pc) \in Int /\ -WordMod <= Offset(t, pc) /\ Offset(t, pc) < WordMod
         /\ pc + Offset(t, pc) \in {t, t + WordMod, t - WordMod}
         /\ t = pc => Offset(t, pc) = 0 \/ Offset(t, pc) = -WordMod
<1> DEFINE u == (t - pc) % WordMod
<1>1. WordMod \in Nat /\ WordMod > 0
  BY Constants
<1>2. t - pc \in 0 .. WordMod - 1 \/ t - pc \in -WordMod .. -1
  BY <1>1
<1>3. u = t - pc \/ (t < pc /\ u = t - pc + WordMod)
  BY <1>1, <1>2, Around
<1>4. u \in 0 .. WordMod - 1
  BY <1>1, <1>2, <1>3
<1>5. Offset(t, pc) = u \/ Offset(t, pc) = u - WordMod
  BY DEF Offset
<1> HIDE DEF u
<1> QED BY <1>1, <1>3, <1>4, <1>5

\* An offset that fits the field comes back from it (imm11_encode, sext11).
LEMMA ShortArrives ==
  ASSUME NEW t \in 0 .. WordMod - 1, NEW pc \in 0 .. WordMod - 1, ~NeedsLong(t, pc)
  PROVE  (pc + Sext11(Imm11Encode(Offset(t, pc)))) % WordMod = t
<1> DEFINE d == Offset(t, pc)
<1>1. /\ WordMod \in Nat /\ WordMod > 0 /\ ImmMax \in Nat /\ Imm11Mod = 2 * ImmMax + 2
      /\ Imm11Mod \in Nat /\ ImmMin = -ImmMax - 1
  BY Constants
<1>2. d \in Int /\ -ImmMax - 1 <= d /\ d <= ImmMax
  BY <1>1, OffsetReaches DEF NeedsLong
<1>3. pc + d \in {t, t + WordMod, t - WordMod} /\ -WordMod <= d /\ d < WordMod
  BY OffsetReaches
<1> HIDE DEF d
<1>4. CASE d >= 0
  <2>1. d \in 0 .. Imm11Mod - 1
    BY <1>1, <1>2, <1>4
  <2>2. Imm11Encode(d) = d
    BY <1>1, <2>1, Around DEF Imm11Encode
  <2>3. Sext11(Imm11Encode(d)) = d
    BY <1>2, <2>2 DEF Sext11
  <2>4. pc + d = t \/ pc + d = t + WordMod
    BY <1>1, <1>2, <1>3, <1>4
  <2>5. t % WordMod = t /\ (t + WordMod) % WordMod = t
    BY <1>1, Around
  <2> QED BY <2>3, <2>4, <2>5 DEF d
<1>5. CASE d < 0
  <2>1. d \in -Imm11Mod .. -1
    BY <1>1, <1>2, <1>5
  <2>2. Imm11Encode(d) = d + Imm11Mod
    BY <1>1, <2>1, Around DEF Imm11Encode
  <2>3. Sext11(Imm11Encode(d)) = WordMod + d
    BY <1>1, <1>2, <2>2 DEF Sext11
  <2>4. pc + (WordMod + d) \in {t, t + WordMod, t + 2 * WordMod}
    BY <1>1, <1>2, <1>3
  <2>5. t % WordMod = t /\ (t + WordMod) % WordMod = t /\ (t + 2 * WordMod) % WordMod = t
    BY <1>1, Around
  <2> QED BY <2>3, <2>4, <2>5 DEF d
<1> QED BY <1>2, <1>4, <1>5

\* An address below the middle of a half word comes back from its two fields.
LEMMA NearLoaded ==
  ASSUME NEW a \in Nat, a < Half \div 2
  PROVE  /\ a % Half = a /\ a \div Half = 0 /\ (a \div Half) % Half = 0
         /\ a < Half /\ a < WordMod /\ a % WordMod = a
         /\ LET s == SplitImm16(a) IN Imm16FromParts(s.immh, s.imm11) = a
<1>1. /\ Half \in Nat /\ Half > 0 /\ Half <= WordMod /\ WordMod \in Nat /\ WordMod > 0
      /\ Imm11Mod \in Nat /\ Imm11Mod > 0
  BY Constants
<1>2. Half \div 2 <= Half /\ Half \div 2 \in Nat
  BY <1>1
<1>3. a < Half /\ a < WordMod
  BY <1>1, <1>2
<1>4. a % Half = a /\ a % WordMod = a /\ 0 % Half = 0
  BY <1>1, <1>3, Around
<1>5. a \div Half = 0
  <2>1. \A m \in Nat : \A x \in 0 .. m - 1 : m > 0 => x \div m = 0
    OBVIOUS
  <2> QED BY <1>1, <1>3, <2>1
<1>6. (a \div Imm11Mod) * Imm11Mod + (a % Imm11Mod) = a
  <2>1. \A m \in Nat : \A x \in Nat : m > 0 => (x \div m) * m + (x % m) = x
    OBVIOUS
  <2> QED BY <1>1, <2>1
<1>7. Imm16FromParts(a \div Imm11Mod, a % Imm11Mod) = a
  BY <1>6 DEF Imm16FromParts
<1> QED BY <1>3, <1>4, <1>5, <1>7 DEF SplitImm16

-----------------------------------------------------------------------------
(* Where branches go. *)

\* The immediate operand of the word of a branch.
LEMMA BranchImm ==
  ASSUME NEW op, NEW o
  PROVE  BranchWord(op, o).op = op /\ Imm32(BranchWord(op, o)) = Sext11(Imm11Encode(o))
<1> DEFINE v == Imm11Encode(o)
           w == [op |-> op, imm11 |-> v]
<1>1. BranchWord(op, o) = w
  BY DEF BranchWord
<1> HIDE DEF v
<1>2. "immh" \notin DOMAIN w /\ DOMAIN w = {"op", "imm11"} /\ w.imm11 = v /\ w.op = op
  OBVIOUS
<1> HIDE DEF w
<1>3. Imm32(w) = Sext11(w.imm11)
  BY <1>2 DEF Imm32
<1> QED BY <1>1, <1>2, <1>3, Zenon DEF v

\* The immediate operand of a word with a half-word.
LEMMA HalfImm ==
  ASSUME NEW op, NEW n
  PROVE  /\ Imm16Word(op, n).op = op
         /\ Imm32(Imm16Word(op, n)) = LET s == SplitImm16(n) IN Imm16FromParts(s.immh, s.imm11)
<1> DEFINE s == SplitImm16(n)
           w == [op |-> op, immh |-> s.immh, imm11 |-> s.imm11]
<1>1. Imm16Word(op, n) = w
  BY DEF Imm16Word
<1> HIDE DEF s
<1>2. /\ "immh" \in DOMAIN w /\ DOMAIN w # {"op", "imm11"}
      /\ w.immh = s.immh /\ w.imm11 = s.imm11 /\ w.op = op
  OBVIOUS
<1> HIDE DEF w
<1>3. Imm32(w) = Imm16FromParts(w.immh, w.imm11)
  BY <1>2 DEF Imm32
<1> QED BY <1>1, <1>2, <1>3, Zenon DEF s

\* A branch has the address of the last line that defines its label.
LEMMA TargetPlace ==
  ASSUME Assembled, NEW i \in BranchLines
  PROVE  \E j \in 1 .. Len(prog) :
           /\ j # i /\ Target(prog[i].target) = place[j].addr
           /\ labels[prog[i].target] = place[j].addr
<1> DEFINE l == prog[i].target
<1>1. /\ i \in 1 .. Len(prog) /\ prog[i].kind \in BranchKinds /\ l \in Labels
      /\ labels[l] \in Nat /\ labels[l] # Undefined
  BY NotRefused DEF Undefined
<1>2. PICK j \in Definitions(l) :
        (\A k \in Definitions(l) : k <= j) /\ labels[l] = place[j].addr
  BY <1>1, LastKnown
<1>3. j \in 1 .. Len(prog) /\ prog[j] = [kind |-> "label", name |-> l]
      /\ Definitions(l) \subseteq 1 .. Len(prog)
  BY DEF Definitions
<1>4. j # i
  BY <1>1, <1>3 DEF BranchKinds
<1>5. Max(Definitions(l)) = j
  <2> DEFINE D == Definitions(l)
  <2>1. D \subseteq Int /\ j \in D /\ \A k \in D : j >= k
    BY <1>2, <1>3
  <2> HIDE DEF D
  <2>2. \A x \in D : (\A k \in D : x >= k) => x = j
    BY <2>1
  <2> QED BY <2>1, <2>2 DEF Max, D
<1> QED BY <1>2, <1>3, <1>4, <1>5, Zenon DEF Target

\* Where a branch and its label are.
LEMMA LabelOutside ==
  ASSUME Landing, NEW i \in BranchLines
  PROVE  LET t == labels[prog[i].target]
             c == place[i].addr
         IN  /\ t = Target(prog[i].target)
             /\ t \in 0 .. WordMod - 1 /\ c \in 0 .. WordMod - 1
             /\ t \in Covered(i) => t = c
             /\ c \in Covered(i)
             /\ place[i].size = InsnBytes * Len(Lines(i)) /\ place[i].size \in Nat
             /\ Following(i) \notin Covered(i) /\ Following(i) = c + place[i].size
<1> DEFINE t == labels[prog[i].target]
           c == place[i].addr
           m == InsnBytes * Len(Lines(i))
<1>1. Assembled /\ i \in 1 .. Len(prog) /\ Len(Lines(i)) \in 1 .. 6
  BY NotRefused DEF Landing
<1>2. PICK j \in 1 .. Len(prog) :
        j # i /\ Target(prog[i].target) = place[j].addr /\ t = place[j].addr
  BY <1>1, TargetPlace
<1>3. c \in Nat /\ place[j].addr \in Nat /\ c < WordMod /\ place[j].addr < WordMod
  BY <1>1, <1>2, Placed DEF Landing, Fits
<1>4. WordMod \in Nat /\ InsnBytes \in Nat
  BY Constants
<1>5. place[i].size = m /\ place[i].size \in Nat
  BY <1>1, Placed DEF Landing, Settled
<1>6. Following(i) = c + m
  BY <1>5 DEF Following
<1>7. c \in Covered(i)
  <2>1. 1 \in 1 .. Len(Lines(i)) /\ InsnBytes * (1 - 1) = 0
    BY <1>1, <1>4
  <2>2. c + InsnBytes * (1 - 1) \in Covered(i)
    BY <1>1, <2>1, ImageWord
  <2>3. c + 0 = c
    BY <1>3
  <2> QED BY <2>1, <2>2, <2>3
<1>8. \A a \in Covered(i) : a \in Nat /\ c <= a /\ a < c + m
  BY <1>1, CoveredRange
<1>9. (i < j => c + m <= t) /\ (j < i => t + InsnBytes * Len(Lines(j)) <= c)
  BY <1>1, <1>2, LinesFollow
<1>10. InsnBytes * Len(Lines(j)) \in Nat
  <2>1. j - 1 \in 0 .. Len(prog)
    BY <1>1, Placed
  <2>2. place[j].addr % InsnBytes = 0
    BY <2>1, WholeWords
  <2> QED BY <2>2, LineRoom
<1> DEFINE n == InsnBytes * Len(Lines(j))
<1>11. n \in Nat /\ m \in Nat /\ t \in Nat /\ (j < i => t + n <= c)
  BY <1>2, <1>3, <1>5, <1>9, <1>10
<1> HIDE DEF m, n, c, t
<1>12. t \in Covered(i) => t = c
  <2> SUFFICES ASSUME t \in Covered(i) PROVE t = c
    OBVIOUS
  <2>1. c <= t /\ t < c + m
    BY <1>8
  <2>2. i < j \/ j < i
    BY <1>1, <1>2
  <2> QED BY <1>3, <1>9, <1>11, <2>1, <2>2 DEF c
<1>13. Following(i) \notin Covered(i)
  BY <1>3, <1>6, <1>8, <1>11 DEF c
<1>14. t \in 0 .. WordMod - 1 /\ c \in 0 .. WordMod - 1 /\ t = Target(prog[i].target)
  BY <1>2, <1>3, <1>4, <1>11 DEF c
<1> QED BY <1>5, <1>6, <1>7, <1>12, <1>13, <1>14 DEF m, c, t

Standing(c, r) == [pc |-> c, reg |-> r]

\* A tuple of two from two tuples of one.
LEMMA Joined ==
  ASSUME NEW x, NEW y
  PROVE  LET s == (<< >> \o <<x>>) \o <<y>> IN Len(s) = 2 /\ s[1] = x /\ s[2] = y
<1>1. << >> \o <<x>> = <<x>>
  OBVIOUS
<1>2. LET s == <<x>> \o <<y>> IN Len(s) = 2 /\ s[1] = x /\ s[2] = y
  OBVIOUS
<1> QED BY <1>1, <1>2, Zenon

\* A line left after at most two instructions is left for good.
LEMMA TwoSteps ==
  ASSUME NEW i, NEW holds, NEW s,
         OnLine(i, holds, Standing(place[i].addr, 0)) = s,
         OnLine(i, holds, OnLine(i, holds, s)) = OnLine(i, holds, s)
  PROVE  Leaves(i, holds) = OnLine(i, holds, s).pc
<1> DEFINE F(x) == OnLine(i, holds, x)
           u == F(s)
           s0 == Standing(place[i].addr, 0)
<1>1. Leaves(i, holds) = F(F(F(F(F(F(s0)))))).pc
  BY DEF Leaves, Standing
<1> HIDE DEF F
<1>2. F(s0) = s /\ F(u) = u
  BY DEF F
<1> HIDE DEF s0
<1>3. F(F(F(F(F(F(s0)))))) = u
  BY <1>2
<1> QED BY <1>1, <1>3, Zenon DEF F

\* Off its words a line does nothing.
LEMMA Stays ==
  ASSUME NEW i, NEW holds, NEW s, s.pc \notin Covered(i)
  PROVE  OnLine(i, holds, s) = s
BY DEF OnLine

\* A short branch goes where it should.
LEMMA ShortLands ==
  ASSUME Landing, NEW i \in BranchLines, NEW holds \in BOOLEAN, Len(Lines(i)) = 1
  PROVE  Leaves(i, holds) = Destination(i, holds)
<1> DEFINE t == labels[prog[i].target]
           c == place[i].addr
           kind == prog[i].kind
           w == ShortWord(kind, t, c)
           x == IF kind = "jump" \/ holds THEN t ELSE Following(i)
<1>1. /\ i \in 1 .. Len(prog) /\ kind \in BranchKinds /\ t \in Nat
      /\ Lines(i) = Resolved(kind, t, c) /\ c \in Nat
  BY NotRefused, Placed DEF Landing
<1>2. /\ t = Target(prog[i].target) /\ t \in 0 .. WordMod - 1 /\ c \in 0 .. WordMod - 1
      /\ (t \in Covered(i) => t = c) /\ c \in Covered(i)
      /\ place[i].size = InsnBytes * Len(Lines(i))
      /\ Following(i) \notin Covered(i) /\ Following(i) = c + place[i].size
  BY LabelOutside
<1>3. ~NeedsLong(t, c)
  BY <1>1, ResolvedWords
<1>4. Lines(i)[1] = w
  <2>1. Resolved(kind, t, c) = <<w>>
    BY <1>3 DEF Resolved, ShortWord
  <2> HIDE DEF w
  <2>2. <<w>>[1] = w
    OBVIOUS
  <2> QED BY <1>1, <2>1, <2>2, Zenon
<1>5. image[c] = w
  <2>1. 1 \in 1 .. Len(Lines(i)) /\ c + InsnBytes * (1 - 1) = c
    BY <1>1, Constants
  <2>2. image[c + InsnBytes * (1 - 1)] = Lines(i)[1]
    BY <1>1, <2>1, ImageWord
  <2> QED BY <1>4, <2>1, <2>2, Zenon
<1>6. w.op = (IF kind = "jump" THEN "jmp" ELSE "bcc")
      /\ Imm32(w) = Sext11(Imm11Encode(Offset(t, c)))
  BY BranchImm DEF ShortWord
<1>7. (c + Imm32(w)) % WordMod = t
  BY <1>2, <1>3, <1>6, ShortArrives
<1>8. c + InsnBytes = Following(i)
  <2>1. InsnBytes * 1 = InsnBytes
    BY Constants
  <2> QED BY <1>2, <2>1
<1> HIDE DEF t, c, w, kind
<1>9. Executed(Standing(c, 0), holds) = Standing(x, 0)
  <2>1. Standing(c, 0).pc = c /\ \A y : [Standing(c, 0) EXCEPT !.pc = y] = Standing(y, 0)
    BY DEF Standing
  <2>2. CASE kind = "jump"
    <3>1. w.op = "jmp" /\ x = t
      BY <1>6, <2>2
    <3> QED BY <1>5, <1>7, <2>1, <3>1 DEF Executed
  <2>3. CASE kind # "jump"
    <3>1. w.op = "bcc" /\ x = IF holds THEN t ELSE c + InsnBytes
      BY <1>6, <1>8, <2>3
    <3> HIDE DEF x
    <3> QED BY <1>5, <1>7, <2>1, <3>1 DEF Executed
  <2> QED BY <2>2, <2>3
<1>10. x \in Covered(i) => x = c
  BY <1>2 DEF t, c
<1>11. Standing(c, 0).pc = c /\ Standing(x, 0).pc = x
  BY DEF Standing
<1>12. OnLine(i, holds, Standing(c, 0)) = Standing(x, 0)
  BY <1>2, <1>9, <1>11, Zenon DEF OnLine, c
<1>13. OnLine(i, holds, Standing(x, 0)) = Standing(x, 0)
  <2> HIDE DEF x
  <2>1. CASE x \in Covered(i)
    BY <1>10, <1>12, <2>1
  <2>2. CASE x \notin Covered(i)
    BY <1>11, <2>2, Stays
  <2> QED BY <2>1, <2>2
<1>14. Leaves(i, holds) = x
  <2> HIDE DEF x
  <2>1. Leaves(i, holds) = OnLine(i, holds, Standing(x, 0)).pc
    BY <1>12, <1>13, TwoSteps DEF c
  <2> QED BY <1>11, <1>13, <2>1, Zenon
<1> QED BY <1>2, <1>14 DEF t, kind, Destination

\* A long jump to a label below 0x8000 goes where it should.
LEMMA LongLands ==
  ASSUME Landing, NEW i \in BranchLines, NEW holds \in BOOLEAN, Len(Lines(i)) # 1,
         prog[i].kind = "jump", Near(prog[i].target)
  PROVE  Leaves(i, holds) = Destination(i, holds)
<1> DEFINE t == labels[prog[i].target]
           c == place[i].addr
           li == Imm16Word("li", t)
           next == c + InsnBytes
<1>1. /\ i \in 1 .. Len(prog) /\ t \in Nat
      /\ Lines(i) = Resolved("jump", t, c) /\ c \in Nat
  BY NotRefused, Placed DEF Landing
<1>2. /\ t = Target(prog[i].target) /\ t \in 0 .. WordMod - 1 /\ c \in 0 .. WordMod - 1
      /\ (t \in Covered(i) => t = c) /\ c \in Covered(i)
  BY LabelOutside
<1>3. NeedsLong(t, c)
  BY <1>1, ResolvedWords
<1>4. t < Half \div 2
  BY <1>2 DEF Near
<1>5. /\ t % Half = t /\ (t \div Half) % Half = 0 /\ t % WordMod = t
      /\ LET s == SplitImm16(t) IN Imm16FromParts(s.immh, s.imm11) = t
  BY <1>1, <1>4, NearLoaded
<1>6. Lines(i) = (<< >> \o <<li>>) \o <<LastWord>>
  <2>1. LoadAddress(t) = <<Imm16Word("li", t % Half)>>
    BY <1>5 DEF LoadAddress
  <2>2. LoadAddress(t) = <<li>>
    BY <1>5, <2>1, Zenon
  <2>3. Resolved("jump", t, c) = (<< >> \o LoadAddress(t)) \o <<LastWord>>
    BY <1>3 DEF Resolved, LastWord
  <2> HIDE DEF li
  <2> QED BY <1>1, <2>2, <2>3, Zenon
<1> HIDE DEF li
<1>7. Len(Lines(i)) = 2 /\ Lines(i)[1] = li /\ Lines(i)[2] = LastWord
  BY <1>6, Joined
<1>8. image[c] = li /\ image[next] = LastWord /\ next \in Covered(i)
  <2>1. /\ 1 \in 1 .. Len(Lines(i)) /\ c + InsnBytes * (1 - 1) = c
        /\ 2 \in 1 .. Len(Lines(i)) /\ c + InsnBytes * (2 - 1) = next
    BY <1>1, <1>7, Constants
  <2>2. /\ image[c + InsnBytes * (1 - 1)] = Lines(i)[1]
        /\ image[c + InsnBytes * (2 - 1)] = Lines(i)[2]
        /\ c + InsnBytes * (2 - 1) \in Covered(i)
    <3> HIDE DEF c
    <3> QED BY <1>1, <2>1, ImageWord DEF c
  <2> QED BY <1>7, <2>1, <2>2, Zenon
<1>9. li.op = "li" /\ Imm32(li) = t
  BY <1>5, HalfImm DEF li
<1>10. LastWord.op = "jmpr" /\ Imm32(LastWord) = 0
  <2>1. LastWord.op = "jmpr" /\ Imm32(LastWord) = Sext11(Imm11Encode(0))
    BY BranchImm DEF LastWord
  <2>2. Imm11Encode(0) = 0
    BY Constants, Around DEF Imm11Encode
  <2>3. Sext11(0) = 0
    BY Constants DEF Sext11
  <2> QED BY <2>1, <2>2, <2>3
<1>11. t # c
  <2>1. SUFFICES ASSUME t = c PROVE FALSE
    OBVIOUS
  <2>2. Offset(t, c) = 0
    <3>1. WordMod \in Nat /\ WordMod > 1 /\ (t - c) % WordMod = 0
      <4>1. WordMod \in Nat /\ WordMod > 0 /\ t - c = 0
        BY <1>1, <2>1, Constants
      <4>2. 0 % WordMod = 0
        BY <4>1, Around
      <4>3. WordMod # 1
        <5>1. Imm11Mod <= Half
          <6>1. Half % Imm11Mod = 0
            BY RelaxationAssumption DEF Imm11Mod
          <6>2. Half < Imm11Mod => Half % Imm11Mod = Half
            BY Constants, Around
          <6> QED BY <6>1, <6>2, Constants
        <5> QED BY <5>1, Constants
      <4> QED BY <4>1, <4>2, <4>3
    <3>2. 0 < WordMod \div 2
      BY <3>1
    <3> QED BY <3>1, <3>2 DEF Offset
  <2>3. ~NeedsLong(t, c)
    BY <2>2, Constants DEF NeedsLong
  <2> QED BY <1>3, <2>3
<1> HIDE DEF t, c, next
<1>12. \A y, r : Standing(y, r).pc = y /\ Standing(y, r).reg = r
  BY DEF Standing
<1>13. Executed(Standing(c, 0), holds) = Standing(next, t)
  BY <1>8, <1>9, <1>12 DEF Executed, next, Standing
<1>14. Executed(Standing(next, t), holds) = Standing(t, t)
  <2>1. \A y : [Standing(next, t) EXCEPT !.pc = y] = Standing(y, t)
    BY DEF Standing
  <2>2. (t + 0) % WordMod = t
    BY <1>1, <1>5
  <2> QED BY <1>8, <1>10, <1>12, <2>1, <2>2 DEF Executed
<1>15. OnLine(i, holds, Standing(c, 0)) = Standing(next, t)
  BY <1>2, <1>12, <1>13, Zenon DEF OnLine
<1>16. OnLine(i, holds, Standing(next, t)) = Standing(t, t)
  BY <1>8, <1>12, <1>14, Zenon DEF OnLine
<1>17. OnLine(i, holds, Standing(t, t)) = Standing(t, t)
  <2>1. t \notin Covered(i)
    BY <1>2, <1>11
  <2> QED BY <2>1, <1>12, Stays
<1>18. Leaves(i, holds) = Standing(t, t).pc
  BY <1>15, <1>16, <1>17, TwoSteps DEF c
<1>19. Destination(i, holds) = t
  BY <1>2 DEF Destination, t
<1> QED BY <1>12, <1>18, <1>19

\* Both together.
LEMMA Lands ==
  ASSUME Landing, NEW i \in BranchLines, NEW holds \in BOOLEAN,
         \/ Len(Lines(i)) = 1
         \/ prog[i].kind = "jump" /\ Near(prog[i].target)
  PROVE  Leaves(i, holds) = Destination(i, holds)
<1>1. CASE Len(Lines(i)) = 1
  BY <1>1, ShortLands
<1>2. CASE Len(Lines(i)) # 1
  BY <1>2, LongLands
<1> QED BY <1>1, <1>2

\* In any program of whole words that the passes have settled and that fits the
\* address space, a jump, short or long, and a short branch, encoded, emitted,
\* decoded and executed, end where their label is, and no line has been emitted
\* over their words (pseudo.py, long_branch.py, encode.py, decode.py, execute.py).
THEOREM JumpsLandAlways == AsmSpec => []JumpsLand
<1>1. AsmInv => JumpsLand
  <2>1. AsmInv /\ phase = "done" /\ Straight /\ Fits /\ Settled => Landing
    BY DEF Landing, Assembled
  <2>2. Landing => \A i \in BranchLines, holds \in BOOLEAN :
          (\/ Len(Lines(i)) = 1
           \/ prog[i].kind = "jump" /\ Near(prog[i].target)) =>
            Leaves(i, holds) = Destination(i, holds)
    <3> SUFFICES ASSUME Landing, NEW i \in BranchLines, NEW holds \in BOOLEAN,
                        \/ Len(Lines(i)) = 1
                        \/ prog[i].kind = "jump" /\ Near(prog[i].target)
                 PROVE  Leaves(i, holds) = Destination(i, holds)
      BY Zenon
    <3> QED BY Lands, Zenon
  <2> QED BY <2>1, <2>2, Zenon DEF JumpsLand
<1> QED BY <1>1, AsmAlways, PTL

-----------------------------------------------------------------------------
(* When the passes have settled. *)

\* No label is defined twice.
Single == \A l \in Labels : \A j, k \in Definitions(l) : j = k

\* Had the assembler tested after its passes that the last one left the labels as
\* they were, every branch of a program that defines each label once would have had
\* the room it needs (driver.py, _assign_addresses).
THEOREM StableSettles ==
  AsmSpec => [](phase = "done" /\ seen = labels /\ Single => Settled)
<1>1. AsmInv => (phase = "done" /\ seen = labels /\ Single => Settled)
  <2> SUFFICES ASSUME AsmInv, phase = "done", seen = labels, Single,
                      NEW i \in BranchLines
               PROVE  InsnBytes * Len(Lines(i)) = place[i].size
    BY DEF Settled
  <2> DEFINE l == prog[i].target
  <2>1. Assembled /\ CountedAsEmitted
    BY Counts DEF Assembled
  <2>2. l \in Labels /\ i \in 1 .. Len(prog) /\ prog[i].kind \in BranchKinds
    BY <2>1, NotRefused
  <2>3. Definitions(l) \subseteq Int /\ i \in Int /\ i \notin Definitions(l)
    BY <2>2 DEF Definitions, BranchKinds
  <2>4. (\A j \in Definitions(l) : j < i) \/ (\A j \in Definitions(l) : j > i)
    <3>1. \A j, k \in Definitions(l) : j = k
      BY <2>2 DEF Single
    <3> HIDE DEF l
    <3>2. CASE Definitions(l) = {}
      BY <3>2
    <3>3. CASE Definitions(l) # {}
      <4>1. PICK j \in Definitions(l) : TRUE
        BY <3>3
      <4>2. j < i \/ j > i
        BY <2>3
      <4> QED BY <3>1, <4>2
    <3> QED BY <3>2, <3>3
  <2> QED BY <2>1, <2>4 DEF CountedAsEmitted
<1> QED BY <1>1, AsmAlways, PTL

\* In the estimate, where every branch is one word, each is within reach of its label.
Names(p, j, l) == j \in 1 .. Len(p) /\ p[j] = [kind |-> "label", name |-> l]
InReach(p) ==
  \A i, j \in 1 .. Len(p) :
    p[i].kind \in BranchKinds /\ Names(p, j, p[i].target) =>
      Estimate(p)[j - 1].lc - Estimate(p)[i - 1].lc \in ImmMin .. ImmMax
LabelsOf(p) == Estimate(p)[Len(p)].known

\* A label of the estimate is unknown, or where a line defines it.
Found(p, l, x) ==
  x = Undefined \/ \E j \in 1 .. Len(p) : Names(p, j, l) /\ x = Estimate(p)[j - 1].lc

LEMMA EstimateNames ==
  ASSUME NEW p \in Seq(LineSet), NEW l \in Labels
  PROVE  \A i \in 0 .. Len(p) : Found(p, l, Estimate(p)[i].known[l])
<1> DEFINE OK(i) == Found(p, l, Estimate(p)[i].known[l])
           T == {i \in 0 .. Len(p) : OK(i)}
<1>1. Len(p) \in Nat
  OBVIOUS
<1>2. OK(0)
  BY <1>1, EstimateScans DEF Origins, NoLabels, Found
<1>3. ASSUME NEW i \in 0 .. Len(p) - 1, OK(i) PROVE OK(i + 1)
  <2> DEFINE n == i + 1
  <2>1. n \in 1 .. Len(p) /\ n - 1 = i /\ p[n] \in LineSet /\ i \in 0 .. Len(p)
    OBVIOUS
  <2> HIDE DEF n
  <2>2. Estimate(p)[n] = Counted(p, n, Estimate(p)[i])
    BY <1>1, <2>1, EstimateScans
  <2>3. Estimate(p)[i].known \in LabelMap
    BY <2>1, EstimateTypes
  <2>4. Estimate(p)[n].known = Named(p[n], Estimate(p)[i].lc, Estimate(p)[i].known)
    BY <2>2 DEF Counted
  <2>5. CASE p[n] = [kind |-> "label", name |-> l]
    <3>1. Estimate(p)[n].known[l] = Estimate(p)[n - 1].lc
      BY <2>1, <2>3, <2>4, <2>5 DEF Named, LabelMap
    <3> QED BY <2>1, <2>5, <3>1 DEF Found, Names, n
  <2>6. CASE p[n] # [kind |-> "label", name |-> l]
    <3>1. Estimate(p)[n].known[l] = Estimate(p)[i].known[l]
      <4>1. CASE p[n].kind = "label"
        <5>1. p[n].name \in Labels /\ p[n].name # l
          BY <2>1, <2>6, <4>1, LineTypes
        <5> QED BY <2>3, <2>4, <4>1, <5>1 DEF Named, LabelMap
      <4>2. CASE p[n].kind # "label"
        BY <2>4, <4>2 DEF Named
      <4> QED BY <4>1, <4>2
    <3> QED BY <1>3, <3>1, Zenon DEF n
  <2> QED BY <2>5, <2>6
<1> HIDE DEF OK
<1>4. 0 \in T /\ \A i \in 0 .. Len(p) - 1 : i \in T => i + 1 \in T
  BY <1>1, <1>2, <1>3
<1> HIDE DEF T
<1>5. \A i \in 0 .. Len(p) : i \in T
  BY <1>1, <1>4, Upward
<1> QED BY <1>5 DEF T, OK

\* Addresses in reach of each other are within the reach of a short branch.
LEMMA CloseIsShort ==
  ASSUME NEW t \in Nat, NEW pc \in Nat, t - pc \in ImmMin .. ImmMax
  PROVE  ~NeedsLong(t, pc)
<1>1. /\ WordMod \in Nat /\ WordMod > 0 /\ ImmMax \in Nat /\ ImmMin = -ImmMax - 1
      /\ Half \in Nat /\ Imm11Mod = 2 * ImmMax + 2 /\ Half > 0 /\ Half <= WordMod
      /\ Imm11Mod \in Nat
  BY Constants
<1>2. Imm11Mod <= Half
  <2>1. Half % Imm11Mod = 0
    BY RelaxationAssumption DEF Imm11Mod
  <2>2. Half < Imm11Mod => Half % Imm11Mod = Half
    BY <1>1, Around
  <2> QED BY <1>1, <2>1, <2>2
<1>3. 2 * ImmMax + 2 <= WordMod
  BY <1>1, <1>2
<1> DEFINE d == t - pc
<1>4. d \in Int /\ -ImmMax - 1 <= d /\ d <= ImmMax
  BY <1>1
<1> HIDE DEF d
<1>5. CASE d >= 0
  <2>1. d % WordMod = d
    BY <1>1, <1>3, <1>4, <1>5, Around
  <2>2. d < WordMod \div 2
    BY <1>1, <1>3, <1>4
  <2>3. Offset(t, pc) = d
    BY <2>1, <2>2 DEF Offset, d
  <2> QED BY <1>1, <1>4, <2>3 DEF NeedsLong
<1>6. CASE d < 0
  <2>1. d % WordMod = d + WordMod
    BY <1>1, <1>3, <1>4, <1>6, Around
  <2>2. ~(d + WordMod < WordMod \div 2)
    BY <1>1, <1>3, <1>4
  <2>3. Offset(t, pc) = (d + WordMod) - WordMod
    BY <2>1, <2>2 DEF Offset, d
  <2>4. (d + WordMod) - WordMod = d
    BY <1>1, <1>4
  <2> QED BY <1>1, <1>4, <2>3, <2>4 DEF NeedsLong
<1> QED BY <1>4, <1>5, <1>6

\* Such a branch is short, whichever definition of its label is seen.
LEMMA InReachShort ==
  ASSUME NEW p \in Seq(LineSet), InReach(p),
         NEW i \in 1 .. Len(p), p[i].kind \in BranchKinds,
         NEW kind, NEW t, Found(p, p[i].target, t)
  PROVE  LET lc == Estimate(p)[i - 1].lc
         IN  /\ BranchSize(kind, t, lc) = InsnBytes
             /\ ~Refused(kind, t, lc) => ~NeedsLong(t, lc)
<1> DEFINE lc == Estimate(p)[i - 1].lc
<1>1. Len(p) \in Nat /\ i - 1 \in 0 .. Len(p)
  OBVIOUS
<1>2. lc \in Nat
  BY <1>1, EstimateTypes
<1>3. CASE Refused(kind, t, lc)
  BY <1>3 DEF BranchSize
<1>4. CASE ~Refused(kind, t, lc)
  <2>1. PICK j \in 1 .. Len(p) : Names(p, j, p[i].target) /\ t = Estimate(p)[j - 1].lc
    BY <1>4 DEF Refused, Found
  <2>2. t \in Nat
    <3>1. j - 1 \in 0 .. Len(p)
      BY <1>1
    <3> QED BY <2>1, <3>1, EstimateTypes
  <2>3. t - lc \in ImmMin .. ImmMax
    BY <2>1 DEF InReach
  <2> HIDE DEF lc
  <2>4. ~NeedsLong(t, lc)
    BY <1>2, <2>2, <2>3, CloseIsShort
  <2>5. Len(Resolved(kind, t, lc)) = 1
    BY <1>2, <2>2, <2>4, ResolvedWords
  <2>6. InsnBytes * 1 = InsnBytes
    BY Constants
  <2>7. BranchSize(kind, t, lc) = InsnBytes
    BY <1>4, <2>5, <2>6 DEF BranchSize
  <2> QED BY <2>4, <2>7 DEF lc
<1> QED BY <1>3, <1>4

\* So in a pass every line counts as in the estimate.
LEMMA InReachSweep ==
  ASSUME NEW p \in Seq(LineSet), InReach(p)
  PROVE  \A i \in 0 .. Len(p) :
           /\ Sweep(p, LabelsOf(p))[i].lc = Estimate(p)[i].lc
           /\ Sweep(p, LabelsOf(p))[i].known = Estimate(p)[i].known
<1> DEFINE E == LabelsOf(p)
           OK(i) == /\ Sweep(p, E)[i].lc = Estimate(p)[i].lc
                    /\ Sweep(p, E)[i].known = Estimate(p)[i].known
           T == {i \in 0 .. Len(p) : OK(i)}
<1>1. Len(p) \in Nat /\ Len(p) \in 0 .. Len(p)
  OBVIOUS
<1>2. OK(0)
  <2>1. Sweep(p, E)[0] = Begun /\ Estimate(p)[0] = Origins
    BY <1>1, SweepScans, EstimateScans
  <2> QED BY <2>1 DEF Begun, Origins
<1>3. ASSUME NEW i \in 0 .. Len(p) - 1, OK(i) PROVE OK(i + 1)
  <2> DEFINE line == p[i + 1]
             lc == Estimate(p)[i].lc
             known == Estimate(p)[i].known
             size == SizeOf(line, known, E, lc)
  <2>1. i + 1 \in 1 .. Len(p) /\ (i + 1) - 1 = i /\ line \in LineSet /\ i \in 0 .. Len(p)
    OBVIOUS
  <2>2. Estimate(p)[i + 1] = Counted(p, i + 1, Estimate(p)[i])
    BY <1>1, <2>1, EstimateScans
  <2>3. /\ Estimate(p)[i + 1].lc = NextLine(line, lc, InsnBytes)
        /\ Estimate(p)[i + 1].known = Named(line, lc, known)
    BY <2>2 DEF Counted
  <2>4. /\ Sweep(p, E)[i + 1].lc = NextLine(line, lc, size)
        /\ Sweep(p, E)[i + 1].known = Named(line, lc, known)
    <3> HIDE DEF E
    <3>1. /\ Sweep(p, E)[i + 1].lc
               = NextLine(line, Sweep(p, E)[i].lc,
                          SizeOf(line, Sweep(p, E)[i].known, E, Sweep(p, E)[i].lc))
          /\ Sweep(p, E)[i + 1].known
               = Named(line, Sweep(p, E)[i].lc, Sweep(p, E)[i].known)
      <4>1. /\ RoomOf(p, E, i + 1).size
                 = SizeOf(p[i + 1], Sweep(p, E)[i].known, E, Sweep(p, E)[i].lc)
            /\ Sweep(p, E)[i + 1].lc
                 = NextLine(p[i + 1], Sweep(p, E)[i].lc, RoomOf(p, E, i + 1).size)
            /\ Sweep(p, E)[i + 1].known
                 = Named(p[i + 1], Sweep(p, E)[i].lc, Sweep(p, E)[i].known)
        BY SweepNext
      <4> QED BY <4>1, Zenon
    <3> QED BY <1>3, <3>1, Zenon
  <2>5. lc \in Nat /\ known \in LabelMap /\ E \in LabelMap
    BY <1>1, <2>1, EstimateTypes DEF LabelsOf
  <2>6. NextLine(line, lc, size) = NextLine(line, lc, InsnBytes)
    <3>1. CASE line.kind \in BranchKinds
      <4> DEFINE t == Seen(known, E, line.target)
      <4>1. line.target \in Labels
        BY <2>1, <3>1, LineTypes
      <4>2. Found(p, line.target, t)
        <5>1. /\ Found(p, line.target, known[line.target])
              /\ Found(p, line.target, E[line.target])
          BY <1>1, <2>1, <4>1, EstimateNames DEF LabelsOf
        <5> HIDE DEF known, E
        <5> QED BY <5>1 DEF Seen
      <4>3. size = BranchSize(line.kind, t, lc)
        BY <3>1 DEF SizeOf, BranchKinds
      <4> HIDE DEF t
      <4>4. size = InsnBytes
        <5> DEFINE n == i + 1
        <5>1. n \in 1 .. Len(p) /\ n - 1 = i
          BY <2>1
        <5> HIDE DEF n
        <5>2. p[n].kind \in BranchKinds /\ Found(p, p[n].target, t)
          BY <3>1, <4>2, Zenon DEF n
        <5>3. BranchSize(line.kind, t, Estimate(p)[n - 1].lc) = InsnBytes
          BY <5>1, <5>2, InReachShort
        <5> QED BY <4>3, <5>1, <5>3, Zenon
      <4> QED BY <4>4
    <3>2. CASE line.kind \notin BranchKinds
      <4>1. line.kind # "skip" => size = InsnBytes
        BY <3>2 DEF SizeOf
      <4>2. line.kind = "skip" => NextLine(line, lc, size) = lc + line.n
                                  /\ NextLine(line, lc, InsnBytes) = lc + line.n
        BY DEF NextLine
      <4> QED BY <4>1, <4>2, Zenon
    <3> QED BY <3>1, <3>2
  <2> HIDE DEF line, lc, known, size
  <2> QED BY <2>3, <2>4, <2>6, Zenon
<1> HIDE DEF OK
<1>4. 0 \in T /\ \A i \in 0 .. Len(p) - 1 : i \in T => i + 1 \in T
  BY <1>1, <1>2, <1>3
<1> HIDE DEF T
<1>5. \A i \in 0 .. Len(p) : i \in T
  BY <1>1, <1>4, Upward
<1> QED BY <1>5 DEF T, OK

\* And the labels stay as they were estimated.
InReachInv ==
  InReach(prog) => /\ phase # "collect" => labels = LabelsOf(prog)
                   /\ pass > 0 => seen = LabelsOf(prog)

LEMMA InReachAlways == AsmSpec => [](AsmInv /\ InReachInv)
<1>1. AsmInit => InReachInv
  BY DEF AsmInit, InReachInv
<1>2. AsmInv /\ InReachInv /\ [AsmNext]_asmVars => InReachInv'
  <2> SUFFICES ASSUME AsmInv, InReachInv, [AsmNext]_asmVars PROVE InReachInv'
    OBVIOUS
  <2>0. prog \in Seq(LineSet) /\ Len(prog) \in Nat /\ pass \in 0 .. Passes
    BY DEF AsmInv, AsmTypeOK
  <2>1. CASE Collect
    BY <2>1, Constants DEF Collect, InReachInv, LabelsOf, AsmInv
  <2>2. CASE Assign
    <3>1. /\ labels' = Sweep(prog, labels)[Len(prog)].known
          /\ seen' = labels /\ prog' = prog /\ phase = "assign"
      BY <2>2 DEF Assign
    <3>2. ASSUME InReach(prog) PROVE labels = LabelsOf(prog) /\ labels' = labels
      <4>1. labels = LabelsOf(prog)
        BY <3>1, <3>2 DEF InReachInv
      <4>2. Sweep(prog, LabelsOf(prog))[Len(prog)].known = LabelsOf(prog)
        <5>1. Len(prog) \in 0 .. Len(prog)
          BY <2>0
        <5>2. Sweep(prog, LabelsOf(prog))[Len(prog)].known = Estimate(prog)[Len(prog)].known
          BY <2>0, <3>2, <5>1, InReachSweep
        <5> QED BY <5>2 DEF LabelsOf
      <4> QED BY <3>1, <4>1, <4>2
    <3> QED BY <3>1, <3>2 DEF InReachInv
  <2>3. CASE Emit
    BY <2>0, <2>3 DEF Emit, InReachInv
  <2>4. CASE UNCHANGED asmVars
    BY <2>4 DEF asmVars, InReachInv
  <2> QED BY <2>1, <2>2, <2>3, <2>4 DEF AsmNext
<1> QED BY <1>1, <1>2, AsmBegins, AsmSteps, PTL DEF AsmSpec

LEMMA InReachSettles ==
  ASSUME Assembled, InReachInv, InReach(prog)
  PROVE  Settled /\ \A i \in BranchLines : Len(Lines(i)) = 1
<1> SUFFICES ASSUME NEW i \in BranchLines
             PROVE  Len(Lines(i)) = 1 /\ InsnBytes * Len(Lines(i)) = place[i].size
  BY DEF Settled
<1> DEFINE l == prog[i].target
           kind == prog[i].kind
           n == i - 1
           lc == Estimate(prog)[n].lc
           known == Estimate(prog)[n].known
           t == Seen(known, LabelsOf(prog), l)
<1>1. /\ i \in 1 .. Len(prog) /\ kind \in BranchKinds /\ l \in Labels
      /\ ~Refused(kind, labels[l], place[i].addr) /\ labels[l] \in Nat
      /\ Lines(i) = Resolved(kind, labels[l], place[i].addr)
  BY NotRefused
<1>2. /\ prog \in Seq(LineSet) /\ n \in 0 .. Len(prog) /\ n \in 0 .. Len(prog) - 1
      /\ Len(prog) \in 0 .. Len(prog)
      /\ place[i].addr = Start(prog, seen, i) /\ place[i].addr \in Nat
      /\ place[i].size = SizeOf(prog[i], Before(i).known, seen, place[i].addr)
  BY <1>1, Placed
<1>3. labels = LabelsOf(prog) /\ seen = LabelsOf(prog)
  BY Constants DEF InReachInv, Assembled, AsmInv
<1>4. place[i].addr = lc /\ Before(i).known = known
  <2>1. /\ Sweep(prog, LabelsOf(prog))[n].lc = lc
        /\ Sweep(prog, LabelsOf(prog))[n].known = known
    BY <1>2, InReachSweep
  <2> QED BY <1>2, <1>3, <2>1, Zenon DEF Start, Before
<1>5. \A x \in {known[l], labels[l]} : Found(prog, l, x)
  BY <1>1, <1>2, <1>3, EstimateNames DEF LabelsOf
<1>6. t \in {known[l], labels[l]}
  BY <1>3 DEF Seen
<1>7. place[i].size = BranchSize(kind, t, lc)
  BY <1>1, <1>2, <1>3, <1>4 DEF SizeOf, BranchKinds
<1>8. place[i].size = InsnBytes
  <2>1. Found(prog, l, t)
    BY <1>5, <1>6
  <2> HIDE DEF t
  <2> QED BY <1>1, <1>2, <1>7, <2>1, InReachShort
<1>9. ~NeedsLong(labels[l], lc)
  <2>1. Found(prog, l, labels[l])
    BY <1>5
  <2>2. ~Refused(kind, labels[l], lc)
    BY <1>1, <1>4
  <2> QED BY <1>1, <1>2, <2>1, <2>2, InReachShort
<1> HIDE DEF t, lc, known, kind
<1>10. Len(Lines(i)) = 1
  BY <1>1, <1>2, <1>4, <1>9, ResolvedWords
<1>11. InsnBytes * 1 = InsnBytes
  BY Constants
<1> QED BY <1>8, <1>10, <1>11

\* A program whose branches all reach their labels when each is one word is settled
\* by the first pass, all its branches are short, and if it is of whole words and
\* fits the address space, every branch, taken or not, goes where it should
\* (driver.py, pseudo.py, encode.py, decode.py, execute.py).
THEOREM InReachLands ==
  AsmSpec => [](phase = "done" /\ InReach(prog) =>
                  /\ Settled /\ labels = seen
                  /\ \A i \in BranchLines : Len(Lines(i)) = 1
                  /\ Straight /\ Fits =>
                       \A i \in BranchLines, holds \in BOOLEAN :
                         Leaves(i, holds) = Destination(i, holds))
<1>1. AsmInv /\ InReachInv =>
        (phase = "done" /\ InReach(prog) =>
           /\ Settled /\ labels = seen
           /\ \A i \in BranchLines : Len(Lines(i)) = 1
           /\ Straight /\ Fits =>
                \A i \in BranchLines, holds \in BOOLEAN :
                  Leaves(i, holds) = Destination(i, holds))
  <2> SUFFICES ASSUME AsmInv, InReachInv, phase = "done", InReach(prog)
               PROVE  /\ Settled /\ labels = seen
                      /\ \A i \in BranchLines : Len(Lines(i)) = 1
                      /\ Straight /\ Fits =>
                           \A i \in BranchLines, holds \in BOOLEAN :
                             Leaves(i, holds) = Destination(i, holds)
    OBVIOUS
  <2>1. Assembled
    BY DEF Assembled
  <2>2. Settled /\ \A i \in BranchLines : Len(Lines(i)) = 1
    BY <2>1, InReachSettles
  <2>3. labels = seen
    BY Constants DEF InReachInv, AsmInv
  <2>4. ASSUME Straight, Fits
        PROVE  \A i \in BranchLines, holds \in BOOLEAN :
                 Leaves(i, holds) = Destination(i, holds)
    <3>1. Landing
      BY <2>1, <2>2, <2>4 DEF Landing
    <3> QED BY <2>2, <3>1, ShortLands
  <2> QED BY <2>2, <2>3, <2>4
<1> QED BY <1>1, InReachAlways, PTL
=============================================================================
