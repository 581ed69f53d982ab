--------------------------- MODULE FirmwareFiles ----------------------------
(***************************************************************************)
(* The firmware images of the FPGA project and the scripts that write      *)
(* them: gen_firmware_hex.py, build_tn9k_firmware.py, which runs it, and   *)
(* restore_tn9k_baseline.py.  A script is a list of operations on files,   *)
(* one after the other.  The user runs one script at a time and may kill   *)
(* it; the FPGA tool may hold a file open, which makes writing it fail, and *)
(* any write may fail for another reason.                                  *)
(***************************************************************************)
EXTENDS Integers, Sequences, SequencesExt

CONSTANTS
  Lanes,     \* byte banks of an image (4)
  Retries,   \* attempts of _write_text_retry (8)
  Versions,  \* firmware the user builds
  MaxRuns    \* bound: scripts run in a behaviour

ASSUME FirmwareAssumption ==
  /\ Lanes \in Nat \ {0}
  /\ Retries \in Nat \ {0}
  /\ MaxRuns \in Nat

VARIABLES
  files,   \* test/src and test/tn9k/baseline
  held,    \* the file the FPGA tool holds open: the ROM, or none
  script,  \* the script that runs, or ran last
  before,  \* history: files when it was started
  runs     \* scripts run so far

vars == <<files, held, script, before, runs>>

-----------------------------------------------------------------------------
(* Files and contents. *)

Numbered(name) == [lane \in 1 .. Lanes |-> <<name, lane>>]
Banks == Numbered("firmware_b")
Rom == <<"firmware_rom", 0>>
Fetch == <<<<"fetch_rom_nop", 0>>, <<"instr_rom", 0>>>>
Store == Numbered("firmware_store_b")
Boot == Append(Banks, Rom)
Installed == <<Rom>> \o Banks
Demo == <<"examples", <<"demo_main", 0>>>>
Nowhere == <<"nothing", Rom>>
Places == {Demo} \union ({"src"} \X (ToSet(Boot) \union ToSet(Fetch) \union ToSet(Store)))
          \union ({"baseline"} \X ToSet(Boot))
InSrc(names) == [i \in DOMAIN names |-> <<"src", names[i]>>]
InBaseline(names) == [i \in DOMAIN names |-> <<"baseline", names[i]>>]

\* A file is absent, of some version, or cut off while it was written.
Absent == "absent"
Cut == "cut"

Ops(kind, places) == [i \in DOMAIN places |-> [kind |-> kind, place |-> places[i]]]
Twin(place) == <<IF place[1] = "src" THEN "baseline" ELSE "src", place[2]>>

\* main of gen_firmware_hex.py: the image, the banks, the ROM, with fetch the
\* instruction ROM, with store the program store.
Generates(fetch, store) ==
  <<[kind |-> "link", place |-> Nowhere]>>
    \o Ops("write", InSrc(Boot))
    \o (IF fetch THEN Ops("write", InSrc(Fetch)) ELSE << >>)
    \o (IF store THEN Ops("write", InSrc(Store)) ELSE << >>)

\* main of build_tn9k_firmware.py: for the profile demo a source with other delays,
\* the generator, the removal of what an earlier one has left in the program
\* store, and with install a copy as the baseline.
Builds(demo, install) ==
  (IF demo THEN <<[kind |-> "text", place |-> Demo]>> ELSE << >>)
    \o Generates(FALSE, FALSE) \o Ops("unlink", InSrc(Store))
    \o (IF install THEN Ops("copy", InBaseline(Installed)) ELSE << >>)

\* main of restore_tn9k_baseline.py
Restores == Ops("copy", InSrc(Installed))

Op == script.ops[script.at]
Running == script.exit = "running"

Idle == [ops |-> << >>, version |-> Absent, long |-> "no", at |-> 1, tries |-> 0,
         tmp |-> FALSE, exit |-> "ok"]

Init ==
  /\ \E v, w \in Versions \union {Absent} :
       files = [p \in Places |-> IF p[1] = "src" THEN v ELSE w]
  /\ held = Nowhere
  /\ script = Idle
  /\ before = files
  /\ runs = 0

-----------------------------------------------------------------------------
(* The user and the tool. *)

Run(ops, version, long) ==
  /\ ~Running
  /\ runs < MaxRuns
  /\ script' = [Idle EXCEPT !.ops = ops, !.version = version, !.long = long,
                            !.exit = "running"]
  /\ before' = files
  /\ runs' = runs + 1
  /\ UNCHANGED <<files, held>>

\* long: the image with its padding ("padded"), or the program itself
\* ("program"), exceeds the instruction ROM.
Generate ==
  \E v \in Versions, store \in BOOLEAN :
    \/ Run(Generates(FALSE, store), v, "no")
    \/ \E long \in {"no", "padded", "program"} : Run(Generates(TRUE, store), v, long)
Build == \E v \in Versions, demo, install \in BOOLEAN :
           Run(Builds(demo, install), v, "no")

\* With a file of the baseline missing the script ends before it copies.
Restore ==
  /\ \A i \in DOMAIN Boot : files[<<"baseline", Boot[i]>>] # Absent
  /\ Run(Restores, Absent, "no")

Kill ==
  /\ Running
  /\ script' = [script EXCEPT !.exit = "killed"]
  /\ UNCHANGED <<files, held, before, runs>>

Hold ==
  /\ held' \in {Nowhere, <<"src", Rom>>} \ {held}
  /\ UNCHANGED <<files, script, before, runs>>

-----------------------------------------------------------------------------
(* Operations. *)

Working(kind) ==
  /\ Running
  /\ script.at \in DOMAIN script.ops
  /\ Op.kind = kind
  /\ UNCHANGED <<held, before, runs>>

Done(s) == [s EXCEPT !.at = @ + 1, !.tries = 0, !.tmp = FALSE]
Failed(s) == [s EXCEPT !.exit = "failed"]

TooLong ==
  \/ Op.place = <<"src", Fetch[1]>> /\ script.long = "program"
  \/ Op.place = <<"src", Fetch[2]>> /\ script.long # "no"

\* The image is assembled and linked; a program that does not, or that names
\* another handler, ends the script.
Link ==
  /\ Working("link")
  /\ script' \in {Done(script), Failed(script)}
  /\ UNCHANGED files

\* write_fetch_rom_svh, write_instr_rom_hex: the image is measured when its turn
\* comes, after the files before it have been written.
RefuseLong ==
  /\ Working("write")
  /\ TooLong
  /\ script' = Failed(script)
  /\ UNCHANGED files

\* _write_text_retry: the new file under another name,
WriteTmp ==
  /\ Working("write")
  /\ ~TooLong /\ ~script.tmp
  /\ script' = [script EXCEPT !.tmp = TRUE]
  /\ UNCHANGED files

\* An altered replacement, against which DoneInOrder is validated: the file is
\* written under its own name.
ReplaceInPlace ==
  /\ Working("write")
  /\ script.tmp
  /\ held # Op.place
  /\ \/ files' = [files EXCEPT ![Op.place] = Cut] /\ UNCHANGED script
     \/ /\ files' = [files EXCEPT ![Op.place] = script.version]
        /\ script' = Done(script)

\* which then takes the place of the old one.
Replace ==
  /\ Working("write")
  /\ script.tmp
  /\ held # Op.place
  /\ files' = [files EXCEPT ![Op.place] = script.version]
  /\ script' = Done(script)

\* An altered handler, against which ScriptEnds is validated: it does not count.
AttemptFailsUncounted ==
  /\ Working("write")
  /\ ~TooLong
  /\ script' = [script EXCEPT !.tmp = FALSE, !.tries = 1]
  /\ UNCHANGED files

\* An OSError of either: the new file is removed, and after a while the next
\* attempt is made, or the script ends.
AttemptFails ==
  /\ Working("write")
  /\ ~TooLong
  /\ script' = IF script.tries + 1 < Retries
               THEN [script EXCEPT !.tmp = FALSE, !.tries = @ + 1]
               ELSE Failed(script)
  /\ UNCHANGED files

Unlink ==
  /\ Working("unlink")
  /\ \/ files' = [files EXCEPT ![Op.place] = Absent] /\ script' = Done(script)
     \/ files[Op.place] # Absent /\ script' = Failed(script) /\ UNCHANGED files

\* shutil.copy2 and Path.write_text open the target, which empties it, and then
\* write it.
InPlace == Running /\ script.at \in DOMAIN script.ops /\ Op.kind \in {"copy", "text"}

CopyOpen ==
  /\ InPlace /\ Working(Op.kind)
  /\ ~script.tmp
  /\ held # Op.place
  /\ files' = [files EXCEPT ![Op.place] = Cut]
  /\ script' = [script EXCEPT !.tmp = TRUE]

CopyData ==
  /\ InPlace /\ Working(Op.kind)
  /\ script.tmp
  /\ files' = [files EXCEPT ![Op.place] =
                 IF Op.kind = "copy" THEN files[Twin(Op.place)] ELSE script.version]
  /\ script' = Done(script)

CopyFails ==
  /\ InPlace /\ Working(Op.kind)
  /\ script' = Failed(script)
  /\ UNCHANGED files

End ==
  /\ Running
  /\ script.at > Len(script.ops)
  /\ script' = [script EXCEPT !.exit = "ok"]
  /\ UNCHANGED <<files, held, before, runs>>

Works == \/ Link \/ RefuseLong \/ WriteTmp \/ Replace \/ AttemptFails \/ Unlink
         \/ CopyOpen \/ CopyData \/ CopyFails \/ End
Next == Generate \/ Build \/ Restore \/ Kill \/ Hold \/ Works

\* A script that runs goes on; its writes may fail, and the tool may hold a file,
\* for as long as they like.
Spec == Init /\ [][Next]_vars /\ WF_vars(Works)

-----------------------------------------------------------------------------
(* Properties. *)

\* What operation i has been asked for.
Goal(i) ==
  LET op == script.ops[i]
  IN  CASE op.kind \in {"write", "text"} -> script.version
        [] op.kind = "unlink" -> Absent
        [] op.kind = "copy" -> files[Twin(op.place)]

\* However a script ends, killed between or within two writes included, the files
\* of the operations done are the new ones, those of the operations to come are
\* the old ones, and the file between them is either, but never cut off by the
\* generator; files no operation names stay.  Exit status 0 means that all have
\* been done: banks and ROMs of one firmware, no program store of another, and a
\* baseline that is a copy.
DoneInOrder ==
  /\ \A i \in DOMAIN script.ops : script.ops[i].place \in Places =>
       LET op == script.ops[i]
           now == files[op.place]
       IN  /\ i < script.at => now = Goal(i)
           /\ i > script.at => now = before[op.place]
           /\ i = script.at => \/ now = before[op.place]
                               \/ now = Cut /\ op.kind \in {"copy", "text"}
  /\ \A p \in Places : files[p] # before[p] =>
       \E i \in DOMAIN script.ops : script.ops[i].place = p
  /\ script.exit = "ok" => script.at > Len(script.ops)

\* Every script ends, whatever the tool holds open: the attempts are counted.
ScriptEnds == Running ~> ~Running
=============================================================================
