------------------------- MODULE MCBranchRelaxation -------------------------
(* Small programs: two labels, or one twice, among three or four other     *)
(* lines, and programs that four passes do not settle.                     *)
EXTENDS BranchRelaxation

MCImmMin == -12

MCInsn == [kind |-> "insn"]
MCLabel(l) == [kind |-> "label", name |-> l]
MCBranch(k, l) == [kind |-> k, target |-> l]

\* A body with a label before its line i and another before its line j >= i.
MCLabelled(body, i, j, first, second) ==
  SubSeq(body, 1, i - 1) \o <<MCLabel(first)>> \o SubSeq(body, i, j - 1)
    \o <<MCLabel(second)>> \o SubSeq(body, j, Len(body))

MCProgramsOf(n, lines, names) ==
  {MCLabelled(body, Min(ij), Max(ij), l[1], l[2]) :
     body \in [1 .. n -> lines], l \in names,
     ij \in kSubset(1, 1 .. n + 1) \union kSubset(2, 1 .. n + 1)}

\* Branches that push each other beyond their reach.
MCTight == {MCInsn, MCBranch("jump", "x"), MCBranch("jump", "y"),
            MCBranch("cond", "x")}

\* All kinds of lines; z is a label that no program defines.
MCVaried == {MCBranch("direct", "x"), MCBranch("cond", "y"),
             MCBranch("jump", "x"), MCBranch("jump", "z"),
             [kind |-> "skip", n |-> 6], [kind |-> "align", n |-> 8],
             [kind |-> "org", n |-> 8]}

\* Branches that move each other's labels for ever, and some that move the label of
\* a branch behind it in the last pass.
MCUnsettled ==
  {<<MCBranch(k[1], "x"), MCBranch(k[2], "x"), MCLabel("y"), MCBranch(k[3], "x"),
     MCBranch("jump", "x"), MCBranch("jump", "y"), MCLabel("x")>> :
     k \in [1 .. 3 -> {"jump", "cond"}]} \union
  {<<MCBranch(k[1], "x"), MCLabel("y"), MCBranch(k[2], "z"),
     [kind |-> "skip", n |-> m], MCLabel("z"), MCBranch(k[3], "y"), MCLabel("x")>> :
     k \in [1 .. 3 -> {"jump", "cond"}], m \in {8, 10, 12}}

MCPrograms ==
  MCProgramsOf(4, MCTight, {<<"x", "y">>, <<"y", "x">>})
    \union MCProgramsOf(3, MCVaried, {<<"x", "y">>, <<"y", "x">>, <<"x", "x">>})
    \union MCUnsettled
=============================================================================
