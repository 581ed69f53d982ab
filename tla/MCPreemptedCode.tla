-------------------------- MODULE MCPreemptedCode ---------------------------
(* One-lane words 0 .. 7 and one-byte words of memory: the counter at 0, the *)
(* stack in 2 .. 5, room for two words of each program.                      *)
EXTENDS PreemptedCode, Naturals

W(n) == [k \in {0} |-> n]

MCPlus(a, b) == W((a[0] + b[0]) % 8)
MCRam == {W(n) : n \in {0, 2, 3, 4, 5}}
MCOne == W(1)
MCMinusFour == W(7)
MCCounter == W(0)
MCTop == W(6)
MCMaxCount == W(2)
MCDepth(sp) == 6 - sp[0]
MCSlot(i) == W(6 - i)
=============================================================================
