---------------------------- MODULE MCLoadStore -----------------------------
(* A machine of two-lane words: addresses 0 .. 3, of which 0 and 2 are the   *)
(* aligned words of memory.                                                  *)
EXTENDS LoadStore, TLC

Number(w) == w[0] + 2 * w[1]
Numeral(n) == [k \in {0, 1} |-> (n \div (2 ^ k)) % 2]

MCPlus(a, b) == Numeral((Number(a) + Number(b)) % 4)
MCRam == {Numeral(0), Numeral(2)}
MCOne == Numeral(1)
MCImms == {Numeral(1), Numeral(2)}

\* No lane, one, both, and the bit that selects none but makes the access.
MCMasks == {{}, {0}, {0, 1}, {FifthBit}}

MCSymmetry == Permutations(Reg \ {R0})
=============================================================================
