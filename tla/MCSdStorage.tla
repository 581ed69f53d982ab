---------------------------- MODULE MCSdStorage -----------------------------
(* Two files that may change places, cards of two sectors, sector contents   *)
(* 0 and 1.                                                                  *)
EXTENDS SdStorage, TLC

CONSTANTS p, q
MCPaths == {p, q}
MCSymmetry == Permutations(MCPaths)
MCData == {0, 1}

\* An image shorter than the card or longer, or no image yet; a creation that
\* fails leaves files of other kinds.
MCSmallDisks ==
  [MCPaths -> {Absent} \union {Image([s \in 0 .. n |-> 1]) : n \in {0, 2}}]
=============================================================================
