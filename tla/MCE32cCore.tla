----------------------------- MODULE MCE32cCore -----------------------------
(* Small instances of E32cCore. *)
EXTENDS E32cCore, Bitwise

MCOrHigh(a, b) == a | b

\* Programs, and clients, that mask the timer and redirect the return.  The
\* handler is at 0, the address VECTOR is reset to, and the program at LoadAddr.
MCSprWrites == {<<SAVED, 0>>, <<MASK, 0>>, <<MASK, 1>>, <<INFO, 1>>}
=============================================================================
