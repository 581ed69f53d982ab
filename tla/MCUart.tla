------------------------------- MODULE MCUart -------------------------------
(* A small UART; the byte values are interchangeable. *)
EXTENDS Uart, TLC

MCSymmetry == Permutations(Byte)
=============================================================================
