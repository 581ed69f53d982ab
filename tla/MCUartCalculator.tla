-------------------------- MODULE MCUartCalculator --------------------------
(* Base 3 in words of six bits stands for base 10 in words of 32: the largest  *)
(* place is below the sign bit and twice as large above it, and the next power *)
(* is no word.                                                                 *)
EXTENDS UartCalculator

D0 == "0"
MCDigitOf == [d \in {"0", "1", "2"} |-> CASE d = D0 -> 0 [] d = "1" -> 1 [] d = "2" -> 2]
=============================================================================
