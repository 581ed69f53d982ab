------------------------------- MODULE MCAlu --------------------------------
(* Words of two bits, two registers beside R0, chains of two words. *)
EXTENDS Alu

MCRegisters == {0, 1, 2}
MCImmediates == Words
=============================================================================
