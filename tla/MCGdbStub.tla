----------------------------- MODULE MCGdbStub ------------------------------
(* Two words of two bytes, and the ranges that are aligned, start or end in  *)
(* the middle of a word, span two words or run off the end of the RAM.       *)
EXTENDS GdbStub

MCRanges == {<<0, 2>>, <<1, 2>>, <<3, 3>>}
MCWrites == {<<0, <<0, 1>>>>, <<0, <<1, 0, 1, 0>>>>, <<1, <<0, 1>>>>, <<2, <<1>>>>,
             <<2, <<0, 1, 1, 0>>>>, <<3, <<1, 0>>>>}
=============================================================================
