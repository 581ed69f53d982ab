--------------------------- MODULE MCDebuggerGui ----------------------------
(* Small instances of DebuggerGui; the cfg gives the constants. *)
EXTENDS DebuggerGui
=============================================================================
