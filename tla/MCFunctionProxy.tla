--------------------------- MODULE MCFunctionProxy ---------------------------
(* Finite instances of FunctionProxy for TLC.                              *)
EXTENDS FunctionProxy
=============================================================================
