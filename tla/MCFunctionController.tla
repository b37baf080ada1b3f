------------------------ MODULE MCFunctionController ------------------------
(* Finite instances of FunctionController for TLC.                         *)
EXTENDS FunctionController
=============================================================================
