---------------------------- MODULE MCFunctionTop ----------------------------
(* Instances of FunctionTop for TLC.                                       *)
EXTENDS FunctionTop

None == [k \in {} |-> 0]

\* A function not called yet, one with two methods of which one was never
\* called, and an endpoint that lists calls of a method without its duration.
ScrapesDef ==
    {[dur |-> None, calls |-> None, fails |-> None],
     [dur |-> [get |-> 6, post |-> 0], calls |-> [get |-> 2, post |-> 0], fails |-> [get |-> 1]],
     [dur |-> None, calls |-> [get |-> 1], fails |-> None]}

=============================================================================
