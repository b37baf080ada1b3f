-------------------------- MODULE FunctionLifecycle --------------------------
(***************************************************************************)
(* What the controller promises about one function at a time, with no      *)
(* cache, queue, worker or failure in sight: objects are made only for a   *)
(* protected function, and a protected function leaves the cluster only    *)
(* after everything made for it has left.                                  *)
(***************************************************************************)
CONSTANTS Names, Kinds

VARIABLES
    phase,  \* where each function is in its life
    owned   \* the kinds of objects that exist on its behalf

lifecycleVars == <<phase, owned>>

\* fresh: stored, without finalizer.  protected: with it.
\* terminating: marked for deletion, still with the finalizer.
Phases == {"absent", "fresh", "protected", "terminating"}

LifecycleTypeOK ==
    /\ phase \in [Names -> Phases]
    /\ owned \in [Names -> SUBSET Kinds]

Init ==
    /\ phase = [n \in Names |-> "absent"]
    /\ owned = [n \in Names |-> {}]

Move(n, from, to) ==
    /\ phase[n] = from
    /\ phase' = [phase EXCEPT ![n] = to]
    /\ UNCHANGED owned

Create(n) == Move(n, "absent", "fresh")

Withdraw(n) == Move(n, "fresh", "absent")

Protect(n) == Move(n, "fresh", "protected")

MarkDeleted(n) == Move(n, "protected", "terminating")

Finish(n) == owned[n] = {} /\ Move(n, "terminating", "absent")

\* A worker that read the function before it was marked may still make
\* objects for it afterwards.
Provision(n, k) ==
    /\ phase[n] \in {"protected", "terminating"}
    /\ owned' = [owned EXCEPT ![n] = @ \cup {k}]
    /\ UNCHANGED phase

\* The workload goes only with its function; an autoscaler and its monitor
\* also when the function no longer asks for them.
Release(n, k) ==
    /\ \/ phase[n] = "terminating"
       \/ phase[n] = "protected" /\ k \in {"autoscaler", "monitor"}
    /\ owned' = [owned EXCEPT ![n] = @ \ {k}]
    /\ UNCHANGED phase

Next ==
    \E n \in Names :
        \/ Create(n)
        \/ Withdraw(n)
        \/ Protect(n)
        \/ MarkDeleted(n)
        \/ Finish(n)
        \/ \E k \in Kinds : Provision(n, k) \/ Release(n, k)

Spec == Init /\ [][Next]_lifecycleVars
=============================================================================
