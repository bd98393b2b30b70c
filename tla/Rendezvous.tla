----------------------------- MODULE Rendezvous -----------------------------
(***************************************************************************)
(* What the buffer_transfer_managers of all nodes promise together: the    *)
(* data of a transfer is written to the target buffer exactly once, after  *)
(* the source has pushed it and the target has asked for it, in whichever  *)
(* order the two happened, and it always gets there in the end.            *)
(***************************************************************************)
EXTENDS Naturals

CONSTANT Transfer

VARIABLES pushed, awaited, writes

vars == <<pushed, awaited, writes>>

Init ==
    /\ pushed = {}
    /\ awaited = {}
    /\ writes = [t \in Transfer |-> 0]

Push(P) ==
    /\ P \subseteq Transfer \ pushed
    /\ pushed' = pushed \cup P
    /\ UNCHANGED <<awaited, writes>>

\* The data of D is written; the request for it may come in the same step.
AwaitAndDeliver(A, D) ==
    /\ A \subseteq Transfer \ awaited
    /\ awaited' = awaited \cup A
    /\ D \subseteq {t \in pushed \cap awaited' : writes[t] = 0}
    /\ writes' = [t \in Transfer |-> IF t \in D THEN writes[t] + 1 ELSE writes[t]]
    /\ UNCHANGED pushed

Next ==
    \/ \E P \in SUBSET Transfer : Push(P)
    \/ \E A, D \in SUBSET Transfer : AwaitAndDeliver(A, D)

\* A step that delivers t, both sides being ready.
Deliver(t) ==
    /\ t \in pushed \cap awaited
    /\ \E A, D \in SUBSET Transfer : t \in D /\ AwaitAndDeliver(A, D)

Spec == Init /\ [][Next]_vars

FairSpec == Spec /\ \A t \in Transfer : WF_vars(Deliver(t))
=============================================================================
