------------------------------ MODULE CellMap -------------------------------
(***************************************************************************)
(* What region_maps promise: each is a function from the cells of its      *)
(* extent to values, with the set of cells that were ever updated.         *)
(***************************************************************************)
CONSTANTS Map, Extent, Value, Functor

VARIABLES contents, updated

vars == <<contents, updated>>

Init ==
    /\ contents \in [Map -> {[x \in Extent |-> v] : v \in Value}]
    /\ updated = [m \in Map |-> {}]

Update(m, region, v) ==
    /\ contents' = [contents EXCEPT ![m] = [x \in Extent |-> IF x \in region THEN v ELSE @[x]]]
    /\ updated' = [updated EXCEPT ![m] = @ \cup region]

Apply(m, f) ==
    /\ contents' = [contents EXCEPT ![m] = [x \in Extent |-> f[@[x]]]]
    /\ UNCHANGED updated

\* The updated cells of o take precedence over those of m.
Merge(m, o) ==
    /\ contents' = [contents EXCEPT ![m] =
          [x \in Extent |-> IF x \in updated[o] THEN contents[o][x] ELSE @[x]]]
    /\ updated' = [updated EXCEPT ![m] = @ \cup updated[o]]

Next ==
    \/ \E m \in Map, region \in SUBSET Extent, v \in Value : Update(m, region, v)
    \/ \E m \in Map, f \in Functor : Apply(m, f)
    \/ \E m, o \in Map : Merge(m, o)

Spec == Init /\ [][Next]_vars
=============================================================================
