-------------------------- MODULE MCGraphGenerator --------------------------
(* TLC instances of GraphGenerator.  Kernels have one work item per node, so  *)
(* the chunk of node n is the item n + 1; the range mappers are the built-in  *)
(* ones.                                                                      *)
EXTENDS GraphGenerator

one_to_one(bid, n) == {<<bid, n + 1>>} \cap AllCells
all(bid, n) == CellsOf(bid)
fixed(bid, n) == {<<bid, 1>>}
up_to(bid, n) == {<<bid, i>> : i \in n .. n + 1} \cap AllCells
neighborhood(bid, n) == {<<bid, i>> : i \in n .. n + 2} \cap AllCells

\* A kernel with two accessors (give the same one twice for a single accessor).
Kernel(m1, b1, map1(_, _), m2, b2, map2(_, _)) ==
    [kind |-> "COMPUTE",
     accesses |-> [n \in Node |-> [m \in ToSet(all_modes) |->
        (IF m = m1 THEN map1(b1, n) ELSE {}) \cup (IF m = m2 THEN map2(b2, n) ELSE {})]]]

OnMaster(mode, cells) ==
    [kind |-> "MASTER_ACCESS",
     accesses |-> [n \in Node |-> [m \in ToSet(all_modes) |->
        IF n = 0 /\ m = mode THEN cells ELSE {}]]]

Produce_a == Kernel("discard_write", "a", one_to_one, "discard_write", "a", one_to_one)
Update_a == Kernel("read_write", "a", one_to_one, "read_write", "a", one_to_one)
Stencil_a == Kernel("read", "a", neighborhood, "read_write", "a", one_to_one)
Shift_a == Kernel("read", "a", up_to, "read_write", "a", one_to_one)
Gather_b == Kernel("read", "a", all, "discard_write", "b", one_to_one)
Scatter_a == Kernel("read", "b", fixed, "write", "a", one_to_one)
Read_a == Kernel("read", "a", one_to_one, "read", "b", fixed)
Read_b == Kernel("read", "b", fixed, "read", "b", fixed)
Produce_b == Kernel("discard_write", "b", one_to_one, "discard_write", "b", one_to_one)
\* A read-write access given as a separate write and read.
Implicit_rw_a == Kernel("discard_write", "a", one_to_one, "read", "a", one_to_one)
ReadAll_a == Kernel("read", "a", all, "read", "a", all)

MCNode == {0, 1}
MCBufferSize == [a |-> 2, b |-> 1]
MCKernels == {Produce_a, Update_a, Stencil_a, Gather_b, Scatter_a, Read_a}
MCMaster == {OnMaster("read", CellsOf("a")), OnMaster("discard_write", CellsOf("a")),
             OnMaster("read_write", {<<"a", 2>>}), OnMaster("discard_write", CellsOf("b"))}
MCCommandGroup == MCKernels \cup MCMaster

\* Programs of the runs that show a disagreement.
OverwriteGroups == {Update_a, Read_a, Produce_b}
ImplicitGroups == {OnMaster("discard_write", CellsOf("a")), Implicit_rw_a, ReadAll_a}
MixedGroups == {Stencil_a, OnMaster("read_write", CellsOf("b"))}
=============================================================================
