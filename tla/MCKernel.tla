------------------------------ MODULE MCKernel ------------------------------
(***************************************************************************)
(* TLC instances of Kernel, with a size_t of four bits.                    *)
(***************************************************************************)
EXTENDS Kernel

\* A single task that reads a buffer through one accessor, and clears another.
Probes(offsets, sizes, chunks, mappers, buffers) ==
    {[nodes |-> n, chunks |-> c,
      buffers |-> [bid \in {"in", "out"} |->
                     NewBuffer(IF bid = "in" THEN b ELSE [d \in DOMAIN s |-> o[d] + s[d]], "none")],
      tasks |-> <<[Compute(s, "zero", {Access("in", "read", m), Access("out", "discard_write", one_to_one)},
                           "out", <<>>) EXCEPT !.offset = o]>>] :
        n \in 1 .. Max(chunks), c \in chunks, o \in offsets, s \in sizes, m \in mappers, b \in buffers}

Slice(d) == [kind |-> "slice", dim |-> d]
All(dims) == [kind |-> "all", dims |-> dims]
Fixed(offset, range) == [kind |-> "fixed", sr |-> [offset |-> offset, range |-> range]]
Neighborhood(border) == [kind |-> "neighborhood", border |-> border]

\* One to three dimensions, fewer and more rows than chunks, buffers smaller and
\* larger than the index space.
Small ==
    Probes({<<0>>, <<2>>}, {<<1>>, <<3>>, <<5>>, <<6>>}, 1 .. 4,
           {one_to_one, All(1), Slice(1), Fixed(<<2>>, <<3>>), Neighborhood(<<1>>), Neighborhood(<<3>>)},
           {<<1>>, <<4>>, <<9>>})
    \cup Probes({<<0, 0>>, <<1, 2>>}, {<<1, 2>>, <<3, 1>>}, {1, 2, 3},
           {one_to_one, All(2), Slice(1), Slice(2), Neighborhood(<<1, 0>>), Neighborhood(<<1, 2>>)},
           {<<3, 3>>})
    \cup Probes({<<0, 0, 1>>}, {<<3, 1, 2>>}, {1, 2},
           {one_to_one, Slice(3), Neighborhood(<<1, 1, 0>>)}, {<<2, 2, 3>>})

\* The examples on one to three nodes, with images smaller and larger than the filter.
MCProgram ==
    {p \in Small : p.nodes <= p.chunks}
    \cup {wave_sim(n, N, 2, dt, rate) : n \in 1 .. 3, N \in {1, 3}, dt \in {1, 2}, rate \in 0 .. 2}
    \cup {matmul(n, size) : n \in 1 .. 3, size \in {1, 2, 3}}
    \cup {convolution(n, h, w, fs) : n \in 1 .. 2, h \in {1, 4, 6}, w \in {2, 5}, fs \in {2, 4}}
    \cup {syncing(n, N) : n \in 1 .. 3, N \in {2, 4}}
=============================================================================
