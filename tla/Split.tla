------------------------------- MODULE Split --------------------------------
(***************************************************************************)
(* How the work and the data of a compute task are divided:                *)
(* naive_split_transformer cuts the index space into chunks and assigns    *)
(* them to nodes (src/transformers/naive_split.cc), and a range mapper     *)
(* says which part of a buffer a chunk needs (include/range_mapper.h).  A  *)
(* point or an extent is a sequence with one number for each dimension;    *)
(* numbers are size_t, modulo SIZE_MAX + 1.                                *)
(***************************************************************************)
EXTENDS Integers, Sequences

CONSTANT SIZE_MAX  \* std::numeric_limits<size_t>::max()

Plus(a, b) == (a + b) % (SIZE_MAX + 1)
Minus(a, b) == (a - b) % (SIZE_MAX + 1)

\* subrange_to_grid_region: the points of a box.
Cells(sr) ==
    LET Dim == DOMAIN sr.offset
        Along(d) == {x \in sr.offset[d] .. SIZE_MAX : x < Plus(sr.offset[d], sr.range[d])}
    IN  {p \in [Dim -> UNION {Along(d) : d \in Dim}] : \A d \in Dim : p[d] \in Along(d)}

-----------------------------------------------------------------------------
\* Mutant: the remainder is dropped.
RemainderDropped(size, n, i) == 0

\* The last chunk also gets what is left over.
Remainder(size, n, i) == IF i = n - 1 THEN size % n ELSE 0

\* split_equal: in one dimension, by rows, or by planes; chunk i from 0.
split_equal(offset, size, n, i) ==
    [offset |-> [offset EXCEPT ![1] = Plus(@, i * (size[1] \div n))],
     range  |-> [size EXCEPT ![1] = @ \div n + Remainder(@, n, i)]]

\* naive_split_transformer::transform_task: one command for each of n chunks.
transform_task(offset, size, n, num_workers) ==
    LET chunks_per_node == n \div num_workers
    IN  [k \in 1 .. n |-> [nid |-> ((k - 1) \div chunks_per_node) % num_workers,
                           sr |-> split_equal(offset, size, n, k - 1)]]

-----------------------------------------------------------------------------
\* clamp_subrange_to_buffer_size, in one dimension.
Clamped(offset, range, size) ==
    IF Plus(offset, range) > size
    THEN IF offset <= size THEN size - offset ELSE 0
    ELSE range

clamp_subrange_to_buffer_size(sr, size) ==
    [sr EXCEPT !.range = [d \in DOMAIN size |-> Clamped(sr.offset[d], sr.range[d], size[d])]]

\* Mutant: the border is added at one end only.
NeighborhoodOneSided(c, border) ==
    LET delta == [d \in DOMAIN border |-> IF border[d] < c.offset[d] THEN border[d] ELSE c.offset[d]]
    IN  [offset |-> [d \in DOMAIN border |-> c.offset[d] - delta[d]],
         range  |-> [d \in DOMAIN border |-> Plus(c.range[d], border[d])]]

neighborhood(c, border) ==
    LET delta == [d \in DOMAIN border |-> IF border[d] < c.offset[d] THEN border[d] ELSE c.offset[d]]
    IN  [offset |-> [d \in DOMAIN border |-> c.offset[d] - delta[d]],
         range  |-> [d \in DOMAIN border |-> Plus(c.range[d], Plus(border[d], delta[d]))]]

\* The other built-in range mappers; dims is the dimensionality of the buffer.
slice(c, d) == [offset |-> [c.offset EXCEPT ![d] = 0], range |-> [c.range EXCEPT ![d] = SIZE_MAX]]
all(dims) == [offset |-> [d \in 1 .. dims |-> 0], range |-> [d \in 1 .. dims |-> SIZE_MAX]]

\* The user's functor m, applied to a chunk.
rmfn(m, c) ==
    CASE m.kind = "one_to_one" -> c
      [] m.kind = "fixed" -> m.sr
      [] m.kind = "slice" -> slice(c, m.dim)
      [] m.kind = "all" -> all(m.dims)
      [] m.kind = "neighborhood" -> neighborhood(c, m.border)

\* range_mapper: the functor with the size of the buffer.
range_mapper(m, c, size) == clamp_subrange_to_buffer_size(rmfn(m, c), size)
=============================================================================
