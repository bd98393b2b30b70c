------------------------------ MODULE Examples ------------------------------
(***************************************************************************)
(* The example programs: wave_sim, matmul, convolution and syncing (under  *)
(* examples/).  A program is the buffers and the command groups that its   *)
(* main() makes; a kernel is the cells a work item reads and the value it  *)
(* computes from them.  Floating-point numbers are modelled by the field   *)
(* of integers modulo PRIME, in which sums do not depend on their order.   *)
(***************************************************************************)
EXTENDS Split, SequencesExt

PRIME == 7
Undefined == 5
NoSubrange == [offset |-> <<>>, range |-> <<>>]

one_to_one == [kind |-> "one_to_one"]
Whole(size) == [offset |-> [d \in DOMAIN size |-> 0], range |-> size]

Access(bid, mode, m) == [kind |-> "device", bid |-> bid, mode |-> mode, mapper |-> m]

\* distr_queue::submit: the kernel writes one cell of buffer out for each work item.
Compute(size, kernel, accesses, out, args) ==
    [type |-> "compute", offset |-> [d \in DOMAIN size |-> 0], size |-> size, kernel |-> kernel,
     accesses |-> accesses, out |-> out, args |-> args]

HostAccess(bid, mode, sr) == [kind |-> "host", bid |-> bid, mode |-> mode, sr |-> sr]

\* distr_queue::with_master_access, to read all of a buffer.
MasterAccess(bid, size) ==
    [type |-> "master_access", accesses |-> {HostAccess(bid, "read", Whole(size))}]

NewBuffer(size, init) == [size |-> size, init |-> init]

\* What a buffer holds at first on node n.  Without host data ("none") it is memory
\* that nobody has written, and different on every node.
Initial(b, p, n) ==
    CASE b.init = "none" -> (Undefined + n) % PRIME
      [] b.init = "identity" -> IF p[1] = p[2] THEN 1 ELSE 0
      [] b.init = "image" -> (1 + p[1] + 3 * p[2]) % PRIME
      [] b.init = "gauss" -> (1 + (p[1] - 2) * (p[1] - 2) + (p[2] - 2) * (p[2] - 2)) % PRIME

-----------------------------------------------------------------------------
\* examples/wave_sim

setup_wave(u, N) ==
    Compute(<<N, N>>, "setup_wave", {Access(u, "discard_write", one_to_one)}, u, [center |-> N \div 4])

zero(buf, N) == Compute(<<N, N>>, "zero", {Access(buf, "discard_write", one_to_one)}, buf, <<>>)

\* step with its configuration: in the field, 1/2 is 4.
step(up, u, N, config) ==
    Compute(<<N, N>>, "step",
            {Access(up, "read_write", one_to_one),
             Access(u, "read", [kind |-> "neighborhood", border |-> <<1, 1>>])},
            up, [up |-> up, u |-> u, config |-> config])

init_config == [a |-> 4, b |-> 0, c |-> 4]
update_config == [a |-> 1, b |-> 1, c |-> 1]

store_frame(up, N) == MasterAccess(up, <<N, N>>)

\* The four neighbours of a cell, those beyond the edge replaced by the cell.
StepNeighbours(size, item) ==
    LET py == IF item[1] < Minus(size[1], 1) THEN item[1] + 1 ELSE item[1]
        my == IF item[1] > 0 THEN item[1] - 1 ELSE item[1]
        px == IF item[2] < Minus(size[2], 1) THEN item[2] + 1 ELSE item[2]
        mx == IF item[2] > 0 THEN item[2] - 1 ELSE item[2]
    IN  <<<<py, item[2]>>, <<my, item[2]>>, <<item[1], px>>, <<item[1], mx>>>>

\* main: sample_rate 0 means no output; T and dt in the same unit of time.
wave_sim(nodes, N, T, dt, sample_rate) ==
    LET next(i) == IF i % 2 = 0 THEN "up" ELSE "u"
        current(i) == IF i % 2 = 0 THEN "u" ELSE "up"
        iteration(i) ==
            <<step(next(i), current(i), N, update_config)>>
            \o IF sample_rate # 0 /\ (i + 1) % sample_rate = 0 THEN <<store_frame(next(i), N)>> ELSE <<>>
        num_iterations == (T + dt - 1) \div dt
    IN  [nodes |-> nodes, chunks |-> nodes,
         buffers |-> [b \in {"up", "u"} |-> NewBuffer(<<N, N>>, "none")],
         tasks |-> <<setup_wave("u", N), zero("up", N), step("up", "u", N, init_config)>>
                   \o (IF sample_rate > 0 THEN <<store_frame("u", N)>> ELSE <<>>)
                   \o FlattenSeq([k \in 1 .. num_iterations |-> iteration(k - 1)])]

-----------------------------------------------------------------------------
\* examples/matmul

multiply(a, b, c, size) ==
    Compute(<<size, size>>, "mat_mul",
            {Access(a, "read", [kind |-> "slice", dim |-> 2]),
             Access(b, "read", [kind |-> "slice", dim |-> 1]),
             Access(c, "discard_write", one_to_one)},
            c, [a |-> a, b |-> b])

matmul(nodes, size) ==
    [nodes |-> nodes, chunks |-> nodes,
     buffers |-> [m \in {"a", "b", "c"} |->
                    NewBuffer(<<size, size>>, IF m = "c" THEN "none" ELSE "identity")],
     tasks |-> <<multiply("a", "b", "c", size), multiply("b", "c", "a", size),
                 MasterAccess("a", <<size, size>>)>>]

-----------------------------------------------------------------------------
\* examples/convolution

\* Mutant: the last row and column of the boundary are forgotten.
BoundaryNarrow(range, filter_size, id) ==
    \E d \in {1, 2} : \/ id[d] < filter_size \div 2
                      \/ id[d] > Minus(range[d], filter_size \div 2)

is_on_boundary(range, filter_size, id) ==
    \E d \in {1, 2} : \/ id[d] < filter_size \div 2
                      \/ id[d] > Minus(Minus(range[d], filter_size \div 2), 1)

\* The cells around an item that the filter covers.
Window(item, fs) ==
    {<<Plus(item[1], y), Plus(item[2], x)>> :
        y \in -(fs \div 2) .. (fs \div 2) - 1, x \in -(fs \div 2) .. (fs \div 2) - 1}

Cross(item) ==
    {<<Minus(item[1], 1), item[2]>>, <<Plus(item[1], 1), item[2]>>,
     <<item[1], Minus(item[2], 1)>>, <<item[1], Plus(item[2], 1)>>}

convolution(nodes, height, width, fs) ==
    LET image == <<height, width>>
        blur == Compute(image, "gaussian_blur",
                   {Access("input", "read",
                           [kind |-> "neighborhood", border |-> <<fs \div 2, fs \div 2>>]),
                    Access("gauss", "read", [kind |-> "all", dims |-> 2]),
                    Access("tmp", "discard_write", one_to_one)}, "tmp", [fs |-> fs])
        sharpen == Compute(image, "sharpen",
                   {Access("tmp", "read", [kind |-> "neighborhood", border |-> <<1, 1>>]),
                    Access("output", "discard_write", one_to_one)}, "output", [fs |-> fs])
    IN  [nodes |-> nodes, chunks |-> nodes,
         buffers |-> [b \in {"input", "tmp", "gauss", "output"} |->
             CASE b = "input" -> NewBuffer(image, "image")
               [] b = "gauss" -> NewBuffer(<<fs, fs>>, "gauss")
               [] OTHER -> NewBuffer(image, "none")],
         tasks |-> <<blur, sharpen, MasterAccess("output", image)>>]

-----------------------------------------------------------------------------
\* examples/syncing

syncing(nodes, N) ==
    [nodes |-> nodes, chunks |-> nodes,
     buffers |-> [b \in {"buff"} |-> NewBuffer(<<N>>, "none")],
     tasks |-> <<Compute(<<N>>, "linear_id", {Access("buff", "discard_write", one_to_one)}, "buff", <<>>),
                 MasterAccess("buff", <<N>>)>>]

-----------------------------------------------------------------------------
\* The cells that the kernel of task t reads for a work item: pairs of buffer and cell.
Reads(t, item) ==
    CASE t.kernel = "step" ->
             {<<t.args.u, q>> : q \in {item} \cup Range(StepNeighbours(t.size, item))}
             \cup {<<t.args.up, item>>}
      [] t.kernel = "mat_mul" ->
             {<<t.args.a, <<item[1], k>>>> : k \in 0 .. t.size[1] - 1}
             \cup {<<t.args.b, <<k, item[2]>>>> : k \in 0 .. t.size[1] - 1}
      [] t.kernel = "gaussian_blur" ->
             IF is_on_boundary(t.size, t.args.fs, item) THEN {}
             ELSE {<<"input", q>> : q \in Window(item, t.args.fs)}
                  \cup {<<"gauss", <<y, x>>>> : y, x \in 0 .. t.args.fs - 1}
      [] t.kernel = "sharpen" ->
             IF is_on_boundary(t.size, t.args.fs, item) THEN {}
             ELSE {<<"tmp", q>> : q \in {item} \cup Cross(item)}
      [] OTHER -> {}

\* What it computes, where v gives the value of each cell it reads.
Value(t, item, v) ==
    LET sum(S, f(_)) == MapThenSumSet(f, S)
        value ==
          CASE t.kernel = "zero" -> 0
            [] t.kernel = "setup_wave" ->
                 LET dx == item[2] - t.args.center
                     dy == item[1] - t.args.center
                 IN  1 + dx * dx + 2 * dy * dy
            [] t.kernel = "step" ->
                 LET u(q) == v[<<t.args.u, q>>]
                     q == StepNeighbours(t.size, item)
                     lap == 2 * ((u(q[1]) - u(item)) - (u(item) - u(q[2])))
                            + 3 * ((u(q[3]) - u(item)) - (u(item) - u(q[4])))
                     config == t.args.config
                 IN  config.a * 2 * u(item) - config.b * v[<<t.args.up, item>>] + config.c * lap
            [] t.kernel = "mat_mul" ->
                 sum(0 .. t.size[1] - 1,
                     LAMBDA k : v[<<t.args.a, <<item[1], k>>>>] * v[<<t.args.b, <<k, item[2]>>>>])
            [] t.kernel = "gaussian_blur" ->
                 IF is_on_boundary(t.size, t.args.fs, item) THEN 0
                 ELSE LET half == t.args.fs \div 2
                      IN  sum(Window(item, t.args.fs),
                              LAMBDA q : v[<<"gauss", <<half + q[1] - item[1], half + q[2] - item[2]>>>>]
                                         * v[<<"input", q>>])
            [] t.kernel = "sharpen" ->
                 IF is_on_boundary(t.size, t.args.fs, item) THEN 0
                 ELSE 5 * v[<<"tmp", item>>] - sum(Cross(item), LAMBDA q : v[<<"tmp", q>>])
            [] t.kernel = "linear_id" -> item[1]
    IN  value % PRIME
=============================================================================
