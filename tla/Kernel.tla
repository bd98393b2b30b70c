------------------------------- MODULE Kernel -------------------------------
(***************************************************************************)
(* What becomes of the command groups of a program on several nodes, as    *)
(* far as the data goes: the pre-pass of a command group records what its  *)
(* accessors need, the task is split into commands, missing data is        *)
(* copied out of one node's buffer and into another's, and the live-pass   *)
(* runs the kernel over the chunk of each command (include/handler.h,      *)
(* include/buffer.h, include/buffer_storage.h, include/device_queue.h).    *)
(* The commands of a task run in any order; how commands of different      *)
(* tasks overlap is the subject of Executor.  The kernels are those of     *)
(* the example programs.                                                   *)
(***************************************************************************)
EXTENDS Examples

CONSTANT Program   \* [nodes, chunks, buffers, tasks]

\* The constructor of naive_split_transformer asserts that no worker goes without.
ASSUME ProgramAssumption == \A p \in Program : p.nodes \in 1 .. p.chunks

VARIABLES
    program,
    created,       \* tasks created so far
    commands,      \* of the last of them: [nid, sr]
    executed,      \* which of these have been executed
    transfers,     \* its pushes that have not been received: [bid, source, target, sr]
    store,         \* store[n][bid]: the contents of the SYCL buffer
    buffer_states, \* buffer_states[bid][p]: the nodes with the current value, producer first
    host           \* what the host functors have read, in turn

vars == <<program, created, commands, executed, transfers, store, buffer_states, host>>

Node == 0 .. program.nodes - 1
Buffer == DOMAIN program.buffers
Size(bid) == program.buffers[bid].size
Extent(bid) == Cells([offset |-> [d \in DOMAIN Size(bid) |-> 0], range |-> Size(bid)])
Current == program.tasks[created]
Master == 0

Consumer == {"atomic", "read", "read_write", "write"}
Producer == {"atomic", "discard_read_write", "discard_write", "read_write", "write"}

-----------------------------------------------------------------------------
\* get_requirements: what the pre-pass has recorded of access a, for a subrange.  A
\* host access names its subrange, and it is not clamped.
Required(a, sr) ==
    Cells(IF a.kind = "host" THEN a.sr ELSE range_mapper(a.mapper, sr, Size(a.bid)))

\* get_access in the live-pass calls the functor itself, with the command's chunk, and
\* clamps what it returns itself.
Live(a, sr) ==
    IF a.kind = "host"
    THEN a.sr
    ELSE clamp_subrange_to_buffer_size(rmfn(a.mapper, sr), Size(a.bid))

\* The boxes of a region (allscale's grid).
Boxes(cells) ==
    LET Dim == DOMAIN (CHOOSE p \in cells : TRUE)
        low == [d \in Dim |-> Min({p[d] : p \in cells})]
        sr == [offset |-> low, range |-> [d \in Dim |-> Max({p[d] : p \in cells}) - low[d] + 1]]
    IN  IF cells = {} THEN {}
        ELSE IF Cells(sr) = cells THEN {sr}
        ELSE {[offset |-> p, range |-> [d \in Dim |-> 1]] : p \in cells}

\* The cells of a buffer that the commands cs of task t access on node n in one of the modes.
Accessed(t, cs, bid, n, modes) ==
    UNION {Required(a, c.sr) : c \in {c \in cs : c.nid = n},
                               a \in {a \in t.accesses : a.bid = bid /\ a.mode \in modes}}

\* process_task_data_requirements, without the dependencies: pushes for what is
\* missing, from the producer; then the copies and the new producers are recorded.
GeneratePushes(t, cs) ==
    UNION {LET read == Accessed(t, cs, bid, n, Consumer)
               from(m) == {p \in read : /\ n \notin Range(buffer_states[bid][p])
                                        /\ buffer_states[bid][p][1] = m}
           IN  UNION {{[bid |-> bid, source |-> m, target |-> n, sr |-> sr] : sr \in Boxes(from(m))} :
                         m \in Node} :
             bid \in Buffer, n \in Node}

UpdateStates(t, cs) ==
    [bid \in Buffer |-> [p \in Extent(bid) |->
        LET writers == {n \in Node : p \in Accessed(t, cs, bid, n, Producer)}
            readers == {n \in Node \ Range(buffer_states[bid][p]) :
                          p \in Accessed(t, cs, bid, n, Consumer)}
        IN  IF writers # {} THEN <<Max(writers)>>
            ELSE buffer_states[bid][p] \o SetToSeq(readers)]]

\* distr_queue::submit and with_master_access, up to the commands.
create_task ==
    /\ executed = DOMAIN commands /\ created < Len(program.tasks)
    /\ created' = created + 1 /\ executed' = {}
    /\ LET t == program.tasks[created + 1]
           cs == IF t.type = "master_access"
                 THEN <<[nid |-> Master, sr |-> NoSubrange]>>
                 ELSE transform_task(t.offset, t.size, program.chunks, program.nodes)
       IN  /\ commands' = cs
           /\ transfers' = GeneratePushes(t, Range(cs))
           /\ buffer_states' = UpdateStates(t, Range(cs))
    /\ UNCHANGED <<program, store, host>>

-----------------------------------------------------------------------------
\* The place of point p in the row-major order of a box.
Linear(p, sr) ==
    FoldLeftDomain(LAMBDA i, d : i * sr.range[d] + p[d] - sr.offset[d], 0, sr.range)

\* buffer_storage::get_data: the box, linearised.
get_data(contents, sr) ==
    [i \in {Linear(p, sr) : p \in Cells(sr)} |->
        contents[CHOOSE p \in Cells(sr) : Linear(p, sr) = i]]

\* Mutant: the data lands at the beginning of the buffer.
SetDataAtOrigin(contents, sr, data) ==
    LET at == [sr EXCEPT !.offset = [d \in DOMAIN @ |-> 0]]
    IN  [p \in DOMAIN contents |-> IF p \in Cells(at) THEN data[Linear(p, at)] ELSE contents[p]]

\* buffer_storage::set_data.
set_data(contents, sr, data) ==
    [p \in DOMAIN contents |-> IF p \in Cells(sr) THEN data[Linear(p, sr)] ELSE contents[p]]

\* A push is received.
transfer(t) ==
    /\ transfers' = transfers \ {t}
    /\ store' = [store EXCEPT ![t.target][t.bid] =
                   set_data(@, t.sr, get_data(store[t.source][t.bid], t.sr))]
    /\ UNCHANGED <<program, created, commands, executed, buffer_states, host>>

-----------------------------------------------------------------------------
\* parallel_for in the live-pass: the work items are the points of the chunk.
Items(sr) == Cells(sr)

\* device_queue::execute: the kernel runs over the chunk of command k.  On the device
\* there is what the accessors range over; the rest of a buffer is undefined.
execute(k) ==
    /\ transfers = {} /\ Current.type = "compute"
    /\ executed' = executed \cup {k}
    /\ LET c == commands[k]
           live == [bid \in Buffer |->
                      UNION {Cells(Live(a, c.sr)) : a \in {a \in Current.accesses : a.bid = bid}}]
           read(r) == IF r[2] \in live[r[1]] THEN store[c.nid][r[1]][r[2]] ELSE Undefined
       IN  store' = [store EXCEPT ![c.nid][Current.out] =
             [p \in DOMAIN @ |-> IF p \in Items(c.sr) \cap live[Current.out]
                                THEN Value(Current, p, [r \in Reads(Current, p) |-> read(r)]) ELSE @[p]]]
    /\ UNCHANGED <<program, created, commands, transfers, buffer_states, host>>

\* master_access_job::execute: the functor of a host access, with handler::run.
run(k) ==
    /\ transfers = {} /\ Current.type = "master_access"
    /\ executed' = executed \cup {k}
    /\ host' = Append(host, {[p \in Cells(a.sr) |-> store[Master][a.bid][p]] : a \in Current.accesses})
    /\ UNCHANGED <<program, created, commands, transfers, store, buffer_states>>

\* A new buffer: host data is written on every node, and all nodes count as current.
Start ==
    /\ created = 0 /\ commands = <<>> /\ executed = {} /\ transfers = {} /\ host = <<>>
    /\ store = [n \in Node |-> [bid \in Buffer |-> [p \in Extent(bid) |->
                 Initial(program.buffers[bid], p, n)]]]
    /\ buffer_states = [bid \in Buffer |-> [p \in Extent(bid) |-> [k \in 1 .. program.nodes |-> k - 1]]]

Init == program \in Program /\ Start

Finished == created = Len(program.tasks) /\ executed = DOMAIN commands /\ UNCHANGED vars

Next ==
    \/ create_task
    \/ \E t \in transfers : transfer(t)
    \/ \E k \in DOMAIN commands \ executed : execute(k) \/ run(k)
    \/ Finished

Spec == Init /\ [][Next]_vars

-----------------------------------------------------------------------------
Points(t) == Cells([offset |-> t.offset, range |-> t.size])
Computing == created > 0 /\ Current.type = "compute"

\* Every point of the index space belongs to exactly one chunk, no chunk leaves it,
\* and every node gets one, whatever the remainders and the number of dimensions
\* (split_equal, transform_task).
ChunksPartition ==
    Computing =>
        /\ {commands[k].nid : k \in DOMAIN commands} = Node
        /\ UNION {Items(commands[k].sr) : k \in DOMAIN commands} = Points(Current)
        /\ \A k, l \in DOMAIN commands :
              k # l => Items(commands[k].sr) \cap Items(commands[l].sr) = {}

\* What a range mapper promises, without the arithmetic: a work item q may access
\* cell p.
Wanted(m, q, p) ==
    CASE m.kind = "one_to_one" -> p = q
      [] m.kind = "fixed" -> p \in Cells(m.sr)
      [] m.kind = "slice" -> \A d \in DOMAIN p \ {m.dim} : p[d] = q[d]
      [] m.kind = "all" -> TRUE
      [] m.kind = "neighborhood" ->
            \A d \in DOMAIN p : p[d] \in q[d] - m.border[d] .. q[d] + m.border[d]

\* A command requires exactly the cells of a buffer that its work items may access:
\* the mappers' excess is clamped, and nothing that is wanted is lost.  (A chunk
\* without work items may require more.)  Together the commands require what the task
\* manager assumed of the task when it mapped the whole index space at once.  Borders
\* are so small that offset plus range stays below SIZE_MAX, but for slice and all,
\* which begin at 0.
RequirementsExact ==
    Computing => \A a \in Current.accesses :
        /\ \A k \in DOMAIN commands :
              LET items == Items(commands[k].sr)
              IN  items # {} => Required(a, commands[k].sr) =
                    {p \in Extent(a.bid) : \E q \in items : Wanted(a.mapper, q, p)}
        /\ UNION {Required(a, commands[k].sr) : k \in DOMAIN commands} =
              Required(a, [offset |-> Current.offset, range |-> Current.size])

\* The accessors of the live-pass lie within their buffers, and a kernel never reads
\* or writes outside of those it has for reading or writing, on whatever chunk it runs
\* and however small the buffers are: what it accesses it has declared, and what it
\* declared can be had from other nodes.
AccessesDeclared ==
    Computing => \A k \in DOMAIN commands :
        LET c == commands[k]
            may(bid, modes) ==
                UNION {Cells(Live(a, c.sr)) :
                         a \in {a \in Current.accesses : a.bid = bid /\ a.mode \in modes}}
        IN  /\ \A a \in Current.accesses : Cells(Live(a, c.sr)) \subseteq Extent(a.bid)
            /\ \A q \in Items(c.sr) :
                  /\ \A r \in Reads(Current, q) : r[2] \in may(r[1], Consumer)
                  /\ q \in may(Current.out, Producer)

\* The program on a single memory: what the host functors read.
Alone ==
    LET memory == [bid \in Buffer |-> [p \in Extent(bid) |-> Initial(program.buffers[bid], p, program.nodes)]]
        after(s, t) ==
            IF t.type = "master_access"
            THEN [s EXCEPT !.host = Append(@, {s.memory[a.bid] : a \in t.accesses})]
            ELSE [s EXCEPT !.memory[t.out] = [p \in DOMAIN @ |->
                    IF p \in Points(t)
                    THEN Value(t, p, [r \in Reads(t, p) |-> s.memory[r[1]][r[2]]]) ELSE @[p]]]
    IN  FoldLeft(after, [memory |-> memory, host |-> <<>>], program.tasks)

\* On any number of nodes the host reads what it would read if the whole program ran
\* on one memory: splitting, transfers, accessors and kernels together lose, misplace
\* and mix up nothing, and no result depends on memory that nobody has written.
SameAsAlone ==
    created = Len(program.tasks) /\ executed = DOMAIN commands => host = Alone.host
=============================================================================
