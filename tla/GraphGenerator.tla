--------------------------- MODULE GraphGenerator ---------------------------
(***************************************************************************)
(* What the scheduler thread of the master node does with each new task:   *)
(* split it into one chunk per node, build its commands and the transfers  *)
(* and dependencies they need, insert horizons, and flush the commands to  *)
(* their nodes.  Sources: src/graph_generator.cc, src/graph_serializer.cc, *)
(* src/transformers/naive_split.cc (where commands are placed) and         *)
(* src/scheduler.cc.                                                       *)
(*                                                                         *)
(* Buffers are one-dimensional; a region is a set of cells, a box a run of *)
(* neighbouring cells of one buffer, a region_map a function on cells.     *)
(***************************************************************************)
EXTENDS CommandGraph, Sequences, SequencesExt

CONSTANTS
    BufferSize,      \* the size of each buffer id the program may register
    CommandGroup,    \* the command groups the program may submit
    HorizonStep,     \* horizon_step_size, 4 unless a test changes it
    MaxTasks         \* bound: number of tasks submitted

Buffer == DOMAIN BufferSize
AllCells == UNION {{<<bid, i>> : i \in 1 .. BufferSize[bid]} : bid \in Buffer}
CellsOf(bid) == {x \in AllCells : x[1] = bid}
Box == {{<<bid, k>> : k \in i .. j} : bid \in Buffer, i, j \in 1 .. Max(Range(BufferSize))}

all_modes == <<"atomic", "discard_read_write", "discard_write",
               "read", "read_write", "write">>
is_consumer(m) == m \notin {"discard_read_write", "discard_write"}
is_producer(m) == m # "read"

Reads(accesses)  == UNION {accesses[m] : m \in {k \in DOMAIN accesses : is_consumer(k)}}
Writes(accesses) == UNION {accesses[m] : m \in {k \in DOMAIN accesses : is_producer(k)}}

\* A command group says which cells the chunk of each node accesses in which
\* mode; chunks of one task never write the same cell, and master access runs
\* on node 0 only.
ASSUME ConstantsOK ==
    /\ Node = 0 .. Cardinality(Node) - 1 /\ 0 \in Node
    /\ \A cg \in CommandGroup :
          /\ cg.kind \in TaskKind
          /\ cg.accesses \in [Node -> [ToSet(all_modes) -> SUBSET AllCells]]
          /\ \A n, k \in Node : n # k =>
                Writes(cg.accesses[n]) \cap Writes(cg.accesses[k]) = {}
          /\ cg.kind = "MASTER_ACCESS" => \A n \in Node \ {0}, m \in ToSet(all_modes) :
                cg.accesses[n][m] = {}
    /\ HorizonStep \in Nat \ {0} /\ MaxTasks \in Nat

VARIABLES
    tasks,           \* the command groups submitted, in order; task ids start at 1
    buffers,         \* the buffers registered so far
    gg               \* graph_generator, command_graph and graph_serializer:
(***************************************************************************)
(*   cdag           the command graph                                      *)
(*   init_cid       node -> its init command                               *)
(*   buffer_states  cell -> the nodes that hold it, its producer first     *)
(*   last_writer    node -> cell -> the command that last wrote it there   *)
(*   reads          command_buffer_reads: cid -> cells it reads            *)
(*   prev_horizon_cmds  node -> its newest horizon, a set of at most one   *)
(*   writes, updates, pushes   the lists one task builds up, else empty    *)
(*   stream         the packages flushed, oldest first, with the           *)
(*                  dependencies they name                                 *)
(*   failed         assertions that failed and exceptions nobody catches   *)
(***************************************************************************)

vars == <<tasks, buffers, gg>>

\* A set of numbers as an ascending sequence.
Ascending(S) ==
    LET member(i) == i \in S
    IN  SelectSeq([i \in 1 .. Max(S \cup {0}) + 1 |-> i - 1], member)

NodeSeq == Ascending(Node)

-----------------------------------------------------------------------------
\* The boxes get_region_values returns for a request: the parts of it on which
\* the map is constant, cut into boxes.
RegionBoxes(map, request) ==
    LET uniform == {b \in Box : b # {} /\ b \subseteq request
                                /\ \A x, y \in b : map[x] = map[y]}
    IN  {b \in uniform : \A c \in uniform : b \subseteq c => b = c}

LastWriters(s, nid, region) == {s.last_writer[nid][x] : x \in region}

\* Mutant: commands of the same task are not skipped.
AntiDependenciesOnOwnTask(s, tid, region, cid) ==
    LET nid == s.cdag.commands[cid].nid
        readers(w) == {d \in TrueDependents(s.cdag, w) : s.reads[d] \cap region # {}}
        dependees == UNION {IF readers(w) # {} THEN readers(w) ELSE {w} :
                               w \in LastWriters(s, nid, region) \ {s.init_cid[nid]}}
    IN  [s EXCEPT !.cdag = add_dependency(@, cid, dependees, TRUE)]

\* generate_anti_dependencies: the command overwrites the region, so it waits
\* for the commands that read the region and depend on its last writer, or for
\* the last writer itself when there are none (unless that is the init command).
generate_anti_dependencies(s, tid, region, cid) ==
    LET nid == s.cdag.commands[cid].nid
        readers(w) == {d \in TrueDependents(s.cdag, w) :
                          /\ d \notin task_commands(s.cdag, tid)
                          /\ s.reads[d] \cap region # {}}
        writers == LastWriters(s, nid, region)
        unread == {w \in writers \ {s.init_cid[nid]} : readers(w) = {}}
        failures == {f \in {"await_push_without_dependent", "written_by_own_task"} :
            IF f = "written_by_own_task" THEN writers \cap task_commands(s.cdag, tid) # {}
            ELSE \E w \in unread : s.cdag.commands[w].kind = "AWAIT_PUSH"}
        dependees == unread \cup UNION {readers(w) : w \in writers}
    IN  [s EXCEPT !.cdag = add_dependency(@, cid, dependees, TRUE),
                  !.failed = @ \cup failures]

\* Mutant: the node that received the box is not remembered.
HoldersForgetful(sources, nid) == sources

\* The nodes that hold a box once nid has received it, the producer still first.
Holders(sources, nid) == Append(sources, nid)

\* A box the node of cid lacks: a PUSH on the first (the producing) source and
\* an AWAIT_PUSH here.
TransferBox(s, tid, cid, box) ==
    LET nid == s.cdag.commands[cid].nid
        sources == s.buffer_states[CHOOSE x \in box : TRUE]
        source == Head(sources)
        push == s.cdag.next_cmd_id
        await == push + 1
        g1 == create(s.cdag, [kind |-> "PUSH", nid |-> source, tid |-> tid,
                              cells |-> box, peer |-> await])
        g2 == add_dependency(g1, push, LastWriters(s, source, box), FALSE)
        g3 == create(g2, [kind |-> "AWAIT_PUSH", nid |-> nid, tid |-> tid,
                          cells |-> box, peer |-> push])
        g4 == add_dependency(g3, cid, {await}, FALSE)
        s1 == [s EXCEPT !.cdag = g4,
                        !.reads = Extend(Extend(@, push, box), await, {})]
    IN  [generate_anti_dependencies(s1, tid, box, await) EXCEPT
            !.buffer_states = [x \in AllCells |->
                                  IF x \in box THEN Holders(sources, nid) ELSE @[x]],
            !.updates = Append(@, <<nid, box, await>>),
            !.pushes = @ \cup {push}]

\* A consuming access: what the node has is read after its last writers, what
\* it lacks is transferred, box by box.
Consume(s, tid, cid, req) ==
    LET nid == s.cdag.commands[cid].nid
        local == {x \in req : nid \in ToSet(s.buffer_states[x])}
        s1 == [s EXCEPT !.reads[cid] = @ \cup req,
                        !.cdag = add_dependency(@, cid, LastWriters(s, nid, local), FALSE)]
        fetch(h, box) == TransferBox(h, tid, cid, box)
    IN  FoldLeft(fetch, s1, SetToSeq(RegionBoxes(s.buffer_states, req \ local)))

\* A producing access: the writes take effect when the whole task is processed.
Produce(s, tid, cid, req) ==
    LET nid == s.cdag.commands[cid].nid
    IN  [generate_anti_dependencies(s, tid, req, cid) EXCEPT
            !.writes = Append(@, <<nid, req>>),
            !.updates = Append(@, <<nid, req, cid>>)]

\* One (command, buffer, mode) of the loops of process_task_data_requirements.
Require(s, tid, cid, mode, req) ==
    LET s1 == IF is_consumer(mode) THEN Consume(s, tid, cid, req) ELSE s
    IN  IF is_producer(mode) THEN Produce(s1, tid, cid, req) ELSE s1

\* Mutant: the nodes that held the old version stay listed.
NewHolderKeepOthers(nid, sources) == <<nid>> \o SelectSeq(sources, LAMBDA n : n # nid)

\* After a write only the writing node holds the cell.
NewHolder(nid, sources) == <<nid>>

\* The deferred writes of the task, each list applied in order, so that a later
\* entry wins.
ApplyWrites(s) ==
    LET state(m, w) == [x \in AllCells |-> IF x \in w[2] THEN NewHolder(w[1], m[x]) ELSE m[x]]
        writer(m, w) == [m EXCEPT ![w[1]] = [x \in AllCells |-> IF x \in w[2] THEN w[3] ELSE @[x]]]
    IN  [s EXCEPT !.buffer_states = FoldLeft(state, @, s.writes),
                  !.last_writer = FoldLeft(writer, @, s.updates)]

\* Mutant: no intra-task anti-dependencies.
OrderPushesNot(s, tid) == s

\* Intra-task anti-dependencies: a node that pushes a box and writes it in the
\* same task writes it after the PUSH.
OrderPushes(s, tid) ==
    LET own(p) == LastWriters(s, s.cdag.commands[p].nid, s.cdag.commands[p].cells)
                      \cap task_commands(s.cdag, tid)
        overwriters(p) == own(p) \ s.cdag.true_deps[p]
        cyclic == {p \in s.pushes : own(p) \cap s.cdag.true_deps[p] # {}}
        order(h, w) == [h EXCEPT !.cdag = add_dependency(@, w,
                            {p \in s.pushes : w \in overwriters(p)}, TRUE)]
        s1 == [s EXCEPT !.failed = IF cyclic = {} THEN @
                                   ELSE @ \cup {"push_depends_on_task_command"}]
    IN  FoldLeft(order, s1, SetToSeq(UNION {overwriters(p) : p \in s.pushes}))

\* The non-empty requirements of the commands of a task, in the order of the
\* loops: by command, by buffer, by position of the mode in all_modes.
Requirements(s, tid, cg) ==
    LET cids == Ascending(task_commands(s.cdag, tid))
        bids == SetToSeq(Buffer)
        modes == Len(all_modes)
        req(i) == LET cid == cids[1 + i \div (modes * Len(bids))]
                      mode == all_modes[1 + (i % modes)]
                  IN  [cid |-> cid, mode |-> mode,
                       cells |-> cg.accesses[s.cdag.commands[cid].nid][mode]
                                 \cap CellsOf(bids[1 + ((i \div modes) % Len(bids))])]
        nonempty(r) == r.cells # {}
    IN  SelectSeq([i \in 1 .. modes * Len(bids) * Len(cids) |-> req(i - 1)], nonempty)

process_task_data_requirements(s, tid, cg) ==
    LET require(h, r) == Require(h, tid, r.cid, r.mode, r.cells)
        resolved == FoldLeft(require, s, Requirements(s, tid, cg))
    IN  [OrderPushes(ApplyWrites(resolved), tid) EXCEPT
            !.writes = <<>>, !.updates = <<>>, !.pushes = {}]

\* Creation of the commands of a task.  A compute task gets a command for all of
\* it, which naive_split replaces by one per chunk; the scheduler asks for as
\* many chunks as there are nodes, so chunk i runs on node i.
CreateTaskCommands(s, tid, kind) ==
    LET cmd(n) == [kind |-> kind, nid |-> n, tid |-> tid, cells |-> {}, peer |-> 0]
        original == s.cdag.next_cmd_id
        split(g, n) == create(g, cmd(n))
        g1 == create(s.cdag, cmd(0))
        g2 == IF kind = "COMPUTE" THEN erase(FoldLeft(split, g1, NodeSeq), original) ELSE g1
    IN  [s EXCEPT !.cdag = g2,
                  !.reads = [c \in Commands(g2) |-> IF c \in DOMAIN @ THEN @[c] ELSE {}]]

should_generate_horizon(s) == s.cdag.max_path >= s.prev_horizon_cpath_max + HorizonStep

\* Mutant: the previous horizon also replaces newer writers.
ApplyHorizonAlways(writers, prev) ==
    [x \in AllCells |-> IF prev = {} THEN writers[x] ELSE Max(prev)]

\* The horizon replaces every last writer that is older than it.
ApplyHorizon(writers, prev) ==
    [x \in AllCells |-> Max(prev \cup {writers[x]})]

\* One node of generate_horizon: the new horizon waits for the execution front,
\* and the previous one is applied.  get_execution_front throws when the node
\* never had a command.
HorizonOn(s, nid) ==
    LET hid == s.cdag.next_cmd_id
        g == create(s.cdag, [kind |-> "HORIZON", nid |-> nid, tid |-> 0, cells |-> {}, peer |-> 0])
    IN  IF nid \notin DOMAIN s.cdag.fronts
        THEN [s EXCEPT !.failed = @ \cup {"no_execution_front"}]
        ELSE [s EXCEPT
                !.cdag = add_dependency(g, hid, s.cdag.fronts[nid], FALSE),
                !.reads = Extend(@, hid, {}),
                !.last_writer[nid] = ApplyHorizon(@, s.prev_horizon_cmds[nid]),
                !.prev_horizon_cmds[nid] = {hid}]

generate_horizon(s) ==
    FoldLeft(HorizonOn, [s EXCEPT !.prev_horizon_cpath_max = s.cdag.max_path], NodeSeq)

build_task(s, tid, cg) ==
    LET s1 == process_task_data_requirements(CreateTaskCommands(s, tid, cg.kind), tid, cg)
    IN  IF should_generate_horizon(s1) THEN generate_horizon(s1) ELSE s1

-----------------------------------------------------------------------------
\* serialize_and_flush: the package of a command with the dependencies named.
serialize_and_flush(s, cid, dependencies) ==
    [s EXCEPT !.stream = Append(@, [cid |-> cid, deps |-> dependencies]),
              !.cdag.flushed = @ \cup {cid},
              !.failed = IF cid \in s.cdag.flushed THEN @ \cup {"flushed_twice"} ELSE @]

\* flush_dependency: its own dependencies must have been flushed before.
flush_dependency(s, cid) ==
    [serialize_and_flush(s, cid, s.cdag.deps[cid]) EXCEPT
        !.failed = IF s.cdag.deps[cid] \subseteq s.cdag.flushed THEN @
                   ELSE @ \cup {"dependency_not_flushed"}]

\* Flushing what another command may have brought along already.
flush_once(s, cid) == IF cid \in s.cdag.flushed THEN s ELSE flush_dependency(s, cid)

\* Mutant: the PUSH is left to be reached through the task commands.
FlushTransferAwaitOnly(s, await) == flush_once(s, await)

\* Mutant: the check that the PUSH is still to be flushed is dropped.
FlushTransferUnchecked(s, await) ==
    flush_dependency(flush_once(s, await), s.cdag.commands[await].peer)

\* An AWAIT_PUSH is flushed together with the PUSH it waits for.
FlushTransfer(s, await) == flush_once(flush_once(s, await), s.cdag.commands[await].peer)

\* Mutant: nothing is flushed ahead of the task command.
FlushAheadNothing(s, d) == s

\* A direct dependency d of a task command: transfers and horizons are flushed
\* right away, task commands must have been.
FlushAhead(s, d) ==
    CASE s.cdag.commands[d].kind = "NOP" -> s
      [] s.cdag.commands[d].kind = "AWAIT_PUSH" -> FlushTransfer(s, d)
      [] s.cdag.commands[d].kind \in {"PUSH", "HORIZON"} -> flush_once(s, d)
      [] OTHER -> [s EXCEPT !.failed = IF d \in s.cdag.flushed THEN @
                                       ELSE @ \cup {"dependency_not_flushed"}]

\* The horizons that were generated with the task.
FlushHorizons(s, cids) ==
    LET dependents == {d \in Commands(s.cdag) : s.cdag.deps[d] \cap ToSet(cids) # {}}
        s1 == IF \A d \in dependents : s.cdag.commands[d].kind = "HORIZON" THEN s
              ELSE [s EXCEPT !.failed = @ \cup {"dependent_is_no_horizon"}]
    IN  FoldLeft(flush_dependency, s1, Ascending(dependents))

\* Mutant: the horizons come before the commands they depend on.
FlushHorizonsFirst(s, tid) ==
    LET cids == Ascending(task_commands(s.cdag, tid))
        ahead(h, c) == FoldLeft(FlushAhead, h, Ascending(s.cdag.deps[c]))
        own(h, c) == serialize_and_flush(h, c,
                        {d \in s.cdag.deps[c] : s.cdag.commands[d].kind # "NOP"})
    IN  FoldLeft(own, FlushHorizons(FoldLeft(ahead, s, cids), cids), cids)

\* flush(tid): first the dependencies, then the task commands, then horizons.
flush(s, tid) ==
    LET cids == Ascending(task_commands(s.cdag, tid))
        ahead(h, c) == FoldLeft(FlushAhead, h, Ascending(s.cdag.deps[c]))
        own(h, c) == serialize_and_flush(h, c,
                        {d \in s.cdag.deps[c] : s.cdag.commands[d].kind # "NOP"})
    IN  FlushHorizons(FoldLeft(own, FoldLeft(ahead, s, cids), cids), cids)

-----------------------------------------------------------------------------
\* The constructor: one init NOP per node, the stand-in for host initialisation.
InitialState ==
    LET nop(g, n) == create(g, [kind |-> "NOP", nid |-> n, tid |-> 0, cells |-> {}, peer |-> 0])
        cdag == FoldLeft(nop, EmptyGraph, NodeSeq)
    IN  [cdag |-> cdag,
         init_cid |-> [n \in Node |-> n],
         buffer_states |-> [x \in AllCells |-> <<>>],
         last_writer |-> [n \in Node |-> [x \in AllCells |-> n]],
         reads |-> [c \in Commands(cdag) |-> {}],
         prev_horizon_cmds |-> [n \in Node |-> {}],
         prev_horizon_cpath_max |-> 0,
         writes |-> <<>>, updates |-> <<>>, pushes |-> {},
         stream |-> <<>>, failed |-> {}]

\* Every node holds a new (host-initialised) buffer.
WithBuffer(s, bid) ==
    [s EXCEPT
        !.buffer_states = [x \in AllCells |-> IF x \in CellsOf(bid) THEN NodeSeq ELSE @[x]],
        !.last_writer = [n \in Node |-> [x \in AllCells |->
            IF x \in CellsOf(bid) THEN s.init_cid[n] ELSE @[n][x]]]]

Init ==
    /\ tasks = <<>>
    /\ buffers = {}
    /\ gg = InitialState

add_buffer(bid) ==
    /\ bid \notin buffers
    /\ gg.failed = {}
    /\ buffers' = buffers \cup {bid}
    /\ gg' = WithBuffer(gg, bid)
    /\ UNCHANGED tasks

\* scheduler::schedule for TASK_AVAILABLE: build the commands and flush them.
task_available(cg) ==
    /\ Len(tasks) < MaxTasks
    /\ gg.failed = {}
    /\ \A n \in Node, x \in AllCells :
          x \in Reads(cg.accesses[n]) \cup Writes(cg.accesses[n]) => x[1] \in buffers
    /\ LET tid == Len(tasks) + 1
           built == build_task(gg, tid, cg)
       IN  gg' = IF built.failed = {} THEN flush(built, tid) ELSE built
    /\ tasks' = Append(tasks, cg)
    /\ UNCHANGED buffers

Next ==
    \/ \E bid \in Buffer : add_buffer(bid)
    \/ \E cg \in CommandGroup : task_available(cg)

Spec == Init /\ [][Next]_vars

-----------------------------------------------------------------------------
Cmd(c) == gg.cdag.commands[c]

\* The cells a command reads and writes in the memory of its node, when the
\* program has submitted the groups.
ReadsOf(cmd, groups) ==
    CASE cmd.kind \in TaskKind -> Reads(groups[cmd.tid].accesses[cmd.nid])
      [] cmd.kind = "PUSH" -> cmd.cells
      [] OTHER -> {}
WritesOf(cmd, groups) ==
    CASE cmd.kind \in TaskKind -> Writes(groups[cmd.tid].accesses[cmd.nid])
      [] cmd.kind = "AWAIT_PUSH" -> cmd.cells
      [] OTHER -> {}

CommandReads(c) == ReadsOf(Cmd(c), tasks)
CommandWrites(c) == WritesOf(Cmd(c), tasks)

\* The task before t that last wrote cell x in program order, 0 for the host.
LastTaskIn(groups, x, t) ==
    Max({0} \cup {u \in 1 .. t - 1 : \E n \in Node : x \in Writes(groups[u].accesses[n])})

LastTask(x, t) == LastTaskIn(tasks, x, t)

\* The version of x that a command leaves behind: a task command its own, a
\* transfer the one current when its task was submitted.
Version(c, x) == IF Cmd(c).kind \in TaskKind THEN Cmd(c).tid ELSE LastTask(x, Cmd(c).tid)

\* Everything the commands of S depend on, S included.
RECURSIVE Closure(_, _)
Closure(deps, S) ==
    LET more == S \cup UNION {deps[c] : c \in S}
    IN  IF more = S THEN S ELSE Closure(deps, more)

\* The commands every execution of the graph completes before c starts.
Before == [c \in Commands(gg.cdag) |-> Closure(gg.cdag.deps, gg.cdag.deps[c])]

\* The command graph has no cycle, although task commands may depend on the
\* PUSHes of their own task and AWAIT_PUSHes on readers found later: every
\* command can eventually run.
Acyclic == LET before == Before IN \A c \in Commands(gg.cdag) : c \notin before[c]

\* Coherence: whatever a command reads on its node (a task command its inputs, a
\* PUSH what it sends), all writes to the cell that precede it in the graph
\* precede one that leaves the version the sequential program would read.
ReadsCurrentVersion ==
    LET before == Before
    IN  \A c \in Commands(gg.cdag) : \A x \in CommandReads(c) :
            LET writers == {d \in before[c] : x \in CommandWrites(d)}
                current == LastTask(x, Cmd(c).tid)
            IN  IF current = 0 THEN writers = {}
                ELSE \E d \in writers : /\ Version(d, x) = current
                                        /\ writers \ {d} \subseteq before[d]

\* Anti-dependencies: a command that writes a cell on a node is ordered, one way
\* or the other, with every other command that reads or writes it there.
ConflictsOrdered ==
    LET before == Before
    IN  \A c, d \in Commands(gg.cdag) :
            /\ c # d /\ Cmd(c).nid = Cmd(d).nid
            /\ CommandWrites(c) \cap (CommandReads(d) \cup CommandWrites(d)) # {}
            => c \in before[d] \/ d \in before[c]

\* Nothing is sent twice: the node of an AWAIT_PUSH does not already hold, from
\* an earlier task, the version it receives.
NoRedundantTransfer ==
    \A c \in Commands(gg.cdag) : Cmd(c).kind = "AWAIT_PUSH" =>
        \A d \in Commands(gg.cdag) \ {c}, x \in Cmd(c).cells :
            Cmd(d).nid = Cmd(c).nid /\ x \in CommandWrites(d) /\ Cmd(d).tid <= Cmd(c).tid
                /\ ~(Cmd(d).kind \in TaskKind /\ Cmd(d).tid = Cmd(c).tid)
            => Version(d, x) < Version(c, x)

\* What executor::create_job relies on: a dependency that a package names (other
\* than an init command) was flushed to the node before the package.
DependenciesFlushedFirst ==
    \A i \in 1 .. Len(gg.stream) : \A d \in gg.stream[i].deps :
        \/ Cmd(d).kind = "NOP"
        \/ \E j \in 1 .. i - 1 : gg.stream[j].cid = d

\* Starting from the task commands the serializer reaches everything, only horizons
\* can stay behind; and it sends nothing twice, though it comes by most commands
\* more than once.
AllFlushed ==
    /\ gg.failed = {} => \A c \in Commands(gg.cdag) \ gg.cdag.flushed : Cmd(c).kind = "HORIZON"
    /\ \A i, j \in 1 .. Len(gg.stream) : i < j => gg.stream[i].cid # gg.stream[j].cid

\* A horizon stands for the past of its node: every command created before it
\* there completes before it does, although it only waits for the execution front.
HorizonCoversEarlier ==
    LET before == Before
    IN  \A h, c \in Commands(gg.cdag) :
            Cmd(h).kind = "HORIZON" /\ Cmd(c).kind # "NOP" /\ Cmd(c).nid = Cmd(h).nid /\ c < h
            => c \in before[h]

\* The assertions about the graph hold, and no look-up throws: last writers are never
\* commands of the task itself nor transfers nobody waits for (generate_anti_dependencies),
\* a push only follows the await push it forwards (process_task_data_requirements), every
\* node has an execution front (generate_horizon), and the serializer finds what commands
\* depend on flushed, only horizons to flush after them, and none flushed twice.  The
\* assertions about arguments (add_dependency, transform_task) are not recorded.
NoAssertionFails == gg.failed = {}
=============================================================================
