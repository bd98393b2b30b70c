---------------------------- MODULE TaskManager ----------------------------
(***************************************************************************)
(* The task graph (TDAG) that the master node builds while the user        *)
(* program submits command groups: src/task_manager.{h,cc}.                *)
(*                                                                         *)
(* A buffer is a set of cells; a region is the set of the cells it covers, *)
(* and a region_map is a function on cells.  A command group declares, for *)
(* each access mode, the cells it accesses in that mode.                   *)
(***************************************************************************)
EXTENDS Naturals, FiniteSets

CONSTANTS
    Buffer,          \* the buffer ids the program may register
    Cell,            \* the elements of all buffers together
    BufferOf,        \* the buffer each cell belongs to
    CommandGroup,    \* the command groups the program may submit
    None,            \* boost::none
    MaxTasks         \* bound: task ids handed out, the init task included

InitTask == 0        \* init_task_id, the surrogate for host initialisation

Mode == {"atomic", "discard_read_write", "discard_write",
         "read", "read_write", "write"}
ConsumerMode == Mode \ {"discard_read_write", "discard_write"}
ProducerMode == Mode \ {"read"}

\* The constants are well formed: cells belong to buffers, and a command group
\* maps modes to cells.
ASSUME ConstantsOK ==
    /\ BufferOf \in [Cell -> Buffer]
    /\ CommandGroup \subseteq [Mode -> SUBSET Cell]
    /\ MaxTasks \in Nat
    /\ None \notin Nat

VARIABLES
    next_task_id,          \* also bounds task_map, whose keys are 0..next_task_id-1
    cgf,                   \* the accesses each task declared in its pre-pass
    dependencies,          \* per task: the tasks it depends on
    true_dependencies,     \* the dependencies whose is_anti flag is false
    buffers,               \* the buffers registered so far
    host_initialized,      \* the registered buffers that came with host data
    buffers_last_writers   \* per cell: the task that last wrote it, or None

vars == <<next_task_id, cgf, dependencies, true_dependencies,
          buffers, host_initialized, buffers_last_writers>>

Task == 0 .. next_task_id - 1

-----------------------------------------------------------------------------
\* get_requirements(tsk, bid, modes): the union over the modes, in buffer bid.
get_requirements(accesses, bid, modes) ==
    {c \in Cell : BufferOf[c] = bid /\ \E m \in modes : c \in accesses[m]}

Reads(accesses)  == {c \in Cell : \E m \in ConsumerMode : c \in accesses[m]}
Writes(accesses) == {c \in Cell : \E m \in ProducerMode : c \in accesses[m]}

get_dependents(t) == {u \in Task : t \in dependencies[u]}

\* The last writers of a region, unwritten parts left out.
LastWriters(region) == {buffers_last_writers[c] : c \in region} \ {None}

\* Mutant: every dependent of the writer counts, whatever it reads.
AntiDependentsAny(w, bid, region) == get_dependents(w)

\* The dependents of writer w that read, in buffer bid, cells that are now
\* overwritten by the region written.
AntiDependents(w, bid, region) ==
    {u \in get_dependents(w) :
        region \cap get_requirements(cgf[u], bid, ConsumerMode) # {}}

\* True dependencies of a task with these accesses, one pass per buffer.
ReadDependencies(accesses) ==
    UNION {LastWriters(get_requirements(accesses, bid, ConsumerMode)) :
              bid \in buffers}

\* Mutant: only the last writers are considered, never their dependents.
WriteDependenciesWritersOnly(accesses) ==
    UNION {LastWriters(get_requirements(accesses, bid, ProducerMode)) :
              bid \in buffers}

\* Anti-dependencies: on the readers of what is overwritten, or on the last
\* writer itself when it has no such reader.
WriteDependencies(accesses) ==
    UNION {LET region == get_requirements(accesses, bid, ProducerMode)
           IN  UNION {LET readers == AntiDependents(w, bid, region)
                      IN  IF readers # {} THEN readers ELSE {w} :
                         w \in LastWriters(region)} :
              bid \in buffers}

-----------------------------------------------------------------------------
Init ==
    /\ next_task_id = 1
    /\ cgf = [t \in {InitTask} |-> [m \in Mode |-> {}]]
    /\ dependencies = [t \in {InitTask} |-> {}]
    /\ true_dependencies = [t \in {InitTask} |-> {}]
    /\ buffers = {}
    /\ host_initialized = {}
    /\ buffers_last_writers = [c \in Cell |-> None]

\* Mutant: host initialisation is not recorded as a write of the init task.
AddBufferUnrecorded(bid, with_host_data) ==
    /\ bid \notin buffers
    /\ buffers' = buffers \cup {bid}
    /\ host_initialized' = IF with_host_data THEN host_initialized \cup {bid}
                                             ELSE host_initialized
    /\ UNCHANGED <<next_task_id, cgf, dependencies, true_dependencies,
                   buffers_last_writers>>

\* add_buffer: a buffer with host data counts as written by the init task.
add_buffer(bid, with_host_data) ==
    /\ bid \notin buffers
    /\ buffers' = buffers \cup {bid}
    /\ host_initialized' = IF with_host_data THEN host_initialized \cup {bid}
                                             ELSE host_initialized
    /\ buffers_last_writers' =
          [c \in Cell |-> IF BufferOf[c] = bid /\ with_host_data
                          THEN InitTask ELSE buffers_last_writers[c]]
    /\ UNCHANGED <<next_task_id, cgf, dependencies, true_dependencies>>

\* create_compute_task and create_master_access_task on the master node:
\* create_task, the pre-pass and compute_dependencies under one lock.
\* intrusive_graph_node::add_dependency keeps one entry per pair of tasks and
\* upgrades it when a true dependency meets an anti-dependency.
create_task(accesses) ==
    /\ next_task_id < MaxTasks
    /\ \A c \in Reads(accesses) \cup Writes(accesses) : BufferOf[c] \in buffers
    /\ LET tid == next_task_id
           true_deps == ReadDependencies(accesses)
           anti_deps == WriteDependencies(accesses)
       IN  /\ next_task_id' = tid + 1
           /\ cgf' = [t \in 0 .. tid |-> IF t = tid THEN accesses ELSE cgf[t]]
           /\ dependencies' = [t \in 0 .. tid |->
                  IF t = tid THEN true_deps \cup anti_deps ELSE dependencies[t]]
           /\ true_dependencies' = [t \in 0 .. tid |->
                  IF t = tid THEN true_deps ELSE true_dependencies[t]]
           /\ buffers_last_writers' = [c \in Cell |->
                  IF c \in Writes(accesses) THEN tid ELSE buffers_last_writers[c]]
    /\ UNCHANGED <<buffers, host_initialized>>

Next ==
    \/ \E bid \in Buffer, with_host_data \in BOOLEAN : add_buffer(bid, with_host_data)
    \/ \E accesses \in CommandGroup : create_task(accesses)

Spec == Init /\ [][Next]_vars

-----------------------------------------------------------------------------
\* What tasks did to cells; the init task wrote the host-initialised buffers.
Wrote(t, c) == \/ c \in Writes(cgf[t])
               \/ t = InitTask /\ BufferOf[c] \in host_initialized
DidRead(t, c) == c \in Reads(cgf[t])

\* A set of tasks an execution may have completed at some point: whatever is
\* completed has its dependencies completed.
Closed(S) == \A t \in S : dependencies[t] \subseteq S

\* Every execution that respects the dependencies runs a before b.
Precedes(a, b) == \A S \in SUBSET Task : Closed(S) /\ b \in S => a \in S

\* t reads c although nothing, the host included, has ever written it.
ReadsGarbage(t, c) == \A u \in 0 .. t - 1 : ~Wrote(u, c)

TypeOK ==
    /\ next_task_id \in Nat \ {0}
    /\ cgf \in [Task -> [Mode -> SUBSET Cell]]
    /\ dependencies \in [Task -> SUBSET Task]
    /\ true_dependencies \in [Task -> SUBSET Task]
    /\ buffers \subseteq Buffer
    /\ host_initialized \subseteq buffers
    /\ buffers_last_writers \in [Cell -> Task \cup {None}]

\* Tasks in conflict are ordered by the graph in submission order: whenever an
\* earlier task wrote a cell that a later one accesses, or read a cell that a
\* later one overwrites, every execution that respects the dependencies of
\* compute_dependencies runs the earlier one first.  The one exception is a
\* read of never-written data.
ConflictsOrdered ==
    \A a, b \in Task, c \in Cell :
        /\ a < b
        /\ \/ Wrote(a, c) /\ (DidRead(b, c) \/ Wrote(b, c))
           \/ DidRead(a, c) /\ ~ReadsGarbage(a, c) /\ Wrote(b, c)
        => Precedes(a, b)

\* Data flows along true dependencies: a reader depends directly, and not as an
\* anti-dependency, on the latest earlier task that wrote the cell it reads.
ReadsFromLastWriter ==
    \A a, b \in Task, c \in Cell :
        /\ a < b
        /\ Wrote(a, c) /\ DidRead(b, c)
        /\ \A u \in a + 1 .. b - 1 : ~Wrote(u, c)
        => a \in true_dependencies[b]

\* No parallelism is lost: each dependency is explained by a cell that both
\* tasks access and at least one of them writes.
DependenciesJustified ==
    \A b \in Task : \A a \in dependencies[b] :
        \E c \in Cell : \/ Wrote(a, c) /\ DidRead(b, c)
                        \/ Wrote(a, c) /\ Wrote(b, c)
                        \/ DidRead(a, c) /\ Wrote(b, c)
=============================================================================
