------------------------------ MODULE Lifecycle -----------------------------
(***************************************************************************)
(* The life of the runtime in one process: it is created by the first      *)
(* buffer or queue, started by the queue, shut down when the last copy of  *)
(* the queue goes, and destroys itself once it is inactive and no buffer   *)
(* is registered (src/runtime.cc, include/distr_queue.h, include/buffer.h, *)
(* src/user_bench.cc).  Command groups hold copies of the buffers they     *)
(* use, so buffers also go out of scope inside the runtime.                *)
(*                                                                         *)
(* The program is the main thread.  It makes one queue in all, as          *)
(* distr_queue demands, and nothing after the runtime is gone, for MPI     *)
(* cannot be initialised again.  It is the same program on every node: a   *)
(* worker may get commands and data of tasks that its own main thread has  *)
(* not reached yet, but will.                                              *)
(***************************************************************************)
EXTENDS Naturals, Sequences, FiniteSets

CONSTANTS
    MaxBuffers, MaxTasks, MaxHandles, MaxSections, MaxArrivals    \* bounds

ASSUME BoundsAssumption ==
    {MaxBuffers, MaxTasks, MaxHandles, MaxSections, MaxArrivals} \subseteq Nat

Buffer == 1 .. MaxBuffers

VARIABLES
    is_master,          \* whether this is the process of node 0
    instance,           \* "none", "alive", "destroying" or "destroyed"
    is_active,
    is_shutting_down,
    main,               \* main thread: "user", or where it is in shutdown
    queues,             \* copies of the queue the program holds
    started,            \* a queue was made
    handles,            \* buffer -> copies of it the program holds
    buffer_ptrs,        \* buffers registered
    buffer_count,
    reported,           \* unregister_buffer has logged its error
    tasks,              \* task -> [uses, holds]: its buffers, and those of which it has a copy
    task_map,           \* tasks the task manager keeps
    scheduled,          \* tasks the scheduler thread has flushed
    executed,           \* tasks the executor thread has run
    ahead,              \* the buffers of tasks known to the executor thread, not yet to main
    awaited,            \* the buffer for whose data the executor thread is waiting, or 0
    arrivals,           \* transfers received
    active_flushes,     \* sends not yet known to be complete
    sections,           \* user_benchmarker: open sections
    next_section_id,
    ended,              \* sections whose end was logged, in order
    mpi_calls           \* MPI_Init_thread and MPI_Finalize calls, in order

object_vars == <<queues, started, handles, buffer_ptrs, buffer_count, reported>>
transfer_vars == <<ahead, awaited, arrivals>>
task_vars == <<tasks, task_map, scheduled, executed, active_flushes, transfer_vars>>
bench_vars == <<sections, next_section_id, ended>>
runtime_vars == <<instance, is_active, is_shutting_down, mpi_calls>>
vars == <<is_master, main, object_vars, task_vars, bench_vars, runtime_vars>>

is_initialized == instance = "alive"

\* The main thread runs the program, inside which it may make the runtime.
AtUser == main = "user" /\ instance # "destroying"
MayCreate == AtUser /\ instance # "destroyed"

\* runtime::init and the constructor: MPI, configuration, benchmarks, components.
init ==
    /\ instance' = "alive"
    /\ mpi_calls' = IF is_initialized THEN mpi_calls ELSE Append(mpi_calls, "init")

-----------------------------------------------------------------------------
\* Copies of the buffer, in the hands of the program and of command groups.
Copies(b, h, tm) == h[b] + Cardinality({t \in tm : b \in tasks[t].holds})

\* The buffers whose last copy is gone, when h and tm are what is left.
Released(h, tm) == {b \in buffer_ptrs : Copies(b, h, tm) = 0}

\* Mutant: a shutdown under way is not respected.
DestroysInShutdown(active, shutting_down, ptrs) == ~active /\ ptrs = {}

\* Mutant: registered buffers are not respected.
DestroysWithBuffers(active, shutting_down, ptrs) == ~active /\ ~shutting_down

\* maybe_destroy_runtime.
Destroys(active, shutting_down, ptrs) == ~active /\ ~shutting_down /\ ptrs = {}

\* Mutant: the first task does not count.
ComplainsSecond == is_active /\ Len(tasks) > 1

\* The runtime is active and has_task(init_task_id + 1).
Complains == is_active /\ tasks # <<>>

\* ~buffer_impl and unregister_buffer, for each buffer of B.  The error is only logged.
unregister_buffer(B) ==
    /\ buffer_ptrs' = buffer_ptrs \ B
    /\ reported' = (reported \/ (B # {} /\ Complains))
    /\ instance' = IF B # {} /\ Destroys(is_active, is_shutting_down, buffer_ptrs')
                   THEN "destroying" ELSE instance

-----------------------------------------------------------------------------
(* What the program does. *)

create_buffer ==
    /\ MayCreate /\ buffer_count < MaxBuffers
    /\ init
    /\ buffer_count' = buffer_count + 1
    /\ buffer_ptrs' = buffer_ptrs \cup {buffer_count'}
    /\ handles' = [handles EXCEPT ![buffer_count'] = 1]
    /\ UNCHANGED <<is_master, main, queues, started, reported, task_vars, bench_vars, is_active,
                   is_shutting_down>>

copy_buffer(b) ==
    /\ AtUser /\ handles[b] \in 1 .. MaxHandles - 1
    /\ handles' = [handles EXCEPT ![b] = @ + 1]
    /\ UNCHANGED <<is_master, main, queues, started, buffer_ptrs, buffer_count, reported,
                   task_vars, bench_vars, runtime_vars>>

\* The buffers that the program is still going to use, as the master did.
StillToUse == UNION {ahead[i] : i \in DOMAIN ahead}

drop_buffer(b) ==
    /\ AtUser /\ handles[b] > 0
    /\ b \in StillToUse => handles[b] > 1
    /\ handles' = [handles EXCEPT ![b] = @ - 1]
    /\ unregister_buffer(Released(handles', task_map))
    /\ UNCHANGED <<is_master, main, queues, started, buffer_count, task_vars, bench_vars,
                   is_active, is_shutting_down, mpi_calls>>

\* distr_queue's constructor: init and startup.
create_queue ==
    /\ MayCreate /\ ~started
    /\ init
    /\ is_active' = TRUE
    /\ started' = TRUE /\ queues' = 1
    /\ UNCHANGED <<is_master, main, handles, buffer_ptrs, buffer_count, reported, task_vars,
                   bench_vars, is_shutting_down>>

copy_queue ==
    /\ AtUser /\ queues \in 1 .. MaxHandles - 1
    /\ queues' = queues + 1
    /\ UNCHANGED <<is_master, main, started, handles, buffer_ptrs, buffer_count, reported,
                   task_vars, bench_vars, runtime_vars>>

\* A command group or host access that uses the buffers B; the prepass records it, the
\* callback notifies the scheduler.  Only of the buffers captured by value (H) does it
\* have a copy: with_master_access, and submit without CELERITY_STRICT_CGF_SAFETY,
\* accept references as well.
submit(B, H) ==
    /\ AtUser /\ queues > 0 /\ Len(tasks) < MaxTasks
    /\ \A b \in B : handles[b] > 0
    /\ ahead # <<>> => B = Head(ahead)
    /\ tasks' = Append(tasks, [uses |-> B, holds |-> H])
    /\ task_map' = task_map \cup {Len(tasks')}
    /\ ahead' = IF ahead = <<>> THEN <<>> ELSE Tail(ahead)
    /\ UNCHANGED <<is_master, main, object_vars, scheduled, executed, active_flushes, awaited,
                   arrivals, bench_vars, runtime_vars>>

begin_section ==
    /\ AtUser /\ is_initialized /\ next_section_id < MaxSections
    /\ sections' = Append(sections, next_section_id)
    /\ next_section_id' = next_section_id + 1
    /\ UNCHANGED <<is_master, main, object_vars, task_vars, ended, runtime_vars>>

\* end_section, of the section the program opened last.
end_section ==
    /\ AtUser /\ is_initialized /\ sections # <<>>
    /\ ended' = Append(ended, sections[Len(sections)])
    /\ sections' = SubSeq(sections, 1, Len(sections) - 1)
    /\ UNCHANGED <<is_master, main, object_vars, task_vars, next_section_id, runtime_vars>>

-----------------------------------------------------------------------------
(* The other threads, and the shutdown that waits for them. *)

\* flush_command: one more send, and a test of the oldest one.  (One send stands for
\* all those of a task, or for those of SHUTDOWN to all nodes.)
flush_command == active_flushes' \in {active_flushes, active_flushes + 1}

\* The scheduler thread of the master flushes the commands of the next task.
schedule ==
    /\ is_master /\ is_active /\ scheduled < Len(tasks)
    /\ scheduled' = scheduled + 1
    /\ flush_command
    /\ UNCHANGED <<is_master, main, object_vars, tasks, task_map, executed, transfer_vars,
                   bench_vars, runtime_vars>>

Pending == (1 .. Len(tasks)) \ executed

\* The executor thread runs the live pass of a task; a worker gets the commands
\* from the master, and waits for main to create the task.
execute(t) ==
    /\ is_active /\ awaited = 0
    /\ is_master => t <= scheduled
    /\ executed' = executed \cup {t}
    /\ UNCHANGED <<is_master, main, object_vars, tasks, task_map, scheduled, active_flushes,
                   transfer_vars, bench_vars, runtime_vars>>

\* The master is further in the program than this worker: it has created a task that uses
\* buffers B, those still to be registered included, and sends its commands.
run_ahead(B) ==
    /\ ~is_master /\ is_active /\ queues > 0
    /\ Len(tasks) + Len(ahead) < MaxTasks
    /\ \A b \in B : handles[b] > 0 \/ b > buffer_count
    /\ ahead' = Append(ahead, B)
    /\ UNCHANGED <<is_master, main, object_vars, tasks, task_map, scheduled, executed,
                   active_flushes, awaited, arrivals, bench_vars, runtime_vars>>

\* The tasks whose commands the executor thread may have, and what they use.
Known == (1 .. Len(tasks) + Len(ahead)) \ executed
Uses(t) == IF t <= Len(tasks) THEN tasks[t].uses ELSE ahead[t - Len(tasks)]

\* Data for task t has come: write_data_to_buffer looks for buffer b, again and again.
receive(t, b) ==
    /\ is_active /\ awaited = 0 /\ arrivals < MaxArrivals
    /\ is_master => t <= scheduled
    /\ awaited' = b /\ arrivals' = arrivals + 1
    /\ UNCHANGED <<is_master, main, object_vars, tasks, task_map, scheduled, executed,
                   active_flushes, ahead, bench_vars, runtime_vars>>

\* It has found it (has_buffer), and writes the data.
set_buffer_data ==
    /\ awaited \in buffer_ptrs
    /\ awaited' = 0
    /\ UNCHANGED <<is_master, main, object_vars, tasks, task_map, scheduled, executed,
                   active_flushes, ahead, arrivals, bench_vars, runtime_vars>>

\* The last copy of the queue goes: the tracker calls shutdown.
drop_queue ==
    /\ AtUser /\ queues > 0
    /\ queues = 1 => ahead = <<>>
    /\ queues' = queues - 1
    /\ is_shutting_down' = (is_shutting_down \/ queues' = 0)
    /\ main' = IF queues' = 0 THEN "joining" ELSE main
    /\ UNCHANGED <<is_master, started, handles, buffer_ptrs, buffer_count, reported, task_vars,
                   bench_vars, instance, is_active, mpi_calls>>

\* The threads end when all tasks are flushed and all commands are done.
Joined == (is_master => scheduled = Len(tasks)) /\ Pending = {} /\ awaited = 0

\* SHUTDOWN is broadcast, the threads are joined, is_active is reset.
join ==
    /\ main = "joining"
    /\ Joined
    /\ IF is_master THEN flush_command ELSE UNCHANGED active_flushes
    /\ is_active' = FALSE
    /\ main' = "releasing"
    /\ UNCHANGED <<is_master, object_vars, tasks, task_map, scheduled, executed, transfer_vars,
                   bench_vars, instance, is_shutting_down, mpi_calls>>

\* task_manager::shutdown: the tasks go, and the buffers that only they held.
release(t) ==
    /\ main = "releasing"
    /\ task_map' = task_map \ {t}
    /\ unregister_buffer(Released(handles, task_map'))
    /\ UNCHANGED <<is_master, main, queues, started, handles, buffer_count, tasks, scheduled,
                   executed, active_flushes, transfer_vars, bench_vars, is_active,
                   is_shutting_down, mpi_calls>>

\* Mutant: is_shutting_down is not reset.
ShuttingDownAfterStill == TRUE

ShuttingDownAfter == FALSE

\* The end of shutdown.
finish ==
    /\ main = "releasing" /\ task_map = {}
    /\ is_shutting_down' = ShuttingDownAfter
    /\ main' = "user"
    /\ instance' = IF Destroys(is_active, is_shutting_down', buffer_ptrs)
                   THEN "destroying" ELSE instance
    /\ UNCHANGED <<is_master, object_vars, task_vars, bench_vars, is_active, mpi_calls>>

-----------------------------------------------------------------------------
(* ~runtime. *)

\* ~user_benchmarker ends the open sections, the innermost first.
end_open_section ==
    /\ instance = "destroying" /\ sections # <<>>
    /\ ended' = Append(ended, sections[Len(sections)])
    /\ sections' = SubSeq(sections, 1, Len(sections) - 1)
    /\ UNCHANGED <<is_master, main, object_vars, task_vars, next_section_id, runtime_vars>>

\* The oldest flush is tested until it is complete, then the next one.
drain ==
    /\ instance = "destroying" /\ sections = <<>> /\ active_flushes > 0
    /\ active_flushes' = active_flushes - 1
    /\ UNCHANGED <<is_master, main, object_vars, tasks, task_map, scheduled, executed,
                   transfer_vars, bench_vars, runtime_vars>>

finalize ==
    /\ instance = "destroying" /\ sections = <<>> /\ active_flushes = 0
    /\ instance' = "destroyed"
    /\ mpi_calls' = Append(mpi_calls, "finalize")
    /\ UNCHANGED <<is_master, main, object_vars, task_vars, bench_vars, is_active,
                   is_shutting_down>>

-----------------------------------------------------------------------------
Init ==
    /\ is_master \in BOOLEAN
    /\ instance = "none" /\ is_active = FALSE /\ is_shutting_down = FALSE
    /\ main = "user"
    /\ queues = 0 /\ started = FALSE /\ reported = FALSE
    /\ handles = [b \in Buffer |-> 0] /\ buffer_ptrs = {} /\ buffer_count = 0
    /\ tasks = <<>> /\ task_map = {} /\ scheduled = 0 /\ executed = {}
    /\ ahead = <<>> /\ awaited = 0 /\ arrivals = 0 /\ active_flushes = 0
    /\ sections = <<>> /\ next_section_id = 0 /\ ended = <<>>
    /\ mpi_calls = <<>>

UserProgram ==
    \/ create_buffer \/ create_queue \/ copy_queue \/ begin_section \/ end_section
    \/ \E b \in Buffer : copy_buffer(b)
    \/ \E B \in SUBSET Buffer : \E H \in SUBSET B : submit(B, H)

DropObjects == drop_queue \/ \E b \in Buffer : drop_buffer(b)

OtherNodes ==
    \/ \E B \in SUBSET Buffer : run_ahead(B)
    \/ \E t \in Known : \E b \in Uses(t) : receive(t, b)

Runtime ==
    \/ schedule \/ (\E t \in Pending : execute(t)) \/ set_buffer_data
    \/ join \/ (\E t \in task_map : release(t)) \/ finish
    \/ end_open_section \/ drain \/ finalize

Next == UserProgram \/ DropObjects \/ OtherNodes \/ Runtime

Spec == Init /\ [][Next]_vars

\* Threads run, commands end and MPI completes what it accepted; the program may
\* stop making calls, but not in the middle of one.
FairSpec == Spec /\ WF_vars(Runtime)

-----------------------------------------------------------------------------
\* shutdown runs on the runtime it was called on to its end: releasing the buffers
\* captured by command groups does not destroy the runtime underneath it, and
\* neither shutdown nor ~buffer_impl finds the instance gone (get_instance throws).
NoUseAfterDestruction ==
    /\ main # "user" => is_initialized
    /\ queues > 0 \/ buffer_ptrs # {} => is_initialized

\* What ~runtime leaves behind: every buffer unregistered (its assertion), all tasks
\* run and released, MPI initialised and finalised once, nothing in flight, and every
\* benchmark section ended once, by the program or by ~user_benchmarker.
DestroyedClean ==
    instance = "destroyed" =>
        /\ queues = 0 /\ buffer_ptrs = {} /\ \A b \in Buffer : handles[b] = 0
        /\ Pending = {} /\ task_map = {}
        /\ mpi_calls = <<"init", "finalize">> /\ active_flushes = 0
        /\ Len(ended) = next_section_id
        /\ \A i, j \in 1 .. Len(ended) : i < j => ended[i] # ended[j]

\* No task runs without a buffer it uses unless the error of unregister_buffer ("a
\* buffer is going out of scope before all tasks have been completed") has been logged:
\* as long as it has not, the buffers of all pending tasks are registered, those captured
\* by reference included, and the executor thread of a worker that is ahead of main waits
\* (in write_data_to_buffer) for no buffer that has come and gone.
EarlyReleaseReported ==
    \/ reported
    \/ /\ \A t \in Pending : tasks[t].uses \subseteq buffer_ptrs
       /\ awaited \in 1 .. buffer_count => awaited \in buffer_ptrs

\* A program that lets go of its queue and all its buffers, in whatever order but with no
\* error reported, gets the runtime destroyed and MPI finalised.
EventuallyDestroyed ==
    instance # "none" /\ ~reported /\ queues = 0 /\ (\A b \in Buffer : handles[b] = 0)
        ~> instance = "destroyed"
=============================================================================
