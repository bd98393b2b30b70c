----------------------------- MODULE Scheduler ------------------------------
(***************************************************************************)
(* The threads of the master node and their locks: the main thread creates *)
(* tasks, registers buffers, syncs and shuts down (src/runtime.cc,         *)
(* src/task_manager.cc); the worker thread of the scheduler                *)
(* (src/scheduler.cc) waits on a condition variable for events, and builds *)
(* and flushes the commands of each task; the executor thread appears as   *)
(* far as it takes locks and answers SYNC and SHUTDOWN.  A step takes a    *)
(* lock, waits, or does what is done under a lock and releases it.         *)
(***************************************************************************)
EXTENDS Naturals, Sequences

CONSTANTS MAX_TASKS, MAX_SYNCS      \* bounds on what the program does

ASSUME BoundsAssumption == MAX_TASKS \in Nat /\ MAX_SYNCS \in Nat

VARIABLES
    main, worker, executor,         \* where each thread is
    owner,                          \* who holds each mutex
    events,                         \* scheduler::events
    next_event,                     \* the event that main is about to push
    tasks,                          \* the tasks 1 .. tasks are in task_map
    building,                       \* the task the worker thread has taken
    flushed,                        \* tasks whose commands were flushed, in order
    sync_id,                        \* syncs that main has entered
    sync_sent,                      \* the last SYNC broadcast
    highest_executed_sync_id,
    shutdown_sent                   \* SHUTDOWN has been broadcast

queue == <<events, next_event, tasks>>
work == <<building, flushed>>
control == <<sync_id, sync_sent, highest_executed_sync_id, shutdown_sent>>
vars == <<main, worker, executor, owner, queue, work, control>>

Mutex == {"events_mutex", "task_mutex", "runtime_buffer_mutex", "ggen_buffer_mutex"}
Thread == {"main", "worker", "executor"}
Free == "free"

\* An event is the task that is available, or SHUTDOWN, with the data 0, which no
\* announced task has.
SHUTDOWN == 0

\* std::lock_guard and std::unique_lock.
Take(t, m) == owner[m] = Free /\ owner' = [owner EXCEPT ![m] = t]
Release(m) == owner' = [owner EXCEPT ![m] = Free]

Init ==
    /\ main = "ready" /\ worker = "starting" /\ executor = "running"
    /\ owner = [m \in Mutex |-> Free]
    /\ events = <<>> /\ next_event = SHUTDOWN /\ tasks = 0
    /\ building = 0 /\ flushed = <<>>
    /\ sync_id = 0 /\ sync_sent = 0 /\ highest_executed_sync_id = 0 /\ shutdown_sent = FALSE

-----------------------------------------------------------------------------
\* The main thread takes a lock on its way, or releases one.
MainTakes(from, m, to) ==
    /\ main = from /\ main' = to /\ Take("main", m)
    /\ UNCHANGED <<worker, executor, queue, work, control>>

MainReleases(from, ms, to) ==
    /\ main = from /\ main' = to
    /\ owner' = [m \in Mutex |-> IF m \in ms THEN Free ELSE owner[m]]
    /\ UNCHANGED <<worker, executor, queue, work, control>>

NewTaskId == tasks + 1

\* create_compute_task, create_master_access_task: the task is stored under the
\* lock, the callbacks run without it.
create_task == tasks < MAX_TASKS /\ MainTakes("ready", "task_mutex", "creating")

task_created ==
    /\ main = "creating" /\ main' = "notifying"
    /\ tasks' = tasks + 1 /\ next_event' = NewTaskId
    /\ Release("task_mutex")
    /\ UNCHANGED <<worker, executor, events, work, control>>

\* notify: the event is pushed under the lock and signalled without it.
notify == MainTakes("notifying", "events_mutex", "pushing")

push_event ==
    /\ main = "pushing" /\ main' = "signalling"
    /\ events' = Append(events, next_event)
    /\ Release("events_mutex")
    /\ UNCHANGED <<worker, executor, next_event, tasks, work, control>>

\* Mutant: nobody is woken.
WokenNot == worker

\* What notify_one does to the worker thread.
Woken == IF worker = "waiting" THEN "woken" ELSE worker

notify_one ==
    /\ main = "signalling"
    /\ main' = IF next_event = SHUTDOWN THEN "joining" ELSE "ready"
    /\ worker' = Woken
    /\ UNCHANGED <<executor, owner, queue, work, control>>

\* register_buffer holds its mutex while task manager and graph generator take theirs.
register_buffer ==
    \/ MainTakes("ready", "runtime_buffer_mutex", "registering")
    \/ MainTakes("registering", "task_mutex", "adding_to_task_manager")
    \/ MainReleases("adding_to_task_manager", {"task_mutex"}, "added_to_task_manager")
    \/ MainTakes("added_to_task_manager", "ggen_buffer_mutex", "adding_to_ggen")
    \/ MainReleases("adding_to_ggen", {"ggen_buffer_mutex", "runtime_buffer_mutex"}, "ready")

sync ==
    /\ main = "ready" /\ main' = "polling" /\ sync_id < MAX_SYNCS
    /\ sync_id' = sync_id + 1
    /\ UNCHANGED <<worker, executor, owner, queue, work, sync_sent,
                   highest_executed_sync_id, shutdown_sent>>

\* is_idle, again and again until there is no event.
is_idle ==
    \/ MainTakes("polling", "events_mutex", "reading")
    \/ MainReleases("reading", {"events_mutex"},
                    IF events = <<>> THEN "sending_sync" ELSE "polling")

\* The end of broadcast_control_command; main is in flush_command until then.
sync_sent_to_all ==
    /\ main = "sending_sync" /\ main' = "syncing"
    /\ sync_sent' = sync_id
    /\ UNCHANGED <<worker, executor, owner, queue, work, sync_id,
                   highest_executed_sync_id, shutdown_sent>>

sync_return ==
    /\ main = "syncing" /\ main' = "ready"
    /\ highest_executed_sync_id = sync_id
    /\ UNCHANGED <<worker, executor, owner, queue, work, control>>

\* shutdown: the event for the worker thread, its join, the broadcast, and the join
\* of the executor thread.
shutdown ==
    /\ main = "ready" /\ main' = "notifying"
    /\ next_event' = SHUTDOWN
    /\ UNCHANGED <<worker, executor, owner, events, tasks, work, control>>

join_worker ==
    /\ main = "joining" /\ main' = "sending_shutdown"
    /\ worker = "exited"
    /\ UNCHANGED <<worker, executor, owner, queue, work, control>>

shutdown_sent_to_all ==
    /\ main = "sending_shutdown" /\ main' = "joining_executor"
    /\ shutdown_sent' = TRUE
    /\ UNCHANGED <<worker, executor, owner, queue, work, sync_id, sync_sent,
                   highest_executed_sync_id>>

join_executor ==
    /\ main = "joining_executor" /\ main' = "done"
    /\ executor = "exited"
    /\ UNCHANGED <<worker, executor, owner, queue, work, control>>

-----------------------------------------------------------------------------
WorkerTakes(from, m, to) ==
    /\ worker = from /\ worker' = to /\ Take("worker", m)
    /\ UNCHANGED <<main, executor, queue, work, control>>

WorkerReleases(from, m, to) ==
    /\ worker = from /\ worker' = to /\ Release(m)
    /\ UNCHANGED <<main, executor, queue, work, control>>

\* schedule: events_cv.wait returns with the lock and a queue that is not empty; a
\* waiting thread may also wake up by itself.
wait ==
    \/ WorkerTakes("starting", "events_mutex", "checking")
    \/ events = <<>> /\ WorkerReleases("checking", "events_mutex", "waiting")
    \/ WorkerTakes("woken", "events_mutex", "checking")

spurious_wakeup ==
    /\ worker = "waiting" /\ worker' = "woken"
    /\ UNCHANGED <<main, executor, owner, queue, work, control>>

\* Mutant: the lock is given back before the task is built.
UnlockToBuild == Release("events_mutex")

\* The lock is kept while the commands of the task are built and flushed.
KeepToBuild == UNCHANGED owner

\* Mutant: the latest event first.
FrontIsLatest == events[Len(events)]

front == events[1]

take_task ==
    /\ worker = "checking" /\ worker' = "building"
    /\ events # <<>> /\ front # SHUTDOWN
    /\ building' = front /\ events' = Tail(events)
    /\ KeepToBuild
    /\ UNCHANGED <<main, executor, next_event, tasks, flushed, control>>

take_shutdown ==
    /\ worker = "checking" /\ worker' = "exited"
    /\ events # <<>> /\ front = SHUTDOWN
    /\ events' = Tail(events)
    /\ Release("events_mutex")
    /\ UNCHANGED <<main, executor, next_event, tasks, work, control>>

\* build_task, with the lookup of the task, then graph_serializer::flush, in which
\* the worker thread is in flush_command.
build_task ==
    \/ WorkerTakes("building", "ggen_buffer_mutex", "looking_up")
    \/ WorkerTakes("looking_up", "task_mutex", "looked_up")
    \/ WorkerReleases("looked_up", "task_mutex", "generating")
    \/ WorkerReleases("generating", "ggen_buffer_mutex", "flushing")

flush ==
    /\ worker = "flushing" /\ worker' = "checking"
    /\ flushed' = Append(flushed, building) /\ building' = 0
    /\ UNCHANGED <<main, executor, owner, queue, control>>

-----------------------------------------------------------------------------
\* has_task and get_task; has_buffer, get_buffer_data and set_buffer_data.
use_runtime ==
    /\ executor = "running" /\ UNCHANGED <<main, worker, queue, work, control>>
    /\ \/ Take("executor", "task_mutex") /\ executor' = "in_task_manager"
       \/ Take("executor", "runtime_buffer_mutex") /\ executor' = "in_buffer"

used_runtime ==
    /\ executor' = "running" /\ UNCHANGED <<main, worker, queue, work, control>>
    /\ \/ executor = "in_task_manager" /\ Release("task_mutex")
       \/ executor = "in_buffer" /\ Release("runtime_buffer_mutex")

\* The executor has reached the SYNC, or has left its loop after SHUTDOWN.
reach_sync ==
    /\ executor = "running" /\ highest_executed_sync_id < sync_sent
    /\ highest_executed_sync_id' = sync_sent
    /\ UNCHANGED <<main, worker, executor, owner, queue, work, sync_id, sync_sent, shutdown_sent>>

leave_loop ==
    /\ executor = "running" /\ shutdown_sent /\ executor' = "exited"
    /\ UNCHANGED <<main, worker, owner, queue, work, control>>

Finished == main = "done" /\ UNCHANGED vars

Next ==
    \/ create_task \/ task_created \/ notify \/ push_event \/ notify_one
    \/ register_buffer \/ sync \/ is_idle \/ sync_sent_to_all \/ sync_return
    \/ shutdown \/ join_worker \/ shutdown_sent_to_all \/ join_executor
    \/ wait \/ spurious_wakeup \/ take_task \/ take_shutdown \/ build_task \/ flush
    \/ use_runtime \/ used_runtime \/ reach_sync \/ leave_loop
    \/ Finished

Spec == Init /\ [][Next]_vars

\* Every thread keeps running, and a thread that waits for a mutex which is free
\* again and again gets it: std::mutex is not fair, but the polling main thread
\* yields between two calls of is_idle.  Main may always go on with more buffers or
\* decide to end; nothing makes it call anything.  The executor comes back to SYNC and
\* SHUTDOWN in every pass of its loop.
MainSteps ==
    \/ task_created \/ notify \/ push_event \/ notify_one
    \/ main # "ready" /\ register_buffer
    \/ is_idle \/ sync_sent_to_all \/ sync_return
    \/ join_worker \/ shutdown_sent_to_all \/ join_executor
WorkerSteps == wait \/ take_task \/ take_shutdown \/ build_task \/ flush

FairSpec ==
    /\ Spec
    /\ SF_vars(MainSteps) /\ SF_vars(WorkerSteps)
    /\ WF_vars(used_runtime) /\ SF_vars(reach_sync) /\ SF_vars(leave_loop)

-----------------------------------------------------------------------------
TypeOK ==
    /\ owner \in [Mutex -> Thread \cup {Free}]
    /\ events \in Seq(0 .. MAX_TASKS) /\ next_event \in 0 .. MAX_TASKS
    /\ tasks \in 0 .. MAX_TASKS
    /\ building \in 0 .. MAX_TASKS /\ flushed \in Seq(1 .. MAX_TASKS)
    /\ sync_id \in 0 .. MAX_SYNCS /\ sync_sent \in 0 .. sync_id
    /\ highest_executed_sync_id \in 0 .. sync_sent
    /\ shutdown_sent \in BOOLEAN

\* runtime::active_flushes has no lock: the worker thread and the main thread are
\* never both in flush_command.
FlushesExclusive ==
    worker = "flushing" => main \notin {"sending_sync", "sending_shutdown"}

\* What sync and shutdown broadcast comes after the commands of every task that was
\* created before.
BroadcastAfterTasks ==
    main \in {"sending_sync", "sending_shutdown"} => Len(flushed) = tasks

\* Tasks are flushed in the order of their creation, each once; the graph generator
\* relies on it for last writers and anti-dependencies.
FlushedInOrder == \A i \in 1 .. Len(flushed) : flushed[i] = i

\* The assertions of schedule (SHUTDOWN is the last event) and of get_task (a task
\* that was announced exists).
AssertionsHold ==
    /\ worker = "exited" => events = <<>>
    /\ building \in 0 .. tasks

\* No wake-up is lost: a sync, which waits until every task is flushed, returns, and
\* a shutdown, which waits for the worker thread, ends.
CallsReturn == (main = "polling" ~> main = "ready") /\ (main = "joining" ~> main = "done")
=============================================================================
