------------------------------ MODULE Executor ------------------------------
(***************************************************************************)
(* The distributed execution of a program: on every node the main thread   *)
(* (tasks, buffers, sync, shutdown) and the executor thread (src/executor, *)
(* src/worker_job), on the master also the scheduler thread that flushes   *)
(* commands, with MPI and the device queues between them (src/runtime.cc). *)
(* Data moves through the buffer transfer managers.                        *)
(***************************************************************************)
EXTENDS BufferTransferManager, Sequences

CONSTANTS
    Cid,                     \* command ids
    Cell,                    \* the elements of all buffers
    Program                  \* the programs considered

(***************************************************************************)
(* A program is                                                            *)
(*   MAX_CONCURRENT_JOBS  how many jobs an executor may have at a time     *)
(*   ops      what every main thread does in turn: [op, id] with op in     *)
(*            "buffer", "task", "sync"; it ends with the shutdown          *)
(*   command  cid -> [kind, nid, tid, bid, transfer, reads, writes]: the   *)
(*            buffer and transfer of a PUSH or AWAIT_PUSH, the version of  *)
(*            each cell that the sequential program would read, and the    *)
(*            cells written; the version of a cell is the task that wrote  *)
(*            it, 0 for the host                                           *)
(*   flushes  task -> node -> the packages sent to the node when the       *)
(*            scheduler processes the task                                 *)
(* and a package is a record [type, cid, deps, sync_id].                   *)
(***************************************************************************)
Package(type, cid, deps, sync_id) ==
    [type |-> type, cid |-> cid, deps |-> deps, sync_id |-> sync_id]

CommandPackage == [type : {"COMMAND"}, cid : Cid, deps : SUBSET Cid, sync_id : {0}]

\* Command d is sent to node n before the i-th package of task t is.
SentBefore(p, d, n, t, i) ==
    \/ \E j \in 1 .. i - 1 : p.flushes[t][n][j].cid = d
    \/ \E u \in 1 .. t - 1 : \E j \in DOMAIN p.flushes[u][n] : p.flushes[u][n][j].cid = d

\* The i-th package of task t for node n is for a command of n, and names commands that
\* were sent to n before.
PackageOK(p, t, n, i) ==
    LET pkg == p.flushes[t][n][i]
    IN  /\ pkg.cid \in DOMAIN p.command /\ p.command[pkg.cid].nid = n
        /\ \A d \in pkg.deps : SentBefore(p, d, n, t, i)

\* What the graph serializer provides (GraphGenerator!DependenciesFlushedFirst and
\* AllFlushed): a package names commands of its node that were sent to it before,
\* and no command is sent twice.
WellFormed(p) ==
    /\ \A c \in DOMAIN p.command : p.command[c].nid \in Node
    /\ p.flushes \in Seq([Node -> Seq(CommandPackage)])
    /\ \A t \in DOMAIN p.flushes, n \in Node : \A i \in DOMAIN p.flushes[t][n] : PackageOK(p, t, n, i)
    /\ \A t, u \in DOMAIN p.flushes, n, m \in Node :
          \A i \in DOMAIN p.flushes[t][n], j \in DOMAIN p.flushes[u][m] :
             p.flushes[t][n][i].cid = p.flushes[u][m][j].cid => t = u /\ n = m /\ i = j

Packages(p) == UNION {UNION {{p.flushes[t][n][i] : i \in DOMAIN p.flushes[t][n]} : n \in Node} :
                         t \in DOMAIN p.flushes}

\* Every execution that respects the dependencies completes d before it starts c.
Closed(p, S) == \A pkg \in Packages(p) : pkg.cid \in S => pkg.deps \subseteq S
Precedes(p, d, c) ==
    d # c /\ \A S \in SUBSET DOMAIN p.command : c \in S /\ Closed(p, S) => d \in S

PushesOf(p, t) == {d \in DOMAIN p.command : p.command[d].kind = "PUSH" /\ p.command[d].transfer = t}

\* Command c leaves version v of cell x behind: a transfer the one that was sent.
Leaves(p, c, x, v) ==
    IF p.command[c].kind = "AWAIT_PUSH"
    THEN \E d \in PushesOf(p, p.command[c].transfer) : v = p.command[d].reads[x]
    ELSE v = p.command[c].tid

\* v is the version of x that the last of the commands W leaves behind.
LatestOf(p, W, x, v) ==
    IF W = {} THEN v = 0
    ELSE \E d \in W : Leaves(p, d, x, v) /\ \A e \in W \ {d} : Precedes(p, e, d)

WritersBefore(p, c, x) ==
    {d \in DOMAIN p.command : /\ p.command[d].nid = p.command[c].nid
                              /\ x \in p.command[d].writes /\ Precedes(p, d, c)}

\* What the commands of each kind access.
CommandsTyped(p) ==
    \A c \in DOMAIN p.command : LET cmd == p.command[c]
        IN  /\ cmd.kind \in {"COMPUTE", "MASTER_ACCESS", "HORIZON", "PUSH", "AWAIT_PUSH"}
            /\ cmd.tid \in Nat /\ cmd.writes \subseteq Cell
            /\ cmd.reads \in [DOMAIN cmd.reads -> Nat] /\ DOMAIN cmd.reads \subseteq Cell
            /\ cmd.kind \in {"HORIZON", "PUSH"} => cmd.writes = {}
            /\ cmd.kind = "MASTER_ACCESS" => cmd.nid = 0

\* Every PUSH has its AWAIT_PUSH, every AWAIT_PUSH its PUSH, and no transfer has two.
TransfersPaired(p) ==
    LET PushKind == {"PUSH", "AWAIT_PUSH"}
    IN  /\ \A c \in DOMAIN p.command : p.command[c].kind \in PushKind =>
              LET cmd == p.command[c]
              IN  /\ cmd.transfer \in Transfer
                  /\ cmd.nid = IF cmd.kind = "PUSH" THEN cmd.transfer.source ELSE cmd.transfer.target
                  /\ \E d \in DOMAIN p.command \ {c} :
                        /\ p.command[d].kind \in PushKind /\ p.command[d].transfer = cmd.transfer
                        /\ cmd.kind = "AWAIT_PUSH" => DOMAIN p.command[d].reads = cmd.writes
        /\ \A c, d \in DOMAIN p.command :
              /\ p.command[c].kind \in PushKind /\ p.command[d].kind = p.command[c].kind
              /\ p.command[d].transfer = p.command[c].transfer
              => c = d

\* GraphGenerator!ConflictsOrdered and ReadsCurrentVersion.
Coherent(p) ==
    /\ \A c, d \in DOMAIN p.command :
          /\ c # d /\ p.command[c].nid = p.command[d].nid
          /\ p.command[c].writes \cap (p.command[d].writes \cup DOMAIN p.command[d].reads) # {}
          => Precedes(p, c, d) \/ Precedes(p, d, c)
    /\ \A c \in DOMAIN p.command : \A x \in DOMAIN p.command[c].reads :
          LatestOf(p, WritersBefore(p, c, x), x, p.command[c].reads[x])

\* The main threads create the tasks that are scheduled, and number their syncs.
OpsNumbered(p) ==
    LET syncs == {i \in DOMAIN p.ops : p.ops[i].op = "sync"}
    IN  /\ Len(p.ops) \in Nat /\ DOMAIN p.ops = 1 .. Len(p.ops)
        /\ \A t \in DOMAIN p.flushes : \E i \in DOMAIN p.ops : p.ops[i] = [op |-> "task", id |-> t]
        /\ \A i \in syncs :
              /\ p.ops[i].id \in Nat \ {0}
              /\ p.ops[i].id > 1 => \E j \in syncs : j < i /\ p.ops[j].id = p.ops[i].id - 1
              /\ \A j \in syncs : p.ops[j].id = p.ops[i].id => i = j

\* Every command is sent to its node when its task is scheduled.
AllSent(p) ==
    \A c \in DOMAIN p.command : LET cmd == p.command[c]
        IN  \E t \in DOMAIN p.flushes :
              /\ \E i \in DOMAIN p.flushes[t][cmd.nid] : p.flushes[t][cmd.nid][i].cid = c
              /\ cmd.tid \in {0, t} /\ (cmd.kind \in {"COMPUTE", "MASTER_ACCESS"} => cmd.tid = t)

\* Only data that a command of the program has produced is pushed, and a task is
\* created after the buffers it accesses.
BuffersFirst(p) ==
    \A c \in DOMAIN p.command : p.command[c].kind = "PUSH" =>
        /\ \E x \in DOMAIN p.command[c].reads : p.command[c].reads[x] # 0
        /\ \A d \in DOMAIN p.command :
              p.command[d].writes \cap DOMAIN p.command[c].reads # {} =>
                  IF p.command[d].kind = "AWAIT_PUSH" THEN p.command[d].bid = p.command[c].bid
                  ELSE \A j \in DOMAIN p.ops :
                          p.ops[j] = [op |-> "task", id |-> p.command[d].tid] =>
                          \E i \in 1 .. j - 1 : p.ops[i] = [op |-> "buffer", id |-> p.command[c].bid]

ASSUME ExecutorAssumption ==
    /\ 0 \in Node /\ IsFiniteSet(Cid)
    /\ \A p \in Program : WellFormed(p) /\ p.MAX_CONCURRENT_JOBS \in Nat \ {0}

ASSUME ProgramAssumption ==
    \A p \in Program :
        /\ CommandsTyped(p) /\ TransfersPaired(p) /\ Coherent(p)
        /\ OpsNumbered(p) /\ AllSent(p) /\ BuffersFirst(p)

VARIABLES
    program,
    pos,                     \* main thread: the operation it is at
    scheduled,               \* scheduler: tasks processed so far
    broadcast,               \* control commands broadcast so far
    inbox,                   \* command messages on their way to a node
    command_queue,           \* commands an executor has received
    phase,                   \* where the loop of an executor is
    barriers,                \* MPI_Barriers an executor has entered
    done,                    \* executors that have taken SHUTDOWN
    syncing_on_id,           \* 0 stands for NOT_SYNCING
    highest_executed_sync_id,
    jobs,                    \* the jobs that exist
    unsatisfied_dependencies,
    dependents,
    running,                 \* jobs that were started, erased ones included
    finished,                \* jobs that are done, erased ones included
    submitted,               \* compute jobs whose kernel was submitted
    complete,                \* kernels the device has completed
    memory,                  \* node -> cell -> version
    payload                  \* transfer -> the versions it carries

main_vars == <<pos, scheduled, broadcast>>
loop_vars == <<command_queue, phase, barriers, done, syncing_on_id, highest_executed_sync_id>>
job_vars == <<jobs, unsatisfied_dependencies, dependents, running, finished, submitted>>
data_vars == <<complete, memory, payload>>
run_vars == <<main_vars, inbox, loop_vars, job_vars, data_vars, btm_vars>>
vars == <<program, run_vars>>

Command(c) == program.command[c]
OfKind(S, kind) == {c \in S : Command(c).kind = kind}
Transfers(S) == {Command(c).transfer : c \in S}
On(n, S) == {c \in S : Command(c).nid = n}

-----------------------------------------------------------------------------
(* Main threads, the scheduler and the control commands. *)

AtOp(n, op) == pos[n] <= Len(program.ops) /\ program.ops[pos[n]].op = op
Passed(n, op, id) == \E i \in 1 .. pos[n] - 1 : program.ops[i] = [op |-> op, id |-> id]

has_task(n, tid) == Passed(n, "task", tid)
has_buffer(n, bid) == Passed(n, "buffer", bid)

\* Create a buffer or a task; on the master this also notifies the scheduler.
create(n) ==
    /\ AtOp(n, "buffer") \/ AtOp(n, "task")
    /\ pos' = [pos EXCEPT ![n] = @ + 1]
    /\ UNCHANGED <<program, scheduled, broadcast, inbox, loop_vars, job_vars, data_vars, btm_vars>>

\* The scheduler thread takes the next task and flushes its commands.
schedule ==
    /\ scheduled + 1 \in DOMAIN program.flushes /\ has_task(0, scheduled + 1)
    /\ scheduled' = scheduled + 1
    /\ inbox' = [n \in Node |-> inbox[n] \o program.flushes[scheduled + 1][n]]
    /\ UNCHANGED <<program, pos, broadcast, loop_vars, job_vars, data_vars, btm_vars>>

is_idle == \A t \in DOMAIN program.flushes : has_task(0, t) => t <= scheduled

broadcast_control_command(pkg) ==
    /\ is_idle
    /\ broadcast' = broadcast + 1
    /\ inbox' = [n \in Node |-> Append(inbox[n], pkg)]
    /\ UNCHANGED <<program, pos, scheduled, loop_vars, job_vars, data_vars, btm_vars>>

\* sync on the master: the command is broadcast once the scheduler is idle.
sync ==
    /\ AtOp(0, "sync") /\ broadcast < program.ops[pos[0]].id
    /\ broadcast_control_command(Package("SYNC", 0, {}, program.ops[pos[0]].id))

\* sync returns once the executor of the node has reached it.
sync_return(n) ==
    /\ AtOp(n, "sync") /\ highest_executed_sync_id[n] >= program.ops[pos[n]].id
    /\ pos' = [pos EXCEPT ![n] = @ + 1]
    /\ UNCHANGED <<program, scheduled, broadcast, inbox, loop_vars, job_vars, data_vars, btm_vars>>

Syncs == {i \in DOMAIN program.ops : program.ops[i].op = "sync"}

\* shutdown on the master: the scheduler thread is joined, which drains its
\* queue, and SHUTDOWN is broadcast.
shutdown ==
    /\ pos[0] = Len(program.ops) + 1 /\ broadcast = Cardinality(Syncs)
    /\ broadcast_control_command(Package("SHUTDOWN", 0, {}, 0))

-----------------------------------------------------------------------------
(* The executor: one pass of its loop polls the transfers, updates the jobs  *)
(* and takes a command.  The last two are one step here: a command that      *)
(* arrives between them might as well have arrived before.                   *)

\* Mutant: the jobs that still run at SHUTDOWN are not waited for.
LoopAgainUntilDone(n) == n \notin done

\* The loop condition of run.
LoopAgain(n) == n \notin done \/ On(n, jobs) # {}

\* Mutant: the barrier does not wait for the jobs.
AtBarrierEarly(n) == syncing_on_id[n] # 0

\* A SYNC leads to an MPI_Barrier once all jobs are done.
AtBarrier(n) == syncing_on_id[n] # 0 /\ On(n, jobs) = {}

enter_barrier(n) ==
    /\ phase[n] = "poll" /\ LoopAgain(n) /\ AtBarrier(n)
    /\ phase' = [phase EXCEPT ![n] = "barrier"]
    /\ barriers' = [barriers EXCEPT ![n] = @ + 1]
    /\ UNCHANGED <<program, main_vars, inbox, command_queue, done, syncing_on_id,
                   highest_executed_sync_id, job_vars, data_vars, btm_vars>>

leave_barrier(n) ==
    /\ phase[n] = "barrier" /\ \A k \in Node : barriers[k] >= barriers[n]
    /\ phase' = [phase EXCEPT ![n] = "poll"]
    /\ highest_executed_sync_id' = [highest_executed_sync_id EXCEPT ![n] = syncing_on_id[n]]
    /\ syncing_on_id' = [syncing_on_id EXCEPT ![n] = 0]
    /\ UNCHANGED <<program, main_vars, inbox, command_queue, barriers, done, job_vars,
                   data_vars, btm_vars>>

exit(n) ==
    /\ phase[n] = "poll" /\ ~LoopAgain(n)
    /\ phase' = [phase EXCEPT ![n] = "exited"]
    /\ UNCHANGED <<program, main_vars, inbox, command_queue, barriers, done, syncing_on_id,
                   highest_executed_sync_id, job_vars, data_vars, btm_vars>>

\* The buffers of the transfers are registered; until they are,
\* write_data_to_buffer spins.
BuffersKnown(n, T) == \A c \in OfKind(DOMAIN program.command, "AWAIT_PUSH") :
                          Command(c).transfer \in T => has_buffer(n, Command(c).bid)

\* The memory of node n with the data of the transfers T written to it.
WithTransfers(m, T) ==
    [x \in Cell |-> IF \E t \in T : x \in DOMAIN payload[t]
                    THEN payload[CHOOSE t \in T : x \in DOMAIN payload[t]][x] ELSE m[x]]

\* Poll the transfers, when r is what MPI reports.
poll_transfers(n, r) ==
    /\ phase[n] = "poll" /\ LoopAgain(n) /\ ~AtBarrier(n)
    /\ BuffersKnown(n, Matched(r))
    /\ poll(r)
    /\ memory' = [memory EXCEPT ![n] = WithTransfers(@, Matched(r))]
    /\ phase' = [phase EXCEPT ![n] = "jobs"]
    /\ UNCHANGED <<program, main_vars, inbox, command_queue, barriers, done, syncing_on_id,
                   highest_executed_sync_id, job_vars, complete, payload>>

\* The jobs of node n that are done are erased, and their dependents counted down.
Ended(n) == On(n, jobs \cap finished)
CountDown(n, c) == Cardinality({d \in Ended(n) : c \in dependents[d]})

\* The jobs that are started in this pass.
Ready(n) == {c \in On(n, jobs) \ running : unsatisfied_dependencies[c] = CountDown(n, c)}

\* Mutant: a job counts as done once its kernel is submitted.
ComputeDoneAtSubmit(c) == c \in submitted

\* The kernel of the job has run.
ComputeDone(c) == c \in complete

\* Mutant: a transfer job is done as soon as it has been started.
TransferDoneAtStart(c, handles) == TRUE

\* The handle of the transfer is complete.
TransferDone(c, handles) == Command(c).transfer \in handles

\* Mutant: a kernel is submitted whether or not the main thread has defined it.
CanSubmitAlways(n, c) == TRUE

\* The main thread of the node may not have reached the task definition yet.
CanSubmit(n, c) == has_task(n, Command(c).tid)

\* The jobs that remain, what they wait for and who waits for them.
Remaining(n) == jobs \ Ended(n)
Unsatisfied(n) == [c \in Cid |-> unsatisfied_dependencies[c] - CountDown(n, c)]
Dependents(n) == [c \in Cid |-> IF c \in Ended(n) THEN {} ELSE dependents[c]]

\* One pass over the jobs.  A job executes when it is started and in each later
\* pass until it is done; PUSHes are started before the others.
update_jobs(n) ==
    LET ready == Ready(n)
        updated == (On(n, jobs \cap running) \ Ended(n)) \cup ready
        pushes == Transfers(OfKind(ready, "PUSH"))
        awaits == Transfers(OfKind(ready, "AWAIT_PUSH"))
        accesses == OfKind(ready, "MASTER_ACCESS")
        written == UNION {Command(c).writes : c \in accesses}
    IN  /\ BuffersKnown(n, AlreadyReceived(awaits))
        /\ running' = running \cup ready
        /\ push(pushes)
        /\ await_push(awaits)
        /\ payload' = [t \in Transfer |->
              IF t \in pushes
              THEN [x \in UNION {DOMAIN Command(c).reads : c \in {d \in OfKind(ready, "PUSH") :
                        Command(d).transfer = t}} |-> memory[n][x]]
              ELSE payload[t]]
        /\ memory' = [memory EXCEPT ![n] = [x \in Cell |->
              IF x \in written
              THEN Command(CHOOSE c \in accesses : x \in Command(c).writes).tid
              ELSE WithTransfers(@, AlreadyReceived(awaits))[x]]]
        /\ submitted' = submitted \cup {c \in OfKind(updated, "COMPUTE") : CanSubmit(n, c)}
        /\ finished' = finished \cup accesses \cup OfKind(updated, "HORIZON")
              \cup {c \in OfKind(updated, "PUSH") : TransferDone(c, push_done)}
              \cup {c \in OfKind(updated, "AWAIT_PUSH") : TransferDone(c, await_done')}
              \cup {c \in OfKind(updated, "COMPUTE") : ComputeDone(c)}

\* Mutant: a dependency that has been started is taken to have completed too.
ExistingWaiting(n, pkg) == pkg.deps \cap On(n, Remaining(n) \ running)

\* create_job: a dependency without a job is assumed to have completed.
Existing(n, pkg) == pkg.deps \cap On(n, Remaining(n))

create_job(n, pkg) ==
    /\ jobs' = Remaining(n) \cup {pkg.cid}
    /\ unsatisfied_dependencies' = [Unsatisfied(n) EXCEPT
                                      ![pkg.cid] = Cardinality(Existing(n, pkg))]
    /\ dependents' = [d \in Cid |-> Dependents(n)[d] \cup
                                      (IF d \in Existing(n, pkg) THEN {pkg.cid} ELSE {})]

create_no_job(n) ==
    /\ jobs' = Remaining(n)
    /\ unsatisfied_dependencies' = Unsatisfied(n)
    /\ dependents' = Dependents(n)

\* Mutant: one job too few.
CanTakeOneFewer(n) ==
    syncing_on_id[n] = 0 /\ Cardinality(On(n, Remaining(n))) + 1 < program.MAX_CONCURRENT_JOBS

CanTake(n) ==
    syncing_on_id[n] = 0 /\ Cardinality(On(n, Remaining(n))) < program.MAX_CONCURRENT_JOBS

\* Take the first command of the queue q, if there is one and room for it.
handle_command(n, q) ==
    IF ~CanTake(n) \/ q = <<>>
    THEN /\ command_queue' = [command_queue EXCEPT ![n] = q]
         /\ create_no_job(n) /\ UNCHANGED <<done, syncing_on_id>>
    ELSE /\ command_queue' = [command_queue EXCEPT ![n] = Tail(q)]
         /\ CASE Head(q).type = "SHUTDOWN" ->
                   done' = done \cup {n} /\ create_no_job(n) /\ UNCHANGED syncing_on_id
              [] Head(q).type = "SYNC" ->
                   /\ syncing_on_id' = [syncing_on_id EXCEPT ![n] = Head(q).sync_id]
                   /\ create_no_job(n) /\ UNCHANGED done
              [] OTHER -> create_job(n, Head(q)) /\ UNCHANGED <<done, syncing_on_id>>

\* The rest of a pass, when the probe for a command message reports arrived.
finish_pass(n, arrived) ==
    /\ phase[n] = "jobs"
    /\ phase' = [phase EXCEPT ![n] = "poll"]
    /\ update_jobs(n)
    /\ inbox' = [inbox EXCEPT ![n] = SubSeq(@, Len(arrived) + 1, Len(@))]
    /\ handle_command(n, command_queue[n] \o arrived)
    /\ UNCHANGED <<program, main_vars, barriers, highest_executed_sync_id, complete>>

\* A command message is received if the probe reports one ...
receive(n) == inbox[n] # <<>> /\ finish_pass(n, <<Head(inbox[n])>>)

\* ... and none if it does not, because there is none or it is still on its way.
receive_nothing(n) == finish_pass(n, <<>>)

-----------------------------------------------------------------------------
\* The device runs a submitted kernel to completion.
run_kernel(c) ==
    /\ complete' = complete \cup {c}
    /\ memory' = [memory EXCEPT ![Command(c).nid] =
                    [x \in Cell |-> IF x \in Command(c).writes THEN Command(c).tid ELSE @[x]]]
    /\ UNCHANGED <<program, main_vars, inbox, loop_vars, job_vars, payload, btm_vars>>

Terminated == \A n \in Node : phase[n] = "exited"

Init ==
    /\ program \in Program
    /\ BTMInit
    /\ pos = [n \in Node |-> 1] /\ scheduled = 0 /\ broadcast = 0
    /\ inbox = [n \in Node |-> <<>>]
    /\ command_queue = [n \in Node |-> <<>>]
    /\ phase = [n \in Node |-> "poll"]
    /\ barriers = [n \in Node |-> 0]
    /\ done = {}
    /\ syncing_on_id = [n \in Node |-> 0]
    /\ highest_executed_sync_id = [n \in Node |-> 0]
    /\ jobs = {} /\ running = {} /\ finished = {} /\ submitted = {} /\ complete = {}
    /\ unsatisfied_dependencies = [c \in Cid |-> 0]
    /\ dependents = [c \in Cid |-> {}]
    /\ memory = [n \in Node |-> [x \in Cell |-> 0]]
    /\ payload = [t \in Transfer |-> <<>>]

MainThread(n) == create(n) \/ sync_return(n)

\* The steps outside the executors.  There are finitely many of them and one that
\* is possible stays so until it is taken: fairness of all of them together is
\* fairness of each thread and device.
Environment ==
    \/ \E n \in Node : MainThread(n)
    \/ schedule \/ sync \/ shutdown
    \/ \E c \in submitted \ complete : run_kernel(c)

ExecutorThread(n) ==
    \/ enter_barrier(n) \/ leave_barrier(n) \/ exit(n)
    \/ \E r \in Reports(n) : poll_transfers(n, r)
    \/ receive(n) \/ receive_nothing(n)

Next ==
    \/ Environment
    \/ \E n \in Node : ExecutorThread(n)
    \/ Terminated /\ UNCHANGED vars

Spec == Init /\ [][Next]_vars

\* Threads run, kernels terminate, and MPI delivers what it accepted: a poll that
\* finds everything arrived is not put off forever.
FairSpec ==
    /\ Spec
    /\ WF_run_vars(Environment)
    /\ \A n \in Node :
          /\ WF_run_vars(enter_barrier(n) \/ leave_barrier(n) \/ exit(n) \/ receive_nothing(n))
          /\ SF_run_vars(receive(n))
          /\ SF_run_vars(\E r \in PromptReports(n) : poll_transfers(n, r))

-----------------------------------------------------------------------------
DepsOf(c) == UNION {pkg.deps : pkg \in {q \in Packages(program) : q.cid = c}}

\* "If job doesn't exist we assume it has already completed": no job is started
\* before all the dependencies its package names are done.
DependenciesRespected == \A c \in running : DepsOf(c) \subseteq finished

\* As long as a kernel runs, its inputs have the versions the sequential program
\* reads: the data has arrived and nobody overwrites it.  So has what a PUSH copied,
\* and what a host access on the master reads when it is about to run.
CommandsSeeCurrentData ==
    /\ \A c \in submitted \ complete : \A x \in DOMAIN Command(c).reads :
          memory[Command(c).nid][x] = Command(c).reads[x]
    /\ \A c \in OfKind(running, "PUSH") : payload[Command(c).transfer] = Command(c).reads
    /\ phase[0] = "jobs" => \A c \in OfKind(Ready(0), "MASTER_ACCESS") :
          \A x \in DOMAIN Command(c).reads : memory[0][x] = Command(c).reads[x]

\* Kernels that are on the device of a node at the same time do not conflict.
NoRaces ==
    \A c, d \in submitted \ complete : c # d /\ Command(c).nid = Command(d).nid =>
        Command(c).writes \cap (Command(d).writes \cup DOMAIN Command(d).reads) = {}

\* get_buffer_data: the buffer of a PUSH is registered on the node that sends it,
\* although its main thread may be far behind the master.
PushedBufferRegistered ==
    \A c \in OfKind(running, "PUSH") : has_buffer(Command(c).nid, Command(c).bid)

\* The tasks that the program creates before its k-th sync.
TasksBefore(k) ==
    {t \in DOMAIN program.flushes : \E i, j \in DOMAIN program.ops :
        i < j /\ program.ops[i] = [op |-> "task", id |-> t]
              /\ program.ops[j] = [op |-> "sync", id |-> k]}

\* When the first executor reports sync k, every command of every earlier task is
\* done on every node, not only on its own.
SyncQuiesces ==
    \A n \in Node, c \in DOMAIN program.command :
        (\E k \in 1 .. highest_executed_sync_id[n] : Command(c).tid \in TasksBefore(k))
        => c \in finished \ jobs

\* When the executors have exited all commands are done and no data is left in
\* the transfer managers or the network.
NothingLeftBehind ==
    Terminated => /\ finished = DOMAIN program.command /\ jobs = {}
                  /\ outgoing_transfers \cup sent \cup incoming_transfers
                       \cup awaiting \cup received = {}

\* "This could potentialy even cause deadlocks": every program runs to its end,
\* through its syncs, whatever the number of concurrent jobs.
EventuallyTerminates == <>Terminated
=============================================================================
