----------------------------- MODULE MCExecutor -----------------------------
(* Programs for the executors, compiled by the operators of GraphGenerator:  *)
(* the commands, their dependencies and the order of their packages are what *)
(* the master flushes for the command groups given.                          *)
EXTENDS Executor, SequencesExt

MCNode == {0, 1}
MCBufferSize == [a |-> 2, b |-> 1]
MCCid == 0 .. 12

M == INSTANCE MCGraphGenerator WITH
    Node <- MCNode, BufferSize <- MCBufferSize, CommandGroup <- {},
    HorizonStep <- 3, MaxTasks <- 0, buffers <- {}, tasks <- <<>>, gg <- <<>>

MCCell == M!AllCells

\* The master after each of the tasks, the state before the first one included.
\* (TLC keeps functions unevaluated; comparing them makes it evaluate them once.)
The(S) == CHOOSE v \in S : v = v
Built(s, t, cg) == The({M!build_task(r, t, cg) : r \in {s}})
Flushed(s, t, cg) == The({M!flush(r, t) : r \in {Built(s, t, cg)}})
States(groups) ==
    LET step(seq, t) == The({Append(q, Flushed(Last(q), t, groups[t])) : q \in {seq}})
    IN  FoldLeft(step, <<M!WithBuffer(M!WithBuffer(M!InitialState, "a"), "b")>>,
                 [t \in DOMAIN groups |-> t])

CompileFrom(limit, ops, groups, states, gg) ==
    LET cids == {c \in DOMAIN gg.cdag.commands : gg.cdag.commands[c].kind # "NOP"}
        cmd(c) == gg.cdag.commands[c]
        pair(c) == IF cmd(c).kind = "PUSH" THEN <<c, cmd(c).peer>> ELSE <<cmd(c).peer, c>>
        package(p) == Package("COMMAND", p.cid, p.deps \cap cids, 0)
        flushed(t) == SubSeq(gg.stream, Len(states[t].stream) + 1, Len(states[t + 1].stream))
        to(t, n) == SelectSeq(flushed(t), LAMBDA p : cmd(p.cid).nid = n)
    IN  [MAX_CONCURRENT_JOBS |-> limit, ops |-> ops,
         command |-> [c \in cids |->
            [kind |-> cmd(c).kind, nid |-> cmd(c).nid, tid |-> cmd(c).tid,
             bid |-> IF cmd(c).cells = {} THEN "" ELSE The(cmd(c).cells)[1],
             transfer |-> IF cmd(c).kind \in {"PUSH", "AWAIT_PUSH"}
                          THEN [cid |-> pair(c)[1], source |-> cmd(pair(c)[1]).nid,
                                target |-> cmd(pair(c)[2]).nid]
                          ELSE <<>>,
             reads |-> [x \in M!ReadsOf(cmd(c), groups) |-> M!LastTaskIn(groups, x, cmd(c).tid)],
             writes |-> M!WritesOf(cmd(c), groups)]],
         flushes |-> [t \in DOMAIN groups |-> [n \in MCNode |->
            [i \in DOMAIN to(t, n) |-> package(to(t, n)[i])]]]]

Compile(limit, ops, groups) ==
    The({CompileFrom(limit, ops, groups, states, Last(states)) : states \in {States(groups)}})

buf(b) == [op |-> "buffer", id |-> b]
tsk(t) == [op |-> "task", id |-> t]
syn(k) == [op |-> "sync", id |-> k]

\* A stencil, one job at a time: each node needs a cell of the other and
\* overwrites what it sends.
StencilProgram == Compile(1, <<buf("a"), tsk(1), tsk(2)>>, <<M!Produce_a, M!Stencil_a>>)

\* One node needs a cell of the other, which overwrites it.
ShiftProgram == Compile(2, <<buf("a"), tsk(1), tsk(2)>>, <<M!Produce_a, M!Shift_a>>)

\* The host of the master node updates what a kernel wrote on another node.
MasterProgram == Compile(2, <<buf("a"), tsk(1), tsk(2), syn(1), tsk(3)>>,
    <<M!Produce_a, M!OnMaster("read_write", {<<"a", 2>>}), M!Produce_a>>)

MCProgram == {StencilProgram, ShiftProgram, MasterProgram}

\* The transfers of these programs.
PushOf(c, n, k) == [cid |-> c, source |-> n, target |-> k]
MCTransfer == {PushOf(6, 1, 0), PushOf(6, 0, 1), PushOf(8, 0, 1), PushOf(8, 1, 0),
               PushOf(10, 0, 1)}

ASSUME AllTransfers ==
    \A p \in MCProgram : \A c \in DOMAIN p.command :
        p.command[c].kind = "PUSH" => p.command[c].transfer \in MCTransfer
=============================================================================
