---------------------------- MODULE CommandGraph ----------------------------
(***************************************************************************)
(* The command graph (CDAG) the master node keeps: include/command_graph.h *)
(* and the intrusive_graph_node its commands derive from.  The graph is a  *)
(* record, and each operation maps a graph to the graph it leaves behind.  *)
(***************************************************************************)
EXTENDS Naturals, FiniteSets, FiniteSetsExt, Functions

CONSTANT Node       \* node ids, 0 is the master

TaskKind == {"COMPUTE", "MASTER_ACCESS"}
Kind == TaskKind \cup {"NOP", "HORIZON", "PUSH", "AWAIT_PUSH"}

(***************************************************************************)
(*   commands   cid -> [kind, nid, tid, cells, peer]; tid is 0 and peer is *)
(*              the cid itself where they mean nothing; the peer of an     *)
(*              AWAIT_PUSH is its source PUSH; cells is the range it moves *)
(*   deps       cid -> the commands it depends on                          *)
(*   true_deps  cid -> those of them that are not anti-dependencies        *)
(*   path       cid -> pseudo_critical_path_length                         *)
(*   fronts     execution_fronts; only nodes with an entry are in DOMAIN   *)
(***************************************************************************)
EmptyGraph ==
    [next_cmd_id |-> 0, commands |-> <<>>, deps |-> <<>>, true_deps |-> <<>>,
     path |-> <<>>, fronts |-> <<>>, max_path |-> 0, flushed |-> {}]

Commands(g) == DOMAIN g.commands

Extend(f, x, y) == [z \in DOMAIN f \cup {x} |-> IF z = x THEN y ELSE f[z]]

FrontOf(g, nid) == IF nid \in DOMAIN g.fronts THEN g.fronts[nid] ELSE {}

\* create<T>: a NOP is born flushed and never enters the execution front.
create(g, cmd) ==
    LET cid == g.next_cmd_id
    IN  [g EXCEPT !.next_cmd_id = cid + 1,
                  !.commands = Extend(@, cid, cmd),
                  !.deps = Extend(@, cid, {}),
                  !.true_deps = Extend(@, cid, {}),
                  !.path = Extend(@, cid, 0),
                  !.fronts = IF cmd.kind = "NOP" THEN @
                             ELSE Extend(@, cmd.nid, FrontOf(g, cmd.nid) \cup {cid}),
                  !.flushed = IF cmd.kind = "NOP" THEN @ \cup {cid} ELSE @]

\* erase, of a command without dependencies and dependents (the assertions of
\* naive_split_transformer, its only caller).
erase(g, cid) ==
    LET rest == Commands(g) \ {cid}
        nid == g.commands[cid].nid
    IN  [g EXCEPT !.commands = Restrict(@, rest),
                  !.deps = Restrict(@, rest),
                  !.true_deps = Restrict(@, rest),
                  !.path = Restrict(@, rest),
                  !.fronts = Extend(@, nid, FrontOf(g, nid) \ {cid})]

\* Mutant: the depender leaves the front too.
FrontAfterDepender(front, cid, dependees) == front \ (dependees \cup {cid})

\* A command with a dependent leaves the execution front.
FrontAfter(front, cid, dependees) == front \ dependees

\* add_dependency, for a set of dependees: one entry per pair of commands,
\* upgraded when a true dependency meets an anti-dependency; only a new entry
\* moves the critical path.
add_dependency(g, cid, dependees, is_anti) ==
    LET new == dependees \ g.deps[cid]
        nid == g.commands[cid].nid
        len == Max({g.path[cid]} \cup {g.path[d] + 1 : d \in new})
    IN  IF dependees = {} THEN g
        ELSE [g EXCEPT !.deps[cid] = @ \cup dependees,
                       !.true_deps[cid] = IF is_anti THEN @ ELSE @ \cup dependees,
                       !.path[cid] = len,
                       !.fronts = Extend(@, nid, FrontAfter(FrontOf(g, nid), cid, dependees)),
                       !.max_path = Max({@, len})]

\* The dependents a command has through true dependencies.
TrueDependents(g, cid) == {d \in Commands(g) : cid \in g.true_deps[d]}

task_commands(g, tid) ==
    {c \in Commands(g) : g.commands[c].kind \in TaskKind /\ g.commands[c].tid = tid}
=============================================================================
