------------------------- MODULE ExecutorDataProofs -------------------------
(***************************************************************************)
(* The executors run a program as if it were sequential: for any nodes,    *)
(* programs, numbers of jobs and interleavings, every command sees the     *)
(* versions of its data that the sequential program would, kernels on a    *)
(* device do not conflict, and the buffers that are sent are registered.   *)
(***************************************************************************)
EXTENDS ExecutorProofs

\* The jobs that may be running: their dependencies are done and they are not.
Active == {c \in Taken \ finished : DepsOf(c) \subseteq finished}

\* The commands whose writes are in memory: kernels that have run, accesses of the master and
\* transfers whose data was written to the buffer.
Effective == complete \cup OfKind(running, "MASTER_ACCESS")
                \cup {c \in OfKind(running, "AWAIT_PUSH") : Command(c).transfer \in await_done}

Writers(n, x, S) == {c \in On(n, S) : x \in Command(c).writes}

\* Memory w is memory m after the jobs D have written to it.
WrittenBy(D, m, w) ==
    \A x \in Cell : \/ \E d \in D : x \in Command(d).writes /\ Leaves(program, d, x, w[x])
                    \/ (\A d \in D : x \notin Command(d).writes) /\ w[x] = m[x]

\* Each cell of a node has the version that the last of those commands left there.
MemoryCurrent ==
    \A n \in Node, x \in Cell : LatestOf(program, Writers(n, x, Effective), x, memory[n][x])

PayloadCurrent ==
    \A c \in OfKind(running, "PUSH") : payload[Command(c).transfer] = Command(c).reads

\* The transfers under way are those of the jobs, and the data of each is in one place.
TransfersKept ==
    /\ Pushed = Transfers(OfKind(running, "PUSH"))
    /\ Awaited = Transfers(OfKind(running, "AWAIT_PUSH"))
    /\ sent \cup incoming_transfers \cup received \cup await_done \subseteq Pushed
    /\ sent \cap (incoming_transfers \cup received \cup await_done) = {}
    /\ incoming_transfers \cap (received \cup await_done) = {}
    /\ received \cap await_done = {} /\ awaiting \cap await_done = {}
    /\ outgoing_transfers \cap push_done = {}

\* A job that is done has done its work, and an access of the master is done at once.
JobsTrue ==
    /\ Transfers(OfKind(finished, "PUSH")) \subseteq push_done
    /\ Transfers(OfKind(finished, "AWAIT_PUSH")) \subseteq await_done
    /\ OfKind(finished, "COMPUTE") \subseteq complete
    /\ OfKind(running, "MASTER_ACCESS") \subseteq finished

\* The main threads have created what is scheduled, submitted and written.
CreatedFirst ==
    /\ \A n \in Node : pos[n] <= Len(program.ops) + 1
    /\ \A t \in 1 .. scheduled : has_task(0, t)
    /\ \A c \in submitted : has_task(Command(c).nid, Command(c).tid)
    /\ \A c \in OfKind(running, "AWAIT_PUSH") :
          Command(c).transfer \in await_done => has_buffer(Command(c).nid, Command(c).bid)

DataTypeOK ==
    /\ memory \in [Node -> [Cell -> Nat]] /\ payload = [t \in Transfer |-> payload[t]]
    /\ complete \subseteq submitted /\ submitted \subseteq OfKind(running, "COMPUTE")

DataInv ==
    /\ DataTypeOK /\ TransfersKept /\ JobsTrue /\ MemoryCurrent /\ PayloadCurrent /\ CreatedFirst

-----------------------------------------------------------------------------
(* The order of the commands. *)

\* What the graph generator guarantees of the program that runs.
LEMMA Guaranteed ==
    ASSUME TypeOK
    PROVE  /\ CommandsTyped(program) /\ TransfersPaired(program) /\ Coherent(program)
           /\ OpsNumbered(program) /\ AllSent(program) /\ BuffersFirst(program)
BY ProgramAssumption DEF TypeOK

\* The packages of the program are those at some place of a flush to some node.
LEMMA PackagePlace ==
    ASSUME NEW p, NEW pkg
    PROVE  pkg \in Packages(p) <=> \E t \in DOMAIN p.flushes, n \in Node :
              \E i \in DOMAIN p.flushes[t][n] : pkg = p.flushes[t][n][i]
<1> DEFINE f == p.flushes
<1>1. ASSUME pkg \in Packages(p)
      PROVE  \E t \in DOMAIN f, n \in Node : \E i \in DOMAIN f[t][n] : pkg = f[t][n][i]
    BY <1>1 DEF Packages
<1>2. ASSUME NEW t \in DOMAIN f, NEW n \in Node, NEW i \in DOMAIN f[t][n], pkg = f[t][n][i]
      PROVE  pkg \in Packages(p)
  <2>1. pkg \in {f[t][n][j] : j \in DOMAIN f[t][n]}
      BY <1>2
  <2> QED BY <2>1 DEF Packages
<1> QED BY <1>1, <1>2, ZenonT(60)

\* The places of a flush are numbered.
LEMMA Places ==
    ASSUME TypeOK, NEW t \in DOMAIN program.flushes, NEW n \in Node
    PROVE  /\ t \in Nat /\ program.flushes[t][n] \in Seq(CommandPackage)
           /\ \A i \in DOMAIN program.flushes[t][n] : i \in Nat
           /\ DOMAIN program.flushes = 1 .. Len(program.flushes) /\ Len(program.flushes) \in Nat
<1>1. program.flushes \in Seq([Node -> Seq(CommandPackage)])
    BY FlushTypes
<1>2. DOMAIN program.flushes = 1 .. Len(program.flushes) /\ Len(program.flushes) \in Nat
    BY <1>1
<1>3. t \in Nat /\ program.flushes[t] \in [Node -> Seq(CommandPackage)]
    BY <1>1
<1> QED BY <1>2, <1>3

\* A command that was taken is one of the program, and was flushed to its node.
LEMMA TakenPlace ==
    ASSUME IInv, NEW c \in Taken
    PROVE  \E n \in Node : \E t \in 1 .. scheduled : \E i \in DOMAIN program.flushes[t][n] :
              /\ t \in DOMAIN program.flushes /\ c = program.flushes[t][n][i].cid
              /\ c \in DOMAIN program.command /\ Command(c).nid = n
<1>1. TypeOK /\ StreamsInOrder
    BY DEF IInv
<1>2. PICK n \in Node : \E p \in SentTo(n) : p.cid = c
    BY <1>1 DEF StreamsInOrder
<1>3. PICK p \in SentTo(n) : p.cid = c
    BY <1>2
<1>4. PICK t \in 1 .. scheduled : p \in Elements(program.flushes[t][n])
    BY <1>3 DEF SentTo
<1>5. PICK i \in DOMAIN program.flushes[t][n] : p = program.flushes[t][n][i]
    BY <1>4 DEF Elements
<1>6. t \in DOMAIN program.flushes
    BY <1>1, FlushTypes
<1>7. c \in DOMAIN program.command /\ Command(c).nid = n
  <2>1. WellFormed(program)
      BY <1>1, FlushTypes
  <2>2. c \in DOMAIN program.command
      BY <1>3, <1>5, <1>6, <2>1, ZenonT(60) DEF WellFormed, PackageOK
  <2> QED BY <1>1, <1>3, <1>5, <1>6, <2>2, FlushDependencies, ZenonT(60)
<1> QED BY <1>3, <1>5, <1>6, <1>7, ZenonT(60)

\* What precedes a command whose dependencies are done is done.
LEMMA FinishedFirst ==
    ASSUME IInv, NEW c \in Taken, DepsOf(c) \subseteq finished, NEW d, Precedes(program, d, c)
    PROVE  d \in finished
<1>1. TypeOK /\ DependenciesRespected
    BY DEF IInv
<1>2. PICK S : S = finished \cup {c}
    BY Zenon
<1>3. finished \subseteq Taken /\ finished \subseteq running
    BY <1>1 DEF TypeOK
<1>4. S \in SUBSET DOMAIN program.command
    BY <1>2, <1>3, TakenPlace, ZenonT(60)
<1>5. Closed(program, S)
  <2>1. SUFFICES ASSUME NEW pkg \in Packages(program), pkg.cid \in S PROVE pkg.deps \subseteq S
      BY DEF Closed
  <2>2. pkg.deps \subseteq DepsOf(pkg.cid)
      BY DEF DepsOf
  <2>3. DepsOf(pkg.cid) \subseteq finished
      BY <1>1, <1>2, <1>3, <2>1 DEF DependenciesRespected
  <2> QED BY <1>2, <2>2, <2>3
<1>6. d # c /\ d \in S
    BY <1>2, <1>4, <1>5 DEF Precedes
<1> QED BY <1>2, <1>6

\* The order in which a node gets its commands: i-th of task t, not before j-th of task u.
Until(u, j, t, i) == u < t \/ (u = t /\ j <= i)

LEMMA FlushedAtTypes ==
    ASSUME TypeOK, NEW c, NEW t, NEW n, NEW i, FlushedAt(c, t, n, i)
    PROVE  t \in Nat /\ n \in Node /\ i \in Nat /\ c \in DOMAIN program.command
<1>1. WellFormed(program)
    BY FlushTypes, ZenonT(60)
<1>2. c \in DOMAIN program.command
    BY <1>1, ZenonT(60) DEF WellFormed, PackageOK, FlushedAt
<1> QED BY <1>2, Places, ZenonT(60) DEF FlushedAt

LEMMA TakenAt ==
    ASSUME IInv, NEW c \in Taken
    PROVE  \E t, n, i : FlushedAt(c, t, n, i) /\ t \in 1 .. scheduled
<1>1. PICK n \in Node, t \in 1 .. scheduled : \E i \in DOMAIN program.flushes[t][n] :
             t \in DOMAIN program.flushes /\ c = program.flushes[t][n][i].cid
    BY TakenPlace
<1>2. PICK i \in DOMAIN program.flushes[t][n] :
             t \in DOMAIN program.flushes /\ c = program.flushes[t][n][i].cid
    BY <1>1, ZenonT(60)
<1> QED BY <1>2, ZenonT(60) DEF FlushedAt

\* What a package names was flushed to its node before.
LEMMA DependsOnFlushed ==
    ASSUME TypeOK, NEW c, NEW t, NEW n, NEW i, FlushedAt(c, t, n, i),
           NEW e \in program.flushes[t][n][i].deps
    PROVE  \E u, j : FlushedAt(e, u, n, j) /\ Until(u, j, t, i)
<1> DEFINE f == program.flushes
<1>1. t \in DOMAIN f /\ n \in Node /\ i \in DOMAIN f[t][n]
    BY ZenonT(60) DEF FlushedAt
<1>2. /\ t \in Nat /\ i \in Nat /\ DOMAIN f = 1 .. Len(f) /\ Len(f) \in Nat
      /\ f[t][n] \in Seq(CommandPackage)
    BY <1>1, Places, ZenonT(60)
<1>3. \/ \E j \in 1 .. i - 1 : f[t][n][j].cid = e
      \/ \E u \in 1 .. t - 1 : \E j \in DOMAIN f[u][n] : f[u][n][j].cid = e
  <2>1. NamesEarlier(t, n, i)
      BY <1>1, FlushDependencies, ZenonT(60)
  <2> QED BY <2>1, ZenonT(60) DEF NamesEarlier
<1>4. ASSUME NEW j \in 1 .. i - 1, f[t][n][j].cid = e
      PROVE  FlushedAt(e, t, n, j) /\ Until(t, j, t, i)
  <2>1. j <= i
      BY <1>2
  <2>2. j \in DOMAIN f[t][n]
    <3> HIDE DEF f
    <3> QED BY <1>1, <1>2
  <2> QED BY <1>1, <1>4, <2>1, <2>2, ZenonT(60) DEF FlushedAt, Until
<1>5. ASSUME NEW u \in 1 .. t - 1, NEW j \in DOMAIN f[u][n], f[u][n][j].cid = e
      PROVE  FlushedAt(e, u, n, j) /\ Until(u, j, t, i)
  <2>1. u \in DOMAIN f /\ u < t
    <3> HIDE DEF f
    <3> QED BY <1>1, <1>2
  <2> QED BY <1>1, <1>5, <2>1, ZenonT(60) DEF FlushedAt, Until
<1> HIDE DEF f
<1> QED BY <1>3, <1>4, <1>5, ZenonT(60)

LEMMA UntilTransitive ==
    ASSUME NEW v \in Nat, NEW k \in Nat, NEW u \in Nat, NEW j \in Nat, NEW t \in Nat, NEW i \in Nat,
           Until(v, k, u, j), Until(u, j, t, i)
    PROVE  Until(v, k, t, i)
BY DEF Until

\* What precedes a command was flushed to its node before it.
LEMMA PrecedesPlace ==
    ASSUME IInv, NEW a \in Taken, NEW b, Precedes(program, b, a),
           NEW t, NEW n, NEW i, FlushedAt(a, t, n, i)
    PROVE  \E u, j : FlushedAt(b, u, n, j) /\ Until(u, j, t, i) /\ b # a
<1>1. TypeOK
    BY ZenonT(60) DEF IInv
<1>2. t \in Nat /\ n \in Node /\ i \in Nat /\ a \in DOMAIN program.command
    BY <1>1, FlushedAtTypes, ZenonT(60)
<1> DEFINE S == {e \in DOMAIN program.command : \E u, j : FlushedAt(e, u, n, j) /\ Until(u, j, t, i)}
<1>3. a \in S
  <2>1. Until(t, i, t, i)
      BY <1>2 DEF Until
  <2> QED BY <1>2, <2>1, ZenonT(60)
<1>4. ASSUME NEW pkg \in Packages(program), pkg.cid \in S, NEW e \in pkg.deps PROVE e \in S
  <2>1. PICK u, j : FlushedAt(pkg.cid, u, n, j) /\ Until(u, j, t, i)
      BY <1>4, ZenonT(60)
  <2>2. PICK v \in DOMAIN program.flushes, l \in Node : \E k \in DOMAIN program.flushes[v][l] :
               pkg = program.flushes[v][l][k]
      BY PackagePlace
  <2>3. PICK k \in DOMAIN program.flushes[v][l] : pkg = program.flushes[v][l][k]
      BY <2>2, ZenonT(60)
  <2>4. FlushedAt(pkg.cid, v, l, k)
      BY <2>3, ZenonT(60) DEF FlushedAt
  <2>5. v = u /\ l = n /\ k = j
      BY <1>1, <2>1, <2>4, FlushedAtOnce, ZenonT(60)
  <2>6. e \in program.flushes[u][n][j].deps
      BY <2>3, <2>5, ZenonT(60)
  <2>7. PICK w, g : FlushedAt(e, w, n, g) /\ Until(w, g, u, j)
      BY <1>1, <2>1, <2>6, DependsOnFlushed, ZenonT(60)
  <2>8. u \in Nat /\ j \in Nat /\ w \in Nat /\ g \in Nat /\ e \in DOMAIN program.command
      BY <1>1, <2>1, <2>7, FlushedAtTypes, ZenonT(60)
  <2>9. Until(w, g, t, i)
      BY <1>2, <2>1, <2>7, <2>8, UntilTransitive, ZenonT(60)
  <2> QED BY <2>7, <2>8, <2>9, ZenonT(60)
<1>5. S \in SUBSET DOMAIN program.command /\ Closed(program, S)
    BY <1>4, ZenonT(60) DEF Closed
<1>6. b \in S /\ b # a
  <2> HIDE DEF S
  <2> QED BY <1>3, <1>5, ZenonT(60) DEF Precedes
<1> QED BY <1>6, ZenonT(60)

\* Commands do not precede each other: a package names only commands flushed before it.
LEMMA NotBoth ==
    ASSUME IInv, NEW c \in Taken, NEW d \in Taken, Precedes(program, c, d)
    PROVE  ~Precedes(program, d, c)
<1>1. SUFFICES ASSUME Precedes(program, d, c) PROVE FALSE
    OBVIOUS
<1>2. TypeOK
    BY ZenonT(60) DEF IInv
<1>3. PICK t, n, i : FlushedAt(c, t, n, i)
    BY TakenAt, ZenonT(60)
<1>4. PICK u, j : FlushedAt(d, u, n, j) /\ Until(u, j, t, i) /\ d # c
    BY <1>1, <1>3, PrecedesPlace, ZenonT(60)
<1>5. PICK v, k : FlushedAt(c, v, n, k) /\ Until(v, k, u, j)
    BY <1>4, PrecedesPlace, ZenonT(60)
<1>6. v = t /\ k = i
    BY <1>2, <1>3, <1>5, FlushedAtOnce, ZenonT(60)
<1>7. t \in Nat /\ i \in Nat /\ u \in Nat /\ j \in Nat
    BY <1>2, <1>3, <1>4, FlushedAtTypes, ZenonT(60)
<1>8. u = t /\ j = i
    BY <1>4, <1>5, <1>6, <1>7 DEF Until
<1> QED BY <1>3, <1>4, <1>8, ZenonT(60) DEF FlushedAt

\* Of two jobs that may be running none precedes the other, so they do not conflict.
LEMMA NoConflict ==
    ASSUME IInv, NEW c \in Active, NEW d \in Active, c # d, Command(c).nid = Command(d).nid
    PROVE  Command(c).writes \cap (Command(d).writes \cup DOMAIN Command(d).reads) = {}
<1>1. c \in DOMAIN program.command /\ d \in DOMAIN program.command
    BY TakenPlace DEF Active
<1>2. ~Precedes(program, c, d) /\ ~Precedes(program, d, c)
    BY FinishedFirst DEF Active
<1>3. Coherent(program)
    BY Guaranteed DEF IInv
<1> QED BY <1>1, <1>2, <1>3, ZenonT(60) DEF Coherent, Command

\* What has been started and conflicts with a job that may be running precedes it.
LEMMA StartedBefore ==
    ASSUME IInv, NEW c \in Active, NEW e \in running, e # c, Command(e).nid = Command(c).nid,
           Command(e).writes \cap (Command(c).writes \cup DOMAIN Command(c).reads) # {}
    PROVE  Precedes(program, e, c)
<1>1. e \in Taken /\ DepsOf(e) \subseteq finished
    BY DEF IInv, TypeOK, DependenciesRespected
<1>2. c \in DOMAIN program.command /\ e \in DOMAIN program.command
    BY <1>1, TakenPlace, ZenonT(60) DEF Active
<1>3. ~Precedes(program, c, e)
    BY <1>1, FinishedFirst DEF Active
<1>4. Coherent(program)
    BY Guaranteed DEF IInv
<1> QED BY <1>2, <1>3, <1>4, ZenonT(60) DEF Coherent, Command

\* A command leaves one version of a cell behind.
LEMMA LeavesOne ==
    ASSUME TypeOK, NEW c, NEW x, NEW v, NEW w, Leaves(program, c, x, v), Leaves(program, c, x, w)
    PROVE  v = w
<1>1. CASE program.command[c].kind = "AWAIT_PUSH"
  <2>1. PICK d \in PushesOf(program, program.command[c].transfer) : v = program.command[d].reads[x]
      BY <1>1 DEF Leaves
  <2>2. PICK e \in PushesOf(program, program.command[c].transfer) : w = program.command[e].reads[x]
      BY <1>1 DEF Leaves
  <2>3. d = e
    <3>1. TransfersPaired(program)
        BY Guaranteed
    <3> QED BY <3>1, ZenonT(60) DEF TransfersPaired, PushesOf
  <2> QED BY <2>1, <2>2, <2>3, ZenonT(60)
<1>2. CASE program.command[c].kind # "AWAIT_PUSH"
    BY <1>2 DEF Leaves
<1> QED BY <1>1, <1>2

\* The version that the last of some commands leaves behind is unique.
LEMMA LatestOne ==
    ASSUME IInv, NEW W \in SUBSET Taken, NEW x, NEW v, NEW w,
           LatestOf(program, W, x, v), LatestOf(program, W, x, w)
    PROVE  v = w
<1>1. CASE W = {}
    BY <1>1 DEF LatestOf
<1>2. CASE W # {}
  <2>1. PICK d \in W : Leaves(program, d, x, v) /\ \A e \in W \ {d} : Precedes(program, e, d)
      BY <1>2 DEF LatestOf
  <2>2. PICK e \in W : Leaves(program, e, x, w) /\ \A b \in W \ {e} : Precedes(program, b, e)
      BY <1>2 DEF LatestOf
  <2>3. d = e
    <3>1. SUFFICES ASSUME d # e PROVE FALSE
        OBVIOUS
    <3>2. Precedes(program, d, e) /\ Precedes(program, e, d)
        BY <2>1, <2>2, <3>1
    <3> QED BY <3>2, NotBoth
  <2> QED BY <2>1, <2>2, <2>3, LeavesOne DEF IInv
<1> QED BY <1>1, <1>2

-----------------------------------------------------------------------------
(* The contents of memory. *)

\* Commands that are done are in memory, and those in memory have been started.
LEMMA EffectiveJobs ==
    ASSUME IInv, DataInv
    PROVE  /\ Effective \subseteq running
           /\ \A c \in finished : Command(c).writes # {} => c \in Effective
<1>1. complete \subseteq running
    BY DEF DataInv, DataTypeOK, OfKind
<1>2. Effective \subseteq running
    BY <1>1 DEF Effective, OfKind
<1>3. ASSUME NEW c \in finished, Command(c).writes # {} PROVE c \in Effective
  <2>1. c \in running /\ c \in DOMAIN program.command
      BY TakenPlace, ZenonT(60) DEF IInv, TypeOK, Taken
  <2>2. CommandsTyped(program)
      BY Guaranteed DEF IInv
  <2>3. Command(c).kind \in {"COMPUTE", "MASTER_ACCESS", "AWAIT_PUSH"}
      BY <1>3, <2>1, <2>2, ZenonT(60) DEF CommandsTyped, Command
  <2>4. JobsTrue
      BY DEF DataInv
  <2>5. CASE Command(c).kind = "COMPUTE"
      BY <2>4, <2>5 DEF JobsTrue, OfKind, Effective
  <2>6. CASE Command(c).kind = "MASTER_ACCESS"
      BY <2>1, <2>6 DEF OfKind, Effective
  <2>7. CASE Command(c).kind = "AWAIT_PUSH"
      BY <2>1, <2>4, <2>7 DEF JobsTrue, OfKind, Effective, Transfers
  <2> QED BY <2>3, <2>5, <2>6, <2>7
<1> QED BY <1>2, <1>3

\* A job that may be running and has not written yet finds the versions it is to read.
LEMMA ReadsCurrent ==
    ASSUME IInv, DataInv, NEW c \in Active \ Effective, NEW x \in DOMAIN Command(c).reads
    PROVE  memory[Command(c).nid][x] = Command(c).reads[x]
<1>1. PICK n : n = Command(c).nid
    OBVIOUS
<1>2. c \in DOMAIN program.command /\ n \in Node
    BY <1>1, TakenPlace, ZenonT(60) DEF Active
<1>3. x \in Cell
  <2>1. CommandsTyped(program)
      BY Guaranteed DEF IInv
  <2> QED BY <1>2, <2>1, ZenonT(60) DEF CommandsTyped, Command
<1>4. PICK W : W = Writers(n, x, Effective)
    OBVIOUS
<1>5. W \subseteq running /\ running \subseteq Taken
    BY <1>4, EffectiveJobs DEF Writers, On, IInv, TypeOK
<1>6. W = WritersBefore(program, c, x)
  <2>1. ASSUME NEW d \in W PROVE d \in WritersBefore(program, c, x)
    <3>1. d \in DOMAIN program.command
        BY <1>5, TakenPlace, ZenonT(60)
    <3>2. d # c /\ Command(d).nid = n /\ x \in Command(d).writes
        BY <1>4 DEF Writers, On
    <3>3. Precedes(program, d, c)
        BY <1>1, <1>5, <3>2, StartedBefore
    <3> QED BY <1>1, <3>1, <3>2, <3>3, ZenonT(60) DEF WritersBefore, Command
  <2>2. ASSUME NEW d \in WritersBefore(program, c, x) PROVE d \in W
    <3>1. Command(d).nid = n /\ x \in Command(d).writes /\ Precedes(program, d, c)
        BY <1>1 DEF WritersBefore, Command
    <3>2. d \in finished
        BY <3>1, FinishedFirst DEF Active
    <3>3. d \in Effective
        BY <3>1, <3>2, EffectiveJobs
    <3> QED BY <1>4, <3>1, <3>3 DEF Writers, On
  <2> QED BY <2>1, <2>2
<1>7. LatestOf(program, W, x, memory[n][x])
    BY <1>2, <1>3, <1>4 DEF DataInv, MemoryCurrent
<1>8. LatestOf(program, W, x, Command(c).reads[x])
  <2>1. Coherent(program)
      BY Guaranteed DEF IInv
  <2> QED BY <1>2, <1>6, <2>1, ZenonT(60) DEF Coherent, Command
<1> QED BY <1>1, <1>5, <1>7, <1>8, LatestOne, ZenonT(60)

\* When the jobs D of a node write to its memory, each cell has the version of the last writer.
LEMMA MemoryStep ==
    ASSUME IInv, DataInv, NEW n \in Node, NEW D \in SUBSET On(n, Active), NEW x \in Cell, NEW v,
           \/ \E d \in D : x \in Command(d).writes /\ Leaves(program, d, x, v)
           \/ (\A d \in D : x \notin Command(d).writes) /\ v = memory[n][x]
    PROVE  LatestOf(program, Writers(n, x, Effective \cup D), x, v)
<1>1. PICK W : W = Writers(n, x, Effective)
    OBVIOUS
<1>2. PICK V : V = Writers(n, x, Effective \cup D)
    OBVIOUS
<1>3. CASE (\A d \in D : x \notin Command(d).writes) /\ v = memory[n][x]
  <2>1. V = W
      BY <1>1, <1>2, <1>3 DEF Writers, On
  <2> QED BY <1>1, <1>2, <1>3, <2>1, ZenonT(60) DEF DataInv, MemoryCurrent
<1>4. ASSUME NEW d \in D, x \in Command(d).writes, Leaves(program, d, x, v)
      PROVE  LatestOf(program, V, x, v)
  <2>1. d \in V /\ d \in Active /\ Command(d).nid = n
      BY <1>2, <1>4 DEF Writers, On
  <2>2. ASSUME NEW e \in V \ {d} PROVE Precedes(program, e, d)
    <3>1. Command(e).nid = n /\ x \in Command(e).writes /\ e \in Effective \cup D
        BY <1>2 DEF Writers, On
    <3>2. e \notin D
      <4>1. SUFFICES ASSUME e \in D PROVE FALSE
          OBVIOUS
      <4>2. e \in Active
          BY <4>1 DEF On
      <4>3. Command(d).writes \cap (Command(e).writes \cup DOMAIN Command(e).reads) = {}
          BY <2>1, <2>2, <3>1, <4>2, NoConflict, ZenonT(60)
      <4> QED BY <1>4, <3>1, <4>3
    <3>3. e \in running
        BY <3>1, <3>2, EffectiveJobs
    <3> QED BY <1>4, <2>1, <2>2, <3>1, <3>3, StartedBefore, ZenonT(60)
  <2> QED BY <1>4, <2>1, <2>2 DEF LatestOf
<1> QED BY <1>2, <1>3, <1>4

\* The jobs D of node n write to its memory, which becomes m.
LEMMA MemoryChange ==
    ASSUME IInv, DataInv, program' = program, NEW n \in Node, NEW D \in SUBSET On(n, Active),
           NEW m, m \in [Cell -> Nat], memory' = [memory EXCEPT ![n] = m],
           Effective' = Effective \cup D, WrittenBy(D, memory[n], m)
    PROVE  MemoryCurrent' /\ memory' \in [Node -> [Cell -> Nat]]
<1>1. memory \in [Node -> [Cell -> Nat]]
    BY DEF DataInv, DataTypeOK
<1>2. memory' \in [Node -> [Cell -> Nat]]
    BY <1>1
<1>3. ASSUME NEW k \in Node, NEW x \in Cell
      PROVE  LatestOf(program, Writers(k, x, Effective \cup D), x, memory'[k][x])
  <2>1. CASE k = n
    <3>1. memory'[k][x] = m[x]
        BY <1>1, <2>1
    <3> QED BY <2>1, <3>1, MemoryStep, ZenonT(60) DEF WrittenBy
  <2>2. CASE k # n
    <3>1. memory'[k][x] = memory[k][x]
        BY <1>1, <2>2
    <3>2. Writers(k, x, Effective \cup D) = Writers(k, x, Effective)
        BY <2>2 DEF Writers, On
    <3> QED BY <3>1, <3>2 DEF DataInv, MemoryCurrent
  <2> QED BY <2>1, <2>2
<1>4. ASSUME NEW k \in Node, NEW x \in Cell
      PROVE  Writers(k, x, Effective)' = Writers(k, x, Effective \cup D)
    BY DEF Writers, On, Command
<1>5. \A k \in Node, x \in Cell : LatestOf(program', Writers(k, x, Effective)', x, memory'[k][x])
    BY <1>3, <1>4, Zenon
<1> QED BY <1>2, <1>5, Zenon DEF MemoryCurrent

\* Of the PUSHes, and of the AWAIT_PUSHes, each has a transfer of its own.
LEMMA OneTransfer ==
    ASSUME TypeOK, NEW c \in DOMAIN program.command, NEW d \in DOMAIN program.command,
           Command(c).kind \in {"PUSH", "AWAIT_PUSH"}, Command(d).kind = Command(c).kind,
           Command(d).transfer = Command(c).transfer
    PROVE  c = d
<1>1. TransfersPaired(program)
    BY Guaranteed
<1> QED BY <1>1, ZenonT(60) DEF TransfersPaired, Command

\* A transfer is from the node of its PUSH to the node of its AWAIT_PUSH.
LEMMA TransferEnds ==
    ASSUME TypeOK, NEW c \in DOMAIN program.command, Command(c).kind \in {"PUSH", "AWAIT_PUSH"}
    PROVE  /\ Command(c).transfer \in Transfer
           /\ Command(c).kind = "PUSH" => Command(c).nid = Command(c).transfer.source
           /\ Command(c).kind = "AWAIT_PUSH" => Command(c).nid = Command(c).transfer.target
<1>1. TransfersPaired(program)
    BY Guaranteed
<1> QED BY <1>1, ZenonT(60) DEF TransfersPaired, Command

\* A transfer that was pushed carries what its AWAIT_PUSH is to write.
LEMMA Carried ==
    ASSUME IInv, DataInv, NEW c \in DOMAIN program.command, Command(c).kind = "AWAIT_PUSH",
           Command(c).transfer \in Pushed
    PROVE  /\ DOMAIN payload[Command(c).transfer] = Command(c).writes
           /\ \A x \in Command(c).writes : /\ payload[Command(c).transfer][x] \in Nat
                                           /\ Leaves(program, c, x, payload[Command(c).transfer][x])
<1>1. TypeOK
    BY DEF IInv
<1>2. PICK t : t = Command(c).transfer
    OBVIOUS
<1>3. PICK d \in OfKind(running, "PUSH") : Command(d).transfer = t
    BY <1>2 DEF DataInv, TransfersKept, Transfers
<1>4. payload[t] = Command(d).reads /\ Command(d).kind = "PUSH"
    BY <1>3 DEF DataInv, PayloadCurrent, OfKind
<1>5. d \in DOMAIN program.command
    BY <1>1, <1>3, TakenPlace, ZenonT(60) DEF OfKind, TypeOK
<1>6. DOMAIN Command(d).reads = Command(c).writes
  <2>1. TransfersPaired(program)
      BY <1>1, Guaranteed
  <2>2. PICK e \in DOMAIN program.command \ {c} :
           /\ Command(e).kind \in {"PUSH", "AWAIT_PUSH"} /\ Command(e).transfer = t
           /\ DOMAIN Command(e).reads = Command(c).writes
      BY <1>2, <2>1, ZenonT(60) DEF TransfersPaired, Command
  <2>3. Command(e).kind = "PUSH"
      BY <1>1, <1>2, <2>2, OneTransfer, ZenonT(60)
  <2>4. e = d
      BY <1>1, <1>3, <1>4, <1>5, <2>2, <2>3, OneTransfer, ZenonT(60)
  <2> QED BY <2>2, <2>4
<1>7. Command(d).reads \in [DOMAIN Command(d).reads -> Nat]
  <2>1. CommandsTyped(program)
      BY <1>1, Guaranteed
  <2> QED BY <1>5, <2>1, ZenonT(60) DEF CommandsTyped, Command
<1>8. d \in PushesOf(program, t)
    BY <1>3, <1>4, <1>5, ZenonT(60) DEF PushesOf, Command
<1>9. \A x : Leaves(program, c, x, Command(d).reads[x])
    BY <1>2, <1>8, ZenonT(60) DEF Leaves, Command
<1> QED BY <1>2, <1>4, <1>6, <1>7, <1>9, ZenonT(60)

\* write_data_to_buffer for the transfers of the AWAIT_PUSHes D leaves what they are to write.
LEMMA TransfersWritten ==
    ASSUME IInv, DataInv, NEW D \in SUBSET DOMAIN program.command,
           \A d \in D : Command(d).kind = "AWAIT_PUSH", NEW T, T = Transfers(D), T \subseteq Pushed,
           NEW m, m \in [Cell -> Nat], NEW w, w = WithTransfers(m, T)
    PROVE  w \in [Cell -> Nat] /\ WrittenBy(D, m, w)
<1>1. ASSUME NEW d \in D
      PROVE  /\ Command(d).transfer \in T /\ DOMAIN payload[Command(d).transfer] = Command(d).writes
             /\ \A y \in Command(d).writes :
                   /\ payload[Command(d).transfer][y] \in Nat
                   /\ Leaves(program, d, y, payload[Command(d).transfer][y])
  <2>1. Command(d).transfer \in T
      BY DEF Transfers
  <2> QED BY <2>1, Carried, ZenonT(60)
<1>2. ASSUME NEW x \in Cell
      PROVE  /\ w[x] \in Nat
             /\ \/ \E d \in D : x \in Command(d).writes /\ Leaves(program, d, x, w[x])
                \/ (\A d \in D : x \notin Command(d).writes) /\ w[x] = m[x]
  <2>1. w[x] = IF \E t \in T : x \in DOMAIN payload[t]
               THEN payload[CHOOSE t \in T : x \in DOMAIN payload[t]][x] ELSE m[x]
      BY DEF WithTransfers
  <2>2. CASE \E t \in T : x \in DOMAIN payload[t]
    <3>1. PICK t : t = CHOOSE u \in T : x \in DOMAIN payload[u]
        OBVIOUS
    <3>2. t \in T /\ x \in DOMAIN payload[t]
        BY <2>2, <3>1
    <3>3. PICK d \in D : Command(d).transfer = t
        BY <3>2 DEF Transfers
    <3>4. w[x] = payload[t][x]
        BY <2>1, <2>2, <3>1, ZenonT(60)
    <3> QED BY <1>1, <3>2, <3>3, <3>4, ZenonT(60)
  <2>3. CASE ~\E t \in T : x \in DOMAIN payload[t]
    <3>1. w[x] = m[x]
        BY <2>1, <2>3
    <3>2. \A d \in D : x \notin Command(d).writes
        BY <1>1, <2>3
    <3> QED BY <3>1, <3>2
  <2> QED BY <2>2, <2>3, ZenonT(60)
<1>3. w = [x \in Cell |-> w[x]]
    BY DEF WithTransfers
<1> QED BY <1>2, <1>3 DEF WrittenBy

-----------------------------------------------------------------------------
(* The steps. *)

\* What a main thread has created stays created.
LEMMA PassedStays ==
    ASSUME TypeOK, program' = program, pos' \in [Node -> Nat], NEW n \in Node, pos[n] <= pos'[n],
           NEW op, NEW id, Passed(n, op, id)
    PROVE  Passed(n, op, id)'
<1>1. PICK i \in 1 .. pos[n] - 1 : program.ops[i] = [op |-> op, id |-> id]
    BY DEF Passed
<1>2. pos[n] \in Nat /\ pos'[n] \in Nat
    BY DEF TypeOK
<1>3. i \in 1 .. pos'[n] - 1
    BY <1>2
<1> QED BY <1>1, <1>3 DEF Passed

\* Steps that leave the jobs and the data alone.
LEMMA DataUntouched ==
    ASSUME IInv, DataInv, UNCHANGED <<program, running, finished, submitted, data_vars, btm_vars>>,
           pos' \in [Node -> Nat],
           \A n \in Node : pos[n] <= pos'[n] /\ pos'[n] <= Len(program.ops) + 1,
           \A t \in 1 .. scheduled' : has_task(0, t)'
    PROVE  DataInv'
<1>1. TypeOK
    BY DEF IInv
<1>2. UNCHANGED <<program, running, finished, submitted, complete, memory, payload,
                  outgoing_transfers, push_done, sent, incoming_transfers, awaiting, received,
                  await_done>>
    BY DEF data_vars, btm_vars
<1>4. DataTypeOK'
    BY <1>2 DEF DataInv, DataTypeOK, OfKind, Command
<1>5. TransfersKept'
    BY <1>2 DEF DataInv, TransfersKept, OfKind, Command, Transfers, Pushed, Awaited
<1>6. JobsTrue'
    BY <1>2, ZenonT(60) DEF DataInv, JobsTrue, OfKind, Command, Transfers
<1>7. Effective' = Effective
    BY <1>2 DEF Effective, OfKind, Command
<1>8. MemoryCurrent'
  <2>1. ASSUME NEW n \in Node, NEW x \in Cell PROVE Writers(n, x, Effective)' = Writers(n, x, Effective)
      BY <1>2, <1>7 DEF Writers, On, Command
  <2>2. \A n \in Node, x \in Cell : LatestOf(program', Writers(n, x, Effective)', x, memory'[n][x])
      BY <1>2, <2>1, ZenonT(60) DEF DataInv, MemoryCurrent
  <2> QED BY <2>2 DEF MemoryCurrent
<1>9. PayloadCurrent'
    BY <1>2, ZenonT(60) DEF DataInv, PayloadCurrent, OfKind, Command
<1>10. CreatedFirst'
  <2>1. ASSUME NEW c \in submitted PROVE has_task(Command(c).nid, Command(c).tid)'
    <3>1. Command(c).nid \in Node /\ has_task(Command(c).nid, Command(c).tid)
        BY TakenPlace, <1>1 DEF DataInv, DataTypeOK, OfKind, TypeOK, CreatedFirst
    <3>2. PICK n, id : n \in Node /\ n = Command(c).nid /\ id = Command(c).tid
        BY <3>1
    <3>3. Passed(n, "task", id)'
        BY <1>1, <1>2, <3>1, <3>2, PassedStays, ZenonT(60) DEF has_task
    <3> QED BY <1>2, <3>2, <3>3, ZenonT(60) DEF has_task, Command
  <2>2. ASSUME NEW c \in OfKind(running, "AWAIT_PUSH"), Command(c).transfer \in await_done
        PROVE  has_buffer(Command(c).nid, Command(c).bid)'
    <3>1. Command(c).nid \in Node /\ has_buffer(Command(c).nid, Command(c).bid)
        BY <2>2, TakenPlace, <1>1 DEF DataInv, DataTypeOK, OfKind, TypeOK, CreatedFirst
    <3>2. PICK n, id : n \in Node /\ n = Command(c).nid /\ id = Command(c).bid
        BY <3>1
    <3>3. Passed(n, "buffer", id)'
        BY <1>1, <1>2, <3>1, <3>2, PassedStays, ZenonT(60) DEF has_buffer
    <3> QED BY <1>2, <3>2, <3>3, ZenonT(60) DEF has_buffer, Command
  <2>3. OfKind(running, "AWAIT_PUSH")' = OfKind(running, "AWAIT_PUSH")
      BY <1>2 DEF OfKind, Command
  <2>4. \A c : (Command(c).transfer)' = Command(c).transfer
      BY <1>2 DEF Command
  <2> QED BY <1>2, <2>1, <2>2, <2>3, <2>4, ZenonT(60) DEF CreatedFirst
<1> QED BY <1>4, <1>5, <1>6, <1>8, <1>9, <1>10, ZenonT(60) DEF DataInv

\* A kernel runs to completion.
LEMMA KernelRun ==
    ASSUME IInv, DataInv, NEW c \in submitted \ complete, run_kernel(c)
    PROVE  DataInv'
<1>1. TypeOK /\ DependenciesRespected
    BY DEF IInv
<1>2. /\ complete' = complete \cup {c}
      /\ memory' = [memory EXCEPT ![Command(c).nid] =
                      [x \in Cell |-> IF x \in Command(c).writes THEN Command(c).tid ELSE @[x]]]
      /\ UNCHANGED <<program, pos, scheduled, running, finished, submitted, payload, btm_vars>>
    BY DEF run_kernel, main_vars, job_vars
<1>3. UNCHANGED <<outgoing_transfers, push_done, sent, incoming_transfers, awaiting, received,
                  await_done>>
    BY <1>2 DEF btm_vars
<1>4. c \in running /\ Command(c).kind = "COMPUTE" /\ c \in Taken /\ c \in DOMAIN program.command
    BY <1>1, TakenPlace, ZenonT(60) DEF DataInv, DataTypeOK, OfKind, TypeOK
<1>5. PICK n \in Node : n = Command(c).nid
    BY <1>4, TakenPlace, ZenonT(60)
<1>6. c \in Active
    BY <1>1, <1>4 DEF Active, DataInv, JobsTrue, OfKind, DependenciesRespected
<1>7. PICK m : m = [x \in Cell |-> IF x \in Command(c).writes THEN Command(c).tid ELSE memory[n][x]]
    BY Zenon
<1>8. Command(c).tid \in Nat
  <2>1. CommandsTyped(program)
      BY <1>1, Guaranteed
  <2> QED BY <1>4, <2>1, ZenonT(60) DEF CommandsTyped, Command
<1>9. m \in [Cell -> Nat] /\ memory' = [memory EXCEPT ![n] = m]
    BY <1>2, <1>5, <1>7, <1>8, ZenonT(60) DEF DataInv, DataTypeOK
<1>10. Effective' = Effective \cup {c}
    BY <1>2, <1>3, ZenonT(60) DEF Effective, OfKind, Command
<1>11. \A x : Leaves(program, c, x, Command(c).tid)
    BY <1>4 DEF Leaves, Command
<1>12. MemoryCurrent' /\ memory' \in [Node -> [Cell -> Nat]]
  <2>1. PICK D : D = {c}
      BY Zenon
  <2>2. WrittenBy(D, memory[n], m)
      BY <1>7, <1>11, <2>1, ZenonT(60) DEF WrittenBy
  <2>3. D \in SUBSET On(n, Active) /\ Effective' = Effective \cup D
      BY <1>5, <1>6, <1>10, <2>1 DEF On
  <2>4. program' = program
      BY <1>2
  <2> QED BY <1>9, <2>2, <2>3, <2>4, MemoryChange, Zenon
<1>13. DataTypeOK'
    BY <1>2, <1>12, ZenonT(60) DEF DataInv, DataTypeOK, OfKind, Command
<1>14. TransfersKept'
    BY <1>2, <1>3 DEF DataInv, TransfersKept, OfKind, Command, Transfers, Pushed, Awaited
<1>15. JobsTrue'
    BY <1>2, <1>3, ZenonT(60) DEF DataInv, JobsTrue, OfKind, Command, Transfers
<1>16. PayloadCurrent'
    BY <1>2, ZenonT(60) DEF DataInv, PayloadCurrent, OfKind, Command
<1>17. CreatedFirst'
    BY <1>2, <1>3, ZenonT(60) DEF DataInv, CreatedFirst, OfKind, Command, has_task, has_buffer, Passed
<1> QED BY <1>12, <1>13, <1>14, <1>15, <1>16, <1>17, ZenonT(60) DEF DataInv

\* What MPI may report to a node.
LEMMA Reported ==
    ASSUME NEW n, NEW r \in Reports(n)
    PROVE  /\ r.probed \subseteq sent /\ r.acked \subseteq outgoing_transfers
           /\ r.landed \subseteq incoming_transfers \cup r.probed
           /\ \A t \in r.landed : t.target = n
<1>1. PICK m \in Probed(n) :
         r \in {[probed |-> m, landed |-> l, acked |-> a] :
                  l \in SUBSET Receives(n, m), a \in SUBSET From(n, outgoing_transfers)}
    BY DEF Reports
<1>2. PICK l \in SUBSET Receives(n, m), a \in SUBSET From(n, outgoing_transfers) :
         r = [probed |-> m, landed |-> l, acked |-> a]
    BY <1>1
<1>3. r.probed = m /\ r.landed = l /\ r.acked = a
    BY <1>2
<1>4. m \subseteq To(n, sent)
    BY DEF Probed
<1> QED BY <1>3, <1>4 DEF Receives, To, From

\* A poll writes the data that has arrived and is awaited.
LEMMA Polled ==
    ASSUME IInv, DataInv, NEW n \in Node, NEW r \in Reports(n), poll_transfers(n, r)
    PROVE  DataInv'
<1>1. TypeOK /\ DependenciesRespected
    BY DEF IInv
<1>2. /\ UNCHANGED <<program, pos, scheduled, running, finished, submitted, complete, payload>>
      /\ memory' = [memory EXCEPT ![n] = WithTransfers(memory[n], Matched(r))]
      /\ poll(r) /\ BuffersKnown(n, Matched(r))
  <2>1. memory \in [Node -> [Cell -> Nat]]
      BY DEF DataInv, DataTypeOK
  <2> QED BY <2>1 DEF poll_transfers, main_vars, job_vars
<1>3. PICK T : T = Matched(r)
    OBVIOUS
<1>4. /\ sent' = sent \ r.probed
      /\ incoming_transfers' = (incoming_transfers \cup r.probed) \ r.landed
      /\ awaiting' = awaiting \ T /\ received' = received \cup (r.landed \ T)
      /\ await_done' = await_done \cup T /\ push_done' = push_done \cup r.acked
      /\ outgoing_transfers' = outgoing_transfers \ r.acked
    BY <1>2, <1>3, ZenonT(60) DEF poll, StillIncoming, CompletedHandles
<1>5. /\ r.probed \subseteq sent /\ r.acked \subseteq outgoing_transfers
      /\ r.landed \subseteq incoming_transfers \cup r.probed
      /\ \A t \in r.landed : t.target = n
    BY Reported
<1>6. T = r.landed \cap awaiting
    BY <1>3 DEF Matched
<1>7. PICK D : D = {c \in OfKind(running, "AWAIT_PUSH") : Command(c).transfer \in T}
    BY Zenon
<1>8. TransfersKept /\ JobsTrue /\ DataTypeOK /\ CreatedFirst
    BY DEF DataInv
<1>9. ASSUME NEW c \in D
      PROVE  /\ c \in running /\ c \in DOMAIN program.command /\ Command(c).kind = "AWAIT_PUSH"
             /\ Command(c).transfer \in T /\ Command(c).nid = n /\ c \in Active
  <2>1. c \in running /\ Command(c).kind = "AWAIT_PUSH" /\ Command(c).transfer \in T
      BY <1>7 DEF OfKind
  <2>2. c \in Taken /\ c \in DOMAIN program.command
      BY <1>1, <2>1, TakenPlace, ZenonT(60) DEF TypeOK
  <2>3. Command(c).nid = n
      BY <1>1, <1>5, <1>6, <2>1, <2>2, TransferEnds, ZenonT(60)
  <2>4. c \notin finished
      BY <1>6, <1>8, <2>1, ZenonT(60) DEF TransfersKept, JobsTrue, OfKind, Transfers
  <2> QED BY <1>1, <2>1, <2>2, <2>3, <2>4, ZenonT(60) DEF Active, DependenciesRespected
<1>10. Transfers(D) = T
  <2>1. ASSUME NEW t \in T PROVE t \in Transfers(D)
    <3>1. t \in Transfers(OfKind(running, "AWAIT_PUSH"))
        BY <1>6, <1>8 DEF TransfersKept, Awaited
    <3> QED BY <1>7, <3>1 DEF Transfers
  <2>2. Transfers(D) \subseteq T
      BY <1>7 DEF Transfers
  <2> QED BY <2>1, <2>2
<1>11. T \subseteq Pushed
    BY <1>5, <1>6, <1>8, ZenonT(60) DEF TransfersKept
<1>12. MemoryCurrent' /\ memory' \in [Node -> [Cell -> Nat]]
  <2>1. PICK m : m = WithTransfers(memory[n], T)
      OBVIOUS
  <2>2. memory[n] \in [Cell -> Nat]
      BY <1>8 DEF DataTypeOK
  <2>3. m \in [Cell -> Nat] /\ WrittenBy(D, memory[n], m)
    <3>1. D \in SUBSET DOMAIN program.command /\ \A d \in D : Command(d).kind = "AWAIT_PUSH"
        BY <1>9
    <3> QED BY <1>10, <1>11, <2>1, <2>2, <3>1, TransfersWritten, ZenonT(60)
  <2>4. memory' = [memory EXCEPT ![n] = m]
      BY <1>2, <1>3, <2>1
  <2>5. D \in SUBSET On(n, Active)
      BY <1>9 DEF On
  <2>6. Effective' = Effective \cup D /\ program' = program
      BY <1>2, <1>4, <1>7, ZenonT(60) DEF Effective, OfKind, Command
  <2> QED BY <2>3, <2>4, <2>5, <2>6, MemoryChange, Zenon
<1>13. DataTypeOK'
    BY <1>2, <1>8, <1>12, ZenonT(60) DEF DataTypeOK, OfKind, Command
<1>14. TransfersKept'
  <2>1. /\ Transfers(OfKind(running, "PUSH"))' = Transfers(OfKind(running, "PUSH"))
        /\ Transfers(OfKind(running, "AWAIT_PUSH"))' = Transfers(OfKind(running, "AWAIT_PUSH"))
      BY <1>2 DEF Transfers, OfKind, Command
  <2>2. Pushed' = Pushed /\ Awaited' = Awaited
      BY <1>4, <1>5, <1>6, ZenonT(60) DEF Pushed, Awaited
  <2>3. /\ sent' \cup incoming_transfers' \cup received' \cup await_done' \subseteq Pushed
        /\ sent' \cap (incoming_transfers' \cup received' \cup await_done') = {}
        /\ incoming_transfers' \cap (received' \cup await_done') = {}
        /\ received' \cap await_done' = {} /\ awaiting' \cap await_done' = {}
        /\ outgoing_transfers' \cap push_done' = {}
      BY <1>4, <1>5, <1>6, <1>8, ZenonT(60) DEF TransfersKept
  <2> QED BY <1>8, <2>1, <2>2, <2>3, ZenonT(60) DEF TransfersKept
<1>15. JobsTrue'
    BY <1>2, <1>4, <1>8, ZenonT(60) DEF JobsTrue, OfKind, Command, Transfers
<1>16. PayloadCurrent'
    BY <1>2, ZenonT(60) DEF DataInv, PayloadCurrent, OfKind, Command
<1>17. CreatedFirst'
  <2>1. /\ \A m \in Node : pos'[m] <= Len(program'.ops) + 1
        /\ \A t \in 1 .. scheduled' : has_task(0, t)'
        /\ \A c \in submitted' : has_task(Command(c).nid, Command(c).tid)'
      BY <1>2, <1>8, ZenonT(60) DEF CreatedFirst, has_task, Passed, Command
  <2>2. ASSUME NEW c \in OfKind(running, "AWAIT_PUSH"), Command(c).transfer \in await_done \cup T
        PROVE  has_buffer(Command(c).nid, Command(c).bid)
    <3>1. CASE Command(c).transfer \in await_done
        BY <1>8, <3>1 DEF CreatedFirst
    <3>2. CASE Command(c).transfer \in T
      <4>1. c \in D
          BY <1>7, <3>2
      <4>2. c \in OfKind(DOMAIN program.command, "AWAIT_PUSH") /\ Command(c).nid = n
          BY <1>9, <4>1 DEF OfKind
      <4> QED BY <1>2, <1>3, <3>2, <4>2, ZenonT(60) DEF BuffersKnown
    <3> QED BY <2>2, <3>1, <3>2
  <2>3. ASSUME NEW c \in OfKind(running, "AWAIT_PUSH")', (Command(c).transfer)' \in await_done'
        PROVE  has_buffer(Command(c).nid, Command(c).bid)'
      BY <1>2, <1>4, <2>2, <2>3, ZenonT(60) DEF OfKind, Command, has_buffer, Passed
  <2> QED BY <2>1, <2>3 DEF CreatedFirst
<1> QED BY <1>12, <1>13, <1>14, <1>15, <1>16, <1>17, ZenonT(60) DEF DataInv

\* A pass over the jobs: what is started reads what it should, and what is done is in memory.
LEMMA PassData ==
    ASSUME IInv, DataInv, NEW n \in Node, update_jobs(n),
           UNCHANGED <<program, pos, scheduled, complete>>
    PROVE  DataInv'
<1>1. TypeOK /\ JobsCounted /\ DependenciesRespected
    BY DEF IInv
<1>2. TransfersKept /\ JobsTrue /\ DataTypeOK /\ CreatedFirst /\ PayloadCurrent
    BY DEF DataInv
<1> DEFINE ready == Ready(n)
           updated == (On(n, jobs \cap running) \ Ended(n)) \cup ready
           P == Transfers(OfKind(ready, "PUSH"))
           A == Transfers(OfKind(ready, "AWAIT_PUSH"))
           accesses == OfKind(ready, "MASTER_ACCESS")
           T == AlreadyReceived(A)
<1>3. ready = Ready(n)
    OBVIOUS
<1>4. updated = (On(n, jobs \cap running) \ Ended(n)) \cup ready
    OBVIOUS
<1>5. P = Transfers(OfKind(ready, "PUSH"))
    OBVIOUS
<1>6. A = Transfers(OfKind(ready, "AWAIT_PUSH"))
    OBVIOUS
<1>7. accesses = OfKind(ready, "MASTER_ACCESS")
    OBVIOUS
<1>8. T = AlreadyReceived(A)
    OBVIOUS
<1>9. /\ BuffersKnown(n, T) /\ running' = running \cup ready /\ push(P) /\ await_push(A)
      /\ payload' = [t \in Transfer |->
            IF t \in P
            THEN [x \in UNION {DOMAIN Command(c).reads : c \in {d \in OfKind(ready, "PUSH") :
                      Command(d).transfer = t}} |-> memory[n][x]]
            ELSE payload[t]]
      /\ memory' = [memory EXCEPT ![n] = [x \in Cell |->
            IF x \in UNION {Command(c).writes : c \in accesses}
            THEN Command(CHOOSE c \in accesses : x \in Command(c).writes).tid
            ELSE WithTransfers(@, T)[x]]]
      /\ submitted' = submitted \cup {c \in OfKind(updated, "COMPUTE") : CanSubmit(n, c)}
      /\ finished' = finished \cup accesses \cup OfKind(updated, "HORIZON")
            \cup {c \in OfKind(updated, "PUSH") : TransferDone(c, push_done)}
            \cup {c \in OfKind(updated, "AWAIT_PUSH") : TransferDone(c, await_done')}
            \cup {c \in OfKind(updated, "COMPUTE") : ComputeDone(c)}
    BY Zenon DEF update_jobs
<1> HIDE DEF ready, updated, P, A, accesses, T
<1>10. /\ outgoing_transfers' = outgoing_transfers \cup P /\ sent' = sent \cup P
       /\ push_done' = push_done /\ incoming_transfers' = incoming_transfers
       /\ received' = received \ T /\ awaiting' = awaiting \cup (A \ T)
       /\ await_done' = await_done \cup T /\ T = A \cap received
    BY <1>8, <1>9, ZenonT(60) DEF push, await_push, AlreadyReceived
<1>11. ASSUME NEW c \in ready
       PROVE  /\ c \in Active /\ c \notin running /\ c \in Taken /\ Command(c).nid = n
              /\ c \in DOMAIN program.command
  <2>1. c \in jobs \ running /\ Command(c).nid = n
      BY <1>3 DEF Ready, On
  <2>2. c \in Taken \ finished
      BY <1>1, <2>1 DEF Taken, TypeOK
  <2>3. DepsOf(c) \subseteq finished
      BY <1>1, <1>3, ReadyWaits
  <2> QED BY <2>1, <2>2, <2>3, TakenPlace, ZenonT(60) DEF Active
<1>12. ASSUME NEW c \in running PROVE c \in DOMAIN program.command /\ c \notin ready
    BY <1>1, <1>11, TakenPlace, ZenonT(60) DEF TypeOK
<1>13. updated \subseteq running' /\ \A c \in updated : Command(c).nid = n
    BY <1>4, <1>9, <1>11, ZenonT(60) DEF On
<1>14. P \cap Pushed = {} /\ A \cap Awaited = {}
  <2>1. ASSUME NEW c \in ready, NEW d \in running, Command(c).kind \in {"PUSH", "AWAIT_PUSH"},
               Command(d).kind = Command(c).kind
        PROVE  Command(d).transfer # Command(c).transfer
      BY <1>1, <1>11, <1>12, <2>1, OneTransfer, ZenonT(60)
  <2>2. P \cap Transfers(OfKind(running, "PUSH")) = {}
      BY <1>5, <2>1 DEF Transfers, OfKind
  <2>3. A \cap Transfers(OfKind(running, "AWAIT_PUSH")) = {}
      BY <1>6, <2>1 DEF Transfers, OfKind
  <2> QED BY <1>2, <2>2, <2>3, ZenonT(60) DEF TransfersKept
<1>15. TransfersKept'
  <2>1. /\ Transfers(OfKind(running, "PUSH"))' = Transfers(OfKind(running, "PUSH")) \cup P
        /\ Transfers(OfKind(running, "AWAIT_PUSH"))' = Transfers(OfKind(running, "AWAIT_PUSH")) \cup A
      BY <1>5, <1>6, <1>9, ZenonT(60) DEF Transfers, OfKind, Command
  <2>2. Pushed' = Pushed \cup P /\ Awaited' = Awaited \cup A
      BY <1>10 DEF Pushed, Awaited
  <2>3. /\ sent' \cup incoming_transfers' \cup received' \cup await_done' \subseteq Pushed \cup P
        /\ sent' \cap (incoming_transfers' \cup received' \cup await_done') = {}
        /\ incoming_transfers' \cap (received' \cup await_done') = {}
        /\ received' \cap await_done' = {}
      BY <1>2, <1>10, <1>14, ZenonT(60) DEF TransfersKept
  <2>4. awaiting' \cap await_done' = {} /\ outgoing_transfers' \cap push_done' = {}
      BY <1>2, <1>10, <1>14, ZenonT(60) DEF TransfersKept, Pushed, Awaited
  <2> QED BY <1>2, <2>1, <2>2, <2>3, <2>4, ZenonT(60) DEF TransfersKept
<1>16. JobsTrue'
  <2>1. ASSUME NEW c \in finished', Command(c).kind = "PUSH" PROVE Command(c).transfer \in push_done
      BY <1>2, <1>7, <1>9, <2>1, ZenonT(60) DEF JobsTrue, OfKind, Transfers, TransferDone
  <2>2. ASSUME NEW c \in finished', Command(c).kind = "AWAIT_PUSH"
        PROVE  Command(c).transfer \in await_done'
      BY <1>2, <1>7, <1>9, <1>10, <2>2, ZenonT(60) DEF JobsTrue, OfKind, Transfers, TransferDone
  <2>3. ASSUME NEW c \in finished', Command(c).kind = "COMPUTE" PROVE c \in complete
      BY <1>2, <1>7, <1>9, <2>3, ZenonT(60) DEF JobsTrue, OfKind, ComputeDone
  <2>4. ASSUME NEW c \in running', Command(c).kind = "MASTER_ACCESS" PROVE c \in finished'
      BY <1>2, <1>7, <1>9, <2>4, ZenonT(60) DEF JobsTrue, OfKind
  <2> QED BY <1>10, <2>1, <2>2, <2>3, <2>4, ZenonT(60) DEF JobsTrue, OfKind, Transfers, Command
<1>17. PayloadCurrent'
  <2>1. ASSUME NEW c \in running', Command(c).kind = "PUSH"
        PROVE  payload'[Command(c).transfer] = Command(c).reads
    <3>1. PICK t : t = Command(c).transfer
        OBVIOUS
    <3>2. c \in DOMAIN program.command /\ t \in Transfer
      <4>1. c \in DOMAIN program.command
          BY <1>9, <1>11, <1>12, ZenonT(60)
      <4> QED BY <1>1, <2>1, <3>1, <4>1, TransferEnds, ZenonT(60)
    <3>3. CASE c \in running
      <4>1. t \in Pushed /\ payload[t] = Command(c).reads
          BY <1>2, <2>1, <3>1, <3>3, ZenonT(60) DEF TransfersKept, PayloadCurrent, OfKind, Transfers
      <4>2. payload'[t] = payload[t]
          BY <1>9, <1>14, <3>2, <4>1, ZenonT(60)
      <4> QED BY <3>1, <4>1, <4>2
    <3>4. CASE c \in ready
      <4>1. PICK R : R = Command(c).reads
          OBVIOUS
      <4>2. {d \in OfKind(ready, "PUSH") : Command(d).transfer = t} = {c}
        <5>1. ASSUME NEW d \in ready, Command(d).kind = "PUSH", Command(d).transfer = t PROVE d = c
            BY <1>1, <1>11, <2>1, <3>1, <3>2, <5>1, OneTransfer, ZenonT(60)
        <5> QED BY <2>1, <3>1, <3>4, <5>1, ZenonT(60) DEF OfKind
      <4>3. UNION {DOMAIN Command(e).reads : e \in {c}} = DOMAIN R
          BY <4>1
      <4>4. t \in P
          BY <1>5, <2>1, <3>1, <3>4, ZenonT(60) DEF Transfers, OfKind
      <4>5. payload'[t] = [x \in DOMAIN R |-> memory[n][x]]
          BY <1>9, <3>2, <4>2, <4>3, <4>4, Zenon
      <4>6. c \in Active \ Effective
          BY <1>11, <3>4, EffectiveJobs
      <4>7. \A x \in DOMAIN R : memory[n][x] = R[x]
          BY <1>11, <3>4, <4>1, <4>6, ReadsCurrent, ZenonT(60)
      <4>8. R \in [DOMAIN R -> Nat]
        <5>1. CommandsTyped(program)
            BY <1>1, Guaranteed
        <5> QED BY <3>2, <4>1, <5>1, ZenonT(60) DEF CommandsTyped, Command
      <4>9. payload'[t] = R
          BY <4>5, <4>7, <4>8
      <4> QED BY <3>1, <4>1, <4>9
    <3> QED BY <1>9, <3>3, <3>4, ZenonT(60)
  <2> QED BY <2>1 DEF PayloadCurrent, OfKind, Command
<1>18. PICK B : B = {c \in OfKind(ready, "AWAIT_PUSH") : Command(c).transfer \in received}
    BY Zenon
<1>19. T = Transfers(B)
    BY <1>6, <1>10, <1>18, ZenonT(60) DEF Transfers
<1>20. PICK m : m = [x \in Cell |->
            IF x \in UNION {Command(c).writes : c \in accesses}
            THEN Command(CHOOSE c \in accesses : x \in Command(c).writes).tid
            ELSE WithTransfers(memory[n], T)[x]]
    BY Zenon
<1>21. memory' = [memory EXCEPT ![n] = m]
    BY <1>2, <1>9, <1>20, ZenonT(60) DEF DataTypeOK
<1>22. m \in [Cell -> Nat] /\ WrittenBy(accesses \cup B, memory[n], m)
  <2>1. PICK w : w = WithTransfers(memory[n], T)
      OBVIOUS
  <2>2. w \in [Cell -> Nat] /\ WrittenBy(B, memory[n], w)
    <3>1. B \in SUBSET DOMAIN program.command /\ \A d \in B : Command(d).kind = "AWAIT_PUSH"
        BY <1>11, <1>18 DEF OfKind
    <3>2. T \subseteq Pushed /\ memory[n] \in [Cell -> Nat]
        BY <1>2, <1>10, ZenonT(60) DEF TransfersKept, DataTypeOK
    <3> QED BY <1>19, <2>1, <3>1, <3>2, TransfersWritten, ZenonT(60)
  <2>3. ASSUME NEW c \in accesses
        PROVE  Command(c).tid \in Nat /\ \A x : Leaves(program, c, x, Command(c).tid)
    <3>1. c \in DOMAIN program.command /\ Command(c).kind = "MASTER_ACCESS"
        BY <1>7, <1>11 DEF OfKind
    <3>2. CommandsTyped(program)
        BY <1>1, Guaranteed
    <3> QED BY <3>1, <3>2, ZenonT(60) DEF CommandsTyped, Command, Leaves
  <2>4. ASSUME NEW x \in Cell
        PROVE  /\ m[x] \in Nat
               /\ \/ \E d \in accesses \cup B : x \in Command(d).writes /\ Leaves(program, d, x, m[x])
                  \/ (\A d \in accesses \cup B : x \notin Command(d).writes) /\ m[x] = memory[n][x]
    <3>1. CASE \E c \in accesses : x \in Command(c).writes
      <4>1. PICK c : c = CHOOSE d \in accesses : x \in Command(d).writes
          OBVIOUS
      <4>2. c \in accesses /\ x \in Command(c).writes
          BY <3>1, <4>1
      <4>3. m[x] = Command(c).tid
          BY <1>20, <4>1, <4>2, ZenonT(60)
      <4> QED BY <2>3, <4>2, <4>3, ZenonT(60)
    <3>2. CASE ~\E c \in accesses : x \in Command(c).writes
      <4>1. m[x] = w[x]
          BY <1>20, <2>1, <3>2, ZenonT(60)
      <4> QED BY <2>2, <3>2, <4>1, ZenonT(60) DEF WrittenBy
    <3> QED BY <3>1, <3>2, ZenonT(60)
  <2>5. m = [x \in Cell |-> m[x]]
      BY <1>20
  <2> QED BY <2>4, <2>5 DEF WrittenBy
<1>23. MemoryCurrent' /\ memory' \in [Node -> [Cell -> Nat]]
  <2>1. PICK D : D = accesses \cup B
      BY Zenon
  <2>2. D \in SUBSET On(n, Active) /\ WrittenBy(D, memory[n], m)
      BY <1>7, <1>11, <1>18, <1>22, <2>1, ZenonT(60) DEF On, OfKind
  <2>3. Effective' = Effective \cup D
    <3>1. OfKind(running, "MASTER_ACCESS")' = OfKind(running, "MASTER_ACCESS") \cup accesses
        BY <1>7, <1>9, ZenonT(60) DEF OfKind, Command
    <3>2. ASSUME NEW c \in running, Command(c).kind = "AWAIT_PUSH"
          PROVE  Command(c).transfer \in await_done' <=> Command(c).transfer \in await_done
      <4>1. Command(c).transfer \in Awaited
          BY <1>2, <3>2, ZenonT(60) DEF TransfersKept, Transfers, OfKind
      <4> QED BY <1>10, <1>14, <4>1, ZenonT(60)
    <3>3. ASSUME NEW c \in ready, Command(c).kind = "AWAIT_PUSH"
          PROVE  Command(c).transfer \in await_done' <=> Command(c).transfer \in received
      <4>1. Command(c).transfer \in A
          BY <1>6, <3>3 DEF Transfers, OfKind
      <4> QED BY <1>10, <1>14, <4>1, ZenonT(60) DEF Awaited
    <3>4. {c \in running' : Command(c).kind = "AWAIT_PUSH" /\ Command(c).transfer \in await_done'}
            = {c \in running : Command(c).kind = "AWAIT_PUSH" /\ Command(c).transfer \in await_done}
                \cup B
        BY <1>9, <1>18, <3>2, <3>3, ZenonT(60) DEF OfKind
    <3> QED BY <2>1, <3>1, <3>4, ZenonT(60) DEF Effective, OfKind, Command
  <2>4. program' = program
      OBVIOUS
  <2> QED BY <1>21, <1>22, <2>2, <2>3, <2>4, MemoryChange, ZenonT(60)
<1>24. DataTypeOK'
  <2>1. payload' = [t \in Transfer |-> payload'[t]]
      BY <1>9, ZenonT(60)
  <2>2. submitted' \subseteq OfKind(running, "COMPUTE")'
      BY <1>2, <1>9, <1>13, ZenonT(60) DEF DataTypeOK, OfKind, Command
  <2> QED BY <1>2, <1>9, <1>23, <2>1, <2>2, Zenon DEF DataTypeOK
<1>25. CreatedFirst'
  <2>1. /\ \A k \in Node : pos'[k] <= Len(program'.ops) + 1
        /\ \A t \in 1 .. scheduled' : has_task(0, t)'
      BY <1>2, ZenonT(60) DEF CreatedFirst, has_task, Passed
  <2>2. ASSUME NEW c \in submitted' PROVE has_task(Command(c).nid, Command(c).tid)
      BY <1>2, <1>9, <1>13, ZenonT(60) DEF CreatedFirst, CanSubmit, OfKind
  <2>3. ASSUME NEW c \in running', Command(c).kind = "AWAIT_PUSH", Command(c).transfer \in await_done'
        PROVE  has_buffer(Command(c).nid, Command(c).bid)
    <3>1. CASE c \in running /\ Command(c).transfer \in await_done
        BY <1>2, <2>3, <3>1, ZenonT(60) DEF CreatedFirst, OfKind
    <3>2. CASE c \in ready /\ Command(c).transfer \in T
      <4>1. c \in OfKind(DOMAIN program.command, "AWAIT_PUSH") /\ Command(c).nid = n
          BY <1>11, <2>3, <3>2, ZenonT(60) DEF OfKind
      <4> QED BY <1>9, <3>2, <4>1, ZenonT(60) DEF BuffersKnown
    <3>3. CASE c \in running /\ Command(c).transfer \in T
      <4>1. Command(c).transfer \in Awaited
          BY <1>2, <2>3, <3>3, ZenonT(60) DEF TransfersKept, Transfers, OfKind
      <4> QED BY <1>10, <1>14, <3>3, <4>1, ZenonT(60)
    <3>4. CASE c \in ready /\ Command(c).transfer \in await_done
      <4>1. Command(c).transfer \in A
          BY <1>6, <2>3, <3>4, ZenonT(60) DEF Transfers, OfKind
      <4> QED BY <1>14, <3>4, <4>1, ZenonT(60) DEF Awaited
    <3> QED BY <1>9, <1>10, <2>3, <3>1, <3>2, <3>3, <3>4, ZenonT(60)
  <2>4. \A c \in submitted' : has_task(Command(c).nid, Command(c).tid)'
      BY <2>2, ZenonT(60) DEF has_task, Passed, Command
  <2>5. \A c \in OfKind(running, "AWAIT_PUSH")' :
           (Command(c).transfer)' \in await_done' => has_buffer(Command(c).nid, Command(c).bid)'
      BY <2>3, ZenonT(60) DEF has_buffer, Passed, Command, OfKind
  <2> QED BY <2>1, <2>4, <2>5, ZenonT(60) DEF CreatedFirst
<1> QED BY <1>15, <1>16, <1>17, <1>23, <1>24, <1>25, ZenonT(60) DEF DataInv

\* Initially all memory is as the host left it, and nothing is under way.
LEMMA InitData ==
    Init => DataInv
<1> SUFFICES ASSUME Init PROVE DataInv
    OBVIOUS
<1>1. /\ running = {} /\ finished = {} /\ submitted = {} /\ complete = {} /\ scheduled = 0
      /\ memory = [n \in Node |-> [x \in Cell |-> 0]] /\ payload = [t \in Transfer |-> <<>>]
      /\ outgoing_transfers = {} /\ push_done = {} /\ sent = {} /\ incoming_transfers = {}
      /\ awaiting = {} /\ received = {} /\ await_done = {}
    BY DEF Init, BTMInit
<1>2. DataTypeOK
    BY <1>1 DEF DataTypeOK, OfKind
<1>3. TransfersKept
    BY <1>1 DEF TransfersKept, Pushed, Awaited, Transfers, OfKind
<1>4. JobsTrue /\ PayloadCurrent /\ CreatedFirst
  <2>1. OpsNumbered(program)
      BY ProgramAssumption DEF Init
  <2>2. \A n \in Node : pos[n] <= Len(program.ops) + 1
      BY <2>1 DEF Init, OpsNumbered
  <2> QED BY <1>1, <2>2 DEF JobsTrue, PayloadCurrent, CreatedFirst, Transfers, OfKind
<1>5. MemoryCurrent
  <2>1. ASSUME NEW n \in Node, NEW x \in Cell
        PROVE  LatestOf(program, Writers(n, x, Effective), x, memory[n][x])
    <3>1. Writers(n, x, Effective) = {} /\ memory[n][x] = 0
        BY <1>1 DEF Writers, On, Effective, OfKind
    <3> QED BY <3>1 DEF LatestOf
  <2> QED BY <2>1 DEF MemoryCurrent
<1> QED BY <1>2, <1>3, <1>4, <1>5 DEF DataInv

\* Every step of every thread keeps the data right.
LEMMA DataPreserved ==
    IInv /\ DataInv /\ [Next]_vars => DataInv'
<1> SUFFICES ASSUME IInv, DataInv, [Next]_vars PROVE DataInv'
    OBVIOUS
<1>1. TypeOK /\ pos \in [Node -> Nat] /\ 0 \in Node
    BY ExecutorAssumption DEF IInv, TypeOK
<1>2. /\ \A n \in Node : pos[n] \in Nat /\ pos[n] <= pos[n] /\ pos[n] <= Len(program.ops) + 1
      /\ Len(program.ops) \in Nat
  <2>1. Len(program.ops) \in Nat
    <3>1. OpsNumbered(program)
        BY <1>1, Guaranteed
    <3> QED BY <3>1, ZenonT(60) DEF OpsNumbered
  <2>2. \A n \in Node : pos[n] <= Len(program.ops) + 1
      BY ZenonT(60) DEF DataInv, CreatedFirst
  <2> QED BY <1>1, <2>1, <2>2
<1>3. \A t \in 1 .. scheduled : has_task(0, t)
    BY DEF DataInv, CreatedFirst
<1>4. ASSUME UNCHANGED <<program, pos, scheduled, running, finished, submitted, data_vars, btm_vars>>
      PROVE  DataInv'
  <2>1. \A t \in 1 .. scheduled' : has_task(0, t)'
      BY <1>3, <1>4 DEF has_task, Passed
  <2>2. /\ pos' \in [Node -> Nat]
        /\ \A n \in Node : pos[n] <= pos'[n] /\ pos'[n] <= Len(program.ops) + 1
      BY <1>1, <1>2, <1>4
  <2> QED BY <1>4, <2>1, <2>2, DataUntouched, ZenonT(60)
<1>5. ASSUME NEW n \in Node, MainThread(n) PROVE DataInv'
  <2>1. /\ pos' = [pos EXCEPT ![n] = pos[n] + 1] /\ pos[n] <= Len(program.ops)
        /\ UNCHANGED <<program, scheduled, running, finished, submitted, data_vars, btm_vars>>
      BY <1>5, ZenonT(60) DEF MainThread, create, sync_return, job_vars, AtOp
  <2>2. /\ pos' \in [Node -> Nat]
        /\ \A m \in Node : pos[m] <= pos'[m] /\ pos'[m] <= Len(program.ops) + 1
      BY <1>1, <1>2, <2>1
  <2>3. ASSUME NEW t \in 1 .. scheduled' PROVE has_task(0, t)'
    <3>1. Passed(0, "task", t)
        BY <1>3, <2>1 DEF has_task
    <3>2. Passed(0, "task", t)'
        BY <1>1, <2>1, <2>2, <3>1, PassedStays, ZenonT(60)
    <3> QED BY <3>2 DEF has_task
  <2> QED BY <2>1, <2>2, <2>3, DataUntouched, ZenonT(60)
<1>6. CASE schedule
  <2>1. /\ scheduled' = scheduled + 1 /\ has_task(0, scheduled + 1)
        /\ UNCHANGED <<program, pos, running, finished, submitted, data_vars, btm_vars>>
      BY <1>6, ZenonT(60) DEF schedule, job_vars
  <2>2. scheduled \in Nat
      BY <1>1, FlushTypes
  <2>3. ASSUME NEW t \in 1 .. scheduled' PROVE has_task(0, t)
    <3>1. t \in 1 .. scheduled \/ t = scheduled + 1
        BY <2>1, <2>2
    <3> QED BY <1>3, <2>1, <3>1
  <2>4. \A t \in 1 .. scheduled' : has_task(0, t)'
      BY <2>1, <2>3 DEF has_task, Passed
  <2>5. /\ pos' \in [Node -> Nat]
        /\ \A m \in Node : pos[m] <= pos'[m] /\ pos'[m] <= Len(program.ops) + 1
      BY <1>1, <1>2, <2>1
  <2> QED BY <2>1, <2>4, <2>5, DataUntouched, ZenonT(60)
<1>7. CASE sync \/ shutdown
    BY <1>4, <1>7, ZenonT(60) DEF sync, shutdown, broadcast_control_command, job_vars
<1>8. ASSUME NEW c \in submitted \ complete, run_kernel(c) PROVE DataInv'
    BY <1>8, KernelRun
<1>9. ASSUME NEW n \in Node, enter_barrier(n) \/ leave_barrier(n) \/ exit(n) PROVE DataInv'
    BY <1>4, <1>9, ZenonT(60) DEF enter_barrier, leave_barrier, exit, main_vars, job_vars
<1>10. ASSUME NEW n \in Node, NEW r \in Reports(n), poll_transfers(n, r) PROVE DataInv'
    BY <1>10, Polled
<1>11. ASSUME NEW n \in Node, receive(n) \/ receive_nothing(n) PROVE DataInv'
  <2>1. update_jobs(n) /\ UNCHANGED <<program, pos, scheduled, complete>>
      BY <1>11 DEF receive, receive_nothing, finish_pass, main_vars
  <2> QED BY <2>1, PassData
<1>12. CASE UNCHANGED vars
    BY <1>4, <1>12 DEF vars, run_vars, main_vars, job_vars
<1> QED BY <1>5, <1>6, <1>7, <1>8, <1>9, <1>10, <1>11, <1>12, ZenonT(60) DEF Next, Environment, ExecutorThread

-----------------------------------------------------------------------------
(* What follows. *)

\* What the invariants say of the commands that run: kernels on the device of a node do not
\* conflict, commands read what the sequential program would, and get_buffer_data does not fail.
LEMMA DataFollows ==
    ASSUME IInv, DataInv
    PROVE  NoRaces /\ CommandsSeeCurrentData /\ PushedBufferRegistered
<1>1. ASSUME NEW c \in submitted \ complete PROVE c \in Active \ Effective
  <2>1. c \in running /\ Command(c).kind = "COMPUTE"
      BY DEF DataInv, DataTypeOK, OfKind
  <2>2. c \in Taken /\ DepsOf(c) \subseteq finished
      BY <2>1 DEF IInv, TypeOK, DependenciesRespected
  <2>3. c \notin finished
      BY <2>1 DEF DataInv, JobsTrue, OfKind
  <2>4. c \notin Effective
      BY <2>1 DEF Effective, OfKind
  <2> QED BY <2>2, <2>3, <2>4 DEF Active
<1>2. NoRaces
  <2> SUFFICES ASSUME NEW c \in submitted \ complete, NEW d \in submitted \ complete,
                      c # d, Command(c).nid = Command(d).nid
               PROVE  Command(c).writes \cap (Command(d).writes \cup DOMAIN Command(d).reads) = {}
      BY DEF NoRaces
  <2>1. c \in Active /\ d \in Active
      BY <1>1
  <2> QED BY <2>1, NoConflict
<1>3. CommandsSeeCurrentData
  <2>1. ASSUME NEW c \in submitted \ complete, NEW x \in DOMAIN Command(c).reads
        PROVE  memory[Command(c).nid][x] = Command(c).reads[x]
      BY <1>1, ReadsCurrent
  <2>2. ASSUME NEW c \in OfKind(running, "PUSH")
        PROVE  payload[Command(c).transfer] = Command(c).reads
      BY DEF DataInv, PayloadCurrent
  <2>3. ASSUME NEW c \in OfKind(Ready(0), "MASTER_ACCESS"), NEW x \in DOMAIN Command(c).reads
        PROVE  memory[0][x] = Command(c).reads[x]
    <3>1. c \in Ready(0) /\ 0 \in Node
        BY ExecutorAssumption DEF OfKind
    <3>2. c \in jobs \ running /\ Command(c).nid = 0
        BY <3>1 DEF Ready, On
    <3>3. DepsOf(c) \subseteq finished
        BY <3>1, ReadyWaits DEF IInv
    <3>4. c \in Taken \ finished
        BY <3>2 DEF Taken, IInv, TypeOK
    <3>5. c \in Active \ Effective
        BY <3>2, <3>3, <3>4, EffectiveJobs, ZenonT(60) DEF Active
    <3> QED BY <3>2, <3>5, ReadsCurrent
  <2> QED BY <2>1, <2>2, <2>3, ZenonT(60) DEF CommandsSeeCurrentData
<1>4. ASSUME NEW c \in OfKind(running, "PUSH") PROVE has_buffer(Command(c).nid, Command(c).bid)
  <2>1. TypeOK /\ DependenciesRespected /\ CreatedFirst /\ JobsTrue /\ DataTypeOK
      BY DEF IInv, DataInv
  <2>2. c \in running /\ Command(c).kind = "PUSH" /\ c \in Taken /\ DepsOf(c) \subseteq finished
      BY <2>1 DEF OfKind, TypeOK, DependenciesRespected
  <2>3. c \in DOMAIN program.command
      BY <2>2, TakenPlace, ZenonT(60)
  <2>4. PICK x \in DOMAIN Command(c).reads : Command(c).reads[x] # 0
    <3>1. BuffersFirst(program)
        BY <2>1, Guaranteed
    <3> QED BY <2>2, <2>3, <3>1, Zenon DEF BuffersFirst, Command
  <2>5. PICK d \in WritersBefore(program, c, x) : TRUE
    <3>1. Coherent(program)
        BY <2>1, Guaranteed
    <3>2. LatestOf(program, WritersBefore(program, c, x), x, Command(c).reads[x])
        BY <2>3, <3>1, ZenonT(60) DEF Coherent, Command
    <3> QED BY <2>4, <3>2 DEF LatestOf
  <2>6. /\ d \in DOMAIN program.command /\ Command(d).nid = Command(c).nid
        /\ x \in Command(d).writes /\ Precedes(program, d, c)
      BY DEF WritersBefore, Command
  <2>7. d \in finished
      BY <2>2, <2>6, FinishedFirst
  <2>8. d \in Taken /\ d \in running
      BY <2>1, <2>7 DEF Taken, TypeOK
  <2>9. CASE Command(d).kind = "AWAIT_PUSH"
    <3>1. Command(d).transfer \in await_done
        BY <2>1, <2>7, <2>9, ZenonT(60) DEF JobsTrue, OfKind, Transfers
    <3>2. has_buffer(Command(d).nid, Command(d).bid)
        BY <2>1, <2>8, <2>9, <3>1, ZenonT(60) DEF CreatedFirst, OfKind
    <3>3. Command(d).bid = Command(c).bid
      <4>1. BuffersFirst(program)
          BY <2>1, Guaranteed
      <4> QED BY <2>2, <2>3, <2>6, <2>9, <4>1, Zenon DEF BuffersFirst, Command
    <3> QED BY <2>6, <3>2, <3>3
  <2>10. CASE Command(d).kind # "AWAIT_PUSH"
    <3>1. Command(d).kind \in {"COMPUTE", "MASTER_ACCESS"}
      <4>1. CommandsTyped(program)
          BY <2>1, Guaranteed
      <4> QED BY <2>6, <2>10, <4>1, ZenonT(60) DEF CommandsTyped, Command
    <3>2. has_task(Command(d).nid, Command(d).tid)
      <4>1. CASE Command(d).kind = "COMPUTE"
          BY <2>1, <2>7, <4>1, ZenonT(60) DEF JobsTrue, CreatedFirst, DataTypeOK, OfKind
      <4>2. CASE Command(d).kind = "MASTER_ACCESS"
        <5>1. PICK t, n, i : FlushedAt(d, t, n, i) /\ t \in 1 .. scheduled
            BY <2>1, <2>8, TakenAt, ZenonT(60)
        <5>3. AllSent(program) /\ CommandsTyped(program)
            BY <2>1, Guaranteed
        <5>4. PICK u \in DOMAIN program.flushes :
                 /\ \E j \in DOMAIN program.flushes[u][Command(d).nid] :
                       program.flushes[u][Command(d).nid][j].cid = d
                 /\ Command(d).tid = u
            BY <2>6, <4>2, <5>3, ZenonT(60) DEF AllSent, Command
        <5>5. Command(d).nid = 0 /\ 0 \in Node
            BY <2>6, <4>2, <5>3, ExecutorAssumption, ZenonT(60) DEF CommandsTyped, Command
        <5>6. PICK j \in DOMAIN program.flushes[u][0] : program.flushes[u][0][j].cid = d
            BY <5>4, <5>5, ZenonT(60)
        <5>7. FlushedAt(d, u, 0, j)
            BY <5>5, <5>6, ZenonT(60) DEF FlushedAt
        <5>8. u = t
            BY <2>1, <5>1, <5>7, FlushedAtOnce, ZenonT(60)
        <5> QED BY <2>1, <5>1, <5>4, <5>5, <5>8, ZenonT(60) DEF CreatedFirst
      <4> QED BY <3>1, <4>1, <4>2
    <3>3. PICK j \in 1 .. pos[Command(d).nid] - 1 :
             program.ops[j] = [op |-> "task", id |-> Command(d).tid]
        BY <3>2 DEF has_task, Passed
    <3>4. /\ j \in DOMAIN program.ops
          /\ \A i \in 1 .. j - 1 : i \in 1 .. pos[Command(d).nid] - 1
      <4>1. Command(d).nid \in Node /\ OpsNumbered(program)
          BY <2>1, <2>8, TakenPlace, Guaranteed, ZenonT(60)
      <4>2. pos[Command(d).nid] \in Nat /\ pos[Command(d).nid] <= Len(program.ops) + 1
          BY <2>1, <4>1, ZenonT(60) DEF TypeOK, CreatedFirst
      <4> QED BY <4>1, <4>2 DEF OpsNumbered
    <3>5. PICK i \in 1 .. j - 1 : program.ops[i] = [op |-> "buffer", id |-> Command(c).bid]
      <4>1. BuffersFirst(program)
          BY <2>1, Guaranteed
      <4>2. Command(d).writes \cap DOMAIN Command(c).reads # {}
          BY <2>4, <2>6
      <4> QED BY <2>2, <2>3, <2>6, <2>10, <3>3, <3>4, <4>1, <4>2, ZenonT(60) DEF BuffersFirst, Command
    <3> QED BY <2>6, <3>4, <3>5, ZenonT(60) DEF has_buffer, Passed
  <2> QED BY <2>9, <2>10
<1>5. PushedBufferRegistered
    BY <1>4 DEF PushedBufferRegistered
<1> QED BY <1>2, <1>3, <1>5

=============================================================================
