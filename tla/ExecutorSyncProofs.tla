------------------------- MODULE ExecutorSyncProofs -------------------------
(***************************************************************************)
(* The control commands of the master: for any nodes, programs, numbers of *)
(* jobs and interleavings, a sync returns on a node only when the commands *)
(* before it are done on all nodes, and the shutdown leaves nothing behind.*)
(***************************************************************************)
EXTENDS ExecutorDataProofs

\* The tasks before the k-th sync, and those that are complete when a control command is sent.
TasksUpTo(p, k) ==
    {t \in DOMAIN p.flushes : \E i, j \in DOMAIN p.ops :
        i < j /\ p.ops[i] = [op |-> "task", id |-> t] /\ p.ops[j] = [op |-> "sync", id |-> k]}
Announced(p, m) == IF m.type = "SYNC" THEN TasksUpTo(p, m.sync_id) ELSE DOMAIN p.flushes

\* The commands of the tasks T for node n.
Due(p, n, T) ==
    {c \in DOMAIN p.command : /\ p.command[c].nid = n
                              /\ \E t \in T : \E i \in DOMAIN p.flushes[t][n] :
                                    p.flushes[t][n][i].cid = c}

\* In the stream s of node n, of which the commands C were taken, a control command comes after
\* the commands it announces.
ControlsLast(p, n, s, C) ==
    \A i \in 1 .. Len(s) : s[i].type # "COMMAND" =>
        \A c \in Due(p, n, Announced(p, s[i])) :
            c \in C \/ \E j \in 1 .. i - 1 : s[j].type = "COMMAND" /\ s[j].cid = c

\* The ids of the SYNCs of the stream s are in order, none is left out between the last one that
\* was taken, l, and the last one that was broadcast, b.
SyncIds(p) == {p.ops[i].id : i \in {j \in DOMAIN p.ops : p.ops[j].op = "sync"}}
SyncsInOrder(p, s, l, b) ==
    /\ \A i \in 1 .. Len(s) : s[i].type = "SYNC" =>
          s[i].sync_id \in SyncIds(p) /\ l < s[i].sync_id /\ s[i].sync_id <= b
    /\ \A i, j \in 1 .. Len(s) : i < j /\ s[i].type = "SYNC" /\ s[j].type = "SYNC" =>
          s[i].sync_id < s[j].sync_id
    /\ \A k \in SyncIds(p) : l < k /\ k <= b =>
          \E i \in 1 .. Len(s) : s[i].type = "SYNC" /\ s[i].sync_id = k

LastSync(n) == IF syncing_on_id[n] = 0 THEN highest_executed_sync_id[n] ELSE syncing_on_id[n]

SyncTypeOK ==
    /\ broadcast \in Nat /\ barriers \in [Node -> Nat]
    /\ syncing_on_id \in [Node -> Nat] /\ highest_executed_sync_id \in [Node -> Nat]
    /\ phase \in [Node -> {"poll", "jobs", "barrier", "exited"}] /\ done \subseteq Node

\* The streams, and what was taken from them.
ControlInv ==
    /\ \A n \in Node : ControlsLast(program, n, Stream(n), Taken)
    /\ \A n \in Node : syncing_on_id[n] # 0 =>
          Due(program, n, TasksUpTo(program, syncing_on_id[n])) \subseteq Taken
    /\ \A n \in done : Due(program, n, DOMAIN program.flushes) \subseteq Taken
    /\ \A n \in Node : phase[n] = "exited" => n \in done /\ On(n, jobs) = {}

\* The numbers of the syncs: all executors go through the barriers in the same order.
NumberInv ==
    /\ pos[0] > 0 /\ \A i \in Syncs : i < pos[0] => program.ops[i].id <= broadcast
    /\ \A n \in Node : SyncsInOrder(program, Stream(n), LastSync(n), broadcast)
    /\ \A n \in Node : /\ LastSync(n) <= broadcast
                       /\ syncing_on_id[n] \in {0, highest_executed_sync_id[n] + 1}
                       /\ barriers[n] = highest_executed_sync_id[n]
                                          + (IF phase[n] = "barrier" THEN 1 ELSE 0)
                       /\ phase[n] = "barrier" => syncing_on_id[n] # 0

\* Who has reached a barrier has done the commands before it, and who has passed it knows that
\* all have reached it.
BarrierInv ==
    /\ \A n \in Node : \A k \in 1 .. barriers[n] :
          Due(program, n, TasksUpTo(program, k)) \subseteq finished \ jobs
    /\ \A n, m \in Node : highest_executed_sync_id[n] <= barriers[m]

SyncInv == SyncTypeOK /\ ControlInv /\ NumberInv /\ BarrierInv

-----------------------------------------------------------------------------
(* Streams with control commands. *)

\* t is the sequence s without its first element.
TailOf(t, s) == /\ Len(s) \in Nat \ {0} /\ Len(t) = Len(s) - 1
                /\ \A i \in 1 .. Len(s) - 1 : t[i] = s[i + 1]

\* Taking the first message of a stream: a control command finds what it announces taken.
LEMMA ControlsTail ==
    ASSUME NEW p, NEW n, NEW s, NEW t, NEW C, ControlsLast(p, n, s, C), TailOf(t, s)
    PROVE  /\ s[1].type = "COMMAND" => ControlsLast(p, n, t, C \cup {s[1].cid})
           /\ s[1].type # "COMMAND" => /\ ControlsLast(p, n, t, C)
                                       /\ Due(p, n, Announced(p, s[1])) \subseteq C
<1>1. PICK l \in Nat \ {0} : l = Len(s) /\ Len(t) = l - 1
    BY DEF TailOf
<1>2. ASSUME NEW i \in 1 .. l - 1
      PROVE  i + 1 \in 1 .. l /\ t[i] = s[i + 1]
    BY <1>1 DEF TailOf
<1>3. ASSUME NEW i \in 1 .. l - 1, t[i].type # "COMMAND", NEW c \in Due(p, n, Announced(p, t[i])),
             c \notin C
      PROVE  \/ s[1].type = "COMMAND" /\ s[1].cid = c
             \/ \E j \in 1 .. i - 1 : t[j].type = "COMMAND" /\ t[j].cid = c
  <2>1. i + 1 \in 1 .. l /\ t[i] = s[i + 1]
      BY <1>2
  <2>2. PICK j \in 1 .. (i + 1) - 1 : s[j].type = "COMMAND" /\ s[j].cid = c
      BY <1>1, <1>3, <2>1 DEF ControlsLast
  <2>3. CASE j = 1
      BY <2>2, <2>3
  <2>4. CASE j # 1
    <3>1. j - 1 \in 1 .. i - 1 /\ j - 1 \in 1 .. l - 1 /\ (j - 1) + 1 = j
        BY <1>3, <2>4
    <3>2. t[j - 1] = s[j]
        BY <1>2, <3>1
    <3> QED BY <2>2, <3>1, <3>2
  <2> QED BY <2>3, <2>4
<1>4. ASSUME s[1].type = "COMMAND" PROVE ControlsLast(p, n, t, C \cup {s[1].cid})
    BY <1>1, <1>3 DEF ControlsLast
<1>5. ASSUME s[1].type # "COMMAND" PROVE ControlsLast(p, n, t, C)
    BY <1>1, <1>3, <1>5, ZenonT(60) DEF ControlsLast
<1>6. ASSUME s[1].type # "COMMAND", NEW c \in Due(p, n, Announced(p, s[1])) PROVE c \in C
  <2>1. 1 \in 1 .. Len(s) /\ 1 .. 1 - 1 = {}
      BY <1>1
  <2> QED BY <1>6, <2>1 DEF ControlsLast
<1> QED BY <1>4, <1>5, <1>6

\* What more commands are taken does not matter.
LEMMA ControlsTaken ==
    ASSUME NEW p, NEW n, NEW s, NEW C, NEW D, ControlsLast(p, n, s, C), C \subseteq D
    PROVE  ControlsLast(p, n, s, D)
BY DEF ControlsLast

\* Messages may be added: commands, or control commands that announce what was sent.
LEMMA ControlsExtended ==
    ASSUME NEW p, NEW n, NEW s \in Seq(Message), NEW f \in Seq(Message), NEW C,
           ControlsLast(p, n, s, C),
           \A i \in 1 .. Len(f) : f[i].type # "COMMAND" =>
              \A c \in Due(p, n, Announced(p, f[i])) :
                  c \in C \/ \E j \in 1 .. Len(s) : s[j].type = "COMMAND" /\ s[j].cid = c
    PROVE  ControlsLast(p, n, s \o f, C)
<1>1. PICK l \in Nat : l = Len(s)
    OBVIOUS
<1>2. PICK k \in Nat : k = Len(f)
    OBVIOUS
<1>3. PICK u : u = s \o f
    BY Zenon
<1>4. /\ Len(u) = l + k
      /\ \A i \in 1 .. l + k : u[i] = IF i <= l THEN s[i] ELSE f[i - l]
    BY <1>1, <1>2, <1>3
<1>5. SUFFICES ASSUME NEW i \in 1 .. l + k, u[i].type # "COMMAND",
                      NEW c \in Due(p, n, Announced(p, u[i])), c \notin C
               PROVE  \E j \in 1 .. i - 1 : u[j].type = "COMMAND" /\ u[j].cid = c
  <2>1. SUFFICES ControlsLast(p, n, u, C)
      BY <1>3, Zenon
  <2> QED BY <1>4 DEF ControlsLast
<1>6. CASE i <= l
  <2>1. u[i] = s[i] /\ i \in 1 .. Len(s)
      BY <1>1, <1>4, <1>6
  <2>2. PICK j \in 1 .. i - 1 : s[j].type = "COMMAND" /\ s[j].cid = c
    <3>1. s[i].type # "COMMAND" /\ c \in Due(p, n, Announced(p, s[i]))
        BY <1>5, <2>1, ZenonT(60)
    <3> QED BY <1>5, <2>1, <3>1, ZenonT(60) DEF ControlsLast
  <2>3. u[j] = s[j]
      BY <1>4, <1>6
  <2> QED BY <2>2, <2>3
<1>7. CASE ~(i <= l)
  <2>1. u[i] = f[i - l] /\ i - l \in 1 .. Len(f)
      BY <1>2, <1>4, <1>7
  <2>2. PICK j \in 1 .. l : s[j].type = "COMMAND" /\ s[j].cid = c
      BY <1>1, <1>5, <2>1, ZenonT(60)
  <2>3. u[j] = s[j] /\ j \in 1 .. i - 1
      BY <1>4, <1>7
  <2> QED BY <2>2, <2>3
<1> QED BY <1>6, <1>7

\* Taking the first message of a stream: a SYNC is the one after the last.
LEMMA SyncsTail ==
    ASSUME NEW p, NEW s, NEW t, NEW l \in Nat, NEW b, SyncsInOrder(p, s, l, b), TailOf(t, s),
           SyncIds(p) \subseteq Nat, \A k \in SyncIds(p) : k > 1 => k - 1 \in SyncIds(p), b \in Nat
    PROVE  /\ s[1].type # "SYNC" => SyncsInOrder(p, t, l, b)
           /\ s[1].type = "SYNC" => s[1].sync_id = l + 1 /\ SyncsInOrder(p, t, l + 1, b) /\ l + 1 <= b
<1>1. PICK z \in Nat \ {0} : z = Len(s) /\ Len(t) = z - 1
    BY DEF TailOf
<1>2. ASSUME NEW i \in 1 .. z - 1
      PROVE  i + 1 \in 1 .. z /\ t[i] = s[i + 1]
    BY <1>1 DEF TailOf
<1>3. ASSUME NEW i \in 1 .. z - 1, t[i].type = "SYNC"
      PROVE  t[i].sync_id \in SyncIds(p) /\ l < t[i].sync_id /\ t[i].sync_id <= b
    BY <1>1, <1>2, <1>3 DEF SyncsInOrder
<1>4. ASSUME NEW i \in 1 .. z - 1, NEW j \in 1 .. z - 1, i < j, t[i].type = "SYNC", t[j].type = "SYNC"
      PROVE  t[i].sync_id < t[j].sync_id
  <2>1. i + 1 < j + 1
      BY <1>4
  <2> QED BY <1>1, <1>2, <1>4, <2>1 DEF SyncsInOrder
<1>5. ASSUME NEW k \in SyncIds(p), l < k, k <= b, ~(s[1].type = "SYNC" /\ s[1].sync_id = k)
      PROVE  \E i \in 1 .. z - 1 : t[i].type = "SYNC" /\ t[i].sync_id = k
  <2>1. PICK i \in 1 .. z : s[i].type = "SYNC" /\ s[i].sync_id = k
      BY <1>1, <1>5 DEF SyncsInOrder
  <2>2. i - 1 \in 1 .. z - 1 /\ (i - 1) + 1 = i
      BY <1>5, <2>1
  <2>3. t[i - 1] = s[i]
      BY <1>2, <2>2
  <2> QED BY <2>1, <2>2, <2>3
<1>6. ASSUME s[1].type # "SYNC" PROVE SyncsInOrder(p, t, l, b)
    BY <1>1, <1>3, <1>4, <1>5, <1>6, ZenonT(60) DEF SyncsInOrder
<1>7. ASSUME s[1].type = "SYNC"
      PROVE  s[1].sync_id = l + 1 /\ SyncsInOrder(p, t, l + 1, b) /\ l + 1 <= b
  <2>1. PICK k \in SyncIds(p) : k = s[1].sync_id /\ l < k /\ k <= b /\ k \in Nat
      BY <1>1, <1>7 DEF SyncsInOrder
  <2>2. ASSUME NEW i \in 1 .. z - 1, t[i].type = "SYNC" PROVE k < t[i].sync_id
    <3>1. 1 \in 1 .. z /\ i + 1 \in 1 .. z /\ 1 < i + 1 /\ t[i] = s[i + 1]
        BY <1>1, <1>2
    <3> QED BY <1>1, <1>7, <2>1, <2>2, <3>1 DEF SyncsInOrder
  <2>3. k = l + 1
    <3>1. SUFFICES ASSUME k # l + 1 PROVE FALSE
        OBVIOUS
    <3>2. k - 1 \in SyncIds(p) /\ l < k - 1 /\ k - 1 <= b /\ k - 1 # k
        BY <2>1, <3>1
    <3>3. PICK i \in 1 .. z - 1 : t[i].type = "SYNC" /\ t[i].sync_id = k - 1
        BY <1>5, <2>1, <3>2, ZenonT(60)
    <3>4. k < k - 1
        BY <2>2, <3>3
    <3> QED BY <2>1, <3>4
  <2>4. SyncsInOrder(p, t, k, b)
    <3>1. ASSUME NEW j \in SyncIds(p), k < j, j <= b
          PROVE  \E i \in 1 .. z - 1 : t[i].type = "SYNC" /\ t[i].sync_id = j
      <4>1. l < j /\ j # s[1].sync_id
          BY <2>1, <3>1
      <4> QED BY <1>5, <3>1, <4>1
    <3> QED BY <1>1, <1>3, <1>4, <2>2, <3>1, ZenonT(60) DEF SyncsInOrder
  <2> QED BY <2>1, <2>3, <2>4
<1> QED BY <1>6, <1>7

\* Messages may be added: commands, or the SYNC that is broadcast.
LEMMA SyncsExtended ==
    ASSUME NEW p, NEW s \in Seq(Message), NEW f \in Seq(Message), NEW l \in Nat, NEW b \in Nat,
           NEW c \in Nat, b <= c, l <= b, SyncsInOrder(p, s, l, b), SyncIds(p) \subseteq Nat,
           \A i \in 1 .. Len(f) : f[i].type = "SYNC" =>
              i = 1 /\ f[i].sync_id \in SyncIds(p) /\ b < f[i].sync_id /\ f[i].sync_id <= c,
           \A k \in SyncIds(p) : b < k /\ k <= c =>
              \E i \in 1 .. Len(f) : f[i].type = "SYNC" /\ f[i].sync_id = k
    PROVE  SyncsInOrder(p, s \o f, l, c)
<1>1. PICK n \in Nat : n = Len(s)
    OBVIOUS
<1>2. PICK m \in Nat : m = Len(f)
    OBVIOUS
<1>3. PICK u : u = s \o f
    BY Zenon
<1>4. /\ Len(u) = n + m
      /\ \A i \in 1 .. n + m : u[i] = IF i <= n THEN s[i] ELSE f[i - n]
    BY <1>1, <1>2, <1>3
<1>5. ASSUME NEW i \in 1 .. n PROVE i \in 1 .. n + m /\ u[i] = s[i]
    BY <1>4
<1>6. ASSUME NEW i \in 1 .. m PROVE n + i \in 1 .. n + m /\ u[n + i] = f[i]
  <2>1. n + i \in 1 .. n + m /\ ~(n + i <= n) /\ (n + i) - n = i
      OBVIOUS
  <2> QED BY <1>4, <2>1
<1>7. ASSUME NEW i \in 1 .. n + m, u[i].type = "SYNC"
      PROVE  \/ /\ i \in 1 .. n /\ u[i] = s[i]
                /\ u[i].sync_id \in SyncIds(p) /\ l < u[i].sync_id /\ u[i].sync_id <= b
             \/ /\ i = n + 1
                /\ u[i].sync_id \in SyncIds(p) /\ b < u[i].sync_id /\ u[i].sync_id <= c
  <2>1. CASE i <= n
    <3>1. i \in 1 .. n /\ u[i] = s[i]
        BY <1>5, <2>1
    <3> QED BY <1>1, <1>7, <3>1, ZenonT(60) DEF SyncsInOrder
  <2>2. CASE ~(i <= n)
    <3>1. PICK j \in 1 .. m : i = n + j /\ u[i] = f[j]
      <4>1. i - n \in 1 .. m /\ i = n + (i - n)
          BY <2>2
      <4> QED BY <1>6, <4>1
    <3>2. j = 1 /\ f[j].sync_id \in SyncIds(p) /\ b < f[j].sync_id /\ f[j].sync_id <= c
        BY <1>2, <1>7, <3>1, ZenonT(60)
    <3> QED BY <3>1, <3>2, ZenonT(60)
  <2> QED BY <2>1, <2>2, ZenonT(60)
<1>8. ASSUME NEW i \in 1 .. n + m, u[i].type = "SYNC"
      PROVE  u[i].sync_id \in SyncIds(p) /\ l < u[i].sync_id /\ u[i].sync_id <= c
  <2>1. u[i].sync_id \in Nat
      BY <1>7, <1>8
  <2> QED BY <1>7, <1>8, <2>1
<1>9. ASSUME NEW i \in 1 .. n + m, NEW j \in 1 .. n + m, i < j, u[i].type = "SYNC", u[j].type = "SYNC"
      PROVE  u[i].sync_id < u[j].sync_id
  <2>1. u[i].sync_id \in Nat /\ u[j].sync_id \in Nat
      BY <1>8, <1>9
  <2>2. CASE j \in 1 .. n
    <3>1. i \in 1 .. n /\ u[i] = s[i] /\ u[j] = s[j]
        BY <1>5, <1>9, <2>2
    <3> QED BY <1>1, <1>9, <2>2, <3>1, ZenonT(60) DEF SyncsInOrder
  <2>3. CASE j \notin 1 .. n
    <3>1. j = n + 1 /\ b < u[j].sync_id
        BY <1>7, <1>9, <2>3, ZenonT(60)
    <3>2. i # n + 1
        BY <1>9, <3>1
    <3>3. u[i].sync_id <= b
        BY <1>7, <1>9, <3>2, ZenonT(60)
    <3> QED BY <2>1, <3>1, <3>3
  <2> QED BY <2>2, <2>3
<1>10. ASSUME NEW k \in SyncIds(p), l < k, k <= c
       PROVE  \E i \in 1 .. n + m : u[i].type = "SYNC" /\ u[i].sync_id = k
  <2>1. CASE k <= b
    <3>1. PICK i \in 1 .. n : s[i].type = "SYNC" /\ s[i].sync_id = k
        BY <1>1, <1>10, <2>1, ZenonT(60) DEF SyncsInOrder
    <3> QED BY <1>5, <3>1
  <2>2. CASE ~(k <= b)
    <3>1. b < k
        BY <2>2
    <3>2. PICK i \in 1 .. m : f[i].type = "SYNC" /\ f[i].sync_id = k
        BY <1>2, <1>10, <3>1, ZenonT(60)
    <3> QED BY <1>6, <3>2, ZenonT(60)
  <2> QED BY <2>1, <2>2
<1>11. SyncsInOrder(p, u, l, c)
    BY <1>4, <1>8, <1>9, <1>10, ZenonT(60) DEF SyncsInOrder
<1> QED BY <1>3, <1>11, Zenon

-----------------------------------------------------------------------------
(* A pass of an executor. *)

\* What a pass of the executor of node n does to its stream and its jobs, when it makes jobs of
\* the commands K (at most one): it takes a message or none.
TakesNone(n, K) == K = {} /\ Stream(n)' = Stream(n) /\ UNCHANGED <<done, syncing_on_id>>
Takes(n, K, m) ==
    /\ TailOf(Stream(n)', Stream(n)) /\ Stream(n)[1] = m /\ syncing_on_id[n] = 0
    /\ \/ m.type = "COMMAND" /\ K = {m.cid} /\ UNCHANGED <<done, syncing_on_id>>
       \/ /\ m.type = "SYNC" /\ K = {} /\ UNCHANGED done
          /\ syncing_on_id' = [syncing_on_id EXCEPT ![n] = m.sync_id]
       \/ m.type = "SHUTDOWN" /\ K = {} /\ done' = done \cup {n} /\ UNCHANGED syncing_on_id
PassJobs(n, K) ==
    /\ K \cap Taken = {} /\ \A c \in K : Command(c).nid = n
    /\ jobs' = (jobs \ Ended(n)) \cup K /\ finished \subseteq finished' /\ Taken \cup K \subseteq Taken'
PassFrame(n) ==
    /\ UNCHANGED <<program, pos, scheduled, broadcast, barriers, highest_executed_sync_id>>
    /\ phase[n] = "jobs" /\ phase' = [phase EXCEPT ![n] = "poll"]
    /\ \A m \in Node \ {n} : Stream(m)' = Stream(m)

\* The rest of a pass of executor::run, from the probe for a message on.
LEMMA PassTakes ==
    ASSUME IInv, NEW n \in Node, NEW a,
           a = <<>> \/ (inbox[n] # <<>> /\ a = <<Head(inbox[n])>>),
           finish_pass(n, a)
    PROVE  PassFrame(n) /\ \E K : PassJobs(n, K) /\ (TakesNone(n, K) \/ \E m : Takes(n, K, m))
<1>1. TypeOK /\ StreamsInOrder
    BY DEF IInv
<1>2. PICK q : q = command_queue[n] \o a
    BY Zenon
<1>3. PICK r : r = SubSeq(inbox[n], Len(a) + 1, Len(inbox[n]))
    BY Zenon
<1>4. /\ q \in Seq(Message) /\ r \in Seq(Message) /\ q \o r = Stream(n)
      /\ inbox \in [Node -> Seq(Message)] /\ command_queue \in [Node -> Seq(Message)]
  <2>1. command_queue[n] \in Seq(Message) /\ inbox[n] \in Seq(Message)
      BY <1>1 DEF TypeOK
  <2>2. /\ q \in Seq(Message) /\ r \in Seq(Message)
        /\ q \o r = command_queue[n] \o inbox[n]
      BY <1>2, <1>3, <2>1, Received, ZenonT(60)
  <2> QED BY <1>1, <2>2 DEF Stream, TypeOK
<1>5. /\ UNCHANGED <<program, pos, scheduled, broadcast, barriers, highest_executed_sync_id>>
      /\ update_jobs(n)
      /\ inbox' = [inbox EXCEPT ![n] = r] /\ handle_command(n, q)
      /\ phase[n] = "jobs" /\ phase' = [phase EXCEPT ![n] = "poll"]
    BY <1>1, <1>2, <1>3, ZenonT(60) DEF finish_pass, main_vars, TypeOK
<1>6. InOrder(q \o r, SentTo(n), Taken)
    BY <1>1, <1>4 DEF StreamsInOrder
<1>7. ASSUME NEW z, command_queue' = [command_queue EXCEPT ![n] = z]
      PROVE  PassFrame(n) /\ Stream(n)' = z \o r
  <2>1. command_queue'[n] = z /\ inbox'[n] = r
      BY <1>4, <1>5, <1>7, ZenonT(60)
  <2>2. \A m \in Node \ {n} : command_queue'[m] = command_queue[m] /\ inbox'[m] = inbox[m]
      BY <1>4, <1>5, <1>7, ZenonT(60)
  <2>3. \A m \in Node \ {n} : Stream(m)' = Stream(m)
      BY <2>2, Zenon DEF Stream
  <2> QED BY <1>5, <2>1, <2>3, ZenonT(60) DEF PassFrame, Stream
<1>8. ASSUME NEW K, K \cap Taken = {}, \A c \in K : Command(c).nid = n, jobs' = Remaining(n) \cup K
      PROVE  PassJobs(n, K)
  <2>1. finished \subseteq finished'
      BY <1>1, <1>5, UpdateJobs, ZenonT(60)
  <2> QED BY <1>8, <2>1 DEF PassJobs, Remaining, Ended, On, Taken
<1>9. ASSUME create_no_job(n) PROVE PassJobs(n, {})
    BY <1>8, <1>9 DEF create_no_job
<1>10. CASE ~CanTake(n) \/ q = <<>>
  <2>1. /\ command_queue' = [command_queue EXCEPT ![n] = q] /\ create_no_job(n)
        /\ UNCHANGED <<done, syncing_on_id>>
      BY <1>5, <1>10 DEF handle_command
  <2>2. TakesNone(n, {})
      BY <1>4, <1>7, <2>1, ZenonT(60) DEF TakesNone
  <2> QED BY <1>7, <1>9, <2>1, <2>2, ZenonT(60)
<1>11. CASE CanTake(n) /\ q # <<>>
  <2>1. /\ Tail(q) \in Seq(Message)
        /\ Len(q \o r) \in Nat \ {0} /\ (q \o r)[1] = Head(q)
        /\ Len(Tail(q) \o r) = Len(q \o r) - 1
        /\ \A i \in 1 .. Len(q \o r) - 1 : (Tail(q) \o r)[i] = (q \o r)[i + 1]
      BY <1>4, <1>11, TakenFirst, Zenon
  <2>2. PICK pkg : pkg = Head(q)
      OBVIOUS
  <2>3. /\ command_queue' = [command_queue EXCEPT ![n] = Tail(q)]
        /\ \/ /\ pkg.type = "SHUTDOWN" /\ create_no_job(n)
              /\ done' = done \cup {n} /\ UNCHANGED syncing_on_id
           \/ /\ pkg.type = "SYNC" /\ create_no_job(n) /\ UNCHANGED done
              /\ syncing_on_id' = [syncing_on_id EXCEPT ![n] = pkg.sync_id]
           \/ /\ pkg.type \notin {"SHUTDOWN", "SYNC"} /\ create_job(n, pkg)
              /\ UNCHANGED <<done, syncing_on_id>>
      BY <1>5, <1>11, <2>2, ZenonT(60) DEF handle_command
  <2>4. /\ PassFrame(n) /\ Stream(n)' = Tail(q) \o r /\ syncing_on_id[n] = 0
        /\ pkg = Stream(n)[1] /\ pkg \in Message
    <3>1. PassFrame(n) /\ Stream(n)' = Tail(q) \o r
        BY <1>7, <2>3, Zenon
    <3>2. pkg = Stream(n)[1]
        BY <1>4, <2>1, <2>2, Zenon
    <3>3. pkg \in Message
        BY <1>4, <1>11, <2>2
    <3> QED BY <1>11, <3>1, <3>2, <3>3, ZenonT(60) DEF CanTake
  <2>5. TailOf(Stream(n)', Stream(n))
      BY <1>4, <2>1, <2>4, Zenon DEF TailOf
  <2>6. CASE pkg.type \in {"SHUTDOWN", "SYNC"}
    <3>1. Takes(n, {}, pkg) /\ create_no_job(n)
        BY <2>3, <2>4, <2>5, <2>6, ZenonT(60) DEF Takes
    <3> QED BY <1>9, <2>4, <3>1, ZenonT(60)
  <2>7. CASE pkg.type \notin {"SHUTDOWN", "SYNC"}
    <3>1. pkg.type = "COMMAND"
      <4>1. ASSUME pkg \in Control PROVE pkg.type \in {"SHUTDOWN", "SYNC"}
          BY <4>1 DEF Control
      <4>2. pkg \in CommandPackage
          BY <2>4, <2>7, <4>1, Zenon DEF Message
      <4> QED BY <4>2 DEF CommandPackage
    <3>2. pkg \in SentTo(n) /\ pkg.cid \notin Taken
      <4>1. pkg = (q \o r)[1]
          BY <2>1, <2>2
      <4> QED BY <1>6, <2>1, <3>1, <4>1, TakeCommand, ZenonT(60)
    <3>3. Command(pkg.cid).nid = n
        BY <1>1, <3>2, SentPackage, ZenonT(60)
    <3>4. PassJobs(n, {pkg.cid})
      <4>1. PICK K : K = {pkg.cid}
          BY ZenonT(60)
      <4>2. K \cap Taken = {} /\ (\A c \in K : Command(c).nid = n) /\ jobs' = Remaining(n) \cup K
          BY <2>3, <2>7, <3>2, <3>3, <4>1 DEF create_job
      <4> QED BY <1>8, <4>1, <4>2, ZenonT(60)
    <3>5. Takes(n, {pkg.cid}, pkg)
        BY <2>3, <2>4, <2>5, <2>7, <3>1, ZenonT(60) DEF Takes
    <3> QED BY <2>4, <3>4, <3>5, ZenonT(60)
  <2> QED BY <2>6, <2>7
<1> QED BY <1>10, <1>11

\* What is numbered.
LEMMA Numbered ==
    ASSUME TypeOK
    PROVE  /\ SyncIds(program) \subseteq Nat \ {0}
           /\ \A k \in SyncIds(program) : k > 1 => k - 1 \in SyncIds(program)
           /\ Syncs = {i \in 1 .. Len(program.ops) : program.ops[i].op = "sync"}
           /\ Len(program.ops) \in Nat /\ DOMAIN program.ops = 1 .. Len(program.ops)
<1>1. OpsNumbered(program)
    BY Guaranteed
<1>2. /\ \A i \in Syncs : /\ program.ops[i].id \in Nat \ {0}
                          /\ program.ops[i].id > 1 =>
                                \E j \in Syncs : program.ops[j].id = program.ops[i].id - 1
      /\ Len(program.ops) \in Nat /\ DOMAIN program.ops = 1 .. Len(program.ops)
    BY <1>1, ZenonT(60) DEF OpsNumbered, Syncs
<1>3. SyncIds(program) = {program.ops[i].id : i \in Syncs}
    BY DEF SyncIds, Syncs
<1> QED BY <1>2, <1>3, ZenonT(60) DEF Syncs

\* A control command is taken once what it announces is, and the syncs in their order.
LEMMA PassControl ==
    ASSUME IInv, SyncInv, NEW n \in Node, NEW K, PassFrame(n), PassJobs(n, K),
           TakesNone(n, K) \/ \E m : Takes(n, K, m)
    PROVE  /\ ControlsLast(program, n, Stream(n)', Taken \cup K)
           /\ syncing_on_id' \in [Node -> Nat] /\ done' \subseteq done \cup {n}
           /\ \A m \in Node \ {n} : syncing_on_id'[m] = syncing_on_id[m]
           /\ syncing_on_id'[n] # 0 =>
                 Due(program, n, TasksUpTo(program, syncing_on_id'[n])) \subseteq Taken
           /\ n \in done' => Due(program, n, DOMAIN program.flushes) \subseteq Taken
           /\ SyncsInOrder(program, Stream(n)', LastSync(n)', broadcast)
           /\ LastSync(n)' <= broadcast
           /\ syncing_on_id'[n] \in {0, highest_executed_sync_id[n] + 1}
<1>1. TypeOK /\ SyncTypeOK /\ ControlInv /\ NumberInv
    BY DEF IInv, SyncInv
<1>2. /\ syncing_on_id \in [Node -> Nat] /\ highest_executed_sync_id \in [Node -> Nat]
      /\ broadcast \in Nat /\ done \subseteq Node /\ highest_executed_sync_id[n] \in Nat
    BY <1>1 DEF SyncTypeOK
<1>3. highest_executed_sync_id' = highest_executed_sync_id
    BY DEF PassFrame
<1>4. /\ ControlsLast(program, n, Stream(n), Taken)
      /\ SyncsInOrder(program, Stream(n), LastSync(n), broadcast) /\ LastSync(n) <= broadcast
      /\ syncing_on_id[n] \in {0, highest_executed_sync_id[n] + 1}
      /\ syncing_on_id[n] # 0 => Due(program, n, TasksUpTo(program, syncing_on_id[n])) \subseteq Taken
      /\ n \in done => Due(program, n, DOMAIN program.flushes) \subseteq Taken
    BY <1>1, ZenonT(60) DEF ControlInv, NumberInv
<1>5. ASSUME syncing_on_id' = syncing_on_id PROVE LastSync(n)' = LastSync(n)
    BY <1>3, <1>5 DEF LastSync
<1>6. CASE TakesNone(n, K)
  <2>1. K = {} /\ Stream(n)' = Stream(n) /\ UNCHANGED <<done, syncing_on_id>> /\ Taken \cup K = Taken
      BY <1>6 DEF TakesNone
  <2> QED BY <1>2, <1>4, <1>5, <2>1, ZenonT(60)
<1>7. ASSUME NEW m, Takes(n, K, m)
      PROVE  /\ ControlsLast(program, n, Stream(n)', Taken \cup K)
             /\ syncing_on_id' \in [Node -> Nat] /\ done' \subseteq done \cup {n}
             /\ \A k \in Node \ {n} : syncing_on_id'[k] = syncing_on_id[k]
             /\ syncing_on_id'[n] # 0 =>
                   Due(program, n, TasksUpTo(program, syncing_on_id'[n])) \subseteq Taken
             /\ n \in done' => Due(program, n, DOMAIN program.flushes) \subseteq Taken
             /\ SyncsInOrder(program, Stream(n)', LastSync(n)', broadcast)
             /\ LastSync(n)' <= broadcast
             /\ syncing_on_id'[n] \in {0, highest_executed_sync_id[n] + 1}
  <2>1. TailOf(Stream(n)', Stream(n)) /\ Stream(n)[1] = m /\ syncing_on_id[n] = 0
      BY <1>7 DEF Takes
  <2>2. PICK s : s = Stream(n)
      OBVIOUS
  <2>3. PICK t : t = Stream(n)'
      OBVIOUS
  <2>4. TailOf(t, s) /\ s[1] = m
      BY <2>1, <2>2, <2>3
  <2>5. PICK l \in Nat : l = LastSync(n) /\ l = highest_executed_sync_id[n]
      BY <1>2, <2>1 DEF LastSync
  <2>6. /\ m.type = "COMMAND" => ControlsLast(program, n, t, Taken \cup {m.cid})
        /\ m.type # "COMMAND" => /\ ControlsLast(program, n, t, Taken)
                                 /\ Due(program, n, Announced(program, m)) \subseteq Taken
      BY <1>4, <2>2, <2>4, ControlsTail, ZenonT(60)
  <2>7. /\ m.type # "SYNC" => SyncsInOrder(program, t, l, broadcast)
        /\ m.type = "SYNC" => /\ m.sync_id = l + 1 /\ SyncsInOrder(program, t, l + 1, broadcast)
                              /\ l + 1 <= broadcast
    <3>1. SyncIds(program) \subseteq Nat /\ \A k \in SyncIds(program) : k > 1 => k - 1 \in SyncIds(program)
        BY <1>1, Numbered
    <3>2. SyncsInOrder(program, s, l, broadcast)
        BY <1>4, <2>2, <2>5, ZenonT(60)
    <3> QED BY <1>2, <2>4, <3>1, <3>2, SyncsTail, ZenonT(60)
  <2>8. CASE m.type = "COMMAND" /\ K = {m.cid} /\ UNCHANGED <<done, syncing_on_id>>
    <3>1. LastSync(n)' = l
        BY <1>5, <2>5, <2>8
    <3> QED BY <1>2, <1>4, <2>3, <2>5, <2>6, <2>7, <2>8, <3>1, ZenonT(60)
  <2>9. CASE /\ m.type = "SYNC" /\ K = {} /\ UNCHANGED done
             /\ syncing_on_id' = [syncing_on_id EXCEPT ![n] = m.sync_id]
    <3>1. /\ syncing_on_id'[n] = l + 1 /\ syncing_on_id' \in [Node -> Nat]
          /\ \A k \in Node \ {n} : syncing_on_id'[k] = syncing_on_id[k]
        BY <1>2, <2>7, <2>9
    <3>2. LastSync(n)' = l + 1
        BY <3>1 DEF LastSync
    <3>3. Announced(program, m) = TasksUpTo(program, l + 1)
        BY <2>7, <2>9 DEF Announced
    <3>4. Taken \cup K = Taken
        BY <2>9
    <3>5. Due(program, n, TasksUpTo(program, syncing_on_id'[n])) \subseteq Taken
        BY <2>6, <2>9, <3>1, <3>3, ZenonT(60)
    <3> QED BY <1>2, <1>4, <2>3, <2>5, <2>6, <2>7, <2>9, <3>1, <3>2, <3>4, <3>5, ZenonT(60)
  <2>10. CASE m.type = "SHUTDOWN" /\ K = {} /\ done' = done \cup {n} /\ UNCHANGED syncing_on_id
    <3>1. LastSync(n)' = l
        BY <1>5, <2>5, <2>10, ZenonT(60)
    <3>2. Announced(program, m) = DOMAIN program.flushes
        BY <2>10 DEF Announced
    <3>3. Taken \cup K = Taken
        BY <2>10
    <3>4. Due(program, n, DOMAIN program.flushes) \subseteq Taken
        BY <2>6, <2>10, <3>2, ZenonT(60)
    <3> QED BY <1>2, <1>4, <2>3, <2>5, <2>6, <2>7, <2>10, <3>1, <3>3, <3>4, ZenonT(60)
  <2> QED BY <1>7, <2>8, <2>9, <2>10, ZenonT(60) DEF Takes
<1> QED BY <1>6, <1>7, ZenonT(60)

\* A pass keeps the invariant.
LEMMA PassSync ==
    ASSUME IInv, SyncInv, NEW n \in Node, NEW K, PassFrame(n), PassJobs(n, K),
           TakesNone(n, K) \/ \E m : Takes(n, K, m)
    PROVE  SyncInv'
<1>1. TypeOK /\ SyncTypeOK /\ ControlInv /\ NumberInv /\ BarrierInv
    BY DEF IInv, SyncInv
<1>2. /\ UNCHANGED <<program, pos, broadcast, barriers, highest_executed_sync_id>>
      /\ phase[n] = "jobs" /\ phase' = [phase EXCEPT ![n] = "poll"]
      /\ \A m \in Node \ {n} : Stream(m)' = Stream(m)
    BY DEF PassFrame
<1>3. /\ K \cap Taken = {} /\ \A c \in K : Command(c).nid = n
      /\ jobs' = (jobs \ Ended(n)) \cup K /\ finished \subseteq finished' /\ Taken \cup K \subseteq Taken'
    BY DEF PassJobs
<1>4. /\ ControlsLast(program, n, Stream(n)', Taken \cup K)
      /\ syncing_on_id' \in [Node -> Nat] /\ done' \subseteq done \cup {n}
      /\ \A m \in Node \ {n} : syncing_on_id'[m] = syncing_on_id[m]
      /\ syncing_on_id'[n] # 0 =>
            Due(program, n, TasksUpTo(program, syncing_on_id'[n])) \subseteq Taken
      /\ n \in done' => Due(program, n, DOMAIN program.flushes) \subseteq Taken
      /\ SyncsInOrder(program, Stream(n)', LastSync(n)', broadcast)
      /\ LastSync(n)' <= broadcast
      /\ syncing_on_id'[n] \in {0, highest_executed_sync_id[n] + 1}
    BY PassControl, ZenonT(60)
<1>5. phase \in [Node -> {"poll", "jobs", "barrier", "exited"}] /\ done \subseteq Node
    BY <1>1 DEF SyncTypeOK
<1>6. SyncTypeOK'
    BY <1>1, <1>2, <1>4, <1>5, ZenonT(60) DEF SyncTypeOK
<1>7. done \subseteq done' /\ \A m \in Node : phase'[m] = IF m = n THEN "poll" ELSE phase[m]
    BY <1>2, <1>5 DEF TakesNone, Takes
<1>8. ControlInv'
  <2>1. ASSUME NEW m \in Node PROVE ControlsLast(program', m, Stream(m)', Taken')
    <3>1. CASE m = n
        BY <1>2, <1>3, <1>4, <3>1, ControlsTaken, ZenonT(60)
    <3>2. CASE m # n
      <4>1. ControlsLast(program, m, Stream(m), Taken)
          BY <1>1 DEF ControlInv
      <4>2. Taken \subseteq Taken' /\ Stream(m)' = Stream(m) /\ program' = program
          BY <1>2, <1>3, <3>2, ZenonT(60)
      <4> QED BY <4>1, <4>2, ControlsTaken
    <3> QED BY <3>1, <3>2
  <2>2. ASSUME NEW m \in Node, syncing_on_id'[m] # 0
        PROVE  Due(program', m, TasksUpTo(program', syncing_on_id'[m])) \subseteq Taken'
    <3>1. Due(program, m, TasksUpTo(program, syncing_on_id'[m])) \subseteq Taken
      <4>1. CASE m = n
          BY <1>4, <2>2, <4>1, ZenonT(60)
      <4>2. CASE m # n
          BY <1>1, <1>4, <2>2, <4>2, ZenonT(60) DEF ControlInv
      <4> QED BY <4>1, <4>2
    <3> QED BY <1>2, <1>3, <3>1, ZenonT(60)
  <2>3. ASSUME NEW m \in done' PROVE Due(program', m, DOMAIN program'.flushes) \subseteq Taken'
    <3>1. Due(program, m, DOMAIN program.flushes) \subseteq Taken
        BY <1>1, <1>4, ZenonT(60) DEF ControlInv
    <3> QED BY <1>2, <1>3, <3>1, ZenonT(60)
  <2>4. ASSUME NEW m \in Node, phase'[m] = "exited" PROVE m \in done' /\ On(m, jobs)' = {}
    <3>1. m # n /\ phase[m] = "exited"
        BY <1>7, <2>4
    <3>2. m \in done /\ On(m, jobs) = {}
        BY <1>1, <3>1 DEF ControlInv
    <3>3. \A c \in jobs' : c \in jobs \/ Command(c).nid = n
        BY <1>3
    <3> QED BY <1>2, <1>7, <3>1, <3>2, <3>3, ZenonT(60) DEF On, Command
  <2> QED BY <2>1, <2>2, <2>3, <2>4, ZenonT(60) DEF ControlInv
<1>9. NumberInv'
  <2>1. ASSUME NEW i \in Syncs', i < pos'[0] PROVE program'.ops[i].id <= broadcast'
    <3>1. i \in Syncs /\ i < pos[0]
        BY <1>2, <2>1 DEF Syncs
    <3> QED BY <1>1, <1>2, <3>1, ZenonT(60) DEF NumberInv
  <2>2. ASSUME NEW m \in Node
        PROVE  /\ SyncsInOrder(program', Stream(m)', LastSync(m)', broadcast')
               /\ LastSync(m)' <= broadcast'
               /\ syncing_on_id'[m] \in {0, highest_executed_sync_id'[m] + 1}
    <3>1. CASE m = n
        BY <1>2, <1>4, <3>1, ZenonT(60)
    <3>2. CASE m # n
      <4>1. LastSync(m)' = LastSync(m) /\ Stream(m)' = Stream(m) /\ syncing_on_id'[m] = syncing_on_id[m]
          BY <1>2, <1>4, <3>2, ZenonT(60) DEF LastSync
      <4> QED BY <1>1, <1>2, <4>1, ZenonT(60) DEF NumberInv
    <3> QED BY <3>1, <3>2
  <2>3. ASSUME NEW m \in Node
        PROVE  /\ barriers'[m] = highest_executed_sync_id'[m] + (IF phase'[m] = "barrier" THEN 1 ELSE 0)
               /\ phase'[m] = "barrier" => syncing_on_id'[m] # 0
    <3>1. CASE m = n
        BY <1>1, <1>2, <1>7, <3>1 DEF NumberInv
    <3>2. CASE m # n
        BY <1>1, <1>2, <1>4, <1>7, <3>2, ZenonT(60) DEF NumberInv
    <3> QED BY <3>1, <3>2
  <2>4. pos'[0] > 0
      BY <1>1, <1>2, ZenonT(60) DEF NumberInv
  <2> QED BY <2>1, <2>2, <2>3, <2>4, ZenonT(60) DEF NumberInv
<1>10. BarrierInv'
  <2>1. ASSUME NEW c \in finished \ jobs PROVE c \in finished' \ jobs'
      BY <1>3 DEF Taken
  <2> QED BY <1>1, <1>2, <2>1, ZenonT(60) DEF BarrierInv
<1> QED BY <1>6, <1>8, <1>9, <1>10, ZenonT(60) DEF SyncInv

-----------------------------------------------------------------------------
(* Messages that are sent. *)

\* Messages g that may be sent to node n: a control command announces what was sent, and a SYNC
\* is the only one between what was broadcast so far and b.
ControlsSent(n, g) ==
    \A i \in 1 .. Len(g) : g[i].type # "COMMAND" =>
        \A c \in Due(program, n, Announced(program, g[i])) :
           \/ c \in Taken
           \/ \E j \in 1 .. Len(Stream(n)) : Stream(n)[j].type = "COMMAND" /\ Stream(n)[j].cid = c
SyncsSent(g, b) ==
    /\ \A i \in 1 .. Len(g) : g[i].type = "SYNC" =>
          i = 1 /\ g[i].sync_id \in SyncIds(program) /\ broadcast < g[i].sync_id /\ g[i].sync_id <= b
    /\ \A k \in SyncIds(program) : broadcast < k /\ k <= b =>
          \E i \in 1 .. Len(g) : g[i].type = "SYNC" /\ g[i].sync_id = k

\* Packages and control commands that are sent in this way keep the invariant.
LEMMA SendSync ==
    ASSUME IInv, SyncInv,
           UNCHANGED <<program, pos, phase, barriers, done, syncing_on_id,
                       highest_executed_sync_id, jobs, finished>>,
           broadcast' \in Nat, broadcast <= broadcast', NEW f,
           \A n \in Node : /\ f[n] \in Seq(Message) /\ Stream(n)' = Stream(n) \o f[n]
                           /\ ControlsSent(n, f[n]) /\ SyncsSent(f[n], broadcast')
    PROVE  SyncInv'
<1>1. TypeOK /\ SyncTypeOK /\ ControlInv /\ NumberInv /\ BarrierInv
    BY DEF IInv, SyncInv
<1>2. SyncTypeOK'
    BY <1>1 DEF SyncTypeOK
<1>3. Taken' = Taken
    BY DEF Taken
<1>4. ASSUME NEW n \in Node
      PROVE  /\ ControlsLast(program, n, Stream(n)', Taken)
             /\ SyncsInOrder(program, Stream(n)', LastSync(n), broadcast')
             /\ LastSync(n)' = LastSync(n) /\ LastSync(n) <= broadcast'
  <2>1. PICK s : s = Stream(n)
      OBVIOUS
  <2>2. PICK g \in Seq(Message) : g = f[n] /\ ControlsSent(n, g) /\ SyncsSent(g, broadcast')
      OBVIOUS
  <2>3. s \in Seq(Message) /\ Stream(n)' = s \o g
    <3>1. command_queue[n] \in Seq(Message) /\ inbox[n] \in Seq(Message)
        BY <1>1 DEF TypeOK
    <3>2. Stream(n) \in Seq(Message)
        BY <3>1 DEF Stream
    <3>3. Stream(n)' = Stream(n) \o f[n]
        OBVIOUS
    <3> QED BY <2>1, <2>2, <3>2, <3>3, ZenonT(60)
  <2>4. ControlsLast(program, n, s, Taken)
      BY <1>1, <2>1, ZenonT(60) DEF ControlInv
  <2>5. ControlsLast(program, n, s \o g, Taken)
    <3>1. \A i \in 1 .. Len(g) : g[i].type # "COMMAND" =>
              \A c \in Due(program, n, Announced(program, g[i])) :
                 c \in Taken \/ \E j \in 1 .. Len(s) : s[j].type = "COMMAND" /\ s[j].cid = c
        BY <2>1, <2>2, Zenon DEF ControlsSent
    <3> QED BY <2>3, <2>4, <3>1, ControlsExtended, ZenonT(60)
  <2>6. PICK l \in Nat : l = LastSync(n) /\ l <= broadcast
      BY <1>1, ZenonT(60) DEF NumberInv, SyncTypeOK, LastSync
  <2>7. LastSync(n)' = l
      BY <2>6 DEF LastSync
  <2>8. SyncsInOrder(program, s \o g, l, broadcast')
    <3>1. SyncsInOrder(program, s, l, broadcast) /\ broadcast \in Nat
        BY <1>1, <2>1, <2>6, ZenonT(60) DEF NumberInv, SyncTypeOK
    <3>2. SyncIds(program) \subseteq Nat
        BY <1>1, Numbered, ZenonT(60)
    <3>3. \A i \in 1 .. Len(g) : g[i].type = "SYNC" =>
              i = 1 /\ g[i].sync_id \in SyncIds(program) /\ broadcast < g[i].sync_id /\ g[i].sync_id <= broadcast'
        BY <2>2, ZenonT(60) DEF SyncsSent
    <3>4. \A k \in SyncIds(program) : broadcast < k /\ k <= broadcast' =>
              \E i \in 1 .. Len(g) : g[i].type = "SYNC" /\ g[i].sync_id = k
        BY <2>2, ZenonT(60) DEF SyncsSent
    <3> QED BY <2>3, <2>6, <3>1, <3>2, <3>3, <3>4, SyncsExtended, ZenonT(60)
  <2>9. l <= broadcast'
      BY <1>1, <2>6 DEF SyncTypeOK
  <2> QED BY <2>3, <2>5, <2>6, <2>7, <2>8, <2>9, ZenonT(60)
<1>5. ControlInv'
    BY <1>1, <1>3, <1>4, ZenonT(60) DEF ControlInv, On, Command
<1>6. NumberInv'
  <2>1. ASSUME NEW i \in Syncs', i < pos'[0] PROVE program'.ops[i].id <= broadcast'
    <3>1. i \in Syncs /\ i < pos[0]
        BY <2>1 DEF Syncs
    <3>2. program.ops[i].id \in Nat /\ program.ops[i].id <= broadcast /\ broadcast \in Nat
        BY <1>1, <3>1, Guaranteed, ZenonT(60) DEF NumberInv, SyncTypeOK, OpsNumbered, Syncs
    <3> QED BY <3>2
  <2> QED BY <1>1, <1>4, <2>1, ZenonT(60) DEF NumberInv
<1>7. BarrierInv'
    BY <1>1 DEF BarrierInv
<1> QED BY <1>2, <1>5, <1>6, <1>7, ZenonT(60) DEF SyncInv

\* When the scheduler is idle, the commands of the tasks that were created have been sent.
LEMMA IdleSent ==
    ASSUME IInv, is_idle, NEW T \in SUBSET DOMAIN program.flushes, \A t \in T : has_task(0, t),
           NEW n \in Node, NEW c \in Due(program, n, T)
    PROVE  \/ c \in Taken
           \/ \E j \in 1 .. Len(Stream(n)) : Stream(n)[j].type = "COMMAND" /\ Stream(n)[j].cid = c
<1>1. TypeOK /\ StreamsInOrder
    BY DEF IInv
<1>2. PICK t \in T : \E i \in DOMAIN program.flushes[t][n] : program.flushes[t][n][i].cid = c
    BY ZenonT(60) DEF Due
<1>3. PICK i \in DOMAIN program.flushes[t][n] : program.flushes[t][n][i].cid = c
    BY <1>2, ZenonT(60)
<1>4. t \in Nat /\ DOMAIN program.flushes = 1 .. Len(program.flushes) /\ Len(program.flushes) \in Nat
    BY <1>1, Places
<1>5. t \in 1 .. scheduled
  <2>1. t <= scheduled
      BY <1>2 DEF is_idle
  <2>2. scheduled \in Nat /\ t \in 1 .. Len(program.flushes)
      BY <1>1, <1>4 DEF TypeOK
  <2> QED BY <2>1, <2>2
<1>6. program.flushes[t][n][i] \in SentTo(n)
  <2>1. program.flushes[t][n][i] \in Elements(program.flushes[t][n])
      BY <1>3, ZenonT(60) DEF Elements
  <2> QED BY <1>5, <2>1, ZenonT(60) DEF SentTo
<1>7. NoneLost(Stream(n), SentTo(n), Taken)
    BY <1>1 DEF StreamsInOrder, InOrder
<1> QED BY <1>3, <1>6, <1>7, ZenonT(60) DEF NoneLost

\* A control command is broadcast when the tasks it announces are scheduled.
LEMMA BroadcastSync ==
    ASSUME IInv, SyncInv, NEW pkg \in Control, broadcast_control_command(pkg),
           NEW T, T = Announced(program, pkg), T \subseteq DOMAIN program.flushes,
           \A t \in T : has_task(0, t),
           pkg.type = "SYNC" => pkg.sync_id = broadcast + 1 /\ broadcast + 1 \in SyncIds(program),
           pkg.type # "SYNC" => broadcast + 1 \notin SyncIds(program)
    PROVE  SyncInv'
<1>1. TypeOK /\ SyncTypeOK
    BY DEF IInv, SyncInv
<1>2. /\ UNCHANGED <<program, pos, scheduled, command_queue, phase, barriers, done, syncing_on_id,
                     highest_executed_sync_id, jobs, finished>>
      /\ is_idle /\ broadcast' = broadcast + 1 /\ inbox' = [n \in Node |-> Append(inbox[n], pkg)]
    BY DEF broadcast_control_command, loop_vars, job_vars
<1>3. broadcast \in Nat /\ broadcast' \in Nat /\ broadcast <= broadcast'
    BY <1>1, <1>2 DEF SyncTypeOK
<1>4. pkg \in Message /\ pkg.type # "COMMAND"
    BY DEF Message, Control
<1>5. PICK g : g = <<pkg>>
    BY ZenonT(60)
<1>6. g \in Seq(Message) /\ Len(g) = 1 /\ g[1] = pkg
    BY <1>4, <1>5
<1>7. PICK f : f = [n \in Node |-> g]
    BY ZenonT(60)
<1>8. ASSUME NEW n \in Node
      PROVE  /\ f[n] \in Seq(Message) /\ Stream(n)' = Stream(n) \o f[n]
             /\ ControlsSent(n, f[n]) /\ SyncsSent(f[n], broadcast')
  <2>1. command_queue[n] \in Seq(Message) /\ inbox[n] \in Seq(Message)
      BY <1>1 DEF TypeOK
  <2>2. inbox'[n] = Append(inbox[n], pkg)
      BY <1>2
  <2>3. command_queue[n] \o Append(inbox[n], pkg) = (command_queue[n] \o inbox[n]) \o <<pkg>>
      BY <1>4, <2>1, AddedLast, Zenon
  <2>4. Stream(n)' = Stream(n) \o g
      BY <1>2, <1>5, <2>2, <2>3, Zenon DEF Stream
  <2>5. \A i \in 1 .. Len(g) : i = 1 /\ g[i] = pkg
      BY <1>6
  <2>6. ControlsSent(n, g)
    <3>1. ASSUME NEW c \in Due(program, n, Announced(program, pkg))
          PROVE  \/ c \in Taken
                 \/ \E j \in 1 .. Len(Stream(n)) : Stream(n)[j].type = "COMMAND" /\ Stream(n)[j].cid = c
        BY <1>2, IdleSent
    <3> QED BY <2>5, <3>1, Zenon DEF ControlsSent
  <2>7. SyncsSent(g, broadcast')
    <3>1. ASSUME NEW k \in SyncIds(program), broadcast < k, k <= broadcast'
          PROVE  k = broadcast + 1
      <4>1. k \in Nat
          BY <1>1, Numbered
      <4> QED BY <1>2, <1>3, <3>1, <4>1
    <3>2. 1 \in 1 .. Len(g)
        BY <1>6
    <3> QED BY <1>2, <1>3, <1>6, <2>5, <3>1, <3>2 DEF SyncsSent
  <2> QED BY <1>6, <1>7, <2>4, <2>6, <2>7, ZenonT(60)
<1> QED BY <1>2, <1>3, <1>8, SendSync, ZenonT(60)

\* sync on the master: its number is the next one.
LEMMA SyncSent ==
    ASSUME IInv, SyncInv, sync
    PROVE  SyncInv'
<1>1. TypeOK /\ SyncTypeOK /\ NumberInv /\ 0 \in Node
    BY ExecutorAssumption DEF IInv, SyncInv
<1>2. PICK i \in Nat : i = pos[0]
    BY <1>1 DEF TypeOK
<1>3. PICK k : k = program.ops[i].id
    OBVIOUS
<1>4. /\ i <= Len(program.ops) /\ program.ops[i].op = "sync" /\ broadcast < k
      /\ broadcast_control_command(Package("SYNC", 0, {}, k))
    BY <1>2, <1>3, ZenonT(60) DEF sync, AtOp
<1>5. PICK pkg : pkg = Package("SYNC", 0, {}, k)
    OBVIOUS
<1>6. OpsNumbered(program) /\ Len(program.ops) \in Nat /\ DOMAIN program.ops = 1 .. Len(program.ops)
    BY <1>1, Guaranteed, Numbered, ZenonT(60)
<1>7. i \in Syncs
  <2>1. i # 0
      BY <1>1, <1>2 DEF NumberInv
  <2> QED BY <1>4, <1>6, <2>1 DEF Syncs
<1>8. k \in Nat \ {0} /\ k \in SyncIds(program) /\ broadcast \in Nat
    BY <1>1, <1>3, <1>6, <1>7, ZenonT(60) DEF OpsNumbered, Syncs, SyncIds, SyncTypeOK
<1>9. k = broadcast + 1
  <2>1. CASE k = 1
      BY <1>4, <1>8, <2>1
  <2>2. CASE k > 1
    <3>1. PICK j \in Syncs : j < i /\ program.ops[j].id = k - 1
        BY <1>3, <1>6, <1>7, <2>2, ZenonT(60) DEF OpsNumbered, Syncs
    <3>2. k - 1 <= broadcast
        BY <1>1, <1>2, <3>1, ZenonT(60) DEF NumberInv
    <3> QED BY <1>4, <1>8, <3>2
  <2> QED BY <1>8, <2>1, <2>2
<1>10. /\ pkg.type = "SYNC" /\ pkg.sync_id = k /\ pkg \in Control
  <2>1. k \in SyncId
      BY <1>1, <1>2, <1>3 DEF SyncId, TypeOK
  <2> QED BY <1>5, <2>1 DEF Package, Control
<1>11. ASSUME NEW t \in TasksUpTo(program, k) PROVE has_task(0, t)
  <2>1. PICK h, j \in DOMAIN program.ops :
            h < j /\ program.ops[h] = [op |-> "task", id |-> t] /\ program.ops[j] = [op |-> "sync", id |-> k]
      BY DEF TasksUpTo
  <2>2. j \in Syncs /\ program.ops[j].id = k
      BY <2>1 DEF Syncs
  <2>3. j = i
      BY <1>3, <1>6, <1>7, <2>2, ZenonT(60) DEF OpsNumbered, Syncs
  <2>4. h \in 1 .. pos[0] - 1
      BY <1>2, <1>6, <2>1, <2>3
  <2> QED BY <2>1, <2>4 DEF has_task, Passed
<1>12. Announced(program, pkg) = TasksUpTo(program, k) /\ TasksUpTo(program, k) \subseteq DOMAIN program.flushes
    BY <1>10 DEF Announced, TasksUpTo
<1> QED BY <1>4, <1>5, <1>8, <1>9, <1>10, <1>11, <1>12, BroadcastSync, ZenonT(60)

\* shutdown on the master: all tasks have been scheduled and all syncs broadcast.
LEMMA ShutdownSent ==
    ASSUME IInv, SyncInv, shutdown
    PROVE  SyncInv'
<1>1. TypeOK /\ SyncTypeOK /\ NumberInv
    BY DEF IInv, SyncInv
<1>2. /\ pos[0] = Len(program.ops) + 1
      /\ broadcast_control_command(Package("SHUTDOWN", 0, {}, 0))
    BY DEF shutdown
<1>3. PICK pkg : pkg = Package("SHUTDOWN", 0, {}, 0)
    OBVIOUS
<1>4. pkg.type = "SHUTDOWN" /\ pkg \in Control
    BY <1>3 DEF Package, Control
<1>5. OpsNumbered(program) /\ Len(program.ops) \in Nat /\ DOMAIN program.ops = 1 .. Len(program.ops)
    BY <1>1, Guaranteed, Numbered, ZenonT(60)
<1>6. ASSUME NEW t \in DOMAIN program.flushes PROVE has_task(0, t)
  <2>1. PICK i \in DOMAIN program.ops : program.ops[i] = [op |-> "task", id |-> t]
      BY <1>5, ZenonT(60) DEF OpsNumbered
  <2>2. i \in 1 .. pos[0] - 1
      BY <1>2, <1>5
  <2> QED BY <2>1, <2>2 DEF has_task, Passed
<1>7. broadcast + 1 \notin SyncIds(program)
  <2>1. SUFFICES ASSUME NEW i \in Syncs, program.ops[i].id = broadcast + 1 PROVE FALSE
      BY DEF SyncIds, Syncs
  <2>2. i < pos[0]
      BY <1>2, <1>5 DEF Syncs
  <2>3. broadcast + 1 <= broadcast /\ broadcast \in Nat
      BY <1>1, <2>1, <2>2, ZenonT(60) DEF NumberInv, SyncTypeOK
  <2> QED BY <2>3
<1>8. Announced(program, pkg) = DOMAIN program.flushes
    BY <1>4 DEF Announced
<1> QED BY <1>2, <1>3, <1>4, <1>6, <1>7, <1>8, BroadcastSync, ZenonT(60)

\* The scheduler flushes commands only.
LEMMA ScheduledSync ==
    ASSUME IInv, SyncInv, schedule
    PROVE  SyncInv'
<1>1. TypeOK /\ SyncTypeOK
    BY DEF IInv, SyncInv
<1>2. /\ UNCHANGED <<program, pos, broadcast, command_queue, phase, barriers, done, syncing_on_id,
                     highest_executed_sync_id, jobs, finished>>
      /\ scheduled + 1 \in DOMAIN program.flushes
      /\ inbox' = [n \in Node |-> inbox[n] \o program.flushes[scheduled + 1][n]]
    BY ZenonT(60) DEF schedule, loop_vars, job_vars
<1>3. PICK t \in DOMAIN program.flushes : t = scheduled + 1
    BY <1>2, ZenonT(60)
<1>4. PICK f : f = program.flushes[t]
    OBVIOUS
<1>5. broadcast' \in Nat /\ broadcast <= broadcast' /\ \A k \in Nat : ~(broadcast < k /\ k <= broadcast')
    BY <1>1, <1>2 DEF SyncTypeOK
<1>6. SyncIds(program) \subseteq Nat
    BY <1>1, Numbered
<1>7. ASSUME NEW n \in Node
      PROVE  /\ f[n] \in Seq(Message) /\ Stream(n)' = Stream(n) \o f[n]
             /\ ControlsSent(n, f[n]) /\ SyncsSent(f[n], broadcast')
  <2>1. f[n] \in Seq(CommandPackage)
      BY <1>1, <1>4, Places, ZenonT(60)
  <2>2. command_queue[n] \in Seq(Message) /\ inbox[n] \in Seq(Message) /\ f[n] \in Seq(Message)
      BY <1>1, <2>1 DEF TypeOK, Message
  <2>3. inbox'[n] = inbox[n] \o f[n]
      BY <1>2, <1>3, <1>4, ZenonT(60)
  <2>4. (command_queue[n] \o inbox[n]) \o f[n] = command_queue[n] \o (inbox[n] \o f[n])
      BY <2>2, Joined, ZenonT(60)
  <2>5. Stream(n)' = Stream(n) \o f[n]
      BY <1>2, <2>3, <2>4, Zenon DEF Stream
  <2>6. ASSUME NEW i \in 1 .. Len(f[n]) PROVE f[n][i].type = "COMMAND"
    <3>1. f[n][i] \in CommandPackage
        BY <2>1
    <3> QED BY <3>1 DEF CommandPackage
  <2>7. ControlsSent(n, f[n])
      BY <2>6, Zenon DEF ControlsSent
  <2>8. SyncsSent(f[n], broadcast')
      BY <1>5, <1>6, <2>6, ZenonT(60) DEF SyncsSent
  <2> QED BY <2>2, <2>5, <2>7, <2>8, ZenonT(60)
<1> QED BY <1>2, <1>5, <1>7, SendSync, ZenonT(60)

-----------------------------------------------------------------------------
(* The other steps. *)

\* The streams and the jobs are left alone.
LEMMA StreamsUntouched ==
    ASSUME IInv, SyncInv, UNCHANGED <<program, inbox, command_queue, jobs, finished>>
    PROVE  /\ Taken' = Taken /\ \A n \in Node : Stream(n)' = Stream(n)
           /\ \A n \in Node : ControlsLast(program', n, Stream(n)', Taken')
           /\ \A n \in Node : On(n, jobs)' = On(n, jobs)
           /\ Syncs' = Syncs
<1>1. Taken' = Taken /\ \A n \in Node : Stream(n)' = Stream(n)
    BY DEF Taken, Stream
<1>2. \A n \in Node : ControlsLast(program, n, Stream(n), Taken)
    BY DEF SyncInv, ControlInv
<1>3. \A n \in Node : On(n, jobs)' = On(n, jobs)
    BY DEF On, Command
<1>4. Syncs' = Syncs
    BY DEF Syncs
<1> QED BY <1>1, <1>2, <1>3, <1>4, ZenonT(60)

\* The main threads move on: the master passes a sync that was broadcast.
LEMMA MainSync ==
    ASSUME IInv, SyncInv, NEW n \in Node, MainThread(n)
    PROVE  SyncInv'
<1>1. TypeOK /\ SyncTypeOK /\ ControlInv /\ NumberInv /\ BarrierInv /\ 0 \in Node
    BY ExecutorAssumption DEF IInv, SyncInv
<1>2. /\ UNCHANGED <<program, broadcast, inbox, command_queue, phase, barriers, done, syncing_on_id,
                     highest_executed_sync_id, jobs, finished>>
      /\ pos' = [pos EXCEPT ![n] = pos[n] + 1]
      /\ \/ program.ops[pos[n]].op # "sync"
         \/ highest_executed_sync_id[n] >= program.ops[pos[n]].id
    BY ZenonT(60) DEF MainThread, create, sync_return, AtOp, loop_vars, job_vars
<1>3. /\ Taken' = Taken /\ \A m \in Node : Stream(m)' = Stream(m)
      /\ \A m \in Node : ControlsLast(program', m, Stream(m)', Taken')
      /\ \A m \in Node : On(m, jobs)' = On(m, jobs)
      /\ Syncs' = Syncs
    BY <1>2, StreamsUntouched, ZenonT(60)
<1>4. pos[0] \in Nat /\ pos[0] > 0 /\ pos'[0] = IF n = 0 THEN pos[0] + 1 ELSE pos[0]
    BY <1>1, <1>2, ZenonT(60) DEF TypeOK, NumberInv
<1>5. ASSUME NEW i \in Syncs, i < pos'[0] PROVE program.ops[i].id <= broadcast
  <2>1. i \in Nat /\ program.ops[i].op = "sync" /\ program.ops[i].id \in Nat
      BY <1>1, Numbered, Guaranteed DEF Syncs, OpsNumbered
  <2>2. CASE i < pos[0]
      BY <1>1, <2>2, ZenonT(60) DEF NumberInv
  <2>3. CASE ~(i < pos[0])
    <3>1. n = 0 /\ i = pos[0]
        BY <1>4, <1>5, <2>1, <2>3
    <3>2. highest_executed_sync_id[0] >= program.ops[i].id
        BY <1>2, <2>1, <3>1, ZenonT(60)
    <3>3. /\ highest_executed_sync_id[0] \in Nat /\ syncing_on_id[0] \in Nat /\ broadcast \in Nat
          /\ syncing_on_id[0] \in {0, highest_executed_sync_id[0] + 1} /\ LastSync(0) <= broadcast
        BY <1>1 DEF NumberInv, SyncTypeOK
    <3>4. highest_executed_sync_id[0] <= broadcast
        BY <3>3 DEF LastSync
    <3> QED BY <2>1, <3>2, <3>3, <3>4
  <2> QED BY <2>2, <2>3
<1>6. SyncTypeOK'
    BY <1>1, <1>2, ZenonT(60) DEF SyncTypeOK
<1>7. ControlInv'
    BY <1>1, <1>2, <1>3, ZenonT(60) DEF ControlInv
<1>8. NumberInv'
  <2>1. pos'[0] > 0 /\ \A i \in Syncs' : i < pos'[0] => program'.ops[i].id <= broadcast'
      BY <1>2, <1>3, <1>4, <1>5
  <2>2. \A m \in Node : LastSync(m)' = LastSync(m)
      BY <1>2 DEF LastSync
  <2> QED BY <1>1, <1>2, <1>3, <2>1, <2>2, ZenonT(60) DEF NumberInv
<1>9. BarrierInv'
    BY <1>1, <1>2, ZenonT(60) DEF BarrierInv
<1> QED BY <1>6, <1>7, <1>8, <1>9, ZenonT(60) DEF SyncInv

\* The loop of an executor: it polls or exits, ...
LEMMA LoopSync ==
    ASSUME IInv, SyncInv, NEW n \in Node, NEW to \in {"jobs", "exited"}, phase[n] = "poll",
           phase' = [phase EXCEPT ![n] = to], to = "exited" => n \in done /\ On(n, jobs) = {},
           UNCHANGED <<program, pos, broadcast, inbox, command_queue, barriers, done, syncing_on_id,
                       highest_executed_sync_id, jobs, finished>>
    PROVE  SyncInv'
<1>1. TypeOK /\ SyncTypeOK /\ ControlInv /\ NumberInv /\ BarrierInv
    BY DEF IInv, SyncInv
<1>2. /\ Taken' = Taken /\ \A m \in Node : Stream(m)' = Stream(m)
      /\ \A m \in Node : ControlsLast(program', m, Stream(m)', Taken')
      /\ \A m \in Node : On(m, jobs)' = On(m, jobs)
      /\ Syncs' = Syncs
    BY StreamsUntouched
<1>3. \A m \in Node : phase'[m] = IF m = n THEN to ELSE phase[m]
    BY <1>1 DEF SyncTypeOK
<1>4. SyncTypeOK'
    BY <1>1 DEF SyncTypeOK
<1>5. ControlInv'
    BY <1>1, <1>2, <1>3, ZenonT(60) DEF ControlInv
<1>6. NumberInv'
  <2>1. \A m \in Node : LastSync(m)' = LastSync(m)
      BY DEF LastSync
  <2>2. \A m \in Node : phase'[m] = "barrier" <=> phase[m] = "barrier"
      BY <1>3
  <2> QED BY <1>1, <1>2, <2>1, <2>2, ZenonT(60) DEF NumberInv
<1>7. BarrierInv'
    BY <1>1 DEF BarrierInv
<1> QED BY <1>4, <1>5, <1>6, <1>7, ZenonT(60) DEF SyncInv

\* ... enters a barrier when the commands before the sync are done, ...
LEMMA EnterSync ==
    ASSUME IInv, SyncInv, NEW n \in Node, enter_barrier(n)
    PROVE  SyncInv'
<1>1. TypeOK /\ SyncTypeOK /\ ControlInv /\ NumberInv /\ BarrierInv
    BY DEF IInv, SyncInv
<1>2. /\ phase[n] = "poll" /\ phase' = [phase EXCEPT ![n] = "barrier"]
      /\ syncing_on_id[n] # 0 /\ On(n, jobs) = {}
      /\ barriers' = [barriers EXCEPT ![n] = barriers[n] + 1]
      /\ UNCHANGED <<program, pos, broadcast, inbox, command_queue, done, syncing_on_id,
                     highest_executed_sync_id, jobs, finished>>
    BY <1>1 DEF enter_barrier, AtBarrier, main_vars, job_vars, SyncTypeOK
<1>3. /\ Taken' = Taken /\ \A m \in Node : Stream(m)' = Stream(m)
      /\ \A m \in Node : ControlsLast(program', m, Stream(m)', Taken')
      /\ \A m \in Node : On(m, jobs)' = On(m, jobs)
      /\ Syncs' = Syncs
    BY <1>2, StreamsUntouched, ZenonT(60)
<1>4. /\ phase' \in [Node -> {"poll", "jobs", "barrier", "exited"}] /\ barriers' \in [Node -> Nat]
      /\ \A m \in Node : /\ phase'[m] = IF m = n THEN "barrier" ELSE phase[m]
                         /\ barriers'[m] = IF m = n THEN barriers[m] + 1 ELSE barriers[m]
                         /\ barriers[m] \in Nat /\ highest_executed_sync_id[m] \in Nat
    BY <1>1, <1>2 DEF SyncTypeOK
<1>5. /\ barriers[n] = highest_executed_sync_id[n]
      /\ syncing_on_id[n] = highest_executed_sync_id[n] + 1
    BY <1>1, <1>2, <1>4 DEF NumberInv
<1>6. SyncTypeOK'
    BY <1>1, <1>2, <1>4, ZenonT(60) DEF SyncTypeOK
<1>7. ControlInv'
    BY <1>1, <1>2, <1>3, <1>4, ZenonT(60) DEF ControlInv
<1>8. NumberInv'
  <2>1. \A m \in Node : LastSync(m)' = LastSync(m)
      BY <1>2 DEF LastSync
  <2>2. ASSUME NEW m \in Node
        PROVE  /\ barriers'[m] = highest_executed_sync_id'[m] + (IF phase'[m] = "barrier" THEN 1 ELSE 0)
               /\ phase'[m] = "barrier" => syncing_on_id'[m] # 0
    <3>1. CASE m = n
        BY <1>2, <1>4, <1>5, <3>1, ZenonT(60)
    <3>2. CASE m # n
        BY <1>1, <1>2, <1>4, <3>2, ZenonT(60) DEF NumberInv
    <3> QED BY <3>1, <3>2
  <2> QED BY <1>1, <1>2, <1>3, <2>1, <2>2, ZenonT(60) DEF NumberInv
<1>9. BarrierInv'
  <2>1. ASSUME NEW m \in Node, NEW k \in 1 .. barriers'[m]
        PROVE  Due(program, m, TasksUpTo(program, k)) \subseteq finished \ jobs
    <3>1. CASE k \in 1 .. barriers[m]
        BY <1>1, <3>1 DEF BarrierInv
    <3>2. CASE k \notin 1 .. barriers[m]
      <4>1. m = n /\ k = syncing_on_id[n]
          BY <1>4, <1>5, <2>1, <3>2
      <4>2. Due(program, n, TasksUpTo(program, k)) \subseteq Taken
          BY <1>1, <1>2, <4>1, ZenonT(60) DEF ControlInv
      <4>3. \A c \in Due(program, n, TasksUpTo(program, k)) : c \notin jobs
          BY <1>2, ZenonT(60) DEF Due, On, Command
      <4> QED BY <4>1, <4>2, <4>3, ZenonT(60) DEF Taken
    <3> QED BY <3>1, <3>2
  <2>2. ASSUME NEW l \in Node, NEW m \in Node PROVE highest_executed_sync_id[l] <= barriers'[m]
    <3>1. highest_executed_sync_id[l] <= barriers[m]
        BY <1>1 DEF BarrierInv
    <3> QED BY <1>4, <3>1
  <2> QED BY <1>2, <2>1, <2>2, ZenonT(60) DEF BarrierInv
<1> QED BY <1>6, <1>7, <1>8, <1>9, ZenonT(60) DEF SyncInv

\* ... and leaves it when all have entered it.
LEMMA LeaveSync ==
    ASSUME IInv, SyncInv, NEW n \in Node, leave_barrier(n)
    PROVE  SyncInv'
<1>1. TypeOK /\ SyncTypeOK /\ ControlInv /\ NumberInv /\ BarrierInv
    BY DEF IInv, SyncInv
<1>2. /\ phase[n] = "barrier" /\ phase' = [phase EXCEPT ![n] = "poll"]
      /\ \A k \in Node : barriers[k] >= barriers[n]
      /\ highest_executed_sync_id' = [highest_executed_sync_id EXCEPT ![n] = syncing_on_id[n]]
      /\ syncing_on_id' = [syncing_on_id EXCEPT ![n] = 0]
      /\ UNCHANGED <<program, pos, broadcast, inbox, command_queue, done, barriers, jobs, finished>>
    BY DEF leave_barrier, main_vars, job_vars
<1>3. /\ Taken' = Taken /\ \A m \in Node : Stream(m)' = Stream(m)
      /\ \A m \in Node : ControlsLast(program', m, Stream(m)', Taken')
      /\ \A m \in Node : On(m, jobs)' = On(m, jobs)
      /\ Syncs' = Syncs
    BY <1>2, StreamsUntouched, ZenonT(60)
<1>4. /\ SyncTypeOK'
      /\ \A m \in Node :
            /\ phase'[m] = IF m = n THEN "poll" ELSE phase[m]
            /\ highest_executed_sync_id'[m] = IF m = n THEN syncing_on_id[n] ELSE highest_executed_sync_id[m]
            /\ syncing_on_id'[m] = IF m = n THEN 0 ELSE syncing_on_id[m]
    BY <1>1, <1>2, ZenonT(60) DEF SyncTypeOK
<1>5. /\ barriers[n] = highest_executed_sync_id[n] + 1 /\ syncing_on_id[n] # 0
      /\ syncing_on_id[n] = highest_executed_sync_id[n] + 1
    BY <1>1, <1>2, ZenonT(60) DEF NumberInv
<1>6. ControlInv'
    BY <1>1, <1>2, <1>3, <1>4 DEF ControlInv
<1>7. NumberInv'
  <2>1. ASSUME NEW m \in Node PROVE LastSync(m)' = LastSync(m)
      BY <1>2, <1>4, <1>5, ZenonT(60) DEF LastSync
  <2>2. ASSUME NEW m \in Node
        PROVE  /\ syncing_on_id'[m] \in {0, highest_executed_sync_id'[m] + 1}
               /\ barriers'[m] = highest_executed_sync_id'[m] + (IF phase'[m] = "barrier" THEN 1 ELSE 0)
               /\ phase'[m] = "barrier" => syncing_on_id'[m] # 0
    <3>1. CASE m = n
      <4>1. syncing_on_id[n] \in Nat
          BY <1>1 DEF SyncTypeOK
      <4> QED BY <1>2, <1>4, <1>5, <3>1, <4>1
    <3>2. CASE m # n
        BY <1>1, <1>2, <1>4, <3>2, ZenonT(60) DEF NumberInv
    <3> QED BY <3>1, <3>2
  <2> QED BY <1>1, <1>2, <1>3, <2>1, <2>2, ZenonT(60) DEF NumberInv
<1>8. BarrierInv'
  <2>1. ASSUME NEW l \in Node, NEW m \in Node PROVE highest_executed_sync_id'[l] <= barriers[m]
    <3>1. /\ highest_executed_sync_id[l] <= barriers[m] /\ barriers[n] <= barriers[m]
        BY <1>1, <1>2, ZenonT(60) DEF BarrierInv, SyncTypeOK
    <3> QED BY <1>4, <1>5, <3>1, ZenonT(60)
  <2> QED BY <1>1, <1>2, <2>1, ZenonT(60) DEF BarrierInv
<1> QED BY <1>4, <1>6, <1>7, <1>8, ZenonT(60) DEF SyncInv

\* Initially nothing is sent.
LEMMA InitSync ==
    Counting /\ Init => SyncInv
<1> SUFFICES ASSUME Counting, Init PROVE SyncInv
    OBVIOUS
<1>1. IInv /\ 0 \in Node
    BY InitInv, ExecutorAssumption
<1>2. /\ pos = [n \in Node |-> 1] /\ broadcast = 0 /\ phase = [n \in Node |-> "poll"]
      /\ barriers = [n \in Node |-> 0] /\ done = {} /\ syncing_on_id = [n \in Node |-> 0]
      /\ highest_executed_sync_id = [n \in Node |-> 0] /\ jobs = {} /\ finished = {}
    BY DEF Init
<1>3. ASSUME NEW n \in Node PROVE Len(Stream(n)) = 0 /\ LastSync(n) = 0
  <2>1. Stream(n) = <<>>
      BY DEF Init, Stream
  <2> QED BY <1>2, <2>1 DEF LastSync
<1>4. SyncTypeOK
    BY <1>2 DEF SyncTypeOK
<1>5. ControlInv
    BY <1>2, <1>3 DEF ControlInv, ControlsLast
<1>6. NumberInv
  <2>1. SyncIds(program) \subseteq Nat \ {0} /\ Syncs = {i \in 1 .. Len(program.ops) : program.ops[i].op = "sync"}
      BY <1>1, Numbered DEF IInv
  <2>2. pos[0] = 1 /\ \A i \in Syncs : ~(i < pos[0])
      BY <1>1, <1>2, <2>1
  <2>3. ASSUME NEW n \in Node PROVE SyncsInOrder(program, Stream(n), LastSync(n), broadcast)
      BY <1>2, <1>3, <2>1 DEF SyncsInOrder
  <2> QED BY <1>2, <1>3, <2>2, <2>3 DEF NumberInv
<1>7. BarrierInv
    BY <1>2 DEF BarrierInv
<1> QED BY <1>4, <1>5, <1>6, <1>7, ZenonT(60) DEF SyncInv

\* Every step of every thread keeps the invariant.
LEMMA SyncPreserved ==
    IInv /\ SyncInv /\ [Next]_vars => SyncInv'
<1> SUFFICES ASSUME IInv, SyncInv, [Next]_vars PROVE SyncInv'
    OBVIOUS
<1>1. ASSUME UNCHANGED <<program, pos, broadcast, inbox, command_queue, phase, barriers, done,
                         syncing_on_id, highest_executed_sync_id, jobs, finished>>
      PROVE  SyncInv'
  <2>1. /\ Taken' = Taken /\ \A m \in Node : Stream(m)' = Stream(m)
        /\ \A m \in Node : ControlsLast(program', m, Stream(m)', Taken')
        /\ \A m \in Node : On(m, jobs)' = On(m, jobs)
        /\ Syncs' = Syncs
      BY <1>1, StreamsUntouched
  <2>2. \A m \in Node : LastSync(m)' = LastSync(m)
      BY <1>1 DEF LastSync
  <2>3. SyncTypeOK' /\ BarrierInv'
      BY <1>1 DEF SyncInv, SyncTypeOK, BarrierInv
  <2>4. ControlInv'
      BY <1>1, <2>1, ZenonT(60) DEF SyncInv, ControlInv
  <2>5. NumberInv'
      BY <1>1, <2>1, <2>2, ZenonT(60) DEF SyncInv, NumberInv
  <2> QED BY <2>3, <2>4, <2>5 DEF SyncInv
<1>2. ASSUME NEW n \in Node, MainThread(n) PROVE SyncInv'
    BY <1>2, MainSync
<1>3. CASE schedule
    BY <1>3, ScheduledSync
<1>4. CASE sync
    BY <1>4, SyncSent
<1>5. CASE shutdown
    BY <1>5, ShutdownSent
<1>6. ASSUME NEW c \in submitted \ complete, run_kernel(c) PROVE SyncInv'
    BY <1>1, <1>6, ZenonT(60) DEF run_kernel, main_vars, loop_vars, job_vars
<1>7. ASSUME NEW n \in Node, enter_barrier(n) PROVE SyncInv'
    BY <1>7, EnterSync
<1>8. ASSUME NEW n \in Node, leave_barrier(n) PROVE SyncInv'
    BY <1>8, LeaveSync
<1>9. ASSUME NEW n \in Node, exit(n) PROVE SyncInv'
  <2>1. /\ phase[n] = "poll" /\ phase' = [phase EXCEPT ![n] = "exited"]
        /\ n \in done /\ On(n, jobs) = {}
        /\ UNCHANGED <<program, pos, broadcast, inbox, command_queue, barriers, done, syncing_on_id,
                       highest_executed_sync_id, jobs, finished>>
      BY <1>9 DEF exit, LoopAgain, main_vars, job_vars
  <2> QED BY <2>1, LoopSync, ZenonT(60)
<1>10. ASSUME NEW n \in Node, NEW r \in Reports(n), poll_transfers(n, r) PROVE SyncInv'
  <2>1. /\ phase[n] = "poll" /\ phase' = [phase EXCEPT ![n] = "jobs"]
        /\ UNCHANGED <<program, pos, broadcast, inbox, command_queue, barriers, done, syncing_on_id,
                       highest_executed_sync_id, jobs, finished>>
      BY <1>10 DEF poll_transfers, main_vars, job_vars
  <2> QED BY <2>1, LoopSync, ZenonT(60)
<1>11. ASSUME NEW n \in Node, NEW a, a = <<>> \/ (inbox[n] # <<>> /\ a = <<Head(inbox[n])>>),
              finish_pass(n, a)
       PROVE  SyncInv'
  <2>1. PICK K : /\ PassFrame(n) /\ PassJobs(n, K)
                 /\ TakesNone(n, K) \/ \E m : Takes(n, K, m)
      BY <1>11, PassTakes
  <2> QED BY <2>1, PassSync
<1>12. ASSUME NEW n \in Node, receive(n) \/ receive_nothing(n) PROVE SyncInv'
    BY <1>11, <1>12 DEF receive, receive_nothing
<1>13. CASE UNCHANGED vars
    BY <1>1, <1>13, ZenonT(60) DEF vars, run_vars, main_vars, loop_vars, job_vars
<1> QED BY <1>2, <1>3, <1>4, <1>5, <1>6, <1>7, <1>8, <1>9, <1>10, <1>12, <1>13, ZenonT(60)
        DEF Next, Environment, ExecutorThread

\* What the invariants say of syncs and of the shutdown: when the first executor has passed the
\* barrier of a sync, all that was submitted before is done everywhere; and when the loops have
\* ended, nothing is under way.
LEMMA SyncFollows ==
    ASSUME IInv, DataInv, SyncInv
    PROVE  SyncQuiesces /\ NothingLeftBehind
<1>1. ASSUME NEW n \in Node, NEW c \in DOMAIN program.command,
             NEW k \in 1 .. highest_executed_sync_id[n], Command(c).tid \in TasksBefore(k)
      PROVE  c \in finished \ jobs
  <2>1. TypeOK /\ SyncTypeOK /\ BarrierInv
      BY DEF IInv, SyncInv
  <2>2. PICK m \in Node : m = Command(c).nid
    <3>1. WellFormed(program)
        BY <2>1, FlushTypes
    <3> QED BY <1>1, <3>1, ZenonT(60) DEF WellFormed, Command
  <2>3. PICK t \in DOMAIN program.flushes :
            /\ \E i \in DOMAIN program.flushes[t][m] : program.flushes[t][m][i].cid = c
            /\ Command(c).tid \in {0, t}
    <3>1. AllSent(program)
        BY <2>1, Guaranteed
    <3> QED BY <1>1, <2>2, <3>1, ZenonT(60) DEF AllSent, Command
  <2>4. Command(c).tid \in DOMAIN program.flushes /\ Command(c).tid # 0
    <3>1. Command(c).tid \in DOMAIN program.flushes
        BY <1>1 DEF TasksBefore
    <3>2. DOMAIN program.flushes = 1 .. Len(program.flushes) /\ Len(program.flushes) \in Nat
        BY <2>1, <2>2, <2>3, Places, ZenonT(60)
    <3> QED BY <3>1, <3>2
  <2>5. c \in Due(program, m, TasksUpTo(program, k))
    <3>1. t \in TasksUpTo(program, k)
        BY <1>1, <2>3, <2>4, ZenonT(60) DEF TasksBefore, TasksUpTo
    <3> QED BY <1>1, <2>2, <2>3, <3>1, ZenonT(60) DEF Due, Command
  <2>6. k \in 1 .. barriers[m]
    <3>1. highest_executed_sync_id[n] <= barriers[m]
        BY <2>1 DEF BarrierInv
    <3>2. highest_executed_sync_id[n] \in Nat /\ barriers[m] \in Nat
        BY <2>1 DEF SyncTypeOK
    <3> QED BY <1>1, <3>1, <3>2
  <2> QED BY <2>1, <2>5, <2>6, ZenonT(60) DEF BarrierInv
<1>2. SyncQuiesces
    BY <1>1 DEF SyncQuiesces
<1>3. ASSUME Terminated
      PROVE  /\ finished = DOMAIN program.command /\ jobs = {}
             /\ outgoing_transfers \cup sent \cup incoming_transfers \cup awaiting \cup received = {}
  <2>1. TypeOK /\ ControlInv /\ DataTypeOK /\ TransfersKept /\ JobsTrue
      BY <1>3 DEF IInv, SyncInv, DataInv
  <2>2. ASSUME NEW c \in Taken PROVE c \in DOMAIN program.command /\ Command(c).nid \in Node
      BY <1>3, TakenPlace, ZenonT(60)
  <2>3. jobs = {}
    <3>1. SUFFICES ASSUME NEW c \in jobs PROVE FALSE
        OBVIOUS
    <3>2. PICK n \in Node : n = Command(c).nid
        BY <2>2 DEF Taken
    <3>3. On(n, jobs) = {}
        BY <1>3, <2>1 DEF ControlInv, Terminated
    <3> QED BY <3>2, <3>3 DEF On
  <2>4. ASSUME NEW c \in DOMAIN program.command PROVE c \in finished
    <3>1. PICK n \in Node : n = Command(c).nid
      <4>1. WellFormed(program)
          BY <2>1, FlushTypes
      <4> QED BY <4>1, ZenonT(60) DEF WellFormed, Command
    <3>2. c \in Due(program, n, DOMAIN program.flushes)
      <4>1. AllSent(program)
          BY <2>1, Guaranteed
      <4> QED BY <3>1, <4>1, ZenonT(60) DEF AllSent, Due, Command
    <3>3. n \in done
        BY <1>3, <2>1 DEF ControlInv, Terminated
    <3> QED BY <2>1, <2>3, <3>2, <3>3, ZenonT(60) DEF ControlInv, Taken
  <2>5. finished = DOMAIN program.command
      BY <2>2, <2>4, ZenonT(60) DEF Taken
  <2>6. running = finished
      BY <2>1, <2>3, ZenonT(60) DEF TypeOK, Taken
  <2>7. Pushed \subseteq push_done /\ Awaited \subseteq await_done
      BY <2>1, <2>6 DEF TransfersKept, JobsTrue
  <2>8. Pushed \subseteq Awaited
    <3>1. SUFFICES ASSUME NEW c \in OfKind(finished, "PUSH") PROVE Command(c).transfer \in Awaited
        BY <2>1, <2>6 DEF TransfersKept, Transfers
    <3>2. c \in DOMAIN program.command /\ Command(c).kind = "PUSH"
        BY <2>5 DEF OfKind
    <3>3. TransfersPaired(program)
        BY <2>1, Guaranteed
    <3>4. PICK d \in DOMAIN program.command \ {c} :
              Command(d).kind \in {"PUSH", "AWAIT_PUSH"} /\ Command(d).transfer = Command(c).transfer
        BY <3>2, <3>3, ZenonT(60) DEF TransfersPaired, Command
    <3>5. Command(d).kind # "PUSH"
        BY <2>1, <3>2, <3>4, OneTransfer, ZenonT(60)
    <3>6. d \in OfKind(finished, "AWAIT_PUSH")
        BY <2>5, <3>4, <3>5, ZenonT(60) DEF OfKind
    <3>7. Command(d).transfer \in Transfers(OfKind(finished, "AWAIT_PUSH"))
        BY <3>6 DEF Transfers
    <3> QED BY <2>1, <2>6, <3>4, <3>7, ZenonT(60) DEF TransfersKept
  <2>9. outgoing_transfers = {} /\ awaiting = {}
      BY <2>1, <2>7 DEF TransfersKept, Pushed, Awaited
  <2>10. sent = {} /\ incoming_transfers = {} /\ received = {}
      BY <2>1, <2>7, <2>8, ZenonT(60) DEF TransfersKept
  <2> QED BY <2>3, <2>5, <2>9, <2>10, ZenonT(60)
<1>4. NothingLeftBehind
    BY <1>3 DEF NothingLeftBehind
<1> QED BY <1>2, <1>4

-----------------------------------------------------------------------------
(* The theorems about the executors. *)

INSTANCE FiniteSetTheorems

\* Jobs are counted by numbers: the sizes of finite sets behave.
LEMMA CountingHolds == Counting
<1>1. ASSUME NEW W \in SUBSET Cid, NEW E \in SUBSET Cid
      PROVE  /\ Cardinality(W) \in Nat
             /\ Cardinality(W \ E) = Cardinality(W) - Cardinality(W \cap E)
             /\ Cardinality(W) = Cardinality(W \cap E) => W \subseteq E
  <2>1. IsFiniteSet(W) /\ IsFiniteSet(E) /\ IsFiniteSet(W \cap E)
      BY ExecutorAssumption, FS_Subset, ZenonT(60)
  <2>2. Cardinality(W) \in Nat
      BY <2>1, FS_CardinalityType, ZenonT(60)
  <2>3. Cardinality(W \ E) = Cardinality(W) - Cardinality(W \cap E)
      BY <2>1, FS_Difference, ZenonT(60)
  <2>4. Cardinality(W) = Cardinality(W \cap E) => W = W \cap E
      BY <2>1, FS_Subset, ZenonT(60)
  <2> QED BY <2>2, <2>3, <2>4, ZenonT(60)
<1> QED BY <1>1, ZenonT(60) DEF Counting

\* In every behaviour of the threads, devices and MPI and for every program, the streams of
\* commands stay in order and the counts of the jobs right, the memory of every node holds the
\* versions that the last commands to write there left, and the executors go through the
\* barriers in step.
THEOREM Invariance == Spec => [](IInv /\ DataInv /\ SyncInv)
<1>1. Init => IInv /\ DataInv /\ SyncInv
    BY CountingHolds, InitInv, InitData, InitSync, ZenonT(60)
<1>2. (IInv /\ DataInv /\ SyncInv) /\ [Next]_vars => (IInv /\ DataInv /\ SyncInv)'
    BY Preserved, DataPreserved, SyncPreserved, ZenonT(60)
<1> QED BY <1>1, <1>2, PTL DEF Spec

\* "If job doesn't exist we assume it has already completed" (executor::create_job) is sound:
\* no job is started before the dependencies its package names are done, for any number of
\* nodes, any program the generator may produce and any limit of concurrent jobs.
THEOREM JobsStartInOrder == Spec => []DependenciesRespected
<1>1. IInv => DependenciesRespected
    BY DEF IInv
<1> QED BY <1>1, Invariance, PTL

\* Kernels that are on the device of a node at the same time do not conflict (compute_job
\* submits without waiting for the others), whatever the program and the number of jobs.
THEOREM NoConcurrentConflicts == Spec => []NoRaces
<1>1. IInv /\ DataInv => NoRaces
    BY DataFollows
<1> QED BY <1>1, Invariance, PTL

\* Kernels, PUSHes and accesses of the master read what the sequential program would, although
\* the nodes only order the commands that depend on each other and transfers arrive in any order.
THEOREM SequentialData == Spec => []CommandsSeeCurrentData
<1>1. IInv /\ DataInv => CommandsSeeCurrentData
    BY DataFollows
<1> QED BY <1>1, Invariance, PTL

\* buffer_manager::get_buffer_data does not fail: a PUSH is started only when the main thread of
\* its node has created the buffer.
THEOREM BuffersRegistered == Spec => []PushedBufferRegistered
<1>1. IInv /\ DataInv => PushedBufferRegistered
    BY DataFollows
<1> QED BY <1>1, Invariance, PTL

\* distr_queue::slow_full_sync: when the first executor has passed the barrier of sync k and so
\* sync may return on its node, every command of every task before it is done on every node.
THEOREM SyncsQuiesce == Spec => []SyncQuiesces
<1>1. IInv /\ DataInv /\ SyncInv => SyncQuiesces
    BY SyncFollows
<1> QED BY <1>1, Invariance, PTL

\* executor::shutdown: the loops end only when every command was executed, and with them all
\* transfers; neither the transfer managers nor the network hold any data then.
THEOREM ShutdownDrains == Spec => []NothingLeftBehind
<1>1. IInv /\ DataInv /\ SyncInv => NothingLeftBehind
    BY SyncFollows
<1> QED BY <1>1, Invariance, PTL

=============================================================================
