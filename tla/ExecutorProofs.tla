--------------------------- MODULE ExecutorProofs ---------------------------
(***************************************************************************)
(* executor::create_job takes a dependency without a job as completed.  It *)
(* may: for any nodes, programs, numbers of jobs and interleavings, no job *)
(* is started before every command that its package names is done.         *)
(***************************************************************************)
EXTENDS Executor, TLAPS

\* The control commands that the master may broadcast.
SyncId == UNION {{p.ops[i].id : i \in Nat} : p \in Program}
Control == [type : {"SYNC", "SHUTDOWN"}, cid : {0}, deps : {{}}, sync_id : {0} \cup SyncId]

\* What is sent to a node.
Message == CommandPackage \cup Control

\* A stream s with the packages P sent altogether and the commands C taken from it: each
\* command in it is one of P, was not taken before and comes after those it depends on ...
AfterDependencies(s, P, C) ==
    \A i \in 1 .. Len(s) : s[i].type = "COMMAND" =>
        /\ s[i] \in P /\ s[i].cid \notin C
        /\ \A d \in s[i].deps : \/ d \in C
                                \/ \E j \in 1 .. i - 1 : s[j].type = "COMMAND" /\ s[j].cid = d

\* ... none is there twice ...
NoneTwice(s) ==
    \A i, j \in 1 .. Len(s) : i < j /\ s[i].type = "COMMAND" /\ s[j].type = "COMMAND" =>
        s[i].cid # s[j].cid

\* ... and none is lost.
NoneLost(s, P, C) ==
    \A p \in P : \/ p.cid \in C
                 \/ \E i \in 1 .. Len(s) : s[i].type = "COMMAND" /\ s[i].cid = p.cid

InOrder(s, P, C) == AfterDependencies(s, P, C) /\ NoneTwice(s) /\ NoneLost(s, P, C)

\* The commands a node has yet to take: received and on their way, in the order of sending.
Stream(n) == command_queue[n] \o inbox[n]

\* The packages sent to a node so far, and the commands that have become jobs.
Elements(s) == {s[i] : i \in DOMAIN s}
SentTo(n) == UNION {Elements(program.flushes[t][n]) : t \in 1 .. scheduled}
Taken == jobs \cup finished

StreamsInOrder ==
    /\ \A n \in Node : InOrder(Stream(n), SentTo(n), Taken)
    /\ \A c \in Taken : \E n \in Node : \E p \in SentTo(n) : p.cid = c

TypeOK ==
    /\ program \in Program /\ pos \in [Node -> Nat]
    /\ scheduled \in 0 .. Len(program.flushes)
    /\ inbox \in [Node -> Seq(Message)]
    /\ command_queue \in [Node -> Seq(Message)]
    /\ jobs \subseteq Cid /\ finished \subseteq running /\ running \subseteq Taken
    /\ dependents \in [Cid -> SUBSET Cid]

\* The jobs that a job still waits for.
Waits(c) == {d \in Cid : c \in dependents[d]}

\* What the proofs use of the sizes of sets of commands.
Counting ==
    \A W, E \in SUBSET Cid :
        /\ Cardinality(W) \in Nat
        /\ Cardinality(W \ E) = Cardinality(W) - Cardinality(W \cap E)
        /\ Cardinality(W) = Cardinality(W \cap E) => W \subseteq E

\* A job that has not been started counts those of its dependencies that are not done.
JobsCounted ==
    /\ Counting
    /\ \A c \in jobs \ running :
          /\ unsatisfied_dependencies[c] = Cardinality(Waits(c))
          /\ DepsOf(c) \subseteq finished \cup Waits(c)
    /\ \A d \in Cid : /\ dependents[d] \subseteq jobs \ running
                      /\ dependents[d] # {} => d \in jobs

IInv == TypeOK /\ StreamsInOrder /\ JobsCounted /\ DependenciesRespected
-----------------------------------------------------------------------------
(* A stream stays in order when messages are sent, received and taken. *)

\* Commands that are flushed are added at the end of the stream.
LEMMA Joined ==
    ASSUME NEW q \in Seq(Message), NEW r \in Seq(Message), NEW f \in Seq(Message)
    PROVE  (q \o r) \o f = q \o (r \o f)
OBVIOUS

\* A message that is received moves from the network to the queue of the executor.
LEMMA Received ==
    ASSUME NEW q \in Seq(Message), NEW r \in Seq(Message), NEW a,
           a = <<>> \/ (r # <<>> /\ a = <<Head(r)>>)
    PROVE  /\ a \in Seq(Message) /\ q \o a \in Seq(Message)
           /\ SubSeq(r, Len(a) + 1, Len(r)) \in Seq(Message)
           /\ (q \o a) \o SubSeq(r, Len(a) + 1, Len(r)) = q \o r
<1>1. CASE a = <<>>
  <2>1. a \in Seq(Message) /\ Len(a) + 1 = 1
      BY <1>1
  <2>2. q \o a = q
      BY <1>1
  <2>3. SubSeq(r, 1, Len(r)) = r
      OBVIOUS
  <2> QED BY <2>1, <2>2, <2>3, Zenon
<1>2. CASE r # <<>> /\ a = <<Head(r)>>
  <2>1. /\ Head(r) \in Message /\ Tail(r) \in Seq(Message) /\ Head(r) = r[1]
        /\ Len(r) \in Nat /\ Len(r) >= 1
      BY <1>2
  <2>2. a \in Seq(Message) /\ Len(a) + 1 = 2
      BY <1>2, <2>1
  <2>3. SubSeq(r, 2, Len(r)) = Tail(r)
      BY <1>2
  <2>4. a \o Tail(r) = r
    <3>1. 1 \in 1 .. Len(r) /\ Len(r) \in 1 .. Len(r)
        BY <2>1
    <3>2. SubSeq(r, 1, Len(r)) = <<r[1]>> \o SubSeq(r, 1 + 1, Len(r))
        BY <3>1
    <3> QED BY <1>2, <2>1, <2>3, <3>2
  <2>5. q \o a \in Seq(Message)
      BY <2>2
  <2>6. (q \o a) \o Tail(r) = q \o (a \o Tail(r))
      BY <2>1, <2>2, Joined, ZenonT(60)
  <2> QED BY <2>1, <2>2, <2>3, <2>4, <2>5, <2>6, Zenon
<1> QED BY <1>1, <1>2, Zenon

\* Taking the first package of the queue takes the first one of the stream.
LEMMA TakenFirst ==
    ASSUME NEW q \in Seq(Message), NEW r \in Seq(Message), q # <<>>
    PROVE  /\ Tail(q) \in Seq(Message)
           /\ q \o r \in Seq(Message) /\ Len(q \o r) \in Nat \ {0}
           /\ (q \o r)[1] = Head(q)
           /\ Len(Tail(q) \o r) = Len(q \o r) - 1
           /\ \A i \in 1 .. Len(q \o r) - 1 : (Tail(q) \o r)[i] = (q \o r)[i + 1]
<1>1. PICK n \in Nat : n = Len(q) /\ n >= 1
    OBVIOUS
<1>2. PICK m \in Nat : m = Len(r)
    OBVIOUS
<1>3. PICK t : t = Tail(q)
    BY Zenon
<1>4. /\ t \in Seq(Message) /\ Len(t) = n - 1 /\ Head(q) = q[1]
      /\ \A i \in 1 .. n - 1 : t[i] = q[i + 1]
    BY <1>1, <1>3
<1>5. PICK u : u = q \o r
    BY Zenon
<1>6. PICK v : v = t \o r
    BY Zenon
<1>7. /\ u \in Seq(Message) /\ Len(u) = n + m
      /\ \A i \in 1 .. n + m : u[i] = IF i <= n THEN q[i] ELSE r[i - n]
    BY <1>1, <1>2, <1>5
<1>8. /\ v \in Seq(Message) /\ Len(v) = n - 1 + m
      /\ \A i \in 1 .. n - 1 + m : v[i] = IF i <= n - 1 THEN t[i] ELSE r[i - (n - 1)]
  <2>1. PICK k \in Nat : k = n - 1
      BY <1>1
  <2>2. Len(t) = k
      BY <1>4, <2>1
  <2>3. /\ v \in Seq(Message) /\ Len(v) = k + m
        /\ \A i \in 1 .. k + m : v[i] = IF i <= k THEN t[i] ELSE r[i - k]
    <3>1. /\ t \o r \in Seq(Message) /\ Len(t \o r) = Len(t) + Len(r)
          /\ \A i \in 1 .. Len(t) + Len(r) : (t \o r)[i] = IF i <= Len(t) THEN t[i] ELSE r[i - Len(t)]
      <4>1. t \in Seq(Message)
          BY <1>4
      <4> QED BY <4>1
    <3> QED BY <1>2, <1>6, <2>2, <3>1, Zenon
  <2> QED BY <2>1, <2>3
<1>9. ASSUME NEW i \in 1 .. n + m - 1 PROVE v[i] = u[i + 1]
  <2>1. i \in 1 .. n - 1 + m /\ i + 1 \in 1 .. n + m /\ (i + 1) - n = i - (n - 1)
        /\ (i <= n - 1 <=> i + 1 <= n) /\ (i <= n - 1 => i \in 1 .. n - 1)
      BY <1>1, <1>2
  <2>2. v[i] = IF i <= n - 1 THEN t[i] ELSE r[i - (n - 1)]
      BY <1>8, <2>1
  <2>3. u[i + 1] = IF i + 1 <= n THEN q[i + 1] ELSE r[(i + 1) - n]
      BY <1>7, <2>1
  <2> QED BY <1>4, <2>1, <2>2, <2>3
<1>10. u[1] = Head(q)
    BY <1>1, <1>4, <1>7
<1> QED BY <1>1, <1>3, <1>4, <1>5, <1>6, <1>7, <1>8, <1>9, <1>10

\* A control command is added at the end of the stream.
LEMMA AddedLast ==
    ASSUME NEW q \in Seq(Message), NEW r \in Seq(Message), NEW x \in Message
    PROVE  q \o Append(r, x) = (q \o r) \o <<x>>
<1>1. <<x>> \in Seq(Message)
    OBVIOUS
<1>2. Append(r, x) = r \o <<x>>
  <2>1. Append(r, x) \in Seq(Message) /\ r \o <<x>> \in Seq(Message)
      BY <1>1
  <2>2. PICK n \in Nat : n = Len(r)
      OBVIOUS
  <2>3. Len(Append(r, x)) = n + 1 /\ Len(r \o <<x>>) = n + 1
      BY <1>1, <2>2
  <2>4. ASSUME NEW i \in 1 .. n + 1 PROVE Append(r, x)[i] = (r \o <<x>>)[i]
    <3>1. CASE i = n + 1
      <4>1. Append(r, x)[i] = x
          BY <2>2, <3>1
      <4>2. (r \o <<x>>)[i] = <<x>>[i - n]
          BY <1>1, <2>2, <3>1
      <4>3. <<x>>[i - n] = x
        <5>1. i - n = 1
            BY <3>1
        <5>2. <<x>>[1] = x
            OBVIOUS
        <5> QED BY ONLY <5>1, <5>2
      <4> QED BY ONLY <4>1, <4>2, <4>3, Zenon
    <3>2. CASE i # n + 1
      <4>1. i \in 1 .. n
          BY <3>2
      <4>2. Append(r, x)[i] = r[i]
          BY <2>2, <4>1
      <4>3. (r \o <<x>>)[i] = r[i]
          BY <1>1, <2>2, <4>1
      <4> QED BY <4>2, <4>3, Zenon
    <3> QED BY <3>1, <3>2, Zenon
  <2> QED BY <2>1, <2>3, <2>4
<1> QED BY <1>1, <1>2

\* The first command of a stream depends on nothing that was not taken, and without it
\* the stream is still in order.
LEMMA TakeCommand ==
    ASSUME NEW s, NEW t, NEW P, NEW C, InOrder(s, P, C),
           Len(s) \in Nat \ {0}, Len(t) = Len(s) - 1,
           \A i \in 1 .. Len(s) - 1 : t[i] = s[i + 1],
           s[1].type = "COMMAND"
    PROVE  /\ s[1] \in P /\ s[1].cid \notin C /\ s[1].deps \subseteq C
           /\ InOrder(t, P, C \cup {s[1].cid})
<1>1. PICK n \in Nat \ {0} : n = Len(s) /\ Len(t) = n - 1
    OBVIOUS
<1>2. 1 \in 1 .. n
    OBVIOUS
<1>3. s[1] \in P /\ s[1].cid \notin C /\ s[1].deps \subseteq C
    BY <1>1, <1>2 DEF InOrder, AfterDependencies
<1>4. ASSUME NEW i \in 1 .. n - 1
      PROVE  i + 1 \in 1 .. n /\ i + 1 > 1 /\ t[i] = s[i + 1]
    BY <1>1
<1>5. ASSUME NEW i \in 1 .. n - 1, t[i].type = "COMMAND"
      PROVE  /\ t[i] \in P /\ t[i].cid \notin C \cup {s[1].cid}
             /\ \A d \in t[i].deps :
                   \/ d \in C \cup {s[1].cid}
                   \/ \E j \in 1 .. i - 1 : t[j].type = "COMMAND" /\ t[j].cid = d
  <2>1. t[i] \in P /\ t[i].cid \notin C
      BY <1>1, <1>4, <1>5 DEF InOrder, AfterDependencies
  <2>2. t[i].cid # s[1].cid
      BY <1>1, <1>2, <1>4, <1>5 DEF InOrder, NoneTwice
  <2>3. ASSUME NEW d \in t[i].deps, d \notin C \cup {s[1].cid}
        PROVE  \E j \in 1 .. i - 1 : t[j].type = "COMMAND" /\ t[j].cid = d
    <3>1. PICK j \in 1 .. (i + 1) - 1 : s[j].type = "COMMAND" /\ s[j].cid = d
        BY <1>1, <1>4, <1>5, <2>3, ZenonT(60) DEF InOrder, AfterDependencies
    <3>2. j # 1
        BY <2>3, <3>1
    <3>3. j - 1 \in 1 .. i - 1 /\ j - 1 \in 1 .. n - 1 /\ (j - 1) + 1 = j
        BY <3>2
    <3>4. t[j - 1] = s[j]
        BY <1>4, <3>3
    <3> QED BY <3>1, <3>3, <3>4
  <2> QED BY <2>1, <2>2, <2>3
<1>6. ASSUME NEW i \in 1 .. n - 1, NEW j \in 1 .. n - 1, i < j,
             t[i].type = "COMMAND", t[j].type = "COMMAND"
      PROVE  t[i].cid # t[j].cid
  <2>1. i + 1 < j + 1
      BY <1>6
  <2> QED BY <1>1, <1>4, <1>6, <2>1 DEF InOrder, NoneTwice
<1>7. ASSUME NEW p \in P, p.cid \notin C \cup {s[1].cid}
      PROVE  \E i \in 1 .. n - 1 : t[i].type = "COMMAND" /\ t[i].cid = p.cid
  <2>1. PICK i \in 1 .. n : s[i].type = "COMMAND" /\ s[i].cid = p.cid
      BY <1>1, <1>7 DEF InOrder, NoneLost
  <2>2. i # 1
      BY <1>7, <2>1
  <2>3. i - 1 \in 1 .. n - 1 /\ (i - 1) + 1 = i
      BY <2>2
  <2>4. t[i - 1] = s[i]
      BY <1>4, <2>3
  <2> QED BY <2>1, <2>3, <2>4
<1>8. AfterDependencies(t, P, C \cup {s[1].cid})
    BY <1>1, <1>5, ZenonT(60) DEF AfterDependencies
<1>9. NoneTwice(t)
    BY <1>1, <1>6 DEF NoneTwice
<1>10. NoneLost(t, P, C \cup {s[1].cid})
    BY <1>1, <1>7 DEF NoneLost
<1> QED BY <1>3, <1>8, <1>9, <1>10 DEF InOrder

\* A control command may be taken from the stream as well.
LEMMA TakeControl ==
    ASSUME NEW s, NEW t, NEW P, NEW C, InOrder(s, P, C),
           Len(s) \in Nat \ {0}, Len(t) = Len(s) - 1,
           \A i \in 1 .. Len(s) - 1 : t[i] = s[i + 1],
           s[1].type # "COMMAND"
    PROVE  InOrder(t, P, C)
<1>1. PICK n \in Nat \ {0} : n = Len(s) /\ Len(t) = n - 1
    OBVIOUS
<1>2. ASSUME NEW i \in 1 .. n - 1
      PROVE  i + 1 \in 1 .. n /\ t[i] = s[i + 1]
    BY <1>1
<1>3. ASSUME NEW i \in 1 .. n, s[i].type = "COMMAND"
      PROVE  i - 1 \in 1 .. n - 1 /\ t[i - 1] = s[i]
  <2>1. i # 1
      BY <1>3
  <2>2. i - 1 \in 1 .. n - 1 /\ (i - 1) + 1 = i
      BY <2>1
  <2> QED BY <1>2, <2>2
<1>4. ASSUME NEW i \in 1 .. n - 1, t[i].type = "COMMAND"
      PROVE  /\ t[i] \in P /\ t[i].cid \notin C
             /\ \A d \in t[i].deps :
                   \/ d \in C
                   \/ \E j \in 1 .. i - 1 : t[j].type = "COMMAND" /\ t[j].cid = d
  <2>1. t[i] \in P /\ t[i].cid \notin C
      BY <1>1, <1>2, <1>4 DEF InOrder, AfterDependencies
  <2>2. ASSUME NEW d \in t[i].deps, d \notin C
        PROVE  \E j \in 1 .. i - 1 : t[j].type = "COMMAND" /\ t[j].cid = d
    <3>3. i + 1 \in 1 .. Len(s) /\ s[i + 1].type = "COMMAND" /\ d \in s[i + 1].deps
        BY <1>1, <1>2, <1>4, <2>2
    <3>1. PICK j \in 1 .. (i + 1) - 1 : s[j].type = "COMMAND" /\ s[j].cid = d
        BY <2>2, <3>3, ZenonT(60) DEF InOrder, AfterDependencies
    <3>2. j \in 1 .. n /\ (j - 1 \in 1 .. n - 1 => j - 1 \in 1 .. i - 1)
        OBVIOUS
    <3> QED BY <1>3, <3>1, <3>2
  <2> QED BY <2>1, <2>2
<1>5. ASSUME NEW i \in 1 .. n - 1, NEW j \in 1 .. n - 1, i < j,
             t[i].type = "COMMAND", t[j].type = "COMMAND"
      PROVE  t[i].cid # t[j].cid
  <2>1. i + 1 < j + 1
      BY <1>5
  <2> QED BY <1>1, <1>2, <1>5, <2>1 DEF InOrder, NoneTwice
<1>6. ASSUME NEW p \in P, p.cid \notin C
      PROVE  \E i \in 1 .. n - 1 : t[i].type = "COMMAND" /\ t[i].cid = p.cid
  <2>1. PICK i \in 1 .. n : s[i].type = "COMMAND" /\ s[i].cid = p.cid
      BY <1>1, <1>6 DEF InOrder, NoneLost
  <2> QED BY <1>3, <2>1
<1>7. AfterDependencies(t, P, C)
    BY <1>1, <1>4, Zenon DEF AfterDependencies
<1>8. NoneTwice(t)
    BY <1>1, <1>5 DEF NoneTwice
<1>9. NoneLost(t, P, C)
    BY <1>1, <1>6 DEF NoneLost
<1> QED BY <1>7, <1>8, <1>9 DEF InOrder

\* What one node takes is nothing to the streams of the others.
LEMMA TakenElsewhere ==
    ASSUME NEW s, NEW P, NEW C, NEW K, InOrder(s, P, C), \A p \in P : p.cid \notin K
    PROVE  InOrder(s, P, C \cup K)
BY DEF InOrder, AfterDependencies, NoneLost

\* Commands that are flushed extend a stream in order when they are new, distinct and depend
\* on what was sent to the node before.
LEMMA Extended ==
    ASSUME NEW s \in Seq(Message), NEW f \in Seq(Message), NEW P, NEW C, InOrder(s, P, C),
           \A i \in 1 .. Len(f) : f[i].type = "COMMAND" /\ f[i].cid \notin C,
           \A i \in 1 .. Len(f) : \A p \in P : p.cid # f[i].cid,
           \A i, j \in 1 .. Len(f) : i < j => f[i].cid # f[j].cid,
           \A i \in 1 .. Len(f) : \A d \in f[i].deps :
              (\E j \in 1 .. i - 1 : f[j].cid = d) \/ (\E p \in P : p.cid = d)
    PROVE  InOrder(s \o f, P \cup {f[i] : i \in 1 .. Len(f)}, C)
<1>1. PICK n \in Nat : n = Len(s)
    OBVIOUS
<1>2. PICK m \in Nat : m = Len(f)
    OBVIOUS
<1>3. PICK u : u = s \o f
    BY Zenon
<1>4. PICK Q : Q = P \cup {f[i] : i \in 1 .. Len(f)}
    BY Zenon
<1>5. /\ Len(u) = n + m
      /\ \A i \in 1 .. n + m : u[i] = IF i <= n THEN s[i] ELSE f[i - n]
    BY <1>1, <1>2, <1>3
<1>6. ASSUME NEW i \in 1 .. n PROVE i \in 1 .. n + m /\ u[i] = s[i]
    BY <1>5
<1>7. ASSUME NEW i \in 1 .. m PROVE n + i \in 1 .. n + m /\ u[n + i] = f[i]
  <2>1. n + i \in 1 .. n + m /\ ~(n + i <= n) /\ (n + i) - n = i
      OBVIOUS
  <2> QED BY <1>5, <2>1
<1>8. ASSUME NEW i \in 1 .. n + m
      PROVE  \/ i \in 1 .. n /\ u[i] = s[i]
             \/ \E k \in 1 .. m : i = n + k /\ u[i] = f[k]
  <2>1. CASE i <= n
      BY <1>6, <2>1
  <2>2. CASE ~(i <= n)
    <3>1. i - n \in 1 .. m /\ i = n + (i - n)
        BY <2>2
    <3> QED BY <1>7, <3>1
  <2> QED BY <2>1, <2>2
<1>9. ASSUME NEW p \in P, p.cid \notin C
      PROVE  \E i \in 1 .. n : u[i].type = "COMMAND" /\ u[i].cid = p.cid
    BY <1>1, <1>6, <1>9 DEF InOrder, NoneLost
<1>10. AfterDependencies(u, Q, C)
  <2>1. SUFFICES ASSUME NEW i \in 1 .. n + m, u[i].type = "COMMAND"
                 PROVE  /\ u[i] \in Q /\ u[i].cid \notin C
                        /\ \A d \in u[i].deps : d \notin C =>
                              \E j \in 1 .. i - 1 : u[j].type = "COMMAND" /\ u[j].cid = d
      BY <1>5 DEF AfterDependencies
  <2>2. CASE i \in 1 .. n /\ u[i] = s[i]
    <3>1. u[i] \in Q /\ u[i].cid \notin C
        BY <1>1, <1>4, <2>1, <2>2, ZenonT(60) DEF InOrder, AfterDependencies
    <3>2. ASSUME NEW d \in u[i].deps, d \notin C
          PROVE  \E j \in 1 .. i - 1 : u[j].type = "COMMAND" /\ u[j].cid = d
      <4>1. PICK j \in 1 .. i - 1 : s[j].type = "COMMAND" /\ s[j].cid = d
          BY <1>1, <2>1, <2>2, <3>2, ZenonT(60) DEF InOrder, AfterDependencies
      <4>2. j \in 1 .. n
          BY <2>2
      <4> QED BY <1>6, <4>1, <4>2
    <3> QED BY <3>1, <3>2
  <2>3. ASSUME NEW k \in 1 .. m, i = n + k, u[i] = f[k]
        PROVE  /\ u[i] \in Q /\ u[i].cid \notin C
               /\ \A d \in u[i].deps : d \notin C =>
                     \E j \in 1 .. i - 1 : u[j].type = "COMMAND" /\ u[j].cid = d
    <3>1. u[i] \in Q /\ u[i].cid \notin C
        BY <1>2, <1>4, <2>3
    <3>2. ASSUME NEW d \in u[i].deps, d \notin C
          PROVE  \E j \in 1 .. i - 1 : u[j].type = "COMMAND" /\ u[j].cid = d
      <4>1. (\E j \in 1 .. k - 1 : f[j].cid = d) \/ (\E p \in P : p.cid = d)
          BY <1>2, <2>3, <3>2
      <4>2. ASSUME NEW j \in 1 .. k - 1, f[j].cid = d
            PROVE  \E l \in 1 .. i - 1 : u[l].type = "COMMAND" /\ u[l].cid = d
        <5>1. j \in 1 .. m /\ n + j \in 1 .. i - 1
            BY <2>3
        <5>2. u[n + j] = f[j] /\ f[j].type = "COMMAND"
            BY <1>2, <1>7, <5>1
        <5> QED BY <4>2, <5>1, <5>2
      <4>3. ASSUME NEW p \in P, p.cid = d
            PROVE  \E l \in 1 .. i - 1 : u[l].type = "COMMAND" /\ u[l].cid = d
        <5>1. PICK l \in 1 .. n : u[l].type = "COMMAND" /\ u[l].cid = d
            BY <1>9, <3>2, <4>3
        <5>2. l \in 1 .. i - 1
            BY <2>3
        <5> QED BY <5>1, <5>2
      <4> QED BY <4>1, <4>2, <4>3, ZenonT(60)
    <3> QED BY <3>1, <3>2
  <2> QED BY <1>8, <2>2, <2>3, ZenonT(60)
<1>11. NoneTwice(u)
  <2>1. SUFFICES ASSUME NEW i \in 1 .. n + m, NEW j \in 1 .. n + m, i < j,
                        u[i].type = "COMMAND", u[j].type = "COMMAND"
                 PROVE  u[i].cid # u[j].cid
      BY <1>5 DEF NoneTwice
  <2>2. CASE j \in 1 .. n /\ u[j] = s[j]
    <3>1. i \in 1 .. n
        BY <2>1, <2>2
    <3>2. u[i] = s[i]
        BY <1>6, <3>1
    <3> QED BY <1>1, <2>1, <2>2, <3>1, <3>2 DEF InOrder, NoneTwice
  <2>3. ASSUME NEW k \in 1 .. m, j = n + k, u[j] = f[k] PROVE u[i].cid # u[j].cid
    <3>1. CASE i \in 1 .. n /\ u[i] = s[i]
      <4>1. u[i] \in P
          BY <1>1, <2>1, <3>1, ZenonT(60) DEF InOrder, AfterDependencies
      <4> QED BY <1>2, <2>3, <4>1
    <3>2. ASSUME NEW l \in 1 .. m, i = n + l, u[i] = f[l] PROVE u[i].cid # u[j].cid
      <4>1. l < k
          BY <2>1, <2>3, <3>2
      <4> QED BY <1>2, <2>3, <3>2, <4>1
    <3> QED BY <1>8, <3>1, <3>2
  <2> QED BY <1>8, <2>2, <2>3
<1>12. NoneLost(u, Q, C)
  <2>1. SUFFICES ASSUME NEW p \in Q, p.cid \notin C
                 PROVE  \E i \in 1 .. n + m : u[i].type = "COMMAND" /\ u[i].cid = p.cid
      BY <1>5 DEF NoneLost
  <2>2. CASE p \in P
    <3>1. PICK i \in 1 .. n : u[i].type = "COMMAND" /\ u[i].cid = p.cid
        BY <1>9, <2>1, <2>2
    <3> QED BY <1>6, <3>1
  <2>3. CASE p \notin P
    <3>1. PICK i \in 1 .. m : p = f[i]
        BY <1>2, <1>4, <2>3
    <3> QED BY <1>2, <1>7, <3>1
  <2> QED BY <2>2, <2>3
<1> QED BY <1>3, <1>4, <1>10, <1>11, <1>12, ZenonT(60) DEF InOrder

\* A control command at the end of a stream changes nothing.
LEMMA ExtendedByControl ==
    ASSUME NEW s \in Seq(Message), NEW x \in Message, NEW P, NEW C, InOrder(s, P, C),
           x.type # "COMMAND"
    PROVE  InOrder(s \o <<x>>, P, C)
<1>1. PICK n \in Nat : n = Len(s)
    OBVIOUS
<1>2. PICK u : u = s \o <<x>>
    BY Zenon
<1>3. <<x>> \in Seq(Message) /\ Len(<<x>>) = 1 /\ <<x>>[1] = x
    OBVIOUS
<1>4. /\ Len(u) = n + 1
      /\ \A i \in 1 .. n + 1 : u[i] = IF i <= n THEN s[i] ELSE <<x>>[i - n]
    BY <1>1, <1>2, <1>3
<1>5. ASSUME NEW i \in 1 .. n PROVE i \in 1 .. n + 1 /\ u[i] = s[i]
    BY <1>4
<1>6. ASSUME NEW i \in 1 .. n + 1, u[i].type = "COMMAND" PROVE i \in 1 .. n /\ u[i] = s[i]
  <2>1. CASE i = n + 1
    <3>1. ~(i <= n) /\ i - n = 1
        BY <2>1
    <3>2. u[i] = <<x>>[i - n]
        BY <1>4, <3>1
    <3> QED BY ONLY x.type # "COMMAND", <1>3, <1>6, <3>1, <3>2
  <2>2. CASE i # n + 1
    <3>1. i \in 1 .. n
        BY <2>2
    <3> QED BY <1>5, <3>1
  <2> QED BY <2>1, <2>2
<1>7. AfterDependencies(u, P, C)
  <2>1. SUFFICES ASSUME NEW i \in 1 .. n, u[i] = s[i], s[i].type = "COMMAND"
                 PROVE  /\ u[i] \in P /\ u[i].cid \notin C
                        /\ \A d \in u[i].deps : d \notin C =>
                              \E j \in 1 .. i - 1 : u[j].type = "COMMAND" /\ u[j].cid = d
      BY <1>4, <1>6 DEF AfterDependencies
  <2>2. ASSUME NEW d \in u[i].deps, d \notin C
        PROVE  \E j \in 1 .. i - 1 : u[j].type = "COMMAND" /\ u[j].cid = d
    <3>1. PICK j \in 1 .. i - 1 : s[j].type = "COMMAND" /\ s[j].cid = d
        BY <1>1, <2>1, <2>2 DEF InOrder, AfterDependencies
    <3>2. j \in 1 .. n
        OBVIOUS
    <3> QED BY <1>5, <3>1, <3>2
  <2> QED BY <1>1, <2>1, <2>2 DEF InOrder, AfterDependencies
<1>8. NoneTwice(u)
    BY <1>1, <1>4, <1>6 DEF InOrder, NoneTwice
<1>9. NoneLost(u, P, C)
    BY <1>1, <1>4, <1>5 DEF InOrder, NoneLost
<1> QED BY <1>2, <1>7, <1>8, <1>9 DEF InOrder

-----------------------------------------------------------------------------
(* What the scheduler has sent. *)

\* The packages that are flushed to the nodes.
LEMMA FlushTypes ==
    ASSUME TypeOK
    PROVE  /\ program.flushes \in Seq([Node -> Seq(CommandPackage)])
           /\ scheduled \in 0 .. Len(program.flushes)
           /\ WellFormed(program)
<1>1. WellFormed(program)
    BY ExecutorAssumption DEF TypeOK
<1> QED BY <1>1, Zenon DEF WellFormed, TypeOK

\* What the i-th package names that task t flushes to node n was flushed to n before.
NamesEarlier(t, n, i) ==
    \A d \in program.flushes[t][n][i].deps :
        \/ \E j \in 1 .. i - 1 : program.flushes[t][n][j].cid = d
        \/ \E u \in 1 .. t - 1 : \E j \in DOMAIN program.flushes[u][n] :
              program.flushes[u][n][j].cid = d

\* A flushed package is for a command of its node, and names commands flushed there before.
LEMMA FlushDependencies ==
    ASSUME TypeOK, NEW t \in DOMAIN program.flushes, NEW n \in Node,
           NEW i \in DOMAIN program.flushes[t][n]
    PROVE  /\ Command(program.flushes[t][n][i].cid).nid = n
           /\ NamesEarlier(t, n, i)
<1>1. WellFormed(program)
    BY FlushTypes, ZenonT(60)
<1>2. PackageOK(program, t, n, i)
    BY <1>1, ZenonT(60) DEF WellFormed
<1> QED BY <1>2, ZenonT(60) DEF PackageOK, SentBefore, Command, NamesEarlier

\* No command is flushed twice.
LEMMA FlushedOnce ==
    ASSUME TypeOK
    PROVE  LET f == program.flushes
           IN  \A t, u \in DOMAIN f, n, m \in Node :
                  \A i \in DOMAIN f[t][n], j \in DOMAIN f[u][m] :
                     f[t][n][i].cid = f[u][m][j].cid => t = u /\ n = m /\ i = j
BY FlushTypes, Zenon DEF WellFormed

\* Command c is the i-th that the flush of task t sends to node n.
FlushedAt(c, t, n, i) ==
    /\ t \in DOMAIN program.flushes /\ n \in Node /\ i \in DOMAIN program.flushes[t][n]
    /\ c = program.flushes[t][n][i].cid

LEMMA FlushedAtOnce ==
    ASSUME TypeOK, NEW c, NEW t, NEW n, NEW i, NEW u, NEW m, NEW j,
           FlushedAt(c, t, n, i), FlushedAt(c, u, m, j)
    PROVE  t = u /\ n = m /\ i = j
<1> DEFINE f == program.flushes
<1>1. t \in DOMAIN f /\ n \in Node /\ i \in DOMAIN f[t][n] /\ c = f[t][n][i].cid
    BY ZenonT(60) DEF FlushedAt
<1>2. u \in DOMAIN f /\ m \in Node /\ j \in DOMAIN f[u][m] /\ c = f[u][m][j].cid
    BY ZenonT(60) DEF FlushedAt
<1>3. \A a, b \in Node : \A k \in DOMAIN f[t][a], l \in DOMAIN f[u][b] :
          f[t][a][k].cid = f[u][b][l].cid => t = u /\ a = b /\ k = l
    BY <1>1, <1>2, FlushedOnce, ZenonT(60)
<1> HIDE DEF f
<1>4. f[t][n][i].cid = f[u][m][j].cid => t = u /\ n = m /\ i = j
    BY <1>1, <1>2, <1>3
<1> QED BY <1>1, <1>2, <1>4, ZenonT(60)

\* A package that was sent is for its node, and so are the commands it names; it is the only
\* one of its command.
LEMMA SentPackage ==
    ASSUME TypeOK, NEW n \in Node, NEW p \in SentTo(n)
    PROVE  /\ p \in CommandPackage /\ Command(p.cid).nid = n
           /\ DepsOf(p.cid) = p.deps
           /\ \A d \in p.deps : Command(d).nid = n
<1> DEFINE f == program.flushes
<1>1. f \in Seq([Node -> Seq(CommandPackage)]) /\ scheduled \in 0 .. Len(f)
    BY FlushTypes
<1>2. PICK t \in 1 .. scheduled : p \in Elements(f[t][n])
    BY DEF SentTo
<1>3. t \in DOMAIN f /\ f[t][n] \in Seq(CommandPackage)
    BY <1>1
<1>4. PICK i \in DOMAIN f[t][n] : p = f[t][n][i]
    BY <1>2 DEF Elements
<1>5. p \in CommandPackage
    BY <1>3, <1>4
<1>6. /\ Command(f[t][n][i].cid).nid = n
      /\ \A d \in f[t][n][i].deps :
            \/ \E j \in 1 .. i - 1 : f[t][n][j].cid = d
            \/ \E u \in 1 .. t - 1 : \E j \in DOMAIN f[u][n] : f[u][n][j].cid = d
  <2>1. Command(f[t][n][i].cid).nid = n /\ NamesEarlier(t, n, i)
      BY <1>3, <1>4, FlushDependencies, ZenonT(60)
  <2> QED BY <2>1, ZenonT(60) DEF NamesEarlier
<1>7. ASSUME NEW d \in p.deps PROVE Command(d).nid = n
  <2>1. ASSUME NEW j \in 1 .. i - 1, f[t][n][j].cid = d PROVE Command(d).nid = n
    <3>1. j \in DOMAIN f[t][n]
        BY <1>3, <1>4
    <3> QED BY <1>3, <2>1, <3>1, FlushDependencies, ZenonT(60)
  <2>2. ASSUME NEW u \in 1 .. t - 1, NEW j \in DOMAIN f[u][n], f[u][n][j].cid = d
        PROVE  Command(d).nid = n
    <3>1. u \in DOMAIN f
        BY <1>1
    <3> QED BY <2>2, <3>1, FlushDependencies, ZenonT(60)
  <2> QED BY <1>4, <1>6, <2>1, <2>2, ZenonT(60)
<1>8. p \in Packages(program)
  <2>1. p \in {f[t][n][j] : j \in DOMAIN f[t][n]}
      BY <1>4
  <2> QED BY <1>3, <2>1 DEF Packages
<1>9. ASSUME NEW q \in Packages(program), q.cid = p.cid PROVE q = p
  <2>1. PICK u \in DOMAIN f, m \in Node : \E j \in DOMAIN f[u][m] : q = f[u][m][j]
      BY DEF Packages
  <2>2. PICK j \in DOMAIN f[u][m] : q = f[u][m][j]
      BY <2>1, ZenonT(60)
  <2>3. FlushedAt(p.cid, t, n, i) /\ FlushedAt(p.cid, u, m, j)
      BY <1>3, <1>4, <1>9, <2>2, ZenonT(60) DEF FlushedAt
  <2>4. u = t /\ m = n /\ j = i
      BY <2>3, FlushedAtOnce, ZenonT(60)
  <2> QED BY <1>4, <2>2, <2>4, ZenonT(60)
<1>10. DepsOf(p.cid) = p.deps
  <2>1. {q \in Packages(program) : q.cid = p.cid} = {p}
      BY <1>8, <1>9
  <2> QED BY <2>1 DEF DepsOf
<1> QED BY <1>4, <1>5, <1>6, <1>7, <1>10, ZenonT(60)

\* The commands that have been sent to different nodes are different.
LEMMA SentElsewhere ==
    ASSUME TypeOK, NEW n \in Node, NEW m \in Node, n # m,
           NEW p \in SentTo(n), NEW q \in SentTo(m)
    PROVE  p.cid # q.cid
<1>1. Command(p.cid).nid = n /\ Command(q.cid).nid = m
    BY SentPackage
<1> QED BY <1>1

\* What the scheduler flushes next extends the stream of a node in order.
LEMMA FlushInOrder ==
    ASSUME TypeOK, StreamsInOrder, NEW n \in Node, scheduled + 1 \in DOMAIN program.flushes,
           NEW f, f = program.flushes[scheduled + 1][n]
    PROVE  /\ f \in Seq(CommandPackage)
           /\ InOrder(Stream(n) \o f, SentTo(n) \cup Elements(f), Taken)
<1> DEFINE g == program.flushes
<1>1. PICK t \in Nat : t = scheduled + 1
    BY DEF TypeOK
<1>2. g \in Seq([Node -> Seq(CommandPackage)]) /\ t \in DOMAIN g /\ scheduled = t - 1
    BY <1>1, FlushTypes DEF TypeOK
<1>3. f = g[t][n] /\ f \in Seq(CommandPackage) /\ DOMAIN f = 1 .. Len(f)
    BY <1>1, <1>2
<1>4. ASSUME NEW m \in Node, NEW p \in SentTo(m)
      PROVE  \E u \in 1 .. t - 1 : \E j \in DOMAIN g[u][m] : u \in DOMAIN g /\ p = g[u][m][j]
  <2>1. PICK u \in 1 .. t - 1 : p \in Elements(g[u][m])
      BY <1>2 DEF SentTo
  <2>2. u \in DOMAIN g
      BY <1>2
  <2> QED BY <2>1, <2>2, ZenonT(60) DEF Elements
<1>5. ASSUME NEW i \in 1 .. Len(f), NEW m \in Node, NEW p \in SentTo(m) PROVE p.cid # f[i].cid
  <2>1. PICK u \in 1 .. t - 1 : \E j \in DOMAIN g[u][m] : u \in DOMAIN g /\ p = g[u][m][j]
      BY <1>4, ZenonT(60)
  <2>2. PICK j \in DOMAIN g[u][m] : u \in DOMAIN g /\ p = g[u][m][j]
      BY <2>1, ZenonT(60)
  <2>3. u # t /\ i \in DOMAIN g[t][n] /\ f[i] = g[t][n][i]
      BY <1>3
  <2>4. g[u][m][j].cid # g[t][n][i].cid
    <3>1. t \in DOMAIN g /\ u \in DOMAIN g
        BY <1>2, <2>2, ZenonT(60)
    <3>2. ASSUME g[u][m][j].cid = g[t][n][i].cid PROVE u = t
      <4>1. FlushedAt(g[t][n][i].cid, t, n, i) /\ FlushedAt(g[t][n][i].cid, u, m, j)
          BY <2>2, <2>3, <3>1, <3>2, ZenonT(60) DEF FlushedAt
      <4> QED BY <4>1, FlushedAtOnce, ZenonT(60)
    <3> QED BY <2>3, <3>2, ZenonT(60)
  <2> QED BY <2>2, <2>3, <2>4, ZenonT(60)
<1>6. ASSUME NEW i \in 1 .. Len(f) PROVE f[i].type = "COMMAND" /\ f[i].cid \notin Taken
  <2>1. f[i] \in CommandPackage
      BY <1>3
  <2>2. f[i].type = "COMMAND"
      BY <2>1, ZenonT(60) DEF CommandPackage
  <2> QED BY <1>5, <2>2 DEF StreamsInOrder
<1>7. \A i, j \in 1 .. Len(f) : i < j => f[i].cid # f[j].cid
  <2>1. SUFFICES ASSUME NEW i \in 1 .. Len(f), NEW j \in 1 .. Len(f), f[i].cid = f[j].cid
                 PROVE  i = j
      BY <1>3
  <2>2. i \in DOMAIN g[t][n] /\ j \in DOMAIN g[t][n] /\ g[t][n][i].cid = g[t][n][j].cid
      BY <1>3, <2>1, ZenonT(60)
  <2>3. FlushedAt(f[i].cid, t, n, i) /\ FlushedAt(f[i].cid, t, n, j)
      BY <1>2, <1>3, <2>1, <2>2, ZenonT(60) DEF FlushedAt
  <2> QED BY <2>3, FlushedAtOnce, ZenonT(60)
<1>8. ASSUME NEW i \in 1 .. Len(f), NEW d \in f[i].deps
       PROVE  (\E j \in 1 .. i - 1 : f[j].cid = d) \/ (\E p \in SentTo(n) : p.cid = d)
  <2>1. \/ \E j \in 1 .. i - 1 : g[t][n][j].cid = d
        \/ \E u \in 1 .. t - 1 : \E j \in DOMAIN g[u][n] : g[u][n][j].cid = d
    <3>1. i \in DOMAIN g[t][n] /\ d \in g[t][n][i].deps
        BY <1>3, ZenonT(60)
    <3>2. t \in DOMAIN g
        BY <1>2
    <3>3. NamesEarlier(t, n, i)
        BY <3>1, <3>2, FlushDependencies, ZenonT(60)
    <3> QED BY <3>1, <3>3, ZenonT(60) DEF NamesEarlier
  <2>2. ASSUME NEW u \in 1 .. t - 1, NEW j \in DOMAIN g[u][n], g[u][n][j].cid = d
        PROVE  \E p \in SentTo(n) : p.cid = d
    <3>1. g[u][n][j] \in Elements(g[u][n])
        BY ZenonT(60) DEF Elements
    <3>2. g[u][n][j] \in SentTo(n)
        BY <1>2, <3>1, ZenonT(60) DEF SentTo
    <3> QED BY <2>2, <3>2, ZenonT(60)
  <2> QED BY <1>3, <2>1, <2>2, ZenonT(60)
<1>9. Stream(n) \in Seq(Message) /\ f \in Seq(Message)
    BY <1>3 DEF TypeOK, Stream, Message
<1>10. InOrder(Stream(n), SentTo(n), Taken)
    BY DEF StreamsInOrder
<1>11. Elements(f) = {f[i] : i \in 1 .. Len(f)}
    BY <1>3 DEF Elements
<1>12. InOrder(Stream(n) \o f, SentTo(n) \cup {f[i] : i \in 1 .. Len(f)}, Taken)
  <2>1. \A i \in 1 .. Len(f) : \A p \in SentTo(n) : p.cid # f[i].cid
      BY <1>5, ZenonT(60)
  <2>2. \A i \in 1 .. Len(f) : f[i].type = "COMMAND" /\ f[i].cid \notin Taken
      BY <1>6, ZenonT(60)
  <2>3. \A i \in 1 .. Len(f) : \A d \in f[i].deps :
           (\E j \in 1 .. i - 1 : f[j].cid = d) \/ (\E p \in SentTo(n) : p.cid = d)
      BY <1>8, ZenonT(60)
  <2> QED BY <1>7, <1>9, <1>10, <2>1, <2>2, <2>3, Extended, ZenonT(60)
<1> QED BY <1>3, <1>11, <1>12, ZenonT(60)

-----------------------------------------------------------------------------
(* The jobs. *)

\* What a job waits for and has ended is counted down.
LEMMA WaitsCounted ==
    ASSUME NEW n, NEW c, Ended(n) \subseteq Cid
    PROVE  Waits(c) \subseteq Cid /\ CountDown(n, c) = Cardinality(Waits(c) \cap Ended(n))
<1>1. {d \in Ended(n) : c \in dependents[d]} = Waits(c) \cap Ended(n)
    BY DEF Waits
<1> QED BY <1>1, Zenon DEF CountDown, Waits

\* Only jobs that wait for nothing but ended jobs are started, so their dependencies are done.
LEMMA ReadyWaits ==
    ASSUME TypeOK, JobsCounted, NEW n \in Node, NEW c \in Ready(n)
    PROVE  Waits(c) \subseteq Ended(n) /\ DepsOf(c) \subseteq finished
<1>1. Ended(n) \subseteq Cid /\ Ended(n) \subseteq finished
    BY DEF Ended, On, TypeOK
<1>2. c \in jobs \ running /\ unsatisfied_dependencies[c] = CountDown(n, c)
    BY DEF Ready, On
<1>3. Cardinality(Waits(c)) = Cardinality(Waits(c) \cap Ended(n))
    BY <1>1, <1>2, WaitsCounted DEF JobsCounted
<1>4. Waits(c) \subseteq Ended(n)
    BY <1>1, <1>3, WaitsCounted, Zenon DEF JobsCounted, Counting
<1>5. DepsOf(c) \subseteq finished \cup Waits(c)
    BY <1>2 DEF JobsCounted
<1> QED BY <1>1, <1>4, <1>5

\* A pass over the jobs starts those that are ready, and only started ones become done.
LEMMA UpdateJobs ==
    ASSUME TypeOK, NEW n \in Node, update_jobs(n)
    PROVE  /\ running' = running \cup Ready(n)
           /\ finished \subseteq finished'
           /\ finished' \subseteq finished \cup (jobs \cap running) \cup Ready(n)
<1>1. PICK ready : ready = Ready(n)
    OBVIOUS
<1>2. PICK updated : updated = (On(n, jobs \cap running) \ Ended(n)) \cup ready
    BY Zenon
<1>3. /\ running' = running \cup ready
      /\ finished' = finished \cup OfKind(ready, "MASTER_ACCESS") \cup OfKind(updated, "HORIZON")
           \cup {c \in OfKind(updated, "PUSH") : TransferDone(c, push_done)}
           \cup {c \in OfKind(updated, "AWAIT_PUSH") : TransferDone(c, await_done')}
           \cup {c \in OfKind(updated, "COMPUTE") : ComputeDone(c)}
    BY <1>1, <1>2, Zenon DEF update_jobs
<1>4. updated \subseteq (jobs \cap running) \cup ready
    BY <1>2 DEF On
<1> QED BY <1>1, <1>3, <1>4 DEF OfKind

\* What a pass of node n does to the jobs: it erases the ended ones, starts the ready ones and
\* creates the jobs K, none or one, that wait for the jobs X.
JobsChange(n, K, X) ==
    /\ update_jobs(n)
    /\ K \subseteq Cid /\ K \cap Taken = {} /\ X \subseteq Remaining(n)
    /\ \A c \in K : DepsOf(c) \subseteq finished \cup X
    /\ jobs' = Remaining(n) \cup K
    /\ \A c \in Cid \ K : unsatisfied_dependencies'[c]
                            = unsatisfied_dependencies[c] - CountDown(n, c)
    /\ \A c \in K : unsatisfied_dependencies'[c] = Cardinality(X)
    /\ dependents' = [d \in Cid |-> Dependents(n)[d] \cup (IF d \in X THEN K ELSE {})]

\* What it does to the stream: it leaves z in the queue and r on its way to the node.
StreamChange(n, z, r, K) ==
    /\ z \in Seq(Message) /\ r \in Seq(Message)
    /\ command_queue' = [command_queue EXCEPT ![n] = z] /\ inbox' = [inbox EXCEPT ![n] = r]
    /\ InOrder(z \o r, SentTo(n), Taken \cup K)
    /\ \A k \in K : \E p \in SentTo(n) : p.cid = k

\* The counts stay right in a pass.
LEMMA CountsKept ==
    ASSUME TypeOK, JobsCounted, NEW n \in Node, program' = program, NEW K, NEW X,
           JobsChange(n, K, X)
    PROVE  JobsCounted'
<1>1. /\ Ended(n) \subseteq Cid /\ Ended(n) \subseteq finished /\ Ended(n) \subseteq running
      /\ jobs \subseteq Cid /\ running \subseteq Taken /\ jobs \subseteq Taken
      /\ Ready(n) \subseteq jobs \ running /\ Remaining(n) = jobs \ Ended(n)
      /\ X \subseteq Remaining(n) /\ X \subseteq Cid /\ K \cap Taken = {}
      /\ running' = running \cup Ready(n) /\ finished \subseteq finished'
      /\ jobs' = Remaining(n) \cup K
  <2>1. running' = running \cup Ready(n) /\ finished \subseteq finished'
      BY UpdateJobs DEF JobsChange
  <2>2. jobs' = Remaining(n) \cup K /\ K \cap Taken = {} /\ X \subseteq Remaining(n)
      BY DEF JobsChange
  <2>3. /\ Ended(n) \subseteq Cid /\ Ended(n) \subseteq finished /\ Ended(n) \subseteq running
        /\ jobs \subseteq Cid /\ running \subseteq Taken /\ jobs \subseteq Taken
        /\ Ready(n) \subseteq jobs \ running /\ Remaining(n) = jobs \ Ended(n)
      BY DEF Ended, On, TypeOK, Ready, Remaining, Taken
  <2> QED BY <2>1, <2>2, <2>3
<1>2. \A c : DepsOf(c)' = DepsOf(c)
    BY DEF DepsOf, Packages
<1>3. \A c : Waits(c)' = {d \in Cid : c \in dependents'[d]}
    BY DEF Waits
<1>4. ASSUME NEW d \in Cid, NEW c
      PROVE  c \in dependents'[d] <=> \/ d \notin Ended(n) /\ c \in dependents[d]
                                      \/ d \in X /\ c \in K
    BY DEF Dependents, JobsChange
<1>5. ASSUME NEW d \in Cid, NEW c \in dependents[d]
      PROVE  c \in jobs \ running /\ d \in jobs /\ c \notin K
  <2>1. c \in jobs \ running /\ d \in jobs
      BY <1>5 DEF JobsCounted
  <2> QED BY <1>1, <2>1
<1>6. ASSUME NEW c \in jobs' \ running'
      PROVE  /\ unsatisfied_dependencies'[c] = Cardinality(Waits(c)')
             /\ DepsOf(c)' \subseteq finished' \cup Waits(c)'
  <2>1. CASE c \in K
    <3>1. Waits(c)' = X
      <4>1. ASSUME NEW d \in Cid PROVE c \in dependents'[d] <=> d \in X
          BY <1>4, <1>5, <2>1
      <4> QED BY <1>1, <1>3, <4>1, Zenon
    <3>2. /\ unsatisfied_dependencies'[c] = Cardinality(X)
          /\ DepsOf(c) \subseteq finished \cup X
        BY <2>1 DEF JobsChange
    <3> QED BY <1>1, <1>2, <3>1, <3>2
  <2>2. CASE c \notin K
    <3>1. c \in jobs \ running
        BY <1>1, <1>6, <2>2
    <3>2. Waits(c)' = Waits(c) \ Ended(n)
      <4>1. ASSUME NEW d \in Cid
            PROVE  c \in dependents'[d] <=> d \notin Ended(n) /\ c \in dependents[d]
          BY <1>4, <2>2
      <4> QED BY <1>3, <4>1 DEF Waits
    <3>3. PICK W : W = Waits(c)
        OBVIOUS
    <3>4. PICK E : E = Ended(n)
        OBVIOUS
    <3>5. W \subseteq Cid /\ E \subseteq Cid
        BY <1>1, <3>3, <3>4, WaitsCounted, ZenonT(60)
    <3>6. Cardinality(W \ E) = Cardinality(W) - Cardinality(W \cap E)
        BY <3>5, Zenon DEF JobsCounted, Counting
    <3>7. unsatisfied_dependencies'[c] = unsatisfied_dependencies[c] - CountDown(n, c)
        BY <1>1, <2>2, <3>1, ZenonT(60) DEF JobsChange
    <3>8. unsatisfied_dependencies[c] = Cardinality(W) /\ DepsOf(c) \subseteq finished \cup W
        BY <3>1, <3>3 DEF JobsCounted
    <3>9. CountDown(n, c) = Cardinality(W \cap E)
        BY <1>1, <3>3, <3>4, WaitsCounted, ZenonT(60)
    <3>10. unsatisfied_dependencies'[c] = Cardinality(Waits(c)')
        BY <3>2, <3>3, <3>4, <3>6, <3>7, <3>8, <3>9, ZenonT(60)
    <3>11. DepsOf(c)' \subseteq finished' \cup Waits(c)'
        BY <1>1, <1>2, <3>2, <3>3, <3>8, ZenonT(60)
    <3> QED BY <3>10, <3>11
  <2> QED BY <2>1, <2>2
<1>7. ASSUME NEW d \in Cid, NEW c \in dependents'[d] PROVE c \in jobs' \ running' /\ d \in jobs'
  <2>1. CASE d \notin Ended(n) /\ c \in dependents[d]
    <3>1. c \in jobs \ running /\ d \in jobs
        BY <1>5, <2>1
    <3>2. c \notin Ready(n)
      <4>1. d \in Waits(c)
          BY <2>1 DEF Waits
      <4> QED BY <2>1, <4>1, ReadyWaits
    <3> QED BY <1>1, <2>1, <3>1, <3>2
  <2>2. CASE d \in X /\ c \in K
      BY <1>1, <2>2
  <2> QED BY <1>4, <2>1, <2>2
<1>8. /\ \A c \in jobs' \ running' :
            /\ unsatisfied_dependencies'[c] = Cardinality(Waits(c)')
            /\ DepsOf(c)' \subseteq finished' \cup Waits(c)'
      /\ \A d \in Cid : /\ dependents'[d] \subseteq jobs' \ running'
                        /\ dependents'[d] # {} => d \in jobs'
    BY <1>6, <1>7
<1> QED BY <1>8 DEF JobsCounted

\* The invariant is kept by a pass.
LEMMA PassKept ==
    ASSUME IInv, NEW n \in Node, UNCHANGED <<program, pos, scheduled>>, NEW z, NEW r, NEW K, NEW X,
           JobsChange(n, K, X), StreamChange(n, z, r, K)
    PROVE  IInv'
<1>1. TypeOK /\ StreamsInOrder /\ JobsCounted /\ DependenciesRespected
    BY DEF IInv
<1>2. /\ running' = running \cup Ready(n) /\ finished \subseteq finished'
      /\ finished' \subseteq finished \cup (jobs \cap running) \cup Ready(n)
    BY <1>1, UpdateJobs DEF JobsChange
<1>3. /\ Ended(n) \subseteq finished /\ Ready(n) \subseteq jobs
      /\ jobs \subseteq Cid /\ finished \subseteq running /\ running \subseteq Taken
      /\ Remaining(n) = jobs \ Ended(n)
    BY <1>1 DEF Ended, On, TypeOK, Ready, Remaining
<1>4. Taken' = Taken \cup K /\ jobs' = (jobs \ Ended(n)) \cup K /\ K \subseteq Cid
  <2>1. jobs' = (jobs \ Ended(n)) \cup K /\ K \subseteq Cid
      BY <1>3 DEF JobsChange
  <2> QED BY <1>2, <1>3, <2>1 DEF Taken
<1>5. TypeOK'
  <2>1. /\ inbox' \in [Node -> Seq(Message)]
        /\ command_queue' \in [Node -> Seq(Message)]
      BY <1>1 DEF TypeOK, StreamChange
  <2>2. jobs' \subseteq Cid /\ finished' \subseteq running' /\ running' \subseteq Taken'
      BY <1>2, <1>3, <1>4 DEF Taken
  <2>3. dependents' \in [Cid -> SUBSET Cid]
    <3>1. \A d \in Cid : Dependents(n)[d] \subseteq Cid
        BY <1>1 DEF TypeOK, Dependents
    <3>2. dependents' = [d \in Cid |-> Dependents(n)[d] \cup (IF d \in X THEN K ELSE {})]
        BY DEF JobsChange
    <3> QED BY <1>4, <3>1, <3>2
  <2>4. /\ program' \in Program /\ pos' \in [Node -> Nat]
        /\ scheduled' \in 0 .. Len(program'.flushes)
      BY <1>1 DEF TypeOK
  <2> QED BY <2>1, <2>2, <2>3, <2>4 DEF TypeOK
<1>6. StreamsInOrder'
  <2>1. \A m \in Node : SentTo(m)' = SentTo(m)
      BY DEF SentTo
  <2>2. ASSUME NEW m \in Node PROVE InOrder(Stream(m)', SentTo(m), Taken \cup K)
    <3>1. CASE m = n
      <4>1. Stream(m)' = z \o r
          BY <1>1, <3>1 DEF Stream, TypeOK, StreamChange
      <4> QED BY <3>1, <4>1 DEF StreamChange
    <3>2. CASE m # n
      <4>1. Stream(m)' = Stream(m)
          BY <1>1, <3>2 DEF Stream, TypeOK, StreamChange
      <4>2. \A q \in SentTo(m) : q.cid \notin K
          BY <1>1, <3>2, SentElsewhere DEF StreamChange
      <4>3. InOrder(Stream(m), SentTo(m), Taken)
          BY <1>1 DEF StreamsInOrder
      <4>4. InOrder(Stream(m), SentTo(m), Taken \cup K)
          BY <4>2, <4>3, TakenElsewhere, Zenon
      <4> QED BY <4>1, <4>4
    <3> QED BY <3>1, <3>2
  <2>3. \A c \in Taken \cup K : \E m \in Node : \E p \in SentTo(m) : p.cid = c
      BY <1>1 DEF StreamsInOrder, StreamChange
  <2>4. ASSUME NEW m \in Node PROVE InOrder(Stream(m)', SentTo(m)', Taken')
    <3>1. SentTo(m)' = SentTo(m)
        BY <2>1
    <3> QED BY <1>4, <2>2, <3>1
  <2>5. ASSUME NEW c \in Taken' PROVE \E m \in Node : \E p \in SentTo(m)' : p.cid = c
    <3>1. PICK m \in Node : \E p \in SentTo(m) : p.cid = c
        BY <1>4, <2>3
    <3>2. SentTo(m)' = SentTo(m)
        BY <2>1
    <3> QED BY <3>1, <3>2
  <2> QED BY <2>4, <2>5, ZenonT(60) DEF StreamsInOrder, InOrder, AfterDependencies, NoneTwice, NoneLost
<1>7. JobsCounted'
    BY <1>1, CountsKept
<1>8. DependenciesRespected'
  <2>1. \A c : DepsOf(c)' = DepsOf(c)
      BY DEF DepsOf, Packages
  <2>2. ASSUME NEW c \in running' PROVE DepsOf(c) \subseteq finished'
    <3>1. CASE c \in running
        BY <1>1, <1>2, <3>1 DEF DependenciesRespected
    <3>2. CASE c \in Ready(n)
        BY <1>1, <1>2, <3>2, ReadyWaits
    <3> QED BY <1>2, <3>1, <3>2
  <2>3. \A c \in running' : DepsOf(c)' \subseteq finished'
      BY <2>1, <2>2
  <2> QED BY <2>3 DEF DependenciesRespected
<1> QED BY <1>5, <1>6, <1>7, <1>8 DEF IInv

\* One pass of the loop of an executor, with a message received or without.
LEMMA Pass ==
    ASSUME IInv, NEW n \in Node, NEW a,
           a = <<>> \/ (inbox[n] # <<>> /\ a = <<Head(inbox[n])>>),
           finish_pass(n, a)
    PROVE  IInv'
<1>1. TypeOK /\ StreamsInOrder
    BY DEF IInv
<1>2. PICK q : q = command_queue[n] \o a
    BY Zenon
<1>3. PICK r : r = SubSeq(inbox[n], Len(a) + 1, Len(inbox[n]))
    BY Zenon
<1>4. q \in Seq(Message) /\ r \in Seq(Message) /\ q \o r = Stream(n)
  <2>1. command_queue[n] \in Seq(Message) /\ inbox[n] \in Seq(Message)
      BY <1>1 DEF TypeOK
  <2>2. /\ q \in Seq(Message) /\ r \in Seq(Message)
        /\ q \o r = command_queue[n] \o inbox[n]
      BY <1>2, <1>3, <2>1, Received, ZenonT(60)
  <2> QED BY <2>2 DEF Stream
<1>5. /\ UNCHANGED <<program, pos, scheduled>> /\ update_jobs(n)
      /\ inbox' = [inbox EXCEPT ![n] = r] /\ handle_command(n, q)
    BY <1>1, <1>2, <1>3, ZenonT(60) DEF finish_pass, main_vars, TypeOK
<1>6. InOrder(q \o r, SentTo(n), Taken)
    BY <1>1, <1>4 DEF StreamsInOrder
<1>7. ASSUME NEW z \in Seq(Message), command_queue' = [command_queue EXCEPT ![n] = z],
             InOrder(z \o r, SentTo(n), Taken), create_no_job(n)
      PROVE  IInv'
  <2>1. JobsChange(n, {}, {})
    <3>1. /\ jobs' = Remaining(n) \cup {}
          /\ \A c \in Cid \ {} : unsatisfied_dependencies'[c]
                                   = unsatisfied_dependencies[c] - CountDown(n, c)
        BY <1>7, Zenon DEF create_no_job, Unsatisfied
    <3>2. dependents' = [d \in Cid |-> Dependents(n)[d] \cup (IF d \in {} THEN {} ELSE {})]
      <4>1. dependents' = Dependents(n)
          BY <1>7 DEF create_no_job
      <4> QED BY <4>1 DEF Dependents
    <3> QED BY <1>5, <3>1, <3>2 DEF JobsChange
  <2>2. StreamChange(n, z, r, {})
    <3>1. Taken \cup {} = Taken
        OBVIOUS
    <3> QED BY <1>4, <1>5, <1>7, <3>1 DEF StreamChange
  <2> QED BY <1>5, <2>1, <2>2, PassKept
<1>8. CASE ~CanTake(n) \/ q = <<>>
  <2>1. command_queue' = [command_queue EXCEPT ![n] = q] /\ create_no_job(n)
      BY <1>5, <1>8 DEF handle_command
  <2> QED BY <1>4, <1>6, <1>7, <2>1, Zenon
<1>9. CASE CanTake(n) /\ q # <<>>
  <2>1. /\ Tail(q) \in Seq(Message)
        /\ Len(q \o r) \in Nat \ {0} /\ (q \o r)[1] = Head(q)
        /\ Len(Tail(q) \o r) = Len(q \o r) - 1
        /\ \A i \in 1 .. Len(q \o r) - 1 : (Tail(q) \o r)[i] = (q \o r)[i + 1]
      BY <1>4, <1>9, TakenFirst, Zenon
  <2>2. PICK pkg : pkg = Head(q)
      OBVIOUS
  <2>3. /\ command_queue' = [command_queue EXCEPT ![n] = Tail(q)]
        /\ \/ pkg.type \in {"SHUTDOWN", "SYNC"} /\ create_no_job(n)
           \/ pkg.type \notin {"SHUTDOWN", "SYNC"} /\ create_job(n, pkg)
      BY <1>5, <1>9, <2>2 DEF handle_command
  <2>4. pkg \in Message /\ pkg = (q \o r)[1]
      BY <1>4, <1>9, <2>1, <2>2
  <2>5. CASE pkg.type \in {"SHUTDOWN", "SYNC"} /\ create_no_job(n)
    <3>1. pkg.type # "COMMAND"
        BY <2>5
    <3>2. InOrder(Tail(q) \o r, SentTo(n), Taken)
        BY <1>6, <2>1, <2>4, <3>1, TakeControl, Zenon
    <3> QED BY <1>7, <2>1, <2>3, <2>5, <3>2, Zenon
  <2>6. CASE pkg.type \notin {"SHUTDOWN", "SYNC"} /\ create_job(n, pkg)
    <3>1. pkg.type = "COMMAND"
      <4>1. ASSUME pkg \in Control PROVE pkg.type \in {"SHUTDOWN", "SYNC"}
          BY <4>1 DEF Control
      <4>2. pkg \in CommandPackage
          BY <2>4, <2>6, <4>1, Zenon DEF Message
      <4> QED BY <4>2 DEF CommandPackage
    <3>2. /\ pkg \in SentTo(n) /\ pkg.cid \notin Taken /\ pkg.deps \subseteq Taken
          /\ InOrder(Tail(q) \o r, SentTo(n), Taken \cup {pkg.cid})
        BY <1>6, <2>1, <2>4, <3>1, TakeCommand, Zenon
    <3>3. /\ pkg.cid \in Cid /\ DepsOf(pkg.cid) = pkg.deps
          /\ \A d \in pkg.deps : Command(d).nid = n
        BY <1>1, <3>2, SentPackage DEF CommandPackage
    <3>4. PICK X : X = Existing(n, pkg)
        OBVIOUS
    <3>5. X \in SUBSET Remaining(n) /\ DepsOf(pkg.cid) \subseteq finished \cup X
        BY <3>2, <3>3, <3>4, ZenonT(60) DEF Existing, On, Remaining, Ended, Taken
    <3>6. JobsChange(n, {pkg.cid}, X)
      <4>1. /\ {pkg.cid} \subseteq Cid /\ {pkg.cid} \cap Taken = {}
            /\ \A c \in {pkg.cid} : DepsOf(c) \subseteq finished \cup X
          BY <3>2, <3>3, <3>5
      <4>2. jobs' = Remaining(n) \cup {pkg.cid}
          BY <2>6 DEF create_job
      <4>3. /\ \A c \in Cid \ {pkg.cid} : unsatisfied_dependencies'[c]
                                            = unsatisfied_dependencies[c] - CountDown(n, c)
            /\ \A c \in {pkg.cid} : unsatisfied_dependencies'[c] = Cardinality(X)
          BY <2>6, <3>3, <3>4, ZenonT(60) DEF create_job, Unsatisfied
      <4>4. dependents' = [d \in Cid |-> Dependents(n)[d] \cup
                                           (IF d \in X THEN {pkg.cid} ELSE {})]
          BY <2>6, <3>4 DEF create_job
      <4> QED BY <1>5, <3>5, <4>1, <4>2, <4>3, <4>4, Zenon DEF JobsChange
    <3>7. StreamChange(n, Tail(q), r, {pkg.cid})
        BY <1>4, <1>5, <2>1, <2>3, <3>2, ZenonT(60) DEF StreamChange
    <3> QED BY <1>5, <3>6, <3>7, PassKept
  <2> QED BY <2>3, <2>5, <2>6
<1> QED BY <1>8, <1>9

-----------------------------------------------------------------------------
(* The steps. *)

\* Outside the passes of the executors only the streams matter: messages may be added to them
\* as long as they stay in order.
LEMMA SendKept ==
    ASSUME IInv, pos' \in [Node -> Nat],
           UNCHANGED <<program, command_queue, jobs, unsatisfied_dependencies, dependents,
                       running, finished>>,
           scheduled' \in 0 .. Len(program.flushes),
           inbox' \in [Node -> Seq(Message)],
           \A n \in Node : InOrder(command_queue[n] \o inbox'[n], SentTo(n)', Taken),
           \A n \in Node : SentTo(n) \subseteq SentTo(n)'
    PROVE  IInv'
<1>1. TypeOK'
    BY DEF IInv, TypeOK, Taken
<1>2. StreamsInOrder'
  <2>1. Taken' = Taken
      BY DEF Taken
  <2>2. ASSUME NEW n \in Node PROVE InOrder(Stream(n)', SentTo(n)', Taken')
    <3>1. Stream(n)' = command_queue[n] \o inbox'[n]
        BY DEF Stream
    <3> QED BY <2>1, <3>1
  <2>3. ASSUME NEW c \in Taken' PROVE \E n \in Node : \E p \in SentTo(n)' : p.cid = c
    <3>1. PICK n \in Node : \E p \in SentTo(n) : p.cid = c
        BY <2>1 DEF IInv, StreamsInOrder
    <3>2. SentTo(n) \subseteq SentTo(n)'
        OBVIOUS
    <3> QED BY <3>1, <3>2
  <2> QED BY <2>2, <2>3, Zenon DEF StreamsInOrder, InOrder, AfterDependencies, NoneTwice, NoneLost
<1>3. \A c : DepsOf(c)' = DepsOf(c)
    BY DEF DepsOf, Packages
<1>4. JobsCounted'
  <2>1. \A c : Waits(c)' = Waits(c)
      BY DEF Waits
  <2>2. /\ Counting
        /\ \A c \in jobs \ running :
              /\ unsatisfied_dependencies[c] = Cardinality(Waits(c))
              /\ DepsOf(c) \subseteq finished \cup Waits(c)
        /\ \A d \in Cid : /\ dependents[d] \subseteq jobs \ running
                          /\ dependents[d] # {} => d \in jobs
      BY Zenon DEF IInv, JobsCounted
  <2> QED BY <1>3, <2>1, <2>2 DEF JobsCounted
<1>5. DependenciesRespected'
    BY <1>3 DEF IInv, DependenciesRespected
<1> QED BY <1>1, <1>2, <1>4, <1>5 DEF IInv

\* The other steps leave the streams alone.
LEMMA Untouched ==
    ASSUME IInv, pos' \in [Node -> Nat],
           UNCHANGED <<program, scheduled, inbox, command_queue, jobs,
                       unsatisfied_dependencies, dependents, running, finished>>
    PROVE  IInv'
<1>1. inbox' \in [Node -> Seq(Message)] /\ scheduled' \in 0 .. Len(program.flushes)
    BY DEF IInv, TypeOK
<1>2. ASSUME NEW n \in Node
      PROVE  /\ InOrder(command_queue[n] \o inbox'[n], SentTo(n)', Taken)
             /\ SentTo(n) \subseteq SentTo(n)'
  <2>1. SentTo(n)' = SentTo(n)
      BY DEF SentTo
  <2>2. InOrder(command_queue[n] \o inbox[n], SentTo(n), Taken)
      BY DEF IInv, StreamsInOrder, Stream
  <2> QED BY <2>1, <2>2
<1> QED BY <1>1, <1>2, SendKept

\* The scheduler flushes the commands of a task.
LEMMA Scheduled ==
    ASSUME IInv, schedule
    PROVE  IInv'
<1>1. TypeOK /\ StreamsInOrder
    BY DEF IInv
<1>2. /\ UNCHANGED <<program, pos, command_queue, jobs, unsatisfied_dependencies, dependents,
                     running, finished>>
      /\ scheduled + 1 \in DOMAIN program.flushes /\ scheduled' = scheduled + 1
      /\ inbox' = [n \in Node |-> inbox[n] \o program.flushes[scheduled + 1][n]]
    BY ZenonT(60) DEF schedule, loop_vars, job_vars
<1>3. scheduled \in Nat /\ scheduled' \in 0 .. Len(program.flushes)
    BY <1>1, <1>2, FlushTypes
<1>4. ASSUME NEW n \in Node
      PROVE  /\ inbox'[n] \in Seq(Message)
             /\ InOrder(command_queue[n] \o inbox'[n], SentTo(n)', Taken)
             /\ SentTo(n) \subseteq SentTo(n)'
  <2>1. PICK f : f = program.flushes[scheduled + 1][n]
      OBVIOUS
  <2>2. /\ f \in Seq(CommandPackage)
        /\ InOrder(Stream(n) \o f, SentTo(n) \cup Elements(f), Taken)
      BY <1>1, <1>2, <2>1, FlushInOrder, Zenon
  <2>3. command_queue[n] \in Seq(Message) /\ inbox[n] \in Seq(Message) /\ f \in Seq(Message)
      BY <1>1, <2>2 DEF TypeOK, Message
  <2>4. inbox'[n] = inbox[n] \o f /\ inbox'[n] \in Seq(Message)
    <3>1. inbox[n] \o f \in Seq(Message)
        BY <2>3
    <3>2. inbox'[n] = inbox[n] \o f
        BY <1>2, <2>1, Zenon
    <3> QED BY <3>1, <3>2, Zenon
  <2>5. command_queue[n] \o inbox'[n] = Stream(n) \o f
    <3>1. (command_queue[n] \o inbox[n]) \o f = command_queue[n] \o (inbox[n] \o f)
        BY <2>3, Joined, Zenon
    <3> QED BY <2>4, <3>1, Zenon DEF Stream
  <2>6. SentTo(n)' = SentTo(n) \cup Elements(f)
    <3>1. SentTo(n)' = UNION {Elements(program.flushes[t][n]) : t \in 1 .. scheduled + 1}
        BY <1>2, ZenonT(60) DEF SentTo
    <3>2. 1 .. scheduled + 1 = (1 .. scheduled) \cup {scheduled + 1}
        BY <1>3
    <3> QED BY <2>1, <3>1, <3>2, ZenonT(60) DEF SentTo
  <2> QED BY <2>2, <2>4, <2>5, <2>6, ZenonT(60)
<1>5. inbox' \in [Node -> Seq(Message)]
    BY <1>2, <1>4, ZenonT(60)
<1>6. pos' \in [Node -> Nat]
    BY <1>1, <1>2, ZenonT(60) DEF TypeOK
<1> QED BY <1>2, <1>3, <1>4, <1>5, <1>6, SendKept, ZenonT(60)

\* A control command is broadcast.
LEMMA Broadcast ==
    ASSUME IInv, NEW pkg \in Control, broadcast_control_command(pkg)
    PROVE  IInv'
<1>1. TypeOK /\ StreamsInOrder
    BY DEF IInv
<1>2. /\ UNCHANGED <<program, pos, scheduled, command_queue, jobs, unsatisfied_dependencies,
                     dependents, running, finished>>
      /\ inbox' = [n \in Node |-> Append(inbox[n], pkg)]
    BY DEF broadcast_control_command, loop_vars, job_vars
<1>3. pkg \in Message /\ pkg.type # "COMMAND"
    BY DEF Message, Control
<1>4. ASSUME NEW n \in Node
      PROVE  /\ inbox'[n] \in Seq(Message)
             /\ InOrder(command_queue[n] \o inbox'[n], SentTo(n)', Taken)
             /\ SentTo(n) \subseteq SentTo(n)'
  <2>1. command_queue[n] \in Seq(Message) /\ inbox[n] \in Seq(Message)
      BY <1>1 DEF TypeOK
  <2>2. inbox'[n] = Append(inbox[n], pkg) /\ inbox'[n] \in Seq(Message)
      BY <1>2, <1>3, <2>1
  <2>3. command_queue[n] \o inbox'[n] = Stream(n) \o <<pkg>>
    <3>1. command_queue[n] \o Append(inbox[n], pkg) = (command_queue[n] \o inbox[n]) \o <<pkg>>
        BY <1>3, <2>1, AddedLast, Zenon
    <3> QED BY <2>2, <3>1, Zenon DEF Stream
  <2>4. SentTo(n)' = SentTo(n)
      BY <1>2, Zenon DEF SentTo
  <2>5. Stream(n) \in Seq(Message) /\ InOrder(Stream(n), SentTo(n), Taken)
      BY <1>1, <2>1 DEF Stream, StreamsInOrder
  <2>6. InOrder(Stream(n) \o <<pkg>>, SentTo(n), Taken)
      BY <1>3, <2>5, ExtendedByControl
  <2> QED BY <2>2, <2>3, <2>4, <2>6, ZenonT(60)
<1>5. inbox' \in [Node -> Seq(Message)]
    BY <1>2, <1>4
<1>6. pos' \in [Node -> Nat] /\ scheduled' \in 0 .. Len(program.flushes)
    BY <1>1, <1>2 DEF TypeOK
<1> QED BY <1>2, <1>4, <1>5, <1>6, SendKept, ZenonT(60)

\* Initially nothing is sent and there are no jobs.
LEMMA InitInv ==
    Counting /\ Init => IInv
<1> SUFFICES ASSUME Counting, Init PROVE IInv
    OBVIOUS
<1>1. program \in Program /\ WellFormed(program)
    BY ExecutorAssumption DEF Init
<1>2. TypeOK
  <2>1. program.flushes \in Seq([Node -> Seq(CommandPackage)])
      BY <1>1, ZenonT(60) DEF WellFormed
  <2>2. scheduled \in 0 .. Len(program.flushes)
      BY <2>1 DEF Init
  <2>3. /\ pos \in [Node -> Nat] /\ dependents \in [Cid -> SUBSET Cid]
        /\ inbox \in [Node -> Seq(Message)] /\ command_queue \in [Node -> Seq(Message)]
      BY DEF Init
  <2>4. jobs \subseteq Cid /\ finished \subseteq running /\ running \subseteq Taken
      BY DEF Init
  <2> QED BY <1>1, <2>2, <2>3, <2>4 DEF TypeOK
<1>3. StreamsInOrder
  <2>1. Taken = {}
      BY DEF Init, Taken
  <2>2. ASSUME NEW n \in Node PROVE InOrder(Stream(n), SentTo(n), Taken)
    <3>1. SentTo(n) = {}
        BY DEF Init, SentTo
    <3>2. Stream(n) = <<>> /\ Len(Stream(n)) = 0
        BY DEF Init, Stream
    <3> QED BY <2>1, <3>1, <3>2 DEF InOrder, AfterDependencies, NoneTwice, NoneLost
  <2> QED BY <2>1, <2>2 DEF StreamsInOrder
<1>4. JobsCounted
    BY DEF Init, JobsCounted
<1>5. DependenciesRespected
    BY DEF Init, DependenciesRespected
<1> QED BY <1>2, <1>3, <1>4, <1>5 DEF IInv

\* Every step of every thread keeps the invariant.
LEMMA Preserved ==
    IInv /\ [Next]_vars => IInv'
<1> SUFFICES ASSUME IInv, [Next]_vars PROVE IInv'
    OBVIOUS
<1>1. TypeOK
    BY DEF IInv
<1>2. ASSUME NEW n \in Node, MainThread(n) PROVE IInv'
  <2>1. pos' \in [Node -> Nat]
    <3>1. pos' = [pos EXCEPT ![n] = pos[n] + 1]
        BY <1>2 DEF MainThread, create, sync_return
    <3>2. pos \in [Node -> Nat] /\ pos[n] + 1 \in Nat
        BY <1>1 DEF TypeOK
    <3> QED BY <3>1, <3>2
  <2>2. UNCHANGED <<program, scheduled, inbox, command_queue, jobs,
                    unsatisfied_dependencies, dependents, running, finished>>
      BY <1>2, Zenon DEF MainThread, create, sync_return, loop_vars, job_vars
  <2> QED BY <2>1, <2>2, Untouched
<1>3. CASE schedule
    BY <1>3, Scheduled
<1>4. CASE sync
  <2>1. program \in Program /\ pos[0] \in Nat
      BY <1>1, ExecutorAssumption DEF TypeOK
  <2>2. program.ops[pos[0]].id \in SyncId
      BY <2>1 DEF SyncId
  <2>3. Package("SYNC", 0, {}, program.ops[pos[0]].id) \in Control
      BY <2>2 DEF Control, Package
  <2> QED BY <1>4, <2>3, Broadcast DEF sync
<1>5. CASE shutdown
  <2>1. Package("SHUTDOWN", 0, {}, 0) \in Control
      BY DEF Control, Package
  <2> QED BY <1>5, <2>1, Broadcast DEF shutdown
<1>6. ASSUME NEW c \in submitted \ complete, run_kernel(c) PROVE IInv'
  <2>1. UNCHANGED <<program, pos, scheduled, inbox, command_queue, jobs,
                    unsatisfied_dependencies, dependents, running, finished>>
      BY <1>6, Zenon DEF run_kernel, main_vars, loop_vars, job_vars
  <2> QED BY <1>1, <2>1, Untouched DEF TypeOK
<1>7. ASSUME NEW n \in Node, \/ enter_barrier(n) \/ leave_barrier(n) \/ exit(n)
                             \/ \E r \in Reports(n) : poll_transfers(n, r)
      PROVE  IInv'
  <2>1. UNCHANGED <<program, pos, scheduled, inbox, command_queue, jobs,
                    unsatisfied_dependencies, dependents, running, finished>>
      BY <1>7, ZenonT(60) DEF enter_barrier, leave_barrier, exit, poll_transfers, main_vars, job_vars
  <2> QED BY <1>1, <2>1, Untouched DEF TypeOK
<1>8. ASSUME NEW n \in Node, receive(n) \/ receive_nothing(n) PROVE IInv'
    BY <1>8, Pass DEF receive, receive_nothing
<1>9. CASE UNCHANGED vars
  <2>1. UNCHANGED <<program, pos, scheduled, inbox, command_queue, jobs,
                    unsatisfied_dependencies, dependents, running, finished>>
      BY <1>9 DEF vars, run_vars, main_vars, loop_vars, job_vars
  <2> QED BY <1>1, <2>1, Untouched DEF TypeOK
<1> QED BY <1>2, <1>3, <1>4, <1>5, <1>6, <1>7, <1>8, <1>9, ZenonT(60) DEF Next, Environment, ExecutorThread

=============================================================================
