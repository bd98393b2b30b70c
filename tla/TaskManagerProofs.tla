------------------------- MODULE TaskManagerProofs -------------------------
(***************************************************************************)
(* Proofs about TaskManager, for every set of buffers, cells and command   *)
(* groups and any number of tasks.                                         *)
(*                                                                         *)
(* compute_dependencies looks only at the last writer of a cell and at its *)
(* dependents.  The invariant says why that is enough: every earlier       *)
(* access of the cell already precedes the last writer, or is one of its   *)
(* dependents.                                                             *)
(***************************************************************************)
EXTENDS TaskManager, TLAPS

\* Dependencies point to earlier tasks, so the graph has no cycle.
DependenciesEarlier ==
    \A t \in Task : /\ dependencies[t] \subseteq 0 .. t - 1
                    /\ true_dependencies[t] \subseteq dependencies[t]

\* Tasks access registered buffers only.
AccessesRegistered ==
    \A t \in Task, c \in Cell :
        c \in Reads(cgf[t]) \cup Writes(cgf[t]) => BufferOf[c] \in buffers

\* The recorded last writer wrote the cell, and all other writers of the cell
\* are older and ordered before it.
LastWriterIsLast ==
    \A c \in Cell :
        /\ buffers_last_writers[c] # None => Wrote(buffers_last_writers[c], c)
        /\ \A t \in Task : Wrote(t, c) =>
              /\ buffers_last_writers[c] # None
              /\ t <= buffers_last_writers[c]
              /\ Precedes(t, buffers_last_writers[c])

\* A reader of a cell is a dependent of the cell's last writer, or is ordered
\* before it, unless it read never-written data.
ReadersKnown ==
    \A c \in Cell, t \in Task : DidRead(t, c) =>
        \/ ReadsGarbage(t, c)
        \/ /\ buffers_last_writers[c] # None
           /\ \/ buffers_last_writers[c] \in dependencies[t]
              \/ Precedes(t, buffers_last_writers[c])

IInv == /\ TypeOK
        /\ DependenciesEarlier
        /\ AccessesRegistered
        /\ LastWriterIsLast
        /\ ReadersKnown
        /\ ConflictsOrdered
        /\ ReadsFromLastWriter
        /\ DependenciesJustified
-----------------------------------------------------------------------------
\* Ordering is transitive.
LEMMA PrecedesTransitive ==
    ASSUME NEW a \in Task, NEW b \in Task, NEW c \in Task,
           Precedes(a, b), Precedes(b, c)
    PROVE  Precedes(a, c)
BY DEF Precedes

\* get_requirements is Reads or Writes, cut down to one buffer.
LEMMA Requirements ==
    ASSUME NEW accesses, NEW bid, NEW c \in Cell
    PROVE  /\ c \in get_requirements(accesses, bid, ConsumerMode)
                <=> c \in Reads(accesses) /\ BufferOf[c] = bid
           /\ c \in get_requirements(accesses, bid, ProducerMode)
                <=> c \in Writes(accesses) /\ BufferOf[c] = bid
BY DEF get_requirements, Reads, Writes

\* A new task depends on existing tasks.
LEMMA NewDependenciesExist ==
    ASSUME TypeOK, NEW accesses
    PROVE  /\ ReadDependencies(accesses) \subseteq Task
           /\ WriteDependencies(accesses) \subseteq Task
<1>1. ASSUME NEW bid, NEW modes
      PROVE  LastWriters(get_requirements(accesses, bid, modes)) \subseteq Task
  BY DEF TypeOK, LastWriters, get_requirements
<1>2. ASSUME NEW w, NEW bid, NEW region
      PROVE  AntiDependents(w, bid, region) \subseteq Task
  BY DEF AntiDependents, get_dependents
<1>. QED  BY <1>1, <1>2 DEF ReadDependencies, WriteDependencies

\* Whoever reads a written cell depends on its last writer.
LEMMA ReaderDependsOnLastWriter ==
    ASSUME TypeOK, NEW accesses, NEW c \in Cell, c \in Reads(accesses),
           BufferOf[c] \in buffers, buffers_last_writers[c] # None
    PROVE  buffers_last_writers[c] \in ReadDependencies(accesses)
<1>1. c \in get_requirements(accesses, BufferOf[c], ConsumerMode)
  BY Requirements
<1>2. buffers_last_writers[c]
        \in LastWriters(get_requirements(accesses, BufferOf[c], ConsumerMode))
  BY <1>1 DEF LastWriters
<1>. QED  BY <1>2 DEF ReadDependencies

\* Whoever overwrites a written cell depends on the dependents of its last
\* writer that read the cell, and on some such dependent or the writer itself.
LEMMA WriterDependencies ==
    ASSUME TypeOK, NEW accesses, NEW c \in Cell, c \in Writes(accesses),
           BufferOf[c] \in buffers, buffers_last_writers[c] # None
    PROVE  LET w == buffers_last_writers[c] IN
           /\ \A t \in Task : w \in dependencies[t] /\ DidRead(t, c)
                 => t \in WriteDependencies(accesses)
           /\ \/ w \in WriteDependencies(accesses)
              \/ \E t \in Task : w \in dependencies[t] /\ t \in WriteDependencies(accesses)
<1> DEFINE w == buffers_last_writers[c]
           bid == BufferOf[c]
           region == get_requirements(accesses, bid, ProducerMode)
           readers == AntiDependents(w, bid, region)
           chosen == IF readers # {} THEN readers ELSE {w}
<1>1. c \in region
  BY Requirements
<1>2. w \in LastWriters(region)
  BY <1>1 DEF LastWriters
<1>3. chosen \subseteq WriteDependencies(accesses)
  BY <1>2 DEF WriteDependencies
<1>4. ASSUME NEW t \in Task, w \in dependencies[t], DidRead(t, c)
      PROVE  t \in WriteDependencies(accesses)
  <2>1. c \in get_requirements(cgf[t], bid, ConsumerMode)
    BY <1>4, Requirements DEF DidRead
  <2>2. t \in readers
    BY <1>1, <1>4, <2>1 DEF AntiDependents, get_dependents
  <2>. QED  BY <1>3, <2>2
<1>5. \A t \in readers : t \in Task /\ w \in dependencies[t]
  BY DEF AntiDependents, get_dependents
<1>. QED  BY <1>3, <1>4, <1>5
-----------------------------------------------------------------------------
\* The effect of create_task on the old tasks and on the new one.
LEMMA CreateTaskEffect ==
    ASSUME TypeOK, NEW accesses \in CommandGroup, create_task(accesses)
    PROVE  /\ Task' = Task \cup {next_task_id}
           /\ next_task_id \notin Task
           /\ \A t \in Task : /\ cgf'[t] = cgf[t]
                              /\ dependencies'[t] = dependencies[t]
                              /\ true_dependencies'[t] = true_dependencies[t]
           /\ cgf'[next_task_id] = accesses
           /\ dependencies'[next_task_id] =
                 ReadDependencies(accesses) \cup WriteDependencies(accesses)
           /\ true_dependencies'[next_task_id] = ReadDependencies(accesses)
           /\ \A c \in Cell : buffers_last_writers'[c] =
                 IF c \in Writes(accesses) THEN next_task_id ELSE buffers_last_writers[c]
BY DEF TypeOK, create_task, Task

\* Orderings between old tasks survive the creation of a task.
LEMMA PrecedesPreserved ==
    ASSUME TypeOK, DependenciesEarlier,
           NEW accesses \in CommandGroup, create_task(accesses),
           NEW a \in Task, NEW b \in Task, Precedes(a, b)
    PROVE  Precedes(a, b)'
<1> SUFFICES ASSUME NEW S \in SUBSET Task', Closed(S)', b \in S
             PROVE  a \in S
  BY DEF Precedes
<1>1. /\ Task' = Task \cup {next_task_id}
      /\ \A t \in Task : dependencies'[t] = dependencies[t]
  BY CreateTaskEffect
<1>2. \A t \in Task : dependencies[t] \subseteq Task
  BY DEF TypeOK
<1>3. Closed(S \cap Task)
  BY <1>1, <1>2 DEF Closed
<1>. QED  BY <1>3 DEF Precedes

\* The new task comes after everything it depends on, directly or through an
\* old task.
LEMMA NewTaskAfter ==
    ASSUME TypeOK, DependenciesEarlier,
           NEW accesses \in CommandGroup, create_task(accesses),
           NEW n, n = next_task_id,
           NEW a \in Task, NEW d \in Task, d \in dependencies'[n],
           a \in dependencies[d] \/ Precedes(a, d)
    PROVE  Precedes(a, n)'
<1> SUFFICES ASSUME NEW S \in SUBSET Task', Closed(S)', n \in S
             PROVE  a \in S
  BY DEF Precedes
<1>1. d \in S
  BY DEF Closed
<1>2. CASE a \in dependencies[d]
  BY <1>1, <1>2, CreateTaskEffect DEF Closed
<1>3. CASE Precedes(a, d)
  BY <1>1, <1>3, PrecedesPreserved DEF Precedes
<1>. QED  BY <1>2, <1>3
-----------------------------------------------------------------------------
\* The constructor establishes the invariant.
LEMMA InitEstablishes == Init => IInv
<1> SUFFICES ASSUME Init PROVE IInv
  OBVIOUS
<1>1. Task = {InitTask}
  BY DEF Init, Task, InitTask
<1>2. TypeOK
  BY <1>1, ConstantsOK DEF Init, TypeOK, InitTask
<1>3. Reads(cgf[InitTask]) = {} /\ Writes(cgf[InitTask]) = {}
  BY DEF Init, Reads, Writes, ConsumerMode, ProducerMode
<1>4. \A c \in Cell : ~Wrote(InitTask, c) /\ ~DidRead(InitTask, c)
  BY <1>3 DEF Init, Wrote, DidRead
<1>5. DependenciesEarlier /\ DependenciesJustified
  BY <1>1 DEF Init, DependenciesEarlier, DependenciesJustified
<1>6. AccessesRegistered
  BY <1>1, <1>3 DEF AccessesRegistered
<1>7. LastWriterIsLast /\ ReadersKnown
  BY <1>1, <1>4 DEF Init, LastWriterIsLast, ReadersKnown
<1>8. ConflictsOrdered /\ ReadsFromLastWriter
  BY <1>1, <1>4 DEF ConflictsOrdered, ReadsFromLastWriter
<1>. QED  BY <1>2, <1>5, <1>6, <1>7, <1>8 DEF IInv

\* Registering a buffer adds no access to a cell that a task has touched.
LEMMA AddBufferPreserves ==
    ASSUME IInv, NEW bid \in Buffer, NEW h \in BOOLEAN, add_buffer(bid, h)
    PROVE  IInv'
<1> USE DEF IInv
<1>1. /\ UNCHANGED <<next_task_id, cgf, dependencies, true_dependencies>>
      /\ Task' = Task
      /\ InitTask \in Task
  BY DEF add_buffer, Task, TypeOK, InitTask
<1>2. TypeOK'
  BY <1>1, ConstantsOK DEF TypeOK, add_buffer
<1>3. ASSUME NEW c \in Cell, NEW t \in Task
      PROVE  /\ DidRead(t, c)' <=> DidRead(t, c)
             /\ Wrote(t, c)' <=> Wrote(t, c) \/ (t = InitTask /\ BufferOf[c] = bid /\ h)
  BY <1>1 DEF DidRead, Wrote, add_buffer
<1>4. ASSUME NEW c \in Cell, BufferOf[c] = bid
      PROVE  \A t \in Task : ~DidRead(t, c) /\ ~Wrote(t, c)
  BY <1>4 DEF AccessesRegistered, DidRead, Wrote, add_buffer, TypeOK
<1>5. ASSUME NEW c \in Cell
      PROVE  /\ BufferOf[c] # bid =>
                   /\ buffers_last_writers'[c] = buffers_last_writers[c]
                   /\ \A t \in Task : Wrote(t, c)' <=> Wrote(t, c)
             /\ BufferOf[c] = bid =>
                   /\ buffers_last_writers'[c] = IF h THEN InitTask ELSE None
                   /\ \A t \in Task : Wrote(t, c)' <=> t = InitTask /\ h
  <2>1. BufferOf[c] = bid => buffers_last_writers[c] = None
    BY <1>4 DEF LastWriterIsLast, TypeOK
  <2>. QED  BY <1>3, <1>4, <2>1 DEF add_buffer
<1>6. \A a, b \in Task : Precedes(a, b)' <=> Precedes(a, b)
  BY <1>1 DEF Precedes, Closed
<1>7. DependenciesEarlier'
  BY <1>1 DEF DependenciesEarlier
<1>8. AccessesRegistered'
  BY <1>1 DEF AccessesRegistered, add_buffer, Reads, Writes
<1>9. \A t \in Task : Precedes(t, t)
  BY DEF Precedes
<1>10. LastWriterIsLast'
  <2> SUFFICES ASSUME NEW c \in Cell
               PROVE  /\ buffers_last_writers'[c] # None => Wrote(buffers_last_writers[c], c)'
                      /\ \A t \in Task : Wrote(t, c)' =>
                            /\ buffers_last_writers'[c] # None
                            /\ t <= buffers_last_writers'[c]
                            /\ Precedes(t, buffers_last_writers[c])'
    BY <1>1 DEF LastWriterIsLast
  <2>1. CASE BufferOf[c] = bid
    BY <1>1, <1>5, <1>6, <1>9, <2>1, ConstantsOK DEF InitTask
  <2>2. CASE BufferOf[c] # bid
    BY <1>1, <1>5, <1>6, <2>2 DEF LastWriterIsLast, TypeOK
  <2>. QED  BY <2>1, <2>2
<1>11. \A t \in Task, c \in Cell : DidRead(t, c) =>
           (ReadsGarbage(t, c)' <=> ReadsGarbage(t, c))
  BY <1>4, <1>5 DEF ReadsGarbage, Task, TypeOK
<1>12. ReadersKnown'
  BY <1>1, <1>3, <1>4, <1>5, <1>6, <1>11 DEF ReadersKnown, TypeOK
<1>13. ConflictsOrdered'
  BY <1>1, <1>3, <1>4, <1>5, <1>6, <1>11 DEF ConflictsOrdered, InitTask, Task
<1>14. ReadsFromLastWriter'
  <2> SUFFICES ASSUME NEW a \in Task, NEW b \in Task, NEW c \in Cell,
                      a < b, Wrote(a, c)', DidRead(b, c)',
                      \A u \in a + 1 .. b - 1 : ~Wrote(u, c)'
               PROVE  a \in true_dependencies[b]
    BY <1>1 DEF ReadsFromLastWriter
  <2>1. DidRead(b, c) /\ BufferOf[c] # bid
    BY <1>3, <1>4
  <2>2. \A u \in a + 1 .. b - 1 : u \in Task
    BY DEF Task, TypeOK
  <2>3. Wrote(a, c) /\ \A u \in a + 1 .. b - 1 : ~Wrote(u, c)
    BY <1>5, <2>1, <2>2
  <2>. QED  BY <2>1, <2>3 DEF ReadsFromLastWriter
<1>15. DependenciesJustified'
  BY <1>1, <1>3 DEF DependenciesJustified, TypeOK
<1>. QED  BY <1>2, <1>7, <1>8, <1>10, <1>12, <1>13, <1>14, <1>15

\* Creating a task keeps the invariant: the new task is ordered after every
\* conflicting one, and becomes the last writer of what it writes.
LEMMA CreateTaskPreserves ==
    ASSUME IInv, NEW accesses \in CommandGroup, create_task(accesses)
    PROVE  IInv'
<1> USE DEF IInv
<1> PICK n : n = next_task_id
  OBVIOUS
<1>1. /\ n \in Nat /\ n # 0
      /\ Task' = Task \cup {n} /\ n \notin Task
      /\ \A t \in Task : t < n /\ 0 .. t - 1 \subseteq Task
      /\ 0 .. n - 1 = Task
      /\ next_task_id' = n + 1
      /\ accesses \in [Mode -> SUBSET Cell]
      /\ UNCHANGED <<buffers, host_initialized>>
  BY CreateTaskEffect, ConstantsOK DEF TypeOK, Task, create_task
<1>2. /\ \A t \in Task : /\ cgf'[t] = cgf[t]
                         /\ dependencies'[t] = dependencies[t]
                         /\ true_dependencies'[t] = true_dependencies[t]
      /\ cgf'[n] = accesses
      /\ dependencies'[n] = ReadDependencies(accesses) \cup WriteDependencies(accesses)
      /\ true_dependencies'[n] = ReadDependencies(accesses)
      /\ \A c \in Cell : buffers_last_writers'[c] =
            IF c \in Writes(accesses) THEN n ELSE buffers_last_writers[c]
  BY CreateTaskEffect
<1>3. /\ ReadDependencies(accesses) \subseteq Task
      /\ WriteDependencies(accesses) \subseteq Task
  BY NewDependenciesExist
<1>4. \A c \in Reads(accesses) \cup Writes(accesses) : BufferOf[c] \in buffers
  BY DEF create_task
<1>5. ASSUME NEW c \in Cell
      PROVE  /\ \A t \in Task : /\ DidRead(t, c)' <=> DidRead(t, c)
                                /\ Wrote(t, c)' <=> Wrote(t, c)
             /\ DidRead(n, c)' <=> c \in Reads(accesses)
             /\ Wrote(n, c)' <=> c \in Writes(accesses)
  BY <1>1, <1>2 DEF DidRead, Wrote, InitTask
<1>6. \A c \in Cell, t \in Task : ReadsGarbage(t, c)' <=> ReadsGarbage(t, c)
  BY <1>1, <1>5 DEF ReadsGarbage
<1>7. \A a, b \in Task : Precedes(a, b) => Precedes(a, b)'
  BY PrecedesPreserved
<1>8. Precedes(n, n)' /\ \A t \in Task : Precedes(t, t)
  BY DEF Precedes
<1>9. ASSUME NEW c \in Cell
      PROVE  buffers_last_writers[c] # None => buffers_last_writers[c] \in Task
  BY DEF TypeOK
\* The three kinds of conflict between an old task and the new one.
<1>10. ASSUME NEW c \in Cell, NEW a \in Task, Wrote(a, c), c \in Reads(accesses)
       PROVE  Precedes(a, n)'
  <2>1. /\ buffers_last_writers[c] \in dependencies'[n]
        /\ buffers_last_writers[c] \in Task
        /\ Precedes(a, buffers_last_writers[c])
    BY <1>2, <1>4, <1>9, <1>10, ReaderDependsOnLastWriter DEF LastWriterIsLast
  <2>. QED  BY <2>1, NewTaskAfter
<1>11. ASSUME NEW c \in Cell, NEW a \in Task, c \in Writes(accesses),
              buffers_last_writers[c] # None, Precedes(a, buffers_last_writers[c])
       PROVE  Precedes(a, n)'
  <2> PICK w \in Task : w = buffers_last_writers[c]
    BY <1>9, <1>11
  <2>1. \/ w \in dependencies'[n]
        \/ \E t \in Task : w \in dependencies[t] /\ t \in dependencies'[n]
    BY <1>2, <1>4, <1>11, WriterDependencies
  <2>2. CASE w \in dependencies'[n]
    BY <1>11, <2>2, NewTaskAfter
  <2>3. ASSUME NEW t \in Task, w \in dependencies[t], t \in dependencies'[n]
        PROVE  Precedes(a, n)'
    <3>1. Precedes(w, t)
      BY <2>3 DEF Precedes, Closed
    <3>2. Precedes(a, t)
      BY <1>11, <3>1, PrecedesTransitive
    <3>. QED  BY <2>3, <3>2, NewTaskAfter
  <2>. QED  BY <2>1, <2>2, <2>3
<1>12. ASSUME NEW c \in Cell, NEW a \in Task, Wrote(a, c), c \in Writes(accesses)
       PROVE  Precedes(a, n)'
  BY <1>11, <1>12 DEF LastWriterIsLast
<1>13. ASSUME NEW c \in Cell, NEW a \in Task, DidRead(a, c), ~ReadsGarbage(a, c),
              c \in Writes(accesses)
       PROVE  Precedes(a, n)'
  <2>1. CASE Precedes(a, buffers_last_writers[c]) /\ buffers_last_writers[c] # None
    BY <1>11, <1>13, <2>1
  <2>2. CASE buffers_last_writers[c] \in dependencies[a] /\ buffers_last_writers[c] # None
    <3>1. a \in dependencies'[n]
      BY <1>2, <1>4, <1>13, <2>2, WriterDependencies
    <3>. QED  BY <1>8, <3>1, NewTaskAfter
  <2>. QED  BY <1>13, <2>1, <2>2 DEF ReadersKnown
\* The conjuncts of the invariant.
<1>14. TypeOK'
  <2>1. cgf' \in [Task' -> [Mode -> SUBSET Cell]]
    BY <1>1 DEF TypeOK, create_task, Task
  <2>2. dependencies' \in [Task' -> SUBSET Task'] /\ true_dependencies' \in [Task' -> SUBSET Task']
    BY <1>1, <1>3 DEF TypeOK, create_task, Task
  <2>3. buffers_last_writers' \in [Cell -> Task' \cup {None}]
    BY <1>1 DEF TypeOK, create_task
  <2>4. next_task_id' \in Nat \ {0}
    BY ONLY <1>1
  <2>5. buffers' \subseteq Buffer /\ host_initialized' \subseteq buffers'
    BY <1>1 DEF TypeOK
  <2>. QED  BY ONLY <2>1, <2>2, <2>3, <2>4, <2>5 DEF TypeOK
<1>15. DependenciesEarlier'
  BY <1>1, <1>2, <1>3 DEF DependenciesEarlier
<1>16. AccessesRegistered'
  BY <1>1, <1>2, <1>4 DEF AccessesRegistered, Reads, Writes
<1>17. LastWriterIsLast'
  <2> SUFFICES ASSUME NEW c \in Cell
               PROVE  /\ buffers_last_writers'[c] # None => Wrote(buffers_last_writers[c], c)'
                      /\ \A t \in Task' : Wrote(t, c)' =>
                            /\ buffers_last_writers'[c] # None
                            /\ t <= buffers_last_writers'[c]
                            /\ Precedes(t, buffers_last_writers[c])'
    BY DEF LastWriterIsLast
  <2>1. CASE c \in Writes(accesses)
    BY <1>1, <1>2, <1>5, <1>8, <1>12, <2>1, ConstantsOK
  <2>2. CASE c \notin Writes(accesses)
    BY <1>1, <1>2, <1>5, <1>7, <1>9, <2>2 DEF LastWriterIsLast
  <2>. QED  BY <2>1, <2>2
<1>18. ReadersKnown'
  <2> SUFFICES ASSUME NEW c \in Cell, NEW t \in Task', DidRead(t, c)', ~ReadsGarbage(t, c)'
               PROVE  /\ buffers_last_writers'[c] # None
                      /\ \/ buffers_last_writers'[c] \in dependencies'[t]
                         \/ Precedes(t, buffers_last_writers[c])'
    BY DEF ReadersKnown
  <2>1. CASE t \in Task /\ c \in Writes(accesses)
    BY <1>1, <1>2, <1>5, <1>6, <1>13, <2>1, ConstantsOK
  <2>2. CASE t \in Task /\ c \notin Writes(accesses)
    BY <1>2, <1>5, <1>6, <1>7, <1>9, <2>2 DEF ReadersKnown
  <2>3. CASE t = n /\ c \in Writes(accesses)
    BY <1>1, <1>2, <1>8, <2>3, ConstantsOK
  <2>4. CASE t = n /\ c \notin Writes(accesses)
    <3>1. \E u \in Task : Wrote(u, c)
      BY <1>1, <1>5, <2>4 DEF ReadsGarbage
    <3>2. buffers_last_writers[c] # None
      BY <3>1 DEF LastWriterIsLast
    <3>3. buffers_last_writers[c] \in dependencies'[n]
      BY <1>2, <1>4, <1>5, <2>4, <3>2, ReaderDependsOnLastWriter
    <3>. QED  BY <1>2, <2>4, <3>2, <3>3
  <2>. QED  BY <1>1, <2>1, <2>2, <2>3, <2>4
<1>19. ConflictsOrdered'
  <2> SUFFICES ASSUME NEW a \in Task', NEW b \in Task', NEW c \in Cell, a < b,
                      \/ Wrote(a, c)' /\ (DidRead(b, c)' \/ Wrote(b, c)')
                      \/ DidRead(a, c)' /\ ~ReadsGarbage(a, c)' /\ Wrote(b, c)'
               PROVE  Precedes(a, b)'
    BY DEF ConflictsOrdered
  <2>1. CASE a \in Task /\ b \in Task
    BY <1>5, <1>6, <1>7, <2>1 DEF ConflictsOrdered
  <2>2. CASE a \in Task /\ b = n
    BY <1>5, <1>6, <1>10, <1>12, <1>13, <2>2
  <2>3. a # n
    BY <1>1
  <2>. QED  BY <1>1, <2>1, <2>2, <2>3
<1>20. ReadsFromLastWriter'
  <2> SUFFICES ASSUME NEW a \in Task', NEW b \in Task', NEW c \in Cell,
                      a < b, Wrote(a, c)', DidRead(b, c)',
                      \A u \in a + 1 .. b - 1 : ~Wrote(u, c)'
               PROVE  a \in true_dependencies'[b]
    BY DEF ReadsFromLastWriter
  <2>1. a \in Task /\ a \in Nat /\ \A u \in a + 1 .. b - 1 : u \in Task
    BY <1>1
  <2>2. CASE b \in Task
    BY <1>2, <1>5, <2>1, <2>2 DEF ReadsFromLastWriter
  <2>3. CASE b = n
    <3> PICK w : w = buffers_last_writers[c]
      OBVIOUS
    <3>1. w # None /\ w \in Task /\ a <= w /\ Wrote(w, c)
      BY <1>5, <1>9, <2>1 DEF LastWriterIsLast
    <3>2. w \notin a + 1 .. b - 1
      BY <1>5, <3>1
    <3>3. w = a
      BY <1>1, <2>1, <2>3, <3>1, <3>2 DEF Task
    <3>4. c \in Reads(accesses)
      BY <1>5, <2>3
    <3>5. w \in ReadDependencies(accesses)
      BY <1>4, <3>1, <3>4, ReaderDependsOnLastWriter
    <3>. QED  BY <1>2, <2>3, <3>3, <3>5
  <2>. QED  BY <1>1, <2>2, <2>3
<1>21. DependenciesJustified'
  <2> SUFFICES ASSUME NEW b \in Task', NEW a \in dependencies'[b]
               PROVE  \E c \in Cell : \/ Wrote(a, c)' /\ DidRead(b, c)'
                                      \/ Wrote(a, c)' /\ Wrote(b, c)'
                                      \/ DidRead(a, c)' /\ Wrote(b, c)'
    BY DEF DependenciesJustified
  <2>1. CASE b \in Task
    BY <1>2, <1>5, <2>1 DEF DependenciesJustified, TypeOK
  <2>2. CASE b = n /\ a \in ReadDependencies(accesses)
    <3>1. PICK bid \in buffers :
             a \in LastWriters(get_requirements(accesses, bid, ConsumerMode))
      BY <2>2 DEF ReadDependencies
    <3>2. PICK c \in Cell : c \in Reads(accesses) /\ a = buffers_last_writers[c] /\ a # None
      BY <3>1, Requirements DEF LastWriters, get_requirements
    <3>. QED  BY <1>3, <1>5, <2>2, <3>2 DEF LastWriterIsLast
  <2>3. CASE b = n /\ a \in WriteDependencies(accesses)
    <3>1. PICK bid \in buffers :
             \E w \in LastWriters(get_requirements(accesses, bid, ProducerMode)) :
                \/ a = w
                \/ a \in AntiDependents(w, bid, get_requirements(accesses, bid, ProducerMode))
      BY <2>3 DEF WriteDependencies
    <3>4. PICK w \in LastWriters(get_requirements(accesses, bid, ProducerMode)) :
             \/ a = w
             \/ a \in AntiDependents(w, bid, get_requirements(accesses, bid, ProducerMode))
      BY <3>1
    <3>2. CASE a = w
      <4>1. PICK c \in Cell : c \in Writes(accesses) /\ a = buffers_last_writers[c] /\ a # None
        BY <3>2, <3>4, Requirements DEF LastWriters, get_requirements
      <4>. QED  BY <1>3, <1>5, <2>3, <4>1 DEF LastWriterIsLast
    <3>3. CASE a \in AntiDependents(w, bid, get_requirements(accesses, bid, ProducerMode))
      <4>1. PICK c \in Cell : /\ c \in get_requirements(accesses, bid, ProducerMode)
                              /\ c \in get_requirements(cgf[a], bid, ConsumerMode)
        BY <3>3 DEF AntiDependents, get_requirements
      <4>2. c \in Writes(accesses) /\ c \in Reads(cgf[a])
        BY <4>1, Requirements
      <4>. QED  BY <1>3, <1>5, <2>3, <4>2 DEF DidRead
    <3>. QED  BY <3>2, <3>3, <3>4
  <2>. QED  BY <1>1, <1>2, <2>1, <2>2, <2>3
<1>. QED  BY <1>14, <1>15, <1>16, <1>17, <1>18, <1>19, <1>20, <1>21

\* IInv is an invariant of the task manager.
THEOREM Invariance == Spec => []IInv
<1>1. IInv /\ UNCHANGED vars => IInv'
  <2> SUFFICES ASSUME IInv, UNCHANGED vars PROVE IInv'
    OBVIOUS
  <2> USE DEF vars, Task, IInv
  <2>1. TypeOK' /\ DependenciesEarlier' /\ AccessesRegistered'
    BY DEF TypeOK, DependenciesEarlier, AccessesRegistered, Reads, Writes
  <2>2. LastWriterIsLast' /\ ReadersKnown'
    BY DEF LastWriterIsLast, ReadersKnown, Wrote, DidRead, Precedes, Closed, ReadsGarbage
  <2>3. ConflictsOrdered'
    BY DEF ConflictsOrdered, Wrote, DidRead, Precedes, Closed, ReadsGarbage
  <2>4. ReadsFromLastWriter'
    BY DEF ReadsFromLastWriter, Wrote, DidRead
  <2>5. DependenciesJustified'
    BY DEF DependenciesJustified, Wrote, DidRead
  <2>. QED  BY <2>1, <2>2, <2>3, <2>4, <2>5
<1>2. IInv /\ [Next]_vars => IInv'
  BY <1>1, AddBufferPreserves, CreateTaskPreserves DEF Next
<1>. QED  BY InitEstablishes, <1>2, PTL DEF Spec

\* The state of the task manager is always well typed.
THEOREM TypeCorrect == Spec => []TypeOK
BY Invariance, PTL DEF IInv

\* compute_dependencies orders every pair of conflicting tasks, whatever the
\* program submits.
THEOREM ConflictsAreOrdered == Spec => []ConflictsOrdered
BY Invariance, PTL DEF IInv

\* A reader always has a true dependency on the task whose value it reads.
THEOREM ReadsFromLastWriterHolds == Spec => []ReadsFromLastWriter
BY Invariance, PTL DEF IInv

\* compute_dependencies adds no dependency between tasks without a conflict.
THEOREM DependenciesAreJustified == Spec => []DependenciesJustified
BY Invariance, PTL DEF IInv
=============================================================================
