-------------------------- MODULE LifecycleProofs ---------------------------
(***************************************************************************)
(* The runtime's life for any number of buffers, tasks, copies and         *)
(* benchmark sections: it is never used after its destruction, destroys    *)
(* itself with nothing left behind, and lets no task lose a buffer         *)
(* without an error being logged.                                          *)
(***************************************************************************)
EXTENDS Lifecycle, FiniteSetTheorems, SequenceTheorems, TLAPS

TypeOK ==
    /\ is_master \in BOOLEAN /\ is_active \in BOOLEAN /\ is_shutting_down \in BOOLEAN
    /\ reported \in BOOLEAN
    /\ instance \in {"none", "alive", "destroying", "destroyed"}
    /\ main \in {"user", "joining", "releasing"}
    /\ queues \in Nat /\ active_flushes \in Nat
    /\ handles \in [Buffer -> Nat] /\ buffer_ptrs \subseteq Buffer /\ buffer_count \in Nat
    /\ tasks \in Seq([uses : SUBSET Buffer, holds : SUBSET Buffer]) /\ task_map \subseteq 1 .. Len(tasks)
    /\ executed \subseteq 1 .. Len(tasks)
    /\ ahead \in Seq(SUBSET Buffer) /\ awaited \in Nat /\ arrivals \in Nat

\* Who keeps the runtime alive: a queue keeps it active, until the shutdown that its last
\* copy starts; buffers keep it alive.
Alive ==
    /\ queues > 0 => is_active /\ main = "user"
    /\ is_active => instance = "alive" /\ (queues > 0 \/ main = "joining")
    /\ is_shutting_down <=> main # "user"
    /\ main = "joining" => is_active
    /\ main = "releasing" => ~is_active /\ instance = "alive"
    /\ buffer_ptrs # {} => instance = "alive"

\* Without threads there is nothing to do, and after the shutdown no task is left.
Quiet ==
    /\ ~is_active => Pending = {} /\ awaited = 0
    /\ task_map # {} => is_active \/ main = "releasing"

\* A buffer that somebody holds is registered.
Registered == \A b \in Buffer : handles[b] > 0 => b \in buffer_ptrs

\* What the executor thread of a worker knows before main does: the program goes on until it
\* has created these tasks, and has their buffers or is still to register them.
StillComing ==
    /\ ahead # <<>> => queues > 0
    /\ \A b \in StillToUse : handles[b] > 0 \/ b > buffer_count

\* Only the data of a task that is not done is waited for.
Awaiting == awaited # 0 => \/ \E t \in Pending : awaited \in tasks[t].uses
                          \/ awaited \in StillToUse

\* MPI is initialised with the runtime and finalised after the last send.
Finalised ==
    /\ instance = "none" => mpi_calls = <<>>
    /\ instance \in {"alive", "destroying"} => mpi_calls = <<"init">>
    /\ instance = "destroyed" => mpi_calls = <<"init", "finalize">> /\ active_flushes = 0

\* Of the sections 0 .. k - 1, each is open (in s) or ended (in d), once.
EachOnce(s, d, k) ==
    /\ s \in Seq(Nat) /\ d \in Seq(Nat) /\ k \in Nat
    /\ Len(s) + Len(d) = k
    /\ \A i \in 1 .. Len(s) : s[i] < k
    /\ \A i \in 1 .. Len(d) : d[i] < k
    /\ \A i, j \in 1 .. Len(s) : i < j => s[i] # s[j]
    /\ \A i, j \in 1 .. Len(d) : i < j => d[i] # d[j]
    /\ \A i \in 1 .. Len(s), j \in 1 .. Len(d) : s[i] # d[j]

Ended ==
    /\ EachOnce(sections, ended, next_section_id)
    /\ instance = "destroyed" => sections = <<>>

Core == TypeOK /\ Alive /\ Quiet /\ Registered /\ Finalised /\ Ended
Needed == StillComing /\ Awaiting /\ EarlyReleaseReported
IInv == Core /\ Needed
-----------------------------------------------------------------------------
\* What is left of the registered buffers, and that a buffer is released only if the program
\* holds no copy of it (unregister_buffer is called by the last copy).
LEMMA ReleasedBuffers ==
    ASSUME TypeOK, NEW h \in [Buffer -> Nat], NEW tm \in SUBSET task_map
    PROVE  /\ Released(h, tm) \subseteq buffer_ptrs
           /\ \A b \in Released(h, tm) : h[b] = 0
<1> SUFFICES ASSUME NEW b \in Released(h, tm) PROVE h[b] = 0
    BY DEF Released
<1> DEFINE C == {t \in tm : b \in tasks[t].holds}
<1>1. b \in Buffer /\ h[b] \in Nat /\ h[b] + Cardinality(C) = 0
    BY DEF Released, Copies, TypeOK
<1>2. IsFiniteSet(C)
  <2>1. Len(tasks) \in Nat
      BY DEF TypeOK
  <2>2. IsFiniteSet(1 .. Len(tasks))
      BY <2>1, FS_Interval
  <2>3. C \subseteq 1 .. Len(tasks)
      BY DEF TypeOK
  <2> QED BY <2>2, <2>3, FS_Subset
<1>3. Cardinality(C) \in Nat
    BY <1>2, FS_CardinalityType
<1> QED BY <1>1, <1>3

\* The state before the first object is made satisfies the invariant.
LEMMA InitInv == Init => IInv
<1> SUFFICES ASSUME Init PROVE IInv
    OBVIOUS
<1>1. TypeOK
  <2>1. /\ is_master \in BOOLEAN /\ is_active \in BOOLEAN /\ is_shutting_down \in BOOLEAN
        /\ reported \in BOOLEAN
      BY Zenon DEF Init
  <2>2. /\ handles \in [Buffer -> Nat] /\ buffer_ptrs \subseteq Buffer /\ buffer_count \in Nat
        /\ queues \in Nat /\ active_flushes \in Nat
      BY DEF Init
  <2>3. /\ tasks \in Seq([uses : SUBSET Buffer, holds : SUBSET Buffer])
        /\ task_map \subseteq 1 .. Len(tasks) /\ executed \subseteq 1 .. Len(tasks)
        /\ ahead \in Seq(SUBSET Buffer) /\ awaited \in Nat /\ arrivals \in Nat
      BY DEF Init
  <2> QED BY <2>1, <2>2, <2>3 DEF Init, TypeOK
<1>2. Alive /\ Registered /\ Finalised
    BY DEF Init, Alive, Registered, Finalised
<1>3. Quiet
    BY DEF Init, Quiet, Pending
<1>4. Ended
    BY DEF Init, Ended, EachOnce
<1>5. Needed
    BY DEF Init, Needed, StillComing, StillToUse, Awaiting, EarlyReleaseReported, Pending
<1> QED BY <1>1, <1>2, <1>3, <1>4, <1>5 DEF IInv, Core

\* Opening a section, as begin_section does.
LEMMA OpenSection ==
    ASSUME NEW s, NEW d, NEW k, EachOnce(s, d, k)
    PROVE  EachOnce(Append(s, k), d, k + 1)
<1>1. s \in Seq(Nat) /\ d \in Seq(Nat) /\ k \in Nat
    BY DEF EachOnce
<1>2. PICK r : r = Append(s, k)
    OBVIOUS
<1>3. PICK n \in Nat : n = Len(s)
    BY <1>1
<1>4. PICK e \in Nat : e = Len(d)
    BY <1>1
<1>5. /\ r \in Seq(Nat) /\ Len(r) = n + 1
      /\ \A i \in 1 .. n : r[i] = s[i]
      /\ r[n + 1] = k
    BY <1>1, <1>2, <1>3, AppendProperties
<1>6. /\ n + e = k
      /\ \A i \in 1 .. n : s[i] < k
      /\ \A i \in 1 .. e : d[i] < k
      /\ \A i, j \in 1 .. n : i < j => s[i] # s[j]
      /\ \A i, j \in 1 .. e : i < j => d[i] # d[j]
      /\ \A i \in 1 .. n, j \in 1 .. e : s[i] # d[j]
      /\ \A i \in 1 .. n : s[i] \in Nat
      /\ \A i \in 1 .. e : d[i] \in Nat
    BY <1>1, <1>3, <1>4 DEF EachOnce
<1>7. \A i \in 1 .. n + 1 : i \in 1 .. n \/ i = n + 1
    OBVIOUS
<1>8. /\ \A i \in 1 .. n : s[i] < k + 1 /\ s[i] # k
      /\ \A i \in 1 .. e : d[i] < k + 1 /\ d[i] # k
      /\ k < k + 1
      /\ \A i, j \in 1 .. n + 1 : i < j => i # n + 1
    BY <1>1, <1>6
<1>9. /\ \A i \in 1 .. n + 1 : r[i] < k + 1
      /\ \A i, j \in 1 .. n + 1 : i < j => r[i] # r[j]
    BY <1>5, <1>6, <1>7, <1>8, Zenon
<1>10. \A i \in 1 .. n + 1, j \in 1 .. e : r[i] # d[j]
    BY <1>5, <1>6, <1>7, <1>8, Zenon
<1>11. (n + 1) + e = k + 1 /\ k + 1 \in Nat
    BY <1>1, <1>6
<1>12. EachOnce(r, d, k + 1)
    BY <1>1, <1>4, <1>5, <1>6, <1>8, <1>9, <1>10, <1>11 DEF EachOnce
<1> QED BY <1>2, <1>12

\* Ending the innermost open section, as end_section and ~user_benchmarker do.
LEMMA EndSection ==
    ASSUME NEW s, NEW d, NEW k, EachOnce(s, d, k), s # <<>>
    PROVE  EachOnce(SubSeq(s, 1, Len(s) - 1), Append(d, s[Len(s)]), k)
<1>1. s \in Seq(Nat) /\ d \in Seq(Nat) /\ k \in Nat
    BY DEF EachOnce
<1>2. PICK n \in Nat : n = Len(s) /\ n > 0
    BY <1>1
<1>3. PICK e \in Nat : e = Len(d)
    BY <1>1
<1>4. PICK r : r = SubSeq(s, 1, n - 1)
    OBVIOUS
<1>5. PICK q : q = Append(d, s[n])
    OBVIOUS
<1>6. /\ r \in Seq(Nat) /\ Len(r) = n - 1
      /\ \A i \in 1 .. n - 1 : r[i] = s[i]
  <2>1. n - 1 \in Int /\ 1 \in Int /\ \A i \in 1 .. n - 1 : s[i] \in Nat
      BY <1>1, <1>2
  <2>2. /\ r \in Seq(Nat)
        /\ Len(r) = IF 1 <= n - 1 THEN (n - 1) - 1 + 1 ELSE 0
        /\ \A i \in 1 .. (n - 1) - 1 + 1 : r[i] = s[1 + i - 1]
      BY <2>1, <1>4, SubSeqProperties
  <2> QED BY <2>2, <1>2
<1>7. /\ q \in Seq(Nat) /\ Len(q) = e + 1
      /\ \A i \in 1 .. e : q[i] = d[i]
      /\ q[e + 1] = s[n]
  <2>1. s[n] \in Nat
      BY <1>1, <1>2
  <2> QED BY <1>1, <1>3, <1>5, <2>1, AppendProperties
<1>8. /\ n + e = k
      /\ \A i \in 1 .. n : s[i] < k
      /\ \A i \in 1 .. e : d[i] < k
      /\ \A i, j \in 1 .. n : i < j => s[i] # s[j]
      /\ \A i, j \in 1 .. e : i < j => d[i] # d[j]
      /\ \A i \in 1 .. n, j \in 1 .. e : s[i] # d[j]
    BY <1>2, <1>3 DEF EachOnce
<1>9. n \in 1 .. n /\ \A i \in 1 .. n - 1 : i \in 1 .. n /\ i < n
    BY <1>2
<1>10. \A j \in 1 .. e + 1 : j \in 1 .. e \/ j = e + 1
    OBVIOUS
<1>11. /\ \A i \in 1 .. n - 1 : r[i] < k
       /\ \A i \in 1 .. e + 1 : q[i] < k
    BY <1>6, <1>7, <1>8, <1>9, <1>10
<1>12. \A i, j \in 1 .. n - 1 : i < j => r[i] # r[j]
    BY <1>6, <1>8, <1>9
<1>13. \A i, j \in 1 .. e + 1 : i < j => q[i] # q[j]
    BY <1>7, <1>8, <1>9, <1>10
<1>14. \A i \in 1 .. n - 1, j \in 1 .. e + 1 : r[i] # q[j]
    BY <1>6, <1>7, <1>8, <1>9, <1>10
<1>15. (n - 1) + (e + 1) = k
    BY <1>8, <1>2
<1>16. EachOnce(r, q, k)
    BY <1>1, <1>6, <1>7, <1>11, <1>12, <1>13, <1>14, <1>15 DEF EachOnce
<1> QED BY <1>2, <1>4, <1>5, <1>16

\* A second MPI call after a first one makes two.
LEMMA Pair ==
    ASSUME NEW S, NEW x \in S, NEW y \in S
    PROVE  Append(<<x>>, y) = <<x, y>>
<1>1. PICK a : a = Append(<<x>>, y)
    OBVIOUS
<1>2. PICK q : q = <<x, y>>
    OBVIOUS
<1>3. q \in Seq(S) /\ Len(q) = 2 /\ q[1] = x /\ q[2] = y
    BY <1>2
<1>4. a \in Seq(S) /\ Len(a) = 2 /\ a[1] = x /\ a[2] = y
    BY <1>1
<1>5. \A i \in 1 .. 2 : a[i] = q[i]
    BY <1>3, <1>4
<1> QED BY <1>1, <1>2, <1>3, <1>4, <1>5, SeqEqual

\* The MPI calls a runtime makes, from its constructor to its destructor.
LEMMA MPICalls ==
    /\ Append(<<>>, "init") = <<"init">>
    /\ Append(<<"init">>, "finalize") = <<"init", "finalize">>
<1>1. Append(<<>>, "init") = <<"init">>
    OBVIOUS
<1>2. "init" \in {"init", "finalize"} /\ "finalize" \in {"init", "finalize"}
    OBVIOUS
<1> QED BY <1>1, <1>2, Pair, Zenon

\* init makes the runtime, or finds it alive.
LEMMA Initialised ==
    ASSUME TypeOK, Finalised, MayCreate, init, active_flushes' = active_flushes
    PROVE  Finalised'
<1>1. instance \in {"none", "alive"} /\ instance' = "alive"
    BY DEF MayCreate, AtUser, init, TypeOK
<1>2. mpi_calls' = <<"init">>
    BY <1>1, MPICalls DEF init, is_initialized, Finalised
<1> QED BY <1>1, <1>2 DEF Finalised

\* The buffers still to be used are buffers.
LEMMA ComingBuffers ==
    ASSUME TypeOK, NEW b \in StillToUse
    PROVE  b \in Buffer
<1>1. PICK i \in DOMAIN ahead : b \in ahead[i]
    BY DEF StillToUse
<1>2. ahead[i] \in SUBSET Buffer
    BY DEF TypeOK
<1> QED BY <1>1, <1>2

\* The buffers a known task uses are buffers, and it is pending or still to be created.
LEMMA UsedBuffers ==
    ASSUME TypeOK, NEW t \in Known, NEW b \in Uses(t)
    PROVE  /\ b \in Buffer
           /\ \/ t \in Pending /\ b \in tasks[t].uses
              \/ b \in StillToUse
<1>1. Len(tasks) \in Nat /\ Len(ahead) \in Nat /\ t \in 1 .. Len(tasks) + Len(ahead) /\ t \notin executed
    BY DEF TypeOK, Known
<1>2. CASE t <= Len(tasks)
  <2>1. t \in 1 .. Len(tasks) /\ b \in tasks[t].uses
      BY <1>1, <1>2 DEF Uses
  <2>2. tasks[t] \in [uses : SUBSET Buffer, holds : SUBSET Buffer]
      BY <2>1, ElementOfSeq, Zenon DEF TypeOK
  <2> QED BY <1>1, <2>1, <2>2 DEF Pending
<1>3. CASE ~(t <= Len(tasks))
  <2>1. t - Len(tasks) \in 1 .. Len(ahead) /\ b \in ahead[t - Len(tasks)]
      BY <1>1, <1>3 DEF Uses
  <2>2. ahead[t - Len(tasks)] \in SUBSET Buffer /\ DOMAIN ahead = 1 .. Len(ahead)
      BY <2>1 DEF TypeOK
  <2> QED BY <2>1, <2>2 DEF StillToUse
<1> QED BY <1>2, <1>3

\* Every step of the program, of the threads and of ~runtime keeps what the runtime knows consistent.
LEMMA CorePreserved == IInv /\ [Next]_vars => Core'
<1> SUFFICES ASSUME IInv, [Next]_vars PROVE Core'
    OBVIOUS
<1> USE DEF IInv, Core, object_vars, transfer_vars, task_vars, bench_vars, runtime_vars
<1>1. CASE create_buffer
  <2>1. buffer_count' \in Buffer /\ buffer_count' \in Nat
      BY <1>1, BoundsAssumption DEF create_buffer, TypeOK, Buffer
  <2>2. handles' \in [Buffer -> Nat] /\ buffer_ptrs' \subseteq Buffer
      BY <1>1, <2>1 DEF create_buffer, TypeOK
  <2>3. TypeOK'
      BY <1>1, <2>1, <2>2 DEF create_buffer, init, TypeOK
  <2>4. Alive' /\ Quiet' /\ Ended'
      BY <1>1 DEF create_buffer, init, MayCreate, TypeOK, Alive, Quiet, Pending, Ended
  <2>5. Registered'
      BY <1>1 DEF create_buffer, TypeOK, Registered
  <2>6. Finalised'
      BY <1>1, Initialised DEF create_buffer
  <2> QED BY <2>3, <2>4, <2>5, <2>6
<1>2. ASSUME NEW b \in Buffer, copy_buffer(b) PROVE Core'
  <2>1. TypeOK' /\ Registered'
      BY <1>2 DEF copy_buffer, TypeOK, Registered
  <2>2. Alive' /\ Quiet' /\ Finalised' /\ Ended'
      BY <1>2 DEF copy_buffer, Alive, Quiet, Pending, Finalised, Ended
  <2> QED BY <2>1, <2>2
<1>3. ASSUME NEW b \in Buffer, drop_buffer(b) PROVE Core'
  <2> DEFINE R == Released(handles', task_map)
  <2>1. handles' \in [Buffer -> Nat] /\ \A c \in Buffer : handles'[c] > 0 => handles[c] > 0
      BY <1>3 DEF drop_buffer, TypeOK
  <2>2. R \subseteq buffer_ptrs /\ \A c \in R : handles'[c] = 0
      BY <2>1, ReleasedBuffers
  <2>3. buffer_ptrs' = buffer_ptrs \ R
      BY <1>3 DEF drop_buffer, unregister_buffer
  <2>4. \/ instance' = instance
        \/ instance = "alive" /\ instance' = "destroying" /\ ~is_active /\ buffer_ptrs' = {}
      BY <1>3, <2>2 DEF drop_buffer, unregister_buffer, Destroys, Alive
  <2>9. reported' \in BOOLEAN
      BY <1>3, Zenon DEF drop_buffer, unregister_buffer
  <2> HIDE DEF R
  <2>5. TypeOK'
      BY <1>3, <2>1, <2>3, <2>4, <2>9 DEF drop_buffer, TypeOK
  <2>6. Alive' /\ Quiet'
      BY <1>3, <2>3, <2>4 DEF drop_buffer, AtUser, Alive, Quiet, Pending
  <2>7. Registered'
      BY <2>1, <2>2, <2>3 DEF Registered
  <2>8. Finalised' /\ Ended'
      BY <1>3, <2>4 DEF drop_buffer, Finalised, Ended
  <2> QED BY <2>5, <2>6, <2>7, <2>8
<1>4. CASE create_queue
  <2>1. TypeOK'
      BY <1>4 DEF create_queue, init, TypeOK
  <2>2. Alive' /\ Quiet' /\ Registered' /\ Ended'
      BY <1>4 DEF create_queue, init, MayCreate, AtUser, TypeOK, Alive, Quiet, Registered, Ended
  <2>3. Finalised'
      BY <1>4, Initialised DEF create_queue
  <2> QED BY <2>1, <2>2, <2>3
<1>5. CASE copy_queue
    BY <1>5 DEF copy_queue, TypeOK, Alive, Quiet, Pending, Registered, Finalised, Ended
<1>6. ASSUME NEW B \in SUBSET Buffer, NEW H \in SUBSET B, submit(B, H) PROVE Core'
  <2>1. /\ tasks' \in Seq([uses : SUBSET Buffer, holds : SUBSET Buffer])
        /\ Len(tasks') = Len(tasks) + 1 /\ Len(tasks) \in Nat
    <3>1. [uses |-> B, holds |-> H] \in [uses : SUBSET Buffer, holds : SUBSET Buffer]
        OBVIOUS
    <3> QED BY <1>6, <3>1, AppendProperties DEF submit, TypeOK
  <2>2. 1 .. Len(tasks) \subseteq 1 .. Len(tasks') /\ Len(tasks') \in 1 .. Len(tasks')
      BY <2>1
  <2>6. ahead' \in Seq(SUBSET Buffer)
      BY <1>6 DEF submit, TypeOK
  <2>3. TypeOK'
      BY <1>6, <2>1, <2>2, <2>6 DEF submit, TypeOK
  <2>4. is_active /\ is_active'
      BY <1>6 DEF submit, Alive
  <2>5. Alive' /\ Quiet' /\ Registered' /\ Finalised' /\ Ended'
      BY <1>6, <2>4 DEF submit, Alive, Quiet, Registered, Finalised, Ended
  <2> QED BY <2>3, <2>5
<1>7. CASE begin_section
  <2>1. TypeOK' /\ Alive' /\ Quiet' /\ Registered' /\ Finalised'
      BY <1>7 DEF begin_section, TypeOK, Alive, Quiet, Pending, Registered, Finalised
  <2>2. Ended'
      BY <1>7, OpenSection DEF begin_section, is_initialized, Ended
  <2> QED BY <2>1, <2>2
<1>8. CASE end_section
  <2>1. TypeOK' /\ Alive' /\ Quiet' /\ Registered' /\ Finalised'
      BY <1>8 DEF end_section, TypeOK, Alive, Quiet, Pending, Registered, Finalised
  <2>2. Ended'
      BY <1>8, EndSection DEF end_section, is_initialized, Ended
  <2> QED BY <2>1, <2>2
<1>9. CASE schedule
  <2>1. TypeOK'
      BY <1>9 DEF schedule, flush_command, TypeOK
  <2>2. Alive' /\ Quiet' /\ Registered' /\ Ended'
      BY <1>9 DEF schedule, Alive, Quiet, Pending, Registered, Ended
  <2>3. Finalised'
      BY <1>9 DEF schedule, Alive, Finalised
  <2> QED BY <2>1, <2>2, <2>3
<1>10. ASSUME NEW t \in Pending, execute(t) PROVE Core'
  <2>1. executed' \subseteq 1 .. Len(tasks')
      BY <1>10 DEF execute, Pending, TypeOK
  <2>2. TypeOK'
      BY <1>10, <2>1 DEF execute, TypeOK
  <2>3. Alive' /\ Quiet' /\ Registered' /\ Finalised' /\ Ended'
      BY <1>10 DEF execute, Alive, Quiet, Registered, Finalised, Ended
  <2> QED BY <2>2, <2>3
<1>11. CASE drop_queue
  <2>1. TypeOK'
      BY <1>11 DEF drop_queue, TypeOK
  <2>2. main = "user" /\ is_active /\ is_active' /\ ~is_shutting_down
      BY <1>11 DEF drop_queue, Alive
  <2>3. CASE queues' = 0
    <3>1. main' = "joining" /\ is_shutting_down'
        BY <1>11, <2>3 DEF drop_queue
    <3> QED BY <1>11, <2>1, <2>2, <2>3, <3>1
            DEF drop_queue, Alive, Quiet, Registered, Finalised, Ended
  <2>4. CASE queues' # 0
    <3>1. main' = "user" /\ ~is_shutting_down' /\ queues' > 0
        BY <1>11, <2>1, <2>2, <2>4 DEF drop_queue, TypeOK
    <3> QED BY <1>11, <2>1, <2>2, <3>1
            DEF drop_queue, Alive, Quiet, Registered, Finalised, Ended
  <2> QED BY <2>3, <2>4
<1>12. CASE join
  <2>1. active_flushes' \in Nat
      BY <1>12 DEF join, flush_command, TypeOK
  <2>2. ~is_active' /\ is_active' \in BOOLEAN /\ main' = "releasing"
      BY <1>12 DEF join
  <2>3. TypeOK'
      BY <1>12, <2>1, <2>2 DEF join, TypeOK
  <2>4. is_active /\ instance = "alive" /\ ~(queues > 0)
      BY <1>12 DEF join, Alive
  <2>5. Alive'
      BY <1>12, <2>2, <2>4 DEF join, Alive
  <2>6. Pending' = {} /\ awaited' = 0
      BY <1>12 DEF join, Joined, Pending
  <2>7. Quiet' /\ Registered' /\ Finalised' /\ Ended'
      BY <1>12, <2>2, <2>4, <2>6 DEF join, Quiet, Registered, Finalised, Ended
  <2> QED BY <2>3, <2>5, <2>7
<1>13. ASSUME NEW t \in task_map, release(t) PROVE Core'
  <2> DEFINE R == Released(handles, task_map')
  <2>1. R \subseteq buffer_ptrs /\ \A c \in R : handles[c] = 0
    <3>1. handles \in [Buffer -> Nat] /\ task_map' \in SUBSET task_map
        BY <1>13 DEF release, TypeOK
    <3> QED BY <3>1, ReleasedBuffers
  <2>2. buffer_ptrs' = buffer_ptrs \ R /\ instance' = instance
      BY <1>13 DEF release, unregister_buffer, Destroys, Alive
  <2>6. reported' \in BOOLEAN
      BY <1>13, Zenon DEF release, unregister_buffer
  <2> HIDE DEF R
  <2>3. TypeOK'
      BY <1>13, <2>2, <2>6 DEF release, TypeOK
  <2>4. Alive' /\ Quiet' /\ Finalised' /\ Ended'
      BY <1>13, <2>2 DEF release, Alive, Quiet, Pending, Finalised, Ended
  <2>5. Registered'
      BY <1>13, <2>1, <2>2 DEF release, TypeOK, Registered
  <2> QED BY <2>3, <2>4, <2>5
<1>14. CASE finish
  <2>1. instance = "alive" /\ ~is_active /\ ~(queues > 0)
      BY <1>14 DEF finish, Alive
  <2>2. is_shutting_down' \in BOOLEAN /\ ~is_shutting_down' /\ main' = "user"
      BY <1>14 DEF finish, ShuttingDownAfter
  <2>3. instance' = "alive" \/ (instance' = "destroying" /\ buffer_ptrs = {})
      BY <1>14, <2>1 DEF finish, Destroys
  <2>4. TypeOK'
      BY <1>14, <2>2, <2>3 DEF finish, TypeOK
  <2>5. Alive'
      BY <1>14, <2>1, <2>2, <2>3 DEF finish, Alive
  <2>6. Quiet' /\ Registered' /\ Finalised' /\ Ended'
      BY <1>14, <2>1, <2>3 DEF finish, Quiet, Pending, Registered, Finalised, Ended
  <2> QED BY <2>4, <2>5, <2>6
<1>15. CASE end_open_section
  <2>1. TypeOK' /\ Alive' /\ Quiet' /\ Registered' /\ Finalised'
      BY <1>15 DEF end_open_section, TypeOK, Alive, Quiet, Pending, Registered, Finalised
  <2>2. Ended'
      BY <1>15, EndSection DEF end_open_section, Ended
  <2> QED BY <2>1, <2>2
<1>16. CASE drain
  <2>1. TypeOK'
      BY <1>16 DEF drain, TypeOK
  <2>2. Alive' /\ Quiet' /\ Registered' /\ Finalised' /\ Ended'
      BY <1>16 DEF drain, Alive, Quiet, Pending, Registered, Finalised, Ended
  <2> QED BY <2>1, <2>2
<1>17. CASE finalize
  <2>1. TypeOK'
      BY <1>17 DEF finalize, TypeOK
  <2>2. Alive' /\ Quiet' /\ Registered' /\ Ended'
      BY <1>17 DEF finalize, Alive, Quiet, Pending, Registered, Ended
  <2>3. mpi_calls' = <<"init", "finalize">>
      BY <1>17, MPICalls DEF finalize, Finalised
  <2>4. Finalised'
      BY <1>17, <2>3 DEF finalize, Finalised
  <2> QED BY <2>1, <2>2, <2>4
<1>18. ASSUME NEW B \in SUBSET Buffer, run_ahead(B) PROVE Core'
  <2>1. ahead' \in Seq(SUBSET Buffer)
      BY <1>18, AppendProperties DEF run_ahead, TypeOK
  <2>2. TypeOK'
      BY <1>18, <2>1 DEF run_ahead, TypeOK
  <2>3. Alive' /\ Quiet' /\ Registered' /\ Finalised' /\ Ended'
      BY <1>18 DEF run_ahead, Alive, Quiet, Pending, Registered, Finalised, Ended
  <2> QED BY <2>2, <2>3
<1>19. ASSUME NEW t \in Known, NEW b \in Uses(t), receive(t, b) PROVE Core'
  <2>1. b \in Nat
      BY UsedBuffers DEF Buffer
  <2>2. TypeOK'
      BY <1>19, <2>1 DEF receive, TypeOK
  <2>3. Alive' /\ Quiet' /\ Registered' /\ Finalised' /\ Ended'
      BY <1>19 DEF receive, Alive, Quiet, Pending, Registered, Finalised, Ended
  <2> QED BY <2>2, <2>3
<1>20. CASE set_buffer_data
  <2>1. TypeOK'
      BY <1>20 DEF set_buffer_data, TypeOK
  <2>2. Alive' /\ Quiet' /\ Registered' /\ Finalised' /\ Ended'
      BY <1>20 DEF set_buffer_data, Alive, Quiet, Pending, Registered, Finalised, Ended
  <2> QED BY <2>1, <2>2
<1>21. CASE UNCHANGED vars
    BY <1>21 DEF vars, TypeOK, Alive, Quiet, Pending, Registered, Finalised, Ended
<1> QED BY <1>1, <1>2, <1>3, <1>4, <1>5, <1>6, <1>7, <1>8, <1>9, <1>10, <1>11, <1>12, <1>13,
           <1>14, <1>15, <1>16, <1>17, <1>18, <1>19, <1>20, <1>21
        DEF Next, UserProgram, DropObjects, OtherNodes, Runtime

\* Steps that leave alone what tasks need of buffers, and the last queue if it is needed.
LEMMA NeededSame ==
    ASSUME IInv,
           UNCHANGED <<tasks, executed, ahead, awaited, handles, buffer_count, buffer_ptrs, reported>>,
           ahead # <<>> => queues' > 0
    PROVE  Needed'
<1>1. StillToUse' = StillToUse /\ Pending' = Pending
    BY DEF StillToUse, Pending
<1> QED BY <1>1 DEF IInv, Needed, StillComing, Awaiting, EarlyReleaseReported

\* While no task is pending, only those still to come need their buffers.
LEMMA NeededByComing ==
    ASSUME IInv, Registered', TypeOK', Pending = {}, UNCHANGED <<tasks, executed, ahead, awaited, buffer_count, queues>>,
           \A b \in StillToUse : handles'[b] > 0 \/ b > buffer_count
    PROVE  Needed'
<1>1. StillToUse' = StillToUse /\ Pending' = {}
    BY DEF StillToUse, Pending
<1>2. StillComing'
    BY <1>1 DEF IInv, Needed, StillComing
<1>3. Awaiting'
    BY <1>1 DEF IInv, Needed, Awaiting
<1>4. ASSUME awaited \in 1 .. buffer_count PROVE awaited \in buffer_ptrs'
  <2>1. awaited \in StillToUse /\ awaited # 0 /\ ~(awaited > buffer_count)
      BY <1>4 DEF IInv, Core, TypeOK, Needed, Awaiting
  <2>2. awaited \in Buffer
      BY <2>1, ComingBuffers DEF IInv, Core
  <2> QED BY <2>1, <2>2 DEF Registered
<1>5. EarlyReleaseReported'
    BY <1>1, <1>4 DEF EarlyReleaseReported
<1> QED BY <1>2, <1>3, <1>5 DEF Needed

\* drop_buffer: a buffer that somebody needs goes only with an error.
LEMMA NeededDrop ==
    ASSUME IInv, TypeOK', Registered', NEW b \in Buffer, drop_buffer(b)
    PROVE  Needed'
<1> USE DEF IInv, Core
<1>1. UNCHANGED <<tasks, executed, ahead, awaited, buffer_count, queues>>
    BY DEF drop_buffer, task_vars, transfer_vars
<1>2. handles' = [handles EXCEPT ![b] = @ - 1] /\ (b \in StillToUse => handles[b] > 1)
    BY DEF drop_buffer
<1>3. \A c \in StillToUse : handles'[c] > 0 \/ c > buffer_count
  <2> SUFFICES ASSUME NEW c \in StillToUse, ~(c > buffer_count) PROVE handles'[c] > 0
      OBVIOUS
  <2>1. c \in Buffer /\ handles[c] > 0
      BY ComingBuffers DEF Needed, StillComing
  <2>2. handles \in [Buffer -> Nat]
      BY DEF TypeOK
  <2> QED BY <1>2, <2>1, <2>2
<1>4. CASE Pending = {}
    BY <1>1, <1>3, <1>4, NeededByComing
<1>5. CASE Pending # {}
  <2>1. is_active /\ tasks # <<>>
      BY <1>5 DEF Quiet, Pending
  <2>2. CASE Released(handles', task_map) = {}
    <3>1. UNCHANGED <<buffer_ptrs, reported>>
        BY <2>2 DEF drop_buffer, unregister_buffer, TypeOK
    <3>2. StillToUse' = StillToUse /\ Pending' = Pending
        BY <1>1 DEF StillToUse, Pending
    <3> QED BY <1>1, <1>3, <3>1, <3>2 DEF Needed, StillComing, Awaiting, EarlyReleaseReported
  <2>3. CASE Released(handles', task_map) # {}
    <3>1. reported'
        BY <2>1, <2>3 DEF drop_buffer, unregister_buffer, Complains
    <3>2. StillToUse' = StillToUse /\ Pending' = Pending
        BY <1>1 DEF StillToUse, Pending
    <3> QED BY <1>1, <1>3, <3>1, <3>2 DEF Needed, StillComing, Awaiting, EarlyReleaseReported
  <2> QED BY <2>2, <2>3
<1> QED BY <1>4, <1>5

\* submit: the first of the tasks still to come, if there is one, becomes pending.
LEMMA NeededSubmit ==
    ASSUME IInv, TypeOK', NEW B \in SUBSET Buffer, NEW H \in SUBSET B, submit(B, H)
    PROVE  Needed'
<1> USE DEF IInv, Core
<1> DEFINE n == Len(tasks)
<1>1. n \in Nat /\ tasks' = Append(tasks, [uses |-> B, holds |-> H])
    BY DEF submit, TypeOK
<1>2. /\ Len(tasks') = n + 1 /\ tasks'[n + 1].uses = B
      /\ \A t \in 1 .. n : tasks'[t] = tasks[t]
    BY <1>1, AppendProperties DEF TypeOK
<1>3. UNCHANGED <<executed, awaited, handles, buffer_count, buffer_ptrs, reported, queues>>
    BY DEF submit, object_vars
<1>4. executed \subseteq 1 .. n /\ \A t \in executed : t # n + 1
    BY <1>1 DEF TypeOK
<1>5. Pending' = Pending \cup {n + 1} /\ Pending \subseteq 1 .. n
  <2>1. 1 .. n + 1 = (1 .. n) \cup {n + 1}
      BY <1>1
  <2> QED BY <1>2, <1>3, <1>4, <2>1 DEF Pending
<1> HIDE DEF n
<1>6. StillToUse' \subseteq StillToUse /\ StillToUse \subseteq StillToUse' \cup B
  <2>1. CASE ahead = <<>>
    <3>1. ahead' = <<>>
        BY <2>1 DEF submit
    <3>2. StillToUse = {} /\ StillToUse' = {}
        BY <2>1, <3>1 DEF StillToUse
    <3> QED BY <3>2
  <2>2. CASE ahead # <<>>
    <3>1. ahead \in Seq(SUBSET Buffer) /\ ahead' = Tail(ahead) /\ B = Head(ahead)
        BY <2>2 DEF submit, TypeOK
    <3>2. PICK m \in Nat : m = Len(ahead) /\ m > 0
        BY <2>2, <3>1
    <3>3. /\ DOMAIN ahead = 1 .. m /\ DOMAIN ahead' = 1 .. m - 1
          /\ \A i \in 1 .. m - 1 : ahead'[i] = ahead[i + 1]
          /\ B = ahead[1]
        BY <2>2, <3>1, <3>2
    <3>4. \A i \in 1 .. m : i = 1 \/ (i - 1 \in 1 .. m - 1 /\ (i - 1) + 1 = i)
        BY <3>2
    <3>5. \A i \in 1 .. m - 1 : i + 1 \in 1 .. m
        BY <3>2
    <3>6. \A i \in 1 .. m : i = 1 \/ ahead'[i - 1] = ahead[i]
        BY <3>3, <3>4
    <3>7. StillToUse' \subseteq StillToUse
        BY <3>3, <3>5 DEF StillToUse
    <3>8. ASSUME NEW b \in StillToUse PROVE b \in StillToUse' \cup B
      <4>1. PICK i \in 1 .. m : b \in ahead[i]
          BY <3>3 DEF StillToUse
      <4>2. CASE i = 1
          BY <3>3, <4>1, <4>2
      <4>3. CASE i # 1
        <5>1. i - 1 \in 1 .. m - 1 /\ b \in ahead'[i - 1]
            BY <3>4, <3>6, <4>1, <4>3
        <5> QED BY <3>3, <5>1 DEF StillToUse
      <4> QED BY <4>2, <4>3
    <3> QED BY <3>7, <3>8
  <2> QED BY <2>1, <2>2
<1>7. StillComing'
  <2>1. queues > 0
      BY DEF submit
  <2> QED BY <1>3, <1>6, <2>1 DEF Needed, StillComing
<1>8. Awaiting'
  <2> SUFFICES ASSUME awaited # 0
               PROVE  (\E t \in Pending' : awaited \in tasks'[t].uses) \/ awaited \in StillToUse'
      BY <1>3 DEF Awaiting
  <2>1. CASE \E t \in Pending : awaited \in tasks[t].uses
      BY <1>2, <1>5, <2>1
  <2>2. CASE awaited \in StillToUse
      BY <1>2, <1>5, <1>6, <2>2
  <2> QED BY <2>1, <2>2 DEF Needed, Awaiting
<1>9. EarlyReleaseReported'
  <2> SUFFICES ASSUME ~reported PROVE EarlyReleaseReported'
      BY <1>3 DEF EarlyReleaseReported
  <2>1. B \subseteq buffer_ptrs
      BY DEF submit, Registered
  <2>2. \A t \in Pending' : tasks'[t].uses \subseteq buffer_ptrs
      BY <1>2, <1>5, <2>1 DEF Needed, EarlyReleaseReported
  <2> QED BY <1>3, <2>2 DEF Needed, EarlyReleaseReported
<1> QED BY <1>7, <1>8, <1>9 DEF Needed

\* Every step keeps for each task what it needs, or has logged the error.
LEMMA NeededPreserved == IInv /\ [Next]_vars => Needed'
<1> SUFFICES ASSUME IInv, [Next]_vars PROVE Needed'
    OBVIOUS
<1> USE DEF IInv, Core, object_vars, transfer_vars, task_vars, bench_vars, runtime_vars
<1>0. Core'
    BY CorePreserved
<1>1. CASE create_buffer
  <2>1. UNCHANGED <<tasks, executed, ahead, awaited, reported, queues>>
      BY <1>1 DEF create_buffer
  <2>2. StillToUse' = StillToUse /\ Pending' = Pending
      BY <2>1 DEF StillToUse, Pending
  <2>3. /\ buffer_count' = buffer_count + 1 /\ buffer_count \in Nat
        /\ handles' = [handles EXCEPT ![buffer_count'] = 1]
        /\ buffer_ptrs' = buffer_ptrs \cup {buffer_count'}
      BY <1>1 DEF create_buffer, TypeOK
  <2>4. StillComing'
    <3> SUFFICES ASSUME NEW b \in StillToUse, ~(b > buffer_count') PROVE handles'[b] > 0
        BY <2>1, <2>2 DEF Needed, StillComing
    <3>1. b \in Buffer /\ b \in Nat
        BY ComingBuffers DEF Buffer
    <3>2. handles[b] > 0 \/ b > buffer_count
        BY DEF Needed, StillComing
    <3> QED BY <2>3, <3>1, <3>2 DEF TypeOK
  <2>5. Awaiting'
      BY <2>1, <2>2 DEF Needed, Awaiting
  <2>6. EarlyReleaseReported'
      BY <2>1, <2>2, <2>3 DEF TypeOK, Needed, EarlyReleaseReported
  <2> QED BY <2>4, <2>5, <2>6 DEF Needed
<1>2. ASSUME NEW b \in Buffer, copy_buffer(b) PROVE Needed'
  <2>1. UNCHANGED <<tasks, executed, ahead, awaited, reported, queues, buffer_count, buffer_ptrs>>
      BY <1>2 DEF copy_buffer
  <2>2. StillToUse' = StillToUse /\ Pending' = Pending
      BY <2>1 DEF StillToUse, Pending
  <2>3. \A c \in Buffer : handles[c] > 0 => handles'[c] > 0
      BY <1>2 DEF copy_buffer, TypeOK
  <2>4. \A c \in StillToUse : c \in Buffer
      BY ComingBuffers
  <2> QED BY <2>1, <2>2, <2>3, <2>4 DEF Needed, StillComing, Awaiting, EarlyReleaseReported
<1>3. ASSUME NEW b \in Buffer, drop_buffer(b) PROVE Needed'
    BY <1>0, <1>3, NeededDrop
<1>4. CASE create_queue \/ copy_queue
    BY <1>4, NeededSame DEF create_queue, copy_queue, TypeOK
<1>5. CASE drop_queue
    BY <1>5, NeededSame DEF drop_queue, TypeOK, Needed, StillComing
<1>6. ASSUME NEW B \in SUBSET Buffer, NEW H \in SUBSET B, submit(B, H) PROVE Needed'
    BY <1>0, <1>6, NeededSubmit
<1>7. CASE begin_section \/ end_section \/ schedule \/ end_open_section \/ drain
    BY <1>7, NeededSame DEF begin_section, end_section, schedule, end_open_section, drain,
                            Needed, StillComing
<1>8. CASE join \/ finish \/ finalize \/ UNCHANGED vars
    BY <1>8, NeededSame DEF join, finish, finalize, vars, Needed, StillComing
<1>9. ASSUME NEW t \in Pending, execute(t) PROVE Needed'
  <2>1. UNCHANGED <<tasks, ahead, awaited, reported, queues, handles, buffer_count, buffer_ptrs>> /\ awaited = 0
      BY <1>9 DEF execute
  <2>2. StillToUse' = StillToUse /\ Pending' \subseteq Pending
      BY <1>9, <2>1 DEF execute, StillToUse, Pending
  <2> QED BY <2>1, <2>2 DEF Needed, StillComing, Awaiting, EarlyReleaseReported
<1>10. ASSUME NEW t \in task_map, release(t) PROVE Needed'
  <2>1. ~is_active /\ Pending = {} /\ ahead = <<>>
      BY <1>10 DEF release, Alive, Quiet, Needed, StillComing
  <2>2. StillToUse = {}
      BY <2>1 DEF StillToUse
  <2>3. UNCHANGED <<tasks, executed, ahead, awaited, buffer_count, queues>>
      BY <1>10 DEF release
  <2> QED BY <1>0, <2>1, <2>2, <2>3, NeededByComing
<1>11. ASSUME NEW B \in SUBSET Buffer, run_ahead(B) PROVE Needed'
  <2>1. UNCHANGED <<tasks, executed, awaited, reported, queues, handles, buffer_count, buffer_ptrs>>
      BY <1>11 DEF run_ahead
  <2>2. Pending' = Pending
      BY <2>1 DEF Pending
  <2>3. StillToUse' = StillToUse \cup B
    <3>1. PICK m \in Nat : m = Len(ahead)
        BY DEF TypeOK
    <3>2. /\ DOMAIN ahead = 1 .. m /\ DOMAIN ahead' = 1 .. m + 1
          /\ \A i \in 1 .. m : ahead'[i] = ahead[i]
          /\ ahead'[m + 1] = B
        BY <1>11, <3>1, AppendProperties DEF run_ahead, TypeOK
    <3>3. 1 .. m + 1 = (1 .. m) \cup {m + 1}
        OBVIOUS
    <3> QED BY <3>2, <3>3 DEF StillToUse
  <2>4. queues > 0 /\ \A b \in B : handles[b] > 0 \/ b > buffer_count
      BY <1>11 DEF run_ahead
  <2> QED BY <2>1, <2>2, <2>3, <2>4 DEF Needed, StillComing, Awaiting, EarlyReleaseReported
<1>12. ASSUME NEW t \in Known, NEW b \in Uses(t), receive(t, b) PROVE Needed'
  <2>1. UNCHANGED <<tasks, executed, ahead, reported, queues, handles, buffer_count, buffer_ptrs>> /\ awaited' = b
      BY <1>12 DEF receive
  <2>2. StillToUse' = StillToUse /\ Pending' = Pending
      BY <2>1 DEF StillToUse, Pending
  <2>3. /\ b \in Buffer
        /\ \/ t \in Pending /\ b \in tasks[t].uses
           \/ b \in StillToUse
      BY UsedBuffers
  <2>4. StillComing' /\ Awaiting'
      BY <2>1, <2>2, <2>3 DEF Needed, StillComing, Awaiting
  <2>5. ~reported /\ b \in 1 .. buffer_count => b \in buffer_ptrs
    <3>1. b \in StillToUse /\ b \in 1 .. buffer_count => handles[b] > 0
        BY DEF TypeOK, Needed, StillComing
    <3> QED BY <2>3, <3>1 DEF Needed, EarlyReleaseReported, Registered
  <2>6. EarlyReleaseReported'
      BY <2>1, <2>2, <2>5 DEF Needed, EarlyReleaseReported
  <2> QED BY <2>4, <2>6 DEF Needed
<1>13. CASE set_buffer_data
  <2>1. /\ UNCHANGED <<tasks, executed, ahead, reported, queues, handles, buffer_count, buffer_ptrs>>
        /\ awaited' = 0
      BY <1>13 DEF set_buffer_data
  <2>2. StillToUse' = StillToUse /\ Pending' = Pending
      BY <2>1 DEF StillToUse, Pending
  <2> QED BY <2>1, <2>2 DEF TypeOK, Needed, StillComing, Awaiting, EarlyReleaseReported
<1> QED BY <1>1, <1>2, <1>3, <1>4, <1>5, <1>6, <1>7, <1>8, <1>9, <1>10, <1>11, <1>12, <1>13
        DEF Next, UserProgram, DropObjects, OtherNodes, Runtime

-----------------------------------------------------------------------------
\* The inductive invariant holds in every state.
THEOREM Invariance == Spec => []IInv
<1> QED
  <2>1. IInv /\ [Next]_vars => IInv'
      BY CorePreserved, NeededPreserved DEF IInv
  <2> QED BY InitInv, <2>1, PTL DEF Spec

\* The runtime is never used after its destruction: shutdown runs to its end on the instance
\* it was called on, and a queue or a registered buffer always finds it (get_instance).
THEOREM NeverUsedAfterDestruction == Spec => []NoUseAfterDestruction
<1>1. IInv => NoUseAfterDestruction
    BY DEF IInv, Core, TypeOK, Alive, NoUseAfterDestruction, is_initialized
<1> QED BY <1>1, Invariance, PTL

\* ~runtime leaves nothing behind: no buffer, task, send or open benchmark section, and MPI
\* initialised and finalised once.
THEOREM DestroyedLeavesNothing == Spec => []DestroyedClean
<1>1. IInv => DestroyedClean
  <2> SUFFICES ASSUME IInv, instance = "destroyed" PROVE DestroyedClean
      BY DEF DestroyedClean
  <2>1. ~is_active /\ main = "user" /\ buffer_ptrs = {}
      BY DEF IInv, Core, TypeOK, Alive
  <2>2. queues = 0 /\ \A b \in Buffer : handles[b] = 0
      BY <2>1 DEF IInv, Core, TypeOK, Alive, Registered
  <2>3. Pending = {} /\ task_map = {}
      BY <2>1 DEF IInv, Core, Quiet
  <2>4. mpi_calls = <<"init", "finalize">> /\ active_flushes = 0
      BY DEF IInv, Core, Finalised
  <2>5. Len(ended) = next_section_id /\ \A i, j \in 1 .. Len(ended) : i < j => ended[i] # ended[j]
      BY DEF IInv, Core, Ended, EachOnce
  <2> QED BY <2>1, <2>2, <2>3, <2>4, <2>5 DEF DestroyedClean
<1> QED BY <1>1, Invariance, PTL

\* No task loses a buffer it uses, by value or by reference, and no transfer a buffer that
\* main has already had, unless unregister_buffer has logged the error.
THEOREM NoSilentRelease == Spec => []EarlyReleaseReported
<1>1. IInv => EarlyReleaseReported
    BY DEF IInv, Needed
<1> QED BY <1>1, Invariance, PTL
=============================================================================
