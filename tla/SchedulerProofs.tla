-------------------------- MODULE SchedulerProofs ---------------------------
(***************************************************************************)
(* Proofs about Scheduler, for any number of tasks and syncs.  The         *)
(* invariant counts: every task that exists is flushed, in the hands of    *)
(* the worker thread, in the queue, or about to be pushed, in this order.  *)
(***************************************************************************)
EXTENDS Scheduler, SequenceTheorems, TLAPS

BusyPlaces == {"building", "looking_up", "looked_up", "generating", "flushing"}
Busy == worker \in BusyPlaces

\* The SHUTDOWN event has been pushed.
Ending ==
    \/ main \in {"joining", "sending_shutdown", "joining_executor", "done"}
    \/ main = "signalling" /\ next_event = SHUTDOWN

\* Tasks the worker thread has taken; events for it to stop; tasks not yet pushed.
Taken == Len(flushed) + (IF Busy THEN 1 ELSE 0)
Stops == IF Ending /\ worker # "exited" THEN 1 ELSE 0
Pending == IF main \in {"notifying", "pushing"} /\ next_event # SHUTDOWN THEN 1 ELSE 0

EventsLock ==
    /\ owner["events_mutex"] = "worker" <=> Busy \/ worker = "checking"
    /\ owner["events_mutex"] = "main" <=> main \in {"pushing", "reading"}

Counts ==
    /\ Taken + Len(events) + Pending = tasks + Stops
    /\ \A i \in 1 .. Len(events) : i <= Len(events) - Stops => events[i] = Taken + i
    /\ Stops = 1 => Len(events) >= 1 /\ events[Len(events)] = SHUTDOWN
    /\ Pending = 1 => next_event = tasks
    /\ building = IF Busy THEN Taken ELSE 0

Places ==
    /\ main = "creating" => tasks < MAX_TASKS
    /\ worker = "exited" => Ending /\ events = <<>>
    /\ main = "sending_sync" => events = <<>> /\ ~Busy
    /\ main \in {"sending_shutdown", "joining_executor", "done"} => worker = "exited"

IInv == TypeOK /\ EventsLock /\ Counts /\ Places /\ FlushedInOrder

\* The initial state satisfies the invariant.
LEMMA InitIInv == Init => IInv
<1> SUFFICES ASSUME Init PROVE IInv OBVIOUS
<1> USE BoundsAssumption DEF Init, Ending, Busy, BusyPlaces, Mutex, Thread, Free, SHUTDOWN
<1>1. TypeOK
  <2>1. <<>> \in Seq(0 .. MAX_TASKS) /\ <<>> \in Seq(1 .. MAX_TASKS) OBVIOUS
  <2>2. owner \in [Mutex -> Thread \cup {Free}] OBVIOUS
  <2>3. shutdown_sent \in BOOLEAN OBVIOUS
  <2>4. 0 \in 0 .. MAX_TASKS /\ 0 \in 0 .. MAX_SYNCS /\ 0 \in 0 .. 0 OBVIOUS
  <2> QED BY <2>1, <2>2, <2>3, <2>4 DEF TypeOK
<1>2. EventsLock BY DEF EventsLock
<1>3. Counts BY DEF Counts, Taken, Stops, Pending
<1>4. Places BY DEF Places
<1>5. FlushedInOrder BY DEF FlushedInOrder
<1> QED BY <1>1, <1>2, <1>3, <1>4, <1>5 DEF IInv

\* A SHUTDOWN at the front of the queue is its only event.
LEMMA ShutdownIsLast ==
    ASSUME TypeOK, Counts, Len(events) >= 1, events[1] = SHUTDOWN
    PROVE  Stops = 1 /\ Len(events) = 1
<1>1. Taken \in Nat /\ Len(events) \in Nat /\ Stops \in 0 .. 1 BY DEF Taken, Stops, TypeOK
<1>2. 1 <= Len(events) - Stops => events[1] = Taken + 1 BY <1>1 DEF Counts
<1>3. ~(1 <= Len(events) - Stops) BY <1>1, <1>2 DEF SHUTDOWN
<1> QED BY <1>1, <1>3

\* The worker thread leaves an empty queue behind when it takes a single event.
LEMMA TailOfOne ==
    ASSUME NEW S, NEW s \in Seq(S), Len(s) = 1
    PROVE  Tail(s) = <<>>
<1>1. Tail(s) \in Seq(S) /\ Len(Tail(s)) = 0 OBVIOUS
<1> QED BY ONLY <1>1, EmptySeq

\* Every step of every thread preserves the invariant.
LEMMA NextIInv == IInv /\ [Next]_vars => IInv'
<1> SUFFICES ASSUME IInv, [Next]_vars PROVE IInv' OBVIOUS
<1> USE BoundsAssumption DEF IInv, Ending, Busy, BusyPlaces, Mutex, Thread, Free, SHUTDOWN,
        queue, work, control, vars
<1>1. CASE create_task
  <2> USE <1>1 DEF create_task, MainTakes, Take
  <2>1. TypeOK' BY DEF TypeOK
  <2>2. EventsLock' BY DEF TypeOK, EventsLock
  <2>3. Counts' BY DEF TypeOK, Counts, Taken, Stops, Pending
  <2>4. Places' BY DEF TypeOK, EventsLock, Places
  <2>5. FlushedInOrder' BY DEF FlushedInOrder
  <2> QED BY <2>1, <2>2, <2>3, <2>4, <2>5
<1>2. CASE task_created
  <2> USE <1>2 DEF task_created, Release, NewTaskId
  <2>1. TypeOK' BY DEF TypeOK, EventsLock, Counts, Places, Taken, Stops, Pending
  <2>2. EventsLock' BY DEF TypeOK, EventsLock
  <2>3. Counts'
    <3>1. Pending = 0 /\ Pending' = 1 BY DEF Pending, NewTaskId, TypeOK
    <3>2. Taken' = Taken /\ Stops' = Stops /\ UNCHANGED events BY DEF Taken, Stops
    <3>3. Busy' = Busy /\ building' = building OBVIOUS
    <3>4. tasks' = tasks + 1 /\ next_event' = tasks' /\ tasks \in Nat BY DEF TypeOK
    <3>5. Taken \in Nat /\ Stops \in 0 .. 1 /\ Len(events) \in Nat BY DEF Taken, Stops, TypeOK
    <3> QED BY ONLY <3>1, <3>2, <3>3, <3>4, <3>5, Counts DEF Counts
  <2>4. Places' BY DEF TypeOK, EventsLock, Counts, Places, Taken, Stops, Pending
  <2>5. FlushedInOrder' BY DEF FlushedInOrder
  <2> QED BY <2>1, <2>2, <2>3, <2>4, <2>5
<1>3. CASE notify
  <2> USE <1>3 DEF notify, MainTakes, Take
  <2>1. TypeOK' BY DEF TypeOK
  <2>2. EventsLock' BY DEF TypeOK, EventsLock
  <2>3. Counts' BY DEF TypeOK, Counts, Taken, Stops, Pending
  <2>4. Places' BY DEF TypeOK, EventsLock, Places
  <2>5. FlushedInOrder' BY DEF FlushedInOrder
  <2> QED BY <2>1, <2>2, <2>3, <2>4, <2>5
<1>4. CASE push_event
  <2> USE <1>4 DEF push_event, Release
  <2>1. TypeOK' BY DEF TypeOK, EventsLock, Counts, Places, Taken, Stops, Pending
  <2>2. EventsLock' BY DEF TypeOK, EventsLock
  <2>3. Counts'
    <3>1. Taken' = Taken /\ Taken \in Nat /\ Len(events) \in Nat /\ tasks \in Nat
      BY DEF Taken, TypeOK
    <3>2. Stops = 0 /\ Pending' = 0 BY DEF Stops, Pending
    <3>3. /\ Len(events') = Len(events) + 1
          /\ events'[Len(events) + 1] = next_event
          /\ \A i \in 1 .. Len(events) : events'[i] = events[i]
      BY DEF TypeOK
    <3>4. building' = building /\ Busy' = Busy /\ tasks' = tasks OBVIOUS
    <3>5. CASE next_event = SHUTDOWN
      <4>1. Pending = 0 /\ Stops' = 1 BY <3>5 DEF Pending, Stops, Places
      <4> QED BY ONLY <3>1, <3>2, <3>3, <3>4, <3>5, <4>1, Counts DEF Counts
    <3>6. CASE next_event # SHUTDOWN
      <4>1. Pending = 1 /\ Stops' = 0 BY <3>6 DEF Pending, Stops
      <4> QED BY ONLY <3>1, <3>2, <3>3, <3>4, <4>1, Counts DEF Counts
    <3> QED BY <3>5, <3>6
  <2>4. Places' BY DEF TypeOK, EventsLock, Counts, Places, Taken, Stops, Pending
  <2>5. FlushedInOrder' BY DEF FlushedInOrder
  <2> QED BY <2>1, <2>2, <2>3, <2>4, <2>5
<1>5. CASE notify_one
  <2> USE <1>5 DEF notify_one, Woken
  <2>1. TypeOK' BY DEF TypeOK
  <2>2. EventsLock' BY DEF TypeOK, EventsLock
  <2>3. Counts' BY DEF TypeOK, Counts, Taken, Stops, Pending
  <2>4. Places' BY DEF TypeOK, EventsLock, Places
  <2>5. FlushedInOrder' BY DEF FlushedInOrder
  <2> QED BY <2>1, <2>2, <2>3, <2>4, <2>5
<1>6. CASE register_buffer
  <2> USE <1>6 DEF register_buffer, MainTakes, MainReleases, Take
  <2>1. TypeOK'
    <3>1. owner' \in [Mutex -> Thread \cup {Free}] BY DEF TypeOK
    <3> QED BY <3>1 DEF TypeOK
  <2>2. EventsLock' BY DEF TypeOK, EventsLock
  <2>3. Counts' BY DEF TypeOK, EventsLock, Counts, Places, Taken, Stops, Pending
  <2>4. Places' BY DEF TypeOK, EventsLock, Counts, Places, Taken, Stops, Pending
  <2>5. FlushedInOrder' BY DEF FlushedInOrder
  <2> QED BY <2>1, <2>2, <2>3, <2>4, <2>5
<1>7. CASE sync
  <2> USE <1>7 DEF sync
  <2>1. TypeOK' BY DEF TypeOK
  <2>2. EventsLock' BY DEF TypeOK, EventsLock
  <2>3. Counts' BY DEF TypeOK, Counts, Taken, Stops, Pending
  <2>4. Places' BY DEF TypeOK, EventsLock, Places
  <2>5. FlushedInOrder' BY DEF FlushedInOrder
  <2> QED BY <2>1, <2>2, <2>3, <2>4, <2>5
<1>8. CASE is_idle
  <2> USE <1>8 DEF is_idle, MainTakes, MainReleases, Take
  <2>1. TypeOK' BY DEF TypeOK, EventsLock, Counts, Places, Taken, Stops, Pending
  <2>2. EventsLock' BY DEF TypeOK, EventsLock
  <2>3. Counts' BY DEF TypeOK, EventsLock, Counts, Places, Taken, Stops, Pending
  <2>4. Places' BY DEF TypeOK, EventsLock, Counts, Places, Taken, Stops, Pending
  <2>5. FlushedInOrder' BY DEF FlushedInOrder
  <2> QED BY <2>1, <2>2, <2>3, <2>4, <2>5
<1>9. CASE sync_sent_to_all
  <2> USE <1>9 DEF sync_sent_to_all
  <2>1. TypeOK' BY DEF TypeOK
  <2>2. EventsLock' BY DEF TypeOK, EventsLock
  <2>3. Counts' BY DEF TypeOK, Counts, Taken, Stops, Pending
  <2>4. Places' BY DEF TypeOK, EventsLock, Places
  <2>5. FlushedInOrder' BY DEF FlushedInOrder
  <2> QED BY <2>1, <2>2, <2>3, <2>4, <2>5
<1>10. CASE sync_return
  <2> USE <1>10 DEF sync_return
  <2>1. TypeOK' BY DEF TypeOK
  <2>2. EventsLock' BY DEF TypeOK, EventsLock
  <2>3. Counts' BY DEF TypeOK, Counts, Taken, Stops, Pending
  <2>4. Places' BY DEF TypeOK, EventsLock, Places
  <2>5. FlushedInOrder' BY DEF FlushedInOrder
  <2> QED BY <2>1, <2>2, <2>3, <2>4, <2>5
<1>11. CASE shutdown
  <2> USE <1>11 DEF shutdown
  <2>1. TypeOK' BY DEF TypeOK
  <2>2. EventsLock' BY DEF TypeOK, EventsLock
  <2>3. Counts' BY DEF TypeOK, Counts, Taken, Stops, Pending
  <2>4. Places' BY DEF TypeOK, EventsLock, Places
  <2>5. FlushedInOrder' BY DEF FlushedInOrder
  <2> QED BY <2>1, <2>2, <2>3, <2>4, <2>5
<1>12. CASE join_worker
  <2> USE <1>12 DEF join_worker
  <2>1. TypeOK' BY DEF TypeOK
  <2>2. EventsLock' BY DEF TypeOK, EventsLock
  <2>3. Counts' BY DEF TypeOK, Counts, Taken, Stops, Pending
  <2>4. Places' BY DEF TypeOK, EventsLock, Places
  <2>5. FlushedInOrder' BY DEF FlushedInOrder
  <2> QED BY <2>1, <2>2, <2>3, <2>4, <2>5
<1>13. CASE shutdown_sent_to_all
  <2> USE <1>13 DEF shutdown_sent_to_all
  <2>1. TypeOK' BY DEF TypeOK
  <2>2. EventsLock' BY DEF TypeOK, EventsLock
  <2>3. Counts' BY DEF TypeOK, Counts, Taken, Stops, Pending
  <2>4. Places' BY DEF TypeOK, EventsLock, Places
  <2>5. FlushedInOrder' BY DEF FlushedInOrder
  <2> QED BY <2>1, <2>2, <2>3, <2>4, <2>5
<1>14. CASE join_executor
  <2> USE <1>14 DEF join_executor
  <2>1. TypeOK' BY DEF TypeOK
  <2>2. EventsLock' BY DEF TypeOK, EventsLock
  <2>3. Counts' BY DEF TypeOK, Counts, Taken, Stops, Pending
  <2>4. Places' BY DEF TypeOK, EventsLock, Places
  <2>5. FlushedInOrder' BY DEF FlushedInOrder
  <2> QED BY <2>1, <2>2, <2>3, <2>4, <2>5
<1>15. CASE wait
  <2> USE <1>15 DEF wait, WorkerTakes, WorkerReleases, Take, Release
  <2>1. TypeOK'
    <3>1. owner' \in [Mutex -> Thread \cup {Free}] BY DEF TypeOK
    <3> QED BY <3>1 DEF TypeOK
  <2>2. EventsLock' BY DEF TypeOK, EventsLock
  <2>3. Counts' BY DEF TypeOK, EventsLock, Counts, Places, Taken, Stops, Pending
  <2>4. Places' BY DEF TypeOK, EventsLock, Counts, Places, Taken, Stops, Pending
  <2>5. FlushedInOrder' BY DEF FlushedInOrder
  <2> QED BY <2>1, <2>2, <2>3, <2>4, <2>5
<1>16. CASE spurious_wakeup
  <2> USE <1>16 DEF spurious_wakeup
  <2>1. TypeOK' BY DEF TypeOK, EventsLock, Counts, Places, Taken, Stops, Pending
  <2>2. EventsLock' BY DEF TypeOK, EventsLock
  <2>3. Counts' BY DEF TypeOK, EventsLock, Counts, Places, Taken, Stops, Pending
  <2>4. Places' BY DEF TypeOK, EventsLock, Counts, Places, Taken, Stops, Pending
  <2>5. FlushedInOrder' BY DEF FlushedInOrder
  <2> QED BY <2>1, <2>2, <2>3, <2>4, <2>5
<1>17. CASE take_task
  <2> USE <1>17 DEF take_task, KeepToBuild, front
  <2>1. TypeOK' BY DEF TypeOK, EventsLock, Counts, Places, Taken, Stops, Pending
  <2>2. EventsLock' BY DEF TypeOK, EventsLock
  <2>3. Counts'
    <3>1. Taken' = Taken + 1 /\ Taken \in Nat /\ tasks \in Nat /\ Len(events) \in Nat
      BY DEF Taken, TypeOK
    <3>2. Stops' = Stops /\ Stops \in 0 .. 1 /\ Pending' = Pending /\ Pending \in 0 .. 1
      BY DEF Stops, Pending
    <3>3. /\ Len(events) >= 1 /\ Len(events') = Len(events) - 1
          /\ \A i \in 1 .. Len(events') : events'[i] = events[i + 1]
      BY DEF TypeOK
    <3>4. 1 <= Len(events) - Stops BY <3>1, <3>2, <3>3 DEF Counts
    <3>5. building' = Taken' BY <3>1, <3>3, <3>4 DEF Counts
    <3>6. Busy' /\ tasks' = tasks /\ next_event' = next_event OBVIOUS
    <3>7. Taken' + Len(events') + Pending' = tasks' + Stops'
      <4>1. Taken + Len(events) + Pending = tasks + Stops BY ONLY Counts DEF Counts
      <4>2. (Taken + 1) + (Len(events) - 1) + Pending = Taken + Len(events) + Pending
        BY ONLY <3>1, <3>2
      <4> QED BY ONLY <3>1, <3>2, <3>3, <3>6, <4>1, <4>2
    <3>8. ASSUME NEW i \in 1 .. Len(events'), i <= Len(events') - Stops'
          PROVE  events'[i] = Taken' + i
      <4>1. i + 1 \in 1 .. Len(events) /\ i + 1 <= Len(events) - Stops
        BY ONLY <3>1, <3>2, <3>3, <3>8
      <4>2. events[i + 1] = Taken + (i + 1) BY ONLY <4>1, Counts DEF Counts
      <4> QED BY ONLY <3>1, <3>3, <4>2
    <3>9. ASSUME Stops' = 1 PROVE Len(events') >= 1 /\ events'[Len(events')] = SHUTDOWN
      <4>1. Stops = 1 /\ Len(events') \in Nat /\ Len(events') >= 1
        BY ONLY <3>1, <3>2, <3>3, <3>4, <3>9
      <4>2. events[Len(events)] = SHUTDOWN BY ONLY <4>1, Counts DEF Counts
      <4>3. events'[Len(events')] = events[Len(events') + 1] BY ONLY <3>3, <4>1
      <4> QED BY ONLY <3>1, <3>3, <4>1, <4>2, <4>3
    <3>10. Pending' = 1 => next_event' = tasks' BY ONLY <3>2, <3>6, Counts DEF Counts
    <3> QED BY ONLY <3>5, <3>6, <3>7, <3>8, <3>9, <3>10 DEF Counts
  <2>4. Places' BY DEF TypeOK, EventsLock, Counts, Places, Taken, Stops, Pending
  <2>5. FlushedInOrder' BY DEF FlushedInOrder
  <2> QED BY <2>1, <2>2, <2>3, <2>4, <2>5
<1>18. CASE take_shutdown
  <2> USE <1>18 DEF take_shutdown, front, Release
  <2>1. TypeOK' BY DEF TypeOK, EventsLock, Counts, Places, Taken, Stops, Pending
  <2>2. EventsLock' BY DEF TypeOK, EventsLock
  <2>3. Counts'
    <3> HIDE <1>18
    <3>1. Taken' = Taken /\ Taken \in Nat /\ Len(events) \in Nat /\ tasks \in Nat
      BY <1>18 DEF Taken, TypeOK
    <3>2. Stops \in 0 .. 1 /\ Pending' = Pending /\ Pending \in 0 .. 1 BY <1>18 DEF Stops, Pending
    <3>3. Len(events) >= 1 /\ events[1] = SHUTDOWN /\ events' = Tail(events) BY <1>18 DEF TypeOK
    <3>4. Stops = 1 /\ Len(events) = 1 BY <3>3, ShutdownIsLast
    <3>5. Stops' = 0 BY <1>18 DEF Stops
    <3>6. events' = <<>>
      <4>1. events \in Seq(0 .. MAX_TASKS) BY ONLY TypeOK DEF TypeOK
      <4> QED BY ONLY <3>3, <3>4, <4>1, TailOfOne
    <3>7. building' = building /\ Busy' = Busy /\ tasks' = tasks /\ next_event' = next_event
      BY <1>18
    <3> QED BY ONLY <3>1, <3>2, <3>4, <3>5, <3>6, <3>7, Counts DEF Counts
  <2>4. Places'
    <3>2. Len(events) >= 1 /\ events[1] = SHUTDOWN /\ events' = Tail(events) BY DEF TypeOK
    <3>3. Stops = 1 /\ Len(events) = 1 BY <3>2, ShutdownIsLast
    <3>4. events' = <<>>
      <4>1. events \in Seq(0 .. MAX_TASKS) BY ONLY TypeOK DEF TypeOK
      <4> QED BY ONLY <3>2, <3>3, <4>1, TailOfOne
    <3>5. Ending' BY <3>3 DEF Stops
    <3> QED BY <3>4, <3>5 DEF Places
  <2>5. FlushedInOrder' BY DEF FlushedInOrder
  <2> QED BY <2>1, <2>2, <2>3, <2>4, <2>5
<1>19. CASE build_task
  <2> USE <1>19 DEF build_task, WorkerTakes, WorkerReleases, Take, Release
  <2>1. TypeOK'
    <3>1. owner' \in [Mutex -> Thread \cup {Free}] BY DEF TypeOK
    <3> QED BY <3>1 DEF TypeOK
  <2>2. EventsLock' BY DEF TypeOK, EventsLock
  <2>3. Counts' BY DEF TypeOK, EventsLock, Counts, Places, Taken, Stops, Pending
  <2>4. Places' BY DEF TypeOK, EventsLock, Counts, Places, Taken, Stops, Pending
  <2>5. FlushedInOrder' BY DEF FlushedInOrder
  <2> QED BY <2>1, <2>2, <2>3, <2>4, <2>5
<1>20. CASE flush
  <2> USE <1>20 DEF flush
  <2>0. Len(flushed) \in Nat /\ building = Len(flushed) + 1
    BY DEF TypeOK, Counts, Taken
  <2>1. TypeOK'
    <3>1. building \in 1 .. MAX_TASKS BY <2>0 DEF TypeOK
    <3>2. flushed' \in Seq(1 .. MAX_TASKS) BY <3>1 DEF TypeOK
    <3> QED BY <3>2 DEF TypeOK
  <2>2. EventsLock' BY DEF TypeOK, EventsLock
  <2>3. Counts'
    <3>1. Len(flushed') = Len(flushed) + 1 BY DEF TypeOK
    <3>2. Taken' = Taken BY <2>0, <3>1 DEF Taken
    <3>3. Stops' = Stops /\ Pending' = Pending /\ ~Busy' /\ building' = 0 BY DEF Stops, Pending
    <3> QED BY <3>2, <3>3 DEF Counts
  <2>4. Places' BY DEF TypeOK, EventsLock, Places
  <2>5. FlushedInOrder'
    <3>1. flushed \in Seq(1 .. MAX_TASKS) BY DEF TypeOK
    <3>2. \A i \in 1 .. Len(flushed) : flushed[i] = i BY DEF FlushedInOrder
    <3>3. flushed' = Append(flushed, Len(flushed) + 1) BY <2>0
    <3> QED BY ONLY <2>0, <3>1, <3>2, <3>3 DEF FlushedInOrder
  <2> QED BY <2>1, <2>2, <2>3, <2>4, <2>5
<1>21. CASE use_runtime
  <2> USE <1>21 DEF use_runtime, Take
  <2>1. TypeOK' BY DEF TypeOK, EventsLock, Counts, Places, Taken, Stops, Pending
  <2>2. EventsLock' BY DEF TypeOK, EventsLock
  <2>3. Counts' BY DEF TypeOK, EventsLock, Counts, Places, Taken, Stops, Pending
  <2>4. Places' BY DEF TypeOK, EventsLock, Counts, Places, Taken, Stops, Pending
  <2>5. FlushedInOrder' BY DEF FlushedInOrder
  <2> QED BY <2>1, <2>2, <2>3, <2>4, <2>5
<1>22. CASE used_runtime
  <2> USE <1>22 DEF used_runtime, Release
  <2>1. TypeOK' BY DEF TypeOK, EventsLock, Counts, Places, Taken, Stops, Pending
  <2>2. EventsLock' BY DEF TypeOK, EventsLock
  <2>3. Counts' BY DEF TypeOK, EventsLock, Counts, Places, Taken, Stops, Pending
  <2>4. Places' BY DEF TypeOK, EventsLock, Counts, Places, Taken, Stops, Pending
  <2>5. FlushedInOrder' BY DEF FlushedInOrder
  <2> QED BY <2>1, <2>2, <2>3, <2>4, <2>5
<1>23. CASE reach_sync
  <2> USE <1>23 DEF reach_sync
  <2>1. TypeOK' BY DEF TypeOK, EventsLock, Counts, Places, Taken, Stops, Pending
  <2>2. EventsLock' BY DEF TypeOK, EventsLock
  <2>3. Counts' BY DEF TypeOK, EventsLock, Counts, Places, Taken, Stops, Pending
  <2>4. Places' BY DEF TypeOK, EventsLock, Counts, Places, Taken, Stops, Pending
  <2>5. FlushedInOrder' BY DEF FlushedInOrder
  <2> QED BY <2>1, <2>2, <2>3, <2>4, <2>5
<1>24. CASE leave_loop
  <2> USE <1>24 DEF leave_loop
  <2>1. TypeOK' BY DEF TypeOK
  <2>2. EventsLock' BY DEF TypeOK, EventsLock
  <2>3. Counts' BY DEF Counts, Taken, Stops, Pending
  <2>4. Places' BY DEF Places
  <2>5. FlushedInOrder' BY DEF FlushedInOrder
  <2> QED BY <2>1, <2>2, <2>3, <2>4, <2>5
<1>25. CASE Finished
  <2> USE <1>25 DEF Finished
  <2>1. TypeOK' BY DEF TypeOK
  <2>2. EventsLock' BY DEF TypeOK, EventsLock
  <2>3. Counts' BY DEF TypeOK, Counts, Taken, Stops, Pending
  <2>4. Places' BY DEF TypeOK, EventsLock, Places
  <2>5. FlushedInOrder' BY DEF FlushedInOrder
  <2> QED BY <2>1, <2>2, <2>3, <2>4, <2>5
<1>26. CASE UNCHANGED vars
  <2> USE <1>26
  <2>1. TypeOK' BY DEF TypeOK
  <2>2. EventsLock' BY DEF TypeOK, EventsLock
  <2>3. Counts' BY DEF TypeOK, Counts, Taken, Stops, Pending
  <2>4. Places' BY DEF TypeOK, EventsLock, Places
  <2>5. FlushedInOrder' BY DEF FlushedInOrder
  <2> QED BY <2>1, <2>2, <2>3, <2>4, <2>5
<1> QED BY <1>1, <1>2, <1>3, <1>4, <1>5, <1>6, <1>7, <1>8, <1>9, <1>10,
           <1>11, <1>12, <1>13, <1>14, <1>15, <1>16, <1>17, <1>18, <1>19,
           <1>20, <1>21, <1>22, <1>23, <1>24, <1>25, <1>26 DEF Next

\* The invariant behind the theorems below.
THEOREM Invariance == Spec => []IInv
BY InitIInv, NextIInv, PTL DEF Spec

\* The types of queue, locks and counters.
THEOREM TypeCorrect == Spec => []TypeOK
<1>1. IInv => TypeOK BY DEF IInv
<1> QED BY <1>1, Invariance, PTL

\* The two threads that call flush_command never do so at the same time.
THEOREM FlushesAreExclusive == Spec => []FlushesExclusive
<1>1. IInv => FlushesExclusive
  BY DEF IInv, FlushesExclusive, Places, Busy, BusyPlaces
<1> QED BY <1>1, Invariance, PTL

\* SYNC and SHUTDOWN are sent after the commands of all tasks.
THEOREM BroadcastsComeLast == Spec => []BroadcastAfterTasks
<1>1. IInv => BroadcastAfterTasks
  <2> SUFFICES ASSUME IInv, main \in {"sending_sync", "sending_shutdown"}
               PROVE  Len(flushed) = tasks
    BY DEF BroadcastAfterTasks
  <2>1. events = <<>> /\ ~Busy BY DEF IInv, Places, Busy, BusyPlaces
  <2>2. Stops = 0 /\ Pending = 0 BY DEF IInv, Places, Stops, Pending, Ending
  <2>3. Len(flushed) \in Nat /\ tasks \in Nat /\ Len(events) = 0 BY <2>1 DEF IInv, TypeOK
  <2> QED BY <2>1, <2>2, <2>3 DEF IInv, Counts, Taken
<1> QED BY <1>1, Invariance, PTL

\* Tasks are flushed in the order of their creation.
THEOREM FlushOrder == Spec => []FlushedInOrder
<1>1. IInv => FlushedInOrder BY DEF IInv
<1> QED BY <1>1, Invariance, PTL

\* SHUTDOWN is the last event, and a task that is built exists.
THEOREM Assertions == Spec => []AssertionsHold
<1>1. IInv => AssertionsHold
  <2> SUFFICES ASSUME IInv PROVE AssertionsHold OBVIOUS
  <2>1. worker = "exited" => events = <<>> BY DEF IInv, Places
  <2>2. Taken \in Nat /\ Len(events) \in Nat /\ tasks \in Nat /\ Stops \in 0 .. 1
        /\ Pending \in 0 .. 1
    BY DEF IInv, TypeOK, Taken, Stops, Pending
  <2>3. Taken <= tasks BY <2>2 DEF IInv, Counts
  <2>4. building \in 0 .. tasks BY <2>2, <2>3 DEF IInv, Counts
  <2> QED BY <2>1, <2>4 DEF AssertionsHold
<1> QED BY <1>1, Invariance, PTL
=============================================================================
