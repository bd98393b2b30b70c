-------------------- MODULE BufferTransferManagerProofs ---------------------
(***************************************************************************)
(* The buffer_transfer_managers for any nodes and transfers: data is never *)
(* lost or doubled, handles tell the truth, and together the managers      *)
(* implement the rendezvous (its safety; progress is model-checked).       *)
(***************************************************************************)
EXTENDS BufferTransferManager, TLAPS

\* Where the data of a pushed transfer is, the buffer being where the handle says.
OnePlace ==
    /\ Pushed = sent \cup incoming_transfers \cup received \cup await_done
    /\ sent \cap incoming_transfers = {} /\ sent \cap received = {} /\ sent \cap await_done = {}
    /\ incoming_transfers \cap received = {} /\ incoming_transfers \cap await_done = {}
    /\ received \cap await_done = {}

IInv == BTMTypeOK /\ OnePlace /\ HandleTellsTruth

\* What a report of MPI to a poll may contain: one message of the network, receives that
\* were posted or are posted now, and sends under way.
LEMMA ReportTypes ==
    ASSUME NEW n \in Node, NEW r \in Reports(n)
    PROVE  /\ r.probed \subseteq sent
           /\ r.landed \subseteq incoming_transfers \cup r.probed
           /\ r.acked \subseteq outgoing_transfers
<1>1. PICK m \in Probed(n) :
          \E l \in SUBSET Receives(n, m), a \in SUBSET From(n, outgoing_transfers) :
             r = [probed |-> m, landed |-> l, acked |-> a]
    BY DEF Reports
<1>2. PICK l \in SUBSET Receives(n, m), a \in SUBSET From(n, outgoing_transfers) :
          r = [probed |-> m, landed |-> l, acked |-> a]
    BY <1>1
<1>3. m \subseteq sent
    BY DEF Probed, To
<1>4. l \subseteq incoming_transfers \cup m /\ a \subseteq outgoing_transfers
    BY DEF Receives, To, From
<1> QED BY <1>2, <1>3, <1>4

\* The counts of writes after write_data_to_buffer for the transfers of W, none of which
\* had been written before.
LEMMA WritesOnce ==
    ASSUME BTMTypeOK, HandleTellsTruth, NEW W \in SUBSET Transfer, W \cap await_done = {},
           write_data_to_buffer(W), await_done' = await_done \cup W
    PROVE  writes' \in [Transfer -> Nat] /\ HandleTellsTruth'
<1>1. \A t \in Transfer : writes'[t] = IF t \in W THEN writes[t] + 1 ELSE writes[t]
    BY DEF write_data_to_buffer
<1>2. writes' \in [Transfer -> Nat]
    BY DEF write_data_to_buffer, BTMTypeOK
<1>3. ASSUME NEW t \in Transfer PROVE writes'[t] = IF t \in await_done' THEN 1 ELSE 0
    BY <1>1 DEF HandleTellsTruth
<1> QED BY <1>2, <1>3 DEF HandleTellsTruth

\* Before the first call nothing is under way.
LEMMA InitInv == BTMInit => IInv
    BY DEF BTMInit, IInv, BTMTypeOK, OnePlace, HandleTellsTruth, Pushed

\* push, await_push and poll keep the invariant.
LEMMA Preserved == IInv /\ [BTMNext]_btm_vars => IInv'
<1> SUFFICES ASSUME IInv, [BTMNext]_btm_vars PROVE IInv'
    OBVIOUS
<1> USE DEF IInv
<1>1. ASSUME NEW t \in Transfer, PushCall(t) PROVE IInv'
  <2>1. BTMTypeOK'
      BY <1>1 DEF PushCall, push, Pushed, BTMTypeOK
  <2>2. OnePlace'
      BY <1>1 DEF PushCall, push, Pushed, OnePlace
  <2>3. HandleTellsTruth'
      BY <1>1 DEF PushCall, push, HandleTellsTruth
  <2> QED BY <2>1, <2>2, <2>3
<1>2. ASSUME NEW t \in Transfer, AwaitCall(t) PROVE IInv'
  <2> DEFINE W == AlreadyReceived({t})
  <2>1. W \in SUBSET Transfer /\ W \cap await_done = {} /\ write_data_to_buffer(W)
        /\ await_done' = await_done \cup W
      BY <1>2 DEF AwaitCall, await_push, AlreadyReceived, OnePlace
  <2>2. writes' \in [Transfer -> Nat] /\ HandleTellsTruth'
    <3> HIDE DEF W
    <3> QED BY <2>1, WritesOnce
  <2>3. BTMTypeOK'
      BY <1>2, <2>2 DEF AwaitCall, Awaited, await_push, AlreadyReceived, BTMTypeOK, OnePlace
  <2>4. OnePlace'
      BY <1>2 DEF AwaitCall, await_push, AlreadyReceived, Pushed, OnePlace
  <2> QED BY <2>2, <2>3, <2>4
<1>3. ASSUME NEW n \in Node, NEW r \in Reports(n), poll(r) PROVE IInv'
  <2>1. /\ r.probed \subseteq sent
        /\ r.landed \subseteq incoming_transfers \cup r.probed
        /\ r.acked \subseteq outgoing_transfers
      BY ReportTypes
  <2>2. Matched(r) \in SUBSET Transfer /\ Matched(r) \cap await_done = {}
        /\ write_data_to_buffer(Matched(r)) /\ await_done' = await_done \cup Matched(r)
      BY <1>3, <2>1 DEF poll, Matched, CompletedHandles, BTMTypeOK, OnePlace
  <2>3. writes' \in [Transfer -> Nat] /\ HandleTellsTruth'
      BY <2>2, WritesOnce
  <2>4. BTMTypeOK'
      BY <1>3, <2>1, <2>3 DEF poll, StillIncoming, Matched, CompletedHandles, BTMTypeOK
  <2>5. OnePlace'
      BY <1>3, <2>1 DEF poll, StillIncoming, Matched, CompletedHandles, Pushed, OnePlace
  <2> QED BY <2>3, <2>4, <2>5
<1>4. CASE UNCHANGED btm_vars
    BY <1>4 DEF btm_vars, BTMTypeOK, OnePlace, Pushed, HandleTellsTruth
<1> QED BY <1>1, <1>2, <1>3, <1>4 DEF BTMNext

-----------------------------------------------------------------------------
\* The inductive invariant holds in every state, whatever the callers push and await and
\* whatever MPI reports.
THEOREM Invariance == BTMSpec => []IInv
<1> QED BY InitInv, Preserved, PTL DEF BTMSpec

\* The data of a pushed transfer is in the network, in a receive, on the blackboard or in the
\* buffer, and in one of them only.
THEOREM NothingLostOrDoubled == BTMSpec => []DataInOnePlace
<1>1. IInv => DataInOnePlace
  <2> SUFFICES ASSUME IInv PROVE DataInOnePlace
      OBVIOUS
  <2>1. Written = await_done
      BY DEF IInv, HandleTellsTruth, BTMTypeOK, Written
  <2> DEFINE places == <<sent, incoming_transfers, received, Written>>
  <2>2. /\ places[1] = sent /\ places[2] = incoming_transfers /\ places[3] = received
        /\ places[4] = await_done
      BY <2>1
  <2> HIDE DEF places
  <2>3. \A i \in 1 .. 4 : i = 1 \/ i = 2 \/ i = 3 \/ i = 4
      OBVIOUS
  <2>4. UNION {places[i] : i \in 1 .. 4} = places[1] \cup places[2] \cup places[3] \cup places[4]
      BY <2>3
  <2>5. Pushed = UNION {places[i] : i \in 1 .. 4}
      BY <2>2, <2>4 DEF IInv, OnePlace
  <2>6. \A i, j \in 1 .. 4 : i # j => places[i] \cap places[j] = {}
      BY <2>2, <2>3 DEF IInv, OnePlace
  <2> QED BY <2>5, <2>6 DEF DataInOnePlace, places
<1> QED BY <1>1, Invariance, PTL

\* The handle of an await push is complete if and only if its data was written, once.
THEOREM HandlesTellTheTruth == BTMSpec => []HandleTellsTruth
<1>1. IInv => HandleTellsTruth
    BY DEF IInv
<1> QED BY <1>1, Invariance, PTL

\* The managers implement the rendezvous: push, await_push and poll push, ask for and write
\* the data of a transfer at most once, and write it only when both sides are there.
THEOREM Refinement == BTMSpec => Abstract!Spec
<1>1. BTMInit => Abstract!Init
    BY DEF BTMInit, Abstract!Init, Pushed, Awaited
<1>2. IInv /\ [BTMNext]_btm_vars => [Abstract!Next]_(Abstract!vars)
  <2> SUFFICES ASSUME IInv, [BTMNext]_btm_vars PROVE [Abstract!Next]_(Abstract!vars)
      OBVIOUS
  <2> USE DEF IInv
  <2>1. ASSUME NEW t \in Transfer, PushCall(t) PROVE Abstract!Next
    <3>1. Abstract!Push({t})
        BY <2>1 DEF PushCall, push, Pushed, Awaited, Abstract!Push
    <3> QED BY <3>1 DEF Abstract!Next
  <2>2. ASSUME NEW t \in Transfer, AwaitCall(t) PROVE Abstract!Next
    <3>1. \A x \in AlreadyReceived({t}) : x = t /\ x \in Pushed /\ writes[x] = 0
        BY DEF AlreadyReceived, OnePlace, HandleTellsTruth
    <3>2. Awaited' = Awaited \cup {t} /\ Pushed' = Pushed
        BY <2>2 DEF AwaitCall, await_push, AlreadyReceived, Awaited, Pushed
    <3>3. Abstract!AwaitAndDeliver({t}, AlreadyReceived({t}))
        BY <2>2, <3>1, <3>2 DEF AwaitCall, await_push, write_data_to_buffer, Abstract!AwaitAndDeliver
    <3> QED BY <3>1, <3>3 DEF Abstract!Next
  <2>3. ASSUME NEW n \in Node, NEW r \in Reports(n), poll(r) PROVE Abstract!Next
    <3>1. /\ r.probed \subseteq sent
          /\ r.landed \subseteq incoming_transfers \cup r.probed
          /\ r.acked \subseteq outgoing_transfers
        BY ReportTypes
    <3>2. \A x \in Matched(r) : x \in Transfer /\ x \in Pushed /\ x \in Awaited /\ writes[x] = 0
        BY <3>1 DEF Matched, BTMTypeOK, OnePlace, HandleTellsTruth, Awaited
    <3>3. Awaited' = Awaited /\ Pushed' = Pushed
        BY <2>3, <3>1 DEF poll, Matched, CompletedHandles, Awaited, Pushed
    <3>4. Abstract!AwaitAndDeliver({}, Matched(r))
        BY <2>3, <3>2, <3>3 DEF poll, write_data_to_buffer, Abstract!AwaitAndDeliver
    <3>5. Matched(r) \in SUBSET Transfer
        BY <3>2
    <3> QED BY <3>4, <3>5 DEF Abstract!Next
  <2>4. CASE UNCHANGED btm_vars
      BY <2>4 DEF btm_vars, Abstract!vars, Pushed, Awaited
  <2> QED BY <2>1, <2>2, <2>3, <2>4 DEF BTMNext
<1> QED BY <1>1, <1>2, Invariance, PTL DEF BTMSpec, Abstract!Spec
=============================================================================
