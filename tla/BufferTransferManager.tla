----------------------- MODULE BufferTransferManager ------------------------
(***************************************************************************)
(* The buffer_transfer_managers of all nodes and the MPI layer between     *)
(* them: src/buffer_transfer_manager.cc.  A transfer is identified by the  *)
(* cid of its PUSH.  Data may arrive before or after the AWAIT_PUSH asks   *)
(* for it; the push_blackboard of the target holds whichever came first.   *)
(***************************************************************************)
EXTENDS Naturals, FiniteSets

CONSTANTS Node, Transfer     \* transfers are records [cid, source, target]

ASSUME TransferAssumption ==
    \A t \in Transfer : t.source \in Node /\ t.target \in Node /\ t.source # t.target

VARIABLES
    outgoing_transfers,      \* Isends whose completion has not been seen
    push_done,               \* PUSH handles that are complete
    sent,                    \* MPI: sent, no probe of the target has reported it
    incoming_transfers,      \* Imrecvs whose completion has not been seen
    awaiting,                \* push_blackboard entries made by await_push
    received,                \* push_blackboard entries made by arriving data
    await_done,              \* AWAIT_PUSH handles that are complete
    writes                   \* how often write_data_to_buffer ran, per transfer

btm_vars == <<outgoing_transfers, push_done, sent, incoming_transfers,
              awaiting, received, await_done, writes>>

To(n, S) == {t \in S : t.target = n}
From(n, S) == {t \in S : t.source = n}

BTMInit ==
    /\ outgoing_transfers = {} /\ push_done = {}
    /\ sent = {} /\ incoming_transfers = {}
    /\ awaiting = {} /\ received = {} /\ await_done = {}
    /\ writes = [t \in Transfer |-> 0]

\* write_data_to_buffer, for each transfer of W.
write_data_to_buffer(W) ==
    writes' = [t \in Transfer |-> IF t \in W THEN writes[t] + 1 ELSE writes[t]]

\* push, for each transfer of P: hand the data to MPI.
push(P) ==
    /\ outgoing_transfers' = outgoing_transfers \cup P
    /\ sent' = sent \cup P
    /\ UNCHANGED <<push_done, incoming_transfers>>

\* Mutant: the blackboard is not looked at, the data is taken to be there.
AlreadyReceivedAlways(A) == A

\* The transfers of A whose data await_push finds on the blackboard.
AlreadyReceived(A) == A \cap received

\* await_push, for each transfer of A.
await_push(A) ==
    /\ received' = received \ AlreadyReceived(A)
    /\ awaiting' = awaiting \cup (A \ AlreadyReceived(A))
    /\ await_done' = await_done \cup AlreadyReceived(A)
    /\ write_data_to_buffer(AlreadyReceived(A))

(***************************************************************************)
(* What MPI reports to a poll of node n: probed, the message found by      *)
(* MPI_Improbe (at most one); landed, the receives, and acked, the sends,  *)
(* for which MPI_Test succeeds.  A send can be complete at any time, since *)
(* MPI may buffer a small message.  Progress is MPI's, so a report is any  *)
(* choice among what is under way.                                         *)
(***************************************************************************)
Probed(n) == {{}} \cup {{t} : t \in To(n, sent)}
Receives(n, m) == To(n, incoming_transfers) \cup m
Reports(n) ==
    UNION {{[probed |-> m, landed |-> l, acked |-> a] :
              l \in SUBSET Receives(n, m), a \in SUBSET From(n, outgoing_transfers)} :
           m \in Probed(n)}

\* The reports that everything under way has arrived.
PromptReports(n) ==
    {[probed |-> m, landed |-> Receives(n, m), acked |-> From(n, outgoing_transfers)] :
       m \in IF To(n, sent) = {} THEN {{}} ELSE Probed(n) \ {{}}}

\* The complete receives that were asked for, which poll writes to the buffer.
Matched(r) == r.landed \cap awaiting

\* Mutant: every receive that completes also completes an AWAIT_PUSH.
CompletedHandlesAll(r) == r.landed

\* The AWAIT_PUSH handles that poll completes.
CompletedHandles(r) == Matched(r)

\* Mutant: the receive stays in the list when it is complete.
StillIncomingAll(r) == incoming_transfers \cup r.probed

StillIncoming(r) == (incoming_transfers \cup r.probed) \ r.landed

\* poll: poll_incoming_transfers, update_incoming_transfers and
\* update_outgoing_transfers.
poll(r) ==
    /\ sent' = sent \ r.probed
    /\ incoming_transfers' = StillIncoming(r)
    /\ awaiting' = awaiting \ Matched(r)
    /\ received' = received \cup (r.landed \ Matched(r))
    /\ await_done' = await_done \cup CompletedHandles(r)
    /\ write_data_to_buffer(Matched(r))
    /\ push_done' = push_done \cup r.acked
    /\ outgoing_transfers' = outgoing_transfers \ r.acked

-----------------------------------------------------------------------------
\* The managers under any caller that pushes and awaits each transfer once, as
\* the jobs of the executor do.
Pushed == outgoing_transfers \cup push_done
Awaited == awaiting \cup await_done

PushCall(t) ==
    /\ t \notin Pushed
    /\ push({t})
    /\ UNCHANGED <<awaiting, received, await_done, writes>>

AwaitCall(t) ==
    /\ t \notin Awaited
    /\ await_push({t})
    /\ UNCHANGED <<outgoing_transfers, push_done, sent, incoming_transfers>>

BTMNext ==
    \/ \E t \in Transfer : PushCall(t) \/ AwaitCall(t)
    \/ \E n \in Node : \E r \in Reports(n) : poll(r)

BTMSpec == BTMInit /\ [][BTMNext]_btm_vars

\* The executor polls forever and MPI delivers what it accepted: a poll that finds
\* everything arrived is not put off forever.
BTMFairSpec ==
    /\ BTMSpec
    /\ \A n \in Node : WF_btm_vars(\E r \in PromptReports(n) : poll(r))

-----------------------------------------------------------------------------
BTMTypeOK ==
    /\ outgoing_transfers \subseteq Transfer /\ push_done \subseteq Transfer
    /\ sent \subseteq Transfer /\ incoming_transfers \subseteq Transfer
    /\ awaiting \subseteq Transfer /\ received \subseteq Transfer
    /\ await_done \subseteq Transfer
    /\ writes \in [Transfer -> Nat]
    /\ awaiting \cap (received \cup await_done) = {}
    /\ outgoing_transfers \cap push_done = {}

Written == {t \in Transfer : writes[t] > 0}

\* Conservation: the data of a pushed transfer is in exactly one place (in the
\* network, in a receive, on the blackboard or in the buffer), so none is lost
\* and none is kept twice.
DataInOnePlace ==
    LET places == <<sent, incoming_transfers, received, Written>>
    IN  /\ Pushed = UNION {places[i] : i \in 1 .. 4}
        /\ \A i, j \in 1 .. 4 : i # j => places[i] \cap places[j] = {}

\* A job that awaits a transfer learns the truth: its handle is complete if and
\* only if the data was written to the buffer, once.
HandleTellsTruth == \A t \in Transfer : writes[t] = IF t \in await_done THEN 1 ELSE 0

Abstract == INSTANCE Rendezvous WITH pushed <- Pushed, awaited <- Awaited

\* The managers implement the rendezvous, progress included.
ImplementsRendezvous == Abstract!FairSpec
=============================================================================
