----------------------------- MODULE RankExchange -----------------------------
(***************************************************************************)
(* RankSyncParallelSkip::execute: the exchange of events between ranks     *)
(* with several threads each.  RankThread 0 does all of the MPI; serialization *)
(* of what is sent, and deserialization of what is received, is work any   *)
(* thread of the rank may pick up from a shared queue; but events go into  *)
(* a TimeVortex only by the hands of the thread that owns it.              *)
(*                                                                         *)
(* One message goes from a rank to every thread it has links to.  Buffers  *)
(* grow: a message that the receiver's buffer cannot hold is preceded by a *)
(* header with the size, on the even tag, and sent on the odd one.  All of *)
(* this is repeated, with whatever the last exchange left behind.          *)
(***************************************************************************)
EXTENDS Integers, FiniteSets, Sequences

CONSTANTS
    Rank,           \* the MPI ranks
    RankThread,         \* the threads of a rank, numbers from 0
    Linked,         \* pairs <<r, <<s, t>>>>: rank r has a link to thread t of rank s
    MessageSizes,          \* sizes of a serialized message; the buffers start with 1
    Exchanges       \* bound: exchanges in one run

ASSUME ExchangeAssumption ==
    /\ IsFiniteSet(Rank) /\ IsFiniteSet(RankThread) /\ 0 \in RankThread
    /\ Linked \subseteq Rank \X (Rank \X RankThread)
    /\ \A l \in Linked : l[1] # l[2][1]
    /\ MessageSizes \subseteq Nat \ {0}
    /\ Exchanges \in Nat

Place == Rank \X RankThread

(* comm_send_map, by destination, and comm_recv_map, by source and thread. *)
SendTo(r) == {d \in Place : <<r, d>> \in Linked}
ReceiveFrom(r) == {m \in Place : <<m[1], <<r, m[2]>>>> \in Linked}

(* The connection from rank r to the thread d, and how the receiver calls it. *)
At(r, m) == <<m[1], <<r, m[2]>>>>

VARIABLES
    xpc,             \* where each thread is
    hand,           \* the work item it has taken from a queue
    round,          \* exchanges a rank has started
    squeue,         \* per connection: what the RankSyncQueue holds
    remoteSize,     \* per connection: remote_size, the receiver's buffer as known
    localSize,      \* per connection: local_size, the receiver's buffer
    even, odd,      \* per connection: MPI messages under way, by tag
    rbuf,           \* per connection: the message in the receive buffer
    serializeQ, sendQ, deserializeQ, linkSendQ,  \* the work queues of a rank
    remaining,      \* remaining_deser
    toSend,         \* my_send_count of exchange_master
    toReceive,      \* the receives thread 0 has not seen complete
    toDeliver,      \* my_recv_count of each thread
    got,            \* history: the last message delivered, per connection
    wrong           \* history: a message was delivered out of order, twice, by
                    \* another thread than its owner, or was truncated

queues == <<serializeQ, sendQ, deserializeQ, linkSendQ>>
buffers == <<squeue, remoteSize, localSize, rbuf>>
net == <<even, odd>>
counts == <<remaining, toSend, toReceive, toDeliver>>
exchangeVars == <<xpc, hand, round, buffers, net, queues, counts, got, wrong>>

None == <<>>

ExchangeInit ==
    /\ xpc = [p \in Place |-> "idle"]
    /\ hand = [p \in Place |-> None]
    /\ round = [r \in Rank |-> 0]
    /\ squeue = [l \in Linked |-> [id |-> 0, size |-> 0]]
    /\ remoteSize = [l \in Linked |-> 1]
    /\ localSize = [l \in Linked |-> 1]
    /\ even = [l \in Linked |-> <<>>] /\ odd = [l \in Linked |-> <<>>]
    /\ rbuf = [l \in Linked |-> 0]
    /\ serializeQ = [r \in Rank |-> {}] /\ sendQ = [r \in Rank |-> {}]
    /\ deserializeQ = [r \in Rank |-> {}]
    /\ linkSendQ = [p \in Place |-> {}]
    /\ remaining = [r \in Rank |-> 0]
    /\ toSend = [r \in Rank |-> 0]
    /\ toReceive = [r \in Rank |-> {}]
    /\ toDeliver = [p \in Place |-> 0]
    /\ got = [l \in Linked |-> 0]
    /\ wrong = FALSE

Goto(p, l) == xpc' = [xpc EXCEPT ![p] = l]
AllAt(r, l) == \A t \in RankThread : xpc[<<r, t>>] = l
MoveAll(r, M(_)) ==
    xpc' = [p \in Place |-> IF p[1] = r THEN M(p[2]) ELSE xpc[p]]

-----------------------------------------------------------------------------
(***************************************************************************)
(* The start of an exchange.  The threads of the rank are in the sync with *)
(* what their events have sent; thread 0 fills the queue of work.          *)
(***************************************************************************)
Start(r) ==
    /\ AllAt(r, "idle") /\ round[r] < Exchanges
    /\ round' = [round EXCEPT ![r] = @ + 1]
    /\ \E size \in [SendTo(r) -> MessageSizes] :
        squeue' = [l \in Linked |-> IF l[1] = r
                THEN [id |-> round[r] + 1, size |-> size[l[2]]] ELSE squeue[l]]
    /\ MoveAll(r, LAMBDA t : IF t = 0 THEN "fill" ELSE "serializeReady")
    /\ UNCHANGED <<hand, remoteSize, localSize, rbuf, net, queues, counts, got, wrong>>

Fill(r) ==
    /\ xpc[<<r, 0>>] = "fill"
    /\ Goto(<<r, 0>>, "serializeReady")
    /\ serializeQ' = [serializeQ EXCEPT ![r] = @ \cup SendTo(r)]
    /\ remaining' = [remaining EXCEPT ![r] = Cardinality(ReceiveFrom(r))]
    /\ UNCHANGED <<hand, round, buffers, net, sendQ, deserializeQ, linkSendQ, toSend,
                   toReceive, toDeliver, got, wrong>>

(* serializeReadyBarrier; thread 0 posts its receives. *)
SerializeReady(r) ==
    /\ AllAt(r, "serializeReady")
    /\ MoveAll(r, LAMBDA t : IF t = 0 THEN "send" ELSE "serialize")
    /\ toSend' = [toSend EXCEPT ![r] = Cardinality(SendTo(r))]
    /\ toReceive' = [toReceive EXCEPT ![r] = ReceiveFrom(r)]
    /\ UNCHANGED <<hand, round, buffers, net, queues, remaining, toDeliver, got, wrong>>

-----------------------------------------------------------------------------
(***************************************************************************)
(* Serialization: the loop that starts exchange_slave, and the help that   *)
(* thread 0 gives while it has nothing to send; between the two the send   *)
(* queue may have been filled.  So may a thread's own link_send_queue when *)
(* it goes on to deserialize_queue below.                                  *)
(***************************************************************************)
(* Mutant of TakeSerialize: the item stays in the queue. *)
TakeSerializeKeeps(r, t) ==
    LET p == <<r, t>>
    IN  /\ hand[p] = None
        /\ \/ xpc[p] = "serialize"
           \/ xpc[p] = "send" /\ toSend[r] # 0
        /\ \E d \in serializeQ[r] : hand' = [hand EXCEPT ![p] = d]
        /\ UNCHANGED <<xpc, round, buffers, net, queues, counts, got, wrong>>

TakeSerialize(r, t) ==
    LET p == <<r, t>>
    IN  /\ hand[p] = None
        /\ \/ xpc[p] = "serialize"
           \/ xpc[p] = "send" /\ toSend[r] # 0
        /\ \E d \in serializeQ[r] :
            /\ serializeQ' = [serializeQ EXCEPT ![r] = @ \ {d}]
            /\ hand' = [hand EXCEPT ![p] = d]
        /\ UNCHANGED <<xpc, round, buffers, net, sendQ, deserializeQ, linkSendQ, counts,
                       got, wrong>>

PutSend(r, t) ==
    LET p == <<r, t>>
    IN  /\ xpc[p] \in {"serialize", "send"} /\ hand[p] # None
        /\ sendQ' = [sendQ EXCEPT ![r] = @ \cup {hand[p]}]
        /\ hand' = [hand EXCEPT ![p] = None]
        /\ UNCHANGED <<xpc, round, buffers, net, serializeQ, deserializeQ, linkSendQ,
                       counts, got, wrong>>

(* No more to serialize: on to the receives. *)
SerializeDone(r, t) ==
    LET p == <<r, t>>
    IN  /\ xpc[p] = "serialize" /\ hand[p] = None /\ serializeQ[r] = {}
        /\ Goto(p, "deliver")
        /\ toDeliver' = [toDeliver EXCEPT ![p] =
                Cardinality({m \in ReceiveFrom(r) : m[2] = t})]
        /\ UNCHANGED <<hand, round, buffers, net, queues, remaining, toSend, toReceive,
                       got, wrong>>

(* RankThread 0 sends a message, after a header if the buffer is too small. *)
Send(r) ==
    LET p == <<r, 0>>
    IN  /\ xpc[p] = "send" /\ hand[p] = None
        /\ \E d \in sendQ[r] :
            LET l == <<r, d>>
                fits == squeue[l].size <= remoteSize[l]
            IN  /\ sendQ' = [sendQ EXCEPT ![r] = @ \ {d}]
                /\ IF fits
                   THEN even' = [even EXCEPT ![l] = Append(@, "data")]
                        /\ UNCHANGED <<odd, remoteSize>>
                   ELSE /\ even' = [even EXCEPT ![l] = Append(@, "header")]
                        /\ odd' = [odd EXCEPT ![l] = Append(@, "data")]
                        /\ remoteSize' = [remoteSize EXCEPT ![l] = squeue[l].size]
        /\ toSend' = [toSend EXCEPT ![r] = @ - 1]
        /\ UNCHANGED <<xpc, hand, round, squeue, localSize, rbuf, serializeQ, deserializeQ,
                       linkSendQ, remaining, toReceive, toDeliver, got, wrong>>

SendDone(r) ==
    /\ xpc[<<r, 0>>] = "send" /\ toSend[r] = 0 /\ hand[<<r, 0>>] = None
    /\ Goto(<<r, 0>>, "receive")
    /\ UNCHANGED <<hand, round, buffers, net, queues, counts, got, wrong>>

-----------------------------------------------------------------------------
(***************************************************************************)
(* The receives of thread 0.  A message is read from the sender's buffer   *)
(* when it arrives, which may be any time until the sender's MPI_Waitall.  *)
(***************************************************************************)
Receive(r) ==
    LET p == <<r, 0>>
    IN  /\ xpc[p] = "receive"
        /\ \E m \in toReceive[r] :
            LET l == At(r, m)
            IN  /\ even[l] # <<>>
                /\ even' = [even EXCEPT ![l] = Tail(@)]
                /\ toReceive' = [toReceive EXCEPT ![r] = @ \ {m}]
                /\ IF Head(even[l]) = "data"
                   THEN /\ rbuf' = [rbuf EXCEPT ![l] = squeue[l].id]
                        /\ wrong' = (wrong \/ squeue[l].size > localSize[l])
                        /\ deserializeQ' = [deserializeQ EXCEPT ![r] = @ \cup {m}]
                        /\ UNCHANGED <<xpc, hand, localSize>>
                   ELSE /\ localSize' = [localSize EXCEPT ![l] =
                                IF squeue[l].size > @ THEN squeue[l].size ELSE @]
                        /\ hand' = [hand EXCEPT ![p] = m]
                        /\ Goto(p, "receiveOdd")
                        /\ UNCHANGED <<rbuf, wrong, deserializeQ>>
        /\ UNCHANGED <<round, squeue, remoteSize, odd, serializeQ, sendQ, linkSendQ,
                       remaining, toSend, toDeliver, got>>

(* The MPI_Recv of the message that the header has announced. *)
ReceiveOdd(r) ==
    LET p == <<r, 0>>
        m == hand[p]
        l == At(r, m)
    IN  /\ xpc[p] = "receiveOdd"
        /\ odd[l] # <<>>
        /\ odd' = [odd EXCEPT ![l] = Tail(@)]
        /\ rbuf' = [rbuf EXCEPT ![l] = squeue[l].id]
        /\ wrong' = (wrong \/ squeue[l].size > localSize[l])
        /\ deserializeQ' = [deserializeQ EXCEPT ![r] = @ \cup {m}]
        /\ hand' = [hand EXCEPT ![p] = None]
        /\ Goto(p, "receive")
        /\ UNCHANGED <<round, squeue, remoteSize, localSize, even, serializeQ, sendQ,
                       linkSendQ, counts, got>>

(* All is received: thread 0 goes on as a slave. *)
ReceiveDone(r) ==
    /\ xpc[<<r, 0>>] = "receive" /\ toReceive[r] = {}
    /\ Goto(<<r, 0>>, "serialize")
    /\ UNCHANGED <<hand, round, buffers, net, queues, counts, got, wrong>>

-----------------------------------------------------------------------------
(***************************************************************************)
(* Deserialization and delivery, by all threads.                           *)
(***************************************************************************)
Deliver(r, t) ==
    LET p == <<r, t>>
    IN  /\ xpc[p] = "deliver" /\ hand[p] = None
        /\ \E m \in linkSendQ[p] :
            LET l == At(r, m)
            IN  /\ linkSendQ' = [linkSendQ EXCEPT ![p] = @ \ {m}]
                /\ got' = [got EXCEPT ![l] = rbuf[l]]
                /\ wrong' = (wrong \/ m[2] # t \/ rbuf[l] # got[l] + 1)
        /\ toDeliver' = [toDeliver EXCEPT ![p] = @ - 1]
        /\ UNCHANGED <<xpc, hand, round, buffers, net, serializeQ, sendQ, deserializeQ,
                       remaining, toSend, toReceive>>

TakeDeserialize(r, t) ==
    LET p == <<r, t>>
    IN  /\ xpc[p] = "deliver" /\ hand[p] = None
        /\ toDeliver[p] # 0 \/ remaining[r] # 0
        /\ \E m \in deserializeQ[r] :
            /\ deserializeQ' = [deserializeQ EXCEPT ![r] = @ \ {m}]
            /\ hand' = [hand EXCEPT ![p] = m]
        /\ remaining' = [remaining EXCEPT ![r] = @ - 1]
        /\ UNCHANGED <<xpc, round, buffers, net, serializeQ, sendQ, linkSendQ, toSend,
                       toReceive, toDeliver, got, wrong>>

PutLinkSend(r, t) ==
    LET p == <<r, t>>
    IN  /\ xpc[p] = "deliver" /\ hand[p] # None
        /\ linkSendQ' = [linkSendQ EXCEPT ![<<r, hand[p][2]>>] = @ \cup {hand[p]}]
        /\ hand' = [hand EXCEPT ![p] = None]
        /\ UNCHANGED <<xpc, round, buffers, net, serializeQ, sendQ, deserializeQ, counts,
                       got, wrong>>

(* Mutant of DeliverDone: nothing left to deserialize is taken for all is delivered. *)
DeliverDoneEarly(r, t) ==
    LET p == <<r, t>>
    IN  /\ xpc[p] = "deliver" /\ hand[p] = None
        /\ remaining[r] = 0
        /\ Goto(p, "slaveExchangeDone")
        /\ UNCHANGED <<hand, round, buffers, net, queues, counts, got, wrong>>

DeliverDone(r, t) ==
    LET p == <<r, t>>
    IN  /\ xpc[p] = "deliver" /\ hand[p] = None
        /\ toDeliver[p] = 0 /\ remaining[r] = 0
        /\ Goto(p, "slaveExchangeDone")
        /\ UNCHANGED <<hand, round, buffers, net, queues, counts, got, wrong>>

-----------------------------------------------------------------------------
(* slaveExchangeDoneBarrier. *)
SlaveExchangeDone(r) ==
    /\ AllAt(r, "slaveExchangeDone")
    /\ MoveAll(r, LAMBDA t : IF t = 0 THEN "waitall" ELSE "allDone")
    /\ UNCHANGED <<hand, round, buffers, net, queues, counts, got, wrong>>

(* Mutant of WaitSends: the queues are cleared while messages are under way. *)
WaitSendsNoWait(r) ==
    /\ xpc[<<r, 0>>] = "waitall"
    /\ squeue' = [l \in Linked |->
            IF l[1] = r THEN [id |-> 0, size |-> 0] ELSE squeue[l]]
    /\ Goto(<<r, 0>>, "reduce")
    /\ UNCHANGED <<hand, round, remoteSize, localSize, rbuf, net, queues, counts, got,
                   wrong>>

(* MPI_Waitall for the sends, then the RankSyncQueues are cleared. *)
WaitSends(r) ==
    /\ xpc[<<r, 0>>] = "waitall"
    /\ \A d \in SendTo(r) : even[<<r, d>>] = <<>> /\ odd[<<r, d>>] = <<>>
    /\ squeue' = [l \in Linked |->
            IF l[1] = r THEN [id |-> 0, size |-> 0] ELSE squeue[l]]
    /\ Goto(<<r, 0>>, "reduce")
    /\ UNCHANGED <<hand, round, remoteSize, localSize, rbuf, net, queues, counts, got,
                   wrong>>

(* MPI_Allreduce of the next sync time and of the flags. *)
Reduce ==
    /\ \A r \in Rank : xpc[<<r, 0>>] = "reduce"
    /\ xpc' = [p \in Place |-> IF p[2] = 0 THEN "allDone" ELSE xpc[p]]
    /\ UNCHANGED <<hand, round, buffers, net, queues, counts, got, wrong>>

(* allDoneBarrier. *)
AllDone(r) ==
    /\ AllAt(r, "allDone")
    /\ MoveAll(r, LAMBDA t : "idle")
    /\ UNCHANGED <<hand, round, buffers, net, queues, counts, got, wrong>>

Finished == \A r \in Rank : AllAt(r, "idle") /\ round[r] = Exchanges
ExchangeDone == Finished /\ UNCHANGED exchangeVars

StepOf(r, t) ==
    \/ TakeSerialize(r, t) \/ PutSend(r, t) \/ SerializeDone(r, t)
    \/ Deliver(r, t) \/ TakeDeserialize(r, t) \/ PutLinkSend(r, t) \/ DeliverDone(r, t)

StepOfMaster(r) ==
    \/ Fill(r) \/ Send(r) \/ SendDone(r)
    \/ Receive(r) \/ ReceiveOdd(r) \/ ReceiveDone(r) \/ WaitSends(r)

StepOfRank(r) ==
    Start(r) \/ SerializeReady(r) \/ SlaveExchangeDone(r) \/ AllDone(r)

ExchangeNext ==
    \/ \E r \in Rank : StepOfMaster(r) \/ StepOfRank(r) \/ \E t \in RankThread : StepOf(r, t)
    \/ Reduce
    \/ ExchangeDone

ExchangeSpec == ExchangeInit /\ [][ExchangeNext]_exchangeVars

(* Threads that find no work spin; none of them is starved. *)
ExchangeFairness ==
    /\ \A r \in Rank : WF_exchangeVars(StepOfMaster(r)) /\ WF_exchangeVars(StepOfRank(r))
    /\ \A r \in Rank, t \in RankThread : WF_exchangeVars(StepOf(r, t))
    /\ WF_exchangeVars(Reduce)

ExchangeFairSpec == ExchangeSpec /\ ExchangeFairness

-----------------------------------------------------------------------------
(***************************************************************************)
(* Every message reaches the thread it is meant for, once, in the order of *)
(* the exchanges and by that thread's own hands, and no receive is given a *)
(* message larger than its buffer; when a rank leaves an exchange all that *)
(* was sent to it in this exchange is delivered.                           *)
(***************************************************************************)
ExactlyOnce ==
    /\ ~wrong
    /\ \A r \in Rank : AllAt(r, "idle") \/ AllAt(r, "allDone") =>
            \A m \in ReceiveFrom(r) : got[At(r, m)] = round[r]

(***************************************************************************)
(* The next sync time is computed (getLocalMinimumNextActivityTime, just   *)
(* before the reduction) when the threads of the rank have delivered       *)
(* everything, and the queues are empty for the next exchange.             *)
(***************************************************************************)
DeliveredBeforeReduce ==
    \A r \in Rank : xpc[<<r, 0>>] \in {"waitall", "reduce"} =>
        /\ \A t \in RankThread : xpc[<<r, t>>] # "deliver" /\ linkSendQ[<<r, t>>] = {}
        /\ \A m \in ReceiveFrom(r) : got[At(r, m)] = round[r]
        /\ serializeQ[r] = {} /\ sendQ[r] = {} /\ deserializeQ[r] = {}

(***************************************************************************)
(* Both ends of a connection agree on the size of the receive buffer       *)
(* whenever no message is under way, without ever telling each other.      *)
(***************************************************************************)
BuffersAgree ==
    \A l \in Linked :
        /\ localSize[l] <= remoteSize[l]
        /\ even[l] = <<>> /\ odd[l] = <<>> => localSize[l] = remoteSize[l]

(***************************************************************************)
(* What the exchange keeps: every event arrives once, in its own round and *)
(* before the next sync time is computed, and the buffers it is sent       *)
(* through are large enough.                                               *)
(***************************************************************************)
ExchangeKept == ExactlyOnce /\ BuffersAgree /\ DeliveredBeforeReduce

(* Every exchange comes to an end: no thread spins for work for ever. *)
ExchangesEnd == <>Finished
=============================================================================
