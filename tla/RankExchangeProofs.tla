------------------------- MODULE RankExchangeProofs -------------------------
(***************************************************************************)
(* What the exchange of events between ranks promises, for any number of   *)
(* ranks, threads and exchanges, any links and any sizes of messages.      *)
(***************************************************************************)
EXTENDS RankExchange, FiniteSetTheorems, TLAPS

(* The two ends of a connection, and what each of them calls it. *)
Source(l) == l[1]
Target(l) == l[2]
TargetRank(l) == l[2][1]
Key(l) == <<l[1], l[2][2]>>

MasterOf(r) == xpc[<<r, 0>>]

Stages ==
    {"idle", "fill", "serializeReady", "send", "receive", "receiveOdd", "serialize", "deliver",
     "slaveExchangeDone", "waitall", "reduce", "allDone"}

ExchangeType ==
    /\ xpc \in [Place -> Stages] /\ hand \in [Place -> Place \cup {None}]
    /\ round \in [Rank -> Nat]
    /\ squeue \in [Linked -> [id : Nat, size : Nat]]
    /\ remoteSize \in [Linked -> Nat] /\ localSize \in [Linked -> Nat]
    /\ rbuf \in [Linked -> Nat] /\ got \in [Linked -> Nat]
    /\ even \in [Linked -> Seq({"data", "header"})] /\ odd \in [Linked -> Seq({"data", "header"})]
    /\ serializeQ \in [Rank -> SUBSET Place] /\ sendQ \in [Rank -> SUBSET Place]
    /\ deserializeQ \in [Rank -> SUBSET Place] /\ linkSendQ \in [Place -> SUBSET Place]
    /\ toSend \in [Rank -> Int] /\ toReceive \in [Rank -> SUBSET Place]
    /\ toDeliver \in [Place -> Int]

(* The barriers keep the threads of a rank together. *)
MasterWorks == {"send", "receive", "receiveOdd", "serialize", "deliver", "slaveExchangeDone"}
SlaveWorks == {"serialize", "deliver", "slaveExchangeDone"}

Together(r) ==
    \/ AllAt(r, "idle")
    \/ /\ MasterOf(r) \in {"fill", "serializeReady"}
       /\ \A t \in RankThread : t # 0 => xpc[<<r, t>>] = "serializeReady"
    \/ /\ MasterOf(r) \in MasterWorks
       /\ \A t \in RankThread : t # 0 => xpc[<<r, t>>] \in SlaveWorks
    \/ /\ MasterOf(r) \in {"waitall", "reduce", "allDone"}
       /\ \A t \in RankThread : t # 0 => xpc[<<r, t>>] = "allDone"

StageInv == \A r \in Rank : Together(r)

Serializing(p) == xpc[p] \in {"serialize", "send"}

(* A thread has work in its hand only where it works. *)
HandInv ==
    \A p \in Place : hand[p] # None =>
        \/ Serializing(p) /\ hand[p] \in SendTo(p[1])
        \/ xpc[p] = "deliver" /\ hand[p] \in ReceiveFrom(p[1])
        \/ xpc[p] = "receiveOdd" /\ hand[p] \in ReceiveFrom(p[1])

(* The master keeps the header that it has seen until the message is there. *)
HeaderInv == \A p \in Place : xpc[p] = "receiveOdd" => hand[p] # None

-----------------------------------------------------------------------------
(* The sending rank: a message that is not yet sent is in one place, *)
InSerialize(l) == Target(l) \in serializeQ[Source(l)]
InSend(l) == Target(l) \in sendQ[Source(l)]
SerializedBy(l, p) == p[1] = Source(l) /\ Serializing(p) /\ hand[p] = Target(l)

Pending(l) == InSerialize(l) \/ InSend(l) \/ \E p \in Place : SerializedBy(l, p)

SerializeOnce ==
    \A l \in Linked :
        /\ ~(InSerialize(l) /\ InSend(l))
        /\ \A p \in Place : SerializedBy(l, p) =>
            ~InSerialize(l) /\ ~InSend(l) /\ \A q \in Place : SerializedBy(l, q) => q = p

QueuesInv ==
    /\ \A r \in Rank : serializeQ[r] \subseteq SendTo(r) /\ sendQ[r] \subseteq SendTo(r)
    /\ \A r \in Rank : deserializeQ[r] \subseteq ReceiveFrom(r) /\ toReceive[r] \subseteq ReceiveFrom(r)
    /\ \A p \in Place : \A m \in linkSendQ[p] : m \in ReceiveFrom(p[1]) /\ m[2] = p[2]

UnderWay(l) == even[l] # <<>> \/ odd[l] # <<>>

(* and the receive buffer has the message of this exchange unless it is still *)
(* to be sent or under way.                                                   *)
SendInv ==
    \A l \in Linked :
        LET r == Source(l)
        IN  /\ Pending(l) => MasterOf(r) \in {"serializeReady", "send"} /\ ~UnderWay(l)
            /\ UnderWay(l) => MasterOf(r) \notin {"idle", "fill", "reduce", "allDone"}
            /\ MasterOf(r) = "fill" \/ Pending(l) \/ UnderWay(l) => rbuf[l] + 1 = round[r]
            /\ ~(MasterOf(r) = "fill" \/ Pending(l) \/ UnderWay(l)) => rbuf[l] = round[r]
            /\ MasterOf(r) \notin {"idle", "reduce", "allDone"} => squeue[l].id = round[r]
            /\ MasterOf(r) = "serializeReady" => Pending(l)

ToSendInv ==
    \A r \in Rank : MasterOf(r) = "send" =>
        toSend[r] = Cardinality({d \in SendTo(r) : Pending(<<r, d>>)})

(* The connection: what is under way, and the sizes that both ends know. *)
Resized(l) == localSize[l] = remoteSize[l]
AtHeader(l) ==
    /\ even[l] = <<"header">> /\ odd[l] = <<"data">>
    /\ localSize[l] <= remoteSize[l] /\ remoteSize[l] = squeue[l].size
AtOdd(l) ==
    even[l] = <<>> /\ odd[l] = <<"data">> /\ Resized(l) /\ squeue[l].size <= localSize[l]

NetInv ==
    \A l \in Linked :
        \/ even[l] = <<>> /\ odd[l] = <<>> /\ Resized(l)
        \/ even[l] = <<"data">> /\ odd[l] = <<>> /\ Resized(l) /\ squeue[l].size <= localSize[l]
        \/ AtHeader(l)
        \/ AtOdd(l)

-----------------------------------------------------------------------------
(* The receiving rank: what is not yet received, *)
Announced(l) == MasterOf(TargetRank(l)) = "receiveOdd" /\ hand[<<TargetRank(l), 0>>] = Key(l)
Unreceived(l) ==
    \/ MasterOf(TargetRank(l)) \in {"fill", "serializeReady"}
    \/ Key(l) \in toReceive[TargetRank(l)]
    \/ Announced(l)

(* and what is received but not yet delivered, which is in one place. *)
InDeserialize(l) == Key(l) \in deserializeQ[TargetRank(l)]
InLinkSend(l) == Key(l) \in linkSendQ[Target(l)]
DeserializedBy(l, p) == p[1] = TargetRank(l) /\ xpc[p] = "deliver" /\ hand[p] = Key(l)

Undelivered(l) == InDeserialize(l) \/ InLinkSend(l) \/ \E p \in Place : DeserializedBy(l, p)

DeserializeOnce ==
    \A l \in Linked :
        /\ ~(InDeserialize(l) /\ InLinkSend(l))
        /\ \A p \in Place : DeserializedBy(l, p) =>
            ~InDeserialize(l) /\ ~InLinkSend(l) /\ \A q \in Place : DeserializedBy(l, q) => q = p

ReceiveInv ==
    \A l \in Linked :
        LET s == TargetRank(l)
        IN  /\ Unreceived(l) => rbuf[l] + 1 = round[s] /\ ~Undelivered(l)
            /\ ~Unreceived(l) => rbuf[l] = round[s]
            /\ Announced(l) => AtOdd(l) /\ Key(l) \notin toReceive[s]
            /\ toReceive[s] # {} => MasterOf(s) \in {"send", "receive", "receiveOdd"}
            /\ Undelivered(l) => got[l] + 1 = rbuf[l]
            /\ ~Undelivered(l) => got[l] = rbuf[l]

(* What the thread that owns the target has delivered so far. *)
DeliverInv ==
    \A l \in Linked :
        LET s == TargetRank(l)
        IN  /\ xpc[Target(l)] \in {"fill", "serializeReady", "send", "receive", "receiveOdd", "serialize"}
                => got[l] + 1 = round[s]
            /\ xpc[Target(l)] \in {"slaveExchangeDone", "waitall", "reduce", "allDone", "idle"}
                => got[l] = round[s]

LeftFor(p) == {m \in ReceiveFrom(p[1]) : m[2] = p[2] /\ got[At(p[1], m)] # round[p[1]]}

ToDeliverInv ==
    \A p \in Place : xpc[p] = "deliver" => toDeliver[p] = Cardinality(LeftFor(p))

SenderInv == SerializeOnce /\ SendInv /\ ToSendInv
ReceiverInv == DeserializeOnce /\ ReceiveInv /\ DeliverInv /\ ToDeliverInv

ExchangeInd ==
    /\ ExchangeType /\ StageInv /\ HandInv /\ QueuesInv /\ NetInv /\ wrong = FALSE
    /\ SenderInv /\ ReceiverInv

-----------------------------------------------------------------------------
(* Connections and their ends. *)

LEMMA PlaceFacts ==
    /\ \A r \in Rank : <<r, 0>> \in Place /\ <<r, 0>>[1] = r /\ <<r, 0>>[2] = 0
    /\ \A r \in Rank, t \in RankThread : <<r, t>> \in Place /\ <<r, t>>[1] = r /\ <<r, t>>[2] = t
    /\ \A p \in Place : p = <<p[1], p[2]>> /\ p[1] \in Rank /\ p[2] \in RankThread /\ p # None
BY ExchangeAssumption DEF Place, None

LEMMA LinkFacts ==
    ASSUME NEW l \in Linked
    PROVE  /\ Source(l) \in Rank /\ Target(l) \in Place /\ TargetRank(l) \in Rank /\ Key(l) \in Place
           /\ Target(l) # None /\ Key(l) # None /\ Source(l) # TargetRank(l)
           /\ Target(l)[1] = TargetRank(l) /\ Target(l)[2] = Key(l)[2]
           /\ Target(l) = <<TargetRank(l), Key(l)[2]>>
           /\ l = <<Source(l), Target(l)>> /\ l = At(TargetRank(l), Key(l))
           /\ Target(l) \in SendTo(Source(l)) /\ Key(l) \in ReceiveFrom(TargetRank(l))
<1>1. PICK r \in Rank, s \in Rank, t \in RankThread : l = <<r, <<s, t>>>> /\ r # s
  BY ExchangeAssumption
<1>2. Source(l) = r /\ Target(l) = <<s, t>> /\ TargetRank(l) = s /\ Key(l) = <<r, t>>
  BY <1>1 DEF Source, Target, TargetRank, Key
<1>3. /\ Target(l) \in Place /\ Key(l) \in Place /\ Target(l) # None /\ Key(l) # None
      /\ Target(l)[1] = s /\ Target(l)[2] = t /\ Key(l)[1] = r /\ Key(l)[2] = t
  BY <1>2 DEF Place, None
<1>4. l = At(s, Key(l))
  BY <1>1, <1>2, <1>3 DEF At
<1>5. Target(l) \in SendTo(r) /\ Key(l) \in ReceiveFrom(s)
  BY <1>1, <1>2, <1>3 DEF SendTo, ReceiveFrom
<1> QED
  BY <1>1, <1>2, <1>3, <1>4, <1>5

LEMMA SendEnds ==
    ASSUME NEW r \in Rank, NEW d \in SendTo(r)
    PROVE  <<r, d>> \in Linked /\ Source(<<r, d>>) = r /\ Target(<<r, d>>) = d /\ d # None
BY PlaceFacts DEF SendTo, Source, Target

LEMMA ReceiveEnds ==
    ASSUME NEW s \in Rank, NEW m \in ReceiveFrom(s)
    PROVE  /\ At(s, m) \in Linked /\ TargetRank(At(s, m)) = s /\ Key(At(s, m)) = m
           /\ Target(At(s, m)) = <<s, m[2]>> /\ m # None /\ m \in Place
<1>1. m \in Place /\ <<m[1], <<s, m[2]>>>> \in Linked
  BY DEF ReceiveFrom
<1>2. m = <<m[1], m[2]>> /\ m # None
  BY <1>1, PlaceFacts
<1> QED
  BY <1>1, <1>2 DEF At, TargetRank, Key, Target

(* A connection is known by its ends. *)
LEMMA SameLink ==
    ASSUME NEW l \in Linked, NEW k \in Linked,
           \/ Source(l) = Source(k) /\ Target(l) = Target(k)
           \/ TargetRank(l) = TargetRank(k) /\ Key(l) = Key(k)
    PROVE  l = k
BY LinkFacts

LEMMA PlacesFinite == IsFiniteSet(Place)
BY ExchangeAssumption, FS_Product DEF Place

-----------------------------------------------------------------------------
(* What the sending side does not notice. *)

Active == {"receive", "receiveOdd", "serialize", "deliver", "slaveExchangeDone", "waitall"}
Quiet == {"idle", "reduce", "allDone"}

SameSender(r) ==
    \/ MasterOf(r)' = MasterOf(r)
    \/ MasterOf(r) \in Active /\ MasterOf(r)' \in Active
    \/ MasterOf(r) \in Quiet /\ MasterOf(r)' \in Quiet

LEMMA SerializeFrame ==
    ASSUME SerializeOnce,
           \A l \in Linked :
               /\ InSerialize(l)' <=> InSerialize(l)
               /\ InSend(l)' <=> InSend(l)
               /\ \A p \in Place : SerializedBy(l, p)' <=> SerializedBy(l, p)
    PROVE  SerializeOnce' /\ \A l \in Linked : Pending(l)' <=> Pending(l)
<1>1. SerializeOnce'
  BY DEF SerializeOnce
<1>2. \A l \in Linked : Pending(l)' <=> Pending(l)
  BY DEF Pending
<1> QED
  BY <1>1, <1>2

LEMMA SenderFrame ==
    ASSUME SenderInv, UNCHANGED <<rbuf, round, squeue, toSend>>,
           \A r \in Rank : SameSender(r),
           SerializeOnce', \A l \in Linked : Pending(l)' <=> Pending(l),
           \A l \in Linked : UnderWay(l)' <=> UnderWay(l)
    PROVE  SenderInv'
<1>1. \A l \in Linked : Pending(l)' <=> Pending(l)
  OBVIOUS
<1>2. SerializeOnce'
  OBVIOUS
<1>3. SendInv'
  <2>1. ASSUME NEW l \in Linked
        PROVE  /\ Pending(l)' => MasterOf(Source(l))' \in {"serializeReady", "send"} /\ ~UnderWay(l)'
               /\ UnderWay(l)' => MasterOf(Source(l))' \notin {"idle", "fill", "reduce", "allDone"}
               /\ MasterOf(Source(l))' = "fill" \/ Pending(l)' \/ UnderWay(l)'
                    => rbuf[l] + 1 = round[Source(l)]
               /\ ~(MasterOf(Source(l))' = "fill" \/ Pending(l)' \/ UnderWay(l)')
                    => rbuf[l] = round[Source(l)]
               /\ MasterOf(Source(l))' \notin {"idle", "reduce", "allDone"}
                    => squeue[l].id = round[Source(l)]
               /\ MasterOf(Source(l))' = "serializeReady" => Pending(l)'
    <3>1. Source(l) \in Rank /\ SameSender(Source(l))
      BY LinkFacts
    <3> QED
      BY <1>1, <3>1 DEF SenderInv, SendInv, SameSender, Active, Quiet
  <2> QED
    BY <2>1 DEF SendInv
<1>4. ToSendInv'
  <2>1. ASSUME NEW r \in Rank, MasterOf(r)' = "send"
        PROVE  toSend[r] = Cardinality({d \in SendTo(r) : Pending(<<r, d>>)'})
    <3>1. MasterOf(r) = "send"
      BY <2>1 DEF SameSender, Active, Quiet
    <3>2. {d \in SendTo(r) : Pending(<<r, d>>)'} = {d \in SendTo(r) : Pending(<<r, d>>)}
      BY <1>1, SendEnds
    <3> QED
      BY <3>1, <3>2 DEF SenderInv, ToSendInv
  <2> QED
    BY <2>1 DEF ToSendInv
<1> QED
  BY <1>2, <1>3, <1>4 DEF SenderInv

(* What the receiving side does not notice. *)

NotDelivered == {"fill", "serializeReady", "send", "receive", "receiveOdd", "serialize"}
AllDelivered == {"slaveExchangeDone", "waitall", "reduce", "allDone", "idle"}

SameReceiver(p) ==
    \/ xpc'[p] = xpc[p]
    \/ xpc[p] \in NotDelivered /\ xpc'[p] \in NotDelivered
    \/ xpc[p] \in AllDelivered /\ xpc'[p] \in AllDelivered

LEMMA DeserializeFrame ==
    ASSUME DeserializeOnce,
           \A l \in Linked :
               /\ InDeserialize(l)' <=> InDeserialize(l)
               /\ InLinkSend(l)' <=> InLinkSend(l)
               /\ \A p \in Place : DeserializedBy(l, p)' <=> DeserializedBy(l, p)
    PROVE  DeserializeOnce' /\ \A l \in Linked : Undelivered(l)' <=> Undelivered(l)
<1>1. DeserializeOnce'
  BY DEF DeserializeOnce
<1>2. \A l \in Linked : Undelivered(l)' <=> Undelivered(l)
  BY DEF Undelivered
<1> QED
  BY <1>1, <1>2

LEMMA ReceiveFrame ==
    ASSUME ReceiveInv, UNCHANGED <<rbuf, got, round, toReceive>>,
           \A r \in Rank : toReceive[r] # {} => MasterOf(r)' \in {"send", "receive", "receiveOdd"},
           \A l \in Linked : Undelivered(l)' <=> Undelivered(l),
           \A l \in Linked :
               /\ Unreceived(l)' <=> Unreceived(l)
               /\ Announced(l)' => Announced(l)
               /\ AtOdd(l) => AtOdd(l)'
    PROVE  ReceiveInv'
<1>1. ASSUME NEW l \in Linked
      PROVE  /\ Unreceived(l)' => rbuf[l] + 1 = round[TargetRank(l)] /\ ~Undelivered(l)'
             /\ ~Unreceived(l)' => rbuf[l] = round[TargetRank(l)]
             /\ Announced(l)' => AtOdd(l)' /\ Key(l) \notin toReceive[TargetRank(l)]
             /\ toReceive[TargetRank(l)] # {}
                  => MasterOf(TargetRank(l))' \in {"send", "receive", "receiveOdd"}
             /\ Undelivered(l)' => got[l] + 1 = rbuf[l]
             /\ ~Undelivered(l)' => got[l] = rbuf[l]
  <2>1. TargetRank(l) \in Rank
    BY LinkFacts
  <2> QED
    BY <2>1 DEF ReceiveInv
<1> QED
  BY <1>1 DEF ReceiveInv

LEMMA DeliverFrame ==
    ASSUME DeliverInv, ToDeliverInv, UNCHANGED <<got, round, toDeliver>>,
           \A p \in Place : SameReceiver(p)
    PROVE  DeliverInv' /\ ToDeliverInv'
<1>1. DeliverInv'
  <2>1. ASSUME NEW l \in Linked
        PROVE  /\ xpc'[Target(l)] \in NotDelivered => got[l] + 1 = round[TargetRank(l)]
               /\ xpc'[Target(l)] \in AllDelivered => got[l] = round[TargetRank(l)]
    <3>1. Target(l) \in Place /\ SameReceiver(Target(l))
      BY LinkFacts
    <3> QED
      BY <3>1 DEF DeliverInv, SameReceiver, NotDelivered, AllDelivered
  <2> QED
    BY <2>1 DEF DeliverInv, NotDelivered, AllDelivered
<1>2. ToDeliverInv'
  <2>1. \A p \in Place : xpc'[p] = "deliver" => xpc[p] = "deliver"
    BY DEF SameReceiver, NotDelivered, AllDelivered
  <2> QED
    BY <2>1 DEF ToDeliverInv, LeftFor
<1> QED
  BY <1>1, <1>2

(* The receives that are left are those of a master that receives. *)
LEMMA Receiving ==
    ASSUME ExchangeInd, NEW r \in Rank, toReceive[r] # {}
    PROVE  MasterOf(r) \in {"send", "receive", "receiveOdd"}
<1>1. PICK m \in ReceiveFrom(r) : m \in toReceive[r]
  BY DEF ExchangeInd, QueuesInv
<1>2. At(r, m) \in Linked /\ TargetRank(At(r, m)) = r
  BY <1>1, ReceiveEnds
<1> QED
  BY <1>2 DEF ExchangeInd, ReceiverInv, ReceiveInv

-----------------------------------------------------------------------------
(* Serialization. *)

(* Work that a serializing thread takes or puts down is not noticed on the *)
(* receiving side.                                                         *)
LEMMA SerializeQuiet ==
    ASSUME ExchangeInd, NEW p \in Place, Serializing(p), NEW v,
           hand' = [hand EXCEPT ![p] = v],
           UNCHANGED <<xpc, round, squeue, remoteSize, localSize, rbuf, even, odd, deserializeQ,
                       linkSendQ, toSend, toReceive, toDeliver, got, wrong>>
    PROVE  /\ StageInv' /\ NetInv' /\ wrong' = FALSE /\ ReceiverInv'
           /\ hand'[p] = v /\ \A q \in Place : q # p => hand'[q] = hand[q]
<1>1. /\ hand \in [Place -> Place \cup {None}] /\ StageInv /\ NetInv /\ wrong = FALSE /\ ReceiverInv
  BY DEF ExchangeInd, ExchangeType
<1>2. hand'[p] = v /\ \A q \in Place : q # p => hand'[q] = hand[q]
  BY <1>1
<1>3. StageInv'
  BY <1>1 DEF StageInv, Together, MasterOf, AllAt
<1>4. NetInv'
  BY <1>1 DEF NetInv, Resized, AtHeader, AtOdd
<1>5. ASSUME NEW l \in Linked
      PROVE  /\ InDeserialize(l)' <=> InDeserialize(l)
             /\ InLinkSend(l)' <=> InLinkSend(l)
             /\ \A q \in Place : DeserializedBy(l, q)' <=> DeserializedBy(l, q)
  BY <1>2 DEF InDeserialize, InLinkSend, DeserializedBy, Serializing
<1>6. ASSUME NEW l \in Linked
      PROVE  (Announced(l)' <=> Announced(l)) /\ (Unreceived(l)' <=> Unreceived(l)) /\ (AtOdd(l) => AtOdd(l)')
  <2>1. <<TargetRank(l), 0>> \in Place
    BY LinkFacts, PlaceFacts
  <2>2. Announced(l)' <=> Announced(l)
    BY <1>2, <2>1 DEF Announced, MasterOf, Serializing
  <2> QED
    BY <2>2 DEF Unreceived, MasterOf, AtOdd, Resized
<1>7. DeserializeOnce' /\ \A l \in Linked : Undelivered(l)' <=> Undelivered(l)
  BY <1>1, <1>5, DeserializeFrame DEF ReceiverInv
<1>8. \A q \in Place : SameReceiver(q)
  BY DEF SameReceiver
<1>9. \A r \in Rank : toReceive[r] # {} => MasterOf(r)' \in {"send", "receive", "receiveOdd"}
  BY Receiving DEF MasterOf
<1>10. ReceiveInv'
  BY <1>1, <1>6, <1>7, <1>9, ReceiveFrame DEF ReceiverInv
<1>11. DeliverInv' /\ ToDeliverInv'
  BY <1>1, <1>8, DeliverFrame DEF ReceiverInv
<1>12. ReceiverInv'
  BY <1>7, <1>10, <1>11 DEF ReceiverInv
<1> QED
  BY <1>1, <1>2, <1>3, <1>4, <1>12

LEMMA TakeSerializeStep ==
    ASSUME ExchangeInd, NEW r \in Rank, NEW t \in RankThread, TakeSerialize(r, t)
    PROVE  ExchangeInd'
<1>1. /\ ExchangeType /\ StageInv /\ HandInv /\ QueuesInv /\ NetInv /\ wrong = FALSE
      /\ SenderInv /\ ReceiverInv
  BY DEF ExchangeInd
<1>2. PICK p \in Place : p = <<r, t>> /\ p[1] = r
  BY PlaceFacts
<1>3. PICK d \in serializeQ[r] :
          /\ serializeQ' = [serializeQ EXCEPT ![r] = @ \ {d}]
          /\ hand' = [hand EXCEPT ![p] = d]
  BY <1>2 DEF TakeSerialize
<1>4. /\ hand[p] = None /\ Serializing(p)
      /\ UNCHANGED <<xpc, round, squeue, remoteSize, localSize, rbuf, even, odd, sendQ, deserializeQ,
                     linkSendQ, toSend, toReceive, toDeliver, got, wrong>>
  BY <1>2 DEF TakeSerialize, Serializing, buffers, net, counts
<1>5. d \in SendTo(r) /\ d \in Place /\ d # None
  BY <1>1, SendEnds DEF QueuesInv, ExchangeType
<1>6. /\ StageInv' /\ NetInv' /\ wrong' = FALSE /\ ReceiverInv'
      /\ hand'[p] = d /\ \A q \in Place : q # p => hand'[q] = hand[q]
  BY <1>3, <1>4, SerializeQuiet
<1>7. /\ serializeQ'[r] = serializeQ[r] \ {d} /\ \A s \in Rank : s # r => serializeQ'[s] = serializeQ[s]
      /\ serializeQ' \in [Rank -> SUBSET Place]
  BY <1>1, <1>3 DEF ExchangeType
<1>8. ExchangeType'
  <2>1. hand' \in [Place -> Place \cup {None}]
    BY <1>1, <1>3, <1>5 DEF ExchangeType
  <2> QED
    BY <1>1, <1>4, <1>7, <2>1 DEF ExchangeType
<1>9. HandInv'
  BY <1>1, <1>2, <1>4, <1>5, <1>6 DEF HandInv, Serializing
<1>10. QueuesInv'
  BY <1>1, <1>4, <1>7 DEF QueuesInv
<1>11. PICK k \in Linked : Source(k) = r /\ Target(k) = d
  BY <1>5, SendEnds
<1>12. ASSUME NEW l \in Linked
       PROVE  /\ InSerialize(l)' <=> InSerialize(l) /\ l # k
              /\ InSend(l)' <=> InSend(l)
              /\ SerializedBy(l, p)' <=> l = k
              /\ ~SerializedBy(l, p)
              /\ \A q \in Place : q # p => (SerializedBy(l, q)' <=> SerializedBy(l, q))
  <2>1. Source(l) \in Rank /\ Target(l) # None /\ (Source(l) = r /\ Target(l) = d <=> l = k)
    BY <1>11, LinkFacts, SameLink
  <2> QED
    BY <1>2, <1>4, <1>6, <1>7, <2>1 DEF InSerialize, InSend, SerializedBy, Serializing
<1>13. InSerialize(k)
  BY <1>3, <1>11 DEF InSerialize
<1>14. SerializeOnce'
  BY <1>1, <1>12, <1>13 DEF SerializeOnce, SenderInv
<1>15. \A l \in Linked : Pending(l)' <=> Pending(l)
  BY <1>12, <1>13 DEF Pending
<1>16. \A l \in Linked : UnderWay(l)' <=> UnderWay(l)
  BY <1>4 DEF UnderWay
<1>17. \A s \in Rank : SameSender(s)
  BY <1>4 DEF SameSender, MasterOf
<1>18. SenderInv'
  BY <1>1, <1>4, <1>14, <1>15, <1>16, <1>17, SenderFrame
<1> QED
  BY <1>6, <1>8, <1>9, <1>10, <1>18 DEF ExchangeInd

LEMMA PutSendStep ==
    ASSUME ExchangeInd, NEW r \in Rank, NEW t \in RankThread, PutSend(r, t)
    PROVE  ExchangeInd'
<1>1. /\ ExchangeType /\ StageInv /\ HandInv /\ QueuesInv /\ NetInv /\ wrong = FALSE
      /\ SenderInv /\ ReceiverInv
  BY DEF ExchangeInd
<1>2. PICK p \in Place : p = <<r, t>> /\ p[1] = r
  BY PlaceFacts
<1>3. PICK d : d = hand[p]
  OBVIOUS
<1>4. /\ d # None /\ Serializing(p)
      /\ sendQ' = [sendQ EXCEPT ![r] = @ \cup {d}] /\ hand' = [hand EXCEPT ![p] = None]
      /\ UNCHANGED <<xpc, round, squeue, remoteSize, localSize, rbuf, even, odd, serializeQ, deserializeQ,
                     linkSendQ, toSend, toReceive, toDeliver, got, wrong>>
  BY <1>2, <1>3 DEF PutSend, Serializing, buffers, net, counts
<1>5. d \in SendTo(r) /\ d \in Place
  BY <1>1, <1>2, <1>3, <1>4 DEF HandInv, SendTo, Serializing
<1>6. /\ StageInv' /\ NetInv' /\ wrong' = FALSE /\ ReceiverInv'
      /\ hand'[p] = None /\ \A q \in Place : q # p => hand'[q] = hand[q]
  BY <1>4, SerializeQuiet
<1>7. /\ sendQ'[r] = sendQ[r] \cup {d} /\ \A s \in Rank : s # r => sendQ'[s] = sendQ[s]
      /\ sendQ' \in [Rank -> SUBSET Place]
  BY <1>1, <1>4, <1>5 DEF ExchangeType
<1>8. ExchangeType'
  <2>1. hand' \in [Place -> Place \cup {None}]
    BY <1>1, <1>4 DEF ExchangeType
  <2> QED
    BY <1>1, <1>4, <1>7, <2>1 DEF ExchangeType
<1>9. HandInv'
  BY <1>1, <1>4, <1>6 DEF HandInv, Serializing
<1>10. QueuesInv'
  BY <1>1, <1>4, <1>5, <1>7 DEF QueuesInv
<1>11. PICK k \in Linked : Source(k) = r /\ Target(k) = d
  BY <1>5, SendEnds
<1>12. ASSUME NEW l \in Linked
       PROVE  /\ InSerialize(l)' <=> InSerialize(l)
              /\ InSend(l)' <=> InSend(l) \/ l = k
              /\ ~SerializedBy(l, p)'
              /\ SerializedBy(l, p) <=> l = k
              /\ \A q \in Place : q # p => (SerializedBy(l, q)' <=> SerializedBy(l, q))
  <2>1. Source(l) \in Rank /\ Target(l) # None /\ (Source(l) = r /\ Target(l) = d <=> l = k)
    BY <1>11, LinkFacts, SameLink
  <2> QED
    BY <1>2, <1>3, <1>4, <1>6, <1>7, <2>1 DEF InSerialize, InSend, SerializedBy, Serializing
<1>13. SerializeOnce'
  BY <1>1, <1>12 DEF SerializeOnce, SenderInv
<1>14. \A l \in Linked : Pending(l)' <=> Pending(l)
  BY <1>12 DEF Pending
<1>15. \A l \in Linked : UnderWay(l)' <=> UnderWay(l)
  BY <1>4 DEF UnderWay
<1>16. \A s \in Rank : SameSender(s)
  BY <1>4 DEF SameSender, MasterOf
<1>17. SenderInv'
  BY <1>1, <1>4, <1>13, <1>14, <1>15, <1>16, SenderFrame
<1> QED
  BY <1>6, <1>8, <1>9, <1>10, <1>17 DEF ExchangeInd

-----------------------------------------------------------------------------
(* Threads that move on with nothing in their hands. *)

LEMMA HandsKept ==
    ASSUME ExchangeInd, \A p \in Place : xpc'[p] = xpc[p] \/ hand[p] = None,
           UNCHANGED <<hand, deserializeQ, linkSendQ>>
    PROVE  /\ HandInv'
           /\ \A l \in Linked, p \in Place : SerializedBy(l, p)' <=> SerializedBy(l, p)
           /\ DeserializeOnce' /\ \A l \in Linked : Undelivered(l)' <=> Undelivered(l)
           /\ \A l \in Linked : Announced(l)' <=> Announced(l)
<1>1. HandInv /\ DeserializeOnce
  BY DEF ExchangeInd, ReceiverInv
<1>2. HandInv'
  BY <1>1 DEF HandInv, Serializing
<1>3. ASSUME NEW l \in Linked
      PROVE  /\ \A p \in Place : SerializedBy(l, p)' <=> SerializedBy(l, p)
             /\ InDeserialize(l)' <=> InDeserialize(l)
             /\ InLinkSend(l)' <=> InLinkSend(l)
             /\ \A p \in Place : DeserializedBy(l, p)' <=> DeserializedBy(l, p)
  <2>1. Target(l) # None /\ Key(l) # None
    BY LinkFacts
  <2>2. \A p \in Place : SerializedBy(l, p)' <=> SerializedBy(l, p)
    BY <2>1 DEF SerializedBy, Serializing
  <2>3. \A p \in Place : DeserializedBy(l, p)' <=> DeserializedBy(l, p)
    BY <2>1 DEF DeserializedBy
  <2> QED
    BY <2>2, <2>3 DEF InDeserialize, InLinkSend
<1>4. DeserializeOnce' /\ \A l \in Linked : Undelivered(l)' <=> Undelivered(l)
  BY <1>1, <1>3, DeserializeFrame
<1>5. ASSUME NEW l \in Linked PROVE Announced(l)' <=> Announced(l)
  <2>1. <<TargetRank(l), 0>> \in Place /\ Key(l) # None
    BY LinkFacts, PlaceFacts
  <2> QED
    BY <2>1 DEF Announced, MasterOf
<1> QED
  BY <1>2, <1>3, <1>4, <1>5

LEMMA EmptyHanded ==
    ASSUME ExchangeInd, \A p \in Place : xpc'[p] = xpc[p] \/ hand[p] = None,
           UNCHANGED <<hand, even, odd, serializeQ, sendQ, deserializeQ, linkSendQ>>
    PROVE  /\ HandInv'
           /\ SerializeOnce' /\ \A l \in Linked : Pending(l)' <=> Pending(l)
           /\ \A l \in Linked : UnderWay(l)' <=> UnderWay(l)
<1>1. SerializeOnce
  BY DEF ExchangeInd, SenderInv
<1>2. HandInv' /\ \A l \in Linked, p \in Place : SerializedBy(l, p)' <=> SerializedBy(l, p)
  BY HandsKept
<1>3. \A l \in Linked : /\ InSerialize(l)' <=> InSerialize(l)
                        /\ InSend(l)' <=> InSend(l)
                        /\ UnderWay(l)' <=> UnderWay(l)
  BY DEF InSerialize, InSend, UnderWay
<1>4. SerializeOnce' /\ \A l \in Linked : Pending(l)' <=> Pending(l)
  BY <1>1, <1>2, <1>3, SerializeFrame
<1> QED
  BY <1>2, <1>3, <1>4

(* Moves that neither side of a connection takes note of. *)
SameReceives(r) ==
    /\ MasterOf(r) \in {"fill", "serializeReady"} <=> MasterOf(r)' \in {"fill", "serializeReady"}
    /\ toReceive[r] # {} => MasterOf(r)' \in {"send", "receive", "receiveOdd"}

LEMMA MoveReceives ==
    ASSUME ExchangeInd, \A p \in Place : xpc'[p] = xpc[p] \/ hand[p] = None,
           UNCHANGED <<hand, even, odd, deserializeQ, linkSendQ, rbuf, got, round, toReceive,
                       localSize, remoteSize>>,
           \A l \in Linked : squeue'[l] = squeue[l] \/ ~UnderWay(l),
           \A r \in Rank : SameReceives(r)
    PROVE  DeserializeOnce' /\ ReceiveInv'
<1>1. /\ DeserializeOnce' /\ \A l \in Linked : Undelivered(l)' <=> Undelivered(l)
      /\ \A l \in Linked : Announced(l)' <=> Announced(l)
  BY HandsKept
<1>2. ASSUME NEW l \in Linked PROVE (Unreceived(l)' <=> Unreceived(l)) /\ (AtOdd(l) => AtOdd(l)')
  <2>1. TargetRank(l) \in Rank /\ SameReceives(TargetRank(l))
    BY LinkFacts
  <2>2. Unreceived(l)' <=> Unreceived(l)
    BY <1>1, <2>1 DEF Unreceived, SameReceives
  <2>3. AtOdd(l) => AtOdd(l)'
    BY DEF AtOdd, Resized, UnderWay
  <2> QED
    BY <2>2, <2>3
<1>3. ReceiveInv
  BY DEF ExchangeInd, ReceiverInv
<1>4. ReceiveInv'
  BY <1>1, <1>2, <1>3, ReceiveFrame DEF SameReceives
<1> QED
  BY <1>1, <1>4

LEMMA MoveStep ==
    ASSUME ExchangeInd, xpc' \in [Place -> Stages], StageInv',
           \A p \in Place : xpc'[p] = xpc[p] \/ (hand[p] = None /\ SameReceiver(p)),
           \A r \in Rank : SameSender(r) /\ SameReceives(r),
           UNCHANGED <<hand, round, squeue, remoteSize, localSize, rbuf, even, odd, serializeQ, sendQ,
                       deserializeQ, linkSendQ, toSend, toReceive, toDeliver, got, wrong>>
    PROVE  ExchangeInd'
<1>1. /\ ExchangeType /\ StageInv /\ HandInv /\ QueuesInv /\ NetInv /\ wrong = FALSE
      /\ SenderInv /\ ReceiverInv
  BY DEF ExchangeInd
<1>2. /\ HandInv' /\ SerializeOnce' /\ \A l \in Linked : Pending(l)' <=> Pending(l)
      /\ \A l \in Linked : UnderWay(l)' <=> UnderWay(l)
  BY EmptyHanded
<1>3. ExchangeType'
  BY <1>1 DEF ExchangeType
<1>4. QueuesInv' /\ NetInv' /\ wrong' = FALSE
  BY <1>1 DEF QueuesInv, NetInv, Resized, AtHeader, AtOdd
<1>5. SenderInv'
  BY <1>1, <1>2, SenderFrame
<1>6. DeserializeOnce' /\ ReceiveInv'
  BY MoveReceives
<1>7. DeliverInv' /\ ToDeliverInv'
  <2>1. \A p \in Place : SameReceiver(p)
    BY DEF SameReceiver
  <2> QED
    BY <1>1, <2>1, DeliverFrame DEF ReceiverInv
<1> QED
  BY <1>2, <1>3, <1>4, <1>5, <1>6, <1>7 DEF ExchangeInd, ReceiverInv

(* One thread moves on. *)
LEMMA OneMoves ==
    ASSUME ExchangeType, StageInv, NEW p \in Place, NEW b \in Stages,
           xpc' = [xpc EXCEPT ![p] = b],
           \/ p[2] = 0 /\ xpc[p] \in {"fill", "serializeReady"} /\ b \in {"fill", "serializeReady"}
           \/ p[2] = 0 /\ xpc[p] \in MasterWorks /\ b \in MasterWorks
           \/ p[2] = 0 /\ xpc[p] \in {"waitall", "reduce"} /\ b \in {"waitall", "reduce", "allDone"}
           \/ p[2] # 0 /\ xpc[p] \in SlaveWorks /\ b \in SlaveWorks
    PROVE  /\ xpc' \in [Place -> Stages] /\ xpc'[p] = b
           /\ \A q \in Place : q # p => xpc'[q] = xpc[q]
           /\ \A r \in Rank : r # p[1] \/ p[2] # 0 => MasterOf(r)' = MasterOf(r)
           /\ p[2] = 0 => MasterOf(p[1]) = xpc[p] /\ MasterOf(p[1])' = b
           /\ StageInv'
<1>1. /\ xpc' \in [Place -> Stages] /\ xpc'[p] = b
      /\ \A q \in Place : q # p => xpc'[q] = xpc[q]
  BY DEF ExchangeType
<1>2. PICK s \in Rank, u \in RankThread : p = <<s, u>> /\ p[1] = s /\ p[2] = u
  BY PlaceFacts
<1>3. \A r \in Rank, t \in RankThread : r # s \/ t # u => xpc'[<<r, t>>] = xpc[<<r, t>>]
  BY <1>1, <1>2, PlaceFacts
<1>4. 0 \in RankThread
  BY ExchangeAssumption
<1>5. /\ \A r \in Rank : r # s \/ u # 0 => MasterOf(r)' = MasterOf(r)
      /\ u = 0 => MasterOf(s) = xpc[p] /\ MasterOf(s)' = b
  BY <1>1, <1>2, <1>3, <1>4 DEF MasterOf
<1>6. ASSUME NEW r \in Rank, r # s PROVE Together(r)'
  <2>1. \A t \in RankThread : xpc'[<<r, t>>] = xpc[<<r, t>>]
    BY <1>3, <1>6
  <2>2. MasterOf(r)' = MasterOf(r)
    BY <1>5, <1>6
  <2> QED
    BY <2>1, <2>2 DEF StageInv, Together, AllAt
<1>7. Together(s)'
  <2>1. CASE u = 0
    <3>1. \A t \in RankThread : t # 0 => xpc'[<<s, t>>] = xpc[<<s, t>>]
      BY <1>3, <2>1
    <3>2. Together(s) /\ MasterOf(s) = xpc[p] /\ MasterOf(s)' = b /\ MasterOf(s) # "idle"
      BY <1>2, <1>5, <2>1 DEF StageInv, MasterWorks
    <3>3. ~AllAt(s, "idle")
      BY <1>4, <3>2 DEF AllAt, MasterOf
    <3> QED
      BY <1>2, <2>1, <3>1, <3>2, <3>3 DEF Together, MasterWorks
  <2>2. CASE u # 0
    <3>1. MasterOf(s)' = MasterOf(s) /\ Together(s)
      BY <1>5, <2>2 DEF StageInv
    <3>2. xpc[<<s, u>>] \in SlaveWorks /\ xpc'[<<s, u>>] \in SlaveWorks
      BY <1>1, <1>2, <2>2
    <3>3. /\ MasterOf(s) \in MasterWorks
          /\ \A t \in RankThread : t # 0 => xpc[<<s, t>>] \in SlaveWorks
      BY <2>2, <3>1, <3>2 DEF Together, AllAt, SlaveWorks
    <3>4. \A t \in RankThread : t # 0 => xpc'[<<s, t>>] \in SlaveWorks
      BY <1>3, <3>2, <3>3
    <3> QED
      BY <3>1, <3>3, <3>4 DEF Together
  <2> QED
    BY <2>1, <2>2
<1> QED
  BY <1>1, <1>2, <1>5, <1>6, <1>7 DEF StageInv

(* At a barrier all threads of a rank have empty hands. *)
LEMMA AllTogether ==
    ASSUME ExchangeInd, NEW r \in Rank, NEW b, AllAt(r, b)
    PROVE  /\ \A q \in Place : q[1] = r => xpc[q] = b
           /\ MasterOf(r) = b
           /\ b \notin {"serialize", "send", "deliver", "receiveOdd"} =>
                \A q \in Place : q[1] = r => hand[q] = None
<1>1. \A q \in Place : q[1] = r => xpc[q] = b
  BY PlaceFacts DEF AllAt
<1>2. MasterOf(r) = b
  BY <1>1, PlaceFacts DEF MasterOf
<1>3. b \notin {"serialize", "send", "deliver", "receiveOdd"} =>
        \A q \in Place : q[1] = r => hand[q] = None
  BY <1>1 DEF ExchangeInd, HandInv, Serializing
<1> QED
  BY <1>1, <1>2, <1>3

LEMMA ReceiveDoneStep ==
    ASSUME ExchangeInd, NEW r \in Rank, ReceiveDone(r)
    PROVE  ExchangeInd'
<1>1. ExchangeType /\ StageInv /\ HandInv
  BY DEF ExchangeInd
<1>2. PICK p \in Place : p = <<r, 0>> /\ p[1] = r /\ p[2] = 0
  BY PlaceFacts
<1>3. /\ xpc[p] = "receive" /\ toReceive[r] = {} /\ xpc' = [xpc EXCEPT ![p] = "serialize"]
      /\ UNCHANGED <<hand, round, squeue, remoteSize, localSize, rbuf, even, odd, serializeQ, sendQ,
                     deserializeQ, linkSendQ, toSend, toReceive, toDeliver, got, wrong>>
  BY <1>2 DEF ReceiveDone, Goto, buffers, net, queues, counts
<1>4. /\ xpc' \in [Place -> Stages] /\ xpc'[p] = "serialize"
      /\ \A q \in Place : q # p => xpc'[q] = xpc[q]
      /\ MasterOf(r) = "receive" /\ MasterOf(r)' = "serialize"
      /\ \A s \in Rank : s # r => MasterOf(s)' = MasterOf(s)
      /\ StageInv'
  BY <1>1, <1>2, <1>3, OneMoves DEF Stages, MasterWorks
<1>5. \A q \in Place : xpc'[q] = xpc[q] \/ (hand[q] = None /\ SameReceiver(q))
  BY <1>1, <1>3, <1>4 DEF HandInv, Serializing, SameReceiver, NotDelivered
<1>6. \A s \in Rank : SameSender(s) /\ SameReceives(s)
  BY <1>3, <1>4, Receiving DEF SameSender, SameReceives, Active
<1> QED
  BY <1>3, <1>4, <1>5, <1>6, MoveStep

LEMMA SlaveExchangeDoneStep ==
    ASSUME ExchangeInd, NEW r \in Rank, SlaveExchangeDone(r)
    PROVE  ExchangeInd'
<1>1. ExchangeType /\ StageInv
  BY DEF ExchangeInd
<1>2. /\ AllAt(r, "slaveExchangeDone")
      /\ xpc' = [p \in Place |-> IF p[1] = r THEN IF p[2] = 0 THEN "waitall" ELSE "allDone" ELSE xpc[p]]
      /\ UNCHANGED <<hand, round, squeue, remoteSize, localSize, rbuf, even, odd, serializeQ, sendQ,
                     deserializeQ, linkSendQ, toSend, toReceive, toDeliver, got, wrong>>
  BY DEF SlaveExchangeDone, MoveAll, buffers, net, queues, counts
<1>3. \A q \in Place : q[1] = r => xpc[q] = "slaveExchangeDone" /\ hand[q] = None
  BY <1>2, AllTogether
<1>4. /\ xpc' \in [Place -> Stages]
      /\ \A q \in Place : q[1] # r => xpc'[q] = xpc[q]
      /\ \A q \in Place : q[1] = r => xpc'[q] = IF q[2] = 0 THEN "waitall" ELSE "allDone"
  BY <1>1, <1>2 DEF ExchangeType, Stages
<1>5. \A q \in Place : xpc'[q] = xpc[q] \/ (hand[q] = None /\ SameReceiver(q))
  BY <1>3, <1>4 DEF SameReceiver, AllDelivered
<1>6. /\ MasterOf(r) = "slaveExchangeDone" /\ MasterOf(r)' = "waitall"
      /\ \A t \in RankThread : t # 0 => xpc'[<<r, t>>] = "allDone"
      /\ \A s \in Rank : s # r => MasterOf(s)' = MasterOf(s)
      /\ \A s \in Rank, t \in RankThread : s # r => xpc'[<<s, t>>] = xpc[<<s, t>>]
  BY <1>3, <1>4, PlaceFacts DEF MasterOf
<1>7. StageInv'
  <2>1. Together(r)'
    BY <1>6 DEF Together, AllAt
  <2>2. ASSUME NEW s \in Rank, s # r PROVE Together(s)'
    BY <1>1, <1>6, <2>2 DEF StageInv, Together, AllAt
  <2> QED
    BY <2>1, <2>2 DEF StageInv
<1>8. \A s \in Rank : SameSender(s) /\ SameReceives(s)
  BY <1>2, <1>6, Receiving DEF SameSender, SameReceives, Active
<1> QED
  BY <1>2, <1>4, <1>5, <1>7, <1>8, MoveStep

LEMMA AllDoneStep ==
    ASSUME ExchangeInd, NEW r \in Rank, AllDone(r)
    PROVE  ExchangeInd'
<1>1. ExchangeType /\ StageInv
  BY DEF ExchangeInd
<1>2. /\ AllAt(r, "allDone")
      /\ xpc' = [p \in Place |-> IF p[1] = r THEN "idle" ELSE xpc[p]]
      /\ UNCHANGED <<hand, round, squeue, remoteSize, localSize, rbuf, even, odd, serializeQ, sendQ,
                     deserializeQ, linkSendQ, toSend, toReceive, toDeliver, got, wrong>>
  BY DEF AllDone, MoveAll, buffers, net, queues, counts
<1>3. \A q \in Place : q[1] = r => xpc[q] = "allDone" /\ hand[q] = None
  BY <1>2, AllTogether
<1>4. /\ xpc' \in [Place -> Stages]
      /\ \A q \in Place : q[1] # r => xpc'[q] = xpc[q]
      /\ \A q \in Place : q[1] = r => xpc'[q] = "idle"
  BY <1>1, <1>2 DEF ExchangeType, Stages
<1>5. \A q \in Place : xpc'[q] = xpc[q] \/ (hand[q] = None /\ SameReceiver(q))
  BY <1>3, <1>4 DEF SameReceiver, AllDelivered
<1>6. /\ MasterOf(r) = "allDone" /\ MasterOf(r)' = "idle"
      /\ \A t \in RankThread : xpc'[<<r, t>>] = "idle"
      /\ \A s \in Rank : s # r => MasterOf(s)' = MasterOf(s)
      /\ \A s \in Rank, t \in RankThread : s # r => xpc'[<<s, t>>] = xpc[<<s, t>>]
  BY <1>3, <1>4, PlaceFacts DEF MasterOf
<1>7. StageInv'
  <2>1. Together(r)'
    BY <1>6 DEF Together, AllAt
  <2>2. ASSUME NEW s \in Rank, s # r PROVE Together(s)'
    BY <1>1, <1>6, <2>2 DEF StageInv, Together, AllAt
  <2> QED
    BY <2>1, <2>2 DEF StageInv
<1>8. \A s \in Rank : SameSender(s) /\ SameReceives(s)
  BY <1>2, <1>6, Receiving DEF SameSender, SameReceives, Quiet
<1> QED
  BY <1>2, <1>4, <1>5, <1>7, <1>8, MoveStep

LEMMA ReduceStep ==
    ASSUME ExchangeInd, Reduce
    PROVE  ExchangeInd'
<1>1. ExchangeType /\ StageInv /\ HandInv
  BY DEF ExchangeInd
<1>2. /\ \A r \in Rank : xpc[<<r, 0>>] = "reduce"
      /\ xpc' = [p \in Place |-> IF p[2] = 0 THEN "allDone" ELSE xpc[p]]
      /\ UNCHANGED <<hand, round, squeue, remoteSize, localSize, rbuf, even, odd, serializeQ, sendQ,
                     deserializeQ, linkSendQ, toSend, toReceive, toDeliver, got, wrong>>
  BY DEF Reduce, buffers, net, queues, counts
<1>3. \A q \in Place : q[2] = 0 => xpc[q] = "reduce" /\ hand[q] = None
  BY <1>1, <1>2, PlaceFacts DEF HandInv, Serializing
<1>4. /\ xpc' \in [Place -> Stages]
      /\ \A q \in Place : q[2] # 0 => xpc'[q] = xpc[q]
      /\ \A q \in Place : q[2] = 0 => xpc'[q] = "allDone"
  BY <1>1, <1>2 DEF ExchangeType, Stages
<1>5. \A q \in Place : xpc'[q] = xpc[q] \/ (hand[q] = None /\ SameReceiver(q))
  BY <1>3, <1>4 DEF SameReceiver, AllDelivered
<1>6. /\ \A s \in Rank : MasterOf(s) = "reduce" /\ MasterOf(s)' = "allDone"
      /\ \A s \in Rank, t \in RankThread : t # 0 => xpc'[<<s, t>>] = xpc[<<s, t>>]
  BY <1>2, <1>4, PlaceFacts DEF MasterOf
<1>7. StageInv'
  <2>1. ASSUME NEW s \in Rank, NEW t \in RankThread, t # 0 PROVE xpc[<<s, t>>] = "allDone"
    <3>1. <<s, 0>> \in Place /\ 0 \in RankThread
      BY PlaceFacts, ExchangeAssumption
    <3> QED
      BY <1>1, <1>6, <2>1, <3>1 DEF StageInv, Together, MasterWorks, AllAt, MasterOf
  <2> QED
    BY <1>6, <2>1 DEF StageInv, Together
<1>8. \A s \in Rank : SameSender(s) /\ SameReceives(s)
  BY <1>6, Receiving DEF SameSender, SameReceives, Quiet
<1> QED
  BY <1>2, <1>4, <1>5, <1>7, <1>8, MoveStep

(* The master sends until nothing is left to serialize. *)
LEMMA SendDoneStep ==
    ASSUME ExchangeInd, NEW r \in Rank, SendDone(r)
    PROVE  ExchangeInd'
<1>1. /\ ExchangeType /\ StageInv /\ HandInv /\ QueuesInv /\ NetInv /\ wrong = FALSE
      /\ SenderInv /\ ReceiverInv
  BY DEF ExchangeInd
<1>2. PICK p \in Place : p = <<r, 0>> /\ p[1] = r /\ p[2] = 0
  BY PlaceFacts
<1>3. /\ xpc[p] = "send" /\ toSend[r] = 0 /\ hand[p] = None /\ xpc' = [xpc EXCEPT ![p] = "receive"]
      /\ UNCHANGED <<hand, round, squeue, remoteSize, localSize, rbuf, even, odd, serializeQ, sendQ,
                     deserializeQ, linkSendQ, toSend, toReceive, toDeliver, got, wrong>>
  BY <1>2 DEF SendDone, Goto, buffers, net, queues, counts
<1>4. /\ xpc' \in [Place -> Stages] /\ xpc'[p] = "receive"
      /\ \A q \in Place : q # p => xpc'[q] = xpc[q]
      /\ MasterOf(r) = "send" /\ MasterOf(r)' = "receive"
      /\ \A s \in Rank : s # r => MasterOf(s)' = MasterOf(s)
      /\ StageInv'
  <2>1. "send" \in MasterWorks /\ "receive" \in MasterWorks /\ "receive" \in Stages
    BY DEF Stages, MasterWorks
  <2>2. ExchangeType /\ StageInv /\ xpc[p] = "send" /\ xpc' = [xpc EXCEPT ![p] = "receive"]
    BY <1>1, <1>3
  <2> QED
    BY <1>2, <2>1, <2>2, OneMoves
<1>5. /\ MasterOf(r) = "send" /\ MasterOf(r)' = "receive"
      /\ \A s \in Rank : s # r => MasterOf(s)' = MasterOf(s)
  BY <1>4
<1>7. ExchangeType'
  BY <1>1, <1>3, <1>4 DEF ExchangeType
<1>8. QueuesInv' /\ NetInv' /\ wrong' = FALSE
  BY <1>1, <1>3 DEF QueuesInv, NetInv, Resized, AtHeader, AtOdd
<1>9. /\ HandInv' /\ SerializeOnce' /\ \A l \in Linked : Pending(l)' <=> Pending(l)
      /\ \A l \in Linked : UnderWay(l)' <=> UnderWay(l)
  BY <1>3, <1>4, EmptyHanded
<1>10. ASSUME NEW l \in Linked, Source(l) = r PROVE ~Pending(l)
  <2> DEFINE S == {d \in SendTo(r) : Pending(<<r, d>>)}
  <2>1. Cardinality(S) = 0
    BY <1>1, <1>3, <1>5 DEF SenderInv, ToSendInv
  <2>2. IsFiniteSet(S)
    BY PlacesFinite, FS_Subset DEF SendTo
  <2>3. S = {}
    BY <2>1, <2>2, FS_EmptySet
  <2>4. l = <<r, Target(l)>> /\ Target(l) \in SendTo(r)
    BY <1>10, LinkFacts
  <2> QED
    BY <2>3, <2>4
<1>11. SendInv'
  <2>1. ASSUME NEW l \in Linked
        PROVE  /\ Pending(l)' => MasterOf(Source(l))' \in {"serializeReady", "send"} /\ ~UnderWay(l)'
               /\ UnderWay(l)' => MasterOf(Source(l))' \notin {"idle", "fill", "reduce", "allDone"}
               /\ MasterOf(Source(l))' = "fill" \/ Pending(l)' \/ UnderWay(l)'
                    => rbuf[l] + 1 = round[Source(l)]
               /\ ~(MasterOf(Source(l))' = "fill" \/ Pending(l)' \/ UnderWay(l)')
                    => rbuf[l] = round[Source(l)]
               /\ MasterOf(Source(l))' \notin {"idle", "reduce", "allDone"}
                    => squeue[l].id = round[Source(l)]
               /\ MasterOf(Source(l))' = "serializeReady" => Pending(l)'
    <3>1. Source(l) \in Rank
      BY LinkFacts
    <3> QED
      BY <1>1, <1>5, <1>9, <1>10, <3>1 DEF SenderInv, SendInv
  <2> QED
    BY <1>3, <2>1 DEF SendInv
<1>12. ToSendInv'
  <2>1. ASSUME NEW s \in Rank, MasterOf(s)' = "send"
        PROVE  toSend[s] = Cardinality({d \in SendTo(s) : Pending(<<s, d>>)'})
    <3>1. MasterOf(s) = "send"
      BY <1>5, <2>1
    <3>2. {d \in SendTo(s) : Pending(<<s, d>>)'} = {d \in SendTo(s) : Pending(<<s, d>>)}
      BY <1>9, SendEnds
    <3> QED
      BY <1>1, <3>1, <3>2 DEF SenderInv, ToSendInv
  <2> QED
    BY <1>3, <2>1 DEF ToSendInv
<1>13. \A s \in Rank : SameReceives(s)
  BY <1>3, <1>5, Receiving DEF SameReceives
<1>14. DeserializeOnce' /\ ReceiveInv'
  BY <1>3, <1>4, <1>13, MoveReceives
<1>15. DeliverInv' /\ ToDeliverInv'
  <2>1. \A q \in Place : SameReceiver(q)
    BY <1>3, <1>4 DEF SameReceiver, NotDelivered
  <2> QED
    BY <1>1, <1>3, <2>1, DeliverFrame DEF ReceiverInv
<1> QED
  BY <1>4, <1>7, <1>8, <1>9, <1>11, <1>12, <1>14, <1>15 DEF ExchangeInd, SenderInv, ReceiverInv

-----------------------------------------------------------------------------
(* A thread goes from serialization to delivery, and on when it has delivered all. *)

LEMMA SlaveMoves ==
    ASSUME ExchangeInd, NEW p \in Place, NEW b \in SlaveWorks, hand[p] = None, xpc[p] \in SlaveWorks,
           xpc' = [xpc EXCEPT ![p] = b], toDeliver' \in [Place -> Int],
           UNCHANGED <<hand, round, squeue, remoteSize, localSize, rbuf, even, odd, serializeQ, sendQ,
                       deserializeQ, linkSendQ, toSend, toReceive, got, wrong>>
    PROVE  /\ ExchangeType' /\ StageInv' /\ HandInv' /\ QueuesInv' /\ NetInv' /\ wrong' = FALSE
           /\ SenderInv' /\ DeserializeOnce' /\ ReceiveInv'
           /\ xpc'[p] = b /\ \A q \in Place : q # p => xpc'[q] = xpc[q]
<1>1. /\ ExchangeType /\ StageInv /\ QueuesInv /\ NetInv /\ wrong = FALSE /\ SenderInv
  BY DEF ExchangeInd
<1>2. b \in Stages /\ b \in MasterWorks /\ xpc[p] \in MasterWorks /\ p[1] \in Rank
  BY PlaceFacts DEF SlaveWorks, MasterWorks, Stages
<1>3. /\ xpc' \in [Place -> Stages] /\ xpc'[p] = b
      /\ \A q \in Place : q # p => xpc'[q] = xpc[q]
      /\ \A r \in Rank : r # p[1] \/ p[2] # 0 => MasterOf(r)' = MasterOf(r)
      /\ p[2] = 0 => MasterOf(p[1]) = xpc[p] /\ MasterOf(p[1])' = b
      /\ StageInv'
  BY <1>1, <1>2, OneMoves
<1>4. ASSUME NEW r \in Rank
      PROVE  MasterOf(r)' = MasterOf(r) \/ (MasterOf(r) \in SlaveWorks /\ MasterOf(r)' \in SlaveWorks)
  <2>1. CASE r # p[1] \/ p[2] # 0
    BY <1>3, <2>1
  <2>2. CASE r = p[1] /\ p[2] = 0
    <3>1. MasterOf(r) = xpc[p] /\ MasterOf(r)' = b
      BY <1>3, <2>2
    <3> QED
      BY <3>1
  <2> QED
    BY <2>1, <2>2
<1>5. \A r \in Rank : SameSender(r) /\ SameReceives(r)
  BY <1>4, Receiving DEF SameSender, SameReceives, Active, SlaveWorks
<1>6. ExchangeType'
  BY <1>1, <1>3 DEF ExchangeType
<1>7. QueuesInv' /\ NetInv' /\ wrong' = FALSE
  BY <1>1 DEF QueuesInv, NetInv, Resized, AtHeader, AtOdd
<1>8. /\ HandInv' /\ SerializeOnce' /\ \A l \in Linked : Pending(l)' <=> Pending(l)
      /\ \A l \in Linked : UnderWay(l)' <=> UnderWay(l)
  BY <1>3, EmptyHanded
<1>9. SenderInv'
  BY <1>1, <1>5, <1>8, SenderFrame
<1>10. DeserializeOnce' /\ ReceiveInv'
  BY <1>3, <1>5, MoveReceives
<1> QED
  BY <1>3, <1>6, <1>7, <1>8, <1>9, <1>10

(* The threads that own the other targets are where they were. *)
LEMMA OthersDeliver ==
    ASSUME DeliverInv, ToDeliverInv, NEW p \in Place, UNCHANGED <<got, round>>,
           \A q \in Place : q # p => xpc'[q] = xpc[q] /\ toDeliver'[q] = toDeliver[q],
           \A l \in Linked : Target(l) = p =>
               /\ xpc'[p] \in NotDelivered => got[l] + 1 = round[TargetRank(l)]
               /\ xpc'[p] \in AllDelivered => got[l] = round[TargetRank(l)],
           xpc'[p] = "deliver" => toDeliver'[p] = Cardinality(LeftFor(p))
    PROVE  DeliverInv' /\ ToDeliverInv'
<1>1. DeliverInv'
  <2>1. ASSUME NEW l \in Linked
        PROVE  /\ xpc'[Target(l)] \in NotDelivered => got[l] + 1 = round[TargetRank(l)]
               /\ xpc'[Target(l)] \in AllDelivered => got[l] = round[TargetRank(l)]
    <3>1. Target(l) \in Place
      BY LinkFacts
    <3>2. CASE Target(l) = p
      BY <3>2
    <3>3. CASE Target(l) # p
      BY <3>1, <3>3 DEF DeliverInv, NotDelivered, AllDelivered
    <3> QED
      BY <3>2, <3>3
  <2> QED
    BY <2>1 DEF DeliverInv, NotDelivered, AllDelivered
<1>2. ToDeliverInv'
  <2>1. \A q \in Place : LeftFor(q)' = LeftFor(q)
    BY DEF LeftFor
  <2>2. ASSUME NEW q \in Place, xpc'[q] = "deliver" PROVE toDeliver'[q] = Cardinality(LeftFor(q))
    BY <2>2 DEF ToDeliverInv
  <2> QED
    BY <2>1, <2>2 DEF ToDeliverInv
<1> QED
  BY <1>1, <1>2

LEMMA SerializeDoneStep ==
    ASSUME ExchangeInd, NEW r \in Rank, NEW t \in RankThread, SerializeDone(r, t)
    PROVE  ExchangeInd'
<1>1. ExchangeType /\ DeliverInv /\ ToDeliverInv
  BY DEF ExchangeInd, ReceiverInv
<1>2. PICK p \in Place : p = <<r, t>> /\ p[1] = r /\ p[2] = t
  BY PlaceFacts
<1>3. PICK n : n = Cardinality({m \in ReceiveFrom(r) : m[2] = t})
  OBVIOUS
<1>4. /\ xpc[p] = "serialize" /\ hand[p] = None /\ xpc' = [xpc EXCEPT ![p] = "deliver"]
      /\ toDeliver' = [toDeliver EXCEPT ![p] = n]
      /\ UNCHANGED <<hand, round, squeue, remoteSize, localSize, rbuf, even, odd, serializeQ, sendQ,
                     deserializeQ, linkSendQ, toSend, toReceive, got, wrong>>
  BY <1>2, <1>3 DEF SerializeDone, Goto, buffers, net, queues
<1>5. n \in Int
  <2>1. IsFiniteSet({m \in ReceiveFrom(r) : m[2] = t})
    BY PlacesFinite, FS_Subset DEF ReceiveFrom
  <2> QED
    BY <1>3, <2>1, FS_CardinalityType
<1>6. /\ toDeliver' \in [Place -> Int] /\ toDeliver'[p] = n
      /\ \A q \in Place : q # p => toDeliver'[q] = toDeliver[q]
  BY <1>1, <1>4, <1>5 DEF ExchangeType
<1>7. /\ ExchangeType' /\ StageInv' /\ HandInv' /\ QueuesInv' /\ NetInv' /\ wrong' = FALSE
      /\ SenderInv' /\ DeserializeOnce' /\ ReceiveInv'
      /\ xpc'[p] = "deliver" /\ \A q \in Place : q # p => xpc'[q] = xpc[q]
  BY <1>4, <1>6, SlaveMoves DEF SlaveWorks
<1>8. LeftFor(p) = {m \in ReceiveFrom(r) : m[2] = t}
  <2>1. ASSUME NEW m \in ReceiveFrom(r), m[2] = t PROVE got[At(r, m)] # round[r]
    <3>1. PICK l \in Linked : l = At(r, m) /\ TargetRank(l) = r /\ Target(l) = p
      BY <1>2, <2>1, ReceiveEnds
    <3>2. got[l] + 1 = round[r]
      BY <1>1, <1>4, <3>1 DEF DeliverInv
    <3>3. got[l] \in Nat
      BY <1>1 DEF ExchangeType
    <3> QED
      BY <3>1, <3>2, <3>3
  <2> QED
    BY <1>2, <2>1 DEF LeftFor
<1>9. DeliverInv' /\ ToDeliverInv'
  <2>1. xpc'[p] \notin NotDelivered /\ xpc'[p] \notin AllDelivered
    BY <1>7 DEF NotDelivered, AllDelivered
  <2>2. toDeliver'[p] = Cardinality(LeftFor(p))
    BY <1>3, <1>6, <1>8
  <2> QED
    BY <1>1, <1>4, <1>6, <1>7, <2>1, <2>2, OthersDeliver
<1> QED
  BY <1>7, <1>9 DEF ExchangeInd, ReceiverInv

LEMMA DeliverDoneStep ==
    ASSUME ExchangeInd, NEW r \in Rank, NEW t \in RankThread, DeliverDone(r, t)
    PROVE  ExchangeInd'
<1>1. ExchangeType /\ DeliverInv /\ ToDeliverInv
  BY DEF ExchangeInd, ReceiverInv
<1>2. PICK p \in Place : p = <<r, t>> /\ p[1] = r /\ p[2] = t
  BY PlaceFacts
<1>3. /\ xpc[p] = "deliver" /\ hand[p] = None /\ xpc' = [xpc EXCEPT ![p] = "slaveExchangeDone"]
      /\ toDeliver[p] = 0
      /\ UNCHANGED <<hand, round, squeue, remoteSize, localSize, rbuf, even, odd, serializeQ, sendQ,
                     deserializeQ, linkSendQ, toSend, toReceive, toDeliver, got, wrong>>
  BY <1>2 DEF DeliverDone, Goto, buffers, net, queues, counts
<1>4. toDeliver' \in [Place -> Int]
  BY <1>1, <1>3 DEF ExchangeType
<1>5. /\ ExchangeType' /\ StageInv' /\ HandInv' /\ QueuesInv' /\ NetInv' /\ wrong' = FALSE
      /\ SenderInv' /\ DeserializeOnce' /\ ReceiveInv'
      /\ xpc'[p] = "slaveExchangeDone" /\ \A q \in Place : q # p => xpc'[q] = xpc[q]
  BY <1>3, <1>4, SlaveMoves DEF SlaveWorks
<1>6. LeftFor(p) = {}
  <2>1. IsFiniteSet(LeftFor(p))
    BY PlacesFinite, FS_Subset DEF LeftFor, ReceiveFrom
  <2>2. Cardinality(LeftFor(p)) = 0
    BY <1>1, <1>3 DEF ToDeliverInv
  <2> QED
    BY <2>1, <2>2, FS_EmptySet
<1>7. ASSUME NEW l \in Linked, Target(l) = p PROVE got[l] = round[TargetRank(l)]
  <2>1. /\ TargetRank(l) = p[1] /\ Key(l) \in ReceiveFrom(p[1]) /\ Key(l)[2] = p[2]
        /\ l = At(p[1], Key(l))
    BY <1>7, LinkFacts
  <2> QED
    BY <1>6, <2>1 DEF LeftFor
<1>8. DeliverInv' /\ ToDeliverInv'
  <2>1. xpc'[p] \notin NotDelivered /\ xpc'[p] # "deliver"
    BY <1>5 DEF NotDelivered
  <2> QED
    BY <1>1, <1>3, <1>5, <1>7, <2>1, OthersDeliver
<1> QED
  BY <1>5, <1>8 DEF ExchangeInd, ReceiverInv

-----------------------------------------------------------------------------
(* The queues are cleared when all that was sent has arrived. *)
LEMMA WaitSendsStep ==
    ASSUME ExchangeInd, NEW r \in Rank, WaitSends(r)
    PROVE  ExchangeInd'
<1>1. /\ ExchangeType /\ StageInv /\ HandInv /\ QueuesInv /\ NetInv /\ wrong = FALSE
      /\ SenderInv /\ ReceiverInv
  BY DEF ExchangeInd
<1>2. PICK p \in Place : p = <<r, 0>> /\ p[1] = r /\ p[2] = 0
  BY PlaceFacts
<1>3. /\ xpc[p] = "waitall" /\ xpc' = [xpc EXCEPT ![p] = "reduce"]
      /\ \A d \in SendTo(r) : even[<<r, d>>] = <<>> /\ odd[<<r, d>>] = <<>>
      /\ squeue' = [l \in Linked |-> IF l[1] = r THEN [id |-> 0, size |-> 0] ELSE squeue[l]]
      /\ UNCHANGED <<hand, round, remoteSize, localSize, rbuf, even, odd, serializeQ, sendQ,
                     deserializeQ, linkSendQ, toSend, toReceive, toDeliver, got, wrong>>
  BY <1>2 DEF WaitSends, Goto, net, queues, counts
<1>4. /\ xpc' \in [Place -> Stages] /\ xpc'[p] = "reduce"
      /\ \A q \in Place : q # p => xpc'[q] = xpc[q]
      /\ MasterOf(r) = "waitall" /\ MasterOf(r)' = "reduce"
      /\ \A s \in Rank : s # r => MasterOf(s)' = MasterOf(s)
      /\ StageInv'
  BY <1>1, <1>2, <1>3, OneMoves DEF Stages
<1>5. /\ squeue' \in [Linked -> [id : Nat, size : Nat]]
      /\ \A l \in Linked : Source(l) # r => squeue'[l] = squeue[l]
      /\ \A l \in Linked : Source(l) = r => ~UnderWay(l)
  <2>1. squeue' \in [Linked -> [id : Nat, size : Nat]]
    BY <1>1, <1>3 DEF ExchangeType
  <2>2. \A l \in Linked : Source(l) # r => squeue'[l] = squeue[l]
    BY <1>3 DEF Source
  <2>3. ASSUME NEW l \in Linked, Source(l) = r PROVE ~UnderWay(l)
    <3>1. l = <<r, Target(l)>> /\ Target(l) \in SendTo(r)
      BY <2>3, LinkFacts
    <3> QED
      BY <1>3, <3>1 DEF UnderWay
  <2> QED
    BY <2>1, <2>2, <2>3
<1>6. hand[p] = None
  BY <1>1, <1>3 DEF HandInv, Serializing
<1>7. ExchangeType'
  BY <1>1, <1>3, <1>4, <1>5 DEF ExchangeType
<1>8. QueuesInv' /\ wrong' = FALSE
  BY <1>1, <1>3 DEF QueuesInv
<1>9. NetInv'
  BY <1>1, <1>3, <1>5 DEF NetInv, UnderWay, Resized, AtHeader, AtOdd
<1>10. /\ HandInv' /\ SerializeOnce' /\ \A l \in Linked : Pending(l)' <=> Pending(l)
      /\ \A l \in Linked : UnderWay(l)' <=> UnderWay(l)
  BY <1>3, <1>4, <1>6, EmptyHanded
<1>11. SendInv'
  <2>1. ASSUME NEW l \in Linked
        PROVE  /\ Pending(l)' => MasterOf(Source(l))' \in {"serializeReady", "send"} /\ ~UnderWay(l)'
               /\ UnderWay(l)' => MasterOf(Source(l))' \notin {"idle", "fill", "reduce", "allDone"}
               /\ MasterOf(Source(l))' = "fill" \/ Pending(l)' \/ UnderWay(l)'
                    => rbuf[l] + 1 = round[Source(l)]
               /\ ~(MasterOf(Source(l))' = "fill" \/ Pending(l)' \/ UnderWay(l)')
                    => rbuf[l] = round[Source(l)]
               /\ MasterOf(Source(l))' \notin {"idle", "reduce", "allDone"}
                    => squeue'[l].id = round[Source(l)]
               /\ MasterOf(Source(l))' = "serializeReady" => Pending(l)'
    <3>1. Source(l) \in Rank
      BY LinkFacts
    <3>2. CASE Source(l) = r
      BY <1>1, <1>4, <1>5, <1>10, <3>2 DEF SenderInv, SendInv
    <3>3. CASE Source(l) # r
      BY <1>1, <1>4, <1>5, <1>10, <3>1, <3>3 DEF SenderInv, SendInv
    <3> QED
      BY <3>2, <3>3
  <2> QED
    BY <1>3, <2>1 DEF SendInv
<1>12. ToSendInv'
  <2>1. ASSUME NEW s \in Rank, MasterOf(s)' = "send"
        PROVE  toSend[s] = Cardinality({d \in SendTo(s) : Pending(<<s, d>>)'})
    <3>1. MasterOf(s) = "send"
      BY <1>4, <2>1
    <3>2. {d \in SendTo(s) : Pending(<<s, d>>)'} = {d \in SendTo(s) : Pending(<<s, d>>)}
      BY <1>10, SendEnds
    <3> QED
      BY <1>1, <3>1, <3>2 DEF SenderInv, ToSendInv
  <2> QED
    BY <1>3, <2>1 DEF ToSendInv
<1>13. \A s \in Rank : SameReceives(s)
  BY <1>3, <1>4, Receiving DEF SameReceives
<1>14. DeserializeOnce' /\ ReceiveInv'
  <2>1. \A l \in Linked : squeue'[l] = squeue[l] \/ ~UnderWay(l)
    BY <1>5
  <2> QED
    BY <1>3, <1>4, <1>6, <1>13, <2>1, MoveReceives
<1>15. DeliverInv' /\ ToDeliverInv'
  <2>1. \A q \in Place : SameReceiver(q)
    BY <1>3, <1>4 DEF SameReceiver, AllDelivered
  <2> QED
    BY <1>1, <1>3, <2>1, DeliverFrame DEF ReceiverInv
<1> QED
  BY <1>4, <1>7, <1>8, <1>9, <1>10, <1>11, <1>12, <1>14, <1>15 DEF ExchangeInd, SenderInv, ReceiverInv
-----------------------------------------------------------------------------
(* The master fills the queue of what is to be serialized. *)
LEMMA FillStep ==
    ASSUME ExchangeInd, NEW r \in Rank, Fill(r)
    PROVE  ExchangeInd'
<1>1. /\ ExchangeType /\ StageInv /\ HandInv /\ QueuesInv /\ NetInv /\ wrong = FALSE
      /\ SenderInv /\ ReceiverInv
  BY DEF ExchangeInd
<1>2. PICK p \in Place : p = <<r, 0>> /\ p[1] = r /\ p[2] = 0
  BY PlaceFacts
<1>3. /\ xpc[p] = "fill" /\ xpc' = [xpc EXCEPT ![p] = "serializeReady"]
      /\ serializeQ' = [serializeQ EXCEPT ![r] = @ \cup SendTo(r)]
      /\ UNCHANGED <<hand, round, squeue, remoteSize, localSize, rbuf, even, odd, sendQ,
                     deserializeQ, linkSendQ, toSend, toReceive, toDeliver, got, wrong>>
  BY <1>2 DEF Fill, Goto, buffers, net
<1>4. /\ xpc' \in [Place -> Stages] /\ xpc'[p] = "serializeReady"
      /\ \A q \in Place : q # p => xpc'[q] = xpc[q]
      /\ MasterOf(r) = "fill" /\ MasterOf(r)' = "serializeReady"
      /\ \A s \in Rank : s # r => MasterOf(s)' = MasterOf(s)
      /\ StageInv'
  <2>1. "serializeReady" \in Stages
    BY DEF Stages
  <2> QED
    BY <1>1, <1>2, <1>3, <2>1, OneMoves
<1>5. /\ serializeQ'[r] = serializeQ[r] \cup SendTo(r)
      /\ \A s \in Rank : s # r => serializeQ'[s] = serializeQ[s]
      /\ serializeQ' \in [Rank -> SUBSET Place]
  BY <1>1, <1>3 DEF ExchangeType, SendTo
<1>6. hand[p] = None
  BY <1>1, <1>3 DEF HandInv, Serializing
<1>7. ExchangeType'
  BY <1>1, <1>3, <1>4, <1>5 DEF ExchangeType
<1>8. QueuesInv' /\ NetInv' /\ wrong' = FALSE
  <2>1. QueuesInv'
    BY <1>1, <1>3, <1>5 DEF QueuesInv
  <2> QED
    BY <1>1, <1>3, <2>1 DEF NetInv, Resized, AtHeader, AtOdd
<1>9. HandInv' /\ \A l \in Linked, q \in Place : SerializedBy(l, q)' <=> SerializedBy(l, q)
  BY <1>3, <1>4, <1>6, HandsKept
<1>10. ASSUME NEW l \in Linked
       PROVE  /\ Source(l) \in Rank
              /\ InSerialize(l)' <=> InSerialize(l) \/ Source(l) = r
              /\ InSend(l)' <=> InSend(l)
              /\ UnderWay(l)' <=> UnderWay(l)
              /\ Source(l) = r => ~Pending(l) /\ ~UnderWay(l)
              /\ Pending(l)' <=> Pending(l) \/ Source(l) = r
  <2>1. Source(l) \in Rank /\ Target(l) \in SendTo(Source(l))
    BY LinkFacts
  <2>2. /\ InSerialize(l)' <=> InSerialize(l) \/ Source(l) = r
        /\ InSend(l)' <=> InSend(l)
        /\ UnderWay(l)' <=> UnderWay(l)
    BY <1>3, <1>5, <2>1 DEF InSerialize, InSend, UnderWay
  <2>3. Source(l) = r => ~Pending(l) /\ ~UnderWay(l)
    BY <1>1, <1>4 DEF SenderInv, SendInv
  <2>4. Pending(l)' <=> Pending(l) \/ Source(l) = r
    BY <1>9, <2>2 DEF Pending
  <2> QED
    BY <2>1, <2>2, <2>3, <2>4
<1>11. SerializeOnce'
  <2>1. ASSUME NEW l \in Linked
        PROVE  /\ ~(InSerialize(l)' /\ InSend(l)')
               /\ \A q \in Place : SerializedBy(l, q)' =>
                   ~InSerialize(l)' /\ ~InSend(l)' /\ \A u \in Place : SerializedBy(l, u)' => u = q
    <3>1. CASE Source(l) = r
      BY <1>9, <1>10, <3>1 DEF Pending
    <3>2. CASE Source(l) # r
      BY <1>1, <1>9, <1>10, <3>2 DEF SenderInv, SerializeOnce
    <3> QED
      BY <3>1, <3>2
  <2> QED
    BY <2>1 DEF SerializeOnce
<1>12. SendInv'
  <2>1. ASSUME NEW l \in Linked
        PROVE  /\ Pending(l)' => MasterOf(Source(l))' \in {"serializeReady", "send"} /\ ~UnderWay(l)'
               /\ UnderWay(l)' => MasterOf(Source(l))' \notin {"idle", "fill", "reduce", "allDone"}
               /\ MasterOf(Source(l))' = "fill" \/ Pending(l)' \/ UnderWay(l)'
                    => rbuf[l] + 1 = round[Source(l)]
               /\ ~(MasterOf(Source(l))' = "fill" \/ Pending(l)' \/ UnderWay(l)')
                    => rbuf[l] = round[Source(l)]
               /\ MasterOf(Source(l))' \notin {"idle", "reduce", "allDone"}
                    => squeue[l].id = round[Source(l)]
               /\ MasterOf(Source(l))' = "serializeReady" => Pending(l)'
    <3>2. CASE Source(l) = r
      BY <1>1, <1>4, <1>10, <3>2 DEF SenderInv, SendInv
    <3>3. CASE Source(l) # r
      BY <1>1, <1>4, <1>10, <3>3 DEF SenderInv, SendInv
    <3> QED
      BY <3>2, <3>3
  <2> QED
    BY <1>3, <2>1 DEF SendInv
<1>13. ToSendInv'
  <2>1. ASSUME NEW s \in Rank, MasterOf(s)' = "send"
        PROVE  toSend[s] = Cardinality({d \in SendTo(s) : Pending(<<s, d>>)'})
    <3>1. MasterOf(s) = "send" /\ s # r
      BY <1>4, <2>1
    <3>2. {d \in SendTo(s) : Pending(<<s, d>>)'} = {d \in SendTo(s) : Pending(<<s, d>>)}
      BY <1>10, <3>1, SendEnds
    <3> QED
      BY <1>1, <3>1, <3>2 DEF SenderInv, ToSendInv
  <2> QED
    BY <1>3, <2>1 DEF ToSendInv
<1>14. \A s \in Rank : SameReceives(s)
  BY <1>3, <1>4, Receiving DEF SameReceives
<1>15. DeserializeOnce' /\ ReceiveInv'
  BY <1>3, <1>4, <1>6, <1>14, MoveReceives
<1>16. DeliverInv' /\ ToDeliverInv'
  <2>1. \A q \in Place : SameReceiver(q)
    BY <1>3, <1>4 DEF SameReceiver, NotDelivered
  <2> QED
    BY <1>1, <1>3, <2>1, DeliverFrame DEF ReceiverInv
<1> QED
  BY <1>4, <1>7, <1>8, <1>9, <1>11, <1>12, <1>13, <1>15, <1>16 DEF ExchangeInd, SenderInv, ReceiverInv

(* serializeReadyBarrier: what is to be sent and to be received is counted. *)
LEMMA SerializeReadyStep ==
    ASSUME ExchangeInd, NEW r \in Rank, SerializeReady(r)
    PROVE  ExchangeInd'
<1>1. /\ ExchangeType /\ StageInv /\ HandInv /\ QueuesInv /\ NetInv /\ wrong = FALSE
      /\ SenderInv /\ ReceiverInv
  BY DEF ExchangeInd
<1>2. PICK n : n = Cardinality(SendTo(r))
  OBVIOUS
<1>3. /\ AllAt(r, "serializeReady")
      /\ xpc' = [p \in Place |-> IF p[1] = r THEN IF p[2] = 0 THEN "send" ELSE "serialize" ELSE xpc[p]]
      /\ toSend' = [toSend EXCEPT ![r] = n]
      /\ toReceive' = [toReceive EXCEPT ![r] = ReceiveFrom(r)]
      /\ UNCHANGED <<hand, round, squeue, remoteSize, localSize, rbuf, even, odd, serializeQ, sendQ,
                     deserializeQ, linkSendQ, toDeliver, got, wrong>>
  BY <1>2 DEF SerializeReady, MoveAll, buffers, net, queues
<1>4. \A q \in Place : q[1] = r => xpc[q] = "serializeReady" /\ hand[q] = None
  BY <1>3, AllTogether
<1>5. /\ xpc' \in [Place -> Stages]
      /\ \A q \in Place : q[1] # r => xpc'[q] = xpc[q]
      /\ \A q \in Place : q[1] = r => xpc'[q] = IF q[2] = 0 THEN "send" ELSE "serialize"
  BY <1>1, <1>3 DEF ExchangeType, Stages
<1>6. /\ MasterOf(r) = "serializeReady" /\ MasterOf(r)' = "send"
      /\ \A t \in RankThread : t # 0 => xpc'[<<r, t>>] = "serialize"
      /\ \A s \in Rank : s # r => MasterOf(s)' = MasterOf(s)
      /\ \A s \in Rank, t \in RankThread : s # r => xpc'[<<s, t>>] = xpc[<<s, t>>]
  BY <1>4, <1>5, PlaceFacts DEF MasterOf
<1>7. StageInv'
  <2>1. Together(r)'
    BY <1>6 DEF Together, AllAt, MasterWorks, SlaveWorks
  <2>2. ASSUME NEW s \in Rank, s # r PROVE Together(s)'
    BY <1>1, <1>6, <2>2 DEF StageInv, Together, AllAt
  <2> QED
    BY <2>1, <2>2 DEF StageInv
<1>8. /\ toSend' \in [Rank -> Int] /\ toSend'[r] = n
      /\ \A s \in Rank : s # r => toSend'[s] = toSend[s]
  <2>1. IsFiniteSet(SendTo(r))
    BY PlacesFinite, FS_Subset DEF SendTo
  <2>2. n \in Int
    BY <1>2, <2>1, FS_CardinalityType
  <2> QED
    BY <1>1, <1>3, <2>2 DEF ExchangeType
<1>9. /\ toReceive' \in [Rank -> SUBSET Place] /\ toReceive'[r] = ReceiveFrom(r)
      /\ \A s \in Rank : s # r => toReceive'[s] = toReceive[s]
  BY <1>1, <1>3 DEF ExchangeType, ReceiveFrom
<1>10. ExchangeType'
  BY <1>1, <1>3, <1>5, <1>8, <1>9 DEF ExchangeType
<1>11. QueuesInv' /\ NetInv' /\ wrong' = FALSE
  <2>1. QueuesInv'
    BY <1>1, <1>3, <1>9 DEF QueuesInv
  <2> QED
    BY <1>1, <1>3, <2>1 DEF NetInv, Resized, AtHeader, AtOdd
<1>12. \A q \in Place : xpc'[q] = xpc[q] \/ hand[q] = None
  BY <1>4, <1>5
<1>13. /\ HandInv' /\ SerializeOnce' /\ \A l \in Linked : Pending(l)' <=> Pending(l)
       /\ \A l \in Linked : UnderWay(l)' <=> UnderWay(l)
  BY <1>3, <1>12, EmptyHanded
<1>14. SendInv'
  <2>1. ASSUME NEW l \in Linked
        PROVE  /\ Pending(l)' => MasterOf(Source(l))' \in {"serializeReady", "send"} /\ ~UnderWay(l)'
               /\ UnderWay(l)' => MasterOf(Source(l))' \notin {"idle", "fill", "reduce", "allDone"}
               /\ MasterOf(Source(l))' = "fill" \/ Pending(l)' \/ UnderWay(l)'
                    => rbuf[l] + 1 = round[Source(l)]
               /\ ~(MasterOf(Source(l))' = "fill" \/ Pending(l)' \/ UnderWay(l)')
                    => rbuf[l] = round[Source(l)]
               /\ MasterOf(Source(l))' \notin {"idle", "reduce", "allDone"}
                    => squeue[l].id = round[Source(l)]
               /\ MasterOf(Source(l))' = "serializeReady" => Pending(l)'
    <3>1. Source(l) \in Rank
      BY LinkFacts
    <3>2. CASE Source(l) = r
      BY <1>1, <1>6, <1>13, <3>2 DEF SenderInv, SendInv
    <3>3. CASE Source(l) # r
      BY <1>1, <1>6, <1>13, <3>1, <3>3 DEF SenderInv, SendInv
    <3> QED
      BY <3>2, <3>3
  <2> QED
    BY <1>3, <2>1 DEF SendInv
<1>15. ToSendInv'
  <2>1. ASSUME NEW s \in Rank, MasterOf(s)' = "send"
        PROVE  toSend'[s] = Cardinality({d \in SendTo(s) : Pending(<<s, d>>)'})
    <3>1. {d \in SendTo(s) : Pending(<<s, d>>)'} = {d \in SendTo(s) : Pending(<<s, d>>)}
      BY <1>13, SendEnds
    <3>2. CASE s = r
      <4>1. \A d \in SendTo(r) : Pending(<<r, d>>)
        BY <1>1, <1>6, SendEnds DEF SenderInv, SendInv
      <4>2. {d \in SendTo(r) : Pending(<<r, d>>)} = SendTo(r)
        BY <4>1
      <4> QED
        BY <1>2, <1>8, <3>1, <3>2, <4>2
    <3>3. CASE s # r
      <4>1. MasterOf(s) = "send" /\ toSend'[s] = toSend[s]
        BY <1>6, <1>8, <2>1, <3>3
      <4> QED
        BY <1>1, <3>1, <4>1 DEF SenderInv, ToSendInv
    <3> QED
      BY <3>2, <3>3
  <2> QED
    BY <2>1 DEF ToSendInv
<1>16. /\ DeserializeOnce' /\ \A l \in Linked : Undelivered(l)' <=> Undelivered(l)
       /\ \A l \in Linked : Announced(l)' <=> Announced(l)
  BY <1>3, <1>12, HandsKept
<1>17. ReceiveInv'
  <2>1. ASSUME NEW l \in Linked
        PROVE  /\ Unreceived(l)' => rbuf[l] + 1 = round[TargetRank(l)] /\ ~Undelivered(l)'
               /\ ~Unreceived(l)' => rbuf[l] = round[TargetRank(l)]
               /\ Announced(l)' => AtOdd(l)' /\ Key(l) \notin toReceive'[TargetRank(l)]
               /\ toReceive'[TargetRank(l)] # {}
                    => MasterOf(TargetRank(l))' \in {"send", "receive", "receiveOdd"}
               /\ Undelivered(l)' => got[l] + 1 = rbuf[l]
               /\ ~Undelivered(l)' => got[l] = rbuf[l]
    <3>1. TargetRank(l) \in Rank /\ Key(l) \in ReceiveFrom(TargetRank(l))
      BY LinkFacts
    <3>2. AtOdd(l)' <=> AtOdd(l)
      BY <1>3 DEF AtOdd, Resized
    <3>3. CASE TargetRank(l) = r
      <4>1. Unreceived(l) /\ Unreceived(l)' /\ ~Announced(l)
        BY <1>6, <1>9, <3>1, <3>3 DEF Unreceived, Announced
      <4> QED
        BY <1>1, <1>6, <1>16, <3>3, <4>1 DEF ReceiverInv, ReceiveInv
    <3>4. CASE TargetRank(l) # r
      <4>1. Unreceived(l)' <=> Unreceived(l)
        BY <1>6, <1>9, <1>16, <3>1, <3>4 DEF Unreceived
      <4>2. toReceive'[TargetRank(l)] = toReceive[TargetRank(l)]
        BY <1>9, <3>1, <3>4
      <4> QED
        BY <1>1, <1>6, <1>16, <3>1, <3>2, <3>4, <4>1, <4>2 DEF ReceiverInv, ReceiveInv
    <3> QED
      BY <3>3, <3>4
  <2> QED
    BY <1>3, <2>1 DEF ReceiveInv
<1>18. DeliverInv' /\ ToDeliverInv'
  <2>1. \A q \in Place : SameReceiver(q)
    BY <1>4, <1>5 DEF SameReceiver, NotDelivered
  <2> QED
    BY <1>1, <1>3, <2>1, DeliverFrame DEF ReceiverInv
<1> QED
  BY <1>7, <1>10, <1>11, <1>13, <1>14, <1>15, <1>16, <1>17, <1>18
     DEF ExchangeInd, SenderInv, ReceiverInv

(* An exchange starts with nothing left over from the one before. *)
LEMMA StartStep ==
    ASSUME ExchangeInd, NEW r \in Rank, Start(r)
    PROVE  ExchangeInd'
<1>1. /\ ExchangeType /\ StageInv /\ HandInv /\ QueuesInv /\ NetInv /\ wrong = FALSE
      /\ SenderInv /\ ReceiverInv
  BY DEF ExchangeInd
<1>2. PICK n \in Nat : n = round[r]
  BY <1>1 DEF ExchangeType
<1>3. PICK size \in [SendTo(r) -> MessageSizes] :
        squeue' = [l \in Linked |-> IF l[1] = r THEN [id |-> n + 1, size |-> size[l[2]]] ELSE squeue[l]]
  BY <1>2 DEF Start
<1>4. /\ AllAt(r, "idle")
      /\ xpc' = [p \in Place |->
                    IF p[1] = r THEN IF p[2] = 0 THEN "fill" ELSE "serializeReady" ELSE xpc[p]]
      /\ round' = [round EXCEPT ![r] = n + 1]
      /\ UNCHANGED <<hand, remoteSize, localSize, rbuf, even, odd, serializeQ, sendQ,
                     deserializeQ, linkSendQ, toSend, toReceive, toDeliver, got, wrong>>
  BY <1>2 DEF Start, MoveAll, net, queues, counts
<1>5. \A q \in Place : q[1] = r => xpc[q] = "idle" /\ hand[q] = None
  BY <1>4, AllTogether
<1>6. /\ xpc' \in [Place -> Stages]
      /\ \A q \in Place : q[1] # r => xpc'[q] = xpc[q]
      /\ \A q \in Place : q[1] = r => xpc'[q] = IF q[2] = 0 THEN "fill" ELSE "serializeReady"
  BY <1>1, <1>4 DEF ExchangeType, Stages
<1>7. /\ MasterOf(r) = "idle" /\ MasterOf(r)' = "fill"
      /\ \A t \in RankThread : t # 0 => xpc'[<<r, t>>] = "serializeReady"
      /\ \A s \in Rank : s # r => MasterOf(s)' = MasterOf(s)
      /\ \A s \in Rank, t \in RankThread : s # r => xpc'[<<s, t>>] = xpc[<<s, t>>]
  BY <1>5, <1>6, PlaceFacts DEF MasterOf
<1>8. StageInv'
  <2>1. Together(r)'
    BY <1>7 DEF Together, AllAt
  <2>2. ASSUME NEW s \in Rank, s # r PROVE Together(s)'
    BY <1>1, <1>7, <2>2 DEF StageInv, Together, AllAt
  <2> QED
    BY <2>1, <2>2 DEF StageInv
<1>9. /\ round' \in [Rank -> Nat] /\ round'[r] = n + 1
      /\ \A s \in Rank : s # r => round'[s] = round[s]
  BY <1>1, <1>2, <1>4 DEF ExchangeType
<1>10. ASSUME NEW l \in Linked
       PROVE  /\ squeue'[l] \in [id : Nat, size : Nat]
              /\ Source(l) # r => squeue'[l] = squeue[l]
              /\ Source(l) = r => squeue'[l].id = n + 1
  <2>1. CASE Source(l) = r
    <3>1. l[1] = r /\ l[2] \in SendTo(r)
      BY <2>1, LinkFacts DEF Source, Target
    <3>2. size[l[2]] \in Nat
      BY <3>1, ExchangeAssumption
    <3>3. squeue'[l] = [id |-> n + 1, size |-> size[l[2]]]
      BY <1>3, <3>1
    <3> QED
      BY <2>1, <3>2, <3>3
  <2>2. CASE Source(l) # r
    <3>1. squeue'[l] = squeue[l]
      BY <1>3, <2>2 DEF Source
    <3> QED
      BY <1>1, <2>2, <3>1 DEF ExchangeType
  <2> QED
    BY <2>1, <2>2
<1>11. ExchangeType'
  <2>1. squeue' \in [Linked -> [id : Nat, size : Nat]]
    BY <1>3, <1>10
  <2> QED
    BY <1>1, <1>4, <1>6, <1>9, <2>1 DEF ExchangeType
<1>12. \A l \in Linked : Source(l) = r => ~Pending(l) /\ ~UnderWay(l)
  BY <1>1, <1>7 DEF SenderInv, SendInv
<1>13. QueuesInv' /\ NetInv' /\ wrong' = FALSE
  <2>1. QueuesInv'
    BY <1>1, <1>4 DEF QueuesInv
  <2>2. NetInv'
    BY <1>1, <1>4, <1>10, <1>12 DEF NetInv, UnderWay, Resized, AtHeader, AtOdd
  <2> QED
    BY <1>1, <1>4, <2>1, <2>2
<1>14. \A q \in Place : xpc'[q] = xpc[q] \/ hand[q] = None
  BY <1>5, <1>6
<1>15. /\ HandInv' /\ SerializeOnce' /\ \A l \in Linked : Pending(l)' <=> Pending(l)
       /\ \A l \in Linked : UnderWay(l)' <=> UnderWay(l)
  BY <1>4, <1>14, EmptyHanded
<1>16. SendInv'
  <2>1. ASSUME NEW l \in Linked
        PROVE  /\ Pending(l)' => MasterOf(Source(l))' \in {"serializeReady", "send"} /\ ~UnderWay(l)'
               /\ UnderWay(l)' => MasterOf(Source(l))' \notin {"idle", "fill", "reduce", "allDone"}
               /\ MasterOf(Source(l))' = "fill" \/ Pending(l)' \/ UnderWay(l)'
                    => rbuf[l] + 1 = round'[Source(l)]
               /\ ~(MasterOf(Source(l))' = "fill" \/ Pending(l)' \/ UnderWay(l)')
                    => rbuf[l] = round'[Source(l)]
               /\ MasterOf(Source(l))' \notin {"idle", "reduce", "allDone"}
                    => squeue'[l].id = round'[Source(l)]
               /\ MasterOf(Source(l))' = "serializeReady" => Pending(l)'
    <3>1. Source(l) \in Rank
      BY LinkFacts
    <3>2. CASE Source(l) = r
      <4>1. rbuf[l] = n
        BY <1>1, <1>2, <1>7, <1>12, <3>2 DEF SenderInv, SendInv
      <4> QED
        BY <1>7, <1>9, <1>10, <1>12, <1>15, <3>2, <4>1
    <3>3. CASE Source(l) # r
      <4>1. /\ MasterOf(Source(l))' = MasterOf(Source(l)) /\ round'[Source(l)] = round[Source(l)]
            /\ squeue'[l] = squeue[l]
        BY <1>7, <1>9, <1>10, <3>1, <3>3
      <4> QED
        BY <1>1, <1>15, <4>1 DEF SenderInv, SendInv
    <3> QED
      BY <3>2, <3>3
  <2> QED
    BY <1>4, <2>1 DEF SendInv
<1>17. ToSendInv'
  <2>1. ASSUME NEW s \in Rank, MasterOf(s)' = "send"
        PROVE  toSend[s] = Cardinality({d \in SendTo(s) : Pending(<<s, d>>)'})
    <3>1. MasterOf(s) = "send"
      BY <1>7, <2>1
    <3>2. {d \in SendTo(s) : Pending(<<s, d>>)'} = {d \in SendTo(s) : Pending(<<s, d>>)}
      BY <1>15, SendEnds
    <3> QED
      BY <1>1, <3>1, <3>2 DEF SenderInv, ToSendInv
  <2> QED
    BY <1>4, <2>1 DEF ToSendInv
<1>18. /\ DeserializeOnce' /\ \A l \in Linked : Undelivered(l)' <=> Undelivered(l)
       /\ \A l \in Linked : Announced(l)' <=> Announced(l)
  BY <1>4, <1>14, HandsKept
<1>19. ASSUME NEW l \in Linked, TargetRank(l) = r
       PROVE  rbuf[l] = n /\ got[l] = n /\ ~Undelivered(l) /\ ~Announced(l) /\ toReceive[r] = {}
  <2>1. toReceive[r] = {} /\ ~Announced(l)
    BY <1>7, <1>19, Receiving DEF Announced
  <2>2. ~Unreceived(l)
    BY <1>7, <1>19, <2>1 DEF Unreceived
  <2>3. rbuf[l] = n
    BY <1>1, <1>2, <1>19, <2>2 DEF ReceiverInv, ReceiveInv
  <2>4. xpc[Target(l)] = "idle"
    BY <1>5, <1>19, LinkFacts
  <2>5. got[l] = n
    BY <1>1, <1>2, <1>19, <2>4 DEF ReceiverInv, DeliverInv
  <2>6. ~Undelivered(l)
    BY <1>1, <1>2, <2>3, <2>5 DEF ReceiverInv, ReceiveInv
  <2> QED
    BY <2>1, <2>3, <2>5, <2>6
<1>20. ReceiveInv'
  <2>1. ASSUME NEW l \in Linked
        PROVE  /\ Unreceived(l)' => rbuf[l] + 1 = round'[TargetRank(l)] /\ ~Undelivered(l)'
               /\ ~Unreceived(l)' => rbuf[l] = round'[TargetRank(l)]
               /\ Announced(l)' => AtOdd(l)' /\ Key(l) \notin toReceive[TargetRank(l)]
               /\ toReceive[TargetRank(l)] # {}
                    => MasterOf(TargetRank(l))' \in {"send", "receive", "receiveOdd"}
               /\ Undelivered(l)' => got[l] + 1 = rbuf[l]
               /\ ~Undelivered(l)' => got[l] = rbuf[l]
    <3>1. TargetRank(l) \in Rank
      BY LinkFacts
    <3>2. AtOdd(l) => AtOdd(l)'
      <4>1. AtOdd(l) => UnderWay(l)
        BY DEF AtOdd, UnderWay
      <4>2. AtOdd(l) => squeue'[l] = squeue[l]
        BY <1>10, <1>12, <4>1
      <4> QED
        BY <1>4, <4>2 DEF AtOdd, Resized
    <3>3. CASE TargetRank(l) = r
      <4>1. Unreceived(l)'
        BY <1>7, <3>3 DEF Unreceived
      <4> QED
        BY <1>9, <1>18, <1>19, <3>3, <4>1
    <3>4. CASE TargetRank(l) # r
      <4>1. /\ MasterOf(TargetRank(l))' = MasterOf(TargetRank(l))
            /\ round'[TargetRank(l)] = round[TargetRank(l)]
        BY <1>7, <1>9, <3>1, <3>4
      <4>2. Unreceived(l)' <=> Unreceived(l)
        BY <1>4, <1>18, <4>1 DEF Unreceived
      <4> QED
        BY <1>1, <1>18, <3>2, <4>1, <4>2 DEF ReceiverInv, ReceiveInv
    <3> QED
      BY <3>3, <3>4
  <2> QED
    BY <1>4, <2>1 DEF ReceiveInv
<1>21. DeliverInv'
  <2>1. ASSUME NEW l \in Linked
        PROVE  /\ xpc'[Target(l)] \in NotDelivered => got[l] + 1 = round'[TargetRank(l)]
               /\ xpc'[Target(l)] \in AllDelivered => got[l] = round'[TargetRank(l)]
    <3>1. Target(l) \in Place /\ Target(l)[1] = TargetRank(l) /\ TargetRank(l) \in Rank
      BY LinkFacts
    <3>2. CASE TargetRank(l) = r
      <4>1. xpc'[Target(l)] \in {"fill", "serializeReady"}
        BY <1>6, <3>1, <3>2
      <4> QED
        BY <1>9, <1>19, <3>2, <4>1 DEF AllDelivered
    <3>3. CASE TargetRank(l) # r
      BY <1>1, <1>6, <1>9, <3>1, <3>3 DEF ReceiverInv, DeliverInv, NotDelivered, AllDelivered
    <3> QED
      BY <3>2, <3>3
  <2> QED
    BY <1>4, <2>1 DEF DeliverInv, NotDelivered, AllDelivered
<1>22. ToDeliverInv'
  <2>1. ASSUME NEW p \in Place, xpc'[p] = "deliver" PROVE toDeliver[p] = Cardinality(LeftFor(p)')
    <3>1. p[1] # r /\ xpc[p] = "deliver" /\ p[1] \in Rank
      BY <1>6, <2>1, PlaceFacts
    <3>2. LeftFor(p)' = LeftFor(p)
      BY <1>4, <1>9, <3>1 DEF LeftFor
    <3> QED
      BY <1>1, <3>1, <3>2 DEF ReceiverInv, ToDeliverInv
  <2> QED
    BY <1>4, <2>1 DEF ToDeliverInv
<1> QED
  BY <1>8, <1>11, <1>13, <1>15, <1>16, <1>17, <1>18, <1>20, <1>21, <1>22
     DEF ExchangeInd, SenderInv, ReceiverInv

-----------------------------------------------------------------------------
(* The master sends a message, with a header before it or without. *)
LEMMA SendStep ==
    ASSUME ExchangeInd, NEW r \in Rank, Send(r)
    PROVE  ExchangeInd'
<1>1. /\ ExchangeType /\ StageInv /\ HandInv /\ QueuesInv /\ NetInv /\ wrong = FALSE
      /\ SenderInv /\ ReceiverInv
  BY DEF ExchangeInd
<1>0. PICK d \in sendQ[r] :
        /\ sendQ' = [sendQ EXCEPT ![r] = @ \ {d}]
        /\ \/ /\ squeue[<<r, d>>].size <= remoteSize[<<r, d>>]
              /\ even' = [even EXCEPT ![<<r, d>>] = Append(@, "data")]
              /\ UNCHANGED <<odd, remoteSize>>
           \/ /\ ~(squeue[<<r, d>>].size <= remoteSize[<<r, d>>])
              /\ even' = [even EXCEPT ![<<r, d>>] = Append(@, "header")]
              /\ odd' = [odd EXCEPT ![<<r, d>>] = Append(@, "data")]
              /\ remoteSize' = [remoteSize EXCEPT ![<<r, d>>] = squeue[<<r, d>>].size]
  BY DEF Send
<1>2. PICK k :
        /\ k = <<r, d>>
        /\ sendQ' = [sendQ EXCEPT ![r] = @ \ {d}]
        /\ \/ /\ squeue[k].size <= remoteSize[k]
              /\ even' = [even EXCEPT ![k] = Append(@, "data")]
              /\ UNCHANGED <<odd, remoteSize>>
           \/ /\ ~(squeue[k].size <= remoteSize[k])
              /\ even' = [even EXCEPT ![k] = Append(@, "header")]
              /\ odd' = [odd EXCEPT ![k] = Append(@, "data")]
              /\ remoteSize' = [remoteSize EXCEPT ![k] = squeue[k].size]
  BY <1>0
<1>3. /\ MasterOf(r) = "send" /\ toSend' = [toSend EXCEPT ![r] = @ - 1]
      /\ UNCHANGED <<xpc, hand, round, squeue, localSize, rbuf, serializeQ, deserializeQ,
                     linkSendQ, toReceive, toDeliver, got, wrong>>
  BY DEF Send, MasterOf
<1>4. d \in SendTo(r) /\ k \in Linked /\ Source(k) = r /\ Target(k) = d
  BY <1>1, <1>2, SendEnds DEF QueuesInv
<1>5. /\ sendQ'[r] = sendQ[r] \ {d} /\ \A s \in Rank : s # r => sendQ'[s] = sendQ[s]
      /\ sendQ' \in [Rank -> SUBSET Place]
      /\ toSend'[r] = toSend[r] - 1 /\ \A s \in Rank : s # r => toSend'[s] = toSend[s]
      /\ toSend' \in [Rank -> Int]
  BY <1>1, <1>2, <1>3 DEF ExchangeType
<1>6. InSend(k) /\ Pending(k)
  BY <1>2, <1>4 DEF InSend, Pending
<1>7. even[k] = <<>> /\ odd[k] = <<>> /\ Resized(k)
  BY <1>1, <1>4, <1>6 DEF SenderInv, SendInv, UnderWay, NetInv, AtHeader, AtOdd
<1>8. /\ localSize[k] \in Nat /\ remoteSize[k] \in Nat /\ squeue[k].size \in Nat
      /\ Append(<<>>, "data") = <<"data">> /\ Append(<<>>, "header") = <<"header">>
      /\ <<"data">> # <<>> /\ <<"header">> # <<>>
  BY <1>1, <1>4 DEF ExchangeType
<1>9. /\ even' \in [Linked -> Seq({"data", "header"})] /\ odd' \in [Linked -> Seq({"data", "header"})]
      /\ remoteSize' \in [Linked -> Nat]
      /\ \A l \in Linked : l # k =>
            even'[l] = even[l] /\ odd'[l] = odd[l] /\ remoteSize'[l] = remoteSize[l]
      /\ \/ /\ squeue[k].size <= remoteSize[k] /\ even'[k] = <<"data">> /\ odd'[k] = <<>>
            /\ remoteSize'[k] = remoteSize[k]
         \/ /\ ~(squeue[k].size <= remoteSize[k]) /\ even'[k] = <<"header">> /\ odd'[k] = <<"data">>
            /\ remoteSize'[k] = squeue[k].size
  <2>0. /\ even \in [Linked -> Seq({"data", "header"})] /\ odd \in [Linked -> Seq({"data", "header"})]
        /\ remoteSize \in [Linked -> Nat]
        /\ <<"data">> \in Seq({"data", "header"}) /\ <<"header">> \in Seq({"data", "header"})
    BY <1>1 DEF ExchangeType
  <2>1. CASE squeue[k].size <= remoteSize[k]
    <3>1. even' = [even EXCEPT ![k] = <<"data">>] /\ UNCHANGED <<odd, remoteSize>>
      BY <1>2, <1>7, <1>8, <2>1
    <3> QED
      BY <1>4, <1>7, <2>0, <2>1, <3>1
  <2>2. CASE ~(squeue[k].size <= remoteSize[k])
    <3>1. /\ even' = [even EXCEPT ![k] = <<"header">>] /\ odd' = [odd EXCEPT ![k] = <<"data">>]
          /\ remoteSize' = [remoteSize EXCEPT ![k] = squeue[k].size]
      BY <1>2, <1>7, <1>8, <2>2
    <3>2. even' \in [Linked -> Seq({"data", "header"})] /\ odd' \in [Linked -> Seq({"data", "header"})]
      BY <2>0, <3>1
    <3>3. remoteSize' \in [Linked -> Nat]
      BY <1>8, <2>0, <3>1
    <3> QED
      BY <1>4, <2>0, <2>2, <3>1, <3>2, <3>3
  <2> QED
    BY <2>1, <2>2
<1>10. ExchangeType'
  BY <1>1, <1>3, <1>5, <1>9 DEF ExchangeType
<1>11. StageInv' /\ HandInv' /\ QueuesInv' /\ wrong' = FALSE
  <2>1. StageInv'
    BY <1>1, <1>3 DEF StageInv, Together, MasterOf, AllAt
  <2>2. HandInv'
    BY <1>1, <1>3 DEF HandInv, Serializing
  <2>3. QueuesInv'
    BY <1>1, <1>3, <1>5 DEF QueuesInv
  <2> QED
    BY <1>1, <1>3, <2>1, <2>2, <2>3
<1>12. NetInv'
  <2>1. ASSUME NEW l \in Linked
        PROVE  \/ even'[l] = <<>> /\ odd'[l] = <<>> /\ Resized(l)'
               \/ even'[l] = <<"data">> /\ odd'[l] = <<>> /\ Resized(l)' /\ squeue'[l].size <= localSize'[l]
               \/ AtHeader(l)'
               \/ AtOdd(l)'
    <3>1. CASE l = k
      <4>1. localSize'[k] = localSize[k] /\ squeue'[k] = squeue[k] /\ localSize[k] = remoteSize[k]
        BY <1>3, <1>7 DEF Resized
      <4>2. CASE squeue[k].size <= remoteSize[k]
        BY <1>8, <1>9, <3>1, <4>1, <4>2 DEF Resized
      <4>3. CASE ~(squeue[k].size <= remoteSize[k])
        <5>1. localSize[k] <= squeue[k].size
          BY <1>8, <4>1, <4>3
        <5> QED
          BY <1>9, <3>1, <4>1, <4>3, <5>1 DEF AtHeader
      <4> QED
        BY <4>2, <4>3
    <3>2. CASE l # k
      <4>1. /\ even'[l] = even[l] /\ odd'[l] = odd[l] /\ remoteSize'[l] = remoteSize[l]
            /\ localSize'[l] = localSize[l] /\ squeue'[l] = squeue[l]
        BY <1>3, <1>9, <3>2
      <4> QED
        BY <1>1, <4>1 DEF NetInv, Resized, AtHeader, AtOdd
    <3> QED
      BY <3>1, <3>2
  <2> QED
    BY <2>1 DEF NetInv
<1>13. ASSUME NEW l \in Linked
       PROVE  /\ InSerialize(l)' <=> InSerialize(l)
              /\ InSend(l)' <=> InSend(l) /\ l # k
              /\ \A q \in Place : SerializedBy(l, q)' <=> SerializedBy(l, q)
              /\ UnderWay(l)' <=> UnderWay(l) \/ l = k
  <2>1. Source(l) \in Rank /\ (Source(l) = r /\ Target(l) = d <=> l = k)
    BY <1>4, LinkFacts, SameLink
  <2>2. UnderWay(l)' <=> UnderWay(l) \/ l = k
    BY <1>8, <1>9 DEF UnderWay
  <2> QED
    BY <1>3, <1>5, <2>1, <2>2 DEF InSerialize, InSend, SerializedBy, Serializing
<1>14. SerializeOnce'
  BY <1>1, <1>13 DEF SerializeOnce, SenderInv
<1>15. \A l \in Linked : Pending(l)' <=> Pending(l) /\ l # k
  BY <1>1, <1>4, <1>6, <1>13 DEF Pending, SenderInv, SerializeOnce
<1>16. SendInv'
  <2>1. ASSUME NEW l \in Linked
        PROVE  /\ Pending(l)' => MasterOf(Source(l)) \in {"serializeReady", "send"} /\ ~UnderWay(l)'
               /\ UnderWay(l)' => MasterOf(Source(l)) \notin {"idle", "fill", "reduce", "allDone"}
               /\ MasterOf(Source(l)) = "fill" \/ Pending(l)' \/ UnderWay(l)'
                    => rbuf[l] + 1 = round[Source(l)]
               /\ ~(MasterOf(Source(l)) = "fill" \/ Pending(l)' \/ UnderWay(l)')
                    => rbuf[l] = round[Source(l)]
               /\ MasterOf(Source(l)) \notin {"idle", "reduce", "allDone"}
                    => squeue[l].id = round[Source(l)]
               /\ MasterOf(Source(l)) = "serializeReady" => Pending(l)'
    <3>1. CASE l = k
      BY <1>1, <1>3, <1>4, <1>6, <1>13, <1>15, <3>1 DEF SenderInv, SendInv
    <3>2. CASE l # k
      BY <1>1, <1>13, <1>15, <3>2 DEF SenderInv, SendInv
    <3> QED
      BY <3>1, <3>2
  <2> QED
    BY <1>3, <2>1 DEF SendInv, MasterOf
<1>17. ToSendInv'
  <2>1. ASSUME NEW s \in Rank, MasterOf(s) = "send"
        PROVE  toSend'[s] = Cardinality({e \in SendTo(s) : Pending(<<s, e>>)'})
    <3>1. CASE s # r
      <4>1. \A e \in SendTo(s) : <<s, e>> \in Linked /\ <<s, e>> # k
        BY <1>4, <3>1, SendEnds
      <4>2. {e \in SendTo(s) : Pending(<<s, e>>)'} = {e \in SendTo(s) : Pending(<<s, e>>)}
        BY <1>15, <4>1
      <4> QED
        BY <1>1, <1>5, <2>1, <3>1, <4>2 DEF SenderInv, ToSendInv
    <3>2. CASE s = r
      <4> DEFINE S == {e \in SendTo(r) : Pending(<<r, e>>)}
      <4>1. d \in S
        BY <1>2, <1>4, <1>6
      <4>2. IsFiniteSet(S)
        BY PlacesFinite, FS_Subset DEF SendTo
      <4>3. Cardinality(S \ {d}) = Cardinality(S) - 1
        BY <4>1, <4>2, FS_RemoveElement
      <4>4. \A e \in SendTo(r) : <<r, e>> \in Linked /\ (<<r, e>> = k <=> e = d)
        BY <1>2, SendEnds
      <4>5. {e \in SendTo(r) : Pending(<<r, e>>)'} = S \ {d}
        BY <1>15, <4>4
      <4>6. toSend[r] = Cardinality(S)
        BY <1>1, <1>3 DEF SenderInv, ToSendInv
      <4> QED
        BY <1>5, <3>2, <4>3, <4>5, <4>6
    <3> QED
      BY <3>1, <3>2
  <2> QED
    BY <1>3, <2>1 DEF ToSendInv, MasterOf
<1>18. /\ \A l \in Linked : Announced(l)' <=> Announced(l)
       /\ DeserializeOnce' /\ \A l \in Linked : Undelivered(l)' <=> Undelivered(l)
  <2>1. \A q \in Place : xpc'[q] = xpc[q] \/ hand[q] = None
    BY <1>3
  <2> QED
    BY <1>3, <2>1, HandsKept
<1>19. ReceiveInv'
  <2>1. \A s \in Rank : toReceive[s] # {} => MasterOf(s)' \in {"send", "receive", "receiveOdd"}
    BY <1>3, Receiving DEF MasterOf
  <2>2. \A l \in Linked : Unreceived(l)' <=> Unreceived(l)
    BY <1>3, <1>18 DEF Unreceived, MasterOf
  <2>3. ASSUME NEW l \in Linked, AtOdd(l) PROVE AtOdd(l)'
    <3>1. l # k
      BY <1>7, <1>8, <2>3 DEF AtOdd
    <3> QED
      BY <1>3, <1>9, <2>3, <3>1 DEF AtOdd, Resized
  <2>4. \A l \in Linked : /\ Unreceived(l)' <=> Unreceived(l)
                          /\ Announced(l)' => Announced(l)
                          /\ AtOdd(l) => AtOdd(l)'
    BY <1>18, <2>2, <2>3
  <2> QED
    BY <1>1, <1>3, <1>18, <2>1, <2>4, ReceiveFrame DEF ReceiverInv
<1>20. DeliverInv' /\ ToDeliverInv'
  <2>1. \A q \in Place : SameReceiver(q)
    BY <1>3 DEF SameReceiver
  <2> QED
    BY <1>1, <1>3, <2>1, DeliverFrame DEF ReceiverInv
<1> QED
  BY <1>10, <1>11, <1>12, <1>14, <1>16, <1>17, <1>18, <1>19, <1>20
     DEF ExchangeInd, SenderInv, ReceiverInv

-----------------------------------------------------------------------------
(* A message arrives in the receive buffer: on the even tag, or on the odd *)
(* one after its header.                                                   *)
LEMMA Arrival ==
    ASSUME ExchangeInd, NEW r \in Rank, NEW k \in Linked, TargetRank(k) = r,
           UnderWay(k), Unreceived(k), ~UnderWay(k)',
           MasterOf(r) \in {"receive", "receiveOdd"}, MasterOf(r)' = "receive",
           MasterOf(r) = "receiveOdd" => Announced(k),
           xpc' \in [Place -> Stages],
           \A q \in Place : q # <<r, 0>> => xpc'[q] = xpc[q] /\ hand'[q] = hand[q],
           xpc'[<<r, 0>>] = xpc[<<r, 0>>] => hand'[<<r, 0>>] = hand[<<r, 0>>],
           xpc'[<<r, 0>>] # xpc[<<r, 0>>] => hand'[<<r, 0>>] = None,
           rbuf' = [rbuf EXCEPT ![k] = squeue[k].id],
           deserializeQ' = [deserializeQ EXCEPT ![r] = @ \cup {Key(k)}],
           toReceive' = [toReceive EXCEPT ![r] = @ \ {Key(k)}],
           \A l \in Linked : l # k => (UnderWay(l)' <=> UnderWay(l)) /\ (AtOdd(l) => AtOdd(l)'),
           UNCHANGED <<round, squeue, serializeQ, sendQ, linkSendQ, toSend, toDeliver, got>>
    PROVE  /\ rbuf' \in [Linked -> Nat] /\ deserializeQ' \in [Rank -> SUBSET Place]
           /\ toReceive' \in [Rank -> SUBSET Place]
           /\ StageInv' /\ HandInv' /\ QueuesInv' /\ SenderInv' /\ ReceiverInv'
<1>1. /\ ExchangeType /\ StageInv /\ HandInv /\ QueuesInv /\ SenderInv /\ ReceiverInv
  BY DEF ExchangeInd
<1>2. PICK p \in Place : p = <<r, 0>> /\ p[1] = r /\ p[2] = 0
  BY PlaceFacts
<1>3. /\ Key(k) \in ReceiveFrom(r) /\ Key(k) \in Place /\ Source(k) \in Rank /\ Source(k) # r
  BY LinkFacts
<1>4. /\ xpc[p] \in {"receive", "receiveOdd"} /\ xpc'[p] = "receive"
      /\ \A q \in Place : q # p => xpc'[q] = xpc[q] /\ hand'[q] = hand[q]
      /\ xpc[p] = "receive" => hand'[p] = hand[p]
      /\ xpc[p] = "receiveOdd" => hand'[p] = None
      /\ \A s \in Rank : s # r => MasterOf(s)' = MasterOf(s)
  BY <1>2, PlaceFacts DEF MasterOf
<1>5. squeue[k].id = round[Source(k)] /\ rbuf[k] + 1 = round[Source(k)] /\ ~Pending(k)
  BY <1>1 DEF SenderInv, SendInv
<1>6. rbuf[k] + 1 = round[r] /\ ~Undelivered(k) /\ got[k] = rbuf[k]
  BY <1>1 DEF ReceiverInv, ReceiveInv
<1>7. /\ rbuf' \in [Linked -> Nat] /\ rbuf'[k] = rbuf[k] + 1
      /\ \A l \in Linked : l # k => rbuf'[l] = rbuf[l]
  BY <1>1, <1>5 DEF ExchangeType
<1>8. /\ deserializeQ' \in [Rank -> SUBSET Place] /\ deserializeQ'[r] = deserializeQ[r] \cup {Key(k)}
      /\ \A s \in Rank : s # r => deserializeQ'[s] = deserializeQ[s]
  BY <1>1, <1>3 DEF ExchangeType
<1>9. /\ toReceive' \in [Rank -> SUBSET Place] /\ toReceive'[r] = toReceive[r] \ {Key(k)}
      /\ \A s \in Rank : s # r => toReceive'[s] = toReceive[s]
  BY <1>1, <1>3 DEF ExchangeType
<1>10. StageInv'
  <2>1. ASSUME NEW s \in Rank PROVE Together(s)'
    <3>1. \A t \in RankThread : s # r \/ t # 0 => xpc'[<<s, t>>] = xpc[<<s, t>>]
      BY <1>2, <1>4, PlaceFacts
    <3>2. CASE s = r
      <4>1. MasterOf(r) \in MasterWorks /\ MasterOf(r)' \in MasterWorks
        BY DEF MasterWorks
      <4>2. \A t \in RankThread : t # 0 => xpc[<<r, t>>] \in SlaveWorks
        BY <1>1, ExchangeAssumption DEF StageInv, Together, AllAt, MasterOf
      <4>3. \A t \in RankThread : t # 0 => xpc'[<<r, t>>] \in SlaveWorks
        BY <3>1, <3>2, <4>2
      <4> QED
        BY <3>2, <4>1, <4>3 DEF Together
    <3>3. CASE s # r
      <4>1. \A t \in RankThread : xpc'[<<s, t>>] = xpc[<<s, t>>]
        BY <3>1, <3>3
      <4>2. MasterOf(s)' = MasterOf(s)
        BY <1>4, <3>3
      <4> QED
        BY <1>1, <4>1, <4>2 DEF StageInv, Together, AllAt
    <3> QED
      BY <3>2, <3>3
  <2> QED
    BY <2>1 DEF StageInv
<1>11. HandInv'
  <2>1. ASSUME NEW q \in Place, hand'[q] # None
        PROVE  \/ xpc'[q] \in {"serialize", "send"} /\ hand'[q] \in SendTo(q[1])
               \/ xpc'[q] = "deliver" /\ hand'[q] \in ReceiveFrom(q[1])
               \/ xpc'[q] = "receiveOdd" /\ hand'[q] \in ReceiveFrom(q[1])
    <3>1. CASE q = p
      BY <1>1, <1>4, <2>1, <3>1 DEF HandInv, Serializing
    <3>2. CASE q # p
      BY <1>1, <1>4, <2>1, <3>2 DEF HandInv, Serializing
    <3> QED
      BY <3>1, <3>2
  <2> QED
    BY <2>1 DEF HandInv, Serializing
<1>12. QueuesInv'
  BY <1>1, <1>3, <1>8, <1>9 DEF QueuesInv
<1>13. ASSUME NEW l \in Linked, NEW q \in Place
       PROVE  /\ SerializedBy(l, q)' <=> SerializedBy(l, q)
              /\ DeserializedBy(l, q)' <=> DeserializedBy(l, q)
  <2>1. CASE q = p
    BY <1>4, <2>1 DEF SerializedBy, DeserializedBy, Serializing
  <2>2. CASE q # p
    BY <1>4, <2>2 DEF SerializedBy, DeserializedBy, Serializing
  <2> QED
    BY <2>1, <2>2
<1>14. SerializeOnce' /\ \A l \in Linked : Pending(l)' <=> Pending(l)
  <2>1. \A l \in Linked : (InSerialize(l)' <=> InSerialize(l)) /\ (InSend(l)' <=> InSend(l))
    BY DEF InSerialize, InSend
  <2> QED
    BY <1>1, <1>13, <2>1, SerializeFrame DEF SenderInv
<1>15. SendInv'
  <2>1. ASSUME NEW l \in Linked
        PROVE  /\ Pending(l)' => MasterOf(Source(l))' \in {"serializeReady", "send"} /\ ~UnderWay(l)'
               /\ UnderWay(l)' => MasterOf(Source(l))' \notin {"idle", "fill", "reduce", "allDone"}
               /\ MasterOf(Source(l))' = "fill" \/ Pending(l)' \/ UnderWay(l)'
                    => rbuf'[l] + 1 = round[Source(l)]
               /\ ~(MasterOf(Source(l))' = "fill" \/ Pending(l)' \/ UnderWay(l)')
                    => rbuf'[l] = round[Source(l)]
               /\ MasterOf(Source(l))' \notin {"idle", "reduce", "allDone"}
                    => squeue[l].id = round[Source(l)]
               /\ MasterOf(Source(l))' = "serializeReady" => Pending(l)'
    <3>1. CASE l = k
      <4>1. MasterOf(Source(k))' = MasterOf(Source(k))
        BY <1>3, <1>4
      <4>2. MasterOf(Source(k)) \notin {"idle", "fill", "reduce", "allDone", "serializeReady"}
        BY <1>1, <1>5 DEF SenderInv, SendInv
      <4> QED
        BY <1>5, <1>7, <1>14, <3>1, <4>1, <4>2
    <3>2. CASE l # k /\ Source(l) # r
      <4>1. MasterOf(Source(l))' = MasterOf(Source(l))
        BY <1>4, <3>2, LinkFacts
      <4> QED
        BY <1>1, <1>7, <1>14, <3>2, <4>1 DEF SenderInv, SendInv
    <3>3. CASE l # k /\ Source(l) = r
      BY <1>1, <1>7, <1>14, <3>3 DEF SenderInv, SendInv
    <3> QED
      BY <3>1, <3>2, <3>3
  <2> QED
    BY <2>1 DEF SendInv
<1>16. ToSendInv'
  <2>1. ASSUME NEW s \in Rank, MasterOf(s)' = "send"
        PROVE  toSend[s] = Cardinality({d \in SendTo(s) : Pending(<<s, d>>)'})
    <3>1. MasterOf(s) = "send"
      BY <1>4, <2>1
    <3>2. {d \in SendTo(s) : Pending(<<s, d>>)'} = {d \in SendTo(s) : Pending(<<s, d>>)}
      BY <1>14, SendEnds
    <3> QED
      BY <1>1, <3>1, <3>2 DEF SenderInv, ToSendInv
  <2> QED
    BY <2>1 DEF ToSendInv
<1>17. ASSUME NEW l \in Linked
       PROVE  /\ InDeserialize(l)' <=> InDeserialize(l) \/ l = k
              /\ InLinkSend(l)' <=> InLinkSend(l)
              /\ Undelivered(l)' <=> Undelivered(l) \/ l = k
              /\ Announced(l)' => Announced(l) /\ TargetRank(l) # r
              /\ Unreceived(l)' <=> Unreceived(l) /\ l # k
  <2>1. /\ TargetRank(l) \in Rank /\ <<TargetRank(l), 0>> \in Place
        /\ (TargetRank(l) = r /\ Key(l) = Key(k) <=> l = k)
    BY LinkFacts, PlaceFacts, SameLink
  <2>2. /\ InDeserialize(l)' <=> InDeserialize(l) \/ l = k
        /\ InLinkSend(l)' <=> InLinkSend(l)
    BY <1>8, <2>1 DEF InDeserialize, InLinkSend
  <2>3. Undelivered(l)' <=> Undelivered(l) \/ l = k
    BY <1>13, <2>2 DEF Undelivered
  <2>4. CASE TargetRank(l) = r
    <3>1. ~Announced(l)'
      BY <2>4 DEF Announced
    <3>2. Unreceived(l)' <=> Key(l) \in toReceive[r] /\ l # k
      BY <1>9, <2>1, <2>4, <3>1 DEF Unreceived
    <3>3. Announced(l) => l = k
      BY <2>1, <2>4 DEF Announced
    <3>4. Unreceived(l) <=> Key(l) \in toReceive[r] \/ Announced(l)
      BY <2>4 DEF Unreceived
    <3> QED
      BY <2>2, <2>3, <3>1, <3>2, <3>3, <3>4
  <2>5. CASE TargetRank(l) # r
    <3>1. MasterOf(TargetRank(l))' = MasterOf(TargetRank(l)) /\ l # k
      BY <1>4, <2>1, <2>5
    <3>2. <<TargetRank(l), 0>> # p
      BY <1>2, <2>5
    <3>3. Announced(l)' <=> Announced(l)
      BY <1>4, <2>1, <3>1, <3>2 DEF Announced
    <3>4. Unreceived(l)' <=> Unreceived(l)
      BY <1>9, <2>1, <2>5, <3>1, <3>3 DEF Unreceived
    <3> QED
      BY <2>2, <2>3, <2>5, <3>1, <3>3, <3>4
  <2> QED
    BY <2>4, <2>5
<1>18. DeserializeOnce'
  <2>1. ASSUME NEW l \in Linked
        PROVE  /\ ~(InDeserialize(l)' /\ InLinkSend(l)')
               /\ \A q \in Place : DeserializedBy(l, q)' =>
                   ~InDeserialize(l)' /\ ~InLinkSend(l)' /\ \A u \in Place : DeserializedBy(l, u)' => u = q
    <3>1. CASE l = k
      BY <1>6, <1>13, <1>17, <3>1 DEF Undelivered
    <3>2. CASE l # k
      BY <1>1, <1>13, <1>17, <3>2 DEF ReceiverInv, DeserializeOnce
    <3> QED
      BY <3>1, <3>2
  <2> QED
    BY <2>1 DEF DeserializeOnce
<1>19. ReceiveInv'
  <2>1. ASSUME NEW l \in Linked
        PROVE  /\ Unreceived(l)' => rbuf'[l] + 1 = round[TargetRank(l)] /\ ~Undelivered(l)'
               /\ ~Unreceived(l)' => rbuf'[l] = round[TargetRank(l)]
               /\ Announced(l)' => AtOdd(l)' /\ Key(l) \notin toReceive'[TargetRank(l)]
               /\ toReceive'[TargetRank(l)] # {}
                    => MasterOf(TargetRank(l))' \in {"send", "receive", "receiveOdd"}
               /\ Undelivered(l)' => got[l] + 1 = rbuf'[l]
               /\ ~Undelivered(l)' => got[l] = rbuf'[l]
    <3>1. TargetRank(l) \in Rank
      BY LinkFacts
    <3>2. toReceive'[TargetRank(l)] # {}
            => MasterOf(TargetRank(l))' \in {"send", "receive", "receiveOdd"}
      BY <1>4, <1>9, <3>1, Receiving
    <3>3. Announced(l)' => AtOdd(l)' /\ Key(l) \notin toReceive'[TargetRank(l)]
      <4>1. Announced(l)' => Announced(l) /\ TargetRank(l) # r /\ l # k
        BY <1>17
      <4>2. Announced(l) => AtOdd(l) /\ Key(l) \notin toReceive[TargetRank(l)]
        BY <1>1 DEF ReceiverInv, ReceiveInv
      <4> QED
        BY <1>9, <3>1, <4>1, <4>2
    <3>4. CASE l = k
      BY <1>6, <1>7, <1>17, <3>2, <3>3, <3>4
    <3>5. CASE l # k
      <4>1. rbuf'[l] = rbuf[l] /\ (Unreceived(l)' <=> Unreceived(l)) /\ (Undelivered(l)' <=> Undelivered(l))
        BY <1>7, <1>17, <3>5
      <4> QED
        BY <1>1, <3>2, <3>3, <4>1 DEF ReceiverInv, ReceiveInv
    <3> QED
      BY <3>4, <3>5
  <2> QED
    BY <2>1 DEF ReceiveInv
<1>20. DeliverInv' /\ ToDeliverInv'
  <2>1. \A q \in Place : SameReceiver(q)
    BY <1>4 DEF SameReceiver, NotDelivered
  <2> QED
    BY <1>1, <2>1, DeliverFrame DEF ReceiverInv
<1> QED
  BY <1>7, <1>8, <1>9, <1>10, <1>11, <1>12, <1>14, <1>15, <1>16, <1>18, <1>19, <1>20
     DEF SenderInv, ReceiverInv

(* What an unreceived message looks like when something of it has arrived. *)
LEMMA EvenArrived ==
    ASSUME ExchangeInd, NEW k \in Linked, even[k] # <<>>
    PROVE  /\ UnderWay(k)
           /\ Tail(even[k]) = <<>>
           /\ Head(even[k]) = "data" =>
                odd[k] = <<>> /\ Resized(k) /\ squeue[k].size <= localSize[k]
           /\ Head(even[k]) # "data" =>
                /\ odd[k] = <<"data">> /\ localSize[k] <= remoteSize[k]
                /\ remoteSize[k] = squeue[k].size
<1>1. /\ Head(<<"data">>) = "data" /\ Head(<<"header">>) = "header"
      /\ Tail(<<"data">>) = <<>> /\ Tail(<<"header">>) = <<>>
  OBVIOUS
<1>2. \/ even[k] = <<"data">> /\ odd[k] = <<>> /\ Resized(k) /\ squeue[k].size <= localSize[k]
      \/ AtHeader(k)
  BY DEF ExchangeInd, NetInv, AtOdd
<1> QED
  BY <1>1, <1>2 DEF AtHeader, UnderWay

LEMMA ReceiveDataStep ==
    ASSUME ExchangeInd, NEW r \in Rank, MasterOf(r) = "receive", NEW m \in toReceive[r],
           NEW k, k = At(r, m), even[k] # <<>>, Head(even[k]) = "data",
           even' = [even EXCEPT ![k] = Tail(@)],
           toReceive' = [toReceive EXCEPT ![r] = @ \ {m}],
           rbuf' = [rbuf EXCEPT ![k] = squeue[k].id],
           wrong' = (wrong \/ squeue[k].size > localSize[k]),
           deserializeQ' = [deserializeQ EXCEPT ![r] = @ \cup {m}],
           UNCHANGED <<xpc, hand, localSize, round, squeue, remoteSize, odd, serializeQ, sendQ,
                       linkSendQ, toSend, toDeliver, got>>
    PROVE  ExchangeInd'
<1>1. ExchangeType /\ NetInv /\ wrong = FALSE
  BY DEF ExchangeInd
<1>2. k \in Linked /\ TargetRank(k) = r /\ Key(k) = m
  BY ReceiveEnds DEF ExchangeInd, QueuesInv
<1>3. /\ UnderWay(k) /\ Tail(even[k]) = <<>> /\ odd[k] = <<>> /\ Resized(k)
      /\ squeue[k].size <= localSize[k]
  BY <1>2, EvenArrived
<1>4. squeue[k].size \in Nat /\ localSize[k] \in Nat
  BY <1>1, <1>2 DEF ExchangeType
<1>5. wrong' = FALSE
  <2>1. ~(squeue[k].size > localSize[k])
    BY <1>3, <1>4
  <2> QED
    BY <1>1, <2>1
<1>6. /\ even' \in [Linked -> Seq({"data", "header"})] /\ even'[k] = <<>>
      /\ \A l \in Linked : l # k => even'[l] = even[l]
  <2>1. even' = [even EXCEPT ![k] = <<>>]
    BY <1>3
  <2>2. <<>> \in Seq({"data", "header"})
    OBVIOUS
  <2>3. even \in [Linked -> Seq({"data", "header"})]
    BY <1>1 DEF ExchangeType
  <2> QED
    BY <1>2, <2>1, <2>2, <2>3
<1>7. Unreceived(k) /\ ~UnderWay(k)'
  BY <1>2, <1>3, <1>6 DEF Unreceived, UnderWay
<1>8. \A l \in Linked : l # k => (UnderWay(l)' <=> UnderWay(l)) /\ (AtOdd(l) => AtOdd(l)')
  BY <1>6 DEF UnderWay, AtOdd, Resized
<1>9. NetInv'
  BY <1>1, <1>3, <1>6 DEF NetInv, Resized, AtHeader, AtOdd
<1>10. /\ rbuf' \in [Linked -> Nat] /\ deserializeQ' \in [Rank -> SUBSET Place]
       /\ toReceive' \in [Rank -> SUBSET Place]
       /\ StageInv' /\ HandInv' /\ QueuesInv' /\ SenderInv' /\ ReceiverInv'
  <2>1. MasterOf(r)' = "receive" /\ xpc' \in [Place -> Stages]
    BY <1>1 DEF MasterOf, ExchangeType
  <2>2. MasterOf(r) \in {"receive", "receiveOdd"} /\ (MasterOf(r) = "receiveOdd" => Announced(k))
    OBVIOUS
  <2>3. /\ rbuf' = [rbuf EXCEPT ![k] = squeue[k].id]
        /\ deserializeQ' = [deserializeQ EXCEPT ![r] = @ \cup {Key(k)}]
        /\ toReceive' = [toReceive EXCEPT ![r] = @ \ {Key(k)}]
    BY <1>2
  <2> QED
    BY <1>2, <1>3, <1>7, <1>8, <2>1, <2>2, <2>3, Arrival
<1>11. ExchangeType'
  BY <1>1, <1>6, <1>10 DEF ExchangeType
<1> QED
  BY <1>5, <1>9, <1>10, <1>11 DEF ExchangeInd

(* The header grows the buffer; then the master waits for the odd tag. *)
LEMMA ReceiveHeaderStep ==
    ASSUME ExchangeInd, NEW r \in Rank, MasterOf(r) = "receive", NEW m \in toReceive[r],
           NEW k, k = At(r, m), even[k] # <<>>, Head(even[k]) # "data",
           even' = [even EXCEPT ![k] = Tail(@)],
           toReceive' = [toReceive EXCEPT ![r] = @ \ {m}],
           localSize' = [localSize EXCEPT ![k] = IF squeue[k].size > @ THEN squeue[k].size ELSE @],
           hand' = [hand EXCEPT ![<<r, 0>>] = m],
           xpc' = [xpc EXCEPT ![<<r, 0>>] = "receiveOdd"],
           UNCHANGED <<rbuf, wrong, deserializeQ, round, squeue, remoteSize, odd, serializeQ, sendQ,
                       linkSendQ, toSend, toDeliver, got>>
    PROVE  ExchangeInd'
<1>1. /\ ExchangeType /\ StageInv /\ HandInv /\ QueuesInv /\ NetInv /\ wrong = FALSE
      /\ SenderInv /\ ReceiverInv
  BY DEF ExchangeInd
<1>2. PICK p \in Place : p = <<r, 0>> /\ p[1] = r /\ p[2] = 0
  BY PlaceFacts
<1>3. /\ m \in ReceiveFrom(r) /\ m \in Place /\ m # None
      /\ k \in Linked /\ TargetRank(k) = r /\ Key(k) = m
  BY <1>1, ReceiveEnds DEF QueuesInv
<1>4. /\ UnderWay(k) /\ Tail(even[k]) = <<>> /\ odd[k] = <<"data">>
      /\ localSize[k] <= remoteSize[k] /\ remoteSize[k] = squeue[k].size
  BY <1>3, EvenArrived
<1>5. squeue[k].size \in Nat /\ localSize[k] \in Nat
  BY <1>1, <1>3 DEF ExchangeType
<1>6. /\ even' \in [Linked -> Seq({"data", "header"})] /\ even'[k] = <<>>
      /\ \A l \in Linked : l # k => even'[l] = even[l]
  <2>1. even' = [even EXCEPT ![k] = <<>>]
    BY <1>4
  <2>2. <<>> \in Seq({"data", "header"})
    OBVIOUS
  <2>3. even \in [Linked -> Seq({"data", "header"})]
    BY <1>1 DEF ExchangeType
  <2> QED
    BY <1>3, <2>1, <2>2, <2>3
<1>7. /\ localSize' \in [Linked -> Nat] /\ localSize'[k] = squeue[k].size
      /\ \A l \in Linked : l # k => localSize'[l] = localSize[l]
  <2>1. localSize \in [Linked -> Nat]
    BY <1>1 DEF ExchangeType
  <2>2. (IF squeue[k].size > localSize[k] THEN squeue[k].size ELSE localSize[k]) = squeue[k].size
    BY <1>4, <1>5
  <2>3. localSize' = [localSize EXCEPT ![k] = squeue[k].size]
    BY <2>2
  <2> QED
    BY <1>3, <1>5, <2>1, <2>3
<1>8. xpc[p] = "receive" /\ hand[p] = None
  BY <1>1, <1>2 DEF MasterOf, HandInv, Serializing
<1>9. /\ xpc' \in [Place -> Stages] /\ xpc'[p] = "receiveOdd"
      /\ \A q \in Place : q # p => xpc'[q] = xpc[q]
      /\ MasterOf(r)' = "receiveOdd" /\ \A s \in Rank : s # r => MasterOf(s)' = MasterOf(s)
      /\ StageInv'
  <2>1. "receive" \in MasterWorks /\ "receiveOdd" \in MasterWorks /\ "receiveOdd" \in Stages
    BY DEF Stages, MasterWorks
  <2>2. ExchangeType /\ StageInv /\ xpc[p] = "receive" /\ xpc' = [xpc EXCEPT ![p] = "receiveOdd"]
    BY <1>1, <1>2, <1>8
  <2> QED
    BY <1>2, <2>1, <2>2, OneMoves
<1>10. /\ hand' \in [Place -> Place \cup {None}] /\ hand'[p] = m
       /\ \A q \in Place : q # p => hand'[q] = hand[q]
  BY <1>1, <1>2, <1>3 DEF ExchangeType
<1>11. /\ toReceive' \in [Rank -> SUBSET Place] /\ toReceive'[r] = toReceive[r] \ {m}
       /\ \A s \in Rank : s # r => toReceive'[s] = toReceive[s]
  BY <1>1 DEF ExchangeType
<1>12. ExchangeType'
  BY <1>1, <1>6, <1>7, <1>9, <1>10, <1>11 DEF ExchangeType
<1>13. QueuesInv' /\ wrong' = FALSE
  BY <1>1, <1>11 DEF QueuesInv
<1>14. HandInv'
  <2>1. ASSUME NEW q \in Place, hand'[q] # None
        PROVE  \/ xpc'[q] \in {"serialize", "send"} /\ hand'[q] \in SendTo(q[1])
               \/ xpc'[q] = "deliver" /\ hand'[q] \in ReceiveFrom(q[1])
               \/ xpc'[q] = "receiveOdd" /\ hand'[q] \in ReceiveFrom(q[1])
    <3>1. CASE q = p
      BY <1>2, <1>3, <1>9, <1>10, <3>1
    <3>2. CASE q # p
      BY <1>1, <1>9, <1>10, <2>1, <3>2 DEF HandInv, Serializing
    <3> QED
      BY <3>1, <3>2
  <2> QED
    BY <2>1 DEF HandInv, Serializing
<1>15. AtOdd(k)' /\ \A l \in Linked : AtOdd(l) => AtOdd(l)'
  <2>1. AtOdd(k)'
    BY <1>4, <1>5, <1>6, <1>7 DEF AtOdd, Resized
  <2>2. \A l \in Linked : l # k => (AtOdd(l) => AtOdd(l)')
    BY <1>6, <1>7 DEF AtOdd, Resized
  <2> QED
    BY <2>1, <2>2
<1>16. NetInv'
  <2>1. \A l \in Linked : l # k =>
            \/ even'[l] = <<>> /\ odd'[l] = <<>> /\ Resized(l)'
            \/ even'[l] = <<"data">> /\ odd'[l] = <<>> /\ Resized(l)' /\ squeue'[l].size <= localSize'[l]
            \/ AtHeader(l)'
            \/ AtOdd(l)'
    BY <1>1, <1>6, <1>7 DEF NetInv, Resized, AtHeader, AtOdd
  <2> QED
    BY <1>15, <2>1 DEF NetInv
<1>17. \A l \in Linked : UnderWay(l)' <=> UnderWay(l)
  <2>1. <<"data">> # <<>>
    OBVIOUS
  <2> QED
    BY <1>4, <1>6, <2>1 DEF UnderWay
<1>18. ASSUME NEW l \in Linked, NEW q \in Place
       PROVE  /\ SerializedBy(l, q)' <=> SerializedBy(l, q)
              /\ DeserializedBy(l, q)' <=> DeserializedBy(l, q)
  <2>1. CASE q = p
    BY <1>8, <1>9, <2>1 DEF SerializedBy, DeserializedBy, Serializing
  <2>2. CASE q # p
    BY <1>9, <1>10, <2>2 DEF SerializedBy, DeserializedBy, Serializing
  <2> QED
    BY <2>1, <2>2
<1>19. ASSUME NEW l \in Linked
       PROVE  /\ InSerialize(l)' <=> InSerialize(l)
              /\ InSend(l)' <=> InSend(l)
              /\ InDeserialize(l)' <=> InDeserialize(l)
              /\ InLinkSend(l)' <=> InLinkSend(l)
  BY DEF InSerialize, InSend, InDeserialize, InLinkSend
<1>20. SerializeOnce' /\ \A l \in Linked : Pending(l)' <=> Pending(l)
  BY <1>1, <1>18, <1>19, SerializeFrame DEF SenderInv
<1>21. DeserializeOnce' /\ \A l \in Linked : Undelivered(l)' <=> Undelivered(l)
  BY <1>1, <1>18, <1>19, DeserializeFrame DEF ReceiverInv
<1>22. SenderInv'
  <2>1. \A s \in Rank : SameSender(s)
    BY <1>9 DEF SameSender, Active
  <2> QED
    BY <1>1, <1>17, <1>20, <2>1, SenderFrame
<1>23. ASSUME NEW l \in Linked
       PROVE  /\ Announced(l)' <=> Announced(l) \/ l = k
              /\ Unreceived(l)' <=> Unreceived(l)
  <2>1. /\ TargetRank(l) \in Rank /\ <<TargetRank(l), 0>> \in Place
        /\ (TargetRank(l) = r /\ Key(l) = m <=> l = k)
    BY <1>3, LinkFacts, PlaceFacts, SameLink
  <2>2. CASE TargetRank(l) = r
    <3>1. ~Announced(l) /\ (Announced(l)' <=> l = k)
      BY <1>2, <1>9, <1>10, <2>1, <2>2 DEF Announced
    <3>2. Unreceived(l) <=> Key(l) \in toReceive[r]
      BY <2>2, <3>1 DEF Unreceived
    <3>3. Unreceived(l)' <=> Key(l) \in toReceive'[r] \/ l = k
      BY <1>9, <2>2, <3>1 DEF Unreceived
    <3>4. l = k => Key(l) \in toReceive[r]
      BY <1>3
    <3> QED
      BY <1>11, <2>1, <2>2, <3>1, <3>2, <3>3, <3>4
  <2>3. CASE TargetRank(l) # r
    <3>1. MasterOf(TargetRank(l))' = MasterOf(TargetRank(l)) /\ l # k
      BY <1>3, <1>9, <2>1, <2>3
    <3>2. hand'[<<TargetRank(l), 0>>] = hand[<<TargetRank(l), 0>>]
      BY <1>2, <1>10, <2>1, <2>3
    <3>3. Announced(l)' <=> Announced(l)
      BY <3>1, <3>2 DEF Announced
    <3> QED
      BY <1>11, <2>1, <2>3, <3>1, <3>3 DEF Unreceived
  <2> QED
    BY <2>2, <2>3
<1>24. ReceiveInv'
  <2>1. ASSUME NEW l \in Linked
        PROVE  /\ Unreceived(l)' => rbuf[l] + 1 = round[TargetRank(l)] /\ ~Undelivered(l)'
               /\ ~Unreceived(l)' => rbuf[l] = round[TargetRank(l)]
               /\ Announced(l)' => AtOdd(l)' /\ Key(l) \notin toReceive'[TargetRank(l)]
               /\ toReceive'[TargetRank(l)] # {}
                    => MasterOf(TargetRank(l))' \in {"send", "receive", "receiveOdd"}
               /\ Undelivered(l)' => got[l] + 1 = rbuf[l]
               /\ ~Undelivered(l)' => got[l] = rbuf[l]
    <3>1. TargetRank(l) \in Rank
      BY LinkFacts
    <3>2. toReceive'[TargetRank(l)] # {}
            => MasterOf(TargetRank(l))' \in {"send", "receive", "receiveOdd"}
      BY <1>9, <1>11, <3>1, Receiving
    <3>3. toReceive'[TargetRank(l)] \subseteq toReceive[TargetRank(l)]
      BY <1>11, <3>1
    <3>4. Announced(l) => AtOdd(l) /\ Key(l) \notin toReceive[TargetRank(l)]
      BY <1>1 DEF ReceiverInv, ReceiveInv
    <3>5. l = k => AtOdd(l)' /\ Key(l) \notin toReceive'[TargetRank(l)]
      BY <1>3, <1>11, <1>15
    <3>6. Announced(l)' => AtOdd(l)' /\ Key(l) \notin toReceive'[TargetRank(l)]
      BY <1>15, <1>23, <3>3, <3>4, <3>5
    <3> QED
      BY <1>1, <1>21, <1>23, <3>2, <3>6 DEF ReceiverInv, ReceiveInv
  <2> QED
    BY <2>1 DEF ReceiveInv
<1>25. DeliverInv' /\ ToDeliverInv'
  <2>1. \A q \in Place : SameReceiver(q)
    BY <1>8, <1>9 DEF SameReceiver, NotDelivered
  <2> QED
    BY <1>1, <2>1, DeliverFrame DEF ReceiverInv
<1> QED
  BY <1>9, <1>12, <1>13, <1>14, <1>16, <1>21, <1>22, <1>24, <1>25 DEF ExchangeInd, ReceiverInv

LEMMA ReceiveStep ==
    ASSUME ExchangeInd, NEW r \in Rank, Receive(r)
    PROVE  ExchangeInd'
<1>1. MasterOf(r) = "receive"
  BY DEF Receive, MasterOf
<1>2. PICK m \in toReceive[r] :
        /\ even[At(r, m)] # <<>>
        /\ even' = [even EXCEPT ![At(r, m)] = Tail(@)]
        /\ toReceive' = [toReceive EXCEPT ![r] = @ \ {m}]
        /\ IF Head(even[At(r, m)]) = "data"
           THEN /\ rbuf' = [rbuf EXCEPT ![At(r, m)] = squeue[At(r, m)].id]
                /\ wrong' = (wrong \/ squeue[At(r, m)].size > localSize[At(r, m)])
                /\ deserializeQ' = [deserializeQ EXCEPT ![r] = @ \cup {m}]
                /\ UNCHANGED <<xpc, hand, localSize>>
           ELSE /\ localSize' = [localSize EXCEPT ![At(r, m)] =
                        IF squeue[At(r, m)].size > @ THEN squeue[At(r, m)].size ELSE @]
                /\ hand' = [hand EXCEPT ![<<r, 0>>] = m]
                /\ xpc' = [xpc EXCEPT ![<<r, 0>>] = "receiveOdd"]
                /\ UNCHANGED <<rbuf, wrong, deserializeQ>>
  BY DEF Receive, Goto
<1>3. UNCHANGED <<round, squeue, remoteSize, odd, serializeQ, sendQ, linkSendQ, toSend, toDeliver, got>>
  BY DEF Receive
<1>4. CASE Head(even[At(r, m)]) = "data"
  BY <1>1, <1>2, <1>3, <1>4, ReceiveDataStep
<1>5. CASE Head(even[At(r, m)]) # "data"
  BY <1>1, <1>2, <1>3, <1>5, ReceiveHeaderStep
<1> QED
  BY <1>4, <1>5

LEMMA ReceiveOddStep ==
    ASSUME ExchangeInd, HeaderInv, NEW r \in Rank, ReceiveOdd(r)
    PROVE  ExchangeInd'
<1>1. ExchangeType /\ StageInv /\ HandInv /\ NetInv /\ wrong = FALSE /\ ReceiverInv
  BY DEF ExchangeInd
<1>2. PICK p \in Place : p = <<r, 0>> /\ p[1] = r /\ p[2] = 0
  BY PlaceFacts
<1>3. PICK m : m = hand[p]
  OBVIOUS
<1>4. PICK k : k = At(r, m)
  OBVIOUS
<1>5. /\ xpc[p] = "receiveOdd" /\ odd[k] # <<>> /\ odd' = [odd EXCEPT ![k] = Tail(@)]
      /\ rbuf' = [rbuf EXCEPT ![k] = squeue[k].id]
      /\ wrong' = (wrong \/ squeue[k].size > localSize[k])
      /\ deserializeQ' = [deserializeQ EXCEPT ![r] = @ \cup {m}]
      /\ hand' = [hand EXCEPT ![p] = None] /\ xpc' = [xpc EXCEPT ![p] = "receive"]
      /\ UNCHANGED <<round, squeue, remoteSize, localSize, even, serializeQ, sendQ, linkSendQ, toSend,
                     toReceive, toDeliver, got>>
  BY <1>2, <1>3, <1>4 DEF ReceiveOdd, Goto, counts
<1>6. m \in ReceiveFrom(r)
  BY <1>1, <1>2, <1>3, <1>5 DEF HeaderInv, HandInv, Serializing
<1>7. k \in Linked /\ TargetRank(k) = r /\ Key(k) = m
  BY <1>4, <1>6, ReceiveEnds
<1>8. MasterOf(r) = "receiveOdd" /\ Announced(k) /\ Unreceived(k)
  BY <1>2, <1>3, <1>5, <1>7 DEF MasterOf, Announced, Unreceived
<1>9. AtOdd(k) /\ m \notin toReceive[r]
  BY <1>1, <1>7, <1>8 DEF ReceiverInv, ReceiveInv
<1>10. /\ even[k] = <<>> /\ odd[k] = <<"data">> /\ Tail(odd[k]) = <<>> /\ UnderWay(k) /\ Resized(k)
       /\ squeue[k].size <= localSize[k]
  BY <1>9 DEF AtOdd, UnderWay
<1>11. wrong' = FALSE
  <2>1. squeue[k].size \in Nat /\ localSize[k] \in Nat
    BY <1>1, <1>7 DEF ExchangeType
  <2>2. ~(squeue[k].size > localSize[k])
    BY <1>10, <2>1
  <2> QED
    BY <1>1, <1>5, <2>2
<1>12. /\ odd' \in [Linked -> Seq({"data", "header"})] /\ odd'[k] = <<>>
       /\ \A l \in Linked : l # k => odd'[l] = odd[l]
  <2>1. odd' = [odd EXCEPT ![k] = <<>>]
    BY <1>5, <1>10
  <2>2. <<>> \in Seq({"data", "header"})
    OBVIOUS
  <2>3. odd \in [Linked -> Seq({"data", "header"})]
    BY <1>1 DEF ExchangeType
  <2> QED
    BY <1>7, <2>1, <2>2, <2>3
<1>13. /\ xpc' \in [Place -> Stages] /\ xpc'[p] = "receive" /\ MasterOf(r)' = "receive"
       /\ \A q \in Place : q # p => xpc'[q] = xpc[q]
  <2>1. "receive" \in MasterWorks /\ "receiveOdd" \in MasterWorks /\ "receive" \in Stages
    BY DEF Stages, MasterWorks
  <2>2. ExchangeType /\ StageInv /\ xpc[p] = "receiveOdd" /\ xpc' = [xpc EXCEPT ![p] = "receive"]
    BY <1>1, <1>5
  <2> QED
    BY <1>2, <2>1, <2>2, OneMoves
<1>14. /\ hand' \in [Place -> Place \cup {None}] /\ hand'[p] = None
       /\ \A q \in Place : q # p => hand'[q] = hand[q]
  BY <1>1, <1>5 DEF ExchangeType
<1>15. \A l \in Linked : l # k => (UnderWay(l)' <=> UnderWay(l)) /\ (AtOdd(l) => AtOdd(l)')
  BY <1>5, <1>12 DEF UnderWay, AtOdd, Resized
<1>16. ~UnderWay(k)'
  BY <1>5, <1>10, <1>12 DEF UnderWay
<1>17. NetInv'
  <2>1. Resized(k)' /\ even'[k] = <<>>
    BY <1>5, <1>10 DEF Resized
  <2> QED
    BY <1>1, <1>5, <1>12, <2>1 DEF NetInv, Resized, AtHeader, AtOdd
<1>18. /\ rbuf' \in [Linked -> Nat] /\ deserializeQ' \in [Rank -> SUBSET Place]
       /\ toReceive' \in [Rank -> SUBSET Place]
       /\ StageInv' /\ HandInv' /\ QueuesInv' /\ SenderInv' /\ ReceiverInv'
  <2>1. MasterOf(r) \in {"receive", "receiveOdd"} /\ (MasterOf(r) = "receiveOdd" => Announced(k))
    BY <1>8
  <2>2. toReceive \in [Rank -> SUBSET Place] /\ toReceive[r] \ {Key(k)} = toReceive[r]
    BY <1>1, <1>7, <1>9 DEF ExchangeType
  <2>3. toReceive' = [toReceive EXCEPT ![r] = @ \ {Key(k)}]
    BY <1>5, <2>2
  <2>4. deserializeQ' = [deserializeQ EXCEPT ![r] = @ \cup {Key(k)}]
    BY <1>5, <1>7
  <2>5. \A q \in Place : q # <<r, 0>> => xpc'[q] = xpc[q] /\ hand'[q] = hand[q]
    BY <1>2, <1>13, <1>14
  <2>6. /\ xpc'[<<r, 0>>] = xpc[<<r, 0>>] => hand'[<<r, 0>>] = hand[<<r, 0>>]
        /\ xpc'[<<r, 0>>] # xpc[<<r, 0>>] => hand'[<<r, 0>>] = None
    BY <1>2, <1>5, <1>13, <1>14
  <2> QED
    BY <1>5, <1>7, <1>8, <1>10, <1>13, <1>15, <1>16, <2>1, <2>3, <2>4, <2>5, <2>6, Arrival
<1>19. ExchangeType'
  BY <1>1, <1>5, <1>12, <1>13, <1>14, <1>18 DEF ExchangeType
<1> QED
  BY <1>11, <1>17, <1>18, <1>19 DEF ExchangeInd

-----------------------------------------------------------------------------
(* Deserialization and delivery. *)

(* Work that a delivering thread takes or puts down is not noticed on the *)
(* sending side, nor by the receives.                                     *)
LEMMA DeserializeQuiet ==
    ASSUME ExchangeInd, NEW p \in Place, xpc[p] = "deliver", NEW v,
           hand' = [hand EXCEPT ![p] = v],
           UNCHANGED <<xpc, round, squeue, remoteSize, localSize, rbuf, even, odd, serializeQ, sendQ,
                       toSend, toReceive>>
    PROVE  /\ StageInv' /\ NetInv' /\ SenderInv'
           /\ hand'[p] = v /\ \A q \in Place : q # p => hand'[q] = hand[q]
           /\ \A l \in Linked : /\ Unreceived(l)' <=> Unreceived(l)
                                /\ Announced(l)' => Announced(l)
                                /\ AtOdd(l) => AtOdd(l)'
           /\ \A s \in Rank : toReceive[s] # {} => MasterOf(s)' \in {"send", "receive", "receiveOdd"}
<1>1. /\ hand \in [Place -> Place \cup {None}] /\ StageInv /\ NetInv /\ SenderInv
  BY DEF ExchangeInd, ExchangeType
<1>2. hand'[p] = v /\ \A q \in Place : q # p => hand'[q] = hand[q]
  BY <1>1
<1>3. StageInv'
  BY <1>1 DEF StageInv, Together, MasterOf, AllAt
<1>4. NetInv'
  BY <1>1 DEF NetInv, Resized, AtHeader, AtOdd
<1>5. ASSUME NEW l \in Linked
      PROVE  /\ InSerialize(l)' <=> InSerialize(l)
             /\ InSend(l)' <=> InSend(l)
             /\ \A q \in Place : SerializedBy(l, q)' <=> SerializedBy(l, q)
  BY <1>2 DEF InSerialize, InSend, SerializedBy, Serializing
<1>6. SerializeOnce' /\ \A l \in Linked : Pending(l)' <=> Pending(l)
  BY <1>1, <1>5, SerializeFrame DEF SenderInv
<1>7. SenderInv'
  <2>1. \A s \in Rank : SameSender(s)
    BY DEF SameSender, MasterOf
  <2>2. \A l \in Linked : UnderWay(l)' <=> UnderWay(l)
    BY DEF UnderWay
  <2> QED
    BY <1>1, <1>6, <2>1, <2>2, SenderFrame
<1>8. ASSUME NEW l \in Linked
      PROVE  /\ Unreceived(l)' <=> Unreceived(l)
             /\ Announced(l)' => Announced(l)
             /\ AtOdd(l) => AtOdd(l)'
  <2>1. <<TargetRank(l), 0>> \in Place
    BY LinkFacts, PlaceFacts
  <2>2. Announced(l)' <=> Announced(l)
    BY <1>2, <2>1 DEF Announced, MasterOf
  <2> QED
    BY <2>2 DEF Unreceived, MasterOf, AtOdd, Resized
<1>9. \A s \in Rank : toReceive[s] # {} => MasterOf(s)' \in {"send", "receive", "receiveOdd"}
  BY Receiving DEF MasterOf
<1> QED
  BY <1>2, <1>3, <1>4, <1>7, <1>8, <1>9

LEMMA TakeDeserializeStep ==
    ASSUME ExchangeInd, NEW r \in Rank, NEW t \in RankThread, TakeDeserialize(r, t)
    PROVE  ExchangeInd'
<1>1. /\ ExchangeType /\ HandInv /\ QueuesInv /\ wrong = FALSE /\ ReceiverInv
  BY DEF ExchangeInd
<1>2. PICK p \in Place : p = <<r, t>> /\ p[1] = r
  BY PlaceFacts
<1>3. PICK m \in deserializeQ[r] :
          /\ deserializeQ' = [deserializeQ EXCEPT ![r] = @ \ {m}]
          /\ hand' = [hand EXCEPT ![p] = m]
  BY <1>2 DEF TakeDeserialize
<1>4. /\ hand[p] = None /\ xpc[p] = "deliver"
      /\ UNCHANGED <<xpc, round, squeue, remoteSize, localSize, rbuf, even, odd, serializeQ, sendQ,
                     linkSendQ, toSend, toReceive, toDeliver, got, wrong>>
  BY <1>2 DEF TakeDeserialize, buffers, net
<1>5. m \in ReceiveFrom(r) /\ m \in Place /\ m # None
  BY <1>1, ReceiveEnds DEF QueuesInv
<1>6. /\ StageInv' /\ NetInv' /\ SenderInv'
      /\ hand'[p] = m /\ \A q \in Place : q # p => hand'[q] = hand[q]
      /\ \A l \in Linked : /\ Unreceived(l)' <=> Unreceived(l)
                           /\ Announced(l)' => Announced(l)
                           /\ AtOdd(l) => AtOdd(l)'
      /\ \A s \in Rank : toReceive[s] # {} => MasterOf(s)' \in {"send", "receive", "receiveOdd"}
  BY <1>3, <1>4, DeserializeQuiet
<1>7. /\ deserializeQ'[r] = deserializeQ[r] \ {m}
      /\ \A s \in Rank : s # r => deserializeQ'[s] = deserializeQ[s]
      /\ deserializeQ' \in [Rank -> SUBSET Place]
  BY <1>1, <1>3 DEF ExchangeType
<1>8. ExchangeType'
  <2>1. hand' \in [Place -> Place \cup {None}]
    BY <1>1, <1>3, <1>5 DEF ExchangeType
  <2> QED
    BY <1>1, <1>4, <1>7, <2>1 DEF ExchangeType
<1>9. HandInv'
  BY <1>1, <1>2, <1>4, <1>5, <1>6 DEF HandInv, Serializing
<1>10. QueuesInv'
  BY <1>1, <1>4, <1>7 DEF QueuesInv
<1>11. PICK k \in Linked : TargetRank(k) = r /\ Key(k) = m
  BY <1>5, ReceiveEnds
<1>12. ASSUME NEW l \in Linked
       PROVE  /\ InDeserialize(l)' <=> InDeserialize(l) /\ l # k
              /\ InLinkSend(l)' <=> InLinkSend(l)
              /\ DeserializedBy(l, p)' <=> l = k
              /\ ~DeserializedBy(l, p)
              /\ \A q \in Place : q # p => (DeserializedBy(l, q)' <=> DeserializedBy(l, q))
  <2>1. TargetRank(l) \in Rank /\ Key(l) # None /\ (TargetRank(l) = r /\ Key(l) = m <=> l = k)
    BY <1>11, LinkFacts, SameLink
  <2> QED
    BY <1>2, <1>4, <1>6, <1>7, <2>1 DEF InDeserialize, InLinkSend, DeserializedBy
<1>13. InDeserialize(k)
  BY <1>3, <1>11 DEF InDeserialize
<1>14. DeserializeOnce'
  BY <1>1, <1>12, <1>13 DEF DeserializeOnce, ReceiverInv
<1>15. \A l \in Linked : Undelivered(l)' <=> Undelivered(l)
  BY <1>12, <1>13 DEF Undelivered
<1>16. ReceiveInv'
  BY <1>1, <1>4, <1>6, <1>15, ReceiveFrame DEF ReceiverInv
<1>17. DeliverInv' /\ ToDeliverInv'
  <2>1. \A q \in Place : SameReceiver(q)
    BY <1>4 DEF SameReceiver
  <2> QED
    BY <1>1, <1>4, <2>1, DeliverFrame DEF ReceiverInv
<1> QED
  BY <1>1, <1>4, <1>6, <1>8, <1>9, <1>10, <1>14, <1>16, <1>17 DEF ExchangeInd, ReceiverInv

LEMMA PutLinkSendStep ==
    ASSUME ExchangeInd, NEW r \in Rank, NEW t \in RankThread, PutLinkSend(r, t)
    PROVE  ExchangeInd'
<1>1. /\ ExchangeType /\ HandInv /\ QueuesInv /\ wrong = FALSE /\ ReceiverInv
  BY DEF ExchangeInd
<1>2. PICK p \in Place : p = <<r, t>> /\ p[1] = r
  BY PlaceFacts
<1>3. PICK m : m = hand[p]
  OBVIOUS
<1>4. PICK o : o = <<r, m[2]>>
  OBVIOUS
<1>5. /\ m # None /\ xpc[p] = "deliver"
      /\ linkSendQ' = [linkSendQ EXCEPT ![o] = @ \cup {m}] /\ hand' = [hand EXCEPT ![p] = None]
      /\ UNCHANGED <<xpc, round, squeue, remoteSize, localSize, rbuf, even, odd, serializeQ, sendQ,
                     deserializeQ, toSend, toReceive, toDeliver, got, wrong>>
  BY <1>2, <1>3, <1>4 DEF PutLinkSend, buffers, net, counts
<1>6. m \in ReceiveFrom(r)
  BY <1>1, <1>2, <1>3, <1>5 DEF HandInv, Serializing
<1>7. PICK k \in Linked : TargetRank(k) = r /\ Key(k) = m /\ Target(k) = o /\ o \in Place
  BY <1>4, <1>6, ReceiveEnds, LinkFacts
<1>8. m \in Place /\ o[1] = r /\ o[2] = m[2]
  BY <1>4, <1>7, LinkFacts
<1>9. /\ StageInv' /\ NetInv' /\ SenderInv'
      /\ hand'[p] = None /\ \A q \in Place : q # p => hand'[q] = hand[q]
      /\ \A l \in Linked : /\ Unreceived(l)' <=> Unreceived(l)
                           /\ Announced(l)' => Announced(l)
                           /\ AtOdd(l) => AtOdd(l)'
      /\ \A s \in Rank : toReceive[s] # {} => MasterOf(s)' \in {"send", "receive", "receiveOdd"}
  BY <1>5, DeserializeQuiet
<1>10. /\ linkSendQ'[o] = linkSendQ[o] \cup {m}
       /\ \A q \in Place : q # o => linkSendQ'[q] = linkSendQ[q]
       /\ linkSendQ' \in [Place -> SUBSET Place]
  BY <1>1, <1>5, <1>7, <1>8 DEF ExchangeType
<1>11. ExchangeType'
  <2>1. hand' \in [Place -> Place \cup {None}]
    BY <1>1, <1>5 DEF ExchangeType
  <2> QED
    BY <1>1, <1>5, <1>10, <2>1 DEF ExchangeType
<1>12. HandInv'
  BY <1>1, <1>5, <1>9 DEF HandInv, Serializing
<1>13. QueuesInv'
  <2>1. \A q \in Place : \A n \in linkSendQ'[q] : n \in ReceiveFrom(q[1]) /\ n[2] = q[2]
    BY <1>1, <1>6, <1>8, <1>10 DEF QueuesInv
  <2> QED
    BY <1>1, <1>5, <2>1 DEF QueuesInv
<1>14. ASSUME NEW l \in Linked
       PROVE  /\ InDeserialize(l)' <=> InDeserialize(l)
              /\ InLinkSend(l)' <=> InLinkSend(l) \/ l = k
              /\ ~DeserializedBy(l, p)'
              /\ DeserializedBy(l, p) <=> l = k
              /\ \A q \in Place : q # p => (DeserializedBy(l, q)' <=> DeserializedBy(l, q))
  <2>1. /\ TargetRank(l) \in Rank /\ Key(l) # None /\ (TargetRank(l) = r /\ Key(l) = m <=> l = k)
        /\ Target(l) \in Place
    BY <1>7, LinkFacts, SameLink
  <2>2. Target(l) = o /\ Key(l) = m <=> l = k
    BY <1>7, <1>8, <2>1, LinkFacts
  <2>3. InLinkSend(l)' <=> InLinkSend(l) \/ l = k
    BY <1>10, <2>1, <2>2 DEF InLinkSend
  <2> QED
    BY <1>2, <1>3, <1>5, <1>9, <2>1, <2>3 DEF InDeserialize, DeserializedBy
<1>15. DeserializeOnce'
  BY <1>1, <1>14 DEF DeserializeOnce, ReceiverInv
<1>16. \A l \in Linked : Undelivered(l)' <=> Undelivered(l)
  BY <1>14 DEF Undelivered
<1>17. ReceiveInv'
  BY <1>1, <1>5, <1>9, <1>16, ReceiveFrame DEF ReceiverInv
<1>18. DeliverInv' /\ ToDeliverInv'
  <2>1. \A q \in Place : SameReceiver(q)
    BY <1>5 DEF SameReceiver
  <2> QED
    BY <1>1, <1>5, <2>1, DeliverFrame DEF ReceiverInv
<1> QED
  BY <1>1, <1>5, <1>9, <1>11, <1>12, <1>13, <1>15, <1>17, <1>18 DEF ExchangeInd, ReceiverInv

LEMMA DeliverStep ==
    ASSUME ExchangeInd, NEW r \in Rank, NEW t \in RankThread, Deliver(r, t)
    PROVE  ExchangeInd'
<1>1. /\ ExchangeType /\ HandInv /\ QueuesInv /\ wrong = FALSE /\ ReceiverInv
  BY DEF ExchangeInd
<1>2. PICK p \in Place : p = <<r, t>> /\ p[1] = r /\ p[2] = t
  BY PlaceFacts
<1>3. PICK m \in linkSendQ[p] :
          /\ linkSendQ' = [linkSendQ EXCEPT ![p] = @ \ {m}]
          /\ got' = [got EXCEPT ![At(r, m)] = rbuf[At(r, m)]]
          /\ wrong' = (wrong \/ m[2] # t \/ rbuf[At(r, m)] # got[At(r, m)] + 1)
  BY <1>2 DEF Deliver
<1>4. /\ hand[p] = None /\ xpc[p] = "deliver" /\ toDeliver' = [toDeliver EXCEPT ![p] = @ - 1]
      /\ UNCHANGED <<xpc, hand, round, squeue, remoteSize, localSize, rbuf, even, odd, serializeQ, sendQ,
                     deserializeQ, toSend, toReceive>>
  BY <1>2 DEF Deliver, buffers, net
<1>5. m \in ReceiveFrom(r) /\ m[2] = t
  BY <1>1, <1>2 DEF QueuesInv
<1>6. PICK k \in Linked : k = At(r, m) /\ TargetRank(k) = r /\ Key(k) = m /\ Target(k) = p
  BY <1>2, <1>5, ReceiveEnds
<1>7. InLinkSend(k) /\ Undelivered(k)
  BY <1>6 DEF InLinkSend, Undelivered
<1>8. got[k] + 1 = rbuf[k] /\ rbuf[k] = round[r] /\ ~Unreceived(k)
  BY <1>1, <1>6, <1>7 DEF ReceiverInv, ReceiveInv
<1>9. got[k] \in Nat /\ rbuf[k] \in Nat /\ got[k] # rbuf[k]
  BY <1>1, <1>8 DEF ExchangeType
<1>10. wrong' = FALSE
  BY <1>1, <1>3, <1>5, <1>6, <1>8
<1>11. /\ got' \in [Linked -> Nat] /\ got'[k] = rbuf[k]
       /\ \A l \in Linked : l # k => got'[l] = got[l]
  BY <1>1, <1>3, <1>6, <1>9 DEF ExchangeType
<1>12. /\ linkSendQ'[p] = linkSendQ[p] \ {m}
       /\ \A q \in Place : q # p => linkSendQ'[q] = linkSendQ[q]
       /\ linkSendQ' \in [Place -> SUBSET Place]
  BY <1>1, <1>3 DEF ExchangeType
<1>13. /\ toDeliver'[p] = toDeliver[p] - 1
       /\ \A q \in Place : q # p => toDeliver'[q] = toDeliver[q]
       /\ toDeliver' \in [Place -> Int]
  BY <1>1, <1>4 DEF ExchangeType
<1>14. /\ StageInv' /\ NetInv' /\ SenderInv'
       /\ \A l \in Linked : /\ Unreceived(l)' <=> Unreceived(l)
                            /\ Announced(l)' => Announced(l)
                            /\ AtOdd(l) => AtOdd(l)'
       /\ \A s \in Rank : toReceive[s] # {} => MasterOf(s)' \in {"send", "receive", "receiveOdd"}
  <2>1. hand' = [hand EXCEPT ![p] = None]
    BY <1>1, <1>4 DEF ExchangeType
  <2> QED
    BY <1>4, <2>1, DeserializeQuiet
<1>15. ExchangeType'
  BY <1>1, <1>4, <1>11, <1>12, <1>13 DEF ExchangeType
<1>16. HandInv' /\ QueuesInv'
  <2>1. HandInv'
    BY <1>1, <1>4 DEF HandInv, Serializing
  <2>2. QueuesInv'
    BY <1>1, <1>4, <1>12 DEF QueuesInv
  <2> QED
    BY <2>1, <2>2
<1>17. ASSUME NEW l \in Linked
       PROVE  /\ InDeserialize(l)' <=> InDeserialize(l)
              /\ InLinkSend(l)' <=> InLinkSend(l) /\ l # k
              /\ \A q \in Place : DeserializedBy(l, q)' <=> DeserializedBy(l, q)
  <2>1. Target(l) \in Place /\ (Target(l) = p /\ Key(l) = m <=> l = k)
    BY <1>6, LinkFacts, SameLink
  <2> QED
    BY <1>4, <1>12, <2>1 DEF InDeserialize, InLinkSend, DeserializedBy
<1>18. DeserializeOnce'
  BY <1>1, <1>17 DEF ReceiverInv, DeserializeOnce
<1>19. \A l \in Linked : Undelivered(l)' <=> Undelivered(l) /\ l # k
  BY <1>1, <1>6, <1>7, <1>17 DEF Undelivered, ReceiverInv, DeserializeOnce
<1>20. ReceiveInv'
  <2>1. ASSUME NEW l \in Linked
        PROVE  /\ Unreceived(l)' => rbuf[l] + 1 = round[TargetRank(l)] /\ ~Undelivered(l)'
               /\ ~Unreceived(l)' => rbuf[l] = round[TargetRank(l)]
               /\ Announced(l)' => AtOdd(l)' /\ Key(l) \notin toReceive[TargetRank(l)]
               /\ toReceive[TargetRank(l)] # {}
                    => MasterOf(TargetRank(l))' \in {"send", "receive", "receiveOdd"}
               /\ Undelivered(l)' => got'[l] + 1 = rbuf[l]
               /\ ~Undelivered(l)' => got'[l] = rbuf[l]
    <3>1. TargetRank(l) \in Rank
      BY LinkFacts
    <3>2. /\ Undelivered(l)' => got'[l] + 1 = rbuf[l]
          /\ ~Undelivered(l)' => got'[l] = rbuf[l]
      BY <1>1, <1>11, <1>19 DEF ReceiverInv, ReceiveInv
    <3> QED
      BY <1>1, <1>14, <1>19, <3>1, <3>2 DEF ReceiverInv, ReceiveInv
  <2> QED
    BY <1>4, <2>1 DEF ReceiveInv
<1>21. DeliverInv'
  <2>1. ASSUME NEW l \in Linked
        PROVE  /\ xpc[Target(l)] \in NotDelivered => got'[l] + 1 = round[TargetRank(l)]
               /\ xpc[Target(l)] \in AllDelivered => got'[l] = round[TargetRank(l)]
    <3>1. CASE l = k
      BY <1>4, <1>6, <3>1 DEF NotDelivered, AllDelivered
    <3>2. CASE l # k
      BY <1>1, <1>11, <3>2 DEF ReceiverInv, DeliverInv, NotDelivered, AllDelivered
    <3> QED
      BY <3>1, <3>2
  <2> QED
    BY <1>4, <2>1 DEF DeliverInv, NotDelivered, AllDelivered
<1>22. ToDeliverInv'
  <2>1. LeftFor(p)' = LeftFor(p) \ {m}
    <3>1. ASSUME NEW n \in ReceiveFrom(r), n[2] = t
          PROVE  got'[At(r, n)] # round[r] <=> got[At(r, n)] # round[r] /\ n # m
      <4>1. PICK l \in Linked : l = At(r, n) /\ TargetRank(l) = r /\ Key(l) = n
        BY <3>1, ReceiveEnds
      <4>2. l = k <=> n = m
        BY <1>6, <4>1, SameLink
      <4>3. CASE l = k
        BY <1>8, <1>11, <4>1, <4>2, <4>3
      <4>4. CASE l # k
        BY <1>11, <4>1, <4>2, <4>4
      <4> QED
        BY <4>3, <4>4
    <3> QED
      BY <1>2, <1>4, <3>1 DEF LeftFor
  <2>2. m \in LeftFor(p)
    BY <1>2, <1>5, <1>6, <1>8, <1>9 DEF LeftFor
  <2>3. IsFiniteSet(LeftFor(p))
    BY PlacesFinite, FS_Subset DEF LeftFor, ReceiveFrom
  <2>4. Cardinality(LeftFor(p)') = Cardinality(LeftFor(p)) - 1
    BY <2>1, <2>2, <2>3, FS_RemoveElement
  <2>5. ASSUME NEW q \in Place, q # p, xpc[q] = "deliver" PROVE LeftFor(q)' = LeftFor(q)
    <3>1. ASSUME NEW n \in ReceiveFrom(q[1]), n[2] = q[2] PROVE got'[At(q[1], n)] = got[At(q[1], n)]
      <4>1. q[1] \in Rank /\ q = <<q[1], q[2]>>
        BY PlaceFacts
      <4>2. At(q[1], n) \in Linked /\ Target(At(q[1], n)) = q
        BY <3>1, <4>1, ReceiveEnds
      <4> QED
        BY <1>6, <1>11, <2>5, <4>2
    <3> QED
      BY <1>4, <3>1 DEF LeftFor
  <2>6. ASSUME NEW q \in Place, xpc[q] = "deliver" PROVE toDeliver'[q] = Cardinality(LeftFor(q)')
    <3>1. toDeliver[q] = Cardinality(LeftFor(q))
      BY <1>1, <2>6 DEF ReceiverInv, ToDeliverInv
    <3>2. CASE q = p
      BY <1>13, <2>4, <3>1, <3>2
    <3>3. CASE q # p
      BY <1>13, <2>5, <2>6, <3>1, <3>3
    <3> QED
      BY <3>2, <3>3
  <2> QED
    BY <1>4, <2>6 DEF ToDeliverInv
<1> QED
  BY <1>10, <1>14, <1>15, <1>16, <1>18, <1>20, <1>21, <1>22 DEF ExchangeInd, ReceiverInv

-----------------------------------------------------------------------------
(* The invariant is inductive. *)

LEMMA ExchangeIndInit == ExchangeInit => ExchangeInd /\ HeaderInv
<1> SUFFICES ASSUME ExchangeInit PROVE ExchangeInd /\ HeaderInv
  OBVIOUS
<1>1. /\ \A p \in Place : xpc[p] = "idle" /\ hand[p] = None /\ linkSendQ[p] = {}
      /\ \A r \in Rank : /\ MasterOf(r) = "idle" /\ round[r] = 0 /\ serializeQ[r] = {} /\ sendQ[r] = {}
                         /\ deserializeQ[r] = {} /\ toReceive[r] = {}
      /\ \A l \in Linked : /\ remoteSize[l] = 1 /\ localSize[l] = 1 /\ even[l] = <<>> /\ odd[l] = <<>>
                           /\ rbuf[l] = 0 /\ got[l] = 0
  BY PlaceFacts DEF ExchangeInit, MasterOf
<1>2. ExchangeType
  <2>1. <<>> \in Seq({"data", "header"})
    OBVIOUS
  <2>2. even \in [Linked -> Seq({"data", "header"})] /\ odd \in [Linked -> Seq({"data", "header"})]
    BY <2>1 DEF ExchangeInit
  <2>3. xpc \in [Place -> Stages] /\ hand \in [Place -> Place \cup {None}]
    BY DEF ExchangeInit, Stages
  <2>4. squeue \in [Linked -> [id : Nat, size : Nat]]
    BY DEF ExchangeInit
  <2> QED
    BY <2>2, <2>3, <2>4 DEF ExchangeInit, ExchangeType
<1>3. StageInv
  BY <1>1, PlaceFacts DEF StageInv, Together, AllAt
<1>4. HandInv /\ QueuesInv /\ HeaderInv
  BY <1>1 DEF HandInv, QueuesInv, HeaderInv
<1>5. NetInv /\ wrong = FALSE
  BY <1>1 DEF NetInv, Resized, ExchangeInit
<1>6. ASSUME NEW l \in Linked
      PROVE  /\ Source(l) \in Rank /\ TargetRank(l) \in Rank /\ Target(l) \in Place
             /\ ~InSerialize(l) /\ ~InSend(l) /\ ~InDeserialize(l) /\ ~InLinkSend(l)
             /\ \A p \in Place : ~SerializedBy(l, p) /\ ~DeserializedBy(l, p)
             /\ ~UnderWay(l) /\ ~Announced(l)
  BY <1>1, LinkFacts DEF InSerialize, InSend, InDeserialize, InLinkSend, SerializedBy, DeserializedBy,
                         Serializing, UnderWay, Announced
<1>7. \A l \in Linked : ~Pending(l) /\ ~Undelivered(l) /\ ~Unreceived(l)
  BY <1>1, <1>6 DEF Pending, Undelivered, Unreceived
<1>8. SenderInv
  BY <1>1, <1>6, <1>7 DEF SenderInv, SerializeOnce, SendInv, ToSendInv
<1>9. ReceiverInv
  BY <1>1, <1>6, <1>7 DEF ReceiverInv, DeserializeOnce, ReceiveInv, DeliverInv, ToDeliverInv
<1> QED
  BY <1>2, <1>3, <1>4, <1>5, <1>8, <1>9 DEF ExchangeInd

LEMMA HeaderStep ==
    ASSUME ExchangeInd, HeaderInv, ExchangeNext
    PROVE  HeaderInv'
<1>1. xpc \in [Place -> Stages] /\ hand \in [Place -> Place \cup {None}]
  BY DEF ExchangeInd, ExchangeType
<1>2. ASSUME NEW r \in Rank, NEW t \in RankThread, StepOf(r, t) PROVE HeaderInv'
  <2>1. CASE SerializeDone(r, t) \/ DeliverDone(r, t)
    BY <1>1, <2>1 DEF HeaderInv, SerializeDone, DeliverDone, Goto
  <2>2. CASE TakeSerialize(r, t) \/ PutSend(r, t)
    BY <1>1, <2>2 DEF HeaderInv, TakeSerialize, PutSend
  <2>3. CASE Deliver(r, t) \/ TakeDeserialize(r, t) \/ PutLinkSend(r, t)
    BY <1>1, <2>3 DEF HeaderInv, Deliver, TakeDeserialize, PutLinkSend
  <2> QED
    BY <1>2, <2>1, <2>2, <2>3 DEF StepOf
<1>3. ASSUME NEW r \in Rank, StepOfMaster(r) PROVE HeaderInv'
  <2>1. CASE Fill(r) \/ SendDone(r) \/ ReceiveDone(r) \/ WaitSends(r)
    BY <1>1, <2>1 DEF HeaderInv, Fill, SendDone, ReceiveDone, WaitSends, Goto
  <2>2. CASE Send(r)
    BY <2>2 DEF HeaderInv, Send
  <2>3. CASE Receive(r)
    <3>1. PICK m \in toReceive[r] :
            \/ UNCHANGED <<xpc, hand>>
            \/ hand' = [hand EXCEPT ![<<r, 0>>] = m] /\ xpc' = [xpc EXCEPT ![<<r, 0>>] = "receiveOdd"]
      BY <2>3 DEF Receive, Goto
    <3>2. m # None
      BY ReceiveEnds DEF ExchangeInd, QueuesInv
    <3> QED
      BY <1>1, <3>1, <3>2 DEF HeaderInv
  <2>4. CASE ReceiveOdd(r)
    BY <1>1, <2>4 DEF HeaderInv, ReceiveOdd, Goto
  <2> QED
    BY <1>3, <2>1, <2>2, <2>3, <2>4 DEF StepOfMaster
<1>4. ASSUME NEW r \in Rank, StepOfRank(r) PROVE HeaderInv'
  <2>1. CASE Start(r)
    BY <1>1, <2>1 DEF HeaderInv, Start, MoveAll
  <2>2. CASE SerializeReady(r)
    BY <1>1, <2>2 DEF HeaderInv, SerializeReady, MoveAll
  <2>3. CASE SlaveExchangeDone(r)
    BY <1>1, <2>3 DEF HeaderInv, SlaveExchangeDone, MoveAll
  <2>4. CASE AllDone(r)
    BY <1>1, <2>4 DEF HeaderInv, AllDone, MoveAll
  <2> QED
    BY <1>4, <2>1, <2>2, <2>3, <2>4 DEF StepOfRank
<1>5. CASE Reduce
  BY <1>1, <1>5 DEF HeaderInv, Reduce
<1>6. CASE ExchangeDone
  BY <1>6 DEF HeaderInv, ExchangeDone, exchangeVars
<1> QED
  BY <1>2, <1>3, <1>4, <1>5, <1>6 DEF ExchangeNext

LEMMA ExchangeIndStep ==
    ASSUME ExchangeInd, HeaderInv, [ExchangeNext]_exchangeVars
    PROVE  ExchangeInd' /\ HeaderInv'
<1>1. ASSUME UNCHANGED exchangeVars PROVE ExchangeInd' /\ HeaderInv'
  <2>1. UNCHANGED <<xpc, hand, round, squeue, remoteSize, localSize, rbuf, even, odd, serializeQ, sendQ,
                    deserializeQ, linkSendQ, toSend, toReceive, toDeliver, got, wrong>>
    BY <1>1 DEF exchangeVars, buffers, net, queues, counts
  <2>2. xpc' \in [Place -> Stages] /\ StageInv'
    BY <2>1 DEF ExchangeInd, ExchangeType, StageInv, Together, AllAt, MasterOf
  <2>3. \A r \in Rank : SameSender(r) /\ SameReceives(r)
    BY <2>1, Receiving DEF SameSender, SameReceives, MasterOf
  <2>4. \A p \in Place : xpc'[p] = xpc[p] \/ (hand[p] = None /\ SameReceiver(p))
    BY <2>1
  <2>5. ExchangeInd'
    BY <2>1, <2>2, <2>3, <2>4, MoveStep
  <2> QED
    BY <2>1, <2>5 DEF HeaderInv
<1>2. CASE ExchangeNext
  <2>1. ASSUME NEW r \in Rank, NEW t \in RankThread, StepOf(r, t) PROVE ExchangeInd'
    BY <2>1, TakeSerializeStep, PutSendStep, SerializeDoneStep, DeliverStep, TakeDeserializeStep,
       PutLinkSendStep, DeliverDoneStep DEF StepOf
  <2>2. ASSUME NEW r \in Rank, StepOfMaster(r) PROVE ExchangeInd'
    BY <2>2, FillStep, SendStep, SendDoneStep, ReceiveStep, ReceiveOddStep, ReceiveDoneStep,
       WaitSendsStep DEF StepOfMaster
  <2>3. ASSUME NEW r \in Rank, StepOfRank(r) PROVE ExchangeInd'
    BY <2>3, StartStep, SerializeReadyStep, SlaveExchangeDoneStep, AllDoneStep DEF StepOfRank
  <2>4. CASE ExchangeDone
    BY <1>1, <2>4 DEF ExchangeDone
  <2>5. ExchangeInd'
    BY <1>2, <2>1, <2>2, <2>3, <2>4, ReduceStep DEF ExchangeNext
  <2> QED
    BY <1>2, <2>5, HeaderStep
<1> QED
  BY <1>1, <1>2

(* It says more than what the exchange is to keep. *)
LEMMA ExchangeIndKeeps == ExchangeInd => ExchangeKept
<1> SUFFICES ASSUME ExchangeInd PROVE ExchangeKept
  OBVIOUS
<1>1. /\ ExchangeType /\ StageInv /\ QueuesInv /\ NetInv /\ wrong = FALSE
      /\ SendInv /\ ReceiveInv /\ DeliverInv
  BY DEF ExchangeInd, SenderInv, ReceiverInv
<1>2. ExactlyOnce
  <2>1. ASSUME NEW r \in Rank, NEW m \in ReceiveFrom(r), AllAt(r, "idle") \/ AllAt(r, "allDone")
        PROVE  got[At(r, m)] = round[r]
    <3>1. PICK l \in Linked : l = At(r, m) /\ TargetRank(l) = r /\ Target(l) = <<r, m[2]>>
      BY ReceiveEnds
    <3>2. xpc[Target(l)] \in {"idle", "allDone"}
      BY <2>1, <3>1, LinkFacts, PlaceFacts DEF AllAt
    <3> QED
      BY <1>1, <3>1, <3>2 DEF DeliverInv
  <2> QED
    BY <1>1, <2>1 DEF ExactlyOnce
<1>3. BuffersAgree
  <2>1. ASSUME NEW l \in Linked
        PROVE  /\ localSize[l] <= remoteSize[l]
               /\ even[l] = <<>> /\ odd[l] = <<>> => localSize[l] = remoteSize[l]
    <3>1. localSize[l] \in Nat /\ remoteSize[l] \in Nat
      BY <1>1 DEF ExchangeType
    <3>2. <<"data">> # <<>> /\ <<"header">> # <<>>
      OBVIOUS
    <3>3. Resized(l) \/ AtHeader(l)
      BY <1>1 DEF NetInv, AtOdd
    <3> QED
      BY <3>1, <3>2, <3>3 DEF Resized, AtHeader
  <2> QED
    BY <2>1 DEF BuffersAgree
<1>4. DeliveredBeforeReduce
  <2>1. ASSUME NEW r \in Rank, MasterOf(r) \in {"waitall", "reduce"}
        PROVE  /\ \A t \in RankThread : xpc[<<r, t>>] # "deliver" /\ linkSendQ[<<r, t>>] = {}
               /\ \A m \in ReceiveFrom(r) : got[At(r, m)] = round[r]
               /\ serializeQ[r] = {} /\ sendQ[r] = {} /\ deserializeQ[r] = {}
    <3>1. \A t \in RankThread : xpc[<<r, t>>] \in {"waitall", "reduce", "allDone"}
      <4>1. \A t \in RankThread : t # 0 => xpc[<<r, t>>] = "allDone"
        BY <1>1, <2>1, ExchangeAssumption DEF StageInv, Together, AllAt, MasterOf, MasterWorks
      <4> QED
        BY <2>1, <4>1 DEF MasterOf
    <3>2. ASSUME NEW m \in ReceiveFrom(r)
          PROVE  got[At(r, m)] = round[r] /\ m \notin deserializeQ[r] /\ m \notin linkSendQ[<<r, m[2]>>]
      <4>1. PICK l \in Linked : /\ l = At(r, m) /\ TargetRank(l) = r /\ Key(l) = m
                                /\ Target(l) = <<r, m[2]>> /\ m \in Place
        BY ReceiveEnds
      <4>2. xpc[Target(l)] \in {"waitall", "reduce", "allDone"}
        BY <3>1, <4>1, PlaceFacts
      <4>3. got[l] = round[r]
        BY <1>1, <4>1, <4>2 DEF DeliverInv
      <4>4. got[l] \in Nat /\ rbuf[l] \in Nat
        BY <1>1 DEF ExchangeType
      <4>5. ~Undelivered(l)
        BY <1>1, <4>1, <4>3, <4>4 DEF ReceiveInv
      <4> QED
        BY <4>1, <4>3, <4>5 DEF Undelivered, InDeserialize, InLinkSend
    <3>3. ASSUME NEW t \in RankThread PROVE linkSendQ[<<r, t>>] = {}
      <4>1. \A m \in linkSendQ[<<r, t>>] : m \in ReceiveFrom(r) /\ m[2] = t
        BY <1>1, PlaceFacts DEF QueuesInv
      <4> QED
        BY <3>2, <4>1
    <3>4. deserializeQ[r] = {}
      BY <1>1, <3>2 DEF QueuesInv
    <3>5. ASSUME NEW d \in SendTo(r) PROVE d \notin serializeQ[r] /\ d \notin sendQ[r]
      <4>1. <<r, d>> \in Linked /\ Source(<<r, d>>) = r /\ Target(<<r, d>>) = d
        BY SendEnds
      <4>2. ~Pending(<<r, d>>)
        BY <1>1, <2>1, <4>1 DEF SendInv
      <4> QED
        BY <4>1, <4>2 DEF Pending, InSerialize, InSend
    <3>6. serializeQ[r] = {} /\ sendQ[r] = {}
      BY <1>1, <3>5 DEF QueuesInv
    <3> QED
      BY <3>1, <3>2, <3>3, <3>4, <3>6
  <2> QED
    BY <2>1 DEF DeliveredBeforeReduce, MasterOf
<1> QED
  BY <1>2, <1>3, <1>4 DEF ExchangeKept

(***************************************************************************)
(* RankSyncParallelSkip::execute: whatever the ranks, their threads, the   *)
(* links and the sizes of the messages, and however often the exchange is  *)
(* repeated, every message is delivered once, in its exchange, by the      *)
(* thread that owns the target and before the next sync time is computed;  *)
(* no receive is given more than its buffer holds, and both ends of a      *)
(* connection agree on that buffer when nothing is under way.              *)
(***************************************************************************)
THEOREM ExchangeIsKept == ExchangeSpec => []ExchangeKept
<1>1. ExchangeInit => ExchangeInd /\ HeaderInv
  BY ExchangeIndInit
<1>2. ExchangeInd /\ HeaderInv /\ [ExchangeNext]_exchangeVars => (ExchangeInd /\ HeaderInv)'
  BY ExchangeIndStep
<1>3. ExchangeInd => ExchangeKept
  BY ExchangeIndKeeps
<1> QED
  BY <1>1, <1>2, <1>3, PTL DEF ExchangeSpec
=============================================================================
