-------------------------- MODULE MqttGateway_proofs ---------------------------
(***************************************************************************)
(* Proofs about the gateway, for every set of messages and every bound.    *)
(* They end with its refinement of CommandChannel.tla: what waits is what  *)
(* the callback is at work on and, behind it, the commands in the packets  *)
(* that are complete.                                                      *)
(*                                                                         *)
(* TypeOK is inductive by itself.  RequestsInForce is inductive relative   *)
(* to it: it says, for every place of the sketch, what the broker has been *)
(* asked for and whether that is in force or still under way, and          *)
(* ServingMeansSubscribed and StatusFollowsSession are what is left of it  *)
(* when nothing is under way.                                              *)
(***************************************************************************)
EXTENDS MqttGateway, SequenceTheorems, FiniteSetTheorems, Induction, TLAPS

USE DEF PCs

(* The packets the client writes, and those the broker answers with. *)
LEMMA PacketTypes ==
    /\ Connect \in OutPackets /\ Online \in OutPackets
    /\ \A f \in Filters : Subscribe(f) \in OutPackets
    /\ \A m \in Messages : Echo(m) \in OutPackets
    /\ {ConnAck, Refusal, SubAck} \subseteq InPackets
    /\ \A m \in Messages : Publish(m) \in InPackets
  BY DEF OutPackets, InPackets, ConnAck, Refusal, SubAck, Publish

(* Packets of different kinds differ. *)
LEMMA PacketsDiffer ==
    /\ Connect # Online
    /\ \A f : Subscribe(f) # Connect /\ Subscribe(f) # Online
    /\ \A m : Echo(m) # Connect /\ Echo(m) # Online
    /\ \A m, f : Echo(m) # Subscribe(f)
    /\ \A f, g : Subscribe(f) = Subscribe(g) => f = g
  <1>1. Connect.type = "CONNECT" /\ Online.type = "STATUS"
    BY DEF Connect, Online
  <1>2. \A f : Subscribe(f).type = "SUBSCRIBE" /\ Subscribe(f).filter = f
    BY DEF Subscribe
  <1>3. \A m : Echo(m).type = "LAST"
    BY DEF Echo
  <1> QED
    BY <1>1, <1>2, <1>3

(* What a packet for the broker is, by its type. *)
LEMMA OutPacketCases ==
    ASSUME NEW p \in OutPackets
    PROVE  /\ p.type = "STATUS" <=> p = Online
           /\ p.type = "LAST" => p.msg \in Messages /\ p # Online
           /\ p.type = "SUBSCRIBE" => p.filter \in Filters /\ p = Subscribe(p.filter)
           /\ p.type = "CONNECT" <=> p = Connect
  BY DEF OutPackets, Connect, Online, Subscribe, Echo

LEMMA InPacketCases ==
    ASSUME NEW p \in InPackets
    PROVE  /\ p.type = "PUBLISH" => p.msg \in Messages
           /\ [p EXCEPT !.whole = FALSE] \in InPackets
  BY DEF InPackets

-------------------------------------------------------------------------------
(* The retained messages follow the acknowledgement as packets. *)
LEMMA RetainedSeqs ==
    ASSUME TypeOK, NEW filter \in Filters, NEW ms \in SetToSeqs(RetainedFor(filter))
    PROVE  [i \in DOMAIN ms |-> Publish(ms[i])] \in Seq(InPackets)
  <1> DEFINE R == RetainedFor(filter)
  <1>1. R \subseteq {retained["ir"], retained["ir/sub"]} \cup {retained["rc"]}
    BY DEF RetainedFor, Matching, Filters
  <1>2. IsFiniteSet({retained["ir"], retained["ir/sub"]} \cup {retained["rc"]})
    <2>1. IsFiniteSet({retained["ir"]})
      BY FS_Singleton
    <2>2. IsFiniteSet({retained["ir"]} \cup {retained["ir/sub"]})
      BY <2>1, FS_AddElement
    <2>3. IsFiniteSet(({retained["ir"]} \cup {retained["ir/sub"]}) \cup {retained["rc"]})
      BY <2>2, FS_AddElement
    <2>4. {retained["ir"], retained["ir/sub"]} = {retained["ir"]} \cup {retained["ir/sub"]}
      OBVIOUS
    <2> QED
      BY <2>3, <2>4
  <1>3. Cardinality(R) \in Nat
    BY <1>1, <1>2, FS_Subset, FS_CardinalityType
  <1>4. R \subseteq Messages
    BY DEF RetainedFor, Matching, Filters, TypeOK, Topics
  <1>5. ms \in [1..Cardinality(R) -> R]
    BY DEF SetToSeqs
  <1>6. \A i \in 1..Cardinality(R) : Publish(ms[i]) \in InPackets
    BY <1>4, <1>5, PacketTypes
  <1> QED
    BY <1>3, <1>5, <1>6

(* What a lost connection leaves behind is a sequence of packets. *)
LEMMA RemainsAreSeqs ==
    ASSUME TypeOK
    PROVE  Remains \subseteq Seq(InPackets)
  <1>1. Len(rx) \in Nat /\ \A i \in 1..Len(rx) : rx[i] \in InPackets
    BY LenProperties, ElementOfSeq DEF TypeOK
  <1>2. \A n \in 0..Len(rx) : SubSeq(rx, 1, n) \in Seq(InPackets)
    <2> SUFFICES ASSUME NEW n \in 0..Len(rx) PROVE SubSeq(rx, 1, n) \in Seq(InPackets)
      OBVIOUS
    <2>1. n \in Int /\ \A i \in 1..n : rx[i] \in InPackets
      BY <1>1
    <2> QED
      BY <2>1, SubSeqProperties
  <1>3. ASSUME NEW n \in 0..(Len(rx) - 1)
        PROVE  Append(SubSeq(rx, 1, n), [rx[n + 1] EXCEPT !.whole = FALSE]) \in Seq(InPackets)
    <2>1. SubSeq(rx, 1, n) \in Seq(InPackets)
      BY <1>1, <1>2
    <2>2. rx[n + 1] \in InPackets
      BY <1>1
    <2>3. [rx[n + 1] EXCEPT !.whole = FALSE] \in InPackets
      BY <2>2, InPacketCases
    <2> QED
      BY <2>1, <2>3
  <1> QED
    BY <1>2, <1>3 DEF Remains

-------------------------------------------------------------------------------
(* Writing and stopping keep the queues sequences of packets. *)
LEMMA WriteType ==
    ASSUME TypeOK, NEW p \in OutPackets, Write(p)
    PROVE  tx' \in Seq(OutPackets)
  BY DEF Write, TypeOK

LEMMA StopType ==
    ASSUME TypeOK, Stop
    PROVE  /\ link' \in {"none", "up", "broken", "closed"}
           /\ rx' \in Seq(InPackets) /\ tx' \in Seq(OutPackets)
           /\ session' \in {"none", "live", "stale"}
  BY DEF Stop, TypeOK

LEMMA WriteIfConnectedType ==
    ASSUME TypeOK, NEW p \in OutPackets, WriteIfConnected(p)
    PROVE  /\ link' \in {"none", "up", "broken", "closed"}
           /\ rx' \in Seq(InPackets) /\ tx' \in Seq(OutPackets)
           /\ buffer' \in Messages \cup {None}
           /\ session' \in {"none", "live", "stale"}
  <1>1. CASE Connected
    BY <1>1, WriteType DEF WriteIfConnected, TypeOK
  <1>2. CASE ~Connected
    BY <1>2, StopType DEF WriteIfConnected, TypeOK
  <1> QED
    BY <1>1, <1>2

(* TypeOK needs CopyOutlivesBuffer: what is echoed must be a message. *)
Typed == TypeOK /\ CopyOutlivesBuffer

(* The initial state satisfies both, and every step preserves them. *)
LEMMA InitTyped == Init => Typed
  BY NoneAssumption, BoundsAssumption DEF Init, Typed, TypeOK, CopyOutlivesBuffer, RetainedOn

LEMMA FaultType == TypeOK /\ Fault => faults' \in 0..MaxFaults
  BY BoundsAssumption DEF TypeOK, Fault

LEMMA NextTypeOK == Typed /\ [Next]_vars => TypeOK'
  <1> SUFFICES ASSUME TypeOK, CopyOutlivesBuffer, [Next]_vars PROVE TypeOK'
    BY DEF Typed
  <1> USE DEF client, broker
  <1>1. CASE Setup
    BY <1>1 DEF Setup, TypeOK, RetainedOn
  <1>2. CASE ConnectFails
    BY <1>2, StopType, FaultType DEF ConnectFails, TypeOK, RetainedOn
  <1>3. CASE ConnectOpens
    <2>1. tx' \in Seq(OutPackets) /\ rx' \in Seq(InPackets)
      BY <1>3, PacketTypes DEF ConnectOpens
    <2> QED
      BY <1>3, <2>1 DEF ConnectOpens, TypeOK, RetainedOn
  <1>4. CASE ConnackTimesOut
    <2>1. faults' \in 0..MaxFaults
      BY <1>4, FaultType DEF ConnackTimesOut, TypeOK
    <2> QED
      BY <1>4, <2>1, StopType DEF ConnackTimesOut, TypeOK, RetainedOn
  <1>5. CASE ReadConnack
    <2>1. /\ link' \in {"none", "up", "broken", "closed"}
          /\ rx' \in Seq(InPackets) /\ tx' \in Seq(OutPackets)
          /\ session' \in {"none", "live", "stale"}
      <3>1. CASE Head(rx) = ConnAck
        BY <1>5, <3>1, HeadTailProperties DEF ReadConnack, TypeOK
      <3>2. CASE Head(rx) # ConnAck
        BY <1>5, <3>2, StopType DEF ReadConnack
      <3> QED
        BY <3>1, <3>2
    <2> QED
      BY <1>5, <2>1 DEF ReadConnack, TypeOK, RetainedOn
  <1>6. CASE AnnounceStatus
    BY <1>6, PacketTypes, WriteIfConnectedType DEF AnnounceStatus, TypeOK, RetainedOn
  <1>7. CASE SubscribeIr
    BY <1>7, PacketTypes, WriteIfConnectedType DEF SubscribeIr, TypeOK, RetainedOn, Filters
  <1>8. CASE SubscribeRc
    BY <1>8, PacketTypes, WriteIfConnectedType DEF SubscribeRc, TypeOK, RetainedOn, Filters
  <1>9. CASE LoopDisconnected
    BY <1>9, StopType DEF LoopDisconnected, TypeOK, RetainedOn
  <1>10. CASE LoopExpires
    <2>1. faults' \in 0..MaxFaults
      BY <1>10, FaultType DEF LoopExpires, TypeOK
    <2> QED
      BY <1>10, <2>1, StopType DEF LoopExpires, TypeOK, RetainedOn
  <1>11. CASE LoopReads
    <2>1. Head(rx) \in InPackets /\ rx' \in Seq(InPackets)
      BY <1>11, HeadTailProperties DEF LoopReads, TypeOK
    <2>2. pc' \in PCs /\ buffer' \in Messages \cup {None}
      BY <1>11, <2>1, InPacketCases DEF LoopReads
    <2> QED
      BY <1>11, <2>1, <2>2 DEF LoopReads, TypeOK, RetainedOn
  <1>12. CASE CallbackCopies
    BY <1>12 DEF CallbackCopies, TypeOK, RetainedOn
  <1>13. CASE CallbackEchoes
    <2>1. copy \in Messages
      BY <1>13 DEF CallbackEchoes, CopyOutlivesBuffer, TypeOK
    <2>2. Echo(copy) \in OutPackets
      BY <2>1, PacketTypes
    <2> QED
      BY <1>13, <2>2, WriteIfConnectedType DEF CallbackEchoes, TypeOK, RetainedOn
  <1>14. CASE CallbackHandles
    BY <1>14 DEF CallbackHandles, TypeOK, RetainedOn
  <1>15. CASE BrokerAccepts
    <2>1. tx' \in Seq(OutPackets) /\ rx' \in Seq(InPackets)
      BY <1>15, PacketTypes, HeadTailProperties DEF BrokerAccepts, TypeOK
    <2>2. statusSeen' \in {"none", "on", "off"}
      BY <1>15 DEF BrokerAccepts, WillFires, TypeOK
    <2> QED
      BY <1>15, <2>1, <2>2 DEF BrokerAccepts, TypeOK, RetainedOn
  <1>16. CASE BrokerRefuses
    <2>1. tx' \in Seq(OutPackets) /\ rx' \in Seq(InPackets)
      BY <1>16, PacketTypes, HeadTailProperties DEF BrokerRefuses, TypeOK
    <2> QED
      BY <1>16, <2>1, FaultType DEF BrokerRefuses, TypeOK, RetainedOn
  <1>17. CASE BrokerForwards
    <2>1. Head(tx) \in OutPackets /\ tx' \in Seq(OutPackets)
      BY <1>17, HeadTailProperties DEF BrokerForwards, TypeOK
    <2>2. last' \in Messages \cup {None} /\ statusSeen' \in {"none", "on", "off"}
      BY <1>17, <2>1, OutPacketCases DEF BrokerForwards, TypeOK
    <2> QED
      BY <1>17, <2>1, <2>2 DEF BrokerForwards, TypeOK, RetainedOn
  <1>18. CASE BrokerSubscribes
    <2>1. Head(tx) \in OutPackets /\ tx' \in Seq(OutPackets)
      BY <1>18, HeadTailProperties DEF BrokerSubscribes, TypeOK
    <2>2. Head(tx).filter \in Filters
      BY <1>18, <2>1, OutPacketCases DEF BrokerSubscribes
    <2>3. subs' \subseteq Filters
      BY <1>18, <2>2 DEF BrokerSubscribes, TypeOK
    <2>4. rx' \in Seq(InPackets)
      <3>1. Append(rx, SubAck) \in Seq(InPackets)
        BY PacketTypes DEF TypeOK
      <3>2. PICK ms \in SetToSeqs(RetainedFor(Head(tx).filter)) :
               rx' = Append(rx, SubAck) \o [i \in DOMAIN ms |-> Publish(ms[i])]
        BY <1>18 DEF BrokerSubscribes
      <3> QED
        BY <2>2, <3>1, <3>2, RetainedSeqs, ConcatProperties
    <2> QED
      BY <1>18, <2>1, <2>3, <2>4 DEF BrokerSubscribes, TypeOK, RetainedOn
  <1>19. CASE BrokerDetects
    BY <1>19 DEF BrokerDetects, WillFires, TypeOK, RetainedOn
  <1>20. ASSUME NEW msg \in Messages, NEW retain \in BOOLEAN, UserPublishes(msg, retain)
         PROVE  TypeOK'
    <2>1. rx' \in Seq(InPackets)
      BY <1>20, PacketTypes DEF UserPublishes, TypeOK
    <2>2. /\ retained' \in [Topics -> Messages \cup {None}]
          /\ \A t \in Topics : retained'[t] \in RetainedOn(t)
      BY <1>20 DEF UserPublishes, TypeOK, RetainedOn
    <2> QED
      BY <1>20, <2>1, <2>2 DEF UserPublishes, TypeOK, RetainedOn
  <1>21. CASE Reset
    BY <1>21, StopType, FaultType DEF Reset, TypeOK, RetainedOn
  <1>22. CASE LinkBreaks
    BY <1>22, RemainsAreSeqs, FaultType DEF LinkBreaks, TypeOK, RetainedOn
  <1>23. CASE BrokerCloses
    <2>1. rx' \in Seq(InPackets) /\ tx' \in Seq(OutPackets)
      BY <1>23, RemainsAreSeqs DEF BrokerCloses
    <2>2. /\ session' \in {"none", "live", "stale"} /\ subs' \subseteq Filters
          /\ statusSeen' \in {"none", "on", "off"}
      BY <1>23 DEF BrokerCloses, WillFires, TypeOK
    <2> QED
      BY <1>23, <2>1, <2>2, FaultType DEF BrokerCloses, TypeOK, RetainedOn
  <1>24. CASE UNCHANGED vars
    BY <1>24 DEF vars, TypeOK, RetainedOn
  <1> QED
    BY <1>1, <1>2, <1>3, <1>4, <1>5, <1>6, <1>7, <1>8, <1>9, <1>10, <1>11, <1>12,
       <1>13, <1>14, <1>15, <1>16, <1>17, <1>18, <1>19, <1>20, <1>21, <1>22, <1>23,
       <1>24 DEF Next, Sketch, Broker

LEMMA NextCopy == Typed /\ [Next]_vars => CopyOutlivesBuffer'
  <1> SUFFICES ASSUME TypeOK, CopyOutlivesBuffer, [Next]_vars
               PROVE  CopyOutlivesBuffer'
    BY DEF Typed
  <1> USE DEF CopyOutlivesBuffer, client
  <1>1. CASE LoopReads
    <2>1. Head(rx) \in InPackets
      BY <1>1, HeadTailProperties DEF LoopReads, TypeOK
    <2> QED
      BY <1>1, <2>1, InPacketCases, NoneAssumption DEF LoopReads
  <1>2. CASE Setup \/ ConnectFails \/ ConnectOpens \/ ConnackTimesOut \/ ReadConnack
    BY <1>2 DEF Setup, ConnectFails, ConnectOpens, ConnackTimesOut, ReadConnack
  <1>3. CASE AnnounceStatus \/ SubscribeIr \/ SubscribeRc
    BY <1>3 DEF AnnounceStatus, SubscribeIr, SubscribeRc
  <1>4. CASE LoopDisconnected \/ LoopExpires
    BY <1>4 DEF LoopDisconnected, LoopExpires
  <1>5. CASE CallbackCopies \/ CallbackEchoes \/ CallbackHandles
    BY <1>5 DEF CallbackCopies, CallbackEchoes, CallbackHandles
  <1>6. CASE Broker
    BY <1>6 DEF Broker, BrokerAccepts, BrokerRefuses, BrokerForwards, BrokerSubscribes,
                BrokerDetects
  <1>7. CASE \E m \in Messages, retain \in BOOLEAN : UserPublishes(m, retain)
    BY <1>7 DEF UserPublishes
  <1>8. CASE Reset \/ LinkBreaks \/ BrokerCloses
    BY <1>8 DEF Reset, LinkBreaks, BrokerCloses
  <1>9. CASE UNCHANGED vars
    BY <1>9 DEF vars
  <1> QED
    BY <1>1, <1>2, <1>3, <1>4, <1>5, <1>6, <1>7, <1>8, <1>9 DEF Next, Sketch

(* In every reachable state every variable is of its type, and the copy    *)
(* the callback works on is the message it received.                       *)
THEOREM TypeCorrect == Spec => [](TypeOK /\ CopyOutlivesBuffer)
  <1>1. Init => Typed
    BY InitTyped
  <1>2. Typed /\ [Next]_vars => Typed'
    BY NextTypeOK, NextCopy DEF Typed
  <1> QED
    BY <1>1, <1>2, PTL DEF Spec, Typed
-------------------------------------------------------------------------------
(* How the queue of requests changes. *)
LEMMA QueuedAfterWrite ==
    ASSUME TypeOK, NEW p \in OutPackets, NEW q, tx' = Append(tx, p)
    PROVE  Queued(q)' <=> Queued(q) \/ q = p
  <1>1. Len(tx) \in Nat /\ Len(tx') = Len(tx) + 1
    BY LenProperties, AppendProperties DEF TypeOK
  <1>2. \A i \in 1..Len(tx) : tx'[i] = tx[i]
    BY AppendProperties DEF TypeOK
  <1>3. tx'[Len(tx) + 1] = p
    BY AppendProperties DEF TypeOK
  <1> QED
    BY <1>1, <1>2, <1>3 DEF Queued

LEMMA QueuedAfterTail ==
    ASSUME TypeOK, NEW q, tx # <<>>, tx' = Tail(tx)
    PROVE  /\ Queued(q)' => Queued(q)
           /\ Queued(q) => Queued(q)' \/ q = Head(tx)
  <1>1. /\ Len(tx) \in Nat \ {0} /\ Len(tx') = Len(tx) - 1
        /\ \A i \in 1..Len(tx') : tx'[i] = tx[i + 1]
    BY HeadTailProperties, LenProperties, EmptySeq DEF TypeOK
  <1>2. Head(tx) = tx[1]
    BY DEF TypeOK
  <1>3. Queued(q)' => Queued(q)
    BY <1>1 DEF Queued
  <1>4. ASSUME Queued(q), q # Head(tx) PROVE Queued(q)'
    <2>1. PICK i \in 1..Len(tx) : tx[i] = q
      BY <1>4 DEF Queued
    <2>2. i # 1
      BY <1>2, <1>4, <2>1
    <2>3. i - 1 \in 1..Len(tx') /\ tx'[i - 1] = q
      BY <1>1, <2>1, <2>2
    <2> QED
      BY <2>3 DEF Queued
  <1> QED
    BY <1>3, <1>4

LEMMA HeadQueued ==
    ASSUME TypeOK, tx # <<>>
    PROVE  Queued(Head(tx))
  <1>1. Len(tx) \in Nat \ {0} /\ Head(tx) = tx[1]
    BY EmptySeq DEF TypeOK
  <1> QED
    BY <1>1 DEF Queued

LEMMA NothingQueued == ASSUME NEW q, tx = <<>> PROVE ~Queued(q)
  BY DEF Queued

-------------------------------------------------------------------------------
LEMMA InitInForce == Init => RequestsInForce
  BY DEF Init, RequestsInForce, Handshake, Established

(* A step that leaves the connection unusable needs no more than the state *)
(* of the announcements.                                                   *)
LEMMA LinkDown ==
    ASSUME link' # "up", pc' \in {"setup", "connect"} => link' = "none",
           session' # "live", session' = "none" => statusSeen' # "on"
    PROVE  RequestsInForce'
  BY DEF RequestsInForce, Handshake, Established

LEMMA StopInForce ==
    ASSUME RequestsInForce, Stop, statusSeen' = statusSeen
    PROVE  RequestsInForce'
  <1>1. session' # "live" /\ (session' = "none" => statusSeen' # "on")
    BY DEF Stop, RequestsInForce
  <1> QED
    BY <1>1, LinkDown DEF Stop

(* The steps of startmqtt() and the callback that write one packet. *)
LEMMA WriteInForce ==
    ASSUME Typed, RequestsInForce, NEW p \in OutPackets, p # Connect,
           pc \notin {"setup", "connect", "connack"},
           WriteIfConnected(p), UNCHANGED <<subs, statusSeen>>,
           \/ pc = "status" /\ pc' = "sub_ir" /\ p = Online
           \/ pc = "sub_ir" /\ pc' = "sub_rc" /\ p = Subscribe("ir/#")
           \/ pc = "sub_rc" /\ pc' = "loop" /\ p = Subscribe("rc/#")
           \/ pc = "echo" /\ pc' = "handle"
    PROVE  RequestsInForce'
  <1>1. CASE ~Connected
    BY <1>1, StopInForce DEF WriteIfConnected
  <1>2. CASE Connected /\ link # "up"
    <2>1. link' = link /\ session' = session
      BY <1>2 DEF WriteIfConnected
    <2> QED
      BY <1>2, <2>1, LinkDown DEF RequestsInForce
  <1>3. CASE link = "up"
    <2>1. link' = link /\ session' = session /\ tx' = Append(tx, p)
      BY <1>3 DEF WriteIfConnected, Write, Connected
    <2>2. \A q : Queued(q)' <=> Queued(q) \/ q = p
      BY <2>1, QueuedAfterWrite DEF Typed
    <2> QED
      BY <1>3, <2>1, <2>2 DEF RequestsInForce, Handshake, Established
  <1> QED
    BY <1>1, <1>2, <1>3

LEMMA NextInForce == Typed /\ RequestsInForce /\ [Next]_vars => RequestsInForce'
  <1> SUFFICES ASSUME Typed, TypeOK, RequestsInForce, [Next]_vars
               PROVE  RequestsInForce'
    BY DEF Typed
  <1> USE DEF client, broker
  <1>1. CASE Setup
    BY <1>1, LinkDown DEF Setup, RequestsInForce
  <1>2. CASE ConnectFails \/ LoopDisconnected \/ LoopExpires \/ ConnackTimesOut \/ Reset
    BY <1>2, StopInForce DEF ConnectFails, LoopDisconnected, LoopExpires, ConnackTimesOut, Reset
  <1>3. CASE ConnectOpens
    BY <1>3 DEF ConnectOpens, RequestsInForce, Handshake, Established
  <1>4. CASE ReadConnack
    <2>1. CASE Head(rx) # ConnAck
      BY <1>4, <2>1, StopInForce DEF ReadConnack
    <2>2. CASE Head(rx) = ConnAck /\ link # "up"
      BY <1>4, <2>2, LinkDown DEF ReadConnack, RequestsInForce
    <2>3. CASE Head(rx) = ConnAck /\ link = "up"
      <3>1. rx # <<>> /\ ConnAck # Refusal
        BY <1>4 DEF ReadConnack, ConnAck, Refusal
      <3>2. tx = <<>> /\ session = "live"
        BY <1>4, <2>3, <3>1 DEF ReadConnack, RequestsInForce, Handshake
      <3>3. tx' = <<>> /\ link' = link /\ session' = session /\ pc' = "status"
        BY <1>4, <2>3, <3>2 DEF ReadConnack
      <3>4. ~Queued(Connect)'
        BY <3>3 DEF Queued
      <3> QED
        BY <1>4, <2>3, <3>2, <3>3, <3>4 DEF ReadConnack, RequestsInForce, Handshake, Established
    <2> QED
      BY <2>1, <2>2, <2>3
  <1>5. CASE AnnounceStatus
    BY <1>5, WriteInForce, PacketTypes, PacketsDiffer DEF AnnounceStatus
  <1>6. CASE SubscribeIr
    BY <1>6, WriteInForce, PacketTypes, PacketsDiffer DEF SubscribeIr, Filters
  <1>7. CASE SubscribeRc
    BY <1>7, WriteInForce, PacketTypes, PacketsDiffer DEF SubscribeRc, Filters
  <1>8. CASE CallbackEchoes
    <2>1. copy \in Messages
      BY <1>8 DEF CallbackEchoes, Typed, CopyOutlivesBuffer, TypeOK
    <2>2. Echo(copy) \in OutPackets /\ Echo(copy) # Connect
      BY <2>1, PacketTypes, PacketsDiffer
    <2> QED
      BY <1>8, <2>2, WriteInForce DEF CallbackEchoes
  <1>9. CASE LoopReads \/ CallbackCopies \/ CallbackHandles
    <2>1. /\ pc \in {"loop", "copy", "handle"} /\ pc' \in {"loop", "copy", "echo"}
          /\ UNCHANGED <<link, tx, session, subs, statusSeen>>
      BY <1>9 DEF LoopReads, CallbackCopies, CallbackHandles
    <2>2. \A q : Queued(q)' <=> Queued(q)
      BY <2>1 DEF Queued
    <2> QED
      BY <2>1, <2>2 DEF RequestsInForce, Handshake, Established
  <1>10. CASE BrokerAccepts
    <2>1. pc = "connack" /\ tx = <<Connect>> /\ rx = <<>>
      <3>1. Queued(Connect) /\ link = "up"
        BY <1>10, HeadQueued DEF BrokerAccepts
      <3>2. pc = "connack"
        BY <3>1 DEF RequestsInForce, Established, Handshake
      <3> QED
        BY <1>10, <3>1, <3>2 DEF RequestsInForce, Handshake, BrokerAccepts
    <2>2. tx' = <<>> /\ rx' = <<ConnAck>>
      BY <1>10, <2>1 DEF BrokerAccepts
    <2> QED
      BY <1>10, <2>1, <2>2 DEF BrokerAccepts, RequestsInForce, Handshake, Established
  <1>11. CASE BrokerRefuses
    <2>1. pc = "connack" /\ tx = <<Connect>> /\ rx = <<>>
      <3>1. Queued(Connect) /\ link = "up"
        BY <1>11, HeadQueued DEF BrokerRefuses
      <3>2. pc = "connack"
        BY <3>1 DEF RequestsInForce, Established, Handshake
      <3> QED
        BY <1>11, <3>1, <3>2 DEF RequestsInForce, Handshake, BrokerRefuses
    <2>2. tx' = <<>> /\ rx' = <<Refusal>>
      BY <1>11, <2>1 DEF BrokerRefuses
    <2> QED
      BY <1>11, <2>1, <2>2 DEF BrokerRefuses, RequestsInForce, Handshake, Established
  <1>12. CASE BrokerForwards
    <2>1. Head(tx) \in OutPackets /\ tx # <<>> /\ link = "up" /\ Head(tx) # Connect
      BY <1>12, HeadTailProperties, OutPacketCases DEF BrokerForwards, TypeOK
    <2>2. pc \notin {"setup", "connect", "connack"} /\ session = "live"
      <3>1. pc \notin {"setup", "connect"}
        BY <2>1 DEF RequestsInForce
      <3>2. pc # "connack"
        BY <2>1 DEF RequestsInForce, Handshake
      <3> QED
        BY <2>1, <3>1, <3>2 DEF RequestsInForce, Established
    <2>3. \A q : /\ Queued(q)' => Queued(q)
                 /\ Queued(q) => Queued(q)' \/ q = Head(tx)
      BY <1>12, <2>1, QueuedAfterTail DEF BrokerForwards
    <2>4. Head(tx) = Online => statusSeen' = "on"
      BY <1>12 DEF BrokerForwards
    <2>5. Head(tx) # Online => statusSeen' = statusSeen
      BY <1>12 DEF BrokerForwards
    <2>6. \A f : Head(tx) # Subscribe(f)
      BY <1>12 DEF BrokerForwards, Subscribe
    <2>7. UNCHANGED <<pc, link, session, subs>>
      BY <1>12 DEF BrokerForwards
    <2> QED
      BY <2>1, <2>2, <2>3, <2>4, <2>5, <2>6, <2>7
         DEF RequestsInForce, Handshake, Established
  <1>13. CASE BrokerSubscribes
    <2>1. Head(tx) \in OutPackets /\ tx # <<>> /\ link = "up"
      BY <1>13, HeadTailProperties DEF BrokerSubscribes, TypeOK
    <2>2. /\ Head(tx) = Subscribe(Head(tx).filter)
          /\ Head(tx) # Connect /\ Head(tx) # Online
      BY <1>13, <2>1, OutPacketCases, PacketsDiffer DEF BrokerSubscribes
    <2>3. pc \notin {"setup", "connect", "connack"} /\ session = "live"
      <3>1. pc \notin {"setup", "connect"}
        BY <2>1 DEF RequestsInForce
      <3>2. pc # "connack"
        BY <2>1, <2>2 DEF RequestsInForce, Handshake
      <3> QED
        BY <2>1, <3>1, <3>2 DEF RequestsInForce, Established
    <2>4. \A q : /\ Queued(q)' => Queued(q)
                 /\ Queued(q) => Queued(q)' \/ q = Head(tx)
      BY <1>13, <2>1, QueuedAfterTail DEF BrokerSubscribes
    <2>5. /\ subs' = subs \cup {Head(tx).filter}
          /\ UNCHANGED <<pc, link, session, statusSeen>>
      BY <1>13 DEF BrokerSubscribes
    <2>6. \A f : Subscribe(f) = Head(tx) => f \in subs'
      BY <2>2, <2>5, PacketsDiffer
    <2>7. \A f \in Filters : f \in subs \/ Queued(Subscribe(f))
                             => f \in subs' \/ Queued(Subscribe(f))'
      BY <2>4, <2>5, <2>6
    <2>8. "ir/#" \in Filters /\ "rc/#" \in Filters
      BY DEF Filters
    <2>9. Queued(Online) => Queued(Online)'
      BY <2>2, <2>4
    <2>10. ~Queued(Connect) => ~Queued(Connect)'
      BY <2>4
    <2> QED
      BY <2>1, <2>3, <2>5, <2>7, <2>8, <2>9, <2>10
         DEF RequestsInForce, Handshake, Established
  <1>14. CASE BrokerDetects
    <2>1. /\ UNCHANGED <<pc, link, rx, tx>>
          /\ statusSeen' = "off" /\ session = "stale" /\ session' = "none"
      BY <1>14 DEF BrokerDetects, WillFires
    <2> QED
      BY <2>1 DEF RequestsInForce, Handshake, Established
  <1>15. ASSUME NEW msg \in Messages, NEW retain \in BOOLEAN, UserPublishes(msg, retain)
         PROVE  RequestsInForce'
    <2>1. UNCHANGED <<pc, link, tx, session, subs, statusSeen>>
      BY <1>15 DEF UserPublishes
    <2>2. session = "live" /\ subs = {} => rx' = rx
      BY <1>15 DEF UserPublishes
    <2>3. session # "live" => rx' = rx
      BY <1>15 DEF UserPublishes
    <2>4. \A q : Queued(q)' <=> Queued(q)
      BY <2>1 DEF Queued
    <2> QED
      BY <2>1, <2>2, <2>3, <2>4 DEF RequestsInForce, Handshake, Established
  <1>16. CASE LinkBreaks
    <2>1. /\ link = "up" /\ link' = "broken" /\ UNCHANGED <<pc, statusSeen>>
          /\ session' # "live" /\ (session' = "none" => session = "none")
      BY <1>16 DEF LinkBreaks
    <2> QED
      BY <2>1, LinkDown DEF RequestsInForce
  <1>17. CASE BrokerCloses
    <2>1. /\ link = "up" /\ link' = "closed" /\ UNCHANGED pc
          /\ session' # "live"
          /\ statusSeen' = "off" \/ UNCHANGED <<session, statusSeen>>
      BY <1>17 DEF BrokerCloses, WillFires
    <2> QED
      BY <2>1, LinkDown DEF RequestsInForce
  <1>18. CASE UNCHANGED vars
    BY <1>18 DEF vars, RequestsInForce, Handshake, Established, Queued
  <1> QED
    BY <1>1, <1>2, <1>3, <1>4, <1>5, <1>6, <1>7, <1>8, <1>9, <1>10, <1>11, <1>12,
       <1>13, <1>14, <1>15, <1>16, <1>17, <1>18 DEF Next, Sketch, Broker

(* When nothing is under way any more, what was asked for is in force. *)
LEMMA NothingUnderWay ==
    TypeOK /\ RequestsInForce => ServingMeansSubscribed /\ StatusFollowsSession
  <1> SUFFICES ASSUME TypeOK, RequestsInForce
               PROVE  ServingMeansSubscribed /\ StatusFollowsSession
    OBVIOUS
  <1>1. tx = <<>> => \A q : ~Queued(q)
    BY NothingQueued
  <1>2. Serving => session = "live" /\ statusSeen = "on" /\ {"ir/#", "rc/#"} \subseteq subs
    BY <1>1 DEF Serving, RequestsInForce, Established
  <1> QED
    BY <1>2 DEF ServingMeansSubscribed, StatusFollowsSession, RequestsInForce, TypeOK, Filters

(* Whatever connections are lost, refused, taken over or found again, what *)
(* the sketch asked the broker for is in force or still under way.         *)
THEOREM InForce == Spec => []RequestsInForce
  <1>1. Init => Typed /\ RequestsInForce
    BY InitTyped, InitInForce
  <1>2. Typed /\ RequestsInForce /\ [Next]_vars => (Typed /\ RequestsInForce)'
    BY NextTypeOK, NextCopy, NextInForce DEF Typed
  <1> QED
    BY <1>1, <1>2, PTL DEF Spec

(* A gateway that is serving is subscribed to both command topics in a     *)
(* live session, and is seen to be online: for every set of messages and   *)
(* every number of faults.                                                 *)
THEOREM ServedAndSeen == Spec => [](ServingMeansSubscribed /\ StatusFollowsSession)
  <1>1. TypeOK /\ RequestsInForce => ServingMeansSubscribed /\ StatusFollowsSession
    BY NothingUnderWay
  <1> QED
    BY <1>1, TypeCorrect, InForce, PTL

(* What a subscriber is told of the gateway follows its session: it is seen *)
(* online whenever it serves.                                              *)
THEOREM SeenOnline == Spec => []StatusFollowsSession
  BY ServedAndSeen, PTL

-------------------------------------------------------------------------------
(* Flattening a queue of queues *)

(* What a flattened queue is of, and what one more queue adds to it.       *)
LEMMA FlattenType ==
    ASSUME NEW M, NEW s \in Seq(Seq(M))
    PROVE  FlattenSeq(s) \in Seq(M)
<1>1. Len(s) \in Nat /\ \A i \in 1..Len(s) : s[i] \in Seq(M)
  BY LenProperties, ElementOfSeq
<1>2. PICK f : /\ f[0] = <<>> /\ FlattenSeq(s) = f[Len(s)]
               /\ \A i \in 0..(Len(s) - 1) : f[i + 1] = f[i] \o s[i + 1]
  BY FlattenIs
<1> DEFINE Fits == {k \in 0..Len(s) : f[k] \in Seq(M)}
<1>3. 0 \in Fits
  <2>1. <<>> \in Seq(M) /\ 0 \in 0..Len(s)
    BY <1>1
  <2> QED BY <1>2, <2>1
<1>4. ASSUME NEW k \in 0..(Len(s) - 1), k \in Fits PROVE k + 1 \in Fits
  <2>1. k + 1 \in 1..Len(s) /\ k + 1 \in 0..Len(s)
    BY <1>1
  <2>2. f[k + 1] = f[k] \o s[k + 1] /\ f[k] \in Seq(M) /\ s[k + 1] \in Seq(M)
    BY <1>1, <1>2, <1>4, <2>1
  <2>3. f[k] \o s[k + 1] \in Seq(M)
    BY <2>2, ConcatProperties
  <2> QED BY <2>1, <2>2, <2>3
<1>5. Len(s) \in Fits
  <2> HIDE DEF Fits
  <2>1. 0..Len(s) \subseteq Fits
    BY <1>1, <1>3, <1>4, SetInduction
  <2> QED BY <1>1, <2>1
<1> QED BY <1>2, <1>5

LEMMA FlattenAppend ==
    ASSUME NEW M, NEW s \in Seq(Seq(M)), NEW e \in Seq(M)
    PROVE  FlattenSeq(Append(s, e)) = FlattenSeq(s) \o e
<1> DEFINE t == Append(s, e)
<1>1. /\ t \in Seq(Seq(M)) /\ Len(s) \in Nat /\ Len(t) = Len(s) + 1
      /\ t[Len(s) + 1] = e /\ \A i \in 1..Len(s) : t[i] = s[i]
  BY LenProperties, AppendProperties
<1> HIDE DEF t
<1>2. PICK f : /\ f[0] = <<>> /\ FlattenSeq(s) = f[Len(s)]
               /\ \A i \in 0..(Len(s) - 1) : f[i + 1] = f[i] \o s[i + 1]
  BY FlattenIs
<1>3. PICK g : /\ g[0] = <<>> /\ FlattenSeq(t) = g[Len(t)]
               /\ \A i \in 0..(Len(t) - 1) : g[i + 1] = g[i] \o t[i + 1]
  BY <1>1, FlattenIs
<1> DEFINE Same == {k \in 0..Len(s) : g[k] = f[k]}
<1>4. 0 \in Same
  BY <1>1, <1>2, <1>3
<1>5. ASSUME NEW k \in 0..(Len(s) - 1), k \in Same PROVE k + 1 \in Same
  <2>1. k + 1 \in 1..Len(s) /\ k + 1 \in 0..Len(s) /\ k \in 0..(Len(t) - 1)
    BY <1>1
  <2>2. f[k + 1] = f[k] \o s[k + 1] /\ g[k + 1] = g[k] \o t[k + 1]
    BY <1>2, <1>3, <2>1
  <2>3. t[k + 1] = s[k + 1] /\ g[k] = f[k]
    BY <1>1, <1>5, <2>1
  <2> QED BY <2>1, <2>2, <2>3
<1>6. Len(s) \in Same
  <2> HIDE DEF Same
  <2>1. 0..Len(s) \subseteq Same
    BY <1>1, <1>4, <1>5, SetInduction
  <2> QED BY <1>1, <2>1
<1>7. g[Len(s) + 1] = g[Len(s)] \o t[Len(s) + 1]
  <2>1. Len(s) \in 0..(Len(t) - 1)
    BY <1>1
  <2> QED BY <1>3, <2>1
<1> QED BY <1>1, <1>2, <1>3, <1>6, <1>7 DEF t

(* Three queues one behind the other. *)
LEMMA Regroup ==
    ASSUME NEW M
    PROVE  \A x, y, z \in Seq(M) : (x \o y) \o z = x \o (y \o z)
BY ConcatAssociative

(* Two queues one behind the other are flattened one behind the other. *)
LEMMA FlattenConcat ==
    ASSUME NEW M, NEW s \in Seq(Seq(M)), NEW t \in Seq(Seq(M))
    PROVE  FlattenSeq(s \o t) = FlattenSeq(s) \o FlattenSeq(t)
<1>1. Len(t) \in Nat /\ \A i \in 1..Len(t) : t[i] \in Seq(M)
  BY LenProperties, ElementOfSeq
<1> DEFINE U(k) == SubSeq(t, 1, k)
           Splits == {k \in 0..Len(t) : FlattenSeq(s \o U(k)) = FlattenSeq(s) \o FlattenSeq(U(k))}
<1>2. \A k \in 0..Len(t) : U(k) \in Seq(Seq(M))
  BY <1>1, SubSeqProperties
<1>3. 0 \in Splits
  <2>1. U(0) = <<>>
    BY SubSeqEmpty
  <2>2. s \o U(0) = s /\ FlattenSeq(U(0)) = <<>>
    BY <2>1, ConcatEmptySeq DEF FlattenSeq
  <2>3. FlattenSeq(s) \o <<>> = FlattenSeq(s)
    BY FlattenType, ConcatEmptySeq
  <2>4. 0 \in 0..Len(t)
    BY <1>1
  <2> QED BY <2>2, <2>3, <2>4
<1>4. ASSUME NEW k \in 0..(Len(t) - 1), k \in Splits PROVE k + 1 \in Splits
  <2>1. k + 1 \in 1..Len(t) /\ k \in 0..Len(t) /\ k + 1 \in 0..Len(t) /\ (k + 1) - 1 = k /\ 1 \in 1..Len(t)
    BY <1>1
  <2>2. t[k + 1] \in Seq(M) /\ U(k) \in Seq(Seq(M)) /\ U(k + 1) \in Seq(Seq(M))
    BY <1>1, <1>2, <2>1
  <2>3. U(k + 1) = Append(U(k), t[k + 1])
    <3>1. /\ Len(U(k + 1)) = k + 1 /\ Len(U(k)) = k
          /\ \A i \in 1..(k + 1) : U(k + 1)[i] = t[i]
          /\ \A i \in 1..k : U(k)[i] = t[i]
      BY <1>1, <2>1
    <3> QED BY <2>1, <2>2, <3>1
  <2> DEFINE u == U(k)
             e == t[k + 1]
  <2>4. s \o Append(u, e) = Append(s \o u, e) /\ s \o u \in Seq(Seq(M))
    <3> HIDE DEF u, e
    <3>1. u \in Seq(Seq(M)) /\ e \in Seq(M)
      BY <2>2 DEF u, e
    <3>2. /\ s \o u \in Seq(Seq(M)) /\ Len(s \o u) = Len(s) + Len(u)
          /\ Len(s) \in Nat /\ Len(u) \in Nat
      BY <3>1, ConcatProperties, LenProperties
    <3> QED BY <3>1, <3>2, SMTT(30)
  <2> HIDE DEF U
  <2>5. FlattenSeq(s \o U(k + 1)) = FlattenSeq(s \o u) \o e
    BY <2>2, <2>3, <2>4, FlattenAppend
  <2>6. FlattenSeq(U(k + 1)) = FlattenSeq(u) \o e
    BY <2>2, <2>3, FlattenAppend
  <2>7. /\ FlattenSeq(s) \in Seq(M) /\ FlattenSeq(u) \in Seq(M) /\ e \in Seq(M)
        /\ FlattenSeq(s \o u) = FlattenSeq(s) \o FlattenSeq(u)
    BY <1>4, <2>2, FlattenType
  <2> HIDE DEF u, e, Splits
  <2>8. \A x, y, z \in Seq(M) : (x \o y) \o z = x \o (y \o z)
    BY Regroup, SMTT(30)
  <2>9. (FlattenSeq(s) \o FlattenSeq(u)) \o e = FlattenSeq(s) \o (FlattenSeq(u) \o e)
    BY <2>7, <2>8
  <2>10. FlattenSeq(s \o U(k + 1)) = FlattenSeq(s) \o FlattenSeq(U(k + 1))
    BY <2>5, <2>6, <2>7, <2>9
  <2> QED BY <2>1, <2>10 DEF Splits
<1>5. Len(t) \in Splits
  <2> HIDE DEF Splits
  <2>1. 0..Len(t) \subseteq Splits
    BY <1>1, <1>3, <1>4, SetInduction
  <2> QED BY <1>1, <2>1
<1>6. U(Len(t)) = t
  BY SubSeqFull
<1> HIDE DEF U
<1> QED BY <1>5, <1>6

-------------------------------------------------------------------------------
(* The commands of a queue of packets *)

(* What waits in a queue are messages; a packet is none or one of them.    *)
LEMMA CommandOfIs ==
    ASSUME NEW p \in InPackets
    PROVE  /\ CommandOf(p) \in Seq(Messages)
           /\ p.type # "PUBLISH" \/ ~p.whole => CommandOf(p) = <<>>
           /\ p.type = "PUBLISH" /\ p.whole => p.msg \in Messages /\ CommandOf(p) = <<p.msg>>
<1>1. p.type = "PUBLISH" => p.msg \in Messages
  BY InPacketCases
<1>2. \A m \in Messages : <<m>> \in Seq(Messages)
  OBVIOUS
<1> QED BY <1>1, <1>2 DEF CommandOf

LEMMA CommandsType ==
    ASSUME NEW q \in Seq(InPackets)
    PROVE  /\ [i \in DOMAIN q |-> CommandOf(q[i])] \in Seq(Seq(Messages))
           /\ CommandsIn(q) \in Seq(Messages)
<1>1. Len(q) \in Nat /\ DOMAIN q = 1..Len(q) /\ \A i \in 1..Len(q) : q[i] \in InPackets
  BY LenProperties, ElementOfSeq
<1>2. \A i \in 1..Len(q) : CommandOf(q[i]) \in Seq(Messages)
  BY <1>1, CommandOfIs
<1>3. [i \in DOMAIN q |-> CommandOf(q[i])] \in Seq(Seq(Messages))
  BY <1>1, <1>2
<1> QED BY <1>3, FlattenType DEF CommandsIn

(* The commands of two queues one behind the other. *)
LEMMA CommandsConcat ==
    ASSUME NEW q \in Seq(InPackets), NEW r \in Seq(InPackets)
    PROVE  CommandsIn(q \o r) = CommandsIn(q) \o CommandsIn(r)
<1> DEFINE S(u) == [i \in DOMAIN u |-> CommandOf(u[i])]
<1>1. S(q) \in Seq(Seq(Messages)) /\ S(r) \in Seq(Seq(Messages))
  BY CommandsType
<1>2. S(q \o r) = S(q) \o S(r)
  <2>1. /\ q \o r \in Seq(InPackets) /\ Len(q \o r) = Len(q) + Len(r)
        /\ Len(q) \in Nat /\ Len(r) \in Nat
    BY ConcatProperties, LenProperties
  <2>2. /\ S(q \o r) = [i \in 1..(Len(q) + Len(r)) |-> CommandOf((q \o r)[i])]
        /\ Len(S(q)) = Len(q) /\ Len(S(r)) = Len(r)
    BY <1>1, <2>1, LenProperties
  <2>3. ASSUME NEW i \in 1..(Len(q) + Len(r))
        PROVE  CommandOf((q \o r)[i]) = (S(q) \o S(r))[i]
    <3>1. CASE i <= Len(q)
      <4>1. i \in 1..Len(q) /\ (q \o r)[i] = q[i] /\ S(q)[i] = CommandOf(q[i])
        BY <2>1, <3>1, ConcatProperties, LenProperties
      <4> HIDE DEF S
      <4>2. (S(q) \o S(r))[i] = S(q)[i]
        BY <1>1, <2>2, <3>1, ConcatProperties
      <4> QED BY <4>1, <4>2
    <3>2. CASE i > Len(q)
      <4>1. i - Len(q) \in 1..Len(r) /\ (q \o r)[i] = r[i - Len(q)]
        BY <2>1, <3>2, ConcatProperties, LenProperties
      <4>2. S(r)[i - Len(q)] = CommandOf(r[i - Len(q)])
        BY <4>1, LenProperties
      <4> HIDE DEF S
      <4>3. (S(q) \o S(r))[i] = S(r)[i - Len(q)]
        BY <1>1, <2>1, <2>2, <3>2, ConcatProperties
      <4> QED BY <4>1, <4>2, <4>3
    <3> QED BY <2>1, <3>1, <3>2
  <2>4. S(q) \o S(r) = [i \in 1..(Len(q) + Len(r)) |-> (S(q) \o S(r))[i]]
    <3> DEFINE x == S(q)
               y == S(r)
    <3>1. x \in Seq(Seq(Messages)) /\ y \in Seq(Seq(Messages))
      BY <1>1
    <3> HIDE DEF x, y
    <3>2. x \o y \in Seq(Seq(Messages)) /\ Len(x \o y) = Len(x) + Len(y)
      BY <3>1, ConcatProperties
    <3>3. x \o y = [i \in 1..(Len(x) + Len(y)) |-> (x \o y)[i]]
      BY <3>2, LenProperties
    <3>4. Len(x) = Len(q) /\ Len(y) = Len(r)
      BY <2>2 DEF x, y
    <3>5. x \o y = [i \in 1..(Len(q) + Len(r)) |-> (x \o y)[i]]
      BY <3>3, <3>4
    <3> QED BY <3>5 DEF x, y
  <2> QED BY <2>2, <2>3, <2>4
<1> HIDE DEF S
<1> QED BY <1>1, <1>2, FlattenConcat DEF CommandsIn, S

(* The commands of a queue of one packet, and of none. *)
LEMMA CommandsOfOne ==
    /\ CommandsIn(<<>>) = <<>>
    /\ \A p \in InPackets : CommandsIn(<<p>>) = CommandOf(p)
<1>1. CommandsIn(<<>>) = <<>>
  <2>1. [i \in DOMAIN <<>> |-> CommandOf(<<>>[i])] = <<>>
    OBVIOUS
  <2> QED BY <2>1 DEF CommandsIn, FlattenSeq
<1>2. ASSUME NEW p \in InPackets PROVE CommandsIn(<<p>>) = CommandOf(p)
  <2>1. [i \in DOMAIN <<p>> |-> CommandOf(<<p>>[i])] = <<CommandOf(p)>>
    OBVIOUS
  <2>2. CommandOf(p) \in Seq(Messages)
    BY CommandOfIs
  <2> DEFINE c == CommandOf(p)
  <2> HIDE DEF c
  <2>3. c \in Seq(Messages)
    BY <2>2 DEF c
  <2>4. <<c>> = Append(<<>>, c) /\ <<>> \in Seq(Seq(Messages))
    BY <2>3
  <2>5. FlattenSeq(<<c>>) = FlattenSeq(<<>>) \o c
    BY <2>3, <2>4, FlattenAppend
  <2>6. FlattenSeq(<<>>) = <<>>
    BY DEF FlattenSeq
  <2> QED BY <2>1, <2>3, <2>5, <2>6, ConcatEmptySeq DEF CommandsIn, c
<1> QED BY <1>1, <1>2

(* A packet that is read takes its command from the front, one that is     *)
(* sent adds it behind.                                                    *)
LEMMA CommandsRead ==
    ASSUME NEW q \in Seq(InPackets), q # <<>>
    PROVE  CommandsIn(q) = CommandOf(Head(q)) \o CommandsIn(Tail(q))
<1>1. Head(q) \in InPackets /\ Tail(q) \in Seq(InPackets)
  BY HeadTailProperties
<1>2. <<Head(q)>> \in Seq(InPackets) /\ q = <<Head(q)>> \o Tail(q)
  BY <1>1
<1> DEFINE h == Head(q)
           t == Tail(q)
<1> HIDE DEF h, t
<1>3. CommandsIn(<<h>> \o t) = CommandsIn(<<h>>) \o CommandsIn(t)
  BY <1>1, <1>2, CommandsConcat DEF h, t
<1> QED BY <1>1, <1>2, <1>3, CommandsOfOne DEF h, t

LEMMA CommandsSent ==
    ASSUME NEW q \in Seq(InPackets), NEW p \in InPackets
    PROVE  CommandsIn(Append(q, p)) = CommandsIn(q) \o CommandOf(p)
<1>1. <<p>> \in Seq(InPackets) /\ Append(q, p) = q \o <<p>>
  OBVIOUS
<1>2. CommandsIn(q \o <<p>>) = CommandsIn(q) \o CommandsIn(<<p>>)
  BY <1>1, CommandsConcat
<1> QED BY <1>1, <1>2, CommandsOfOne

(* What a lost connection leaves of a queue holds its first commands: the  *)
(* packet that was cut in two is none.                                     *)
LEMMA CommandsRemain ==
    ASSUME rx \in Seq(InPackets), NEW r \in Remains
    PROVE  \E c \in Seq(Messages) : CommandsIn(rx) = CommandsIn(r) \o c
<1>1. Len(rx) \in Nat /\ \A i \in 1..Len(rx) : rx[i] \in InPackets
  BY LenProperties, ElementOfSeq
<1>2. ASSUME NEW n \in 0..Len(rx)
      PROVE  /\ SubSeq(rx, 1, n) \in Seq(InPackets)
             /\ \E c \in Seq(Messages) : CommandsIn(rx) = CommandsIn(SubSeq(rx, 1, n)) \o c
  <2> DEFINE a == SubSeq(rx, 1, n)
             b == SubSeq(rx, n + 1, Len(rx))
  <2>1. a \in Seq(InPackets)
    BY <1>1, SubSeqProperties
  <2>2. b \in Seq(InPackets)
    BY <1>1, SubSeqProperties
  <2>3. a \o b = rx
    <3>1. a \o b = SubSeq(rx, 1, Len(rx))
      <4>1. 1 \in 1..(Len(rx) + 1) /\ n \in (1 - 1)..Len(rx) /\ Len(rx) \in n..Len(rx)
        BY <1>1
      <4> QED BY <4>1, ConcatAdjacentSubSeq
    <3> QED BY <3>1, SubSeqFull
  <2> HIDE DEF a, b
  <2>4. CommandsIn(rx) = CommandsIn(a) \o CommandsIn(b)
    BY <2>1, <2>2, <2>3, CommandsConcat
  <2>5. CommandsIn(b) \in Seq(Messages)
    BY <2>2, CommandsType
  <2> QED BY <2>1, <2>4, <2>5 DEF a
<1>3. CASE \E n \in 0..Len(rx) : r = SubSeq(rx, 1, n)
  BY <1>2, <1>3
<1>4. ASSUME NEW n \in 0..(Len(rx) - 1),
             r = Append(SubSeq(rx, 1, n), [rx[n + 1] EXCEPT !.whole = FALSE])
      PROVE  \E c \in Seq(Messages) : CommandsIn(rx) = CommandsIn(r) \o c
  <2> DEFINE a == SubSeq(rx, 1, n)
             p == [rx[n + 1] EXCEPT !.whole = FALSE]
  <2>1. n \in 0..Len(rx) /\ n + 1 \in 1..Len(rx)
    BY <1>1
  <2>2. a \in Seq(InPackets) /\ rx[n + 1] \in InPackets
    BY <1>1, <1>2, <2>1
  <2>3. p \in InPackets /\ ~p.whole
    <3>1. rx[n + 1].whole \in BOOLEAN /\ "whole" \in DOMAIN rx[n + 1]
      BY <2>2 DEF InPackets
    <3> QED BY <2>2, <3>1, InPacketCases
  <2>4. r = Append(a, p)
    BY <1>4
  <2>5. \E c \in Seq(Messages) : CommandsIn(rx) = CommandsIn(a) \o c
    BY <1>2, <2>1
  <2> HIDE DEF a, p
  <2>6. CommandsIn(r) = CommandsIn(a) \o <<>>
    BY <2>2, <2>3, <2>4, CommandsSent, CommandOfIs
  <2>7. CommandsIn(a) \in Seq(Messages)
    BY <2>2, CommandsType
  <2> QED BY <2>5, <2>6, <2>7, ConcatEmptySeq
<1> QED BY <1>3, <1>4 DEF Remains

-------------------------------------------------------------------------------
(* Every step of the gateway is one of the command channel, or none *)

Waiting == InCallback \o CommandsIn(rx)

(* Commands come behind those that wait, the oldest is handled, or the     *)
(* newest are lost; or nothing changes.                                    *)
Moves ==
    \/ radio' = radio /\ \E c \in Seq(Messages) : Waiting' = Waiting \o c
    \/ radio' = radio /\ \E c \in Seq(Messages) : Waiting = Waiting' \o c
    \/ \E m \in Messages : /\ Waiting = <<m>> \o Waiting'
                           /\ radio' = IF Known(m) THEN m ELSE radio

(* A beginning of a queue is a prefix. *)
LEMMA BeginningIsPrefix ==
    ASSUME NEW M, NEW s \in Seq(M), NEW c \in Seq(M)
    PROVE  IsPrefix(s, s \o c)
<1>1. Len(s) \in Nat /\ Len(s \o c) = Len(s) + Len(c) /\ Len(c) \in Nat
  BY LenProperties, ConcatProperties
<1>2. SubSeq(s \o c, 1, Len(s)) = SubSeq(s, 1, Len(s))
  BY <1>1
<1> QED BY <1>1, <1>2 DEF IsPrefix

LEMMA MovesAreSteps ==
    ASSUME Waiting \in Seq(Messages), Waiting' \in Seq(Messages), Moves
    PROVE  [Channel!Next]_(Channel!vars)
<1> DEFINE w == Waiting
           v == Waiting'
<1>1. w \in Seq(Messages) /\ v \in Seq(Messages)
  OBVIOUS
<1>2. \/ radio' = radio /\ IsPrefix(w, v)
      \/ radio' = radio /\ IsPrefix(v, w)
      \/ /\ w # <<>> /\ v = Tail(w)
         /\ radio' = IF Known(Head(w)) THEN Head(w) ELSE radio
  <2>1. CASE radio' = radio /\ \E c \in Seq(Messages) : v = w \o c
    <3> HIDE DEF w, v
    <3> QED BY <1>1, <2>1, BeginningIsPrefix
  <2>2. CASE radio' = radio /\ \E c \in Seq(Messages) : w = v \o c
    <3> HIDE DEF w, v
    <3> QED BY <1>1, <2>2, BeginningIsPrefix
  <2>3. ASSUME NEW m \in Messages, w = <<m>> \o v, radio' = IF Known(m) THEN m ELSE radio
        PROVE  /\ w # <<>> /\ v = Tail(w)
               /\ radio' = IF Known(Head(w)) THEN Head(w) ELSE radio
    <3> HIDE DEF w, v
    <3>1. Head(<<m>> \o v) = m /\ Tail(<<m>> \o v) = v /\ <<m>> \o v # <<>>
      BY <1>1
    <3> QED BY <2>3, <3>1
  <2> QED BY <2>1, <2>2, <2>3 DEF Moves
<1> QED BY <1>2 DEF Waiting, IsPrefix, Channel!Next, Channel!vars, Channel!Accept,
       Channel!Handle, Channel!Lose, Channel!IsStrictPrefix, Channel!IsPrefix

(* What waits are messages. *)
LEMMA WaitingType ==
    ASSUME Typed
    PROVE  /\ InCallback \in Seq(Messages) /\ CommandsIn(rx) \in Seq(Messages)
           /\ Waiting \in Seq(Messages)
<1>1. InCallback \in Seq(Messages)
  <2>1. CASE pc = "copy"
    BY <2>1 DEF InCallback, Typed, TypeOK, CopyOutlivesBuffer
  <2>2. CASE pc \in {"echo", "handle"}
    BY <2>2 DEF InCallback, Typed, TypeOK, CopyOutlivesBuffer
  <2>3. CASE pc \notin {"copy", "echo", "handle"}
    BY <2>3 DEF InCallback
  <2> QED BY <2>1, <2>2, <2>3
<1>2. CommandsIn(rx) \in Seq(Messages)
  BY CommandsType DEF Typed, TypeOK
<1> QED BY <1>1, <1>2, ConcatProperties DEF Waiting

(* Packets that come add their commands; a connection that goes leaves     *)
(* some of the first; one that is stopped leaves none but the one at work. *)
LEMMA MoreWait ==
    ASSUME Typed, NEW c \in Seq(Messages), CommandsIn(rx') = CommandsIn(rx) \o c,
           InCallback' = InCallback, radio' = radio
    PROVE  Moves
<1> DEFINE a == InCallback
           b == CommandsIn(rx)
<1>1. a \in Seq(Messages) /\ b \in Seq(Messages)
  BY WaitingType
<1>2. Waiting' = a \o (b \o c) /\ Waiting = a \o b
  BY DEF Waiting
<1> HIDE DEF a, b
<1>3. \A x, y, z \in Seq(Messages) : (x \o y) \o z = x \o (y \o z)
  BY Regroup, SMTT(30)
<1>4. Waiting' = Waiting \o c
  BY <1>1, <1>2, <1>3
<1> QED BY <1>4 DEF Moves

LEMMA SameWait ==
    ASSUME Typed, CommandsIn(rx') = CommandsIn(rx), InCallback' = InCallback, radio' = radio
    PROVE  Moves
<1>1. <<>> \in Seq(Messages) /\ CommandsIn(rx) = CommandsIn(rx) \o <<>>
  BY WaitingType, ConcatEmptySeq
<1> QED BY <1>1, MoreWait

LEMMA FewerWait ==
    ASSUME Typed, NEW c \in Seq(Messages), CommandsIn(rx) = CommandsIn(rx') \o c,
           CommandsIn(rx') \in Seq(Messages), InCallback' = InCallback, radio' = radio
    PROVE  Moves
<1> DEFINE a == InCallback
           b == CommandsIn(rx')
<1>1. a \in Seq(Messages) /\ b \in Seq(Messages)
  BY WaitingType
<1>2. Waiting = a \o (b \o c) /\ Waiting' = a \o b
  BY DEF Waiting
<1> HIDE DEF a, b
<1>3. \A x, y, z \in Seq(Messages) : (x \o y) \o z = x \o (y \o z)
  BY Regroup, SMTT(30)
<1>4. Waiting = Waiting' \o c
  BY <1>1, <1>2, <1>3
<1> QED BY <1>4 DEF Moves

LEMMA NoneWait ==
    ASSUME Typed, rx' = <<>>, InCallback' \in {InCallback, <<>>}, radio' = radio
    PROVE  Moves
<1> DEFINE a == InCallback
           b == CommandsIn(rx)
<1>1. a \in Seq(Messages) /\ b \in Seq(Messages)
  BY WaitingType
<1>2. Waiting = a \o b /\ Waiting' = InCallback' \o <<>> /\ InCallback' \in {a, <<>>}
  BY CommandsOfOne DEF Waiting
<1>3. Waiting \in Seq(Messages)
  BY WaitingType
<1> HIDE DEF a, b
<1>4. CASE InCallback' = a
  <2>1. Waiting' = a
    BY <1>1, <1>2, <1>4, ConcatEmptySeq
  <2> QED BY <1>1, <1>2, <2>1 DEF Moves
<1>5. CASE InCallback' = <<>>
  <2>1. Waiting' = <<>>
    BY <1>2, <1>5
  <2>2. Waiting = <<>> \o Waiting
    BY <1>3, ConcatEmptySeq
  <2>3. Waiting = Waiting' \o Waiting
    BY <2>1, <2>2
  <2> QED BY <1>3, <2>3 DEF Moves
<1> QED BY <1>2, <1>4, <1>5

(* The steps that write a packet: one that finds the connection gone drops *)
(* what came over it.                                                      *)
LEMMA WriteMoves ==
    ASSUME Typed, NEW p, WriteIfConnected(p), InCallback' = InCallback, radio' = radio
    PROVE  Moves
<1>1. CASE Connected
  BY <1>1, SameWait DEF WriteIfConnected
<1>2. CASE ~Connected
  BY <1>2, NoneWait DEF WriteIfConnected, Stop
<1> QED BY <1>1, <1>2

LEMMA NextMoves == Typed /\ [Next]_vars => Moves
<1> SUFFICES ASSUME Typed, [Next]_vars PROVE Moves
  OBVIOUS
<1> USE DEF client, broker
<1>t. rx \in Seq(InPackets)
  BY DEF Typed, TypeOK
<1>p. ConnAck \in InPackets /\ Refusal \in InPackets /\ SubAck \in InPackets
  BY PacketTypes
<1>c. /\ CommandOf(ConnAck) = <<>> /\ CommandOf(Refusal) = <<>> /\ CommandOf(SubAck) = <<>>
      /\ <<>> \in Seq(Messages)
  BY DEF CommandOf, ConnAck, Refusal, SubAck
<1>1. CASE Setup
  BY <1>1, SameWait DEF Setup, InCallback
<1>18. CASE BrokerForwards
  BY <1>18, SameWait DEF BrokerForwards, InCallback
<1>19. CASE BrokerDetects
  BY <1>19, SameWait DEF BrokerDetects, InCallback
<1>2. CASE ConnectFails \/ ConnectOpens \/ ConnackTimesOut
  <2>1. rx' = <<>> /\ radio' = radio /\ pc \in {"connect", "connack"} /\ pc' \in {"loop", "connack"}
    BY <1>2 DEF ConnectFails, ConnectOpens, ConnackTimesOut, Stop
  <2>2. InCallback' = InCallback
    BY <2>1 DEF InCallback
  <2> QED BY <2>1, <2>2, NoneWait
<1>3. CASE ReadConnack
  <2>1. InCallback' = InCallback /\ radio' = radio /\ rx # <<>>
    BY <1>3 DEF ReadConnack, InCallback
  <2>2. CASE Head(rx) = ConnAck
    <3>1. rx' = Tail(rx)
      BY <1>3, <2>2 DEF ReadConnack
    <3>2. CommandsIn(rx) = <<>> \o CommandsIn(rx')
      BY <1>t, <1>c, <2>1, <2>2, <3>1, CommandsRead
    <3>3. Tail(rx) \in Seq(InPackets)
      BY <1>t, <2>1, HeadTailProperties
    <3>4. CommandsIn(rx') \in Seq(Messages)
      BY <3>1, <3>3, CommandsType
    <3>5. CommandsIn(rx) = CommandsIn(rx')
      BY <3>2, <3>4, ConcatEmptySeq
    <3> QED BY <2>1, <3>5, SameWait
  <2>3. CASE Head(rx) # ConnAck
    <3>1. rx' = <<>>
      BY <1>3, <2>3 DEF ReadConnack, Stop
    <3> QED BY <2>1, <3>1, NoneWait
  <2> QED BY <2>2, <2>3
<1>4. CASE AnnounceStatus
  BY <1>4, WriteMoves DEF AnnounceStatus, InCallback
<1>5. CASE SubscribeIr
  BY <1>5, WriteMoves DEF SubscribeIr, InCallback
<1>6. CASE SubscribeRc
  BY <1>6, WriteMoves DEF SubscribeRc, InCallback
<1>7. CASE CallbackEchoes
  BY <1>7, WriteMoves DEF CallbackEchoes, InCallback
<1>8. CASE LoopDisconnected \/ LoopExpires
  <2>1. rx' = <<>> /\ radio' = radio /\ pc = "loop" /\ pc' = "connect"
    BY <1>8 DEF LoopDisconnected, LoopExpires, Stop
  <2>2. InCallback' = InCallback
    BY <2>1 DEF InCallback
  <2> QED BY <2>1, <2>2, NoneWait
<1>9. CASE LoopReads
  <2>1. /\ rx # <<>> /\ Head(rx).whole /\ rx' = Tail(rx) /\ pc = "loop" /\ radio' = radio
        /\ InCallback = <<>>
    BY <1>9 DEF LoopReads, InCallback
  <2>2. Head(rx) \in InPackets /\ Tail(rx) \in Seq(InPackets)
    BY <1>t, <2>1, HeadTailProperties
  <2>3. CommandsIn(rx) = CommandOf(Head(rx)) \o CommandsIn(rx') /\ CommandsIn(rx') \in Seq(Messages)
    BY <1>t, <2>1, <2>2, CommandsRead, CommandsType
  <2>4. InCallback' = CommandOf(Head(rx))
    <3>1. CASE Head(rx).type = "PUBLISH"
      <4>1. pc' = "copy" /\ buffer' = Head(rx).msg
        BY <1>9, <3>1 DEF LoopReads
      <4> QED BY <2>1, <3>1, <4>1 DEF InCallback, CommandOf
    <3>2. CASE Head(rx).type # "PUBLISH"
      <4>1. pc' = "loop"
        BY <1>9, <3>2 DEF LoopReads
      <4> QED BY <3>2, <4>1 DEF InCallback, CommandOf
    <3> QED BY <3>1, <3>2
  <2>5. Waiting' = CommandsIn(rx)
    BY <2>3, <2>4 DEF Waiting
  <2>6. Waiting = CommandsIn(rx) /\ CommandsIn(rx) \in Seq(Messages)
    BY <2>1, WaitingType, ConcatEmptySeq DEF Waiting
  <2>7. Waiting' = Waiting \o <<>>
    BY <2>5, <2>6, ConcatEmptySeq
  <2> QED BY <1>c, <2>1, <2>7 DEF Moves
<1>10. CASE CallbackCopies
  <2>1. /\ rx' = rx /\ radio' = radio
        /\ InCallback' = <<copy'>> /\ InCallback = <<buffer>> /\ copy' = buffer
    BY <1>10 DEF CallbackCopies, InCallback
  <2> QED BY <2>1, SameWait
<1>11. CASE CallbackHandles
  <2>1. /\ rx' = rx /\ radio' = (IF Known(copy) THEN copy ELSE radio)
        /\ InCallback = <<copy>> /\ InCallback' = <<>>
    BY <1>11 DEF CallbackHandles, InCallback
  <2>2. copy \in Messages
    BY <1>11 DEF CallbackHandles, Typed, TypeOK, CopyOutlivesBuffer
  <2>3. Waiting' = CommandsIn(rx)
    BY <2>1, WaitingType, ConcatEmptySeq DEF Waiting
  <2>4. Waiting = <<copy>> \o Waiting'
    BY <2>1, <2>3 DEF Waiting
  <2> QED BY <2>1, <2>2, <2>4 DEF Moves
<1>12. CASE Reset
  <2>1. rx' = <<>> /\ radio' = radio /\ InCallback' = <<>>
    BY <1>12 DEF Reset, Stop, InCallback
  <2> QED BY <2>1, NoneWait
<1>13. CASE BrokerAccepts \/ BrokerRefuses
  <2>1. /\ rx' = Append(rx, ConnAck) \/ rx' = Append(rx, Refusal)
        /\ radio' = radio /\ InCallback' = InCallback
    BY <1>13 DEF BrokerAccepts, BrokerRefuses, InCallback
  <2>2. CommandsIn(rx') = CommandsIn(rx) \o <<>>
    BY <1>t, <1>p, <1>c, <2>1, CommandsSent
  <2> QED BY <1>c, <2>1, <2>2, MoreWait
<1>14. CASE BrokerSubscribes
  <2>1. radio' = radio /\ InCallback' = InCallback /\ Head(tx).filter \in Filters
    <3>1. tx # <<>> /\ Head(tx).type = "SUBSCRIBE"
      BY <1>14 DEF BrokerSubscribes
    <3>2. Head(tx) \in OutPackets
      BY <3>1, HeadTailProperties DEF Typed, TypeOK
    <3> QED BY <1>14, <3>1, <3>2, OutPacketCases DEF BrokerSubscribes, InCallback
  <2>2. PICK ms \in SetToSeqs(RetainedFor(Head(tx).filter)) :
            rx' = Append(rx, SubAck) \o [i \in DOMAIN ms |-> Publish(ms[i])]
    BY <1>14 DEF BrokerSubscribes
  <2> DEFINE r == [i \in DOMAIN ms |-> Publish(ms[i])]
             q == Append(rx, SubAck)
  <2>3. r \in Seq(InPackets)
    BY <2>1, <2>2, RetainedSeqs DEF Typed
  <2>4. q \in Seq(InPackets) /\ CommandsIn(q) = CommandsIn(rx) \o <<>>
    BY <1>t, <1>p, <1>c, CommandsSent, AppendProperties
  <2>5. rx' = q \o r
    BY <2>2
  <2> HIDE DEF r, q
  <2>6. CommandsIn(rx') = CommandsIn(q) \o CommandsIn(r)
    BY <2>3, <2>4, <2>5, CommandsConcat
  <2>7. CommandsIn(q) = CommandsIn(rx)
    BY <2>4, WaitingType, ConcatEmptySeq
  <2>8. CommandsIn(r) \in Seq(Messages)
    BY <2>3, CommandsType
  <2> QED BY <2>1, <2>6, <2>7, <2>8, MoreWait
<1>15. ASSUME NEW msg \in Messages, NEW retain \in BOOLEAN, UserPublishes(msg, retain)
       PROVE  Moves
  <2>1. /\ rx' = rx \/ rx' = Append(rx, Publish(msg))
        /\ radio' = radio /\ InCallback' = InCallback
    BY <1>15 DEF UserPublishes, InCallback
  <2>2. CASE rx' = rx
    BY <2>1, <2>2, SameWait
  <2>3. CASE rx' = Append(rx, Publish(msg))
    <3>1. Publish(msg) \in InPackets
      BY PacketTypes
    <3>2. CommandsIn(rx') = CommandsIn(rx) \o CommandOf(Publish(msg))
      BY <1>t, <2>3, <3>1, CommandsSent
    <3>3. CommandOf(Publish(msg)) \in Seq(Messages)
      BY <3>1, CommandOfIs
    <3> QED BY <2>1, <3>2, <3>3, MoreWait
  <2> QED BY <2>1, <2>2, <2>3
<1>16. CASE LinkBreaks \/ BrokerCloses
  <2>1. rx' \in Remains /\ radio' = radio /\ InCallback' = InCallback
    BY <1>16 DEF LinkBreaks, BrokerCloses, InCallback
  <2>2. rx' \in Seq(InPackets)
    BY <2>1, RemainsAreSeqs DEF Typed
  <2>3. PICK c \in Seq(Messages) : CommandsIn(rx) = CommandsIn(rx') \o c
    BY <1>t, <2>1, CommandsRemain
  <2>4. CommandsIn(rx') \in Seq(Messages)
    BY <2>2, CommandsType
  <2> QED BY <2>1, <2>3, <2>4, FewerWait
<1>17. CASE UNCHANGED vars
  BY <1>17, SameWait DEF vars, InCallback
<1> QED BY <1>1, <1>2, <1>3, <1>4, <1>5, <1>6, <1>7, <1>8, <1>9, <1>10, <1>11, <1>12,
       <1>13, <1>14, <1>15, <1>16, <1>17, <1>18, <1>19 DEF Next, Sketch, Broker

(* With connections lost, sessions taken over and resets at any point of   *)
(* the callback, every step of the gateway is one that the command channel *)
(* allows: what is handed to the transmitters is what was published,       *)
(* unaltered, in order and once for each delivery, for every set of        *)
(* messages and every number of packets and faults.                        *)
THEOREM StepsImplementChannel ==
    Spec => Channel!Init /\ [][Channel!Next]_(Channel!vars)
<1>1. Init => Channel!Init
  <2> SUFFICES ASSUME Init PROVE Channel!Init
    OBVIOUS
  <2>1. rx = <<>> /\ InCallback = <<>> /\ radio = None
    BY DEF Init, InCallback
  <2>2. InCallback \o CommandsIn(rx) = <<>>
    BY <2>1, CommandsOfOne
  <2> QED BY <2>1, <2>2 DEF Channel!Init
<1>2. Typed => Waiting \in Seq(Messages)
  BY WaitingType
<1>3. Typed /\ Waiting \in Seq(Messages) /\ (Waiting \in Seq(Messages))' /\ [Next]_vars
        => [Channel!Next]_(Channel!vars)
  BY NextMoves, MovesAreSteps
<1>4. Spec => []Typed
  BY TypeCorrect, PTL DEF Typed
<1> QED BY <1>1, <1>2, <1>3, <1>4, PTL DEF Spec

===============================================================================
