------------------------------ MODULE MqttGateway ------------------------------
(***************************************************************************)
(* The gateway sketch MQTT_IR_RC_6.ino on top of the PubSubClient library, *)
(* the TCP connection below it and the MQTT broker at the other end.       *)
(*                                                                         *)
(* The sketch is one thread: setup(), then loop() for ever.  pc names the  *)
(* place it has reached; every step between two of its accesses to the     *)
(* socket is one action, so that the connection may change under it        *)
(* wherever it can change in the program.  Time is not modelled here: a    *)
(* timeout is a step that may happen (KeepAlive.tla models the clock).     *)
(*                                                                         *)
(* The broker and the network are not part of the repository; they are     *)
(* modelled from what the library and the sketch expect of them.           *)
(***************************************************************************)
EXTENDS Naturals, FiniteSets, Sequences, SequencesExt

CONSTANTS
    Payloads,      \* contents of command messages
    Messages,      \* the messages users publish on the command topics
    None,          \* no message
    MaxIn,         \* bound on the packets on their way to the client
    MaxOut,        \* bound on the packets on their way to the broker
    MaxFaults      \* bound on resets, lost connections and refusals

(* "ir" and "rc" are the topics that end in /ir and /rc; "ir/sub" is any   *)
(* topic below the first one, which the filter ".../ir/#" matches as well. *)
Topics == {"ir", "rc", "ir/sub"}
Filters == {"ir/#", "rc/#"}

Matching(filter) == IF filter = "ir/#" THEN {"ir", "ir/sub"} ELSE {"rc"}

ASSUME MessagesAssumption == Messages \subseteq [topic : Topics, payload : Payloads]
ASSUME NoneAssumption == None \notin Messages
ASSUME BoundsAssumption == MaxIn \in Nat /\ MaxOut \in Nat /\ MaxFaults \in Nat

VARIABLES
    pc,            \* where the sketch is
    link,          \* the TCP connection: "none", "up", "broken" or "closed"
    rx,            \* packets on their way to the client
    tx,            \* packets on their way to the broker
    buffer,        \* the message a pointer into the library's buffer yields
    copy,          \* the sketch's copy of the message, during the callback
    radio,         \* the last command handed to handle_ir or handle_rc
    session,       \* the broker's session of this client
    subs,          \* the filters subscribed in that session
    retained,      \* the retained message of each command topic
    statusSeen,    \* what subscribers of the status topic saw last
    last,          \* the retained message of the topic .../last
    faults         \* faults that may still happen

client == <<pc, buffer, copy, radio>>
broker == <<session, subs, retained, statusSeen, last>>
vars == <<pc, link, rx, tx, buffer, copy, radio, session, subs, retained,
          statusSeen, last, faults>>

PCs == {"setup", "connect", "connack", "status", "sub_ir", "sub_rc", "loop",
        "copy", "echo", "handle"}

-------------------------------------------------------------------------------
(* Packets.  One that the connection cut in two is not whole. *)

ConnAck == [type |-> "CONNACK", whole |-> TRUE]
Refusal == [type |-> "REFUSED", whole |-> TRUE]
SubAck == [type |-> "SUBACK", whole |-> TRUE]
Publish(m) == [type |-> "PUBLISH", msg |-> m, whole |-> TRUE]

Connect == [type |-> "CONNECT"]
Online == [type |-> "STATUS"]
Subscribe(f) == [type |-> "SUBSCRIBE", filter |-> f]
Echo(m) == [type |-> "LAST", msg |-> m]

InPackets ==
    [type : {"CONNACK", "REFUSED", "SUBACK"}, whole : BOOLEAN]
        \cup [type : {"PUBLISH"}, msg : Messages, whole : BOOLEAN]

OutPackets ==
    {Connect, Online} \cup {Subscribe(f) : f \in Filters} \cup {Echo(m) : m \in Messages}

(* A message the broker keeps for a topic (or None). *)
RetainedOn(topic) == {m \in Messages : m.topic = topic} \cup {None}

TypeOK ==
    /\ pc \in PCs
    /\ link \in {"none", "up", "broken", "closed"}
    /\ rx \in Seq(InPackets)
    /\ tx \in Seq(OutPackets)
    /\ buffer \in Messages \cup {None}
    /\ copy \in Messages \cup {None}
    /\ radio \in Messages \cup {None}
    /\ session \in {"none", "live", "stale"}
    /\ subs \subseteq Filters
    /\ retained \in [Topics -> Messages \cup {None}]
    /\ \A t \in Topics : retained[t] \in RetainedOn(t)
    /\ statusSeen \in {"none", "on", "off"}
    /\ last \in Messages \cup {None}
    /\ faults \in 0..MaxFaults

Init ==
    /\ pc = "setup"
    /\ link = "none"
    /\ rx = <<>> /\ tx = <<>>
    /\ buffer = None /\ copy = None /\ radio = None
    /\ session = "none" /\ subs = {}
    /\ retained = [t \in Topics |-> None]
    /\ statusSeen = "none"
    /\ last = None
    /\ faults = MaxFaults

-------------------------------------------------------------------------------
(* The socket, as EthernetClient presents it.  A connection the peer has   *)
(* closed counts as connected while there is something left to read.       *)

Connected == link \in {"up", "broken"} \/ (link = "closed" /\ rx # <<>>)

(* What the client writes reaches the broker only over a working connection. *)
Write(p) == tx' = IF link = "up" THEN Append(tx, p) ELSE tx

(* _client->stop() *)
Stop ==
    /\ link' = "none"
    /\ rx' = <<>> /\ tx' = <<>>
    /\ session' = IF session = "live" THEN "stale" ELSE session

(* A fault takes its share of the bound. *)
Fault == faults > 0 /\ faults' = faults - 1

-------------------------------------------------------------------------------
(* setup() and startmqtt() *)

Setup ==
    /\ pc = "setup"
    /\ pc' = "connect"
    /\ UNCHANGED <<link, rx, tx, buffer, copy, radio, broker, faults>>

(* connect(): the TCP connection cannot be opened. *)
ConnectFails ==
    /\ pc = "connect" /\ ~Connected
    /\ Fault
    /\ Stop
    /\ pc' = "loop"
    /\ UNCHANGED <<buffer, copy, radio, subs, retained, statusSeen, last>>

(* connect(): it is opened, and the CONNECT packet written.  A session the *)
(* broker still holds belongs to an earlier connection.                    *)
ConnectOpens ==
    /\ pc = "connect" /\ ~Connected
    /\ pc' = "connack"
    /\ link' = "up"
    /\ rx' = <<>> /\ tx' = <<Connect>>
    /\ buffer' = None
    /\ UNCHANGED <<copy, radio, broker, faults>>

(* connect(): no answer within the keep-alive interval.  The waiting loop  *)
(* does not look at the state of the connection.                           *)
ConnackTimesOut ==
    /\ pc = "connack" /\ rx = <<>>
    /\ IF link = "up" THEN Fault ELSE UNCHANGED faults
    /\ Stop
    /\ pc' = "loop"
    /\ UNCHANGED <<buffer, copy, radio, subs, retained, statusSeen, last>>

(* connect(): the answer is read. *)
ReadConnack ==
    /\ pc = "connack" /\ rx # <<>> /\ Head(rx).whole
    /\ buffer' = None
    /\ IF Head(rx) = ConnAck
         THEN /\ pc' = "status"
              /\ rx' = Tail(rx)
              /\ UNCHANGED <<link, tx, session>>
         ELSE /\ pc' = "loop"
              /\ Stop
    /\ UNCHANGED <<copy, radio, subs, retained, statusSeen, last, faults>>

(* publish() and subscribe(): nothing is written once the connection is    *)
(* gone, and the sketch does not look at the result.                       *)
WriteIfConnected(p) ==
    IF Connected
      THEN /\ Write(p)
           /\ buffer' = None
           /\ UNCHANGED <<link, rx, session>>
      ELSE /\ Stop
           /\ UNCHANGED buffer

(* Mutant: the status is published only once, by setup(). *)
AnnounceStatusNever ==
    /\ pc = "status" /\ pc' = "sub_ir"
    /\ UNCHANGED <<link, rx, tx, buffer, copy, radio, broker, faults>>

AnnounceStatus ==
    /\ pc = "status" /\ Len(tx) < MaxOut
    /\ WriteIfConnected(Online)
    /\ pc' = "sub_ir"
    /\ UNCHANGED <<copy, radio, subs, retained, statusSeen, last, faults>>

SubscribeIr ==
    /\ pc = "sub_ir" /\ Len(tx) < MaxOut
    /\ WriteIfConnected(Subscribe("ir/#"))
    /\ pc' = "sub_rc"
    /\ UNCHANGED <<copy, radio, subs, retained, statusSeen, last, faults>>

(* Mutant: the first subscription, pasted twice. *)
SubscribeRcPasted ==
    /\ pc = "sub_rc" /\ Len(tx) < MaxOut
    /\ WriteIfConnected(Subscribe("ir/#"))
    /\ pc' = "loop"
    /\ UNCHANGED <<copy, radio, subs, retained, statusSeen, last, faults>>

SubscribeRc ==
    /\ pc = "sub_rc" /\ Len(tx) < MaxOut
    /\ WriteIfConnected(Subscribe("rc/#"))
    /\ pc' = "loop"
    /\ UNCHANGED <<copy, radio, subs, retained, statusSeen, last, faults>>

-------------------------------------------------------------------------------
(* loop() *)

(* Mutant: the sketch does not look at the result of client.loop(). *)
LoopDisconnectedIgnored ==
    /\ pc = "loop" /\ ~Connected
    /\ Stop
    /\ UNCHANGED <<pc, buffer, copy, radio, subs, retained, statusSeen, last, faults>>

(* client.loop() finds the connection gone: startmqtt() *)
LoopDisconnected ==
    /\ pc = "loop" /\ ~Connected
    /\ Stop
    /\ pc' = "connect"
    /\ UNCHANGED <<buffer, copy, radio, subs, retained, statusSeen, last, faults>>

(* client.loop() gives up a connection whose peer left a ping unanswered.  *)
LoopExpires ==
    /\ pc = "loop" /\ link \in {"up", "broken"}
    /\ IF link = "up" THEN Fault ELSE UNCHANGED faults
    /\ Stop
    /\ pc' = "connect"
    /\ UNCHANGED <<buffer, copy, radio, subs, retained, statusSeen, last>>

(* client.loop() reads one packet; a PUBLISH goes to the callback, which   *)
(* gets a pointer into the buffer.  The rest of a packet that was cut in   *)
(* two is waited for without end.                                          *)
LoopReads ==
    /\ pc = "loop" /\ Connected /\ rx # <<>> /\ Head(rx).whole
    /\ rx' = Tail(rx)
    /\ IF Head(rx).type = "PUBLISH"
         THEN pc' = "copy" /\ buffer' = Head(rx).msg
         ELSE pc' = "loop" /\ buffer' = None
    /\ UNCHANGED <<link, tx, copy, radio, broker, faults>>

(* callback(): p is a copy of the payload. *)
CallbackCopies ==
    /\ pc = "copy"
    /\ copy' = buffer
    /\ pc' = "echo"
    /\ UNCHANGED <<link, rx, tx, buffer, radio, broker, faults>>

(* callback(): the copy is published on .../last, through the same buffer. *)
CallbackEchoes ==
    /\ pc = "echo" /\ Len(tx) < MaxOut
    /\ WriteIfConnected(Echo(copy))
    /\ pc' = "handle"
    /\ UNCHANGED <<copy, radio, subs, retained, statusSeen, last, faults>>

(* handle_command() has a handler for the message. *)
Known(m) == m.topic \in {"ir", "rc"}

(* Mutant: the library's pointer is handed on instead of the copy. *)
CallbackHandlesPointer ==
    /\ pc = "handle"
    /\ radio' = IF Known(copy) THEN buffer ELSE radio
    /\ copy' = None
    /\ pc' = "loop"
    /\ UNCHANGED <<link, rx, tx, buffer, broker, faults>>

(* callback(): the copy goes to handle_command() and is freed. *)
CallbackHandles ==
    /\ pc = "handle"
    /\ radio' = IF Known(copy) THEN copy ELSE radio
    /\ copy' = None
    /\ pc' = "loop"
    /\ UNCHANGED <<link, rx, tx, buffer, broker, faults>>

(* The board is reset: the sketch starts again, the broker is not told. *)
Reset ==
    /\ pc # "setup"
    /\ Fault
    /\ Stop
    /\ pc' = "setup"
    /\ buffer' = None /\ copy' = None
    /\ UNCHANGED <<radio, subs, retained, statusSeen, last>>

-------------------------------------------------------------------------------
(* The broker *)

(* The will is published. *)
WillFires == statusSeen' = "off"

(* CONNECT: a session another connection still holds is closed first, and  *)
(* its will published; the new session starts without subscriptions.       *)
BrokerAccepts ==
    /\ link = "up" /\ tx # <<>> /\ Head(tx) = Connect
    /\ tx' = Tail(tx)
    /\ rx' = Append(rx, ConnAck)
    /\ session' = "live" /\ subs' = {}
    /\ IF session = "stale" THEN WillFires ELSE UNCHANGED statusSeen
    /\ UNCHANGED <<client, link, retained, last, faults>>

BrokerRefuses ==
    /\ link = "up" /\ tx # <<>> /\ Head(tx) = Connect
    /\ Fault
    /\ tx' = Tail(tx)
    /\ rx' = Append(rx, Refusal)
    /\ UNCHANGED <<client, link, broker>>

(* PUBLISH: what those who subscribed to the topic see. *)
BrokerForwards ==
    /\ link = "up" /\ tx # <<>> /\ Head(tx).type \in {"STATUS", "LAST"}
    /\ tx' = Tail(tx)
    /\ IF Head(tx) = Online
         THEN statusSeen' = "on" /\ UNCHANGED last
         ELSE last' = Head(tx).msg /\ UNCHANGED statusSeen
    /\ UNCHANGED <<client, link, rx, session, subs, retained, faults>>

(* SUBSCRIBE: acknowledged, then the retained messages follow. *)
RetainedFor(filter) ==
    {retained[t] : t \in Matching(filter)} \ {None}

BrokerSubscribes ==
    /\ link = "up" /\ tx # <<>> /\ Head(tx).type = "SUBSCRIBE"
    /\ LET filter == Head(tx).filter
       IN  /\ subs' = subs \cup {filter}
           /\ \E ms \in SetToSeqs(RetainedFor(filter)) :
                rx' = Append(rx, SubAck) \o [i \in DOMAIN ms |-> Publish(ms[i])]
    /\ tx' = Tail(tx)
    /\ UNCHANGED <<client, link, session, retained, statusSeen, last, faults>>

(* A session without a connection is found dead, and its will published. *)
BrokerDetects ==
    /\ session = "stale"
    /\ session' = "none" /\ subs' = {}
    /\ WillFires
    /\ UNCHANGED <<client, link, rx, tx, retained, last, faults>>

-------------------------------------------------------------------------------
(* Users and the network *)

(* A user publishes a command, retained or not.  The broker forwards it to *)
(* the session if that is subscribed.                                      *)
UserPublishes(m, retain) ==
    LET subscribed == \E f \in subs : m.topic \in Matching(f)
    IN  /\ Len(rx) < MaxIn
        /\ rx' = IF link = "up" /\ session = "live" /\ subscribed
                   THEN Append(rx, Publish(m)) ELSE rx
        /\ retained' = IF retain THEN [retained EXCEPT ![m.topic] = m] ELSE retained
        /\ UNCHANGED <<client, link, tx, session, subs, statusSeen, last, faults>>

(* What can be left of the packets on their way when a connection goes:    *)
(* some of the first ones, and perhaps a part of the one behind them.      *)
Remains ==
    {SubSeq(rx, 1, n) : n \in 0..Len(rx)}
        \cup {Append(SubSeq(rx, 1, n), [rx[n + 1] EXCEPT !.whole = FALSE]) :
                 n \in 0..(Len(rx) - 1)}

(* The connection breaks and neither end is told. *)
LinkBreaks ==
    /\ link = "up"
    /\ Fault
    /\ link' = "broken"
    /\ rx' \in Remains /\ tx' = <<>>
    /\ session' = IF session = "live" THEN "stale" ELSE session
    /\ UNCHANGED <<client, subs, retained, statusSeen, last>>

(* The broker closes the connection, and with it the session it carries. *)
BrokerCloses ==
    /\ link = "up"
    /\ Fault
    /\ link' = "closed"
    /\ rx' \in Remains /\ tx' = <<>>
    /\ IF session = "live"
         THEN session' = "none" /\ subs' = {} /\ WillFires
         ELSE UNCHANGED <<session, subs, statusSeen>>
    /\ UNCHANGED <<client, retained, last>>

-------------------------------------------------------------------------------
Sketch ==
    \/ Setup
    \/ ConnectFails \/ ConnectOpens \/ ConnackTimesOut \/ ReadConnack
    \/ AnnounceStatus \/ SubscribeIr \/ SubscribeRc
    \/ LoopDisconnected \/ LoopExpires \/ LoopReads
    \/ CallbackCopies \/ CallbackEchoes \/ CallbackHandles

Broker ==
    \/ BrokerAccepts \/ BrokerRefuses \/ BrokerForwards \/ BrokerSubscribes
    \/ BrokerDetects

Next ==
    \/ Sketch
    \/ Broker
    \/ \E m \in Messages, retain \in BOOLEAN : UserPublishes(m, retain)
    \/ Reset \/ LinkBreaks \/ BrokerCloses

Spec == Init /\ [][Next]_vars

-------------------------------------------------------------------------------
(* loop() runs for ever, so a step of the sketch that stays possible is    *)
(* taken: it never waits for anything but the rest of a packet.  A timeout *)
(* on a dead connection does expire.  The broker answers what it is sent   *)
(* and notices a session without a connection.                             *)
Fairness ==
    /\ WF_vars(Setup \/ ConnectOpens \/ ReadConnack \/ AnnounceStatus \/ SubscribeIr
               \/ SubscribeRc \/ LoopDisconnected \/ LoopReads \/ CallbackCopies
               \/ CallbackEchoes \/ CallbackHandles)
    /\ WF_vars(link # "up" /\ ConnackTimesOut)
    /\ WF_vars(link = "broken" /\ LoopExpires)
    /\ WF_vars(BrokerAccepts \/ BrokerForwards \/ BrokerSubscribes)
    /\ WF_vars(BrokerDetects)

FairSpec == Spec /\ Fairness

-------------------------------------------------------------------------------
(* Properties *)

(* The sketch is in loop() with a working connection, and everything it    *)
(* wrote has been dealt with by the broker.                                *)
Serving == pc = "loop" /\ link = "up" /\ tx = <<>>

(* Whenever the gateway is serving, the broker has both subscriptions in a *)
(* live session: however the connection was lost and found again, no       *)
(* command topic stays unheard (startmqtt subscribes after every connect). *)
ServingMeansSubscribed == Serving => session = "live" /\ subs = Filters

(* Subscribers of the status topic who were there saw "on" last when the   *)
(* gateway is serving, and never "on" last once the broker holds no        *)
(* session for it: the will of an earlier session cannot overtake the      *)
(* "on" of a later one.                                                    *)
StatusFollowsSession ==
    /\ Serving => statusSeen = "on"
    /\ session = "none" => statusSeen # "on"

(* Why the two hold: where the handshake, the announcement and the         *)
(* subscriptions stand, at each place of the sketch, while the connection  *)
(* works.  What the sketch has asked for is in force or still under way.   *)
Queued(p) == \E i \in 1..Len(tx) : tx[i] = p

Handshake ==
    pc = "connack" /\ link = "up" =>
        \/ tx = <<Connect>> /\ rx = <<>> /\ session # "live"
        \/ tx = <<>> /\ rx = <<ConnAck>> /\ session = "live" /\ subs = {}
        \/ tx = <<>> /\ rx = <<Refusal>> /\ session # "live"

Established ==
    pc \notin {"setup", "connect", "connack"} /\ link = "up" =>
        /\ session = "live"
        /\ ~Queued(Connect)
        /\ pc # "status" => statusSeen = "on" \/ Queued(Online)
        /\ pc \notin {"status", "sub_ir"} =>
             "ir/#" \in subs \/ Queued(Subscribe("ir/#"))
        /\ pc \notin {"status", "sub_ir", "sub_rc"} =>
             "rc/#" \in subs \/ Queued(Subscribe("rc/#"))

RequestsInForce ==
    /\ pc \in {"setup", "connect"} => link = "none"
    /\ session = "live" => link = "up"
    /\ Handshake
    /\ Established
    /\ session = "none" => statusSeen # "on"

(* In the callback the copy is what was received even though publish()     *)
(* reuses the buffer, and outside of it nothing stays allocated.           *)
CopyOutlivesBuffer ==
    /\ pc = "copy" => buffer # None
    /\ (copy # None) <=> pc \in {"echo", "handle"}

(* The sketch waits for the rest of a packet that will not come. *)
Wedged == pc \in {"connack", "loop"} /\ rx # <<>> /\ ~Head(rx).whole

(* Once no more faults happen, the gateway is serving again and again, or  *)
(* it waits for ever for the rest of one packet: a lost connection is      *)
(* always found and replaced, and a part of a packet left behind by one is *)
(* the only thing that can stop the sketch.                                *)
EventuallyServesOrWedged ==
    []<>(\/ pc = "loop" /\ link = "up" /\ session = "live" /\ subs = Filters
         \/ Wedged)

(* The commands in packets that are complete: those of a packet and those  *)
(* of a queue, in its order.                                               *)
CommandOf(p) == IF p.type = "PUBLISH" /\ p.whole THEN <<p.msg>> ELSE <<>>

CommandsIn(packets) == FlattenSeq([i \in DOMAIN packets |-> CommandOf(packets[i])])

InCallback ==
    CASE pc = "copy" -> <<buffer>>
      [] pc \in {"echo", "handle"} -> <<copy>>
      [] OTHER -> <<>>

Channel == INSTANCE CommandChannel
             WITH NoMsg <- None, waiting <- InCallback \o CommandsIn(rx), out <- radio

(* The gateway implements the command channel: what is handed to the       *)
(* transmitters is what was published on the command topics, unaltered, in *)
(* order and at most once per delivery, with connections lost, sessions    *)
(* taken over and resets at any point of the callback.                     *)
ImplementsChannel == Channel!Spec
===============================================================================
