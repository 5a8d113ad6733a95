---------------------------- MODULE GatewayVersions ----------------------------
(***************************************************************************)
(* The versions of the gateway sketch that stand side by side in           *)
(* CurrentStuff/MQTT, RC_1 to RC_6, and two boards that may run different  *)
(* ones at the same time.                                                  *)
(*                                                                         *)
(* A version is what it does with a message (Receives), which transmitter  *)
(* it calls (Transmits) and how it gets and keeps its session (Session).   *)
(* The functions of a sketch are scripts of the steps below; todo is what  *)
(* a board has still to do.  Packets under way, refusals and packets cut   *)
(* in two are in MqttGateway.tla; here connect() includes the answer of    *)
(* the broker, and what is written over a working connection arrives.      *)
(*                                                                         *)
(* The brokers, the users and the outlets are not part of the repository.  *)
(***************************************************************************)
EXTENDS RcCodewords, Naturals, Sequences, SequencesExt

CONSTANTS
    Fleets,        \* the versions on the boards, the commands published, and a bound
                   \* on resets, lost connections and failures to connect
    None,          \* no message
    MaxIn          \* bound on the messages waiting for a board

Boards == 1..2

(* A command: on which topic, and the numbers its parts stand for.  A      *)
(* message is a command for the gateway of a room, given to a broker.      *)
Commands == UNION {f.commands : f \in Fleets}
Places == {"loki", "david"} \X {"wohnzimmer", "matthias"}
Messages == [place : Places, command : Commands]


-------------------------------------------------------------------------------
(* What the versions have in common, each in its own copy of the code *)

Silence == <<"nothing">>

(* handle_ir(): the number of a protocol names the function of IRsend. *)
Protocols == <<"NEC", "Sony", "RC5", "RC6", "DISH", "Sharp", "Samsung", "JVC">>
Infrared(c) ==
    IF c.parts[1] \in DOMAIN Protocols THEN <<Protocols[c.parts[1]], c.parts[2], c.parts[3]>>
    ELSE Silence

(* Mutant: group and device of the third outlet are exchanged. *)
FixedWordExchanged(typ, on) ==
    CASE typ = 1 -> WordA(<<"1", "1", "0", "0", "1">>, <<"0", "1", "0", "1", "0">>, on)
      [] typ = 2 -> WordB(4, 1, on)
      [] typ = 3 -> WordC(2, 2, 3, on)
      [] typ = 4 -> WordD("d", 2, on)

(* handle_rc() of RC_2 to RC_4_1: one outlet of each type, on for every    *)
(* state but 0.                                                            *)
FixedWord(typ, on) ==
    CASE typ = 1 -> WordA(<<"1", "1", "0", "0", "1">>, <<"0", "1", "0", "1", "0">>, on)
      [] typ = 2 -> WordB(4, 1, on)
      [] typ = 3 -> WordC(2, 3, 2, on)
      [] typ = 4 -> WordD("d", 2, on)

Fixed(c) ==
    IF c.parts[1] \in 1..4 THEN <<"RC", FixedWord(c.parts[1], c.parts[5] # 0)>> ELSE Silence

(* handle_rc() of RC_5 and RC_6: the outlet is in the command, and only    *)
(* the states 0 and 1 are known.  RcCommand.tla has what is then sent.     *)
Addressed(c) ==
    IF c.parts[1] \in 1..4 /\ c.parts[5] \in 0..1 THEN <<"RC", c.parts>> ELSE Silence

(* callback() and handle_command(): the fourth part of the command, or the *)
(* topic, decides whether it is infrared.                                  *)
ByFourthPart(c) == c.parts[4] = 1
ByTopic(c) == c.topic = "ir"

EchoFirst == <<"echo", "handle">>
Announce == <<"status", "ir", "rc">>

-------------------------------------------------------------------------------
(* RC_1 and RC_1_1: handle_rc() only prints; one connection, made by setup *)

RC_1_Receives ==
    [callback |-> EchoFirst, keepsLast |-> FALSE, infrared |-> [c \in Commands |-> ByFourthPart(c)]]
RC_1_Transmits ==
    [ir |-> [c \in Commands |-> Infrared(c)], rc |-> [c \in Commands |-> Silence]]
RC_1_Session ==
    [server |-> "loki", id |-> "MDArduino", room |-> "wohnzimmer", will |-> FALSE,
     on |-> "on", keepsOn |-> FALSE, announce |-> Announce,
     setup |-> <<"connect">>, loop |-> <<"loop">>]

RC_1_1_Receives == RC_1_Receives
RC_1_1_Transmits == RC_1_Transmits
RC_1_1_Session == RC_1_Session

(* RC_2: .../last is retained, and the outlets are switched *)
RC_2_Receives == [RC_1_Receives EXCEPT !.keepsLast = TRUE]
RC_2_Transmits == [RC_1_Transmits EXCEPT !.rc = [c \in Commands |-> Fixed(c)]]
RC_2_Session == RC_1_Session

(* RC_3: a lost connection is replaced *)
RC_3_Receives == RC_2_Receives
RC_3_Transmits == RC_2_Transmits

(* Mutant: the connection is looked at before client.loop() only. *)
RC_3_SessionOnce == RC_2_Session

RC_3_Session == [RC_2_Session EXCEPT !.loop = <<"loop", "check">>]

(* The other RC_4, in MQTT_IR_RC_4-DEL: RC_3 for another room and server *)
RC_4_DEL_Receives == RC_3_Receives
RC_4_DEL_Transmits == RC_3_Transmits
RC_4_DEL_Session == [RC_3_Session EXCEPT !.server = "david", !.room = "matthias"]

(* RC_4: the will *)
RC_4_Receives == RC_3_Receives
RC_4_Transmits == RC_3_Transmits
RC_4_Session == [RC_3_Session EXCEPT !.will = TRUE]

(* RC_3_WAN: RC_4 for another server *)
RC_3_WAN_Receives == RC_4_Receives
RC_3_WAN_Transmits == RC_4_Transmits
RC_3_WAN_Session == [RC_4_Session EXCEPT !.server = "david"]

(* RC_4_1: "on" is retained as well, with the NUL at its end *)
RC_4_1_Receives == RC_4_Receives
RC_4_1_Transmits == RC_4_Transmits

(* Mutant: "on" is not retained. *)
RC_4_1_SessionForgets == [RC_4_Session EXCEPT !.on = "on NUL"]

RC_4_1_Session == [RC_4_Session EXCEPT !.on = "on NUL", !.keepsOn = TRUE]

(* RC_5: the topic decides, the command names the outlet, loop() looks at  *)
(* what client.loop() returns                                              *)
RC_5_Receives == [RC_4_Receives EXCEPT !.infrared = [c \in Commands |-> ByTopic(c)]]
RC_5_Transmits == [RC_4_Transmits EXCEPT !.rc = [c \in Commands |-> Addressed(c)]]
RC_5_Session == [RC_4_Session EXCEPT !.loop = <<"loop or connect">>]

(* RC_6: a client id for each user *)
RC_6_Receives == RC_5_Receives
RC_6_Transmits == RC_5_Transmits
RC_6_Session(user) ==
    [RC_5_Session EXCEPT !.server = "david",
                         !.id = <<"MLArduino", "DArduino">>[user],
                         !.room = <<"matthias", "wohnzimmer">>[user]]

Version(receives, transmits, session) ==
    [receives |-> receives, transmits |-> transmits, session |-> session]

Sketch ==
    [RC_1 |-> Version(RC_1_Receives, RC_1_Transmits, RC_1_Session),
     RC_1_1 |-> Version(RC_1_1_Receives, RC_1_1_Transmits, RC_1_1_Session),
     RC_2 |-> Version(RC_2_Receives, RC_2_Transmits, RC_2_Session),
     RC_3 |-> Version(RC_3_Receives, RC_3_Transmits, RC_3_Session),
     RC_3_WAN |-> Version(RC_3_WAN_Receives, RC_3_WAN_Transmits, RC_3_WAN_Session),
     RC_4 |-> Version(RC_4_Receives, RC_4_Transmits, RC_4_Session),
     RC_4_DEL |-> Version(RC_4_DEL_Receives, RC_4_DEL_Transmits, RC_4_DEL_Session),
     RC_4_1 |-> Version(RC_4_1_Receives, RC_4_1_Transmits, RC_4_1_Session),
     RC_5 |-> Version(RC_5_Receives, RC_5_Transmits, RC_5_Session),
     RC_6 |-> Version(RC_6_Receives, RC_6_Transmits, RC_6_Session(1)),
     RC_6_USER_2 |-> Version(RC_6_Receives, RC_6_Transmits, RC_6_Session(2))]

ASSUME FleetsAssumption ==
    \A f \in Fleets :
        /\ f.boards \in Seq(DOMAIN Sketch) /\ Len(f.boards) \in Boards
        /\ \A c \in f.commands : c.topic \in {"ir", "rc"} /\ c.parts \in [1..5 -> Nat]
        /\ f.faults \in Nat
ASSUME NoneAssumption == None \notin Messages
ASSUME MaxInAssumption == MaxIn \in Nat
-------------------------------------------------------------------------------
VARIABLES
    fleet,         \* the boards and the commands of this run
    todo,          \* what each board has to do until loop() starts again
    link,          \* its connection: "none", "up", "broken" or "closed"
    rx,            \* messages waiting for the board
    current,       \* the message its callback is at work on
    handled,       \* the last message given to handle_command()
    sent,          \* what was last given to a transmitter
    session,       \* the broker's session of the board: "none", "live", "stale"
    subs,          \* the topics subscribed in it
    status,        \* of each place: the status that was seen last, and the kept one
    last,          \* of each place: the message kept on .../last
    faults         \* faults that may still happen

board == <<todo, link, rx, current, handled, sent>>
vars == <<fleet, todo, link, rx, current, handled, sent, session, subs, status, last, faults>>

Present == DOMAIN fleet.boards
Of(b) == Sketch[fleet.boards[b]]
Place(b) == <<Of(b).session.server, Of(b).session.room>>

Init ==
    /\ fleet \in Fleets
    /\ todo = [b \in Boards |-> IF b \in Present THEN Of(b).session.setup ELSE <<>>]
    /\ link = [b \in Boards |-> "none"] /\ rx = [b \in Boards |-> <<>>]
    /\ current = [b \in Boards |-> None] /\ handled = [b \in Boards |-> None]
    /\ sent = [b \in Boards |-> Silence]
    /\ session = [b \in Boards |-> "none"] /\ subs = [b \in Boards |-> {}]
    /\ status = [p \in Places |-> [seen |-> "none", kept |-> "none"]]
    /\ last = [p \in Places |-> None]
    /\ faults = fleet.faults

-------------------------------------------------------------------------------
(* The steps of a sketch *)

At(b, step) == b \in Present /\ todo[b] # <<>> /\ Head(todo[b]) = step

(* The step is done and followed by a script; loop() is called again when  *)
(* nothing is left.                                                        *)
Then(b, script) ==
    LET rest == script \o Tail(todo[b])
    IN  todo' = [todo EXCEPT ![b] = IF rest = <<>> THEN Of(b).session.loop ELSE rest]

Fault == faults > 0 /\ faults' = faults - 1

(* connected(): a connection the broker closed counts while there is       *)
(* something left to read.                                                 *)
Connected(b) == link[b] \in {"up", "broken"} \/ (link[b] = "closed" /\ rx[b] # <<>>)

(* _client->stop(); the broker is not told what it has not seen. *)
Stop(b) ==
    /\ link' = [link EXCEPT ![b] = "none"]
    /\ rx' = [rx EXCEPT ![b] = <<>>]
    /\ session' = [session EXCEPT ![b] = IF @ = "live" THEN "stale" ELSE @]

(* The status once the will of a board, if it has one, is published. *)
WillOf(b) == IF Of(b).session.will THEN [status EXCEPT ![Place(b)] = [seen |-> "off", kept |-> "off"]]
             ELSE status

ConnectFails(b) ==
    /\ At(b, "connect") /\ Fault
    /\ Stop(b)
    /\ Then(b, <<>>)
    /\ UNCHANGED <<fleet, current, handled, sent, subs, status, last>>

(* Whose session the broker closes when b connects with the same name. *)
SameClient(b, c) ==
    /\ Of(b).session.server = Of(c).session.server
    /\ Of(b).session.id = Of(c).session.id
Holders(b) == {c \in Present : session[c] # "none" /\ SameClient(b, c)}

(* client.connect() succeeds: what follows is under its if. *)
Connects(b) ==
    /\ At(b, "connect")
    /\ link' = [c \in Boards |-> IF c = b THEN "up"
                                 ELSE IF c \in Holders(b) /\ link[c] = "up" THEN "closed" ELSE link[c]]
    /\ rx' = [rx EXCEPT ![b] = <<>>]
    /\ session' = [c \in Boards |-> IF c = b THEN "live" ELSE IF c \in Holders(b) THEN "none" ELSE session[c]]
    /\ subs' = [c \in Boards |-> IF c = b \/ c \in Holders(b) THEN {} ELSE subs[c]]
    /\ IF Holders(b) = {} THEN UNCHANGED status ELSE \E c \in Holders(b) : status' = WillOf(c)
    /\ Then(b, Of(b).session.announce)
    /\ UNCHANGED <<fleet, current, handled, sent, last, faults>>

(* publish() and subscribe() write, or notice that the connection is gone. *)
Unwritten(b) ==
    /\ link[b] # "up"
    /\ IF Connected(b) THEN UNCHANGED <<link, rx, session>> ELSE Stop(b)
    /\ UNCHANGED <<subs, status, last>>

AnnouncesStatus(b) ==
    /\ At(b, "status")
    /\ \/ Unwritten(b)
       \/ /\ link[b] = "up"
          /\ status' = [status EXCEPT ![Place(b)] =
                          [seen |-> Of(b).session.on,
                           kept |-> IF Of(b).session.keepsOn THEN Of(b).session.on ELSE @.kept]]
          /\ UNCHANGED <<link, rx, session, subs, last>>
    /\ Then(b, <<>>)
    /\ UNCHANGED <<fleet, current, handled, sent, faults>>

Subscribes(b, topic) ==
    /\ At(b, topic)
    /\ \/ Unwritten(b)
       \/ /\ link[b] = "up"
          /\ subs' = [subs EXCEPT ![b] = @ \cup {topic}]
          /\ UNCHANGED <<link, rx, session, status, last>>
    /\ Then(b, <<>>)
    /\ UNCHANGED <<fleet, current, handled, sent, faults>>

Looping(b) == At(b, "loop") \/ At(b, "loop or connect")

(* client.loop() reads a message, and calls callback(). *)
Reads(b) ==
    /\ Looping(b) /\ rx[b] # <<>>
    /\ current' = [current EXCEPT ![b] = Head(rx[b])]
    /\ rx' = [rx EXCEPT ![b] = Tail(@)]
    /\ Then(b, Of(b).receives.callback)
    /\ UNCHANGED <<fleet, link, handled, sent, session, subs, status, last, faults>>

(* client.loop() finds nothing to do. *)
Idles(b) ==
    /\ Looping(b) /\ link[b] = "up" /\ rx[b] = <<>>
    /\ Then(b, <<>>)
    /\ UNCHANGED <<fleet, link, rx, current, handled, sent, session, subs, status, last, faults>>

(* client.loop() finds the connection gone, or its ping unanswered. *)
FindsGone(b) ==
    /\ Looping(b) /\ (Connected(b) => link[b] = "broken")
    /\ Stop(b)
    /\ Then(b, IF At(b, "loop or connect") THEN <<"connect">> ELSE <<>>)
    /\ UNCHANGED <<fleet, current, handled, sent, subs, status, last, faults>>

(* client.connected() == false: startmqtt() *)
Checks(b) ==
    /\ At(b, "check")
    /\ IF Connected(b) THEN Then(b, <<>>) /\ UNCHANGED <<link, rx, session>>
       ELSE Then(b, <<"connect">>) /\ Stop(b)
    /\ UNCHANGED <<fleet, current, handled, sent, subs, status, last, faults>>

(* callback() publishes the message on .../last. *)
Echoes(b) ==
    /\ At(b, "echo")
    /\ \/ Unwritten(b)
       \/ /\ link[b] = "up"
          /\ last' = [last EXCEPT ![Place(b)] = IF Of(b).receives.keepsLast THEN current[b] ELSE @]
          /\ UNCHANGED <<link, rx, session, subs, status>>
    /\ Then(b, <<>>)
    /\ UNCHANGED <<fleet, current, handled, sent, faults>>

Dispatch(b, c) == IF Of(b).receives.infrared[c] THEN Of(b).transmits.ir[c] ELSE Of(b).transmits.rc[c]

(* Mutant: the message is not done with once it is handled. *)
HandlesNotDone(b) ==
    /\ At(b, "handle")
    /\ sent' = [sent EXCEPT ![b] = Dispatch(b, current[b].command)]
    /\ handled' = [handled EXCEPT ![b] = current[b]]
    /\ Then(b, <<>>)
    /\ UNCHANGED <<fleet, link, rx, current, session, subs, status, last, faults>>

(* callback() gives it to handle_command(), and that to a transmitter. *)
Handles(b) ==
    /\ At(b, "handle")
    /\ sent' = [sent EXCEPT ![b] = Dispatch(b, current[b].command)]
    /\ handled' = [handled EXCEPT ![b] = current[b]]
    /\ current' = [current EXCEPT ![b] = None]
    /\ Then(b, <<>>)
    /\ UNCHANGED <<fleet, link, rx, session, subs, status, last, faults>>

(* The board is reset. *)
Reset(b) ==
    /\ b \in Present /\ todo[b] # Of(b).session.setup
    /\ Fault
    /\ Stop(b)
    /\ todo' = [todo EXCEPT ![b] = Of(b).session.setup]
    /\ current' = [current EXCEPT ![b] = None]
    /\ UNCHANGED <<fleet, handled, sent, subs, status, last>>

-------------------------------------------------------------------------------
(* The brokers, the network and the users *)

(* The broker notices that a session has lost its connection. *)
BrokerDetects(b) ==
    /\ session[b] = "stale"
    /\ session' = [session EXCEPT ![b] = "none"]
    /\ subs' = [subs EXCEPT ![b] = {}]
    /\ status' = WillOf(b)
    /\ UNCHANGED <<fleet, board, last, faults>>

(* A connection breaks unnoticed; the newest messages on it are lost. *)
LinkBreaks(b) ==
    /\ link[b] = "up" /\ Fault
    /\ link' = [link EXCEPT ![b] = "broken"]
    /\ \E n \in 0..Len(rx[b]) : rx' = [rx EXCEPT ![b] = SubSeq(@, 1, n)]
    /\ session' = [session EXCEPT ![b] = "stale"]
    /\ UNCHANGED <<fleet, todo, current, handled, sent, subs, status, last>>

(* A broker closes a connection, and its session with it. *)
BrokerCloses(b) ==
    /\ link[b] = "up" /\ Fault
    /\ link' = [link EXCEPT ![b] = "closed"]
    /\ session' = [session EXCEPT ![b] = "none"]
    /\ subs' = [subs EXCEPT ![b] = {}]
    /\ status' = WillOf(b)
    /\ UNCHANGED <<fleet, todo, rx, current, handled, sent, last>>

(* A user publishes a command; every board of the room that is subscribed  *)
(* gets it.                                                                *)
UserPublishes(c) ==
    \E p \in {Place(b) : b \in Present} :
        LET to == {b \in Present : Place(b) = p /\ link[b] = "up" /\ c.topic \in subs[b]}
        IN  /\ to # {} /\ \A b \in to : Len(rx[b]) < MaxIn
            /\ rx' = [b \in Boards |-> IF b \in to THEN Append(rx[b], [place |-> p, command |-> c]) ELSE rx[b]]
            /\ UNCHANGED <<fleet, todo, link, current, handled, sent, session, subs, status, last, faults>>

-------------------------------------------------------------------------------
Step(b) ==
    \/ ConnectFails(b) \/ Connects(b) \/ AnnouncesStatus(b)
    \/ Subscribes(b, "ir") \/ Subscribes(b, "rc")
    \/ Reads(b) \/ Idles(b) \/ FindsGone(b) \/ Checks(b) \/ Echoes(b) \/ Handles(b)

Next ==
    \/ \E b \in Boards : \/ Step(b) \/ Reset(b)
                         \/ BrokerDetects(b) \/ LinkBreaks(b) \/ BrokerCloses(b)
    \/ \E c \in fleet.commands : UserPublishes(c)

(* loop() runs for ever; a broker notices a session without a connection.  *)
Spec ==
    /\ Init /\ [][Next]_vars
    /\ \A b \in Boards : WF_vars(Step(b)) /\ WF_vars(BrokerDetects(b))

-------------------------------------------------------------------------------
(* Properties *)

Serving(b) == link[b] = "up" /\ session[b] = "live" /\ subs[b] = {"ir", "rc"}

(* The versions from RC_3 on look after their connection. *)
Restarting(b) == fleet.boards[b] \notin {"RC_1", "RC_1_1", "RC_2"}

(* Another board goes by the same name on the same broker, and claims it   *)
(* back whenever it loses it.                                              *)
Contested(b) == \E c \in Present \ {b} : SameClient(b, c) /\ Restarting(c)

(* Whatever happens to its connections, a board with a version from RC_3   *)
(* on serves its room for good once the faults have ended, unless another  *)
(* one contests its client id (loop, startmqtt).                           *)
Settles ==
    \A b \in Boards : (b \in Present /\ Restarting(b) /\ ~Contested(b)) => <>[]Serving(b)

(* Who subscribes later is told by the retained messages: RC_4_1 is "on"   *)
(* while it serves, no version is "on" that the broker knows to be gone,   *)
(* nor is one with a will seen to be; and .../last keeps the newest        *)
(* command, as long as nothing fails.                                      *)
LateSubscribersToldRight ==
    /\ \A b \in Present : Serving(b) /\ fleet.boards[b] = "RC_4_1" => status[Place(b)].kept = "on NUL"
    /\ \A p \in Places :
         /\ status[p].kept \in {"none", "off"}
              \/ \E b \in Present : Place(b) = p /\ fleet.boards[b] = "RC_4_1" /\ session[b] # "none"
         /\ status[p].seen \in {"none", "off"}
              \/ \E b \in Present : Place(b) = p /\ (Of(b).session.will => session[b] # "none")
    /\ \A b \in Present :
         /\ Present = {b} /\ faults = fleet.faults
         /\ current[b] = None /\ fleet.boards[b] \notin {"RC_1", "RC_1_1"}
         => last[Place(b)] = handled[b]

(* The outlets the calls of RC_2 to RC_4_1 name, as their owner set them. *)
Owned == <<[type |-> "1", family |-> <<>>, group |-> <<"1", "1", "0", "0", "1">>, device |-> <<"0", "1", "0", "1", "0">>],
           [type |-> "2", family |-> <<>>, group |-> <<"4">>, device |-> <<"1">>],
           [type |-> "3", family |-> <<"b">>, group |-> <<"3">>, device |-> <<"2">>],
           [type |-> "4", family |-> <<>>, group |-> <<"d">>, device |-> <<"2">>]>>

(* A command in the format of a version uses the transmitter it is meant   *)
(* for: an infrared command with 1 for its fourth part, in all versions,   *)
(* the protocol it names; a command for an outlet, from RC_2 to RC_4_1     *)
(* without that 1, the word the outlet of its type listens to, the REV     *)
(* outlet too, and from RC_5 on the outlet it names.  Both were sent to    *)
(* the room of the board (handle_command, handle_ir, handle_rc).           *)
MeantTransmitter ==
    \A b \in Present :
        LET c == handled[b].command
        IN  handled[b] # None =>
              /\ handled[b].place = Place(b)
              /\ c.topic = "ir" /\ c.parts[4] = 1 /\ c.parts[1] \in 1..8
                   => sent[b] = <<Protocols[c.parts[1]], c.parts[2], c.parts[3]>>
              /\ c.topic = "rc" /\ c.parts[1] \in 1..4 /\ c.parts[5] \in 0..1
                   => CASE fleet.boards[b] \in {"RC_1", "RC_1_1"} -> c.parts[4] # 1 => sent[b] = Silence
                        [] fleet.boards[b] \in {"RC_5", "RC_6", "RC_6_USER_2"} -> sent[b] = <<"RC", c.parts>>
                        [] OTHER -> c.parts[4] # 1 =>
                             sent[b] = <<"RC", Listens(Owned[c.parts[1]], IF c.parts[5] = 0 THEN "0" ELSE "1")>>

(* What a board has accepted and not yet handled. *)
Waiting(b) == (IF current[b] = None THEN <<>> ELSE <<current[b]>>) \o rx[b]

FirstChannel == INSTANCE CommandChannel
                  WITH NoMsg <- None, Known <- LAMBDA m : TRUE,
                       waiting <- Waiting(1), out <- handled[1]
SecondChannel == INSTANCE CommandChannel
                   WITH NoMsg <- None, Known <- LAMBDA m : TRUE,
                        waiting <- Waiting(2), out <- handled[2]

(* Every version implements the command channel, on both boards at once:   *)
(* a session taken over or shared loses commands or doubles them between   *)
(* the boards, but no board handles one twice or out of order.             *)
ImplementChannels == FirstChannel!Spec /\ SecondChannel!Spec
===============================================================================
