------------------------------- MODULE KeepAlive -------------------------------
(***************************************************************************)
(* The clock of PubSubClient: connect() and loop() against the stamps      *)
(* lastInActivity and lastOutActivity, under the sketch's loop().          *)
(*                                                                         *)
(* A stamp is represented by its age, the difference the code takes of it  *)
(* and millis(), which makes the wrap of millis() immaterial.  A round of  *)
(* loop() takes no time; time passes only while the client has nothing to  *)
(* do or waits inside the library for bytes.  Packets are reduced to what  *)
(* the client does about them.                                             *)
(***************************************************************************)
EXTENDS Naturals, Sequences

CONSTANTS
    K,             \* MQTT_KEEPALIVE, in ticks
    MaxRx,         \* bound on the packets on their way to the client
    Limit          \* ages are not counted beyond this bound

ASSUME KAssumption == K \in Nat \ {0}
ASSUME LimitAssumption == Limit \in Nat /\ Limit > 2 * K + 2
ASSUME MaxRxAssumption == MaxRx \in Nat

VARIABLES
    phase,         \* "down" (to connect), "connack", "loop", "read"
    link,          \* "none", "opening", "up", "dead" or "closed"
    rx,            \* packets arriving at the client; the last one perhaps in part
    owed,          \* answers the broker owes the client
    lastIn,        \* age of lastInActivity
    lastOut,       \* age of lastOutActivity
    t,             \* age of the t that loop() has read, during readPacket()
    pingOutstanding,
    quiet,         \* ticks since the client really wrote something
    silent,        \* ticks since it really read a packet
    asked          \* ticks since its unanswered PINGREQ, Limit + 1 if none

stamps == <<lastIn, lastOut, t, pingOutstanding>>
facts == <<quiet, silent, asked>>
keepAliveVars == <<phase, link, rx, owed, lastIn, lastOut, t, pingOutstanding, quiet, silent, asked>>

PacketKinds == {"CONNACK", "REFUSED", "PUBLISH", "PINGREQ", "PINGRESP", "SUBACK"}
Parts == [kind : PacketKinds, whole : BOOLEAN]
Ages == 0..Limit
Never == Limit + 1

KeepAliveTypeOK ==
    /\ phase \in {"down", "connack", "loop", "read"}
    /\ link \in {"none", "opening", "up", "dead", "closed"}
    /\ rx \in Seq(Parts)
    /\ owed \subseteq {"CONNACK", "PINGRESP"}
    /\ lastIn \in Ages /\ lastOut \in Ages /\ t \in Ages
    /\ pingOutstanding \in BOOLEAN
    /\ quiet \in Ages /\ silent \in Ages
    /\ asked \in Ages \cup {Never}

KeepAliveInit ==
    /\ phase = "down" /\ link = "none"
    /\ rx = <<>> /\ owed = {}
    /\ lastIn = 0 /\ lastOut = 0 /\ t = 0
    /\ pingOutstanding = FALSE
    /\ quiet = 0 /\ silent = 0 /\ asked = Never

Connected == link \in {"opening", "up", "dead"} \/ (link = "closed" /\ rx # <<>>)
Working == link \in {"opening", "up"}

(* An answer is owed for what is written to a working connection. *)
Owe(answer) == owed' = IF Working THEN owed \cup {answer} ELSE owed

(* _client->stop() *)
Stop == link' = "none" /\ rx' = <<>> /\ owed' = {}

-------------------------------------------------------------------------------
(* connect() *)

(* The TCP connection is opened and CONNECT written.  (A failure to open   *)
(* it leaves everything as it is.)                                         *)
Opens ==
    /\ phase = "down" /\ ~Connected
    /\ phase' = "connack"
    /\ link' = "opening"
    /\ rx' = <<>> /\ owed' = {"CONNACK"}
    /\ lastIn' = 0 /\ lastOut' = 0
    /\ quiet' = 0 /\ silent' = 0 /\ asked' = Never
    /\ UNCHANGED <<t, pingOutstanding>>

(* No byte of an answer for longer than K. *)
ConnackLate ==
    /\ phase = "connack" /\ rx = <<>> /\ lastIn > K
    /\ Stop
    /\ phase' = "down"
    /\ UNCHANGED <<stamps, facts>>

(* Mutant: pingOutstanding survives into the new connection. *)
ReadsConnackKeepingPing ==
    /\ phase = "connack" /\ rx # <<>> /\ Head(rx).whole /\ Head(rx).kind = "CONNACK"
    /\ rx' = Tail(rx)
    /\ lastIn' = 0 /\ silent' = 0 /\ lastOut' = 0 /\ quiet' = 0
    /\ phase' = "loop"
    /\ UNCHANGED <<link, owed, t, pingOutstanding, asked>>

(* The answer is read; after a good one startmqtt() goes on writing, as    *)
(* long as the connection is there.                                        *)
ReadsConnack ==
    /\ phase = "connack" /\ rx # <<>> /\ Head(rx).whole
    /\ IF Head(rx).kind = "CONNACK"
         THEN /\ rx' = Tail(rx)
              /\ lastIn' = 0 /\ silent' = 0
              /\ pingOutstanding' = FALSE
              /\ phase' = "loop"
              /\ IF link = "closed" /\ rx' = <<>>
                   THEN link' = "none" /\ owed' = {} /\ UNCHANGED <<lastOut, quiet>>
                   ELSE lastOut' = 0 /\ quiet' = 0 /\ UNCHANGED <<link, owed>>
         ELSE /\ Stop
              /\ phase' = "down"
              /\ UNCHANGED <<lastIn, lastOut, pingOutstanding, quiet, silent>>
    /\ UNCHANGED <<t, asked>>

-------------------------------------------------------------------------------
(* loop() *)

(* Mutant: only the input is watched. *)
ExpiredIn == lastIn > K

Expired == lastIn > K \/ lastOut > K

(* The connection is gone. *)
FindsLost ==
    /\ phase = "loop" /\ ~Connected
    /\ Stop
    /\ phase' = "down"
    /\ UNCHANGED <<stamps, facts>>

(* Mutant: the socket is not stopped. *)
GivesUpOpen ==
    /\ phase = "loop" /\ Connected /\ Expired /\ pingOutstanding
    /\ phase' = "down"
    /\ UNCHANGED <<link, rx, owed, stamps, facts>>

(* The last ping was not answered. *)
GivesUp ==
    /\ phase = "loop" /\ Connected /\ Expired /\ pingOutstanding
    /\ Stop
    /\ phase' = "down"
    /\ UNCHANGED <<stamps, facts>>

(* Mutant: the ping is not remembered. *)
PingsForgetfully ==
    /\ phase = "loop" /\ Connected /\ Expired /\ ~pingOutstanding
    /\ Owe("PINGRESP")
    /\ lastIn' = 0 /\ lastOut' = 0 /\ t' = 0
    /\ quiet' = 0 /\ asked' = 0
    /\ phase' = IF rx # <<>> THEN "read" ELSE "loop"
    /\ UNCHANGED <<link, rx, silent, pingOutstanding>>

(* PINGREQ, which also counts as input; then what is there is read. *)
Pings ==
    /\ phase = "loop" /\ Connected /\ Expired /\ ~pingOutstanding
    /\ Owe("PINGRESP")
    /\ lastIn' = 0 /\ lastOut' = 0 /\ t' = 0
    /\ pingOutstanding' = TRUE
    /\ quiet' = 0 /\ asked' = 0
    /\ phase' = IF rx # <<>> THEN "read" ELSE "loop"
    /\ UNCHANGED <<link, rx, silent>>

(* No ping is due, and the first byte of a packet is there. *)
Starts ==
    /\ phase = "loop" /\ Connected /\ ~Expired /\ rx # <<>>
    /\ t' = 0
    /\ phase' = "read"
    /\ UNCHANGED <<link, rx, owed, lastIn, lastOut, pingOutstanding, facts>>

(* What loop() may take a packet for: a message too long for the buffer is *)
(* ignored when nothing is left of it, and otherwise is whatever its tail  *)
(* looks like (MqttPacket.tla).                                            *)
TakenFor(kind) ==
    IF kind = "PUBLISH" THEN {"PUBLISH", "PINGREQ", "PINGRESP", "SUBACK", "nothing"} ELSE {kind}

(* The rest is there.  lastInActivity becomes the t of before the packet   *)
(* was read; the callback's publish() writes through write(), which stamps *)
(* lastOutActivity, the answer to a PINGREQ does not.                      *)
Reads ==
    /\ phase = "read" /\ Head(rx).whole
    /\ phase' = "loop"
    /\ rx' = Tail(rx)
    /\ silent' = 0
    /\ asked' = IF Head(rx).kind = "PINGRESP" THEN Never ELSE asked
    /\ \E kind \in TakenFor(Head(rx).kind) :
         LET open == link # "closed" \/ rx' # <<>>
         IN  /\ lastIn' = IF kind = "nothing" THEN lastIn ELSE t
             /\ pingOutstanding' = IF kind = "PINGRESP" THEN FALSE ELSE pingOutstanding
             /\ lastOut' = IF kind = "PUBLISH" /\ open THEN 0 ELSE lastOut
             /\ quiet' = IF kind = "PINGREQ" \/ (kind = "PUBLISH" /\ open) THEN 0 ELSE quiet
             /\ IF kind = "PUBLISH" /\ ~open
                  THEN link' = "none" /\ owed' = {}
                  ELSE UNCHANGED <<link, owed>>
    /\ UNCHANGED t

-------------------------------------------------------------------------------
(* The broker and the network *)

(* Packets follow one another; one arrives at once or in two parts. *)
Delivers(kind) ==
    /\ Len(rx) < MaxRx
    /\ rx # <<>> => rx[Len(rx)].whole
    /\ \E whole \in BOOLEAN : rx' = Append(rx, [kind |-> kind, whole |-> whole])

BrokerAnswersConnect ==
    /\ link = "opening" /\ "CONNACK" \in owed
    /\ owed' = owed \ {"CONNACK"}
    /\ \E kind \in {"CONNACK", "REFUSED"} :
         /\ Delivers(kind)
         /\ link' = IF kind = "CONNACK" THEN "up" ELSE link
    /\ UNCHANGED <<phase, stamps, facts>>

BrokerAnswersPing ==
    /\ link = "up" /\ "PINGRESP" \in owed
    /\ owed' = owed \ {"PINGRESP"}
    /\ Delivers("PINGRESP")
    /\ UNCHANGED <<phase, link, stamps, facts>>

(* Commands, acknowledgements, and a ping of the broker's own. *)
BrokerSends ==
    /\ link = "up"
    /\ \E kind \in {"PUBLISH", "SUBACK", "PINGREQ"} : Delivers(kind)
    /\ UNCHANGED <<phase, link, owed, stamps, facts>>

RestArrives ==
    /\ Working /\ rx # <<>> /\ ~rx[Len(rx)].whole
    /\ rx' = [rx EXCEPT ![Len(rx)] = [@ EXCEPT !.whole = TRUE]]
    /\ UNCHANGED <<phase, link, owed, stamps, facts>>

(* From now on nothing arrives at either end, and neither is told. *)
Dies ==
    /\ Working
    /\ link' = "dead"
    /\ UNCHANGED <<phase, rx, owed, stamps, facts>>

BrokerCloses ==
    /\ Working
    /\ link' = "closed"
    /\ UNCHANGED <<phase, rx, owed, stamps, facts>>

-------------------------------------------------------------------------------
(* The client has nothing to do before something happens. *)
Waiting ==
    \/ phase = "down"
    \/ phase = "connack" /\ rx = <<>> /\ lastIn <= K
    \/ phase = "connack" /\ rx # <<>> /\ ~Head(rx).whole
    \/ phase = "loop" /\ Connected /\ ~Expired /\ rx = <<>>
    \/ phase = "read" /\ ~Head(rx).whole

Older(age) == IF age < Limit THEN age + 1 ELSE age

Tick ==
    /\ Waiting
    /\ lastIn' = Older(lastIn) /\ lastOut' = Older(lastOut) /\ t' = Older(t)
    /\ quiet' = Older(quiet) /\ silent' = Older(silent)
    /\ asked' = Older(asked)
    /\ UNCHANGED <<phase, link, rx, owed, pingOutstanding>>

ClientStep ==
    \/ Opens \/ ConnackLate \/ ReadsConnack
    \/ FindsLost \/ GivesUp \/ Pings \/ Starts \/ Reads

KeepAliveNext ==
    \/ ClientStep
    \/ BrokerAnswersConnect \/ BrokerAnswersPing \/ BrokerSends
    \/ RestArrives \/ Dies \/ BrokerCloses
    \/ Tick

KeepAliveSpec == KeepAliveInit /\ [][KeepAliveNext]_keepAliveVars

(* loop() runs for ever and time passes. *)
KeepAliveFairSpec == KeepAliveSpec /\ WF_keepAliveVars(ClientStep) /\ WF_keepAliveVars(Tick)

-------------------------------------------------------------------------------
(* Properties *)

(* Why: the stamps never claim more than happened, as far as the client    *)
(* relies on them.  With no ping outstanding the input stamp is not newer  *)
(* than the last input; a ping moves it by at most one interval and a      *)
(* tick; and neither stamp is older than an unanswered ping.               *)
StampsHonest ==
    /\ phase = "down" => link = "none"
    /\ phase = "read" => rx # <<>>
    /\ quiet <= lastOut
    /\ phase \in {"loop", "read"} /\ ~pingOutstanding => silent <= lastIn
    /\ phase \in {"loop", "read"} /\ pingOutstanding =>
         /\ silent <= lastIn + K + 1
         /\ asked \in Ages /\ lastIn <= asked /\ lastOut <= asked
         /\ phase = "read" => t <= asked
    /\ phase = "loop" => silent = 0 \/ lastIn <= K + 1

(* In loop(), no time passes once the client has written nothing for longer *)
(* than the interval it promised the broker: whatever it reads meanwhile,   *)
(* the broker hears of it in time.                                          *)
KeepsPromise == [][Tick /\ phase = "loop" => quiet <= K]_keepAliveVars

(* In loop(), no time passes once nothing was read for two intervals and a  *)
(* tick: a connection that died without notice is given up by then, even    *)
(* though PINGREQ itself is stamped as input.                               *)
NoticesSilence == [][Tick /\ phase = "loop" => silent <= 2 * K + 1]_keepAliveVars

(* A connection that was not lost is given up only when a PINGREQ written   *)
(* on this very connection has had no answer for longer than the interval.  *)
GivesUpOnlyUnanswered ==
    [][phase = "loop" /\ phase' = "down" /\ link \in {"up", "dead"} =>
         asked \in Ages /\ asked > K]_keepAliveVars

(* The rest of a packet is waited for that will not come. *)
Wedged ==
    /\ link \in {"dead", "closed"} /\ rx # <<>> /\ ~Head(rx).whole
    /\ phase \in {"connack", "read"}

(* A connection that died is replaced, unless it died in the middle of a    *)
(* packet: readByte() has no timeout.                                       *)
DeadIsReplaced == link \in {"dead", "closed"} ~> link = "opening" \/ Wedged
===============================================================================
