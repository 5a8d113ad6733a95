------------------------------ MODULE MqttPacket -------------------------------
(***************************************************************************)
(* How PubSubClient frames packets: readPacket(), the part of loop() that  *)
(* takes a packet apart, and publish(), which the sketch's callback calls  *)
(* and which builds its packet in the same buffer.                         *)
(*                                                                         *)
(* Bytes are not given values: a byte is the packet it belongs to and its  *)
(* place there, and one that is taken for something else than it is may    *)
(* mean anything.  MqttGateway.tla has packets arrive whole or cut by a    *)
(* lost connection, KeepAlive.tla has them arrive in parts; here it is     *)
(* only their length that matters.                                         *)
(***************************************************************************)
EXTENDS Naturals, Sequences

CONSTANTS
    Base,          \* values of a length digit, 128
    Max,           \* MQTT_MAX_PACKET_SIZE, 128 as well
    LengthMod,     \* uint16_t length counts modulo this, 2^16
    LastTopic,     \* strlen(LASTTOPIC)
    Memory,        \* bytes of RAM
    Packets,       \* the packets the broker sends
    MaxIn          \* bound on the packets on their way to the client

Kinds == {"PUBLISH", "SUBACK", "PINGREQ", "PINGRESP"}

ASSUME BaseAssumption == Base \in Nat /\ Base > 2 /\ Base % 2 = 0
ASSUME LengthModAssumption == LengthMod = 4 * Base * Base
ASSUME LastTopicAssumption == LastTopic \in Nat /\ MaxIn \in Nat
ASSUME PacketsAssumption ==
    \A p \in Packets : p.kind \in Kinds /\ p.topic \in Nat /\ p.payload \in Nat

(* loop() looks for the topic at places that are right for a length of one *)
(* digit; of two digits it has more than Base + 2 bytes.                   *)
ASSUME MaxAssumption == Max \in Nat /\ Max > 4 /\ Max <= Base + 2

(* A sum of 16 bits that wrapped is more than there is RAM.                *)
ASSUME MemoryAssumption == Memory \in Nat /\ Max <= Memory /\ Memory + 4 < LengthMod

(* The topic .../last is at most one byte longer than .../ir and .../rc.   *)
ASSUME TopicAssumption ==
    \A p \in Packets : p.kind = "PUBLISH" => p.topic > 0 /\ LastTopic <= p.topic + 1

VARIABLES
    pc,            \* "header", "length", "body": readPacket(); "dispatch", "echo",
                   \* "astray": nothing is known of what the sketch does
    incoming, at,  \* the packets on their way, and the place reached in the first
    buffer,
    len, multiplier, length, i,      \* of readPacket()
    reading,       \* the packet whose first byte was read last
    handed,        \* what the callback is given
    done,          \* what loop() does about the packet
    spill          \* bytes publish() wrote behind the end of the buffer for it

local == <<len, multiplier, length, i>>
vars == <<pc, incoming, at, buffer, local, reading, handed, done, spill>>

-------------------------------------------------------------------------------
(* Packets as the broker encodes them: a byte for the kind, the remaining  *)
(* length in digits, and what remains.                                     *)

Remaining(p) ==
    CASE p.kind = "PUBLISH" -> 2 + p.topic + p.payload
      [] p.kind = "SUBACK" -> 3
      [] OTHER -> 0

Digits(p) ==
    IF Remaining(p) < Base THEN 1 ELSE IF Remaining(p) < Base * Base THEN 2 ELSE 3

Digit(p, n) ==
    (CASE n = 1 -> Remaining(p)
       [] n = 2 -> Remaining(p) \div Base
       [] n = 3 -> Remaining(p) \div (Base * Base)) % Base

Size(p) == 1 + Digits(p) + Remaining(p)
Fits(p) == Size(p) <= Max

Byte(p, n) == [packet |-> p, place |-> n]

(* The bytes of p from the place n on. *)
Slice(p, n, count) == [k \in 1..count |-> Byte(p, n + k - 1)]

(* What the client itself writes, and what the buffer holds at first. *)
Own == [place |-> 0]

(* Behind the buffer there are nextMsgId (two bytes), which is not sent,   *)
(* and lastOutActivity (four), which write() sets anew; then lastInActivity*)
(* (four), pingOutstanding (one) and the pointer to the callback.          *)
SetAnew == 2 + 4
BeforeCallback == SetAnew + 4 + 1

Nothing == [kind |-> "none"]
Untouched == [topic |-> <<>>, payload |-> <<>>]

TypeOK ==
    /\ pc \in {"header", "length", "body", "dispatch", "echo", "astray"}
    /\ incoming \in Seq(Packets) /\ Len(incoming) <= MaxIn
    /\ at \in Nat /\ (incoming = <<>> => at = 0)
    /\ DOMAIN buffer = 0..(Max - 1)
    /\ len \in 0..Max
    /\ multiplier \in 0..(2 * Base - 1)
    /\ length \in 0..(LengthMod - 1) /\ i \in 0..length
    /\ reading \in Packets \cup {Nothing}
    /\ DOMAIN handed = {"topic", "payload"}
    /\ done \in {"nothing", "callback", "answer", "pong", "ignored"}
    /\ spill \in Nat

Init ==
    /\ pc = "header"
    /\ incoming = <<>> /\ at = 0
    /\ buffer = [n \in 0..(Max - 1) |-> Own]
    /\ len = 0 /\ multiplier = 1 /\ length = 0 /\ i = 0
    /\ reading = Nothing /\ handed = Untouched
    /\ done = "nothing" /\ spill = 0

Arrives(p) ==
    /\ Len(incoming) < MaxIn
    /\ incoming' = Append(incoming, p)
    /\ UNCHANGED <<pc, at, buffer, local, reading, handed, done, spill>>

(* The board is reset, and a new connection begins. *)
Resets ==
    /\ pc' = "header"
    /\ incoming' = <<>> /\ at' = 0
    /\ buffer' = [n \in 0..(Max - 1) |-> Own]
    /\ len' = 0 /\ multiplier' = 1 /\ length' = 0 /\ i' = 0
    /\ reading' = Nothing /\ handed' = Untouched
    /\ done' = "nothing" /\ spill' = 0

-------------------------------------------------------------------------------
(* readPacket() *)

Available == Byte(Head(incoming), at)

(* readByte(), which waits until there is one *)
ReadByte ==
    /\ incoming # <<>>
    /\ IF at + 1 = Size(Head(incoming))
         THEN incoming' = Tail(incoming) /\ at' = 0
         ELSE at' = at + 1 /\ UNCHANGED incoming

(* The first byte.  What a client out of step with the packets makes of    *)
(* their bytes is not modelled (InStep says that it never is).             *)
ReadHeader ==
    /\ pc = "header" /\ at = 0
    /\ ReadByte
    /\ reading' = Head(incoming)
    /\ buffer' = [buffer EXCEPT ![0] = Available]
    /\ len' = 1 /\ multiplier' = 1 /\ length' = 0 /\ i' = 0
    /\ pc' = "length" /\ spill' = 0
    /\ UNCHANGED <<handed, done>>

(* A digit of the length; multiplier is a uint8_t. *)
ReadDigit ==
    /\ pc = "length"
    /\ ReadByte
    /\ buffer' = [buffer EXCEPT ![len] = Available]
    /\ len' = len + 1
    /\ length' = (length + Digit(Head(incoming), at) * multiplier) % LengthMod
    /\ multiplier' = (multiplier * Base) % (2 * Base)
    /\ pc' = IF at < Digits(Head(incoming)) THEN "length"
             ELSE IF length' = 0 THEN "dispatch" ELSE "body"
    /\ UNCHANGED <<i, reading, handed, done, spill>>

BodyGoesOn == pc' = IF i' < length THEN "body" ELSE "dispatch"

(* Mutants: one byte too few is stored; the rest of a packet that is too   *)
(* long is left unread.                                                    *)
ReadBodyOneLess ==
    /\ pc = "body"
    /\ ReadByte
    /\ IF len < Max - 1
         THEN buffer' = [buffer EXCEPT ![len] = Available] /\ len' = len + 1
         ELSE len' = 0 /\ UNCHANGED buffer
    /\ i' = i + 1
    /\ BodyGoesOn
    /\ UNCHANGED <<multiplier, length, reading, handed, done, spill>>

ReadBodyGivesUp ==
    /\ pc = "body"
    /\ IF len < Max
         THEN /\ ReadByte
              /\ buffer' = [buffer EXCEPT ![len] = Available] /\ len' = len + 1
              /\ i' = i + 1
              /\ BodyGoesOn
         ELSE /\ len' = 0 /\ pc' = "dispatch"
              /\ UNCHANGED <<incoming, at, buffer, i>>
    /\ UNCHANGED <<multiplier, length, reading, handed, done, spill>>

(* A byte of the rest: the buffer is filled, and from the start again when *)
(* a packet is too long, the byte at the turn being dropped.               *)
ReadBody ==
    /\ pc = "body"
    /\ ReadByte
    /\ IF len < Max
         THEN buffer' = [buffer EXCEPT ![len] = Available] /\ len' = len + 1
         ELSE len' = 0 /\ UNCHANGED buffer
    /\ i' = i + 1
    /\ BodyGoesOn
    /\ UNCHANGED <<multiplier, length, reading, handed, done, spill>>

-------------------------------------------------------------------------------
(* loop() *)

Finish(what) ==
    /\ pc = "dispatch" /\ pc' = "header" /\ done' = what
    /\ UNCHANGED <<incoming, at, local, reading, handed, spill>>

(* readPacket() returned 0. *)
IgnoresEmpty ==
    /\ len = 0
    /\ Finish("ignored")
    /\ UNCHANGED buffer

(* The buffer begins with the first byte of a packet. *)
Begun == len > 0 /\ buffer[0] = Byte(reading, 0)

(* The kind that the first byte of the buffer shows: that of the packet,   *)
(* or any, as the first byte of the tail of one that was too long may be   *)
(* any character of its topic or its payload (0 to 9 show a PUBLISH).      *)
Shows(kind) == len > 0 /\ (Begun => kind = reading.kind)

(* The length of the topic, as the bytes 2 and 3 have it: right if they    *)
(* are the first two behind the digits, and anything otherwise.            *)
TopicLengths ==
    IF \A n \in {2, 3} : buffer[n] = Byte(reading, n + Digits(reading) - 1)
      THEN {reading.topic} ELSE 0..(LengthMod - 1)

(* len - 4 - tl, an unsigned int of 16 bits *)
PayloadLength(tl) == (LengthMod + len - 4 - tl) % LengthMod

(* The array for the topic and the copy of the payload that the callback   *)
(* makes are in RAM together.                                              *)
InMemory(tl) == tl + PayloadLength(tl) <= Memory

(* Mutant: the payload is taken for as long as topic and payload are.      *)
DispatchesLong ==
    /\ pc = "dispatch" /\ Shows("PUBLISH")
    /\ \E tl \in TopicLengths :
         /\ InMemory(tl)
         /\ handed' = [topic |-> [k \in 1..tl |-> buffer[3 + k]],
                       payload |-> [k \in 1..(len - 4) |-> buffer[(3 + tl + k) % Max]]]
    /\ pc' = "echo" /\ done' = "callback"
    /\ UNCHANGED <<incoming, at, buffer, local, reading, spill>>

(* A PUBLISH: the topic follows its length, and the payload is the rest.   *)
Dispatches ==
    /\ pc = "dispatch" /\ Shows("PUBLISH")
    /\ \E tl \in TopicLengths :
         /\ InMemory(tl)
         /\ handed' = [topic |-> [k \in 1..tl |-> buffer[3 + k]],
                       payload |-> [k \in 1..PayloadLength(tl) |-> buffer[3 + tl + k]]]
    /\ pc' = "echo" /\ done' = "callback"
    /\ UNCHANGED <<incoming, at, buffer, local, reading, spill>>

(* Lengths that do not: the stack grows over everything else, or malloc()  *)
(* gives NULL and the payload is copied to there.                          *)
DispatchesAstray ==
    /\ pc = "dispatch" /\ Shows("PUBLISH")
    /\ \E tl \in TopicLengths : ~InMemory(tl)
    /\ pc' = "astray" /\ done' = "callback"
    /\ UNCHANGED <<incoming, at, buffer, local, reading, handed, spill>>

(* A PINGREQ is answered from the buffer, a PINGRESP noted. *)
Answers ==
    /\ Shows("PINGREQ")
    /\ buffer' = [buffer EXCEPT ![0] = Own, ![1] = Own]
    /\ Finish("answer")

Notes ==
    /\ \/ Shows("PINGRESP") /\ Finish("pong")
       \/ Shows("SUBACK") /\ Finish("ignored")
    /\ UNCHANGED buffer

(* The callback publishes the payload on .../last; header, length (of one  *)
(* or two digits) and topic come before it.  Once the pointer to the       *)
(* callback is written over, nothing is known of what is called.           *)
Echoes ==
    /\ pc = "echo"
    /\ LET first == IF 2 + LastTopic + Len(handed.payload) < Base THEN 3 ELSE 2
           end == 7 + LastTopic + Len(handed.payload)
       IN  /\ buffer' = [n \in 0..(Max - 1) |-> IF n \in first..(end - 1) THEN Own ELSE buffer[n]]
           /\ spill' = IF end > Max THEN end - Max ELSE 0
    /\ pc' = IF spill' > BeforeCallback THEN "astray" ELSE "header"
    /\ handed' = Untouched
    /\ UNCHANGED <<incoming, at, local, reading, done>>

Client ==
    \/ ReadHeader \/ ReadDigit \/ ReadBody
    \/ IgnoresEmpty \/ Dispatches \/ DispatchesAstray \/ Answers \/ Notes
    \/ Echoes

Next == Client \/ Resets \/ \E p \in Packets : Arrives(p)

Spec == Init /\ [][Next]_vars

-------------------------------------------------------------------------------
(* Properties *)

(* Between packets the client is at the start of one: a packet too long    *)
(* for the buffer is read to its end all the same.  This is so for lengths *)
(* of two digits, and not for those of three, when multiplier has become 0.*)
InStep == pc = "header" => at = 0

(* What the callback is given for a message that fits is exactly its topic *)
(* and its payload, though loop() looks for them at fixed places and the   *)
(* buffer still holds bytes of earlier packets behind it.  Of a message    *)
(* that does not fit it may be given the end, cut into topic and payload   *)
(* anywhere, though "This will cause the packet to be ignored."            *)
(* (PubSubClient.cpp:141); but never bytes of two messages.                *)
FittingWhole ==
    pc = "echo" /\ Fits(reading) =>
        LET start == 3 + Digits(reading)
        IN  handed = [topic |-> Slice(reading, start, reading.topic),
                      payload |-> Slice(reading, start + reading.topic, reading.payload)]

NeverMixed ==
    pc = "echo" =>
        LET all == handed.topic \o handed.payload
        IN  all = Slice(reading, Size(reading) - Len(all), Len(all))

HandedWhole == FittingWhole /\ NeverMixed

(* Each packet that fits is dispatched, and as what it is. *)
FittingNotIgnored ==
    pc = "dispatch" /\ Fits(reading) => Begun /\ len = Size(reading)

(* "MQTT_MAX_PACKET_SIZE : Maximum packet size" (PubSubClient.h:13) does   *)
(* not hold for the packet publish() builds; but what it writes behind the *)
(* buffer for a message that fitted reaches only what is not sent or set   *)
(* anew, and never lastInActivity.                                         *)
SpillIsHarmless == Fits(reading) => spill <= SetAnew
===============================================================================
