----------------------------- MODULE MCMqttPacket ------------------------------
EXTENDS MqttPacket

(* Topics no shorter than LASTTOPIC less one, payloads around every        *)
(* boundary: an echo that just fits and one that does not, the longest     *)
(* packet that fits, one too long by 1, by 2 (a tail of one byte), by a    *)
(* whole buffer, which is then all tail, and by one more.                  *)
Message(t, n) == [kind |-> "PUBLISH", topic |-> t, payload |-> n]
Others == [kind : Kinds \ {"PUBLISH"}, topic : {0}, payload : {0}]

MCPackets ==
    {Message(8, n) : n \in {0, 1, 4, 5, 6, 20, 21}} \cup {Message(10, 2)} \cup Others
===============================================================================
