---------------------------- MODULE MCMqttGateway -----------------------------
EXTENDS MqttGateway

(* One message for each filter: on a topic with a handler, and on a topic  *)
(* that matches a filter and has none.                                     *)
MCMessages == [topic : {"rc", "ir/sub"}, payload : Payloads]
===============================================================================
