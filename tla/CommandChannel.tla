---------------------------- MODULE CommandChannel ----------------------------
(***************************************************************************)
(* What the gateway promises the user of the command topics, with neither  *)
(* packets nor sessions: commands accepted for the gateway wait in order;  *)
(* each is handled at most once and unaltered, only the oldest one is      *)
(* handled, and only a lost connection or a reset may drop any.            *)
(***************************************************************************)
EXTENDS Sequences, Naturals, SequencesExt

CONSTANTS
    Messages,      \* every message the gateway can be sent
    NoMsg,         \* stands for "none yet"
    Known(_)       \* whether the gateway has a handler for the message

VARIABLES
    waiting,       \* accepted and not yet handled, oldest first
    out            \* the last command handed to a transmitter

vars == <<waiting, out>>

Init == waiting = <<>> /\ out = NoMsg

(* The broker forwards commands to the gateway. *)
Accept ==
    /\ IsStrictPrefix(waiting, waiting')
    /\ UNCHANGED out

(* The oldest command leaves the queue; a message without a handler is     *)
(* discarded, never mistaken for another one.                              *)
Handle ==
    /\ waiting # <<>>
    /\ waiting' = Tail(waiting)
    /\ out' = IF Known(Head(waiting)) THEN Head(waiting) ELSE out

(* A lost connection drops the newest commands, a reset all of them. *)
Lose ==
    /\ IsStrictPrefix(waiting', waiting)
    /\ UNCHANGED out

Next == Accept \/ Handle \/ Lose

(* No command waits for ever.  This is WF_vars(Handle \/ Lose) with        *)
(* ENABLED written out, which is waiting # <<>>.                           *)
Progress == []<>(waiting = <<>>) \/ []<><<Handle \/ Lose>>_vars

Spec == Init /\ [][Next]_vars /\ Progress
===============================================================================
