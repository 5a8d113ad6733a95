------------------------------- MODULE RcCommand -------------------------------
(***************************************************************************)
(* A command on the topic .../rc, from its text to the outlets: the parser *)
(* in handle_command(), the choice of a type in handle_rc(), the codewords *)
(* of RCSwitch and their repeated transmission.                            *)
(*                                                                         *)
(* The text matters here, because the code hands on pointers into it.  It  *)
(* is a sequence of parts (what stood between two "-"), a part a sequence  *)
(* of characters.  What a pointer that was never set, NULL, or the memory  *)
(* behind the command yields is unknown, and chosen anew for each command. *)
(***************************************************************************)
EXTENDS RcCodewords, Naturals, FiniteSets, Sequences, SequencesExt

CONSTANTS
    Outlets,       \* the outlets within reach, by their addresses
    Commands,      \* the commands users publish
    Junk,          \* texts an unset pointer may yield
    Repeats        \* nRepeatTransmit

ASSUME OutletsAssumption == \A o \in Outlets : IsAddress(o)
ASSUME CommandsAssumption == Commands \subseteq Seq(Texts)
ASSUME JunkAssumption == Junk # {} /\ \A t \in Junk : DOMAIN t = 1..5
ASSUME RepeatsAssumption == Repeats \in Nat \ {0}

VARIABLES
    pc,            \* "idle", "handle", "send" or "done"
    command,       \* cCmd
    args,          \* the part each argument points to, 0 if to none
    word, left,    \* the codeword being sent, and its repetitions left
    panel          \* the state of each outlet

vars == <<pc, command, args, word, left, panel>>

TypeOK ==
    /\ pc \in {"idle", "handle", "send", "done"}
    /\ command \in Commands \cup {<<>>}
    /\ args \in [1..5 -> 0..Len(command)]
    /\ left \in 0..Repeats
    /\ panel \in [Outlets -> States]

Init ==
    /\ pc = "idle" /\ command = <<>>
    /\ args = [k \in 1..5 |-> 0]
    /\ word = <<>> /\ left = 0
    /\ panel \in [Outlets -> States]

-------------------------------------------------------------------------------
(* handle_command() *)

(* The part args[k] points to: the k-th of those that are not empty. *)
Found(c, k) ==
    LET here == {i \in DOMAIN c :
                   c[i] # <<>> /\ Cardinality({j \in 1..i : c[j] # <<>>}) = k}
    IN  IF here = {} THEN 0 ELSE CHOOSE i \in here : TRUE

HandleCommand(c) ==
    /\ pc = "idle"
    /\ command' = c
    /\ args' = [k \in 1..5 |-> Found(c, k)]
    /\ pc' = "handle"
    /\ UNCHANGED <<word, left, panel>>

-------------------------------------------------------------------------------
(* What the pointers yield *)

(* What is unknown: the text of a pointer never set or NULL, and what      *)
(* stands behind the command.                                              *)
Unknown == [junk : Junk, beyond : {"0", "x"}]

(* The memory behind a part: the parts that follow, "-" replaced by NUL.   *)
Behind(c, i) == FlattenSeq([n \in 1..(Len(c) - i) |-> Append(c[i + n], NUL)])

Char(c, i, j, u) ==
    LET m == j - Len(c[i]) - 1
    IN  IF j <= Len(c[i]) THEN c[i][j]
        ELSE IF m = 0 THEN NUL
        ELSE IF m <= Len(Behind(c, i)) THEN Behind(c, i)[m]
        ELSE u.beyond

(* The five characters args[k] points to; none reads more of an argument.  *)
Arg(k, u) ==
    IF args[k] = 0 THEN u.junk ELSE [j \in 1..5 |-> Char(command, args[k], j, u)]

(* atoi(), where all that is 10 or more is alike. *)
Atoi(t) ==
    LET digits == {n \in 1..5 : \A j \in 1..n : t[j] \in Digits}
    IN  IF \A n \in digits : t[n] = "0" THEN 0
        ELSE IF \A n \in digits : t[n] = "0" \/ n + 1 \notin digits
          THEN DigitValue[t[CHOOSE n \in digits : n + 1 \notin digits]]
        ELSE 10

-------------------------------------------------------------------------------
(* Outlets and their receivers *)

Hear(o) == IF \E s \in States : word = Listens(o, s)
             THEN CHOOSE s \in States : word = Listens(o, s) ELSE panel[o]

-------------------------------------------------------------------------------
(* handle_rc() *)

Send(w) ==
    /\ pc' = "send" /\ word' = w /\ left' = Repeats
    /\ UNCHANGED <<command, args, panel>>

(* The codeword is NULL: sendTriState() sends whatever is in memory there. *)
SendNull == \E w \in {<<>>} \cup {Listens(o, s) : o \in Outlets, s \in States} : Send(w)

SendNothing ==
    /\ pc' = "done"
    /\ UNCHANGED <<command, args, word, left, panel>>

Typ(n, u) == pc = "handle" /\ Atoi(Arg(1, u)) = n
On(u) == Atoi(Arg(5, u)) = 1
StateKnown(u) == Atoi(Arg(5, u)) \in {0, 1}

SwitchA(u) ==
    /\ Typ(1, u) /\ StateKnown(u)
    /\ Send(WordA(Arg(3, u), Arg(4, u), On(u)))

SwitchB(u) ==
    /\ Typ(2, u) /\ StateKnown(u)
    /\ LET group == Atoi(Arg(3, u))
           device == Atoi(Arg(4, u))
       IN  IF group \in 1..4 /\ device \in 1..4
             THEN Send(WordB(group, device, On(u)))
             ELSE SendNull

SwitchC(u) ==
    /\ Typ(3, u) /\ StateKnown(u)
    /\ LET family == {n \in 1..16 : Letters[n] = Arg(2, u)[1]}
           group == Atoi(Arg(3, u))
           device == Atoi(Arg(4, u))
       IN  IF family # {} /\ group \in 1..4 /\ device \in 1..4
             THEN \E n \in family : Send(WordC(n, group, device, On(u)))
             ELSE SendNull

(* The group is a char*, so that the form for type A is called.  A channel *)
(* it does not have is looked up behind its table.                         *)
SwitchD(u) ==
    /\ Typ(4, u) /\ StateKnown(u)
    /\ LET channel == Atoi(Arg(4, u))
       IN  Send(WordA(Arg(3, u), IF channel <= 5 THEN Channel[channel] ELSE u.junk, On(u)))

(* "Protokoll nicht gefunden"; type 5 does nothing yet. *)
NotFound(u) ==
    /\ pc = "handle"
    /\ Atoi(Arg(1, u)) \notin 1..4 \/ ~StateKnown(u)
    /\ SendNothing

(* sendTriState(): once more the codeword and the sync bit. *)
Transmit ==
    /\ pc = "send" /\ left > 0
    /\ panel' = [o \in Outlets |-> Hear(o)]
    /\ left' = left - 1
    /\ UNCHANGED <<pc, command, args, word>>

Sent ==
    /\ pc = "send" /\ left = 0
    /\ pc' = "done" /\ word' = <<>>
    /\ UNCHANGED <<command, args, left, panel>>

(* Back in callback(), and ready for the next message. *)
Return ==
    /\ pc = "done"
    /\ pc' = "idle"
    /\ UNCHANGED <<command, args, word, left, panel>>

(* The board is reset, perhaps within the transmission. *)
Reset ==
    /\ pc # "idle"
    /\ pc' = "idle" /\ word' = <<>> /\ left' = 0
    /\ UNCHANGED <<command, args, panel>>

HandleRc ==
    \E u \in Unknown : SwitchA(u) \/ SwitchB(u) \/ SwitchC(u) \/ SwitchD(u) \/ NotFound(u)

Next ==
    \/ \E c \in Commands : HandleCommand(c)
    \/ HandleRc
    \/ Transmit \/ Sent \/ Return \/ Reset

Spec == Init /\ [][Next]_vars

-------------------------------------------------------------------------------
(* Properties *)

(* The outlet a command is meant for: its parts are type, family, group,   *)
(* device and state (MQTT_IR_RC_6.ino:198-202).                            *)
Target(c) ==
    [type |-> c[1][1], family |-> IF c[1][1] = "3" THEN c[2] ELSE <<>>,
     group |-> c[3], device |-> c[4]]

WellFormed(c) ==
    /\ Len(c) = 5 /\ \A i \in 1..5 : c[i] # <<>> /\ Len(c[i]) <= 5
    /\ Len(c[1]) = 1 /\ IsAddress(Target(c))
    /\ \E s \in States : c[5] = <<s>>

(* Type 4 is handled by the wrong form of switchOn(). *)
Supported(c) == WellFormed(c) /\ Target(c).type # "4"

(* When handle_command() is done with a command of the types 1 to 3, the   *)
(* outlet it is meant for is in the state it asks for, for every address   *)
(* and whatever was in memory: parser, choice of the type and codeword     *)
(* agree with what the outlet listens to.                                  *)
AddressedSwitches ==
    pc = "done" /\ Supported(command) /\ Target(command) \in Outlets =>
        panel[Target(command)] = command[5][1]

(* Such a command does not switch any other outlet, with one exception: an *)
(* outlet of another type whose address gives the same codeword for off    *)
(* may go off with it.  No outlet ever goes on that was not addressed.     *)
OthersStay ==
    [][Supported(command) =>
         \A o \in Outlets :
            panel'[o] # panel[o] =>
                \/ o = Target(command) /\ panel'[o] = command[5][1]
                \/ /\ o.type # Target(command).type
                   /\ panel'[o] = "0" /\ command[5] = <<"0">>]_vars

(* "typ must be 1,2,3 or 4" (MQTT_IR_RC_6.ino:200), so a command of type 4 *)
(* switches the outlet it is meant for as well.                            *)
RevSwitches ==
    pc = "done" /\ WellFormed(command) /\ Target(command) \in Outlets =>
        panel[Target(command)] = command[5][1]
===============================================================================
