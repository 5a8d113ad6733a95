------------------------ MODULE GatewayVersions_proofs ------------------------
(***************************************************************************)
(* Theorems about the versions of the gateway sketch, for every set of     *)
(* boards and of commands.                                                 *)
(***************************************************************************)
EXTENDS GatewayVersions, SequenceTheorems, TLAPS

First == {"RC_1", "RC_1_1"}
ForFixed == {"RC_2", "RC_3", "RC_3_WAN", "RC_4", "RC_4_DEL", "RC_4_1"}
ByAddress == {"RC_5", "RC_6", "RC_6_USER_2"}

-------------------------------------------------------------------------------
(* What a version does with a command *)

(* The versions, by what their handle_rc() does. *)
LEMMA Names == DOMAIN Sketch = First \cup ForFixed \cup ByAddress
BY DEF Sketch, First, ForFixed, ByAddress

(* The records of the versions, unfolded. *)
LEMMA Receiving ==
    /\ RC_1_Receives.infrared = [c \in Commands |-> ByFourthPart(c)]
    /\ RC_1_1_Receives.infrared = [c \in Commands |-> ByFourthPart(c)]
    /\ RC_2_Receives.infrared = [c \in Commands |-> ByFourthPart(c)]
    /\ RC_3_Receives.infrared = [c \in Commands |-> ByFourthPart(c)]
    /\ RC_3_WAN_Receives.infrared = [c \in Commands |-> ByFourthPart(c)]
    /\ RC_4_Receives.infrared = [c \in Commands |-> ByFourthPart(c)]
    /\ RC_4_DEL_Receives.infrared = [c \in Commands |-> ByFourthPart(c)]
    /\ RC_4_1_Receives.infrared = [c \in Commands |-> ByFourthPart(c)]
    /\ RC_5_Receives.infrared = [c \in Commands |-> ByTopic(c)]
    /\ RC_6_Receives.infrared = [c \in Commands |-> ByTopic(c)]
BY DEF RC_1_Receives, RC_1_1_Receives, RC_2_Receives, RC_3_Receives, RC_3_WAN_Receives, RC_4_Receives,
       RC_4_DEL_Receives, RC_4_1_Receives, RC_5_Receives, RC_6_Receives

(* What handle_rc() makes of a command, in each version. *)
LEMMA Transmitting ==
    /\ RC_1_Transmits.rc = [c \in Commands |-> Silence]
    /\ RC_1_1_Transmits.rc = [c \in Commands |-> Silence]
    /\ RC_2_Transmits.rc = [c \in Commands |-> Fixed(c)]
    /\ RC_3_Transmits.rc = [c \in Commands |-> Fixed(c)]
    /\ RC_3_WAN_Transmits.rc = [c \in Commands |-> Fixed(c)]
    /\ RC_4_Transmits.rc = [c \in Commands |-> Fixed(c)]
    /\ RC_4_DEL_Transmits.rc = [c \in Commands |-> Fixed(c)]
    /\ RC_4_1_Transmits.rc = [c \in Commands |-> Fixed(c)]
    /\ RC_5_Transmits.rc = [c \in Commands |-> Addressed(c)]
    /\ RC_6_Transmits.rc = [c \in Commands |-> Addressed(c)]
BY DEF RC_1_Transmits, RC_1_1_Transmits, RC_2_Transmits, RC_3_Transmits, RC_3_WAN_Transmits, RC_4_Transmits,
       RC_4_DEL_Transmits, RC_4_1_Transmits, RC_5_Transmits, RC_6_Transmits

(* handle_ir() is the same in all versions. *)
LEMMA TransmittingInfrared ==
    /\ RC_1_Transmits.ir = [c \in Commands |-> Infrared(c)]
    /\ RC_1_1_Transmits.ir = [c \in Commands |-> Infrared(c)]
    /\ RC_2_Transmits.ir = [c \in Commands |-> Infrared(c)]
    /\ RC_3_Transmits.ir = [c \in Commands |-> Infrared(c)]
    /\ RC_3_WAN_Transmits.ir = [c \in Commands |-> Infrared(c)]
    /\ RC_4_Transmits.ir = [c \in Commands |-> Infrared(c)]
    /\ RC_4_DEL_Transmits.ir = [c \in Commands |-> Infrared(c)]
    /\ RC_4_1_Transmits.ir = [c \in Commands |-> Infrared(c)]
    /\ RC_5_Transmits.ir = [c \in Commands |-> Infrared(c)]
    /\ RC_6_Transmits.ir = [c \in Commands |-> Infrared(c)]
BY DEF RC_1_Transmits, RC_1_1_Transmits, RC_2_Transmits, RC_3_Transmits, RC_3_WAN_Transmits, RC_4_Transmits,
       RC_4_DEL_Transmits, RC_4_1_Transmits, RC_5_Transmits, RC_6_Transmits

(* The fields of a version. *)
LEMMA VersionFields ==
    ASSUME NEW r, NEW t, NEW s
    PROVE  /\ Version(r, t, s).receives = r
           /\ Version(r, t, s).transmits = t
           /\ Version(r, t, s).session = s
BY DEF Version

(* The records behind the names of the versions. *)
LEMMA Versions ==
    /\ Sketch["RC_1"] = Version(RC_1_Receives, RC_1_Transmits, RC_1_Session)
    /\ Sketch["RC_1_1"] = Version(RC_1_1_Receives, RC_1_1_Transmits, RC_1_1_Session)
    /\ Sketch["RC_2"] = Version(RC_2_Receives, RC_2_Transmits, RC_2_Session)
    /\ Sketch["RC_3"] = Version(RC_3_Receives, RC_3_Transmits, RC_3_Session)
    /\ Sketch["RC_3_WAN"] = Version(RC_3_WAN_Receives, RC_3_WAN_Transmits, RC_3_WAN_Session)
    /\ Sketch["RC_4"] = Version(RC_4_Receives, RC_4_Transmits, RC_4_Session)
    /\ Sketch["RC_4_DEL"] = Version(RC_4_DEL_Receives, RC_4_DEL_Transmits, RC_4_DEL_Session)
    /\ Sketch["RC_4_1"] = Version(RC_4_1_Receives, RC_4_1_Transmits, RC_4_1_Session)
    /\ Sketch["RC_5"] = Version(RC_5_Receives, RC_5_Transmits, RC_5_Session)
    /\ Sketch["RC_6"] = Version(RC_6_Receives, RC_6_Transmits, RC_6_Session(1))
    /\ Sketch["RC_6_USER_2"] = Version(RC_6_Receives, RC_6_Transmits, RC_6_Session(2))
BY DEF Sketch

(* What each version receives and transmits. *)
LEMMA Parts ==
    /\ Sketch["RC_1"].receives = RC_1_Receives /\ Sketch["RC_1"].transmits = RC_1_Transmits
    /\ Sketch["RC_1_1"].receives = RC_1_1_Receives /\ Sketch["RC_1_1"].transmits = RC_1_1_Transmits
    /\ Sketch["RC_2"].receives = RC_2_Receives /\ Sketch["RC_2"].transmits = RC_2_Transmits
    /\ Sketch["RC_3"].receives = RC_3_Receives /\ Sketch["RC_3"].transmits = RC_3_Transmits
    /\ Sketch["RC_3_WAN"].receives = RC_3_WAN_Receives /\ Sketch["RC_3_WAN"].transmits = RC_3_WAN_Transmits
    /\ Sketch["RC_4"].receives = RC_4_Receives /\ Sketch["RC_4"].transmits = RC_4_Transmits
    /\ Sketch["RC_4_DEL"].receives = RC_4_DEL_Receives /\ Sketch["RC_4_DEL"].transmits = RC_4_DEL_Transmits
    /\ Sketch["RC_4_1"].receives = RC_4_1_Receives /\ Sketch["RC_4_1"].transmits = RC_4_1_Transmits
    /\ Sketch["RC_5"].receives = RC_5_Receives /\ Sketch["RC_5"].transmits = RC_5_Transmits
    /\ Sketch["RC_6"].receives = RC_6_Receives /\ Sketch["RC_6"].transmits = RC_6_Transmits
    /\ Sketch["RC_6_USER_2"].receives = RC_6_Receives /\ Sketch["RC_6_USER_2"].transmits = RC_6_Transmits
BY VersionFields, Versions

(* What handle_command() makes of a command in each of them. *)
Uses(v, c) ==
    IF v \in ByAddress THEN (IF ByTopic(c) THEN Infrared(c) ELSE Addressed(c))
    ELSE IF ByFourthPart(c) THEN Infrared(c)
    ELSE IF v \in First THEN Silence ELSE Fixed(c)

(* handle_command() makes of a command what Uses says. *)
LEMMA Dispatching ==
    ASSUME NEW v \in DOMAIN Sketch, NEW c \in Commands
    PROVE  (IF Sketch[v].receives.infrared[c] THEN Sketch[v].transmits.ir[c] ELSE Sketch[v].transmits.rc[c])
             = Uses(v, c)
<1>1. v \in First \cup ForFixed \cup ByAddress
  BY Names
<1>2. Sketch[v].transmits.ir[c] = Infrared(c)
  BY <1>1, Parts, TransmittingInfrared DEF First, ForFixed, ByAddress
<1>3. CASE v \in First
  <2>1. Sketch[v].receives.infrared[c] = ByFourthPart(c) /\ Sketch[v].transmits.rc[c] = Silence
    BY <1>3, Parts, Receiving, Transmitting DEF First
  <2>2. v \notin ByAddress
    BY <1>3 DEF First, ByAddress
  <2> QED BY <1>2, <1>3, <2>1, <2>2 DEF Uses
<1>4. CASE v \in ForFixed
  <2>1. Sketch[v].receives.infrared[c] = ByFourthPart(c) /\ Sketch[v].transmits.rc[c] = Fixed(c)
    BY <1>4, Parts, Receiving, Transmitting DEF ForFixed
  <2>2. v \notin ByAddress /\ v \notin First
    BY <1>4 DEF First, ByAddress, ForFixed
  <2> QED BY <1>2, <1>4, <2>1, <2>2 DEF Uses
<1>5. CASE v \in ByAddress
  <2>1. Sketch[v].receives.infrared[c] = ByTopic(c) /\ Sketch[v].transmits.rc[c] = Addressed(c)
    BY <1>5, Parts, Receiving, Transmitting DEF ByAddress
  <2> QED BY <1>2, <1>5, <2>1 DEF Uses
<1> QED BY <1>1, <1>3, <1>4, <1>5

-------------------------------------------------------------------------------
(* The calls of RC_2 to RC_4_1 and the outlets they name *)

(* The call for the outlet of type A has the word that outlet listens to. *)
LEMMA FixedA ==
    ASSUME NEW on \in BOOLEAN, NEW s \in States, on <=> s = "1"
    PROVE  FixedWord(1, on) = Listens(Owned[1], s)
<1> DEFINE G == <<"1", "1", "0", "0", "1">>
           D == <<"0", "1", "0", "1", "0">>
<1>1. FixedWord(1, on) = WordA(G, D, on)
  BY DEF FixedWord
<1>2. Owned[1].type = "1" /\ Owned[1].group = G /\ Owned[1].device = D
  BY DEF Owned
<1>3. Listens(Owned[1], s) =
        [i \in 1..12 |-> IF i <= 10 THEN Floating((IF i <= 5 THEN G[i] ELSE D[i - 5]) = "0")
                         ELSE Floating((i = 12) = (s = "1"))]
  BY <1>2 DEF Listens
<1>4. ASSUME NEW i \in 1..12 PROVE WordA(G, D, on)[i] = Listens(Owned[1], s)[i]
  BY <1>3 DEF WordA, Floating, Dip
<1>5. WordA(G, D, on) = [i \in 1..12 |-> WordA(G, D, on)[i]]
  BY DEF WordA
<1> QED BY <1>1, <1>3, <1>4, <1>5

(* The same for type B. *)
LEMMA FixedB ==
    ASSUME NEW on \in BOOLEAN, NEW s \in States, on <=> s = "1"
    PROVE  FixedWord(2, on) = Listens(Owned[2], s)
<1> DEFINE g == Number(Owned[2].group)
           d == Number(Owned[2].device)
<1>1. FixedWord(2, on) = WordB(4, 1, on)
  BY DEF FixedWord
<1>2. g = 4 /\ d = 1
  BY DEF Owned, Number, DigitValue, Digits
<1>3. Listens(Owned[2], s) = [i \in 1..12 |-> Floating(i # g /\ i # 4 + d /\ (i = 12 => s = "1"))]
  <2>1. Owned[2].type = "2"
    BY DEF Owned
  <2> QED BY <2>1 DEF Listens
<1> HIDE DEF g, d
<1>4. ASSUME NEW i \in 1..12 PROVE WordB(4, 1, on)[i] = Listens(Owned[2], s)[i]
  <2>1. CASE i \in 1..4
    BY <1>2, <1>3, <2>1 DEF WordB, Floating, RotaryCode
  <2>2. CASE i \in 5..8
    BY <1>2, <1>3, <2>2 DEF WordB, Floating, RotaryCode
  <2>3. CASE i \in 9..12
    BY <1>2, <1>3, <2>3 DEF WordB, Floating
  <2> QED BY <2>1, <2>2, <2>3
<1>5. WordB(4, 1, on) = [i \in 1..12 |-> WordB(4, 1, on)[i]]
  BY DEF WordB
<1> QED BY <1>1, <1>3, <1>4, <1>5

(* The same for type C. *)
LEMMA FixedC ==
    ASSUME NEW on \in BOOLEAN, NEW s \in States, on <=> s = "1"
    PROVE  FixedWord(3, on) = Listens(Owned[3], s)
<1>1. FixedWord(3, on) = WordC(2, 3, 2, on)
  BY DEF FixedWord
<1>2. /\ Owned[3].type = "3" /\ Index(Owned[3].family[1]) = 2
      /\ Number(Owned[3].group) = 3 /\ Number(Owned[3].device) = 2
  <2>1. Index("b") = 2
    BY DEF Index, Letters
  <2> QED BY <2>1 DEF Owned, Number, DigitValue, Digits
<1>3. Listens(Owned[3], s) =
        [i \in 1..12 |->
               CASE i \in 1..4 -> Floating(Bit(1, i - 1) = 1)
                 [] i \in 5..6 -> Floating(Bit(1, i - 5) = 1)
                 [] i \in 7..8 -> Floating(Bit(2, i - 7) = 1)
                 [] i \in 9..11 -> Floating(i # 9)
                 [] i = 12 -> Floating(s = "1")]
  BY <1>2 DEF Listens
<1>4. ASSUME NEW i \in 1..12 PROVE WordC(2, 3, 2, on)[i] = Listens(Owned[3], s)[i]
  <2>1. CASE i \in 1..4
    <3>1. Listens(Owned[3], s)[i] = Floating(Bit(1, i - 1) = 1)
      BY <1>3, <2>1
    <3>2. WordC(2, 3, 2, on)[i] = FamilyCode[2][i]
      BY <2>1 DEF WordC
    <3>3. FamilyCode[2][i] = Floating(Bit(1, i - 1) = 1)
      BY <2>1 DEF FamilyCode, Bit, Floating
    <3> QED BY <3>1, <3>2, <3>3
  <2>2. CASE i \in 5..8
    <3>1. WordC(2, 3, 2, on)[i] = IF Bit(9, i - 5) = 1 THEN "F" ELSE "0"
      <4>1. WordC(2, 3, 2, on)[i] = IF Dec2Bin(9, "0")[9 - i] = "1" THEN "F" ELSE "0"
        BY <2>2 DEF WordC
      <4>2. 9 - i \in 1..4 /\ 4 - (9 - i) = i - 5
        BY <2>2
      <4> QED BY <4>1, <4>2 DEF Dec2Bin
    <3>2. CASE i = 5
      BY <1>3, <3>1, <3>2 DEF Floating, Bit
    <3>3. CASE i = 6
      BY <1>3, <3>1, <3>3 DEF Floating, Bit
    <3>4. CASE i = 7
      BY <1>3, <3>1, <3>4 DEF Floating, Bit
    <3>5. CASE i = 8
      BY <1>3, <3>1, <3>5 DEF Floating, Bit
    <3> QED BY <2>2, <3>2, <3>3, <3>4, <3>5
  <2>3. CASE i \in 9..12
    BY <1>3, <2>3 DEF WordC, Floating
  <2> QED BY <2>1, <2>2, <2>3
<1>5. WordC(2, 3, 2, on) = [i \in 1..12 |-> WordC(2, 3, 2, on)[i]]
  BY DEF WordC
<1> QED BY <1>1, <1>3, <1>4, <1>5

(* The same for type D. *)
LEMMA FixedD ==
    ASSUME NEW on \in BOOLEAN, NEW s \in States, on <=> s = "1"
    PROVE  FixedWord(4, on) = Listens(Owned[4], s)
<1>1. FixedWord(4, on) = WordD("d", 2, on)
  BY DEF FixedWord
<1>2. Owned[4].type = "4" /\ Index(Owned[4].group[1]) = 4 /\ Number(Owned[4].device) = 2
  <2>1. Index("d") = 4
    BY DEF Index, Letters
  <2> QED BY <2>1 DEF Owned, Number, DigitValue, Digits
<1>3. Listens(Owned[4], s) =
        [i \in 1..12 |-> IF i \in {4, 6, IF s = "1" THEN 11 ELSE 12} THEN "1"
                         ELSE IF i <= 7 THEN "F" ELSE "0"]
  BY <1>2 DEF Listens
<1>4. ASSUME NEW i \in 1..12 PROVE WordD("d", 2, on)[i] = Listens(Owned[4], s)[i]
  <2>1. CASE i \in 1..4
    BY <1>3, <2>1 DEF WordD, Letters
  <2>2. CASE i \in 5..10
    BY <1>3, <2>2 DEF WordD
  <2>3. CASE i \in 11..12
    BY <1>3, <2>3 DEF WordD, States
  <2> QED BY <2>1, <2>2, <2>3
<1>5. WordD("d", 2, on) = [i \in 1..12 |-> WordD("d", 2, on)[i]]
  BY DEF WordD
<1> QED BY <1>1, <1>3, <1>4, <1>5

(* Each of the four calls has the word of the outlet it names.             *)
LEMMA FixedWords ==
    ASSUME NEW typ \in 1..4, NEW on \in BOOLEAN, NEW s \in States, on <=> s = "1"
    PROVE  FixedWord(typ, on) = Listens(Owned[typ], s)
<1>1. CASE typ = 1
  BY <1>1, FixedA
<1>2. CASE typ = 2
  BY <1>2, FixedB
<1>3. CASE typ = 3
  BY <1>3, FixedC
<1>4. CASE typ = 4
  BY <1>4, FixedD
<1> QED BY <1>1, <1>2, <1>3, <1>4

-------------------------------------------------------------------------------
(* The messages of a board are commands of its fleet for its room *)

MessagesFor(b) == [place : {Place(b)}, command : fleet.commands]

(* What was given to a transmitter belongs to the command handled last.    *)
SentIsHandled ==
    \A b \in Present : handled[b] # None => sent[b] = Uses(fleet.boards[b], handled[b].command)

Delivered ==
    /\ fleet \in Fleets
    /\ DOMAIN rx = Boards /\ DOMAIN current = Boards
    /\ DOMAIN handled = Boards /\ DOMAIN sent = Boards
    /\ \A b \in Present : /\ rx[b] \in Seq(MessagesFor(b))
                          /\ current[b] \in MessagesFor(b) \cup {None}
                          /\ handled[b] \in MessagesFor(b) \cup {None}
    /\ SentIsHandled

(* The boards are there, and each has a version. *)
LEMMA PresentBoards == fleet \in Fleets => Present \subseteq Boards /\ \A b \in Present : fleet.boards[b] \in DOMAIN Sketch
<1> SUFFICES ASSUME fleet \in Fleets
             PROVE  Present \subseteq Boards /\ \A b \in Present : fleet.boards[b] \in DOMAIN Sketch
  OBVIOUS
<1>1. fleet.boards \in Seq(DOMAIN Sketch) /\ Len(fleet.boards) \in 1..2
  BY FleetsAssumption DEF Boards
<1> HIDE DEF Sketch
<1>2. DOMAIN fleet.boards = 1..Len(fleet.boards) /\ \A b \in 1..Len(fleet.boards) : fleet.boards[b] \in DOMAIN Sketch
  BY <1>1
<1> QED BY <1>1, <1>2 DEF Present, Boards

(* Nothing is delivered in the beginning. *)
LEMMA InitDelivered == Init => Delivered
<1> SUFFICES ASSUME Init PROVE Delivered
  OBVIOUS
<1>1. fleet \in Fleets /\ Present \subseteq Boards
  BY PresentBoards DEF Init
<1>2. ASSUME NEW b \in Present
      PROVE  rx[b] = <<>> /\ current[b] = None /\ handled[b] = None
  BY <1>1 DEF Init
<1>4. \A b \in Present : rx[b] \in Seq(MessagesFor(b))
  BY <1>2, EmptySeq
<1>5. DOMAIN rx = Boards /\ DOMAIN current = Boards /\ DOMAIN handled = Boards /\ DOMAIN sent = Boards
  BY DEF Init
<1> QED BY <1>1, <1>2, <1>4, <1>5 DEF Delivered, SentIsHandled

(* Who is where does not change. *)
LEMMA Unchanged ==
    ASSUME fleet' = fleet
    PROVE  /\ Present' = Present
           /\ \A b : MessagesFor(b)' = MessagesFor(b) /\ Place(b)' = Place(b)
BY DEF Present, MessagesFor, Place, Of

(* A step that gives a board new messages, or takes some away, and handles *)
(* none.                                                                   *)
LEMMA Carries ==
    ASSUME Delivered, fleet' = fleet, UNCHANGED <<handled, sent>>,
           DOMAIN rx' = Boards, DOMAIN current' = Boards,
           \A b \in Present : /\ rx'[b] \in Seq(MessagesFor(b))
                              /\ current'[b] \in MessagesFor(b) \cup {None}
    PROVE  Delivered'
<1> USE Unchanged
<1>1. \A b \in Present' : /\ rx'[b] \in Seq(MessagesFor(b)')
                          /\ current'[b] \in MessagesFor(b)' \cup {None}
                          /\ handled'[b] \in MessagesFor(b)' \cup {None}
  BY DEF Delivered
<1>2. SentIsHandled'
  BY DEF Delivered, SentIsHandled, Present
<1> QED BY <1>1, <1>2 DEF Delivered

(* A connection that is stopped loses messages and adds none. *)
LEMMA StopDelivers ==
    ASSUME NEW b \in Boards, Delivered, Stop(b), fleet' = fleet, UNCHANGED <<current, handled, sent>>
    PROVE  Delivered'
<1>1. DOMAIN rx' = Boards /\ DOMAIN current' = Boards
  BY DEF Stop, Delivered
<1>2. ASSUME NEW c \in Present PROVE rx'[c] \in Seq(MessagesFor(c))
  <2>1. rx'[c] = rx[c] \/ rx'[c] = <<>>
    BY PresentBoards DEF Stop, Delivered
  <2>2. rx[c] \in Seq(MessagesFor(c))
    BY DEF Delivered
  <2> QED BY <2>1, <2>2, EmptySeq
<1>3. \A c \in Present : current'[c] \in MessagesFor(c) \cup {None}
  BY DEF Delivered
<1> QED BY <1>1, <1>2, <1>3, Carries

(* Every step keeps the messages those of the room. *)
LEMMA NextDelivered == Delivered /\ [Next]_vars => Delivered'
<1> SUFFICES ASSUME Delivered, [Next]_vars PROVE Delivered'
  OBVIOUS
<1> USE DEF Delivered
<1>p. Present \subseteq Boards
  BY PresentBoards
<1>s. ASSUME UNCHANGED <<fleet, rx, current, handled, sent>> PROVE Delivered'
  <2>1. \A c \in Present : rx'[c] \in Seq(MessagesFor(c)) /\ current'[c] \in MessagesFor(c) \cup {None}
    BY <1>s
  <2> QED BY <1>s, <2>1, Carries
<1>u. ASSUME NEW b \in Boards, Unwritten(b), UNCHANGED <<fleet, current, handled, sent>> PROVE Delivered'
  <2>1. CASE UNCHANGED rx
    BY <1>s, <1>u, <2>1
  <2>2. CASE Stop(b)
    BY <1>u, <2>2, StopDelivers
  <2> QED BY <1>u, <2>1, <2>2 DEF Unwritten
<1>1. ASSUME NEW b \in Boards, ConnectFails(b) PROVE Delivered'
  <2>1. Stop(b) /\ UNCHANGED <<fleet, current, handled, sent>>
    BY <1>1 DEF ConnectFails
  <2> QED BY <2>1, StopDelivers
<1>2. ASSUME NEW b \in Boards, Connects(b) PROVE Delivered'
  <2>1. rx' = [rx EXCEPT ![b] = <<>>] /\ UNCHANGED <<fleet, current, handled, sent>>
    BY <1>2 DEF Connects
  <2>2. ASSUME NEW c \in Present PROVE rx'[c] \in Seq(MessagesFor(c))
    <3>1. rx'[c] = rx[c] \/ rx'[c] = <<>>
      BY <1>p, <2>1
    <3>2. rx[c] \in Seq(MessagesFor(c))
      OBVIOUS
    <3> QED BY <3>1, <3>2, EmptySeq
  <2>3. DOMAIN rx' = Boards /\ DOMAIN current' = Boards /\ \A c \in Present : current'[c] \in MessagesFor(c) \cup {None}
    BY <2>1
  <2> QED BY <2>1, <2>2, <2>3, Carries
<1>3. ASSUME NEW b \in Boards, AnnouncesStatus(b) PROVE Delivered'
  BY <1>3, <1>s, <1>u DEF AnnouncesStatus
<1>4. ASSUME NEW b \in Boards, NEW topic, Subscribes(b, topic) PROVE Delivered'
  BY <1>4, <1>s, <1>u DEF Subscribes
<1>5. ASSUME NEW b \in Boards, Reads(b) PROVE Delivered'
  <2>1. /\ b \in Present /\ rx[b] # <<>> /\ rx' = [rx EXCEPT ![b] = Tail(rx[b])]
        /\ current' = [current EXCEPT ![b] = Head(rx[b])] /\ UNCHANGED <<fleet, handled, sent>>
    BY <1>5 DEF Reads, Looping, At
  <2>2. rx[b] \in Seq(MessagesFor(b))
    BY <2>1
  <2>3. Head(rx[b]) \in MessagesFor(b) /\ Tail(rx[b]) \in Seq(MessagesFor(b))
    BY <2>1, <2>2
  <2>4. ASSUME NEW c \in Present
        PROVE  rx'[c] \in Seq(MessagesFor(c)) /\ current'[c] \in MessagesFor(c) \cup {None}
    <3>1. CASE c = b
      <4>1. rx'[c] = Tail(rx[b]) /\ current'[c] = Head(rx[b])
        BY <2>1, <3>1
      <4> QED BY <2>3, <3>1, <4>1
    <3>2. CASE c # b
      BY <1>p, <2>1, <3>2
    <3> QED BY <3>1, <3>2
  <2>5. DOMAIN rx' = Boards /\ DOMAIN current' = Boards
    BY <2>1
  <2> QED BY <2>1, <2>4, <2>5, Carries
<1>6. ASSUME NEW b \in Boards, Idles(b) PROVE Delivered'
  BY <1>6, <1>s DEF Idles
<1>7. ASSUME NEW b \in Boards, FindsGone(b) PROVE Delivered'
  <2>1. Stop(b) /\ UNCHANGED <<fleet, current, handled, sent>>
    BY <1>7 DEF FindsGone
  <2> QED BY <2>1, StopDelivers
<1>8. ASSUME NEW b \in Boards, Checks(b) PROVE Delivered'
  <2>1. UNCHANGED <<fleet, current, handled, sent>> /\ (UNCHANGED rx \/ Stop(b))
    BY <1>8 DEF Checks
  <2> QED BY <1>s, <2>1, StopDelivers
<1>9. ASSUME NEW b \in Boards, Echoes(b) PROVE Delivered'
  BY <1>9, <1>s, <1>u DEF Echoes
<1>10. ASSUME NEW b \in Boards, Handles(b) PROVE Delivered'
  <2>1. /\ b \in Present /\ sent' = [sent EXCEPT ![b] = Dispatch(b, current[b].command)]
        /\ handled' = [handled EXCEPT ![b] = current[b]]
        /\ current' = [current EXCEPT ![b] = None] /\ UNCHANGED <<fleet, rx>>
    BY <1>10 DEF Handles, At
  <2>2. Present' = Present /\ \A c : MessagesFor(c)' = MessagesFor(c)
    BY <2>1, Unchanged
  <2>3. \A c \in Present : /\ rx'[c] \in Seq(MessagesFor(c))
                          /\ current'[c] \in MessagesFor(c) \cup {None}
                          /\ handled'[c] \in MessagesFor(c) \cup {None}
    BY <1>p, <2>1
  <2>4. SentIsHandled'
    <3> SUFFICES ASSUME NEW c \in Present, handled'[c] # None
                 PROVE  sent'[c] = Uses(fleet.boards[c], handled'[c].command)
      BY <2>1, <2>2 DEF SentIsHandled
    <3>1. CASE c = b
      <4>1. sent'[c] = Dispatch(b, current[b].command) /\ handled'[c] = current[b]
        BY <1>p, <2>1, <3>1
      <4>2. current[b].command \in Commands
        <5>1. current[b] \in MessagesFor(b)
          BY <2>1, <4>1
        <5> QED BY <5>1 DEF MessagesFor, Commands
      <4>3. fleet.boards[b] \in DOMAIN Sketch
        BY <2>1, PresentBoards
      <4>4. Dispatch(b, current[b].command) = Uses(fleet.boards[b], current[b].command)
        BY <4>2, <4>3, Dispatching DEF Dispatch, Of
      <4> QED BY <3>1, <4>1, <4>4
    <3>2. CASE c # b
      <4>1. sent'[c] = sent[c] /\ handled'[c] = handled[c]
        BY <1>p, <2>1, <3>2
      <4> QED BY <4>1 DEF SentIsHandled
    <3> QED BY <3>1, <3>2
  <2> QED BY <2>1, <2>2, <2>3, <2>4
<1>11. ASSUME NEW b \in Boards, Reset(b) PROVE Delivered'
  <2>1. Stop(b) /\ current' = [current EXCEPT ![b] = None] /\ UNCHANGED <<fleet, handled, sent>>
    BY <1>11 DEF Reset
  <2>2. ASSUME NEW c \in Present
        PROVE  rx'[c] \in Seq(MessagesFor(c)) /\ current'[c] \in MessagesFor(c) \cup {None}
    <3>1. rx'[c] = rx[c] \/ rx'[c] = <<>>
      BY <1>p, <2>1 DEF Stop
    <3>2. rx[c] \in Seq(MessagesFor(c))
      OBVIOUS
    <3>3. rx'[c] \in Seq(MessagesFor(c))
      BY <3>1, <3>2, EmptySeq
    <3>4. current'[c] \in MessagesFor(c) \cup {None}
      BY <1>p, <2>1
    <3> QED BY <3>3, <3>4
  <2>3. DOMAIN rx' = Boards /\ DOMAIN current' = Boards
    BY <2>1 DEF Stop
  <2> QED BY <2>1, <2>2, <2>3, Carries
<1>12. ASSUME NEW b \in Boards, BrokerDetects(b) PROVE Delivered'
  BY <1>12, <1>s DEF BrokerDetects, board
<1>13. ASSUME NEW b \in Boards, LinkBreaks(b) PROVE Delivered'
  <2>1. UNCHANGED <<fleet, current, handled, sent>>
    BY <1>13 DEF LinkBreaks
  <2>2. PICK n \in 0..Len(rx[b]) : rx' = [rx EXCEPT ![b] = SubSeq(rx[b], 1, n)]
    BY <1>13 DEF LinkBreaks
  <2>3. ASSUME NEW c \in Present PROVE rx'[c] \in Seq(MessagesFor(c))
    <3>1. rx[c] \in Seq(MessagesFor(c))
      OBVIOUS
    <3>2. CASE c = b
      <4>1. rx'[c] = SubSeq(rx[c], 1, n)
        BY <2>2, <3>2
      <4>2. SubSeq(rx[c], 1, n) \in Seq(MessagesFor(c))
        BY <3>1, <3>2
      <4> QED BY <4>1, <4>2
    <3>3. CASE c # b
      BY <1>p, <2>2, <3>1, <3>3
    <3> QED BY <3>2, <3>3
  <2>4. DOMAIN rx' = Boards /\ DOMAIN current' = Boards /\ \A c \in Present : current'[c] \in MessagesFor(c) \cup {None}
    BY <2>1, <2>2
  <2> QED BY <2>1, <2>3, <2>4, Carries
<1>14. ASSUME NEW b \in Boards, BrokerCloses(b) PROVE Delivered'
  BY <1>14, <1>s DEF BrokerCloses
<1>15. ASSUME NEW c \in fleet.commands, UserPublishes(c) PROVE Delivered'
  <2>1. UNCHANGED <<fleet, current, handled, sent>>
    BY <1>15 DEF UserPublishes
  <2>2. PICK p \in {Place(b) : b \in Present} :
          rx' = [b \in Boards |->
                   IF b \in {d \in Present : Place(d) = p /\ link[d] = "up" /\ c.topic \in subs[d]}
                   THEN Append(rx[b], [place |-> p, command |-> c]) ELSE rx[b]]
    BY <1>15 DEF UserPublishes
  <2>3. ASSUME NEW b \in Present PROVE rx'[b] \in Seq(MessagesFor(b))
    <3>1. rx[b] \in Seq(MessagesFor(b))
      OBVIOUS
    <3>2. CASE Place(b) = p
      <4>1. [place |-> p, command |-> c] \in MessagesFor(b)
        BY <3>2 DEF MessagesFor
      <4>2. Append(rx[b], [place |-> p, command |-> c]) \in Seq(MessagesFor(b))
        BY <3>1, <4>1
      <4>3. rx'[b] = rx[b] \/ rx'[b] = Append(rx[b], [place |-> p, command |-> c])
        BY <1>p, <2>2
      <4> QED BY <3>1, <4>2, <4>3
    <3>3. CASE Place(b) # p
      BY <1>p, <2>2, <3>1, <3>3
    <3> QED BY <3>2, <3>3
  <2>4. DOMAIN rx' = Boards /\ DOMAIN current' = Boards /\ \A b \in Present : current'[b] \in MessagesFor(b) \cup {None}
    BY <2>1, <2>2
  <2> QED BY <2>1, <2>3, <2>4, Carries
<1>16. CASE UNCHANGED vars
  BY <1>16, <1>s DEF vars
<1> HIDE DEF Delivered
<1> QED BY <1>1, <1>2, <1>3, <1>4, <1>5, <1>6, <1>7, <1>8, <1>9, <1>10, <1>11, <1>12, <1>13, <1>14, <1>15, <1>16
        DEF Next, Step

(* The messages of a board are always those of its room. *)
LEMMA DeliveredAlways == Spec => []Delivered
<1>1. Init => Delivered
  BY InitDelivered
<1>2. Delivered /\ [Next]_vars => Delivered'
  BY NextDelivered
<1> QED BY <1>1, <1>2, PTL DEF Spec

-------------------------------------------------------------------------------
(* The transmitter a command is meant for *)

(* A command for an outlet, from RC_2 to RC_4_1 without 1 for its fourth part. *)
LEMMA SwitchesOutlet ==
    ASSUME NEW v \in DOMAIN Sketch, NEW c, c.topic = "rc", c.parts[1] \in 1..4, c.parts[5] \in 0..1
    PROVE  /\ v \in ByAddress => Uses(v, c) = <<"RC", c.parts>>
           /\ v \in First /\ c.parts[4] # 1 => Uses(v, c) = Silence
           /\ v \in ForFixed /\ c.parts[4] # 1 =>
                Uses(v, c) = <<"RC", Listens(Owned[c.parts[1]], IF c.parts[5] = 0 THEN "0" ELSE "1")>>
<1>1. v \in ByAddress => Uses(v, c) = <<"RC", c.parts>>
  BY DEF Uses, ByTopic, Addressed
<1>2. v \in First /\ c.parts[4] # 1 => Uses(v, c) = Silence
  BY DEF Uses, ByFourthPart, First, ByAddress
<1>3. ASSUME v \in ForFixed, c.parts[4] # 1
      PROVE  Uses(v, c) = <<"RC", Listens(Owned[c.parts[1]], IF c.parts[5] = 0 THEN "0" ELSE "1")>>
  <2> DEFINE on == c.parts[5] # 0
             state == IF c.parts[5] = 0 THEN "0" ELSE "1"
  <2>1. Uses(v, c) = <<"RC", FixedWord(c.parts[1], on)>>
    <3>1. v \notin First /\ v \notin ByAddress
      BY <1>3 DEF ForFixed, First, ByAddress
    <3> QED BY <1>3, <3>1 DEF Uses, ByFourthPart, Fixed
  <2>2. on \in BOOLEAN /\ state \in States /\ (on <=> state = "1")
    BY DEF States
  <2> HIDE DEF on, state
  <2>3. FixedWord(c.parts[1], on) = Listens(Owned[c.parts[1]], state)
    BY <2>2, FixedWords
  <2> QED BY <2>1, <2>3 DEF state
<1> QED BY <1>1, <1>2, <1>3

(* An infrared command with 1 for its fourth part.                         *)
LEMMA SendsInfrared ==
    ASSUME NEW v, NEW c, c.topic = "ir", c.parts[4] = 1, c.parts[1] \in 1..8
    PROVE  Uses(v, c) = <<Protocols[c.parts[1]], c.parts[2], c.parts[3]>>
<1>1. Uses(v, c) = Infrared(c)
  BY DEF Uses, ByTopic, ByFourthPart
<1>2. DOMAIN Protocols = 1..8
  BY DEF Protocols
<1> QED BY <1>1, <1>2 DEF Infrared

(* What was sent for such a message is what it was meant for. *)
LEMMA DeliveredMeans == Delivered => MeantTransmitter
<1> SUFFICES ASSUME Delivered, NEW b \in Present, handled[b] # None
             PROVE  LET c == handled[b].command
                    IN  /\ handled[b].place = Place(b)
                        /\ c.topic = "ir" /\ c.parts[4] = 1 /\ c.parts[1] \in 1..8
                             => sent[b] = <<Protocols[c.parts[1]], c.parts[2], c.parts[3]>>
                        /\ c.topic = "rc" /\ c.parts[1] \in 1..4 /\ c.parts[5] \in 0..1
                             => CASE fleet.boards[b] \in {"RC_1", "RC_1_1"} -> c.parts[4] # 1 => sent[b] = Silence
                                  [] fleet.boards[b] \in {"RC_5", "RC_6", "RC_6_USER_2"} -> sent[b] = <<"RC", c.parts>>
                                  [] OTHER -> c.parts[4] # 1 =>
                                       sent[b] = <<"RC", Listens(Owned[c.parts[1]], IF c.parts[5] = 0 THEN "0" ELSE "1")>>
  BY DEF MeantTransmitter
<1> DEFINE c == handled[b].command
           v == fleet.boards[b]
<1>1. handled[b] \in MessagesFor(b) /\ sent[b] = Uses(v, c)
  BY DEF Delivered, SentIsHandled
<1>2. handled[b].place = Place(b)
  BY <1>1 DEF MessagesFor
<1>3. v \in DOMAIN Sketch
  BY PresentBoards DEF Delivered
<1> HIDE DEF c, v
<1>4. ASSUME c.topic = "ir" /\ c.parts[4] = 1 /\ c.parts[1] \in 1..8
      PROVE  sent[b] = <<Protocols[c.parts[1]], c.parts[2], c.parts[3]>>
  BY <1>1, <1>4, SendsInfrared
<1>5. ASSUME c.topic = "rc" /\ c.parts[1] \in 1..4 /\ c.parts[5] \in 0..1
      PROVE  CASE v \in First -> c.parts[4] # 1 => sent[b] = Silence
               [] v \in ByAddress -> sent[b] = <<"RC", c.parts>>
               [] OTHER -> c.parts[4] # 1 =>
                    sent[b] = <<"RC", Listens(Owned[c.parts[1]], IF c.parts[5] = 0 THEN "0" ELSE "1")>>
  <2>1. /\ v \in ByAddress => Uses(v, c) = <<"RC", c.parts>>
        /\ v \in First /\ c.parts[4] # 1 => Uses(v, c) = Silence
        /\ v \in ForFixed /\ c.parts[4] # 1 =>
             Uses(v, c) = <<"RC", Listens(Owned[c.parts[1]], IF c.parts[5] = 0 THEN "0" ELSE "1")>>
    BY <1>3, <1>5, SwitchesOutlet
  <2>2. CASE v \in First
    <3>1. v \notin ByAddress
      BY <2>2 DEF First, ByAddress
    <3> QED BY <1>1, <2>1, <2>2, <3>1
  <2>3. CASE v \in ByAddress
    <3>1. v \notin First
      BY <2>3 DEF First, ByAddress
    <3> QED BY <1>1, <2>1, <2>3, <3>1
  <2>4. CASE v \notin First /\ v \notin ByAddress
    <3>1. v \in ForFixed
      BY <1>3, <2>4, Names
    <3> QED BY <1>1, <2>1, <2>4, <3>1
  <2> QED BY <2>2, <2>3, <2>4
<1> QED BY <1>2, <1>4, <1>5 DEF c, v, First, ByAddress

(* Whatever the boards run and are sent, a command in the format of their  *)
(* version goes to the transmitter it is meant for, and for an outlet the  *)
(* word that outlet listens to (handle_command, handle_ir, handle_rc).     *)
THEOREM AlwaysMeantTransmitter == Spec => []MeantTransmitter
BY DeliveredAlways, DeliveredMeans, PTL

-------------------------------------------------------------------------------
(* What a version does about its session *)

Loops == {<<"loop">>, <<"loop", "check">>, <<"loop or connect">>}

Common(s) ==
    /\ s.setup = <<"connect">> /\ s.announce = Announce /\ s.loop \in Loops

Is(s, server, id, room, will, on, keepsOn) ==
    /\ s.server = server /\ s.id = id /\ s.room = room
    /\ s.will = will /\ s.on = on /\ s.keepsOn = keepsOn

(* The constants of the sketches, version by version. *)
LEMMA SessionFields ==
    /\ Is(RC_1_Session, "loki", "MDArduino", "wohnzimmer", FALSE, "on", FALSE)
    /\ Is(RC_1_1_Session, "loki", "MDArduino", "wohnzimmer", FALSE, "on", FALSE)
    /\ Is(RC_2_Session, "loki", "MDArduino", "wohnzimmer", FALSE, "on", FALSE)
    /\ Is(RC_3_Session, "loki", "MDArduino", "wohnzimmer", FALSE, "on", FALSE)
    /\ Is(RC_3_WAN_Session, "david", "MDArduino", "wohnzimmer", TRUE, "on", FALSE)
    /\ Is(RC_4_Session, "loki", "MDArduino", "wohnzimmer", TRUE, "on", FALSE)
    /\ Is(RC_4_DEL_Session, "david", "MDArduino", "matthias", FALSE, "on", FALSE)
    /\ Is(RC_4_1_Session, "loki", "MDArduino", "wohnzimmer", TRUE, "on NUL", TRUE)
    /\ Is(RC_5_Session, "loki", "MDArduino", "wohnzimmer", TRUE, "on", FALSE)
    /\ Is(RC_6_Session(1), "david", "MLArduino", "matthias", TRUE, "on", FALSE)
    /\ Is(RC_6_Session(2), "david", "DArduino", "wohnzimmer", TRUE, "on", FALSE)
BY DEF RC_1_Session, RC_1_1_Session, RC_2_Session, RC_3_Session, RC_3_WAN_Session, RC_4_Session,
       RC_4_DEL_Session, RC_4_1_Session, RC_5_Session, RC_6_Session, Is

(* setup(), startmqtt() and loop() of the versions. *)
LEMMA SessionScripts ==
    /\ Common(RC_1_Session) /\ Common(RC_1_1_Session) /\ Common(RC_2_Session) /\ Common(RC_3_Session)
    /\ Common(RC_3_WAN_Session) /\ Common(RC_4_Session) /\ Common(RC_4_DEL_Session) /\ Common(RC_4_1_Session)
    /\ Common(RC_5_Session) /\ Common(RC_6_Session(1)) /\ Common(RC_6_Session(2))
BY DEF RC_1_Session, RC_1_1_Session, RC_2_Session, RC_3_Session, RC_3_WAN_Session, RC_4_Session,
       RC_4_DEL_Session, RC_4_1_Session, RC_5_Session, RC_6_Session, Common, Loops

(* The session of each version. *)
LEMMA SessionOf ==
    /\ Sketch["RC_1"].session = RC_1_Session /\ Sketch["RC_1_1"].session = RC_1_1_Session
    /\ Sketch["RC_2"].session = RC_2_Session /\ Sketch["RC_3"].session = RC_3_Session
    /\ Sketch["RC_3_WAN"].session = RC_3_WAN_Session /\ Sketch["RC_4"].session = RC_4_Session
    /\ Sketch["RC_4_DEL"].session = RC_4_DEL_Session /\ Sketch["RC_4_1"].session = RC_4_1_Session
    /\ Sketch["RC_5"].session = RC_5_Session /\ Sketch["RC_6"].session = RC_6_Session(1)
    /\ Sketch["RC_6_USER_2"].session = RC_6_Session(2)
BY VersionFields, Versions

(* All versions connect in setup() and announce themselves alike. *)
LEMMA CommonScripts ==
    \A v \in DOMAIN Sketch : Common(Sketch[v].session) /\ Sketch[v].receives.callback = EchoFirst
<1> SUFFICES ASSUME NEW v \in DOMAIN Sketch
             PROVE  Common(Sketch[v].session) /\ Sketch[v].receives.callback = EchoFirst
  OBVIOUS
<1>1. v \in First \cup ForFixed \cup ByAddress
  BY Names
<1>2. Common(Sketch[v].session)
  BY <1>1, SessionOf, SessionScripts DEF First, ForFixed, ByAddress
<1>3. /\ RC_1_Receives.callback = EchoFirst /\ RC_1_1_Receives.callback = EchoFirst
      /\ RC_2_Receives.callback = EchoFirst /\ RC_3_Receives.callback = EchoFirst
      /\ RC_3_WAN_Receives.callback = EchoFirst /\ RC_4_Receives.callback = EchoFirst
      /\ RC_4_DEL_Receives.callback = EchoFirst /\ RC_4_1_Receives.callback = EchoFirst
      /\ RC_5_Receives.callback = EchoFirst /\ RC_6_Receives.callback = EchoFirst
  BY DEF RC_1_Receives, RC_1_1_Receives, RC_2_Receives, RC_3_Receives, RC_3_WAN_Receives, RC_4_Receives,
         RC_4_DEL_Receives, RC_4_1_Receives, RC_5_Receives, RC_6_Receives
<1>4. Sketch[v].receives.callback = EchoFirst
  BY <1>1, <1>3, Parts DEF First, ForFixed, ByAddress
<1> QED BY <1>2, <1>4

(* Every version has a place, and the ones with the server loki are one    *)
(* client.                                                                 *)
AtHome(s) ==
    /\ s.server = "loki" \/ s.server = "david"
    /\ s.room = "wohnzimmer" \/ s.room = "matthias"
    /\ s.server = "loki" => s.id = "MDArduino"

(* Every version is at home on one of the brokers. *)
LEMMA Homes == \A v \in DOMAIN Sketch : AtHome(Sketch[v].session)
<1>1. /\ AtHome(RC_1_Session) /\ AtHome(RC_1_1_Session) /\ AtHome(RC_2_Session) /\ AtHome(RC_3_Session)
      /\ AtHome(RC_3_WAN_Session) /\ AtHome(RC_4_Session) /\ AtHome(RC_4_DEL_Session)
      /\ AtHome(RC_4_1_Session) /\ AtHome(RC_5_Session) /\ AtHome(RC_6_Session(1)) /\ AtHome(RC_6_Session(2))
  BY SessionFields DEF Is, AtHome
<1> QED BY <1>1, Names, SessionOf DEF First, ForFixed, ByAddress

(* The place of a version is one of the places. *)
LEMMA PlacesOf ==
    \A v \in DOMAIN Sketch : <<Sketch[v].session.server, Sketch[v].session.room>> \in Places
<1> SUFFICES ASSUME NEW v \in DOMAIN Sketch
             PROVE  <<Sketch[v].session.server, Sketch[v].session.room>> \in Places
  OBVIOUS
<1>1. \A s : AtHome(s) => <<s.server, s.room>> \in Places
  BY DEF AtHome, Places
<1> QED BY <1>1, Homes

-------------------------------------------------------------------------------
(* The scripts of the sketches *)

(* A pair and one element make a triple. *)
LEMMA Concat12 == ASSUME NEW x, NEW y, NEW z PROVE <<x, y>> \o <<z>> = <<x, y, z>>
<1> DEFINE s == <<x, y>> \o <<z>>
           t == <<x, y, z>>
           S == {x, y, z}
<1>1. s \in Seq(S) /\ Len(s) = 3 /\ s[1] = x /\ s[2] = y /\ s[3] = z
  OBVIOUS
<1>2. t \in Seq(S) /\ Len(t) = 3 /\ t[1] = x /\ t[2] = y /\ t[3] = z
  OBVIOUS
<1> HIDE DEF s, t
<1>3. \A i \in 1..Len(s) : s[i] = t[i]
  BY <1>1, <1>2
<1> QED BY <1>1, <1>2, <1>3, SeqEqual DEF s, t

Scripts ==
    {<<"connect">>, <<"status", "ir", "rc">>, <<"ir", "rc">>, <<"rc">>,
     <<"loop">>, <<"loop", "check">>, <<"loop or connect">>, <<"check">>,
     <<"echo", "handle">>, <<"echo", "handle", "check">>, <<"handle">>, <<"handle", "check">>}

(* Head and tail of every script. *)
LEMMA Tails ==
    /\ Head(<<"connect">>) = "connect" /\ Tail(<<"connect">>) = <<>>
    /\ Head(<<"status", "ir", "rc">>) = "status" /\ Tail(<<"status", "ir", "rc">>) = <<"ir", "rc">>
    /\ Head(<<"ir", "rc">>) = "ir" /\ Tail(<<"ir", "rc">>) = <<"rc">>
    /\ Head(<<"rc">>) = "rc" /\ Tail(<<"rc">>) = <<>>
    /\ Head(<<"loop">>) = "loop" /\ Tail(<<"loop">>) = <<>>
    /\ Head(<<"loop", "check">>) = "loop" /\ Tail(<<"loop", "check">>) = <<"check">>
    /\ Head(<<"loop or connect">>) = "loop or connect" /\ Tail(<<"loop or connect">>) = <<>>
    /\ Head(<<"check">>) = "check" /\ Tail(<<"check">>) = <<>>
    /\ Head(<<"echo", "handle">>) = "echo" /\ Tail(<<"echo", "handle">>) = <<"handle">>
    /\ Head(<<"echo", "handle", "check">>) = "echo"
    /\ Tail(<<"echo", "handle", "check">>) = <<"handle", "check">>
    /\ Head(<<"handle">>) = "handle" /\ Tail(<<"handle">>) = <<>>
    /\ Head(<<"handle", "check">>) = "handle" /\ Tail(<<"handle", "check">>) = <<"check">>
  OBVIOUS
Shape(s) ==
    /\ s # <<>>
    /\ Head(s) \in {"connect", "rc", "loop or connect", "check"} => Tail(s) = <<>>
    /\ Head(s) = "connect" => s = <<"connect">>
    /\ Head(s) = "status" => s = <<"status", "ir", "rc">> /\ Tail(s) = <<"ir", "rc">>
    /\ Head(s) = "ir" => Tail(s) = <<"rc">>
    /\ Head(s) \in {"loop", "handle"} => Tail(s) \in {<<>>, <<"check">>}
    /\ Head(s) = "echo" => Tail(s) \in {<<"handle">>, <<"handle", "check">>}

(* What the head of a script says of its tail. *)
LEMMA Shapes == \A s \in Scripts : Shape(s)
<1> SUFFICES ASSUME NEW s \in Scripts PROVE Shape(s)
  OBVIOUS
<1>0. \A x, y, z : <<x>> # <<>> /\ <<x, y>> # <<>> /\ <<x, y, z>> # <<>>
  OBVIOUS
<1>1. CASE s = <<"connect">>
  BY <1>0, <1>1, Tails DEF Shape
<1>2. CASE s = <<"status", "ir", "rc">>
  BY <1>0, <1>2, Tails DEF Shape
<1>3. CASE s = <<"ir", "rc">>
  BY <1>0, <1>3, Tails DEF Shape
<1>4. CASE s = <<"rc">>
  BY <1>0, <1>4, Tails DEF Shape
<1>5. CASE s = <<"loop">>
  BY <1>0, <1>5, Tails DEF Shape
<1>6. CASE s = <<"loop", "check">>
  BY <1>0, <1>6, Tails DEF Shape
<1>7. CASE s = <<"loop or connect">>
  BY <1>0, <1>7, Tails DEF Shape
<1>8. CASE s = <<"check">>
  BY <1>0, <1>8, Tails DEF Shape
<1>9. CASE s = <<"echo", "handle">>
  BY <1>0, <1>9, Tails DEF Shape
<1>10. CASE s = <<"echo", "handle", "check">>
  BY <1>0, <1>10, Tails DEF Shape
<1>11. CASE s = <<"handle">>
  BY <1>0, <1>11, Tails DEF Shape
<1>12. CASE s = <<"handle", "check">>
  BY <1>0, <1>12, Tails DEF Shape
<1> QED BY <1>1, <1>2, <1>3, <1>4, <1>5, <1>6, <1>7, <1>8, <1>9, <1>10, <1>11, <1>12 DEF Scripts

Handling == {<<"echo", "handle">>, <<"echo", "handle", "check">>, <<"handle">>, <<"handle", "check">>}

(* A board is at a place of its scripts, and is at work on a message       *)
(* exactly between reading and handling it.                                *)
Scripted ==
    /\ Delivered
    /\ DOMAIN todo = Boards
    /\ \A b \in Present : todo[b] \in Scripts /\ (current[b] # None <=> todo[b] \in Handling)

(* The scripts the actions begin with are among the scripts. *)
LEMMA LoopsAreScripts ==
    /\ Loops \subseteq Scripts /\ Announce \in Scripts /\ <<"connect">> \in Scripts
    /\ Handling \subseteq Scripts /\ <<"check">> \in Scripts
BY DEF Loops, Scripts, Announce, Handling

(* No message is at work in setup(), startmqtt() and loop(). *)
LEMMA NotHandling ==
    /\ \A t \in Loops : t \notin Handling
    /\ Announce \notin Handling /\ <<"connect">> \notin Handling /\ <<"check">> \notin Handling
    /\ <<"ir", "rc">> \notin Handling /\ <<"rc">> \notin Handling
<1>1. \A t \in Handling : Head(t) \in {"echo", "handle"}
  BY Tails DEF Handling
<1>2. \A t \in Loops : Head(t) \notin {"echo", "handle"}
  BY Tails DEF Loops
<1>3. /\ Head(Announce) \notin {"echo", "handle"} /\ Head(<<"connect">>) \notin {"echo", "handle"}
      /\ Head(<<"check">>) \notin {"echo", "handle"} /\ Head(<<"ir", "rc">>) \notin {"echo", "handle"}
      /\ Head(<<"rc">>) \notin {"echo", "handle"}
  BY Tails DEF Announce
<1> QED BY <1>1, <1>2, <1>3

(* A message is at work exactly before its echo or its handling. *)
LEMMA HandlingHeads ==
    \A t \in Scripts : t \in Handling <=> Head(t) \in {"echo", "handle"}
<1> SUFFICES ASSUME NEW t \in Scripts PROVE t \in Handling <=> Head(t) \in {"echo", "handle"}
  OBVIOUS
<1>1. CASE t \in Handling
  BY <1>1, Tails DEF Handling
<1>2. CASE t \notin Handling
  <2>1. t \in {<<"connect">>, <<"status", "ir", "rc">>, <<"ir", "rc">>, <<"rc">>,
               <<"loop">>, <<"loop", "check">>, <<"loop or connect">>, <<"check">>}
    BY <1>2 DEF Scripts, Handling
  <2>2. Head(t) \in {"connect", "status", "ir", "rc", "loop", "loop or connect", "check"}
    BY <2>1, Tails
  <2> QED BY <1>2, <2>2
<1> QED BY <1>1, <1>2

(* What a board does after a step. *)
LEMMA AfterStep ==
    ASSUME Scripted, NEW b \in Present, NEW script, Then(b, script)
    PROVE  /\ DOMAIN todo' = Boards
           /\ \A c \in Boards \ {b} : todo'[c] = todo[c]
           /\ todo'[b] = IF script \o Tail(todo[b]) = <<>> THEN Of(b).session.loop ELSE script \o Tail(todo[b])
<1> DEFINE rest == script \o Tail(todo[b])
<1>1. b \in Boards
  BY PresentBoards DEF Scripted, Delivered
<1>2. todo' = [todo EXCEPT ![b] = IF rest = <<>> THEN Of(b).session.loop ELSE rest]
  BY DEF Then
<1> HIDE DEF rest
<1>3. /\ DOMAIN todo' = Boards
      /\ \A c \in Boards \ {b} : todo'[c] = todo[c]
      /\ todo'[b] = IF rest = <<>> THEN Of(b).session.loop ELSE rest
  BY <1>1, <1>2 DEF Scripted
<1> QED BY <1>3 DEF rest

(* The scripts of a board. *)
LEMMA OwnScripts ==
    ASSUME fleet \in Fleets, NEW b \in Present
    PROVE  /\ Of(b).session.loop \in Loops /\ Of(b).session.announce = Announce
           /\ Of(b).session.setup = <<"connect">> /\ Of(b).receives.callback = EchoFirst
<1>1. fleet.boards[b] \in DOMAIN Sketch
  BY PresentBoards
<1> QED BY <1>1, CommonScripts DEF Of, Common

(* A step with no script of its own goes on with what is left.             *)
LEMMA AfterPlainStep ==
    ASSUME Scripted, NEW b \in Present, Then(b, <<>>)
    PROVE  /\ DOMAIN todo' = Boards
           /\ \A c \in Boards \ {b} : todo'[c] = todo[c]
           /\ Head(todo[b]) \in {"connect", "rc", "loop or connect", "check"} => todo'[b] \in Loops
           /\ Head(todo[b]) = "status" => todo'[b] = <<"ir", "rc">>
           /\ Head(todo[b]) = "ir" => todo'[b] = <<"rc">>
           /\ Head(todo[b]) \in {"loop", "handle"} => todo'[b] \in Loops \cup {<<"check">>}
           /\ Head(todo[b]) = "echo" => todo'[b] \in {<<"handle">>, <<"handle", "check">>}
<1>1. /\ DOMAIN todo' = Boards /\ \A c \in Boards \ {b} : todo'[c] = todo[c]
      /\ todo'[b] = IF <<>> \o Tail(todo[b]) = <<>> THEN Of(b).session.loop ELSE <<>> \o Tail(todo[b])
  BY AfterStep
<1>2. Of(b).session.loop \in Loops
  BY OwnScripts DEF Scripted, Delivered
<1>3. Shape(todo[b])
  BY Shapes DEF Scripted
<1>4. /\ <<>> \o <<>> = <<>> /\ <<>> \o <<"check">> = <<"check">> /\ <<>> \o <<"ir", "rc">> = <<"ir", "rc">>
      /\ <<>> \o <<"rc">> = <<"rc">> /\ <<>> \o <<"handle">> = <<"handle">>
      /\ <<>> \o <<"handle", "check">> = <<"handle", "check">>
  OBVIOUS
<1>5. \A x, y : <<x>> # <<>> /\ <<x, y>> # <<>>
  OBVIOUS
<1>6. Head(todo[b]) \in {"connect", "rc", "loop or connect", "check"} => todo'[b] \in Loops
  BY <1>1, <1>2, <1>3, <1>4 DEF Shape
<1>7. Head(todo[b]) = "status" => todo'[b] = <<"ir", "rc">>
  BY <1>1, <1>3, <1>4, <1>5 DEF Shape
<1>8. Head(todo[b]) = "ir" => todo'[b] = <<"rc">>
  BY <1>1, <1>3, <1>4, <1>5 DEF Shape
<1>9. Head(todo[b]) \in {"loop", "handle"} => todo'[b] \in Loops \cup {<<"check">>}
  BY <1>1, <1>2, <1>3, <1>4, <1>5 DEF Shape
<1>10. Head(todo[b]) = "echo" => todo'[b] \in {<<"handle">>, <<"handle", "check">>}
  BY <1>1, <1>3, <1>4, <1>5 DEF Shape
<1> QED BY <1>1, <1>6, <1>7, <1>8, <1>9, <1>10

(* A connection that is there is announced; one that is not is made.       *)
LEMMA AfterConnects ==
    ASSUME Scripted, NEW b \in Present, At(b, "connect"), Then(b, Of(b).session.announce)
    PROVE  /\ DOMAIN todo' = Boards
           /\ \A c \in Boards \ {b} : todo'[c] = todo[c]
           /\ todo'[b] = Announce
<1>1. Of(b).session.announce = Announce
  BY OwnScripts DEF Scripted, Delivered
<1>2. Tail(todo[b]) = <<>>
  BY Shapes DEF Scripted, Shape, At
<1>3. Announce \o <<>> = Announce /\ Announce # <<>>
  BY DEF Announce
<1> QED BY <1>1, <1>2, <1>3, AfterStep

(* Nothing is left behind a single step. *)
LEMMA ConcatSingle == ASSUME NEW x PROVE <<x>> \o <<>> = <<x>>
OBVIOUS

(* startmqtt() is all that is left when the connection was lost. *)
LEMMA BackToConnect ==
    ASSUME Scripted, NEW b \in Present, At(b, "loop or connect") \/ At(b, "check"), Then(b, <<"connect">>)
    PROVE  /\ DOMAIN todo' = Boards
           /\ \A c \in Boards \ {b} : todo'[c] = todo[c]
           /\ todo'[b] = <<"connect">>
<1>1. Tail(todo[b]) = <<>>
  BY Shapes DEF Scripted, Shape, At
<1>2. \A x : <<x>> # <<>>
  OBVIOUS
<1>3. <<"connect">> \o <<>> = <<"connect">>
  BY ConcatSingle
<1> QED BY <1>1, <1>2, <1>3, AfterStep

(* callback() is called for a message read, then the rest of loop(). *)
LEMMA AfterReads ==
    ASSUME Scripted, NEW b \in Present, Looping(b), Then(b, Of(b).receives.callback)
    PROVE  /\ DOMAIN todo' = Boards
           /\ \A c \in Boards \ {b} : todo'[c] = todo[c]
           /\ todo'[b] \in {<<"echo", "handle">>, <<"echo", "handle", "check">>}
<1>1. Of(b).receives.callback = EchoFirst
  BY OwnScripts DEF Scripted, Delivered
<1>2. Tail(todo[b]) \in {<<>>, <<"check">>}
  BY Shapes DEF Scripted, Shape, At, Looping
<1>3. /\ EchoFirst \o <<>> = <<"echo", "handle">>
      /\ EchoFirst \o <<"check">> = <<"echo", "handle", "check">>
  BY Concat12 DEF EchoFirst
<1>4. \A x, y, z : <<x, y>> # <<>> /\ <<x, y, z>> # <<>>
  OBVIOUS
<1>5. EchoFirst \o Tail(todo[b]) \in {<<"echo", "handle">>, <<"echo", "handle", "check">>}
  BY <1>2, <1>3
<1>6. EchoFirst \o Tail(todo[b]) # <<>>
  BY <1>4, <1>5
<1> HIDE DEF EchoFirst
<1>7. /\ DOMAIN todo' = Boards /\ \A c \in Boards \ {b} : todo'[c] = todo[c]
      /\ todo'[b] = IF EchoFirst \o Tail(todo[b]) = <<>> THEN Of(b).session.loop ELSE EchoFirst \o Tail(todo[b])
  BY <1>1, AfterStep
<1> QED BY <1>5, <1>6, <1>7

(* The messages of a room are messages, and not None. *)
LEMMA MessagesAreMessages ==
    ASSUME fleet \in Fleets, NEW b \in Present
    PROVE  MessagesFor(b) \subseteq Messages /\ None \notin MessagesFor(b)
<1>1. fleet.commands \subseteq Commands
  BY DEF Commands
<1>2. Place(b) \in Places
  BY PresentBoards, PlacesOf DEF Place, Of
<1>3. MessagesFor(b) \subseteq Messages
  BY <1>1, <1>2 DEF MessagesFor, Messages
<1> QED BY <1>3, NoneAssumption

(* A step of b, as far as scripts go. *)
LEMMA StepScripted ==
    ASSUME Scripted, Delivered', fleet' = fleet, NEW b \in Present, DOMAIN todo' = Boards,
           \A c \in Boards \ {b} : todo'[c] = todo[c] /\ current'[c] = current[c],
           todo'[b] \in Scripts, current'[b] # None <=> todo'[b] \in Handling
    PROVE  Scripted'
<1>1. Present' = Present /\ Present \subseteq Boards
  BY Unchanged, PresentBoards DEF Scripted, Delivered
<1>2. ASSUME NEW c \in Present PROVE todo'[c] \in Scripts /\ (current'[c] # None <=> todo'[c] \in Handling)
  <2>1. CASE c = b
    BY <2>1
  <2>2. CASE c # b
    BY <1>1, <2>2 DEF Scripted
  <2> QED BY <2>1, <2>2
<1> QED BY <1>1, <1>2 DEF Scripted

(* A step of b that is not about a message. *)
LEMMA IdleScripted ==
    ASSUME Scripted, Delivered', fleet' = fleet, NEW b \in Present, DOMAIN todo' = Boards,
           \A c \in Boards \ {b} : todo'[c] = todo[c], UNCHANGED current,
           todo'[b] \in Scripts, todo[b] \notin Handling, todo'[b] \notin Handling
    PROVE  Scripted'
<1>1. current'[b] # None <=> todo'[b] \in Handling
  BY DEF Scripted
<1> QED BY <1>1, StepScripted

(* A step that is nobody's leaves all boards where they are. *)
LEMMA WaitingScripted ==
    ASSUME Scripted, Delivered', UNCHANGED <<fleet, todo, current>>
    PROVE  Scripted'
BY Unchanged DEF Scripted

(* Every board begins with setup(). *)
LEMMA InitScripted == Init => Scripted
<1> SUFFICES ASSUME Init PROVE Scripted
  OBVIOUS
<1>1. Delivered /\ Present \subseteq Boards
  BY InitDelivered, PresentBoards DEF Delivered
<1>2. DOMAIN todo = Boards
  BY DEF Init
<1>3. ASSUME NEW b \in Present PROVE todo[b] \in Scripts /\ (current[b] # None <=> todo[b] \in Handling)
  <2>1. todo[b] = <<"connect">> /\ current[b] = None
    BY <1>1, OwnScripts DEF Init
  <2> QED BY <2>1, LoopsAreScripts, NotHandling
<1> QED BY <1>1, <1>2, <1>3 DEF Scripted

(* Every step goes on in the scripts. *)
LEMMA NextScripted == Scripted /\ [Next]_vars => Scripted'
<1> SUFFICES ASSUME Scripted, [Next]_vars PROVE Scripted'
  OBVIOUS
<1>d. Delivered' /\ Delivered
  BY NextDelivered DEF Scripted
<1>p. Present \subseteq Boards
  BY <1>d, PresentBoards DEF Delivered
<1>h. ASSUME NEW b \in Present PROVE todo[b] \in Scripts /\ (todo[b] \in Handling <=> Head(todo[b]) \in {"echo", "handle"})
  BY HandlingHeads DEF Scripted
<1>n. <<"check">> \in Scripts /\ <<"ir", "rc">> \in Scripts /\ <<"rc">> \in Scripts
  BY DEF Scripts
<1> USE LoopsAreScripts, NotHandling
<1>1. ASSUME NEW b \in Boards, ConnectFails(b) PROVE Scripted'
  <2>1. b \in Present /\ Head(todo[b]) = "connect" /\ Then(b, <<>>) /\ UNCHANGED <<fleet, current>>
    BY <1>1 DEF ConnectFails, At
  <2>2. todo'[b] \in Loops /\ DOMAIN todo' = Boards /\ \A c \in Boards \ {b} : todo'[c] = todo[c]
    BY <2>1, AfterPlainStep
  <2> QED BY <1>d, <1>h, <2>1, <2>2, IdleScripted
<1>2. ASSUME NEW b \in Boards, Connects(b) PROVE Scripted'
  <2>1. /\ b \in Present /\ At(b, "connect") /\ Head(todo[b]) = "connect"
        /\ Then(b, Of(b).session.announce) /\ UNCHANGED <<fleet, current>>
    BY <1>2 DEF Connects, At
  <2>2. todo'[b] = Announce /\ DOMAIN todo' = Boards /\ \A c \in Boards \ {b} : todo'[c] = todo[c]
    BY <2>1, AfterConnects
  <2> QED BY <1>d, <1>h, <2>1, <2>2, IdleScripted
<1>3. ASSUME NEW b \in Boards, AnnouncesStatus(b) PROVE Scripted'
  <2>1. b \in Present /\ Head(todo[b]) = "status" /\ Then(b, <<>>) /\ UNCHANGED <<fleet, current>>
    BY <1>3 DEF AnnouncesStatus, At
  <2>2. todo'[b] = <<"ir", "rc">> /\ DOMAIN todo' = Boards /\ \A c \in Boards \ {b} : todo'[c] = todo[c]
    BY <2>1, AfterPlainStep
  <2> QED BY <1>d, <1>h, <1>n, <2>1, <2>2, IdleScripted
<1>4. ASSUME NEW b \in Boards, Subscribes(b, "ir") PROVE Scripted'
  <2>1. b \in Present /\ Head(todo[b]) = "ir" /\ Then(b, <<>>) /\ UNCHANGED <<fleet, current>>
    BY <1>4 DEF Subscribes, At
  <2>2. todo'[b] = <<"rc">> /\ DOMAIN todo' = Boards /\ \A c \in Boards \ {b} : todo'[c] = todo[c]
    BY <2>1, AfterPlainStep
  <2> QED BY <1>d, <1>h, <1>n, <2>1, <2>2, IdleScripted
<1>5. ASSUME NEW b \in Boards, Subscribes(b, "rc") PROVE Scripted'
  <2>1. b \in Present /\ Head(todo[b]) = "rc" /\ Then(b, <<>>) /\ UNCHANGED <<fleet, current>>
    BY <1>5 DEF Subscribes, At
  <2>2. todo'[b] \in Loops /\ DOMAIN todo' = Boards /\ \A c \in Boards \ {b} : todo'[c] = todo[c]
    BY <2>1, AfterPlainStep
  <2> QED BY <1>d, <1>h, <2>1, <2>2, IdleScripted
<1>6. ASSUME NEW b \in Boards, Reads(b) PROVE Scripted'
  <2>1. /\ b \in Present /\ Looping(b) /\ rx[b] # <<>> /\ Then(b, Of(b).receives.callback)
        /\ current' = [current EXCEPT ![b] = Head(rx[b])] /\ UNCHANGED fleet
    BY <1>6 DEF Reads, Looping, At
  <2>2. /\ todo'[b] \in {<<"echo", "handle">>, <<"echo", "handle", "check">>}
        /\ DOMAIN todo' = Boards /\ \A c \in Boards \ {b} : todo'[c] = todo[c]
    BY <2>1, AfterReads
  <2>3. current'[b] # None
    <3>1. rx[b] \in Seq(MessagesFor(b))
      BY <1>d, <2>1 DEF Delivered
    <3>2. Head(rx[b]) \in MessagesFor(b)
      BY <2>1, <3>1
    <3>3. current'[b] = Head(rx[b])
      BY <1>d, <1>p, <2>1 DEF Delivered
    <3> QED BY <1>d, <2>1, <3>2, <3>3, MessagesAreMessages DEF Delivered
  <2>4. todo'[b] \in Handling /\ todo'[b] \in Scripts
    BY <2>2 DEF Handling
  <2>5. \A c \in Boards \ {b} : current'[c] = current[c]
    BY <1>d, <2>1 DEF Delivered
  <2> QED BY <1>d, <2>1, <2>2, <2>3, <2>4, <2>5, StepScripted
<1>7. ASSUME NEW b \in Boards, Idles(b) PROVE Scripted'
  <2>1. b \in Present /\ Head(todo[b]) \in {"loop", "loop or connect"} /\ Then(b, <<>>) /\ UNCHANGED <<fleet, current>>
    BY <1>7 DEF Idles, Looping, At
  <2>2. todo'[b] \in Loops \cup {<<"check">>} /\ DOMAIN todo' = Boards /\ \A c \in Boards \ {b} : todo'[c] = todo[c]
    BY <2>1, AfterPlainStep
  <2> QED BY <1>d, <1>h, <1>n, <2>1, <2>2, IdleScripted
<1>8. ASSUME NEW b \in Boards, FindsGone(b) PROVE Scripted'
  <2>1. b \in Present /\ Head(todo[b]) \in {"loop", "loop or connect"} /\ UNCHANGED <<fleet, current>>
    BY <1>8 DEF FindsGone, Looping, At
  <2>2. CASE At(b, "loop or connect")
    <3>1. Then(b, <<"connect">>)
      BY <1>8, <2>2 DEF FindsGone
    <3>2. todo'[b] = <<"connect">> /\ DOMAIN todo' = Boards /\ \A c \in Boards \ {b} : todo'[c] = todo[c]
      BY <2>1, <2>2, <3>1, BackToConnect
    <3> QED BY <1>d, <1>h, <2>1, <3>2, IdleScripted
  <2>3. CASE ~At(b, "loop or connect")
    <3>1. Then(b, <<>>)
      BY <1>8, <2>3 DEF FindsGone
    <3>2. todo'[b] \in Loops \cup {<<"check">>} /\ DOMAIN todo' = Boards /\ \A c \in Boards \ {b} : todo'[c] = todo[c]
      BY <2>1, <3>1, AfterPlainStep
    <3> QED BY <1>d, <1>h, <1>n, <2>1, <3>2, IdleScripted
  <2> QED BY <2>2, <2>3
<1>9. ASSUME NEW b \in Boards, Checks(b) PROVE Scripted'
  <2>1. b \in Present /\ At(b, "check") /\ Head(todo[b]) = "check" /\ UNCHANGED <<fleet, current>>
    BY <1>9 DEF Checks, At
  <2>2. Then(b, <<>>) \/ Then(b, <<"connect">>)
    BY <1>9 DEF Checks
  <2>3. /\ todo'[b] \in Loops \/ todo'[b] = <<"connect">>
        /\ DOMAIN todo' = Boards /\ \A c \in Boards \ {b} : todo'[c] = todo[c]
    BY <2>1, <2>2, AfterPlainStep, BackToConnect
  <2> QED BY <1>d, <1>h, <2>1, <2>3, IdleScripted
<1>10. ASSUME NEW b \in Boards, Echoes(b) PROVE Scripted'
  <2>1. b \in Present /\ Head(todo[b]) = "echo" /\ Then(b, <<>>) /\ UNCHANGED <<fleet, current>>
    BY <1>10 DEF Echoes, At
  <2>2. /\ todo'[b] \in {<<"handle">>, <<"handle", "check">>}
        /\ DOMAIN todo' = Boards /\ \A c \in Boards \ {b} : todo'[c] = todo[c]
    BY <2>1, AfterPlainStep
  <2>3. current'[b] # None /\ todo'[b] \in Handling
    BY <1>h, <2>1, <2>2 DEF Scripted, Handling
  <2> QED BY <1>d, <2>1, <2>2, <2>3, StepScripted
<1>11. ASSUME NEW b \in Boards, Handles(b) PROVE Scripted'
  <2>1. /\ b \in Present /\ Head(todo[b]) = "handle" /\ Then(b, <<>>)
        /\ current' = [current EXCEPT ![b] = None] /\ UNCHANGED fleet
    BY <1>11 DEF Handles, At
  <2>2. todo'[b] \in Loops \cup {<<"check">>} /\ DOMAIN todo' = Boards /\ \A c \in Boards \ {b} : todo'[c] = todo[c]
    BY <2>1, AfterPlainStep
  <2>3. current'[b] = None /\ \A c \in Boards \ {b} : current'[c] = current[c]
    BY <1>d, <2>1 DEF Delivered
  <2>4. todo'[b] \in Scripts /\ todo'[b] \notin Handling
    BY <1>n, <2>2
  <2> QED BY <1>d, <2>1, <2>2, <2>3, <2>4, StepScripted
<1>12. ASSUME NEW b \in Boards, Reset(b) PROVE Scripted'
  <2>1. /\ b \in Present /\ todo' = [todo EXCEPT ![b] = Of(b).session.setup]
        /\ current' = [current EXCEPT ![b] = None] /\ UNCHANGED fleet
    BY <1>12 DEF Reset
  <2>2. Of(b).session.setup = <<"connect">>
    BY <1>d, <2>1, OwnScripts DEF Delivered
  <2>3. todo'[b] = <<"connect">> /\ DOMAIN todo' = Boards /\ \A c \in Boards \ {b} : todo'[c] = todo[c]
    BY <2>1, <2>2 DEF Scripted
  <2>4. current'[b] = None /\ \A c \in Boards \ {b} : current'[c] = current[c]
    BY <1>d, <2>1 DEF Delivered
  <2> QED BY <1>d, <2>1, <2>3, <2>4, StepScripted
<1>13. CASE UNCHANGED <<fleet, todo, current>>
  BY <1>d, <1>13, WaitingScripted
<1>14. CASE \E b \in Boards : BrokerDetects(b) \/ LinkBreaks(b) \/ BrokerCloses(b)
  BY <1>13, <1>14 DEF BrokerDetects, LinkBreaks, BrokerCloses, board
<1>15. CASE \E c \in fleet.commands : UserPublishes(c)
  BY <1>13, <1>15 DEF UserPublishes
<1>16. CASE UNCHANGED vars
  BY <1>13, <1>16 DEF vars
<1> QED BY <1>1, <1>2, <1>3, <1>4, <1>5, <1>6, <1>7, <1>8, <1>9, <1>10, <1>11, <1>12, <1>14, <1>15, <1>16
        DEF Next, Step

(* Every board is always at a place of its scripts. *)
LEMMA ScriptedAlways == Spec => []Scripted
<1>1. Init => Scripted
  BY InitScripted
<1>2. Scripted /\ [Next]_vars => Scripted'
  BY NextScripted
<1> QED BY <1>1, <1>2, PTL DEF Spec

-------------------------------------------------------------------------------
(* Connections and sessions *)

(* The steps of the scripts. *)
LEMMA Heads ==
    \A t \in Scripts : Head(t) \in {"connect", "status", "ir", "rc", "loop", "loop or connect", "check", "echo", "handle"}
BY Tails DEF Scripts

(* Only setup() and a lost connection lead to connect(). *)
LEMMA NotConnect ==
    /\ \A t \in Loops \cup Handling : t # <<"connect">>
    /\ Announce # <<"connect">> /\ <<"ir", "rc">> # <<"connect">>
    /\ <<"rc">> # <<"connect">> /\ <<"check">> # <<"connect">>
<1>1. \A t \in Loops \cup Handling : Head(t) # "connect"
  BY Tails DEF Loops, Handling
<1>2. /\ Head(Announce) # "connect" /\ Head(<<"ir", "rc">>) # "connect"
      /\ Head(<<"rc">>) # "connect" /\ Head(<<"check">>) # "connect"
  BY Tails DEF Announce
<1>3. Head(<<"connect">>) = "connect"
  BY Tails
<1> QED BY <1>1, <1>2, <1>3

(* A step with no script of its own does not lead to connect(). *)
LEMMA GoesOn ==
    ASSUME Scripted, NEW b \in Present, Then(b, <<>>)
    PROVE  /\ \A c \in Boards \ {b} : todo'[c] = todo[c]
           /\ todo'[b] # <<"connect">>
<1>1. Head(todo[b]) \in {"connect", "status", "ir", "rc", "loop", "loop or connect", "check", "echo", "handle"}
  BY Heads DEF Scripted
<1>2. todo'[b] \in Loops \cup Handling \cup {<<"ir", "rc">>, <<"rc">>, <<"check">>}
  BY <1>1, AfterPlainStep DEF Handling
<1> QED BY <1>2, NotConnect, AfterPlainStep

(* Nor does reading a message. *)
LEMMA ReadsOn ==
    ASSUME Scripted, NEW b \in Present, Looping(b), Then(b, Of(b).receives.callback)
    PROVE  /\ \A c \in Boards \ {b} : todo'[c] = todo[c]
           /\ todo'[b] # <<"connect">>
<1>1. todo'[b] \in Handling
  BY AfterReads DEF Handling
<1> QED BY <1>1, NotConnect, AfterReads

(* A connection that is up has a session, a client has at most one, and    *)
(* boards that are not there have none.                                    *)
Linked ==
    /\ Scripted
    /\ DOMAIN link = Boards /\ DOMAIN session = Boards /\ DOMAIN subs = Boards
    /\ \A b \in Boards \ Present : link[b] = "none" /\ session[b] = "none"
    /\ \A b \in Present : link[b] = "up" => session[b] = "live" /\ todo[b] # <<"connect">>
    /\ \A b, c \in Present : SameClient(b, c) /\ session[b] # "none" /\ session[c] # "none" => b = c

(* The boards of a fleet, their versions and places. *)
LEMMA LinkedPresent ==
    ASSUME Linked
    PROVE  /\ fleet \in Fleets /\ Present \subseteq Boards
           /\ \A b \in Present : fleet.boards[b] \in DOMAIN Sketch /\ Place(b) \in Places
<1>1. fleet \in Fleets /\ Present \subseteq Boards /\ \A b \in Present : fleet.boards[b] \in DOMAIN Sketch
  BY PresentBoards DEF Linked, Scripted, Delivered
<1> QED BY <1>1, PlacesOf DEF Place, Of

(* Which boards are one client does not change. *)
LEMMA SameFleet ==
    ASSUME fleet' = fleet
    PROVE  /\ Present' = Present
           /\ \A b, c : (SameClient(b, c)' <=> SameClient(b, c))
BY DEF Present, SameClient, Of

(* A step of b that begins no session. *)
LEMMA StepLinked ==
    ASSUME Linked, Scripted', fleet' = fleet, NEW b \in Present,
           DOMAIN link' = Boards, DOMAIN session' = Boards, DOMAIN subs' = Boards,
           \A c \in Boards \ {b} : link'[c] = link[c] /\ session'[c] = session[c] /\ todo'[c] = todo[c],
           session'[b] # "none" => session[b] # "none",
           link'[b] = "up" => session'[b] = "live" /\ todo'[b] # <<"connect">>
    PROVE  Linked'
<1>1. Present' = Present /\ Present \subseteq Boards
  BY SameFleet, LinkedPresent
<1>2. \A c \in Boards \ Present : link'[c] = "none" /\ session'[c] = "none"
  BY DEF Linked
<1>3. \A c \in Present : link'[c] = "up" => session'[c] = "live" /\ todo'[c] # <<"connect">>
  BY <1>1 DEF Linked
<1>4. ASSUME NEW c \in Present, NEW d \in Present, SameClient(c, d)', session'[c] # "none", session'[d] # "none"
      PROVE  c = d
  <2>1. session[c] # "none" /\ session[d] # "none"
    BY <1>1, <1>4
  <2>2. SameClient(c, d)
    BY <1>4, SameFleet
  <2> QED BY <2>1, <2>2 DEF Linked
<1> QED BY <1>1, <1>2, <1>3, <1>4 DEF Linked

(* What Stop does to a connection and its session. *)
LEMMA Stopped ==
    ASSUME Linked, NEW b \in Present, Stop(b)
    PROVE  /\ DOMAIN link' = Boards /\ DOMAIN session' = Boards
           /\ \A c \in Boards \ {b} : link'[c] = link[c] /\ session'[c] = session[c]
           /\ session'[b] # "none" <=> session[b] # "none"
           /\ link'[b] = "none"
<1>1. b \in Boards
  BY LinkedPresent
<1>2. link' = [link EXCEPT ![b] = "none"] /\ session' = [session EXCEPT ![b] = IF session[b] = "live" THEN "stale" ELSE session[b]]
  BY DEF Stop
<1> QED BY <1>1, <1>2 DEF Linked

(* Stop keeps connections and sessions together. *)
LEMMA StopLinked ==
    ASSUME Linked, Scripted', fleet' = fleet, NEW b \in Present, Stop(b), UNCHANGED subs,
           \A c \in Boards \ {b} : todo'[c] = todo[c]
    PROVE  Linked'
<1>1. DOMAIN subs' = Boards
  BY DEF Linked
<1> QED BY <1>1, Stopped, StepLinked

(* So does a step that leaves both alone. *)
LEMMA SameLinked ==
    ASSUME Linked, Scripted', fleet' = fleet, NEW b \in Present, UNCHANGED <<link, session>>, DOMAIN subs' = Boards,
           \A c \in Boards \ {b} : todo'[c] = todo[c], todo'[b] # <<"connect">>
    PROVE  Linked'
<1>1. DOMAIN link' = Boards /\ DOMAIN session' = Boards
  BY DEF Linked
<1>2. link'[b] = "up" => session'[b] = "live"
  BY DEF Linked
<1> QED BY <1>1, <1>2, StepLinked

(* So does a write that fails. *)
LEMMA UnwrittenLinked ==
    ASSUME Linked, Scripted', fleet' = fleet, NEW b \in Present, Unwritten(b), Then(b, <<>>)
    PROVE  Linked'
<1>1. /\ \A c \in Boards \ {b} : todo'[c] = todo[c]
      /\ todo'[b] # <<"connect">>
  BY GoesOn DEF Linked
<1>2. DOMAIN subs' = Boards /\ UNCHANGED subs
  BY DEF Unwritten, Linked
<1>3. UNCHANGED <<link, session>> \/ Stop(b)
  BY DEF Unwritten
<1> QED BY <1>1, <1>2, <1>3, SameLinked, StopLinked

(* Nobody is connected in the beginning. *)
LEMMA InitLinked == Init => Linked
<1> SUFFICES ASSUME Init PROVE Linked
  OBVIOUS
<1>1. Scripted /\ Present \subseteq Boards
  BY InitScripted, PresentBoards DEF Init
<1>2. DOMAIN link = Boards /\ DOMAIN session = Boards /\ DOMAIN subs = Boards
  BY DEF Init
<1>3. \A b \in Boards : link[b] = "none" /\ session[b] = "none"
  BY DEF Init
<1> QED BY <1>1, <1>2, <1>3 DEF Linked

(* A board that connects takes over the session of its client id. *)
LEMMA ConnectsLinked ==
    ASSUME Linked, Scripted', NEW b \in Boards, Connects(b)
    PROVE  Linked'
<1>1. /\ b \in Present /\ At(b, "connect") /\ Then(b, Of(b).session.announce) /\ fleet' = fleet
      /\ link' = [c \in Boards |-> IF c = b THEN "up"
                                   ELSE IF c \in Holders(b) /\ link[c] = "up" THEN "closed" ELSE link[c]]
      /\ session' = [c \in Boards |-> IF c = b THEN "live" ELSE IF c \in Holders(b) THEN "none" ELSE session[c]]
      /\ subs' = [c \in Boards |-> IF c = b \/ c \in Holders(b) THEN {} ELSE subs[c]]
  BY DEF Connects, At
<1>2. Present' = Present /\ Present \subseteq Boards
  BY <1>1, SameFleet, LinkedPresent
<1>3. todo'[b] = Announce /\ \A c \in Boards \ {b} : todo'[c] = todo[c]
  BY <1>1, AfterConnects DEF Linked
<1>4. ASSUME NEW c \in Present, link'[c] = "up" PROVE session'[c] = "live" /\ todo'[c] # <<"connect">>
  <2>1. CASE c = b
    BY <1>1, <1>2, <1>3, <2>1, NotConnect
  <2>2. CASE c # b
    <3>1. link[c] = "up" /\ c \notin Holders(b)
      BY <1>1, <1>2, <1>4, <2>2
    <3>2. session[c] = "live" /\ todo[c] # <<"connect">>
      BY <3>1 DEF Linked
    <3> QED BY <1>1, <1>2, <1>3, <2>2, <3>1, <3>2
  <2> QED BY <2>1, <2>2
<1>5. ASSUME NEW c \in Present, NEW d \in Present, SameClient(c, d)', session'[c] # "none", session'[d] # "none"
      PROVE  c = d
  <2>1. SameClient(c, d)
    BY <1>1, <1>5, SameFleet
  <2>2. \A e \in Present : session'[e] # "none" /\ e # b => session[e] # "none" /\ e \notin Holders(b)
    BY <1>1, <1>2
  <2>3. \A e \in Present : session[e] # "none" /\ e \notin Holders(b) => ~SameClient(b, e)
    BY DEF Holders
  <2>4. SameClient(d, c)
    BY <2>1 DEF SameClient
  <2>5. CASE c = b
    BY <1>5, <2>1, <2>2, <2>3, <2>5
  <2>6. CASE d = b
    BY <1>5, <2>2, <2>3, <2>4, <2>6
  <2>7. CASE c # b /\ d # b
    BY <1>5, <2>1, <2>2, <2>7 DEF Linked
  <2> QED BY <2>5, <2>6, <2>7
<1>6. \A c \in Boards \ Present : link'[c] = "none" /\ session'[c] = "none"
  <2>1. Holders(b) \subseteq Present
    BY DEF Holders
  <2> QED BY <1>1, <2>1 DEF Linked
<1>7. DOMAIN link' = Boards /\ DOMAIN session' = Boards /\ DOMAIN subs' = Boards
  BY <1>1
<1> QED BY <1>2, <1>4, <1>5, <1>6, <1>7 DEF Linked

(* Every step keeps connections and sessions together. *)
LEMMA NextLinked == Linked /\ [Next]_vars => Linked'
<1> SUFFICES ASSUME Linked, [Next]_vars PROVE Linked'
  OBVIOUS
<1>d. Scripted /\ Scripted'
  BY NextScripted DEF Linked
<1>s. DOMAIN subs = Boards /\ DOMAIN link = Boards /\ DOMAIN session = Boards
  BY DEF Linked
<1>1. ASSUME NEW b \in Boards, ConnectFails(b) PROVE Linked'
  <2>1. b \in Present /\ Then(b, <<>>) /\ Stop(b) /\ UNCHANGED <<fleet, subs>>
    BY <1>1 DEF ConnectFails, At
  <2>2. \A c \in Boards \ {b} : todo'[c] = todo[c]
    BY <1>d, <2>1, GoesOn
  <2> QED BY <1>d, <2>1, <2>2, StopLinked
<1>2. ASSUME NEW b \in Boards, Connects(b) PROVE Linked'
  BY <1>2, <1>d, ConnectsLinked
<1>3. ASSUME NEW b \in Boards, AnnouncesStatus(b) \/ Echoes(b) PROVE Linked'
  <2>1. b \in Present /\ Then(b, <<>>) /\ UNCHANGED fleet
    BY <1>3 DEF AnnouncesStatus, Echoes, At
  <2>2. Unwritten(b) \/ UNCHANGED <<link, session, subs>>
    BY <1>3 DEF AnnouncesStatus, Echoes
  <2>3. /\ \A c \in Boards \ {b} : todo'[c] = todo[c]
        /\ todo'[b] # <<"connect">>
    BY <1>d, <2>1, GoesOn
  <2>4. CASE UNCHANGED <<link, session, subs>>
    BY <1>d, <1>s, <2>1, <2>3, <2>4, SameLinked
  <2>5. CASE Unwritten(b)
    BY <1>d, <2>1, <2>5, UnwrittenLinked
  <2> QED BY <2>2, <2>4, <2>5
<1>4. ASSUME NEW b \in Boards, NEW topic, Subscribes(b, topic) PROVE Linked'
  <2>1. b \in Present /\ Then(b, <<>>) /\ UNCHANGED fleet
    BY <1>4 DEF Subscribes, At
  <2>2. Unwritten(b) \/ (UNCHANGED <<link, session>> /\ DOMAIN subs' = Boards)
    BY <1>4, <1>s DEF Subscribes
  <2>3. /\ \A c \in Boards \ {b} : todo'[c] = todo[c]
        /\ todo'[b] # <<"connect">>
    BY <1>d, <2>1, GoesOn
  <2>4. CASE UNCHANGED <<link, session>> /\ DOMAIN subs' = Boards
    BY <1>d, <2>1, <2>3, <2>4, SameLinked
  <2>5. CASE Unwritten(b)
    BY <1>d, <2>1, <2>5, UnwrittenLinked
  <2> QED BY <2>2, <2>4, <2>5
<1>5. ASSUME NEW b \in Boards, Reads(b) PROVE Linked'
  <2>1. /\ b \in Present /\ Looping(b) /\ Then(b, Of(b).receives.callback)
        /\ UNCHANGED <<fleet, link, session, subs>>
    BY <1>5 DEF Reads, Looping, At
  <2>2. /\ \A c \in Boards \ {b} : todo'[c] = todo[c]
        /\ todo'[b] # <<"connect">>
    BY <1>d, <2>1, ReadsOn
  <2>3. DOMAIN subs' = Boards /\ UNCHANGED <<link, session>>
    BY <1>s, <2>1
  <2> QED BY <1>d, <2>1, <2>2, <2>3, SameLinked
<1>6. ASSUME NEW b \in Boards, Idles(b) \/ Handles(b) PROVE Linked'
  <2>1. b \in Present /\ Then(b, <<>>) /\ UNCHANGED <<fleet, link, session, subs>>
    BY <1>6 DEF Idles, Handles, Looping, At
  <2>2. /\ \A c \in Boards \ {b} : todo'[c] = todo[c]
        /\ todo'[b] # <<"connect">>
    BY <1>d, <2>1, GoesOn
  <2>3. DOMAIN subs' = Boards /\ UNCHANGED <<link, session>>
    BY <1>s, <2>1
  <2> QED BY <1>d, <2>1, <2>2, <2>3, SameLinked
<1>7. ASSUME NEW b \in Boards, FindsGone(b) PROVE Linked'
  <2>1. b \in Present /\ Stop(b) /\ UNCHANGED <<fleet, subs>>
    BY <1>7 DEF FindsGone, Looping, At
  <2>2. \A c \in Boards \ {b} : todo'[c] = todo[c]
    <3>1. CASE At(b, "loop or connect")
      <4>1. Then(b, <<"connect">>)
        BY <1>7, <3>1 DEF FindsGone
      <4> QED BY <1>d, <2>1, <3>1, <4>1, BackToConnect
    <3>2. CASE ~At(b, "loop or connect")
      <4>1. Then(b, <<>>)
        BY <1>7, <3>2 DEF FindsGone
      <4> QED BY <1>d, <2>1, <4>1, GoesOn
    <3> QED BY <3>1, <3>2
  <2> QED BY <1>d, <2>1, <2>2, StopLinked
<1>8. ASSUME NEW b \in Boards, Checks(b) PROVE Linked'
  <2>1. b \in Present /\ At(b, "check") /\ UNCHANGED <<fleet, subs>>
    BY <1>8 DEF Checks, At
  <2>2. CASE Connected(b)
    <3>1. Then(b, <<>>) /\ UNCHANGED <<link, session>>
      BY <1>8, <2>2 DEF Checks
    <3>2. /\ \A c \in Boards \ {b} : todo'[c] = todo[c]
          /\ todo'[b] # <<"connect">>
      BY <1>d, <2>1, <3>1, GoesOn
    <3>3. DOMAIN subs' = Boards
      BY <1>s, <2>1
    <3> QED BY <1>d, <2>1, <3>1, <3>2, <3>3, SameLinked
  <2>3. CASE ~Connected(b)
    <3>1. Then(b, <<"connect">>) /\ Stop(b)
      BY <1>8, <2>3 DEF Checks
    <3>2. \A c \in Boards \ {b} : todo'[c] = todo[c]
      BY <1>d, <2>1, <3>1, BackToConnect
    <3> QED BY <1>d, <2>1, <3>1, <3>2, StopLinked
  <2> QED BY <2>2, <2>3
<1>9. ASSUME NEW b \in Boards, Reset(b) PROVE Linked'
  <2>1. b \in Present /\ Stop(b) /\ todo' = [todo EXCEPT ![b] = Of(b).session.setup] /\ UNCHANGED <<fleet, subs>>
    BY <1>9 DEF Reset
  <2>2. \A c \in Boards \ {b} : todo'[c] = todo[c]
    BY <1>d, <2>1 DEF Scripted
  <2> QED BY <1>d, <2>1, <2>2, StopLinked
<1>10. ASSUME NEW b \in Boards, BrokerDetects(b) \/ LinkBreaks(b) \/ BrokerCloses(b) PROVE Linked'
  <2>1. b \in Present
    <3>1. session[b] = "stale" \/ link[b] = "up"
      BY <1>10 DEF BrokerDetects, LinkBreaks, BrokerCloses
    <3> QED BY <3>1 DEF Linked
  <2>2. /\ UNCHANGED <<fleet, todo>>
        /\ DOMAIN link' = Boards /\ DOMAIN session' = Boards /\ DOMAIN subs' = Boards
        /\ \A c \in Boards \ {b} : link'[c] = link[c] /\ session'[c] = session[c]
    BY <1>10, <1>s DEF BrokerDetects, LinkBreaks, BrokerCloses, board
  <2>3. session'[b] # "none" => session[b] # "none"
    BY <1>10, <1>s, <2>1 DEF BrokerDetects, LinkBreaks, BrokerCloses, Linked
  <2>4. link'[b] # "up"
    BY <1>10, <1>s, <2>1 DEF BrokerDetects, LinkBreaks, BrokerCloses, Linked, board
  <2> QED BY <1>d, <2>1, <2>2, <2>3, <2>4, StepLinked
<1>11. CASE UNCHANGED <<fleet, todo, link, session, subs>>
  <2>1. Present' = Present /\ \A b, c : SameClient(b, c)' <=> SameClient(b, c)
    BY <1>11, SameFleet
  <2> QED BY <1>d, <1>11, <2>1 DEF Linked
<1>12. CASE \E c \in fleet.commands : UserPublishes(c)
  BY <1>11, <1>12 DEF UserPublishes
<1>13. CASE UNCHANGED vars
  BY <1>11, <1>13 DEF vars
<1> QED BY <1>1, <1>2, <1>3, <1>4, <1>5, <1>6, <1>7, <1>8, <1>9, <1>10, <1>12, <1>13 DEF Next, Step

(* Connections and sessions always belong together. *)
LEMMA LinkedAlways == Spec => []Linked
<1>1. Init => Linked
  BY InitLinked
<1>2. Linked /\ [Next]_vars => Linked'
  BY NextLinked
<1> QED BY <1>1, <1>2, PTL DEF Spec

-------------------------------------------------------------------------------
(* Every step of a board is a step of its command channel *)

Moves(b) ==
    \/ IsStrictPrefix(Waiting(b), Waiting(b)') /\ handled'[b] = handled[b]
    \/ Waiting(b) # <<>> /\ Waiting(b)' = Tail(Waiting(b)) /\ handled'[b] = Head(Waiting(b))
    \/ IsStrictPrefix(Waiting(b)', Waiting(b)) /\ handled'[b] = handled[b]
    \/ UNCHANGED <<Waiting(b), handled[b]>>

(* A queue is a prefix of what it is with one message more. *)
LEMMA LongerIsPrefix ==
    ASSUME NEW S, NEW p \in Seq(S), NEW q \in Seq(S), NEW m \in S
    PROVE  IsStrictPrefix(p \o q, p \o Append(q, m))
BY DEF IsStrictPrefix, IsPrefix

(* What a broken connection leaves is a prefix. *)
LEMMA ShorterIsPrefix ==
    ASSUME NEW S, NEW p \in Seq(S), NEW q \in Seq(S), NEW n \in 0..Len(q)
    PROVE  IsPrefix(p \o SubSeq(q, 1, n), p \o q)
BY DEF IsPrefix

(* Nothing is a prefix of everything. *)
LEMMA EmptyIsPrefix ==
    ASSUME NEW S, NEW p \in Seq(S), NEW q \in Seq(S)
    PROVE  IsPrefix(p, p \o q) /\ IsPrefix(<<>>, q)
BY DEF IsPrefix

(* A queue is its head and its tail. *)
LEMMA HeadTail ==
    ASSUME NEW S, NEW q \in Seq(S), q # <<>>
    PROVE  <<Head(q)>> \o Tail(q) = q
OBVIOUS

(* The tail behind one message is what follows it. *)
LEMMA TailOfConcat ==
    ASSUME NEW S, NEW q \in Seq(S), NEW x \in S
    PROVE  Tail(<<x>> \o q) = q /\ Head(<<x>> \o q) = x /\ <<x>> \o q # <<>>
OBVIOUS

(* Nothing before a queue changes nothing. *)
LEMMA EmptyConcat == ASSUME NEW S, NEW q \in Seq(S) PROVE <<>> \o q = q
BY ConcatEmptySeq

(* What the callback is at work on, as a sequence. *)
Work(b) == IF current[b] = None THEN <<>> ELSE <<current[b]>>

(* What a board has waiting is a queue of messages. *)
LEMMA WorkType ==
    ASSUME Linked, NEW b \in Present
    PROVE  /\ Work(b) \in Seq(MessagesFor(b)) /\ rx[b] \in Seq(MessagesFor(b))
           /\ Waiting(b) = Work(b) \o rx[b] /\ Waiting(b) \in Seq(MessagesFor(b))
<1>1. rx[b] \in Seq(MessagesFor(b)) /\ current[b] \in MessagesFor(b) \cup {None}
  BY DEF Linked, Scripted, Delivered
<1>2. Work(b) \in Seq(MessagesFor(b))
  <2>1. CASE current[b] = None
    BY <2>1, EmptySeq DEF Work
  <2>2. CASE current[b] # None
    <3>1. current[b] \in MessagesFor(b)
      BY <1>1, <2>2
    <3> QED BY <2>2, <3>1 DEF Work
  <2> QED BY <2>1, <2>2
<1> QED BY <1>1, <1>2 DEF Waiting, Work

(* A step that leaves a board's messages alone is a stutter. *)
LEMMA StaysMoves ==
    ASSUME NEW b, rx'[b] = rx[b], current'[b] = current[b], handled'[b] = handled[b]
    PROVE  Moves(b)
BY DEF Moves, Waiting

(* The connection is gone, and with it the messages that wait. *)
LEMMA LosesMoves ==
    ASSUME Linked, NEW b \in Present, NEW n \in 0..Len(rx[b]), rx'[b] = SubSeq(rx[b], 1, n),
           current'[b] = current[b], handled'[b] = handled[b]
    PROVE  Moves(b)
<1>1. Waiting(b) = Work(b) \o rx[b] /\ Waiting(b)' = Work(b) \o SubSeq(rx[b], 1, n)
  BY DEF Waiting, Work
<1>2. IsPrefix(Waiting(b)', Waiting(b))
  BY <1>1, WorkType, ShorterIsPrefix
<1> QED BY <1>2 DEF Moves, IsStrictPrefix

(* Stop loses the messages not yet read. *)
LEMMA StopMoves ==
    ASSUME Linked, NEW b \in Present, NEW c \in Present, Stop(b), UNCHANGED <<current, handled>>
    PROVE  Moves(c)
<1>1. rx' = [rx EXCEPT ![b] = <<>>] /\ DOMAIN rx = Boards /\ Present \subseteq Boards
  BY LinkedPresent DEF Stop, Linked, Scripted, Delivered
<1>2. CASE c = b
  <2>1. rx[c] \in Seq(MessagesFor(c))
    BY WorkType
  <2>2. SubSeq(rx[c], 1, 0) = <<>> /\ 0 \in 0..Len(rx[c])
    BY <2>1
  <2>3. rx'[c] = SubSeq(rx[c], 1, 0)
    BY <1>1, <1>2, <2>2
  <2> QED BY <2>2, <2>3, LosesMoves
<1>3. CASE c # b
  BY <1>1, <1>3, StaysMoves
<1> QED BY <1>2, <1>3

(* A write that fails loses them, or nothing. *)
LEMMA UnwrittenMoves ==
    ASSUME Linked, NEW b \in Present, NEW c \in Present, Unwritten(b), UNCHANGED <<current, handled>>
    PROVE  Moves(c)
<1>1. UNCHANGED rx \/ Stop(b)
  BY DEF Unwritten
<1> QED BY <1>1, StaysMoves, StopMoves

(* Reading a message leaves it at the head of what waits. *)
LEMMA ReadsMoves ==
    ASSUME Linked, NEW b \in Boards, NEW c \in Present, Reads(b)
    PROVE  Moves(c)
<1>1. /\ b \in Present /\ Looping(b) /\ Head(todo[b]) \in {"loop", "loop or connect"} /\ rx[b] # <<>>
      /\ current' = [current EXCEPT ![b] = Head(rx[b])] /\ rx' = [rx EXCEPT ![b] = Tail(rx[b])]
      /\ UNCHANGED handled
  BY DEF Reads, Looping, At
<1>2. DOMAIN rx = Boards /\ DOMAIN current = Boards
  BY DEF Linked, Scripted, Delivered
<1>3. CASE c = b
  <2>1. current[c] = None
    <3>1. todo[b] \notin Handling
      BY <1>1, HandlingHeads DEF Linked, Scripted
    <3> QED BY <1>1, <1>3, <3>1 DEF Linked, Scripted
  <2>2. rx[c] \in Seq(MessagesFor(c)) /\ rx[c] # <<>>
    BY <1>1, <1>3, WorkType
  <2>3. current'[c] = Head(rx[c]) /\ rx'[c] = Tail(rx[c])
    BY <1>1, <1>2, <1>3
  <2>4. Head(rx[c]) # None
    <3>1. Head(rx[c]) \in MessagesFor(c)
      BY <2>2
    <3> QED BY <3>1, LinkedPresent, MessagesAreMessages
  <2>5. Waiting(c) = rx[c]
    BY <2>1, <2>2, EmptyConcat DEF Waiting
  <2>6. Waiting(c)' = <<Head(rx[c])>> \o Tail(rx[c])
    BY <2>3, <2>4 DEF Waiting
  <2>7. Waiting(c)' = Waiting(c)
    BY <2>2, <2>5, <2>6, HeadTail
  <2> QED BY <1>1, <2>7 DEF Moves
<1>4. CASE c # b
  <2>1. c \in Boards
    BY LinkedPresent
  <2> QED BY <1>1, <1>2, <1>4, <2>1, StaysMoves
<1> QED BY <1>3, <1>4

(* Handling a message is the step of the channel that hands it on. *)
LEMMA HandlesMoves ==
    ASSUME Linked, NEW b \in Boards, NEW c \in Present, Handles(b)
    PROVE  Moves(c)
<1>1. /\ b \in Present /\ Head(todo[b]) = "handle" /\ handled' = [handled EXCEPT ![b] = current[b]]
      /\ current' = [current EXCEPT ![b] = None] /\ UNCHANGED rx
  BY DEF Handles, At
<1>2. DOMAIN handled = Boards /\ DOMAIN current = Boards
  BY DEF Linked, Scripted, Delivered
<1>3. CASE c = b
  <2>1. current[c] # None
    <3>1. todo[b] \in Handling
      BY <1>1, HandlingHeads DEF Linked, Scripted
    <3> QED BY <1>1, <1>3, <3>1 DEF Linked, Scripted
  <2>2. current[c] \in MessagesFor(c) /\ rx[c] \in Seq(MessagesFor(c))
    BY <2>1, WorkType DEF Linked, Scripted, Delivered
  <2>3. Waiting(c) = <<current[c]>> \o rx[c]
    BY <2>1 DEF Waiting
  <2>4. current'[c] = None /\ handled'[c] = current[c] /\ rx'[c] = rx[c]
    BY <1>1, <1>2, <1>3
  <2>5. Waiting(c)' = rx[c]
    BY <2>2, <2>4, EmptyConcat DEF Waiting
  <2>6. Waiting(c) # <<>> /\ Waiting(c)' = Tail(Waiting(c)) /\ handled'[c] = Head(Waiting(c))
    BY <2>2, <2>3, <2>4, <2>5, TailOfConcat
  <2> QED BY <2>6 DEF Moves
<1>4. CASE c # b
  <2>1. c \in Boards
    BY LinkedPresent
  <2> QED BY <1>1, <1>2, <1>4, <2>1, StaysMoves
<1> QED BY <1>3, <1>4

(* A reset loses what waits. *)
LEMMA ResetMoves ==
    ASSUME Linked, NEW b \in Boards, NEW c \in Present, Reset(b)
    PROVE  Moves(c)
<1>1. /\ b \in Present /\ rx' = [rx EXCEPT ![b] = <<>>] /\ current' = [current EXCEPT ![b] = None]
      /\ UNCHANGED handled
  BY DEF Reset, Stop
<1>2. DOMAIN rx = Boards /\ DOMAIN current = Boards
  BY DEF Linked, Scripted, Delivered
<1>3. CASE c = b
  <2>1. current'[c] = None /\ rx'[c] = <<>>
    BY <1>1, <1>2, <1>3
  <2>2. Waiting(c)' = <<>> \o <<>>
    BY <2>1 DEF Waiting
  <2>3. <<>> \o <<>> = <<>>
    OBVIOUS
  <2>4. IsPrefix(Waiting(c)', Waiting(c))
    BY <2>2, <2>3, WorkType, EmptyIsPrefix
  <2> QED BY <1>1, <2>4 DEF Moves, IsStrictPrefix
<1>4. CASE c # b
  <2>1. c \in Boards
    BY LinkedPresent
  <2> QED BY <1>1, <1>2, <1>4, <2>1, StaysMoves
<1> QED BY <1>3, <1>4

(* A user's command is put at the end of what waits. *)
LEMMA PublishMoves ==
    ASSUME Linked, NEW c \in Present, NEW d \in fleet.commands, UserPublishes(d)
    PROVE  Moves(c)
<1>1. UNCHANGED <<current, handled>>
  BY DEF UserPublishes
<1>2. PICK p \in {Place(b) : b \in Present} :
        rx' = [b \in Boards |->
                 IF b \in {e \in Present : Place(e) = p /\ link[e] = "up" /\ d.topic \in subs[e]}
                 THEN Append(rx[b], [place |-> p, command |-> d]) ELSE rx[b]]
  BY DEF UserPublishes
<1>3. c \in Boards
  BY LinkedPresent
<1>4. CASE rx'[c] = rx[c]
  BY <1>1, <1>4, StaysMoves
<1>5. CASE rx'[c] # rx[c]
  <2> DEFINE m == [place |-> p, command |-> d]
  <2>1. rx'[c] = Append(rx[c], m) /\ Place(c) = p
    BY <1>2, <1>3, <1>5
  <2>2. m \in MessagesFor(c)
    BY <2>1 DEF MessagesFor
  <2> HIDE DEF m
  <2>3. Waiting(c)' = Work(c) \o Append(rx[c], m)
    BY <1>1, <2>1 DEF Waiting, Work
  <2>4. IsStrictPrefix(Waiting(c), Waiting(c)')
    BY <2>2, <2>3, WorkType, LongerIsPrefix
  <2> QED BY <1>1, <2>4 DEF Moves
<1> QED BY <1>4, <1>5

(* Every step is one of the channel of a board, or a stutter. *)
LEMMA NextMoves ==
    ASSUME Linked, [Next]_vars, NEW c \in Present
    PROVE  Moves(c)
<1>1. ASSUME NEW b \in Boards, ConnectFails(b) \/ FindsGone(b) PROVE Moves(c)
  <2>1. b \in Present /\ Stop(b) /\ UNCHANGED <<current, handled>>
    BY <1>1 DEF ConnectFails, FindsGone, Looping, At
  <2> QED BY <2>1, StopMoves
<1>2. ASSUME NEW b \in Boards, Connects(b) PROVE Moves(c)
  <2>1. b \in Present /\ rx' = [rx EXCEPT ![b] = <<>>] /\ UNCHANGED <<current, handled>>
    BY <1>2 DEF Connects, At
  <2>2. DOMAIN rx = Boards /\ c \in Boards
    BY LinkedPresent DEF Linked, Scripted, Delivered
  <2>3. CASE c = b
    <3>1. rx[c] \in Seq(MessagesFor(c))
      BY WorkType
    <3>2. SubSeq(rx[c], 1, 0) = <<>> /\ 0 \in 0..Len(rx[c])
      BY <3>1
    <3>3. rx'[c] = SubSeq(rx[c], 1, 0)
      BY <2>1, <2>2, <2>3, <3>2
    <3> QED BY <2>1, <3>2, <3>3, LosesMoves
  <2>4. CASE c # b
    BY <2>1, <2>2, <2>4, StaysMoves
  <2> QED BY <2>3, <2>4
<1>3. ASSUME NEW b \in Boards, AnnouncesStatus(b) \/ Echoes(b) PROVE Moves(c)
  <2>1. b \in Present /\ UNCHANGED <<current, handled>> /\ (Unwritten(b) \/ UNCHANGED rx)
    BY <1>3 DEF AnnouncesStatus, Echoes, At
  <2> QED BY <2>1, UnwrittenMoves, StaysMoves
<1>4. ASSUME NEW b \in Boards, NEW topic, Subscribes(b, topic) PROVE Moves(c)
  <2>1. b \in Present /\ UNCHANGED <<current, handled>> /\ (Unwritten(b) \/ UNCHANGED rx)
    BY <1>4 DEF Subscribes, At
  <2> QED BY <2>1, UnwrittenMoves, StaysMoves
<1>5. ASSUME NEW b \in Boards, Reads(b) PROVE Moves(c)
  BY <1>5, ReadsMoves
<1>6. ASSUME NEW b \in Boards, Checks(b) PROVE Moves(c)
  <2>1. b \in Present /\ UNCHANGED <<current, handled>> /\ (Stop(b) \/ UNCHANGED rx)
    BY <1>6 DEF Checks, At
  <2> QED BY <2>1, StopMoves, StaysMoves
<1>7. ASSUME NEW b \in Boards, Handles(b) PROVE Moves(c)
  BY <1>7, HandlesMoves
<1>8. ASSUME NEW b \in Boards, Reset(b) PROVE Moves(c)
  BY <1>8, ResetMoves
<1>9. ASSUME NEW b \in Boards, LinkBreaks(b) PROVE Moves(c)
  <2>1. PICK n \in 0..Len(rx[b]) : rx' = [rx EXCEPT ![b] = SubSeq(rx[b], 1, n)]
    BY <1>9 DEF LinkBreaks
  <2>2. UNCHANGED <<current, handled>> /\ DOMAIN rx = Boards /\ c \in Boards
    BY <1>9, LinkedPresent DEF LinkBreaks, Linked, Scripted, Delivered
  <2>3. CASE c = b
    <3>1. n \in 0..Len(rx[c]) /\ rx'[c] = SubSeq(rx[c], 1, n)
      BY <2>1, <2>2, <2>3
    <3> QED BY <2>2, <3>1, LosesMoves
  <2>4. CASE c # b
    BY <2>1, <2>2, <2>4, StaysMoves
  <2> QED BY <2>3, <2>4
<1>10. CASE UNCHANGED <<rx, current, handled>>
  BY <1>10, StaysMoves
<1>11. ASSUME NEW b \in Boards, BrokerDetects(b) \/ BrokerCloses(b) \/ Idles(b) PROVE Moves(c)
  BY <1>10, <1>11 DEF BrokerDetects, BrokerCloses, Idles, board
<1>12. CASE UNCHANGED vars
  BY <1>10, <1>12 DEF vars
<1> QED BY <1>1, <1>2, <1>3, <1>4, <1>5, <1>6, <1>7, <1>8, <1>9, <1>11, <1>12, PublishMoves DEF Next, Step

(* Nothing ever waits for a board that is not there.                       *)
LEMMA AbsentMoves ==
    ASSUME Linked, [Next]_vars, NEW c \in Boards \ Present
    PROVE  Moves(c)
<1> SUFFICES rx'[c] = rx[c] /\ current'[c] = current[c] /\ handled'[c] = handled[c]
  BY StaysMoves
<1>d. DOMAIN rx = Boards /\ DOMAIN current = Boards /\ DOMAIN handled = Boards
  BY DEF Linked, Scripted, Delivered
<1>s. \A b \in Present : Stop(b) => rx'[c] = rx[c]
  BY <1>d DEF Stop
<1>u. \A b \in Present : Unwritten(b) => rx'[c] = rx[c]
  BY <1>s DEF Unwritten
<1>1. ASSUME NEW b \in Boards, ConnectFails(b) \/ Connects(b) \/ FindsGone(b) \/ Checks(b)
      PROVE  rx'[c] = rx[c] /\ UNCHANGED <<current, handled>>
  BY <1>1, <1>d, <1>s DEF ConnectFails, Connects, FindsGone, Checks, Looping, At
<1>2. ASSUME NEW b \in Boards, AnnouncesStatus(b) \/ Echoes(b)
      PROVE  rx'[c] = rx[c] /\ UNCHANGED <<current, handled>>
  BY <1>2, <1>u DEF AnnouncesStatus, Echoes, At
<1>3. ASSUME NEW b \in Boards, NEW topic, Subscribes(b, topic)
      PROVE  rx'[c] = rx[c] /\ UNCHANGED <<current, handled>>
  BY <1>3, <1>u DEF Subscribes, At
<1>4. ASSUME NEW b \in Boards, Reads(b) \/ Idles(b) \/ Handles(b) \/ Reset(b)
      PROVE  rx'[c] = rx[c] /\ current'[c] = current[c] /\ handled'[c] = handled[c]
  BY <1>4, <1>d, <1>s DEF Reads, Idles, Handles, Reset, Looping, At
<1>5. ASSUME NEW b \in Boards, BrokerDetects(b) \/ LinkBreaks(b) \/ BrokerCloses(b)
      PROVE  rx'[c] = rx[c] /\ UNCHANGED <<current, handled>>
  <2>1. CASE LinkBreaks(b)
    <3>1. b # c
      BY <2>1 DEF LinkBreaks, Linked
    <3> QED BY <1>d, <2>1, <3>1 DEF LinkBreaks
  <2>2. CASE BrokerDetects(b) \/ BrokerCloses(b)
    BY <2>2 DEF BrokerDetects, BrokerCloses, board
  <2> QED BY <1>5, <2>1, <2>2
<1>6. ASSUME NEW d \in fleet.commands, UserPublishes(d)
      PROVE  rx'[c] = rx[c] /\ UNCHANGED <<current, handled>>
  <2>1. UNCHANGED <<current, handled>>
    BY <1>6 DEF UserPublishes
  <2>2. PICK p \in {Place(b) : b \in Present} :
          rx' = [b \in Boards |->
                   IF b \in {e \in Present : Place(e) = p /\ link[e] = "up" /\ d.topic \in subs[e]}
                   THEN Append(rx[b], [place |-> p, command |-> d]) ELSE rx[b]]
    BY <1>6 DEF UserPublishes
  <2> QED BY <2>1, <2>2
<1>7. CASE UNCHANGED vars
  BY <1>7 DEF vars
<1> QED BY <1>1, <1>2, <1>3, <1>4, <1>5, <1>6, <1>7 DEF Next, Step

(* Both channels move with every step, or stutter. *)
LEMMA AllMove == Linked /\ [Next]_vars => Moves(1) /\ Moves(2)
<1> SUFFICES ASSUME Linked, [Next]_vars PROVE \A c \in Boards : Moves(c)
  BY DEF Boards
<1> TAKE c \in Boards
<1>1. CASE c \in Present
  BY <1>1, NextMoves
<1>2. CASE c \notin Present
  BY <1>2, AbsentMoves
<1> QED BY <1>1, <1>2

(* The steps of the first board are those of its channel. *)
LEMMA FirstMoves == Moves(1) => [FirstChannel!Next]_(FirstChannel!vars)
BY DEF Moves, IsStrictPrefix, IsPrefix, FirstChannel!Next, FirstChannel!vars, FirstChannel!Accept,
       FirstChannel!Handle, FirstChannel!Lose, FirstChannel!IsStrictPrefix, FirstChannel!IsPrefix

(* The steps of the second board are those of its channel. *)
LEMMA SecondMoves == Moves(2) => [SecondChannel!Next]_(SecondChannel!vars)
BY DEF Moves, IsStrictPrefix, IsPrefix, SecondChannel!Next, SecondChannel!vars, SecondChannel!Accept,
       SecondChannel!Handle, SecondChannel!Lose, SecondChannel!IsStrictPrefix, SecondChannel!IsPrefix

(* Whatever versions the boards run, on both of them every step from       *)
(* reading a message to handling it is one the command channel allows: no  *)
(* command is handled twice, out of order or altered (callback, loop).     *)
THEOREM StepsImplementChannels ==
    Spec => /\ FirstChannel!Init /\ [][FirstChannel!Next]_(FirstChannel!vars)
            /\ SecondChannel!Init /\ [][SecondChannel!Next]_(SecondChannel!vars)
<1>1. Init => FirstChannel!Init /\ SecondChannel!Init
  BY DEF Init, FirstChannel!Init, SecondChannel!Init, Waiting, Boards
<1>2. Linked /\ [Next]_vars => [FirstChannel!Next]_(FirstChannel!vars) /\ [SecondChannel!Next]_(SecondChannel!vars)
  BY AllMove, FirstMoves, SecondMoves
<1> QED BY <1>1, <1>2, LinkedAlways, PTL DEF Spec

-------------------------------------------------------------------------------
(* What late subscribers are told *)

Seen == {"none", "off", "on", "on NUL"}

Newest(b) == fleet.boards[b] = "RC_4_1"

(* Only RC_4_1 has its "on" retained. *)
LEMMA OnlyRC41Keeps ==
    ASSUME fleet \in Fleets, NEW b \in Present
    PROVE  /\ Newest(b) => /\ Of(b).session.on = "on NUL" /\ Of(b).session.keepsOn = TRUE
                           /\ Of(b).session.will = TRUE /\ Of(b).session.server = "loki"
           /\ ~Newest(b) => Of(b).session.keepsOn = FALSE
           /\ Of(b).session.on \in Seen /\ Of(b).session.will \in BOOLEAN
<1>1. fleet.boards[b] \in First \cup ForFixed \cup ByAddress
  BY PresentBoards, Names
<1>2. Of(b).session = Sketch[fleet.boards[b]].session
  BY DEF Of
<1>3. CASE Newest(b)
  <2>1. Is(Of(b).session, "loki", "MDArduino", "wohnzimmer", TRUE, "on NUL", TRUE)
    BY <1>2, <1>3, SessionFields, SessionOf DEF Newest
  <2> QED BY <1>3, <2>1 DEF Is, Seen
<1>4. CASE ~Newest(b)
  <2>1. \E server, id, room : \E will \in BOOLEAN : Is(Of(b).session, server, id, room, will, "on", FALSE)
    BY <1>1, <1>2, <1>4, SessionFields, SessionOf DEF Newest, First, ForFixed, ByAddress
  <2> QED BY <1>4, <2>1 DEF Is, Seen
<1> QED BY <1>3, <1>4

(* All boards at the place of an RC_4_1 are the same client. *)
LEMMA OneClientOnLoki ==
    ASSUME fleet \in Fleets, NEW b \in Present, NEW c \in Present, Newest(b), Place(c) = Place(b)
    PROVE  SameClient(b, c)
<1>1. Of(b).session.server = "loki"
  BY OnlyRC41Keeps
<1>2. Of(c).session.server = Of(b).session.server
  BY DEF Place
<1>3. AtHome(Of(b).session) /\ AtHome(Of(c).session)
  BY PresentBoards, Homes DEF Of
<1> QED BY <1>1, <1>2, <1>3 DEF AtHome, SameClient

Typed == status \in [Places -> [seen : Seen, kept : Seen]]

Off == [seen |-> "off", kept |-> "off"]

(* The will of c, if it has one, is published. *)
LEMMA Willed ==
    ASSUME fleet \in Fleets, Typed, NEW c \in Present, status' = WillOf(c), Place(c) \in Places
    PROVE  /\ Typed'
           /\ \A p \in Places : p # Place(c) \/ ~Of(c).session.will => status'[p] = status[p]
           /\ Of(c).session.will => status'[Place(c)] = Off
<1>1. CASE Of(c).session.will
  <2>1. status' = [status EXCEPT ![Place(c)] = Off]
    BY <1>1 DEF WillOf, Off
  <2>2. Off \in [seen : Seen, kept : Seen]
    BY DEF Off, Seen
  <2> QED BY <1>1, <2>1, <2>2 DEF Typed
<1>2. CASE ~Of(c).session.will
  BY <1>2 DEF WillOf, Typed
<1> QED BY <1>1, <1>2

(* What is kept and seen of a place was not left behind by a session the   *)
(* broker knows to be gone.                                                *)
NoneLeftBehind ==
    \A p \in Places :
        /\ status[p].kept \in {"none", "off"}
             \/ \E b \in Present : Place(b) = p /\ fleet.boards[b] = "RC_4_1" /\ session[b] # "none"
        /\ status[p].seen \in {"none", "off"}
             \/ \E b \in Present : Place(b) = p /\ (Of(b).session.will => session[b] # "none")

(* The boards and their places do not change. *)
LEMMA ConstantParts ==
    ASSUME fleet' = fleet
    PROVE  /\ Present' = Present
           /\ \A b : Place(b)' = Place(b) /\ Of(b)' = Of(b) /\ (Newest(b)' <=> Newest(b))
BY DEF Present, Place, Of, Newest

(* A step that ends no session and says nothing leaves nothing behind. *)
LEMMA SessionsStay ==
    ASSUME NoneLeftBehind, fleet' = fleet, UNCHANGED status,
           \A b \in Present : session[b] # "none" => session'[b] # "none"
    PROVE  NoneLeftBehind'
<1> SUFFICES ASSUME NEW p \in Places
             PROVE  /\ status[p].kept \in {"none", "off"}
                         \/ \E b \in Present : Place(b) = p /\ fleet.boards[b] = "RC_4_1" /\ session'[b] # "none"
                    /\ status[p].seen \in {"none", "off"}
                         \/ \E b \in Present : Place(b) = p /\ (Of(b).session.will => session'[b] # "none")
  BY ConstantParts DEF NoneLeftBehind
<1> QED BY DEF NoneLeftBehind

(* Nor does a session that ends, for its will is published. *)
LEMMA SessionEnds ==
    ASSUME Linked, Typed, NoneLeftBehind, fleet' = fleet, NEW c \in Present, status' = WillOf(c),
           \A b \in Present \ {c} : session[b] # "none" => session'[b] # "none"
    PROVE  NoneLeftBehind'
<1>f. fleet \in Fleets /\ Place(c) \in Places
  BY LinkedPresent
<1> SUFFICES ASSUME NEW p \in Places
             PROVE  /\ status'[p].kept \in {"none", "off"}
                         \/ \E b \in Present : Place(b) = p /\ fleet.boards[b] = "RC_4_1" /\ session'[b] # "none"
                    /\ status'[p].seen \in {"none", "off"}
                         \/ \E b \in Present : Place(b) = p /\ (Of(b).session.will => session'[b] # "none")
  BY ConstantParts DEF NoneLeftBehind
<1>1. CASE p = Place(c) /\ Of(c).session.will
  <2>1. status'[p] = Off
    BY <1>1, <1>f, Willed
  <2> QED BY <2>1 DEF Off
<1>2. CASE p # Place(c) \/ ~Of(c).session.will
  <2>1. status'[p] = status[p]
    BY <1>2, <1>f, Willed
  <2>2. ASSUME status[p].kept \notin {"none", "off"}
        PROVE  \E b \in Present : Place(b) = p /\ fleet.boards[b] = "RC_4_1" /\ session'[b] # "none"
    <3>1. PICK b \in Present : Place(b) = p /\ fleet.boards[b] = "RC_4_1" /\ session[b] # "none"
      BY <2>2 DEF NoneLeftBehind
    <3>2. b # c
      <4>1. Of(b).session.will = TRUE
        BY <1>f, <3>1, OnlyRC41Keeps DEF Newest
      <4> QED BY <1>2, <3>1, <4>1
    <3> QED BY <3>1, <3>2
  <2>3. ASSUME status[p].seen \notin {"none", "off"}
        PROVE  \E b \in Present : Place(b) = p /\ (Of(b).session.will => session'[b] # "none")
    <3>1. PICK b \in Present : Place(b) = p /\ (Of(b).session.will => session[b] # "none")
      BY <2>3 DEF NoneLeftBehind
    <3>2. CASE b # c
      BY <3>1, <3>2
    <3>3. CASE b = c
      BY <1>2, <3>1, <3>3
    <3> QED BY <3>2, <3>3
  <2> QED BY <2>1, <2>2, <2>3
<1> QED BY <1>1, <1>2

(* A board says "on": it has a session, and only RC_4_1 has it kept.       *)
LEMMA SaysOn ==
    ASSUME Linked, Typed, NoneLeftBehind, fleet' = fleet, NEW c \in Present, link[c] = "up", UNCHANGED session,
           status' = [status EXCEPT ![Place(c)] =
                        [seen |-> Of(c).session.on,
                         kept |-> IF Of(c).session.keepsOn THEN Of(c).session.on ELSE @.kept]]
    PROVE  /\ Typed' /\ NoneLeftBehind'
           /\ \A p \in Places : p # Place(c) => status'[p] = status[p]
           /\ Newest(c) => status'[Place(c)].kept = "on NUL"
<1>f. fleet \in Fleets /\ Place(c) \in Places
  BY LinkedPresent
<1>1. Of(c).session.on \in Seen
  BY <1>f, OnlyRC41Keeps
<1>2. /\ status' \in [Places -> [seen : Seen, kept : Seen]]
      /\ status'[Place(c)].kept = IF Of(c).session.keepsOn THEN Of(c).session.on ELSE status[Place(c)].kept
      /\ \A p \in Places : p # Place(c) => status'[p] = status[p]
  <2> DEFINE on == Of(c).session.on
             kept == IF Of(c).session.keepsOn THEN Of(c).session.on ELSE status[Place(c)].kept
  <2>1. kept \in Seen /\ on \in Seen
    BY <1>f, <1>1 DEF Typed
  <2>2. status' = [status EXCEPT ![Place(c)] = [seen |-> on, kept |-> kept]]
    OBVIOUS
  <2> HIDE DEF on, kept
  <2>3. /\ status' \in [Places -> [seen : Seen, kept : Seen]]
        /\ status'[Place(c)].kept = kept
        /\ \A p \in Places : p # Place(c) => status'[p] = status[p]
    BY <1>f, <2>1, <2>2 DEF Typed
  <2> QED BY <2>3 DEF kept
<1>3. Typed' /\ \A p \in Places : p # Place(c) => status'[p] = status[p]
  BY <1>2 DEF Typed
<1>4. /\ Newest(c) => status'[Place(c)].kept = "on NUL"
      /\ ~Newest(c) => status'[Place(c)].kept = status[Place(c)].kept
  BY <1>f, <1>2, OnlyRC41Keeps
<1>5. session[c] # "none"
  BY DEF Linked
<1>6. NoneLeftBehind'
  <2> SUFFICES ASSUME NEW p \in Places
             PROVE  /\ status'[p].kept \in {"none", "off"}
                         \/ \E b \in Present : Place(b) = p /\ fleet.boards[b] = "RC_4_1" /\ session[b] # "none"
                    /\ status'[p].seen \in {"none", "off"}
                         \/ \E b \in Present : Place(b) = p /\ (Of(b).session.will => session[b] # "none")
    BY ConstantParts DEF NoneLeftBehind
  <2>1. CASE p # Place(c)
    BY <1>3, <2>1 DEF NoneLeftBehind
  <2>2. CASE p = Place(c)
    <3>1. \E b \in Present : Place(b) = p /\ (Of(b).session.will => session[b] # "none")
      BY <1>5, <2>2
    <3>2. CASE Newest(c)
      BY <1>5, <2>2, <3>1, <3>2 DEF Newest
    <3>3. CASE ~Newest(c)
      <4>1. status'[p].kept = status[p].kept
        BY <1>4, <2>2, <3>3
      <4>2. \/ status[p].kept \in {"none", "off"}
            \/ \E b \in Present : Place(b) = p /\ fleet.boards[b] = "RC_4_1" /\ session[b] # "none"
        BY DEF NoneLeftBehind
      <4> QED BY <3>1, <4>1, <4>2
    <3> QED BY <3>2, <3>3
  <2> QED BY <2>1, <2>2
<1> QED BY <1>3, <1>4, <1>6

(* From its announcement on, an RC_4_1 that is connected is kept as "on". *)
KeptOn ==
    \A b \in Present : Newest(b) /\ link[b] = "up" =>
        /\ todo[b] = Announce => subs[b] = {}
        /\ todo[b] # Announce => status[Place(b)].kept = "on NUL"

(* Only a new connection leads to the announcement. *)
LEMMA NotAnnounce ==
    /\ \A t \in Loops \cup Handling : t # Announce
    /\ <<"ir", "rc">> # Announce /\ <<"rc">> # Announce /\ <<"check">> # Announce
<1>1. \A t \in Loops \cup Handling : Head(t) # "status"
  BY Tails DEF Loops, Handling
<1>2. Head(<<"ir", "rc">>) # "status" /\ Head(<<"rc">>) # "status" /\ Head(<<"check">>) # "status"
  BY Tails
<1>3. Head(Announce) = "status"
  BY Tails DEF Announce
<1> QED BY <1>1, <1>2, <1>3

(* Every step goes past the announcement. *)
LEMMA GoesPast ==
    ASSUME Scripted, NEW b \in Present
    PROVE  /\ Then(b, <<>>) => todo'[b] # Announce
           /\ Looping(b) /\ Then(b, Of(b).receives.callback) => todo'[b] # Announce
           /\ Head(todo[b]) # "status" => todo[b] # Announce
<1>1. ASSUME Then(b, <<>>) PROVE todo'[b] # Announce
  <2>1. Head(todo[b]) \in {"connect", "status", "ir", "rc", "loop", "loop or connect", "check", "echo", "handle"}
    BY Heads DEF Scripted
  <2>2. todo'[b] \in Loops \cup Handling \cup {<<"ir", "rc">>, <<"rc">>, <<"check">>}
    BY <1>1, <2>1, AfterPlainStep DEF Handling
  <2> QED BY <2>2, NotAnnounce
<1>2. ASSUME Looping(b), Then(b, Of(b).receives.callback) PROVE todo'[b] # Announce
  <2>1. todo'[b] \in Handling
    BY <1>2, AfterReads DEF Handling
  <2> QED BY <2>1, NotAnnounce
<1>3. Head(Announce) = "status"
  BY Tails DEF Announce
<1> QED BY <1>1, <1>2, <1>3

(* Two boards whose place is that of an RC_4_1 with a session are one.     *)
LEMMA SoleAtPlace ==
    ASSUME Linked, NEW b \in Present, NEW c \in Present, Newest(b), session[b] # "none", session[c] # "none",
           Place(c) = Place(b)
    PROVE  b = c
<1>1. SameClient(b, c)
  BY LinkedPresent, OneClientOnLoki
<1> QED BY <1>1 DEF Linked

(* A step of c that leaves the status alone.                               *)
LEMMA KeptStays ==
    ASSUME KeptOn, fleet' = fleet, NEW c \in Present, UNCHANGED status,
           \A b \in Present \ {c} : link'[b] = link[b] /\ todo'[b] = todo[b] /\ subs'[b] = subs[b],
           link'[c] = "up" => link[c] = "up" /\ todo[c] # Announce /\ todo'[c] # Announce
    PROVE  KeptOn'
<1> SUFFICES ASSUME NEW b \in Present, Newest(b), link'[b] = "up"
             PROVE  /\ todo'[b] = Announce => subs'[b] = {}
                    /\ todo'[b] # Announce => status[Place(b)].kept = "on NUL"
  BY ConstantParts DEF KeptOn
<1>1. CASE b = c
  BY <1>1 DEF KeptOn
<1>2. CASE b # c
  BY <1>2 DEF KeptOn
<1> QED BY <1>1, <1>2

(* A step that ends the session of c.                                      *)
LEMMA KeptAtEnd ==
    ASSUME Linked, Typed, KeptOn, fleet' = fleet, NEW c \in Present, session[c] # "none", status' = WillOf(c),
           \A b \in Present \ {c} : link'[b] = link[b] /\ todo'[b] = todo[b] /\ subs'[b] = subs[b],
           link'[c] # "up"
    PROVE  KeptOn'
<1> SUFFICES ASSUME NEW b \in Present, Newest(b), link'[b] = "up"
             PROVE  /\ todo'[b] = Announce => subs'[b] = {}
                    /\ todo'[b] # Announce => status'[Place(b)].kept = "on NUL"
  BY ConstantParts, ZenonT(40) DEF KeptOn
<1>1. b # c /\ link[b] = "up" /\ todo'[b] = todo[b] /\ subs'[b] = subs[b]
  OBVIOUS
<1>2. Place(c) # Place(b)
  <2>1. session[b] # "none"
    BY <1>1 DEF Linked
  <2> QED BY <1>1, <2>1, SoleAtPlace
<1>3. status'[Place(b)] = status[Place(b)]
  BY <1>2, LinkedPresent, Willed
<1> QED BY <1>1, <1>3 DEF KeptOn

(* A board without a connection is promised nothing. *)
LEMMA StopKept ==
    ASSUME Linked, KeptOn, fleet' = fleet, NEW c \in Present, Stop(c), UNCHANGED <<subs, status>>,
           \A b \in Boards \ {c} : todo'[b] = todo[b]
    PROVE  KeptOn'
<1>1. Present \subseteq Boards
  BY LinkedPresent
<1>2. link'[c] # "up" /\ \A b \in Present \ {c} : link'[b] = link[b] /\ todo'[b] = todo[b] /\ subs'[b] = subs[b]
  BY <1>1, Stopped
<1> QED BY <1>2, KeptStays

(* A step of c that goes on, past its announcement.                        *)
LEMMA PlainKept ==
    ASSUME Linked, KeptOn, fleet' = fleet, NEW c \in Present, Then(c, <<>>), Head(todo[c]) # "status",
           UNCHANGED <<link, status>>, \A b \in Present \ {c} : subs'[b] = subs[b]
    PROVE  KeptOn'
<1>1. todo'[c] # Announce /\ todo[c] # Announce /\ \A b \in Boards \ {c} : todo'[b] = todo[b]
  BY GoesPast, GoesOn DEF Linked
<1>2. Present \subseteq Boards
  BY LinkedPresent
<1>3. \A b \in Present \ {c} : link'[b] = link[b] /\ todo'[b] = todo[b] /\ subs'[b] = subs[b]
  BY <1>1, <1>2
<1> QED BY <1>1, <1>3, KeptStays

(* Nor is one whose write failed. *)
LEMMA UnwrittenKept ==
    ASSUME Linked, KeptOn, fleet' = fleet, NEW c \in Present, Unwritten(c), Then(c, <<>>)
    PROVE  KeptOn'
<1>1. \A b \in Boards \ {c} : todo'[b] = todo[b]
  BY GoesOn DEF Linked
<1>2. Present \subseteq Boards
  BY LinkedPresent
<1>3. link[c] # "up" /\ UNCHANGED <<subs, status>> /\ (UNCHANGED link \/ Stop(c))
  BY DEF Unwritten
<1>4. CASE Stop(c)
  BY <1>1, <1>3, <1>4, StopKept
<1>5. CASE UNCHANGED link
  <2>1. \A b \in Present \ {c} : link'[b] = link[b] /\ todo'[b] = todo[b] /\ subs'[b] = subs[b]
    BY <1>1, <1>2, <1>3, <1>5
  <2> QED BY <1>3, <1>5, <2>1, KeptStays
<1> QED BY <1>3, <1>4, <1>5

Told == Linked /\ Typed /\ NoneLeftBehind /\ KeptOn

(* Nothing is told in the beginning. *)
LEMMA InitTold == Init => Told
<1> SUFFICES ASSUME Init PROVE Told
  OBVIOUS
<1>1. Linked
  BY InitLinked
<1>2. Typed
  BY DEF Init, Typed, Seen
<1>3. NoneLeftBehind
  BY DEF Init, NoneLeftBehind
<1>4. KeptOn
  <2>1. \A b \in Present : link[b] = "none"
    BY <1>1, LinkedPresent DEF Init
  <2> QED BY <2>1 DEF KeptOn
<1> QED BY <1>1, <1>2, <1>3, <1>4 DEF Told

(* b connects, and the sessions of its client end.                         *)
LEMMA ConnectsTold ==
    ASSUME Told, NEW b \in Boards, Connects(b)
    PROVE  Typed' /\ NoneLeftBehind' /\ KeptOn'
<1> USE DEF Told
<1>1. /\ b \in Present /\ At(b, "connect") /\ Then(b, Of(b).session.announce) /\ fleet' = fleet
      /\ link' = [c \in Boards |-> IF c = b THEN "up"
                                   ELSE IF c \in Holders(b) /\ link[c] = "up" THEN "closed" ELSE link[c]]
      /\ session' = [c \in Boards |-> IF c = b THEN "live" ELSE IF c \in Holders(b) THEN "none" ELSE session[c]]
      /\ subs' = [c \in Boards |-> IF c = b \/ c \in Holders(b) THEN {} ELSE subs[c]]
      /\ IF Holders(b) = {} THEN UNCHANGED status ELSE \E c \in Holders(b) : status' = WillOf(c)
  BY DEF Connects, At
<1>2. Present \subseteq Boards /\ fleet \in Fleets
  BY LinkedPresent
<1>3. todo'[b] = Announce /\ \A c \in Boards \ {b} : todo'[c] = todo[c]
  BY <1>1, AfterConnects DEF Linked
<1>4. ASSUME NEW c \in Present \ {b}, c \notin Holders(b)
      PROVE  /\ link'[c] = link[c] /\ session'[c] = session[c] /\ subs'[c] = subs[c]
             /\ todo'[c] = todo[c]
  BY <1>1, <1>2, <1>3, <1>4
<1>5. session'[b] = "live" /\ subs'[b] = {}
  BY <1>1, <1>2
<1>6. ASSUME NEW c \in Present, Newest(c), c # b, link'[c] = "up"
      PROVE  link[c] = "up" /\ c \notin Holders(b)
  BY <1>1, <1>2, <1>6
<1>7. CASE Holders(b) = {}
  <2>1. UNCHANGED status
    BY <1>1, <1>7
  <2>2. \A c \in Present : session[c] # "none" => session'[c] # "none"
    BY <1>4, <1>5, <1>7
  <2>3. NoneLeftBehind' /\ Typed'
    BY <1>1, <2>1, <2>2, SessionsStay DEF Typed
  <2>4. KeptOn'
    <3> SUFFICES ASSUME NEW c \in Present, Newest(c), link'[c] = "up"
                 PROVE  /\ todo'[c] = Announce => subs'[c] = {}
                        /\ todo'[c] # Announce => status[Place(c)].kept = "on NUL"
      BY <1>1, <2>1, ConstantParts DEF KeptOn
    <3>1. CASE c = b
      BY <1>3, <1>5, <3>1
    <3>2. CASE c # b
      BY <1>4, <1>6, <3>2 DEF KeptOn
    <3> QED BY <3>1, <3>2
  <2> QED BY <2>3, <2>4
<1>8. ASSUME NEW d \in Holders(b), status' = WillOf(d)
      PROVE  Typed' /\ NoneLeftBehind' /\ KeptOn'
  <2>1. d \in Present /\ session[d] # "none" /\ SameClient(b, d)
    BY DEF Holders
  <2>2. \A c \in Present : c \in Holders(b) => c = d
    <3>1. \A c \in Present : c \in Holders(b) => SameClient(d, c) /\ session[c] # "none"
      BY <2>1 DEF Holders, SameClient
    <3> QED BY <2>1, <3>1 DEF Linked
  <2>3. \A c \in Present \ {d} : session[c] # "none" => session'[c] # "none"
    BY <1>4, <1>5, <2>2
  <2>4. Typed'
    BY <1>2, <1>8, <2>1, LinkedPresent, Willed
  <2>5. NoneLeftBehind'
    BY <1>1, <1>8, <2>1, <2>3, SessionEnds
  <2>6. KeptOn'
    <3> SUFFICES ASSUME NEW c \in Present, Newest(c), link'[c] = "up"
                 PROVE  /\ todo'[c] = Announce => subs'[c] = {}
                        /\ todo'[c] # Announce => status'[Place(c)].kept = "on NUL"
      BY <1>1, ConstantParts DEF KeptOn
    <3>1. CASE c = b
      BY <1>3, <1>5, <3>1
    <3>2. CASE c # b
      <4>1. link[c] = "up" /\ c \notin Holders(b)
        BY <1>6, <3>2
      <4>2. session[c] # "none"
        BY <4>1 DEF Linked
      <4>3. c # d
        BY <4>1
      <4>4. Place(d) # Place(c)
        BY <2>1, <4>2, <4>3, SoleAtPlace
      <4>5. status'[Place(c)] = status[Place(c)]
        BY <1>2, <1>8, <2>1, <4>4, LinkedPresent, Willed
      <4> QED BY <1>4, <3>2, <4>1, <4>5 DEF KeptOn
    <3> QED BY <3>1, <3>2
  <2> QED BY <2>4, <2>5, <2>6
<1> QED BY <1>1, <1>7, <1>8

(* b publishes its status. *)
LEMMA AnnouncesTold ==
    ASSUME Told, NEW b \in Boards, AnnouncesStatus(b)
    PROVE  Typed' /\ NoneLeftBehind' /\ KeptOn'
<1> USE DEF Told
<1>1. b \in Present /\ At(b, "status") /\ Head(todo[b]) = "status" /\ Then(b, <<>>) /\ UNCHANGED fleet
  BY DEF AnnouncesStatus, At
<1>2. \A c \in Boards \ {b} : todo'[c] = todo[c]
  BY <1>1, GoesOn DEF Linked
<1>3. CASE Unwritten(b)
  <2>1. KeptOn'
    BY <1>1, <1>3, UnwrittenKept
  <2>2. UNCHANGED status /\ (UNCHANGED session \/ Stop(b))
    BY <1>3 DEF Unwritten
  <2>3. \A c \in Present : session[c] # "none" => session'[c] # "none"
    BY <1>1, <2>2, LinkedPresent, Stopped
  <2> QED BY <1>1, <2>1, <2>2, <2>3, SessionsStay DEF Typed
<1>4. CASE ~Unwritten(b)
  <2>1. /\ link[b] = "up" /\ UNCHANGED <<link, rx, session, subs>>
        /\ status' = [status EXCEPT ![Place(b)] =
                         [seen |-> Of(b).session.on,
                          kept |-> IF Of(b).session.keepsOn THEN Of(b).session.on ELSE @.kept]]
    BY <1>4 DEF AnnouncesStatus
  <2>2. /\ Typed' /\ NoneLeftBehind'
        /\ \A p \in Places : p # Place(b) => status'[p] = status[p]
        /\ Newest(b) => status'[Place(b)].kept = "on NUL"
    BY <1>1, <2>1, SaysOn
  <2>3. KeptOn'
    <3> SUFFICES ASSUME NEW c \in Present, Newest(c), link[c] = "up"
                 PROVE  /\ todo'[c] = Announce => subs[c] = {}
                        /\ todo'[c] # Announce => status'[Place(c)].kept = "on NUL"
      BY <1>1, <2>1, ConstantParts DEF KeptOn
    <3>1. CASE c = b
      <4>1. todo'[c] # Announce
        BY <1>1, <3>1, GoesPast DEF Linked
      <4> QED BY <2>2, <3>1, <4>1
    <3>2. CASE c # b
      <4>1. session[c] # "none" /\ session[b] # "none"
        BY <1>1, <2>1 DEF Linked
      <4>2. Place(b) # Place(c)
        BY <1>1, <3>2, <4>1, SoleAtPlace
      <4>3. status'[Place(c)] = status[Place(c)]
        BY <2>2, <4>2, LinkedPresent
      <4>4. todo'[c] = todo[c]
        BY <1>2, <3>2, LinkedPresent
      <4> QED BY <4>3, <4>4 DEF KeptOn
    <3> QED BY <3>1, <3>2
  <2> QED BY <2>2, <2>3
<1> QED BY <1>3, <1>4

(* Every step keeps the status right. *)
LEMMA NextTold == Told /\ [Next]_vars => Told'
<1> SUFFICES ASSUME Told, [Next]_vars PROVE Typed' /\ NoneLeftBehind' /\ KeptOn'
  BY NextLinked DEF Told
<1> USE DEF Told
<1>p. Present \subseteq Boards
  BY LinkedPresent
<1>t. ASSUME NEW b \in Present, fleet' = fleet, UNCHANGED status, UNCHANGED session \/ Stop(b)
      PROVE  Typed' /\ NoneLeftBehind'
  <2>1. \A c \in Present : session[c] # "none" => session'[c] # "none"
    BY <1>p, <1>t, Stopped
  <2> QED BY <1>t, <2>1, SessionsStay DEF Typed
<1>1. ASSUME NEW b \in Boards, ConnectFails(b) PROVE Typed' /\ NoneLeftBehind' /\ KeptOn'
  <2>1. b \in Present /\ Then(b, <<>>) /\ Stop(b) /\ UNCHANGED <<fleet, subs, status>>
    BY <1>1 DEF ConnectFails, At
  <2>2. \A c \in Boards \ {b} : todo'[c] = todo[c]
    BY <2>1, GoesOn DEF Linked
  <2>3. KeptOn'
    BY <2>1, <2>2, StopKept
  <2> QED BY <1>t, <2>1, <2>3
<1>2. ASSUME NEW b \in Boards, Connects(b) PROVE Typed' /\ NoneLeftBehind' /\ KeptOn'
  BY <1>2, ConnectsTold
<1>3. ASSUME NEW b \in Boards, AnnouncesStatus(b) PROVE Typed' /\ NoneLeftBehind' /\ KeptOn'
  BY <1>3, AnnouncesTold
<1>4. ASSUME NEW b \in Boards, Subscribes(b, "ir") \/ Subscribes(b, "rc") PROVE Typed' /\ NoneLeftBehind' /\ KeptOn'
  <2>1. /\ b \in Present /\ Head(todo[b]) \in {"ir", "rc"} /\ Then(b, <<>>) /\ UNCHANGED <<fleet, status>>
        /\ Unwritten(b) \/ (UNCHANGED <<link, session>> /\ \A c \in Present \ {b} : subs'[c] = subs[c])
    BY <1>4, <1>p DEF Subscribes, At, Unwritten, Linked
  <2>2. UNCHANGED session \/ Stop(b)
    BY <2>1 DEF Unwritten
  <2>3. KeptOn'
    BY <2>1, PlainKept, UnwrittenKept
  <2> QED BY <1>t, <2>1, <2>2, <2>3
<1>5. ASSUME NEW b \in Boards, Reads(b) PROVE Typed' /\ NoneLeftBehind' /\ KeptOn'
  <2>1. /\ b \in Present /\ Looping(b) /\ Head(todo[b]) # "status" /\ Then(b, Of(b).receives.callback)
        /\ UNCHANGED <<fleet, link, session, subs, status>>
    BY <1>5 DEF Reads, Looping, At
  <2>2. todo[b] # Announce /\ todo'[b] # Announce /\ \A c \in Boards \ {b} : todo'[c] = todo[c]
    BY <2>1, GoesPast, ReadsOn DEF Linked
  <2>3. \A c \in Present \ {b} : link'[c] = link[c] /\ todo'[c] = todo[c] /\ subs'[c] = subs[c]
    BY <1>p, <2>1, <2>2
  <2>4. KeptOn'
    BY <2>1, <2>2, <2>3, KeptStays
  <2> QED BY <1>t, <2>1, <2>4
<1>6. ASSUME NEW b \in Boards, Idles(b) \/ Handles(b) PROVE Typed' /\ NoneLeftBehind' /\ KeptOn'
  <2>1. b \in Present /\ Head(todo[b]) # "status" /\ Then(b, <<>>) /\ UNCHANGED <<fleet, link, session, subs, status>>
    BY <1>6 DEF Idles, Handles, Looping, At
  <2>2. KeptOn'
    BY <2>1, PlainKept
  <2> QED BY <1>t, <2>1, <2>2
<1>7. ASSUME NEW b \in Boards, FindsGone(b) PROVE Typed' /\ NoneLeftBehind' /\ KeptOn'
  <2>1. b \in Present /\ Stop(b) /\ UNCHANGED <<fleet, subs, status>>
    BY <1>7 DEF FindsGone, Looping, At
  <2>2. \A c \in Boards \ {b} : todo'[c] = todo[c]
    <3>1. CASE At(b, "loop or connect")
      <4>1. Then(b, <<"connect">>)
        BY <1>7, <3>1 DEF FindsGone
      <4> QED BY <2>1, <3>1, <4>1, BackToConnect DEF Linked
    <3>2. CASE ~At(b, "loop or connect")
      <4>1. Then(b, <<>>)
        BY <1>7, <3>2 DEF FindsGone
      <4> QED BY <2>1, <4>1, GoesOn DEF Linked
    <3> QED BY <3>1, <3>2
  <2>3. KeptOn'
    BY <2>1, <2>2, StopKept
  <2> QED BY <1>t, <2>1, <2>3
<1>8. ASSUME NEW b \in Boards, Checks(b) PROVE Typed' /\ NoneLeftBehind' /\ KeptOn'
  <2>1. b \in Present /\ At(b, "check") /\ Head(todo[b]) = "check" /\ UNCHANGED <<fleet, subs, status>>
    BY <1>8 DEF Checks, At
  <2>2. CASE Connected(b)
    <3>1. Then(b, <<>>) /\ UNCHANGED <<link, session>>
      BY <1>8, <2>2 DEF Checks
    <3>2. KeptOn'
      BY <2>1, <3>1, PlainKept
    <3> QED BY <1>t, <2>1, <3>1, <3>2
  <2>3. CASE ~Connected(b)
    <3>1. Then(b, <<"connect">>) /\ Stop(b)
      BY <1>8, <2>3 DEF Checks
    <3>2. \A c \in Boards \ {b} : todo'[c] = todo[c]
      BY <2>1, <3>1, BackToConnect DEF Linked
    <3>3. KeptOn'
      BY <2>1, <3>1, <3>2, StopKept
    <3> QED BY <1>t, <2>1, <3>1, <3>3
  <2> QED BY <2>2, <2>3
<1>9. ASSUME NEW b \in Boards, Echoes(b) PROVE Typed' /\ NoneLeftBehind' /\ KeptOn'
  <2>1. /\ b \in Present /\ Head(todo[b]) = "echo" /\ Then(b, <<>>) /\ UNCHANGED <<fleet, status>>
        /\ Unwritten(b) \/ UNCHANGED <<link, session, subs>>
    BY <1>9 DEF Echoes, At, Unwritten
  <2>2. UNCHANGED session \/ Stop(b)
    BY <2>1 DEF Unwritten
  <2>3. KeptOn'
    BY <2>1, PlainKept, UnwrittenKept
  <2> QED BY <1>t, <2>1, <2>2, <2>3
<1>10. ASSUME NEW b \in Boards, Reset(b) PROVE Typed' /\ NoneLeftBehind' /\ KeptOn'
  <2>1. b \in Present /\ Stop(b) /\ todo' = [todo EXCEPT ![b] = Of(b).session.setup] /\ UNCHANGED <<fleet, subs, status>>
    BY <1>10 DEF Reset
  <2>2. \A c \in Boards \ {b} : todo'[c] = todo[c]
    BY <2>1 DEF Linked, Scripted
  <2>3. KeptOn'
    BY <2>1, <2>2, StopKept
  <2> QED BY <1>t, <2>1, <2>3
<1>11. ASSUME NEW b \in Boards, BrokerDetects(b) \/ BrokerCloses(b) PROVE Typed' /\ NoneLeftBehind' /\ KeptOn'
  <2>1. b \in Present /\ session[b] # "none"
    <3>1. session[b] = "stale" \/ link[b] = "up"
      BY <1>11 DEF BrokerDetects, BrokerCloses
    <3> QED BY <3>1 DEF Linked
  <2>2. /\ UNCHANGED <<fleet, todo>> /\ status' = WillOf(b)
        /\ \A c \in Present \ {b} : link'[c] = link[c] /\ todo'[c] = todo[c] /\ subs'[c] = subs[c] /\ session'[c] = session[c]
    BY <1>11, <1>p DEF BrokerDetects, BrokerCloses, Linked, board
  <2>3. link'[b] # "up"
    BY <1>11, <2>1 DEF BrokerDetects, BrokerCloses, Linked, board
  <2>4. Typed'
    BY <2>1, <2>2, LinkedPresent, Willed
  <2>5. NoneLeftBehind'
    BY <2>1, <2>2, SessionEnds
  <2>6. KeptOn'
    BY <2>1, <2>2, <2>3, KeptAtEnd
  <2> QED BY <2>4, <2>5, <2>6
<1>12. ASSUME NEW b \in Boards, LinkBreaks(b) PROVE Typed' /\ NoneLeftBehind' /\ KeptOn'
  <2>1. b \in Present
    BY <1>12 DEF LinkBreaks, Linked
  <2>2. /\ UNCHANGED <<fleet, todo, status, subs>> /\ link' = [link EXCEPT ![b] = "broken"]
        /\ session' = [session EXCEPT ![b] = "stale"]
    BY <1>12 DEF LinkBreaks
  <2>3. link'[b] # "up" /\ \A c \in Present \ {b} : link'[c] = link[c] /\ todo'[c] = todo[c] /\ subs'[c] = subs[c]
    BY <1>p, <2>1, <2>2 DEF Linked
  <2>4. \A c \in Present : session[c] # "none" => session'[c] # "none"
    BY <1>p, <2>1, <2>2 DEF Linked
  <2>5. KeptOn'
    BY <2>1, <2>2, <2>3, KeptStays
  <2> QED BY <2>2, <2>4, <2>5, SessionsStay DEF Typed
<1>13. CASE UNCHANGED <<fleet, todo, link, session, subs, status>>
  <2>1. KeptOn'
    BY <1>13, ConstantParts DEF KeptOn
  <2>2. NoneLeftBehind'
    BY <1>13, SessionsStay
  <2> QED BY <1>13, <2>1, <2>2 DEF Typed
<1>14. CASE \E c \in fleet.commands : UserPublishes(c)
  BY <1>13, <1>14 DEF UserPublishes
<1>15. CASE UNCHANGED vars
  BY <1>13, <1>15 DEF vars
<1> QED BY <1>1, <1>2, <1>3, <1>4, <1>5, <1>6, <1>7, <1>8, <1>9, <1>10, <1>11, <1>12, <1>14, <1>15 DEF Next, Step

-------------------------------------------------------------------------------
(* What is kept on .../last *)

(* The versions from RC_2 on have .../last retained. *)
LEMMA KeepsLast ==
    ASSUME fleet \in Fleets, NEW b \in Present, fleet.boards[b] \notin First
    PROVE  Of(b).receives.keepsLast = TRUE
<1>1. fleet.boards[b] \in ForFixed \cup ByAddress
  BY PresentBoards, Names
<1>2. /\ RC_2_Receives.keepsLast = TRUE /\ RC_3_Receives.keepsLast = TRUE /\ RC_3_WAN_Receives.keepsLast = TRUE
      /\ RC_4_Receives.keepsLast = TRUE /\ RC_4_DEL_Receives.keepsLast = TRUE /\ RC_4_1_Receives.keepsLast = TRUE
      /\ RC_5_Receives.keepsLast = TRUE /\ RC_6_Receives.keepsLast = TRUE
  BY DEF RC_1_Receives, RC_2_Receives, RC_3_Receives, RC_3_WAN_Receives, RC_4_Receives,
         RC_4_DEL_Receives, RC_4_1_Receives, RC_5_Receives, RC_6_Receives
<1> QED BY <1>1, <1>2, Parts DEF Of, ForFixed, ByAddress

(* A board on which nothing has failed is connected, or not yet; what it   *)
(* is about to handle is kept, and so is what it handled last.             *)
KeepsUp(b) ==
    /\ link[b] = "up" \/ Head(todo[b]) = "connect"
    /\ fleet.boards[b] \notin First =>
         /\ Head(todo[b]) = "handle" => last[Place(b)] = current[b]
         /\ current[b] = None => last[Place(b)] = handled[b]

LastKept ==
    /\ DOMAIN last = Places /\ faults \in Nat /\ faults <= fleet.faults
    /\ \A b \in Present : Present = {b} /\ faults = fleet.faults => KeepsUp(b)

(* Nothing is kept or handled in the beginning. *)
LEMMA InitLast == Init => LastKept
<1> SUFFICES ASSUME Init PROVE LastKept
  OBVIOUS
<1>1. fleet \in Fleets /\ Present \subseteq Boards
  BY PresentBoards DEF Init
<1>2. DOMAIN last = Places /\ faults \in Nat /\ faults <= fleet.faults
  BY <1>1, FleetsAssumption DEF Init
<1>3. ASSUME NEW b \in Present PROVE KeepsUp(b)
  <2>1. todo[b] = <<"connect">> /\ handled[b] = None
    BY <1>1, OwnScripts DEF Init
  <2>2. Place(b) \in Places
    BY <1>1, PresentBoards, PlacesOf DEF Place, Of
  <2>3. last[Place(b)] = None
    BY <2>2 DEF Init
  <2>4. Head(todo[b]) = "connect"
    BY <2>1, Tails
  <2> QED BY <2>1, <2>3, <2>4 DEF KeepsUp
<1> QED BY <1>2, <1>3 DEF LastKept

(* After a fault nothing is promised. *)
LEMMA FaultLast ==
    ASSUME LastKept, fleet \in Fleets, Fault, UNCHANGED <<fleet, last>>
    PROVE  LastKept'
<1>1. fleet.faults \in Nat
  BY FleetsAssumption
<1>2. faults \in Nat /\ faults > 0 /\ faults' = faults - 1 /\ faults <= fleet.faults
  BY DEF Fault, LastKept
<1>3. faults' \in Nat /\ faults' <= fleet'.faults /\ faults' # fleet'.faults
  BY <1>1, <1>2
<1> QED BY <1>3 DEF LastKept

(* A step of b, or one about it, that is not a fault. *)
LEMMA StepLast ==
    ASSUME LastKept, UNCHANGED <<fleet, faults>>, NEW b \in Present, DOMAIN last' = Places,
           KeepsUp(b) /\ Present = {b} => KeepsUp(b)'
    PROVE  LastKept'
<1>1. Present' = Present
  BY ConstantParts
<1>2. ASSUME NEW c \in Present, Present = {c}, faults = fleet.faults PROVE KeepsUp(c)'
  <2>1. c = b /\ Present = {b}
    BY <1>2
  <2>2. KeepsUp(b)
    BY <1>2, <2>1 DEF LastKept
  <2>3. KeepsUp(b)'
    BY <2>1, <2>2
  <2> QED BY <2>1, <2>3
<1>3. faults' \in Nat /\ faults' <= fleet'.faults
  BY DEF LastKept
<1>4. ASSUME NEW c \in Present', Present' = {c}, faults' = fleet'.faults PROVE KeepsUp(c)'
  BY <1>1, <1>2, <1>4
<1> QED BY <1>3, <1>4 DEF LastKept

(* One that handles nothing and keeps nothing. *)
LEMMA PlainLast ==
    ASSUME LastKept, UNCHANGED <<fleet, faults, last, current, handled>>, NEW b \in Present,
           KeepsUp(b) => link'[b] = "up" /\ Head(todo'[b]) # "handle"
    PROVE  LastKept'
<1>1. ASSUME KeepsUp(b) PROVE KeepsUp(b)'
  <2>1. Place(b)' = Place(b)
    BY ConstantParts
  <2>2. link'[b] = "up" /\ Head(todo'[b]) # "handle"
    BY <1>1
  <2> QED BY <1>1, <2>1, <2>2 DEF KeepsUp
<1>2. DOMAIN last' = Places
  BY DEF LastKept
<1> QED BY <1>1, <1>2, StepLast

(* Only a message that was kept is handled next. *)
LEMMA HandledNext ==
    ASSUME Scripted, NEW b \in Present, Then(b, <<>>), Head(todo[b]) # "echo"
    PROVE  Head(todo'[b]) # "handle"
<1>1. Head(todo[b]) \in {"connect", "status", "ir", "rc", "loop", "loop or connect", "check", "handle"}
  BY Heads DEF Scripted
<1>2. todo'[b] \in Loops \cup {<<"ir", "rc">>, <<"rc">>, <<"check">>}
  BY <1>1, AfterPlainStep
<1>3. \A t \in Loops \cup {<<"ir", "rc">>, <<"rc">>, <<"check">>} : Head(t) # "handle"
  BY Tails DEF Loops
<1> QED BY <1>2, <1>3

(* Every step keeps .../last right. *)
LEMMA NextLast == Linked /\ Scripted' /\ LastKept /\ [Next]_vars => LastKept'
<1> SUFFICES ASSUME Linked, Scripted', LastKept, [Next]_vars PROVE LastKept'
  OBVIOUS
<1> USE DEF Linked
<1>f. fleet \in Fleets /\ Present \subseteq Boards
  BY LinkedPresent
<1>l. DOMAIN last = Places
  BY DEF LastKept
<1>u. \A b \in Present : KeepsUp(b) /\ Head(todo[b]) # "connect" => link[b] = "up" /\ ~Unwritten(b) /\ Connected(b)
  BY DEF KeepsUp, Unwritten, Connected
<1>1. ASSUME NEW b \in Boards, ConnectFails(b) \/ Reset(b) \/ LinkBreaks(b) \/ BrokerCloses(b) PROVE LastKept'
  <2>1. Fault /\ UNCHANGED <<fleet, last>>
    BY <1>1 DEF ConnectFails, Reset, LinkBreaks, BrokerCloses
  <2> QED BY <1>f, <2>1, FaultLast
<1>2. ASSUME NEW b \in Boards, Connects(b) PROVE LastKept'
  <2>1. /\ b \in Present /\ At(b, "connect") /\ Then(b, Of(b).session.announce) /\ link'[b] = "up"
        /\ UNCHANGED <<fleet, faults, last, current, handled>>
    BY <1>2 DEF Connects, At
  <2>2. todo'[b] = Announce
    BY <2>1, AfterConnects
  <2>3. Head(todo'[b]) # "handle"
    BY <2>2, Tails DEF Announce
  <2> QED BY <2>1, <2>3, PlainLast
<1>3. ASSUME NEW b \in Boards, AnnouncesStatus(b) \/ Subscribes(b, "ir") \/ Subscribes(b, "rc") PROVE LastKept'
  <2>1. /\ b \in Present /\ Head(todo[b]) \in {"status", "ir", "rc"} /\ Then(b, <<>>)
        /\ UNCHANGED <<fleet, faults, current, handled>> /\ UNCHANGED last
        /\ Unwritten(b) \/ UNCHANGED link
    BY <1>3 DEF AnnouncesStatus, Subscribes, At, Unwritten
  <2>2. Head(todo'[b]) # "handle"
    BY <2>1, HandledNext
  <2>3. KeepsUp(b) => link'[b] = "up"
    BY <1>u, <2>1
  <2> QED BY <2>1, <2>2, <2>3, PlainLast
<1>4. ASSUME NEW b \in Boards, Reads(b) PROVE LastKept'
  <2>1. /\ b \in Present /\ Looping(b) /\ Head(todo[b]) # "connect" /\ Then(b, Of(b).receives.callback)
        /\ UNCHANGED <<fleet, link, last, handled, faults>>
    BY <1>4 DEF Reads, Looping, At
  <2>2. todo'[b] \in {<<"echo", "handle">>, <<"echo", "handle", "check">>}
    BY <2>1, AfterReads
  <2>3. Head(todo'[b]) = "echo"
    BY <2>2, Tails
  <2>4. current'[b] # None
    BY <2>1, <2>2, ConstantParts DEF Scripted, Handling
  <2>5. KeepsUp(b) => KeepsUp(b)'
    BY <1>u, <2>1, <2>3, <2>4 DEF KeepsUp
  <2> QED BY <1>l, <2>1, <2>5, StepLast
<1>5. ASSUME NEW b \in Boards, Idles(b) PROVE LastKept'
  <2>1. /\ b \in Present /\ Head(todo[b]) # "echo" /\ link'[b] = "up" /\ Then(b, <<>>)
        /\ UNCHANGED <<fleet, last, current, handled, faults>>
    BY <1>5 DEF Idles, Looping, At
  <2>2. Head(todo'[b]) # "handle"
    BY <2>1, HandledNext
  <2> QED BY <2>1, <2>2, PlainLast
<1>6. ASSUME NEW b \in Boards, FindsGone(b) PROVE LastKept'
  <2>1. /\ b \in Present /\ Head(todo[b]) # "connect" /\ link[b] # "up"
        /\ UNCHANGED <<fleet, last, current, handled, faults>>
    BY <1>6 DEF FindsGone, Looping, At, Connected
  <2>2. ~KeepsUp(b)
    BY <1>u, <2>1
  <2> QED BY <1>l, <2>1, <2>2, StepLast
<1>7. ASSUME NEW b \in Boards, Checks(b) PROVE LastKept'
  <2>1. /\ b \in Present /\ Head(todo[b]) = "check" /\ (Connected(b) => Then(b, <<>>) /\ UNCHANGED link)
        /\ UNCHANGED <<fleet, last, current, handled, faults>>
    BY <1>7 DEF Checks, At
  <2>2. ASSUME KeepsUp(b) PROVE link'[b] = "up" /\ Head(todo'[b]) # "handle"
    <3>1. link[b] = "up" /\ Then(b, <<>>) /\ UNCHANGED link
      BY <1>u, <2>1, <2>2
    <3>2. Head(todo'[b]) # "handle"
      BY <2>1, <3>1, HandledNext
    <3> QED BY <3>1, <3>2
  <2> QED BY <2>1, <2>2, PlainLast
<1>8. ASSUME NEW b \in Boards, Echoes(b) PROVE LastKept'
  <2>1. /\ b \in Present /\ At(b, "echo") /\ Head(todo[b]) = "echo" /\ UNCHANGED <<fleet, current, handled, faults>>
    BY <1>8 DEF Echoes, At
  <2>2. DOMAIN last' = Places
    BY <1>8, <1>l DEF Echoes, Unwritten
  <2>3. ASSUME KeepsUp(b) PROVE KeepsUp(b)'
    <3>1. link[b] = "up" /\ ~Unwritten(b)
      BY <1>u, <2>1, <2>3
    <3>2. /\ link'[b] = "up"
          /\ last' = [last EXCEPT ![Place(b)] = IF Of(b).receives.keepsLast THEN current[b] ELSE @]
      BY <1>8, <3>1 DEF Echoes
    <3>3. Place(b)' = Place(b) /\ Place(b) \in Places
      BY <2>1, ConstantParts, LinkedPresent
    <3>4. current[b] # None
      BY <2>1, HandlingHeads DEF Scripted
    <3>5. fleet.boards[b] \notin First => last'[Place(b)] = current[b]
      BY <1>f, <1>l, <2>1, <3>2, <3>3, KeepsLast
    <3> QED BY <2>1, <3>2, <3>3, <3>4, <3>5 DEF KeepsUp
  <2> QED BY <2>1, <2>2, <2>3, StepLast
<1>9. ASSUME NEW b \in Boards, Handles(b) PROVE LastKept'
  <2>1. /\ b \in Present /\ Head(todo[b]) = "handle" /\ Then(b, <<>>) /\ UNCHANGED <<fleet, link, last, faults>>
        /\ handled' = [handled EXCEPT ![b] = current[b]] /\ current' = [current EXCEPT ![b] = None]
    BY <1>9 DEF Handles, At
  <2>2. Head(todo'[b]) # "handle"
    BY <2>1, HandledNext
  <2>3. ASSUME KeepsUp(b) PROVE KeepsUp(b)'
    <3>1. handled'[b] = current[b] /\ Place(b)' = Place(b)
      BY <1>f, <2>1, ConstantParts DEF Scripted, Delivered
    <3>2. link[b] = "up"
      BY <1>u, <2>1, <2>3
    <3>3. fleet.boards[b] \notin First => last[Place(b)] = current[b]
      BY <2>1, <2>3 DEF KeepsUp
    <3> QED BY <2>1, <2>2, <3>1, <3>2, <3>3 DEF KeepsUp
  <2> QED BY <1>l, <2>1, <2>3, StepLast
<1>10. CASE UNCHANGED <<fleet, todo, link, current, handled, last, faults>>
  <2>1. Present' = Present /\ \A b : KeepsUp(b)' <=> KeepsUp(b)
    BY <1>10, ConstantParts DEF KeepsUp
  <2> QED BY <1>10, <2>1 DEF LastKept
<1>11. ASSUME NEW b \in Boards, BrokerDetects(b) PROVE LastKept'
  BY <1>10, <1>11 DEF BrokerDetects, board
<1>12. CASE \E c \in fleet.commands : UserPublishes(c)
  BY <1>10, <1>12 DEF UserPublishes
<1>13. CASE UNCHANGED vars
  BY <1>10, <1>13 DEF vars
<1> QED BY <1>1, <1>2, <1>3, <1>4, <1>5, <1>6, <1>7, <1>8, <1>9, <1>11, <1>12, <1>13 DEF Next, Step

-------------------------------------------------------------------------------
(* Together they are what late subscribers are promised. *)
LEMMA ToldMeans == Told /\ LastKept => LateSubscribersToldRight
<1> SUFFICES ASSUME Told, LastKept PROVE LateSubscribersToldRight
  OBVIOUS
<1>1. ASSUME NEW b \in Present, Serving(b), fleet.boards[b] = "RC_4_1" PROVE status[Place(b)].kept = "on NUL"
  <2>1. link[b] = "up" /\ subs[b] # {}
    BY <1>1 DEF Serving
  <2> QED BY <1>1, <2>1 DEF Told, KeptOn, Newest
<1>2. ASSUME NEW b \in Present, Present = {b}, faults = fleet.faults, current[b] = None,
             fleet.boards[b] \notin {"RC_1", "RC_1_1"}
      PROVE  last[Place(b)] = handled[b]
  BY <1>2 DEF LastKept, KeepsUp, First
<1> QED BY <1>1, <1>2 DEF LateSubscribersToldRight, Told, NoneLeftBehind

(* LateSubscribersToldRight in every reachable state: the retained status  *)
(* and the retained .../last are right, for every set of boards and of     *)
(* commands (startmqtt, callback).                                         *)
THEOREM AlwaysToldRight == Spec => []LateSubscribersToldRight
<1>1. Init => Told /\ LastKept
  BY InitTold, InitLast
<1>2. (Told /\ LastKept) /\ [Next]_vars => (Told /\ LastKept)'
  <2> SUFFICES ASSUME Told, LastKept, [Next]_vars PROVE Told' /\ LastKept'
    OBVIOUS
  <2>1. Told'
    BY NextTold
  <2>2. Scripted'
    BY <2>1 DEF Told, Linked
  <2>3. LastKept'
    BY <2>2, NextLast DEF Told
  <2> QED BY <2>1, <2>3
<1> QED BY <1>1, <1>2, ToldMeans, PTL DEF Spec
===============================================================================
