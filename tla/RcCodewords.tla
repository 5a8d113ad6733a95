------------------------------- MODULE RcCodewords ------------------------------
(***************************************************************************)
(* The codewords of RCSwitch for the outlets of the types A, B, C and D,   *)
(* and what the outlets listen to.                                         *)
(*                                                                         *)
(* The outlets are not part of the repository; what they listen to is      *)
(* written down from how their makers number them, and independently of    *)
(* the tables of the code.                                                 *)
(***************************************************************************)
EXTENDS Naturals, Sequences

Digits == {"0", "1", "2", "3", "4", "5", "6", "7", "8", "9"}
DigitValue == [c \in Digits |->
    CASE c = "0" -> 0 [] c = "1" -> 1 [] c = "2" -> 2 [] c = "3" -> 3 [] c = "4" -> 4
      [] c = "5" -> 5 [] c = "6" -> 6 [] c = "7" -> 7 [] c = "8" -> 8 [] c = "9" -> 9]
Letters == <<"a", "b", "c", "d", "e", "f", "g", "h", "i", "j", "k", "l", "m", "n", "o", "p">>
NUL == "NUL"

States == {"0", "1"}       \* off and on, as the commands have them
Dips == [1..5 -> States]   \* five DIP switches, "1" is on
OneToFour == {<<"1">>, <<"2">>, <<"3">>, <<"4">>}

(* Type 1 has two rows of DIP switches, type 2 two rotary switches, type 3 *)
(* (Intertechno) a family, a group and a device, type 4 (REV) a group from *)
(* a to d and a device.  The family is ignored but for type 3.             *)
Texts == Seq(STRING)

IsAddress(a) ==
    /\ a \in [type : STRING, family : Texts, group : Texts, device : Texts]
    /\ \/ a.type = "1" /\ a.family = <<>> /\ a.group \in Dips /\ a.device \in Dips
       \/ a.type = "2" /\ a.family = <<>> /\ a.group \in OneToFour /\ a.device \in OneToFour
       \/ /\ a.type = "3" /\ \E n \in 1..16 : a.family = <<Letters[n]>>
          /\ a.group \in OneToFour /\ a.device \in OneToFour
       \/ /\ a.type = "4" /\ a.family = <<>>
          /\ \E n \in 1..4 : a.group = <<Letters[n]>>
          /\ a.device \in OneToFour \ {<<"4">>}

-------------------------------------------------------------------------------
(* The codewords of RCSwitch.  "0", "1" and "F" are its tri-state bits. *)

Bit(n, k) == (n \div <<1, 2, 4, 8>>[k + 1]) % 2

Dip(c) == IF c = "0" THEN "F" ELSE "0"

WordA(group, device, on) ==
    [i \in 1..12 |->
        CASE i \in 1..5 -> Dip(group[i])
          [] i \in 6..10 -> Dip(device[i - 5])
          [] i = 11 -> IF on THEN "0" ELSE "F"
          [] i = 12 -> IF on THEN "F" ELSE "0"]

RotaryCode ==
    <<<<"0", "F", "F", "F">>, <<"F", "0", "F", "F">>, <<"F", "F", "0", "F">>, <<"F", "F", "F", "0">>>>

(* Mutant: group and device are exchanged. *)
WordBExchanged(group, device, on) ==
    [i \in 1..12 |->
        CASE i \in 1..4 -> RotaryCode[device][i]
          [] i \in 5..8 -> RotaryCode[group][i - 4]
          [] i \in 9..11 -> "F"
          [] i = 12 -> IF on THEN "F" ELSE "0"]

WordB(group, device, on) ==
    [i \in 1..12 |->
        CASE i \in 1..4 -> RotaryCode[group][i]
          [] i \in 5..8 -> RotaryCode[device][i - 4]
          [] i \in 9..11 -> "F"
          [] i = 12 -> IF on THEN "F" ELSE "0"]

FamilyCode ==
    <<<<"0", "0", "0", "0">>, <<"F", "0", "0", "0">>, <<"0", "F", "0", "0">>, <<"F", "F", "0", "0">>,
      <<"0", "0", "F", "0">>, <<"F", "0", "F", "0">>, <<"0", "F", "F", "0">>, <<"F", "F", "F", "0">>,
      <<"0", "0", "0", "F">>, <<"F", "0", "0", "F">>, <<"0", "F", "0", "F">>, <<"F", "F", "0", "F">>,
      <<"0", "0", "F", "F">>, <<"F", "0", "F", "F">>, <<"0", "F", "F", "F">>, <<"F", "F", "F", "F">>>>

(* dec2binWcharfill() for four bits: the highest one first. *)
Dec2Bin(n, fill) == [i \in 1..4 |-> IF Bit(n, 4 - i) = 1 THEN "1" ELSE fill]

(* Mutant: the bits are taken in the order they are stored in.             *)
WordCForwards(family, group, device, on) ==
    [i \in 1..12 |->
        CASE i \in 1..4 -> FamilyCode[family][i]
          [] i \in 5..8 -> IF Dec2Bin((device - 1) + (group - 1) * 4, "0")[i - 4] = "1" THEN "F" ELSE "0"
          [] i = 9 -> "0"
          [] i \in 10..11 -> "F"
          [] i = 12 -> IF on THEN "F" ELSE "0"]

WordC(family, group, device, on) ==
    [i \in 1..12 |->
        CASE i \in 1..4 -> FamilyCode[family][i]
          [] i \in 5..8 -> IF Dec2Bin((device - 1) + (group - 1) * 4, "0")[9 - i] = "1" THEN "F" ELSE "0"
          [] i = 9 -> "0"
          [] i \in 10..11 -> "F"
          [] i = 12 -> IF on THEN "F" ELSE "0"]

(* One place of four or of three carries the "1"; on and off stand last.   *)
WordD(group, device, on) ==
    [i \in 1..12 |->
        CASE i \in 1..4 -> IF Letters[i] = group THEN "1" ELSE "F"
          [] i \in 5..7 -> IF i = 4 + device THEN "1" ELSE "F"
          [] i \in 8..10 -> "0"
          [] i = 11 -> IF on THEN "1" ELSE "0"
          [] i = 12 -> IF on THEN "0" ELSE "1"]

(* The device codes of the deprecated switchOn(char*, int). *)
Channel == [n \in 0..5 |-> [j \in 1..5 |-> IF j = n THEN "1" ELSE "0"]]

-------------------------------------------------------------------------------
(* The outlets *)

Index(letter) == CHOOSE n \in 1..16 : Letters[n] = letter
Number(text) == DigitValue[text[1]]
Floating(b) == IF b THEN "F" ELSE "0"

(* What an outlet takes for its command to go to the state s.  A switch or *)
(* bit that is on is "0" in type 1 and "F" in type 3, numbers count in one *)
(* of four places in the types 2 and 4, and from 0 and with the lowest bit *)
(* first in type 3.                                                        *)
Listens(o, s) ==
    CASE o.type = "1" ->
           [i \in 1..12 |-> IF i <= 10 THEN Floating((IF i <= 5 THEN o.group[i] ELSE o.device[i - 5]) = "0")
                            ELSE Floating((i = 12) = (s = "1"))]
      [] o.type = "2" ->
           [i \in 1..12 |-> Floating(/\ i # Number(o.group) /\ i # 4 + Number(o.device)
                                     /\ i = 12 => s = "1")]
      [] o.type = "3" ->
           [i \in 1..12 |->
               CASE i \in 1..4 -> Floating(Bit(Index(o.family[1]) - 1, i - 1) = 1)
                 [] i \in 5..6 -> Floating(Bit(Number(o.device) - 1, i - 5) = 1)
                 [] i \in 7..8 -> Floating(Bit(Number(o.group) - 1, i - 7) = 1)
                 [] i \in 9..11 -> Floating(i # 9)
                 [] i = 12 -> Floating(s = "1")]
      [] o.type = "4" ->
           [i \in 1..12 |->
               IF i \in {Index(o.group[1]), 4 + Number(o.device), IF s = "1" THEN 11 ELSE 12} THEN "1"
               ELSE IF i <= 7 THEN "F" ELSE "0"]
===============================================================================
