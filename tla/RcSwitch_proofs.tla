---------------------------- MODULE RcSwitch_proofs ----------------------------
(***************************************************************************)
(* Proofs about the two sides of RCSwitch.  RcCommand.tla: for all outlets *)
(* and commands, a command of the types 1 to 3 sends the word its outlet   *)
(* listens to, and no other outlet listens to that word, but for words for *)
(* off of another type.  RcReceiver.tla: for every size of timings, every  *)
(* frame and every noise, the interrupt stays within timings, sending      *)
(* gives the receiver its interrupt back, no value is ever offered, and a  *)
(* frame that was served whole can be read, of every protocol, code,       *)
(* length and skew.                                                        *)
(***************************************************************************)
EXTENDS RcCommand, RcReceiver, Induction, FiniteSetTheorems, TLAPS

-------------------------------------------------------------------------------
(* Reading a well-formed command *)

(* In a command of five parts none of which is empty the k-th argument is  *)
(* the k-th part (MQTT_IR_RC_6.ino:97-104).                                *)
LEMMA FoundIsPart ==
    ASSUME NEW c \in Commands, WellFormed(c), NEW k \in 1..5
    PROVE  Found(c, k) = k
<1>1. c \in Seq(Texts) /\ DOMAIN c = 1..5
  BY CommandsAssumption DEF WellFormed, Texts
<1>2. ASSUME NEW i \in 1..5 PROVE Cardinality({j \in 1..i : c[j] # <<>>}) = i
  <2>1. {j \in 1..i : c[j] # <<>>} = 1..i
    BY <1>1 DEF WellFormed
  <2>2. Cardinality(1..i) = i
    <3>1. 1 \in Int /\ i \in Int
      OBVIOUS
    <3>2. Cardinality(1..i) = IF 1 > i THEN 0 ELSE i - 1 + 1
      BY <3>1, FS_Interval
    <3> QED BY <3>2
  <2> QED BY <2>1, <2>2
<1>3. {i \in DOMAIN c : c[i] # <<>> /\ Cardinality({j \in 1..i : c[j] # <<>>}) = k} = {k}
  BY <1>1, <1>2 DEF WellFormed
<1> QED BY <1>3 DEF Found

(* Its first characters are those of the part, and NUL behind them. *)
LEMMA ArgIsPart ==
    ASSUME command \in Commands, WellFormed(command), args = [k \in 1..5 |-> k],
           NEW k \in 1..5, NEW u \in Unknown
    PROVE  /\ \A j \in 1..5 : j <= Len(command[k]) => Arg(k, u)[j] = command[k][j]
           /\ Len(command[k]) < 5 => Arg(k, u)[Len(command[k]) + 1] = NUL
           /\ Len(command[k]) \in 1..5
<1>1. command \in Seq(Texts) /\ k \in DOMAIN command
  BY CommandsAssumption DEF WellFormed, Texts
<1>2. command[k] \in Seq(STRING) /\ Len(command[k]) \in 1..5
  <2>1. command[k] \in Seq(STRING)
    BY <1>1 DEF Texts
  <2>2. Len(command[k]) <= 5 /\ command[k] # <<>>
    BY DEF WellFormed
  <2>3. Len(command[k]) \in Nat /\ Len(command[k]) # 0
    BY <2>1, <2>2
  <2>4. ASSUME NEW n \in Nat, n # 0, n <= 5 PROVE n \in 1..5
    BY <2>4
  <2>5. Len(command[k]) \in 1..5
    BY <2>2, <2>3, <2>4
  <2> QED BY <2>1, <2>5
<1>3. Arg(k, u) = [j \in 1..5 |-> Char(command, k, j, u)]
  BY DEF Arg
<1>4. \A j \in 1..5 : j <= Len(command[k]) => Char(command, k, j, u) = command[k][j]
  BY <1>2 DEF Char
<1>5. Len(command[k]) < 5 => Char(command, k, Len(command[k]) + 1, u) = NUL
  BY <1>2 DEF Char
<1> QED BY <1>2, <1>3, <1>4, <1>5

(* atoi() of one digit and something else. *)
LEMMA AtoiOfDigit ==
    ASSUME NEW t, t[1] \in Digits, t[2] = NUL
    PROVE  Atoi(t) = DigitValue[t[1]]
<1> DEFINE digits == {n \in 1..5 : \A j \in 1..n : t[j] \in Digits}
<1>1. t[2] \notin Digits
  BY DEF Digits, NUL
<1>2. digits = {1}
  BY <1>1
<1>3. DigitValue["0"] = 0
  BY DEF DigitValue, Digits
<1>4. (CHOOSE n \in digits : n + 1 \notin digits) = 1
  BY <1>2
<1> HIDE DEF digits
<1>5. Atoi(t) = IF \A n \in digits : t[n] = "0" THEN 0
                ELSE IF \A n \in digits : t[n] = "0" \/ n + 1 \notin digits
                  THEN DigitValue[t[CHOOSE n \in digits : n + 1 \notin digits]]
                ELSE 10
  BY DEF Atoi, digits
<1> QED BY <1>2, <1>3, <1>4, <1>5

(* An argument of one character that is a digit is that number. *)
LEMMA ArgIsNumber ==
    ASSUME command \in Commands, WellFormed(command), args = [k \in 1..5 |-> k],
           NEW k \in 1..5, NEW u \in Unknown, NEW d \in Digits, command[k] = <<d>>
    PROVE  Atoi(Arg(k, u)) = DigitValue[d]
<1>1. Len(command[k]) = 1 /\ command[k][1] = d
  OBVIOUS
<1>2. /\ \A j \in 1..5 : j <= Len(command[k]) => Arg(k, u)[j] = command[k][j]
      /\ Len(command[k]) < 5 => Arg(k, u)[Len(command[k]) + 1] = NUL
  BY ArgIsPart
<1>3. Arg(k, u)[1] = d /\ Arg(k, u)[2] = NUL
  BY <1>1, <1>2
<1> QED BY <1>3, AtoiOfDigit

-------------------------------------------------------------------------------
(* The codewords, against what the outlets listen to *)

(* The number of a digit from 1 to 4. *)
LEMMA Numbers ==
    /\ \A t \in OneToFour : Number(t) \in 1..4 /\ t[1] \in Digits /\ t = <<t[1]>>
    /\ \A t, v \in OneToFour : Number(t) = Number(v) => t = v
    /\ DigitValue["0"] = 0 /\ DigitValue["1"] = 1
BY DEF OneToFour, Number, DigitValue, Digits

(* No letter occurs twice. *)
LEMMA LettersDistinct ==
    /\ \A m, n \in 1..16 : Letters[m] = Letters[n] => m = n
    /\ \A n \in 1..16 : Index(Letters[n]) = n
<1>1. \A m, n \in 1..16 : Letters[m] = Letters[n] => m = n
  BY DEF Letters
<1> QED BY <1>1 DEF Index

(* The table of families counts from 0, lowest bit first. *)
LEMMA FamilyBits ==
    \A n \in 1..16, i \in 1..4 : FamilyCode[n][i] = Floating(Bit(n - 1, i - 1) = 1)
<1> SUFFICES ASSUME NEW n \in 1..16, NEW i \in 1..4
             PROVE  FamilyCode[n][i] = Floating(Bit(n - 1, i - 1) = 1)
  OBVIOUS
<1>1. CASE i = 1
  BY <1>1 DEF FamilyCode, Bit, Floating
<1>2. CASE i = 2
  BY <1>2 DEF FamilyCode, Bit, Floating
<1>3. CASE i = 3
  BY <1>3 DEF FamilyCode, Bit, Floating
<1>4. CASE i = 4
  BY <1>4 DEF FamilyCode, Bit, Floating
<1> QED BY <1>1, <1>2, <1>3, <1>4

(* A number below 16 is known by its four bits. *)
LEMMA BitsDistinct ==
    \A m, n \in 0..15 : (\A k \in 0..3 : (Bit(m, k) = 1) = (Bit(n, k) = 1)) => m = n
<1> SUFFICES ASSUME NEW m \in 0..15, NEW n \in 0..15,
                    \A k \in 0..3 : (Bit(m, k) = 1) = (Bit(n, k) = 1)
             PROVE  m = n
  OBVIOUS
<1>1. /\ (Bit(m, 0) = 1) = (Bit(n, 0) = 1)
      /\ (Bit(m, 1) = 1) = (Bit(n, 1) = 1)
      /\ (Bit(m, 2) = 1) = (Bit(n, 2) = 1)
      /\ (Bit(m, 3) = 1) = (Bit(n, 3) = 1)
  OBVIOUS
<1> QED BY <1>1, SMTT(60) DEF Bit

(* What getCodeWordA() makes of ten DIP switches is what their outlet      *)
(* listens to (RCSwitch.cpp:278-310).                                      *)
LEMMA WordAFits ==
    ASSUME NEW o, o.type = "1", NEW s \in States, NEW g, NEW d,
           \A j \in 1..5 : g[j] = o.group[j] /\ d[j] = o.device[j]
    PROVE  WordA(g, d, s = "1") = Listens(o, s)
<1>1. Listens(o, s) =
        [i \in 1..12 |-> IF i <= 10 THEN Floating((IF i <= 5 THEN o.group[i] ELSE o.device[i - 5]) = "0")
                         ELSE Floating((i = 12) = (s = "1"))]
  BY DEF Listens
<1>2. ASSUME NEW i \in 1..12 PROVE WordA(g, d, s = "1")[i] = Listens(o, s)[i]
  <2>1. CASE i \in 1..5
    BY <1>1, <2>1 DEF WordA, Floating, Dip
  <2>2. CASE i \in 6..10
    BY <1>1, <2>2 DEF WordA, Floating, Dip
  <2>3. CASE i \in 11..12
    BY <1>1, <2>3 DEF WordA, Floating, States
  <2> QED BY <2>1, <2>2, <2>3
<1>3. /\ DOMAIN WordA(g, d, s = "1") = 1..12
      /\ WordA(g, d, s = "1") = [i \in 1..12 |-> WordA(g, d, s = "1")[i]]
  BY DEF WordA
<1> QED BY <1>1, <1>2, <1>3

(* So is what getCodeWordB() makes of two numbers (RCSwitch.cpp:241-270).  *)
LEMMA WordBFits ==
    ASSUME NEW o, o.type = "2", o.group \in OneToFour, o.device \in OneToFour, NEW s \in States
    PROVE  WordB(Number(o.group), Number(o.device), s = "1") = Listens(o, s)
<1> DEFINE g == Number(o.group)
           d == Number(o.device)
           w == WordB(g, d, s = "1")
<1>1. Listens(o, s) =
        [i \in 1..12 |-> Floating(i # g /\ i # 4 + d /\ (i = 12 => s = "1"))]
  BY DEF Listens
<1>2. g \in 1..4 /\ d \in 1..4
  BY Numbers
<1> HIDE DEF g, d
<1>3. ASSUME NEW i \in 1..12 PROVE w[i] = Listens(o, s)[i]
  <2>1. CASE i \in 1..4
    BY <1>1, <1>2, <2>1 DEF WordB, Floating, RotaryCode
  <2>2. CASE i \in 5..8
    BY <1>1, <1>2, <2>2 DEF WordB, Floating, RotaryCode
  <2>3. CASE i \in 9..12
    BY <1>1, <1>2, <2>3 DEF WordB, Floating, States
  <2> QED BY <2>1, <2>2, <2>3
<1>4. w = [i \in 1..12 |-> w[i]]
  BY DEF WordB
<1> QED BY <1>1, <1>3, <1>4 DEF g, d

(* And what getCodeWordC() makes of a family, a group and a device, its    *)
(* bits taken backwards from dec2binWcharfill() (RCSwitch.cpp:315-341).    *)
LEMMA WordCFits ==
    ASSUME NEW o, o.type = "3", o.group \in OneToFour, o.device \in OneToFour,
           NEW n \in 1..16, o.family = <<Letters[n]>>, NEW s \in States
    PROVE  WordC(n, Number(o.group), Number(o.device), s = "1") = Listens(o, s)
<1> DEFINE g == Number(o.group)
           d == Number(o.device)
           w == WordC(n, g, d, s = "1")
<1>1. Listens(o, s) =
        [i \in 1..12 |->
               CASE i \in 1..4 -> Floating(Bit(n - 1, i - 1) = 1)
                 [] i \in 5..6 -> Floating(Bit(d - 1, i - 5) = 1)
                 [] i \in 7..8 -> Floating(Bit(g - 1, i - 7) = 1)
                 [] i \in 9..11 -> Floating(i # 9)
                 [] i = 12 -> Floating(s = "1")]
  <2>1. Index(o.family[1]) = n
    BY LettersDistinct
  <2> QED BY <2>1 DEF Listens
<1>2. g \in 1..4 /\ d \in 1..4
  BY Numbers
<1> HIDE DEF g, d
<1>3. ASSUME NEW i \in 1..12 PROVE w[i] = Listens(o, s)[i]
  <2>1. CASE i \in 1..4
    <3>1. w[i] = FamilyCode[n][i]
      BY <2>1 DEF WordC
    <3>2. Listens(o, s)[i] = Floating(Bit(n - 1, i - 1) = 1)
      BY <1>1, <2>1
    <3> QED BY <2>1, <3>1, <3>2, FamilyBits
  <2>2. CASE i \in 5..8
    <3>1. w[i] = IF Bit((d - 1) + (g - 1) * 4, i - 5) = 1 THEN "F" ELSE "0"
      <4>1. w[i] = IF Dec2Bin((d - 1) + (g - 1) * 4, "0")[9 - i] = "1" THEN "F" ELSE "0"
        BY <2>2 DEF WordC
      <4>2. 9 - i \in 1..4 /\ 4 - (9 - i) = i - 5
        BY <2>2
      <4>3. Dec2Bin((d - 1) + (g - 1) * 4, "0")[9 - i] =
              IF Bit((d - 1) + (g - 1) * 4, i - 5) = 1 THEN "1" ELSE "0"
        BY <4>2 DEF Dec2Bin
      <4> QED BY <4>1, <4>3
    <3>2. CASE i = 5
      BY <1>1, <1>2, <3>1, <3>2 DEF Floating, Bit
    <3>3. CASE i = 6
      BY <1>1, <1>2, <3>1, <3>3 DEF Floating, Bit
    <3>4. CASE i = 7
      BY <1>1, <1>2, <3>1, <3>4 DEF Floating, Bit
    <3>5. CASE i = 8
      BY <1>1, <1>2, <3>1, <3>5 DEF Floating, Bit
    <3> QED BY <2>2, <3>2, <3>3, <3>4, <3>5
  <2>3. CASE i \in 9..12
    BY <1>1, <2>3 DEF WordC, Floating, States
  <2> QED BY <2>1, <2>2, <2>3
<1>4. w = [i \in 1..12 |-> w[i]]
  BY DEF WordC
<1> QED BY <1>1, <1>3, <1>4 DEF g, d

-------------------------------------------------------------------------------
(* No two outlets listen to the same word, but for words for off *)

(* The places of a word for type 1. *)
LEMMA TypeOneWord ==
    ASSUME NEW o, o.type = "1", NEW s \in States
    PROVE  /\ \A j \in 1..5 : /\ Listens(o, s)[j] = Floating(o.group[j] = "0")
                             /\ Listens(o, s)[j + 5] = Floating(o.device[j] = "0")
           /\ Listens(o, s)[11] = Floating(s # "1")
           /\ Listens(o, s)[12] = Floating(s = "1")
<1>1. Listens(o, s) =
        [i \in 1..12 |-> IF i <= 10 THEN Floating((IF i <= 5 THEN o.group[i] ELSE o.device[i - 5]) = "0")
                         ELSE Floating((i = 12) = (s = "1"))]
  BY DEF Listens
<1>2. ASSUME NEW j \in 1..5
      PROVE  /\ Listens(o, s)[j] = Floating(o.group[j] = "0")
             /\ Listens(o, s)[j + 5] = Floating(o.device[j] = "0")
  BY <1>1
<1>3. Listens(o, s)[11] = Floating(s # "1") /\ Listens(o, s)[12] = Floating(s = "1")
  BY <1>1 DEF Floating
<1> QED BY <1>2, <1>3

(* The places of a word for type 2. *)
LEMMA TypeTwoWord ==
    ASSUME NEW o, o.type = "2", o.group \in OneToFour, o.device \in OneToFour, NEW s \in States
    PROVE  /\ \A j \in 1..4 : /\ Listens(o, s)[j] = Floating(j # Number(o.group))
                             /\ Listens(o, s)[j + 4] = Floating(j # Number(o.device))
           /\ \A j \in 9..11 : Listens(o, s)[j] = "F"
           /\ Listens(o, s)[12] = Floating(s = "1")
<1> DEFINE g == Number(o.group)
           d == Number(o.device)
<1>1. Listens(o, s) =
        [i \in 1..12 |-> Floating(i # g /\ i # 4 + d /\ (i = 12 => s = "1"))]
  BY DEF Listens
<1>2. g \in 1..4 /\ d \in 1..4
  BY Numbers
<1> HIDE DEF g, d
<1>3. \A j \in 1..4 : Listens(o, s)[j] = Floating(j # g) /\ Listens(o, s)[j + 4] = Floating(j # d)
  BY <1>1, <1>2 DEF Floating
<1>4. \A j \in 9..12 : Listens(o, s)[j] = Floating(j = 12 => s = "1")
  BY <1>1, <1>2 DEF Floating
<1>5. /\ \A j \in 9..11 : Listens(o, s)[j] = "F"
      /\ Listens(o, s)[12] = Floating(s = "1")
  BY <1>4 DEF Floating
<1> QED BY <1>3, <1>5 DEF g, d

(* The places of a word for type 3. *)
LEMMA TypeThreeWord ==
    ASSUME NEW o, o.type = "3", NEW n \in 1..16, o.family = <<Letters[n]>>, NEW s \in States
    PROVE  /\ \A k \in 0..3 : Listens(o, s)[k + 1] = Floating(Bit(n - 1, k) = 1)
           /\ \A k \in 0..1 : /\ Listens(o, s)[k + 5] = Floating(Bit(Number(o.device) - 1, k) = 1)
                             /\ Listens(o, s)[k + 7] = Floating(Bit(Number(o.group) - 1, k) = 1)
           /\ Listens(o, s)[9] = "0" /\ Listens(o, s)[10] = "F" /\ Listens(o, s)[11] = "F"
           /\ Listens(o, s)[12] = Floating(s = "1")
<1> DEFINE g == Number(o.group)
           d == Number(o.device)
<1>1. Listens(o, s) =
        [i \in 1..12 |->
               CASE i \in 1..4 -> Floating(Bit(n - 1, i - 1) = 1)
                 [] i \in 5..6 -> Floating(Bit(d - 1, i - 5) = 1)
                 [] i \in 7..8 -> Floating(Bit(g - 1, i - 7) = 1)
                 [] i \in 9..11 -> Floating(i # 9)
                 [] i = 12 -> Floating(s = "1")]
  <2>1. Index(o.family[1]) = n
    BY LettersDistinct
  <2> QED BY <2>1 DEF Listens
<1> HIDE DEF g, d
<1>2. \A k \in 0..3 : Listens(o, s)[k + 1] = Floating(Bit(n - 1, k) = 1)
  BY <1>1
<1>3. \A k \in 0..1 : Listens(o, s)[k + 5] = Floating(Bit(d - 1, k) = 1)
  BY <1>1
<1>4. \A k \in 0..1 : Listens(o, s)[k + 7] = Floating(Bit(g - 1, k) = 1)
  BY <1>1
<1>5. /\ Listens(o, s)[9] = "0" /\ Listens(o, s)[10] = "F" /\ Listens(o, s)[11] = "F"
      /\ Listens(o, s)[12] = Floating(s = "1")
  BY <1>1 DEF Floating
<1> QED BY <1>2, <1>3, <1>4, <1>5 DEF g, d

(* A word for type 4 has a "1" in its last two places, the others never. *)
LEMMA TypeFourWord ==
    ASSUME NEW o, o.type = "4", NEW s \in States
    PROVE  \E j \in 11..12 : Listens(o, s)[j] = "1"
<1>1. Listens(o, s) =
           [i \in 1..12 |->
               IF i \in {Index(o.group[1]), 4 + Number(o.device), IF s = "1" THEN 11 ELSE 12} THEN "1"
               ELSE IF i <= 7 THEN "F" ELSE "0"]
  BY DEF Listens
<1>2. CASE s = "1"
  BY <1>1, <1>2
<1>3. CASE s # "1"
  BY <1>1, <1>3
<1> QED BY <1>2, <1>3

(* Outlets of the types 1 to 3 that differ, or one outlet's words for on   *)
(* and off, have different words, but for words for off of two types.      *)
THEOREM WordsDistinct ==
    ASSUME NEW a, IsAddress(a), a.type # "4", NEW o, IsAddress(o),
           NEW s \in States, NEW z \in States, Listens(a, s) = Listens(o, z)
    PROVE  \/ a = o /\ s = z
           \/ a.type # o.type /\ s = "0" /\ z = "0"
<1> USE DEF States
<1>1. /\ a \in [type : STRING, family : Texts, group : Texts, device : Texts]
      /\ o \in [type : STRING, family : Texts, group : Texts, device : Texts]
  BY DEF IsAddress
<1>2. a.type = o.type /\ a.family = o.family /\ a.group = o.group /\ a.device = o.device => a = o
  BY <1>1
<1>3. a.type \in {"1", "2", "3"} /\ o.type \in {"1", "2", "3", "4"}
  BY DEF IsAddress
<1>a. \A b : Floating(b) \in {"0", "F"}
  BY DEF Floating
<1>b. (Floating(s = "1") = Floating(z = "1")) => s = z
  BY DEF Floating
<1>4. CASE o.type = "4"
  <2>1. PICK j \in 11..12 : Listens(o, z)[j] = "1"
    BY <1>4, TypeFourWord
  <2>2. CASE a.type = "1"
    BY <1>a, <2>1, <2>2, TypeOneWord
  <2>3. CASE a.type = "2"
    <3>1. a.group \in OneToFour /\ a.device \in OneToFour
      BY <2>3 DEF IsAddress
    <3> QED BY <1>a, <2>1, <2>3, <3>1, TypeTwoWord
  <2>4. CASE a.type = "3"
    <3>1. PICK n \in 1..16 : a.family = <<Letters[n]>>
      BY <2>4 DEF IsAddress
    <3> QED BY <1>a, <2>1, <2>4, <3>1, TypeThreeWord
  <2> QED BY <1>3, <2>2, <2>3, <2>4
<1>5. CASE a.type = "1" /\ o.type = "1"
  <2>1. /\ a.family = o.family /\ a.group \in Dips /\ a.device \in Dips
        /\ o.group \in Dips /\ o.device \in Dips
    BY <1>5 DEF IsAddress
  <2>2. \A j \in 1..5 : a.group[j] = o.group[j] /\ a.device[j] = o.device[j]
    <3> SUFFICES ASSUME NEW j \in 1..5
                 PROVE  a.group[j] = o.group[j] /\ a.device[j] = o.device[j]
      OBVIOUS
    <3>1. /\ Floating(a.group[j] = "0") = Floating(o.group[j] = "0")
          /\ Floating(a.device[j] = "0") = Floating(o.device[j] = "0")
      <4>1. /\ Listens(a, s)[j] = Floating(a.group[j] = "0")
            /\ Listens(a, s)[j + 5] = Floating(a.device[j] = "0")
        BY <1>5, TypeOneWord
      <4>2. /\ Listens(o, z)[j] = Floating(o.group[j] = "0")
            /\ Listens(o, z)[j + 5] = Floating(o.device[j] = "0")
        BY <1>5, TypeOneWord
      <4> QED BY <4>1, <4>2
    <3>2. /\ a.group[j] \in States /\ o.group[j] \in States
          /\ a.device[j] \in States /\ o.device[j] \in States
      BY <2>1 DEF Dips
    <3> QED BY <3>1, <3>2 DEF Floating
  <2>3. a.group = o.group /\ a.device = o.device
    BY <2>1, <2>2 DEF Dips
  <2>4. s = z
    BY <1>5, <1>b, TypeOneWord
  <2> QED BY <1>2, <1>5, <2>1, <2>3, <2>4
<1>6. CASE a.type = "2" /\ o.type = "2"
  <2>1. /\ a.family = o.family /\ a.group \in OneToFour /\ a.device \in OneToFour
        /\ o.group \in OneToFour /\ o.device \in OneToFour
    BY <1>6 DEF IsAddress
  <2>2. \A j \in 1..4 : /\ Floating(j # Number(a.group)) = Floating(j # Number(o.group))
                        /\ Floating(j # Number(a.device)) = Floating(j # Number(o.device))
    <3> SUFFICES ASSUME NEW j \in 1..4
                 PROVE  /\ Floating(j # Number(a.group)) = Floating(j # Number(o.group))
                        /\ Floating(j # Number(a.device)) = Floating(j # Number(o.device))
      OBVIOUS
    <3>1. /\ Listens(a, s)[j] = Floating(j # Number(a.group))
          /\ Listens(a, s)[j + 4] = Floating(j # Number(a.device))
      BY <1>6, <2>1, TypeTwoWord
    <3>2. /\ Listens(o, z)[j] = Floating(j # Number(o.group))
          /\ Listens(o, z)[j + 4] = Floating(j # Number(o.device))
      BY <1>6, <2>1, TypeTwoWord
    <3> QED BY <3>1, <3>2
  <2>3. Number(a.group) = Number(o.group) /\ Number(a.device) = Number(o.device)
    <3>1. Number(a.group) \in 1..4 /\ Number(a.device) \in 1..4
      BY <2>1, Numbers
    <3> QED BY <2>2, <3>1 DEF Floating
  <2>4. a.group = o.group /\ a.device = o.device
    BY <2>1, <2>3, Numbers
  <2>5. s = z
    BY <1>6, <1>b, <2>1, TypeTwoWord
  <2> QED BY <1>2, <1>6, <2>1, <2>4, <2>5
<1>7. CASE a.type = "3" /\ o.type = "3"
  <2>1. PICK m \in 1..16 : a.family = <<Letters[m]>>
    BY <1>7 DEF IsAddress
  <2>2. PICK n \in 1..16 : o.family = <<Letters[n]>>
    BY <1>7 DEF IsAddress
  <2>3. /\ a.group \in OneToFour /\ a.device \in OneToFour
        /\ o.group \in OneToFour /\ o.device \in OneToFour
    BY <1>7 DEF IsAddress
  <2>4. \A k \in 0..3 : (Bit(m - 1, k) = 1) = (Bit(n - 1, k) = 1)
    <3> SUFFICES ASSUME NEW k \in 0..3
                 PROVE  (Bit(m - 1, k) = 1) = (Bit(n - 1, k) = 1)
      OBVIOUS
    <3>1. Listens(a, s)[k + 1] = Floating(Bit(m - 1, k) = 1)
      BY <1>7, <2>1, TypeThreeWord
    <3>2. Listens(o, z)[k + 1] = Floating(Bit(n - 1, k) = 1)
      BY <1>7, <2>2, TypeThreeWord
    <3> QED BY <3>1, <3>2 DEF Floating
  <2>5. a.family = o.family
    <3>1. m - 1 \in 0..15 /\ n - 1 \in 0..15
      OBVIOUS
    <3>2. m - 1 = n - 1
      BY <2>4, <3>1, BitsDistinct
    <3> QED BY <2>1, <2>2, <3>2
  <2>6. \A k \in 0..1 :
          /\ (Bit(Number(a.device) - 1, k) = 1) = (Bit(Number(o.device) - 1, k) = 1)
          /\ (Bit(Number(a.group) - 1, k) = 1) = (Bit(Number(o.group) - 1, k) = 1)
    <3> SUFFICES ASSUME NEW k \in 0..1
                 PROVE  /\ (Bit(Number(a.device) - 1, k) = 1) = (Bit(Number(o.device) - 1, k) = 1)
                        /\ (Bit(Number(a.group) - 1, k) = 1) = (Bit(Number(o.group) - 1, k) = 1)
      OBVIOUS
    <3>1. /\ Listens(a, s)[k + 5] = Floating(Bit(Number(a.device) - 1, k) = 1)
          /\ Listens(a, s)[k + 7] = Floating(Bit(Number(a.group) - 1, k) = 1)
      BY <1>7, <2>1, TypeThreeWord
    <3>2. /\ Listens(o, z)[k + 5] = Floating(Bit(Number(o.device) - 1, k) = 1)
          /\ Listens(o, z)[k + 7] = Floating(Bit(Number(o.group) - 1, k) = 1)
      BY <1>7, <2>2, TypeThreeWord
    <3> QED BY <3>1, <3>2 DEF Floating
  <2>7. \A i, j \in 1..4 : (\A k \in 0..1 : (Bit(i - 1, k) = 1) = (Bit(j - 1, k) = 1)) => i = j
    <3> SUFFICES ASSUME NEW i \in 1..4, NEW j \in 1..4,
                        \A k \in 0..1 : (Bit(i - 1, k) = 1) = (Bit(j - 1, k) = 1)
                 PROVE  i = j
      OBVIOUS
    <3>1. /\ (Bit(i - 1, 0) = 1) = (Bit(j - 1, 0) = 1)
          /\ (Bit(i - 1, 1) = 1) = (Bit(j - 1, 1) = 1)
      OBVIOUS
    <3> QED BY <3>1 DEF Bit
  <2>8. Number(a.device) = Number(o.device) /\ Number(a.group) = Number(o.group)
    <3>1. /\ Number(a.group) \in 1..4 /\ Number(a.device) \in 1..4
          /\ Number(o.group) \in 1..4 /\ Number(o.device) \in 1..4
      BY <2>3, Numbers
    <3> QED BY <2>6, <2>7, <3>1
  <2>9. a.group = o.group /\ a.device = o.device
    BY <2>3, <2>8, Numbers
  <2>10. s = z
    BY <1>7, <1>b, <2>1, <2>2, TypeThreeWord
  <2> QED BY <1>2, <1>7, <2>5, <2>9, <2>10
(* Of two different types: one is type 1, or they are 2 and 3. *)
<1>8. ASSUME NEW b, NEW c, IsAddress(b), IsAddress(c), b.type = "1", c.type \in {"2", "3"},
             NEW p \in States, NEW q \in States, Listens(b, p) = Listens(c, q)
      PROVE  p = "0" /\ q = "0"
  <2>1. Listens(b, p)[11] = Floating(p # "1") /\ Listens(b, p)[12] = Floating(p = "1")
    BY <1>8, TypeOneWord
  <2>2. Listens(c, q)[11] = "F" /\ Listens(c, q)[12] = Floating(q = "1")
    <3>1. CASE c.type = "2"
      <4>1. c.group \in OneToFour /\ c.device \in OneToFour
        BY <1>8, <3>1 DEF IsAddress
      <4> QED BY <3>1, <4>1, TypeTwoWord
    <3>2. CASE c.type = "3"
      <4>1. PICK n \in 1..16 : c.family = <<Letters[n]>>
        BY <1>8, <3>2 DEF IsAddress
      <4> QED BY <3>2, <4>1, TypeThreeWord
    <3> QED BY <1>8, <3>1, <3>2
  <2> QED BY <1>8, <2>1, <2>2 DEF Floating
<1>9. ASSUME NEW b, NEW c, IsAddress(b), IsAddress(c), b.type = "2", c.type = "3",
             NEW p \in States, NEW q \in States
      PROVE  Listens(b, p) # Listens(c, q)
  <2>1. Listens(b, p)[9] = "F"
    <3>1. b.group \in OneToFour /\ b.device \in OneToFour
      BY <1>9 DEF IsAddress
    <3> QED BY <1>9, <3>1, TypeTwoWord
  <2>2. Listens(c, q)[9] = "0"
    <3>1. PICK n \in 1..16 : c.family = <<Letters[n]>>
      BY <1>9 DEF IsAddress
    <3> QED BY <1>9, <3>1, TypeThreeWord
  <2> QED BY <2>1, <2>2
<1>10. CASE a.type # o.type /\ o.type # "4"
  <2>1. CASE a.type = "1"
    BY <1>3, <1>8, <1>10, <2>1
  <2>2. CASE o.type = "1"
    BY <1>3, <1>8, <1>10, <2>2
  <2>3. CASE a.type # "1" /\ o.type # "1"
    BY <1>3, <1>9, <1>10, <2>3
  <2> QED BY <2>1, <2>2, <2>3
<1> QED BY <1>3, <1>4, <1>5, <1>6, <1>7, <1>10

-------------------------------------------------------------------------------
(* The inductive invariant *)

Parsed == pc = "handle" /\ WellFormed(command) => args = [k \in 1..5 |-> k]

WordRight ==
    pc = "send" /\ Supported(command) => word = Listens(Target(command), command[5][1])

Heard ==
    /\ (pc = "send" /\ left < Repeats) \/ pc = "done"
    /\ Supported(command) /\ Target(command) \in Outlets
    => panel[Target(command)] = command[5][1]

Inv ==
    /\ TypeOK
    /\ pc # "idle" => command \in Commands
    /\ Parsed /\ WordRight /\ Heard

(* What a well-formed command says. *)
LEMMA WellFormedParts ==
    ASSUME NEW c, WellFormed(c)
    PROVE  /\ Target(c).type = c[1][1] /\ Target(c).group = c[3] /\ Target(c).device = c[4]
           /\ c[1][1] = "3" => Target(c).family = c[2]
           /\ c[5][1] \in States /\ c[5] = <<c[5][1]>>
           /\ IsAddress(Target(c))
<1>1. /\ Target(c).type = c[1][1] /\ Target(c).group = c[3] /\ Target(c).device = c[4]
      /\ c[1][1] = "3" => Target(c).family = c[2]
  BY DEF Target
<1>2. c[5][1] \in States /\ c[5] = <<c[5][1]>>
  BY DEF WellFormed
<1> QED BY <1>1, <1>2 DEF WellFormed

(* handle_rc() finds the type and the state of such a command ... *)
LEMMA TypeAndState ==
    ASSUME pc = "handle", command \in Commands, WellFormed(command),
           args = [k \in 1..5 |-> k], NEW u \in Unknown
    PROVE  /\ Atoi(Arg(1, u)) = DigitValue[Target(command).type]
           /\ StateKnown(u)
           /\ On(u) = (command[5][1] = "1")
<1>1. Target(command).type \in {"1", "2", "3", "4"} /\ command[1] = <<Target(command).type>>
  <2>1. Target(command).type \in {"1", "2", "3", "4"} /\ Target(command).type = command[1][1]
    BY WellFormedParts DEF IsAddress
  <2>2. Len(command[1]) = 1 /\ command[1] \in Texts
    BY CommandsAssumption DEF WellFormed
  <2> QED BY <2>1, <2>2 DEF Texts
<1>2. Atoi(Arg(1, u)) = DigitValue[Target(command).type]
  BY <1>1, ArgIsNumber DEF Digits
<1>3. command[5][1] \in {"0", "1"} /\ command[5] = <<command[5][1]>>
  BY WellFormedParts DEF States
<1>4. Atoi(Arg(5, u)) = DigitValue[command[5][1]]
  BY <1>3, ArgIsNumber DEF Digits
<1>5. StateKnown(u) /\ On(u) = (command[5][1] = "1")
  BY <1>3, <1>4, Numbers DEF StateKnown, On
<1> QED BY <1>2, <1>5

(* ... and sends its outlet's word. *)
LEMMA SendsWord ==
    ASSUME TypeOK, Parsed, pc = "handle", command \in Commands, Supported(command), HandleRc
    PROVE  /\ pc' = "send" /\ word' = Listens(Target(command), command[5][1]) /\ left' = Repeats
           /\ UNCHANGED <<command, args, panel>>
<1> DEFINE o == Target(command)
           s == command[5][1]
<1>1. WellFormed(command) /\ args = [k \in 1..5 |-> k]
  BY DEF Supported, Parsed
<1>2. PICK u \in Unknown : SwitchA(u) \/ SwitchB(u) \/ SwitchC(u) \/ SwitchD(u) \/ NotFound(u)
  BY DEF HandleRc
<1>3. /\ Atoi(Arg(1, u)) = DigitValue[o.type] /\ StateKnown(u) /\ On(u) = (s = "1")
      /\ o.type \in {"1", "2", "3"}
  BY <1>1, TypeAndState, WellFormedParts DEF Supported, IsAddress
<1>4. DigitValue["1"] = 1 /\ DigitValue["2"] = 2 /\ DigitValue["3"] = 3
  BY DEF DigitValue, Digits
<1>5. /\ o.group = command[3] /\ o.device = command[4] /\ s \in States /\ IsAddress(o)
      /\ o.type = "3" => o.family = command[2]
  BY <1>1, WellFormedParts
<1> HIDE DEF o, s
<1>6. ~SwitchD(u) /\ ~NotFound(u)
  BY <1>3, <1>4 DEF SwitchD, NotFound, Typ
<1>7. ASSUME o.type \in {"2", "3"}
      PROVE  /\ o.group \in OneToFour /\ o.device \in OneToFour
             /\ Atoi(Arg(3, u)) = Number(o.group) /\ Atoi(Arg(4, u)) = Number(o.device)
             /\ Number(o.group) \in 1..4 /\ Number(o.device) \in 1..4
  <2>1. o.group \in OneToFour /\ o.device \in OneToFour
    BY <1>5, <1>7 DEF IsAddress
  <2>2. /\ o.group[1] \in Digits /\ o.group = <<o.group[1]>>
        /\ o.device[1] \in Digits /\ o.device = <<o.device[1]>>
        /\ Number(o.group) \in 1..4 /\ Number(o.device) \in 1..4
    BY <2>1, Numbers
  <2>3. Atoi(Arg(3, u)) = DigitValue[o.group[1]]
    BY <1>1, <1>5, <2>2, ArgIsNumber
  <2>4. Atoi(Arg(4, u)) = DigitValue[o.device[1]]
    BY <1>1, <1>5, <2>2, ArgIsNumber
  <2> QED BY <2>1, <2>2, <2>3, <2>4 DEF Number
<1>8. CASE o.type = "1"
  <2>1. SwitchA(u)
    BY <1>2, <1>3, <1>4, <1>6, <1>8 DEF SwitchB, SwitchC, Typ
  <2>2. \A j \in 1..5 : Arg(3, u)[j] = o.group[j] /\ Arg(4, u)[j] = o.device[j]
    <3>1. o.group \in Dips /\ o.device \in Dips
      BY <1>5, <1>8 DEF IsAddress
    <3>2. /\ command[3] \in Seq(STRING) /\ Len(command[3]) = 5
          /\ command[4] \in Seq(STRING) /\ Len(command[4]) = 5
      <4>1. command \in Seq(Texts) /\ Len(command) = 5
        BY <1>1, CommandsAssumption DEF WellFormed
      <4>2. command[3] \in Texts /\ command[4] \in Texts
        BY <4>1
      <4>3. command[3] \in Seq(STRING) /\ command[4] \in Seq(STRING)
        BY <4>2 DEF Texts
      <4>4. DOMAIN command[3] = 1..5 /\ DOMAIN command[4] = 1..5
        BY <1>5, <3>1 DEF Dips
      <4>5. ASSUME NEW t \in Seq(STRING), DOMAIN t = 1..5 PROVE Len(t) = 5
        BY <4>5
      <4> QED BY <4>3, <4>4, <4>5
    <3>3. \A j \in 1..5 : Arg(3, u)[j] = command[3][j]
      BY <1>1, <3>2, ArgIsPart
    <3>4. \A j \in 1..5 : Arg(4, u)[j] = command[4][j]
      BY <1>1, <3>2, ArgIsPart
    <3> QED BY <1>5, <3>3, <3>4
  <2>3. WordA(Arg(3, u), Arg(4, u), On(u)) = Listens(o, s)
    BY <1>3, <1>5, <1>8, <2>2, WordAFits
  <2> QED BY <2>1, <2>3 DEF SwitchA, Send, o, s
<1>9. CASE o.type = "2"
  <2>1. SwitchB(u)
    BY <1>2, <1>3, <1>4, <1>6, <1>9 DEF SwitchA, SwitchC, Typ
  <2>2. WordB(Number(o.group), Number(o.device), On(u)) = Listens(o, s)
    BY <1>3, <1>5, <1>7, <1>9, WordBFits
  <2>3. Send(Listens(o, s))
    BY <1>7, <1>9, <2>1, <2>2 DEF SwitchB
  <2> QED BY <2>3 DEF Send, o, s
<1>10. CASE o.type = "3"
  <2>1. SwitchC(u)
    BY <1>2, <1>3, <1>4, <1>6, <1>10 DEF SwitchA, SwitchB, Typ
  <2>2. PICK n \in 1..16 : o.family = <<Letters[n]>>
    BY <1>5, <1>10 DEF IsAddress
  <2>3. {m \in 1..16 : Letters[m] = Arg(2, u)[1]} = {n}
    <3>1. command[2] = <<Letters[n]>>
      BY <1>5, <1>10, <2>2
    <3>2. Len(command[2]) = 1 /\ command[2][1] = Letters[n]
      BY <3>1
    <3>3. Arg(2, u)[1] = Letters[n]
      BY <1>1, <3>2, ArgIsPart
    <3> QED BY <3>3, LettersDistinct
  <2>4. WordC(n, Number(o.group), Number(o.device), On(u)) = Listens(o, s)
    BY <1>3, <1>5, <1>7, <1>10, <2>2, WordCFits
  <2>5. Send(Listens(o, s))
    BY <1>7, <1>10, <2>1, <2>3, <2>4 DEF SwitchC
  <2> QED BY <2>5 DEF Send, o, s
<1> QED BY <1>3, <1>8, <1>9, <1>10

-------------------------------------------------------------------------------
(* What the outlets make of it *)

(* The outlet listens to its word, and no other outlet changes, unless it  *)
(* is one of another type that goes off with it.                           *)
LEMMA Heeded ==
    ASSUME NEW a, IsAddress(a), a.type # "4", NEW s \in States, word = Listens(a, s),
           NEW o, IsAddress(o)
    PROVE  /\ o = a => Hear(o) = s
           /\ Hear(o) # panel[o] => \/ o = a /\ Hear(o) = s
                                    \/ o.type # a.type /\ s = "0" /\ Hear(o) = "0"
<1>1. ASSUME NEW z \in States, word = Listens(o, z)
      PROVE  (o = a /\ z = s) \/ (o.type # a.type /\ s = "0" /\ z = "0")
  BY <1>1, WordsDistinct
<1>2. CASE \E z \in States : word = Listens(o, z)
  <2>1. PICK z \in States : z = Hear(o) /\ word = Listens(o, z)
    BY <1>2 DEF Hear
  <2> QED BY <1>1, <2>1
<1>3. CASE ~\E z \in States : word = Listens(o, z)
  BY <1>3 DEF Hear
<1> QED BY <1>2, <1>3

(* An outlet is always on or off. *)
LEMMA HearState ==
    ASSUME NEW o, panel[o] \in States
    PROVE  Hear(o) \in States
BY DEF Hear

(* Whatever the command, handle_rc() sends a word or nothing at all. *)
LEMMA HandleRcFrame ==
    ASSUME HandleRc
    PROVE  /\ pc = "handle" /\ UNCHANGED <<command, args, panel>>
           /\ (pc' = "send" /\ left' = Repeats) \/ (pc' = "done" /\ left' = left)
<1>1. PICK u \in Unknown : SwitchA(u) \/ SwitchB(u) \/ SwitchC(u) \/ SwitchD(u) \/ NotFound(u)
  BY DEF HandleRc
<1>2. CASE SwitchA(u)
  BY <1>2 DEF SwitchA, Typ, Send
<1>3. CASE SwitchB(u)
  BY <1>3 DEF SwitchB, Typ, SendNull, Send
<1>4. CASE SwitchC(u)
  BY <1>4 DEF SwitchC, Typ, SendNull, Send
<1>5. CASE SwitchD(u)
  BY <1>5 DEF SwitchD, Typ, Send
<1>6. CASE NotFound(u)
  BY <1>6 DEF NotFound, SendNothing
<1> QED BY <1>1, <1>2, <1>3, <1>4, <1>5, <1>6

-------------------------------------------------------------------------------
(* The invariant is inductive *)

(* It holds at first: there is no command. *)
LEMMA InvInit == Init => Inv
<1> SUFFICES ASSUME Init PROVE Inv
  OBVIOUS
<1>1. TypeOK
  BY RepeatsAssumption DEF Init, TypeOK
<1>2. (pc # "idle" => command \in Commands) /\ Parsed /\ WordRight /\ Heard
  BY DEF Init, Parsed, WordRight, Heard
<1> QED BY <1>1, <1>2 DEF Inv

(* The variables keep their types. *)
LEMMA TypeStep ==
    ASSUME TypeOK, Next
    PROVE  TypeOK'
<1> USE RepeatsAssumption
<1>1. ASSUME NEW c \in Commands, HandleCommand(c) PROVE TypeOK'
  <2>1. c \in Seq(Texts)
    BY CommandsAssumption
  <2>2. ASSUME NEW k \in 1..5 PROVE Found(c, k) \in 0..Len(c)
    <3>1. Found(c, k) = 0 \/ Found(c, k) \in DOMAIN c
      BY DEF Found
    <3>2. DOMAIN c = 1..Len(c) /\ Len(c) \in Nat
      BY <2>1
    <3> QED BY <3>1, <3>2
  <2>3. args' \in [1..5 -> 0..Len(command')]
    BY <1>1, <2>2 DEF HandleCommand
  <2> QED BY <1>1, <2>3 DEF HandleCommand, TypeOK
<1>2. CASE HandleRc
  BY <1>2, HandleRcFrame DEF TypeOK
<1>3. CASE Transmit
  <2>1. panel' \in [Outlets -> States]
    BY <1>3, HearState DEF Transmit, TypeOK
  <2>2. left' \in 0..Repeats
    BY <1>3 DEF Transmit, TypeOK
  <2> QED BY <1>3, <2>1, <2>2 DEF Transmit, TypeOK
<1>4. CASE Sent
  BY <1>4 DEF Sent, TypeOK
<1>5. CASE Return
  BY <1>5 DEF Return, TypeOK
<1>6. CASE Reset
  BY <1>6 DEF Reset, TypeOK
<1> QED BY <1>1, <1>2, <1>3, <1>4, <1>5, <1>6 DEF Next

(* Every action keeps it: the parser for Parsed, the choice of the type    *)
(* and the tables for WordRight, the outlets for Heard.                    *)
LEMMA InvNext == Inv /\ [Next]_vars => Inv'
<1> SUFFICES ASSUME Inv, [Next]_vars PROVE Inv'
  OBVIOUS
<1> USE DEF Inv
<1>1. ASSUME NEW c \in Commands, HandleCommand(c) PROVE Inv'
  <2>1. TypeOK'
    BY <1>1, TypeStep DEF Next
  <2>2. Parsed'
    <3>1. ASSUME WellFormed(c), NEW k \in 1..5 PROVE Found(c, k) = k
      BY <3>1, FoundIsPart
    <3>2. args' = [k \in 1..5 |-> Found(c, k)] /\ command' = c
      BY <1>1 DEF HandleCommand
    <3>3. ASSUME WellFormed(command') PROVE args' = [k \in 1..5 |-> k]
      BY <3>1, <3>2, <3>3
    <3> QED BY <3>3 DEF Parsed
  <2>3. (pc # "idle" => command \in Commands)' /\ WordRight' /\ Heard'
    BY <1>1 DEF HandleCommand, WordRight, Heard
  <2> QED BY <2>1, <2>2, <2>3
<1>2. CASE HandleRc
  <2>1. TypeOK'
    BY <1>2, TypeStep DEF Next
  <2>2. /\ pc = "handle" /\ command' = command /\ args' = args /\ panel' = panel
        /\ (pc' = "send" /\ left' = Repeats) \/ pc' = "done"
    BY <1>2, HandleRcFrame
  <2>3. (pc # "idle" => command \in Commands)' /\ Parsed'
    BY <2>2 DEF Parsed
  <2>4. ASSUME Supported(command)
        PROVE  pc' = "send" /\ word' = Listens(Target(command), command[5][1]) /\ left' = Repeats
    BY <1>2, <2>2, <2>4, SendsWord
  <2>5. WordRight'
    BY <2>2, <2>4 DEF WordRight
  <2>6. Heard'
    BY <2>2, <2>4, RepeatsAssumption DEF Heard
  <2> QED BY <2>1, <2>3, <2>5, <2>6
<1>3. CASE Transmit
  <2>1. TypeOK'
    BY <1>3, TypeStep DEF Next
  <2>2. /\ pc = "send" /\ pc' = pc /\ command' = command /\ args' = args /\ word' = word
        /\ panel' = [o \in Outlets |-> Hear(o)]
    BY <1>3 DEF Transmit
  <2>3. (pc # "idle" => command \in Commands)' /\ Parsed' /\ WordRight'
    BY <2>2 DEF Parsed, WordRight
  <2>4. ASSUME Supported(command), Target(command) \in Outlets
        PROVE  panel'[Target(command)] = command[5][1]
    <3>1. /\ IsAddress(Target(command)) /\ Target(command).type # "4"
          /\ command[5][1] \in States
      BY <2>4, WellFormedParts DEF Supported
    <3>2. word = Listens(Target(command), command[5][1])
      BY <2>2, <2>4 DEF WordRight
    <3>3. Hear(Target(command)) = command[5][1]
      BY <3>1, <3>2, Heeded
    <3> QED BY <2>2, <2>4, <3>3
  <2>5. Heard'
    BY <2>2, <2>4 DEF Heard
  <2> QED BY <2>1, <2>3, <2>5
<1>4. CASE Sent
  <2>1. TypeOK'
    BY <1>4, TypeStep DEF Next
  <2>2. /\ pc = "send" /\ left < Repeats
        /\ pc' = "done" /\ command' = command /\ args' = args /\ panel' = panel
    BY <1>4, RepeatsAssumption DEF Sent
  <2> QED BY <2>1, <2>2 DEF Parsed, WordRight, Heard
<1>5. CASE Return
  <2>1. TypeOK'
    BY <1>5, TypeStep DEF Next
  <2> QED BY <1>5, <2>1 DEF Return, Parsed, WordRight, Heard
<1>6. CASE Reset
  <2>1. TypeOK'
    BY <1>6, TypeStep DEF Next
  <2> QED BY <1>6, <2>1 DEF Reset, Parsed, WordRight, Heard
<1>7. CASE UNCHANGED vars
  BY <1>7 DEF vars, TypeOK, Parsed, WordRight, Heard
<1> QED BY <1>1, <1>2, <1>3, <1>4, <1>5, <1>6, <1>7 DEF Next

(* The invariant holds throughout, for all outlets, commands and contents  *)
(* of the memory.                                                          *)
LEMMA InvAlways == Spec => []Inv
BY InvInit, InvNext, PTL DEF Spec

-------------------------------------------------------------------------------
(* The theorems *)

(* An argument points into the command or to nothing, and no more words    *)
(* are sent than are due.                                                  *)
THEOREM TypeCorrect == Spec => []TypeOK
<1>1. Inv => TypeOK
  BY DEF Inv
<1> QED BY <1>1, InvAlways, PTL

(* When handle_command() is done with a command of the types 1 to 3, the   *)
(* outlet it addresses is in the state it asks for.                        *)
THEOREM AlwaysAddressedSwitches == Spec => []AddressedSwitches
<1>1. Inv => AddressedSwitches
  BY DEF Inv, Heard, AddressedSwitches
<1> QED BY <1>1, InvAlways, PTL

(* No other outlet is switched meanwhile, but for one that goes off with   *)
(* a word that two types have in common.                                   *)
THEOREM AlwaysOthersStay == Spec => OthersStay
<1> DEFINE Stay == Supported(command) =>
                     \A o \in Outlets :
                        panel'[o] # panel[o] =>
                            \/ o = Target(command) /\ panel'[o] = command[5][1]
                            \/ /\ o.type # Target(command).type
                               /\ panel'[o] = "0" /\ command[5] = <<"0">>
<1>1. Inv /\ [Next]_vars => [Stay]_vars
  <2> SUFFICES ASSUME Inv, Next, Supported(command), NEW o \in Outlets, panel'[o] # panel[o]
               PROVE  \/ o = Target(command) /\ panel'[o] = command[5][1]
                      \/ /\ o.type # Target(command).type
                         /\ panel'[o] = "0" /\ command[5] = <<"0">>
    OBVIOUS
  <2>1. Transmit
    BY HandleRcFrame DEF Next, HandleCommand, Sent, Return, Reset
  <2>2. pc = "send" /\ panel'[o] = Hear(o)
    BY <2>1 DEF Transmit
  <2>3. /\ IsAddress(Target(command)) /\ Target(command).type # "4"
        /\ command[5][1] \in States /\ command[5] = <<command[5][1]>>
    BY WellFormedParts DEF Supported
  <2>4. word = Listens(Target(command), command[5][1])
    BY <2>2 DEF Inv, WordRight
  <2>5. IsAddress(o)
    BY OutletsAssumption
  <2>6. \/ o = Target(command) /\ Hear(o) = command[5][1]
        \/ o.type # Target(command).type /\ command[5][1] = "0" /\ Hear(o) = "0"
    BY <2>2, <2>3, <2>4, <2>5, Heeded
  <2> QED BY <2>2, <2>3, <2>6
<1>2. [][Inv /\ [Next]_vars]_vars => [][Stay]_vars
  BY <1>1, PTL
<1>3. OthersStay <=> [][Stay]_vars
  BY DEF OthersStay
<1> QED BY <1>1, <1>3, InvAlways, PTL DEF Spec

-------------------------------------------------------------------------------
(* What is on the air has the right type *)

(* A copy of a frame is a sequence of widths. *)
LEMMA CopyType ==
    ASSUME NEW f \in Frames
    PROVE  Copy(f) \in Seq(Nat) /\ Len(Copy(f)) = 2 * f.bits + 2
<1>1. f.bits \in Nat /\ f.bits # 0 /\ f.protocol \in 1..3
  BY CodesAssumption DEF Frames, Protocols
<1> DEFINE bin == Dec2bin(f.code, f.bits)
           Pair(k) == IF bin[k] = 1 THEN Send1[f.protocol] ELSE Send0[f.protocol]
           Sync == SendSync[f.protocol]
           W(k) == IF k <= 2 * f.bits THEN Pair((k + 1) \div 2)[2 - (k % 2)]
                   ELSE Sync[2 - (k % 2)]
<1>2. Copy(f) = [k \in 1..(2 * f.bits + 2) |-> W(k)]
  BY DEF Copy
<1>3. \A k \in Nat : 2 - (k % 2) \in {1, 2}
  OBVIOUS
<1>4. \A i \in {1, 2} : /\ Send1[f.protocol][i] \in Nat
                        /\ Send0[f.protocol][i] \in Nat
                        /\ SendSync[f.protocol][i] \in Nat
  <2>1. CASE f.protocol = 1 BY <2>1 DEF Send0, Send1, SendSync
  <2>2. CASE f.protocol = 2 BY <2>2 DEF Send0, Send1, SendSync
  <2>3. CASE f.protocol = 3 BY <2>3 DEF Send0, Send1, SendSync
  <2> QED BY <1>1, <2>1, <2>2, <2>3
<1>5. ASSUME NEW k \in 1..(2 * f.bits + 2) PROVE W(k) \in Nat
  <2>1. k \in Nat /\ 2 - (k % 2) \in {1, 2}
    BY <1>1, <1>3
  <2> DEFINE i == 2 - (k % 2)
  <2>2. i \in {1, 2}
    BY <2>1
  <2> HIDE DEF i, bin
  <2>3. W(k) = IF k <= 2 * f.bits THEN Pair((k + 1) \div 2)[i] ELSE Sync[i]
    BY DEF i
  <2>4. Pair((k + 1) \div 2) = Send1[f.protocol] \/ Pair((k + 1) \div 2) = Send0[f.protocol]
    OBVIOUS
  <2> QED BY <1>4, <2>2, <2>3, <2>4
<1> DEFINE n == 2 * f.bits + 2
<1>6. n \in Nat
  BY <1>1
<1> HIDE DEF W, n
<1>7. [k \in 1..n |-> W(k)] \in Seq(Nat) /\ Len([k \in 1..n |-> W(k)]) = n
  BY <1>5, <1>6 DEF n
<1> QED BY <1>2, <1>7 DEF n

(* So is the time until the next change. *)
LEMMA WidthType ==
    ASSUME ReceiverTypeOK, air # <<>>
    PROVE  Width \in Int
<1>1. Head(air) \in Nat /\ Len(air) \in Nat
  BY DEF ReceiverTypeOK
<1>2. frame.protocol \in Protocols /\ skew \in Int
  BY GapsAssumption DEF ReceiverTypeOK, Frames
<1>3. PulseLength[frame.protocol] \in Nat
  <2>1. CASE frame.protocol = 1 BY <2>1 DEF PulseLength, Protocols
  <2>2. CASE frame.protocol = 2 BY <2>2 DEF PulseLength, Protocols
  <2>3. CASE frame.protocol = 3 BY <2>3 DEF PulseLength, Protocols
  <2> QED BY <1>2, <2>1, <2>2, <2>3 DEF Protocols
<1> DEFINE us == Head(air) * PulseLength[frame.protocol]
           s == IF Len(air) % 2 = 0 THEN skew ELSE -skew
<1>4. us \in Int /\ s \in Int
  BY <1>1, <1>2, <1>3
<1> HIDE DEF us, s
<1>5. us + (us * s) \div 100 \in Int
  BY <1>4
<1> QED BY <1>5 DEF Width, us, s

-------------------------------------------------------------------------------
(* The interrupt *)

(* The decoders write nothing when there is nothing to decode. *)
LEMMA DecodersIdle == Decoders(0) = received
  BY DEF Decoders, Result

(* One call keeps timings and repeatCount within bounds and received as it *)
(* was.                                                                    *)
LEMMA InterruptSafe ==
    ASSUME ReceiverTypeOK, NEW since \in Int, HandleInterrupt(since % UintMod)
    PROVE  /\ timings' \in Seq(0..(UintMod - 1))
           /\ Len(timings') <= RCSWITCH_MAX_CHANGES
           /\ repeatCount' \in 0..1
           /\ received' = received
<1> DEFINE d == since % UintMod
           due == IsSync(d) /\ repeatCount + 1 = 2
           kept == IF d > SYNC_MIN THEN <<>> ELSE timings
           base == IF Full(Len(kept)) THEN <<>> ELSE kept
<1>1. d \in 0..(UintMod - 1)
  BY WidthsAssumption
<1>2. timings \in Seq(0..(UintMod - 1)) /\ Len(timings) <= RCSWITCH_MAX_CHANGES
  BY DEF ReceiverTypeOK
<1>3. timings' = Append(base, d)
  BY DEF HandleInterrupt
<1>4. received' = received
  BY DecodersIdle DEF HandleInterrupt
<1>5. repeatCount' = IF due \/ Full(Len(kept)) THEN 0
                     ELSE repeatCount + (IF IsSync(d) THEN 1 ELSE 0)
  BY DEF HandleInterrupt
<1> HIDE DEF d
<1>6. kept \in Seq(0..(UintMod - 1)) /\ Len(kept) <= RCSWITCH_MAX_CHANGES
  <2>1. <<>> \in Seq(0..(UintMod - 1)) /\ Len(<<>>) = 0
    BY EmptySeq, Zenon
  <2>2. CASE d > SYNC_MIN
    BY <2>1, <2>2, MaxChangesAssumption
  <2>3. CASE ~(d > SYNC_MIN)
    BY <1>2, <2>3
  <2> QED BY <2>2, <2>3
<1> HIDE DEF kept
<1>7. base \in Seq(0..(UintMod - 1)) /\ Len(base) + 1 <= RCSWITCH_MAX_CHANGES
  <2>1. <<>> \in Seq(0..(UintMod - 1)) /\ Len(<<>>) = 0
    BY EmptySeq, Zenon
  <2>2. CASE Full(Len(kept))
    BY <2>1, <2>2, MaxChangesAssumption
  <2>3. CASE ~Full(Len(kept))
    <3>1. Len(kept) \in Nat
      BY <1>6
    <3>2. Len(kept) < RCSWITCH_MAX_CHANGES
      BY <2>3, <3>1, MaxChangesAssumption DEF Full
    <3> QED BY <1>6, <2>3, <3>1, <3>2, MaxChangesAssumption
  <2> QED BY <2>2, <2>3
<1> HIDE DEF base
<1>8. timings' \in Seq(0..(UintMod - 1)) /\ Len(timings') <= RCSWITCH_MAX_CHANGES
  BY <1>1, <1>3, <1>7
<1>9. repeatCount' \in 0..1
  <2>1. repeatCount \in {0, 1}
    BY DEF ReceiverTypeOK
  <2>2. CASE due \/ Full(Len(kept)) BY <1>5, <2>2
  <2>3. CASE ~(due \/ Full(Len(kept)))
    BY <1>5, <2>1, <2>3
  <2> QED BY <2>2, <2>3
<1> QED BY <1>4, <1>8, <1>9

(* A change of the line, served or not. *)
LEMMA ChangeSafe ==
    ASSUME ReceiverTypeOK, NEW width \in Int, Change(width)
    PROVE  /\ timings' \in Seq(0..(UintMod - 1))
           /\ Len(timings') <= RCSWITCH_MAX_CHANGES
           /\ repeatCount' \in 0..1
           /\ received' = received
           /\ missed' \in BOOLEAN
<1>1. CASE attached
  <2>1. PICK since \in (IF missed THEN Gaps ELSE {width}) : HandleInterrupt(since % UintMod)
    BY <1>1 DEF Change
  <2>2. since \in Int
    BY <2>1, GapsAssumption
  <2>3. missed' \in BOOLEAN
    BY <1>1 DEF Change
  <2> QED BY <2>1, <2>2, <2>3, InterruptSafe
<1>2. CASE ~attached
  BY <1>2 DEF Change, ReceiverTypeOK, receiver
<1> QED BY <1>1, <1>2

-------------------------------------------------------------------------------
(* The inductive invariant: backup holds the interrupt while a pulse has   *)
(* taken it away.                                                          *)

ReceiverInv ==
    /\ ReceiverTypeOK /\ NothingReceived /\ ReceiverRearmed
    /\ program = "pulse" => backup /\ pulses >= 1
    /\ program = "send" => pulses >= 1

LEMMA ReceiverInitInv == ReceiverInit => ReceiverInv
<1> SUFFICES ASSUME ReceiverInit PROVE ReceiverInv
  OBVIOUS
<1>1. timings \in Seq(0..(UintMod - 1)) /\ Len(timings) <= RCSWITCH_MAX_CHANGES
  BY EmptySeq, MaxChangesAssumption DEF ReceiverInit
<1>2. air \in Seq(Nat)
  BY EmptySeq DEF ReceiverInit
<1>4. frame \in Frames /\ skew \in Skews
  BY DEF ReceiverInit
<1>5. received.value = 0
  BY DEF ReceiverInit, Nothing
<1>3. MaxPulses \in Nat /\ MaxSends \in Nat
  BY BoundsAssumption
<1>6. pulses \in 0..MaxPulses /\ sends \in 0..MaxSends /\ repeatCount \in 0..1
  BY <1>3 DEF ReceiverInit
<1>7. attached \in BOOLEAN /\ backup \in BOOLEAN /\ whole \in BOOLEAN /\ missed \in BOOLEAN
  BY Zenon DEF ReceiverInit
<1>8. program = "setup"
  BY DEF ReceiverInit
<1>9. ReceiverTypeOK
  BY <1>1, <1>2, <1>4, <1>6, <1>7, <1>8 DEF ReceiverTypeOK
<1> QED BY <1>5, <1>8, <1>9 DEF ReceiverInv, NothingReceived, ReceiverRearmed

LEMMA ReceiverStepInv == ReceiverInv /\ [ReceiverNext]_receiverVars => ReceiverInv'
<1> SUFFICES ASSUME ReceiverInv, [ReceiverNext]_receiverVars PROVE ReceiverInv'
  OBVIOUS
<1>0. ReceiverTypeOK
  BY DEF ReceiverInv
(* The actions of the line leave the main program alone. *)
<1> DEFINE Line == /\ timings' \in Seq(0..(UintMod - 1))
                   /\ Len(timings') <= RCSWITCH_MAX_CHANGES
                   /\ repeatCount' \in 0..1
                   /\ received' = received
                   /\ missed' \in BOOLEAN
<1>a. ASSUME Line, UNCHANGED sender,
             air' \in Seq(Nat), frame' \in Frames, skew' \in Skews, whole' \in BOOLEAN
      PROVE  ReceiverInv'
  BY <1>a DEF ReceiverInv, ReceiverTypeOK, NothingReceived, ReceiverRearmed, sender
<1>b. \A gap \in Gaps : gap \in Int
  BY GapsAssumption
<1>c. \A f \in Frames : Copy(f) \in Seq(Nat)
  BY CopyType
<1>d. air \in Seq(Nat) /\ frame \in Frames /\ skew \in Skews /\ whole \in BOOLEAN
      /\ attached \in BOOLEAN /\ missed \in BOOLEAN
  BY <1>0 DEF ReceiverTypeOK
<1>1. CASE StartsFrame
  <2>1. Line
    BY <1>0, <1>1, <1>b, ChangeSafe DEF StartsFrame
  <2>2. air' \in Seq(Nat) /\ frame' \in Frames /\ skew' \in Skews /\ whole' \in BOOLEAN
    BY <1>1, <1>c DEF StartsFrame
  <2> QED BY <1>1, <1>a, <2>1, <2>2 DEF StartsFrame
<1>2. CASE ContinuesFrame
  <2>1. air # <<>>
    BY <1>2 DEF ContinuesFrame
  <2>2. Line
    BY <1>0, <1>2, <2>1, WidthType, ChangeSafe DEF ContinuesFrame
  <2>3. air' \in Seq(Nat)
    BY <1>2, <1>d, <2>1 DEF ContinuesFrame
  <2>4. frame' \in Frames /\ skew' \in Skews /\ whole' \in BOOLEAN
    BY <1>2, <1>d DEF ContinuesFrame
  <2> QED BY <1>2, <1>a, <2>2, <2>3, <2>4 DEF ContinuesFrame
<1>3. CASE RepeatsFrame
  <2>1. air # <<>>
    BY <1>3 DEF RepeatsFrame
  <2>2. Line
    BY <1>0, <1>3, <2>1, WidthType, ChangeSafe DEF RepeatsFrame
  <2>3. air' \in Seq(Nat) /\ frame' \in Frames /\ skew' \in Skews
    BY <1>3, <1>c, <1>d DEF RepeatsFrame
  <2>4. whole' \in BOOLEAN
    BY <1>3, <1>d DEF RepeatsFrame
  <2> QED BY <1>3, <1>a, <2>2, <2>3, <2>4 DEF RepeatsFrame
<1>4. CASE EndsFrame
  <2>1. Line
    BY <1>0, <1>4, <1>b, ChangeSafe DEF EndsFrame
  <2>2. air' \in Seq(Nat) /\ frame' \in Frames /\ skew' \in Skews /\ whole' \in BOOLEAN
    <3>1. CASE air' = <<>> /\ UNCHANGED <<frame, skew>>
      BY <1>4, <1>d, <3>1, EmptySeq DEF EndsFrame
    <3>2. CASE frame' \in Frames /\ skew' \in Skews /\ air' = Copy(frame')
      BY <1>4, <1>c, <3>2 DEF EndsFrame
    <3> QED BY <1>4, <3>1, <3>2 DEF EndsFrame
  <2> QED BY <1>4, <1>a, <2>1, <2>2 DEF EndsFrame
<1>5. CASE Noise
  <2>1. Line
    BY <1>0, <1>5, <1>b, ChangeSafe DEF Noise
  <2> QED BY <1>5, <1>a, <1>d, <2>1 DEF Noise
<1>6. CASE ServesFlag
  <2>1. PICK since \in Gaps : HandleInterrupt(since % UintMod)
    BY <1>6 DEF ServesFlag
  <2>2. Line
    BY <1>0, <1>6, <1>b, <2>1, InterruptSafe DEF ServesFlag
  <2> QED BY <1>6, <1>a, <1>d, <2>2 DEF ServesFlag
<1>7. CASE Setup
  <2>1. received'.value = 0
    BY <1>7 DEF Setup, EnableReceive, ReceiverInv, NothingReceived
  <2> QED BY <1>7, <2>1 DEF Setup, ReceiverInv, ReceiverTypeOK, NothingReceived, ReceiverRearmed, line
<1>8. CASE Sends
  <2>1. pulses' \in 1..MaxPulses /\ sends' \in 0..MaxSends
    BY <1>8, BoundsAssumption DEF Sends, ReceiverInv, ReceiverTypeOK
  <2> QED BY <1>8, <2>1, BoundsAssumption
          DEF Sends, ReceiverInv, ReceiverTypeOK, NothingReceived, ReceiverRearmed, line, receiver
<1>9. CASE PulseStarts
  <2>1. air' \in Seq(Nat)
    BY <1>9, EmptySeq DEF PulseStarts
  <2>2. backup' /\ pulses' >= 1
    BY <1>9 DEF PulseStarts, ReceiverInv, ReceiverRearmed
  <2> QED BY <1>9, <2>1, <2>2
          DEF PulseStarts, ReceiverInv, ReceiverTypeOK, NothingReceived, ReceiverRearmed, receiver
<1>10. CASE PulseEnds
  <2>1. program = "pulse" /\ backup /\ pulses >= 1 /\ pulses \in 0..MaxPulses /\ MaxPulses \in Nat
    BY <1>10, BoundsAssumption DEF PulseEnds, ReceiverInv, ReceiverTypeOK
  <2>2. attached' /\ EnableReceive
    BY <1>10, <2>1 DEF PulseEnds
  <2>3. received'.value = 0
    BY <2>2 DEF EnableReceive, ReceiverInv, NothingReceived
  <2>4. pulses' = pulses - 1 /\ pulses' \in 0..MaxPulses
    BY <1>10, <2>1 DEF PulseEnds
  <2>5. program' = IF pulses = 1 THEN "loop" ELSE "send"
    BY <1>10 DEF PulseEnds
  <2>6. program' = "send" => pulses' >= 1
    BY <2>1, <2>4, <2>5
  <2>7. attached' \in BOOLEAN
    BY <1>10, <1>0 DEF PulseEnds, ReceiverTypeOK
  <2> QED BY <1>10, <2>2, <2>3, <2>4, <2>5, <2>6, <2>7
          DEF PulseEnds, ReceiverInv, ReceiverTypeOK, NothingReceived, ReceiverRearmed, line
<1>11. CASE UNCHANGED receiverVars
  BY <1>11 DEF receiverVars, receiver, sender, line, ReceiverInv, ReceiverTypeOK, NothingReceived, ReceiverRearmed
<1> QED BY <1>1, <1>2, <1>3, <1>4, <1>5, <1>6, <1>7, <1>8, <1>9, <1>10, <1>11 DEF ReceiverNext

LEMMA ReceiverAlways == ReceiverSpec => []ReceiverInv
  BY ReceiverInitInv, ReceiverStepInv, PTL DEF ReceiverSpec

-------------------------------------------------------------------------------
(* The interrupt never writes behind timings, whatever comes in (the test  *)
(* of RCSwitch.cpp:785).                                                   *)
THEOREM ReceiverTypeCorrect == ReceiverSpec => []ReceiverTypeOK
<1>1. ReceiverInv => ReceiverTypeOK
  BY DEF ReceiverInv
<1> QED BY <1>1, ReceiverAlways, PTL

(* available() never becomes true, whatever frames of whatever protocol    *)
(* and length are sent (RCSwitch.cpp:771).                                 *)
THEOREM NeverReceives == ReceiverSpec => []NothingReceived
<1>1. ReceiverInv => NothingReceived
  BY DEF ReceiverInv
<1> QED BY <1>1, ReceiverAlways, PTL

(* The receiver has its interrupt back after every pulse that was sent,    *)
(* although transmit() forgets its number (RCSwitch.cpp:473-496).          *)
THEOREM SendingRearms == ReceiverSpec => []ReceiverRearmed
<1>1. ReceiverInv => ReceiverRearmed
  BY DEF ReceiverInv
<1> QED BY <1>1, ReceiverAlways, PTL

-------------------------------------------------------------------------------
(* What is read from a frame: the digits of its code *)

(* The loop that halves Dec has its values. *)
LEMMA ShiftedIs ==
    ASSUME NEW c \in Nat, NEW n \in Nat
    PROVE  \E g \in [0..n -> Nat] : /\ g[0] = c /\ Shifted(c, n) = g[n]
                                    /\ \A k \in 1..n : g[k] = g[k - 1] \div 2
<1> DEFINE F == [k \in 1..n |-> [x \in Nat |-> x \div 2]]
           At(g, i) == IF i = 0 THEN c ELSE g[i - 1] \div 2
           Solves(g) == g = [i \in 0..n |-> At(g, i)]
<1>1. \A x \in Nat : x \div 2 \in Nat
  OBVIOUS
<1>2. StepsIn(F, n, Nat)
  BY <1>1 DEF StepsIn
<1>3. PICK g \in [0..n -> Nat] : g[0] = c /\ \A k \in 1..n : g[k] = F[k][g[k - 1]]
  <2> HIDE DEF F
  <2>1. PICK g : Follows(g, F, n, Nat, c)
    BY <1>2, Recursion
  <2> QED BY <2>1 DEF Follows
<1>4. \A k \in 1..n : g[k] = g[k - 1] \div 2
  <2> SUFFICES ASSUME NEW k \in 1..n PROVE g[k] = g[k - 1] \div 2
    OBVIOUS
  <2>1. k - 1 \in 0..n
    OBVIOUS
  <2>2. g[k - 1] \in Nat
    BY <2>1
  <2> QED BY <1>3, <2>2
<1>5. Solves(g)
  <2>1. ASSUME NEW i \in 0..n PROVE g[i] = At(g, i)
    BY <1>3, <1>4
  <2> HIDE DEF At
  <2> QED BY <2>1
<1> DEFINE h == CHOOSE h : Solves(h)
<1>6. Solves(h)
  <2> HIDE DEF Solves
  <2> QED BY <1>5
<1>7. Shifted(c, n) = h[n]
  BY DEF Shifted
<1>8. \A i \in 0..n : h[i] = At(h, i)
  <2> HIDE DEF At, h
  <2> QED BY <1>6
<1> DEFINE Same == {k \in 0..n : h[k] = g[k]}
<1>9. 0..n \subseteq Same
  <2>1. 0 \in Same
    <3> HIDE DEF h
    <3> QED BY <1>3, <1>8
  <2>2. ASSUME NEW k \in 0..(n - 1), k \in Same PROVE k + 1 \in Same
    <3>1. k + 1 \in 1..n /\ k + 1 \in 0..n /\ k + 1 # 0 /\ (k + 1) - 1 = k
      OBVIOUS
    <3>2. h[k] = g[k]
      BY <2>2
    <3>3. h[k + 1] = h[k] \div 2
      <4> HIDE DEF h
      <4> QED BY <1>8, <3>1
    <3>4. g[k + 1] = g[k] \div 2
      BY <1>4, <3>1
    <3> HIDE DEF h
    <3> QED BY <3>1, <3>2, <3>3, <3>4
  <2> HIDE DEF Same, h
  <2> QED BY <2>1, <2>2, SetInduction
<1> HIDE DEF h
<1>10. h[n] = g[n]
  BY <1>9
<1> QED BY <1>3, <1>4, <1>7, <1>10

(* Dec >> k, one place at a time. *)
LEMMA ShiftedStep ==
    ASSUME NEW c \in Nat
    PROVE  /\ Shifted(c, 0) = c
           /\ \A n \in Nat : Shifted(c, n) \in Nat /\ Shifted(c, n + 1) = Shifted(c, n) \div 2
<1>1. Shifted(c, 0) = c
  BY ShiftedIs
<1>2. ASSUME NEW n \in Nat
      PROVE  Shifted(c, n) \in Nat /\ Shifted(c, n + 1) = Shifted(c, n) \div 2
  <2>1. PICK g \in [0..n -> Nat] : /\ g[0] = c /\ Shifted(c, n) = g[n]
                                   /\ \A k \in 1..n : g[k] = g[k - 1] \div 2
    BY ShiftedIs
  <2>2. n + 1 \in Nat
    OBVIOUS
  <2>3. PICK h \in [0..(n + 1) -> Nat] : /\ h[0] = c /\ Shifted(c, n + 1) = h[n + 1]
                                         /\ \A k \in 1..(n + 1) : h[k] = h[k - 1] \div 2
    BY <2>2, ShiftedIs
  <2> DEFINE Same == {k \in 0..n : h[k] = g[k]}
  <2>4. 0 \in Same
    BY <2>1, <2>3
  <2>5. ASSUME NEW k \in 0..(n - 1), k \in Same PROVE k + 1 \in Same
    <3>1. k + 1 \in 1..n /\ k + 1 \in 1..(n + 1) /\ k + 1 \in 0..n /\ (k + 1) - 1 = k
      OBVIOUS
    <3>2. h[k + 1] = h[k] \div 2 /\ g[k + 1] = g[k] \div 2 /\ h[k] = g[k]
      BY <2>1, <2>3, <2>5, <3>1
    <3> QED BY <3>1, <3>2
  <2>6. h[n] = g[n]
    <3>1. 0..n \subseteq Same
      <4> HIDE DEF Same
      <4> QED BY <2>4, <2>5, SetInduction
    <3> QED BY <3>1
  <2>7. h[n + 1] = h[n] \div 2
    <3>1. n + 1 \in 1..(n + 1) /\ (n + 1) - 1 = n
      OBVIOUS
    <3> QED BY <2>3, <3>1
  <2>8. g[n] \in Nat
    OBVIOUS
  <2> QED BY <2>1, <2>3, <2>6, <2>7, <2>8
<1> QED BY <1>1, <1>2

(* Nothing comes back once nothing is left. *)
LEMMA ShiftedOut ==
    ASSUME NEW c \in Nat, NEW i \in Nat, NEW m \in Nat, i <= m, Shifted(c, i) = 0
    PROVE  Shifted(c, m) = 0
<1> DEFINE n == m - i
           Out == {k \in 0..n : Shifted(c, i + k) = 0}
<1>1. n \in Nat /\ i + n = m /\ i + 0 = i
  OBVIOUS
<1>2. 0 \in Out
  BY <1>1
<1>3. ASSUME NEW k \in 0..(n - 1), k \in Out PROVE k + 1 \in Out
  <2>1. k + 1 \in 0..n /\ i + k \in Nat /\ (i + k) + 1 = i + (k + 1)
    OBVIOUS
  <2>2. Shifted(c, (i + k) + 1) = Shifted(c, i + k) \div 2
    BY <2>1, ShiftedStep
  <2>3. Shifted(c, i + k) = 0
    BY <1>3
  <2>4. Shifted(c, i + (k + 1)) = 0
    BY <2>1, <2>2, <2>3
  <2> QED BY <2>1, <2>4
<1>4. n \in Out
  <2> HIDE DEF Out, n
  <2>1. 0..n \subseteq Out
    BY <1>1, <1>2, <1>3, SetInduction
  <2> QED BY <1>1, <2>1
<1> QED BY <1>1, <1>4

(* The loop ends, and its turns are the places up to the highest one. *)
LEMMA SignificantIs ==
    ASSUME NEW c \in Nat
    PROVE  /\ Significant(c) \in 0..c /\ Shifted(c, Significant(c)) = 0
           /\ \A j \in 0..(Significant(c) - 1) : Shifted(c, j) # 0
<1> DEFINE Less == {i \in 0..c : Shifted(c, i) \in 0..(c - i)}
           Gone == {i \in Nat : Shifted(c, i) = 0}
<1>1. 0 \in Less
  BY ShiftedStep
<1>2. ASSUME NEW k \in 0..(c - 1), k \in Less PROVE k + 1 \in Less
  <2>1. k + 1 \in 0..c /\ k \in Nat
    OBVIOUS
  <2>2. Shifted(c, k + 1) = Shifted(c, k) \div 2
    BY <2>1, ShiftedStep
  <2>3. Shifted(c, k) \in 0..(c - k)
    BY <1>2
  <2>4. \A x \in 0..(c - k) : x \div 2 \in 0..(c - (k + 1))
    OBVIOUS
  <2> QED BY <2>1, <2>2, <2>3, <2>4
<1>3. c \in Less
  <2> HIDE DEF Less
  <2>1. 0..c \subseteq Less
    BY <1>1, <1>2, SetInduction
  <2> QED BY <2>1
<1>4. c \in Gone
  BY <1>3
<1>5. \E i \in 0..c : i \in Gone /\ \A j \in 0..(i - 1) : j \notin Gone
  <2> HIDE DEF Gone
  <2> QED BY <1>4, LeastElement
<1> DEFINE Top(i) == Shifted(c, i) = 0 /\ \A j \in 0..(i - 1) : Shifted(c, j) # 0
<1>6. PICK i \in 0..c : Top(i)
  <2>1. PICK i \in 0..c : i \in Gone /\ \A j \in 0..(i - 1) : j \notin Gone
    BY <1>5
  <2>2. \A j \in 0..(i - 1) : j \in Nat
    OBVIOUS
  <2> QED BY <2>1, <2>2
<1>7. Significant(c) = CHOOSE k \in 0..c : Top(k)
  BY DEF Significant
<1>8. Significant(c) \in 0..c /\ Top(Significant(c))
  <2> HIDE DEF Top
  <2> QED BY <1>6, <1>7
<1> QED BY <1>8

(* What is sent of a code: its digits, highest first, when they are not    *)
(* more than the bits, and zeros otherwise, as the number of zeros in      *)
(* front is unsigned.                                                      *)
LEMMA DigitsAre ==
    ASSUME NEW f \in Frames, NEW j \in 1..f.bits
    PROVE  Dec2bin(f.code, f.bits)[j] =
               IF Shifted(f.code, f.bits) = 0 THEN Shifted(f.code, f.bits - j) % 2 ELSE 0
<1> DEFINE n == f.bits
           c == f.code
           S == Significant(c)
<1>1. n \in Nat /\ n # 0 /\ c \in Nat
  BY CodesAssumption DEF Frames
<1>2. n < UintMod /\ S <= UintMod /\ UintMod \in Nat
  BY WidthsAssumption, FramesFit, DigitsFit DEF Frames
<1>3. /\ S \in Nat /\ Shifted(c, S) = 0
      /\ \A i \in 0..(S - 1) : Shifted(c, i) # 0
  <2>1. S \in 0..c /\ Shifted(c, S) = 0
        /\ \A i \in 0..(S - 1) : Shifted(c, i) # 0
    BY <1>1, SignificantIs
  <2> HIDE DEF S
  <2> QED BY <1>1, <2>1
<1>4. Dec2bin(c, n)[j] = IF j - 1 >= (n - S) % UintMod THEN Shifted(c, n - j) % 2 ELSE 0
  BY DEF Dec2bin
<1>5. n - j \in Nat /\ j \in Nat /\ j >= 1
  BY <1>1
<1> HIDE DEF n, c, S
<1>6. CASE S <= n
  <2>1. Shifted(c, n) = 0
    BY <1>1, <1>3, <1>6, ShiftedOut
  <2>2. (n - S) % UintMod = n - S
    BY <1>1, <1>2, <1>3, <1>6
  <2>3. ASSUME ~(j - 1 >= n - S) PROVE Shifted(c, n - j) % 2 = 0
    <3>1. S <= n - j
      BY <1>1, <1>3, <1>5, <2>3
    <3>2. Shifted(c, n - j) = 0
      BY <1>1, <1>3, <1>5, <3>1, ShiftedOut
    <3> QED BY <3>2
  <2> QED BY <1>4, <2>1, <2>2, <2>3 DEF n, c
<1>7. CASE S > n
  <2>1. Shifted(c, n) # 0
    <3>1. n \in 0..(S - 1)
      BY <1>1, <1>3, <1>7
    <3> QED BY <1>3, <3>1
  <2>2. (n - S) % UintMod = UintMod + n - S
    <3>1. \A U \in Nat : \A x \in Int : 0 - U <= x /\ x < 0 => x % U = U + x
      OBVIOUS
    <3>2. n - S \in Int /\ 0 - UintMod <= n - S /\ n - S < 0
      BY <1>1, <1>2, <1>3, <1>7
    <3>3. (n - S) % UintMod = UintMod + (n - S)
      BY <1>2, <3>1, <3>2
    <3> QED BY <1>1, <1>2, <1>3, <3>3
  <2>3. ~(j - 1 >= (n - S) % UintMod)
    <3>1. j <= n
      BY <1>1 DEF n
    <3> QED BY <1>1, <1>2, <1>3, <1>5, <2>2, <3>1
  <2> QED BY <1>4, <2>1, <2>3 DEF n, c
<1> QED BY <1>1, <1>3, <1>6, <1>7

-------------------------------------------------------------------------------
(* The loop of the decoders *)

(* v are the values of the loop of a decoder, turn by turn. *)
DecodesBy(v, cc, d, zero, one) ==
    LET n == cc \div 2
    IN /\ v \in [0..n -> Nat] /\ v[0] = 0
       /\ \A k \in 1..n :
             v[k] = (2 * (v[k - 1] + (IF IsPair(k, d, zero) THEN 0 ELSE 1))) % UlongMod
       /\ Decode(cc, d, zero, one) =
             IF \A k \in 1..n : IsPair(k, d, zero) \/ IsPair(k, d, one)
             THEN v[n] \div 2 ELSE 0

LEMMA DecodeIs ==
    ASSUME NEW cc \in Nat, NEW d, NEW zero, NEW one
    PROVE  \E v : DecodesBy(v, cc, d, zero, one)
<1> DEFINE n == cc \div 2
           Turn(k) == IF IsPair(k, d, zero) THEN 0 ELSE 1
           F == [k \in 1..n |-> [x \in Nat |-> (2 * (x + Turn(k))) % UlongMod]]
           At(g, k) == IF k = 0 THEN 0 ELSE (2 * (g[k - 1] + Turn(k))) % UlongMod
           Solves(g) == g = [k \in 0..n |-> At(g, k)]
<1>0. n \in Nat /\ \A k : Turn(k) \in {0, 1}
  OBVIOUS
<1>1. \A k : \A x \in Nat : (2 * (x + Turn(k))) % UlongMod \in Nat
  <2> HIDE DEF Turn
  <2> QED BY <1>0, WidthsAssumption
<1>2. StepsIn(F, n, Nat)
  <2> HIDE DEF Turn, n
  <2> QED BY <1>1 DEF StepsIn
<1>3. PICK g \in [0..n -> Nat] : g[0] = 0 /\ \A k \in 1..n : g[k] = F[k][g[k - 1]]
  <2> HIDE DEF F, n
  <2>1. PICK g : Follows(g, F, n, Nat, 0)
    BY <1>0, <1>2, Recursion
  <2> QED BY <2>1 DEF Follows
<1> HIDE DEF Turn, n
<1>4. \A k \in 1..n : g[k] = (2 * (g[k - 1] + Turn(k))) % UlongMod
  <2> SUFFICES ASSUME NEW k \in 1..n PROVE g[k] = (2 * (g[k - 1] + Turn(k))) % UlongMod
    OBVIOUS
  <2>1. k - 1 \in 0..n
    BY <1>0
  <2>2. g[k - 1] \in Nat
    BY <2>1
  <2> QED BY <1>3, <2>2
<1>5. Solves(g)
  <2>1. ASSUME NEW i \in 0..n PROVE g[i] = At(g, i)
    BY <1>0, <1>3, <1>4
  <2> HIDE DEF At
  <2> QED BY <2>1
<1> DEFINE h == CHOOSE h : Solves(h)
<1>6. Solves(h)
  <2> HIDE DEF Solves
  <2> QED BY <1>5
<1>7. Decode(cc, d, zero, one) =
          IF \A k \in 1..n : IsPair(k, d, zero) \/ IsPair(k, d, one)
          THEN h[n] \div 2 ELSE 0
  BY DEF Decode, n, Turn
<1>8. \A i \in 0..n : h[i] = At(h, i)
  <2> HIDE DEF At, h
  <2> QED BY <1>6
<1>9. \A k \in 0..n : h[k] = g[k]
  <2> DEFINE Same == {k \in 0..n : h[k] = g[k]}
  <2>1. 0 \in Same
    <3> HIDE DEF h
    <3> QED BY <1>0, <1>3, <1>8
  <2>2. ASSUME NEW k \in 0..(n - 1), k \in Same PROVE k + 1 \in Same
    <3>1. k + 1 \in 1..n /\ k + 1 \in 0..n /\ k + 1 # 0 /\ (k + 1) - 1 = k
      BY <1>0
    <3>2. h[k] = g[k]
      BY <2>2
    <3>3. h[k + 1] = (2 * (h[k] + Turn(k + 1))) % UlongMod
      <4> HIDE DEF h
      <4> QED BY <1>8, <3>1
    <3>4. g[k + 1] = (2 * (g[k] + Turn(k + 1))) % UlongMod
      BY <1>4, <3>1
    <3> HIDE DEF h
    <3> QED BY <3>1, <3>2, <3>3, <3>4
  <2>3. 0..n \subseteq Same
    <3> HIDE DEF Same, h
    <3> QED BY <1>0, <2>1, <2>2, SetInduction
  <2> QED BY <2>3
<1>10. h[n] = g[n]
  BY <1>0, <1>9
<1> HIDE DEF h
<1>11. DecodesBy(g, cc, d, zero, one)
  BY <1>3, <1>4, <1>7, <1>10 DEF DecodesBy, Turn, n
<1> QED BY <1>11

(* A decoder that never sees a pair for one reads nothing. *)
LEMMA NoOneNothing ==
    ASSUME NEW cc \in Nat, NEW d, NEW zero, NEW one,
           \A k \in 1..(cc \div 2) : ~IsPair(k, d, one)
    PROVE  Decode(cc, d, zero, one) = 0
<1> DEFINE n == cc \div 2
<1>1. n \in Nat
  OBVIOUS
<1>2. PICK v : DecodesBy(v, cc, d, zero, one)
  BY DecodeIs
<1>4. /\ v[0] = 0
      /\ \A k \in 1..n :
            v[k] = (2 * (v[k - 1] + (IF IsPair(k, d, zero) THEN 0 ELSE 1))) % UlongMod
      /\ Decode(cc, d, zero, one) =
            IF \A k \in 1..n : IsPair(k, d, zero) \/ IsPair(k, d, one)
            THEN v[n] \div 2 ELSE 0
  BY <1>2 DEF DecodesBy
<1>3. ASSUME \A k \in 1..n : IsPair(k, d, zero) PROVE v[n] = 0
  <2> DEFINE Zero == {k \in 0..n : v[k] = 0}
  <2>1. 0 \in Zero
    BY <1>1, <1>4
  <2>2. ASSUME NEW k \in 0..(n - 1), k \in Zero PROVE k + 1 \in Zero
    <3> HIDE DEF n
    <3>1. k + 1 \in 1..n /\ k + 1 \in 0..n /\ (k + 1) - 1 = k
      BY <1>1
    <3>2. v[k + 1] = (2 * (v[k] + 0)) % UlongMod /\ v[k] = 0
      BY <1>4, <1>3, <2>2, <3>1
    <3>3. (2 * (0 + 0)) % UlongMod = 0
      BY WidthsAssumption
    <3> QED BY <3>1, <3>2, <3>3
  <2>3. 0..n \subseteq Zero
    <3> HIDE DEF Zero, n
    <3> QED BY <1>1, <2>1, <2>2, SetInduction
  <2> QED BY <1>1, <2>3
<1> HIDE DEF n
<1> QED BY <1>4, <1>3 DEF n

(* A number is a multiple and a remainder, in one way. *)
LEMMA RemainderIs ==
    ASSUME NEW M \in Nat \ {0}, NEW q \in Int, NEW r \in 0..(M - 1)
    PROVE  (M * q + r) % M = r
OBVIOUS

LEMMA RemainderOf ==
    ASSUME NEW M \in Nat \ {0}, NEW x \in Int
    PROVE  x \div M \in Int /\ (x % M) \in 0..(M - 1) /\ x = M * (x \div M) + (x % M)
OBVIOUS

(* A remainder may be taken before or after. *)
LEMMA RemainderSkips ==
    ASSUME NEW M \in Nat \ {0}, NEW x \in Nat, NEW b \in {0, 1}
    PROVE  (2 * ((x % M) + b)) % M = (2 * (x + b)) % M
<1> DEFINE q == x \div M
           r == x % M
           y == 2 * (r + b)
           s == y \div M
           t == y % M
<1>1. q \in Int /\ r \in 0..(M - 1) /\ x = M * q + r
  BY RemainderOf
<1>2. y \in Int
  <2> HIDE DEF r
  <2> QED BY <1>1
<1>3. s \in Int /\ t \in 0..(M - 1) /\ y = M * s + t
  <2> HIDE DEF y
  <2> QED BY <1>2, RemainderOf
<1>4. 2 * (x + b) = M * (2 * q + s) + t
  <2>1. 2 * (x + b) = 2 * (M * q) + y
    <3> HIDE DEF q, r, s, t
    <3> DEFINE p == M * q
    <3>1. p \in Int /\ x = p + r
      BY <1>1
    <3> HIDE DEF p
    <3>2. 2 * (x + b) = 2 * p + y
      BY <1>1, <3>1
    <3> QED BY <3>2 DEF p
  <2> HIDE DEF q, r, s, t, y
  <2>2. M * (2 * q + s) = 2 * (M * q) + M * s
    BY <1>1, <1>3
  <2> DEFINE p == M * q
             u == M * s
  <2>3. p \in Int /\ u \in Int
    BY <1>1, <1>3
  <2>4. M * (2 * q + s) = 2 * p + u /\ 2 * (x + b) = 2 * p + y /\ y = u + t
    BY <1>3, <2>1, <2>2
  <2> HIDE DEF p, u
  <2> QED BY <1>2, <1>3, <2>3, <2>4
<1>5. 2 * q + s \in Int
  <2> HIDE DEF q, s
  <2> QED BY <1>1, <1>3
<1> DEFINE w == 2 * q + s
<1>6. (2 * (x + b)) % M = t
  <2>1. w \in Int /\ 2 * (x + b) = M * w + t
    BY <1>4, <1>5
  <2> HIDE DEF w, t
  <2> QED BY <1>3, <2>1, RemainderIs
<1> QED BY <1>6

(* Shifted once too often and back, a value has lost its first bit. *)
LEMMA RemainderHalved ==
    ASSUME NEW Q \in Nat \ {0}, NEW x \in Nat
    PROVE  ((2 * x) % (2 * Q)) \div 2 = x % Q
<1> DEFINE q == x \div Q
           r == x % Q
           M == 2 * Q
           t == 2 * r
<1>1. q \in Int /\ r \in 0..(Q - 1) /\ x = Q * q + r
  BY RemainderOf
<1>2. M \in Nat \ {0} /\ t \in 0..(M - 1)
  <2> HIDE DEF r
  <2> QED BY <1>1
<1>3. 2 * x = M * q + t
  <2> HIDE DEF q, r
  <2>1. M * q = 2 * (Q * q)
    BY <1>1
  <2> DEFINE p == Q * q
  <2>2. p \in Int /\ x = p + r /\ M * q = 2 * p
    BY <1>1, <2>1
  <2> HIDE DEF p, M
  <2> QED BY <1>1, <2>2
<1>4. (2 * x) % M = t
  <2> HIDE DEF M, t, q
  <2> QED BY <1>1, <1>2, <1>3, RemainderIs
<1>5. t \div 2 = r
  <2> HIDE DEF r
  <2> QED BY <1>1
<1> QED BY <1>4, <1>5

(* A decoder that sees the digits of a code reads it, but for the first    *)
(* bit of an unsigned long (RCSwitch.cpp:642-662).                         *)
LEMMA ReadsCode ==
    ASSUME NEW cc \in Nat, NEW d, NEW zero, NEW one, NEW c \in Nat,
           Shifted(c, cc \div 2) = 0,
           \A k \in 1..(cc \div 2) :
              IF Shifted(c, (cc \div 2) - k) % 2 = 1
              THEN IsPair(k, d, one) /\ ~IsPair(k, d, zero) ELSE IsPair(k, d, zero)
    PROVE  Decode(cc, d, zero, one) = c % (UlongMod \div 2)
<1> DEFINE n == cc \div 2
           S(k) == Shifted(c, n - k)
<1>1. n \in Nat
  OBVIOUS
<1>2. PICK v : DecodesBy(v, cc, d, zero, one)
  BY DecodeIs
<1>3. /\ v[0] = 0
      /\ \A k \in 1..n :
            v[k] = (2 * (v[k - 1] + (IF IsPair(k, d, zero) THEN 0 ELSE 1))) % UlongMod
      /\ Decode(cc, d, zero, one) =
            IF \A k \in 1..n : IsPair(k, d, zero) \/ IsPair(k, d, one)
            THEN v[n] \div 2 ELSE 0
  BY <1>2 DEF DecodesBy
<1>4. /\ S(0) = 0
      /\ \A k \in 1..n : IF S(k) % 2 = 1 THEN IsPair(k, d, one) /\ ~IsPair(k, d, zero)
                         ELSE IsPair(k, d, zero)
  <2>1. n - 0 = n
    BY <1>1
  <2> HIDE DEF n
  <2> QED BY <2>1 DEF n
<1> HIDE DEF n
<1>5. \A k \in 0..n : S(k) \in Nat
  <2>1. \A k \in 0..n : n - k \in Nat
    BY <1>1
  <2> QED BY <2>1, ShiftedStep
<1>6. \A k \in 0..(n - 1) : S(k) = S(k + 1) \div 2
  <2> SUFFICES ASSUME NEW k \in 0..(n - 1) PROVE S(k) = S(k + 1) \div 2
    OBVIOUS
  <2>1. n - (k + 1) \in Nat /\ (n - (k + 1)) + 1 = n - k
    BY <1>1
  <2>2. Shifted(c, (n - (k + 1)) + 1) = Shifted(c, n - (k + 1)) \div 2
    BY <2>1, ShiftedStep
  <2> QED BY <2>1, <2>2
<1> HIDE DEF S
<1>7. UlongMod \in Nat \ {0}
  BY WidthsAssumption
<1> DEFINE Right == {k \in 0..n : v[k] = (2 * S(k)) % UlongMod}
<1>8. 0 \in Right
  <2>1. (2 * 0) % UlongMod = 0
    BY <1>7
  <2> QED BY <1>1, <1>3, <1>4, <2>1
<1>9. ASSUME NEW k \in 0..(n - 1), k \in Right PROVE k + 1 \in Right
  <2>1. k \in 0..n /\ k + 1 \in 1..n /\ k + 1 \in 0..n /\ (k + 1) - 1 = k
    BY <1>1
  <2> DEFINE b == IF IsPair(k + 1, d, zero) THEN 0 ELSE 1
             x == 2 * S(k)
  <2>2. v[k + 1] = (2 * (v[k] + b)) % UlongMod
    BY <1>3, <2>1
  <2>3. b = S(k + 1) % 2 /\ b \in {0, 1}
    <3>1. S(k + 1) % 2 \in {0, 1}
      <4>1. S(k + 1) \in Nat
        BY <1>5, <2>1
      <4> QED BY <4>1
    <3>2. IF S(k + 1) % 2 = 1 THEN ~IsPair(k + 1, d, zero) ELSE IsPair(k + 1, d, zero)
      BY <1>4, <2>1
    <3> QED BY <3>1, <3>2
  <2>4. S(k) \in Nat /\ S(k + 1) \in Nat /\ S(k) = S(k + 1) \div 2
    BY <1>5, <1>6, <2>1
  <2> HIDE DEF b
  <2>5. S(k + 1) = x + b
    BY <2>3, <2>4
  <2>6. v[k] = x % UlongMod /\ x \in Nat
    BY <1>9, <2>4
  <2> HIDE DEF x
  <2>7. (2 * ((x % UlongMod) + b)) % UlongMod = (2 * (x + b)) % UlongMod
    BY <1>7, <2>3, <2>6, RemainderSkips
  <2>8. v[k + 1] = (2 * S(k + 1)) % UlongMod
    BY <2>2, <2>5, <2>6, <2>7
  <2> QED BY <2>1, <2>8
<1>10. v[n] = (2 * S(n)) % UlongMod
  <2>1. 0..n \subseteq Right
    <3> HIDE DEF Right
    <3> QED BY <1>1, <1>8, <1>9, SetInduction
  <2> QED BY <1>1, <2>1
<1>11. S(n) = c
  <2>1. n - n = 0
    BY <1>1
  <2> QED BY <2>1, ShiftedStep DEF S
<1>12. \A k \in 1..n : IsPair(k, d, zero) \/ IsPair(k, d, one)
  BY <1>4
<1>13. Decode(cc, d, zero, one) = ((2 * c) % UlongMod) \div 2
  BY <1>3, <1>10, <1>11, <1>12
<1> DEFINE Q == UlongMod \div 2
<1>14. Q \in Nat \ {0} /\ UlongMod = 2 * Q
  BY WidthsAssumption, UlongEven
<1> HIDE DEF Q
<1>15. ((2 * c) % (2 * Q)) \div 2 = c % Q
  BY <1>14, RemainderHalved
<1> QED BY <1>13, <1>14, <1>15 DEF Q

(* A width of so many microseconds, too long by so many per cent. *)
SeenAs(us, s) == us + (us * s) \div 100

(* The k-th width of a copy of a frame as it is seen. *)
SeenWidth(f, s, k) ==
    SeenAs(Copy(f)[k] * PulseLength[f.protocol], IF k % 2 = 1 THEN s ELSE -s)

LEMMA SeenBounds ==
    ASSUME NEW s \in -2..2
    PROVE  /\ SeenAs(350, s) \in 343..357 /\ SeenAs(1050, s) \in 1029..1071
           /\ SeenAs(10850, s) \in 10633..11067
           /\ SeenAs(650, s) \in 637..663 /\ SeenAs(1300, s) \in 1274..1326
           /\ SeenAs(6500, s) \in 6370..6630
           /\ SeenAs(400, s) \in 392..408 /\ SeenAs(1100, s) \in 1078..1122
           /\ SeenAs(900, s) \in 882..918 /\ SeenAs(600, s) \in 588..612
           /\ SeenAs(7100, s) \in 6958..7242 /\ SeenAs(100, s) \in 98..102
<1>1. s \in {-2, -1, 0, 1, 2}
  OBVIOUS
<1>2. CASE s = -2 BY <1>2 DEF SeenAs
<1>3. CASE s = -1 BY <1>3 DEF SeenAs
<1>4. CASE s = 0 BY <1>4 DEF SeenAs
<1>5. CASE s = 1 BY <1>5 DEF SeenAs
<1>6. CASE s = 2 BY <1>6 DEF SeenAs
<1> QED BY <1>1, <1>2, <1>3, <1>4, <1>5, <1>6

(* The pulses of a bit are two neighbours on the air, those of the sync    *)
(* come last.                                                              *)
LEMMA CopyIs ==
    ASSUME NEW f \in Frames
    PROVE  /\ \A k \in 1..f.bits :
                 LET w == IF Dec2bin(f.code, f.bits)[k] = 1
                          THEN Send1[f.protocol] ELSE Send0[f.protocol]
                 IN Copy(f)[2 * k - 1] = w[1] /\ Copy(f)[2 * k] = w[2]
           /\ Copy(f)[2 * f.bits + 1] = SendSync[f.protocol][1]
           /\ Copy(f)[2 * f.bits + 2] = SendSync[f.protocol][2]
<1>1. f.bits \in Nat /\ f.bits # 0
  BY CodesAssumption DEF Frames
<1> DEFINE n == f.bits
           bin == Dec2bin(f.code, f.bits)
           Pair(k) == IF bin[k] = 1 THEN Send1[f.protocol] ELSE Send0[f.protocol]
           Sync == SendSync[f.protocol]
           W(k) == IF k <= 2 * n THEN Pair((k + 1) \div 2)[2 - (k % 2)] ELSE Sync[2 - (k % 2)]
<1>2. Copy(f) = [k \in 1..(2 * n + 2) |-> W(k)]
  BY DEF Copy
<1>3. \A k \in Nat : /\ ((2 * k - 1) + 1) \div 2 = k /\ 2 - ((2 * k - 1) % 2) = 1
                     /\ (2 * k + 1) \div 2 = k /\ 2 - ((2 * k) % 2) = 2
  OBVIOUS
<1>4. ASSUME NEW k \in 1..n
      PROVE  Copy(f)[2 * k - 1] = Pair(k)[1] /\ Copy(f)[2 * k] = Pair(k)[2]
  <2>1. /\ k \in Nat /\ 2 * k - 1 \in 1..(2 * n + 2) /\ 2 * k \in 1..(2 * n + 2)
        /\ 2 * k - 1 <= 2 * n /\ 2 * k <= 2 * n
    BY <1>1
  <2>2. W(2 * k - 1) = Pair(k)[1]
    <3>1. ((2 * k - 1) + 1) \div 2 = k /\ 2 - ((2 * k - 1) % 2) = 1
      BY <1>3, <2>1
    <3> HIDE DEF Pair
    <3>2. W(2 * k - 1) = Pair(((2 * k - 1) + 1) \div 2)[2 - ((2 * k - 1) % 2)]
      BY <2>1
    <3> QED BY <3>1, <3>2
  <2>3. W(2 * k) = Pair(k)[2]
    <3>1. (2 * k + 1) \div 2 = k /\ 2 - ((2 * k) % 2) = 2
      BY <1>3, <2>1
    <3> HIDE DEF Pair
    <3>2. W(2 * k) = Pair((2 * k + 1) \div 2)[2 - ((2 * k) % 2)]
      BY <2>1
    <3> QED BY <3>1, <3>2
  <2> HIDE DEF W, Pair
  <2> QED BY <1>2, <2>1, <2>2, <2>3
<1>5. Copy(f)[2 * n + 1] = Sync[1] /\ Copy(f)[2 * n + 2] = Sync[2]
  <2>1. /\ 2 * n + 1 \in 1..(2 * n + 2) /\ 2 * n + 2 \in 1..(2 * n + 2)
        /\ ~(2 * n + 1 <= 2 * n) /\ ~(2 * n + 2 <= 2 * n)
        /\ 2 - ((2 * n + 1) % 2) = 1 /\ 2 - ((2 * n + 2) % 2) = 2
    BY <1>1
  <2>2. W(2 * n + 1) = Sync[1] /\ W(2 * n + 2) = Sync[2]
    <3> HIDE DEF Pair, Sync
    <3> QED BY <2>1
  <2> HIDE DEF W, Sync, Pair
  <2> QED BY <1>2, <2>1, <2>2
<1> QED BY <1>4, <1>5

(* delay and its tolerance, without the divisions. *)
LEMMA DelayIs ==
    ASSUME NEW y \in Nat, NEW m \in {10, 31, 71}
    PROVE  LET d == y \div m
               t == (d * 60) \div 100
           IN /\ d \in Nat /\ m * d <= y /\ y < m * d + m
              /\ t \in Nat /\ 5 * t <= 3 * d /\ 3 * d < 5 * t + 5
<1>1. y \div m \in Nat /\ m * (y \div m) <= y /\ y < m * (y \div m) + m
  <2>1. CASE m = 10 BY <2>1
  <2>2. CASE m = 31 BY <2>2
  <2>3. CASE m = 71 BY <2>3
  <2> QED BY <2>1, <2>2, <2>3
<1>2. \A d \in Nat : /\ (d * 60) \div 100 \in Nat /\ 5 * ((d * 60) \div 100) <= 3 * d
                     /\ 3 * d < 5 * ((d * 60) \div 100) + 5
  OBVIOUS
<1> QED BY <1>1, <1>2

(* What a decoder asks of a pair of widths. *)
LEMMA PairAsks ==
    ASSUME NEW k, NEW a, NEW b, NEW d
    PROVE  IsPair(k, d, <<a, b>>) <=>
               LET t == (d * 60) \div 100
               IN /\ Timing(2 * k - 1) > d * a - t /\ Timing(2 * k - 1) < d * a + t
                  /\ Timing(2 * k) > d * b - t /\ Timing(2 * k) < d * b + t
BY DEF IsPair, Near

(* Protocol 1: its decoder tells its pairs, the others see no one in them. *)
LEMMA PairsTold1 ==
    ASSUME NEW k, Timing(0) \in 10633..11067
    PROVE  /\ /\ Timing(2 * k - 1) \in 343..357 /\ Timing(2 * k) \in 1029..1071
              => /\ IsPair(k, Timing(0) \div 31, <<1, 3>>) /\ ~IsPair(k, Timing(0) \div 31, <<3, 1>>)
                 /\ ~IsPair(k, Timing(0) \div 10, <<2, 1>>)
                 /\ ~IsPair(k, Timing(0) \div 71, <<9, 6>>)
           /\ /\ Timing(2 * k - 1) \in 1029..1071 /\ Timing(2 * k) \in 343..357
              => /\ IsPair(k, Timing(0) \div 31, <<3, 1>>) /\ ~IsPair(k, Timing(0) \div 31, <<1, 3>>)
                 /\ ~IsPair(k, Timing(0) \div 10, <<2, 1>>)
                 /\ ~IsPair(k, Timing(0) \div 71, <<9, 6>>)
<1> DEFINE y == Timing(0)
           h == Timing(2 * k - 1)
           l == Timing(2 * k)
           t(d) == (d * 60) \div 100
           Asks(d, a, b) == h > d * a - t(d) /\ h < d * a + t(d) /\ l > d * b - t(d) /\ l < d * b + t(d)
<1>1. \A d, a, b : IsPair(k, d, <<a, b>>) <=> Asks(d, a, b)
  BY PairAsks
<1>2. \A m \in {10, 31, 71} : /\ y \div m \in Nat /\ m * (y \div m) <= y /\ y < m * (y \div m) + m
                               /\ t(y \div m) \in Nat /\ 5 * t(y \div m) <= 3 * (y \div m)
                               /\ 3 * (y \div m) < 5 * t(y \div m) + 5
  <2>1. y \in Nat
    OBVIOUS
  <2> HIDE DEF y
  <2> QED BY <2>1, DelayIs
<1>3. y \div 31 \in Nat /\ 31 * (y \div 31) <= y /\ y < 31 * (y \div 31) + 31
      /\ t(y \div 31) \in Nat /\ 5 * t(y \div 31) <= 3 * (y \div 31)
      /\ 3 * (y \div 31) < 5 * t(y \div 31) + 5
  <2> HIDE DEF y, t
  <2> QED BY <1>2
<1>4. y \div 10 \in Nat /\ 10 * (y \div 10) <= y /\ y < 10 * (y \div 10) + 10
      /\ t(y \div 10) \in Nat /\ 5 * t(y \div 10) <= 3 * (y \div 10)
      /\ 3 * (y \div 10) < 5 * t(y \div 10) + 5
  <2> HIDE DEF y, t
  <2> QED BY <1>2
<1>5. y \div 71 \in Nat /\ 71 * (y \div 71) <= y /\ y < 71 * (y \div 71) + 71
      /\ t(y \div 71) \in Nat /\ 5 * t(y \div 71) <= 3 * (y \div 71)
      /\ 3 * (y \div 71) < 5 * t(y \div 71) + 5
  <2> HIDE DEF y, t
  <2> QED BY <1>2
<1> DEFINE d1 == y \div 31
           d2 == y \div 10
           d3 == y \div 71
           t1 == t(d1)
           t2 == t(d2)
           t3 == t(d3)
<1>6. ASSUME h \in 343..357, l \in 1029..1071
      PROVE  /\ Asks(d1, 1, 3)
             /\ ~Asks(d1, 3, 1)
             /\ ~Asks(d2, 2, 1)
             /\ ~Asks(d3, 9, 6)
  <2>1. y \in 10633..11067 /\ t1 = t(d1) /\ t2 = t(d2) /\ t3 = t(d3)
    OBVIOUS
  <2> HIDE DEF y, h, l, d1, d2, d3, t, t1, t2, t3
  <2>2. h > d1 * 1 - t1 /\ h < d1 * 1 + t1 /\ l > d1 * 3 - t1 /\ l < d1 * 3 + t1
    BY <1>3, <1>4, <1>5, <1>6, <2>1 DEF d1, d2, d3, t1, t2, t3
  <2>3. ~(h > d1 * 3 - t1 /\ h < d1 * 3 + t1 /\ l > d1 * 1 - t1 /\ l < d1 * 1 + t1)
    BY <1>3, <1>4, <1>5, <1>6, <2>1 DEF d1, d2, d3, t1, t2, t3
  <2>4. ~(h > d2 * 2 - t2 /\ h < d2 * 2 + t2 /\ l > d2 * 1 - t2 /\ l < d2 * 1 + t2)
    BY <1>3, <1>4, <1>5, <1>6, <2>1 DEF d1, d2, d3, t1, t2, t3
  <2>5. ~(h > d3 * 9 - t3 /\ h < d3 * 9 + t3 /\ l > d3 * 6 - t3 /\ l < d3 * 6 + t3)
    BY <1>3, <1>4, <1>5, <1>6, <2>1 DEF d1, d2, d3, t1, t2, t3
  <2> QED BY <2>1, <2>2, <2>3, <2>4, <2>5
<1>7. ASSUME h \in 1029..1071, l \in 343..357
      PROVE  /\ Asks(d1, 3, 1)
             /\ ~Asks(d1, 1, 3)
             /\ ~Asks(d2, 2, 1)
             /\ ~Asks(d3, 9, 6)
  <2>1. y \in 10633..11067 /\ t1 = t(d1) /\ t2 = t(d2) /\ t3 = t(d3)
    OBVIOUS
  <2> HIDE DEF y, h, l, d1, d2, d3, t, t1, t2, t3
  <2>2. h > d1 * 3 - t1 /\ h < d1 * 3 + t1 /\ l > d1 * 1 - t1 /\ l < d1 * 1 + t1
    BY <1>3, <1>4, <1>5, <1>7, <2>1 DEF d1, d2, d3, t1, t2, t3
  <2>3. ~(h > d1 * 1 - t1 /\ h < d1 * 1 + t1 /\ l > d1 * 3 - t1 /\ l < d1 * 3 + t1)
    BY <1>3, <1>4, <1>5, <1>7, <2>1 DEF d1, d2, d3, t1, t2, t3
  <2>4. ~(h > d2 * 2 - t2 /\ h < d2 * 2 + t2 /\ l > d2 * 1 - t2 /\ l < d2 * 1 + t2)
    BY <1>3, <1>4, <1>5, <1>7, <2>1 DEF d1, d2, d3, t1, t2, t3
  <2>5. ~(h > d3 * 9 - t3 /\ h < d3 * 9 + t3 /\ l > d3 * 6 - t3 /\ l < d3 * 6 + t3)
    BY <1>3, <1>4, <1>5, <1>7, <2>1 DEF d1, d2, d3, t1, t2, t3
  <2> QED BY <2>1, <2>2, <2>3, <2>4, <2>5
<1> HIDE DEF Asks
<1> QED BY <1>1, <1>6, <1>7

(* Protocol 2: its decoder tells its pairs, the others see no one in them. *)
LEMMA PairsTold2 ==
    ASSUME NEW k, Timing(0) \in 6370..6630
    PROVE  /\ /\ Timing(2 * k - 1) \in 637..663 /\ Timing(2 * k) \in 1274..1326
              => /\ IsPair(k, Timing(0) \div 10, <<1, 2>>) /\ ~IsPair(k, Timing(0) \div 10, <<2, 1>>)
                 /\ ~IsPair(k, Timing(0) \div 31, <<3, 1>>)
                 /\ ~IsPair(k, Timing(0) \div 71, <<9, 6>>)
           /\ /\ Timing(2 * k - 1) \in 1274..1326 /\ Timing(2 * k) \in 637..663
              => /\ IsPair(k, Timing(0) \div 10, <<2, 1>>) /\ ~IsPair(k, Timing(0) \div 10, <<1, 2>>)
                 /\ ~IsPair(k, Timing(0) \div 31, <<3, 1>>)
                 /\ ~IsPair(k, Timing(0) \div 71, <<9, 6>>)
<1> DEFINE y == Timing(0)
           h == Timing(2 * k - 1)
           l == Timing(2 * k)
           t(d) == (d * 60) \div 100
           Asks(d, a, b) == h > d * a - t(d) /\ h < d * a + t(d) /\ l > d * b - t(d) /\ l < d * b + t(d)
<1>1. \A d, a, b : IsPair(k, d, <<a, b>>) <=> Asks(d, a, b)
  BY PairAsks
<1>2. \A m \in {10, 31, 71} : /\ y \div m \in Nat /\ m * (y \div m) <= y /\ y < m * (y \div m) + m
                               /\ t(y \div m) \in Nat /\ 5 * t(y \div m) <= 3 * (y \div m)
                               /\ 3 * (y \div m) < 5 * t(y \div m) + 5
  <2>1. y \in Nat
    OBVIOUS
  <2> HIDE DEF y
  <2> QED BY <2>1, DelayIs
<1>3. y \div 31 \in Nat /\ 31 * (y \div 31) <= y /\ y < 31 * (y \div 31) + 31
      /\ t(y \div 31) \in Nat /\ 5 * t(y \div 31) <= 3 * (y \div 31)
      /\ 3 * (y \div 31) < 5 * t(y \div 31) + 5
  <2> HIDE DEF y, t
  <2> QED BY <1>2
<1>4. y \div 10 \in Nat /\ 10 * (y \div 10) <= y /\ y < 10 * (y \div 10) + 10
      /\ t(y \div 10) \in Nat /\ 5 * t(y \div 10) <= 3 * (y \div 10)
      /\ 3 * (y \div 10) < 5 * t(y \div 10) + 5
  <2> HIDE DEF y, t
  <2> QED BY <1>2
<1>5. y \div 71 \in Nat /\ 71 * (y \div 71) <= y /\ y < 71 * (y \div 71) + 71
      /\ t(y \div 71) \in Nat /\ 5 * t(y \div 71) <= 3 * (y \div 71)
      /\ 3 * (y \div 71) < 5 * t(y \div 71) + 5
  <2> HIDE DEF y, t
  <2> QED BY <1>2
<1> DEFINE d1 == y \div 31
           d2 == y \div 10
           d3 == y \div 71
           t1 == t(d1)
           t2 == t(d2)
           t3 == t(d3)
<1>6. ASSUME h \in 637..663, l \in 1274..1326
      PROVE  /\ Asks(d2, 1, 2)
             /\ ~Asks(d2, 2, 1)
             /\ ~Asks(d1, 3, 1)
             /\ ~Asks(d3, 9, 6)
  <2>1. y \in 6370..6630 /\ t1 = t(d1) /\ t2 = t(d2) /\ t3 = t(d3)
    OBVIOUS
  <2> HIDE DEF y, h, l, d1, d2, d3, t, t1, t2, t3
  <2>2. h > d2 * 1 - t2 /\ h < d2 * 1 + t2 /\ l > d2 * 2 - t2 /\ l < d2 * 2 + t2
    BY <1>3, <1>4, <1>5, <1>6, <2>1 DEF d1, d2, d3, t1, t2, t3
  <2>3. ~(h > d2 * 2 - t2 /\ h < d2 * 2 + t2 /\ l > d2 * 1 - t2 /\ l < d2 * 1 + t2)
    BY <1>3, <1>4, <1>5, <1>6, <2>1 DEF d1, d2, d3, t1, t2, t3
  <2>4. ~(h > d1 * 3 - t1 /\ h < d1 * 3 + t1 /\ l > d1 * 1 - t1 /\ l < d1 * 1 + t1)
    BY <1>3, <1>4, <1>5, <1>6, <2>1 DEF d1, d2, d3, t1, t2, t3
  <2>5. ~(h > d3 * 9 - t3 /\ h < d3 * 9 + t3 /\ l > d3 * 6 - t3 /\ l < d3 * 6 + t3)
    BY <1>3, <1>4, <1>5, <1>6, <2>1 DEF d1, d2, d3, t1, t2, t3
  <2> QED BY <2>1, <2>2, <2>3, <2>4, <2>5
<1>7. ASSUME h \in 1274..1326, l \in 637..663
      PROVE  /\ Asks(d2, 2, 1)
             /\ ~Asks(d2, 1, 2)
             /\ ~Asks(d1, 3, 1)
             /\ ~Asks(d3, 9, 6)
  <2>1. y \in 6370..6630 /\ t1 = t(d1) /\ t2 = t(d2) /\ t3 = t(d3)
    OBVIOUS
  <2> HIDE DEF y, h, l, d1, d2, d3, t, t1, t2, t3
  <2>2. h > d2 * 2 - t2 /\ h < d2 * 2 + t2 /\ l > d2 * 1 - t2 /\ l < d2 * 1 + t2
    BY <1>3, <1>4, <1>5, <1>7, <2>1 DEF d1, d2, d3, t1, t2, t3
  <2>3. ~(h > d2 * 1 - t2 /\ h < d2 * 1 + t2 /\ l > d2 * 2 - t2 /\ l < d2 * 2 + t2)
    BY <1>3, <1>4, <1>5, <1>7, <2>1 DEF d1, d2, d3, t1, t2, t3
  <2>4. ~(h > d1 * 3 - t1 /\ h < d1 * 3 + t1 /\ l > d1 * 1 - t1 /\ l < d1 * 1 + t1)
    BY <1>3, <1>4, <1>5, <1>7, <2>1 DEF d1, d2, d3, t1, t2, t3
  <2>5. ~(h > d3 * 9 - t3 /\ h < d3 * 9 + t3 /\ l > d3 * 6 - t3 /\ l < d3 * 6 + t3)
    BY <1>3, <1>4, <1>5, <1>7, <2>1 DEF d1, d2, d3, t1, t2, t3
  <2> QED BY <2>1, <2>2, <2>3, <2>4, <2>5
<1> HIDE DEF Asks
<1> QED BY <1>1, <1>6, <1>7

(* Protocol 3: its decoder tells its pairs, the others see no one in them. *)
LEMMA PairsTold3 ==
    ASSUME NEW k, Timing(0) \in 6958..7242
    PROVE  /\ /\ Timing(2 * k - 1) \in 392..408 /\ Timing(2 * k) \in 1078..1122
              => /\ IsPair(k, Timing(0) \div 71, <<4, 11>>) /\ ~IsPair(k, Timing(0) \div 71, <<9, 6>>)
                 /\ ~IsPair(k, Timing(0) \div 31, <<3, 1>>)
                 /\ ~IsPair(k, Timing(0) \div 10, <<2, 1>>)
           /\ /\ Timing(2 * k - 1) \in 882..918 /\ Timing(2 * k) \in 588..612
              => /\ IsPair(k, Timing(0) \div 71, <<9, 6>>) /\ ~IsPair(k, Timing(0) \div 71, <<4, 11>>)
                 /\ ~IsPair(k, Timing(0) \div 31, <<3, 1>>)
                 /\ ~IsPair(k, Timing(0) \div 10, <<2, 1>>)
<1> DEFINE y == Timing(0)
           h == Timing(2 * k - 1)
           l == Timing(2 * k)
           t(d) == (d * 60) \div 100
           Asks(d, a, b) == h > d * a - t(d) /\ h < d * a + t(d) /\ l > d * b - t(d) /\ l < d * b + t(d)
<1>1. \A d, a, b : IsPair(k, d, <<a, b>>) <=> Asks(d, a, b)
  BY PairAsks
<1>2. \A m \in {10, 31, 71} : /\ y \div m \in Nat /\ m * (y \div m) <= y /\ y < m * (y \div m) + m
                               /\ t(y \div m) \in Nat /\ 5 * t(y \div m) <= 3 * (y \div m)
                               /\ 3 * (y \div m) < 5 * t(y \div m) + 5
  <2>1. y \in Nat
    OBVIOUS
  <2> HIDE DEF y
  <2> QED BY <2>1, DelayIs
<1>3. y \div 31 \in Nat /\ 31 * (y \div 31) <= y /\ y < 31 * (y \div 31) + 31
      /\ t(y \div 31) \in Nat /\ 5 * t(y \div 31) <= 3 * (y \div 31)
      /\ 3 * (y \div 31) < 5 * t(y \div 31) + 5
  <2> HIDE DEF y, t
  <2> QED BY <1>2
<1>4. y \div 10 \in Nat /\ 10 * (y \div 10) <= y /\ y < 10 * (y \div 10) + 10
      /\ t(y \div 10) \in Nat /\ 5 * t(y \div 10) <= 3 * (y \div 10)
      /\ 3 * (y \div 10) < 5 * t(y \div 10) + 5
  <2> HIDE DEF y, t
  <2> QED BY <1>2
<1>5. y \div 71 \in Nat /\ 71 * (y \div 71) <= y /\ y < 71 * (y \div 71) + 71
      /\ t(y \div 71) \in Nat /\ 5 * t(y \div 71) <= 3 * (y \div 71)
      /\ 3 * (y \div 71) < 5 * t(y \div 71) + 5
  <2> HIDE DEF y, t
  <2> QED BY <1>2
<1> DEFINE d1 == y \div 31
           d2 == y \div 10
           d3 == y \div 71
           t1 == t(d1)
           t2 == t(d2)
           t3 == t(d3)
<1>6. ASSUME h \in 392..408, l \in 1078..1122
      PROVE  /\ Asks(d3, 4, 11)
             /\ ~Asks(d3, 9, 6)
             /\ ~Asks(d1, 3, 1)
             /\ ~Asks(d2, 2, 1)
  <2>1. y \in 6958..7242 /\ t1 = t(d1) /\ t2 = t(d2) /\ t3 = t(d3)
    OBVIOUS
  <2> HIDE DEF y, h, l, d1, d2, d3, t, t1, t2, t3
  <2>2. h > d3 * 4 - t3 /\ h < d3 * 4 + t3 /\ l > d3 * 11 - t3 /\ l < d3 * 11 + t3
    BY <1>3, <1>4, <1>5, <1>6, <2>1 DEF d1, d2, d3, t1, t2, t3
  <2>3. ~(h > d3 * 9 - t3 /\ h < d3 * 9 + t3 /\ l > d3 * 6 - t3 /\ l < d3 * 6 + t3)
    BY <1>3, <1>4, <1>5, <1>6, <2>1 DEF d1, d2, d3, t1, t2, t3
  <2>4. ~(h > d1 * 3 - t1 /\ h < d1 * 3 + t1 /\ l > d1 * 1 - t1 /\ l < d1 * 1 + t1)
    BY <1>3, <1>4, <1>5, <1>6, <2>1 DEF d1, d2, d3, t1, t2, t3
  <2>5. ~(h > d2 * 2 - t2 /\ h < d2 * 2 + t2 /\ l > d2 * 1 - t2 /\ l < d2 * 1 + t2)
    BY <1>3, <1>4, <1>5, <1>6, <2>1 DEF d1, d2, d3, t1, t2, t3
  <2> QED BY <2>1, <2>2, <2>3, <2>4, <2>5
<1>7. ASSUME h \in 882..918, l \in 588..612
      PROVE  /\ Asks(d3, 9, 6)
             /\ ~Asks(d3, 4, 11)
             /\ ~Asks(d1, 3, 1)
             /\ ~Asks(d2, 2, 1)
  <2>1. y \in 6958..7242 /\ t1 = t(d1) /\ t2 = t(d2) /\ t3 = t(d3)
    OBVIOUS
  <2> HIDE DEF y, h, l, d1, d2, d3, t, t1, t2, t3
  <2>2. h > d3 * 9 - t3 /\ h < d3 * 9 + t3 /\ l > d3 * 6 - t3 /\ l < d3 * 6 + t3
    BY <1>3, <1>4, <1>5, <1>7, <2>1 DEF d1, d2, d3, t1, t2, t3
  <2>3. ~(h > d3 * 4 - t3 /\ h < d3 * 4 + t3 /\ l > d3 * 11 - t3 /\ l < d3 * 11 + t3)
    BY <1>3, <1>4, <1>5, <1>7, <2>1 DEF d1, d2, d3, t1, t2, t3
  <2>4. ~(h > d1 * 3 - t1 /\ h < d1 * 3 + t1 /\ l > d1 * 1 - t1 /\ l < d1 * 1 + t1)
    BY <1>3, <1>4, <1>5, <1>7, <2>1 DEF d1, d2, d3, t1, t2, t3
  <2>5. ~(h > d2 * 2 - t2 /\ h < d2 * 2 + t2 /\ l > d2 * 1 - t2 /\ l < d2 * 1 + t2)
    BY <1>3, <1>4, <1>5, <1>7, <2>1 DEF d1, d2, d3, t1, t2, t3
  <2> QED BY <2>1, <2>2, <2>3, <2>4, <2>5
<1> HIDE DEF Asks
<1> QED BY <1>1, <1>6, <1>7

(* The buffer after m - 1 widths of a frame that follows the sync of        *)
(* another copy, and after all of them but its own sync.                   *)
Held(f, s0, s, m) ==
    [i \in 1..m |-> IF i = 1 THEN SeenWidth(f, s0, 2 * f.bits + 2) ELSE SeenWidth(f, s, i - 1)]

HoldsFrame(f, s0, s) == timings = Held(f, s0, s, 2 * f.bits + 2)

(* What the decoders find there. *)
LEMMA HeldWidths ==
    ASSUME NEW f \in Frames, NEW s0, NEW s, HoldsFrame(f, s0, s)
    PROVE  /\ Len(timings) = 2 * f.bits + 2
           /\ Timing(0) = SeenAs(SendSync[f.protocol][2] * PulseLength[f.protocol], -s0)
           /\ \A k \in 1..f.bits :
                 LET w == IF Dec2bin(f.code, f.bits)[k] = 1
                          THEN Send1[f.protocol] ELSE Send0[f.protocol]
                 IN /\ Timing(2 * k - 1) = SeenAs(w[1] * PulseLength[f.protocol], s)
                    /\ Timing(2 * k) = SeenAs(w[2] * PulseLength[f.protocol], -s)
<1> DEFINE n == f.bits
           L == 2 * n + 2
           PL == PulseLength[f.protocol]
           w(k) == IF Dec2bin(f.code, f.bits)[k] = 1
                   THEN Send1[f.protocol] ELSE Send0[f.protocol]
           Entry(i) == IF i = 1 THEN SeenWidth(f, s0, L) ELSE SeenWidth(f, s, i - 1)
<1>1. n \in Nat /\ n # 0
  BY CodesAssumption DEF Frames
<1>2. timings = [i \in 1..L |-> Entry(i)]
  BY DEF HoldsFrame, Held
<1>3. L \in Nat /\ Len(timings) = L
  <2>1. L \in Nat
    BY <1>1
  <2> HIDE DEF L, Entry
  <2> QED BY <1>2, <2>1
<1>4. ASSUME NEW i \in 0..(L - 1) PROVE Timing(i) = Entry(i + 1)
  <2>1. i < L /\ i + 1 \in 1..L
    BY <1>3
  <2> HIDE DEF L, Entry
  <2> QED BY <1>2, <1>3, <2>1 DEF Timing
<1>5. /\ Copy(f)[L] = SendSync[f.protocol][2]
      /\ \A k \in 1..n : Copy(f)[2 * k - 1] = w(k)[1] /\ Copy(f)[2 * k] = w(k)[2]
  BY CopyIs
<1>6. Timing(0) = SeenAs(SendSync[f.protocol][2] * PL, -s0)
  <2>1. 0 \in 0..(L - 1) /\ 0 + 1 = 1 /\ L % 2 # 1
    BY <1>1
  <2>2. Timing(0) = SeenWidth(f, s0, L)
    <3>1. Timing(0) = Entry(1)
      <4> HIDE DEF L, Entry
      <4> QED BY <1>4, <2>1
    <3> QED BY <3>1
  <2> HIDE DEF L
  <2> QED BY <1>5, <2>1, <2>2 DEF SeenWidth
<1>7. ASSUME NEW k \in 1..n
      PROVE  /\ Timing(2 * k - 1) = SeenAs(w(k)[1] * PL, s)
             /\ Timing(2 * k) = SeenAs(w(k)[2] * PL, -s)
  <2>1. /\ 2 * k - 1 \in 0..(L - 1) /\ 2 * k \in 0..(L - 1)
        /\ (2 * k - 1) + 1 = 2 * k /\ 2 * k # 1 /\ 2 * k + 1 # 1 /\ (2 * k + 1) - 1 = 2 * k
        /\ (2 * k - 1) % 2 = 1 /\ (2 * k) % 2 # 1
    BY <1>1
  <2>2. Timing(2 * k - 1) = Entry(2 * k) /\ Timing(2 * k) = Entry(2 * k + 1)
    <3> HIDE DEF L, Entry
    <3> QED BY <1>4, <2>1
  <2>3. Timing(2 * k - 1) = SeenWidth(f, s, 2 * k - 1) /\ Timing(2 * k) = SeenWidth(f, s, 2 * k)
    <3> HIDE DEF L
    <3> QED BY <2>1, <2>2
  <2> HIDE DEF w
  <2> QED BY <1>5, <2>1, <2>3 DEF SeenWidth
<1> HIDE DEF w
<1> QED BY <1>3, <1>6, <1>7 DEF w

(* Each pair of widths of the frame is told by the decoder of its protocol *)
(* and is no one for the others.                                           *)
LEMMA HeldPairs ==
    ASSUME NEW f \in Frames, NEW s0 \in Skews, NEW s \in Skews, HoldsFrame(f, s0, s),
           NEW k \in 1..f.bits, NEW q \in Protocols
    PROVE  LET p == f.protocol
               one == Dec2bin(f.code, f.bits)[k] = 1
               d == Timing(0) \div SendSync[q][2]
           IN /\ (q # p \/ ~one) => ~IsPair(k, d, Send1[q])
              /\ (q = p /\ one) => IsPair(k, d, Send1[q]) /\ ~IsPair(k, d, Send0[q])
              /\ (q = p /\ ~one) => IsPair(k, d, Send0[q])
<1> DEFINE p == f.protocol
           one == Dec2bin(f.code, f.bits)[k] = 1
           w == IF one THEN Send1[p] ELSE Send0[p]
           a == w[1] * PulseLength[p]
           b == w[2] * PulseLength[p]
           y == SendSync[p][2] * PulseLength[p]
<1>1. p \in {1, 2, 3} /\ q \in {1, 2, 3}
  BY DEF Frames, Protocols
<1>2. s \in -2..2 /\ -s \in -2..2 /\ -s0 \in -2..2
  <2>1. s \in -2..2 /\ s0 \in -2..2
    BY SkewsAssumption
  <2> QED BY <2>1
<1>3. Timing(0) = SeenAs(y, -s0) /\ Timing(2 * k - 1) = SeenAs(a, s) /\ Timing(2 * k) = SeenAs(b, -s)
  BY HeldWidths
<1>4. /\ SendSync[1][2] = 31 /\ SendSync[2][2] = 10 /\ SendSync[3][2] = 71
      /\ Send0[1] = <<1, 3>> /\ Send0[2] = <<1, 2>> /\ Send0[3] = <<4, 11>>
      /\ Send1[1] = <<3, 1>> /\ Send1[2] = <<2, 1>> /\ Send1[3] = <<9, 6>>
  BY DEF SendSync, Send0, Send1
<1>5. PulseLength[1] = 350 /\ PulseLength[2] = 650 /\ PulseLength[3] = 100
  BY DEF PulseLength, Protocols
<1>6. CASE p = 1
  <2>1. y = 10850 /\ (one => a = 1050 /\ b = 350) /\ (~one => a = 350 /\ b = 1050)
    BY <1>4, <1>5, <1>6
  <2> HIDE DEF y, a, b
  <2>2. Timing(0) \in 10633..11067
    BY <1>2, <1>3, <2>1, SeenBounds
  <2>3. CASE one
    <3>1. Timing(2 * k - 1) \in 1029..1071 /\ Timing(2 * k) \in 343..357
      BY <1>2, <1>3, <2>1, <2>3, SeenBounds
    <3> QED BY <1>1, <1>4, <1>6, <2>2, <2>3, <3>1, PairsTold1
  <2>4. CASE ~one
    <3>1. Timing(2 * k - 1) \in 343..357 /\ Timing(2 * k) \in 1029..1071
      BY <1>2, <1>3, <2>1, <2>4, SeenBounds
    <3> QED BY <1>1, <1>4, <1>6, <2>2, <2>4, <3>1, PairsTold1
  <2> QED BY <2>3, <2>4
<1>7. CASE p = 2
  <2>1. y = 6500 /\ (one => a = 1300 /\ b = 650) /\ (~one => a = 650 /\ b = 1300)
    BY <1>4, <1>5, <1>7
  <2> HIDE DEF y, a, b
  <2>2. Timing(0) \in 6370..6630
    BY <1>2, <1>3, <2>1, SeenBounds
  <2>3. CASE one
    <3>1. Timing(2 * k - 1) \in 1274..1326 /\ Timing(2 * k) \in 637..663
      BY <1>2, <1>3, <2>1, <2>3, SeenBounds
    <3> QED BY <1>1, <1>4, <1>7, <2>2, <2>3, <3>1, PairsTold2
  <2>4. CASE ~one
    <3>1. Timing(2 * k - 1) \in 637..663 /\ Timing(2 * k) \in 1274..1326
      BY <1>2, <1>3, <2>1, <2>4, SeenBounds
    <3> QED BY <1>1, <1>4, <1>7, <2>2, <2>4, <3>1, PairsTold2
  <2> QED BY <2>3, <2>4
<1>8. CASE p = 3
  <2>1. y = 7100 /\ (one => a = 900 /\ b = 600) /\ (~one => a = 400 /\ b = 1100)
    BY <1>4, <1>5, <1>8
  <2> HIDE DEF y, a, b
  <2>2. Timing(0) \in 6958..7242
    BY <1>2, <1>3, <2>1, SeenBounds
  <2>3. CASE one
    <3>1. Timing(2 * k - 1) \in 882..918 /\ Timing(2 * k) \in 588..612
      BY <1>2, <1>3, <2>1, <2>3, SeenBounds
    <3> QED BY <1>1, <1>4, <1>8, <2>2, <2>3, <3>1, PairsTold3
  <2>4. CASE ~one
    <3>1. Timing(2 * k - 1) \in 392..408 /\ Timing(2 * k) \in 1078..1122
      BY <1>2, <1>3, <2>1, <2>4, SeenBounds
    <3> QED BY <1>1, <1>4, <1>8, <2>2, <2>4, <3>1, PairsTold3
  <2> QED BY <2>3, <2>4
<1> QED BY <1>1, <1>6, <1>7, <1>8

(* So each decoder is called with the pairs it was made for, and finds the *)
(* code or nothing.                                                        *)
LEMMA HeldIsRead ==
    ASSUME NEW f \in Frames, NEW s0 \in Skews, NEW s \in Skews, HoldsFrame(f, s0, s),
           NEW q \in Protocols
    PROVE  CodeOf(q, Len(timings) - 1) = IF q = f.protocol THEN Wanted(f) ELSE 0
<1> DEFINE n == f.bits
           c == f.code
           cc == Len(timings) - 1
           d == Timing(0) \div SendSync[q][2]
           bin(k) == Dec2bin(c, n)[k]
<1>1. n \in Nat /\ n # 0 /\ c \in Nat
  BY CodesAssumption DEF Frames
<1>2. cc \in Nat /\ cc \div 2 = n
  <2>1. Len(timings) = 2 * n + 2
    BY HeldWidths
  <2>2. cc = 2 * n + 1
    BY <1>1, <2>1
  <2> HIDE DEF cc
  <2> QED BY <1>1, <2>2
<1>3. CodeOf(q, cc) = Decode(cc, d, Send0[q], Send1[q])
  <2>1. q \in {1, 2, 3}
    BY DEF Protocols
  <2>2. /\ SendSync[1][2] = 31 /\ SendSync[2][2] = 10 /\ SendSync[3][2] = 71
        /\ Send0[1] = <<1, 3>> /\ Send0[2] = <<1, 2>> /\ Send0[3] = <<4, 11>>
        /\ Send1[1] = <<3, 1>> /\ Send1[2] = <<2, 1>> /\ Send1[3] = <<9, 6>>
    BY DEF SendSync, Send0, Send1
  <2> HIDE DEF cc
  <2>3. CASE q = 1 BY <2>2, <2>3 DEF CodeOf, Protocol1
  <2>4. CASE q = 2 BY <2>2, <2>4 DEF CodeOf, Protocol2
  <2>5. CASE q = 3 BY <2>2, <2>5 DEF CodeOf, Protocol3
  <2> QED BY <2>1, <2>3, <2>4, <2>5
<1>4. ASSUME NEW k \in 1..n
      PROVE  /\ (q # f.protocol \/ bin(k) # 1) => ~IsPair(k, d, Send1[q])
             /\ (q = f.protocol /\ bin(k) = 1) => IsPair(k, d, Send1[q]) /\ ~IsPair(k, d, Send0[q])
             /\ (q = f.protocol /\ bin(k) # 1) => IsPair(k, d, Send0[q])
  BY <1>4, HeldPairs
<1>5. ASSUME NEW k \in 1..n
      PROVE  bin(k) = IF Shifted(c, n) = 0 THEN Shifted(c, n - k) % 2 ELSE 0
  BY <1>5, DigitsAre
<1> HIDE DEF cc, d, n, c, bin
<1>6. CASE q # f.protocol
  <2>1. \A k \in 1..(cc \div 2) : ~IsPair(k, d, Send1[q])
    BY <1>2, <1>4, <1>6
  <2>2. Decode(cc, d, Send0[q], Send1[q]) = 0
    BY <1>2, <2>1, NoOneNothing
  <2> QED BY <1>3, <1>6, <2>2 DEF cc
<1>7. CASE q = f.protocol /\ Shifted(c, n) # 0
  <2>1. \A k \in 1..(cc \div 2) : ~IsPair(k, d, Send1[q])
    <3>1. \A k \in 1..n : bin(k) # 1
      BY <1>5, <1>7
    <3> QED BY <1>2, <1>4, <3>1
  <2>2. Decode(cc, d, Send0[q], Send1[q]) = 0
    BY <1>2, <2>1, NoOneNothing
  <2> QED BY <1>3, <1>7, <2>2 DEF cc, c, n, Wanted
<1>8. CASE q = f.protocol /\ Shifted(c, n) = 0
  <2>1. \A k \in 1..(cc \div 2) :
            IF Shifted(c, (cc \div 2) - k) % 2 = 1
            THEN IsPair(k, d, Send1[q]) /\ ~IsPair(k, d, Send0[q]) ELSE IsPair(k, d, Send0[q])
    BY <1>2, <1>4, <1>5, <1>8
  <2>2. Decode(cc, d, Send0[q], Send1[q]) = c % (UlongMod \div 2)
    BY <1>1, <1>2, <1>8, <2>1, ReadsCode
  <2> QED BY <1>3, <1>8, <2>2 DEF cc, c, n, Wanted
<1> QED BY <1>6, <1>7, <1>8

-------------------------------------------------------------------------------
(* Which frame the buffer holds *)

(* How many widths of the frame on the air have passed, and the invariant: *)
(* if the interrupt served all that came since the sync before, that is    *)
(* what the buffer holds.  While a pulse is sent it served nothing.        *)
Passed == 2 * frame.bits + 2 - Len(air)

FrameInv ==
    /\ program = "pulse" => ~attached
    /\ air # <<>> => /\ Passed >= 0
                     /\ \A i \in 1..Len(air) : air[i] = Copy(frame)[Passed + i]
    /\ whole => /\ attached /\ ~missed /\ air # <<>>
                /\ \E s0 \in Skews : timings = Held(frame, s0, skew, Passed + 1)

(* The width that comes next, by its place in the frame. *)
LEMMA WidthIs ==
    ASSUME ReceiverTypeOK, FrameInv, air # <<>>
    PROVE  /\ Len(air) \in Nat /\ Len(air) >= 1 /\ Passed \in Nat
           /\ Passed + 1 <= 2 * frame.bits + 2
           /\ Width = SeenWidth(frame, skew, Passed + 1)
<1>1. /\ air \in Seq(Nat) /\ frame \in Frames /\ frame.bits \in Nat
      /\ Passed >= 0 /\ \A i \in 1..Len(air) : air[i] = Copy(frame)[Passed + i]
  BY CodesAssumption DEF ReceiverTypeOK, FrameInv, Frames
<1>2. Len(air) \in Nat /\ Len(air) >= 1 /\ Head(air) = air[1]
  BY <1>1
<1> DEFINE n == Len(air)
           b == frame.bits
<1>3. Passed = 2 * b + 2 - n
  BY DEF Passed
<1>4. n \in Nat /\ n >= 1 /\ b \in Nat
  BY <1>1, <1>2
<1>5. Head(air) = Copy(frame)[Passed + 1]
  BY <1>1, <1>2
<1>6. Width = SeenAs(Head(air) * PulseLength[frame.protocol],
                     IF n % 2 = 0 THEN skew ELSE -skew)
  BY DEF Width, SeenAs
<1> HIDE DEF n, b
<1>7. Passed \in Nat /\ Passed + 1 <= 2 * b + 2 /\ (n % 2 = 0 <=> (Passed + 1) % 2 = 1)
  <2>1. Passed \in Nat /\ Passed + 1 <= 2 * b + 2 /\ Passed + 1 = 2 * b + 3 - n
    BY <1>1, <1>3, <1>4
  <2> DEFINE q == n \div 2
  <2>2. q \in Nat /\ (n = 2 * q \/ n = 2 * q + 1)
    BY <1>4
  <2> HIDE DEF q
  <2> DEFINE x == b + 1 - q
  <2>3. x \in Int /\ \A y \in Int : (2 * y) % 2 = 0 /\ (2 * y + 1) % 2 = 1
    BY <1>4, <2>2
  <2>4. /\ n = 2 * q => Passed + 1 = 2 * x + 1
        /\ n = 2 * q + 1 => Passed + 1 = 2 * x
    BY <1>4, <2>1, <2>2
  <2> HIDE DEF x
  <2> QED BY <2>1, <2>2, <2>3, <2>4
<1> QED BY <1>4, <1>5, <1>6, <1>7 DEF SeenWidth, n, b

(* The sync is wider than SYNC_MIN, what comes before it is not, and all   *)
(* of it fits into an unsigned int.                                        *)
LEMMA WidthBounds ==
    ASSUME NEW f \in Frames, NEW s \in Skews, NEW k \in 1..(2 * f.bits + 2)
    PROVE  /\ SeenWidth(f, s, k) \in 0..(UintMod - 1)
           /\ (SeenWidth(f, s, k) > SYNC_MIN) <=> (k = 2 * f.bits + 2)
<1> DEFINE p == f.protocol
           n == f.bits
           bin == Dec2bin(f.code, n)
           r == IF k % 2 = 1 THEN s ELSE -s
<1>1. n \in Nat /\ n # 0 /\ p \in {1, 2, 3}
  BY CodesAssumption DEF Frames, Protocols
<1>2. r \in -2..2
  <2>1. s \in -2..2
    BY SkewsAssumption
  <2> QED BY <2>1
<1>3. /\ SendSync[1] = <<1, 31>> /\ SendSync[2] = <<1, 10>> /\ SendSync[3] = <<1, 71>>
      /\ Send0[1] = <<1, 3>> /\ Send0[2] = <<1, 2>> /\ Send0[3] = <<4, 11>>
      /\ Send1[1] = <<3, 1>> /\ Send1[2] = <<2, 1>> /\ Send1[3] = <<9, 6>>
      /\ PulseLength[1] = 350 /\ PulseLength[2] = 650 /\ PulseLength[3] = 100
  BY DEF SendSync, Send0, Send1, PulseLength, Protocols
<1>4. SeenWidth(f, s, k) = SeenAs(Copy(f)[k] * PulseLength[p], r)
  BY DEF SeenWidth
<1>5. UintMod \in Nat /\ SYNC_MIN \in Nat /\ 1326 <= SYNC_MIN /\ SYNC_MIN < 6370 /\ 11067 < UintMod
  BY WidthsAssumption, SyncMinAssumption, WidthsTold
<1>6. /\ \A j \in 1..n : /\ Copy(f)[2 * j - 1] = (IF bin[j] = 1 THEN Send1[p] ELSE Send0[p])[1]
                         /\ Copy(f)[2 * j] = (IF bin[j] = 1 THEN Send1[p] ELSE Send0[p])[2]
      /\ Copy(f)[2 * n + 1] = SendSync[p][1] /\ Copy(f)[2 * n + 2] = SendSync[p][2]
  BY CopyIs
<1>7. CASE k = 2 * n + 2
  <2>1. SeenWidth(f, s, k) \in 6370..11067
    <3>1. SeenAs(10850, r) \in 10633..11067 /\ SeenAs(6500, r) \in 6370..6630
          /\ SeenAs(7100, r) \in 6958..7242
      BY <1>2, SeenBounds
    <3> DEFINE us == Copy(f)[k] * PulseLength[p]
    <3>2. us \in {10850, 6500, 7100}
      BY <1>1, <1>3, <1>6, <1>7
    <3>3. SeenWidth(f, s, k) = SeenAs(us, r)
      BY <1>4
    <3> HIDE DEF us, r
    <3> QED BY <3>1, <3>2, <3>3
  <2> DEFINE W == SeenWidth(f, s, k)
  <2>2. W \in 6370..11067
    BY <2>1
  <2> HIDE DEF W
  <2>3. W \in 0..(UintMod - 1) /\ W > SYNC_MIN
    BY <1>5, <2>2
  <2> QED BY <1>7, <2>3 DEF W
<1>8. CASE k # 2 * n + 2
  <2>1. Copy(f)[k] * PulseLength[p] \in {350, 1050, 650, 1300, 400, 1100, 900, 600, 100}
    <3>1. CASE k = 2 * n + 1
      BY <1>1, <1>3, <1>6, <3>1
    <3>2. CASE k # 2 * n + 1
      <4> DEFINE j == (k + 1) \div 2
                 w == IF bin[j] = 1 THEN Send1[p] ELSE Send0[p]
      <4>1. j \in 1..n /\ (k = 2 * j - 1 \/ k = 2 * j)
        <5>1. k \in Nat /\ k >= 1 /\ k <= 2 * n
          BY <1>1, <1>8, <3>2
        <5>2. j \in Nat /\ (k + 1 = 2 * j \/ k + 1 = 2 * j + 1)
          BY <5>1
        <5> HIDE DEF j, n
        <5> QED BY <1>1, <5>1, <5>2
      <4>2. w = Send1[p] \/ w = Send0[p]
        OBVIOUS
      <4>3. Copy(f)[k] = w[1] \/ Copy(f)[k] = w[2]
        <5> HIDE DEF j, bin
        <5> QED BY <1>6, <4>1
      <4> HIDE DEF w
      <4> QED BY <1>1, <1>3, <4>2, <4>3
    <3> QED BY <3>1, <3>2
  <2>2. SeenWidth(f, s, k) \in 0..1326
    <3>1. /\ SeenAs(350, r) \in 0..1326 /\ SeenAs(1050, r) \in 0..1326
          /\ SeenAs(650, r) \in 0..1326 /\ SeenAs(1300, r) \in 0..1326
          /\ SeenAs(400, r) \in 0..1326 /\ SeenAs(1100, r) \in 0..1326
          /\ SeenAs(900, r) \in 0..1326 /\ SeenAs(600, r) \in 0..1326 /\ SeenAs(100, r) \in 0..1326
      <4> HIDE DEF r
      <4> QED BY <1>2, SeenBounds
    <3> DEFINE us == Copy(f)[k] * PulseLength[p]
    <3>2. us \in {350, 1050, 650, 1300, 400, 1100, 900, 600, 100}
      BY <2>1
    <3>3. SeenWidth(f, s, k) = SeenAs(us, r)
      BY <1>4
    <3> HIDE DEF us, r
    <3> QED BY <3>1, <3>2, <3>3
  <2> DEFINE W == SeenWidth(f, s, k)
  <2>3. W \in 0..1326
    BY <2>2
  <2> HIDE DEF W
  <2>4. W \in 0..(UintMod - 1) /\ ~(W > SYNC_MIN)
    BY <1>5, <2>3
  <2> QED BY <1>8, <2>4 DEF W
<1> QED BY <1>7, <1>8

(* One call of the interrupt for a width that fits and finds room.         *)
LEMMA InterruptKeeps ==
    ASSUME ReceiverTypeOK, NEW w \in 0..(UintMod - 1), HandleInterrupt(w % UintMod),
           Len(timings) < RCSWITCH_MAX_CHANGES \/ w > SYNC_MIN
    PROVE  timings' = IF w > SYNC_MIN THEN <<w>> ELSE Append(timings, w)
<1>1. w % UintMod = w
  BY WidthsAssumption
<1>2. RCSWITCH_MAX_CHANGES \in Nat /\ RCSWITCH_MAX_CHANGES > 0 /\ Len(timings) \in Nat
  BY MaxChangesAssumption DEF ReceiverTypeOK
<1>3. CASE w > SYNC_MIN
  <2>1. timings' = Append(IF Full(Len(<<>>)) THEN <<>> ELSE <<>>, w)
    BY <1>1, <1>3 DEF HandleInterrupt
  <2> QED BY <1>3, <2>1
<1>4. CASE ~(w > SYNC_MIN)
  <2>1. timings' = Append(IF Full(Len(timings)) THEN <<>> ELSE timings, w)
    BY <1>1, <1>4 DEF HandleInterrupt
  <2>2. ~Full(Len(timings))
    BY <1>2, <1>4 DEF Full
  <2> QED BY <1>4, <2>1, <2>2
<1> QED BY <1>3, <1>4

(* Every step keeps it: a width of the frame is added where the frame has  *)
(* it, its sync begins the buffer anew, and what else comes is not whole.  *)
LEMMA FrameStep ==
    ReceiverTypeOK /\ ReceiverTypeOK' /\ FrameInv /\ [ReceiverNext]_receiverVars => FrameInv'
<1> SUFFICES ASSUME ReceiverTypeOK, ReceiverTypeOK', FrameInv, [ReceiverNext]_receiverVars
             PROVE  FrameInv'
  OBVIOUS
<1> DEFINE Quiet == program = "pulse" => ~attached
           OnAir == air # <<>> => /\ Passed >= 0
                                  /\ \A i \in 1..Len(air) : air[i] = Copy(frame)[Passed + i]
           Kept == whole => /\ attached /\ ~missed /\ air # <<>>
                            /\ \E s0 \in Skews : timings = Held(frame, s0, skew, Passed + 1)
<1>a. Quiet /\ OnAir /\ Kept
  BY DEF FrameInv
<1>b. Quiet' /\ OnAir' /\ Kept' => FrameInv'
  BY DEF FrameInv
(* A copy that begins is all of the frame. *)
<1>c. ASSUME air' = Copy(frame'), frame' \in Frames
      PROVE  OnAir' /\ air' # <<>> /\ Passed' = 0
  <2>1. air' \in Seq(Nat) /\ Len(air') = 2 * frame'.bits + 2
    BY <1>c, CopyType
  <2>2. frame'.bits \in Nat
    BY <1>c, CodesAssumption DEF Frames
  <2>3. Len(air') >= 2 /\ air' # <<>>
    BY <2>1, <2>2
  <2>4. Passed' = 0
    <3>1. Passed' = 2 * frame'.bits + 2 - Len(air')
      BY DEF Passed
    <3> DEFINE n == Len(air')
               m == 2 * frame'.bits + 2
    <3>2. n = m /\ m \in Nat /\ Passed' = m - n
      BY <2>1, <2>2, <3>1
    <3> HIDE DEF n, m
    <3> QED BY <3>2
  <2>5. \A i \in 1..Len(air') : air'[i] = Copy(frame')[Passed' + i]
    <3>1. \A i \in 1..Len(air') : Passed' + i = i
      BY <2>1, <2>4
    <3> QED BY <1>c, <3>1
  <2> QED BY <2>3, <2>4, <2>5
<1>1. CASE StartsFrame
  <2>1. Quiet' /\ Kept'
    BY <1>1, <1>a DEF StartsFrame, sender
  <2>2. OnAir'
    BY <1>1, <1>c DEF StartsFrame
  <2> QED BY <1>b, <2>1, <2>2
<1>2. CASE ContinuesFrame
  <2>1. air # <<>> /\ Len(air) > 1 /\ Change(Width) /\ air' = Tail(air)
        /\ whole' = (whole /\ attached) /\ UNCHANGED <<frame, skew, sender>>
    BY <1>2 DEF ContinuesFrame
  <2>2. /\ Len(air) \in Nat /\ Passed \in Nat /\ Passed + 1 <= 2 * frame.bits + 2
        /\ Width = SeenWidth(frame, skew, Passed + 1)
    BY <2>1, WidthIs
  <2>3. /\ air \in Seq(Nat) /\ frame \in Frames /\ skew \in Skews /\ frame.bits \in Nat
    BY CodesAssumption DEF ReceiverTypeOK, Frames
  <2>4. /\ Len(air') = Len(air) - 1 /\ air' # <<>>
        /\ \A i \in 1..(Len(air) - 1) : air'[i] = air[i + 1]
    <3> DEFINE a == air
    <3>1. a \in Seq(Nat) /\ Len(a) > 1
      BY <2>1, <2>3
    <3> HIDE DEF a
    <3>2. /\ Tail(a) \in Seq(Nat) /\ Len(Tail(a)) = Len(a) - 1
          /\ \A i \in 1..(Len(a) - 1) : Tail(a)[i] = a[i + 1]
      BY <3>1
    <3>3. Len(Tail(a)) > 0
      BY <3>1, <3>2
    <3>4. Tail(a) # <<>>
      <4>1. Len(<<>>) = 0
        BY EmptySeq, Zenon
      <4>2. Tail(a) = <<>> => Len(Tail(a)) = Len(<<>>)
        OBVIOUS
      <4> QED BY <3>3, <4>1, <4>2
    <3>5. air' = Tail(a) /\ a = air
      BY <2>1 DEF a
    <3> QED BY <3>2, <3>4, <3>5
  <2>5. Passed' = Passed + 1 /\ Passed + 1 < 2 * frame.bits + 2
    <3> DEFINE n == Len(air)
               m == 2 * frame.bits + 2
    <3>1. Passed' = m - (n - 1) /\ Passed = m - n
      <4>1. Passed' = 2 * frame'.bits + 2 - Len(air')
        BY DEF Passed
      <4>2. frame' = frame
        BY <2>1
      <4>3. Passed = 2 * frame.bits + 2 - Len(air)
        BY DEF Passed
      <4>4. Passed' = 2 * frame.bits + 2 - (Len(air) - 1)
        BY <2>4, <4>1, <4>2
      <4> DEFINE b == frame.bits
      <4>5. n \in Nat /\ b \in Nat
        BY <2>2, <2>3
      <4>6. Passed' = 2 * b + 2 - (n - 1) /\ Passed = 2 * b + 2 - n /\ m = 2 * b + 2
        BY <4>3, <4>4
      <4> HIDE DEF Passed, n, m, b
      <4> QED BY <4>5, <4>6
    <3>2. m \in Nat /\ n \in Nat /\ n > 1
      BY <2>1, <2>2, <2>3
    <3> HIDE DEF n, m
    <3>3. Passed' = Passed + 1 /\ Passed + 1 < m
      BY <3>1, <3>2
    <3> QED BY <3>3 DEF m
  <2>6. Quiet'
    BY <1>a, <2>1 DEF sender
  <2>7. OnAir'
    <3>1. ASSUME NEW i \in 1..(Len(air) - 1)
          PROVE  air'[i] = Copy(frame)[(Passed + 1) + i]
      <4>1. i + 1 \in 1..Len(air) /\ Passed + (i + 1) = (Passed + 1) + i
        BY <2>2
      <4>2. air[i + 1] = Copy(frame)[Passed + (i + 1)]
        BY <1>a, <2>1, <4>1
      <4> QED BY <2>4, <4>1, <4>2
    <3>2. Passed + 1 >= 0
      BY <2>2
    <3> QED BY <2>1, <2>4, <2>5, <3>1, <3>2
  <2>8. Kept'
    <3> SUFFICES ASSUME whole' PROVE (attached /\ ~missed /\ air # <<>>)'
                   /\ \E s0 \in Skews : timings' = Held(frame', s0, skew', Passed' + 1)
      OBVIOUS
    <3>1. whole /\ attached /\ ~missed
      BY <1>a, <2>1
    <3>2. PICK s0 \in Skews : timings = Held(frame, s0, skew, Passed + 1)
      BY <1>a, <3>1
    <3> DEFINE w == SeenWidth(frame, skew, Passed + 1)
    <3>3. HandleInterrupt(w % UintMod) /\ missed' = FALSE
      BY <2>1, <2>2, <3>1 DEF Change
    <3>4. Len(timings) = Passed + 1
      <4> DEFINE m == Passed + 1
                 Entry(i) == IF i = 1 THEN SeenWidth(frame, s0, 2 * frame.bits + 2)
                             ELSE SeenWidth(frame, skew, i - 1)
      <4>1. m \in Nat /\ timings = [i \in 1..m |-> Entry(i)]
        BY <2>2, <3>2 DEF Held
      <4> HIDE DEF m, Entry
      <4>2. Len(timings) = m
        BY <4>1
      <4> QED BY <4>2 DEF m
    <3>5. w \in 0..(UintMod - 1) /\ ~(w > SYNC_MIN)
      <4>1. Passed + 1 \in 1..(2 * frame.bits + 2) /\ Passed + 1 # 2 * frame.bits + 2
        BY <2>2, <2>3, <2>5
      <4> QED BY <2>3, <4>1, WidthBounds
    <3>6. Len(timings) < RCSWITCH_MAX_CHANGES
      <4>1. 2 * frame.bits + 2 <= RCSWITCH_MAX_CHANGES
        BY <2>3, FramesFit DEF Frames
      <4> QED BY <2>2, <2>3, <2>5, <3>4, <4>1, MaxChangesAssumption
    <3> HIDE DEF w
    <3>7. timings' = Append(timings, w)
      BY <3>3, <3>5, <3>6, InterruptKeeps
    <3>8. timings' = Held(frame, s0, skew, (Passed + 1) + 1)
      <4> DEFINE m == Passed + 1
                 Entry(i) == IF i = 1 THEN SeenWidth(frame, s0, 2 * frame.bits + 2)
                             ELSE SeenWidth(frame, skew, i - 1)
      <4>1. m \in Nat /\ m >= 1 /\ timings = [i \in 1..m |-> Entry(i)] /\ w = Entry(m + 1)
        <5>1. m \in Nat /\ m >= 1 /\ m + 1 # 1 /\ (m + 1) - 1 = Passed + 1
          BY <2>2
        <5>2. timings = [i \in 1..m |-> Entry(i)]
          BY <3>2 DEF Held
        <5>3. w = Entry(m + 1)
          BY <5>1 DEF w
        <5> QED BY <5>1, <5>2, <5>3
      <4>2. Held(frame, s0, skew, m + 1) = [i \in 1..(m + 1) |-> Entry(i)]
        BY DEF Held
      <4> HIDE DEF m, Entry
      <4>3. Append(timings, w) = [i \in 1..(m + 1) |-> Entry(i)]
        BY <4>1
      <4> QED BY <3>7, <4>2, <4>3 DEF m
    <3> QED BY <2>1, <2>4, <2>5, <3>1, <3>3, <3>8 DEF sender
  <2> QED BY <1>b, <2>6, <2>7, <2>8
<1>3. CASE RepeatsFrame
  <2>1. /\ Len(air) = 1 /\ Change(Width) /\ air' = Copy(frame) /\ skew' \in Skews
        /\ whole' = (attached /\ ~missed) /\ UNCHANGED <<frame, sender>>
    BY <1>3 DEF RepeatsFrame
  <2>2. air # <<>> /\ frame \in Frames /\ skew \in Skews /\ frame.bits \in Nat
    <3>1. air # <<>>
      BY <2>1
    <3>2. frame \in Frames /\ skew \in Skews
      BY DEF ReceiverTypeOK
    <3>3. frame.bits \in Nat
      BY <3>2, CodesAssumption DEF Frames
    <3> QED BY <3>1, <3>2, <3>3
  <2>3. Width = SeenWidth(frame, skew, Passed + 1) /\ Passed \in Nat
    BY <2>2, WidthIs
  <2>4. Passed + 1 = 2 * frame.bits + 2
    BY <2>1, <2>2 DEF Passed
  <2>5. Quiet'
    BY <1>a, <2>1 DEF sender
  <2>6. OnAir' /\ air' # <<>> /\ Passed' = 0
    BY <1>c, <2>1, <2>2
  <2>7. Kept'
    <3> SUFFICES ASSUME whole' PROVE (attached /\ ~missed /\ air # <<>>)'
                   /\ \E s0 \in Skews : timings' = Held(frame', s0, skew', Passed' + 1)
      OBVIOUS
    <3>1. attached /\ ~missed
      BY <2>1
    <3> DEFINE w == SeenWidth(frame, skew, 2 * frame.bits + 2)
    <3>2. HandleInterrupt(w % UintMod) /\ missed' = FALSE
      BY <2>1, <2>3, <2>4, <3>1 DEF Change
    <3>3. w \in 0..(UintMod - 1) /\ w > SYNC_MIN
      <4>1. 2 * frame.bits + 2 \in 1..(2 * frame.bits + 2)
        BY <2>2
      <4> QED BY <2>2, <4>1, WidthBounds
    <3> HIDE DEF w
    <3>4. timings' = <<w>>
      BY <3>2, <3>3, InterruptKeeps
    <3>5. Held(frame, skew, skew', 0 + 1) = <<w>>
      <4>1. Held(frame, skew, skew', 1) = [i \in 1..1 |-> w]
        BY DEF Held, w
      <4> QED BY <4>1
    <3> QED BY <2>1, <2>2, <2>6, <3>1, <3>2, <3>4, <3>5 DEF sender
  <2> QED BY <1>b, <2>5, <2>6, <2>7
<1>4. CASE EndsFrame
  <2>1. Quiet' /\ Kept'
    BY <1>4, <1>a DEF EndsFrame, sender
  <2>2. OnAir'
    <3>1. CASE air' = <<>>
      BY <3>1
    <3>2. CASE frame' \in Frames /\ air' = Copy(frame')
      BY <1>c, <3>2
    <3> QED BY <1>4, <3>1, <3>2 DEF EndsFrame
  <2> QED BY <1>b, <2>1, <2>2
<1>5. CASE Noise
  <2>1. ~whole /\ air = <<>> /\ UNCHANGED <<air, frame, skew, whole, sender>>
    BY <1>5, <1>a DEF Noise
  <2>2. Quiet' /\ OnAir' /\ Kept'
    BY <1>a, <2>1 DEF sender
  <2> QED BY <1>b, <2>2
<1>6. CASE ServesFlag
  <2>1. ~whole /\ UNCHANGED <<air, frame, skew, whole, sender>>
    BY <1>6, <1>a DEF ServesFlag
  <2>2. Quiet' /\ Kept'
    BY <1>a, <2>1 DEF sender
  <2>3. OnAir'
    BY <1>a, <2>1 DEF Passed
  <2> QED BY <1>b, <2>2, <2>3
<1>7. CASE Setup
  <2>1. /\ UNCHANGED line /\ timings' = timings /\ program' = "loop" /\ attached'
    BY <1>7 DEF Setup
  <2>2. Passed' = Passed
    BY <2>1 DEF line, Passed
  <2>3. Quiet'
    BY <2>1
  <2>4. OnAir' /\ Kept'
    BY <1>a, <2>1, <2>2 DEF line
  <2> QED BY <1>b, <2>3, <2>4
<1>8. CASE Sends
  <2>1. UNCHANGED line /\ timings' = timings /\ program' = "send" /\ attached' = attached
    BY <1>8 DEF Sends, receiver
  <2>2. Passed' = Passed
    BY <2>1 DEF line, Passed
  <2>3. OnAir' /\ Kept'
    BY <1>a, <2>1, <2>2 DEF line
  <2> QED BY <1>b, <2>1, <2>3
<1>9. CASE PulseStarts
  BY <1>9, <1>b DEF PulseStarts
<1>10. CASE PulseEnds
  <2>1. ~whole /\ UNCHANGED line /\ program' # "pulse"
    BY <1>10, <1>a DEF PulseEnds
  <2>2. Passed' = Passed
    BY <2>1 DEF line, Passed
  <2>3. Quiet' /\ OnAir' /\ Kept'
    BY <1>a, <2>1, <2>2 DEF line
  <2> QED BY <1>b, <2>3
<1>11. CASE UNCHANGED receiverVars
  <2>1. UNCHANGED <<timings, program, attached>> /\ UNCHANGED line
    BY <1>11 DEF receiverVars, receiver, sender
  <2>2. Passed' = Passed
    BY <2>1 DEF line, Passed
  <2>3. Quiet' /\ OnAir' /\ Kept'
    BY <1>a, <2>1, <2>2 DEF line
  <2> QED BY <1>b, <2>3
<1> QED BY <1>1, <1>2, <1>3, <1>4, <1>5, <1>6, <1>7, <1>8, <1>9, <1>10, <1>11 DEF ReceiverNext

(* Whatever came in before, a copy of a frame that the interrupt served    *)
(* from sync to sync can be read from the buffer when its own sync comes,  *)
(* by the decoder of its protocol, and no other finds anything in it: for  *)
(* every code, length and skew (RCSwitch.cpp:642-754).  It would be        *)
(* received if handleInterrupt() called the decoders with it.              *)
THEOREM FramesAreReadable == ReceiverSpec => []FrameReadable
<1>1. ReceiverInit => FrameInv
  BY DEF ReceiverInit, FrameInv
<1>2. ReceiverTypeOK /\ FrameInv => FrameReadable
  <2> SUFFICES ASSUME ReceiverTypeOK, FrameInv, whole, Len(air) = 1, NEW p \in Protocols
               PROVE  CodeOf(p, Len(timings) - 1) =
                          IF p = frame.protocol THEN Wanted(frame) ELSE 0
    BY DEF FrameReadable
  <2>1. frame \in Frames /\ skew \in Skews /\ frame.bits \in Nat
    BY CodesAssumption DEF ReceiverTypeOK, Frames
  <2>2. PICK s0 \in Skews : timings = Held(frame, s0, skew, Passed + 1)
    BY DEF FrameInv
  <2>3. Passed + 1 = 2 * frame.bits + 2
    BY <2>1 DEF Passed
  <2>4. HoldsFrame(frame, s0, skew)
    BY <2>2, <2>3 DEF HoldsFrame
  <2> QED BY <2>1, <2>4, HeldIsRead
<1> QED BY <1>1, <1>2, FrameStep, ReceiverTypeCorrect, PTL DEF ReceiverSpec
===============================================================================
