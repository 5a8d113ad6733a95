--------------------------- MODULE PubSubClient_proofs ---------------------------
(***************************************************************************)
(* Proofs about PubSubClient.  MqttPacket.tla: for every length of digit,  *)
(* buffer and topic, and every set of messages whose length takes at most  *)
(* two digits, the client stays in step with the packets, and hands on     *)
(* whole what fits the buffer.  KeepAlive.tla: for every keep-alive        *)
(* interval, what the client may believe of its stamps (StampsHonest), and *)
(* from it the three promises of loop().                                   *)
(***************************************************************************)
EXTENDS MqttPacket, KeepAlive, SequenceTheorems, TLAPS

(* No packet has a length of three digits. *)
ShortLengths == \A p \in Packets : Remaining(p) < Base * Base

-------------------------------------------------------------------------------
(* What the callback is given *)

(* Two sequences are the parts of a third. *)
LEMMA Joined ==
    ASSUME NEW S, NEW x \in Seq(S), NEW y \in Seq(S), NEW z \in Seq(S),
           Len(z) = Len(x) + Len(y),
           \A k \in 1..Len(x) : z[k] = x[k],
           \A k \in 1..Len(y) : z[Len(x) + k] = y[k]
    PROVE  x \o y = z
  <1>1. x \o y \in Seq(S) /\ Len(x \o y) = Len(z)
    BY ConcatProperties
  <1>2. ASSUME NEW k \in 1..Len(z) PROVE (x \o y)[k] = z[k]
    <2>1. CASE k <= Len(x)
      BY <2>1, ConcatProperties
    <2>2. CASE k > Len(x)
      <3>1. k - Len(x) \in 1..Len(y) /\ Len(x) + (k - Len(x)) = k
        BY <2>2
      <3>2. (x \o y)[k] = y[k - Len(x)]
        BY <2>2
      <3> QED BY <3>1, <3>2
    <2> QED BY <2>1, <2>2
  <1> QED BY <1>1, <1>2, SeqEqual

(* The end of the packet from the place s on, in two parts. *)
Handed ==
    pc = "echo" =>
        \E s, tl, pl \in Nat :
            /\ s + tl + pl = Size(reading)
            /\ handed = [topic |-> Slice(reading, s, tl),
                         payload |-> Slice(reading, s + tl, pl)]
            /\ Fits(reading) =>
                 /\ reading.kind = "PUBLISH" /\ s = 4
                 /\ tl = reading.topic /\ pl = reading.payload

LEMMA HandedNotMixed ==
    ASSUME Handed
    PROVE  NeverMixed
  <1> SUFFICES ASSUME pc = "echo" PROVE NeverMixed
    BY DEF NeverMixed
  <1>1. PICK s, tl, pl \in Nat :
          /\ s + tl + pl = Size(reading)
          /\ handed = [topic |-> Slice(reading, s, tl), payload |-> Slice(reading, s + tl, pl)]
    BY DEF Handed
  <1> DEFINE S == {Byte(reading, n) : n \in Nat}
             x == Slice(reading, s, tl)
             y == Slice(reading, s + tl, pl)
             z == Slice(reading, s, tl + pl)
  <1>2. x \in Seq(S) /\ y \in Seq(S) /\ z \in Seq(S)
    BY DEF Slice
  <1>3. Len(x) = tl /\ Len(y) = pl /\ Len(z) = tl + pl
    BY DEF Slice
  <1>4. ASSUME NEW k \in 1..tl PROVE z[k] = x[k]
    BY DEF Slice
  <1>5. ASSUME NEW k \in 1..pl PROVE z[tl + k] = y[k]
    <2>1. tl + k \in 1..(tl + pl) /\ s + (tl + k) - 1 = s + tl + k - 1
      OBVIOUS
    <2>2. z[tl + k] = Byte(reading, s + (tl + k) - 1) /\ y[k] = Byte(reading, s + tl + k - 1)
      BY <2>1, Zenon DEF Slice
    <2> QED BY <2>1, <2>2
  <1>6. handed.topic = x /\ handed.payload = y
    BY <1>1
  <1>7. z = Slice(reading, Size(reading) - Len(z), Len(z))
    <2>1. Size(reading) - Len(z) = s
      BY <1>1, <1>3
    <2> QED BY <1>3, <2>1
  <1> HIDE DEF S, x, y, z
  <1>8. x \o y = z
    BY <1>2, <1>3, <1>4, <1>5, Joined
  <1> QED BY <1>6, <1>7, <1>8 DEF NeverMixed

-------------------------------------------------------------------------------
USE BaseAssumption, LengthModAssumption, LastTopicAssumption, PacketsAssumption,
    MaxAssumption, MemoryAssumption, TopicAssumption

-------------------------------------------------------------------------------
(* Arithmetic *)

LEMMA DivMod ==
    ASSUME NEW a \in Nat, NEW b \in Nat, b > 0
    PROVE  /\ a \div b \in Nat /\ a % b \in 0..(b - 1)
           /\ a = (b * (a \div b)) + (a % b)
  OBVIOUS

LEMMA ModSmall ==
    ASSUME NEW a \in Nat, NEW b \in Nat, a < b
    PROVE  a % b = a
  OBVIOUS

LEMMA ModOnce ==
    ASSUME NEW a \in Nat, NEW b \in Nat, a < b
    PROVE  (b + a) % b = a
  <1> DEFINE q == (b + a) \div b
             r == (b + a) % b
  <1>1. q \in Nat /\ r \in 0..(b - 1) /\ b + a = (b * q) + r
    BY DivMod
  <1> HIDE DEF q, r
  <1>2. CASE q = 0
    BY <1>1, <1>2
  <1>3. CASE q = 1
    BY <1>1, <1>3 DEF r
  <1>4. CASE q > 1
    <2>1. b * (q - 2) >= 0 /\ b * q = (2 * b) + (b * (q - 2))
      BY <1>1, <1>4
    <2> QED BY <1>1, <2>1
  <1> QED BY <1>1, <1>2, <1>3, <1>4

LEMMA Sizes ==
    ASSUME NEW p \in Packets, ShortLengths
    PROVE  /\ Remaining(p) \in Nat /\ Digits(p) \in {1, 2} /\ Size(p) \in Nat
           /\ Size(p) = 1 + Digits(p) + Remaining(p)
           /\ Digits(p) = 1 => Remaining(p) < Base
           /\ Digits(p) = 2 => Remaining(p) >= Base
           /\ Fits(p) => Digits(p) = 1
  <1>1. Remaining(p) \in Nat
    BY DEF Remaining
  <1> QED
    BY <1>1 DEF Digits, Size, Fits, ShortLengths

LEMMA Quotient ==
    ASSUME NEW a \in Nat, NEW b \in Nat, b > 0, a < b * b
    PROVE  a \div b < b
  <1> DEFINE q == a \div b
  <1>1. q \in Nat /\ b * q <= a
    BY DivMod
  <1> HIDE DEF q
  <1>2. SUFFICES ASSUME q >= b PROVE FALSE
    BY <1>1 DEF q
  <1>3. b * (q - b) >= 0 /\ b * q = (b * b) + (b * (q - b))
    BY <1>1, <1>2
  <1> QED
    BY <1>1, <1>3

(* What the client has once it has read the digits of a length. *)
LEMMA DigitsAddUp ==
    ASSUME NEW p \in Packets, ShortLengths
    PROVE  /\ Digits(p) = 1 => (0 + Digit(p, 1) * 1) % LengthMod = Remaining(p)
           /\ Digits(p) = 2 =>
                /\ (0 + Digit(p, 1) * 1) % LengthMod = Remaining(p) % Base
                /\ ((Remaining(p) % Base) + Digit(p, 2) * Base) % LengthMod = Remaining(p)
           /\ (1 * Base) % (2 * Base) = Base
  <1> DEFINE r == Remaining(p)
             q == r \div Base
             m == r % Base
  <1>1. r \in Nat /\ r < Base * Base
    BY Sizes DEF ShortLengths
  <1>2. q \in Nat /\ m \in Nat /\ m < Base /\ r = (Base * q) + m
    BY <1>1, DivMod
  <1>3. q < Base
    BY <1>1, Quotient
  <1>4. Digit(p, 1) = m /\ Digit(p, 2) = q % Base
    BY DEF Digit
  <1>5. Digits(p) = 1 => m = r
    BY <1>1, Sizes, ModSmall
  <1> HIDE DEF r, q, m
  <1>6. Base * Base < LengthMod /\ Base < LengthMod /\ LengthMod \in Nat
    OBVIOUS
  <1>7. q % Base = q /\ m % LengthMod = m /\ r % LengthMod = r
    BY <1>1, <1>2, <1>3, <1>6, ModSmall
  <1>8. m + q * Base = r /\ 0 + m * 1 = m
    BY <1>2
  <1>9. (1 * Base) % (2 * Base) = Base
    BY ModSmall
  <1>10. (0 + Digit(p, 1) * 1) % LengthMod = m
    BY <1>4, <1>7, <1>8
  <1>11. (m + Digit(p, 2) * Base) % LengthMod = r
    BY <1>4, <1>7, <1>8
  <1> QED
    BY <1>5, <1>9, <1>10, <1>11 DEF r, m

LEMMA BytesDiffer ==
    ASSUME NEW p, NEW n \in Nat, n # 0
    PROVE  Byte(p, n) # Byte(p, 0)
  BY DEF Byte

(* Lengths of topic and payload that are in RAM together are those of the  *)
(* bytes in the buffer: the difference has not wrapped.                    *)
LEMMA LengthsInBuffer ==
    ASSUME NEW l \in 1..Max, l = len, NEW tl \in Nat, InMemory(tl)
    PROVE  tl + 4 <= l /\ PayloadLength(tl) = l - 4 - tl
  <1> DEFINE x == LengthMod + l - 4 - tl
  <1>1. /\ LengthMod \in Nat /\ LengthMod > 0 /\ Memory \in Nat /\ Memory + 4 < LengthMod
        /\ Max \in Nat /\ Max <= Memory /\ l \in Nat
    OBVIOUS
  <1>2. PayloadLength(tl) = x % LengthMod
    BY DEF PayloadLength
  <1>3. x \in Int
    BY <1>1
  <1>4. x % LengthMod \in 0..(LengthMod - 1)
    BY <1>1, <1>3
  <1>5. tl <= Memory
    BY <1>1, <1>2, <1>4 DEF InMemory
  <1>6. x \in Nat
    BY <1>1, <1>5
  <1>7. CASE tl + 4 <= l
    <2>1. l - 4 - tl \in Nat /\ l - 4 - tl < LengthMod /\ x = LengthMod + (l - 4 - tl)
      BY <1>1, <1>7
    <2>2. x % LengthMod = l - 4 - tl
      <3> HIDE DEF x
      <3>1. ASSUME NEW a \in Nat, NEW b \in Nat, a < b PROVE (b + a) % b = a
        BY <3>1, ModOnce
      <3> QED BY <1>1, <2>1, <3>1
    <2> QED BY <1>2, <1>7, <2>2
  <1>8. CASE ~(tl + 4 <= l)
    <2>1. x < LengthMod
      BY <1>1, <1>8
    <2>2. x % LengthMod = x
      <3> HIDE DEF x
      <3> QED BY <1>1, <1>6, <2>1, ModSmall
    <2>3. tl + x <= Memory
      BY <1>2, <2>2 DEF InMemory
    <2> QED BY <1>1, <2>3
  <1> QED BY <1>7, <1>8

-------------------------------------------------------------------------------
(* The inductive invariant: where the client is in the packet it reads,    *)
(* what it knows of its length, and what the buffer holds of it.           *)

Typed ==
    /\ pc \in {"header", "length", "body", "dispatch", "echo", "astray"}
    /\ incoming \in Seq(Packets)
    /\ DOMAIN buffer = 0..(Max - 1)
    /\ len \in Nat
    /\ reading \in Packets \cup {Nothing}
    /\ reading \notin Packets => pc = "header"

Walk ==
    /\ pc \in {"header", "dispatch", "echo", "astray"} => at = 0
    /\ pc \in {"length", "body"} =>
         incoming # <<>> /\ reading = Head(incoming) /\ at < Size(reading)
    /\ pc = "length" =>
         /\ at \in 1..Digits(reading) /\ i = 0
         /\ at = 1 => multiplier = 1 /\ length = 0
         /\ at = 2 => multiplier = Base /\ length = Remaining(reading) % Base
    /\ pc = "body" =>
         /\ length = Remaining(reading)
         /\ i \in Nat /\ i < length /\ at = 1 + Digits(reading) + i

(* Of the bytes read so far, n of them, the last len are in the buffer:    *)
(* all of them, as long as they fit.                                       *)
Holds(n) ==
    /\ len <= Max
    /\ IF n <= Max THEN len = n ELSE len < n
    /\ \A k \in 0..(len - 1) : buffer[k] = Byte(reading, n - len + k)

Stored ==
    /\ pc \in {"length", "body"} => Holds(at)
    /\ pc = "dispatch" => Holds(Size(reading))

Inv == Typed /\ Walk /\ Stored /\ Handed /\ SpillIsHarmless

LEMMA InitInv == Init => Inv
  <1> SUFFICES ASSUME Init PROVE Inv
    OBVIOUS
  <1>1. Typed
    BY EmptySeq DEF Init, Typed
  <1> QED
    BY <1>1 DEF Init, Inv, Walk, Stored, Handed, SpillIsHarmless

(* readByte() takes the next byte of the packet being read; behind its     *)
(* last one the next packet begins.                                        *)
LEMMA ByteRead ==
    ASSUME ShortLengths, Typed, ReadByte, at \in Nat, at < Size(Head(incoming))
    PROVE  /\ incoming' \in Seq(Packets)
           /\ Head(incoming) \in Packets
           /\ at + 1 < Size(Head(incoming)) =>
                at' = at + 1 /\ incoming' = incoming
           /\ at + 1 = Size(Head(incoming)) => at' = 0
  <1>1. Head(incoming) \in Packets /\ Tail(incoming) \in Seq(Packets)
    BY HeadTailProperties DEF Typed, ReadByte
  <1>2. Size(Head(incoming)) \in Nat
    BY <1>1, Sizes
  <1>3. incoming' \in Seq(Packets)
    <2>1. incoming' = Tail(incoming) \/ incoming' = incoming
      BY DEF ReadByte
    <2> QED
      BY <1>1, <2>1 DEF Typed
  <1>4. at + 1 < Size(Head(incoming)) => at' = at + 1 /\ incoming' = incoming
    BY <1>2 DEF ReadByte
  <1>5. at + 1 = Size(Head(incoming)) => at' = 0
    BY DEF ReadByte
  <1> QED
    BY <1>1, <1>3, <1>4, <1>5

(* The byte read, of which there are n before it, is put where it belongs. *)
LEMMA ByteStored ==
    ASSUME Typed, NEW n \in Nat, n > 0, at = n, Holds(n),
           reading \in Packets, reading' = reading, Head(incoming) = reading,
           \/ len < Max /\ buffer' = [buffer EXCEPT ![len] = Available] /\ len' = len + 1
           \/ len >= Max /\ len' = 0 /\ buffer' = buffer
    PROVE  Holds(n + 1)' /\ len' \in Nat /\ DOMAIN buffer' = 0..(Max - 1)
  <1>1. Available = Byte(reading, n)
    BY DEF Available
  <1>2. len' \in Nat /\ DOMAIN buffer' = 0..(Max - 1)
    BY DEF Typed
  <1>3. CASE len < Max
    <2>1. len \in Nat /\ len' = len + 1 /\ buffer' = [buffer EXCEPT ![len] = Available]
      BY <1>3 DEF Typed
    <2>2. buffer'[len] = Byte(reading, (n + 1) - (len + 1) + len)
      BY <1>1, <1>3, <2>1 DEF Typed
    <2>3. ASSUME NEW k \in 0..(len - 1)
          PROVE  buffer'[k] = Byte(reading, (n + 1) - (len + 1) + k)
      <3>1. buffer'[k] = buffer[k]
        BY <1>3, <2>1 DEF Typed
      <3>2. buffer[k] = Byte(reading, n - len + k)
        BY DEF Holds
      <3>3. n - len + k = (n + 1) - (len + 1) + k
        BY <2>1
      <3> QED BY <3>1, <3>2, <3>3
    <2>4. \A k \in 0..(len' - 1) : buffer'[k] = Byte(reading', (n + 1) - len' + k)
      BY <2>1, <2>2, <2>3
    <2>5. len' <= Max /\ (IF n + 1 <= Max THEN len' = n + 1 ELSE len' < n + 1)
      BY <1>3, <2>1 DEF Holds
    <2> QED BY <1>2, <2>4, <2>5 DEF Holds
  <1>4. CASE len >= Max
    <2>1. len = Max /\ len' = 0 /\ n >= Max
      BY <1>4 DEF Holds, Typed
    <2> QED BY <1>2, <2>1 DEF Holds
  <1> QED BY <1>3, <1>4 DEF Typed

-------------------------------------------------------------------------------
(* The steps of readPacket() *)

LEMMA HeaderStep == ShortLengths /\ Inv /\ ReadHeader => Inv'
  <1> SUFFICES ASSUME ShortLengths, Inv, ReadHeader PROVE Inv'
    OBVIOUS
  <1> USE DEF Inv
  <1> DEFINE p == Head(incoming)
  <1>1. p \in Packets
    BY HeadTailProperties DEF ReadHeader, ReadByte, Typed
  <1>2. Size(p) \in Nat /\ Size(p) > 1 /\ Digits(p) \in {1, 2}
    BY <1>1, Sizes
  <1>3. at = 0 /\ at' = 1 /\ incoming' = incoming
    BY <1>1, <1>2, ByteRead DEF ReadHeader
  <1>4. Typed'
    BY <1>1, <1>3 DEF Typed, ReadHeader
  <1>5. Walk'
    BY <1>1, <1>2, <1>3 DEF Walk, ReadHeader, ReadByte
  <1>6. Stored'
    <2>1. len' = 1 /\ buffer'[0] = Byte(reading', 0)
      BY <1>3 DEF ReadHeader, Typed, Available
    <2> QED
      BY <1>3, <2>1 DEF Stored, Holds, ReadHeader
  <1>7. Handed' /\ SpillIsHarmless'
    BY DEF ReadHeader, Handed, SpillIsHarmless, SetAnew
  <1> QED
    BY <1>4, <1>5, <1>6, <1>7

LEMMA DigitStep == ShortLengths /\ Inv /\ ReadDigit => Inv'
  <1> SUFFICES ASSUME ShortLengths, Inv, ReadDigit PROVE Inv'
    OBVIOUS
  <1> USE DEF Inv
  <1>1. /\ pc = "length" /\ reading' = reading /\ reading \in Packets
        /\ reading = Head(incoming) /\ i = 0 /\ i' = 0
        /\ at \in 1..Digits(reading) /\ at < Size(reading)
    BY DEF ReadDigit, Typed, Walk
  <1> PICK n \in Nat : n = at
    BY <1>1, Sizes
  <1>2. /\ Remaining(reading) \in Nat /\ Digits(reading) \in {1, 2}
        /\ Size(reading) \in Nat /\ Size(reading) = 1 + Digits(reading) + Remaining(reading)
    BY <1>1, Sizes
  <1>3. n < Max /\ len = n /\ Holds(n)
    BY <1>1, <1>2 DEF Stored, Holds
  <1>4. Holds(n + 1)' /\ len' \in Nat /\ DOMAIN buffer' = 0..(Max - 1)
    BY <1>1, <1>3, ByteStored DEF ReadDigit
  <1>5. /\ incoming' \in Seq(Packets)
        /\ n + 1 < Size(reading) => at' = n + 1 /\ incoming' = incoming
        /\ n + 1 = Size(reading) => at' = 0
    BY <1>1, ByteRead DEF ReadDigit
  <1>6. CASE at < Digits(reading)
    <2>1. n = 1 /\ Digits(reading) = 2 /\ multiplier = 1 /\ length = 0
      BY <1>1, <1>2, <1>6 DEF Walk
    <2>2. length' = Remaining(reading) % Base /\ multiplier' = Base
      BY <1>1, <2>1, DigitsAddUp DEF ReadDigit
    <2>3. pc' = "length" /\ at' = 2 /\ incoming' = incoming /\ 2 < Size(reading)
      BY <1>1, <1>2, <1>5, <1>6, <2>1, Sizes DEF ReadDigit
    <2>4. incoming # <<>>
      BY DEF ReadDigit, ReadByte
    <2>5. Typed'
      BY <1>1, <1>4, <1>5, <2>3 DEF Typed
    <2>6. Walk'
      BY <1>1, <1>2, <2>1, <2>2, <2>3, <2>4 DEF Walk
    <2>7. Stored'
      <3>1. at' = n + 1
        BY <2>1, <2>3
      <3> QED BY <1>4, <2>3, <3>1 DEF Stored, Holds
    <2> QED
      BY <2>3, <2>5, <2>6, <2>7 DEF ReadDigit, Handed, SpillIsHarmless
  <1>7. CASE ~(at < Digits(reading))
    <2>1. n = Digits(reading)
      BY <1>1, <1>2, <1>7
    <2>2. length' = Remaining(reading)
      <3>1. CASE Digits(reading) = 1
        BY <1>1, <2>1, <3>1, DigitsAddUp DEF ReadDigit, Walk
      <3>2. CASE Digits(reading) = 2
        BY <1>1, <2>1, <3>2, DigitsAddUp DEF ReadDigit, Walk
      <3> QED
        BY <1>2, <3>1, <3>2
    <2>3. pc' = IF Remaining(reading) = 0 THEN "dispatch" ELSE "body"
      BY <1>1, <1>7, <2>2 DEF ReadDigit
    <2>4. incoming # <<>>
      BY DEF ReadDigit, ReadByte
    <2>5. Typed'
      BY <1>1, <1>4, <1>5, <2>3 DEF Typed
    <2>6. CASE Remaining(reading) = 0
      <3>1. at' = 0 /\ pc' = "dispatch" /\ n + 1 = Size(reading)
        BY <1>2, <1>5, <2>1, <2>3, <2>6
      <3>2. Walk' /\ Stored'
        BY <1>1, <1>4, <3>1, <2>5 DEF Walk, Stored, Holds, Typed
      <3> QED
        BY <2>5, <3>1, <3>2 DEF ReadDigit, Handed, SpillIsHarmless
    <2>7. CASE Remaining(reading) # 0
      <3>1. pc' = "body" /\ at' = n + 1 /\ incoming' = incoming /\ n + 1 < Size(reading)
        BY <1>2, <1>5, <2>1, <2>3, <2>7
      <3>2. Walk'
        BY <1>1, <1>2, <2>1, <2>2, <2>4, <2>7, <3>1 DEF Walk
      <3>3. Stored'
        BY <1>4, <3>1 DEF Stored, Holds
      <3> QED
        BY <2>5, <3>1, <3>2, <3>3 DEF ReadDigit, Handed, SpillIsHarmless
    <2> QED
      BY <2>6, <2>7
  <1> QED
    BY <1>6, <1>7

LEMMA BodyStep == ShortLengths /\ Inv /\ ReadBody => Inv'
  <1> SUFFICES ASSUME ShortLengths, Inv, ReadBody PROVE Inv'
    OBVIOUS
  <1> USE DEF Inv
  <1>1. /\ pc = "body" /\ reading' = reading /\ reading \in Packets
        /\ reading = Head(incoming) /\ incoming # <<>>
        /\ length = Remaining(reading) /\ length' = length
        /\ i \in Nat /\ i < length /\ i' = i + 1
        /\ at = 1 + Digits(reading) + i
    BY DEF ReadBody, Typed, Walk
  <1>2. /\ Remaining(reading) \in Nat /\ Digits(reading) \in {1, 2}
        /\ Size(reading) \in Nat /\ Size(reading) = 1 + Digits(reading) + Remaining(reading)
    BY <1>1, Sizes
  <1> PICK n \in Nat : n = at /\ n > 0 /\ n < Size(reading)
    BY <1>1, <1>2
  <1>3. Holds(n)
    BY <1>1 DEF Stored, Holds
  <1>4. Holds(n + 1)' /\ len' \in Nat /\ DOMAIN buffer' = 0..(Max - 1)
    BY <1>1, <1>3, ByteStored DEF ReadBody, Typed
  <1>5. /\ incoming' \in Seq(Packets)
        /\ n + 1 < Size(reading) => at' = n + 1 /\ incoming' = incoming
        /\ n + 1 = Size(reading) => at' = 0
    BY <1>1, ByteRead DEF ReadBody
  <1>6. pc' = IF i + 1 < length THEN "body" ELSE "dispatch"
    BY <1>1 DEF ReadBody, BodyGoesOn
  <1>7. Typed'
    BY <1>1, <1>4, <1>5, <1>6 DEF Typed
  <1>8. CASE i + 1 < length
    <2>1. pc' = "body" /\ at' = n + 1 /\ incoming' = incoming /\ n + 1 < Size(reading)
      BY <1>1, <1>2, <1>5, <1>6, <1>8
    <2>2. Walk' /\ Stored'
      BY <1>1, <1>2, <1>4, <1>8, <2>1, SMTT(30) DEF Walk, Stored, Holds
    <2> QED
      BY <1>7, <2>1, <2>2 DEF ReadBody, Handed, SpillIsHarmless
  <1>9. CASE ~(i + 1 < length)
    <2>1. pc' = "dispatch" /\ at' = 0 /\ n + 1 = Size(reading)
      BY <1>1, <1>2, <1>5, <1>6, <1>9
    <2>2. Walk' /\ Stored'
      BY <1>1, <1>4, <2>1, <1>7 DEF Walk, Stored, Holds, Typed
    <2> QED
      BY <1>7, <2>1, <2>2 DEF ReadBody, Handed, SpillIsHarmless
  <1> QED
    BY <1>8, <1>9

-------------------------------------------------------------------------------
(* What loop() and the callback do about a packet *)

(* A packet that fits is in the buffer as it is, and begins it; of one     *)
(* that does not, the end is.                                              *)
LEMMA BufferHolds ==
    ASSUME ShortLengths, Inv, pc = "dispatch"
    PROVE  /\ reading \in Packets /\ len \in 0..Max
           /\ Size(reading) \in Nat /\ len <= Size(reading)
           /\ \A k \in 0..(len - 1) : buffer[k] = Byte(reading, Size(reading) - len + k)
           /\ Fits(reading) => /\ len = Size(reading) /\ Digits(reading) = 1 /\ Begun
                               /\ Size(reading) = 2 + Remaining(reading)
           /\ Begun => Fits(reading)
  <1>1. reading \in Packets /\ len \in Nat
    BY DEF Inv, Typed
  <1>2. Holds(Size(reading))
    BY DEF Inv, Stored
  <1>3. /\ Size(reading) \in Nat /\ Size(reading) = 1 + Digits(reading) + Remaining(reading)
        /\ Remaining(reading) \in Nat /\ Digits(reading) \in {1, 2}
        /\ Fits(reading) => Digits(reading) = 1
    BY <1>1, Sizes
  <1>4. len <= Max /\ len <= Size(reading)
    BY <1>1, <1>2, <1>3, SMTT(30) DEF Holds
  <1>5. \A k \in 0..(len - 1) : buffer[k] = Byte(reading, Size(reading) - len + k)
    BY <1>2 DEF Holds
  <1>6. ASSUME Fits(reading)
        PROVE  /\ len = Size(reading) /\ Digits(reading) = 1 /\ Begun
               /\ Size(reading) = 2 + Remaining(reading)
    <2>1. len = Size(reading) /\ len > 0
      BY <1>2, <1>3, <1>6 DEF Holds, Fits
    <2>2. buffer[0] = Byte(reading, 0)
      BY <1>3, <1>5, <2>1
    <2> QED BY <1>3, <1>6, <2>1, <2>2 DEF Begun
  <1>7. ASSUME Begun PROVE Fits(reading)
    <2>1. Byte(reading, Size(reading) - len) = Byte(reading, 0)
      BY <1>1, <1>3, <1>5, <1>7 DEF Begun
    <2>2. Size(reading) - len = 0
      BY <2>1 DEF Byte
    <2> QED BY <1>1, <1>2, <1>3, <2>2 DEF Holds, Fits
  <1> QED BY <1>1, <1>3, <1>4, <1>5, <1>6, <1>7

LEMMA PublishSizes ==
    ASSUME NEW p \in Packets, p.kind = "PUBLISH"
    PROVE  /\ Remaining(p) = 2 + p.topic + p.payload
           /\ p.topic \in Nat /\ p.topic > 0 /\ p.payload \in Nat
           /\ LastTopic <= p.topic + 1 /\ LastTopic \in Nat
  BY DEF Remaining

(* The branches of loop() that do not call the callback. *)
LEMMA QuietSteps ==
    Inv /\ (IgnoresEmpty \/ Answers \/ Notes \/ DispatchesAstray) => Inv'
  <1> SUFFICES ASSUME Inv, IgnoresEmpty \/ Answers \/ Notes \/ DispatchesAstray
               PROVE  Inv'
    OBVIOUS
  <1>1. /\ pc = "dispatch" /\ pc' \in {"header", "astray"} /\ reading \in Packets
        /\ UNCHANGED <<incoming, at, local, reading, spill>>
    BY DEF IgnoresEmpty, Answers, Notes, DispatchesAstray, Finish, Inv, Typed
  <1>2. DOMAIN buffer' = 0..(Max - 1)
    BY DEF IgnoresEmpty, Answers, Notes, DispatchesAstray, Inv, Typed
  <1>3. Typed' /\ Walk'
    BY <1>1, <1>2 DEF Inv, Typed, Walk, local
  <1> QED
    BY <1>1, <1>3 DEF Inv, Stored, Handed, SpillIsHarmless

LEMMA DispatchesStep == ShortLengths /\ Inv /\ Dispatches => Inv'
  <1> SUFFICES ASSUME ShortLengths, Inv, Dispatches PROVE Inv'
    OBVIOUS
  <1>1. /\ pc = "dispatch" /\ pc' = "echo" /\ len > 0
        /\ UNCHANGED <<incoming, at, buffer, len, reading, spill>>
    BY DEF Dispatches, Shows, local
  <1>2. /\ reading \in Packets /\ len \in 0..Max
        /\ Size(reading) \in Nat /\ len <= Size(reading)
        /\ \A k \in 0..(len - 1) : buffer[k] = Byte(reading, Size(reading) - len + k)
    BY <1>1, BufferHolds
  <1>3. PICK tl \in TopicLengths :
          /\ InMemory(tl)
          /\ handed' = [topic |-> [k \in 1..tl |-> buffer[3 + k]],
                        payload |-> [k \in 1..PayloadLength(tl) |-> buffer[3 + tl + k]]]
    BY DEF Dispatches
  <1>4. ASSUME Fits(reading)
        PROVE  /\ reading.kind = "PUBLISH" /\ tl = reading.topic
               /\ len = 4 + reading.topic + reading.payload /\ len = Size(reading)
    <2>1. reading.kind = "PUBLISH"
      BY <1>1, <1>4, BufferHolds DEF Dispatches, Shows
    <2>2. /\ len = Size(reading) /\ Digits(reading) = 1
          /\ Size(reading) = 4 + reading.topic + reading.payload
          /\ reading.topic \in Nat /\ reading.payload \in Nat
      BY <1>1, <1>2, <1>4, <2>1, BufferHolds, PublishSizes
    <2>3. \A n \in {2, 3} : buffer[n] = Byte(reading, n + Digits(reading) - 1)
      <3>1. /\ 2 \in 0..(len - 1) /\ 3 \in 0..(len - 1)
            /\ Size(reading) - len + 2 = 2 /\ Size(reading) - len + 3 = 3
        BY <1>2, <2>1, <2>2, PublishSizes
      <3>2. buffer[2] = Byte(reading, 2) /\ buffer[3] = Byte(reading, 3)
        BY <1>2, <3>1
      <3> QED BY <2>2, <3>2
    <2>4. tl = reading.topic
      BY <2>3 DEF TopicLengths
    <2> QED BY <2>1, <2>2, <2>4
  <1>5. tl \in Nat
    <2>1. reading.kind = "PUBLISH" => reading.topic \in Nat
      BY <1>2, PublishSizes
    <2>2. reading.topic \in Nat
      BY <1>2
    <2>3. LengthMod \in Nat
      OBVIOUS
    <2> QED BY <2>2, <2>3 DEF TopicLengths
  <1> DEFINE pl == len - 4 - tl
             s == Size(reading) - len + 4
  <1>6. tl + 4 <= len /\ PayloadLength(tl) = pl
    <2>1. len \in 1..Max
      BY <1>1, <1>2
    <2> QED BY <1>3, <1>5, <2>1, LengthsInBuffer
  <1>7. pl \in Nat /\ s \in Nat /\ s + tl + pl = Size(reading)
    BY <1>2, <1>5, <1>6
  <1>8. [k \in 1..tl |-> buffer[3 + k]] = Slice(reading, s, tl)
    <2>1. \A k \in 1..tl : buffer[3 + k] = Byte(reading, s + k - 1)
      <3> SUFFICES ASSUME NEW k \in 1..tl PROVE buffer[3 + k] = Byte(reading, s + k - 1)
        OBVIOUS
      <3>1. 3 + k \in 0..(len - 1) /\ Size(reading) - len + (3 + k) = s + k - 1
        BY <1>2, <1>5, <1>6
      <3> QED BY <1>2, <3>1
    <2> HIDE DEF s
    <2> QED BY <2>1 DEF Slice
  <1>9. [k \in 1..pl |-> buffer[3 + tl + k]] = Slice(reading, s + tl, pl)
    <2>1. \A k \in 1..pl : buffer[3 + tl + k] = Byte(reading, s + tl + k - 1)
      <3> SUFFICES ASSUME NEW k \in 1..pl
                   PROVE buffer[3 + tl + k] = Byte(reading, s + tl + k - 1)
        OBVIOUS
      <3>1. /\ 3 + tl + k \in 0..(len - 1)
            /\ Size(reading) - len + (3 + tl + k) = s + tl + k - 1
        BY <1>2, <1>5, <1>6
      <3> QED BY <1>2, <3>1
    <2> HIDE DEF s, pl
    <2> QED BY <2>1 DEF Slice
  <1>10. handed' = [topic |-> Slice(reading, s, tl), payload |-> Slice(reading, s + tl, pl)]
    BY <1>3, <1>6, <1>8, <1>9
  <1>11. Fits(reading) =>
           reading.kind = "PUBLISH" /\ s = 4 /\ tl = reading.topic /\ pl = reading.payload
    <2> SUFFICES ASSUME Fits(reading)
                 PROVE reading.kind = "PUBLISH" /\ s = 4 /\ tl = reading.topic /\ pl = reading.payload
      OBVIOUS
    <2>1. reading.payload \in Nat
      BY <1>2
    <2> QED BY <1>2, <1>4, <1>5, <2>1
  <1>12. Handed'
    <2> HIDE DEF s, pl
    <2>1. reading' = reading
      BY <1>1
    <2>2. Size(reading)' = Size(reading) /\ Fits(reading)' = Fits(reading)
          /\ \A a, b : Slice(reading, a, b)' = Slice(reading, a, b)
      BY <2>1
    <2> QED BY <1>1, <1>5, <1>7, <1>10, <1>11 DEF Handed
  <1>13. Typed' /\ Walk' /\ Stored' /\ SpillIsHarmless'
    BY <1>1, <1>2 DEF Inv, Typed, Walk, Stored, SpillIsHarmless
  <1> QED BY <1>12, <1>13 DEF Inv

LEMMA EchoesStep == ShortLengths /\ Inv /\ Echoes => Inv'
  <1> SUFFICES ASSUME ShortLengths, Inv, Echoes PROVE Inv'
    OBVIOUS
  <1>1. /\ pc = "echo" /\ pc' \in {"header", "astray"} /\ at' = 0
        /\ UNCHANGED <<incoming, len, reading>>
        /\ reading \in Packets
        /\ DOMAIN buffer' = 0..(Max - 1)
    BY DEF Echoes, Inv, Typed, Walk, local
  <1>2. SpillIsHarmless'
    <2> SUFFICES ASSUME Fits(reading) PROVE spill' <= SetAnew
      BY <1>1 DEF SpillIsHarmless
    <2>1. reading.kind = "PUBLISH" /\ handed.payload = Slice(reading, 4 + reading.topic, reading.payload)
      BY <1>1 DEF Inv, Handed
    <2>2. /\ LastTopic <= reading.topic + 1 /\ reading.payload \in Nat /\ reading.topic \in Nat
          /\ Size(reading) = 4 + reading.topic + reading.payload
      BY <1>1, <2>1, Sizes, PublishSizes
    <2>3. Len(handed.payload) = reading.payload
      BY <2>1, <2>2 DEF Slice
    <2> DEFINE end == 7 + LastTopic + reading.payload
    <2>4. end \in Nat /\ end - Max <= 6
      BY <2>2 DEF Fits
    <2>5. spill' = IF end > Max THEN end - Max ELSE 0
      BY <2>3 DEF Echoes
    <2> HIDE DEF end
    <2> QED BY <2>4, <2>5 DEF SetAnew
  <1>3. Typed' /\ Walk' /\ Stored' /\ Handed'
    BY <1>1 DEF Inv, Typed, Walk, Stored, Handed
  <1> QED
    BY <1>2, <1>3 DEF Inv

(* After a reset everything is as at the start. *)
LEMMA ResetsStep == Resets => Inv'
  <1> SUFFICES ASSUME Resets PROVE Inv'
    OBVIOUS
  <1>1. Typed'
    BY EmptySeq DEF Resets, Typed
  <1> QED
    BY <1>1 DEF Resets, Inv, Walk, Stored, Handed, SpillIsHarmless, SetAnew

(* A packet that arrives is put behind those on their way. *)
LEMMA ArrivesStep == ASSUME NEW p \in Packets PROVE Inv /\ Arrives(p) => Inv'
  <1> SUFFICES ASSUME Inv, Arrives(p) PROVE Inv'
    OBVIOUS
  <1>1. incoming \in Seq(Packets) /\ incoming' = Append(incoming, p)
    BY DEF Inv, Typed, Arrives
  <1>2. incoming' \in Seq(Packets) /\ incoming' # <<>>
    BY <1>1, AppendProperties
  <1>3. incoming # <<>> => Head(incoming') = Head(incoming)
    BY <1>1, AppendProperties, LenProperties, EmptySeq
  <1> QED
    BY <1>2, <1>3 DEF Inv, Typed, Walk, Stored, Holds, Handed, SpillIsHarmless, Arrives, local

LEMMA NextInv == ShortLengths /\ Inv /\ [Next]_vars => Inv'
  <1> SUFFICES ASSUME ShortLengths, Inv, [Next]_vars PROVE Inv'
    OBVIOUS
  <1>1. CASE UNCHANGED vars
    BY <1>1 DEF Inv, Typed, Walk, Stored, Holds, Handed, SpillIsHarmless, vars, local
  <1>2. CASE ReadHeader
    BY <1>2, HeaderStep
  <1>3. CASE ReadDigit
    BY <1>3, DigitStep
  <1>4. CASE ReadBody
    BY <1>4, BodyStep
  <1>5. CASE IgnoresEmpty \/ Answers \/ Notes \/ DispatchesAstray
    BY <1>5, QuietSteps
  <1>6. CASE Dispatches
    BY <1>6, DispatchesStep
  <1>7. CASE Echoes
    BY <1>7, EchoesStep
  <1>8. CASE \E p \in Packets : Arrives(p)
    BY <1>8, ArrivesStep
  <1>9. CASE Resets
    BY <1>9, ResetsStep
  <1> QED
    BY <1>1, <1>2, <1>3, <1>4, <1>5, <1>6, <1>7, <1>8, <1>9 DEF Next, Client

LEMMA InvHolds == ASSUME ShortLengths PROVE Spec => []Inv
  BY InitInv, NextInv, PTL DEF Spec

-------------------------------------------------------------------------------
(* The client never loses step: readPacket() reads every packet to its     *)
(* end, whatever does not fit the buffer.                                  *)
THEOREM KeepsStep == ASSUME ShortLengths PROVE Spec => []InStep
  <1>1. Inv => InStep
    BY DEF Inv, Walk, InStep
  <1> QED
    BY <1>1, InvHolds, PTL

(* The callback is given exactly the topic and the payload of a message    *)
(* that fits, whatever was received before it, and of one that is too long *)
(* bytes of no other; and every packet that fits is dispatched as what it  *)
(* is.                                                                     *)
THEOREM Whole == ASSUME ShortLengths PROVE Spec => [](HandedWhole /\ FittingNotIgnored)
  <1>1. Inv => HandedWhole
    <2> SUFFICES ASSUME Inv PROVE FittingWhole /\ NeverMixed
      BY DEF HandedWhole
    <2>1. ASSUME pc = "echo", Fits(reading) PROVE FittingWhole
      <3>1. reading \in Packets
        BY <2>1 DEF Inv, Typed
      <3>2. Digits(reading) = 1
        BY <2>1, <3>1, Sizes
      <3> QED
        BY <2>1, <3>2 DEF FittingWhole, Inv, Handed
    <2>2. NeverMixed
      BY HandedNotMixed DEF Inv
    <2> QED
      BY <2>1, <2>2 DEF FittingWhole
  <1>2. Inv => FittingNotIgnored
    <2> SUFFICES ASSUME Inv, pc = "dispatch", Fits(reading)
                 PROVE  Begun /\ len = Size(reading)
      BY DEF FittingNotIgnored
    <2> QED
      BY BufferHolds
  <1> QED
    BY <1>1, <1>2, InvHolds, PTL

(* No packet that fits into the buffer is ignored by loop().                *)
THEOREM NothingFittingIgnored == ASSUME ShortLengths PROVE Spec => []FittingNotIgnored
  BY Whole, PTL

(* The echo of a message that fits overruns the buffer by no more than     *)
(* nextMsgId and lastOutActivity.                                          *)
THEOREM OverrunBounded == ASSUME ShortLengths PROVE Spec => []SpillIsHarmless
  <1>1. Inv => SpillIsHarmless
    BY DEF Inv
  <1> QED
    BY <1>1, InvHolds, PTL

-------------------------------------------------------------------------------
(* The keep-alive of loop() *)

USE KAssumption, LimitAssumption

LEMMA InitHonest == KeepAliveInit => KeepAliveTypeOK /\ StampsHonest
  <1> SUFFICES ASSUME KeepAliveInit PROVE KeepAliveTypeOK /\ StampsHonest
    OBVIOUS
  <1>1. pingOutstanding \in BOOLEAN
    BY DEF KeepAliveInit
  <1>2. 0 \in Ages /\ Never \in {Never}
    BY DEF Ages
  <1>3. KeepAliveTypeOK
    BY <1>1, <1>2, EmptySeq DEF KeepAliveInit, KeepAliveTypeOK
  <1>4. StampsHonest
    BY DEF KeepAliveInit, StampsHonest
  <1> QED
    BY <1>3, <1>4

(* A packet that arrives joins a sequence of packets. *)
LEMMA DeliversType ==
    ASSUME KeepAliveTypeOK, NEW kind \in PacketKinds, Delivers(kind)
    PROVE  rx' \in Seq(Parts) /\ rx' # <<>>
  <1>1. PICK whole \in BOOLEAN : rx' = Append(rx, [kind |-> kind, whole |-> whole])
    BY DEF Delivers
  <1>2. [kind |-> kind, whole |-> whole] \in Parts
    BY DEF Parts
  <1> QED
    BY <1>1, <1>2, AppendProperties, EmptySeq DEF KeepAliveTypeOK

(* Ages grow together and stay in order. *)
LEMMA OlderOrder ==
    ASSUME NEW a \in Ages, NEW b \in Ages, NEW c \in Nat
    PROVE  /\ Older(a) \in Ages
           /\ a <= b => Older(a) <= Older(b)
           /\ a <= b + c => Older(a) <= Older(b) + c
           /\ a <= K => Older(a) <= K + 1
  BY DEF Older, Ages

LEMMA KeepAliveNextType == KeepAliveTypeOK /\ StampsHonest /\ [KeepAliveNext]_keepAliveVars => KeepAliveTypeOK'
  <1> SUFFICES ASSUME KeepAliveTypeOK, StampsHonest, [KeepAliveNext]_keepAliveVars PROVE KeepAliveTypeOK'
    OBVIOUS
  <1> USE DEF stamps, facts, Ages, Never
  <1>1. CASE Opens
    BY <1>1 DEF Opens, KeepAliveTypeOK
  <1>2. CASE ConnackLate \/ FindsLost \/ GivesUp
    <2>1. Stop /\ phase' = "down" /\ UNCHANGED <<stamps, facts>>
      BY <1>2 DEF ConnackLate, FindsLost, GivesUp
    <2> QED
      BY <2>1, EmptySeq DEF Stop, KeepAliveTypeOK
  <1>3. CASE ReadsConnack
    <2>1. Tail(rx) \in Seq(Parts)
      BY <1>3, HeadTailProperties DEF ReadsConnack, KeepAliveTypeOK
    <2>2. pingOutstanding' \in BOOLEAN
      BY <1>3 DEF ReadsConnack, KeepAliveTypeOK
    <2>3. /\ rx' \in Seq(Parts) /\ phase' \in {"down", "loop"}
          /\ link' \in {"none", link} /\ owed' \in {{}, owed}
          /\ lastIn' \in {0, lastIn} /\ lastOut' \in {0, lastOut}
          /\ quiet' \in {0, quiet} /\ silent' \in {0, silent}
          /\ UNCHANGED <<t, asked>>
      BY <1>3, <2>1, EmptySeq DEF ReadsConnack, Stop
    <2>4. /\ phase' \in {"down", "connack", "loop", "read"}
          /\ link' \in {"none", "opening", "up", "dead", "closed"}
          /\ owed' \subseteq {"CONNACK", "PINGRESP"}
      BY <2>3 DEF KeepAliveTypeOK
    <2>5. /\ lastIn' \in Ages /\ lastOut' \in Ages /\ t' \in Ages
          /\ quiet' \in Ages /\ silent' \in Ages
          /\ asked' \in Ages \cup {Never}
      BY <2>3 DEF KeepAliveTypeOK
    <2> QED
      BY <2>2, <2>3, <2>4, <2>5 DEF KeepAliveTypeOK
  <1>4. CASE Pings
    BY <1>4 DEF Pings, Owe, KeepAliveTypeOK
  <1>5. CASE Starts
    BY <1>5 DEF Starts, KeepAliveTypeOK
  <1>6. CASE Reads
    <2>1. Tail(rx) \in Seq(Parts)
      BY <1>6, HeadTailProperties DEF Reads, KeepAliveTypeOK, StampsHonest
    <2>2. pingOutstanding' \in BOOLEAN
      BY <1>6 DEF Reads, KeepAliveTypeOK
    <2>3. /\ rx' \in Seq(Parts) /\ phase' = "loop"
          /\ link' \in {"none", link} /\ owed' \in {{}, owed}
          /\ lastIn' \in {t, lastIn} /\ lastOut' \in {0, lastOut}
          /\ quiet' \in {0, quiet} /\ silent' = 0
          /\ asked' \in {Never, asked} /\ UNCHANGED t
      BY <1>6, <2>1 DEF Reads
    <2>4. /\ phase' \in {"down", "connack", "loop", "read"}
          /\ link' \in {"none", "opening", "up", "dead", "closed"}
          /\ owed' \subseteq {"CONNACK", "PINGRESP"}
      BY <2>3 DEF KeepAliveTypeOK
    <2>5. /\ lastIn' \in Ages /\ lastOut' \in Ages /\ t' \in Ages
          /\ quiet' \in Ages /\ silent' \in Ages
          /\ asked' \in Ages \cup {Never}
      BY <2>3 DEF KeepAliveTypeOK
    <2> QED
      BY <2>2, <2>3, <2>4, <2>5 DEF KeepAliveTypeOK
  <1>7. CASE BrokerAnswersConnect
    <2>1. rx' \in Seq(Parts)
      BY <1>7, DeliversType DEF BrokerAnswersConnect, PacketKinds
    <2> QED
      BY <1>7, <2>1 DEF BrokerAnswersConnect, KeepAliveTypeOK
  <1>8. CASE BrokerAnswersPing
    <2>1. rx' \in Seq(Parts)
      BY <1>8, DeliversType DEF BrokerAnswersPing, PacketKinds
    <2> QED
      BY <1>8, <2>1 DEF BrokerAnswersPing, KeepAliveTypeOK
  <1>9. CASE BrokerSends
    <2>1. rx' \in Seq(Parts)
      BY <1>9, DeliversType DEF BrokerSends, PacketKinds
    <2> QED
      BY <1>9, <2>1 DEF BrokerSends, KeepAliveTypeOK
  <1>10. CASE RestArrives
    <2>1. Len(rx) \in 1..Len(rx) /\ rx[Len(rx)] \in Parts
      BY <1>10, EmptySeq, ElementOfSeq, SMTT(30) DEF RestArrives, KeepAliveTypeOK
    <2>2. [rx[Len(rx)] EXCEPT !.whole = TRUE] \in Parts
      BY <2>1 DEF Parts
    <2>3. rx' \in Seq(Parts)
      BY <1>10, <2>1, <2>2, ExceptSeq DEF RestArrives, KeepAliveTypeOK
    <2> QED
      BY <1>10, <2>3 DEF RestArrives, KeepAliveTypeOK
  <1>11. CASE Dies \/ BrokerCloses
    BY <1>11 DEF Dies, BrokerCloses, KeepAliveTypeOK
  <1>12. CASE Tick
    BY <1>12 DEF Tick, Older, KeepAliveTypeOK
  <1>13. CASE UNCHANGED keepAliveVars
    BY <1>13 DEF keepAliveVars, KeepAliveTypeOK
  <1> QED
    BY <1>1, <1>2, <1>3, <1>4, <1>5, <1>6, <1>7, <1>8, <1>9, <1>10, <1>11, <1>12, <1>13
       DEF KeepAliveNext, ClientStep

LEMMA NextHonest == KeepAliveTypeOK /\ StampsHonest /\ [KeepAliveNext]_keepAliveVars => StampsHonest'
  <1> SUFFICES ASSUME KeepAliveTypeOK, StampsHonest, [KeepAliveNext]_keepAliveVars PROVE StampsHonest'
    OBVIOUS
  <1> USE DEF stamps, facts
  <1>1. CASE Opens
    BY <1>1 DEF Opens, StampsHonest
  <1>2. CASE ConnackLate \/ FindsLost \/ GivesUp
    BY <1>2 DEF ConnackLate, FindsLost, GivesUp, Stop, StampsHonest
  <1>3. CASE ReadsConnack
    BY <1>3 DEF ReadsConnack, Stop, StampsHonest, KeepAliveTypeOK, Ages
  <1>4. CASE Pings
    <2>1. silent <= K + 1
      BY <1>4 DEF Pings, StampsHonest, KeepAliveTypeOK, Ages
    <2> QED
      BY <1>4, <2>1 DEF Pings, StampsHonest, KeepAliveTypeOK, Ages
  <1>5. CASE Starts
    BY <1>5 DEF Starts, StampsHonest, KeepAliveTypeOK, Ages
  <1>6. CASE Reads
    <2>1. PICK kind \in TakenFor(Head(rx).kind) :
            /\ lastIn' = IF kind = "nothing" THEN lastIn ELSE t
            /\ pingOutstanding' = IF kind = "PINGRESP" THEN FALSE ELSE pingOutstanding
            /\ \/ lastOut' = 0 /\ quiet' = 0
               \/ lastOut' = lastOut /\ quiet' \in {0, quiet}
      BY <1>6 DEF Reads
    <2>2. /\ phase = "read" /\ phase' = "loop" /\ t' = t /\ silent' = 0
          /\ asked' = IF Head(rx).kind = "PINGRESP" THEN Never ELSE asked
      BY <1>6 DEF Reads
    <2>3. quiet' <= lastOut'
      BY <2>1 DEF StampsHonest, KeepAliveTypeOK, Ages
    <2>4. silent' <= lastIn' /\ silent' <= lastIn' + K + 1
      BY <2>1, <2>2 DEF KeepAliveTypeOK, Ages
    <2>5. ASSUME pingOutstanding'
          PROVE  pingOutstanding /\ asked' = asked
      BY <2>1, <2>2, <2>5 DEF TakenFor
    <2>6. ASSUME pingOutstanding'
          PROVE  asked' \in Ages /\ lastIn' <= asked' /\ lastOut' <= asked'
      <3>1. pingOutstanding /\ asked' = asked /\ phase = "read"
        BY <2>2, <2>5, <2>6
      <3>2. asked \in Ages /\ lastIn <= asked /\ lastOut <= asked /\ t <= asked /\ 0 <= asked
        BY <3>1 DEF StampsHonest, Ages
      <3>3. lastIn' \in {t, lastIn} /\ lastOut' \in {0, lastOut}
        BY <2>1
      <3> QED BY <3>1, <3>2, <3>3
    <2> QED
      BY <2>2, <2>3, <2>4, <2>6 DEF StampsHonest
  <1>7. CASE BrokerAnswersConnect \/ BrokerAnswersPing \/ BrokerSends
    <2>1. rx' # <<>>
      BY <1>7, DeliversType DEF BrokerAnswersConnect, BrokerAnswersPing, BrokerSends, PacketKinds
    <2>2. link = "none" => link' = "none"
      BY <1>7 DEF BrokerAnswersConnect, BrokerAnswersPing, BrokerSends
    <2>3. UNCHANGED <<phase, stamps, facts>>
      BY <1>7 DEF BrokerAnswersConnect, BrokerAnswersPing, BrokerSends
    <2> QED
      BY <2>1, <2>2, <2>3 DEF StampsHonest
  <1>8. CASE RestArrives
    <2>1. rx' # <<>>
      <3>1. DOMAIN rx' = DOMAIN rx /\ DOMAIN rx # {}
        BY <1>8, EmptySeq, LenProperties DEF RestArrives, KeepAliveTypeOK
      <3> QED
        BY <3>1
    <2> QED
      BY <1>8, <2>1 DEF RestArrives, StampsHonest
  <1>9. CASE Dies \/ BrokerCloses
    BY <1>9 DEF Dies, BrokerCloses, Working, StampsHonest
  <1>10. CASE Tick
    <2>1. phase = "loop" => lastIn <= K
      BY <1>10 DEF Tick, Waiting, Expired, KeepAliveTypeOK, Ages
    <2>2. /\ quiet' <= lastOut'
          /\ silent <= lastIn => silent' <= lastIn'
          /\ silent <= lastIn + K + 1 => silent' <= lastIn' + K + 1
          /\ lastIn <= K => lastIn' <= K + 1
      BY <1>10 DEF Tick, Older, StampsHonest, KeepAliveTypeOK, Ages
    <2>3. asked \in Ages =>
             /\ asked' \in Ages
             /\ lastIn <= asked => lastIn' <= asked'
             /\ lastOut <= asked => lastOut' <= asked'
             /\ t <= asked => t' <= asked'
      BY <1>10 DEF Tick, Older, KeepAliveTypeOK, Ages
    <2>4. UNCHANGED <<phase, link, rx, pingOutstanding>>
      BY <1>10 DEF Tick
    <2> QED
      BY <2>1, <2>2, <2>3, <2>4 DEF StampsHonest
  <1>11. CASE UNCHANGED keepAliveVars
    BY <1>11 DEF keepAliveVars, StampsHonest
  <1> QED
    BY <1>1, <1>2, <1>3, <1>4, <1>5, <1>6, <1>7, <1>8, <1>9, <1>10, <1>11 DEF KeepAliveNext, ClientStep

(* The stamps are honest in every reachable state. *)
THEOREM Honest == KeepAliveSpec => [](KeepAliveTypeOK /\ StampsHonest)
  <1>1. KeepAliveTypeOK /\ StampsHonest /\ [KeepAliveNext]_keepAliveVars => (KeepAliveTypeOK /\ StampsHonest)'
    BY KeepAliveNextType, NextHonest
  <1> QED
    BY InitHonest, <1>1, PTL DEF KeepAliveSpec

(* The client keeps the promise of its CONNECT packet: it is never quiet   *)
(* in loop() for longer than the interval and the tick in which it writes. *)
THEOREM PromiseKept == KeepAliveSpec => KeepsPromise
  <1>1. KeepAliveTypeOK /\ StampsHonest /\ Tick /\ phase = "loop" => quiet <= K
    BY DEF Tick, Waiting, Expired, StampsHonest, KeepAliveTypeOK, Ages
  <1>2. KeepAliveTypeOK /\ StampsHonest => (Tick /\ phase = "loop" => quiet <= K)
    BY <1>1
  <1> QED
    BY <1>2, Honest, PTL DEF KeepsPromise

(* A silent peer is given up within two intervals. *)
THEOREM SilenceNoticed == KeepAliveSpec => NoticesSilence
  <1>1. KeepAliveTypeOK /\ StampsHonest => (Tick /\ phase = "loop" => silent <= 2 * K + 1)
    BY DEF Tick, Waiting, Expired, StampsHonest, KeepAliveTypeOK, Ages
  <1> QED
    BY <1>1, Honest, PTL DEF NoticesSilence

(* No connection is given up without an unanswered ping of its own. *)
THEOREM OnlyUnansweredGivenUp == KeepAliveSpec => GivesUpOnlyUnanswered
  <1>1. KeepAliveTypeOK /\ StampsHonest /\ [KeepAliveNext]_keepAliveVars =>
          (phase = "loop" /\ phase' = "down" /\ link \in {"up", "dead"} => asked \in Ages /\ asked > K)
    <2> SUFFICES ASSUME KeepAliveTypeOK, StampsHonest, [KeepAliveNext]_keepAliveVars,
                        phase = "loop", phase' = "down", link \in {"up", "dead"}
                 PROVE  asked \in Ages /\ asked > K
      OBVIOUS
    <2>1. FindsLost \/ GivesUp
      BY DEF KeepAliveNext, ClientStep, Opens, ConnackLate, ReadsConnack, Pings, Starts, Reads,
             BrokerAnswersConnect, BrokerAnswersPing, BrokerSends, RestArrives, Dies,
             BrokerCloses, Tick, keepAliveVars
    <2>2. GivesUp
      BY <2>1 DEF FindsLost, Connected
    <2> QED
      BY <2>2 DEF GivesUp, Expired, StampsHonest, KeepAliveTypeOK, Ages
  <1> QED
    BY <1>1, Honest, PTL DEF KeepAliveSpec, GivesUpOnlyUnanswered
===============================================================================
