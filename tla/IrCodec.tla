------------------------------- MODULE IrCodec --------------------------------
(***************************************************************************)
(* From a value to the widths of marks and spaces and back: handle_ir()    *)
(* of the sketch MQTT_IR_RC_6, the send functions of IRremote, and the     *)
(* decoders in the order in which decode() tries them.                     *)
(*                                                                         *)
(* Widths are in microseconds on the line and in ticks of 50 us in the     *)
(* receiver.  Odd entries of a sequence of widths are marks, even ones     *)
(* spaces.  Between the two lies the detector, which makes marks longer    *)
(* and spaces shorter by the same amount all through a transmission, and   *)
(* the interrupt, which samples and so rounds each width up or down.       *)
(*                                                                         *)
(* A 32-bit value is the sequence of its bits, the highest first.  The     *)
(* hash of decodeHash() is the sequence of comparisons it is computed from.*)
(***************************************************************************)
EXTENDS Naturals, Sequences, SequencesExt

CONSTANTS
    Keys,        \* what is sent: [protocol, bits, word, repeat], as in handle_ir
    Excess,      \* by how much a mark may be too long, in us
    RoundedUp,   \* the sets of entries that may be rounded up
    Junk         \* what the buffer, and memory behind it, may hold beyond a frame

Word == [1..32 -> {0, 1}]
MaxBits == 48                         \* more are sent as zeros or not at all
KeySpace == [protocol : 1..11, bits : 1..MaxBits, word : Word, repeat : BOOLEAN]
ShiftsUp == {2, 3, 4, 8}              \* where the value is first shifted by 32 - bits
Indices == 1..99                      \* the entries a decoder may look at

ASSUME CodecAssumption ==
    /\ Keys \subseteq {k \in KeySpace : k.protocol \in ShiftsUp => k.bits <= 32}
    /\ Excess \subseteq 0..180
    /\ RoundedUp \subseteq SUBSET Nat
    /\ Junk \subseteq [Indices -> Nat]

VARIABLES
    key,         \* the parameters of handle_ir()
    line,        \* the widths the transmitter was switched with
    frame,       \* the place in line at which the frame in raw begins, or 0
    raw,         \* rawbuf[1..rawlen - 1]
    heard        \* the results of decode() since key was chosen, by frame

vars == <<key, line, frame, raw, heard>>

RAWBUF == 76
GAP_TICKS == 100
MARK_EXCESS == 100

(* The protocols in which each bit is one mark and one space.              *)
Pulse(header, gap, mark0, mark1, space0, space1, stop) ==
    [header |-> header, gap |-> gap, mark |-> <<mark0, mark1>>,
     space |-> <<space0, space1>>, stop |-> stop]
NEC       == Pulse(9000, 4500,  560,  560,  560, 1600, TRUE)
SONY      == Pulse(2400,  600,  600, 1200,  600,  600, FALSE)
SAMSUNG   == Pulse(4500, 4500,  560,  560,  600, 1600, TRUE)
JVC       == Pulse(8000, 4000,  600,  600,  550, 1600, TRUE)
DISH      == Pulse( 400, 6100,  400,  400, 2800, 1700, FALSE)
SHARP     == Pulse(   0,    0,  245,  245,  795, 1805, TRUE)
PANASONIC == Pulse(3502, 1750,  502,  502,  370, 1244, TRUE)
NEC_RPT_SPACE == 2250
RC5_T1 == 889
RC6_T1 == 444
RC6_HDR_MARK == 2666
RC6_HDR_SPACE == 889

(* The entries of a line or a buffer are in turn a mark and a space.       *)
IsMark(i) == i % 2 = 1

-------------------------------------------------------------------------------
(* Sending. *)

(* The bits of a value that are shifted out: count of them, behind the     *)
(* first `skipped`; behind the last bit come zeros.                        *)
Shifted(word, skipped, count) ==
    [j \in 1..count |-> IF skipped + j <= 32 THEN word[skipped + j] ELSE 0]
Lowest(word, count) == Shifted(word, 32 - count, count)

(* The marks and spaces of some bits, with or without the stop mark.  A    *)
(* space at the end belongs to the gap that follows.                       *)
Body(P, bits) ==
    [i \in 1..(IF P.stop THEN 2 * Len(bits) + 1 ELSE 2 * Len(bits) - 1) |->
        IF ~IsMark(i) THEN P.space[bits[i \div 2] + 1]
        ELSE IF (i + 1) \div 2 <= Len(bits) THEN P.mark[bits[(i + 1) \div 2] + 1]
        ELSE P.mark[1]]

WithHeader(P, bits) == <<P.header, P.gap>> \o Body(P, bits)

(* Sharp: once as it is, and after 46 ms with the lower ten bits inverted. *)
SHARP_TOGGLE(word) == [i \in 1..32 |-> IF i > 22 THEN 1 - word[i] ELSE word[i]]
Twice(word, count) ==
    Body(SHARP, Shifted(word, 17, count)) \o <<SHARP.space[1] + 46000>>
        \o Body(SHARP, Shifted(SHARP_TOGGLE(word), 17, count))

(* The two phase protocols: levels of equal length, TRUE for a mark,       *)
(* joined to widths where one follows its like.                            *)
Joined(levels) ==
    LET joined[n \in 0..Len(levels)] ==
            IF n = 0 THEN <<>>
            ELSE LET units == joined[n - 1]
                 IN IF IsMark(Len(units)) = levels[n]
                    THEN [units EXCEPT ![Len(units)] = @ + 1]
                    ELSE Append(units, 1)
    IN joined[Len(levels)]

Widths(levels, t1) ==
    LET units == Joined(levels)
    IN [i \in 1..(IF IsMark(Len(units)) THEN Len(units) ELSE Len(units) - 1) |-> units[i] * t1]

LevelsRC5(bits) ==
    <<TRUE, FALSE, TRUE>> \o FlattenSeq([j \in DOMAIN bits |->
        <<bits[j] = 0, bits[j] = 1>>])
LevelsRC6(bits) ==            \* the fourth bit is twice as wide
    <<TRUE, FALSE>> \o FlattenSeq([j \in DOMAIN bits |->
        IF j = 4 THEN <<bits[j] = 1, bits[j] = 1, bits[j] = 0, bits[j] = 0>>
        ELSE <<bits[j] = 1, bits[j] = 0>>])

(* The cases of handle_ir(); from 9 on nothing is sent.                    *)
Sent(k) ==
    LET low == Lowest(k.word, k.bits)
        top == Shifted(k.word, 0, k.bits)
    IN CASE k.protocol = 1 -> WithHeader(NEC, top)
         [] k.protocol = 2 -> WithHeader(SONY, low)
         [] k.protocol = 3 -> Widths(LevelsRC5(low), RC5_T1)
         [] k.protocol = 4 -> <<RC6_HDR_MARK, RC6_HDR_SPACE>> \o Widths(LevelsRC6(low), RC6_T1)
         [] k.protocol = 5 -> WithHeader(DISH, Shifted(k.word, 16, k.bits))
         [] k.protocol = 6 -> Twice(k.word, k.bits)
         [] k.protocol = 7 -> WithHeader(SAMSUNG, top)
         [] k.protocol = 8 -> IF k.repeat THEN Body(JVC, low) ELSE WithHeader(JVC, low)
         [] OTHER -> <<>>

HandleIr(k) ==
    /\ frame = 0
    /\ key' = k
    /\ line' = Sent(k)
    /\ heard' = {}
    /\ UNCHANGED <<frame, raw>>

-------------------------------------------------------------------------------
(* Receiving. *)

Seen(widths, excess, up) ==
    [i \in DOMAIN widths |->
        LET us == IF IsMark(i) THEN widths[i] + excess ELSE widths[i] - excess
        IN IF i \in up THEN (us + 49) \div 50 ELSE us \div 50]

(* A space is taken for the gap by a sample of it after GAP_TICKS; the      *)
(* mark that ends a space of one tick more is recorded before that.        *)
IsGap(ticks, i) == i \in DOMAIN ticks /\ ~IsMark(i) /\ ticks[i] > GAP_TICKS + 1

(* A frame is what lies between two gaps, up to the size of the buffer.    *)
IsFrame(ticks, first, last) ==
    /\ first = 1 \/ IsGap(ticks, first - 1)
    /\ last = Len(ticks) \/ IsGap(ticks, last + 1)
    /\ \A i \in first..last : ~IsGap(ticks, i)

Recorded(ticks, first, last) ==
    [i \in 1..(IF last - first + 1 < RAWBUF - 1 THEN last - first + 1 ELSE RAWBUF - 1) |->
        ticks[first + i - 1]]

(* Any frame of what is sent is received, or received again when the key   *)
(* is pressed again; others are missed.                                    *)
Receives ==
    /\ frame = 0
    /\ \E excess \in Excess, up \in RoundedUp :
          LET ticks == Seen(line, excess, up)
          IN \E first \in DOMAIN line : \E last \in first..Len(line) :
                /\ IsFrame(ticks, first, last)
                /\ frame' = first
                /\ raw' = Recorded(ticks, first, last)
    /\ UNCHANGED <<key, line, heard>>

-------------------------------------------------------------------------------
(* Decoding.  A decoder returns the set of its one result, or {} for ERR.  *)
(* `at` is the buffer as far as it is read, `rawlen` one more than the     *)
(* entries of the frame, as in the code.                                   *)

Result(type, value) == [type |-> type, value |-> value]
REPEAT == <<"repeat">>
Succeeds(condition, result) == IF condition THEN {result} ELSE {}

(* TICKS_LOW and TICKS_HIGH: a quarter less, a quarter more and a tick.    *)
MATCH(ticks, us) == (us * 3) \div 200 <= ticks /\ ticks <= us \div 40 + 1
MATCH_MARK(ticks, us) == MATCH(ticks, us + MARK_EXCESS)
MATCH_SPACE(ticks, us) == MATCH(ticks, us - MARK_EXCESS)

(* Bits from entry `from` on, told apart by their spaces.                  *)
ReadsBits(P, at, from, count) == \A j \in 1..count :
    /\ MATCH_MARK(at[from + 2 * j - 2], P.mark[1])
    /\ \/ MATCH_SPACE(at[from + 2 * j - 1], P.space[2])
       \/ MATCH_SPACE(at[from + 2 * j - 1], P.space[1])
BitsRead(P, at, from, count) ==
    [j \in 1..count |-> IF MATCH_SPACE(at[from + 2 * j - 1], P.space[2]) THEN 1 ELSE 0]

DecodeNEC(at, rawlen) ==
    IF rawlen = 4 /\ MATCH_SPACE(at[2], NEC_RPT_SPACE) /\ MATCH_MARK(at[3], NEC.mark[1])
    THEN Succeeds(MATCH_MARK(at[1], NEC.header), Result("NEC", REPEAT))
    ELSE Succeeds(/\ MATCH_MARK(at[1], NEC.header)
            /\ rawlen >= 68
            /\ MATCH_SPACE(at[2], NEC.gap)
            /\ ReadsBits(NEC, at, 3, 32),
            Result("NEC", BitsRead(NEC, at, 3, 32)))

DecodeSamsung(at, rawlen) ==
    Succeeds(/\ MATCH_MARK(at[1], SAMSUNG.header)
       /\ rawlen >= 68
       /\ MATCH_SPACE(at[2], SAMSUNG.gap)
       /\ ReadsBits(SAMSUNG, at, 3, 32),
       Result("SAMSUNG", BitsRead(SAMSUNG, at, 3, 32)))

(* As many bits as have the space before them right, and 12 at least.      *)
DecodeSony(at, rawlen) ==
    LET One(j) == MATCH_MARK(at[2 * j + 1], SONY.mark[2])
        Zero(j) == MATCH_MARK(at[2 * j + 1], SONY.mark[1])
        Ends(count) == 2 * count + 3 >= rawlen \/ ~MATCH_SPACE(at[2 * count + 2], SONY.gap)
    IN {Result("SONY", [j \in 1..count |-> IF One(j) THEN 1 ELSE 0]) :
            count \in {n \in 12..(rawlen \div 2) :
                /\ rawlen >= 26
                /\ MATCH_MARK(at[1], SONY.header)
                /\ \A j \in 1..n : ~Ends(j - 1) /\ (One(j) \/ Zero(j))
                /\ Ends(n)}}

IsRepeatJVC(at, last) == MATCH_MARK(at[1], JVC.mark[1]) /\ MATCH_MARK(at[last], JVC.mark[1])
DecodeJVCShort(at, rawlen) ==
    IF rawlen = 33 /\ IsRepeatJVC(at, rawlen - 1)
    THEN {Result("JVC", REPEAT)}
    ELSE {}
DecodeJVC(at, rawlen) ==
    IF rawlen - 1 = 33 /\ IsRepeatJVC(at, rawlen - 1)
    THEN {Result("JVC", REPEAT)}
    ELSE Succeeds(/\ MATCH_MARK(at[1], JVC.header)
            /\ rawlen >= 65
            /\ MATCH_SPACE(at[2], JVC.gap)
            /\ ReadsBits(JVC, at, 3, 32)
            /\ MATCH_MARK(at[67], JVC.mark[1]),
            Result("JVC", BitsRead(JVC, at, 3, 32)))

(* The space of the header is compared as if it were a mark.               *)
DecodePanasonic(at, rawlen) ==
    Succeeds(/\ MATCH_MARK(at[1], PANASONIC.header)
       /\ MATCH_MARK(at[2], PANASONIC.gap)
       /\ ReadsBits(PANASONIC, at, 3, 48),
       Result("PANASONIC", BitsRead(PANASONIC, at, 3, 48)))

(* getRClevel(): how many levels an entry stands for, 0 for an error.      *)
AvailTwo(at, i, t1) ==
    LET fits == {n \in 1..2 : IF IsMark(i) THEN MATCH_MARK(at[i], n * t1)
                                          ELSE MATCH_SPACE(at[i], n * t1)}
    IN IF fits = {} THEN 0 ELSE CHOOSE n \in fits : \A m \in fits : n <= m
Avail(at, i, t1) ==
    LET fits == {n \in 1..3 : IF IsMark(i) THEN MATCH_MARK(at[i], n * t1)
                                          ELSE MATCH_SPACE(at[i], n * t1)}
    IN IF fits = {} THEN 0 ELSE CHOOSE n \in fits : \A m \in fits : n <= m

Levels(at, from, rawlen, t1) ==
    FlattenSeq([i \in 1..(rawlen - 1) |->
        IF i < from THEN <<>> ELSE [u \in 1..Avail(at, i, t1) |-> IsMark(i)]])
AllLevels(at, from, rawlen, t1) == \A i \in from..(rawlen - 1) : Avail(at, i, t1) > 0
Level(levels, i) == IF i <= Len(levels) THEN levels[i] ELSE FALSE

DecodeRC5(at, rawlen) ==
    LET levels == Levels(at, 1, rawlen, RC5_T1)
        count == (Len(levels) - 2) \div 2
        A(j) == Level(levels, 2 * j + 2)
        B(j) == Level(levels, 2 * j + 3)
    IN Succeeds(/\ rawlen >= 13
          /\ AllLevels(at, 1, rawlen, RC5_T1)
          /\ Level(levels, 1) /\ ~Level(levels, 2) /\ Level(levels, 3)
          /\ \A j \in 1..count : A(j) # B(j),
          Result("RC5", [j \in 1..count |-> IF B(j) THEN 1 ELSE 0]))

(* The fourth bit takes four levels, two and two alike.                    *)
DecodeRC6(at, rawlen) ==
    LET levels == Levels(at, 3, rawlen, RC6_T1)
        Taken(count) == 2 + 2 * count + (IF count > 3 THEN 2 ELSE 0)
        A(j) == Level(levels, Taken(j - 1) + 1)
        B(j) == Level(levels, Taken(j))
    IN {Result("RC6", [j \in 1..count |-> IF A(j) THEN 1 ELSE 0]) :
            count \in {n \in 0..Len(levels) :
                /\ MATCH_MARK(at[1], RC6_HDR_MARK)
                /\ MATCH_SPACE(at[2], RC6_HDR_SPACE)
                /\ AllLevels(at, 3, rawlen, RC6_T1)
                /\ Level(levels, 1) /\ ~Level(levels, 2)
                /\ Taken(n) >= Len(levels) /\ (n = 0 \/ Taken(n - 1) < Len(levels))
                /\ \A j \in 1..n : A(j) # B(j)
                /\ n > 3 => Level(levels, 10) = A(4) /\ Level(levels, 11) = B(4)}}

(* 0, 1 or 2 for shorter, equal within a fifth, and longer.                *)
CompareExactly(old, new) == IF new < old THEN 0 ELSE IF old < new THEN 2 ELSE 1
Compare(old, new) == IF 5 * new < 4 * old THEN 0 ELSE IF 5 * old < 4 * new THEN 2 ELSE 1

DecodeHash(at, rawlen) ==
    Succeeds(rawlen >= 6,
       Result("UNKNOWN", [i \in 1..(rawlen - 3) |-> Compare(at[i], at[i + 2])]))

(* decode(): the first decoder that succeeds.                              *)
AttemptsJVCFirst(at, rawlen) ==
    <<DecodeJVC(at, rawlen), DecodeNEC(at, rawlen), DecodeSony(at, rawlen),
      DecodeSamsung(at, rawlen), DecodeRC5(at, rawlen), DecodeRC6(at, rawlen),
      DecodePanasonic(at, rawlen), DecodeHash(at, rawlen)>>
Attempts(at, rawlen) ==
    <<DecodeNEC(at, rawlen), DecodeSony(at, rawlen), DecodeSamsung(at, rawlen),
      DecodeRC5(at, rawlen), DecodeRC6(at, rawlen), DecodeJVC(at, rawlen),
      DecodePanasonic(at, rawlen), DecodeHash(at, rawlen)>>

FirstOf(attempts) ==
    UNION {attempts[i] : i \in {n \in 1..8 : \A m \in 1..(n - 1) : attempts[m] = {}}}

Buffer(entries, junk) == [i \in Indices |-> IF i <= Len(entries) THEN entries[i] ELSE junk[i]]

Decodes ==
    /\ frame > 0
    /\ \E junk \in Junk :
          heard' = heard \cup {[frame |-> frame, result |-> r] :
              r \in FirstOf(Attempts(Buffer(raw, junk), Len(raw) + 1))}
    /\ frame' = 0
    /\ raw' = <<>>
    /\ UNCHANGED <<key, line>>

-------------------------------------------------------------------------------
Init ==
    /\ key \in Keys
    /\ line = <<>>
    /\ frame = 0
    /\ raw = <<>>
    /\ heard = {}

Next ==
    \/ \E k \in Keys : HandleIr(k)
    \/ Receives
    \/ Decodes

Spec == Init /\ [][Next]_vars

-------------------------------------------------------------------------------
(* The types of the variables; a frame fits the buffer.                    *)
TypeOK ==
    /\ key \in Keys
    /\ line \in Seq(Nat)
    /\ frame \in 0..Len(line)
    /\ raw \in Seq(Nat) /\ Len(raw) < RAWBUF
    /\ raw = <<>> <=> frame = 0

(* What IRtest.pde tests for five values and exact widths: whatever the    *)
(* detector and the sampling did to the widths, a value sent by NEC or     *)
(* Samsung with 32 bits, or by Sony with 12 or more, is decoded to itself, *)
(* as of its own protocol, by the chain of decoders of decode().           *)
PulseRoundTrip ==
    \A h \in heard :
        /\ key.protocol = 1 /\ key.bits = 32 => h.result = Result("NEC", key.word)
        /\ key.protocol = 7 /\ key.bits = 32 => h.result = Result("SAMSUNG", key.word)
        /\ key.protocol = 2 /\ key.bits >= 12 =>
              h.result = Result("SONY", Lowest(key.word, key.bits))

(* The same of RC5 with 12 bits or more, and of RC6: joined levels are     *)
(* taken apart again where they were joined, the wide bit of RC6 included. *)
BiphaseRoundTrip ==
    \A h \in heard :
        /\ key.protocol = 3 /\ key.bits >= 12 =>
              h.result = Result("RC5", Lowest(key.word, key.bits))
        /\ key.protocol = 4 => h.result = Result("RC6", Lowest(key.word, key.bits))

(* A key of JVC that is held down sends 16 bits without a header, and is   *)
(* decoded as a repetition, whatever the bits.                             *)
RepeatsRecognised ==
    \A h \in heard : key.protocol = 8 /\ key.bits = 16 /\ key.repeat =>
        h.result = Result("JVC", REPEAT)

(* Codes that are read in one way or another, as the widths vary.  With 31 *)
(* bits of NEC or JVC decodeJVC() reads two entries past the frame, so     *)
(* that it depends on what was received before.  A Sony code too short for *)
(* decodeSony() that begins with 0 may pass for one of RC6, whose header   *)
(* it resembles as long as its marks are not much too long.  The bits of a *)
(* Dish code of 17 have as many entries as a repetition of JVC, and first  *)
(* and last marks that pass for it if they are much too long.              *)
ReadsPast(k) == k.bits = 31 /\ (k.protocol = 1 \/ (k.protocol = 8 /\ ~k.repeat))
ResemblesRC6(k) == k.protocol = 2 /\ k.bits < 12 /\ Lowest(k.word, k.bits)[1] = 0
ResemblesJVC(k) == k.protocol = 5 /\ k.bits = 17
Ambiguous(k) == ReadsPast(k) \/ ResemblesRC6(k) \/ ResemblesJVC(k)

(* The hash of an unknown remote control is good for recognising keys: a   *)
(* key gives one and the same code whenever it is received, though widths  *)
(* vary ("a unique value for each different code", decodeHash).            *)
SameKeySameCode ==
    ~Ambiguous(key) => \A h, g \in heard : h.frame = g.frame => h.result = g.result
===============================================================================
