------------------------------ MODULE RcReceiver ------------------------------
(***************************************************************************)
(* The 433 MHz receiver of RCSwitch.cpp: the interrupt that measures the   *)
(* time between two changes of the line and collects a frame, the decoders *)
(* of the three protocols, and transmit(), which takes the interrupt away  *)
(* from the receiver for every single pulse it sends.                      *)
(*                                                                         *)
(* What is on the air comes from another transmitter with this library:    *)
(* send0(), send1() and sendSync() are the frames.  The detector makes the *)
(* highs of a copy a little longer and its lows a little shorter, or the   *)
(* other way round, and noise comes between transmissions.                 *)
(*                                                                         *)
(* changeCount is the length of timings: entries behind it are never read. *)
(***************************************************************************)
EXTENDS Integers, Sequences

CONSTANTS
    RCSWITCH_MAX_CHANGES,  \* entries of timings
    UintMod,               \* an unsigned int counts modulo this
    UlongMod,              \* an unsigned long counts modulo this
    SYNC_MIN,              \* a width above this separates frames, 5000 us
    Codes,                 \* the pairs of a code and a length that are sent
    Skews,                 \* how much the highs are too long, in per cent
    Gaps,                  \* widths of noise, and between two changes served
    MaxPulses, MaxSends    \* bounds on the pulses of send() and on its calls

ASSUME MaxChangesAssumption == RCSWITCH_MAX_CHANGES \in Nat \ {0}
ASSUME SyncMinAssumption == SYNC_MIN \in Nat /\ SYNC_MIN < UintMod
ASSUME WidthsAssumption == UintMod \in Nat \ {0} /\ UlongMod \in Nat \ {0, 1}
ASSUME BoundsAssumption == MaxPulses \in Nat /\ MaxSends \in Nat
ASSUME GapsAssumption == Gaps \subseteq Nat /\ Skews \subseteq Int
ASSUME CodesAssumption == Codes \subseteq Nat \X (Nat \ {0})

(* A frame fits into timings, and its length into an unsigned int. *)
ASSUME FramesFit ==
    \A s \in Codes : 2 * s[2] + 2 <= RCSWITCH_MAX_CHANGES /\ s[2] < UintMod

(* The times of this library: the widest of a frame, a double pulse of     *)
(* protocol 2, is no sync, its narrowest sync, of the same protocol, is    *)
(* one, and the widest sync, of protocol 1, is counted without overflow.   *)
ASSUME SkewsAssumption == Skews \subseteq -2..2
ASSUME WidthsTold == 1326 <= SYNC_MIN /\ SYNC_MIN < 6370 /\ 11067 < UintMod
ASSUME UlongEven == UlongMod % 2 = 0

VARIABLES
    timings, repeatCount,  \* the static data of handleInterrupt()
    received,              \* nReceivedValue, nReceivedBitlength, ...Protocol
    attached,              \* nReceiverInterrupt is not -1
    backup,                \* nReceiverInterrupt_backup is not -1
    pulses, sends,         \* pulses send() has still to transmit, its calls
    program,               \* where the main program is
    air,                   \* the widths of the frame being sent that remain
    frame, skew,           \* that frame, and how this copy of it is skewed
    whole,                 \* the interrupt served this copy from its start
    missed                 \* changes passed unserved since the last one

receiver == <<timings, repeatCount, received>>
sender == <<attached, backup, pulses, sends, program>>
line == <<air, frame, skew, whole, missed>>
receiverVars == <<receiver, sender, line>>

-------------------------------------------------------------------------------
(* What is sent *)

Protocols == 1..3

(* setProtocol(): nPulseLength. *)
PulseLength == [p \in Protocols |-> <<350, 650, 100>>[p]]

(* send0(), send1() and sendSync(): the pulse lengths high and low. *)
Send0 == <<<<1, 3>>, <<1, 2>>, <<4, 11>>>>
Send1 == <<<<3, 1>>, <<2, 1>>, <<9, 6>>>>
SendSync == <<<<1, 31>>, <<1, 10>>, <<1, 71>>>>

(* Dec as the first loop of dec2binWcharfill() has it after k turns. *)
Shifted(Dec, k) ==
    LET rest[i \in 0..k] == IF i = 0 THEN Dec ELSE rest[i - 1] \div 2
    IN rest[k]

(* The digits that loop writes, one in each turn until nothing is left. *)
Significant(Dec) ==
    CHOOSE i \in 0..Dec : Shifted(Dec, i) = 0 /\ \A j \in 0..(i - 1) : Shifted(Dec, j) # 0

(* Mutant: the digits are copied lowest first. *)
Dec2binBackwards(Dec, bitLength) ==
    [j \in 1..bitLength |-> Shifted(Dec, j - 1) % 2]

(* dec2binWzerofill(): bitLength - i is unsigned, so that a code with more *)
(* digits than bits becomes all zeros.                                     *)
Dec2bin(Dec, bitLength) ==
    [j \in 1..bitLength |->
        IF j - 1 >= (bitLength - Significant(Dec)) % UintMod
        THEN Shifted(Dec, bitLength - j) % 2 ELSE 0]

(* send(): the widths of one copy of a frame, in pulse lengths, the low of *)
(* the sync pulse last.                                                    *)
Copy(f) ==
    LET bin == Dec2bin(f.code, f.bits)
        Pair(k) == IF bin[k] = 1 THEN Send1[f.protocol] ELSE Send0[f.protocol]
        Last == SendSync[f.protocol]
    IN [k \in 1..(2 * f.bits + 2) |->
           IF k <= 2 * f.bits THEN Pair((k + 1) \div 2)[2 - (k % 2)]
           ELSE Last[2 - (k % 2)]]

ASSUME DigitsFit == \A s \in Codes : Significant(s[1]) <= UintMod

Frames == {[protocol |-> p, code |-> s[1], bits |-> s[2]] : p \in Protocols, s \in Codes}

(* How long the next width of this copy is seen: highs and lows alternate, *)
(* the last one is a low.                                                  *)
Width ==
    LET us == Head(air) * PulseLength[frame.protocol]
    IN us + (us * (IF Len(air) % 2 = 0 THEN skew ELSE -skew)) \div 100

-------------------------------------------------------------------------------
(* receiveProtocol1() to receiveProtocol3(), for so many changes *)

(* timings[i] of the source, where the first entry has index 0. *)
Timing(i) == IF i < Len(timings) THEN timings[i + 1] ELSE 0

Near(t, nominal, tolerance) == t > nominal - tolerance /\ t < nominal + tolerance

(* The k-th pair of widths is this one, within nReceiveTolerance. *)
IsPair(k, delay, w) ==
    LET tolerance == (delay * 60) \div 100
    IN /\ Near(Timing(2 * k - 1), delay * w[1], tolerance)
       /\ Near(Timing(2 * k), delay * w[2], tolerance)

(* The value of the loop: one bit for each pair of widths that is zero or  *)
(* one, 0 as soon as a pair is neither.  code is shifted once too often    *)
(* and back: the first of 32 bits is lost.                                 *)
Decode(changeCount, delay, zero, one) ==
    LET n == changeCount \div 2
        value[k \in 0..n] ==
            IF k = 0 THEN 0
            ELSE (2 * (value[k - 1] + (IF IsPair(k, delay, zero) THEN 0 ELSE 1))) % UlongMod
    IN IF \A k \in 1..n : IsPair(k, delay, zero) \/ IsPair(k, delay, one)
       THEN value[n] \div 2 ELSE 0

Protocol1(changeCount) == Decode(changeCount, Timing(0) \div 31, <<1, 3>>, <<3, 1>>)
Protocol2(changeCount) == Decode(changeCount, Timing(0) \div 10, <<1, 2>>, <<2, 1>>)
Protocol3(changeCount) == Decode(changeCount, Timing(0) \div 71, <<4, 11>>, <<9, 6>>)

CodeOf(p, changeCount) ==
    CASE p = 1 -> Protocol1(changeCount)
      [] p = 2 -> Protocol2(changeCount)
      [] p = 3 -> Protocol3(changeCount)

Nothing == [value |-> 0, bits |-> 0, protocol |-> 0]

(* What a decoder leaves in the nReceived variables, found or not: it is   *)
(* not noise if there are more than six changes.                           *)
Result(p, changeCount) ==
    IF changeCount > 6
    THEN [value |-> CodeOf(p, changeCount), bits |-> changeCount \div 2, protocol |-> p]
    ELSE received

(* The decoders as handleInterrupt() calls them, the second one if the     *)
(* first found nothing.                                                    *)
Decoders(changeCount) ==
    IF CodeOf(2, changeCount) # 0 THEN Result(2, changeCount)
    ELSE Result(3, changeCount)

-------------------------------------------------------------------------------
(* handleInterrupt(), when so much time has passed since the last call *)

(* The window of 200 us around the last sync, in unsigned arithmetic. *)
IsSync(duration) ==
    /\ duration > SYNC_MIN
    /\ duration > (Timing(0) - 200) % UintMod
    /\ duration < (Timing(0) + 200) % UintMod

(* Mutant: the end of timings is noticed one entry late. *)
FullLate(changeCount) == changeCount > RCSWITCH_MAX_CHANGES

Full(changeCount) == changeCount >= RCSWITCH_MAX_CHANGES

(* Mutant: the decoders are called with what has been collected. *)
HandleInterruptDecodes(duration) ==
    LET due == IsSync(duration) /\ repeatCount + 1 = 2
        kept == IF duration > SYNC_MIN THEN <<>> ELSE timings
    IN /\ received' = IF due THEN Decoders(Len(timings) - 1) ELSE received
       /\ repeatCount' = IF due \/ Full(Len(kept)) THEN 0
                         ELSE repeatCount + (IF IsSync(duration) THEN 1 ELSE 0)
       /\ timings' = Append(IF Full(Len(kept)) THEN <<>> ELSE kept, duration)

(* The decoders are called at every second sync, with changeCount, which   *)
(* the test in line 771 lets pass only when it is 0.                       *)
HandleInterrupt(duration) ==
    LET changeCount == Len(timings) - 1
        due == IsSync(duration) /\ repeatCount + 1 = 2
        kept == IF duration > SYNC_MIN THEN <<>> ELSE timings
    IN /\ received' = IF due /\ changeCount = 0 THEN Decoders(changeCount) ELSE received
       /\ repeatCount' = IF due \/ Full(Len(kept)) THEN 0
                         ELSE repeatCount + (IF IsSync(duration) THEN 1 ELSE 0)
       /\ timings' = Append(IF Full(Len(kept)) THEN <<>> ELSE kept, duration)

(* The line changes: the interrupt measures the time since it last ran.    *)
Change(width) ==
    IF attached
    THEN /\ \E since \in IF missed THEN Gaps ELSE {width} :
               HandleInterrupt(since % UintMod)
         /\ missed' = FALSE
    ELSE UNCHANGED receiver /\ missed' = TRUE

-------------------------------------------------------------------------------
(* The other transmitter, and noise *)

(* A frame follows a silence; one that begins while this transmitter sends *)
(* is noise, as two pulses follow one another directly.                    *)
StartsFrame ==
    /\ air = <<>> /\ program \in {"setup", "loop"}
    /\ frame' \in Frames /\ skew' \in Skews
    /\ air' = Copy(frame')
    /\ \E gap \in Gaps : gap > SYNC_MIN /\ Change(gap)
    /\ whole' = FALSE
    /\ UNCHANGED sender

ContinuesFrame ==
    /\ Len(air) > 1
    /\ Change(Width)
    /\ air' = Tail(air)
    /\ whole' = (whole /\ attached)
    /\ UNCHANGED <<frame, skew, sender>>

(* nRepeatTransmit copies of a frame follow one another directly. *)
RepeatsFrame ==
    /\ Len(air) = 1
    /\ Change(Width)
    /\ air' = Copy(frame) /\ skew' \in Skews
    /\ whole' = (attached /\ ~missed)
    /\ UNCHANGED <<frame, sender>>

(* After the last copy the line stays low for longer than a sync: the next *)
(* change is noise, or begins another frame.                               *)
EndsFrame ==
    /\ Len(air) = 1
    /\ \E gap \in Gaps : gap > SYNC_MIN /\ Change(gap)
    /\ \/ air' = <<>> /\ UNCHANGED <<frame, skew>>
       \/ frame' \in Frames /\ skew' \in Skews /\ air' = Copy(frame')
    /\ whole' = FALSE
    /\ UNCHANGED sender

Noise ==
    /\ air = <<>>
    /\ \E gap \in Gaps : Change(gap)
    /\ UNCHANGED <<air, frame, skew, whole, sender>>

(* A change while the interrupt was detached has set its flag: it is       *)
(* served when it is attached again.                                       *)
ServesFlag ==
    /\ attached /\ missed
    /\ \E since \in Gaps : HandleInterrupt(since % UintMod)
    /\ missed' = FALSE
    /\ UNCHANGED <<air, frame, skew, whole, sender>>

-------------------------------------------------------------------------------
(* The main program *)

(* enableReceive(): what has been received and not been read is forgotten. *)
EnableReceive == received' = [received EXCEPT !.value = 0, !.bits = 0]

Setup ==
    /\ program = "setup" /\ program' = "loop"
    /\ EnableReceive /\ attached' = TRUE
    /\ UNCHANGED <<timings, repeatCount, backup, pulses, sends, line>>

(* sendTriState() or send(), which transmit() each pulse by itself. *)
Sends ==
    /\ program = "loop" /\ program' = "send"
    /\ sends < MaxSends /\ sends' = sends + 1
    /\ pulses' \in 1..MaxPulses
    /\ UNCHANGED <<receiver, attached, backup, line>>

(* transmit(): disableReceive(), which loses nReceiverInterrupt.  Its own  *)
(* signal is on the air until it is over: the rest of a frame is noise.    *)
PulseStarts ==
    /\ program = "send" /\ program' = "pulse"
    /\ backup' = attached /\ attached' = FALSE
    /\ missed' = TRUE /\ whole' = FALSE /\ air' = <<>>
    /\ UNCHANGED <<receiver, pulses, sends, frame, skew>>

(* Mutant: enableReceive() is called without the number of the interrupt.  *)
PulseEndsDeaf ==
    /\ program = "pulse" /\ program' = IF pulses = 1 THEN "loop" ELSE "send"
    /\ pulses' = pulses - 1
    /\ UNCHANGED <<attached, backup, sends, receiver, line>>

PulseEnds ==
    /\ program = "pulse" /\ program' = IF pulses = 1 THEN "loop" ELSE "send"
    /\ pulses' = pulses - 1
    /\ attached' = backup
    /\ IF backup THEN EnableReceive ELSE UNCHANGED received
    /\ UNCHANGED <<timings, repeatCount, backup, sends, line>>

-------------------------------------------------------------------------------
ReceiverInit ==
    /\ timings = <<>> /\ repeatCount = 0 /\ received = Nothing
    /\ attached = FALSE /\ backup = FALSE /\ pulses = 0 /\ sends = 0 /\ program = "setup"
    /\ air = <<>> /\ frame \in Frames /\ skew \in Skews
    /\ whole = FALSE /\ missed = FALSE

ReceiverNext ==
    \/ StartsFrame \/ ContinuesFrame \/ RepeatsFrame \/ EndsFrame \/ Noise
    \/ ServesFlag \/ Setup \/ Sends \/ PulseStarts \/ PulseEnds

ReceiverSpec == ReceiverInit /\ [][ReceiverNext]_receiverVars

-------------------------------------------------------------------------------
(* Properties *)

(* handleInterrupt() never writes behind timings (the test of line 785     *)
(* comes after changeCount was incremented in the last call, and may come  *)
(* after it was set to 0).                                                 *)
ReceiverTypeOK ==
    /\ timings \in Seq(0..(UintMod - 1)) /\ Len(timings) <= RCSWITCH_MAX_CHANGES
    /\ repeatCount \in 0..1
    /\ attached \in BOOLEAN /\ backup \in BOOLEAN
    /\ pulses \in 0..MaxPulses /\ sends \in 0..MaxSends
    /\ program \in {"setup", "loop", "send", "pulse"}
    /\ air \in Seq(Nat) /\ frame \in Frames /\ skew \in Skews
    /\ whole \in BOOLEAN /\ missed \in BOOLEAN

(* The value a receiver should read: a code of as many bits as an unsigned *)
(* long has loses its first one, one that does not fit is sent as zeros.   *)
Wanted(f) ==
    IF Shifted(f.code, f.bits) = 0 THEN f.code % (UlongMod \div 2) ELSE 0

(* When the sync that ends a copy comes, and the interrupt served the copy *)
(* and the sync before it, then the buffer holds the frame: the decoder of *)
(* its protocol reads the code from it, skewed or not, whatever else came  *)
(* in before, and no decoder of another protocol reads one.                *)
FrameReadable ==
    whole /\ Len(air) = 1 =>
        \A p \in Protocols :
            CodeOf(p, Len(timings) - 1) = IF p = frame.protocol THEN Wanted(frame) ELSE 0

(* available() never becomes true: the decoders are only called with       *)
(* nothing to decode.                                                      *)
NothingReceived == received.value = 0

(* Whatever was sent, the receiver has its interrupt again between two     *)
(* pulses and afterwards.                                                  *)
ReceiverRearmed == program \in {"loop", "send"} => attached
===============================================================================
