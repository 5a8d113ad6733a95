--------------------------- MODULE IrReceiver_proofs ---------------------------
(***************************************************************************)
(* For every size of the buffer, gap and timer: the frame that decode()    *)
(* and the sketch work on is complete, of the length decode() believes,    *)
(* left alone, alternating, and true to the line.                          *)
(***************************************************************************)
EXTENDS IrReceiver, SequenceTheorems, TLAPS

USE RawbufAssumption, TimerAssumption, MaxMarkAssumption, ReenablesAssumption

(* The timer stays below the modulus. *)
LEMMA NowType == TypeOK => Now \in 0..(TimerMod - 1)
  BY DEF TypeOK, Now

(* An entry is one of Entries, and right if the timer agrees with held. *)
LEMMA EntryType ==
    ASSUME TypeOK
    PROVE  Entry \in Entries /\ Entry.level = line /\ (Now = held => Entry.width = "right")
  <1>1. Now \in Nat /\ held \in Nat /\ line \in Levels
    BY NowType DEF TypeOK
  <1>2. CASE Now < held
    BY <1>1, <1>2 DEF Entry, Entries
  <1>3. CASE Now = held
    BY <1>1, <1>3 DEF Entry, Entries
  <1>4. CASE Now \in {held + 1, held + 2}
    BY <1>1, <1>4 DEF Entry, Entries
  <1>5. CASE Now > held + 2
    BY <1>1, <1>5 DEF Entry, Entries
  <1> QED
    BY <1>1, <1>2, <1>3, <1>4, <1>5

(* What a sample does to the entries: none, a first one, or one more. *)
LEMMA SampleRecords ==
    ASSUME TypeOK, NEW level \in Levels, ISR(level)
    PROVE  \/ /\ raw' = raw
              /\ timer' \in {0, Now} /\ rcvstate' \in {State, "STOP"}
           \/ /\ raw' = <<Entry>> /\ Len(raw) < RAWBUF
              /\ timer' = 0 /\ rcvstate' = "MARK"
           \/ /\ raw' = Append(raw, Entry) /\ Len(raw) < RAWBUF
              /\ timer' = 0 /\ rcvstate' \in {"MARK", "SPACE"}
  <1>1. State \in {"IDLE", "MARK", "SPACE"} => Len(raw) < RAWBUF
    BY LenProperties DEF State, Full, TypeOK
  <1>2. CASE IgnoresMark(level) \/ EndsFrame(level) \/ RestartsGap(level) \/ Counts(level)
    BY <1>2 DEF IgnoresMark, EndsFrame, RestartsGap, Counts
  <1>3. CASE StartsFrame(level)
    BY <1>1, <1>3 DEF StartsFrame
  <1>4. CASE RecordsMark(level) \/ RecordsSpace(level)
    BY <1>1, <1>4 DEF RecordsMark, RecordsSpace
  <1> QED
    BY <1>2, <1>3, <1>4 DEF ISR

-------------------------------------------------------------------------------
(* Types *)

LEMMA InitType == Init => TypeOK
  <1> SUFFICES ASSUME Init PROVE TypeOK
    OBVIOUS
  <1>1. enabled \in BOOLEAN /\ interrupted \in BOOLEAN
    BY DEF Init
  <1> QED
    BY <1>1, EmptySeq DEF Init, TypeOK, PCs, States, Levels

LEMMA SampleType ==
    ASSUME TypeOK, NEW level \in Levels, ISR(level)
    PROVE  TypeOK'
  <1>1. UNCHANGED main /\ pc' = pc /\ seen' = seen
    BY DEF ISR, main
  <1>2. enabled' \in BOOLEAN /\ interrupted' \in BOOLEAN
    BY <1>1 DEF ISR, TypeOK, main
  <1>3. rcvstate' \in States
    <2>1. rcvstate' \in {State, "STOP", "MARK", "SPACE"}
      BY SampleRecords
    <2> QED
      BY <2>1 DEF State, States, TypeOK
  <1>4. timer' \in 0..(TimerMod - 1)
    BY SampleRecords, NowType
  <1>5. raw' \in Seq(Entries) /\ Len(raw') <= RAWBUF
    <2>1. raw \in Seq(Entries) /\ Len(raw) \in Nat /\ Len(raw) <= RAWBUF /\ Entry \in Entries
      BY EntryType, LenProperties DEF TypeOK
    <2>2. /\ Append(raw, Entry) \in Seq(Entries)
          /\ Len(Append(raw, Entry)) = Len(raw) + 1
      BY <2>1, AppendProperties
    <2>3. <<Entry>> \in Seq(Entries) /\ Len(<<Entry>>) = 1
      BY <2>1
    <2>4. \/ raw' = raw
          \/ raw' = <<Entry>>
          \/ raw' = Append(raw, Entry) /\ Len(raw) < RAWBUF
      BY SampleRecords
    <2>5. CASE raw' = raw
      BY <2>1, <2>5
    <2>6. CASE raw' = <<Entry>>
      BY <2>3, <2>6
    <2>7. CASE raw' = Append(raw, Entry) /\ Len(raw) < RAWBUF
      <3>1. Len(raw') = Len(raw) + 1
        BY <2>2, <2>7
      <3> QED
        BY <2>1, <2>2, <2>7, <3>1
    <2> QED
      BY <2>4, <2>5, <2>6, <2>7
  <1>6. line' \in Levels /\ held' \in 0..TimerMod
    BY DEF ISR, Sampled, TypeOK
  <1> QED
    BY <1>1, <1>2, <1>3, <1>4, <1>5, <1>6 DEF TypeOK

LEMMA NextType == TypeOK /\ [Next]_vars => TypeOK'
  <1> SUFFICES ASSUME TypeOK, [Next]_vars PROVE TypeOK'
    OBVIOUS
  <1>1. CASE \E level \in Levels : ISR(level)
    BY <1>1, SampleType
  <1>2. CASE Unseen \/ Sends \/ Main
    <2>1. enabled' \in BOOLEAN /\ interrupted' \in BOOLEAN
      BY <1>2 DEF TypeOK, Unseen, Sends, Main, EnableIRIn, EnableResets, DecodeReadsLength,
           DecodeNotReady, DecodeReady, Decodes, Undecodable, ResumeState, ResumeLength, main
    <2>2. pc' \in PCs /\ seen' \in 0..RAWBUF
      BY <1>2, LenProperties
         DEF TypeOK, Unseen, Sends, Main, EnableIRIn, EnableResets, DecodeReadsLength,
           DecodeNotReady, DecodeReady, Decodes, Undecodable, ResumeState, ResumeLength,
           main, PCs, Between, InUse
    <2>3. raw' \in {raw, <<>>} /\ rcvstate' \in {rcvstate, "IDLE"} /\ timer' = timer
      BY <1>2
         DEF Unseen, Sends, Main, EnableIRIn, EnableResets, DecodeReadsLength,
           DecodeNotReady, DecodeReady, Decodes, Undecodable, ResumeState, ResumeLength,
           irparams
    <2>4. line' \in Levels /\ held' \in 0..TimerMod
      BY <1>2
         DEF TypeOK, Unseen, Sends, Main, EnableIRIn, EnableResets, DecodeReadsLength,
           DecodeNotReady, DecodeReady, Decodes, Undecodable, ResumeState, ResumeLength
    <2>5. rcvstate' \in States /\ timer' \in 0..(TimerMod - 1)
      BY <2>3 DEF TypeOK, States
    <2>6. raw' \in Seq(Entries) /\ Len(raw') <= RAWBUF
      <3>1. CASE raw' = raw
        BY <3>1 DEF TypeOK
      <3>2. CASE raw' = <<>>
        BY <3>2, EmptySeq
      <3> QED
        BY <2>3, <3>1, <3>2
    <2> QED
      BY <2>1, <2>2, <2>4, <2>5, <2>6 DEF TypeOK
  <1>3. CASE UNCHANGED vars
    <2>1. enabled' \in BOOLEAN /\ interrupted' \in BOOLEAN
      BY <1>3 DEF vars, TypeOK
    <2> QED
      BY <1>3, <2>1 DEF vars, TypeOK
  <1> QED
    BY <1>1, <1>2, <1>3 DEF Next

(* rawlen never exceeds RAWBUF, wherever an interrupt comes, and every     *)
(* other variable of the receiver keeps its type.                          *)
THEOREM TypeCorrect == Spec => []TypeOK
  BY InitType, NextType, PTL DEF Spec

-------------------------------------------------------------------------------
(* The length that decode() has copied *)

(* Once the state was tested the copy is current and the frame stopped.    *)
(* Between the two it is current before an interrupt, and after one that   *)
(* leaves the receiver stopped.                                            *)
LengthInv ==
    /\ pc \in InUse => rcvstate = "STOP" /\ seen = Len(raw)
    /\ pc = "decode" /\ (~interrupted \/ rcvstate = "STOP") => seen = Len(raw)

(* A sample that leaves the receiver stopped has recorded nothing. *)
LEMMA StoppedRecordsNothing ==
    ASSUME NEW level \in Levels, ISR(level), rcvstate' = "STOP" \/ State = "STOP"
    PROVE  raw' = raw /\ (State = "STOP" => rcvstate' = "STOP")
  BY DEF ISR, IgnoresMark, StartsFrame, RecordsMark, RecordsSpace, EndsFrame,
       RestartsGap, Counts

LEMMA LengthStep == LengthInv /\ [Next]_vars => LengthInv'
  <1> SUFFICES ASSUME LengthInv, [Next]_vars PROVE LengthInv'
    OBVIOUS
  <1> USE DEF InUse
  <1>1. ASSUME NEW level \in Levels, ISR(level) PROVE LengthInv'
    <2>1. pc' = pc /\ seen' = seen /\ (pc = "decode" => ~interrupted)
      BY <1>1 DEF ISR, main, Between
    <2>2. rcvstate = "STOP" => State = "STOP"
      BY DEF State
    <2>3. rcvstate' = "STOP" \/ State = "STOP" => raw' = raw
      BY <1>1, StoppedRecordsNothing
    <2>4. State = "STOP" => rcvstate' = "STOP"
      BY <1>1, StoppedRecordsNothing
    <2>5. pc = "decode" => interrupted'
      BY <1>1 DEF ISR, Between
    <2> QED
      BY <2>1, <2>2, <2>3, <2>4, <2>5 DEF LengthInv
  <1>2. CASE Unseen \/ Sends \/ EnableIRIn \/ EnableResets \/ ResumeState \/ ResumeLength
    BY <1>2 DEF LengthInv, Unseen, Sends, EnableIRIn, EnableResets, ResumeState,
         ResumeLength, main, irparams
  <1>3. CASE DecodeReadsLength \/ DecodeNotReady \/ DecodeReady \/ Decodes \/ Undecodable
    BY <1>3 DEF LengthInv, DecodeReadsLength, DecodeNotReady, DecodeReady, Decodes,
         Undecodable, irparams
  <1>4. CASE UNCHANGED vars
    BY <1>4 DEF LengthInv, vars
  <1> QED
    BY <1>1, <1>2, <1>3, <1>4 DEF Next, Main

LEMMA LengthHolds == Spec => []LengthInv
  <1>1. Init => LengthInv
    BY DEF Init, LengthInv, InUse
  <1> QED
    BY <1>1, LengthStep, PTL DEF Spec

(* Although an interrupt may come between the copy and the test, decode()  *)
(* never works on a length that is out of date.                            *)
THEOREM LengthTrusted == Spec => []LengthIsCurrent
  <1>1. LengthInv => LengthIsCurrent
    BY DEF LengthInv, LengthIsCurrent
  <1> QED
    BY <1>1, LengthHolds, PTL

(* No interrupt touches a frame while it is being decoded and used. *)
THEOREM FrameLeftAlone == Spec => FrameIsStable
  <1>1. LengthInv /\ [Next]_vars => [(pc \in InUse) => raw' = raw]_vars
    <2> SUFFICES ASSUME LengthInv, Next, pc \in InUse PROVE raw' = raw
      BY DEF vars
    <2>1. ASSUME NEW level \in Levels, ISR(level) PROVE raw' = raw
      <3>1. State = "STOP"
        BY DEF LengthInv, State
      <3> QED
        BY <2>1, <3>1, StoppedRecordsNothing
    <2>2. CASE Unseen \/ Sends \/ Main
      BY <2>2 DEF Unseen, Sends, Main, EnableIRIn, EnableResets, DecodeReadsLength,
           DecodeNotReady, DecodeReady, Decodes, Undecodable, ResumeState, ResumeLength,
           irparams, InUse
    <2> QED
      BY <2>1, <2>2 DEF Next
  <1> QED
    BY <1>1, LengthHolds, PTL DEF Spec, FrameIsStable

-------------------------------------------------------------------------------
(* The state of the receiver and the level of the line *)

(* While the interrupt runs, the state names the level it last sampled;    *)
(* within resume() a frame can have started, but no mark have ended.       *)
SenseInv ==
    /\ enabled /\ pc # "enable" =>
         (rcvstate = "MARK" => line = "MARK") /\ (rcvstate = "SPACE" => line = "SPACE")
    /\ pc = "resume_len" => rcvstate # "SPACE" /\ (~interrupted => rcvstate = "IDLE")

LEMMA SenseStep == SenseInv /\ [Next]_vars => SenseInv'
  <1> SUFFICES ASSUME SenseInv, [Next]_vars PROVE SenseInv'
    OBVIOUS
  <1>1. ASSUME NEW level \in Levels, ISR(level) PROVE SenseInv'
    <2>1. pc' = pc /\ line' = level /\ (enabled' <=> enabled) /\ enabled
      BY <1>1 DEF ISR, main, Sampled
    <2>2. pc = "resume_len" => ~interrupted /\ interrupted'
      BY <1>1 DEF ISR, Between
    <2>3. rcvstate' = "MARK" => level = "MARK" \/ State = "none"
      BY <1>1 DEF ISR, IgnoresMark, StartsFrame, RecordsMark, RecordsSpace, EndsFrame,
           RestartsGap, Counts
    <2>4. rcvstate' = "SPACE" => level = "SPACE" \/ State = "none"
      BY <1>1 DEF ISR, IgnoresMark, StartsFrame, RecordsMark, RecordsSpace, EndsFrame,
           RestartsGap, Counts
    <2>5. State = "none" => rcvstate' = "none"
      BY <1>1 DEF ISR, IgnoresMark, StartsFrame, RecordsMark, RecordsSpace, EndsFrame,
           RestartsGap, Counts
    <2>6. rcvstate = "IDLE" => rcvstate' # "SPACE"
      BY <1>1 DEF ISR, State, IgnoresMark, StartsFrame, RecordsMark, RecordsSpace, EndsFrame,
           RestartsGap, Counts
    <2> QED
      BY <2>1, <2>2, <2>3, <2>4, <2>5, <2>6 DEF SenseInv
  <1>2. CASE Unseen \/ Sends
    BY <1>2 DEF SenseInv, Unseen, Sends, main, irparams
  <1>3. CASE Main
    BY <1>3 DEF SenseInv, Main, EnableIRIn, EnableResets, DecodeReadsLength, DecodeNotReady,
         DecodeReady, Decodes, Undecodable, ResumeState, ResumeLength, irparams
  <1>4. CASE UNCHANGED vars
    BY <1>4 DEF SenseInv, vars
  <1> QED
    BY <1>1, <1>2, <1>3, <1>4 DEF Next

LEMMA SenseHolds == Spec => []SenseInv
  <1>1. Init => SenseInv
    BY DEF Init, SenseInv
  <1> QED
    BY <1>1, SenseStep, PTL DEF Spec

(* What the interrupt leaves in raw, now that the entry's level is known.  *)
LEMMA SampleCases ==
    ASSUME TypeOK, SenseInv, pc # "enable", NEW level \in Levels, ISR(level)
    PROVE  /\ pc' # "enable"
           /\ \/ raw' = raw /\ rcvstate' \in {rcvstate, "STOP"}
              \/ raw' = <<Entry>> /\ rcvstate' = "MARK"
              \/ /\ raw' = Append(raw, Entry) /\ rcvstate' = "SPACE"
                 /\ rcvstate = "MARK" /\ Entry.level = "MARK"
              \/ /\ raw' = Append(raw, Entry) /\ rcvstate' = "MARK"
                 /\ rcvstate = "SPACE" /\ Entry.level = "SPACE"
  <1>1. pc' # "enable" /\ enabled
    BY DEF ISR, main
  <1>2. Entry.level = line
    BY EntryType
  <1>3. CASE IgnoresMark(level) \/ EndsFrame(level) \/ RestartsGap(level) \/ Counts(level)
    BY <1>1, <1>3 DEF IgnoresMark, EndsFrame, RestartsGap, Counts, State
  <1>4. CASE StartsFrame(level)
    BY <1>1, <1>4 DEF StartsFrame
  <1>5. CASE RecordsMark(level)
    BY <1>1, <1>2, <1>5 DEF RecordsMark, State, SenseInv
  <1>6. CASE RecordsSpace(level)
    BY <1>1, <1>2, <1>6 DEF RecordsSpace, State, SenseInv
  <1> QED
    BY <1>3, <1>4, <1>5, <1>6 DEF ISR

LEMMA AlternatesStep ==
    TypeOK /\ SenseInv /\ RawAlternates /\ [Next]_vars => RawAlternates'
  <1> SUFFICES ASSUME TypeOK, SenseInv, RawAlternates, [Next]_vars, pc' # "enable"
               PROVE  RawAlternates'
    BY DEF RawAlternates
  <1>1. raw \in Seq(Entries) /\ Len(raw) \in Nat
    BY LenProperties DEF TypeOK
  <1>2. ASSUME NEW level \in Levels, ISR(level) PROVE RawAlternates'
    <2>1. pc # "enable"
      BY <1>2 DEF ISR, main
    <2>2. CASE raw' = raw /\ rcvstate' \in {rcvstate, "STOP"}
      BY <2>1, <2>2 DEF RawAlternates
    <2>3. CASE raw' = <<Entry>> /\ rcvstate' = "MARK"
      <3>1. Len(raw') = 1
        BY <2>3
      <3> QED
        BY <2>3, <3>1 DEF RawAlternates
    <2>4. ASSUME raw' = Append(raw, Entry),
                 Len(raw) > 1 => raw[Len(raw)].level # Entry.level
          PROVE  /\ \A i \in 2..(Len(raw') - 1) : raw'[i].level # raw'[i + 1].level
                 /\ raw' # <<>> /\ raw'[Len(raw')].level = Entry.level
      <3>1. /\ Len(raw') = Len(raw) + 1 /\ raw' # <<>>
            /\ \A i \in 1..Len(raw) : raw'[i] = raw[i]
            /\ raw'[Len(raw) + 1] = Entry
        BY <1>1, <2>4, EntryType, AppendProperties
      <3>2. ASSUME NEW i \in 2..(Len(raw') - 1)
            PROVE  raw'[i].level # raw'[i + 1].level
        <4>1. CASE i = Len(raw)
          BY <1>1, <2>4, <3>1, <4>1
        <4>2. CASE i < Len(raw)
          <5>1. i \in 2..(Len(raw) - 1) /\ i \in 1..Len(raw) /\ i + 1 \in 1..Len(raw)
            BY <1>1, <3>1, <4>2
          <5> QED
            BY <2>1, <3>1, <5>1 DEF RawAlternates
        <4> QED
          BY <1>1, <3>1, <4>1, <4>2
      <3> QED
        BY <3>1, <3>2
    <2>5. CASE /\ raw' = Append(raw, Entry) /\ rcvstate' = "SPACE"
               /\ rcvstate = "MARK" /\ Entry.level = "MARK"
      <3>1. Len(raw) > 1 => raw[Len(raw)].level = "SPACE"
        BY <2>1, <2>5 DEF RawAlternates
      <3> QED
        BY <2>4, <2>5, <3>1 DEF RawAlternates
    <2>6. CASE /\ raw' = Append(raw, Entry) /\ rcvstate' = "MARK"
               /\ rcvstate = "SPACE" /\ Entry.level = "SPACE"
      <3>1. raw[Len(raw)].level = "MARK"
        BY <2>1, <2>6 DEF RawAlternates
      <3> QED
        BY <2>4, <2>6, <3>1 DEF RawAlternates
    <2> QED
      BY <1>2, <2>1, <2>2, <2>3, <2>5, <2>6, SampleCases
  <1>3. CASE EnableResets
    BY <1>3, EmptySeq DEF EnableResets, RawAlternates
  <1>4. CASE ResumeLength
    <2>1. raw' = <<>> /\ Len(raw') = 0 /\ rcvstate' # "SPACE"
      BY <1>4, EmptySeq DEF ResumeLength, SenseInv
    <2> QED
      BY <2>1 DEF RawAlternates
  <1>5. CASE \/ Unseen \/ Sends \/ DecodeReadsLength \/ DecodeNotReady \/ DecodeReady
             \/ Decodes \/ Undecodable \/ ResumeState \/ UNCHANGED vars
    <2>1. raw' = raw /\ rcvstate' \in {rcvstate, "IDLE"} /\ pc # "enable"
      BY <1>5 DEF Unseen, Sends, DecodeReadsLength, DecodeNotReady, DecodeReady, Decodes,
           Undecodable, ResumeState, main, irparams, vars
    <2> QED
      BY <2>1 DEF RawAlternates
  <1>6. ~EnableIRIn
    BY DEF EnableIRIn
  <1> QED
    BY <1>2, <1>3, <1>4, <1>5, <1>6 DEF Next, Main

(* Behind the first entry, marks and spaces alternate: the decoders may go *)
(* by the parity of the index.                                             *)
THEOREM Alternates == Spec => []RawAlternates
  <1>1. Init => RawAlternates
    BY EmptySeq DEF Init, RawAlternates
  <1> QED
    BY <1>1, AlternatesStep, TypeCorrect, SenseHolds, PTL DEF Spec

-------------------------------------------------------------------------------
(* The timer and what is really seen of the line *)

(* The entry that will be recorded next has a beginning that was seen. *)
Trusted == raw # <<>> /\ (Len(raw) = 1 => raw[1].level = "SPACE")

(* While a frame is recorded, the timer is one behind the samples seen,    *)
(* which no mark and no space within a frame lets wrap.                    *)
TimerInv ==
    /\ line = "MARK" => held <= MaxMark \/ held <= 1
    /\ enabled /\ pc # "enable" =>
         /\ rcvstate = "SPACE" => timer + 1 = held /\ timer <= GAP_TICKS
         /\ rcvstate = "MARK" /\ Trusted => timer + 1 = held

RightWidths ==
    \A i \in 2..Len(raw) : i > 2 \/ raw[1].level = "SPACE" => raw[i].width = "right"

WidthInv == TimerInv /\ (pc # "enable" => RightWidths)

(* What is recorded while the timer is to be trusted is right. *)
LEMMA EntryRight ==
    ASSUME TypeOK, TimerInv, SenseInv, enabled, pc # "enable",
           rcvstate = "SPACE" \/ (rcvstate = "MARK" /\ Trusted)
    PROVE  Now = held /\ timer + 1 = Now /\ Entry.width = "right"
  <1>1. timer \in Nat /\ held \in Nat /\ timer + 1 = held
    BY DEF TypeOK, TimerInv
  <1>2. held < TimerMod
    BY <1>1 DEF TimerInv, SenseInv
  <1>3. Now = held
    BY <1>1, <1>2 DEF Now
  <1> QED
    BY <1>1, <1>3, EntryType

LEMMA AppendRight ==
    ASSUME TypeOK, RightWidths, raw' = Append(raw, Entry),
           Trusted => Entry.width = "right"
    PROVE  RightWidths'
  <1>1. raw \in Seq(Entries) /\ Len(raw) \in Nat
    BY LenProperties DEF TypeOK
  <1>2. /\ Len(raw') = Len(raw) + 1
        /\ \A i \in 1..Len(raw) : raw'[i] = raw[i]
        /\ raw'[Len(raw) + 1] = Entry
    BY <1>1, EntryType, AppendProperties
  <1> SUFFICES ASSUME NEW i \in 2..Len(raw'), i > 2 \/ raw'[1].level = "SPACE"
               PROVE  raw'[i].width = "right"
    BY DEF RightWidths
  <1>3. Len(raw) >= 1 /\ raw'[1] = raw[1] /\ raw # <<>>
    BY <1>1, <1>2, EmptySeq
  <1>4. CASE i \in 2..Len(raw)
    BY <1>1, <1>2, <1>3, <1>4 DEF RightWidths
  <1>5. CASE i = Len(raw) + 1
    <2>1. Trusted
      BY <1>1, <1>3, <1>5 DEF Trusted
    <2> QED
      BY <1>2, <1>5, <2>1
  <1> QED
    BY <1>1, <1>2, <1>4, <1>5

LEMMA SampleWidths ==
    ASSUME TypeOK, SenseInv, WidthInv, NEW level \in Levels, ISR(level)
    PROVE  WidthInv'
  <1>1. /\ enabled /\ pc' = pc /\ line' = level
        /\ level = "MARK" /\ line = "MARK" => held < MaxMark
        /\ held' = IF level # line THEN 1 ELSE IF held < TimerMod THEN held + 1 ELSE held
    BY DEF ISR, main, Sampled
  <1>2. timer \in Nat /\ held \in Nat /\ line \in Levels /\ level \in Levels
    BY DEF TypeOK
  <1>3. line' = "MARK" => held' <= MaxMark \/ held' <= 1
    BY <1>1, <1>2
  <1>4. CASE pc = "enable"
    BY <1>1, <1>3, <1>4 DEF WidthInv, TimerInv
  <1>5. ASSUME pc # "enable" PROVE RightWidths'
    <2>1. CASE raw' = raw
      BY <1>5, <2>1 DEF WidthInv, RightWidths
    <2>2. CASE raw' = <<Entry>>
      <3>1. Len(raw') = 1
        BY <2>2
      <3> QED
        BY <3>1 DEF RightWidths
    <2>3. CASE raw' = Append(raw, Entry) /\ rcvstate \in {"MARK", "SPACE"}
      BY <1>1, <1>5, <2>3, EntryRight, AppendRight DEF WidthInv
    <2> QED
      BY <1>5, <2>1, <2>2, <2>3, SampleCases
  <1>6. ASSUME pc # "enable", rcvstate' = "SPACE"
        PROVE  timer' + 1 = held' /\ timer' <= GAP_TICKS
    <2>1. CASE RecordsMark(level)
      <3>1. line = "MARK" /\ level = "SPACE" /\ timer' = 0
        BY <1>1, <1>6, <2>1 DEF RecordsMark, State, SenseInv
      <3> QED
        BY <1>1, <3>1
    <2>2. CASE Counts(level)
      <3>1. /\ rcvstate = "SPACE" /\ level = "SPACE" /\ line = "SPACE"
            /\ Now <= GAP_TICKS /\ timer' = Now
        BY <1>1, <1>6, <2>2 DEF Counts, State, SenseInv
      <3>2. Now = held /\ timer + 1 = Now
        BY <1>1, <1>6, <3>1, EntryRight DEF WidthInv
      <3> QED
        BY <1>1, <1>2, <3>1, <3>2
    <2> QED
      BY <1>6, <2>1, <2>2 DEF ISR, IgnoresMark, StartsFrame, RecordsSpace, EndsFrame,
           RestartsGap
  <1>7. ASSUME pc # "enable", rcvstate' = "MARK", Trusted' PROVE timer' + 1 = held'
    <2>1. CASE StartsFrame(level)
      <3>1. raw' = <<Entry>> /\ timer' = 0 /\ level = "MARK"
        BY <2>1 DEF StartsFrame
      <3>2. raw'[1] = Entry /\ Len(raw') = 1
        BY <3>1
      <3>3. line = "SPACE"
        BY <1>7, <3>2, EntryType DEF Trusted
      <3> QED
        BY <1>1, <3>1, <3>3
    <2>2. CASE RecordsSpace(level)
      <3>1. line = "SPACE" /\ level = "MARK" /\ timer' = 0
        BY <1>1, <1>7, <2>2 DEF RecordsSpace, State, SenseInv
      <3> QED
        BY <1>1, <3>1
    <2>3. CASE Counts(level)
      <3>1. /\ rcvstate = "MARK" /\ level = "MARK" /\ line = "MARK"
            /\ raw' = raw /\ timer' = Now
        BY <1>1, <1>7, <2>3 DEF Counts, State, SenseInv
      <3>2. Trusted
        BY <1>7, <3>1 DEF Trusted
      <3>3. Now = held /\ timer + 1 = Now
        BY <1>1, <1>7, <3>1, <3>2, EntryRight DEF WidthInv
      <3>4. held' = held + 1
        BY <1>1, <1>2, <3>1
      <3> QED
        BY <1>2, <3>1, <3>3, <3>4
    <2> QED
      BY <1>7, <2>1, <2>2, <2>3 DEF ISR, IgnoresMark, RecordsMark, EndsFrame, RestartsGap
  <1> QED
    BY <1>1, <1>3, <1>4, <1>5, <1>6, <1>7 DEF WidthInv, TimerInv

LEMMA WidthStep == TypeOK /\ SenseInv /\ WidthInv /\ [Next]_vars => WidthInv'
  <1> SUFFICES ASSUME TypeOK, SenseInv, WidthInv, [Next]_vars PROVE WidthInv'
    OBVIOUS
  <1>1. CASE \E level \in Levels : ISR(level)
    BY <1>1, SampleWidths
  <1>2. CASE Unseen
    <2>1. ~enabled' /\ held' = 0 /\ pc' = pc /\ raw' = raw
      BY <1>2 DEF Unseen, main, irparams
    <2> QED
      BY <2>1 DEF WidthInv, TimerInv, RightWidths
  <1>3. CASE Sends
    <2>1. ~enabled' /\ held' = held /\ line' = line /\ raw' = raw /\ pc # "enable"
      BY <1>3 DEF Sends, irparams
    <2> QED
      BY <2>1 DEF WidthInv, TimerInv, RightWidths
  <1>4. CASE EnableIRIn
    <2>1. pc' = "enable" /\ held' = held /\ line' = line
      BY <1>4 DEF EnableIRIn
    <2> QED
      BY <2>1 DEF WidthInv, TimerInv
  <1>5. CASE EnableResets \/ ResumeLength
    <2>1. raw' = <<>> /\ Len(raw') = 0 /\ held' = held /\ line' = line
      BY <1>5, EmptySeq DEF EnableResets, ResumeLength
    <2>2. rcvstate' # "SPACE"
      BY <1>5 DEF EnableResets, ResumeLength, SenseInv
    <2> QED
      BY <2>1, <2>2 DEF WidthInv, TimerInv, Trusted, RightWidths
  <1>6. CASE \/ DecodeReadsLength \/ DecodeNotReady \/ DecodeReady \/ Decodes
             \/ Undecodable \/ ResumeState \/ UNCHANGED vars
    <2>1. /\ raw' = raw /\ timer' = timer /\ held' = held /\ line' = line
          /\ rcvstate' \in {rcvstate, "IDLE"}
          /\ enabled' = enabled /\ (pc = "enable" => pc' = "enable")
      BY <1>6 DEF DecodeReadsLength, DecodeNotReady, DecodeReady, Decodes, Undecodable,
           ResumeState, irparams, vars
    <2> QED
      BY <2>1 DEF WidthInv, TimerInv, Trusted, RightWidths
  <1> QED
    BY <1>1, <1>2, <1>3, <1>4, <1>5, <1>6 DEF Next, Main

(* Every width behind the gap that a decoder compares with its protocol is *)
(* what was seen on the line: neither sending nor the race in resume() nor *)
(* the wrap of the timer gets into it.                                     *)
THEOREM Widths == Spec => []WidthsRight
  <1>1. Init => WidthInv
    BY EmptySeq DEF Init, WidthInv, TimerInv, RightWidths
  <1>2. Spec => []WidthInv
    BY <1>1, WidthStep, TypeCorrect, SenseHolds, PTL DEF Spec
  <1>3. WidthInv => WidthsRight
    BY DEF WidthInv, RightWidths, WidthsRight, InUse
  <1> QED
    BY <1>2, <1>3, PTL
===============================================================================
