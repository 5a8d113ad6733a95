------------------------------ MODULE IrReceiver ------------------------------
(***************************************************************************)
(* The infrared receiver of IRremote.cpp: the Timer2 interrupt, which      *)
(* samples the detector every 50 microseconds and fills irparams, against  *)
(* the main program, which reads irparams without disabling interrupts.    *)
(*                                                                         *)
(* The main program is the loop of a sketch that both receives and sends:  *)
(* IRrecord.pde, which calls enableIRIn() again after it has sent, or      *)
(* MQTT_IR_8_1.ino, which does not.  An interrupt can come between any two *)
(* of its accesses to irparams; two statements of the library that follow  *)
(* one another directly are too quick for two interrupts.                  *)
(*                                                                         *)
(* A width is reduced to how it compares with the time really measured,    *)
(* rawlen is the length of raw.                                            *)
(***************************************************************************)
EXTENDS Naturals, Sequences

CONSTANTS
    RAWBUF,        \* entries of rawbuf
    GAP_TICKS,     \* a space of so many ticks separates transmissions
    TimerMod,      \* the timer counts modulo this, 2^16 in the program
    MaxMark,       \* bound on the ticks of a mark
    Reenables      \* the sketch calls enableIRIn() after sending

ASSUME RawbufAssumption == RAWBUF \in Nat \ {0, 1}
ASSUME TimerAssumption ==
    GAP_TICKS \in Nat \ {0} /\ TimerMod \in Nat /\ TimerMod > GAP_TICKS + 1
ASSUME MaxMarkAssumption == MaxMark \in Nat /\ MaxMark < TimerMod
ASSUME ReenablesAssumption == Reenables \in BOOLEAN

VARIABLES
    pc,            \* where the main program is
    enabled,       \* TOIE2: the timer interrupt is enabled
    rcvstate, timer, raw,        \* irparams
    seen,          \* results->rawlen
    interrupted,   \* an interrupt came since the last statement
    line,          \* the level of the detector
    held           \* samples the receiver has seen of this level

irparams == <<rcvstate, timer, raw>>
main == <<pc, enabled, seen>>
vars == <<pc, enabled, rcvstate, timer, raw, seen, interrupted, line, held>>

Levels == {"MARK", "SPACE"}
Entries == [level : Levels, width : {"right", "late", "under", "over"}]

(* "none" is the zero that rcvstate is initialised with. *)
States == {"none", "IDLE", "MARK", "SPACE", "STOP"}

(* The places reached directly after a statement on irparams and directly  *)
(* before the next one.                                                    *)
Between == {"enable", "decode", "resume_len"}
InUse == {"ready", "using", "resume"}
PCs == {"setup", "loop", "sent"} \cup Between \cup InUse

TypeOK ==
    /\ pc \in PCs
    /\ enabled \in BOOLEAN /\ interrupted \in BOOLEAN
    /\ rcvstate \in States
    /\ timer \in 0..(TimerMod - 1)
    /\ raw \in Seq(Entries) /\ Len(raw) <= RAWBUF
    /\ seen \in 0..RAWBUF
    /\ line \in Levels
    /\ held \in 0..TimerMod

Init ==
    /\ pc = "setup" /\ enabled = FALSE
    /\ rcvstate = "none" /\ timer = 0 /\ raw = <<>>
    /\ seen = 0 /\ interrupted = FALSE
    /\ line = "SPACE" /\ held = 0

-------------------------------------------------------------------------------
(* ISR(TIMER2_OVF_vect), with level the sample it takes *)

Now == IF timer + 1 = TimerMod THEN 0 ELSE timer + 1

(* Mutant: the buffer is found full one entry late. *)
FullLate == Len(raw) > RAWBUF

Full == Len(raw) >= RAWBUF

State == IF Full THEN "STOP" ELSE rcvstate

(* The entry that is recorded when the level changes: the line's old level *)
(* and how the timer compares with the samples seen of it.  A gap is late: *)
(* it counts from the sample that ended the mark, and an interrupt that    *)
(* was pending when enableIRIn() was called counts as well.                *)
Entry ==
    [level |-> line,
     width |-> CASE Now < held -> "under"
                 [] Now = held -> "right"
                 [] Now \in {held + 1, held + 2} -> "late"
                 [] Now > held + 2 -> "over"]

(* STATE_IDLE: a mark after too short a space. *)
IgnoresMark(level) ==
    /\ State = "IDLE" /\ level = "MARK" /\ Now < GAP_TICKS
    /\ timer' = 0 /\ rcvstate' = "IDLE"
    /\ UNCHANGED raw

(* STATE_IDLE: the gap just ended. *)
StartsFrame(level) ==
    /\ State = "IDLE" /\ level = "MARK" /\ Now >= GAP_TICKS
    /\ raw' = <<Entry>>
    /\ timer' = 0 /\ rcvstate' = "MARK"

(* Mutants: the state is left as it is; the frame that fills the buffer is *)
(* ready at once; the timer is not reset.                                  *)
RecordsMarkStays(level) ==
    /\ State = "MARK" /\ level = "SPACE"
    /\ raw' = Append(raw, Entry)
    /\ timer' = 0 /\ rcvstate' = "MARK"

RecordsMarkEagerly(level) ==
    /\ State = "MARK" /\ level = "SPACE"
    /\ raw' = Append(raw, Entry)
    /\ timer' = 0 /\ rcvstate' = IF Len(raw) + 1 >= RAWBUF THEN "STOP" ELSE "SPACE"

RecordsMarkRunning(level) ==
    /\ State = "MARK" /\ level = "SPACE"
    /\ raw' = Append(raw, Entry)
    /\ timer' = Now /\ rcvstate' = "SPACE"

(* STATE_MARK: the mark ended. *)
RecordsMark(level) ==
    /\ State = "MARK" /\ level = "SPACE"
    /\ raw' = Append(raw, Entry)
    /\ timer' = 0 /\ rcvstate' = "SPACE"

(* STATE_SPACE: the space ended. *)
RecordsSpace(level) ==
    /\ State = "SPACE" /\ level = "MARK"
    /\ raw' = Append(raw, Entry)
    /\ timer' = 0 /\ rcvstate' = "MARK"

(* STATE_SPACE: the space is a gap, the frame is ready. *)
EndsFrame(level) ==
    /\ State = "SPACE" /\ level = "SPACE" /\ Now > GAP_TICKS
    /\ timer' = Now /\ rcvstate' = "STOP"
    /\ UNCHANGED raw

(* STATE_STOP: only the gap is timed. *)
RestartsGap(level) ==
    /\ State = "STOP" /\ level = "MARK"
    /\ timer' = 0 /\ rcvstate' = "STOP"
    /\ UNCHANGED raw

(* Otherwise the timer goes on. *)
Counts(level) ==
    /\ \/ State = "none"
       \/ State = "MARK" /\ level = "MARK"
       \/ State \in {"IDLE", "STOP"} /\ level = "SPACE"
       \/ State = "SPACE" /\ level = "SPACE" /\ Now <= GAP_TICKS
    /\ timer' = Now /\ rcvstate' = State
    /\ UNCHANGED raw

Sampled(level) ==
    /\ level = "MARK" /\ line = "MARK" => held < MaxMark
    /\ line' = level
    /\ held' = IF level # line THEN 1 ELSE IF held < TimerMod THEN held + 1 ELSE held

ISR(level) ==
    /\ enabled
    /\ pc \in Between => ~interrupted
    /\ interrupted' = (pc \in Between)
    /\ \/ IgnoresMark(level) \/ StartsFrame(level)
       \/ RecordsMark(level) \/ RecordsSpace(level) \/ EndsFrame(level)
       \/ RestartsGap(level) \/ Counts(level)
    /\ Sampled(level)
    /\ UNCHANGED main

(* The line changes while no interrupt looks. *)
Unseen ==
    /\ ~enabled
    /\ line' \in Levels \ {line}
    /\ held' = 0
    /\ UNCHANGED <<main, irparams, interrupted>>

-------------------------------------------------------------------------------
(* The main program *)

(* enableIRIn() up to sei(); an interrupt may have been pending. *)
EnableIRIn ==
    /\ pc \in {"setup", "sent"}
    /\ enabled' = TRUE
    /\ pc' = "enable" /\ interrupted' = FALSE
    /\ UNCHANGED <<irparams, seen, line, held>>

(* The rest of enableIRIn().  The timer starts anew in the first lines, so *)
(* that no interrupt comes between these two.                              *)
EnableResets ==
    /\ pc = "enable"
    /\ rcvstate' = "IDLE" /\ raw' = <<>>
    /\ pc' = "loop" /\ interrupted' = FALSE
    /\ UNCHANGED <<enabled, timer, seen, line, held>>

(* decode(): the length is copied first ... *)
DecodeReadsLength ==
    /\ pc = "loop"
    /\ seen' = Len(raw)
    /\ pc' = "decode" /\ interrupted' = FALSE
    /\ UNCHANGED <<enabled, irparams, line, held>>

(* ... then the state is tested. *)
DecodeNotReady ==
    /\ pc = "decode" /\ rcvstate # "STOP"
    /\ pc' = "loop" /\ interrupted' = FALSE
    /\ UNCHANGED <<enabled, irparams, seen, line, held>>

(* Mutant: any entry will do. *)
DecodeReadyNonempty ==
    /\ pc = "decode" /\ raw # <<>>
    /\ pc' = "ready" /\ interrupted' = FALSE
    /\ UNCHANGED <<enabled, irparams, seen, line, held>>

DecodeReady ==
    /\ pc = "decode" /\ rcvstate = "STOP"
    /\ pc' = "ready" /\ interrupted' = FALSE
    /\ UNCHANGED <<enabled, irparams, seen, line, held>>

(* A protocol fits.  (Which does is a matter of IrCodec.tla: not all look  *)
(* at the length, and some entries may be of an earlier frame.)            *)
Decodes ==
    /\ pc = "ready"
    /\ pc' = "using"
    /\ UNCHANGED <<enabled, irparams, seen, interrupted, line, held>>

(* Mutant: decode() leaves it to the sketch, which resumes what it got. *)
UndecodableLeft ==
    /\ pc = "ready" /\ seen < 6
    /\ pc' = "loop"
    /\ UNCHANGED <<enabled, irparams, seen, interrupted, line, held>>

(* None fits, nor has decodeHash() the 6 entries it takes whatever they    *)
(* are: decode() throws the frame away.                                    *)
Undecodable ==
    /\ pc = "ready" /\ seen < 6
    /\ pc' = "resume"
    /\ UNCHANGED <<enabled, irparams, seen, interrupted, line, held>>

(* resume(), called by decode() or, after dump(), by the sketch. *)
ResumeState ==
    /\ pc \in {"using", "resume"}
    /\ rcvstate' = "IDLE"
    /\ pc' = "resume_len" /\ interrupted' = FALSE
    /\ UNCHANGED <<enabled, timer, raw, seen, line, held>>

ResumeLength ==
    /\ pc = "resume_len"
    /\ raw' = <<>>
    /\ pc' = "loop" /\ interrupted' = FALSE
    /\ UNCHANGED <<enabled, rcvstate, timer, seen, line, held>>

(* A command to send: enableIROut() disables the timer interrupt. *)
Sends ==
    /\ pc = "loop"
    /\ enabled' = FALSE
    /\ pc' = IF Reenables THEN "sent" ELSE "loop"
    /\ UNCHANGED <<irparams, seen, interrupted, line, held>>

Main ==
    \/ EnableIRIn \/ EnableResets
    \/ DecodeReadsLength \/ DecodeNotReady \/ DecodeReady
    \/ Decodes \/ Undecodable \/ ResumeState \/ ResumeLength

Next ==
    \/ \E level \in Levels : ISR(level)
    \/ Unseen
    \/ Main
    \/ Sends

Spec == Init /\ [][Next]_vars

(* loop() runs for ever; the interrupt is too short to keep it from that,  *)
(* and the button that sends is released again.                            *)
FairSpec == Spec /\ WF_vars(Main)

-------------------------------------------------------------------------------
(* Properties *)

(* Behind the first entry marks and spaces alternate, and the state says   *)
(* which is timed next: the decoders go by the parity of the index.  This  *)
(* is so even in a frame that resume() cut the beginning of.               *)
RawAlternates ==
    pc # "enable" =>
        /\ \A i \in 2..(Len(raw) - 1) : raw[i].level # raw[i + 1].level
        /\ rcvstate = "MARK" /\ Len(raw) > 1 => raw[Len(raw)].level = "SPACE"
        /\ rcvstate = "SPACE" => raw # <<>> /\ raw[Len(raw)].level = "MARK"

(* decode() copies rawlen before it tests rcvstate, and an interrupt may   *)
(* come between; still the copy is the length of the frame it works on,    *)
(* because the interrupt that makes a frame ready records nothing.         *)
LengthIsCurrent == pc \in InUse => seen = Len(raw)

(* From the test in decode() until resume() the interrupt leaves alone the *)
(* frame that the decoders and the sketch read through results->rawbuf.    *)
FrameIsStable == [][(pc \in InUse) => raw' = raw]_vars

(* In the frame being decoded every width behind the gap is what was seen  *)
(* on the line, with sending and resuming at any moment before; only a     *)
(* frame whose first entry is no gap also has a mark that is cut short.    *)
WidthsRight ==
    pc \in InUse =>
        \A i \in 2..Len(raw) :
            i > 2 \/ raw[1].level = "SPACE" => raw[i].width = "right"

(* The receiver is always ready for a frame again. *)
HearsAgain == []<>(enabled /\ rcvstate # "STOP")
===============================================================================
