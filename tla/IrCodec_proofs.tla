---------------------------- MODULE IrCodec_proofs ----------------------------
(***************************************************************************)
(* That codes are decoded to what was sent, for every value, every excess  *)
(* of the marks and every rounding.  A bit of NEC, Samsung or Sony stands  *)
(* at its own place of the buffer.  One of RC5 or RC6 stands where what    *)
(* came before it has put it: the levels are counted through, once as they *)
(* are joined to widths and once as these are taken apart again.           *)
(*                                                                         *)
(* And that a key has one code, whether a decoder or the hash finds it:    *)
(* either a decoder surely takes what is received, or all of them surely   *)
(* refuse it, and the hash compares widths that were sent far enough apart *)
(* for the comparison to come out the same whatever happened to them.      *)
(***************************************************************************)
EXTENDS IrCodec, SequenceTheorems, Induction, TLAPS

-------------------------------------------------------------------------------
(* The widths that are sent. *)

IsPulse(P) ==
    /\ P.header \in Nat /\ P.gap \in Nat /\ P.stop \in BOOLEAN
    /\ P.mark \in [1..2 -> Nat] /\ P.space \in [1..2 -> Nat]

LEMMA BodyWidths ==
    ASSUME NEW P, IsPulse(P), NEW n \in 1..MaxBits, NEW bits \in Seq({0, 1}), Len(bits) = n
    PROVE  /\ Body(P, bits) \in Seq(Nat)
           /\ Len(Body(P, bits)) = IF P.stop THEN 2 * n + 1 ELSE 2 * n - 1
           /\ \A j \in 1..n : Body(P, bits)[2 * j - 1] = P.mark[bits[j] + 1]
           /\ \A j \in 1..(IF P.stop THEN n ELSE n - 1) :
                 Body(P, bits)[2 * j] = P.space[bits[j] + 1]
           /\ P.stop => Body(P, bits)[2 * n + 1] = P.mark[1]
<1> DEFINE m == IF P.stop THEN 2 * n + 1 ELSE 2 * n - 1
           at(i) == IF ~IsMark(i) THEN P.space[bits[i \div 2] + 1]
                    ELSE IF (i + 1) \div 2 <= Len(bits) THEN P.mark[bits[(i + 1) \div 2] + 1]
                    ELSE P.mark[1]
<1>1. n \in Nat /\ n > 0 /\ P.stop \in BOOLEAN /\ m \in Nat
  BY DEF IsPulse, MaxBits
<1>2. Body(P, bits) = [i \in 1..m |-> at(i)]
  BY DEF Body
<1>3. \A j \in 1..n : bits[j] + 1 \in 1..2
  <2> SUFFICES ASSUME NEW j \in 1..n PROVE bits[j] + 1 \in 1..2
    OBVIOUS
  <2>1. bits[j] \in {0, 1}
    BY ElementOfSeq
  <2> QED BY <2>1
<1>4. \A i \in 1..m : at(i) \in Nat
  <2> SUFFICES ASSUME NEW i \in 1..m PROVE at(i) \in Nat
    OBVIOUS
  <2>1. CASE ~IsMark(i)
    <3>1. (i \div 2) \in 1..n
      BY <1>1, <2>1 DEF IsMark
    <3>2. bits[i \div 2] + 1 \in 1..2
      BY <1>3, <3>1
    <3> QED BY <2>1, <3>2 DEF IsPulse
  <2>2. CASE IsMark(i) /\ (i + 1) \div 2 <= Len(bits)
    <3>1. ((i + 1) \div 2) \in 1..n
      BY <1>1, <2>2
    <3>2. bits[(i + 1) \div 2] + 1 \in 1..2
      BY <1>3, <3>1
    <3> QED BY <2>2, <3>2 DEF IsPulse
  <2>3. CASE IsMark(i) /\ ~((i + 1) \div 2 <= Len(bits))
    BY <2>3 DEF IsPulse
  <2> QED BY <2>1, <2>2, <2>3
<1> HIDE DEF at
<1>5. Body(P, bits) \in Seq(Nat) /\ Len(Body(P, bits)) = m
  BY <1>1, <1>2, <1>4
<1>6. \A j \in 1..n : Body(P, bits)[2 * j - 1] = P.mark[bits[j] + 1]
  <2> SUFFICES ASSUME NEW j \in 1..n PROVE Body(P, bits)[2 * j - 1] = P.mark[bits[j] + 1]
    OBVIOUS
  <2>1. 2 * j - 1 \in 1..m /\ IsMark(2 * j - 1) /\ ((2 * j - 1) + 1) \div 2 = j
    BY <1>1 DEF IsMark
  <2> QED BY <1>2, <2>1 DEF at
<1>7. \A j \in 1..(IF P.stop THEN n ELSE n - 1) : Body(P, bits)[2 * j] = P.space[bits[j] + 1]
  <2> SUFFICES ASSUME NEW j \in 1..(IF P.stop THEN n ELSE n - 1)
               PROVE Body(P, bits)[2 * j] = P.space[bits[j] + 1]
    OBVIOUS
  <2>1. 2 * j \in 1..m /\ ~IsMark(2 * j) /\ (2 * j) \div 2 = j
    BY <1>1 DEF IsMark
  <2> QED BY <1>2, <2>1 DEF at
<1>8. ASSUME P.stop PROVE Body(P, bits)[2 * n + 1] = P.mark[1]
  <2>1. 2 * n + 1 \in 1..m /\ IsMark(2 * n + 1) /\ ~(((2 * n + 1) + 1) \div 2 <= n)
    BY <1>1, <1>8 DEF IsMark
  <2> QED BY <1>2, <2>1 DEF at
<1> QED BY <1>5, <1>6, <1>7, <1>8

LEMMA LineWidths ==
    ASSUME NEW P, IsPulse(P), NEW n \in 1..MaxBits, NEW bits \in Seq({0, 1}), Len(bits) = n
    PROVE  /\ WithHeader(P, bits) \in Seq(Nat)
           /\ Len(WithHeader(P, bits)) = IF P.stop THEN 2 * n + 3 ELSE 2 * n + 1
           /\ WithHeader(P, bits)[1] = P.header
           /\ WithHeader(P, bits)[2] = P.gap
           /\ \A j \in 1..n : WithHeader(P, bits)[2 * j + 1] = P.mark[bits[j] + 1]
           /\ \A j \in 1..(IF P.stop THEN n ELSE n - 1) :
                 WithHeader(P, bits)[2 * j + 2] = P.space[bits[j] + 1]
           /\ P.stop => WithHeader(P, bits)[2 * n + 3] = P.mark[1]
<1> DEFINE h == <<P.header, P.gap>>
           b == Body(P, bits)
<1>1. n \in Nat /\ n > 0 /\ P.stop \in BOOLEAN
  <2>1. n \in Nat /\ n > 0
    BY DEF MaxBits
  <2>2. P.stop \in BOOLEAN
    BY Zenon DEF IsPulse
  <2> QED BY <2>1, <2>2, Zenon
<1>2. h \in Seq(Nat) /\ Len(h) = 2 /\ h[1] = P.header /\ h[2] = P.gap
  BY DEF IsPulse
<1>3. /\ b \in Seq(Nat)
      /\ Len(b) = IF P.stop THEN 2 * n + 1 ELSE 2 * n - 1
      /\ \A j \in 1..n : b[2 * j - 1] = P.mark[bits[j] + 1]
      /\ \A j \in 1..(IF P.stop THEN n ELSE n - 1) : b[2 * j] = P.space[bits[j] + 1]
      /\ P.stop => b[2 * n + 1] = P.mark[1]
  <2>1. bits \in Seq({0, 1}) /\ Len(bits) = n /\ IsPulse(P) /\ n \in 1..MaxBits
    OBVIOUS
  <2> HIDE DEF b
  <2> QED BY <2>1, BodyWidths, Zenon DEF b
<1> HIDE DEF h, b
<1>4. WithHeader(P, bits) = h \o b
  BY DEF WithHeader, h, b
<1> DEFINE w == WithHeader(P, bits)
<1>5. /\ w \in Seq(Nat) /\ Len(w) = 2 + Len(b)
      /\ \A i \in 1..(2 + Len(b)) : w[i] = IF i <= 2 THEN h[i] ELSE b[i - 2]
  <2>1. h \in Seq(Nat) /\ b \in Seq(Nat)
    BY <1>2, <1>3
  <2>2. /\ h \o b \in Seq(Nat) /\ Len(h \o b) = Len(h) + Len(b)
        /\ \A i \in 1..(Len(h) + Len(b)) :
              (h \o b)[i] = IF i <= Len(h) THEN h[i] ELSE b[i - Len(h)]
    BY <2>1, ConcatProperties, Zenon
  <2> QED BY <1>2, <1>4, <2>2, Zenon
<1> HIDE DEF w
<1>6. Len(w) = IF P.stop THEN 2 * n + 3 ELSE 2 * n + 1
  BY <1>1, <1>3, <1>5
<1>7. w[1] = P.header /\ w[2] = P.gap
  <2>1. Len(b) \in Nat /\ 1 \in 1..(2 + Len(b)) /\ 2 \in 1..(2 + Len(b))
    BY <1>3
  <2>2. w[1] = h[1] /\ w[2] = h[2]
    BY <1>5, <2>1
  <2> QED BY <1>2, <2>2
<1>8. \A j \in 1..n : w[2 * j + 1] = P.mark[bits[j] + 1]
  <2> SUFFICES ASSUME NEW j \in 1..n PROVE w[2 * j + 1] = P.mark[bits[j] + 1]
    OBVIOUS
  <2>1. 2 * j + 1 \in 1..(2 + Len(b)) /\ ~(2 * j + 1 <= 2) /\ (2 * j + 1) - 2 = 2 * j - 1
    BY <1>1, <1>3
  <2>2. w[2 * j + 1] = b[(2 * j + 1) - 2]
    BY <1>5, <2>1
  <2> QED BY <1>3, <2>1, <2>2
<1>9. \A j \in 1..(IF P.stop THEN n ELSE n - 1) : w[2 * j + 2] = P.space[bits[j] + 1]
  <2> SUFFICES ASSUME NEW j \in 1..(IF P.stop THEN n ELSE n - 1)
               PROVE w[2 * j + 2] = P.space[bits[j] + 1]
    OBVIOUS
  <2>1. 2 * j + 2 \in 1..(2 + Len(b)) /\ ~(2 * j + 2 <= 2) /\ (2 * j + 2) - 2 = 2 * j
    BY <1>1, <1>3
  <2>2. w[2 * j + 2] = b[(2 * j + 2) - 2]
    BY <1>5, <2>1
  <2> QED BY <1>3, <2>1, <2>2
<1>10. ASSUME P.stop PROVE w[2 * n + 3] = P.mark[1]
  <2>1. 2 * n + 3 \in 1..(2 + Len(b)) /\ ~(2 * n + 3 <= 2) /\ (2 * n + 3) - 2 = 2 * n + 1
    BY <1>1, <1>3, <1>10
  <2>2. w[2 * n + 3] = b[(2 * n + 3) - 2]
    BY <1>5, <2>1
  <2> QED BY <1>3, <1>10, <2>1, <2>2
<1> QED BY <1>5, <1>6, <1>7, <1>8, <1>9, <1>10 DEF w

-------------------------------------------------------------------------------
(* The widths that are received. *)

(* A width of the line after sampling: less than a tick off either way.    *)
Near(ticks, us) == us <= 50 * ticks + 49 /\ 50 * ticks <= us + 49

(* What a space of a header or of a bit measures.                          *)
SpaceWidth(us) == us >= 180 /\ us <= 4500
ShortSpaces(widths) == \A i \in DOMAIN widths : ~IsMark(i) => SpaceWidth(widths[i])

LEMMA TickBounds ==
    ASSUME NEW widths \in Seq(Nat), NEW e \in 0..180, NEW up \in SUBSET Nat,
           NEW i \in DOMAIN widths, ShortSpaces(widths)
    PROVE  /\ Seen(widths, e, up)[i] \in Nat
           /\ IsMark(i) => Near(Seen(widths, e, up)[i], widths[i] + e)
           /\ ~IsMark(i) => Near(Seen(widths, e, up)[i], widths[i] - e)
<1> DEFINE us == IF IsMark(i) THEN widths[i] + e ELSE widths[i] - e
<1>1. i \in Nat /\ widths[i] \in Nat /\ e \in Nat
  BY LenProperties, ElementOfSeq
<1>2. us \in Nat
  <2>1. CASE IsMark(i)
    BY <1>1, <2>1
  <2>2. CASE ~IsMark(i)
    <3>1. widths[i] >= 180
      BY <2>2 DEF ShortSpaces, SpaceWidth
    <3> QED BY <1>1, <2>2, <3>1, SMTT(30)
  <2> QED BY <2>1, <2>2
<1> DEFINE t == IF i \in up THEN (us + 49) \div 50 ELSE us \div 50
<1>3. Seen(widths, e, up)[i] = t
  BY DEF Seen
<1>4. t \in Nat /\ Near(t, us)
  <2> HIDE DEF us
  <2> QED BY <1>2 DEF Near
<1>5. (IsMark(i) => us = widths[i] + e) /\ (~IsMark(i) => us = widths[i] - e)
  OBVIOUS
<1> HIDE DEF us, t
<1> QED BY <1>3, <1>4, <1>5

LEMMA ShortOfGap ==
    ASSUME NEW t \in Nat, NEW u \in Nat, NEW e \in 0..180, SpaceWidth(u), Near(t, u - e)
    PROVE  t <= GAP_TICKS
BY DEF SpaceWidth, Near, GAP_TICKS

(* No space of a header or of a bit is long enough to be taken for a gap:  *)
(* the frame is the whole line.                                            *)
LEMMA WholeLine ==
    ASSUME NEW widths \in Seq(Nat), NEW e \in 0..180, NEW up \in SUBSET Nat,
           ShortSpaces(widths), Len(widths) < RAWBUF,
           NEW first \in DOMAIN widths, NEW last \in first..Len(widths),
           IsFrame(Seen(widths, e, up), first, last)
    PROVE  /\ Recorded(Seen(widths, e, up), first, last) \in Seq(Nat)
           /\ Len(Recorded(Seen(widths, e, up), first, last)) = Len(widths)
           /\ \A i \in 1..Len(widths) :
                 Recorded(Seen(widths, e, up), first, last)[i] = Seen(widths, e, up)[i]
<1> DEFINE ticks == Seen(widths, e, up)
<1>1. DOMAIN widths = 1..Len(widths) /\ Len(widths) \in Nat
  BY LenProperties
<1>2. DOMAIN ticks = DOMAIN widths
  BY DEF Seen
<1>3. \A i \in DOMAIN widths : ticks[i] \in Nat /\ (~IsMark(i) => ticks[i] <= GAP_TICKS)
  <2> SUFFICES ASSUME NEW i \in DOMAIN widths
               PROVE ticks[i] \in Nat /\ (~IsMark(i) => ticks[i] <= GAP_TICKS)
    OBVIOUS
  <2>1. ticks[i] \in Nat /\ (~IsMark(i) => Near(ticks[i], widths[i] - e))
    BY TickBounds
  <2>2. widths[i] \in Nat
    BY <1>1, ElementOfSeq
  <2> HIDE DEF ticks
  <2>3. ASSUME ~IsMark(i) PROVE ticks[i] <= GAP_TICKS
    <3>1. SpaceWidth(widths[i])
      BY <2>3 DEF ShortSpaces
    <3> QED BY <2>1, <2>2, <2>3, <3>1, ShortOfGap
  <2> QED BY <2>1, <2>3
<1>4. ticks \in Seq(Nat) /\ Len(ticks) = Len(widths)
  <2>1. ticks = [i \in 1..Len(widths) |-> ticks[i]]
    BY <1>1, <1>2 DEF Seen
  <2> HIDE DEF ticks
  <2> QED BY <1>1, <1>2, <1>3, <2>1
<1> HIDE DEF ticks
<1>5. \A i \in DOMAIN widths : ~IsGap(ticks, i)
  BY <1>2, <1>3 DEF IsGap, GAP_TICKS
<1>6. IsFrame(ticks, first, last)
  BY DEF ticks
<1>7. first = 1
  <2>1. first = 1 \/ IsGap(ticks, first - 1)
    BY <1>6 DEF IsFrame
  <2>2. IsGap(ticks, first - 1) => first - 1 \in DOMAIN widths
    BY <1>2 DEF IsGap
  <2> QED BY <1>5, <2>1, <2>2
<1>8. last = Len(widths)
  <2>1. last = Len(ticks) \/ IsGap(ticks, last + 1)
    BY <1>6 DEF IsFrame
  <2>2. IsGap(ticks, last + 1) => last + 1 \in DOMAIN widths
    BY <1>2 DEF IsGap
  <2> QED BY <1>4, <1>5, <2>1, <2>2
<1>9. last - first + 1 = Len(widths)
  BY <1>1, <1>7, <1>8
<1>10. Recorded(ticks, first, last) = [i \in 1..Len(widths) |-> ticks[first + i - 1]]
  BY <1>1, <1>9 DEF Recorded, RAWBUF
<1>11. \A i \in 1..Len(widths) : ticks[first + i - 1] = ticks[i]
  BY <1>1, <1>7
<1>12. Recorded(ticks, first, last) = [i \in 1..Len(widths) |-> ticks[i]]
  BY <1>10, <1>11
<1> DEFINE r == Recorded(ticks, first, last)
<1>13. r \in Seq(Nat) /\ Len(r) = Len(widths) /\ \A i \in 1..Len(widths) : r[i] = ticks[i]
  <2>1. \A i \in 1..Len(widths) : ticks[i] \in Nat
    BY <1>1, <1>3
  <2> HIDE DEF r
  <2>2. r = [i \in 1..Len(widths) |-> ticks[i]]
    BY <1>12 DEF r
  <2> QED BY <1>1, <2>1, <2>2
<1> QED BY <1>1, <1>13 DEF ticks, r

-------------------------------------------------------------------------------
(* What the decoders find in the buffer. *)

IsRecording(entries, widths, e, up) ==
    \E first, last :
        /\ first \in DOMAIN widths /\ last \in first..Len(widths)
        /\ IsFrame(Seen(widths, e, up), first, last)
        /\ entries = Recorded(Seen(widths, e, up), first, last)

(* A mark or a space of the given width with excess e, after sampling.     *)
MarkSeen(t, us, e) == Near(t, us + e)
SpaceSeen(t, us, e) == Near(t, us - e)

(* The buffer of a frame of n bits of protocol P that was sent complete.   *)
Holds(at, P, bits, n, e) ==
    /\ at[1] \in Nat /\ MarkSeen(at[1], P.header, e)
    /\ at[2] \in Nat /\ SpaceSeen(at[2], P.gap, e)
    /\ \A j \in 1..n : at[2 * j + 1] \in Nat /\ MarkSeen(at[2 * j + 1], P.mark[bits[j] + 1], e)
    /\ \A j \in 1..(IF P.stop THEN n ELSE n - 1) :
          at[2 * j + 2] \in Nat /\ SpaceSeen(at[2 * j + 2], P.space[bits[j] + 1], e)

LEMMA LineHasShortSpaces ==
    ASSUME NEW P, IsPulse(P), NEW n \in 1..MaxBits, NEW bits \in Seq({0, 1}), Len(bits) = n,
           SpaceWidth(P.gap), SpaceWidth(P.space[1]), SpaceWidth(P.space[2])
    PROVE  ShortSpaces(WithHeader(P, bits))
<1> DEFINE w == WithHeader(P, bits)
           m == IF P.stop THEN n ELSE n - 1
<1>1. n \in Nat /\ n > 0
  BY DEF MaxBits
<1>2. P.stop \in BOOLEAN
  BY Zenon DEF IsPulse
<1>3. /\ w \in Seq(Nat) /\ Len(w) = IF P.stop THEN 2 * n + 3 ELSE 2 * n + 1
      /\ w[2] = P.gap
      /\ \A j \in 1..m : w[2 * j + 2] = P.space[bits[j] + 1]
  BY LineWidths
<1> HIDE DEF w
<1>4. \A j \in 1..n : bits[j] = 0 \/ bits[j] = 1
  <2> SUFFICES ASSUME NEW j \in 1..n PROVE bits[j] \in {0, 1}
    OBVIOUS
  <2> QED BY ElementOfSeq
<1>5. SUFFICES ASSUME NEW i \in DOMAIN w, ~IsMark(i) PROVE SpaceWidth(w[i])
  BY DEF ShortSpaces, w
<1>6. i \in 1..Len(w) /\ Len(w) \in Nat
  BY <1>3, LenProperties
<1>7. PICK k \in Nat : i = 2 * k
  <2>1. i \in Nat /\ (i % 2) # 1
    BY <1>5, <1>6 DEF IsMark
  <2>2. i = 2 * (i \div 2) /\ (i \div 2) \in Nat
    BY <2>1
  <2> QED BY <2>2
<1>8. i = 2 \/ \E j \in 1..m : 2 * j + 2 = i
  <2>1. m \in Nat /\ Len(w) <= 2 * m + 3
    BY <1>1, <1>2, <1>3
  <2> HIDE DEF m
  <2>2. k >= 1 /\ 2 * k <= 2 * m + 3
    BY <1>6, <1>7, <2>1
  <2>3. k = 1 \/ (k - 1 \in 1..m /\ 2 * (k - 1) + 2 = i)
    BY <1>7, <2>1, <2>2
  <2> QED BY <1>7, <2>3
<1>9. CASE i = 2
  BY <1>3, <1>9
<1>10. CASE \E j \in 1..m : 2 * j + 2 = i
  <2>1. PICK j \in 1..m : 2 * j + 2 = i
    BY <1>10
  <2>2. j \in 1..n
    BY <1>1, <1>2, <2>1
  <2>3. bits[j] + 1 = 1 \/ bits[j] + 1 = 2
    BY <1>4, <2>2
  <2>4. w[i] = P.space[bits[j] + 1]
    BY <1>3, <2>1
  <2> QED BY <2>3, <2>4
<1> QED BY <1>8, <1>9, <1>10

(* A line without a gap is in the buffer, entry by entry.                  *)
LEMMA BufferOf ==
    ASSUME NEW w \in Seq(Nat), ShortSpaces(w), Len(w) < RAWBUF,
           NEW e \in 0..180, NEW up \in SUBSET Nat,
           NEW entries, IsRecording(entries, w, e, up), NEW junk
    PROVE  /\ Len(entries) = Len(w)
           /\ \A i \in 1..Len(w) :
                 /\ Buffer(entries, junk)[i] \in Nat
                 /\ IsMark(i) => MarkSeen(Buffer(entries, junk)[i], w[i], e)
                 /\ ~IsMark(i) => SpaceSeen(Buffer(entries, junk)[i], w[i], e)
<1> DEFINE at == Buffer(entries, junk)
           len == Len(w)
<1>1. len \in Nat /\ len < 76
  BY LenProperties DEF RAWBUF
<1>2. PICK first, last :
          /\ first \in DOMAIN w /\ last \in first..Len(w)
          /\ IsFrame(Seen(w, e, up), first, last)
          /\ entries = Recorded(Seen(w, e, up), first, last)
  BY DEF IsRecording
<1>3. /\ entries \in Seq(Nat) /\ Len(entries) = len
      /\ \A i \in 1..len : entries[i] = Seen(w, e, up)[i]
  BY <1>2, WholeLine
<1>4. \A i \in 1..len : at[i] = Seen(w, e, up)[i]
  <2> SUFFICES ASSUME NEW i \in 1..len PROVE at[i] = Seen(w, e, up)[i]
    OBVIOUS
  <2>1. i \in Indices /\ i <= Len(entries)
    BY <1>1, <1>3 DEF Indices
  <2>2. at[i] = entries[i]
    BY <2>1 DEF Buffer
  <2> QED BY <1>3, <2>2
<1> HIDE DEF at
<1>5. \A i \in 1..len : /\ at[i] \in Nat
                        /\ IsMark(i) => MarkSeen(at[i], w[i], e)
                        /\ ~IsMark(i) => SpaceSeen(at[i], w[i], e)
  <2> SUFFICES ASSUME NEW i \in 1..len
               PROVE  /\ at[i] \in Nat
                      /\ IsMark(i) => MarkSeen(at[i], w[i], e)
                      /\ ~IsMark(i) => SpaceSeen(at[i], w[i], e)
    OBVIOUS
  <2>1. i \in DOMAIN w
    BY LenProperties
  <2> QED BY <1>4, <2>1, TickBounds DEF MarkSeen, SpaceSeen
<1> QED BY <1>3, <1>5 DEF at

LEMMA DecoderFinds ==
    ASSUME NEW P, IsPulse(P), NEW n \in 1..32, NEW bits \in Seq({0, 1}), Len(bits) = n,
           SpaceWidth(P.gap), SpaceWidth(P.space[1]), SpaceWidth(P.space[2]),
           NEW e \in 0..180, NEW up \in SUBSET Nat,
           NEW entries, IsRecording(entries, WithHeader(P, bits), e, up), NEW junk
    PROVE  /\ Len(entries) + 1 = (IF P.stop THEN 2 * n + 4 ELSE 2 * n + 2)
           /\ Holds(Buffer(entries, junk), P, bits, n, e)
<1> DEFINE w == WithHeader(P, bits)
           m == IF P.stop THEN n ELSE n - 1
           at == Buffer(entries, junk)
           len == Len(w)
<1>1. n \in Nat /\ n > 0 /\ n <= 32 /\ n \in 1..MaxBits
  <2>1. n \in Nat /\ n > 0 /\ n <= 32
    OBVIOUS
  <2> QED BY <2>1 DEF MaxBits
<1>2. P.stop \in BOOLEAN
  BY Zenon DEF IsPulse
<1>3. /\ w \in Seq(Nat) /\ Len(w) = IF P.stop THEN 2 * n + 3 ELSE 2 * n + 1
      /\ w[1] = P.header /\ w[2] = P.gap
      /\ \A j \in 1..n : w[2 * j + 1] = P.mark[bits[j] + 1]
      /\ \A j \in 1..m : w[2 * j + 2] = P.space[bits[j] + 1]
  BY <1>1, LineWidths, ZenonT(40)
<1>4. ShortSpaces(w)
  BY <1>1, LineHasShortSpaces
<1> HIDE DEF w
<1>5. len \in Nat /\ len <= 67 /\ len >= 2 * n + 1 /\ 2 * m + 2 <= len /\ m \in Nat
  BY <1>1, <1>2, <1>3
<1>6. Len(w) < RAWBUF
  BY <1>5 DEF RAWBUF
<1>7. /\ Len(entries) = len
      /\ \A i \in 1..len : /\ at[i] \in Nat
                           /\ IsMark(i) => MarkSeen(at[i], w[i], e)
                           /\ ~IsMark(i) => SpaceSeen(at[i], w[i], e)
  <2>1. IsRecording(entries, w, e, up)
    BY DEF w
  <2> QED BY <1>3, <1>4, <1>6, <2>1, BufferOf
<1> HIDE DEF len, at
<1>8. /\ at[1] \in Nat /\ MarkSeen(at[1], P.header, e)
       /\ at[2] \in Nat /\ SpaceSeen(at[2], P.gap, e)
  <2>1. 1 \in 1..len /\ IsMark(1) /\ 2 \in 1..len /\ ~IsMark(2)
    BY <1>1, <1>5 DEF IsMark
  <2> QED BY <1>3, <1>7, <2>1
<1>9. ASSUME NEW j \in 1..n
       PROVE  at[2 * j + 1] \in Nat /\ MarkSeen(at[2 * j + 1], P.mark[bits[j] + 1], e)
  <2>1. 2 * j + 1 \in 1..len /\ IsMark(2 * j + 1)
    BY <1>1, <1>5 DEF IsMark
  <2> QED BY <1>3, <1>7, <2>1
<1>10. ASSUME NEW j \in 1..m
       PROVE  at[2 * j + 2] \in Nat /\ SpaceSeen(at[2 * j + 2], P.space[bits[j] + 1], e)
  <2>1. 2 * j + 2 \in 1..len /\ ~IsMark(2 * j + 2)
    BY <1>1, <1>5 DEF IsMark
  <2> QED BY <1>3, <1>7, <2>1
<1>11. Len(entries) + 1 = IF P.stop THEN 2 * n + 4 ELSE 2 * n + 2
  BY <1>1, <1>2, <1>3, <1>7 DEF len
<1> QED BY <1>8, <1>9, <1>10, <1>11 DEF Holds, at

-------------------------------------------------------------------------------
(* The decoders. *)

LEMMA PulseFields ==
    /\ NEC.header = 9000 /\ NEC.gap = 4500 /\ NEC.stop = TRUE
    /\ NEC.mark = <<560, 560>> /\ NEC.space = <<560, 1600>>
    /\ SAMSUNG.header = 4500 /\ SAMSUNG.gap = 4500 /\ SAMSUNG.stop = TRUE
    /\ SAMSUNG.mark = <<560, 560>> /\ SAMSUNG.space = <<600, 1600>>
    /\ SONY.header = 2400 /\ SONY.gap = 600 /\ SONY.stop = FALSE
    /\ SONY.mark = <<600, 1200>> /\ SONY.space = <<600, 600>>
<1>1. /\ NEC.header = 9000 /\ NEC.gap = 4500 /\ NEC.stop = TRUE
      /\ NEC.mark = <<560, 560>> /\ NEC.space = <<560, 1600>>
  BY DEF NEC, Pulse
<1>2. /\ SAMSUNG.header = 4500 /\ SAMSUNG.gap = 4500 /\ SAMSUNG.stop = TRUE
      /\ SAMSUNG.mark = <<560, 560>> /\ SAMSUNG.space = <<600, 1600>>
  BY DEF SAMSUNG, Pulse
<1>3. /\ SONY.header = 2400 /\ SONY.gap = 600 /\ SONY.stop = FALSE
      /\ SONY.mark = <<600, 1200>> /\ SONY.space = <<600, 600>>
  BY DEF SONY, Pulse
<1> QED BY <1>1, <1>2, <1>3

LEMMA PulsesArePulses ==
    /\ IsPulse(NEC) /\ IsPulse(SAMSUNG) /\ IsPulse(SONY)
    /\ SpaceWidth(NEC.gap) /\ SpaceWidth(NEC.space[1]) /\ SpaceWidth(NEC.space[2])
    /\ SpaceWidth(SAMSUNG.gap) /\ SpaceWidth(SAMSUNG.space[1]) /\ SpaceWidth(SAMSUNG.space[2])
    /\ SpaceWidth(SONY.gap) /\ SpaceWidth(SONY.space[1]) /\ SpaceWidth(SONY.space[2])
<1>1. IsPulse(NEC)
  <2>1. NEC.header \in Nat /\ NEC.gap \in Nat
    BY PulseFields
  <2>2. NEC.stop \in BOOLEAN
    <3>1. NEC.stop = TRUE
      BY PulseFields
    <3> QED BY <3>1, Zenon
  <2>3. NEC.mark \in [1..2 -> Nat] /\ NEC.space \in [1..2 -> Nat]
    BY PulseFields
  <2> QED BY <2>1, <2>2, <2>3, Zenon DEF IsPulse
<1>2. IsPulse(SAMSUNG)
  <2>1. SAMSUNG.header \in Nat /\ SAMSUNG.gap \in Nat
    BY PulseFields
  <2>2. SAMSUNG.stop \in BOOLEAN
    <3>1. SAMSUNG.stop = TRUE
      BY PulseFields
    <3> QED BY <3>1, Zenon
  <2>3. SAMSUNG.mark \in [1..2 -> Nat] /\ SAMSUNG.space \in [1..2 -> Nat]
    BY PulseFields
  <2> QED BY <2>1, <2>2, <2>3, Zenon DEF IsPulse
<1>3. IsPulse(SONY)
  <2>1. SONY.header \in Nat /\ SONY.gap \in Nat
    BY PulseFields
  <2>2. SONY.stop \in BOOLEAN
    <3>1. SONY.stop = FALSE
      BY PulseFields
    <3> QED BY <3>1, Zenon
  <2>3. SONY.mark \in [1..2 -> Nat] /\ SONY.space \in [1..2 -> Nat]
    BY PulseFields
  <2> QED BY <2>1, <2>2, <2>3, Zenon DEF IsPulse
<1>4. SpaceWidth(NEC.gap) /\ SpaceWidth(NEC.space[1]) /\ SpaceWidth(NEC.space[2])
  BY PulseFields DEF SpaceWidth
<1>5. SpaceWidth(SAMSUNG.gap) /\ SpaceWidth(SAMSUNG.space[1]) /\ SpaceWidth(SAMSUNG.space[2])
  BY PulseFields DEF SpaceWidth
<1>6. SpaceWidth(SONY.gap) /\ SpaceWidth(SONY.space[1]) /\ SpaceWidth(SONY.space[2])
  BY PulseFields DEF SpaceWidth
<1> QED BY <1>1, <1>2, <1>3, <1>4, <1>5, <1>6

(* What MATCH makes of a mark of the given width, and of a space: it takes *)
(* it for itself and not for what it must be told from.                    *)
LEMMA MarksMatch ==
    ASSUME NEW t \in Nat, NEW e \in 0..180
    PROVE  /\ MarkSeen(t, NEC.header, e) => MATCH_MARK(t, NEC.header)
           /\ MarkSeen(t, SAMSUNG.header, e) =>
              /\ MATCH_MARK(t, SAMSUNG.header)
              /\ ~MATCH_MARK(t, NEC.header)
              /\ ~MATCH_MARK(t, SONY.header)
           /\ MarkSeen(t, SONY.header, e) =>
              /\ MATCH_MARK(t, SONY.header)
              /\ ~MATCH_MARK(t, NEC.header)
           /\ MarkSeen(t, SONY.mark[2], e) => MATCH_MARK(t, SONY.mark[2])
           /\ MarkSeen(t, SONY.mark[1], e) =>
              /\ MATCH_MARK(t, SONY.mark[1])
              /\ ~MATCH_MARK(t, SONY.mark[2])
           /\ MarkSeen(t, NEC.mark[1], e) => MATCH_MARK(t, NEC.mark[1])
           /\ MarkSeen(t, SAMSUNG.mark[1], e) => MATCH_MARK(t, SAMSUNG.mark[1])
<1>0. /\ NEC.header = 9000
      /\ SAMSUNG.header = 4500
      /\ SONY.header = 2400
      /\ SONY.mark[2] = 1200
      /\ SONY.mark[1] = 600
      /\ NEC.mark[1] = 560
      /\ SAMSUNG.mark[1] = 560
  BY PulseFields
<1>1. MarkSeen(t, NEC.header, e) => MATCH_MARK(t, NEC.header)
  BY <1>0 DEF MarkSeen, Near, MATCH_MARK, MATCH, MARK_EXCESS
<1>2. MarkSeen(t, SAMSUNG.header, e) =>
      /\ MATCH_MARK(t, SAMSUNG.header)
      /\ ~MATCH_MARK(t, NEC.header)
      /\ ~MATCH_MARK(t, SONY.header)
  BY <1>0 DEF MarkSeen, Near, MATCH_MARK, MATCH, MARK_EXCESS
<1>3. MarkSeen(t, SONY.header, e) => MATCH_MARK(t, SONY.header) /\ ~MATCH_MARK(t, NEC.header)
  BY <1>0 DEF MarkSeen, Near, MATCH_MARK, MATCH, MARK_EXCESS
<1>4. MarkSeen(t, SONY.mark[2], e) => MATCH_MARK(t, SONY.mark[2])
  BY <1>0 DEF MarkSeen, Near, MATCH_MARK, MATCH, MARK_EXCESS
<1>5. MarkSeen(t, SONY.mark[1], e) =>
      /\ MATCH_MARK(t, SONY.mark[1])
      /\ ~MATCH_MARK(t, SONY.mark[2])
  BY <1>0 DEF MarkSeen, Near, MATCH_MARK, MATCH, MARK_EXCESS
<1>6. MarkSeen(t, NEC.mark[1], e) => MATCH_MARK(t, NEC.mark[1])
  BY <1>0 DEF MarkSeen, Near, MATCH_MARK, MATCH, MARK_EXCESS
<1>7. MarkSeen(t, SAMSUNG.mark[1], e) => MATCH_MARK(t, SAMSUNG.mark[1])
  BY <1>0 DEF MarkSeen, Near, MATCH_MARK, MATCH, MARK_EXCESS
<1> QED BY <1>1, <1>2, <1>3, <1>4, <1>5, <1>6, <1>7, Zenon

LEMMA SpacesMatch ==
    ASSUME NEW t \in Nat, NEW e \in 0..180
    PROVE  /\ SpaceSeen(t, NEC.gap, e) => MATCH_SPACE(t, NEC.gap)
           /\ SpaceSeen(t, SAMSUNG.gap, e) => MATCH_SPACE(t, SAMSUNG.gap)
           /\ SpaceSeen(t, SONY.gap, e) => MATCH_SPACE(t, SONY.gap)
           /\ SpaceSeen(t, NEC.space[2], e) => MATCH_SPACE(t, NEC.space[2])
           /\ SpaceSeen(t, NEC.space[1], e) =>
              /\ MATCH_SPACE(t, NEC.space[1])
              /\ ~MATCH_SPACE(t, NEC.space[2])
           /\ SpaceSeen(t, SAMSUNG.space[2], e) => MATCH_SPACE(t, SAMSUNG.space[2])
           /\ SpaceSeen(t, SAMSUNG.space[1], e) =>
              /\ MATCH_SPACE(t, SAMSUNG.space[1])
              /\ ~MATCH_SPACE(t, SAMSUNG.space[2])
<1>0. /\ NEC.gap = 4500
      /\ SAMSUNG.gap = 4500
      /\ SONY.gap = 600
      /\ NEC.space[2] = 1600
      /\ NEC.space[1] = 560
      /\ SAMSUNG.space[2] = 1600
      /\ SAMSUNG.space[1] = 600
  BY PulseFields
<1>1. SpaceSeen(t, NEC.gap, e) => MATCH_SPACE(t, NEC.gap)
  BY <1>0 DEF SpaceSeen, Near, MATCH_SPACE, MATCH, MARK_EXCESS
<1>2. SpaceSeen(t, SAMSUNG.gap, e) => MATCH_SPACE(t, SAMSUNG.gap)
  BY <1>0 DEF SpaceSeen, Near, MATCH_SPACE, MATCH, MARK_EXCESS
<1>3. SpaceSeen(t, SONY.gap, e) => MATCH_SPACE(t, SONY.gap)
  BY <1>0 DEF SpaceSeen, Near, MATCH_SPACE, MATCH, MARK_EXCESS
<1>4. SpaceSeen(t, NEC.space[2], e) => MATCH_SPACE(t, NEC.space[2])
  BY <1>0 DEF SpaceSeen, Near, MATCH_SPACE, MATCH, MARK_EXCESS
<1>5. SpaceSeen(t, NEC.space[1], e) =>
      /\ MATCH_SPACE(t, NEC.space[1])
      /\ ~MATCH_SPACE(t, NEC.space[2])
  BY <1>0 DEF SpaceSeen, Near, MATCH_SPACE, MATCH, MARK_EXCESS
<1>6. SpaceSeen(t, SAMSUNG.space[2], e) => MATCH_SPACE(t, SAMSUNG.space[2])
  BY <1>0 DEF SpaceSeen, Near, MATCH_SPACE, MATCH, MARK_EXCESS
<1>7. SpaceSeen(t, SAMSUNG.space[1], e) =>
      /\ MATCH_SPACE(t, SAMSUNG.space[1])
      /\ ~MATCH_SPACE(t, SAMSUNG.space[2])
  BY <1>0 DEF SpaceSeen, Near, MATCH_SPACE, MATCH, MARK_EXCESS
<1> QED BY <1>1, <1>2, <1>3, <1>4, <1>5, <1>6, <1>7, Zenon

(* The decoder of protocol Q tells the bits of P apart by their spaces.    *)
Legible(P, Q, e) ==
    /\ P.mark[2] = P.mark[1]
    /\ \A t \in Nat :
          /\ MarkSeen(t, P.mark[1], e) => MATCH_MARK(t, Q.mark[1])
          /\ SpaceSeen(t, P.space[2], e) => MATCH_SPACE(t, Q.space[2])
          /\ SpaceSeen(t, P.space[1], e) => MATCH_SPACE(t, Q.space[1])
          /\ SpaceSeen(t, P.space[1], e) => ~MATCH_SPACE(t, Q.space[2])

IsRead(Q, at, bits) == ReadsBits(Q, at, 3, 32) /\ BitsRead(Q, at, 3, 32) = bits

LEMMA BitsAreRead ==
    ASSUME NEW P, P.stop = TRUE, NEW Q, NEW at, NEW bits \in Seq({0, 1}), Len(bits) = 32,
           NEW e \in 0..180, Legible(P, Q, e), Holds(at, P, bits, 32, e)
    PROVE  IsRead(Q, at, bits)
<1>1. DOMAIN bits = 1..32
  BY LenProperties
<1>2. ASSUME NEW j \in 1..32
      PROVE  /\ MATCH_MARK(at[3 + 2 * j - 2], Q.mark[1])
             /\ bits[j] = 1 => MATCH_SPACE(at[3 + 2 * j - 1], Q.space[2])
             /\ bits[j] = 0 => /\ MATCH_SPACE(at[3 + 2 * j - 1], Q.space[1])
                               /\ ~MATCH_SPACE(at[3 + 2 * j - 1], Q.space[2])
             /\ bits[j] = 0 \/ bits[j] = 1
  <2>1. bits[j] = 0 \/ bits[j] = 1
    <3>1. bits[j] \in {0, 1}
      BY <1>1, ElementOfSeq
    <3> QED BY <3>1
  <2>2. 3 + 2 * j - 2 = 2 * j + 1 /\ 3 + 2 * j - 1 = 2 * j + 2
    OBVIOUS
  <2>3. at[2 * j + 1] \in Nat /\ MarkSeen(at[2 * j + 1], P.mark[bits[j] + 1], e)
    BY DEF Holds
  <2>4. at[2 * j + 2] \in Nat /\ SpaceSeen(at[2 * j + 2], P.space[bits[j] + 1], e)
    BY DEF Holds
  <2>5. CASE bits[j] = 0
    <3>1. bits[j] + 1 = 1
      BY <2>5
    <3> QED BY <2>2, <2>3, <2>4, <2>5, <3>1 DEF Legible
  <2>6. CASE bits[j] = 1
    <3>1. bits[j] + 1 = 2
      BY <2>6
    <3> QED BY <2>2, <2>3, <2>4, <2>6, <3>1 DEF Legible
  <2> QED BY <2>1, <2>5, <2>6
<1>3. ReadsBits(Q, at, 3, 32)
  BY <1>2 DEF ReadsBits
<1>4. \A j \in 1..32 : (IF MATCH_SPACE(at[3 + 2 * j - 1], Q.space[2]) THEN 1 ELSE 0) = bits[j]
  BY <1>2
<1>5. BitsRead(Q, at, 3, 32) = [j \in 1..32 |-> bits[j]]
  BY <1>4 DEF BitsRead
<1>6. bits = [j \in 1..32 |-> bits[j]]
  BY <1>1
<1> QED BY <1>3, <1>5, <1>6 DEF IsRead

LEMMA NECDecodes ==
    ASSUME NEW at, NEW bits \in Seq({0, 1}), Len(bits) = 32, NEW e \in 0..180,
           NEW rawlen \in Nat, rawlen >= 68, Holds(at, NEC, bits, 32, e)
    PROVE  DecodeNEC(at, rawlen) = {Result("NEC", bits)}
<1>1. MATCH_MARK(at[1], NEC.header)
  <2>1. at[1] \in Nat /\ MarkSeen(at[1], NEC.header, e)
    BY Zenon DEF Holds
  <2> QED BY <2>1, MarksMatch, Zenon
<1>2. MATCH_SPACE(at[2], NEC.gap)
  <2>1. at[2] \in Nat /\ SpaceSeen(at[2], NEC.gap, e)
    BY Zenon DEF Holds
  <2> QED BY <2>1, SpacesMatch, Zenon
<1>3. Legible(NEC, NEC, e)
  <2>1. NEC.mark[2] = NEC.mark[1]
    BY PulseFields
  <2> QED BY <2>1, MarksMatch, SpacesMatch, Zenon DEF Legible
<1>4. ReadsBits(NEC, at, 3, 32) /\ BitsRead(NEC, at, 3, 32) = bits
  <2>1. NEC.stop = TRUE
    BY PulseFields
  <2>2. IsRead(NEC, at, bits)
    BY <1>3, <2>1, BitsAreRead
  <2> QED BY <2>2 DEF IsRead
<1>5. rawlen # 4
  OBVIOUS
<1> QED BY <1>1, <1>2, <1>4, <1>5 DEF DecodeNEC, Succeeds

LEMMA SamsungDecodes ==
    ASSUME NEW at, NEW bits \in Seq({0, 1}), Len(bits) = 32, NEW e \in 0..180,
           NEW rawlen \in Nat, rawlen >= 68, Holds(at, SAMSUNG, bits, 32, e)
    PROVE  /\ DecodeNEC(at, rawlen) = {}
           /\ DecodeSony(at, rawlen) = {}
           /\ DecodeSamsung(at, rawlen) = {Result("SAMSUNG", bits)}
<1>1. /\ MATCH_MARK(at[1], SAMSUNG.header)
      /\ ~MATCH_MARK(at[1], NEC.header)
      /\ ~MATCH_MARK(at[1], SONY.header)
  <2>1. at[1] \in Nat /\ MarkSeen(at[1], SAMSUNG.header, e)
    BY Zenon DEF Holds
  <2> QED BY <2>1, MarksMatch, Zenon
<1>2. MATCH_SPACE(at[2], SAMSUNG.gap)
  <2>1. at[2] \in Nat /\ SpaceSeen(at[2], SAMSUNG.gap, e)
    BY Zenon DEF Holds
  <2> QED BY <2>1, SpacesMatch, Zenon
<1>3. Legible(SAMSUNG, SAMSUNG, e)
  <2>1. SAMSUNG.mark[2] = SAMSUNG.mark[1]
    BY PulseFields
  <2> QED BY <2>1, MarksMatch, SpacesMatch, Zenon DEF Legible
<1>4. ReadsBits(SAMSUNG, at, 3, 32) /\ BitsRead(SAMSUNG, at, 3, 32) = bits
  <2>1. SAMSUNG.stop = TRUE
    BY PulseFields
  <2>2. IsRead(SAMSUNG, at, bits)
    BY <1>3, <2>1, BitsAreRead
  <2> QED BY <2>2 DEF IsRead
<1>5. rawlen # 4
  OBVIOUS
<1>6. DecodeNEC(at, rawlen) = {}
  BY <1>1, <1>5 DEF DecodeNEC, Succeeds
<1>7. DecodeSony(at, rawlen) = {}
  BY <1>1 DEF DecodeSony
<1>8. DecodeSamsung(at, rawlen) = {Result("SAMSUNG", bits)}
  BY <1>1, <1>2, <1>4, <1>5 DEF DecodeSamsung, Succeeds
<1> QED BY <1>6, <1>7, <1>8

LEMMA SonyDecodes ==
    ASSUME NEW at, NEW n \in 12..32, NEW bits \in Seq({0, 1}), Len(bits) = n, NEW e \in 0..180,
           Holds(at, SONY, bits, n, e)
    PROVE  /\ DecodeNEC(at, 2 * n + 2) = {}
           /\ DecodeSony(at, 2 * n + 2) = {Result("SONY", bits)}
<1> DEFINE rawlen == 2 * n + 2
           One(j) == MATCH_MARK(at[2 * j + 1], SONY.mark[2])
           Zero(j) == MATCH_MARK(at[2 * j + 1], SONY.mark[1])
           Ends(c) == 2 * c + 3 >= rawlen \/ ~MATCH_SPACE(at[2 * c + 2], SONY.gap)
           Value(c) == [j \in 1..c |-> IF One(j) THEN 1 ELSE 0]
           Counts == {c \in 12..(rawlen \div 2) :
                /\ rawlen >= 26
                /\ MATCH_MARK(at[1], SONY.header)
                /\ \A j \in 1..c : ~Ends(j - 1) /\ (One(j) \/ Zero(j))
                /\ Ends(c)}
<1>1. n \in Nat /\ n >= 12 /\ n <= 32 /\ DOMAIN bits = 1..n
  BY LenProperties
<1>2. MATCH_MARK(at[1], SONY.header) /\ ~MATCH_MARK(at[1], NEC.header)
  <2>1. at[1] \in Nat /\ MarkSeen(at[1], SONY.header, e)
    BY Zenon DEF Holds
  <2> QED BY <2>1, MarksMatch, Zenon
<1>3. DecodeNEC(at, rawlen) = {}
  <2>1. rawlen # 4
    BY <1>1
  <2> HIDE DEF rawlen
  <2> QED BY <1>2, <2>1 DEF DecodeNEC, Succeeds
<1>4. SONY.space[1] = SONY.gap /\ SONY.space[2] = SONY.gap /\ SONY.stop = FALSE
  BY PulseFields
<1>5. ASSUME NEW j \in 1..n
      PROVE  (bits[j] = 1 /\ One(j)) \/ (bits[j] = 0 /\ Zero(j) /\ ~One(j))
  <2>1. bits[j] = 0 \/ bits[j] = 1
    <3>1. bits[j] \in {0, 1}
      BY <1>1, ElementOfSeq
    <3> QED BY <3>1
  <2>2. at[2 * j + 1] \in Nat /\ MarkSeen(at[2 * j + 1], SONY.mark[bits[j] + 1], e)
    BY DEF Holds
  <2>3. CASE bits[j] = 0
    <3>1. SONY.mark[bits[j] + 1] = SONY.mark[1]
      BY <2>3
    <3> QED BY <2>2, <2>3, <3>1, MarksMatch, Zenon
  <2>4. CASE bits[j] = 1
    <3>1. SONY.mark[bits[j] + 1] = SONY.mark[2]
      BY <2>4
    <3> QED BY <2>2, <2>4, <3>1, MarksMatch, Zenon
  <2> QED BY <2>1, <2>3, <2>4
<1>6. ASSUME NEW c \in 0..(n - 1) PROVE ~Ends(c)
  <2>1. ~(2 * c + 3 >= rawlen)
    BY <1>1
  <2>2. CASE c = 0
    <3>1. at[2] \in Nat /\ SpaceSeen(at[2], SONY.gap, e)
      BY Zenon DEF Holds
    <3>2. MATCH_SPACE(at[2], SONY.gap)
      BY <3>1, SpacesMatch, Zenon
    <3>3. 2 * c + 2 = 2
      BY <2>2
    <3> QED BY <2>1, <3>2, <3>3
  <2>3. CASE c # 0
    <3>1. c \in 1..(n - 1) /\ c \in 1..n
      BY <1>1, <2>3
    <3>2. at[2 * c + 2] \in Nat /\ SpaceSeen(at[2 * c + 2], SONY.space[bits[c] + 1], e)
      BY <1>4, <3>1 DEF Holds
    <3>3. bits[c] = 0 \/ bits[c] = 1
      BY <1>5, <3>1
    <3>4. SONY.space[bits[c] + 1] = SONY.gap
      BY <1>4, <3>3
    <3>5. MATCH_SPACE(at[2 * c + 2], SONY.gap)
      BY <3>2, <3>4, SpacesMatch, Zenon
    <3> QED BY <2>1, <3>5
  <2> QED BY <2>2, <2>3
<1>7. Ends(n)
  BY <1>1
<1>8. n \in 12..(rawlen \div 2) /\ rawlen >= 26 /\ rawlen \div 2 \in Nat
  BY <1>1
<1>9. \A j \in 1..n : ~Ends(j - 1) /\ (One(j) \/ Zero(j))
  <2> SUFFICES ASSUME NEW j \in 1..n PROVE ~Ends(j - 1) /\ (One(j) \/ Zero(j))
    OBVIOUS
  <2>1. j - 1 \in 0..(n - 1)
    BY <1>1
  <2> HIDE DEF One, Zero, Ends
  <2> QED BY <1>5, <1>6, <2>1
<1>10. Value(n) = bits
  <2>1. \A j \in 1..n : (IF One(j) THEN 1 ELSE 0) = bits[j]
    <3> HIDE DEF One, Zero
    <3> QED BY <1>5
  <2>2. Value(n) = [j \in 1..n |-> bits[j]]
    <3> HIDE DEF One
    <3> QED BY <2>1
  <2> QED BY <1>1, <2>2
<1>11. DecodeSony(at, rawlen) = {Result("SONY", Value(c)) : c \in Counts}
  BY DEF DecodeSony
<1> HIDE DEF One, Zero, Ends, rawlen, Value
<1>12. n \in Counts
  BY <1>2, <1>7, <1>8, <1>9
<1>13. ASSUME NEW c \in Counts PROVE c = n
  <2>1. c \in 12..(rawlen \div 2) /\ Ends(c) /\ \A j \in 1..c : ~Ends(j - 1)
    BY <1>13
  <2>2. c \in Nat /\ c >= 12
    BY <1>8, <2>1
  <2>3. ~(c < n)
    <3> SUFFICES ASSUME c < n PROVE FALSE
      OBVIOUS
    <3>1. c \in 0..(n - 1)
      BY <1>1, <2>2
    <3> QED BY <1>6, <2>1, <3>1
  <2>4. ~(c > n)
    <3> SUFFICES ASSUME c > n PROVE FALSE
      OBVIOUS
    <3>1. n + 1 \in 1..c /\ (n + 1) - 1 = n
      BY <1>1, <2>2
    <3>2. ~Ends((n + 1) - 1)
      BY <2>1, <3>1
    <3> QED BY <1>7, <3>1, <3>2
  <2> QED BY <1>1, <2>2, <2>3, <2>4
<1> HIDE DEF Counts
<1>14. Counts = {n}
  BY <1>12, <1>13
<1>15. DecodeSony(at, rawlen) = {Result("SONY", bits)}
  BY <1>10, <1>11, <1>14
<1> QED BY <1>3, <1>15 DEF rawlen

-------------------------------------------------------------------------------
(* The levels that getRClevel() takes an entry apart to.                   *)

LEMMA MarkIsBoolean == ASSUME NEW i PROVE IsMark(i) \in BOOLEAN
BY DEF IsMark

(* Fits(at, i, t1, n): entry i may stand for n levels of length t1.        *)
Fits(at, i, t1, n) == IF IsMark(i) THEN MATCH_MARK(at[i], n * t1) ELSE MATCH_SPACE(at[i], n * t1)

(* It stands for the least number that fits, and for none if none does.    *)
LEMMA LeastFit ==
    ASSUME NEW at, NEW i, NEW t1
    PROVE  /\ Avail(at, i, t1) \in 0..3
           /\ Avail(at, i, t1) > 0 => Fits(at, i, t1, Avail(at, i, t1))
           /\ \A n \in 1..3 : Fits(at, i, t1, n) /\ (\A m \in 1..(n - 1) : ~Fits(at, i, t1, m)) =>
                 Avail(at, i, t1) = n
<1> DEFINE fits == {n \in 1..3 : Fits(at, i, t1, n)}
           least(n) == \A m \in fits : n <= m
<1>1. Avail(at, i, t1) = IF fits = {} THEN 0 ELSE CHOOSE n \in fits : least(n)
  BY DEF Avail, Fits
<1>2. fits \subseteq 1..3 /\ \A n \in 1..3 : n \in fits <=> Fits(at, i, t1, n)
  OBVIOUS
<1> HIDE DEF fits
<1>3. fits # {} => \E n \in fits : least(n)
  <2> SUFFICES ASSUME fits # {} PROVE \E n \in fits : least(n)
    OBVIOUS
  <2>1. 1 \in fits => least(1)
    BY <1>2
  <2>2. 1 \notin fits /\ 2 \in fits => least(2)
    BY <1>2
  <2>3. 1 \notin fits /\ 2 \notin fits => least(3)
    BY <1>2
  <2>4. 1 \in fits \/ 2 \in fits \/ 3 \in fits
    <3>1. PICK x \in fits : TRUE
      OBVIOUS
    <3>2. x = 1 \/ x = 2 \/ x = 3
      BY <1>2, <3>1
    <3> QED BY <3>1, <3>2
  <2> HIDE DEF least
  <2> QED BY <2>1, <2>2, <2>3, <2>4
<1> DEFINE c == CHOOSE n \in fits : least(n)
<1>4. fits # {} => c \in fits /\ least(c)
  <2> HIDE DEF least
  <2> QED BY <1>3
<1> HIDE DEF c
<1>5. Avail(at, i, t1) = IF fits = {} THEN 0 ELSE c
  BY <1>1 DEF c
<1> HIDE DEF least
<1>6. fits # {} => c \in 1..3 /\ Fits(at, i, t1, c)
  BY <1>2, <1>4
<1>7. /\ Avail(at, i, t1) \in 0..3
      /\ Avail(at, i, t1) > 0 => Fits(at, i, t1, Avail(at, i, t1))
  <2>1. CASE fits = {}
    <3>1. Avail(at, i, t1) = 0
      BY <1>5, <2>1
    <3> QED BY <3>1
  <2>2. CASE fits # {}
    <3>1. Avail(at, i, t1) = c
      BY <1>5, <2>2
    <3> QED BY <1>6, <2>2, <3>1
  <2> QED BY <2>1, <2>2
<1>8. ASSUME NEW n \in 1..3, Fits(at, i, t1, n), \A m \in 1..(n - 1) : ~Fits(at, i, t1, m)
      PROVE  Avail(at, i, t1) = n
  <2>1. n \in fits /\ fits # {} /\ c \in 1..3 /\ Fits(at, i, t1, c) /\ c <= n
    BY <1>2, <1>4, <1>6, <1>8 DEF least
  <2>2. ~(c < n)
    BY <1>8, <2>1
  <2> QED BY <1>5, <2>1, <2>2
<1> QED BY <1>7, <1>8

(* p: how many levels the entries up to each one stand for.                *)
LevelsStand(d, p, at, from, rawlen, t1) ==
    /\ p \in [0..(rawlen - 1) -> Nat] /\ p[0] = 0 /\ p[rawlen - 1] = Len(d)
    /\ \A k \in 1..(rawlen - 1) :
          p[k] = p[k - 1] + (IF k < from THEN 0 ELSE Avail(at, k, t1))
    /\ \A k \in from..(rawlen - 1) : \A u \in 1..Avail(at, k, t1) :
          d[p[k - 1] + u] = IsMark(k)

LEMMA LevelsPlaces ==
    ASSUME NEW at, NEW from \in Nat \ {0}, NEW rawlen \in Nat \ {0}, NEW t1
    PROVE  /\ Levels(at, from, rawlen, t1) \in Seq(BOOLEAN)
           /\ \E p : LevelsStand(Levels(at, from, rawlen, t1), p, at, from, rawlen, t1)
<1> DEFINE n == rawlen - 1
           e(i) == IF i < from THEN <<>> ELSE [u \in 1..Avail(at, i, t1) |-> IsMark(i)]
           s == [i \in 1..n |-> e(i)]
           d == FlattenSeq(s)
<1>1. n \in Nat
  OBVIOUS
<1>2. ASSUME NEW i \in 1..n
      PROVE  /\ e(i) \in Seq(BOOLEAN)
             /\ Len(e(i)) = IF i < from THEN 0 ELSE Avail(at, i, t1)
             /\ i >= from => \A u \in 1..Avail(at, i, t1) : e(i)[u] = IsMark(i)
  <2>1. Avail(at, i, t1) \in Nat
    BY LeastFit
  <2>2. IsMark(i) \in BOOLEAN
    BY MarkIsBoolean
  <2>3. CASE i < from
    <3>1. e(i) = <<>>
      BY <2>3
    <3>2. ~(i >= from)
      BY <2>3, <1>1
    <3> HIDE DEF e
    <3> QED BY <2>3, <3>1, <3>2, EmptySeq
  <2>4. CASE ~(i < from)
    <3> DEFINE a == Avail(at, i, t1)
               b == IsMark(i)
    <3>1. e(i) = [u \in 1..a |-> b]
      BY <2>4
    <3>2. a \in Nat /\ b \in BOOLEAN
      BY <2>1, <2>2
    <3> HIDE DEF e, a, b
    <3>3. e(i) \in Seq(BOOLEAN) /\ Len(e(i)) = a /\ \A u \in 1..a : e(i)[u] = b
      BY <3>1, <3>2
    <3> QED BY <2>4, <3>3 DEF a, b
  <2> QED BY <2>3, <2>4
<1> HIDE DEF e
<1>3. s \in Seq(Seq(BOOLEAN)) /\ Len(s) = n /\ \A i \in 1..n : s[i] = e(i)
  BY <1>1, <1>2
<1>4. Levels(at, from, rawlen, t1) = d
  BY DEF Levels, e
<1> HIDE DEF s, n
<1>5. d \in Seq(BOOLEAN) /\ \E p : StandsAt(d, s, p)
  BY <1>3, FlattenPlaces
<1>6. PICK p : StandsAt(d, s, p)
  BY <1>5
<1>7. LevelsStand(d, p, at, from, rawlen, t1)
  <2> HIDE DEF d
  <2>1. /\ p \in [0..n -> Nat] /\ p[0] = 0 /\ p[n] = Len(d)
        /\ \A k \in 1..n : p[k] = p[k - 1] + Len(e(k))
        /\ \A k \in 1..n : \A u \in 1..Len(e(k)) : d[p[k - 1] + u] = e(k)[u]
    BY <1>3, <1>6 DEF StandsAt
  <2>2. \A k \in 1..n : p[k] = p[k - 1] + (IF k < from THEN 0 ELSE Avail(at, k, t1))
    BY <1>2, <2>1
  <2>3. ASSUME NEW k \in from..n, NEW u \in 1..Avail(at, k, t1) PROVE d[p[k - 1] + u] = IsMark(k)
    <3>1. k \in 1..n /\ k >= from /\ ~(k < from)
      BY <1>1
    <3>2. Len(e(k)) = Avail(at, k, t1) /\ e(k)[u] = IsMark(k)
      BY <1>2, <2>3, <3>1
    <3> QED BY <2>1, <2>3, <3>1, <3>2
  <2> QED BY <2>1, <2>2, <2>3 DEF LevelsStand, n
<1> QED BY <1>4, <1>5, <1>7

-------------------------------------------------------------------------------
(* A key of JVC that is held down.                                         *)

LEMMA JVCFields ==
    /\ JVC.mark[1] = 600 /\ JVC.mark[2] = 600 /\ JVC.space[1] = 550 /\ JVC.space[2] = 1600
    /\ JVC.stop = TRUE /\ IsPulse(JVC)
<1>1. /\ JVC.header = 8000 /\ JVC.gap = 4000 /\ JVC.stop = TRUE
      /\ JVC.mark = <<600, 600>> /\ JVC.space = <<550, 1600>>
  BY DEF JVC, Pulse
<1>2. JVC.stop \in BOOLEAN
  <2>1. JVC.stop = TRUE
    BY <1>1
  <2> QED BY <2>1, Zenon
<1>3. JVC.header \in Nat /\ JVC.gap \in Nat /\ JVC.mark \in [1..2 -> Nat] /\ JVC.space \in [1..2 -> Nat]
  BY <1>1
<1>4. JVC.mark[1] = 600 /\ JVC.mark[2] = 600 /\ JVC.space[1] = 550 /\ JVC.space[2] = 1600
  BY <1>1
<1>5. IsPulse(JVC)
  BY <1>2, <1>3, Zenon DEF IsPulse
<1> QED BY <1>1, <1>4, <1>5

LEMMA RepeatLine ==
    ASSUME NEW bits \in Seq({0, 1}), Len(bits) = 16
    PROVE  /\ Body(JVC, bits) \in Seq(Nat) /\ Len(Body(JVC, bits)) = 33
           /\ ShortSpaces(Body(JVC, bits))
           /\ Body(JVC, bits)[1] = 600 /\ Body(JVC, bits)[33] = 600
           /\ Body(JVC, bits)[2] \in {550, 1600}
<1> DEFINE w == Body(JVC, bits)
<1>1. \A j \in 1..16 : bits[j] = 0 \/ bits[j] = 1
  <2> SUFFICES ASSUME NEW j \in 1..16 PROVE bits[j] \in {0, 1}
    OBVIOUS
  <2> QED BY ElementOfSeq
<1>2. /\ w \in Seq(Nat) /\ Len(w) = 33
      /\ \A j \in 1..16 : w[2 * j - 1] = JVC.mark[bits[j] + 1]
      /\ \A j \in 1..16 : w[2 * j] = JVC.space[bits[j] + 1]
      /\ w[33] = JVC.mark[1]
  <2>1. 16 \in 1..MaxBits /\ 2 * 16 + 1 = 33
    BY DEF MaxBits
  <2>2. IsPulse(JVC) /\ JVC.stop = TRUE
    BY JVCFields
  <2>3. /\ w \in Seq(Nat)
        /\ Len(w) = IF JVC.stop THEN 2 * 16 + 1 ELSE 2 * 16 - 1
        /\ \A j \in 1..16 : w[2 * j - 1] = JVC.mark[bits[j] + 1]
        /\ \A j \in 1..(IF JVC.stop THEN 16 ELSE 16 - 1) : w[2 * j] = JVC.space[bits[j] + 1]
        /\ JVC.stop => w[2 * 16 + 1] = JVC.mark[1]
    BY <2>1, <2>2, BodyWidths, Zenon
  <2> HIDE DEF w
  <2> QED BY <2>1, <2>2, <2>3
<1> HIDE DEF w
<1>3. w[1] = 600
  <2>1. 1 \in 1..16 /\ 2 * 1 - 1 = 1
    OBVIOUS
  <2>2. w[1] = JVC.mark[bits[1] + 1] /\ (bits[1] = 0 \/ bits[1] = 1)
    BY <1>1, <1>2, <2>1
  <2> QED BY <2>2, JVCFields
<1>4. ASSUME NEW j \in 1..16 PROVE w[2 * j] \in {550, 1600}
  <2>1. w[2 * j] = JVC.space[bits[j] + 1] /\ (bits[j] = 0 \/ bits[j] = 1)
    BY <1>1, <1>2
  <2> QED BY <2>1, JVCFields
<1>5. w[2] \in {550, 1600}
  <2>1. 1 \in 1..16 /\ 2 * 1 = 2
    OBVIOUS
  <2> QED BY <1>4, <2>1
<1>6. ShortSpaces(w)
  <2>0. DOMAIN w = 1..33
    BY <1>2, LenProperties
  <2> SUFFICES ASSUME NEW i \in 1..33, ~IsMark(i) PROVE SpaceWidth(w[i])
    BY <2>0 DEF ShortSpaces
  <2>1. i \in Nat /\ i >= 1 /\ i <= 33
    OBVIOUS
  <2>2. PICK j \in 1..16 : 2 * j = i
    <3>1. i % 2 # 1
      BY DEF IsMark
    <3>2. i = 2 * (i \div 2) /\ (i \div 2) \in Nat
      BY <2>1, <3>1
    <3>3. (i \div 2) \in 1..16
      BY <2>1, <3>2
    <3> QED BY <3>2, <3>3
  <2>3. w[i] \in {550, 1600}
    <3>1. w[2 * j] \in {550, 1600}
      BY <1>4, SMTT(30)
    <3>2. w[2 * j] = w[i]
      BY <2>2
    <3> QED BY <3>1, <3>2
  <2> QED BY <2>3 DEF SpaceWidth
<1> QED BY <1>2, <1>3, <1>5, <1>6, JVCFields DEF w

(* Its first mark is too short for any header.                             *)
LEMMA BareMark ==
    ASSUME NEW t \in Nat, NEW e \in 0..180, MarkSeen(t, 600, e)
    PROVE  /\ ~MATCH_MARK(t, NEC.header) /\ ~MATCH_MARK(t, SONY.header)
           /\ ~MATCH_MARK(t, SAMSUNG.header) /\ ~MATCH_MARK(t, RC6_HDR_MARK)
           /\ MATCH_MARK(t, 600)
<1>1. NEC.header = 9000 /\ SONY.header = 2400 /\ SAMSUNG.header = 4500
  BY PulseFields
<1>2. t >= 12 /\ t <= 16
  BY DEF MarkSeen, Near
<1> QED BY <1>1, <1>2 DEF MATCH_MARK, MATCH, MARK_EXCESS, RC6_HDR_MARK

(* RC5 takes that mark for one level at most, and a space behind it that   *)
(* it takes for any, for two: where it expects one.                        *)
LEMMA BareEntries ==
    ASSUME NEW at, NEW e \in 0..180, at[1] \in Nat, MarkSeen(at[1], 600, e),
           at[2] \in Nat, SpaceSeen(at[2], 550, e) \/ SpaceSeen(at[2], 1600, e),
           Avail(at, 1, RC5_T1) > 0, Avail(at, 2, RC5_T1) > 0
    PROVE  Avail(at, 1, RC5_T1) = 1 /\ Avail(at, 2, RC5_T1) = 2
<1> DEFINE m == at[1]
           s == at[2]
           a == Avail(at, 1, RC5_T1)
           b == Avail(at, 2, RC5_T1)
<1>1. /\ a \in 0..3 /\ (a > 0 => Fits(at, 1, RC5_T1, a))
      /\ b \in 0..3 /\ (b > 0 => Fits(at, 2, RC5_T1, b))
  BY LeastFit
<1>2. a > 0 /\ b > 0
  OBVIOUS
<1> HIDE DEF a, b
<1>3. IsMark(1) /\ ~IsMark(2)
  BY DEF IsMark
<1>4. MATCH_MARK(m, a * RC5_T1) /\ MATCH_SPACE(s, b * RC5_T1)
  BY <1>1, <1>2, <1>3 DEF Fits
<1>5. m \in Nat /\ s \in Nat /\ MarkSeen(m, 600, e) /\ (SpaceSeen(s, 550, e) \/ SpaceSeen(s, 1600, e))
  OBVIOUS
<1> HIDE DEF m, s
<1>6. a = 1 \/ a = 2 \/ a = 3
  BY <1>1, <1>2
<1>7. b = 1 \/ b = 2 \/ b = 3
  BY <1>1, <1>2
<1>8. a = 1 /\ m >= 14
  BY <1>4, <1>5, <1>6 DEF MATCH_MARK, MATCH, MARK_EXCESS, RC5_T1, MarkSeen, Near
<1>9. e >= 51
  BY <1>5, <1>8 DEF MarkSeen, Near
<1>10. b = 2
  BY <1>4, <1>5, <1>7, <1>9 DEF MATCH_SPACE, MATCH, MARK_EXCESS, RC5_T1, SpaceSeen, Near
<1> QED BY <1>8, <1>10 DEF a, b

(* What a decoder returns that misses what it needs.                       *)
LEMMA NoHeader ==
    ASSUME NEW at, NEW rawlen
    PROVE  /\ ~MATCH_MARK(at[1], SONY.header) => DecodeSony(at, rawlen) = {}
           /\ ~MATCH_MARK(at[1], RC6_HDR_MARK) => DecodeRC6(at, rawlen) = {}
           /\ ~( /\ AllLevels(at, 1, rawlen, RC5_T1)
                 /\ ~Level(Levels(at, 1, rawlen, RC5_T1), 2)
                 /\ Level(Levels(at, 1, rawlen, RC5_T1), 3) ) => DecodeRC5(at, rawlen) = {}
<1>1. ~MATCH_MARK(at[1], SONY.header) => DecodeSony(at, rawlen) = {}
  BY DEF DecodeSony
<1>2. ~MATCH_MARK(at[1], RC6_HDR_MARK) => DecodeRC6(at, rawlen) = {}
  BY DEF DecodeRC6
<1>3. ~( /\ AllLevels(at, 1, rawlen, RC5_T1)
        /\ ~Level(Levels(at, 1, rawlen, RC5_T1), 2)
        /\ Level(Levels(at, 1, rawlen, RC5_T1), 3) ) => DecodeRC5(at, rawlen) = {}
  BY Zenon DEF DecodeRC5, Succeeds
<1> QED BY <1>1, <1>2, <1>3

(* The first mark and the first space of bits of JVC without a header.     *)
BareBegins(at, e) ==
    /\ at[1] \in Nat /\ MarkSeen(at[1], 600, e)
    /\ at[2] \in Nat /\ (SpaceSeen(at[2], 550, e) \/ SpaceSeen(at[2], 1600, e))

(* They are not of RC5, whatever follows.                                  *)
LEMMA BareNotRC5 ==
    ASSUME NEW at, NEW e \in 0..180, NEW rawlen \in Nat, rawlen > 2,
           BareBegins(at, e)
    PROVE  DecodeRC5(at, rawlen) = {}
<1> DEFINE d == Levels(at, 1, rawlen, RC5_T1)
<1>1. ASSUME AllLevels(at, 1, rawlen, RC5_T1) PROVE ~Level(d, 3)
  <2>0. 1 \in 1..(rawlen - 1) /\ 2 \in 1..(rawlen - 1) /\ 1 - 1 = 0 /\ 2 - 1 = 1 /\ 2 \in 1..2
    OBVIOUS
  <2>1. Avail(at, 1, RC5_T1) > 0 /\ Avail(at, 2, RC5_T1) > 0
    BY <1>1, <2>0 DEF AllLevels
  <2>2. Avail(at, 1, RC5_T1) = 1 /\ Avail(at, 2, RC5_T1) = 2
    BY <2>1, BareEntries DEF BareBegins
  <2>3. PICK p : LevelsStand(d, p, at, 1, rawlen, RC5_T1)
    BY LevelsPlaces
  <2> HIDE DEF d
  <2>4. /\ p[0] = 0 /\ p[1] = p[0] + Avail(at, 1, RC5_T1)
        /\ \A u \in 1..Avail(at, 2, RC5_T1) : d[p[1] + u] = IsMark(2)
    <3>1. p[0] = 0
      BY <2>3 DEF LevelsStand
    <3>2. p[1] = p[1 - 1] + (IF 1 < 1 THEN 0 ELSE Avail(at, 1, RC5_T1))
      BY <2>0, <2>3, Zenon DEF LevelsStand
    <3>3. p[1] = p[0] + Avail(at, 1, RC5_T1)
      BY <2>0, <3>2
    <3>4. \A u \in 1..Avail(at, 2, RC5_T1) : d[p[2 - 1] + u] = IsMark(2)
      BY <2>0, <2>3, Zenon DEF LevelsStand
    <3> QED BY <2>0, <3>1, <3>3, <3>4
  <2>5. p[1] = 1
    BY <2>2, <2>4
  <2>6. d[3] = IsMark(2)
    BY <2>2, <2>4, <2>5
  <2>7. ~IsMark(2)
    BY DEF IsMark
  <2> QED BY <2>6, <2>7 DEF Level
<1> HIDE DEF d
<1>2. ~(AllLevels(at, 1, rawlen, RC5_T1) /\ ~Level(d, 2) /\ Level(d, 3))
  BY <1>1
<1> QED BY <1>2, NoHeader DEF d

HoldsRepeat(at, e) ==
    BareBegins(at, e) /\ at[33] \in Nat /\ MarkSeen(at[33], 600, e)

LEMMA RepeatDecodes ==
    ASSUME NEW at, NEW e \in 0..180, HoldsRepeat(at, e)
    PROVE  /\ DecodeNEC(at, 34) = {} /\ DecodeSony(at, 34) = {} /\ DecodeSamsung(at, 34) = {}
           /\ DecodeRC5(at, 34) = {} /\ DecodeRC6(at, 34) = {}
           /\ DecodeJVC(at, 34) = {Result("JVC", REPEAT)}
<1>0. /\ BareBegins(at, e) /\ at[1] \in Nat /\ MarkSeen(at[1], 600, e)
      /\ at[33] \in Nat /\ MarkSeen(at[33], 600, e)
  BY DEF HoldsRepeat, BareBegins
<1>1. /\ ~MATCH_MARK(at[1], NEC.header) /\ ~MATCH_MARK(at[1], SONY.header)
      /\ ~MATCH_MARK(at[1], SAMSUNG.header) /\ ~MATCH_MARK(at[1], RC6_HDR_MARK)
      /\ MATCH_MARK(at[1], 600) /\ MATCH_MARK(at[33], 600)
  BY <1>0, BareMark
<1>2. DecodeNEC(at, 34) = {}
  BY <1>1 DEF DecodeNEC, Succeeds
<1>3. DecodeSony(at, 34) = {}
  BY <1>1, NoHeader
<1>4. DecodeSamsung(at, 34) = {}
  BY <1>1 DEF DecodeSamsung, Succeeds
<1>5. DecodeRC5(at, 34) = {}
  <2>1. 34 \in Nat /\ 34 > 2
    OBVIOUS
  <2> QED BY <1>0, <2>1, BareNotRC5
<1>6. DecodeRC6(at, 34) = {}
  BY <1>1, NoHeader
<1>7. DecodeJVC(at, 34) = {Result("JVC", REPEAT)}
  <2>1. 34 - 1 = 33 /\ JVC.mark[1] = 600
    BY JVCFields
  <2>2. IsRepeatJVC(at, 34 - 1)
    BY <1>1, <2>1 DEF IsRepeatJVC
  <2> QED BY <2>1, <2>2 DEF DecodeJVC
<1> QED BY <1>2, <1>3, <1>4, <1>5, <1>6, <1>7

-------------------------------------------------------------------------------
(* Levels that are joined to widths.                                       *)

(* The units of a line: unit k covers the levels behind q[k - 1] up to     *)
(* q[k], which are all of its kind.                                        *)
Covers(q, units, levels, n) ==
    /\ units \in Seq(Nat)
    /\ q \in [0..Len(units) -> 0..n] /\ q[0] = 0 /\ q[Len(units)] = n
    /\ \A k \in 1..Len(units) : units[k] >= 1 /\ q[k] = q[k - 1] + units[k]
    /\ \A k \in 1..Len(units) : \A i \in (q[k - 1] + 1)..q[k] : levels[i] = IsMark(k)

IsJoined(units, levels, n) == \E q : Covers(q, units, levels, n)

(* One more level that is like the last unit, or is not.                   *)
LEMMA JoinsLast ==
    ASSUME NEW levels, NEW n \in Nat, NEW units, IsJoined(units, levels, n), Len(units) > 0,
           IsMark(Len(units)) = levels[n + 1]
    PROVE  IsJoined([units EXCEPT ![Len(units)] = @ + 1], levels, n + 1)
<1> DEFINE m == Len(units)
           new == [units EXCEPT ![m] = @ + 1]
<1>1. PICK q : Covers(q, units, levels, n)
  BY DEF IsJoined
<1>2. units \in Seq(Nat) /\ m \in Nat /\ m > 0 /\ m \in 1..m /\ m - 1 \in 0..m /\ m \in 0..m
  BY <1>1, LenProperties DEF Covers
<1>3. /\ new \in Seq(Nat) /\ Len(new) = m /\ new[m] = units[m] + 1
      /\ \A k \in 1..m : k # m => new[k] = units[k]
  <2>1. \A k \in 1..m : units[k] \in Nat
    BY <1>2, ElementOfSeq
  <2>2. units = [k \in 1..m |-> units[k]]
    BY <1>2
  <2>3. new = [k \in 1..m |-> IF k = m THEN units[m] + 1 ELSE units[k]]
    BY <1>2, <2>2
  <2> HIDE DEF new, m
  <2>4. \A k \in 1..m : (IF k = m THEN units[m] + 1 ELSE units[k]) \in Nat
    BY <1>2, <2>1
  <2> QED BY <1>2, <2>3, <2>4
<1> DEFINE r == [k \in 0..m |-> IF k = m THEN n + 1 ELSE q[k]]
<1>4. /\ q \in [0..m -> 0..n] /\ q[0] = 0 /\ q[m] = n
      /\ \A k \in 1..m : units[k] >= 1 /\ q[k] = q[k - 1] + units[k]
      /\ \A k \in 1..m : \A i \in (q[k - 1] + 1)..q[k] : levels[i] = IsMark(k)
  BY <1>1 DEF Covers
<1> HIDE DEF new
<1>5. r[0] = 0 /\ r[m] = n + 1 /\ \A k \in 0..m : k # m => r[k] = q[k]
  BY <1>2, <1>4
<1>6. r \in [0..m -> 0..(n + 1)]
  <2>1. \A k \in 0..m : (IF k = m THEN n + 1 ELSE q[k]) \in 0..(n + 1)
    BY <1>4
  <2> QED BY <2>1
<1> HIDE DEF r, m
<1>7. ASSUME NEW k \in 1..m
      PROVE  /\ new[k] >= 1 /\ r[k] = r[k - 1] + new[k]
             /\ \A i \in (r[k - 1] + 1)..r[k] : levels[i] = IsMark(k)
  <2>1. k \in 0..m /\ k - 1 \in 0..m /\ k - 1 # m /\ units[k] \in Nat /\ q[k - 1] \in Nat /\ q[k] \in Nat
    <3>1. k \in 0..m /\ k - 1 \in 0..m /\ k - 1 # m
      BY <1>2
    <3>2. units[k] \in Nat
      BY <1>2, ElementOfSeq DEF m
    <3> QED BY <1>4, <3>1, <3>2
  <2>2. r[k - 1] = q[k - 1]
    BY <1>5, <2>1
  <2>3. units[k] >= 1 /\ q[k] = q[k - 1] + units[k]
        /\ \A i \in (q[k - 1] + 1)..q[k] : levels[i] = IsMark(k)
    BY <1>4
  <2>4. CASE k = m
    <3>1. new[k] = units[k] + 1 /\ r[k] = n + 1 /\ q[k] = n
      BY <1>3, <1>4, <1>5, <2>4
    <3>2. new[k] >= 1 /\ r[k] = r[k - 1] + new[k]
      BY <2>1, <2>2, <2>3, <3>1
    <3>3. ASSUME NEW i \in (r[k - 1] + 1)..r[k] PROVE levels[i] = IsMark(k)
      <4>1. i = n + 1 \/ i \in (q[k - 1] + 1)..q[k]
        BY <2>1, <2>2, <3>1
      <4>2. levels[n + 1] = IsMark(k)
        BY <2>4 DEF m
      <4> QED BY <2>3, <4>1, <4>2
    <3> QED BY <3>2, <3>3
  <2>5. CASE k # m
    <3>1. new[k] = units[k] /\ r[k] = q[k]
      BY <1>3, <1>5, <2>1, <2>5
    <3> QED BY <2>2, <2>3, <3>1
  <2> QED BY <2>4, <2>5
<1>8. Covers(r, new, levels, n + 1)
  BY <1>3, <1>5, <1>6, <1>7 DEF Covers
<1> QED BY <1>8 DEF IsJoined, new, m

LEMMA JoinsNew ==
    ASSUME NEW levels, NEW n \in Nat, NEW units, IsJoined(units, levels, n),
           levels[n + 1] \in BOOLEAN, IsMark(Len(units)) # levels[n + 1]
    PROVE  IsJoined(Append(units, 1), levels, n + 1)
<1> DEFINE m == Len(units)
           new == Append(units, 1)
<1>1. PICK q : Covers(q, units, levels, n)
  BY DEF IsJoined
<1>2. units \in Seq(Nat) /\ m \in Nat
  BY <1>1, LenProperties DEF Covers
<1>3. /\ new \in Seq(Nat) /\ Len(new) = m + 1 /\ new[m + 1] = 1
      /\ \A k \in 1..m : new[k] = units[k]
  BY <1>2, AppendProperties
<1> DEFINE r == [k \in 0..(m + 1) |-> IF k = m + 1 THEN n + 1 ELSE q[k]]
<1>4. /\ q \in [0..m -> 0..n] /\ q[0] = 0 /\ q[m] = n
      /\ \A k \in 1..m : units[k] >= 1 /\ q[k] = q[k - 1] + units[k]
      /\ \A k \in 1..m : \A i \in (q[k - 1] + 1)..q[k] : levels[i] = IsMark(k)
  BY <1>1 DEF Covers
<1> HIDE DEF new
<1>9. levels[n + 1] = IsMark(m + 1)
  <2>1. IsMark(m + 1) # IsMark(m)
    BY <1>2 DEF IsMark
  <2>2. IsMark(m) \in BOOLEAN /\ IsMark(m + 1) \in BOOLEAN /\ IsMark(m) # levels[n + 1]
    BY MarkIsBoolean
  <2> HIDE DEF m
  <2> QED BY <2>1, <2>2, Zenon
<1> HIDE DEF m
<1>5. r[0] = 0 /\ r[m + 1] = n + 1 /\ \A k \in 0..m : r[k] = q[k]
  BY <1>2, <1>4
<1>6. r \in [0..(m + 1) -> 0..(n + 1)]
  <2>1. \A k \in 0..(m + 1) : (IF k = m + 1 THEN n + 1 ELSE q[k]) \in 0..(n + 1)
    BY <1>2, <1>4
  <2> QED BY <2>1
<1> HIDE DEF r
<1>7. ASSUME NEW k \in 1..(m + 1)
      PROVE  /\ new[k] >= 1 /\ r[k] = r[k - 1] + new[k]
             /\ \A i \in (r[k - 1] + 1)..r[k] : levels[i] = IsMark(k)
  <2>1. k - 1 \in 0..m
    BY <1>2
  <2>2. r[k - 1] = q[k - 1] /\ q[k - 1] \in Nat
    BY <1>4, <1>5, <2>1
  <2>3. CASE k = m + 1
    <3>1. new[k] = 1 /\ r[k] = n + 1 /\ r[k - 1] = n
      BY <1>2, <1>3, <1>4, <1>5, <2>2, <2>3
    <3>2. \A i \in (n + 1)..(n + 1) : levels[i] = IsMark(k)
      BY <1>9, <2>3
    <3> QED BY <3>1, <3>2
  <2>4. CASE k # m + 1
    <3>1. k \in 1..m /\ k \in 0..m
      BY <1>2, <2>4
    <3>2. new[k] = units[k] /\ r[k] = q[k]
      BY <1>3, <1>5, <3>1
    <3> QED BY <1>4, <2>2, <3>1, <3>2
  <2> QED BY <2>3, <2>4
<1>8. Covers(r, new, levels, n + 1)
  BY <1>3, <1>5, <1>6, <1>7 DEF Covers
<1> QED BY <1>8 DEF IsJoined, new

(* What Join does with one level, as a function.                           *)
JoinedWith(levels, k) ==
    [units \in Seq(Nat) |->
        IF IsMark(Len(units)) = levels[k] THEN [units EXCEPT ![Len(units)] = @ + 1]
        ELSE Append(units, 1)]

JoinsTo(g, levels, n) ==
    /\ g[0] = <<>> /\ Joined(levels) = g[n]
    /\ \A k \in 0..n : g[k] \in Seq(Nat)
    /\ \A k \in 1..n : g[k] = JoinedWith(levels, k)[g[k - 1]]

LEMMA JoinTypes ==
    ASSUME NEW units \in Seq(Nat)
    PROVE  [units EXCEPT ![Len(units)] = @ + 1] \in Seq(Nat) /\ Append(units, 1) \in Seq(Nat)
<1> DEFINE m == Len(units)
           new == [units EXCEPT ![m] = @ + 1]
<1>1. m \in Nat /\ (\A k \in 1..m : units[k] \in Nat) /\ units = [k \in 1..m |-> units[k]]
  BY LenProperties, ElementOfSeq
<1>2. new = [k \in 1..m |-> IF k = m THEN units[m] + 1 ELSE units[k]]
  BY <1>1
<1> HIDE DEF new, m
<1>3. \A k \in 1..m : (IF k = m THEN units[m] + 1 ELSE units[k]) \in Nat
  BY <1>1
<1>4. new \in Seq(Nat)
  BY <1>1, <1>2, <1>3, SMTT(30)
<1>5. Append(units, 1) \in Seq(Nat)
  BY AppendProperties
<1> QED BY <1>4, <1>5 DEF new, m

LEMMA JoinedFollows ==
    ASSUME NEW levels, NEW n \in Nat, Len(levels) = n
    PROVE  \E g : JoinsTo(g, levels, n)
<1> DEFINE F == [k \in 1..n |-> JoinedWith(levels, k)]
           Step(units, k) == IF IsMark(Len(units)) = levels[k]
                             THEN [units EXCEPT ![Len(units)] = @ + 1]
                             ELSE Append(units, 1)
           At(g, i) == IF i = 0 THEN <<>> ELSE Step(g[i - 1], i)
           Solves(g) == g = [i \in 0..n |-> At(g, i)]
<1>1. StepsIn(F, n, Seq(Nat))
  <2> SUFFICES ASSUME NEW k \in 1..n PROVE JoinedWith(levels, k) \in [Seq(Nat) -> Seq(Nat)]
    BY DEF StepsIn
  <2>1. \A units \in Seq(Nat) : Step(units, k) \in Seq(Nat)
    BY JoinTypes
  <2>2. JoinedWith(levels, k) = [units \in Seq(Nat) |-> Step(units, k)]
    BY DEF JoinedWith
  <2> HIDE DEF Step
  <2> QED BY <2>1, <2>2
<1>2. PICK g \in [0..n -> Seq(Nat)] : g[0] = <<>> /\ \A k \in 1..n : g[k] = F[k][g[k - 1]]
  <2> HIDE DEF F
  <2>0. <<>> \in Seq(Nat)
    OBVIOUS
  <2>1. PICK g : Follows(g, F, n, Seq(Nat), <<>>)
    BY <1>1, <2>0, Recursion
  <2> QED BY <2>1 DEF Follows
<1>3. ASSUME NEW k \in 1..n
      PROVE  g[k] = JoinedWith(levels, k)[g[k - 1]] /\ g[k] = Step(g[k - 1], k)
  <2>1. k - 1 \in 0..n
    OBVIOUS
  <2>2. g[k - 1] \in Seq(Nat)
    BY <2>1
  <2>3. g[k] = JoinedWith(levels, k)[g[k - 1]]
    BY <1>2
  <2>4. JoinedWith(levels, k)[g[k - 1]] = Step(g[k - 1], k)
    BY <2>2 DEF JoinedWith
  <2> QED BY <2>3, <2>4
<1> HIDE DEF Step
<1>4. Solves(g)
  <2>1. ASSUME NEW i \in 0..n PROVE g[i] = At(g, i)
    <3>1. CASE i = 0
      BY <1>2, <3>1
    <3>2. CASE i # 0
      <4>1. i \in 1..n
        BY <3>2
      <4> QED BY <1>3, <3>2, <4>1
    <3> QED BY <3>1, <3>2
  <2> HIDE DEF At
  <2> QED BY <2>1
<1> DEFINE h == CHOOSE h : Solves(h)
<1>5. Solves(h)
  <2> HIDE DEF Solves
  <2> QED BY <1>4
<1>6. Joined(levels) = h[n]
  BY Zenon DEF Joined, Step
<1>7. \A i \in 0..n : h[i] = At(h, i)
  <2> HIDE DEF At, h
  <2> QED BY <1>5
<1> DEFINE Same == {k \in 0..n : h[k] = g[k]}
<1>8. 0..n \subseteq Same
  <2>1. 0 \in Same
    <3> HIDE DEF h
    <3> QED BY <1>2, <1>7
  <2>2. ASSUME NEW k \in 0..(n - 1), k \in Same PROVE k + 1 \in Same
    <3>1. k + 1 \in 1..n /\ k + 1 \in 0..n /\ k + 1 # 0 /\ (k + 1) - 1 = k
      OBVIOUS
    <3>2. h[k] = g[k]
      BY <2>2
    <3>3. h[k + 1] = Step(h[k], k + 1)
      <4> HIDE DEF h
      <4> QED BY <1>7, <3>1
    <3>4. g[k + 1] = Step(g[k], k + 1)
      BY <1>3, <3>1
    <3> HIDE DEF h
    <3> QED BY <3>1, <3>2, <3>3, <3>4
  <2> HIDE DEF Same, h
  <2> QED BY <2>1, <2>2, SetInduction
<1> HIDE DEF h
<1>9. h[n] = g[n]
  BY <1>8
<1> QED BY <1>2, <1>3, <1>6, <1>9, ZenonT(40) DEF JoinsTo

(* The first level is a mark: what is joined covers all of them.           *)
LEMMA JoinedCovers ==
    ASSUME NEW levels \in Seq(BOOLEAN), Len(levels) > 0, levels[1]
    PROVE  IsJoined(Joined(levels), levels, Len(levels))
<1> DEFINE n == Len(levels)
<1>1. n \in Nat /\ n > 0 /\ \A k \in 1..n : levels[k] \in BOOLEAN
  BY LenProperties, ElementOfSeq
<1>2. PICK g : /\ g[0] = <<>> /\ Joined(levels) = g[n]
               /\ \A k \in 0..n : g[k] \in Seq(Nat)
               /\ \A k \in 1..n : g[k] = JoinedWith(levels, k)[g[k - 1]]
  <2>1. PICK g : JoinsTo(g, levels, n)
    BY <1>1, JoinedFollows
  <2> HIDE DEF n
  <2> QED BY <2>1 DEF JoinsTo
<1> HIDE DEF n
<1> DEFINE Good == {k \in 0..n : IsJoined(g[k], levels, k) /\ (k > 0 => Len(g[k]) > 0)}
<1>3. 0 \in Good
  <2>1. <<>> \in Seq(Nat) /\ Len(<<>>) = 0
    OBVIOUS
  <2> DEFINE q == [k \in 0..0 |-> 0]
  <2>2. q \in [0..0 -> 0..0] /\ q[0] = 0
    OBVIOUS
  <2> HIDE DEF q
  <2>3. Covers(q, <<>>, levels, 0)
    BY <2>1, <2>2 DEF Covers
  <2>4. IsJoined(<<>>, levels, 0)
    BY <2>3 DEF IsJoined
  <2> QED BY <1>1, <1>2, <2>4
<1>4. ASSUME NEW k \in 0..(n - 1), k \in Good PROVE k + 1 \in Good
  <2>1. k + 1 \in 1..n /\ k + 1 \in 0..n /\ k \in 0..n /\ (k + 1) - 1 = k /\ k \in Nat
    BY <1>1
  <2> DEFINE units == g[k]
             new == g[k + 1]
  <2>2. /\ units \in Seq(Nat) /\ new = JoinedWith(levels, k + 1)[units]
        /\ IsJoined(units, levels, k) /\ (k > 0 => Len(units) > 0)
        /\ levels[k + 1] \in BOOLEAN
    BY <1>1, <1>2, <1>4, <2>1
  <2>3. k = 0 => units = <<>>
    BY <1>2
  <2> HIDE DEF units, new
  <2>4. new = IF IsMark(Len(units)) = levels[k + 1]
              THEN [units EXCEPT ![Len(units)] = @ + 1] ELSE Append(units, 1)
    BY <2>2 DEF JoinedWith
  <2>5. Len(units) \in Nat
    BY <2>2, LenProperties
  <2>6. CASE IsMark(Len(units)) = levels[k + 1]
    <3>1. k # 0
      <4> SUFFICES ASSUME k = 0 PROVE FALSE
        OBVIOUS
      <4>1. Len(units) = 0 /\ levels[k + 1]
        BY <2>3
      <4>2. ~IsMark(0)
        BY DEF IsMark
      <4> QED BY <2>6, <4>1, <4>2
    <3>2. Len(units) > 0
      BY <2>1, <2>2, <3>1
    <3>3. new = [units EXCEPT ![Len(units)] = @ + 1]
      BY <2>4, <2>6
    <3>4. IsJoined(new, levels, k + 1)
      BY <2>1, <2>2, <2>6, <3>2, <3>3, JoinsLast
    <3>5. Len(new) = Len(units)
      BY <2>2, <3>3
    <3> QED BY <2>1, <3>2, <3>4, <3>5 DEF new
  <2>7. CASE IsMark(Len(units)) # levels[k + 1]
    <3>1. new = Append(units, 1)
      BY <2>4, <2>7
    <3>2. IsJoined(new, levels, k + 1)
      BY <2>1, <2>2, <2>7, <3>1, JoinsNew
    <3>3. Len(new) = Len(units) + 1
      BY <2>2, <3>1, AppendProperties
    <3> QED BY <2>1, <2>5, <3>2, <3>3 DEF new
  <2> QED BY <2>6, <2>7
<1>5. 0..n \subseteq Good
  <2> HIDE DEF Good
  <2> QED BY <1>1, <1>3, <1>4, SetInduction
<1>6. n \in Good
  <2> HIDE DEF Good
  <2>1. n \in 0..n
    BY <1>1
  <2> QED BY <1>5, <2>1
<1> QED BY <1>2, <1>6 DEF n

(* Somewhere from i to j the level changes.                                *)
Changes(levels, i, j) == \E d \in i..j : levels[d] # levels[d + 1]

(* No unit is longer than the levels are alike.                            *)
LEMMA RunsShort ==
    ASSUME NEW q, NEW units, NEW levels, NEW n \in Nat, Covers(q, units, levels, n), NEW c \in Nat,
           \A i \in 1..(n - c) : Changes(levels, i, i + c - 1)
    PROVE  \A k \in 1..Len(units) : units[k] \in 1..c
<1> SUFFICES ASSUME NEW k \in 1..Len(units) PROVE units[k] \in 1..c
  OBVIOUS
<1>1. units \in Seq(Nat) /\ Len(units) \in Nat
  BY LenProperties DEF Covers
<1>2. units[k] \in Nat /\ k - 1 \in 0..Len(units) /\ k \in 0..Len(units)
  BY <1>1, ElementOfSeq
<1>3. /\ q[k - 1] \in 0..n /\ q[k] \in 0..n /\ units[k] >= 1 /\ q[k] = q[k - 1] + units[k]
      /\ \A i \in (q[k - 1] + 1)..q[k] : levels[i] = IsMark(k)
  BY <1>2 DEF Covers
<1>4. SUFFICES ASSUME units[k] > c PROVE FALSE
  BY <1>2, <1>3
<1> DEFINE i == q[k - 1] + 1
<1>5. i \in 1..(n - c) /\ i + c <= q[k]
  BY <1>2, <1>3, <1>4
<1>6. PICK d \in i..(i + c - 1) : levels[d] # levels[d + 1]
  <2> HIDE DEF i
  <2>1. Changes(levels, i, i + c - 1)
    BY <1>5
  <2> QED BY <2>1 DEF Changes
<1>7. d \in (q[k - 1] + 1)..q[k] /\ d + 1 \in (q[k - 1] + 1)..q[k]
  <2>1. i \in Nat /\ i + c <= q[k] /\ q[k] \in Nat /\ i = q[k - 1] + 1
    BY <1>3, <1>5
  <2> HIDE DEF i
  <2>2. d \in Nat /\ i <= d /\ d + 1 <= i + c
    BY <1>6, <2>1
  <2>3. d \in i..q[k] /\ d + 1 \in i..q[k]
    BY <2>1, <2>2
  <2> QED BY <2>1, <2>3
<1>8. levels[d] = IsMark(k) /\ levels[d + 1] = IsMark(k)
  BY <1>3, <1>7
<1> QED BY <1>6, <1>8

(* There are no more units than levels, and half as many at least if no    *)
(* unit is longer than two.                                                *)
LEMMA CoverBounds ==
    ASSUME NEW q, NEW units, NEW levels, NEW n \in Nat, Covers(q, units, levels, n)
    PROVE  /\ Len(units) <= n
           /\ (\A k \in 1..Len(units) : units[k] <= 2) =>
                 \A k \in 0..Len(units) : q[k] <= 2 * k
<1> DEFINE m == Len(units)
           Less == {k \in 0..m : k <= q[k]}
           Twofold == {k \in 0..m : q[k] <= 2 * k}
<1>1. units \in Seq(Nat) /\ m \in Nat
  BY LenProperties DEF Covers
<1>2. /\ \A k \in 0..m : q[k] \in 0..n
      /\ q[0] = 0 /\ q[m] = n
      /\ \A k \in 1..m : units[k] >= 1 /\ q[k] = q[k - 1] + units[k] /\ units[k] \in Nat
  BY <1>1, ElementOfSeq DEF Covers
<1> HIDE DEF m
<1>3. ASSUME NEW k \in 0..(m - 1)
      PROVE  /\ k \in Nat /\ k + 1 \in 1..m /\ k + 1 \in 0..m /\ k \in 0..m
             /\ q[k] \in Nat /\ units[k + 1] \in Nat /\ units[k + 1] >= 1
             /\ q[k + 1] = q[k] + units[k + 1]
  <2>1. k \in Nat /\ k + 1 \in 1..m /\ k + 1 \in 0..m /\ k \in 0..m /\ (k + 1) - 1 = k
    BY <1>1
  <2>2. units[k + 1] >= 1 /\ q[k + 1] = q[(k + 1) - 1] + units[k + 1] /\ units[k + 1] \in Nat
    BY <1>2, <2>1
  <2> QED BY <1>2, <2>1, <2>2
<1>4. m <= n
  <2>1. 0 \in Less
    BY <1>1, <1>2
  <2>2. ASSUME NEW k \in 0..(m - 1), k \in Less PROVE k + 1 \in Less
    BY <1>3, <2>2
  <2>3. 0..m \subseteq Less
    <3> HIDE DEF Less
    <3> QED BY <1>1, <2>1, <2>2, SetInduction
  <2> QED BY <1>1, <1>2, <2>3
<1>5. ASSUME \A k \in 1..m : units[k] <= 2 PROVE \A k \in 0..m : q[k] <= 2 * k
  <2>1. 0 \in Twofold
    BY <1>1, <1>2
  <2>2. ASSUME NEW k \in 0..(m - 1), k \in Twofold PROVE k + 1 \in Twofold
    <3>1. units[k + 1] <= 2 /\ q[k] <= 2 * k
      BY <1>3, <1>5, <2>2
    <3> QED BY <1>3, <3>1
  <2>3. 0..m \subseteq Twofold
    <3> HIDE DEF Twofold
    <3> QED BY <1>1, <2>1, <2>2, SetInduction
  <2> QED BY <2>3
<1> QED BY <1>4, <1>5 DEF m

(* The units that are sent: a space at the end is not.                     *)
MarksEnd(units) == IF IsMark(Len(units)) THEN Len(units) ELSE Len(units) - 1

WidthsOf(w, units, t1) ==
    /\ w \in Seq(Nat) /\ Len(w) = MarksEnd(units) /\ MarksEnd(units) \in 1..Len(units)
    /\ \A i \in 1..MarksEnd(units) : w[i] = units[i] * t1

LEMMA WidthsAre ==
    ASSUME NEW levels, NEW units, units = Joined(levels), units \in Seq(Nat), Len(units) > 0,
           NEW t1 \in Nat
    PROVE  WidthsOf(Widths(levels, t1), units, t1)
<1> DEFINE m == MarksEnd(units)
<1>1. Len(units) \in Nat
  BY LenProperties
<1>2. IsMark(1)
  BY DEF IsMark
<1>3. m \in 1..Len(units)
  <2>1. CASE IsMark(Len(units))
    BY <1>1, <2>1 DEF MarksEnd
  <2>2. CASE ~IsMark(Len(units))
    <3> DEFINE l == Len(units)
    <3>1. m = l - 1
      BY <2>2 DEF MarksEnd
    <3>2. l # 1 /\ l > 0 /\ l \in Nat
      BY <1>1, <1>2, <2>2
    <3> HIDE DEF l, m
    <3>3. m \in 1..l
      BY <3>1, <3>2
    <3> QED BY <3>3 DEF l
  <2> QED BY <2>1, <2>2
<1>4. Widths(levels, t1) = [i \in 1..m |-> units[i] * t1]
  BY DEF Widths, MarksEnd
<1> HIDE DEF m
<1>5. ASSUME NEW i \in 1..m PROVE units[i] * t1 \in Nat
  <2>1. i \in 1..Len(units)
    BY <1>1, <1>3
  <2>2. units[i] \in Nat
    BY <2>1, ElementOfSeq
  <2> QED BY <2>2
<1>6. Widths(levels, t1) \in Seq(Nat) /\ Len(Widths(levels, t1)) = m
  <2> DEFINE v(i) == units[i] * t1
  <2>1. m \in Nat /\ \A i \in 1..m : v(i) \in Nat
    BY <1>1, <1>3, <1>5
  <2>2. Widths(levels, t1) = [i \in 1..m |-> v(i)]
    BY <1>4
  <2> HIDE DEF v
  <2> QED BY <2>1, <2>2
<1>7. \A i \in 1..m : Widths(levels, t1)[i] = units[i] * t1
  BY <1>4
<1> QED BY <1>3, <1>6, <1>7, Zenon DEF m, WidthsOf

(* The levels a decoder has are those that were sent, but for spaces at    *)
(* the end, which it has as well when it asks for them.                    *)
SameLevels(d, levels) ==
    /\ Len(d) \in Nat /\ Len(d) <= Len(levels)
    /\ \A i \in Nat \ {0} : Level(d, i) = Level(levels, i)

(* Behind the first o entries of the buffer come len of such a line.       *)
HasLevels(at, o, len, t1, levels) ==
    /\ AllLevels(at, o + 1, len + o + 1, t1)
    /\ SameLevels(Levels(at, o + 1, len + o + 1, t1), levels)

LEMMA LevelsBack ==
    ASSUME NEW levels \in Seq(BOOLEAN), NEW n \in Nat, n > 0, Len(levels) = n,
           NEW q, NEW units, Covers(q, units, levels, n), Len(units) > 0,
           NEW len, len = MarksEnd(units), len \in 1..Len(units),
           NEW o \in {0, 2}, NEW at, NEW t1,
           \A k \in 1..len : Avail(at, k + o, t1) = units[k]
    PROVE  HasLevels(at, o, len, t1, levels)
<1> DEFINE m == Len(units)
           rawlen == len + o + 1
           d == Levels(at, o + 1, rawlen, t1)
<1>1. units \in Seq(Nat) /\ m \in Nat /\ len \in Nat /\ len <= m /\ len >= 1 /\ (o = 0 \/ o = 2)
  BY LenProperties DEF Covers
<1>2. /\ \A k \in 0..m : q[k] \in 0..n
      /\ q[0] = 0 /\ q[m] = n
      /\ \A k \in 1..m : units[k] >= 1 /\ q[k] = q[k - 1] + units[k] /\ units[k] \in Nat
      /\ \A k \in 1..m : \A i \in (q[k - 1] + 1)..q[k] : levels[i] = IsMark(k)
  BY <1>1, ElementOfSeq DEF Covers
<1>3. MarksEnd(units) = IF IsMark(m) THEN m ELSE m - 1
  BY DEF MarksEnd
<1> HIDE DEF m
<1>4. rawlen \in Nat \ {0} /\ rawlen - 1 = len + o /\ o + 1 \in Nat \ {0}
  BY <1>1
<1> HIDE DEF rawlen
<1>5. d \in Seq(BOOLEAN) /\ \E p : LevelsStand(d, p, at, o + 1, rawlen, t1)
  BY <1>4, LevelsPlaces
<1>6. PICK p : LevelsStand(d, p, at, o + 1, rawlen, t1)
  BY <1>5
<1> HIDE DEF d
<1>7. /\ p[0] = 0 /\ p[len + o] = Len(d)
      /\ \A k \in 1..(len + o) :
            p[k] = p[k - 1] + (IF k < o + 1 THEN 0 ELSE Avail(at, k, t1))
      /\ \A k \in (o + 1)..(len + o) : \A u \in 1..Avail(at, k, t1) :
            d[p[k - 1] + u] = IsMark(k)
  BY <1>4, <1>6 DEF LevelsStand
<1>8. p[o] = 0
  <2>1. CASE o = 0
    BY <1>7, <2>1
  <2>2. CASE o = 2
    <3>1. 1 \in 1..(len + o) /\ 2 \in 1..(len + o) /\ 1 < o + 1 /\ 2 < o + 1 /\ 1 - 1 = 0 /\ 2 - 1 = 1
      BY <1>1, <2>2
    <3>2. p[1] = p[0] + 0 /\ p[2] = p[1] + 0
      BY <1>7, <3>1
    <3> QED BY <1>7, <2>2, <3>2
  <2> QED BY <1>1, <2>1, <2>2
<1> DEFINE Same == {k \in 0..len : p[k + o] = q[k]}
<1>9. 0..len \subseteq Same
  <2>1. 0 \in Same
    BY <1>1, <1>2, <1>8
  <2>2. ASSUME NEW k \in 0..(len - 1), k \in Same PROVE k + 1 \in Same
    <3>1. /\ k + 1 \in 1..m /\ k + 1 \in 1..len /\ k + 1 \in 0..len /\ (k + 1) - 1 = k
          /\ (k + 1) + o \in 1..(len + o) /\ ~((k + 1) + o < o + 1) /\ ((k + 1) + o) - 1 = k + o
      BY <1>1
    <3>2. Avail(at, (k + 1) + o, t1) = units[k + 1]
      BY <3>1
    <3>3. p[(k + 1) + o] = p[k + o] + units[k + 1]
      BY <1>7, <3>1, <3>2
    <3>4. q[k + 1] = q[k] + units[k + 1]
      BY <1>2, <3>1
    <3>5. p[k + o] = q[k]
      BY <2>2
    <3> QED BY <3>1, <3>3, <3>4, <3>5
  <2> HIDE DEF Same
  <2> QED BY <1>1, <2>1, <2>2, SetInduction
<1>10. \A k \in 0..len : p[k + o] = q[k]
  BY <1>9
<1>11. Len(d) = q[len] /\ q[len] \in 0..n
  <2>1. len \in 0..len /\ len \in 0..m
    BY <1>1
  <2> QED BY <1>2, <1>7, <1>10, <2>1
<1>12. ASSUME NEW k \in 1..len PROVE IsMark(k + o) = IsMark(k)
  <2>1. CASE o = 0
    <3>1. k + o = k
      BY <1>1, <2>1
    <3> QED BY <3>1
  <2>2. CASE o = 2
    <3>1. k \in Nat /\ (k + 2) % 2 = k % 2
      BY <1>1
    <3>2. (k + o) % 2 = k % 2
      BY <2>2, <3>1
    <3> QED BY <3>2, Zenon DEF IsMark
  <2> QED BY <1>1, <2>1, <2>2
<1>13. ASSUME NEW i \in 1..q[len] PROVE d[i] = levels[i]
  <2> DEFINE Reached == {k \in 0..len : i <= q[k]}
  <2>1. len \in Reached
    BY <1>1, <1>2, <1>11
  <2> HIDE DEF Reached
  <2>2. PICK k \in 0..len : k \in Reached /\ \A j \in 0..(k - 1) : j \notin Reached
    BY <1>1, <2>1, LeastElement
  <2>3. k # 0
    BY <1>2, <1>11, <2>2 DEF Reached
  <2>4. k \in 1..len /\ k \in 1..m /\ k - 1 \in 0..len /\ k - 1 \in 0..m /\ k - 1 \in 0..(k - 1) /\ k \in 0..m
    BY <1>1, <2>2, <2>3
  <2>5. /\ i \in Nat /\ q[k - 1] \in Nat /\ units[k] \in Nat
        /\ q[k - 1] < i /\ i <= q[k] /\ q[k] = q[k - 1] + units[k]
    <3>1. i <= q[k] /\ ~(i <= q[k - 1])
      BY <2>2, <2>4 DEF Reached
    <3>2. q[k - 1] \in Nat /\ i \in Nat
      BY <1>2, <1>11, <2>4
    <3> QED BY <1>2, <2>4, <3>1, <3>2
  <2> DEFINE u == i - q[k - 1]
  <2>6. u \in 1..units[k] /\ q[k - 1] + u = i
    BY <2>5
  <2> HIDE DEF u
  <2>7. /\ k + o \in (o + 1)..(len + o) /\ (k + o) - 1 = (k - 1) + o
        /\ Avail(at, k + o, t1) = units[k]
    BY <1>1, <2>4
  <2>8. d[p[(k - 1) + o] + u] = IsMark(k + o)
    BY <1>7, <2>6, <2>7
  <2>9. p[(k - 1) + o] = q[k - 1]
    BY <1>10, <2>4
  <2>10. d[i] = IsMark(k + o)
    BY <2>6, <2>8, <2>9
  <2>11. i \in (q[k - 1] + 1)..q[k]
    BY <1>2, <2>4, <2>5
  <2>12. levels[i] = IsMark(k)
    BY <1>2, <2>4, <2>11
  <2> QED BY <1>12, <2>4, <2>10, <2>12
<1>14. ASSUME NEW i \in (q[len] + 1)..n PROVE levels[i] = FALSE
  <2>1. len # m
    BY <1>2, <1>11
  <2>2. len = m - 1 /\ ~IsMark(m)
    BY <1>3, <2>1
  <2>3. m \in 1..m /\ i \in (q[m - 1] + 1)..q[m]
    BY <1>1, <1>2, <2>2
  <2>4. levels[i] = IsMark(m) /\ IsMark(m) \in BOOLEAN
    BY <1>2, <2>3, MarkIsBoolean
  <2> QED BY <2>2, <2>4, Zenon
<1>15. ASSUME NEW i \in Nat \ {0} PROVE Level(d, i) = Level(levels, i)
  <2>1. CASE i <= q[len]
    <3>1. i \in 1..q[len] /\ i <= n
      BY <1>11, <2>1
    <3>2. Level(d, i) = d[i] /\ Level(levels, i) = levels[i]
      BY <1>11, <2>1, <3>1 DEF Level
    <3> QED BY <1>13, <3>1, <3>2
  <2>2. CASE ~(i <= q[len]) /\ i <= n
    <3>1. i \in (q[len] + 1)..n
      BY <1>11, <2>2
    <3>2. Level(d, i) = FALSE /\ Level(levels, i) = levels[i]
      BY <1>11, <2>2 DEF Level
    <3> QED BY <1>14, <3>1, <3>2
  <2>3. CASE ~(i <= q[len]) /\ ~(i <= n)
    BY <1>11, <2>3 DEF Level
  <2> QED BY <2>1, <2>2, <2>3
<1>16. SameLevels(d, levels)
  BY <1>11, <1>15 DEF SameLevels
<1>17. AllLevels(at, o + 1, rawlen, t1)
  <2> SUFFICES ASSUME NEW i \in (o + 1)..(len + o) PROVE Avail(at, i, t1) > 0
    BY <1>4 DEF AllLevels
  <2>1. i - o \in 1..len /\ (i - o) + o = i /\ i - o \in 1..m
    BY <1>1
  <2>2. Avail(at, i, t1) = units[i - o]
    BY <2>1
  <2>3. units[i - o] >= 1 /\ units[i - o] \in Nat
    BY <1>2, <2>1
  <2> QED BY <2>2, <2>3
<1> QED BY <1>16, <1>17 DEF HasLevels, d, rawlen

-------------------------------------------------------------------------------
(* The levels of RC5 and RC6.                                              *)

(* Of RC5: after the two start bits each bit is a space and a mark, or a   *)
(* mark and a space.                                                       *)
SentRC5(levels, bits, n) ==
    /\ levels \in Seq(BOOLEAN) /\ Len(levels) = 2 * n + 3
    /\ levels[1] = TRUE /\ levels[2] = FALSE /\ levels[3] = TRUE
    /\ \A j \in 1..n : /\ levels[2 * j + 2] = (bits[j] = 0)
                       /\ levels[2 * j + 3] = (bits[j] = 1)

LEMMA LevelsOfRC5 ==
    ASSUME NEW n \in Nat, NEW bits \in Seq({0, 1}), Len(bits) = n
    PROVE  SentRC5(LevelsRC5(bits), bits, n)
<1> DEFINE a(j) == (bits[j] = 0)
           b(j) == (bits[j] = 1)
           s == [j \in 1..n |-> <<a(j), b(j)>>]
           h == <<TRUE, FALSE, TRUE>>
           f == FlattenSeq(s)
           w == LevelsRC5(bits)
<1>1. DOMAIN bits = 1..n
  BY LenProperties
<1>2. w = h \o f
  BY <1>1 DEF LevelsRC5
<1>3. \A j \in 1..n : a(j) \in BOOLEAN /\ b(j) \in BOOLEAN
  OBVIOUS
<1> HIDE DEF a, b
<1>4. ASSUME NEW j \in 1..n
      PROVE  /\ <<a(j), b(j)>> \in Seq(BOOLEAN) /\ Len(<<a(j), b(j)>>) = 2
             /\ <<a(j), b(j)>>[1] = a(j) /\ <<a(j), b(j)>>[2] = b(j)
  BY <1>3
<1>5. /\ s \in Seq(Seq(BOOLEAN)) /\ Len(s) = n
      /\ \A j \in 1..n : Len(s[j]) = 2 /\ s[j][1] = a(j) /\ s[j][2] = b(j)
  <2> DEFINE e(j) == <<a(j), b(j)>>
  <2>1. \A j \in 1..n : e(j) \in Seq(BOOLEAN) /\ Len(e(j)) = 2 /\ e(j)[1] = a(j) /\ e(j)[2] = b(j)
    BY <1>4
  <2>2. s = [j \in 1..n |-> e(j)]
    OBVIOUS
  <2> HIDE DEF e, s
  <2> QED BY <2>1, <2>2
<1> HIDE DEF s
<1>6. f \in Seq(BOOLEAN) /\ \E p : StandsAt(f, s, p)
  BY <1>5, FlattenPlaces
<1>7. PICK p : StandsAt(f, s, p)
  BY <1>6
<1> HIDE DEF f
<1>8. /\ p[0] = 0 /\ p[n] = Len(f)
      /\ \A k \in 1..n : p[k] = p[k - 1] + 2
      /\ \A k \in 1..n : f[p[k - 1] + 1] = a(k) /\ f[p[k - 1] + 2] = b(k)
  <2>1. 1 \in 1..2 /\ 2 \in 1..2
    OBVIOUS
  <2> QED BY <1>5, <1>7, <2>1, ZenonT(40) DEF StandsAt
<1> DEFINE Twofold == {k \in 0..n : p[k] = 2 * k}
<1>9. 0..n \subseteq Twofold
  <2>1. 0 \in Twofold
    BY <1>8
  <2>2. ASSUME NEW k \in 0..(n - 1), k \in Twofold PROVE k + 1 \in Twofold
    <3>1. k + 1 \in 1..n /\ k + 1 \in 0..n /\ (k + 1) - 1 = k /\ k \in Nat
      OBVIOUS
    <3>2. p[k + 1] = p[k] + 2 /\ p[k] = 2 * k
      BY <1>8, <2>2, <3>1
    <3> QED BY <3>1, <3>2
  <2> HIDE DEF Twofold
  <2> QED BY <2>1, <2>2, SetInduction
<1>10. \A k \in 0..n : p[k] = 2 * k
  BY <1>9
<1>11. Len(f) = 2 * n
  BY <1>8, <1>10
<1>12. h \in Seq(BOOLEAN) /\ Len(h) = 3 /\ h[1] = TRUE /\ h[2] = FALSE /\ h[3] = TRUE
  OBVIOUS
<1> HIDE DEF h, w
<1>13. /\ w \in Seq(BOOLEAN) /\ Len(w) = 2 * n + 3
       /\ \A i \in 1..(2 * n + 3) : w[i] = IF i <= 3 THEN h[i] ELSE f[i - 3]
  <2>0. h \in Seq(BOOLEAN) /\ f \in Seq(BOOLEAN)
    BY <1>6, <1>12
  <2>1. /\ h \o f \in Seq(BOOLEAN) /\ Len(h \o f) = Len(h) + Len(f)
        /\ \A i \in 1..(Len(h) + Len(f)) :
              (h \o f)[i] = IF i <= Len(h) THEN h[i] ELSE f[i - Len(h)]
    BY <2>0, ConcatProperties, Zenon
  <2>2. Len(h) + Len(f) = 2 * n + 3
    BY <1>11, <1>12
  <2> QED BY <1>2, <1>12, <2>1, <2>2, Zenon
<1>14. w[1] = TRUE /\ w[2] = FALSE /\ w[3] = TRUE
  <2>1. \A i \in 1..3 : i \in 1..(2 * n + 3) /\ i <= 3
    OBVIOUS
  <2>2. 1 \in 1..3 /\ 2 \in 1..3 /\ 3 \in 1..3
    OBVIOUS
  <2> QED BY <1>12, <1>13, <2>1, <2>2
<1>15. ASSUME NEW j \in 1..n PROVE w[2 * j + 2] = a(j) /\ w[2 * j + 3] = b(j)
  <2>1. p[j - 1] = 2 * (j - 1)
    BY <1>10
  <2>2. /\ 2 * j + 2 \in 1..(2 * n + 3) /\ ~(2 * j + 2 <= 3) /\ (2 * j + 2) - 3 = p[j - 1] + 1
        /\ 2 * j + 3 \in 1..(2 * n + 3) /\ ~(2 * j + 3 <= 3) /\ (2 * j + 3) - 3 = p[j - 1] + 2
    BY <2>1
  <2>3. w[2 * j + 2] = f[p[j - 1] + 1] /\ w[2 * j + 3] = f[p[j - 1] + 2]
    BY <1>13, <2>2
  <2> QED BY <1>8, <2>3
<1> QED BY <1>13, <1>14, <1>15 DEF SentRC5, a, b, w

(* Of RC6: the levels before a bit and those of it, the fourth being twice *)
(* as wide.                                                                *)
TakenRC6(n) == 2 + 2 * n + (IF n > 3 THEN 2 ELSE 0)

SentRC6(levels, bits, n) ==
    /\ levels \in Seq(BOOLEAN) /\ Len(levels) = TakenRC6(n)
    /\ levels[1] = TRUE /\ levels[2] = FALSE
    /\ \A j \in 1..n : /\ levels[TakenRC6(j - 1) + 1] = (bits[j] = 1)
                       /\ levels[TakenRC6(j)] = (bits[j] = 0)
    /\ n > 3 => levels[10] = (bits[4] = 1) /\ levels[11] = (bits[4] = 0)

LEMMA LevelsOfRC6 ==
    ASSUME NEW n \in Nat, NEW bits \in Seq({0, 1}), Len(bits) = n
    PROVE  SentRC6(LevelsRC6(bits), bits, n)
<1> DEFINE a(j) == (bits[j] = 1)
           b(j) == (bits[j] = 0)
           e(j) == IF j = 4 THEN <<a(j), a(j), b(j), b(j)>> ELSE <<a(j), b(j)>>
           s == [j \in 1..n |-> e(j)]
           h == <<TRUE, FALSE>>
           f == FlattenSeq(s)
           w == LevelsRC6(bits)
           c(j) == IF j = 4 THEN 4 ELSE 2
<1>1. DOMAIN bits = 1..n
  BY LenProperties
<1>2. w = h \o f
  BY <1>1 DEF LevelsRC6
<1>3. \A j \in 1..n : a(j) \in BOOLEAN /\ b(j) \in BOOLEAN
  OBVIOUS
<1> HIDE DEF a, b
<1>4. ASSUME NEW j \in 1..n
      PROVE  /\ e(j) \in Seq(BOOLEAN) /\ Len(e(j)) = c(j)
             /\ e(j)[1] = a(j) /\ e(j)[c(j)] = b(j)
             /\ j = 4 => e(j)[2] = a(j) /\ e(j)[3] = b(j)
  <2>1. a(j) \in BOOLEAN /\ b(j) \in BOOLEAN
    BY <1>3
  <2>2. CASE j = 4
    BY <2>1, <2>2
  <2>3. CASE j # 4
    BY <2>1, <2>3
  <2> QED BY <2>2, <2>3
<1> HIDE DEF e
<1>5. s \in Seq(Seq(BOOLEAN)) /\ Len(s) = n /\ \A j \in 1..n : s[j] = e(j)
  BY <1>4
<1> HIDE DEF s
<1>6. f \in Seq(BOOLEAN) /\ \E p : StandsAt(f, s, p)
  BY <1>5, FlattenPlaces
<1>7. PICK p : StandsAt(f, s, p)
  BY <1>6
<1> HIDE DEF f
<1>8. /\ p[0] = 0 /\ p[n] = Len(f)
      /\ \A k \in 1..n : p[k] = p[k - 1] + c(k)
      /\ \A k \in 1..n : \A u \in 1..c(k) : f[p[k - 1] + u] = e(k)[u]
  <2>1. \A k \in 1..n : Len(s[k]) = c(k) /\ s[k] = e(k)
    BY <1>4, <1>5, SMTT(30)
  <2>2. /\ p[0] = 0 /\ p[n] = Len(f)
        /\ \A k \in 1..n : p[k] = p[k - 1] + Len(s[k])
        /\ \A k \in 1..n : \A u \in 1..Len(s[k]) : f[p[k - 1] + u] = s[k][u]
    BY <1>5, <1>7 DEF StandsAt
  <2> HIDE DEF c, h, w
  <2>3. ASSUME NEW k \in 1..n
        PROVE  p[k] = p[k - 1] + c(k) /\ \A u \in 1..c(k) : f[p[k - 1] + u] = e(k)[u]
    <3>1. Len(s[k]) = c(k) /\ s[k] = e(k)
      BY <2>1
    <3>2. p[k] = p[k - 1] + Len(s[k])
      BY <2>2
    <3>3. \A u \in 1..Len(s[k]) : f[p[k - 1] + u] = s[k][u]
      BY <2>2
    <3> QED BY <3>1, <3>2, <3>3
  <2> QED BY <2>2, <2>3
<1> DEFINE t(k) == 2 * k + (IF k > 3 THEN 2 ELSE 0)
           Right == {k \in 0..n : p[k] = t(k)}
<1>9. 0..n \subseteq Right
  <2>1. 0 \in Right
    BY <1>8
  <2>2. ASSUME NEW k \in 0..(n - 1), k \in Right PROVE k + 1 \in Right
    <3>1. k + 1 \in 1..n /\ k + 1 \in 0..n /\ (k + 1) - 1 = k /\ k \in Nat
      OBVIOUS
    <3>2. p[k + 1] = p[k] + c(k + 1) /\ p[k] = t(k)
      <4> HIDE DEF c, t
      <4> QED BY <1>8, <2>2, <3>1
    <3>3. t(k) + c(k + 1) = t(k + 1)
      BY <3>1
    <3> HIDE DEF c, t
    <3> QED BY <3>1, <3>2, <3>3
  <2> HIDE DEF Right
  <2> QED BY <2>1, <2>2, SetInduction
<1>10. \A k \in 0..n : p[k] = t(k)
  BY <1>9
<1>11. Len(f) = t(n) /\ t(n) \in Nat /\ TakenRC6(n) = 2 + t(n)
  <2>1. n \in 0..n
    OBVIOUS
  <2>2. Len(f) = t(n)
    <3> HIDE DEF t
    <3> QED BY <1>8, <1>10, <2>1
  <2>3. t(n) \in Nat /\ TakenRC6(n) = 2 + t(n)
    BY DEF TakenRC6
  <2> QED BY <2>2, <2>3
<1>12. h \in Seq(BOOLEAN) /\ Len(h) = 2 /\ h[1] = TRUE /\ h[2] = FALSE
  OBVIOUS
<1> DEFINE T == t(n)
<1> HIDE DEF h, w, T
<1>13. /\ w \in Seq(BOOLEAN) /\ Len(w) = 2 + T
       /\ \A i \in 1..(2 + T) : w[i] = IF i <= 2 THEN h[i] ELSE f[i - 2]
  <2>0. h \in Seq(BOOLEAN) /\ f \in Seq(BOOLEAN)
    BY <1>6, <1>12
  <2>1. /\ h \o f \in Seq(BOOLEAN) /\ Len(h \o f) = Len(h) + Len(f)
        /\ \A i \in 1..(Len(h) + Len(f)) :
              (h \o f)[i] = IF i <= Len(h) THEN h[i] ELSE f[i - Len(h)]
    BY <2>0, ConcatProperties, Zenon
  <2>2. Len(f) = T
    BY <1>11 DEF T
  <2> QED BY <1>2, <1>12, <2>1, <2>2, Zenon
<1>14. w[1] = TRUE /\ w[2] = FALSE
  <2>1. 1 \in 1..(2 + T) /\ 2 \in 1..(2 + T)
    BY <1>11 DEF T
  <2> QED BY <1>12, <1>13, <2>1
<1>15. ASSUME NEW j \in 1..n, NEW u \in 1..c(j) PROVE w[TakenRC6(j - 1) + u] = e(j)[u]
  <2>1. j - 1 \in 0..n /\ j \in Nat /\ j - 1 \in Nat
    OBVIOUS
  <2>2. p[j - 1] = t(j - 1)
    <3> HIDE DEF t
    <3> QED BY <1>10, <2>1
  <2>3. TakenRC6(j - 1) = 2 + t(j - 1) /\ t(j - 1) \in Nat
    BY <2>1 DEF TakenRC6
  <2>4. t(j - 1) + c(j) = t(j) /\ t(j) <= t(n) /\ t(j) \in Nat
    BY <2>1
  <2> DEFINE x == t(j - 1)
             y == t(j)
             v == c(j)
  <2>5. v \in Nat /\ u \in 1..v
    OBVIOUS
  <2>6. x \in Nat /\ x + v = y /\ y <= T /\ TakenRC6(j - 1) = 2 + x /\ p[j - 1] = x /\ T \in Nat
    BY <1>11, <2>2, <2>3, <2>4 DEF T
  <2>7. f[p[j - 1] + u] = e(j)[u]
    <3> HIDE DEF c
    <3> QED BY <1>8, <2>5 DEF v
  <2> HIDE DEF x, y, v
  <2>8. 2 + x + u \in 1..(2 + T) /\ ~(2 + x + u <= 2) /\ (2 + x + u) - 2 = x + u
    BY <2>5, <2>6
  <2>9. w[2 + x + u] = f[x + u]
    BY <1>13, <2>8
  <2> QED BY <2>6, <2>7, <2>9
<1>16. ASSUME NEW j \in 1..n PROVE w[TakenRC6(j - 1) + 1] = a(j) /\ w[TakenRC6(j)] = b(j)
  <2>1. 1 \in 1..c(j) /\ c(j) \in 1..c(j)
    OBVIOUS
  <2>2. TakenRC6(j - 1) + c(j) = TakenRC6(j)
    BY DEF TakenRC6
  <2> HIDE DEF c
  <2> QED BY <1>4, <1>15, <2>1, <2>2
<1>17. ASSUME n > 3 PROVE w[10] = a(4) /\ w[11] = b(4)
  <2>1. 4 \in 1..n /\ c(4) = 4 /\ 2 \in 1..4 /\ 3 \in 1..4
    BY <1>17
  <2>2. TakenRC6(4 - 1) + 2 = 10 /\ TakenRC6(4 - 1) + 3 = 11
    BY DEF TakenRC6
  <2>3. w[TakenRC6(4 - 1) + 2] = e(4)[2] /\ w[TakenRC6(4 - 1) + 3] = e(4)[3]
    BY <1>15, <2>1
  <2> QED BY <1>4, <2>1, <2>2, <2>3
<1>18. Len(w) = TakenRC6(n)
  BY <1>11, <1>13 DEF T
<1> QED BY <1>13, <1>14, <1>16, <1>17, <1>18 DEF SentRC6, a, b, w

(* No three levels of RC5 are alike, and no four of RC6.                   *)
LEMMA RunsOfRC5 ==
    ASSUME NEW n \in Nat, NEW bits \in Seq({0, 1}), Len(bits) = n, n > 0,
           NEW levels, SentRC5(levels, bits, n), NEW i \in 1..(2 * n + 1)
    PROVE  Changes(levels, i, i + 1)
<1> SUFFICES \E d \in i..(i + 1) : levels[d] # levels[d + 1]
  BY Zenon DEF Changes
<1>1. ASSUME NEW j \in 1..n PROVE levels[2 * j + 2] # levels[2 * j + 3]
  <2>1. levels[2 * j + 2] = (bits[j] = 0) /\ levels[2 * j + 3] = (bits[j] = 1)
    BY DEF SentRC5
  <2>2. bits[j] \in {0, 1}
    BY ElementOfSeq
  <2> QED BY <2>1, <2>2
<1>2. levels[1] # levels[2] /\ levels[2] # levels[3]
  BY DEF SentRC5
<1>3. PICK k \in Nat : i = 2 * k \/ i = 2 * k + 1
  <2>1. i \in Nat /\ (i \div 2) \in Nat /\ (i = 2 * (i \div 2) \/ i = 2 * (i \div 2) + 1)
    OBVIOUS
  <2> QED BY <2>1
<1>4. CASE i = 1 \/ i = 2
  <2>1. i \in i..(i + 1)
    OBVIOUS
  <2> QED BY <1>2, <1>4, <2>1
<1>5. CASE i = 2 * k /\ i # 2
  <2>1. k - 1 \in 1..n /\ 2 * (k - 1) + 2 = i /\ 2 * (k - 1) + 3 = i + 1
    BY <1>5
  <2>2. i \in i..(i + 1)
    OBVIOUS
  <2> QED BY <1>1, <2>1, <2>2
<1>6. CASE i = 2 * k + 1 /\ i # 1
  <2>1. k \in 1..n /\ 2 * k + 2 = i + 1 /\ 2 * k + 3 = (i + 1) + 1
    BY <1>6
  <2>2. i + 1 \in i..(i + 1)
    OBVIOUS
  <2>3. levels[i + 1] # levels[(i + 1) + 1]
    BY <1>1, <2>1
  <2> QED BY <2>2, <2>3
<1> QED BY <1>3, <1>4, <1>5, <1>6

LEMMA RunsOfRC6 ==
    ASSUME NEW n \in Nat, NEW bits \in Seq({0, 1}), Len(bits) = n, n > 0,
           NEW levels, SentRC6(levels, bits, n), NEW i \in 1..(TakenRC6(n) - 3)
    PROVE  Changes(levels, i, i + 2)
<1> SUFFICES \E d \in i..(i + 2) : levels[d] # levels[d + 1]
  BY Zenon DEF Changes
<1>1. \A j \in 1..n : bits[j] = 0 \/ bits[j] = 1
  <2> SUFFICES ASSUME NEW j \in 1..n PROVE bits[j] \in {0, 1}
    OBVIOUS
  <2> QED BY ElementOfSeq
<1>2. ASSUME NEW j \in 1..n, j # 4
      PROVE  /\ TakenRC6(j) = TakenRC6(j - 1) + 2
             /\ levels[TakenRC6(j - 1) + 1] # levels[TakenRC6(j - 1) + 2]
  <2>1. TakenRC6(j) = TakenRC6(j - 1) + 2
    BY <1>2 DEF TakenRC6
  <2>2. levels[TakenRC6(j - 1) + 1] = (bits[j] = 1) /\ levels[TakenRC6(j)] = (bits[j] = 0)
    BY DEF SentRC6
  <2> QED BY <1>1, <2>1, <2>2
<1>3. n > 3 => levels[10] # levels[11]
  <2> SUFFICES ASSUME n > 3 PROVE levels[10] # levels[11]
    OBVIOUS
  <2>1. levels[10] = (bits[4] = 1) /\ levels[11] = (bits[4] = 0)
    BY DEF SentRC6
  <2>2. bits[4] = 0 \/ bits[4] = 1
    BY <1>1
  <2> QED BY <2>1, <2>2
<1>4. levels[1] # levels[2]
  BY DEF SentRC6
<1>5. ASSUME NEW d \in i..(i + 2), levels[d] # levels[d + 1]
      PROVE  \E d1 \in i..(i + 2) : levels[d1] # levels[d1 + 1]
  BY <1>5
<1> DEFINE g == TakenRC6(n)
<1>6. g = 2 + 2 * n + (IF n > 3 THEN 2 ELSE 0) /\ g \in Nat /\ i \in Nat /\ i + 3 <= g /\ i >= 1
  BY DEF TakenRC6
<1>7. CASE i = 1
  BY <1>4, <1>7
<1>8. CASE i \in 2..7
  (* the bit whose levels begin at i + 1, or at i *)
  <2>1. PICK j \in 1..3 : 2 * j + 1 = i \/ 2 * j + 1 = i + 1
    <3>1. i = 2 \/ i = 3 \/ i = 4 \/ i = 5 \/ i = 6 \/ i = 7
      BY <1>8
    <3>2. 1 \in 1..3 /\ 2 \in 1..3 /\ 3 \in 1..3
      OBVIOUS
    <3> QED BY <3>1, <3>2
  <2>2. j \in 1..n /\ j # 4 /\ TakenRC6(j - 1) = 2 * j
    BY <1>6, <2>1 DEF TakenRC6
  <2>3. levels[2 * j + 1] # levels[(2 * j + 1) + 1] /\ 2 * j + 1 \in i..(i + 2)
    BY <1>2, <1>6, <2>1, <2>2, SMTT(30)
  <2> QED BY <1>5, <2>3
<1>9. CASE i \in 8..10
  <2>1. n > 3 /\ 10 \in i..(i + 2)
    BY <1>6, <1>9
  <2> QED BY <1>3, <2>1
<1>10. CASE i > 10
  <2>1. PICK k \in Nat : i = 2 * k \/ i = 2 * k + 1
    <3>1. i \in Nat /\ (i \div 2) \in Nat /\ (i = 2 * (i \div 2) \/ i = 2 * (i \div 2) + 1)
      OBVIOUS
    <3> QED BY <3>1
  <2> DEFINE j == IF i = 2 * k THEN k - 1 ELSE IF k = 5 THEN 5 ELSE k - 1
  <2>2. j \in 5..n /\ j \in Nat /\ (2 * j + 3 = i \/ 2 * j + 3 = i + 1 \/ 2 * j + 3 = i + 2)
    BY <1>6, <1>10, <2>1
  <2> HIDE DEF j
  <2>3. j \in 1..n /\ j # 4 /\ TakenRC6(j - 1) = 2 * j + 2
    BY <2>2 DEF TakenRC6
  <2>4. levels[2 * j + 3] # levels[(2 * j + 3) + 1] /\ 2 * j + 3 \in i..(i + 2)
    <3>1. (2 * j + 2) + 1 = 2 * j + 3 /\ (2 * j + 2) + 2 = (2 * j + 3) + 1
      BY <2>2
    <3>2. levels[TakenRC6(j - 1) + 1] # levels[TakenRC6(j - 1) + 2]
      BY <1>2, <2>3
    <3>3. levels[2 * j + 3] # levels[(2 * j + 3) + 1]
      BY <2>3, <3>1, <3>2
    <3>4. 2 * j + 3 \in i..(i + 2)
      BY <1>6, <2>2
    <3> QED BY <3>3, <3>4
  <2> QED BY <1>5, <2>4
<1> QED BY <1>6, <1>7, <1>8, <1>9, <1>10

(* An entry is taken for as many levels as it was sent for.                *)
LEMMA AvailRC5 ==
    ASSUME NEW at, NEW i, at[i] \in Nat, NEW u \in 1..2, NEW e \in 0..180,
           IsMark(i) => MarkSeen(at[i], u * RC5_T1, e),
           ~IsMark(i) => SpaceSeen(at[i], u * RC5_T1, e)
    PROVE  Avail(at, i, RC5_T1) = u
<1> DEFINE t == at[i]
<1>1. t \in Nat /\ (u = 1 \/ u = 2) /\ u \in 1..3
  OBVIOUS
<1>2. CASE IsMark(i)
  <2>1. MarkSeen(t, u * RC5_T1, e)
    BY <1>2
  <2> HIDE DEF t
  <2>2. MATCH_MARK(t, u * RC5_T1) /\ (u = 2 => ~MATCH_MARK(t, 1 * RC5_T1))
    BY <1>1, <2>1 DEF MATCH_MARK, MATCH, MARK_EXCESS, RC5_T1, MarkSeen, Near
  <2>3. Fits(at, i, RC5_T1, u) /\ (u = 2 => ~Fits(at, i, RC5_T1, 1))
    BY <1>2, <2>2 DEF Fits, t
  <2>4. \A m \in 1..(u - 1) : ~Fits(at, i, RC5_T1, m)
    BY <1>1, <2>3
  <2> QED BY <1>1, <2>3, <2>4, LeastFit
<1>3. CASE ~IsMark(i)
  <2>1. SpaceSeen(t, u * RC5_T1, e)
    BY <1>3
  <2> HIDE DEF t
  <2>2. MATCH_SPACE(t, u * RC5_T1) /\ (u = 2 => ~MATCH_SPACE(t, 1 * RC5_T1))
    BY <1>1, <2>1 DEF MATCH_SPACE, MATCH, MARK_EXCESS, RC5_T1, SpaceSeen, Near
  <2>3. Fits(at, i, RC5_T1, u) /\ (u = 2 => ~Fits(at, i, RC5_T1, 1))
    BY <1>3, <2>2 DEF Fits, t
  <2>4. \A m \in 1..(u - 1) : ~Fits(at, i, RC5_T1, m)
    BY <1>1, <2>3
  <2> QED BY <1>1, <2>3, <2>4, LeastFit
<1> QED BY <1>2, <1>3

LEMMA AvailRC6 ==
    ASSUME NEW at, NEW i, at[i] \in Nat, NEW u \in 1..3, NEW e \in 0..180,
           IsMark(i) => MarkSeen(at[i], u * RC6_T1, e),
           ~IsMark(i) => SpaceSeen(at[i], u * RC6_T1, e)
    PROVE  Avail(at, i, RC6_T1) = u
<1> DEFINE t == at[i]
<1>1. t \in Nat /\ (u = 1 \/ u = 2 \/ u = 3)
  OBVIOUS
<1>2. CASE IsMark(i)
  <2>1. MarkSeen(t, u * RC6_T1, e)
    BY <1>2
  <2> HIDE DEF t
  <2>2. /\ MATCH_MARK(t, u * RC6_T1) /\ (u # 1 => ~MATCH_MARK(t, 1 * RC6_T1))
        /\ (u = 3 => ~MATCH_MARK(t, 2 * RC6_T1))
    BY <1>1, <2>1 DEF MATCH_MARK, MATCH, MARK_EXCESS, RC6_T1, MarkSeen, Near
  <2>3. /\ Fits(at, i, RC6_T1, u) /\ (u # 1 => ~Fits(at, i, RC6_T1, 1))
        /\ (u = 3 => ~Fits(at, i, RC6_T1, 2))
    BY <1>2, <2>2 DEF Fits, t
  <2>4. \A m \in 1..(u - 1) : ~Fits(at, i, RC6_T1, m)
    BY <1>1, <2>3
  <2> QED BY <2>3, <2>4, LeastFit
<1>3. CASE ~IsMark(i)
  <2>1. SpaceSeen(t, u * RC6_T1, e)
    BY <1>3
  <2> HIDE DEF t
  <2>2. /\ MATCH_SPACE(t, u * RC6_T1) /\ (u # 1 => ~MATCH_SPACE(t, 1 * RC6_T1))
        /\ (u = 3 => ~MATCH_SPACE(t, 2 * RC6_T1))
    BY <1>1, <2>1 DEF MATCH_SPACE, MATCH, MARK_EXCESS, RC6_T1, SpaceSeen, Near
  <2>3. /\ Fits(at, i, RC6_T1, u) /\ (u # 1 => ~Fits(at, i, RC6_T1, 1))
        /\ (u = 3 => ~Fits(at, i, RC6_T1, 2))
    BY <1>3, <2>2 DEF Fits, t
  <2>4. \A m \in 1..(u - 1) : ~Fits(at, i, RC6_T1, m)
    BY <1>1, <2>3
  <2> QED BY <2>3, <2>4, LeastFit
<1> QED BY <1>2, <1>3

(* What the two decoders make of the levels of what was sent.              *)
LEMMA RC5Decodes ==
    ASSUME NEW n \in Nat, n > 0, NEW bits \in Seq({0, 1}), Len(bits) = n,
           NEW levels, SentRC5(levels, bits, n), NEW at, NEW rawlen \in Nat, rawlen >= 13,
           AllLevels(at, 1, rawlen, RC5_T1),
           SameLevels(Levels(at, 1, rawlen, RC5_T1), levels)
    PROVE  DecodeRC5(at, rawlen) = {Result("RC5", bits)}
<1> DEFINE d == Levels(at, 1, rawlen, RC5_T1)
           count == (Len(d) - 2) \div 2
           A(j) == Level(d, 2 * j + 2)
           B(j) == Level(d, 2 * j + 3)
           value == [j \in 1..count |-> IF B(j) THEN 1 ELSE 0]
<1>1. /\ Len(d) \in Nat /\ Len(d) <= Len(levels)
      /\ \A i \in Nat \ {0} : Level(d, i) = Level(levels, i)
  BY DEF SameLevels
<1>2. /\ Len(levels) = 2 * n + 3
      /\ levels[1] = TRUE /\ levels[2] = FALSE /\ levels[3] = TRUE
      /\ \A j \in 1..n : levels[2 * j + 2] = (bits[j] = 0) /\ levels[2 * j + 3] = (bits[j] = 1)
  BY DEF SentRC5
<1>3. \A j \in 1..n : bits[j] = 0 \/ bits[j] = 1
  <2> SUFFICES ASSUME NEW j \in 1..n PROVE bits[j] \in {0, 1}
    OBVIOUS
  <2> QED BY ElementOfSeq
<1>4. DecodeRC5(at, rawlen) =
        Succeeds(/\ rawlen >= 13
                 /\ AllLevels(at, 1, rawlen, RC5_T1)
                 /\ Level(d, 1) /\ ~Level(d, 2) /\ Level(d, 3)
                 /\ \A j \in 1..count : A(j) # B(j),
                 Result("RC5", value))
  BY Zenon DEF DecodeRC5
<1> HIDE DEF d
<1>5. \A i \in 1..(2 * n + 3) : Level(d, i) = levels[i]
  <2> SUFFICES ASSUME NEW i \in 1..(2 * n + 3) PROVE Level(d, i) = levels[i]
    OBVIOUS
  <2>1. i \in Nat \ {0} /\ i <= Len(levels)
    BY <1>2
  <2>2. Level(levels, i) = levels[i]
    BY <2>1 DEF Level
  <2> QED BY <1>1, <2>1, <2>2
<1>6. Level(d, 1) = TRUE /\ Level(d, 2) = FALSE /\ Level(d, 3) = TRUE
  <2>1. 1 \in 1..(2 * n + 3) /\ 2 \in 1..(2 * n + 3) /\ 3 \in 1..(2 * n + 3)
    OBVIOUS
  <2> QED BY <1>2, <1>5, <2>1
<1>7. ASSUME NEW j \in 1..n PROVE A(j) = (bits[j] = 0) /\ B(j) = (bits[j] = 1)
  <2>1. 2 * j + 2 \in 1..(2 * n + 3) /\ 2 * j + 3 \in 1..(2 * n + 3)
    OBVIOUS
  <2> QED BY <1>2, <1>5, <2>1
<1> HIDE DEF A, B
<1>8. Len(d) >= 2 * n + 2
  <2>1. n \in 1..n /\ 2 * n + 2 \in Nat \ {0} /\ 2 * n + 3 \in Nat \ {0}
    OBVIOUS
  <2>2. Level(d, 2 * n + 2) = TRUE \/ Level(d, 2 * n + 3) = TRUE
    BY <1>3, <1>7, <2>1 DEF A, B
  <2>3. ~(Len(d) < 2 * n + 2)
    <3> SUFFICES ASSUME Len(d) < 2 * n + 2 PROVE FALSE
      OBVIOUS
    <3>1. ~(2 * n + 2 <= Len(d)) /\ ~(2 * n + 3 <= Len(d))
      BY <1>1
    <3> QED BY <2>2, <3>1 DEF Level
  <2> QED BY <1>1, <2>3
<1>9. count = n
  <2> DEFINE l == Len(d)
  <2>1. l \in Nat /\ (l = 2 * n + 2 \/ l = 2 * n + 3)
    BY <1>1, <1>2, <1>8
  <2> HIDE DEF l
  <2>2. (l - 2) \div 2 = n
    BY <2>1
  <2> QED BY <2>2 DEF l
<1>10. value = bits
  <2>1. \A j \in 1..n : (IF B(j) THEN 1 ELSE 0) = bits[j]
    BY <1>3, <1>7
  <2>2. value = [j \in 1..n |-> bits[j]]
    BY <1>9, <2>1
  <2>3. bits = [j \in 1..n |-> bits[j]]
    BY LenProperties
  <2> QED BY <2>2, <2>3
<1>11. \A j \in 1..count : A(j) # B(j)
  BY <1>3, <1>7, <1>9
<1> HIDE DEF count, value
<1> QED BY <1>4, <1>6, <1>10, <1>11 DEF Succeeds

LEMMA RC6Decodes ==
    ASSUME NEW n \in Nat, n > 0, NEW bits \in Seq({0, 1}), Len(bits) = n,
           NEW levels, SentRC6(levels, bits, n), NEW at, NEW rawlen \in Nat,
           MATCH_MARK(at[1], RC6_HDR_MARK), MATCH_SPACE(at[2], RC6_HDR_SPACE),
           AllLevels(at, 3, rawlen, RC6_T1),
           SameLevels(Levels(at, 3, rawlen, RC6_T1), levels)
    PROVE  DecodeRC6(at, rawlen) = {Result("RC6", bits)}
<1> DEFINE d == Levels(at, 3, rawlen, RC6_T1)
           T(c) == TakenRC6(c)
           A(j) == Level(d, T(j - 1) + 1)
           B(j) == Level(d, T(j))
           Value(c) == [j \in 1..c |-> IF A(j) THEN 1 ELSE 0]
           Counts == {c \in 0..Len(d) :
                /\ MATCH_MARK(at[1], RC6_HDR_MARK)
                /\ MATCH_SPACE(at[2], RC6_HDR_SPACE)
                /\ AllLevels(at, 3, rawlen, RC6_T1)
                /\ Level(d, 1) /\ ~Level(d, 2)
                /\ T(c) >= Len(d) /\ (c = 0 \/ T(c - 1) < Len(d))
                /\ \A j \in 1..c : A(j) # B(j)
                /\ c > 3 => Level(d, 10) = A(4) /\ Level(d, 11) = B(4)}
<1>1. /\ Len(d) \in Nat /\ Len(d) <= Len(levels)
      /\ \A i \in Nat \ {0} : Level(d, i) = Level(levels, i)
  BY DEF SameLevels
<1>2. /\ Len(levels) = T(n)
      /\ levels[1] = TRUE /\ levels[2] = FALSE
      /\ \A j \in 1..n : levels[T(j - 1) + 1] = (bits[j] = 1) /\ levels[T(j)] = (bits[j] = 0)
      /\ n > 3 => levels[10] = (bits[4] = 1) /\ levels[11] = (bits[4] = 0)
  BY DEF SentRC6
<1>3. \A j \in 1..n : bits[j] = 0 \/ bits[j] = 1
  <2> SUFFICES ASSUME NEW j \in 1..n PROVE bits[j] \in {0, 1}
    OBVIOUS
  <2> QED BY ElementOfSeq
<1>4. DecodeRC6(at, rawlen) = {Result("RC6", Value(c)) : c \in Counts}
  BY Zenon DEF DecodeRC6, TakenRC6
<1>5. /\ \A c \in Nat : T(c) \in Nat /\ T(c) >= 2 * c + 2
      /\ \A c, k \in Nat : c <= k => T(c) <= T(k)
      /\ \A j \in Nat \ {0} : T(j - 1) < T(j)
  BY DEF TakenRC6
<1>a. T(n) \in Nat /\ T(n) >= 2 * n + 2 /\ (n > 3 => T(n) >= 12)
  BY DEF TakenRC6
<1>b. ASSUME NEW j \in 1..n
      PROVE  T(j - 1) \in Nat /\ T(j) \in Nat /\ T(j - 1) < T(j) /\ T(j) <= T(n)
  BY DEF TakenRC6
<1> HIDE DEF d, T
<1>6. \A i \in 1..T(n) : Level(d, i) = levels[i]
  <2> SUFFICES ASSUME NEW i \in 1..T(n) PROVE Level(d, i) = levels[i]
    OBVIOUS
  <2>1. i \in Nat \ {0} /\ i <= Len(levels)
    BY <1>2, <1>5
  <2>2. Level(levels, i) = levels[i]
    BY <2>1 DEF Level
  <2> QED BY <1>1, <2>1, <2>2
<1>7. Level(d, 1) = TRUE /\ Level(d, 2) = FALSE
  <2>1. 1 \in 1..T(n) /\ 2 \in 1..T(n)
    BY <1>a
  <2> QED BY <1>2, <1>6, <2>1
<1>8. ASSUME NEW j \in 1..n
      PROVE  A(j) = (bits[j] = 1) /\ B(j) = (bits[j] = 0)
  <2> DEFINE t0 == T(j - 1)
             t1 == T(j)
             t2 == T(n)
  <2>1. t0 \in Nat /\ t1 \in Nat /\ t2 \in Nat /\ t0 < t1 /\ t1 <= t2
    BY <1>a, <1>b
  <2> HIDE DEF t0, t1, t2
  <2>2. t0 + 1 \in 1..t2 /\ t1 \in 1..t2
    BY <2>1
  <2> QED BY <1>2, <1>6, <2>2 DEF t0, t1, t2
<1>9. n > 3 => Level(d, 10) = A(4) /\ Level(d, 11) = B(4)
  <2> SUFFICES ASSUME n > 3 PROVE Level(d, 10) = A(4) /\ Level(d, 11) = B(4)
    OBVIOUS
  <2>1. 10 \in 1..T(n) /\ 11 \in 1..T(n) /\ 4 \in 1..n
    BY <1>a
  <2>2. Level(d, 10) = (bits[4] = 1) /\ Level(d, 11) = (bits[4] = 0)
    BY <1>2, <1>6, <2>1
  <2>3. A(4) = (bits[4] = 1) /\ B(4) = (bits[4] = 0)
    BY <1>8, <2>1
  <2> HIDE DEF A, B
  <2> QED BY <2>2, <2>3
<1>10. Len(d) > T(n - 1)
  <2>1. n \in 1..n /\ n - 1 \in Nat /\ T(n - 1) \in Nat /\ T(n) \in Nat /\ T(n - 1) < T(n)
    BY <1>5
  <2>2. A(n) = TRUE \/ B(n) = TRUE
    BY <1>3, <1>8, <2>1
  <2>3. ~(Len(d) <= T(n - 1))
    <3> SUFFICES ASSUME Len(d) <= T(n - 1) PROVE FALSE
      OBVIOUS
    <3>1. ~(T(n - 1) + 1 <= Len(d)) /\ ~(T(n) <= Len(d))
      BY <1>1, <2>1
    <3> QED BY <2>2, <3>1 DEF Level
  <2> QED BY <1>1, <2>1, <2>3
<1>11. ASSUME NEW j \in 1..n PROVE A(j) # B(j) /\ (IF A(j) THEN 1 ELSE 0) = bits[j]
  <2>1. A(j) = (bits[j] = 1) /\ B(j) = (bits[j] = 0) /\ (bits[j] = 0 \/ bits[j] = 1)
    BY <1>3, <1>8
  <2> HIDE DEF A, B
  <2>2. CASE bits[j] = 0
    <3>0. (bits[j] = 1) = FALSE /\ (bits[j] = 0) = TRUE
      BY <2>2
    <3>1. A(j) = FALSE /\ B(j) = TRUE
      BY <2>1, <3>0, Zenon
    <3> QED BY <2>2, <3>1, Zenon
  <2>3. CASE bits[j] = 1
    <3>0. (bits[j] = 1) = TRUE /\ (bits[j] = 0) = FALSE
      BY <2>3
    <3>1. A(j) = TRUE /\ B(j) = FALSE
      BY <2>1, <3>0, Zenon
    <3> QED BY <2>3, <3>1, Zenon
  <2> QED BY <2>1, <2>2, <2>3
<1> HIDE DEF A, B
<1>12. n \in Counts
  <2>1. T(n) >= Len(d) /\ (n = 0 \/ T(n - 1) < Len(d))
    BY <1>1, <1>2, <1>5, <1>10
  <2>2. n \in 0..Len(d)
    <3>1. n - 1 \in Nat /\ T(n - 1) >= 2 * (n - 1) + 2 /\ T(n - 1) \in Nat
      BY <1>5
    <3> QED BY <1>1, <1>10, <3>1
  <2> QED BY <1>7, <1>9, <1>11, <2>1, <2>2
<1>13. ASSUME NEW c \in Counts PROVE c = n
  <2>1. c \in Nat /\ T(c) >= Len(d) /\ (c = 0 \/ T(c - 1) < Len(d))
    <3>1. c \in 0..Len(d) /\ T(c) >= Len(d) /\ (c = 0 \/ T(c - 1) < Len(d))
      OBVIOUS
    <3> QED BY <1>1, <3>1
  <2>2. ~(c < n)
    <3> SUFFICES ASSUME c < n PROVE FALSE
      OBVIOUS
    <3>1. n - 1 \in Nat /\ c <= n - 1
      BY <2>1
    <3>2. T(c) <= T(n - 1) /\ T(c) \in Nat /\ T(n - 1) \in Nat
      BY <1>5, <2>1, <3>1
    <3> QED BY <1>1, <1>10, <2>1, <3>2
  <2>3. ~(c > n)
    <3> SUFFICES ASSUME c > n PROVE FALSE
      OBVIOUS
    <3>1. c - 1 \in Nat /\ n <= c - 1 /\ c # 0
      BY <2>1
    <3>2. T(n) <= T(c - 1) /\ T(n) \in Nat /\ T(c - 1) \in Nat /\ T(c - 1) < Len(d)
      BY <1>5, <2>1, <3>1
    <3> QED BY <1>1, <1>2, <3>2
  <2> QED BY <2>1, <2>2, <2>3
<1> HIDE DEF Counts
<1>14. Counts = {n}
  BY <1>12, <1>13
<1>15. Value(n) = bits
  <2>1. Value(n) = [j \in 1..n |-> bits[j]]
    BY <1>11
  <2>2. bits = [j \in 1..n |-> bits[j]]
    BY LenProperties
  <2> QED BY <2>1, <2>2
<1> HIDE DEF Value
<1> QED BY <1>4, <1>14, <1>15

-------------------------------------------------------------------------------
(* What is received of RC5 and RC6.                                        *)

(* The units of the levels, none longer than c, and the widths of them.    *)
UnitsAre(q, units, levels, n, c, t1) ==
    /\ Covers(q, units, levels, n) /\ units \in Seq(Nat) /\ Len(units) \in 1..n
    /\ \A k \in 1..Len(units) : units[k] \in 1..c
    /\ WidthsOf(Widths(levels, t1), units, t1)

LEMMA UnitsOf ==
    ASSUME NEW levels \in Seq(BOOLEAN), NEW n \in Nat, n > 0, Len(levels) = n, levels[1],
           NEW c \in Nat, NEW t1 \in Nat,
           \A i \in 1..(n - c) : Changes(levels, i, i + c - 1)
    PROVE  \E q, units : UnitsAre(q, units, levels, n, c, t1)
<1>u. PICK units : units = Joined(levels)
  OBVIOUS
<1>1. IsJoined(units, levels, n)
  BY <1>u, JoinedCovers
<1>2. PICK q : Covers(q, units, levels, n)
  BY <1>1 DEF IsJoined
<1>3. units \in Seq(Nat) /\ q[0] = 0 /\ q[Len(units)] = n /\ Len(units) \in Nat
  BY <1>2, LenProperties DEF Covers
<1>4. Len(units) \in 1..n
  <2>1. Len(units) <= n
    BY <1>2, CoverBounds
  <2>2. Len(units) # 0
    BY <1>3
  <2> QED BY <1>3, <2>1, <2>2
<1>5. \A k \in 1..Len(units) : units[k] \in 1..c
  BY <1>2, RunsShort, Zenon
<1>6. WidthsOf(Widths(levels, t1), units, t1)
  <2>1. Len(units) > 0
    BY <1>4
  <2> QED BY <1>u, <1>3, <2>1, WidthsAre
<1>7. UnitsAre(q, units, levels, n, c, t1)
  BY <1>2, <1>3, <1>4, <1>5, <1>6, Zenon DEF UnitsAre
<1> QED BY <1>7

(* The first mark of RC5 is too short for the header of another protocol.  *)
LEMMA FirstOfRC5 ==
    ASSUME NEW t \in Nat, NEW e \in 0..180, MarkSeen(t, RC5_T1, e)
    PROVE  /\ ~MATCH_MARK(t, NEC.header) /\ ~MATCH_MARK(t, SONY.header)
           /\ ~MATCH_MARK(t, SAMSUNG.header)
<1>1. NEC.header = 9000 /\ SONY.header = 2400 /\ SAMSUNG.header = 4500
  BY PulseFields
<1>2. t <= 23
  BY DEF MarkSeen, Near, RC5_T1
<1> QED BY <1>1, <1>2 DEF MATCH_MARK, MATCH, MARK_EXCESS

LEMMA RC5Received ==
    ASSUME NEW n \in 1..32, NEW bits \in Seq({0, 1}), Len(bits) = n,
           NEW e \in 0..180, NEW up \in SUBSET Nat,
           NEW entries, IsRecording(entries, Widths(LevelsRC5(bits), RC5_T1), e, up), NEW junk
    PROVE  LET at == Buffer(entries, junk)
               rawlen == Len(entries) + 1
           IN /\ DecodeNEC(at, rawlen) = {} /\ DecodeSony(at, rawlen) = {}
              /\ DecodeSamsung(at, rawlen) = {}
              /\ rawlen >= 13 => DecodeRC5(at, rawlen) = {Result("RC5", bits)}
              /\ n >= 12 => rawlen >= 13
<1> DEFINE at == Buffer(entries, junk)
           rawlen == Len(entries) + 1
           levels == LevelsRC5(bits)
           w == Widths(levels, RC5_T1)
           l == 2 * n + 3
<1>1. n \in Nat /\ n > 0 /\ n <= 32 /\ l \in Nat /\ l > 0 /\ l <= 67
  OBVIOUS
<1>2. SentRC5(levels, bits, n)
  BY <1>1, LevelsOfRC5
<1> HIDE DEF levels
<1>3. /\ levels \in Seq(BOOLEAN) /\ Len(levels) = l
      /\ levels[1] = TRUE /\ levels[2] = FALSE
  BY <1>2 DEF SentRC5
<1>4. \A i \in 1..(l - 2) : Changes(levels, i, i + 2 - 1)
  <2> SUFFICES ASSUME NEW i \in 1..(l - 2) PROVE Changes(levels, i, i + 2 - 1)
    OBVIOUS
  <2>1. i \in 1..(2 * n + 1) /\ i + 2 - 1 = i + 1 /\ n > 0
    BY <1>1
  <2>2. Changes(levels, i, i + 1)
    BY <1>1, <1>2, <2>1, RunsOfRC5
  <2> QED BY <2>1, <2>2
<1> HIDE DEF l
<1>5. PICK q, units : UnitsAre(q, units, levels, l, 2, RC5_T1)
  <2>1. RC5_T1 \in Nat /\ 2 \in Nat /\ levels[1]
    BY <1>3 DEF RC5_T1
  <2> QED BY <1>1, <1>3, <1>4, <2>1, UnitsOf
<1> DEFINE len == MarksEnd(units)
<1>6. /\ Covers(q, units, levels, l) /\ units \in Seq(Nat) /\ Len(units) \in 1..l
      /\ \A k \in 1..Len(units) : units[k] \in 1..2
      /\ w \in Seq(Nat) /\ Len(w) = len /\ len \in 1..Len(units)
      /\ \A i \in 1..len : w[i] = units[i] * RC5_T1
  BY <1>5, Zenon DEF UnitsAre, WidthsOf
<1> HIDE DEF w
<1>7. len \in Nat /\ len <= 67 /\ len > 0 /\ (n >= 12 => len >= 12)
  <2>1. Len(units) <= l /\ Len(units) \in Nat
    BY <1>1, <1>6
  <2>2. \A k \in 1..Len(units) : units[k] <= 2
    <3> SUFFICES ASSUME NEW k \in 1..Len(units) PROVE units[k] <= 2
      OBVIOUS
    <3>1. units[k] \in 1..2
      BY <1>6, Zenon
    <3> QED BY <3>1
  <2>3. q[Len(units)] <= 2 * Len(units) /\ q[Len(units)] = l
    <3>1. \A k \in 0..Len(units) : q[k] <= 2 * k
      BY <1>1, <1>6, <2>2, CoverBounds
    <3> QED BY <1>6, <2>1, <3>1 DEF Covers
  <2>4. len = Len(units) \/ len = Len(units) - 1
    BY DEF MarksEnd
  <2>5. n >= 12 => l >= 27
    BY <1>1 DEF l
  <2>6. len > 0
    BY <1>6, <2>1
  <2> HIDE DEF len
  <2> QED BY <1>1, <2>1, <2>3, <2>4, <2>5, <2>6
<1> HIDE DEF len
<1>8. \A i \in 1..len : units[i] = 1 \/ units[i] = 2
  BY <1>6, <1>7
<1>9. ShortSpaces(w)
  <2>1. DOMAIN w = 1..len
    BY <1>6, LenProperties
  <2> SUFFICES ASSUME NEW i \in 1..len PROVE SpaceWidth(w[i])
    BY <2>1 DEF ShortSpaces
  <2>2. w[i] = units[i] * RC5_T1 /\ (units[i] = 1 \/ units[i] = 2)
    BY <1>6, <1>8
  <2> QED BY <2>2 DEF SpaceWidth, RC5_T1
<1>10. /\ Len(entries) = len
       /\ \A i \in 1..len : /\ at[i] \in Nat
                            /\ IsMark(i) => MarkSeen(at[i], w[i], e)
                            /\ ~IsMark(i) => SpaceSeen(at[i], w[i], e)
  <2>1. IsRecording(entries, w, e, up)
    BY DEF w, levels
  <2>2. Len(w) < RAWBUF
    BY <1>6, <1>7 DEF RAWBUF
  <2> QED BY <1>6, <1>9, <2>1, <2>2, BufferOf
<1>11. rawlen = len + 1 /\ rawlen \in Nat /\ (n >= 12 => rawlen >= 13)
  BY <1>7, <1>10
<1> HIDE DEF at, rawlen
<1>12. \A k \in 1..len : Avail(at, k + 0, RC5_T1) = units[k]
  <2> SUFFICES ASSUME NEW k \in 1..len PROVE Avail(at, k + 0, RC5_T1) = units[k]
    OBVIOUS
  <2>1. k + 0 = k
    OBVIOUS
  <2>2. /\ at[k] \in Nat /\ units[k] \in 1..2
        /\ IsMark(k) => MarkSeen(at[k], units[k] * RC5_T1, e)
        /\ ~IsMark(k) => SpaceSeen(at[k], units[k] * RC5_T1, e)
    BY <1>6, <1>8, <1>10
  <2>3. Avail(at, k, RC5_T1) = units[k]
    BY <2>2, AvailRC5
  <2> QED BY <2>1, <2>3
<1>13. AllLevels(at, 1, rawlen, RC5_T1) /\ SameLevels(Levels(at, 1, rawlen, RC5_T1), levels)
  <2>1. 0 + 1 = 1 /\ len + 0 + 1 = rawlen /\ Len(units) > 0
    BY <1>6, <1>7, <1>11
  <2>2. HasLevels(at, 0, len, RC5_T1, levels)
    <3>1. len = MarksEnd(units)
      BY DEF len
    <3>2. 0 \in {0, 2}
      OBVIOUS
    <3> QED BY <1>1, <1>3, <1>6, <1>12, <2>1, <3>1, <3>2, LevelsBack
  <2> QED BY <2>1, <2>2 DEF HasLevels
<1>14. rawlen >= 13 => DecodeRC5(at, rawlen) = {Result("RC5", bits)}
  BY <1>1, <1>2, <1>11, <1>13, RC5Decodes
<1>15. units[1] = 1
  <2>1. 1 \in 1..len /\ 1 \in 1..Len(units) /\ 1 - 1 = 0
    BY <1>6, <1>7
  <2>2. /\ q[0] = 0 /\ q[1] = q[0] + units[1]
        /\ \A i \in (q[0] + 1)..q[1] : levels[i] = IsMark(1)
    BY <1>6, <2>1 DEF Covers
  <2>3. units[1] # 2
    <3> SUFFICES ASSUME units[1] = 2 PROVE FALSE
      OBVIOUS
    <3>1. 2 \in (q[0] + 1)..q[1]
      BY <2>2
    <3>2. levels[2] = IsMark(1) /\ IsMark(1)
      BY <2>2, <3>1 DEF IsMark
    <3> QED BY <1>3, <3>2
  <2> QED BY <1>8, <2>1, <2>3
<1>16. at[1] \in Nat /\ MarkSeen(at[1], RC5_T1, e)
  <2>1. 1 \in 1..len /\ IsMark(1) /\ 1 * RC5_T1 = RC5_T1
    BY <1>7 DEF IsMark, RC5_T1
  <2>2. w[1] = RC5_T1
    BY <1>6, <1>15, <2>1
  <2> QED BY <1>10, <2>1, <2>2
<1>17. /\ ~MATCH_MARK(at[1], NEC.header) /\ ~MATCH_MARK(at[1], SONY.header)
       /\ ~MATCH_MARK(at[1], SAMSUNG.header)
  BY <1>16, FirstOfRC5
<1>18. DecodeNEC(at, rawlen) = {}
  BY <1>17 DEF DecodeNEC, Succeeds
<1>19. DecodeSony(at, rawlen) = {}
  BY <1>17, NoHeader
<1>20. DecodeSamsung(at, rawlen) = {}
  BY <1>17 DEF DecodeSamsung, Succeeds
<1> QED BY <1>11, <1>14, <1>18, <1>19, <1>20 DEF at, rawlen

(* The header of RC6: no other decoder before that of RC6 takes it.        *)
LEMMA HeaderOfRC6 ==
    ASSUME NEW t \in Nat, NEW s \in Nat, NEW e \in 0..180,
           MarkSeen(t, RC6_HDR_MARK, e), SpaceSeen(s, RC6_HDR_SPACE, e)
    PROVE  /\ MATCH_MARK(t, RC6_HDR_MARK) /\ MATCH_SPACE(s, RC6_HDR_SPACE)
           /\ ~MATCH_MARK(t, NEC.header) /\ ~MATCH_MARK(t, SAMSUNG.header)
           /\ ~MATCH_SPACE(s, SONY.gap)
           /\ ~MATCH_MARK(t, 1 * RC5_T1) /\ ~MATCH_MARK(t, 2 * RC5_T1) /\ MATCH_MARK(t, 3 * RC5_T1)
<1>1. NEC.header = 9000 /\ SAMSUNG.header = 4500 /\ SONY.gap = 600
  BY PulseFields
<1>2. t >= 53 /\ t <= 57 /\ s >= 14 /\ s <= 18
  BY DEF MarkSeen, SpaceSeen, Near, RC6_HDR_MARK, RC6_HDR_SPACE
<1> QED BY <1>1, <1>2
        DEF MATCH_MARK, MATCH_SPACE, MATCH, MARK_EXCESS, RC6_HDR_MARK, RC6_HDR_SPACE, RC5_T1

(* decodeSony() finds no bit behind such a space, and decodeRC5() two more *)
(* levels of a mark where it looks for a space.                            *)
LEMMA RC6NotSonyOrRC5 ==
    ASSUME NEW at, NEW rawlen \in Nat, rawlen > 1, at[1] \in Nat,
           ~MATCH_SPACE(at[2], SONY.gap),
           ~MATCH_MARK(at[1], 1 * RC5_T1), ~MATCH_MARK(at[1], 2 * RC5_T1),
           MATCH_MARK(at[1], 3 * RC5_T1)
    PROVE  DecodeSony(at, rawlen) = {} /\ DecodeRC5(at, rawlen) = {}
<1> DEFINE One(j) == MATCH_MARK(at[2 * j + 1], SONY.mark[2])
           Zero(j) == MATCH_MARK(at[2 * j + 1], SONY.mark[1])
           Ends(c) == 2 * c + 3 >= rawlen \/ ~MATCH_SPACE(at[2 * c + 2], SONY.gap)
           Value(c) == [j \in 1..c |-> IF One(j) THEN 1 ELSE 0]
           Counts == {c \in 12..(rawlen \div 2) :
                /\ rawlen >= 26
                /\ MATCH_MARK(at[1], SONY.header)
                /\ \A j \in 1..c : ~Ends(j - 1) /\ (One(j) \/ Zero(j))
                /\ Ends(c)}
           d == Levels(at, 1, rawlen, RC5_T1)
<1>1. DecodeSony(at, rawlen) = {Result("SONY", Value(c)) : c \in Counts}
  BY DEF DecodeSony
<1>2. Ends(0)
  <2>1. 2 * 0 + 2 = 2
    OBVIOUS
  <2> QED BY <2>1, Zenon
<1> HIDE DEF One, Zero, Ends, Value
<1>3. Counts = {}
  <2> SUFFICES ASSUME NEW c \in Counts PROVE FALSE
    OBVIOUS
  <2>1. c \in 12..(rawlen \div 2) /\ \A j \in 1..c : ~Ends(j - 1)
    OBVIOUS
  <2>2. 1 \in 1..c /\ 1 - 1 = 0
    BY <2>1
  <2>3. ~Ends(1 - 1)
    BY <2>1, <2>2
  <2> QED BY <1>2, <2>2, <2>3
<1> HIDE DEF Counts
<1>4. DecodeSony(at, rawlen) = {}
  BY <1>1, <1>3
<1>5. Avail(at, 1, RC5_T1) = 3
  <2>1. IsMark(1)
    BY DEF IsMark
  <2>2. Fits(at, 1, RC5_T1, 3) /\ ~Fits(at, 1, RC5_T1, 1) /\ ~Fits(at, 1, RC5_T1, 2)
    BY <2>1 DEF Fits
  <2>3. \A m \in 1..(3 - 1) : ~Fits(at, 1, RC5_T1, m)
    BY <2>2
  <2> QED BY <2>2, <2>3, LeastFit
<1>6. PICK p : LevelsStand(d, p, at, 1, rawlen, RC5_T1)
  BY LevelsPlaces
<1>7. d \in Seq(BOOLEAN)
  BY LevelsPlaces
<1> HIDE DEF d
<1>8. d[2] = TRUE
  <2>1. 1 \in 1..(rawlen - 1) /\ 1 - 1 = 0 /\ 2 \in 1..Avail(at, 1, RC5_T1)
    BY <1>5
  <2>2. p[0] = 0 /\ d[p[1 - 1] + 2] = IsMark(1)
    BY <1>6, <2>1 DEF LevelsStand
  <2>3. IsMark(1) = TRUE
    BY DEF IsMark
  <2>4. p[1 - 1] + 2 = 2
    BY <2>1, <2>2
  <2> QED BY <2>2, <2>3, <2>4
<1>9. Level(d, 2) \/ ~Level(d, 3)
  <2>1. Len(d) \in Nat
    BY <1>7, LenProperties
  <2>2. CASE Len(d) < 3
    BY <2>1, <2>2 DEF Level
  <2>3. CASE ~(Len(d) < 3)
    <3>1. 2 <= Len(d)
      BY <2>1, <2>3
    <3> QED BY <1>8, <3>1 DEF Level
  <2> QED BY <2>2, <2>3
<1>10. DecodeRC5(at, rawlen) = {}
  <2>1. ~(AllLevels(at, 1, rawlen, RC5_T1) /\ ~Level(d, 2) /\ Level(d, 3))
    BY <1>9
  <2> QED BY <2>1, NoHeader DEF d
<1> QED BY <1>4, <1>10

LineRC6(bits) == <<RC6_HDR_MARK, RC6_HDR_SPACE>> \o Widths(LevelsRC6(bits), RC6_T1)

LEMMA RC6Received ==
    ASSUME NEW n \in 1..32, NEW bits \in Seq({0, 1}), Len(bits) = n,
           NEW e \in 0..180, NEW up \in SUBSET Nat,
           NEW entries, IsRecording(entries, LineRC6(bits), e, up), NEW junk
    PROVE  LET at == Buffer(entries, junk)
               rawlen == Len(entries) + 1
           IN /\ DecodeNEC(at, rawlen) = {} /\ DecodeSony(at, rawlen) = {}
              /\ DecodeSamsung(at, rawlen) = {} /\ DecodeRC5(at, rawlen) = {}
              /\ DecodeRC6(at, rawlen) = {Result("RC6", bits)}
<1> DEFINE at == Buffer(entries, junk)
           rawlen == Len(entries) + 1
           levels == LevelsRC6(bits)
           w == Widths(levels, RC6_T1)
           h == <<RC6_HDR_MARK, RC6_HDR_SPACE>>
           v == h \o w
           l == TakenRC6(n)
<1>1. n \in Nat /\ n > 0 /\ n <= 32 /\ l \in Nat /\ l > 0 /\ l <= 68
  BY DEF TakenRC6
<1> HIDE DEF l
<1>2. SentRC6(levels, bits, n)
  BY <1>1, LevelsOfRC6
<1> HIDE DEF levels
<1>3. levels \in Seq(BOOLEAN) /\ Len(levels) = l /\ levels[1] = TRUE
  BY <1>2 DEF SentRC6, l
<1>4. \A i \in 1..(l - 3) : Changes(levels, i, i + 3 - 1)
  <2> SUFFICES ASSUME NEW i \in 1..(l - 3) PROVE Changes(levels, i, i + 3 - 1)
    OBVIOUS
  <2>1. i \in 1..(TakenRC6(n) - 3) /\ i + 3 - 1 = i + 2
    BY <1>1 DEF l
  <2>2. Changes(levels, i, i + 2)
    BY <1>1, <1>2, <2>1, RunsOfRC6
  <2> QED BY <2>1, <2>2
<1>5. PICK q, units : UnitsAre(q, units, levels, l, 3, RC6_T1)
  <2>1. RC6_T1 \in Nat /\ 3 \in Nat /\ levels[1]
    BY <1>3 DEF RC6_T1
  <2> QED BY <1>1, <1>3, <1>4, <2>1, UnitsOf
<1> DEFINE len == MarksEnd(units)
<1>6. /\ Covers(q, units, levels, l) /\ units \in Seq(Nat) /\ Len(units) \in 1..l
      /\ \A k \in 1..Len(units) : units[k] \in 1..3
      /\ w \in Seq(Nat) /\ Len(w) = len /\ len \in 1..Len(units)
      /\ \A i \in 1..len : w[i] = units[i] * RC6_T1
  BY <1>5, Zenon DEF UnitsAre, WidthsOf
<1> HIDE DEF w
<1>7. len \in Nat /\ len <= 68 /\ len >= 1
  <2> HIDE DEF len
  <2> QED BY <1>1, <1>6
<1> HIDE DEF len
<1>8. \A i \in 1..len : units[i] = 1 \/ units[i] = 2 \/ units[i] = 3
  BY <1>6, <1>7
<1>9. /\ v \in Seq(Nat) /\ Len(v) = len + 2
      /\ v[1] = RC6_HDR_MARK /\ v[2] = RC6_HDR_SPACE
      /\ \A k \in 1..len : v[k + 2] = w[k]
  <2>1. h \in Seq(Nat) /\ Len(h) = 2 /\ h[1] = RC6_HDR_MARK /\ h[2] = RC6_HDR_SPACE
    BY DEF RC6_HDR_MARK, RC6_HDR_SPACE
  <2> HIDE DEF h
  <2>2. h \in Seq(Nat) /\ w \in Seq(Nat)
    BY <1>6, <2>1
  <2>3. /\ v \in Seq(Nat) /\ Len(v) = Len(h) + Len(w)
        /\ \A i \in 1..(Len(h) + Len(w)) : v[i] = IF i <= Len(h) THEN h[i] ELSE w[i - Len(h)]
    BY <2>2, ConcatProperties, Zenon
  <2> HIDE DEF v
  <2>4. \A i \in 1..(2 + len) : v[i] = IF i <= 2 THEN h[i] ELSE w[i - 2]
    BY <1>6, <2>1, <2>3, Zenon
  <2>5. 1 \in 1..(2 + len) /\ 2 \in 1..(2 + len) /\ 1 <= 2 /\ 2 <= 2
    BY <1>7
  <2>6. v[1] = h[1] /\ v[2] = h[2]
    BY <2>4, <2>5
  <2>7. ASSUME NEW k \in 1..len PROVE v[k + 2] = w[k]
    <3>1. k + 2 \in 1..(2 + len) /\ ~(k + 2 <= 2) /\ (k + 2) - 2 = k
      BY <1>7
    <3> QED BY <2>4, <3>1
  <2>8. Len(v) = len + 2
    BY <1>6, <1>7, <2>1, <2>3
  <2> QED BY <2>1, <2>3, <2>6, <2>7, <2>8
<1>10. IsRecording(entries, v, e, up)
  BY DEF LineRC6, v, h, w, levels
<1> HIDE DEF h, v
<1>11. ASSUME NEW k \in 1..len PROVE IsMark(k + 2) = IsMark(k)
  <2>1. (k + 2) % 2 = k % 2
    BY <1>7
  <2> QED BY <2>1, Zenon DEF IsMark
<1>12. ShortSpaces(v)
  <2>1. DOMAIN v = 1..(len + 2)
    BY <1>9, LenProperties
  <2> SUFFICES ASSUME NEW i \in 1..(len + 2), ~IsMark(i) PROVE SpaceWidth(v[i])
    BY <2>1 DEF ShortSpaces
  <2>2. CASE i = 1
    BY <2>2 DEF IsMark
  <2>3. CASE i = 2
    BY <1>9, <2>3 DEF SpaceWidth, RC6_HDR_SPACE
  <2>4. CASE i > 2
    <3>1. i - 2 \in 1..len /\ (i - 2) + 2 = i
      BY <1>7, <2>4
    <3>2. /\ v[i] = units[i - 2] * RC6_T1
          /\ (units[i - 2] = 1 \/ units[i - 2] = 2 \/ units[i - 2] = 3)
      BY <1>6, <1>8, <1>9, <3>1
    <3> QED BY <3>2 DEF SpaceWidth, RC6_T1
  <2> QED BY <1>7, <2>2, <2>3, <2>4
<1>13. /\ Len(entries) = len + 2
       /\ \A i \in 1..(len + 2) : /\ at[i] \in Nat
                                  /\ IsMark(i) => MarkSeen(at[i], v[i], e)
                                  /\ ~IsMark(i) => SpaceSeen(at[i], v[i], e)
  <2>1. Len(v) < RAWBUF
    BY <1>7, <1>9 DEF RAWBUF
  <2> QED BY <1>9, <1>10, <1>12, <2>1, BufferOf
<1>14. rawlen = len + 2 + 1 /\ rawlen \in Nat /\ rawlen >= 4
  BY <1>7, <1>13
<1> HIDE DEF at, rawlen
<1>15. \A k \in 1..len : Avail(at, k + 2, RC6_T1) = units[k]
  <2> SUFFICES ASSUME NEW k \in 1..len PROVE Avail(at, k + 2, RC6_T1) = units[k]
    OBVIOUS
  <2>1. k + 2 \in 1..(len + 2)
    BY <1>7
  <2>2. v[k + 2] = units[k] * RC6_T1 /\ units[k] \in 1..3
    BY <1>6, <1>8, <1>9
  <2>3. /\ at[k + 2] \in Nat
        /\ IsMark(k + 2) => MarkSeen(at[k + 2], units[k] * RC6_T1, e)
        /\ ~IsMark(k + 2) => SpaceSeen(at[k + 2], units[k] * RC6_T1, e)
    BY <1>13, <2>1, <2>2
  <2> QED BY <2>2, <2>3, AvailRC6
<1>16. AllLevels(at, 3, rawlen, RC6_T1) /\ SameLevels(Levels(at, 3, rawlen, RC6_T1), levels)
  <2>1. 2 + 1 = 3 /\ Len(units) > 0 /\ 2 \in {0, 2}
    BY <1>6, <1>7
  <2>2. HasLevels(at, 2, len, RC6_T1, levels)
    <3>1. len = MarksEnd(units)
      BY DEF len
    <3>2. /\ l \in Nat /\ l > 0 /\ levels \in Seq(BOOLEAN) /\ Len(levels) = l
          /\ Covers(q, units, levels, l) /\ len \in 1..Len(units)
      BY <1>1, <1>3, <1>6
    <3> QED BY <1>15, <2>1, <3>1, <3>2, LevelsBack
  <2> QED BY <1>14, <2>1, <2>2 DEF HasLevels
<1>17. /\ at[1] \in Nat /\ MarkSeen(at[1], RC6_HDR_MARK, e)
       /\ at[2] \in Nat /\ SpaceSeen(at[2], RC6_HDR_SPACE, e)
  <2>1. 1 \in 1..(len + 2) /\ IsMark(1) /\ 2 \in 1..(len + 2) /\ ~IsMark(2)
    BY <1>7 DEF IsMark
  <2> QED BY <1>9, <1>13, <2>1
<1>18. /\ MATCH_MARK(at[1], RC6_HDR_MARK) /\ MATCH_SPACE(at[2], RC6_HDR_SPACE)
       /\ ~MATCH_MARK(at[1], NEC.header) /\ ~MATCH_MARK(at[1], SAMSUNG.header)
       /\ ~MATCH_SPACE(at[2], SONY.gap)
       /\ ~MATCH_MARK(at[1], 1 * RC5_T1) /\ ~MATCH_MARK(at[1], 2 * RC5_T1)
       /\ MATCH_MARK(at[1], 3 * RC5_T1)
  BY <1>17, HeaderOfRC6, Zenon
<1>19. DecodeRC6(at, rawlen) = {Result("RC6", bits)}
  BY <1>1, <1>2, <1>14, <1>16, <1>18, RC6Decodes
<1>20. DecodeNEC(at, rawlen) = {}
  BY <1>18 DEF DecodeNEC, Succeeds
<1>21. DecodeSamsung(at, rawlen) = {}
  BY <1>18 DEF DecodeSamsung, Succeeds
<1>22. DecodeSony(at, rawlen) = {} /\ DecodeRC5(at, rawlen) = {}
  <2>1. rawlen > 1
    BY <1>14
  <2> QED BY <1>14, <1>17, <1>18, <2>1, RC6NotSonyOrRC5, Zenon
<1> QED BY <1>19, <1>20, <1>21, <1>22 DEF at, rawlen

(* decode() returns the result of the first decoder that has one.          *)
LEMMA FirstSucceeds ==
    ASSUME NEW attempts, NEW i \in 1..8, attempts[i] # {},
           \A m \in 1..(i - 1) : attempts[m] = {}
    PROVE  FirstOf(attempts) = attempts[i]
<1> DEFINE Tried == {n \in 1..8 : \A m \in 1..(n - 1) : attempts[m] = {}}
<1>1. i \in Tried
  OBVIOUS
<1>2. ASSUME NEW n \in Tried PROVE n = i \/ attempts[n] = {}
  <2>1. CASE n < i
    <3>1. n \in 1..(i - 1)
      BY <2>1
    <3> QED BY <3>1
  <2>2. CASE n > i
    <3>1. i \in 1..(n - 1)
      BY <2>2
    <3> QED BY <3>1
  <2> QED BY <2>1, <2>2
<1>3. FirstOf(attempts) = UNION {attempts[n] : n \in Tried}
  BY DEF FirstOf
<1> HIDE DEF Tried
<1> QED BY <1>1, <1>2, <1>3

(* The bits that are shifted out of a value.                               *)
LEMMA BitsShifted ==
    ASSUME NEW word \in Word, NEW n \in 1..32
    PROVE  /\ Lowest(word, n) \in Seq({0, 1}) /\ Len(Lowest(word, n)) = n
           /\ Shifted(word, 0, 32) = word
           /\ word \in Seq({0, 1}) /\ Len(word) = 32
<1>1. \A i \in 1..32 : word[i] \in {0, 1}
  BY DEF Word
<1>2. word = [i \in 1..32 |-> word[i]]
  BY DEF Word
<1>3. word \in Seq({0, 1}) /\ Len(word) = 32
  BY <1>1, <1>2
<1>4. Shifted(word, 0, 32) = word
  <2>1. \A j \in 1..32 : (IF 0 + j <= 32 THEN word[0 + j] ELSE 0) = word[j]
    OBVIOUS
  <2> QED BY <1>2, <2>1 DEF Shifted
<1> DEFINE bit(j) == IF (32 - n) + j <= 32 THEN word[(32 - n) + j] ELSE 0
<1>5. \A j \in 1..n : bit(j) \in {0, 1}
  <2> SUFFICES ASSUME NEW j \in 1..n PROVE bit(j) \in {0, 1}
    OBVIOUS
  <2>1. (32 - n) + j \in 1..32
    OBVIOUS
  <2> QED BY <1>1, <2>1
<1>6. Lowest(word, n) = [j \in 1..n |-> bit(j)]
  BY DEF Lowest, Shifted
<1> HIDE DEF bit
<1>7. Lowest(word, n) \in Seq({0, 1}) /\ Len(Lowest(word, n)) = n
  BY <1>5, <1>6
<1> QED BY <1>3, <1>4, <1>7

(* The keys for which the properties promise something.                    *)
NECKey(k) == k.protocol = 1 /\ k.bits = 32
SamsungKey(k) == k.protocol = 7 /\ k.bits = 32
SonyKey(k) == k.protocol = 2 /\ k.bits >= 12
RC5Key(k) == k.protocol = 3 /\ k.bits >= 12
RC6Key(k) == k.protocol = 4
HeldJVCKey(k) == k.protocol = 8 /\ k.bits = 16 /\ k.repeat

(* The result that is promised, for the complete frame of such a key.      *)
Promised(k, r) ==
    /\ NECKey(k) => r = Result("NEC", k.word)
    /\ SamsungKey(k) => r = Result("SAMSUNG", k.word)
    /\ SonyKey(k) => r = Result("SONY", Lowest(k.word, k.bits))
    /\ RC5Key(k) => r = Result("RC5", Lowest(k.word, k.bits))
    /\ RC6Key(k) => r = Result("RC6", Lowest(k.word, k.bits))
    /\ HeldJVCKey(k) => r = Result("JVC", REPEAT)

LEMMA KeyTypes ==
    ASSUME NEW k \in Keys
    PROVE  /\ k.word \in Word
           /\ SonyKey(k) \/ RC5Key(k) => k.bits \in 12..32
           /\ RC6Key(k) => k.bits \in 1..32
<1>1. k \in KeySpace /\ (k.protocol \in ShiftsUp => k.bits <= 32)
  BY CodecAssumption
<1>2. k.word \in Word /\ k.bits \in 1..MaxBits
  BY <1>1 DEF KeySpace
<1>3. ASSUME SonyKey(k) \/ RC5Key(k) \/ RC6Key(k) PROVE k.bits <= 32
  <2>1. k.protocol \in ShiftsUp
    BY <1>3 DEF SonyKey, RC5Key, RC6Key, ShiftsUp
  <2> QED BY <1>1, <2>1
<1>4. SonyKey(k) \/ RC5Key(k) => k.bits >= 12
  BY DEF SonyKey, RC5Key
<1>5. k.bits \in Nat /\ k.bits >= 1
  BY <1>2 DEF MaxBits
<1> QED BY <1>2, <1>3, <1>4, <1>5

LEMMA AttemptsInOrder ==
    ASSUME NEW at, NEW rawlen
    PROVE  /\ Attempts(at, rawlen)[1] = DecodeNEC(at, rawlen)
           /\ Attempts(at, rawlen)[2] = DecodeSony(at, rawlen)
           /\ Attempts(at, rawlen)[3] = DecodeSamsung(at, rawlen)
           /\ Attempts(at, rawlen)[4] = DecodeRC5(at, rawlen)
           /\ Attempts(at, rawlen)[5] = DecodeRC6(at, rawlen)
           /\ Attempts(at, rawlen)[6] = DecodeJVC(at, rawlen)
BY DEF Attempts

LEMMA NECReceived ==
    ASSUME NEW bits \in Seq({0, 1}), Len(bits) = 32, NEW e \in 0..180, NEW up \in SUBSET Nat,
           NEW entries, IsRecording(entries, WithHeader(NEC, bits), e, up), NEW junk
    PROVE  DecodeNEC(Buffer(entries, junk), Len(entries) + 1) = {Result("NEC", bits)}
<1> DEFINE at == Buffer(entries, junk)
           rawlen == Len(entries) + 1
<1>1. NEC.stop = TRUE
  BY PulseFields
<1>2. 32 \in 1..32
  OBVIOUS
<1>3. rawlen = (IF NEC.stop THEN 2 * 32 + 4 ELSE 2 * 32 + 2) /\ Holds(at, NEC, bits, 32, e)
  BY <1>2, PulsesArePulses, DecoderFinds, Zenon
<1> HIDE DEF at, rawlen
<1>4. rawlen = 68
  BY <1>1, <1>3
<1>5. DecodeNEC(at, rawlen) = {Result("NEC", bits)}
  <2>1. rawlen \in Nat /\ rawlen >= 68 /\ Holds(at, NEC, bits, 32, e)
    BY <1>3, <1>4
  <2> QED BY <2>1, NECDecodes
<1> QED BY <1>5 DEF at, rawlen

LEMMA SamsungReceived ==
    ASSUME NEW bits \in Seq({0, 1}), Len(bits) = 32, NEW e \in 0..180, NEW up \in SUBSET Nat,
           NEW entries, IsRecording(entries, WithHeader(SAMSUNG, bits), e, up), NEW junk
    PROVE  LET at == Buffer(entries, junk)
               rawlen == Len(entries) + 1
           IN /\ DecodeNEC(at, rawlen) = {} /\ DecodeSony(at, rawlen) = {}
              /\ DecodeSamsung(at, rawlen) = {Result("SAMSUNG", bits)}
<1> DEFINE at == Buffer(entries, junk)
           rawlen == Len(entries) + 1
<1>1. SAMSUNG.stop = TRUE
  BY PulseFields
<1>2. 32 \in 1..32
  OBVIOUS
<1>3. rawlen = (IF SAMSUNG.stop THEN 2 * 32 + 4 ELSE 2 * 32 + 2) /\ Holds(at, SAMSUNG, bits, 32, e)
  BY <1>2, PulsesArePulses, DecoderFinds, Zenon
<1> HIDE DEF at, rawlen
<1>4. rawlen = 68
  BY <1>1, <1>3
<1>5. /\ DecodeNEC(at, rawlen) = {} /\ DecodeSony(at, rawlen) = {}
      /\ DecodeSamsung(at, rawlen) = {Result("SAMSUNG", bits)}
  <2>1. rawlen \in Nat /\ rawlen >= 68 /\ Holds(at, SAMSUNG, bits, 32, e)
    BY <1>3, <1>4
  <2> QED BY <2>1, SamsungDecodes
<1> QED BY <1>5 DEF at, rawlen

LEMMA SonyReceived ==
    ASSUME NEW n \in 12..32, NEW bits \in Seq({0, 1}), Len(bits) = n,
           NEW e \in 0..180, NEW up \in SUBSET Nat,
           NEW entries, IsRecording(entries, WithHeader(SONY, bits), e, up), NEW junk
    PROVE  LET at == Buffer(entries, junk)
               rawlen == Len(entries) + 1
           IN DecodeNEC(at, rawlen) = {} /\ DecodeSony(at, rawlen) = {Result("SONY", bits)}
<1> DEFINE at == Buffer(entries, junk)
           rawlen == Len(entries) + 1
<1>1. SONY.stop = FALSE
  BY PulseFields
<1>2. n \in 1..32
  OBVIOUS
<1>3. rawlen = (IF SONY.stop THEN 2 * n + 4 ELSE 2 * n + 2) /\ Holds(at, SONY, bits, n, e)
  BY <1>2, PulsesArePulses, DecoderFinds, Zenon
<1> HIDE DEF at, rawlen
<1>4. rawlen = 2 * n + 2
  BY <1>1, <1>3
<1>5. DecodeNEC(at, 2 * n + 2) = {} /\ DecodeSony(at, 2 * n + 2) = {Result("SONY", bits)}
  <2>1. Holds(at, SONY, bits, n, e)
    BY <1>3
  <2> QED BY <2>1, SonyDecodes, Zenon
<1> QED BY <1>4, <1>5 DEF at, rawlen

LEMMA RepeatReceived ==
    ASSUME NEW bits \in Seq({0, 1}), Len(bits) = 16, NEW e \in 0..180, NEW up \in SUBSET Nat,
           NEW entries, IsRecording(entries, Body(JVC, bits), e, up), NEW junk
    PROVE  LET at == Buffer(entries, junk)
               rawlen == Len(entries) + 1
           IN /\ DecodeNEC(at, rawlen) = {} /\ DecodeSony(at, rawlen) = {}
              /\ DecodeSamsung(at, rawlen) = {} /\ DecodeRC5(at, rawlen) = {}
              /\ DecodeRC6(at, rawlen) = {}
              /\ DecodeJVC(at, rawlen) = {Result("JVC", REPEAT)}
<1> DEFINE at == Buffer(entries, junk)
           rawlen == Len(entries) + 1
           w == Body(JVC, bits)
<1>1. /\ w \in Seq(Nat) /\ Len(w) = 33 /\ ShortSpaces(w)
      /\ w[1] = 600 /\ w[33] = 600 /\ w[2] \in {550, 1600}
  BY RepeatLine
<1>2. IsRecording(entries, w, e, up)
  OBVIOUS
<1> HIDE DEF w
<1> DEFINE len == 33
<1>a. w \in Seq(Nat) /\ Len(w) = len /\ ShortSpaces(w) /\ len < 76 /\ len \in Nat
  BY <1>1
<1> HIDE DEF len
<1>3. /\ Len(entries) = len
      /\ \A i \in 1..len : /\ at[i] \in Nat
                           /\ IsMark(i) => MarkSeen(at[i], w[i], e)
                           /\ ~IsMark(i) => SpaceSeen(at[i], w[i], e)
  <2>1. Len(w) < RAWBUF
    BY <1>a DEF RAWBUF
  <2> QED BY <1>a, <1>2, <2>1, BufferOf
<1>4. rawlen = 34
  BY <1>3 DEF len
<1> HIDE DEF at, rawlen
<1>5. HoldsRepeat(at, e)
  <2>1. 1 \in 1..len /\ IsMark(1) /\ 33 \in 1..len /\ IsMark(33) /\ 2 \in 1..len /\ ~IsMark(2)
    BY DEF IsMark, len
  <2>2. /\ at[1] \in Nat /\ MarkSeen(at[1], w[1], e) /\ at[33] \in Nat /\ MarkSeen(at[33], w[33], e)
        /\ at[2] \in Nat /\ SpaceSeen(at[2], w[2], e)
    BY <1>3, <2>1
  <2>3. w[2] = 550 \/ w[2] = 1600
    BY <1>1
  <2>4. w[1] = 600 /\ w[33] = 600
    BY <1>1
  <2> QED BY <2>2, <2>3, <2>4 DEF HoldsRepeat, BareBegins
<1>6. /\ DecodeNEC(at, 34) = {} /\ DecodeSony(at, 34) = {} /\ DecodeSamsung(at, 34) = {}
      /\ DecodeRC5(at, 34) = {} /\ DecodeRC6(at, 34) = {}
      /\ DecodeJVC(at, 34) = {Result("JVC", REPEAT)}
  BY <1>5, RepeatDecodes
<1> QED BY <1>4, <1>6 DEF at, rawlen

LEMMA ChainDecodes ==
    ASSUME NEW k \in Keys, NEW e \in 0..180, NEW up \in SUBSET Nat, NEW entries, NEW junk,
           IsRecording(entries, Sent(k), e, up),
           NEW r \in FirstOf(Attempts(Buffer(entries, junk), Len(entries) + 1))
    PROVE  Promised(k, r)
<1> DEFINE at == Buffer(entries, junk)
           rawlen == Len(entries) + 1
           tried == Attempts(at, rawlen)
           n == k.bits
           low == Lowest(k.word, n)
<1>1. /\ k.word \in Word /\ (SonyKey(k) \/ RC5Key(k) => n \in 12..32)
      /\ (RC6Key(k) => n \in 1..32)
  BY KeyTypes
<1>2. Shifted(k.word, 0, 32) = k.word /\ k.word \in Seq({0, 1}) /\ Len(k.word) = 32
  <2>1. 32 \in 1..32
    OBVIOUS
  <2> QED BY <1>1, <2>1, BitsShifted
<1>3. n \in 1..32 => low \in Seq({0, 1}) /\ Len(low) = n
  BY <1>1, BitsShifted
<1>4. /\ tried[1] = DecodeNEC(at, rawlen) /\ tried[2] = DecodeSony(at, rawlen)
      /\ tried[3] = DecodeSamsung(at, rawlen) /\ tried[4] = DecodeRC5(at, rawlen)
      /\ tried[5] = DecodeRC6(at, rawlen) /\ tried[6] = DecodeJVC(at, rawlen)
  BY AttemptsInOrder, Zenon
<1>5. ASSUME NEW i \in 1..8, NEW s, tried[i] = {s}, \A m \in 1..(i - 1) : tried[m] = {}
      PROVE  r = s
  <2>1. r \in FirstOf(tried)
    OBVIOUS
  <2> HIDE DEF tried
  <2>2. FirstOf(tried) = {s}
    <3>1. tried[i] # {}
      BY <1>5
    <3> QED BY <1>5, <3>1, FirstSucceeds
  <2> QED BY <2>1, <2>2
<1>6. ASSUME NECKey(k) PROVE r = Result("NEC", k.word)
  <2>1. Sent(k) = WithHeader(NEC, k.word)
    BY <1>2, <1>6 DEF Sent, NECKey
  <2>2. IsRecording(entries, WithHeader(NEC, k.word), e, up)
    BY <2>1
  <2>3. DecodeNEC(at, rawlen) = {Result("NEC", k.word)}
    BY <1>2, <2>2, NECReceived
  <2>4. tried[1] = {Result("NEC", k.word)}
    BY <1>4, <2>3, Zenon
  <2>5. 1 \in 1..8 /\ \A m \in 1..(1 - 1) : tried[m] = {}
    OBVIOUS
  <2> HIDE DEF tried
  <2> QED BY <1>5, <2>4, <2>5
<1>7. ASSUME SamsungKey(k) PROVE r = Result("SAMSUNG", k.word)
  <2>1. Sent(k) = WithHeader(SAMSUNG, k.word)
    BY <1>2, <1>7 DEF Sent, SamsungKey
  <2>2. IsRecording(entries, WithHeader(SAMSUNG, k.word), e, up)
    BY <2>1
  <2>3. /\ DecodeNEC(at, rawlen) = {} /\ DecodeSony(at, rawlen) = {}
        /\ DecodeSamsung(at, rawlen) = {Result("SAMSUNG", k.word)}
    BY <1>2, <2>2, SamsungReceived, ZenonT(40)
  <2>4. tried[1] = {} /\ tried[2] = {} /\ tried[3] = {Result("SAMSUNG", k.word)}
    BY <1>4, <2>3, Zenon
  <2> HIDE DEF tried
  <2>5. 3 \in 1..8 /\ \A m \in 1..(3 - 1) : tried[m] = {}
    BY <2>4
  <2> QED BY <1>5, <2>4, <2>5
<1>8. ASSUME SonyKey(k) PROVE r = Result("SONY", low)
  <2>1. Sent(k) = WithHeader(SONY, low)
    BY <1>8 DEF Sent, SonyKey
  <2>2. n \in 12..32 /\ n \in 1..32
    BY <1>1, <1>8
  <2>3. low \in Seq({0, 1}) /\ Len(low) = n
    BY <1>3, <2>2
  <2> HIDE DEF low, n
  <2>4. IsRecording(entries, WithHeader(SONY, low), e, up)
    BY <2>1
  <2>5. DecodeNEC(at, rawlen) = {} /\ DecodeSony(at, rawlen) = {Result("SONY", low)}
    BY <2>2, <2>3, <2>4, SonyReceived
  <2>6. tried[1] = {} /\ tried[2] = {Result("SONY", low)}
    BY <1>4, <2>5, Zenon
  <2> HIDE DEF tried
  <2>7. 2 \in 1..8 /\ \A m \in 1..(2 - 1) : tried[m] = {}
    BY <2>6
  <2> QED BY <1>5, <2>6, <2>7
<1>9. ASSUME RC5Key(k) PROVE r = Result("RC5", low)
  <2>1. Sent(k) = Widths(LevelsRC5(low), RC5_T1)
    BY <1>9 DEF Sent, RC5Key
  <2>2. n \in 12..32 /\ n \in 1..32
    BY <1>1, <1>9
  <2>3. low \in Seq({0, 1}) /\ Len(low) = n
    BY <1>3, <2>2
  <2> HIDE DEF low, n
  <2>4. IsRecording(entries, Widths(LevelsRC5(low), RC5_T1), e, up)
    BY <2>1
  <2>5. /\ DecodeNEC(at, rawlen) = {} /\ DecodeSony(at, rawlen) = {}
        /\ DecodeSamsung(at, rawlen) = {} /\ DecodeRC5(at, rawlen) = {Result("RC5", low)}
    <3>1. n >= 12
      BY <2>2
    <3> QED BY <2>2, <2>3, <2>4, <3>1, RC5Received
  <2>6. /\ tried[1] = {} /\ tried[2] = {} /\ tried[3] = {}
        /\ tried[4] = {Result("RC5", low)}
    BY <1>4, <2>5, Zenon
  <2> HIDE DEF tried
  <2>7. 4 \in 1..8 /\ \A m \in 1..(4 - 1) : tried[m] = {}
    BY <2>6
  <2> QED BY <1>5, <2>6, <2>7
<1>10. ASSUME RC6Key(k) PROVE r = Result("RC6", low)
  <2>1. Sent(k) = LineRC6(low)
    BY <1>10 DEF Sent, RC6Key, LineRC6
  <2>2. n \in 1..32
    BY <1>1, <1>10
  <2>3. low \in Seq({0, 1}) /\ Len(low) = n
    BY <1>3, <2>2
  <2> HIDE DEF low, n
  <2>4. IsRecording(entries, LineRC6(low), e, up)
    BY <2>1
  <2>5. /\ DecodeNEC(at, rawlen) = {} /\ DecodeSony(at, rawlen) = {}
        /\ DecodeSamsung(at, rawlen) = {} /\ DecodeRC5(at, rawlen) = {}
        /\ DecodeRC6(at, rawlen) = {Result("RC6", low)}
    BY <2>2, <2>3, <2>4, RC6Received
  <2>6. /\ tried[1] = {} /\ tried[2] = {} /\ tried[3] = {} /\ tried[4] = {}
        /\ tried[5] = {Result("RC6", low)}
    BY <1>4, <2>5, Zenon
  <2> HIDE DEF tried
  <2>7. 5 \in 1..8 /\ \A m \in 1..(5 - 1) : tried[m] = {}
    BY <2>6
  <2> QED BY <1>5, <2>6, <2>7
<1>11. ASSUME HeldJVCKey(k) PROVE r = Result("JVC", REPEAT)
  <2>1. Sent(k) = Body(JVC, low) /\ n = 16
    BY <1>11 DEF Sent, HeldJVCKey
  <2>2. low \in Seq({0, 1}) /\ Len(low) = 16
    BY <1>3, <2>1
  <2> HIDE DEF low, n
  <2>3. IsRecording(entries, Body(JVC, low), e, up)
    BY <2>1
  <2>4. /\ DecodeNEC(at, rawlen) = {} /\ DecodeSony(at, rawlen) = {}
        /\ DecodeSamsung(at, rawlen) = {} /\ DecodeRC5(at, rawlen) = {}
        /\ DecodeRC6(at, rawlen) = {}
        /\ DecodeJVC(at, rawlen) = {Result("JVC", REPEAT)}
    BY <2>2, <2>3, RepeatReceived
  <2>5. /\ tried[1] = {} /\ tried[2] = {} /\ tried[3] = {} /\ tried[4] = {}
        /\ tried[5] = {} /\ tried[6] = {Result("JVC", REPEAT)}
    BY <1>4, <2>4, Zenon
  <2> HIDE DEF tried
  <2>6. 6 \in 1..8 /\ \A m \in 1..(6 - 1) : tried[m] = {}
    BY <2>5
  <2> QED BY <1>5, <2>5, <2>6
<1> QED BY <1>6, <1>7, <1>8, <1>9, <1>10, <1>11, Zenon DEF Promised

-------------------------------------------------------------------------------
(* The invariant: a frame that waits to be decoded is a recording of what  *)
(* was sent for the key that is held, and what was heard is what that key  *)
(* promises.                                                               *)
Inv ==
    /\ key \in Keys
    /\ line = <<>> \/ line = Sent(key)
    /\ \/ frame = 0
       \/ \E e \in 0..180, up \in SUBSET Nat : IsRecording(raw, line, e, up)
    /\ \A h \in heard : Promised(key, h.result)

(* A recording is not of an empty line.                                    *)
LEMMA RecordingOfSome ==
    ASSUME NEW entries, NEW e, NEW up PROVE ~IsRecording(entries, <<>>, e, up)
BY DEF IsRecording

LEMMA InvInit == Init => Inv
BY DEF Init, Inv

LEMMA InvStep == Inv /\ [Next]_vars => Inv'
<1> SUFFICES ASSUME Inv, [Next]_vars PROVE Inv'
  OBVIOUS
<1>1. ASSUME NEW k \in Keys, HandleIr(k) PROVE Inv'
  <2>1. key' = k /\ line' = Sent(k) /\ heard' = {} /\ frame' = 0
    BY <1>1 DEF HandleIr
  <2> QED BY <2>1 DEF Inv
<1>2. CASE Receives
  <2>1. UNCHANGED <<key, line, heard>>
    BY <1>2 DEF Receives
  <2>2. \E e \in 0..180, up \in SUBSET Nat : IsRecording(raw', line, e, up)
    <3>1. PICK e \in Excess, up \in RoundedUp :
             \E first \in DOMAIN line : \E last \in first..Len(line) :
                /\ IsFrame(Seen(line, e, up), first, last)
                /\ raw' = Recorded(Seen(line, e, up), first, last)
      BY <1>2 DEF Receives
    <3>2. e \in 0..180 /\ up \in SUBSET Nat
      BY CodecAssumption
    <3>3. IsRecording(raw', line, e, up)
      BY <3>1 DEF IsRecording
    <3> QED BY <3>2, <3>3
  <2> QED BY <2>1, <2>2 DEF Inv
<1>3. CASE Decodes
  <2>1. frame' = 0 /\ UNCHANGED <<key, line>>
    BY <1>3 DEF Decodes
  <2>2. PICK junk \in Junk :
           heard' = heard \cup {[frame |-> frame, result |-> r] :
               r \in FirstOf(Attempts(Buffer(raw, junk), Len(raw) + 1))}
    BY <1>3 DEF Decodes
  <2>3. PICK e \in 0..180, up \in SUBSET Nat : IsRecording(raw, line, e, up)
    <3>1. frame # 0
      BY <1>3 DEF Decodes
    <3> QED BY <3>1 DEF Inv
  <2>4. line = Sent(key) /\ key \in Keys
    BY <2>3, RecordingOfSome DEF Inv
  <2> DEFINE results == FirstOf(Attempts(Buffer(raw, junk), Len(raw) + 1))
  <2>5. \A r \in results : Promised(key, r)
    BY <2>3, <2>4, ChainDecodes
  <2> HIDE DEF results
  <2>6. heard' = heard \cup {[frame |-> frame, result |-> r] : r \in results}
    BY <2>2 DEF results
  <2>7. ASSUME NEW h \in heard' PROVE Promised(key, h.result)
    <3>1. CASE h \in heard
      BY <3>1 DEF Inv
    <3>2. CASE h \notin heard
      <4>1. PICK r \in results : h = [frame |-> frame, result |-> r]
        BY <2>6, <2>7, <3>2
      <4>2. h.result = r
        BY <4>1
      <4> QED BY <2>5, <4>2
    <3> QED BY <3>1, <3>2
  <2> QED BY <2>1, <2>4, <2>7 DEF Inv
<1>4. CASE UNCHANGED vars
  BY <1>4 DEF vars, Inv
<1> QED BY <1>1, <1>2, <1>3, <1>4 DEF Next

(* What a held key sends by NEC, Samsung or Sony is decoded to itself,     *)
(* whatever the bits, the excess of the marks up to 180 us, the rounding   *)
(* of each width and what else the buffer holds.                           *)
THEOREM AlwaysPulseRoundTrip == Spec => []PulseRoundTrip
<1>1. Inv => PulseRoundTrip
  BY DEF Inv, PulseRoundTrip, Promised, NECKey, SamsungKey, SonyKey
<1> QED BY <1>1, InvInit, InvStep, PTL DEF Spec

(* So is what it sends by RC5, with twelve bits or more, and by RC6: the   *)
(* levels that were joined, and the wide bit, are taken apart again.       *)
THEOREM AlwaysBiphaseRoundTrip == Spec => []BiphaseRoundTrip
<1>1. Inv => BiphaseRoundTrip
  BY DEF Inv, BiphaseRoundTrip, Promised, RC5Key, RC6Key
<1> QED BY <1>1, InvInit, InvStep, PTL DEF Spec

(* What a key of JVC sends that is held down is decoded as a repetition,   *)
(* and by no decoder before that of JVC.                                   *)
THEOREM AlwaysRepeatsRecognised == Spec => []RepeatsRecognised
<1>1. Inv => RepeatsRecognised
  BY DEF Inv, RepeatsRecognised, Promised, HeldJVCKey
<1> QED BY <1>1, InvInit, InvStep, PTL DEF Spec

-------------------------------------------------------------------------------
(* One code for one key. *)

(* A recording of the frame of w that begins at first.                     *)
RecordedAt(entries, w, first, e, up) ==
    /\ first \in DOMAIN w
    /\ \E last \in first..Len(w) :
          /\ IsFrame(Seen(w, e, up), first, last)
          /\ entries = Recorded(Seen(w, e, up), first, last)

(* Widths that are told apart whatever happens to them on their way: equal *)
(* ones always differ by less than a fifth, others by more.                *)
Apart(a, b) == a = b \/ 5 * a + 621 < 4 * b \/ 5 * b + 621 < 4 * a
MarkLength(a) == a \in Nat /\ a >= 245
SpaceLength(a) == a \in Nat /\ a >= 380 /\ (a <= 4500 \/ a >= 5500)
Marks(M) == \A a \in M : MarkLength(a) /\ \A b \in M : Apart(a, b)
Spaces(S) == \A a \in S : SpaceLength(a) /\ \A b \in S : Apart(a, b)
MadeOf(w, M, S) ==
    /\ w \in Seq(Nat)
    /\ \A i \in 1..Len(w) : (IsMark(i) => w[i] \in M) /\ (~IsMark(i) => w[i] \in S)

LEMMA NearCompare ==
    ASSUME NEW a \in Nat, NEW b \in Nat, NEW x \in Nat, NEW y \in Nat, a >= 200, b >= 200,
           a = b \/ 5 * a + 441 < 4 * b \/ 5 * b + 441 < 4 * a, Near(x, a), Near(y, b)
    PROVE  Compare(x, y) = CompareExactly(a, b)
<1>1. /\ a <= 50 * x + 49 /\ 50 * x <= a + 49
      /\ b <= 50 * y + 49 /\ 50 * y <= b + 49
  BY DEF Near
<1>2. CASE a = b
  <2>1. x >= 4 /\ y >= 4 /\ x <= y + 1 /\ y <= x + 1
    BY <1>1, <1>2
  <2>2. ~(5 * y < 4 * x) /\ ~(5 * x < 4 * y)
    BY <2>1
  <2> QED BY <1>2, <2>2 DEF Compare, CompareExactly
<1>3. CASE 5 * a + 441 < 4 * b
  <2>1. 5 * x < 4 * y
    BY <1>1, <1>3
  <2>2. ~(5 * y < 4 * x) /\ a < b /\ ~(b < a)
    BY <1>3, <2>1
  <2> QED BY <2>1, <2>2 DEF Compare, CompareExactly
<1>4. CASE 5 * b + 441 < 4 * a
  <2>1. 5 * y < 4 * x
    BY <1>1, <1>4
  <2>2. b < a
    BY <1>4
  <2> QED BY <2>1, <2>2 DEF Compare, CompareExactly
<1> QED BY <1>2, <1>3, <1>4

(* The hash compares what it sees as the widths that were sent compare.    *)
LEMMA CompareIs ==
    ASSUME NEW e \in 0..180, NEW a, NEW b, NEW x \in Nat, NEW y \in Nat, Apart(a, b),
           \/ MarkLength(a) /\ MarkLength(b) /\ MarkSeen(x, a, e) /\ MarkSeen(y, b, e)
           \/ SpaceLength(a) /\ SpaceLength(b) /\ SpaceSeen(x, a, e) /\ SpaceSeen(y, b, e)
    PROVE  Compare(x, y) = CompareExactly(a, b)
<1>0. /\ a = b \/ 5 * a + 621 < 4 * b \/ 5 * b + 621 < 4 * a
      /\ a \in Nat /\ b \in Nat
  BY DEF Apart, MarkLength, SpaceLength
<1>1. CASE a >= 245 /\ b >= 245 /\ MarkSeen(x, a, e) /\ MarkSeen(y, b, e)
  <2> DEFINE c == a + e
             d == b + e
  <2>1. /\ c \in Nat /\ d \in Nat /\ c >= 200 /\ d >= 200
        /\ c = d \/ 5 * c + 441 < 4 * d \/ 5 * d + 441 < 4 * c
    BY <1>0, <1>1
  <2>2. Near(x, c) /\ Near(y, d)
    BY <1>1 DEF MarkSeen
  <2>3. CompareExactly(c, d) = CompareExactly(a, b)
    BY <1>0 DEF CompareExactly
  <2> HIDE DEF c, d
  <2> QED BY <2>1, <2>2, <2>3, NearCompare
<1>2. CASE a >= 380 /\ b >= 380 /\ SpaceSeen(x, a, e) /\ SpaceSeen(y, b, e)
  <2> DEFINE c == a - e
             d == b - e
  <2>1. /\ c \in Nat /\ d \in Nat /\ c >= 200 /\ d >= 200
        /\ c = d \/ 5 * c + 441 < 4 * d \/ 5 * d + 441 < 4 * c
    BY <1>0, <1>2
  <2>2. Near(x, c) /\ Near(y, d)
    BY <1>2 DEF SpaceSeen
  <2>3. CompareExactly(c, d) = CompareExactly(a, b)
    BY <1>0 DEF CompareExactly
  <2> HIDE DEF c, d
  <2> QED BY <2>1, <2>2, <2>3, NearCompare
<1> QED BY <1>1, <1>2 DEF MarkLength, SpaceLength

(* A part of a line between two gaps.                                      *)
LongGap(w, i) == i \in 1..Len(w) /\ ~IsMark(i) /\ w[i] >= 5500
Piece(w, f, l) ==
    /\ f \in 1..Len(w) /\ l \in f..Len(w)
    /\ f = 1 \/ LongGap(w, f - 1)
    /\ l = Len(w) \/ LongGap(w, l + 1)
    /\ \A i \in f..l : ~LongGap(w, i)

(* It ends at one place only.                                              *)
LEMMA OnePiece ==
    ASSUME NEW w, Len(w) \in Nat, NEW f, NEW l, NEW m, Piece(w, f, l), Piece(w, f, m)
    PROVE  l = m
<1>1. f \in 1..Len(w) /\ l \in f..Len(w) /\ m \in f..Len(w)
  BY DEF Piece
<1>2. ~(l < m)
  <2> SUFFICES ASSUME l < m PROVE FALSE
    OBVIOUS
  <2>1. l # Len(w) /\ l + 1 \in f..m
    BY <1>1
  <2>2. LongGap(w, l + 1)
    BY <2>1 DEF Piece
  <2> QED BY <2>1, <2>2 DEF Piece
<1>3. ~(m < l)
  <2> SUFFICES ASSUME m < l PROVE FALSE
    OBVIOUS
  <2>1. m # Len(w) /\ m + 1 \in f..l
    BY <1>1
  <2>2. LongGap(w, m + 1)
    BY <2>1 DEF Piece
  <2> QED BY <2>1, <2>2 DEF Piece
<1> QED BY <1>1, <1>2, <1>3

(* What a frame of such widths leaves in the buffer, which may be too      *)
(* small for it.                                                           *)
Kept(n) == IF n < 75 THEN n ELSE 75
InBuffer(at, rawlen, w, f, l, e) ==
    /\ rawlen = Kept(l - f + 1) + 1
    /\ \A i \in 1..Kept(l - f + 1) :
          /\ at[i] \in Nat
          /\ IsMark(i) => MarkSeen(at[i], w[f + i - 1], e)
          /\ ~IsMark(i) => SpaceSeen(at[i], w[f + i - 1], e)

LEMMA TickNear ==
    ASSUME NEW w \in Seq(Nat), NEW e \in 0..180, NEW up, NEW i \in 1..Len(w),
           ~IsMark(i) => w[i] >= 380
    PROVE  /\ Seen(w, e, up)[i] \in Nat
           /\ IsMark(i) => MarkSeen(Seen(w, e, up)[i], w[i], e)
           /\ ~IsMark(i) => SpaceSeen(Seen(w, e, up)[i], w[i], e)
<1> DEFINE us == IF IsMark(i) THEN w[i] + e ELSE w[i] - e
           t == IF i \in up THEN (us + 49) \div 50 ELSE us \div 50
<1>1. w[i] \in Nat /\ e \in Nat /\ e <= 180 /\ i \in DOMAIN w
  BY LenProperties, ElementOfSeq
<1>2. us \in Nat
  <2>1. CASE IsMark(i)
    BY <1>1, <2>1
  <2>2. CASE ~IsMark(i)
    <3>1. w[i] - e \in Nat
      BY <1>1, <2>2
    <3> QED BY <2>2, <3>1
  <2> QED BY <2>1, <2>2
<1>3. Seen(w, e, up)[i] = t
  BY <1>1 DEF Seen
<1>4. (IsMark(i) => us = w[i] + e) /\ (~IsMark(i) => us = w[i] - e)
  OBVIOUS
<1>5. t \in Nat /\ Near(t, us)
  <2> HIDE DEF us
  <2> QED BY <1>2 DEF Near
<1> HIDE DEF us, t
<1> QED BY <1>3, <1>4, <1>5 DEF MarkSeen, SpaceSeen

GapAsSent(t, u) == t > GAP_TICKS + 1 <=> u >= 5500

LEMMA GapSeen ==
    ASSUME NEW t \in Nat, NEW u, NEW e \in 0..180, SpaceLength(u), SpaceSeen(t, u, e)
    PROVE  GapAsSent(t, u)
<1>0. u \in Nat /\ u >= 380 /\ (u <= 4500 \/ u >= 5500)
  BY DEF SpaceLength
<1>1. CASE u <= 4500
  <2>1. t <= 91
    BY <1>0, <1>1 DEF SpaceSeen, Near
  <2> QED BY <1>0, <1>1, <2>1 DEF GapAsSent, GAP_TICKS
<1>2. CASE u >= 5500
  <2>1. t >= 102
    BY <1>0, <1>2 DEF SpaceSeen, Near
  <2> QED BY <1>0, <1>2, <2>1 DEF GapAsSent, GAP_TICKS
<1> QED BY <1>0, <1>1, <1>2

LEMMA PieceOf ==
    ASSUME NEW M, NEW S, Marks(M), Spaces(S), NEW w, MadeOf(w, M, S),
           NEW e \in 0..180, NEW up, NEW f, NEW entries, RecordedAt(entries, w, f, e, up),
           NEW junk
    PROVE  \E l : /\ Piece(w, f, l)
                  /\ InBuffer(Buffer(entries, junk), Len(entries) + 1, w, f, l, e)
<1> DEFINE ticks == Seen(w, e, up)
           at == Buffer(entries, junk)
<1>1. w \in Seq(Nat) /\ Len(w) \in Nat /\ DOMAIN w = 1..Len(w)
  BY LenProperties DEF MadeOf
<1>2. PICK l \in f..Len(w) : IsFrame(ticks, f, l) /\ entries = Recorded(ticks, f, l)
  BY DEF RecordedAt
<1>3. f \in 1..Len(w)
  BY <1>1 DEF RecordedAt
<1>4. DOMAIN ticks = 1..Len(w)
  BY <1>1 DEF Seen
<1>5. ASSUME NEW i \in 1..Len(w)
      PROVE  /\ ticks[i] \in Nat
             /\ IsMark(i) => MarkSeen(ticks[i], w[i], e)
             /\ ~IsMark(i) => SpaceSeen(ticks[i], w[i], e)
             /\ ~IsMark(i) => (ticks[i] > GAP_TICKS + 1 <=> w[i] >= 5500)
  <2>1. ASSUME ~IsMark(i) PROVE SpaceLength(w[i])
    <3>1. w[i] \in S
      BY <2>1 DEF MadeOf
    <3> QED BY <3>1 DEF Spaces
  <2>2. /\ ticks[i] \in Nat
        /\ IsMark(i) => MarkSeen(ticks[i], w[i], e)
        /\ ~IsMark(i) => SpaceSeen(ticks[i], w[i], e)
    <3>1. ~IsMark(i) => w[i] >= 380
      BY <2>1 DEF SpaceLength
    <3> QED BY <1>1, <3>1, TickNear
  <2>3. ASSUME ~IsMark(i) PROVE ticks[i] > GAP_TICKS + 1 <=> w[i] >= 5500
    <3>1. ticks[i] \in Nat /\ SpaceLength(w[i]) /\ SpaceSeen(ticks[i], w[i], e)
      BY <2>1, <2>2, <2>3
    <3> HIDE DEF ticks
    <3>2. GapAsSent(ticks[i], w[i])
      BY <3>1, GapSeen
    <3> QED BY <3>2 DEF GapAsSent
  <2> HIDE DEF ticks
  <2> QED BY <2>2, <2>3
<1>6. Len(ticks) = Len(w)
  <2>1. ticks = [i \in 1..Len(w) |-> ticks[i]]
    BY <1>1, <1>4 DEF Seen
  <2> HIDE DEF ticks
  <2>2. \A i \in 1..Len(w) : ticks[i] \in Nat
    BY <1>5
  <2> QED BY <1>1, <2>1, <2>2
<1>7. \A i : IsGap(ticks, i) <=> LongGap(w, i)
  <2> SUFFICES ASSUME NEW i PROVE IsGap(ticks, i) <=> LongGap(w, i)
    OBVIOUS
  <2> HIDE DEF ticks
  <2>1. CASE i \in 1..Len(w)
    BY <1>4, <1>5, <2>1 DEF IsGap, LongGap
  <2>2. CASE i \notin 1..Len(w)
    BY <1>4, <2>2 DEF IsGap, LongGap
  <2> QED BY <2>1, <2>2
<1> HIDE DEF ticks
<1>8. Piece(w, f, l)
  BY <1>2, <1>3, <1>6, <1>7 DEF IsFrame, Piece
<1>9. IsMark(f)
  <2>1. f = 1 \/ ~IsMark(f - 1)
    BY <1>8 DEF Piece, LongGap
  <2>2. f \in Nat /\ f >= 1
    BY <1>3
  <2> QED BY <2>1, <2>2 DEF IsMark
<1> DEFINE n == Kept(l - f + 1)
<1>10. l \in Nat /\ l >= f /\ l <= Len(w) /\ f \in Nat /\ f >= 1
  BY <1>1, <1>2, <1>3
<1>11. n \in 1..75 /\ n <= l - f + 1
  BY <1>10 DEF Kept
<1>12. entries = [i \in 1..n |-> ticks[f + i - 1]]
  BY <1>2, <1>10 DEF Recorded, RAWBUF, Kept
<1> HIDE DEF n
<1>13. ASSUME NEW i \in 1..n
       PROVE  f + i - 1 \in 1..Len(w) /\ (IsMark(f + i - 1) <=> IsMark(i))
  <2>1. i \in Nat /\ i >= 1 /\ i <= n
    BY <1>11
  <2>2. f + i - 1 \in 1..Len(w)
    BY <1>10, <1>11, <2>1
  <2>3. (f + i - 1) % 2 = 1 <=> i % 2 = 1
    BY <1>9, <1>10, <2>1 DEF IsMark
  <2> QED BY <2>2, <2>3 DEF IsMark
<1>14. Len(entries) = n /\ \A i \in 1..n : entries[i] = ticks[f + i - 1]
  <2>1. \A i \in 1..n : ticks[f + i - 1] \in Nat
    BY <1>5, <1>13
  <2> QED BY <1>11, <1>12, <2>1
<1>15. \A i \in 1..n : at[i] = ticks[f + i - 1]
  <2> SUFFICES ASSUME NEW i \in 1..n PROVE at[i] = ticks[f + i - 1]
    OBVIOUS
  <2>1. i \in Indices /\ i <= Len(entries)
    BY <1>11, <1>14 DEF Indices
  <2>2. at[i] = entries[i]
    BY <2>1 DEF Buffer
  <2> QED BY <1>14, <2>2
<1> HIDE DEF at
<1>16. InBuffer(at, Len(entries) + 1, w, f, l, e)
  <2>1. \A i \in 1..n : /\ at[i] \in Nat
                        /\ IsMark(i) => MarkSeen(at[i], w[f + i - 1], e)
                        /\ ~IsMark(i) => SpaceSeen(at[i], w[f + i - 1], e)
    BY <1>5, <1>13, <1>15
  <2> QED BY <1>14, <2>1 DEF InBuffer, n
<1> QED BY <1>8, <1>16 DEF at

-------------------------------------------------------------------------------
(* The hash of a piece, of its widths alone.                               *)
HashOf(w, f, l) ==
    [i \in 1..(Kept(l - f + 1) - 2) |-> CompareExactly(w[f + i - 1], w[f + i + 1])]
Hashed(w, f, r) ==
    Len(w) \in Nat /\ \E l : Piece(w, f, l) /\ r = Result("UNKNOWN", HashOf(w, f, l))

LEMMA OneHash ==
    ASSUME NEW w, NEW f, NEW r, NEW s, Hashed(w, f, r), Hashed(w, f, s)
    PROVE  r = s
<1>1. PICK l : Piece(w, f, l) /\ r = Result("UNKNOWN", HashOf(w, f, l))
  BY DEF Hashed
<1>2. PICK m : Piece(w, f, m) /\ s = Result("UNKNOWN", HashOf(w, f, m))
  BY DEF Hashed
<1>3. l = m
  <2>1. Len(w) \in Nat
    BY DEF Hashed
  <2> QED BY <1>1, <1>2, <2>1, OnePiece
<1> QED BY <1>1, <1>2, <1>3

LEMMA HashIs ==
    ASSUME NEW M, NEW S, Marks(M), Spaces(S), NEW w, MadeOf(w, M, S),
           NEW e \in 0..180, NEW f, NEW l, Piece(w, f, l), NEW at, NEW rawlen,
           InBuffer(at, rawlen, w, f, l, e), NEW r \in DecodeHash(at, rawlen)
    PROVE  Hashed(w, f, r)
<1> DEFINE n == Kept(l - f + 1)
<1>1. w \in Seq(Nat) /\ Len(w) \in Nat /\ f \in 1..Len(w) /\ l \in f..Len(w)
  BY LenProperties DEF MadeOf, Piece
<1>2. n \in 1..75 /\ n <= l - f + 1 /\ rawlen = n + 1
  BY <1>1 DEF Kept, InBuffer
<1>3. IsMark(f)
  <2>1. f = 1 \/ ~IsMark(f - 1)
    BY DEF Piece, LongGap
  <2> QED BY <1>1, <2>1 DEF IsMark
<1>4. \A i \in 1..n : /\ at[i] \in Nat
                      /\ IsMark(i) => MarkSeen(at[i], w[f + i - 1], e)
                      /\ ~IsMark(i) => SpaceSeen(at[i], w[f + i - 1], e)
  BY DEF InBuffer
<1> HIDE DEF n
<1>5. ASSUME NEW i \in 1..n
      PROVE  /\ f + i - 1 \in 1..Len(w)
             /\ IsMark(i) => w[f + i - 1] \in M
             /\ ~IsMark(i) => w[f + i - 1] \in S
  <2>1. i \in Nat /\ i >= 1 /\ i <= n
    BY <1>2
  <2>2. f + i - 1 \in 1..Len(w)
    BY <1>1, <1>2, <2>1
  <2>3. (f + i - 1) % 2 = 1 <=> i % 2 = 1
    BY <1>1, <1>3, <2>1 DEF IsMark
  <2> QED BY <2>2, <2>3 DEF IsMark, MadeOf
<1>6. ASSUME NEW i \in 1..(n - 2)
      PROVE  Compare(at[i], at[i + 2]) = CompareExactly(w[f + i - 1], w[f + i + 1])
  <2> DEFINE a == w[f + i - 1]
             b == w[f + i + 1]
             x == at[i]
             y == at[i + 2]
  <2>1. i \in 1..n /\ i + 2 \in 1..n /\ f + (i + 2) - 1 = f + i + 1
    BY <1>1, <1>2
  <2>2. IsMark(i + 2) <=> IsMark(i)
    BY <1>2, <2>1 DEF IsMark
  <2>3. x \in Nat /\ y \in Nat
    BY <1>4, <2>1
  <2>4. CASE IsMark(i)
    <3>1. a \in M /\ b \in M
      BY <1>5, <2>1, <2>2, <2>4
    <3>2. MarkSeen(x, a, e) /\ MarkSeen(y, b, e)
      BY <1>4, <2>1, <2>2, <2>4
    <3> HIDE DEF a, b, x, y
    <3>3. MarkLength(a) /\ MarkLength(b) /\ Apart(a, b)
      BY <3>1 DEF Marks
    <3>4. Compare(x, y) = CompareExactly(a, b)
      BY <2>3, <3>2, <3>3, CompareIs
    <3> QED BY <3>4 DEF a, b, x, y
  <2>5. CASE ~IsMark(i)
    <3>1. a \in S /\ b \in S
      BY <1>5, <2>1, <2>2, <2>5
    <3>2. SpaceSeen(x, a, e) /\ SpaceSeen(y, b, e)
      BY <1>4, <2>1, <2>2, <2>5
    <3> HIDE DEF a, b, x, y
    <3>3. SpaceLength(a) /\ SpaceLength(b) /\ Apart(a, b)
      BY <3>1 DEF Spaces
    <3>4. Compare(x, y) = CompareExactly(a, b)
      BY <2>3, <3>2, <3>3, CompareIs
    <3> QED BY <3>4 DEF a, b, x, y
  <2> QED BY <2>4, <2>5
<1>7. r = Result("UNKNOWN", [i \in 1..(rawlen - 3) |-> Compare(at[i], at[i + 2])])
  BY Zenon DEF DecodeHash, Succeeds
<1>8. rawlen - 3 = n - 2
  BY <1>2
<1>9. [i \in 1..(rawlen - 3) |-> Compare(at[i], at[i + 2])] = HashOf(w, f, l)
  BY <1>6, <1>8 DEF HashOf, n
<1> QED BY <1>1, <1>7, <1>9 DEF Hashed

(* What is left to it.                                                     *)
NoneDecodes(at, rawlen) ==
    /\ DecodeNEC(at, rawlen) = {} /\ DecodeSony(at, rawlen) = {}
    /\ DecodeSamsung(at, rawlen) = {} /\ DecodeRC5(at, rawlen) = {}
    /\ DecodeRC6(at, rawlen) = {} /\ DecodeJVC(at, rawlen) = {}
    /\ DecodePanasonic(at, rawlen) = {}

LEMMA OnlyHash ==
    ASSUME NEW at, NEW rawlen, NoneDecodes(at, rawlen), NEW r \in FirstOf(Attempts(at, rawlen))
    PROVE  r \in DecodeHash(at, rawlen)
<1> DEFINE tried == Attempts(at, rawlen)
<1>1. /\ tried[1] = {} /\ tried[2] = {} /\ tried[3] = {} /\ tried[4] = {} /\ tried[5] = {}
      /\ tried[6] = {} /\ tried[7] = {} /\ tried[8] = DecodeHash(at, rawlen)
  BY DEF Attempts, NoneDecodes
<1> HIDE DEF tried
<1>2. r \in FirstOf(tried)
  BY DEF tried
<1>3. PICK i \in 1..8 : r \in tried[i]
  BY <1>2, Zenon DEF FirstOf
<1>4. i = 8
  BY <1>1, <1>3
<1> QED BY <1>1, <1>3, <1>4

-------------------------------------------------------------------------------
(* Of what widths the lines are made. *)

LEMMA Parity ==
    ASSUME NEW a \in Nat, NEW j \in Nat
    PROVE  /\ a % 2 = 0 => (a + j) % 2 = j % 2
           /\ a % 2 = 1 => ((a + j) % 2 = 1 <=> j % 2 # 1)
<1>1. CASE j % 2 = 0
  BY <1>1
<1>2. CASE j % 2 = 1
  BY <1>2
<1> QED BY <1>1, <1>2

(* Another line behind one: its marks come to stand where marks stand if   *)
(* the first has an even number of entries.                                *)
LEMMA JoinMadeOf ==
    ASSUME NEW M, NEW S, NEW a, MadeOf(a, M, S), NEW b,
           \/ Len(a) % 2 = 0 /\ MadeOf(b, M, S)
           \/ Len(a) % 2 = 1 /\ MadeOf(b, S, M)
    PROVE  MadeOf(a \o b, M, S)
<1> DEFINE w == a \o b
<1>1. a \in Seq(Nat) /\ b \in Seq(Nat) /\ Len(a) \in Nat /\ Len(b) \in Nat
  BY LenProperties DEF MadeOf
<1>2. /\ w \in Seq(Nat) /\ Len(w) = Len(a) + Len(b)
      /\ \A i \in 1..(Len(a) + Len(b)) : w[i] = IF i <= Len(a) THEN a[i] ELSE b[i - Len(a)]
  BY <1>1, ConcatProperties, Zenon
<1> HIDE DEF w
<1>3. ASSUME NEW i \in 1..Len(w)
      PROVE  (IsMark(i) => w[i] \in M) /\ (~IsMark(i) => w[i] \in S)
  <2>1. i \in 1..(Len(a) + Len(b)) /\ i \in Nat
    BY <1>1, <1>2
  <2>2. CASE i <= Len(a)
    <3>1. i \in 1..Len(a) /\ w[i] = a[i]
      BY <1>1, <1>2, <2>1, <2>2
    <3> QED BY <3>1 DEF MadeOf
  <2>3. CASE ~(i <= Len(a))
    <3> DEFINE j == i - Len(a)
    <3>1. j \in 1..Len(b) /\ w[i] = b[j] /\ i = Len(a) + j /\ j \in Nat
      BY <1>1, <1>2, <2>1, <2>3
    <3> HIDE DEF j
    <3>2. CASE Len(a) % 2 = 0 /\ MadeOf(b, M, S)
      <4>1. i % 2 = j % 2
        BY <1>1, <3>1, <3>2, Parity
      <4>2. IsMark(i) <=> IsMark(j)
        BY <4>1 DEF IsMark
      <4> QED BY <3>1, <3>2, <4>2 DEF MadeOf
    <3>3. CASE Len(a) % 2 = 1 /\ MadeOf(b, S, M)
      <4>1. i % 2 = 1 <=> j % 2 # 1
        BY <1>1, <3>1, <3>3, Parity
      <4>2. IsMark(i) <=> ~IsMark(j)
        BY <4>1 DEF IsMark
      <4> QED BY <3>1, <3>3, <4>2 DEF MadeOf
    <3> QED BY <3>2, <3>3
  <2> QED BY <2>2, <2>3
<1> QED BY <1>2, <1>3 DEF MadeOf, w

(* A pulse protocol whose marks are of M and whose spaces of S.            *)
Of(P, M, S) ==
    /\ IsPulse(P)
    /\ P.mark[1] \in M /\ P.mark[2] \in M /\ P.space[1] \in S /\ P.space[2] \in S

LEMMA BodyMadeOf ==
    ASSUME NEW M, NEW S, NEW P, Of(P, M, S), NEW n \in 1..MaxBits, NEW bits \in Seq({0, 1}),
           Len(bits) = n
    PROVE  MadeOf(Body(P, bits), M, S)
<1> DEFINE w == Body(P, bits)
           m == IF P.stop THEN n ELSE n - 1
<1>1. n \in Nat /\ n > 0
  BY DEF MaxBits
<1>2. IsPulse(P) /\ P.stop \in BOOLEAN
  BY Zenon DEF Of, IsPulse
<1>3. /\ w \in Seq(Nat) /\ Len(w) = IF P.stop THEN 2 * n + 1 ELSE 2 * n - 1
      /\ \A j \in 1..n : w[2 * j - 1] = P.mark[bits[j] + 1]
      /\ \A j \in 1..m : w[2 * j] = P.space[bits[j] + 1]
      /\ P.stop => w[2 * n + 1] = P.mark[1]
  <2>1. IsPulse(P) /\ n \in 1..MaxBits /\ bits \in Seq({0, 1}) /\ Len(bits) = n
    BY <1>2
  <2>2. /\ Body(P, bits) \in Seq(Nat)
        /\ Len(Body(P, bits)) = IF P.stop THEN 2 * n + 1 ELSE 2 * n - 1
        /\ \A j \in 1..n : Body(P, bits)[2 * j - 1] = P.mark[bits[j] + 1]
        /\ \A j \in 1..(IF P.stop THEN n ELSE n - 1) :
              Body(P, bits)[2 * j] = P.space[bits[j] + 1]
        /\ P.stop => Body(P, bits)[2 * n + 1] = P.mark[1]
    BY <2>1, BodyWidths, Zenon
  <2> QED BY <2>2, Zenon
<1> HIDE DEF w
<1>4. ASSUME NEW j \in 1..n
      PROVE  P.mark[bits[j] + 1] \in M /\ P.space[bits[j] + 1] \in S
  <2>1. bits[j] \in {0, 1}
    BY ElementOfSeq
  <2>2. CASE bits[j] = 0
    <3>1. bits[j] + 1 = 1
      BY <2>2
    <3> QED BY <3>1 DEF Of
  <2>3. CASE bits[j] = 1
    <3>1. bits[j] + 1 = 2
      BY <2>3
    <3> QED BY <3>1 DEF Of
  <2> QED BY <2>1, <2>2, <2>3
<1>5. ASSUME NEW i \in 1..Len(w)
      PROVE  (IsMark(i) => w[i] \in M) /\ (~IsMark(i) => w[i] \in S)
  <2>1. i \in Nat /\ i >= 1 /\ i <= 2 * n + 1 /\ (i = 2 * n + 1 => P.stop)
    BY <1>1, <1>2, <1>3
  <2>2. CASE IsMark(i)
    <3>1. PICK j \in Nat : i = 2 * j - 1
      <4>1. i % 2 = 1
        BY <2>2 DEF IsMark
      <4>2. i = 2 * ((i + 1) \div 2) - 1 /\ ((i + 1) \div 2) \in Nat
        BY <2>1, <4>1
      <4> QED BY <4>2
    <3>2. CASE j <= n
      <4>1. j \in 1..n
        BY <1>1, <2>1, <3>1, <3>2
      <4>2. w[2 * j - 1] = P.mark[bits[j] + 1]
        BY <1>3, <4>1
      <4> QED BY <1>4, <2>2, <3>1, <4>1, <4>2
    <3>3. CASE ~(j <= n)
      <4>1. i = 2 * n + 1
        BY <1>1, <2>1, <3>1, <3>3
      <4> QED BY <1>3, <2>1, <2>2, <4>1 DEF Of
    <3> QED BY <3>2, <3>3
  <2>3. CASE ~IsMark(i)
    <3>1. PICK j \in Nat : i = 2 * j
      <4>1. i % 2 # 1
        BY <2>3 DEF IsMark
      <4>2. i = 2 * (i \div 2) /\ (i \div 2) \in Nat
        BY <2>1, <4>1
      <4> QED BY <4>2
    <3>2. j \in 1..m /\ j \in 1..n
      <4>1. i <= (IF P.stop THEN 2 * n + 1 ELSE 2 * n - 1)
        BY <1>3
      <4>2. CASE P.stop
        BY <1>1, <2>1, <3>1, <4>1, <4>2
      <4>3. CASE ~P.stop
        BY <1>1, <2>1, <3>1, <4>1, <4>3
      <4> QED BY <4>2, <4>3
    <3> HIDE DEF m
    <3>3. w[2 * j] = P.space[bits[j] + 1]
      BY <1>3, <3>2
    <3> QED BY <1>4, <2>3, <3>1, <3>2, <3>3
  <2> QED BY <2>2, <2>3
<1> QED BY <1>3, <1>5 DEF MadeOf, w

LEMMA LineMadeOf ==
    ASSUME NEW M, NEW S, NEW P, Of(P, M, S), P.header \in M, P.gap \in S,
           NEW n \in 1..MaxBits, NEW bits \in Seq({0, 1}), Len(bits) = n
    PROVE  MadeOf(WithHeader(P, bits), M, S)
<1> DEFINE h == <<P.header, P.gap>>
<1>1. MadeOf(h, M, S) /\ Len(h) % 2 = 0
  <2>1. h \in Seq(Nat) /\ Len(h) = 2 /\ h[1] = P.header /\ h[2] = P.gap
    BY DEF Of, IsPulse
  <2> HIDE DEF h
  <2>2. ASSUME NEW i \in 1..Len(h)
        PROVE  (IsMark(i) => h[i] \in M) /\ (~IsMark(i) => h[i] \in S)
    <3>1. i = 1 \/ i = 2
      BY <2>1
    <3>2. IsMark(1) /\ ~IsMark(2)
      BY DEF IsMark
    <3> QED BY <2>1, <3>1, <3>2
  <2>3. Len(h) % 2 = 0
    BY <2>1
  <2> QED BY <2>1, <2>2, <2>3 DEF MadeOf
<1>2. MadeOf(Body(P, bits), M, S)
  BY BodyMadeOf
<1> HIDE DEF h
<1>3. MadeOf(h \o Body(P, bits), M, S)
  BY <1>1, <1>2, JoinMadeOf
<1> QED BY <1>3 DEF WithHeader, h

-------------------------------------------------------------------------------
(* Its frames. *)

(* A frame begins with a mark, as the line does and what follows a gap.    *)
LEMMA PieceBegins ==
    ASSUME NEW M, NEW S, NEW w, MadeOf(w, M, S), NEW f, NEW l, Piece(w, f, l)
    PROVE  IsMark(f) /\ w[f] \in M /\ Len(w) \in Nat
<1>1. f \in 1..Len(w) /\ (f = 1 \/ ~IsMark(f - 1))
  BY DEF Piece, LongGap
<1>2. Len(w) \in Nat
  BY LenProperties DEF MadeOf
<1>3. IsMark(f)
  BY <1>1, <1>2 DEF IsMark
<1> QED BY <1>1, <1>2, <1>3 DEF MadeOf

(* Without a gap the frame is the line.                                    *)
LEMMA NoGaps ==
    ASSUME NEW M, NEW S, \A s \in S : s \in Nat /\ s <= 4500, NEW w, MadeOf(w, M, S),
           NEW f, NEW l, Piece(w, f, l)
    PROVE  f = 1 /\ l = Len(w)
<1>1. \A i : ~LongGap(w, i)
  <2> SUFFICES ASSUME NEW i, LongGap(w, i) PROVE FALSE
    OBVIOUS
  <2>1. w[i] \in S /\ w[i] >= 5500
    BY DEF LongGap, MadeOf
  <2> QED BY <2>1
<1> QED BY <1>1 DEF Piece

-------------------------------------------------------------------------------
(* What no decoder but that of the hash takes. *)

LEMMA TooShort ==
    ASSUME NEW at, NEW rawlen \in Nat
    PROVE  /\ rawlen < 26 => DecodeSony(at, rawlen) = {}
           /\ rawlen < 13 => DecodeRC5(at, rawlen) = {}
           /\ rawlen > 4 /\ rawlen < 68 => DecodeNEC(at, rawlen) = {}
           /\ rawlen < 68 => DecodeSamsung(at, rawlen) = {}
           /\ rawlen # 34 /\ rawlen < 65 => DecodeJVC(at, rawlen) = {}
<1>1. ASSUME rawlen < 26 PROVE DecodeSony(at, rawlen) = {}
  <2>1. ~(rawlen >= 26)
    BY <1>1
  <2> QED BY <2>1 DEF DecodeSony
<1>2. ASSUME rawlen < 13 PROVE DecodeRC5(at, rawlen) = {}
  <2>1. ~(rawlen >= 13)
    BY <1>2
  <2> QED BY <2>1, Zenon DEF DecodeRC5, Succeeds
<1>3. ASSUME rawlen > 4, rawlen < 68 PROVE DecodeNEC(at, rawlen) = {}
  <2>1. rawlen # 4 /\ ~(rawlen >= 68)
    BY <1>3
  <2> QED BY <2>1, Zenon DEF DecodeNEC, Succeeds
<1>4. ASSUME rawlen < 68 PROVE DecodeSamsung(at, rawlen) = {}
  <2>1. ~(rawlen >= 68)
    BY <1>4
  <2> QED BY <2>1, Zenon DEF DecodeSamsung, Succeeds
<1>5. ASSUME rawlen # 34, rawlen < 65 PROVE DecodeJVC(at, rawlen) = {}
  <2>1. rawlen - 1 # 33 /\ ~(rawlen >= 65)
    BY <1>5
  <2> QED BY <2>1, Zenon DEF DecodeJVC, Succeeds
<1> QED BY <1>1, <1>2, <1>3, <1>4, <1>5

(* The first mark decides for most of them.                                *)
LEMMA WrongMark ==
    ASSUME NEW at, NEW rawlen \in Nat
    PROVE  /\ ~MATCH_MARK(at[1], 9000) => DecodeNEC(at, rawlen) = {}
           /\ ~MATCH_MARK(at[1], 2400) => DecodeSony(at, rawlen) = {}
           /\ ~MATCH_MARK(at[1], 4500) => DecodeSamsung(at, rawlen) = {}
           /\ ~MATCH_MARK(at[1], 2666) => DecodeRC6(at, rawlen) = {}
           /\ ~MATCH_MARK(at[1], 8000) /\ (rawlen # 34 \/ ~MATCH_MARK(at[1], 600)) =>
                 DecodeJVC(at, rawlen) = {}
           /\ ~MATCH_MARK(at[1], 3502) => DecodePanasonic(at, rawlen) = {}
<1>0. /\ NEC.header = 9000 /\ SONY.header = 2400 /\ SAMSUNG.header = 4500
      /\ RC6_HDR_MARK = 2666 /\ JVC.header = 8000 /\ JVC.mark[1] = 600
      /\ PANASONIC.header = 3502
  <2>1. JVC.header = 8000 /\ PANASONIC.header = 3502
    BY DEF JVC, PANASONIC, Pulse
  <2> QED BY <2>1, PulseFields, JVCFields DEF RC6_HDR_MARK
<1>1. ASSUME ~MATCH_MARK(at[1], 9000) PROVE DecodeNEC(at, rawlen) = {}
  BY <1>0, <1>1 DEF DecodeNEC, Succeeds
<1>2. ASSUME ~MATCH_MARK(at[1], 2400) PROVE DecodeSony(at, rawlen) = {}
  BY <1>0, <1>2, NoHeader
<1>3. ASSUME ~MATCH_MARK(at[1], 4500) PROVE DecodeSamsung(at, rawlen) = {}
  BY <1>0, <1>3 DEF DecodeSamsung, Succeeds
<1>4. ASSUME ~MATCH_MARK(at[1], 2666) PROVE DecodeRC6(at, rawlen) = {}
  BY <1>0, <1>4, NoHeader
<1>5. ASSUME ~MATCH_MARK(at[1], 8000), rawlen # 34 \/ ~MATCH_MARK(at[1], 600)
      PROVE  DecodeJVC(at, rawlen) = {}
  <2>1. ~(rawlen - 1 = 33 /\ IsRepeatJVC(at, rawlen - 1))
    BY <1>0, <1>5 DEF IsRepeatJVC
  <2> QED BY <1>0, <1>5, <2>1 DEF DecodeJVC, Succeeds
<1>6. ASSUME ~MATCH_MARK(at[1], 3502) PROVE DecodePanasonic(at, rawlen) = {}
  BY <1>0, <1>6 DEF DecodePanasonic, Succeeds
<1> QED BY <1>1, <1>2, <1>3, <1>4, <1>5, <1>6

(* The levels up to an entry are some of all levels.                       *)
LEMMA PlacesGrow ==
    ASSUME NEW at, NEW from, NEW rawlen \in Nat \ {0}, NEW t1, NEW d, NEW p,
           LevelsStand(d, p, at, from, rawlen, t1), NEW k \in 0..(rawlen - 1)
    PROVE  p[k] <= Len(d)
<1> DEFINE n == (rawlen - 1) - k
           S == {j \in 0..n : p[k] <= p[k + j]}
<1>1. /\ p \in [0..(rawlen - 1) -> Nat] /\ p[rawlen - 1] = Len(d)
      /\ \A i \in 1..(rawlen - 1) : p[i] = p[i - 1] + (IF i < from THEN 0 ELSE Avail(at, i, t1))
  BY DEF LevelsStand
<1>2. n \in Nat /\ k \in Nat /\ k + n = rawlen - 1
  OBVIOUS
<1> HIDE DEF n
<1>3. 0 \in S
  <2>1. k + 0 = k /\ p[k] \in Nat /\ 0 \in 0..n
    BY <1>1, <1>2
  <2> QED BY <2>1
<1>4. ASSUME NEW j \in 0..(n - 1), j \in S PROVE j + 1 \in S
  <2>1. j + 1 \in 0..n /\ k + (j + 1) \in 1..(rawlen - 1) /\ (k + (j + 1)) - 1 = k + j
        /\ k + j \in 0..(rawlen - 1)
    BY <1>2
  <2>2. Avail(at, k + (j + 1), t1) \in Nat
    BY LeastFit
  <2>3. p[k + (j + 1)] = p[k + j] + (IF k + (j + 1) < from THEN 0 ELSE Avail(at, k + (j + 1), t1))
    BY <1>1, <2>1
  <2>4. p[k + j] \in Nat /\ p[k] \in Nat /\ p[k] <= p[k + j]
    BY <1>1, <1>4, <2>1
  <2>5. p[k + j] <= p[k + (j + 1)]
    BY <2>2, <2>3, <2>4
  <2>6. p[k + (j + 1)] \in Nat
    BY <1>1, <2>1
  <2> QED BY <2>1, <2>4, <2>5, <2>6
<1> HIDE DEF S
<1>5. n \in S
  <2>1. 0..n \subseteq S
    BY <1>2, <1>3, <1>4, SetInduction
  <2> QED BY <1>2, <2>1
<1> QED BY <1>1, <1>2, <1>5 DEF S

(* The first entry of RC5 stands for one level, and that of RC6 behind the *)
(* header as well, or the second level is of the wrong kind.               *)
LEMMA SecondLevel ==
    ASSUME NEW at, NEW rawlen \in Nat, NEW t1, NEW from \in {1, 3}, from < rawlen,
           Avail(at, from, t1) > 1
    PROVE  Level(Levels(at, from, rawlen, t1), 2)
<1> DEFINE d == Levels(at, from, rawlen, t1)
<1>0. rawlen \in Nat \ {0} /\ from \in Nat \ {0} /\ IsMark(from) = TRUE
  BY DEF IsMark
<1>1. d \in Seq(BOOLEAN)
  BY <1>0, LevelsPlaces
<1>2. PICK p : LevelsStand(d, p, at, from, rawlen, t1)
  BY <1>0, LevelsPlaces
<1> HIDE DEF d
<1>3. /\ p \in [0..(rawlen - 1) -> Nat] /\ p[0] = 0
      /\ \A k \in 1..(rawlen - 1) :
            p[k] = p[k - 1] + (IF k < from THEN 0 ELSE Avail(at, k, t1))
      /\ \A k \in from..(rawlen - 1) : \A u \in 1..Avail(at, k, t1) :
            d[p[k - 1] + u] = IsMark(k)
  BY <1>2 DEF LevelsStand
<1>4. p[from - 1] = 0
  <2>1. CASE from = 1
    <3>1. from - 1 = 0
      BY <2>1
    <3> QED BY <1>3, <3>1
  <2>2. CASE from = 3
    <3>1. 1 \in 1..(rawlen - 1) /\ 2 \in 1..(rawlen - 1) /\ 1 < from /\ 2 < from
      BY <2>2
    <3>2. p[1] = p[1 - 1] + 0 /\ p[2] = p[2 - 1] + 0
      BY <1>3, <3>1
    <3>3. 1 - 1 = 0 /\ 2 - 1 = 1 /\ from - 1 = 2
      BY <2>2
    <3> QED BY <1>3, <3>2, <3>3
  <2> QED BY <2>1, <2>2
<1>5. from \in from..(rawlen - 1) /\ 2 \in 1..Avail(at, from, t1)
  <2>1. Avail(at, from, t1) \in Nat
    BY LeastFit
  <2> QED BY <1>0, <2>1
<1>6. d[p[from - 1] + 2] = IsMark(from)
  BY <1>3, <1>5
<1>7. d[2] = TRUE
  <2>1. p[from - 1] + 2 = 2
    BY <1>4
  <2> QED BY <1>0, <1>6, <2>1, Zenon
<1>8. 2 <= Len(d)
  <2>1. Len(d) \in Nat
    BY <1>1, LenProperties
  <2>2. p[from] >= 2
    <3>1. from \in 1..(rawlen - 1) /\ ~(from < from)
      BY <1>0
    <3>2. p[from] = p[from - 1] + Avail(at, from, t1)
      BY <1>3, <3>1
    <3>3. Avail(at, from, t1) \in Nat
      BY LeastFit
    <3> QED BY <1>4, <3>2, <3>3
  <2>3. p[from] <= Len(d) /\ p[from] \in Nat
    <3>1. from \in 0..(rawlen - 1)
      BY <1>0
    <3> QED BY <1>0, <1>2, <1>3, <3>1, PlacesGrow
  <2> QED BY <2>1, <2>2, <2>3
<1> QED BY <1>7, <1>8 DEF Level, d
-------------------------------------------------------------------------------
(* Which leaves the hash, by what the first mark measures. *)

LEMMA NotRC5 ==
    ASSUME NEW at, NEW rawlen \in Nat, rawlen > 1,
           Avail(at, 1, RC5_T1) = 0 \/ Avail(at, 1, RC5_T1) > 1
    PROVE  DecodeRC5(at, rawlen) = {}
<1> DEFINE d == Levels(at, 1, rawlen, RC5_T1)
<1>1. CASE Avail(at, 1, RC5_T1) = 0
  <2>1. 1 \in 1..(rawlen - 1) /\ ~(Avail(at, 1, RC5_T1) > 0)
    BY <1>1
  <2>2. ~AllLevels(at, 1, rawlen, RC5_T1)
    BY <2>1, Zenon DEF AllLevels
  <2> QED BY <2>2, NoHeader
<1>2. CASE Avail(at, 1, RC5_T1) > 1
  <2>1. 1 \in {1, 3} /\ 1 < rawlen
    OBVIOUS
  <2>2. Level(d, 2)
    BY <1>2, <2>1, SecondLevel
  <2> HIDE DEF d
  <2>3. ~(AllLevels(at, 1, rawlen, RC5_T1) /\ ~Level(d, 2) /\ Level(d, 3))
    BY <2>2
  <2> QED BY <2>3, NoHeader DEF d
<1> QED BY <1>1, <1>2

(* A mark that fits no number of levels, or three.                         *)
LEMMA MarkOfLevels ==
    ASSUME NEW at, NEW i, IsMark(i), NEW t1 \in Nat
    PROVE  /\ (\A n \in 1..3 : ~MATCH_MARK(at[i], n * t1)) => Avail(at, i, t1) = 0
           /\ ~MATCH_MARK(at[i], t1) => Avail(at, i, t1) # 1
<1>1. Avail(at, i, t1) \in 0..3 /\ (Avail(at, i, t1) > 0 => Fits(at, i, t1, Avail(at, i, t1)))
  BY LeastFit
<1>2. \A n : Fits(at, i, t1, n) <=> MATCH_MARK(at[i], n * t1)
  BY DEF Fits
<1>3. ASSUME \A n \in 1..3 : ~MATCH_MARK(at[i], n * t1) PROVE Avail(at, i, t1) = 0
  <2> SUFFICES ASSUME Avail(at, i, t1) # 0 PROVE FALSE
    OBVIOUS
  <2>1. Avail(at, i, t1) \in 1..3 /\ Avail(at, i, t1) > 0
    BY <1>1
  <2> QED BY <1>1, <1>2, <1>3, <2>1, Zenon
<1>4. ASSUME ~MATCH_MARK(at[i], t1) PROVE Avail(at, i, t1) # 1
  <2> SUFFICES ASSUME Avail(at, i, t1) = 1 PROVE FALSE
    OBVIOUS
  <2>1. Fits(at, i, t1, 1)
    BY <1>1
  <2>2. 1 * t1 = t1
    OBVIOUS
  <2> QED BY <1>2, <1>4, <2>1, <2>2
<1> QED BY <1>3, <1>4

LEMMA NotRC6 ==
    ASSUME NEW at, NEW rawlen,
           ~AllLevels(at, 3, rawlen, RC6_T1) \/ Level(Levels(at, 3, rawlen, RC6_T1), 2)
    PROVE  DecodeRC6(at, rawlen) = {}
<1> DEFINE levels == Levels(at, 3, rawlen, RC6_T1)
           Taken(count) == 2 + 2 * count + (IF count > 3 THEN 2 ELSE 0)
           A(j) == Level(levels, Taken(j - 1) + 1)
           B(j) == Level(levels, Taken(j))
           Value(count) == Result("RC6", [j \in 1..count |-> IF A(j) THEN 1 ELSE 0])
           Counts == {n \in 0..Len(levels) :
                /\ MATCH_MARK(at[1], RC6_HDR_MARK)
                /\ MATCH_SPACE(at[2], RC6_HDR_SPACE)
                /\ AllLevels(at, 3, rawlen, RC6_T1)
                /\ Level(levels, 1) /\ ~Level(levels, 2)
                /\ Taken(n) >= Len(levels) /\ (n = 0 \/ Taken(n - 1) < Len(levels))
                /\ \A j \in 1..n : A(j) # B(j)
                /\ n > 3 => Level(levels, 10) = A(4) /\ Level(levels, 11) = B(4)}
<1>1. DecodeRC6(at, rawlen) = {Value(count) : count \in Counts}
  BY DEF DecodeRC6
<1>2. ~AllLevels(at, 3, rawlen, RC6_T1) \/ Level(levels, 2)
  OBVIOUS
<1> HIDE DEF levels, Taken, A, B, Value
<1>3. Counts = {}
  BY <1>2
<1> HIDE DEF Counts
<1> QED BY <1>1, <1>3

(* What each comparison of a mark takes, in ticks.                         *)
LEMMA MarkRanges ==
    ASSUME NEW t \in Nat
    PROVE  /\ MATCH_MARK(t, 9000) <=> t >= 136 /\ t <= 228
           /\ MATCH_MARK(t, 8000) <=> t >= 121 /\ t <= 203
           /\ MATCH_MARK(t, 4500) <=> t >= 69 /\ t <= 116
           /\ MATCH_MARK(t, 3502) <=> t >= 54 /\ t <= 91
           /\ MATCH_MARK(t, 2666) <=> t >= 41 /\ t <= 70
           /\ MATCH_MARK(t, 2400) <=> t >= 37 /\ t <= 63
           /\ MATCH_MARK(t, 1750) <=> t >= 27 /\ t <= 47
           /\ MATCH_MARK(t, 600) <=> t >= 10 /\ t <= 18
BY DEF MATCH_MARK, MATCH, MARK_EXCESS

LEMMA LevelRanges ==
    ASSUME NEW t \in Nat
    PROVE  /\ MATCH_MARK(t, 1 * RC5_T1) <=> t >= 14 /\ t <= 25
           /\ MATCH_MARK(t, 2 * RC5_T1) <=> t >= 28 /\ t <= 47
           /\ MATCH_MARK(t, 3 * RC5_T1) <=> t >= 41 /\ t <= 70
           /\ MATCH_MARK(t, 1 * RC6_T1) <=> t >= 8 /\ t <= 14
           /\ MATCH_MARK(t, 2 * RC6_T1) <=> t >= 14 /\ t <= 25
BY DEF MATCH_MARK, MATCH, MARK_EXCESS, RC5_T1, RC6_T1

LEMMA FirstNotRC5 ==
    ASSUME NEW at, at[1] \in Nat, NEW rawlen \in Nat, rawlen > 1,
           at[1] < 14 \/ at[1] > 47
    PROVE  DecodeRC5(at, rawlen) = {}
<1>1. IsMark(1) /\ RC5_T1 \in Nat /\ 1 * RC5_T1 = RC5_T1
  BY DEF IsMark, RC5_T1
<1>2. Avail(at, 1, RC5_T1) \in 0..3
  BY LeastFit
<1>3. ~MATCH_MARK(at[1], 1 * RC5_T1)
  BY LevelRanges
<1>4. Avail(at, 1, RC5_T1) # 1
  BY <1>1, <1>3, MarkOfLevels
<1> QED BY <1>2, <1>4, NotRC5

(* Dish and Sharp: too short for any.                                      *)
LEMMA ShortMarkNone ==
    ASSUME NEW at, at[1] \in Nat, NEW e \in 0..180, NEW rawlen \in Nat, rawlen > 1,
           MarkSeen(at[1], 245, e) \/ (MarkSeen(at[1], 400, e) /\ rawlen # 34)
    PROVE  NoneDecodes(at, rawlen)
<1>1. at[1] <= 12 /\ (at[1] < 10 \/ rawlen # 34)
  BY DEF MarkSeen, Near
<1>2. /\ ~MATCH_MARK(at[1], 9000) /\ ~MATCH_MARK(at[1], 8000) /\ ~MATCH_MARK(at[1], 4500)
      /\ ~MATCH_MARK(at[1], 3502) /\ ~MATCH_MARK(at[1], 2666) /\ ~MATCH_MARK(at[1], 2400)
      /\ rawlen # 34 \/ ~MATCH_MARK(at[1], 600)
  BY <1>1, MarkRanges
<1>3. DecodeRC5(at, rawlen) = {}
  BY <1>1, FirstNotRC5
<1> QED BY <1>2, <1>3, WrongMark DEF NoneDecodes

(* The bits of JVC without a header, if they are not sixteen.              *)
LEMMA BareNone ==
    ASSUME NEW at, NEW e \in 0..180, NEW rawlen \in Nat, rawlen > 2, rawlen # 34,
           BareBegins(at, e)
    PROVE  NoneDecodes(at, rawlen)
<1>1. at[1] \in Nat /\ at[1] <= 16
  BY DEF BareBegins, MarkSeen, Near
<1>2. /\ ~MATCH_MARK(at[1], 9000) /\ ~MATCH_MARK(at[1], 8000) /\ ~MATCH_MARK(at[1], 4500)
      /\ ~MATCH_MARK(at[1], 3502) /\ ~MATCH_MARK(at[1], 2666) /\ ~MATCH_MARK(at[1], 2400)
  BY <1>1, MarkRanges
<1>3. DecodeRC5(at, rawlen) = {}
  BY BareNotRC5
<1> QED BY <1>2, <1>3, WrongMark DEF NoneDecodes

(* A short frame of RC5.                                                   *)
LEMMA ShortRC5None ==
    ASSUME NEW at, at[1] \in Nat, NEW e \in 0..180, NEW rawlen \in Nat, rawlen < 13,
           MarkSeen(at[1], 889, e)
    PROVE  NoneDecodes(at, rawlen)
<1>1. at[1] <= 22 /\ rawlen # 34
  BY DEF MarkSeen, Near
<1>2. /\ ~MATCH_MARK(at[1], 9000) /\ ~MATCH_MARK(at[1], 8000) /\ ~MATCH_MARK(at[1], 4500)
      /\ ~MATCH_MARK(at[1], 3502) /\ ~MATCH_MARK(at[1], 2666) /\ ~MATCH_MARK(at[1], 2400)
  BY <1>1, MarkRanges
<1>3. DecodeRC5(at, rawlen) = {}
  BY TooShort
<1> QED BY <1>1, <1>2, <1>3, WrongMark DEF NoneDecodes

(* NEC, and JVC with its header, of thirty bits at most.                   *)
LEMMA LongHeaderNone ==
    ASSUME NEW at, at[1] \in Nat, NEW e \in 0..180, NEW rawlen \in Nat, rawlen > 4, rawlen < 65,
           MarkSeen(at[1], 9000, e) \/ MarkSeen(at[1], 8000, e)
    PROVE  NoneDecodes(at, rawlen)
<1>1. at[1] >= 159 /\ rawlen < 68 /\ rawlen > 1
  BY DEF MarkSeen, Near
<1>2. /\ ~MATCH_MARK(at[1], 4500) /\ ~MATCH_MARK(at[1], 3502) /\ ~MATCH_MARK(at[1], 2666)
      /\ ~MATCH_MARK(at[1], 2400) /\ ~MATCH_MARK(at[1], 600)
  BY <1>1, MarkRanges
<1>3. DecodeRC5(at, rawlen) = {}
  BY <1>1, FirstNotRC5
<1>4. DecodeNEC(at, rawlen) = {}
  BY <1>1, TooShort
<1>5. DecodeJVC(at, rawlen) = {}
  <2>1. ~(rawlen - 1 = 33 /\ IsRepeatJVC(at, rawlen - 1))
    BY <1>2, JVCFields DEF IsRepeatJVC
  <2>2. ~(rawlen >= 65)
    OBVIOUS
  <2> QED BY <2>1, <2>2 DEF DecodeJVC, Succeeds
<1> QED BY <1>2, <1>3, <1>4, <1>5, WrongMark DEF NoneDecodes

(* Samsung, of 31 bits at most: the space of its header is too long for    *)
(* that of Panasonic.                                                      *)
LEMMA ShortSamsungNone ==
    ASSUME NEW at, at[1] \in Nat, at[2] \in Nat, NEW e \in 0..180, NEW rawlen \in Nat,
           rawlen > 1, rawlen < 68, MarkSeen(at[1], 4500, e), SpaceSeen(at[2], 4500, e)
    PROVE  NoneDecodes(at, rawlen)
<1>1. at[1] >= 89 /\ at[1] <= 94 /\ at[2] >= 86
  BY DEF MarkSeen, SpaceSeen, Near
<1>2. /\ ~MATCH_MARK(at[1], 9000) /\ ~MATCH_MARK(at[1], 8000) /\ ~MATCH_MARK(at[1], 2666)
      /\ ~MATCH_MARK(at[1], 2400) /\ ~MATCH_MARK(at[1], 600) /\ ~MATCH_MARK(at[2], 1750)
  BY <1>1, MarkRanges
<1>3. DecodeRC5(at, rawlen) = {}
  BY <1>1, FirstNotRC5
<1>4. DecodeSamsung(at, rawlen) = {}
  BY TooShort
<1>5. DecodePanasonic(at, rawlen) = {}
  <2>1. PANASONIC.gap = 1750
    BY DEF PANASONIC, Pulse
  <2> QED BY <1>2, <2>1 DEF DecodePanasonic, Succeeds
<1> QED BY <1>2, <1>3, <1>4, <1>5, WrongMark DEF NoneDecodes

(* Sony, of eleven bits at most that begin with 1: RC6 takes that for two  *)
(* levels.                                                                 *)
LEMMA ShortSonyNone ==
    ASSUME NEW at, at[1] \in Nat, at[3] \in Nat, NEW e \in 0..180, NEW rawlen \in Nat,
           rawlen > 3, rawlen < 26, MarkSeen(at[1], 2400, e), MarkSeen(at[3], 1200, e)
    PROVE  NoneDecodes(at, rawlen)
<1>1. at[1] >= 48 /\ at[1] <= 52 /\ at[3] >= 24 /\ rawlen # 34 /\ rawlen > 1
  BY DEF MarkSeen, Near
<1>2. /\ ~MATCH_MARK(at[1], 9000) /\ ~MATCH_MARK(at[1], 8000) /\ ~MATCH_MARK(at[1], 4500)
      /\ ~MATCH_MARK(at[1], 3502) /\ ~MATCH_MARK(at[3], 1 * RC6_T1)
  BY <1>1, MarkRanges, LevelRanges
<1>3. DecodeRC5(at, rawlen) = {}
  BY <1>1, FirstNotRC5
<1>4. DecodeSony(at, rawlen) = {}
  BY TooShort
<1>5. DecodeRC6(at, rawlen) = {}
  <2> DEFINE d == Levels(at, 3, rawlen, RC6_T1)
  <2>1. IsMark(3) /\ RC6_T1 \in Nat /\ 1 * RC6_T1 = RC6_T1 /\ 3 \in {1, 3} /\ 3 < rawlen
        /\ 3 \in 3..(rawlen - 1)
    BY DEF IsMark, RC6_T1
  <2>2. Avail(at, 3, RC6_T1) \in 0..3 /\ Avail(at, 3, RC6_T1) # 1
    <3>1. ~MATCH_MARK(at[3], RC6_T1)
      BY <1>2, <2>1
    <3> QED BY <2>1, <3>1, LeastFit, MarkOfLevels
  <2>3. ~AllLevels(at, 3, rawlen, RC6_T1) \/ Level(d, 2)
    <3>1. CASE Avail(at, 3, RC6_T1) > 1
      BY <2>1, <3>1, SecondLevel
    <3>2. AllLevels(at, 3, rawlen, RC6_T1) => Avail(at, 3, RC6_T1) > 0
      BY <2>1 DEF AllLevels
    <3> QED BY <2>2, <3>1, <3>2
  <2> QED BY <2>3, NotRC6
<1> QED BY <1>1, <1>2, <1>3, <1>4, <1>5, WrongMark DEF NoneDecodes

-------------------------------------------------------------------------------
(* What is received of a line.                                             *)
HeardOf(w, f, r) ==
    \E e \in 0..180, up \in SUBSET Nat : \E entries, junk :
        /\ RecordedAt(entries, w, f, e, up)
        /\ r \in FirstOf(Attempts(Buffer(entries, junk), Len(entries) + 1))

Received(w, f, l, e, at, rawlen, r) ==
    /\ Piece(w, f, l) /\ InBuffer(at, rawlen, w, f, l, e)
    /\ r \in FirstOf(Attempts(at, rawlen))
    /\ NoneDecodes(at, rawlen) => Hashed(w, f, r)

IsReceived(w, f, r) ==
    \E e \in 0..180 : \E l, at, rawlen : Received(w, f, l, e, at, rawlen, r)

LEMMA ReceivedIs ==
    ASSUME NEW M, NEW S, Marks(M), Spaces(S), NEW w, MadeOf(w, M, S),
           NEW f, NEW r, HeardOf(w, f, r)
    PROVE  IsReceived(w, f, r)
<1>1. PICK e \in 0..180, up \in SUBSET Nat :
         \E entries, junk :
            /\ RecordedAt(entries, w, f, e, up)
            /\ r \in FirstOf(Attempts(Buffer(entries, junk), Len(entries) + 1))
  BY Zenon DEF HeardOf
<1>2. PICK entries, junk :
         /\ RecordedAt(entries, w, f, e, up)
         /\ r \in FirstOf(Attempts(Buffer(entries, junk), Len(entries) + 1))
  BY <1>1
<1> DEFINE at == Buffer(entries, junk)
           rawlen == Len(entries) + 1
<1>3. PICK l : Piece(w, f, l) /\ InBuffer(at, rawlen, w, f, l, e)
  BY <1>2, PieceOf
<1>4. r \in FirstOf(Attempts(at, rawlen))
  BY <1>2
<1> HIDE DEF at, rawlen
<1>5. ASSUME NoneDecodes(at, rawlen) PROVE Hashed(w, f, r)
  <2>1. r \in DecodeHash(at, rawlen)
    BY <1>4, <1>5, OnlyHash
  <2> QED BY <1>3, <2>1, HashIs
<1>6. Received(w, f, l, e, at, rawlen, r)
  BY <1>3, <1>4, <1>5 DEF Received
<1> QED BY <1>6 DEF IsReceived

(* Entries of a frame that is the line.                                    *)
LEMMA EntryOf ==
    ASSUME NEW at, NEW rawlen, NEW w, NEW f, NEW l, f = 1, l \in Nat, NEW e,
           InBuffer(at, rawlen, w, f, l, e), NEW i \in 1..l, i <= 75
    PROVE  /\ at[i] \in Nat
           /\ IsMark(i) => MarkSeen(at[i], w[i], e)
           /\ ~IsMark(i) => SpaceSeen(at[i], w[i], e)
<1>1. l - f + 1 = l /\ i \in 1..Kept(l) /\ f + i - 1 = i
  BY DEF Kept
<1>2. \A j \in 1..Kept(l) :
          /\ at[j] \in Nat
          /\ IsMark(j) => MarkSeen(at[j], w[f + j - 1], e)
          /\ ~IsMark(j) => SpaceSeen(at[j], w[f + j - 1], e)
  BY <1>1 DEF InBuffer
<1> QED BY <1>1, <1>2

(* A line with a header and no gap.                                        *)
LineLength(P, n) == IF P.stop THEN 2 * n + 3 ELSE 2 * n + 1
IsLineOf(w, P, bits, n) ==
    /\ w \in Seq(Nat) /\ Len(w) = LineLength(P, n)
    /\ w[1] = P.header /\ w[2] = P.gap
    /\ \A j \in 1..n : w[2 * j + 1] = P.mark[bits[j] + 1]
    /\ \A j \in 1..(IF P.stop THEN n ELSE n - 1) : w[2 * j + 2] = P.space[bits[j] + 1]

LEMMA LineIs ==
    ASSUME NEW P, IsPulse(P), NEW n \in 1..MaxBits, NEW bits \in Seq({0, 1}), Len(bits) = n
    PROVE  IsLineOf(WithHeader(P, bits), P, bits, n)
BY LineWidths, ZenonT(30) DEF IsLineOf, LineLength

HeaderHeard(P, bits, m, f, r, e, at, rawlen) ==
    /\ Holds(at, P, bits, m, e)
    /\ r \in FirstOf(Attempts(at, rawlen))
    /\ NoneDecodes(at, rawlen) => Hashed(WithHeader(P, bits), f, r)

IsHeaderHeard(P, bits, n, m, f, r) ==
    \E e \in 0..180 : \E at : HeaderHeard(P, bits, m, f, r, e, at, Kept(LineLength(P, n)) + 1)

LEMMA HeaderReceived ==
    ASSUME NEW M, NEW S, Marks(M), Spaces(S), \A s \in S : s <= 4500,
           NEW P, Of(P, M, S), P.header \in M, P.gap \in S,
           NEW n \in 1..MaxBits, NEW bits \in Seq({0, 1}), Len(bits) = n,
           NEW f, NEW r, HeardOf(WithHeader(P, bits), f, r),
           NEW m \in 1..n, m <= 32
    PROVE  IsHeaderHeard(P, bits, n, m, f, r)
<1> DEFINE w == WithHeader(P, bits)
<1>1. MadeOf(w, M, S)
  BY LineMadeOf
<1>2. IsPulse(P) /\ P.stop \in BOOLEAN
  BY Zenon DEF Of, IsPulse
<1>3. IsLineOf(w, P, bits, n)
  BY <1>2, LineIs
<1>4. HeardOf(w, f, r)
  OBVIOUS
<1> HIDE DEF w
<1>e. /\ \A j \in 1..n : w[2 * j + 1] = P.mark[bits[j] + 1]
      /\ \A j \in 1..(IF P.stop THEN n ELSE n - 1) : w[2 * j + 2] = P.space[bits[j] + 1]
  BY <1>3, Zenon DEF IsLineOf
<1>a. IsReceived(w, f, r)
  BY <1>1, <1>4, ReceivedIs
<1>b. PICK e \in 0..180 : \E l, at, rawlen : Received(w, f, l, e, at, rawlen, r)
  BY <1>a DEF IsReceived
<1>5. PICK l, at, rawlen : Received(w, f, l, e, at, rawlen, r)
  BY <1>b
<1>6. Piece(w, f, l) /\ InBuffer(at, rawlen, w, f, l, e)
  BY <1>5 DEF Received
<1>7. f = 1 /\ l = Len(w)
  <2>1. \A s \in S : s \in Nat /\ s <= 4500
    BY DEF Spaces, SpaceLength
  <2> QED BY <1>1, <1>6, <2>1, NoGaps
<1>8. n \in Nat /\ n > 0 /\ m \in Nat /\ m > 0 /\ m <= n /\ m <= 32
  BY DEF MaxBits
<1>9. /\ l \in Nat /\ l = LineLength(P, n) /\ l >= 2 * m + 1 /\ (P.stop => l >= 2 * m + 3)
      /\ (m < n => l >= 2 * m + 3)
  <2>1. l = LineLength(P, n)
    BY <1>3, <1>7 DEF IsLineOf
  <2>2. (P.stop => l = 2 * n + 3) /\ (~P.stop => l = 2 * n + 1)
    BY <2>1 DEF LineLength
  <2>3. CASE P.stop
    BY <1>8, <2>1, <2>2, <2>3
  <2>4. CASE ~P.stop
    BY <1>8, <2>1, <2>2, <2>4
  <2> QED BY <2>3, <2>4
<1>10. rawlen = Kept(LineLength(P, n)) + 1
  <2>1. l - f + 1 = l
    BY <1>7, <1>9
  <2> QED BY <1>6, <1>9, <2>1 DEF InBuffer
<1>11. Holds(at, P, bits, m, e)
  <2>1. ASSUME NEW i \in Nat, i >= 1, i <= l, i <= 75
        PROVE  /\ at[i] \in Nat
               /\ IsMark(i) => MarkSeen(at[i], w[i], e)
               /\ ~IsMark(i) => SpaceSeen(at[i], w[i], e)
    <3>1. i \in 1..l
      BY <1>9, <2>1
    <3> QED BY <1>6, <1>7, <1>9, <2>1, <3>1, EntryOf
  <2>2. at[1] \in Nat /\ MarkSeen(at[1], P.header, e) /\ at[2] \in Nat /\ SpaceSeen(at[2], P.gap, e)
    <3>1. IsMark(1) /\ ~IsMark(2) /\ 1 <= l /\ 2 <= l
      BY <1>8, <1>9 DEF IsMark
    <3>2. w[1] = P.header /\ w[2] = P.gap
      BY <1>3 DEF IsLineOf
    <3> QED BY <2>1, <3>1, <3>2
  <2>3. ASSUME NEW j \in 1..m
        PROVE  at[2 * j + 1] \in Nat /\ MarkSeen(at[2 * j + 1], P.mark[bits[j] + 1], e)
    <3> DEFINE i == 2 * j + 1
    <3>1. j \in 1..n /\ i \in Nat /\ i >= 1 /\ i <= l /\ i <= 75 /\ IsMark(i)
      BY <1>8, <1>9 DEF IsMark
    <3>2. w[i] = P.mark[bits[j] + 1]
      BY <1>e, <3>1
    <3> HIDE DEF i
    <3>3. at[i] \in Nat /\ MarkSeen(at[i], P.mark[bits[j] + 1], e)
      BY <2>1, <3>1, <3>2
    <3> QED BY <3>3 DEF i
  <2>4. ASSUME NEW j \in 1..(IF P.stop THEN m ELSE m - 1)
        PROVE  at[2 * j + 2] \in Nat /\ SpaceSeen(at[2 * j + 2], P.space[bits[j] + 1], e)
    <3> DEFINE i == 2 * j + 2
    <3>1. /\ j \in 1..(IF P.stop THEN n ELSE n - 1)
          /\ i \in Nat /\ i >= 1 /\ i <= l /\ i <= 75 /\ ~IsMark(i)
      <4>1. CASE P.stop
        BY <1>8, <1>9, <4>1 DEF IsMark
      <4>2. CASE ~P.stop
        BY <1>8, <1>9, <4>2 DEF IsMark
      <4> QED BY <1>2, <4>1, <4>2
    <3>2. w[i] = P.space[bits[j] + 1]
      BY <1>e, <3>1
    <3> HIDE DEF i
    <3>3. at[i] \in Nat /\ SpaceSeen(at[i], P.space[bits[j] + 1], e)
      BY <2>1, <3>1, <3>2
    <3> QED BY <3>3 DEF i
  <2> QED BY <2>2, <2>3, <2>4 DEF Holds
<1>12. r \in FirstOf(Attempts(at, rawlen)) /\ (NoneDecodes(at, rawlen) => Hashed(w, f, r))
  BY <1>5 DEF Received
<1>13. HeaderHeard(P, bits, m, f, r, e, at, Kept(LineLength(P, n)) + 1)
  BY <1>10, <1>11, <1>12, Zenon DEF HeaderHeard, w
<1> QED BY <1>13 DEF IsHeaderHeard

-------------------------------------------------------------------------------
(* The codes, protocol by protocol. *)

LEMMA ShiftedBits ==
    ASSUME NEW word \in Word, NEW s \in 0..32, NEW n \in 1..MaxBits
    PROVE  /\ Shifted(word, s, n) \in Seq({0, 1}) /\ Len(Shifted(word, s, n)) = n
           /\ \A j \in 1..n : s + j <= 32 => Shifted(word, s, n)[j] = word[s + j]
<1> DEFINE bit(j) == IF s + j <= 32 THEN word[s + j] ELSE 0
<1>1. n \in Nat /\ n > 0 /\ s \in Nat
  BY DEF MaxBits
<1>2. \A j \in 1..n : bit(j) \in {0, 1}
  <2> SUFFICES ASSUME NEW j \in 1..n PROVE bit(j) \in {0, 1}
    OBVIOUS
  <2>1. s + j <= 32 => s + j \in 1..32
    BY <1>1
  <2>2. \A i \in 1..32 : word[i] \in {0, 1}
    BY DEF Word
  <2> QED BY <2>1, <2>2
<1>3. Shifted(word, s, n) = [j \in 1..n |-> bit(j)]
  BY DEF Shifted
<1>4. \A j \in 1..n : s + j <= 32 => bit(j) = word[s + j]
  OBVIOUS
<1> HIDE DEF bit
<1> QED BY <1>1, <1>2, <1>3, <1>4

(* The first 32 bits of what is sent are the value.                        *)
LEMMA HoldsWord ==
    ASSUME NEW word \in Word, NEW n \in 32..MaxBits, NEW P, P.stop = TRUE, NEW at, NEW e,
           Holds(at, P, Shifted(word, 0, n), 32, e)
    PROVE  Holds(at, P, word, 32, e)
<1> DEFINE bits == Shifted(word, 0, n)
<1>1. \A j \in 1..32 : bits[j] = word[j]
  <2> SUFFICES ASSUME NEW j \in 1..32 PROVE bits[j] = word[j]
    OBVIOUS
  <2>1. j \in 1..n /\ n \in 1..MaxBits /\ 0 \in 0..32 /\ 0 + j = j /\ j <= 32
    BY DEF MaxBits
  <2> QED BY <2>1, ShiftedBits
<1>2. Holds(at, P, bits, 32, e)
  OBVIOUS
<1> HIDE DEF bits
<1> QED BY <1>1, <1>2 DEF Holds

LEMMA WordBits == ASSUME NEW word \in Word PROVE word \in Seq({0, 1}) /\ Len(word) = 32
<1>1. 32 \in 1..32
  OBVIOUS
<1> QED BY <1>1, BitsShifted

LEMMA KeptBounds ==
    ASSUME NEW n \in Nat
    PROVE  Kept(n) \in Nat /\ Kept(n) <= n /\ (n >= 67 => Kept(n) >= 67)
           /\ (n # 33 => Kept(n) # 33) /\ (n <= 75 => Kept(n) = n)
BY DEF Kept

(* When a decoder succeeds and those before it do not.                     *)
LEMMA ResultIs ==
    ASSUME NEW at, NEW rawlen, NEW r \in FirstOf(Attempts(at, rawlen)), NEW s,
           \/ DecodeNEC(at, rawlen) = {s}
           \/ DecodeNEC(at, rawlen) = {} /\ DecodeSony(at, rawlen) = {s}
           \/ /\ DecodeNEC(at, rawlen) = {} /\ DecodeSony(at, rawlen) = {}
              /\ DecodeSamsung(at, rawlen) = {s}
           \/ /\ DecodeNEC(at, rawlen) = {} /\ DecodeSony(at, rawlen) = {}
              /\ DecodeSamsung(at, rawlen) = {} /\ DecodeRC5(at, rawlen) = {s}
    PROVE  r = s
<1> DEFINE tried == Attempts(at, rawlen)
<1>1. /\ tried[1] = DecodeNEC(at, rawlen) /\ tried[2] = DecodeSony(at, rawlen)
      /\ tried[3] = DecodeSamsung(at, rawlen) /\ tried[4] = DecodeRC5(at, rawlen)
  BY AttemptsInOrder, Zenon
<1>2. r \in FirstOf(tried)
  OBVIOUS
<1> HIDE DEF tried
<1>3. ASSUME NEW i \in 1..8, tried[i] = {s}, \A m \in 1..(i - 1) : tried[m] = {}
      PROVE  r = s
  <2>1. tried[i] # {}
    BY <1>3
  <2>2. FirstOf(tried) = {s}
    BY <1>3, <2>1, FirstSucceeds
  <2> QED BY <1>2, <2>2
<1>4. CASE DecodeNEC(at, rawlen) = {s}
  <2>1. 1 \in 1..8 /\ tried[1] = {s} /\ \A m \in 1..(1 - 1) : tried[m] = {}
    BY <1>1, <1>4
  <2> QED BY <1>3, <2>1
<1>5. CASE DecodeNEC(at, rawlen) = {} /\ DecodeSony(at, rawlen) = {s}
  <2>1. 2 \in 1..8 /\ tried[2] = {s} /\ \A m \in 1..(2 - 1) : tried[m] = {}
    BY <1>1, <1>5
  <2> QED BY <1>3, <2>1
<1>6. CASE /\ DecodeNEC(at, rawlen) = {} /\ DecodeSony(at, rawlen) = {}
           /\ DecodeSamsung(at, rawlen) = {s}
  <2>1. 3 \in 1..8 /\ tried[3] = {s} /\ \A m \in 1..(3 - 1) : tried[m] = {}
    BY <1>1, <1>6
  <2> QED BY <1>3, <2>1
<1>7. CASE /\ DecodeNEC(at, rawlen) = {} /\ DecodeSony(at, rawlen) = {}
           /\ DecodeSamsung(at, rawlen) = {} /\ DecodeRC5(at, rawlen) = {s}
  <2>1. 4 \in 1..8 /\ tried[4] = {s} /\ \A m \in 1..(4 - 1) : tried[m] = {}
    BY <1>1, <1>7
  <2> QED BY <1>3, <2>1
<1> QED BY <1>4, <1>5, <1>6, <1>7

-------------------------------------------------------------------------------
(* A pulse protocol with a header whose widths the hash tells apart.       *)
Hashable(P, M, S) ==
    /\ Marks(M) /\ Spaces(S) /\ (\A s \in S : s <= 4500)
    /\ Of(P, M, S) /\ P.header \in M /\ P.gap \in S

LEMMA PulsesHashable ==
    /\ Hashable(NEC, {560, 9000}, {560, 1600, 4500})
    /\ Hashable(SAMSUNG, {560, 4500}, {600, 1600, 4500})
    /\ Hashable(JVC, {600, 8000}, {550, 1600, 4000})
    /\ Hashable(SONY, {600, 1200, 2400}, {600})
<1>1. Hashable(NEC, {560, 9000}, {560, 1600, 4500})
  <2> DEFINE M == {560, 9000}
             S == {560, 1600, 4500}
  <2>1. Marks(M) /\ Spaces(S)
    BY DEF Marks, Spaces, MarkLength, SpaceLength, Apart
  <2>2. Of(NEC, M, S) /\ NEC.header \in M
        /\ NEC.gap \in S
    BY PulseFields, PulsesArePulses DEF Of
  <2>3. \A s \in S : s <= 4500
    OBVIOUS
  <2> HIDE DEF M, S
  <2> QED BY <2>1, <2>2, <2>3 DEF Hashable, M, S
<1>2. Hashable(SAMSUNG, {560, 4500}, {600, 1600, 4500})
  <2> DEFINE M == {560, 4500}
             S == {600, 1600, 4500}
  <2>1. Marks(M) /\ Spaces(S)
    BY DEF Marks, Spaces, MarkLength, SpaceLength, Apart
  <2>2. Of(SAMSUNG, M, S) /\ SAMSUNG.header \in M
        /\ SAMSUNG.gap \in S
    BY PulseFields, PulsesArePulses DEF Of
  <2>3. \A s \in S : s <= 4500
    OBVIOUS
  <2> HIDE DEF M, S
  <2> QED BY <2>1, <2>2, <2>3 DEF Hashable, M, S
<1>3. Hashable(JVC, {600, 8000}, {550, 1600, 4000})
  <2> DEFINE M == {600, 8000}
             S == {550, 1600, 4000}
  <2>1. Marks(M) /\ Spaces(S)
    BY DEF Marks, Spaces, MarkLength, SpaceLength, Apart
  <2>2. JVC.header = 8000 /\ JVC.gap = 4000
    BY DEF JVC, Pulse
  <2>3. Of(JVC, M, S) /\ JVC.header \in M
        /\ JVC.gap \in S
    BY <2>2, JVCFields DEF Of
  <2>4. \A s \in S : s <= 4500
    OBVIOUS
  <2> HIDE DEF M, S
  <2> QED BY <2>1, <2>3, <2>4 DEF Hashable, M, S
<1>4. Hashable(SONY, {600, 1200, 2400}, {600})
  <2> DEFINE M == {600, 1200, 2400}
             S == {600}
  <2>1. Marks(M) /\ Spaces(S)
    BY DEF Marks, Spaces, MarkLength, SpaceLength, Apart
  <2>2. Of(SONY, M, S) /\ SONY.header \in M
        /\ SONY.gap \in S
    BY PulseFields, PulsesArePulses DEF Of
  <2>3. \A s \in S : s <= 4500
    OBVIOUS
  <2> HIDE DEF M, S
  <2> QED BY <2>1, <2>2, <2>3 DEF Hashable, M, S
<1> QED BY <1>1, <1>2, <1>3, <1>4

LEMMA HeaderHeardIs ==
    ASSUME NEW M, NEW S, NEW P, Hashable(P, M, S),
           NEW n \in 1..MaxBits, NEW bits \in Seq({0, 1}), Len(bits) = n,
           NEW f, NEW r, HeardOf(WithHeader(P, bits), f, r),
           NEW m \in 1..n, m <= 32
    PROVE  IsHeaderHeard(P, bits, n, m, f, r)
BY HeaderReceived DEF Hashable

LEMMA NECCode ==
    ASSUME NEW word \in Word, NEW n \in 1..MaxBits, n # 31, NEW f, NEW r,
           HeardOf(WithHeader(NEC, Shifted(word, 0, n)), f, r)
    PROVE  /\ n >= 32 => r = Result("NEC", word)
           /\ n < 32 => Hashed(WithHeader(NEC, Shifted(word, 0, n)), f, r)
<1> DEFINE bits == Shifted(word, 0, n)
           m == IF n < 32 THEN n ELSE 32
           rawlen == Kept(LineLength(NEC, n)) + 1
<1>1. n \in Nat /\ n > 0 /\ bits \in Seq({0, 1}) /\ Len(bits) = n
  <2>1. 0 \in 0..32 /\ n \in Nat /\ n > 0
    BY DEF MaxBits
  <2> QED BY <2>1, ShiftedBits
<1>2. HeardOf(WithHeader(NEC, bits), f, r)
  OBVIOUS
<1> HIDE DEF bits
<1>3. m \in 1..n /\ m <= 32
  BY <1>1
<1> HIDE DEF m
<1>4. IsHeaderHeard(NEC, bits, n, m, f, r)
  BY <1>1, <1>2, <1>3, PulsesHashable, HeaderHeardIs
<1>5. PICK e \in 0..180 : \E at : HeaderHeard(NEC, bits, m, f, r, e, at, rawlen)
  BY <1>4 DEF IsHeaderHeard
<1>6. PICK at : HeaderHeard(NEC, bits, m, f, r, e, at, rawlen)
  BY <1>5
<1>7. /\ Holds(at, NEC, bits, m, e) /\ r \in FirstOf(Attempts(at, rawlen))
      /\ NoneDecodes(at, rawlen) => Hashed(WithHeader(NEC, bits), f, r)
  BY <1>6 DEF HeaderHeard
<1>8. rawlen \in Nat /\ (n >= 32 => rawlen >= 68) /\ (n < 32 => rawlen > 4 /\ rawlen < 65)
  <2>1. LineLength(NEC, n) = 2 * n + 3
    BY PulseFields DEF LineLength
  <2> QED BY <1>1, <2>1, KeptBounds
<1> HIDE DEF rawlen
<1>9. ASSUME n >= 32 PROVE r = Result("NEC", word)
  <2>1. n \in 32..MaxBits /\ m = 32
    BY <1>1, <1>9 DEF m, MaxBits
  <2>2. Holds(at, NEC, word, 32, e)
    <3>1. NEC.stop = TRUE /\ Holds(at, NEC, Shifted(word, 0, n), 32, e)
      BY <1>7, <2>1, PulseFields DEF bits
    <3> QED BY <2>1, <3>1, HoldsWord
  <2>3. DecodeNEC(at, rawlen) = {Result("NEC", word)}
    BY <1>8, <1>9, <2>2, WordBits, NECDecodes
  <2> QED BY <1>7, <2>3, ResultIs
<1>10. ASSUME n < 32 PROVE Hashed(WithHeader(NEC, bits), f, r)
  <2>1. at[1] \in Nat /\ MarkSeen(at[1], 9000, e)
    BY <1>7, PulseFields DEF Holds
  <2>2. NoneDecodes(at, rawlen)
    BY <1>8, <1>10, <2>1, LongHeaderNone
  <2> QED BY <1>7, <2>2
<1> QED BY <1>9, <1>10 DEF bits

LEMMA SamsungCode ==
    ASSUME NEW word \in Word, NEW n \in 1..MaxBits, NEW f, NEW r,
           HeardOf(WithHeader(SAMSUNG, Shifted(word, 0, n)), f, r)
    PROVE  /\ n >= 32 => r = Result("SAMSUNG", word)
           /\ n < 32 => Hashed(WithHeader(SAMSUNG, Shifted(word, 0, n)), f, r)
<1> DEFINE bits == Shifted(word, 0, n)
           m == IF n < 32 THEN n ELSE 32
           rawlen == Kept(LineLength(SAMSUNG, n)) + 1
<1>1. n \in Nat /\ n > 0 /\ bits \in Seq({0, 1}) /\ Len(bits) = n
  <2>1. 0 \in 0..32 /\ n \in Nat /\ n > 0
    BY DEF MaxBits
  <2> QED BY <2>1, ShiftedBits
<1>2. HeardOf(WithHeader(SAMSUNG, bits), f, r)
  OBVIOUS
<1> HIDE DEF bits
<1>3. m \in 1..n /\ m <= 32
  BY <1>1
<1> HIDE DEF m
<1>4. IsHeaderHeard(SAMSUNG, bits, n, m, f, r)
  BY <1>1, <1>2, <1>3, PulsesHashable, HeaderHeardIs
<1>5. PICK e \in 0..180 : \E at : HeaderHeard(SAMSUNG, bits, m, f, r, e, at, rawlen)
  BY <1>4 DEF IsHeaderHeard
<1>6. PICK at : HeaderHeard(SAMSUNG, bits, m, f, r, e, at, rawlen)
  BY <1>5
<1>7. /\ Holds(at, SAMSUNG, bits, m, e) /\ r \in FirstOf(Attempts(at, rawlen))
      /\ NoneDecodes(at, rawlen) => Hashed(WithHeader(SAMSUNG, bits), f, r)
  BY <1>6 DEF HeaderHeard
<1>8. rawlen \in Nat /\ (n >= 32 => rawlen >= 68) /\ (n < 32 => rawlen > 1 /\ rawlen < 68)
  <2>1. LineLength(SAMSUNG, n) = 2 * n + 3
    BY PulseFields DEF LineLength
  <2> QED BY <1>1, <2>1, KeptBounds
<1> HIDE DEF rawlen
<1>9. ASSUME n >= 32 PROVE r = Result("SAMSUNG", word)
  <2>1. n \in 32..MaxBits /\ m = 32
    BY <1>1, <1>9 DEF m, MaxBits
  <2>2. Holds(at, SAMSUNG, word, 32, e)
    <3>1. SAMSUNG.stop = TRUE /\ Holds(at, SAMSUNG, Shifted(word, 0, n), 32, e)
      BY <1>7, <2>1, PulseFields DEF bits
    <3> QED BY <2>1, <3>1, HoldsWord
  <2>3. /\ DecodeNEC(at, rawlen) = {} /\ DecodeSony(at, rawlen) = {}
        /\ DecodeSamsung(at, rawlen) = {Result("SAMSUNG", word)}
    BY <1>8, <1>9, <2>2, WordBits, SamsungDecodes
  <2> QED BY <1>7, <2>3, ResultIs
<1>10. ASSUME n < 32 PROVE Hashed(WithHeader(SAMSUNG, bits), f, r)
  <2>1. at[1] \in Nat /\ MarkSeen(at[1], 4500, e) /\ at[2] \in Nat /\ SpaceSeen(at[2], 4500, e)
    BY <1>7, PulseFields DEF Holds
  <2>2. NoneDecodes(at, rawlen)
    BY <1>8, <1>10, <2>1, ShortSamsungNone
  <2> QED BY <1>7, <2>2
<1> QED BY <1>9, <1>10 DEF bits

(* JVC with its header and 32 bits passes for NEC, whose decoder is tried  *)
(* first.                                                                  *)
LEMMA JVCLikeNEC ==
    ASSUME NEW at, NEW bits \in Seq({0, 1}), Len(bits) = 32, NEW e \in 0..180,
           NEW rawlen \in Nat, rawlen >= 68, Holds(at, JVC, bits, 32, e)
    PROVE  DecodeNEC(at, rawlen) = {Result("NEC", bits)}
<1>0. JVC.header = 8000 /\ JVC.gap = 4000 /\ NEC.header = 9000 /\ NEC.gap = 4500
  <2>1. JVC.header = 8000 /\ JVC.gap = 4000
    BY DEF JVC, Pulse
  <2> QED BY <2>1, PulseFields
<1>1. MATCH_MARK(at[1], NEC.header) /\ MATCH_SPACE(at[2], NEC.gap)
  <2>1. at[1] \in Nat /\ MarkSeen(at[1], 8000, e) /\ at[2] \in Nat /\ SpaceSeen(at[2], 4000, e)
    <3>1. /\ at[1] \in Nat /\ MarkSeen(at[1], JVC.header, e)
          /\ at[2] \in Nat /\ SpaceSeen(at[2], JVC.gap, e)
      BY Zenon DEF Holds
    <3> QED BY <1>0, <3>1
  <2>2. at[1] >= 159 /\ at[1] <= 164 /\ at[2] >= 75 /\ at[2] <= 80
    <3> DEFINE t == at[1]
               u == at[2]
    <3>1. t \in Nat /\ u \in Nat /\ MarkSeen(t, 8000, e) /\ SpaceSeen(u, 4000, e)
      BY <2>1
    <3> HIDE DEF t, u
    <3>2. t >= 159 /\ t <= 164
      BY <3>1 DEF MarkSeen, Near
    <3>3. u >= 75 /\ u <= 80
      BY <3>1 DEF SpaceSeen, Near
    <3> QED BY <3>2, <3>3 DEF t, u
  <2> QED BY <1>0, <2>1, <2>2 DEF MATCH_MARK, MATCH_SPACE, MATCH, MARK_EXCESS
<1>2. Legible(JVC, NEC, e)
  <2>1. /\ NEC.mark[1] = 560 /\ NEC.space[1] = 560 /\ NEC.space[2] = 1600
        /\ JVC.mark[1] = 600 /\ JVC.mark[2] = 600 /\ JVC.space[1] = 550 /\ JVC.space[2] = 1600
    BY PulseFields, JVCFields
  <2>2. ASSUME NEW t \in Nat
        PROVE  /\ MarkSeen(t, 600, e) => MATCH_MARK(t, 560)
               /\ SpaceSeen(t, 1600, e) => MATCH_SPACE(t, 1600)
               /\ SpaceSeen(t, 550, e) => MATCH_SPACE(t, 560)
               /\ SpaceSeen(t, 550, e) => ~MATCH_SPACE(t, 1600)
    <3>1. /\ MATCH_MARK(t, 560) <=> t >= 9 /\ t <= 17
          /\ MATCH_SPACE(t, 1600) <=> t >= 22 /\ t <= 38
          /\ MATCH_SPACE(t, 560) <=> t >= 6 /\ t <= 12
      BY DEF MATCH_MARK, MATCH_SPACE, MATCH, MARK_EXCESS
    <3>2. /\ MarkSeen(t, 600, e) => t >= 12 /\ t <= 16
          /\ SpaceSeen(t, 1600, e) => t >= 28 /\ t <= 32
          /\ SpaceSeen(t, 550, e) => t >= 7 /\ t <= 11
      BY DEF MarkSeen, SpaceSeen, Near
    <3> QED BY <3>1, <3>2
  <2> QED BY <2>1, <2>2 DEF Legible
<1>3. ReadsBits(NEC, at, 3, 32) /\ BitsRead(NEC, at, 3, 32) = bits
  <2>1. JVC.stop = TRUE
    BY JVCFields
  <2>2. IsRead(NEC, at, bits)
    BY <1>2, <2>1, BitsAreRead
  <2> QED BY <2>2 DEF IsRead
<1>4. rawlen # 4
  OBVIOUS
<1> QED BY <1>1, <1>3, <1>4 DEF DecodeNEC, Succeeds

LEMMA JVCCode ==
    ASSUME NEW word \in Word, NEW n \in 1..32, n # 31, NEW f, NEW r,
           HeardOf(WithHeader(JVC, Lowest(word, n)), f, r)
    PROVE  /\ n = 32 => r = Result("NEC", word)
           /\ n < 32 => Hashed(WithHeader(JVC, Lowest(word, n)), f, r)
<1> DEFINE bits == Lowest(word, n)
           rawlen == Kept(LineLength(JVC, n)) + 1
<1>1. n \in Nat /\ n > 0 /\ bits \in Seq({0, 1}) /\ Len(bits) = n
  <2>1. bits \in Seq({0, 1}) /\ Len(bits) = n
    BY BitsShifted
  <2> QED BY <2>1
<1>2. HeardOf(WithHeader(JVC, bits), f, r)
  OBVIOUS
<1> HIDE DEF bits
<1>3. n \in 1..n /\ n <= 32
  BY <1>1
<1>m. n \in 1..MaxBits
  BY DEF MaxBits
<1>4. IsHeaderHeard(JVC, bits, n, n, f, r)
  BY <1>1, <1>2, <1>3, <1>m, PulsesHashable, HeaderHeardIs
<1>5. PICK e \in 0..180 : \E at : HeaderHeard(JVC, bits, n, f, r, e, at, rawlen)
  BY <1>4 DEF IsHeaderHeard
<1>6. PICK at : HeaderHeard(JVC, bits, n, f, r, e, at, rawlen)
  BY <1>5
<1>7. /\ Holds(at, JVC, bits, n, e) /\ r \in FirstOf(Attempts(at, rawlen))
      /\ NoneDecodes(at, rawlen) => Hashed(WithHeader(JVC, bits), f, r)
  BY <1>6 DEF HeaderHeard
<1>8. rawlen \in Nat /\ (n = 32 => rawlen >= 68) /\ (n < 32 => rawlen > 4 /\ rawlen < 65)
  <2>1. LineLength(JVC, n) = 2 * n + 3
    BY JVCFields DEF LineLength
  <2>2. n < 32 => n <= 30
    BY <1>1
  <2> QED BY <1>1, <2>1, <2>2, KeptBounds
<1> HIDE DEF rawlen
<1>9. ASSUME n = 32 PROVE r = Result("NEC", word)
  <2>1. bits = word
    <3>1. Lowest(word, 32) = Shifted(word, 0, 32)
      BY DEF Lowest
    <3>2. 32 \in 1..32
      OBVIOUS
    <3> QED BY <1>9, <3>1, <3>2, BitsShifted DEF bits
  <2>2. Holds(at, JVC, word, 32, e)
    BY <1>7, <1>9, <2>1
  <2>3. DecodeNEC(at, rawlen) = {Result("NEC", word)}
    BY <1>8, <1>9, <2>2, WordBits, JVCLikeNEC
  <2> QED BY <1>7, <2>3, ResultIs
<1>10. ASSUME n < 32 PROVE Hashed(WithHeader(JVC, bits), f, r)
  <2>1. at[1] \in Nat /\ MarkSeen(at[1], 8000, e)
    <3>1. JVC.header = 8000
      BY DEF JVC, Pulse
    <3> QED BY <1>7, <3>1 DEF Holds
  <2>2. NoneDecodes(at, rawlen)
    BY <1>8, <1>10, <2>1, LongHeaderNone
  <2> QED BY <1>7, <2>2
<1> QED BY <1>9, <1>10 DEF bits

(* Sony, of eleven bits at most, the first of them 1.                      *)
LEMMA ShortSonyCode ==
    ASSUME NEW word \in Word, NEW n \in 1..11, Lowest(word, n)[1] = 1, NEW f, NEW r,
           HeardOf(WithHeader(SONY, Lowest(word, n)), f, r)
    PROVE  Hashed(WithHeader(SONY, Lowest(word, n)), f, r)
<1> DEFINE bits == Lowest(word, n)
           rawlen == Kept(LineLength(SONY, n)) + 1
<1>1. n \in Nat /\ n > 0 /\ bits \in Seq({0, 1}) /\ Len(bits) = n /\ bits[1] = 1
  <2>1. n \in 1..32 /\ n \in Nat /\ n > 0
    OBVIOUS
  <2>2. bits \in Seq({0, 1}) /\ Len(bits) = n
    BY <2>1, BitsShifted
  <2> QED BY <2>1, <2>2
<1>2. HeardOf(WithHeader(SONY, bits), f, r)
  OBVIOUS
<1> HIDE DEF bits
<1>3. n \in 1..n /\ n <= 32 /\ 1 \in 1..n
  BY <1>1
<1>m. n \in 1..MaxBits
  BY DEF MaxBits
<1>4. IsHeaderHeard(SONY, bits, n, n, f, r)
  BY <1>1, <1>2, <1>3, <1>m, PulsesHashable, HeaderHeardIs
<1>5. PICK e \in 0..180 : \E at : HeaderHeard(SONY, bits, n, f, r, e, at, rawlen)
  BY <1>4 DEF IsHeaderHeard
<1>6. PICK at : HeaderHeard(SONY, bits, n, f, r, e, at, rawlen)
  BY <1>5
<1>7. /\ Holds(at, SONY, bits, n, e) /\ r \in FirstOf(Attempts(at, rawlen))
      /\ NoneDecodes(at, rawlen) => Hashed(WithHeader(SONY, bits), f, r)
  BY <1>6 DEF HeaderHeard
<1>8. rawlen \in Nat /\ rawlen > 3 /\ rawlen < 26
  <2> DEFINE k == LineLength(SONY, n)
  <2>1. k = 2 * n + 1
    BY PulseFields DEF LineLength
  <2> HIDE DEF k
  <2>2. k \in Nat /\ k >= 3 /\ k <= 23
    BY <1>1, <2>1
  <2>3. Kept(k) = k
    BY <2>2, KeptBounds
  <2>4. rawlen = k + 1
    BY <2>3 DEF k
  <2> QED BY <2>2, <2>4
<1> HIDE DEF rawlen
<1>9. at[1] \in Nat /\ MarkSeen(at[1], 2400, e)
  BY <1>7, PulseFields DEF Holds
<1>10. at[3] \in Nat /\ MarkSeen(at[3], 1200, e)
  <2>1. /\ at[2 * 1 + 1] \in Nat
        /\ MarkSeen(at[2 * 1 + 1], SONY.mark[bits[1] + 1], e)
    BY <1>3, <1>7, Zenon DEF Holds
  <2>2. 2 * 1 + 1 = 3 /\ bits[1] + 1 = 2 /\ SONY.mark[2] = 1200
    BY <1>1, PulseFields
  <2> QED BY <2>1, <2>2
<1>11. NoneDecodes(at, rawlen)
  BY <1>8, <1>9, <1>10, ShortSonyNone
<1> QED BY <1>7, <1>11 DEF bits

(* The widths of RC5 are one or two levels long, and the first is one.     *)
IsLineRC5(w) ==
    MadeOf(w, {889, 1778}, {889, 1778}) /\ Len(w) \in Nat /\ Len(w) > 0 /\ w[1] = 889

LEMMA RC5Line ==
    ASSUME NEW n \in 1..32, NEW bits \in Seq({0, 1}), Len(bits) = n
    PROVE  IsLineRC5(Widths(LevelsRC5(bits), RC5_T1))
<1> DEFINE levels == LevelsRC5(bits)
           w == Widths(levels, RC5_T1)
           l == 2 * n + 3
           M == {889, 1778}
<1>1. n \in Nat /\ n > 0 /\ n <= 32 /\ l \in Nat /\ l > 0 /\ l <= 67
  OBVIOUS
<1>2. SentRC5(levels, bits, n)
  BY <1>1, LevelsOfRC5
<1> HIDE DEF levels, M
<1>3. /\ levels \in Seq(BOOLEAN) /\ Len(levels) = l
      /\ levels[1] = TRUE /\ levels[2] = FALSE
  BY <1>2 DEF SentRC5
<1>4. \A i \in 1..(l - 2) : Changes(levels, i, i + 2 - 1)
  <2> SUFFICES ASSUME NEW i \in 1..(l - 2) PROVE Changes(levels, i, i + 2 - 1)
    OBVIOUS
  <2>1. i \in 1..(2 * n + 1) /\ i + 2 - 1 = i + 1 /\ n > 0
    BY <1>1
  <2>2. Changes(levels, i, i + 1)
    BY <1>1, <1>2, <2>1, RunsOfRC5
  <2> QED BY <2>1, <2>2
<1> HIDE DEF l
<1>5. PICK q, units : UnitsAre(q, units, levels, l, 2, RC5_T1)
  <2>1. RC5_T1 \in Nat /\ 2 \in Nat /\ levels[1]
    BY <1>3 DEF RC5_T1
  <2> QED BY <1>1, <1>3, <1>4, <2>1, UnitsOf
<1> DEFINE len == MarksEnd(units)
<1>6. /\ Covers(q, units, levels, l) /\ units \in Seq(Nat) /\ Len(units) \in 1..l
      /\ \A k \in 1..Len(units) : units[k] \in 1..2
      /\ w \in Seq(Nat) /\ Len(w) = len /\ len \in 1..Len(units)
      /\ \A i \in 1..len : w[i] = units[i] * RC5_T1
  BY <1>5, Zenon DEF UnitsAre, WidthsOf
<1> HIDE DEF w, len
<1>7. len \in Nat /\ len > 0 /\ len <= Len(units) /\ Len(units) \in Nat
  <2>1. Len(units) \in Nat
    BY <1>6, LenProperties
  <2> QED BY <1>6, <2>1
<1>8. \A i \in 1..len : w[i] = 889 \/ w[i] = 1778
  <2> SUFFICES ASSUME NEW i \in 1..len PROVE w[i] = 889 \/ w[i] = 1778
    OBVIOUS
  <2>1. i \in 1..Len(units)
    BY <1>7
  <2>2. units[i] \in 1..2
    BY <1>6, <2>1, Zenon
  <2>3. units[i] = 1 \/ units[i] = 2
    BY <2>2
  <2>4. w[i] = units[i] * 889
    BY <1>6 DEF RC5_T1
  <2> QED BY <2>3, <2>4
<1>9. w[1] = 889
  <2>1. 1 \in 1..len /\ 1 \in 1..Len(units) /\ 1 - 1 = 0
    BY <1>7
  <2>2. /\ q[0] = 0 /\ q[1] = q[0] + units[1]
        /\ \A i \in (q[0] + 1)..q[1] : levels[i] = IsMark(1)
    BY <1>6, <2>1 DEF Covers
  <2>3. units[1] # 2
    <3> SUFFICES ASSUME units[1] = 2 PROVE FALSE
      OBVIOUS
    <3>1. 2 \in (q[0] + 1)..q[1]
      BY <2>2
    <3>2. levels[2] = IsMark(1) /\ IsMark(1)
      BY <2>2, <3>1 DEF IsMark
    <3> QED BY <1>3, <3>2
  <2>4. units[1] \in 1..2
    BY <1>6, <2>1, Zenon
  <2>5. units[1] = 1
    BY <2>3, <2>4
  <2>6. w[1] = units[1] * 889
    BY <1>6, <2>1 DEF RC5_T1
  <2> QED BY <2>5, <2>6
<1>10. MadeOf(w, M, M)
  <2>1. 889 \in M /\ 1778 \in M
    BY DEF M
  <2>2. \A i \in 1..Len(w) : w[i] \in M
    BY <1>6, <1>8, <2>1
  <2> QED BY <1>6, <2>2 DEF MadeOf
<1> QED BY <1>6, <1>7, <1>9, <1>10 DEF IsLineRC5, M, w, levels

(* What is heard of a line without a gap.                                  *)
Whole(w, r, e, up, entries, junk) ==
    LET at == Buffer(entries, junk)
        rawlen == Len(entries) + 1
    IN /\ IsRecording(entries, w, e, up)
       /\ r \in FirstOf(Attempts(at, rawlen))
       /\ rawlen = Kept(Len(w)) + 1
       /\ at[1] \in Nat /\ MarkSeen(at[1], w[1], e)

IsWhole(w, r) ==
    \E e \in 0..180, up \in SUBSET Nat : \E entries, junk : Whole(w, r, e, up, entries, junk)

LEMMA WholeHeard ==
    ASSUME NEW M, NEW S, Marks(M), Spaces(S), \A s \in S : s <= 4500, NEW w, MadeOf(w, M, S),
           Len(w) > 0, NEW f, NEW r, HeardOf(w, f, r)
    PROVE  f = 1 /\ IsWhole(w, r)
<1>1. PICK e \in 0..180, up \in SUBSET Nat :
         \E entries, junk :
            /\ RecordedAt(entries, w, f, e, up)
            /\ r \in FirstOf(Attempts(Buffer(entries, junk), Len(entries) + 1))
  BY Zenon DEF HeardOf
<1>2. PICK entries, junk :
         /\ RecordedAt(entries, w, f, e, up)
         /\ r \in FirstOf(Attempts(Buffer(entries, junk), Len(entries) + 1))
  BY <1>1
<1> DEFINE at == Buffer(entries, junk)
           rawlen == Len(entries) + 1
<1>3. PICK l : Piece(w, f, l) /\ InBuffer(at, rawlen, w, f, l, e)
  BY <1>2, PieceOf
<1>4. r \in FirstOf(Attempts(at, rawlen))
  BY <1>2
<1>5. IsRecording(entries, w, e, up)
  BY <1>2 DEF RecordedAt, IsRecording
<1> HIDE DEF at, rawlen
<1>6. f = 1 /\ l = Len(w) /\ Len(w) \in Nat
  <2>1. \A s \in S : s \in Nat /\ s <= 4500
    BY DEF Spaces, SpaceLength
  <2>2. Len(w) \in Nat
    BY LenProperties DEF MadeOf
  <2> QED BY <1>3, <2>1, <2>2, NoGaps
<1>7. rawlen = Kept(Len(w)) + 1
  <2>1. l - f + 1 = Len(w)
    BY <1>6
  <2> QED BY <1>3, <2>1 DEF InBuffer
<1>8. at[1] \in Nat /\ MarkSeen(at[1], w[1], e)
  <2>1. 1 \in 1..l /\ 1 <= 75 /\ l \in Nat /\ IsMark(1)
    BY <1>6 DEF IsMark
  <2> QED BY <1>3, <1>6, <2>1, EntryOf
<1>9. Whole(w, r, e, up, entries, junk)
  BY <1>4, <1>5, <1>7, <1>8 DEF Whole, at, rawlen
<1> QED BY <1>6, <1>9 DEF IsWhole

LEMMA RC5Code ==
    ASSUME NEW n \in 1..32, NEW bits \in Seq({0, 1}), Len(bits) = n, NEW f, NEW r,
           HeardOf(Widths(LevelsRC5(bits), RC5_T1), f, r)
    PROVE  /\ Len(Widths(LevelsRC5(bits), RC5_T1)) >= 12 => r = Result("RC5", bits)
           /\ Len(Widths(LevelsRC5(bits), RC5_T1)) < 12 =>
                 Hashed(Widths(LevelsRC5(bits), RC5_T1), f, r)
<1> DEFINE w == Widths(LevelsRC5(bits), RC5_T1)
           M == {889, 1778}
<1>1. IsLineRC5(w)
  BY RC5Line
<1>2. HeardOf(w, f, r)
  OBVIOUS
<1>3. Marks(M) /\ Spaces(M) /\ \A s \in M : s <= 4500
  BY DEF Marks, Spaces, MarkLength, SpaceLength, Apart
<1>4. MadeOf(w, M, M) /\ Len(w) \in Nat /\ Len(w) > 0 /\ w[1] = 889
  BY <1>1 DEF IsLineRC5
<1> HIDE DEF M, w
<1>5. ASSUME Len(w) >= 12 PROVE r = Result("RC5", bits)
  <2>1. IsWhole(w, r)
    BY <1>2, <1>3, <1>4, WholeHeard
  <2>2. PICK e \in 0..180, up \in SUBSET Nat :
           \E entries, junk : Whole(w, r, e, up, entries, junk)
    BY <2>1, Zenon DEF IsWhole
  <2>3. PICK entries, junk : Whole(w, r, e, up, entries, junk)
    BY <2>2
  <2> DEFINE at == Buffer(entries, junk)
             rawlen == Len(entries) + 1
  <2>4. /\ IsRecording(entries, w, e, up) /\ r \in FirstOf(Attempts(at, rawlen))
        /\ rawlen = Kept(Len(w)) + 1
    BY <2>3, Zenon DEF Whole
  <2>5. rawlen >= 13
    <3>1. Kept(Len(w)) >= 12 /\ Kept(Len(w)) \in Nat
      BY <1>4, <1>5 DEF Kept
    <3> QED BY <2>4, <3>1
  <2>6. IsRecording(entries, Widths(LevelsRC5(bits), RC5_T1), e, up)
    BY <2>4 DEF w
  <2>7. /\ DecodeNEC(at, rawlen) = {} /\ DecodeSony(at, rawlen) = {}
        /\ DecodeSamsung(at, rawlen) = {} /\ DecodeRC5(at, rawlen) = {Result("RC5", bits)}
    BY <2>5, <2>6, RC5Received
  <2> HIDE DEF at, rawlen
  <2> QED BY <2>4, <2>7, ResultIs
<1>6. ASSUME Len(w) < 12 PROVE Hashed(w, f, r)
  <2>1. IsReceived(w, f, r)
    BY <1>2, <1>3, <1>4, ReceivedIs
  <2>2. PICK e \in 0..180 : \E l, at, rawlen : Received(w, f, l, e, at, rawlen, r)
    BY <2>1 DEF IsReceived
  <2>3. PICK l, at, rawlen : Received(w, f, l, e, at, rawlen, r)
    BY <2>2
  <2>4. Piece(w, f, l) /\ InBuffer(at, rawlen, w, f, l, e)
        /\ (NoneDecodes(at, rawlen) => Hashed(w, f, r))
    BY <2>3 DEF Received
  <2>5. f = 1 /\ l = Len(w)
    <3>1. \A s \in M : s \in Nat /\ s <= 4500
      BY <1>3 DEF Spaces, SpaceLength
    <3> QED BY <1>4, <2>4, <3>1, NoGaps
  <2>6. rawlen \in Nat /\ rawlen < 13
    <3>1. l - f + 1 = Len(w) /\ Kept(Len(w)) = Len(w)
      BY <1>4, <1>6, <2>5 DEF Kept
    <3> QED BY <1>4, <1>6, <2>4, <3>1 DEF InBuffer
  <2>7. at[1] \in Nat /\ MarkSeen(at[1], 889, e)
    <3>1. 1 \in 1..l /\ 1 <= 75 /\ l \in Nat /\ IsMark(1)
      BY <1>4, <2>5 DEF IsMark
    <3> QED BY <1>4, <2>4, <2>5, <3>1, EntryOf
  <2>8. NoneDecodes(at, rawlen)
    BY <2>6, <2>7, ShortRC5None
  <2> QED BY <2>4, <2>8
<1> QED BY <1>5, <1>6 DEF w

(* The first entry of a frame.                                             *)
LEMMA FirstEntry ==
    ASSUME NEW M, NEW S, NEW w, MadeOf(w, M, S), NEW f, NEW l, Piece(w, f, l),
           NEW e, NEW at, NEW rawlen, InBuffer(at, rawlen, w, f, l, e)
    PROVE  /\ rawlen \in Nat /\ rawlen > 1
           /\ at[1] \in Nat /\ MarkSeen(at[1], w[f], e) /\ w[f] \in M
<1>1. w[f] \in M /\ Len(w) \in Nat
  BY PieceBegins
<1>2. f \in 1..Len(w) /\ l \in f..Len(w)
  BY DEF Piece
<1>3. Kept(l - f + 1) \in Nat /\ Kept(l - f + 1) > 0
  BY <1>1, <1>2 DEF Kept
<1>4. rawlen = Kept(l - f + 1) + 1
  BY DEF InBuffer
<1>5. 1 \in 1..Kept(l - f + 1) /\ IsMark(1) /\ f + 1 - 1 = f
  BY <1>1, <1>2, <1>3 DEF IsMark
<1>6. at[1] \in Nat /\ MarkSeen(at[1], w[f + 1 - 1], e)
  BY <1>5 DEF InBuffer
<1> QED BY <1>1, <1>3, <1>4, <1>5, <1>6

(* JVC without its header, if it is not sixteen bits.                      *)
LEMMA BareCode ==
    ASSUME NEW n \in 1..32, n # 16, NEW bits \in Seq({0, 1}), Len(bits) = n, NEW f, NEW r,
           HeardOf(Body(JVC, bits), f, r)
    PROVE  Hashed(Body(JVC, bits), f, r)
<1> DEFINE w == Body(JVC, bits)
           M == {600, 8000}
           S == {550, 1600, 4000}
<1>1. n \in Nat /\ n > 0 /\ n \in 1..MaxBits
  BY DEF MaxBits
<1>2. HeardOf(w, f, r)
  OBVIOUS
<1>3. Marks(M) /\ Spaces(S) /\ (\A s \in S : s <= 4500) /\ Of(JVC, M, S)
  <2>1. Hashable(JVC, M, S)
    BY PulsesHashable
  <2> HIDE DEF M, S
  <2> QED BY <2>1 DEF Hashable
<1>4. MadeOf(w, M, S)
  <2> HIDE DEF M, S
  <2> QED BY <1>1, <1>3, BodyMadeOf
<1>5. Len(w) = 2 * n + 1 /\ w[1] = 600 /\ (w[2] = 550 \/ w[2] = 1600)
  <2>1. IsPulse(JVC) /\ JVC.stop = TRUE
    BY JVCFields
  <2>2. /\ w \in Seq(Nat)
        /\ Len(w) = IF JVC.stop THEN 2 * n + 1 ELSE 2 * n - 1
        /\ \A j \in 1..n : w[2 * j - 1] = JVC.mark[bits[j] + 1]
        /\ \A j \in 1..(IF JVC.stop THEN n ELSE n - 1) : w[2 * j] = JVC.space[bits[j] + 1]
        /\ JVC.stop => w[2 * n + 1] = JVC.mark[1]
    BY <1>1, <2>1, BodyWidths, Zenon
  <2> HIDE DEF w
  <2>3. 1 \in 1..n /\ 2 * 1 - 1 = 1 /\ 2 * 1 = 2
    BY <1>1
  <2>4. bits[1] = 0 \/ bits[1] = 1
    <3>1. bits[1] \in {0, 1}
      BY <2>3, ElementOfSeq
    <3> QED BY <3>1
  <2>5. w[1] = JVC.mark[bits[1] + 1] /\ w[2] = JVC.space[bits[1] + 1]
    BY <2>1, <2>2, <2>3
  <2>6. w[1] = 600 /\ (w[2] = 550 \/ w[2] = 1600)
    BY <2>4, <2>5, JVCFields
  <2>7. Len(w) = 2 * n + 1
    BY <2>1, <2>2
  <2> QED BY <2>6, <2>7
<1> HIDE DEF w, M, S
<1>6. IsReceived(w, f, r)
  BY <1>2, <1>3, <1>4, ReceivedIs
<1>7. PICK e \in 0..180 : \E l, at, rawlen : Received(w, f, l, e, at, rawlen, r)
  BY <1>6 DEF IsReceived
<1>8. PICK l, at, rawlen : Received(w, f, l, e, at, rawlen, r)
  BY <1>7
<1>9. Piece(w, f, l) /\ InBuffer(at, rawlen, w, f, l, e)
      /\ (NoneDecodes(at, rawlen) => Hashed(w, f, r))
  BY <1>8 DEF Received
<1>10. f = 1 /\ l = Len(w) /\ l \in Nat
  <2>1. \A s \in S : s \in Nat /\ s <= 4500
    BY <1>3 DEF Spaces, SpaceLength
  <2>2. Len(w) \in Nat
    BY <1>1, <1>5
  <2> QED BY <1>4, <1>9, <2>1, <2>2, NoGaps
<1>11. rawlen \in Nat /\ rawlen > 2 /\ rawlen # 34
  <2>1. l - f + 1 = 2 * n + 1 /\ 2 * n + 1 # 33 /\ 2 * n + 1 <= 75 /\ 2 * n + 1 \in Nat
    BY <1>1, <1>5, <1>10
  <2>2. rawlen = 2 * n + 2
    BY <1>9, <2>1, KeptBounds DEF InBuffer
  <2> QED BY <1>1, <2>1, <2>2
<1>12. BareBegins(at, e)
  <2>1. 1 \in 1..l /\ 2 \in 1..l /\ 1 <= 75 /\ 2 <= 75 /\ IsMark(1) /\ ~IsMark(2)
    BY <1>1, <1>5, <1>10 DEF IsMark
  <2>2. /\ at[1] \in Nat /\ MarkSeen(at[1], w[1], e)
        /\ at[2] \in Nat /\ SpaceSeen(at[2], w[2], e)
    BY <1>9, <1>10, <2>1, EntryOf
  <2> QED BY <1>5, <2>2 DEF BareBegins
<1>13. NoneDecodes(at, rawlen)
  BY <1>11, <1>12, BareNone
<1> QED BY <1>9, <1>13 DEF w

(* Dish: the gap behind the header parts its first mark from the bits.     *)
LEMMA DISHFields ==
    /\ DISH.header = 400 /\ DISH.gap = 6100 /\ DISH.stop = FALSE
    /\ DISH.mark[1] = 400 /\ DISH.mark[2] = 400
    /\ DISH.space[1] = 2800 /\ DISH.space[2] = 1700 /\ IsPulse(DISH)
<1>1. /\ DISH.header = 400 /\ DISH.gap = 6100 /\ DISH.stop = FALSE
      /\ DISH.mark = <<400, 400>> /\ DISH.space = <<2800, 1700>>
  BY DEF DISH, Pulse
<1>2. DISH.stop \in BOOLEAN
  <2>1. DISH.stop = FALSE
    BY <1>1
  <2> QED BY <2>1, Zenon
<1>3. /\ DISH.header \in Nat /\ DISH.gap \in Nat
      /\ DISH.mark \in [1..2 -> Nat] /\ DISH.space \in [1..2 -> Nat]
  BY <1>1
<1>4. /\ DISH.mark[1] = 400 /\ DISH.mark[2] = 400
      /\ DISH.space[1] = 2800 /\ DISH.space[2] = 1700
  BY <1>1
<1>5. IsPulse(DISH)
  BY <1>2, <1>3, Zenon DEF IsPulse
<1> QED BY <1>1, <1>4, <1>5

LEMMA DISHGap ==
    ASSUME NEW n \in 1..MaxBits, NEW bits \in Seq({0, 1}), Len(bits) = n,
           NEW f, NEW l, Piece(WithHeader(DISH, bits), f, l)
    PROVE  l - f + 1 = 1 \/ l - f + 1 = 2 * n - 1
<1> DEFINE w == WithHeader(DISH, bits)
<1>1. n \in Nat /\ n > 0
  BY DEF MaxBits
<1>2. IsLineOf(w, DISH, bits, n)
  BY DISHFields, LineIs
<1>3. /\ Len(w) = 2 * n + 1 /\ w[2] = 6100
      /\ \A j \in 1..(n - 1) : w[2 * j + 2] = DISH.space[bits[j] + 1]
  <2> HIDE DEF w
  <2>1. LineLength(DISH, n) = 2 * n + 1
    BY DISHFields DEF LineLength
  <2>2. (IF DISH.stop THEN n ELSE n - 1) = n - 1
    BY DISHFields
  <2> QED BY <1>2, <2>1, <2>2, DISHFields DEF IsLineOf
<1>4. Piece(w, f, l)
  OBVIOUS
<1> HIDE DEF w
<1>5. LongGap(w, 2)
  <2>1. 2 \in 1..Len(w) /\ ~IsMark(2)
    BY <1>1, <1>3 DEF IsMark
  <2> QED BY <1>3, <2>1 DEF LongGap
<1>6. ASSUME NEW i, LongGap(w, i) PROVE i = 2
  <2>1. i \in 1..(2 * n + 1) /\ ~IsMark(i) /\ w[i] >= 5500
    BY <1>3, <1>6 DEF LongGap
  <2>2. i \in Nat /\ i >= 1 /\ i <= 2 * n + 1 /\ i % 2 # 1
    BY <1>1, <2>1 DEF IsMark
  <2>3. PICK h \in Nat : i = 2 * h
    <3>1. i = 2 * (i \div 2) /\ (i \div 2) \in Nat
      BY <2>2
    <3> QED BY <3>1
  <2> SUFFICES ASSUME h # 1 PROVE FALSE
    BY <2>3
  <2> DEFINE j == h - 1
  <2>4. j \in 1..(n - 1) /\ j \in 1..n /\ 2 * j + 2 = i
    BY <1>1, <2>2, <2>3
  <2> HIDE DEF j
  <2>5. w[i] = DISH.space[bits[j] + 1]
    BY <1>3, <2>4
  <2>6. bits[j] = 0 \/ bits[j] = 1
    <3>1. bits[j] \in {0, 1}
      BY <2>4, ElementOfSeq
    <3> QED BY <3>1
  <2>7. w[i] = 2800 \/ w[i] = 1700
    BY <2>5, <2>6, DISHFields
  <2> QED BY <2>1, <2>7
<1>7. /\ f \in 1..(2 * n + 1) /\ l \in f..(2 * n + 1)
      /\ f = 1 \/ f = 3
      /\ l = 2 * n + 1 \/ l = 1
      /\ \A i \in f..l : i # 2
  <2>1. /\ f \in 1..Len(w) /\ l \in f..Len(w) /\ (f = 1 \/ LongGap(w, f - 1))
        /\ (l = Len(w) \/ LongGap(w, l + 1)) /\ \A i \in f..l : ~LongGap(w, i)
    BY <1>4 DEF Piece
  <2>2. f = 1 \/ f - 1 = 2
    BY <1>6, <2>1
  <2>3. l = Len(w) \/ l + 1 = 2
    BY <1>6, <2>1
  <2>4. \A i \in f..l : i # 2
    BY <1>5, <2>1
  <2> QED BY <1>1, <1>3, <2>1, <2>2, <2>3, <2>4
<1>8. CASE f = 1
  <2>1. ~(2 \in f..l)
    BY <1>7
  <2>2. l = 1
    BY <1>1, <1>7, <1>8, <2>1
  <2> QED BY <1>8, <2>2
<1>9. CASE f = 3
  <2>1. l = 2 * n + 1
    BY <1>1, <1>7, <1>9
  <2> QED BY <1>1, <1>9, <2>1
<1> QED BY <1>7, <1>8, <1>9

LEMMA DISHCode ==
    ASSUME NEW n \in 1..MaxBits, n # 17, NEW bits \in Seq({0, 1}), Len(bits) = n, NEW f, NEW r,
           HeardOf(WithHeader(DISH, bits), f, r)
    PROVE  Hashed(WithHeader(DISH, bits), f, r)
<1> DEFINE w == WithHeader(DISH, bits)
           M == {400}
           S == {1700, 2800, 6100}
<1>1. n \in Nat /\ n > 0
  BY DEF MaxBits
<1>2. HeardOf(w, f, r)
  OBVIOUS
<1>3. Marks(M) /\ Spaces(S)
  BY DEF Marks, Spaces, MarkLength, SpaceLength, Apart
<1>4. Of(DISH, M, S) /\ DISH.header \in M /\ DISH.gap \in S
  BY DISHFields DEF Of
<1>5. \A m \in M : m = 400
  OBVIOUS
<1> HIDE DEF M, S
<1>6. MadeOf(w, M, S)
  BY <1>4, LineMadeOf
<1>7. \A l : Piece(w, f, l) => l - f + 1 = 1 \/ l - f + 1 = 2 * n - 1
  BY DISHGap
<1> HIDE DEF w
<1>8. IsReceived(w, f, r)
  BY <1>2, <1>3, <1>6, ReceivedIs
<1>9. PICK e \in 0..180 : \E l, at, rawlen : Received(w, f, l, e, at, rawlen, r)
  BY <1>8 DEF IsReceived
<1>10. PICK l, at, rawlen : Received(w, f, l, e, at, rawlen, r)
  BY <1>9
<1>11. Piece(w, f, l) /\ InBuffer(at, rawlen, w, f, l, e)
       /\ (NoneDecodes(at, rawlen) => Hashed(w, f, r))
  BY <1>10 DEF Received
<1>12. /\ rawlen \in Nat /\ rawlen > 1
       /\ at[1] \in Nat /\ MarkSeen(at[1], w[f], e) /\ w[f] \in M
  BY <1>6, <1>11, FirstEntry
<1>13. rawlen # 34
  <2> DEFINE k == l - f + 1
  <2>1. k \in Nat /\ k # 33
    BY <1>1, <1>7, <1>11
  <2>2. rawlen = Kept(k) + 1
    BY <1>11 DEF InBuffer
  <2> HIDE DEF k
  <2> QED BY <2>1, <2>2, KeptBounds
<1>14. MarkSeen(at[1], 400, e)
  BY <1>5, <1>12
<1>15. NoneDecodes(at, rawlen)
  BY <1>12, <1>13, <1>14, ShortMarkNone
<1> QED BY <1>11, <1>15 DEF w

(* Sharp: the bits, a gap, and the bits again, some of them inverted.      *)
LEMMA SHARPFields ==
    /\ SHARP.mark[1] = 245 /\ SHARP.mark[2] = 245
    /\ SHARP.space[1] = 795 /\ SHARP.space[2] = 1805 /\ SHARP.stop = TRUE /\ IsPulse(SHARP)
<1>1. /\ SHARP.header = 0 /\ SHARP.gap = 0 /\ SHARP.stop = TRUE
      /\ SHARP.mark = <<245, 245>> /\ SHARP.space = <<795, 1805>>
  BY DEF SHARP, Pulse
<1>2. SHARP.stop \in BOOLEAN
  <2>1. SHARP.stop = TRUE
    BY <1>1
  <2> QED BY <2>1, Zenon
<1>3. /\ SHARP.header \in Nat /\ SHARP.gap \in Nat
      /\ SHARP.mark \in [1..2 -> Nat] /\ SHARP.space \in [1..2 -> Nat]
  BY <1>1
<1>4. /\ SHARP.mark[1] = 245 /\ SHARP.mark[2] = 245
      /\ SHARP.space[1] = 795 /\ SHARP.space[2] = 1805
  BY <1>1
<1>5. IsPulse(SHARP)
  BY <1>2, <1>3, Zenon DEF IsPulse
<1> QED BY <1>1, <1>4, <1>5

LEMMA ToggledWord == ASSUME NEW word \in Word PROVE SHARP_TOGGLE(word) \in Word
<1>1. \A i \in 1..32 : word[i] = 0 \/ word[i] = 1
  BY DEF Word
<1>2. \A i \in 1..32 : (IF i > 22 THEN 1 - word[i] ELSE word[i]) \in {0, 1}
  <2> SUFFICES ASSUME NEW i \in 1..32
               PROVE  (IF i > 22 THEN 1 - word[i] ELSE word[i]) \in {0, 1}
    OBVIOUS
  <2>1. CASE word[i] = 0
    BY <2>1
  <2>2. CASE word[i] = 1
    BY <2>2
  <2> QED BY <1>1, <2>1, <2>2
<1> QED BY <1>2 DEF Word, SHARP_TOGGLE

LEMMA JoinLength ==
    ASSUME NEW a, NEW b, a \in Seq(Nat), b \in Seq(Nat)
    PROVE  Len(a \o b) = Len(a) + Len(b)
BY ConcatProperties, Zenon

LEMMA SHARPMadeOf ==
    ASSUME NEW M, NEW S, Of(SHARP, M, S), SHARP.space[1] + 46000 \in S,
           NEW word \in Word, NEW n \in 1..MaxBits
    PROVE  MadeOf(Twice(word, n), M, S)
<1> DEFINE a == Body(SHARP, Shifted(word, 17, n))
           b == Body(SHARP, Shifted(SHARP_TOGGLE(word), 17, n))
           s == SHARP.space[1] + 46000
           g == <<s>>
<1>0. 17 \in 0..32 /\ SHARP_TOGGLE(word) \in Word /\ n \in Nat /\ n > 0
  BY ToggledWord DEF MaxBits
<1>1. /\ Shifted(word, 17, n) \in Seq({0, 1}) /\ Len(Shifted(word, 17, n)) = n
      /\ Shifted(SHARP_TOGGLE(word), 17, n) \in Seq({0, 1})
      /\ Len(Shifted(SHARP_TOGGLE(word), 17, n)) = n
  BY <1>0, ShiftedBits
<1>2. MadeOf(a, M, S) /\ MadeOf(b, M, S)
  BY <1>1, BodyMadeOf
<1>3. a \in Seq(Nat) /\ Len(a) = 2 * n + 1
  <2>1. IsPulse(SHARP) /\ SHARP.stop = TRUE
    BY SHARPFields
  <2> DEFINE bits == Shifted(word, 17, n)
  <2>2. Len(Body(SHARP, bits)) = IF SHARP.stop THEN 2 * n + 1 ELSE 2 * n - 1
    <3>1. bits \in Seq({0, 1}) /\ Len(bits) = n
      BY <1>1
    <3> HIDE DEF bits
    <3> QED BY <2>1, <3>1, BodyWidths
  <2> QED BY <1>2, <2>1, <2>2 DEF MadeOf
<1>4. MadeOf(g, S, M) /\ Len(g) = 1 /\ g \in Seq(Nat)
  <2>1. s \in Nat /\ s \in S
    BY SHARPFields
  <2> HIDE DEF s
  <2>2. g \in Seq(Nat) /\ Len(g) = 1 /\ g[1] = s
    BY <2>1
  <2>3. \A i \in 1..Len(g) : (IsMark(i) => g[i] \in S) /\ (~IsMark(i) => g[i] \in M)
    <3>1. IsMark(1)
      BY DEF IsMark
    <3> HIDE DEF g
    <3>2. \A i \in 1..Len(g) : i = 1
      BY <2>2
    <3> QED BY <2>1, <2>2, <3>1, <3>2
  <2> QED BY <2>2, <2>3 DEF MadeOf
<1> HIDE DEF a, b, g
<1>5. MadeOf(a \o g, M, S)
  <2>1. Len(a) % 2 = 1
    BY <1>0, <1>3
  <2> QED BY <1>2, <1>4, <2>1, JoinMadeOf
<1>6. Len(a \o g) = 2 * n + 2 /\ Len(a \o g) % 2 = 0
  <2>1. Len(a \o g) = Len(a) + Len(g)
    <3>1. a \in Seq(Nat) /\ g \in Seq(Nat)
      BY <1>3, <1>4
    <3> QED BY <3>1, JoinLength
  <2>2. Len(a \o g) = 2 * n + 2
    BY <1>0, <1>3, <1>4, <2>1
  <2> QED BY <1>0, <2>2
<1> DEFINE ag == a \o g
<1>7. MadeOf(ag, M, S) /\ Len(ag) % 2 = 0
  BY <1>5, <1>6
<1> HIDE DEF ag
<1>8. MadeOf(ag \o b, M, S)
  BY <1>2, <1>7, JoinMadeOf
<1> QED BY <1>8 DEF Twice, ag, a, b, g, s

LEMMA SHARPCode ==
    ASSUME NEW word \in Word, NEW n \in 1..MaxBits, NEW f, NEW r, HeardOf(Twice(word, n), f, r)
    PROVE  Hashed(Twice(word, n), f, r)
<1> DEFINE w == Twice(word, n)
           M == {245}
           S == {795, 1805, 46795}
<1>1. HeardOf(w, f, r)
  OBVIOUS
<1>2. Marks(M) /\ Spaces(S)
  BY DEF Marks, Spaces, MarkLength, SpaceLength, Apart
<1>3. Of(SHARP, M, S) /\ SHARP.space[1] + 46000 \in S
  BY SHARPFields DEF Of
<1>4. \A m \in M : m = 245
  OBVIOUS
<1> HIDE DEF M, S
<1>5. MadeOf(w, M, S)
  BY <1>3, SHARPMadeOf
<1> HIDE DEF w
<1>6. IsReceived(w, f, r)
  BY <1>1, <1>2, <1>5, ReceivedIs
<1>7. PICK e \in 0..180 : \E l, at, rawlen : Received(w, f, l, e, at, rawlen, r)
  BY <1>6 DEF IsReceived
<1>8. PICK l, at, rawlen : Received(w, f, l, e, at, rawlen, r)
  BY <1>7
<1>9. Piece(w, f, l) /\ InBuffer(at, rawlen, w, f, l, e)
      /\ (NoneDecodes(at, rawlen) => Hashed(w, f, r))
  BY <1>8 DEF Received
<1>10. /\ rawlen \in Nat /\ rawlen > 1
       /\ at[1] \in Nat /\ MarkSeen(at[1], w[f], e) /\ w[f] \in M
  BY <1>5, <1>9, FirstEntry
<1>11. MarkSeen(at[1], 245, e)
  BY <1>4, <1>10
<1>12. NoneDecodes(at, rawlen)
  BY <1>10, <1>11, ShortMarkNone
<1> QED BY <1>9, <1>12 DEF w

(* All that is ever heard of a frame is one code.                          *)
OneCode(w, f) == \A r, s : HeardOf(w, f, r) /\ HeardOf(w, f, s) => r = s

LEMMA OneOf ==
    ASSUME NEW w, NEW f,
           \/ \A r : HeardOf(w, f, r) => Hashed(w, f, r)
           \/ \E c : \A r : HeardOf(w, f, r) => r = c
    PROVE  OneCode(w, f)
<1>1. CASE \A r : HeardOf(w, f, r) => Hashed(w, f, r)
  <2> SUFFICES ASSUME NEW r, NEW s, HeardOf(w, f, r), HeardOf(w, f, s) PROVE r = s
    BY DEF OneCode
  <2>1. Hashed(w, f, r) /\ Hashed(w, f, s)
    BY <1>1
  <2> QED BY <2>1, OneHash
<1>2. CASE \E c : \A r : HeardOf(w, f, r) => r = c
  BY <1>2 DEF OneCode
<1> QED BY <1>1, <1>2

(* What is promised for a key is heard whichever way it is heard.          *)
LEMMA PromiseIsHeard ==
    ASSUME NEW k \in Keys, NEW f, NEW r, HeardOf(Sent(k), f, r)
    PROVE  Promised(k, r)
<1>1. PICK e \in 0..180, up \in SUBSET Nat :
         \E entries, junk :
            /\ RecordedAt(entries, Sent(k), f, e, up)
            /\ r \in FirstOf(Attempts(Buffer(entries, junk), Len(entries) + 1))
  BY Zenon DEF HeardOf
<1>2. PICK entries, junk :
         /\ RecordedAt(entries, Sent(k), f, e, up)
         /\ r \in FirstOf(Attempts(Buffer(entries, junk), Len(entries) + 1))
  BY <1>1
<1>3. IsRecording(entries, Sent(k), e, up)
  BY <1>2 DEF RecordedAt, IsRecording
<1> QED BY <1>2, <1>3, ChainDecodes

LEMMA NothingHeard == ASSUME NEW f, NEW r PROVE ~HeardOf(<<>>, f, r)
BY DEF HeardOf, RecordedAt

LEMMA KeyHasOneCode ==
    ASSUME NEW k \in Keys, ~Ambiguous(k), NEW f
    PROVE  OneCode(Sent(k), f)
<1> DEFINE n == k.bits
           w == Sent(k)
           low == Lowest(k.word, n)
<1>1. /\ k.protocol \in 1..11 /\ n \in 1..MaxBits /\ k.word \in Word /\ k.repeat \in BOOLEAN
      /\ k.protocol \in ShiftsUp => n <= 32
  <2>1. k \in KeySpace /\ (k.protocol \in ShiftsUp => n <= 32)
    BY CodecAssumption
  <2> QED BY <2>1 DEF KeySpace
<1>2. n \in Nat /\ n > 0 /\ (k.protocol \in {2, 3, 4, 8} => n \in 1..32)
  BY <1>1 DEF MaxBits, ShiftsUp
<1>3. n \in 1..32 => low \in Seq({0, 1}) /\ Len(low) = n
  BY <1>1, BitsShifted
<1>4. ASSUME NEW s \in 0..32
      PROVE  Shifted(k.word, s, n) \in Seq({0, 1}) /\ Len(Shifted(k.word, s, n)) = n
  BY <1>1, ShiftedBits
<1> HIDE DEF n, low
<1>5. CASE k.protocol = 1
  <2>1. w = WithHeader(NEC, Shifted(k.word, 0, n)) /\ n # 31
    BY <1>5 DEF Sent, Ambiguous, ReadsPast, n
  <2>2. \A r : HeardOf(w, f, r) =>
           (n >= 32 => r = Result("NEC", k.word)) /\ (n < 32 => Hashed(w, f, r))
    BY <1>1, <2>1, NECCode
  <2> HIDE DEF w
  <2>3. n >= 32 \/ n < 32
    BY <1>2
  <2> QED BY <2>2, <2>3, OneOf DEF w
<1>6. CASE k.protocol = 7
  <2>1. w = WithHeader(SAMSUNG, Shifted(k.word, 0, n))
    BY <1>6 DEF Sent, n
  <2>2. \A r : HeardOf(w, f, r) =>
           (n >= 32 => r = Result("SAMSUNG", k.word)) /\ (n < 32 => Hashed(w, f, r))
    BY <1>1, <2>1, SamsungCode
  <2> HIDE DEF w
  <2>3. n >= 32 \/ n < 32
    BY <1>2
  <2> QED BY <2>2, <2>3, OneOf DEF w
<1>7. CASE k.protocol = 2
  <2>1. w = WithHeader(SONY, low) /\ n \in 1..32
    BY <1>2, <1>7 DEF Sent, n, low
  <2>2. CASE n >= 12
    <3>1. \A r : HeardOf(w, f, r) => r = Result("SONY", low)
      BY <1>7, <2>2, PromiseIsHeard DEF Promised, SonyKey, n, low
    <3> HIDE DEF w
    <3> QED BY <3>1, OneOf DEF w
  <2>3. CASE ~(n >= 12)
    <3>1. n \in 1..11
      BY <2>1, <2>3
    <3>2. low[1] = 1
      <4>1. low[1] # 0
        BY <1>7, <3>1 DEF Ambiguous, ResemblesRC6, n, low
      <4>2. low[1] \in {0, 1}
        <5>1. 1 \in 1..Len(low)
          BY <1>3, <2>1
        <5> QED BY <1>3, <2>1, <5>1, ElementOfSeq
      <4> QED BY <4>1, <4>2
    <3>3. \A r : HeardOf(w, f, r) => Hashed(w, f, r)
      BY <1>1, <2>1, <3>1, <3>2, ShortSonyCode DEF low
    <3> HIDE DEF w
    <3> QED BY <3>3, OneOf DEF w
  <2> QED BY <2>2, <2>3
<1>8. CASE k.protocol = 3
  <2>1. w = Widths(LevelsRC5(low), RC5_T1) /\ n \in 1..32
    BY <1>2, <1>8 DEF Sent, n, low
  <2>2. low \in Seq({0, 1}) /\ Len(low) = n
    BY <1>3, <2>1
  <2> DEFINE wide == Len(w) >= 12
  <2>3. \A r : HeardOf(w, f, r) =>
           (Len(w) >= 12 => r = Result("RC5", low)) /\ (Len(w) < 12 => Hashed(w, f, r))
    BY <2>1, <2>2, RC5Code
  <2>4. Len(w) \in Nat
    BY <2>1, <2>2, RC5Line DEF IsLineRC5
  <2> HIDE DEF w
  <2>5. Len(w) >= 12 \/ Len(w) < 12
    BY <2>4
  <2> QED BY <2>3, <2>5, OneOf DEF w
<1>9. CASE k.protocol = 4
  <2>1. \A r : HeardOf(w, f, r) => r = Result("RC6", low)
    BY <1>9, PromiseIsHeard DEF Promised, RC6Key, n, low
  <2> HIDE DEF w
  <2> QED BY <2>1, OneOf DEF w
<1>10. CASE k.protocol = 5
  <2>1. w = WithHeader(DISH, Shifted(k.word, 16, n)) /\ n # 17
    BY <1>10 DEF Sent, Ambiguous, ResemblesJVC, n
  <2>2. Shifted(k.word, 16, n) \in Seq({0, 1}) /\ Len(Shifted(k.word, 16, n)) = n
    <3>1. 16 \in 0..32
      OBVIOUS
    <3> QED BY <1>4, <3>1
  <2>3. \A r : HeardOf(w, f, r) => Hashed(w, f, r)
    BY <1>1, <2>1, <2>2, DISHCode
  <2> HIDE DEF w
  <2> QED BY <2>3, OneOf DEF w
<1>11. CASE k.protocol = 6
  <2>1. w = Twice(k.word, n)
    BY <1>11 DEF Sent, n
  <2>2. \A r : HeardOf(w, f, r) => Hashed(w, f, r)
    BY <1>1, <2>1, SHARPCode
  <2> HIDE DEF w
  <2> QED BY <2>2, OneOf DEF w
<1>12. CASE k.protocol = 8 /\ k.repeat
  <2>1. w = Body(JVC, low) /\ n \in 1..32
    BY <1>2, <1>12 DEF Sent, n, low
  <2>2. CASE n = 16
    <3>1. \A r : HeardOf(w, f, r) => r = Result("JVC", REPEAT)
      BY <1>12, <2>2, PromiseIsHeard DEF Promised, HeldJVCKey, n
    <3> HIDE DEF w
    <3> QED BY <3>1, OneOf DEF w
  <2>3. CASE n # 16
    <3>1. low \in Seq({0, 1}) /\ Len(low) = n
      BY <1>3, <2>1
    <3>2. \A r : HeardOf(w, f, r) => Hashed(w, f, r)
      BY <2>1, <2>3, <3>1, BareCode
    <3> HIDE DEF w
    <3> QED BY <3>2, OneOf DEF w
  <2> QED BY <2>2, <2>3
<1>13. CASE k.protocol = 8 /\ ~k.repeat
  <2>1. w = WithHeader(JVC, low) /\ n \in 1..32 /\ n # 31
    BY <1>2, <1>13 DEF Sent, Ambiguous, ReadsPast, n, low
  <2>2. \A r : HeardOf(w, f, r) =>
           (n = 32 => r = Result("NEC", k.word)) /\ (n < 32 => Hashed(w, f, r))
    BY <1>1, <2>1, JVCCode DEF low
  <2> HIDE DEF w
  <2>3. n = 32 \/ n < 32
    BY <2>1
  <2> QED BY <2>2, <2>3, OneOf DEF w
<1>14. CASE k.protocol \in 9..11
  <2>1. w = <<>>
    BY <1>14 DEF Sent
  <2> HIDE DEF w
  <2> QED BY <2>1, NothingHeard DEF OneCode, w
<1> QED BY <1>1, <1>5, <1>6, <1>7, <1>8, <1>9, <1>10, <1>11, <1>12, <1>13, <1>14

-------------------------------------------------------------------------------
(* The invariant: what waits to be decoded is recorded of the line, and    *)
(* all that was heard was heard of it.                                     *)
CodeInv ==
    /\ key \in Keys
    /\ line = <<>> \/ line = Sent(key)
    /\ frame # 0 => \E e \in 0..180, up \in SUBSET Nat : RecordedAt(raw, line, frame, e, up)
    /\ \A h \in heard : HeardOf(line, h.frame, h.result)

LEMMA CodeInit == Init => CodeInv
BY DEF Init, CodeInv

LEMMA CodeStep == CodeInv /\ [Next]_vars => CodeInv'
<1> SUFFICES ASSUME CodeInv, [Next]_vars PROVE CodeInv'
  OBVIOUS
<1>1. ASSUME NEW k \in Keys, HandleIr(k) PROVE CodeInv'
  <2>1. key' = k /\ line' = Sent(k) /\ heard' = {} /\ frame' = 0
    BY <1>1 DEF HandleIr
  <2> QED BY <2>1 DEF CodeInv
<1>2. CASE Receives
  <2>1. UNCHANGED <<key, line, heard>>
    BY <1>2 DEF Receives
  <2>2. \E e \in 0..180, up \in SUBSET Nat : RecordedAt(raw', line, frame', e, up)
    <3>1. PICK e \in Excess, up \in RoundedUp :
             \E first \in DOMAIN line : \E last \in first..Len(line) :
                /\ IsFrame(Seen(line, e, up), first, last)
                /\ frame' = first
                /\ raw' = Recorded(Seen(line, e, up), first, last)
      BY <1>2 DEF Receives
    <3>2. e \in 0..180 /\ up \in SUBSET Nat
      BY CodecAssumption
    <3>3. RecordedAt(raw', line, frame', e, up)
      BY <3>1 DEF RecordedAt
    <3> QED BY <3>2, <3>3
  <2> QED BY <2>1, <2>2 DEF CodeInv
<1>3. CASE Decodes
  <2>1. frame' = 0 /\ UNCHANGED <<key, line>>
    BY <1>3 DEF Decodes
  <2>2. PICK junk \in Junk :
           heard' = heard \cup {[frame |-> frame, result |-> r] :
               r \in FirstOf(Attempts(Buffer(raw, junk), Len(raw) + 1))}
    BY <1>3 DEF Decodes
  <2>3. PICK e \in 0..180, up \in SUBSET Nat : RecordedAt(raw, line, frame, e, up)
    <3>1. frame # 0
      BY <1>3 DEF Decodes
    <3> QED BY <3>1 DEF CodeInv
  <2> DEFINE results == FirstOf(Attempts(Buffer(raw, junk), Len(raw) + 1))
  <2>4. \A r \in results : HeardOf(line, frame, r)
    BY <2>3, Zenon DEF HeardOf
  <2> HIDE DEF results
  <2>5. heard' = heard \cup {[frame |-> frame, result |-> r] : r \in results}
    BY <2>2 DEF results
  <2>6. ASSUME NEW h \in heard' PROVE HeardOf(line, h.frame, h.result)
    <3>1. CASE h \in heard
      BY <3>1 DEF CodeInv
    <3>2. CASE h \notin heard
      <4>1. PICK r \in results : h = [frame |-> frame, result |-> r]
        BY <2>5, <2>6, <3>2
      <4>2. h.frame = frame /\ h.result = r
        BY <4>1
      <4> QED BY <2>4, <4>2
    <3> QED BY <3>1, <3>2
  <2> QED BY <2>1, <2>6 DEF CodeInv
<1>4. CASE UNCHANGED vars
  BY <1>4 DEF vars, CodeInv
<1> QED BY <1>1, <1>2, <1>3, <1>4 DEF Next

(* Whatever else is done to the widths on their way, a key gives the same  *)
(* code each time it is received, by a decoder or by the hash; but for the *)
(* keys whose codes may be taken for those of another protocol, or read    *)
(* with what the buffer held before.                                       *)
THEOREM AlwaysSameCode == Spec => []SameKeySameCode
<1>1. CodeInv => SameKeySameCode
  <2> SUFFICES ASSUME CodeInv, ~Ambiguous(key),
                      NEW h \in heard, NEW g \in heard, h.frame = g.frame
               PROVE  h.result = g.result
    BY DEF SameKeySameCode
  <2>1. HeardOf(line, h.frame, h.result) /\ HeardOf(line, h.frame, g.result)
    BY DEF CodeInv
  <2>2. line = Sent(key) /\ key \in Keys
    BY <2>1, NothingHeard DEF CodeInv
  <2>3. OneCode(line, h.frame)
    BY <2>2, KeyHasOneCode
  <2> QED BY <2>1, <2>3 DEF OneCode
<1> QED BY <1>1, CodeInit, CodeStep, PTL DEF Spec
===============================================================================
