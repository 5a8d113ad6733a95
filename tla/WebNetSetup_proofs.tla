--------------------------- MODULE WebNetSetup_proofs ---------------------------
(***************************************************************************)
(* Proofs about WebServer.tla and WebNetSetup.tla, for all requests,       *)
(* methods, commands and header words, all sizes of the pushback longer    *)
(* than the words, and wherever the client stops or the power is lost.     *)
(* What holds of a text of any length is shown place by place, by counting *)
(* (SetInduction), and what a loop has read by the least place at which it *)
(* ends (LeastElement).                                                    *)
(* The last sections are about the form: printing and parsing a number are *)
(* inverse to each other, the form is taken apart field by field as it was *)
(* put together, and every setting that can come about is a byte.          *)
(***************************************************************************)
EXTENDS WebNetSetup, SequenceTheorems, Induction, TLAPS

-------------------------------------------------------------------------------
(* Texts *)

(* The provers do not know that a literal is in STRING: those that the     *)
(* program puts into a text are named besides.                             *)
Letters == {"0", "1", "2", "3", "4", "5", "6", "7", "8", "9", "A", "B", "C", "D", "E", "F",
            "a", "b", "c", "d", "e", "f", "x", "X", "+", "-", "&", "=", " ", "other"}
Characters == STRING \cup Letters
Texts == Seq(Characters)

LEMMA AssumedTexts ==
    /\ Seq(STRING) \subseteq Texts
    /\ Methods \in Seq(Texts) /\ Commands \in Seq(Texts)
    /\ \A p \in Patterns : p \in Texts
    /\ \A r \in Requests : /\ r.method \in Texts /\ r.path \in Texts
                            /\ r.query \in Texts /\ r.rest \in Texts
<1>1. ASSUME NEW S, NEW T, S \subseteq T PROVE Seq(S) \subseteq Seq(T)
  <2> SUFFICES ASSUME NEW s \in Seq(S) PROVE s \in Seq(T)
    OBVIOUS
  <2>1. Len(s) \in Nat /\ s = [i \in 1..Len(s) |-> s[i]] /\ \A i \in 1..Len(s) : s[i] \in S
    BY LenProperties, ElementOfSeq
  <2> DEFINE l == Len(s)
  <2>l. l = Len(s)
    OBVIOUS
  <2> HIDE DEF l
  <2>2. s \in [1..l -> T]
    BY <1>1, <2>1, <2>l
  <2>3. l \in Nat
    BY <2>1, <2>l
  <2> QED BY <2>2, <2>3, SeqDef
<1>2. Seq(STRING) \subseteq Texts
  <2>1. STRING \subseteq Characters
    BY DEF Characters
  <2> QED BY <1>1, <2>1 DEF Texts
<1>3. Seq(Seq(STRING)) \subseteq Seq(Texts)
  BY <1>1, <1>2
<1>4. Methods \in Seq(Texts) /\ Commands \in Seq(Texts)
  BY <1>3, PatternsAssumption, CommandsAssumption
<1>5. \A p \in Patterns : p \in Texts
  BY <1>2, PatternsAssumption
<1>6. \A r \in Requests : /\ r.method \in Texts /\ r.path \in Texts
                          /\ r.query \in Texts /\ r.rest \in Texts
  BY <1>2, RequestsAssumption
<1> QED BY <1>2, <1>4, <1>5, <1>6

LEMMA RestIs ==
    ASSUME NEW s \in Texts, NEW n \in Nat
    PROVE  /\ Rest(s, n) \in Texts
           /\ Len(Rest(s, n)) = IF n <= Len(s) THEN Len(s) - n ELSE 0
           /\ \A i \in 1..(Len(s) - n) : Rest(s, n)[i] = s[n + i]
<1>1. Len(s) \in Nat /\ \A i \in (n + 1)..Len(s) : s[i] \in Characters
  BY LenProperties, ElementOfSeq DEF Texts
<1>2. /\ SubSeq(s, n + 1, Len(s)) \in Texts
      /\ Len(SubSeq(s, n + 1, Len(s))) = IF n + 1 <= Len(s) THEN Len(s) - (n + 1) + 1 ELSE 0
      /\ \A i \in 1..(Len(s) - (n + 1) + 1) : SubSeq(s, n + 1, Len(s))[i] = s[(n + 1) + i - 1]
  BY <1>1, SubSeqProperties DEF Texts
<1>3. \A i \in 1..(Len(s) - n) : (n + 1) + i - 1 = n + i
  BY <1>1
<1> QED BY <1>1, <1>2, <1>3 DEF Rest

LEMMA BeginIs ==
    ASSUME NEW s \in Texts, NEW n \in 0..Len(s)
    PROVE  /\ SubSeq(s, 1, n) \in Texts
           /\ Len(SubSeq(s, 1, n)) = n
           /\ \A i \in 1..n : SubSeq(s, 1, n)[i] = s[i]
<1>1. Len(s) \in Nat /\ \A i \in 1..n : s[i] \in Characters
  BY LenProperties, ElementOfSeq DEF Texts
<1>2. /\ SubSeq(s, 1, n) \in Texts
      /\ Len(SubSeq(s, 1, n)) = IF 1 <= n THEN n - 1 + 1 ELSE 0
      /\ \A i \in 1..(n - 1 + 1) : SubSeq(s, 1, n)[i] = s[1 + i - 1]
  BY <1>1, SubSeqProperties DEF Texts
<1>3. n - 1 + 1 = n /\ \A i \in 1..n : 1 + i - 1 = i
  BY <1>1
<1> QED BY <1>1, <1>2, <1>3

LEMMA JoinIs ==
    ASSUME NEW s \in Texts, NEW t \in Texts
    PROVE  /\ s \o t \in Texts /\ Len(s \o t) = Len(s) + Len(t)
           /\ \A i \in 1..Len(s) : (s \o t)[i] = s[i]
           /\ \A i \in 1..Len(t) : (s \o t)[Len(s) + i] = t[i]
<1>1. Len(s) \in Nat /\ Len(t) \in Nat
  BY LenProperties DEF Texts
<1>2. /\ s \o t \in Texts /\ Len(s \o t) = Len(s) + Len(t)
      /\ \A i \in 1..(Len(s) + Len(t)) : (s \o t)[i] = IF i <= Len(s) THEN s[i] ELSE t[i - Len(s)]
  BY ConcatProperties DEF Texts
<1>3. \A i \in 1..Len(t) : /\ Len(s) + i \in 1..(Len(s) + Len(t)) /\ ~(Len(s) + i <= Len(s))
                           /\ (Len(s) + i) - Len(s) = i
  BY <1>1
<1> QED BY <1>1, <1>2, <1>3

LEMMA Same ==
    ASSUME NEW s \in Texts, NEW t \in Texts, Len(s) = Len(t), \A i \in 1..Len(s) : s[i] = t[i]
    PROVE  s = t
BY SeqEqual DEF Texts

LEMMA RestOfRest ==
    ASSUME NEW s \in Texts, NEW n \in 0..Len(s), NEW m \in 0..(Len(s) - n)
    PROVE  Rest(Rest(s, n), m) = Rest(s, n + m)
<1>0. Len(s) \in Nat
  BY LenProperties DEF Texts
<1>1. n \in Nat /\ m \in Nat /\ n + m \in Nat /\ n <= Len(s) /\ n + m <= Len(s)
  BY <1>0
<1>2. Rest(s, n) \in Texts /\ Len(Rest(s, n)) = Len(s) - n
      /\ \A i \in 1..(Len(s) - n) : Rest(s, n)[i] = s[n + i]
  BY <1>1, RestIs
<1>3. Rest(Rest(s, n), m) \in Texts /\ Len(Rest(Rest(s, n), m)) = (Len(s) - n) - m
      /\ \A i \in 1..((Len(s) - n) - m) : Rest(Rest(s, n), m)[i] = Rest(s, n)[m + i]
  <2>1. m <= Len(s) - n /\ m \in Nat
    BY <1>0
  <2> DEFINE t == Rest(s, n)
  <2>2. t \in Texts /\ Len(t) = Len(s) - n
    BY <1>2
  <2> HIDE DEF t
  <2>3. Rest(t, m) \in Texts /\ Len(Rest(t, m)) = (Len(s) - n) - m
        /\ \A i \in 1..((Len(s) - n) - m) : Rest(t, m)[i] = t[m + i]
    BY <2>1, <2>2, RestIs
  <2> QED BY <2>3 DEF t
<1>4. Rest(s, n + m) \in Texts /\ Len(Rest(s, n + m)) = Len(s) - (n + m)
      /\ \A i \in 1..(Len(s) - (n + m)) : Rest(s, n + m)[i] = s[(n + m) + i]
  BY <1>1, RestIs
<1>5. (Len(s) - n) - m = Len(s) - (n + m)
  BY <1>0, <1>1
<1>6. ASSUME NEW i \in 1..(Len(s) - (n + m)) PROVE Rest(Rest(s, n), m)[i] = Rest(s, n + m)[i]
  <2>1. i \in 1..((Len(s) - n) - m) /\ m + i \in 1..(Len(s) - n) /\ n + (m + i) = (n + m) + i
    BY <1>0, <1>1
  <2> QED BY <2>1, <1>2, <1>3, <1>4
<1> QED BY <1>3, <1>4, <1>5, <1>6, Same

LEMMA RestOfJoin ==
    ASSUME NEW s \in Texts, NEW t \in Texts, NEW n \in 0..(Len(s) + Len(t))
    PROVE  Rest(s \o t, n) = Rest(s, n) \o (IF n > Len(s) THEN Rest(t, n - Len(s)) ELSE t)
<1>0. Len(s) \in Nat /\ Len(t) \in Nat /\ n \in Nat
  BY LenProperties DEF Texts
<1> DEFINE u == IF n > Len(s) THEN Rest(t, n - Len(s)) ELSE t
           k == IF n > Len(s) THEN n - Len(s) ELSE 0
<1>1. k \in Nat /\ u \in Texts /\ Len(u) = Len(t) - k /\ \A i \in 1..(Len(t) - k) : u[i] = t[k + i]
  <2>1. CASE n > Len(s)
    <3>1. k = n - Len(s) /\ k \in Nat /\ k <= Len(t) /\ u = Rest(t, k)
      BY <1>0, <2>1
    <3> HIDE DEF k, u
    <3> QED BY <1>0, <3>1, RestIs
  <2>2. CASE ~(n > Len(s))
    BY <1>0, <2>2
  <2> QED BY <2>1, <2>2
<1>2. /\ s \o t \in Texts /\ Len(s \o t) = Len(s) + Len(t)
      /\ \A i \in 1..Len(s) : (s \o t)[i] = s[i]
      /\ \A i \in 1..Len(t) : (s \o t)[Len(s) + i] = t[i]
  BY JoinIs
<1>3. /\ Rest(s \o t, n) \in Texts /\ Len(Rest(s \o t, n)) = Len(s) + Len(t) - n
      /\ \A i \in 1..(Len(s) + Len(t) - n) : Rest(s \o t, n)[i] = (s \o t)[n + i]
  <2> HIDE DEF u, k
  <2>1. n <= Len(s) + Len(t)
    BY <1>0
  <2> DEFINE w == s \o t
  <2>2. w \in Texts /\ Len(w) = Len(s) + Len(t)
    BY <1>2
  <2> HIDE DEF w
  <2>3. /\ Rest(w, n) \in Texts /\ Len(Rest(w, n)) = IF n <= Len(w) THEN Len(w) - n ELSE 0
        /\ \A i \in 1..(Len(w) - n) : Rest(w, n)[i] = w[n + i]
    BY <1>0, <2>2, RestIs
  <2>4. /\ Rest(w, n) \in Texts /\ Len(Rest(w, n)) = Len(s) + Len(t) - n
        /\ \A i \in 1..(Len(s) + Len(t) - n) : Rest(w, n)[i] = w[n + i]
    BY <2>1, <2>2, <2>3
  <2> QED BY <2>4 DEF w
<1> DEFINE v == Rest(s, n)
<1>4. /\ v \in Texts /\ Len(v) = IF n <= Len(s) THEN Len(s) - n ELSE 0
      /\ \A i \in 1..(Len(s) - n) : v[i] = s[n + i]
  BY <1>0, RestIs
<1>d. n > Len(s) => k = n - Len(s)
  OBVIOUS
<1>e. ~(n > Len(s)) => k = 0
  OBVIOUS
<1> HIDE DEF u, k, v
<1>5. /\ v \o u \in Texts /\ Len(v \o u) = Len(v) + Len(u)
      /\ \A i \in 1..Len(v) : (v \o u)[i] = v[i]
      /\ \A i \in 1..Len(u) : (v \o u)[Len(v) + i] = u[i]
  BY <1>1, <1>4, JoinIs
<1>6. Len(v) + Len(u) = Len(s) + Len(t) - n
  <2>1. CASE n > Len(s)
    <3>1. Len(v) = 0 /\ Len(u) = Len(t) - k /\ k = n - Len(s)
      BY <1>0, <1>1, <1>4, <1>d, <2>1
    <3> QED BY <1>0, <3>1
  <2>2. CASE ~(n > Len(s))
    BY <1>0, <1>1, <1>4, <1>e, <2>2
  <2> QED BY <2>1, <2>2
<1>7. ASSUME NEW i \in 1..(Len(s) + Len(t) - n) PROVE (v \o u)[i] = Rest(s \o t, n)[i]
  <2>1. CASE i <= Len(v)
    <3>1. n <= Len(s) /\ i \in 1..(Len(s) - n) /\ i \in 1..Len(v) /\ n + i \in 1..Len(s)
      BY <1>0, <1>4, <2>1
    <3> QED BY <3>1, <1>2, <1>3, <1>4, <1>5
  <2>2. CASE ~(i <= Len(v))
    <3> DEFINE j == i - Len(v)
    <3>1. j \in 1..Len(u) /\ Len(v) + j = i /\ k + j \in 1..Len(t) /\ j \in 1..(Len(t) - k)
      BY <1>0, <1>1, <1>4, <1>6, <2>2, <1>d, <1>e
    <3>2. n + i = Len(s) + (k + j)
      <4>1. CASE n > Len(s)
        BY <1>0, <1>4, <1>d, <4>1
      <4>2. CASE ~(n > Len(s))
        BY <1>0, <1>4, <1>e, <4>2
      <4> QED BY <4>1, <4>2
    <3> HIDE DEF j
    <3>3. (v \o u)[i] = t[k + j]
      BY <3>1, <1>1, <1>5
    <3>4. Rest(s \o t, n)[i] = t[k + j]
      BY <3>1, <3>2, <1>2, <1>3
    <3> QED BY <3>3, <3>4
  <2> QED BY <2>1, <2>2
<1>8. v \o u = Rest(s \o t, n)
  BY <1>3, <1>5, <1>6, <1>7, Same
<1> QED BY <1>8 DEF u, v

LEMMA BeginAndRest ==
    ASSUME NEW s \in Texts, NEW n \in 0..Len(s)
    PROVE  SubSeq(s, 1, n) \o Rest(s, n) = s
<1>1. Len(s) \in Nat
  BY LenProperties DEF Texts
<1>2. SubSeq(s, 1, n) \o SubSeq(s, n + 1, Len(s)) = SubSeq(s, 1, Len(s))
  <2>1. /\ 1 \in 1..(Len(s) + 1) /\ n \in (1 - 1)..Len(s) /\ Len(s) \in n..Len(s)
    BY <1>1
  <2>2. s \in Seq(Characters)
    BY DEF Texts
  <2> QED BY <2>1, <2>2, ConcatAdjacentSubSeq
<1>3. SubSeq(s, 1, Len(s)) = s
  BY SubSeqFull DEF Texts
<1> QED BY <1>2, <1>3 DEF Rest

-------------------------------------------------------------------------------
(* The input *)

Clients == {"none", "silent", "gone", "stopped"}
Conns == [pushback : Texts, input : Texts, client : Clients]

LEMMA Lengths == \A s \in Texts : Len(s) \in Nat /\ (s = <<>> <=> Len(s) = 0)
<1> SUFFICES ASSUME NEW s \in Texts PROVE Len(s) \in Nat /\ (s = <<>> <=> Len(s) = 0)
  OBVIOUS
<1> QED BY LenProperties, EmptySeq DEF Texts

LEMMA Joins ==
    /\ <<>> \in Texts
    /\ \A s \in Texts : s \o <<>> = s /\ <<>> \o s = s /\ SubSeq(s, 1, Len(s)) = s
    /\ \A s, t, u \in Texts : (s \o t) \o u = s \o (t \o u)
BY EmptySeq, ConcatEmptySeq, SubSeqFull, ConcatAssociative DEF Texts

(* How many characters are pushed back, and left in the socket. *)
Held(c) == Len(c.pushback)
Left(c) == Len(c.input)

LEMMA AheadIs ==
    ASSUME NEW c \in Conns
    PROVE  /\ c.pushback \in Texts /\ c.input \in Texts /\ c.client \in Clients
           /\ c = [pushback |-> c.pushback, input |-> c.input, client |-> c.client]
           /\ Ahead(c) \in Texts
           /\ Ahead(c) = IF c.client = "stopped" THEN <<>> ELSE c.pushback \o c.input
           /\ c.client # "stopped" => Len(Ahead(c)) = Held(c) + Left(c)
           /\ Held(c) \in Nat /\ Left(c) \in Nat
           /\ Held(c) = Len(c.pushback) /\ Left(c) = Len(c.input)
<1>1. c.pushback \in Texts /\ c.input \in Texts /\ c.client \in Clients
      /\ c = [pushback |-> c.pushback, input |-> c.input, client |-> c.client]
  BY DEF Conns, Clients
<1>2. /\ c.pushback \o c.input \in Texts /\ <<>> \in Texts
      /\ Len(c.pushback \o c.input) = Len(c.pushback) + Len(c.input)
  BY <1>1, JoinIs, Joins
<1> QED BY <1>1, <1>2, Lengths DEF Ahead, Held, Left

(* n calls of read() take the next n characters, from the pushback first. *)
LEMMA DroppedIs ==
    ASSUME NEW c \in Conns, NEW n \in 0..Len(Ahead(c))
    PROVE  /\ Dropped(c, n) \in Conns /\ Ahead(Dropped(c, n)) = Rest(Ahead(c), n)
           /\ Dropped(c, n).client = c.client
           /\ Held(Dropped(c, n)) = IF n <= Held(c) THEN Held(c) - n ELSE 0
<1> DEFINE x == c.pushback
           y == c.input
           z == c.client
<1>1. /\ x \in Texts /\ y \in Texts /\ z \in Clients
      /\ c = [pushback |-> x, input |-> y, client |-> z]
      /\ Ahead(c) = (IF z = "stopped" THEN <<>> ELSE x \o y) /\ Held(c) = Len(x)
      /\ Len(x \o y) = Len(x) + Len(y) /\ Len(x) \in Nat /\ Len(y) \in Nat
  BY AheadIs, JoinIs, Lengths
<1> DEFINE b == IF n > Len(x) THEN Rest(y, n - Len(x)) ELSE y
           d == Dropped(c, n)
<1>2. d = [c EXCEPT !.pushback = Rest(x, n), !.input = b]
  BY <1>1 DEF Dropped
<1> HIDE DEF x, y, z, b, d
<1>3. d = [pushback |-> Rest(x, n), input |-> b, client |-> z]
  BY <1>1, <1>2
<1>4. n \in Nat /\ n \in 0..(Len(x) + Len(y))
  <2>1. Len(<<>>) = 0
    OBVIOUS
  <2> QED BY <1>1, <2>1
<1>5. Rest(x, n) \in Texts /\ Len(Rest(x, n)) = IF n <= Len(x) THEN Len(x) - n ELSE 0
  BY <1>1, <1>4, RestIs
<1>6. b \in Texts
  <2>1. CASE n > Len(x)
    <3>1. n - Len(x) \in Nat
      BY <1>1, <1>4, <2>1
    <3> QED BY <1>1, <2>1, <3>1, RestIs DEF b
  <2>2. CASE ~(n > Len(x))
    BY <1>1, <2>2 DEF b
  <2> QED BY <2>1, <2>2
<1>7. Rest(x \o y, n) = Rest(x, n) \o b
  BY <1>1, <1>4, RestOfJoin DEF b
<1>8. /\ d \in Conns /\ Held(d) = Len(Rest(x, n)) /\ d.client = z
      /\ Ahead(d) = IF z = "stopped" THEN <<>> ELSE Rest(x, n) \o b
  <2>1. d.pushback = Rest(x, n) /\ d.input = b /\ d.client = z /\ d \in Conns
    BY <1>1, <1>3, <1>5, <1>6 DEF Conns
  <2> QED BY <2>1 DEF Ahead, Held
<1>9. d \in Conns /\ Ahead(d) = Rest(Ahead(c), n) /\ d.client = c.client
      /\ Held(d) = IF n <= Held(c) THEN Held(c) - n ELSE 0
  <2>1. CASE z = "stopped"
    <3>1. Ahead(c) = <<>> /\ n = 0 /\ Rest(<<>>, 0) = <<>>
      <4>1. Len(<<>>) = 0 /\ <<>> \in Texts
        BY Joins
      <4>2. Rest(<<>>, 0) = <<>>
        BY DEF Rest
      <4> QED BY <1>1, <2>1, <4>1, <4>2
    <3> QED BY <1>1, <1>5, <1>8, <2>1, <3>1 DEF z
  <2>2. CASE z # "stopped"
    BY <1>1, <1>5, <1>7, <1>8, <2>2 DEF z
  <2> QED BY <2>1, <2>2
<1> QED BY <1>9 DEF d

(* What is pushed back is read again, as long as there is room for it. *)
LEMMA PushedIs ==
    ASSUME NEW c \in Conns, NEW t \in Texts, Len(t) + Held(c) < PushbackSize
    PROVE  /\ Pushed(c, t) \in Conns /\ Pushed(c, t).client = c.client
           /\ Ahead(Pushed(c, t)) = IF c.client = "stopped" THEN <<>> ELSE t \o Ahead(c)
           /\ Held(Pushed(c, t)) = Len(t) + Held(c)
<1> DEFINE x == c.pushback
           y == c.input
           z == c.client
<1>1. /\ x \in Texts /\ y \in Texts /\ z \in Clients
      /\ c = [pushback |-> x, input |-> y, client |-> z]
      /\ Ahead(c) = (IF z = "stopped" THEN <<>> ELSE x \o y) /\ Held(c) = Len(x)
  BY AheadIs
<1>2. t \o x \in Texts /\ Len(t \o x) = Len(t) + Len(x) /\ Len(t) + Len(x) < PushbackSize
  BY <1>1, JoinIs
<1> DEFINE d == Pushed(c, t)
<1>3. d = [c EXCEPT !.pushback = t \o x]
  BY <1>2 DEF Pushed
<1> HIDE DEF x, y, z, d
<1>4. d = [pushback |-> t \o x, input |-> y, client |-> z]
  BY <1>1, <1>3
<1>5. /\ d \in Conns /\ Held(d) = Len(t \o x) /\ d.client = z
      /\ Ahead(d) = IF z = "stopped" THEN <<>> ELSE (t \o x) \o y
  <2>1. d.pushback = t \o x /\ d.input = y /\ d.client = z /\ d \in Conns
    BY <1>1, <1>2, <1>4 DEF Conns
  <2> QED BY <2>1 DEF Ahead, Held
<1>6. (t \o x) \o y = t \o (x \o y)
  BY <1>1, Joins
<1>7. /\ d \in Conns /\ Held(d) = Len(t) + Held(c) /\ d.client = c.client
      /\ Ahead(d) = IF c.client = "stopped" THEN <<>> ELSE t \o Ahead(c)
  BY <1>1, <1>2, <1>5, <1>6 DEF z
<1> QED BY <1>7 DEF d

(* At the end of the input nothing is left to lose, but for what is pushed *)
(* back when a client has been given up.                                   *)
LEMMA EndedIs ==
    ASSUME NEW c \in Conns, Ahead(c) = <<>>
    PROVE  /\ Ended(c) \in Conns /\ Ahead(Ended(c)) = <<>>
           /\ Ended(c).client = IF c.client = "silent" THEN "stopped" ELSE c.client
           /\ (Ended(c).client = "none" <=> c.client = "none")
           /\ Held(Ended(c)) \in 0..Held(c) /\ (c.client # "stopped" => Held(Ended(c)) = 0)
<1> DEFINE x == c.pushback
           y == c.input
           z == c.client
<1>1. /\ x \in Texts /\ y \in Texts /\ z \in Clients
      /\ c = [pushback |-> x, input |-> y, client |-> z]
      /\ Ahead(c) = (IF z = "stopped" THEN <<>> ELSE x \o y) /\ Held(c) = Len(x)
      /\ Held(c) \in Nat /\ Len(x) \in Nat
  BY AheadIs
<1> DEFINE d == Ended(c)
<1>2. d = IF z = "silent" THEN [c EXCEPT !.client = "stopped", !.pushback = <<>>] ELSE c
  BY DEF Ended
<1> HIDE DEF x, y, z, d
<1>3. CASE z = "silent"
  <2>1. d = [pushback |-> <<>>, input |-> y, client |-> "stopped"] /\ <<>> \in Texts /\ Len(<<>>) = 0
    BY <1>1, <1>2, <1>3, Joins, Lengths
  <2>2. d.pushback = <<>> /\ d.client = "stopped" /\ d \in Conns
    BY <1>1, <2>1 DEF Conns, Clients
  <2>3. Ahead(d) = <<>> /\ Held(d) = 0
    BY <2>1, <2>2 DEF Ahead, Held
  <2> QED BY <1>1, <1>3, <2>2, <2>3 DEF d, z
<1>4. CASE z # "silent"
  <2>1. d = c
    BY <1>2, <1>4
  <2>2. ASSUME z # "stopped" PROVE Held(c) = 0
    <3>1. Len(x \o y) = Len(x) + Len(y) /\ Len(y) \in Nat
      BY <1>1, JoinIs, Lengths
    <3>2. Len(x \o y) = 0
      BY <1>1, <2>2, Joins, Lengths
    <3> QED BY <1>1, <3>1, <3>2
  <2> QED BY <1>1, <1>4, <2>1, <2>2 DEF d, z
<1> QED BY <1>3, <1>4

(* A call of read() that finds nothing, behind all that there is. *)
LEMMA ReadToEnd ==
    ASSUME NEW c \in Conns, NEW n, n = Len(Ahead(c))
    PROVE  /\ Ended(Dropped(c, n)) \in Conns
           /\ Ahead(Ended(Dropped(c, n))) = <<>> /\ Rest(Ahead(c), n) = <<>>
           /\ (Ended(Dropped(c, n)).client = "none" <=> c.client = "none")
           /\ Ended(Dropped(c, n)).client = IF c.client = "silent" THEN "stopped" ELSE c.client
           /\ Held(Ended(Dropped(c, n))) \in 0..Held(c)
           /\ c.client # "stopped" => Held(Ended(Dropped(c, n))) = 0
           /\ c.client = "stopped" => n = 0
<1>1. Ahead(c) \in Texts /\ Len(Ahead(c)) \in Nat /\ Held(c) \in Nat
  BY AheadIs, Lengths
<1>2. n \in 0..Len(Ahead(c)) /\ n \in Nat
  BY <1>1
<1>3. Dropped(c, n) \in Conns /\ Ahead(Dropped(c, n)) = Rest(Ahead(c), n)
      /\ Dropped(c, n).client = c.client
      /\ Held(Dropped(c, n)) = IF n <= Held(c) THEN Held(c) - n ELSE 0
  BY <1>2, DroppedIs
<1>4. Rest(Ahead(c), n) \in Texts /\ Len(Rest(Ahead(c), n)) = 0
  BY <1>1, <1>2, RestIs
<1>5. Rest(Ahead(c), n) = <<>>
  BY <1>4, Lengths
<1>6. c.client = "stopped" => n = 0
  <2>1. Len(<<>>) = 0
    OBVIOUS
  <2> QED BY <2>1, AheadIs
<1>7. Held(Dropped(c, n)) \in 0..Held(c)
  BY <1>1, <1>2, <1>3
<1> DEFINE d == Dropped(c, n)
<1>8. /\ Ended(d) \in Conns /\ Ahead(Ended(d)) = <<>>
      /\ Ended(d).client = IF d.client = "silent" THEN "stopped" ELSE d.client
      /\ (Ended(d).client = "none" <=> d.client = "none")
      /\ Held(Ended(d)) \in 0..Held(d) /\ (d.client # "stopped" => Held(Ended(d)) = 0)
  BY <1>3, <1>5, EndedIs
<1>9. Held(Ended(d)) \in 0..Held(c)
  BY <1>1, <1>7, <1>8
<1> QED BY <1>3, <1>5, <1>6, <1>8, <1>9

-------------------------------------------------------------------------------
(* expect() *)

LEMMA AgreeIs ==
    ASSUME NEW c \in Conns, NEW p \in Texts, NEW n, n = Agree(p, c)
    PROVE  /\ n \in 0..Len(p) /\ n <= Len(Ahead(c))
           /\ SubSeq(Ahead(c), 1, n) = SubSeq(p, 1, n)
           /\ n < Len(p) /\ n < Len(Ahead(c)) => Ahead(c)[n + 1] # p[n + 1]
<1> DEFINE t == Ahead(c)
           Both(k) == k <= Len(t) /\ SubSeq(t, 1, k) = SubSeq(p, 1, k)
           S == {k \in 0..Len(p) : Both(k)}
<1>1. t \in Texts /\ Len(t) \in Nat /\ Len(p) \in Nat
  BY AheadIs, Lengths
<1>2. \E k \in 0..Len(p) : Both(k) /\ (k < Len(p) /\ k < Len(t) => t[k + 1] # p[k + 1])
  <2> SUFFICES ASSUME \A k \in 0..Len(p) :
                         Both(k) => k < Len(p) /\ k < Len(t) /\ t[k + 1] = p[k + 1]
               PROVE  FALSE
    OBVIOUS
  <2>1. 0 \in S
    <3>1. SubSeq(t, 1, 0) = <<>> /\ SubSeq(p, 1, 0) = <<>>
      BY SubSeqEmpty
    <3> QED BY <1>1, <3>1
  <2>2. ASSUME NEW k \in 0..(Len(p) - 1), k \in S PROVE k + 1 \in S
    <3>1. Both(k) /\ k < Len(p) /\ k < Len(t) /\ t[k + 1] = p[k + 1]
      BY <2>2
    <3>2. k + 1 \in 0..Len(p) /\ k + 1 \in 0..Len(t) /\ k \in 0..Len(t) /\ k \in 0..Len(p)
      BY <1>1, <3>1
    <3>3. /\ SubSeq(t, 1, k + 1) \in Texts /\ Len(SubSeq(t, 1, k + 1)) = k + 1
          /\ \A i \in 1..(k + 1) : SubSeq(t, 1, k + 1)[i] = t[i]
      BY <1>1, <3>2, BeginIs
    <3>4. /\ SubSeq(p, 1, k + 1) \in Texts /\ Len(SubSeq(p, 1, k + 1)) = k + 1
          /\ \A i \in 1..(k + 1) : SubSeq(p, 1, k + 1)[i] = p[i]
      BY <1>1, <3>2, BeginIs
    <3>5. \A i \in 1..k : SubSeq(t, 1, k)[i] = t[i] /\ SubSeq(p, 1, k)[i] = p[i]
      BY <1>1, <3>2, BeginIs
    <3>6. \A i \in 1..(k + 1) : t[i] = p[i]
      <4> TAKE i \in 1..(k + 1)
      <4>1. CASE i = k + 1
        BY <3>1, <4>1
      <4>2. CASE i \in 1..k
        BY <3>1, <3>5, <4>2
      <4> QED BY <3>2, <4>1, <4>2
    <3>7. SubSeq(t, 1, k + 1) = SubSeq(p, 1, k + 1)
      BY <3>3, <3>4, <3>6, Same
    <3> QED BY <3>1, <3>2, <3>7, <1>1
  <2> HIDE DEF S
  <2>3. 0..Len(p) \subseteq S
    BY <1>1, <2>1, <2>2, SetInduction
  <2>4. Len(p) \in S
    BY <1>1, <2>3
  <2> QED BY <2>4, <1>1 DEF S
<1>3. n = CHOOSE k \in 0..Len(p) : Both(k) /\ (k < Len(p) /\ k < Len(t) => t[k + 1] # p[k + 1])
  BY DEF Agree
<1> HIDE DEF t
<1>4. n \in 0..Len(p) /\ Both(n) /\ (n < Len(p) /\ n < Len(t) => t[n + 1] # p[n + 1])
  BY <1>2, <1>3
<1> QED BY <1>4 DEF t

LEMMA PatternIs ==
    ASSUME NEW p \in Patterns
    PROVE  p \in Texts /\ Len(p) \in Nat \ {0} /\ Len(p) < PushbackSize
<1>1. p \in Texts /\ p # <<>> /\ Len(p) < PushbackSize
  BY PatternsAssumption, AssumedTexts
<1> QED BY <1>1, Lengths DEF Texts

(* An expect() that fails leaves what is ahead as it was, and there is     *)
(* always room in the pushback; only if the input ends within the pattern  *)
(* it reads behind it, and then the client may be given up.                *)
LEMMA RejectedIs ==
    ASSUME NEW c \in Conns, NEW p \in Patterns, ~Accepts(p, c),
           Held(c) < PushbackSize
    PROVE  /\ Rejected(p, c) \in Conns
           /\ (Rejected(p, c).client = "none" <=> c.client = "none")
           /\ Held(Rejected(p, c)) < PushbackSize
           /\ \/ Rejected(p, c).client = c.client /\ Ahead(Rejected(p, c)) = Ahead(c)
              \/ /\ Rejected(p, c).client = "stopped" /\ Ahead(Rejected(p, c)) = <<>>
                 /\ Len(Ahead(c)) < Len(p) /\ Ahead(c) = SubSeq(p, 1, Len(Ahead(c)))
<1> DEFINE n == Agree(p, c)
           t == Ahead(c)
<1>0. p \in Texts /\ Len(p) \in Nat \ {0} /\ Len(p) < PushbackSize
  BY PatternIs
<1>1. /\ n \in 0..Len(p) /\ n <= Len(t) /\ SubSeq(t, 1, n) = SubSeq(p, 1, n)
      /\ n < Len(p) /\ n < Len(t) => t[n + 1] # p[n + 1]
  BY <1>0, AgreeIs
<1> HIDE DEF n
<1>2. t \in Texts /\ Len(t) \in Nat /\ Held(c) \in Nat /\ PushbackSize \in Nat
  BY AheadIs, Lengths, SizesAssumption
<1>3. n < Len(p)
  <2> SUFFICES ASSUME n = Len(p) PROVE FALSE
    BY <1>0, <1>1
  <2>1. SubSeq(p, 1, Len(p)) = p
    BY <1>0, SubSeqFull DEF Texts
  <2> QED BY <1>1, <2>1 DEF Accepts
<1>4. SubSeq(p, 1, n) \in Texts /\ Len(SubSeq(p, 1, n)) = n
  BY <1>0, <1>1, BeginIs
<1>5. CASE n < Len(t)
  <2>1. n + 1 \in 0..Len(t) /\ n \in 0..Len(t) /\ n + 1 \in Nat
    BY <1>0, <1>1, <1>2, <1>5
  <2> DEFINE d == Dropped(c, n + 1)
             back == SubSeq(p, 1, n) \o <<t[n + 1]>>
  <2>2. /\ d \in Conns /\ Ahead(d) = Rest(t, n + 1) /\ d.client = c.client
        /\ Held(d) = IF n + 1 <= Held(c) THEN Held(c) - (n + 1) ELSE 0
    BY <2>1, DroppedIs
  <2>3. back = SubSeq(t, 1, n + 1)
    <3>1. n + 1 \in 1..Len(t)
      BY <2>1
    <3>2. SubSeq(t, 1, n + 1) = SubSeq(t, 1, (n + 1) - 1) \o <<t[n + 1]>>
      <4>1. t \in Seq(Characters) /\ 1 \in 1..Len(t) /\ n + 1 \in 1..Len(t)
        BY <1>2, <3>1 DEF Texts
      <4> HIDE DEF t, back, d
      <4> QED BY <4>1, SubSeqRecursiveSecond
    <3> QED BY <1>1, <3>2, <2>1
  <2> HIDE DEF d, back, t
  <2>4. back \in Texts /\ Len(back) = n + 1
    BY <1>2, <2>1, <2>3, BeginIs
  <2>5. Len(back) + Held(d) < PushbackSize
    <3>1. n + 1 <= Len(p) /\ n \in Nat
      BY <1>0, <1>1, <1>3
    <3>2. CASE n + 1 <= Held(c)
      <4>1. Held(d) = Held(c) - (n + 1)
        BY <2>2, <3>2
      <4> QED BY <4>1, <2>4, <1>2, <3>1
    <3>3. CASE ~(n + 1 <= Held(c))
      <4>1. Held(d) = 0
        BY <2>2, <3>3
      <4> QED BY <4>1, <2>4, <1>0, <1>2, <3>1
    <3> QED BY <3>2, <3>3
  <2>9. c.client # "stopped"
    <3>1. c.client = "stopped" => t = <<>> /\ Len(<<>>) = 0
      BY AheadIs DEF t
    <3> QED BY <1>1, <1>2, <1>5, <3>1
  <2>6. /\ Pushed(d, back) \in Conns /\ Ahead(Pushed(d, back)) = back \o Ahead(d)
        /\ Pushed(d, back).client = d.client
        /\ Held(Pushed(d, back)) < PushbackSize
    BY <2>2, <2>4, <2>5, <2>9, PushedIs
  <2>7. back \o Ahead(d) = t
    BY <1>2, <2>1, <2>2, <2>3, BeginAndRest
  <2>8. Rejected(p, c) = Pushed(d, back)
    BY <1>5 DEF Rejected, d, back, t, n
  <2> QED BY <2>2, <2>6, <2>7, <2>8 DEF t
<1>6. CASE ~(n < Len(t))
  <2>1. n = Len(t)
    BY <1>0, <1>1, <1>2, <1>6
  <2> DEFINE d == Ended(Dropped(c, n))
             back == SubSeq(p, 1, n)
  <2>2. /\ d \in Conns /\ Ahead(d) = <<>>
        /\ (d.client = "none" <=> c.client = "none")
        /\ d.client = IF c.client = "silent" THEN "stopped" ELSE c.client
        /\ Held(d) \in 0..Held(c) /\ (c.client # "stopped" => Held(d) = 0)
        /\ c.client = "stopped" => n = 0
    BY <2>1, ReadToEnd
  <2>3. back = t
    <3>1. SubSeq(t, 1, Len(t)) = t
      BY <1>2, SubSeqFull DEF Texts
    <3> QED BY <1>1, <2>1, <3>1
  <2>8. Rejected(p, c) = Pushed(d, back)
    BY <1>6 DEF Rejected, n
  <2>a. Len(t) < Len(p) /\ t = SubSeq(p, 1, Len(t))
    BY <1>3, <2>1, <2>3 DEF back
  <2>b. c.client = "stopped" => t = <<>>
    BY AheadIs
  <2> HIDE DEF d, t
  <2>4. back \in Texts /\ Len(back) + Held(d) < PushbackSize
    <3>1. back \in Texts /\ Len(back) = n /\ n \in Nat
      BY <1>1, <1>4
    <3> HIDE DEF back
    <3>2. Held(d) = 0 \/ (n = 0 /\ Held(d) \in 0..Held(c))
      BY <2>2
    <3> QED BY <1>0, <1>2, <1>3, <3>1, <3>2
  <2> HIDE DEF back
  <2>6. /\ Pushed(d, back) \in Conns
        /\ Ahead(Pushed(d, back)) = IF d.client = "stopped" THEN <<>> ELSE back \o Ahead(d)
        /\ Pushed(d, back).client = d.client
        /\ Held(Pushed(d, back)) < PushbackSize
    BY <2>2, <2>4, PushedIs
  <2>7. back \o Ahead(d) = t
    BY <2>2, <2>3, <2>4, Joins
  <2>9. CASE d.client = "stopped"
    BY <2>2, <2>6, <2>8, <2>9, <2>a DEF t
  <2>10. CASE d.client # "stopped"
    <3>1. d.client = c.client /\ c.client # "stopped"
      BY <2>2, <2>10
    <3> QED BY <2>2, <2>6, <2>7, <2>8, <2>10, <3>1 DEF t
  <2> QED BY <2>9, <2>10
<1> QED BY <1>5, <1>6

-------------------------------------------------------------------------------
(* The loops over the characters *)

LEMMA RunExists ==
    ASSUME NEW t \in Texts, NEW i \in Nat \ {0}, NEW G
    PROVE  \E n \in 0..Len(t) : /\ \A k \in i..(i + n - 1) : k <= Len(t) /\ t[k] \in G
                                /\ i + n > Len(t) \/ t[i + n] \notin G
<1> DEFINE Run(n) == \A k \in i..(i + n - 1) : k <= Len(t) /\ t[k] \in G
           S == {n \in 0..Len(t) : Run(n)}
<1>0. Len(t) \in Nat
  BY Lengths
<1> SUFFICES ASSUME \A n \in 0..Len(t) : Run(n) => i + n <= Len(t) /\ t[i + n] \in G
             PROVE  FALSE
  BY <1>0
<1>1. 0 \in S
  BY <1>0
<1>2. ASSUME NEW n \in 0..(Len(t) - 1), n \in S PROVE n + 1 \in S
  <2>1. Run(n) /\ i + n <= Len(t) /\ t[i + n] \in G
    BY <1>2
  <2>2. \A k \in i..(i + (n + 1) - 1) : k = i + n \/ k \in i..(i + n - 1)
    OBVIOUS
  <2>3. Run(n + 1)
    BY <2>1, <2>2
  <2>4. n + 1 \in 0..Len(t)
    BY <1>0
  <2> QED BY <2>3, <2>4
<1> HIDE DEF S
<1>3. Len(t) \in S
  <2>1. 0..Len(t) \subseteq S
    BY <1>0, <1>1, <1>2, SetInduction
  <2> QED BY <1>0, <2>1
<1>4. i + Len(t) <= Len(t)
  BY <1>0, <1>3 DEF S
<1> QED BY <1>0, <1>4

LEMMA RunOfIs ==
    ASSUME NEW t \in Texts, NEW i \in Nat \ {0}, NEW G, NEW n, n = RunOf(t, i, G)
    PROVE  /\ n \in 0..Len(t)
           /\ \A k \in i..(i + n - 1) : k <= Len(t) /\ t[k] \in G
           /\ i + n > Len(t) \/ t[i + n] \notin G
BY RunExists DEF RunOf

LEMMA RunUntilIs ==
    ASSUME NEW t \in Texts, NEW i \in Nat \ {0}, NEW G, NEW n, n = RunUntil(t, i, G)
    PROVE  /\ n \in 0..Len(t)
           /\ \A k \in i..(i + n - 1) : k <= Len(t) /\ t[k] \notin G
           /\ i + n > Len(t) \/ t[i + n] \in G
<1>0. Len(t) \in Nat /\ \A k \in 1..Len(t) : t[k] \in Characters
  BY Lengths, ElementOfSeq DEF Texts
<1>1. PICK m \in 0..Len(t) : /\ \A k \in i..(i + m - 1) : k <= Len(t) /\ t[k] \in Characters \ G
                             /\ i + m > Len(t) \/ t[i + m] \notin Characters \ G
  BY RunExists
<1>2. i + m > Len(t) \/ t[i + m] \in G
  BY <1>0, <1>1
<1>3. \E x \in 0..Len(t) : /\ \A k \in i..(i + x - 1) : k <= Len(t) /\ t[k] \notin G
                           /\ i + x > Len(t) \/ t[i + x] \in G
  BY <1>1, <1>2
<1> QED BY <1>3 DEF RunUntil

(* Such a run stays within the text. *)
LEMMA RunWithin ==
    ASSUME NEW t \in Texts, NEW i \in Nat \ {0}, NEW n \in Nat,
           \A k \in i..(i + n - 1) : k <= Len(t)
    PROVE  i <= Len(t) + 1 => i + n <= Len(t) + 1
<1>1. Len(t) \in Nat
  BY Lengths
<1>2. CASE n = 0
  BY <1>1, <1>2
<1>3. CASE n # 0
  <2>1. i + n - 1 \in i..(i + n - 1)
    BY <1>3
  <2> QED BY <1>1, <2>1
<1> QED BY <1>2, <1>3

-------------------------------------------------------------------------------
(* Reading on *)

(* A connection whose pushback keeps within its size. *)
Fine(c) == c \in Conns /\ Held(c) < PushbackSize

LEMMA RoomForTwo == PushbackSize \in Nat /\ PushbackSize > 1
<1>1. ContentLength \in Patterns
  BY DEF Patterns, Words
<1> QED BY <1>1, PatternIs, SizesAssumption

LEMMA Reading ==
    ASSUME NEW c, Fine(c), NEW n \in 0..Len(Ahead(c))
    PROVE  /\ Fine(Dropped(c, n)) /\ Ahead(Dropped(c, n)) = Rest(Ahead(c), n)
           /\ Dropped(c, n).client = c.client
           /\ n >= 1 => Held(Dropped(c, n)) + 1 < PushbackSize
<1>1. c \in Conns /\ Held(c) < PushbackSize
  BY DEF Fine
<1>2. Held(c) \in Nat
  BY <1>1, AheadIs
<1> DEFINE d == Dropped(c, n)
<1>3. d \in Conns /\ Ahead(d) = Rest(Ahead(c), n) /\ d.client = c.client
      /\ Held(d) = IF n <= Held(c) THEN Held(c) - n ELSE 0
  BY <1>1, DroppedIs
<1> HIDE DEF d
<1>4. n \in Nat
  OBVIOUS
<1>5. Held(d) < PushbackSize /\ (n >= 1 => Held(d) + 1 < PushbackSize)
  <2>1. CASE n <= Held(c)
    BY <1>1, <1>2, <1>3, <1>4, <2>1, RoomForTwo
  <2>2. CASE ~(n <= Held(c))
    BY <1>3, <2>2, RoomForTwo
  <2> QED BY <2>1, <2>2
<1> QED BY <1>3, <1>5 DEF d, Fine

LEMMA ReadingToEnd ==
    ASSUME NEW c, Fine(c), NEW n, n = Len(Ahead(c))
    PROVE  /\ Fine(Ended(Dropped(c, n))) /\ Ahead(Ended(Dropped(c, n))) = Rest(Ahead(c), n)
           /\ (Ended(Dropped(c, n)).client = "none" <=> c.client = "none")
<1>1. c \in Conns /\ Held(c) < PushbackSize /\ Held(c) \in Nat
  BY AheadIs DEF Fine
<1>2. /\ Ended(Dropped(c, n)) \in Conns
      /\ Ahead(Ended(Dropped(c, n))) = <<>> /\ Rest(Ahead(c), n) = <<>>
      /\ (Ended(Dropped(c, n)).client = "none" <=> c.client = "none")
      /\ Held(Ended(Dropped(c, n))) \in 0..Held(c)
  BY <1>1, ReadToEnd
<1>3. Held(Ended(Dropped(c, n))) < PushbackSize
  BY <1>1, <1>2, RoomForTwo
<1> QED BY <1>2, <1>3 DEF Fine

(* A character that is read and put back has not been read. *)
LEMMA PuttingBack ==
    ASSUME NEW c, Fine(c), NEW n \in 0..(Len(Ahead(c)) - 1), NEW x, x = Ahead(c)[n + 1]
    PROVE  /\ Fine(Pushed(Dropped(c, n + 1), <<x>>))
           /\ Ahead(Pushed(Dropped(c, n + 1), <<x>>)) = Rest(Ahead(c), n)
           /\ Pushed(Dropped(c, n + 1), <<x>>).client = c.client
<1> DEFINE t == Ahead(c)
           d == Dropped(c, n + 1)
<1>1. c \in Conns /\ t \in Texts /\ Len(t) \in Nat
  BY AheadIs, Lengths DEF Fine
<1>2. n + 1 \in 0..Len(t) /\ n + 1 \in 1..Len(t) /\ n + 1 >= 1
  BY <1>1
<1>3. Fine(d) /\ Ahead(d) = Rest(t, n + 1) /\ d.client = c.client /\ Held(d) + 1 < PushbackSize
  BY <1>2, Reading
<1>4. x \in Characters
  BY <1>1, <1>2, ElementOfSeq DEF Texts
<1>5. <<x>> \in Texts /\ Len(<<x>>) = 1
  BY <1>4 DEF Texts
<1>6. <<x>> \o Rest(t, n + 1) = Rest(t, n)
  <2> HIDE DEF t
  <2>1. t \in Seq(Characters) /\ n + 1 \in 1..Len(t) /\ Len(t) \in (n + 1)..Len(t) /\ t[n + 1] = x
    BY <1>1, <1>2 DEF Texts, t
  <2>2. SubSeq(t, n + 1, Len(t)) = <<t[n + 1]>> \o SubSeq(t, (n + 1) + 1, Len(t))
    BY <2>1, SubSeqRecursiveFirst
  <2> QED BY <2>1, <2>2 DEF Rest
<1> HIDE DEF d, t
<1>7. d \in Conns /\ Held(d) \in Nat
  BY <1>3, AheadIs DEF Fine
<1>8. Len(<<x>>) + Held(d) < PushbackSize /\ Len(<<x>>) + Held(d) = Held(d) + 1
  BY <1>3, <1>5, <1>7
<1>a. d.client # "stopped"
  <2>1. c.client = "stopped" => t = <<>> /\ Len(<<>>) = 0
    BY <1>1, AheadIs DEF t
  <2> QED BY <1>1, <1>2, <1>3, <2>1
<1>9. /\ Pushed(d, <<x>>) \in Conns /\ Ahead(Pushed(d, <<x>>)) = <<x>> \o Ahead(d)
      /\ Pushed(d, <<x>>).client = d.client
      /\ Held(Pushed(d, <<x>>)) = Len(<<x>>) + Held(d)
  BY <1>5, <1>7, <1>8, <1>a, PushedIs
<1> QED BY <1>3, <1>6, <1>8, <1>9 DEF Fine, d, t

-------------------------------------------------------------------------------
(* What each step of processConnection() reads *)

LEMMA ExpectedIs ==
    ASSUME pc \in {"request", "headers"}, try \in Nat \ {0}, try <= Len(Expected)
    PROVE  Expected[try] \in Patterns
<1>1. CASE pc = "request"
  <2>1. Methods \in Seq(Texts)
    BY PatternsAssumption, AssumedTexts
  <2>2. DOMAIN Methods = 1..Len(Methods) /\ Len(Methods) \in Nat
    BY <2>1, LenProperties
  <2>3. Expected = Methods
    BY <1>1 DEF Expected
  <2> QED BY <2>2, <2>3 DEF Patterns, Words
<1>2. CASE pc = "headers"
  <2>1. Expected = <<ContentLength, Authorization, EndOfHeaders>>
    BY <1>2 DEF Expected, HeaderNames
  <2>2. try \in 1..3
    BY <2>1
  <2> QED BY <2>1, <2>2 DEF Patterns, Words
<1> QED BY <1>1, <1>2

(* A text that ends within a word. *)
BreaksOff(s, p) == Len(s) < Len(p) /\ s = SubSeq(p, 1, Len(s))

LEMMA ExpectsReads ==
    ASSUME Fine(conn), try \in Nat \ {0}, Expects
    PROVE  /\ Fine(conn') /\ (conn'.client = "none" <=> conn.client = "none")
           /\ Expected[try] \in Patterns
           /\ \/ conn'.client = conn.client /\ Ahead(conn') = Ahead(conn)
              \/ /\ conn'.client = "stopped" /\ Ahead(conn') = <<>>
                 /\ BreaksOff(Ahead(conn), Expected[try])
<1> DEFINE p == Expected[try]
<1>1. p \in Patterns /\ ~Accepts(p, conn) /\ conn' = Rejected(p, conn)
  BY ExpectedIs DEF Expects
<1> HIDE DEF p
<1>2. /\ Fine(conn') /\ (conn'.client = "none" <=> conn.client = "none")
      /\ \/ conn'.client = conn.client /\ Ahead(conn') = Ahead(conn)
         \/ /\ conn'.client = "stopped" /\ Ahead(conn') = <<>>
            /\ BreaksOff(Ahead(conn), p)
  BY <1>1, RejectedIs DEF Fine, BreaksOff
<1> QED BY <1>1, <1>2 DEF p

LEMMA AcceptedIs ==
    ASSUME Fine(conn), NEW p \in Patterns, Accepts(p, conn)
    PROVE  /\ Len(p) \in 1..Len(Ahead(conn)) /\ SubSeq(Ahead(conn), 1, Len(p)) = p
           /\ Fine(Dropped(conn, Len(p)))
           /\ Ahead(Dropped(conn, Len(p))) = Rest(Ahead(conn), Len(p))
           /\ Rest(Ahead(conn), Len(p)) \in Texts
           /\ Len(Rest(Ahead(conn), Len(p))) = Len(Ahead(conn)) - Len(p)
           /\ Dropped(conn, Len(p)).client = conn.client
<1>1. Ahead(conn) \in Texts /\ Len(Ahead(conn)) \in Nat
  BY AheadIs, Lengths DEF Fine
<1>2. Len(p) \in Nat \ {0} /\ Len(p) <= Len(Ahead(conn)) /\ SubSeq(Ahead(conn), 1, Len(p)) = p
  BY PatternIs DEF Accepts
<1>3. Len(p) \in 0..Len(Ahead(conn)) /\ Len(p) \in 1..Len(Ahead(conn)) /\ Len(p) \in Nat
  BY <1>1, <1>2
<1>4. Rest(Ahead(conn), Len(p)) \in Texts
      /\ Len(Rest(Ahead(conn), Len(p))) = Len(Ahead(conn)) - Len(p)
  BY <1>1, <1>2, <1>3, RestIs
<1> QED BY <1>2, <1>3, <1>4, Reading

(* Reading n characters behind the first m. *)
LEMMA Further ==
    ASSUME NEW t \in Texts, NEW m \in 0..Len(t), NEW n \in 0..(Len(t) - m)
    PROVE  Rest(Rest(t, m), n) = Rest(t, m + n) /\ m + n \in 0..Len(t)
BY RestOfRest, Lengths

LEMMA GetRequestReads ==
    ASSUME Fine(conn), try \in Nat \ {0}, GetRequest,
           NEW m, m = Len(Methods[try]), NEW t, t = Rest(Ahead(conn), m),
           NEW n, n = RunUntil(t, 1, LineEnds)
    PROVE  /\ Methods[try] \in Patterns
           /\ m \in 1..Len(Ahead(conn)) /\ SubSeq(Ahead(conn), 1, m) = Methods[try]
           /\ n \in 0..(Len(Ahead(conn)) - m) /\ t \in Texts
           /\ Fine(conn') /\ (conn'.client = "none" <=> conn.client = "none")
           /\ n < Len(Ahead(conn)) - m =>
                 Ahead(conn') = Rest(Ahead(conn), m + n + 1) /\ conn'.client = conn.client
           /\ n = Len(Ahead(conn)) - m => Ahead(conn') = Rest(Ahead(conn), Len(Ahead(conn)))
           /\ request' = SubSeq(t, 1, Stored(n))
<1> DEFINE A == Ahead(conn)
           p == Methods[try]
           s == Dropped(conn, m)
<1>1. p \in Patterns /\ Accepts(p, conn)
  <2>1. pc = "request" /\ try <= Len(Methods) /\ Accepts(p, conn)
    BY DEF GetRequest
  <2>2. Expected = Methods
    BY <2>1 DEF Expected
  <2> QED BY <2>1, <2>2, ExpectedIs
<1>2. /\ m \in 1..Len(A) /\ SubSeq(A, 1, m) = p /\ Fine(s) /\ Ahead(s) = t /\ t \in Texts
      /\ Len(t) = Len(A) - m /\ s.client = conn.client
  BY <1>1, AcceptedIs
<1>3. A \in Texts /\ Len(A) \in Nat /\ Len(t) \in Nat
  BY <1>2, AheadIs, Lengths DEF Fine
<1>4. request' = SubSeq(t, 1, Stored(n))
      /\ conn' = IF n < Len(t) THEN Dropped(s, n + 1) ELSE Ended(Dropped(s, n))
  BY <1>2 DEF GetRequest
<1> HIDE DEF A, p, s
<1>5. n \in 0..Len(t)
  <2>1. t \in Texts /\ 1 \in Nat \ {0}
    BY <1>2
  <2> QED BY <2>1, RunUntilIs
<1>8. A = Ahead(conn) /\ p = Methods[try]
  BY DEF A, p
<1>6. CASE n < Len(t)
  <2>1. n + 1 \in 0..Len(t) /\ n + 1 \in 0..(Len(A) - m) /\ m \in 0..Len(A)
        /\ m + (n + 1) = m + n + 1
    BY <1>2, <1>3, <1>5, <1>6
  <2>2. Fine(conn') /\ Ahead(conn') = Rest(t, n + 1) /\ conn'.client = s.client
    BY <1>2, <1>4, <1>6, <2>1, Reading
  <2>3. Rest(t, n + 1) = Rest(A, m + n + 1)
    BY <1>3, <2>1, Further DEF A
  <2>4. n \in 0..(Len(A) - m) /\ ~(n = Len(A) - m)
    BY <1>2, <1>3, <1>5, <1>6
  <2>5. conn'.client = conn.client /\ Ahead(conn') = Rest(A, m + n + 1)
    BY <1>2, <2>2, <2>3
  <2>6. request' = SubSeq(t, 1, Stored(n)) /\ t \in Texts /\ Fine(conn')
    BY <1>2, <1>4, <2>2
  <2> QED BY <1>1, <1>2, <1>8, <2>4, <2>5, <2>6
<1>7. CASE n = Len(t)
  <2>1. Fine(conn') /\ Ahead(conn') = Rest(t, n) /\ (conn'.client = "none" <=> s.client = "none")
    <3>1. conn' = Ended(Dropped(s, n)) /\ n = Len(Ahead(s)) /\ Ahead(s) = t /\ Fine(s)
      BY <1>2, <1>3, <1>4, <1>7
    <3> QED BY <3>1, ReadingToEnd
  <2>2. n \in 0..(Len(A) - m) /\ m \in 0..Len(A) /\ m + n = Len(A)
    <3>1. n = Len(A) - m /\ m \in 1..Len(A)
      BY <1>2, <1>7
    <3> QED BY <1>3, <3>1
  <2>3. Rest(t, n) = Rest(A, Len(A))
    BY <1>3, <2>2, Further DEF A
  <2>4. ~(n < Len(A) - m)
    BY <1>2, <1>3, <1>7
  <2>5. (conn'.client = "none" <=> conn.client = "none") /\ Ahead(conn') = Rest(A, Len(A))
    BY <1>2, <2>1, <2>3
  <2>6. request' = SubSeq(t, 1, Stored(n)) /\ t \in Texts /\ Fine(conn')
    BY <1>2, <1>4, <2>1
  <2> QED BY <1>1, <1>2, <1>8, <2>2, <2>4, <2>5, <2>6
<1> QED BY <1>3, <1>5, <1>6, <1>7

(* readInt() stops before the character behind the number. *)
LEMMA HeaderLengthReads ==
    ASSUME Fine(conn), HeaderLength,
           NEW m, m = Len(ContentLength), NEW t, t = Rest(Ahead(conn), m)
    PROVE  /\ m \in 1..Len(Ahead(conn)) /\ SubSeq(Ahead(conn), 1, m) = ContentLength
           /\ Fine(conn') /\ (conn'.client = "none" <=> conn.client = "none")
           /\ \E q \in 0..(Len(Ahead(conn)) - m) :
                 /\ \A k \in 1..q : t[k] # CR
                 /\ Ahead(conn') = Rest(Ahead(conn), m + q)
                 /\ q < Len(Ahead(conn)) - m => conn'.client = conn.client
<1> DEFINE A == Ahead(conn)
           s == Dropped(conn, m)
           blanks == RunOf(t, 1, Blanks)
           sign == IF blanks < Len(t) /\ t[blanks + 1] = "-" THEN 1 ELSE 0
           digits == RunOf(t, blanks + sign + 1, Digits)
           q == blanks + sign + digits
<1>1. ContentLength \in Patterns /\ Accepts(ContentLength, conn)
  BY DEF HeaderLength, Patterns, Words
<1>2. /\ m \in 1..Len(A) /\ SubSeq(A, 1, m) = ContentLength /\ Fine(s) /\ Ahead(s) = t
      /\ t \in Texts /\ Len(t) = Len(A) - m /\ s.client = conn.client
  BY <1>1, AcceptedIs
<1>3. A \in Texts /\ Len(A) \in Nat /\ Len(t) \in Nat
  BY <1>2, AheadIs, Lengths DEF Fine
<1>4. conn' = ReadInt(s, q)
  BY <1>2 DEF HeaderLength
<1>5. A = Ahead(conn)
  OBVIOUS
<1> HIDE DEF A, s
<1>6. /\ blanks \in 0..Len(t) /\ \A k \in 1..(1 + blanks - 1) : k <= Len(t) /\ t[k] \in Blanks
  <2>1. t \in Texts /\ 1 \in Nat \ {0}
    BY <1>2
  <2> QED BY <2>1, RunOfIs
<1> HIDE DEF blanks
<1>7. sign \in {0, 1} /\ (sign = 1 => blanks < Len(t) /\ t[blanks + 1] = "-")
  OBVIOUS
<1> HIDE DEF sign
<1> DEFINE i == blanks + sign + 1
<1>8. i \in Nat \ {0} /\ i <= Len(t) + 1
  BY <1>3, <1>6, <1>7
<1> HIDE DEF i
<1>9. digits \in 0..Len(t) /\ \A k \in i..(i + digits - 1) : k <= Len(t) /\ t[k] \in Digits
  <2>1. digits = RunOf(t, i, Digits)
    BY DEF i
  <2> HIDE DEF digits
  <2> QED BY <1>2, <1>8, <2>1, RunOfIs
<1> HIDE DEF digits
<1>10. i + digits <= Len(t) + 1
  <2>1. digits \in Nat /\ \A k \in i..(i + digits - 1) : k <= Len(t)
    BY <1>3, <1>9
  <2> QED BY <1>2, <1>8, <2>1, RunWithin
<1>11. q \in 0..Len(t)
  BY <1>3, <1>6, <1>7, <1>9, <1>10 DEF i
<1>12. ASSUME NEW k \in 1..q PROVE t[k] # CR
  <2>1. k \in 1..(1 + blanks - 1) \/ (sign = 1 /\ k = blanks + 1) \/ k \in i..(i + digits - 1)
    BY <1>6, <1>7, <1>9 DEF i
  <2>2. CASE k \in 1..(1 + blanks - 1)
    BY <1>6, <2>2 DEF Blanks, CR
  <2>3. CASE sign = 1 /\ k = blanks + 1
    BY <1>7, <2>3 DEF CR
  <2>4. CASE k \in i..(i + digits - 1)
    BY <1>9, <2>4 DEF Digits, CR
  <2> QED BY <2>1, <2>2, <2>3, <2>4
<1> HIDE DEF q
<1>13. q \in 0..(Len(A) - m) /\ m \in 0..Len(A)
  BY <1>2, <1>3, <1>11
<1>14. Rest(t, q) = Rest(A, m + q)
  BY <1>3, <1>5, <1>13, Further
<1>15. CASE q < Len(t)
  <2>1. conn' = Pushed(Dropped(s, q + 1), <<t[q + 1]>>)
    BY <1>2, <1>4, <1>15 DEF ReadInt
  <2>2. q \in 0..(Len(Ahead(s)) - 1) /\ t[q + 1] = Ahead(s)[q + 1]
    BY <1>2, <1>3, <1>11, <1>15
  <2>3. Fine(conn') /\ Ahead(conn') = Rest(t, q) /\ conn'.client = s.client
    BY <1>2, <2>1, <2>2, PuttingBack
  <2> QED BY <1>2, <1>5, <1>12, <1>13, <1>14, <2>3
<1>16. CASE ~(q < Len(t))
  <2>1. conn' = Ended(Dropped(s, q)) /\ q = Len(Ahead(s))
    BY <1>2, <1>3, <1>4, <1>11, <1>16 DEF ReadInt
  <2>2. Fine(conn') /\ Ahead(conn') = Rest(t, q) /\ (conn'.client = "none" <=> s.client = "none")
    BY <1>2, <2>1, ReadingToEnd
  <2>3. ~(q < Len(A) - m)
    BY <1>2, <1>16
  <2> QED BY <1>2, <1>5, <1>12, <1>13, <1>14, <2>2, <2>3
<1> QED BY <1>15, <1>16

(* readHeader() stops before the next CR that is not the first character   *)
(* of the value, or hangs: t is what there is behind the name of the       *)
(* header, b the number of blanks, n that of the characters of the value.  *)
ValueRead(t, b, n) ==
    /\ \A k \in 1..b : t[k] \in Blanks
    /\ \A k \in (b + 2)..(b + n) : k <= Len(t) /\ t[k] # CR
    /\ \/ /\ b + n < Len(t) /\ t[b + n + 1] = CR
          /\ Ahead(conn') = Rest(Ahead(conn), Len(Authorization) + (b + n))
          /\ conn'.client = conn.client /\ pc' = pc /\ try' = 1
          /\ \E room \in Int : room <= n /\ credentials' = SubSeq(t, b + 1, b + room)
       \/ /\ b + n >= Len(t)
          /\ Ahead(conn') = Rest(Ahead(conn), Len(Ahead(conn)))
          /\ pc' = "hung" /\ UNCHANGED credentials

LEMMA HeaderAuthorizationReads ==
    ASSUME Fine(conn), HeaderAuthorization,
           NEW m, m = Len(Authorization), NEW t, t = Rest(Ahead(conn), m)
    PROVE  /\ m \in 1..Len(Ahead(conn)) /\ SubSeq(Ahead(conn), 1, m) = Authorization
           /\ t \in Texts /\ Len(t) = Len(Ahead(conn)) - m
           /\ Fine(conn') /\ (conn'.client = "none" <=> conn.client = "none")
           /\ \E b \in 0..Len(t), n \in Nat \ {0} : ValueRead(t, b, n)
<1> DEFINE A == Ahead(conn)
           s == Dropped(conn, m)
           b == RunOf(t, 1, Blanks)
           n == 1 + RunUntil(t, b + 2, {CR})
           room == IF n < CredentialsLen - 1 THEN n ELSE CredentialsLen - 2
<1>1. Authorization \in Patterns /\ Accepts(Authorization, conn)
  BY DEF HeaderAuthorization, Patterns, Words
<1>2. /\ m \in 1..Len(A) /\ SubSeq(A, 1, m) = Authorization /\ Fine(s) /\ Ahead(s) = t
      /\ t \in Texts /\ Len(t) = Len(A) - m /\ s.client = conn.client
  BY <1>1, AcceptedIs
<1>3. A \in Texts /\ Len(A) \in Nat /\ Len(t) \in Nat
  BY <1>2, AheadIs, Lengths DEF Fine
<1>4. IF b + n < Len(t)
      THEN /\ credentials' = SubSeq(t, b + 1, b + room)
           /\ conn' = Pushed(Dropped(s, b + n + 1), <<CR>>)
           /\ pc' = pc /\ try' = 1
      ELSE /\ conn' = Ended(Dropped(s, Len(t)))
           /\ pc' = "hung" /\ UNCHANGED <<try, credentials>>
  BY <1>2 DEF HeaderAuthorization
<1>5. A = Ahead(conn)
  OBVIOUS
<1> HIDE DEF A, s
<1>6. b \in 0..Len(t) /\ \A k \in 1..(1 + b - 1) : k <= Len(t) /\ t[k] \in Blanks
  <2>1. t \in Texts /\ 1 \in Nat \ {0}
    BY <1>2
  <2> QED BY <2>1, RunOfIs
<1> HIDE DEF b
<1> DEFINE i == b + 2
           r == RunUntil(t, i, {CR})
<1>7. i \in Nat \ {0} /\ n = 1 + r
  BY <1>6
<1>8. /\ r \in 0..Len(t) /\ \A k \in i..(i + r - 1) : k <= Len(t) /\ t[k] \notin {CR}
      /\ i + r > Len(t) \/ t[i + r] \in {CR}
  <2> HIDE DEF i, n
  <2> QED BY <1>2, <1>7, RunUntilIs
<1> HIDE DEF n, r
<1>9. n \in Nat \ {0} /\ i + r - 1 = b + n /\ i + r = b + n + 1
  BY <1>6, <1>7, <1>8
<1>10. \A k \in (b + 2)..(b + n) : k <= Len(t) /\ t[k] # CR
  BY <1>8, <1>9
<1>11. \A k \in 1..b : t[k] \in Blanks
  BY <1>6
<1>a. room \in Int /\ room <= n
  BY <1>9, SizesAssumption
<1> HIDE DEF room, i
<1>12. CASE b + n < Len(t)
  <2>1. b + n + 1 <= Len(t) /\ b + n \in 0..(Len(Ahead(s)) - 1) /\ b + n \in 0..(Len(A) - m)
    BY <1>2, <1>3, <1>6, <1>9, <1>12
  <2>2. t[b + n + 1] = CR /\ CR = Ahead(s)[(b + n) + 1]
    BY <1>2, <1>3, <1>6, <1>8, <1>9, <2>1
  <2>3. conn' = Pushed(Dropped(s, (b + n) + 1), <<CR>>) /\ pc' = pc /\ try' = 1
        /\ credentials' = SubSeq(t, b + 1, b + room)
    BY <1>4, <1>12
  <2>4. Fine(conn') /\ Ahead(conn') = Rest(t, b + n) /\ conn'.client = s.client
    BY <1>2, <2>1, <2>2, <2>3, PuttingBack
  <2>5. Rest(t, b + n) = Rest(A, m + (b + n))
    <3>1. m \in 0..Len(A)
      BY <1>2, <1>3
    <3> QED BY <1>3, <1>5, <2>1, <3>1, Further
  <2>6. conn'.client = conn.client /\ Ahead(conn') = Rest(Ahead(conn), m + (b + n))
    BY <1>2, <1>5, <2>4, <2>5
  <2>7. ValueRead(t, b, n)
    BY <1>10, <1>11, <1>12, <1>a, <2>2, <2>3, <2>6 DEF ValueRead
  <2> QED BY <1>2, <1>5, <1>6, <1>9, <2>4, <2>7
<1>13. CASE ~(b + n < Len(t))
  <2>1. conn' = Ended(Dropped(s, Len(t))) /\ pc' = "hung" /\ UNCHANGED credentials
    BY <1>4, <1>13
  <2>2. Fine(conn') /\ Ahead(conn') = Rest(t, Len(t)) /\ (conn'.client = "none" <=> s.client = "none")
    BY <1>2, <2>1, ReadingToEnd
  <2>3. Rest(t, Len(t)) = Rest(A, Len(A))
    <3>1. m \in 0..Len(A) /\ Len(t) \in 0..(Len(A) - m) /\ m + Len(t) = Len(A)
      BY <1>2, <1>3
    <3> QED BY <1>3, <1>5, <3>1, Further
  <2>4. (conn'.client = "none" <=> conn.client = "none")
        /\ Ahead(conn') = Rest(Ahead(conn), Len(Ahead(conn)))
    BY <1>2, <1>5, <2>2, <2>3
  <2>5. b + n >= Len(t)
    BY <1>3, <1>6, <1>9, <1>13
  <2>6. ValueRead(t, b, n)
    BY <1>10, <1>11, <2>1, <2>4, <2>5 DEF ValueRead
  <2> QED BY <1>2, <1>5, <1>6, <1>9, <2>2, <2>4, <2>6
<1> QED BY <1>12, <1>13

LEMMA HeadersEndReads ==
    ASSUME Fine(conn), HeadersEnd
    PROVE  /\ Len(EndOfHeaders) \in 1..Len(Ahead(conn)) /\ Fine(conn')
           /\ Ahead(conn') = Rest(Ahead(conn), Len(EndOfHeaders)) /\ conn'.client = conn.client
<1>1. EndOfHeaders \in Patterns /\ Accepts(EndOfHeaders, conn)
      /\ conn' = Dropped(conn, Len(EndOfHeaders))
  BY DEF HeadersEnd, Patterns
<1> QED BY <1>1, AcceptedIs

LEMMA HeaderCharacterReads ==
    ASSUME Fine(conn), HeaderCharacter
    PROVE  /\ Fine(conn') /\ (conn'.client = "none" <=> conn.client = "none")
           /\ \/ /\ Ahead(conn) = <<>> /\ Ahead(conn') = <<>> /\ pc' = "command"
              \/ /\ Ahead(conn) # <<>> /\ Len(Ahead(conn)) >= 1 /\ pc' = "headers"
                 /\ Ahead(conn') = Rest(Ahead(conn), 1) /\ conn'.client = conn.client
<1>1. Ahead(conn) \in Texts /\ Len(Ahead(conn)) \in Nat /\ conn \in Conns
  BY AheadIs, Lengths DEF Fine
<1>2. CASE Ahead(conn) = <<>>
  <2>1. conn' = Ended(conn) /\ pc' = "command"
    BY <1>2 DEF HeaderCharacter, AfterCharacter
  <2>2. Fine(Ended(conn))
    <3>1. Held(conn) < PushbackSize /\ Held(conn) \in Nat
      BY <1>1, AheadIs DEF Fine
    <3>2. Ended(conn) \in Conns /\ Held(Ended(conn)) \in 0..Held(conn)
      BY <1>1, <1>2, EndedIs
    <3>3. Held(Ended(conn)) < PushbackSize
      BY <3>1, <3>2, RoomForTwo
    <3> QED BY <3>2, <3>3 DEF Fine
  <2> QED BY <1>1, <1>2, <2>1, <2>2, EndedIs
<1>3. CASE Ahead(conn) # <<>>
  <2>1. conn' = Dropped(conn, 1) /\ pc' = "headers"
    BY <1>3 DEF HeaderCharacter, AfterCharacter
  <2>2. Len(Ahead(conn)) # 0
    BY <1>1, <1>3, Lengths
  <2>3. 1 \in 0..Len(Ahead(conn)) /\ Len(Ahead(conn)) >= 1
    BY <1>1, <2>2
  <2> QED BY <1>3, <2>1, <2>3, Reading
<1> QED BY <1>2, <1>3

-------------------------------------------------------------------------------
(* The stream: what is ahead is the end of what was sent, whatever the     *)
(* place of the program; and the pushback never overflows.                 *)

PartOf(u, s) == \E n \in 0..Len(s) : n + Len(u) <= Len(s) /\ u = SubSeq(s, n + 1, n + Len(u))

Own == PartOf(credentials, sent)

(* The client was given up within a word getRequest() was looking for.     *)
GivenUp ==
    /\ conn.client = "stopped" /\ Ahead(conn) = <<>>
    /\ \E k \in DOMAIN Methods : BreaksOff(sent, Methods[k])

StreamInv ==
    /\ Fine(conn) /\ sent \in Texts /\ try \in Nat \ {0}
    /\ conn.client = "none" => Ahead(conn) = <<>>
    /\ conn.client # "none" => \E n \in 0..Len(sent) : Ahead(conn) = Rest(sent, n)
    /\ pc \in {"idle", "off", "defaults"} <=> conn.client = "none"
    /\ pc = "request" => type = 0 /\ (Ahead(conn) = sent \/ GivenUp)
    /\ pc = "headers" \/ (pc = "command" /\ type # 0) => Own

LEMMA StreamOn ==
    ASSUME StreamInv, conn.client # "none", UNCHANGED sent,
           (conn'.client = "none" <=> conn.client = "none"),
           NEW k \in 0..Len(Ahead(conn)), Ahead(conn') = Rest(Ahead(conn), k)
    PROVE  /\ conn'.client # "none"
           /\ \E n \in 0..Len(sent') : Ahead(conn') = Rest(sent', n)
<1>1. PICK n \in 0..Len(sent) : Ahead(conn) = Rest(sent, n)
  BY DEF StreamInv
<1>2. sent \in Texts /\ Len(sent) \in Nat /\ n \in Nat /\ n <= Len(sent)
  BY Lengths DEF StreamInv
<1>3. Len(Ahead(conn)) = Len(sent) - n
  BY <1>1, <1>2, RestIs
<1>4. k \in 0..(Len(sent) - n)
  BY <1>3
<1>5. Ahead(conn') = Rest(sent, n + k) /\ n + k \in 0..Len(sent)
  BY <1>1, <1>2, <1>4, Further
<1> QED BY <1>5

(* Part of the rest of a text is part of the text. *)
LEMMA PartOfRest ==
    ASSUME NEW s \in Texts, NEW n \in 0..Len(s), NEW b \in 0..(Len(s) - n), NEW r \in Int,
           b + r <= Len(s) - n, NEW t, t = Rest(s, n),
           NEW i, i = b + 1, NEW e, e = b + r, NEW u, u = SubSeq(t, i, e)
    PROVE  PartOf(u, s)
<1>0. Len(s) \in Nat /\ n \in Nat /\ n <= Len(s)
  BY Lengths
<1>1. /\ t \in Texts /\ Len(t) = Len(s) - n
      /\ \A k \in 1..(Len(s) - n) : t[k] = s[n + k]
  BY <1>0, RestIs
<1>2. \A k \in (b + 1)..(b + r) : k \in 1..Len(t) /\ t[k] \in Characters
  <2> TAKE k \in (b + 1)..(b + r)
  <2>1. k \in 1..Len(t)
    BY <1>0, <1>1
  <2> QED BY <1>1, <2>1, ElementOfSeq DEF Texts
<1>3. /\ u \in Texts /\ Len(u) = IF b + 1 <= b + r THEN (b + r) - (b + 1) + 1 ELSE 0
      /\ \A k \in 1..((b + r) - (b + 1) + 1) : u[k] = t[(b + 1) + k - 1]
  <2>1. u = SubSeq(t, b + 1, b + r) /\ b + 1 \in Int /\ b + r \in Int
    BY <1>0
  <2>2. /\ SubSeq(t, b + 1, b + r) \in Texts
        /\ Len(SubSeq(t, b + 1, b + r)) = IF b + 1 <= b + r THEN (b + r) - (b + 1) + 1 ELSE 0
        /\ \A k \in 1..((b + r) - (b + 1) + 1) : SubSeq(t, b + 1, b + r)[k] = t[(b + 1) + k - 1]
    BY <1>2, <2>1, SubSeqProperties DEF Texts
  <2> QED BY <2>1, <2>2
<1>4. Len(u) \in Nat /\ Len(u) = (IF 0 < r THEN r ELSE 0) /\ n + b + Len(u) <= Len(s)
  BY <1>0, <1>3
<1> DEFINE m == n + b
           c == Len(u)
           v == SubSeq(s, m + 1, m + c)
<1>5. m \in Nat /\ c \in Nat /\ m + c <= Len(s)
  BY <1>0, <1>4
<1>a. m = n + b /\ c = Len(u)
  OBVIOUS
<1> HIDE DEF m, c
<1>6. /\ v \in Texts /\ Len(v) = c
      /\ \A k \in 1..c : v[k] = s[m + k]
  <2>1. \A k \in (m + 1)..(m + c) : s[k] \in Characters
    BY <1>0, <1>5, ElementOfSeq DEF Texts
  <2>a. m + 1 \in Int /\ m + c \in Int
    BY <1>5
  <2>b. /\ SubSeq(s, m + 1, m + c) \in Texts
        /\ Len(SubSeq(s, m + 1, m + c)) = IF m + 1 <= m + c THEN (m + c) - (m + 1) + 1 ELSE 0
        /\ \A k \in 1..((m + c) - (m + 1) + 1) : SubSeq(s, m + 1, m + c)[k] = s[(m + 1) + k - 1]
    <3> DEFINE a == m + 1
               z == m + c
    <3>1. a \in Int /\ z \in Int /\ \A k \in a..z : s[k] \in Characters
      BY <2>a, <2>1
    <3> HIDE DEF a, z
    <3>2. /\ SubSeq(s, a, z) \in Texts
          /\ Len(SubSeq(s, a, z)) = IF a <= z THEN z - a + 1 ELSE 0
          /\ \A k \in 1..(z - a + 1) : SubSeq(s, a, z)[k] = s[a + k - 1]
      BY <3>1, SubSeqProperties DEF Texts
    <3> QED BY <3>2 DEF a, z
  <2>2. /\ v \in Texts /\ Len(v) = IF m + 1 <= m + c THEN (m + c) - (m + 1) + 1 ELSE 0
        /\ \A k \in 1..((m + c) - (m + 1) + 1) : v[k] = s[(m + 1) + k - 1]
    BY <2>b
  <2> HIDE DEF v
  <2>3. (m + c) - (m + 1) + 1 = c /\ \A k \in 1..c : (m + 1) + k - 1 = m + k
    BY <1>5
  <2>4. Len(v) = c
    BY <1>5, <2>2
  <2> QED BY <2>2, <2>3, <2>4
<1> HIDE DEF v
<1>7. ASSUME NEW k \in 1..c PROVE u[k] = v[k]
  <2>1. 0 < r /\ c = r /\ k \in 1..((b + r) - (b + 1) + 1) /\ (b + 1) + k - 1 = b + k
    BY <1>0, <1>4, <1>a
  <2>2. b + k \in 1..(Len(s) - n) /\ n + (b + k) = m + k
    BY <1>0, <2>1, <1>a
  <2>3. u[k] = t[b + k]
    BY <1>3, <2>1
  <2>4. t[b + k] = s[m + k]
    BY <1>1, <2>2
  <2> QED BY <1>6, <2>3, <2>4
<1>8. u = v
  BY <1>3, <1>6, <1>7, <1>a, Same
<1>9. m \in 0..Len(s)
  BY <1>0, <1>5
<1> QED BY <1>5, <1>8, <1>9, <1>a DEF v, PartOf

LEMMA NoneIs ==
    ASSUME NEW c, c = [pushback |-> <<>>, input |-> <<>>, client |-> "none"]
    PROVE  Fine(c) /\ Ahead(c) = <<>> /\ c.client = "none"
<1>1. <<>> \in Texts /\ <<>> \o <<>> = <<>> /\ Len(<<>>) = 0
  BY Joins, Lengths
<1>2. c.pushback = <<>> /\ c.input = <<>> /\ c.client = "none" /\ c \in Conns
  BY <1>1 DEF Conns, Clients
<1> QED BY <1>1, <1>2, RoomForTwo DEF Fine, Held, Ahead

LEMMA ResetIs ==
    ASSUME NEW c \in Conns
    PROVE  Fine(Reset(c)) /\ Ahead(Reset(c)) = <<>> /\ Reset(c).client = "none"
<1> DEFINE x == c.pushback
           y == c.input
           z == c.client
<1>1. c = [pushback |-> x, input |-> y, client |-> z]
  BY AheadIs
<1> DEFINE d == Reset(c)
<1>2. d = [c EXCEPT !.pushback = <<>>, !.input = <<>>, !.client = "none"]
  BY DEF Reset
<1> HIDE DEF x, y, z, d
<1>3. d = [pushback |-> <<>>, input |-> <<>>, client |-> "none"]
  BY <1>1, <1>2
<1> QED BY <1>3, NoneIs DEF d

LEMMA RestOfNothing == ASSUME NEW s \in Texts PROVE Rest(s, 0) = s /\ Rest(s, Len(s)) = <<>>
<1>1. Len(s) \in Nat
  BY Lengths
<1>2. Rest(s, Len(s)) \in Texts /\ Len(Rest(s, Len(s))) = 0
  BY <1>1, RestIs
<1>3. Rest(s, 0) = SubSeq(s, 1, Len(s))
  BY DEF Rest
<1> QED BY <1>2, <1>3, Lengths, Joins

LEMMA RequestIs ==
    ASSUME NEW r \in Requests
    PROVE  /\ r.method \in Texts /\ r.path \in Texts /\ r.query \in Texts /\ r.rest \in Texts
           /\ Url(r) \in Texts /\ Text(r) \in Texts
           /\ Len(Url(r)) = Len(r.path) + Len(r.query)
           /\ Text(r) = r.method \o (Url(r) \o r.rest)
           /\ Len(Text(r)) = Len(r.method) + Len(Url(r)) + Len(r.rest)
<1>1. r.method \in Texts /\ r.path \in Texts /\ r.query \in Texts /\ r.rest \in Texts
  BY AssumedTexts
<1> DEFINE a == r.method
           b == r.path
           c == r.query
           d == r.rest
<1>2. a \in Texts /\ b \in Texts /\ c \in Texts /\ d \in Texts
  BY <1>1
<1>3. Text(r) = ((a \o b) \o c) \o d /\ Url(r) = b \o c
  BY DEF Text, Url
<1> HIDE DEF a, b, c, d
<1>4. /\ b \o c \in Texts /\ Len(b \o c) = Len(b) + Len(c)
      /\ a \o b \in Texts
  BY <1>2, JoinIs
<1>5. (a \o b) \o c = a \o (b \o c) /\ (b \o c) \o d \in Texts /\ a \o (b \o c) \in Texts
  <2>1. (a \o b) \o c = a \o (b \o c)
    BY <1>2, Joins
  <2>2. (b \o c) \o d \in Texts
    BY <1>2, <1>4, JoinIs
  <2>3. a \o (b \o c) \in Texts
    BY <1>2, <1>4, JoinIs
  <2> QED BY <2>1, <2>2, <2>3
<1>6. (a \o (b \o c)) \o d = a \o ((b \o c) \o d)
  <2> DEFINE x == b \o c
  <2>1. x \in Texts
    BY <1>4
  <2> HIDE DEF x
  <2>2. (a \o x) \o d = a \o (x \o d)
    BY <1>2, <2>1, Joins
  <2> QED BY <2>2 DEF x
<1>7. /\ a \o ((b \o c) \o d) \in Texts
      /\ Len(a \o ((b \o c) \o d)) = Len(a) + Len((b \o c) \o d)
      /\ Len((b \o c) \o d) = Len(b \o c) + Len(d)
  BY <1>2, <1>4, <1>5, JoinIs
<1>8. Len(a) \in Nat /\ Len(b \o c) \in Nat /\ Len(d) \in Nat
  BY <1>2, <1>4, Lengths
<1>9. /\ Url(r) \in Texts /\ Text(r) \in Texts /\ Len(Url(r)) = Len(b) + Len(c)
      /\ Text(r) = a \o (Url(r) \o d)
      /\ Len(Text(r)) = Len(a) + Len(Url(r)) + Len(d)
  BY <1>3, <1>4, <1>5, <1>6, <1>7, <1>8
<1> QED BY <1>1, <1>9 DEF a, b, c, d

(* A client that connects finds nothing left of the one before it. *)
LEMMA ConnectsReads ==
    ASSUME Fine(conn), conn.client = "none", Ahead(conn) = <<>>, Connects
    PROVE  /\ Fine(conn') /\ conn'.client \in {"silent", "gone"} /\ Ahead(conn') = sent'
           /\ asked' \in Requests
           /\ \E n \in 0..Len(Text(asked')) : sent' = SubSeq(Text(asked'), 1, n)
           /\ sent' \in Texts
<1>a. PICK r \in Requests :
         \E n \in (Cuts \cap 0..Len(Text(r))), z \in {"silent", "gone"} :
            /\ asked' = r /\ sent' = SubSeq(Text(r), 1, n)
            /\ conn' = [conn EXCEPT !.input = sent', !.client = z]
  BY DEF Connects
<1>1. PICK n \in (Cuts \cap 0..Len(Text(r))), z \in {"silent", "gone"} :
         /\ asked' = r /\ sent' = SubSeq(Text(r), 1, n)
         /\ conn' = [conn EXCEPT !.input = sent', !.client = z]
  BY <1>a
<1>2. sent' \in Texts
  <2>1. Text(r) \in Texts /\ n \in 0..Len(Text(r))
    BY RequestIs
  <2> QED BY <1>1, <2>1, BeginIs
<1>3. conn.pushback = <<>>
  <2>1. /\ conn.pushback \in Texts /\ Len(Ahead(conn)) = Held(conn) + Left(conn)
        /\ Held(conn) \in Nat /\ Left(conn) \in Nat /\ Held(conn) = Len(conn.pushback)
    BY AheadIs DEF Fine
  <2>2. Len(Ahead(conn)) = 0
    BY Joins, Lengths
  <2>3. Held(conn) = 0
    BY <2>1, <2>2
  <2> QED BY <2>1, <2>3, Lengths
<1>4. conn = [pushback |-> conn.pushback, input |-> conn.input, client |-> conn.client]
  BY AheadIs DEF Fine
<1>5. conn' = [pushback |-> <<>>, input |-> sent', client |-> z]
  BY <1>1, <1>3, <1>4
<1>6. conn'.pushback = <<>> /\ conn'.input = sent' /\ conn'.client = z
  BY <1>5
<1>7. conn' \in Conns
  BY <1>2, <1>5, Joins DEF Conns, Clients
<1>8. Held(conn') = 0 /\ Ahead(conn') = sent'
  BY <1>2, <1>6, Joins, Lengths DEF Held, Ahead
<1> QED BY <1>1, <1>2, <1>6, <1>7, <1>8, RoomForTwo DEF Fine

LEMMA StreamInit == SetupInit => StreamInv
<1> SUFFICES ASSUME SetupInit PROVE StreamInv
  OBVIOUS
<1>1. Fine(conn) /\ Ahead(conn) = <<>> /\ conn.client = "none"
  BY NoneIs DEF SetupInit
<1>2. sent \in Texts /\ try \in Nat \ {0} /\ pc = "off"
  BY Joins DEF SetupInit
<1> QED BY <1>1, <1>2 DEF StreamInv

LEMMA StreamReads ==
    ASSUME StreamInv, Reads
    PROVE  StreamInv'
<1>0. /\ Fine(conn) /\ sent \in Texts /\ try \in Nat \ {0} /\ UNCHANGED sent
      /\ pc \in {"request", "headers"} /\ conn.client # "none"
      /\ Ahead(conn) \in Texts /\ Len(Ahead(conn)) \in Nat /\ Len(sent) \in Nat
  <2>1. Fine(conn) /\ sent \in Texts /\ try \in Nat \ {0}
    BY DEF StreamInv
  <2>2. UNCHANGED sent /\ pc \in {"request", "headers"}
    BY DEF Reads, Expects, GetsInvalid, GetRequest, HeaderLength, HeaderAuthorization,
           HeadersEnd, HeaderCharacter
  <2>3. conn.client # "none"
    BY <2>2 DEF StreamInv
  <2> QED BY <2>1, <2>2, <2>3, AheadIs, Lengths DEF Fine
<1> DEFINE Stream == /\ conn'.client # "none"
                     /\ \E n \in 0..Len(sent') : Ahead(conn') = Rest(sent', n)
           Place == /\ pc' \notin {"idle", "off", "defaults"} /\ try' \in Nat \ {0}
                    /\ pc' = "request" => type' = 0 /\ (Ahead(conn') = sent' \/ GivenUp')
                    /\ pc' = "headers" \/ (pc' = "command" /\ type' # 0) => Own'
<1>1. SUFFICES Fine(conn') /\ Stream /\ Place
  <2>1. sent' \in Texts
    BY <1>0
  <2> QED BY <2>1 DEF StreamInv
<1>2. ASSUME (conn'.client = "none" <=> conn.client = "none"),
             NEW k \in 0..Len(Ahead(conn)), Ahead(conn') = Rest(Ahead(conn), k)
      PROVE  Stream
  BY <1>0, <1>2, StreamOn
<1>3. pc = "headers" /\ UNCHANGED <<sent, credentials>> => Own'
  BY DEF StreamInv, Own, PartOf
<1>4. Ahead(conn') = Ahead(conn) => Ahead(conn') = Rest(Ahead(conn), 0) /\ 0 \in 0..Len(Ahead(conn))
  BY <1>0, RestOfNothing
<1> HIDE DEF Stream
<1>5. CASE Expects
  <2>1. /\ Fine(conn') /\ (conn'.client = "none" <=> conn.client = "none")
        /\ \/ conn'.client = conn.client /\ Ahead(conn') = Ahead(conn)
           \/ /\ conn'.client = "stopped" /\ Ahead(conn') = <<>>
              /\ BreaksOff(Ahead(conn), Expected[try])
    BY <1>0, <1>5, ExpectsReads
  <2>2. Stream
    <3>1. CASE Ahead(conn') = Ahead(conn)
      BY <1>2, <1>4, <2>1, <3>1
    <3>2. CASE Ahead(conn') = <<>>
      <4>1. Len(Ahead(conn)) \in 0..Len(Ahead(conn)) /\ Rest(Ahead(conn), Len(Ahead(conn))) = <<>>
        BY <1>0, RestOfNothing
      <4> QED BY <1>2, <2>1, <3>2, <4>1
    <3> QED BY <2>1, <3>1, <3>2
  <2>3. /\ try' = try + 1 /\ UNCHANGED <<pc, sent, type, credentials>>
        /\ try <= Len(Expected) /\ ~Accepts(Expected[try], conn)
    BY <1>5 DEF Expects
  <2>4. Place
    <3>1. try' \in Nat \ {0} /\ pc' \in {"request", "headers"}
      BY <1>0, <2>3
    <3>2. pc' = "request" => type' = 0 /\ (Ahead(conn') = sent' \/ GivenUp')
      <4> SUFFICES ASSUME pc = "request"
                   PROVE  type' = 0 /\ (Ahead(conn') = sent' \/ GivenUp')
        BY <2>3
      <4>1. type' = 0 /\ (Ahead(conn) = sent \/ GivenUp)
        BY <2>3 DEF StreamInv
      <4>2. CASE conn'.client = conn.client /\ Ahead(conn') = Ahead(conn)
        BY <1>0, <4>1, <4>2 DEF GivenUp
      <4>3. CASE /\ conn'.client = "stopped" /\ Ahead(conn') = <<>>
                 /\ BreaksOff(Ahead(conn), Expected[try])
        <5>1. try \in DOMAIN Methods /\ Expected[try] = Methods[try]
          <6>1. Expected = Methods
            BY DEF Expected
          <6>2. DOMAIN Methods = 1..Len(Methods) /\ Len(Methods) \in Nat
            BY PatternsAssumption, LenProperties
          <6> QED BY <1>0, <2>3, <6>1, <6>2
        <5>2. CASE Ahead(conn) = sent
          BY <1>0, <4>1, <4>3, <5>1, <5>2 DEF GivenUp
        <5>3. CASE GivenUp
          BY <1>0, <4>1, <4>3, <5>3 DEF GivenUp
        <5> QED BY <4>1, <5>2, <5>3
      <4> QED BY <2>1, <4>2, <4>3
    <3> QED BY <1>3, <2>3, <3>1, <3>2
  <2> QED BY <2>1, <2>2, <2>4
<1>6. CASE GetsInvalid
  <2>1. pc = "request" /\ pc' = "command" /\ UNCHANGED <<try, conn, sent, type>>
    BY <1>6 DEF GetsInvalid
  <2>2. Stream
    BY <1>0, <1>2, <1>4, <2>1
  <2>3. Place
    BY <1>0, <2>1 DEF StreamInv
  <2> QED BY <1>0, <2>1, <2>2, <2>3
<1>7. CASE GetRequest
  <2> DEFINE m == Len(Methods[try])
             t == Rest(Ahead(conn), m)
             n == RunUntil(t, 1, LineEnds)
  <2>1. /\ m \in 1..Len(Ahead(conn)) /\ n \in 0..(Len(Ahead(conn)) - m)
        /\ Fine(conn') /\ (conn'.client = "none" <=> conn.client = "none")
        /\ n < Len(Ahead(conn)) - m => Ahead(conn') = Rest(Ahead(conn), m + n + 1)
        /\ n = Len(Ahead(conn)) - m => Ahead(conn') = Rest(Ahead(conn), Len(Ahead(conn)))
    BY <1>0, <1>7, GetRequestReads
  <2> HIDE DEF m, n
  <2>2. Stream
    <3>1. CASE n < Len(Ahead(conn)) - m
      <4>1. m + n + 1 \in 0..Len(Ahead(conn))
        BY <1>0, <2>1, <3>1
      <4> QED BY <1>2, <2>1, <3>1, <4>1
    <3>2. CASE n = Len(Ahead(conn)) - m
      <4>1. Len(Ahead(conn)) \in 0..Len(Ahead(conn))
        BY <1>0
      <4> QED BY <1>2, <2>1, <3>2, <4>1
    <3> QED BY <1>0, <2>1, <3>1, <3>2
  <2>3. pc' = "headers" /\ try' = 1 /\ credentials' = <<>>
    BY <1>7 DEF GetRequest, Cleared
  <2>4. Own'
    <3>1. credentials' = SubSeq(sent', 0 + 1, 0 + 0) /\ Len(credentials') = 0 /\ 0 \in 0..Len(sent')
      BY <1>0, <2>3, SubSeqEmpty, Joins, Lengths
    <3> QED BY <1>0, <3>1 DEF Own, PartOf
  <2> QED BY <2>1, <2>2, <2>3, <2>4
<1>8. CASE HeaderLength
  <2> DEFINE m == Len(ContentLength)
             t == Rest(Ahead(conn), m)
  <2>1. /\ m \in 1..Len(Ahead(conn))
        /\ Fine(conn') /\ (conn'.client = "none" <=> conn.client = "none")
        /\ \E q \in 0..(Len(Ahead(conn)) - m) : Ahead(conn') = Rest(Ahead(conn), m + q)
    BY <1>0, <1>8, HeaderLengthReads
  <2> HIDE DEF m
  <2>2. PICK q \in 0..(Len(Ahead(conn)) - m) : Ahead(conn') = Rest(Ahead(conn), m + q)
    BY <2>1
  <2>3. m + q \in 0..Len(Ahead(conn))
    BY <1>0, <2>1
  <2>4. Stream
    BY <1>2, <2>1, <2>2, <2>3
  <2>5. pc = "headers" /\ UNCHANGED <<pc, try, sent, credentials>>
    BY <1>8 DEF HeaderLength
  <2> QED BY <1>0, <1>3, <2>1, <2>4, <2>5
<1>9. CASE HeaderAuthorization
  <2> DEFINE m == Len(Authorization)
             A == Ahead(conn)
             t == Rest(A, m)
  <2>1. /\ m \in 1..Len(A) /\ t \in Texts /\ Len(t) = Len(A) - m
        /\ Fine(conn') /\ (conn'.client = "none" <=> conn.client = "none")
        /\ \E b \in 0..Len(t), n \in Nat \ {0} : ValueRead(t, b, n)
    BY <1>0, <1>9, HeaderAuthorizationReads
  <2>z. PICK b \in 0..Len(t), n \in Nat \ {0} : ValueRead(t, b, n)
    BY <2>1
  <2>2. \/ /\ b + n < Len(t)
           /\ Ahead(conn') = Rest(A, m + (b + n))
           /\ pc' = pc /\ try' = 1
           /\ \E room \in Int : room <= n /\ credentials' = SubSeq(t, b + 1, b + room)
        \/ /\ Ahead(conn') = Rest(A, Len(A))
           /\ pc' = "hung"
    BY <2>z DEF ValueRead
  <2>a. t = Rest(A, m) /\ pc = "headers" /\ A \in Texts /\ Len(A) \in Nat
    BY <1>0, <1>9 DEF HeaderAuthorization
  <2>b. \A k \in 0..Len(A) : Ahead(conn') = Rest(A, k) => Stream
    BY <1>2, <2>1
  <2>c. PICK n0 \in 0..Len(sent) : A = Rest(sent, n0)
    BY <1>0 DEF StreamInv
  <2> HIDE DEF m, t, A
  <2>3. CASE pc' = "hung" /\ Ahead(conn') = Rest(A, Len(A))
    <3>1. Len(A) \in 0..Len(A)
      BY <2>a
    <3>2. Stream
      BY <2>3, <2>b, <3>1
    <3>3. try' \in Nat \ {0}
      <4>1. try = 2 /\ (try' = 1 \/ try' = try)
        BY <1>9 DEF HeaderAuthorization
      <4> QED BY <4>1
    <3> QED BY <2>1, <2>3, <3>2, <3>3
  <2>4. CASE /\ b + n < Len(t)
             /\ Ahead(conn') = Rest(A, m + (b + n))
             /\ pc' = pc /\ try' = 1
             /\ \E room \in Int : room <= n /\ credentials' = SubSeq(t, b + 1, b + room)
    <3>1. m + (b + n) \in 0..Len(A)
      BY <2>1, <2>4, <2>a
    <3>2. Stream
      BY <2>4, <2>b, <3>1
    <3>3. PICK room \in Int : room <= n /\ credentials' = SubSeq(t, b + 1, b + room)
      BY <2>4
    <3>4. Len(A) = Len(sent) - n0 /\ m \in 0..(Len(sent) - n0) /\ m \in Nat
          /\ t = Rest(sent, n0 + m) /\ n0 + m \in 0..Len(sent)
      <4>1. n0 \in Nat /\ n0 <= Len(sent)
        BY <1>0
      <4>2. Len(A) = Len(sent) - n0
        BY <1>0, <2>c, <4>1, RestIs
      <4>3. m \in 0..(Len(sent) - n0) /\ m \in Nat
        BY <1>0, <2>1, <4>1, <4>2
      <4> QED BY <1>0, <2>a, <2>c, <4>2, <4>3, Further
    <3> DEFINE n1 == n0 + m
    <3>5. n1 \in 0..Len(sent) /\ t = Rest(sent, n1) /\ Len(t) = Len(sent) - n1 /\ n1 \in Nat
      <4>1. n0 + m \in 0..Len(sent) /\ t = Rest(sent, n0 + m)
        BY <3>4
      <4> QED BY <1>0, <2>1, <3>4, <4>1
    <3> HIDE DEF n1
    <3>6. b \in 0..(Len(sent) - n1) /\ b + room <= Len(sent) - n1
      BY <1>0, <2>4, <3>3, <3>5
    <3>7. PartOf(credentials', sent)
      <4> DEFINE u == credentials'
                 i == b + 1
                 e == b + room
      <4>1. i = b + 1 /\ e = b + room /\ u = SubSeq(t, i, e)
        BY <3>3
      <4>2. PartOf(u, sent)
        <5> HIDE DEF i, e, u
        <5> QED BY <1>0, <3>5, <3>6, <4>1, PartOfRest
      <4> QED BY <4>2
    <3>9. Own'
      BY <1>0, <3>7 DEF Own, PartOf
    <3> QED BY <2>1, <2>4, <2>a, <3>2, <3>9
  <2> QED BY <2>2, <2>3, <2>4
<1>10. CASE HeadersEnd
  <2> DEFINE m == Len(EndOfHeaders)
  <2>1. m \in 1..Len(Ahead(conn)) /\ Fine(conn') /\ Ahead(conn') = Rest(Ahead(conn), m)
        /\ conn'.client = conn.client
    BY <1>0, <1>10, HeadersEndReads
  <2>2. m \in 0..Len(Ahead(conn))
    BY <1>0, <2>1
  <2>3. Stream
    BY <1>2, <2>1, <2>2
  <2>4. pc = "headers" /\ pc' = "command" /\ UNCHANGED <<try, sent, credentials>>
    BY <1>10 DEF HeadersEnd
  <2> QED BY <1>0, <1>3, <2>1, <2>3, <2>4
<1>11. CASE HeaderCharacter
  <2>1. /\ Fine(conn') /\ (conn'.client = "none" <=> conn.client = "none")
        /\ \/ Ahead(conn) = <<>> /\ Ahead(conn') = <<>>
           \/ Len(Ahead(conn)) >= 1 /\ Ahead(conn') = Rest(Ahead(conn), 1)
    BY <1>0, <1>11, HeaderCharacterReads
  <2>2. Stream
    <3>1. CASE Ahead(conn') = Ahead(conn)
      BY <1>2, <1>4, <2>1, <3>1
    <3>2. CASE Len(Ahead(conn)) >= 1 /\ Ahead(conn') = Rest(Ahead(conn), 1)
      <4>1. 1 \in 0..Len(Ahead(conn))
        BY <1>0, <3>2
      <4> QED BY <1>2, <2>1, <3>2, <4>1
    <3> QED BY <2>1, <3>1, <3>2
  <2>3. pc = "headers" /\ pc' \in {"headers", "command"} /\ try' = 1 /\ UNCHANGED <<sent, credentials>>
    BY <1>11 DEF HeaderCharacter, AfterCharacter
  <2> QED BY <1>3, <2>1, <2>2, <2>3
<1> QED BY <1>5, <1>6, <1>7, <1>8, <1>9, <1>10, <1>11 DEF Reads

LEMMA StreamStep == StreamInv /\ [SetupNext]_setupVars => StreamInv'
<1> SUFFICES ASSUME StreamInv, [SetupNext]_setupVars PROVE StreamInv'
  OBVIOUS
<1>0. Fine(conn) /\ conn \in Conns /\ sent \in Texts /\ try \in Nat \ {0}
  BY DEF StreamInv, Fine
<1>1. ASSUME conn' = Reset(conn), pc' \in {"idle", "off"}, UNCHANGED <<sent, try>>
      PROVE  StreamInv'
  <2>1. Fine(conn') /\ Ahead(conn') = <<>> /\ conn'.client = "none"
    BY <1>0, <1>1, ResetIs
  <2> QED BY <1>0, <1>1, <2>1 DEF StreamInv
<1>2. ASSUME UNCHANGED <<conn, sent, try>>, UNCHANGED <<pc, type, credentials>>
      PROVE  StreamInv'
  BY <1>2 DEF StreamInv, Own, PartOf, GivenUp, Ahead
<1>3. ASSUME UNCHANGED <<conn, sent, try>>, pc' \in {"parameters", "storing"},
             pc \in {"command", "parameters"}
      PROVE  StreamInv'
  BY <1>3 DEF StreamInv
<1>4. ASSUME UNCHANGED <<conn, sent, try>>, pc' \in {"idle", "defaults"},
             pc \in {"off", "defaults"}
      PROVE  StreamInv'
  BY <1>4 DEF StreamInv
<1>5. CASE ReadsOn
  BY <1>5, StreamReads DEF ReadsOn
<1>6. CASE Serves
  <2>1. pc = "idle" /\ pc' = "request" /\ try' = 1 /\ type' = 0 /\ Connects
    BY <1>6 DEF Serves, Connects
  <2>2. Ahead(conn) = <<>> /\ conn.client = "none"
    BY <2>1 DEF StreamInv
  <2>3. Fine(conn') /\ conn'.client # "none" /\ Ahead(conn') = sent' /\ sent' \in Texts
    BY <1>0, <2>1, <2>2, ConnectsReads
  <2>4. 0 \in 0..Len(sent') /\ Ahead(conn') = Rest(sent', 0)
    BY <2>3, RestOfNothing, Lengths
  <2> QED BY <2>1, <2>3, <2>4 DEF StreamInv
<1>7. CASE Submits
  BY <1>3, <1>7 DEF Submits
<1>8. CASE TakesParameter
  BY <1>2, <1>8 DEF TakesParameter, webVars
<1>9. CASE StartsStoring
  BY <1>3, <1>9 DEF StartsStoring
<1>10. CASE ShowsPage
  BY <1>1, <1>10 DEF ShowsPage, CommandReturns
<1>11. CASE WritesByte
  <2>1. CASE at < LastByte
    BY <1>2, <1>11, <2>1 DEF WritesByte
  <2>2. CASE ~(at < LastByte) /\ pc = "storing"
    BY <1>1, <1>11, <2>2 DEF WritesByte, CommandReturns
  <2>3. CASE ~(at < LastByte) /\ pc # "storing"
    BY <1>4, <1>11, <2>3 DEF WritesByte
  <2> QED BY <2>1, <2>2, <2>3
<1>12. CASE Starts
  BY <1>4, <1>12 DEF Starts
<1>13. CASE LosesPower
  BY <1>1, <1>13 DEF LosesPower
<1>14. CASE UNCHANGED setupVars
  BY <1>2, <1>14 DEF setupVars, webVars
<1> QED BY <1>5, <1>6, <1>7, <1>8, <1>9, <1>10, <1>11, <1>12, <1>13, <1>14 DEF SetupNext, Works

LEMMA StreamAlways == SetupSpec => []StreamInv
BY StreamInit, StreamStep, PTL DEF SetupSpec

(* However often expect() fails and pushes back what it has read, the      *)
(* program reads each character that the client has sent once, in their    *)
(* order, and none of an earlier client: for all requests, patterns and    *)
(* sizes of the pushback that are longer than the patterns.                *)
THEOREM StreamIsKept == SetupSpec => []StreamKept
<1>1. StreamInv => StreamKept
  <2> SUFFICES ASSUME StreamInv PROVE StreamKept
    OBVIOUS
  <2>1. CASE conn.client = "none"
    <3>1. 0 \in 0..Len(sent)
      BY Lengths DEF StreamInv
    <3> QED BY <2>1, <3>1 DEF StreamInv, StreamKept
  <2>2. CASE conn.client # "none"
    BY <2>2 DEF StreamInv, StreamKept
  <2> QED BY <2>1, <2>2
<1> QED BY <1>1, StreamAlways, PTL

(* The credentials that a command checks are a piece of what its own       *)
(* client has sent, and no character of them is changed.                   *)
THEOREM CredentialsAreOwn == SetupSpec => []CredentialsOwn
<1>1. StreamInv => CredentialsOwn
  BY DEF StreamInv, CredentialsOwn, Own, PartOf
<1> QED BY <1>1, StreamAlways, PTL

-------------------------------------------------------------------------------
(* The end of each round of the loops *)

LEMMA Shorter ==
    ASSUME NEW s \in Texts, NEW k \in Int, k >= 1, k <= Len(s)
    PROVE  Len(Rest(s, k)) < Len(s)
<1>1. Len(s) \in Nat /\ k \in Nat
  BY Lengths
<1>2. Len(Rest(s, k)) = Len(s) - k
  BY <1>1, RestIs
<1> QED BY <1>1, <1>2

(* One round of the loops of getRequest() and processHeaders(): there is   *)
(* less to read, or the next word is tried.                                *)
RoundEnds ==
    \/ Len(Ahead(conn')) < Len(Ahead(conn))
    \/ Len(Ahead(conn')) = Len(Ahead(conn)) /\ try' > try

LEMMA RoundStep ==
    ASSUME StreamInv, Reads, pc' = pc
    PROVE  RoundEnds
<1>0. /\ Fine(conn) /\ try \in Nat \ {0} /\ Ahead(conn) \in Texts /\ Len(Ahead(conn)) \in Nat
  BY AheadIs, Lengths DEF StreamInv, Fine
<1>1. CASE Expects
  <2>1. Ahead(conn') = Ahead(conn) \/ Ahead(conn') = <<>>
    BY <1>0, <1>1, ExpectsReads
  <2>2. try' = try + 1 /\ try + 1 > try
    BY <1>0, <1>1 DEF Expects
  <2>3. Len(<<>>) = 0
    OBVIOUS
  <2>4. Len(Ahead(conn')) = Len(Ahead(conn)) \/ Len(Ahead(conn')) < Len(Ahead(conn))
    BY <1>0, <2>1, <2>3
  <2> QED BY <2>2, <2>4 DEF RoundEnds
<1>2. CASE GetsInvalid \/ GetRequest \/ HeadersEnd
  BY <1>2 DEF GetsInvalid, GetRequest, HeadersEnd
<1>3. CASE HeaderLength
  <2> DEFINE m == Len(ContentLength)
             t == Rest(Ahead(conn), m)
  <2>1. /\ m \in 1..Len(Ahead(conn))
        /\ \E q \in 0..(Len(Ahead(conn)) - m) : Ahead(conn') = Rest(Ahead(conn), m + q)
    BY <1>0, <1>3, HeaderLengthReads
  <2> HIDE DEF m
  <2>2. PICK q \in 0..(Len(Ahead(conn)) - m) : Ahead(conn') = Rest(Ahead(conn), m + q)
    BY <2>1
  <2>3. m + q \in Int /\ m + q >= 1 /\ m + q <= Len(Ahead(conn))
    BY <1>0, <2>1
  <2> QED BY <1>0, <2>2, <2>3, Shorter DEF RoundEnds
<1>4. CASE HeaderAuthorization
  <2> DEFINE m == Len(Authorization)
             t == Rest(Ahead(conn), m)
  <2>1. /\ m \in 1..Len(Ahead(conn)) /\ Len(t) = Len(Ahead(conn)) - m
        /\ \E b \in 0..Len(t), n \in Nat \ {0} : ValueRead(t, b, n)
    BY <1>0, <1>4, HeaderAuthorizationReads
  <2>2. PICK b \in 0..Len(t), n \in Nat \ {0} : ValueRead(t, b, n)
    BY <2>1
  <2>3. pc' # "hung"
    BY <1>4 DEF HeaderAuthorization
  <2>4. b + n < Len(t) /\ Ahead(conn') = Rest(Ahead(conn), m + (b + n))
    BY <2>2, <2>3 DEF ValueRead
  <2> HIDE DEF m, t
  <2>5. m + (b + n) \in Int /\ m + (b + n) >= 1 /\ m + (b + n) <= Len(Ahead(conn))
    BY <1>0, <2>1, <2>4
  <2> QED BY <1>0, <2>4, <2>5, Shorter DEF RoundEnds
<1>5. CASE HeaderCharacter
  <2>1. pc' = "headers"
    BY <1>5 DEF HeaderCharacter
  <2>2. Len(Ahead(conn)) >= 1 /\ Ahead(conn') = Rest(Ahead(conn), 1)
    BY <1>0, <1>5, <2>1, HeaderCharacterReads
  <2> QED BY <1>0, <2>2, Shorter DEF RoundEnds
<1> QED BY <1>1, <1>2, <1>3, <1>4, <1>5 DEF Reads

(* Whatever a client sends and wherever it stops, each round of the loops  *)
(* of processConnection() reads on or tries the next word, and both have   *)
(* an end: for all requests, patterns and sizes of the pushback.           *)
THEOREM RoundsDoEnd == SetupSpec => RoundsEnd
<1>1. StreamInv /\ [SetupNext]_setupVars =>
        [(pc \in {"request", "headers"} /\ pc' = pc) => RoundEnds]_webVars
  <2> SUFFICES ASSUME StreamInv, [SetupNext]_setupVars, ~UNCHANGED webVars,
                      pc \in {"request", "headers"}, pc' = pc
               PROVE  RoundEnds
    BY DEF RoundEnds
  <2>1. Reads
    BY DEF SetupNext, Works, ReadsOn, Submits, TakesParameter, StartsStoring, ShowsPage,
           WritesByte, Starts, Serves, Connects, LosesPower, setupVars
  <2> QED BY <2>1, RoundStep
<1> QED BY <1>1, StreamAlways, PTL DEF SetupSpec, RoundsEnd, RoundEnds

-------------------------------------------------------------------------------
(* The settings *)

OfBytes(f) == f = [i \in Bytes |-> f[i]]

SettingsInv ==
    /\ at \in Bytes /\ OfBytes(ram) /\ OfBytes(eeprom)
    /\ pc \in {"idle", "request", "headers", "command", "hung"} => eeprom = ram
    /\ pc \in {"storing", "defaults"} => \A i \in Bytes : i < at => eeprom[i] = ram[i]

LEMMA AssignedIs ==
    ASSUME NEW config, OfBytes(config), NEW name, NEW value
    PROVE  OfBytes(Assigned(config, name, value))
<1>1. \A i, v : OfBytes([config EXCEPT ![i] = v])
  BY DEF OfBytes
<1>2. \A i, v, j, w : OfBytes([config EXCEPT ![i] = v, ![j] = w])
  BY DEF OfBytes
<1> DEFINE n == Number(name, 10) % 256
           v == Number(value, IF n <= 5 THEN 16 ELSE 10)
<1> HIDE DEF n
<1>3. Assigned(config, name, value) =
        IF n > 24 THEN config
        ELSE IF n = 22 THEN [config EXCEPT ![PortLow] = v % 256, ![PortHigh] = v \div 256]
        ELSE [config EXCEPT ![ByteOf(n)] = v % 256]
  BY DEF Assigned, n
<1> DEFINE x == Assigned(config, name, value)
<1> HIDE DEF v, x
<1>4. \/ x = config
      \/ x = [config EXCEPT ![PortLow] = v % 256, ![PortHigh] = v \div 256]
      \/ x = [config EXCEPT ![ByteOf(n)] = v % 256]
  <2>1. CASE n > 24
    BY <1>3, <2>1 DEF x
  <2>2. CASE ~(n > 24) /\ n = 22
    BY <1>3, <2>2 DEF x
  <2>3. CASE ~(n > 24) /\ n # 22
    BY <1>3, <2>3 DEF x
  <2> QED BY <2>1, <2>2, <2>3
<1>5. OfBytes(x)
  <2>1. CASE x = config
    BY <2>1
  <2>2. CASE x = [config EXCEPT ![PortLow] = v % 256, ![PortHigh] = v \div 256]
    BY <1>2, <2>2
  <2>3. CASE x = [config EXCEPT ![ByteOf(n)] = v % 256]
    BY <1>1, <2>3
  <2> QED BY <1>4, <2>1, <2>2, <2>3
<1> QED BY <1>5 DEF x

LEMMA SettingsInit == SetupInit => SettingsInv
BY DEF SetupInit, SettingsInv, OfBytes, Blank, Bytes

LEMMA SettingsStep == SettingsInv /\ [SetupNext]_setupVars => SettingsInv'
<1> SUFFICES ASSUME SettingsInv, [SetupNext]_setupVars PROVE SettingsInv'
  OBVIOUS
<1>0. at \in Bytes /\ OfBytes(ram) /\ OfBytes(eeprom)
  BY DEF SettingsInv
<1>1. ASSUME UNCHANGED <<at, ram, eeprom>>,
             pc' \in {"idle", "request", "headers", "command", "hung"} =>
                 pc \in {"idle", "request", "headers", "command", "hung"},
             pc' \in {"storing", "defaults"} => pc' = pc
      PROVE  SettingsInv'
  BY <1>1 DEF SettingsInv, OfBytes
<1>2. CASE ReadsOn
  <2>1. UNCHANGED <<at, ram, eeprom>> /\ pc \in {"request", "headers"}
        /\ pc' \in {"request", "headers", "command", "hung"}
    BY <1>2 DEF ReadsOn, settings, Reads, Expects, GetsInvalid, GetRequest, HeaderLength,
                HeaderAuthorization, HeadersEnd, HeaderCharacter, AfterCharacter
  <2> QED BY <1>1, <2>1
<1>3. CASE Serves
  BY <1>1, <1>3 DEF Serves, Connects, settings
<1>4. CASE Submits
  BY <1>1, <1>4 DEF Submits
<1>5. CASE TakesParameter
  <2>1. OfBytes(ram') /\ pc = "parameters" /\ UNCHANGED <<pc, at, eeprom>>
    BY <1>0, <1>5, AssignedIs DEF TakesParameter, webVars
  <2> QED BY <1>0, <2>1 DEF SettingsInv, OfBytes
<1>6. CASE StartsStoring
  <2>1. pc' = "storing" /\ at' = 0 /\ UNCHANGED <<ram, eeprom>>
    BY <1>6 DEF StartsStoring
  <2> QED BY <1>0, <2>1 DEF SettingsInv, OfBytes, Bytes
<1>7. CASE ShowsPage
  BY <1>1, <1>7 DEF ShowsPage, CommandReturns, settings
<1>8. CASE WritesByte
  <2>1. /\ pc \in {"storing", "defaults"} /\ UNCHANGED ram /\ at' = (at + 1) % 27
        /\ eeprom' = [eeprom EXCEPT ![at] = ram[at]]
        /\ at < 26 => pc' = pc
        /\ ~(at < 26) => pc' = "idle"
    BY <1>8 DEF WritesByte, CommandReturns, LastByte
  <2>2. OfBytes(eeprom') /\ OfBytes(ram')
    BY <1>0, <2>1 DEF OfBytes
  <2>3. \A i \in Bytes : i < at => eeprom[i] = ram[i]
    BY <2>1 DEF SettingsInv
  <2>4. \A i \in Bytes : i < at + 1 => eeprom'[i] = ram'[i]
    BY <1>0, <2>1, <2>3 DEF OfBytes, Bytes
  <2>5. CASE at < 26
    <3>1. at' = at + 1 /\ at' \in Bytes
      BY <1>0, <2>1, <2>5 DEF Bytes
    <3> QED BY <2>1, <2>2, <2>4, <2>5, <3>1 DEF SettingsInv
  <2>6. CASE ~(at < 26)
    <3>1. at = 26 /\ at' = 0 /\ at' \in Bytes
      BY <1>0, <2>1, <2>6 DEF Bytes
    <3>2. eeprom' = ram'
      BY <2>2, <2>4, <3>1 DEF OfBytes, Bytes
    <3> QED BY <2>1, <2>2, <2>6, <3>1, <3>2 DEF SettingsInv
  <2> QED BY <2>5, <2>6
<1>9. CASE Starts
  <2>1. /\ at' = 0 /\ UNCHANGED eeprom
        /\ \/ ram' = Default /\ pc' = "defaults"
           \/ ram' = eeprom /\ pc' = "idle"
    BY <1>9 DEF Starts
  <2>2. OfBytes(Default)
    BY DEF OfBytes, Default
  <2> QED BY <1>0, <2>1, <2>2 DEF SettingsInv, OfBytes, Bytes
<1>10. CASE LosesPower
  BY <1>1, <1>10 DEF LosesPower
<1>11. CASE UNCHANGED setupVars
  BY <1>1, <1>11 DEF setupVars, webVars, settings
<1> QED BY <1>2, <1>3, <1>4, <1>5, <1>6, <1>7, <1>8, <1>9, <1>10, <1>11 DEF SetupNext, Works

(* Between two requests the board works with the settings it will work     *)
(* with after the next start, whatever requests came and whenever the      *)
(* power was lost: the copy in the memory and the EEPROM differ only while *)
(* parameters are taken and while they are written.                        *)
THEOREM SettingsAreStored == SetupSpec => []SettingsStored
<1>1. SettingsInv => SettingsStored
  BY DEF SettingsInv, SettingsStored
<1> QED BY <1>1, SettingsInit, SettingsStep, PTL DEF SetupSpec

-------------------------------------------------------------------------------
(* The line of the request *)

(* How long the method, the URL and what follows are, ... *)
MethodLen(r) == Len(r.method)
UrlLen(r) == Len(Url(r))
RestLen(r) == Len(r.rest)

(* ... and where they are in the text of the request. *)
LEMMA TextIs ==
    ASSUME NEW r \in Requests
    PROVE  /\ Text(r) \in Texts /\ Url(r) \in Texts /\ r.method \in Texts /\ r.rest \in Texts
           /\ MethodLen(r) \in Nat /\ UrlLen(r) \in Nat /\ RestLen(r) \in Nat
           /\ MethodLen(r) = Len(r.method) /\ UrlLen(r) = Len(Url(r)) /\ RestLen(r) = Len(r.rest)
           /\ Len(Text(r)) = MethodLen(r) + UrlLen(r) + RestLen(r)
           /\ \A i \in 1..MethodLen(r) : Text(r)[i] = r.method[i]
           /\ \A i \in 1..UrlLen(r) : Text(r)[MethodLen(r) + i] = Url(r)[i]
           /\ \A i \in 1..RestLen(r) : Text(r)[MethodLen(r) + (UrlLen(r) + i)] = r.rest[i]
<1> DEFINE a == r.method
           b == Url(r)
           d == r.rest
           x == Text(r)
           l == MethodLen(r)
           u == UrlLen(r)
<1>0. l = Len(a) /\ u = Len(b) /\ RestLen(r) = Len(d)
  BY DEF MethodLen, UrlLen, RestLen
<1>1. /\ a \in Texts /\ b \in Texts /\ d \in Texts /\ x \in Texts
      /\ x = a \o (b \o d) /\ l = Len(a) /\ u = Len(b)
      /\ Len(x) = Len(a) + Len(b) + Len(d)
  BY <1>0, RequestIs
<1> HIDE DEF a, b, d, x, l, u
<1>2. l \in Nat /\ u \in Nat /\ Len(d) \in Nat
  BY <1>1, Lengths
<1>3. /\ b \o d \in Texts /\ Len(b \o d) = u + Len(d)
      /\ \A i \in 1..u : (b \o d)[i] = b[i]
      /\ \A i \in 1..Len(d) : (b \o d)[u + i] = d[i]
  BY <1>1, JoinIs
<1> DEFINE w == b \o d
<1>w. w = b \o d
  OBVIOUS
<1> HIDE DEF w
<1>4. /\ \A i \in 1..l : x[i] = a[i]
      /\ \A i \in 1..(u + Len(d)) : x[l + i] = w[i]
  BY <1>1, <1>3, <1>w, JoinIs
<1>5. \A i \in 1..u : x[l + i] = b[i]
  BY <1>2, <1>3, <1>4, <1>w
<1>6. \A i \in 1..Len(d) : x[l + (u + i)] = d[i]
  <2> TAKE i \in 1..Len(d)
  <2>1. u + i \in 1..(u + Len(d))
    BY <1>2
  <2> QED BY <1>3, <1>4, <1>w, <2>1
<1>7. /\ x \in Texts /\ b \in Texts /\ Len(x) = l + u + Len(d)
  BY <1>1
<1>8. /\ a \in Texts /\ d \in Texts /\ l = Len(a) /\ u = Len(b) /\ RestLen(r) = Len(d)
      /\ Len(x) = l + u + RestLen(r) /\ RestLen(r) \in Nat
      /\ \A i \in 1..RestLen(r) : x[l + (u + i)] = d[i]
  BY <1>0, <1>1, <1>2, <1>6, <1>7
<1> QED BY <1>2, <1>4, <1>5, <1>7, <1>8 DEF a, b, d, x, l, u

Begins(p, s) == Len(p) <= Len(s) /\ SubSeq(s, 1, Len(p)) = p

LEMMA MethodIs ==
    ASSUME NEW k \in DOMAIN Methods
    PROVE  /\ Methods[k] \in Patterns /\ Methods[k] \in Words /\ Methods[k] \in Texts
           /\ Len(Methods[k]) \in Nat \ {0} /\ k \in Nat \ {0} /\ k <= Len(Methods)
           /\ DOMAIN Methods = 1..Len(Methods)
<1>1. DOMAIN Methods = 1..Len(Methods) /\ Len(Methods) \in Nat
  BY PatternsAssumption, LenProperties
<1>2. Methods[k] \in Patterns /\ Methods[k] \in Words
  BY DEF Patterns, Words
<1> QED BY <1>1, <1>2, PatternIs

(* A request whose line has arrived begins with its method, ... *)
LEMMA BeginsAsked ==
    ASSUME NEW r \in Requests, NEW e \in 0..Len(Text(r)), NEW s, s = SubSeq(Text(r), 1, e),
           e > MethodLen(r) + UrlLen(r)
    PROVE  Begins(r.method, s)
<1> DEFINE a == r.method
           x == Text(r)
           l == MethodLen(r)
<1>1. /\ x \in Texts /\ l \in Nat /\ UrlLen(r) \in Nat /\ \A i \in 1..l : x[i] = a[i]
      /\ l = Len(a) /\ s = SubSeq(x, 1, e) /\ e \in 0..Len(x) /\ Len(x) \in Nat
      /\ e > l + UrlLen(r)
  BY TextIs, Lengths
<1>2. a \in Texts
  BY RequestIs
<1> HIDE DEF a, x, l
<1>3. e > l /\ l \in 0..e
  BY <1>1
<1>4. s \in Texts /\ Len(s) = e /\ \A i \in 1..e : s[i] = x[i]
  BY <1>1, BeginIs
<1>5. SubSeq(s, 1, l) \in Texts /\ Len(SubSeq(s, 1, l)) = l
      /\ \A i \in 1..l : SubSeq(s, 1, l)[i] = s[i]
  BY <1>3, <1>4, BeginIs
<1>6. \A i \in 1..l : SubSeq(s, 1, l)[i] = a[i]
  BY <1>1, <1>3, <1>4, <1>5
<1>7. SubSeq(s, 1, l) = a
  BY <1>1, <1>2, <1>5, <1>6, Same
<1> QED BY <1>1, <1>3, <1>4, <1>7 DEF Begins, a

(* ... and if it begins with a word of getRequest(), that is its method    *)
(* and what getRequest() reads behind it is its URL.                       *)
Line(r, e, s, k) ==
    /\ r \in Requests /\ WellFormed(r) /\ e \in 0..Len(Text(r)) /\ s = SubSeq(Text(r), 1, e)
    /\ e > MethodLen(r) + UrlLen(r) /\ k \in DOMAIN Methods /\ Begins(Methods[k], s)

LineRead(r, t, n) ==
    n = UrlLen(r) /\ n < Len(t) /\ \A q \in 0..n : SubSeq(t, 1, q) = SubSeq(Url(r), 1, q)

LEMMA LineIs ==
    ASSUME NEW r, NEW e, NEW s, NEW k, Line(r, e, s, k),
           NEW t, t = Rest(s, Len(Methods[k])), NEW n, n = RunUntil(t, 1, LineEnds)
    PROVE  Methods[k] = r.method /\ LineRead(r, t, n)
<1>0. /\ r \in Requests /\ WellFormed(r) /\ e \in 0..Len(Text(r)) /\ s = SubSeq(Text(r), 1, e)
      /\ e > MethodLen(r) + UrlLen(r) /\ k \in DOMAIN Methods /\ Begins(Methods[k], s)
  BY DEF Line
<1> DEFINE p == Methods[k]
           m == Len(p)
           x == Text(r)
           y == Url(r)
           u == UrlLen(r)
           d == r.rest
<1>1. /\ x \in Texts /\ y \in Texts /\ Len(x) \in Nat /\ u \in Nat /\ Len(d) \in Nat
      /\ u = Len(y) /\ RestLen(r) = Len(d) /\ e \in 0..Len(x) /\ s = SubSeq(x, 1, e)
  BY <1>0, TextIs, Lengths
<1>2. p \in Texts /\ m \in Nat \ {0} /\ m <= Len(s) /\ SubSeq(s, 1, m) = p
  BY <1>0, MethodIs DEF Begins
<1>3. s \in Texts /\ Len(s) = e /\ \A i \in 1..e : s[i] = x[i]
  BY <1>1, BeginIs
<1>4. p = r.method
  <2>1. p = SubSeq(x, 1, m) => r.method = p
    BY <1>0 DEF WellFormed
  <2> HIDE DEF p, m, x
  <2>2. m \in 0..e /\ m \in 0..Len(x)
    BY <1>1, <1>2, <1>3
  <2>3. SubSeq(s, 1, m) \in Texts /\ Len(SubSeq(s, 1, m)) = m
        /\ \A i \in 1..m : SubSeq(s, 1, m)[i] = s[i]
    BY <1>3, <2>2, BeginIs
  <2>4. SubSeq(x, 1, m) \in Texts /\ Len(SubSeq(x, 1, m)) = m
        /\ \A i \in 1..m : SubSeq(x, 1, m)[i] = x[i]
    BY <1>1, <2>2, BeginIs
  <2>5. \A i \in 1..m : SubSeq(s, 1, m)[i] = SubSeq(x, 1, m)[i]
    BY <1>3, <2>2, <2>3, <2>4
  <2>6. SubSeq(s, 1, m) = SubSeq(x, 1, m)
    BY <2>3, <2>4, <2>5, Same
  <2> QED BY <1>2, <2>1, <2>6
<1>5. /\ Len(x) = m + u + Len(d) /\ e > m + u
      /\ \A i \in 1..u : x[m + i] = y[i]
      /\ \A i \in 1..Len(d) : x[m + (u + i)] = d[i]
  <2>1. m = MethodLen(r)
    BY <1>0, <1>4, TextIs
  <2> HIDE DEF p, m
  <2>2. /\ Len(x) = m + u + RestLen(r) /\ e > m + u
        /\ \A i \in 1..u : x[m + i] = y[i]
        /\ \A i \in 1..RestLen(r) : x[m + (u + i)] = d[i]
    BY <1>0, <2>1, TextIs
  <2> QED BY <1>1, <2>2
<1>6. /\ \A i \in 1..u : y[i] \notin LineEnds
      /\ d # <<>> => Head(d) \in LineEnds
  BY <1>0 DEF WellFormed, UrlLen
<1>7. d \in Texts /\ t = Rest(s, m)
  BY <1>0, RequestIs
<1> HIDE DEF p, m, x, y, u, d
<1>8. t \in Texts /\ Len(t) = e - m /\ \A i \in 1..(e - m) : t[i] = s[m + i]
  <2>1. m <= e /\ m \in Nat /\ Len(s) = e
    BY <1>2, <1>3
  <2> HIDE DEF p, m
  <2>2. Rest(s, m) \in Texts /\ Len(Rest(s, m)) = e - m
        /\ \A i \in 1..(e - m) : Rest(s, m)[i] = s[m + i]
    BY <1>3, <2>1, RestIs
  <2> QED BY <1>7, <2>2
<1>9. Len(t) > u /\ Len(t) \in Nat
  BY <1>1, <1>2, <1>5, <1>8
<1>10. \A i \in 1..u : t[i] = y[i]
  <2> TAKE i \in 1..u
  <2>1. i \in 1..(e - m) /\ m + i \in 1..e
    BY <1>1, <1>2, <1>5
  <2> QED BY <1>3, <1>5, <1>8, <2>1
<1>11. t[u + 1] \in LineEnds
  <2>1. u + 1 \in 1..(e - m) /\ m + (u + 1) \in 1..e /\ 1 \in 1..Len(d)
    BY <1>1, <1>2, <1>5
  <2>2. t[u + 1] = d[1]
    BY <1>3, <1>5, <1>8, <2>1
  <2>3. d # <<>>
    BY <1>7, <2>1, Lengths
  <2>4. Head(d) = d[1]
    BY <1>7, <2>3, HeadTailProperties DEF Texts
  <2> QED BY <1>6, <2>2, <2>3, <2>4
<1>12. /\ n \in 0..Len(t) /\ \A i \in 1..(1 + n - 1) : i <= Len(t) /\ t[i] \notin LineEnds
       /\ 1 + n > Len(t) \/ t[1 + n] \in LineEnds
  <2>1. 1 \in Nat \ {0}
    OBVIOUS
  <2> QED BY <1>8, <2>1, RunUntilIs
<1>13. n = u
  <2>1. CASE n < u
    <3>1. n + 1 \in 1..u /\ ~(1 + n > Len(t)) /\ 1 + n = n + 1
      BY <1>1, <1>9, <1>12, <2>1
    <3> QED BY <1>6, <1>10, <1>12, <3>1
  <2>2. CASE n > u
    <3>1. u + 1 \in 1..(1 + n - 1)
      BY <1>1, <1>9, <1>12, <2>2
    <3> QED BY <1>11, <1>12, <3>1
  <2> QED BY <1>1, <1>9, <1>12, <2>1, <2>2
<1>14. ASSUME NEW q \in 0..n PROVE SubSeq(t, 1, q) = SubSeq(y, 1, q)
  <2>1. q \in 0..Len(t) /\ q \in 0..u /\ u = Len(y)
    BY <1>1, <1>9, <1>13
  <2>2. /\ SubSeq(t, 1, q) \in Texts /\ Len(SubSeq(t, 1, q)) = q
        /\ \A i \in 1..q : SubSeq(t, 1, q)[i] = t[i]
    BY <1>8, <2>1, BeginIs
  <2>3. /\ SubSeq(y, 1, q) \in Texts /\ Len(SubSeq(y, 1, q)) = q
        /\ \A i \in 1..q : SubSeq(y, 1, q)[i] = y[i]
    BY <1>1, <2>1, BeginIs
  <2>4. \A i \in 1..q : SubSeq(t, 1, q)[i] = SubSeq(y, 1, q)[i]
    BY <1>10, <2>1, <2>2, <2>3
  <2> QED BY <2>2, <2>3, <2>4, Same
<1> QED BY <1>4, <1>9, <1>13, <1>14 DEF p, y, u, LineRead

(* The choice of the command *)

PathLen(r) == Len(r.path)

LEMMA UrlIs ==
    ASSUME NEW r \in Requests, WellFormed(r)
    PROVE  /\ r.path \in Texts /\ Url(r) \in Texts
           /\ PathLen(r) \in Nat \ {0} /\ UrlLen(r) \in Nat
           /\ PathLen(r) = Len(r.path) /\ UrlLen(r) = Len(Url(r)) /\ PathLen(r) <= UrlLen(r)
           /\ \A i \in 1..PathLen(r) : Url(r)[i] = r.path[i] /\ Url(r)[i] # "?"
           /\ Url(r)[1] = "/" /\ Head(Url(r)) = "/" /\ Url(r) # <<>>
           /\ PathLen(r) < UrlLen(r) => Url(r)[PathLen(r) + 1] = "?"
<1> DEFINE a == r.path
           b == r.query
           u == Url(r)
           l == PathLen(r)
           n == UrlLen(r)
<1>1. a \in Texts /\ b \in Texts /\ u = a \o b /\ l = Len(a) /\ n = Len(u)
  BY RequestIs DEF Url, PathLen, UrlLen
<1>2. /\ a # <<>> /\ Head(a) = "/" /\ (b # <<>> => Head(b) = "?")
      /\ \A i \in 1..l : a[i] # "?"
  BY DEF WellFormed, PathLen
<1> HIDE DEF a, b, u, l, n
<1>3. l \in Nat \ {0} /\ Len(b) \in Nat
  BY <1>1, <1>2, Lengths
<1>4. /\ u \in Texts /\ n = l + Len(b)
      /\ \A i \in 1..l : u[i] = a[i]
      /\ \A i \in 1..Len(b) : u[l + i] = b[i]
  BY <1>1, JoinIs
<1>5. u[1] = "/"
  <2>1. Head(a) = a[1]
    BY <1>1, <1>2, HeadTailProperties DEF Texts
  <2>2. 1 \in 1..l
    BY <1>3
  <2> QED BY <1>2, <1>4, <2>1, <2>2
<1>6. u # <<>> /\ Head(u) = u[1]
  <2>1. Len(u) \in Nat /\ Len(u) # 0
    BY <1>1, <1>3, <1>4
  <2>2. u # <<>>
    BY <1>4, <2>1, Lengths
  <2> QED BY <1>4, <2>2, HeadTailProperties DEF Texts
<1>7. ASSUME l < n PROVE u[l + 1] = "?"
  <2>1. 1 \in 1..Len(b)
    BY <1>3, <1>4, <1>7
  <2>2. b # <<>>
    BY <1>1, <2>1, Lengths
  <2>3. Head(b) = b[1]
    BY <1>1, <2>2, HeadTailProperties DEF Texts
  <2> QED BY <1>2, <1>4, <2>1, <2>2, <2>3
<1>8. l <= n /\ n \in Nat
  BY <1>3, <1>4
<1> QED BY <1>1, <1>2, <1>3, <1>4, <1>5, <1>6, <1>7, <1>8 DEF a, u, l, n

LEMMA PathLengthIs ==
    ASSUME NEW r \in Requests, WellFormed(r)
    PROVE  PathLength(Url(r)) = PathLen(r)
<1> DEFINE u == Url(r)
           l == PathLen(r)
           n == PathLength(u)
           z == UrlLen(r)
           G == {"?"}
<1>1. /\ u \in Texts /\ l \in Nat \ {0} /\ z \in Nat /\ z = Len(u) /\ l <= z
      /\ \A i \in 1..l : u[i] # "?"
      /\ l < z => u[l + 1] = "?"
  BY UrlIs
<1>2. n = RunUntil(u, 1, G)
  BY DEF PathLength
<1> HIDE DEF u, l, n, z, G
<1>3. /\ n \in 0..z /\ \A i \in 1..(1 + n - 1) : i <= z /\ u[i] \notin G
      /\ 1 + n > z \/ u[1 + n] \in G
  <2>1. 1 \in Nat \ {0}
    OBVIOUS
  <2>2. /\ n \in 0..Len(u) /\ \A i \in 1..(1 + n - 1) : i <= Len(u) /\ u[i] \notin G
        /\ 1 + n > Len(u) \/ u[1 + n] \in G
    BY <1>1, <1>2, <2>1, RunUntilIs
  <2> QED BY <1>1, <2>2
<1>4. ASSUME n < l PROVE FALSE
  <2>1. n + 1 \in 1..l /\ ~(1 + n > z) /\ 1 + n = n + 1
    BY <1>1, <1>3, <1>4
  <2> QED BY <1>1, <1>3, <2>1 DEF G
<1>5. ASSUME n > l PROVE FALSE
  <2>1. l + 1 \in 1..(1 + n - 1) /\ l < z
    BY <1>1, <1>3, <1>5
  <2> QED BY <1>1, <1>3, <2>1 DEF G
<1>6. n = l
  BY <1>1, <1>3, <1>4, <1>5
<1> QED BY <1>6 DEF n, u, l

Slash == <<"/">>

LEMMA OneIs == ASSUME NEW S, NEW x \in S PROVE <<x>> \in Seq(S) /\ Len(<<x>>) = 1 /\ <<x>>[1] = x
<1>1. <<x>> \in Seq(S)
  OBVIOUS
<1>2. Len(<<x>>) = 1 /\ <<x>>[1] = x
  OBVIOUS
<1> QED BY <1>1, <1>2

LEMMA TwoIs ==
    ASSUME NEW S, NEW x \in S, NEW y \in S
    PROVE  <<x, y>> \in Seq(S) /\ Len(<<x, y>>) = 2
<1>1. <<x, y>> \in Seq(S)
  OBVIOUS
<1>2. Len(<<x, y>>) = 2
  OBVIOUS
<1> QED BY <1>1, <1>2

LEMMA SlashIs ==
    ASSUME NEW r \in Requests, WellFormed(r)
    PROVE  Slash \in Texts /\ Len(Slash) = 1 /\ Slash[1] = "/" /\ "/" \in Characters
<1>1. Url(r) \in Texts /\ Url(r) # <<>> /\ Url(r)[1] = "/"
  BY UrlIs
<1>2. Len(Url(r)) \in Nat /\ Len(Url(r)) # 0
  BY <1>1, Lengths
<1>3. 1 \in 1..Len(Url(r))
  BY <1>2
<1>4. "/" \in Characters
  BY <1>1, <1>3, ElementOfSeq DEF Texts
<1> QED BY <1>4, OneIs DEF Slash, Texts

(* The default page is asked for with a path that is a slash, whatever the *)
(* parameters are.                                                         *)
LEMMA DefaultIs ==
    ASSUME NEW r \in Requests, WellFormed(r)
    PROVE  (Url(r) \in {<<>>, Slash} \/ (Len(Url(r)) > 1 /\ SubSeq(Url(r), 1, 2) = <<"/", "?">>))
           <=> r.path = Slash
<1> DEFINE u == Url(r)
           a == r.path
           l == PathLen(r)
           z == UrlLen(r)
<1>1. /\ u \in Texts /\ a \in Texts /\ l \in Nat \ {0} /\ z \in Nat /\ z = Len(u) /\ l = Len(a) /\ l <= z
      /\ \A i \in 1..l : u[i] = a[i] /\ u[i] # "?"
      /\ u[1] = "/" /\ u # <<>>
      /\ l < z => u[l + 1] = "?"
  BY UrlIs
<1> HIDE DEF u, a, l, z
<1>2. Slash \in Texts /\ Len(Slash) = 1 /\ Slash[1] = "/"
  BY SlashIs
<1>3. a = Slash <=> l = 1
  <2>1. ASSUME l = 1 PROVE a = Slash
    <3>1. Len(a) = Len(Slash) /\ \A i \in 1..Len(a) : a[i] = Slash[i]
      BY <1>1, <1>2, <2>1
    <3> QED BY <1>1, <1>2, <3>1, Same
  <2> QED BY <1>1, <1>2, <2>1
<1>4. u = Slash <=> z = 1
  <2>1. ASSUME z = 1 PROVE u = Slash
    <3>1. Len(u) = Len(Slash) /\ \A i \in 1..Len(u) : u[i] = Slash[i]
      BY <1>1, <1>2, <2>1
    <3> QED BY <1>1, <1>2, <3>1, Same
  <2> QED BY <1>1, <1>2, <2>1
<1> DEFINE w == <<"/", "?">>
           v == SubSeq(u, 1, 2)
<1>5. z > 1 => (v = w <=> u[2] = "?")
  <2> SUFFICES ASSUME z > 1 PROVE v = w <=> u[2] = "?"
    OBVIOUS
  <2>1. 2 \in 0..Len(u)
    BY <1>1
  <2>2. v \in Texts /\ Len(v) = 2 /\ \A i \in 1..2 : v[i] = u[i]
    BY <1>1, <2>1, BeginIs
  <2>3. w[1] = "/" /\ w[2] = "?"
    OBVIOUS
  <2>4. ASSUME u[2] = "?" PROVE v = w
    <3>1. "/" \in Characters /\ "?" \in Characters
      <4>1. 2 \in 1..Len(u)
        BY <2>1
      <4>2. u[2] \in Characters
        BY <1>1, <4>1, ElementOfSeq DEF Texts
      <4> QED BY <2>4, <4>2, SlashIs
    <3>2. w \in Texts /\ Len(w) = 2
      BY <3>1, TwoIs DEF Texts
    <3> HIDE DEF v, w
    <3>3. Len(v) = Len(w) /\ \A i \in 1..Len(v) : v[i] = w[i]
      BY <1>1, <2>2, <2>3, <2>4, <3>2
    <3> QED BY <2>2, <3>2, <3>3, Same
  <2> HIDE DEF v, w
  <2>5. 2 \in 1..2
    OBVIOUS
  <2> QED BY <2>2, <2>3, <2>4, <2>5
<1>6. z > 1 => (u[2] = "?" <=> l = 1)
  <2>1. CASE l = 1
    <3>1. l + 1 = 2
      BY <2>1
    <3> QED BY <1>1, <2>1, <3>1
  <2>2. CASE l # 1
    <3>1. 2 \in 1..l
      BY <1>1, <2>2
    <3> QED BY <1>1, <2>2, <3>1
  <2> QED BY <2>1, <2>2
<1> HIDE DEF v, w
<1>7. u \in {<<>>, Slash} \/ (Len(u) > 1 /\ v = w) <=> a = Slash
  BY <1>1, <1>3, <1>4, <1>5, <1>6
<1> QED BY <1>7 DEF u, a, v, w

(* The name that dispatchCommand() looks for. *)
LEMMA NameIs ==
    ASSUME NEW r \in Requests, WellFormed(r), NEW c \in Texts
    PROVE  c = SubSeq(Url(r), 2, PathLen(r)) <=> r.path = Slash \o c
<1> DEFINE u == Url(r)
           a == r.path
           l == PathLen(r)
           z == UrlLen(r)
           v == SubSeq(u, 2, l)
           w == Slash \o c
<1>1. /\ u \in Texts /\ a \in Texts /\ l \in Nat \ {0} /\ z \in Nat /\ z = Len(u) /\ l = Len(a) /\ l <= z
      /\ \A i \in 1..l : u[i] = a[i] /\ u[i] # "?"
      /\ u[1] = "/"
  BY UrlIs
<1>2. Slash \in Texts /\ Len(Slash) = 1 /\ Slash[1] = "/"
  BY SlashIs
<1>3. Len(c) \in Nat
  BY Lengths
<1>4. /\ w \in Texts /\ Len(w) = 1 + Len(c) /\ w[1] = "/"
      /\ \A i \in 1..Len(c) : w[1 + i] = c[i]
  <2>1. /\ w \in Texts /\ Len(w) = Len(Slash) + Len(c)
        /\ \A i \in 1..Len(Slash) : w[i] = Slash[i]
        /\ \A i \in 1..Len(c) : w[Len(Slash) + i] = c[i]
    BY <1>2, JoinIs
  <2> HIDE DEF w
  <2>2. 1 \in 1..Len(Slash)
    BY <1>2
  <2> QED BY <1>2, <2>1, <2>2
<1> HIDE DEF u, a, l, z, w
<1>5. v \in Texts /\ Len(v) = l - 1 /\ \A i \in 1..(l - 1) : v[i] = u[1 + i]
  <2>1. \A i \in 2..l : u[i] \in Characters
    <3> TAKE i \in 2..l
    <3>1. i \in 1..Len(u)
      BY <1>1
    <3> QED BY <1>1, <3>1, ElementOfSeq DEF Texts
  <2>2. 2 \in Int /\ l \in Int
    BY <1>1
  <2>3. /\ v \in Texts /\ Len(v) = IF 2 <= l THEN l - 2 + 1 ELSE 0
        /\ \A i \in 1..(l - 2 + 1) : v[i] = u[2 + i - 1]
    BY <2>1, <2>2, SubSeqProperties DEF Texts
  <2> HIDE DEF v
  <2>4. l - 2 + 1 = l - 1 /\ Len(v) = l - 1 /\ \A i \in 1..(l - 1) : 2 + i - 1 = 1 + i
    BY <1>1, <2>3
  <2> QED BY <2>3, <2>4
<1> HIDE DEF v
<1>6. ASSUME c = v PROVE a = w
  <2>1. Len(c) = l - 1 /\ Len(w) = Len(a)
    BY <1>1, <1>4, <1>5, <1>6
  <2>2. ASSUME NEW i \in 1..Len(a) PROVE a[i] = w[i]
    <3>1. CASE i = 1
      <4>1. a[1] = "/"
        BY <1>1, <2>2
      <4> QED BY <1>4, <3>1, <4>1
    <3>2. CASE i # 1
      <4>1. i - 1 \in 1..(l - 1) /\ i - 1 \in 1..Len(c) /\ 1 + (i - 1) = i /\ i \in 1..l
        BY <1>1, <2>1, <3>2
      <4>2. w[i] = c[i - 1] /\ v[i - 1] = u[i]
        BY <1>4, <1>5, <4>1
      <4> QED BY <1>1, <1>6, <4>1, <4>2
    <3> QED BY <3>1, <3>2
  <2> QED BY <1>1, <1>4, <2>1, <2>2, Same
<1>7. ASSUME a = w PROVE c = v
  <2>1. Len(c) = l - 1 /\ Len(c) = Len(v)
    BY <1>1, <1>3, <1>4, <1>5, <1>7
  <2>2. ASSUME NEW i \in 1..Len(c) PROVE c[i] = v[i]
    <3>1. 1 + i \in 1..l /\ i \in 1..(l - 1)
      BY <1>1, <1>3, <2>1
    <3> QED BY <1>1, <1>4, <1>5, <1>7, <3>1
  <2> QED BY <1>5, <2>1, <2>2, Same
<1>8. c = v <=> a = w
  BY <1>6, <1>7
<1> QED BY <1>8 DEF v, a, u, l, w

LEMMA CommandIs ==
    ASSUME NEW r \in Requests, WellFormed(r), NEW k \in DOMAIN Methods, Methods[k] = r.method
    PROVE  Command(Url(r)) = Wanted(r)
<1> DEFINE u == Url(r)
           l == PathLength(u)
           known == {j \in DOMAIN Commands : Commands[j] = SubSeq(u, 2, l)}
           named == {j \in DOMAIN Commands : r.path = Slash \o Commands[j]}
           default == u \in {<<>>, Slash} \/ (Len(u) > 1 /\ SubSeq(u, 1, 2) = <<"/", "?">>)
<1>1. l = PathLen(r)
  BY PathLengthIs
<1>2. \A j \in DOMAIN Commands : Commands[j] \in Texts
  <2> TAKE j \in DOMAIN Commands
  <2>1. j \in 1..Len(Commands)
    BY CommandsAssumption, LenProperties
  <2> QED BY <2>1, AssumedTexts, ElementOfSeq DEF Texts
<1>3. known = named
  <2>1. \A j \in DOMAIN Commands : Commands[j] = SubSeq(u, 2, l) <=> r.path = Slash \o Commands[j]
    BY <1>1, <1>2, NameIs
  <2> QED BY <2>1
<1>4. default <=> r.path = Slash
  BY DefaultIs
<1>5. Head(u) = "/"
  BY UrlIs
<1>6. Command(u) = IF default THEN -1
                   ELSE IF Head(u) = "/" /\ known # {} THEN CHOOSE j \in known : \A i \in known : j <= i
                   ELSE 0
  BY DEF Command, Slash
<1>7. Wanted(r) = IF r.path = Slash THEN -1
                  ELSE IF named # {} THEN CHOOSE j \in named : \A i \in named : j <= i
                  ELSE 0
  BY DEF Wanted, Slash
<1> HIDE DEF u, l, known, named, default
<1>8. Command(u) = Wanted(r)
  <2>1. CASE r.path = Slash
    BY <1>4, <1>6, <1>7, <2>1
  <2>2. CASE r.path # Slash /\ named # {}
    BY <1>3, <1>4, <1>5, <1>6, <1>7, <2>2
  <2>3. CASE r.path # Slash /\ named = {}
    BY <1>3, <1>4, <1>6, <1>7, <2>3
  <2> QED BY <2>1, <2>2, <2>3
<1> QED BY <1>8 DEF u

-------------------------------------------------------------------------------
(* The request that is dispatched *)

(* What has been sent is the beginning of a request. *)
OfRequest ==
    /\ asked \in Requests
    /\ \E e \in 0..Len(Text(asked)) : sent = SubSeq(Text(asked), 1, e)

(* Its line has arrived. *)
LineSent == WellFormed(asked) /\ Len(sent) > MethodLen(asked) + UrlLen(asked)

(* While the words of getRequest() are tried, those before are not what    *)
(* the request begins with; and what it has found is what was asked.       *)
LineInv ==
    /\ pc \in {"request", "headers", "command"} => OfRequest
    /\ pc = "request" => GivenUp \/ \A j \in DOMAIN Methods : j < try => ~Begins(Methods[j], sent)
    /\ pc = "headers" \/ (pc = "command" /\ type # 0) =>
          /\ type \in DOMAIN Methods
          /\ LineSent => /\ Methods[type] = asked.method
                         /\ request = SubSeq(Url(asked), 1, Stored(UrlLen(asked)))
    /\ pc = "command" /\ type = 0 =>
          \/ GivenUp
          \/ \A j \in DOMAIN Methods : ~Begins(Methods[j], sent)

LEMMA StoredIs ==
    ASSUME NEW n \in Nat
    PROVE  Stored(n) \in 0..n /\ Stored(n) < BuffLen /\ (n < BuffLen => Stored(n) = n)
BY SizesAssumption DEF Stored

(* getRequest() finds a word with which the request begins. *)
LEMMA GetRequestBegins ==
    ASSUME StreamInv, LineInv, GetRequest
    PROVE  /\ try \in DOMAIN Methods /\ Ahead(conn) = sent /\ Begins(Methods[try], sent) /\ OfRequest
           /\ sent \in Texts
<1>1. pc = "request" /\ try <= Len(Methods) /\ Accepts(Methods[try], conn)
  BY DEF GetRequest
<1>2. (Ahead(conn) = sent \/ GivenUp) /\ try \in Nat \ {0} /\ sent \in Texts
  BY <1>1 DEF StreamInv
<1>3. DOMAIN Methods = 1..Len(Methods) /\ Len(Methods) \in Nat
  BY PatternsAssumption, LenProperties
<1>4. try \in DOMAIN Methods
  BY <1>1, <1>2, <1>3
<1>5. OfRequest
  BY <1>1 DEF LineInv
<1>6. ~GivenUp
  <2> SUFFICES ASSUME Ahead(conn) = <<>> PROVE FALSE
    BY DEF GivenUp
  <2>1. Methods[try] \in Patterns
    BY <1>4 DEF Patterns, Words
  <2>2. Len(Methods[try]) \in Nat \ {0} /\ Len(<<>>) = 0
    BY <2>1, PatternIs
  <2> QED BY <1>1, <2>2 DEF Accepts
<1> QED BY <1>1, <1>2, <1>4, <1>5, <1>6 DEF Accepts, Begins

(* The line of the request, if it has arrived, as getRequest() reads it. *)
LEMMA GetRequestLine ==
    ASSUME StreamInv, LineInv, GetRequest, LineSent,
           NEW t, t = Rest(sent, Len(Methods[try])), NEW n, n = RunUntil(t, 1, LineEnds)
    PROVE  Methods[try] = asked.method /\ LineRead(asked, t, n)
<1>1. /\ try \in DOMAIN Methods /\ Begins(Methods[try], sent)
      /\ asked \in Requests /\ WellFormed(asked)
      /\ Len(sent) > MethodLen(asked) + UrlLen(asked)
  BY GetRequestBegins DEF OfRequest, LineSent
<1>2. PICK e \in 0..Len(Text(asked)) : sent = SubSeq(Text(asked), 1, e)
  BY GetRequestBegins DEF OfRequest
<1>3. Len(sent) = e
  <2>1. Text(asked) \in Texts
    BY <1>1, TextIs
  <2> QED BY <1>2, <2>1, BeginIs
<1>4. e > MethodLen(asked) + UrlLen(asked)
  BY <1>1, <1>3
<1>5. Line(asked, e, sent, try)
  BY <1>1, <1>2, <1>4 DEF Line
<1> QED BY <1>5, LineIs

LEMMA LineReads ==
    ASSUME StreamInv, LineInv, Reads
    PROVE  LineInv'
<1>0. try \in Nat \ {0}
  BY DEF StreamInv
<1>1. CASE Expects
  <2>1. /\ pc \in {"request", "headers"} /\ try <= Len(Expected) /\ ~Accepts(Expected[try], conn)
        /\ try' = try + 1 /\ UNCHANGED <<pc, asked, sent, type, request>>
    BY <1>1 DEF Expects
  <2>2. CASE pc = "request"
    <3>1. Expected = Methods /\ UNCHANGED sent
      BY <2>1, <2>2 DEF Expected
    <3>a. GivenUp' \/ (Ahead(conn) = sent /\ ~GivenUp)
      <4>1. StreamInv'
        BY StreamReads
      <4>2. Ahead(conn) = sent \/ GivenUp
        BY <2>2 DEF StreamInv
      <4>3. GivenUp => GivenUp'
        <5> SUFFICES ASSUME GivenUp PROVE GivenUp'
          OBVIOUS
        <5>1. /\ \/ conn'.client = conn.client /\ Ahead(conn') = Ahead(conn)
                 \/ conn'.client = "stopped" /\ Ahead(conn') = <<>>
          BY <1>0, <1>1, ExpectsReads DEF StreamInv
        <5> QED BY <3>1, <5>1 DEF GivenUp
      <4> QED BY <4>2, <4>3
    <3>2. CASE GivenUp'
      BY <2>1, <2>2, <3>2 DEF LineInv, OfRequest
    <3>3. CASE Ahead(conn) = sent /\ ~GivenUp
      <4>1. ~Begins(Methods[try], sent)
        BY <2>1, <3>1, <3>3 DEF Accepts, Begins
      <4>2. \A j \in DOMAIN Methods : j < try' => ~Begins(Methods[j], sent')
        <5> SUFFICES ASSUME NEW j \in DOMAIN Methods, j < try + 1 PROVE ~Begins(Methods[j], sent)
          BY <2>1
        <5>1. j \in Nat
          BY MethodIs
        <5>2. j = try \/ j < try
          BY <1>0, <5>1
        <5> QED BY <2>2, <3>3, <4>1, <5>2 DEF LineInv
      <4> QED BY <2>1, <2>2, <4>2 DEF LineInv, OfRequest
    <3> QED BY <3>a, <3>2, <3>3
  <2>3. CASE pc = "headers"
    BY <2>1, <2>3 DEF LineInv, OfRequest, LineSent
  <2> QED BY <2>1, <2>2, <2>3
<1>2. CASE GetsInvalid
  <2>1. /\ pc = "request" /\ try > Len(Methods) /\ pc' = "command"
        /\ UNCHANGED <<conn, asked, sent, type, request>> /\ type = 0
    BY <1>2 DEF GetsInvalid, StreamInv
  <2>2. GivenUp' \/ \A j \in DOMAIN Methods : ~Begins(Methods[j], sent)
    <3> SUFFICES ASSUME ~GivenUp, NEW j \in DOMAIN Methods PROVE ~Begins(Methods[j], sent)
      BY <2>1 DEF GivenUp, Ahead
    <3>1. j \in Nat /\ j <= Len(Methods) /\ Len(Methods) \in Nat
      BY MethodIs, PatternsAssumption, LenProperties
    <3>2. j < try
      BY <1>0, <2>1, <3>1
    <3> QED BY <2>1, <3>2 DEF LineInv
  <2> QED BY <2>1, <2>2 DEF LineInv, OfRequest
<1>3. CASE GetRequest
  <2> DEFINE t == Rest(sent, Len(Methods[try]))
             n == RunUntil(t, 1, LineEnds)
  <2>1. /\ try \in DOMAIN Methods /\ OfRequest /\ Ahead(conn) = sent
    BY <1>3, GetRequestBegins
  <2>2. pc' = "headers" /\ type' = try /\ UNCHANGED <<asked, sent>>
    BY <1>3 DEF GetRequest
  <2>3. request' = SubSeq(t, 1, Stored(n))
    <3>1. Fine(conn)
      BY DEF StreamInv
    <3> QED BY <1>0, <1>3, <2>1, <3>1, GetRequestReads
  <2>4. ASSUME LineSent
        PROVE  /\ Methods[type'] = asked'.method
               /\ request' = SubSeq(Url(asked'), 1, Stored(UrlLen(asked')))
    <3>1. /\ Methods[try] = asked.method /\ n = UrlLen(asked)
          /\ \A q \in 0..n : SubSeq(t, 1, q) = SubSeq(Url(asked), 1, q)
      BY <1>3, <2>4, GetRequestLine DEF LineRead
    <3>2. n \in Nat
      <4>1. asked \in Requests
        BY <2>1 DEF OfRequest
      <4> QED BY <3>1, <4>1, TextIs
    <3> HIDE DEF t, n
    <3>3. Stored(n) \in 0..n
      BY <3>2, StoredIs
    <3> QED BY <2>2, <2>3, <3>1, <3>3
  <2>5. LineSent' => LineSent
    BY <2>2 DEF LineSent
  <2>6. OfRequest'
    BY <2>1, <2>2 DEF OfRequest
  <2> QED BY <2>1, <2>2, <2>4, <2>5, <2>6 DEF LineInv
<1>4. CASE HeaderLength \/ HeaderAuthorization \/ HeadersEnd \/ HeaderCharacter
  <2>1. /\ pc = "headers" /\ pc' \in {"headers", "command", "hung"}
        /\ UNCHANGED <<asked, sent, type, request>>
    BY <1>4 DEF HeaderLength, HeaderAuthorization, HeadersEnd, HeaderCharacter, AfterCharacter
  <2>2. type # 0 /\ type \in DOMAIN Methods
    <3>1. type \in DOMAIN Methods
      BY <2>1 DEF LineInv
    <3>2. type \in Nat \ {0}
      BY <3>1, MethodIs
    <3> QED BY <3>1, <3>2
  <2> QED BY <2>1, <2>2 DEF LineInv, OfRequest, LineSent
<1> QED BY <1>1, <1>2, <1>3, <1>4 DEF Reads

(* The slash of a path is in no word that getRequest() looks for.          *)
LEMMA LineNotGivenUp ==
    ASSUME OfRequest, LineSent
    PROVE  ~GivenUp
<1> SUFFICES ASSUME NEW k \in DOMAIN Methods, BreaksOff(sent, Methods[k]) PROVE FALSE
  BY DEF GivenUp
<1>1. /\ asked \in Requests /\ WellFormed(asked)
      /\ Len(sent) > MethodLen(asked) + UrlLen(asked)
  BY DEF OfRequest, LineSent
<1>2. PICK e \in 0..Len(Text(asked)) : sent = SubSeq(Text(asked), 1, e)
  BY DEF OfRequest
<1> DEFINE l == MethodLen(asked)
           m == Methods[k]
           x == Text(asked)
<1>3. /\ x \in Texts /\ l \in Nat /\ UrlLen(asked) \in Nat /\ UrlLen(asked) >= 1
      /\ x[l + 1] = "/" /\ Len(x) \in Nat
  <2>1. /\ x \in Texts /\ l \in Nat /\ UrlLen(asked) \in Nat
        /\ \A i \in 1..UrlLen(asked) : x[l + i] = Url(asked)[i]
    BY <1>1, TextIs
  <2>2. UrlLen(asked) >= 1 /\ Url(asked)[1] = "/"
    <3>1. /\ PathLen(asked) \in Nat \ {0} /\ UrlLen(asked) \in Nat
          /\ PathLen(asked) <= UrlLen(asked) /\ Url(asked)[1] = "/"
      BY <1>1, UrlIs
    <3> QED BY <3>1
  <2>3. 1 \in 1..UrlLen(asked)
    BY <2>1, <2>2
  <2> QED BY <2>1, <2>2, <2>3, Lengths
<1>4. m \in Texts /\ Len(m) \in Nat /\ \A i \in 1..Len(m) : m[i] # "/"
  BY MethodIs, Lengths, PatternsAssumption
<1>5. Len(sent) < Len(m) /\ sent = SubSeq(m, 1, Len(sent))
  BY DEF BreaksOff
<1> HIDE DEF l, m, x
<1>6. Len(sent) = e /\ \A i \in 1..e : sent[i] = x[i]
  BY <1>2, <1>3, BeginIs DEF x
<1>7. e \in Nat /\ e > l + UrlLen(asked)
  BY <1>1, <1>3, <1>6 DEF l, x
<1>8. l + 1 \in 1..e /\ l + 1 \in 1..Len(m) /\ e \in 0..Len(m)
  BY <1>3, <1>4, <1>5, <1>6, <1>7
<1>9. \A i \in 1..e : SubSeq(m, 1, e)[i] = m[i]
  BY <1>4, <1>8, BeginIs
<1>10. sent[l + 1] = "/" /\ sent[l + 1] = m[l + 1]
  BY <1>3, <1>5, <1>6, <1>8, <1>9
<1> QED BY <1>4, <1>8, <1>10

LEMMA LineStep == StreamInv /\ LineInv /\ [SetupNext]_setupVars => LineInv'
<1> SUFFICES ASSUME StreamInv, LineInv, [SetupNext]_setupVars PROVE LineInv'
  OBVIOUS
<1>1. ASSUME pc' \notin {"request", "headers", "command"} PROVE LineInv'
  BY <1>1 DEF LineInv
<1>2. ASSUME UNCHANGED <<pc, try, conn, asked, sent, type, request>> PROVE LineInv'
  BY <1>2 DEF LineInv, OfRequest, LineSent, GivenUp, Ahead
<1>3. CASE ReadsOn
  BY <1>3, LineReads DEF ReadsOn
<1>4. CASE Serves
  <2>1. pc = "idle" /\ pc' = "request" /\ try' = 1 /\ Connects
    BY <1>4 DEF Serves, Connects
  <2>2. Fine(conn) /\ Ahead(conn) = <<>> /\ conn.client = "none"
    BY <2>1 DEF StreamInv
  <2>3. OfRequest'
    BY <2>1, <2>2, ConnectsReads DEF OfRequest
  <2>4. \A j \in DOMAIN Methods : ~(j < 1)
    BY MethodIs
  <2> QED BY <2>1, <2>3, <2>4 DEF LineInv
<1>5. CASE Submits \/ StartsStoring
  BY <1>1, <1>5 DEF Submits, StartsStoring
<1>6. CASE TakesParameter
  BY <1>2, <1>6 DEF TakesParameter, webVars
<1>7. CASE ShowsPage
  BY <1>1, <1>7 DEF ShowsPage, CommandReturns
<1>8. CASE WritesByte
  BY <1>1, <1>2, <1>8 DEF WritesByte, CommandReturns
<1>9. CASE Starts \/ LosesPower
  BY <1>1, <1>9 DEF Starts, LosesPower
<1>10. CASE UNCHANGED setupVars
  BY <1>2, <1>10 DEF setupVars, webVars
<1> QED BY <1>3, <1>4, <1>5, <1>6, <1>7, <1>8, <1>9, <1>10 DEF SetupNext, Works

LEMMA LineAlways == SetupSpec => [](StreamInv /\ LineInv)
<1>1. SetupInit => StreamInv /\ LineInv
  <2>1. SetupInit => LineInv
    BY DEF SetupInit, LineInv
  <2> QED BY <2>1, StreamInit
<1>2. (StreamInv /\ LineInv) /\ [SetupNext]_setupVars => (StreamInv /\ LineInv)'
  BY StreamStep, LineStep
<1> QED BY <1>1, <1>2, PTL DEF SetupSpec

(* A request whose line has arrived runs the command of its path, for its  *)
(* method and with its parameters, and nothing is written behind the       *)
(* buffer: for all requests, methods and commands, wherever the client     *)
(* stops behind the line, and whatever was served before.                  *)
THEOREM DispatchedIsRight == SetupSpec => []DispatchedRight
<1>1. LineInv => DispatchedRight
  <2> SUFFICES ASSUME LineInv, pc = "command", WellFormed(asked),
                      Len(sent) > MethodLen(asked) + UrlLen(asked)
               PROVE  /\ type # 0 =>
                            /\ Methods[type] = asked.method
                            /\ Len(request) < BuffLen
                            /\ request = SubSeq(Url(asked), 1, Len(request))
                      /\ UrlLen(asked) < BuffLen =>
                            Called = Wanted(asked) /\ (type # 0 => request = Url(asked))
    BY DEF DispatchedRight, MethodLen, UrlLen
  <2>1. OfRequest /\ LineSent /\ asked \in Requests
    BY DEF LineInv, OfRequest, LineSent
  <2> DEFINE u == Url(asked)
             z == UrlLen(asked)
             q == Stored(z)
  <2>2. u \in Texts /\ z \in Nat /\ z = Len(u)
    BY <2>1, TextIs
  <2>3. q \in 0..z /\ q < BuffLen /\ (z < BuffLen => q = z)
    BY <2>2, StoredIs
  <2>4. CASE type # 0
    <3>1. type \in DOMAIN Methods /\ Methods[type] = asked.method /\ request = SubSeq(u, 1, q)
      BY <2>1, <2>4 DEF LineInv
    <3> HIDE DEF u, z, q
    <3>2. Len(request) = q
      BY <2>2, <2>3, <3>1, BeginIs
    <3>3. ASSUME z < BuffLen PROVE request = u
      BY <2>2, <2>3, <3>1, <3>3, Joins
    <3>4. ASSUME z < BuffLen PROVE Called = Wanted(asked)
      <4>1. Called = Command(u)
        BY <2>4, <3>3, <3>4 DEF Called
      <4> QED BY <2>1, <3>1, <4>1, CommandIs DEF u
    <3> QED BY <2>3, <3>1, <3>2, <3>3, <3>4 DEF u, z
  <2>5. CASE type = 0
    <3>1. \A j \in DOMAIN Methods : ~Begins(Methods[j], sent)
      BY <2>1, <2>5, LineNotGivenUp DEF LineInv
    <3>2. Begins(asked.method, sent)
      <4>1. PICK e \in 0..Len(Text(asked)) : sent = SubSeq(Text(asked), 1, e)
        BY <2>1 DEF OfRequest
      <4>2. Len(sent) = e
        <5>1. Text(asked) \in Texts
          BY <2>1, TextIs
        <5> QED BY <4>1, <5>1, BeginIs
      <4>3. e > MethodLen(asked) + UrlLen(asked)
        BY <4>2
      <4> QED BY <2>1, <4>1, <4>3, BeginsAsked
    <3>3. Wanted(asked) = 0
      BY <3>1, <3>2 DEF Wanted
    <3> QED BY <2>5, <3>3 DEF Called
  <2> QED BY <2>4, <2>5
<1> QED BY <1>1, LineAlways, PTL

-------------------------------------------------------------------------------
(* A client that waits for its page *)

(* Behind its first e characters the headers of this text end. *)
Over(s, e) ==
    /\ e \in 1..Len(s) /\ e + Len(EndOfHeaders) <= Len(s) /\ s[e + 1] = CR
    /\ Begins(EndOfHeaders, Rest(s, e))

LEMMA EndIs == EndOfHeaders \in Texts /\ Len(EndOfHeaders) \in Nat \ {0} /\ EndOfHeaders[1] = CR
<1>1. EndOfHeaders \in Patterns
  BY DEF Patterns
<1>2. Head(EndOfHeaders) = CR /\ EndOfHeaders # <<>>
  BY <1>1, PatternsAssumption
<1>3. EndOfHeaders \in Texts /\ Len(EndOfHeaders) \in Nat \ {0}
  BY <1>1, PatternIs
<1> QED BY <1>2, <1>3, HeadTailProperties DEF Texts

LEMMA PieceOfRest ==
    ASSUME NEW s \in Texts, NEW n \in 0..Len(s), NEW m \in 0..(Len(s) - n), NEW t, t = Rest(s, n)
    PROVE  SubSeq(t, 1, m) = SubSeq(s, n + 1, n + m)
<1>0. Len(s) \in Nat /\ n \in Nat /\ m \in Nat /\ n <= Len(s) /\ n + m <= Len(s)
  BY Lengths
<1>1. t \in Texts /\ Len(t) = Len(s) - n /\ \A i \in 1..(Len(s) - n) : t[i] = s[n + i]
  BY <1>0, RestIs
<1>2. /\ SubSeq(t, 1, m) \in Texts /\ Len(SubSeq(t, 1, m)) = m
      /\ \A i \in 1..m : SubSeq(t, 1, m)[i] = t[i]
  <2>1. m \in 0..Len(t)
    BY <1>0, <1>1
  <2> QED BY <1>1, <2>1, BeginIs
<1> DEFINE v == SubSeq(s, n + 1, n + m)
<1>3. v \in Texts /\ Len(v) = m /\ \A i \in 1..m : v[i] = s[n + i]
  <2>1. \A i \in (n + 1)..(n + m) : s[i] \in Characters
    <3> TAKE i \in (n + 1)..(n + m)
    <3>1. i \in 1..Len(s)
      BY <1>0
    <3> QED BY <3>1, ElementOfSeq DEF Texts
  <2>2. n + 1 \in Int /\ n + m \in Int
    BY <1>0
  <2>3. /\ v \in Texts /\ Len(v) = IF n + 1 <= n + m THEN (n + m) - (n + 1) + 1 ELSE 0
        /\ \A i \in 1..((n + m) - (n + 1) + 1) : v[i] = s[(n + 1) + i - 1]
    BY <2>1, <2>2, SubSeqProperties, SMTT(30) DEF Texts
  <2> HIDE DEF v
  <2>4. (n + m) - (n + 1) + 1 = m /\ \A i \in 1..m : (n + 1) + i - 1 = n + i
    BY <1>0
  <2>5. Len(v) = m
    BY <1>0, <2>3
  <2> QED BY <2>3, <2>4, <2>5
<1> HIDE DEF v
<1>4. \A i \in 1..m : SubSeq(t, 1, m)[i] = v[i]
  <2> TAKE i \in 1..m
  <2>1. i \in 1..(Len(s) - n)
    BY <1>0
  <2> QED BY <1>1, <1>2, <1>3, <2>1
<1>5. SubSeq(t, 1, m) = v
  BY <1>2, <1>3, <1>4, Same
<1> QED BY <1>5 DEF v

(* The end of the headers, seen from what is still ahead. *)
LEMMA OverAhead ==
    ASSUME NEW s \in Texts, NEW e \in 1..Len(s), Over(s, e), NEW n \in 0..e, NEW t, t = Rest(s, n),
           NEW j, j = e - n + 1
    PROVE  /\ t \in Texts /\ Len(t) = Len(s) - n /\ n \in 0..Len(s) /\ Len(s) \in Nat /\ e \in Nat
           /\ j \in 1..Len(t) /\ t[j] = CR /\ (j - 1) + Len(EndOfHeaders) <= Len(t)
           /\ j = 1 => Begins(EndOfHeaders, t)
<1>1. /\ e \in 1..Len(s) /\ e + Len(EndOfHeaders) <= Len(s) /\ s[e + 1] = CR
      /\ Begins(EndOfHeaders, Rest(s, e)) /\ Len(s) \in Nat
  BY Lengths DEF Over
<1>2. n \in Nat /\ n <= Len(s) /\ n \in 0..Len(s) /\ e \in Nat /\ e + 1 <= Len(s)
  BY <1>1, EndIs
<1>3. t \in Texts /\ Len(t) = Len(s) - n /\ \A i \in 1..(Len(s) - n) : t[i] = s[n + i]
  BY <1>2, RestIs
<1>4. j \in 1..(Len(s) - n) /\ n + j = e + 1
  BY <1>1, <1>2
<1>5. (j - 1) + Len(EndOfHeaders) <= Len(s) - n
  BY <1>1, <1>2, EndIs
<1>6. ASSUME j = 1 PROVE Begins(EndOfHeaders, t)
  <2>1. n = e
    BY <1>2, <1>4, <1>6
  <2> QED BY <1>1, <2>1
<1> QED BY <1>1, <1>2, <1>3, <1>4, <1>5, <1>6

(* A word of the library ends before the next CR. *)
LEMMA WordEnds ==
    ASSUME NEW t \in Texts, NEW j \in 1..Len(t), t[j] = CR, NEW p \in Words, Begins(p, t)
    PROVE  Len(p) < j
<1>1. p \in Texts /\ Len(p) \in Nat \ {0} /\ \A k \in 1..Len(p) : p[k] # CR
  BY PatternIs, PatternsAssumption DEF Patterns
<1>2. Len(p) \in 0..Len(t) /\ SubSeq(t, 1, Len(p)) = p
  BY <1>1, Lengths DEF Begins
<1>3. \A i \in 1..Len(p) : SubSeq(t, 1, Len(p))[i] = t[i]
  BY <1>2, BeginIs
<1>4. j \notin 1..Len(p)
  BY <1>1, <1>2, <1>3
<1> QED BY <1>1, <1>4, Lengths

(* No word of the library goes on where the text ends. *)
LEMMA NoPart ==
    ASSUME NEW t \in Texts, NEW j \in 1..Len(t), t[j] = CR, (j - 1) + Len(EndOfHeaders) <= Len(t),
           NEW p \in Patterns, Len(t) < Len(p)
    PROVE  t # SubSeq(p, 1, Len(t))
<1>0. p \in Texts /\ Len(p) \in Nat /\ Len(t) \in Nat
  BY PatternIs, Lengths
<1>1. p # EndOfHeaders
  BY <1>0, EndIs
<1>2. p \in Words
  BY <1>1 DEF Patterns
<1>3. \A k \in 1..Len(p) : p[k] # CR
  BY <1>2, PatternsAssumption
<1>4. Len(t) \in 0..Len(p) /\ j \in 1..Len(p)
  BY <1>0
<1>5. SubSeq(p, 1, Len(t))[j] = p[j]
  BY <1>0, <1>4, BeginIs
<1> QED BY <1>3, <1>4, <1>5

(* A client of which NotGivenUp speaks. *)
Whole(e) ==
    sent = Text(asked) /\ WellFormed(asked) /\ HeadersOver(asked, e) /\ ~WithoutValue(asked, e)

(* It is neither given up nor waited for; and the program has not read     *)
(* past the end of its headers, nor into it.                               *)
AliveInv ==
    \A e \in 1..Len(sent) : Whole(e) =>
        /\ conn.client # "stopped" /\ pc # "hung"
        /\ pc = "headers" => \E n \in 0..e : Ahead(conn) = Rest(sent, n) /\ (try = 4 => n < e)

LEMMA WholeIs ==
    ASSUME asked \in Requests, NEW e \in 1..Len(sent), Whole(e)
    PROVE  /\ Over(sent, e) /\ LineSent /\ e > MethodLen(asked) + UrlLen(asked)
           /\ sent \in Texts /\ sent = Text(asked)
<1> DEFINE h == Len(EndOfHeaders)
<1>1. sent \in Texts /\ sent = Text(asked) /\ Len(sent) \in Nat
  BY TextIs, Lengths DEF Whole
<1>2. /\ e > MethodLen(asked) + UrlLen(asked) /\ e + h <= Len(sent) /\ WellFormed(asked)
      /\ SubSeq(sent, e + 1, e + h) = EndOfHeaders
  BY <1>1 DEF Whole, HeadersOver, MethodLen, UrlLen
<1>3. h \in Nat \ {0} /\ e \in 0..Len(sent) /\ h \in 0..(Len(sent) - e) /\ h \in Nat
  BY <1>1, <1>2, EndIs
<1> HIDE DEF h
<1>4. SubSeq(Rest(sent, e), 1, h) = EndOfHeaders
  BY <1>1, <1>2, <1>3, PieceOfRest
<1>5. /\ Rest(sent, e) \in Texts /\ Len(Rest(sent, e)) = Len(sent) - e
      /\ \A i \in 1..(Len(sent) - e) : Rest(sent, e)[i] = sent[e + i]
  <2>1. e \in Nat /\ e <= Len(sent)
    BY <1>1
  <2> QED BY <1>1, <2>1, RestIs
<1>6. sent[e + 1] = CR
  <2>1. 1 \in 1..h /\ 1 \in 1..(Len(sent) - e) /\ h \in 0..Len(Rest(sent, e))
    BY <1>3, <1>5
  <2>2. SubSeq(Rest(sent, e), 1, h)[1] = Rest(sent, e)[1]
    BY <1>5, <2>1, BeginIs
  <2> QED BY <1>4, <1>5, <2>1, <2>2, EndIs
<1>7. Begins(EndOfHeaders, Rest(sent, e))
  <2>1. h <= Len(Rest(sent, e))
    BY <1>3, <1>5
  <2> QED BY <1>4, <2>1 DEF Begins, h
<1>8. Over(sent, e)
  BY <1>2, <1>6, <1>7 DEF Over, h
<1>9. LineSent
  <2>1. MethodLen(asked) \in Nat /\ UrlLen(asked) \in Nat
    BY TextIs
  <2>2. Len(sent) > MethodLen(asked) + UrlLen(asked)
    BY <1>1, <1>2, <1>3, <2>1
  <2> QED BY <1>2, <2>2 DEF LineSent
<1> QED BY <1>1, <1>2, <1>8, <1>9

LEMMA AliveReads ==
    ASSUME StreamInv, LineInv, AliveInv, Reads
    PROVE  AliveInv'
<1>0. /\ Fine(conn) /\ try \in Nat \ {0} /\ UNCHANGED <<asked, sent>> /\ asked \in Requests
      /\ pc \in {"request", "headers"} /\ Ahead(conn) \in Texts
  <2>1. UNCHANGED <<asked, sent>> /\ pc \in {"request", "headers"}
    BY DEF Reads, Expects, GetsInvalid, GetRequest, HeaderLength, HeaderAuthorization,
           HeadersEnd, HeaderCharacter
  <2> QED BY <2>1, AheadIs DEF StreamInv, LineInv, OfRequest, Fine
<1> DEFINE Ahead2(e) == \E n \in 0..e : Ahead(conn') = Rest(sent, n) /\ (try' = 4 => n < e)
<1> SUFFICES ASSUME NEW e \in 1..Len(sent), Whole(e)
             PROVE  conn'.client # "stopped" /\ pc' # "hung" /\ (pc' = "headers" => Ahead2(e))
  <2>1. \A e : Whole(e)' <=> Whole(e)
    BY <1>0 DEF Whole
  <2> QED BY <1>0, <2>1 DEF AliveInv
<1>2. /\ sent \in Texts /\ sent = Text(asked) /\ Over(sent, e) /\ LineSent
      /\ e > MethodLen(asked) + UrlLen(asked)
  BY <1>0, WholeIs
<1>3. conn.client # "stopped"
  BY DEF AliveInv
<1> DEFINE A == Ahead(conn)
(* What is ahead in the headers: n characters of the e have been read.     *)
<1>4. ASSUME pc = "headers"
      PROVE  \E n \in 0..e : A = Rest(sent, n) /\ (try = 4 => n < e)
  BY <1>4 DEF AliveInv
<1>5. ASSUME NEW n \in 0..e, A = Rest(sent, n), NEW j, j = e - n + 1
      PROVE  /\ A \in Texts /\ Len(A) = Len(sent) - n /\ n \in 0..Len(sent) /\ Len(sent) \in Nat
             /\ e \in Nat /\ n \in Nat /\ j \in 1..Len(A) /\ A[j] = CR
             /\ (j - 1) + Len(EndOfHeaders) <= Len(A)
             /\ j = 1 => Begins(EndOfHeaders, A)
  <2> HIDE DEF A
  <2> QED BY <1>2, <1>5, OverAhead
(* Reading on, but not past the end of the headers. *)
<1>6. ASSUME NEW n \in 0..e, A = Rest(sent, n), NEW k \in 0..(e - n), Ahead(conn') = Rest(A, k),
             try' = 4 => n + k < e
      PROVE  Ahead2(e)
  <2>1. n \in 0..Len(sent) /\ Len(sent) \in Nat /\ e \in Nat /\ e <= Len(sent)
    BY <1>5, <1>6
  <2>2. k \in 0..(Len(sent) - n) /\ n + k \in 0..e
    BY <2>1
  <2>3. Ahead(conn') = Rest(sent, n + k)
    BY <1>2, <1>6, <2>1, <2>2, Further
  <2> QED BY <1>6, <2>2, <2>3
<1> HIDE DEF Ahead2
<1>7. CASE Expects
  <2>1. /\ Expected[try] \in Patterns
        /\ \/ conn'.client = conn.client /\ Ahead(conn') = A
           \/ BreaksOff(A, Expected[try])
    BY <1>0, <1>7, ExpectsReads
  <2>2. /\ try <= Len(Expected) /\ ~Accepts(Expected[try], conn) /\ try' = try + 1 /\ pc' = pc
    BY <1>7 DEF Expects
  <2>3. \E n \in 0..e : A = Rest(sent, n) /\ (try = 4 => n < e)
    <3>1. CASE pc = "headers"
      BY <1>4, <3>1
    <3>2. CASE pc = "request"
      <4>1. A = sent /\ sent = Rest(sent, 0)
        BY <1>2, <1>3, <3>2, RestOfNothing DEF StreamInv, GivenUp
      <4>2. 0 \in 0..e /\ 0 < e
        BY <1>2, Lengths
      <4> QED BY <4>1, <4>2
    <3> QED BY <1>0, <3>1, <3>2
  <2>4. PICK n \in 0..e : A = Rest(sent, n) /\ (try = 4 => n < e)
    BY <2>3
  <2> DEFINE j == e - n + 1
  <2>5. /\ A \in Texts /\ j \in 1..Len(A) /\ A[j] = CR /\ (j - 1) + Len(EndOfHeaders) <= Len(A)
        /\ n \in Nat /\ e \in Nat
        /\ j = 1 => Begins(EndOfHeaders, A)
    BY <1>5, <2>4
  <2>6. conn'.client # "stopped" /\ Ahead(conn') = A
    <3> HIDE DEF A, j
    <3>1. ~\E p \in Patterns : Len(A) < Len(p) /\ A = SubSeq(p, 1, Len(A))
      BY <2>5, NoPart
    <3> QED BY <1>3, <2>1, <3>1 DEF BreaksOff
  <2>7. ASSUME pc = "headers" PROVE Ahead2(e)
    <3>1. ASSUME try' = 4 PROVE n < e
      <4>1. try = 3
        BY <1>0, <2>2, <3>1
      <4>2. ~Begins(EndOfHeaders, A)
        <5>1. Expected[3] = EndOfHeaders
          BY <2>7 DEF Expected, HeaderNames
        <5> QED BY <2>2, <4>1, <5>1 DEF Accepts, Begins
      <4>3. j # 1
        BY <2>5, <4>2
      <4> QED BY <2>5, <4>3
    <3>2. Ahead(conn') = Rest(A, 0)
      BY <1>0, <2>6, RestOfNothing
    <3>3. 0 \in 0..(e - n) /\ n + 0 = n
      BY <2>5
    <3> QED BY <1>6, <2>4, <3>1, <3>2, <3>3
  <2> QED BY <1>0, <2>2, <2>6, <2>7
<1>8. CASE GetsInvalid
  <2>1. pc' = "command" /\ UNCHANGED conn
    BY <1>8 DEF GetsInvalid
  <2> QED BY <1>3, <2>1
<1>9. CASE GetRequest
  <2> DEFINE p == Methods[try]
             m == Len(p)
             t == Rest(A, m)
             i == RunUntil(t, 1, LineEnds)
  <2>1. A = sent
    BY <1>9, GetRequestBegins
  <2>2. p = asked.method /\ i = UrlLen(asked) /\ i < Len(t)
    BY <1>2, <1>9, <2>1, GetRequestLine DEF LineRead
  <2>3. /\ m \in 1..Len(A) /\ i \in 0..(Len(A) - m)
        /\ i < Len(A) - m => Ahead(conn') = Rest(A, m + i + 1) /\ conn'.client = conn.client
    BY <1>0, <1>9, GetRequestReads
  <2>4. Len(t) = Len(A) - m
    <3>1. m \in Nat /\ m <= Len(A) /\ Len(A) \in Nat
      BY <1>0, <2>3, Lengths
    <3> HIDE DEF m, A
    <3> QED BY <1>0, <3>1, RestIs DEF A
  <2>5. m = MethodLen(asked)
    BY <2>2 DEF MethodLen
  <2> HIDE DEF p, m, t, i
  <2>6. Ahead(conn') = Rest(A, m + i + 1) /\ conn'.client = conn.client
    BY <2>2, <2>3, <2>4
  <2>7. A = Rest(sent, 0) /\ 0 \in 0..e /\ m + i + 1 \in 0..(e - 0) /\ e > m + i
    <3>1. e > m + i /\ e \in Nat /\ Len(sent) \in Nat
      BY <1>2, <2>2, <2>5, Lengths
    <3>2. m + i + 1 \in 0..e /\ e - 0 = e /\ 0 \in 0..e
      BY <1>2, <2>1, <2>3, <3>1
    <3> QED BY <1>2, <2>1, <3>1, <3>2, RestOfNothing
  <2>8. pc' = "headers" /\ try' # 4
    BY <1>9 DEF GetRequest
  <2>9. Ahead2(e)
    BY <1>6, <2>6, <2>7, <2>8
  <2> QED BY <1>3, <2>6, <2>8, <2>9
<1>10. CASE HeaderLength
  <2> DEFINE m == Len(ContentLength)
             t == Rest(A, m)
  <2>1. pc = "headers" /\ pc' = "headers" /\ try' # 4
    BY <1>10 DEF HeaderLength
  <2>2. /\ m \in 1..Len(A) /\ SubSeq(A, 1, m) = ContentLength
        /\ \E q \in 0..(Len(A) - m) :
              /\ \A k \in 1..q : t[k] # CR
              /\ Ahead(conn') = Rest(A, m + q)
              /\ q < Len(A) - m => conn'.client = conn.client
    BY <1>0, <1>10, HeaderLengthReads
  <2>3. PICK q \in 0..(Len(A) - m) :
           /\ \A k \in 1..q : t[k] # CR
           /\ Ahead(conn') = Rest(A, m + q)
           /\ q < Len(A) - m => conn'.client = conn.client
    BY <2>2
  <2>4. PICK n \in 0..e : A = Rest(sent, n) /\ (try = 4 => n < e)
    BY <1>4, <2>1
  <2> DEFINE j == e - n + 1
  <2>5. A \in Texts /\ j \in 1..Len(A) /\ A[j] = CR /\ n \in Nat /\ e \in Nat /\ Len(A) \in Nat
    BY <1>5, <2>4, Lengths
  <2>6. m < j /\ m \in Nat
    <3>1. ContentLength \in Words
      BY DEF Words
    <3>2. Begins(ContentLength, A) /\ m \in Nat
      BY <2>2, <2>5 DEF Begins
    <3> HIDE DEF A, j
    <3> QED BY <2>5, <3>1, <3>2, WordEnds
  <2>7. t[j - m] = CR
    <3>1. j - m \in 1..(Len(A) - m) /\ m + (j - m) = j
      BY <2>5, <2>6
    <3> HIDE DEF A, j, m
    <3>2. t[j - m] = A[m + (j - m)]
      BY <2>5, <2>6, <3>1, RestIs
    <3> QED BY <2>5, <3>1, <3>2
  <2> HIDE DEF A, t, m
  <2>8. q < j - m
    <3>1. j - m \notin 1..q
      BY <2>3, <2>7
    <3> QED BY <2>5, <2>6, <3>1
  <2>9. m + q \in 0..(e - n) /\ q < Len(A) - m
    BY <2>2, <2>5, <2>6, <2>8
  <2>10. Ahead2(e)
    BY <1>6, <2>1, <2>3, <2>4, <2>9
  <2> QED BY <1>3, <2>1, <2>3, <2>9, <2>10
<1>11. CASE HeaderAuthorization
  <2> DEFINE m == Len(Authorization)
             t == Rest(A, m)
  <2>1. pc = "headers"
    BY <1>11 DEF HeaderAuthorization
  <2>2. /\ m \in 1..Len(A) /\ SubSeq(A, 1, m) = Authorization
        /\ t \in Texts /\ Len(t) = Len(A) - m
        /\ \E b \in 0..Len(t), v \in Nat \ {0} : ValueRead(t, b, v)
    BY <1>0, <1>11, HeaderAuthorizationReads
  <2>3. PICK b \in 0..Len(t), v \in Nat \ {0} : ValueRead(t, b, v)
    BY <2>2
  <2>4. PICK n \in 0..e : A = Rest(sent, n) /\ (try = 4 => n < e)
    BY <1>4, <2>1
  <2> DEFINE j == e - n + 1
  <2>5. /\ A \in Texts /\ j \in 1..Len(A) /\ A[j] = CR /\ n \in Nat /\ e \in Nat /\ Len(A) \in Nat
        /\ Len(A) = Len(sent) - n /\ n \in 0..Len(sent) /\ Len(sent) \in Nat
    BY <1>5, <2>4, Lengths
  <2>6. m < j /\ m \in Nat
    <3>1. Authorization \in Words
      BY DEF Words
    <3>2. Begins(Authorization, A) /\ m \in Nat
      BY <2>2, <2>5 DEF Begins
    <3> HIDE DEF A, j
    <3> QED BY <2>5, <3>1, <3>2, WordEnds
  <2> DEFINE g == j - m
  <2>7. g \in 1..Len(t) /\ t[g] = CR
    <3>1. g \in 1..(Len(A) - m) /\ m + g = j
      BY <2>5, <2>6
    <3> HIDE DEF A, j, m, g
    <3>2. t[g] = A[m + g]
      BY <2>5, <2>6, <3>1, RestIs
    <3> QED BY <2>2, <2>5, <3>1, <3>2
  <2>a. A = Ahead(conn) /\ m = Len(Authorization) /\ j = e - n + 1 /\ g = j - m
    OBVIOUS
  <2>b. t = Rest(A, m)
    OBVIOUS
  <2> HIDE DEF A, t, m, j, g
  <2>8. \A k \in 1..b : t[k] # CR
    BY <2>3 DEF ValueRead, Blanks, CR
  <2>9. b < g
    <3>1. g \notin 1..b
      BY <2>7, <2>8
    <3> QED BY <2>2, <2>7, <3>1
(* The header has a value: else readHeader() would take the end of the     *)
(* line for it.                                                            *)
  <2>10. b + 1 # g
    <3> SUFFICES ASSUME b + 1 = g PROVE WithoutValue(asked, e)
      BY DEF Whole
    <3>1. n + m + b = e /\ n \in 0..(e - m) /\ m \in 0..(Len(sent) - n)
      <4>1. j = e - n + 1 /\ g = j - m /\ n \in Nat /\ e \in Nat /\ m \in Nat /\ m < j
        BY <2>5, <2>6, <2>a
      <4>2. b \in Nat /\ b = g - 1
        BY <2>2, <4>1
      <4>3. n + m + b = e
        BY <4>1, <4>2
      <4>4. Len(sent) \in Nat /\ e <= Len(sent)
        BY <2>5
      <4> QED BY <4>1, <4>2, <4>3, <4>4
    <3>2. SubSeq(sent, n + 1, n + m) = Authorization
      <4>1. SubSeq(A, 1, m) = SubSeq(sent, n + 1, n + m)
        BY <1>2, <2>4, <2>5, <3>1, PieceOfRest
      <4> QED BY <2>2, <4>1
    <3>3. \A k \in (n + m + 1)..e : sent[k] \in Blanks
      <4> TAKE k \in (n + m + 1)..e
      <4> DEFINE i == k - (n + m)
      <4>1. i \in 1..b /\ n + (m + i) = k /\ m + i \in 1..(Len(sent) - n) /\ i \in 1..(Len(A) - m)
        BY <2>2, <2>5, <2>6, <3>1
      <4> HIDE DEF i
      <4>2. t[i] = A[m + i]
        BY <2>5, <2>6, <2>b, <4>1, RestIs
      <4>3. A[m + i] = sent[k]
        <5>1. Rest(sent, n)[m + i] = sent[n + (m + i)]
          BY <1>2, <2>5, <4>1, RestIs
        <5> QED BY <2>4, <4>1, <5>1
      <4>4. t[i] \in Blanks
        BY <2>3, <4>1 DEF ValueRead
      <4> QED BY <4>2, <4>3, <4>4
    <3> QED BY <1>2, <2>a, <3>1, <3>2, <3>3 DEF WithoutValue
  <2>11. b + v < g
    <3>1. g \notin (b + 2)..(b + v)
      BY <2>3, <2>7 DEF ValueRead
    <3> QED BY <2>2, <2>5, <2>7, <2>9, <2>10, <3>1
  <2>12. /\ Ahead(conn') = Rest(A, m + (b + v)) /\ conn'.client = conn.client
         /\ pc' = pc /\ try' = 1
    <3>1. ~(b + v >= Len(t))
      BY <2>2, <2>5, <2>7, <2>11
    <3> QED BY <2>3, <2>a, <3>1 DEF ValueRead
  <2>13. m + (b + v) \in 0..(e - n)
    BY <2>2, <2>5, <2>6, <2>7, <2>11, <2>a
  <2>14. Ahead2(e)
    <3> DEFINE k == m + (b + v)
    <3>1. k \in 0..(e - n) /\ Ahead(conn') = Rest(A, k) /\ try' # 4
      BY <2>12, <2>13
    <3> HIDE DEF k
    <3> QED BY <1>6, <2>4, <2>a, <3>1
  <2> QED BY <1>3, <2>1, <2>12, <2>14
<1>12. CASE HeadersEnd
  <2>1. pc' = "command"
    BY <1>12 DEF HeadersEnd
  <2>2. conn'.client = conn.client
    BY <1>0, <1>12, HeadersEndReads
  <2> QED BY <1>3, <2>1, <2>2
<1>13. CASE HeaderCharacter
  <2>1. pc = "headers" /\ try = 4 /\ try' = 1
    BY <1>13 DEF HeaderCharacter
  <2>2. PICK n \in 0..e : A = Rest(sent, n) /\ (try = 4 => n < e)
    BY <1>4, <2>1
  <2> DEFINE j == e - n + 1
  <2>3. A \in Texts /\ j \in 1..Len(A) /\ n \in Nat /\ e \in Nat /\ Len(A) \in Nat
    BY <1>5, <2>2, Lengths
  <2>4. A # <<>>
    <3>1. Len(A) # 0
      BY <2>3
    <3> QED BY <2>3, <3>1, Lengths
  <2>5. Ahead(conn') = Rest(A, 1) /\ conn'.client = conn.client /\ pc' = "headers"
    BY <1>0, <1>13, <2>4, HeaderCharacterReads
  <2>6. 1 \in 0..(e - n)
    BY <2>1, <2>2, <2>3
  <2>7. Ahead2(e)
    BY <1>6, <2>1, <2>2, <2>5, <2>6
  <2> QED BY <1>3, <2>5, <2>7
<1> QED BY <1>7, <1>8, <1>9, <1>10, <1>11, <1>12, <1>13 DEF Reads

LEMMA AliveStep == StreamInv /\ LineInv /\ AliveInv /\ [SetupNext]_setupVars => AliveInv'
<1> SUFFICES ASSUME StreamInv, LineInv, AliveInv, [SetupNext]_setupVars PROVE AliveInv'
  OBVIOUS
<1>0. Fine(conn) /\ conn \in Conns
  BY DEF StreamInv, Fine
<1>1. ASSUME UNCHANGED <<conn, try, asked, sent>>, pc' # "hung", pc' = "headers" => pc = "headers"
      PROVE  AliveInv'
  <2>1. \A e : Whole(e)' <=> Whole(e)
    BY <1>1 DEF Whole
  <2> QED BY <1>1, <2>1 DEF AliveInv
<1>2. ASSUME UNCHANGED <<conn, try, asked, sent, pc>> PROVE AliveInv'
  <2>1. \A e : Whole(e)' <=> Whole(e)
    BY <1>2 DEF Whole
  <2> QED BY <1>2, <2>1 DEF AliveInv
<1>3. ASSUME conn' = Reset(conn), pc' \in {"idle", "off"} PROVE AliveInv'
  <2>1. conn'.client = "none"
    BY <1>0, <1>3, ResetIs
  <2> QED BY <1>3, <2>1 DEF AliveInv
<1>4. CASE ReadsOn
  BY <1>4, AliveReads DEF ReadsOn
<1>5. CASE Serves
  <2>1. pc = "idle" /\ pc' = "request" /\ Connects
    BY <1>5 DEF Serves, Connects
  <2>2. Ahead(conn) = <<>> /\ conn.client = "none"
    BY <2>1 DEF StreamInv
  <2>3. conn'.client \in {"silent", "gone"}
    BY <1>0, <2>1, <2>2, ConnectsReads
  <2> QED BY <2>1, <2>3 DEF AliveInv
<1>6. CASE Submits \/ StartsStoring
  BY <1>1, <1>6 DEF Submits, StartsStoring
<1>7. CASE TakesParameter
  BY <1>2, <1>7 DEF TakesParameter, webVars
<1>8. CASE ShowsPage
  BY <1>3, <1>8 DEF ShowsPage, CommandReturns
<1>9. CASE WritesByte
  BY <1>1, <1>2, <1>3, <1>9 DEF WritesByte, CommandReturns
<1>10. CASE Starts
  BY <1>1, <1>10 DEF Starts
<1>11. CASE LosesPower
  BY <1>3, <1>11 DEF LosesPower
<1>12. CASE UNCHANGED setupVars
  BY <1>2, <1>12 DEF setupVars, webVars
<1> QED BY <1>4, <1>5, <1>6, <1>7, <1>8, <1>9, <1>10, <1>11, <1>12 DEF SetupNext, Works

(* A client that sends a whole request and waits gets its page: the        *)
(* program never waits for more than the request has, for all requests     *)
(* whose last header has a value, whatever other headers there are and     *)
(* however they begin.                                                     *)
THEOREM NeverGivenUp == SetupSpec => []NotGivenUp
<1>1. SetupInit => StreamInv /\ LineInv /\ AliveInv
  <2>1. SetupInit => LineInv
    BY DEF SetupInit, LineInv
  <2>2. SetupInit => AliveInv
    BY DEF SetupInit, AliveInv
  <2> QED BY <2>1, <2>2, StreamInit
<1>2. (StreamInv /\ LineInv /\ AliveInv) /\ [SetupNext]_setupVars
        => (StreamInv /\ LineInv /\ AliveInv)'
  BY StreamStep, LineStep, AliveStep
<1>3. AliveInv => NotGivenUp
  BY DEF AliveInv, NotGivenUp, Whole
<1> QED BY <1>1, <1>2, <1>3, PTL DEF SetupSpec

-------------------------------------------------------------------------------
(* Numbers as texts *)

Specials == {"&", "=", "%", "+"}
NoDigits == White \cup {"-", "x", "X"}

LEMMA HexIs ==
    /\ \A i \in 1..22 : HexDigits[i] \in Characters /\ HexDigits[i] \notin Specials \cup NoDigits
    /\ \A i \in 1..16 : ValueOf(HexDigits[i]) = i - 1
    /\ \A i \in 17..22 : ValueOf(HexDigits[i]) = i - 7
    /\ HexDigits[1] = "0" /\ HexDigits[2] = "1"
<1>1. /\ HexDigits[1] = "0" /\ HexDigits[2] = "1" /\ HexDigits[3] = "2" /\ HexDigits[4] = "3"
      /\ HexDigits[5] = "4" /\ HexDigits[6] = "5" /\ HexDigits[7] = "6" /\ HexDigits[8] = "7"
      /\ HexDigits[9] = "8" /\ HexDigits[10] = "9" /\ HexDigits[11] = "A" /\ HexDigits[12] = "B"
      /\ HexDigits[13] = "C" /\ HexDigits[14] = "D" /\ HexDigits[15] = "E" /\ HexDigits[16] = "F"
      /\ HexDigits[17] = "a" /\ HexDigits[18] = "b" /\ HexDigits[19] = "c" /\ HexDigits[20] = "d"
      /\ HexDigits[21] = "e" /\ HexDigits[22] = "f"
  BY DEF HexDigits
<1>2. \A i \in 1..22 : \/ i = 1 \/ i = 2 \/ i = 3 \/ i = 4 \/ i = 5 \/ i = 6 \/ i = 7 \/ i = 8
                       \/ i = 9 \/ i = 10 \/ i = 11 \/ i = 12 \/ i = 13 \/ i = 14 \/ i = 15 \/ i = 16
                       \/ i = 17 \/ i = 18 \/ i = 19 \/ i = 20 \/ i = 21 \/ i = 22
  OBVIOUS
<1>a. \A i \in 1..22 : HexDigits[i] \in Characters
  BY <1>1, <1>2 DEF Characters, Letters
<1>b. \A i \in 1..22 : HexDigits[i] \notin Specials \cup NoDigits
  BY <1>1, <1>2 DEF Specials, NoDigits, White, CR
<1>4. \A i, j \in 1..22 : HexDigits[i] = HexDigits[j] => i = j
  BY <1>1, <1>2, SMTT(120)
<1>5. ASSUME NEW i \in 1..22 PROVE ValueOf(HexDigits[i]) = IF i > 16 THEN i - 7 ELSE i - 1
  <2> DEFINE j == CHOOSE k \in 1..22 : HexDigits[k] = HexDigits[i]
  <2>1. j \in 1..22 /\ HexDigits[j] = HexDigits[i]
    OBVIOUS
  <2>2. ValueOf(HexDigits[i]) = IF j > 16 THEN j - 7 ELSE j - 1
    BY DEF ValueOf
  <2> HIDE DEF j
  <2> QED BY <1>4, <2>1, <2>2
<1>6. \A i \in 1..16 : ValueOf(HexDigits[i]) = i - 1
  <2> TAKE i \in 1..16
  <2>1. i \in 1..22 /\ ~(i > 16)
    OBVIOUS
  <2> QED BY <1>5, <2>1
<1>7. \A i \in 17..22 : ValueOf(HexDigits[i]) = i - 7
  <2> TAKE i \in 17..22
  <2>1. i \in 1..22 /\ i > 16
    OBVIOUS
  <2> QED BY <1>5, <2>1
<1> QED BY <1>1, <1>a, <1>b, <1>6, <1>7

LEMMA ValueIs ==
    ASSUME NEW b \in {10, 16}, NEW c \in DigitsOf(b)
    PROVE  /\ ValueOf(c) \in 0..(b - 1)
           /\ c \in Characters /\ c \notin Specials /\ c \notin NoDigits
<1>1. PICK i \in 1..(IF b = 16 THEN 22 ELSE 10) : c = HexDigits[i]
  BY DEF DigitsOf
<1>2. i \in 1..22 /\ (b = 10 => i \in 1..10)
  OBVIOUS
<1>3. c \in Characters /\ c \notin Specials /\ c \notin NoDigits
  BY <1>1, <1>2, HexIs
<1>4. ValueOf(c) \in 0..(b - 1)
  <2>1. CASE i \in 1..16
    <3>1. ValueOf(c) = i - 1
      BY <1>1, <2>1, HexIs
    <3> QED BY <1>2, <2>1, <3>1
  <2>2. CASE i \in 17..22
    <3>1. ValueOf(c) = i - 7 /\ b = 16
      BY <1>1, <1>2, <2>2, HexIs
    <3> QED BY <2>2, <3>1
  <2> QED BY <1>2, <2>1, <2>2
<1> QED BY <1>3, <1>4

(* atoi() and strtol() take one more digit. *)
Values == {v \in Nat : v < 65536}
OneMore(x, b, c) == (x * b + ValueOf(c)) % 65536

LEMMA OneMoreIs ==
    ASSUME NEW b \in {10, 16}, NEW c \in DigitsOf(b), NEW x \in Values
    PROVE  /\ OneMore(x, b, c) \in Values
           /\ \A k \in Values : x * b + ValueOf(c) = k => OneMore(x, b, c) = k
<1> DEFINE v == ValueOf(c)
<1>1. v \in Nat
  <2>1. v \in 0..(b - 1)
    BY ValueIs
  <2> HIDE DEF v
  <2> QED BY <2>1, SMT
<1>2. x \in Nat
  BY SMT DEF Values
<1>v. v = ValueOf(c)
  OBVIOUS
<1> HIDE DEF v
<1>3. x * 10 + v \in Nat /\ x * 16 + v \in Nat
  BY <1>1, <1>2, SMT
<1>4. \A z \in Nat : z % 65536 \in Values /\ (z \in Values => z % 65536 = z)
  <2>1. \A z \in Nat : z % 65536 \in Values /\ (z < 65536 => z % 65536 = z)
    BY SMT DEF Values
  <2>2. \A z \in Values : z < 65536
    BY SMT DEF Values
  <2> QED BY <2>1, <2>2
<1>5. CASE b = 10
  <2>1. OneMore(x, b, c) = (x * 10 + v) % 65536 /\ x * b + ValueOf(c) = x * 10 + v
    BY <1>v, <1>5, SMT DEF OneMore
  <2> QED BY <1>3, <1>4, <2>1, SMT
<1>6. CASE b = 16
  <2>1. OneMore(x, b, c) = (x * 16 + v) % 65536 /\ x * b + ValueOf(c) = x * 16 + v
    BY <1>v, <1>6, SMT DEF OneMore
  <2> QED BY <1>3, <1>4, <2>1, SMT
<1> QED BY <1>5, <1>6

(* The value of the first n digits of a text, one after the other. *)
Counts(v, text, b, n) ==
    /\ v \in [0..n -> Values] /\ v[0] = 0
    /\ \A k \in 1..n : v[k] = OneMore(v[k - 1], b, text[k])

LEMMA DigitRun ==
    ASSUME NEW t \in Texts, NEW b, NEW n, n = RunOf(t, 1, DigitsOf(b))
    PROVE  /\ n \in 0..Len(t) /\ n \in Nat /\ \A k \in 1..n : k <= Len(t) /\ t[k] \in DigitsOf(b)
           /\ n < Len(t) => t[n + 1] \notin DigitsOf(b)
<1>1. 1 \in Nat \ {0}
  OBVIOUS
<1> DEFINE G == DigitsOf(b)
<1> HIDE DEF G
<1>2. n = RunOf(t, 1, G)
  BY DEF G
<1>3. /\ n \in 0..Len(t) /\ \A k \in 1..(1 + n - 1) : k <= Len(t) /\ t[k] \in G
      /\ 1 + n > Len(t) \/ t[1 + n] \notin G
  BY <1>1, <1>2, RunOfIs
<1>4. Len(t) \in Nat
  BY Lengths
<1>5. 1 + n - 1 = n /\ n \in Nat /\ 1 + n = n + 1 /\ (n < Len(t) => ~(n + 1 > Len(t)))
  BY <1>3, <1>4
<1>6. n < Len(t) => t[n + 1] \notin G
  BY <1>3, <1>5
<1>7. \A k \in 1..n : k <= Len(t) /\ t[k] \in G
  BY <1>3, <1>5
<1> QED BY <1>3, <1>5, <1>6, <1>7 DEF G

LEMMA UnsignedIs ==
    ASSUME NEW t \in Texts, NEW b \in {10, 16}, NEW n, n = RunOf(t, 1, DigitsOf(b))
    PROVE  Unsigned(t, b) \in Values /\ \E v : Counts(v, t, b, n) /\ Unsigned(t, b) = v[n]
<1> DEFINE Step(x, k) == OneMore(x, b, t[k])
           At(v, k) == IF k = 0 THEN 0 ELSE Step(v[k - 1], k)
           Solves(v) == v = [k \in 0..n |-> At(v, k)]
           F == [k \in 1..n |-> [x \in Values |-> Step(x, k)]]
           h == CHOOSE v : Solves(v)
<1>1. n \in Nat /\ \A k \in 1..n : t[k] \in DigitsOf(b)
  BY DigitRun
<1>2. \A k \in 1..n : \A x \in Values : Step(x, k) \in Values
  BY <1>1, OneMoreIs
<1>3. Unsigned(t, b) = h[n]
  BY DEF Unsigned, OneMore
<1>s. \A v, k : Step(v[k], k + 1) = OneMore(v[k], b, t[k + 1])
  OBVIOUS
<1>r. \A v : \A k \in 1..n : Step(v[k - 1], k) = OneMore(v[k - 1], b, t[k])
  OBVIOUS
<1> HIDE DEF Step
<1>4. StepsIn(F, n, Values)
  BY <1>2 DEF StepsIn
<1>5. PICK g : Follows(g, F, n, Values, 0)
  <2> HIDE DEF F
  <2>1. 0 \in Values
    BY SMT DEF Values
  <2> QED BY <1>1, <1>4, <2>1, Recursion
<1>6. g \in [0..n -> Values] /\ g[0] = 0 /\ \A k \in 1..n : g[k] = Step(g[k - 1], k)
  <2>1. g \in [0..n -> Values] /\ g[0] = 0 /\ \A k \in 1..n : g[k] = F[k][g[k - 1]]
    BY <1>5 DEF Follows
  <2>2. ASSUME NEW k \in 1..n PROVE F[k][g[k - 1]] = Step(g[k - 1], k)
    <3>1. k - 1 \in 0..n
      BY <1>1
    <3>2. g[k - 1] \in Values
      BY <2>1, <3>1
    <3> QED BY <3>2
  <2> HIDE DEF F
  <2> QED BY <2>1, <2>2
<1>7. Solves(g)
  <2>1. \A k \in 0..n : g[k] = At(g, k)
    <3> TAKE k \in 0..n
    <3>1. k # 0 => k \in 1..n
      BY <1>1
    <3> QED BY <1>6, <3>1
  <2>2. g = [k \in 0..n |-> g[k]]
    BY <1>6
  <2> HIDE DEF At
  <2> QED BY <2>1, <2>2
<1>8. Solves(h)
  <2> HIDE DEF Solves
  <2> QED BY <1>7
<1> HIDE DEF h
<1>10. \A k \in 0..n : h[k] = At(h, k)
  <2> TAKE k \in 0..n
  <2>1. h = [l \in 0..n |-> At(h, l)]
    BY <1>8
  <2> HIDE DEF At
  <2> QED BY <2>1
<1>11. h[0] = 0 /\ \A k \in 1..n : h[k] = Step(h[k - 1], k)
  <2>1. 0 \in 0..n /\ \A k \in 1..n : k \in 0..n /\ k # 0
    BY <1>1
  <2> QED BY <1>10, <2>1
<1> DEFINE Right == {k \in 0..n : h[k] \in Values}
<1>12. 0 \in Right
  <2>1. 0 \in Values /\ 0 \in 0..n
    BY <1>1, SMT DEF Values
  <2> QED BY <1>11, <2>1
<1>13. ASSUME NEW k \in 0..(n - 1), k \in Right PROVE k + 1 \in Right
  <2>1. k + 1 \in 1..n /\ k + 1 \in 0..n /\ (k + 1) - 1 = k /\ h[k] \in Values
    BY <1>1, <1>13
  <2>2. h[k + 1] = Step(h[k], k + 1)
    BY <1>11, <2>1
  <2>3. h[k + 1] \in Values
    BY <1>2, <2>1, <2>2
  <2> QED BY <2>1, <2>3
<1>14. 0..n \subseteq Right
  <2> HIDE DEF Right
  <2> QED BY <1>1, <1>12, <1>13, SetInduction
<1>15. h \in [0..n -> Values]
  <2>1. \A k \in 0..n : h[k] \in Values
    BY <1>14
  <2>2. h = [k \in 0..n |-> At(h, k)]
    BY <1>8
  <2> HIDE DEF At
  <2> QED BY <2>1, <2>2
<1>16. n \in 0..n
  BY <1>1
<1>17. Counts(h, t, b, n)
  <2>1. \A k \in 1..n : h[k] = OneMore(h[k - 1], b, t[k])
    BY <1>11, <1>r
  <2> QED BY <1>11, <1>15, <2>1 DEF Counts
<1> QED BY <1>3, <1>15, <1>16, <1>17

(* Whatever the text, its number fits into a word. *)
LEMMA UnsignedType ==
    ASSUME NEW t \in Texts, NEW b \in {10, 16}
    PROVE  Unsigned(t, b) \in Values
BY UnsignedIs

LEMMA AllDigits ==
    ASSUME NEW t \in Texts, NEW b, \A i \in 1..Len(t) : t[i] \in DigitsOf(b)
    PROVE  RunOf(t, 1, DigitsOf(b)) = Len(t)
<1> DEFINE n == RunOf(t, 1, DigitsOf(b))
<1>1. n \in 0..Len(t) /\ (n < Len(t) => t[n + 1] \notin DigitsOf(b))
  BY DigitRun
<1>2. Len(t) \in Nat
  BY Lengths
<1> HIDE DEF n
<1>3. ~(n < Len(t))
  <2>1. n < Len(t) => n + 1 \in 1..Len(t)
    BY <1>1, <1>2
  <2> QED BY <1>1, <2>1
<1>4. n = Len(t)
  BY <1>1, <1>2, <1>3
<1> QED BY <1>4 DEF n

(* A digit behind digits. *)
LEMMA UnsignedAppend ==
    ASSUME NEW t \in Texts, NEW b \in {10, 16}, NEW c \in DigitsOf(b),
           \A i \in 1..Len(t) : t[i] \in DigitsOf(b)
    PROVE  Unsigned(t \o <<c>>, b) = OneMore(Unsigned(t, b), b, c)
<1> DEFINE u == t \o <<c>>
           l == Len(t)
<1>1. c \in Characters
  BY ValueIs
<1>2. <<c>> \in Texts /\ Len(<<c>>) = 1 /\ <<c>>[1] = c
  BY <1>1, OneIs DEF Texts
<1>3. /\ u \in Texts /\ Len(u) = l + 1 /\ l \in Nat
      /\ \A i \in 1..l : u[i] = t[i]
      /\ u[l + 1] = c
  <2>1. /\ u \in Texts /\ Len(u) = l + Len(<<c>>)
        /\ \A i \in 1..l : u[i] = t[i]
        /\ \A i \in 1..Len(<<c>>) : u[l + i] = <<c>>[i]
    BY <1>2, JoinIs
  <2>2. 1 \in 1..Len(<<c>>)
    BY <1>2
  <2>3. u[l + 1] = c
    BY <1>2, <2>1, <2>2, Zenon
  <2> HIDE DEF u
  <2> QED BY <1>2, <2>1, <2>3, Lengths
<1> HIDE DEF u
<1>4. \A i \in 1..Len(u) : u[i] \in DigitsOf(b)
  <2> TAKE i \in 1..Len(u)
  <2>1. i \in 1..l \/ i = l + 1
    BY <1>3
  <2> QED BY <1>3, <2>1
<1>5. RunOf(t, 1, DigitsOf(b)) = l /\ RunOf(u, 1, DigitsOf(b)) = l + 1
  BY <1>3, <1>4, AllDigits
<1>6. PICK v : Counts(v, t, b, l) /\ Unsigned(t, b) = v[l]
  BY <1>5, UnsignedIs
<1>7. PICK w : Counts(w, u, b, l + 1) /\ Unsigned(u, b) = w[l + 1]
  BY <1>3, <1>5, UnsignedIs
<1> DEFINE Like == {k \in 0..l : w[k] = v[k]}
<1>8. 0 \in Like
  BY <1>3, <1>6, <1>7 DEF Counts
<1>9. ASSUME NEW k \in 0..(l - 1), k \in Like PROVE k + 1 \in Like
  <2>1. k + 1 \in 1..l /\ k + 1 \in 1..(l + 1) /\ k + 1 \in 0..l /\ (k + 1) - 1 = k
    BY <1>3
  <2>2. w[k + 1] = OneMore(w[k], b, u[k + 1]) /\ v[k + 1] = OneMore(v[k], b, t[k + 1])
    BY <1>6, <1>7, <2>1 DEF Counts
  <2>3. u[k + 1] = t[k + 1] /\ w[k] = v[k]
    BY <1>3, <1>9, <2>1
  <2> QED BY <2>1, <2>2, <2>3
<1>10. 0..l \subseteq Like
  <2> HIDE DEF Like
  <2> QED BY <1>3, <1>8, <1>9, SetInduction
<1>11. w[l] = v[l]
  <2>1. l \in 0..l
    BY <1>3
  <2> QED BY <1>10, <2>1
<1>12. w[l + 1] = OneMore(w[l], b, u[l + 1])
  <2>1. l + 1 \in 1..(l + 1) /\ (l + 1) - 1 = l
    BY <1>3
  <2> QED BY <1>7, <2>1 DEF Counts
<1>13. Unsigned(u, b) = OneMore(Unsigned(t, b), b, c)
  BY <1>3, <1>6, <1>7, <1>11, <1>12
<1> QED BY <1>13 DEF u

LEMMA InValues == \A x \in Int : 0 <= x /\ x <= 65535 => x \in Values
BY SMT DEF Values

LEMMA DivIs ==
    ASSUME NEW b \in {10, 16}, NEW k \in Nat
    PROVE  /\ k % b \in 0..(b - 1) /\ k = (k \div b) * b + (k % b)
           /\ k \div b \in Nat
           /\ k < b => k % b = k
           /\ ~(k < b) => k \div b \in 0..(k - 1)
<1>1. CASE b = 10
  BY <1>1, SMT
<1>2. CASE b = 16
  BY <1>2, SMT
<1> QED BY <1>1, <1>2

(* How many digits a number has at most. *)
Size(b, k, l) ==
    /\ l \in 1..5 /\ (k < b => l = 1) /\ (k < 100 => l <= 2) /\ (k < 1000 => l <= 3)
    /\ (k < 10000 => l <= 4) /\ (b = 16 /\ k < 256 => l <= 2)

LEMMA SizeStep ==
    ASSUME NEW b \in {10, 16}, NEW k \in Values, ~(k < b), NEW l, Size(b, k \div b, l)
    PROVE  Size(b, k, l + 1)
<1>1. k \in Nat /\ k < 65536
  BY SMT DEF Values
<1>2. CASE b = 10
  <2>1. /\ k \div 10 \in Nat /\ k \div 10 < 10000 /\ (k < 100 => k \div 10 < 10)
        /\ (k < 1000 => k \div 10 < 100) /\ (k < 10000 => k \div 10 < 1000)
    BY <1>1, <1>2, SMT
  <2> DEFINE d == k \div 10
  <2>2. Size(10, d, l)
    BY <1>2
  <2> HIDE DEF d
  <2>3. /\ d \in Nat /\ d < 10000 /\ (k < 100 => d < 10)
        /\ (k < 1000 => d < 100) /\ (k < 10000 => d < 1000)
    BY <2>1 DEF d
  <2> QED BY <1>1, <1>2, <2>2, <2>3, SMT DEF Size
<1>3. CASE b = 16
  <2>1. /\ k \div 16 \in Nat /\ k \div 16 < 10000 /\ (k < 100 => k \div 16 < 16)
        /\ (k < 1000 => k \div 16 < 100) /\ (k < 10000 => k \div 16 < 1000)
        /\ (k < 256 => k \div 16 < 16)
    BY <1>1, <1>3, SMT
  <2> DEFINE d == k \div 16
  <2>2. Size(16, d, l)
    BY <1>3
  <2> HIDE DEF d
  <2>3. /\ d \in Nat /\ d < 10000 /\ (k < 100 => d < 16)
        /\ (k < 1000 => d < 100) /\ (k < 10000 => d < 1000) /\ (k < 256 => d < 16)
    BY <2>1 DEF d
  <2> QED BY <1>1, <1>3, <2>2, <2>3, SMT DEF Size
<1> QED BY <1>2, <1>3

(* The last digit of a number. *)
LastDigit(k, b) == HexDigits[(k % b) + 1]

LEMMA LastDigitIs ==
    ASSUME NEW b \in {10, 16}, NEW k \in Nat
    PROVE  /\ LastDigit(k, b) \in DigitsOf(b) /\ ValueOf(LastDigit(k, b)) = k % b
           /\ <<LastDigit(k, b)>> \in Texts /\ Len(<<LastDigit(k, b)>>) = 1
           /\ <<LastDigit(k, b)>>[1] = LastDigit(k, b)
<1> DEFINE r == k % b
           c == LastDigit(k, b)
<1>1. r \in 0..(b - 1)
  BY DivIs
<1>2. c = HexDigits[r + 1]
  BY DEF LastDigit
<1> HIDE DEF r
<1>3. /\ r + 1 \in 1..(IF b = 16 THEN 22 ELSE 10)
      /\ r + 1 \in 1..16 /\ r + 1 \in 1..22 /\ (r + 1) - 1 = r
  BY <1>1
<1> HIDE DEF c
<1>4. c \in DigitsOf(b)
  BY <1>2, <1>3 DEF DigitsOf
<1>5. ValueOf(c) = r /\ c \in Characters
  BY <1>2, <1>3, HexIs
<1>6. <<c>> \in Texts /\ Len(<<c>>) = 1 /\ <<c>>[1] = c
  BY <1>5, OneIs DEF Texts
<1> QED BY <1>4, <1>5, <1>6 DEF c, r

(* A text that shows a number. *)
Shows(t, k, b) ==
    /\ t \in Texts /\ \A i \in 1..Len(t) : t[i] \in DigitsOf(b)
    /\ Unsigned(t, b) = k /\ Size(b, k, Len(t))

LEMMA UnsignedOfNothing == ASSUME NEW b \in {10, 16} PROVE Unsigned(<<>>, b) = 0
<1>1. <<>> \in Texts /\ Len(<<>>) = 0
  BY Joins, Lengths
<1>2. RunOf(<<>>, 1, DigitsOf(b)) = 0
  <2>1. \A i \in 1..Len(<<>>) : <<>>[i] \in DigitsOf(b)
    BY <1>1
  <2> QED BY <1>1, <2>1, AllDigits
<1>3. PICK v : Counts(v, <<>>, b, 0) /\ Unsigned(<<>>, b) = v[0]
  BY <1>1, <1>2, UnsignedIs
<1> QED BY <1>3 DEF Counts

LEMMA ShowsOne ==
    ASSUME NEW b \in {10, 16}, NEW k \in Values, k < b
    PROVE  Shows(<<>> \o <<LastDigit(k, b)>>, k, b)
<1> DEFINE c == LastDigit(k, b)
           t == <<c>>
<1>0. k \in Nat
  BY SMT DEF Values
<1>1. /\ c \in DigitsOf(b) /\ ValueOf(c) = k % b /\ t \in Texts /\ Len(t) = 1 /\ t[1] = c
  BY <1>0, LastDigitIs
<1>2. <<>> \o t = t /\ <<>> \in Texts /\ Len(<<>>) = 0
  BY <1>1, Joins, Lengths
<1>3. k % b = k
  BY <1>0, DivIs
<1>4. \A i \in 1..Len(<<>>) : <<>>[i] \in DigitsOf(b)
  BY <1>2
<1>5. Unsigned(t, b) = OneMore(0, b, c)
  <2>1. Unsigned(<<>> \o <<c>>, b) = OneMore(Unsigned(<<>>, b), b, c)
    <3> HIDE DEF c
    <3> QED BY <1>1, <1>2, <1>4, UnsignedAppend
  <2> QED BY <1>2, <2>1, UnsignedOfNothing
<1> HIDE DEF c, t
<1>6. OneMore(0, b, c) = k
  <2>1. 0 \in Values /\ 0 * b + ValueOf(c) = k
    BY <1>0, <1>1, <1>3, SMT DEF Values
  <2> QED BY <1>1, <2>1, OneMoreIs, Zenon
<1>7. \A i \in 1..Len(t) : t[i] \in DigitsOf(b)
  BY <1>1
<1>8. Size(b, k, 1)
  BY <1>0, SMT DEF Size
<1>9. Shows(t, k, b)
  BY <1>1, <1>5, <1>6, <1>7, <1>8 DEF Shows
<1> QED BY <1>2, <1>9 DEF c, t

LEMMA ShowsMore ==
    ASSUME NEW b \in {10, 16}, NEW k \in Values, ~(k < b), NEW t, Shows(t, k \div b, b)
    PROVE  Shows(t \o <<LastDigit(k, b)>>, k, b)
<1> DEFINE c == LastDigit(k, b)
           d == k \div b
           u == t \o <<c>>
<1>0. k \in Nat
  BY SMT DEF Values
<1>1. /\ c \in DigitsOf(b) /\ ValueOf(c) = k % b
      /\ <<c>> \in Texts /\ Len(<<c>>) = 1 /\ <<c>>[1] = c
  BY <1>0, LastDigitIs
<1>2. d \in 0..(k - 1) /\ k = d * b + (k % b) /\ d \in Nat
  BY <1>0, DivIs
<1>3. /\ t \in Texts /\ \A i \in 1..Len(t) : t[i] \in DigitsOf(b)
      /\ Unsigned(t, b) = d /\ Size(b, d, Len(t))
  BY DEF Shows
<1>4. Size(b, k, Len(t) + 1)
  BY <1>3, SizeStep
<1> HIDE DEF c, d
<1>5. /\ u \in Texts /\ Len(u) = Len(t) + 1
      /\ \A i \in 1..Len(t) : u[i] = t[i]
      /\ \A i \in 1..Len(<<c>>) : u[Len(t) + i] = <<c>>[i]
  BY <1>1, <1>3, JoinIs
<1>6. Unsigned(u, b) = OneMore(d, b, c)
  BY <1>1, <1>3, UnsignedAppend
<1> HIDE DEF u
<1>7. \A i \in 1..Len(u) : u[i] \in DigitsOf(b)
  <2> TAKE i \in 1..Len(u)
  <2>1. Len(t) \in Nat /\ (i \in 1..Len(t) \/ i = Len(t) + 1) /\ 1 \in 1..Len(<<c>>)
    BY <1>1, <1>3, <1>5, Lengths
  <2> QED BY <1>1, <1>3, <1>5, <2>1
<1>8. OneMore(d, b, c) = k
  <2>1. d \in Values
    <3>1. d \in 0..(k - 1)
      BY <1>2
    <3>2. k \in Nat /\ k <= 65535
      BY SMT DEF Values
    <3>3. d \in Int /\ 0 <= d /\ d <= 65535
      BY <3>1, <3>2, SMT
    <3> QED BY <3>3, InValues
  <2>2. d * b + ValueOf(c) = k
    BY <1>1, <1>2, Zenon
  <2> QED BY <1>1, <2>1, <2>2, OneMoreIs, Zenon
<1>9. Shows(u, k, b)
  BY <1>4, <1>5, <1>6, <1>7, <1>8 DEF Shows
<1> QED BY <1>9 DEF u, c

(* What is printed of a number is read as that number. *)
LEMMA PrintedIs ==
    ASSUME NEW b \in {10, 16}, NEW n \in Values
    PROVE  Shows(Printed(n, b), n, b)
<1> DEFINE At(g, k) == (IF k < b THEN <<>> ELSE g[k \div b]) \o <<LastDigit(k, b)>>
           Solves(g, m) == g = [k \in 0..m |-> At(g, k)]
           Solved == {m \in 0..n : \E g : Solves(g, m)}
           f == CHOOSE g : Solves(g, n)
<1>0. n \in Nat /\ \A k \in 0..n : k \in Nat /\ k \in Values
  <2>1. n \in Nat /\ n <= 65535
    BY SMT DEF Values
  <2>2. \A k \in 0..n : k \in Nat /\ k \in Values
    BY <2>1, SMT DEF Values
  <2> QED BY <2>1, <2>2
<1>1. Printed(n, b) = f[n]
  BY DEF Printed, LastDigit
<1>2. \A k \in 0..n : ~(k < b) => k \div b \in 0..(k - 1) /\ k \div b \in 0..n
  <2> SUFFICES ASSUME NEW k \in 0..n, ~(k < b) PROVE k \div b \in 0..(k - 1) /\ k \div b \in 0..n
    OBVIOUS
  <2> DEFINE d == k \div b
  <2>1. d \in 0..(k - 1) /\ k \in Nat
    BY <1>0, DivIs
  <2> HIDE DEF d
  <2>2. d \in 0..(k - 1) /\ d \in 0..n
    BY <1>0, <2>1, SMT
  <2> QED BY <2>2 DEF d
<1>3. 0 \in Solved
  <2>1. Solves([k \in 0..0 |-> At(<<>>, k)], 0)
    <3> DEFINE g == [k \in 0..0 |-> At(<<>>, k)]
    <3>1. \A k \in 0..0 : At(g, k) = At(<<>>, k)
      <4> TAKE k \in 0..0
      <4>1. k < b
        BY SMT
      <4> QED BY <4>1, Zenon
    <3> HIDE DEF At
    <3>2. g = [k \in 0..0 |-> At(g, k)]
      BY <3>1, Zenon
    <3> QED BY <3>2
  <2> HIDE DEF Solves
  <2>2. 0 \in 0..n
    BY <1>0
  <2> QED BY <2>1, <2>2
<1>4. ASSUME NEW m \in 0..(n - 1), m \in Solved PROVE m + 1 \in Solved
  <2>1. PICK g : Solves(g, m)
    BY <1>4
  <2>2. m + 1 \in 0..n /\ m \in Nat
    BY <1>0
  <2> DEFINE h == [k \in 0..(m + 1) |-> IF k = m + 1 THEN At(g, k) ELSE g[k]]
  <2>3. ASSUME NEW k \in 0..(m + 1) PROVE h[k] = At(h, k)
    <3>1. k \in 0..n
      BY <1>0, <2>2
    <3>2. h[k] = At(g, k)
      <4>1. CASE k = m + 1
        <5> HIDE DEF At
        <5> QED BY <4>1
      <4>2. CASE k # m + 1
        <5>1. k \in 0..m
          BY <2>2, <4>2
        <5>2. g = [l \in 0..m |-> At(g, l)]
          BY <2>1
        <5> HIDE DEF At
        <5>3. g[k] = At(g, k)
          BY <5>1, <5>2, Zenon
        <5> QED BY <4>2, <5>3
      <4> QED BY <4>1, <4>2
    <3>3. ~(k < b) => h[k \div b] = g[k \div b]
      <4> SUFFICES ASSUME ~(k < b) PROVE h[k \div b] = g[k \div b]
        OBVIOUS
      <4> DEFINE d == k \div b
      <4>1. d \in 0..(k - 1)
        BY <1>2, <3>1
      <4> HIDE DEF d, At
      <4>2. d \in 0..(m + 1) /\ d # m + 1
        BY <2>2, <4>1
      <4>3. h[d] = g[d]
        BY <4>2
      <4> HIDE DEF h
      <4> QED BY <4>3 DEF d
    <3> HIDE DEF h
    <3>4. At(g, k) = At(h, k)
      BY <3>3, Zenon
    <3> HIDE DEF At
    <3> QED BY <3>2, <3>4
  <2>4. Solves(h, m + 1)
    <3>1. h = [k \in 0..(m + 1) |-> h[k]]
      BY Zenon
    <3> HIDE DEF h, At
    <3> QED BY <2>3, <3>1, Zenon
  <2> HIDE DEF Solves, h
  <2> QED BY <2>2, <2>4
<1>5. Solves(f, n)
  <2>1. \E g : Solves(g, n)
    <3> HIDE DEF Solved
    <3>1. 0..n \subseteq Solved
      BY <1>0, <1>3, <1>4, SetInduction
    <3>2. n \in 0..n
      BY <1>0
    <3>3. n \in Solved
      BY <3>1, <3>2
    <3> HIDE DEF Solves
    <3> QED BY <3>3 DEF Solved
  <2> HIDE DEF Solves
  <2> QED BY <2>1
<1> HIDE DEF f
<1>6. \A k \in 0..n : f[k] = At(f, k)
  <2> TAKE k \in 0..n
  <2>1. f = [l \in 0..n |-> At(f, l)]
    BY <1>5
  <2> HIDE DEF At
  <2> QED BY <2>1, Zenon
<1> DEFINE Good == {m \in 0..n : \A k \in 0..m : Shows(f[k], k, b)}
<1>7. ASSUME NEW k \in 0..n, \A j \in 0..(k - 1) : Shows(f[j], j, b) PROVE Shows(f[k], k, b)
  <2>1. k \in Values /\ f[k] = At(f, k)
    BY <1>0, <1>6
  <2>2. CASE k < b
    <3>1. f[k] = <<>> \o <<LastDigit(k, b)>>
      BY <2>1, <2>2
    <3> QED BY <2>1, <2>2, <3>1, ShowsOne
  <2>3. CASE ~(k < b)
    <3>1. f[k] = f[k \div b] \o <<LastDigit(k, b)>>
      BY <2>1, <2>3
    <3>2. Shows(f[k \div b], k \div b, b)
      BY <1>2, <1>7, <2>3
    <3> QED BY <2>1, <2>3, <3>1, <3>2, ShowsMore
  <2> QED BY <2>2, <2>3
<1> HIDE DEF At
<1>8. 0 \in Good
  <2>1. \A j \in 0..(0 - 1) : Shows(f[j], j, b)
    OBVIOUS
  <2>2. 0 \in 0..n /\ \A k \in 0..0 : k = 0
    BY <1>0
  <2>3. Shows(f[0], 0, b)
    BY <1>7, <2>1, <2>2
  <2> QED BY <2>2, <2>3
<1>9. ASSUME NEW m \in 0..(n - 1), m \in Good PROVE m + 1 \in Good
  <2>1. m + 1 \in 0..n /\ (m + 1) - 1 = m /\ \A k \in 0..(m + 1) : k \in 0..m \/ k = m + 1
    BY <1>0
  <2>2. \A j \in 0..((m + 1) - 1) : Shows(f[j], j, b)
    BY <1>9, <2>1
  <2>3. Shows(f[m + 1], m + 1, b)
    BY <1>7, <2>1, <2>2
  <2> QED BY <1>9, <2>1, <2>3
<1>10. n \in Good
  <2> HIDE DEF Good
  <2>1. 0..n \subseteq Good
    BY <1>0, <1>8, <1>9, SetInduction
  <2>2. n \in 0..n
    BY <1>0
  <2> QED BY <2>1, <2>2
<1>11. n \in 0..n
  BY <1>0
<1> QED BY <1>1, <1>10, <1>11

(* A number without blanks and signs: what its digits are. *)
LEMMA NumberPlain ==
    ASSUME NEW t \in Texts, NEW b \in {10, 16}, \A i \in 1..Len(t) : t[i] \in DigitsOf(b)
    PROVE  Number(t, b) = Unsigned(t, b)
<1> DEFINE blanks == RunOf(t, 1, White)
           sign == IF blanks < Len(t) /\ t[blanks + 1] \in {"+", "-"} THEN 1 ELSE 0
           i == blanks + sign
           prefix == IF /\ b = 16 /\ i + 2 <= Len(t)
                        /\ t[i + 1] = "0" /\ t[i + 2] \in {"x", "X"} THEN 2 ELSE 0
<1>1. Number(t, b) = IF sign = 1 /\ t[i] = "-"
                     THEN (65536 - Unsigned(Rest(t, i + prefix), b)) % 65536
                     ELSE Unsigned(Rest(t, i + prefix), b)
  BY DEF Number
<1>2. Len(t) \in Nat /\ \A k \in 1..Len(t) : t[k] \notin Specials /\ t[k] \notin NoDigits
  BY ValueIs, Lengths
<1>3. \A k \in 1..Len(t) : t[k] \notin White /\ t[k] \notin {"+", "-"} /\ t[k] \notin {"x", "X"}
  BY <1>2 DEF Specials, NoDigits
<1>4. blanks = 0
  <2>1. 1 \in Nat \ {0} /\ blanks = RunOf(t, 1, White)
    OBVIOUS
  <2> HIDE DEF blanks
  <2>2. blanks \in 0..Len(t) /\ \A k \in 1..(1 + blanks - 1) : k <= Len(t) /\ t[k] \in White
    BY <2>1, RunOfIs
  <2>3. blanks # 0 => 1 \in 1..(1 + blanks - 1) /\ 1 \in 1..Len(t)
    BY <1>2, <2>2
  <2> QED BY <1>3, <2>2, <2>3
<1> HIDE DEF blanks
<1>5. sign = 0
  <2>1. 0 < Len(t) => 0 + 1 \in 1..Len(t)
    BY <1>2
  <2> QED BY <1>3, <1>4, <2>1
<1> HIDE DEF sign
<1>6. i = 0
  BY <1>4, <1>5
<1> HIDE DEF i
<1>7. prefix = 0
  <2>1. 0 + 2 <= Len(t) => 0 + 2 \in 1..Len(t)
    BY <1>2
  <2> QED BY <1>3, <1>6, <2>1
<1> HIDE DEF prefix
<1>8. Rest(t, i + prefix) = t
  BY <1>6, <1>7, RestOfNothing
<1> QED BY <1>1, <1>5, <1>8

(* Whatever the text, its number fits into a word. *)
LEMMA NumberType ==
    ASSUME NEW t \in Texts, NEW b \in {10, 16}
    PROVE  Number(t, b) \in Values
<1> DEFINE blanks == RunOf(t, 1, White)
           sign == IF blanks < Len(t) /\ t[blanks + 1] \in {"+", "-"} THEN 1 ELSE 0
           i == blanks + sign
           prefix == IF /\ b = 16 /\ i + 2 <= Len(t)
                        /\ t[i + 1] = "0" /\ t[i + 2] \in {"x", "X"} THEN 2 ELSE 0
           n == Unsigned(Rest(t, i + prefix), b)
<1>1. Number(t, b) = IF sign = 1 /\ t[i] = "-" THEN (65536 - n) % 65536 ELSE n
  BY DEF Number
<1>2. blanks \in Nat
  <2>1. 1 \in Nat \ {0} /\ blanks = RunOf(t, 1, White)
    OBVIOUS
  <2> HIDE DEF blanks
  <2>2. blanks \in 0..Len(t)
    BY <2>1, RunOfIs
  <2> QED BY <2>2, Lengths
<1>3. sign \in {0, 1} /\ prefix \in {0, 2}
  OBVIOUS
<1> HIDE DEF blanks, sign, prefix
<1>4. i + prefix \in Nat
  BY <1>2, <1>3
<1> HIDE DEF i
<1>5. n \in Values
  BY <1>4, RestIs, UnsignedType
<1> HIDE DEF n
<1>6. (65536 - n) % 65536 \in Values
  BY <1>5, SMT DEF Values
<1> QED BY <1>1, <1>5, <1>6

-------------------------------------------------------------------------------
(* Names and values in a URL *)

LEMMA CodedIs == ASSUME NEW h, NEW l PROVE Coded(h, l) \in Characters
<1> DEFINE v == Number(<<h, l>>, 16) % 256
<1>1. Coded(h, l) = Character(v)
  BY DEF Coded
<1> HIDE DEF v
<1>2. /\ \A k \in 48..57 : HexDigits[k - 47] \in Characters
      /\ \A k \in 65..70 : HexDigits[k - 54] \in Characters
      /\ \A k \in 97..102 : HexDigits[k - 80] \in Characters
  <2>1. /\ \A k \in 48..57 : k - 47 \in 1..22
        /\ \A k \in 65..70 : k - 54 \in 1..22
        /\ \A k \in 97..102 : k - 80 \in 1..22
    OBVIOUS
  <2> QED BY <2>1, HexIs
<1>3. {" ", "+", "-", "X", "x", "other"} \subseteq Characters
  BY DEF Characters, Letters
<1> DEFINE A == v \in 48..57
           B == v \in 65..70
           C == v \in 97..102
           D == v \in 9..13 \cup {32}
           c == Character(v)
<1>4. c = CASE A -> HexDigits[v - 47]
            [] B -> HexDigits[v - 54]
            [] C -> HexDigits[v - 80]
            [] D -> " "
            [] v = 43 -> "+"
            [] v = 45 -> "-"
            [] v = 88 -> "X"
            [] v = 120 -> "x"
            [] OTHER -> "other"
  BY DEF Character
<1>5. A \/ B \/ C \/ c \in {" ", "+", "-", "X", "x", "other"}
  <2> HIDE DEF A, B, C, D, c
  <2> QED BY <1>4
<1>6. /\ A => v \notin 65..70 /\ v \notin 97..102 /\ v \notin 9..13 \cup {32} /\ v \notin {43, 45, 88, 120}
      /\ B => v \notin 48..57 /\ v \notin 97..102 /\ v \notin 9..13 \cup {32} /\ v \notin {43, 45, 88, 120}
      /\ C => v \notin 65..70 /\ v \notin 48..57 /\ v \notin 9..13 \cup {32} /\ v \notin {43, 45, 88, 120}
  OBVIOUS
<1>7. (A => c = HexDigits[v - 47]) /\ (B => c = HexDigits[v - 54]) /\ (C => c = HexDigits[v - 80])
  BY <1>4, <1>6
<1> QED BY <1>1, <1>2, <1>3, <1>5, <1>7

(* A text without codes and blanks. *)
Plain(t) == \A i \in 1..Len(t) : t[i] \notin {"%", "+"}

LEMMA FirstAndRest ==
    ASSUME NEW t \in Texts, NEW i \in 1..Len(t)
    PROVE  <<t[i]>> \o Rest(t, i) = Rest(t, i - 1)
<1> DEFINE l == Len(t)
           o == <<t[i]>>
           r == Rest(t, i)
           a == Rest(t, i - 1)
<1>0. l \in Nat /\ i \in Nat /\ i - 1 \in Nat /\ i <= l /\ t[i] \in Characters
  BY Lengths, ElementOfSeq DEF Texts
<1>1. o \in Texts /\ Len(o) = 1 /\ o[1] = t[i]
  BY <1>0, OneIs DEF Texts
<1>2. r \in Texts /\ Len(r) = l - i /\ \A k \in 1..(l - i) : r[k] = t[i + k]
  BY <1>0, RestIs
<1>3. a \in Texts /\ Len(a) = l - (i - 1) /\ \A k \in 1..(l - (i - 1)) : a[k] = t[(i - 1) + k]
  <2> DEFINE n == i - 1
  <2>1. n \in Nat /\ n <= l
    BY <1>0
  <2> HIDE DEF n
  <2>2. Rest(t, n) \in Texts /\ Len(Rest(t, n)) = l - n
        /\ \A k \in 1..(l - n) : Rest(t, n)[k] = t[n + k]
    BY <2>1, RestIs
  <2> QED BY <2>2 DEF n
<1> DEFINE u == o \o r
<1> HIDE DEF l, o, r, a
<1>4. /\ u \in Texts /\ Len(u) = Len(o) + Len(r)
      /\ \A k \in 1..Len(o) : u[k] = o[k]
      /\ \A k \in 1..Len(r) : u[Len(o) + k] = r[k]
  BY <1>1, <1>2, JoinIs
<1> HIDE DEF u
<1>5. Len(u) = Len(a)
  BY <1>0, <1>1, <1>2, <1>3, <1>4
<1>6. ASSUME NEW k \in 1..Len(u) PROVE u[k] = a[k]
  <2>1. CASE k = 1
    <3>1. 1 \in 1..Len(o) /\ 1 \in 1..(l - (i - 1)) /\ (i - 1) + 1 = i
      BY <1>0, <1>1
    <3> QED BY <1>1, <1>3, <1>4, <2>1, <3>1
  <2>2. CASE k # 1
    <3>1. k - 1 \in 1..Len(r) /\ k - 1 \in 1..(l - i) /\ 1 + (k - 1) = k
          /\ k \in 1..(l - (i - 1)) /\ i + (k - 1) = (i - 1) + k
      BY <1>0, <1>1, <1>2, <1>4, <2>2
    <3>2. u[1 + (k - 1)] = r[k - 1]
      BY <1>1, <1>4, <3>1
    <3> QED BY <1>2, <1>3, <3>1, <3>2
  <2> QED BY <2>1, <2>2
<1>7. u = a
  BY <1>3, <1>4, <1>5, <1>6, Same
<1> QED BY <1>7 DEF u, o, r, a

LEMMA DecodedIs ==
    ASSUME NEW t \in Texts
    PROVE  Decoded(t) \in Texts /\ (Plain(t) => Decoded(t) = t)
<1> DEFINE L == Len(t)
           One(i) == <<IF t[i] = "+" THEN " " ELSE t[i]>>
           Two(i) == <<Coded(t[i + 1], t[i + 2])>>
           At(g, i) == IF i > L THEN <<>>
                       ELSE IF t[i] # "%" THEN One(i) \o g[i + 1]
                       ELSE IF i + 2 > L THEN <<>>
                       ELSE Two(i) \o g[i + 3]
           Solves(g, m) == g = [i \in m..(L + 1) |-> At(g, i)]
           Solved == {m \in 0..L : \E g : Solves(g, (L + 1) - m)}
           f == CHOOSE g : Solves(g, 1)
<1>0. L \in Nat /\ \A i \in 1..L : t[i] \in Characters
  BY Lengths, ElementOfSeq DEF Texts
<1>1. Decoded(t) = f[1]
  BY DEF Decoded
<1>2. ASSUME NEW i \in 1..L PROVE One(i) \in Texts
  <2>1. (IF t[i] = "+" THEN " " ELSE t[i]) \in Characters
    BY <1>0 DEF Characters, Letters
  <2> QED BY <2>1, OneIs DEF Texts
<1>3. ASSUME NEW i \in 1..L, ~(i + 2 > L) PROVE Two(i) \in Texts
  <2>1. i + 1 \in 1..L /\ i + 2 \in 1..L
    BY <1>0, <1>3
  <2>2. Coded(t[i + 1], t[i + 2]) \in Characters
    BY <1>0, <2>1, CodedIs
  <2> QED BY <2>2, OneIs DEF Texts
<1>4. \A i \in 1..L : t[i] \notin {"%", "+"} => One(i) = <<t[i]>>
  OBVIOUS
<1> HIDE DEF One, Two, L
<1>5. 0 \in Solved
  <2>1. Solves([i \in (L + 1)..(L + 1) |-> <<>>], L + 1)
    <3> DEFINE g == [i \in (L + 1)..(L + 1) |-> <<>>]
    <3>1. \A i \in (L + 1)..(L + 1) : At(g, i) = <<>>
      <4> TAKE i \in (L + 1)..(L + 1)
      <4>1. i > L
        BY <1>0
      <4> QED BY <4>1, Zenon
    <3> HIDE DEF At
    <3> QED BY <3>1, Zenon
  <2>2. 0 \in 0..L /\ (L + 1) - 0 = L + 1
    BY <1>0
  <2> HIDE DEF Solves
  <2> QED BY <2>1, <2>2
<1>6. ASSUME NEW m \in 0..(L - 1), m \in Solved PROVE m + 1 \in Solved
  <2> DEFINE e == (L + 1) - m
             d == (L + 1) - (m + 1)
  <2>1. PICK g : Solves(g, e)
    BY <1>6
  <2>2. m + 1 \in 0..L /\ d \in Nat /\ e = d + 1 /\ e \in 1..(L + 1) /\ d \in 1..L
    BY <1>0
  <2>d. d = (L + 1) - (m + 1)
    OBVIOUS
  <2> HIDE DEF d, e
  <2> DEFINE h == [i \in d..(L + 1) |-> IF i = d THEN At(g, i) ELSE g[i]]
  <2>3. ASSUME NEW i \in d..(L + 1) PROVE h[i] = At(h, i)
    <3>0. i \in Nat
      BY <2>2
    <3>1. h[i] = At(g, i)
      <4>1. CASE i = d
        <5> HIDE DEF At
        <5> QED BY <4>1
      <4>2. CASE i # d
        <5>1. i \in e..(L + 1)
          BY <1>0, <2>2, <4>2
        <5>2. g = [l \in e..(L + 1) |-> At(g, l)]
          BY <2>1
        <5> HIDE DEF At
        <5>3. g[i] = At(g, i)
          BY <5>1, <5>2, Zenon
        <5> QED BY <4>2, <5>3
      <4> QED BY <4>1, <4>2
    <3>2. ASSUME ~(i > L) PROVE h[i + 1] = g[i + 1]
      <4>1. i + 1 \in d..(L + 1) /\ i + 1 # d
        BY <1>0, <2>2, <3>2, <3>0
      <4> HIDE DEF At
      <4> QED BY <4>1
    <3>3. ASSUME ~(i + 2 > L) PROVE h[i + 3] = g[i + 3]
      <4>1. i + 3 \in d..(L + 1) /\ i + 3 # d
        BY <1>0, <2>2, <3>3, <3>0
      <4> HIDE DEF At
      <4> QED BY <4>1
    <3> HIDE DEF h
    <3>4. At(g, i) = At(h, i)
      BY <3>2, <3>3, Zenon
    <3> HIDE DEF At
    <3> QED BY <3>1, <3>4
  <2>4. Solves(h, d)
    <3>1. h = [i \in d..(L + 1) |-> h[i]]
      BY Zenon
    <3> HIDE DEF h, At
    <3> QED BY <2>3, <3>1, Zenon
  <2> HIDE DEF Solves, h
  <2> QED BY <2>2, <2>4, <2>d
<1>7. Solves(f, 1)
  <2>1. \E g : Solves(g, 1)
    <3> HIDE DEF Solved
    <3>1. 0..L \subseteq Solved
      BY <1>0, <1>5, <1>6, SetInduction
    <3>2. L \in 0..L /\ (L + 1) - L = 1
      BY <1>0
    <3>3. L \in Solved
      BY <3>1, <3>2
    <3> HIDE DEF Solves
    <3>4. \E g : Solves(g, (L + 1) - L)
      BY <3>3 DEF Solved
    <3> QED BY <3>2, <3>4
  <2> HIDE DEF Solves
  <2> QED BY <2>1
<1> HIDE DEF f
<1>8. \A i \in 1..(L + 1) : f[i] = At(f, i)
  <2> TAKE i \in 1..(L + 1)
  <2>1. f = [l \in 1..(L + 1) |-> At(f, l)]
    BY <1>7
  <2> HIDE DEF At
  <2> QED BY <2>1, Zenon
<1> DEFINE Right(i) == f[i] \in Texts /\ (Plain(t) => f[i] = Rest(t, i - 1))
           Good == {m \in 0..L : \A i \in ((L + 1) - m)..(L + 1) : Right(i)}
<1>9. ASSUME NEW i \in 1..(L + 1), \A j \in (i + 1)..(L + 1) : Right(j) PROVE Right(i)
  <2>0. f[i] = At(f, i)
    BY <1>8
  <2>1. CASE i > L
    <3>1. i = L + 1 /\ i - 1 = L
      BY <1>0, <2>1
    <3>2. f[i] = <<>>
      BY <2>0, <2>1
    <3>3. Rest(t, L) = <<>>
      BY RestOfNothing DEF L
    <3> QED BY <3>1, <3>2, <3>3, Joins
  <2>2. CASE ~(i > L) /\ t[i] # "%"
    <3>1. i \in 1..L /\ i + 1 \in (i + 1)..(L + 1) /\ (i + 1) - 1 = i
      BY <1>0, <2>2
    <3>2. f[i] = One(i) \o f[i + 1]
      BY <2>0, <2>2
    <3>3. f[i + 1] \in Texts /\ (Plain(t) => f[i + 1] = Rest(t, i))
      BY <1>9, <3>1
    <3>4. f[i] \in Texts
      BY <1>2, <3>1, <3>2, <3>3, JoinIs
    <3>5. ASSUME Plain(t) PROVE f[i] = Rest(t, i - 1)
      <4>1. One(i) = <<t[i]>>
        BY <1>4, <3>1, <3>5 DEF Plain, L
      <4>2. <<t[i]>> \o Rest(t, i) = Rest(t, i - 1)
        BY <3>1, FirstAndRest DEF L
      <4> QED BY <3>2, <3>3, <3>5, <4>1, <4>2
    <3> QED BY <3>4, <3>5
  <2>3. CASE ~(i > L) /\ t[i] = "%"
    <3>1. i \in 1..L
      BY <1>0, <2>3
    <3>2. ~Plain(t)
      BY <2>3, <3>1 DEF Plain, L
    <3>3. CASE i + 2 > L
      <4>1. f[i] = <<>>
        BY <2>0, <2>3, <3>3
      <4> QED BY <3>2, <4>1, Joins
    <3>4. CASE ~(i + 2 > L)
      <4>1. f[i] = Two(i) \o f[i + 3]
        BY <2>0, <2>3, <3>4
      <4>2. i + 3 \in (i + 1)..(L + 1)
        BY <1>0, <3>1, <3>4
      <4>3. f[i + 3] \in Texts /\ Two(i) \in Texts
        BY <1>3, <1>9, <3>1, <3>4, <4>2
      <4> QED BY <3>2, <4>1, <4>3, JoinIs
    <3> QED BY <3>3, <3>4
  <2> QED BY <2>1, <2>2, <2>3
<1> HIDE DEF Right, At
<1>10. 0 \in Good
  <2>1. 0 \in 0..L /\ (L + 1) - 0 = L + 1 /\ L + 1 \in 1..(L + 1)
        /\ \A j \in ((L + 1) + 1)..(L + 1) : FALSE
    BY <1>0
  <2>2. Right(L + 1)
    BY <1>9, <2>1
  <2>3. \A i \in ((L + 1) - 0)..(L + 1) : i = L + 1
    BY <1>0
  <2> QED BY <2>1, <2>2, <2>3
<1>11. ASSUME NEW m \in 0..(L - 1), m \in Good PROVE m + 1 \in Good
  <2> DEFINE d == (L + 1) - (m + 1)
  <2>1. /\ m + 1 \in 0..L /\ d \in 1..(L + 1)
        /\ \A i \in d..(L + 1) : i = d \/ i \in ((L + 1) - m)..(L + 1)
        /\ \A i \in (d + 1)..(L + 1) : i \in ((L + 1) - m)..(L + 1)
    BY <1>0
  <2>d. d = (L + 1) - (m + 1)
    OBVIOUS
  <2> HIDE DEF d
  <2>2. \A i \in ((L + 1) - m)..(L + 1) : Right(i)
    BY <1>11
  <2>3. Right(d)
    BY <1>9, <2>1, <2>2
  <2> QED BY <2>1, <2>2, <2>3, <2>d
<1>12. Right(1)
  <2> HIDE DEF Good
  <2>1. 0..L \subseteq Good
    BY <1>0, <1>10, <1>11, SetInduction
  <2>2. L \in 0..L /\ (L + 1) - L = 1 /\ 1 \in 1..(L + 1)
    BY <1>0
  <2>3. L \in Good
    BY <2>1, <2>2
  <2> QED BY <2>2, <2>3 DEF Good
<1>13. 1 - 1 = 0 /\ Rest(t, 0) = t
  BY RestOfNothing
<1> QED BY <1>1, <1>12, <1>13 DEF Right

LEMMA FittingIs ==
    ASSUME NEW t \in Texts, NEW n \in Nat \ {0}
    PROVE  Fitting(t, n) \in Texts /\ (Len(t) < n => Fitting(t, n) = t)
<1>1. Len(t) \in Nat
  BY Lengths
<1> DEFINE m == IF Len(t) < n THEN Len(t) ELSE n - 1
<1>2. m \in 0..Len(t) /\ (Len(t) < n => m = Len(t))
  BY <1>1
<1>3. Fitting(t, n) = SubSeq(t, 1, m)
  BY DEF Fitting
<1> HIDE DEF m
<1>4. SubSeq(t, 1, m) \in Texts
  BY <1>2, BeginIs
<1> QED BY <1>2, <1>3, <1>4, Joins

LEMMA PieceIs ==
    ASSUME NEW s \in Texts, NEW m \in Nat \ {0}, NEW n \in 0..Len(s)
    PROVE  SubSeq(s, m, n) \in Texts
<1>1. Len(s) \in Nat /\ \A i \in m..n : s[i] \in Characters
  BY Lengths, ElementOfSeq DEF Texts
<1>2. m \in Int /\ n \in Int
  BY <1>1
<1> QED BY <1>1, <1>2, SubSeqProperties DEF Texts

(* Of each character of a text, how many behind it belong to a code. *)
CodedIn(g, t) ==
    /\ g[0] = 0
    /\ \A i \in 1..Len(t) :
          g[i] = IF g[i - 1] > 0 THEN g[i - 1] - 1 ELSE IF t[i] = "%" THEN 2 ELSE 0

(* The first place in a text where a sign ends a name or a value. *)
EndsAt(n, t, G, g) == n < Len(t) => g[n] = 0 /\ t[n + 1] \in G
First(n, t, G, g) ==
    n \in 0..Len(t) /\ EndsAt(n, t, G, g) /\ \A k \in 0..(n - 1) : ~EndsAt(k, t, G, g)

LEMMA BeforeIs ==
    ASSUME NEW t \in Texts, NEW G
    PROVE  \E g : CodedIn(g, t) /\ First(Before(t, G), t, G, g)
<1> DEFINE L == Len(t)
           Step(x, i) == IF x > 0 THEN x - 1 ELSE IF t[i] = "%" THEN 2 ELSE 0
           At(v, i) == IF i = 0 THEN 0 ELSE Step(v[i - 1], i)
           Solves(v) == v = [i \in 0..L |-> At(v, i)]
           F == [i \in 1..L |-> [x \in 0..2 |-> Step(x, i)]]
           g == CHOOSE v : Solves(v)
<1>0. L \in Nat
  BY Lengths
<1>1. Before(t, G) = CHOOSE n \in 0..L : EndsAt(n, t, G, g) /\ \A k \in 0..(n - 1) : ~EndsAt(k, t, G, g)
  BY DEF Before, EndsAt
<1>l. L = Len(t)
  OBVIOUS
<1>2. \A i \in 1..L : \A x \in 0..2 : Step(x, i) \in 0..2
  OBVIOUS
<1>s. \A x, i : Step(x, i) = IF x > 0 THEN x - 1 ELSE IF t[i] = "%" THEN 2 ELSE 0
  OBVIOUS
<1> HIDE DEF L, Step
<1>3. StepsIn(F, L, 0..2)
  BY <1>2 DEF StepsIn
<1>4. PICK f : Follows(f, F, L, 0..2, 0)
  <2> HIDE DEF F
  <2>1. 0 \in 0..2
    OBVIOUS
  <2> QED BY <1>0, <1>3, <2>1, Recursion
<1>5. f \in [0..L -> 0..2] /\ f[0] = 0 /\ \A i \in 1..L : f[i] = Step(f[i - 1], i)
  <2>1. f \in [0..L -> 0..2] /\ f[0] = 0 /\ \A i \in 1..L : f[i] = F[i][f[i - 1]]
    BY <1>4 DEF Follows
  <2>2. ASSUME NEW i \in 1..L PROVE F[i][f[i - 1]] = Step(f[i - 1], i)
    <3>1. i - 1 \in 0..L
      BY <1>0
    <3>2. f[i - 1] \in 0..2
      BY <2>1, <3>1
    <3> QED BY <3>2
  <2> HIDE DEF F
  <2> QED BY <2>1, <2>2
<1>6. Solves(f)
  <2>1. \A i \in 0..L : f[i] = At(f, i)
    <3> TAKE i \in 0..L
    <3>1. i # 0 => i \in 1..L
      BY <1>0
    <3> QED BY <1>5, <3>1
  <2>2. f = [i \in 0..L |-> f[i]]
    BY <1>5
  <2> HIDE DEF At
  <2> QED BY <2>1, <2>2
<1>7. Solves(g)
  <2> HIDE DEF Solves
  <2> QED BY <1>6
<1> HIDE DEF g
<1>8. \A i \in 0..L : g[i] = At(g, i)
  <2> TAKE i \in 0..L
  <2>1. g = [j \in 0..L |-> At(g, j)]
    BY <1>7
  <2> HIDE DEF At
  <2> QED BY <2>1
<1>9. CodedIn(g, t)
  <2>1. 0 \in 0..L /\ \A i \in 1..L : i \in 0..L /\ i # 0
    BY <1>0
  <2>2. g[0] = 0 /\ \A i \in 1..L : g[i] = Step(g[i - 1], i)
    BY <1>8, <2>1
  <2> QED BY <1>l, <1>s, <2>2, Zenon DEF CodedIn
<1>10. \E n \in 0..L : EndsAt(n, t, G, g) /\ \A k \in 0..(n - 1) : ~EndsAt(k, t, G, g)
  <2> DEFINE S == {n \in 0..L : EndsAt(n, t, G, g)}
  <2>1. L \in S
    BY <1>0, <1>l DEF EndsAt
  <2>2. \A n \in 0..L : n \notin S => ~EndsAt(n, t, G, g)
    OBVIOUS
  <2>3. \A n \in S : n \in 0..L /\ EndsAt(n, t, G, g)
    OBVIOUS
  <2> HIDE DEF S
  <2>4. PICK n \in 0..L : n \in S /\ \A k \in 0..(n - 1) : k \notin S
    BY <1>0, <2>1, LeastElement
  <2>5. \A k \in 0..(n - 1) : ~EndsAt(k, t, G, g)
    <3> TAKE k \in 0..(n - 1)
    <3>1. k \in 0..L
      BY <1>0
    <3> QED BY <2>2, <2>4, <3>1
  <2> QED BY <2>3, <2>4, <2>5
<1>11. First(Before(t, G), t, G, g)
  BY <1>1, <1>10, <1>l DEF First
<1> QED BY <1>9, <1>11

(* Without a code before it, it is the first of these signs. *)
LEMMA BeforeAt ==
    ASSUME NEW t \in Texts, NEW G, NEW n \in 0..Len(t),
           \A k \in 1..n : t[k] \notin G /\ t[k] # "%", n < Len(t) => t[n + 1] \in G
    PROVE  Before(t, G) = n
<1> DEFINE m == Before(t, G)
<1>0. Len(t) \in Nat
  BY Lengths
<1>1. PICK g : CodedIn(g, t) /\ First(m, t, G, g)
  BY BeforeIs
<1> HIDE DEF m
<1> DEFINE S == {k \in 0..n : g[k] = 0}
<1>2. 0..n \subseteq S
  <2>1. 0 \in S
    BY <1>0, <1>1 DEF CodedIn
  <2>2. ASSUME NEW k \in 0..(n - 1), k \in S PROVE k + 1 \in S
    <3>1. k + 1 \in 1..Len(t) /\ k + 1 \in 1..n /\ k + 1 \in 0..n /\ (k + 1) - 1 = k /\ g[k] = 0
      BY <1>0, <2>2
    <3>2. g[k + 1] = IF g[k] > 0 THEN g[k] - 1 ELSE IF t[k + 1] = "%" THEN 2 ELSE 0
      BY <1>1, <3>1 DEF CodedIn
    <3>3. ~(g[k] > 0)
      BY <3>1
    <3> QED BY <3>1, <3>2, <3>3
  <2> HIDE DEF S
  <2>3. n \in Nat
    BY <1>0
  <2> QED BY <2>1, <2>2, <2>3, SetInduction
<1>3. \A k \in 0..n : g[k] = 0
  BY <1>2
<1>4. EndsAt(n, t, G, g) /\ \A k \in 0..(n - 1) : ~EndsAt(k, t, G, g)
  <2>1. n \in 0..n
    BY <1>0
  <2>2. \A k \in 0..(n - 1) : k < Len(t) /\ k + 1 \in 1..n
    BY <1>0
  <2> QED BY <1>3, <2>1, <2>2 DEF EndsAt
<1>5. m \in 0..Len(t) /\ EndsAt(m, t, G, g) /\ \A k \in 0..(m - 1) : ~EndsAt(k, t, G, g)
  BY <1>1 DEF First
<1>6. ~(m < n) /\ ~(n < m)
  <2>1. (m < n => m \in 0..(n - 1)) /\ (n < m => n \in 0..(m - 1))
    BY <1>0, <1>5
  <2> QED BY <1>4, <1>5, <2>1
<1>7. m = n
  BY <1>0, <1>5, <1>6
<1> QED BY <1>7 DEF m

(* What is read of any text, ... *)
LEMMA NextIs ==
    ASSUME NEW t \in Texts
    PROVE  /\ NextUrlParam(t).name \in Texts /\ NextUrlParam(t).value \in Texts
           /\ NextUrlParam(t).tail \in Texts
<1> DEFINE name == Before(t, {"=", "&"})
           value == Before(Rest(t, name + 1), {"&"})
           pair == IF name < Len(t) /\ t[name + 1] = "=" THEN name + 1 + value ELSE name
<1>1. NextUrlParam(t) = [name |-> Fitting(Decoded(SubSeq(t, 1, name)), NameLen),
                         value |-> Fitting(Decoded(SubSeq(t, name + 2, pair)), ValueLen),
                         tail |-> Rest(t, pair + 1)]
  BY DEF NextUrlParam
<1>2. pair \in 0..Len(t) /\ name \in 0..Len(t) /\ Len(t) \in Nat
  <2>1. name \in 0..Len(t) /\ Len(t) \in Nat
    BY BeforeIs, Lengths DEF First
  <2> HIDE DEF name
  <2>2. ASSUME name < Len(t) PROVE value \in 0..(Len(t) - (name + 1))
    <3> DEFINE q == name + 1
               r == Rest(t, q)
    <3>1. q \in Nat /\ q <= Len(t)
      BY <2>1, <2>2
    <3>2. value = Before(r, {"&"})
      OBVIOUS
    <3> HIDE DEF q, value
    <3>3. r \in Texts /\ Len(r) = Len(t) - q
      BY <3>1, RestIs
    <3> HIDE DEF r
    <3>4. value \in 0..Len(r)
      BY <3>2, <3>3, BeforeIs DEF First
    <3> QED BY <3>3, <3>4 DEF q
  <2> HIDE DEF value
  <2> QED BY <2>1, <2>2
<1>3. NameLen \in Nat \ {0} /\ ValueLen \in Nat \ {0}
  BY FormAssumption
<1> HIDE DEF pair, value, name
<1>4. name + 2 \in Nat \ {0} /\ pair + 1 \in Nat
  BY <1>2
<1>5. SubSeq(t, 1, name) \in Texts /\ SubSeq(t, name + 2, pair) \in Texts /\ Rest(t, pair + 1) \in Texts
  BY <1>2, <1>4, BeginIs, PieceIs, RestIs
<1>6. Decoded(SubSeq(t, 1, name)) \in Texts /\ Decoded(SubSeq(t, name + 2, pair)) \in Texts
  BY <1>5, DecodedIs
<1>7. /\ Fitting(Decoded(SubSeq(t, 1, name)), NameLen) \in Texts
      /\ Fitting(Decoded(SubSeq(t, name + 2, pair)), ValueLen) \in Texts
  BY <1>3, <1>6, FittingIs
<1> QED BY <1>1, <1>5, <1>7

Equals == <<"=">>
And == <<"&">>

LEMMA SignsAre ==
    /\ Equals \in Texts /\ Len(Equals) = 1 /\ Equals[1] = "="
    /\ And \in Texts /\ Len(And) = 1 /\ And[1] = "&"
<1>1. "=" \in Characters /\ "&" \in Characters
  BY DEF Characters, Letters
<1> QED BY <1>1, OneIs DEF Texts, Equals, And

(* ... and what is read of a name and a value, with what follows.          *)
Clean(t) == \A i \in 1..Len(t) : t[i] \notin Specials

Field(a, b) == (a \o Equals) \o b

Places(f, a, b, l, m) ==
    /\ f \in Texts /\ Len(f) = l + 1 + m /\ l \in Nat /\ m \in Nat
    /\ \A i \in 1..l : f[i] = a[i]
    /\ f[l + 1] = "="
    /\ \A i \in 1..m : f[l + 1 + i] = b[i]

LEMMA FieldIs ==
    ASSUME NEW a \in Texts, NEW b \in Texts
    PROVE  Places(Field(a, b), a, b, Len(a), Len(b))
<1> DEFINE l == Len(a)
           m == Len(b)
<1>0. l \in Nat /\ m \in Nat
  BY Lengths
<1> DEFINE e == a \o Equals
           f == e \o b
<1>1. /\ e \in Texts /\ Len(e) = l + 1
      /\ \A i \in 1..l : e[i] = a[i]
      /\ e[l + 1] = "="
  <2>1. /\ e \in Texts /\ Len(e) = Len(a) + Len(Equals)
        /\ \A i \in 1..Len(a) : e[i] = a[i]
        /\ \A i \in 1..Len(Equals) : e[Len(a) + i] = Equals[i]
    BY SignsAre, JoinIs
  <2>2. 1 \in 1..Len(Equals)
    BY SignsAre
  <2>3. e[Len(a) + 1] = "="
    BY <2>1, <2>2, SignsAre
  <2> HIDE DEF e
  <2> QED BY <2>1, <2>3, SignsAre
<1> HIDE DEF e
<1>2. /\ f \in Texts /\ Len(f) = Len(e) + m
      /\ \A i \in 1..Len(e) : f[i] = e[i]
      /\ \A i \in 1..m : f[Len(e) + i] = b[i]
  BY <1>1, JoinIs
<1>3. \A i \in 1..l : i \in 1..Len(e)
  BY <1>0, <1>1
<1>4. l + 1 \in 1..Len(e)
  BY <1>0, <1>1
<1>f. f = Field(a, b)
  BY DEF e, Field
<1> HIDE DEF f
<1>5. /\ \A i \in 1..l : f[i] = a[i]
      /\ f[l + 1] = "="
      /\ \A i \in 1..m : f[l + 1 + i] = b[i]
  BY <1>1, <1>2, <1>3, <1>4
<1>6. f \in Texts /\ Len(f) = l + 1 + m
  BY <1>0, <1>1, <1>2
<1>7. Places(f, a, b, l, m)
  BY <1>0, <1>5, <1>6 DEF Places
<1> QED BY <1>7, <1>f

LEMMA ParamRead ==
    ASSUME NEW a \in Texts, NEW b \in Texts, NEW z \in Texts,
           Clean(a), Clean(b), Len(a) < NameLen, Len(b) < ValueLen,
           z = <<>> \/ z[1] = "&"
    PROVE  NextUrlParam(Field(a, b) \o z) = [name |-> a, value |-> b, tail |-> Rest(z, 1)]
<1> DEFINE f == Field(a, b)
           t == f \o z
           l == Len(a)
           m == Len(b)
           p == l + 1 + m
<1>d. l = Len(a) /\ m = Len(b) /\ f = Field(a, b)
  OBVIOUS
<1> HIDE DEF l, m
<1>1. /\ f \in Texts /\ Len(f) = p /\ l \in Nat /\ m \in Nat
      /\ \A i \in 1..l : f[i] = a[i]
      /\ f[l + 1] = "="
      /\ \A i \in 1..m : f[l + 1 + i] = b[i]
  <2>1. Places(f, a, b, l, m)
    BY <1>d, FieldIs
  <2> HIDE DEF f
  <2> QED BY <2>1 DEF Places
<1>p. p = l + 1 + m /\ t = f \o z
  OBVIOUS
<1> HIDE DEF f
<1>2. /\ t \in Texts /\ Len(t) = Len(f) + Len(z)
      /\ \A i \in 1..Len(f) : t[i] = f[i]
      /\ \A i \in 1..Len(z) : t[Len(f) + i] = z[i]
  BY <1>1, JoinIs
<1> HIDE DEF p, t
<1>3. Len(z) \in Nat /\ (z = <<>> <=> Len(z) = 0) /\ p \in Nat
  BY <1>1, <1>p, Lengths
<1>4. /\ \A i \in 1..l : t[i] = a[i]
      /\ t[l + 1] = "="
      /\ \A i \in 1..m : t[l + 1 + i] = b[i]
  <2>1. /\ \A i \in 1..l : i \in 1..p
        /\ l + 1 \in 1..p
        /\ \A i \in 1..m : l + 1 + i \in 1..p
    BY <1>1, <1>p
  <2> QED BY <1>1, <1>2, <2>1
<1>5. p < Len(t) => t[p + 1] = "&"
  <2> SUFFICES ASSUME p < Len(t) PROVE t[p + 1] = "&"
    OBVIOUS
  <2>1. 1 \in 1..Len(z) /\ z # <<>>
    BY <1>1, <1>2, <1>3
  <2> QED BY <1>1, <1>2, <2>1
<1>6. \A i \in 1..l : t[i] \notin Specials
  BY <1>4, <1>d DEF Clean
<1>7. \A i \in 1..m : t[l + 1 + i] \notin Specials
  BY <1>4, <1>d DEF Clean
<1>8. Before(t, {"=", "&"}) = l /\ l < Len(t)
  <2>1. l \in 0..Len(t) /\ l < Len(t)
    BY <1>1, <1>2, <1>3, <1>p
  <2>2. \A i \in 1..l : t[i] \notin {"=", "&"} /\ t[i] # "%"
    BY <1>6 DEF Specials
  <2>3. t[l + 1] \in {"=", "&"}
    BY <1>4
  <2> QED BY <1>2, <2>1, <2>2, <2>3, BeforeAt
<1>9. l + 1 + Before(Rest(t, l + 1), {"&"}) = p
  <2> DEFINE q == l + 1
             r == Rest(t, q)
  <2>1. q \in Nat /\ q <= Len(t) /\ Len(t) - q = m + Len(z) /\ q = l + 1
    BY <1>1, <1>2, <1>3, <1>p
  <2> HIDE DEF q
  <2>2. r \in Texts /\ Len(r) = m + Len(z) /\ \A i \in 1..(m + Len(z)) : r[i] = t[q + i]
    BY <1>2, <2>1, RestIs
  <2>r. r = Rest(t, q)
    OBVIOUS
  <2> HIDE DEF r
  <2>3. m \in 0..Len(r) /\ \A i \in 1..m : i \in 1..(m + Len(z))
    BY <1>1, <1>3, <2>2
  <2>4. \A i \in 1..m : r[i] \notin {"&"} /\ r[i] # "%"
    <3> TAKE i \in 1..m
    <3>1. r[i] = t[l + 1 + i]
      BY <2>1, <2>2, <2>3
    <3> QED BY <1>7, <3>1 DEF Specials
  <2>5. ASSUME m < Len(r) PROVE r[m + 1] \in {"&"}
    <3>1. p < Len(t) /\ m + 1 \in 1..(m + Len(z)) /\ q + (m + 1) = p + 1
      BY <1>1, <1>2, <1>3, <1>p, <2>1, <2>2, <2>5
    <3> QED BY <1>5, <2>2, <3>1
  <2>6. Before(r, {"&"}) = m
    BY <2>2, <2>3, <2>4, <2>5, BeforeAt
  <2> QED BY <1>p, <2>1, <2>6, <2>r
<1>10. SubSeq(t, 1, l) = a
  <2>1. l \in 0..Len(t)
    BY <1>1, <1>2, <1>3, <1>p
  <2> DEFINE u == SubSeq(t, 1, l)
  <2>2. u \in Texts /\ Len(u) = l /\ \A i \in 1..l : u[i] = t[i]
    BY <1>2, <2>1, BeginIs
  <2> HIDE DEF u
  <2>3. u = a
    BY <1>4, <1>d, <2>2, Same
  <2> QED BY <2>3 DEF u
<1>11. SubSeq(t, l + 2, p) = b
  <2> DEFINE q == l + 2
  <2>1. /\ q \in Int /\ p \in Int /\ \A i \in q..p : t[i] \in Characters
    <3>1. \A i \in q..p : i \in 1..Len(t)
      BY <1>1, <1>2, <1>3
    <3>2. q \in Int /\ p \in Int
      BY <1>1, <1>3
    <3> HIDE DEF q
    <3> QED BY <1>2, <3>1, <3>2, ElementOfSeq DEF Texts
  <2>q. q = l + 2
    OBVIOUS
  <2> HIDE DEF q
  <2>2. /\ SubSeq(t, q, p) \in Texts
        /\ Len(SubSeq(t, q, p)) = IF q <= p THEN p - q + 1 ELSE 0
        /\ \A i \in 1..(p - q + 1) : SubSeq(t, q, p)[i] = t[q + i - 1]
    BY <2>1, SubSeqProperties DEF Texts
  <2> DEFINE u == SubSeq(t, q, p)
  <2>3. u \in Texts /\ Len(u) = IF q <= p THEN p - q + 1 ELSE 0
    BY <2>2
  <2>4. p - q + 1 = m /\ \A i \in 1..m : q + i - 1 = l + 1 + i
    BY <1>1, <1>p, <2>q
  <2>5. \A i \in 1..m : u[i] = b[i]
    BY <1>4, <2>2, <2>4
  <2> HIDE DEF u
  <2>6. Len(u) = m
    BY <1>1, <1>p, <2>q, <2>3
  <2>7. u = b
    BY <1>d, <2>3, <2>5, <2>6, Same
  <2> QED BY <2>7, <2>q DEF u
<1>12. Rest(t, p + 1) = Rest(z, 1)
  <2>1. CASE z = <<>>
    <3>1. t = f /\ Len(f) = p
      BY <1>1, <1>p, <2>1, Joins
    <3>2. Rest(f, p + 1) \in Texts /\ Len(Rest(f, p + 1)) = 0 /\ Rest(z, 1) \in Texts /\ Len(Rest(z, 1)) = 0
      <4>1. p + 1 \in Nat /\ ~(p + 1 <= p) /\ 1 \in Nat /\ Len(z) = 0
        BY <1>3, <2>1
      <4> DEFINE q == p + 1
      <4>2. q \in Nat /\ ~(q <= Len(f))
        BY <1>1, <4>1
      <4> HIDE DEF q
      <4>3. Rest(f, q) \in Texts /\ Len(Rest(f, q)) = 0
        BY <1>1, <4>2, RestIs
      <4>4. Rest(z, 1) \in Texts /\ Len(Rest(z, 1)) = 0
        BY <4>1, RestIs
      <4> QED BY <4>3, <4>4 DEF q
    <3> QED BY <3>1, <3>2, Lengths
  <2>2. CASE z # <<>>
    <3>1. Len(z) # 0
      BY <1>3, <2>2
    <3> DEFINE q == p + 1
    <3>2. q \in 0..(Len(f) + Len(z)) /\ q > Len(f) /\ q - Len(f) = 1
      BY <1>1, <1>3, <3>1
    <3> HIDE DEF q
    <3>3. Rest(t, q) = Rest(f, q) \o Rest(z, q - Len(f))
      <4>1. Rest(f \o z, q) = Rest(f, q) \o (IF q > Len(f) THEN Rest(z, q - Len(f)) ELSE z)
        BY <1>1, <3>2, RestOfJoin
      <4> QED BY <1>p, <3>2, <4>1
    <3>4. Rest(f, q) \in Texts /\ Len(Rest(f, q)) = 0
      <4>1. q \in Nat /\ ~(q <= Len(f))
        BY <1>1, <1>3, <3>2
      <4> QED BY <1>1, <4>1, RestIs
    <3>5. Rest(f, q) = <<>> /\ Rest(z, 1) \in Texts
      <4>1. 1 \in Nat
        OBVIOUS
      <4> QED BY <3>4, <4>1, Lengths, RestIs
    <3>6. Rest(t, q) = Rest(z, 1)
      BY <3>2, <3>3, <3>5, Joins
    <3> QED BY <3>6 DEF q
  <2> QED BY <2>1, <2>2
<1>13. Decoded(a) = a /\ Decoded(b) = b
  <2>1. Plain(a) /\ Plain(b)
    BY DEF Clean, Plain, Specials
  <2> QED BY <2>1, DecodedIs
<1>14. Fitting(a, NameLen) = a /\ Fitting(b, ValueLen) = b
  <2>1. NameLen \in Nat \ {0} /\ ValueLen \in Nat \ {0}
    BY FormAssumption
  <2> QED BY <2>1, FittingIs
<1>15. NextUrlParam(t) = [name |-> a, value |-> b, tail |-> Rest(z, 1)]
  <2> DEFINE name == Before(t, {"=", "&"})
             pair == IF name < Len(t) /\ t[name + 1] = "="
                     THEN name + 1 + Before(Rest(t, name + 1), {"&"}) ELSE name
  <2>1. NextUrlParam(t) = [name |-> Fitting(Decoded(SubSeq(t, 1, name)), NameLen),
                           value |-> Fitting(Decoded(SubSeq(t, name + 2, pair)), ValueLen),
                           tail |-> Rest(t, pair + 1)]
    BY DEF NextUrlParam
  <2>2. name = l
    BY <1>8
  <2>3. pair = p
    BY <1>4, <1>8, <1>9, <2>2, Zenon
  <2> HIDE DEF name, pair
  <2> QED BY <1>10, <1>11, <1>12, <1>13, <1>14, <2>1, <2>2, <2>3, Zenon
<1> QED BY <1>15, <1>d, <1>p

-------------------------------------------------------------------------------
(* The fields of the form *)

Configs == [Bytes -> 0..255]

BaseOf(n) == IF n <= 5 THEN 16 ELSE 10

(* The number that the field n shows, and how many characters it takes.    *)
FieldValue(c, n) ==
    IF n = 22 THEN c[PortLow] + 256 * c[PortHigh]
    ELSE IF n = 23 THEN IF c[UseDhcp] = 1 THEN 1 ELSE 0
    ELSE c[FieldByte(n)]

MostShown(n) == IF n <= 5 THEN 2 ELSE IF n = 22 THEN 5 ELSE IF n = 23 THEN 1 ELSE 3

LEMMA ByteIsByte == \A n \in 0..24 : n # 22 /\ n # 23 => FieldByte(n) \in Bytes
BY DEF FieldByte, Bytes

LEMMA ShowsShort ==
    /\ Shows(<<"0">>, 0, 10) /\ Shows(<<"1">>, 1, 10)
    /\ Len(<<"0">>) = 1 /\ Len(<<"1">>) = 1
<1>1. LastDigit(0, 10) = "0" /\ LastDigit(1, 10) = "1"
  <2>1. (0 % 10) + 1 = 1 /\ (1 % 10) + 1 = 2
    OBVIOUS
  <2> QED BY <2>1, HexIs DEF LastDigit
<1>2. 0 \in Values /\ 1 \in Values /\ 10 \in {10, 16} /\ 0 < 10 /\ 1 < 10
  BY DEF Values
<1>3. /\ Shows(<<>> \o <<LastDigit(0, 10)>>, 0, 10)
      /\ Shows(<<>> \o <<LastDigit(1, 10)>>, 1, 10)
  BY <1>2, ShowsOne
<1>4. <<"0">> \in Texts /\ <<"1">> \in Texts /\ Len(<<"0">>) = 1 /\ Len(<<"1">>) = 1
  <2>1. "0" \in Characters /\ "1" \in Characters
    BY DEF Characters, Letters
  <2> QED BY <2>1, OneIs DEF Texts
<1>5. <<>> \o <<"0">> = <<"0">> /\ <<>> \o <<"1">> = <<"1">>
  BY <1>4, Joins
<1> QED BY <1>1, <1>3, <1>4, <1>5

LEMMA PortIs ==
    \A l, h \in 0..255 :
        l + 256 * h \in Values /\ (l + 256 * h) % 256 = l /\ (l + 256 * h) \div 256 = h
<1> SUFFICES ASSUME NEW l \in 0..255, NEW h \in 0..255
             PROVE  /\ l + 256 * h \in Values /\ (l + 256 * h) % 256 = l
                    /\ (l + 256 * h) \div 256 = h
  OBVIOUS
<1>1. l + 256 * h \in Nat /\ l + 256 * h < 65536
  BY SMT
<1>2. l + 256 * h \in Values
  BY <1>1, SMT DEF Values
<1>3. (l + 256 * h) % 256 = l /\ (l + 256 * h) \div 256 = h
  BY <1>1, SMT
<1> QED BY <1>2, <1>3

LEMMA ShownIs ==
    ASSUME NEW c \in Configs, NEW n \in 0..24
    PROVE  /\ Shows(Shown(c, n), FieldValue(c, n), BaseOf(n)) /\ BaseOf(n) \in {10, 16}
           /\ Len(Shown(c, n)) <= MostShown(n)
<1>0. \A i \in Bytes : c[i] \in 0..255
  BY DEF Configs
<1>1. CASE n <= 5
  <2> DEFINE k == c[FieldByte(n)]
  <2>1. k \in 0..255
    BY <1>0, <1>1, ByteIsByte
  <2>2. Shown(c, n) = Printed(k, 16) /\ FieldValue(c, n) = k /\ BaseOf(n) = 16 /\ MostShown(n) = 2
    BY <1>1 DEF Shown, FieldValue, BaseOf, MostShown
  <2> HIDE DEF k
  <2>3. k \in Values /\ k < 256 /\ 16 \in {10, 16}
    BY <2>1 DEF Values
  <2>4. Shows(Printed(k, 16), k, 16)
    BY <2>3, PrintedIs
  <2>5. Len(Printed(k, 16)) <= 2
    BY <2>3, <2>4 DEF Shows, Size
  <2> QED BY <2>2, <2>3, <2>4, <2>5
<1>2. CASE ~(n <= 5) /\ n # 22 /\ n # 23
  <2> DEFINE k == c[FieldByte(n)]
  <2>1. k \in 0..255
    BY <1>0, <1>2, ByteIsByte
  <2>2. Shown(c, n) = Printed(k, 10) /\ FieldValue(c, n) = k /\ BaseOf(n) = 10 /\ MostShown(n) = 3
    BY <1>2 DEF Shown, FieldValue, BaseOf, MostShown
  <2> HIDE DEF k
  <2>3. k \in Values /\ k < 1000 /\ 10 \in {10, 16}
    BY <2>1 DEF Values
  <2>4. Shows(Printed(k, 10), k, 10)
    BY <2>3, PrintedIs
  <2>5. Len(Printed(k, 10)) <= 3
    BY <2>3, <2>4 DEF Shows, Size
  <2> QED BY <2>2, <2>3, <2>4, <2>5
<1>3. CASE n = 22
  <2> DEFINE k == c[PortLow] + 256 * c[PortHigh]
  <2>1. c[PortLow] \in 0..255 /\ c[PortHigh] \in 0..255
    BY <1>0 DEF PortLow, PortHigh, Bytes
  <2>2. Shown(c, n) = Printed(k, 10) /\ FieldValue(c, n) = k /\ BaseOf(n) = 10 /\ MostShown(n) = 5
    BY <1>3 DEF Shown, FieldValue, BaseOf, MostShown
  <2>3. k \in Values /\ 10 \in {10, 16}
    BY <2>1, PortIs
  <2> HIDE DEF k
  <2>4. Shows(Printed(k, 10), k, 10)
    BY <2>3, PrintedIs
  <2>5. Len(Printed(k, 10)) <= 5
    BY <2>4 DEF Shows, Size
  <2> QED BY <2>2, <2>3, <2>4, <2>5
<1>4. CASE n = 23
  <2>1. /\ Shown(c, n) = IF c[UseDhcp] = 1 THEN <<"1">> ELSE <<"0">>
        /\ FieldValue(c, n) = IF c[UseDhcp] = 1 THEN 1 ELSE 0
        /\ BaseOf(n) = 10 /\ MostShown(n) = 1
    BY <1>4 DEF Shown, FieldValue, BaseOf, MostShown
  <2> QED BY <2>1, ShowsShort
<1> QED BY <1>1, <1>2, <1>3, <1>4

LEMMA ShowsClean ==
    ASSUME NEW b \in {10, 16}, NEW k, NEW t, Shows(t, k, b)
    PROVE  t \in Texts /\ Clean(t) /\ Len(t) \in 1..5 /\ Number(t, b) = k
<1>1. t \in Texts /\ \A i \in 1..Len(t) : t[i] \in DigitsOf(b)
  BY DEF Shows
<1>2. Clean(t)
  BY <1>1, ValueIs DEF Clean
<1>3. Number(t, b) = Unsigned(t, b)
  BY <1>1, NumberPlain
<1> QED BY <1>1, <1>2, <1>3 DEF Shows, Size

Name(n) == Printed(n, 10)
Entry(c, n) == Field(Name(n), Shown(c, n))
MostEntry(n) == (IF n < 10 THEN 2 ELSE 3) + MostShown(n)

LEMMA NameOf ==
    ASSUME NEW n \in 0..24
    PROVE  /\ Name(n) \in Texts /\ Clean(Name(n)) /\ Number(Name(n), 10) = n
           /\ Len(Name(n)) \in 1..2 /\ (n < 10 => Len(Name(n)) = 1)
<1>1. n \in Values /\ 10 \in {10, 16} /\ n < 100
  BY DEF Values
<1>2. Shows(Name(n), n, 10)
  BY <1>1, PrintedIs DEF Name
<1>3. Name(n) \in Texts /\ Clean(Name(n)) /\ Number(Name(n), 10) = n
  BY <1>1, <1>2, ShowsClean
<1>4. Len(Name(n)) \in 1..2 /\ (n < 10 => Len(Name(n)) = 1)
  <2>1. Size(10, n, Len(Name(n)))
    BY <1>2 DEF Shows
  <2> QED BY <1>1, <2>1 DEF Size
<1> QED BY <1>3, <1>4

(* A text without the sign between two fields. *)
NoAnd(t) == t \in Texts /\ Len(t) \in Nat \ {0} /\ \A i \in 1..Len(t) : t[i] # "&"

LEMMA EntryIs ==
    ASSUME NEW c \in Configs, NEW n \in 0..24
    PROVE  NoAnd(Entry(c, n)) /\ Len(Entry(c, n)) <= MostEntry(n)
<1> DEFINE a == Name(n)
           b == Shown(c, n)
           f == Entry(c, n)
           l == Len(a)
           m == Len(b)
<1>1. /\ a \in Texts /\ Clean(a) /\ l \in 1..2 /\ (n < 10 => l = 1)
      /\ b \in Texts /\ Clean(b) /\ m \in 1..5 /\ m <= MostShown(n)
  BY NameOf, ShownIs, ShowsClean
<1>2. Places(f, a, b, l, m)
  BY <1>1, FieldIs DEF Entry
<1>3. l = Len(a) /\ m = Len(b)
  OBVIOUS
<1> HIDE DEF a, b, f, l, m
<1>4. /\ f \in Texts /\ Len(f) = l + 1 + m
      /\ \A i \in 1..l : f[i] = a[i]
      /\ f[l + 1] = "="
      /\ \A i \in 1..m : f[l + 1 + i] = b[i]
  BY <1>2 DEF Places
<1>5. ASSUME NEW i \in 1..Len(f) PROVE f[i] # "&"
  <2>1. CASE i \in 1..l
    BY <1>1, <1>3, <1>4, <2>1 DEF Clean, Specials
  <2>2. CASE i = l + 1
    BY <1>4, <2>2
  <2>3. CASE i \notin 1..l /\ i # l + 1
    <3> DEFINE j == i - (l + 1)
    <3>1. j \in 1..m /\ l + 1 + j = i
      BY <1>1, <1>4, <2>3
    <3> HIDE DEF j
    <3>2. f[i] = b[j] /\ b[j] \notin Specials
      BY <1>1, <1>3, <1>4, <3>1 DEF Clean
    <3> QED BY <3>2 DEF Specials
  <2> QED BY <2>1, <2>2, <2>3
<1>6. Len(f) \in Nat \ {0} /\ Len(f) <= MostEntry(n)
  BY <1>1, <1>4 DEF MostEntry, MostShown
<1>7. NoAnd(f)
  BY <1>4, <1>5, <1>6 DEF NoAnd
<1> QED BY <1>6, <1>7 DEF f

-------------------------------------------------------------------------------
(* The form, seen from its beginning and from its end *)

LEMMA Regroup ==
    ASSUME NEW x \in Texts, NEW p \in Texts, NEW s \in Texts
    PROVE  ((x \o p) \o Equals) \o s = x \o Field(p, s)
<1>1. Equals \in Texts
  BY SignsAre
<1>4. x \o p \in Texts /\ p \o Equals \in Texts
  BY <1>1, JoinIs, Zenon
<1>2. (x \o p) \o Equals = x \o (p \o Equals)
  BY <1>1, Joins
<1>3. (x \o (p \o Equals)) \o s = x \o ((p \o Equals) \o s)
  BY <1>4, Joins
<1> QED BY <1>2, <1>3 DEF Field

(* What the loop has printed after the field n. *)
Builds(g, c) ==
    /\ g \in [0..24 -> Texts] /\ g[0] = Entry(c, 0)
    /\ \A n \in 1..24 : g[n] = (g[n - 1] \o And) \o Entry(c, n)

(* What follows from the field 24 - k on. *)
Trails(r, c) ==
    /\ r \in [0..24 -> Texts] /\ r[0] = Entry(c, 24)
    /\ \A k \in 1..24 : r[k] = Entry(c, 24 - k) \o (And \o r[k - 1])

LEMMA EntryText == \A c \in Configs : \A n \in 0..24 : Entry(c, n) \in Texts
BY EntryIs DEF NoAnd

LEMMA FormBuilds ==
    ASSUME NEW c \in Configs
    PROVE  \E g : Builds(g, c) /\ Form(c) = g[24]
<1> DEFINE P(n) == Printed(n, 10)
           S(n) == Shown(c, n)
           At(g, n) == (((IF n = 0 THEN <<>> ELSE g[n - 1] \o And) \o P(n)) \o Equals) \o S(n)
           Solves(g) == g = [n \in 0..24 |-> At(g, n)]
           F == [n \in 1..24 |-> [t \in Texts |-> (((t \o And) \o P(n)) \o Equals) \o S(n)]]
           d == ((<<>> \o P(0)) \o Equals) \o S(0)
           f == CHOOSE g : Solves(g)
<1>1. Form(c) = f[24]
  BY DEF Form, And, Equals
<1>2. \A n \in 0..24 : P(n) \in Texts /\ S(n) \in Texts /\ Entry(c, n) = Field(P(n), S(n))
  BY NameOf, ShownIs, ShowsClean DEF Entry, Name
<1> HIDE DEF P, S
<1>3. And \in Texts /\ <<>> \in Texts /\ \A t \in Texts : t \o And \in Texts
  BY SignsAre, Joins, JoinIs
<1>4. ASSUME NEW n \in 0..24, NEW t \in Texts
      PROVE  /\ ((t \o P(n)) \o Equals) \o S(n) = t \o Entry(c, n)
             /\ t \o Entry(c, n) \in Texts
  <2> DEFINE p == P(n)
             s == S(n)
             e == Entry(c, n)
  <2>1. p \in Texts /\ s \in Texts /\ e = Field(p, s) /\ e \in Texts
    BY <1>2, EntryText
  <2> HIDE DEF p, s, e
  <2>2. ((t \o p) \o Equals) \o s = t \o Field(p, s)
    BY <2>1, Regroup
  <2>3. t \o e \in Texts
    BY <2>1, JoinIs
  <2>4. ((t \o p) \o Equals) \o s = t \o e
    BY <2>1, <2>2
  <2> QED BY <2>3, <2>4 DEF p, s, e
<1>5. d = Entry(c, 0) /\ d \in Texts
  <2>0. 0 \in 0..24
    OBVIOUS
  <2>1. d = <<>> \o Entry(c, 0)
    BY <1>3, <1>4, <2>0, Zenon
  <2> HIDE DEF d
  <2>2. Entry(c, 0) \in Texts
    BY EntryText
  <2> QED BY <2>1, <2>2, Joins
<1> HIDE DEF d
<1>6. \A n \in 1..24 : \A t \in Texts :
          /\ (((t \o And) \o P(n)) \o Equals) \o S(n) = (t \o And) \o Entry(c, n)
          /\ (t \o And) \o Entry(c, n) \in Texts
  <2> TAKE n \in 1..24
  <2> TAKE t \in Texts
  <2>1. n \in 0..24 /\ t \o And \in Texts
    BY <1>3
  <2> QED BY <1>4, <2>1, Zenon
<1>7. StepsIn(F, 24, Texts)
  <2>1. \A n \in 1..24 : \A t \in Texts : (((t \o And) \o P(n)) \o Equals) \o S(n) \in Texts
    BY <1>6
  <2> QED BY <2>1 DEF StepsIn
<1>8. PICK g : Follows(g, F, 24, Texts, d)
  <2> HIDE DEF F
  <2>1. 24 \in Nat
    OBVIOUS
  <2> QED BY <1>5, <1>7, <2>1, Recursion
<1>9. g \in [0..24 -> Texts] /\ g[0] = d
      /\ \A n \in 1..24 : g[n] = (((g[n - 1] \o And) \o P(n)) \o Equals) \o S(n)
  <2>1. g \in [0..24 -> Texts] /\ g[0] = d /\ \A n \in 1..24 : g[n] = F[n][g[n - 1]]
    BY <1>8 DEF Follows
  <2>2. ASSUME NEW n \in 1..24
        PROVE  F[n][g[n - 1]] = (((g[n - 1] \o And) \o P(n)) \o Equals) \o S(n)
    <3>1. g[n - 1] \in Texts
      <4>1. n - 1 \in 0..24
        OBVIOUS
      <4> HIDE DEF F
      <4> QED BY <2>1, <4>1
    <3> QED BY <3>1, Zenon
  <2> HIDE DEF F
  <2> QED BY <2>1, <2>2
<1>10. Solves(g)
  <2>1. \A n \in 0..24 : g[n] = At(g, n)
    <3> TAKE n \in 0..24
    <3>1. CASE n = 0
      BY <1>9, <3>1 DEF d
    <3>2. CASE n # 0
      <4>1. n \in 1..24
        BY <3>2
      <4> QED BY <1>9, <3>2, <4>1
    <3> QED BY <3>1, <3>2
  <2>2. g = [n \in 0..24 |-> g[n]]
    BY <1>9
  <2> HIDE DEF At
  <2> QED BY <2>1, <2>2
<1>11. Solves(f)
  <2> HIDE DEF Solves
  <2> QED BY <1>10
<1> HIDE DEF f
<1>12. \A n \in 0..24 : f[n] = At(f, n)
  <2> TAKE n \in 0..24
  <2>1. f = [l \in 0..24 |-> At(f, l)]
    BY <1>11
  <2> HIDE DEF At
  <2> QED BY <2>1, Zenon
<1>13. f[0] = d /\ \A n \in 1..24 : f[n] = (((f[n - 1] \o And) \o P(n)) \o Equals) \o S(n)
  <2>1. f[0] = d
    <3>1. 0 \in 0..24
      OBVIOUS
    <3>2. f[0] = At(f, 0)
      BY <1>12, <3>1
    <3> QED BY <3>2, Zenon DEF d
  <2>2. ASSUME NEW n \in 1..24
        PROVE  f[n] = (((f[n - 1] \o And) \o P(n)) \o Equals) \o S(n)
    <3>1. n \in 0..24 /\ n # 0
      OBVIOUS
    <3>2. f[n] = At(f, n)
      BY <1>12, <3>1
    <3> QED BY <3>1, <3>2, Zenon
  <2> QED BY <2>1, <2>2
<1> HIDE DEF At
<1> DEFINE Right == {n \in 0..24 : f[n] \in Texts}
<1>14. 0 \in Right
  BY <1>5, <1>13
<1>15. ASSUME NEW n \in 0..(24 - 1), n \in Right PROVE n + 1 \in Right
  <2>1. n + 1 \in 1..24 /\ n + 1 \in 0..24 /\ (n + 1) - 1 = n /\ f[n] \in Texts
    BY <1>15
  <2>2. f[n + 1] = (((f[n] \o And) \o P(n + 1)) \o Equals) \o S(n + 1)
    BY <1>13, <2>1
  <2>3. f[n + 1] \in Texts
    BY <1>6, <2>1, <2>2
  <2> QED BY <2>1, <2>3
<1>16. \A n \in 0..24 : f[n] \in Texts
  <2> HIDE DEF Right
  <2>1. 0..24 \subseteq Right
    <3>1. 24 \in Nat
      OBVIOUS
    <3> QED BY <1>14, <1>15, <3>1, SetInduction
  <2> QED BY <2>1 DEF Right
<1>17. ASSUME NEW n \in 1..24 PROVE f[n] = (f[n - 1] \o And) \o Entry(c, n)
  <2>1. n - 1 \in 0..24
    OBVIOUS
  <2> QED BY <1>6, <1>13, <1>16, <2>1
<1>18. f \in [0..24 -> Texts]
  <2>1. f = [n \in 0..24 |-> At(f, n)]
    BY <1>11
  <2> QED BY <1>16, <2>1
<1>19. Builds(f, c)
  BY <1>5, <1>13, <1>17, <1>18 DEF Builds
<1> QED BY <1>1, <1>19

LEMMA TrailsExist ==
    ASSUME NEW c \in Configs
    PROVE  \E r : Trails(r, c)
<1> DEFINE F == [k \in 1..24 |-> [t \in Texts |-> Entry(c, 24 - k) \o (And \o t)]]
           d == Entry(c, 24)
<1>1. \A k \in 1..24 : \A t \in Texts : Entry(c, 24 - k) \o (And \o t) \in Texts
  <2> TAKE k \in 1..24
  <2> TAKE t \in Texts
  <2>1. 24 - k \in 0..24
    OBVIOUS
  <2>2. Entry(c, 24 - k) \in Texts /\ And \o t \in Texts
    BY <2>1, EntryText, SignsAre, JoinIs
  <2> QED BY <2>2, JoinIs
<1>2. StepsIn(F, 24, Texts)
  BY <1>1 DEF StepsIn
<1>3. d \in Texts /\ 24 \in Nat
  BY EntryText
<1>4. PICK g : Follows(g, F, 24, Texts, d)
  <2> HIDE DEF F, d
  <2> QED BY <1>2, <1>3, Recursion
<1>5. g \in [0..24 -> Texts] /\ g[0] = d /\ \A k \in 1..24 : g[k] = F[k][g[k - 1]]
  BY <1>4 DEF Follows
<1>6. ASSUME NEW k \in 1..24 PROVE F[k][g[k - 1]] = Entry(c, 24 - k) \o (And \o g[k - 1])
  <2>1. g[k - 1] \in Texts
    <3>1. k - 1 \in 0..24
      OBVIOUS
    <3> HIDE DEF F
    <3> QED BY <1>5, <3>1
  <2> QED BY <2>1, Zenon
<1> HIDE DEF F
<1>7. Trails(g, c)
  BY <1>5, <1>6 DEF Trails
<1> QED BY <1>7

(* Both are the same text. *)
LEMMA FormTrails ==
    ASSUME NEW c \in Configs, NEW g, Builds(g, c), NEW r, Trails(r, c)
    PROVE  g[24] = r[24]
<1>1. /\ g \in [0..24 -> Texts] /\ g[0] = Entry(c, 0)
      /\ \A n \in 1..24 : g[n] = (g[n - 1] \o And) \o Entry(c, n)
  BY DEF Builds
<1>2. /\ r \in [0..24 -> Texts] /\ r[0] = Entry(c, 24)
      /\ \A k \in 1..24 : r[k] = Entry(c, 24 - k) \o (And \o r[k - 1])
  BY DEF Trails
<1> DEFINE Joined == {n \in 0..23 : g[n] \o (And \o r[23 - n]) = r[24]}
<1>3. 0 \in Joined
  <2>1. r[24] = Entry(c, 0) \o (And \o r[23])
    <3>1. 24 \in 1..24 /\ 24 - 24 = 0 /\ 24 - 1 = 23
      OBVIOUS
    <3> QED BY <1>2, <3>1
  <2>2. 0 \in 0..23 /\ 23 - 0 = 23
    OBVIOUS
  <2> QED BY <1>1, <2>1, <2>2
<1>4. ASSUME NEW n \in 0..(24 - 1)
      PROVE  /\ (g[n] \o And) \o Entry(c, n + 1) = g[n + 1]
             /\ g[n] \in Texts /\ Entry(c, n + 1) \in Texts /\ g[n] \o And \in Texts
  <2>1. n \in 0..24 /\ n + 1 \in 1..24 /\ n + 1 \in 0..24 /\ (n + 1) - 1 = n
    OBVIOUS
  <2> QED BY <1>1, <2>1, EntryText, SignsAre, JoinIs
<1>5. ASSUME NEW n \in 0..(23 - 1), n \in Joined PROVE n + 1 \in Joined
  <2>1. /\ n + 1 \in 0..23 /\ 23 - n \in 1..24 /\ 24 - (23 - n) = n + 1
        /\ (23 - n) - 1 = 23 - (n + 1) /\ 23 - (n + 1) \in 0..24 /\ n \in 0..(24 - 1)
    OBVIOUS
  <2> DEFINE e == Entry(c, n + 1)
             t == r[23 - (n + 1)]
  <2>2. r[23 - n] = e \o (And \o t) /\ t \in Texts
    BY <1>2, <2>1
  <2>3. e \in Texts /\ g[n + 1] = (g[n] \o And) \o e /\ g[n] \in Texts /\ g[n] \o And \in Texts
    BY <1>4, <2>1
  <2>w. g[n] \o (And \o r[23 - n]) = r[24]
    BY <1>5
  <2>e. t = r[23 - (n + 1)]
    OBVIOUS
  <2> HIDE DEF e, t
  <2>4. And \in Texts /\ And \o t \in Texts /\ e \o (And \o t) \in Texts
    BY <2>2, <2>3, SignsAre, JoinIs
  <2>5. g[n + 1] \o (And \o t) = (g[n] \o And) \o (e \o (And \o t))
    <3> DEFINE x == g[n] \o And
               y == And \o t
    <3>1. x \in Texts /\ y \in Texts /\ g[n + 1] = x \o e
      BY <2>3, <2>4
    <3> HIDE DEF x, y
    <3>2. (x \o e) \o y = x \o (e \o y)
      BY <2>3, <3>1, Joins
    <3>3. g[n + 1] \o y = x \o (e \o y)
      BY <3>1, <3>2
    <3> QED BY <3>3 DEF x, y
  <2>6. (g[n] \o And) \o (e \o (And \o t)) = g[n] \o (And \o (e \o (And \o t)))
    <3> DEFINE x == g[n]
               y == e \o (And \o t)
    <3>1. x \in Texts /\ And \in Texts /\ y \in Texts
      BY <2>3, <2>4, JoinIs
    <3> HIDE DEF x, y
    <3>2. (x \o And) \o y = x \o (And \o y)
      BY <3>1, Joins
    <3> QED BY <3>2 DEF x, y
  <2>7. g[n + 1] \o (And \o t) = r[24]
    BY <2>2, <2>5, <2>6, <2>w
  <2> QED BY <2>1, <2>7, <2>e
<1>6. 23 \in Joined
  <2> HIDE DEF Joined
  <2>1. 23 \in Nat
    OBVIOUS
  <2>2. 0..23 \subseteq Joined
    BY <1>3, <1>5, <2>1, SetInduction
  <2>3. 23 \in 0..23
    OBVIOUS
  <2> QED BY <2>2, <2>3
<1>7. g[23] \o (And \o Entry(c, 24)) = r[24]
  <2>1. 23 - 23 = 0
    OBVIOUS
  <2> QED BY <1>2, <1>6, <2>1
<1>8. g[24] = (g[23] \o And) \o Entry(c, 24) /\ g[23] \in Texts /\ Entry(c, 24) \in Texts
  <2>1. 23 \in 0..(24 - 1) /\ 23 + 1 = 24
    OBVIOUS
  <2> QED BY <1>4, <2>1
<1> QED BY <1>7, <1>8, Joins, SignsAre

(* The longest the form can become. *)
Most(n) ==
    IF n <= 5 THEN 4 + 5 * n ELSE IF n <= 9 THEN 29 + 6 * (n - 5)
    ELSE IF n <= 21 THEN 53 + 7 * (n - 9)
    ELSE IF n = 22 THEN 146 ELSE IF n = 23 THEN 151 ELSE 158

LEMMA FormLength ==
    ASSUME NEW c \in Configs, NEW g, Builds(g, c)
    PROVE  Len(g[24]) <= 158
<1>1. /\ g \in [0..24 -> Texts] /\ g[0] = Entry(c, 0)
      /\ \A n \in 1..24 : g[n] = (g[n - 1] \o And) \o Entry(c, n)
  BY DEF Builds
<1> DEFINE Short == {n \in 0..24 : Len(g[n]) <= Most(n)}
<1>2. 0 \in Short
  <2>1. 0 \in 0..24 /\ MostEntry(0) = 4 /\ Most(0) = 4
    BY DEF MostEntry, MostShown, Most
  <2>2. Len(Entry(c, 0)) <= MostEntry(0)
    BY <2>1, EntryIs
  <2>3. Len(g[0]) <= Most(0)
    BY <1>1, <2>1, <2>2
  <2> QED BY <2>1, <2>3
<1>3. ASSUME NEW n \in 0..(24 - 1), n \in Short PROVE n + 1 \in Short
  <2>1. n + 1 \in 1..24 /\ n + 1 \in 0..24 /\ (n + 1) - 1 = n /\ n \in 0..24
    OBVIOUS
  <2> DEFINE e == Entry(c, n + 1)
             a == g[n]
             x == a \o And
             l == Len(a)
             m == Len(e)
  <2>2. a \in Texts /\ e \in Texts /\ g[n + 1] = x \o e /\ m <= MostEntry(n + 1) /\ l <= Most(n)
    BY <1>1, <1>3, <2>1, EntryText, EntryIs
  <2>l. l = Len(a) /\ m = Len(e) /\ x = a \o And
    OBVIOUS
  <2> HIDE DEF e, a, x, l, m
  <2>3. x \in Texts /\ Len(x) = Len(a) + Len(And) /\ l \in Nat /\ m \in Nat /\ Len(And) = 1
    BY <2>2, <2>l, SignsAre, JoinIs, Lengths
  <2>4. Len(x \o e) = Len(x) + Len(e)
    BY <2>2, <2>3, JoinIs
  <2>5. Len(g[n + 1]) = l + 1 + m
    BY <2>2, <2>3, <2>4, <2>l
  <2>6. Most(n) + 1 + MostEntry(n + 1) = Most(n + 1) /\ Most(n) \in Nat /\ MostEntry(n + 1) \in Nat
    BY <2>1 DEF Most, MostEntry, MostShown
  <2>7. Len(g[n + 1]) <= Most(n + 1)
    BY <2>2, <2>3, <2>5, <2>6
  <2> QED BY <2>1, <2>7
<1>4. 24 \in Short
  <2> HIDE DEF Short
  <2>1. 24 \in Nat
    OBVIOUS
  <2>2. 0..24 \subseteq Short
    BY <1>2, <1>3, <2>1, SetInduction
  <2>3. 24 \in 0..24
    OBVIOUS
  <2> QED BY <2>2, <2>3
<1>5. Most(24) = 158
  BY DEF Most
<1> QED BY <1>4, <1>5

(* How many fields there are: where one of them begins. *)
Ands(t) == {k \in 0..(Len(t) - 1) : k = 0 \/ t[k] = "&"}

LEMMA AndsOfOne ==
    ASSUME NEW f, NoAnd(f)
    PROVE  IsFiniteSet(Ands(f)) /\ Cardinality(Ands(f)) = 1
<1>1. Ands(f) = {0}
  BY DEF Ands, NoAnd
<1> QED BY <1>1, FS_Singleton

LEMMA AndsOfMore ==
    ASSUME NEW f, NoAnd(f), NEW t \in Texts, t # <<>>, IsFiniteSet(Ands(t))
    PROVE  /\ IsFiniteSet(Ands(f \o (And \o t)))
           /\ Cardinality(Ands(f \o (And \o t))) = Cardinality(Ands(t)) + 1
<1> DEFINE a == And \o t
           w == f \o a
           l == Len(f)
           m == Len(t)
<1>1. /\ f \in Texts /\ l \in Nat \ {0} /\ m \in Nat \ {0}
      /\ \A i \in 1..l : f[i] # "&"
  BY Lengths DEF NoAnd
<1>2. /\ a \in Texts /\ Len(a) = 1 + m /\ a[1] = "&" /\ \A i \in 1..m : a[1 + i] = t[i]
  <2>1. /\ a \in Texts /\ Len(a) = Len(And) + Len(t)
        /\ \A i \in 1..Len(And) : a[i] = And[i]
        /\ \A i \in 1..Len(t) : a[Len(And) + i] = t[i]
    BY SignsAre, JoinIs
  <2>2. 1 \in 1..Len(And) /\ Len(And) = 1 /\ And[1] = "&"
    BY SignsAre
  <2> HIDE DEF a
  <2> QED BY <2>1, <2>2
<1> HIDE DEF a
<1>d. l = Len(f) /\ m = Len(t)
  OBVIOUS
<1> HIDE DEF l, m
<1>3. /\ w \in Texts /\ Len(w) = l + (1 + m)
      /\ \A i \in 1..l : w[i] = f[i]
      /\ \A i \in 1..(1 + m) : w[l + i] = a[i]
  <2>1. /\ w \in Texts /\ Len(w) = Len(f) + Len(a)
        /\ \A i \in 1..Len(f) : w[i] = f[i]
        /\ \A i \in 1..Len(a) : w[Len(f) + i] = a[i]
    BY <1>1, <1>2, JoinIs
  <2> HIDE DEF w
  <2> QED BY <1>2, <1>d, <2>1
<1> HIDE DEF w
<1>4. w[l + 1] = "&" /\ \A i \in 1..m : w[l + (1 + i)] = t[i]
  <2>1. 1 \in 1..(1 + m) /\ \A i \in 1..m : 1 + i \in 1..(1 + m)
    BY <1>1
  <2> QED BY <1>2, <1>3, <2>1
<1> DEFINE Behind == {k + (l + 1) : k \in Ands(t)}
<1>5. \A k \in Ands(t) : k \in 0..(m - 1)
  BY <1>d DEF Ands
<1>6. Ands(w) = Behind \cup {0}
  <2>1. ASSUME NEW k \in Ands(w), k # 0 PROVE k \in Behind
    <3>1. k \in 1..(l + m) /\ w[k] = "&"
      BY <1>1, <1>3, <2>1 DEF Ands
    <3>2. ~(k \in 1..l)
      BY <1>1, <1>3, <3>1
    <3> DEFINE j == k - (l + 1)
    <3>3. j \in 0..(m - 1) /\ j + (l + 1) = k
      BY <1>1, <3>1, <3>2
    <3> HIDE DEF j
    <3>4. j \in Ands(t)
      <4>1. CASE j = 0
        BY <1>d, <3>3, <4>1 DEF Ands
      <4>2. CASE j # 0
        <5>1. j \in 1..m /\ l + (1 + j) = k
          BY <1>1, <3>3, <4>2
        <5>2. t[j] = "&"
          BY <1>4, <3>1, <5>1
        <5> QED BY <1>d, <3>3, <5>2 DEF Ands
      <4> QED BY <4>1, <4>2
    <3> QED BY <3>3, <3>4
  <2>2. ASSUME NEW k \in Ands(t) PROVE k + (l + 1) \in Ands(w)
    <3>1. k \in 0..(m - 1) /\ (k = 0 \/ t[k] = "&")
      BY <1>d DEF Ands
    <3>2. k + (l + 1) \in 0..(Len(w) - 1)
      BY <1>1, <1>3, <3>1
    <3>3. w[k + (l + 1)] = "&"
      <4>1. CASE k = 0
        <5>1. k + (l + 1) = l + 1
          BY <1>1, <4>1
        <5> QED BY <1>4, <5>1
      <4>2. CASE k # 0
        <5>1. k \in 1..m /\ k + (l + 1) = l + (1 + k)
          BY <1>1, <3>1, <4>2
        <5> QED BY <1>4, <3>1, <4>2, <5>1
      <4> QED BY <4>1, <4>2
    <3> QED BY <3>2, <3>3 DEF Ands
  <2>3. 0 \in Ands(w)
    BY <1>1, <1>3 DEF Ands
  <2> QED BY <2>1, <2>2, <2>3
<1>7. IsFiniteSet(Behind) /\ Cardinality(Behind) = Cardinality(Ands(t)) /\ 0 \notin Behind
  <2> DEFINE h == [k \in Ands(t) |-> k + (l + 1)]
  <2>1. h \in Bijection(Ands(t), Behind)
    <3>1. \A j, k \in Ands(t) : h[j] = h[k] => j = k
      BY <1>1, <1>5
    <3>2. \A k \in Ands(t) : h[k] \in Behind
      OBVIOUS
    <3>3. \A x \in Behind : \E k \in Ands(t) : h[k] = x
      OBVIOUS
    <3>4. h \in [Ands(t) -> Behind]
      BY <3>2
    <3> HIDE DEF h, Behind
    <3> QED BY <3>1, <3>3, <3>4 DEF Bijection, Injection, Surjection, IsInjective
  <2>2. 0 \notin Behind
    BY <1>1, <1>5
  <2> HIDE DEF h, Behind
  <2>3. ExistsBijection(Ands(t), Behind)
    BY <2>1 DEF ExistsBijection
  <2>4. IsFiniteSet(Behind)
    BY <2>3, FS_Bijection
  <2>5. Cardinality(Behind) = Cardinality(Ands(t))
    BY <2>3, FS_Bijection
  <2> QED BY <2>2, <2>4, <2>5
<1>8. IsFiniteSet(Ands(w)) /\ Cardinality(Ands(w)) = Cardinality(Behind) + 1
  <2> HIDE DEF Behind
  <2> QED BY <1>6, <1>7, FS_AddElement
<1> QED BY <1>7, <1>8 DEF w, a

-------------------------------------------------------------------------------
(* The form, sent as it is shown *)

LEMMA RestOfAnd ==
    ASSUME NEW t \in Texts
    PROVE  /\ Rest(And \o t, 1) = t /\ And \o t \in Texts /\ (And \o t)[1] = "&"
           /\ Rest(<<>>, 1) = <<>>
<1>1. And \in Texts /\ Len(And) = 1 /\ And[1] = "&" /\ <<>> \in Texts /\ Len(<<>>) = 0
  BY SignsAre, Joins, Lengths
<1>2. Len(t) \in Nat
  BY Lengths
<1>3. Rest(And \o t, 1) = Rest(And, 1) \o t
  <2>1. 1 \in 0..(Len(And) + Len(t)) /\ ~(1 > Len(And))
    BY <1>1, <1>2
  <2>2. Rest(And \o t, 1) = Rest(And, 1) \o (IF 1 > Len(And) THEN Rest(t, 1 - Len(And)) ELSE t)
    BY <1>1, <2>1, RestOfJoin
  <2> QED BY <2>1, <2>2
<1>4. Rest(And, 1) = <<>>
  BY <1>1, RestOfNothing
<1>5. /\ And \o t \in Texts /\ \A i \in 1..Len(And) : (And \o t)[i] = And[i]
  BY <1>1, JoinIs
<1>6. (And \o t)[1] = "&"
  <2>1. 1 \in 1..Len(And)
    BY <1>1
  <2> QED BY <1>1, <1>5, <2>1, Zenon
<1>7. Rest(<<>>, 1) = <<>>
  <2> DEFINE e == <<>>
  <2>1. e \in Texts /\ Len(e) = 0
    BY <1>1
  <2>e. e = <<>>
    OBVIOUS
  <2> HIDE DEF e
  <2>2. 1 \in Nat /\ ~(1 <= Len(e))
    BY <2>1
  <2>3. Rest(e, 1) \in Texts /\ Len(Rest(e, 1)) = 0
    BY <2>1, <2>2, RestIs
  <2>4. Rest(e, 1) = <<>>
    BY <2>3, Lengths
  <2> QED BY <2>4, <2>e
<1>8. Rest(And \o t, 1) = t
  BY <1>3, <1>4, Joins
<1> QED BY <1>5, <1>6, <1>7, <1>8

(* The k-th parameter is that of the field k - 1, and behind it are the    *)
(* others.                                                                 *)
LEMMA EntryRead ==
    ASSUME NEW c \in Configs, NEW n \in 0..24, NEW z \in Texts, z = <<>> \/ z[1] = "&"
    PROVE  NextUrlParam(Entry(c, n) \o z) =
               [name |-> Name(n), value |-> Shown(c, n), tail |-> Rest(z, 1)]
<1> DEFINE a == Name(n)
           b == Shown(c, n)
<1>1. a \in Texts /\ Clean(a) /\ Len(a) \in 1..2
  BY NameOf
<1>2. b \in Texts /\ Clean(b) /\ Len(b) \in 1..5
  BY ShownIs, ShowsClean
<1> HIDE DEF a, b
<1>3. Len(a) < NameLen /\ Len(b) < ValueLen
  <2>1. NameLen \in Nat /\ NameLen > 2 /\ ValueLen \in Nat /\ ValueLen > 5
    BY FormAssumption
  <2>2. \A k \in 1..2 : k < NameLen
    BY <2>1
  <2>3. \A k \in 1..5 : k < ValueLen
    BY <2>1
  <2> QED BY <1>1, <1>2, <2>2, <2>3, Zenon
<1>4. NextUrlParam(Field(a, b) \o z) = [name |-> a, value |-> b, tail |-> Rest(z, 1)]
  BY <1>1, <1>2, <1>3, ParamRead
<1> QED BY <1>4 DEF a, b, Entry

LEMMA TrailRead ==
    ASSUME NEW c \in Configs, NEW r, Trails(r, c), NEW k \in 0..24
    PROVE  /\ NextUrlParam(r[k]).name = Name(24 - k)
           /\ NextUrlParam(r[k]).value = Shown(c, 24 - k)
           /\ k # 0 => NextUrlParam(r[k]).tail = r[k - 1]
<1>1. /\ r \in [0..24 -> Texts] /\ r[0] = Entry(c, 24)
      /\ \A j \in 1..24 : r[j] = Entry(c, 24 - j) \o (And \o r[j - 1])
  BY DEF Trails
<1>2. CASE k = 0
  <2>1. 24 \in 0..24 /\ <<>> \in Texts /\ 24 - k = 24
    BY <1>2, Joins
  <2>2. NextUrlParam(Entry(c, 24) \o <<>>) =
            [name |-> Name(24), value |-> Shown(c, 24), tail |-> Rest(<<>>, 1)]
    BY <2>1, EntryRead
  <2>3. Entry(c, 24) \o <<>> = r[k]
    BY <1>1, <1>2, <2>1, EntryText, Joins
  <2> QED BY <1>2, <2>1, <2>2, <2>3
<1>3. CASE k # 0
  <2> DEFINE t == r[k - 1]
             z == And \o t
             n == 24 - k
  <2>1. t \in Texts /\ n \in 0..24 /\ r[k] = Entry(c, n) \o z
    <3>1. k \in 1..24 /\ k - 1 \in 0..24 /\ n \in 0..24
      BY <1>3
    <3> HIDE DEF n
    <3> QED BY <1>1, <3>1 DEF n
  <2> HIDE DEF t, n
  <2>2. z \in Texts /\ z[1] = "&" /\ Rest(z, 1) = t
    BY <2>1, RestOfAnd
  <2> HIDE DEF z
  <2>3. NextUrlParam(Entry(c, n) \o z) =
            [name |-> Name(n), value |-> Shown(c, n), tail |-> Rest(z, 1)]
    BY <2>1, <2>2, EntryRead
  <2> QED BY <2>1, <2>2, <2>3 DEF n, t
<1> QED BY <1>2, <1>3

LEMMA TrailAnds ==
    ASSUME NEW c \in Configs, NEW r, Trails(r, c)
    PROVE  Cardinality(Ands(r[24])) = 25
<1>1. /\ r \in [0..24 -> Texts] /\ r[0] = Entry(c, 24)
      /\ \A k \in 1..24 : r[k] = Entry(c, 24 - k) \o (And \o r[k - 1])
  BY DEF Trails
<1> DEFINE Counted(k) == r[k] # <<>> /\ IsFiniteSet(Ands(r[k])) /\ Cardinality(Ands(r[k])) = k + 1
           Good == {k \in 0..24 : Counted(k)}
<1>2. 0 \in Good
  <2>1. NoAnd(r[0]) /\ 0 \in 0..24
    BY <1>1, EntryIs
  <2>2. r[0] # <<>>
    BY <2>1, Joins, Lengths DEF NoAnd
  <2>3. IsFiniteSet(Ands(r[0])) /\ Cardinality(Ands(r[0])) = 1
    BY <2>1, AndsOfOne
  <2> QED BY <2>1, <2>2, <2>3
<1>3. ASSUME NEW k \in 0..(24 - 1), k \in Good PROVE k + 1 \in Good
  <2> DEFINE f == Entry(c, 24 - (k + 1))
             t == r[k]
             w == f \o (And \o t)
  <2>1. k + 1 \in 1..24 /\ k + 1 \in 0..24 /\ (k + 1) - 1 = k /\ 24 - (k + 1) \in 0..24 /\ k \in 0..24
    OBVIOUS
  <2>2. NoAnd(f) /\ t \in Texts /\ r[k + 1] = w
    BY <1>1, <2>1, EntryIs
  <2>3. t # <<>> /\ IsFiniteSet(Ands(t)) /\ Cardinality(Ands(t)) = k + 1
    BY <1>3
  <2>w. w = f \o (And \o t)
    OBVIOUS
  <2> HIDE DEF f, t, w
  <2>4. IsFiniteSet(Ands(w)) /\ Cardinality(Ands(w)) = (k + 1) + 1
    BY <2>2, <2>3, <2>w, AndsOfMore
  <2>5. w # <<>>
    <3>1. And \o t \in Texts /\ f \in Texts /\ Len(f) \in Nat \ {0}
      BY <2>2, SignsAre, JoinIs DEF NoAnd
    <3>2. Len(w) = Len(f) + Len(And \o t) /\ Len(And \o t) \in Nat /\ w \in Texts
      BY <2>w, <3>1, JoinIs, Lengths
    <3> QED BY <3>1, <3>2, Lengths
  <2> QED BY <2>1, <2>2, <2>4, <2>5
<1>4. 24 \in Good
  <2> HIDE DEF Good
  <2>1. 24 \in Nat /\ 24 \in 0..24
    OBVIOUS
  <2>2. 0..24 \subseteq Good
    BY <1>2, <1>3, <2>1, SetInduction
  <2> QED BY <2>1, <2>2
<1> QED BY <1>4

(* All that counts is kept: the settings but for what other values of      *)
(* use_dhcp than 1 there are.                                              *)
Kept(a, c) ==
    /\ a \in Configs /\ \A i \in Bytes \ {UseDhcp} : a[i] = c[i]
    /\ a[UseDhcp] = 1 <=> c[UseDhcp] = 1

(* What a parameter with the number n and the value v sets.                *)
With(a, n, v) ==
    IF n = 22 THEN [a EXCEPT ![PortLow] = v % 256, ![PortHigh] = v \div 256]
    ELSE [a EXCEPT ![ByteOf(n)] = v % 256]

IsNumber(name, n) == Number(name, 10) % 256 = n /\ ~(n > 24)

LEMMA Assigns ==
    ASSUME NEW a, NEW name, NEW value, NEW n, IsNumber(name, n)
    PROVE  Assigned(a, name, value) = With(a, n, Number(value, BaseOf(n)))
<1> DEFINE m == Number(name, 10) % 256
           v(k) == Number(value, BaseOf(k))
<1>1. m = n /\ ~(n > 24)
  BY DEF IsNumber
<1>2. Assigned(a, name, value) = IF m > 24 THEN a ELSE With(a, m, v(m))
  BY Zenon DEF Assigned, BaseOf, With
<1> HIDE DEF m, v
<1>3. Assigned(a, name, value) = With(a, n, v(n))
  BY <1>1, <1>2
<1> QED BY <1>3 DEF v

LEMMA AssignedKeeps ==
    ASSUME NEW c \in Configs, NEW a, Kept(a, c), NEW n \in 0..24
    PROVE  Kept(Assigned(a, Name(n), Shown(c, n)), c)
<1> DEFINE v == Number(Shown(c, n), BaseOf(n))
           x == Assigned(a, Name(n), Shown(c, n))
<1>0. /\ a \in Configs /\ \A i \in Bytes \ {UseDhcp} : a[i] = c[i]
      /\ a[UseDhcp] = 1 <=> c[UseDhcp] = 1
      /\ \A i \in Bytes : c[i] \in 0..255
  BY DEF Kept, Configs
<1>1. IsNumber(Name(n), n)
  <2>1. n % 256 = n /\ ~(n > 24)
    OBVIOUS
  <2> QED BY <2>1, NameOf DEF IsNumber
<1>2. v = FieldValue(c, n)
  BY ShownIs, ShowsClean
<1>3. x = With(a, n, v)
  BY <1>1, Assigns, Zenon
<1> HIDE DEF v, x
<1>4. ASSUME n = 22 PROVE Kept(x, c)
  <2>1. v = c[PortLow] + 256 * c[PortHigh]
    BY <1>2, <1>4 DEF FieldValue
  <2>2. v % 256 = c[PortLow] /\ v \div 256 = c[PortHigh]
    <3>0. PortLow \in Bytes /\ PortHigh \in Bytes
      BY DEF PortLow, PortHigh, Bytes
    <3>1. c[PortLow] \in 0..255 /\ c[PortHigh] \in 0..255
      BY <1>0, <3>0, Zenon
    <3> DEFINE l == c[PortLow]
               h == c[PortHigh]
    <3>2. l \in 0..255 /\ h \in 0..255 /\ v = l + 256 * h
      BY <2>1, <3>1
    <3> HIDE DEF l, h
    <3>3. /\ l \in Int /\ 0 <= l /\ l <= 255 /\ h \in Int /\ 0 <= h /\ h <= 255
          /\ v = l + 256 * h
      BY <3>2
    <3>4. v % 256 = l /\ v \div 256 = h
      BY <3>3
    <3> QED BY <3>4 DEF l, h
  <2>3. x = [a EXCEPT ![PortLow] = c[PortLow], ![PortHigh] = c[PortHigh]]
    BY <1>3, <1>4, <2>2 DEF With
  <2>4. PortLow \in Bytes /\ PortHigh \in Bytes /\ PortLow # UseDhcp /\ PortHigh # UseDhcp
    BY DEF PortLow, PortHigh, Bytes, UseDhcp
  <2>5. a \in [Bytes -> 0..255]
    BY <1>0 DEF Configs
  <2>6. a[PortLow] = c[PortLow] /\ a[PortHigh] = c[PortHigh]
    BY <1>0, <2>4
  <2>7. x = [a EXCEPT ![PortLow] = a[PortLow], ![PortHigh] = a[PortHigh]]
    BY <2>3, <2>6
  <2>8. x = a
    BY <2>5, <2>7
  <2> QED BY <2>8
<1>5. ASSUME n = 23 PROVE Kept(x, c)
  <2>1. v = IF c[UseDhcp] = 1 THEN 1 ELSE 0
    BY <1>2, <1>5 DEF FieldValue
  <2>2. ByteOf(n) = UseDhcp
    BY <1>5 DEF ByteOf
  <2>3. v % 256 = v
    BY <2>1
  <2>4. x = [a EXCEPT ![UseDhcp] = v]
    <3>1. n # 22
      BY <1>5
    <3>2. x = [a EXCEPT ![ByteOf(n)] = v % 256]
      BY <1>3, <3>1 DEF With
    <3> HIDE DEF UseDhcp
    <3>3. [a EXCEPT ![ByteOf(n)] = v % 256] = [a EXCEPT ![UseDhcp] = v]
      BY <2>2, <2>3, Zenon
    <3> QED BY <3>2, <3>3, Zenon
  <2>5. a \in [Bytes -> 0..255] /\ UseDhcp \in Bytes
    <3>1. UseDhcp \in Bytes
      BY DEF UseDhcp, Bytes
    <3>2. a \in [Bytes -> 0..255]
      BY <1>0, Zenon DEF Configs
    <3> QED BY <3>1, <3>2
  <2>6. v \in 0..255 /\ (v = 1 <=> c[UseDhcp] = 1)
    BY <2>1
  <2>7. /\ x \in [Bytes -> 0..255] /\ x[UseDhcp] = v
        /\ \A i \in Bytes \ {UseDhcp} : x[i] = a[i]
    <3> HIDE DEF Bytes, UseDhcp
    <3> QED BY <2>4, <2>5, <2>6
  <2> QED BY <1>0, <2>6, <2>7 DEF Kept, Configs
<1>6. ASSUME n # 22, n # 23 PROVE Kept(x, c)
  <2> DEFINE i == FieldByte(n)
  <2>1. ByteOf(n) = i /\ i # UseDhcp
    BY <1>6 DEF ByteOf, FieldByte, UseDhcp
  <2>2. i \in Bytes
    BY <1>6, ByteIsByte
  <2>3. v = c[i]
    BY <1>2, <1>6 DEF FieldValue
  <2> HIDE DEF i
  <2>4. v \in 0..255 /\ a[i] = c[i]
    BY <1>0, <2>1, <2>2, <2>3
  <2>5. v % 256 = v
    BY <2>4
  <2>6. x = [a EXCEPT ![i] = a[i]]
    BY <1>3, <1>6, <2>1, <2>3, <2>4, <2>5 DEF With
  <2>7. x = a
    BY <1>0, <2>6 DEF Configs
  <2> QED BY <2>7
<1>7. Kept(x, c)
  BY <1>4, <1>5, <1>6
<1> QED BY <1>7 DEF x

LEMMA FormKeeps ==
    ASSUME NEW c \in Configs
    PROVE  Kept(Parameters(c, Form(c)), c) /\ Len(Form(c)) <= 158
<1> DEFINE text == Form(c)
           many == Cardinality({k \in 0..(Len(text) - 1) : k = 0 \/ text[k] = "&"})
           Reads1(p, k) == NextUrlParam(IF k = 1 THEN text ELSE p[k - 1].tail)
           Solves(p) == p = [k \in 1..many |-> Reads1(p, k)]
           param == CHOOSE p : Solves(p)
           At(g, k) == IF k = 0 THEN c ELSE Assigned(g[k - 1], param[k].name, param[k].value)
           Sums(g) == g = [k \in 0..many |-> At(g, k)]
           after == CHOOSE g : Sums(g)
<1>1. Parameters(c, Form(c)) = after[many]
  BY DEF Parameters
<1>2. PICK g : Builds(g, c) /\ text = g[24]
  BY FormBuilds
<1>3. PICK r : Trails(r, c)
  BY TrailsExist
<1>4. text = r[24] /\ Len(text) <= 158
  BY <1>2, <1>3, FormTrails, FormLength
<1>5. many = 25
  <2>1. many = Cardinality(Ands(text))
    BY DEF Ands
  <2> HIDE DEF many, text
  <2> QED BY <1>3, <1>4, <2>1, TrailAnds
<1> HIDE DEF many, text
<1>6. /\ \A k \in 1..25 : 25 - k \in 0..24 /\ 24 - (25 - k) = k - 1 /\ k - 1 \in 0..24
      /\ \A k \in 2..25 : 25 - (k - 1) \in 1..24 /\ (25 - (k - 1)) - 1 = 25 - k
  OBVIOUS
<1>7. Solves([k \in 1..25 |-> NextUrlParam(r[25 - k])])
  <2> DEFINE p == [k \in 1..25 |-> NextUrlParam(r[25 - k])]
  <2>1. ASSUME NEW k \in 1..25 PROVE Reads1(p, k) = p[k]
    <3>1. CASE k = 1
      <4>1. 25 - k = 24 /\ p[k] = NextUrlParam(r[25 - k])
        BY <3>1
      <4> HIDE DEF p
      <4> QED BY <1>4, <3>1, <4>1
    <3>2. CASE k # 1
      <4>1. k \in 2..25 /\ k - 1 \in 1..25 /\ 25 - (k - 1) \in 0..24 /\ 25 - (k - 1) # 0
        BY <3>2
      <4>2. p[k] = NextUrlParam(r[25 - k]) /\ p[k - 1] = NextUrlParam(r[25 - (k - 1)])
        BY <4>1
      <4> HIDE DEF p
      <4>3. p[k - 1].tail = r[25 - k]
        <5> DEFINE j == 25 - (k - 1)
        <5>1. j \in 0..24 /\ j # 0 /\ j - 1 = 25 - k
          BY <4>1
        <5> HIDE DEF j
        <5>2. NextUrlParam(r[j]).tail = r[j - 1]
          BY <1>3, <5>1, TrailRead
        <5> QED BY <4>2, <5>1, <5>2 DEF j
      <4> QED BY <3>2, <4>2, <4>3
    <3> QED BY <3>1, <3>2
  <2>2. p = [k \in 1..25 |-> p[k]]
    OBVIOUS
  <2> HIDE DEF p, Reads1
  <2>3. Solves(p)
    BY <1>5, <2>1, <2>2
  <2> QED BY <2>3 DEF p
<1>8. Solves(param)
  <2> HIDE DEF Solves
  <2> QED BY <1>7
<1> HIDE DEF param
<1>9. \A k \in 1..25 : param[k] = Reads1(param, k)
  <2> TAKE k \in 1..25
  <2>1. param = [l \in 1..25 |-> Reads1(param, l)]
    BY <1>5, <1>8
  <2> HIDE DEF Reads1
  <2> QED BY <2>1, Zenon
<1> DEFINE Read == {k \in 0..24 : param[k + 1] = NextUrlParam(r[24 - k])}
<1>10. 0 \in Read
  <2>1. 1 \in 1..25 /\ 0 + 1 = 1 /\ 24 - 0 = 24 /\ 0 \in 0..24
    OBVIOUS
  <2>2. param[1] = NextUrlParam(text)
    BY <1>9, <2>1, Zenon
  <2> QED BY <1>4, <2>1, <2>2
<1>11. ASSUME NEW k \in 0..(24 - 1), k \in Read PROVE k + 1 \in Read
  <2>1. /\ k + 1 \in 0..24 /\ (k + 1) + 1 \in 1..25 /\ (k + 1) + 1 # 1
        /\ ((k + 1) + 1) - 1 = k + 1 /\ 24 - k \in 0..24 /\ 24 - k # 0
        /\ (24 - k) - 1 = 24 - (k + 1)
    OBVIOUS
  <2>2. param[(k + 1) + 1] = NextUrlParam(param[k + 1].tail)
    BY <1>9, <2>1
  <2>3. param[k + 1] = NextUrlParam(r[24 - k])
    BY <1>11
  <2>4. NextUrlParam(r[24 - k]).tail = r[24 - (k + 1)]
    <3> DEFINE j == 24 - k
    <3>1. j \in 0..24 /\ j # 0 /\ j - 1 = 24 - (k + 1)
      BY <2>1
    <3> HIDE DEF j
    <3>2. NextUrlParam(r[j]).tail = r[j - 1]
      BY <1>3, <3>1, TrailRead
    <3> QED BY <3>1, <3>2 DEF j
  <2> QED BY <2>1, <2>2, <2>3, <2>4
<1>12. \A k \in 1..25 : param[k].name = Name(k - 1) /\ param[k].value = Shown(c, k - 1)
  <2>1. 0..24 \subseteq Read
    <3> HIDE DEF Read
    <3>1. 24 \in Nat
      OBVIOUS
    <3> QED BY <1>10, <1>11, <3>1, SetInduction
  <2> TAKE k \in 1..25
  <2> DEFINE n == k - 1
             j == 24 - n
  <2>2. n \in 0..24 /\ n + 1 = k /\ j \in 0..24 /\ 24 - j = n
    OBVIOUS
  <2>3. param[n + 1] = NextUrlParam(r[24 - n])
    BY <2>1, <2>2
  <2>j. j = 24 - n
    OBVIOUS
  <2> HIDE DEF j, n
  <2>4. NextUrlParam(r[j]).name = Name(24 - j) /\ NextUrlParam(r[j]).value = Shown(c, 24 - j)
    BY <1>3, <2>2, TrailRead
  <2> QED BY <2>2, <2>3, <2>4, <2>j DEF n
<1> DEFINE F == [k \in 1..25 |-> [a \in {x \in Configs : Kept(x, c)} |->
                     Assigned(a, param[k].name, param[k].value)]]
           D == {x \in Configs : Kept(x, c)}
<1>13. c \in D
  BY DEF Kept
<1>14. ASSUME NEW k \in 1..25, NEW a \in D
       PROVE  Assigned(a, param[k].name, param[k].value) \in D
  <2> DEFINE n == k - 1
  <2>1. n \in 0..24 /\ Kept(a, c)
    BY <1>6
  <2>2. param[k].name = Name(n) /\ param[k].value = Shown(c, n)
    BY <1>12
  <2> HIDE DEF n
  <2>3. Kept(Assigned(a, Name(n), Shown(c, n)), c)
    BY <2>1, AssignedKeeps
  <2>4. Assigned(a, Name(n), Shown(c, n)) \in D
    BY <2>3 DEF Kept
  <2> QED BY <2>2, <2>4
<1> HIDE DEF D
<1>15. F = [k \in 1..25 |-> [a \in D |-> Assigned(a, param[k].name, param[k].value)]]
  BY DEF D
<1>16. StepsIn(F, 25, D)
  BY <1>14, <1>15 DEF StepsIn
<1> HIDE DEF F
<1>17. PICK h : Follows(h, F, 25, D, c)
  <2>1. 25 \in Nat
    OBVIOUS
  <2> QED BY <1>13, <1>16, <2>1, Recursion
<1>18. h \in [0..25 -> D] /\ h[0] = c
       /\ \A k \in 1..25 : h[k] = Assigned(h[k - 1], param[k].name, param[k].value)
  <2>1. h \in [0..25 -> D] /\ h[0] = c /\ \A k \in 1..25 : h[k] = F[k][h[k - 1]]
    BY <1>17 DEF Follows
  <2>2. ASSUME NEW k \in 1..25
        PROVE  F[k][h[k - 1]] = Assigned(h[k - 1], param[k].name, param[k].value)
    <3>1. k - 1 \in 0..25
      OBVIOUS
    <3>2. h[k - 1] \in D
      BY <2>1, <3>1
    <3> QED BY <1>15, <3>2, Zenon
  <2> QED BY <2>1, <2>2
<1>19. Sums(h)
  <2>1. \A k \in 0..25 : h[k] = At(h, k)
    <3> TAKE k \in 0..25
    <3>1. k # 0 => k \in 1..25
      OBVIOUS
    <3> QED BY <1>18, <3>1
  <2>2. h = [k \in 0..25 |-> h[k]]
    BY <1>18
  <2> HIDE DEF At
  <2> QED BY <1>5, <2>1, <2>2
<1>20. Sums(after)
  <2> HIDE DEF Sums
  <2> QED BY <1>19
<1> HIDE DEF after
<1>21. \A k \in 0..25 : after[k] = At(after, k)
  <2> TAKE k \in 0..25
  <2>1. after = [l \in 0..25 |-> At(after, l)]
    BY <1>5, <1>20
  <2> HIDE DEF At
  <2> QED BY <2>1, Zenon
<1> DEFINE Same1 == {k \in 0..25 : after[k] \in D}
<1>22. 0 \in Same1
  <2>1. 0 \in 0..25
    OBVIOUS
  <2>2. after[0] = c
    BY <1>21, <2>1, Zenon
  <2> QED BY <1>13, <2>1, <2>2
<1>23. ASSUME NEW k \in 0..(25 - 1), k \in Same1 PROVE k + 1 \in Same1
  <2>1. k + 1 \in 1..25 /\ k + 1 \in 0..25 /\ k + 1 # 0 /\ (k + 1) - 1 = k
    OBVIOUS
  <2>2. after[k + 1] = Assigned(after[k], param[k + 1].name, param[k + 1].value)
    BY <1>21, <2>1
  <2>3. after[k] \in D
    BY <1>23
  <2>4. after[k + 1] \in D
    BY <1>14, <2>1, <2>2, <2>3
  <2> QED BY <2>1, <2>4
<1>24. after[25] \in D
  <2> HIDE DEF Same1
  <2>1. 25 \in Nat /\ 25 \in 0..25
    OBVIOUS
  <2>2. 0..25 \subseteq Same1
    BY <1>22, <1>23, <2>1, SetInduction
  <2> QED BY <2>1, <2>2 DEF Same1
<1>25. Kept(after[many], c)
  BY <1>5, <1>24 DEF D
<1> QED BY <1>1, <1>4, <1>25 DEF text

-------------------------------------------------------------------------------
(* Each setting is a byte, whatever a request asks for *)

LEMMA BytesOf ==
    ASSUME NEW v \in Values
    PROVE  v % 256 \in 0..255 /\ v \div 256 \in 0..255
BY SMT DEF Values

LEMMA AssignedType ==
    ASSUME NEW c \in Configs, NEW name \in Texts, NEW value \in Texts
    PROVE  Assigned(c, name, value) \in Configs
<1> DEFINE n == Number(name, 10) % 256
           v == Number(value, IF n <= 5 THEN 16 ELSE 10)
           x == Assigned(c, name, value)
<1>1. n \in 0..255
  <2>1. 10 \in {10, 16}
    OBVIOUS
  <2>2. Number(name, 10) \in Values
    BY <2>1, NumberType
  <2> QED BY <2>2, BytesOf
<1>2. x = IF n > 24 THEN c
          ELSE IF n = 22 THEN [c EXCEPT ![PortLow] = v % 256, ![PortHigh] = v \div 256]
          ELSE [c EXCEPT ![ByteOf(n)] = v % 256]
  BY DEF Assigned
<1> HIDE DEF n, x
<1>3. v % 256 \in 0..255 /\ v \div 256 \in 0..255
  <2>1. (IF n <= 5 THEN 16 ELSE 10) \in {10, 16}
    OBVIOUS
  <2>2. v \in Values
    BY <2>1, NumberType
  <2> HIDE DEF v
  <2> QED BY <2>2, BytesOf
<1> DEFINE low == v % 256
           high == v \div 256
<1>4. low \in 0..255 /\ high \in 0..255
  BY <1>3
<1>5. x = IF n > 24 THEN c
          ELSE IF n = 22 THEN [c EXCEPT ![PortLow] = low, ![PortHigh] = high]
          ELSE [c EXCEPT ![ByteOf(n)] = low]
  BY <1>2
<1> HIDE DEF low, high
<1>6. \A f \in [Bytes -> 0..255], i \in Bytes, b \in 0..255 : [f EXCEPT ![i] = b] \in [Bytes -> 0..255]
  OBVIOUS
<1>7. ASSUME n > 24 PROVE x \in Configs
  BY <1>5, <1>7
<1>8. ASSUME n = 22 PROVE x \in Configs
  <2>1. x = [c EXCEPT ![PortLow] = low, ![PortHigh] = high]
    BY <1>5, <1>8
  <2> QED BY <1>4, <2>1 DEF Configs
<1>9. ASSUME ~(n > 24), n # 22 PROVE x \in Configs
  <2>1. x = [c EXCEPT ![ByteOf(n)] = low]
    BY <1>5, <1>9
  <2> QED BY <1>4, <2>1 DEF Configs
<1> QED BY <1>7, <1>8, <1>9 DEF x

LEMMA UrlTailType ==
    ASSUME NEW u \in Texts
    PROVE  UrlTail(u) \in Texts
<1> DEFINE n == PathLength(u)
<1>1. n \in Nat
  <2>1. 1 \in Nat \ {0} /\ n = RunUntil(u, 1, {"?"})
    BY DEF PathLength
  <2>2. n \in 0..Len(u)
    BY <2>1, RunUntilIs
  <2> QED BY <2>2
<1> HIDE DEF n
<1>2. n + 1 \in Nat
  BY <1>1
<1>3. Rest(u, n + 1) \in Texts
  BY <1>2, RestIs
<1> QED BY <1>3 DEF UrlTail, n

LEMMA RequestType ==
    ASSUME StreamInv, GetRequest
    PROVE  request' \in Texts
<1> DEFINE m == Len(Methods[try])
           t == Rest(Ahead(conn), m)
           n == RunUntil(t, 1, LineEnds)
<1>1. Fine(conn) /\ try \in Nat \ {0}
  BY DEF StreamInv
<1>2. /\ m = Len(Methods[try]) /\ t = Rest(Ahead(conn), m) /\ n = RunUntil(t, 1, LineEnds)
  OBVIOUS
<1> HIDE DEF m, t, n
<1>3. t \in Texts /\ request' = SubSeq(t, 1, Stored(n))
  BY <1>1, <1>2, GetRequestReads
<1>4. n \in 0..Len(t)
  <2>1. 1 \in Nat \ {0}
    OBVIOUS
  <2> QED BY <1>2, <1>3, <2>1, RunUntilIs
<1>5. Stored(n) \in 0..Len(t)
  <2>1. Len(t) \in Nat /\ n \in Nat /\ n <= Len(t)
    BY <1>3, <1>4, Lengths
  <2>2. Stored(n) \in 0..n
    BY <2>1, StoredIs
  <2> QED BY <2>1, <2>2
<1> QED BY <1>3, <1>5, BeginIs

Bytewise == ram \in Configs /\ eeprom \in Configs /\ tail \in Texts /\ request \in Texts

LEMMA BytewiseInit == SetupInit => Bytewise
<1> SUFFICES ASSUME SetupInit PROVE Bytewise
  OBVIOUS
<1>1. tail = <<>> /\ request = <<>> /\ <<>> \in Texts
  BY Joins DEF SetupInit
<1>2. ram \in Configs /\ eeprom \in Configs
  BY DEF SetupInit, Configs, Blank
<1> QED BY <1>1, <1>2 DEF Bytewise

LEMMA BytewiseStep == StreamInv /\ Bytewise /\ [SetupNext]_setupVars => Bytewise'
<1> SUFFICES ASSUME StreamInv, Bytewise, [SetupNext]_setupVars PROVE Bytewise'
  OBVIOUS
<1>0. ram \in Configs /\ eeprom \in Configs /\ tail \in Texts /\ request \in Texts
      /\ <<>> \in Texts
  BY Joins DEF Bytewise
<1>1. ASSUME UNCHANGED <<ram, eeprom>>, tail' \in Texts, request' \in Texts PROVE Bytewise'
  BY <1>0, <1>1 DEF Bytewise
<1>2. CASE ReadsOn
  <2>1. UNCHANGED <<ram, eeprom, tail>>
    BY <1>2 DEF ReadsOn, settings
  <2>2. request' \in Texts
    <3>1. CASE GetRequest
      BY <3>1, RequestType
    <3>2. CASE Expects \/ GetsInvalid \/ HeaderLength \/ HeaderAuthorization \/ HeadersEnd
                 \/ HeaderCharacter
      <4>1. UNCHANGED request
        BY <3>2 DEF Expects, GetsInvalid, HeaderLength, HeaderAuthorization, HeadersEnd,
                    HeaderCharacter
      <4> QED BY <1>0, <4>1
    <3> QED BY <1>2, <3>1, <3>2 DEF ReadsOn, Reads
  <2> QED BY <1>0, <1>1, <2>1, <2>2
<1>3. CASE Serves
  <2>1. UNCHANGED <<ram, eeprom, tail>> /\ request' = <<>>
    BY <1>3 DEF Serves, Connects, settings
  <2> QED BY <1>0, <1>1, <2>1
<1>4. CASE Submits
  <2>1. UNCHANGED <<ram, eeprom, request>> /\ tail' = UrlTail(request)
    BY <1>4 DEF Submits
  <2> QED BY <1>0, <1>1, <2>1, UrlTailType
<1>5. CASE TakesParameter
  <2> DEFINE p == NextUrlParam(tail)
  <2>1. UNCHANGED <<eeprom, request>> /\ ram' = Assigned(ram, p.name, p.value) /\ tail' = p.tail
    BY <1>5 DEF TakesParameter, webVars
  <2>2. p.name \in Texts /\ p.value \in Texts /\ p.tail \in Texts
    BY <1>0, NextIs
  <2> HIDE DEF p
  <2>3. ram' \in Configs
    BY <1>0, <2>1, <2>2, AssignedType
  <2> QED BY <1>0, <2>1, <2>2, <2>3 DEF Bytewise
<1>6. CASE StartsStoring
  <2>1. UNCHANGED <<ram, eeprom, tail, request>>
    BY <1>6 DEF StartsStoring
  <2> QED BY <1>0, <1>1, <2>1
<1>7. CASE ShowsPage
  <2>1. UNCHANGED <<ram, eeprom, tail, request>>
    BY <1>7 DEF ShowsPage, CommandReturns, settings
  <2> QED BY <1>0, <1>1, <2>1
<1>8. CASE WritesByte
  <2>1. UNCHANGED <<ram, tail, request>> /\ eeprom' = [eeprom EXCEPT ![at] = ram[at]]
    BY <1>8 DEF WritesByte, CommandReturns
  <2>2. eeprom' \in Configs
    <3>1. CASE at \in Bytes
      <4>1. ram[at] \in 0..255
        BY <1>0, <3>1 DEF Configs
      <4> QED BY <1>0, <2>1, <4>1 DEF Configs
    <3>2. CASE at \notin Bytes
      BY <1>0, <2>1, <3>2 DEF Configs
    <3> QED BY <3>1, <3>2
  <2> QED BY <1>0, <2>1, <2>2 DEF Bytewise
<1>9. CASE Starts
  <2>1. UNCHANGED <<eeprom, tail, request>> /\ (ram' = Default \/ ram' = eeprom)
    BY <1>9 DEF Starts
  <2>2. Default \in Configs
    BY DEF Default, Configs, Bytes
  <2> QED BY <1>0, <2>1, <2>2 DEF Bytewise
<1>10. CASE LosesPower
  <2>1. UNCHANGED <<ram, eeprom, request>> /\ tail' = <<>>
    BY <1>10 DEF LosesPower
  <2> QED BY <1>0, <1>1, <2>1
<1>11. CASE UNCHANGED setupVars
  <2>1. UNCHANGED <<ram, eeprom, tail, request>>
    BY <1>11 DEF setupVars, webVars, settings
  <2> QED BY <1>0, <1>1, <2>1
<1> QED BY <1>2, <1>3, <1>4, <1>5, <1>6, <1>7, <1>8, <1>9, <1>10, <1>11 DEF SetupNext, Works

(* Whatever settings the board has, the form that shows them, sent as it   *)
(* is, leaves them as they are, and its URL fits into the buffer: every    *)
(* field carries the number under which the sketch reads it again, in the  *)
(* base in which it reads it, and no field or sign is lost or cut off.     *)
THEOREM FormIsUnchanged == SetupSpec => []FormUnchanged
<1>1. Bytewise => FormUnchanged
  <2> SUFFICES ASSUME Bytewise PROVE FormUnchanged
    OBVIOUS
  <2> DEFINE after == Parameters(ram, Form(ram))
             l == Len(Commands[Setup])
             k == Len(Form(ram))
  <2>1. ram \in Configs
    BY DEF Bytewise
  <2>2. Kept(after, ram) /\ k <= 158
    BY <2>1, FormKeeps
  <2>3. l + 2 + 158 < BuffLen /\ l \in Nat /\ BuffLen \in Nat
    <3>1. Setup \in DOMAIN Commands /\ l + 2 + 158 < BuffLen
      BY FormAssumption
    <3>2. Commands[Setup] \in Seq(STRING)
      BY <3>1, CommandsAssumption, ElementOfSeq, LenProperties
    <3>3. l \in Nat
      BY <3>2, LenProperties
    <3> QED BY <3>1, <3>3, SizesAssumption
  <2>4. k \in Nat
    BY FormBuilds, <2>1, Lengths DEF Builds
  <2> HIDE DEF after, l, k
  <2>5. l + 2 + k < BuffLen
    BY <2>2, <2>3, <2>4
  <2>6. (\A i \in Bytes \ {UseDhcp} : after[i] = ram[i]) /\ (after[UseDhcp] = 1 <=> ram[UseDhcp] = 1)
    BY <2>2 DEF Kept
  <2> QED BY <2>5, <2>6 DEF FormUnchanged, after, l, k
<1>2. SetupInit => Bytewise
  BY BytewiseInit
<1> QED BY <1>1, <1>2, BytewiseStep, StreamAlways, PTL DEF SetupSpec
===============================================================================
