------------------------------- MODULE MCIrCodec -------------------------------
EXTENDS IrCodec

Key(protocol, bits, word, repeat) ==
    [protocol |-> protocol, bits |-> bits, word |-> word, repeat |-> repeat]

(* Words: all ones, all zeros, alternating, in pairs, and a mixed one.     *)
Ones == [i \in 1..32 |-> 1]
Zeros == [i \in 1..32 |-> 0]
Alternating == [i \in 1..32 |-> i % 2]
Pairs == [i \in 1..32 |-> (i \div 2) % 2]
Mixed == [i \in 1..32 |-> IF i \in {1, 2, 5, 9, 10, 11, 17, 20, 24, 26, 27, 31} THEN 1 ELSE 0]
Words == {Ones, Zeros, Alternating, Pairs, Mixed}

(* Every protocol with the bits it has, with one bit less or more where    *)
(* that matters, and 10 for one that sends nothing.                        *)
MCKeys ==
    {Key(p, 32, w, FALSE) : p \in {1, 7, 8}, w \in Words}
      \cup {Key(2, n, w, FALSE) : n \in {11, 12, 20}, w \in Words}
      \cup {Key(3, n, w, FALSE) : n \in {11, 12, 13}, w \in Words}
      \cup {Key(4, n, w, FALSE) : n \in {3, 4, 20}, w \in Words}
      \cup {Key(5, 16, w, FALSE) : w \in Words}
      \cup {Key(6, 15, w, FALSE) : w \in Words}
      \cup {Key(8, 16, w, r) : w \in Words, r \in BOOLEAN}
      \cup {Key(8, 31, Mixed, FALSE), Key(1, 31, Mixed, FALSE), Key(1, 40, Mixed, FALSE),
            Key(10, 32, Mixed, FALSE)}

MCExcess == {0, 50, 100, 180}

(* All entries rounded up, none, every other mark, or irregularly.         *)
MCRoundedUp ==
    {1..99, {}, {i \in 1..99 : i % 4 = 1}, {i \in 1..99 : (i \div 3) % 2 = 0}}

MCJunk == {[i \in Indices |-> 0], [i \in Indices |-> IF i % 2 = 1 THEN 14 ELSE 30]}
===============================================================================
