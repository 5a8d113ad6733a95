----------------------------- MODULE MCRcReceiver -----------------------------
(* An unsigned long of four bits: frames of three bits and, like 32 bits   *)
(* in the program, of four; 11 changes for four bits as 67 for 32.         *)
EXTENDS RcReceiver

MCSkews == {-2, 2}
MCGaps == {100, 7000}
(* One that loses its first bit, one that fits, and one of   *)
(* which only zeros are sent.                                              *)
MCCodes == {<<11, 4>>, <<5, 3>>, <<9, 3>>}
===============================================================================
