----------------------------- MODULE MCL2capSlot -----------------------------
(* TLC instances of L2capSlot: an SDU that fits a value and one that is cut, *)
(* which differ in data too.                                                 *)
EXTENDS L2capSlot

CONSTANTS p1, d1, d2

Sdu(d, n) == [data |-> d, len |-> n]

TwoSdus == {Sdu(d1, 1), Sdu(d2, 3)}
=============================================================================
