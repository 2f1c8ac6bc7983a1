------------------------------ MODULE MCTxSlot ------------------------------
(* TLC instances of TxSlot: a notifying, an indicating and an unknown        *)
(* characteristic; an automatic send, an explicit indication, and a message  *)
(* longer than a value.                                                      *)
EXTENDS TxSlot, TLC

CONSTANTS p1, d1, d2, nus

MCChrs  == {nus, 0, 1, 9}
MCProps == 0 :> {"notify"} @@ 1 :> {"notify", "indicate"}

Msg(d, c, k, n) == [data |-> d, chr |-> c, kind |-> k, len |-> n]

MCMsgs == {Msg(d1, nus, "auto", 1), Msg(d2, 1, "indicate", 3), Msg(d1, 9, "auto", 2)}
=============================================================================
