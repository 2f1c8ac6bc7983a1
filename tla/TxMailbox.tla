----------------------------- MODULE TxMailbox -----------------------------
(***************************************************************************)
(* What runtime_ble_send / _notify / _indicate promise (and, for an SDU,   *)
(* runtime_ble_l2cap_send): one outstanding message.  A message accepted   *)
(* into the empty slot stays there, whole and unchanged, until the link    *)
(* takes it or a new session or channel drops it; a message longer than a  *)
(* characteristic value is cut to ValueLen when it is taken.               *)
(***************************************************************************)
EXTENDS Naturals

CONSTANTS
  Msgs,      \* what callers may pass: records with a field len
  Empty,     \* the empty slot
  ValueLen   \* VALUE_LEN, the size of a characteristic value

VARIABLES
  slot,   \* the outstanding message, or Empty
  taken   \* the message handed to the link last, or Empty

Cut(m) == [m EXCEPT !.len = IF m.len < ValueLen THEN m.len ELSE ValueLen]

Init == slot = Empty /\ taken = Empty

Accept == slot = Empty /\ slot' \in Msgs /\ UNCHANGED taken

Take == slot # Empty /\ taken' = Cut(slot) /\ slot' = Empty

Drop == slot # Empty /\ slot' = Empty /\ UNCHANGED taken

Next == Accept \/ Take \/ Drop

Spec == Init /\ [][Next]_<<slot, taken>>
=============================================================================
