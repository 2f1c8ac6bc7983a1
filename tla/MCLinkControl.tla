---------------------------- MODULE MCLinkControl ----------------------------
(* TLC instances of LinkControl: requests with shared words, with a word of   *)
(* their own and with none.                                                   *)
EXTENDS LinkControl

CONSTANTS p1, t1, t2

MCCmds == {"phy", "connParams", "rate", "readRssi", "passkeyConfirm"}
=============================================================================
