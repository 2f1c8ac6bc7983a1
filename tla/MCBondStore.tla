----------------------------- MODULE MCBondStore -----------------------------
(* TLC instances of BondStore: more peers than slots, and two keys so that a  *)
(* peer can pair again.                                                       *)
EXTENDS BondStore

CONSTANTS anna, bert, cleo, k1, k2
=============================================================================
