------------------------------ MODULE AdvPayload ------------------------------
(***************************************************************************)
(* How long the advertising payload gets, and whether there is one: the    *)
(* builders of rust/src/radio.rs push one AD structure after the other, of *)
(* which only the lengths are kept.  A configuration adv has               *)
(*   raw        the length of adv_data, 0 if none is given                 *)
(*   man        whether there is a manufacturer id or data, and its length *)
(*   uuid       the length of the service UUID, 0 for none                 *)
(*   sdata      the lengths of the service data and of its UUID, added, or 0 *)
(*   appearance, txPower   whether they are included                       *)
(*   name       the length of the device's name                            *)
(*   scan       the length of the scan response data                       *)
(***************************************************************************)
EXTENDS Naturals

CONSTANTS
  AdvMax,    \* the length of a legacy payload, 31
  ExtMax     \* EXT_ADV_DATA_MAX

ASSUME MaxAssumption == AdvMax \in Nat /\ ExtMax \in Nat

\* The outcome of a builder that gives up, None in the code.
Never == 1 + ExtMax + AdvMax

\* push_ad and push_ad_ext: a length, a type and the data, if they fit.
PushAd(max, pos, len) == IF pos + len + 2 > max THEN Never ELSE pos + len + 2

\* An optional structure.
PushOpt(max, pos, len) == IF len = 0 THEN pos ELSE PushAd(max, pos, len)

\* What the appearance and the transmit power take.
AppearanceLen(adv) == IF adv.appearance THEN 2 ELSE 0
TxPowerLen(adv) == IF adv.txPower THEN 1 ELSE 0

\* The length with everything but the name: the flags, then what is configured.
Pushed(max, adv) ==
  LET man   == PushOpt(max, PushAd(max, 0, 1), adv.man)
      uuid  == PushOpt(max, man, adv.uuid)
      sdata == PushOpt(max, uuid, adv.sdata)
  IN  PushOpt(max, PushOpt(max, sdata, AppearanceLen(adv)), TxPowerLen(adv))

\* Mutant: a name of one letter is thought not to be worth a structure.
LegacyPayloadGreedy(adv) ==
  LET pos == Pushed(AdvMax, adv)
  IN  IF adv.raw # 0 THEN IF adv.raw > AdvMax THEN Never ELSE adv.raw
      ELSE IF pos > AdvMax THEN Never
      ELSE IF PushAd(AdvMax, pos, adv.name) # Never THEN PushAd(AdvMax, pos, adv.name)
      ELSE IF AdvMax - pos <= 3 THEN Never ELSE AdvMax

\* advertising_payload: the name is cut to the room that is left.
LegacyPayload(adv) ==
  LET pos == Pushed(AdvMax, adv)
  IN  IF adv.raw # 0 THEN IF adv.raw > AdvMax THEN Never ELSE adv.raw
      ELSE IF pos > AdvMax THEN Never
      ELSE IF PushAd(AdvMax, pos, adv.name) # Never THEN PushAd(AdvMax, pos, adv.name)
      ELSE IF AdvMax - pos < 3 THEN Never ELSE AdvMax

\* advertising_payload_ext: the name is left out if it is empty, never cut.
ExtPayload(adv) ==
  LET pos == Pushed(ExtMax, adv)
  IN  IF adv.raw # 0 THEN IF adv.raw > ExtMax THEN Never ELSE adv.raw
      ELSE IF pos > ExtMax THEN Never
      ELSE IF adv.name = 0 THEN pos ELSE PushAd(ExtMax, pos, adv.name)
-----------------------------------------------------------------------------
\* What the two need of a configuration, without saying how it is built: room for
\* everything and, in a legacy payload, for the name or one letter of it.
Takes(len) == IF len = 0 THEN 0 ELSE len + 2

Needs(adv) == 3 + Takes(adv.man) + Takes(adv.uuid) + Takes(adv.sdata)
                + Takes(AppearanceLen(adv)) + Takes(TxPowerLen(adv))

FitsLegacy(adv) ==
  IF adv.raw # 0 THEN adv.raw <= AdvMax
  ELSE Needs(adv) + (IF adv.name = 0 THEN 2 ELSE 3) <= AdvMax

FitsExtWith(adv, more) ==
  LET len == IF adv.raw # 0 THEN adv.raw
             ELSE Needs(adv) + (IF adv.name = 0 THEN 0 ELSE adv.name + 2)
  IN  len + more <= ExtMax

FitsExt(adv) == FitsExtWith(adv, 0)
=============================================================================
