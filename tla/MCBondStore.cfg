SPECIFICATION Spec
CONSTANTS
  anna = anna  bert = bert  cleo = cleo  k1 = k1  k2 = k2
  Ids = {anna, bert, cleo}
  Keys = {k1, k2}
  SlotCount = 2
  None = None
INVARIANTS TypeOK StorageMatchesMap StorageIsCurrent
PROPERTIES KeepsBondWhileDense DeleteAllEmpties DeletesSlotAsked
