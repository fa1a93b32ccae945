\* Two requests overlap; labels of every kind.
CONSTANTS
  RegularSlots = {morning}
  ExtendedSlots = {evening}
  OvertimeSlots = {night}
  OtherSlots = {odd}
  MaxOutput = 1
  Requests = {r1, r2}
  Null = Null
SPECIFICATION Spec
SYMMETRY Symmetry
INVARIANTS
  TypeOK
PROPERTIES
  SlotsFitShift
  OnlySentOutputChanges
  TotalOfKnownSlots
