\* An update names a slot the entry does not have.
CONSTANTS
  RegularSlots = {morning, noon}
  ExtendedSlots = {evening}
  OvertimeSlots = {night}
  OtherSlots = {odd}
  MaxOutput = 1
  Requests = {r1}
  Null = Null
SPECIFICATION Spec
PROPERTY TotalRecalculated
