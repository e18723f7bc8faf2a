SPECIFICATION Spec
CONSTANTS
  Id = {"r1", "r2", "r3"}
  sheet <- DearSheet
  Field = {"propertyType"}
  Option <- MCOption
  Place <- MCPlace
  groupBy <- MCGroupBy
  Typed = {200}
  minDistance = 100
  Ceiling = 9999
  NoRange = NoRange
  Unset = Unset
  MaxChanges = 2
  MaxRequests = 3
INVARIANTS
  PriceRangeRead
CHECK_DEADLOCK FALSE
