SPECIFICATION Spec
CONSTANTS
  Id = {"r1", "r2", "r3"}
  sheet <- MCSheet
  Field = {"propertyType"}
  Option <- MCOption
  Place <- MCPlace
  groupBy <- MCGroupBy
  Typed = {1000}
  minDistance = 100
  Ceiling = 9999
  NoRange = NoRange
  Unset = Unset
  MaxChanges = 2
  MaxRequests = 3
INVARIANTS
  YearlyPriceRead
CHECK_DEADLOCK FALSE
