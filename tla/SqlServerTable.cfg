SPECIFICATION Spec
CONSTANTS
  Families <- MCFamilies
  MaxInt = 99
  MaxExponent = 2
  MaxPrecision = 4
  FractionDigits = 2
  UnitDigits = 2
  SecondsPerDay = 2
  TicksPerSecond = 30
  EpochDay = 3
  FirstDatetimeDay = 2
  LastDay = 4
  IntMax = 19
  SmallIntMax = 8
  TinyIntMax = 3
  TextMax = 5
INVARIANTS
  ValueSurvives
  CreatedTakesAll
  MergeConverges
CHECK_DEADLOCK FALSE
