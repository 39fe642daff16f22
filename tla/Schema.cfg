SPECIFICATION Spec
CONSTANTS
  Unset = Unset
  MaxInt = 99
  MaxExponent = 2
  MaxPrecision = 4
  FractionDigits = 2
  UnitDigits = 3
  Environment = {}
  MaxWord = 1
  Families <- MCFamilies
INVARIANTS
  SurvivorsBuild
  PassesAgree
  
  NamesResolve
  RejectionsTrue
  LoadsConverge
CHECK_DEADLOCK FALSE
