CONSTANTS
  Dense = 21000
  Largest = 6300000
SPECIFICATION Spec
CHECK_DEADLOCK FALSE
INVARIANTS
  LeastClass
  FitIsGreatest
  PathsAgree
  RoundingIsTight
