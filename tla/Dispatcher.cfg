CONSTANTS
  t1 = t1
  t2 = t2
  Thread = {t1, t2}
  Pass <- Passes
  none = none
  MaxPasses <- TwoAndOne
  MaxRuns = 2
SPECIFICATION MCSpec
CHECK_DEADLOCK FALSE
INVARIANTS TypeOK HeaderFirst DumpsSurvive RowTiedToDumps Timeline
PROPERTY EveryPassReturns
