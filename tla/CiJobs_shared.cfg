SPECIFICATION Spec
CONSTANTS
  Categories <- MCCategories
  Weight <- MCWeight
  Scope <- MCScope
  Effort <- MCEffort
  Names <- MCNames
  Above <- MCAbove
  Low <- MCLow
  CISurface <- MCSurface
  MaxTime = 2
  Scenarios <- MCScenarios
INVARIANTS GateIsExact HistoryTells StickyShowsLatest RankingIsHonest
CHECK_DEADLOCK FALSE
