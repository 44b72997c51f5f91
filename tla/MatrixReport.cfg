SPECIFICATION ReportSpec
CONSTANTS
  Missing = Missing
  Cell <- MCCell
  UsesRedis <- MCUsesRedis
  Baseline <- MCBaseline
  MaxRuns = 2
CHECK_DEADLOCK FALSE
INVARIANTS
  MeasuredAsLabelled
  ColdStart
  ListExplained
  BarsExplained
