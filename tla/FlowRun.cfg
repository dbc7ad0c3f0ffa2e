SPECIFICATION MCSpec
CONSTANTS
  a = a  b = b  c = c
  s1 = s1  s2 = s2  s3 = s3
  Module = {a, b, c}
  Missing = Missing
  StepName = {s1, s2}
  NoGoto = NoGoto
  EndGoto = EndGoto
  NoCase = NoCase
  MaxConds = 2
  MaxEdges = 3
INVARIANT TypeOK
INVARIANT VerdictIsRight
PROPERTY ImplementsFlowOrder
PROPERTY CancelEnds
CHECK_DEADLOCK FALSE
