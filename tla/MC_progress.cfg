SPECIFICATION Spec
CONSTANTS
  i1 = i1
  i2 = i2
  p1 = p1
  p2 = p2
  NoImage = NoImage
  NoPipe = NoPipe
  Images <- OneImage
  Pipelines <- OnePipeline
  Garbage <- JunkNull
  Ops <- WorkOps
  Patient = FALSE
  MaxSubmit = 4
INVARIANT NoLostWakeup
PROPERTIES GuiComesBack RequestsSettle
