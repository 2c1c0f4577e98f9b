SPECIFICATION Spec
CONSTANTS
  i1 = i1
  i2 = i2
  p1 = p1
  p2 = p2
  NoImage = NoImage
  NoPipe = NoPipe
  Images <- TwoImages
  Pipelines <- OnePipeline
  Garbage <- JunkNull
  Ops <- SingleOps
  Patient = TRUE
  MaxSubmit = 4
INVARIANTS NoUseAfterDestroy NoLostWakeup
PROPERTY ProcessorStops
