SPECIFICATION Spec
CONSTANTS
  i1 = i1
  i2 = i2
  p1 = p1
  p2 = p2
  NoImage = NoImage
  NoPipe = NoPipe
  Images <- TwoImages
  Pipelines <- NoPipelines
  Garbage <- JunkAny
  Ops <- CloseOps
  Patient = FALSE
  MaxSubmit = 5
INVARIANT QueueForgets
