SPECIFICATION Spec
CONSTANTS
  i1 = i1
  i2 = i2
  p1 = p1
  p2 = p2
  NoImage = NoImage
  NoPipe = NoPipe
  Images <- TwoImages
  Pipelines <- TwoPipelines
  Garbage <- JunkNull
  Ops <- UpdateOps
  Patient = FALSE
  MaxSubmit = 4
INVARIANT RebuildStillComes
