SPECIFICATION Spec
CONSTANTS
  NoLayer = NoLayer
  NoImage = NoImage
  bg = bg
  op = op
  group = group
  in1 = in1
  mask = mask
  Layers = {bg, group, in1, op, mask}
  Pipelines = {p0}
  Top <- TreeTop
  Sub <- TreeSub
  Imap <- NoLists
  Omap <- TreeOmap
  Inputs <- TreeInputs
  Choosable <- NoChoice
  Maps = {mask}
  Sources = {bg}
  Settings = {0, 1}
  Levels = {0, 1}
  CanSet = {bg, in1, mask}
  CanBlend = {op}
  CanMask = {}
  CanHide = {in1}
  Targets = {}
INVARIANT UpToDate
