SPECIFICATION Spec
CONSTANTS
  NoLayer = NoLayer
  NoImage = NoImage
  bg = bg
  op = op
  group = group
  in1 = in1
  mask = mask
  Layers = {bg, group, in1, op, mask}
  Pipelines = {p0}
  Top <- TreeTop
  Sub <- TreeSub
  Imap <- NoLists
  Omap <- TreeOmap
  Inputs <- NoLists
  Choosable <- OpChoices
  Maps = {mask}
  Sources = {bg}
  Settings = {0}
  Levels = {0, 1}
  CanSet = {}
  CanBlend = {}
  CanMask = {op}
  CanHide = {group}
  Targets = {p0}
PROPERTY ForcedIsUpToDate
