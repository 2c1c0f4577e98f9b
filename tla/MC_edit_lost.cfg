SPECIFICATION Spec
CONSTANTS
  None = None
  N = 2
  P = 1
  Settings = {0, 1}
  Fails <- NoFailure
  Locked <- NoLayers
  MaxEdits = 2
INVARIANT EditsShow
