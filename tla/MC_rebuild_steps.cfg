SPECIFICATION Spec
CONSTANTS
  None = None
  N = 3
  P = 2
  Settings = {0, 1}
  Fails <- BadSource
  Locked <- UpperLayers
  MaxEdits = 4
INVARIANTS TypeOK AtRestIsShown
PROPERTIES RebuildsAreAtomic LockedEditsShow
