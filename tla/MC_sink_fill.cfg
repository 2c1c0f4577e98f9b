SPECIFICATION Spec
CONSTANTS
  r1 = r1
  r2 = r2
  w1 = w1
  w2 = w2
  None = None
  Renders <- TwoRenders
  Positions <- ThreePositions
  Areas <- SomeAreas
  MaxTiles = 2
  Workers <- TwoWorkers
  Closable <- OtherRender
  Failing <- OtherRender
  Changing <- OneRender
  MaxFills = 2
INVARIANTS TypeOK FillIsWhole NeverRefused PaintsAlone FillIsFed FreedIsForgotten
PROPERTY FillEnds
