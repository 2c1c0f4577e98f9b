SPECIFICATION Spec
CONSTANTS
  Width = 3
  Views <- TwoViews
  Sizes <- SmallAndLarge
  MaxScrolls = 2
INVARIANTS TypeOK CleanIsNew AtRestIsNew
PROPERTIES FrameHolds NeverBack ShowsInTheEnd
