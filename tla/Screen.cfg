SPECIFICATION ScreenSpec
CONSTANTS
  Hosts = {1, 2, 3}
  Figures = {0, 2}
  NoFigure = NoFigure
  NoHost = NoHost
  Page = 2
  Viewports = {0, 1, 2, 3, 4, 5}
  ScrollSize = 6
  Terminals <- MCTerminals
  NameLength <- MCNameLength
  NoAck = {2}
  LocalOnly = {3}
  Slots = 4
  FieldLines = 1
INVARIANTS
  HighlightIsThere
  PromptOverBareScreen
  NothingUnpainted
  HighlightOnScreen
  BandKeepsItsPlace
  RowFits
  DetailReachesEnd
  FooterTellsTheTruth
PROPERTIES
  DownGoesDown
CHECK_DEADLOCK FALSE
