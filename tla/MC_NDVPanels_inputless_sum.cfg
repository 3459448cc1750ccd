CONSTANTS
  GridWidths <- MCGridWidths
  GridHeights <- MCGridHeights
  Unit <- MCUnit
  UnitH <- MCUnitH
  IsTouch = FALSE
  MainNodePanelWidth <- MCMainNodePanelWidth
  Configs <- MCInputlessConfigs
  StoredInit <- MCStoredInit
  DragXs <- MCDragXs
  DragYs <- MCDragYs
  ResizeXs <- MCNoResizeXs
  NoNodeType = NoNodeType
  NaN = NaN
  None = None
  Absent = Absent
  MaxSteps = 5
SPECIFICATION Spec
INVARIANTS
  SumWhole
