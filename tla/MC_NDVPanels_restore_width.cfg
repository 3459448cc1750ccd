CONSTANTS
  GridWidths <- MCGridWidths2
  GridHeights <- MCGridHeights
  Unit <- MCUnit2
  UnitH <- MCUnitH
  IsTouch = FALSE
  MainNodePanelWidth <- MCMainNodePanelWidth
  Configs <- MCLayoutConfigs
  StoredInit <- MCStoredSixth
  DragXs <- MCDragXs
  DragYs <- MCDragYs
  ResizeXs <- MCNoResizeXs
  NoNodeType = NoNodeType
  NaN = NaN
  None = None
  Absent = Absent
  MaxSteps = 5
SPECIFICATION Spec
INVARIANTS
  WidthAtLeastMin
