CONSTANTS
  GridWidths <- MCGridWidths2
  GridHeights <- MCGridHeights
  Unit <- MCUnit2
  UnitH <- MCUnitH
  IsTouch = FALSE
  MainNodePanelWidth <- MCMainNodePanelWidth
  Configs <- MCWideConfig
  StoredInit <- MCStoredInit
  DragXs <- MCDragXs
  DragYs <- MCDragYs
  ResizeXs <- MCResizeXs
  NoNodeType = NoNodeType
  NaN = NaN
  None = None
  Absent = Absent
  MaxSteps = 5
SPECIFICATION Spec
PROPERTIES
  FinalResizeSaved
