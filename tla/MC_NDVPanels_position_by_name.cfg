CONSTANTS
  GridWidths <- MCGridWidths720
  GridHeights <- MCGridHeights
  Unit <- MCUnit720
  UnitH <- MCUnitH
  IsTouch = FALSE
  MainNodePanelWidth <- MCMainNodePanelWidth
  Configs <- MCWideConfig
  StoredInit <- MCNoStoredInit
  DragXs <- MCDragXs
  DragYs <- MCDragYs
  ResizeXs <- MCNoResizeXs
  NoNodeType = NoNodeType
  NaN = NaN
  None = None
  Absent = Absent
  MaxSteps = 5
SPECIFICATION Spec
INVARIANTS
  PositionByNameIdempotent
