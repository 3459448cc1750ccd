CONSTANTS
  GridWidths <- MCVerticalWidths
  GridHeights <- MCVerticalHeights
  Unit <- MCUnit
  UnitH <- MCUnitHVertical
  IsTouch = FALSE
  MainNodePanelWidth <- MCMainNodePanelWidth
  Configs <- MCLayoutConfigs
  StoredInit <- MCStoredInit
  DragXs <- MCDragXs
  DragYs <- MCVerticalDragYs
  ResizeXs <- MCNoResizeXs
  NoNodeType = NoNodeType
  NaN = NaN
  None = None
  Absent = Absent
  MaxSteps = 5
SPECIFICATION Spec
INVARIANTS
  VerticalTopWithinLimits
