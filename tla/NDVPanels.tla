------------------------------ MODULE NDVPanels ------------------------------
(***************************************************************************)
(* The drag-resize layout engine of the node detail view, as written in    *)
(* NDVDraggablePanels.vue: one component instance at a time is mounted    *)
(* for the node being edited, reads and writes the per-panel-type         *)
(* geometry of the shared NDV store, persists the main panel's relative   *)
(* width per panel type in localStorage, reacts to app-grid resizes (a    *)
(* watcher), to the drag button (PanelDragButton/Draggable), to the       *)
(* resize wrapper (through a 100 ms useThrottleFn), to setPositionByName   *)
(* on the NDV event bus, and owns two zero-delay timers.                  *)
(*                                                                         *)
(* Relative positions are exact rationals: a relative value r is the       *)
(* integer r * Unit (r * UnitH for heights).  Unit is a multiple of twice  *)
(* every container width, so px / containerWidth and its halves are exact. *)
(* Floating-point rounding is abstracted away.                             *)
(***************************************************************************)
EXTENDS Integers

CONSTANTS
  GridWidths,          \* widths of uiStore.appGridDimensions (px)
  GridHeights,         \* heights of uiStore.appGridDimensions (px)
  Unit,                \* the relative value 1 in width units
  UnitH,               \* the relative value 1 in height units
  IsTouch,             \* 'ontouchstart' in window || maxTouchPoints > 0
  MainNodePanelWidth,  \* MAIN_NODE_PANEL_WIDTH of @/constants (px)
  Configs,             \* the props and slots a mounted instance can get
  StoredInit,          \* localStorage contents at page load, per type
  DragXs, DragYs,      \* pointer positions of drag events (px)
  ResizeXs,            \* pointer positions of resize events (px)
  MaxSteps,            \* bound: geometry-changing events per behaviour
  NoNodeType,          \* props.nodeType === null
  NaN,                 \* parseFloat of a non-numeric stored string
  None,                \* no argument / no pending call
  Absent               \* no localStorage entry

ASSUME GridAssumption ==
  /\ GridWidths \subseteq Nat \ {0} /\ GridWidths # {}
  /\ GridHeights \subseteq Nat \ {0} /\ GridHeights # {}

ASSUME UnitAssumption ==
  Unit \in Nat \ {0} /\ UnitH \in Nat \ {0}

(* Exactness of the relative values: px / containerWidth and its halves    *)
(* are whole numbers of units.                                             *)
ASSUME UnitDivisibility ==
  /\ \A w \in GridWidths : Unit % (2 * w) = 0
  /\ \A h \in GridHeights : UnitH % (2 * h) = 0

PanelTypes == {"regular", "dragless", "unknown", "inputless", "wide"}

Config == [input: BOOLEAN, draggable: BOOLEAN, hide: BOOLEAN,
           pane: {"regular", "wide", NoNodeType}]

ASSUME ConstantsAssumption ==
  /\ IsTouch \in BOOLEAN
  /\ MainNodePanelWidth \in Nat \ {0}
  /\ Configs \subseteq Config /\ Configs # {}
  /\ StoredInit \subseteq Int \cup {NaN, Absent}
  /\ DragXs \subseteq Int /\ DragYs \subseteq Int
  /\ ResizeXs \subseteq Int
  /\ MaxSteps \in Nat

(* The sentinels are not numbers and are told apart.                       *)
ASSUME SentinelAssumption ==
  /\ NaN \notin Int /\ None \notin Int /\ Absent \notin Int
  /\ NaN # None /\ NaN # Absent /\ None # Absent
  /\ NoNodeType \notin {"regular", "wide"}

-----------------------------------------------------------------------------
(* Pixel constants of the component.                                       *)
SIDE_MARGIN == 24
SIDE_PANELS_MARGIN == 80
MIN_PANEL_WIDTH == 310
PANEL_WIDTH == 350
PANEL_WIDTH_LARGE == 420
MIN_WINDOW_WIDTH == 2 * (SIDE_MARGIN + SIDE_PANELS_MARGIN) + MIN_PANEL_WIDTH
TOP_BOTTOM_MARGIN == 24
VERTICAL_PANELS_MARGIN == 60
PANEL_HEIGHT == 250
PANEL_HEIGHT_LARGE == 300

initialMainPanelWidth(t) ==
  IF t = "wide" THEN MainNodePanelWidth * 2 ELSE MainNodePanelWidth

initialMainPanelHeight(t) ==
  IF t = "wide" THEN PANEL_HEIGHT_LARGE ELSE PANEL_HEIGHT

(* A context is what a handler of one instance reads besides the store:    *)
(* its props and slots (cfg) and its containerWidth ref (cw).              *)
pxToRelativeWidth(px, cw) == (px * Unit) \div cw
relativeWidthToPx(r, cw) == (r * cw) \div Unit
pxToRelativeHeight(px, h) == (px * UnitH) \div h

(* JavaScript's  x || y  on a number: 0, NaN and a missing argument are    *)
(* falsy.                                                                  *)
Or(x, y) == IF x \in {0, NaN, None} THEN y ELSE x

currentNodePaneType(c) ==
  IF ~c.input THEN "inputless"
  ELSE IF ~c.draggable THEN "dragless"
  ELSE IF c.pane = NoNodeType THEN "unknown"
  ELSE c.pane

useVerticalLayout(g) == (g.h > g.w /\ IsTouch) \/ g.w < 768

supportedResizeDirections(c) ==
  {"right"} \cup (IF c.draggable THEN {"left"} ELSE {})

inputPanelMargin(ctx) == pxToRelativeWidth(SIDE_PANELS_MARGIN, ctx.cw)

minimumLeftPosition(ctx) ==
  IF ctx.cw < MIN_WINDOW_WIDTH THEN pxToRelativeWidth(1, ctx.cw)
  ELSE IF ~ctx.cfg.input THEN pxToRelativeWidth(SIDE_MARGIN, ctx.cw)
  ELSE pxToRelativeWidth(SIDE_MARGIN + 20, ctx.cw) + inputPanelMargin(ctx)

maximumRightPosition(ctx) ==
  IF ctx.cw < MIN_WINDOW_WIDTH THEN pxToRelativeWidth(1, ctx.cw)
  ELSE pxToRelativeWidth(SIDE_MARGIN + 20, ctx.cw) + inputPanelMargin(ctx)

fixedPanelWidth(ctx) ==
  (IF ctx.cw > 1700 THEN PANEL_WIDTH_LARGE ELSE PANEL_WIDTH)
    * (IF ctx.cfg.pane = "wide" THEN 2 ELSE 1)

(* calculatedPositions.inputPanelRelativeRight                             *)
inputPanelRelativeRight(d, ctx) ==
  IF ctx.cfg.input THEN Unit - (d.left + d.width) + d.width
  ELSE Unit - pxToRelativeWidth(SIDE_MARGIN, ctx.cw)

getInitialLeftPosition(width, ctx) ==
  IF currentNodePaneType(ctx.cfg) = "dragless"
    THEN pxToRelativeWidth(SIDE_MARGIN + 1 + fixedPanelWidth(ctx), ctx.cw)
  ELSE IF ctx.cfg.input
    THEN IF width = NaN THEN NaN ELSE Unit \div 2 - width \div 2
  ELSE minimumLeftPosition(ctx)

(* setMainPanelWidth followed by the store's merge of the one field.       *)
setMainPanelWidth(d, relativeWidth, ctx) ==
  [d EXCEPT !.width =
     Or(relativeWidth,
        pxToRelativeWidth(initialMainPanelWidth(currentNodePaneType(ctx.cfg)), ctx.cw))]

(* Mutant: the maximum-right branch anchors left on the minimum left.     *)
setPositionsWrongAnchor(d, relativeLeft, ctx) ==
  LET mainLeft == Or(relativeLeft, Unit - inputPanelRelativeRight(d, ctx))
      mainRight == Unit - mainLeft - d.width
      minLeft == minimumLeftPosition(ctx)
      maxRight == maximumRightPosition(ctx)
  IN  IF minLeft > mainLeft
        THEN [d EXCEPT !.left = minLeft, !.right = Unit - d.width - minLeft]
      ELSE IF maxRight > mainRight
        THEN [d EXCEPT !.left = minLeft, !.right = maxRight]
      ELSE [d EXCEPT !.left = IF currentNodePaneType(ctx.cfg) = "inputless"
                                THEN minLeft ELSE mainLeft,
                     !.right = mainRight]

(* Mutant: the minimum-left clamp is dropped.                              *)
setPositionsNoMinLeft(d, relativeLeft, ctx) ==
  LET mainLeft == Or(relativeLeft, Unit - inputPanelRelativeRight(d, ctx))
      mainRight == Unit - mainLeft - d.width
      maxRight == maximumRightPosition(ctx)
  IN  IF maxRight > mainRight
        THEN [d EXCEPT !.left = Unit - d.width - maxRight, !.right = maxRight]
      ELSE [d EXCEPT !.left = IF currentNodePaneType(ctx.cfg) = "inputless"
                                THEN minimumLeftPosition(ctx) ELSE mainLeft,
                     !.right = mainRight]

(* setPositions followed by the store's merge of left and right.           *)
setPositions(d, relativeLeft, ctx) ==
  LET mainLeft == Or(relativeLeft, Unit - inputPanelRelativeRight(d, ctx))
      mainRight == Unit - mainLeft - d.width
      minLeft == minimumLeftPosition(ctx)
      maxRight == maximumRightPosition(ctx)
  IN  IF minLeft > mainLeft
        THEN [d EXCEPT !.left = minLeft, !.right = Unit - d.width - minLeft]
      ELSE IF maxRight > mainRight
        THEN [d EXCEPT !.left = Unit - d.width - maxRight, !.right = maxRight]
      ELSE [d EXCEPT !.left = IF currentNodePaneType(ctx.cfg) = "inputless"
                                THEN minLeft ELSE mainLeft,
                     !.right = mainRight]

PositionNames == {"minLeft", "maxRight", "initial"}

setPositionByName(name, d, ctx) ==
  LET target == IF name = "minLeft" THEN minimumLeftPosition(ctx)
                ELSE IF name = "maxRight" THEN maximumRightPosition(ctx)
                ELSE getInitialLeftPosition(d.width, ctx)
  IN  setPositions(d, target, ctx)

(* Mutant: the parsed width is written to the store as it is.            *)
restorePositionDataRaw(d, stored, ctx) ==
  IF stored = Absent THEN d ELSE [d EXCEPT !.width = stored]

(* restorePositionData; stored is parseFloat of the localStorage string.   *)
restorePositionData(d, stored, ctx) ==
  IF stored = Absent THEN d
  ELSE setPositions(setMainPanelWidth(d, stored, ctx),
                    getInitialLeftPosition(stored, ctx), ctx)

(* The body of onMounted on a geometry still at the store's default.       *)
mountedGeometry(d, stored, ctx) ==
  LET d1 == setMainPanelWidth(d, None, ctx)
      d2 == setPositions(d1, getInitialLeftPosition(d1.width, ctx), ctx)
  IN  restorePositionData(d2, stored, ctx)

(* The app-grid watcher after containerWidth has been updated.             *)
watchGeometry(d, ctx, gridWidth) ==
  LET minRelativeWidth == pxToRelativeWidth(MIN_PANEL_WIDTH, ctx.cw)
      d1 == IF d.width < minRelativeWidth
              THEN setMainPanelWidth(d, minRelativeWidth, ctx) ELSE d
      isBelowMinLeft == minimumLeftPosition(ctx) > d1.left
      isMaxRight == maximumRightPosition(ctx) > d1.right
      d3 == setMainPanelWidth(d1, minRelativeWidth, ctx)
      d2 == IF gridWidth > MIN_WINDOW_WIDTH /\ isBelowMinLeft /\ isMaxRight
              THEN setPositions(d3, getInitialLeftPosition(d3.width, ctx), ctx)
              ELSE d1
  IN  setPositions(d2, d2.left, ctx)

(* onResize passes its three early returns.                                *)
onResizeAccepts(data, ctx) ==
  LET relativeDistance == pxToRelativeWidth(data.x, ctx.cw)
  IN  /\ ~(data.direction = "left" /\ relativeDistance <= minimumLeftPosition(ctx))
      /\ ~(data.direction = "right" /\ Unit - relativeDistance <= maximumRightPosition(ctx))
      /\ ~(data.width <= MIN_PANEL_WIDTH)

(* onResize on the data of one resize-wrapper event.                       *)
onResize(d, data, ctx) ==
  LET relativeDistance == pxToRelativeWidth(data.x, ctx.cw)
      relativeWidth == pxToRelativeWidth(data.width, ctx.cw)
      d1 == setMainPanelWidth(d, relativeWidth, ctx)
  IN  IF ~onResizeAccepts(data, ctx)
        THEN d
        ELSE setPositions(d1, IF data.direction = "left"
                                THEN relativeDistance ELSE d1.left, ctx)

(* The event of the resize wrapper (N8nResizeWrapper, not under src/): the *)
(* pointer x is on the dragged edge and width is its distance from the    *)
(* opposite edge.                                                          *)
resizeEvent(d, direction, x, cw) ==
  [direction |-> direction, x |-> x,
   width |-> IF direction = "right" THEN x - relativeWidthToPx(d.left, cw)
             ELSE relativeWidthToPx(Unit - d.right, cw) - x]

setVerticalPositions(relativeTop, t, h) ==
  LET minTop == pxToRelativeHeight(TOP_BOTTOM_MARGIN + PANEL_HEIGHT + VERTICAL_PANELS_MARGIN, h)
      maxTop == UnitH
                - pxToRelativeHeight(TOP_BOTTOM_MARGIN + PANEL_HEIGHT + VERTICAL_PANELS_MARGIN, h)
                - pxToRelativeHeight(initialMainPanelHeight(t), h)
      capped == IF maxTop < relativeTop THEN maxTop ELSE relativeTop
  IN  IF minTop > capped THEN minTop ELSE capped

(* calculatedVerticalPositions.mainPanelRelativeTop: below the top margin, *)
(* the input band (none without an input slot) and the panel margin.       *)
mainPanelRelativeTop(c, h) ==
  pxToRelativeHeight(TOP_BOTTOM_MARGIN, h)
    + (IF c.input THEN pxToRelativeHeight(PANEL_HEIGHT, h) ELSE 0)
    + pxToRelativeHeight(VERTICAL_PANELS_MARGIN, h)

-----------------------------------------------------------------------------
VARIABLES
  grid,            \* uiStore.appGridDimensions
  mounted,         \* a NDVDraggablePanels instance is mounted
  cfg,             \* its props and slots
  containerWidth,  \* its containerWidth ref
  dims,            \* ndvStore.mainPanelDimensions, per panel type
  storage,         \* localStorage LOCAL_STORAGE_MAIN_PANEL_RELATIVE_WIDTH_<type>
  initialized,     \* its initialized ref
  initTimer,       \* the setTimeout(0) of onMounted is pending
  isDragging,      \* its isDragging ref
  dragEndTimer,    \* the setTimeout(0) of onDragEnd is pending
  throttleOpen,    \* useThrottleFn(onResize, 100): its last call was < 100 ms ago
  verticalTop,     \* its mainPanelVerticalPosition ref
  dragging,        \* the Draggable of the drag button is in a gesture
  resizing,        \* the resize wrapper is in a gesture
  lastResize,      \* history: the gesture's latest event onResize accepts
  steps            \* model bound: window resizes, moves and bus calls so far

vars == <<grid, mounted, cfg, containerWidth, dims, storage, initialized,
          initTimer, isDragging, dragEndTimer, throttleOpen, verticalTop,
          dragging, resizing, lastResize, steps>>

Ctx == [cfg |-> cfg, cw |-> containerWidth]
paneType == currentNodePaneType(cfg)

(* verticalMainPanelStyles: the dragged top, or the default while it is 0. *)
renderedTop == Or(verticalTop, mainPanelRelativeTop(cfg, grid.h))

Geometry == [left: Int, width: Int, right: Int]
Sentinel == [left |-> Unit, width |-> Unit, right |-> Unit]
ResizeData == [direction: {"left", "right"}, width: Int, x: ResizeXs]
Context == [cfg: Configs, cw: GridWidths]

ConfigTypes == {currentNodePaneType(c) : c \in Configs}

(* The value the instance refs are given while no instance exists.         *)
NoInstance == CHOOSE c \in Configs : TRUE

Init ==
  /\ grid \in [w: GridWidths, h: GridHeights]
  /\ mounted = FALSE
  /\ cfg = NoInstance
  /\ containerWidth = grid.w
  /\ dims = [t \in PanelTypes |-> Sentinel]
  /\ storage \in {s \in [PanelTypes -> StoredInit \cup {Absent}] :
                    \A t \in PanelTypes \ ConfigTypes : s[t] = Absent}
  /\ initialized = FALSE
  /\ initTimer = FALSE
  /\ isDragging = FALSE
  /\ dragEndTimer = FALSE
  /\ throttleOpen = FALSE
  /\ verticalTop = 0
  /\ dragging = FALSE
  /\ resizing = FALSE
  /\ lastResize = None
  /\ steps = 0

(* Model bound: at most MaxSteps window resizes, pointer moves and bus     *)
(* calls in a behaviour.                                                   *)
CountStep == steps < MaxSteps /\ steps' = steps + 1

(* Setup and onMounted of a new instance for node configuration c.  The    *)
(* geometry is initialised (and restored) only when it is still at the    *)
(* store default {relativeLeft: 1, relativeRight: 1}.                      *)
Mount(c) ==
  LET ctx == [cfg |-> c, cw |-> grid.w]
      t == currentNodePaneType(c)
  IN  /\ ~mounted
      /\ mounted' = TRUE
      /\ cfg' = c
      /\ containerWidth' = grid.w
      /\ dims' = [dims EXCEPT ![t] =
                    IF @.left = Unit /\ @.right = Unit
                      THEN mountedGeometry(@, storage[t], ctx) ELSE @]
      /\ initTimer' = TRUE
      /\ UNCHANGED <<steps, grid, storage, initialized, isDragging, dragEndTimer,
                     throttleOpen, verticalTop, dragging, resizing, lastResize>>

(* The instance is unmounted: onBeforeUnmount removes the bus listener,    *)
(* the grid watcher goes with the instance, and so do its refs, its        *)
(* zero-delay timers and its throttle (useThrottleFn arms no timer for a   *)
(* leading-edge call); its gestures end.                                   *)
Unmount ==
  /\ mounted
  /\ mounted' = FALSE
  /\ throttleOpen' = FALSE
  /\ initialized' = FALSE
  /\ initTimer' = FALSE
  /\ isDragging' = FALSE
  /\ dragEndTimer' = FALSE
  /\ verticalTop' = 0
  /\ dragging' = FALSE
  /\ resizing' = FALSE
  /\ lastResize' = None
  /\ cfg' = NoInstance
  /\ UNCHANGED <<steps, grid, containerWidth, dims, storage>>

(* setTimeout(() => initialized = true, 0) of onMounted.                   *)
InitTimerFires ==
  /\ initTimer
  /\ initialized' = TRUE
  /\ initTimer' = FALSE
  /\ UNCHANGED <<steps, grid, mounted, cfg, containerWidth, dims, storage, isDragging,
                 dragEndTimer, throttleOpen, verticalTop, dragging, resizing,
                 lastResize>>

(* The app grid changes size; a mounted instance's watcher refits.  The   *)
(* #ndv element is taken to span the grid, so containerWidth becomes w.   *)
(* The refit supersedes the gesture's earlier events (history only).      *)
WindowResize(w, h) ==
  /\ grid' = [w |-> w, h |-> h]
  /\ CountStep
  /\ containerWidth' = w
  /\ IF mounted
       THEN dims' = [dims EXCEPT ![paneType] =
                       watchGeometry(@, [cfg |-> cfg, cw |-> w], w)]
       ELSE UNCHANGED dims
  /\ lastResize' = None
  /\ UNCHANGED <<mounted, cfg, storage, initialized, initTimer, isDragging,
                 dragEndTimer, throttleOpen, verticalTop, dragging, resizing>>

(* onDragStart: the drag button exists only when input and output are      *)
(* shown and the panel is draggable.                                       *)
DragStart ==
  /\ mounted /\ ~dragging /\ ~resizing
  /\ ~cfg.hide /\ cfg.draggable
  /\ dragging' = TRUE
  /\ isDragging' = TRUE
  /\ UNCHANGED <<steps, grid, mounted, cfg, containerWidth, dims, storage, initialized,
                 initTimer, dragEndTimer, throttleOpen, verticalTop, resizing,
                 lastResize>>

(* onDrag at pointer (x, y).                                               *)
Drag(x, y) ==
  /\ dragging
  /\ CountStep
  /\ IF useVerticalLayout(grid)
       THEN /\ verticalTop' =
                 setVerticalPositions(
                   pxToRelativeHeight(y, grid.h)
                     - pxToRelativeHeight(initialMainPanelHeight(paneType), grid.h) \div 2,
                   paneType, grid.h)
            /\ UNCHANGED dims
       ELSE /\ dims' = [dims EXCEPT ![paneType] =
                          setPositions(@, pxToRelativeWidth(x, containerWidth)
                                            - @.width \div 2, Ctx)]
            /\ UNCHANGED verticalTop
  /\ UNCHANGED <<grid, mounted, cfg, containerWidth, storage, initialized,
                 initTimer, isDragging, dragEndTimer, throttleOpen,
                 dragging, resizing, lastResize>>

(* Mutant: storePositionData saves relativeLeft instead of relativeWidth.  *)
DragEndSavesLeft ==
  /\ dragging
  /\ dragging' = FALSE
  /\ dragEndTimer' = TRUE
  /\ storage' = [storage EXCEPT ![paneType] = dims[paneType].left]
  /\ UNCHANGED <<steps, grid, mounted, cfg, containerWidth, dims, initialized,
                 initTimer, isDragging, throttleOpen, verticalTop, resizing,
                 lastResize>>

(* onDragEnd: the width is saved at once, isDragging is cleared later.     *)
DragEnd ==
  /\ dragging
  /\ dragging' = FALSE
  /\ dragEndTimer' = TRUE
  /\ storage' = [storage EXCEPT ![paneType] = dims[paneType].width]
  /\ UNCHANGED <<steps, grid, mounted, cfg, containerWidth, dims, initialized,
                 initTimer, isDragging, throttleOpen, verticalTop, resizing,
                 lastResize>>

(* The setTimeout(0) of onDragEnd: isDragging = false, emit dragend.       *)
DragEndTimerFires ==
  /\ dragEndTimer
  /\ dragEndTimer' = FALSE
  /\ isDragging' = FALSE
  /\ UNCHANGED <<steps, grid, mounted, cfg, containerWidth, dims, storage, initialized,
                 initTimer, throttleOpen, verticalTop, dragging, resizing,
                 lastResize>>

(* The resize wrapper starts a gesture; it is enabled unless the panel     *)
(* type is unknown.                                                        *)
ResizeStart ==
  /\ mounted /\ ~dragging /\ ~resizing
  /\ paneType # "unknown"
  /\ resizing' = TRUE
  /\ UNCHANGED <<steps, grid, mounted, cfg, containerWidth, dims, storage, initialized,
                 initTimer, isDragging, dragEndTimer, throttleOpen,
                 verticalTop, dragging, lastResize>>

(* onResizeThrottle: a resize event, dropped until initialized.  Otherwise *)
(* useThrottleFn(onResize, 100), leading edge and no trailing call: run at *)
(* once when 100 ms have passed since its last call, dropped inside the    *)
(* window.  lastResize records the event when onResize would accept it.    *)
ResizeMove(direction, x) ==
  LET data == resizeEvent(dims[paneType], direction, x, containerWidth)
  IN  /\ resizing /\ initialized
      /\ CountStep
      /\ direction \in supportedResizeDirections(cfg)
      /\ IF throttleOpen
           THEN UNCHANGED <<dims, throttleOpen>>
           ELSE /\ throttleOpen' = TRUE
                /\ dims' = [dims EXCEPT ![paneType] = onResize(@, data, Ctx)]
      /\ lastResize' = IF onResizeAccepts(data, Ctx) THEN data ELSE lastResize
      /\ UNCHANGED <<grid, mounted, cfg, containerWidth, storage, initialized,
                     initTimer, isDragging, dragEndTimer, verticalTop,
                     dragging, resizing>>

(* 100 ms pass after the throttle's last call: the next call runs at once. *)
ThrottleExpire ==
  /\ throttleOpen
  /\ throttleOpen' = FALSE
  /\ UNCHANGED <<steps, grid, mounted, cfg, containerWidth, dims, storage, initialized,
                 initTimer, isDragging, dragEndTimer, verticalTop,
                 dragging, resizing, lastResize>>

(* Mutant: storePositionData saves relativeLeft instead of relativeWidth.  *)
ResizeEndSavesLeft ==
  /\ resizing
  /\ resizing' = FALSE
  /\ storage' = [storage EXCEPT ![paneType] = dims[paneType].left]
  /\ lastResize' = None
  /\ UNCHANGED <<steps, grid, mounted, cfg, containerWidth, dims, initialized,
                 initTimer, isDragging, dragEndTimer, throttleOpen,
                 verticalTop, dragging>>

(* onResizeEnd: storePositionData.                                         *)
ResizeEnd ==
  /\ resizing
  /\ resizing' = FALSE
  /\ storage' = [storage EXCEPT ![paneType] = dims[paneType].width]
  /\ lastResize' = None
  /\ UNCHANGED <<steps, grid, mounted, cfg, containerWidth, dims, initialized,
                 initTimer, isDragging, dragEndTimer, throttleOpen,
                 verticalTop, dragging>>

(* setPositionByName, called through ndvEventBus while mounted.            *)
SetPositionByName(name) ==
  /\ mounted
  /\ CountStep
  /\ dims' = [dims EXCEPT ![paneType] = setPositionByName(name, @, Ctx)]
  /\ UNCHANGED <<grid, mounted, cfg, containerWidth, storage, initialized,
                 initTimer, isDragging, dragEndTimer, throttleOpen,
                 verticalTop, dragging, resizing, lastResize>>

Next ==
  \/ \E c \in Configs : Mount(c)
  \/ Unmount
  \/ InitTimerFires
  \/ \E w \in GridWidths, h \in GridHeights : WindowResize(w, h)
  \/ DragStart
  \/ \E x \in DragXs, y \in DragYs : Drag(x, y)
  \/ DragEnd
  \/ DragEndTimerFires
  \/ ResizeStart
  \/ \E direction \in {"left", "right"}, x \in ResizeXs :
       ResizeMove(direction, x)
  \/ ThrottleExpire
  \/ ResizeEnd
  \/ \E name \in PositionNames : SetPositionByName(name)

(* Browser timers fire: each pending setTimeout eventually runs.           *)
Fairness ==
  /\ WF_vars(InitTimerFires)
  /\ WF_vars(DragEndTimerFires)

Spec == Init /\ [][Next]_vars /\ Fairness

-----------------------------------------------------------------------------
(* Type correctness: in particular no NaN read from localStorage ever      *)
(* reaches the store, because setMainPanelWidth and setPositions fall back *)
(* through ||.                                                             *)
TypeOK ==
  /\ grid \in [w: GridWidths, h: GridHeights]
  /\ mounted \in BOOLEAN
  /\ cfg \in Configs
  /\ containerWidth \in GridWidths
  /\ dims \in [PanelTypes -> Geometry]
  /\ storage \in [PanelTypes -> Int \cup {NaN, Absent}]
  /\ initialized \in BOOLEAN
  /\ initTimer \in BOOLEAN
  /\ isDragging \in BOOLEAN
  /\ dragEndTimer \in BOOLEAN
  /\ throttleOpen \in BOOLEAN
  /\ verticalTop \in Int
  /\ dragging \in BOOLEAN
  /\ resizing \in BOOLEAN
  /\ lastResize \in ResizeData \cup {None}
  /\ steps \in 0..MaxSteps

(* The main panel of every panel type, once positioned, tiles the          *)
(* container: relativeLeft + relativeWidth + relativeRight = 1, through    *)
(* mount, restore, window refits, drags, resizes and snaps                 *)
(* (spec 3: the sum invariant holds at all times).                         *)
SumWhole ==
  \A t \in PanelTypes :
    dims[t] = Sentinel \/ dims[t].left + dims[t].width + dims[t].right = Unit

InBounds(d, ctx) ==
  d.left >= minimumLeftPosition(ctx) /\ d.right >= maximumRightPosition(ctx)

Fits(d, ctx) ==
  d.width <= Unit - minimumLeftPosition(ctx) - maximumRightPosition(ctx)

(* Every geometry a handler of the mounted instance writes for its panel   *)
(* (mount, watcher refit, drag, resize, setPositionByName) leaves the      *)
(* panel between minimumLeftPosition and maximumRightPosition whenever its *)
(* width fits between the two.                                             *)
BoundsWhenFit ==
  [][ (/\ mounted'
       /\ dims'[paneType'] # dims[paneType']
       /\ Fits(dims'[paneType'], Ctx'))
      => InBounds(dims'[paneType'], Ctx') ]_vars

(* The width onResizeEnd saves is the one the gesture's last resize event *)
(* asked for: when the resize wrapper reports the end, the latest event    *)
(* onResize accepts since the gesture began (or since the last window     *)
(* refit) has been applied, not dropped (spec 4.4: movement between        *)
(* throttle ticks is coalesced, not dropped, and the final width is        *)
(* persisted).                                                             *)
FinalResizeSaved ==
  [][ResizeEnd /\ lastResize # None
       => storage'[paneType] = pxToRelativeWidth(lastResize.width, containerWidth)]_vars

(* setPositionByName is idempotent: snapping the mounted panel twice to    *)
(* the same named position gives the geometry of snapping once (spec 8).   *)
PositionByNameIdempotent ==
  mounted =>
    \A name \in PositionNames :
      LET d1 == setPositionByName(name, dims[paneType], Ctx)
      IN  setPositionByName(name, d1, Ctx) = d1


(* A geometry a reopened NDV shows is refitted to the current window: when *)
(* onMounted finds its panel type already positioned (not at the {1,1}    *)
(* sentinel) it keeps that geometry, and the geometry lies between the     *)
(* margins of the current container whenever it fits (spec 4.2: no stale  *)
(* geometry is left after a viewport resize).                              *)
RemountWithinBounds ==
  [][ (/\ ~mounted /\ mounted'
       /\ Fits(dims'[paneType'], Ctx'))
      => InBounds(dims'[paneType'], Ctx') ]_vars

(* The main panel of the mounted instance is never narrower than         *)
(* MIN_PANEL_WIDTH of its current container: a relative width restored    *)
(* from localStorage (saved in another session, at another window width)  *)
(* is clamped like every other width (spec 2: setWidth always clamps the   *)
(* width to the minimum pixel width of the current viewport).             *)
WidthAtLeastMin ==
  mounted =>
    dims[paneType].width >= pxToRelativeWidth(MIN_PANEL_WIDTH, containerWidth)

(* The top the main panel is drawn at in the vertical layout, the dragged  *)
(* one or the computed default, lies where setVerticalPositions clamps a   *)
(* top for the current window height and panel type: below the input band *)
(* and above the output band (spec 4.2 and 4.3, vertical equivalents).     *)
VerticalTopWithinLimits ==
  (mounted /\ useVerticalLayout(grid)) =>
    setVerticalPositions(renderedTop, paneType, grid.h) = renderedTop


-----------------------------------------------------------------------------
(* The abstract layout store of NDVLayoutStore, seen through this model:  *)
(* the store is ndvStore.mainPanelDimensions and the saved widths are      *)
(* localStorage.                                                           *)
LayoutStore == INSTANCE NDVLayoutStore
                 WITH store <- dims, saved <- storage,
                      Stored <- StoredInit \cup {Absent}

(* The engine implements the abstract layout store: every handler, timer  *)
(* or resize that writes mainPanelDimensions leaves the written panel type *)
(* tiling the container, and onDragEnd and onResizeEnd                     *)
(* (storePositionData) persist the current width of a positioned type,     *)
(* never the sentinel's, and never in the step that moves the panel        *)
(* (spec 2 ownership, spec 9 invariant-preserving setters).                *)
LayoutStoreRefined == LayoutStore!Spec

=============================================================================
