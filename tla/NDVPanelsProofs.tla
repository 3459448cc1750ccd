--------------------------- MODULE NDVPanelsProofs ---------------------------
(***************************************************************************)
(* Proofs about the NDV panel engine of NDVPanels, for every value of the  *)
(* constants allowed by the module's assumptions: the type invariant, and  *)
(* that the main panel of every panel type tiles the container (left +     *)
(* width + right = 1) whenever every node configuration has an input slot. *)
(***************************************************************************)
EXTENDS NDVPanels, TLAPS

USE GridAssumption, UnitAssumption, ConstantsAssumption, SentinelAssumption

NumOrNaN == Int \cup {NaN}

(* A geometry tiles the container.                                         *)
Tiles(e) == e.left + e.width + e.right = Unit

-----------------------------------------------------------------------------
(* Lemmas on the helpers of NDVDraggablePanels.vue.                        *)

(* A pixel length converted against a container width is an integer      *)
(* number of units.                                                        *)
LEMMA PxToRelativeInt ==
  ASSUME NEW px \in Int, NEW cw \in Nat \ {0}
  PROVE  pxToRelativeWidth(px, cw) \in Int
BY DEF pxToRelativeWidth

(* The component's contexts have a positive width and a configuration.    *)
LEMMA ContextFacts ==
  ASSUME NEW ctx \in Context
  PROVE  /\ ctx.cw \in Nat \ {0}
         /\ ctx.cfg \in Config
BY Zenon DEF Context

(* The || fallback of a number, NaN or nothing onto a number is a number.  *)
LEMMA OrInt ==
  ASSUME NEW x \in Int \cup {NaN, None}, NEW y \in Int
  PROVE  Or(x, y) \in Int
BY DEF Or

(* The panel type of a configuration is one of the five store keys.       *)
LEMMA PaneTypeInPanelTypes ==
  ASSUME NEW c \in Config
  PROVE  currentNodePaneType(c) \in PanelTypes
BY DEF currentNodePaneType, PanelTypes, Config

(* The two bounds of the main panel are integers.                          *)
LEMMA BoundsInt ==
  ASSUME NEW ctx \in Context
  PROVE  /\ minimumLeftPosition(ctx) \in Int
         /\ maximumRightPosition(ctx) \in Int
<1>1. ctx.cw \in Nat \ {0}
  BY ContextFacts
<1>2. /\ pxToRelativeWidth(1, ctx.cw) \in Int
      /\ pxToRelativeWidth(SIDE_MARGIN, ctx.cw) \in Int
      /\ pxToRelativeWidth(SIDE_MARGIN + 20, ctx.cw) \in Int
      /\ inputPanelMargin(ctx) \in Int
  BY <1>1 DEF pxToRelativeWidth, SIDE_MARGIN, inputPanelMargin, SIDE_PANELS_MARGIN
<1>. QED
  BY <1>2 DEF minimumLeftPosition, maximumRightPosition

(* getInitialLeftPosition gives a number, or NaN when the width is NaN.    *)
LEMMA InitialLeftType ==
  ASSUME NEW w \in NumOrNaN, NEW ctx \in Context
  PROVE  getInitialLeftPosition(w, ctx) \in NumOrNaN
<1>1. ctx.cw \in Nat \ {0}
  BY ContextFacts
<1>2. fixedPanelWidth(ctx) \in Int
  BY DEF fixedPanelWidth, PANEL_WIDTH, PANEL_WIDTH_LARGE
<1>3. pxToRelativeWidth(SIDE_MARGIN + 1 + fixedPanelWidth(ctx), ctx.cw) \in Int
  BY <1>1, <1>2 DEF pxToRelativeWidth, SIDE_MARGIN
<1>4. minimumLeftPosition(ctx) \in Int
  BY BoundsInt
<1>5. w # NaN => Unit \div 2 - w \div 2 \in Int
  BY DEF NumOrNaN
<1>. QED
  BY <1>3, <1>4, <1>5 DEF getInitialLeftPosition, NumOrNaN

(* setMainPanelWidth keeps a geometry a geometry, whatever it is given.    *)
LEMMA SetMainPanelWidthType ==
  ASSUME NEW d \in Geometry, NEW w \in Int \cup {NaN, None}, NEW ctx \in Context
  PROVE  setMainPanelWidth(d, w, ctx) \in Geometry
<1>1. ctx.cw \in Nat \ {0}
  BY ContextFacts
<1>2. pxToRelativeWidth(initialMainPanelWidth(currentNodePaneType(ctx.cfg)), ctx.cw) \in Int
  BY <1>1 DEF pxToRelativeWidth, initialMainPanelWidth
<1>3. Or(w, pxToRelativeWidth(initialMainPanelWidth(currentNodePaneType(ctx.cfg)), ctx.cw)) \in Int
  BY <1>2, OrInt
<1>. QED
  BY <1>3 DEF setMainPanelWidth, Geometry

(* The left edge setPositions starts from is a number, for a left that is  *)
(* a number, NaN or missing.                                               *)
LEMMA MainLeftInt ==
  ASSUME NEW d \in Geometry, NEW r \in Int \cup {NaN, None}, NEW ctx \in Context
  PROVE  Or(r, Unit - inputPanelRelativeRight(d, ctx)) \in Int
<1>1. ctx.cw \in Nat \ {0}
  BY ContextFacts
<1>2. inputPanelRelativeRight(d, ctx) \in Int
  BY <1>1 DEF inputPanelRelativeRight, pxToRelativeWidth, SIDE_MARGIN, Geometry
<1>. QED
  BY <1>2, OrInt

(* The three outcomes of setPositions, by the case of the code they come  *)
(* from, with the LET of the definition named.                             *)
LEMMA SetPositionsCases ==
  ASSUME NEW d \in Geometry, NEW r \in Int \cup {NaN, None}, NEW ctx \in Context
  PROVE  LET mainLeft == Or(r, Unit - inputPanelRelativeRight(d, ctx))
             mainRight == Unit - mainLeft - d.width
             minLeft == minimumLeftPosition(ctx)
             maxRight == maximumRightPosition(ctx)
             e == setPositions(d, r, ctx)
         IN  /\ mainLeft \in Int /\ minLeft \in Int /\ maxRight \in Int
             /\ e.width = d.width
             /\ minLeft > mainLeft =>
                  e = [left |-> minLeft, width |-> d.width,
                       right |-> Unit - d.width - minLeft]
             /\ ~(minLeft > mainLeft) /\ maxRight > mainRight =>
                  e = [left |-> Unit - d.width - maxRight, width |-> d.width,
                       right |-> maxRight]
             /\ ~(minLeft > mainLeft) /\ ~(maxRight > mainRight) =>
                  e = [left |-> IF currentNodePaneType(ctx.cfg) = "inputless"
                                  THEN minLeft ELSE mainLeft,
                       width |-> d.width, right |-> mainRight]
<1> DEFINE mainLeft == Or(r, Unit - inputPanelRelativeRight(d, ctx))
           mainRight == Unit - mainLeft - d.width
           minLeft == minimumLeftPosition(ctx)
           maxRight == maximumRightPosition(ctx)
           e == setPositions(d, r, ctx)
<1>1. mainLeft \in Int
  BY MainLeftInt
<1>2. minLeft \in Int /\ maxRight \in Int
  BY BoundsInt
<1>3. d = [left |-> d.left, width |-> d.width, right |-> d.right]
  BY DEF Geometry
<1>4. e = IF minLeft > mainLeft
            THEN [d EXCEPT !.left = minLeft, !.right = Unit - d.width - minLeft]
          ELSE IF maxRight > mainRight
            THEN [d EXCEPT !.left = Unit - d.width - maxRight, !.right = maxRight]
          ELSE [d EXCEPT !.left = IF currentNodePaneType(ctx.cfg) = "inputless"
                                    THEN minLeft ELSE mainLeft,
                         !.right = mainRight]
  BY DEF setPositions
<1>. QED
  BY <1>1, <1>2, <1>3, <1>4, Zenon

(* setPositions keeps a geometry a geometry.                               *)
LEMMA SetPositionsType ==
  ASSUME NEW d \in Geometry, NEW r \in Int \cup {NaN, None}, NEW ctx \in Context
  PROVE  setPositions(d, r, ctx) \in Geometry
<1>1. d.width \in Int
  BY DEF Geometry
<1>. QED
  BY <1>1, SetPositionsCases DEF Geometry

(* Away from inputless panels, setPositions makes the panel tile the       *)
(* container, whatever geometry and left it starts from.                   *)
LEMMA SetPositionsSum ==
  ASSUME NEW d \in Geometry, NEW r \in Int \cup {NaN, None}, NEW ctx \in Context,
         ctx.cfg.input
  PROVE  Tiles(setPositions(d, r, ctx))
<1>1. d.width \in Int
  BY DEF Geometry
<1>2. currentNodePaneType(ctx.cfg) # "inputless"
  BY ContextFacts DEF currentNodePaneType, Config
<1>. QED
  BY <1>1, <1>2, SetPositionsCases DEF Tiles

(* setPositionByName, for each of its three names.                        *)
LEMMA SetPositionByNameFacts ==
  ASSUME NEW name \in PositionNames, NEW d \in Geometry, NEW ctx \in Context
  PROVE  /\ setPositionByName(name, d, ctx) \in Geometry
         /\ ctx.cfg.input => Tiles(setPositionByName(name, d, ctx))
<1>1. minimumLeftPosition(ctx) \in Int /\ maximumRightPosition(ctx) \in Int
  BY BoundsInt
<1>2. getInitialLeftPosition(d.width, ctx) \in NumOrNaN
  BY InitialLeftType DEF Geometry, NumOrNaN
<1> DEFINE target == IF name = "minLeft" THEN minimumLeftPosition(ctx)
                     ELSE IF name = "maxRight" THEN maximumRightPosition(ctx)
                     ELSE getInitialLeftPosition(d.width, ctx)
<1>3. target \in Int \cup {NaN, None}
  BY <1>1, <1>2 DEF NumOrNaN
<1>4. setPositionByName(name, d, ctx) = setPositions(d, target, ctx)
  BY DEF setPositionByName
<1>5. setPositions(d, target, ctx) \in Geometry
  BY <1>3, SetPositionsType, Zenon
<1>6. ctx.cfg.input => Tiles(setPositions(d, target, ctx))
  BY <1>3, SetPositionsSum, Zenon
<1>. QED
  BY <1>4, <1>5, <1>6

(* restorePositionData: a geometry stays one; it tiles when it did, or     *)
(* whenever a value was stored.                                            *)
LEMMA RestoreFacts ==
  ASSUME NEW d \in Geometry, NEW stored \in Int \cup {NaN, Absent},
         NEW ctx \in Context
  PROVE  /\ restorePositionData(d, stored, ctx) \in Geometry
         /\ ctx.cfg.input /\ (stored = Absent => Tiles(d))
              => Tiles(restorePositionData(d, stored, ctx))
<1>1. CASE stored = Absent
  BY <1>1 DEF restorePositionData
<1>2. CASE stored # Absent
  <2>1. stored \in Int \cup {NaN, None} /\ stored \in NumOrNaN
    BY <1>2 DEF NumOrNaN
  <2>2. setMainPanelWidth(d, stored, ctx) \in Geometry
    BY <2>1, SetMainPanelWidthType
  <2>3. getInitialLeftPosition(stored, ctx) \in Int \cup {NaN, None}
    BY <2>1, InitialLeftType DEF NumOrNaN
  <2>4. restorePositionData(d, stored, ctx)
          = setPositions(setMainPanelWidth(d, stored, ctx),
                         getInitialLeftPosition(stored, ctx), ctx)
    BY <1>2 DEF restorePositionData
  <2> DEFINE e == setPositions(setMainPanelWidth(d, stored, ctx),
                                getInitialLeftPosition(stored, ctx), ctx)
  <2>5. e \in Geometry
    BY <2>2, <2>3, SetPositionsType, Zenon
  <2>6. ctx.cfg.input => Tiles(e)
    BY <2>2, <2>3, SetPositionsSum, Zenon
  <2>. QED
    BY <2>4, <2>5, <2>6
<1>. QED
  BY <1>1, <1>2

(* The body of onMounted leaves a tiling geometry.                         *)
LEMMA MountedGeometryFacts ==
  ASSUME NEW d \in Geometry, NEW stored \in Int \cup {NaN, Absent},
         NEW ctx \in Context
  PROVE  /\ mountedGeometry(d, stored, ctx) \in Geometry
         /\ ctx.cfg.input => Tiles(mountedGeometry(d, stored, ctx))
<1> DEFINE d1 == setMainPanelWidth(d, None, ctx)
           d2 == setPositions(d1, getInitialLeftPosition(d1.width, ctx), ctx)
<1>1. d1 \in Geometry
  BY SetMainPanelWidthType, Zenon
<1>2. getInitialLeftPosition(d1.width, ctx) \in Int \cup {NaN, None}
  BY <1>1, InitialLeftType DEF Geometry, NumOrNaN
<1>3. d2 \in Geometry /\ (ctx.cfg.input => Tiles(d2))
  BY <1>1, <1>2, SetPositionsType, SetPositionsSum, Zenon
<1>4. mountedGeometry(d, stored, ctx) = restorePositionData(d2, stored, ctx)
  BY DEF mountedGeometry
<1>. QED
  BY <1>3, <1>4, RestoreFacts

(* The app-grid watcher ends in setPositions.                              *)
LEMMA WatchGeometryFacts ==
  ASSUME NEW d \in Geometry, NEW ctx \in Context, NEW w \in Int
  PROVE  /\ watchGeometry(d, ctx, w) \in Geometry
         /\ ctx.cfg.input => Tiles(watchGeometry(d, ctx, w))
<1> DEFINE minRelativeWidth == pxToRelativeWidth(MIN_PANEL_WIDTH, ctx.cw)
           d1 == IF d.width < minRelativeWidth
                   THEN setMainPanelWidth(d, minRelativeWidth, ctx) ELSE d
           d3 == setMainPanelWidth(d1, minRelativeWidth, ctx)
           d2 == IF w > MIN_WINDOW_WIDTH
                      /\ minimumLeftPosition(ctx) > d1.left
                      /\ maximumRightPosition(ctx) > d1.right
                   THEN setPositions(d3, getInitialLeftPosition(d3.width, ctx), ctx)
                   ELSE d1
<1>1. minRelativeWidth \in Int
  BY ContextFacts DEF pxToRelativeWidth, MIN_PANEL_WIDTH
<1>2. d1 \in Geometry
  BY <1>1, SetMainPanelWidthType
<1>3. d3 \in Geometry
  BY <1>1, <1>2, SetMainPanelWidthType
<1>4. getInitialLeftPosition(d3.width, ctx) \in Int \cup {NaN, None}
  BY <1>3, InitialLeftType DEF Geometry, NumOrNaN
<1>5. d2 \in Geometry
  BY <1>2, <1>3, <1>4, SetPositionsType, Zenon
<1>6. d2.left \in Int
  BY <1>5 DEF Geometry
<1>7. watchGeometry(d, ctx, w) = setPositions(d2, d2.left, ctx)
  BY DEF watchGeometry
<1>8. setPositions(d2, d2.left, ctx) \in Geometry
  BY <1>5, <1>6, SetPositionsType
<1>9. ctx.cfg.input => Tiles(setPositions(d2, d2.left, ctx))
  BY <1>5, <1>6, SetPositionsSum
<1>. QED
  BY <1>7, <1>8, <1>9, Zenon

(* onResize either leaves the geometry alone or ends in setPositions.      *)
LEMMA OnResizeFacts ==
  ASSUME NEW d \in Geometry, NEW data \in ResizeData, NEW ctx \in Context
  PROVE  /\ onResize(d, data, ctx) \in Geometry
         /\ onResize(d, data, ctx) = d
              \/ (ctx.cfg.input => Tiles(onResize(d, data, ctx)))
<1> DEFINE relativeDistance == pxToRelativeWidth(data.x, ctx.cw)
           relativeWidth == pxToRelativeWidth(data.width, ctx.cw)
           d1 == setMainPanelWidth(d, relativeWidth, ctx)
           left == IF data.direction = "left" THEN relativeDistance ELSE d1.left
<1>1. data.x \in Int /\ data.width \in Int
  BY Zenon DEF ResizeData
<1>2. relativeDistance \in Int /\ relativeWidth \in Int
  BY <1>1, ContextFacts DEF pxToRelativeWidth
<1>3. d1 \in Geometry
  BY <1>2, SetMainPanelWidthType
<1>4. left \in Int
  BY <1>2, <1>3 DEF Geometry
<1>5. onResize(d, data, ctx) = d \/ onResize(d, data, ctx) = setPositions(d1, left, ctx)
  BY DEF onResize
<1>6. setPositions(d1, left, ctx) \in Geometry
  BY <1>3, <1>4, SetPositionsType
<1>7. ctx.cfg.input => Tiles(setPositions(d1, left, ctx))
  BY <1>3, <1>4, SetPositionsSum
<1>. QED
  BY <1>5, <1>6, <1>7

(* The event of the resize wrapper is resize data.                         *)
LEMMA ResizeEventType ==
  ASSUME NEW d \in Geometry, NEW direction \in {"left", "right"},
         NEW x \in ResizeXs, NEW cw \in Nat \ {0}
  PROVE  resizeEvent(d, direction, x, cw) \in ResizeData
<1>1. x \in Int
  BY ConstantsAssumption
<1>2. relativeWidthToPx(d.left, cw) \in Int /\ relativeWidthToPx(Unit - d.right, cw) \in Int
  BY DEF relativeWidthToPx, Geometry
<1>. QED
  BY <1>1, <1>2 DEF resizeEvent, ResizeData

(* setVerticalPositions gives a number.                                    *)
LEMMA VerticalInt ==
  ASSUME NEW r \in Int, NEW t, NEW h \in Nat \ {0}
  PROVE  setVerticalPositions(r, t, h) \in Int
<1>1. /\ pxToRelativeHeight(TOP_BOTTOM_MARGIN + PANEL_HEIGHT + VERTICAL_PANELS_MARGIN, h) \in Int
      /\ pxToRelativeHeight(initialMainPanelHeight(t), h) \in Int
  BY DEF pxToRelativeHeight, initialMainPanelHeight, TOP_BOTTOM_MARGIN, PANEL_HEIGHT,
         VERTICAL_PANELS_MARGIN, PANEL_HEIGHT_LARGE
<1>. QED
  BY <1>1 DEF setVerticalPositions

-----------------------------------------------------------------------------
(* What a state of the mounted instance reads, under the type invariant.   *)
LEMMA InstanceFacts ==
  ASSUME TypeOK
  PROVE  /\ Ctx \in Context
         /\ paneType \in PanelTypes
         /\ dims[paneType] \in Geometry
         /\ containerWidth \in Nat \ {0}
<1>1. Ctx \in Context
  BY DEF TypeOK, Ctx, Context
<1>2. paneType \in PanelTypes
  BY PaneTypeInPanelTypes DEF TypeOK, paneType
<1>3. containerWidth \in Nat \ {0}
  BY DEF TypeOK
<1>. QED
  BY <1>1, <1>2, <1>3 DEF TypeOK

(* The initial states of the component are well typed.                   *)
LEMMA TypeInit == Init => TypeOK
<1> SUFFICES ASSUME Init PROVE TypeOK
  OBVIOUS
<1>1. cfg \in Configs
  BY DEF Init, NoInstance
<1>2. dims \in [PanelTypes -> Geometry]
  BY DEF Init, Sentinel, Geometry
<1>3. storage \in [PanelTypes -> Int \cup {NaN, Absent}]
  <2>1. storage \in [PanelTypes -> StoredInit \cup {Absent}]
    BY DEF Init
  <2>. QED
    BY <2>1, Zenon
<1>4. steps \in 0..MaxSteps
  BY DEF Init
<1>5. grid \in [w: GridWidths, h: GridHeights] /\ containerWidth \in GridWidths
  <2>1. grid \in [w: GridWidths, h: GridHeights] /\ containerWidth = grid.w
    BY DEF Init
  <2>. QED
    BY <2>1
<1>6. lastResize \in ResizeData \cup {None}
  <2>1. lastResize = None
    BY DEF Init
  <2>. QED
    BY <2>1
<1>7. throttleOpen \in BOOLEAN /\ verticalTop \in Int
  <2>1. throttleOpen \in BOOLEAN
    <3>1. throttleOpen = FALSE
      BY DEF Init
    <3>. QED
      BY ONLY <3>1, Zenon
  <2>2. verticalTop \in Int
    <3>1. verticalTop = 0
      BY DEF Init
    <3>. QED
      BY ONLY <3>1, SMT
  <2>. QED
    BY ONLY <2>1, <2>2
<1>. QED
  BY <1>1, <1>2, <1>3, <1>4, <1>5, <1>6, <1>7, Zenon DEF Init, TypeOK

(* Every step of the component keeps the state well typed.               *)
LEMMA TypeStep == TypeOK /\ [Next]_vars => TypeOK'
<1> SUFFICES ASSUME TypeOK, [Next]_vars PROVE TypeOK'
  OBVIOUS
<1>. USE DEF TypeOK
<1>0. /\ Ctx \in Context /\ paneType \in PanelTypes
      /\ dims[paneType] \in Geometry /\ containerWidth \in Nat \ {0}
  BY InstanceFacts
<1>1. ASSUME NEW c \in Configs, Mount(c) PROVE TypeOK'
  <2> DEFINE ctx == [cfg |-> c, cw |-> grid.w]
             t == currentNodePaneType(c)
  <2>1. ctx \in Context /\ t \in PanelTypes
    BY PaneTypeInPanelTypes DEF Context
  <2>2. mountedGeometry(dims[t], storage[t], ctx) \in Geometry
    BY <2>1, MountedGeometryFacts, Zenon
  <2>. QED
    BY <1>1, <2>1, <2>2 DEF Mount
<1>2. CASE Unmount
  <2>1. cfg' \in Configs
    BY <1>2 DEF Unmount, NoInstance
  <2>2. lastResize' \in ResizeData \cup {None} /\ verticalTop' \in Int
    BY <1>2 DEF Unmount
  <2>3. /\ mounted' \in BOOLEAN /\ initialized' \in BOOLEAN /\ initTimer' \in BOOLEAN
        /\ isDragging' \in BOOLEAN /\ dragEndTimer' \in BOOLEAN /\ throttleOpen' \in BOOLEAN
        /\ dragging' \in BOOLEAN /\ resizing' \in BOOLEAN
    BY <1>2, Zenon DEF Unmount
  <2>4. /\ grid' = grid /\ containerWidth' = containerWidth /\ dims' = dims
        /\ storage' = storage /\ steps' = steps
    BY <1>2 DEF Unmount
  <2>. QED
    BY <2>1, <2>2, <2>3, <2>4
<1>3. CASE InitTimerFires
  BY <1>3, Zenon DEF InitTimerFires
<1>4. ASSUME NEW w \in GridWidths, NEW h \in GridHeights, WindowResize(w, h)
      PROVE  TypeOK'
  <2>1. [cfg |-> cfg, cw |-> w] \in Context
    BY DEF Context
  <2>2. w \in Int
    OBVIOUS
  <2>3. watchGeometry(dims[paneType], [cfg |-> cfg, cw |-> w], w) \in Geometry
    BY <1>0, <2>1, <2>2, WatchGeometryFacts
  <2>4. dims' \in [PanelTypes -> Geometry]
    BY <1>0, <1>4, <2>3 DEF WindowResize
  <2>. QED
    BY <1>4, <2>4 DEF WindowResize, CountStep
<1>5. CASE DragStart
  BY <1>5 DEF DragStart
<1>6. ASSUME NEW x \in DragXs, NEW y \in DragYs, Drag(x, y) PROVE TypeOK'
  <2>0. x \in Int /\ y \in Int /\ grid.h \in Nat \ {0}
    BY Zenon
  <2>1. pxToRelativeWidth(x, containerWidth) - dims[paneType].width \div 2 \in Int
    <3>1. pxToRelativeWidth(x, containerWidth) \in Int
      BY <1>0, <2>0, PxToRelativeInt
    <3>2. dims[paneType].width \in Int
      BY <1>0 DEF Geometry
    <3>. QED
      BY <3>1, <3>2
  <2>2. setPositions(dims[paneType],
                     pxToRelativeWidth(x, containerWidth) - dims[paneType].width \div 2,
                     Ctx) \in Geometry
    BY <1>0, <2>1, SetPositionsType
  <2>3. pxToRelativeHeight(y, grid.h)
          - pxToRelativeHeight(initialMainPanelHeight(paneType), grid.h) \div 2 \in Int
    BY <2>0 DEF pxToRelativeHeight, initialMainPanelHeight, PANEL_HEIGHT, PANEL_HEIGHT_LARGE
  <2>4. setVerticalPositions(
          pxToRelativeHeight(y, grid.h)
            - pxToRelativeHeight(initialMainPanelHeight(paneType), grid.h) \div 2,
          paneType, grid.h) \in Int
    BY <2>3, VerticalInt, Zenon
  <2>5. dims' \in [PanelTypes -> Geometry] /\ verticalTop' \in Int
    BY <1>0, <1>6, <2>2, <2>4 DEF Drag
  <2>. QED
    BY <1>6, <2>5 DEF Drag, CountStep
<1>7. CASE DragEnd
  BY <1>0, <1>7, Zenon DEF DragEnd, Geometry
<1>8. CASE DragEndTimerFires
  BY <1>8, Zenon DEF DragEndTimerFires
<1>9. CASE ResizeStart
  BY <1>9 DEF ResizeStart
<1>10. ASSUME NEW direction \in {"left", "right"}, NEW x \in ResizeXs,
              ResizeMove(direction, x)
       PROVE  TypeOK'
  <2> DEFINE data == resizeEvent(dims[paneType], direction, x, containerWidth)
  <2>1. data \in ResizeData
    BY <1>0, ResizeEventType
  <2>2. onResize(dims[paneType], data, Ctx) \in Geometry
    BY <1>0, <2>1, OnResizeFacts
  <2>3. lastResize' \in ResizeData \cup {None}
    BY <1>10, <2>1 DEF ResizeMove
  <2>4. dims' \in [PanelTypes -> Geometry]
    BY <1>0, <1>10, <2>2 DEF ResizeMove
  <2>5. steps' \in 0..MaxSteps
    BY <1>10 DEF ResizeMove, CountStep
  <2>. QED
    BY <1>10, <2>3, <2>4, <2>5, Zenon DEF ResizeMove
<1>11. CASE ThrottleExpire
  BY <1>11, Zenon DEF ThrottleExpire
<1>12. CASE ResizeEnd
  BY <1>0, <1>12, Zenon DEF ResizeEnd, Geometry
<1>13. ASSUME NEW name \in PositionNames, SetPositionByName(name) PROVE TypeOK'
  <2>1. setPositionByName(name, dims[paneType], Ctx) \in Geometry
    BY <1>0, SetPositionByNameFacts
  <2>. QED
    BY <1>0, <1>13, <2>1 DEF SetPositionByName, CountStep
<1>14. CASE UNCHANGED vars
  BY <1>14 DEF vars
<1>. QED
  BY <1>1, <1>2, <1>3, <1>4, <1>5, <1>6, <1>7, <1>8, <1>9, <1>10,
     <1>11, <1>12, <1>13, <1>14 DEF Next

(* Type correctness of the whole component: every handler, timer and the   *)
(* throttled resize call of NDVDraggablePanels.vue keeps the store, the    *)
(* persisted widths and the instance refs well typed; in particular a NaN  *)
(* parsed from localStorage never reaches the store.                       *)
THEOREM TypeCorrect == Spec => []TypeOK
BY TypeInit, TypeStep, PTL DEF Spec

-----------------------------------------------------------------------------
(* The tiling invariant in the form the proof uses.                        *)
TilesAll(D) == \A u \in PanelTypes : D[u] = Sentinel \/ Tiles(D[u])

(* SumWhole is TilesAll of the store.                                      *)
LEMMA SumWholeTilesAll == SumWhole <=> TilesAll(dims)
BY DEF SumWhole, TilesAll, Tiles

(* A step of the store either keeps it, or replaces the geometry of one    *)
(* panel type by a tiling geometry.                                        *)
WriteOrKeep(D, D2) ==
  \/ D2 = D
  \/ \E u \in PanelTypes : /\ D2 = [D EXCEPT ![u] = D2[u]]
                            /\ D2[u] \in Geometry
                            /\ Tiles(D2[u])

(* Writing one panel type's old geometry or a tiling one is such a step.  *)
LEMMA OneWrite ==
  ASSUME NEW D \in [PanelTypes -> Geometry], NEW t \in PanelTypes,
         NEW e, e = D[t] \/ (e \in Geometry /\ Tiles(e))
  PROVE  WriteOrKeep(D, [D EXCEPT ![t] = e])
BY Zenon DEF WriteOrKeep

(* Such a step keeps every panel type tiled.                               *)
LEMMA WriteKeepsTiles ==
  ASSUME NEW D \in [PanelTypes -> Geometry], TilesAll(D), NEW D2,
         WriteOrKeep(D, D2)
  PROVE  TilesAll(D2)
BY DEF WriteOrKeep, TilesAll

(* With input slots everywhere, every step of the engine keeps the store  *)
(* or writes one panel type with a tiling geometry.                        *)
LEMMA StoreWriteStep ==
  ASSUME \A c \in Configs : c.input, TypeOK, [Next]_vars
  PROVE  WriteOrKeep(dims, dims')
<1>0. /\ dims \in [PanelTypes -> Geometry]
      /\ Ctx \in Context /\ paneType \in PanelTypes
      /\ dims[paneType] \in Geometry
      /\ Ctx.cfg.input
  BY InstanceFacts DEF TypeOK, Ctx
<1>1. ASSUME NEW c \in Configs, Mount(c) PROVE WriteOrKeep(dims, dims')
  <2> DEFINE ctx == [cfg |-> c, cw |-> grid.w]
             t == currentNodePaneType(c)
             e == IF dims[t].left = Unit /\ dims[t].right = Unit
                    THEN mountedGeometry(dims[t], storage[t], ctx) ELSE dims[t]
  <2>1. ctx \in Context /\ t \in PanelTypes /\ ctx.cfg.input
    BY PaneTypeInPanelTypes DEF Context, TypeOK
  <2>2. e = dims[t] \/ (e \in Geometry /\ Tiles(e))
    BY <1>0, <2>1, MountedGeometryFacts, Zenon DEF TypeOK
  <2>3. dims' = [dims EXCEPT ![t] = e]
    BY <1>1, Zenon DEF Mount
  <2>. QED
    BY <1>0, <2>1, <2>2, <2>3, OneWrite, Zenon
<1>2. ASSUME NEW w \in GridWidths, NEW h \in GridHeights, WindowResize(w, h)
      PROVE  WriteOrKeep(dims, dims')
  <2>1. CASE mounted
    <3> DEFINE e == watchGeometry(dims[paneType], [cfg |-> cfg, cw |-> w], w)
    <3>1. [cfg |-> cfg, cw |-> w] \in Context
      BY DEF Context, TypeOK
    <3>4. w \in Int
      OBVIOUS
    <3>5. [cfg |-> cfg, cw |-> w].cfg.input
      BY <1>0 DEF Ctx
    <3>2. e \in Geometry /\ Tiles(e)
      BY <1>0, <3>1, <3>4, <3>5, WatchGeometryFacts
    <3>3. dims' = [dims EXCEPT ![paneType] = e]
      BY <1>2, <2>1 DEF WindowResize
    <3>. QED
      BY <1>0, <3>2, <3>3, OneWrite, Zenon
  <2>2. CASE ~mounted
    BY <1>2, <2>2 DEF WindowResize, WriteOrKeep
  <2>. QED
    BY <2>1, <2>2
<1>3. ASSUME NEW x \in DragXs, NEW y \in DragYs, Drag(x, y) PROVE WriteOrKeep(dims, dims')
  <2>1. CASE useVerticalLayout(grid)
    BY <1>3, <2>1 DEF Drag, WriteOrKeep
  <2>2. CASE ~useVerticalLayout(grid)
    <3> DEFINE r == pxToRelativeWidth(x, containerWidth) - dims[paneType].width \div 2
               e == setPositions(dims[paneType], r, Ctx)
    <3>1. r \in Int
      <4>1. x \in Int /\ dims[paneType].width \in Int
        BY <1>0 DEF Geometry
      <4>2. pxToRelativeWidth(x, containerWidth) \in Int
        BY <4>1, PxToRelativeInt DEF TypeOK
      <4>. QED
        BY <4>1, <4>2
    <3>2. e \in Geometry /\ Tiles(e)
      BY <1>0, <3>1, SetPositionsType, SetPositionsSum
    <3>3. dims' = [dims EXCEPT ![paneType] = e]
      BY <1>3, <2>2 DEF Drag
    <3>. QED
      BY <1>0, <3>2, <3>3, OneWrite, Zenon
  <2>. QED
    BY <2>1, <2>2
<1>4. ASSUME NEW direction \in {"left", "right"}, NEW x \in ResizeXs,
             ResizeMove(direction, x)
      PROVE  WriteOrKeep(dims, dims')
  <2>1. CASE throttleOpen
    BY <1>4, <2>1 DEF ResizeMove, WriteOrKeep
  <2>2. CASE ~throttleOpen
    <3> DEFINE data == resizeEvent(dims[paneType], direction, x, containerWidth)
               e == onResize(dims[paneType], data, Ctx)
    <3>1. data \in ResizeData
      BY <1>0, ResizeEventType DEF TypeOK
    <3>2. e = dims[paneType] \/ (e \in Geometry /\ Tiles(e))
      BY <1>0, <3>1, OnResizeFacts
    <3>3. dims' = [dims EXCEPT ![paneType] = e]
      BY <1>4, <2>2 DEF ResizeMove
    <3>. QED
      BY <1>0, <3>2, <3>3, OneWrite, Zenon
  <2>. QED
    BY <2>1, <2>2
<1>5. ASSUME NEW name \in PositionNames, SetPositionByName(name) PROVE WriteOrKeep(dims, dims')
  <2> DEFINE e == setPositionByName(name, dims[paneType], Ctx)
  <2>1. e \in Geometry /\ Tiles(e)
    BY <1>0, SetPositionByNameFacts
  <2>2. dims' = [dims EXCEPT ![paneType] = e]
    BY <1>5 DEF SetPositionByName
  <2>. QED
    BY <1>0, <2>1, <2>2, OneWrite, Zenon
<1>6. CASE Unmount \/ InitTimerFires \/ DragStart \/ DragEnd \/ DragEndTimerFires
           \/ ResizeStart \/ ThrottleExpire \/ ResizeEnd \/ UNCHANGED vars
  <2>1. dims' = dims
    BY <1>6 DEF Unmount, InitTimerFires, DragStart, DragEnd, DragEndTimerFires,
                ResizeStart, ThrottleExpire, ResizeEnd, vars
  <2>. QED
    BY <2>1 DEF WriteOrKeep
<1>. QED
  BY <1>1, <1>2, <1>3, <1>4, <1>5, <1>6 DEF Next

(* With input slots everywhere, every step keeps every panel type tiled.  *)
LEMMA TilesStep ==
  ASSUME \A c \in Configs : c.input, TypeOK, TilesAll(dims), [Next]_vars
  PROVE  TilesAll(dims')
BY StoreWriteStep, WriteKeepsTiles DEF TypeOK

(* When every node configuration has an input slot, the main panel of      *)
(* every panel type tiles the container at all times: mount and restore,   *)
(* the app-grid watcher, drags, resize calls let through by the throttle   *)
(* and setPositionByName all end in setPositions or leave the              *)
(* geometry alone (spec 3).  Inputless panels break this: see the          *)
(* inputless_sum run.                                                      *)
THEOREM SumWholeWithInputs ==
  (\A c \in Configs : c.input) => (Spec => []SumWhole)
<1> SUFFICES ASSUME \A c \in Configs : c.input PROVE Spec => []SumWhole
  OBVIOUS
<1> DEFINE IInv == TypeOK /\ TilesAll(dims)
<1>1. Init => IInv
  <2> SUFFICES ASSUME Init PROVE IInv
    OBVIOUS
  <2>. QED
    BY TypeInit DEF Init, TilesAll
<1>2. IInv /\ [Next]_vars => IInv'
  BY TypeStep, TilesStep
<1>3. IInv => SumWhole
  BY SumWholeTilesAll
<1>. QED
  BY <1>1, <1>2, <1>3, PTL DEF Spec

=============================================================================
