--------------------------- MODULE NDVBoundsProofs ---------------------------
(***************************************************************************)
(* Proof of the action property BoundsWhenFit of NDVPanels, for every      *)
(* value of the constants and every node configuration, inputless ones     *)
(* included: every geometry a handler of the mounted instance writes for   *)
(* its panel type lies between minimumLeftPosition and                     *)
(* maximumRightPosition of the instance's context whenever its width fits  *)
(* between the two.  The argument: every such write ends in setPositions   *)
(* against the context of the state it leads to, and each of the three     *)
(* branches of setPositions lands between the margins when the width       *)
(* fits.  No invariant beyond TypeOK is needed.                            *)
(***************************************************************************)
EXTENDS NDVPanelsProofs

USE GridAssumption, UnitAssumption, ConstantsAssumption, SentinelAssumption

(* A geometry written against context ctx respects the margins whenever    *)
(* its width fits between them.                                            *)
GoodWrite(e, ctx) == Fits(e, ctx) => InBounds(e, ctx)

-----------------------------------------------------------------------------
(* Each branch of setPositions lands between the margins when the width    *)
(* fits: the clamp to the minimum left leaves room on the right, the clamp *)
(* to the maximum right leaves room on the left, and the unclamped branch  *)
(* (or the inputless pin to the minimum left) failed both clamp tests.     *)
LEMMA SetPositionsGood ==
  ASSUME NEW d \in Geometry, NEW r \in Int \cup {NaN, None}, NEW ctx \in Context
  PROVE  GoodWrite(setPositions(d, r, ctx), ctx)
<1> DEFINE mainLeft == Or(r, Unit - inputPanelRelativeRight(d, ctx))
           mainRight == Unit - mainLeft - d.width
           minLeft == minimumLeftPosition(ctx)
           maxRight == maximumRightPosition(ctx)
           e == setPositions(d, r, ctx)
<1>1. /\ mainLeft \in Int /\ minLeft \in Int /\ maxRight \in Int
      /\ e.width = d.width
      /\ minLeft > mainLeft =>
           e = [left |-> minLeft, width |-> d.width,
                right |-> Unit - d.width - minLeft]
      /\ ~(minLeft > mainLeft) /\ maxRight > mainRight =>
           e = [left |-> Unit - d.width - maxRight, width |-> d.width,
                right |-> maxRight]
      /\ ~(minLeft > mainLeft) /\ ~(maxRight > mainRight) =>
           e = [left |-> IF currentNodePaneType(ctx.cfg) = "inputless"
                           THEN minLeft ELSE mainLeft,
                width |-> d.width, right |-> mainRight]
  BY SetPositionsCases
<1>2. d.width \in Int
  BY DEF Geometry
<1>6. e.width = d.width
  BY ONLY <1>1
<1> SUFFICES ASSUME d.width <= Unit - minLeft - maxRight
             PROVE  e.left >= minLeft /\ e.right >= maxRight
  BY <1>6, Zenon DEF GoodWrite, Fits, InBounds
<1>3. CASE minLeft > mainLeft
  BY <1>1, <1>2, <1>3
<1>4. CASE ~(minLeft > mainLeft) /\ maxRight > mainRight
  BY <1>1, <1>2, <1>4
<1>5. CASE ~(minLeft > mainLeft) /\ ~(maxRight > mainRight)
  BY <1>1, <1>2, <1>5
<1>. QED
  BY <1>3, <1>4, <1>5

(* setPositionByName ends in setPositions.                                 *)
LEMMA SetPositionByNameGood ==
  ASSUME NEW name \in PositionNames, NEW d \in Geometry, NEW ctx \in Context
  PROVE  GoodWrite(setPositionByName(name, d, ctx), ctx)
<1> DEFINE target == IF name = "minLeft" THEN minimumLeftPosition(ctx)
                     ELSE IF name = "maxRight" THEN maximumRightPosition(ctx)
                     ELSE getInitialLeftPosition(d.width, ctx)
<1>1. minimumLeftPosition(ctx) \in Int /\ maximumRightPosition(ctx) \in Int
  BY BoundsInt
<1>2. getInitialLeftPosition(d.width, ctx) \in NumOrNaN
  BY InitialLeftType DEF Geometry, NumOrNaN
<1>3. target \in Int \cup {NaN, None}
  BY <1>1, <1>2 DEF NumOrNaN
<1>4. setPositionByName(name, d, ctx) = setPositions(d, target, ctx)
  BY DEF setPositionByName
<1>5. GoodWrite(setPositions(d, target, ctx), ctx)
  BY <1>3, SetPositionsGood, Zenon
<1>. QED
  BY <1>4, <1>5

(* onMounted's body ends in setPositions, with or without a stored width. *)
LEMMA MountedGeometryGood ==
  ASSUME NEW d \in Geometry, NEW stored \in Int \cup {NaN, Absent},
         NEW ctx \in Context
  PROVE  GoodWrite(mountedGeometry(d, stored, ctx), ctx)
<1> DEFINE d1 == setMainPanelWidth(d, None, ctx)
           d2 == setPositions(d1, getInitialLeftPosition(d1.width, ctx), ctx)
<1>1. d1 \in Geometry
  BY SetMainPanelWidthType, Zenon
<1>2. getInitialLeftPosition(d1.width, ctx) \in Int \cup {NaN, None}
  BY <1>1, InitialLeftType DEF Geometry, NumOrNaN
<1>3. d2 \in Geometry /\ GoodWrite(d2, ctx)
  BY <1>1, <1>2, SetPositionsType, SetPositionsGood, Zenon
<1>4. mountedGeometry(d, stored, ctx) = restorePositionData(d2, stored, ctx)
  BY DEF mountedGeometry
<1>5. CASE stored = Absent
  BY <1>3, <1>4, <1>5 DEF restorePositionData
<1>6. CASE stored # Absent
  <2>1. stored \in Int \cup {NaN, None} /\ stored \in NumOrNaN
    BY <1>6 DEF NumOrNaN
  <2>2. setMainPanelWidth(d2, stored, ctx) \in Geometry
    BY <1>3, <2>1, SetMainPanelWidthType
  <2>3. getInitialLeftPosition(stored, ctx) \in Int \cup {NaN, None}
    BY <2>1, InitialLeftType DEF NumOrNaN
  <2>4. restorePositionData(d2, stored, ctx)
          = setPositions(setMainPanelWidth(d2, stored, ctx),
                         getInitialLeftPosition(stored, ctx), ctx)
    BY <1>6 DEF restorePositionData
  <2>5. GoodWrite(setPositions(setMainPanelWidth(d2, stored, ctx),
                               getInitialLeftPosition(stored, ctx), ctx), ctx)
    BY <2>2, <2>3, SetPositionsGood, Zenon
  <2>. QED
    BY <1>4, <2>4, <2>5
<1>. QED
  BY <1>5, <1>6

(* The app-grid watcher ends in setPositions against the new context.     *)
LEMMA WatchGeometryGood ==
  ASSUME NEW d \in Geometry, NEW ctx \in Context, NEW w \in Int
  PROVE  GoodWrite(watchGeometry(d, ctx, w), ctx)
<1> DEFINE minRelativeWidth == pxToRelativeWidth(MIN_PANEL_WIDTH, ctx.cw)
           d1 == IF d.width < minRelativeWidth
                   THEN setMainPanelWidth(d, minRelativeWidth, ctx) ELSE d
           d3 == setMainPanelWidth(d1, minRelativeWidth, ctx)
           d2 == IF w > MIN_WINDOW_WIDTH
                      /\ minimumLeftPosition(ctx) > d1.left
                      /\ maximumRightPosition(ctx) > d1.right
                   THEN setPositions(d3, getInitialLeftPosition(d3.width, ctx), ctx)
                   ELSE d1
<1>1. minRelativeWidth \in Int
  BY ContextFacts DEF pxToRelativeWidth, MIN_PANEL_WIDTH
<1>2. d1 \in Geometry
  BY <1>1, SetMainPanelWidthType
<1>3. d3 \in Geometry
  BY <1>1, <1>2, SetMainPanelWidthType
<1>4. getInitialLeftPosition(d3.width, ctx) \in Int \cup {NaN, None}
  BY <1>3, InitialLeftType DEF Geometry, NumOrNaN
<1>5. d2 \in Geometry
  BY <1>2, <1>3, <1>4, SetPositionsType, Zenon
<1>6. d2.left \in Int
  BY <1>5 DEF Geometry
<1>7. watchGeometry(d, ctx, w) = setPositions(d2, d2.left, ctx)
  BY DEF watchGeometry
<1>8. GoodWrite(setPositions(d2, d2.left, ctx), ctx)
  BY <1>5, <1>6, SetPositionsGood
<1>. QED
  BY <1>7, <1>8, Zenon

(* onResize either leaves the geometry alone or ends in setPositions.      *)
LEMMA OnResizeGood ==
  ASSUME NEW d \in Geometry, NEW data \in ResizeData, NEW ctx \in Context
  PROVE  onResize(d, data, ctx) = d \/ GoodWrite(onResize(d, data, ctx), ctx)
<1> DEFINE relativeDistance == pxToRelativeWidth(data.x, ctx.cw)
           relativeWidth == pxToRelativeWidth(data.width, ctx.cw)
           d1 == setMainPanelWidth(d, relativeWidth, ctx)
           left == IF data.direction = "left" THEN relativeDistance ELSE d1.left
<1>1. data.x \in Int /\ data.width \in Int
  BY Zenon DEF ResizeData
<1>2. relativeDistance \in Int /\ relativeWidth \in Int
  BY <1>1, ContextFacts DEF pxToRelativeWidth
<1>3. d1 \in Geometry
  BY <1>2, SetMainPanelWidthType
<1>4. left \in Int
  BY <1>2, <1>3 DEF Geometry
<1>5. onResize(d, data, ctx) = d \/ onResize(d, data, ctx) = setPositions(d1, left, ctx)
  BY DEF onResize
<1>6. GoodWrite(setPositions(d1, left, ctx), ctx)
  BY <1>3, <1>4, SetPositionsGood
<1>. QED
  BY <1>5, <1>6


-----------------------------------------------------------------------------
(* The step of BoundsWhenFit, with the geometry and context it judges      *)
(* named.                                                                  *)
BoundsWhenFitStep ==
  (/\ mounted'
   /\ dims'[paneType'] # dims[paneType']
   /\ Fits(dims'[paneType'], Ctx'))
  => InBounds(dims'[paneType'], Ctx')

(* Writing a geometry that is unchanged or good at one panel type.         *)
LEMMA WriteAt ==
  ASSUME NEW D \in [PanelTypes -> Geometry], NEW t \in PanelTypes, NEW e,
         NEW ctx, e = D[t] \/ GoodWrite(e, ctx)
  PROVE  LET D2 == [D EXCEPT ![t] = e] IN D2[t] = D[t] \/ GoodWrite(D2[t], ctx)
OBVIOUS

(* The context the app-grid watcher refits against.                        *)
LEMMA WatchContext ==
  ASSUME NEW c \in Configs, NEW w \in GridWidths
  PROVE  [cfg |-> c, cw |-> w] \in Context /\ w \in Int
BY DEF Context

(* Every step of the engine that leaves an instance mounted keeps the     *)
(* geometry of the instance's panel type or writes one that is good for   *)
(* the instance's (new) context.                                           *)
LEMMA BoundsStep ==
  ASSUME TypeOK, [Next]_vars
  PROVE  BoundsWhenFitStep
<1> SUFFICES ASSUME mounted'
             PROVE  dims'[paneType'] = dims[paneType'] \/ GoodWrite(dims'[paneType'], Ctx')
  BY DEF BoundsWhenFitStep, GoodWrite
<1>0. /\ dims \in [PanelTypes -> Geometry]
      /\ Ctx \in Context /\ paneType \in PanelTypes
      /\ dims[paneType] \in Geometry
  BY InstanceFacts DEF TypeOK
<1>1. ASSUME NEW c \in Configs, Mount(c)
      PROVE  dims'[paneType'] = dims[paneType'] \/ GoodWrite(dims'[paneType'], Ctx')
  <2> DEFINE ctx == [cfg |-> c, cw |-> grid.w]
             t == currentNodePaneType(c)
             e == IF dims[t].left = Unit /\ dims[t].right = Unit
                    THEN mountedGeometry(dims[t], storage[t], ctx) ELSE dims[t]
  <2>1. ctx \in Context /\ t \in PanelTypes
    BY PaneTypeInPanelTypes DEF Context, TypeOK
  <2>2. storage[t] \in Int \cup {NaN, Absent}
    BY <2>1 DEF TypeOK
  <2>3. e = dims[t] \/ GoodWrite(e, ctx)
    BY <1>0, <2>1, <2>2, MountedGeometryGood, Zenon
  <2>4. dims' = [dims EXCEPT ![t] = e] /\ Ctx' = ctx /\ paneType' = t
    BY <1>1 DEF Mount, Ctx, paneType
  <2>. QED
    BY <1>0, <2>1, <2>3, <2>4, WriteAt
<1>2. ASSUME NEW w \in GridWidths, NEW h \in GridHeights, WindowResize(w, h)
      PROVE  dims'[paneType'] = dims[paneType'] \/ GoodWrite(dims'[paneType'], Ctx')
  <2>1. mounted
    BY <1>2 DEF WindowResize
  <2> DEFINE ctx == [cfg |-> cfg, cw |-> w]
             e == watchGeometry(dims[paneType], ctx, w)
  <2>2. ctx \in Context /\ w \in Int
    <3>1. cfg \in Configs
      BY DEF TypeOK
    <3>. QED
      BY <3>1, WatchContext
  <2>3. GoodWrite(e, ctx)
    BY <1>0, <2>2, WatchGeometryGood
  <2>4. dims' = [dims EXCEPT ![paneType] = e] /\ Ctx' = ctx /\ paneType' = paneType
    BY <1>2, <2>1 DEF WindowResize, Ctx, paneType
  <2>. QED
    BY <1>0, <2>3, <2>4, WriteAt
<1>3. ASSUME NEW x \in DragXs, NEW y \in DragYs, Drag(x, y)
      PROVE  dims'[paneType'] = dims[paneType'] \/ GoodWrite(dims'[paneType'], Ctx')
  <2>0. Ctx' = Ctx /\ paneType' = paneType
    BY <1>3 DEF Drag, Ctx, paneType
  <2>1. CASE useVerticalLayout(grid)
    BY <1>3, <2>0, <2>1 DEF Drag
  <2>2. CASE ~useVerticalLayout(grid)
    <3> DEFINE r == pxToRelativeWidth(x, containerWidth) - dims[paneType].width \div 2
               e == setPositions(dims[paneType], r, Ctx)
    <3>1. r \in Int
      <4>1. x \in Int /\ dims[paneType].width \in Int
        BY <1>0 DEF Geometry
      <4>2. pxToRelativeWidth(x, containerWidth) \in Int
        BY <4>1, PxToRelativeInt DEF TypeOK
      <4>. QED
        BY <4>1, <4>2
    <3>2. GoodWrite(e, Ctx)
      BY <1>0, <3>1, SetPositionsGood
    <3>3. dims' = [dims EXCEPT ![paneType] = e]
      BY <1>3, <2>2 DEF Drag
    <3>. QED
      BY <1>0, <2>0, <3>2, <3>3, WriteAt
  <2>. QED
    BY <2>1, <2>2
<1>4. ASSUME NEW direction \in {"left", "right"}, NEW x \in ResizeXs,
             ResizeMove(direction, x)
      PROVE  dims'[paneType'] = dims[paneType'] \/ GoodWrite(dims'[paneType'], Ctx')
  <2>0. Ctx' = Ctx /\ paneType' = paneType
    BY <1>4 DEF ResizeMove, Ctx, paneType
  <2>1. CASE throttleOpen
    BY <1>4, <2>0, <2>1 DEF ResizeMove
  <2>2. CASE ~throttleOpen
    <3> DEFINE data == resizeEvent(dims[paneType], direction, x, containerWidth)
               e == onResize(dims[paneType], data, Ctx)
    <3>1. data \in ResizeData
      BY <1>0, ResizeEventType DEF TypeOK
    <3>2. e = dims[paneType] \/ GoodWrite(e, Ctx)
      BY <1>0, <3>1, OnResizeGood
    <3>3. dims' = [dims EXCEPT ![paneType] = e]
      BY <1>4, <2>2 DEF ResizeMove
    <3>. QED
      BY <1>0, <2>0, <3>2, <3>3, WriteAt
  <2>. QED
    BY <2>1, <2>2
<1>5. ASSUME NEW name \in PositionNames, SetPositionByName(name)
      PROVE  dims'[paneType'] = dims[paneType'] \/ GoodWrite(dims'[paneType'], Ctx')
  <2> DEFINE e == setPositionByName(name, dims[paneType], Ctx)
  <2>0. Ctx' = Ctx /\ paneType' = paneType
    BY <1>5 DEF SetPositionByName, Ctx, paneType
  <2>1. GoodWrite(e, Ctx)
    BY <1>0, SetPositionByNameGood
  <2>2. dims' = [dims EXCEPT ![paneType] = e]
    BY <1>5 DEF SetPositionByName
  <2>. QED
    BY <1>0, <2>0, <2>1, <2>2, WriteAt
<1>6. CASE Unmount \/ InitTimerFires \/ DragStart \/ DragEnd \/ DragEndTimerFires
           \/ ResizeStart \/ ThrottleExpire \/ ResizeEnd \/ UNCHANGED vars
  <2>1. dims' = dims
    BY <1>6, Zenon DEF Unmount, InitTimerFires, DragStart, DragEnd, DragEndTimerFires,
                ResizeStart, ThrottleExpire, ResizeEnd, vars
  <2>. QED
    BY <2>1
<1>. QED
  BY <1>1, <1>2, <1>3, <1>4, <1>5, <1>6 DEF Next

(* For every node configuration, inputless ones included, and every value  *)
(* of the constants: every geometry that onMounted, the app-grid watcher,  *)
(* onDrag, onResize or setPositionByName writes for                      *)
(* the mounted instance's panel type lies between minimumLeftPosition and  *)
(* maximumRightPosition of the instance's current container whenever its   *)
(* width fits between them.                                                *)
THEOREM BoundsWhenFitHolds == Spec => BoundsWhenFit
<1>1. TypeOK /\ [Next]_vars => [BoundsWhenFitStep]_vars
  BY BoundsStep
<1>2. BoundsWhenFit <=> [][BoundsWhenFitStep]_vars
  BY DEF BoundsWhenFit, BoundsWhenFitStep
<1>. QED
  BY <1>1, <1>2, TypeCorrect, PTL DEF Spec

=============================================================================
