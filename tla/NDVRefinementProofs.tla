------------------------- MODULE NDVRefinementProofs -------------------------
(***************************************************************************)
(* Proof that the engine of NDVPanels implements the abstract layout store *)
(* of NDVLayoutStore under the refinement mapping store <- dims,           *)
(* saved <- storage, whenever every node configuration has an input slot.  *)
(* The inductive invariant adds to the type and tiling invariants of       *)
(* NDVPanelsProofs two facts that the saves need: a mounted instance's     *)
(* panel type is positioned, and a gesture only runs while mounted.        *)
(***************************************************************************)
EXTENDS NDVPanelsProofs

USE GridAssumption, UnitAssumption, ConstantsAssumption, SentinelAssumption

(* The panel type of the mounted instance has left the sentinel and tiles *)
(* the container.                                                          *)
Positioned == mounted => Tiles(dims[paneType])

(* The drag button and the resize wrapper only exist while mounted.        *)
Gestures == (dragging \/ resizing) => mounted

RInv == TypeOK /\ TilesAll(dims) /\ Positioned /\ Gestures

-----------------------------------------------------------------------------
(* A tiling geometry is not the {1, 1, 1} sentinel.                        *)
LEMMA SentinelNotTiled ==
  ASSUME NEW g \in Geometry, Tiles(g)
  PROVE  g # Sentinel
BY DEF Tiles, Sentinel, Geometry

(* A type that tiles before a store step still tiles after it.             *)
LEMMA KeepOrTiled ==
  ASSUME NEW D \in [PanelTypes -> Geometry], NEW D2, WriteOrKeep(D, D2),
         NEW p \in PanelTypes, Tiles(D[p])
  PROVE  Tiles(D2[p])
BY DEF WriteOrKeep

(* The actions other than Mount and Unmount keep the instance.             *)
LEMMA InstanceKept ==
  ASSUME [Next]_vars, ~\E c \in Configs : Mount(c), ~Unmount
  PROVE  mounted' = mounted /\ cfg' = cfg
BY Zenon DEF Next, vars, InitTimerFires, WindowResize, DragStart, Drag, DragEnd,
       DragEndTimerFires, ResizeStart, ResizeMove, ThrottleExpire, ResizeEnd,
       SetPositionByName

LEMMA GesturesStep ==
  ASSUME Gestures, [Next]_vars
  PROVE  Gestures'
<1>1. CASE \E c \in Configs : Mount(c)
  BY <1>1 DEF Mount, Gestures
<1>2. CASE Unmount
  BY <1>2 DEF Unmount, Gestures
<1>3. CASE DragStart \/ ResizeStart
  BY <1>3 DEF DragStart, ResizeStart, Gestures
<1>4. CASE DragEnd \/ ResizeEnd
  BY <1>4 DEF DragEnd, ResizeEnd, Gestures
<1>5. CASE InitTimerFires \/ DragEndTimerFires \/ ThrottleExpire \/ UNCHANGED vars
  BY <1>5 DEF InitTimerFires, DragEndTimerFires, ThrottleExpire, vars, Gestures
<1>6. CASE \/ \E w \in GridWidths, h \in GridHeights : WindowResize(w, h)
           \/ \E x \in DragXs, y \in DragYs : Drag(x, y)
           \/ \E d \in {"left", "right"}, x \in ResizeXs : ResizeMove(d, x)
           \/ \E name \in PositionNames : SetPositionByName(name)
  BY <1>6, Zenon DEF WindowResize, Drag, ResizeMove, SetPositionByName, Gestures
<1>. QED
  BY <1>1, <1>2, <1>3, <1>4, <1>5, <1>6 DEF Next

(* onMounted leaves the instance's panel type positioned: it positions a   *)
(* type at the sentinel and keeps one that was positioned before.          *)
LEMMA PositionedStep ==
  ASSUME \A c \in Configs : c.input, TypeOK, TilesAll(dims), Positioned,
         [Next]_vars
  PROVE  Positioned'
<1>0. /\ dims \in [PanelTypes -> Geometry]
      /\ WriteOrKeep(dims, dims')
  BY StoreWriteStep DEF TypeOK
<1>1. CASE \E c \in Configs : Mount(c)
  <2>1. PICK c \in Configs : Mount(c)
    BY <1>1
  <2> DEFINE ctx == [cfg |-> c, cw |-> grid.w]
             t == currentNodePaneType(c)
  <2>2. ctx \in Context /\ t \in PanelTypes /\ ctx.cfg.input
    BY PaneTypeInPanelTypes DEF Context, TypeOK
  <2>3. paneType' = t
    BY <2>1 DEF Mount, paneType
  <2>4. CASE dims[t].left = Unit /\ dims[t].right = Unit
    <3>1. dims'[t] = mountedGeometry(dims[t], storage[t], ctx)
      BY <1>0, <2>1, <2>2, <2>4 DEF Mount
    <3>2. Tiles(mountedGeometry(dims[t], storage[t], ctx))
      BY <1>0, <2>2, MountedGeometryFacts, Zenon DEF TypeOK
    <3>. QED
      BY <3>1, <3>2, <2>3 DEF Positioned
  <2>5. CASE ~(dims[t].left = Unit /\ dims[t].right = Unit)
    <3>1. dims'[t] = dims[t]
      BY <1>0, <2>1, <2>2, <2>5 DEF Mount
    <3>2. dims[t] # Sentinel
      BY <2>5 DEF Sentinel
    <3>3. Tiles(dims[t])
      BY <2>2, <3>2 DEF TilesAll
    <3>. QED
      BY <3>1, <3>3, <2>3 DEF Positioned
  <2>. QED
    BY <2>4, <2>5
<1>2. CASE Unmount
  BY <1>2 DEF Unmount, Positioned
<1>3. CASE ~(\E c \in Configs : Mount(c)) /\ ~Unmount
  <2>1. mounted' = mounted /\ paneType' = paneType
    BY <1>3, InstanceKept DEF paneType
  <2>2. paneType \in PanelTypes
    BY InstanceFacts DEF TypeOK
  <2>. QED
    BY <1>0, <2>1, <2>2, KeepOrTiled DEF Positioned
<1>. QED
  BY <1>1, <1>2, <1>3

(* Only onDragEnd and onResizeEnd write localStorage; they write the      *)
(* width of a positioned type and leave the store alone.                   *)
LEMMA SaveStep ==
  ASSUME TypeOK, Positioned, Gestures, [Next]_vars
  PROVE  \/ storage' = storage
         \/ /\ dims' = dims
            /\ \E t \in PanelTypes :
                 /\ Tiles(dims[t])
                 /\ storage' = [storage EXCEPT ![t] = dims[t].width]
<1>1. CASE DragEnd \/ ResizeEnd
  <2>1. mounted /\ paneType \in PanelTypes
    BY <1>1, InstanceFacts DEF DragEnd, ResizeEnd, Gestures, TypeOK
  <2>2. Tiles(dims[paneType])
    BY <2>1 DEF Positioned
  <2>3. dims' = dims /\ storage' = [storage EXCEPT ![paneType] = dims[paneType].width]
    BY <1>1 DEF DragEnd, ResizeEnd
  <2>. QED
    BY <2>1, <2>2, <2>3, Zenon
<1>2. CASE ~DragEnd /\ ~ResizeEnd
  BY <1>2, Zenon DEF Next, vars, Mount, Unmount, InitTimerFires, WindowResize,
              DragStart, Drag, DragEndTimerFires, ResizeStart, ResizeMove,
              ThrottleExpire, SetPositionByName
<1>. QED
  BY <1>1, <1>2

LEMMA RInvInit == Init => RInv
<1> SUFFICES ASSUME Init PROVE RInv
  OBVIOUS
<1>. QED
  BY TypeInit DEF Init, RInv, TilesAll, Positioned, Gestures

LEMMA RInvStep ==
  ASSUME \A c \in Configs : c.input
  PROVE  RInv /\ [Next]_vars => RInv'
BY TypeStep, TilesStep, PositionedStep, GesturesStep DEF RInv

(* A step of the engine is a step of the abstract store or leaves both    *)
(* stores as they are.                                                     *)
LEMMA StoreStep ==
  ASSUME \A c \in Configs : c.input, RInv, [Next]_vars
  PROVE  [LayoutStore!Next]_LayoutStore!vars
<1>0. /\ TypeOK /\ dims \in [PanelTypes -> Geometry]
      /\ WriteOrKeep(dims, dims')
  BY StoreWriteStep DEF RInv, TypeOK
<1>1. \/ storage' = storage
      \/ /\ dims' = dims
         /\ \E t \in PanelTypes :
              /\ Tiles(dims[t])
              /\ storage' = [storage EXCEPT ![t] = dims[t].width]
  BY SaveStep DEF RInv
<1>2. CASE storage' = storage /\ dims' = dims
  BY <1>2 DEF LayoutStore!vars
<1>3. CASE storage' = storage /\ dims' # dims
  <2>1. PICK u \in PanelTypes : /\ dims' = [dims EXCEPT ![u] = dims'[u]]
                                /\ dims'[u] \in Geometry
                                /\ Tiles(dims'[u])
    BY <1>0, <1>3 DEF WriteOrKeep
  <2>2. LayoutStore!Write(u)
    BY <1>3, <2>1 DEF LayoutStore!Write, LayoutStore!Tiled,
                      LayoutStore!Geometry, Geometry, Tiles
  <2>. QED
    BY <2>2 DEF LayoutStore!Next
<1>4. CASE storage' # storage
  <2>1. PICK t \in PanelTypes : /\ dims' = dims
                                /\ Tiles(dims[t])
                                /\ storage' = [storage EXCEPT ![t] = dims[t].width]
    BY <1>1, <1>4
  <2>2. dims[t] # Sentinel
    BY <1>0, <2>1, SentinelNotTiled
  <2>3. LayoutStore!Save(t)
    BY <2>1, <2>2 DEF LayoutStore!Save
  <2>. QED
    BY <2>3 DEF LayoutStore!Next
<1>. QED
  BY <1>2, <1>3, <1>4

(* With an input slot in every node configuration, the layout engine       *)
(* implements the abstract layout store: every write of                    *)
(* mainPanelDimensions by mount, restore, the app-grid watcher, drags,     *)
(* resizes let through by the throttle and setPositionByName leaves the    *)
(* written type tiling the container, and onDragEnd and onResizeEnd        *)
(* persist the current width of a positioned type and nothing else.        *)
THEOREM StoreRefinement ==
  (\A c \in Configs : c.input) => (Spec => LayoutStoreRefined)
<1> SUFFICES ASSUME \A c \in Configs : c.input PROVE Spec => LayoutStore!Spec
  BY DEF LayoutStoreRefined
<1>1. Init => LayoutStore!Init
  BY DEF Init, LayoutStore!Init
<1>2. RInv /\ [Next]_vars => [LayoutStore!Next]_LayoutStore!vars
  BY StoreStep
<1>. QED
  BY <1>1, <1>2, RInvInit, RInvStep, PTL DEF Spec, LayoutStore!Spec

=============================================================================
