# Verification of the NDV panel layout engine and the breakpoint monitor

This directory holds TLA+ models of the node detail view (NDV) drag-resize
layout engine of this repository and of the `useBreakpoints` monitor, the TLC
configurations that check them, and TLAPS proofs. The source is
`src/packages/frontend/editor-ui/src/components/NDVDraggablePanels.vue`; the
line numbers below refer to it unless another file is named.

## 1. The system

### Parts and how they interact

| Part | Source | Role |
|---|---|---|
| Layout engine | `NDVDraggablePanels.vue` | Geometry of the main panel per panel type, clamping, persistence, reaction to window, drag, resize and bus events |
| Drag button | `src/unnamed/part_001` (PanelDragButton.vue) | Forwards `dragstart`/`drag`/`dragend` of a Draggable; arrows only |
| Breakpoint monitor | `useBreakpoints` (embedded in `src/.../__tests__/useBreakpoints.test.ts`) | Classifies the window width; 50 ms debounced resize listener |
| Mobile e2e test | `src/cypress/e2e/mobile-node-config.cy.ts` | Browser test at 375x667 |
| Build scripts | `src/scripts/*.sh`, `src/unnamed/part_000`, `part_003` | Shell pipelines: checks, installs, builds, docker |
| Docs | `src/BUILD.md`, `src/unnamed/part_002` | No behaviour |

The engine shares two stores with the rest of the editor:
- `ndvStore.mainPanelDimensions`: one `{relativeLeft, relativeWidth, relativeRight}`
  per panel type (`regular`, `dragless`, `unknown`, `inputless`, `wide`). It
  starts at the sentinel `{1, 1, 1}` and lives as long as the page.
- `localStorage`: one relative width per panel type.

Only one engine instance is mounted at a time. A new one is mounted for every
node opened in the NDV.

### State of the engine

- The store entry of the current panel type, and the localStorage value.
- The refs `isDragging`, `initialized`, `containerWidth` and
  `mainPanelVerticalPosition`.
- The props and slots: whether there is an input slot, `isDraggable`,
  `hideInputAndOutput`, and `nodeType.parameterPane`.
- Three timers:
  - the `setTimeout(0)` of `onMounted`;
  - the `setTimeout(0)` of `onDragEnd`;
  - the 100 ms window of `useThrottleFn(onResize, 100)` (line 53). vueuse's
    defaults are a leading call and no trailing call: a call inside the
    window is dropped and no timer is left behind.

### Operations

- `onMounted` (79-99): initialise and restore, only at the sentinel. It arms
  the init timer and registers `setPositionByName` on the bus.
- `onBeforeUnmount` (101-103): unregisters from the bus.
- The `appGridDimensions` watcher (105-135): clamps to the minimum width,
  refits, then re-runs setPositions.
- `onDragStart`, `onDrag` and `onDragEnd` (490-518). `onDrag` is horizontal or
  vertical depending on `useVerticalLayout`.
- `onResizeThrottle` → `onResize` (451-467), and `onResizeEnd` (447-449).
- `setPositionByName` (421-429).

### Hard behaviours

- The throttle drops resize events inside its window, the last event of a
  gesture included, and `resizeend` then saves the width of an earlier one.
- JavaScript's `||`, which treats `0` and `NaN` as missing.
- Stale geometry reused at remount.
- Widths restored from another screen size.

## 2. Modules

### `NDVPanels.tla` (engine)

Relative values are exact: the relative value `r` is the integer `r * Unit`.
`Unit` is a multiple of twice every window width, so `px / containerWidth` and
its halves are whole numbers. Floating-point rounding is abstracted away.

Variables:
- `grid`: the app grid dimensions.
- `mounted`, `cfg` and `containerWidth`: the instance.
- `dims`: the store.
- `storage`: localStorage.
- `initialized`, `initTimer`, `isDragging`, `dragEndTimer` and `verticalTop`:
  the refs and timers.
- `throttleOpen`: the throttle's last call was less than 100 ms ago.
- `dragging` and `resizing`: the gestures of the Draggable and of the resize
  wrapper.
- `lastResize`: a history variable, the gesture's latest resize event that
  `onResize` would accept (its three early returns pass). Only the
  `FinalResizeSaved` property reads it.
- `steps`: a model bound.

Actions, one per handler:

| Action | Code |
|---|---|
| `Mount` | `onMounted`, with `mountedGeometry` = lines 84-91 and `restorePositionData` |
| `InitTimerFires` | 94-96 |
| `Unmount` | `onBeforeUnmount`; the instance's refs and throttle go with it |
| `WindowResize` | the watcher, `watchGeometry` |
| `DragStart`, `Drag`, `DragEnd`, `DragEndTimerFires` | 490-518; DragStart's guard is the `v-if` of line 563 |
| `ResizeStart` | the wrapper's `is-resizing-enabled` (548) |
| `ResizeMove` | `onResizeThrottle` (451-455): dropped until `initialized`, else `onResize` runs at once if the throttle window is closed and is dropped if it is open |
| `ThrottleExpire` | 100 ms pass after the throttle's last call (line 53) |
| `ResizeEnd` | 447-449 |
| `SetPositionByName` | 421-429 via the bus |

The vertical layout keeps `verticalTop` (`mainPanelVerticalPosition`),
written by `Drag` through `setVerticalPositions` (401-419). The top the panel
is drawn at is `renderedTop`: the dragged top, or, while it is 0, the default
`mainPanelRelativeTop` of `calculatedVerticalPositions` (186-200, 290-292).

Each action includes the whole handler. The store merge of
`setMainPanelWidth` and `setPositions` is part of the operator that models
them. The resize wrapper's event (`resizeEvent`) is modelled from the spec: the
pointer sits on the dragged edge, and the width is measured from the opposite
edge.

### `MC_NDVPanels.tla` (model values and bounds)

- Windows: 540 px (vertical layout, inside the 518-558 gap), 1280 px and
  1920 px (above the 1700 px large-screen threshold).
- Window height: 1000 px (960 px in the runs about the vertical top).
- Stored widths: 0.8, as saved by another session, and a non-numeric value
  (NaN). `restore_width` stores 1/6 (320 px when saved at 1920 px), and
  `position_by_name` stores nothing and uses a 720 px window, the initial
  width of the wide type.
- Two drag x positions, one drag y position and two resize x positions.
- `MaxSteps = 5` window resizes, moves and bus calls per behaviour.

These bounds already produce each trace listed under findings. Larger bounds add states, not new cases.

### `NDVPanelsProofs.tla` (TLAPS)

It holds the type and tiling theorems and the lemmas on the helpers.

### `NDVLayoutStore.tla` (abstract layout store)

What the engine promises of the two stores it writes, with its handlers,
timers and gestures left out:
- `store` (`mainPanelDimensions`) starts at the sentinel. `Write(t)` replaces
  the geometry of one type by one that tiles the container.
- `saved` (localStorage). `Save(t)` (`storePositionData`, 485-488) copies the
  width the store holds for a type that has left the sentinel.
- A write and a save never happen in the same step.

`NDVPanels` instantiates it as `LayoutStore` with `store <- dims` and
`saved <- storage`. `LayoutStoreRefined == LayoutStore!Spec` is checked by TLC
in the `layout` and `resize` runs and proved by TLAPS (section 4).

### `BreakpointMonitor.tla` (useBreakpoints)

Source: `src/packages/frontend/editor-ui/src/composables/__tests__/useBreakpoints.test.ts`,
lines 88-126. `useDebounce` is not in the repository, so it is modelled from
spec 4.1 as a trailing debounce that each event re-arms.

Variables:
- `innerWidth`: the window width.
- `width`: the component's width ref.
- `listening`: the resize listener is registered.
- `debounce`: the debounced `onResizeEnd` is pending.
- `resizes`: a model bound.

Actions:

| Action | Code |
|---|---|
| `Init` | the setup read `width = ref(window.innerWidth)` (88-90) |
| `Mount` | a new component's setup read and `onMounted` (120-122), in one task |
| `Unmount` | `onBeforeUnmount` (124-126). A pending debounced call only writes the destroyed instance's ref, so it is dropped |
| `Resize(w)` | a window resize and `onResize` (112-114), which re-arms the debounce while listening |
| `DebounceFires` | `onResizeEnd` (116-118) |

`bp`, `isMobile`, `isTablet` and `isDesktop` are the computed values of
lines 92-110. `MC_BreakpointMonitor.tla` uses the thresholds 768, 992, 1200
and 1920, widths on and one pixel below every threshold, and 3 resizes per
behaviour. That is enough for a resize before mount, a burst while mounted,
and a resize while unmounted followed by a remount.

The fairness is weak fairness of `DebounceFires`: the browser runs a timer
that stays armed, and only a new event re-arms it. Resizes are bounded, so a
burst ends.

## 3. Runs

| Run | Expect | Checks | Shows |
|---|---|---|---|
| `layout` (MC_NDVPanels.cfg) | pass | TypeOK, SumWhole, BoundsWhenFit, LayoutStoreRefined | Mount and restore, window resizes, drags, snaps and remounts over a regular and a dragless config, about 2.2M states |
| `resize` (MC_NDVPanels_resize.cfg) | pass | same | Left and right edge resizes of the wide panel through the throttle (run or dropped), the end of its window and window resizes mid-gesture, about 360K states |
| `breakpoints` | pass | ClassificationConsistent, PendingWhenStale | Classification at and around every threshold; no resize is lost between setup, mount, the debounce and unmount |
| `breakpoints_live` | pass | StaleWidthReclassified | A stale width is eventually re-read, or the component unmounted |
| `inputless_sum` | violation | SumWhole | Inputless panel mounted at 540 px then refitted at 1280 px: left is pinned to the new minimum but right is not recomputed |
| `resize_end` | violation | FinalResizeSaved | The gesture's last resize event comes within 100 ms of the previous call and is dropped; `resizeend` saves the earlier width (720 px instead of 420 px) |
| `position_by_name` | violation | PositionByNameIdempotent | A wide node in a 720 px window has relative width 1 and initial left 0, which `||` takes as missing: two snaps to 'initial' give two geometries |
| `remount` | violation | RemountWithinBounds | A dragless wide panel positioned at 540 px keeps its left when reopened at 1280 px: `onMounted` refits only at the sentinel |
| `restore_width` | violation | WidthAtLeastMin | A width of 1/6 saved at 1920 px is restored at 1280 px as 213 px, below `MIN_PANEL_WIDTH`: `restorePositionData` does not clamp (line 476) |
| `vertical_top` | violation | VerticalTopWithinLimits | A top clamped by a drag at 1000 px is out of limits after the height drops to 960 px: nothing re-clamps it |
| `vertical_inputless` | violation | VerticalTopWithinLimits | An inputless panel's default top (84 px, no input band) is above the 334 px minimum `setVerticalPositions` clamps to (it always reserves an input band, line 406) |

The properties:
- `SumWhole`: left + width + right = 1 for every type that has left the
  sentinel.
- `BoundsWhenFit`: every geometry the mounted instance writes lies between
  the two margins whenever its width fits between them. It does not see a
  geometry that is kept unchanged at remount (the `remount` run), nor
  windows between 518 and 558 px where no width fits.
- `TypeOK`: no NaN reaches the store.
- `LayoutStoreRefined`: the engine implements the abstract layout store.
- `ClassificationConsistent`: `bp` ranks a width by how many thresholds it
  reaches, exactly one flag holds, and `isDesktop` holds exactly on LG and XL.
- `PendingWhenStale`: while listening, a width that differs from the window
  has a debounced re-read pending.
- `StaleWidthReclassified`: stale ~> re-read or unmounted.

Every property of a passing run has a mutant in PROJECT.json that TLC must
catch:
- TypeOK: a restore that writes the parsed value as it is.
- SumWhole: `setPositions` anchoring the maximum-right branch on the minimum
  left.
- BoundsWhenFit: `setPositions` without the minimum-left clamp.
- LayoutStoreRefined: `storePositionData` saving `relativeLeft` (in
  `DragEnd` for `layout`, in `ResizeEnd` for `resize`).
- ClassificationConsistent: `isTablet` including the LG threshold.
- PendingWhenStale: a width ref shared by every use, not read at setup.
- StaleWidthReclassified: a debounce without its trailing call.

### Fairness

In the engine, weak fairness is assumed for the two `setTimeout(0)`
callbacks. The browser runs every pending timer, and each stays enabled
until it runs. The throttle arms no timer (no trailing call), so
`ThrottleExpire` is only the passing of time and gets no fairness. In
the monitor, weak fairness is assumed for the debounced call (above).

## 4. Proofs

`NDVPanelsProofs.tla` proves two theorems for every value of the constants
allowed by the assumptions of `NDVPanels`:
- positive window sizes and units;
- configurations drawn from `Config`;
- numeric stored values, drag and resize inputs;
- sentinels that are not numbers.

- **TypeCorrect**: `Spec => []TypeOK`. TypeOK is inductive as it stands.
  `TypeInit` and `TypeStep` prove its two halves: one step per action, built
  on lemmas per helper. For example, `SetPositionsType`, `OnResizeFacts` and
  `WatchGeometryFacts` each show that a geometry stays a geometry, and
  `OrInt` shows that the `||` fallback of a number, NaN or nothing is a number.
- **SumWholeWithInputs**: if every configuration has an input slot, then
  `Spec => []SumWhole`. The inductive invariant is `TypeOK /\ TilesAll(dims)`,
  where `TilesAll` is SumWhole in the form the proof uses. The type half is
  needed because the tiling lemmas assume geometries, contexts and resize
  data. The argument has three parts:
  - `SetPositionsCases` and `SetPositionsSum`: every outcome of `setPositions`
    tiles the container unless the type is inputless.
  - `StoreWriteStep`: every step leaves the store as it is or writes one
    entry with a tiling geometry (`WriteOrKeep`). Each handler either ends in
    `setPositions` or leaves the entry unchanged: `MountedGeometryFacts`,
    `RestoreFacts`, `WatchGeometryFacts`, `OnResizeFacts` and
    `SetPositionByNameFacts`.
  - `WriteKeepsTiles`: such a step keeps every entry tiled.

  The hypothesis is needed: the `inputless_sum` run shows the property failing
  without it.

`NDVRefinementProofs.tla` proves **StoreRefinement**: under the same
hypothesis, `Spec => LayoutStoreRefined`. The refinement's initial states
match directly. For the steps, `StoreWriteStep` gives the abstract `Write`,
and a save is an abstract `Save` only if the saved type is not at the
sentinel. That needs an invariant stronger than tiling, so the proof uses
`RInv == TypeOK /\ TilesAll(dims) /\ Positioned /\ Gestures`:
- `Positioned`: the mounted instance's panel type tiles, so it is not at the
  sentinel (`SentinelNotTiled`).
- `Gestures`: a drag or resize gesture only runs while mounted, so
  `onDragEnd` and `onResizeEnd` save a positioned type.

`PositionedStep` splits `Mount` on the sentinel test of line 84. TLC checked
`Positioned` and `Gestures` as invariants before the proof was written.

`NDVBoundsProofs.tla` proves **BoundsWhenFitHolds**: `Spec => BoundsWhenFit`.
It holds for every value of the constants and every node configuration,
inputless ones included, so it needs no input-slot hypothesis. TLC
confirmed this beforehand on the inputless configurations. The argument has
two parts:
- `SetPositionsGood`: each of the three branches of `setPositions` lands
  between the margins whenever the width fits (`GoodWrite`).
  - The minimum-left clamp leaves room on the right.
  - The maximum-right clamp leaves room on the left.
  - The unclamped branch, and the inputless pin to the minimum left, passed
    both clamp tests.
- `SetPositionByNameGood`, `MountedGeometryGood`, `WatchGeometryGood` and
  `OnResizeGood` lift this to the handlers. Each ends in `setPositions` or
  leaves the geometry alone. `BoundsStep` checks each action, and in each
  one the context `setPositions` is given is the context of the new state.
  For example, the watcher uses the new `containerWidth`.

The only invariant the proof needs is `TypeOK`.

`BreakpointMonitorProofs.tla` proves, for all increasing thresholds and all
sets of natural widths:
- **TypeCorrect**.
- **StaleWidthPending**: `Spec => []PendingWhenStale`. The property is
  inductive as it stands.
- **FlagsPartition**: for every natural width, exactly one flag holds and
  `isDesktop` agrees with `bp`.
- **ClassificationAlways**: `Spec => []ClassificationConsistent`. It follows
  from `TypeOK`, since the width is a natural number, and three lemmas:
  - `ThresholdCounts`: the prefixes of the four increasing thresholds have
    0 to 4 elements, by `FS_Singleton` and `FS_AddElement` of
    `FiniteSetTheorems`.
  - `RankByThresholds`: a case split on the interval holding the width.
  - `OneFlag`: the set of true flags is a singleton.

Only TLC checks the following:
- `StaleWidthReclassified`, which is liveness. Liveness and `ENABLED` are
  out of the prover's reach.
- `SumWhole` and `LayoutStoreRefined` for configurations without an input
  slot. They are false there (`inputless_sum`), so the theorems assume an
  input slot.
- The violated properties.
- Everything that relies on the divisibility assumption `UnitDivisibility`,
  which the proofs do not need.

## 5. Not modelled, and why

- The watcher's `await nextTick()` (line 110) is one step in the model.
  `nextTick` resolves in a microtask after Vue's flush, and pointer events,
  window resizes and timers are tasks. No handler of this component can run
  between the watcher's two halves, so the split would add no behaviour.
- The build scripts (`src/scripts/*.sh`, `src/unnamed/part_000`,
  `part_003`). Each step is an external command (checks, installs, builds,
  docker) whose effect is I/O. The scripts keep no state of their own between
  steps, so a model would only restate the order of their lines.
- The mobile e2e test drives a browser. Its scenario, a 375 px window, is the
  vertical layout of `NDVPanels`.
- Rendering (styles other than the vertical top, arrows, emits) and the
  output panel translate only change what is drawn.
