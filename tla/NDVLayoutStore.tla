--------------------------- MODULE NDVLayoutStore ---------------------------
(***************************************************************************)
(* What the NDV layout engine promises of the two stores it writes, with   *)
(* the engine's handlers, timers and gestures left out (spec 2 and 9).     *)
(*   - store: ndvStore.mainPanelDimensions.  Every panel type starts at    *)
(*     the {1, 1, 1} sentinel; a write replaces the geometry of one type   *)
(*     and always leaves one that tiles the container (left + width +      *)
(*     right = 1).                                                         *)
(*   - saved: localStorage, one relative width per panel type.  A save     *)
(*     copies the width the store holds for the type at that moment, and  *)
(*     only once the type has been positioned: the sentinel width is never *)
(*     persisted.                                                          *)
(* A write and a save never happen in one step.                            *)
(***************************************************************************)
EXTENDS Integers

CONSTANTS
  PanelTypes,   \* the keys of mainPanelDimensions
  Unit,         \* the relative value 1
  Sentinel,     \* the default {relativeLeft: 1, relativeWidth: 1, relativeRight: 1}
  Stored        \* the values localStorage may hold at page load

VARIABLES store, saved

vars == <<store, saved>>

Geometry == [left: Int, width: Int, right: Int]

Tiled(g) == g \in Geometry /\ g.left + g.width + g.right = Unit

Init ==
  /\ store = [t \in PanelTypes |-> Sentinel]
  /\ saved \in [PanelTypes -> Stored]

(* setMainPanelDimensions for one panel type: a tiling geometry.           *)
Write(t) ==
  /\ Tiled(store'[t])
  /\ store' = [store EXCEPT ![t] = store'[t]]
  /\ UNCHANGED saved

(* storePositionData for one panel type that has been positioned.          *)
Save(t) ==
  /\ store[t] # Sentinel
  /\ saved' = [saved EXCEPT ![t] = store[t].width]
  /\ UNCHANGED store

Next == \E t \in PanelTypes : Write(t) \/ Save(t)

Spec == Init /\ [][Next]_vars

=============================================================================
