--------------------------- MODULE BreakpointMonitor ---------------------------
(***************************************************************************)
(* The breakpoint monitor of useBreakpoints (src/packages/frontend/       *)
(* editor-ui/src/composables/__tests__/useBreakpoints.test.ts, lines       *)
(* 80-135): a component that uses it gets a width ref taken from           *)
(* window.innerWidth at setup, a breakpoint bp and the isMobile, isTablet  *)
(* and isDesktop flags computed from it, and a window resize listener,    *)
(* registered on mount and removed before unmount, that defers the        *)
(* re-read of window.innerWidth through a 50 ms debounce (useDebounce,    *)
(* not in this repository: modelled from spec 4.1 as a trailing debounce  *)
(* that each event re-arms).                                               *)
(***************************************************************************)
EXTENDS Integers, FiniteSets

CONSTANTS
  BREAKPOINT_SM, BREAKPOINT_MD, BREAKPOINT_LG, BREAKPOINT_XL,  \* @/constants
  Widths,       \* values window.innerWidth takes (px)
  MaxResizes    \* bound: window resize events per behaviour

ASSUME BreakpointAssumption ==
  /\ {BREAKPOINT_SM, BREAKPOINT_MD, BREAKPOINT_LG, BREAKPOINT_XL} \subseteq Nat
  /\ BREAKPOINT_SM < BREAKPOINT_MD /\ BREAKPOINT_MD < BREAKPOINT_LG
  /\ BREAKPOINT_LG < BREAKPOINT_XL
  /\ Widths \subseteq Nat /\ Widths # {}
  /\ MaxResizes \in Nat

Breakpoints == {"XS", "SM", "MD", "LG", "XL"}

(* The computed bp of a width.                                             *)
bp(w) ==
  IF w < BREAKPOINT_SM THEN "XS"
  ELSE IF w >= BREAKPOINT_XL THEN "XL"
  ELSE IF w >= BREAKPOINT_LG THEN "LG"
  ELSE IF w >= BREAKPOINT_MD THEN "MD"
  ELSE "SM"

isMobile(w) == w <= BREAKPOINT_SM

(* Mutant: the tablet range includes the LG threshold.                     *)
isTabletInclusive(w) == w > BREAKPOINT_SM /\ w <= BREAKPOINT_LG

isTablet(w) == w > BREAKPOINT_SM /\ w < BREAKPOINT_LG
isDesktop(w) == w >= BREAKPOINT_LG

VARIABLES
  innerWidth,   \* window.innerWidth
  width,        \* the width ref of the mounted component's useBreakpoints
  listening,    \* its resize listener is registered
  debounce,     \* its debounced onResizeEnd is pending
  resizes       \* model bound: resize events so far

vars == <<innerWidth, width, listening, debounce, resizes>>

Init ==
  /\ innerWidth \in Widths
  /\ width = innerWidth
  /\ listening = FALSE
  /\ debounce = FALSE
  /\ resizes = 0

(* Mutant: the width ref is shared by every use (created once, at import) *)
(* instead of being read from window.innerWidth for each component.       *)
MountSharedRef ==
  /\ ~listening
  /\ listening' = TRUE
  /\ debounce' = FALSE
  /\ UNCHANGED <<innerWidth, width, resizes>>

(* A component calls useBreakpoints in setup and is mounted in the same   *)
(* task: width = ref(window.innerWidth), then addEventListener('resize'). *)
(* A new instance has its own debounced function, so nothing is pending.  *)
Mount ==
  /\ ~listening
  /\ width' = innerWidth
  /\ listening' = TRUE
  /\ debounce' = FALSE
  /\ UNCHANGED <<innerWidth, resizes>>

(* onBeforeUnmount removes the listener.  A pending debounced call is not *)
(* cancelled, but it only writes the width ref of the destroyed instance. *)
Unmount ==
  /\ listening
  /\ listening' = FALSE
  /\ debounce' = FALSE
  /\ UNCHANGED <<innerWidth, width, resizes>>

(* The window is resized; the registered onResize (re)arms the debounce.   *)
Resize(w) ==
  /\ resizes < MaxResizes
  /\ resizes' = resizes + 1
  /\ innerWidth' = w
  /\ debounce' = (debounce \/ listening)
  /\ UNCHANGED <<width, listening>>

(* Mutant: a debounce without its trailing call: the window closes and    *)
(* onResizeEnd is never run.                                               *)
DebounceFiresNoTrailing ==
  /\ debounce
  /\ debounce' = FALSE
  /\ UNCHANGED <<innerWidth, width, listening, resizes>>

(* 50 ms after the last event the debounced onResizeEnd runs and reads     *)
(* window.innerWidth.                                                      *)
DebounceFires ==
  /\ debounce
  /\ width' = innerWidth
  /\ debounce' = FALSE
  /\ UNCHANGED <<innerWidth, listening, resizes>>

Next ==
  \/ Mount
  \/ Unmount
  \/ \E w \in Widths : Resize(w)
  \/ DebounceFires

(* The browser runs a pending timer.                                       *)
Spec == Init /\ [][Next]_vars /\ WF_vars(DebounceFires)

-----------------------------------------------------------------------------
TypeOK ==
  /\ innerWidth \in Widths
  /\ width \in Widths
  /\ listening \in BOOLEAN
  /\ debounce \in BOOLEAN
  /\ resizes \in 0..MaxResizes

(* The breakpoint of a width is fixed by how many of the four thresholds  *)
(* it reaches (spec 4.1: classify is monotonic and exhaustive).            *)
Rank == [b \in Breakpoints |->
           CASE b = "XS" -> 0 [] b = "SM" -> 1 [] b = "MD" -> 2
             [] b = "LG" -> 3 [] b = "XL" -> 4]

ThresholdsReached(w) ==
  {b \in {BREAKPOINT_SM, BREAKPOINT_MD, BREAKPOINT_LG, BREAKPOINT_XL} : b <= w}

Flags(w) == <<isMobile(w), isTablet(w), isDesktop(w)>>

(* The width the component holds is classified by the thresholds it       *)
(* reaches, exactly one of isMobile, isTablet and isDesktop holds, and     *)
(* isDesktop holds exactly on LG and XL (spec 4.1 and 8).                  *)
ClassificationConsistent ==
  /\ Rank[bp(width)] = Cardinality(ThresholdsReached(width))
  /\ Cardinality({i \in 1..3 : Flags(width)[i]}) = 1
  /\ isDesktop(width) <=> bp(width) \in {"LG", "XL"}

(* While the listener is registered, a width that no longer matches the    *)
(* window always has a debounced onResizeEnd pending: no resize is lost    *)
(* between the setup read and the listener, or by the debounce.            *)
PendingWhenStale ==
  (listening /\ width # innerWidth) => debounce

(* A mounted component whose width is stale eventually reads the window    *)
(* again, unless it is unmounted first: a burst of resizes ends in one     *)
(* reclassification (spec 4.1).                                            *)
StaleWidthReclassified ==
  (listening /\ width # innerWidth) ~> (~listening \/ width = innerWidth)

=============================================================================
