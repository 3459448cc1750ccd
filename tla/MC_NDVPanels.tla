--------------------------- MODULE MC_NDVPanels ---------------------------
(***************************************************************************)
(* Small instances of NDVPanels for TLC.  Widths: 540 lies between         *)
(* MIN_WINDOW_WIDTH (518) and the 558 px that two margins and a minimum    *)
(* panel need, and below the 768 px vertical-layout breakpoint; 1280 is a  *)
(* laptop; 1920 is above the 1700 px large-panel threshold.               *)
(* Unit = 2 * lcm(540, 1280, 1920) makes every px / width exact.          *)
(***************************************************************************)
EXTENDS NDVPanels

MCGridWidths == {540, 1280, 1920}
MCGridHeights == {1000}
MCUnit == 69120
MCGridWidths2 == {1280, 1920}
MCUnit2 == 7680
MCUnitH == 2000
MCMainNodePanelWidth == 360

(* A regular draggable node, and a non-draggable node whose parameter pane *)
(* is wide (the dragless type with a doubled fixed panel width).           *)
MCLayoutConfigs ==
  { [input |-> TRUE, draggable |-> TRUE, hide |-> FALSE, pane |-> "regular"],
    [input |-> TRUE, draggable |-> FALSE, hide |-> FALSE, pane |-> "wide"] }

(* A draggable node with a wide parameter pane (the wide type).            *)
MCWideConfig ==
  { [input |-> TRUE, draggable |-> TRUE, hide |-> FALSE, pane |-> "wide"] }

(* Trigger-like nodes without an input pane, draggable or not.             *)
MCInputlessConfigs ==
  { [input |-> FALSE, draggable |-> FALSE, hide |-> FALSE, pane |-> "regular"],
    [input |-> FALSE, draggable |-> TRUE, hide |-> FALSE, pane |-> "regular"] }

(* A stored relative width of 0.8, and a corrupt entry.                    *)
MCStoredInit == {(Unit * 4) \div 5, NaN}
MCDragXs == {400, 900}
MCDragYs == {500}

(* Vertical layout: a 540 px wide window at two heights, 1000 px and      *)
(* 960 px, both tall enough for the three stacked panels; UnitH is         *)
(* 2 * lcm(1000, 960).  A drag at y = 300 px asks for a top above the      *)
(* input band, which setVerticalPositions clamps.                           *)
MCVerticalWidths == {540}
MCVerticalHeights == {1000, 960}
MCUnitHVertical == 48000
MCVerticalDragYs == {300, 500}
MCNoDragXs == {}
MCResizeXs == {700, 1100}

(* A 720 px window, exactly the 2 * 360 px initial width of the wide type, *)
(* and no localStorage entry: the wide panel's relative width is 1.        *)
MCGridWidths720 == {720}
MCUnit720 == 1440
MCNoStoredInit == {}

(* A relative width of 1/6 saved in a session at a 1920 px window (320 px, *)
(* above MIN_PANEL_WIDTH), read at page load.                              *)
MCStoredSixth == {Unit \div 6}
MCNoResizeXs == {}
=============================================================================
