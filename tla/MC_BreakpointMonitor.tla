------------------------- MODULE MC_BreakpointMonitor -------------------------
(***************************************************************************)
(* The thresholds of @/constants (SM 768, MD 992, LG 1200, XL 1920), the   *)
(* widths of the tests of useBreakpoints (375, 1000, 1400) and every       *)
(* threshold with the pixel just below it.                                 *)
(***************************************************************************)
EXTENDS BreakpointMonitor

MCWidths == {375, 767, 768, 991, 992, 1000, 1199, 1200, 1400, 1919, 1920}
=============================================================================
