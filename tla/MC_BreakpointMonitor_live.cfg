CONSTANTS
  BREAKPOINT_SM = 768
  BREAKPOINT_MD = 992
  BREAKPOINT_LG = 1200
  BREAKPOINT_XL = 1920
  Widths <- MCWidths
  MaxResizes = 3
SPECIFICATION Spec
PROPERTIES
  StaleWidthReclassified
