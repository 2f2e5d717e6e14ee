SPECIFICATION VisualSpec
CONSTANTS
  Units = 1
  StopAfterBegin = FALSE
PROPERTY RedrumReturns
