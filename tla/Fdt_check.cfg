SPECIFICATION Spec
CONSTANTS
  Sizes = {28, 90, 160}
  Finished <- MCFinished
  Overlays <- MCOverlays
  NewNames <- MCNewNames
  PropNames <- MCPropNames
  Vals <- MCVals
  Ranges <- MCRanges
  SwCalls = 7
  RwCalls = 2
INVARIANTS Implements Answers ReadsAgree
PROPERTIES PhandlesStayUnique
CHECK_DEADLOCK FALSE
