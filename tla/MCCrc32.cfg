CONSTANTS
  MessageBytes <- MCMessageBytes
  MaxMessage = 5
SPECIFICATION MessageSpec
INVARIANTS
  FcsIsRemainder
  FcsLeavesResidue
CHECK_DEADLOCK FALSE
