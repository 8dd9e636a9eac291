CONSTANTS
  NodeIdMax <- CanNodeIdMax
  NBits <- CanNBits
  WordBits <- CanWordBits
  NodeIdInvalid <- MCNodeIdInvalid
SPECIFICATION Spec
INVARIANT NodeIdValid
