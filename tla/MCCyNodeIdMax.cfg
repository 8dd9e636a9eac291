CONSTANTS
  NodeIdMax <- WideNodeIdMax
  NBits <- WideNBits
  WordBits <- WideWordBits
  NodeIdInvalid <- MCNodeIdInvalid
SPECIFICATION Spec
PROPERTY NodeIdKeptUntilCollision
