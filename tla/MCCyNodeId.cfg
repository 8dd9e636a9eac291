CONSTANTS
  NodeIdMax <- WideNodeIdMax
  NBits <- WideNBits
  WordBits <- WideWordBits
  NodeIdInvalid <- MCNodeIdInvalid
SPECIFICATION Spec
INVARIANT TypeOK
INVARIANT NodeIdValid
PROPERTY PickedIdFree
