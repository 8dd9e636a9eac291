CONSTANTS
  p1 = p1
  p2 = p2
  p3 = p3
  None = None
  Payloads <- MCPayloads
  Frags <- MCFrags
  HeaderSize <- MCHeaderSize
  DestSizes <- MCDestSizes
SPECIFICATION Spec
INVARIANT TypeOK
INVARIANT OwnershipSound
INVARIANT GatherFaithful
