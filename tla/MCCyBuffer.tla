----------------------------- MODULE MCCyBuffer -----------------------------
EXTENDS CyBuffer, TLC

CONSTANTS p1, p2, p3

MCPayloads == {p1, p2, p3}
\* The 8-byte topic hash scaled to 2 bytes.  p1 is a chain whose head holds
\* just the hash, then an empty fragment (cy.h: "the size of a payload
\* fragment may be zero") and one byte; p2 is shorter than the hash, p3 is
\* one fragment.
MCHeaderSize == 2
MCFrags == p1 :> <<2, 0, 1>> @@ p2 :> <<1>> @@ p3 :> <<3>>
MCDestSizes == 0..3
=============================================================================
