SPECIFICATION Spec
CONSTANTS
    MaxSeq = 3
    MaxDist = 2
    MaxPoints = 4
INVARIANTS
    ListsAgree
    StrictShapeIsOrdered
    LookupFindsSegment
