SPECIFICATION Spec
CONSTANTS
    Size = 5
    BlockSizes = {1, 2, 3}
    MaxTarget = 3
    MaxCount = 10
INVARIANTS TypeOK Consolidated  SearchSound NeededExact
PROPERTY AddIsUnion
