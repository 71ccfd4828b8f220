SPECIFICATION CellsSpec
CONSTANTS
    a = a
    b = b
    c = c
    Names = {a, b, c}
    Unnamed = Unnamed
    DepLists <- MCDepLists
    MaxCells = 3
INVARIANTS CellsTypeOK CyclesAreFound DownstreamIsReach
PROPERTY EditsAreLocal
