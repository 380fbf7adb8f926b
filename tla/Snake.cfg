SPECIFICATION Spec
CONSTANTS
    nowhere = nowhere
    Nowhere = nowhere
    GRID_W = 3
    GRID_H = 4
    Keys <- MCKeys
INVARIANTS
    NeckIsSafe
    BodyIsPath
    FoodInTheOpen
