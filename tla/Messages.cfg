SPECIFICATION Spec
CONSTANTS
    a = a
    b = b
    Chars = {a, b}
    Seeds <- MCSeeds
    Batch = 1
    MaxId = 3
    MaxText = 2
INVARIANTS
    OpenIsStored
PROPERTY
    ImplementsMailbox
