SPECIFICATION Spec
CONSTANTS
    ann = ann
    bob = bob
    num = num
    nil = nil
    any = any
    one = one
    Names = {ann, bob}
    Numbers = {num}
    Empty = nil
    Support <- MCSupport
    Queries = {any, one}
    Matches <- MCMatches
    Tool = TRUE
    Batch = 1
    MaxId = 3
INVARIANTS
    PickedIsCurrent
    BookHasAContact
PROPERTIES
    NobodyVanishes
    ImplementsStore
