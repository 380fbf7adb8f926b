SPECIFICATION ListSpec
CONSTANTS
    N = 7
    MaxLines = 3
    Keys <- MCKeys
INVARIANTS
    SelectionVisible
PROPERTY
    ImplementsChoice
