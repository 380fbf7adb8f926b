SPECIFICATION Spec
CONSTANTS
    Letters = {2, 3}
    Gap = 2
    Duration = 4
    Repeats = 4
    MaxText = 6
PROPERTIES
    ClearsOnlyWhenHeld
    ImplementsDraft
