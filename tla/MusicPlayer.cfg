\* Pids enough for a song, the zombie of the one before it and a program of
\* somebody else.
SPECIFICATION Spec
CONSTANT
    Pids = {1, 2, 3}
INVARIANTS
    SilentOutsideNowPlaying
    SignalsOwnChild
    PauseIsTrue
PROPERTY
    EndLeavesScreen
