CONSTANTS
    s = s
    t = t
    n = n
    y = y
    absent = absent
    Syms = {s, t}
    Values = {n, y, absent}
    No = n
    Absent = absent
    Missing = Missing
    Partial = Partial
    Hollow = Hollow
SPECIFICATION Spec
SYMMETRY Symmetry
INVARIANTS AConfigIsKept UpToDateIsTrue
