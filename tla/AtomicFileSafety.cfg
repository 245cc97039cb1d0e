SPECIFICATION Spec
CONSTANTS
    Writers = {w1, w2, w3}
    Contents = {c1, c2}
    Absent = Absent
    Alien = Alien
    Faults = TRUE
    MaxCrashes = 1
SYMMETRY MCSymmetry
INVARIANTS
    CrashSafe AtMostOneCreator
