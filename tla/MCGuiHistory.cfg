\* Lists of two out of three entries, two windows, one fault.
CONSTANTS
    Windows = {w1, w2}
    Entries = {a, b, c}
    MAX_RECENTS = 2
    MAX_USES = 4
    MAX_FAULTS = 1
SPECIFICATION Spec
SYMMETRY Symmetry
INVARIANTS KeepsRecentsAlone NoneTwice
