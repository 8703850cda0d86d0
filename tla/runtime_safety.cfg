SPECIFICATION Spec
CONSTANTS
    Connections = {a, b}
    Databases = {d1, d2}
    Schemas = {s1}
    Jobs = {j1, j2, j3}
    MaxGeneration = 2
    None = None
SYMMETRY Symmetry
CHECK_DEADLOCK FALSE
INVARIANTS RuntimeInv StaleOnlyIfLate
