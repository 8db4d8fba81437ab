SPECIFICATION WorkspaceSpec
CONSTANTS
    q1 = q1
    q2 = q2
    q3 = q3
    h1 = h1
    h2 = h2
    Reqs = {q1, q2, q3}
    Stored = {q1, q2}
    Focus = q1
    Handlers = {h1, h2}
    MaxServed = 3
SYMMETRY WorkspaceSymmetry
CHECK_DEADLOCK FALSE
INVARIANTS
    OnlyApprovedExported
