SPECIFICATION Spec
CONSTANTS
    j1 = j1  q1 = q1  q2 = q2  w1 = w1  g1 = g1
    None = None
    Versions = {1, 2}
    Primary = {1, 2}
    Jobs = {j1}
    Requests = {q1, q2}
    Worker = w1
    Belts = {g1}
    Cap = 2
    MaxSaves = 2
    MaxCalls = 2
    MaxFaults = 1
INVARIANTS TypeOK TwoActiveOnlyIfOverlapped CurrentFromCurrentProfile CompleteMeansEvaluated
CHECK_DEADLOCK FALSE
SYMMETRY MCSymmetry
