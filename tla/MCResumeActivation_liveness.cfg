SPECIFICATION FairSpec
CONSTANTS
    j1 = j1  q1 = q1  q2 = q2  w1 = w1  g1 = g1
    None = None
    Versions = {1, 2}
    Primary = {2}
    Jobs = {j1}
    Requests = {q1}
    Worker = w1
    Belts = {}
    Cap = 2
    MaxSaves = 2
    MaxCalls = 3
    MaxFaults = 2
PROPERTY TerminalStateWritten
CHECK_DEADLOCK FALSE
