CONSTANTS
    c1 = c1
    c2 = c2
    Conns = {c1, c2}
    Limit = 1
    Pipe = 2
    Input = 2
    MaxOutput = 2
SPECIFICATION Spec
INVARIANTS TypeOK OneRunAtATime RunLeavesNothingBehind OutputIsAccountedFor StatusIsJustified
PROPERTIES EveryRunEnds
CHECK_DEADLOCK FALSE
