CONSTANTS
    a = a
    b = b
    v = v
    w = w
    l = l
    m = m
    n = n
    NoName = NoName
    Main = Main
    Subjects = {"receivers"}
    Owners = {}
    Givens = {{}}
    Views = {}
    Shapes = {}
    MaxLength = 0
    MaxRounds = 0
    Methods = {l, m, n}
    Mutators = TRUE
    MaxStatements = 2
    MaxFrames = 1
SPECIFICATION CallablesSpec
INVARIANTS ImmutableRootsAreKept
CHECK_DEADLOCK FALSE
