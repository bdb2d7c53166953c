CONSTANTS
    a = a
    b = b
    v = v
    w = w
    l = l
    m = m
    n = n
    NoName = NoName
    Main = Main
    Subjects = {"views"}
    Owners = {a, b}
    Givens = {{a, b}}
    Views = {v}
    Shapes = {"loop_carried"}
    MaxLength = 6
    MaxRounds = 1
    Methods = {}
    Mutators = FALSE
    MaxStatements = 0
    MaxFrames = 0
SPECIFICATION CallablesSpec
INVARIANTS UsedViewsAreLive
CHECK_DEADLOCK FALSE
