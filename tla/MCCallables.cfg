CONSTANTS
    a = a
    b = b
    v = v
    w = w
    l = l
    m = m
    n = n
    NoName = NoName
    Main = Main
    Subjects = {"views", "receivers"}
    Owners = {a, b}
    Givens = {{a}, {a, b}}
    Views = {v, w}
    Shapes = {}
    MaxLength = 6
    MaxRounds = 1
    Methods = {l, m, n}
    Mutators = FALSE
    MaxStatements = 4
    MaxFrames = 3
SPECIFICATION CallablesSpec
INVARIANTS UsedViewsAreLive IteratedStorageIsLive BorrowsCoverReferences
    ImmutableRootsAreKept EffectIsLeast
SYMMETRY CallableSymmetry
CHECK_DEADLOCK FALSE
