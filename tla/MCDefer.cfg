CONSTANTS
    a = a
    b = b
    p = p
    q = q
    None = None
    Roots = {a, b}
    ValueParams = {}
    RefParams = {}
    ParamOrder <- NoParams
    Fallible = TRUE
    MaxClock = 8
    Families <- DeferFamilies
    Shapes = {}
SPECIFICATION Program
INVARIANTS NoUseAfterMove NoDoubleDrop NoLeak
    ReverseRegistration DefersProcessedOnce
SYMMETRY LocalSymmetry
