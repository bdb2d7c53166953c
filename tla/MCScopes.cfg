CONSTANTS
    a = a
    b = b
    p = p
    q = q
    None = None
    Roots = {a, b, p}
    ValueParams = {p}
    RefParams = {}
    ParamOrder <- OneParam
    Fallible = FALSE
    MaxClock = 8
    Families <- ScopeFamilies
    Shapes = {}
SPECIFICATION Program
INVARIANTS TypeOK CleanupMatchesScopes
    NoUseAfterMove NoDoubleDrop NoLeak AvailabilityIsSound
SYMMETRY LocalSymmetry
