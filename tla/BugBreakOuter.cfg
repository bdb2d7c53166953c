CONSTANTS
    a = a
    b = b
    p = p
    q = q
    None = None
    Roots = {a}
    ValueParams = {}
    RefParams = {}
    ParamOrder <- NoParams
    Fallible = FALSE
    MaxClock = 5
    Families <- BreakFamilies
    Shapes = {"break_outer"}
SPECIFICATION Program
INVARIANTS NoDoubleDrop
