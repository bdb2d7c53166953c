CONSTANTS
    b1 = b1
    b2 = b2
    s1 = s1
    s2 = s2
    v1 = v1
    v2 = v2
    extern = extern
    NoFile = NoFile
    Torn = Torn
    Builders = {b1, b2}
    Sources = {s1, s2}
    Bridges = {extern}
    Externs <- MCExterns
    Variants = {v1, v2}
SPECIFICATION Spec
INVARIANTS LinkedObjectIsCurrent EntriesHeal
