CONSTANTS
    k1 = k1
    k2 = k2
    k3 = k3
    v1 = v1
    v2 = v2
    v3 = v3
    v4 = v4
    NoLoop = NoLoop
    Keys = {k1, k2, k3}
    Values = {v1, v2, v3, v4}
    Items = {v1, v2, v3}
    Blank = Blank
    NoVisit = NoVisit
    FirstCapacity = 2
    MaxSize = 4
    Texts = {k1, k2, k3}
    NoTurn = NoTurn
    Copies = 2
SPECIFICATION CollectionsSpec
INVARIANTS CollectionsTypeOK OrderMatchesMap OneOwner LoopMeetsItsKeys
    BlockIsInitialised OneElementOwner VisitReadsElements SequenceMatchesMembers
PROPERTIES BehavesLikeAssociation BehavesLikeSeries
CHECK_DEADLOCK FALSE
