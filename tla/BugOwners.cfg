CONSTANTS
    A = A
    B = B
    Names = {A, B}
    FieldTypes <- SomeFields
    Templates <- SomeTemplates
    Signatures <- SomeSignatures
    Bodies <- SomeBodies
    Mains <- SomeMains
    Shapes = {"collection_field"}
    MaxWritten = 2
    MaxDepth = 2
    MaxCount = 3
    Depths = {0, 1, 2, 3, 4, 5, 6}
SPECIFICATION Spec
INVARIANTS OwnersAgree
CHECK_DEADLOCK FALSE
