SPECIFICATION Spec
CONSTANTS
    Codes = {"b"}
    Text <- Texts
    MaxLen = 4
    Allocated = 4
    Growth = 1
    Junk = Junk
INVARIANTS
    TypeOK
    TextCovered
    InplaceAgrees
PROPERTIES
    IsList
