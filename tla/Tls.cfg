SPECIFICATION TlsSpec
CONSTANTS
    Thread = {1, 2}
    Key = {1, 2}
    UsedBy <- OwnId
    Erasers = {1, 2}
    Endings = "emptied"
    Careful = TRUE
    N = 2
    Hash <- CollidingIds
    Nil = nil
    Value = {null, p, q}
    NoValue = null
    NoAnswer = none
    SizeModulus = 3
INVARIANT
    ObjectsHaveOneOwner
PROPERTY
    ImplementsThreadLocal
