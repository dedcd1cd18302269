SPECIFICATION TlsSpec
CONSTANTS
    Thread = {1, 2}
    Key = {1, 2}
    UsedBy <- OwnId
    Erasers = {1, 2}
    Endings = "none"
    Careful = FALSE
    N = 3
    Hash <- CollidingIds
    Nil = nil
    Value = {null, p, q, r}
    NoValue = null
    NoAnswer = none
    SizeModulus = 4
INVARIANT GetReturnsOwn
