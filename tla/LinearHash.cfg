SPECIFICATION FairSpec
CONSTANTS
    t1 = t1
    t2 = t2
    t3 = t3
    k1 = k1
    k2 = k2
    k3 = k3
    Thread = {t1, t2, t3}
    Key = {k1, k2, k3}
    UsedBy <- OwnKeys
    Erasers = {t2}
    N = 3
    Hash <- Wrapping
    Nil = Nil
    Value = {none, v}
    NoValue = none
    SizeModulus = 8
INVARIANTS
    NoDuplicateKey
    FindsInsertedValue
    NeverFull
PROPERTY
    CallsReturn
