SPECIFICATION ContainersSpec
CONSTANTS
    N = 3
    Key = {1, 2, 3, 4}
    Val = {x, y}
    Hash <- HashColliding
    Erases = {1}
    Full = Full
    Duplicate = Duplicate
    NoKey = NoKey
    Void = Void
    Word <- SomeWords
    OffSize = 2
    StringN = 4
    Char = {1, 2}
    CopiesResize = FALSE
    Stack = {1, 2, 3}
    Capacity <- SomeCapacities
    Item = {1, 2}
    SizeMod = 256
    MaxItems = 4
    WordBits = 3
    Words = 2
    RunMax = 2
    NoMemory = NoMemory
    Any = {a, b, c}
    Resource = {r, s}
    Null = Null
    Number = Number
    NoObject = NoObject
    TVal = {y}
    Default = x
    Junk = Junk
    MaxDepth = 3
    MaxNodes = 3
INVARIANTS
    ZsetIsSorted
    StringIsText
    StacksAgree
    AnyOwnsObject
    TreeIsPaths
PROPERTY
    ImplementsDictionary
