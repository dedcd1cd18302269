SPECIFICATION ListsSpec
CONSTANTS
    N = 3
    Item = {a, b}
    None = None
    MaxOffset = 3
    MaxCleared = 2
    ListNode = {n1, n2, n3}
    List = {l1, l2}
    Null = Null
    ChunkSize = 2
    Most = 4
INVARIANTS
    TailFollowsHead
    SameAnswers
    NodesAreSound
    LinkedNodesAreItems
    ChunksAreContents
PROPERTIES
    ImplementsDeque
    XorlistIsDeque
