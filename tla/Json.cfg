SPECIFICATION ModelSpec
CONSTANTS
    MaxDepth = 3
    TerminateIn = {"on_key", "on_value", "on_array", "on_new_object", "on_new_array",
                   "on_object_end", "on_array_end"}
    Texts = 2
    Name = {k, l}
    MaxCells = 10
INVARIANTS
    CallsFollowText
    OnlyDepthAndExponentsAreRefused
    TruncationIsReported
    ModelIsText
CHECK_DEADLOCK FALSE
