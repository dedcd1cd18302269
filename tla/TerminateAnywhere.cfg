SPECIFICATION Spec
CONSTANTS
    MaxDepth = 2
    TerminateIn = {"on_key", "on_value", "on_array", "on_new_object", "on_new_array",
                   "on_object_end", "on_array_end"}
    Texts = 1
INVARIANT TerminateStops
CHECK_DEADLOCK FALSE
