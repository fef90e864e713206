CONSTANTS
    Object = {d1, d2, d3}
    Interface = {i1, i2, i3, i4}
    Introspectable = introspectable
    None = none
    MaxSources = 5
    MaxDepth = 5
    Rules = {"quietGetter", "sendsNothing", "keepsAll", "announced"}
SYMMETRY Symmetry
SPECIFICATION Spec
INVARIANTS NoFault Bookkeeping
CHECK_DEADLOCK FALSE
