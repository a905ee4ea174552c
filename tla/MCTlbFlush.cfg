CONSTANTS
    CPU = {c1, c2}
    Space = {s1, s2}
    Edited = {s1}
    Page = {v1, v2}
    Frame = {f1, f2}
    NoSpace = NoSpace
    NoFrame = NoFrame
    FLUSH_ALL_OPS_THRESHOLD = 2
    MaxCalls = 2
    MaxChanges = 3
SPECIFICATION Spec
INVARIANTS
    FramesOutliveTlb
    CoherentAfterSync
PROPERTIES
    FlushesComplete
