SPECIFICATION Spec
CONSTANTS
    Values <- Texts
    MaxSent = 2
    MaxBuffer = 8
    CutAnywhere = FALSE
CHECK_DEADLOCK FALSE
INVARIANTS FaithfulStream BufferBounded
