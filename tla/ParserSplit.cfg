SPECIFICATION Spec
CONSTANTS
    Values <- Texts
    MaxSent = 2
    MaxBuffer = 13
    CutAnywhere = TRUE
CHECK_DEADLOCK FALSE
INVARIANTS FaithfulStream
