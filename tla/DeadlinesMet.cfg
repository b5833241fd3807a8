SPECIFICATION Spec
CONSTANTS
    Settings <- MCSettings
    Waits <- MCWaits
    Period = 2
    TimerMax = 5
    Lag = 1
    Cap = 15
INVARIANTS
    NothingOutstays
    ProbeSettles
PROPERTY
    NoEarlyEnd
