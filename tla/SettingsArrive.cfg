SPECIFICATION Spec
CONSTANTS
    Samples <- TwoTexts
    Offers <- SomeOffers
    CustomDefaults <- SharedFiles
    MaxCalls = 2
INVARIANTS
    Arrives
    Usable
    OneDisplaySize
    TimezoneHeard
    UtilitiesAgree
CHECK_DEADLOCK FALSE
