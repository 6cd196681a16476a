CONSTANTS
    s1 = s1
    s2 = s2
    v1 = v1
    Programs = {s1, s2}
    Servers = {s1}
    Build <- Compiled
    Backends = {"sqlite", "postgres"}
    Begun = {0, 15, 20}
    Together = 5
    MaxCrashes = 1
    MaxMoves = 1
    Versions = {v1}
    NoVersion = NoVersion
SPECIFICATION FairBoot
INVARIANTS NoRowLost RecordedIsApplied
PROPERTIES BackfillSparesPromotions BootsInTheEnd
