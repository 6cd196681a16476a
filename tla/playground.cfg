CONSTANTS
    Requests = {r1, r2, r3}
    Budget = 2
    Providers = {"ollama", "sdk"}
    MaxTokens = 3
    MaxRuns = 2
    None = None
SPECIFICATION PartsSpec
INVARIANTS OverspendIsBounded ChargedAsAnswered OutputInOrder CleanRunIsWhole
PROPERTIES CompletionsEnd RunsEnd
CHECK_DEADLOCK FALSE
