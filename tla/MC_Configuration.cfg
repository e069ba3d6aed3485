\* Files of up to three rules, texts of up to four tokens.
SPECIFICATION FairSpec
CONSTANTS
    MaxRules = 3
    MaxTokens = 4
    IntMin <- MCIntMin
    IntMax = 3
    SensorId <- MCSensorId
    Files <- MCFiles
    Strings <- MCStrings
    Numbers <- MCNumbers
INVARIANTS
    ParsesJson
    ReadAsWritten
    PlacedOnce
    TokensAgree
    CounterPerRule
    HigherFirst
PROPERTIES
    ImplementsPreparation
    ConfigurationEnds
