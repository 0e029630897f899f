\* Both ways to the phone, with a retry or with the death of a process.
SPECIFICATION BTSpec
CONSTANTS
    Settings <- ThreeSettings
    MaxAttempts = 2
    Answers <- OneAnswer
INVARIANT CallbackTargetsAlive
INVARIANT WriteDataKept
INVARIANT RelayLosesNothing
PROPERTY PhoneLetGo
CHECK_DEADLOCK FALSE
