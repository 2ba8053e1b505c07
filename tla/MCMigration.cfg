SPECIFICATION Spec
CONSTANTS
    None = None
    Error = Error
    Codes <- MCCodes
    MaxChains = 5
INVARIANTS MigrationTypeOK SeedReferencesHold SeededWhole Recoverable SeedsNeverResume
CHECK_DEADLOCK FALSE
