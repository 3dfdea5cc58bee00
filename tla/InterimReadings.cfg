SPECIFICATION EnginesSpec
CONSTANTS
    Debts = {1}
    MaxTier = 1
    MaxAmount = 1
    MaxNominal = 1
    Buildings = {}
    Ledgers = {}
    Subjects = {}
INVARIANTS InterimReadingsCount
CHECK_DEADLOCK FALSE
