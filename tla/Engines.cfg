SPECIFICATION EnginesSpec
CONSTANTS
    Debts = {1, 2, 3}
    MaxTier = 2
    MaxAmount = 5
    MaxNominal = 3
    Buildings <- SmallBuildings
    Ledgers <- SmallLedgers
    Subjects <- SmallSubjects
INVARIANTS PaymentsAllocated AllocationMatchesDays 
        
CHECK_DEADLOCK FALSE
