SPECIFICATION RecordsSpec
CONSTANTS
    Parts = {"advances", "meters", "streams", "costs", "bank", "uvi", "guards", "checklists"}
    Session = {s1, s2}
    Content = {r1, r2}
    Adopted = {r2}
    MaxVersion = 3
    Period = {2025}
    Amount = {1, 2}
    AdvanceStart = {1}
    MaxPayment = 3
    MaxReconciliation = 1
    Meter = {1, 2}
    InstalledMeter = {1}
    MeterDay = {1, 2}
    MaxMeterRequest = 4
    Cost = {1, 2}
    Key = {"AREA", "UNITS"}
    NoKey = "NONE"
    CostDay = {1, 2, 3}
    MaxCostRequest = 4
    MaxAgreement = 2
    BankAccount = {"bank_1", "bank_2"}
    BankSequence <- Banks
    ProviderId = {1}
    BookedOn <- DayOfMovement
    Reach = 1
    Today = {1, 2, 3}
    MaxPull = 3
    Tenancy = {"T1"}
    Month = {2, 3}
    ValidFrom = {2, 4}
    ValidTo = {5, 6}
    NoEnd = 99
    MaxConfiguration = 2
    MaxReading = 3
    MaxRun = 2
    Source = {"U1", "A1"}
    KindOf <- Tables
    Asked = 2
    GuardDay = {1}
    Entry = {1, 2}
    ItemKey = {"k1", "k2"}
INVARIANTS TypesOK AdvancesAddUp OneEffectiveReading  KeyMatchesClassification
    MovementsImportedOnce OneRunPerMonth GuardRecordsAgree
SYMMETRY Symmetric
CHECK_DEADLOCK FALSE
