SPECIFICATION Spec
CONSTANTS
    None = None
    T1 = T1  T2 = T2  C1 = C1  C2 = C2
    Session = {s1, s2}
    Draft = {D1}
    Content = {C1, C2}
    Tenancy = {T1, T2}
    PartyCount <- OneRenterEach
    Source <- Settled
    MaxVersion = 4
    MaxStatement = 1
INVARIANT FinalDraftFrozen
CHECK_DEADLOCK FALSE
