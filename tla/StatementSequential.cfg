SPECIFICATION Spec
CONSTANTS
    None = None
    T1 = T1  T2 = T2  C1 = C1  C2 = C2
    Session = {s1}
    Draft = {D1, D2}
    Content = {C1}
    Tenancy = {T1, T2}
    PartyCount <- OneRenterEach
    Source <- CreditOrNothing
    MaxVersion = 4
    MaxStatement = 2
INVARIANTS TypeOK FinalDraftsStand
  
CHECK_DEADLOCK FALSE
