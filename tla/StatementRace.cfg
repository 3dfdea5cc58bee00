SPECIFICATION Spec
CONSTANTS
    None = None
    T1 = T1  T2 = T2  C1 = C1  C2 = C2
    Session = {s1, s2}
    Draft = {D1}
    Content = {C1}
    Tenancy = {T1, T2}
    PartyCount <- Couple
    Source <- CreditOrDebts
    MaxVersion = 3
    MaxStatement = 2
INVARIANTS OneVersionChain ChargedOnce
PROPERTY ImplementsRegister
CHECK_DEADLOCK FALSE
