SPECIFICATION Spec
CONSTANTS
    Session = {S1, S2}
    Code = {C1, C2}
    R1 = R1
    R2 = R2
    Renter = {R1, R2}
    T1 = T1
    T2 = T2
    Tenancy = {T1, T2}
    Person = {P1, Stranger}
    KnownPerson = {P1}
    D1 = D1
    D2 = D2
    D3 = D3
    Source = {D1, D2, D3}
    Party <- Parties
    Archive <- Archives
    MaxAttempt = 2
    None = None
INVARIANTS TypeOK  DocumentsOfOwnTenancy PublicationsAreChains NoCircularWait
SYMMETRY Symmetric
