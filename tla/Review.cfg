SPECIFICATION Spec
CONSTANTS
    None = None
    P1 = P1  P2 = P2  P3 = P3  R1 = R1  R2 = R2
    A = A  B = B  C = C  IbanA = IbanA  IbanNew = IbanNew
    Session = {s1, s2}
    Payment = {P1, P2, P3}
    Return = {R1}
    Receivable = {1, 2}
    Renter = {A, B}
    Iban = {IbanA, IbanNew}
    Tx <- ReviewTx
    Debt <- TieDebts
    Opening <- OpeningRent
    KnownIban <- Owned
SYMMETRY Sessions
INVARIANTS WorkspaceShowsLedger LearnedByConfirmation
PROPERTIES ImplementsLifecycle
CHECK_DEADLOCK FALSE
