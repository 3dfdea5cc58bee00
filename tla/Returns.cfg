SPECIFICATION FairSpec
CONSTANTS
    None = None
    P1 = P1  P2 = P2  P3 = P3  R1 = R1  R2 = R2
    A = A  B = B  C = C  IbanA = IbanA  IbanNew = IbanNew
    Session = {s1, s2}
    Payment = {P1, P2}
    Return = {R1, R2}
    Receivable = {1}
    Renter = {A, B}
    Iban = {IbanA, IbanNew}
    Tx <- ReturnTx
    Debt <- DebtsOfA
    Opening <- OpeningRent
    KnownIban <- Owned
INVARIANTS TypeOK BookedOnce EvidenceBeforeMoney ReversedOnce
PROPERTIES SessionsFinish
CHECK_DEADLOCK FALSE
