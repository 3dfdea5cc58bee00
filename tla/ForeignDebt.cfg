SPECIFICATION Spec
CONSTANTS
    None = None
    P1 = P1  P2 = P2  P3 = P3  R1 = R1  R2 = R2
    A = A  B = B  C = C  IbanA = IbanA  IbanNew = IbanNew
    Session = {s1}
    Payment = {P1}
    Return = {}
    Receivable = {1, 2}
    Renter = {A, B}
    Iban = {IbanA, IbanNew}
    Tx <- ForeignAmountTx
    Debt <- DebtsOfBoth
    Opening <- OpeningRent
    KnownIban <- Owned
INVARIANTS AutoMatchNamesOwner
CHECK_DEADLOCK FALSE
