SPECIFICATION Spec
CONSTANTS
    Session = {S1, S2}
    A1 = A1
    R1 = R1
    R2 = R2
    X = X
    Archive = {A1}
    Renter = {R1, R2}
    Parties <- Couple
    Email <- SharedAddress
    Blocked = {}
    Gateway = {"enforcing", "plain"}
    Day = {1, 2}
    Boundary = {1}
    MaxEvent = 2
    None = None
INVARIANTS TypeOK MailedOnce 
PROPERTIES NoMailToSuppressed
SYMMETRY Symmetric
