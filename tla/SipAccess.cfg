CONSTANTS
    u1 = u1
    u2 = u2
    Clients = {u1, u2}
    NonceLife = 1
    SeenLife = 2
    SeenCap = 0
    MaxExpires = 2
    Lifetimes = {0, 3}
    MaxSeq <- MCMaxSeq
    MaxTime = 3
SPECIFICATION Spec
CHECK_DEADLOCK FALSE
INVARIANTS
    AcceptedOnce
    RegistrarInv
PROPERTIES
    OvertakenIsRefused
    RefusedForCause
