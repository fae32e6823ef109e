SPECIFICATION DevicesSpec
CONSTANTS
    c1 = c1
    c2 = c2
    r1 = r1
    r2 = r2
    Cards = {c1, c2}
    Readers = {r1, r2}
    ReadFails = TRUE
    NoCard = NoCard
    NoReader = NoReader
INVARIANTS
    BoundOnce
    CheckedSerial
    WorkerIsFree
PROPERTY
    CardsAreFound
