SPECIFICATION DevicesSpec
CONSTANTS
    c1 = c1
    c2 = c2
    r1 = r1
    r2 = r2
    Cards = {c1, c2}
    Readers = {r1}
    ReadFails = FALSE
    NoCard = NoCard
    NoReader = NoReader
INVARIANT
    SerialOwnsSlots
