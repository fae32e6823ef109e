SPECIFICATION Spec
CONSTANTS
    Slots = {s1, s2}
    Threads = {t1, t2}
    MaxHandle = 2
    NoSlot = NoSlot
SYMMETRY Symmetry
INVARIANTS
    SoExcludesReadOnly
    NoLoginWithoutSession
    PrivateNeedsUser
    OwnersAreOpen
    SessionsRouted
PROPERTIES
    ClosedStaysClosed
    ImplementsTokenSessions
