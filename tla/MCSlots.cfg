\* One card that moves between two readers, with an applet for each of two
\* slots; two applets behind secure channels; a registry with a software
\* slot, an authenticator, a USB YubiHSM and one behind the connector; and the
\* operations of a session, on blocks of two units and messages of up to two
\* blocks and a half.
CONSTANTS
    Cards = {c1}
    Readers = {r1, r2}
    Applets = {piv, oath}
    ReadFails = FALSE
    Management = Management
    NoCard = NoCard
    NoReader = NoReader
    NoApplet = NoApplet
    ChannelApplets = {p, q}
    NoSelection = NoSelection
    MaxLogins = 3
    Callers = {t1, t2}
    SoftwareSlots = {soft}
    HidDevices = {fido}
    UsbHsms = {x}
    HttpHsms = {z}
    NoCaller = NoCaller
    BlockLength = 2
    TagLength = 1
    KeyLength = 2
    HashLength = 2
    MaxInput = 5
    MaxPart = 3
    MaxActive = 2
    NoOp = NoOp
SPECIFICATION MCSpec
INVARIANTS
    SelectionTrue
    LoginTrue
    ChannelKept
    FreshMatchesDevices
    StreamExact
    KeyUsedOnce
    QuotedLengthSuffices
PROPERTY
    NothingWithoutLogin
