SPECIFICATION Spec
CONSTANTS
    BlockSize = 5
    LengthSize = 2
    Word = 128
    MaxLength = 18
    Null = null
    Base = 2
    UIntSize = 3
    LongSize = 2
    HashSize = 2
    NodeId = {0, 3}
    Primary = 0
    Number = {0, 4}
    Time = {0, 2}
    Block = {1, 3}
    MaxPackages = 4
    Data = {"a", "b", "c"}
    MaxBlocks = 5
    MaxMade = 1
    Poster = {p1, p2}
    Reader = {r1, r2}
    NoPoster = noposter
    MaxPosts = 4
    Key = {k1, k2, k3}
    MaxNodes = 2
    NETWORK_BUFFER_SIZE = 1
    NoOne = noone
INVARIANTS
    StreamKept
    PadsAsStandard
    BytesTellApart
    IndexNotAhead
    ProofLeadsToRoot
    RootNamesChain
    NoBrokenPromise
    ThrowsNothing
    OldDatumWhilePosting
    KeyOfSender
    ReaderRegistered
PROPERTIES
    WaiterServed
    StoppedNodeEnds
CHECK_DEADLOCK FALSE
