SPECIFICATION MCSpec
CONSTANTS
    Base = 9
    MAX_SERIALISED_INT_LEN = 2
    UINT_RANGE = 81
    INT_MAX = 31
    SSIZE_MAX = 80
    NODE_ID_LEN = 1
    MaxDepth = 2
    NULL = NULL
    ABORT = ABORT
    ERROR = ERROR
    Me <- MCMe
    Others <- MCOthers
    Peers <- MCPeers
    NodeName <- MCNodeName
    PubKey <- MCPubKey
    Metric <- MCMetric
    PeerFlags <- MCPeerFlags
    Paths <- MCPaths
    lsa_attrs_serialise <- AttrsSerialise
    lsa_deserialise_attr_set <- AttrSetDeserialise
    ReadSizes = {1}
    WriteSizes = {0, 20}
    MaxNetKeepalive = 0
    BUFSIZE = 65
    MAX_SERLEN = 63
    LSA_MAX_BYTES = 63
    VERSIONS_PER_SECOND = 5
    MaxTime = 2
    MaxUpdates = 2
    MaxSent = 2
    MaxNet = 75
INVARIANTS
    BytesBoundLength SignaturesVerify
PROPERTIES
    AbortsOnlyOnDuplicate ImplementsChannel VersionsGrow WrittenIsRead
CHECK_DEADLOCK FALSE
