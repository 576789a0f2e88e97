SPECIFICATION Spec
CONSTANTS
    TX_BUF = 4
    RX_BUF = 3
    MaxMsg = 3
INVARIANTS TypeOK  NothingUnsent
PROPERTIES CongestionEnds ReceivedIsRead ErrorEndsConnection
CHECK_DEADLOCK FALSE
