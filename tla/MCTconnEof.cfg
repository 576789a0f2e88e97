SPECIFICATION Spec
CONSTANTS
    TX_BUF = 4
    RX_BUF = 3
    MaxMsg = 3
INVARIANT VerifyTxTask
CHECK_DEADLOCK FALSE
