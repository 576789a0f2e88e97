SPECIFICATION Spec
CONSTANT Conns = {1, 2, 3}
INVARIANTS ConnectHoldsItsState ConnsAreReachable
PROPERTIES EndsAgree SessionComesBack
CHECK_DEADLOCK FALSE
