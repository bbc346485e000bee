\* Two transactions, a refused (3) and two accepted limits besides the default
\* of 100; 13 steps let a limit of 4 trim twice and a limit of 5 once.
SPECIFICATION Spec
CONSTANTS
    Payload = {tx1, tx2}
    Requests = {3, 4, 5}
    MaxStep = 13
INVARIANTS TypeOK WindowInv
PROPERTY ImplementsStepLog
CHECK_DEADLOCK TRUE
