SPECIFICATION TxSpec
CONSTANTS
    NumJobs = 1
    Credits = {1, 2}
    Amounts = {1}
    Welcome = 2
    Refs = {r1}
    Txs = {t1, t2}
    Calls <- OneJobCalls
INVARIANTS
    TxTypeOK
    RepeatsReturnEarly
    DeadlocksAreOfHandler
PROPERTIES
    TransactionsAreAtomic
CHECK_DEADLOCK FALSE
