SPECIFICATION Spec
CONSTANTS
    a1 = a1
    a2 = a2
    v1 = v1
    v2 = v2
    Attrs <- MCAttrs
    Values <- MCValues
    Multi <- MCMulti
    Unique <- MCUnique
    Identity <- MCIdentity
    TxInputs <- MCTxInputs
    MaxTx = 3
    MaxEntities = 2
INVARIANT ContradictionsAbort
CHECK_DEADLOCK FALSE
