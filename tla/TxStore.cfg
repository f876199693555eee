SPECIFICATION Spec
CONSTANTS
    a1 = a1
    a2 = a2
    v1 = v1
    v2 = v2
    Attrs <- MCAttrs
    Values <- MCValues
    Multi <- MCMulti
    Unique <- MCUnique
    Identity <- MCIdentity
    TxInputs <- MCTxInputs
    MaxTx = 3
    MaxEntities = 2
INVARIANT TypeOK
INVARIANT OneValue
INVARIANT OneOwner
INVARIANT CounterRecoverable
PROPERTY HistoryImmutable
PROPERTY FactStoreSpec
CHECK_DEADLOCK FALSE
