CONSTANTS
    Messages <- AllMessages
    transaction_hash <- TransactionHash
    SignatureSize = 2
    KeyHashSize = 2
    MaxPacket = 44
    StaleBytes = {0, 3}
SPECIFICATION FairSpec
CHECK_DEADLOCK FALSE
INVARIANTS TypeOK ScriptParameters IncompleteIsStandard ReservedSeen
PROPERTIES ComputesSighash DigestComes
