CONSTANTS
    VALUE_WIDTH = 128
    MAX_INT_DIGITS = 20
    DECIMAL_DIGITS = 8
    MessageWidth = 64
    MaxSymbols = 256
    Stale = 88
    defaultLockScript <- DefaultScript
    multisigLockScript <- MultisigScript
    Rows <- TimelockedRows
SPECIFICATION Spec
CHECK_DEADLOCK FALSE
INVARIANT RowFits
