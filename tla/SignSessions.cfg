SPECIFICATION FairSpec
CONSTANTS
    WORD = 128
    me = me
    change = change
    alice = alice
    bob = bob
    wallet = wallet
    stem = stem
    timelock = timelock
    beginning = beginning
    Hashes = {me, change, alice, bob, wallet, stem}
    ZeroHash = zero
    NoPeriod = none
    Periods = {none, timelock, beginning}
    FirstBytes <- BytesOf
    AsPeriod <- PeriodOf
    MAX_INPUTS = 3
    MAX_CELLS = 7
    Transactions <- Various
    MaxSettingChanges = 1
    MaxSessions = 2
CHECK_DEADLOCK FALSE
PROPERTIES ReviewIsFaithful ParseEnds
