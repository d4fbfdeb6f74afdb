CONSTANTS
    MAX_SCREEN_COUNT = 8
    Requests <- AllRequests
    PairsPerPage = 2
    MaxRequests = 3
    MaxSwitches = 2
SPECIFICATION Spec
CHECK_DEADLOCK FALSE
INVARIANTS RowsTellData SettingsTold
PROPERTIES RequestsAreShown AcceptedAfterAllRows
