SPECIFICATION SessionSpec
CONSTANTS
    Users = {u1}
    Nobody = nobody
    MaxVisits = 1
    MaxSetups = 2
INVARIANT KeyOpensVault
CHECK_DEADLOCK FALSE
