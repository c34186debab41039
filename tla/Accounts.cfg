CONSTANTS
    Names = {n1, n2}
    Passwords = {p1, p2}
SPECIFICATION FairAccountsSpec
INVARIANTS
    AccountsAreSeparate
PROPERTIES
    RolesCatchUp
CHECK_DEADLOCK FALSE
