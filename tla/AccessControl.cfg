CONSTANTS
    Users = {sys, adm, usr}
    Builtin = {sys}
    CliUsers = {adm}
    Roles = {Administrator, ReadOnly}
    Administrator = Administrator
    ReadOnly = ReadOnly
    NoRole = NoRole
    Cases = {c1}
    Keys = {k1}
    KeyTypes = {API}
    Requests = {r1, r2}
    NoRow = NoRow
    NoUser = NoUser
    NoKey = NoKey
    NoCase = NoCase
    MaxPassword = 1
    MaxOps = 3
    MaxFails = 1
SPECIFICATION Spec
SYMMETRY MCSymmetry
INVARIANTS AccessFollowsUsers EnforcerFollowsTable PasswordsStay RevokedKeysStayOut
CHECK_DEADLOCK FALSE
