\* A user that joins, changes role, leaves and joins again with another role.
CONSTANTS
    u1 = u1
    Users = {u1}
    LateUsers = {}
    Roles = {"Reader", "User"}
    MaxUid = 2
    MaxLag = 1
    MaxFaults = 0
SPECIFICATION Spec
INVARIANTS TypeOK BindingsWithinRoles WrongReportPending
