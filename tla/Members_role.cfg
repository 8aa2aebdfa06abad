\* A super user that is made a user.
CONSTANTS
    u1 = u1
    Users = {u1}
    LateUsers = {}
    Roles = {"User", "SuperUser"}
    MaxUid = 1
    MaxLag = 1
    MaxFaults = 0
SPECIFICATION Spec
INVARIANTS RightsFollowRole
