\* A user that is created after its member, and no resync.
CONSTANTS
    u1 = u1
    Users = {u1}
    LateUsers = {u1}
    Roles = {"Reader"}
    MaxUid = 1
    MaxLag = 1
    MaxFaults = 0
SPECIFICATION FairSpec
PROPERTIES InfoFollowsUser
