\* Bindings in the end, of a user that leaves and joins again, with a failure.
CONSTANTS
    u1 = u1
    Users = {u1}
    LateUsers = {u1}
    Roles = {"Reader"}
    MaxUid = 2
    MaxLag = 1
    MaxFaults = 1
SPECIFICATION ResyncSpec
PROPERTIES MemberAuthorized
