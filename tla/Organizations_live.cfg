\* Expiry, deletion and changes of members, each in the end, with a failure or a restart.
CONSTANTS
    o1 = o1
    u1 = u1
    Orgs = {o1}
    Users = {u1}
    Durations = {1}
    Webhooks = TRUE
    MaxLag = 1
    Kinds = {"update", "cluster", "member", "error", "restart"}
    MaxEvents = 1
SPECIFICATION FairSpec
CHECK_DEADLOCK FALSE
PROPERTIES DeletedGo ExpiredDeleted RightsFollowMembers
