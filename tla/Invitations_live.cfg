\* Expiry with failures and restarts.
CONSTANTS
    i1 = i1  i2 = i2  u1 = u1  p1 = p1  p2 = p2
    Invites = {i1, i2}
    Users = {u1}
    Calls = {}
    Webhooks = FALSE
    MaxLag = 2
    MaxFaults = 2
SPECIFICATION FairSpec
PROPERTIES ExpiredRemoved
