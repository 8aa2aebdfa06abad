\* Two acceptances at once, with a failure at any step.
CONSTANTS
    i1 = i1  i2 = i2  u1 = u1  p1 = p1  p2 = p2
    Invites = {i1, i2}
    Users = {u1}
    Calls = {p1, p2}
    Webhooks = TRUE
    MaxLag = 2
    MaxFaults = 1
SPECIFICATION Spec
SYMMETRY Symmetry
INVARIANTS TypeOK InvitationNotLost AcceptedConsumed
PROPERTIES ExpiredInvitationKept
