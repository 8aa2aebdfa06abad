\* Sign-up, verification and reset of one user: two calls at once around a sign-up code
\* and a reset code, late copies, one restart, failed call or deletion of the user.
CONSTANTS
    u1 = u1  e1 = e1  w1 = w1  s1 = s1  r1 = r1  p1 = p1  p2 = p2
    DockyardsUsers = {u1}
    OIDCUsers = {}
    Emails = {e1}
    Passwords = {w1}
    SignUpCodes = {s1}
    ResetCodes = {r1}
    Calls = {p1, p2}
    Webhooks = FALSE
    Removable = {u1}
    MaxLag = 1
    MaxFaults = 1
SPECIFICATION Spec
SYMMETRY Symmetry
INVARIANTS TypeOK VerifiedBeforeReady SessionsOnlyForVerified AuthorizationReported ResetCodeUsedOnce
PROPERTIES ReadyLostOnlyToOldestCopy ImplementsOneTimeCode
