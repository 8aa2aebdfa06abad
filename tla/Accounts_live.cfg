\* Liveness: one address, whose owner signs up or comes from an identity provider;
\* one call, two sign-up codes, one restart or failed call.
CONSTANTS
    u1 = u1  o1 = o1  e1 = e1  w1 = w1  s1 = s1  s2 = s2  p1 = p1
    DockyardsUsers = {u1}
    OIDCUsers = {o1}
    Emails = {e1}
    Passwords = {w1}
    SignUpCodes = {s1, s2}
    ResetCodes = {}
    Calls = {p1}
    Webhooks = TRUE
    Removable = {}
    MaxLag = 1
    MaxFaults = 1
SPECIFICATION FairSpec
PROPERTIES VerifiedLeadsToReady ReadyLeadsToCleanup UnverifiedGetsRequest OIDCUserAuthorized
