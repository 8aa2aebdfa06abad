\* Every interleaving of two calls, failures, restarts or switches of the feature.
CONSTANTS
    o1 = o1
    u1 = u1
    Orgs = {o1}
    Users = {u1}
    Durations = {}
    Webhooks = TRUE
    MaxLag = 1
    Kinds = {"update", "delete", "cluster", "member", "error", "feature", "restart"}
    MaxEvents = 2
SPECIFICATION Spec
CHECK_DEADLOCK FALSE
INVARIANTS TypeOK FinalizerBeforeBindings ReportedBindingsExist SubjectsWereSuperUsers
    ClustersKeepOrganization
