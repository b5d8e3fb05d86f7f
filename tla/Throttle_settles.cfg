SPECIFICATION FairSpec
CONSTANTS
    Replicas = {insp, r1, r2}
    Inspected = insp
    Policies = {"recheck", "hibernate"}
    Answers = {"200", "-1"}
    IgnoreHTTPErrors = FALSE
    ClearsURL = FALSE
    MaxRetries = 0
    MaxChanges = 2
    MaxRechecks = 1
INVARIANTS TypeOK NoGapAfterHibernation
PROPERTIES ThrottlingSettles
