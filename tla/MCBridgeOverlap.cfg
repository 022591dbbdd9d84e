SPECIFICATION FairSpec
CONSTANTS
    Submissions = {s1}
    PersonOf <- SamePerson
    Drains = {d1, d2}
    Requests = {r1}
    Nobody = Nobody
    MaxRetries = 3
    MaxTroubles = 1
INVARIANTS
    NothingIsForgotten
PROPERTIES
    EverySubmissionSettles
CHECK_DEADLOCK FALSE
