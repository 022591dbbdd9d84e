SPECIFICATION Spec
CONSTANTS
    Submissions = {s1, s2}
    PersonOf <- SamePerson
    Drains = {d1}
    Requests = {r1, r2}
    Nobody = Nobody
    MaxRetries = 2
    MaxTroubles = 1
SYMMETRY Symmetry
INVARIANTS
    SequentialSubmissionsDeduplicated
PROPERTIES
    ImplementsCapture
CHECK_DEADLOCK FALSE
