SPECIFICATION WebSpec
CONSTANTS
    employment = employment
    education = education
    s1 = s1
    s2 = s2
    Request <- MCRequest
    Seeded <- MCSeeded
    Issuable <- MCIssuable
CHECK_DEADLOCK FALSE
CONSTANTS
    Script = {}
    MaxVisits = 3
INVARIANT OnlyCheckedShown
