SPECIFICATION RegSpec
CONSTANTS
    acme = acme
    check = check
    gov1 = gov1
    gov2 = gov2
    claim = claim
    open = open
    Issuer = {acme}
    Accreditor = {gov1, gov2}
    Category = {check}
    ClaimId = {claim}
    Rules <- MCRules
    Windows <- MCWindows
    OpenEnded = open
    MaxEpoch = 2
    MaxRecords = 1
    MaxSigs = 2
PROPERTY RevokedForGood
