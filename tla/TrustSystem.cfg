SPECIFICATION TSSpec
CONSTANTS
    alice = alice
    bob = bob
    acme = acme
    initech = initech
    gov = gov
    checker = checker
    agency = agency
    identity = identity
    check = check
    scale = scale
    idIdentity = idIdentity
    idCheck = idCheck
    idOther = idOther
    sA = sA
    sB = sB
    v1 = v1
    v2 = v2
    v3 = v3
    n1 = n1
    open = open
    any = any
    Subject = {alice, bob}
    Did = {acme, initech}
    Issuer = {checker, agency}
    Accreditor = {gov}
    Category = {identity, check}
    ClaimId = {idIdentity, idCheck}
    Verifier = {v1, v2, v3}
    UsesRegistry = {v1, v2}
    Nonce = {n1}
    ShortNonce = {}
    OpenEnd = open
    OpenEnded = open
    AnyScale = any
    Hash <- MCHash
    Claim <- MCClaim
    Records <- MCRecords
    Policy <- MCPolicy
    AudienceOf <- MCAudienceOf
    StoreOf <- MCStoreOf
    RequestSets <- MCRequestSets
    AllFields = AllFields
    CLAIM_TYPE_TAG = "claim_type"
    TagValue <- MCTagValue
    MinSecond = 0
    MaxSecond = 9
    Ttl = 1
    MaxNow = 2
    MaxEpoch = 1
INVARIANTS TSTypeOK AcceptedSpeaksForPresenter
PROPERTIES NoWithdrawnEvidence AcceptedIsAuthoritative
