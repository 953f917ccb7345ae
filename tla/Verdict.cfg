SPECIFICATION MCSpec
CONSTANTS
    alice = alice
    acme = acme
    bob = bob
    mallet = mallet
    uni = uni
    checker = checker
    degree = degree
    check = check
    scale1 = scale1
    scale2 = scale2
    idDegree = idDegree
    idCheck = idCheck
    idIdentity = idIdentity
    idOther = idOther
    idMaster = idMaster
    idBob = idBob
    n1 = n1
    nShort = nShort
    open = open
    any = any
    Subject = alice
    Audience = acme
    Elsewhere = mallet
    Nonce = {n1, nShort}
    ShortNonce = {nShort}
    OpenEnd = open
    AnyScale = any
    Garbage <- MCGarbage
    Hash <- MCHash
    Held <- MCHeld
    Selections <- MCSelections
    Requests <- MCRequests
    Ttl = 1
    MaxNow = 2
    MaxChanges = 4
    Me = alice
    Reader = acme
    Claim <- MCClaim
    SelectionLists <- MCSelectionLists
    RequestLists <- MCRequestLists
    TagValue <- MCTagValue
    CLAIM_TYPE_TAG = "claim_type"
    AllFields = AllFields
    MinSecond <- MCMinSecond
    MaxSecond = 4
    Clock = {0, 3}
    Lifetimes <- MCLifetimes
    Anchor <- MCAnchor
    FreshNonce = n1
    MaxClaims = 3
INVARIANTS AcceptedAsSigned AmberIsRecoverable NoLaundering WindowIsLifetime AcceptedIfSound AnswersAreTaken ShowsWhatWasAsked
PROPERTIES NarrowingNeverOpens
