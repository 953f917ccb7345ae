SPECIFICATION MCSpec
CONSTANTS
    v1 = v1
    v2 = v2
    v3 = v3
    v4 = v4
    sA = sA
    sB = sB
    e1 = e1
    e2 = e2
    b1 = b1
    Verifier = {v1, v2, v3, v4}
    Did = {e1, e2}
    Nonce <- MCNonce
    AudienceOf <- MCAudienceOf
    StoreOf <- MCStoreOf
    Presentation <- MCPresentation
    MaxNow = 4
    r1 = r1
    r2 = r2
    r3 = r3
    c1 = c1
    c2 = c2
    Run = {r1, r2, r3}
    Challenge = {c1, c2}
    keyS = keyS
    keyS2 = keyS2
    issue1 = issue1
    issue2 = issue2
    present1 = present1
    verify1 = verify1
    acme = acme
    Hash <- MCHash
    ShortNonce = {}
    OpenEnd = OpenEnd
    AnyScale = AnyScale
    MinSecond = 0
    MaxSecond = 9
    AllFields = AllFields
    CLAIM_TYPE_TAG = "claim_type"
    TagValue <- MCTagValue
    Invocation <- MCInvocation
    Scripts <- MCScripts
    Stdout = Stdout
    MixedKey = MixedKey
    Given <- MCGiven
    uni = uni
    MaxTime = 1
    MaxAtOnce = 2
    h1 = h1
    h2 = h2
    alice = alice
    bob = bob
    x = x
    y = y
    p1 = p1
    p2 = p2
    Handle = {h1, h2}
    Owner = {alice, bob}
    Evidence = {x, y}
    Passphrase = {p1, p2}
CHECK_DEADLOCK FALSE
INVARIANTS AtMostOnce NonceNotReused OnlyAcceptedBurns SpentIsRed
INVARIANTS AloneIsFinal KeptOrRefused
INVARIANTS IntactUnlessTorn CurrentCopiesLoseNothing VerdictIsEarned RevealIsKept
PROPERTY ImplementsSingleUse
