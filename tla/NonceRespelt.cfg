SPECIFICATION NSSpec
CONSTANTS
    v1 = v1
    v2 = v2
    v3 = v3
    v4 = v4
    sA = sA
    sB = sB
    e1 = e1
    e2 = e2
    b1 = b1
    Verifier = {v1, v2, v3, v4}
    Did = {e1, e2}
    Nonce <- MCNonce
    AudienceOf <- MCAudienceOf
    StoreOf <- MCStoreOf
    Presentation <- MCPresentation
    MaxNow = 4
CHECK_DEADLOCK FALSE
INVARIANT ChallengeAnsweredOnce
