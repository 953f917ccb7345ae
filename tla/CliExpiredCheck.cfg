SPECIFICATION CmdSpec
CONSTANTS
    keyS = keyS
    keyS2 = keyS2
    issue1 = issue1
    issue2 = issue2
    present1 = present1
    verify1 = verify1
    acme = acme
    Hash <- MCHash
    ShortNonce = {}
    OpenEnd = OpenEnd
    AnyScale = AnyScale
    MinSecond = 0
    MaxSecond = 9
    AllFields = AllFields
    CLAIM_TYPE_TAG = "claim_type"
    TagValue <- MCTagValue
    Invocation <- MCInvocation
    Scripts <- MCScripts
    Stdout = Stdout
    MixedKey = MixedKey
    Given <- MCGiven
    uni = uni
    MaxTime = 1
    MaxAtOnce = 2
CHECK_DEADLOCK FALSE
INVARIANT ExpiredCheckFails
