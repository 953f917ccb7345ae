SPECIFICATION MCSpec
CONSTANTS
    a = a
    b = b
    identity_basis = identity_basis
    prior_check = prior_check
    Genuine = v
    Value = {v, w}
    Salt = {s, t}
    Drawn = s
    Category <- MCCategory
    Reliance <- MCReliance
    MaxAlterations <- MCMaxAlterations
    HexBase = 3
    LengthWidth = 2
    IntWidth = 4
    U32Width = 2
    Domain <- MCDomain
    Bytes <- MCBytes
    Ints <- MCInts
    U32s = {0, 1}
    Character <- MCCharacter
    MaxCalls = 2
    MaxText = 5
    degree = degree
    check = check
    scale1 = scale1
    v = v
    open = open
    acme = acme
    other = other
    n1 = n1
    Hash <- MCHash
    Held <- MCHeld
    Key <- MCKey
    FirstYears <- MCFirstYears
    Subject <- alice
    Audience = acme
    Elsewhere = other
    Nonce = n1
    Forged = forged
    ShortNonce = {}
    OpenEnd = open
    AnyScale = any
    Resolvable <- MCResolvable
    ExportDays = {1, 29}
    Hours = {0, 86399}
    Lifetimes = {1, 3000000}
    MaxWalk = 366
    MaxAltered = 1
CHECK_DEADLOCK FALSE
INVARIANTS HonestIsProven ProvenIsIssued Unambiguous OneTextPerCase
INVARIANTS CalendarAgrees RoundTripsExactly ImportedIsSigned ImportIsStable
PROPERTY ClaimAndDisclosureAgree
