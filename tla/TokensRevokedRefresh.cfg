SPECIFICATION MCSpec
CONSTANTS
    old = old
    Now = {r1, r2, r3}
    client = client
    owner = owner
    agent = agent
    boss = boss
    inn10 = inn10
    inn12 = inn12
    None = None
    NoText = NoText
    Requests <- MCRequests
    Users <- MCUsers
    RoleOf <- MCRoleOf
    Letters = {"A", "B"}
    Digits <- MCDigits
    KeysAsked <- MCKeysAsked
    MaxKeyLength = 4
    MaxAttempts = 3
    Emails = {"e1", "e2"}
    InvitedRoles = {"CUSTOMER", "SUPPORT_AGENT", "FINANCE"}
    TicksPerSecond = 2
    Lifetimes <- MCLifetimes
    MaxNow = 5
    Inns = {inn10, inn12}
    InnLength <- MCInnLength
    CounterpartyEmails = {"c1", "c2", "c3"}
    Products = {"p1", "p2"}
    KnownProducts = {"p1"}
    MaxHours = 3
    MaxTotal = 6
    Uploads = {"u1", "u2"}
    MaxText = 4
    NumberLengths <- MCNumberLengths
    SubscriberLength = 2
    MaxName = 4
    Servers = {"s1", "s2"}
    Skew <- MCSkew
    MaxDelay = 1
    Window = 4
    KeyPad = 2
    Limit = 2
    LastTick = 6
    Channels = {k1, k2}
    QueueCapacity = 1
    Customer = client
    ProjectStaff = {boss}
    Media = {"EMAIL", "IN_APP"}
    Preferred <- MCPreferred
    Muted = {owner}
    PageSize = 1
CHECK_DEADLOCK FALSE
SYMMETRY MCSymmetry
PROPERTIES
    RevokedBuysNothing
