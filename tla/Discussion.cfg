SPECIFICATION MCSpec
CONSTANTS
    client = client
    agent = agent
    root = root
    answer = answer
    None = None
    Now = {r1, r2, r3}
    Requests <- MCRequests
    Users <- MCUsers
    RoleOf <- MCRoleOf
    Reporter = client
    Colleagues <- MCColleagues
    ReactionTypes = {"LIKE", "IN_PROGRESS"}
CHECK_DEADLOCK FALSE
SYMMETRY NowSymmetry
INVARIANTS
    TypeOK
    CounterNeverInvents
    AuthorsFindTheirComments
    CounterIsExact
    TogglesAlternate
PROPERTIES
    OnlyStaleWritesSpoil
