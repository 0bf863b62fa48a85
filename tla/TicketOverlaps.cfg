SPECIFICATION MCSpec
CONSTANTS
    cust = cust
    cadm = cadm
    agent = agent
    mgr = mgr
    None = None
    past <- MCPast
    Live = {r1, r2, r3}
    Requests <- MCRequests
    Users <- MCUsers
    RoleOf <- MCRoleOf
    ProjectRoleOf <- MCProjectRoleOf
    Priorities = {"MEDIUM", "HIGH"}
    Serial = FALSE
    Scenes <- RacingScenes
CHECK_DEADLOCK FALSE
SYMMETRY LiveSymmetry
INVARIANTS
    TypeOK
    ApprovalGate
    EventsAreFacts
    StatusExplained
    AllOrNothing
    ConflictMeansProgress
PROPERTIES
    OnlyStaleCommitsDepart
    HistoryAppendOnly
