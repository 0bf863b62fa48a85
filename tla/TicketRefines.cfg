SPECIFICATION MCSpec
CONSTANTS
    cust = cust
    cadm = cadm
    agent = agent
    mgr = mgr
    None = None
    past <- MCPast
    Live = {r1, r2, r3, r4, r5}
    Requests <- MCRequests
    Users <- MCTwoUsers
    RoleOf <- MCRoleOf
    ProjectRoleOf <- MCProjectRoleOf
    Priorities = {"MEDIUM"}
    Serial = TRUE
    Scenes <- SerialScenes
CHECK_DEADLOCK FALSE
SYMMETRY LiveSymmetry
PROPERTIES
    ImplementsLifecycle
INVARIANTS
    StampsMatchHistory
