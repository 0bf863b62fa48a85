SPECIFICATION MCSpec
CONSTANTS
    cust = cust
    cadm = cadm
    agent = agent
    mgr = mgr
    None = None
    past <- MCPast
    Live = {r1, r2}
    Requests <- MCRequests
    Users <- MCUsers
    RoleOf <- MCRoleOf
    ProjectRoleOf <- MCProjectRoleOf
    Priorities = {"MEDIUM", "HIGH"}
    Serial = FALSE
    Scenes <- PairScenes
CHECK_DEADLOCK FALSE
PROPERTIES
    StatusFollowsTransitions
