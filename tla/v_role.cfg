SPECIFICATION TeamSpec
CONSTANTS
    Users = {u1, u2}
    TeamCalls = {c1}
    MaxSessions = 1
    MaxStumbles = 0
    NoUser = NoUser
INVARIANTS SessionsFollowRole
CHECK_DEADLOCK FALSE
