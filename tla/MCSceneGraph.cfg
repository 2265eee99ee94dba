SPECIFICATION Spec
CONSTANTS
    r = r
    a = a
    k = k
    x = x
    y = y
    p1 = p1
    p2 = p2
    None = None
    Node <- MCNode
    Groups <- MCGroups
    Kit <- MCKit
    Separator = {a}
    Path <- MCPath
    Scene <- MCScene
    Routes <- MCRoutes
    MaxChildren = 3
    MaxCut = 1
    MaxCalls = 4
INVARIANTS PathsMatch RefsAgree
PROPERTIES ChangesReachTheTop OnlyRelevantTold
CHECK_DEADLOCK FALSE
