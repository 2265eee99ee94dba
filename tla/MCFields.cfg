SPECIFICATION Spec
CONSTANTS
    b = b
    c = c
    d = d
    e = e
    None = None
    Field <- MCField
    Engine <- MCEngine
    Input <- MCInput
    Values = 2
    Links <- MCLinks
    Watched <- MCWatched
    Switched <- MCSwitched
    Built <- MCBuilt
    MaxCalls = 4
INVARIANTS LinksAgree CleanIsCurrent
PROPERTIES NotificationReaches ReadsArePure
CHECK_DEADLOCK FALSE
