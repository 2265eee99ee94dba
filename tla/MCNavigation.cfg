SPECIFICATION Spec
CONSTANTS
    m1 = m1
    m2 = m2
    App = App
    Root = Root
    Machines = {m1, m2}
    Switching = {m1}
    Services <- MCServices
    Names <- MCNames
    States <- MCStates
    Finals <- MCFinals
    Lineage <- MCLineage
    First = "idle"
    Initial <- MCInitial
    Transitions <- MCTransitions
    OnEntry <- MCOnEntry
    OnExit <- MCOnExit
    MaxQueue = 1
    MaxBacklog = 0
    Posted <- MCPosted
    Rotating = "rotate"
    Spinning = "spin"
INVARIANTS NothingStranded OneActive ProperNesting 
