SPECIFICATION Spec
CONSTANTS
    r = r
    o = o
    i = i
    p = p
    q = q
    x = x
    y = y
    v = v
    elt = elt
    None = None
    CacheElement = CacheElement
    Separator = {r, o, i}
    Property = {p, q}
    Shape = {x, y, v}
    Element = {elt}
    Scene <- MCScene
    Editable <- MCEditable
    Sets <- MCSets
    Reads <- MCReads
    Accumulating = {}
    Lines = {x}
    Slow = {y}
    Volatile = {v}
    MaxChanges = 4
INVARIANTS BoxIsCurrent LinesKnown AppliedIsCached StateRestored
CHECK_DEADLOCK FALSE
