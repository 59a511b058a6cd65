SPECIFICATION Spec
CONSTANTS
    Runs = {p1, p2, p3}
    Hidden = {p3}
    None = None
    p1 = p1
    p2 = p2
    p3 = p3
INVARIANTS OneOwner
PROPERTIES PublishedByOwner NothingAfterSwitch
CHECK_DEADLOCK FALSE
