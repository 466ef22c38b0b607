SPECIFICATION Spec
CONSTANTS
    Project = {"p1", "p2"}
    Home = "p1"
    Whole = "service"
    Draft <- MCDraft
    AlertKinds = {"crashed"}
    ReadKinds <- MCReadKinds
    Ring = 2
    Newest = 1
    MaxAlerts = 1
    Reader = {r1}
    Call = {c1, c2}
    ClientSets = {{r1}, {c1, c2}}
    NoCursor = NoCursor
    NoAnswer = NoAnswer
    MaxEvents = 3
    MaxEpoch = 2
INVARIANTS  AlertedOnce
PROPERTIES FeedIsServed
SYMMETRY MCSymmetry
CHECK_DEADLOCK FALSE
