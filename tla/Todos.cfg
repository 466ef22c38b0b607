SPECIFICATION Spec
CONSTANTS
    Agent = {a1, a2}
    MaxTodos = 3
    LeaseMax = 1
    LeaseDefault = 1
    PageSize = 1
    MaxPosition = 3
INVARIANTS   ListingIsComplete
SYMMETRY Labels
CONSTRAINT ListingAlone
