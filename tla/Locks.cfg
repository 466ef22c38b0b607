SPECIFICATION Spec
CONSTANTS
    Session = {s1, s2}
    Name = {n1, n2}
    TtlMax = 2
    WaitMax = 1
    BusyTimeout = 1
    LocksMax = 1
INVARIANTS HeldAsTold
PROPERTIES AcquireAnswers
