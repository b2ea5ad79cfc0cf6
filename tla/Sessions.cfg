\* Two overlapping requests on one account, while its password changes twice.
CONSTANTS
    Refresh = {r1, r2}
    Pat = {p1}
    Worker = {w1, w2}
    MaxChanges = 2
    None = None
SPECIFICATION Spec
SYMMETRY Symmetry
INVARIANTS
    SurvivorsWereUnderWay
    ExchangedOncePerWorker
    RevocationHolds
