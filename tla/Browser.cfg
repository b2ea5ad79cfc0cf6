\* Two parallel calls of one page, with lost answers and reloads.
CONSTANTS
    Refresh = {r1, r2, r3}
    Pat = {}
    Worker = {w1, w2}
    MaxChanges = 0
    None = None
SPECIFICATION BrowserSpec
SYMMETRY Symmetry
INVARIANTS
    BrowserTypeOK
    StoredTokenIsUnspent
    SignedOutMeansNoSession
