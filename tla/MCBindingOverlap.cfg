SPECIFICATION Spec
CONSTANTS
    Accounts = {a1, a2}
    NoAccount = nobody
    NoCred = null
    Requests = {r1, r2, r3}
    Qrs = {q1}
    MaxKeys = 3
INVARIANTS
    RowIsBinding
    ActsOnBinding
SYMMETRY Symmetry
