SPECIFICATION Spec
CONSTANTS
    Accounts = {a1, a2}
    Rotators = {r1, r2}
    None = None
    MaxKeys = 3
SYMMETRY Symmetry
INVARIANT RowsHaveBlobs
INVARIANT Recoverable
PROPERTY RotationReadable
