SPECIFICATION Spec
CONSTANTS
    Slugs = {s1, s2, s3, s4}
    Clients = {c1, c2}
    None = None
    Cap = 1
    MaxStale = 1
    Started = {s1}
    MaxGen = 2
SYMMETRY Symmetry
INVARIANT QuotaHolds
 
INVARIANT NoGhosts
