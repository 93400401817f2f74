SPECIFICATION Spec
CONSTANTS
    Chats = {c1, c2}
    None = None
    Hour = 2
    MaxTickets = 2
    MaxPosts = 1
    Accounts = {a1, a2}
    MaxNow = 4
SYMMETRY Symmetry
INVARIANTS LastLinkOnly RowsSpaced
