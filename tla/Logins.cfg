SPECIFICATION LoginSpec
CONSTANTS
    Users = {admin}
    Browsers = {b1, b2}
    Passwords = {p1}
    None = None
    Limit = 2
    Window = 2
    MaxEpoch = 1
 
PROPERTY CountFallsByLogin
PROPERTY LockEnds
