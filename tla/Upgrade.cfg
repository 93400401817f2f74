SPECIFICATION LiveSpec
CONSTANTS
    Openers = {o1, o2}
    Bots = {b1}
    MaxSecond = 2
    MaxDeaths = 1
INVARIANT DealsKept
 
 
