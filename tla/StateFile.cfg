SPECIFICATION LiveSpec
CONSTANTS
    Engine = engine
    Closers = {c1}
    Editors = {e1}
    Inodes = {i1, i2, i3}
    NoFile = NoFile
    MaxVersion = 2
    Kills <- AnyKill
PROPERTIES  Heals
