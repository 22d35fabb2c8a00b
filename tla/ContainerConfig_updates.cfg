SPECIFICATION ConfigSpec
CONSTANTS
    Images <- SomeImages
    Networks <- SomeNetworks
    Bare = {"host"}
    Unsafe = {"my key"}
    KeepsMac = TRUE
    Users <- SomeUsers
INVARIANTS
    ArgvKept
    
    NetworksKept
