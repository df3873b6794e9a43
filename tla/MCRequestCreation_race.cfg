SPECIFICATION Spec
CONSTANTS
    i1 = i1
    h1 = h1
    h2 = h2
    n1 = n1
    n2 = n2
    k1 = k1
    k2 = k2
    user1 = user1
    user2 = user2
    Items = {i1}
    Keys = {k1}
    Scopes = {user1, user2}
    KeyScope <- OneScope
    Handlers = {h1}
    Instances = {n1}
    Syncing = {n1}
    InstanceOf <- OneInstance
    MaxClock = 1
    MaxForeign = 2
    Free = Free
    NoKey = NoKey
PROPERTIES
    AcquiredOnlyWhenUnblocked
