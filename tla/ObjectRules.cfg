CONSTANTS
    top = top
    low = low
    a = a
    b = b
    Path <- MCPath
    Above <- MCAbove
    Iface <- MCIface
    WithProps <- MCIface
    Introspectable = introspectable
    Properties = properties
    ObjectManager = objectManager
    Unknown = unknown
    Val = {0, 1}
    Absent = absent
    Root = root
    None = none
    MaxManagers = 1
    Rules = {"managed", "topDown", "noReadd", "quietRemove"}
SPECIFICATION IntrospectFairSpec
INVARIANTS TypeOK Bookkeeping ClientsAgree GetManagedObjectsComplete IntrospectIsFresh
PROPERTY TellsTheTruth ClientsCatchUp
