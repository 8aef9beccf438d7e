CONSTANTS
    s1 = s1
    s2 = s2
    f1 = f1
    Absent = Absent
    Forever = Forever
    Process = {s1, s2}
    File = {f1}
    TTL = 1
    MaxRev = 2
    MaxCrashes = 1
SPECIFICATION LocallyFairSpec
INVARIANTS
    TypeOK
    OneWriter
    CopyIsRecent
PROPERTIES
    JamsAge
    WaitsEnd
    JamsHeal
