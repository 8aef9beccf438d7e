CONSTANTS
    s1 = s1
    s2 = s2
    f1 = f1
    Absent = Absent
    Forever = Forever
    Process = {s1, s2}
    File = {f1}
    TTL = 0
    MaxRev = 1
    MaxCrashes = 0
SPECIFICATION Spec
INVARIANTS
    OneWriter
