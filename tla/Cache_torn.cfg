CONSTANTS
    s1 = s1
    s2 = s2
    f1 = f1
    Absent = Absent
    Forever = Forever
    Process = {s1, s2}
    File = {f1}
    TTL = 2
    MaxRev = 2
    MaxCrashes = 0
SPECIFICATION Spec
INVARIANTS
    CopyIsOneRevision
