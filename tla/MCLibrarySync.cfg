SPECIFICATION Spec
CONSTANTS
    p1 = p1
    p2 = p2
    p3 = p3
    s1 = s1
    f1 = f1
    PlexTitles = {p1, p2, p3}
    Requests = {s1}
    Found = {f1}
    Ids = {1, 2, 3}
    Value <- MCValue
    Title <- MCTitle
    Named <- MCNamed
    Corrections <- MCCorrections
    PageSize = 1
    BatchSize = 2
    MaxRuns = 2
    MaxChanges = 2
INVARIANTS
    IndexAgrees
PROPERTIES
    ListedIsKept
    ConflictsStayBlocked
