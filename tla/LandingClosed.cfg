SPECIFICATION Spec
CONSTANTS
    t1 = t1  t2 = t2  x = x  y = y  f = f  w1 = w1  w2 = w2  None = None
    Trees = {t1, t2}
    Diffs = {x, y}
    Findings = {f}
    Writers = {w1, w2}
    Grades = {"High", "Low"}
    HandsOff = TRUE
    MaxCommits = 2
    MaxWork = 3
    MaxVerdicts = 1
INVARIANT ClosedMeansLanded
