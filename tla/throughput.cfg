\* Three threads that send up to three requests each.
SPECIFICATION FairSpec
CONSTANTS
    t1 = t1
    t2 = t2
    t3 = t3
    Threads = {t1, t2, t3}
    RunningTime = 2
INVARIANTS ReportIsComplete OnlyLateThreadsMissing
PROPERTY MainEnds
\* The program ends.
CHECK_DEADLOCK FALSE
