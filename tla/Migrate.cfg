\* Three processes, started again at will, apply two files.
CONSTANTS
    Proc = {p1, p2, p3}
    Files = 2
SPECIFICATION FairSpec
INVARIANTS TypeOK AppliedOnce InOrder ExitZeroMeansMigrated
PROPERTIES RunsEnd
