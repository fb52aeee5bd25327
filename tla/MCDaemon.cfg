\* One other thread before and one after the fork, two starts of the daemon, with
\* pids of one or two digits, two TERM signals.
CONSTANTS
    Main = m
    ParentWorkers = {p}
    ChildWorkers = {c}
    Modulus = 8
    PidLengths = {1, 2}
    MaxProcesses = 2
    MaxTerms = 2
SPECIFICATION FairSpec
INVARIANTS
    SameOrderInFileAndStream
    LogsIntoItsOwnDir
    PidFileServesTheLongest
PROPERTIES
    LoggerLockIsMutex
    TermStopsDaemon
\* The daemon stops: it exits, or dies and is not started again.
CHECK_DEADLOCK FALSE
