\* The program of src/system/test/signal.cpp: one thread, one TERM, and a start
\* after a crash, with a pid of as many digits or of fewer.
CONSTANTS
    Main = m
    ParentWorkers = {}
    ChildWorkers = {}
    Modulus = 8
    PidLengths = {1, 2}
    MaxProcesses = 2
    MaxTerms = 1
SPECIFICATION FairSpec
PROPERTIES
    PidFileCanBeUsed
CHECK_DEADLOCK FALSE
