\* Four contenders; the word counts to 7, so a wrap would take a lost decrement.
CONSTANTS
    Threads = {t1, t2, t3, t4}
    Modulus = 8
SPECIFICATION FairSpec
INVARIANTS
    TypeOK
    WordCountsContenders
    MutualExclusion
PROPERTIES
    LoneContenderEnters
    ImplementsCriticalSection
