\* Two connections and the listener, with a buffer for one socket or for two.
CONSTANTS
    Connections = {c1, c2}
    EventLengths = {1, 2}
SPECIFICATION Spec
INVARIANTS
    ReportedOnce
    RemovesWhatItHolds
PROPERTIES
    EveryoneIsServed
CHECK_DEADLOCK FALSE
