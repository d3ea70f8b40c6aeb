CONSTANTS
    t1 = t1
    t2 = t2
    Tasks = {t1, t2}
    Sent <- AnyAndReboot
    Threads = 1
    MaxBinds = 2
    MaxRestarts = 1
    MaxChanges = 1
SPECIFICATION FairSpec
INVARIANTS
    NotRepeated
    SuccessMeansDone
PROPERTIES
    TasksEnd
CHECK_DEADLOCK FALSE
