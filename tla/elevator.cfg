SPECIFICATION Spec
CONSTANTS
    ui = ui
    worker = worker
    none = none
    Threads <- MCThreads
    Worker = worker
    NoThread = none
    Platforms = {"linux", "windows", "mac"}
    MaxCommands = 2
    MaxOthers = 1
PROPERTY ImplementsShellCall
PROPERTY LossIsTold
 
CHECK_DEADLOCK FALSE
