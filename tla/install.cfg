SPECIFICATION Spec
CONSTANTS
    Missing = Missing
    NoConf = NoConf
    Platforms = {"linux", "mac", "windows"}
    Programs <- MCPrograms
    Managers <- MCManagers
    Edits <- MCEdits
    MaxOps = 3
    MaxFaults = 1
INVARIANT UninstallRemovesModules
 
INVARIANT TwoTriesRecover
 
CHECK_DEADLOCK FALSE
