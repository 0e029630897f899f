SPECIFICATION Spec
CONSTANTS
    u1 = u1
    t1 = t1
    t2 = t2
    Users <- MCUsers
    Threads <- MCThreads
    NoThread = NoThread
    NoTile = NoTile
    Scenarios = {"logon", "credui"}
    UnlockBehavior = "key_press_lock_only"
    WaitForNetwork = TRUE
    MaxEnumerations = 2
    MaxStarts = 2
SYMMETRY ThreadSymmetry
PROPERTY SubmittedOnce
PROPERTY AnswerOnSelectedTile
 
INVARIANT SuccessIsWatched
CHECK_DEADLOCK FALSE
