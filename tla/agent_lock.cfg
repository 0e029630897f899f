\* The agent of the lock screen, with fast user switching and the fairness of
\* macOS's queues and timers.
SPECIFICATION FairSpec
CONSTANTS
  u = u
  v = v
  NoUser = NoUser
  LoginWindow = FALSE
  Users = {u}
  Behaviors = {"none", "off"}
  PasswordLength = 2
  TYPING_MAX_ATTEMPTS = 1
  MaxEvents = 2
INVARIANT OneProcess
 
PROPERTY GenerationsEnd
PROPERTY AgentFollowsScreen
