\* The agent of the login window.  It may be turned off, and then does nothing.
SPECIFICATION FairSpec
CONSTANTS
  u = u
  v = v
  NoUser = NoUser
  LoginWindow = TRUE
  Users = {u, v}
  Behaviors = {"none", "key_press", "off"}
  PasswordLength = 1
  TYPING_MAX_ATTEMPTS = 1
  MaxEvents = 2
CHECK_DEADLOCK FALSE
PROPERTY InjectsForItsUser
PROPERTY InjectionEnds
PROPERTY AgentFollowsSelection
