------------------------------ MODULE MacAgent -------------------------------
(***************************************************************************)
(* The agent that unlocks a Mac (natives/mac_pulseunlock): AgentController *)
(* with its LockStateMonitor, the AuthProcess it runs pcbu_auth in and the *)
(* queue its passwords are typed on.  One agent runs in each user session  *)
(* for the lock screen, one as root for the login window.                  *)
(*                                                                         *)
(* Every StartAuth opens a generation.  What a generation has under way    *)
(* (its thread, its blocks on the main queue, its typing) is one record of *)
(* `job', which moves through the stages and is dropped when nothing more  *)
(* can happen to it.  Blocks on the main queue of different generations    *)
(* may run in any order.                                                   *)
(***************************************************************************)
EXTENDS Integers, Sequences

CONSTANTS
  LoginWindow,           \* AgentMode::LOGIN_WINDOW rather than LOCK_SCREEN
  Users,                 \* the local users
  NoUser,                \* the empty m_UserName
  Behaviors,             \* settings: an unlockBehavior, or "off"
  PasswordLength,        \* characters of a password
  TYPING_MAX_ATTEMPTS,
  MaxEvents              \* bound: what the user does to the screen

ASSUME AgentAssumption ==
  /\ LoginWindow \in BOOLEAN
  /\ NoUser \notin Users
  /\ "unread" \notin Behaviors
  /\ PasswordLength \in Nat \ {0}
  /\ TYPING_MAX_ATTEMPTS \in Nat
  /\ MaxEvents \in Nat

VARIABLES
  state,         \* m_State
  generation,    \* m_Generation
  userName,      \* m_UserName
  behavior,      \* m_Settings, "unread" before the first Activate
  process,       \* the generation of m_AuthProcess, 0 for none
  polling,       \* ActivityMonitor's poll timer
  job,           \* what the generations have under way
  injectQueue,   \* m_InjectQueue, which is serial
  isLocked,      \* LockStateMonitor's m_IsLocked
  ignoring,      \* the time is before m_IgnoreSessionLockUntil
  screen,        \* the screen is locked
  lagging,       \* the session dictionary still says so after an unlock
  notices,       \* screenIsUnlocked notifications on their way
  onConsole,     \* kCGSessionOnConsoleKey
  selected,      \* the user selected at the login window
  events         \* what the user has done

agentVars == <<state, generation, userName, process, polling, job>>
monitorVars == <<isLocked, ignoring>>
worldVars == <<screen, lagging, notices, onConsole, selected, events>>
vars == <<agentVars, behavior, injectQueue, monitorVars, worldVars>>

States == {"IDLE", "ARMED", "RUNNING", "INJECTING", "FAILED"}

(* The thread of AuthProcess; the block with its result; Inject waiting for *)
(* the user to stop typing; the inject queue; the blocks it posts.          *)
ThreadStages == {"network", "start", "register", "reading", "closing"}
InjectStages == {"queued", "typing", "checking", "return", "failed", "timeout"}
Stages == ThreadStages \cup {"finished", "retry"} \cup InjectStages

Jobs ==
  [user : Users,
   stage : Stages,
   canceled : BOOLEAN,                    \* m_IsCanceled
   fd : {"none", "open", "closed"},       \* m_CancelFd and its write end
   ok : BOOLEAN,                          \* exitCode = 0
   reported : BOOLEAN,                    \* AuthResult::isCanceled
   password : {"none", "held", "wiped"},
   tries : 0..TYPING_MAX_ATTEMPTS,
   typed : 0..PasswordLength,             \* characters posted
   late : Nat]                            \* keys posted after its generation

Init ==
  /\ state = "IDLE"
  /\ generation = 0
  /\ userName = NoUser
  /\ behavior = "unread"
  /\ process = 0
  /\ polling = FALSE
  /\ job = <<>>
  /\ injectQueue = <<>>
  /\ isLocked = FALSE
  /\ ignoring = FALSE
  /\ screen \in IF LoginWindow THEN {FALSE} ELSE BOOLEAN
  /\ lagging = FALSE
  /\ notices = 0
  /\ onConsole = TRUE
  /\ selected \in IF LoginWindow THEN Users \cup {NoUser} ELSE {NoUser}
  /\ events = 0

-----------------------------------------------------------------------------
(* The steps the handlers of AgentController are made of.  j stands for the *)
(* jobs as the handler has left them so far.                                *)

(* Cancel() of m_AuthProcess: the child sees the end of its cancel pipe.    *)
StopAuth(j) ==
  [g \in DOMAIN j |->
     IF g # process THEN j[g]
     ELSE [j[g] EXCEPT !.canceled = TRUE,
                       !.fd = IF @ = "open" THEN "closed" ELSE @]]

(* WipePassword, and nothing is left to do for g. *)
Dropped(j, g) == [h \in DOMAIN j \ {g} |-> j[h]]

NewJob(u) ==
  [user |-> u, stage |-> "network", canceled |-> FALSE, fd |-> "none",
   ok |-> FALSE, reported |-> FALSE, password |-> "none", tries |-> 0,
   typed |-> 0, late |-> 0]

WaitForUser ==
  /\ state' = "ARMED"
  /\ generation' = generation + 1
  /\ userName' = NoUser
  /\ process' = 0
  /\ polling' = FALSE
  /\ job' = StopAuth(job)

Arm(u) ==
  /\ state' = "ARMED"
  /\ generation' = generation + 1
  /\ userName' = u
  /\ process' = 0
  /\ polling' = TRUE
  /\ job' = StopAuth(job)

StartAuth(u) ==
  IF u = NoUser
    THEN UNCHANGED <<state, generation, userName, process, job>>
    ELSE LET g == generation + 1
             j == StopAuth(job) IN
         /\ state' = "RUNNING"
         /\ generation' = g
         /\ userName' = u
         /\ process' = g
         /\ job' = [h \in DOMAIN j \cup {g} |->
                      IF h = g THEN NewJob(u) ELSE j[h]]

Fail(j) ==
  /\ state' = "FAILED"
  /\ generation' = generation + 1
  /\ process' = 0
  /\ polling' = FALSE
  /\ job' = StopAuth(j)
  /\ UNCHANGED userName

Reset(j) ==
  /\ state' = "IDLE"
  /\ generation' = generation + 1
  /\ process' = 0
  /\ polling' = FALSE
  /\ job' = StopAuth(j)
  /\ UNCHANGED userName

WaitsForKey(b) == IF LoginWindow THEN b = "key_press" ELSE b # "none"

BeginForUser(u, b) ==
  IF WaitsForKey(b) THEN Arm(u) ELSE StartAuth(u) /\ polling' = FALSE

(* The settings are read again.  getpwuid may not know the user; the login  *)
(* window may show no or several users.                                     *)
Activate ==
  \E b \in Behaviors :
    \E u \in IF LoginWindow THEN {selected} ELSE Users \cup {NoUser} :
      /\ behavior' = b
      /\ IF b = "off" THEN UNCHANGED agentVars
         ELSE IF u = NoUser THEN WaitForUser
         ELSE BeginForUser(u, b)

-----------------------------------------------------------------------------
(* LockStateMonitor *)

IsSessionLocked == onConsole /\ (screen \/ lagging)

(* Mutant: a password that is being typed is left alone. *)
SetLockedTyping(l) ==
  /\ isLocked' = l
  /\ IF l = isLocked \/ state = "INJECTING" THEN UNCHANGED <<agentVars, behavior>>
     ELSE IF l THEN Activate
     ELSE Reset(job) /\ UNCHANGED behavior

SetLocked(l) ==
  /\ isLocked' = l
  /\ IF l = isLocked THEN UNCHANGED <<agentVars, behavior>>
     ELSE IF l THEN Activate                     \* OnLockChanged
     ELSE Reset(job) /\ UNCHANGED behavior

(* The poll timer, and every other notification: screenIsLocked, wake-up,   *)
(* session changes.                                                         *)
Evaluate ==
  /\ ~LoginWindow
  /\ IF ~IsSessionLocked THEN SetLocked(FALSE)
     ELSE IF ignoring THEN UNCHANGED <<agentVars, behavior, isLocked>>
     ELSE SetLocked(TRUE)
  /\ UNCHANGED <<injectQueue, ignoring, worldVars>>

ScreenIsUnlocked ==
  /\ notices > 0
  /\ notices' = notices - 1
  /\ ignoring' = TRUE
  /\ SetLocked(FALSE)
  /\ UNCHANGED <<injectQueue, screen, lagging, onConsole, selected, events>>

(* UNLOCK_SETTLE_TIME has passed.  It is chosen longer than the lag of the  *)
(* session dictionary.                                                      *)
SettleTimeOver ==
  /\ ignoring
  /\ ~lagging
  /\ ignoring' = FALSE
  /\ UNCHANGED <<agentVars, behavior, injectQueue, isLocked, worldVars>>

-----------------------------------------------------------------------------
(* The user's handlers *)

(* Start at the login window. *)
Start ==
  /\ LoginWindow
  /\ behavior = "unread"
  /\ Activate
  /\ UNCHANGED <<injectQueue, monitorVars, worldVars>>

(* ActivityMonitor::Fire *)
OnActivity ==
  /\ polling
  /\ polling' = FALSE
  /\ IF state = "ARMED" THEN StartAuth(userName)
     ELSE UNCHANGED <<state, generation, userName, process, job>>
  /\ UNCHANGED <<behavior, injectQueue, monitorVars, worldVars>>

OnRetry ==
  /\ state \in {"FAILED", "ARMED"}
  /\ events < MaxEvents
  /\ events' = events + 1
  /\ StartAuth(userName)
  /\ polling' = (polling /\ userName = NoUser)
  /\ UNCHANGED <<behavior, injectQueue, monitorVars, screen, lagging, notices,
                 onConsole, selected>>

(* The Cancel button, or (in OnTick, when running) the cancel chord. *)
OnCancel ==
  /\ state \in {"RUNNING", "ARMED"}
  /\ Fail(job)
  /\ UNCHANGED <<behavior, injectQueue, monitorVars, worldVars>>

(* Mutant: after a failure the selection is not followed. *)
TrackSelectedUserNotFailed ==
  /\ LoginWindow
  /\ state \notin {"IDLE", "INJECTING", "FAILED"}
  /\ selected # userName
  /\ IF selected = NoUser THEN WaitForUser ELSE BeginForUser(selected, behavior)
  /\ UNCHANGED <<behavior, injectQueue, monitorVars, worldVars>>

(* In OnTick, every USER_CHECK_TICKS. *)
TrackSelectedUser ==
  /\ LoginWindow
  /\ state \notin {"IDLE", "INJECTING"}
  /\ selected # userName
  /\ IF selected = NoUser THEN WaitForUser ELSE BeginForUser(selected, behavior)
  /\ UNCHANGED <<behavior, injectQueue, monitorVars, worldVars>>

-----------------------------------------------------------------------------
(* Inject *)

Unlocked == ~LoginWindow /\ (~isLocked \/ ~IsSessionLocked)

(* Mutant: the selection is not looked at. *)
UserChangedUnseen == FALSE

UserChanged == LoginWindow /\ selected # userName

(* No accessibility access, another element has the focus, or one of the    *)
(* conditions that are modelled.                                            *)
InjectFails(g, j) == Fail(Dropped(j, g)) /\ UNCHANGED injectQueue

InjectSkipped(g, j) == Unlocked /\ Reset(Dropped(j, g)) /\ UNCHANGED injectQueue

(* The user is typing: TYPING_RETRY_DELAY_MS later, again. *)
InjectLater(g, j) ==
  /\ ~Unlocked /\ ~UserChanged
  /\ j[g].tries < TYPING_MAX_ATTEMPTS
  /\ job' = [j EXCEPT ![g].stage = "retry", ![g].tries = @ + 1]
  /\ process' = 0
  /\ UNCHANGED <<state, generation, userName, polling, injectQueue>>

InjectNow(g, j) ==
  /\ ~Unlocked /\ ~UserChanged
  /\ state' = "INJECTING"
  /\ job' = [j EXCEPT ![g].stage = "queued"]
  /\ injectQueue' = Append(injectQueue, g)
  /\ process' = 0
  /\ UNCHANGED <<generation, userName, polling>>

Inject(g, j) ==
  \/ InjectFails(g, j)
  \/ InjectSkipped(g, j)
  \/ InjectLater(g, j)
  \/ InjectNow(g, j)

(* The result of a generation that is over, or canceled. *)
DropJob(g) ==
  /\ job' = Dropped(job, g)
  /\ UNCHANGED <<state, generation, userName, process, polling, injectQueue>>

OnAuthFinished(g) ==
  /\ job[g].stage = "finished"
  /\ IF g # generation \/ state # "RUNNING" \/ job[g].reported THEN DropJob(g)
     ELSE IF job[g].ok /\ job[g].password = "held" THEN Inject(g, StopAuth(job))
     ELSE Fail(Dropped(job, g)) /\ UNCHANGED injectQueue
  /\ UNCHANGED <<behavior, monitorVars, worldVars>>

(* Mutant: a password that comes too late is not wiped. *)
InjectAgainUnwiped(g) ==
  /\ job[g].stage = "retry"
  /\ IF g # generation
       THEN /\ job' = [job EXCEPT ![g].stage = "lost"]
            /\ UNCHANGED <<state, generation, userName, process, polling, injectQueue>>
       ELSE Inject(g, job)
  /\ UNCHANGED <<behavior, monitorVars, worldVars>>

InjectAgain(g) ==
  /\ job[g].stage = "retry"
  /\ IF g # generation THEN DropJob(g) ELSE Inject(g, job)
  /\ UNCHANGED <<behavior, monitorVars, worldVars>>

(* Mutant: the failure is only logged. *)
InjectFailedSilently(g) ==
  /\ job[g].stage = "failed"
  /\ DropJob(g)
  /\ UNCHANGED <<behavior, monitorVars, worldVars>>

(* The block that a failed injection posts. *)
InjectFailed(g) ==
  /\ job[g].stage = "failed"
  /\ IF g = generation /\ state = "INJECTING"
       THEN Fail(Dropped(job, g)) /\ UNCHANGED injectQueue
       ELSE DropJob(g)
  /\ UNCHANGED <<behavior, monitorVars, worldVars>>

(* UNLOCK_TIMEOUT_MS after the password was typed.  At the login window the *)
(* field may be gone.                                                       *)
UnlockTimeout(g) ==
  /\ job[g].stage = "timeout"
  /\ IF g = generation /\ state = "INJECTING"
       THEN /\ \/ Fail(Dropped(job, g))
               \/ LoginWindow /\ Reset(Dropped(job, g))
            /\ UNCHANGED injectQueue
       ELSE DropJob(g)
  /\ UNCHANGED <<behavior, monitorVars, worldVars>>

MainBlock(g) == OnAuthFinished(g) \/ InjectAgain(g) \/ InjectFailed(g) \/ UnlockTimeout(g)

-----------------------------------------------------------------------------
(* AuthProcess::Run *)

Advance(g, r) ==
  /\ job' = [job EXCEPT ![g] = r]
  /\ UNCHANGED <<state, generation, userName, process, polling, behavior,
                 injectQueue, monitorVars, worldVars>>

(* There is a network, or none is needed. *)
NetworkUp(g) ==
  /\ job[g].stage = "network"
  /\ Advance(g, [job[g] EXCEPT !.stage = "start"])

NetworkGivenUp(g) ==
  /\ job[g].stage = "network"
  /\ job[g].canceled
  /\ Advance(g, [job[g] EXCEPT !.stage = "finished", !.reported = TRUE])

(* A pipe cannot be made; pcbu_auth cannot be started; it is started. *)
Spawn(g) ==
  /\ job[g].stage = "start"
  /\ \E s \in {"finished", "closing", "register"} :
       Advance(g, [job[g] EXCEPT !.stage = s])

(* Mutant: the cancel pipe of a canceled process is kept open. *)
RegisterCancelFdBlindly(g) ==
  /\ job[g].stage = "register"
  /\ Advance(g, [job[g] EXCEPT !.stage = "reading", !.fd = "open"])

RegisterCancelFd(g) ==
  /\ job[g].stage = "register"
  /\ Advance(g, [job[g] EXCEPT !.stage = "reading",
                               !.fd = IF job[g].canceled THEN "closed" ELSE "open"])

(* pcbu_auth ends, by itself or because its cancel pipe is closed, with or  *)
(* without a password; or waiting for it fails.                             *)
ChildEnds(g) ==
  /\ job[g].stage = "reading"
  /\ \E ok \in BOOLEAN, p \in {"none", "held"} :
       Advance(g, [job[g] EXCEPT !.stage = "closing", !.ok = ok, !.password = p])

Report(g) ==
  /\ job[g].stage = "closing"
  /\ Advance(g, [job[g] EXCEPT !.stage = "finished",
                               !.fd = "closed",
                               !.reported = job[g].canceled])

(* The steps of a thread that wait for nobody. *)
ThreadRuns(g) ==
  \/ NetworkGivenUp(g) \/ Spawn(g) \/ RegisterCancelFd(g) \/ Report(g)
  \/ job[g].fd = "closed" /\ ChildEnds(g)

ThreadStep(g) == ThreadRuns(g) \/ NetworkUp(g) \/ ChildEnds(g)

-----------------------------------------------------------------------------
(* The inject queue: FocusPasswordField, PasswordInjector::Type and         *)
(* LoginWindowInspector::SubmitPassword                                     *)

InjectStep(g, r) ==
  /\ Head(injectQueue) = g
  /\ job' = [job EXCEPT ![g] = r]
  /\ injectQueue' = IF r.stage \in {"failed", "timeout"} THEN Tail(injectQueue)
                    ELSE injectQueue
  /\ UNCHANGED <<state, generation, userName, process, polling, behavior,
                 monitorVars, worldVars>>

Wiped(r, s) == [r EXCEPT !.stage = s, !.password = "wiped"]

(* FocusPasswordField gives up early when its generation is over, but what  *)
(* it returns is in any case whether a password field has the focus.        *)
FocusField(g) ==
  /\ ~LoginWindow
  /\ job[g].stage = "queued"
  /\ \/ InjectStep(g, Wiped(job[g], "failed"))
     \/ InjectStep(g, [job[g] EXCEPT !.stage = "typing"])

SubmitPassword(g) ==
  /\ LoginWindow
  /\ job[g].stage = "queued"
  /\ \E s \in {"failed", "timeout"} : InjectStep(g, Wiped(job[g], s))

IsLate(g) == IF generation # g THEN 1 ELSE 0

TypeKey(g) ==
  /\ job[g].stage = "typing"
  /\ InjectStep(g, [job[g] EXCEPT !.stage = "checking", !.typed = @ + 1,
                                  !.late = @ + IsLate(g)])

(* Mutant: the generation is looked at after the last character only. *)
CheckKeyAtEnd(g) ==
  /\ job[g].stage = "checking"
  /\ InjectStep(g, IF job[g].typed < PasswordLength THEN [job[g] EXCEPT !.stage = "typing"]
                   ELSE IF generation # g THEN Wiped(job[g], "timeout")
                   ELSE [job[g] EXCEPT !.stage = "return"])

(* shouldContinue *)
CheckKey(g) ==
  /\ job[g].stage = "checking"
  /\ InjectStep(g, IF generation # g THEN Wiped(job[g], "timeout")
                   ELSE IF job[g].typed < PasswordLength THEN [job[g] EXCEPT !.stage = "typing"]
                   ELSE [job[g] EXCEPT !.stage = "return"])

TypeReturn(g) ==
  /\ job[g].stage = "return"
  /\ InjectStep(g, [Wiped(job[g], "timeout") EXCEPT !.late = @ + IsLate(g)])

QueueStep(g) ==
  /\ injectQueue # <<>>
  /\ FocusField(g) \/ SubmitPassword(g) \/ TypeKey(g) \/ CheckKey(g) \/ TypeReturn(g)

-----------------------------------------------------------------------------
(* macOS and the user *)

LockScreen ==
  /\ ~LoginWindow /\ ~screen
  /\ events < MaxEvents
  /\ screen' = TRUE
  /\ events' = events + 1
  /\ UNCHANGED <<agentVars, behavior, injectQueue, monitorVars, lagging, notices,
                 onConsole, selected>>

UnlockScreen ==
  /\ screen
  /\ events < MaxEvents
  /\ screen' = FALSE
  /\ lagging' \in BOOLEAN
  /\ notices' = notices + 1
  /\ events' = events + 1
  /\ UNCHANGED <<agentVars, behavior, injectQueue, monitorVars, onConsole, selected>>

DictionaryUpdated ==
  /\ lagging
  /\ lagging' = FALSE
  /\ UNCHANGED <<agentVars, behavior, injectQueue, monitorVars, screen, notices,
                 onConsole, selected, events>>

SwitchSession ==
  /\ ~LoginWindow
  /\ events < MaxEvents
  /\ onConsole' = ~onConsole
  /\ events' = events + 1
  /\ UNCHANGED <<agentVars, behavior, injectQueue, monitorVars, screen, lagging,
                 notices, selected>>

SelectUser ==
  /\ LoginWindow
  /\ events < MaxEvents
  /\ selected' \in (Users \cup {NoUser}) \ {selected}
  /\ events' = events + 1
  /\ UNCHANGED <<agentVars, behavior, injectQueue, monitorVars, screen, lagging,
                 notices, onConsole>>

World == LockScreen \/ UnlockScreen \/ DictionaryUpdated \/ SwitchSession \/ SelectUser

-----------------------------------------------------------------------------

Handler ==
  \/ Evaluate \/ ScreenIsUnlocked \/ SettleTimeOver
  \/ Start \/ OnActivity \/ OnRetry \/ OnCancel \/ TrackSelectedUser

Next ==
  \/ Handler
  \/ \E g \in DOMAIN job : MainBlock(g) \/ ThreadStep(g) \/ QueueStep(g)
  \/ World

Spec == Init /\ [][Next]_vars

(* The main queue, the threads and the inject queue run; the poll timer of  *)
(* the monitor fires; macOS delivers its notifications.  Nothing is assumed *)
(* of the network, the phone or the user.                                   *)
Fairness ==
  /\ WF_vars(\E g \in DOMAIN job : MainBlock(g))
  /\ WF_vars(\E g \in DOMAIN job : ThreadRuns(g))
  /\ WF_vars(\E g \in DOMAIN job : QueueStep(g))
  /\ WF_vars(Evaluate)
  /\ WF_vars(ScreenIsUnlocked)
  /\ WF_vars(SettleTimeOver)
  /\ WF_vars(TrackSelectedUser)
  /\ WF_vars(DictionaryUpdated)

FairSpec == Spec /\ Fairness

-----------------------------------------------------------------------------
(* Properties *)

AgentTypeOK ==
  /\ state \in States
  /\ generation \in Nat
  /\ userName \in Users \cup {NoUser}
  /\ process \in Nat
  /\ polling \in BOOLEAN
  /\ DOMAIN job \subseteq 1..generation
  /\ job \in [DOMAIN job -> Jobs]
  /\ injectQueue \in Seq(Nat)

WorldTypeOK ==
  /\ behavior \in Behaviors \cup {"unread"}
  /\ isLocked \in BOOLEAN
  /\ ignoring \in BOOLEAN
  /\ screen \in BOOLEAN
  /\ lagging \in BOOLEAN
  /\ notices \in Nat
  /\ onConsole \in BOOLEAN
  /\ selected \in Users \cup {NoUser}
  /\ events \in 0..MaxEvents

(* The types of the variables.                                              *)
TypeOK == AgentTypeOK /\ WorldTypeOK

(* An agent that shows that it is asking the phone has somebody who will    *)
(* end that: a process that is not canceled, its result, which is not       *)
(* reported as canceled, or a password that waits for the user to stop      *)
(* typing (AgentController.mm:106-127).                                     *)
RunningHasProcess ==
  state = "RUNNING" =>
    /\ generation \in DOMAIN job
    /\ \/ job[generation].stage \in ThreadStages /\ process = generation
       \/ job[generation].stage = "finished" /\ process = generation
       \/ job[generation].stage = "retry"
    /\ job[generation].stage # "retry" => ~job[generation].canceled
    /\ ~job[generation].reported

(* An agent that types a password has a block on its way that ends it       *)
(* (AgentController.mm:258-294).                                            *)
InjectingHasJob ==
  state = "INJECTING" =>
    /\ generation \in DOMAIN job
    /\ job[generation].stage \in InjectStages

(* One phone request at a time: a process that is not canceled is the one   *)
(* the agent waits for; every other has been told to end, by the end of its *)
(* cancel pipe or by m_IsCanceled if it has not registered that yet         *)
(* (AgentController.mm:190-214, AuthProcess.cpp:95-102).                    *)
OneProcess ==
  \A g \in DOMAIN job :
    /\ job[g].stage \in ThreadStages /\ ~job[g].canceled =>
         process = g /\ g = generation /\ state = "RUNNING"
    /\ job[g].canceled => job[g].fd # "open"

(* A password whose generation is over, because the screen was unlocked in  *)
(* another way, reaches the keyboard with one more key at most: one         *)
(* character, or the Return that submits it (PasswordInjector.mm:28-47).    *)
LateKeys == \A g \in DOMAIN job : job[g].late <= 1

InjectsOwn ==
  \A g \in DOMAIN job' :
    job'[g].stage = "queued" /\ (g \in DOMAIN job => job[g].stage # "queued") =>
      /\ g = generation
      /\ state = "RUNNING"
      /\ LoginWindow => selected = job'[g].user

(* A password goes to the inject queue only for the generation that got it, *)
(* while the user it was asked for is the one selected                      *)
(* (AgentController.mm:217-238).                                            *)
InjectsForItsUser == [][InjectsOwn]_vars

RestartsByUser ==
  state = "FAILED" /\ state' # "FAILED" =>
    state' = "IDLE" \/ OnRetry \/ userName' # userName

(* After a failure the agent asks the phone again only for the Retry button *)
(* or another user; late results, activity and timers do not start it       *)
(* (AgentController.mm:297).                                                *)
OnlyRetryRestarts == [][RestartsByUser]_vars

LocksForReason == ~isLocked /\ isLocked' => screen \/ notices > 0

(* Right after an unlock the session dictionary still says locked: the      *)
(* agent does not start for a screen that is unlocked, unless macOS still   *)
(* owes it the notification of that (LockStateMonitor.mm:25-29, 83-92).     *)
NoFalseLock == [][LocksForReason]_vars

(* What holds of a job of generation g in every state: a thread that is not *)
(* canceled belongs to the current generation, whose stage and m_State go   *)
(* together; a key is late only for a generation that is over.              *)
JobOK(g, r, st, gen, pr, un) ==
  /\ r.stage \in ThreadStages /\ ~r.canceled => g = gen
  /\ r.canceled => r.fd # "open"
  /\ r.reported => r.canceled /\ r.stage = "finished"
  /\ g = gen => /\ r.user = un
                /\ r.late = 0
                /\ r.stage \in ThreadStages \cup {"finished"} =>
                     st = "RUNNING" /\ pr = g /\ ~r.canceled
                /\ r.stage = "retry" => st = "RUNNING" /\ pr = 0
                /\ r.stage \in InjectStages => st = "INJECTING" /\ pr = 0
  /\ r.late <= 1
  /\ r.late = 1 => r.stage \in {"checking", "timeout"}
  /\ r.stage \notin {"checking", "return", "timeout"} => r.typed < PasswordLength

JobInv ==
  \A g \in DOMAIN job : JobOK(g, job[g], state, generation, process, userName)

(* The current generation has a job when m_State says so.                   *)
StateInv ==
  /\ process # 0 => process = generation
  /\ state = "RUNNING" =>
       /\ generation \in DOMAIN job
       /\ job[generation].stage \in ThreadStages \cup {"finished", "retry"}
  /\ state = "INJECTING" =>
       /\ generation \in DOMAIN job
       /\ job[generation].stage \in InjectStages

(* The inject queue holds jobs that are to be typed, each once.             *)
QueueInv ==
  \A i \in 1..Len(injectQueue) :
    /\ injectQueue[i] \in DOMAIN job
    /\ job[injectQueue[i]].stage \in {"queued", "typing", "checking", "return"}
    /\ \A k \in 1..Len(injectQueue) : injectQueue[i] = injectQueue[k] => i = k

(* An outdated dictionary is ignored, or its notification is on its way.    *)
LagInv == lagging /\ notices = 0 => ignoring

(* The agent is idle until the screen is locked, or the settings are read.  *)
IdleInv ==
  (IF LoginWindow THEN behavior = "unread" ELSE ~isLocked) => state = "IDLE"

(* The inductive invariant: the jobs, the states and the queue of the agent *)
(* agree with each other in every state (AgentController.mm:63-345).        *)
AgentInv == TypeOK /\ JobInv /\ StateInv /\ QueueInv /\ LagInv /\ IdleInv

(* What a generation leaves behind comes to an end, whatever became of it:  *)
(* its password is wiped (AgentController.mm:106-127, 216-295), and its      *)
(* process, canceled at whatever point of its start and with or without a    *)
(* network, ends (AuthProcess.cpp:40-50, 95-102).                            *)
GenerationsEnd ==
  <>[](\A g \in DOMAIN job :
         /\ job[g].password # "held"
         /\ job[g].canceled => job[g].stage \notin ThreadStages)

(* Typing comes to an end: unlocked, or failed (AgentController.mm:283).    *)
InjectionEnds == state = "INJECTING" ~> state # "INJECTING"

(* When the screen stays locked the agent ends up offering to unlock it,    *)
(* and when it stays unlocked the agent ends up idle, however the last      *)
(* notifications were interleaved, in a session that is not switched away   *)
(* from (LockStateMonitor.mm:83-100).                                       *)
AgentFollowsScreen ==
  ~LoginWindow /\ []onConsole =>
    <>[](/\ screen => isLocked /\ (state # "IDLE" \/ behavior = "off")
         /\ ~screen => ~isLocked /\ state = "IDLE")

(* The user the agent works for ends up being the selected one, unless a    *)
(* password is on its way or the agent is done (AgentController.mm:332).    *)
AgentFollowsSelection ==
  LoginWindow => <>[](state \in {"ARMED", "RUNNING", "FAILED"} => userName = selected)

=============================================================================
