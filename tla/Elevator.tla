------------------------------ MODULE Elevator ------------------------------
(***************************************************************************)
(* The elevated helper process and the channel to it.  The desktop         *)
(* application has no administrator rights: Shell sends every command that *)
(* needs them through ElevatorService and IPCHelper to pcbu_elevator,      *)
(* which the user has approved once.  Both processes, the channel between  *)
(* them and the user's prompt are modelled; either process may die at any  *)
(* point and every wait may run out.                                       *)
(*                                                                         *)
(* Platforms differ in who runs the elevator: pkexec becomes it (linux), a *)
(* PowerShell waits for it (windows), osascript starts it and exits (mac). *)
(***************************************************************************)
EXTENDS Naturals, Sequences, FiniteSets

CONSTANTS Threads,       \* the desktop's threads that call Shell
          Worker,        \* the thread of them that runs the startup checks
          Platforms,     \* subset of {"linux", "windows", "mac"}
          MaxCommands,   \* bound: commands a thread gives
          MaxOthers,     \* bound: connections by processes without the rights
          NoThread

ASSUME ElevatorAssumption ==
    /\ Worker \in Threads
    /\ NoThread \notin Threads
    /\ Platforms \subseteq {"linux", "windows", "mac"}
    /\ MaxCommands \in Nat \ {0}
    /\ MaxOthers \in Nat

VARIABLES
    platform,
    app,        \* the desktop: "starting", "testing", "checked", "up",
                \* "refused" (no rights: fatal error shown), "gone"
    launch,     \* the launcher: "none", "prompt", "approved", "denied", "killed"
    grace,      \* mac: less than LAUNCH_GRACE_MS since osascript ended
    ipc,        \* the desktop's end: "none", "listening", "connected", "closed"
    backlog,    \* peers connected but not accepted: "elevator", "other"
    others,     \* how many foreign connections were made
    link,       \* the elevator's connection: "none", "open", "shut", or
                \* "held": the desktop is gone, its socket is not
    elev,       \* the elevator: "none", "connecting", "reading", "running",
                \* "responding", "broken" (its end failed), "exited"
    current,    \* the command the elevator is at
    outcome,    \* how it ended
    toElev, toApp,   \* complete messages in the channel
    mutex,      \* ElevatorService.m_Mutex
    pc,         \* per thread: "idle", "call", "write", "read", "none" (no
                \* response), "lost", "ok", "error"
    issued,     \* per thread, commands given
    handler,    \* g_ElevatorLostHandler is set
    told,       \* how often the user was told that the elevator is lost
    runs,       \* per command, how often the elevator carried it out
    succeeded   \* the commands Shell reported as successful

appVars  == <<app, handler, told>>
launchVars == <<launch, grace>>
chanVars == <<ipc, backlog, others, link, toElev, toApp>>
elevVars == <<elev, current, outcome, runs>>
callVars == <<mutex, pc, issued, succeeded>>
vars == <<platform, appVars, launchVars, chanVars, elevVars, callVars>>

\* A command is named by its thread and number, a response by its command;
\* both ends turn them into messages and back without loss.
Commands == Threads \X (1..MaxCommands)
NoCommand == <<NoThread, 0>>
Command(t) == <<t, issued[t]>>

Responses == [cmd : Commands, ok : BOOLEAN]

TypeOK ==
    /\ platform \in Platforms
    /\ app \in {"starting", "testing", "checked", "up", "refused", "gone"}
    /\ launch \in {"none", "prompt", "approved", "denied", "killed"}
    /\ grace \in BOOLEAN
    /\ ipc \in {"none", "listening", "connected", "closed"}
    /\ backlog \in Seq({"elevator", "other"})
    /\ others \in 0..MaxOthers
    /\ link \in {"none", "open", "shut", "held"}
    /\ elev \in {"none", "connecting", "reading", "running", "responding", "broken", "exited"}
    /\ current \in Commands \cup {NoCommand}
    /\ outcome \in BOOLEAN
    /\ toElev \in Seq(Commands)
    /\ toApp \in Seq(Responses)
    /\ mutex \in Threads \cup {NoThread}
    /\ pc \in [Threads -> {"idle", "call", "write", "read", "none", "lost", "ok", "error"}]
    /\ issued \in [Threads -> 0..MaxCommands]
    /\ handler \in BOOLEAN
    /\ told \in Nat
    /\ runs \in [Commands -> Nat]
    /\ succeeded \subseteq Commands

Init ==
    /\ platform \in Platforms
    /\ app = "starting" /\ launch = "none" /\ grace = TRUE
    /\ ipc = "none" /\ backlog = <<>> /\ others = 0 /\ link = "none"
    /\ elev = "none" /\ current = NoCommand /\ outcome = FALSE
    /\ toElev = <<>> /\ toApp = <<>>
    /\ mutex = NoThread
    /\ pc = [t \in Threads |-> "idle"]
    /\ issued = [t \in Threads |-> 0]
    /\ handler = FALSE /\ told = 0
    /\ runs = [c \in Commands |-> 0]
    /\ succeeded = {}

---------------------------------------------------------------------------
(* ElevatorService: is the other side there? *)

ElevAlive == elev \notin {"none", "exited"}

\* The launcher runs while the prompt is shown and, where it waits for the
\* elevator, as long as that does.
IsLauncherRunning ==
    \/ launch = "prompt"
    \/ platform # "mac" /\ launch = "approved" /\ ElevAlive

\* mac: the pid of the peer is known from Accept on.
KnowsPeerPid == platform = "mac" /\ ipc = "connected"

\* On mac the launcher is gone by then: the pid of the accepted peer counts,
\* before that a grace period after the launcher ended well.
IsProcessRunning ==
    IF platform # "mac" THEN IsLauncherRunning
    ELSE IF KnowsPeerPid THEN ElevAlive
    ELSE IsLauncherRunning \/ (launch = "approved" /\ grace)

IsRunning == ipc = "connected" /\ IsProcessRunning

\* IPCHelper::Close on the desktop: whoever is connected sees the end.
Close ==
    /\ ipc' = "closed"
    /\ backlog' = <<>>
    /\ link' = IF link = "open" THEN "shut" ELSE link

\* The launcher can be ended only while its prompt is open.
TerminateLauncher == launch' = IF launch = "prompt" THEN "killed" ELSE launch

---------------------------------------------------------------------------
(* Start: Shell::Init, the user's answer, and the two ends of the channel. *)

\* A fresh name is made up and listened at, or it fails and all is closed.
Listen == ipc = "none" /\ ipc' \in {"listening", "closed"}

\* ElevatorService(): listen, then launch; either may fail.
Start ==
    /\ app = "starting" /\ Listen
    /\ \/ ipc' = "listening" /\ launch' = "prompt" /\ UNCHANGED app
       \/ ipc' = "closed" /\ launch' = "none" /\ app' = "testing"
    /\ UNCHANGED <<platform, handler, told, grace, backlog, others, link, toElev, toApp,
                   elevVars, callVars>>

\* The user approves; a UAC prompt outlives the PowerShell that asked.
Approve ==
    /\ \/ launch = "prompt" /\ launch' = "approved"
       \/ launch = "killed" /\ platform = "windows" /\ elev = "none" /\ UNCHANGED launch
    /\ elev' = "connecting"
    /\ UNCHANGED <<platform, appVars, grace, chanVars, current, outcome, runs, callVars>>

Deny ==
    /\ launch = "prompt" /\ launch' = "denied"
    /\ UNCHANGED <<platform, appVars, grace, chanVars, elevVars, callVars>>

GraceEnds ==
    /\ platform = "mac" /\ launch = "approved" /\ ipc = "listening" /\ grace
    /\ grace' = FALSE
    /\ UNCHANGED <<platform, appVars, launch, chanVars, elevVars, callVars>>

\* listen(1) keeps one connection more than the one being accepted; a pipe
\* has a single instance.
HasRoom == Len(backlog) < IF platform = "windows" THEN 1 ELSE 2

\* IPCHelper::Connect in the elevator: retried until it works ...
Connect ==
    /\ elev = "connecting" /\ ipc = "listening" /\ HasRoom
    /\ elev' = "reading" /\ link' = "open"
    /\ backlog' = Append(backlog, "elevator")
    /\ UNCHANGED <<platform, appVars, launchVars, ipc, others, toElev, toApp,
                   current, outcome, runs, callVars>>

\* ... or until its time is up.
ConnectFails ==
    /\ elev = "connecting" /\ ~(ipc = "listening" /\ HasRoom)
    /\ elev' = "exited"
    /\ UNCHANGED <<platform, appVars, launchVars, chanVars, current, outcome, runs, callVars>>

OtherConnects ==
    /\ ipc = "listening" /\ HasRoom /\ others < MaxOthers
    /\ others' = others + 1
    /\ backlog' = Append(backlog, "other")
    /\ UNCHANGED <<platform, appVars, launchVars, ipc, link, toElev, toApp, elevVars, callVars>>

\* Waiting for a peer goes on only while there is a process it could be.
AwaitsPeer == ipc = "listening" /\ IsProcessRunning

IsPeerElevated(peer) == peer = "elevator"

\* IPCHelper::Accept: a peer without the rights is dropped and the next one
\* awaited; the elevator ends the wait and the listening.
Accept ==
    /\ AwaitsPeer /\ backlog # <<>>
    /\ IF IsPeerElevated(Head(backlog))
       THEN ipc' = "connected" /\ backlog' = <<>> /\ app' = "testing"
       ELSE backlog' = Tail(backlog) /\ UNCHANGED <<ipc, app>>
    /\ UNCHANGED <<platform, handler, told, launchVars, others, link, toElev, toApp,
                   elevVars, callVars>>

\* The wait for the elevator is over without it: time, or the launcher ended.
AcceptFails ==
    /\ ipc = "listening"
    /\ Close /\ TerminateLauncher
    /\ app' = "testing"
    /\ UNCHANGED <<platform, handler, told, grace, others, toElev, toApp, elevVars, callVars>>

\* SetElevatorLostHandler, after checks that need no elevator.
SetElevatorLostHandler ==
    /\ app = "checked" /\ app' = "up" /\ handler' = TRUE
    /\ UNCHANGED <<platform, told, launchVars, chanVars, elevVars, callVars>>

---------------------------------------------------------------------------
(* A command: Shell::Exec and ElevatorService::ExecCommand. *)

Call(t) ==
    /\ app = "up" \/ (app = "testing" /\ t = Worker)
    /\ pc[t] = "idle" /\ issued[t] < MaxCommands
    /\ pc' = [pc EXCEPT ![t] = "call"]
    /\ issued' = [issued EXCEPT ![t] = @ + 1]
    /\ UNCHANGED <<platform, appVars, launchVars, chanVars, elevVars, mutex, succeeded>>

\* Without a running elevator, or for a command that is too large (the test
\* command is not), there is no response and nothing was sent.
Begin(t) ==
    /\ pc[t] = "call" /\ mutex = NoThread
    /\ \/ /\ ~IsRunning \/ app # "testing"
          /\ pc' = [pc EXCEPT ![t] = "none"] /\ UNCHANGED mutex
       \/ /\ IsRunning
          /\ pc' = [pc EXCEPT ![t] = "write"] /\ mutex' = t
    /\ UNCHANGED <<platform, appVars, launchVars, chanVars, elevVars, issued, succeeded>>

\* A read or write ends without success when its time is up, which it can be
\* as long as the other side has not done its part, or when that is gone.
GivesUp(done) == ~done \/ ~IsRunning

\* Every failure on the channel closes it before the command is given back.
NoResponse(t) ==
    /\ Close
    /\ pc' = [pc EXCEPT ![t] = "none"] /\ mutex' = NoThread

\* A message that is not written to its end is never complete for the reader,
\* and the channel is closed.
WriteCommand(t) ==
    /\ pc[t] = "write"
    /\ \/ /\ link = "open"
          /\ toElev' = Append(toElev, Command(t))
          /\ pc' = [pc EXCEPT ![t] = "read"]
          /\ UNCHANGED <<mutex, ipc, backlog, link>>
       \/ NoResponse(t) /\ GivesUp(FALSE) /\ UNCHANGED toElev
    /\ UNCHANGED <<platform, appVars, launchVars, others, toApp, elevVars, issued, succeeded>>

\* Mutant: the channel stays open when no response has come in time.
ReadResponseKeepsChannel(t) ==
    /\ pc[t] = "read"
    /\ mutex' = NoThread
    /\ \/ /\ toApp # <<>>
          /\ pc' = [pc EXCEPT ![t] = IF Head(toApp).ok THEN "ok" ELSE "error"]
          /\ toApp' = Tail(toApp)
       \/ /\ GivesUp(toApp # <<>>)
          /\ pc' = [pc EXCEPT ![t] = "none"]
          /\ UNCHANGED toApp
    /\ UNCHANGED <<platform, appVars, launchVars, ipc, backlog, link, others, toElev, elevVars,
                   issued, succeeded>>

\* The response, or none in RESPONSE_TIMEOUT_MS or from an elevator that died:
\* then the channel is closed, so that a late response is never read.  A
\* response that is there already is not taken from an elevator that is not.
ReadResponse(t) ==
    /\ pc[t] = "read"
    /\ \/ /\ toApp # <<>>
          /\ pc' = [pc EXCEPT ![t] = IF Head(toApp).ok THEN "ok" ELSE "error"]
          /\ toApp' = Tail(toApp)
          /\ mutex' = NoThread /\ UNCHANGED <<ipc, backlog, link>>
       \/ NoResponse(t) /\ GivesUp(toApp # <<>>) /\ UNCHANGED toApp
    /\ UNCHANGED <<platform, appVars, launchVars, others, toElev, elevVars, issued, succeeded>>

\* Exec: no response and no elevator any more.
CheckLost(t) ==
    /\ pc[t] = "none" /\ mutex = NoThread
    /\ pc' = [pc EXCEPT ![t] = IF IsRunning THEN "error" ELSE "lost"]
    /\ UNCHANGED <<platform, appVars, launchVars, chanVars, elevVars, mutex, issued, succeeded>>

\* Mutant: the handler is copied, not taken.
OnElevatorLostCopies(t) ==
    /\ pc[t] = "lost"
    /\ pc' = [pc EXCEPT ![t] = "error"]
    /\ told' = IF handler THEN told + 1 ELSE told
    /\ UNCHANGED <<platform, app, handler, launchVars, chanVars, elevVars, mutex, issued, succeeded>>

\* OnElevatorLost takes the handler out before it calls it.
OnElevatorLost(t) ==
    /\ pc[t] = "lost"
    /\ pc' = [pc EXCEPT ![t] = "error"]
    /\ handler' = FALSE
    /\ told' = IF handler THEN told + 1 ELSE told
    /\ UNCHANGED <<platform, app, launchVars, chanVars, elevVars, mutex, issued, succeeded>>

\* The startup checks: the test command worked and the rights are still there.
StartupResult(t) == IF pc[t] = "ok" /\ IsRunning THEN "checked" ELSE "refused"

\* Back in the caller.
Return(t) ==
    /\ pc[t] \in {"ok", "error"}
    /\ app = "testing" => mutex = NoThread
    /\ pc' = [pc EXCEPT ![t] = "idle"]
    /\ succeeded' = IF pc[t] = "ok" THEN succeeded \cup {Command(t)} ELSE succeeded
    /\ app' = IF app = "testing" THEN StartupResult(t) ELSE app
    /\ UNCHANGED <<platform, handler, told, launchVars, chanVars, elevVars, mutex, issued>>

---------------------------------------------------------------------------
(* The elevator's loop. *)

\* Mutant: only the channel is watched.
SeesOnlyChannel == FALSE

\* On mac the elevator also watches the desktop's process.
SeesDesktopGone == platform = "mac" /\ app = "gone"

ReadCommand ==
    /\ elev = "reading" /\ toElev # <<>> /\ ~SeesDesktopGone
    /\ elev' = "running" /\ current' = Head(toElev) /\ toElev' = Tail(toElev)
    /\ UNCHANGED <<platform, appVars, launchVars, ipc, backlog, others, link, toApp,
                   outcome, runs, callVars>>

HandleCommand ==
    /\ elev = "running"
    /\ runs' = [runs EXCEPT ![current] = @ + 1]
    /\ outcome' \in BOOLEAN
    /\ elev' = "responding"
    /\ UNCHANGED <<platform, appVars, launchVars, chanVars, current, callVars>>

\* A response that is too large is replaced by an error; one that cannot be
\* sent is given up, and the elevator's end no longer works.
SendResponse ==
    /\ elev = "responding" /\ current' = NoCommand
    /\ \/ /\ link \in {"open", "held"}
          /\ elev' = "reading"
          /\ \E ok \in {outcome, FALSE} : toApp' = Append(toApp, [cmd |-> current, ok |-> ok])
       \/ elev' = "broken" /\ UNCHANGED toApp
    /\ UNCHANGED <<platform, appVars, launchVars, ipc, backlog, others, link, toElev,
                   outcome, runs, callVars>>

\* The next command cannot be read: the end of the channel (what was written
\* before it may be lost), or of the desktop.
ElevatorExits ==
    /\ \/ elev = "reading" /\ link = "shut"
       \/ elev = "reading" /\ SeesDesktopGone
       \/ elev = "broken"
    /\ elev' = "exited" /\ link' = "shut"
    /\ UNCHANGED <<platform, appVars, launchVars, ipc, backlog, others, toElev, toApp,
                   current, outcome, runs, callVars>>

---------------------------------------------------------------------------
(* Ends. *)

\* The elevator crashes or is killed.
ElevatorDies ==
    /\ ElevAlive
    /\ elev' = "exited" /\ current' = NoCommand
    /\ link' = IF link = "none" THEN link ELSE "shut"
    /\ UNCHANGED <<platform, appVars, launchVars, ipc, backlog, others, toElev, toApp,
                   outcome, runs, callVars>>

\* Shell::Destroy, after every thread that uses Shell has been joined.
Destroy ==
    /\ app \in {"up", "refused"} /\ \A t \in Threads : pc[t] = "idle"
    /\ app' = "gone" /\ handler' = FALSE
    /\ Close /\ TerminateLauncher
    /\ UNCHANGED <<platform, told, grace, others, toElev, toApp, elevVars, callVars>>

\* The desktop crashes.  A process it started may still hold its socket (mac).
DesktopDies ==
    /\ app # "gone"
    /\ app' = "gone" /\ handler' = FALSE
    /\ ipc' = "closed" /\ backlog' = <<>>
    /\ link' \in IF link # "open" THEN {link}
                 ELSE IF platform = "mac" THEN {"shut", "held"} ELSE {"shut"}
    /\ mutex' = NoThread /\ pc' = [t \in Threads |-> "idle"]
    /\ UNCHANGED <<platform, told, launchVars, others, toElev, toApp, elevVars, issued, succeeded>>

Next ==
    \/ Start \/ Approve \/ Deny \/ GraceEnds
    \/ Connect \/ ConnectFails \/ OtherConnects \/ Accept \/ AcceptFails
    \/ SetElevatorLostHandler
    \/ \E t \in Threads : \/ Call(t) \/ Begin(t) \/ WriteCommand(t) \/ ReadResponse(t)
                          \/ CheckLost(t) \/ OnElevatorLost(t) \/ Return(t)
    \/ ReadCommand \/ HandleCommand \/ SendResponse \/ ElevatorExits
    \/ ElevatorDies \/ Destroy \/ DesktopDies

\* Both programs keep running and every wait of theirs has a limit; a command
\* ends.  Nothing is assumed of the user, of crashes, or of when the desktop
\* gives commands and ends.
Fairness ==
    /\ WF_vars(Accept \/ AcceptFails)
    /\ \A t \in Threads : /\ WF_vars(Begin(t)) /\ WF_vars(WriteCommand(t))
                          /\ WF_vars(ReadResponse(t)) /\ WF_vars(CheckLost(t))
                          /\ WF_vars(OnElevatorLost(t)) /\ WF_vars(Return(t))
    /\ WF_vars(Connect \/ ConnectFails)
    /\ WF_vars(ReadCommand) /\ WF_vars(HandleCommand) /\ WF_vars(SendResponse)
    /\ WF_vars(ElevatorExits)

Spec == Init /\ [][Next]_vars /\ Fairness

---------------------------------------------------------------------------
(* The inductive invariant: one command at most is on its way, and it is   *)
(* that of the thread that waits, or the channel is closed.                *)

OnTheWay(c) == toElev = <<c>> \/ current = c \/ \E ok \in BOOLEAN : toApp = <<[cmd |-> c, ok |-> ok]>>

\* At one place of the way, in the elevator only while it works on it.
WayInv ==
    /\ current # NoCommand <=> elev \in {"running", "responding"}
    /\ \/ toElev = <<>> /\ toApp = <<>>
       \/ toApp = <<>> /\ current = NoCommand /\ \E c \in Commands : toElev = <<c>>
       \/ toElev = <<>> /\ current = NoCommand /\ \E r \in Responses : toApp = <<r>>
    /\ launch \in {"none", "prompt", "denied"} => elev = "none"
    /\ ipc = "none" => launch = "none"

\* The channel has one user, and whatever is on its way is his.
ChannelInv ==
    /\ \A t \in Threads : pc[t] \in {"write", "read"} => mutex = t /\ ipc = "connected"
    /\ \A c \in Commands : OnTheWay(c) =>
          ipc = "closed" \/ (pc[c[1]] = "read" /\ c = Command(c[1]))

\* A command is carried out between its call and its success.
RunInv ==
    /\ \A c \in Commands :
          /\ runs[c] \in {0, 1}
          /\ runs[c] = 1 \/ OnTheWay(c) => c[2] <= issued[c[1]]
          /\ toElev = <<c>> => runs[c] = 0
          /\ current = c => runs[c] = IF elev = "running" THEN 0 ELSE 1
          /\ \A ok \in BOOLEAN : toApp = <<[cmd |-> c, ok |-> ok]>> => runs[c] = 1
    /\ \A t \in Threads :
          /\ pc[t] # "idle" => issued[t] > 0
          /\ pc[t] \in {"call", "write"} => runs[Command(t)] = 0 /\ ~OnTheWay(Command(t))
          /\ pc[t] = "ok" => runs[Command(t)] = 1

\* The handler of the loss is set once and taken out before it is called.
ToldInv ==
    /\ ipc \in {"none", "listening"} => app = "starting"
    /\ app \in {"starting", "testing", "checked", "refused"} => ~handler /\ told = 0
    /\ told <= IF handler THEN 0 ELSE 1

ElevatorInv == TypeOK /\ WayInv /\ ChannelInv /\ RunInv /\ ToldInv

---------------------------------------------------------------------------
\* Shell as its callers see it: a command is carried out at most once, and is
\* reported as successful only if it was.  In particular no thread is given the
\* response to another command, however late that response is.
Abstract == INSTANCE ShellCall WITH pending <- {t \in Threads : pc[t] # "idle"}
ImplementsShellCall == Abstract!Spec

\* A command that fails because the elevator is gone leads to the message that
\* says so, as soon as there is a window to show it, and to one message only,
\* however many commands of however many threads fail.
LossIsTold ==
    \A t \in Threads : (pc[t] = "none" /\ handler /\ ~IsRunning) ~> [](told = 1 \/ app = "gone")

\* No elevated process is left behind: when the desktop has closed its end or
\* is gone, the elevator ends, also where its socket is still held open.
ElevatorEnds == (ElevAlive /\ ipc = "closed") ~> ~ElevAlive

\* The handler of the loss tells the user once, although several threads may find the
\* elevator gone at the same time (Shell.cpp OnElevatorLost).
LossToldOnce == told <= 1
=============================================================================
