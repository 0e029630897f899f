------------------------------- MODULE Pairing -------------------------------
(* Pairing a phone: the wizard of the desktop application (PairingForm) or the
   command (PairingCommand), the session they start and stop (PairingSession),
   its TCP or cloud server, the threads that serve phones, and the list the
   paired device is added to.  The user interface is one thread that waits for
   the session's threads whenever it stops the session; they report to it
   through its event queue. *)
EXTENDS DeviceStore

CONSTANTS
  Clients,      \* the connections of phones
  ClientsOf,    \* bound: the connections of a session, per front end
  MaxClients,   \* MAX_CLIENTS
  InitialFiles, \* what the file holds to begin with, per front end
  MaxFaults,    \* bound on failed accesses to the file, per front end
  MaxFailures,  \* unreachable polls in a row that end the polling
  MaxSessions,  \* bound on the sessions started
  MaxCalls,     \* bound on the calls from the main form and the crashes
  MaxCommands   \* bound on the commands of the other process, per front end

ASSUME PairingAssumption ==
  /\ Clients \subseteq Threads /\ {"ui", "cmd"} \subseteq Threads \ Clients
  /\ \A f \in {"gui", "cli"} : ClientsOf[f] \subseteq Clients
  /\ \A c \in Clients : ProcOf[c] = "app"
  /\ ProcOf["ui"] = "app" /\ ProcOf["cmd"] = "cli"
  /\ "CLOUD" \in Methods
  /\ \A f \in {"gui", "cli"} : \A stored \in InitialFiles[f] : StoredFile(stored)

VARIABLES
  front,    \* the wizard ("gui") or the command ("cli")
  form,     \* m_CurrentStep, m_StepStack, the chosen data, what is on the screen
  ui,       \* where the thread of the user interface is
  queue,    \* the events queued for it
  done,     \* isDone and error of the command, and its verdict
  server,   \* the pairing server of the session
  poll,     \* CloudPollThread
  client,   \* ClientThread or RelayThread
  scan,     \* the Bluetooth scan thread and m_IsBluetoothScanRunning
  counts    \* the bounded counters

pairVars == <<front, form, ui, queue, done, server, poll, client, scan, counts>>
vars == <<storeVars, pairVars>>

Steps == {"USER_PASSWORD_SELECT", "DEVICE_TYPE_SELECT", "METHOD_TYPE_SELECT", "METHOD_SELECT",
          "BLUETOOTH_DEVICE_SELECT", "BLUETOOTH_PAIRING", "QR_SCAN", "NONE"}

NoServer == [kind |-> "none", running |-> FALSE, accept |-> "none", open |-> FALSE]
NoPoll == [pc |-> "none", running |-> FALSE, failures |-> 0]
NoClient == [pc |-> "none", id |-> "none"]
IdleForm == [step |-> "NONE", stack |-> <<>>, view |-> "main", method |-> "CLOUD", skip |-> FALSE]

Alive(c) == client[c].pc \notin {"none", "ended"}
NumConnections == Cardinality({c \in Clients : Alive(c) /\ client[c].pc # "accepted"})

----
\* Callbacks.  The wizard queues an event; the command notes the first error,
\* unless it is done already.
Report(kind) ==
  IF front = "gui"
  THEN queue' = Append(queue, kind) /\ UNCHANGED done
  ELSE /\ done' = [done EXCEPT !.isDone = TRUE,
                               !.error = @ \/ (kind = "error" /\ ~done.isDone)]
       /\ UNCHANGED queue

Silent == UNCHANGED <<queue, done>>
\* ReportSuccess and ReportError: only while the server runs.
ReportWhileRunning(kind) == IF server.running THEN Report(kind) ELSE Silent

----
\* The wizard.

\* GetNextStep; the step after the credentials is reached only past the check.
GetNextStep(f) ==
  CASE f.step = "USER_PASSWORD_SELECT" -> "DEVICE_TYPE_SELECT"
    [] f.step = "DEVICE_TYPE_SELECT" -> "METHOD_TYPE_SELECT"
    [] f.step = "METHOD_TYPE_SELECT" -> IF f.method = "CLOUD" THEN "QR_SCAN" ELSE "METHOD_SELECT"
    [] f.step = "METHOD_SELECT" ->
         IF f.method = "BLUETOOTH" THEN "BLUETOOTH_DEVICE_SELECT" ELSE "QR_SCAN"
    [] f.step = "BLUETOOTH_DEVICE_SELECT" -> "BLUETOOTH_PAIRING"
    [] f.step = "BLUETOOTH_PAIRING" -> "QR_SCAN"
    [] f.step = "QR_SCAN" -> "NONE"
    [] OTHER -> "USER_PASSWORD_SELECT"

\* OnNextClicked past the credentials: the step that only waits is not pushed.
NextForm(f) ==
  [f EXCEPT !.stack = IF f.step \in {"NONE", "BLUETOOTH_PAIRING"} THEN @ ELSE Append(@, f.step),
            !.step = GetNextStep(f), !.skip = FALSE]

\* OnBackClicked: with nothing on the stack the main form is shown and the step
\* stays as it is.
BackForm(f) ==
  IF f.stack = <<>> THEN [f EXCEPT !.view = "main"]
  ELSE [f EXCEPT !.step = f.stack[Len(f.stack)], !.stack = SubSeq(@, 1, Len(@) - 1)]

\* UpdateStepForm begins: whatever the step, the running session is stopped
\* first, the thread that polls before the servers it hands connections to.
Goto(f) ==
  /\ form' = f
  /\ ui' = IF f.view = "main" /\ f.step = form.step THEN "idle" ELSE "stop_poll"

UiIdle == ui = "idle" /\ op["ui"].pc = "idle" /\ front = "gui"

\* Show: only with the service installed; nothing of an earlier visit is kept.
Show ==
  /\ UiIdle /\ form.view = "main"
  /\ counts.sessions < MaxSessions
  /\ form' = [IdleForm EXCEPT !.step = "USER_PASSWORD_SELECT", !.view = "wizard"]
  /\ UNCHANGED <<storeVars, front, ui, queue, done, server, poll, client, scan, counts>>

\* SetData and the corrections of UpdateStepForm: the user picks a method.
SetData ==
  /\ UiIdle /\ form.view = "wizard"
  /\ form.step \in {"METHOD_TYPE_SELECT", "METHOD_SELECT"}
  /\ \E m \in Methods :
       /\ form.step = "METHOD_SELECT" => m # "CLOUD"
       /\ form' = [form EXCEPT !.method = m]
  /\ UNCHANGED <<storeVars, front, ui, queue, done, server, poll, client, scan, counts>>

\* CheckCredentials at the first step: refused, refused with an offer to skip
\* the check, or passed; a check the user chose to skip passes.
CheckCredentials == {"refused", "may_skip", "passed"}

OnNextClicked ==
  /\ UiIdle /\ form.view = "wizard"
  /\ form.step # "BLUETOOTH_PAIRING"
  /\ GetNextStep(form) = "QR_SCAN" => counts.sessions < MaxSessions
  /\ \/ /\ form.step = "USER_PASSWORD_SELECT"
        /\ \E check \in CheckCredentials :
             \/ /\ check = "passed" \/ form.skip
                /\ Goto(NextForm(form))
             \/ /\ check = "may_skip" /\ ~form.skip
                /\ form' = [form EXCEPT !.skip = TRUE]  \* accepted in the dialog
                /\ UNCHANGED ui
     \/ /\ form.step # "USER_PASSWORD_SELECT"
        /\ Goto(NextForm(form))
  /\ UNCHANGED <<storeVars, front, queue, done, server, poll, client, scan, counts>>

OnBackClicked ==
  /\ UiIdle /\ form.view = "wizard" /\ form.step # "BLUETOOTH_PAIRING"
  /\ Goto(BackForm(form))
  /\ UNCHANGED <<storeVars, front, queue, done, server, poll, client, scan, counts>>

\* finishBluetoothPairing: the phone was paired by the system, or was not.
FinishBluetoothPairing ==
  /\ UiIdle /\ form.step = "BLUETOOTH_PAIRING" /\ counts.sessions < MaxSessions
  /\ \E paired_ok \in BOOLEAN : Goto(IF paired_ok THEN NextForm(form) ELSE BackForm(form))
  /\ UNCHANGED <<storeVars, front, queue, done, server, poll, client, scan, counts>>

\* OnPairingSuccess and OnPairingError: the events are acted on only at the step
\* that shows the code.
OnPairingEvent ==
  /\ UiIdle /\ queue # <<>>
  /\ queue' = Tail(queue)
  /\ IF form.step = "QR_SCAN"
     THEN Goto(IF Head(queue) = "success" THEN NextForm(form) ELSE BackForm(form))
     ELSE UNCHANGED <<form, ui>>
  /\ UNCHANGED <<storeVars, front, done, server, poll, client, scan, counts>>

----
\* PairingSession::Stop, on the thread of the user interface.

\* StopCloudPolling: the flag, then the thread.
\* Mutant: the flag of the thread stays set.
StopPollingKeepsFlag ==
  /\ ui = "stop_poll"
  /\ ui' = "join_poll"
  /\ UNCHANGED <<storeVars, front, form, queue, done, server, poll, client, scan, counts>>
StopCloudPolling ==
  /\ ui = "stop_poll"
  /\ poll' = [poll EXCEPT !.running = FALSE]
  /\ ui' = "join_poll"
  /\ UNCHANGED <<storeVars, front, form, queue, done, server, client, scan, counts>>

JoinPoll ==
  /\ ui = "join_poll" /\ poll.pc \in {"none", "ended"}
  /\ poll' = NoPoll
  /\ ui' = "stop_server"
  /\ UNCHANGED <<storeVars, front, form, queue, done, server, client, scan, counts>>

\* Stop of the server: the flag, the socket it listens on or the relay's stream.
StopServer ==
  /\ ui = "stop_server"
  /\ server' = [server EXCEPT !.running = FALSE, !.open = FALSE]
  /\ ui' = "join_server"
  /\ UNCHANGED <<storeVars, front, form, queue, done, poll, client, scan, counts>>

\* The accept thread joins the clients itself; the relay is joined here.  Then
\* the session is gone, and the wizard enters its step or the command ends.
\* Mutant: the thread that serves the relay is not waited for.
JoinServerNotRelay ==
  /\ ui = "join_server"
  /\ server.accept \in {"none", "ended"}
  /\ server' = NoServer
  /\ ui' = IF front = "gui" THEN "enter" ELSE "verdict"
  /\ client' = [c \in Clients |-> IF Alive(c) THEN client[c] ELSE NoClient]
  /\ UNCHANGED <<storeVars, front, form, queue, done, poll, scan, counts>>
JoinServer ==
  /\ ui = "join_server"
  /\ server.accept \in {"none", "ended"}
  /\ server.kind = "cloud" => \A c \in Clients : ~Alive(c)
  /\ server' = NoServer
  /\ client' = [c \in Clients |-> IF Alive(c) THEN client[c] ELSE NoClient]
  /\ ui' = IF front = "gui" THEN "enter" ELSE "verdict"
  /\ UNCHANGED <<storeVars, front, form, queue, done, poll, scan, counts>>

\* PairingSession::Start after its Stop: a new key, the server and its thread.
StartSession(m) ==
  /\ server' = [kind |-> IF m = "CLOUD" THEN "cloud" ELSE "tcp", running |-> TRUE,
                accept |-> IF m = "CLOUD" THEN "none" ELSE "init", open |-> FALSE]
  /\ poll' = IF m = "CLOUD" THEN [NoPoll EXCEPT !.pc = "run", !.running = TRUE] ELSE NoPoll
  /\ counts' = [counts EXCEPT !.sessions = @ + 1]

\* The rest of UpdateStepForm: the session at the step that shows the code, the
\* scan thread at the step that selects the phone (an earlier one is joined).
EnterStep ==
  /\ ui = "enter"
  /\ form.step = "BLUETOOTH_DEVICE_SELECT" => scan.pc # "scan"
  /\ IF form.step = "QR_SCAN" THEN StartSession(form.method)
     ELSE UNCHANGED <<server, poll, counts>>
  /\ scan' = IF form.step = "BLUETOOTH_DEVICE_SELECT" THEN [pc |-> "scan", running |-> TRUE]
             ELSE [scan EXCEPT !.running = FALSE]
  /\ form' = [form EXCEPT !.view = IF form.step = "NONE" THEN "main" ELSE "wizard"]
  /\ ui' = IF front = "gui" THEN "idle" ELSE "wait"
  /\ UNCHANGED <<storeVars, front, queue, done, client>>

\* While the UI waits to join the old scan thread it has cleared the flag before.
ScanThread ==
  /\ scan.pc = "scan" /\ ~scan.running
  /\ scan' = [scan EXCEPT !.pc = "ended"]
  /\ UNCHANGED <<storeVars, front, form, ui, queue, done, server, poll, client, counts>>

----
\* The command: it waits for its callbacks or Ctrl+C, stops the session and
\* prints its verdict.
CommandEnds ==
  /\ ui = "wait"
  /\ ui' = "stop_poll"
  /\ UNCHANGED <<storeVars, front, form, queue, done, server, poll, client, scan, counts>>

CommandDone == done.isDone /\ CommandEnds
CommandInterrupted == ~done.isDone /\ CommandEnds

Verdict(d) == IF ~d.isDone THEN "canceled" ELSE IF d.error THEN "error" ELSE "paired"

CommandVerdict ==
  /\ ui = "verdict"
  /\ done' = [done EXCEPT !.verdict = Verdict(done)]
  /\ ui' = "exited"
  /\ UNCHANGED <<storeVars, front, form, queue, server, poll, client, scan, counts>>

----
\* CloudPollThread: the time is up, which is reported whatever the flag says;
\* the session is found and its relay connected; or the answers end the polling.
PollEnds(report) ==
  /\ poll' = [poll EXCEPT !.pc = "ended"]
  /\ IF report THEN Report("error") ELSE Silent

PollExpired ==
  /\ poll.pc = "run" /\ poll.running
  /\ poll' = [poll EXCEPT !.pc = "expired"]
  /\ UNCHANGED <<storeVars, front, form, ui, queue, done, server, client, scan, counts>>

PollReportsExpiry ==
  /\ poll.pc = "expired" /\ PollEnds(TRUE)
  /\ UNCHANGED <<storeVars, front, form, ui, server, client, scan, counts>>

PollRequest ==
  /\ poll.pc = "run"
  /\ poll' = [poll EXCEPT !.pc = IF poll.running THEN "asked" ELSE "ended"]
  /\ UNCHANGED <<storeVars, front, form, ui, queue, done, server, client, scan, counts>>

\* ConnectRelay: one relay thread for a server.
ConnectRelay ==
  \E c \in ClientsOf[front] :
    /\ \A k \in Clients : client[k].pc = "none"
    /\ client' = [client EXCEPT ![c].pc = "connect"]

PollAnswer ==
  /\ poll.pc = "asked"
  /\ \/ /\ ConnectRelay                       \* Ok
        /\ poll' = [poll EXCEPT !.pc = "ended"] /\ Silent
     \/ /\ poll' = [poll EXCEPT !.pc = "run", !.failures = 0]   \* Pending
        /\ Silent /\ UNCHANGED client
     \/ /\ poll.failures + 1 < MaxFailures    \* ServerUnreachable
        /\ poll' = [poll EXCEPT !.pc = "run", !.failures = @ + 1]
        /\ Silent /\ UNCHANGED client
     \/ /\ PollEnds(poll.running)             \* an error, or unreachable too often
        /\ UNCHANGED client
  /\ UNCHANGED <<storeVars, front, form, ui, server, scan, counts>>

----
\* TCPPairingServer::AcceptThread.
AcceptInit ==
  /\ server.accept = "init"
  /\ \/ /\ server' = [server EXCEPT !.accept = "loop", !.open = TRUE] /\ Silent
     \/ /\ ReportWhileRunning("error")        \* socket, bind or listen failed
        /\ server' = [server EXCEPT !.accept = "ended", !.running = FALSE]
  /\ UNCHANGED <<storeVars, front, form, ui, poll, client, scan, counts>>

AcceptClient ==
  /\ server.accept = "loop" /\ server.running /\ server.open
  /\ NumConnections < MaxClients
  /\ \E c \in ClientsOf[front] :
       /\ client[c].pc = "none"
       /\ client' = [client EXCEPT ![c].pc = "accepted"]
  /\ UNCHANGED <<storeVars, front, form, ui, queue, done, server, poll, scan, counts>>

\* The loop ends: the flag, the socket closed by Stop, or a failing accept or
\* client socket; the sockets of the clients are closed.
AcceptEnds ==
  /\ server.accept = "loop"
  /\ \/ (~server.running \/ ~server.open) /\ Silent
     \/ server.running /\ server.open /\ ReportWhileRunning("error")
  /\ server' = [server EXCEPT !.accept = "join", !.running = FALSE, !.open = FALSE]
  /\ UNCHANGED <<storeVars, front, form, ui, poll, client, scan, counts>>

AcceptJoins ==
  /\ server.accept = "join" /\ \A c \in Clients : ~Alive(c)
  /\ server' = [server EXCEPT !.accept = "ended"]
  /\ UNCHANGED <<storeVars, front, form, ui, queue, done, poll, client, scan, counts>>

----
\* ClientThread and RelayThread.
ClientStarts(c) ==
  /\ \/ client[c].pc = "accepted" /\ client' = [client EXCEPT ![c].pc = "read"] /\ Silent
     \/ /\ client[c].pc = "connect"
        /\ \/ client' = [client EXCEPT ![c].pc = "read"] /\ Silent
           \/ /\ client' = [client EXCEPT ![c].pc = "ended"]
              /\ ReportWhileRunning("error")
  /\ UNCHANGED <<storeVars, front, form, ui, server, poll, scan, counts>>

\* HandleClient, the request: a read that fails is reported when the cause is
\* known or the connection is the relay's; a request that cannot be served is
\* answered with its error, and reported only when that answer fails.
HandleRead(c) ==
  /\ client[c].pc = "read"
  /\ \/ \E id \in Ids :
          /\ client' = [client EXCEPT ![c].pc = "respond", ![c].id = id] /\ Silent
     \/ /\ client' = [client EXCEPT ![c].pc = "ended"]
        /\ ReportWhileRunning("error") \/ Silent
  /\ UNCHANGED <<storeVars, front, form, ui, server, poll, scan, counts>>

\* The response with a new key for the password, then AddDevice.
HandleRespond(c) ==
  /\ client[c].pc = "respond"
  /\ \/ /\ client' = [client EXCEPT ![c].pc = "store"]
        /\ Call(c, "add", [id |-> client[c].id, method |-> form.method,
                           key |-> counts.keys + 1], FALSE)
        /\ counts' = [counts EXCEPT !.keys = @ + 1]
        /\ Silent
     \/ /\ client' = [client EXCEPT ![c].pc = "ended"]
        /\ ReportWhileRunning("error")
        /\ UNCHANGED <<op, counts>>
  /\ UNCHANGED <<file, cache, lock, faults, paired, raced>>
  /\ UNCHANGED <<front, form, ui, server, poll, scan>>

\* The device is stored, or its save failed, which AddDevice does not say.
HandleStored(c) ==
  /\ client[c].pc = "store" /\ op[c].pc = "done"
  /\ client' = [client EXCEPT ![c].pc = "ended"]
  /\ op' = [op EXCEPT ![c] = IdleOp]
  /\ ReportWhileRunning("success")
  /\ UNCHANGED <<file, cache, lock, faults, paired, raced>>
  /\ UNCHANGED <<front, form, ui, server, poll, scan, counts>>

----
\* The other users of the list: the main form and the settings of the desktop
\* application, and the commands of another process.
Arg(id) == [NoDevice EXCEPT !.id = id]

UiCall ==
  /\ UiIdle /\ form.view = "main" /\ counts.commands < MaxCalls
  /\ \/ Call("ui", "list", NoDevice, FALSE)
     \/ \E id \in Ids : Call("ui", "remove", Arg(id), FALSE)
     \/ \E m \in Methods : Call("ui", "remove_method", [NoDevice EXCEPT !.method = m], FALSE)
     \/ \E id \in Ids : Call("ui", "ssh", Arg(id), TRUE)
  /\ counts' = [counts EXCEPT !.commands = @ + 1]
  /\ UNCHANGED <<file, cache, lock, faults, paired, raced>>
  /\ UNCHANGED <<front, form, ui, queue, done, server, poll, client, scan>>

CommandCall ==
  /\ op["cmd"].pc = "idle" /\ counts.commands < MaxCommands[front]
  /\ \E id \in Ids : Call("cmd", "remove", Arg(id), TRUE)
  /\ counts' = [counts EXCEPT !.commands = @ + 1]
  /\ UNCHANGED <<file, cache, lock, faults, paired, raced>>
  /\ UNCHANGED <<front, form, ui, queue, done, server, poll, client, scan>>

\* A call returns; a command prints that the device is removed, and its process
\* and cache end with it.
CallReturns(t) ==
  /\ t \in {"ui", "cmd"} /\ op[t].pc = "done"
  /\ op' = [op EXCEPT ![t] = IdleOp]
  /\ IF t = "cmd" THEN InvalidateCache("cli") ELSE UNCHANGED cache
  /\ UNCHANGED <<file, lock, faults, paired, raced, pairVars>>

\* The desktop application crashes and is started again: its checks read the
\* list.  What the file holds is all that is left.
Crash ==
  /\ front = "gui" /\ counts.commands < MaxCalls
  /\ counts' = [counts EXCEPT !.commands = @ + 1]
  /\ raced' = (raced \/ file.state = "torn" \/ cache["app"] # Load)
  /\ InvalidateCache("app")
  /\ lock' = [lock EXCEPT !["app"] = NoThread]
  /\ op' = [t \in Threads |-> IF ProcOf[t] = "app" THEN IdleOp ELSE op[t]]
  /\ form' = IdleForm /\ ui' = "idle" /\ queue' = <<>>
  /\ server' = NoServer /\ poll' = NoPoll
  /\ client' = [c \in Clients |-> NoClient]
  /\ scan' = [pc |-> "none", running |-> FALSE]
  /\ UNCHANGED <<file, faults, paired, front, done>>

----
Init ==
  /\ front \in {"gui", "cli"}
  /\ StoreInit(InitialFiles[front])
  /\ \E m \in Methods :
       form = IF front = "gui" THEN IdleForm
              ELSE [IdleForm EXCEPT !.step = "QR_SCAN", !.view = "wizard", !.method = m]
  /\ faults = MaxFaults[front]
  /\ ui = IF front = "gui" THEN "idle" ELSE "enter"
  /\ queue = <<>>
  /\ done = [isDone |-> FALSE, error |-> FALSE, verdict |-> "none"]
  /\ server = NoServer /\ poll = NoPoll
  /\ client = [c \in Clients |-> NoClient]
  /\ scan = [pc |-> "none", running |-> FALSE]
  /\ counts = [sessions |-> 0, commands |-> 0, keys |-> 1]

StoreSteps == \E t \in Threads : StoreStep(t) /\ UNCHANGED pairVars

UiSteps == Show \/ SetData \/ OnNextClicked \/ OnBackClicked \/ UiCall
StopSteps == StopCloudPolling \/ JoinPoll \/ StopServer \/ JoinServer \/ EnterStep
CommandSteps == CommandDone \/ CommandVerdict
PollSteps == PollReportsExpiry \/ PollRequest \/ PollAnswer
AcceptSteps == AcceptInit \/ AcceptEnds \/ AcceptJoins
ClientSteps(c) ==
  ClientStarts(c) \/ HandleRead(c) \/ HandleRespond(c) \/ HandleStored(c)

Next ==
  \/ StoreSteps \/ UiSteps \/ StopSteps \/ CommandSteps
  \/ FinishBluetoothPairing \/ OnPairingEvent \/ ScanThread
  \/ PollExpired \/ PollSteps \/ AcceptSteps \/ AcceptClient
  \/ \E c \in Clients : ClientSteps(c)
  \/ CommandInterrupted \/ CommandCall \/ (\E t \in Threads : CallReturns(t)) \/ Crash

(* Every thread goes on when it can: the polls are cancelled and time out, and
   a read of a phone's packet ends with the stream's timeout. *)
Fairness ==
  /\ WF_vars(StoreSteps) /\ WF_vars(StopSteps) /\ WF_vars(ScanThread)
  /\ WF_vars(PollSteps) /\ WF_vars(AcceptSteps)
  /\ \A c \in Clients : WF_vars(ClientSteps(c))
  /\ WF_vars(CommandSteps)

Spec == Init /\ [][Next]_vars /\ Fairness

----
(* Once the wizard has left the step that shows the code, or the command has
   stopped its session, nothing of the session is left: no thread polls,
   accepts or serves a phone, so no phone can be paired behind a closed wizard
   and no thread uses the servers the session has destroyed. *)
NothingOutlivesSession ==
  (ui \in {"idle", "enter", "verdict", "exited"} /\ server = NoServer) =>
    /\ poll.pc \in {"none", "ended"}
    /\ \A c \in Clients : ~Alive(c)

(* Stopping a session returns: the user interface is not left waiting for a
   thread of the session. *)
StopReturns == (ui = "stop_poll") ~> (ui \in {"idle", "wait", "exited"})

----
(* The inductive invariant of a session. *)

SessionTypeOK ==
  /\ front \in {"gui", "cli"}
  /\ server \in [kind : {"none", "tcp", "cloud"}, running : BOOLEAN,
                 accept : {"none", "init", "loop", "join", "ended"}, open : BOOLEAN]
  /\ poll \in [pc : {"none", "run", "expired", "asked", "ended"}, running : BOOLEAN,
               failures : Nat]
  /\ client \in [Clients -> [pc : {"none", "accepted", "connect", "read", "respond",
                                  "store", "ended"}, id : Ids \cup {"none"}]]

\* Whose threads are whose: the poll belongs to a cloud server, an accept thread
\* to a TCP server, and whoever serves a phone to one of them; a TCP server has
\* nobody serving before its accept thread listens and after it has ended.
OwnerInv ==
  /\ poll.pc \notin {"none", "ended"} => server.kind = "cloud"
  /\ server.accept # "none" <=> server.kind = "tcp"
  /\ \A c \in Clients : Alive(c) =>
       server.kind = "cloud" \/ server.accept \in {"loop", "join"}

\* How far Stop has come.
StopInv ==
  /\ ui \in {"stop_server", "join_server"} => poll.pc = "none"
  /\ ui \in {"enter", "verdict", "exited"} => server = NoServer

SessionInv == SessionTypeOK /\ OwnerInv /\ StopInv

----
(* Every variable stays in its type: the list and the calls on it, the session,
   and the front end that drives it. *)
TypeOK ==
  /\ StoreTypeOK /\ SessionTypeOK
  /\ form \in [step : Steps, stack : Seq(Steps), view : {"main", "wizard"},
               method : Methods, skip : BOOLEAN]
  /\ ui \in {"idle", "stop_poll", "join_poll", "stop_server", "join_server", "enter",
             "wait", "verdict", "exited"}
  /\ queue \in Seq({"success", "error"})
  /\ done \in [isDone : BOOLEAN, error : BOOLEAN,
               verdict : {"none", "canceled", "error", "paired"}]
  /\ scan \in [pc : {"none", "scan", "ended"}, running : BOOLEAN]
  /\ counts \in [sessions : Nat, commands : Nat, keys : Nat]
==============================================================================
