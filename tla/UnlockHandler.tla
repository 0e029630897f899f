---------------------------- MODULE UnlockHandler ----------------------------
(***************************************************************************)
(* UnlockHandler::GetResult and RunServer                                  *)
(* (common/src/handler/UnlockHandler.cpp): one unlock request.             *)
(*                                                                         *)
(* GetResult builds one connection for each paired device of the user (two *)
(* on Windows for a Bluetooth device, one server for all the UDP devices), *)
(* runs RunServer for each of them in a thread of its own, waits on a      *)
(* condition variable until every thread has merged its result into        *)
(* currentResult, cleans up and returns.  A step of a thread is what it    *)
(* does between two accesses to state that the others may change.          *)
(*                                                                         *)
(* The connections themselves (sockets, packets, the phone) are seen here  *)
(* as RunServer sees them: a phase, an unlock state and an m_IsRunning     *)
(* flag that change under it; modules UnlockConnection and UnlockClient    *)
(* model what is behind them.                                              *)
(***************************************************************************)
EXTENDS Naturals, FiniteSets

CONSTANTS
  Devices,      \* the paired devices of the user, after the deviceIds filter
  Method,       \* the pairing method of each device
  OnWindows,    \* whether this is the Windows build
  Outcomes,     \* the states connections end in (a subset of UnlockState)
  None          \* no value

(* enum UnlockState *)
UnlockState ==
  {"UNKNOWN", "SUCCESS", "CANCELED", "TIMEOUT", "CONNECT_ERROR", "TIME_ERROR",
   "DATA_ERROR", "NOT_PAIRED_ERROR", "APP_ERROR", "START_ERROR", "PORT_ERROR",
   "PROTOCOL_ERROR", "CLOUD_SERVER_UNREACHABLE", "CLOUD_PHONE_UNREACHABLE",
   "CLOUD_RATE_LIMITED", "CLOUD_PAIRING_GONE", "CLOUD_DEVICE_STALE",
   "CLOUD_NO_SUBSCRIPTION", "CLOUD_SUBSCRIPTION_STALE",
   "CLOUD_SUBSCRIPTION_ON_HOLD", "CLOUD_SUBSCRIPTION_PAUSED", "UNK_ERROR"}

(* enum class PairingMethod *)
PairingMethod == {"TCP", "BLUETOOTH", "CLOUD", "UDP", "MANUAL_UDP"}

(* enum class UnlockPhase, in its order; the two CLOUD phases between       *)
(* SERVER_WAITING and PHONE_UNLOCKING are never set by a local connection.  *)
PhaseRank == [FINISHED |-> 0, STARTING |-> 1, CLIENT_CONNECTING |-> 2,
              SERVER_WAITING |-> 3, PHONE_UNLOCKING |-> 6]

UnlockPhase == DOMAIN PhaseRank

(* States that only come from an answer of the phone itself. *)
PhoneAnswers == {"TIME_ERROR", "NOT_PAIRED_ERROR", "APP_ERROR", "DATA_ERROR",
                 "PROTOCOL_ERROR"}

IsPhoneAnswer(s) == s \in PhoneAnswers

-----------------------------------------------------------------------------
(* The connections GetResult builds. *)

Server == <<"udp", "server">>

UdpDevices == {d \in Devices : Method[d] \in {"UDP", "MANUAL_UDP"}}

ClientsFor(d) ==
  CASE Method[d] = "TCP" -> {<<d, "client">>}
    [] Method[d] = "BLUETOOTH" ->
         {<<d, "client">>} \cup (IF OnWindows THEN {<<d, "other">>} ELSE {})
    [] OTHER -> {}

Connections ==
  (UNION {ClientsFor(d) : d \in Devices})
    \cup (IF UdpDevices # {} THEN {Server} ELSE {})

isOtherClient(c) == c[2] = "other"

OtherClients == {c \in Connections : isOtherClient(c)}

IsBluetooth(c) == \E d \in Devices : c[1] = d /\ Method[d] = "BLUETOOTH"

HasBroadcaster == UdpDevices # {}

WaitingPhase(c) == IF c = Server THEN "SERVER_WAITING" ELSE "CLIENT_CONNECTING"

UnlockResult == [state : UnlockState, from : Connections \cup {None}]

ASSUME ConstantsAssumption ==
  /\ IsFiniteSet(Devices)
  /\ Method \in [Devices -> PairingMethod]
  /\ OnWindows \in BOOLEAN
  /\ Outcomes \subseteq UnlockState \ {"UNKNOWN"}
  /\ None \notin Connections
  /\ None \notin UnlockResult
  /\ None \notin UnlockState

-----------------------------------------------------------------------------

VARIABLES
  (* GetResult *)
  mainPc,          \* where GetResult stands
  isRunning,       \* the caller's flag; FALSE once it gave the request up
  currentResult,   \* the merged result
  completed,       \* the number of threads that have merged
  returned,        \* what GetResult returned, None before it did
  beacon,          \* the UDPUnlockBroadcaster: "none", "off", "on", "deleted"
  (* the thread of each connection *)
  pc,              \* where it stands
  phase,           \* its local phase, read at the head of the loop
  state,           \* its local state
  isBroadcasting,  \* its local isBroadcasting
  serverResult,    \* what RunServer returned, None before it did
  verdict,         \* its local isFinalResult, isLast and finalState
  (* the connections *)
  link,            \* "idle", "running" (m_IsRunning), "ending", "ended", "deleted"
  connPhase,       \* m_Phase
  connState,       \* m_UnlockState
  pairError,       \* the phone's error that BTUnlockClient::pairErrors holds for
                   \* a client: given to it or to its twin since it started
  (* the status line *)
  statusPhase,     \* m_StatusPhase, whose message is shown
  statusOwner,     \* m_StatusOwner
  statusDone,      \* m_StatusDone
  finalMessage     \* the message that set it: a state, or the decrypt error

mainVars == <<mainPc, returned>>
threadVars == <<phase, state, isBroadcasting>>
linkVars == <<link, connPhase, connState, pairError>>
statusVars == <<statusPhase, statusOwner, statusDone, finalMessage>>
vars == <<mainPc, isRunning, currentResult, completed, returned, beacon, pc,
          phase, state, isBroadcasting, serverResult, verdict, link, connPhase,
          connState, pairError, statusPhase, statusOwner, statusDone, finalMessage>>

NoVerdict == [isFinal |-> FALSE, isLast |-> FALSE, final |-> "UNKNOWN"]

Init ==
  /\ mainPc = "begin"
  /\ isRunning = TRUE
  /\ currentResult = [state |-> "UNKNOWN", from |-> None]
  /\ completed = 0
  /\ returned = None
  /\ beacon = IF HasBroadcaster THEN "off" ELSE "none"
  /\ pc = [c \in Connections |-> "unborn"]
  /\ phase = [c \in Connections |-> "FINISHED"]
  /\ state = [c \in Connections |-> "UNKNOWN"]
  /\ isBroadcasting = [c \in Connections |-> TRUE]
  /\ serverResult = [c \in Connections |-> None]
  /\ verdict = [c \in Connections |-> NoVerdict]
  /\ link = [c \in Connections |-> "idle"]
  /\ connPhase = [c \in Connections |-> "STARTING"]
  /\ connState = [c \in Connections |-> "UNKNOWN"]
  /\ pairError = [c \in Connections |-> None]
  /\ statusPhase = "FINISHED"
  /\ statusOwner = None
  /\ finalMessage = None
  /\ statusDone = FALSE

-----------------------------------------------------------------------------
(* Status messages.  Both forms run under m_StatusMutex. *)

(* Mutant: not even the owner may show a lower phase. *)
PrintStatusNoOwner(c, ph) ==
  IF statusDone \/ PhaseRank[ph] < PhaseRank[statusPhase]
    THEN UNCHANGED statusVars
    ELSE /\ statusPhase' = ph
         /\ statusOwner' = c
         /\ UNCHANGED <<finalMessage, statusDone>>

PrintStatus(c, ph) ==
  IF statusDone \/ (PhaseRank[ph] < PhaseRank[statusPhase] /\ c # statusOwner)
    THEN UNCHANGED statusVars
    ELSE /\ statusPhase' = ph
         /\ statusOwner' = c
         /\ UNCHANGED <<finalMessage, statusDone>>

PrintFinal(message) ==
  IF statusDone
    THEN UNCHANGED statusVars
    ELSE /\ statusDone' = TRUE
         /\ finalMessage' = message
         /\ UNCHANGED <<statusPhase, statusOwner>>

-----------------------------------------------------------------------------
(* The connection under RunServer: what its own threads do to the three     *)
(* values RunServer reads.  Only the thread of the connection reads them:   *)
(* in its loop, and once after Stop() for a Windows Bluetooth client.  What *)
(* happens to them when nothing reads them any more is left out.            *)

LoopLabels == {"loop", "poll"}

Observed(c) ==
  \/ pc[c] \in LoopLabels
  \/ pc[c] \in {"finish", "stop"} /\ OnWindows /\ IsBluetooth(c)

GetPhase(c) == IF link[c] = "running" THEN connPhase[c] ELSE "FINISHED"

(* BTUnlockClient::PollResult: the clients of a device share the error the  *)
(* phone gave to one of them, and a second client that never got the        *)
(* channel has not failed.                                                  *)
PollResult(c) ==
  IF ~IsBluetooth(c) \/ IsPhoneAnswer(connState[c]) \/ connState[c] = "SUCCESS"
    THEN connState[c]
  ELSE IF pairError[c] # None
    THEN pairError[c]
  ELSE IF /\ isOtherClient(c)
          /\ connState[c] = "CONNECT_ERROR"
          /\ connPhase[c] # "PHONE_UNLOCKING"
          /\ link[c] # "running"
    THEN "CANCELED"
  ELSE connState[c]

ShareError(c) ==
  pairError' = IF IsBluetooth(c) /\ IsPhoneAnswer(connState[c])
                 THEN [d \in Connections |->
                         IF d[1] = c[1] /\ link[d] # "idle"
                           THEN connState[c] ELSE pairError[d]]
                 ELSE pairError

(* A phone connects, or the last phone leaves the server. *)
ConnPhase(c) ==
  /\ Observed(c)
  /\ link[c] = "running"
  /\ \/ /\ connPhase[c] # "PHONE_UNLOCKING"
        /\ connPhase' = [connPhase EXCEPT ![c] = "PHONE_UNLOCKING"]
     \/ /\ c = Server
        /\ connPhase[c] = "PHONE_UNLOCKING"
        /\ connPhase' = [connPhase EXCEPT ![c] = "SERVER_WAITING"]
  /\ UNCHANGED <<mainVars, isRunning, currentResult, completed, beacon, pc,
                 threadVars, serverResult, verdict, link, connState, pairError,
                 statusVars>>

(* m_UnlockState is set: a success only by a connected phone and only over  *)
(* UNKNOWN, an error over any other state and, on the server that several   *)
(* phones may answer, over a success too; a Bluetooth client that connects  *)
(* again goes from CONNECT_ERROR back to UNKNOWN.                           *)
ConnState(c) ==
  /\ Observed(c)
  /\ link[c] \in {"running", "ending"}
  /\ \E s \in Outcomes \cup {"UNKNOWN"} :
       /\ s # connState[c]
       /\ connState[c] = "SUCCESS" => c = Server
       /\ s = "SUCCESS" => connState[c] = "UNKNOWN" /\ connPhase[c] = "PHONE_UNLOCKING"
       /\ s = "UNKNOWN" => /\ IsBluetooth(c)
                          /\ connState[c] = "CONNECT_ERROR"
                          /\ connPhase[c] # "PHONE_UNLOCKING"
       /\ connState' = [connState EXCEPT ![c] = s]
  /\ UNCHANGED <<mainVars, isRunning, currentResult, completed, beacon, pc,
                 threadVars, serverResult, verdict, link, connPhase, pairError,
                 statusVars>>

(* The connection's thread clears m_IsRunning, joins its own clients, ends. *)
ConnEnd(c) ==
  /\ link[c] \in {"running", "ending"}
  /\ link' = [link EXCEPT ![c] = IF @ = "running" THEN "ending" ELSE "ended"]
  /\ UNCHANGED <<mainVars, isRunning, currentResult, completed, beacon, pc,
                 threadVars, serverResult, verdict, connPhase, connState, pairError,
                 statusVars>>

-----------------------------------------------------------------------------
(* RunServer *)

(* A local variable that goes out of scope takes its first value again.     *)
Goto(c, l) == pc' = [pc EXCEPT ![c] = l]

StopBeacon(c) == beacon' = IF c = Server /\ beacon = "on" THEN "off" ELSE beacon

StartBeacon(c) == beacon' = IF c = Server /\ beacon = "off" THEN "on" ELSE beacon

(* connection->Start() and KeyScanner::Start(), which throws on Linux when  *)
(* /dev/input/by-path does not exist.                                       *)
Start(c) ==
  /\ pc[c] = "start"
  /\ \/ /\ Goto(c, "merge")
        /\ serverResult' = [serverResult EXCEPT ![c] = [state |-> "START_ERROR", from |-> None]]
        /\ UNCHANGED <<link, connPhase>>
     \/ /\ link' = [link EXCEPT ![c] = "running"]
        /\ connPhase' = [connPhase EXCEPT ![c] = WaitingPhase(c)]
        /\ \/ /\ Goto(c, "loop")
              /\ UNCHANGED serverResult
           \/ /\ ~OnWindows
              /\ Goto(c, "merge")
              /\ serverResult' = [serverResult EXCEPT ![c] = [state |-> "UNK_ERROR", from |-> None]]
  /\ UNCHANGED <<mainVars, isRunning, currentResult, completed, beacon,
                 threadVars, verdict, connState, pairError, statusVars>>

(* Mutant: the caller's flag is not read. *)
GivenUpByWinner == currentResult.state = "SUCCESS"

(* Another connection has won, or the caller has given up. *)
GivenUp == currentResult.state = "SUCCESS" \/ ~isRunning

(* The head of the loop of a request that was given up. *)
Canceled(c) ==
  /\ pc[c] = "loop"
  /\ GivenUp
  /\ state' = [state EXCEPT ![c] = "CANCELED"]
  /\ Goto(c, "finish")
  /\ UNCHANGED <<mainVars, isRunning, currentResult, completed, beacon, phase,
                 isBroadcasting, serverResult, verdict, linkVars, statusVars>>

(* Otherwise it reads and shows the phase, and stops the beacon when a      *)
(* phone has connected.                                                     *)
ReadPhase(c) ==
  /\ pc[c] = "loop"
  /\ ~GivenUp
  /\ phase' = [phase EXCEPT ![c] = GetPhase(c)]
  /\ PrintStatus(c, GetPhase(c))
  /\ IF GetPhase(c) = "PHONE_UNLOCKING" /\ isBroadcasting[c]
       THEN /\ isBroadcasting' = [isBroadcasting EXCEPT ![c] = FALSE]
            /\ StopBeacon(c)
       ELSE UNCHANGED <<isBroadcasting, beacon>>
  /\ Goto(c, "poll")
  /\ UNCHANGED <<mainVars, isRunning, currentResult, completed, state,
                 serverResult, verdict, linkVars>>

(* The rest of the loop body: poll the state, then decide on it and on the  *)
(* phase read before.  A connect error of a connection that is still        *)
(* running means that it tries again: it is forgotten and the clock of the  *)
(* timeout restarted.                                                       *)
Retries(c) == PollResult(c) = "CONNECT_ERROR" /\ link[c] = "running"

LeaveLoop(c, s) ==
  /\ pc[c] = "poll"
  /\ ShareError(c)
  /\ state' = [state EXCEPT ![c] = s]
  /\ phase' = [phase EXCEPT ![c] = "FINISHED"]
  /\ Goto(c, "finish")
  /\ UNCHANGED <<mainVars, isRunning, currentResult, completed, beacon,
                 isBroadcasting, serverResult, verdict, link, connPhase,
                 connState, statusVars>>

Answered(c) ==
  /\ PollResult(c) # "UNKNOWN" /\ ~Retries(c)
  /\ LeaveLoop(c, PollResult(c))

TimedOut(c) ==
  /\ PollResult(c) = "UNKNOWN"
  /\ phase[c] # "PHONE_UNLOCKING"
  /\ LeaveLoop(c, "TIMEOUT")

(* The user holds Ctrl+Alt. *)
KeysHeld(c) ==
  /\ PollResult(c) = "UNKNOWN" \/ Retries(c)
  /\ LeaveLoop(c, "CANCELED")

(* The beacon comes back when the phone has left without an answer. *)
GoOn(c) ==
  /\ pc[c] = "poll"
  /\ PollResult(c) = "UNKNOWN" \/ Retries(c)
  /\ ShareError(c)
  /\ IF phase[c] # "PHONE_UNLOCKING" /\ ~isBroadcasting[c]
       THEN /\ isBroadcasting' = [isBroadcasting EXCEPT ![c] = TRUE]
            /\ StartBeacon(c)
       ELSE UNCHANGED <<isBroadcasting, beacon>>
  /\ phase' = [phase EXCEPT ![c] = "FINISHED"]
  /\ Goto(c, "loop")
  /\ UNCHANGED <<mainVars, isRunning, currentResult, completed, state,
                 serverResult, verdict, link, connPhase, connState, statusVars>>

(* After the loop: give the status line up and clear m_IsRunning in Stop(). *)
Finish(c) ==
  /\ pc[c] = "finish"
  /\ IF state[c] # "SUCCESS" THEN PrintStatus(c, "FINISHED") ELSE UNCHANGED statusVars
  /\ link' = [link EXCEPT ![c] = IF @ = "running" THEN "ending" ELSE @]
  /\ Goto(c, "stop")
  /\ UNCHANGED <<mainVars, isRunning, currentResult, completed, beacon,
                 threadVars, serverResult, verdict, connPhase, connState, pairError>>

(* Mutant: no second poll. *)
RepollsNever(c) == FALSE

(* The second poll of a Windows Bluetooth client; UNKNOWN keeps the state. *)
Repolls(c) == OnWindows /\ IsBluetooth(c) /\ state[c] # "SUCCESS"

LatestState(c) ==
  IF Repolls(c) /\ PollResult(c) # "UNKNOWN" THEN PollResult(c) ELSE state[c]

(* Stop() has joined the connection's thread.  The result is a success only *)
(* if the stored password decrypts with the key that the phone sent.        *)
Result(c) ==
  /\ pc[c] = "stop"
  /\ link[c] = "ended"
  /\ \E decrypts \in BOOLEAN :
       IF LatestState(c) = "SUCCESS" /\ ~decrypts
         THEN /\ PrintFinal("error_password_decrypt")
              /\ serverResult' = [serverResult EXCEPT ![c] = [state |-> "DATA_ERROR", from |-> None]]
         ELSE /\ serverResult' = [serverResult EXCEPT ![c] = [state |-> LatestState(c), from |-> c]]
              /\ UNCHANGED statusVars
  /\ IF Repolls(c) THEN ShareError(c) ELSE UNCHANGED pairError
  /\ state' = [state EXCEPT ![c] = "UNKNOWN"]
  /\ isBroadcasting' = [isBroadcasting EXCEPT ![c] = TRUE]
  /\ Goto(c, "merge")
  /\ UNCHANGED <<mainVars, isRunning, currentResult, completed, beacon, phase,
                 verdict, link, connPhase, connState>>

-----------------------------------------------------------------------------
(* The rest of the thread in GetResult. *)

(* Mutant: a phone answer is stored over a success. *)
StoredAnswerWins(c) ==
  LET s == serverResult[c].state
      old == currentResult.state
  IN  IF \/ s = "SUCCESS"
         \/ IsPhoneAnswer(s)
         \/ ~isOtherClient(c) /\ old # "SUCCESS" /\ ~IsPhoneAnswer(old)
        THEN serverResult[c]
        ELSE currentResult

(* Mutant: a second Bluetooth client replaces what the first one found. *)
StoredOfAnyClient(c) ==
  LET s == serverResult[c].state
      old == currentResult.state
  IN  IF \/ s = "SUCCESS"
         \/ IsPhoneAnswer(s) /\ old # "SUCCESS"
         \/ old # "SUCCESS" /\ ~IsPhoneAnswer(old)
        THEN serverResult[c]
        ELSE currentResult

(* What the thread of c leaves in currentResult, before the last-thread     *)
(* rule: a success always, a phone answer unless there is a success, and    *)
(* anything else of a first client unless one of the two is there.          *)
Stored(c) ==
  LET s == serverResult[c].state
      old == currentResult.state
  IN  IF \/ s = "SUCCESS"
         \/ IsPhoneAnswer(s) /\ old # "SUCCESS"
         \/ ~isOtherClient(c) /\ old # "SUCCESS" /\ ~IsPhoneAnswer(old)
        THEN serverResult[c]
        ELSE currentResult

(* The critical section under resultMutex. *)
Merge(c) ==
  LET isLast == completed + 1 = Cardinality(Connections)
      stored == IF isLast /\ Stored(c).state = "UNKNOWN"
                  THEN serverResult[c] ELSE Stored(c)
  IN  /\ pc[c] = "merge"
      /\ currentResult' = stored
      /\ completed' = completed + 1
      /\ verdict' = [verdict EXCEPT ![c] =
           [isFinal |-> serverResult[c].state = "SUCCESS"
                          \/ (isLast /\ Stored(c).state # "SUCCESS"),
            isLast |-> isLast,
            final |-> stored.state]]
      /\ Goto(c, "announce")
      /\ UNCHANGED <<mainVars, isRunning, beacon, threadVars, serverResult,
                     linkVars, statusVars>>

(* Show the final message; the last thread then wakes GetResult, under the  *)
(* mutex of the condition variable.  A notification nobody waits for is     *)
(* lost.                                                                    *)
Announce(c) ==
  /\ pc[c] = "announce"
  /\ IF verdict[c].isFinal THEN PrintFinal(verdict[c].final) ELSE UNCHANGED statusVars
  /\ mainPc' = IF verdict[c].isLast /\ mainPc = "blocked" THEN "wait" ELSE mainPc
  /\ verdict' = [verdict EXCEPT ![c] = NoVerdict]
  /\ Goto(c, "done")
  /\ UNCHANGED <<returned, isRunning, currentResult, completed, beacon,
                 threadVars, serverResult, linkVars>>

-----------------------------------------------------------------------------
(* GetResult itself. *)

(* A request without a connection is refused; otherwise the threads start. *)
Launch ==
  /\ mainPc = "begin"
  /\ IF Connections = {}
       THEN /\ mainPc' = "returned"
            /\ returned' = [state |-> "NOT_PAIRED_ERROR", from |-> None]
            /\ UNCHANGED pc
       ELSE /\ mainPc' = "launched"
            /\ pc' = [c \in Connections |-> "start"]
            /\ UNCHANGED returned
  /\ UNCHANGED <<isRunning, currentResult, completed, beacon, threadVars,
                 serverResult, verdict, linkVars, statusVars>>

(* The beacon starts after the threads. *)
Broadcast ==
  /\ mainPc = "launched"
  /\ mainPc' = "wait"
  /\ beacon' = IF beacon = "off" THEN "on" ELSE beacon
  /\ UNCHANGED <<returned, isRunning, currentResult, completed, pc, threadVars,
                 serverResult, verdict, linkVars, statusVars>>

(* Mutant: GetResult goes on when one thread has not merged yet. *)
AwaitAllButOne ==
  /\ mainPc = "wait"
  /\ mainPc' = IF completed + 1 >= Cardinality(Connections) THEN "cleanup" ELSE "blocked"
  /\ UNCHANGED <<returned, isRunning, currentResult, completed, beacon, pc,
                 threadVars, serverResult, verdict, linkVars, statusVars>>

(* cv.wait: the predicate is evaluated and the thread put to sleep in one   *)
(* step under the mutex that the last thread takes to notify.               *)
AwaitAll ==
  /\ mainPc = "wait"
  /\ mainPc' = IF completed = Cardinality(Connections) THEN "cleanup" ELSE "blocked"
  /\ UNCHANGED <<returned, isRunning, currentResult, completed, beacon, pc,
                 threadVars, serverResult, verdict, linkVars, statusVars>>

(* The broadcaster is stopped and deleted, then the threads are joined. *)
DropBeacon ==
  /\ mainPc = "cleanup"
  /\ mainPc' = "joining"
  /\ beacon' = IF beacon = "none" THEN "none" ELSE "deleted"
  /\ UNCHANGED <<returned, isRunning, currentResult, completed, pc, threadVars,
                 serverResult, verdict, linkVars, statusVars>>

JoinThreads ==
  /\ mainPc = "joining"
  /\ \A c \in Connections : pc[c] = "done"
  /\ mainPc' = "stopping"
  /\ link' = [c \in Connections |-> IF link[c] = "running" THEN "ending" ELSE link[c]]
  /\ UNCHANGED <<returned, isRunning, currentResult, completed, beacon, pc,
                 threadVars, serverResult, verdict, connPhase, connState, pairError,
                 statusVars>>

(* Every connection is stopped once more, which joins its thread, and       *)
(* deleted.                                                                 *)
Return ==
  /\ mainPc = "stopping"
  /\ \A c \in Connections : link[c] \in {"idle", "ended"}
  /\ mainPc' = "returned"
  /\ link' = [c \in Connections |-> "deleted"]
  /\ returned' = currentResult
  /\ UNCHANGED <<isRunning, currentResult, completed, beacon, pc, threadVars,
                 serverResult, verdict, connPhase, connState, pairError, statusVars>>

(* The caller gives the request up: the tile was left, the prompt closed. *)
CancelRequest ==
  /\ isRunning
  /\ mainPc # "returned"
  /\ isRunning' = FALSE
  /\ UNCHANGED <<mainVars, currentResult, completed, beacon, pc, threadVars,
                 serverResult, verdict, linkVars, statusVars>>

-----------------------------------------------------------------------------

Thread(c) ==
  \/ Start(c) \/ Canceled(c) \/ ReadPhase(c) \/ Answered(c) \/ TimedOut(c)
  \/ KeysHeld(c) \/ GoOn(c) \/ Finish(c) \/ Result(c) \/ Merge(c) \/ Announce(c)

Main ==
  \/ Launch \/ Broadcast \/ AwaitAll \/ DropBeacon \/ JoinThreads \/ Return

Connection(c) == ConnPhase(c) \/ ConnState(c) \/ ConnEnd(c)

(* The request is over: nothing is left to do. *)
Over == mainPc = "returned" /\ UNCHANGED vars

Next ==
  \/ Main
  \/ CancelRequest
  \/ \E c \in Connections : Thread(c) \/ Connection(c)
  \/ Over

Spec == Init /\ [][Next]_vars

(* Every thread of the handler keeps running, and a connection whose        *)
(* m_IsRunning is cleared ends: its reads and waits are cut into slices     *)
(* that test the flag.  Nothing is assumed of the phone or the caller.      *)
Fairness ==
  /\ WF_vars(Main)
  /\ \A c \in Connections : WF_vars(Thread(c))
  /\ \A c \in Connections : WF_vars(link[c] = "ending" /\ ConnEnd(c))

FairSpec == Spec /\ Fairness

-----------------------------------------------------------------------------
(* Properties *)

RunServerLabels == LoopLabels \cup {"start", "finish", "stop"}

ThreadLabels == RunServerLabels \cup {"unborn", "merge", "announce", "done"}

FinalMessages == UnlockState \cup {"error_password_decrypt"}

Verdicts == [isFinal : BOOLEAN, isLast : BOOLEAN, final : UnlockState]

(* Every variable stays in its type.                                        *)
TypeOK ==
  /\ mainPc \in {"begin", "launched", "wait", "blocked", "cleanup", "joining",
                 "stopping", "returned"}
  /\ isRunning \in BOOLEAN
  /\ currentResult \in UnlockResult
  /\ completed \in Nat
  /\ returned \in UnlockResult \cup {None}
  /\ beacon \in {"none", "off", "on", "deleted"}
  /\ pc \in [Connections -> ThreadLabels]
  /\ phase \in [Connections -> UnlockPhase]
  /\ state \in [Connections -> UnlockState]
  /\ isBroadcasting \in [Connections -> BOOLEAN]
  /\ serverResult \in [Connections -> UnlockResult \cup {None}]
  /\ verdict \in [Connections -> Verdicts]
  /\ link \in [Connections -> {"idle", "running", "ending", "ended", "deleted"}]
  /\ connPhase \in [Connections -> UnlockPhase]
  /\ connState \in [Connections -> UnlockState]
  /\ pairError \in [Connections -> PhoneAnswers \cup {None}]
  /\ statusPhase \in UnlockPhase
  /\ statusOwner \in Connections \cup {None}
  /\ finalMessage \in FinalMessages \cup {None}
  /\ statusDone \in BOOLEAN

(* How much a state tells the user: nothing, how a connection ended, what   *)
(* the phone answered, that it unlocked.                                    *)
Worth(s) ==
  CASE s = "UNKNOWN" -> 0
    [] s = "SUCCESS" -> 3
    [] IsPhoneAnswer(s) -> 2
    [] OTHER -> 1

(* The threads race to merge; whatever their order, a merge never makes     *)
(* currentResult worse: a success is never lost, and an answer of the phone *)
(* only gives way to another answer or a success.                           *)
ResultNeverDegrades ==
  [][Worth(currentResult'.state) >= Worth(currentResult.state)]_vars

(* GetResult implements the abstract request: it returns the best of what   *)
(* the connections reported, after all of them have.                        *)
Merged(c) == pc[c] \in {"announce", "done"}

Request == INSTANCE UnlockRequest WITH
  Sources <- Connections,
  Secondary <- OtherClients,
  Answers <- PhoneAnswers,
  Results <- {r \in UnlockResult : r.state # "UNKNOWN"},
  NotPaired <- [state |-> "NOT_PAIRED_ERROR", from |-> None],
  reports <- [c \in Connections |-> IF Merged(c) THEN serverResult[c] ELSE None],
  result <- returned

ImplementsRequest == Request!Spec

(* The final message is the one of the result that is returned, whichever   *)
(* thread printed it; the only exception is a password that did not         *)
(* decrypt, which RunServer announces itself, and before the others end.    *)
FinalMessageMatches ==
  mainPc = "returned" /\ Connections # {} =>
    /\ statusDone
    /\ \/ finalMessage = returned.state
       \/ /\ finalMessage = "error_password_decrypt"
          /\ \E c \in Connections :
               serverResult[c] = [state |-> "DATA_ERROR", from |-> None]

(* A connection that has ended does not keep the status line: its phase     *)
(* would hide the phase of every other connection until the request ends.   *)
StatusLineReleased ==
  ~statusDone /\ statusPhase # "FINISHED" => pc[statusOwner] # "done"

(* Nobody uses what the cleanup deletes: when the broadcaster is deleted no *)
(* thread is in RunServer, when the connections are no thread runs, and no  *)
(* connection's own thread does.                                            *)
NoUseAfterDelete ==
  /\ beacon = "deleted" => \A c \in Connections : pc[c] \notin RunServerLabels
  /\ \A c \in Connections : link[c] = "deleted" =>
       \A d \in Connections : pc[d] = "done"

(* The delays in the Stop() of a Windows Bluetooth client let the phone     *)
(* answer after the loop; the second poll reports that answer.              *)
LateAnswerReported ==
  \A c \in Connections :
    /\ OnWindows /\ IsBluetooth(c)
    /\ serverResult[c] # None
    /\ serverResult[c].from = c
    /\ connState[c] \in PhoneAnswers \cup {"SUCCESS"}
    => serverResult[c].state \in PhoneAnswers \cup {"SUCCESS"}

(* A request that the caller gives up, or that one phone has answered with  *)
(* a success, ends, whatever the other phones do: their connections are     *)
(* cancelled, and the wake-up of GetResult is not lost                      *)
(* (UnlockHandler.cpp:146-200).                                             *)
GivenUpReturns ==
  (~isRunning \/ currentResult.state = "SUCCESS") ~> mainPc = "returned"

-----------------------------------------------------------------------------
(* The inductive invariant behind the safety properties. *)

(* RunServer returns once, and never UNKNOWN. *)
ReportInv ==
  \A c \in Connections :
    /\ serverResult[c] # None <=> pc[c] \in {"merge", "announce", "done"}
    /\ serverResult[c] # None => serverResult[c].state # "UNKNOWN"
    /\ pc[c] \in {"finish", "stop"} => state[c] # "UNKNOWN"

MergedSet == {c \in Connections : Merged(c)}

MergedSuccesses == {c \in MergedSet : serverResult[c].state = "SUCCESS"}

MergedAnswers == {c \in MergedSet : IsPhoneAnswer(serverResult[c].state)}

MergedPrimaries == {c \in MergedSet : ~isOtherClient(c)}

CountInv == completed = Cardinality(MergedSet)

(* currentResult is the best of what has been merged, and UNKNOWN as long   *)
(* as only second clients without an answer have.                           *)
MergeInv ==
  \/ \E c \in MergedSuccesses : currentResult = serverResult[c]
  \/ /\ MergedSuccesses = {}
     /\ \E c \in MergedAnswers : currentResult = serverResult[c]
  \/ /\ MergedSuccesses \cup MergedAnswers = {}
     /\ \E c \in MergedPrimaries : currentResult = serverResult[c]
  \/ /\ MergedSuccesses \cup MergedAnswers \cup MergedPrimaries = {}
     /\ \/ /\ currentResult.state = "UNKNOWN"
           /\ MergedSet # Connections \/ Connections = {}
        \/ /\ \E c \in MergedSet : currentResult = serverResult[c]
           /\ MergedSet = Connections

(* How far the threads are when GetResult is at each of its steps. *)
MainInv ==
  /\ Connections = {} => mainPc \in {"begin", "returned"}
  /\ mainPc = "begin" => \A c \in Connections : pc[c] = "unborn"
  /\ mainPc # "begin" => \A c \in Connections : pc[c] # "unborn"
  /\ mainPc \in {"cleanup", "joining"} => MergedSet = Connections
  /\ mainPc \in {"stopping", "returned"} => \A c \in Connections : pc[c] = "done"
  /\ returned # None <=> mainPc = "returned"
  /\ beacon = "deleted" => mainPc \in {"joining", "stopping", "returned"}
  /\ \A c \in Connections : link[c] = "deleted" => mainPc = "returned"

(* What every state of a request satisfies, whichever step comes next: each *)
(* thread has reported exactly when it left RunServer, currentResult is the *)
(* best of the merged reports, completed counts them, and the cleanup of    *)
(* GetResult starts only when all of them are in.                           *)
HandlerInv == TypeOK /\ ReportInv /\ CountInv /\ MergeInv /\ MainInv

(* The thread of c is about to give the status line up: in its loop or at   *)
(* Finish, or, after a success, with the final message to show.             *)
Releases(c) ==
  \/ pc[c] \in LoopLabels \cup {"finish"}
  \/ pc[c] = "stop" /\ state[c] = "SUCCESS"
  \/ pc[c] = "merge" /\ serverResult[c].state = "SUCCESS"
  \/ pc[c] = "announce" /\ verdict[c].isFinal

StatusInv ==
  ~statusDone /\ statusPhase # "FINISHED" =>
    statusOwner \in Connections /\ Releases(statusOwner)

Announces(c) == pc[c] = "announce" /\ verdict[c].isFinal

(* The state of currentResult, which no merge changes any more. *)
IsFinalState(s) == s = currentResult.state /\ (s = "SUCCESS" \/ MergedSet = Connections)

DecryptFailed ==
  \E c \in Connections : serverResult[c] = [state |-> "DATA_ERROR", from |-> None]

(* The final message is of the final state, a merged success is announced,  *)
(* and so is the result of the last thread.                                 *)
FinalInv ==
  /\ statusDone => \/ IsFinalState(finalMessage)
                   \/ finalMessage = "error_password_decrypt" /\ DecryptFailed
  /\ \A c \in Connections : Announces(c) => IsFinalState(verdict[c].final)
  /\ \A c \in MergedSuccesses : statusDone \/ Announces(c)
  /\ MergedSet = Connections /\ Connections # {} =>
       statusDone \/ \E c \in Connections : Announces(c)
  /\ mainPc = "returned" /\ Connections # {} => returned = currentResult

MessageInv == StatusInv /\ FinalInv /\ LateAnswerReported

=============================================================================
