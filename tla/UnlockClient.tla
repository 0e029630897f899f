---------------------------- MODULE UnlockClient -----------------------------
(***************************************************************************)
(* TCPUnlockClient (common/src/connection/unlock/clients): connects to the *)
(* phone, again if it has to, sends the unlock request and waits for the   *)
(* answer.  UnlockHandler::RunServer polls it meanwhile; it takes a        *)
(* connect error of a client that still runs for an attempt that will be   *)
(* repeated, and forgets it.                                               *)
(***************************************************************************)
EXTENDS UnlockConnection

CONSTANTS
  clientConnectRetries,  \* the setting of that name
  stream                 \* the one stream of the client

ASSUME ClientAssumption ==
  /\ clientConnectRetries \in Nat
  /\ Streams = {stream}
  /\ ~IsServer

VARIABLES
  connectPc,    \* where ConnectThread stands
  numRetries,   \* its numRetries
  closeSent,    \* whether it has written CLOSE to the phone
  heard,        \* the first unlock response it handled, None before
  watch         \* RunServer: "looping", or the state it left its loop with

clientVars == <<connectPc, numRetries, closeSent>>
vars == <<connVars, clientVars, heard, watch>>

Init ==
  /\ ConnInit("CLIENT_CONNECTING")
  /\ connectPc = "address"
  /\ numRetries = 0
  /\ closeSent = FALSE
  /\ heard = None
  /\ watch = "looping"

-----------------------------------------------------------------------------
(* ConnectThread *)

ConnectTo(l) ==
  /\ connectPc' = l
  /\ UNCHANGED <<phase, winner, info, flow, packet, sent, closeSent, heard, watch>>

(* The address is not one, or there is no socket: the thread returns at     *)
(* once.                                                                    *)
GiveUp ==
  /\ connectPc \in {"address", "socket"}
  /\ ConnectTo("ended")
  /\ isRunning' = FALSE
  /\ unlockState' = "UNK_ERROR"
  /\ UNCHANGED numRetries

ParseAddress ==
  /\ connectPc = "address"
  /\ ConnectTo("socket")
  /\ UNCHANGED <<isRunning, unlockState, numRetries>>

(* The socket is opened and set up, and connect() called. *)
Connect ==
  /\ connectPc = "socket"
  /\ \/ ConnectTo("wait") /\ UNCHANGED unlockState
     \/ ConnectTo("end") /\ unlockState' \in {"UNK_ERROR", "CONNECT_ERROR"}
  /\ UNCHANGED <<isRunning, numRetries>>

CanRetry == numRetries < clientConnectRetries /\ isRunning

(* WaitForConnection runs out of time, fails, or sees m_IsRunning cleared. *)
ConnectTimesOut ==
  /\ connectPc = "wait"
  /\ unlockState' = "CONNECT_ERROR"
  /\ IF CanRetry
       THEN ConnectTo("socket") /\ numRetries' = numRetries + 1
       ELSE ConnectTo("end") /\ UNCHANGED numRetries
  /\ UNCHANGED isRunning

(* The socket is writable but holds an error, or the error cannot be read. *)
ConnectFails ==
  /\ connectPc = "wait"
  /\ isRunning
  /\ \/ /\ CanRetry
        /\ ConnectTo("socket")
        /\ numRetries' = numRetries + 1
        /\ UNCHANGED unlockState
     \/ /\ ~CanRetry
        /\ ConnectTo("end")
        /\ unlockState' = "CONNECT_ERROR"
        /\ UNCHANGED numRetries
     \/ /\ ConnectTo("end")
        /\ unlockState' = "UNK_ERROR"
        /\ UNCHANGED numRetries
  /\ UNCHANGED isRunning

Connected ==
  /\ connectPc = "wait"
  /\ isRunning
  /\ ConnectTo("connected")
  /\ UNCHANGED <<isRunning, unlockState, numRetries>>

StartFlow ==
  /\ connectPc = "connected"
  /\ BeginFlow(stream)
  /\ connectPc' = "flow"
  /\ UNCHANGED <<numRetries, closeSent, heard, watch>>

Flow ==
  /\ connectPc = "flow"
  /\ FlowStep(stream)
  /\ heard' = IF IsResponse(stream) /\ heard = None THEN packet[stream] ELSE heard
  /\ UNCHANGED <<clientVars, watch>>

(* A phone whose request was given up is told so, unless an exception,      *)
(* which leaves the stream's entry behind, ended the thread.                *)
AfterFlow ==
  /\ connectPc = "flow"
  /\ flow[stream] = "returned"
  /\ closeSent' = (~isRunning /\ phase = "PHONE_UNLOCKING" /\ info[stream] = None)
  /\ connectPc' = "end"
  /\ UNCHANGED <<connVars, numRetries, heard, watch>>

EndThread ==
  /\ connectPc = "end"
  /\ ConnectTo("ended")
  /\ isRunning' = FALSE
  /\ UNCHANGED <<unlockState, numRetries>>

-----------------------------------------------------------------------------
(* RunServer, as far as this client is concerned. *)

GetPhase == IF isRunning THEN phase ELSE "FINISHED"

(* Mutant: a connect error is forgotten even when the client has ended. *)
RetriesAnyway == unlockState = "CONNECT_ERROR"

Retries == unlockState = "CONNECT_ERROR" /\ isRunning

StopWith(s) ==
  /\ watch = "looping"
  /\ watch' = s
  /\ isRunning' = FALSE
  /\ UNCHANGED <<phase, unlockState, winner, info, flow, packet, sent, clientVars, heard>>

Answered == unlockState # "UNKNOWN" /\ ~Retries /\ StopWith(unlockState)

(* A forgotten connect error restarts the clock of the timeout. *)
TimedOut ==
  /\ unlockState = "UNKNOWN"
  /\ GetPhase # "PHONE_UNLOCKING"
  /\ StopWith("TIMEOUT")

(* The caller or the user gives up, or another connection has won. *)
Canceled == StopWith("CANCELED")

-----------------------------------------------------------------------------

ConnectThread ==
  \/ GiveUp \/ ParseAddress \/ Connect \/ ConnectTimesOut \/ ConnectFails \/ Connected
  \/ StartFlow \/ Flow \/ AfterFlow \/ EndThread

Watch == Answered \/ TimedOut

(* The client has stopped. *)
Over == watch # "looping" /\ connectPc = "ended" /\ UNCHANGED vars

Next == ConnectThread \/ Watch \/ Canceled \/ Over

Spec == Init /\ [][Next]_vars

(* The two threads run, and the time that RunServer waits for passes. *)
FairSpec == Spec /\ WF_vars(ConnectThread) /\ WF_vars(Watch)

-----------------------------------------------------------------------------
(* Properties *)

(* Every variable stays in its type. *)
TypeOK ==
  /\ ConnTypeOK
  /\ connectPc \in {"address", "socket", "wait", "connected", "flow", "end", "ended"}
  /\ numRetries \in 0 .. clientConnectRetries
  /\ closeSent \in BOOLEAN
  /\ heard \in Packets \cup {None}
  /\ watch \in States \cup {"looping"}

(* A phone that answers first and correctly unlocks the PC: when the client *)
(* has ended, its state is the success, whichever attempt connected         *)
(* (BaseUnlockConnection.cpp:228-243).                                      *)
ConfirmationUnlocks ==
  /\ connectPc = "ended"
  /\ heard # None
  /\ heard.from = ClientDevice /\ heard.body = "VALID"
  => unlockState = "SUCCESS"

(* The same of a phone that the first attempt reached, whatever it sends    *)
(* next and whenever the stream breaks.                                     *)
FirstAttemptUnlocks == numRetries = 0 => ConfirmationUnlocks

(* The inductive invariant of the first attempt: until the phone has        *)
(* answered there is no state; a confirmation that came first is about to   *)
(* be stored, or is, and then the stream takes no other response.           *)
Confirmed == heard # None /\ heard.from = ClientDevice /\ heard.body = "VALID"

\* The stream of a client is registered with its device.
ClientInfos ==
  [state : {"HAS_DEVICE_ID", "HAS_UNLOCK_REQUEST", "HAS_UNLOCK_RESPONSE"},
   device : {ClientDevice}]

StreamTypeOK ==
  /\ numRetries \in Nat
  /\ info \in [Streams -> ClientInfos \cup {None}]
  /\ flow \in [Streams -> Labels]
  /\ packet \in [Streams -> Packets \cup Failures \cup {None}]

\* Where the thread and the stream stand.
ThreadOK(l, i, p) ==
  /\ connectPc \in {"address", "socket", "wait", "connected"} => l = "off"
  /\ connectPc \in {"end", "ended"} => l \in {"off", "returned"}
  /\ l \in {"off", "request"} => heard = None
  /\ l = "locked" => heard # None
  /\ l \in {"request", "read", "handle", "locked"} => i \in ClientInfos
  /\ l = "handle" => p \in Packets

\* What the first attempt has come to.
AttemptOK(l, i) ==
  /\ heard = None /\ connectPc \notin {"end", "ended"} /\ l \in {"off", "request", "read", "handle"}
     => unlockState = "UNKNOWN"
  /\ Confirmed =>
       \/ l = "locked"
       \/ /\ unlockState = "SUCCESS"
          /\ l \in {"read", "handle"} => i.state = "HAS_UNLOCK_RESPONSE"

FirstAttemptInv ==
  /\ StreamTypeOK
  /\ ThreadOK(flow[stream], info[stream], packet[stream])
  /\ numRetries = 0 => AttemptOK(flow[stream], info[stream])

(* RunServer ends, whatever the phone does: no error is forgotten for ever. *)
RequestEnds == <>(watch # "looping")

=============================================================================
