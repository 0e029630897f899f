---------------------------- MODULE ClientProofs -----------------------------
(***************************************************************************)
(* The clients that connect to a phone, for any constants.                 *)
(*                                                                         *)
(* UnlockClient (TCP): what the phone confirms on the first attempt        *)
(* counts.                                                                 *)
(*                                                                         *)
(* BluetoothClients: a request asks each phone at most once, and what it   *)
(* finds in the static members of BTUnlockClient is its own, on Windows    *)
(* and on Linux.                                                           *)
(***************************************************************************)
EXTENDS UnlockClient, BluetoothClients, FiniteSetTheorems, TLAPS

-----------------------------------------------------------------------------
(* TCPUnlockClient: the same conversation over one stream, begun with the   *)
(* unlock request.                                                          *)

Held == Packets \cup Failures \cup {None}
Registered == ClientInfos
Unconnected == {"address", "socket", "wait", "connected"}

(* The parts of the invariant of the first attempt. *)
LEMMA FirstParts ==
  ASSUME FirstAttemptInv
  PROVE  /\ numRetries \in Nat
         /\ info \in [{stream} -> Registered \cup {None}]
         /\ flow \in [{stream} -> Labels] /\ packet \in [{stream} -> Held]
         /\ connectPc \in Unconnected => flow[stream] = "off"
         /\ connectPc \in {"end", "ended"} => flow[stream] \in {"off", "returned"}
         /\ flow[stream] \in {"off", "request"} => heard = None
         /\ flow[stream] = "locked" => heard # None
         /\ flow[stream] \in {"request", "read", "handle", "locked"} => info[stream] \in Registered
         /\ flow[stream] = "handle" => packet[stream] \in Packets
         /\ /\ numRetries = 0 /\ heard = None /\ connectPc \notin {"end", "ended"}
            /\ flow[stream] \in {"off", "request", "read", "handle"}
            => unlockState = "UNKNOWN"
         /\ numRetries = 0 /\ Confirmed =>
              \/ flow[stream] = "locked"
              \/ /\ unlockState = "SUCCESS"
                 /\ flow[stream] \in {"read", "handle"} =>
                      info[stream].state = "HAS_UNLOCK_RESPONSE"
BY ClientAssumption
   DEF FirstAttemptInv, StreamTypeOK, ThreadOK, AttemptOK, Held,
       Registered, Unconnected

LEMMA FirstPartsAfter ==
  ASSUME numRetries' \in Nat,
         info' \in [{stream} -> Registered \cup {None}],
         flow' \in [{stream} -> Labels], packet' \in [{stream} -> Held],
         connectPc' \in Unconnected => flow'[stream] = "off",
         connectPc' \in {"end", "ended"} => flow'[stream] \in {"off", "returned"},
         flow'[stream] \in {"off", "request"} => heard' = None,
         flow'[stream] = "locked" => heard' # None,
         flow'[stream] \in {"request", "read", "handle", "locked"} => info'[stream] \in Registered,
         flow'[stream] = "handle" => packet'[stream] \in Packets,
         /\ numRetries' = 0 /\ heard' = None /\ connectPc' \notin {"end", "ended"}
         /\ flow'[stream] \in {"off", "request", "read", "handle"}
         => unlockState' = "UNKNOWN",
         numRetries' = 0 /\ Confirmed' =>
           \/ flow'[stream] = "locked"
           \/ /\ unlockState' = "SUCCESS"
              /\ flow'[stream] \in {"read", "handle"} =>
                   info'[stream].state = "HAS_UNLOCK_RESPONSE"
  PROVE  FirstAttemptInv'
BY ClientAssumption
   DEF FirstAttemptInv, StreamTypeOK, ThreadOK, AttemptOK, Held,
       Registered, Unconnected, ClientInfos, ClientDevice,
       Packets, Packets, Failures, Failures, PacketError, PacketError,
       Labels, Labels

(* Before the stream is open there is nothing to lose: the attempt goes on, *)
(* or the thread ends.                                                      *)
LEMMA ConnectKeeps ==
  ASSUME FirstAttemptInv,
         UNCHANGED <<info, flow, packet, heard>>,
         connectPc \in Unconnected, connectPc' \in Unconnected \cup {"end", "ended"},
         \/ UNCHANGED <<numRetries, unlockState>>
         \/ numRetries' = numRetries + 1
         \/ UNCHANGED numRetries /\ connectPc' \in {"end", "ended"}
  PROVE  FirstAttemptInv'
<1>1. flow[stream] = "off" /\ heard = None /\ ~Confirmed'
  BY FirstParts DEF Unconnected, Confirmed
<1>2. numRetries' \in Nat /\ (numRetries' = 0 => numRetries = 0 /\ numRetries' = numRetries)
  BY FirstParts
<1>3. connectPc \notin {"end", "ended"}
  BY DEF Unconnected
<1> QED BY <1>1, <1>2, <1>3, FirstParts, FirstPartsAfter DEF Unconnected

(* The thread ends, and RunServer leaves its loop. *)
LEMMA OtherKeeps ==
  ASSUME FirstAttemptInv,
         UNCHANGED <<info, flow, packet, heard, numRetries, unlockState>>,
         \/ UNCHANGED connectPc
         \/ connectPc' \in {"end", "ended"} /\ flow[stream] \in {"off", "returned"}
  PROVE  FirstAttemptInv'
<1>1. Confirmed' <=> Confirmed
  BY DEF Confirmed, ClientDevice
<1> QED BY <1>1, FirstParts, FirstPartsAfter DEF Unconnected

(* A step of PerformAuthFlow, by what the stream is afterwards. *)
LEMMA StreamKeeps ==
  ASSUME FirstAttemptInv, connectPc = "flow", UNCHANGED <<connectPc, numRetries>>,
         NEW l \in Labels, flow' = [flow EXCEPT ![stream] = l],
         NEW i \in Registered \cup {None}, info' = [info EXCEPT ![stream] = i],
         NEW p \in Held, packet' = [packet EXCEPT ![stream] = p],
         l \notin {"off", "request"},
         l \in {"read", "handle", "locked"} => i \in Registered,
         l = "handle" => p \in Packets, l = "locked" => heard' # None,
         numRetries = 0 /\ heard' = None /\ l \in {"read", "handle"} => unlockState' = "UNKNOWN",
         numRetries = 0 /\ Confirmed' =>
           \/ l = "locked"
           \/ /\ unlockState' = "SUCCESS"
              /\ l \in {"read", "handle"} => i.state = "HAS_UNLOCK_RESPONSE"
  PROVE  FirstAttemptInv'
<1>0. /\ info \in [{stream} -> Registered \cup {None}]
      /\ flow \in [{stream} -> Labels] /\ packet \in [{stream} -> Held]
      /\ numRetries \in Nat
  BY FirstParts
<1>1. /\ flow' \in [{stream} -> Labels] /\ flow'[stream] = l
      /\ info' \in [{stream} -> Registered \cup {None}] /\ info'[stream] = i
      /\ packet' \in [{stream} -> Held] /\ packet'[stream] = p
  BY <1>0
<1> QED BY <1>0, <1>1, FirstPartsAfter DEF Unconnected

(* Nothing is heard by a step that handles no response. *)
LEMMA NothingHeard ==
  ASSUME Flow, ~IsResponse(stream)
  PROVE  heard' = heard /\ (Confirmed' <=> Confirmed)
BY DEF Flow, Confirmed, ClientDevice

(* What a client that has an answer in its hands does with it: the first    *)
(* confirmation finds no state, and is stored.                              *)
LEMMA ConfirmationIsAnswer ==
  ASSUME NEW p, p.from = ClientDevice, p.body = "VALID"
  PROVE  /\ StoredState(p, ClientDevice) = None
         /\ UnverifiedState(p, ClientDevice) = None
BY DEF StoredState, UnverifiedState, Decrypts, ResponseError

(* The steps of the flow that handle no response. *)
LEMMA QuietFlowKeeps ==
  ASSUME FirstAttemptInv, Flow, ~IsResponse(stream)
  PROVE  FirstAttemptInv'
<1>0. /\ info \in [{stream} -> Registered \cup {None}]
      /\ flow \in [{stream} -> Labels] /\ packet \in [{stream} -> Held]
      /\ None \in Held /\ None \in Registered \cup {None}
      /\ {"read", "handle", "leave", "returned"} \subseteq Labels
  BY FirstParts DEF Held, Labels
<1>1. /\ connectPc = "flow" /\ UNCHANGED <<connectPc, numRetries>> /\ heard' = heard
      /\ FlowStep(stream) /\ (Confirmed' <=> Confirmed)
  BY NothingHeard DEF Flow, clientVars
<1>2. /\ info' = info => info' = [info EXCEPT ![stream] = info[stream]]
      /\ packet' = packet => packet' = [packet EXCEPT ![stream] = packet[stream]]
  BY <1>0
<1>3. info[stream] \in Registered \cup {None} /\ packet[stream] \in Held
  BY <1>0
<1>4. CASE FlowThrows(stream)
  <2>1. /\ flow[stream] = "request" \/ (flow[stream] = "handle" /\ info[stream].state = "NONE")
        /\ flow' = [flow EXCEPT ![stream] = "returned"] /\ info' = info
        /\ packet' = [packet EXCEPT ![stream] = None]
    BY <1>4 DEF FlowThrows, Goto, Unexpected
  <2>2. flow[stream] = "request"
    BY <2>1, FirstParts DEF Registered, ClientInfos
  <2>3. ~Confirmed'
    BY <1>1, <2>2, FirstParts DEF Confirmed
  <2> QED BY <1>0, <1>1, <1>2, <1>3, <2>1, <2>3, StreamKeeps
<1>5. CASE SendRequest(stream)
  <2>1. flow[stream] = "request" /\ packet' = packet
    BY <1>5 DEF SendRequest
  <2>2. /\ ~Confirmed' /\ heard = None /\ info[stream] \in Registered
        /\ numRetries = 0 => unlockState = "UNKNOWN"
    BY <1>1, <2>1, FirstParts DEF Confirmed
  <2>3. CASE /\ info' = [info EXCEPT ![stream].state = "HAS_UNLOCK_REQUEST"]
             /\ flow' = [flow EXCEPT ![stream] = "read"] /\ UNCHANGED unlockState
    <3>1. PICK i \in Registered : i = [info[stream] EXCEPT !.state = "HAS_UNLOCK_REQUEST"]
      BY <2>2 DEF Registered, ClientInfos
    <3>2. info' = [info EXCEPT ![stream] = i]
      BY <1>0, <2>3, <3>1
    <3> QED BY <1>0, <1>1, <1>2, <1>3, <2>1, <2>2, <2>3, <3>2, StreamKeeps
  <2>4. CASE flow' = [flow EXCEPT ![stream] = "leave"] /\ UNCHANGED info
    <3>1. /\ info' = [info EXCEPT ![stream] = info[stream]]
          /\ packet' = [packet EXCEPT ![stream] = packet[stream]]
      BY <1>2, <2>1, <2>4
    <3> QED BY <1>0, <1>1, <1>3, <2>2, <2>4, <3>1, StreamKeeps
  <2> QED BY <1>5, <2>3, <2>4 DEF SendRequest, Goto
<1>6. CASE ReadPacket(stream)
  <2>1. flow[stream] = "read" /\ UNCHANGED <<info, unlockState>> /\ info[stream] \in Registered
    BY <1>6, FirstParts DEF ReadPacket
  <2>2. /\ numRetries = 0 /\ heard = None => unlockState = "UNKNOWN"
        /\ numRetries = 0 /\ Confirmed =>
             unlockState = "SUCCESS" /\ info[stream].state = "HAS_UNLOCK_RESPONSE"
    BY <1>1, <2>1, FirstParts
  <2>3. ASSUME NEW p \in Packets, packet' = [packet EXCEPT ![stream] = p],
               flow' = [flow EXCEPT ![stream] = "handle"]
        PROVE  FirstAttemptInv'
    <3>1. p \in Held
      BY DEF Held
    <3> QED BY <1>0, <1>1, <1>2, <1>3, <2>1, <2>2, <2>3, <3>1, StreamKeeps
  <2>4. ASSUME NEW p \in Failures, packet' = [packet EXCEPT ![stream] = p],
               flow' = [flow EXCEPT ![stream] = "leave"]
        PROVE  FirstAttemptInv'
    <3>1. p \in Held
      BY DEF Held
    <3> QED BY <1>0, <1>1, <1>2, <1>3, <2>1, <2>2, <2>4, <3>1, StreamKeeps
  <2>5. \A e \in StreamErrors : [id |-> "ERROR", error |-> e] \in Failures
    BY ConnectionAssumption DEF StreamErrors, Failures, PacketError
  <2> QED BY <1>6, <2>3, <2>4, <2>5, ClientAssumption DEF ReadPacket, Goto
<1>7. CASE SkipPacket(stream)
  <2>1. /\ flow[stream] = "handle" /\ UNCHANGED <<info, unlockState>>
        /\ packet' = [packet EXCEPT ![stream] = None]
        /\ flow' = [flow EXCEPT ![stream] = "read"]
    BY <1>7 DEF SkipPacket, Handled, Goto
  <2>2. /\ info[stream] \in Registered
        /\ numRetries = 0 /\ heard = None => unlockState = "UNKNOWN"
        /\ numRetries = 0 /\ Confirmed =>
             unlockState = "SUCCESS" /\ info[stream].state = "HAS_UNLOCK_RESPONSE"
    BY <1>1, <2>1, FirstParts
  <2> QED BY <1>0, <1>1, <1>2, <1>3, <2>1, <2>2, StreamKeeps
<1>8. CASE OnDeviceId(stream)
  <2>1. flow[stream] = "handle" /\ info[stream].state = "NONE"
    BY <1>8 DEF OnDeviceId, Unexpected
  <2> QED BY <2>1, FirstParts DEF Registered, ClientInfos
<1>9. CASE AcceptAnswer(stream)
  <2>1. /\ flow[stream] = "locked" /\ unlockState' = "SUCCESS"
        /\ info' = [info EXCEPT ![stream].state = "HAS_UNLOCK_RESPONSE"]
        /\ packet' = [packet EXCEPT ![stream] = None]
        /\ flow' = [flow EXCEPT ![stream] = "read"]
    BY <1>9 DEF AcceptAnswer, Handled, Goto
  <2>2. info[stream] \in Registered /\ heard # None
    BY <2>1, FirstParts
  <2>3. PICK i \in Registered : i = [info[stream] EXCEPT !.state = "HAS_UNLOCK_RESPONSE"]
    BY <2>2 DEF Registered, ClientInfos
  <2>4. info' = [info EXCEPT ![stream] = i] /\ i.state = "HAS_UNLOCK_RESPONSE"
    BY <1>0, <2>1, <2>2, <2>3 DEF Registered, ClientInfos
  <2> QED BY <1>0, <1>1, <1>3, <2>1, <2>2, <2>4, StreamKeeps
<1>10. CASE LeaveFlow(stream)
  <2>1. /\ flow[stream] = "leave" /\ info' = [info EXCEPT ![stream] = None]
        /\ unlockState # "UNKNOWN" => unlockState' = unlockState
        /\ packet' = [packet EXCEPT ![stream] = None]
        /\ flow' = [flow EXCEPT ![stream] = "returned"]
    BY <1>10 DEF LeaveFlow, Goto
  <2>2. numRetries = 0 /\ Confirmed => unlockState' = "SUCCESS"
    BY <2>1, FirstParts
  <2> QED BY <1>0, <1>1, <2>1, <2>2, StreamKeeps
<1>11. ~OnErrorResponse(stream) /\ ~LockForAnswer(stream)
  BY DEF OnErrorResponse, LockForAnswer
<1> QED BY <1>1, <1>4, <1>5, <1>6, <1>7, <1>8, <1>9, <1>10, <1>11 DEF FlowStep

(* The steps that handle a response: the first one is heard, and a          *)
(* confirmation is locked in, or the stream has taken one already.          *)
LEMMA ResponseKeeps ==
  ASSUME FirstAttemptInv, Flow, IsResponse(stream)
  PROVE  FirstAttemptInv'
<1>0. /\ info \in [{stream} -> Registered \cup {None}]
      /\ flow \in [{stream} -> Labels] /\ packet \in [{stream} -> Held]
      /\ None \in Held /\ {"read", "locked"} \subseteq Labels /\ None \notin Packets
  BY FirstParts, ConnectionAssumption DEF Held, Labels
<1>1. /\ connectPc = "flow" /\ UNCHANGED <<connectPc, numRetries>>
      /\ heard' = IF heard = None THEN packet[stream] ELSE heard
      /\ FlowStep(stream)
  BY DEF Flow, clientVars
<1>2. /\ flow[stream] = "handle" /\ packet[stream].id = "UNLOCK_RESPONSE"
      /\ info[stream].state = "HAS_UNLOCK_REQUEST"
  BY DEF IsResponse, Unexpected
<1>3. /\ packet[stream] \in Packets /\ info[stream] \in Registered
      /\ info[stream].device = ClientDevice
      /\ numRetries = 0 /\ heard = None => unlockState = "UNKNOWN"
      /\ numRetries = 0 => ~Confirmed
  BY <1>1, <1>2, FirstParts DEF Registered, ClientInfos
<1>4. heard' # None
  BY <1>0, <1>1, <1>3
<1>5. numRetries = 0 /\ Confirmed' =>
        /\ heard = None
        /\ packet[stream].from = ClientDevice /\ packet[stream].body = "VALID"
  BY <1>1, <1>3 DEF Confirmed, ClientDevice
<1>6. /\ info' = info => info' = [info EXCEPT ![stream] = info[stream]]
      /\ packet' = packet => packet' = [packet EXCEPT ![stream] = packet[stream]]
      /\ info[stream] \in Registered \cup {None} /\ packet[stream] \in Held
  BY <1>0
<1>7. CASE OnErrorResponse(stream)
  <2>1. /\ packet' = [packet EXCEPT ![stream] = None] /\ UNCHANGED info
        /\ flow' = [flow EXCEPT ![stream] = "read"]
    BY <1>7, ClientAssumption DEF OnErrorResponse, HandleUnverifiedError, Handled, Goto
  <2>2. ~(numRetries = 0 /\ Confirmed')
    BY <1>3, <1>5, <1>7, ConfirmationIsAnswer DEF OnErrorResponse
  <2> QED BY <1>0, <1>1, <1>3, <1>4, <1>6, <2>1, <2>2, StreamKeeps
<1>8. CASE LockForAnswer(stream)
  <2>1. UNCHANGED <<info, unlockState>>
    BY <1>8 DEF LockForAnswer
  <2>2. CASE /\ unlockState = "UNKNOWN" /\ UNCHANGED packet
             /\ flow' = [flow EXCEPT ![stream] = "locked"]
    BY <1>0, <1>1, <1>3, <1>4, <1>6, <2>1, <2>2, StreamKeeps
  <2>3. CASE /\ unlockState # "UNKNOWN" /\ packet' = [packet EXCEPT ![stream] = None]
             /\ flow' = [flow EXCEPT ![stream] = "read"]
    <3>1. ~(numRetries = 0 /\ Confirmed')
      BY <1>3, <1>5, <2>3
    <3> QED BY <1>0, <1>1, <1>3, <1>4, <1>6, <2>1, <2>3, <3>1, StreamKeeps
  <2> QED BY <1>8, <2>2, <2>3 DEF LockForAnswer, Handled, Goto
<1>9. \/ OnErrorResponse(stream) \/ LockForAnswer(stream)
  <2>1. /\ ~FlowThrows(stream) /\ ~SendRequest(stream)
        /\ ~ReadPacket(stream) /\ ~SkipPacket(stream)
        /\ ~OnDeviceId(stream) /\ ~AcceptAnswer(stream)
        /\ ~LeaveFlow(stream)
    BY <1>2 DEF IsResponse, FlowThrows, SendRequest, ReadPacket,
                SkipPacket, OnDeviceId, AcceptAnswer, LeaveFlow
  <2> QED BY <1>1, <2>1 DEF FlowStep
<1> QED BY <1>7, <1>8, <1>9

(* PerformAuthFlow is called: the stream is registered, nothing is heard. *)
LEMMA StartFlowKeeps ==
  ASSUME FirstAttemptInv, StartFlow
  PROVE  FirstAttemptInv'
<1>0. /\ info \in [{stream} -> Registered \cup {None}]
      /\ flow \in [{stream} -> Labels] /\ packet \in [{stream} -> Held]
      /\ numRetries \in Nat
  BY FirstParts
<1>1. /\ connectPc = "connected" /\ connectPc' = "flow"
      /\ info' = [info EXCEPT ![stream] =
                    [state |-> "HAS_DEVICE_ID", device |-> ClientDevice]]
      /\ flow' = [flow EXCEPT ![stream] = "request"]
      /\ UNCHANGED <<unlockState, packet, numRetries, heard>>
  BY ClientAssumption DEF StartFlow, BeginFlow, Goto
<1>2. [state |-> "HAS_DEVICE_ID", device |-> ClientDevice] \in Registered
  BY DEF Registered, ClientInfos
<1>3. /\ info' \in [{stream} -> Registered \cup {None}] /\ info'[stream] \in Registered
      /\ flow' \in [{stream} -> Labels] /\ flow'[stream] = "request"
  BY <1>0, <1>1, <1>2 DEF Labels
<1>4. flow[stream] = "off" /\ heard = None /\ (numRetries = 0 => unlockState = "UNKNOWN")
  BY <1>1, FirstParts DEF Unconnected
<1>5. ~Confirmed'
  BY <1>1, <1>4 DEF Confirmed
<1> QED BY <1>0, <1>1, <1>3, <1>4, <1>5, FirstPartsAfter DEF Unconnected

LEMMA ClientNextKeeps ==
  ASSUME FirstAttemptInv, [Next]_(vars)
  PROVE  FirstAttemptInv'
<1>1. CASE \/ GiveUp \/ ParseAddress \/ Connect \/ ConnectTimesOut
           \/ ConnectFails \/ Connected
  BY <1>1, ConnectKeeps
     DEF GiveUp, ParseAddress, Connect, ConnectTimesOut,
         ConnectFails, Connected, ConnectTo, Unconnected
<1>2. CASE Flow
  BY <1>2, QuietFlowKeeps, ResponseKeeps
<1>3. CASE AfterFlow \/ EndThread
  BY <1>3, OtherKeeps, FirstParts
     DEF AfterFlow, EndThread, ConnectTo, connVars
<1>4. CASE Watch \/ Canceled \/ UNCHANGED vars
  BY <1>4, OtherKeeps
     DEF Watch, Answered, TimedOut, Canceled, StopWith,
         vars, connVars, clientVars
<1> QED BY <1>1, <1>2, <1>3, <1>4, StartFlowKeeps
    DEF Next, ConnectThread, Over

(* In every state of TCPUnlockClient, as long as its first attempt lasts:   *)
(* without an answer there is no state, and a confirmation that came first  *)
(* is on its way to being the state and is not followed by another.         *)
THEOREM FirstAttemptInvariant == Spec => []FirstAttemptInv
<1>1. Init => FirstAttemptInv
  BY ClientAssumption
     DEF Init, ConnInit, FirstAttemptInv, StreamTypeOK,
         ThreadOK, AttemptOK, Confirmed, Labels
<1>2. FirstAttemptInv /\ [Next]_(vars) => FirstAttemptInv'
  BY ClientNextKeeps
<1> QED BY <1>1, <1>2, PTL DEF Spec

(* A phone that the first attempt reached and whose first answer is the     *)
(* confirmation unlocks the PC, whatever it sends next, whenever the stream *)
(* breaks and whenever RunServer stops the client                           *)
(* (BaseUnlockConnection::OnResponseReceived, TCPUnlockClient).             *)
THEOREM ConfirmationCounts == Spec => []FirstAttemptUnlocks
<1>1. FirstAttemptInv => FirstAttemptUnlocks
  BY FirstParts
     DEF FirstAttemptUnlocks, ConfirmationUnlocks, Confirmed
<1> QED BY <1>1, FirstAttemptInvariant, PTL

-----------------------------------------------------------------------------
(* BTUnlockClient on Windows and Linux. *)

(* A client is the first or, on Windows, the other one of its phone. *)
LEMMA ClientFacts ==
    /\ \A p \in Phones : \A c \in ClientsOf(p) : c \in Clients /\ c[1] = p
    /\ \A c \in Clients : c[1] \in Phones /\ c \in ClientsOf(c[1]) /\ c # Nothing
    /\ \A c, d \in Clients : c[1] = d[1] /\ isOther(c) = isOther(d) => c = d
<1>1. \A p : \A c \in ClientsOf(p) : c = <<p, "first">> \/ c = <<p, "other">>
  BY DEF ClientsOf
<1>2. \A p \in Phones : \A c \in ClientsOf(p) : c \in Clients /\ c[1] = p
  BY <1>1 DEF Clients
<1>3. \A c \in Clients : \E p \in Phones : c \in ClientsOf(p)
  BY DEF Clients
<1>4. \A c \in Clients : c[1] \in Phones /\ c \in ClientsOf(c[1])
  BY <1>2, <1>3
<1>5. \A c \in Clients : c # Nothing
  <2>1. \A c \in Clients : c \in Phones \X {"first", "other"}
    BY <1>1, <1>3
  <2> QED BY <2>1, BluetoothAssumption
<1>6. ASSUME NEW c \in Clients, NEW d \in Clients, c[1] = d[1], isOther(c) = isOther(d)
      PROVE  c = d
  <2>1. PICK p \in Phones : c = <<p, "first">> \/ c = <<p, "other">>
    BY <1>1, <1>3
  <2>2. PICK q \in Phones : d = <<q, "first">> \/ d = <<q, "other">>
    BY <1>1, <1>3
  <2>3. p = q
    BY <1>6, <2>1, <2>2
  <2> QED BY <1>6, <2>1, <2>2, <2>3 DEF isOther
<1> QED BY <1>2, <1>4, <1>5, <1>6

(* The build does not change, and so the clients of a request do not. *)
LEMMA SameClients ==
    ASSUME windows' = windows
    PROVE  Clients' = Clients /\ \A p : ClientsOf(p)' = ClientsOf(p)
BY DEF Clients, ClientsOf

(* A step of a connecting thread that asks no phone. *)
LEMMA ThreadStep ==
    ASSUME BluetoothInv, NEW c \in Clients, BTTypeOK', pc[c] \notin {"idle", "ended"},
           UNCHANGED <<windows, handler, hasConn, pairErrors, result,
                       isAlreadyConnected, otherClientConnectedFirst>>,
           pc' = [pc EXCEPT ![c] = pc'[c]], state' = [state EXCEPT ![c] = state'[c]],
           successfullConnect' => successfullConnect \/ hasConn[c],
           \A d \in Clients \ {c} : channel[d[1]] = d => channel'[d[1]] = d,
           pc'[c] \in Holding => channel'[c[1]] = c /\ \A d \in Clients : handler[d] # "start",
           pc'[c] \in {"auth", "answered"} => hasConn[c],
           hasConn[c] => pc'[c] \in {"auth", "answered", "close", "ended"},
           pc'[c] # "idle",
           pc'[c] = "take" => \A d \in ClientsOf(c[1]) : ~hasConn[d],
           state'[c] \in PhoneAnswers => pc'[c] \in {"answered", "close", "ended"},
           state[c] \in PhoneAnswers => state'[c] = state[c],
           state'[c] = "CANCELED" => state[c] = "CANCELED" \/ (\E d \in Clients : hasConn[d])
    PROVE  BluetoothInv'
<1>0. /\ BTTypeOK /\ (\A d \in Clients : BTThreadOK(d)) /\ FlagsOK /\ ErrorsOK /\ OneAsks
      /\ FlagsAreThisRequests
  BY DEF BluetoothInv
<1>1. Clients' = Clients /\ \A p : ClientsOf(p)' = ClientsOf(p)
  BY SameClients
<1>2. \A d \in Clients \ {c} : pc'[d] = pc[d] /\ state'[d] = state[d]
  BY <1>0 DEF BTTypeOK
<1>3. ASSUME NEW d \in Clients
      PROVE  BTThreadOK(d)'
  <2>1. CASE d = c
    BY <1>0, <1>1, <2>1 DEF BTThreadOK
  <2>2. CASE d # c
    BY <1>0, <1>1, <1>2, <2>2 DEF BTThreadOK
  <2> QED BY <2>1, <2>2
<1>4. FlagsOK'
  BY <1>0, <1>1 DEF FlagsOK, isOther
<1>5. \A d \in Clients : state[d] \in PhoneAnswers => state'[d] = state[d]
  BY <1>2
<1>6. ErrorsOK'
  BY <1>0, <1>1, <1>5, ClientFacts DEF ErrorsOK
<1>7. OneAsks'
  BY <1>0, <1>1 DEF OneAsks
<1>8. FlagsAreThisRequests'
  <2>1. ASSUME NEW d \in Clients, state'[d] = "CANCELED", ~hasConn[d]
        PROVE  \E e \in Clients \ {d} : hasConn[e]
    BY <1>0, <1>2, <2>1 DEF FlagsAreThisRequests, Asked
  <2>2. ASSUME NEW d \in Clients, result[d] \in PhoneAnswers
        PROVE  \E e \in ClientsOf(d[1]) : state'[e] = result[d]
    BY <1>0, <1>5, <2>2, ClientFacts DEF FlagsAreThisRequests
  <2> QED BY <1>1, <2>1, <2>2 DEF FlagsAreThisRequests, Asked
<1> QED BY <1>1, <1>3, <1>4, <1>6, <1>7, <1>8 DEF BluetoothInv

(* The parts of the invariant, for one client. *)
LEMMA Parts ==
    ASSUME BluetoothInv, NEW c \in Clients
    PROVE  /\ BTTypeOK /\ BTThreadOK(c) /\ FlagsOK /\ ErrorsOK /\ OneAsks /\ FlagsAreThisRequests
           /\ c[1] \in Phones /\ c \in ClientsOf(c[1])
BY ClientFacts DEF BluetoothInv

(* Before there is a connection: the channel of the phone is not held. *)
LEMMA ConnectingKeeps ==
    ASSUME BluetoothInv, NEW c \in Clients,
           FindSDPChannel(c) \/ OpenSocket(c) \/ BTConnect(c) \/ NotConnected(c)
    PROVE  BluetoothInv'
<1>0. BTTypeOK /\ BTThreadOK(c)
  BY Parts
<1>1. /\ UNCHANGED <<windows, requests, active, channel, isAlreadyConnected, otherClientConnectedFirst,
                     successfullConnect, pairErrors, handler, stop, btPhase, hasConn, result>>
      /\ pc[c] \in {"search", "open", "connect", "wait"}
  BY DEF FindSDPChannel, OpenSocket, BTConnect, NotConnected, request, statics
<1>2. PICK l \in {"open", "connect", "wait", "close", "ended"} : pc' = [pc EXCEPT ![c] = l]
  BY DEF FindSDPChannel, OpenSocket, BTConnect, NotConnected, BTGoto, Give
<1>3. PICK st \in BTStates :
        /\ state' = [state EXCEPT ![c] = st]
        /\ st = state[c] \/ st \in {"UNKNOWN", "CONNECT_ERROR", "UNK_ERROR"}
  <2>1. state[c] \in BTStates /\ state = [state EXCEPT ![c] = state[c]]
    BY <1>0 DEF BTTypeOK
  <2> QED BY <2>1 DEF FindSDPChannel, OpenSocket, BTConnect, NotConnected, BTGoto, Give, SetState, BTStates
<1>4. running' \in [Clients -> BOOLEAN]
  BY <1>0 DEF BTTypeOK, FindSDPChannel, OpenSocket, BTConnect, NotConnected
<1>5. retries' \in [Clients -> Nat]
  BY <1>0 DEF BTTypeOK, FindSDPChannel, OpenSocket, BTConnect, NotConnected
<1>6. BTTypeOK'
  <2>1. Clients' = Clients
    BY <1>1, SameClients
  <2> QED BY <1>0, <1>1, <1>2, <1>3, <1>4, <1>5, <2>1 DEF BTTypeOK
<1>7. pc'[c] = l /\ pc' = [pc EXCEPT ![c] = pc'[c]] /\ state'[c] = st /\ state' = [state EXCEPT ![c] = state'[c]]
  BY <1>0, <1>2, <1>3 DEF BTTypeOK
<1>8. ~hasConn[c] /\ state[c] \notin PhoneAnswers /\ st \notin PhoneAnswers
  BY <1>0, <1>1, <1>3 DEF BTThreadOK, PhoneAnswers
<1> QED BY <1>1, <1>2, <1>3, <1>6, <1>7, <1>8, ThreadStep DEF Holding

(* The connection is there: no other client has it, and all have started. *)
LEMMA ConnectedKeeps ==
    ASSUME BluetoothInv, NEW c \in Clients, BTConnected(c)
    PROVE  BluetoothInv'
<1>0. BTTypeOK /\ BTThreadOK(c) /\ c[1] \in Phones
  BY Parts
<1>1. /\ UNCHANGED <<windows, requests, active, isAlreadyConnected, otherClientConnectedFirst,
                     successfullConnect, pairErrors, handler, stop, btPhase, hasConn, result,
                     running, state, retries>>
      /\ pc[c] = "wait" /\ pc' = [pc EXCEPT ![c] = "check"] /\ channel[c[1]] = Nothing
      /\ channel' = [channel EXCEPT ![c[1]] = c] /\ \A d \in Clients : handler[d] # "start"
  BY DEF BTConnected, request, statics, BTGoto
<1>2. BTTypeOK'
  <2>1. Clients' = Clients
    BY <1>1, SameClients
  <2> QED BY <1>0, <1>1, <2>1 DEF BTTypeOK
<1>3. /\ pc'[c] = "check" /\ pc' = [pc EXCEPT ![c] = pc'[c]] /\ state' = [state EXCEPT ![c] = state'[c]]
      /\ channel'[c[1]] = c /\ state'[c] = state[c]
  BY <1>0, <1>1 DEF BTTypeOK
<1>4. \A d \in Clients \ {c} : channel[d[1]] = d => channel'[d[1]] = d
  BY <1>0, <1>1, ClientFacts DEF BTTypeOK
<1>5. ~hasConn[c] /\ state[c] \notin PhoneAnswers
  BY <1>0, <1>1 DEF BTThreadOK
<1> QED BY <1>1, <1>2, <1>3, <1>4, <1>5, ThreadStep DEF Holding

(* With the connection: it is used, or another client was first, or the     *)
(* phone has answered.                                                      *)
LEMMA HoldingKeeps ==
    ASSUME BluetoothInv, NEW c \in Clients,
           CheckAbandoned(c) \/ Claim(c) \/ Answer(c) \/ BTAnswered(c)
    PROVE  BluetoothInv'
<1>0. BTTypeOK /\ BTThreadOK(c) /\ FlagsOK /\ c[1] \in Phones
  BY Parts
<1>1. /\ UNCHANGED <<windows, requests, active, channel, isAlreadyConnected, otherClientConnectedFirst,
                     pairErrors, handler, stop, btPhase, hasConn, result, running, retries>>
      /\ pc[c] \in {"check", "claim", "auth", "answered"}
  BY DEF CheckAbandoned, Claim, Answer, BTAnswered, request, statics
<1>2. PICK l \in {"claim", "take", "answered", "close"} :
        /\ pc' = [pc EXCEPT ![c] = l]
        /\ l = "claim" => pc[c] = "check"
        /\ l = "take" => pc[c] = "claim" /\ ~Outrun(c)
        /\ l = "answered" => pc[c] = "auth"
        /\ pc[c] = "auth" => l = "answered"
  BY DEF CheckAbandoned, Claim, Answer, BTAnswered, BTGoto, Give
<1>3. PICK st \in BTStates :
        /\ state' = [state EXCEPT ![c] = st]
        /\ st # state[c] => \/ pc[c] = "claim" /\ st = "CANCELED" /\ Outrun(c) /\ l = "close"
                            \/ pc[c] = "auth"
  <2>1. state[c] \in BTStates /\ state = [state EXCEPT ![c] = state[c]] /\ Outcomes \subseteq BTStates
        /\ "CANCELED" \in BTStates
    BY <1>0, BluetoothAssumption DEF BTTypeOK, BTStates
  <2>2. CASE CheckAbandoned(c) \/ BTAnswered(c)
    BY <2>1, <2>2 DEF CheckAbandoned, BTAnswered
  <2>3. CASE Answer(c)
    BY <2>1, <2>3 DEF Answer, SetState
  <2>4. CASE Claim(c)
    <3>1. CASE Outrun(c)
      <4>1. pc' = [pc EXCEPT ![c] = "close"] /\ state' = [state EXCEPT ![c] = "CANCELED"] /\ pc[c] = "claim"
        BY <2>4, <3>1 DEF Claim, Give, SetState, BTGoto
      <4>2. l = "close"
        BY <1>0, <1>2, <4>1 DEF BTTypeOK
      <4> QED BY <2>1, <3>1, <4>1, <4>2
    <3>2. CASE ~Outrun(c)
      BY <2>1, <2>4, <3>2 DEF Claim
    <3> QED BY <3>1, <3>2
  <2> QED BY <2>2, <2>3, <2>4
<1>5. BTTypeOK'
  <2>1. Clients' = Clients
    BY <1>1, SameClients
  <2> QED BY <1>0, <1>1, <1>2, <1>3, <2>1 DEF BTTypeOK
<1>6. pc'[c] = l /\ pc' = [pc EXCEPT ![c] = pc'[c]] /\ state'[c] = st /\ state' = [state EXCEPT ![c] = state'[c]]
  BY <1>0, <1>2, <1>3 DEF BTTypeOK
<1>7. successfullConnect' => successfullConnect \/ hasConn[c]
  BY <1>0 DEF BTThreadOK, CheckAbandoned, Claim, Answer, BTAnswered, statics
<1>8. channel[c[1]] = c /\ \A d \in Clients : handler[d] # "start"
  BY <1>0, <1>1 DEF BTThreadOK, Holding
<1>9. /\ pc[c] \in {"check", "claim"} => ~hasConn[c]
      /\ pc[c] \in {"auth", "answered"} => hasConn[c]
      /\ state[c] \in PhoneAnswers => pc[c] = "answered"
  BY <1>0, <1>1 DEF BTThreadOK
<1>10. l = "take" => \A d \in ClientsOf(c[1]) : ~hasConn[d]
  <2> SUFFICES ASSUME l = "take", NEW d \in ClientsOf(c[1]), hasConn[d] PROVE FALSE
    OBVIOUS
  <2>1. d \in Clients /\ d[1] = c[1] /\ ~Outrun(c) /\ ~hasConn[c]
    BY <1>0, <1>2, <1>9, ClientFacts
  <2>2. isOther(d) # isOther(c)
    BY <2>1, ClientFacts
  <2> QED BY <1>0, <2>1, <2>2 DEF FlagsOK, Outrun, isOther
<1>11. st = "CANCELED" => st = state[c] \/ \E d \in Clients : hasConn[d]
  <2> SUFFICES ASSUME st # state[c] PROVE \E d \in Clients : hasConn[d]
    OBVIOUS
  <2>1. CASE pc[c] = "auth"
    BY <1>9, <2>1
  <2>2. CASE pc[c] = "claim" /\ Outrun(c)
    BY <1>0, <1>8, <2>2 DEF FlagsOK, Outrun
  <2> QED BY <1>3, <2>1, <2>2
<1>12. st \in PhoneAnswers => l \in {"answered", "close"}
  BY <1>1, <1>2, <1>3, <1>9 DEF PhoneAnswers
<1>13. state[c] \in PhoneAnswers => st = state[c]
  BY <1>3, <1>9
<1>14. l \in Holding => channel'[c[1]] = c
  BY <1>1, <1>8
<1>15. /\ l \in {"auth", "answered"} => hasConn[c]
       /\ hasConn[c] => l \in {"answered", "close"}
  BY <1>1, <1>2, <1>9
<1> QED BY <1>1, <1>2, <1>5, <1>6, <1>7, <1>8, <1>10, <1>11, <1>12, <1>13, <1>14, <1>15, ThreadStep

(* threadEnd: the channel is given back by the client that has it. *)
LEMMA CloseSocketKeeps ==
    ASSUME BluetoothInv, NEW c \in Clients, CloseSocket(c)
    PROVE  BluetoothInv'
<1>0. BTTypeOK /\ BTThreadOK(c) /\ c[1] \in Phones
  BY Parts
<1>1. /\ UNCHANGED <<windows, requests, active, isAlreadyConnected, otherClientConnectedFirst,
                     successfullConnect, pairErrors, handler, stop, btPhase, hasConn, result, state, retries>>
      /\ pc[c] = "close" /\ pc' = [pc EXCEPT ![c] = "ended"] /\ running' = [running EXCEPT ![c] = FALSE]
      /\ channel' = [channel EXCEPT ![c[1]] = IF channel[c[1]] = c THEN Nothing ELSE channel[c[1]]]
  BY DEF CloseSocket, request, statics, BTGoto
<1>2. BTTypeOK'
  <2>1. Clients' = Clients
    BY <1>1, SameClients
  <2> QED BY <1>0, <1>1, <2>1 DEF BTTypeOK
<1>3. /\ pc'[c] = "ended" /\ pc' = [pc EXCEPT ![c] = pc'[c]] /\ state' = [state EXCEPT ![c] = state'[c]]
      /\ state'[c] = state[c]
  BY <1>0, <1>1 DEF BTTypeOK
<1>4. \A d \in Clients \ {c} : channel[d[1]] = d => channel'[d[1]] = d
  BY <1>0, <1>1, ClientFacts DEF BTTypeOK
<1> QED BY <1>1, <1>2, <1>3, <1>4, ThreadStep DEF Holding

(* The phone is asked: the client has its channel, no other has asked it. *)
LEMMA TakeKeeps ==
    ASSUME BluetoothInv, NEW c \in Clients, Take(c)
    PROVE  BluetoothInv'
<1>0. /\ BTTypeOK /\ BTThreadOK(c) /\ FlagsOK /\ ErrorsOK /\ OneAsks /\ FlagsAreThisRequests
      /\ c[1] \in Phones /\ \A d \in Clients : BTThreadOK(d)
  BY Parts
<1>1. /\ UNCHANGED <<windows, requests, active, channel, successfullConnect, pairErrors, handler,
                     running, stop, state, retries, result>>
      /\ pc[c] = "take" /\ pc' = [pc EXCEPT ![c] = "auth"] /\ hasConn' = [hasConn EXCEPT ![c] = TRUE]
      /\ btPhase' = [btPhase EXCEPT ![c] = "PHONE_UNLOCKING"]
  BY DEF Take, request, BTGoto
<1>2. Clients' = Clients /\ \A p : ClientsOf(p)' = ClientsOf(p)
  BY <1>1, SameClients
<1>3. BTTypeOK'
  BY <1>0, <1>1, <1>2 DEF BTTypeOK
<1>4. /\ pc'[c] = "auth" /\ hasConn'[c] = TRUE
      /\ \A d \in Clients \ {c} : pc'[d] = pc[d] /\ hasConn'[d] = hasConn[d]
  BY <1>0, <1>1 DEF BTTypeOK
<1>5. /\ channel[c[1]] = c /\ (\A d \in Clients : handler[d] # "start")
      /\ \A d \in ClientsOf(c[1]) : ~hasConn[d]
  BY <1>0, <1>1 DEF BTThreadOK, Holding
<1>6. ASSUME NEW d \in Clients
      PROVE  BTThreadOK(d)'
  <2>1. CASE d = c
    BY <1>0, <1>1, <1>2, <1>4, <1>5, <2>1 DEF BTThreadOK
  <2>2. CASE d # c
    <3>1. BTThreadOK(d) /\ pc'[d] = pc[d] /\ hasConn'[d] = hasConn[d]
      BY <1>0, <1>4, <2>2
    <3>2. pc[d] = "take" => c \notin ClientsOf(d[1])
      BY <1>5, <2>2, <3>1, ClientFacts DEF BTThreadOK, Holding
    <3>3. pc[d] = "take" => \A e \in ClientsOf(d[1]) : ~hasConn'[e]
      BY <1>4, <3>1, <3>2, ClientFacts DEF BTThreadOK
    <3> QED BY <1>1, <1>2, <3>1, <3>3 DEF BTThreadOK
  <2> QED BY <2>1, <2>2
<1>7. FlagsOK'
  <2>1. /\ IF isOther(c) THEN otherClientConnectedFirst' ELSE isAlreadyConnected'
        /\ isAlreadyConnected => isAlreadyConnected'
        /\ otherClientConnectedFirst => otherClientConnectedFirst'
    BY DEF Take
  <2>2. ASSUME NEW d \in Clients, hasConn'[d]
        PROVE  IF isOther(d) THEN otherClientConnectedFirst' ELSE isAlreadyConnected'
    BY <1>0, <1>4, <2>1, <2>2 DEF FlagsOK
  <2> QED BY <1>2, <1>4, <2>2 DEF FlagsOK, isOther
<1>8. ErrorsOK'
  BY <1>0, <1>1, <1>2 DEF ErrorsOK
<1>9. OneAsks'
  <2> SUFFICES ASSUME NEW p \in Phones, NEW d \in ClientsOf(p), NEW e \in ClientsOf(p),
                      hasConn'[d], hasConn'[e]
               PROVE  d = e
    BY <1>2 DEF OneAsks
  <2>1. d \in Clients /\ e \in Clients /\ d[1] = p /\ e[1] = p
    BY ClientFacts
  <2>2. CASE c \in {d, e}
    BY <1>4, <1>5, <2>1, <2>2
  <2>3. CASE c \notin {d, e}
    BY <1>0, <1>4, <2>1, <2>3 DEF OneAsks
  <2> QED BY <2>2, <2>3
<1>10. FlagsAreThisRequests'
  <2>1. ASSUME NEW d \in Clients, state[d] = "CANCELED", ~hasConn'[d]
        PROVE  \E e \in Clients \ {d} : hasConn'[e]
    BY <1>4, <2>1
  <2> QED BY <1>0, <1>1, <1>2, <2>1 DEF FlagsAreThisRequests, Asked
<1> QED BY <1>2, <1>3, <1>6, <1>7, <1>8, <1>9, <1>10 DEF BluetoothInv

---------------------------------------------------------------------------
(* The threads of UnlockHandler. *)

(* A step of a handler's thread that leaves the connecting threads alone. *)
LEMMA HandlerStep ==
    ASSUME BluetoothInv, NEW c \in Clients, BTTypeOK', handler[c] # "start",
           UNCHANGED <<windows, channel, statics, pc, state, hasConn>>,
           handler' = [handler EXCEPT ![c] = handler'[c]], handler'[c] # "start",
           handler'[c] = "done" => pc[c] = "ended",
           result' = [result EXCEPT ![c] = result'[c]],
           result'[c] \in PhoneAnswers => \E d \in ClientsOf(c[1]) : state[d] = result'[c],
           pairErrors' = pairErrors \/ KeepError(c)
    PROVE  BluetoothInv'
<1>0. /\ BTTypeOK /\ (\A d \in Clients : BTThreadOK(d)) /\ FlagsOK /\ ErrorsOK /\ OneAsks
      /\ FlagsAreThisRequests /\ c[1] \in Phones /\ c \in ClientsOf(c[1])
  BY Parts
<1>1. Clients' = Clients /\ \A p : ClientsOf(p)' = ClientsOf(p)
  BY SameClients
<1>2. \A d \in Clients \ {c} : handler'[d] = handler[d] /\ result'[d] = result[d]
  BY <1>0 DEF BTTypeOK
<1>3. ASSUME NEW d \in Clients
      PROVE  BTThreadOK(d)'
  <2>1. BTThreadOK(d)
    BY <1>0
  <2> QED BY <1>1, <1>2, <2>1 DEF BTThreadOK
<1>4. FlagsOK'
  BY <1>0, <1>1, <1>2 DEF FlagsOK, isOther, statics
<1>5. ErrorsOK'
  <2>1. CASE pairErrors' = pairErrors
    BY <1>0, <1>1, <1>2, <2>1 DEF ErrorsOK
  <2>2. CASE state[c] \in PhoneAnswers
             /\ pairErrors' = [pairErrors EXCEPT ![c[1]] =
                  [error |-> state[c], for |-> {d \in ClientsOf(c[1]) : handler[d] # "start"}]]
    <3>1. pairErrors'[c[1]].error = state[c]
      BY <1>0, <2>2 DEF BTTypeOK
    <3>2. \A p \in Phones \ {c[1]} : pairErrors'[p] = pairErrors[p]
      BY <1>0, <2>2 DEF BTTypeOK
    <3>3. ASSUME NEW d \in Clients, handler'[d] # "start", d \in pairErrors'[d[1]].for
          PROVE  /\ pairErrors'[d[1]].error \in PhoneAnswers
                 /\ \E e \in ClientsOf(d[1]) : state[e] = pairErrors'[d[1]].error
      <4>1. CASE d[1] = c[1]
        BY <1>0, <2>2, <3>1, <4>1
      <4>2. CASE d[1] # c[1]
        BY <1>0, <1>2, <3>2, <3>3, <4>2, ClientFacts DEF ErrorsOK
      <4> QED BY <4>1, <4>2
    <3> QED BY <1>1, <3>3 DEF ErrorsOK
  <2> QED BY <2>1, <2>2 DEF KeepError, IsPhoneError
<1>6. OneAsks'
  BY <1>0, <1>1 DEF OneAsks
<1>7. FlagsAreThisRequests'
  <2>1. ASSUME NEW d \in Clients, result'[d] \in PhoneAnswers
        PROVE  \E e \in ClientsOf(d[1]) : state[e] = result'[d]
    BY <1>0, <1>2, <2>1 DEF FlagsAreThisRequests
  <2> QED BY <1>0, <1>1, <2>1 DEF FlagsAreThisRequests, Asked
<1> QED BY <1>1, <1>3, <1>4, <1>5, <1>6, <1>7 DEF BluetoothInv

(* What a started client is polled for was said in this request. *)
LEMMA PollIsThisRequests ==
    ASSUME BluetoothInv, NEW c \in Clients, handler[c] # "start"
    PROVE  /\ PollResult(c) \in BTStates
           /\ PollResult(c) \in PhoneAnswers => \E d \in ClientsOf(c[1]) : state[d] = PollResult(c)
<1>0. BTTypeOK /\ ErrorsOK /\ c \in ClientsOf(c[1]) /\ state[c] \in BTStates /\ c[1] \in Phones
  BY Parts DEF BTTypeOK
<1>1. CASE c \in pairErrors[c[1]].for /\ ~(IsPhoneError(state[c]) \/ state[c] = "SUCCESS")
  BY <1>0, <1>1 DEF ErrorsOK, PollResult, BTStates
<1>2. CASE ~(c \in pairErrors[c[1]].for /\ ~(IsPhoneError(state[c]) \/ state[c] = "SUCCESS"))
  <2>1. PollResult(c) = state[c] \/ PollResult(c) = "CANCELED"
    BY <1>2 DEF PollResult
  <2> QED BY <1>0, <2>1 DEF BTStates, PhoneAnswers
<1> QED BY <1>1, <1>2

(* An error that is kept is one of the phone's. *)
LEMMA KeepErrorType ==
    ASSUME BTTypeOK, NEW c \in Clients, windows' = windows, KeepError(c)
    PROVE  pairErrors' \in [Phones -> [error : PhoneAnswers \cup {Nothing}, for : SUBSET Clients]]
<1>1. CASE ~IsPhoneError(state[c])
  BY <1>1 DEF KeepError, BTTypeOK
<1>2. CASE IsPhoneError(state[c])
  <2>1. {d \in ClientsOf(c[1]) : handler[d] # "start"} \in SUBSET Clients
    BY ClientFacts
  <2> QED BY <1>2, <2>1, ClientFacts DEF KeepError, BTTypeOK, IsPhoneError
<1> QED BY <1>1, <1>2

(* RunServer leaves its loop. *)
LEMMA StopKeeps ==
    ASSUME BluetoothInv, NEW c \in Clients, StopDue(c) \/ StopEarly(c)
    PROVE  BluetoothInv'
<1>0. BTTypeOK /\ handler[c] = "poll" /\ windows' = windows
  BY Parts DEF StopDue, StopEarly, Stop, request
<1>1. PICK s \in BTStates :
        Stop(c, s) /\ (s \in PhoneAnswers => \E d \in ClientsOf(c[1]) : state[d] = s)
  <2>1. "CANCELED" \in BTStates /\ "TIMEOUT" \in BTStates /\ "CANCELED" \notin PhoneAnswers
        /\ "TIMEOUT" \notin PhoneAnswers
    BY DEF BTStates, PhoneAnswers
  <2> QED BY <1>0, <2>1, PollIsThisRequests DEF StopDue, StopEarly
<1>2. /\ UNCHANGED <<windows, requests, active, channel, statics, pc, running, state, btPhase, hasConn, retries>>
      /\ result' = [result EXCEPT ![c] = s] /\ stop' = [stop EXCEPT ![c] = TRUE] /\ KeepError(c)
      /\ handler' = [handler EXCEPT ![c] = "stopping"]
  BY <1>1 DEF Stop, request
<1>3. BTTypeOK'
  <2>1. Clients' = Clients
    BY <1>0, SameClients
  <2>2. pairErrors' \in [Phones -> [error : PhoneAnswers \cup {Nothing}, for : SUBSET Clients]]
    BY <1>0, <1>2, KeepErrorType
  <2> QED BY <1>0, <1>2, <2>1, <2>2 DEF BTTypeOK
<1>4. /\ handler'[c] = "stopping" /\ handler' = [handler EXCEPT ![c] = handler'[c]]
      /\ result'[c] = s /\ result' = [result EXCEPT ![c] = result'[c]]
  BY <1>0, <1>2 DEF BTTypeOK
<1> QED BY <1>0, <1>1, <1>2, <1>3, <1>4, HandlerStep

(* After the delays of Stop(). *)
LEMMA StopRunningKeeps ==
    ASSUME BluetoothInv, NEW c \in Clients, StopRunning(c)
    PROVE  BluetoothInv'
<1>0. BTTypeOK /\ FlagsAreThisRequests
  BY Parts
<1>1. /\ UNCHANGED <<windows, requests, active, channel, statics, pairErrors, pc, stop, state, btPhase,
                     hasConn, retries, result>>
      /\ running' = [running EXCEPT ![c] = FALSE] /\ handler[c] = "stopping"
      /\ handler' = [handler EXCEPT ![c] = "joining"]
  BY DEF StopRunning, request
<1>2. BTTypeOK'
  <2>1. Clients' = Clients
    BY <1>1, SameClients
  <2> QED BY <1>0, <1>1, <2>1 DEF BTTypeOK
<1>3. /\ handler'[c] = "joining" /\ handler' = [handler EXCEPT ![c] = handler'[c]]
      /\ result'[c] = result[c] /\ result' = [result EXCEPT ![c] = result'[c]]
  BY <1>0, <1>1 DEF BTTypeOK
<1> QED BY <1>0, <1>1, <1>2, <1>3, HandlerStep DEF FlagsAreThisRequests

(* Stop() has joined the thread. *)
LEMMA JoinedKeeps ==
    ASSUME BluetoothInv, NEW c \in Clients, Joined(c)
    PROVE  BluetoothInv'
<1>0. BTTypeOK /\ FlagsAreThisRequests
  BY Parts
<1>1. /\ UNCHANGED <<windows, requests, active, channel, statics, pc, running, stop, state, btPhase,
                     hasConn, retries>>
      /\ handler[c] = "joining" /\ pc[c] = "ended" /\ handler' = [handler EXCEPT ![c] = "done"]
      /\ pairErrors' = pairErrors \/ KeepError(c)
      /\ result' = result \/ result' = [result EXCEPT ![c] = PollResult(c)]
  BY DEF Joined, request
<1>2. PICK s \in BTStates \cup {Nothing} :
        /\ result' = [result EXCEPT ![c] = s]
        /\ s \in PhoneAnswers => \E d \in ClientsOf(c[1]) : state[d] = s
  <2>1. result[c] \in BTStates \cup {Nothing} /\ result = [result EXCEPT ![c] = result[c]]
    BY <1>0 DEF BTTypeOK
  <2>2. result[c] \in PhoneAnswers => \E d \in ClientsOf(c[1]) : state[d] = result[c]
    BY <1>0 DEF FlagsAreThisRequests
  <2> QED BY <1>1, <2>1, <2>2, PollIsThisRequests
<1>3. BTTypeOK'
  <2>1. Clients' = Clients
    BY <1>1, SameClients
  <2>2. pairErrors' \in [Phones -> [error : PhoneAnswers \cup {Nothing}, for : SUBSET Clients]]
    BY <1>0, <1>1, KeepErrorType DEF BTTypeOK
  <2> QED BY <1>0, <1>1, <1>2, <2>1, <2>2 DEF BTTypeOK
<1>4. /\ handler'[c] = "done" /\ handler' = [handler EXCEPT ![c] = handler'[c]]
      /\ result'[c] = s /\ result' = [result EXCEPT ![c] = result'[c]]
  BY <1>0, <1>1, <1>2 DEF BTTypeOK
<1>5. /\ UNCHANGED <<windows, channel, statics, pc, state, hasConn>> /\ handler[c] # "start"
      /\ pc[c] = "ended" /\ (pairErrors' = pairErrors \/ KeepError(c))
  BY <1>1
<1>6. result'[c] \in PhoneAnswers => \E d \in ClientsOf(c[1]) : state[d] = result'[c]
  BY <1>2, <1>4
<1> QED BY <1>3, <1>4, <1>5, <1>6, HandlerStep

(* Start(): no phone has been asked in this request, the flags are cleared. *)
LEMMA StartKeeps ==
    ASSUME BluetoothInv, NEW c \in Clients, Start(c)
    PROVE  BluetoothInv'
<1>0. /\ BTTypeOK /\ (\A d \in Clients : BTThreadOK(d)) /\ ErrorsOK /\ FlagsAreThisRequests
      /\ c[1] \in Phones /\ handler[c] = "start"
  BY Parts DEF Start
<1>1. /\ UNCHANGED <<windows, requests, active, channel, stop, state, hasConn, retries, result>>
      /\ handler' = [handler EXCEPT ![c] = "poll"] /\ running' = [running EXCEPT ![c] = TRUE]
      /\ btPhase' = [btPhase EXCEPT ![c] = "CLIENT_CONNECTING"]
      /\ pairErrors' = [pairErrors EXCEPT ![c[1]].for = pairErrors[c[1]].for \ {c}]
      /\ isAlreadyConnected' = FALSE /\ otherClientConnectedFirst' = FALSE /\ successfullConnect' = FALSE
  BY DEF Start, request
<1>2. PICK l \in {"open", "search"} : pc' = [pc EXCEPT ![c] = l]
  BY DEF Start
<1>3. Clients' = Clients /\ \A p : ClientsOf(p)' = ClientsOf(p)
  BY <1>1, SameClients
<1>4. /\ pairErrors'[c[1]].error = pairErrors[c[1]].error
      /\ pairErrors'[c[1]].for = pairErrors[c[1]].for \ {c}
      /\ \A p \in Phones \ {c[1]} : pairErrors'[p] = pairErrors[p]
      /\ pairErrors' \in [Phones -> [error : PhoneAnswers \cup {Nothing}, for : SUBSET Clients]]
  BY <1>0, <1>1 DEF BTTypeOK
<1>5. BTTypeOK'
  BY <1>0, <1>1, <1>2, <1>3, <1>4 DEF BTTypeOK
<1>6. /\ pc'[c] = l /\ handler'[c] = "poll"
      /\ \A d \in Clients \ {c} : pc'[d] = pc[d] /\ handler'[d] = handler[d]
  BY <1>0, <1>1, <1>2 DEF BTTypeOK
<1>7. \A d \in Clients : ~hasConn[d] /\ pc[d] \notin Holding
  BY <1>0 DEF BTThreadOK
<1>8. ASSUME NEW d \in Clients
      PROVE  BTThreadOK(d)'
  <2>1. BTThreadOK(d) /\ ~hasConn[d] /\ pc[d] \notin Holding /\ pc'[d] \notin Holding
    BY <1>0, <1>6, <1>7 DEF Holding
  <2>2. CASE d = c
    BY <1>0, <1>1, <1>3, <1>6, <2>1, <2>2 DEF BTThreadOK, Holding
  <2>3. CASE d # c
    BY <1>1, <1>3, <1>6, <2>1, <2>3 DEF BTThreadOK, Holding
  <2> QED BY <2>2, <2>3
<1>9. FlagsOK'
  BY <1>1, <1>3, <1>7 DEF FlagsOK
<1>10. ErrorsOK'
  <2>1. ASSUME NEW d \in Clients, handler'[d] # "start", d \in pairErrors'[d[1]].for
        PROVE  /\ pairErrors'[d[1]].error \in PhoneAnswers
               /\ \E e \in ClientsOf(d[1]) : state[e] = pairErrors'[d[1]].error
    <3>1. d # c /\ handler[d] # "start" /\ d[1] \in Phones
      BY <1>4, <1>6, <2>1, ClientFacts
    <3>2. d \in pairErrors[d[1]].for /\ pairErrors'[d[1]].error = pairErrors[d[1]].error
      BY <1>4, <2>1, <3>1
    <3> QED BY <1>0, <3>1, <3>2 DEF ErrorsOK
  <2> QED BY <1>1, <1>3, <2>1 DEF ErrorsOK
<1>11. OneAsks'
  BY <1>1, <1>3, <1>7, ClientFacts DEF OneAsks
<1>12. FlagsAreThisRequests'
  BY <1>0, <1>1, <1>3 DEF FlagsAreThisRequests, Asked
<1> QED BY <1>3, <1>5, <1>8, <1>9, <1>10, <1>11, <1>12 DEF BluetoothInv

---------------------------------------------------------------------------
(* The request. *)

(* What is not read by the clients' threads, and stuttering. *)
LEMMA IdleKeeps ==
    ASSUME BluetoothInv, BTGiveUp \/ UNCHANGED btVars
    PROVE  BluetoothInv'
<1>0. BTTypeOK /\ (\A d \in Clients : BTThreadOK(d)) /\ FlagsOK /\ ErrorsOK /\ OneAsks /\ FlagsAreThisRequests
  BY DEF BluetoothInv
<1>1. UNCHANGED <<windows, requests, channel, isAlreadyConnected, otherClientConnectedFirst,
                  successfullConnect, pairErrors, handler, pc, running, stop, state, btPhase, hasConn,
                  retries, result>>
  BY DEF BTGiveUp, btVars, request, statics
<1>2. Clients' = Clients /\ \A p : ClientsOf(p)' = ClientsOf(p)
  BY <1>1, SameClients
<1>3. active' \in BOOLEAN
  BY <1>0 DEF BTGiveUp, btVars, BTTypeOK
<1>4. BTTypeOK'
  BY <1>0, <1>1, <1>2, <1>3 DEF BTTypeOK
<1>5. FlagsOK'
  BY <1>0, <1>1, <1>2 DEF FlagsOK, isOther
<1>6. (\A d \in Clients : BTThreadOK(d)') /\ ErrorsOK' /\ OneAsks' /\ FlagsAreThisRequests'
  BY <1>0, <1>1, <1>2 DEF BTThreadOK, ErrorsOK, OneAsks, FlagsAreThisRequests, Asked
<1> QED BY <1>2, <1>4, <1>5, <1>6 DEF BluetoothInv

(* New clients, with whatever the static members hold. *)
LEMMA FreshInv ==
    ASSUME windows \in BOOLEAN, active \in BOOLEAN, requests \in 1 .. MaxRequests,
           channel \in [Phones -> Clients \cup {Nothing}],
           pairErrors \in [Phones -> [error : PhoneAnswers \cup {Nothing}, for : SUBSET Clients]],
           handler = Each("start"), pc = Each("idle"), running = Each(FALSE), stop = Each(FALSE),
           state = Each("UNKNOWN"), btPhase = Each("STARTING"), hasConn = Each(FALSE),
           retries = Each(0), result = Each(Nothing)
    PROVE  BluetoothInv
<1>1. BTTypeOK
  BY DEF BTTypeOK, Each, BTStates
<1>2. \A c \in Clients : /\ handler[c] = "start" /\ pc[c] = "idle" /\ state[c] = "UNKNOWN"
                         /\ hasConn[c] = FALSE /\ result[c] = Nothing
  BY DEF Each
<1>3. \A c \in Clients : BTThreadOK(c)
  BY <1>2 DEF BTThreadOK, Holding, PhoneAnswers
<1>4. FlagsOK /\ ErrorsOK
  BY <1>2 DEF FlagsOK, ErrorsOK
<1>5. OneAsks
  BY <1>2, ClientFacts DEF OneAsks
<1>6. FlagsAreThisRequests
  BY <1>2, BluetoothAssumption DEF FlagsAreThisRequests
<1> QED BY <1>1, <1>3, <1>4, <1>5, <1>6 DEF BluetoothInv

(* Another request: the channels, flags and errors stay as they are. *)
LEMMA NextRequestKeeps ==
    ASSUME BluetoothInv, NextRequest
    PROVE  BluetoothInv'
<1>0. BTTypeOK
  BY DEF BluetoothInv
<1>1. /\ UNCHANGED <<windows, channel, statics, pairErrors>>
      /\ requests' = requests + 1 /\ requests < MaxRequests /\ active' = TRUE
      /\ handler' = Each("start") /\ pc' = Each("idle") /\ running' = Each(FALSE) /\ stop' = Each(FALSE)
      /\ state' = Each("UNKNOWN") /\ btPhase' = Each("STARTING") /\ hasConn' = Each(FALSE)
      /\ retries' = Each(0) /\ result' = Each(Nothing)
  BY DEF NextRequest
<1>2. Clients' = Clients /\ \A p : ClientsOf(p)' = ClientsOf(p)
  BY <1>1, SameClients
<1>3. windows' \in BOOLEAN /\ requests' \in 1 .. MaxRequests
  BY <1>0, <1>1, BluetoothAssumption DEF BTTypeOK
<1>4. BTTypeOK'
  BY <1>0, <1>1, <1>2, <1>3 DEF BTTypeOK, Each, BTStates
<1>5. \A c \in Clients : /\ handler'[c] = "start" /\ pc'[c] = "idle" /\ state'[c] = "UNKNOWN"
                         /\ hasConn'[c] = FALSE /\ result'[c] = Nothing
  BY <1>1 DEF Each
<1>6. \A c \in Clients : BTThreadOK(c)'
  BY <1>5 DEF BTThreadOK, Holding, PhoneAnswers
<1>7. FlagsOK' /\ ErrorsOK'
  BY <1>2, <1>5 DEF FlagsOK, ErrorsOK
<1>8. OneAsks'
  BY <1>2, <1>5, ClientFacts DEF OneAsks
<1>9. FlagsAreThisRequests'
  BY <1>2, <1>5, BluetoothAssumption DEF FlagsAreThisRequests
<1> QED BY <1>2, <1>4, <1>6, <1>7, <1>8, <1>9 DEF BluetoothInv

(* Every step. *)
LEMMA BluetoothNextKeeps ==
    ASSUME BluetoothInv, [BTNext]_btVars
    PROVE  BluetoothInv'
<1>1. ASSUME NEW c \in Clients, BTConnectThread(c) \/ RunServer(c) \/ StopEarly(c)
      PROVE  BluetoothInv'
  BY <1>1, ConnectingKeeps, ConnectedKeeps, HoldingKeeps, CloseSocketKeeps, TakeKeeps, StartKeeps,
     StopKeeps, StopRunningKeeps, JoinedKeeps DEF BTConnectThread, RunServer
<1> QED BY <1>1, IdleKeeps, NextRequestKeeps DEF BTNext, BTOver

(* What each client's thread holds and may rely on, over all requests. *)
THEOREM BluetoothInvariant == BTSpec => []BluetoothInv
<1>1. BTInit => BluetoothInv
  <2> SUFFICES ASSUME BTInit PROVE BluetoothInv
    OBVIOUS
  <2>1. /\ windows \in BOOLEAN /\ active \in BOOLEAN /\ requests \in 1 .. MaxRequests
        /\ channel \in [Phones -> Clients \cup {Nothing}]
    BY BluetoothAssumption DEF BTInit
  <2>2. pairErrors \in [Phones -> [error : PhoneAnswers \cup {Nothing}, for : SUBSET Clients]]
    BY DEF BTInit, NoError
  <2> QED BY <2>1, <2>2, FreshInv DEF BTInit
<1>2. BluetoothInv /\ [BTNext]_btVars => BluetoothInv'
  BY BluetoothNextKeeps
<1> QED BY <1>1, <1>2, PTL DEF BTSpec

(* A request asks each phone at most once, although its two clients test    *)
(* and set their flags in separate steps (BTUnlockClient.cpp:313-332).      *)
THEOREM PhoneAskedOnce == BTSpec => []AskedOnce
<1>1. BluetoothInv => AskedOnce
  <2> SUFFICES ASSUME BluetoothInv, NEW p \in Phones
               PROVE  Cardinality({c \in ClientsOf(p) : hasConn[c]}) <= 1
    BY DEF AskedOnce, Asked
  <2> DEFINE A == {c \in ClientsOf(p) : hasConn[c]}
  <2>1. \A c, d \in A : c = d
    BY DEF BluetoothInv, OneAsks
  <2>2. CASE A = {}
    BY <2>2, FS_EmptySet
  <2>3. CASE A # {}
    <3>1. PICK c \in A : A = {c}
      BY <2>1, <2>3
    <3>2. Cardinality({c}) = 1
      BY FS_Singleton
    <3> QED BY <3>1, <3>2
  <2> QED BY <2>2, <2>3
<1> QED BY <1>1, BluetoothInvariant, PTL

(* The static flags and errors that a client goes by are of its own request *)
(* (BTUnlockClient.cpp:76-84, 149-164).                                     *)
THEOREM StaticsAreThisRequests == BTSpec => []FlagsAreThisRequests
<1>1. BluetoothInv => FlagsAreThisRequests
  BY DEF BluetoothInv
<1> QED BY <1>1, BluetoothInvariant, PTL

==============================================================================
