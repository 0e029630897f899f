-------------------------- MODULE UnlockConnection ---------------------------
(***************************************************************************)
(* BaseUnlockConnection (common/src/connection/unlock): the conversation   *)
(* with a phone that PerformAuthFlow holds over one stream, and the state  *)
(* that the streams of one connection object share.  A client has one      *)
(* stream and starts by sending the unlock request; the streams of a       *)
(* server each run in a thread of their own and wait for the phone to say  *)
(* which device it is.                                                     *)
(*                                                                         *)
(* Modules UnlockServer and UnlockClient add the threads that open the     *)
(* streams.  A step is what a thread does between two accesses to the      *)
(* shared state.                                                           *)
(***************************************************************************)
EXTENDS Naturals

CONSTANTS
  Streams,      \* the streams of the connection object
  Devices,      \* the device IDs that exist
  Allowed,      \* m_AllowedDevices
  Bodies,       \* the bodies of the unlock responses that phones send
  IOErrors,     \* the ways a read or a write fails while the connection runs
  MaxPackets,   \* how many packets a phone sends over one stream
  IsServer,     \* needsDeviceID
  None

(* What a response may hold: an error of the phone in plain text, or data   *)
(* that cannot be parsed, is too old, has no valid content, has the token   *)
(* of another request, or is the answer to this one.                        *)
ResponseError ==
  [CANCEL |-> "CANCELED", NOT_PAIRED |-> "NOT_PAIRED_ERROR",
   APP_ERROR |-> "APP_ERROR", TIME_ERROR |-> "TIME_ERROR",
   DATA_ERROR |-> "DATA_ERROR", PROTOCOL_ERROR |-> "PROTOCOL_ERROR",
   UNNAMED |-> "UNK_ERROR"]

ResponseBodies ==
  DOMAIN ResponseError \cup {"UNPARSABLE", "STALE", "BAD_DATA", "WRONG_TOKEN", "VALID"}

(* enum class PacketError, without NONE *)
PacketError ==
  {"UNKNOWN", "CLOSED_CONNECTION", "TIMEOUT", "UNSUPPORTED_VERSION", "PEER_UNAVAILABLE"}

(* The members of enum UnlockState that a connection object takes. *)
States ==
  {"UNKNOWN", "SUCCESS", "CANCELED", "TIMEOUT", "CONNECT_ERROR", "TIME_ERROR",
   "DATA_ERROR", "NOT_PAIRED_ERROR", "APP_ERROR", "PORT_ERROR", "PROTOCOL_ERROR",
   "CLOUD_PHONE_UNREACHABLE", "UNK_ERROR"}

(* A packet names the device it is from: the ID it holds, or the device     *)
(* whose key encrypts the response.                                         *)
Packets ==
  [id : {"DEVICE_ID"}, from : Devices, body : {"ID"}]
    \cup [id : {"UNLOCK_RESPONSE"}, from : Devices, body : Bodies]
    \cup [id : {"INVALID"}, from : Devices, body : {"ID"}]

(* A read that failed. *)
Failures == [id : {"ERROR"}, error : PacketError]

(* struct ConnectionInfo, with enum UnlockConnectionState *)
Infos == [state : {"NONE", "HAS_DEVICE_ID", "HAS_UNLOCK_REQUEST", "HAS_UNLOCK_RESPONSE"},
          device : Devices \cup {None}]

(* The device of a success and the answer that its data is from. *)
Winners == [device : Devices, answer : Packets]

ASSUME ConnectionAssumption ==
  /\ Allowed \subseteq Devices
  /\ IsServer \/ Allowed # {}
  /\ Bodies \subseteq ResponseBodies
  /\ IOErrors \subseteq PacketError
  /\ MaxPackets \in Nat
  /\ IsServer \in BOOLEAN
  /\ None \notin Devices \cup Streams \cup States
  /\ None \notin Packets \cup Failures \cup Infos \cup Winners

VARIABLES
  isRunning,    \* m_IsRunning
  phase,        \* m_Phase
  unlockState,  \* m_UnlockState
  winner,       \* m_PairedDevice and m_ResponseData, as SUCCESS leaves them
  info,         \* m_Connections: state and device of each stream, None without
  flow,         \* where PerformAuthFlow stands for each stream
  packet,       \* its local packet: a packet or an error, None for neither
  sent          \* how many packets each phone has sent

connVars == <<isRunning, phase, unlockState, winner, info, flow, packet, sent>>

(* The object after Start(), which sets m_IsRunning and the phase ph. *)
ConnInit(ph) ==
  /\ isRunning = TRUE
  /\ phase = ph
  /\ unlockState = "UNKNOWN"
  /\ winner = None
  /\ info = [c \in Streams |-> None]
  /\ flow = [c \in Streams |-> "off"]
  /\ packet = [c \in Streams |-> None]
  /\ sent = [c \in Streams |-> 0]

-----------------------------------------------------------------------------
(* Pure parts *)

MapPacketError(error, fallback) ==
  CASE error = "CLOSED_CONNECTION" -> "CONNECT_ERROR"
    [] error = "TIMEOUT" -> "TIMEOUT"
    [] error = "UNSUPPORTED_VERSION" -> "PROTOCOL_ERROR"
    [] error = "PEER_UNAVAILABLE" -> "CLOUD_PHONE_UNREACHABLE"
    [] OTHER -> fallback

Decrypts(p, device) == p.body # "UNPARSABLE" /\ p.from = device

(* The state a response stores whatever the state was, None if it does not. *)
StoredState(p, device) ==
  IF p.body \in DOMAIN ResponseError THEN ResponseError[p.body]
  ELSE IF Decrypts(p, device) /\ p.body = "STALE" THEN "TIME_ERROR"
  ELSE IF Decrypts(p, device) /\ p.body = "BAD_DATA" THEN "DATA_ERROR"
  ELSE None

(* Mutant: the token is not compared. *)
UnverifiedStateAnyToken(p, device) ==
  IF p.body \in DOMAIN ResponseError \/ Decrypts(p, device) THEN None ELSE "DATA_ERROR"

(* The state HandleUnverifiedError is called with for a response that       *)
(* cannot be shown to answer this request, None if it is not called.        *)
UnverifiedState(p, device) ==
  IF p.body \in DOMAIN ResponseError THEN None
  ELSE IF ~Decrypts(p, device) THEN "DATA_ERROR"
  ELSE IF p.body = "WRONG_TOKEN" THEN "UNK_ERROR"
  ELSE None

(* The device a client was built for, the only one it allows. *)
ClientDevice == CHOOSE d \in Allowed : TRUE

FindAllowedDevice(id) == IF id \in Allowed THEN id ELSE None

-----------------------------------------------------------------------------
(* m_StateMutex is held at label "locked" and inside the steps below. *)

StateMutexFree == \A c \in Streams : flow[c] # "locked"

Goto(c, l) == flow' = [flow EXCEPT ![c] = l]

(* PerformAuthFlow is called. *)
BeginFlow(c) ==
  /\ StateMutexFree
  /\ phase' = "PHONE_UNLOCKING"
  /\ info' = [info EXCEPT ![c] =
       IF IsServer THEN [state |-> "NONE", device |-> None]
                   ELSE [state |-> "HAS_DEVICE_ID", device |-> ClientDevice]]
  /\ Goto(c, IF IsServer THEN "read" ELSE "request")
  /\ UNCHANGED <<isRunning, unlockState, winner, packet, sent>>

(* Reads and writes fail when the connection was stopped, and may fail      *)
(* otherwise.                                                               *)
StreamErrors == IF isRunning THEN IOErrors ELSE {"CLOSED_CONNECTION"}

(* The client sends the unlock request. *)
SendRequest(c) ==
  /\ flow[c] = "request"
  /\ StateMutexFree
  /\ \/ /\ isRunning
        /\ info' = [info EXCEPT ![c].state = "HAS_UNLOCK_REQUEST"]
        /\ Goto(c, "read")
        /\ UNCHANGED unlockState
     \/ /\ \E e \in StreamErrors : unlockState' = MapPacketError(e, "UNK_ERROR")
        /\ Goto(c, "leave")
        /\ UNCHANGED info
  /\ UNCHANGED <<isRunning, phase, winner, packet, sent>>

(* Mutant: a stream that waits for data does not look at m_IsRunning. *)
ReadPacketBlind(c) ==
  /\ flow[c] = "read"
  /\ \/ /\ isRunning
        /\ sent[c] < MaxPackets
        /\ \E p \in Packets : packet' = [packet EXCEPT ![c] = p]
        /\ sent' = [sent EXCEPT ![c] = @ + 1]
        /\ Goto(c, "handle")
     \/ UNCHANGED <<flow, packet, sent>>
  /\ UNCHANGED <<isRunning, phase, unlockState, winner, info>>

(* ReadPacket: every read of the stream tests m_IsRunning first. *)
ReadPacket(c) ==
  /\ flow[c] = "read"
  /\ \/ /\ isRunning
        /\ sent[c] < MaxPackets
        /\ \E p \in Packets : packet' = [packet EXCEPT ![c] = p]
        /\ sent' = [sent EXCEPT ![c] = @ + 1]
        /\ Goto(c, "handle")
     \/ /\ \E e \in StreamErrors :
             packet' = [packet EXCEPT ![c] = [id |-> "ERROR", error |-> e]]
        /\ Goto(c, "leave")
        /\ UNCHANGED sent
  /\ UNCHANGED <<isRunning, phase, unlockState, winner, info>>

(* The packet is done with; the loop reads the next one, or ends. *)
Handled(c, l) ==
  /\ packet' = [packet EXCEPT ![c] = None]
  /\ Goto(c, l)
  /\ UNCHANGED <<isRunning, phase, sent>>

HandleUnverifiedError(c, s) ==
  IF IsServer
    THEN Handled(c, "leave") /\ UNCHANGED unlockState
    ELSE unlockState' = s /\ Handled(c, "read")

(* A packet that does not fit the state of the stream is skipped. *)
Unexpected(c) ==
  \/ packet[c].id = "DEVICE_ID" /\ info[c].state # "NONE"
  \/ packet[c].id = "UNLOCK_RESPONSE" /\ info[c].state # "HAS_UNLOCK_REQUEST"
  \/ packet[c].id = "INVALID"

SkipPacket(c) ==
  /\ flow[c] = "handle"
  /\ StateMutexFree
  /\ Unexpected(c)
  /\ Handled(c, "read")
  /\ UNCHANGED <<unlockState, winner, info>>

(* The phone names its device; the server answers with the unlock request.  *)
OnDeviceId(c) ==
  LET device == FindAllowedDevice(packet[c].from)
  IN  /\ flow[c] = "handle"
      /\ StateMutexFree
      /\ ~Unexpected(c)
      /\ packet[c].id = "DEVICE_ID"
      /\ \/ /\ device # None /\ isRunning
            /\ info' = [info EXCEPT ![c] = [state |-> "HAS_UNLOCK_REQUEST", device |-> device]]
            /\ Handled(c, "read")
            /\ UNCHANGED unlockState
         \/ /\ device = None
            /\ HandleUnverifiedError(c, "DATA_ERROR")
            /\ UNCHANGED info
         \/ /\ device # None
            /\ \E e \in StreamErrors :
                 HandleUnverifiedError(c, MapPacketError(e, "UNK_ERROR"))
            /\ UNCHANGED info
      /\ UNCHANGED winner

IsResponse(c) ==
  /\ flow[c] = "handle"
  /\ ~Unexpected(c)
  /\ packet[c].id = "UNLOCK_RESPONSE"

(* OnResponseReceived, for a response that is no valid answer. *)
OnErrorResponse(c) ==
  /\ IsResponse(c)
  /\ \/ /\ StoredState(packet[c], info[c].device) # None
        /\ unlockState' = StoredState(packet[c], info[c].device)
        /\ Handled(c, "read")
     \/ /\ UnverifiedState(packet[c], info[c].device) # None
        /\ HandleUnverifiedError(c, UnverifiedState(packet[c], info[c].device))
  /\ UNCHANGED <<winner, info>>

IsAnswer(c) ==
  /\ StoredState(packet[c], info[c].device) = None
  /\ UnverifiedState(packet[c], info[c].device) = None

(* Mutant: the state is not tested under the lock. *)
LockForAnswerAlways(c) ==
  /\ IsResponse(c) /\ IsAnswer(c)
  /\ StateMutexFree
  /\ Goto(c, "locked")
  /\ UNCHANGED <<isRunning, phase, unlockState, winner, info, packet, sent>>

(* A valid answer takes the lock and is dropped if there is a state already. *)
LockForAnswer(c) ==
  /\ IsResponse(c) /\ IsAnswer(c)
  /\ StateMutexFree
  /\ IF unlockState = "UNKNOWN"
       THEN /\ Goto(c, "locked")
            /\ UNCHANGED <<isRunning, phase, packet, sent>>
       ELSE Handled(c, "read")
  /\ UNCHANGED <<unlockState, winner, info>>

AcceptAnswer(c) ==
  /\ flow[c] = "locked"
  /\ winner' = [device |-> info[c].device, answer |-> packet[c]]
  /\ unlockState' = "SUCCESS"
  /\ info' = [info EXCEPT ![c].state = "HAS_UNLOCK_RESPONSE"]
  /\ Handled(c, "read")

(* Mutant: the error of the stream replaces any state. *)
LeaveFlowOverwrites(c) ==
  /\ flow[c] = "leave"
  /\ StateMutexFree
  /\ info' = [info EXCEPT ![c] = None]
  /\ unlockState' = IF packet[c] = None \/ IsServer
                      THEN unlockState
                      ELSE MapPacketError(packet[c].error, "DATA_ERROR")
  /\ packet' = [packet EXCEPT ![c] = None]
  /\ Goto(c, "returned")
  /\ UNCHANGED <<isRunning, phase, winner, sent>>

(* PerformAuthFlow returns.  A client that has no state takes the error of  *)
(* its stream.                                                              *)
LeaveFlow(c) ==
  /\ flow[c] = "leave"
  /\ StateMutexFree
  /\ info' = [info EXCEPT ![c] = None]
  /\ unlockState' = IF packet[c] = None \/ unlockState # "UNKNOWN" \/ IsServer
                      THEN unlockState
                      ELSE MapPacketError(packet[c].error, "DATA_ERROR")
  /\ packet' = [packet EXCEPT ![c] = None]
  /\ Goto(c, "returned")
  /\ UNCHANGED <<isRunning, phase, winner, sent>>

(* Building the request throws, for a user name that JSON cannot hold: the  *)
(* thread of the stream catches it and the entry of m_Connections stays.    *)
FlowThrows(c) ==
  /\ StateMutexFree
  /\ \/ flow[c] = "request"
     \/ /\ flow[c] = "handle" /\ ~Unexpected(c)
        /\ packet[c].id = "DEVICE_ID" /\ FindAllowedDevice(packet[c].from) # None
  /\ unlockState' = "UNK_ERROR"
  /\ packet' = [packet EXCEPT ![c] = None]
  /\ Goto(c, "returned")
  /\ UNCHANGED <<isRunning, phase, winner, info, sent>>

(* The steps of PerformAuthFlow after its first. *)
FlowStep(c) ==
  \/ FlowThrows(c) \/ SendRequest(c) \/ ReadPacket(c) \/ SkipPacket(c) \/ OnDeviceId(c)
  \/ OnErrorResponse(c) \/ LockForAnswer(c) \/ AcceptAnswer(c) \/ LeaveFlow(c)

-----------------------------------------------------------------------------
(* The states a connection object can be in. *)

Labels == {"off", "request", "read", "handle", "locked", "leave", "returned"}

ConnTypeOK ==
  /\ isRunning \in BOOLEAN
  /\ phase \in {"CLIENT_CONNECTING", "SERVER_WAITING", "PHONE_UNLOCKING"}
  /\ unlockState \in States
  /\ winner \in Winners \cup {None}
  /\ info \in [Streams -> Infos \cup {None}]
  /\ flow \in [Streams -> Labels]
  /\ packet \in [Streams -> Packets \cup Failures \cup {None}]
  /\ sent \in [Streams -> 0 .. MaxPackets]

(* A stream that handles a packet has one and is registered; its device is  *)
(* an allowed one from the moment the request was sent.                     *)
StreamOK(l, i, p) ==
  /\ l \in {"request", "read", "handle", "locked"} => i # None
  /\ l = "request" => i.state # "NONE"
  /\ l \in {"off", "request"} => p = None
  /\ l = "leave" => p \in Failures \cup {None}
  /\ l \in {"handle", "locked"} => p \in Packets
  /\ i # None =>
       /\ i.device \in Allowed \cup {None}
       /\ i.state # "NONE" => i.device \in Allowed

StreamInv == \A c \in Streams : StreamOK(flow[c], info[c], packet[c])

(* p is the answer of device to this request. *)
Answers(p, device) ==
  p.id = "UNLOCK_RESPONSE" /\ p.from = device /\ p.body = "VALID"

(* One stream at most is about to store a success; it holds a valid answer, *)
(* and nobody has stored one before.                                        *)
LockInv ==
  \A c \in Streams : flow[c] = "locked" =>
    /\ \A d \in Streams : flow[d] = "locked" => d = c
    /\ winner = None
    /\ info[c].device \in Allowed
    /\ Answers(packet[c], info[c].device)

WinnerInv ==
  /\ unlockState = "SUCCESS" => winner # None
  /\ winner # None =>
       /\ unlockState # "UNKNOWN"
       /\ winner.device \in Allowed
       /\ Answers(winner.answer, winner.device)

AnswerInv == StreamInv /\ LockInv /\ WinnerInv

=============================================================================
