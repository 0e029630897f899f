-------------------------- MODULE UnlockServerProofs --------------------------
(***************************************************************************)
(* UnlockServer, for any number of connections, of devices and of packets: *)
(* a success is backed by a verified answer, the winner is never replaced, *)
(* a peer that names no allowed device cannot end the request, and no      *)
(* thread outlives the server.  The first part is about PerformAuthFlow    *)
(* alone: its steps keep the types and AnswerInv.                          *)
(***************************************************************************)
EXTENDS UnlockServer, FiniteSetTheorems, TLAPS

-----------------------------------------------------------------------------
(* PerformAuthFlow *)

(* What MapPacketError and OnResponseReceived store are states. *)
LEMMA StatesStored ==
  /\ {"UNKNOWN", "SUCCESS", "UNK_ERROR", "DATA_ERROR", "TIME_ERROR", "PORT_ERROR",
      "TIMEOUT", "CANCELED"} \subseteq States
  /\ \A e \in PacketError, f \in {"UNK_ERROR", "DATA_ERROR"} :
       /\ MapPacketError(e, f) \in States
       /\ MapPacketError(e, f) \notin {"UNKNOWN", "SUCCESS"}
  /\ \A b \in DOMAIN ResponseError :
       ResponseError[b] \in States \ {"UNKNOWN", "SUCCESS"}
<1>1. \A e \in PacketError, f \in {"UNK_ERROR", "DATA_ERROR"} :
        MapPacketError(e, f) \in {"CONNECT_ERROR", "TIMEOUT", "PROTOCOL_ERROR",
                                  "CLOUD_PHONE_UNREACHABLE", "UNK_ERROR", "DATA_ERROR"}
  BY DEF PacketError, MapPacketError
<1>2. \A b \in DOMAIN ResponseError :
        ResponseError[b] \in {"CANCELED", "NOT_PAIRED_ERROR", "APP_ERROR", "TIME_ERROR",
                              "DATA_ERROR", "PROTOCOL_ERROR", "UNK_ERROR"}
  BY DEF ResponseError
<1> QED BY <1>1, <1>2 DEF States

(* A response gets one of the three treatments. *)
LEMMA ResponseTreated ==
  ASSUME NEW p \in Packets, p.id = "UNLOCK_RESPONSE", NEW d \in Devices
  PROVE  /\ StoredState(p, d) # None => StoredState(p, d) \in States \ {"UNKNOWN", "SUCCESS"}
         /\ UnverifiedState(p, d) # None =>
              UnverifiedState(p, d) \in States \ {"UNKNOWN", "SUCCESS"}
         /\ StoredState(p, d) = None /\ UnverifiedState(p, d) = None => Answers(p, d)
<1>1. /\ "TIME_ERROR" \in States \ {"UNKNOWN", "SUCCESS"}
      /\ "DATA_ERROR" \in States \ {"UNKNOWN", "SUCCESS"}
      /\ "UNK_ERROR" \in States \ {"UNKNOWN", "SUCCESS"}
      /\ None \notin States
  BY ConnectionAssumption DEF States
<1>2. p.body \in ResponseBodies
  BY ConnectionAssumption DEF Packets
<1>3. p.body \in DOMAIN ResponseError =>
        /\ StoredState(p, d) = ResponseError[p.body]
        /\ UnverifiedState(p, d) = None
  BY DEF StoredState, UnverifiedState
<1>4. p.body \notin DOMAIN ResponseError /\ ~Decrypts(p, d) =>
        StoredState(p, d) = None /\ UnverifiedState(p, d) = "DATA_ERROR"
  BY DEF StoredState, UnverifiedState
<1>5. p.body \notin DOMAIN ResponseError /\ Decrypts(p, d) =>
        /\ p.body = "STALE" => StoredState(p, d) = "TIME_ERROR" /\ UnverifiedState(p, d) = None
        /\ p.body = "BAD_DATA" => StoredState(p, d) = "DATA_ERROR" /\ UnverifiedState(p, d) = None
        /\ p.body = "WRONG_TOKEN" => StoredState(p, d) = None /\ UnverifiedState(p, d) = "UNK_ERROR"
        /\ p.body = "VALID" => StoredState(p, d) = None /\ UnverifiedState(p, d) = None
  BY DEF StoredState, UnverifiedState
<1>6. Decrypts(p, d) => p.body # "UNPARSABLE" /\ p.from = d
  BY DEF Decrypts
<1> HIDE DEF StoredState, UnverifiedState, Decrypts, States
<1> QED BY <1>1, <1>2, <1>3, <1>4, <1>5, <1>6, StatesStored DEF ResponseBodies, Answers

(* A step outside PerformAuthFlow keeps the invariant. *)
LEMMA OutsideStep ==
  ASSUME ConnTypeOK, AnswerInv,
         UNCHANGED <<winner, info, flow, packet, sent>>,
         isRunning' \in BOOLEAN,
         phase' \in {"CLIENT_CONNECTING", "SERVER_WAITING", "PHONE_UNLOCKING"},
         \/ unlockState' = unlockState
         \/ unlockState' \in States \ {"UNKNOWN", "SUCCESS"}
  PROVE  ConnTypeOK' /\ AnswerInv'
<1>1. ConnTypeOK'
  BY DEF ConnTypeOK
<1>2. StreamInv' /\ LockInv'
  BY DEF AnswerInv, StreamInv, StreamOK, LockInv, Answers
<1>3. WinnerInv'
  BY DEF AnswerInv, WinnerInv, Answers
<1> QED BY <1>1, <1>2, <1>3 DEF AnswerInv

(* Stream c goes to l with the entry i and the packet p; it takes no lock   *)
(* and stores no success.                                                   *)
Plainly(c, l, i, p) ==
  /\ l \in Labels \ {"locked"} /\ flow[c] # "locked"
  /\ i \in Infos \cup {None}
  /\ p \in Packets \cup Failures \cup {None}
  /\ StreamOK(l, i, p)
  /\ flow' = [flow EXCEPT ![c] = l]
  /\ info' = [info EXCEPT ![c] = i]
  /\ packet' = [packet EXCEPT ![c] = p]
  /\ \/ unlockState' = unlockState
     \/ unlockState' \in States \ {"UNKNOWN", "SUCCESS"}
  /\ winner' = winner
  /\ isRunning' \in BOOLEAN
  /\ phase' \in {"CLIENT_CONNECTING", "SERVER_WAITING", "PHONE_UNLOCKING"}
  /\ sent' \in [Streams -> 0 .. MaxPackets]

(* Such a step keeps the invariant. *)
LEMMA PlainStep ==
  ASSUME ConnTypeOK, AnswerInv, NEW c \in Streams, NEW l, NEW i, NEW p, Plainly(c, l, i, p)
  PROVE  /\ ConnTypeOK' /\ AnswerInv'
         /\ winner' = winner
         /\ flow'[c] = l /\ \A d \in Streams \ {c} : flow'[d] = flow[d]
<1> USE DEF Plainly
<1>1. /\ flow'[c] = l /\ info'[c] = i /\ packet'[c] = p
      /\ \A d \in Streams \ {c} :
           flow'[d] = flow[d] /\ info'[d] = info[d] /\ packet'[d] = packet[d]
  BY DEF ConnTypeOK
<1>2. ConnTypeOK'
  BY DEF ConnTypeOK
<1>3. StreamInv'
  <2> SUFFICES ASSUME NEW d \in Streams
               PROVE  StreamOK(flow'[d], info'[d], packet'[d])
    BY DEF StreamInv, StreamOK
  <2>1. CASE d = c
    BY <2>1, <1>1 DEF StreamOK
  <2>2. CASE d # c
    BY <2>2, <1>1 DEF AnswerInv, StreamInv, StreamOK
  <2> QED BY <2>1, <2>2
<1>4. LockInv'
  BY <1>1 DEF AnswerInv, LockInv, Answers
<1>5. WinnerInv'
  BY DEF AnswerInv, WinnerInv, Answers
<1> QED BY <1>1, <1>2, <1>3, <1>4, <1>5 DEF AnswerInv

(* A call of PerformAuthFlow keeps the invariant. *)
LEMMA BeginFlowKeeps ==
  ASSUME ConnTypeOK, AnswerInv, NEW c \in Streams, flow[c] = "off", BeginFlow(c)
  PROVE  /\ ConnTypeOK' /\ AnswerInv'
         /\ winner' = winner
         /\ \A d \in Streams \ {c} : flow'[d] = flow[d]
         /\ flow'[c] \notin {"off", "returned"}
<1> DEFINE i == IF IsServer THEN [state |-> "NONE", device |-> None]
                            ELSE [state |-> "HAS_DEVICE_ID", device |-> ClientDevice]
           l == IF IsServer THEN "read" ELSE "request"
<1>1. ~IsServer => ClientDevice \in Allowed
  BY ConnectionAssumption DEF ClientDevice
<1>2. i \in Infos /\ l \in Labels \ {"locked"}
  BY <1>1, ConnectionAssumption DEF Infos, Labels
<1>3. packet[c] = None
  BY DEF AnswerInv, StreamInv, StreamOK
<1>4. StreamOK(l, i, None)
  BY <1>1, <1>2, ConnectionAssumption DEF StreamOK
<1>5. Plainly(c, l, i, None)
  BY <1>2, <1>3, <1>4 DEF Plainly, BeginFlow, Goto, ConnTypeOK
<1> HIDE DEF i
<1> QED BY <1>5, PlainStep

(* Every later step of PerformAuthFlow keeps the invariant, and the winner, *)
(* if there is one.                                                         *)
LEMMA FlowStepKeeps ==
  ASSUME ConnTypeOK, AnswerInv, NEW c \in Streams, FlowStep(c)
  PROVE  /\ ConnTypeOK' /\ AnswerInv'
         /\ winner # None => winner' = winner
         /\ \A d \in Streams \ {c} : flow'[d] = flow[d]
         /\ flow[c] \notin {"off", "returned"} /\ flow'[c] # "off"
<1> DEFINE Errors == States \ {"UNKNOWN", "SUCCESS"}
<1>0. /\ info[c] \in Infos \cup {None} /\ packet[c] \in Packets \cup Failures \cup {None}
      /\ flow[c] \in Labels /\ StreamOK(flow[c], info[c], packet[c])
      /\ info = [info EXCEPT ![c] = info[c]] /\ packet = [packet EXCEPT ![c] = packet[c]]
      /\ isRunning \in BOOLEAN
      /\ phase \in {"CLIENT_CONNECTING", "SERVER_WAITING", "PHONE_UNLOCKING"}
      /\ sent \in [Streams -> 0 .. MaxPackets]
  BY DEF ConnTypeOK, AnswerInv, StreamInv
<1>1. \A e \in StreamErrors, f \in {"UNK_ERROR", "DATA_ERROR"} : MapPacketError(e, f) \in Errors
  BY StatesStored, ConnectionAssumption DEF StreamErrors, PacketError
<1>2. "UNK_ERROR" \in Errors /\ "DATA_ERROR" \in Errors
  BY DEF States
<1> HIDE DEF Errors
<1>3. ASSUME NEW l \in Labels \ {"off"}, NEW i, NEW p, Plainly(c, l, i, p),
             flow[c] \notin {"off", "returned"}
      PROVE  /\ ConnTypeOK' /\ AnswerInv'
             /\ winner # None => winner' = winner
             /\ \A d \in Streams \ {c} : flow'[d] = flow[d]
             /\ flow[c] \notin {"off", "returned"} /\ flow'[c] # "off"
  BY <1>3, PlainStep
<1>4. CASE FlowThrows(c)
  <2>1. StreamOK("returned", info[c], None) /\ flow[c] \in {"request", "handle"}
    BY <1>0, <1>4 DEF FlowThrows, StreamOK
  <2>2. Plainly(c, "returned", info[c], None)
    BY <1>0, <1>2, <1>4, <2>1 DEF FlowThrows, Goto, Plainly, Labels, Errors
  <2> QED BY <1>3, <2>1, <2>2 DEF Labels
<1>5. CASE SendRequest(c)
  <2>1. /\ flow[c] = "request" /\ info[c] \in Infos /\ info[c].device \in Allowed
        /\ packet[c] = None
        /\ UNCHANGED <<isRunning, phase, winner, packet, sent>>
    BY <1>0, <1>5 DEF SendRequest, StreamOK
  <2>2. CASE /\ info' = [info EXCEPT ![c].state = "HAS_UNLOCK_REQUEST"]
             /\ Goto(c, "read") /\ UNCHANGED unlockState
    <3> DEFINE i == [info[c] EXCEPT !.state = "HAS_UNLOCK_REQUEST"]
    <3>1. /\ i \in Infos /\ i.device \in Allowed
          /\ info' = [info EXCEPT ![c] = i]
      BY <2>1, <2>2 DEF Infos, ConnTypeOK
    <3>2. StreamOK("read", i, None)
      BY <3>1, ConnectionAssumption DEF StreamOK
    <3> HIDE DEF i
    <3>3. Plainly(c, "read", i, None)
      BY <1>0, <2>1, <2>2, <3>1, <3>2 DEF Plainly, Goto, Labels
    <3> QED BY <1>3, <2>1, <3>3 DEF Labels
  <2>3. CASE /\ \E e \in StreamErrors : unlockState' = MapPacketError(e, "UNK_ERROR")
             /\ Goto(c, "leave") /\ UNCHANGED info
    <3>1. unlockState' \in Errors /\ StreamOK("leave", info[c], None)
      BY <1>0, <1>1, <2>1, <2>3 DEF StreamOK
    <3>2. Plainly(c, "leave", info[c], None)
      BY <1>0, <2>1, <2>3, <3>1 DEF Plainly, Goto, Labels, Errors
    <3> QED BY <1>3, <2>1, <3>2 DEF Labels
  <2> QED BY <1>5, <2>2, <2>3 DEF SendRequest
<1>6. CASE ReadPacket(c)
  <2>1. /\ flow[c] = "read" /\ UNCHANGED <<isRunning, phase, unlockState, winner, info>>
        /\ sent' \in [Streams -> 0 .. MaxPackets]
    BY <1>0, <1>6, ConnectionAssumption DEF ReadPacket
  <2>2. CASE Goto(c, "handle") /\ \E p \in Packets : packet' = [packet EXCEPT ![c] = p]
    <3>1. PICK p \in Packets : packet' = [packet EXCEPT ![c] = p]
      BY <2>2
    <3>2. StreamOK("handle", info[c], p)
      BY <1>0, <2>1 DEF StreamOK
    <3>3. Plainly(c, "handle", info[c], p)
      BY <1>0, <2>1, <2>2, <3>1, <3>2 DEF Plainly, Goto, Labels
    <3> QED BY <1>3, <2>1, <3>3 DEF Labels
  <2>3. CASE /\ Goto(c, "leave")
             /\ \E e \in StreamErrors :
                  packet' = [packet EXCEPT ![c] = [id |-> "ERROR", error |-> e]]
    <3>1. PICK p \in Failures : packet' = [packet EXCEPT ![c] = p]
      BY <2>3, ConnectionAssumption DEF StreamErrors, Failures, PacketError
    <3>2. StreamOK("leave", info[c], p)
      BY <1>0, <2>1 DEF StreamOK
    <3>3. Plainly(c, "leave", info[c], p)
      BY <1>0, <2>1, <2>3, <3>1, <3>2 DEF Plainly, Goto, Labels
    <3> QED BY <1>3, <2>1, <3>3 DEF Labels
  <2> QED BY <1>6, <2>2, <2>3 DEF ReadPacket
<1>7. CASE SkipPacket(c)
  <2>1. flow[c] = "handle" /\ StreamOK("read", info[c], None)
    BY <1>0, <1>7 DEF SkipPacket, StreamOK
  <2>2. Plainly(c, "read", info[c], None)
    BY <1>0, <1>7, <2>1 DEF SkipPacket, Handled, Goto, Plainly, Labels
  <2> QED BY <1>3, <2>1, <2>2 DEF Labels
<1>8. ASSUME flow[c] = "handle", NEW s \in Errors, HandleUnverifiedError(c, s),
             UNCHANGED <<winner, info>>
      PROVE  Plainly(c, "read", info[c], None) \/ Plainly(c, "leave", info[c], None)
  <2>1. StreamOK("read", info[c], None) /\ StreamOK("leave", info[c], None)
    BY <1>0, <1>8 DEF StreamOK
  <2> QED BY <1>0, <1>8, <2>1 DEF HandleUnverifiedError, Handled, Goto, Plainly, Labels, Errors
<1>9. CASE OnDeviceId(c)
  <2>1. flow[c] = "handle" /\ UNCHANGED winner
    BY <1>9 DEF OnDeviceId
  <2>2. CASE /\ FindAllowedDevice(packet[c].from) # None /\ UNCHANGED unlockState
             /\ info' = [info EXCEPT ![c] = [state |-> "HAS_UNLOCK_REQUEST",
                                            device |-> FindAllowedDevice(packet[c].from)]]
             /\ Handled(c, "read")
    <3> DEFINE i == [state |-> "HAS_UNLOCK_REQUEST", device |-> FindAllowedDevice(packet[c].from)]
    <3>1. i \in Infos /\ i.device \in Allowed
      BY <2>2, ConnectionAssumption DEF Infos, FindAllowedDevice
    <3>2. StreamOK("read", i, None)
      BY <3>1, ConnectionAssumption DEF StreamOK
    <3>3. info' = [info EXCEPT ![c] = i]
      BY <2>2
    <3> HIDE DEF i
    <3>4. Plainly(c, "read", i, None)
      BY <1>0, <2>1, <2>2, <3>1, <3>2, <3>3 DEF Handled, Goto, Plainly, Labels
    <3> QED BY <1>3, <2>1, <3>4 DEF Labels
  <2>3. CASE UNCHANGED info /\ \E s \in Errors : HandleUnverifiedError(c, s)
    <3>1. Plainly(c, "read", info[c], None) \/ Plainly(c, "leave", info[c], None)
      BY <1>8, <2>1, <2>3
    <3> QED BY <1>3, <2>1, <3>1 DEF Labels
  <2> QED BY <1>1, <1>2, <1>9, <2>2, <2>3 DEF OnDeviceId
<1>10. ASSUME IsResponse(c)
       PROVE  /\ flow[c] = "handle" /\ packet[c] \in Packets /\ info[c] \in Infos
              /\ packet[c].id = "UNLOCK_RESPONSE"
              /\ info[c].device \in Allowed /\ info[c].device \in Devices
              /\ StreamOK("read", info[c], None)
  BY <1>0, <1>10, ConnectionAssumption DEF IsResponse, Unexpected, StreamOK
<1>11. CASE OnErrorResponse(c)
  <2>1. IsResponse(c) /\ flow[c] = "handle" /\ UNCHANGED <<winner, info>>
    BY <1>10, <1>11 DEF OnErrorResponse
  <2>2. CASE /\ StoredState(packet[c], info[c].device) # None
             /\ unlockState' = StoredState(packet[c], info[c].device)
             /\ Handled(c, "read")
    <3>1. unlockState' \in Errors
      BY <1>10, <2>1, <2>2, ResponseTreated DEF Errors
    <3>2. Plainly(c, "read", info[c], None)
      BY <1>0, <1>10, <2>1, <2>2, <3>1 DEF Handled, Goto, Plainly, Labels, Errors
    <3> QED BY <1>3, <2>1, <3>2 DEF Labels
  <2>3. CASE /\ UnverifiedState(packet[c], info[c].device) # None
             /\ HandleUnverifiedError(c, UnverifiedState(packet[c], info[c].device))
    <3>1. UnverifiedState(packet[c], info[c].device) \in Errors
      BY <1>10, <2>1, <2>3, ResponseTreated DEF Errors
    <3>2. Plainly(c, "read", info[c], None) \/ Plainly(c, "leave", info[c], None)
      BY <1>8, <2>1, <2>3, <3>1
    <3> QED BY <1>3, <2>1, <3>2 DEF Labels
  <2> QED BY <1>11, <2>2, <2>3 DEF OnErrorResponse
<1>12. CASE LockForAnswer(c) /\ unlockState # "UNKNOWN"
  <2>1. IsResponse(c) /\ flow[c] = "handle"
    BY <1>10, <1>12 DEF LockForAnswer
  <2>2. Plainly(c, "read", info[c], None)
    BY <1>0, <1>10, <1>12, <2>1 DEF LockForAnswer, Handled, Goto, Plainly, Labels
  <2> QED BY <1>3, <2>1, <2>2 DEF Labels
<1>13. CASE LockForAnswer(c) /\ unlockState = "UNKNOWN"
  <2>1. /\ IsResponse(c) /\ StateMutexFree
        /\ UNCHANGED <<isRunning, phase, unlockState, winner, info, packet, sent>>
        /\ flow' = [flow EXCEPT ![c] = "locked"]
    BY <1>13 DEF LockForAnswer, Goto
  <2>2. Answers(packet[c], info[c].device)
    BY <1>10, <1>13, <2>1, ResponseTreated DEF LockForAnswer, IsAnswer
  <2>3. winner = None
    BY <1>13 DEF AnswerInv, WinnerInv
  <2>4. ConnTypeOK'
    BY <2>1 DEF ConnTypeOK, Labels
  <2>5. \A d \in Streams : flow'[d] = IF d = c THEN "locked" ELSE flow[d]
    BY <2>1 DEF ConnTypeOK
  <2>6. StreamInv'
    BY <1>10, <2>1, <2>5 DEF AnswerInv, StreamInv, StreamOK
  <2>7. LockInv'
    BY <1>10, <2>1, <2>2, <2>3, <2>5 DEF LockInv, StateMutexFree, Answers
  <2>8. WinnerInv'
    BY <2>1 DEF AnswerInv, WinnerInv, Answers
  <2> QED BY <1>10, <2>1, <2>3, <2>4, <2>5, <2>6, <2>7, <2>8 DEF AnswerInv
<1>14. CASE AcceptAnswer(c)
  <2> DEFINE w == [device |-> info[c].device, answer |-> packet[c]]
             i == [info[c] EXCEPT !.state = "HAS_UNLOCK_RESPONSE"]
  <2>1. /\ flow[c] = "locked" /\ winner = None /\ info[c] \in Infos
        /\ packet[c] \in Packets /\ info[c].device \in Allowed
        /\ Answers(packet[c], info[c].device)
        /\ \A d \in Streams \ {c} : flow[d] # "locked"
    BY <1>0, <1>14 DEF AcceptAnswer, AnswerInv, LockInv, StreamOK
  <2>2. /\ i \in Infos /\ i # None /\ i.device \in Allowed /\ w \in Winners /\ w # None
        /\ w.device \in Allowed /\ Answers(w.answer, w.device)
    BY <2>1, ConnectionAssumption DEF Infos, Winners
  <2>3. winner' = w /\ unlockState' = "SUCCESS" /\ UNCHANGED <<isRunning, phase, sent>>
    BY <1>14 DEF AcceptAnswer, Handled
  <2>4. /\ flow' = [flow EXCEPT ![c] = "read"] /\ packet' = [packet EXCEPT ![c] = None]
        /\ info' = [info EXCEPT ![c] = i]
    BY <1>14, <2>1 DEF AcceptAnswer, Handled, Goto, ConnTypeOK, Infos
  <2> HIDE DEF w, i
  <2>5. /\ flow'[c] = "read" /\ info'[c] = i /\ packet'[c] = None
        /\ \A d \in Streams \ {c} :
             flow'[d] = flow[d] /\ info'[d] = info[d] /\ packet'[d] = packet[d]
    BY <2>4 DEF ConnTypeOK
  <2>6. ConnTypeOK'
    BY <2>2, <2>3, <2>4 DEF ConnTypeOK, Labels, States
  <2>7. StreamInv'
    <3> SUFFICES ASSUME NEW d \in Streams
                 PROVE  StreamOK(flow'[d], info'[d], packet'[d])
      BY DEF StreamInv, StreamOK
    <3>1. CASE d = c
      BY <3>1, <2>2, <2>5 DEF StreamOK
    <3>2. CASE d # c
      BY <3>2, <2>5 DEF AnswerInv, StreamInv, StreamOK
    <3> QED BY <3>1, <3>2
  <2>8. LockInv'
    BY <2>1, <2>5 DEF LockInv
  <2>9. WinnerInv'
    BY <2>2, <2>3 DEF WinnerInv, Answers
  <2> QED BY <2>1, <2>5, <2>6, <2>7, <2>8, <2>9 DEF AnswerInv
<1>15. CASE LeaveFlow(c)
  <2>1. flow[c] = "leave" /\ packet[c] \in Failures \cup {None}
    BY <1>0, <1>15 DEF LeaveFlow, StreamOK
  <2>2. StreamOK("returned", None, None)
    BY DEF StreamOK
  <2>3. packet[c] # None => MapPacketError(packet[c].error, "DATA_ERROR") \in Errors
    BY <2>1, StatesStored DEF Failures, Errors
  <2>4. Plainly(c, "returned", None, None)
    BY <1>0, <1>15, <2>1, <2>2, <2>3 DEF LeaveFlow, Goto, Plainly, Labels, Errors
  <2> QED BY <1>3, <2>1, <2>4 DEF Labels
<1> QED
  BY <1>4, <1>5, <1>6, <1>7, <1>9, <1>11, <1>12, <1>13, <1>14, <1>15 DEF FlowStep

-----------------------------------------------------------------------------
(* The server *)

(* A thread comes in, goes out or does neither: the count follows it. *)
LEMMA CountFollows ==
  ASSUME TypeOK, CountInv, NEW c \in Streams, NEW l,
         thread' = [thread EXCEPT ![c] = l]
  PROVE  /\ thread[c] \notin {"opening", "flow"} /\ l \in {"opening", "flow"}
              /\ numConnections' = numConnections + 1 => CountInv'
         /\ thread[c] \in {"opening", "flow"} /\ l \notin {"opening", "flow"} =>
              /\ numConnections > 0
              /\ numConnections' = numConnections - 1 => CountInv'
         /\ (thread[c] \in {"opening", "flow"} <=> l \in {"opening", "flow"})
              /\ numConnections' = numConnections => CountInv'
<1> DEFINE Inside == {d \in Streams : thread[d] \in {"opening", "flow"}}
           After == {d \in Streams : thread'[d] \in {"opening", "flow"}}
<1>1. IsFiniteSet(Inside)
  BY ServerAssumption, FS_Subset
<1>2. \A d \in Streams : thread'[d] = IF d = c THEN l ELSE thread[d]
  BY DEF TypeOK
<1>3. numConnections = Cardinality(Inside)
  BY DEF CountInv
<1>4. CountInv' <=> numConnections' = Cardinality(After)
  BY DEF CountInv
<1>5. Cardinality(Inside) \in Nat
  BY <1>1, FS_CardinalityType
<1>6. CASE thread[c] \notin {"opening", "flow"} /\ l \in {"opening", "flow"}
  <2>1. After = Inside \cup {c} /\ c \notin Inside
    BY <1>2, <1>6
  <2>2. Cardinality(After) = Cardinality(Inside) + 1
    BY <1>1, <2>1, FS_AddElement
  <2> QED BY <1>3, <1>4, <1>6, <2>2
<1>7. CASE thread[c] \in {"opening", "flow"} /\ l \notin {"opening", "flow"}
  <2>1. After = Inside \ {c} /\ c \in Inside
    BY <1>2, <1>7
  <2>2. Cardinality(After) = Cardinality(Inside) - 1
    BY <1>1, <2>1, FS_RemoveElement
  <2>3. Cardinality(After) \in Nat
    BY <1>1, <2>1, FS_RemoveElement, FS_CardinalityType
  <2> QED BY <1>3, <1>4, <1>5, <1>7, <2>2, <2>3
<1>8. CASE thread[c] \in {"opening", "flow"} <=> l \in {"opening", "flow"}
  <2>1. After = Inside
    BY <1>2, <1>8
  <2> QED BY <1>3, <1>4, <1>8, <2>1
<1> QED BY <1>6, <1>7, <1>8

(* ServerInv holds initially. *)
LEMMA InitInv == Init => ServerInv
<1> SUFFICES ASSUME Init PROVE ServerInv
  OBVIOUS
<1>1. TypeOK
  BY ConnectionAssumption DEF Init, ConnInit, TypeOK, ConnTypeOK, States, Labels
<1>2. ThreadInv /\ AnswerInv
  BY ConnectionAssumption
     DEF Init, ConnInit, ThreadInv, AnswerInv, StreamInv, StreamOK, LockInv, WinnerInv
<1>3. {c \in Streams : thread[c] \in {"opening", "flow"}} = {}
  BY DEF Init
<1> QED BY <1>1, <1>2, <1>3, FS_EmptySet DEF Init, CountInv, ServerInv

(* A step of the accept thread or of RunServer keeps it. *)
LEMMA ServerStepKeeps ==
  ASSUME ServerInv, AcceptStep \/ Watch \/ Canceled
  PROVE  ServerInv' /\ winner' = winner
<1> DEFINE Errors == States \ {"UNKNOWN", "SUCCESS"}
<1>0. /\ ConnTypeOK /\ AnswerInv /\ ThreadInv /\ CountInv /\ TypeOK
      /\ isRunning \in BOOLEAN /\ unlockState \in States
      /\ phase \in {"CLIENT_CONNECTING", "SERVER_WAITING", "PHONE_UNLOCKING"}
  BY DEF ServerInv, TypeOK, ConnTypeOK
<1>1. {"UNK_ERROR"} \cup SetupErrors \subseteq Errors /\ {"TIMEOUT", "CANCELED"} \subseteq States
  BY ServerAssumption DEF States
<1> HIDE DEF Errors
<1>2. /\ UNCHANGED <<winner, info, flow, packet, sent, phase, numConnections, counted>>
      /\ isRunning' \in BOOLEAN
      /\ unlockState' = unlockState \/ unlockState' \in Errors
      /\ acceptPc' \in {"setup", "check", "accept", "end", "joining", "closed"}
      /\ watch' \in States \cup {"looping"}
      /\ \/ UNCHANGED thread
         \/ \E c \in Streams : thread[c] = "none" /\ thread' = [thread EXCEPT ![c] = "spawned"]
  BY <1>0, <1>1
     DEF AcceptStep, Listen, CheckLimit, Accept, EndAccept, JoinClients, Watch, Answered,
         TimedOut, Canceled, StopWith, acceptVars, connVars, TypeOK
<1>3. ConnTypeOK' /\ AnswerInv'
  BY <1>0, <1>2, OutsideStep DEF Errors
<1>4. TypeOK' /\ ThreadInv'
  BY <1>0, <1>2, <1>3 DEF TypeOK, ThreadInv
<1>5. CountInv'
  <2>1. CASE UNCHANGED thread
    BY <1>0, <1>2, <2>1 DEF CountInv
  <2>2. CASE \E c \in Streams : thread[c] = "none" /\ thread' = [thread EXCEPT ![c] = "spawned"]
    BY <1>0, <1>2, <2>2, CountFollows
  <2> QED BY <1>2, <2>1, <2>2
<1> QED BY <1>2, <1>3, <1>4, <1>5 DEF ServerInv

(* A step of a client thread keeps it, and the winner, if there is one. *)
LEMMA ClientStepKeeps ==
  ASSUME ServerInv, NEW c \in Streams, ClientStep(c)
  PROVE  ServerInv' /\ (winner # None => winner' = winner)
<1>0. /\ ConnTypeOK /\ AnswerInv /\ ThreadInv /\ CountInv /\ TypeOK
      /\ isRunning \in BOOLEAN
      /\ phase \in {"CLIENT_CONNECTING", "SERVER_WAITING", "PHONE_UNLOCKING"}
  BY DEF ServerInv, TypeOK, ConnTypeOK
<1>1. CASE ClientStart(c)
  <2>1. ConnTypeOK' /\ AnswerInv' /\ UNCHANGED <<flow, winner>>
    BY <1>0, <1>1, OutsideStep DEF ClientStart, connVars
  <2>2. TypeOK' /\ ThreadInv'
    BY <1>0, <1>1, <2>1 DEF ClientStart, TypeOK, ThreadInv
  <2>3. CountInv'
    BY <1>0, <1>1, CountFollows DEF ClientStart
  <2> QED BY <2>1, <2>2, <2>3 DEF ServerInv
<1>2. CASE ClientBegin(c)
  <2>1. flow[c] = "off"
    BY <1>0, <1>2 DEF ClientBegin, ThreadInv
  <2>2. /\ ConnTypeOK' /\ AnswerInv' /\ UNCHANGED winner
        /\ \A d \in Streams \ {c} : flow'[d] = flow[d]
        /\ flow'[c] \notin {"off", "returned"}
    BY <1>0, <1>2, <2>1, BeginFlowKeeps DEF ClientBegin
  <2>3. TypeOK' /\ ThreadInv'
    BY <1>0, <1>2, <2>2 DEF ClientBegin, TypeOK, ThreadInv
  <2>4. CountInv'
    BY <1>0, <1>2, CountFollows DEF ClientBegin
  <2> QED BY <2>2, <2>3, <2>4 DEF ServerInv
<1>3. CASE ClientFlow(c)
  <2>1. /\ ConnTypeOK' /\ AnswerInv' /\ (winner # None => winner' = winner)
        /\ \A d \in Streams \ {c} : flow'[d] = flow[d]
        /\ flow'[c] # "off"
    BY <1>0, <1>3, FlowStepKeeps DEF ClientFlow
  <2>2. TypeOK' /\ ThreadInv' /\ CountInv'
    BY <1>0, <1>3, <2>1 DEF ClientFlow, acceptVars, TypeOK, ThreadInv, CountInv
  <2> QED BY <2>1, <2>2 DEF ServerInv
<1>4. CASE ClientLeave(c)
  <2>1. ConnTypeOK' /\ AnswerInv' /\ UNCHANGED <<flow, winner>>
    BY <1>0, <1>4, OutsideStep DEF ClientLeave, connVars
  <2>2. CountInv' /\ numConnections > 0
    <3>1. /\ thread[c] \in {"opening", "flow"} /\ "left" \notin {"opening", "flow"}
          /\ thread' = [thread EXCEPT ![c] = "left"] /\ numConnections' = numConnections - 1
      BY <1>4 DEF ClientLeave
    <3> QED BY <1>0, <3>1, CountFollows
  <2>3. TypeOK' /\ ThreadInv'
    BY <1>0, <1>4, <2>1, <2>2 DEF ClientLeave, TypeOK, ThreadInv
  <2> QED BY <2>1, <2>2, <2>3 DEF ServerInv
<1>5. CASE ClientPoll(c)
  <2>1. ConnTypeOK' /\ AnswerInv' /\ UNCHANGED <<flow, winner>>
    BY <1>0, <1>5, OutsideStep DEF ClientPoll, connVars
  <2>2. PICK l \in {"phase", "closed"} : thread' = [thread EXCEPT ![c] = l]
    BY <1>5 DEF ClientPoll
  <2>3. TypeOK' /\ ThreadInv'
    BY <1>0, <1>5, <2>1, <2>2 DEF ClientPoll, TypeOK, ThreadInv
  <2>4. CountInv'
    BY <1>0, <1>5, <2>2, CountFollows DEF ClientPoll
  <2> QED BY <2>1, <2>3, <2>4 DEF ServerInv
<1>6. CASE ClientPhase(c)
  <2>1. ConnTypeOK' /\ AnswerInv' /\ UNCHANGED <<flow, winner>>
    BY <1>0, <1>6, OutsideStep DEF ClientPhase
  <2>2. TypeOK' /\ ThreadInv'
    BY <1>0, <1>6, <2>1 DEF ClientPhase, TypeOK, ThreadInv
  <2>3. CountInv'
    <3>1. /\ thread[c] \notin {"opening", "flow"} /\ "closed" \notin {"opening", "flow"}
          /\ thread' = [thread EXCEPT ![c] = "closed"] /\ numConnections' = numConnections
      BY <1>6 DEF ClientPhase
    <3> QED BY <1>0, <3>1, CountFollows
  <2> QED BY <2>1, <2>2, <2>3 DEF ServerInv
<1> QED BY <1>1, <1>2, <1>3, <1>4, <1>5, <1>6 DEF ClientStep

(* Every step keeps ServerInv and the winner, if there is one. *)
LEMMA NextKeeps ==
  ASSUME ServerInv, [Next]_vars
  PROVE  ServerInv' /\ (winner # None => winner' = winner)
<1>1. CASE UNCHANGED vars
  <2>0. /\ ConnTypeOK /\ AnswerInv /\ isRunning \in BOOLEAN
        /\ phase \in {"CLIENT_CONNECTING", "SERVER_WAITING", "PHONE_UNLOCKING"}
    BY DEF ServerInv, TypeOK, ConnTypeOK
  <2>1. ConnTypeOK' /\ AnswerInv'
    BY <1>1, <2>0, OutsideStep DEF vars, connVars
  <2> QED BY <1>1, <2>1
      DEF vars, connVars, acceptVars, ServerInv, TypeOK, ThreadInv, CountInv
<1> QED BY <1>1, ServerStepKeeps, ClientStepKeeps DEF Next, Over

(* In every reachable state of TCPUnlockServer the inductive invariant      *)
(* holds: one stream at most is about to store a success, its answer is a   *)
(* valid one of its device, and the threads are counted correctly.          *)
THEOREM ServerInvariant == Spec => []ServerInv
<1>1. ServerInv /\ [Next]_vars => ServerInv'
  BY NextKeeps
<1> QED BY InitInv, <1>1, PTL DEF Spec

(* OnResponseReceived reports a success only for an allowed device whose    *)
(* own answer to this request was verified.                                 *)
THEOREM SuccessVerified == Spec => []SuccessIsVerified
<1>1. ServerInv => SuccessIsVerified
  BY DEF ServerInv, AnswerInv, WinnerInv, Answers, SuccessIsVerified
<1> QED BY ServerInvariant, <1>1, PTL

(* m_PairedDevice and m_ResponseData, once stored, are never replaced, by   *)
(* whichever of the client threads.                                         *)
THEOREM WinnerStays == Spec => OneWinner
<1>1. ServerInv /\ [Next]_vars => [winner # None => winner' = winner]_vars
  BY NextKeeps
<1> QED BY ServerInvariant, <1>1, PTL DEF Spec, OneWinner

(* The steps of PerformAuthFlow that change the state are those of streams  *)
(* that have named an allowed device.                                       *)
LEMMA FlowNames ==
  ASSUME ServerInv, NEW c \in Streams, FlowStep(c), unlockState' # unlockState
  PROVE  flow'[c] # flow[c] /\ Named(c)
<1>0. /\ StreamOK(flow[c], info[c], packet[c]) /\ flow \in [Streams -> Labels]
      /\ IsServer /\ None \notin Allowed /\ None \notin Packets
  BY ServerAssumption, ConnectionAssumption
     DEF ServerInv, TypeOK, ConnTypeOK, AnswerInv, StreamInv
<1>1. CASE FlowThrows(c)
  BY <1>0, <1>1 DEF FlowThrows, Goto, Named, FindAllowedDevice, StreamOK
<1>2. CASE SendRequest(c)
  BY <1>0, <1>2 DEF SendRequest, Goto, Named, StreamOK
<1>3. CASE ReadPacket(c) \/ SkipPacket(c) \/ LockForAnswer(c) \/ OnDeviceId(c) \/ LeaveFlow(c)
  BY <1>0, <1>3
     DEF ReadPacket, SkipPacket, LockForAnswer, OnDeviceId, LeaveFlow, HandleUnverifiedError
<1>4. CASE OnErrorResponse(c)
  BY <1>0, <1>4
     DEF OnErrorResponse, IsResponse, Unexpected, HandleUnverifiedError, Handled, Goto, Named,
         StreamOK
<1>5. CASE AcceptAnswer(c)
  <2>1. info[c] # None /\ info[c].device \in Allowed
    BY <1>0, <1>5 DEF AcceptAnswer, StreamOK, ServerInv, AnswerInv, LockInv
  <2> QED BY <1>0, <1>5, <2>1 DEF AcceptAnswer, Handled, Goto, Named
<1> QED BY <1>1, <1>2, <1>3, <1>4, <1>5 DEF FlowStep

(* A peer that has not named an allowed device cannot end the request of    *)
(* the others: HandleUnverifiedError only closes its connection.            *)
THEOREM StrangersCannotEnd == Spec => StrangersIgnored
<1> DEFINE Ignored == unlockState' # unlockState =>
             \/ acceptPc' = "end"
             \/ \E c \in Streams : flow'[c] # flow[c] /\ Named(c)
<1>1. ServerInv /\ Next => Ignored
  <2> SUFFICES ASSUME ServerInv, Next PROVE Ignored
    OBVIOUS
  <2>1. CASE AcceptStep
    BY <2>1 DEF AcceptStep, Listen, CheckLimit, Accept, EndAccept, JoinClients, connVars
  <2>2. CASE Watch \/ Canceled \/ Over
    BY <2>2 DEF Watch, Answered, TimedOut, Canceled, StopWith, Over, vars, connVars
  <2>3. ASSUME NEW c \in Streams, ClientStep(c) PROVE Ignored
    <3>1. CASE ClientFlow(c)
      BY <3>1, FlowNames DEF ClientFlow
    <3>2. CASE ~ClientFlow(c)
      BY <2>3, <3>2
         DEF ClientStep, ClientStart, ClientBegin, BeginFlow, ClientLeave, ClientPoll,
             ClientPhase, connVars
    <3> QED BY <3>1, <3>2
  <2> QED BY <2>1, <2>2, <2>3 DEF Next
<1>2. ServerInv /\ [Next]_vars => [Ignored]_vars
  BY <1>1
<1> QED BY ServerInvariant, <1>2, PTL DEF Spec, StrangersIgnored

(* When the accept thread has ended, no client thread is left to use the    *)
(* server object, and none is counted.                                      *)
THEOREM ThreadsJoined == Spec => []NoThreadOutlivesServer
<1> DEFINE Joined == acceptPc = "closed" => \A c \in Streams : thread[c] \in {"none", "closed"}
<1>1. Init => Joined
  BY DEF Init
<1>2. Joined /\ [Next]_vars => Joined'
  <2> SUFFICES ASSUME Joined, [Next]_vars PROVE Joined'
    OBVIOUS
  <2>1. CASE AcceptStep
    BY <2>1 DEF AcceptStep, Listen, CheckLimit, Accept, EndAccept, JoinClients
  <2>2. CASE Watch \/ Canceled \/ UNCHANGED vars
    BY <2>2 DEF Watch, Answered, TimedOut, Canceled, StopWith, vars, acceptVars
  <2>3. ASSUME NEW c \in Streams, ClientStep(c) PROVE Joined'
    BY <2>3
       DEF ClientStep, ClientStart, ClientBegin, ClientFlow, ClientLeave, ClientPoll,
           ClientPhase, acceptVars
  <2> QED BY <2>1, <2>2, <2>3 DEF Next, Over
<1>3. ServerInv /\ Joined => NoThreadOutlivesServer
  <2> SUFFICES ASSUME ServerInv, Joined, acceptPc = "closed" PROVE NoThreadOutlivesServer
    BY DEF NoThreadOutlivesServer
  <2>1. {c \in Streams : thread[c] \in {"opening", "flow"}} = {}
    OBVIOUS
  <2> QED BY <2>1, FS_EmptySet DEF ServerInv, CountInv, NoThreadOutlivesServer
<1>4. Spec => []Joined
  BY <1>1, <1>2, PTL DEF Spec
<1> QED BY ServerInvariant, <1>3, <1>4, PTL

=============================================================================
