---------------------------- MODULE PairingProofs ----------------------------
(* Stopping a pairing session, for any number of phones, of sessions and of
   failures, at any time: when PairingSession::Stop has returned, no thread of
   the session is left. *)
EXTENDS Pairing, SequenceTheorems, TLAPS

Servers ==
  [kind : {"none", "tcp", "cloud"}, running : BOOLEAN,
   accept : {"none", "init", "loop", "join", "ended"}, open : BOOLEAN]

Polls ==
  [pc : {"none", "run", "expired", "asked", "ended"}, running : BOOLEAN, failures : Nat]

Served ==
  [pc : {"none", "accepted", "connect", "read", "respond", "store", "ended"},
   id : Ids \cup {"none"}]

(* Somebody serves a phone. *)
Serving(r) == r.pc \notin {"none", "ended"}

(* The parts of the invariant. *)
LEMMA Parts ==
  ASSUME SessionInv
  PROVE  /\ front \in {"gui", "cli"} /\ server \in Servers /\ poll \in Polls
         /\ client \in [Clients -> Served]
         /\ poll.pc \notin {"none", "ended"} => server.kind = "cloud"
         /\ server.accept # "none" <=> server.kind = "tcp"
         /\ \A c \in Clients : Serving(client[c]) =>
              server.kind = "cloud" \/ server.accept \in {"loop", "join"}
         /\ ui \in {"stop_server", "join_server"} => poll.pc = "none"
         /\ ui \in {"enter", "verdict", "exited"} => server = NoServer
BY DEF SessionInv, SessionTypeOK, OwnerInv, StopInv, Servers, Polls, Served, Serving, Alive

(* The parts, after a step. *)
LEMMA PartsAfter ==
  ASSUME front' \in {"gui", "cli"}, server' \in Servers, poll' \in Polls,
         client' \in [Clients -> Served],
         poll'.pc \notin {"none", "ended"} => server'.kind = "cloud",
         server'.accept # "none" <=> server'.kind = "tcp",
         \A c \in Clients : Serving(client'[c]) =>
           server'.kind = "cloud" \/ server'.accept \in {"loop", "join"},
         ui' \in {"stop_server", "join_server"} => poll'.pc = "none",
         ui' \in {"enter", "verdict", "exited"} => server' = NoServer
  PROVE  SessionInv'
BY DEF SessionInv, SessionTypeOK, OwnerInv, StopInv, Servers, Polls, Served, Serving, Alive

(* Steps of others: the session stays as it is, and the user interface does
   not go on with stopping it. *)
LEMMA OthersKeep ==
  ASSUME SessionInv, UNCHANGED <<front, server, poll, client>>,
         ui' = ui \/ ui' \in {"idle", "stop_poll"} \/ (ui = "verdict" /\ ui' = "exited")
  PROVE  SessionInv'
BY Parts, PartsAfter

(* A thread that serves a phone goes on or ends. *)
LEMMA ServingKeeps ==
  ASSUME SessionInv, NEW c \in Clients, NEW r \in Served, client' = [client EXCEPT ![c] = r],
         Serving(r) => server.kind = "cloud" \/ server.accept \in {"loop", "join"},
         UNCHANGED <<front, server, poll, ui>>
  PROVE  SessionInv'
<1>0. client \in [Clients -> Served]
  BY Parts
<1>1. /\ client' \in [Clients -> Served]
      /\ \A d \in Clients : client'[d] = IF d = c THEN r ELSE client[d]
  BY <1>0
<1> QED BY <1>1, Parts, PartsAfter

(* A step of the poll alone keeps the invariant. *)
LEMMA PollKeeps ==
  ASSUME SessionInv, poll' \in Polls, poll.pc \notin {"none", "ended"},
         UNCHANGED <<front, server, client, ui>>
  PROVE  SessionInv'
BY Parts, PartsAfter

(* What a thread that serves a phone does. *)
LEMMA ClientKeeps ==
  ASSUME SessionInv, NEW c \in Clients, ClientSteps(c)
  PROVE  SessionInv'
<1>0. client[c] \in Served /\ client \in [Clients -> Served]
  BY Parts
<1>1. /\ Serving(client[c])
      /\ UNCHANGED <<front, server, poll, ui>>
      /\ \/ \E l \in {"read", "store", "ended"} : client' = [client EXCEPT ![c].pc = l]
         \/ \E id \in Ids : client' = [client EXCEPT ![c].pc = "respond", ![c].id = id]
  BY DEF ClientSteps, ClientStarts, HandleRead, HandleRespond, HandleStored, Serving
<1>2. PICK r \in Served : client' = [client EXCEPT ![c] = r]
  <2>1. ASSUME NEW l \in {"read", "store", "ended"}, client' = [client EXCEPT ![c].pc = l]
        PROVE  \E r \in Served : client' = [client EXCEPT ![c] = r]
    <3>1. [client[c] EXCEPT !.pc = l] \in Served
      BY <1>0 DEF Served
    <3> QED BY <2>1, <3>1
  <2>2. ASSUME NEW id \in Ids, client' = [client EXCEPT ![c].pc = "respond", ![c].id = id]
        PROVE  \E r \in Served : client' = [client EXCEPT ![c] = r]
    <3>1. [client[c] EXCEPT !.pc = "respond", !.id = id] \in Served
      BY <1>0 DEF Served
    <3>2. client' = [client EXCEPT ![c] = [client[c] EXCEPT !.pc = "respond", !.id = id]]
      BY <1>0, <2>2
    <3> QED BY <3>1, <3>2
  <2> QED BY <1>1, <2>1, <2>2
<1>3. server.kind = "cloud" \/ server.accept \in {"loop", "join"}
  BY <1>1, Parts
<1> QED BY <1>1, <1>2, <1>3, ServingKeeps

(* CloudPollThread: the relay it connects to is served for the cloud server. *)
LEMMA PollStepKeeps ==
  ASSUME SessionInv, PollExpired \/ PollSteps
  PROVE  SessionInv'
<1>0. /\ poll \in Polls /\ client \in [Clients -> Served] /\ front \in {"gui", "cli"}
      /\ poll.pc \notin {"none", "ended"} => server.kind = "cloud"
  BY Parts
<1>1. /\ poll.pc \in {"run", "expired", "asked"}
      /\ UNCHANGED <<front, ui, server>>
  BY DEF PollExpired, PollSteps, PollReportsExpiry, PollRequest, PollAnswer
<1>2. poll' \in Polls
  <2>1. \A l \in {"run", "expired", "asked", "ended"}, n \in Nat :
          [poll EXCEPT !.pc = l] \in Polls /\ [poll EXCEPT !.pc = l, !.failures = n] \in Polls
    BY <1>0 DEF Polls
  <2>2. PICK n \in Nat : n = poll.failures + 1
    BY <1>0 DEF Polls
  <2>3. \/ \E l \in {"run", "expired", "asked", "ended"} : poll' = [poll EXCEPT !.pc = l]
        \/ poll' = [poll EXCEPT !.pc = "run", !.failures = 0]
        \/ poll' = [poll EXCEPT !.pc = "run", !.failures = n]
    BY <2>2 DEF PollExpired, PollSteps, PollReportsExpiry, PollRequest, PollAnswer, PollEnds
  <2> QED BY <2>1, <2>3
<1>3. CASE UNCHANGED client
  BY <1>1, <1>2, <1>3, PollKeeps
<1>4. CASE ConnectRelay
  <2>1. PICK c \in ClientsOf[front] : client' = [client EXCEPT ![c].pc = "connect"]
    BY <1>4 DEF ConnectRelay
  <2>2. c \in Clients
    BY <1>0, PairingAssumption
  <2>3. [client[c] EXCEPT !.pc = "connect"] \in Served
    BY <1>0, <2>2 DEF Served
  <2>4. client' \in [Clients -> Served]
    BY <1>0, <2>1, <2>2, <2>3
  <2>5. server.kind = "cloud"
    BY <1>0, <1>1
  <2> QED BY <1>1, <1>2, <2>4, <2>5, Parts, PartsAfter
<1> QED
  BY <1>3, <1>4 DEF PollExpired, PollSteps, PollReportsExpiry, PollRequest, PollAnswer

(* AcceptThread: it ends when nobody whom it has accepted is left. *)
LEMMA AcceptKeeps ==
  ASSUME SessionInv, AcceptSteps \/ AcceptClient
  PROVE  SessionInv'
<1>0. /\ server \in Servers /\ client \in [Clients -> Served] /\ front \in {"gui", "cli"}
      /\ server.accept # "none" <=> server.kind = "tcp"
      /\ ui \in {"enter", "verdict", "exited"} => server = NoServer
  BY Parts
<1>1. /\ server.accept \in {"init", "loop", "join"}
      /\ UNCHANGED <<front, ui, poll>>
  BY DEF AcceptSteps, AcceptInit, AcceptEnds, AcceptJoins, AcceptClient
<1>2. ui \notin {"enter", "verdict", "exited"} /\ server.kind = "tcp"
  BY <1>0, <1>1 DEF NoServer
<1>3. CASE AcceptSteps
  <2>1. /\ UNCHANGED client
        /\ server' \in Servers /\ server'.kind = server.kind /\ server'.accept # "none"
        /\ \/ server'.accept = "loop"
           \/ server'.accept = "ended" /\ server.accept = "init"
           \/ server'.accept = "join"
           \/ server'.accept = "ended" /\ \A c \in Clients : ~Alive(c)
    BY <1>0, <1>3 DEF AcceptSteps, AcceptInit, AcceptEnds, AcceptJoins, Servers
  <2>2. \A c \in Clients : Serving(client'[c]) => server'.accept \in {"loop", "join"}
    BY <1>2, <2>1, Parts DEF Alive, Serving
  <2>3. server'.kind = "tcp"
    BY <1>2, <2>1
  <2> QED BY <1>1, <1>2, <2>1, <2>2, <2>3, Parts, PartsAfter
<1>4. CASE AcceptClient
  <2>1. PICK c \in ClientsOf[front] : client' = [client EXCEPT ![c].pc = "accepted"]
    BY <1>4 DEF AcceptClient
  <2>2. c \in Clients /\ server.accept = "loop" /\ UNCHANGED server
    BY <1>0, <1>4, <2>1, PairingAssumption DEF AcceptClient
  <2>3. PICK r \in Served : r = [client[c] EXCEPT !.pc = "accepted"]
    BY <1>0, <2>2 DEF Served
  <2>4. client' = [client EXCEPT ![c] = r]
    BY <1>0, <2>1, <2>2, <2>3
  <2> QED BY <1>1, <2>2, <2>4, ServingKeeps
<1> QED BY <1>3, <1>4

(* PairingSession::Stop and Start, step by step. *)
LEMMA StopKeeps ==
  ASSUME SessionInv, StopSteps
  PROVE  SessionInv'
<1>0. /\ server \in Servers /\ poll \in Polls /\ client \in [Clients -> Served]
      /\ server.accept # "none" <=> server.kind = "tcp"
      /\ \A c \in Clients : Serving(client[c]) =>
           server.kind = "cloud" \/ server.accept \in {"loop", "join"}
  BY Parts
<1>1. NoServer \in Servers /\ NoPoll \in Polls /\ NoClient \in Served
  BY DEF NoServer, NoPoll, NoClient, Servers, Polls, Served
<1>2. CASE StopCloudPolling
  <2>1. poll' \in Polls /\ poll'.pc = poll.pc
    BY <1>0, <1>2 DEF StopCloudPolling, Polls
  <2> QED BY <1>2, <2>1, Parts, PartsAfter DEF StopCloudPolling
<1>3. CASE JoinPoll
  <2>1. poll' \in Polls /\ poll'.pc = "none"
    BY <1>1, <1>3 DEF JoinPoll, NoPoll
  <2> QED BY <1>3, <2>1, Parts, PartsAfter DEF JoinPoll
<1>4. CASE StopServer
  <2>1. server' \in Servers /\ server'.kind = server.kind /\ server'.accept = server.accept
    BY <1>0, <1>4 DEF StopServer, Servers
  <2> QED BY <1>4, <2>1, Parts, PartsAfter DEF StopServer
<1>5. CASE JoinServer
  <2>1. /\ server.accept \in {"none", "ended"}
        /\ server.kind = "cloud" => \A c \in Clients : ~Alive(c)
        /\ ui = "join_server" /\ ui' \in {"enter", "verdict"}
        /\ server' = NoServer /\ UNCHANGED <<front, poll>>
        /\ client' = [c \in Clients |-> IF Alive(c) THEN client[c] ELSE NoClient]
    BY <1>5 DEF JoinServer
  <2>2. \A c \in Clients : ~Alive(c)
    BY <1>0, <2>1 DEF Alive, Serving
  <2>3. /\ client' \in [Clients -> Served]
        /\ \A c \in Clients : client'[c] = NoClient
    BY <1>1, <2>1, <2>2
  <2>4. \A c \in Clients : ~Serving(client'[c])
    BY <2>3 DEF Serving, NoClient
  <2>5. server'.accept = "none" /\ server'.kind = "none" /\ poll'.pc = "none"
    BY <2>1, Parts DEF NoServer
  <2> QED BY <1>1, <2>1, <2>3, <2>4, <2>5, Parts, PartsAfter
<1>6. CASE EnterStep
  <2>1. /\ ui = "enter" /\ ui' \in {"idle", "wait"} /\ UNCHANGED <<front, client>>
        /\ UNCHANGED <<server, poll>> \/ StartSession(form.method)
    BY <1>6 DEF EnterStep
  <2>2. server.kind = "none" /\ server.accept = "none"
    BY <2>1, Parts DEF NoServer
  <2>3. \A c \in Clients : ~Serving(client'[c])
    BY <1>0, <2>1, <2>2
  <2>4. CASE StartSession(form.method)
    <3>1. /\ server' \in Servers /\ server'.kind \in {"tcp", "cloud"}
          /\ server'.accept # "none" <=> server'.kind = "tcp"
          /\ poll' \in Polls
          /\ poll'.pc \notin {"none", "ended"} => server'.kind = "cloud"
      BY <1>1, <2>4 DEF StartSession, Servers, Polls, NoPoll
    <3> QED BY <2>1, <2>3, <3>1, Parts, PartsAfter
  <2>5. CASE UNCHANGED <<server, poll>>
    BY <2>1, <2>5, Parts, PartsAfter
  <2> QED BY <2>1, <2>4, <2>5
<1> QED BY <1>2, <1>3, <1>4, <1>5, <1>6 DEF StopSteps

(* Every step keeps the invariant of the session. *)
LEMMA NextKeeps ==
  ASSUME SessionInv, [Next]_vars
  PROVE  SessionInv'
<1>1. CASE \/ StoreSteps \/ UNCHANGED vars \/ ScanThread \/ CommandCall
           \/ \E t \in Threads : CallReturns(t)
  BY <1>1, OthersKeep
     DEF StoreSteps, vars, pairVars, ScanThread, CommandCall, CallReturns
<1>2. CASE UiSteps \/ FinishBluetoothPairing \/ OnPairingEvent
  BY <1>2, OthersKeep
     DEF UiSteps, Show, SetData, OnNextClicked, OnBackClicked, UiCall, FinishBluetoothPairing,
         OnPairingEvent, Goto
<1>3. CASE CommandSteps \/ CommandInterrupted
  BY <1>3, OthersKeep DEF CommandSteps, CommandDone, CommandInterrupted, CommandEnds, CommandVerdict
<1>4. CASE Crash
  <2>1. /\ front' = front /\ server' = NoServer /\ poll' = NoPoll /\ ui' = "idle"
        /\ client' = [c \in Clients |-> NoClient]
    BY <1>4 DEF Crash
  <2>2. /\ server' \in Servers /\ server'.kind = "none" /\ server'.accept = "none"
        /\ poll' \in Polls /\ poll'.pc = "none"
        /\ client' \in [Clients -> Served]
        /\ \A c \in Clients : ~Serving(client'[c])
    BY <2>1 DEF NoServer, NoPoll, NoClient, Servers, Polls, Served, Serving
  <2> QED BY <2>1, <2>2, Parts, PartsAfter
<1>5. CASE \E c \in Clients : ClientSteps(c)
  BY <1>5, ClientKeeps
<1> QED
  BY <1>1, <1>2, <1>3, <1>4, <1>5, StopKeeps, PollStepKeeps, AcceptKeeps DEF Next

(* In every state of a pairing, each thread of the session belongs to the
   server that will wait for it, and PairingSession::Stop has come as far as
   the user interface says. *)
THEOREM SessionInvariant == Spec => []SessionInv
<1>1. Init => SessionInv
  <2> SUFFICES ASSUME Init PROVE SessionInv
    OBVIOUS
  <2>1. /\ front \in {"gui", "cli"} /\ server = NoServer /\ poll = NoPoll
        /\ client = [c \in Clients |-> NoClient] /\ ui \in {"idle", "enter"}
    BY DEF Init
  <2> QED BY <2>1
      DEF SessionInv, SessionTypeOK, OwnerInv, StopInv, Alive, NoServer, NoPoll, NoClient
<1>2. SessionInv /\ [Next]_vars => SessionInv'
  BY NextKeeps
<1> QED BY <1>1, <1>2, PTL DEF Spec

(* Once the session is stopped no thread of it polls, accepts or serves a
   phone, whenever it was stopped (PairingSession::Stop, TCPPairingServer and
   CloudPairingServer). *)
THEOREM SessionLeavesNothing == Spec => []NothingOutlivesSession
<1>1. SessionInv => NothingOutlivesSession
  <2> SUFFICES ASSUME SessionInv, server = NoServer
               PROVE  /\ poll.pc \in {"none", "ended"}
                      /\ \A c \in Clients : ~Alive(c)
    BY DEF NothingOutlivesSession
  <2>1. server.kind = "none" /\ server.accept = "none"
    BY DEF NoServer
  <2> QED BY <2>1, Parts DEF Serving, Alive
<1> QED BY <1>1, SessionInvariant, PTL

-----------------------------------------------------------------------------
(* The list of devices.  First, what its operations return. *)

Ops ==
  [pc : {"idle", "find", "get", "save", "write", "done"},
   kind : {"none", "list", "add", "remove", "remove_method", "ssh"},
   arg : Entry, list : SUBSET Entry, ok : BOOLEAN]

(* Nothing found is an entry of its own. *)
LEMMA NoDeviceTyped == NoDevice \in Entry
BY DEF NoDevice, Entry

(* A device that is looked up is one of the list. *)
LEMMA Lookup ==
  ASSUME NEW list, NEW id
  PROVE  \/ /\ GetDeviceByID(list, id) \in list /\ GetDeviceByID(list, id).id = id
         \/ /\ GetDeviceByID(list, id) = NoDevice
            /\ \A e \in list : e.id # id
BY DEF GetDeviceByID, OfId

LEMMA LookupTyped ==
  ASSUME NEW list \in SUBSET Entry, NEW id
  PROVE  GetDeviceByID(list, id) \in Entry
BY Lookup, NoDeviceTyped

(* With one entry for an id, that entry is found. *)
LEMMA LookupFinds ==
  ASSUME NEW list, NEW e \in list, OnePerId(list)
  PROVE  GetDeviceByID(list, e.id) = e
BY Lookup DEF OnePerId

LEMMA LookupMisses ==
  ASSUME NEW list, NEW id, \A e \in list : e.id # id
  PROVE  GetDeviceByID(list, id) = NoDevice
BY DEF GetDeviceByID, OfId

(* The operations keep the ids apart. *)
LEMMA ChangedTyped ==
  ASSUME NEW o \in Ops, NEW list \in SUBSET Entry
  PROVE  /\ Changed(o, list) \in SUBSET Entry
         /\ OnePerId(list) => OnePerId(Changed(o, list))
<1>1. o.arg \in Entry
  BY DEF Ops
<1> QED BY <1>1
    DEF Changed, AddDevice, RemoveDevice, RemoveDevicesWithMethod, WithoutId, OnePerId

(* What the list holds of a device after an operation. *)
LEMMA LookupChanged ==
  ASSUME NEW o \in Ops, NEW list \in SUBSET Entry, OnePerId(list), NEW id
  PROVE  GetDeviceByID(Changed(o, list), id).key =
           IF o.kind = "add" /\ o.arg.id = id THEN o.arg.key
           ELSE IF o.kind = "remove" /\ o.arg.id = id THEN 0
           ELSE IF o.kind = "remove_method"
                   /\ GetDeviceByID(list, id).method = o.arg.method
           THEN 0 ELSE GetDeviceByID(list, id).key
<1> DEFINE new == Changed(o, list)
           old == GetDeviceByID(list, id)
<1>0. o.arg \in Entry /\ OnePerId(new) /\ NoDevice.key = 0
  BY ChangedTyped DEF Ops, NoDevice
<1>1. \/ old \in list /\ old.id = id
      \/ old = NoDevice /\ \A e \in list : e.id # id
  BY Lookup
<1>2. \A e \in list : e.id = id => e = old
  BY <1>1 DEF OnePerId
<1> HIDE DEF old
<1>3. CASE o.kind = "add"
  <2>1. new = WithoutId(list, o.arg.id) \cup {o.arg}
    BY <1>3 DEF Changed, AddDevice
  <2>2. CASE o.arg.id = id
    <3>1. o.arg \in new
      BY <2>1
    <3>2. GetDeviceByID(new, o.arg.id) = o.arg
      BY <3>1, <1>0, LookupFinds DEF new
    <3> QED BY <1>3, <2>2, <3>2
  <2>3. CASE o.arg.id # id
    <3>1. OfId(new, id) = OfId(list, id)
      BY <2>1, <2>3 DEF OfId, WithoutId
    <3>2. GetDeviceByID(new, id) = old
      BY <3>1 DEF GetDeviceByID, old
    <3> QED BY <1>3, <2>3, <3>2 DEF old
  <2> QED BY <2>2, <2>3
<1>4. CASE o.kind = "remove"
  <2>1. new = WithoutId(list, o.arg.id)
    BY <1>4 DEF Changed, RemoveDevice
  <2>2. CASE o.arg.id = id
    <3>1. \A e \in new : e.id # id
      BY <2>1, <2>2 DEF WithoutId
    <3>2. GetDeviceByID(new, id) = NoDevice
      BY <3>1, LookupMisses
    <3> QED BY <1>0, <1>4, <2>2, <3>2
  <2>3. CASE o.arg.id # id
    <3>1. OfId(new, id) = OfId(list, id)
      BY <2>1, <2>3 DEF OfId, WithoutId
    <3>2. GetDeviceByID(new, id) = old
      BY <3>1 DEF GetDeviceByID, old
    <3> QED BY <1>4, <2>3, <3>2 DEF old
  <2> QED BY <2>2, <2>3
<1>5. CASE o.kind = "remove_method"
  <2>1. new = {e \in list : e.method # o.arg.method}
    BY <1>5 DEF Changed, RemoveDevicesWithMethod
  <2>2. CASE old.method = o.arg.method
    <3>1. \A e \in new : e.id # id
      BY <1>2, <2>1, <2>2
    <3>2. GetDeviceByID(new, id) = NoDevice
      BY <3>1, LookupMisses
    <3> QED BY <1>0, <1>5, <2>2, <3>2 DEF old
  <2>3. CASE old.method # o.arg.method
    <3>1. OfId(new, id) = OfId(list, id)
      BY <1>2, <2>1, <2>3 DEF OfId
    <3>2. GetDeviceByID(new, id) = old
      BY <3>1 DEF GetDeviceByID, old
    <3> QED BY <1>5, <2>3, <3>2 DEF old
  <2> QED BY <2>2, <2>3
<1>6. CASE o.kind \notin {"add", "remove", "remove_method"}
  <2>1. new = list
    BY <1>6 DEF Changed
  <2> QED BY <1>6, <2>1
<1> QED BY <1>3, <1>4, <1>5, <1>6

(* The calls on the list keep its types. *)
LEMMA StoreParts ==
  ASSUME StoreTypeOK
  PROVE  /\ file \in Files /\ file.list \in SUBSET Entry
         /\ cache \in [Procs -> SUBSET Entry] /\ op \in [Threads -> Ops]
         /\ lock \in [Procs -> Threads \cup {NoThread}]
         /\ paired \in [Ids -> Nat] /\ raced \in BOOLEAN
         /\ \A p \in Procs : View(p) \in SUBSET Entry
BY DEF StoreTypeOK, Ops, Files, View, Load

LEMMA StorePartsAfter ==
  ASSUME file' \in Files, cache' \in [Procs -> SUBSET Entry], op' \in [Threads -> Ops],
         lock' \in [Procs -> Threads \cup {NoThread}],
         paired' \in [Ids -> Nat], raced' \in BOOLEAN
  PROVE  StoreTypeOK'
BY DEF StoreTypeOK, Ops

(* The states a file is left in. *)
LEMMA FilesTyped ==
  /\ Torn \in Files /\ \A list \in SUBSET Entry : Complete(list) \in Files
BY DEF Torn, Complete, Files

LEMMA IdleOpTyped == IdleOp \in Ops /\ IdleOp.pc = "idle"
BY NoDeviceTyped DEF IdleOp, Ops

(* Where a call stands after GetDevices. *)
GotOp(o, seen) ==
  IF o.kind = "list" THEN [o EXCEPT !.pc = "done", !.ok = TRUE]
  ELSE IF o.pc = "get" THEN [o EXCEPT !.pc = "save", !.list = Changed(o, seen)]
  ELSE IF GetDeviceByID(seen, o.arg.id) = NoDevice THEN [o EXCEPT !.pc = "done"]
  ELSE IF o.kind = "remove" THEN [o EXCEPT !.pc = "get"]
  ELSE AddServer(o, GetDeviceByID(seen, o.arg.id))

LEMMA GotOpTyped ==
  ASSUME NEW o \in Ops, o.pc \in {"find", "get"}, NEW seen \in SUBSET Entry
  PROVE  /\ GotOp(o, seen) \in Ops /\ GotOp(o, seen).pc # "write"
         /\ GotOp(o, seen).pc = "save" => /\ GotOp(o, seen).list = Changed(o, seen)
                                          /\ GotOp(o, seen).kind = o.kind
                                          /\ GotOp(o, seen).arg = o.arg
<1>1. /\ Changed(o, seen) \in SUBSET Entry /\ GetDeviceByID(seen, o.arg.id) \in Entry
  BY ChangedTyped, LookupTyped
<1> DEFINE new == Changed(o, seen)
           entry == GetDeviceByID(seen, o.arg.id)
<1> HIDE DEF new, entry
<1>2. /\ [o EXCEPT !.pc = "done", !.ok = TRUE] \in Ops
      /\ [o EXCEPT !.pc = "save", !.list = new] \in Ops
      /\ [o EXCEPT !.pc = "done"] \in Ops /\ [o EXCEPT !.pc = "get"] \in Ops
      /\ [o EXCEPT !.pc = "get", !.kind = "add", !.arg = entry] \in Ops
  BY <1>1 DEF Ops, new, entry
<1>3. /\ [o EXCEPT !.pc = "done", !.ok = TRUE].pc = "done"
      /\ [o EXCEPT !.pc = "done"].pc = "done" /\ [o EXCEPT !.pc = "get"].pc = "get"
      /\ [o EXCEPT !.pc = "get", !.kind = "add", !.arg = entry].pc = "get"
      /\ [o EXCEPT !.pc = "save", !.list = new].pc = "save"
      /\ [o EXCEPT !.pc = "save", !.list = new].list = new
      /\ [o EXCEPT !.pc = "save", !.list = new].kind = o.kind
      /\ [o EXCEPT !.pc = "save", !.list = new].arg = o.arg
  BY DEF Ops
<1>4. \/ GotOp(o, seen) = [o EXCEPT !.pc = "done", !.ok = TRUE]
      \/ GotOp(o, seen) = [o EXCEPT !.pc = "save", !.list = new]
      \/ GotOp(o, seen) = [o EXCEPT !.pc = "done"]
      \/ GotOp(o, seen) = [o EXCEPT !.pc = "get"]
      \/ GotOp(o, seen) = [o EXCEPT !.pc = "get", !.kind = "add", !.arg = entry]
  BY DEF GotOp, AddServer, new, entry
<1> QED BY <1>2, <1>3, <1>4 DEF new

(* GetDevices, with what the caller sees named. *)
LEMMA GetDevicesDoes ==
  ASSUME StoreTypeOK, NEW t \in Threads, GetDevices(t)
  PROVE  \E readable \in BOOLEAN : \E seen \in SUBSET Entry :
           /\ op[t].pc \in {"find", "get"}
           /\ seen = IF readable THEN View(ProcOf[t]) ELSE {}
           /\ raced' = (raced \/ Disturbed(t) \/ ~readable)
           /\ cache' = [cache EXCEPT ![ProcOf[t]] = seen]
           /\ op' = [op EXCEPT ![t] = GotOp(op[t], seen)]
           /\ UNCHANGED <<file, lock, paired>>
<1>0. ProcOf[t] \in Procs /\ op \in [Threads -> Ops] /\ View(ProcOf[t]) \in SUBSET Entry
  BY StoreParts, DeviceStoreAssumption
<1>1. PICK readable \in BOOLEAN :
        LET seen == IF readable THEN View(ProcOf[t]) ELSE {} IN
        /\ raced' = (raced \/ Disturbed(t) \/ ~readable)
        /\ cache' = [cache EXCEPT ![ProcOf[t]] = seen]
        /\ op' = [op EXCEPT ![t] = GotOp(op[t], seen)]
  BY <1>0 DEF GetDevices, GotOp
<1>2. PICK seen \in SUBSET Entry : seen = IF readable THEN View(ProcOf[t]) ELSE {}
  BY <1>0
<1>3. op[t].pc \in {"find", "get"} /\ UNCHANGED <<file, lock, paired>>
  BY DEF GetDevices
<1> QED BY <1>1, <1>2, <1>3

(* SaveDevices, first half: the file is truncated, or could not be opened. *)
LEMMA SaveDevicesDoes ==
  ASSUME StoreTypeOK, NEW t \in Threads, SaveDevices(t)
  PROVE  /\ op[t].pc = "save" /\ UNCHANGED <<cache, paired>>
         /\ \/ /\ op' = [op EXCEPT ![t] = [op[t] EXCEPT !.pc = "write"]]
               /\ lock' = [lock EXCEPT ![ProcOf[t]] = t]
               /\ file' = Torn /\ raced' = (raced \/ ProcOf[t] # "app")
            \/ /\ op' = [op EXCEPT ![t] = [op[t] EXCEPT !.pc = "done"]]
               /\ UNCHANGED <<file, lock, raced>>
<1>0. op \in [Threads -> Ops]
  BY StoreParts
<1> QED BY <1>0 DEF SaveDevices

(* SaveDevices, second half. *)
LEMMA WriteBytesDoes ==
  ASSUME StoreTypeOK, NEW t \in Threads, WriteBytes(t)
  PROVE  /\ op[t].pc = "write" /\ UNCHANGED raced
         /\ lock' = [lock EXCEPT ![ProcOf[t]] = NoThread]
         /\ \/ /\ op' = [op EXCEPT ![t] = [op[t] EXCEPT !.pc = "done", !.ok = TRUE]]
               /\ file' \in {Complete(op[t].list), Torn}
               /\ cache' = [cache EXCEPT ![ProcOf[t]] = op[t].list]
               /\ paired' = PairedAfter(op[t])
            \/ /\ op' = [op EXCEPT ![t] = [op[t] EXCEPT !.pc = "done"]]
               /\ file' = Torn /\ UNCHANGED <<cache, paired>>
<1>0. op \in [Threads -> Ops]
  BY StoreParts
<1>1. /\ [op EXCEPT ![t].pc = "done", ![t].ok = TRUE] =
           [op EXCEPT ![t] = [op[t] EXCEPT !.pc = "done", !.ok = TRUE]]
      /\ [op EXCEPT ![t].pc = "done"] = [op EXCEPT ![t] = [op[t] EXCEPT !.pc = "done"]]
  BY <1>0
<1> QED BY <1>1 DEF WriteBytes, CacheAfter

LEMMA StoreStepTyped ==
  ASSUME StoreTypeOK, NEW t \in Threads, StoreStep(t)
  PROVE  StoreTypeOK'
<1>0. /\ ProcOf[t] \in Procs /\ op \in [Threads -> Ops] /\ op[t] \in Ops
      /\ file \in Files /\ cache \in [Procs -> SUBSET Entry]
      /\ lock \in [Procs -> Threads \cup {NoThread}]
      /\ paired \in [Ids -> Nat] /\ raced \in BOOLEAN
  BY StoreParts, DeviceStoreAssumption
<1>1. /\ [op[t] EXCEPT !.pc = "write"] \in Ops /\ [op[t] EXCEPT !.pc = "done"] \in Ops
      /\ [op[t] EXCEPT !.pc = "done", !.ok = TRUE] \in Ops /\ op[t].list \in SUBSET Entry
      /\ op[t].arg \in Entry /\ op[t].arg.key \in Nat
  BY <1>0 DEF Ops, Entry
<1>2. CASE GetDevices(t)
  <2>1. PICK readable \in BOOLEAN, seen \in SUBSET Entry :
          /\ op[t].pc \in {"find", "get"}
          /\ raced' = (raced \/ Disturbed(t) \/ ~readable)
          /\ cache' = [cache EXCEPT ![ProcOf[t]] = seen]
          /\ op' = [op EXCEPT ![t] = GotOp(op[t], seen)]
          /\ UNCHANGED <<file, lock, paired>>
    BY <1>2, GetDevicesDoes
  <2>2. GotOp(op[t], seen) \in Ops
    BY <1>0, <2>1, GotOpTyped
  <2>3. op' \in [Threads -> Ops] /\ cache' \in [Procs -> SUBSET Entry]
    BY <1>0, <2>1, <2>2
  <2>4. raced' \in BOOLEAN
    BY <2>1
  <2> QED BY <1>0, <2>1, <2>3, <2>4, StorePartsAfter
<1>3. CASE SaveDevices(t)
  <2>1. /\ op' \in [Threads -> Ops] /\ lock' \in [Procs -> Threads \cup {NoThread}]
        /\ file' \in Files /\ raced' \in BOOLEAN
    BY <1>0, <1>1, <1>3, SaveDevicesDoes, FilesTyped
  <2> QED BY <1>0, <1>3, <2>1, SaveDevicesDoes, StorePartsAfter
<1>4. CASE WriteBytes(t)
  <2>1. /\ op' \in [Threads -> Ops] /\ lock' \in [Procs -> Threads \cup {NoThread}]
        /\ file' \in Files /\ cache' \in [Procs -> SUBSET Entry] /\ raced' = raced
    BY <1>0, <1>1, <1>4, WriteBytesDoes, FilesTyped
  <2>2. PairedAfter(op[t]) \in [Ids -> Nat]
    BY <1>0, <1>1 DEF PairedAfter
  <2>3. paired' \in [Ids -> Nat]
    BY <1>0, <1>4, <2>2, WriteBytesDoes
  <2> QED BY <1>0, <2>1, <2>3, StorePartsAfter
<1> QED BY <1>2, <1>3, <1>4 DEF StoreStep

(* What the application takes the list to be. *)
AppView == View("app")

SameCall(o, q) == o.kind = q.kind /\ o.arg = q.arg /\ o.list = q.list

LEMMA ChangedSame ==
  ASSUME NEW o, NEW q, SameCall(o, q), NEW list
  PROVE  Changed(o, list) = Changed(q, list)
BY DEF Changed, SameCall

(* The parts of the invariant of the list. *)
LEMMA ListParts ==
  ASSUME ListInv, ~raced
  PROVE  /\ OnePerId(AppView)
         /\ \A id \in Ids : GetDeviceByID(AppView, id).key = paired[id]
         /\ \A t \in Threads : AppSaves(t) =>
              /\ op[t].list = Changed(op[t], AppView)
              /\ cache["app"] = {} => AppView = {}
              /\ \A u \in Threads : AppSaves(u) => u = t
         /\ \A t \in Threads : op[t].pc = "write" => ProcOf[t] = "app"
BY DEF ListInv, SavingInv, PairedIsKept, AppView

LEMMA ListPartsAfter ==
  ASSUME ~raced' =>
           /\ OnePerId(AppView')
           /\ \A id \in Ids : GetDeviceByID(AppView', id).key = paired'[id]
           /\ \A t \in Threads : AppSaves(t)' =>
                /\ op'[t].list = Changed(op'[t], AppView')
                /\ cache'["app"] = {} => AppView' = {}
                /\ \A u \in Threads : AppSaves(u)' => u = t
           /\ \A t \in Threads : op'[t].pc = "write" => ProcOf[t] = "app"
  PROVE  ListInv'
BY DEF ListInv, SavingInv, PairedIsKept, AppView

(* A step that leaves the application's view and what was paired alone, begins
   no save and does not empty the cache under one. *)
LEMMA ListFrame ==
  ASSUME ListInv,
         ~raced' =>
           /\ ~raced /\ AppView' = AppView /\ paired' = paired
           /\ \A t \in Threads : AppSaves(t)' =>
                /\ AppSaves(t) /\ SameCall(op'[t], op[t])
                /\ cache'["app"] = {} => cache["app"] = {}
           /\ \A t \in Threads : op'[t].pc = "write" => ProcOf[t] = "app"
  PROVE  ListInv'
<1> SUFFICES ASSUME ~raced'
    PROVE  /\ OnePerId(AppView')
           /\ \A id \in Ids : GetDeviceByID(AppView', id).key = paired'[id]
           /\ \A t \in Threads : AppSaves(t)' =>
                /\ op'[t].list = Changed(op'[t], AppView')
                /\ cache'["app"] = {} => AppView' = {}
                /\ \A u \in Threads : AppSaves(u)' => u = t
           /\ \A t \in Threads : op'[t].pc = "write" => ProcOf[t] = "app"
  BY ListPartsAfter
<1>1. ~raced
  OBVIOUS
<1>2. /\ OnePerId(AppView)
      /\ \A id \in Ids : GetDeviceByID(AppView, id).key = paired[id]
      /\ \A t \in Threads : AppSaves(t) =>
           /\ op[t].list = Changed(op[t], AppView)
           /\ cache["app"] = {} => AppView = {}
           /\ \A u \in Threads : AppSaves(u) => u = t
  BY <1>1, ListParts
<1>3. ASSUME NEW t \in Threads, AppSaves(t)'
      PROVE  op'[t].list = Changed(op'[t], AppView')
  <2>1. op[t].list = Changed(op[t], AppView) /\ SameCall(op'[t], op[t])
    BY <1>2, <1>3
  <2>2. Changed(op'[t], AppView) = Changed(op[t], AppView)
    BY <2>1, ChangedSame
  <2> QED BY <2>1, <2>2 DEF SameCall
<1> QED BY <1>2, <1>3

(* GetDevices: the process goes on with the list it had. *)
LEMMA GetDevicesKeeps ==
  ASSUME StoreTypeOK, ListInv, NEW t \in Threads, GetDevices(t)
  PROVE  ListInv'
<1>0. /\ ProcOf[t] \in Procs /\ op \in [Threads -> Ops] /\ op[t] \in Ops /\ "app" \in Procs
      /\ cache \in [Procs -> SUBSET Entry] /\ AppView \in SUBSET Entry /\ raced \in BOOLEAN
  BY StoreParts, DeviceStoreAssumption DEF AppView
<1>1. PICK readable \in BOOLEAN, seen \in SUBSET Entry :
        /\ op[t].pc \in {"find", "get"}
        /\ seen = IF readable THEN View(ProcOf[t]) ELSE {}
        /\ raced' = (raced \/ Disturbed(t) \/ ~readable)
        /\ cache' = [cache EXCEPT ![ProcOf[t]] = seen]
        /\ op' = [op EXCEPT ![t] = GotOp(op[t], seen)]
        /\ UNCHANGED <<file, lock, paired>>
  BY GetDevicesDoes
<1>2. PICK o \in Ops : o = GotOp(op[t], seen)
  BY <1>0, <1>1, GotOpTyped
<1>3. /\ op' \in [Threads -> Ops]
      /\ \A u \in Threads : op'[u] = IF u = t THEN o ELSE op[u]
      /\ \A p \in Procs : cache'[p] = IF p = ProcOf[t] THEN seen ELSE cache[p]
  BY <1>0, <1>1, <1>2
<1>4. /\ o.pc # "write"
      /\ o.pc = "save" => o.list = Changed(op[t], seen) /\ o.kind = op[t].kind /\ o.arg = op[t].arg
  BY <1>0, <1>1, <1>2, GotOpTyped
<1>5. /\ ~raced' => ~raced /\ ~Disturbed(t) /\ readable /\ seen = View(ProcOf[t])
      /\ Load' = Load
  BY <1>0, <1>1 DEF Load
<1>6. CASE ProcOf[t] # "app"
  <2>1. AppView' = AppView /\ cache'["app"] = cache["app"]
    BY <1>0, <1>3, <1>5, <1>6 DEF AppView, View
  <2>2. \A u \in Threads : AppSaves(u)' => AppSaves(u) /\ SameCall(op'[u], op[u])
    BY <1>3, <1>6 DEF AppSaves, InSave, SameCall
  <2>3. ~raced' => \A u \in Threads : op'[u].pc = "write" => ProcOf[u] = "app"
    BY <1>3, <1>4, <1>5, ListParts
  <2> QED BY <1>1, <1>5, <2>1, <2>2, <2>3, ListFrame
<1>7. CASE ProcOf[t] = "app"
  <2> SUFFICES ASSUME ~raced'
      PROVE  /\ OnePerId(AppView')
             /\ \A id \in Ids : GetDeviceByID(AppView', id).key = paired'[id]
             /\ \A u \in Threads : AppSaves(u)' =>
                  /\ op'[u].list = Changed(op'[u], AppView')
                  /\ cache'["app"] = {} => AppView' = {}
                  /\ \A w \in Threads : AppSaves(w)' => w = u
             /\ \A u \in Threads : op'[u].pc = "write" => ProcOf[u] = "app"
    BY ListPartsAfter
  <2>1. ~raced /\ ~Disturbed(t) /\ seen = AppView
    BY <1>5, <1>7 DEF AppView
  <2>2. AppView' = AppView /\ cache'["app"] = AppView
    BY <1>0, <1>3, <1>5, <1>7, <2>1 DEF AppView, View
  <2>3. \A u \in Threads : AppSaves(u)' => u = t /\ o.pc = "save"
    BY <1>3, <1>4, <1>7, <2>1 DEF AppSaves, InSave, Disturbed
  <2>4. ASSUME NEW u \in Threads, AppSaves(u)'
        PROVE  op'[u].list = Changed(op'[u], AppView')
    <3>1. u = t /\ op'[u] = o /\ o.list = Changed(op[t], AppView)
          /\ o.kind = op[t].kind /\ o.arg = op[t].arg
      BY <1>3, <1>4, <2>1, <2>3, <2>4
    <3>2. Changed(o, AppView) = Changed(op[t], AppView)
      BY <3>1 DEF Changed
    <3> QED BY <2>2, <3>1, <3>2
  <2>5. \A u \in Threads : op'[u].pc = "write" => ProcOf[u] = "app"
    BY <1>3, <1>4, <2>1, ListParts
  <2>6. /\ OnePerId(AppView)
        /\ \A id \in Ids : GetDeviceByID(AppView, id).key = paired[id]
    BY <2>1, ListParts
  <2> QED BY <1>1, <2>2, <2>3, <2>4, <2>5, <2>6
<1> QED BY <1>6, <1>7

(* Opening the file takes nothing away that is not in the cache. *)
LEMMA SaveDevicesKeeps ==
  ASSUME StoreTypeOK, ListInv, NEW t \in Threads, SaveDevices(t)
  PROVE  ListInv'
<1>0. /\ ProcOf[t] \in Procs /\ op \in [Threads -> Ops] /\ op[t] \in Ops /\ raced \in BOOLEAN
  BY StoreParts, DeviceStoreAssumption
<1>1. op[t].pc = "save" /\ UNCHANGED <<cache, paired>>
  BY SaveDevicesDoes
<1>2. CASE /\ op' = [op EXCEPT ![t] = [op[t] EXCEPT !.pc = "write"]]
           /\ file' = Torn /\ raced' = (raced \/ ProcOf[t] # "app")
  <2>1. PICK o \in Ops : o = [op[t] EXCEPT !.pc = "write"]
    BY <1>0 DEF Ops
  <2>2. SameCall(o, op[t]) /\ o.pc = "write"
    BY <1>0, <2>1 DEF Ops, SameCall
  <2>3. \A u \in Threads : op'[u] = IF u = t THEN o ELSE op[u]
    BY <1>0, <1>2, <2>1
  <2>4. ASSUME ~raced' PROVE ~raced /\ ProcOf[t] = "app" /\ AppSaves(t)
    BY <1>0, <1>1, <1>2, <2>4 DEF AppSaves, InSave
  <2>5. ASSUME ~raced' PROVE AppView' = AppView
    <3>1. cache["app"] = {} => AppView = {}
      BY <2>4, <2>5, ListParts
    <3> QED BY <1>1, <1>2, <3>1 DEF AppView, View, Load, Torn
  <2>6. \A u \in Threads : AppSaves(u)' => AppSaves(u) /\ SameCall(op'[u], op[u])
    BY <1>1, <2>2, <2>3 DEF AppSaves, InSave, SameCall
  <2>7. ASSUME ~raced', NEW u \in Threads, op'[u].pc = "write" PROVE ProcOf[u] = "app"
    BY <2>3, <2>4, <2>7, ListParts
  <2> QED BY <1>1, <2>4, <2>5, <2>6, <2>7, ListFrame
<1>3. CASE /\ op' = [op EXCEPT ![t] = [op[t] EXCEPT !.pc = "done"]]
           /\ UNCHANGED <<file, lock, raced>>
  <2>1. PICK o \in Ops : o = [op[t] EXCEPT !.pc = "done"]
    BY <1>0 DEF Ops
  <2>2. o.pc = "done"
    BY <1>0, <2>1 DEF Ops
  <2>3. \A u \in Threads : op'[u] = IF u = t THEN o ELSE op[u]
    BY <1>0, <1>3, <2>1
  <2>4. AppView' = AppView
    BY <1>1, <1>3 DEF AppView, View, Load
  <2>5. \A u \in Threads : AppSaves(u)' => AppSaves(u) /\ SameCall(op'[u], op[u])
    BY <2>2, <2>3 DEF AppSaves, InSave, SameCall
  <2>6. ~raced => \A u \in Threads : op'[u].pc = "write" => ProcOf[u] = "app"
    BY <2>2, <2>3, ListParts
  <2> QED BY <1>1, <1>3, <2>4, <2>5, <2>6, ListFrame
<1> QED BY <1>2, <1>3, SaveDevicesDoes

(* The list is written, and is what the process takes it to be from then on;
   or the write fails, and the process keeps what it has. *)
LEMMA WriteBytesKeeps ==
  ASSUME StoreTypeOK, ListInv, NEW t \in Threads, WriteBytes(t)
  PROVE  ListInv'
<1>0. /\ ProcOf[t] \in Procs /\ op \in [Threads -> Ops] /\ op[t] \in Ops /\ raced \in BOOLEAN
      /\ cache \in [Procs -> SUBSET Entry] /\ AppView \in SUBSET Entry /\ "app" \in Procs
  BY StoreParts, DeviceStoreAssumption DEF AppView
<1> SUFFICES ASSUME ~raced' PROVE ListInv'
  BY ListPartsAfter
<1>1. op[t].pc = "write" /\ UNCHANGED raced /\ ~raced
  BY <1>0, WriteBytesDoes
<1>2. ProcOf[t] = "app" /\ AppSaves(t)
  BY <1>1, ListParts DEF AppSaves, InSave
<1>3. /\ op[t].list = Changed(op[t], AppView)
      /\ cache["app"] = {} => AppView = {}
      /\ \A u \in Threads : AppSaves(u) => u = t
      /\ OnePerId(AppView)
      /\ \A id \in Ids : GetDeviceByID(AppView, id).key = paired[id]
      /\ \A u \in Threads : op[u].pc = "write" => ProcOf[u] = "app"
  BY <1>1, <1>2, ListParts
<1>4. PICK o \in Ops : /\ op' = [op EXCEPT ![t] = o] /\ o.pc = "done"
  <2>1. /\ [op[t] EXCEPT !.pc = "done", !.ok = TRUE] \in Ops
        /\ [op[t] EXCEPT !.pc = "done"] \in Ops
        /\ [op[t] EXCEPT !.pc = "done", !.ok = TRUE].pc = "done"
        /\ [op[t] EXCEPT !.pc = "done"].pc = "done"
    BY <1>0 DEF Ops
  <2> QED BY <2>1, WriteBytesDoes
<1>5. \A u \in Threads : op'[u] = IF u = t THEN o ELSE op[u]
  BY <1>0, <1>4
<1>6. \A u \in Threads : ~AppSaves(u)' /\ (op'[u].pc = "write" => ProcOf[u] = "app")
  BY <1>3, <1>4, <1>5 DEF AppSaves, InSave
<1>7. CASE /\ file' \in {Complete(op[t].list), Torn}
           /\ cache' = [cache EXCEPT ![ProcOf[t]] = op[t].list]
           /\ paired' = PairedAfter(op[t])
  <2>1. AppView' = op[t].list
    <3>1. cache'["app"] = op[t].list
      BY <1>0, <1>2, <1>7
    <3>2. op[t].list = {} => Load' = {}
      BY <1>7 DEF Load, Complete, Torn
    <3> QED BY <3>1, <3>2 DEF AppView, View
  <2>2. OnePerId(AppView')
    BY <1>0, <1>3, <2>1, ChangedTyped
  <2>3. ASSUME NEW id \in Ids
        PROVE  GetDeviceByID(AppView', id).key = paired'[id]
    <3>1. GetDeviceByID(AppView', id).key =
            IF op[t].kind = "add" /\ op[t].arg.id = id THEN op[t].arg.key
            ELSE IF op[t].kind = "remove" /\ op[t].arg.id = id THEN 0
            ELSE IF op[t].kind = "remove_method"
                    /\ GetDeviceByID(AppView, id).method = op[t].arg.method
            THEN 0 ELSE GetDeviceByID(AppView, id).key
      BY <1>0, <1>3, <2>1, LookupChanged
    <3> QED BY <1>3, <1>7, <3>1 DEF PairedAfter, AppView
  <2> QED BY <1>6, <2>2, <2>3, ListPartsAfter
<1>8. CASE file' = Torn /\ UNCHANGED <<cache, paired>>
  <2>1. AppView' = AppView
    BY <1>3, <1>8 DEF AppView, View, Load, Torn
  <2> QED BY <1>1, <1>6, <1>8, <2>1, ListFrame
<1> QED BY <1>7, <1>8, WriteBytesDoes

(* A step of a storage call keeps what the application takes the list to be, or
   makes it the list that was written. *)
LEMMA StoreStepKeeps ==
  ASSUME StoreTypeOK, ListInv, NEW t \in Threads, StoreStep(t)
  PROVE  ListInv'
BY GetDevicesKeeps, SaveDevicesKeeps, WriteBytesKeeps DEF StoreStep

-----------------------------------------------------------------------------
(* Every variable stays in its type. *)

Forms ==
  [step : Steps, stack : Seq(Steps), view : {"main", "wizard"}, method : Methods,
   skip : BOOLEAN]

Events == {"success", "error"}

Dones ==
  [isDone : BOOLEAN, error : BOOLEAN, verdict : {"none", "canceled", "error", "paired"}]

Scans == [pc : {"none", "scan", "ended"}, running : BOOLEAN]

Counts == [sessions : Nat, commands : Nat, keys : Nat]

UiSteppings ==
  {"idle", "stop_poll", "join_poll", "stop_server", "join_server", "enter", "wait", "verdict",
   "exited"}

LEMMA TypeParts ==
  ASSUME TypeOK
  PROVE  /\ StoreTypeOK /\ SessionTypeOK /\ form \in Forms /\ ui \in UiSteppings
         /\ queue \in Seq(Events) /\ done \in Dones /\ scan \in Scans /\ counts \in Counts
BY DEF TypeOK, Forms, UiSteppings, Events, Dones, Scans, Counts

LEMMA TypePartsAfter ==
  ASSUME StoreTypeOK', SessionTypeOK', form' \in Forms, ui' \in UiSteppings,
         queue' \in Seq(Events), done' \in Dones, scan' \in Scans, counts' \in Counts
  PROVE  TypeOK'
BY DEF TypeOK, Forms, UiSteppings, Events, Dones, Scans, Counts

LEMMA NextFormTyped ==
  ASSUME NEW f \in Forms
  PROVE  NextForm(f) \in Forms
<1>1. GetNextStep(f) \in Steps
  BY DEF GetNextStep, Steps
<1>2. PICK s \in Steps : s = GetNextStep(f)
  BY <1>1
<1>3. f.step \in Steps /\ f.stack \in Seq(Steps)
  BY DEF Forms
<1>4. PICK k \in Seq(Steps) :
        k = IF f.step \in {"NONE", "BLUETOOTH_PAIRING"} THEN f.stack ELSE Append(f.stack, f.step)
  <2>1. Append(f.stack, f.step) \in Seq(Steps)
    BY <1>3
  <2> QED BY <1>3, <2>1
<1>5. NextForm(f) = [f EXCEPT !.stack = k, !.step = s, !.skip = FALSE]
  BY <1>2, <1>4 DEF NextForm
<1> QED BY <1>5 DEF Forms

LEMMA BackFormTyped ==
  ASSUME NEW f \in Forms
  PROVE  BackForm(f) \in Forms
<1>1. f.stack \in Seq(Steps)
  BY DEF Forms
<1>2. CASE f.stack = <<>>
  BY <1>2 DEF BackForm, Forms
<1>3. CASE f.stack # <<>>
  <2>1. PICK s \in Steps : s = f.stack[Len(f.stack)]
    BY <1>1, <1>3
  <2>2. PICK k \in Seq(Steps) : k = SubSeq(f.stack, 1, Len(f.stack) - 1)
    <3>1. Len(f.stack) \in Nat \ {0} /\ 1 \in Int /\ Len(f.stack) - 1 \in Int
      BY <1>1, <1>3
    <3>2. SubSeq(f.stack, 1, Len(f.stack) - 1) \in Seq(Steps)
      BY <1>1, <3>1, SubSeqProperties
    <3> QED BY <3>2
  <2>3. BackForm(f) = [f EXCEPT !.step = s, !.stack = k]
    BY <1>3, <2>1, <2>2 DEF BackForm
  <2> QED BY <2>3 DEF Forms
<1> QED BY <1>2, <1>3

(* A report of a thread. *)
LEMMA ReportTyped ==
  ASSUME TypeOK, NEW kind \in Events, Report(kind) \/ ReportWhileRunning(kind) \/ Silent
  PROVE  queue' \in Seq(Events) /\ done' \in Dones
<1>0. queue \in Seq(Events) /\ done \in Dones
  BY TypeParts
<1>1. CASE Report(kind)
  <2>1. \A e : e \in BOOLEAN => [done EXCEPT !.isDone = TRUE, !.error = e] \in Dones
    BY <1>0 DEF Dones
  <2>2. (done.error \/ (kind = "error" /\ ~done.isDone)) \in BOOLEAN
    OBVIOUS
  <2>3. Append(queue, kind) \in Seq(Events)
    BY <1>0
  <2> QED BY <1>0, <1>1, <2>1, <2>2, <2>3 DEF Report
<1>2. CASE Silent
  BY <1>0, <1>2 DEF Silent
<1> QED BY <1>1, <1>2 DEF ReportWhileRunning

(* Where the user interface goes. *)
LEMMA GotoTyped ==
  ASSUME NEW f \in Forms, Goto(f)
  PROVE  form' \in Forms /\ ui' \in UiSteppings
BY DEF Goto, UiSteppings

(* A call that begins. *)
LEMMA CallTyped ==
  ASSUME StoreTypeOK, NEW t \in Threads, NEW arg \in Entry,
         NEW kind \in {"list", "add", "remove", "remove_method", "ssh"},
         NEW lookup \in BOOLEAN, Call(t, kind, arg, lookup)
  PROVE  \E o \in Ops : op' = [op EXCEPT ![t] = o] /\ o.pc \in {"find", "get"}
<1>1. PICK l \in {"find", "get"} : l = IF lookup THEN "find" ELSE "get"
  OBVIOUS
<1>2. PICK o \in Ops : o = [IdleOp EXCEPT !.pc = l, !.kind = kind, !.arg = arg]
  BY IdleOpTyped DEF Ops
<1>3. o.pc = l
  BY <1>2, IdleOpTyped DEF Ops
<1> QED BY <1>1, <1>2, <1>3 DEF Call

(* The steps that touch the storage only by beginning or ending a call. *)
OneCall ==
  /\ \E t \in Threads : \E o \in Ops :
       op' = [op EXCEPT ![t] = o] /\ o.pc \in {"idle", "find", "get"}
  /\ \A p \in Procs : p # "cli" => cache'[p] = cache[p]
  /\ cache' \in [Procs -> SUBSET Entry]
  /\ UNCHANGED <<file, lock, paired, raced>>

LEMMA OneCallTyped ==
  ASSUME StoreTypeOK, OneCall
  PROVE  StoreTypeOK'
<1>1. PICK t \in Threads, o \in Ops : op' = [op EXCEPT ![t] = o]
  BY DEF OneCall
<1>2. op' \in [Threads -> Ops]
  BY <1>1, StoreParts
<1> QED BY <1>2, StoreParts, StorePartsAfter DEF OneCall

LEMMA OneCallKeeps ==
  ASSUME StoreTypeOK, ListInv, OneCall
  PROVE  ListInv'
<1>0. op \in [Threads -> Ops] /\ "app" \in Procs /\ raced \in BOOLEAN
  BY StoreParts, DeviceStoreAssumption
<1>1. PICK t \in Threads, o \in Ops :
        op' = [op EXCEPT ![t] = o] /\ o.pc \in {"idle", "find", "get"}
  BY DEF OneCall
<1>2. \A u \in Threads : op'[u] = IF u = t THEN o ELSE op[u]
  BY <1>0, <1>1
<1>3. cache'["app"] = cache["app"] /\ UNCHANGED <<file, paired, raced>>
  BY <1>0 DEF OneCall
<1>4. AppView' = AppView
  BY <1>3 DEF AppView, View, Load
<1>5. \A u \in Threads : AppSaves(u)' => AppSaves(u) /\ SameCall(op'[u], op[u])
  BY <1>1, <1>2 DEF AppSaves, InSave, SameCall
<1>6. ~raced => \A u \in Threads : op'[u].pc = "write" => ProcOf[u] = "app"
  BY <1>1, <1>2, ListParts
<1> QED BY <1>3, <1>4, <1>5, <1>6, ListFrame

(* HandleClient begins and ends its call of AddDevice. *)
LEMMA HandleRespondCalls ==
  ASSUME TypeOK, NEW c \in Clients, HandleRespond(c)
  PROVE  OneCall \/ UNCHANGED storeVars
<1>0. /\ StoreTypeOK /\ c \in Threads /\ form.method \in Methods
      /\ client[c].id \in Ids \cup {"none"} /\ counts.keys \in Nat
  BY TypeParts, PairingAssumption DEF SessionTypeOK, Forms, Counts
<1>1. CASE Call(c, "add", [id |-> client[c].id, method |-> form.method,
                           key |-> counts.keys + 1], FALSE)
  <2>1. [id |-> client[c].id, method |-> form.method, key |-> counts.keys + 1] \in Entry
    BY <1>0 DEF Entry
  <2>2. \E o \in Ops : op' = [op EXCEPT ![c] = o] /\ o.pc \in {"find", "get"}
    BY <1>0, <1>1, <2>1, CallTyped
  <2>3. UNCHANGED <<file, cache, lock, paired, raced>>
    BY DEF HandleRespond
  <2> QED BY <1>0, <2>2, <2>3, StoreParts DEF OneCall
<1>2. CASE UNCHANGED op
  BY <1>2 DEF HandleRespond, storeVars
<1> QED BY <1>1, <1>2 DEF HandleRespond

LEMMA HandleStoredCalls ==
  ASSUME TypeOK, NEW c \in Clients, HandleStored(c)
  PROVE  OneCall
BY TypeParts, StoreParts, IdleOpTyped, PairingAssumption DEF HandleStored, OneCall

(* The other users of the list begin and end their calls. *)
LEMMA UiCallCalls ==
  ASSUME TypeOK, UiCall
  PROVE  OneCall
<1>0. StoreTypeOK /\ "ui" \in Threads
  BY TypeParts, PairingAssumption
<1>1. /\ \A id \in Ids : Arg(id) \in Entry
      /\ \A m \in Methods : [NoDevice EXCEPT !.method = m] \in Entry
      /\ NoDevice \in Entry
  BY DEF Arg, NoDevice, Entry
<1>2. \E o \in Ops : op' = [op EXCEPT !["ui"] = o] /\ o.pc \in {"find", "get"}
  <2>1. CASE Call("ui", "list", NoDevice, FALSE)
    BY <1>0, <1>1, <2>1, CallTyped
  <2>2. CASE \E id \in Ids : Call("ui", "remove", Arg(id), FALSE)
    BY <1>0, <1>1, <2>2, CallTyped
  <2>3. CASE \E m \in Methods : Call("ui", "remove_method", [NoDevice EXCEPT !.method = m], FALSE)
    BY <1>0, <1>1, <2>3, CallTyped
  <2>4. CASE \E id \in Ids : Call("ui", "ssh", Arg(id), TRUE)
    BY <1>0, <1>1, <2>4, CallTyped
  <2> QED BY <2>1, <2>2, <2>3, <2>4 DEF UiCall
<1>3. UNCHANGED <<file, cache, lock, paired, raced>>
  BY DEF UiCall
<1> QED BY <1>0, <1>2, <1>3, StoreParts DEF OneCall

LEMMA CommandCallCalls ==
  ASSUME TypeOK, CommandCall
  PROVE  OneCall
<1>0. StoreTypeOK /\ "cmd" \in Threads
  BY TypeParts, PairingAssumption
<1>1. \A id \in Ids : Arg(id) \in Entry
  BY DEF Arg, NoDevice, Entry
<1>2. \E o \in Ops : op' = [op EXCEPT !["cmd"] = o] /\ o.pc \in {"find", "get"}
  BY <1>0, <1>1, CallTyped DEF CommandCall
<1>3. UNCHANGED <<file, cache, lock, paired, raced>>
  BY DEF CommandCall
<1> QED BY <1>0, <1>2, <1>3, StoreParts DEF OneCall

LEMMA CallReturnsCalls ==
  ASSUME TypeOK, NEW t \in Threads, CallReturns(t)
  PROVE  OneCall
<1>0. StoreTypeOK /\ cache \in [Procs -> SUBSET Entry]
  BY TypeParts, StoreParts
<1>1. /\ op' = [op EXCEPT ![t] = IdleOp] /\ UNCHANGED <<file, lock, paired, raced>>
      /\ cache' = cache \/ cache' = [cache EXCEPT !["cli"] = {}]
  BY DEF CallReturns, InvalidateCache
<1> QED BY <1>0, <1>1, IdleOpTyped DEF OneCall

(* The application crashes: what it takes the list to be is what the file
   holds, which was what its cache held. *)
LEMMA CrashKeepsList ==
  ASSUME StoreTypeOK, ListInv, Crash
  PROVE  StoreTypeOK' /\ ListInv'
<1>0. /\ op \in [Threads -> Ops] /\ cache \in [Procs -> SUBSET Entry] /\ "app" \in Procs
      /\ raced \in BOOLEAN /\ lock \in [Procs -> Threads \cup {NoThread}]
  BY StoreParts, DeviceStoreAssumption
<1>1. /\ raced' = (raced \/ file.state = "torn" \/ cache["app"] # Load)
      /\ cache' = [cache EXCEPT !["app"] = {}] /\ lock' = [lock EXCEPT !["app"] = NoThread]
      /\ op' = [t \in Threads |-> IF ProcOf[t] = "app" THEN IdleOp ELSE op[t]]
      /\ UNCHANGED <<file, paired>>
  BY DEF Crash, InvalidateCache
<1>2. /\ cache' \in [Procs -> SUBSET Entry] /\ cache'["app"] = {}
      /\ lock' \in [Procs -> Threads \cup {NoThread}]
      /\ op' \in [Threads -> Ops] /\ raced' \in BOOLEAN
      /\ \A t \in Threads : op'[t] = IF ProcOf[t] = "app" THEN IdleOp ELSE op[t]
  BY <1>0, <1>1, IdleOpTyped
<1>3. StoreTypeOK'
  BY <1>1, <1>2, StoreParts, StorePartsAfter
<1>4. \A t \in Threads : ~AppSaves(t)'
  BY <1>2, IdleOpTyped DEF AppSaves, InSave
<1>5. ASSUME ~raced'
      PROVE  /\ ~raced /\ AppView' = AppView
             /\ \A t \in Threads : op'[t].pc = "write" => ProcOf[t] = "app"
  <2>1. ~raced /\ cache["app"] = Load
    BY <1>0, <1>1, <1>5
  <2>2. AppView = Load
    BY <2>1 DEF AppView, View
  <2>3. AppView' = Load'
    BY <1>2 DEF AppView, View
  <2>4. Load' = Load
    BY <1>1 DEF Load
  <2> QED BY <1>2, <2>1, <2>2, <2>3, <2>4, ListParts
<1> QED BY <1>1, <1>3, <1>4, <1>5, ListFrame

(* The steps that leave the storage alone. *)
LEMMA StoreFrame ==
  ASSUME UNCHANGED storeVars
  PROVE  /\ StoreTypeOK => StoreTypeOK'
         /\ ListInv => ListInv'
<1>1. UNCHANGED <<file, cache, lock, op, paired, raced>>
  BY DEF storeVars
<1>2. StoreTypeOK => StoreTypeOK'
  BY <1>1 DEF StoreTypeOK
<1>3. ASSUME ListInv PROVE ListInv'
  <2>1. AppView' = AppView
    BY <1>1 DEF AppView, View, Load
  <2>2. \A t \in Threads : AppSaves(t)' => AppSaves(t) /\ SameCall(op'[t], op[t])
    BY <1>1 DEF AppSaves, InSave, SameCall
  <2>3. ~raced => \A t \in Threads : op'[t].pc = "write" => ProcOf[t] = "app"
    BY <1>1, <1>3, ListParts
  <2> QED BY <1>1, <1>3, <2>1, <2>2, <2>3, ListFrame
<1> QED BY <1>2, <1>3

(* What every step does to the storage. *)
LEMMA StoreDoes ==
  ASSUME TypeOK, [Next]_vars
  PROVE  \/ UNCHANGED storeVars \/ OneCall \/ Crash
         \/ \E t \in Threads : StoreStep(t)
<1>1. CASE StoreSteps \/ Crash \/ UNCHANGED vars
  BY <1>1 DEF StoreSteps, vars
<1>2. CASE \E c \in Clients : ClientSteps(c)
  BY <1>2, HandleRespondCalls, HandleStoredCalls DEF ClientSteps, ClientStarts, HandleRead
<1>3. CASE UiSteps \/ CommandCall \/ \E t \in Threads : CallReturns(t)
  BY <1>3, UiCallCalls, CommandCallCalls, CallReturnsCalls
     DEF UiSteps, Show, SetData, OnNextClicked, OnBackClicked
<1>4. CASE \/ StopSteps \/ CommandSteps \/ FinishBluetoothPairing \/ OnPairingEvent
           \/ ScanThread \/ CommandInterrupted
  BY <1>4 DEF StopSteps, StopCloudPolling, JoinPoll, StopServer, JoinServer, EnterStep,
              CommandSteps, CommandDone, CommandVerdict, CommandEnds, FinishBluetoothPairing,
              OnPairingEvent, ScanThread, CommandInterrupted
<1>5. CASE PollExpired \/ PollSteps \/ AcceptSteps \/ AcceptClient
  BY <1>5 DEF PollExpired, PollSteps, PollReportsExpiry, PollRequest, PollAnswer,
              AcceptSteps, AcceptInit, AcceptEnds, AcceptJoins, AcceptClient
<1> QED BY <1>1, <1>2, <1>3, <1>4, <1>5 DEF Next

LEMMA StoreKeeps ==
  ASSUME TypeOK, ListInv, [Next]_vars
  PROVE  ListInv'
<1>1. StoreTypeOK
  BY TypeParts
<1> QED BY <1>1, StoreDoes, StoreFrame, OneCallKeeps, CrashKeepsList, StoreStepKeeps

LEMMA StoreTyped ==
  ASSUME TypeOK, [Next]_vars
  PROVE  StoreTypeOK'
<1>1. StoreTypeOK
  BY TypeParts
<1>2. CASE Crash
  <2>1. /\ cache' = [cache EXCEPT !["app"] = {}] /\ lock' = [lock EXCEPT !["app"] = NoThread]
        /\ op' = [t \in Threads |-> IF ProcOf[t] = "app" THEN IdleOp ELSE op[t]]
        /\ UNCHANGED <<file, paired>> /\ raced' \in BOOLEAN
    BY <1>2 DEF Crash, InvalidateCache
  <2>2. /\ cache' \in [Procs -> SUBSET Entry] /\ op' \in [Threads -> Ops]
        /\ lock' \in [Procs -> Threads \cup {NoThread}]
    BY <1>1, <2>1, StoreParts, IdleOpTyped, DeviceStoreAssumption
  <2> QED BY <1>1, <2>1, <2>2, StoreParts, StorePartsAfter
<1> QED BY <1>1, <1>2, StoreDoes, StoreFrame, OneCallTyped, StoreStepTyped

(* What every step does to the front end. *)
LEMMA FrontTyped ==
  ASSUME TypeOK, [Next]_vars
  PROVE  /\ form' \in Forms /\ ui' \in UiSteppings /\ queue' \in Seq(Events)
         /\ done' \in Dones /\ scan' \in Scans /\ counts' \in Counts
<1>0. /\ form \in Forms /\ ui \in UiSteppings /\ queue \in Seq(Events) /\ done \in Dones
      /\ scan \in Scans /\ counts \in Counts
  BY TypeParts
<1>1. /\ \A v \in {"main", "wizard"} : [form EXCEPT !.view = v] \in Forms
      /\ \A m \in Methods : [form EXCEPT !.method = m] \in Forms
      /\ [form EXCEPT !.skip = TRUE] \in Forms
      /\ NextForm(form) \in Forms /\ BackForm(form) \in Forms
  BY <1>0, NextFormTyped, BackFormTyped DEF Forms
<1>2. /\ IdleForm \in Forms
      /\ [IdleForm EXCEPT !.step = "USER_PASSWORD_SELECT", !.view = "wizard"] \in Forms
  <2>1. IdleForm \in Forms
    BY PairingAssumption DEF IdleForm, Forms, Steps
  <2> QED BY <2>1 DEF Forms, Steps
<1>3. /\ [counts EXCEPT !.sessions = @ + 1] \in Counts
      /\ [counts EXCEPT !.commands = @ + 1] \in Counts
      /\ [counts EXCEPT !.keys = @ + 1] \in Counts
  BY <1>0 DEF Counts
<1>4. /\ [scan EXCEPT !.running = FALSE] \in Scans /\ [scan EXCEPT !.pc = "ended"] \in Scans
      /\ [pc |-> "scan", running |-> TRUE] \in Scans
      /\ [pc |-> "none", running |-> FALSE] \in Scans
  BY <1>0 DEF Scans
<1>5. CASE StoreSteps \/ UNCHANGED vars \/ \E t \in Threads : CallReturns(t)
  BY <1>0, <1>5 DEF StoreSteps, vars, pairVars, CallReturns
<1>6. CASE Show \/ SetData \/ UiCall \/ CommandCall
  <2>1. UNCHANGED <<ui, queue, done, scan>>
    BY <1>6 DEF Show, SetData, UiCall, CommandCall
  <2>2. form' \in Forms /\ counts' \in Counts
    BY <1>0, <1>1, <1>2, <1>3, <1>6 DEF Show, SetData, UiCall, CommandCall
  <2> QED BY <1>0, <2>1, <2>2
<1>7. CASE OnNextClicked \/ OnBackClicked \/ FinishBluetoothPairing \/ OnPairingEvent
  <2>1. UNCHANGED <<done, scan, counts>> /\ (queue' = queue \/ (queue # <<>> /\ queue' = Tail(queue)))
    BY <1>7 DEF OnNextClicked, OnBackClicked, FinishBluetoothPairing, OnPairingEvent
  <2>2. \/ \E f \in {NextForm(form), BackForm(form)} : Goto(f)
        \/ form' = [form EXCEPT !.skip = TRUE] /\ UNCHANGED ui
        \/ UNCHANGED <<form, ui>>
    BY <1>7 DEF OnNextClicked, OnBackClicked, FinishBluetoothPairing, OnPairingEvent
  <2>3. form' \in Forms /\ ui' \in UiSteppings
    BY <1>0, <1>1, <2>2, GotoTyped
  <2>4. queue' \in Seq(Events)
    BY <1>0, <2>1
  <2> QED BY <1>0, <2>1, <2>3, <2>4
<1>8. CASE StopCloudPolling \/ JoinPoll \/ StopServer \/ JoinServer \/ CommandInterrupted \/ CommandDone
  BY <1>0, <1>8 DEF StopCloudPolling, JoinPoll, StopServer, JoinServer, CommandInterrupted,
                    CommandDone, CommandEnds, UiSteppings
<1>9. CASE EnterStep
  <2>1. UNCHANGED <<queue, done>> /\ ui' \in UiSteppings
    BY <1>9 DEF EnterStep, UiSteppings
  <2>2. form' \in Forms
    BY <1>1, <1>9 DEF EnterStep
  <2>3. scan' \in Scans
    BY <1>4, <1>9 DEF EnterStep
  <2>4. counts' \in Counts
    BY <1>0, <1>3, <1>9 DEF EnterStep, StartSession
  <2> QED BY <1>0, <2>1, <2>2, <2>3, <2>4
<1>10. CASE CommandVerdict
  <2>1. [done EXCEPT !.verdict = Verdict(done)] \in Dones
    BY <1>0 DEF Dones, Verdict
  <2> QED BY <1>0, <1>10, <2>1 DEF CommandVerdict, UiSteppings
<1>11. CASE ScanThread
  BY <1>0, <1>4, <1>11 DEF ScanThread
<1>12. CASE PollExpired \/ PollSteps
  <2>1. UNCHANGED <<form, ui, scan, counts>>
    BY <1>12 DEF PollExpired, PollSteps, PollReportsExpiry, PollRequest, PollAnswer
  <2>2. Report("error") \/ Silent
    BY <1>12 DEF PollExpired, PollSteps, PollReportsExpiry, PollRequest, PollAnswer, PollEnds,
                 Silent
  <2> QED BY <1>0, <2>1, <2>2, ReportTyped DEF Events
<1>13. CASE AcceptSteps \/ AcceptClient
  <2>1. UNCHANGED <<form, ui, scan, counts>>
    BY <1>13 DEF AcceptSteps, AcceptInit, AcceptEnds, AcceptJoins, AcceptClient
  <2>2. ReportWhileRunning("error") \/ Silent
    BY <1>13 DEF AcceptSteps, AcceptInit, AcceptEnds, AcceptJoins, AcceptClient, Silent
  <2> QED BY <1>0, <2>1, <2>2, ReportTyped DEF Events
<1>14. CASE \E c \in Clients : ClientSteps(c)
  <2>1. /\ UNCHANGED <<form, ui, scan>>
        /\ counts' = counts \/ counts' = [counts EXCEPT !.keys = @ + 1]
    BY <1>14 DEF ClientSteps, ClientStarts, HandleRead, HandleRespond, HandleStored
  <2>2. ReportWhileRunning("error") \/ ReportWhileRunning("success") \/ Silent
    BY <1>14 DEF ClientSteps, ClientStarts, HandleRead, HandleRespond, HandleStored
  <2> QED BY <1>0, <1>3, <2>1, <2>2, ReportTyped DEF Events
<1>15. CASE Crash
  <2>1. /\ form' = IdleForm /\ ui' = "idle" /\ queue' = <<>> /\ UNCHANGED done
        /\ scan' = [pc |-> "none", running |-> FALSE]
        /\ counts' = [counts EXCEPT !.commands = @ + 1]
    BY <1>15 DEF Crash
  <2> QED BY <1>0, <1>2, <1>3, <1>4, <2>1 DEF UiSteppings
<1> QED
  BY <1>5, <1>6, <1>7, <1>8, <1>9, <1>10, <1>11, <1>12, <1>13, <1>14, <1>15
     DEF Next, UiSteps, StopSteps, CommandSteps

(* In every state of a pairing the variables have their types. *)
THEOREM PairingTypeInvariant == Spec => []TypeOK
<1>1. Init => TypeOK
  <2> SUFFICES ASSUME Init PROVE TypeOK
    OBVIOUS
  <2>1. SessionTypeOK
    BY DEF Init, SessionTypeOK, NoServer, NoPoll, NoClient
  <2>2. StoreTypeOK
    <3>1. file \in Files /\ file.list \in SUBSET Entry
      BY PairingAssumption DEF Init, StoreInit, StoredFile, Files
    <3>2. \A id : GetDeviceByID(file.list, id).key \in Nat
      BY <3>1, LookupTyped DEF Entry
    <3>3. paired \in [Ids -> Nat]
      BY <3>2 DEF Init, StoreInit
    <3>4. /\ cache \in [Procs -> SUBSET Entry] /\ op \in [Threads -> Ops]
          /\ lock \in [Procs -> Threads \cup {NoThread}] /\ raced \in BOOLEAN
      BY IdleOpTyped DEF Init, StoreInit
    <3> QED BY <3>1, <3>3, <3>4 DEF StoreTypeOK, Ops
  <2>3. form \in Forms
    <3>1. IdleForm \in Forms
      BY PairingAssumption DEF IdleForm, Forms, Steps
    <3>2. \A m \in Methods :
            [IdleForm EXCEPT !.step = "QR_SCAN", !.view = "wizard", !.method = m] \in Forms
      BY <3>1 DEF Forms, Steps
    <3> QED BY <3>1, <3>2 DEF Init
  <2>4. /\ ui \in UiSteppings /\ queue = <<>> /\ done \in Dones /\ scan \in Scans
        /\ counts \in Counts
    BY DEF Init, UiSteppings, Dones, Scans, Counts
  <2>5. queue \in Seq(Events)
    BY <2>4
  <2> QED BY <2>1, <2>2, <2>3, <2>4, <2>5
      DEF TypeOK, Forms, UiSteppings, Events, Dones, Scans, Counts
<1>2. SessionInv' /\ TypeOK /\ [Next]_vars => TypeOK'
  BY StoreTyped, FrontTyped, TypePartsAfter DEF SessionInv
<1> QED BY <1>1, <1>2, SessionInvariant, PTL DEF Spec

(* In every state of a pairing, whatever a thread of the application is about
   to write is its change of the list the application goes by. *)
THEOREM ListInvariant == Spec => []ListInv
<1>1. Init => ListInv
  <2> SUFFICES ASSUME Init PROVE ListInv
    OBVIOUS
  <2>1. /\ StoredFile(file) /\ cache["app"] = {}
        /\ \A t \in Threads : op[t] = IdleOp
        /\ \A id \in Ids : paired[id] = GetDeviceByID(file.list, id).key
    BY PairingAssumption, DeviceStoreAssumption DEF Init, StoreInit
  <2>2. View("app") = file.list /\ OnePerId(file.list)
    BY <2>1 DEF View, Load, StoredFile
  <2>3. \A t \in Threads : ~AppSaves(t) /\ op[t].pc # "write"
    BY <2>1, IdleOpTyped DEF AppSaves, InSave
  <2> QED BY <2>1, <2>2, <2>3 DEF ListInv, SavingInv, PairedIsKept
<1>2. TypeOK /\ ListInv /\ [Next]_vars => ListInv'
  BY StoreKeeps
<1> QED BY <1>1, <1>2, PairingTypeInvariant, PTL DEF Spec

(* A device that was paired stays in the list with the key it was last stored
   with, and one that was removed stays out of it: AddDevice, RemoveDevice and
   RemoveDevicesWithMethod lose nothing, whichever accesses to the file fail,
   as long as the calls of the application do not overlap and no other process
   has written (PairedDevicesStorage). *)
THEOREM PairedDevicesKept == Spec => []PairedIsKept
<1>1. ListInv => PairedIsKept
  BY DEF ListInv
<1> QED BY <1>1, ListInvariant, PTL
==============================================================================
