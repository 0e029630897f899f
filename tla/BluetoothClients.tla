-------------------------- MODULE BluetoothClients --------------------------
(***************************************************************************)
(* BTUnlockClient (common/src/connection/unlock/clients/BTUnlockClient.cpp) *)
(* on Windows and Linux: the clients of a request, each with the thread    *)
(* that connects and the thread of UnlockHandler that starts, polls and    *)
(* stops it.  On Windows every phone has two clients, which compete for    *)
(* its one channel, and all clients of the process share static flags      *)
(* that outlive the request.                                               *)
(*                                                                         *)
(* Left out: credentialSwitch, hasConnected, globalLastLogTime and the     *)
(* remembered user names, which only lengthen the delays before and in     *)
(* Stop(): any step here may take any time.  One timing is assumed: the    *)
(* threads of a request have all called Start() before the first           *)
(* connection is made, at least 250 ms and a Bluetooth connect later.      *)
(*                                                                         *)
(* A name that UnlockClient has too begins with BT here.                   *)
(***************************************************************************)
EXTENDS Naturals, FiniteSets

CONSTANTS Phones,          \* the user's Bluetooth phones
          MaxRequests,     \* bound: requests
          WaitRetries,     \* the retries of a connect that times out
          ConnectRetries,  \* clientConnectRetries
          Outcomes,        \* the states a phone's answer or a lost stream leaves
          Nothing

PhoneAnswers == {"TIME_ERROR", "NOT_PAIRED_ERROR", "APP_ERROR", "DATA_ERROR", "PROTOCOL_ERROR"}

ASSUME BluetoothAssumption ==
    /\ WaitRetries \in Nat /\ ConnectRetries \in Nat
    /\ Outcomes \subseteq PhoneAnswers \cup {"SUCCESS", "CANCELED", "TIMEOUT", "CONNECT_ERROR", "UNK_ERROR"}
    /\ MaxRequests \in Nat \ {0}
    /\ Nothing \notin PhoneAnswers \cup (Phones \X {"first", "other"})

VARIABLES
    windows,    \* the build
    requests,   \* requests so far, this one included
    active,     \* the caller's flag *m_IsRequestActive
    channel,    \* the client that holds the channel of each phone, or Nothing
    (* static members *)
    isAlreadyConnected, otherClientConnectedFirst, successfullConnect,
    pairErrors, \* per phone: the error and the clients that started before it
    (* of each client *)
    handler,    \* its thread of UnlockHandler: "start", "poll", "stopping", "joining", "done"
    pc,         \* its own thread
    running,    \* m_IsRunning
    stop,       \* m_StopRequested
    state,      \* m_UnlockState
    btPhase,    \* m_Phase
    hasConn,    \* m_HasConnected
    retries,    \* numRetries
    result      \* what RunServer reports

statics == <<isAlreadyConnected, otherClientConnectedFirst, successfullConnect>>
request == <<windows, requests>>
btVars == <<request, active, channel, statics, pairErrors, handler, pc, running, stop,
            state, btPhase, hasConn, retries, result>>

ClientsOf(p) == {<<p, "first">>} \cup (IF windows THEN {<<p, "other">>} ELSE {})
Clients == UNION {ClientsOf(p) : p \in Phones}
isOther(c) == c[2] = "other"

NoError == [error |-> Nothing, for |-> {}]

Each(v) == [c \in Clients |-> v]

BTInit ==
    /\ windows \in BOOLEAN
    /\ requests = 1 /\ active = TRUE
    /\ channel = [p \in Phones |-> Nothing]
    /\ isAlreadyConnected = FALSE /\ otherClientConnectedFirst = FALSE /\ successfullConnect = FALSE
    /\ pairErrors = [p \in Phones |-> NoError]
    /\ handler = Each("start") /\ pc = Each("idle") /\ running = Each(FALSE) /\ stop = Each(FALSE)
    /\ state = Each("UNKNOWN") /\ btPhase = Each("STARTING") /\ hasConn = Each(FALSE)
    /\ retries = Each(0) /\ result = Each(Nothing)

---------------------------------------------------------------------------
(* The thread of UnlockHandler. *)

IsPhoneError(s) == s \in PhoneAnswers

\* Only Windows passes the flag of the request on.
IsAbandoned(c) == stop[c] \/ (windows /\ ~active)

\* Mutant: an error of an earlier request applies too.
PollResultOld(c) ==
    IF IsPhoneError(state[c]) \/ state[c] = "SUCCESS" THEN state[c]
    ELSE IF pairErrors[c[1]].error # Nothing THEN pairErrors[c[1]].error
    ELSE IF isOther(c) /\ state[c] = "CONNECT_ERROR" /\ ~hasConn[c] /\ ~running[c] THEN "CANCELED"
    ELSE state[c]

\* A client takes over the error that the phone gave to its twin; a second
\* client that did not get the channel has not failed.
PollResult(c) ==
    IF IsPhoneError(state[c]) \/ state[c] = "SUCCESS" THEN state[c]
    ELSE IF c \in pairErrors[c[1]].for THEN pairErrors[c[1]].error
    ELSE IF isOther(c) /\ state[c] = "CONNECT_ERROR" /\ ~hasConn[c] /\ ~running[c] THEN "CANCELED"
    ELSE state[c]

\* ... and keeps its own for the clients started before it.
KeepError(c) ==
    pairErrors' = IF IsPhoneError(state[c])
                  THEN [pairErrors EXCEPT ![c[1]] =
                           [error |-> state[c], for |-> {d \in ClientsOf(c[1]) : handler[d] # "start"}]]
                  ELSE pairErrors

\* Start(): the flags are cleared, whatever the other clients are doing.
Start(c) ==
    /\ handler[c] = "start"
    /\ handler' = [handler EXCEPT ![c] = "poll"]
    /\ isAlreadyConnected' = FALSE /\ otherClientConnectedFirst' = FALSE /\ successfullConnect' = FALSE
    /\ pairErrors' = [pairErrors EXCEPT ![c[1]].for = @ \ {c}]
    /\ running' = [running EXCEPT ![c] = TRUE]
    /\ btPhase' = [btPhase EXCEPT ![c] = "CLIENT_CONNECTING"]
    /\ pc' = [pc EXCEPT ![c] = IF windows THEN "open" ELSE "search"]
    /\ UNCHANGED <<request, active, channel, stop, state, hasConn, retries, result>>

Won == \E c \in Clients : result[c] = "SUCCESS" /\ handler[c] = "done"
GivenUp == ~active \/ Won

Retrying(c) == PollResult(c) = "CONNECT_ERROR" /\ running[c]

\* RunServer leaves its loop with s and calls Stop().
Stop(c, s) ==
    /\ handler[c] = "poll"
    /\ result' = [result EXCEPT ![c] = s]
    /\ KeepError(c)
    /\ stop' = [stop EXCEPT ![c] = TRUE]
    /\ handler' = [handler EXCEPT ![c] = "stopping"]
    /\ UNCHANGED <<request, active, channel, statics, pc, running, state, btPhase, hasConn,
                   retries>>

\* The request was given up, or the client has a result.
StopDue(c) ==
    \/ GivenUp /\ Stop(c, "CANCELED")
    \/ ~GivenUp /\ PollResult(c) # "UNKNOWN" /\ ~Retrying(c) /\ Stop(c, PollResult(c))

\* The time is up, or the user holds the keys.
StopEarly(c) ==
    \/ PollResult(c) = "UNKNOWN" /\ btPhase[c] # "PHONE_UNLOCKING" /\ Stop(c, "TIMEOUT")
    \/ (PollResult(c) = "UNKNOWN" \/ Retrying(c)) /\ Stop(c, "CANCELED")

\* After the delays of Stop().
StopRunning(c) ==
    /\ handler[c] = "stopping"
    /\ running' = [running EXCEPT ![c] = FALSE]
    /\ handler' = [handler EXCEPT ![c] = "joining"]
    /\ UNCHANGED <<request, active, channel, statics, pairErrors, pc, stop, state, btPhase,
                   hasConn, retries, result>>

\* Stop() has joined the thread; on Windows the state is polled once more.
Joined(c) ==
    /\ handler[c] = "joining" /\ pc[c] = "ended"
    /\ LET again == windows /\ result[c] # "SUCCESS"
       IN  /\ result' = IF again /\ PollResult(c) # "UNKNOWN"
                        THEN [result EXCEPT ![c] = PollResult(c)] ELSE result
           /\ IF again THEN KeepError(c) ELSE UNCHANGED pairErrors
    /\ handler' = [handler EXCEPT ![c] = "done"]
    /\ UNCHANGED <<request, active, channel, statics, pc, running, stop, state, btPhase,
                   hasConn, retries>>

---------------------------------------------------------------------------
(* ConnectThread. *)

BTGoto(c, l) == pc' = [pc EXCEPT ![c] = l]
SetState(c, s) == state' = [state EXCEPT ![c] = s]

\* threadEnd is next: m_IsRunning is cleared and the socket closed there.
Give(c, s) == SetState(c, s) /\ BTGoto(c, "close")

\* Linux looks the channel up first.
FindSDPChannel(c) ==
    /\ pc[c] = "search"
    /\ \/ BTGoto(c, "open") /\ UNCHANGED <<running, state>>
       \/ /\ running' = [running EXCEPT ![c] = FALSE]
          /\ SetState(c, "CONNECT_ERROR") /\ BTGoto(c, "ended")
    /\ UNCHANGED <<request, active, channel, statics, pairErrors, handler, stop, btPhase,
                   hasConn, retries, result>>

\* socketStart: a retry forgets its error; the socket may fail.
OpenSocket(c) ==
    /\ pc[c] = "open"
    /\ \/ /\ SetState(c, IF state[c] = "CONNECT_ERROR" THEN "UNKNOWN" ELSE state[c])
          /\ BTGoto(c, "connect") /\ UNCHANGED running
       \/ /\ SetState(c, "UNK_ERROR") /\ BTGoto(c, "ended")
          /\ running' = [running EXCEPT ![c] = FALSE]
       \/ Give(c, "UNK_ERROR") /\ UNCHANGED running
    /\ UNCHANGED <<request, active, channel, statics, pairErrors, handler, stop, btPhase,
                   hasConn, retries, result>>

\* connect() is under way, or fails at once.
BTConnect(c) ==
    /\ pc[c] = "connect"
    /\ \/ IsAbandoned(c) /\ BTGoto(c, "close") /\ UNCHANGED state
       \/ ~IsAbandoned(c) /\ BTGoto(c, "wait") /\ UNCHANGED state
       \/ ~IsAbandoned(c) /\ Give(c, "CONNECT_ERROR")
    /\ UNCHANGED <<request, active, channel, statics, pairErrors, handler, running, stop,
                   btPhase, hasConn, retries, result>>

\* The connection is there: the phone has one channel.
BTConnected(c) ==
    /\ pc[c] = "wait"
    /\ channel[c[1]] = Nothing
    /\ \A d \in Clients : handler[d] # "start"   \* the timing assumed above
    /\ channel' = [channel EXCEPT ![c[1]] = c]
    /\ BTGoto(c, "check")
    /\ UNCHANGED <<request, active, statics, pairErrors, handler, running, stop, state,
                   btPhase, hasConn, retries, result>>

\* Mutant: the retries are not counted.
NotConnectedUncounted(c) ==
    /\ pc[c] = "wait"
    /\ \/ \E max \in {WaitRetries, ConnectRetries} :
             IF retries[c] < max /\ running[c]
             THEN SetState(c, "CONNECT_ERROR") /\ BTGoto(c, "open") /\ UNCHANGED retries
             ELSE Give(c, "CONNECT_ERROR") /\ UNCHANGED retries
       \/ Give(c, "UNK_ERROR") /\ UNCHANGED retries
    /\ UNCHANGED <<request, active, channel, statics, pairErrors, handler, running, stop,
                   btPhase, hasConn, result>>

\* It is not: a timeout, an error of the socket, or nobody wants it any more.
NotConnected(c) ==
    /\ pc[c] = "wait"
    /\ \/ \E max \in {WaitRetries, ConnectRetries} :
             IF retries[c] < max /\ running[c]
             THEN SetState(c, "CONNECT_ERROR") /\ BTGoto(c, "open") /\ retries' = [retries EXCEPT ![c] = @ + 1]
             ELSE Give(c, "CONNECT_ERROR") /\ UNCHANGED retries
       \/ Give(c, "UNK_ERROR") /\ UNCHANGED retries
    /\ UNCHANGED <<request, active, channel, statics, pairErrors, handler, running, stop,
                   btPhase, hasConn, result>>

\* A connection made after the request was given up is not used.
CheckAbandoned(c) ==
    /\ pc[c] = "check"
    /\ BTGoto(c, IF IsAbandoned(c) THEN "close" ELSE "claim")
    /\ UNCHANGED <<request, active, channel, statics, pairErrors, handler, running, stop,
                   state, btPhase, hasConn, retries, result>>

\* Mutant: the flag of the other kind of client is not read.
OutrunNever(c) == successfullConnect

\* Another client has won, or one of the other kind has connected.
Outrun(c) ==
    \/ successfullConnect
    \/ IF isOther(c) THEN isAlreadyConnected ELSE otherClientConnectedFirst

Claim(c) ==
    /\ pc[c] = "claim"
    /\ IF Outrun(c) THEN Give(c, "CANCELED") ELSE BTGoto(c, "take") /\ UNCHANGED state
    /\ UNCHANGED <<request, active, channel, statics, pairErrors, handler, running, stop,
                   btPhase, hasConn, retries, result>>

\* The flag is set, and the phone is asked: PerformAuthFlow.
Take(c) ==
    /\ pc[c] = "take"
    /\ IF isOther(c) THEN otherClientConnectedFirst' = TRUE /\ UNCHANGED isAlreadyConnected
                     ELSE isAlreadyConnected' = TRUE /\ UNCHANGED otherClientConnectedFirst
    /\ hasConn' = [hasConn EXCEPT ![c] = TRUE]
    /\ btPhase' = [btPhase EXCEPT ![c] = "PHONE_UNLOCKING"]
    /\ BTGoto(c, "auth")
    /\ UNCHANGED <<request, active, channel, successfullConnect, pairErrors, handler, running,
                   stop, state, retries, result>>

\* The phone answers, or the stream fails or is closed; module
\* UnlockConnection has the detail.
Answer(c) ==
    /\ pc[c] = "auth"
    /\ \E s \in Outcomes : SetState(c, s)
    /\ BTGoto(c, "answered")
    /\ UNCHANGED <<request, active, channel, statics, pairErrors, handler, running, stop,
                   btPhase, hasConn, retries, result>>

BTAnswered(c) ==
    /\ pc[c] = "answered"
    /\ successfullConnect' = (successfullConnect \/ state[c] = "SUCCESS")
    /\ BTGoto(c, "close")
    /\ UNCHANGED <<request, active, channel, isAlreadyConnected, otherClientConnectedFirst, pairErrors,
                   handler, running, stop, state, btPhase, hasConn, retries, result>>

\* threadEnd
CloseSocket(c) ==
    /\ pc[c] = "close"
    /\ running' = [running EXCEPT ![c] = FALSE]
    /\ channel' = [channel EXCEPT ![c[1]] = IF @ = c THEN Nothing ELSE @]
    /\ BTGoto(c, "ended")
    /\ UNCHANGED <<request, active, statics, pairErrors, handler, stop, state, btPhase,
                   hasConn, retries, result>>

---------------------------------------------------------------------------
(* The request. *)

\* The tile is left.
BTGiveUp ==
    /\ active /\ active' = FALSE
    /\ UNCHANGED <<request, channel, statics, pairErrors, handler, pc, running, stop, state,
                   btPhase, hasConn, retries, result>>

\* GetResult returns, and later there is another request: new clients, the
\* same static members.
NextRequest ==
    /\ \A c \in Clients : handler[c] = "done"
    /\ requests < MaxRequests
    /\ requests' = requests + 1 /\ active' = TRUE
    /\ UNCHANGED <<windows, channel, statics, pairErrors>>
    /\ handler' = Each("start") /\ pc' = Each("idle") /\ running' = Each(FALSE) /\ stop' = Each(FALSE)
    /\ state' = Each("UNKNOWN") /\ btPhase' = Each("STARTING") /\ hasConn' = Each(FALSE)
    /\ retries' = Each(0) /\ result' = Each(Nothing)

BTOver == (\A c \in Clients : handler[c] = "done") /\ requests = MaxRequests /\ UNCHANGED btVars

BTConnectThread(c) ==
    \/ FindSDPChannel(c) \/ OpenSocket(c) \/ BTConnect(c) \/ BTConnected(c) \/ NotConnected(c)
    \/ CheckAbandoned(c) \/ Claim(c) \/ Take(c) \/ Answer(c) \/ BTAnswered(c) \/ CloseSocket(c)

RunServer(c) == Start(c) \/ StopDue(c) \/ StopRunning(c) \/ Joined(c)

BTNext == BTGiveUp \/ NextRequest \/ BTOver
        \/ \E c \in Clients : BTConnectThread(c) \/ RunServer(c) \/ StopEarly(c)

BTSpec == BTInit /\ [][BTNext]_btVars

\* The threads run, and every wait of a connecting thread has a timeout:
\* for the connection, and for each packet of the phone.  Nothing is assumed
\* of the clock of RunServer, which every retry restarts, nor of the user.
Fairness == \A p \in Phones, k \in {"first", "other"} :
               /\ WF_btVars(<<p, k>> \in Clients /\ BTConnectThread(<<p, k>>))
               /\ WF_btVars(<<p, k>> \in Clients /\ RunServer(<<p, k>>))

BTFairSpec == BTSpec /\ Fairness

---------------------------------------------------------------------------
(* Properties. *)

BTStates == PhoneAnswers \cup {"UNKNOWN", "SUCCESS", "CANCELED", "TIMEOUT", "CONNECT_ERROR", "UNK_ERROR"}

BTTypeOK ==
    /\ windows \in BOOLEAN /\ active \in BOOLEAN /\ requests \in Nat
    /\ channel \in [Phones -> Clients \cup {Nothing}]
    /\ handler \in [Clients -> {"start", "poll", "stopping", "joining", "done"}]
    /\ pc \in [Clients -> {"idle", "search", "open", "connect", "wait", "check", "claim",
                           "take", "auth", "answered", "close", "ended"}]
    /\ running \in [Clients -> BOOLEAN] /\ stop \in [Clients -> BOOLEAN] /\ hasConn \in [Clients -> BOOLEAN]
    /\ retries \in [Clients -> Nat] /\ state \in [Clients -> BTStates]
    /\ btPhase \in [Clients -> {"STARTING", "CLIENT_CONNECTING", "PHONE_UNLOCKING"}]
    /\ result \in [Clients -> BTStates \cup {Nothing}]
    /\ pairErrors \in [Phones -> [error : PhoneAnswers \cup {Nothing}, for : SUBSET Clients]]

Asked(c) == hasConn[c]

\* A request asks each phone at most once, although two clients compete for
\* it with flags they test and set in separate steps (BTUnlockClient.cpp
\* :313-332): the prompt the user has just answered does not come back.
AskedOnce == \A p \in Phones : Cardinality({c \in ClientsOf(p) : Asked(c)}) <= 1

\* The static flags and errors of an earlier request are not taken for this
\* one's: a client is cancelled for another one only when that one has asked
\* a phone in this request, and an error of the phone is reported only when
\* the phone gave it in this request (BTUnlockClient.cpp:76-84, 149-164).
FlagsAreThisRequests ==
    \A c \in Clients :
        /\ state[c] = "CANCELED" /\ ~Asked(c) => \E d \in Clients \ {c} : Asked(d)
        /\ result[c] \in PhoneAnswers => \E d \in ClientsOf(c[1]) : state[d] = result[c]

\* A request ends, with every client joined: a connect that is retried, a
\* channel the twin holds and the joins of Stop() included (the fairness that
\* UnlockHandler assumes of its connections).
EveryClientEnds == \A p \in Phones, k \in {"first", "other"} :
    LET c == <<p, k>> IN (c \in Clients /\ handler[c] = "poll") ~> (c \in Clients => handler[c] \in {"done", "start"})

---------------------------------------------------------------------------
(* The inductive invariant. *)

\* A client that has the channel of its phone.
Holding == {"check", "claim", "take", "auth", "answered"}

\* A client's thread: what it holds and what it may rely on at each place.
BTThreadOK(c) ==
    /\ handler[c] = "start" => pc[c] = "idle"
    /\ handler[c] = "done" => pc[c] = "ended"
    /\ pc[c] \in Holding => channel[c[1]] = c
    /\ pc[c] \in Holding \/ hasConn[c] => \A d \in Clients : handler[d] # "start"
    /\ pc[c] \in {"auth", "answered"} => hasConn[c]
    /\ hasConn[c] => pc[c] \in {"auth", "answered", "close", "ended"}
    /\ pc[c] = "take" => \A d \in ClientsOf(c[1]) : ~hasConn[d]
    /\ state[c] \in PhoneAnswers => pc[c] \in {"answered", "close", "ended"}

\* Once a client of this request has started, the flags are this request's.
FlagsOK ==
    /\ (\E c \in Clients : handler[c] # "start")
       /\ (isAlreadyConnected \/ otherClientConnectedFirst \/ successfullConnect)
       => \E d \in Clients : hasConn[d]
    /\ \A c \in Clients : hasConn[c] => IF isOther(c) THEN otherClientConnectedFirst ELSE isAlreadyConnected

\* The error that a started client would take over was given in this request.
ErrorsOK ==
    \A c \in Clients : handler[c] # "start" /\ c \in pairErrors[c[1]].for =>
        /\ pairErrors[c[1]].error \in PhoneAnswers
        /\ \E d \in ClientsOf(c[1]) : state[d] = pairErrors[c[1]].error

OneAsks == \A p \in Phones : \A c, d \in ClientsOf(p) : hasConn[c] /\ hasConn[d] => c = d

BluetoothInv ==
    /\ BTTypeOK /\ (\A c \in Clients : BTThreadOK(c)) /\ FlagsOK /\ ErrorsOK /\ OneAsks
    /\ FlagsAreThisRequests
=============================================================================
