---------------------------- MODULE UnlockServer -----------------------------
(***************************************************************************)
(* TCPUnlockServer (common/src/connection/unlock/servers): the server that *)
(* phones paired over UDP connect to.  Its accept thread starts a client   *)
(* thread for each connection, which runs PerformAuthFlow and then tells   *)
(* from the number of connections left which phase the server is in.      *)
(* UnlockHandler::RunServer polls the server until there is an answer or   *)
(* until no phone has been connected for too long, and stops it.           *)
(***************************************************************************)
EXTENDS UnlockConnection, FiniteSets

CONSTANTS
  MAX_CLIENTS,   \* connections at which the accept thread waits
  SetupErrors    \* the states a server that cannot listen ends in

ASSUME ServerAssumption ==
  /\ IsFiniteSet(Streams)
  /\ MAX_CLIENTS \in Nat \ {0}
  /\ SetupErrors \subseteq States \ {"UNKNOWN", "SUCCESS"}
  /\ IsServer

VARIABLES
  acceptPc,         \* where AcceptThread stands
  thread,           \* where ClientThread stands for each stream
  numConnections,   \* m_NumConnections
  counted,          \* the value of it that a thread has read
  watch             \* RunServer: "looping", or the state it left its loop with

acceptVars == <<acceptPc, thread, numConnections, counted>>
vars == <<connVars, acceptVars, watch>>

Init ==
  /\ ConnInit("SERVER_WAITING")
  /\ acceptPc = "setup"
  /\ thread = [c \in Streams |-> "none"]
  /\ numConnections = 0
  /\ counted = [c \in Streams |-> 0]
  /\ watch = "looping"

-----------------------------------------------------------------------------
(* AcceptThread *)

(* The server socket is set up: socket, options, bind, listen. *)
Listen ==
  /\ acceptPc = "setup"
  /\ \/ acceptPc' = "check" /\ UNCHANGED unlockState
     \/ acceptPc' = "end" /\ unlockState' \in SetupErrors
  /\ UNCHANGED <<isRunning, phase, winner, info, flow, packet, sent, thread,
                 numConnections, counted, watch>>

(* The head of the loop.  At the limit it sleeps and looks again. *)
CheckLimit ==
  /\ acceptPc = "check"
  /\ ~isRunning \/ numConnections < MAX_CLIENTS
  /\ acceptPc' = IF isRunning THEN "accept" ELSE "end"
  /\ UNCHANGED <<connVars, thread, numConnections, counted, watch>>

(* accept() returns a connection, nothing, or fails; the client thread may  *)
(* not start.                                                               *)
Accept ==
  /\ acceptPc = "accept"
  /\ \/ /\ \E c \in Streams :
             /\ thread[c] = "none"
             /\ thread' = [thread EXCEPT ![c] = "spawned"]
        /\ acceptPc' = "check"
        /\ UNCHANGED unlockState
     \/ /\ acceptPc' = "check"
        /\ UNCHANGED <<thread, unlockState>>
     \/ /\ acceptPc' = "end"
        /\ unlockState' \in {unlockState, "UNK_ERROR"}
        /\ UNCHANGED thread
  /\ UNCHANGED <<isRunning, phase, winner, info, flow, packet, sent,
                 numConnections, counted, watch>>

EndAccept ==
  /\ acceptPc = "end"
  /\ isRunning' = FALSE
  /\ acceptPc' = "joining"
  /\ UNCHANGED <<phase, unlockState, winner, info, flow, packet, sent, thread,
                 numConnections, counted, watch>>

JoinClients ==
  /\ acceptPc = "joining"
  /\ \A c \in Streams : thread[c] \in {"none", "closed"}
  /\ acceptPc' = "closed"
  /\ UNCHANGED <<connVars, thread, numConnections, counted, watch>>

-----------------------------------------------------------------------------
(* ClientThread *)

ClientStart(c) ==
  /\ thread[c] = "spawned"
  /\ thread' = [thread EXCEPT ![c] = "opening"]
  /\ numConnections' = numConnections + 1
  /\ UNCHANGED <<connVars, acceptPc, counted, watch>>

ClientBegin(c) ==
  /\ thread[c] = "opening"
  /\ BeginFlow(c)
  /\ thread' = [thread EXCEPT ![c] = "flow"]
  /\ UNCHANGED <<acceptPc, numConnections, counted, watch>>

ClientFlow(c) ==
  /\ thread[c] = "flow"
  /\ FlowStep(c)
  /\ UNCHANGED <<acceptVars, watch>>

(* Mutant: the connection stays counted. *)
ClientLeaveCounted(c) ==
  /\ thread[c] = "flow"
  /\ flow[c] = "returned"
  /\ thread' = [thread EXCEPT ![c] = "left"]
  /\ UNCHANGED <<connVars, acceptPc, numConnections, counted, watch>>

ClientLeave(c) ==
  /\ thread[c] = "flow"
  /\ flow[c] = "returned"
  /\ numConnections' = numConnections - 1
  /\ thread' = [thread EXCEPT ![c] = "left"]
  /\ UNCHANGED <<connVars, acceptPc, counted, watch>>

(* With no result yet, the number of connections is read ... *)
ClientPoll(c) ==
  /\ thread[c] = "left"
  /\ IF unlockState = "UNKNOWN"
       THEN /\ thread' = [thread EXCEPT ![c] = "phase"]
            /\ counted' = [counted EXCEPT ![c] = numConnections]
       ELSE /\ thread' = [thread EXCEPT ![c] = "closed"]
            /\ UNCHANGED counted
  /\ UNCHANGED <<connVars, acceptPc, numConnections, watch>>

(* ... and the phase it stands for set. *)
ClientPhase(c) ==
  /\ thread[c] = "phase"
  /\ phase' = IF counted[c] > 0 THEN "PHONE_UNLOCKING" ELSE "SERVER_WAITING"
  /\ counted' = [counted EXCEPT ![c] = 0]
  /\ thread' = [thread EXCEPT ![c] = "closed"]
  /\ UNCHANGED <<isRunning, unlockState, winner, info, flow, packet, sent,
                 acceptPc, numConnections, watch>>

-----------------------------------------------------------------------------
(* RunServer, as far as this server is concerned. *)

GetPhase == IF isRunning THEN phase ELSE "FINISHED"

StopWith(s) ==
  /\ watch = "looping"
  /\ watch' = s
  /\ isRunning' = FALSE
  /\ UNCHANGED <<phase, unlockState, winner, info, flow, packet, sent, acceptVars>>

Answered == unlockState # "UNKNOWN" /\ StopWith(unlockState)

TimedOut ==
  /\ unlockState = "UNKNOWN"
  /\ GetPhase # "PHONE_UNLOCKING"
  /\ StopWith("TIMEOUT")

(* The caller or the user gives up, or another connection has won. *)
Canceled == StopWith("CANCELED")

-----------------------------------------------------------------------------

AcceptStep == Listen \/ CheckLimit \/ Accept \/ EndAccept \/ JoinClients

ClientStep(c) ==
  \/ ClientStart(c) \/ ClientBegin(c) \/ ClientFlow(c) \/ ClientLeave(c)
  \/ ClientPoll(c) \/ ClientPhase(c)

Watch == Answered \/ TimedOut

(* The server has stopped. *)
Over == watch # "looping" /\ acceptPc = "closed" /\ UNCHANGED vars

Next ==
  \/ AcceptStep
  \/ Watch
  \/ Canceled
  \/ \E c \in Streams : ClientStep(c)
  \/ Over

Spec == Init /\ [][Next]_vars

(* The threads run, and the time that RunServer waits for passes.  Nothing  *)
(* is assumed of phones, of the user or of the caller.                      *)
FairSpec ==
  /\ Spec
  /\ WF_vars(AcceptStep)
  /\ WF_vars(Watch)
  /\ \A c \in Streams : WF_vars(ClientStep(c))

-----------------------------------------------------------------------------
(* Properties *)

(* Every variable stays in its type; in particular the count of connections *)
(* never goes below zero.                                                   *)
TypeOK ==
  /\ ConnTypeOK
  /\ acceptPc \in {"setup", "check", "accept", "end", "joining", "closed"}
  /\ thread \in [Streams -> {"none", "spawned", "opening", "flow", "left", "phase", "closed"}]
  /\ numConnections \in Nat
  /\ counted \in [Streams -> Nat]
  /\ watch \in States \cup {"looping"}

(* PerformAuthFlow runs while ClientThread is in it. *)
ThreadInv ==
  \A c \in Streams :
    /\ thread[c] \in {"none", "spawned", "opening"} <=> flow[c] = "off"
    /\ thread[c] \in {"left", "phase", "closed"} => flow[c] = "returned"

(* A success is backed by an answer of the device it is reported for: the   *)
(* server allows the device, the answer decrypts with its key and holds the *)
(* token of this request.  The password is decrypted with what the answer   *)
(* holds and given to the program that asked.                               *)
SuccessIsVerified ==
  unlockState = "SUCCESS" =>
    /\ winner # None
    /\ winner.device \in Allowed
    /\ winner.answer.from = winner.device
    /\ winner.answer.body = "VALID"

(* m_NumConnections counts the threads between its two updates. *)
CountInv == numConnections = Cardinality({c \in Streams : thread[c] \in {"opening", "flow"}})

(* The inductive invariant behind SuccessIsVerified and OneWinner: while a  *)
(* stream holds m_StateMutex to store its answer, no other does and there   *)
(* is no winner yet; once there is one, the state is never UNKNOWN again.   *)
(* CountInv is what keeps the count of connections from going below zero.   *)
ServerInv == TypeOK /\ ThreadInv /\ CountInv /\ AnswerInv

(* However many phones answer, and whatever errors come between, the device *)
(* and the key of the first valid answer are never replaced by another's.   *)
OneWinner == [][winner # None => winner' = winner]_vars

(* A connection that has not named an allowed device cannot end the         *)
(* request: it is closed, and the others go on.                             *)
Named(c) ==
  \/ info[c] # None /\ info[c].device # None
  \/ packet[c] # None /\ packet[c].id = "DEVICE_ID" /\ packet[c].from \in Allowed

StrangersIgnored ==
  [][unlockState' # unlockState =>
       \/ acceptPc' = "end"
       \/ \E c \in Streams : flow'[c] # flow[c] /\ Named(c)]_vars

(* When the accept thread has ended, which Stop() waits for, no client      *)
(* thread is left that could use the server object.                         *)
NoThreadOutlivesServer ==
  acceptPc = "closed" =>
    /\ \A c \in Streams : thread[c] \in {"none", "closed"}
    /\ numConnections = 0

(* Stop() returns, whatever the phones do. *)
StopReturns == ~isRunning ~> acceptPc = "closed"

(* A request that no phone answers ends: when every phone that connected is *)
(* gone again, RunServer gives up after its timeout.                        *)
RequestEnds == <>(watch # "looping")

(* At most one connection is open, from its accept() to the end of its      *)
(* thread.                                                                  *)
OneConnection ==
  \A c, d \in Streams :
    thread[c] \notin {"none", "closed"} /\ thread[d] \notin {"none", "closed"} => c = d

(* A request ends when the phones that connect, and go away again, do so    *)
(* one after the other (UnlockHandler.cpp:236-262).                         *)
RequestEndsForOne == []OneConnection => RequestEnds

=============================================================================
