------------------------ MODULE UnlockHandlerProofs --------------------------
(***************************************************************************)
(* Proofs about UnlockHandler, for every set of paired devices.            *)
(***************************************************************************)
EXTENDS UnlockHandler, FiniteSetTheorems, TLAPS

-----------------------------------------------------------------------------
(* Type correctness *)

(* The members of enum UnlockPhase; the phase a connection waits in is one. *)
LEMMA PhaseFacts ==
  /\ UnlockPhase = {"FINISHED", "STARTING", "CLIENT_CONNECTING", "SERVER_WAITING",
                    "PHONE_UNLOCKING"}
  /\ \A c \in Connections : WaitingPhase(c) \in UnlockPhase
BY DEF UnlockPhase, PhaseRank, WaitingPhase

(* What RunServer reads of a connection has its type. *)
LEMMA ReadsTyped ==
  ASSUME TypeOK, NEW c \in Connections
  PROVE  /\ GetPhase(c) \in UnlockPhase
         /\ PollResult(c) \in UnlockState
         /\ LatestState(c) \in UnlockState
<1>1. PhoneAnswers \subseteq UnlockState
  BY DEF PhoneAnswers, UnlockState
<1>2. GetPhase(c) \in UnlockPhase
  BY PhaseFacts DEF TypeOK, GetPhase
<1>3. PollResult(c) \in UnlockState
  <2>1. "CANCELED" \in UnlockState BY DEF UnlockState
  <2>2. connState[c] \in UnlockState BY DEF TypeOK
  <2>3. pairError[c] # None => pairError[c] \in UnlockState
    BY <1>1 DEF TypeOK
  <2> QED BY <2>1, <2>2, <2>3 DEF PollResult
<1>4. LatestState(c) \in UnlockState
  BY <1>3 DEF TypeOK, LatestState
<1> QED BY <1>2, <1>3, <1>4

(* The steps that print keep the status line in its type. *)
LEMMA StatusTyped ==
  ASSUME TypeOK, NEW c \in Connections, NEW ph \in UnlockPhase, NEW m \in FinalMessages,
         PrintStatus(c, ph) \/ PrintFinal(m) \/ UNCHANGED statusVars
  PROVE  /\ statusPhase' \in UnlockPhase
         /\ statusOwner' \in Connections \cup {None}
         /\ finalMessage' \in FinalMessages \cup {None}
         /\ statusDone' \in BOOLEAN
BY DEF TypeOK, PrintStatus, PrintFinal, statusVars

(* The error that a client leaves for the other one has its type. *)
LEMMA ShareErrorTyped ==
  ASSUME TypeOK, NEW c \in Connections, ShareError(c)
  PROVE  pairError' \in [Connections -> PhoneAnswers \cup {None}]
BY DEF TypeOK, ShareError, IsPhoneAnswer

(* The states that RunServer and GetResult name are states and messages. *)
LEMMA StateNames ==
  /\ {"UNKNOWN", "SUCCESS", "CANCELED", "TIMEOUT", "START_ERROR", "UNK_ERROR",
      "DATA_ERROR", "NOT_PAIRED_ERROR"} \subseteq UnlockState
  /\ PhoneAnswers \subseteq UnlockState
  /\ UnlockState \subseteq FinalMessages
  /\ "error_password_decrypt" \in FinalMessages
BY DEF UnlockState, PhoneAnswers, FinalMessages

(* The places of a thread are its labels. *)
LEMMA ThreadLabelNames ==
  ThreadLabels = {"loop", "poll", "start", "finish", "stop", "unborn", "merge",
                  "announce", "done"}
BY DEF ThreadLabels, RunServerLabels, LoopLabels

(* The variables have their types at the start of GetResult. *)
LEMMA InitTyped == Init => TypeOK
<1> SUFFICES ASSUME Init PROVE TypeOK
  OBVIOUS
<1>1. [state |-> "UNKNOWN", from |-> None] \in UnlockResult
  BY StateNames DEF UnlockResult
<1>2. NoVerdict \in Verdicts
  BY StateNames DEF NoVerdict, Verdicts
<1> QED BY <1>1, <1>2, PhaseFacts, StateNames, ThreadLabelNames DEF Init, TypeOK

(* The steps of a connection's own threads. *)
LEMMA ConnectionTyped ==
  ASSUME TypeOK, NEW c \in Connections, Connection(c)
  PROVE  TypeOK'
<1> USE DEF TypeOK, mainVars, threadVars, statusVars
<1>1. CASE ConnPhase(c)
  BY <1>1, PhaseFacts DEF ConnPhase
<1>2. CASE ConnState(c)
  BY <1>2, ConstantsAssumption, StateNames DEF ConnState
<1>3. CASE ConnEnd(c)
  BY <1>3 DEF ConnEnd
<1> QED BY <1>1, <1>2, <1>3 DEF Connection

(* The steps of GetResult and of its caller. *)
LEMMA MainTyped ==
  ASSUME TypeOK, Main \/ CancelRequest
  PROVE  TypeOK'
<1> USE DEF TypeOK, mainVars, threadVars, statusVars, linkVars
<1>1. CASE Launch
  <2>1. [state |-> "NOT_PAIRED_ERROR", from |-> None] \in UnlockResult
    BY StateNames DEF UnlockResult
  <2> QED BY <1>1, <2>1, ThreadLabelNames DEF Launch
<1>2. CASE Broadcast
  BY <1>2 DEF Broadcast
<1>3. CASE AwaitAll
  BY <1>3 DEF AwaitAll
<1>4. CASE DropBeacon
  BY <1>4 DEF DropBeacon
<1>5. CASE JoinThreads
  BY <1>5 DEF JoinThreads
<1>6. CASE Return
  BY <1>6 DEF Return
<1>7. CASE CancelRequest
  BY <1>7 DEF CancelRequest
<1> QED BY <1>1, <1>2, <1>3, <1>4, <1>5, <1>6, <1>7 DEF Main

(* The steps of the thread of a connection. *)
LEMMA ThreadTyped ==
  ASSUME TypeOK, ReportInv, NEW c \in Connections, Thread(c)
  PROVE  TypeOK'
<1> USE DEF mainVars, threadVars, linkVars
<1>1. CASE Start(c)
  <2>1. /\ [state |-> "START_ERROR", from |-> None] \in UnlockResult
        /\ [state |-> "UNK_ERROR", from |-> None] \in UnlockResult
    BY StateNames DEF UnlockResult
  <2>2. WaitingPhase(c) \in UnlockPhase
    BY PhaseFacts
  <2> QED BY <1>1, <2>1, <2>2, ThreadLabelNames DEF Start, Goto, TypeOK, statusVars
<1>2. CASE Canceled(c)
  BY <1>2, StateNames, ThreadLabelNames DEF Canceled, Goto, TypeOK, statusVars
<1>3. CASE ReadPhase(c)
  <2>1. GetPhase(c) \in UnlockPhase
    BY ReadsTyped
  <2>2. /\ statusPhase' \in UnlockPhase
        /\ statusOwner' \in Connections \cup {None}
        /\ finalMessage' \in FinalMessages \cup {None}
        /\ statusDone' \in BOOLEAN
    BY <1>3, <2>1, StatusTyped, StateNames DEF ReadPhase
  <2> QED BY <1>3, <2>1, <2>2, ThreadLabelNames DEF ReadPhase, Goto, TypeOK, StopBeacon
<1>4. ASSUME NEW s \in UnlockState, LeaveLoop(c, s) PROVE TypeOK'
  <2>1. pairError' \in [Connections -> PhoneAnswers \cup {None}]
    BY <1>4, ShareErrorTyped DEF LeaveLoop
  <2> QED BY <1>4, <2>1, ThreadLabelNames, PhaseFacts DEF LeaveLoop, Goto, TypeOK, statusVars
<1>5. CASE Answered(c) \/ TimedOut(c) \/ KeysHeld(c)
  BY <1>4, <1>5, ReadsTyped, StateNames DEF Answered, TimedOut, KeysHeld
<1>6. CASE GoOn(c)
  <2>1. pairError' \in [Connections -> PhoneAnswers \cup {None}]
    BY <1>6, ShareErrorTyped DEF GoOn
  <2> QED BY <1>6, <2>1, ThreadLabelNames, PhaseFacts
          DEF GoOn, Goto, TypeOK, statusVars, StartBeacon
<1>7. CASE Finish(c)
  <2>1. /\ statusPhase' \in UnlockPhase
        /\ statusOwner' \in Connections \cup {None}
        /\ finalMessage' \in FinalMessages \cup {None}
        /\ statusDone' \in BOOLEAN
    BY <1>7, StatusTyped, StateNames, PhaseFacts DEF Finish
  <2> QED BY <1>7, <2>1, ThreadLabelNames DEF Finish, Goto, TypeOK
<1>8. CASE Result(c)
  <2>1. LatestState(c) \in UnlockState
    BY ReadsTyped
  <2>2. /\ [state |-> "DATA_ERROR", from |-> None] \in UnlockResult
        /\ [state |-> LatestState(c), from |-> c] \in UnlockResult
    BY <2>1, StateNames DEF UnlockResult
  <2>3. /\ statusPhase' \in UnlockPhase
        /\ statusOwner' \in Connections \cup {None}
        /\ finalMessage' \in FinalMessages \cup {None}
        /\ statusDone' \in BOOLEAN
    BY <1>8, StatusTyped, StateNames, PhaseFacts DEF Result
  <2>4. pairError' \in [Connections -> PhoneAnswers \cup {None}]
    <3>1. CASE ShareError(c) BY <3>1, ShareErrorTyped
    <3>2. CASE UNCHANGED pairError BY <3>2 DEF TypeOK
    <3> QED BY <1>8, <3>1, <3>2 DEF Result
  <2>5. serverResult' \in [Connections -> UnlockResult \cup {None}]
    BY <1>8, <2>2 DEF Result, TypeOK
  <2> QED BY <1>8, <2>3, <2>4, <2>5, ThreadLabelNames, StateNames DEF Result, Goto, TypeOK
<1>9. CASE Announce(c)
  <2>1. verdict[c].final \in FinalMessages
    BY StateNames DEF TypeOK, Verdicts
  <2>2. /\ statusPhase' \in UnlockPhase
        /\ statusOwner' \in Connections \cup {None}
        /\ finalMessage' \in FinalMessages \cup {None}
        /\ statusDone' \in BOOLEAN
    BY <1>9, <2>1, StatusTyped, PhaseFacts DEF Announce
  <2>3. NoVerdict \in Verdicts
    BY StateNames DEF NoVerdict, Verdicts
  <2> QED BY <1>9, <2>2, <2>3, ThreadLabelNames DEF Announce, Goto, TypeOK
<1>10. CASE Merge(c)
  <2>1. serverResult[c] \in UnlockResult
    BY <1>10 DEF TypeOK, ReportInv, Merge
  <2>2. Stored(c) \in UnlockResult
    BY <2>1 DEF TypeOK, Stored
  <2>3. currentResult' \in UnlockResult
    BY <1>10, <2>1, <2>2 DEF Merge
  <2>4. verdict' \in [Connections -> Verdicts]
    <3>1. currentResult'.state \in UnlockState
      BY <2>3 DEF UnlockResult
    <3> DEFINE last == completed + 1 = Cardinality(Connections)
               fin == serverResult[c].state = "SUCCESS"
                        \/ (last /\ Stored(c).state # "SUCCESS")
               v == [isFinal |-> fin, isLast |-> last, final |-> currentResult'.state]
    <3>2. last \in BOOLEAN /\ fin \in BOOLEAN
      OBVIOUS
    <3>3. v \in Verdicts
      <4> HIDE DEF last, fin
      <4> QED BY <3>1, <3>2, Zenon DEF Verdicts
    <3>4. verdict' = [verdict EXCEPT ![c] = v]
      BY <1>10, Zenon DEF Merge
    <3> HIDE DEF v
    <3> QED BY <3>3, <3>4 DEF TypeOK
  <2>5. completed' \in Nat
    BY <1>10 DEF Merge, TypeOK
  <2> QED BY <1>10, <2>3, <2>4, <2>5, ThreadLabelNames DEF Merge, Goto, TypeOK, statusVars
<1> QED BY <1>1, <1>2, <1>3, <1>5, <1>6, <1>7, <1>8, <1>9, <1>10 DEF Thread

-----------------------------------------------------------------------------
(* The inductive invariant *)

(* A request has finitely many connections. *)
LEMMA ConnectionsFinite == IsFiniteSet(Connections)
<1> DEFINE C == (Devices \X {"client", "other"}) \cup {Server}
<1>1. IsFiniteSet({"client", "other"})
  <2>1. IsFiniteSet({"client"}) BY FS_Singleton
  <2>2. IsFiniteSet({"client"} \cup {"other"}) BY <2>1, FS_AddElement
  <2>3. {"client"} \cup {"other"} = {"client", "other"} OBVIOUS
  <2> QED BY <2>2, <2>3
<1>2. IsFiniteSet(Devices \X {"client", "other"})
  BY <1>1, ConstantsAssumption, FS_Product
<1>3. IsFiniteSet(C)
  BY <1>2, FS_AddElement
<1>4. Connections \in SUBSET C
  <2>1. \A d \in Devices : ClientsFor(d) \subseteq Devices \X {"client", "other"}
    BY DEF ClientsFor
  <2>2. UNION {ClientsFor(d) : d \in Devices} \subseteq Devices \X {"client", "other"}
    <3> HIDE DEF ClientsFor
    <3> QED BY <2>1, Zenon
  <2>3. (IF UdpDevices # {} THEN {Server} ELSE {}) \subseteq {Server}
    OBVIOUS
  <2> QED BY <2>2, <2>3, Zenon DEF Connections
<1> QED BY <1>3, <1>4, FS_Subset

(* A step that leaves the merged results alone keeps what is said of them. *)
LEMMA MergeFrame ==
  ASSUME CountInv, MergeInv,
         MergedSet' = MergedSet,
         \A c \in MergedSet : serverResult'[c] = serverResult[c],
         UNCHANGED <<currentResult, completed>>
  PROVE  CountInv' /\ MergeInv'
<1>1. /\ MergedSuccesses' = MergedSuccesses
      /\ MergedAnswers' = MergedAnswers
      /\ MergedPrimaries' = MergedPrimaries
      /\ MergedSuccesses \subseteq MergedSet
      /\ MergedAnswers \subseteq MergedSet
      /\ MergedPrimaries \subseteq MergedSet
  BY DEF MergedSuccesses, MergedAnswers, MergedPrimaries
<1>2. CountInv'
  BY DEF CountInv
<1>3. MergeInv'
  BY <1>1 DEF MergeInv
<1> QED BY <1>2, <1>3

(* What a merge does to the set of merged connections. *)
LEMMA MergeCounts ==
  ASSUME TypeOK, CountInv, NEW c \in Connections, Merge(c)
  PROVE  /\ c \notin MergedSet
         /\ MergedSet' = MergedSet \cup {c}
         /\ CountInv'
         /\ completed + 1 = Cardinality(Connections) <=> MergedSet' = Connections
<1>1. c \notin MergedSet
  BY DEF Merge, MergedSet, Merged
<1>2. MergedSet' = MergedSet \cup {c}
  BY DEF Merge, Goto, MergedSet, Merged, TypeOK
<1>3. IsFiniteSet(MergedSet) /\ MergedSet' \in SUBSET Connections
  BY ConnectionsFinite, FS_Subset, <1>2 DEF MergedSet
<1>4. Cardinality(MergedSet') = Cardinality(MergedSet) + 1
  BY <1>1, <1>2, <1>3, FS_AddElement
<1>5. completed' = Cardinality(MergedSet')
  BY <1>4 DEF Merge, CountInv
<1>6. Cardinality(MergedSet') = Cardinality(Connections) => MergedSet' = Connections
  BY <1>3, ConnectionsFinite, FS_Subset
<1> QED BY <1>1, <1>2, <1>4, <1>5, <1>6 DEF CountInv, Merge

(* What currentResult says about the reports merged so far. *)
LEMMA CurrentIsBest ==
  ASSUME TypeOK, ReportInv, MergeInv
  PROVE  /\ currentResult.state = "SUCCESS" <=> MergedSuccesses # {}
         /\ MergedSuccesses = {} =>
              (IsPhoneAnswer(currentResult.state) <=> MergedAnswers # {})
         /\ currentResult.state = "UNKNOWN" =>
              MergedSuccesses \cup MergedAnswers \cup MergedPrimaries = {}
<1>1. /\ ~IsPhoneAnswer("SUCCESS") /\ ~IsPhoneAnswer("UNKNOWN")
      /\ \A c \in MergedSet : serverResult[c] # None /\ serverResult[c].state # "UNKNOWN"
  BY DEF IsPhoneAnswer, PhoneAnswers, ReportInv, MergedSet, Merged
<1>2. /\ \A c \in MergedSuccesses : c \in MergedSet /\ serverResult[c].state = "SUCCESS"
      /\ \A c \in MergedAnswers : c \in MergedSet /\ IsPhoneAnswer(serverResult[c].state)
      /\ \A c \in MergedPrimaries : c \in MergedSet
  BY DEF MergedSuccesses, MergedAnswers, MergedPrimaries
<1>3. \A c \in MergedSet :
        /\ c \notin MergedSuccesses => serverResult[c].state # "SUCCESS"
        /\ c \notin MergedAnswers => ~IsPhoneAnswer(serverResult[c].state)
  BY DEF MergedSuccesses, MergedAnswers
<1> HIDE DEF MergedSuccesses, MergedAnswers, MergedPrimaries, IsPhoneAnswer, MergedSet
<1> QED BY <1>1, <1>2, <1>3 DEF MergeInv

(* The critical section under resultMutex keeps the best report. *)
LEMMA MergeKeepsBest ==
  ASSUME TypeOK, ReportInv, CountInv, MergeInv, NEW c \in Connections, Merge(c)
  PROVE  MergeInv'
<1> DEFINE r == serverResult[c]
           success == r.state = "SUCCESS"
           answer == IsPhoneAnswer(r.state)
           primary == ~isOtherClient(c)
           last == completed + 1 = Cardinality(Connections)
<1>1. /\ r.state # "UNKNOWN"
      /\ serverResult' = serverResult
      /\ currentResult' = IF last /\ Stored(c).state = "UNKNOWN" THEN r ELSE Stored(c)
  BY DEF Merge, ReportInv
<1>2. /\ c \notin MergedSet
      /\ MergedSet' = MergedSet \cup {c}
      /\ last <=> MergedSet' = Connections
  BY MergeCounts
<1>3. /\ MergedSuccesses' = MergedSuccesses \cup (IF success THEN {c} ELSE {})
      /\ MergedAnswers' = MergedAnswers \cup (IF answer THEN {c} ELSE {})
      /\ MergedPrimaries' = MergedPrimaries \cup (IF primary THEN {c} ELSE {})
  BY <1>1, <1>2 DEF MergedSuccesses, MergedAnswers, MergedPrimaries
<1>4. ~(success /\ answer)
  BY DEF IsPhoneAnswer, PhoneAnswers
<1>5. Stored(c) = IF success \/ (answer /\ currentResult.state # "SUCCESS")
                       \/ (primary /\ currentResult.state # "SUCCESS"
                             /\ ~IsPhoneAnswer(currentResult.state))
                    THEN r ELSE currentResult
  BY Zenon DEF Stored
<1>6. /\ currentResult.state = "SUCCESS" <=> MergedSuccesses # {}
      /\ MergedSuccesses = {} =>
           (IsPhoneAnswer(currentResult.state) <=> MergedAnswers # {})
      /\ currentResult.state = "UNKNOWN" =>
           MergedSuccesses \cup MergedAnswers \cup MergedPrimaries = {}
  BY CurrentIsBest
<1> HIDE DEF success, answer, primary, last
<1>7. CASE success
  <2>1. currentResult' = serverResult'[c]
    BY <1>1, <1>5, <1>7
  <2>2. c \in MergedSuccesses'
    BY <1>3, <1>7
  <2> QED BY <2>1, <2>2 DEF MergeInv
<1>8. CASE ~success /\ MergedSuccesses # {}
  <2>1. currentResult' = currentResult /\ MergedSuccesses' = MergedSuccesses
    BY <1>1, <1>3, <1>5, <1>6, <1>8
  <2>2. \E d \in MergedSuccesses : currentResult = serverResult[d]
    BY <1>8 DEF MergeInv
  <2> QED BY <1>1, <2>1, <2>2 DEF MergeInv
<1>9. CASE ~success /\ MergedSuccesses = {} /\ answer
  <2>1. currentResult' = serverResult'[c]
    BY <1>1, <1>5, <1>6, <1>9
  <2>2. c \in MergedAnswers' /\ MergedSuccesses' = {}
    BY <1>3, <1>9
  <2> QED BY <2>1, <2>2 DEF MergeInv
<1>10. CASE ~success /\ MergedSuccesses = {} /\ ~answer /\ MergedAnswers # {}
  <2>1. /\ currentResult' = currentResult
        /\ MergedAnswers' = MergedAnswers /\ MergedSuccesses' = {}
    BY <1>1, <1>3, <1>5, <1>6, <1>10
  <2>2. \E d \in MergedAnswers : currentResult = serverResult[d]
    BY <1>10 DEF MergeInv
  <2> QED BY <1>1, <2>1, <2>2 DEF MergeInv
<1>11. CASE ~success /\ MergedSuccesses = {} /\ ~answer /\ MergedAnswers = {}
  <2>1. MergedSuccesses' \cup MergedAnswers' = {}
    BY <1>3, <1>11
  <2>2. CASE primary
    <3>1. currentResult' = serverResult'[c] /\ c \in MergedPrimaries'
      BY <1>1, <1>3, <1>5, <1>6, <1>11, <2>2
    <3> QED BY <2>1, <3>1 DEF MergeInv
  <2>3. CASE ~primary /\ MergedPrimaries # {}
    <3>1. currentResult' = currentResult /\ MergedPrimaries' = MergedPrimaries
      BY <1>1, <1>3, <1>5, <1>6, <1>11, <2>3
    <3>2. \E d \in MergedPrimaries : currentResult = serverResult[d]
      BY <1>11, <2>3 DEF MergeInv
    <3> QED BY <1>1, <2>1, <3>1, <3>2 DEF MergeInv
  <2>4. CASE ~primary /\ MergedPrimaries = {}
    <3>1. MergedSuccesses' \cup MergedAnswers' \cup MergedPrimaries' = {}
      BY <1>3, <2>1, <2>4
    <3>2. MergedSet # Connections /\ Connections # {} /\ c \in MergedSet'
      BY <1>2
    <3>3. currentResult.state = "UNKNOWN"
      BY <1>11, <2>4, <3>2 DEF MergeInv
    <3>4. Stored(c) = currentResult
      BY <1>5, <1>11, <2>4
    <3>5. currentResult' = IF last THEN serverResult'[c] ELSE currentResult
      BY <1>1, <3>3, <3>4
    <3> QED BY <1>2, <3>1, <3>2, <3>3, <3>5 DEF MergeInv
  <2> QED BY <2>2, <2>3, <2>4
<1> QED BY <1>7, <1>8, <1>9, <1>10, <1>11

(* Results RunServer may return are not None. *)
LEMMA ResultsExist ==
  \A r \in UnlockResult : r # None
BY ConstantsAssumption

(* Each thread has a report exactly once it has left RunServer. *)
LEMMA ReportKept ==
  ASSUME HandlerInv, Next
  PROVE  ReportInv'
<1> USE DEF HandlerInv, mainVars, threadVars, linkVars
<1>1. CASE Launch
  <2>1. CASE Connections = {}
    BY <2>1 DEF ReportInv
  <2>2. CASE Connections # {}
    BY <1>1, <2>2 DEF Launch, ReportInv, MainInv
  <2> QED BY <2>1, <2>2
<1>2. CASE Broadcast \/ AwaitAll \/ DropBeacon \/ JoinThreads \/ Return \/ CancelRequest
  BY <1>2 DEF Broadcast, AwaitAll, DropBeacon, JoinThreads, Return, CancelRequest, ReportInv
<1>3. CASE Over
  BY <1>3 DEF Over, vars, ReportInv
<1>4. ASSUME NEW c \in Connections, Connection(c) PROVE ReportInv'
  BY <1>4 DEF Connection, ConnPhase, ConnState, ConnEnd, ReportInv
<1>5. ASSUME NEW c \in Connections, Thread(c) PROVE ReportInv'
  <2>1. CASE Start(c)
    <3>1. /\ [state |-> "START_ERROR", from |-> None] \in UnlockResult
          /\ [state |-> "UNK_ERROR", from |-> None] \in UnlockResult
      BY StateNames DEF UnlockResult
    <3> QED BY <2>1, <3>1, ResultsExist DEF Start, Goto, TypeOK, ReportInv
  <2>2. CASE Canceled(c)
    BY <2>2 DEF Canceled, Goto, TypeOK, ReportInv
  <2>3. CASE ReadPhase(c)
    BY <2>3 DEF ReadPhase, Goto, TypeOK, ReportInv
  <2>4. ASSUME NEW s \in UnlockState \ {"UNKNOWN"}, LeaveLoop(c, s) PROVE ReportInv'
    BY <2>4 DEF LeaveLoop, Goto, TypeOK, ReportInv
  <2>5. CASE Answered(c) \/ TimedOut(c) \/ KeysHeld(c)
    BY <2>4, <2>5, ReadsTyped, StateNames DEF Answered, TimedOut, KeysHeld
  <2>6. CASE GoOn(c)
    BY <2>6 DEF GoOn, Goto, TypeOK, ReportInv
  <2>7. CASE Finish(c)
    BY <2>7 DEF Finish, Goto, TypeOK, ReportInv
  <2>8. CASE Result(c)
    <3>1. LatestState(c) # "UNKNOWN"
      BY <2>8 DEF Result, LatestState, ReportInv
    <3>2. /\ [state |-> "DATA_ERROR", from |-> None] \in UnlockResult
          /\ [state |-> LatestState(c), from |-> c] \in UnlockResult
      BY ReadsTyped, StateNames DEF UnlockResult
    <3>3. \E r \in UnlockResult :
            r.state # "UNKNOWN" /\ serverResult' = [serverResult EXCEPT ![c] = r]
      BY <2>8, <3>1, <3>2 DEF Result
    <3> QED BY <2>8, <3>3, ResultsExist DEF Result, Goto, TypeOK, ReportInv
  <2>9. CASE Merge(c)
    BY <2>9 DEF Merge, Goto, TypeOK, ReportInv
  <2>10. CASE Announce(c)
    BY <2>10 DEF Announce, Goto, TypeOK, ReportInv
  <2> QED BY <1>5, <2>1, <2>2, <2>3, <2>5, <2>6, <2>7, <2>8, <2>9, <2>10 DEF Thread
<1> QED BY <1>1, <1>2, <1>3, <1>4, <1>5 DEF Next, Main

(* Only Merge changes what has been merged. *)
LEMMA MergedKept ==
  ASSUME HandlerInv, Next
  PROVE  CountInv' /\ MergeInv'
<1> USE DEF HandlerInv, mainVars, threadVars, linkVars
<1>1. CASE Launch
  <2>1. MergedSet' = MergedSet
    BY <1>1 DEF Launch, MainInv, MergedSet, Merged
  <2> QED BY <1>1, <2>1, MergeFrame DEF Launch
<1>2. CASE Broadcast \/ AwaitAll \/ DropBeacon \/ JoinThreads \/ Return \/ CancelRequest
  <2>1. UNCHANGED <<pc, serverResult, currentResult, completed>>
    BY <1>2 DEF Broadcast, AwaitAll, DropBeacon, JoinThreads, Return, CancelRequest
  <2>2. MergedSet' = MergedSet
    BY <2>1 DEF MergedSet, Merged
  <2> QED BY <2>1, <2>2, MergeFrame
<1>3. ASSUME Over \/ \E c \in Connections : Connection(c) PROVE CountInv' /\ MergeInv'
  <2>1. UNCHANGED <<pc, serverResult, currentResult, completed>>
    BY <1>3 DEF Over, vars, Connection, ConnPhase, ConnState, ConnEnd
  <2>2. MergedSet' = MergedSet
    BY <2>1 DEF MergedSet, Merged
  <2> QED BY <2>1, <2>2, MergeFrame
<1>4. ASSUME NEW c \in Connections, Thread(c) PROVE CountInv' /\ MergeInv'
  <2>1. CASE Merge(c)
    BY <2>1, MergeCounts, MergeKeepsBest
  <2>2. CASE Announce(c)
    <3>1. MergedSet' = MergedSet
      BY <2>2 DEF Announce, Goto, TypeOK, MergedSet, Merged
    <3> QED BY <2>2, <3>1, MergeFrame DEF Announce
  <2>3. CASE ~Merge(c) /\ ~Announce(c)
    <3>1. /\ UNCHANGED <<currentResult, completed>>
          /\ \E l \in {"loop", "poll", "finish", "stop", "merge"} : Goto(c, l)
          /\ pc[c] \in RunServerLabels
          /\ \A d \in Connections : d # c => serverResult'[d] = serverResult[d]
      BY <1>4, <2>3 DEF Thread, Start, Canceled, ReadPhase, Answered, TimedOut, KeysHeld,
           LeaveLoop, GoOn, Finish, Result, RunServerLabels, LoopLabels, TypeOK
    <3>2. MergedSet' = MergedSet /\ c \notin MergedSet
      BY <3>1 DEF Goto, TypeOK, MergedSet, Merged, RunServerLabels, LoopLabels
    <3>3. \A d \in MergedSet : d # c /\ d \in Connections
      BY <3>2 DEF MergedSet
    <3> QED BY <3>1, <3>2, <3>3, MergeFrame
  <2> QED BY <2>1, <2>2, <2>3
<1> QED BY <1>1, <1>2, <1>3, <1>4 DEF Next, Main

(* GetResult and the threads keep step. *)
LEMMA MainKept ==
  ASSUME HandlerInv, Next
  PROVE  MainInv'
<1> USE DEF HandlerInv, mainVars, threadVars, linkVars
<1>1. CASE Launch
  <2>1. [state |-> "NOT_PAIRED_ERROR", from |-> None] # None
    BY ResultsExist, StateNames DEF UnlockResult
  <2> QED BY <1>1, <2>1 DEF Launch, MainInv, MergedSet
<1>2. CASE Broadcast
  BY <1>2 DEF Broadcast, MainInv, MergedSet, Merged, TypeOK
<1>3. CASE AwaitAll
  <2>1. MergedSet' = MergedSet
    BY <1>3 DEF AwaitAll, MergedSet, Merged
  <2>2. completed = Cardinality(Connections) => MergedSet = Connections
    <3>1. MergedSet \in SUBSET Connections BY DEF MergedSet
    <3> QED BY <3>1, ConnectionsFinite, FS_Subset DEF CountInv
  <2> QED BY <1>3, <2>1, <2>2 DEF AwaitAll, MainInv
<1>4. CASE DropBeacon
  BY <1>4 DEF DropBeacon, MainInv, MergedSet, Merged
<1>5. CASE JoinThreads
  BY <1>5 DEF JoinThreads, MainInv, MergedSet, Merged, TypeOK
<1>6. CASE Return
  BY <1>6, ResultsExist DEF Return, MainInv, MergedSet, Merged, TypeOK
<1>7. CASE CancelRequest
  BY <1>7 DEF CancelRequest, MainInv, MergedSet, Merged
<1>8. CASE Over
  BY <1>8 DEF Over, vars, MainInv, MergedSet, Merged
<1>9. ASSUME NEW c \in Connections, Connection(c) PROVE MainInv'
  <2>1. /\ UNCHANGED <<mainPc, returned, beacon, pc>>
        /\ \A d \in Connections : link'[d] = "deleted" => link[d] = "deleted"
    BY <1>9 DEF Connection, ConnPhase, ConnState, ConnEnd, TypeOK
  <2> QED BY <2>1 DEF MainInv, MergedSet, Merged
<1>10. ASSUME NEW c \in Connections, Thread(c) PROVE MainInv'
  <2>1. /\ pc[c] \notin {"unborn", "done"}
        /\ \E l \in {"loop", "poll", "finish", "stop", "merge", "announce", "done"} :
             Goto(c, l) /\ (Merged(c) => l = "done")
        /\ returned' = returned
        /\ mainPc' = mainPc \/ (mainPc = "blocked" /\ mainPc' = "wait")
        /\ beacon' # beacon => beacon' \in {"on", "off"}
        /\ \A d \in Connections : link'[d] = "deleted" => link[d] = "deleted"
    BY <1>10 DEF Thread, Start, Canceled, ReadPhase, Answered, TimedOut, KeysHeld,
         LeaveLoop, GoOn, Finish, Result, Merge, Announce, TypeOK, StopBeacon,
         StartBeacon, Merged
  <2>2. MergedSet \subseteq MergedSet' /\ MergedSet' \subseteq Connections
    BY <2>1 DEF Goto, TypeOK, MergedSet, Merged
  <2>3. mainPc \notin {"begin", "stopping", "returned"}
    BY <2>1 DEF MainInv
  <2>4. \A d \in Connections : pc'[d] # "unborn"
    BY <2>1, <2>3 DEF Goto, TypeOK, MainInv
  <2> QED BY <2>1, <2>2, <2>3, <2>4 DEF MainInv, TypeOK
<1> QED BY <1>1, <1>2, <1>3, <1>4, <1>5, <1>6, <1>7, <1>8, <1>9, <1>10 DEF Next, Main

(* The invariant holds when GetResult starts. *)
LEMMA InitInv == Init => HandlerInv
<1> SUFFICES ASSUME Init PROVE HandlerInv
  OBVIOUS
<1>1. TypeOK
  BY InitTyped
<1>2. ReportInv
  BY DEF Init, ReportInv
<1>3. MergedSet = {}
  BY DEF Init, MergedSet, Merged
<1>4. CountInv
  BY <1>3, FS_EmptySet DEF Init, CountInv
<1>5. MergeInv
  BY <1>3 DEF Init, MergeInv, MergedSuccesses, MergedAnswers, MergedPrimaries
<1>6. MainInv
  BY DEF Init, MainInv, HasBroadcaster
<1> QED BY <1>1, <1>2, <1>4, <1>5, <1>6 DEF HandlerInv

(* Every step of a request keeps the invariant. *)
LEMMA StepInv == HandlerInv /\ [Next]_vars => HandlerInv'
<1> SUFFICES ASSUME HandlerInv, [Next]_vars PROVE HandlerInv'
  OBVIOUS
<1>1. CASE Next
  <2>1. TypeOK'
    <3>1. CASE Over
      BY <3>1 DEF Over, vars, HandlerInv, TypeOK
    <3> QED BY <1>1, <3>1, ConnectionTyped, MainTyped, ThreadTyped DEF Next, HandlerInv
  <2> QED BY <1>1, <2>1, ReportKept, MergedKept, MainKept DEF HandlerInv
<1>2. CASE UNCHANGED vars
  <2>1. UNCHANGED <<MergedSet, MergedSuccesses, MergedAnswers, MergedPrimaries>>
    BY <1>2 DEF vars, MergedSet, MergedSuccesses, MergedAnswers, MergedPrimaries, Merged
  <2>2. TypeOK' /\ ReportInv'
    BY <1>2 DEF vars, HandlerInv, TypeOK, ReportInv
  <2>3. CountInv' /\ MergeInv' /\ MainInv'
    BY <1>2, <2>1 DEF vars, HandlerInv, CountInv, MergeInv, MainInv
  <2> QED BY <2>2, <2>3 DEF HandlerInv
<1> QED BY <1>1, <1>2

(* In every request, however the threads of its connections interleave and  *)
(* whatever the phones answer, currentResult is the best of the merged      *)
(* reports, completed counts them, and GetResult cleans up after the last.  *)
THEOREM HandlerInvariant == Spec => []HandlerInv
BY InitInv, StepInv, PTL DEF Spec

(* Type correctness of a request. *)
THEOREM TypeCorrect == Spec => []TypeOK
<1>1. HandlerInv => TypeOK
  BY DEF HandlerInv
<1> QED BY <1>1, HandlerInvariant, PTL

(* GetResult deletes the broadcaster and the connections only when no       *)
(* thread can use them any more.                                            *)
THEOREM CleanupIsSafe == Spec => []NoUseAfterDelete
<1>1. HandlerInv => NoUseAfterDelete
  BY ThreadLabelNames DEF HandlerInv, MainInv, NoUseAfterDelete, TypeOK, MergedSet, Merged,
       RunServerLabels, LoopLabels
<1> QED BY <1>1, HandlerInvariant, PTL

(* A merge never makes currentResult worse: a success is not lost, and an   *)
(* answer of the phone only gives way to another answer or a success.       *)
THEOREM MergesOnlyImprove == Spec => ResultNeverDegrades
<1>1. HandlerInv /\ [Next]_vars =>
        [Worth(currentResult'.state) >= Worth(currentResult.state)]_vars
  <2> SUFFICES ASSUME HandlerInv, Next
               PROVE  Worth(currentResult'.state) >= Worth(currentResult.state)
    OBVIOUS
  <2>1. CASE UNCHANGED currentResult
    BY <2>1 DEF Worth
  <2>2. ASSUME NEW c \in Connections, Merge(c)
        PROVE  Worth(currentResult'.state) >= Worth(currentResult.state)
    <3>1. serverResult[c].state # "UNKNOWN"
      BY <2>2 DEF Merge, HandlerInv, ReportInv
    <3>2. \/ currentResult' = currentResult
          \/ /\ currentResult' = serverResult[c]
             /\ \/ serverResult[c].state = "SUCCESS"
                \/ IsPhoneAnswer(serverResult[c].state) /\ currentResult.state # "SUCCESS"
                \/ currentResult.state # "SUCCESS" /\ ~IsPhoneAnswer(currentResult.state)
      BY <2>2, <3>1 DEF Merge, Stored, IsPhoneAnswer, PhoneAnswers
    <3> QED BY <3>1, <3>2 DEF Worth, IsPhoneAnswer, PhoneAnswers
  <2>3. UNCHANGED currentResult \/ \E c \in Connections : Merge(c)
    BY DEF Next, Main, Launch, Broadcast, AwaitAll, DropBeacon, JoinThreads, Return,
         CancelRequest, Over, vars, Connection, ConnPhase, ConnState, ConnEnd, Thread,
         Start, Canceled, ReadPhase, Answered, TimedOut, KeysHeld, LeaveLoop, GoOn,
         Finish, Result, Announce
  <2> QED BY <2>1, <2>2, <2>3
<1> QED BY <1>1, HandlerInvariant, PTL DEF Spec, ResultNeverDegrades

-----------------------------------------------------------------------------
(* Refinement *)

(* The reports of the abstract request. *)
Reports == [c \in Connections |-> IF Merged(c) THEN serverResult[c] ELSE None]

(* A step that merges nothing and returns nothing is a stutter of the       *)
(* abstract request.                                                        *)
LEMMA StutterMaps ==
  ASSUME MergedSet' = MergedSet,
         \A c \in MergedSet : serverResult'[c] = serverResult[c],
         returned' = returned
  PROVE  UNCHANGED Request!vars
<1>1. \A c \in Connections : Merged(c)' <=> Merged(c)
  BY DEF MergedSet
<1>2. Reports' = Reports
  BY <1>1 DEF Reports, MergedSet
<1> QED BY <1>2 DEF Request!vars, Reports

(* A merge is the report of its connection. *)
LEMMA MergeMaps ==
  ASSUME HandlerInv, NEW c \in Connections, Merge(c)
  PROVE  Request!Report(c)
<1> DEFINE Res == {r \in UnlockResult : r.state # "UNKNOWN"}
<1>1. mainPc # "returned" /\ returned = None /\ returned' = returned
  BY DEF HandlerInv, MainInv, Merge, mainVars
<1>2. Reports[c] = None
  BY DEF Merge, Merged, Reports
<1>3. serverResult[c] \in Res
  BY DEF HandlerInv, ReportInv, Merge, TypeOK
<1>4. /\ MergedSet' = MergedSet \cup {c}
      /\ serverResult' = serverResult
  BY MergeCounts DEF HandlerInv, Merge
<1>5. \A d \in Connections : Merged(d)' <=> Merged(d) \/ d = c
  BY <1>4 DEF MergedSet
<1>6. Reports'[c] = serverResult[c]
  BY <1>4, <1>5 DEF Reports
<1>7. Reports' = [Reports EXCEPT ![c] = Reports'[c]]
  BY <1>4, <1>5, <1>6 DEF Reports
<1> QED BY <1>1, <1>2, <1>3, <1>6, <1>7 DEF Request!Report, Reports

(* The return of GetResult is the return of the abstract request. *)
LEMMA ReturnMaps ==
  ASSUME HandlerInv, Return
  PROVE  Request!Return
<1>1. /\ mainPc = "stopping" /\ returned = None /\ returned' = currentResult
      /\ Connections # {}
      /\ \A c \in Connections : pc[c] = "done"
      /\ UNCHANGED <<pc, serverResult>>
  BY DEF HandlerInv, MainInv, Return
<1>2. /\ MergedSet = Connections
      /\ \A c \in Connections : Merged(c) /\ Merged(c)'
  BY <1>1 DEF MergedSet, Merged
<1>3. /\ \A c \in Connections : Reports[c] = serverResult[c]
      /\ Reports' = Reports
  BY <1>1, <1>2 DEF Reports
<1>4. \A c \in Connections : Reports[c] # None
  BY <1>1, <1>3 DEF HandlerInv, ReportInv
<1>5. /\ Request!Reported = {serverResult[c] : c \in Connections}
      /\ Request!PrimaryReports = {serverResult[c] : c \in MergedPrimaries}
      /\ Request!Successes = {serverResult[c] : c \in MergedSuccesses}
      /\ Request!PhoneReports = {serverResult[c] : c \in MergedAnswers}
  <2>1. Request!Reported = {serverResult[c] : c \in Connections}
    BY <1>3 DEF Request!Reported, Reports
  <2>2. Connections \ OtherClients = MergedPrimaries
    BY <1>2 DEF OtherClients, MergedPrimaries
  <2>3. Request!PrimaryReports = {serverResult[c] : c \in MergedPrimaries}
    BY <1>3, <2>2 DEF Request!PrimaryReports, Reports
  <2>4. Request!Successes = {serverResult[c] : c \in MergedSuccesses}
    BY <1>2, <2>1 DEF Request!Successes, MergedSuccesses
  <2>5. Request!PhoneReports = {serverResult[c] : c \in MergedAnswers}
    BY <1>2, <2>1 DEF Request!PhoneReports, MergedAnswers, IsPhoneAnswer
  <2> QED BY <2>1, <2>3, <2>4, <2>5
<1>6. currentResult \in Request!Best
  BY <1>1, <1>2, <1>5 DEF HandlerInv, MergeInv, Request!Best
<1> QED BY <1>1, <1>3, <1>4, <1>6 DEF Request!Return, Reports

(* Every request implements the abstract one: each connection reports once, *)
(* and GetResult then returns the best report.                              *)
THEOREM RequestImplemented == Spec => ImplementsRequest
<1>1. Init => Request!Init
  <2> SUFFICES ASSUME Init PROVE Request!Init
    OBVIOUS
  <2>1. Reports = [c \in Connections |-> None]
    BY DEF Init, Reports, Merged
  <2> QED BY <2>1 DEF Init, Reports, Request!Init
<1>2. HandlerInv /\ [Next]_vars => [Request!Next]_(Request!vars)
  <2> SUFFICES ASSUME HandlerInv, [Next]_vars
               PROVE  Request!Next \/ UNCHANGED Request!vars
    OBVIOUS
  <2> USE DEF mainVars, threadVars, linkVars
  <2>1. CASE Launch
    <3>1. CASE Connections = {}
      <4>1. returned = None
        BY <2>1 DEF Launch, HandlerInv, MainInv
      <4>2. Request!Return
        BY <2>1, <3>1, <4>1 DEF Launch, Request!Return, Request!Best, Merged
      <4> QED BY <4>2 DEF Request!Next
    <3>2. CASE Connections # {}
      <4>1. MergedSet = {} /\ MergedSet' = {}
        BY <2>1, <3>2 DEF Launch, HandlerInv, MainInv, MergedSet, Merged
      <4> QED BY <2>1, <3>2, <4>1, StutterMaps DEF Launch
    <3> QED BY <3>1, <3>2
  <2>2. CASE Broadcast \/ AwaitAll \/ DropBeacon \/ JoinThreads \/ CancelRequest \/ Over
               \/ UNCHANGED vars \/ \E c \in Connections : Connection(c)
    <3>1. UNCHANGED <<pc, serverResult, returned>>
      BY <2>2 DEF Broadcast, AwaitAll, DropBeacon, JoinThreads, CancelRequest, Over, vars,
           Connection, ConnPhase, ConnState, ConnEnd
    <3>2. MergedSet' = MergedSet
      BY <3>1 DEF MergedSet, Merged
    <3> QED BY <3>1, <3>2, StutterMaps
  <2>3. CASE Return
    BY <2>3, ReturnMaps DEF Request!Next
  <2>4. ASSUME NEW c \in Connections, Thread(c)
        PROVE  Request!Next \/ UNCHANGED Request!vars
    <3>1. CASE Merge(c)
      BY <3>1, MergeMaps DEF Request!Next
    <3>2. CASE ~Merge(c)
      <4>1. /\ returned' = returned
            /\ \E l \in {"loop", "poll", "finish", "stop", "merge", "done"} :
                 Goto(c, l) /\ (Merged(c) <=> l = "done")
            /\ \A d \in Connections : (d # c \/ Merged(c)) => serverResult'[d] = serverResult[d]
        BY <2>4, <3>2 DEF Thread, Start, Canceled, ReadPhase, Answered, TimedOut, KeysHeld,
             LeaveLoop, GoOn, Finish, Result, Announce, HandlerInv, TypeOK, Merged
      <4>2. MergedSet' = MergedSet
        BY <4>1 DEF Goto, HandlerInv, TypeOK, MergedSet, Merged
      <4>3. \A d \in MergedSet : serverResult'[d] = serverResult[d]
        BY <4>1 DEF MergedSet
      <4> QED BY <4>1, <4>2, <4>3, StutterMaps
    <3> QED BY <3>1, <3>2
  <2> QED BY <2>1, <2>2, <2>3, <2>4 DEF Next, Main
<1> QED BY <1>1, <1>2, HandlerInvariant, PTL DEF Spec, ImplementsRequest, Request!Spec

-----------------------------------------------------------------------------
(* The status line and the final message *)

(* A step of one thread that leaves the status line to its owner. *)
LEMMA StatusFrame ==
  ASSUME StatusInv, NEW c \in Connections, UNCHANGED <<statusPhase, statusOwner, statusDone>>,
         \A d \in Connections \ {c} :
           /\ pc'[d] = pc[d] /\ state'[d] = state[d] /\ verdict'[d] = verdict[d]
           /\ serverResult'[d] = serverResult[d],
         Releases(c) => Releases(c)'
  PROVE  StatusInv'
<1>1. \A d \in Connections \ {c} : Releases(d)' <=> Releases(d)
  BY DEF Releases
<1> QED BY <1>1 DEF StatusInv

(* Whoever holds the status line gives it up. *)
LEMMA StatusKept ==
  ASSUME HandlerInv, StatusInv, Next
  PROVE  StatusInv'
<1>0. TypeOK /\ ReportInv /\ CountInv /\ MainInv
  BY DEF HandlerInv
<1> USE DEF mainVars, threadVars, linkVars
<1>1. CASE Launch
  <2>1. CASE Connections = {}
    BY <1>1, <2>1 DEF Launch, StatusInv, statusVars
  <2>2. \A c \in Connections : ~Releases(c)
    BY <1>0, <1>1 DEF Launch, MainInv, Releases, LoopLabels
  <2> QED BY <1>1, <2>1, <2>2 DEF Launch, StatusInv, statusVars
<1>2. CASE Broadcast \/ AwaitAll \/ DropBeacon \/ JoinThreads \/ Return \/ CancelRequest \/ Over
             \/ \E c \in Connections : Connection(c)
  <2>1. UNCHANGED <<pc, state, verdict, serverResult, statusVars>>
    BY <1>2 DEF Broadcast, AwaitAll, DropBeacon, JoinThreads, Return, CancelRequest, Over, vars,
         Connection, ConnPhase, ConnState, ConnEnd, statusVars
  <2> QED BY <2>1 DEF StatusInv, Releases, statusVars
<1>3. ASSUME NEW c \in Connections, Thread(c) PROVE StatusInv'
  <2>0. \A d \in Connections \ {c} :
           /\ pc'[d] = pc[d] /\ state'[d] = state[d] /\ verdict'[d] = verdict[d]
           /\ serverResult'[d] = serverResult[d]
    BY <1>0, <1>3 DEF Thread, Start, Canceled, ReadPhase, Answered, TimedOut, KeysHeld, LeaveLoop,
         GoOn, Finish, Result, Merge, Announce, Goto, TypeOK
  <2>1. CASE Start(c)
    <3>1. ~Releases(c)
      BY <2>1 DEF Start, Releases, LoopLabels
    <3>2. UNCHANGED <<statusPhase, statusOwner, statusDone>>
      BY <2>1 DEF Start, statusVars
    <3> QED BY <2>0, <3>1, <3>2, StatusFrame
  <2>2. CASE Canceled(c) \/ Answered(c) \/ TimedOut(c) \/ KeysHeld(c) \/ GoOn(c)
    <3>1. pc'[c] \in LoopLabels \cup {"finish"}
      BY <1>0, <2>2 DEF Canceled, Answered, TimedOut, KeysHeld, LeaveLoop, GoOn, Goto, TypeOK, LoopLabels
    <3>2. UNCHANGED <<statusPhase, statusOwner, statusDone>>
      BY <2>2 DEF Canceled, Answered, TimedOut, KeysHeld, LeaveLoop, GoOn, statusVars
    <3>3. Releases(c)'
      BY <3>1 DEF Releases
    <3> QED BY <2>0, <3>2, <3>3, StatusFrame
  <2>3. CASE ReadPhase(c)
    <3>1. pc'[c] = "poll"
      BY <1>0, <2>3 DEF ReadPhase, Goto, TypeOK
    <3>2. Releases(c)'
      BY <3>1 DEF Releases, LoopLabels
    <3>3. CASE UNCHANGED statusVars
      BY <2>0, <3>2, <3>3, StatusFrame DEF statusVars
    <3>4. CASE statusOwner' = c
      BY <3>2, <3>4 DEF StatusInv
    <3> QED BY <2>3, <3>3, <3>4 DEF ReadPhase, PrintStatus
  <2>4. CASE Finish(c)
    <3>1. pc'[c] = "stop" /\ state'[c] = state[c]
      BY <1>0, <2>4 DEF Finish, Goto, TypeOK
    <3>2. CASE state[c] = "SUCCESS"
      <4>1. UNCHANGED <<statusPhase, statusOwner, statusDone>>
        BY <2>4, <3>2 DEF Finish, statusVars
      <4>2. Releases(c)'
        BY <3>1, <3>2 DEF Releases
      <4> QED BY <2>0, <4>1, <4>2, StatusFrame
    <3>3. CASE state[c] # "SUCCESS"
      <4>1. PrintStatus(c, "FINISHED")
        BY <2>4, <3>3 DEF Finish
      <4>2. CASE statusPhase' = "FINISHED" \/ statusDone'
        BY <4>2 DEF StatusInv
      <4>3. CASE UNCHANGED statusVars /\ ~statusDone /\ c # statusOwner
        <5>1. statusPhase # "FINISHED" => statusOwner \in Connections \ {c}
          BY <4>3 DEF StatusInv
        <5>2. \A d \in Connections \ {c} : Releases(d) => Releases(d)'
          BY <2>0 DEF Releases
        <5> QED BY <4>3, <5>1, <5>2 DEF StatusInv, statusVars
      <4> QED BY <1>0, <4>1, <4>2, <4>3 DEF PrintStatus, statusVars
    <3> QED BY <3>2, <3>3
  <2>5. CASE Result(c)
    <3>1. CASE statusDone'
      BY <3>1 DEF StatusInv
    <3>2. CASE /\ serverResult' = [serverResult EXCEPT ![c] = [state |-> LatestState(c), from |-> c]]
               /\ UNCHANGED statusVars
      <4>1. pc[c] = "stop" /\ pc'[c] = "merge" /\ serverResult'[c].state = LatestState(c)
        BY <1>0, <2>5, <3>2 DEF Result, Goto, TypeOK
      <4>2. state[c] = "SUCCESS" => LatestState(c) = "SUCCESS"
        BY DEF LatestState, Repolls
      <4>3. Releases(c) => Releases(c)'
        BY <4>1, <4>2 DEF Releases, LoopLabels
      <4>4. UNCHANGED <<statusPhase, statusOwner, statusDone>>
        BY <3>2 DEF statusVars
      <4> QED BY <2>0, <4>3, <4>4, StatusFrame
    <3> QED BY <2>5, <3>1, <3>2 DEF Result, PrintFinal, statusVars
  <2>6. CASE Merge(c)
    <3>1. pc[c] = "merge" /\ pc'[c] = "announce"
      BY <1>0, <2>6 DEF Merge, Goto, TypeOK
    <3>2. serverResult[c].state = "SUCCESS" => verdict'[c].isFinal
      BY <1>0, <2>6 DEF Merge, TypeOK
    <3>3. Releases(c) => Releases(c)'
      BY <3>1, <3>2 DEF Releases, LoopLabels
    <3>4. UNCHANGED <<statusPhase, statusOwner, statusDone>>
      BY <2>6 DEF Merge, statusVars
    <3> QED BY <2>0, <3>3, <3>4, StatusFrame
  <2>7. CASE Announce(c)
    <3>1. CASE verdict[c].isFinal
      <4>1. statusDone'
        BY <1>0, <2>7, <3>1 DEF Announce, PrintFinal, statusVars, TypeOK
      <4> QED BY <4>1 DEF StatusInv
    <3>2. CASE ~verdict[c].isFinal
      <4>1. ~Releases(c)
        BY <2>7, <3>2 DEF Announce, Releases, LoopLabels
      <4>2. UNCHANGED <<statusPhase, statusOwner, statusDone>>
        BY <2>7, <3>2 DEF Announce, statusVars
      <4> QED BY <2>0, <4>1, <4>2, StatusFrame
    <3> QED BY <3>1, <3>2
  <2> QED BY <1>3, <2>1, <2>2, <2>3, <2>4, <2>5, <2>6, <2>7 DEF Thread
<1> QED BY <1>1, <1>2, <1>3 DEF Next, Main

(* A late answer of the phone is in the report, or came when nobody reads it. *)
LEMMA LateKept ==
  ASSUME HandlerInv, LateAnswerReported, Next
  PROVE  LateAnswerReported'
<1>0. TypeOK /\ ReportInv /\ MainInv
  BY DEF HandlerInv
<1> USE DEF mainVars, threadVars, linkVars
<1>1. CASE Main \/ CancelRequest \/ Over
  <2>1. UNCHANGED <<serverResult, connState>>
    BY <1>1 DEF Main, Launch, Broadcast, AwaitAll, DropBeacon, JoinThreads, Return, CancelRequest,
         Over, vars
  <2> QED BY <2>1 DEF LateAnswerReported
<1>2. ASSUME NEW c \in Connections, Connection(c) PROVE LateAnswerReported'
  <2>1. serverResult' = serverResult /\ \A d \in Connections \ {c} : connState'[d] = connState[d]
    BY <1>0, <1>2 DEF Connection, ConnPhase, ConnState, ConnEnd, TypeOK
  <2>2. serverResult[c] # None => connState'[c] = connState[c]
    <3>1. serverResult[c] # None => ~Observed(c)
      BY <1>0 DEF ReportInv, Observed, LoopLabels
    <3> QED BY <1>2, <3>1 DEF Connection, ConnPhase, ConnState, ConnEnd
  <2> QED BY <2>1, <2>2 DEF LateAnswerReported
<1>3. ASSUME NEW c \in Connections, Thread(c) PROVE LateAnswerReported'
  <2>0. /\ connState' = connState
        /\ \A d \in Connections \ {c} : serverResult'[d] = serverResult[d]
    BY <1>0, <1>3 DEF Thread, Start, Canceled, ReadPhase, Answered, TimedOut, KeysHeld, LeaveLoop,
         GoOn, Finish, Result, Merge, Announce, TypeOK
  <2>1. CASE serverResult'[c] = serverResult[c]
    BY <2>0, <2>1 DEF LateAnswerReported
  <2>2. CASE \E s : serverResult'[c] = [state |-> s, from |-> None]
    <3>1. serverResult'[c].from # c
      BY <2>2, ConstantsAssumption
    <3> QED BY <2>0, <3>1 DEF LateAnswerReported
  <2>3. CASE serverResult'[c] = [state |-> LatestState(c), from |-> c]
    <3>1. ASSUME OnWindows, IsBluetooth(c), connState[c] \in PhoneAnswers \cup {"SUCCESS"}
          PROVE  LatestState(c) \in PhoneAnswers \cup {"SUCCESS"}
      <4>1. PollResult(c) = connState[c] /\ connState[c] # "UNKNOWN"
        BY <3>1 DEF PollResult, IsPhoneAnswer, PhoneAnswers
      <4> QED BY <3>1, <4>1 DEF LatestState, Repolls
    <3>2. serverResult'[c].state = LatestState(c)
      BY <2>3
    <3> QED BY <2>0, <3>1, <3>2 DEF LateAnswerReported
  <2>4. CASE Start(c)
    BY <1>0, <2>1, <2>2, <2>4 DEF Start, TypeOK
  <2>5. CASE Result(c)
    BY <1>0, <2>2, <2>3, <2>5 DEF Result, TypeOK
  <2>6. CASE ~Start(c) /\ ~Result(c)
    BY <1>3, <2>1, <2>6 DEF Thread, Canceled, ReadPhase, Answered, TimedOut, KeysHeld, LeaveLoop,
         GoOn, Finish, Merge, Announce
  <2> QED BY <2>4, <2>5, <2>6
<1> QED BY <1>1, <1>2, <1>3 DEF Next

(* The final message stays, or RunServer shows the decrypt error. *)
MessageStep ==
  \/ statusDone' = statusDone /\ finalMessage' = finalMessage
  \/ statusDone' /\ ~statusDone /\ finalMessage' = "error_password_decrypt" /\ DecryptFailed'

(* A step that merges and announces nothing keeps the final message. *)
LEMMA FinalFrame ==
  ASSUME FinalInv, UNCHANGED <<currentResult, verdict>>, MergedSet' = MergedSet,
         \A c \in Connections : (pc'[c] = "announce") <=> (pc[c] = "announce"),
         \A c \in Connections : serverResult[c] # None => serverResult'[c] = serverResult[c],
         \A c \in MergedSet : serverResult[c] # None,
         None \notin UnlockResult,
         MessageStep,
         mainPc' = "returned" /\ Connections # {} => returned' = currentResult
  PROVE  FinalInv'
<1>1. \A c \in Connections : Announces(c)' <=> Announces(c)
  BY DEF Announces
<1>2. MergedSuccesses' = MergedSuccesses /\ MergedSuccesses \subseteq MergedSet
      /\ MergedSet \subseteq Connections
  BY DEF MergedSuccesses, MergedSet
<1>3. DecryptFailed => DecryptFailed'
  <2>1. [state |-> "DATA_ERROR", from |-> None] \in UnlockResult
    BY StateNames DEF UnlockResult
  <2>2. [state |-> "DATA_ERROR", from |-> None] # None
    BY <2>1
  <2> QED BY <2>2 DEF DecryptFailed
<1>4. \A s : IsFinalState(s)' <=> IsFinalState(s)
  BY DEF IsFinalState
<1>5. (statusDone => \/ IsFinalState(finalMessage)
                     \/ finalMessage = "error_password_decrypt" /\ DecryptFailed)'
  BY <1>3, <1>4 DEF FinalInv, IsFinalState, MessageStep
<1>6. \A c \in Connections : Announces(c)' => IsFinalState(verdict[c].final)'
  BY <1>1, <1>4 DEF FinalInv, IsFinalState
<1>7. statusDone => statusDone'
  BY DEF MessageStep
<1>8. \A c \in MergedSuccesses' : statusDone' \/ Announces(c)'
  BY <1>1, <1>2, <1>7 DEF FinalInv
<1>9. MergedSet' = Connections /\ Connections # {} =>
        statusDone' \/ \E c \in Connections : Announces(c)'
  BY <1>1, <1>7 DEF FinalInv
<1> QED BY <1>5, <1>6, <1>8, <1>9 DEF FinalInv

(* The critical section under resultMutex: a success is announced by its    *)
(* thread, and any other result by the last one.                            *)
LEMMA FinalMerge ==
  ASSUME HandlerInv, FinalInv, NEW c \in Connections, Merge(c)
  PROVE  FinalInv'
<1>0. TypeOK /\ ReportInv /\ CountInv /\ MergeInv /\ MainInv
  BY DEF HandlerInv
<1> DEFINE last == completed + 1 = Cardinality(Connections)
           fin == serverResult[c].state = "SUCCESS" \/ (last /\ Stored(c).state # "SUCCESS")
<1>1. /\ c \notin MergedSet /\ MergedSet' = MergedSet \cup {c} /\ (last <=> MergedSet' = Connections)
      /\ MergedSet \subseteq Connections
  BY <1>0, MergeCounts DEF MergedSet
<1>2. /\ pc[c] = "merge" /\ pc' = [pc EXCEPT ![c] = "announce"]
      /\ UNCHANGED <<mainPc, returned, serverResult, statusDone, finalMessage>>
      /\ currentResult' = IF last /\ Stored(c).state = "UNKNOWN" THEN serverResult[c] ELSE Stored(c)
  BY DEF Merge, Goto, mainVars, statusVars
<1>3. /\ verdict'[c].isFinal = fin /\ verdict'[c].final = currentResult'.state
      /\ \A d \in Connections \ {c} : verdict'[d] = verdict[d] /\ pc'[d] = pc[d]
      /\ pc'[c] = "announce"
  <2>1. verdict' = [verdict EXCEPT ![c] = [isFinal |-> fin, isLast |-> last, final |-> currentResult'.state]]
    BY Zenon DEF Merge
  <2>2. verdict'[c] = [isFinal |-> fin, isLast |-> last, final |-> currentResult'.state]
    BY <1>0, <2>1 DEF TypeOK
  <2> QED BY <1>0, <1>2, <2>1, <2>2 DEF TypeOK
<1>4. serverResult[c].state = "SUCCESS" => currentResult'.state = "SUCCESS"
  BY <1>2 DEF Stored
<1>5. currentResult.state = "SUCCESS" => currentResult'.state = "SUCCESS"
  BY <1>2 DEF Stored, IsPhoneAnswer, PhoneAnswers
<1>6. \A s : IsFinalState(s) => IsFinalState(s)'
  BY <1>1, <1>5 DEF IsFinalState
<1>7. \A d \in Connections \ {c} : Announces(d)' <=> Announces(d)
  BY <1>3 DEF Announces
<1>8. Announces(c)' <=> fin
  BY <1>3 DEF Announces
<1>9. fin => IsFinalState(verdict[c].final)'
  BY <1>1, <1>3, <1>4 DEF IsFinalState
<1>10. DecryptFailed' <=> DecryptFailed
  BY <1>2 DEF DecryptFailed
<1>11. ~Announces(c)
  BY <1>2 DEF Announces
<1>12. (statusDone => \/ IsFinalState(finalMessage)
                      \/ finalMessage = "error_password_decrypt" /\ DecryptFailed)'
  BY <1>2, <1>6, <1>10 DEF FinalInv, IsFinalState
<1>13. \A d \in Connections : Announces(d)' => IsFinalState(verdict[d].final)'
  <2>1. ASSUME NEW d \in Connections \ {c}, Announces(d)'
        PROVE  IsFinalState(verdict[d].final)'
    <3>1. IsFinalState(verdict[d].final)
      BY <1>7, <2>1 DEF FinalInv
    <3>2. verdict'[d].final = verdict[d].final
      BY <1>3, <2>1
    <3> QED BY <1>6, <3>1, <3>2 DEF IsFinalState
  <2> QED BY <1>8, <1>9, <2>1
<1>14. \A d \in MergedSuccesses' : statusDone' \/ Announces(d)'
  <2>1. \A d \in MergedSuccesses' : d \in MergedSuccesses \/ (d = c /\ serverResult[c].state = "SUCCESS")
    BY <1>1, <1>2 DEF MergedSuccesses
  <2>2. MergedSuccesses \subseteq Connections \ {c}
    BY <1>1 DEF MergedSuccesses
  <2> QED BY <1>2, <1>7, <1>8, <2>1, <2>2 DEF FinalInv
<1>15. MergedSet' = Connections =>
         statusDone' \/ \E d \in Connections : Announces(d)'
  <2> SUFFICES ASSUME MergedSet' = Connections, ~fin
               PROVE  statusDone' \/ \E d \in Connections : Announces(d)'
    BY <1>8
  <2>1. Stored(c).state = "SUCCESS" /\ serverResult[c].state # "SUCCESS"
    BY <1>1
  <2>2. currentResult.state = "SUCCESS"
    BY <2>1 DEF Stored
  <2>3. PICK d \in MergedSuccesses : TRUE
    BY <1>0, <2>2, CurrentIsBest
  <2>4. d \in Connections \ {c}
    BY <1>1, <2>3 DEF MergedSuccesses
  <2> QED BY <1>2, <1>7, <2>3, <2>4 DEF FinalInv
<1>16. mainPc' # "returned"
  BY <1>0, <1>2 DEF MainInv
<1> QED BY <1>12, <1>13, <1>14, <1>15, <1>16 DEF FinalInv

(* The thread shows the final message, unless one is shown already. *)
LEMMA FinalAnnounce ==
  ASSUME HandlerInv, FinalInv, NEW c \in Connections, Announce(c)
  PROVE  FinalInv'
<1>0. TypeOK /\ ReportInv /\ MainInv
  BY DEF HandlerInv
<1>1. /\ pc[c] = "announce" /\ pc' = [pc EXCEPT ![c] = "done"]
      /\ UNCHANGED <<returned, currentResult, serverResult>>
      /\ verdict' = [verdict EXCEPT ![c] = NoVerdict]
      /\ mainPc' = mainPc \/ mainPc' = "wait"
  BY DEF Announce, Goto
<1>2. pc'[c] = "done" /\ \A d \in Connections \ {c} : verdict'[d] = verdict[d] /\ pc'[d] = pc[d]
  BY <1>0, <1>1 DEF TypeOK
<1>3. MergedSet' = MergedSet /\ MergedSet \subseteq Connections
  BY <1>1, <1>2 DEF MergedSet, Merged
<1>4. MergedSuccesses' = MergedSuccesses /\ MergedSuccesses \subseteq Connections
  BY <1>1, <1>3 DEF MergedSuccesses
<1>5. \A s : IsFinalState(s)' <=> IsFinalState(s)
  BY <1>1, <1>3 DEF IsFinalState
<1>6. DecryptFailed' <=> DecryptFailed
  BY <1>1 DEF DecryptFailed
<1>7. ~Announces(c)' /\ \A d \in Connections \ {c} : Announces(d)' <=> Announces(d)
  BY <1>2 DEF Announces
<1>8. /\ (statusDone => statusDone' /\ finalMessage' = finalMessage)
      /\ (Announces(c) /\ ~statusDone => statusDone' /\ finalMessage' = verdict[c].final)
      /\ (~Announces(c) => UNCHANGED <<statusDone, finalMessage>>)
  BY <1>0, <1>1 DEF Announce, Announces, PrintFinal, statusVars, TypeOK
<1>9. Announces(c) => statusDone'
  BY <1>8
<1>10. (statusDone => \/ IsFinalState(finalMessage)
                      \/ finalMessage = "error_password_decrypt" /\ DecryptFailed)'
  BY <1>5, <1>6, <1>8 DEF FinalInv, IsFinalState
<1>11. \A d \in Connections : Announces(d)' => IsFinalState(verdict[d].final)'
  BY <1>2, <1>5, <1>7 DEF FinalInv, IsFinalState
<1>12. \A d \in MergedSuccesses' : statusDone' \/ Announces(d)'
  BY <1>4, <1>7, <1>8, <1>9 DEF FinalInv
<1>13. MergedSet' = Connections /\ Connections # {} =>
         statusDone' \/ \E d \in Connections : Announces(d)'
  BY <1>3, <1>7, <1>8, <1>9 DEF FinalInv
<1>14. mainPc' = "returned" /\ Connections # {} => returned' = currentResult'
  BY <1>1 DEF FinalInv
<1> QED BY <1>10, <1>11, <1>12, <1>13, <1>14 DEF FinalInv

(* The final message and the returned result agree. *)
LEMMA FinalKept ==
  ASSUME HandlerInv, FinalInv, Next
  PROVE  FinalInv'
<1>0. TypeOK /\ ReportInv /\ MainInv
  BY DEF HandlerInv
<1>1. None \notin UnlockResult /\ \A c \in MergedSet : serverResult[c] # None
  BY <1>0, ConstantsAssumption DEF ReportInv, MergedSet, Merged
<1> USE DEF mainVars, threadVars, linkVars
<1>2. CASE Launch
  <2>1. UNCHANGED <<currentResult, verdict, serverResult, statusDone, finalMessage>>
    BY <1>2 DEF Launch, statusVars
  <2>2. \A c \in Connections : pc[c] # "announce" /\ pc'[c] # "announce"
    BY <1>0, <1>2 DEF Launch, MainInv
  <2>3. MergedSet' = MergedSet
    BY <1>0, <1>2 DEF Launch, MainInv, MergedSet, Merged
  <2>4. mainPc' = "returned" => Connections = {}
    BY <1>2 DEF Launch
  <2>5. /\ UNCHANGED <<currentResult, verdict>> /\ MessageStep
        /\ \A c \in Connections : (pc'[c] = "announce") <=> (pc[c] = "announce")
        /\ \A c \in Connections : serverResult[c] # None => serverResult'[c] = serverResult[c]
        /\ mainPc' = "returned" /\ Connections # {} => returned' = currentResult
    BY <2>1, <2>2, <2>4 DEF MessageStep
  <2> QED BY <1>1, <2>3, <2>5, FinalFrame
<1>3. CASE Broadcast \/ AwaitAll \/ DropBeacon \/ JoinThreads \/ Return \/ CancelRequest \/ Over
             \/ \E c \in Connections : Connection(c)
  <2>1. /\ UNCHANGED <<pc, currentResult, verdict, serverResult, statusDone, finalMessage>>
        /\ mainPc' = "returned" => (mainPc = "returned" /\ returned' = returned) \/ returned' = currentResult
    BY <1>3 DEF Broadcast, AwaitAll, DropBeacon, JoinThreads, Return, CancelRequest, Over, vars,
         Connection, ConnPhase, ConnState, ConnEnd, statusVars
  <2>2. MergedSet' = MergedSet
    BY <2>1 DEF MergedSet, Merged
  <2>3. mainPc' = "returned" /\ Connections # {} => returned' = currentResult
    BY <2>1 DEF FinalInv
  <2>4. /\ UNCHANGED <<currentResult, verdict>> /\ MessageStep
        /\ \A c \in Connections : (pc'[c] = "announce") <=> (pc[c] = "announce")
        /\ \A c \in Connections : serverResult[c] # None => serverResult'[c] = serverResult[c]
    BY <2>1 DEF MessageStep
  <2> QED BY <1>1, <2>2, <2>3, <2>4, FinalFrame
<1>4. ASSUME NEW c \in Connections, Thread(c), ~Merge(c), ~Announce(c) PROVE FinalInv'
  <2>1. /\ UNCHANGED <<mainPc, returned, currentResult, verdict>>
        /\ \E l \in {"loop", "poll", "finish", "stop", "merge"} : Goto(c, l)
        /\ pc[c] \in RunServerLabels
        /\ \A d \in Connections : d # c => serverResult'[d] = serverResult[d]
    BY <1>0, <1>4 DEF Thread, Start, Canceled, ReadPhase, Answered, TimedOut, KeysHeld,
         LeaveLoop, GoOn, Finish, Result, RunServerLabels, LoopLabels, TypeOK
  <2>2. /\ MergedSet' = MergedSet
        /\ \A d \in Connections : (pc'[d] = "announce") <=> (pc[d] = "announce")
    BY <1>0, <2>1 DEF Goto, TypeOK, MergedSet, Merged, RunServerLabels, LoopLabels
  <2>3. serverResult[c] = None
    BY <1>0, <2>1 DEF ReportInv, RunServerLabels, LoopLabels
  <2>4. MessageStep
    <3>1. CASE Result(c)
      <4>1. CASE UNCHANGED statusVars
        BY <4>1 DEF statusVars, MessageStep
      <4>2. CASE /\ PrintFinal("error_password_decrypt")
                 /\ serverResult' = [serverResult EXCEPT ![c] = [state |-> "DATA_ERROR", from |-> None]]
        <5>1. DecryptFailed'
          BY <1>0, <4>2 DEF TypeOK, DecryptFailed
        <5> QED BY <4>2, <5>1 DEF PrintFinal, statusVars, MessageStep
      <4> QED BY <3>1, <4>1, <4>2 DEF Result
    <3>2. CASE ~Result(c)
      BY <1>4, <3>2 DEF Thread, Start, Canceled, ReadPhase, Answered, TimedOut, KeysHeld,
         LeaveLoop, GoOn, Finish, PrintStatus, statusVars, MessageStep
    <3> QED BY <3>1, <3>2
  <2>5. mainPc' = "returned" /\ Connections # {} => returned' = currentResult
    BY <2>1 DEF FinalInv
  <2>6. \A d \in Connections : serverResult[d] # None => serverResult'[d] = serverResult[d]
    BY <2>1, <2>3
  <2>7. UNCHANGED <<currentResult, verdict>>
    BY <2>1
  <2> QED BY <1>1, <2>2, <2>4, <2>5, <2>6, <2>7, FinalFrame
<1> QED BY <1>2, <1>3, <1>4, FinalMerge, FinalAnnounce DEF Next, Main

(* The messages of every request: the status line is given up, the final    *)
(* message is the one of the result, a late answer is reported.             *)
THEOREM MessagesRight == Spec => []MessageInv
<1>1. Init => MessageInv
  <2> SUFFICES ASSUME Init PROVE MessageInv
    OBVIOUS
  <2>1. MergedSet = {} /\ \A c \in Connections : pc[c] = "unborn"
    BY DEF Init, MergedSet, Merged
  <2>2. StatusInv /\ LateAnswerReported
    BY DEF Init, StatusInv, LateAnswerReported
  <2>3. FinalInv
    BY <2>1 DEF Init, FinalInv, MergedSuccesses, Announces
  <2> QED BY <2>2, <2>3 DEF MessageInv
<1>2. HandlerInv /\ MessageInv /\ [Next]_vars => MessageInv'
  <2> SUFFICES ASSUME HandlerInv, MessageInv, [Next]_vars PROVE MessageInv'
    OBVIOUS
  <2>1. CASE Next
    BY <2>1, StatusKept, FinalKept, LateKept DEF MessageInv
  <2>2. CASE UNCHANGED vars
    <3>1. StatusInv' /\ LateAnswerReported'
      BY <2>2 DEF vars, MessageInv, StatusInv, Releases, LateAnswerReported
    <3>2. FinalInv'
      <4>1. MergedSet' = MergedSet /\ DecryptFailed' = DecryptFailed
        BY <2>2 DEF vars, MergedSet, Merged, DecryptFailed
      <4>2. MergedSuccesses' = MergedSuccesses
        BY <2>2, <4>1 DEF vars, MergedSuccesses
      <4> QED BY <2>2, <4>1, <4>2 DEF vars, MessageInv, FinalInv, Announces, IsFinalState
    <3> QED BY <3>1, <3>2 DEF MessageInv
  <2> QED BY <2>1, <2>2
<1> QED BY <1>1, <1>2, HandlerInvariant, PTL DEF Spec

(* GetResult returns with its final message shown, and the message is the   *)
(* one of the returned state unless a password did not decrypt.             *)
THEOREM MessageOfResult == Spec => []FinalMessageMatches
<1>1. HandlerInv /\ MessageInv => FinalMessageMatches
  <2> SUFFICES ASSUME HandlerInv, MessageInv, mainPc = "returned", Connections # {}
               PROVE  /\ statusDone
                      /\ \/ finalMessage = returned.state
                         \/ finalMessage = "error_password_decrypt" /\ DecryptFailed
    BY DEF FinalMessageMatches, DecryptFailed
  <2>1. \A c \in Connections : pc[c] = "done"
    BY DEF HandlerInv, MainInv
  <2>2. MergedSet = Connections /\ \A c \in Connections : ~Announces(c)
    BY <2>1 DEF MergedSet, Merged, Announces
  <2> QED BY <2>2 DEF MessageInv, FinalInv, IsFinalState
<1> QED BY <1>1, HandlerInvariant, MessagesRight, PTL

(* A thread that has ended does not hold the status line. *)
THEOREM StatusReleased == Spec => []StatusLineReleased
<1>1. MessageInv => StatusLineReleased
  BY DEF MessageInv, StatusInv, StatusLineReleased, Releases, LoopLabels
<1> QED BY <1>1, MessagesRight, PTL

(* The second poll of a Windows Bluetooth client reports what the phone     *)
(* answered while Stop() waited.                                            *)
THEOREM LateAnswers == Spec => []LateAnswerReported
<1>1. MessageInv => LateAnswerReported
  BY DEF MessageInv
<1> QED BY <1>1, MessagesRight, PTL

=============================================================================
