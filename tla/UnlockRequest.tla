---------------------------- MODULE UnlockRequest ----------------------------
(***************************************************************************)
(* What UnlockHandler::GetResult promises its callers (the Windows tile,   *)
(* pcbu-auth, the askpass helper, the unlock test window): every           *)
(* connection reports once, and the request then returns the best report.  *)
(* A confirmed unlock beats everything; otherwise an answer of the phone   *)
(* beats a timeout, a cancel or a transport error; otherwise the report of *)
(* a second Bluetooth client never hides what a first client found.        *)
(***************************************************************************)

CONSTANTS
  Sources,      \* the connections of the request
  Secondary,    \* the second Bluetooth clients among them
  Answers,      \* the states that are an answer of the phone
  Results,      \* the results a connection may report
  NotPaired,    \* the result of a request that has no connection
  None

VARIABLES
  reports,      \* what each connection reported, None before it did
  result        \* what the request returned, None before it did

vars == <<reports, result>>

-----------------------------------------------------------------------------

Reported == {reports[c] : c \in Sources}

Successes == {r \in Reported : r.state = "SUCCESS"}

PhoneReports == {r \in Reported : r.state \in Answers}

PrimaryReports == {reports[c] : c \in Sources \ Secondary}

(* The reports the request may return once every connection has reported.  *)
Best ==
  IF Sources = {} THEN {NotPaired}
  ELSE IF Successes # {} THEN Successes
  ELSE IF PhoneReports # {} THEN PhoneReports
  ELSE IF PrimaryReports # {} THEN PrimaryReports
  ELSE Reported

-----------------------------------------------------------------------------

Init ==
  /\ reports = [c \in Sources |-> None]
  /\ result = None

Report(c) ==
  /\ result = None
  /\ reports[c] = None
  /\ reports'[c] \in Results
  /\ reports' = [reports EXCEPT ![c] = reports'[c]]
  /\ UNCHANGED result

Return ==
  /\ result = None
  /\ \A c \in Sources : reports[c] # None
  /\ result' \in Best
  /\ UNCHANGED reports

Next == Return \/ \E c \in Sources : Report(c)

Spec == Init /\ [][Next]_vars

=============================================================================
