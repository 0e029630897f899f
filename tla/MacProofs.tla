------------------------------ MODULE MacProofs ------------------------------
(***************************************************************************)
(* The two programs that run on macOS only, each for any constants.        *)
(*                                                                         *)
(* MacAgent, however often the screen is locked and unlocked: what the     *)
(* agent shows is under way, one process at a time asks the phone, an      *)
(* outdated password is not typed on, and a password goes to the user it   *)
(* was asked for.  Every handler either ends the current generation        *)
(* (EndGeneration), opens one (NewGeneration) or moves one job a stage on  *)
(* (OneJob).                                                               *)
(*                                                                         *)
(* MacBluetooth, whatever the order of timeouts, closes and deaths: no     *)
(* callback reaches a delegate that is gone, the data of a write in flight *)
(* stays, and the relay loses no word.                                     *)
(***************************************************************************)
EXTENDS MacAgent, MacBluetooth, SequenceTheorems, TLAPS

------------------------------------------------------------------------------
(* AgentController, AuthProcess and PasswordInjector. *)

CoreInv == AgentTypeOK /\ JobInv /\ StateInv /\ QueueInv

(* The step puts no job into the inject queue. *)
NoneQueued ==
  \A g \in DOMAIN job' :
    job'[g].stage = "queued" => g \in DOMAIN job /\ job[g].stage = "queued"

Canceled(r) == [r EXCEPT !.canceled = TRUE, !.fd = IF @ = "open" THEN "closed" ELSE @]

(* What a canceled job keeps. *)
LEMMA CanceledJob ==
  ASSUME NEW r \in Jobs
  PROVE  /\ Canceled(r) \in Jobs
         /\ Canceled(r).canceled
         /\ Canceled(r).fd # "open"
         /\ Canceled(r).user = r.user
         /\ Canceled(r).stage = r.stage
         /\ Canceled(r).ok = r.ok
         /\ Canceled(r).reported = r.reported
         /\ Canceled(r).password = r.password
         /\ Canceled(r).tries = r.tries
         /\ Canceled(r).typed = r.typed
         /\ Canceled(r).late = r.late
BY DEF Jobs, Canceled

(* StopAuth cancels the job of m_AuthProcess and no other. *)
LEMMA Stopped ==
  ASSUME NEW j
  PROVE  /\ DOMAIN StopAuth(j) = DOMAIN j
         /\ \A g \in DOMAIN j :
              StopAuth(j)[g] = IF g # process THEN j[g] ELSE Canceled(j[g])
BY DEF StopAuth, Canceled

(* What StopAuth leaves of the jobs in D is right for any later generation. *)
LEMMA StoppedJobs ==
  ASSUME CoreInv, NEW j, DOMAIN j \subseteq DOMAIN job,
         \A g \in DOMAIN j : j[g] = job[g] \/ (g = process /\ j[g] = Canceled(job[g])),
         NEW st, NEW pr, NEW un
  PROVE  \A g \in DOMAIN j :
           /\ StopAuth(j)[g] \in Jobs
           /\ StopAuth(j)[g].stage = job[g].stage
           /\ JobOK(g, StopAuth(j)[g], st, generation + 1, pr, un)
<1> SUFFICES ASSUME NEW g \in DOMAIN j
             PROVE  /\ StopAuth(j)[g] \in Jobs
                    /\ StopAuth(j)[g].stage = job[g].stage
                    /\ JobOK(g, StopAuth(j)[g], st, generation + 1, pr, un)
  OBVIOUS
<1> DEFINE r == job[g]
           q == StopAuth(j)[g]
<1>1. r \in Jobs /\ g \in 1..generation /\ generation \in Nat
  BY DEF CoreInv, AgentTypeOK
<1>2. JobOK(g, r, state, generation, process, userName)
  BY DEF CoreInv, JobInv
<1>3. /\ q = IF g # process THEN j[g] ELSE Canceled(j[g])
      /\ j[g] = r \/ (g = process /\ j[g] = Canceled(r))
  BY Stopped
<1>4. g # generation + 1
  BY <1>1
<1>5. CASE g # process
  <2>1. q = r
    BY <1>3, <1>5
  <2>2. r.stage \in ThreadStages => r.canceled
    BY <1>2, <1>5 DEF JobOK
  <2> QED BY <1>1, <1>2, <1>4, <2>1, <2>2 DEF JobOK
<1>6. CASE g = process
  <2>1. j[g] \in Jobs /\ q = Canceled(j[g])
    BY <1>1, <1>3, <1>6, CanceledJob
  <2>2. /\ j[g].stage = r.stage /\ j[g].reported = r.reported
        /\ j[g].typed = r.typed /\ j[g].late = r.late
    BY <1>1, <1>3, CanceledJob
  <2>3. /\ q \in Jobs /\ q.canceled /\ q.fd # "open"
        /\ q.stage = r.stage /\ q.reported = r.reported
        /\ q.typed = r.typed /\ q.late = r.late
    BY <2>1, <2>2, CanceledJob
  <2> QED BY <1>2, <1>4, <2>3 DEF JobOK
<1> QED BY <1>5, <1>6

(* A queue that keeps its jobs is still right. *)
LEMMA QueueKept ==
  ASSUME QueueInv, injectQueue' = injectQueue,
         \A i \in 1..Len(injectQueue) :
           /\ injectQueue[i] \in DOMAIN job'
           /\ job'[injectQueue[i]].stage = job[injectQueue[i]].stage
  PROVE  QueueInv'
BY DEF QueueInv

(* A handler that ends the generation: WaitForUser, Arm, Fail, Reset. *)
LEMMA EndGeneration ==
  ASSUME CoreInv, NEW j, DOMAIN j \subseteq DOMAIN job,
         \A g \in DOMAIN j : j[g] = job[g] \/ (g = process /\ j[g] = Canceled(job[g])),
         \A i \in 1..Len(injectQueue) : injectQueue[i] \in DOMAIN j,
         state' \in {"IDLE", "ARMED", "FAILED"},
         generation' = generation + 1, process' = 0,
         userName' \in Users \cup {NoUser}, polling' \in BOOLEAN,
         job' = StopAuth(j), injectQueue' = injectQueue
  PROVE  CoreInv' /\ NoneQueued
<1>1. DOMAIN job' = DOMAIN j
  BY Stopped
<1>2. \A g \in DOMAIN job' :
        /\ job'[g] \in Jobs
        /\ job'[g].stage = job[g].stage
        /\ JobOK(g, job'[g], state', generation', process', userName')
  BY <1>1, StoppedJobs
<1>3. job' = [g \in DOMAIN job' |-> job'[g]]
  BY DEF StopAuth
<1>4. AgentTypeOK'
  <2>1. generation' \in Nat /\ DOMAIN job' \subseteq 1..generation'
    BY <1>1 DEF CoreInv, AgentTypeOK
  <2>2. job' \in [DOMAIN job' -> Jobs]
    BY <1>2, <1>3
  <2> QED BY <2>1, <2>2 DEF CoreInv, AgentTypeOK, States
<1>5. JobInv'
  BY <1>2 DEF JobInv
<1>6. StateInv'
  BY DEF StateInv
<1>7. QueueInv'
  BY <1>1, <1>2, QueueKept DEF CoreInv
<1>8. NoneQueued
  BY <1>1, <1>2 DEF NoneQueued
<1> QED BY <1>4, <1>5, <1>6, <1>7, <1>8 DEF CoreInv

(* A handler that opens a generation. *)
LEMMA NewGeneration ==
  ASSUME CoreInv, NEW u \in Users, StartAuth(u), polling' = FALSE,
         injectQueue' = injectQueue
  PROVE  CoreInv' /\ NoneQueued /\ state' = "RUNNING"
<1> DEFINE g0 == generation + 1
           s == StopAuth(job)
<1>0. u # NoUser
  BY AgentAssumption
<1>1. /\ state' = "RUNNING" /\ generation' = g0 /\ userName' = u /\ process' = g0
      /\ job' = [h \in DOMAIN s \cup {g0} |-> IF h = g0 THEN NewJob(u) ELSE s[h]]
  BY <1>0 DEF StartAuth
<1>2. DOMAIN s = DOMAIN job
  BY Stopped
<1>3. generation \in Nat /\ DOMAIN job \subseteq 1..generation /\ g0 \notin DOMAIN job
  BY DEF CoreInv, AgentTypeOK
<1>4. \A h \in DOMAIN job :
        /\ s[h] \in Jobs
        /\ s[h].stage = job[h].stage
        /\ JobOK(h, s[h], "RUNNING", g0, g0, u)
  BY StoppedJobs
<1>5. NewJob(u) \in Jobs /\ JobOK(g0, NewJob(u), "RUNNING", g0, g0, u)
  BY AgentAssumption
     DEF NewJob, Jobs, JobOK, Stages, ThreadStages, InjectStages
<1>6. DOMAIN job' = DOMAIN job \cup {g0} /\ job'[g0] = NewJob(u)
  BY <1>1, <1>2
<1>7. \A h \in DOMAIN job : job'[h] = s[h]
  BY <1>1, <1>2, <1>3
<1>8. AgentTypeOK'
  <2>1. \A h \in DOMAIN job' : job'[h] \in Jobs
    BY <1>4, <1>5, <1>6, <1>7
  <2>2. job' \in [DOMAIN job' -> Jobs]
    BY <1>1, <2>1
  <2>3. generation' \in Nat /\ DOMAIN job' \subseteq 1..generation'
    BY <1>1, <1>3, <1>6
  <2> QED BY <1>1, <1>3, <2>2, <2>3 DEF CoreInv, AgentTypeOK, States
<1>9. JobInv'
  BY <1>1, <1>4, <1>5, <1>6, <1>7 DEF JobInv
<1>10. StateInv'
  BY <1>1, <1>6 DEF StateInv, NewJob, ThreadStages
<1>11. QueueInv'
  <2>1. \A i \in 1..Len(injectQueue) : injectQueue[i] \in DOMAIN job
    BY DEF CoreInv, QueueInv
  <2> QED BY <1>4, <1>6, <1>7, <2>1, QueueKept DEF CoreInv
<1>12. NoneQueued
  BY <1>4, <1>6, <1>7 DEF NoneQueued, NewJob
<1> QED BY <1>1, <1>8, <1>9, <1>10, <1>11, <1>12 DEF CoreInv

(* A step that moves one job on, and nothing else of the agent but the      *)
(* queue.                                                                   *)
LEMMA OneJob ==
  ASSUME CoreInv, NEW g \in DOMAIN job, NEW r \in Jobs,
         JobOK(g, r, state, generation, process, userName), r.stage # "queued",
         job' = [job EXCEPT ![g] = r], injectQueue' \in Seq(Nat), QueueInv',
         UNCHANGED <<state, generation, userName, process, polling>>
  PROVE  CoreInv' /\ NoneQueued
<1>1. /\ DOMAIN job' = DOMAIN job
      /\ \A h \in DOMAIN job : job'[h] = IF h = g THEN r ELSE job[h]
      /\ job' \in [DOMAIN job' -> Jobs]
  BY DEF CoreInv, AgentTypeOK
<1>2. AgentTypeOK'
  BY <1>1 DEF CoreInv, AgentTypeOK
<1>3. JobInv'
  BY <1>1 DEF CoreInv, JobInv
<1>4. StateInv'
  <2>1. CASE g # generation
    BY <1>1, <2>1 DEF CoreInv, StateInv
  <2>2. CASE g = generation
    <3>1. r.stage \in Stages
      BY DEF Jobs
    <3>2. /\ r.stage \in InjectStages => state = "INJECTING"
          /\ r.stage \in ThreadStages \cup {"finished", "retry"} => state = "RUNNING"
      BY <2>2 DEF JobOK
    <3> QED BY <1>1, <2>2, <3>1, <3>2 DEF CoreInv, StateInv, Stages
  <2> QED BY <2>1, <2>2
<1>5. NoneQueued
  BY <1>1 DEF NoneQueued
<1> QED BY <1>2, <1>3, <1>4, <1>5 DEF CoreInv

(* A job of the main queue is not in the inject queue. *)
LEMMA NotQueued ==
  ASSUME CoreInv, NEW g \in DOMAIN job,
         job[g].stage \notin {"queued", "typing", "checking", "return"}
  PROVE  \A i \in 1..Len(injectQueue) :
           injectQueue[i] \in DOMAIN job /\ injectQueue[i] # g
BY DEF CoreInv, QueueInv

(* The jobs without that of g. *)
LEMMA DroppedJobs ==
  ASSUME NEW j, NEW g
  PROVE  /\ DOMAIN Dropped(j, g) = DOMAIN j \ {g}
         /\ \A h \in DOMAIN j \ {g} : Dropped(j, g)[h] = j[h]
BY DEF Dropped

(* A job of an earlier generation can be dropped. *)
LEMMA DropKeeps ==
  ASSUME CoreInv, NEW g \in DOMAIN job, g # generation,
         job[g].stage \notin {"queued", "typing", "checking", "return"},
         DropJob(g)
  PROVE  CoreInv' /\ NoneQueued /\ state' = state
<1>1. /\ DOMAIN job' = DOMAIN job \ {g}
      /\ \A h \in DOMAIN job' : job'[h] = job[h]
      /\ UNCHANGED <<state, generation, userName, process, polling, injectQueue>>
  BY DroppedJobs DEF DropJob
<1>2. job' \in [DOMAIN job' -> Jobs]
  <2>1. job' = [h \in DOMAIN job' |-> job'[h]]
    BY <1>1 DEF DropJob, Dropped
  <2>2. \A h \in DOMAIN job' : job'[h] \in Jobs
    BY <1>1 DEF CoreInv, AgentTypeOK
  <2> QED BY <2>1, <2>2
<1>3. AgentTypeOK'
  BY <1>1, <1>2 DEF CoreInv, AgentTypeOK
<1>4. JobInv'
  BY <1>1 DEF CoreInv, JobInv
<1>5. StateInv'
  BY <1>1 DEF CoreInv, StateInv
<1>6. QueueInv'
  <2>1. \A i \in 1..Len(injectQueue) : injectQueue[i] \in DOMAIN job'
    BY <1>1, NotQueued
  <2> QED BY <1>1, <2>1, QueueKept DEF CoreInv
<1>7. NoneQueued
  BY <1>1 DEF NoneQueued
<1> QED BY <1>1, <1>3, <1>4, <1>5, <1>6, <1>7 DEF CoreInv

(* Fail and Reset, with or without the job that they were called for. *)
LEMMA FailKeeps ==
  ASSUME CoreInv, NEW j, DOMAIN j \subseteq DOMAIN job,
         \A h \in DOMAIN j : j[h] = job[h] \/ (h = process /\ j[h] = Canceled(job[h])),
         \A i \in 1..Len(injectQueue) : injectQueue[i] \in DOMAIN j,
         Fail(j) \/ Reset(j), UNCHANGED injectQueue
  PROVE  CoreInv' /\ NoneQueued
<1>1. /\ state' \in {"IDLE", "FAILED"} /\ generation' = generation + 1
      /\ process' = 0 /\ polling' = FALSE /\ job' = StopAuth(j)
      /\ userName' = userName
  BY DEF Fail, Reset
<1>2. userName' \in Users \cup {NoUser}
  BY <1>1 DEF CoreInv, AgentTypeOK
<1> QED BY <1>1, <1>2, EndGeneration

(* The same for a job that is dropped in the same block. *)
LEMMA FailDropsKeeps ==
  ASSUME CoreInv, NEW g \in DOMAIN job, NEW j \in {job, StopAuth(job)},
         job[g].stage \notin {"queued", "typing", "checking", "return"},
         Fail(Dropped(j, g)) \/ Reset(Dropped(j, g)), UNCHANGED injectQueue
  PROVE  CoreInv' /\ NoneQueued
<1> DEFINE d == Dropped(j, g)
<1>1. DOMAIN j = DOMAIN job
  BY Stopped
<1>2. \A h \in DOMAIN job : j[h] = job[h] \/ (h = process /\ j[h] = Canceled(job[h]))
  BY Stopped
<1>3. DOMAIN d = DOMAIN job \ {g} /\ \A h \in DOMAIN d : d[h] = j[h]
  BY <1>1, DroppedJobs
<1>4. \A i \in 1..Len(injectQueue) : injectQueue[i] \in DOMAIN d
  BY <1>3, NotQueued
<1>5. /\ DOMAIN d \subseteq DOMAIN job
      /\ \A h \in DOMAIN d : d[h] = job[h] \/ (h = process /\ d[h] = Canceled(job[h]))
  BY <1>2, <1>3
<1> HIDE DEF d
<1> QED BY <1>4, <1>5, FailKeeps DEF d

(* Activate, BeginForUser, WaitForUser. *)
LEMMA BeginKeeps ==
  ASSUME CoreInv, NEW u \in Users \cup {NoUser}, NEW b,
         IF u = NoUser THEN WaitForUser ELSE BeginForUser(u, b),
         UNCHANGED injectQueue
  PROVE  CoreInv' /\ NoneQueued
<1>1. \A i \in 1..Len(injectQueue) : injectQueue[i] \in DOMAIN job
  BY DEF CoreInv, QueueInv
<1>2. CASE WaitForUser
  BY <1>1, <1>2, EndGeneration DEF WaitForUser
<1>3. CASE Arm(u)
  BY <1>1, <1>3, EndGeneration DEF Arm
<1>4. CASE u # NoUser /\ StartAuth(u) /\ polling' = FALSE
  BY <1>4, NewGeneration
<1> QED BY <1>2, <1>3, <1>4 DEF BeginForUser

(* A step of a thread leaves the inject queue alone. *)
LEMMA AdvanceKeeps ==
  ASSUME CoreInv, NEW g \in DOMAIN job, NEW r \in Jobs,
         JobOK(g, r, state, generation, process, userName), r.stage # "queued",
         job[g].stage \notin {"queued", "typing", "checking", "return"},
         Advance(g, r)
  PROVE  CoreInv' /\ NoneQueued
<1>1. /\ job' = [job EXCEPT ![g] = r]
      /\ UNCHANGED <<state, generation, userName, process, polling, injectQueue>>
  BY DEF Advance
<1>2. \A h \in DOMAIN job : h # g => job'[h] = job[h]
  BY <1>1
<1>3. DOMAIN job' = DOMAIN job
  BY <1>1 DEF CoreInv, AgentTypeOK
<1>4. QueueInv'
  BY <1>1, <1>2, <1>3, NotQueued, QueueKept DEF CoreInv
<1>5. injectQueue' \in Seq(Nat)
  BY <1>1 DEF CoreInv, AgentTypeOK
<1> QED BY <1>1, <1>4, <1>5, OneJob

(* AuthProcess::Run. *)
LEMMA ThreadKeeps ==
  ASSUME CoreInv, NEW g \in DOMAIN job, ThreadStep(g)
  PROVE  CoreInv' /\ NoneQueued /\ UNCHANGED <<behavior, monitorVars, worldVars, state, userName>>
<1> DEFINE r == job[g]
           OK(q) == /\ q \in Jobs /\ q.stage # "queued"
                    /\ JobOK(g, q, state, generation, process, userName)
<1>1. r \in Jobs /\ JobOK(g, r, state, generation, process, userName)
  BY DEF CoreInv, AgentTypeOK, JobInv
<1>2. SUFFICES \E q : OK(q) /\ r.stage \in ThreadStages /\ Advance(g, q)
  <2>1. ASSUME NEW q, OK(q), r.stage \in ThreadStages, Advance(g, q)
        PROVE  CoreInv' /\ NoneQueued /\ UNCHANGED <<behavior, monitorVars, worldVars, state, userName>>
    <3>1. CoreInv' /\ NoneQueued
      BY <2>1, AdvanceKeeps DEF ThreadStages
    <3> QED BY <2>1, <3>1 DEF Advance
  <2> QED BY <2>1
<1>3. CASE NetworkUp(g)
  <2>1. OK([r EXCEPT !.stage = "start"])
    BY <1>1, <1>3 DEF NetworkUp, Jobs, JobOK, Stages, ThreadStages, InjectStages
  <2> QED BY <1>3, <2>1 DEF NetworkUp, ThreadStages
<1>4. CASE NetworkGivenUp(g)
  <2>1. OK([r EXCEPT !.stage = "finished", !.reported = TRUE])
    BY <1>1, <1>4 DEF NetworkGivenUp, Jobs, JobOK, Stages, ThreadStages, InjectStages
  <2> QED BY <1>4, <2>1 DEF NetworkGivenUp, ThreadStages
<1>5. CASE Spawn(g)
  <2>1. \A t \in {"finished", "closing", "register"} : OK([r EXCEPT !.stage = t])
    BY <1>1, <1>5 DEF Spawn, Jobs, JobOK, Stages, ThreadStages, InjectStages
  <2> QED BY <1>5, <2>1 DEF Spawn, ThreadStages
<1>6. CASE RegisterCancelFd(g)
  <2>1. OK([r EXCEPT !.stage = "reading", !.fd = IF r.canceled THEN "closed" ELSE "open"])
    BY <1>1, <1>6 DEF RegisterCancelFd, Jobs, JobOK, Stages, ThreadStages, InjectStages
  <2> QED BY <1>6, <2>1 DEF RegisterCancelFd, ThreadStages
<1>7. CASE ChildEnds(g)
  <2>1. PICK ok \in BOOLEAN, p \in {"none", "held"} :
          Advance(g, [r EXCEPT !.stage = "closing", !.ok = ok, !.password = p])
    BY <1>7 DEF ChildEnds
  <2>2. r.stage = "reading"
    BY <1>7 DEF ChildEnds
  <2> DEFINE q == [r EXCEPT !.stage = "closing", !.ok = ok, !.password = p]
  <2>3. /\ q \in Jobs
        /\ q.stage = "closing" /\ q.user = r.user /\ q.canceled = r.canceled
        /\ q.fd = r.fd /\ q.reported = r.reported /\ q.typed = r.typed /\ q.late = r.late
    BY <1>1 DEF Jobs, Stages, ThreadStages
  <2>4. JobOK(g, q, state, generation, process, userName)
    BY <1>1, <2>2, <2>3 DEF JobOK, ThreadStages, InjectStages
  <2> QED BY <2>1, <2>2, <2>3, <2>4 DEF ThreadStages
<1>8. CASE Report(g)
  <2>1. OK([r EXCEPT !.stage = "finished", !.fd = "closed", !.reported = r.canceled])
    BY <1>1, <1>8 DEF Report, Jobs, JobOK, Stages, ThreadStages, InjectStages
  <2> QED BY <1>8, <2>1 DEF Report, ThreadStages
<1> QED BY <1>3, <1>4, <1>5, <1>6, <1>7, <1>8 DEF ThreadStep, ThreadRuns

(* A step of the inject queue keeps it right: the job at its head stays     *)
(* there, or leaves it.                                                     *)
LEMMA InjectStepKeeps ==
  ASSUME CoreInv, NEW g \in DOMAIN job, NEW r \in Jobs,
         JobOK(g, r, state, generation, process, userName),
         r.stage \in {"typing", "checking", "return", "failed", "timeout"},
         injectQueue # <<>>, InjectStep(g, r)
  PROVE  CoreInv' /\ NoneQueued
<1>1. /\ g = Head(injectQueue)
      /\ job' = [job EXCEPT ![g] = r]
      /\ injectQueue' = IF r.stage \in {"failed", "timeout"} THEN Tail(injectQueue)
                        ELSE injectQueue
      /\ UNCHANGED <<state, generation, userName, process, polling>>
  BY DEF InjectStep
<1>2. injectQueue \in Seq(Nat) /\ Len(injectQueue) > 0 /\ g = injectQueue[1]
  BY <1>1 DEF CoreInv, AgentTypeOK
<1>3. injectQueue' \in Seq(Nat)
  BY <1>1, <1>2
<1>4. DOMAIN job' = DOMAIN job /\ \A h \in DOMAIN job : job'[h] = IF h = g THEN r ELSE job[h]
  BY <1>1 DEF CoreInv, AgentTypeOK
<1>5. QueueInv'
  <2>1. CASE r.stage \in {"failed", "timeout"}
    <3>1. injectQueue' = Tail(injectQueue)
      BY <1>1, <2>1
    <3>2. /\ Len(injectQueue') = Len(injectQueue) - 1
          /\ \A i \in 1..Len(injectQueue') :
               i + 1 \in 1..Len(injectQueue) /\ injectQueue'[i] = injectQueue[i + 1]
      BY <1>2, <3>1
    <3>3. \A i \in 1..Len(injectQueue') : injectQueue'[i] # g
      <4> TAKE i \in 1..Len(injectQueue')
      <4>1. i + 1 \in 1..Len(injectQueue) /\ i + 1 # 1 /\ 1 \in 1..Len(injectQueue)
        BY <1>2, <3>2
      <4> QED BY <1>2, <3>2, <4>1 DEF CoreInv, QueueInv
    <3>4. SUFFICES ASSUME NEW i \in 1..Len(injectQueue')
                   PROVE  /\ injectQueue'[i] \in DOMAIN job'
                          /\ job'[injectQueue'[i]].stage \in {"queued", "typing", "checking", "return"}
                          /\ \A k \in 1..Len(injectQueue') :
                               injectQueue'[i] = injectQueue'[k] => i = k
      BY DEF QueueInv
    <3>5. /\ injectQueue'[i] \in DOMAIN job'
          /\ job'[injectQueue'[i]].stage \in {"queued", "typing", "checking", "return"}
      BY <1>4, <3>2, <3>3 DEF CoreInv, QueueInv
    <3>6. ASSUME NEW k \in 1..Len(injectQueue'), injectQueue'[i] = injectQueue'[k]
          PROVE  i = k
      <4>1. i + 1 = k + 1
        BY <3>2, <3>6 DEF CoreInv, QueueInv
      <4> QED BY <1>2, <3>2, <4>1
    <3> QED BY <3>5, <3>6
  <2>2. CASE r.stage \notin {"failed", "timeout"}
    <3>1. injectQueue' = injectQueue
      BY <1>1, <2>2
    <3> QED BY <1>4, <2>2, <3>1 DEF CoreInv, QueueInv
  <2> QED BY <2>1, <2>2
<1> QED BY <1>1, <1>3, <1>5, OneJob

(* FocusPasswordField, Type and SubmitPassword. *)
LEMMA QueueStepKeeps ==
  ASSUME CoreInv, NEW g \in DOMAIN job, QueueStep(g)
  PROVE  CoreInv' /\ NoneQueued /\ UNCHANGED <<behavior, monitorVars, worldVars, state, userName>>
<1> DEFINE r == job[g]
           After(q) == /\ q \in Jobs /\ JobOK(g, q, state, generation, process, userName)
                       /\ q.stage \in {"typing", "checking", "return", "failed", "timeout"}
<1>1. /\ r \in Jobs /\ JobOK(g, r, state, generation, process, userName)
      /\ generation \in Nat /\ g \in Nat
  BY DEF CoreInv, AgentTypeOK, JobInv
<1>2. injectQueue # <<>>
  BY DEF QueueStep
<1>3. SUFFICES \E q : After(q) /\ InjectStep(g, q)
  <2>1. ASSUME NEW q, After(q), InjectStep(g, q)
        PROVE  CoreInv' /\ NoneQueued /\ UNCHANGED <<behavior, monitorVars, worldVars, state, userName>>
    <3>1. CoreInv' /\ NoneQueued
      BY <1>2, <2>1, InjectStepKeeps
    <3> QED BY <2>1, <3>1 DEF InjectStep
  <2> QED BY <2>1
<1>4. ASSUME NEW t \in {"failed", "timeout"}
      PROVE  LET q == Wiped(r, t) IN
             /\ q \in Jobs /\ q.stage = t /\ q.user = r.user /\ q.canceled = r.canceled
             /\ q.fd = r.fd /\ q.reported = r.reported /\ q.typed = r.typed /\ q.late = r.late
  BY <1>1 DEF Wiped, Jobs, Stages, InjectStages
<1>5. ASSUME NEW t \in {"typing", "return"}
      PROVE  LET q == [r EXCEPT !.stage = t] IN
             /\ q \in Jobs /\ q.stage = t /\ q.user = r.user /\ q.canceled = r.canceled
             /\ q.fd = r.fd /\ q.reported = r.reported /\ q.typed = r.typed /\ q.late = r.late
  BY <1>1 DEF Jobs, Stages, InjectStages
<1>6. ASSUME r.stage = "queued"
      PROVE  /\ After(Wiped(r, "failed"))
             /\ After(Wiped(r, "timeout"))
             /\ After([r EXCEPT !.stage = "typing"])
  <2>1. /\ r.late = 0 /\ r.typed < PasswordLength /\ ~r.reported
        /\ r.canceled => r.fd # "open"
        /\ g = generation => r.user = userName /\ state = "INJECTING" /\ process = 0
    BY <1>1, <1>6 DEF JobOK, Jobs, InjectStages
  <2>2. After(Wiped(r, "failed"))
    BY <1>4, <2>1 DEF JobOK, ThreadStages, InjectStages
  <2>3. After(Wiped(r, "timeout"))
    BY <1>4, <2>1 DEF JobOK, ThreadStages, InjectStages
  <2>4. After([r EXCEPT !.stage = "typing"])
    BY <1>5, <2>1 DEF JobOK, ThreadStages, InjectStages
  <2> QED BY <2>2, <2>3, <2>4
<1>7. CASE FocusField(g)
  BY <1>6, <1>7 DEF FocusField
<1>8. CASE SubmitPassword(g)
  BY <1>6, <1>8 DEF SubmitPassword
<1>9. CASE TypeKey(g)
  <2> DEFINE q == [r EXCEPT !.stage = "checking", !.typed = @ + 1, !.late = @ + IsLate(g)]
  <2>1. r.stage = "typing" /\ InjectStep(g, q)
    BY <1>9 DEF TypeKey
  <2>2. r.typed < PasswordLength /\ r.late = 0 /\ ~r.reported
    BY <1>1, <2>1 DEF JobOK, Jobs
  <2>3. IsLate(g) \in {0, 1} /\ (g = generation => IsLate(g) = 0)
    BY DEF IsLate
  <2>4. /\ q \in Jobs /\ q.stage = "checking" /\ q.user = r.user /\ q.canceled = r.canceled
        /\ q.fd = r.fd /\ q.reported = r.reported /\ q.late = IsLate(g)
    <3>1. r.typed \in 0..PasswordLength /\ PasswordLength \in Nat
      BY <1>1, AgentAssumption DEF Jobs
    <3>2. r.typed + 1 \in 0..PasswordLength
      BY <2>2, <3>1
    <3>3. r.late + IsLate(g) = IsLate(g) /\ IsLate(g) \in Nat
      BY <2>2, <2>3
    <3> HIDE DEF r
    <3> QED BY <1>1, <3>2, <3>3 DEF Jobs, Stages, InjectStages
  <2>5. After(q)
    BY <1>1, <2>1, <2>2, <2>3, <2>4 DEF JobOK, ThreadStages, InjectStages
  <2> QED BY <2>1, <2>5
<1>10. CASE CheckKey(g)
  <2>1. r.stage = "checking" /\ ~r.reported
    BY <1>1, <1>10 DEF CheckKey, JobOK
  <2>2. CASE generation # g
    <3>1. After(Wiped(r, "timeout"))
      BY <1>1, <1>4, <2>1, <2>2 DEF JobOK, ThreadStages, InjectStages
    <3> QED BY <1>10, <2>2, <3>1 DEF CheckKey
  <2>3. CASE generation = g /\ r.typed < PasswordLength
    <3>1. After([r EXCEPT !.stage = "typing"])
      BY <1>1, <1>5, <2>1, <2>3 DEF JobOK, ThreadStages, InjectStages
    <3> QED BY <1>10, <2>3, <3>1 DEF CheckKey
  <2>4. CASE generation = g /\ ~(r.typed < PasswordLength)
    <3>1. After([r EXCEPT !.stage = "return"])
      BY <1>1, <1>5, <2>1, <2>4 DEF JobOK, ThreadStages, InjectStages
    <3> QED BY <1>10, <2>4, <3>1 DEF CheckKey
  <2> QED BY <2>2, <2>3, <2>4
<1>11. CASE TypeReturn(g)
  <2> DEFINE w == Wiped(r, "timeout")
             q == [w EXCEPT !.late = @ + IsLate(g)]
  <2>1. r.stage = "return" /\ InjectStep(g, q)
    BY <1>11 DEF TypeReturn
  <2>2. r.late = 0 /\ ~r.reported
    BY <1>1, <2>1 DEF JobOK, Jobs
  <2>3. IsLate(g) \in {0, 1} /\ (g = generation => IsLate(g) = 0)
    BY DEF IsLate
  <2>4. w \in Jobs /\ w.late = 0
    BY <1>4, <2>2
  <2>5. /\ q \in Jobs /\ q.stage = w.stage /\ q.user = w.user /\ q.canceled = w.canceled
        /\ q.fd = w.fd /\ q.reported = w.reported /\ q.late = IsLate(g)
    <3> HIDE DEF w
    <3> QED BY <2>3, <2>4 DEF Jobs
  <2>6. After(q)
    BY <1>1, <1>4, <2>1, <2>2, <2>3, <2>5 DEF JobOK, ThreadStages, InjectStages
  <2> QED BY <2>1, <2>6
<1> QED BY <1>7, <1>8, <1>9, <1>10, <1>11 DEF QueueStep

(* Inject, from OnAuthFinished (j is then StopAuth(job)) or later. *)
LEMMA InjectKeeps ==
  ASSUME CoreInv, NEW g \in DOMAIN job, g = generation,
         NEW j \in {job, StopAuth(job)},
         \/ job[g].stage = "finished" /\ job[g].ok /\ ~job[g].reported /\ j = StopAuth(job)
         \/ job[g].stage = "retry" /\ j = job,
         Inject(g, j)
  PROVE  CoreInv' /\ InjectsOwn
<1> DEFINE r == job[g]
           q == j[g]
<1>1. /\ r \in Jobs /\ JobOK(g, r, state, generation, process, userName)
      /\ state = "RUNNING" /\ ~r.reported /\ r.typed < PasswordLength /\ r.late = 0
      /\ r.user = userName
  BY DEF CoreInv, AgentTypeOK, JobInv, JobOK, Jobs
<1>2. DOMAIN j = DOMAIN job /\ \A h \in DOMAIN job : h # g => j[h] = job[h]
  <2>1. process # 0 => process = g
    BY DEF CoreInv, StateInv
  <2>2. \A h \in DOMAIN job : h # 0
    BY DEF CoreInv, AgentTypeOK
  <2> QED BY <2>1, <2>2, Stopped
<1>3. /\ q \in Jobs /\ q.canceled = (q.canceled \/ r.canceled)
      /\ q.canceled => q.fd # "open"
      /\ q.user = r.user /\ q.reported = r.reported /\ q.tries = r.tries
      /\ q.typed = r.typed /\ q.late = r.late
  <2>1. q = r \/ q = Canceled(r)
    BY Stopped
  <2>2. r.canceled => r.fd # "open"
    BY <1>1 DEF JobOK
  <2> QED BY <1>1, <2>1, <2>2, CanceledJob DEF Jobs
<1>4. job[g].stage \notin {"queued", "typing", "checking", "return"}
  OBVIOUS
<1>5. CASE InjectFails(g, j) \/ InjectSkipped(g, j)
  <2>1. (Fail(Dropped(j, g)) \/ Reset(Dropped(j, g))) /\ UNCHANGED injectQueue
    BY <1>5 DEF InjectFails, InjectSkipped
  <2> QED BY <1>4, <2>1, FailDropsKeeps DEF NoneQueued, InjectsOwn
<1>6. CASE InjectLater(g, j)
  <2> DEFINE p == [q EXCEPT !.stage = "retry", !.tries = @ + 1]
  <2>1. /\ job' = [j EXCEPT ![g].stage = "retry", ![g].tries = @ + 1]
        /\ process' = 0 /\ q.tries < TYPING_MAX_ATTEMPTS
        /\ UNCHANGED <<state, generation, userName, polling, injectQueue>>
    BY <1>6 DEF InjectLater
  <2>2. q.tries + 1 \in 0..TYPING_MAX_ATTEMPTS
    BY <1>3, <2>1, AgentAssumption DEF Jobs
  <2>3. /\ p \in Jobs /\ p.stage = "retry" /\ p.canceled = q.canceled /\ p.fd = q.fd
        /\ p.user = q.user /\ p.reported = q.reported /\ p.typed = q.typed /\ p.late = q.late
    <3> HIDE DEF q
    <3> QED BY <1>3, <2>2 DEF Jobs, Stages
  <2>4. JobOK(g, p, state', generation', process', userName')
    BY <1>1, <1>3, <2>1, <2>3 DEF JobOK, ThreadStages, InjectStages
  <2>5. /\ DOMAIN job' = DOMAIN job
        /\ \A h \in DOMAIN job : job'[h] = IF h = g THEN p ELSE job[h]
        /\ job' = [h \in DOMAIN job' |-> job'[h]]
    BY <1>2, <2>1
  <2> HIDE DEF p, q
  <2>6. AgentTypeOK'
    <3>1. \A h \in DOMAIN job' : job'[h] \in Jobs
      BY <2>3, <2>5 DEF CoreInv, AgentTypeOK
    <3>2. job' \in [DOMAIN job' -> Jobs]
      BY <2>5, <3>1
    <3> QED BY <2>1, <2>5, <3>2 DEF CoreInv, AgentTypeOK
  <2>7. JobInv'
    <3> SUFFICES ASSUME NEW h \in DOMAIN job', h # g
                 PROVE  JobOK(h, job'[h], state', generation', process', userName')
      BY <2>4, <2>5 DEF JobInv
    <3>1. JobOK(h, job[h], state, generation, process, userName)
      BY <2>5 DEF CoreInv, JobInv
    <3> QED BY <2>1, <2>5, <3>1 DEF JobOK
  <2>8. StateInv'
    BY <1>1, <2>1, <2>3, <2>5 DEF StateInv
  <2>9. QueueInv'
    BY <1>4, <2>1, <2>5, NotQueued, QueueKept DEF CoreInv
  <2>10. InjectsOwn
    BY <2>3, <2>5 DEF InjectsOwn
  <2> QED BY <2>6, <2>7, <2>8, <2>9, <2>10 DEF CoreInv
<1>7. CASE InjectNow(g, j)
  <2> DEFINE p == [q EXCEPT !.stage = "queued"]
  <2>1. /\ job' = [j EXCEPT ![g].stage = "queued"] /\ state' = "INJECTING"
        /\ process' = 0 /\ injectQueue' = Append(injectQueue, g)
        /\ UNCHANGED <<generation, userName, polling>>
    BY <1>7 DEF InjectNow
  <2>3. /\ p \in Jobs /\ p.stage = "queued" /\ p.canceled = q.canceled /\ p.fd = q.fd
        /\ p.user = q.user /\ p.reported = q.reported /\ p.typed = q.typed /\ p.late = q.late
    <3> HIDE DEF q
    <3> QED BY <1>3 DEF Jobs, Stages, InjectStages
  <2>4. JobOK(g, p, state', generation', process', userName')
    BY <1>1, <1>3, <2>1, <2>3 DEF JobOK, ThreadStages, InjectStages
  <2>5. /\ DOMAIN job' = DOMAIN job
        /\ \A h \in DOMAIN job : job'[h] = IF h = g THEN p ELSE job[h]
        /\ job' = [h \in DOMAIN job' |-> job'[h]]
    BY <1>2, <2>1
  <2>6. /\ injectQueue' \in Seq(Nat) /\ Len(injectQueue) \in Nat
        /\ Len(injectQueue') = Len(injectQueue) + 1
        /\ injectQueue'[Len(injectQueue')] = g
        /\ \A i \in 1..Len(injectQueue) : injectQueue'[i] = injectQueue[i]
    <3>1. injectQueue \in Seq(Nat) /\ g \in Nat
      BY DEF CoreInv, AgentTypeOK
    <3> QED BY <2>1, <3>1
  <2> HIDE DEF p, q
  <2>7. AgentTypeOK'
    <3>1. \A h \in DOMAIN job' : job'[h] \in Jobs
      BY <2>3, <2>5 DEF CoreInv, AgentTypeOK
    <3>2. job' \in [DOMAIN job' -> Jobs]
      BY <2>5, <3>1
    <3> QED BY <2>1, <2>5, <2>6, <3>2 DEF CoreInv, AgentTypeOK, States
  <2>8. JobInv'
    <3> SUFFICES ASSUME NEW h \in DOMAIN job', h # g
                 PROVE  JobOK(h, job'[h], state', generation', process', userName')
      BY <2>4, <2>5 DEF JobInv
    <3>1. JobOK(h, job[h], state, generation, process, userName)
      BY <2>5 DEF CoreInv, JobInv
    <3> QED BY <2>1, <2>5, <3>1 DEF JobOK
  <2>9. StateInv'
    BY <2>1, <2>3, <2>5 DEF StateInv, InjectStages
  <2>10. QueueInv'
    <3>1. \A i \in 1..Len(injectQueue) :
            /\ injectQueue[i] \in DOMAIN job' /\ injectQueue[i] # g
            /\ job'[injectQueue[i]].stage \in {"queued", "typing", "checking", "return"}
            /\ \A k \in 1..Len(injectQueue) : injectQueue[i] = injectQueue[k] => i = k
      BY <1>4, <2>5, NotQueued DEF CoreInv, QueueInv
    <3>2. \A i \in 1..Len(injectQueue') :
            i \in 1..Len(injectQueue) \/ i = Len(injectQueue')
      BY <2>6
    <3>3. job'[g].stage = "queued" /\ g \in DOMAIN job'
      BY <2>3, <2>5
    <3>4. ASSUME NEW i \in 1..Len(injectQueue'), NEW k \in 1..Len(injectQueue'),
                 injectQueue'[i] = injectQueue'[k]
          PROVE  i = k
      BY <2>6, <3>1, <3>2, <3>4
    <3>5. ASSUME NEW i \in 1..Len(injectQueue')
          PROVE  /\ injectQueue'[i] \in DOMAIN job'
                 /\ job'[injectQueue'[i]].stage \in {"queued", "typing", "checking", "return"}
      BY <2>6, <3>1, <3>2, <3>3
    <3> QED BY <3>4, <3>5 DEF QueueInv
  <2>11. InjectsOwn
    <3>1. LoginWindow => selected = userName
      BY <1>7 DEF InjectNow, UserChanged
    <3>2. p.user = userName
      BY <1>1, <1>3, <2>3
    <3> QED BY <1>1, <2>5, <3>1, <3>2 DEF InjectsOwn
  <2> QED BY <2>7, <2>8, <2>9, <2>10, <2>11 DEF CoreInv
<1> QED BY <1>5, <1>6, <1>7 DEF Inject

(* The blocks of the main queue. *)
LEMMA MainBlockKeeps ==
  ASSUME CoreInv, NEW g \in DOMAIN job, MainBlock(g)
  PROVE  /\ CoreInv'
         /\ InjectsOwn
         /\ state' # state => state \in {"RUNNING", "INJECTING"}
         /\ UNCHANGED <<behavior, monitorVars, worldVars>>
<1>1. JobOK(g, job[g], state, generation, process, userName)
  BY DEF CoreInv, JobInv
<1>2. UNCHANGED <<behavior, monitorVars, worldVars>>
  BY DEF MainBlock, OnAuthFinished, InjectAgain, InjectFailed, UnlockTimeout
<1>3. CASE OnAuthFinished(g)
  <2>1. job[g].stage = "finished"
    BY <1>3 DEF OnAuthFinished
  <2>2. g = generation => state = "RUNNING" /\ ~job[g].canceled /\ ~job[g].reported
    BY <1>1, <2>1 DEF JobOK
  <2>3. CASE g # generation
    <3>1. DropJob(g)
      BY <1>3, <2>3 DEF OnAuthFinished
    <3> QED BY <1>2, <2>1, <2>3, <3>1, DropKeeps DEF NoneQueued, InjectsOwn
  <2>4. CASE g = generation /\ job[g].ok /\ job[g].password = "held"
    <3>1. Inject(g, StopAuth(job))
      BY <1>3, <2>2, <2>4 DEF OnAuthFinished
    <3> QED BY <1>2, <2>1, <2>2, <2>4, <3>1, InjectKeeps
  <2>5. CASE g = generation /\ ~(job[g].ok /\ job[g].password = "held")
    <3>1. Fail(Dropped(job, g)) /\ UNCHANGED injectQueue
      BY <1>3, <2>2, <2>5 DEF OnAuthFinished
    <3> QED BY <1>2, <2>1, <2>2, <2>5, <3>1, FailDropsKeeps DEF NoneQueued, InjectsOwn
  <2> QED BY <2>3, <2>4, <2>5
<1>4. CASE InjectAgain(g)
  <2>1. job[g].stage = "retry"
    BY <1>4 DEF InjectAgain
  <2>2. CASE g # generation
    <3>1. DropJob(g)
      BY <1>4, <2>2 DEF InjectAgain
    <3> QED BY <1>2, <2>1, <2>2, <3>1, DropKeeps DEF NoneQueued, InjectsOwn
  <2>3. CASE g = generation
    <3>1. Inject(g, job) /\ state = "RUNNING"
      BY <1>1, <1>4, <2>1, <2>3 DEF InjectAgain, JobOK
    <3> QED BY <1>2, <2>1, <2>3, <3>1, InjectKeeps
  <2> QED BY <2>2, <2>3
<1>5. CASE InjectFailed(g) \/ UnlockTimeout(g)
  <2>1. job[g].stage \in {"failed", "timeout"}
    BY <1>5 DEF InjectFailed, UnlockTimeout
  <2>2. g = generation => state = "INJECTING"
    BY <1>1, <2>1 DEF JobOK, InjectStages
  <2>3. CASE g # generation
    <3>1. DropJob(g)
      BY <1>5, <2>3 DEF InjectFailed, UnlockTimeout
    <3> QED BY <1>2, <2>1, <2>3, <3>1, DropKeeps DEF NoneQueued, InjectsOwn
  <2>4. CASE g = generation
    <3>1. (Fail(Dropped(job, g)) \/ Reset(Dropped(job, g))) /\ UNCHANGED injectQueue
      BY <1>5, <2>2, <2>4 DEF InjectFailed, UnlockTimeout
    <3> QED BY <1>2, <2>1, <2>2, <2>4, <3>1, FailDropsKeeps DEF NoneQueued, InjectsOwn
  <2> QED BY <2>3, <2>4
<1> QED BY <1>3, <1>4, <1>5 DEF MainBlock

(* A step that leaves the agent alone. *)
LEMMA AgentUnchanged ==
  ASSUME CoreInv, UNCHANGED <<agentVars, injectQueue>>
  PROVE  CoreInv' /\ NoneQueued
BY DEF CoreInv, NoneQueued, agentVars, AgentTypeOK, JobInv, StateInv, QueueInv

(* What a step promises. *)
Promises == InjectsOwn /\ RestartsByUser /\ LocksForReason

(* OnLockChanged, if the monitor has a reason to call it. *)
LEMMA SetLockedKeeps ==
  ASSUME AgentInv, NEW l \in BOOLEAN, SetLocked(l), UNCHANGED injectQueue,
         UNCHANGED <<screen, lagging, onConsole, selected, events>>,
         ignoring' \in BOOLEAN, notices' \in Nat, LagInv', LocksForReason, ~LoginWindow \/ ~l
  PROVE  AgentInv' /\ Promises
<1>1. CoreInv
  BY DEF AgentInv, TypeOK, CoreInv
<1>2. CASE l = isLocked
  <2>1. UNCHANGED <<agentVars, behavior, isLocked>>
    BY <1>2 DEF SetLocked
  <2>2. CoreInv' /\ NoneQueued
    BY <1>1, <2>1, AgentUnchanged
  <2>3. WorldTypeOK' /\ IdleInv'
    BY <2>1 DEF AgentInv, TypeOK, WorldTypeOK, IdleInv, agentVars
  <2>4. Promises
    BY <2>1, <2>2 DEF Promises, NoneQueued, InjectsOwn, RestartsByUser, agentVars
  <2> QED BY <2>2, <2>3, <2>4 DEF AgentInv, TypeOK, CoreInv
<1>3. CASE l # isLocked /\ l
  <2>1. isLocked' /\ ~isLocked /\ Activate /\ ~LoginWindow
    BY <1>3 DEF SetLocked, AgentInv, TypeOK, WorldTypeOK
  <2>2. state = "IDLE"
    BY <2>1 DEF AgentInv, IdleInv
  <2>3. PICK b \in Behaviors, u \in Users \cup {NoUser} :
          /\ behavior' = b
          /\ IF b = "off" THEN UNCHANGED agentVars
             ELSE IF u = NoUser THEN WaitForUser ELSE BeginForUser(u, b)
    BY <2>1 DEF Activate
  <2>4. CoreInv' /\ NoneQueued
    BY <1>1, <2>3, BeginKeeps, AgentUnchanged
  <2>5. WorldTypeOK' /\ IdleInv'
    BY <2>1, <2>3 DEF AgentInv, TypeOK, WorldTypeOK, IdleInv
  <2>6. Promises
    BY <2>2, <2>4 DEF Promises, NoneQueued, InjectsOwn, RestartsByUser
  <2> QED BY <2>4, <2>5, <2>6 DEF AgentInv, TypeOK, CoreInv
<1>4. CASE l # isLocked /\ ~l
  <2>1. Reset(job) /\ UNCHANGED behavior /\ isLocked' = FALSE
    BY <1>4 DEF SetLocked
  <2>2. \A i \in 1..Len(injectQueue) : injectQueue[i] \in DOMAIN job
    BY <1>1 DEF CoreInv, QueueInv
  <2>3. CoreInv' /\ NoneQueued
    BY <1>1, <2>1, <2>2, FailKeeps
  <2>4. state' = "IDLE"
    BY <2>1 DEF Reset
  <2>5. WorldTypeOK' /\ IdleInv'
    BY <2>1, <2>4 DEF AgentInv, TypeOK, WorldTypeOK, IdleInv
  <2>6. Promises
    BY <2>3, <2>4 DEF Promises, NoneQueued, InjectsOwn, RestartsByUser
  <2> QED BY <2>3, <2>5, <2>6 DEF AgentInv, TypeOK, CoreInv
<1> QED BY <1>2, <1>3, <1>4

(* LockStateMonitor. *)
LEMMA MonitorKeeps ==
  ASSUME AgentInv, Evaluate \/ ScreenIsUnlocked \/ SettleTimeOver
  PROVE  AgentInv' /\ Promises
<1>0. CoreInv
  BY DEF AgentInv, TypeOK, CoreInv
<1>1. ASSUME UNCHANGED <<agentVars, behavior, injectQueue, isLocked>>, WorldTypeOK', LagInv'
      PROVE  AgentInv' /\ Promises
  <2>1. CoreInv' /\ NoneQueued
    BY <1>0, <1>1, AgentUnchanged
  <2>2. IdleInv'
    BY <1>1 DEF AgentInv, IdleInv, agentVars
  <2>3. Promises
    BY <1>1, <2>1 DEF Promises, NoneQueued, InjectsOwn, RestartsByUser, LocksForReason, agentVars
  <2> QED BY <1>1, <2>1, <2>2, <2>3 DEF AgentInv, TypeOK, CoreInv
<1>2. CASE Evaluate
  <2>1. UNCHANGED <<injectQueue, ignoring, worldVars>> /\ ~LoginWindow
    BY <1>2 DEF Evaluate
  <2>2. LagInv' /\ ignoring' \in BOOLEAN /\ notices' \in Nat
    BY <2>1 DEF AgentInv, TypeOK, WorldTypeOK, LagInv, worldVars
  <2>3. CASE ~IsSessionLocked
    <3>1. SetLocked(FALSE)
      BY <1>2, <2>3 DEF Evaluate
    <3>2. LocksForReason
      BY <3>1 DEF SetLocked, LocksForReason
    <3> QED BY <2>1, <2>2, <3>1, <3>2, SetLockedKeeps DEF worldVars
  <2>4. CASE IsSessionLocked /\ ignoring
    <3>1. UNCHANGED <<agentVars, behavior, injectQueue, isLocked>>
      BY <1>2, <2>1, <2>4 DEF Evaluate
    <3>2. WorldTypeOK'
      BY <2>1, <3>1 DEF AgentInv, TypeOK, WorldTypeOK, worldVars
    <3> QED BY <1>1, <2>2, <3>1, <3>2
  <2>5. CASE IsSessionLocked /\ ~ignoring
    <3>1. SetLocked(TRUE)
      BY <1>2, <2>5 DEF Evaluate
    <3>2. LocksForReason
      BY <2>5 DEF IsSessionLocked, LocksForReason, AgentInv, LagInv, TypeOK, WorldTypeOK
    <3> QED BY <2>1, <2>2, <3>1, <3>2, SetLockedKeeps DEF worldVars
  <2> QED BY <2>3, <2>4, <2>5
<1>3. CASE ScreenIsUnlocked
  <2>1. /\ SetLocked(FALSE) /\ UNCHANGED injectQueue /\ ignoring' = TRUE
        /\ UNCHANGED <<screen, lagging, onConsole, selected, events>>
        /\ notices > 0 /\ notices' = notices - 1
    BY <1>3 DEF ScreenIsUnlocked
  <2>2. LagInv' /\ LocksForReason
    BY <2>1 DEF LagInv, LocksForReason, SetLocked
  <2>3. notices' \in Nat
    BY <2>1 DEF AgentInv, TypeOK, WorldTypeOK
  <2> QED BY <2>1, <2>2, <2>3, SetLockedKeeps
<1>4. CASE SettleTimeOver
  <2>1. UNCHANGED <<agentVars, behavior, injectQueue, isLocked>>
    BY <1>4 DEF SettleTimeOver
  <2>2. WorldTypeOK' /\ LagInv'
    BY <1>4 DEF SettleTimeOver, worldVars, AgentInv, TypeOK, WorldTypeOK, LagInv
  <2> QED BY <1>1, <2>1, <2>2
<1> QED BY <1>2, <1>3, <1>4

(* The user's handlers. *)
LEMMA UserKeeps ==
  ASSUME AgentInv, Start \/ OnActivity \/ OnRetry \/ OnCancel \/ TrackSelectedUser
  PROVE  AgentInv' /\ Promises
<1>1. CoreInv
  BY DEF AgentInv, TypeOK, CoreInv
<1>2. /\ UNCHANGED <<injectQueue, monitorVars, screen, lagging, notices, onConsole, selected>>
      /\ events' \in 0..MaxEvents
  BY AgentAssumption DEF Start, OnActivity, OnRetry, OnCancel, TrackSelectedUser, worldVars,
     AgentInv, TypeOK, WorldTypeOK
<1>3. LagInv' /\ LocksForReason
  BY <1>2 DEF AgentInv, LagInv, LocksForReason, monitorVars
<1>4. SUFFICES /\ CoreInv' /\ NoneQueued /\ RestartsByUser /\ IdleInv'
               /\ behavior' \in Behaviors \cup {"unread"}
  <2>1. WorldTypeOK'
    BY <1>2, <1>4 DEF AgentInv, TypeOK, WorldTypeOK, monitorVars
  <2>2. InjectsOwn
    BY <1>4 DEF NoneQueued, InjectsOwn
  <2> QED BY <1>3, <1>4, <2>1, <2>2 DEF AgentInv, TypeOK, CoreInv, Promises
<1>5. userName \in Users \cup {NoUser} /\ selected \in Users \cup {NoUser}
      /\ behavior \in Behaviors \cup {"unread"} /\ state \in States
  BY DEF AgentInv, TypeOK, AgentTypeOK, WorldTypeOK
<1>6. CASE Start
  <2>1. state = "IDLE" /\ LoginWindow
    BY <1>6 DEF Start, AgentInv, IdleInv
  <2>2. PICK b \in Behaviors, u \in {selected} :
          /\ behavior' = b
          /\ IF b = "off" THEN UNCHANGED agentVars
             ELSE IF u = NoUser THEN WaitForUser ELSE BeginForUser(u, b)
    BY <1>6, <2>1 DEF Start, Activate
  <2>3. CoreInv' /\ NoneQueued
    BY <1>1, <1>2, <1>5, <2>2, BeginKeeps, AgentUnchanged
  <2>4. behavior' # "unread"
    BY <2>2, AgentAssumption
  <2> QED BY <2>1, <2>2, <2>3, <2>4 DEF RestartsByUser, IdleInv
<1>7. ASSUME state # "IDLE" PROVE IF LoginWindow THEN behavior # "unread" ELSE isLocked
  BY <1>7 DEF AgentInv, IdleInv, TypeOK, WorldTypeOK
<1>8. CASE OnActivity
  <2>1. behavior' = behavior /\ polling' = FALSE
    BY <1>8 DEF OnActivity
  <2>2. CASE state = "ARMED" /\ userName # NoUser
    <3>1. StartAuth(userName)
      BY <1>8, <2>2 DEF OnActivity
    <3>2. CoreInv' /\ NoneQueued
      BY <1>1, <1>2, <1>5, <2>1, <2>2, <3>1, NewGeneration
    <3> QED BY <1>2, <1>5, <1>7, <2>1, <2>2, <3>2 DEF RestartsByUser, IdleInv, monitorVars
  <2>3. CASE ~(state = "ARMED" /\ userName # NoUser)
    <3>1. UNCHANGED <<state, generation, userName, process, job>>
      BY <1>8, <2>3 DEF OnActivity, StartAuth
    <3>2. CoreInv' /\ NoneQueued
      BY <1>1, <1>2, <2>1, <3>1
         DEF CoreInv, NoneQueued, AgentTypeOK, JobInv, StateInv, QueueInv
    <3> QED BY <1>2, <1>5, <2>1, <3>1, <3>2
        DEF RestartsByUser, AgentInv, IdleInv, monitorVars
  <2> QED BY <2>2, <2>3
<1>9. CASE OnRetry
  <2>1. /\ behavior' = behavior /\ state \in {"FAILED", "ARMED"} /\ StartAuth(userName)
        /\ polling' = (polling /\ userName = NoUser)
    BY <1>9 DEF OnRetry
  <2>2. RestartsByUser
    BY <1>9 DEF RestartsByUser
  <2>3. IdleInv'
    BY <1>2, <1>7, <2>1 DEF IdleInv, monitorVars
  <2>4. CASE userName # NoUser
    <3>1. polling' = FALSE
      BY <2>1, <2>4
    <3>2. CoreInv' /\ NoneQueued
      BY <1>1, <1>2, <1>5, <2>1, <2>4, <3>1, NewGeneration
    <3> QED BY <1>5, <2>1, <2>2, <2>3, <3>2
  <2>5. CASE userName = NoUser
    <3>1. UNCHANGED <<state, generation, userName, process, job>>
      BY <2>1, <2>5 DEF StartAuth
    <3>2. polling' = polling
      BY <1>1, <2>1, <2>5 DEF CoreInv, AgentTypeOK
    <3>3. CoreInv' /\ NoneQueued
      BY <1>1, <1>2, <3>1, <3>2, AgentUnchanged DEF agentVars
    <3> QED BY <1>5, <2>1, <2>2, <2>3, <3>3
  <2> QED BY <2>4, <2>5
<1>10. CASE OnCancel
  <2>1. state \in {"RUNNING", "ARMED"} /\ Fail(job) /\ behavior' = behavior
    BY <1>10 DEF OnCancel
  <2>2. \A i \in 1..Len(injectQueue) : injectQueue[i] \in DOMAIN job
    BY <1>1 DEF CoreInv, QueueInv
  <2>3. CoreInv' /\ NoneQueued
    BY <1>1, <1>2, <2>1, <2>2, FailKeeps
  <2> QED BY <1>2, <1>5, <1>7, <2>1, <2>3 DEF RestartsByUser, IdleInv, monitorVars
<1>11. CASE TrackSelectedUser
  <2>1. /\ state # "IDLE" /\ selected # userName /\ behavior' = behavior
        /\ IF selected = NoUser THEN WaitForUser ELSE BeginForUser(selected, behavior)
    BY <1>11 DEF TrackSelectedUser
  <2>2. CoreInv' /\ NoneQueued
    BY <1>1, <1>2, <1>5, <2>1, BeginKeeps
  <2>3. userName' = selected
    BY <2>1 DEF WaitForUser, BeginForUser, Arm, StartAuth
  <2> QED BY <1>2, <1>5, <1>7, <2>1, <2>2, <2>3 DEF RestartsByUser, IdleInv, monitorVars
<1> QED BY <1>6, <1>8, <1>9, <1>10, <1>11

(* macOS and the user outside the agent. *)
LEMMA WorldKeeps ==
  ASSUME AgentInv, World
  PROVE  AgentInv' /\ Promises
<1>1. UNCHANGED <<agentVars, behavior, injectQueue, monitorVars>>
  BY DEF World, LockScreen, UnlockScreen, DictionaryUpdated, SwitchSession, SelectUser
<1>2. CoreInv' /\ NoneQueued
  BY <1>1, AgentUnchanged DEF AgentInv, TypeOK, CoreInv
<1>3. WorldTypeOK' /\ LagInv'
  <2>0. /\ WorldTypeOK /\ LagInv
        /\ UNCHANGED <<behavior, isLocked, ignoring>>
    BY <1>1 DEF AgentInv, TypeOK, monitorVars
  <2>1. CASE LockScreen
    BY <2>0, <2>1, AgentAssumption DEF LockScreen, WorldTypeOK, LagInv
  <2>2. CASE UnlockScreen
    <3>1. notices' \in Nat /\ notices' # 0 /\ events' \in 0..MaxEvents
      BY <2>0, <2>2, AgentAssumption DEF UnlockScreen, WorldTypeOK
    <3>2. screen' \in BOOLEAN /\ lagging' \in BOOLEAN /\ UNCHANGED <<onConsole, selected>>
      BY <2>2 DEF UnlockScreen
    <3> QED BY <2>0, <3>1, <3>2 DEF WorldTypeOK, LagInv
  <2>3. CASE DictionaryUpdated
    BY <2>0, <2>3 DEF DictionaryUpdated, WorldTypeOK, LagInv
  <2>4. CASE SwitchSession
    BY <2>0, <2>4, AgentAssumption DEF SwitchSession, WorldTypeOK, LagInv
  <2>5. CASE SelectUser
    BY <2>0, <2>5, AgentAssumption DEF SelectUser, WorldTypeOK, LagInv
  <2> QED BY <2>1, <2>2, <2>3, <2>4, <2>5 DEF World
<1>4. IdleInv'
  BY <1>1 DEF AgentInv, IdleInv, agentVars, monitorVars
<1>5. Promises
  BY <1>1, <1>2
     DEF Promises, NoneQueued, InjectsOwn, RestartsByUser, LocksForReason, agentVars, monitorVars
<1> QED BY <1>2, <1>3, <1>4, <1>5 DEF AgentInv, TypeOK, CoreInv

(* A job moves on. *)
LEMMA JobKeeps ==
  ASSUME AgentInv, NEW g \in DOMAIN job, MainBlock(g) \/ ThreadStep(g) \/ QueueStep(g)
  PROVE  AgentInv' /\ Promises
<1>1. CoreInv
  BY DEF AgentInv, TypeOK, CoreInv
<1>2. /\ CoreInv' /\ InjectsOwn
      /\ state' # state => state \in {"RUNNING", "INJECTING"}
      /\ UNCHANGED <<behavior, monitorVars, worldVars>>
  BY <1>1, MainBlockKeeps, ThreadKeeps, QueueStepKeeps DEF NoneQueued, InjectsOwn
<1>3. WorldTypeOK' /\ LagInv' /\ LocksForReason
  BY <1>2 DEF AgentInv, TypeOK, WorldTypeOK, LagInv, LocksForReason, monitorVars, worldVars
<1>4. IdleInv' /\ RestartsByUser
  BY <1>2 DEF AgentInv, IdleInv, RestartsByUser, monitorVars
<1> QED BY <1>2, <1>3, <1>4 DEF AgentInv, TypeOK, CoreInv, Promises

(* The agent starts right. *)
LEMMA InitKeeps == Init => AgentInv
<1> SUFFICES ASSUME Init PROVE AgentInv
  OBVIOUS
<1>1. DOMAIN job = {} /\ job \in [{} -> Jobs] /\ Len(injectQueue) = 0
  BY DEF Init
<1>2. AgentTypeOK
  <2>1. injectQueue \in Seq(Nat)
    BY DEF Init
  <2>2. job \in [DOMAIN job -> Jobs] /\ DOMAIN job \subseteq 1..generation
    BY <1>1
  <2>3. state \in States /\ generation \in Nat /\ process \in Nat /\ polling \in BOOLEAN
        /\ userName \in Users \cup {NoUser}
    BY DEF Init, States
  <2> QED BY <2>1, <2>2, <2>3 DEF AgentTypeOK
<1>3. WorldTypeOK
  <2>1. events \in 0..MaxEvents /\ notices \in Nat
    BY AgentAssumption DEF Init
  <2>2. screen \in BOOLEAN
    BY Zenon DEF Init
  <2>3. selected \in Users \cup {NoUser}
    BY Zenon DEF Init
  <2>4. /\ isLocked \in BOOLEAN /\ ignoring \in BOOLEAN /\ lagging \in BOOLEAN
        /\ onConsole \in BOOLEAN /\ behavior \in Behaviors \cup {"unread"}
    BY DEF Init
  <2> QED BY <2>1, <2>2, <2>3, <2>4 DEF WorldTypeOK
<1> QED BY <1>1, <1>2, <1>3 DEF Init, AgentInv, TypeOK, JobInv, StateInv, QueueInv, LagInv, IdleInv

(* Every step keeps the invariant and the promises. *)
LEMMA NextKeeps ==
  ASSUME AgentInv, [Next]_vars
  PROVE  AgentInv' /\ (Promises \/ UNCHANGED vars)
<1>1. CASE Next
  BY <1>1, MonitorKeeps, UserKeeps, WorldKeeps, JobKeeps DEF Next, Handler
<1>2. CASE UNCHANGED vars
  <2>1. CoreInv'
    BY <1>2, AgentUnchanged DEF vars, AgentInv, TypeOK, CoreInv
  <2>2. WorldTypeOK' /\ LagInv' /\ IdleInv'
    BY <1>2 DEF vars, agentVars, monitorVars, worldVars, AgentInv, TypeOK, WorldTypeOK,
       LagInv, IdleInv
  <2> QED BY <1>2, <2>1, <2>2 DEF AgentInv, TypeOK, CoreInv
<1> QED BY <1>1, <1>2

-----------------------------------------------------------------------------

(* In every state the jobs, m_State, m_Generation and the inject queue      *)
(* agree with each other (AgentController.mm:63-345).                       *)
THEOREM AgentInvariant == Spec => []AgentInv
<1>1. Init => AgentInv
  BY InitKeeps
<1>2. AgentInv /\ [Next]_vars => AgentInv'
  BY NextKeeps
<1> QED BY <1>1, <1>2, PTL DEF Spec

(* While the agent shows that it asks the phone or that it unlocks, a       *)
(* process, a block of the main queue or the inject queue is at it and will *)
(* end that (AgentController.mm:106-127, 258-294).                          *)
THEOREM ShownIsUnderWay == Spec => [](RunningHasProcess /\ InjectingHasJob)
<1>1. AgentInv => RunningHasProcess /\ InjectingHasJob
  <2> SUFFICES ASSUME AgentInv PROVE RunningHasProcess /\ InjectingHasJob
    OBVIOUS
  <2>1. InjectingHasJob
    BY DEF AgentInv, StateInv, InjectingHasJob
  <2>2. ASSUME state = "RUNNING"
        PROVE  /\ generation \in DOMAIN job
               /\ job[generation].stage \in ThreadStages \cup {"finished", "retry"}
               /\ JobOK(generation, job[generation], state, generation, process, userName)
    BY <2>2 DEF AgentInv, StateInv, JobInv
  <2>3. RunningHasProcess
    BY <2>2 DEF RunningHasProcess, JobOK, ThreadStages
  <2> QED BY <2>1, <2>3
<1> QED BY <1>1, AgentInvariant, PTL

(* One process at most has not been told to end, and it is the one the      *)
(* agent waits for; one that has been told cannot miss it                   *)
(* (AgentController.mm:190-214, AuthProcess.cpp:95-102).                    *)
THEOREM ProcessIsAlone == Spec => []OneProcess
<1>1. AgentInv => OneProcess
  <2> SUFFICES ASSUME AgentInv, NEW g \in DOMAIN job
               PROVE  /\ job[g].stage \in ThreadStages /\ ~job[g].canceled =>
                           process = g /\ g = generation /\ state = "RUNNING"
                      /\ job[g].canceled => job[g].fd # "open"
    BY DEF OneProcess
  <2>1. JobOK(g, job[g], state, generation, process, userName)
    BY DEF AgentInv, JobInv
  <2> QED BY <2>1 DEF JobOK
<1> QED BY <1>1, AgentInvariant, PTL

(* For a password of any length, at most one key is posted after its        *)
(* generation is over (PasswordInjector.mm:28-47).                          *)
THEOREM KeysStop == Spec => []LateKeys
<1>1. AgentInv => LateKeys
  BY DEF AgentInv, JobInv, JobOK, LateKeys
<1> QED BY <1>1, AgentInvariant, PTL

(* A password is handed to the inject queue for the user it was asked for,  *)
(* by the generation that asked (AgentController.mm:217-238).               *)
THEOREM PasswordForItsUser == Spec => InjectsForItsUser
<1>1. AgentInv /\ [Next]_vars => [InjectsOwn]_vars
  BY NextKeeps DEF Promises
<1> QED BY <1>1, AgentInvariant, PTL DEF Spec, InjectsForItsUser

(* A failed agent starts again only by Retry or for another user            *)
(* (AgentController.mm:297).                                                *)
THEOREM RetryRestarts == Spec => OnlyRetryRestarts
<1>1. AgentInv /\ [Next]_vars => [RestartsByUser]_vars
  BY NextKeeps DEF Promises
<1> QED BY <1>1, AgentInvariant, PTL DEF Spec, OnlyRetryRestarts

(* The outdated session dictionary after an unlock does not start the agent *)
(* (LockStateMonitor.mm:25-29, 83-92).                                      *)
THEOREM UnlockNotMistaken == Spec => NoFalseLock
<1>1. AgentInv /\ [Next]_vars => [LocksForReason]_vars
  BY NextKeeps DEF Promises
<1> QED BY <1>1, AgentInvariant, PTL DEF Spec, NoFalseLock

------------------------------------------------------------------------------
(* RFCOMMStream, the relay and BTUnlockClient. *)

(* The words that are passed on. *)
LEMMA Words ==
    /\ <<>> \in Seq(Data)
    /\ \A s, t \in Seq(Data) : s \o t \in Seq(Data)
    /\ \A s \in Seq(Data) : s \o <<>> = s /\ <<>> \o s = s
    /\ \A s, t, u \in Seq(Data) : (s \o t) \o u = s \o (t \o u)
    /\ \A x \in Data : <<x>> \in Seq(Data) /\ <<x>> # <<>> /\ Head(<<x>>) = x /\ Tail(<<x>>) = <<>>
    /\ \A s \in Seq(Data) : \A x \in Data : Append(s, x) = s \o <<x>> /\ Append(s, x) \in Seq(Data)
<1>1. <<>> \in Seq(Data) /\ \A x \in Data : <<x>> \in Seq(Data)
  <2>1. ASSUME NEW S, NEW x \in S PROVE <<x>> \in Seq(S)
    OBVIOUS
  <2> QED BY <2>1, EmptySeq
<1>2. \A x : <<x>> # <<>> /\ Head(<<x>>) = x /\ Tail(<<x>>) = <<>>
  OBVIOUS
<1>3. \A s, t \in Seq(Data) : s \o t \in Seq(Data)
  BY ConcatProperties
<1>4. \A s \in Seq(Data) : s \o <<>> = s /\ <<>> \o s = s
  BY ConcatEmptySeq
<1>5. \A s, t, u \in Seq(Data) : (s \o t) \o u = s \o (t \o u)
  BY ConcatAssociative
<1>6. \A s \in Seq(Data) : \A x \in Data : Append(s, x) = s \o <<x>> /\ Append(s, x) \in Seq(Data)
  BY AppendIsConcat, AppendProperties
<1> QED BY <1>1, <1>2, <1>3, <1>4, <1>5, <1>6

(* Words after words are words. *)
LEMMA Joined ==
    ASSUME NEW s \in Seq(Data), NEW t \in Seq(Data)
    PROVE  s \o t \in Seq(Data)
OBVIOUS

(* The order of joining does not matter. *)
LEMMA Assoc ==
    ASSUME NEW s \in Seq(Data), NEW t \in Seq(Data), NEW u \in Seq(Data)
    PROVE  (s \o t) \o u = s \o (t \o u)
OBVIOUS

(* A word is added at the end of what was passed on, after those that wait. *)
LEMMA LastWord ==
    ASSUME NEW g \in Seq(Data), NEW s \in Seq(Data), NEW x \in Data
    PROVE  s \o <<x>> \in Seq(Data) /\ (g \o s) \o <<x>> = g \o (s \o <<x>>)
<1>1. <<x>> \in Seq(Data) /\ s \o <<x>> \in Seq(Data)
  BY Words
<1> QED BY <1>1, ConcatAssociative

(* A word is taken from the front of those that wait. *)
LEMMA TakeFirst ==
    ASSUME NEW s \in Seq(Data), s # <<>>
    PROVE  Head(s) \in Data /\ Tail(s) \in Seq(Data) /\ <<Head(s)>> \o Tail(s) = s
<1>1. Head(s) \in Data /\ Tail(s) \in Seq(Data) /\ Len(s) \in Nat \ {0}
  BY HeadTailProperties, EmptySeq
<1>2. /\ s = SubSeq(s, 1, Len(s)) /\ Tail(s) = SubSeq(s, 2, Len(s)) /\ Head(s) = s[1]
      /\ SubSeq(s, 1, Len(s)) = <<s[1]>> \o SubSeq(s, 2, Len(s))
  BY <1>1, SubSeqFull, TailIsSubSeq, SubSeqRecursiveFirst
<1> QED BY <1>1, <1>2

(* What the phone says is words, one after the other. *)
LEMMA SaidWords ==
    ASSUME NEW n \in 0 .. Len(Answers)
    PROVE  /\ SubSeq(Answers, 1, n) \in Seq(Data)
           /\ n < Len(Answers) =>
                 /\ Answers[n + 1] \in Data /\ n + 1 \in 0 .. Len(Answers)
                 /\ SubSeq(Answers, 1, n + 1) = SubSeq(Answers, 1, n) \o <<Answers[n + 1]>>
<1>1. Len(Answers) \in Nat /\ Answers \in [1 .. Len(Answers) -> STRING] /\ DOMAIN Answers = 1 .. Len(Answers)
  BY MacConstants, LenProperties
<1>2. \A k \in 1 .. Len(Answers) : Answers[k] \in Data
  BY <1>1 DEF Data
<1>3. SubSeq(Answers, 1, n) \in Seq(Data)
  <2>1. \A k \in 1 .. n : Answers[k] \in Data
    BY <1>1, <1>2
  <2> QED BY <2>1, <1>1, SubSeqProperties
<1>4. ASSUME n < Len(Answers)
      PROVE  SubSeq(Answers, 1, n + 1) = SubSeq(Answers, 1, n) \o <<Answers[n + 1]>>
  <2>1. 1 \in 1 .. Len(Answers) /\ n + 1 \in 1 .. Len(Answers) /\ (n + 1) - 1 = n
    BY <1>1, <1>4
  <2> QED BY <2>1, MacConstants, SubSeqRecursiveSecond
<1> QED BY <1>1, <1>2, <1>3, <1>4

(* The first word of a joined sequence is that of its first part. *)
LEMMA TailOfTwo ==
    ASSUME NEW s \in Seq(Data), NEW t \in Seq(Data), s # <<>>
    PROVE  s \o t # <<>> /\ Tail(s \o t) = Tail(s) \o t
<1>1. s \o t # <<>>
  BY ConcatEqualIffEmpty
<1>2. Head(s) \in Data /\ Tail(s) \in Seq(Data) /\ <<Head(s)>> \o Tail(s) = s /\ <<Head(s)>> \in Seq(Data)
  BY TakeFirst, Words
<1>3. s \o t = <<Head(s)>> \o (Tail(s) \o t)
  BY <1>2, Assoc
<1>4. Head(s \o t) = Head(s) /\ Tail(s \o t) \in Seq(Data) /\ s \o t \in Seq(Data)
  BY <1>1, TakeFirst
<1>5. <<Head(s)>> \o Tail(s \o t) = s \o t
  BY <1>1, <1>4, TakeFirst
<1>6. <<Head(s)>> \o Tail(s \o t) = <<Head(s)>> \o (Tail(s) \o t) /\ Tail(s) \o t \in Seq(Data)
  BY <1>2, <1>3, <1>5, Words
<1>7. Tail(s \o t) = Tail(s) \o t
  BY <1>2, <1>4, <1>6, ConcatSimplifications
<1> QED BY <1>1, <1>7

(* A stream before Connect, or after the death of its process. *)
LEMMA NewStreamType ==
    /\ NewStream \in StreamRecords /\ NewStream.attached = FALSE /\ NewStream.query = FALSE
    /\ NewStream.inFlight = <<>> /\ NewStream.isClosed = FALSE /\ NewStream.channel = "none"
    /\ NewStream.held = FALSE /\ NewStream.readBuffer = <<>>
<1>1. NoData \in Data /\ <<>> \in Seq(Data)
  BY Words DEF Data
<1>2. NewStream \in StreamRecords
  BY <1>1 DEF NewStream, StreamRecords
<1> QED BY <1>2 DEF NewStream

(* RFCOMMStream::Close and its destructor. *)
LEMMA ClosedStream ==
    ASSUME NEW s \in StreamRecords, NEW c, c = Closed(s)
    PROVE  /\ c \in StreamRecords /\ c.isClosed = TRUE /\ c.attached = FALSE
           /\ c.inFlight = <<>> /\ c.channel \in {"none", "closed"}
           /\ c.held = s.held /\ c.query = s.query /\ c.pending = s.pending
           /\ c.readBuffer = s.readBuffer /\ c.write = s.write
<1>1. PICK ch \in {"none", "closed"} :
         c = [s EXCEPT !.isClosed = TRUE, !.attached = FALSE, !.channel = ch, !.inFlight = <<>>]
  BY DEF Closed, StreamRecords
<1>2. [s EXCEPT !.isClosed = TRUE, !.attached = FALSE, !.channel = ch, !.inFlight = <<>>] \in StreamRecords
  BY Words DEF StreamRecords
<1>3. /\ c.held = s.held /\ c.query = s.query /\ c.pending = s.pending
      /\ c.readBuffer = s.readBuffer /\ c.write = s.write
      /\ c.inFlight = <<>> /\ c.channel = ch /\ c.isClosed = TRUE /\ c.attached = FALSE
  BY <1>1 DEF StreamRecords
<1> QED BY <1>1, <1>2, <1>3

(* What ~RFCOMMStream leaves: the delegate of a query under way. *)
LEMMA DestroyedStream ==
    ASSUME NEW s \in StreamRecords, NEW d, d = Destroyed(s)
    PROVE  /\ d \in StreamRecords /\ d.isClosed = TRUE /\ d.attached = FALSE
           /\ d.inFlight = <<>> /\ d.channel \in {"none", "closed"}
           /\ d.query = s.query /\ d.pending = s.pending
<1>1. PICK ch \in {"none", "closed"} :
         d = [NewStream EXCEPT !.isClosed = TRUE, !.channel = ch, !.query = s.query, !.pending = s.pending]
  BY ClosedStream DEF Destroyed
<1>2. PICK q \in BOOLEAN, p \in BOOLEAN : q = s.query /\ p = s.pending
  BY DEF StreamRecords
<1>3. NewStream \in StreamRecords /\ NewStream.attached = FALSE /\ NewStream.inFlight = <<>>
  BY NewStreamType
<1>4. d = [NewStream EXCEPT !.isClosed = TRUE, !.channel = ch, !.query = q, !.pending = p]
  BY <1>1, <1>2
<1>5. d \in StreamRecords
  BY <1>3, <1>4 DEF StreamRecords
<1>6. /\ d.isClosed = TRUE /\ d.attached = NewStream.attached /\ d.inFlight = NewStream.inFlight
      /\ d.channel = ch /\ d.query = q /\ d.pending = p
  BY <1>3, <1>4 DEF StreamRecords
<1> QED BY <1>2, <1>3, <1>5, <1>6

(* The entries of an attempt are of their types; a step changes no other's. *)
TypesAt(i) ==
    /\ sock[i] \in Socks /\ relay[i] \in Relays /\ opener[i] \in Openers
    /\ writer[i] \in Writers /\ rf[i] \in StreamRecords /\ phone[i] \in Phones

OnlyAt(i) ==
    /\ sock' = [sock EXCEPT ![i] = sock'[i]] /\ relay' = [relay EXCEPT ![i] = relay'[i]]
    /\ opener' = [opener EXCEPT ![i] = opener'[i]] /\ writer' = [writer EXCEPT ![i] = writer'[i]]
    /\ rf' = [rf EXCEPT ![i] = rf'[i]] /\ phone' = [phone EXCEPT ![i] = phone'[i]]
    /\ UNCHANGED <<setting, helper, crashes>>

(* The invariant, for one attempt. *)
LEMMA Parts ==
    ASSUME MacInv, NEW i \in Attempts
    PROVE  /\ BTTypeOK /\ ClientOK /\ TypesAt(i) /\ Now \in Attempts
           /\ PlaceOK(i) /\ RelayOK(i) /\ TargetOK(i) /\ WriteOK(i) /\ ClosedOK(i) /\ UpOK(i) /\ DownOK(i)
BY DEF MacInv, AttemptOK, BTTypeOK, TypesAt, Clients, Now

(* A step of one attempt, of the client's thread with the current one or of *)
(* another thread, leaves the other attempts as they are.                   *)
LEMMA LocalStep ==
    ASSUME MacInv, NEW i \in Attempts, OnlyAt(i), TypesAt(i)',
           \/ client' = client
           \/ i = Now /\ client' \in Clients /\ client'.attempt = client.attempt,
           i = Now => ClientOK',
           AttemptOK(i)'
    PROVE  MacInv'
<1>0. BTTypeOK /\ ClientOK /\ \A j \in Attempts : AttemptOK(j)
  BY DEF MacInv
<1>1. BTTypeOK'
  BY <1>0 DEF BTTypeOK, TypesAt, OnlyAt
<1>2. Now' = Now /\ mode' = mode
  BY DEF Now, mode, OnlyAt
<1>3. ASSUME NEW j \in Attempts, j # i
      PROVE  AttemptOK(j)'
  <2>0. /\ sock'[j] = sock[j] /\ relay'[j] = relay[j] /\ opener'[j] = opener[j]
        /\ writer'[j] = writer[j] /\ rf'[j] = rf[j] /\ phone'[j] = phone[j] /\ Said(j)' = Said(j)
    BY <1>0, <1>3 DEF BTTypeOK, Said, OnlyAt
  <2>1. AttemptOK(j)
    BY <1>0
  <2>2. CASE client' = client
    <3>1. At("line")' = At("line") /\ At("connecting")' = At("connecting") /\ Heard(j)' = Heard(j)
      BY <2>0, <2>2 DEF At, Heard
    <3>2. PlaceOK(j)'
      BY <2>0, <2>1, <2>2, <1>2, <3>1 DEF AttemptOK, PlaceOK
    <3>3. RelayOK(j)' /\ TargetOK(j)' /\ WriteOK(j)' /\ ClosedOK(j)'
      BY <2>0, <2>1, <1>2 DEF AttemptOK, RelayOK, TargetOK, WriteOK, ClosedOK
    <3>4. UpOK(j)'
      BY <2>0, <2>1, <1>2 DEF AttemptOK, UpOK
    <3>5. DownOK(j)'
      BY <2>0, <2>1, <1>2, <3>1, <2>2 DEF AttemptOK, DownOK
    <3> QED BY <3>2, <3>3, <3>4, <3>5 DEF AttemptOK
  <2>3. CASE i = Now
    <3>1. j # Now /\ ~sock[j].client
      BY <2>1, <2>3, <1>3 DEF AttemptOK, PlaceOK
    <3>2. PlaceOK(j)'
      BY <2>0, <2>1, <1>2, <3>1 DEF AttemptOK, PlaceOK
    <3>3. RelayOK(j)' /\ TargetOK(j)' /\ WriteOK(j)' /\ ClosedOK(j)'
      BY <2>0, <2>1, <1>2 DEF AttemptOK, RelayOK, TargetOK, WriteOK, ClosedOK
    <3>4. UpOK(j)'
      BY <2>0, <2>1, <1>2 DEF AttemptOK, UpOK
    <3>5. DownOK(j)'
      BY <2>0, <2>1, <1>2, <3>1 DEF AttemptOK, DownOK
    <3> QED BY <3>2, <3>3, <3>4, <3>5 DEF AttemptOK
  <2> QED BY <2>2, <2>3
<1>4. ClientOK'
  <2>1. CASE i # Now
    <3>1. /\ client' = client /\ relay'[Now] = relay[Now] /\ sock'[Now] = sock[Now] /\ Now \in Attempts
          /\ At("open")' = At("open") /\ At("ask")' = At("ask")
          /\ At("connecting")' = At("connecting")
      BY <1>0, <2>1 DEF BTTypeOK, At, Clients, Now, OnlyAt
    <3> QED BY <3>1, <1>0, <1>2 DEF ClientOK
  <2> QED BY <2>1
<1> QED BY <1>1, <1>3, <1>4 DEF MacInv

(* What UpOK and DownOK depend on. *)
LEMMA UpSame ==
    ASSUME NEW i \in Attempts, UpOK(i), setting' = setting, relay'[i] = relay[i], writer'[i] = writer[i],
           sock'[i].up = sock[i].up, phone'[i].asked = phone[i].asked, phone'[i].told = phone[i].told,
           mode = "relay" => rf'[i].inFlight = rf[i].inFlight /\ rf'[i].write = rf[i].write
    PROVE  UpOK(i)'
BY DEF UpOK, mode

(* A step that leaves what was said, passed down and got as it is. *)
LEMMA DownSame ==
    ASSUME NEW i \in Attempts, DownOK(i), setting' = setting, client' = client, relay'[i] = relay[i],
           sock'[i] = sock[i], phone'[i].said = phone[i].said,
           rf'[i].readBuffer = rf[i].readBuffer, rf[i].isClosed => rf'[i].isClosed
    PROVE  DownOK(i)'
<1>1. Said(i)' = Said(i) /\ Heard(i)' = Heard(i) /\ mode' = mode /\ Now' = Now /\ At("line")' = At("line")
  BY DEF Said, Heard, mode, Now, At
<1> QED BY <1>1 DEF DownOK

(* A step of the thread that connects or writes, or of a callback. *)
LEMMA StreamStep ==
    ASSUME MacInv, NEW i \in Attempts, OnlyAt(i), UNCHANGED <<client, sock, relay>>, TypesAt(i)',
           opener'[i] # "none" => opener[i] # "none",
           opener'[i] # "none" => rf'[i].held,
           writer'[i] # "idle" => writer[i] # "idle",
           TargetOK(i)', WriteOK(i)', ClosedOK(i)', UpOK(i)', DownOK(i)'
    PROVE  MacInv'
<1>0. ClientOK /\ PlaceOK(i) /\ RelayOK(i)
  BY Parts
<1>1. UNCHANGED <<setting, client, sock, relay>>
  BY DEF OnlyAt
<1>2. PlaceOK(i)'
  BY <1>0, <1>1 DEF PlaceOK, mode, Now, At
<1>3. RelayOK(i)' /\ ClientOK'
  BY <1>0, <1>1 DEF RelayOK, ClientOK, mode, Now, At
<1> QED BY <1>2, <1>3, LocalStep DEF AttemptOK

(* RFCOMMStream::Connect: it holds the stream, and nothing is read or written yet. *)
LEMMA StartQueryKeeps ==
    ASSUME MacInv, NEW i \in Attempts, StartQuery(i)
    PROVE  MacInv'
<1>0. /\ BTTypeOK /\ TypesAt(i) /\ PlaceOK(i) /\ TargetOK(i) /\ WriteOK(i) /\ ClosedOK(i) /\ UpOK(i) /\ DownOK(i)
      /\ opener[i] = "sdp" /\ UNCHANGED <<setting, client, sock, relay>>
  BY Parts DEF StartQuery
<1>1. OnlyAt(i)
  BY <1>0 DEF StartQuery, Opening, OnlyAt, BTTypeOK
<1>2. /\ rf'[i] = [rf[i] EXCEPT !.query = TRUE, !.pending = TRUE] /\ opener'[i] = "sdpWait"
      /\ writer'[i] = writer[i] /\ phone'[i] = phone[i]
  BY <1>0 DEF StartQuery, Opening, BTTypeOK
<1>3. TypesAt(i)' /\ rf'[i].isClosed = rf[i].isClosed /\ rf'[i].channel = rf[i].channel
  BY <1>0, <1>2 DEF TypesAt, StreamRecords, Openers
<1>4. TargetOK(i)' /\ WriteOK(i)' /\ ClosedOK(i)' /\ rf'[i].held
  BY <1>0, <1>2 DEF TypesAt, StreamRecords, TargetOK, WriteOK, ClosedOK, PlaceOK, mode
<1>5. UpOK(i)' /\ DownOK(i)'
  BY <1>0, <1>2, UpSame, DownSame DEF TypesAt, StreamRecords
<1> QED BY <1>0, <1>1, <1>2, <1>3, <1>4, <1>5, StreamStep
(* The steps of Connect that only look at what the delegate was told. *)
LEMMA LookKeeps ==
    ASSUME MacInv, NEW i \in Attempts,
           QueryFails(i) \/ AwaitQuery(i) \/ OpenChannel(i) \/ AwaitChannel(i), UNCHANGED rf
    PROVE  MacInv'
<1>0. /\ BTTypeOK /\ TypesAt(i) /\ PlaceOK(i) /\ TargetOK(i) /\ WriteOK(i) /\ ClosedOK(i) /\ UpOK(i) /\ DownOK(i)
      /\ UNCHANGED <<setting, client, sock, relay, writer, phone, rf>>
  BY Parts DEF QueryFails, AwaitQuery, OpenChannel, AwaitChannel
<1>1. OnlyAt(i)
  BY <1>0 DEF QueryFails, AwaitQuery, OpenChannel, AwaitChannel, Opening, OnlyAt, BTTypeOK
<1>2. /\ opener[i] # "none" /\ opener'[i] \in Openers
      /\ opener'[i] \in {"sdp", "sdpWait", "channel"} => opener[i] \in {"sdp", "sdpWait", "channel"}
  BY <1>0 DEF QueryFails, AwaitQuery, OpenChannel, AwaitChannel, Opening, BTTypeOK, Openers
<1>3. TypesAt(i)'
  BY <1>0, <1>2 DEF TypesAt
<1>4. TargetOK(i)' /\ WriteOK(i)' /\ ClosedOK(i)' /\ rf'[i].held
  BY <1>0, <1>2 DEF TargetOK, WriteOK, ClosedOK, PlaceOK, mode
<1>5. UpOK(i)' /\ DownOK(i)'
  BY <1>0, UpSame, DownSame
<1> QED BY <1>0, <1>1, <1>2, <1>3, <1>4, <1>5, StreamStep

(* The channel is asked for: the delegate of a stream that is not closed. *)
LEMMA OpenChannelKeeps ==
    ASSUME MacInv, NEW i \in Attempts, OpenChannel(i)
    PROVE  MacInv'
<1>0. /\ BTTypeOK /\ TypesAt(i) /\ PlaceOK(i) /\ TargetOK(i) /\ WriteOK(i) /\ ClosedOK(i) /\ UpOK(i) /\ DownOK(i)
      /\ opener[i] = "channel" /\ UNCHANGED <<setting, client, sock, relay, writer, phone>>
  BY Parts DEF OpenChannel
<1>1. CASE UNCHANGED rf
  BY <1>1, LookKeeps
<1>2. CASE rf' = [rf EXCEPT ![i].channel = "opening", ![i].attached = TRUE] /\ Opening(i, "openWait")
  <2>1. OnlyAt(i)
    BY <1>0, <1>2 DEF OpenChannel, Opening, OnlyAt, BTTypeOK
  <2>2. /\ rf'[i] = [rf[i] EXCEPT !.channel = "opening", !.attached = TRUE] /\ opener'[i] = "openWait"
        /\ writer'[i] = writer[i] /\ phone'[i] = phone[i]
    BY <1>0, <1>2 DEF Opening, BTTypeOK
  <2>3. TypesAt(i)'
    BY <1>0, <2>2 DEF TypesAt, StreamRecords, Openers
  <2>4. TargetOK(i)' /\ WriteOK(i)' /\ ClosedOK(i)' /\ rf'[i].held
    BY <1>0, <2>2 DEF TypesAt, StreamRecords, TargetOK, WriteOK, ClosedOK, PlaceOK, mode
  <2>5. UpOK(i)' /\ DownOK(i)'
    BY <1>0, <2>2, UpSame, DownSame DEF TypesAt, StreamRecords
  <2> QED BY <1>0, <2>1, <2>2, <2>3, <2>4, <2>5, StreamStep
<1> QED BY <1>1, <1>2 DEF OpenChannel

(* A channel that did not open is closed; nothing has been written to it. *)
LEMMA AwaitChannelKeeps ==
    ASSUME MacInv, NEW i \in Attempts, AwaitChannel(i)
    PROVE  MacInv'
<1>0. /\ BTTypeOK /\ TypesAt(i) /\ PlaceOK(i) /\ TargetOK(i) /\ WriteOK(i) /\ ClosedOK(i) /\ UpOK(i) /\ DownOK(i)
      /\ opener[i] = "openWait" /\ UNCHANGED <<setting, client, sock, relay, writer, phone>>
  BY Parts DEF AwaitChannel
<1>1. CASE UNCHANGED rf
  BY <1>1, LookKeeps
<1>2. CASE rf' = [rf EXCEPT ![i] = Closed(@)] /\ Opening(i, "failed")
  <2>1. OnlyAt(i)
    BY <1>0, <1>2 DEF AwaitChannel, Opening, OnlyAt, BTTypeOK
  <2>2. /\ rf'[i] = Closed(rf[i]) /\ opener'[i] = "failed"
        /\ writer'[i] = writer[i] /\ phone'[i] = phone[i]
    BY <1>0, <1>2 DEF Opening, BTTypeOK
  <2>3. /\ TypesAt(i)' /\ rf'[i].held = rf[i].held /\ rf'[i].query = rf[i].query
        /\ rf'[i].pending = rf[i].pending /\ rf'[i].readBuffer = rf[i].readBuffer
        /\ rf'[i].write = rf[i].write /\ rf'[i].isClosed = TRUE /\ rf'[i].attached = FALSE
        /\ rf'[i].inFlight = <<>>
        /\ rf'[i].channel \in {"none", "closed"}
    BY <1>0, <2>2, ClosedStream DEF TypesAt, Openers
  <2>4. TargetOK(i)' /\ WriteOK(i)' /\ ClosedOK(i)' /\ rf'[i].held
    BY <1>0, <2>2, <2>3 DEF TargetOK, WriteOK, ClosedOK, PlaceOK, mode
  <2>5. mode = "relay" => rf[i].inFlight = <<>>
    BY <1>0 DEF PlaceOK, WriteOK
  <2>6. UpOK(i)' /\ DownOK(i)'
    BY <1>0, <2>2, <2>3, <2>5, UpSame, DownSame
  <2> QED BY <1>0, <2>1, <2>2, <2>3, <2>4, <2>6, StreamStep
<1> QED BY <1>1, <1>2 DEF AwaitChannel

(* The callbacks that change what the delegate knows of the query or the channel. *)
LEMMA StateCallbackKeeps ==
    ASSUME MacInv, NEW i \in Attempts,
           sdpQueryComplete(i) \/ rfcommChannelOpenComplete(i) \/ rfcommChannelClosed(i)
    PROVE  MacInv'
<1>0. /\ BTTypeOK /\ TypesAt(i) /\ PlaceOK(i) /\ TargetOK(i) /\ WriteOK(i) /\ ClosedOK(i) /\ UpOK(i) /\ DownOK(i)
      /\ UNCHANGED <<setting, client, sock, relay, opener, writer, phone>>
  BY Parts DEF sdpQueryComplete, rfcommChannelOpenComplete, rfcommChannelClosed
<1>1. OnlyAt(i)
  BY <1>0 DEF sdpQueryComplete, rfcommChannelOpenComplete, rfcommChannelClosed, OnlyAt, BTTypeOK
<1>2. /\ TypesAt(i)' /\ rf'[i].held = rf[i].held /\ rf'[i].attached = rf[i].attached
      /\ rf'[i].readBuffer = rf[i].readBuffer /\ rf'[i].write = rf[i].write
      /\ rf'[i].inFlight = rf[i].inFlight /\ rf'[i].pendingWrite = rf[i].pendingWrite
      /\ rf[i].isClosed => rf'[i].isClosed
      /\ rf'[i].query => rf[i].query /\ rf'[i].pending = rf[i].pending
      /\ \/ rf'[i].channel = rf[i].channel /\ rf'[i].isClosed = rf[i].isClosed
         \/ rf[i].channel = "opening" /\ rf'[i].isClosed = rf[i].isClosed
         \/ rf[i].channel # "none" /\ rf'[i].channel = "closed"
  <2>1. CASE sdpQueryComplete(i)
    <3>1. PICK status \in {"ok", "error"} :
             rf' = [rf EXCEPT ![i].sdp = IF rf[i].held THEN status ELSE @, ![i].query = FALSE, ![i].pending = FALSE]
      BY <2>1 DEF sdpQueryComplete
    <3>2. rf'[i] = [rf[i] EXCEPT !.sdp = IF rf[i].held THEN status ELSE @, !.query = FALSE, !.pending = FALSE]
      BY <1>0, <3>1 DEF BTTypeOK
    <3> QED BY <1>0, <3>2 DEF TypesAt, StreamRecords
  <2>2. CASE rfcommChannelOpenComplete(i)
    <3>1. /\ rf[i].channel = "opening"
          /\ \/ rf'[i] = [rf[i] EXCEPT !.open = "ok", !.channel = "open"]
             \/ rf'[i] = [rf[i] EXCEPT !.open = "error", !.channel = "closed"]
      BY <1>0, <2>2 DEF BTTypeOK, rfcommChannelOpenComplete
    <3> QED BY <1>0, <3>1 DEF TypesAt, StreamRecords
  <2>3. CASE rfcommChannelClosed(i)
    <3>1. /\ rf[i].channel # "none"
          /\ rf'[i] = [rf[i] EXCEPT !.channel = "closed", !.isClosed = TRUE]
      BY <1>0, <2>3 DEF BTTypeOK, rfcommChannelClosed
    <3> QED BY <1>0, <3>1 DEF TypesAt, StreamRecords
  <2> QED BY <2>1, <2>2, <2>3
<1>3. TargetOK(i)' /\ WriteOK(i)' /\ ClosedOK(i)' /\ (opener'[i] # "none" => rf'[i].held)
  BY <1>0, <1>2 DEF TargetOK, WriteOK, ClosedOK, PlaceOK, mode
<1>4. UpOK(i)' /\ DownOK(i)'
  BY <1>0, <1>2, UpSame, DownSame
<1> QED BY <1>0, <1>1, <1>2, <1>3, <1>4, StreamStep
(* The phone says a word: it waits in the delegate, after all that was said before. *)
LEMMA DataKeeps ==
    ASSUME MacInv, NEW i \in Attempts, rfcommChannelData(i)
    PROVE  MacInv'
<1> DEFINE a == Answers[phone[i].said + 1]
<1>0. /\ BTTypeOK /\ TypesAt(i) /\ PlaceOK(i) /\ TargetOK(i) /\ WriteOK(i) /\ ClosedOK(i) /\ UpOK(i) /\ DownOK(i)
      /\ UNCHANGED <<setting, client, sock, relay, opener, writer>>
      /\ phone[i].said < Len(Answers) /\ rf[i].attached /\ rf[i].channel = "open"
  BY Parts DEF rfcommChannelData
<1>1. /\ phone'[i] = [phone[i] EXCEPT !.said = phone[i].said + 1]
      /\ phone' = [phone EXCEPT ![i] = phone'[i]] /\ UNCHANGED <<helper, crashes>>
  BY <1>0 DEF rfcommChannelData, BTTypeOK
<1>1a. /\ rf'[i] = [rf[i] EXCEPT !.readBuffer = Append(rf[i].readBuffer, Answers[phone'[i].said])]
       /\ rf' = [rf EXCEPT ![i] = rf'[i]]
  BY <1>0 DEF rfcommChannelData, BTTypeOK
<1>1b. OnlyAt(i)
  BY <1>0, <1>1, <1>1a DEF BTTypeOK, OnlyAt
<1>2. phone[i].said \in 0 .. Len(Answers) /\ rf[i].readBuffer \in Seq(Data)
  BY <1>0 DEF TypesAt, Phones, StreamRecords
<1>3. /\ phone'[i].said = phone[i].said + 1 /\ phone'[i].told = phone[i].told
      /\ phone'[i].asked = phone[i].asked
  BY <1>0, <1>1 DEF TypesAt, Phones
<1>4. /\ a \in Data /\ Said(i)' = Said(i) \o <<a>> /\ Said(i) \in Seq(Data)
      /\ phone'[i].said \in 0 .. Len(Answers)
  <2>1. /\ a \in Data /\ SubSeq(Answers, 1, phone[i].said) \in Seq(Data)
        /\ SubSeq(Answers, 1, phone[i].said + 1) = SubSeq(Answers, 1, phone[i].said) \o <<a>>
        /\ phone[i].said + 1 \in 0 .. Len(Answers)
    BY <1>0, <1>2, SaidWords
  <2>2. Said(i)' = SubSeq(Answers, 1, phone[i].said + 1) /\ Said(i) = SubSeq(Answers, 1, phone[i].said)
    BY <1>3 DEF Said
  <2> QED BY <1>3, <2>1, <2>2
<1>5. rf'[i] = [rf[i] EXCEPT !.readBuffer = Append(rf[i].readBuffer, a)]
  BY <1>1a, <1>3
<1>6. Append(rf[i].readBuffer, a) \in Seq(Data) /\ Append(rf[i].readBuffer, a) = rf[i].readBuffer \o <<a>>
  BY <1>2, <1>4, Words
<1> HIDE DEF a
<1>7. TypesAt(i)'
  <2>1. phone'[i] \in Phones
    BY <1>0, <1>1, <1>3, <1>4 DEF TypesAt, Phones
  <2>2. rf'[i] \in StreamRecords
    BY <1>0, <1>5, <1>6 DEF TypesAt, StreamRecords
  <2> QED BY <1>0, <2>1, <2>2 DEF TypesAt
<1>8. /\ rf'[i].held = rf[i].held /\ rf'[i].query = rf[i].query /\ rf'[i].pending = rf[i].pending
      /\ rf'[i].attached = rf[i].attached /\ rf'[i].write = rf[i].write
      /\ rf'[i].inFlight = rf[i].inFlight /\ rf'[i].pendingWrite = rf[i].pendingWrite
      /\ rf'[i].channel = rf[i].channel /\ rf'[i].isClosed = rf[i].isClosed
      /\ rf'[i].readBuffer = Append(rf[i].readBuffer, a)
  BY <1>0, <1>5 DEF TypesAt, StreamRecords
<1>9. TargetOK(i)' /\ WriteOK(i)' /\ ClosedOK(i)' /\ (opener'[i] # "none" => rf'[i].held)
  BY <1>0, <1>8 DEF TargetOK, WriteOK, ClosedOK, PlaceOK, mode
<1>10. UpOK(i)'
  BY <1>0, <1>3, <1>8, UpSame
<1>11. DownOK(i)'
  <2> SUFFICES ASSUME mode = "relay" PROVE DownOK(i)'
    BY <1>0 DEF DownOK, mode
  <2>1. ~rf[i].isClosed /\ relay[i].main \notin {"none", "backlog", "ended"}
    BY <1>0 DEF ClosedOK
  <2>2. Heard(i)' = Heard(i) /\ mode' = mode /\ Now' = Now /\ At("line")' = At("line")
    BY <1>0 DEF Heard, mode, Now, At
  <2>3. client.got \in Seq(Data) /\ Heard(i) \in Seq(Data) /\ relay[i].down \in Seq(Data)
    <3>1. client.got \in Seq(Data) /\ sock[i].down \in Seq(Data) /\ relay[i].down \in Seq(Data)
      BY <1>0 DEF BTTypeOK, TypesAt, Clients, Socks, Relays
    <3> QED BY <3>1, TakeFirst DEF Heard
  <2>4. PICK g \in Seq(Data) : g = client.got \o Heard(i)
    BY <2>3, Words
  <2>5. i = Now => \E rest \in Seq(Data) : Said(i)' = g \o rest
    <3> SUFFICES ASSUME i = Now PROVE \E rest \in Seq(Data) : Said(i)' = g \o rest
      OBVIOUS
    <3>1. PICK rest \in Seq(Data) : Said(i) = g \o rest
      BY <1>0, <2>4 DEF DownOK
    <3>2. rest \o <<a>> \in Seq(Data) /\ (g \o rest) \o <<a>> = g \o (rest \o <<a>>)
      BY <1>4, LastWord
    <3> QED BY <1>4, <3>1, <3>2
  <2>6. Said(i) = g \o (relay[i].down \o rf[i].readBuffer)
        => Said(i)' = g \o (relay[i].down \o rf'[i].readBuffer)
    <3>1. PICK w \in Seq(Data) : w = relay[i].down \o rf[i].readBuffer
      BY <1>2, <2>3, Words
    <3>2. (g \o w) \o <<a>> = g \o (w \o <<a>>)
      BY <1>4, LastWord
    <3>3. w \o <<a>> = relay[i].down \o (rf[i].readBuffer \o <<a>>)
      BY <1>2, <1>4, <2>3, <3>1, LastWord
    <3>4. rf'[i].readBuffer = rf[i].readBuffer \o <<a>>
      BY <1>6, <1>8
    <3> QED BY <3>1, <3>2, <3>3, <3>4, <1>4
  <2> QED BY <1>0, <1>8, <2>1, <2>2, <2>4, <2>5, <2>6 DEF DownOK
<1> QED BY <1>0, <1>1b, <1>7, <1>9, <1>10, <1>11, StreamStep

(* writeAsync: what is written next goes to IOBluetooth, which had nothing. *)
LEMMA SubmitKeeps ==
    ASSUME MacInv, NEW i \in Attempts, Submit(i)
    PROVE  MacInv'
<1>0. /\ BTTypeOK /\ ClientOK /\ TypesAt(i) /\ PlaceOK(i) /\ RelayOK(i) /\ TargetOK(i) /\ WriteOK(i)
      /\ ClosedOK(i) /\ UpOK(i) /\ DownOK(i)
      /\ UNCHANGED <<setting, client, sock, relay, opener, phone>> /\ writer[i] = "submit"
  BY Parts DEF Submit
<1>1. /\ Chunk(i) \in Data
      /\ mode = "relay" => /\ relay[i].main = "write" /\ relay[i].up \in Seq(Data) /\ Tail(relay[i].up) \in Seq(Data)
                           /\ relay[i].up = <<Chunk(i)>> \o Tail(relay[i].up) /\ rf[i].inFlight = <<>>
  <2>1. CASE mode = "relay"
    <3>1. relay[i].main = "write" /\ relay[i].up # <<>> /\ relay[i].up \in Seq(Data) /\ rf[i].inFlight = <<>>
      BY <1>0, <2>1 DEF PlaceOK, RelayOK, WriteOK, TypesAt, Relays
    <3> QED BY <2>1, <3>1, TakeFirst DEF Chunk
  <2>2. CASE mode # "relay"
    <3>1. client.toWrite # <<>> /\ client.toWrite \in Seq(Data)
      BY <1>0, <2>2, MacConstants DEF PlaceOK, ClientOK, BTTypeOK, Clients, mode
    <3> QED BY <2>2, <3>1, TakeFirst DEF Chunk
  <2> QED BY <2>1, <2>2
<1>2. OnlyAt(i) /\ writer'[i] \in {"wait", "failed"}
  BY <1>0 DEF Submit, BTTypeOK, OnlyAt
<1>3. \/ /\ rf'[i] = [rf[i] EXCEPT !.pendingWrite = Chunk(i), !.inFlight = Append(rf[i].inFlight, Chunk(i))]
         /\ writer'[i] = "wait"
      \/ rf'[i] = [rf[i] EXCEPT !.pendingWrite = NoData] /\ writer'[i] = "failed"
      \/ rf'[i] = rf[i] /\ writer'[i] = "failed"
  BY <1>0 DEF Submit, BTTypeOK
<1>4. rf[i].inFlight \in Seq(Data) /\ Append(rf[i].inFlight, Chunk(i)) \in Seq(Data)
  BY <1>0, <1>1, Words DEF TypesAt, StreamRecords
<1>5. rf'[i] \in StreamRecords
  <2>1. NoData \in Data
    BY DEF Data
  <2> QED BY <1>0, <1>1, <1>3, <1>4, <2>1 DEF TypesAt, StreamRecords
<1>6. TypesAt(i)'
  BY <1>0, <1>2, <1>5 DEF TypesAt, Writers
<1>7. /\ rf'[i].held = rf[i].held /\ rf'[i].query = rf[i].query /\ rf'[i].pending = rf[i].pending
      /\ rf'[i].attached = rf[i].attached /\ rf'[i].write = rf[i].write
      /\ rf'[i].channel = rf[i].channel /\ rf'[i].isClosed = rf[i].isClosed
      /\ rf'[i].readBuffer = rf[i].readBuffer
      /\ \/ /\ rf'[i].pendingWrite = Chunk(i) /\ rf'[i].inFlight = Append(rf[i].inFlight, Chunk(i))
            /\ writer'[i] = "wait"
         \/ rf'[i].inFlight = rf[i].inFlight /\ writer'[i] = "failed"
  BY <1>0, <1>3 DEF TypesAt, StreamRecords
<1>8. mode = "relay" => Append(rf[i].inFlight, Chunk(i)) = <<Chunk(i)>>
  <2>1. \A x : Append(<<>>, x) = <<x>>
    OBVIOUS
  <2> QED BY <1>1, <2>1
<1>9. TargetOK(i)' /\ WriteOK(i)' /\ ClosedOK(i)' /\ (opener'[i] # "none" => rf'[i].held)
  BY <1>0, <1>1, <1>7, <1>8 DEF TargetOK, WriteOK, ClosedOK, PlaceOK, mode
<1>10. UpOK(i)'
  <2> SUFFICES ASSUME mode = "relay" PROVE UpOK(i)'
    BY <1>0 DEF UpOK, mode
  <2>0. /\ phone[i].asked \in Seq(Data) /\ phone[i].told \in Seq(Data) /\ sock[i].up \in Seq(Data)
        /\ phone[i].told \o <<>> = phone[i].told
    BY <1>0, Words DEF TypesAt, Phones, Socks
  <2>1. PICK rest \in Seq(Data) : rest = Tail(relay[i].up) \o sock[i].up
    BY <1>1, <2>0, Words
  <2>2. phone[i].asked = phone[i].told \o (relay[i].up \o sock[i].up)
    BY <1>0, <1>1 DEF UpOK
  <2>3. PICK c \in Seq(Data) : c = <<Chunk(i)>>
    BY <1>1, Words
  <2>4. relay[i].up = c \o Tail(relay[i].up)
    BY <1>1, <2>3
  <2>4a. relay[i].up \o sock[i].up = c \o rest
    <3>1. (c \o Tail(relay[i].up)) \o sock[i].up = c \o (Tail(relay[i].up) \o sock[i].up)
      BY <1>1, <2>0, Assoc
    <3> QED BY <3>1, <2>1, <2>4
  <2>4b. phone[i].told \o (c \o rest) = (phone[i].told \o c) \o rest
    BY <2>0, Assoc
  <2>5. phone[i].asked = (phone[i].told \o <<Chunk(i)>>) \o rest
    BY <2>2, <2>3, <2>4a, <2>4b
  <2>6. CASE writer'[i] = "wait"
    BY <2>6, <1>0, <1>1, <1>7, <1>8, <2>1, <2>5 DEF UpOK, mode
  <2>7. CASE writer'[i] = "failed"
    BY <2>7, <1>0, <1>1, <1>7 DEF UpOK, mode
  <2> QED BY <1>2, <2>6, <2>7
<1>11. DownOK(i)'
  BY <1>0, <1>7, DownSame
<1> QED BY <1>0, <1>2, <1>6, <1>9, <1>10, <1>11, StreamStep

(* WriteRaw returns: done only when the phone has been told. *)
LEMMA AwaitWriteKeeps ==
    ASSUME MacInv, NEW i \in Attempts, AwaitWrite(i)
    PROVE  MacInv'
<1>0. /\ BTTypeOK /\ TypesAt(i) /\ PlaceOK(i) /\ RelayOK(i) /\ TargetOK(i) /\ WriteOK(i) /\ ClosedOK(i)
      /\ UpOK(i) /\ DownOK(i)
      /\ UNCHANGED <<setting, client, sock, relay, opener, rf, phone>> /\ writer[i] = "wait"
  BY Parts DEF AwaitWrite
<1>1. OnlyAt(i) /\ writer'[i] = IF rf[i].write = "ok" THEN "done" ELSE "failed"
  BY <1>0 DEF AwaitWrite, BTTypeOK, OnlyAt
<1>2. TypesAt(i)'
  BY <1>0, <1>1 DEF TypesAt, Writers
<1>3. TargetOK(i)' /\ WriteOK(i)' /\ ClosedOK(i)' /\ (opener'[i] # "none" => rf'[i].held)
  BY <1>0, <1>1 DEF TargetOK, WriteOK, ClosedOK, PlaceOK, mode, NoData
<1>4. UpOK(i)'
  BY <1>0, <1>1 DEF UpOK, mode
<1>5. DownOK(i)'
  BY <1>0, DownSame
<1> QED BY <1>0, <1>1, <1>2, <1>3, <1>4, <1>5, StreamStep

(* A write completes, in time or late, or fails. *)
LEMMA WriteCompleteKeeps ==
    ASSUME MacInv, NEW i \in Attempts, rfcommChannelWriteComplete(i)
    PROVE  MacInv'
<1>0. /\ BTTypeOK /\ TypesAt(i) /\ PlaceOK(i) /\ RelayOK(i) /\ TargetOK(i) /\ WriteOK(i) /\ ClosedOK(i)
      /\ UpOK(i) /\ DownOK(i)
      /\ UNCHANGED <<setting, client, sock, relay, opener, writer>> /\ rf[i].inFlight # <<>>
  BY Parts DEF rfcommChannelWriteComplete
<1>1. /\ rf[i].inFlight \in Seq(Data) /\ phone[i].told \in Seq(Data) /\ phone[i].asked \in Seq(Data)
      /\ Head(rf[i].inFlight) \in Data /\ Tail(rf[i].inFlight) \in Seq(Data)
      /\ Append(phone[i].told, Head(rf[i].inFlight)) = phone[i].told \o <<Head(rf[i].inFlight)>>
      /\ Append(phone[i].told, Head(rf[i].inFlight)) \in Seq(Data)
  <2>1. rf[i].inFlight \in Seq(Data) /\ phone[i].told \in Seq(Data) /\ phone[i].asked \in Seq(Data)
    BY <1>0 DEF TypesAt, StreamRecords, Phones
  <2>2. Head(rf[i].inFlight) \in Data /\ Tail(rf[i].inFlight) \in Seq(Data)
    BY <1>0, <2>1, TakeFirst
  <2> QED BY <2>1, <2>2, Words
<1>2. OnlyAt(i)
  BY <1>0 DEF rfcommChannelWriteComplete, BTTypeOK, OnlyAt
<1>3. PICK result \in {"ok", "error"} :
        /\ rf'[i] = [rf[i] EXCEPT !.inFlight = Tail(rf[i].inFlight), !.pendingWrite = NoData, !.write = result]
        /\ result = "ok" => phone'[i] = [phone[i] EXCEPT !.told = Append(phone[i].told, Head(rf[i].inFlight))]
        /\ result = "error" => phone'[i] = phone[i]
  BY <1>0 DEF rfcommChannelWriteComplete, BTTypeOK
<1>4. rf'[i] \in StreamRecords
  <2>1. NoData \in Data
    BY DEF Data
  <2> QED BY <1>0, <1>1, <1>3, <2>1 DEF TypesAt, StreamRecords
<1>5. phone'[i] \in Phones
  BY <1>0, <1>1, <1>3 DEF TypesAt, Phones
<1>6. TypesAt(i)'
  BY <1>0, <1>4, <1>5 DEF TypesAt
<1>7. /\ rf'[i].held = rf[i].held /\ rf'[i].query = rf[i].query /\ rf'[i].pending = rf[i].pending
      /\ rf'[i].attached = rf[i].attached /\ rf'[i].write = result
      /\ rf'[i].channel = rf[i].channel /\ rf'[i].isClosed = rf[i].isClosed
      /\ rf'[i].readBuffer = rf[i].readBuffer /\ rf'[i].inFlight = Tail(rf[i].inFlight)
  BY <1>0, <1>3 DEF TypesAt, StreamRecords
<1>8. mode = "relay" => /\ Tail(rf[i].inFlight) = <<>> /\ <<Head(rf[i].inFlight)>> = rf[i].inFlight
                        /\ \/ relay[i].main = "write" /\ writer[i] \in {"wait", "failed"}
                           \/ relay[i].main = "join"
  <2>1. mode = "relay" => /\ rf[i].inFlight = <<rf[i].pendingWrite>>
                          /\ \/ relay[i].main = "write" /\ writer[i] \in {"wait", "failed"}
                             \/ relay[i].main = "join"
    BY <1>0 DEF WriteOK
  <2>2. \A x : Tail(<<x>>) = <<>> /\ Head(<<x>>) = x
    OBVIOUS
  <2> QED BY <2>1, <2>2
<1>9. TargetOK(i)' /\ WriteOK(i)' /\ ClosedOK(i)' /\ (opener'[i] # "none" => rf'[i].held)
  BY <1>0, <1>7, <1>8 DEF TargetOK, WriteOK, ClosedOK, PlaceOK, mode
<1>10. UpOK(i)'
  <2> SUFFICES ASSUME mode = "relay" PROVE UpOK(i)'
    BY <1>0 DEF UpOK, mode
  <2>0. rf'[i].inFlight = <<>>
    BY <1>7, <1>8
  <2>1. PICK rest \in Seq(Data) : phone[i].asked = (phone[i].told \o rf[i].inFlight) \o rest
    BY <1>0 DEF UpOK
  <2>2. CASE result = "ok"
    <3>1. phone'[i].told = phone[i].told \o rf[i].inFlight /\ phone'[i].asked = phone[i].asked
      BY <2>2, <1>0, <1>1, <1>3, <1>8 DEF TypesAt, Phones
    <3>2. phone'[i].told \o rf'[i].inFlight = phone[i].told \o rf[i].inFlight
      BY <3>1, <2>0, <1>1, Words
    <3> QED BY <2>2, <3>1, <3>2, <2>0, <2>1, <1>0, <1>8 DEF UpOK, mode
  <2>3. CASE result = "error"
    <3>1. phone'[i] = phone[i] /\ rf'[i].write = "error"
      BY <2>3, <1>3, <1>7
    <3>2. phone[i].told \o rf'[i].inFlight = phone[i].told /\ rf[i].inFlight \o rest \in Seq(Data)
      BY <2>0, <1>1, Words
    <3>3. phone[i].asked = phone[i].told \o (rf[i].inFlight \o rest)
      BY <2>1, <1>1, Assoc
    <3> QED BY <3>1, <3>2, <3>3, <2>0, <1>0, <1>8 DEF UpOK, mode
  <2> QED BY <2>2, <2>3
<1>11. DownOK(i)'
  <2>1. phone'[i].said = phone[i].said
    BY <1>0, <1>3 DEF TypesAt, Phones
  <2> QED BY <1>0, <1>7, <2>1, DownSame
<1> QED BY <1>0, <1>2, <1>6, <1>9, <1>10, <1>11, StreamStep

----------------------------------------------------------------------------
(* The helper. *)

(* Every part of an attempt, as a step of the helper finds it. *)
LEMMA Pieces ==
    ASSUME MacInv, NEW i \in Attempts
    PROVE  /\ client \in Clients /\ client.got \in Seq(Data) /\ client.toWrite \in Seq(Data)
           /\ sock[i].up \in Seq(Data) /\ sock[i].down \in Seq(Data)
           /\ relay[i].up \in Seq(Data) /\ relay[i].down \in Seq(Data)
           /\ rf[i].readBuffer \in Seq(Data) /\ rf[i].inFlight \in Seq(Data)
           /\ phone[i].told \in Seq(Data) /\ phone[i].asked \in Seq(Data)
           /\ Heard(i) \in Seq(Data) /\ Said(i) \in Seq(Data)
<1>1. BTTypeOK /\ TypesAt(i)
  BY Parts
<1>2. /\ client \in Clients /\ client.got \in Seq(Data) /\ client.toWrite \in Seq(Data)
      /\ sock[i].up \in Seq(Data) /\ sock[i].down \in Seq(Data)
      /\ relay[i].up \in Seq(Data) /\ relay[i].down \in Seq(Data)
      /\ rf[i].readBuffer \in Seq(Data) /\ rf[i].inFlight \in Seq(Data)
      /\ phone[i].told \in Seq(Data) /\ phone[i].asked \in Seq(Data) /\ phone[i].said \in 0 .. Len(Answers)
  BY <1>1 DEF BTTypeOK, TypesAt, Clients, Socks, Relays, StreamRecords, Phones
<1>3. Heard(i) \in Seq(Data)
  BY <1>2, TakeFirst DEF Heard
<1>4. Said(i) \in Seq(Data)
  BY <1>2, SaidWords DEF Said
<1> QED BY <1>2, <1>3, <1>4

(* A thread of the helper goes on, once the stream is open. *)
LEMMA RelayStep ==
    ASSUME MacInv, NEW i \in Attempts, OnlyAt(i), UNCHANGED client, TypesAt(i)',
           relay[i].main \in {"connecting", "poll", "write", "join"},
           relay'[i].main \in {"poll", "write", "join", "ended"},
           AttemptOK(i)'
    PROVE  MacInv'
<1>1. ASSUME i = Now PROVE ClientOK'
  <2>0. ClientOK /\ setting' = setting
    BY Parts DEF OnlyAt
  <2>1. ~At("open") /\ ~At("ask")
    BY <1>1, <2>0 DEF ClientOK
  <2> QED BY <1>1, <2>0, <2>1 DEF ClientOK, At, Now, mode
<1> QED BY <1>1, LocalStep

(* The request line is read, and the stream is made; or there is none, and no stream. *)
LEMMA ReadRequestKeeps ==
    ASSUME MacInv, NEW i \in Attempts, ReadRequest(i)
    PROVE  MacInv'
<1>0. /\ BTTypeOK /\ ClientOK /\ TypesAt(i) /\ PlaceOK(i) /\ RelayOK(i) /\ TargetOK(i) /\ WriteOK(i)
      /\ ClosedOK(i) /\ UpOK(i) /\ DownOK(i) /\ mode = "relay"
      /\ UNCHANGED <<setting, client, writer, phone>> /\ relay[i].main = "backlog"
  <2>1. setting.mode \in {"relay", "direct"}
    BY Parts, MacConstants DEF BTTypeOK
  <2> QED BY <2>1, Parts DEF ReadRequest, PlaceOK, mode
<1>1. PICK main \in {"connecting", "ended"} :
        /\ relay'[i] = [relay[i] EXCEPT !.main = main]
        /\ main = "connecting" => /\ sock[i].up # <<>> /\ sock'[i] = [sock[i] EXCEPT !.up = <<>>]
                                  /\ opener'[i] = "sdp" /\ rf'[i] = [rf[i] EXCEPT !.held = TRUE]
        /\ main = "ended" => /\ sock[i].up = <<>> /\ sock'[i] = [sock[i] EXCEPT !.helper = FALSE]
                             /\ opener'[i] = opener[i] /\ rf'[i] = rf[i]
  BY <1>0 DEF ReadRequest, Main, Opening, BTTypeOK
<1>2. OnlyAt(i) /\ writer'[i] = writer[i] /\ phone'[i] = phone[i]
  BY <1>0 DEF ReadRequest, Main, Opening, OnlyAt, BTTypeOK
<1>3. TypesAt(i)'
  <2>1. sock'[i] \in Socks
    BY <1>0, <1>1, Words DEF TypesAt, Socks
  <2>2. relay'[i] \in Relays /\ opener'[i] \in Openers
    BY <1>0, <1>1 DEF TypesAt, Relays, Openers
  <2>3. rf'[i] \in StreamRecords
    BY <1>0, <1>1 DEF TypesAt, StreamRecords
  <2> QED BY <1>0, <1>2, <2>1, <2>2, <2>3 DEF TypesAt
<1>4. /\ relay'[i].main = main /\ relay'[i].phone = relay[i].phone /\ relay'[i].up = relay[i].up
      /\ relay'[i].down = relay[i].down /\ relay'[i].isRunning = relay[i].isRunning
      /\ sock'[i].up = <<>> /\ sock'[i].down = sock[i].down /\ sock'[i].client = sock[i].client
      /\ main = "ended" => sock'[i].helper = FALSE
  BY <1>0, <1>1 DEF TypesAt, Relays, Socks
<1>5. /\ rf'[i].query = rf[i].query /\ rf'[i].pending = rf[i].pending
      /\ rf'[i].attached = rf[i].attached /\ rf'[i].write = rf[i].write
      /\ rf'[i].channel = rf[i].channel /\ rf'[i].isClosed = rf[i].isClosed
      /\ rf'[i].readBuffer = rf[i].readBuffer /\ rf'[i].inFlight = rf[i].inFlight
      /\ rf[i].held => rf'[i].held
      /\ main = "connecting" => rf'[i].held
  <2>1. CASE main = "connecting"
    BY <2>1, <1>0, <1>1 DEF TypesAt, StreamRecords
  <2>2. CASE main = "ended"
    BY <2>2, <1>1
  <2> QED BY <2>1, <2>2
<1>6. opener[i] = "none" /\ writer[i] = "idle" /\ rf[i].inFlight = <<>> /\ sock[i].down = <<>>
  BY <1>0 DEF PlaceOK, WriteOK, RelayOK
<1>7. PlaceOK(i)'
  BY <1>0, <1>1, <1>2, <1>4, <1>5, <1>6 DEF PlaceOK, mode, Now, At
<1>8. RelayOK(i)'
  BY <1>0, <1>4 DEF RelayOK
<1>9. TargetOK(i)' /\ WriteOK(i)' /\ ClosedOK(i)'
  BY <1>0, <1>1, <1>2, <1>4, <1>5, <1>6 DEF TargetOK, WriteOK, ClosedOK, mode
<1>10. UpOK(i)'
  <2>1. relay'[i].main \in {"connecting", "ended"}
    BY <1>4
  <2>2. \E rest \in Seq(Data) : phone[i].asked = (phone[i].told \o rf[i].inFlight) \o rest
    BY <1>0 DEF UpOK
  <2>3. phone[i].asked = <<>> /\ phone[i].told = <<>>
    BY <1>0 DEF UpOK
  <2> QED BY <1>0, <1>2, <1>5, <2>1, <2>2, <2>3 DEF UpOK
<1>11. DownOK(i)'
  <2>1. Said(i)' = Said(i) /\ Heard(i)' = Heard(i) /\ mode' = mode /\ Now' = Now /\ At("line")' = At("line")
    BY <1>0, <1>2, <1>4 DEF Said, Heard, mode, Now, At
  <2>2. relay'[i].phone # "ended" /\ relay'[i].main \in {"connecting", "ended"}
    BY <1>0, <1>4 DEF RelayOK
  <2> QED BY <1>0, <1>1, <1>4, <1>5, <2>1, <2>2 DEF DownOK
<1>12. ASSUME i = Now PROVE ClientOK'
  BY <1>12, <1>0, <1>1, <1>4 DEF ClientOK, At, Now, mode
<1> QED BY <1>0, <1>2, <1>3, <1>7, <1>8, <1>9, <1>10, <1>11, <1>12, LocalStep DEF AttemptOK

(* The two parts of a relay's socket and stream that a step of its threads changes. *)
LEMMA RelayMode ==
    ASSUME MacInv, NEW i \in Attempts, relay[i].main # "none"
    PROVE  mode = "relay"
<1>1. setting.mode \in {"relay", "direct"}
  BY Parts, MacConstants DEF BTTypeOK
<1> QED BY <1>1, Parts DEF PlaceOK, mode

(* RelayClient ends: the stream is destroyed, the socket closed. *)
LEMMA EndKeeps ==
    ASSUME MacInv, NEW i \in Attempts, End(i), OnlyAt(i), UNCHANGED <<client, writer, phone>>,
           opener'[i] = "none", relay[i].main \in {"connecting", "join"},
           relay[i].phone \in {"none", "ended"},
           /\ relay[i].phone = "ended" /\ relay[i].up = <<>> /\ sock[i].client
           => client.got \o Heard(i) = Said(i)
    PROVE  MacInv'
<1>0. /\ BTTypeOK /\ TypesAt(i) /\ PlaceOK(i) /\ RelayOK(i) /\ TargetOK(i) /\ WriteOK(i)
      /\ ClosedOK(i) /\ UpOK(i) /\ DownOK(i) /\ mode = "relay" /\ setting' = setting
  BY Parts, RelayMode DEF OnlyAt
<1>1. /\ relay'[i] = [relay[i] EXCEPT !.main = "ended"] /\ rf'[i] = Destroyed(rf[i])
      /\ sock'[i] = [sock[i] EXCEPT !.helper = FALSE, !.up = <<>>]
  BY <1>0 DEF End, Main, BTTypeOK
<1>2. /\ relay'[i] \in Relays /\ relay'[i].main = "ended" /\ relay'[i].phone = relay[i].phone
      /\ relay'[i].up = relay[i].up /\ relay'[i].down = relay[i].down
      /\ relay'[i].isRunning = relay[i].isRunning
  BY <1>0, <1>1 DEF TypesAt, Relays
<1>3. /\ sock'[i] \in Socks /\ sock'[i].helper = FALSE /\ sock'[i].up = <<>>
      /\ sock'[i].down = sock[i].down /\ sock'[i].client = sock[i].client
  BY <1>0, <1>1, Words DEF TypesAt, Socks
<1>4. /\ rf'[i] \in StreamRecords /\ rf'[i].isClosed = TRUE /\ rf'[i].attached = FALSE
      /\ rf'[i].inFlight = <<>> /\ rf'[i].channel \in {"none", "closed"}
      /\ rf'[i].query = rf[i].query /\ rf'[i].pending = rf[i].pending
  BY <1>0, <1>1, DestroyedStream DEF TypesAt
<1>5. TypesAt(i)'
  BY <1>0, <1>2, <1>3, <1>4 DEF TypesAt, Openers
<1>6. writer'[i] = "idle"
  BY <1>0 DEF PlaceOK
<1>7. PlaceOK(i)'
  BY <1>0, <1>2, <1>3, <1>6 DEF PlaceOK, mode, Now
<1>8a. RelayOK(i)'
  BY <1>0, <1>2, <1>3 DEF RelayOK
<1>8. TargetOK(i)' /\ WriteOK(i)' /\ ClosedOK(i)'
  BY <1>0, <1>2, <1>4, <1>6 DEF TargetOK, WriteOK, ClosedOK
<1>9. UpOK(i)'
  <2>1. PICK rest \in Seq(Data) : phone[i].asked = (phone[i].told \o rf[i].inFlight) \o rest
    BY <1>0 DEF UpOK
  <2>2. phone[i].told \in Seq(Data) /\ rf[i].inFlight \in Seq(Data)
    BY Pieces
  <2>3. rf[i].inFlight \o rest \in Seq(Data) /\ phone[i].told \o rf'[i].inFlight = phone[i].told
    BY <2>2, <1>4, Words
  <2>4. (phone[i].told \o rf[i].inFlight) \o rest = phone[i].told \o (rf[i].inFlight \o rest)
    BY <2>2, Assoc
  <2> QED BY <2>1, <2>3, <2>4, <1>2 DEF UpOK
<1>10. DownOK(i)'
  <2>1. Said(i)' = Said(i) /\ Heard(i)' = Heard(i) /\ mode' = mode /\ Now' = Now
    BY <1>0, <1>3 DEF Said, Heard, mode, Now, At
  <2> QED BY <1>0, <1>2, <1>3, <2>1 DEF DownOK
<1> QED BY <1>2, <1>5, <1>7, <1>8a, <1>8, <1>9, <1>10, RelayStep DEF AttemptOK

(* The helper answers ERR and ends. *)
LEMMA ReplyErrorKeeps ==
    ASSUME MacInv, NEW i \in Attempts, ReplyError(i)
    PROVE  MacInv'
<1>0. BTTypeOK /\ RelayOK(i)
  BY Parts
<1>1. OnlyAt(i) /\ opener'[i] = "none"
  BY <1>0 DEF ReplyError, End, Main, Opening, OnlyAt, BTTypeOK
<1>2. relay[i].main = "connecting" /\ relay[i].phone = "none" /\ End(i) /\ UNCHANGED <<client, writer, phone>>
  BY <1>0 DEF ReplyError, RelayOK
<1> QED BY <1>1, <1>2, EndKeeps

(* A relay that ends although it passed everything up: the thread for the   *)
(* other direction ended before, at the end of all that the phone said.     *)
LEMMA JoinKeeps ==
    ASSUME MacInv, NEW i \in Attempts, Join(i)
    PROVE  MacInv'
<1>0. BTTypeOK /\ TypesAt(i) /\ PlaceOK(i) /\ RelayOK(i) /\ DownOK(i) /\ mode = "relay"
  BY Parts, RelayMode DEF Join
<1>1. OnlyAt(i)
  BY <1>0 DEF Join, End, Main, OnlyAt, BTTypeOK
<1>2. /\ relay[i].main = "join" /\ relay[i].phone = "ended" /\ End(i) /\ UNCHANGED <<client, opener, writer, phone>>
      /\ opener[i] = "none" /\ ~relay[i].isRunning /\ relay[i].down = <<>>
  BY <1>0 DEF Join, PlaceOK, RelayOK
<1>3. ASSUME relay[i].up = <<>>, sock[i].client
      PROVE  client.got \o Heard(i) = Said(i)
  <2>1. rf[i].readBuffer = <<>> /\ Said(i) = (client.got \o Heard(i)) \o (relay[i].down \o rf[i].readBuffer)
    BY <1>0, <1>2, <1>3 DEF DownOK
  <2>2. PICK g \in Seq(Data) : g = client.got \o Heard(i)
    BY Pieces, Words
  <2>3. relay[i].down \o rf[i].readBuffer = <<>> /\ g \o <<>> = g
    BY <1>2, <2>1, Words
  <2> QED BY <2>1, <2>2, <2>3
<1> QED BY <1>1, <1>2, <1>3, EndKeeps

(* OK is the first that goes down: what the phone said by then is still in the delegate. *)
LEMMA ReplyOKKeeps ==
    ASSUME MacInv, NEW i \in Attempts, ReplyOK(i)
    PROVE  MacInv'
<1>0. /\ BTTypeOK /\ ClientOK /\ TypesAt(i) /\ PlaceOK(i) /\ RelayOK(i) /\ TargetOK(i) /\ WriteOK(i)
      /\ ClosedOK(i) /\ UpOK(i) /\ DownOK(i) /\ mode = "relay"
      /\ UNCHANGED <<setting, client, writer, phone>> /\ relay[i].main = "connecting"
  BY Parts, RelayMode DEF ReplyOK
<1>1. OnlyAt(i) /\ opener'[i] = "none" /\ writer'[i] = writer[i] /\ phone'[i] = phone[i]
  BY <1>0 DEF ReplyOK, End, Main, Opening, OnlyAt, BTTypeOK
<1>2. CASE ~sock[i].client
  BY <1>0, <1>1, <1>2, EndKeeps DEF ReplyOK, RelayOK
<1>3. CASE sock[i].client
  <2>1. /\ sock'[i] = [sock[i] EXCEPT !.down = <<"OK">>] /\ rf'[i] = rf[i]
        /\ relay'[i] = [relay[i] EXCEPT !.main = "poll", !.phone = "read"]
    BY <1>0, <1>3 DEF ReplyOK, BTTypeOK
  <2>2. /\ relay'[i] \in Relays /\ relay'[i].main = "poll" /\ relay'[i].phone = "read"
        /\ relay'[i].up = relay[i].up /\ relay'[i].down = relay[i].down
        /\ relay'[i].isRunning = relay[i].isRunning
    BY <1>0, <2>1 DEF TypesAt, Relays
  <2>3. "OK" \in Data /\ <<"OK">> \in Seq(Data) /\ <<"OK">> # <<>> /\ Tail(<<"OK">>) = <<>>
    <3>1. "OK" \in Data
      BY DEF Data
    <3> QED BY <3>1, Words
  <2>4. /\ sock'[i] \in Socks /\ sock'[i].helper = sock[i].helper /\ sock'[i].up = sock[i].up
        /\ sock'[i].down = <<"OK">> /\ sock'[i].client = sock[i].client
    BY <1>0, <2>1, <2>3 DEF TypesAt, Socks
  <2>5. TypesAt(i)'
    BY <1>0, <1>1, <2>1, <2>2, <2>4 DEF TypesAt, Openers
  <2>6. i = Now /\ At("line")
    <3>1. i = Now /\ client.pc \notin {"open", "connecting", "failed", "ended", "dead"}
      BY <1>0, <1>3 DEF PlaceOK
    <3>2. client.pc \notin {"ask", "send", "close", "read", "after", "thrown", "closing"}
      BY <1>0, <3>1 DEF ClientOK, At
    <3> QED BY <1>0, <3>1, <3>2 DEF BTTypeOK, Clients, At
  <2>7. writer[i] = "idle" /\ rf[i].inFlight = <<>> /\ sock[i].down = <<>> /\ sock[i].up = <<>>
        /\ relay[i].up = <<>> /\ relay[i].isRunning
    BY <1>0 DEF PlaceOK, WriteOK, RelayOK
  <2>8. PlaceOK(i)'
    BY <1>0, <1>1, <1>3, <2>2, <2>4, <2>6, <2>7 DEF PlaceOK, mode, Now, At
  <2>9. RelayOK(i)' /\ TargetOK(i)' /\ WriteOK(i)' /\ ClosedOK(i)'
    BY <1>0, <1>1, <2>1, <2>2, <2>4, <2>7 DEF RelayOK, TargetOK, WriteOK, ClosedOK, mode
  <2>10. UpOK(i)'
    <3>1. phone[i].asked = <<>> /\ phone[i].told = <<>> /\ <<>> \o <<>> = <<>>
      BY <1>0, Words DEF UpOK
    <3>2. \E rest \in Seq(Data) : phone[i].asked = (phone[i].told \o rf[i].inFlight) \o rest
      BY <1>0 DEF UpOK
    <3> QED BY <1>1, <2>1, <2>2, <2>4, <2>7, <3>1, <3>2 DEF UpOK
  <2>11. DownOK(i)'
    <3>1. Heard(i)' = <<>> /\ Heard(i) = <<>>
      BY <1>0, <2>3, <2>4, <2>6, <2>7 DEF Heard, At
    <3>2. Said(i)' = Said(i) /\ mode' = mode /\ Now' = Now
      BY <1>0, <1>1 DEF Said, mode, Now
    <3>3. /\ \E rest \in Seq(Data) : Said(i) = (client.got \o Heard(i)) \o rest
          /\ Said(i) = (client.got \o Heard(i)) \o (relay[i].down \o rf[i].readBuffer)
      BY <1>0, <1>3, <2>6 DEF DownOK
    <3>4. Heard(i)' = Heard(i)
      BY <3>1
    <3> QED BY <1>0, <2>1, <2>2, <2>3, <2>4, <2>7, <3>2, <3>3, <3>4 DEF DownOK
  <2> QED BY <1>0, <1>1, <2>2, <2>5, <2>8, <2>9, <2>10, <2>11, RelayStep DEF AttemptOK
<1> QED BY <1>2, <1>3

(* What is read from the socket is the first of what waits there, some of it. *)
LEMMA SplitWords ==
    ASSUME NEW s \in Seq(Data), NEW n \in 1 .. Len(s)
    PROVE  /\ SubSeq(s, 1, n) \in Seq(Data) /\ SubSeq(s, 1, n) # <<>> /\ SubSeq(s, n + 1, Len(s)) \in Seq(Data)
           /\ SubSeq(s, 1, n) \o SubSeq(s, n + 1, Len(s)) = s
<1>1. Len(s) \in Nat /\ \A k \in 1 .. Len(s) : s[k] \in Data
  BY LenProperties, ElementOfSeq
<1>2. SubSeq(s, 1, n) \in Seq(Data) /\ Len(SubSeq(s, 1, n)) = n
  <2>1. \A k \in 1 .. n : s[k] \in Data
    BY <1>1
  <2> QED BY <1>1, <2>1, SubSeqProperties
<1>3. SubSeq(s, n + 1, Len(s)) \in Seq(Data)
  <2>1. \A k \in n + 1 .. Len(s) : s[k] \in Data
    BY <1>1
  <2> QED BY <1>1, <2>1, SubSeqProperties
<1>4. SubSeq(s, 1, n) \o SubSeq(s, n + 1, Len(s)) = SubSeq(s, 1, Len(s))
  <2>1. 1 \in 1 .. Len(s) + 1 /\ n \in 1 - 1 .. Len(s) /\ Len(s) \in n .. Len(s)
    BY <1>1
  <2> QED BY <2>1, ConcatAdjacentSubSeq
<1>5. SubSeq(s, 1, Len(s)) = s
  BY SubSeqFull
<1>6. SubSeq(s, 1, n) # <<>>
  <2>1. Len(<<>>) # n
    BY EmptySeq
  <2> QED BY <1>2, <2>1
<1>7. SubSeq(s, 1, n) \o SubSeq(s, n + 1, Len(s)) = s
  BY <1>4, <1>5, Zenon
<1> QED BY <1>2, <1>3, <1>6, <1>7, Zenon

(* A relay that leaves its loop goes on to join the other thread. *)
LEMMA LeaveKeeps ==
    ASSUME MacInv, NEW i \in Attempts, OnlyAt(i), Leave(i),
           UNCHANGED <<client, sock, opener, rf, phone>>, writer'[i] = "idle",
           relay[i].main \in {"poll", "write"},
           sock[i].client => ~relay[i].isRunning \/ relay[i].up # <<>>
    PROVE  MacInv'
<1>0. /\ BTTypeOK /\ TypesAt(i) /\ PlaceOK(i) /\ RelayOK(i) /\ TargetOK(i) /\ WriteOK(i)
      /\ ClosedOK(i) /\ UpOK(i) /\ DownOK(i) /\ mode = "relay" /\ setting' = setting
  BY Parts, RelayMode DEF OnlyAt
<1>1. relay'[i] = [relay[i] EXCEPT !.main = "join", !.isRunning = FALSE]
  BY <1>0 DEF Leave, BTTypeOK
<1>2. /\ relay'[i] \in Relays /\ relay'[i].main = "join" /\ relay'[i].phone = relay[i].phone
      /\ relay'[i].up = relay[i].up /\ relay'[i].down = relay[i].down
      /\ relay'[i].isRunning = FALSE
  BY <1>0, <1>1 DEF TypesAt, Relays
<1>3. TypesAt(i)'
  BY <1>0, <1>2 DEF TypesAt, Writers
<1>4. PlaceOK(i)'
  BY <1>0, <1>2 DEF PlaceOK, mode, Now
<1>5. RelayOK(i)'
  BY <1>0, <1>2 DEF RelayOK
<1>6. TargetOK(i)' /\ WriteOK(i)' /\ ClosedOK(i)'
  BY <1>0, <1>2 DEF TargetOK, WriteOK, ClosedOK, mode
<1>7. UpOK(i)'
  BY <1>0, <1>2 DEF UpOK, mode
<1>8. DownOK(i)'
  <2>1. Said(i)' = Said(i) /\ Heard(i)' = Heard(i) /\ mode' = mode /\ Now' = Now /\ At("line")' = At("line")
    BY <1>0 DEF Said, Heard, mode, Now, At
  <2> QED BY <1>0, <1>2, <2>1 DEF DownOK
<1> QED BY <1>2, <1>3, <1>4, <1>5, <1>6, <1>7, <1>8, RelayStep DEF AttemptOK

(* The helper reads some of what the client sent, or leaves its loop. *)
LEMMA PollKeeps ==
    ASSUME MacInv, NEW i \in Attempts, Poll(i)
    PROVE  MacInv'
<1>0. /\ BTTypeOK /\ TypesAt(i) /\ PlaceOK(i) /\ RelayOK(i) /\ TargetOK(i) /\ WriteOK(i)
      /\ ClosedOK(i) /\ UpOK(i) /\ DownOK(i) /\ mode = "relay" /\ setting' = setting
      /\ UNCHANGED <<client, opener, writer, rf, phone>> /\ relay[i].main = "poll"
  BY Parts, RelayMode DEF Poll
<1>1. writer[i] = "idle" /\ rf[i].inFlight = <<>>
  BY <1>0 DEF PlaceOK, WriteOK
<1>2. CASE Leave(i) /\ UNCHANGED sock /\ (sock[i].client => ~relay[i].isRunning)
  <2>1. OnlyAt(i)
    BY <1>0, <1>2 DEF Poll, Leave, OnlyAt, BTTypeOK
  <2> QED BY <1>0, <1>1, <1>2, <2>1, LeaveKeeps
<1>3. ASSUME NEW n \in 1 .. Len(sock[i].up),
             sock' = [sock EXCEPT ![i].up = SubSeq(@, n + 1, Len(@))],
             relay' = [relay EXCEPT ![i].main = "write", ![i].up = SubSeq(sock[i].up, 1, n)]
      PROVE  MacInv'
  <2>1. PICK first \in Seq(Data), rest \in Seq(Data) :
           /\ first # <<>> /\ first \o rest = sock[i].up
           /\ first = SubSeq(sock[i].up, 1, n) /\ rest = SubSeq(sock[i].up, n + 1, Len(sock[i].up))
    BY Pieces, SplitWords
  <2>2. sock'[i] = [sock[i] EXCEPT !.up = rest] /\ sock' = [sock EXCEPT ![i] = sock'[i]]
    BY <1>0, <1>3, <2>1 DEF BTTypeOK
  <2>3. /\ relay'[i] = [relay[i] EXCEPT !.main = "write", !.up = first]
        /\ relay' = [relay EXCEPT ![i] = relay'[i]]
    BY <1>0, <1>3, <2>1 DEF BTTypeOK
  <2>4. OnlyAt(i)
    BY <1>0, <2>2, <2>3 DEF OnlyAt, Poll, BTTypeOK
  <2>5. /\ relay'[i] \in Relays /\ relay'[i].main = "write" /\ relay'[i].phone = relay[i].phone
        /\ relay'[i].up = first /\ relay'[i].down = relay[i].down
        /\ relay'[i].isRunning = relay[i].isRunning
    BY <1>0, <2>3 DEF TypesAt, Relays
  <2>6. /\ sock'[i] \in Socks /\ sock'[i].helper = sock[i].helper /\ sock'[i].up = rest
        /\ sock'[i].down = sock[i].down /\ sock'[i].client = sock[i].client
    BY <1>0, <2>2 DEF TypesAt, Socks
  <2>7. TypesAt(i)'
    BY <1>0, <2>5, <2>6 DEF TypesAt
  <2>8. PlaceOK(i)'
    BY <1>0, <2>5, <2>6 DEF PlaceOK, mode, Now
  <2>9. RelayOK(i)'
    BY <1>0, <2>1, <2>5, <2>6 DEF RelayOK
  <2>10. TargetOK(i)' /\ WriteOK(i)' /\ ClosedOK(i)'
    BY <1>0, <1>1, <2>5 DEF TargetOK, WriteOK, ClosedOK, mode
  <2>11. UpOK(i)'
    <3>1. phone[i].asked = phone[i].told \o (first \o rest)
      BY <1>0, <2>1 DEF UpOK
    <3>2. \E r \in Seq(Data) : phone[i].asked = (phone[i].told \o rf[i].inFlight) \o r
      BY <1>0 DEF UpOK
    <3> QED BY <1>0, <1>1, <2>5, <2>6, <3>1, <3>2 DEF UpOK
  <2>12. DownOK(i)'
    <3>1. Said(i)' = Said(i) /\ Heard(i)' = Heard(i) /\ mode' = mode /\ Now' = Now /\ At("line")' = At("line")
      BY <1>0, <2>6 DEF Said, Heard, mode, Now, At
    <3> QED BY <1>0, <2>5, <2>6, <3>1 DEF DownOK
  <2> QED BY <1>0, <2>4, <2>5, <2>7, <2>8, <2>9, <2>10, <2>11, <2>12, RelayStep DEF AttemptOK
<1> QED BY <1>0, <1>2, <1>3 DEF Poll

(* WriteRaw of the next chunk begins; it is done, and the next comes; or it failed. *)
LEMMA PassUpKeeps ==
    ASSUME MacInv, NEW i \in Attempts, PassUp(i)
    PROVE  MacInv'
<1>0. /\ BTTypeOK /\ TypesAt(i) /\ PlaceOK(i) /\ RelayOK(i) /\ TargetOK(i) /\ WriteOK(i)
      /\ ClosedOK(i) /\ UpOK(i) /\ DownOK(i) /\ mode = "relay" /\ setting' = setting
      /\ UNCHANGED <<client, sock, opener, phone>> /\ relay[i].main = "write"
      /\ relay[i].up # <<>> /\ relay[i].up \in Seq(Data)
  BY Parts, Pieces, RelayMode DEF PassUp, RelayOK
<1>1. CASE BeginWrite(i) /\ UNCHANGED relay
  <2>1. writer[i] = "idle" /\ rf[i].inFlight = <<>>
    BY <1>0, <1>1 DEF BeginWrite, WriteOK
  <2>2. OnlyAt(i)
    BY <1>0, <1>1 DEF BeginWrite, PassUp, OnlyAt, BTTypeOK
  <2>3. \/ writer'[i] = "failed" /\ rf'[i] = rf[i]
        \/ writer'[i] = "submit" /\ rf'[i] = [rf[i] EXCEPT !.write = NoData]
    BY <1>0, <1>1 DEF BeginWrite, BTTypeOK
  <2>4. /\ rf'[i] \in StreamRecords /\ rf'[i].held = rf[i].held /\ rf'[i].query = rf[i].query
        /\ rf'[i].pending = rf[i].pending /\ rf'[i].attached = rf[i].attached
        /\ rf'[i].channel = rf[i].channel /\ rf'[i].isClosed = rf[i].isClosed
        /\ rf'[i].readBuffer = rf[i].readBuffer /\ rf'[i].inFlight = rf[i].inFlight
        /\ writer'[i] = "submit" => rf'[i].write = NoData
    BY <1>0, <2>3 DEF TypesAt, StreamRecords
  <2>5. TypesAt(i)'
    BY <1>0, <1>1, <2>3, <2>4 DEF TypesAt, Writers
  <2>6. PlaceOK(i)'
    BY <1>0, <1>1, <2>4 DEF PlaceOK, mode, Now
  <2>7. RelayOK(i)'
    BY <1>0, <1>1 DEF RelayOK
  <2>8. TargetOK(i)' /\ WriteOK(i)' /\ ClosedOK(i)'
    BY <1>0, <1>1, <2>1, <2>4 DEF TargetOK, WriteOK, ClosedOK, mode
  <2>9. UpOK(i)'
    BY <1>0, <1>1, <2>1, <2>3, <2>4 DEF UpOK, mode
  <2>10. DownOK(i)'
    BY <1>0, <1>1, <2>4, DownSame
  <2> QED BY <1>0, <1>1, <2>2, <2>5, <2>6, <2>7, <2>8, <2>9, <2>10, RelayStep DEF AttemptOK
<1>2. CASE writer[i] = "done" /\ writer' = [writer EXCEPT ![i] = "idle"] /\ NextChunk(i) /\ UNCHANGED rf
  <2>1. PICK main \in {"poll", "write"} :
          /\ relay'[i] = [relay[i] EXCEPT !.up = Tail(relay[i].up), !.main = main]
          /\ main = "poll" <=> Len(relay[i].up) = 1
    <3>1. relay'[i] = [relay[i] EXCEPT !.up = Tail(relay[i].up), !.main = IF Len(relay[i].up) = 1 THEN "poll" ELSE @]
      BY <1>0, <1>2 DEF NextChunk, BTTypeOK
    <3>2. CASE Len(relay[i].up) = 1
      BY <3>1, <3>2
    <3>3. CASE Len(relay[i].up) # 1
      <4>1. relay'[i] = [relay[i] EXCEPT !.up = Tail(relay[i].up), !.main = "write"]
        BY <1>0, <3>1, <3>3 DEF TypesAt, Relays
      <4> QED BY <4>1, <3>3
    <3> QED BY <3>2, <3>3
  <2>2. Tail(relay[i].up) \in Seq(Data) /\ (Tail(relay[i].up) = <<>> <=> main = "poll")
    <3>1. Tail(relay[i].up) \in Seq(Data) /\ Len(Tail(relay[i].up)) = Len(relay[i].up) - 1
      BY <1>0, HeadTailProperties
    <3>2. Tail(relay[i].up) = <<>> <=> Len(Tail(relay[i].up)) = 0
      BY <3>1, EmptySeq
    <3>3. Len(relay[i].up) \in Nat
      BY <1>0, LenProperties
    <3> QED BY <2>1, <3>1, <3>2, <3>3
  <2>3. /\ OnlyAt(i) /\ writer'[i] = "idle"
    BY <1>0, <1>2 DEF PassUp, NextChunk, OnlyAt, BTTypeOK
  <2>4. /\ relay'[i] \in Relays /\ relay'[i].main = main /\ relay'[i].phone = relay[i].phone
        /\ relay'[i].up = Tail(relay[i].up) /\ relay'[i].down = relay[i].down
        /\ relay'[i].isRunning = relay[i].isRunning
    BY <1>0, <2>1, <2>2 DEF TypesAt, Relays
  <2>5. TypesAt(i)'
    BY <1>0, <1>2, <2>3, <2>4 DEF TypesAt, Writers
  <2>6. PlaceOK(i)'
    BY <1>0, <2>3, <2>4, <1>2 DEF PlaceOK, mode, Now
  <2>7. RelayOK(i)'
    BY <1>0, <2>2, <2>4 DEF RelayOK
  <2>8. rf[i].inFlight = <<>>
    BY <1>0, <1>2 DEF WriteOK
  <2>9. TargetOK(i)' /\ WriteOK(i)' /\ ClosedOK(i)'
    BY <1>0, <1>2, <2>3, <2>4, <2>8 DEF TargetOK, WriteOK, ClosedOK, mode
  <2>10. UpOK(i)'
    <3>1. phone[i].asked = (phone[i].told \o rf[i].inFlight) \o (Tail(relay[i].up) \o sock[i].up)
      BY <1>0, <1>2 DEF UpOK
    <3>2. \E r \in Seq(Data) : phone[i].asked = (phone[i].told \o rf[i].inFlight) \o r
      BY <1>0 DEF UpOK
    <3>3. phone[i].told \o rf[i].inFlight = phone[i].told
      BY Pieces, <2>8, Words
    <3>4. main = "poll" => Tail(relay[i].up) \o sock[i].up = sock[i].up
      <4>1. sock[i].up \in Seq(Data)
        BY Pieces
      <4>2. <<>> \o sock[i].up = sock[i].up
        BY <4>1, Words
      <4> QED BY <2>2, <4>2
    <3> QED BY <1>0, <1>2, <2>3, <2>4, <3>1, <3>2, <3>3, <3>4 DEF UpOK
  <2>11. DownOK(i)'
    <3>1. Said(i)' = Said(i) /\ Heard(i)' = Heard(i) /\ mode' = mode /\ Now' = Now /\ At("line")' = At("line")
      BY <1>0 DEF Said, Heard, mode, Now, At
    <3> QED BY <1>0, <1>2, <2>4, <3>1 DEF DownOK
  <2> QED BY <1>0, <2>3, <2>4, <2>5, <2>6, <2>7, <2>9, <2>10, <2>11, RelayStep DEF AttemptOK
<1>3. CASE writer[i] = "failed" /\ writer' = [writer EXCEPT ![i] = "idle"] /\ Leave(i) /\ UNCHANGED rf
  <2>1. OnlyAt(i) /\ writer'[i] = "idle"
    BY <1>0, <1>3 DEF PassUp, Leave, OnlyAt, BTTypeOK
  <2> QED BY <1>0, <1>3, <2>1, LeaveKeeps
<1> QED BY <1>1, <1>2, <1>3 DEF PassUp

(* The other thread: it takes all that was received, or ends when there is   *)
(* nothing left of a closed stream, or when it is told to.                   *)
LEMMA ReadPhoneKeeps ==
    ASSUME MacInv, NEW i \in Attempts, ReadPhone(i)
    PROVE  MacInv'
<1>0a. relay[i].phone = "read" /\ relay[i].main \in {"poll", "write", "join"} /\ relay[i].down = <<>>
  BY Parts DEF ReadPhone, RelayOK
<1>0. /\ BTTypeOK /\ TypesAt(i) /\ PlaceOK(i) /\ RelayOK(i) /\ TargetOK(i) /\ WriteOK(i)
      /\ ClosedOK(i) /\ UpOK(i) /\ DownOK(i) /\ mode = "relay" /\ setting' = setting
      /\ UNCHANGED <<client, sock, opener, writer, phone>>
  BY Parts, RelayMode, <1>0a DEF ReadPhone
<1>1. OnlyAt(i)
  BY <1>0 DEF ReadPhone, OnlyAt, BTTypeOK
<1>2. CASE /\ rf[i].readBuffer # <<>> /\ relay[i].isRunning
           /\ relay' = [relay EXCEPT ![i].phone = "pass", ![i].down = rf[i].readBuffer]
           /\ rf' = [rf EXCEPT ![i].readBuffer = <<>>]
  <2>1. /\ relay'[i] = [relay[i] EXCEPT !.phone = "pass", !.down = rf[i].readBuffer]
        /\ rf'[i] = [rf[i] EXCEPT !.readBuffer = <<>>]
    BY <1>0, <1>2 DEF BTTypeOK
  <2>2. /\ relay'[i] \in Relays /\ relay'[i].main = relay[i].main /\ relay'[i].phone = "pass"
        /\ relay'[i].up = relay[i].up /\ relay'[i].down = rf[i].readBuffer
        /\ relay'[i].isRunning = relay[i].isRunning
    <3>1. rf[i].readBuffer \in Seq(Data)
      BY Pieces
    <3> QED BY <1>0, <2>1, <3>1 DEF TypesAt, Relays
  <2>3. /\ rf'[i] \in StreamRecords /\ rf'[i].held = rf[i].held /\ rf'[i].query = rf[i].query
        /\ rf'[i].pending = rf[i].pending /\ rf'[i].attached = rf[i].attached
        /\ rf'[i].channel = rf[i].channel /\ rf'[i].isClosed = rf[i].isClosed
        /\ rf'[i].write = rf[i].write /\ rf'[i].inFlight = rf[i].inFlight
        /\ rf'[i].pendingWrite = rf[i].pendingWrite /\ rf'[i].readBuffer = <<>>
    <3>1. <<>> \in Seq(Data)
      BY Words
    <3> QED BY <1>0, <2>1, <3>1 DEF TypesAt, StreamRecords
  <2>4. TypesAt(i)'
    BY <1>0, <2>2, <2>3 DEF TypesAt
  <2>5. PlaceOK(i)'
    BY <1>0, <2>2, <2>3 DEF PlaceOK, mode, Now
  <2>6. RelayOK(i)'
    BY <1>0, <1>0a, <2>2 DEF RelayOK
  <2>7. TargetOK(i)' /\ WriteOK(i)' /\ ClosedOK(i)'
    BY <1>0, <2>2, <2>3 DEF TargetOK, WriteOK, ClosedOK, mode
  <2>8. UpOK(i)'
    BY <1>0, <2>2, <2>3 DEF UpOK, mode
  <2>9. DownOK(i)'
    <3>1. Said(i)' = Said(i) /\ Heard(i)' = Heard(i) /\ mode' = mode /\ Now' = Now /\ At("line")' = At("line")
      BY <1>0 DEF Said, Heard, mode, Now, At
    <3>2. relay'[i].down \o rf'[i].readBuffer = relay[i].down \o rf[i].readBuffer
      <4>1. rf[i].readBuffer \o <<>> = rf[i].readBuffer /\ <<>> \o rf[i].readBuffer = rf[i].readBuffer
        BY Pieces, Words
      <4> QED BY <4>1, <1>0a, <2>2, <2>3
    <3>3. relay'[i].isRunning = TRUE /\ relay'[i].main # "ended"
      BY <1>0, <1>0a, <1>2, <2>2 DEF TypesAt, Relays
    <3> QED BY <1>0, <2>2, <2>3, <3>1, <3>2, <3>3 DEF DownOK
  <2> QED BY <1>0, <1>0a, <1>1, <2>2, <2>4, <2>5, <2>6, <2>7, <2>8, <2>9, RelayStep DEF AttemptOK
<1>3. CASE /\ ~relay[i].isRunning \/ (rf[i].readBuffer = <<>> /\ (rf[i].isClosed \/ IsStopped(i)))
           /\ relay' = [relay EXCEPT ![i].phone = "ended", ![i].isRunning = FALSE]
           /\ UNCHANGED rf
  <2>1. relay'[i] = [relay[i] EXCEPT !.phone = "ended", !.isRunning = FALSE]
    BY <1>0, <1>3 DEF BTTypeOK
  <2>2. /\ relay'[i] \in Relays /\ relay'[i].main = relay[i].main /\ relay'[i].phone = "ended"
        /\ relay'[i].up = relay[i].up /\ relay'[i].down = relay[i].down
        /\ relay'[i].isRunning = FALSE
    BY <1>0, <2>1 DEF TypesAt, Relays
  <2>3. TypesAt(i)'
    BY <1>0, <1>3, <2>2 DEF TypesAt
  <2>4. PlaceOK(i)' /\ RelayOK(i)'
    BY <1>0, <1>0a, <1>3, <2>2 DEF PlaceOK, RelayOK, mode, Now
  <2>5. TargetOK(i)' /\ WriteOK(i)' /\ ClosedOK(i)'
    BY <1>0, <1>3, <2>2 DEF TargetOK, WriteOK, ClosedOK, mode
  <2>6. UpOK(i)'
    BY <1>0, <1>3, <2>2 DEF UpOK, mode
  <2>7. DownOK(i)'
    <3>1. Said(i)' = Said(i) /\ Heard(i)' = Heard(i) /\ mode' = mode /\ Now' = Now /\ At("line")' = At("line")
      BY <1>0 DEF Said, Heard, mode, Now, At
    <3>2. relay[i].isRunning => rf[i].readBuffer = <<>> /\ rf[i].isClosed
      BY <1>0, <1>3 DEF IsStopped
    <3> QED BY <1>0, <1>0a, <1>3, <2>2, <3>1, <3>2 DEF DownOK
  <2> QED BY <1>0, <1>0a, <1>1, <2>2, <2>3, <2>4, <2>5, <2>6, <2>7, RelayStep DEF AttemptOK
<1> QED BY <1>2, <1>3 DEF ReadPhone, Read

(* It passes that on, or ends when the client has gone. *)
LEMMA PassDownKeeps ==
    ASSUME MacInv, NEW i \in Attempts, PassDown(i)
    PROVE  MacInv'
<1>0a. relay[i].phone = "pass" /\ relay[i].main \in {"poll", "write", "join"}
  BY Parts DEF PassDown, RelayOK
<1>0. /\ BTTypeOK /\ TypesAt(i) /\ PlaceOK(i) /\ RelayOK(i) /\ TargetOK(i) /\ WriteOK(i)
      /\ ClosedOK(i) /\ UpOK(i) /\ DownOK(i) /\ mode = "relay" /\ setting' = setting
      /\ UNCHANGED <<client, opener, writer, rf, phone>>
  BY Parts, RelayMode, <1>0a DEF PassDown
<1>0b. /\ sock[i].down \in Seq(Data) /\ relay[i].down \in Seq(Data) /\ rf[i].readBuffer \in Seq(Data)
       /\ client.got \in Seq(Data) /\ Heard(i) \in Seq(Data) /\ <<>> \in Seq(Data)
  BY Pieces, EmptySeq
<1>1. OnlyAt(i)
  BY <1>0 DEF PassDown, OnlyAt, BTTypeOK
<1>2. PICK pass \in {"read", "ended"} :
        /\ pass = "read" <=> sock[i].client
        /\ relay'[i] = IF pass = "read" THEN [relay[i] EXCEPT !.phone = "read", !.down = <<>>]
                       ELSE [relay[i] EXCEPT !.phone = "ended", !.isRunning = FALSE, !.down = <<>>]
        /\ sock'[i] = IF pass = "read" THEN [sock[i] EXCEPT !.down = sock[i].down \o relay[i].down] ELSE sock[i]
  BY <1>0 DEF PassDown, BTTypeOK
<1>3. /\ relay'[i] \in Relays /\ relay'[i].main = relay[i].main /\ relay'[i].phone = pass
      /\ relay'[i].up = relay[i].up /\ relay'[i].down = <<>>
      /\ pass = "read" => relay'[i].isRunning = relay[i].isRunning
      /\ pass = "ended" => relay'[i].isRunning = FALSE
  <2>1. <<>> \in Seq(Data)
    BY Words
  <2>2. CASE pass = "read"
    <3>1. relay'[i] = [relay[i] EXCEPT !.phone = "read", !.down = <<>>]
      BY <1>2, <2>2
    <3> QED BY <1>0, <2>1, <2>2, <3>1 DEF TypesAt, Relays
  <2>3. CASE pass = "ended"
    <3>1. relay'[i] = [relay[i] EXCEPT !.phone = "ended", !.isRunning = FALSE, !.down = <<>>]
      BY <1>2, <2>3
    <3> QED BY <1>0, <2>1, <2>3, <3>1 DEF TypesAt, Relays
  <2> QED BY <2>2, <2>3
<1>4. /\ sock'[i] \in Socks /\ sock'[i].helper = sock[i].helper /\ sock'[i].up = sock[i].up
      /\ sock'[i].client = sock[i].client
      /\ sock'[i].down = IF pass = "read" THEN sock[i].down \o relay[i].down ELSE sock[i].down
  <2>1. sock[i].down \o relay[i].down \in Seq(Data)
    BY <1>0b, Joined
  <2> QED BY <1>0, <1>2, <2>1 DEF TypesAt, Socks
<1>5. TypesAt(i)'
  BY <1>0, <1>3, <1>4 DEF TypesAt
<1>6. PlaceOK(i)'
  BY <1>0, <1>2, <1>3, <1>4 DEF PlaceOK, mode, Now
<1>7. RelayOK(i)'
  BY <1>0, <1>0a, <1>2, <1>3, <1>4 DEF RelayOK
<1>8. TargetOK(i)' /\ WriteOK(i)' /\ ClosedOK(i)'
  BY <1>0, <1>3 DEF TargetOK, WriteOK, ClosedOK, mode
<1>9. UpOK(i)'
  BY <1>0, <1>3, <1>4 DEF UpOK, mode
<1>10. DownOK(i)'
  <2>1. Said(i)' = Said(i) /\ mode' = mode /\ Now' = Now /\ At("line")' = At("line")
    BY <1>0 DEF Said, mode, Now, At
  <2>2. CASE pass = "ended"
    <3>1. Heard(i)' = Heard(i) /\ ~sock'[i].client /\ ~sock[i].client
      BY <1>0, <1>2, <1>4, <2>2 DEF Heard, At
    <3> QED BY <1>0, <1>0a, <1>3, <2>1, <3>1 DEF DownOK
  <2>3. CASE pass = "read"
    <3>0. /\ sock[i].client /\ i = Now
          /\ Said(i) = (client.got \o Heard(i)) \o (relay[i].down \o rf[i].readBuffer)
          /\ At("line") => sock[i].down # <<>>
          /\ ~relay[i].isRunning => relay[i].main = "join" /\ relay[i].up # <<>>
      <4>1. sock[i].client /\ i = Now
        BY <1>0, <1>2, <2>3 DEF PlaceOK
      <4> QED BY <1>0, <1>0a, <4>1 DEF DownOK
    <3>1. Heard(i)' = Heard(i) \o relay[i].down
      <4>1. sock'[i].down = sock[i].down \o relay[i].down
        BY <1>4, <2>3
      <4>2. CASE At("line")
        <5>1. /\ sock[i].down \o relay[i].down # <<>>
              /\ Tail(sock[i].down \o relay[i].down) = Tail(sock[i].down) \o relay[i].down
          BY <1>0b, <3>0, <4>2, TailOfTwo
        <5> QED BY <2>1, <3>0, <4>1, <4>2, <5>1 DEF Heard
      <4>3. CASE ~At("line")
        BY <2>1, <4>1, <4>3 DEF Heard
      <4> QED BY <4>2, <4>3
    <3>2. /\ (client.got \o (Heard(i) \o relay[i].down)) \o rf[i].readBuffer
             = (client.got \o Heard(i)) \o (relay[i].down \o rf[i].readBuffer)
          /\ <<>> \o rf[i].readBuffer = rf[i].readBuffer
      <4>1. PICK g \in Seq(Data), h \in Seq(Data), d \in Seq(Data), r \in Seq(Data) :
              g = client.got /\ h = Heard(i) /\ d = relay[i].down /\ r = rf[i].readBuffer
        BY <1>0b
      <4>2. (g \o (h \o d)) \o r = (g \o h) \o (d \o r)
        <5>1. PICK w \in Seq(Data) : w = g \o h
          BY Joined
        <5>2. (g \o h) \o d = g \o (h \o d)
          BY Assoc
        <5>3. (w \o d) \o r = w \o (d \o r)
          BY Assoc
        <5> QED BY <5>1, <5>2, <5>3
      <4>3. <<>> \o r = r
        BY Words
      <4> QED BY <4>1, <4>2, <4>3
    <3>3. relay[i].down \o rf[i].readBuffer \in Seq(Data) /\ <<>> \o rf[i].readBuffer \in Seq(Data)
      BY <1>0b, Joined
    <3>4. Said(i)' = (client.got \o Heard(i)') \o (<<>> \o rf[i].readBuffer)
      BY <2>1, <3>0, <3>1, <3>2
    <3>5. At("line") => sock'[i].down # <<>>
      <4> SUFFICES ASSUME At("line") PROVE sock'[i].down # <<>>
        OBVIOUS
      <4>1. sock[i].down \o relay[i].down # <<>>
        BY <1>0b, <3>0, TailOfTwo
      <4> QED BY <1>4, <2>3, <4>1
    <3> QED BY <1>0, <1>0a, <1>3, <1>4, <2>1, <2>3, <3>0, <3>3, <3>4, <3>5 DEF DownOK
  <2> QED BY <2>2, <2>3
<1> QED BY <1>0, <1>0a, <1>1, <1>3, <1>5, <1>6, <1>7, <1>8, <1>9, <1>10, RelayStep DEF AttemptOK

----------------------------------------------------------------------------
(* The client's thread. *)

(* A step that changes only what the client knows. *)
LEMMA ClientStep ==
    ASSUME MacInv, NEW i \in Attempts, i = Now,
           client' \in Clients, client'.attempt = client.attempt, client'.got = client.got,
           UNCHANGED <<setting, sock, helper, relay, opener, writer, rf, phone, crashes>>,
           At("line")' = At("line"), ClientOK', PlaceOK(i)'
    PROVE  MacInv'
<1>0. Now' = Now /\ mode' = mode
  BY DEF Now, mode
<1>1. BTTypeOK /\ TypesAt(i) /\ RelayOK(i) /\ TargetOK(i) /\ WriteOK(i) /\ ClosedOK(i) /\ UpOK(i) /\ DownOK(i)
  BY Parts
<1>2. OnlyAt(i)
  BY <1>1 DEF OnlyAt, BTTypeOK
<1>3. TypesAt(i)' /\ RelayOK(i)' /\ TargetOK(i)' /\ WriteOK(i)' /\ ClosedOK(i)'
  BY <1>0, <1>1 DEF TypesAt, RelayOK, TargetOK, WriteOK, ClosedOK
<1>4. UpOK(i)'
  BY <1>0, <1>1 DEF UpOK
<1>5. DownOK(i)'
  <2>1. Said(i)' = Said(i) /\ Heard(i)' = Heard(i)
    BY DEF Said, Heard
  <2> QED BY <1>0, <1>1, <2>1 DEF DownOK
<1>6. AttemptOK(i)'
  BY <1>3, <1>4, <1>5 DEF AttemptOK
<1> QED BY <1>2, <1>3, <1>6, LocalStep

(* A step of the client with a stream of its own. *)
LEMMA DirectStep ==
    ASSUME MacInv, NEW i \in Attempts, i = Now, mode = "direct", OnlyAt(i), UNCHANGED <<sock, relay>>,
           client' \in Clients, client'.attempt = client.attempt,
           TypesAt(i)', ClientOK', PlaceOK(i)', TargetOK(i)'
    PROVE  MacInv'
<1>1. mode' = "direct" /\ RelayOK(i)
  BY Parts DEF mode, OnlyAt
<1>2. RelayOK(i)' /\ WriteOK(i)' /\ ClosedOK(i)' /\ UpOK(i)' /\ DownOK(i)'
  BY <1>1 DEF RelayOK, WriteOK, ClosedOK, UpOK, DownOK
<1> QED BY <1>2, LocalStep DEF AttemptOK

(* A socket whose client has closed its end. *)
LEMMA HungUp ==
    ASSUME NEW s \in Socks, NEW r, r = [s EXCEPT !.client = FALSE, !.down = <<>>]
    PROVE  r \in Socks /\ r.helper = s.helper /\ r.up = s.up /\ r.down = <<>> /\ r.client = FALSE
<1>1. <<>> \in Seq(Data)
  BY EmptySeq
<1>2. r \in Socks
  BY <1>1 DEF Socks
<1>3. r.helper = s.helper /\ r.up = s.up /\ r.down = <<>> /\ r.client = FALSE
  BY DEF Socks
<1> QED BY <1>2, <1>3

(* The client closes its end of the socket; what is on the way to it is lost. *)
LEMMA HangUp ==
    ASSUME MacInv, NEW i \in Attempts, i = Now,
           client' \in Clients, client'.attempt = client.attempt, client'.got = client.got,
           client.pc # "connecting", client.pc \notin {"send", "close"} \/ mode = "relay",
           client'.pc = "ended" \/ (client'.pc = "failed" /\ client.got = <<>>),
           sock' = [sock EXCEPT ![i].client = FALSE, ![i].down = <<>>],
           UNCHANGED <<setting, helper, relay, opener, writer, rf, phone, crashes>>
    PROVE  MacInv'
<1>0. /\ BTTypeOK /\ ClientOK /\ TypesAt(i) /\ PlaceOK(i) /\ RelayOK(i) /\ TargetOK(i) /\ WriteOK(i)
      /\ ClosedOK(i) /\ UpOK(i) /\ DownOK(i) /\ Now' = Now /\ mode' = mode
  BY Parts DEF Now, mode
<1>1. OnlyAt(i) /\ sock'[i] = [sock[i] EXCEPT !.client = FALSE, !.down = <<>>]
  BY <1>0 DEF OnlyAt, BTTypeOK
<1>2. /\ sock'[i] \in Socks /\ sock'[i].helper = sock[i].helper /\ sock'[i].up = sock[i].up
      /\ sock'[i].down = <<>> /\ sock'[i].client = FALSE
  BY <1>0, <1>1, HungUp DEF TypesAt
<1>3. TypesAt(i)'
  BY <1>0, <1>2 DEF TypesAt
<1>4. ClientOK'
  <2>1. client'.pc \in {"ended", "failed"} /\ (client'.pc = "failed" => client'.got = <<>>)
    OBVIOUS
  <2> QED BY <2>1 DEF ClientOK, At
<1>5. PlaceOK(i)'
  BY <1>0, <1>2 DEF PlaceOK, At
<1>6. RelayOK(i)' /\ TargetOK(i)' /\ WriteOK(i)' /\ ClosedOK(i)'
  BY <1>0, <1>2 DEF RelayOK, TargetOK, WriteOK, ClosedOK
<1>7. UpOK(i)'
  BY <1>0, <1>2 DEF UpOK
<1>8. DownOK(i)'
  <2> SUFFICES ASSUME mode = "relay" PROVE DownOK(i)'
    BY <1>0 DEF DownOK
  <2>1. Said(i)' = Said(i) /\ Heard(i)' = <<>>
    BY <1>2 DEF Said, Heard
  <2>2. PICK rest \in Seq(Data) : Said(i) = (client.got \o Heard(i)) \o rest
    BY <1>0 DEF DownOK
  <2>3. client.got \in Seq(Data) /\ Heard(i) \in Seq(Data)
    BY Pieces
  <2>4. Heard(i) \o rest \in Seq(Data)
    BY <2>3, Joined
  <2>4a. (client.got \o Heard(i)) \o rest = client.got \o (Heard(i) \o rest)
    BY <2>3, Assoc
  <2>5. client.got \o <<>> = client.got
    BY <2>3, Words
  <2>6. \E r \in Seq(Data) : Said(i)' = (client.got \o Heard(i)') \o r
    BY <2>1, <2>2, <2>4, <2>4a, <2>5
  <2> QED BY <1>0, <1>2, <2>6 DEF DownOK
<1> QED BY <1>1, <1>3, <1>4, <1>5, <1>6, <1>7, <1>8, LocalStep DEF AttemptOK

(* OpenStream: in a user's session, through the helper, or not at all. *)
LEMMA OpenKeeps ==
    ASSUME MacInv, Open
    PROVE  MacInv'
<1>1. PICK i \in Attempts : i = Now
  BY Parts DEF MacInv, BTTypeOK, Clients, Now
<1>0. /\ BTTypeOK /\ ClientOK /\ TypesAt(i) /\ PlaceOK(i) /\ RelayOK(i) /\ TargetOK(i) /\ WriteOK(i)
      /\ ClosedOK(i) /\ UpOK(i) /\ DownOK(i) /\ client \in Clients
      /\ UNCHANGED <<setting, helper, writer, phone, crashes>> /\ client.pc = "open" /\ client.got = <<>>
      /\ relay[i].main = "none"
  BY <1>1, Parts DEF Open, BTTypeOK, ClientOK, At
<1>2. ~sock[i].client /\ sock[i].down = <<>> /\ sock[i].up = <<>>
  BY <1>0 DEF RelayOK
<1>3. ASSUME NEW pc \in {"connecting", "ask", "failed"}, client' = [client EXCEPT !.pc = pc]
      PROVE  /\ client' \in Clients /\ client'.attempt = client.attempt /\ client'.got = <<>>
             /\ client'.pc = pc /\ client'.toWrite = client.toWrite
  BY <1>0, <1>3 DEF Clients
<1>4. CASE /\ mode = "direct" /\ rf' = [rf EXCEPT ![Now].held = TRUE] /\ Opening(Now, "sdp")
           /\ Goto("connecting") /\ UNCHANGED <<sock, relay>>
  <2>1. /\ client' \in Clients /\ client'.attempt = client.attempt /\ client'.got = <<>>
        /\ client'.pc = "connecting" /\ client'.toWrite = client.toWrite
    BY <1>3, <1>4 DEF Goto
  <2>2. rf'[i] = [rf[i] EXCEPT !.held = TRUE] /\ OnlyAt(i) /\ opener'[i] = "sdp" /\ writer'[i] = writer[i]
    BY <1>0, <1>1, <1>4 DEF Opening, OnlyAt, BTTypeOK
  <2>3. /\ rf'[i] \in StreamRecords /\ rf'[i].held = TRUE /\ rf'[i].query = rf[i].query
        /\ rf'[i].pending = rf[i].pending
    BY <1>0, <2>2 DEF TypesAt, StreamRecords
  <2>4. TypesAt(i)' /\ TargetOK(i)'
    BY <1>0, <1>4, <2>2, <2>3 DEF TypesAt, Openers, TargetOK
  <2>5. ClientOK'
    BY <1>0, <2>1, <1>4 DEF ClientOK, At, mode
  <2>6. PlaceOK(i)'
    BY <1>0, <1>1, <1>2, <1>4, <2>1, <2>2, <2>3 DEF PlaceOK, At, mode, Now
  <2> QED BY <1>1, <1>4, <2>1, <2>2, <2>4, <2>5, <2>6, DirectStep
<1>5. CASE mode = "relay" /\ Goto("failed") /\ UNCHANGED <<rf, opener, sock, relay>>
  <2>1. /\ client' \in Clients /\ client'.attempt = client.attempt /\ client'.got = <<>>
        /\ client'.pc = "failed" /\ client'.toWrite = client.toWrite
    BY <1>3, <1>5 DEF Goto
  <2>2. ClientOK' /\ At("line")' = At("line")
    BY <1>0, <2>1, <1>5 DEF ClientOK, At, mode
  <2>3. PlaceOK(i)'
    BY <1>0, <1>1, <1>2, <1>5, <2>1 DEF PlaceOK, At, mode, Now
  <2> QED BY <1>0, <1>1, <1>5, <2>1, <2>2, <2>3, ClientStep
<1>6. CASE /\ mode = "relay" /\ Goto("ask") /\ UNCHANGED <<rf, opener>>
           /\ sock' = [sock EXCEPT ![Now].client = TRUE, ![Now].helper = TRUE]
           /\ relay' = [relay EXCEPT ![Now].main = "backlog"]
  <2>1. /\ client' \in Clients /\ client'.attempt = client.attempt /\ client'.got = <<>>
        /\ client'.pc = "ask" /\ client'.toWrite = client.toWrite /\ Now' = Now /\ mode' = mode
    BY <1>0, <1>3, <1>6 DEF Goto, Now, mode
  <2>2. /\ sock'[i] = [sock[i] EXCEPT !.client = TRUE, !.helper = TRUE]
        /\ relay'[i] = [relay[i] EXCEPT !.main = "backlog"] /\ OnlyAt(i)
    BY <1>0, <1>1, <1>6 DEF OnlyAt, BTTypeOK
  <2>3. /\ relay'[i] \in Relays /\ relay'[i].main = "backlog" /\ relay'[i].phone = relay[i].phone
        /\ relay'[i].up = relay[i].up /\ relay'[i].down = relay[i].down
        /\ relay'[i].isRunning = relay[i].isRunning
    BY <1>0, <2>2 DEF TypesAt, Relays
  <2>4. /\ sock'[i] \in Socks /\ sock'[i].up = <<>> /\ sock'[i].down = <<>>
    BY <1>0, <1>2, <2>2 DEF TypesAt, Socks
  <2>5. TypesAt(i)'
    BY <1>0, <1>6, <2>3, <2>4 DEF TypesAt
  <2>6. ClientOK'
    BY <1>0, <1>1, <2>1, <2>3, <2>4 DEF ClientOK, At
  <2>7. PlaceOK(i)'
    <3>1. ~(i > Now)
      BY <1>1 DEF Attempts
    <3> QED BY <1>0, <1>1, <1>6, <2>1, <2>3, <2>4, <3>1 DEF PlaceOK, At
  <2>8. RelayOK(i)' /\ TargetOK(i)' /\ WriteOK(i)' /\ ClosedOK(i)'
    BY <1>0, <1>6, <2>1, <2>3, <2>4 DEF RelayOK, TargetOK, WriteOK, ClosedOK
  <2>9. UpOK(i)'
    BY <1>0, <1>6, <2>1, <2>3, <2>4 DEF UpOK
  <2>10. DownOK(i)'
    <3>1. Said(i)' = Said(i) /\ Heard(i)' = <<>> /\ Heard(i) = <<>> /\ At("line")' = FALSE
      BY <1>0, <1>2, <2>1, <2>4 DEF Said, Heard, At
    <3>2. \E rest \in Seq(Data) : Said(i) = (<<>> \o <<>>) \o rest
      BY <1>0, <1>1, <1>6, <3>1 DEF DownOK
    <3>3. rf[i].readBuffer = <<>> /\ relay[i].down = <<>> /\ phone[i].said = 0
      BY <1>0, <1>6 DEF DownOK, RelayOK
    <3>4. Said(i) = <<>> /\ (<<>> \o <<>>) \o (<<>> \o <<>>) = <<>>
      BY <3>3, Words DEF Said
    <3> QED BY <1>0, <1>6, <2>1, <2>3, <2>4, <3>1, <3>2, <3>3, <3>4 DEF DownOK
  <2> QED BY <1>1, <2>1, <2>2, <2>5, <2>6, <2>7, <2>8, <2>9, <2>10, LocalStep DEF AttemptOK
<1> QED BY <1>4, <1>5, <1>6 DEF Open

(* The current attempt, and what the invariant says of it. *)
LEMMA Current ==
    ASSUME MacInv
    PROVE  /\ Now \in Attempts /\ client \in Clients /\ BTTypeOK /\ ClientOK /\ TypesAt(Now) /\ PlaceOK(Now)
           /\ RelayOK(Now) /\ TargetOK(Now)
BY Parts DEF MacInv, BTTypeOK, Clients, Now

(* The line with the request goes out, to a helper that is still there. *)
LEMMA AskKeeps ==
    ASSUME MacInv, Ask
    PROVE  MacInv'
<1>1. PICK i \in Attempts : i = Now
  BY Current
<1>0. /\ BTTypeOK /\ ClientOK /\ TypesAt(i) /\ PlaceOK(i) /\ RelayOK(i) /\ TargetOK(i) /\ WriteOK(i)
      /\ ClosedOK(i) /\ UpOK(i) /\ DownOK(i) /\ client \in Clients /\ client.pc = "ask"
      /\ UNCHANGED <<setting, helper, relay, opener, writer, rf, phone, crashes>>
      /\ client.got = <<>> /\ sock[i].down = <<>> /\ relay[i].main \in {"backlog", "ended", "dead"}
  BY <1>1, Parts DEF Ask, BTTypeOK, ClientOK, At
<1>2. CASE ~sock[i].helper
  <2>1. /\ client' = [client EXCEPT !.pc = "failed"]
        /\ sock' = [sock EXCEPT ![i].client = FALSE, ![i].down = <<>>]
    BY <1>1, <1>2 DEF Ask, Goto
  <2>2. /\ client' \in Clients /\ client'.attempt = client.attempt /\ client'.got = client.got
        /\ client'.pc = "failed"
    BY <1>0, <2>1 DEF Clients
  <2> QED BY <1>0, <1>1, <2>1, <2>2, HangUp
<1>3. CASE sock[i].helper
  <2>1. client' = [client EXCEPT !.pc = "line"] /\ sock' = [sock EXCEPT ![i].up = <<"CONNECT">>]
    BY <1>1, <1>3 DEF Ask, Goto
  <2>2. /\ client' \in Clients /\ client'.attempt = client.attempt /\ client'.got = client.got
        /\ client'.pc = "line" /\ Now' = Now /\ mode' = mode
    BY <1>0, <2>1 DEF Clients, Now, mode
  <2>3. OnlyAt(i) /\ sock'[i] = [sock[i] EXCEPT !.up = <<"CONNECT">>]
    BY <1>0, <2>1 DEF OnlyAt, BTTypeOK
  <2>4. /\ sock'[i] \in Socks /\ sock'[i].down = sock[i].down /\ sock'[i].client = sock[i].client
        /\ sock'[i].helper = sock[i].helper
    <3>1. <<"CONNECT">> \in Seq(Data)
      BY Words DEF Data
    <3> QED BY <1>0, <2>3, <3>1 DEF TypesAt, Socks
  <2>5. relay[i].main = "backlog"
    BY <1>0, <1>3 DEF RelayOK
  <2>6. TypesAt(i)'
    BY <1>0, <2>4 DEF TypesAt
  <2>7. ClientOK'
    BY <2>2, <1>0 DEF ClientOK, At
  <2>8. PlaceOK(i)'
    BY <1>0, <1>1, <2>2, <2>4 DEF PlaceOK, At
  <2>9. RelayOK(i)' /\ TargetOK(i)' /\ WriteOK(i)' /\ ClosedOK(i)'
    BY <1>0, <2>2, <2>4, <2>5 DEF RelayOK, TargetOK, WriteOK, ClosedOK
  <2>10. UpOK(i)'
    BY <1>0, <2>2, <2>5 DEF UpOK
  <2>11. DownOK(i)'
    <3>1. Said(i)' = Said(i) /\ Heard(i)' = Heard(i)
      BY <1>0, <2>4 DEF Said, Heard
    <3> QED BY <1>0, <2>2, <2>4, <2>5, <3>1 DEF DownOK
  <2> QED BY <1>1, <2>2, <2>3, <2>6, <2>7, <2>8, <2>9, <2>10, <2>11, LocalStep DEF AttemptOK
<1> QED BY <1>2, <1>3

(* The socket without its first waiting word. *)
FirstTaken(s) == [s EXCEPT !.down = Tail(s.down)]

(* It is a socket, and differs in nothing else. *)
LEMMA FirstTakenSocket ==
  ASSUME NEW s \in Socks, s.down # <<>>
  PROVE  /\ FirstTaken(s) \in Socks /\ FirstTaken(s).helper = s.helper /\ FirstTaken(s).up = s.up
         /\ FirstTaken(s).down = Tail(s.down) /\ FirstTaken(s).client = s.client
<1>1. PICK t \in Seq(Data) : t = Tail(s.down)
  BY TakeFirst DEF Socks
<1>2. FirstTaken(s) = [s EXCEPT !.down = t]
  BY <1>1 DEF FirstTaken
<1> QED BY <1>1, <1>2 DEF Socks

(* The client takes the first word on its way: the line that says OK, or    *)
(* something the phone said.                                                *)
LEMMA ClientTakes ==
    ASSUME MacInv, NEW i \in Attempts, i = Now, sock[i].down # <<>>,
           client' \in Clients, client'.attempt = client.attempt,
           client'.pc \in {"send", "read", "after", "thrown"},
           client'.pc = "send" => client'.toWrite # <<>>,
           client'.got \o Tail(sock[i].down) = client.got \o Heard(i),
           sock' = [sock EXCEPT ![i].down = Tail(@)],
           UNCHANGED <<setting, helper, relay, opener, writer, rf, phone, crashes>>
    PROVE  MacInv'
<1>0. /\ BTTypeOK /\ ClientOK /\ TypesAt(i) /\ PlaceOK(i) /\ RelayOK(i) /\ TargetOK(i) /\ WriteOK(i)
      /\ ClosedOK(i) /\ UpOK(i) /\ DownOK(i) /\ Now' = Now /\ mode' = mode
  BY Parts DEF Now, mode
<1>1. OnlyAt(i) /\ sock'[i] = [sock[i] EXCEPT !.down = Tail(sock[i].down)]
  BY <1>0 DEF OnlyAt, BTTypeOK
<1>2. /\ sock'[i] \in Socks /\ sock'[i].helper = sock[i].helper /\ sock'[i].up = sock[i].up
      /\ sock'[i].down = Tail(sock[i].down) /\ sock'[i].client = sock[i].client
  <2>1. sock[i] \in Socks
    BY <1>0 DEF TypesAt
  <2>2. sock'[i] = FirstTaken(sock[i])
    BY <1>1 DEF FirstTaken
  <2> QED BY <2>1, <2>2, FirstTakenSocket
<1>3. relay[i].main \notin {"none", "backlog", "connecting"} /\ sock[i].client
  BY <1>0 DEF RelayOK, PlaceOK
<1>4. mode = "relay"
  <2>1. setting.mode \in {"relay", "direct"}
    BY <1>0, MacConstants DEF BTTypeOK
  <2> QED BY <1>0, <1>3, <2>1 DEF PlaceOK, mode
<1>5. TypesAt(i)'
  BY <1>0, <1>2 DEF TypesAt
<1>6. ClientOK'
  BY <1>0, <1>3 DEF ClientOK, At
<1>7. PlaceOK(i)'
  BY <1>0, <1>2, <1>3, <1>4 DEF PlaceOK
<1>8. RelayOK(i)' /\ TargetOK(i)' /\ WriteOK(i)' /\ ClosedOK(i)'
  BY <1>0, <1>2, <1>3 DEF RelayOK, TargetOK, WriteOK, ClosedOK
<1>9. UpOK(i)'
  BY <1>0, <1>2 DEF UpOK
<1>10. DownOK(i)'
  <2>1. Said(i)' = Said(i) /\ Heard(i)' = Tail(sock[i].down) /\ At("line")' = FALSE
    BY <1>2 DEF Said, Heard, At
  <2>2. client'.got \o Heard(i)' = client.got \o Heard(i)
    BY <2>1
  <2> QED BY <1>0, <1>2, <1>4, <2>1, <2>2 DEF DownOK
<1> QED BY <1>1, <1>5, <1>6, <1>7, <1>8, <1>9, <1>10, LocalStep DEF AttemptOK

(* The line of the helper: OK, or the attempt has failed. *)
LEMMA ReadLineKeeps ==
    ASSUME MacInv, ReadLine
    PROVE  MacInv'
<1>1. PICK i \in Attempts : i = Now
  BY Current
<1>0. /\ ClientOK /\ client \in Clients /\ client.pc = "line" /\ client.got = <<>>
      /\ UNCHANGED <<setting, helper, relay, opener, writer, rf, phone, crashes>>
  BY Current DEF ReadLine, ClientOK, At
<1>2. CASE /\ Goto("failed")
           /\ sock' = [sock EXCEPT ![Now].client = FALSE, ![Now].down = <<>>]
  <2>1. /\ client' \in Clients /\ client'.attempt = client.attempt /\ client'.got = client.got
        /\ client'.pc = "failed"
    BY <1>0, <1>2 DEF Clients, Goto
  <2> QED BY <1>0, <1>1, <1>2, <2>1, HangUp
<1>3. CASE /\ sock[Now].down # <<>> /\ sock' = [sock EXCEPT ![Now].down = Tail(@)]
           /\ client' = [client EXCEPT !.pc = "send", !.toWrite = Request]
  <2>1. Request \in Seq(Data) /\ Request # <<>>
    BY DEF Request, Data
  <2>2. PICK r \in Seq(Data) : r = Request /\ r # <<>>
    BY <2>1
  <2>3. client' = [client EXCEPT !.pc = "send", !.toWrite = r]
    BY <1>3, <2>2
  <2>4. /\ client' \in Clients /\ client'.attempt = client.attempt /\ client'.got = client.got
        /\ client'.pc = "send" /\ client'.toWrite = r
    BY <1>0, <2>2, <2>3 DEF Clients
  <2>5. Heard(i) = Tail(sock[i].down)
    BY <1>0, <1>1, <1>3 DEF Heard, At
  <2> QED BY <1>0, <1>1, <1>3, <2>2, <2>4, <2>5, ClientTakes
<1> QED BY <1>2, <1>3 DEF ReadLine

(* PerformAuthFlow reads from the socket. *)
LEMMA ReadFromRelayKeeps ==
    ASSUME MacInv, ReadFromRelay
    PROVE  MacInv'
<1>1. PICK i \in Attempts : i = Now
  BY Current
<1>0. /\ ClientOK /\ client \in Clients /\ client.pc = "read" /\ mode = "relay" /\ PlaceOK(i) /\ TypesAt(i)
      /\ UNCHANGED <<setting, helper, relay, opener, writer, rf, phone, crashes>>
  BY <1>1, Current DEF ReadFromRelay, At
<1>2. CASE Goto("after") /\ UNCHANGED sock
  <2>1. /\ client' \in Clients /\ client'.attempt = client.attempt /\ client'.got = client.got
        /\ client'.pc = "after"
    BY <1>0, <1>2 DEF Clients, Goto
  <2>2. ClientOK' /\ At("line")' = At("line")
    BY <1>0, <1>2, <2>1 DEF ClientOK, At, mode, Now
  <2>3. PlaceOK(i)'
    BY <1>0, <1>1, <1>2, <2>1 DEF PlaceOK, At, mode, Now
  <2> QED BY <1>0, <1>1, <1>2, <2>1, <2>2, <2>3, ClientStep
<1>3. CASE /\ sock[Now].down # <<>> /\ sock' = [sock EXCEPT ![Now].down = Tail(@)]
           /\ Handled(Head(sock[Now].down))
  <2>1. PICK d \in Seq(Data), g \in Seq(Data) : d = sock[i].down /\ g = client.got
    BY <1>0 DEF TypesAt, Socks, Clients
  <2>2. d # <<>> /\ Head(d) \in Data /\ Tail(d) \in Seq(Data) /\ <<Head(d)>> \o Tail(d) = d
    BY <1>1, <1>3, <2>1, TakeFirst
  <2>3. PICK x \in Data, t \in Seq(Data) : x = Head(d) /\ t = Tail(d) /\ <<x>> \o t = d
    BY <2>2
  <2>4. PICK next \in {"read", "after", "thrown"} : client' = [client EXCEPT !.got = Append(g, x), !.pc = next]
    BY <1>1, <1>3, <2>1, <2>3 DEF Handled
  <2>5. Append(g, x) \in Seq(Data) /\ Append(g, x) = g \o <<x>> /\ <<x>> \in Seq(Data)
    BY Words
  <2>6. /\ client' \in Clients /\ client'.attempt = client.attempt /\ client'.got = Append(g, x)
        /\ client'.pc = next
    BY <1>0, <2>4, <2>5 DEF Clients
  <2>7. client'.got \o t = g \o d
    <3>1. (g \o <<x>>) \o t = g \o (<<x>> \o t)
      BY <2>5, Assoc
    <3> QED BY <2>3, <2>5, <2>6, <3>1
  <2>8. Heard(i) = d
    BY <1>0, <2>1 DEF Heard, At
  <2> QED BY <1>0, <1>1, <1>3, <2>1, <2>3, <2>6, <2>7, <2>8, ClientTakes
<1> QED BY <1>2, <1>3 DEF ReadFromRelay

(* Steps that change what the client knows and nothing else. *)
LEMMA AfterFlowKeeps ==
    ASSUME MacInv, AfterFlow
    PROVE  MacInv'
<1>1. PICK i \in Attempts : i = Now
  BY Current
<1>0. /\ ClientOK /\ client \in Clients /\ client.pc = "after" /\ PlaceOK(i)
      /\ UNCHANGED <<setting, sock, helper, relay, opener, writer, rf, phone, crashes>>
  BY <1>1, Current DEF AfterFlow, At
<1>2. <<"CLOSE">> \in Seq(Data) /\ <<"CLOSE">> # <<>>
  BY Words DEF Data
<1>3. /\ client' \in Clients /\ client'.attempt = client.attempt /\ client'.got = client.got
      /\ client'.pc \in {"close", "closing"} /\ (client'.pc = "close" => client'.toWrite # <<>>)
  BY <1>0, <1>2 DEF AfterFlow, Clients
<1>4. ClientOK' /\ At("line")' = At("line")
  BY <1>0, <1>3 DEF ClientOK, At, mode, Now
<1>5. PlaceOK(i)'
  BY <1>0, <1>1, <1>3 DEF PlaceOK, At, mode, Now
<1> QED BY <1>0, <1>1, <1>3, <1>4, <1>5, ClientStep

(* A stop is only a flag. *)
LEMMA StopKeeps ==
    ASSUME MacInv, Stop
    PROVE  MacInv'
<1>1. PICK i \in Attempts : i = Now
  BY Current
<1>0. /\ ClientOK /\ client \in Clients /\ PlaceOK(i)
      /\ UNCHANGED <<setting, sock, helper, relay, opener, writer, rf, phone, crashes>>
  BY <1>1, Current DEF Stop
<1>3. /\ client' \in Clients /\ client'.attempt = client.attempt /\ client'.got = client.got
      /\ client'.pc = client.pc /\ client'.toWrite = client.toWrite
  BY <1>0 DEF Stop, Clients
<1>4. ClientOK' /\ At("line")' = At("line")
  BY <1>0, <1>3 DEF ClientOK, At, mode, Now
<1>5. PlaceOK(i)'
  BY <1>0, <1>1, <1>3 DEF PlaceOK, At, mode, Now
<1> QED BY <1>0, <1>1, <1>3, <1>4, <1>5, ClientStep

(* The next attempt begins with a socket, a relay and a stream that nobody has used. *)
LEMMA RetryKeeps ==
    ASSUME MacInv, Retry
    PROVE  MacInv'
<1>1. PICK i \in Attempts : i = Now
  BY Current
<1>0. /\ BTTypeOK /\ ClientOK /\ client \in Clients /\ PlaceOK(i) /\ client.pc = "failed" /\ client.got = <<>>
      /\ UNCHANGED <<setting, sock, helper, relay, opener, writer, rf, phone, crashes>>
  BY <1>1, Current DEF Retry, ClientOK, At
<1>2. CASE client' = [client EXCEPT !.pc = "ended", !.isRunning = FALSE, !.state = "CONNECT_ERROR"]
  <2>1. /\ client' \in Clients /\ client'.attempt = client.attempt /\ client'.got = client.got
        /\ client'.pc = "ended"
    BY <1>0, <1>2 DEF Clients
  <2>2. ClientOK' /\ At("line")' = At("line")
    BY <1>0, <2>1 DEF ClientOK, At
  <2>3. PlaceOK(i)'
    BY <1>0, <1>1, <2>1 DEF PlaceOK, At, mode, Now
  <2> QED BY <1>0, <1>1, <2>1, <2>2, <2>3, ClientStep
<1>3. CASE /\ client.attempt < setting.attempts
           /\ client' = [client EXCEPT !.pc = "open", !.attempt = @ + 1]
  <2>0. setting.attempts \in Attempts /\ client.attempt \in Attempts
    BY <1>0, MacConstants DEF BTTypeOK, Clients
  <2>1. PICK n \in Attempts : n = client.attempt + 1 /\ n = i + 1 /\ n > i
    <3>1. i + 1 \in Attempts /\ i + 1 > i /\ i = client.attempt
      BY <1>1, <1>3, <2>0, MacConstants DEF Attempts, Now
    <3> QED BY <3>1
  <2>2. client' = [client EXCEPT !.pc = "open", !.attempt = n]
    BY <1>3, <2>1
  <2>3. client' \in Clients /\ client'.pc = "open" /\ client'.attempt = n /\ client'.got = <<>> /\ Now' = n
    BY <1>0, <2>2 DEF Clients, Now
  <2>4. BTTypeOK'
    BY <1>0, <2>3 DEF BTTypeOK
  <2>5. mode' = mode /\ relay[n].main = "none"
    <3>1. PlaceOK(n)
      BY Parts
    <3> QED BY <1>0, <1>1, <2>1, <3>1 DEF PlaceOK, mode, Now
  <2>6. ClientOK'
    BY <1>0, <2>3, <2>5 DEF ClientOK, At
  <2>7. ASSUME NEW j \in Attempts
        PROVE  AttemptOK(j)'
    <3>0. /\ TypesAt(j) /\ PlaceOK(j) /\ RelayOK(j) /\ TargetOK(j) /\ WriteOK(j)
          /\ ClosedOK(j) /\ UpOK(j) /\ DownOK(j)
      BY Parts
    <3>1. ~sock[j].client /\ sock[j].down = <<>>
      BY <1>0, <3>0 DEF PlaceOK
    <3>2. j > n => j > i
      BY <2>1 DEF Attempts
    <3>3. PlaceOK(j)'
      BY <1>0, <1>1, <2>3, <2>5, <3>0, <3>1, <3>2 DEF PlaceOK, At
    <3>4. RelayOK(j)' /\ TargetOK(j)' /\ WriteOK(j)' /\ ClosedOK(j)'
      BY <1>0, <2>5, <3>0 DEF RelayOK, TargetOK, WriteOK, ClosedOK
    <3>5. UpOK(j)'
      BY <1>0, <2>5, <3>0 DEF UpOK
    <3>6. DownOK(j)'
      <4> SUFFICES ASSUME mode = "relay" PROVE DownOK(j)'
        BY <2>5 DEF DownOK
      <4>1. Said(j)' = Said(j) /\ Heard(j)' = <<>>
        BY <1>0, <3>1 DEF Said, Heard
      <4>2. j = n => \E rest \in Seq(Data) : Said(j)' = (<<>> \o <<>>) \o rest
        <5> SUFFICES ASSUME j = n PROVE \E rest \in Seq(Data) : Said(j)' = (<<>> \o <<>>) \o rest
          OBVIOUS
        <5>1. phone[j].said = 0
          BY <2>5, <3>0 DEF DownOK
        <5>2. Said(j) = <<>> /\ (<<>> \o <<>>) \o <<>> = <<>> /\ <<>> \in Seq(Data)
          BY <5>1, Words DEF Said
        <5> QED BY <4>1, <5>2
      <4> QED BY <1>0, <2>3, <2>5, <3>0, <3>1, <4>1, <4>2 DEF DownOK
    <3> QED BY <3>3, <3>4, <3>5, <3>6 DEF AttemptOK
  <2> QED BY <2>4, <2>6, <2>7 DEF MacInv
<1> QED BY <1>2, <1>3 DEF Retry

(* What the client writes comes behind all that it wrote before. *)
LEMMA SentBehind ==
    ASSUME NEW i \in Attempts, TypesAt(i), RelayOK(i), UpOK(i), mode' = mode, NEW w \in Seq(Data),
           UNCHANGED <<relay, writer, rf>>,
           relay[i].main \notin {"none", "backlog", "connecting"},
           sock'[i].up = sock[i].up \o w, phone'[i].asked = phone[i].asked \o w,
           phone'[i].told = phone[i].told
    PROVE  UpOK(i)'
<1> SUFFICES ASSUME mode = "relay" PROVE UpOK(i)'
  BY DEF UpOK
<1>0. /\ phone[i].told \in Seq(Data) /\ rf[i].inFlight \in Seq(Data) /\ relay[i].up \in Seq(Data)
      /\ sock[i].up \in Seq(Data)
  BY DEF TypesAt, Phones, StreamRecords, Relays, Socks
<1>1. \E rest \in Seq(Data) : phone'[i].asked = (phone[i].told \o rf[i].inFlight) \o rest
  <2>1. PICK rest \in Seq(Data) : phone[i].asked = (phone[i].told \o rf[i].inFlight) \o rest
    BY DEF UpOK
  <2>2. PICK tf \in Seq(Data) : tf = phone[i].told \o rf[i].inFlight
    BY <1>0, Joined
  <2>3. (tf \o rest) \o w = tf \o (rest \o w)
    BY Assoc
  <2>4. rest \o w \in Seq(Data)
    BY Joined
  <2> QED BY <2>1, <2>2, <2>3, <2>4
<1>2. relay[i].main = "poll" => phone'[i].asked = phone[i].told \o sock'[i].up
  <2> SUFFICES ASSUME relay[i].main = "poll" PROVE phone'[i].asked = phone[i].told \o sock'[i].up
    OBVIOUS
  <2>1. phone[i].asked = phone[i].told \o sock[i].up
    BY DEF UpOK
  <2>2. PICK t \in Seq(Data), u \in Seq(Data) : t = phone[i].told /\ u = sock[i].up
    BY <1>0
  <2>3. (t \o u) \o w = t \o (u \o w)
    BY Assoc
  <2> QED BY <2>1, <2>2, <2>3
<1>3. relay[i].main = "write" /\ writer[i] \in {"idle", "submit"} =>
        phone'[i].asked = phone[i].told \o (relay[i].up \o sock'[i].up)
  <2> SUFFICES ASSUME relay[i].main = "write", writer[i] \in {"idle", "submit"}
               PROVE  phone'[i].asked = phone[i].told \o (relay[i].up \o sock'[i].up)
    OBVIOUS
  <2>1. phone[i].asked = phone[i].told \o (relay[i].up \o sock[i].up)
    BY DEF UpOK
  <2>2. PICK t \in Seq(Data), r \in Seq(Data), u \in Seq(Data) :
          t = phone[i].told /\ r = relay[i].up /\ u = sock[i].up
    BY <1>0
  <2>3. (t \o (r \o u)) \o w = t \o (r \o (u \o w))
    <3>1. PICK ru \in Seq(Data) : ru = r \o u
      BY Joined
    <3>2. (t \o ru) \o w = t \o (ru \o w)
      BY Assoc
    <3>3. (r \o u) \o w = r \o (u \o w)
      BY Assoc
    <3> QED BY <3>1, <3>2, <3>3
  <2> QED BY <2>1, <2>2, <2>3
<1>4. /\ relay[i].main = "write"
      /\ writer[i] = "done" \/ (writer[i] = "wait" /\ (rf[i].inFlight # <<>> \/ rf[i].write = "ok"))
      => phone'[i].asked = (phone[i].told \o rf[i].inFlight) \o (Tail(relay[i].up) \o sock'[i].up)
  <2> SUFFICES ASSUME relay[i].main = "write",
                      \/ writer[i] = "done"
                      \/ writer[i] = "wait" /\ (rf[i].inFlight # <<>> \/ rf[i].write = "ok")
               PROVE  phone'[i].asked = (phone[i].told \o rf[i].inFlight) \o (Tail(relay[i].up) \o sock'[i].up)
    OBVIOUS
  <2>1. phone[i].asked = (phone[i].told \o rf[i].inFlight) \o (Tail(relay[i].up) \o sock[i].up)
    BY DEF UpOK
  <2>2. PICK tf \in Seq(Data) : tf = phone[i].told \o rf[i].inFlight
    BY <1>0, Joined
  <2>3. relay[i].up # <<>>
    BY DEF RelayOK
  <2>4. PICK r \in Seq(Data) : r = Tail(relay[i].up)
    BY <1>0, <2>3, TakeFirst
  <2>5. PICK u \in Seq(Data) : u = sock[i].up
    BY <1>0
  <2>6. (tf \o (r \o u)) \o w = tf \o (r \o (u \o w))
    <3>1. PICK ru \in Seq(Data) : ru = r \o u
      BY Joined
    <3>2. (tf \o ru) \o w = tf \o (ru \o w)
      BY Assoc
    <3>3. (r \o u) \o w = r \o (u \o w)
      BY Assoc
    <3> QED BY <3>1, <3>2, <3>3
  <2> QED BY <2>1, <2>2, <2>4, <2>5, <2>6
<1> QED BY <1>1, <1>2, <1>3, <1>4 DEF UpOK

(* The request, or CLOSE, goes into the socket: behind all that the helper  *)
(* has not passed on.                                                       *)
LEMMA SendToRelayKeeps ==
    ASSUME MacInv, SendToRelay
    PROVE  MacInv'
<1>1. PICK i \in Attempts : i = Now
  BY Current
<1>0. /\ BTTypeOK /\ ClientOK /\ TypesAt(i) /\ PlaceOK(i) /\ RelayOK(i) /\ TargetOK(i) /\ WriteOK(i)
      /\ ClosedOK(i) /\ UpOK(i) /\ DownOK(i) /\ client \in Clients /\ client.pc \in {"send", "close"}
      /\ mode = "relay" /\ UNCHANGED <<setting, helper, relay, opener, writer, rf, crashes>>
  BY <1>1, Parts DEF SendToRelay, MacInv, BTTypeOK
<1>2. /\ client' \in Clients /\ client'.attempt = client.attempt /\ client'.got = client.got
      /\ client'.pc \in {"read", "after", "closing"} /\ Now' = Now /\ mode' = mode
  <2>1. PICK pc \in {"read", "after", "closing"} : client' = [client EXCEPT !.pc = pc, !.toWrite = <<>>]
    BY <1>0 DEF SendToRelay, Written, At
  <2>2. <<>> \in Seq(Data)
    BY EmptySeq
  <2>3. client' \in Clients
    BY <1>0, <2>1, <2>2 DEF Clients
  <2> QED BY <1>0, <2>1, <2>3 DEF Clients, Now, mode
<1>3. ClientOK' \/ relay'[i] # relay[i] \/ sock'[i] # sock[i]
  BY <1>0, <1>1, <1>2 DEF ClientOK, At
<1>4. CASE UNCHANGED <<sock, phone>>
  <2>1. ClientOK' /\ At("line")' = At("line")
    BY <1>0, <1>2 DEF ClientOK, At
  <2>2. PlaceOK(i)'
    BY <1>0, <1>1, <1>2, <1>4 DEF PlaceOK, At
  <2> QED BY <1>0, <1>1, <1>2, <1>4, <2>1, <2>2, ClientStep
<1>5. CASE /\ sock[i].helper
           /\ sock' = [sock EXCEPT ![Now].up = @ \o client.toWrite]
           /\ phone' = [phone EXCEPT ![Now].asked = @ \o client.toWrite]
  <2>1. PICK w \in Seq(Data), u \in Seq(Data), a \in Seq(Data) :
           w = client.toWrite /\ u = sock[i].up /\ a = phone[i].asked
    BY <1>0 DEF TypesAt, Socks, Phones, Clients
  <2>2. PICK uw \in Seq(Data), aw \in Seq(Data) : uw = u \o w /\ aw = a \o w
    BY Joined
  <2>3. OnlyAt(i) /\ sock'[i] = [sock[i] EXCEPT !.up = uw] /\ phone'[i] = [phone[i] EXCEPT !.asked = aw]
    BY <1>0, <1>1, <1>5, <2>1, <2>2 DEF OnlyAt, BTTypeOK
  <2>4. /\ sock'[i] \in Socks /\ sock'[i].helper = sock[i].helper /\ sock'[i].up = uw
        /\ sock'[i].down = sock[i].down /\ sock'[i].client = sock[i].client
    BY <1>0, <2>3 DEF TypesAt, Socks
  <2>5. /\ phone'[i] \in Phones /\ phone'[i].asked = aw /\ phone'[i].told = phone[i].told
        /\ phone'[i].said = phone[i].said
    BY <1>0, <2>3 DEF TypesAt, Phones
  <2>6. relay[i].main \in {"poll", "write", "join"}
    BY <1>0, <1>1, <1>5 DEF RelayOK, ClientOK, TypesAt, Relays
  <2>7. TypesAt(i)'
    BY <1>0, <2>4, <2>5 DEF TypesAt
  <2>8. ClientOK'
    BY <1>0, <1>1, <1>2, <2>6 DEF ClientOK, At
  <2>9. PlaceOK(i)'
    BY <1>0, <1>1, <1>2, <2>4 DEF PlaceOK, At
  <2>10. RelayOK(i)' /\ TargetOK(i)' /\ WriteOK(i)' /\ ClosedOK(i)'
    BY <1>0, <1>2, <2>4, <2>6 DEF RelayOK, TargetOK, WriteOK, ClosedOK
  <2>11. DownOK(i)'
    <3>1. Said(i)' = Said(i) /\ Heard(i)' = Heard(i) /\ At("line")' = FALSE /\ At("line") = FALSE
      BY <1>0, <1>2, <2>4, <2>5 DEF Said, Heard, At
    <3> QED BY <1>0, <1>2, <2>4, <2>5, <3>1 DEF DownOK
  <2>12. UpOK(i)'
    BY <1>0, <1>2, <2>1, <2>2, <2>4, <2>5, <2>6, SentBehind
  <2> QED BY <1>1, <1>2, <2>3, <2>7, <2>8, <2>9, <2>10, <2>11, <2>12, LocalStep DEF AttemptOK
<1> QED BY <1>1, <1>4, <1>5 DEF SendToRelay

(* RFCOMMStream::Connect has returned to the client. *)
LEMMA ConnectedKeeps ==
    ASSUME MacInv, Connected
    PROVE  MacInv'
<1>1. PICK i \in Attempts : i = Now
  BY Current
<1>0. /\ BTTypeOK /\ ClientOK /\ TypesAt(i) /\ PlaceOK(i) /\ TargetOK(i)
      /\ client \in Clients /\ client.pc = "connecting" /\ mode = "direct" /\ client.got = <<>>
      /\ UNCHANGED <<setting, sock, helper, relay, writer, phone, crashes>>
  BY <1>1, Current DEF Connected, ClientOK, At
<1>2. OnlyAt(i) /\ opener'[i] = "none" /\ writer'[i] = writer[i] /\ phone'[i] = phone[i]
  BY <1>0, <1>1 DEF Connected, Opening, OnlyAt, BTTypeOK
<1>3. CASE opener[Now] = "done" /\ UNCHANGED rf /\ client' = [client EXCEPT !.pc = "send", !.toWrite = Request]
  <2>0. Request \in Seq(Data) /\ Request # <<>>
    BY DEF Request, Data
  <2>1. PICK r \in Seq(Data) : r = Request /\ r # <<>>
    BY <2>0
  <2>2. client' = [client EXCEPT !.pc = "send", !.toWrite = r]
    BY <1>3, <2>1
  <2>3. /\ client' \in Clients /\ client'.attempt = client.attempt /\ client'.pc = "send"
        /\ client'.toWrite = r
    BY <1>0, <2>2 DEF Clients
  <2>4. TypesAt(i)' /\ TargetOK(i)'
    BY <1>0, <1>2, <1>3 DEF TypesAt, TargetOK, Openers
  <2>5. ClientOK'
    BY <1>0, <2>1, <2>3 DEF ClientOK, At, mode
  <2>6. PlaceOK(i)'
    BY <1>0, <1>1, <1>2, <2>3 DEF PlaceOK, At, mode, Now
  <2> QED BY <1>0, <1>1, <1>2, <2>3, <2>4, <2>5, <2>6, DirectStep
<1>4. CASE Goto("failed") /\ rf' = [rf EXCEPT ![Now] = Destroyed(@)]
  <2>1. /\ client' \in Clients /\ client'.attempt = client.attempt /\ client'.pc = "failed"
        /\ client'.got = <<>>
    BY <1>0, <1>4 DEF Clients, Goto
  <2>2. rf'[i] = Destroyed(rf[i]) /\ rf[i] \in StreamRecords
    BY <1>0, <1>1, <1>4 DEF BTTypeOK
  <2>3. rf'[i] \in StreamRecords /\ rf'[i].attached = FALSE /\ rf'[i].query = rf[i].query
        /\ rf'[i].pending = rf[i].pending
    BY <2>2, DestroyedStream
  <2>4. TypesAt(i)' /\ TargetOK(i)'
    BY <1>0, <1>2, <2>3 DEF TypesAt, TargetOK, Openers
  <2>5. ClientOK'
    BY <1>0, <2>1 DEF ClientOK, At, mode
  <2>6. PlaceOK(i)'
    BY <1>0, <1>1, <1>2, <2>1 DEF PlaceOK, At, mode, Now
  <2> QED BY <1>0, <1>1, <1>2, <2>1, <2>4, <2>5, <2>6, DirectStep
<1> QED BY <1>3, <1>4 DEF Connected

(* Flush of the client's own stream, chunk by chunk. *)
LEMMA SendToStreamKeeps ==
    ASSUME MacInv, SendToStream
    PROVE  MacInv'
<1>1. PICK i \in Attempts : i = Now
  BY Current
<1>0. /\ BTTypeOK /\ ClientOK /\ TypesAt(i) /\ PlaceOK(i) /\ TargetOK(i)
      /\ client \in Clients /\ client.pc \in {"send", "close"} /\ mode = "direct" /\ client.toWrite # <<>>
      /\ UNCHANGED <<setting, sock, helper, relay, opener, crashes>>
  BY <1>1, Current DEF SendToStream, ClientOK
<1>2. CASE /\ BeginWrite(Now) /\ UNCHANGED client
           /\ phone' = [phone EXCEPT ![Now].asked = Append(@, Head(client.toWrite))]
  <2>1. PICK x \in Data : x = Head(client.toWrite)
    BY <1>0, TakeFirst DEF Clients
  <2>2. /\ OnlyAt(i) /\ writer'[i] \in {"failed", "submit"}
        /\ phone'[i] = [phone[i] EXCEPT !.asked = Append(phone[i].asked, x)]
        /\ rf'[i] = rf[i] \/ rf'[i] = [rf[i] EXCEPT !.write = NoData]
    BY <1>0, <1>1, <1>2, <2>1 DEF BeginWrite, OnlyAt, BTTypeOK
  <2>3. phone'[i] \in Phones
    <3>1. PICK a \in Seq(Data) : a = Append(phone[i].asked, x)
      BY <1>0, Words DEF TypesAt, Phones
    <3> QED BY <1>0, <2>2, <3>1 DEF TypesAt, Phones
  <2>4. /\ rf'[i] \in StreamRecords /\ rf'[i].query = rf[i].query /\ rf'[i].pending = rf[i].pending
        /\ rf'[i].attached = rf[i].attached /\ rf'[i].held = rf[i].held
    BY <1>0, <2>2 DEF TypesAt, StreamRecords
  <2>5. TypesAt(i)' /\ TargetOK(i)'
    BY <1>0, <2>2, <2>3, <2>4 DEF TypesAt, TargetOK, Writers
  <2>6. ClientOK'
    BY <1>0, <1>2 DEF ClientOK, At, mode, Now
  <2>7. PlaceOK(i)'
    BY <1>0, <1>1, <1>2, <2>2, <2>4 DEF PlaceOK, At, mode, Now
  <2> QED BY <1>0, <1>1, <1>2, <2>2, <2>5, <2>6, <2>7, DirectStep
<1>3. CASE /\ writer[Now] \in {"done", "failed"}
           /\ writer' = [writer EXCEPT ![Now] = "idle"]
           /\ LET rest == IF writer[Now] = "done" THEN Tail(client.toWrite) ELSE <<>>
              IN  client' = [client EXCEPT !.toWrite = rest,
                               !.pc = IF rest = <<>> THEN Written(writer[Now] = "done") ELSE @]
           /\ UNCHANGED <<phone, rf>>
  <2>1. PICK rest \in Seq(Data) : rest = IF writer[Now] = "done" THEN Tail(client.toWrite) ELSE <<>>
    BY <1>0, TakeFirst, EmptySeq DEF Clients
  <2>2. PICK pc \in {"send", "close", "read", "after", "closing"} :
          /\ client' = [client EXCEPT !.toWrite = rest, !.pc = pc]
          /\ pc \in {"send", "close"} => rest # <<>>
    BY <1>0, <1>3, <2>1 DEF Written, At
  <2>3. /\ client' \in Clients /\ client'.attempt = client.attempt /\ client'.pc = pc
        /\ client'.toWrite = rest
    BY <1>0, <2>2 DEF Clients
  <2>4. OnlyAt(i) /\ writer'[i] = "idle" /\ rf'[i] = rf[i] /\ phone'[i] = phone[i]
    BY <1>0, <1>1, <1>3 DEF OnlyAt, BTTypeOK
  <2>5. TypesAt(i)' /\ TargetOK(i)'
    BY <1>0, <2>4 DEF TypesAt, TargetOK, Writers
  <2>6. ClientOK'
    BY <1>0, <2>2, <2>3 DEF ClientOK, At, mode
  <2>7. PlaceOK(i)'
    <3>1. opener[i] = "none"
      BY <1>0 DEF PlaceOK, At
    <3> QED BY <1>0, <1>1, <2>3, <2>4, <3>1 DEF PlaceOK, At, mode, Now
  <2> QED BY <1>0, <1>1, <2>3, <2>4, <2>5, <2>6, <2>7, DirectStep
<1> QED BY <1>2, <1>3 DEF SendToStream

(* PerformAuthFlow reads from the client's own stream. *)
LEMMA ReadFromStreamKeeps ==
    ASSUME MacInv, ReadFromStream
    PROVE  MacInv'
<1>1. PICK i \in Attempts : i = Now
  BY Current
<1>0. /\ BTTypeOK /\ ClientOK /\ TypesAt(i) /\ PlaceOK(i) /\ TargetOK(i)
      /\ client \in Clients /\ client.pc = "read" /\ mode = "direct"
      /\ UNCHANGED <<setting, sock, helper, relay, opener, writer, phone, crashes>>
  BY <1>1, Current DEF ReadFromStream, At
<1>2. ASSUME NEW pc \in {"read", "after", "thrown"}, client' \in Clients, client'.attempt = client.attempt,
             client'.pc = pc, OnlyAt(i), rf'[i] \in StreamRecords, rf'[i].query = rf[i].query,
             rf'[i].pending = rf[i].pending, rf'[i].attached = rf[i].attached, rf'[i].held = rf[i].held
      PROVE  MacInv'
  <2>1. TypesAt(i)' /\ TargetOK(i)'
    BY <1>0, <1>2 DEF TypesAt, TargetOK
  <2>2. ClientOK'
    BY <1>0, <1>2 DEF ClientOK, At, mode
  <2>3. PlaceOK(i)'
    BY <1>0, <1>1, <1>2 DEF PlaceOK, At, mode, Now
  <2> QED BY <1>0, <1>1, <1>2, <2>1, <2>2, <2>3, DirectStep
<1>3. CASE Goto("after") /\ UNCHANGED rf
  <2>1. client' \in Clients /\ client'.attempt = client.attempt /\ client'.pc = "after"
    BY <1>0, <1>3 DEF Clients, Goto
  <2>2. OnlyAt(i) /\ rf'[i] = rf[i]
    BY <1>0, <1>3 DEF OnlyAt, BTTypeOK
  <2> QED BY <1>0, <1>2, <2>1, <2>2 DEF TypesAt
<1>4. CASE /\ Read(Now, "data") /\ Handled(Head(rf[Now].readBuffer))
           /\ rf' = [rf EXCEPT ![Now].readBuffer = Tail(@)]
  <2>1. PICK b \in Seq(Data), g \in Seq(Data) : b = rf[i].readBuffer /\ g = client.got
    BY <1>0 DEF TypesAt, StreamRecords, Clients
  <2>2. b # <<>>
    BY <1>1, <1>4, <2>1 DEF Read
  <2>3. PICK x \in Data, t \in Seq(Data) : x = Head(b) /\ t = Tail(b)
    BY <2>2, TakeFirst
  <2>4. PICK next \in {"read", "after", "thrown"} : client' = [client EXCEPT !.got = Append(g, x), !.pc = next]
    BY <1>1, <1>4, <2>1, <2>3 DEF Handled
  <2>5. Append(g, x) \in Seq(Data)
    BY Words
  <2>6. client' \in Clients /\ client'.attempt = client.attempt /\ client'.pc = next
    BY <1>0, <2>4, <2>5 DEF Clients
  <2>7. OnlyAt(i) /\ rf'[i] = [rf[i] EXCEPT !.readBuffer = t]
    BY <1>0, <1>1, <1>4, <2>1, <2>3 DEF OnlyAt, BTTypeOK
  <2>8. /\ rf'[i] \in StreamRecords /\ rf'[i].query = rf[i].query /\ rf'[i].pending = rf[i].pending
        /\ rf'[i].attached = rf[i].attached /\ rf'[i].held = rf[i].held
    BY <1>0, <2>7 DEF TypesAt, StreamRecords
  <2> QED BY <1>2, <2>6, <2>7, <2>8
<1> QED BY <1>3, <1>4 DEF ReadFromStream

(* CloseStream: the socket is closed, or the stream destroyed. *)
LEMMA CloseStreamKeeps ==
    ASSUME MacInv, CloseStream
    PROVE  MacInv'
<1>1. PICK i \in Attempts : i = Now
  BY Current
<1>0. /\ BTTypeOK /\ ClientOK /\ TypesAt(i) /\ PlaceOK(i) /\ TargetOK(i)
      /\ client \in Clients /\ client.pc \in {"closing", "thrown"}
      /\ UNCHANGED <<setting, helper, relay, opener, writer, phone, crashes>>
  BY <1>1, Current DEF CloseStream
<1>2. /\ client' \in Clients /\ client'.attempt = client.attempt /\ client'.pc = "ended"
      /\ client'.got = client.got
  <2>1. PICK st \in {"UNKNOWN", "CONNECT_ERROR", "FLOW", "UNK_ERROR"} :
          client' = [client EXCEPT !.pc = "ended", !.isRunning = FALSE, !.toWrite = <<>>, !.state = st]
    BY <1>0 DEF CloseStream, Clients
  <2>2. <<>> \in Seq(Data)
    BY EmptySeq
  <2>3. client' \in Clients
    BY <1>0, <2>1, <2>2 DEF Clients
  <2> QED BY <1>0, <2>1, <2>3 DEF Clients
<1>3. CASE mode = "relay"
  <2>1. sock' = [sock EXCEPT ![i].client = FALSE, ![i].down = <<>>] /\ UNCHANGED rf
    BY <1>1, <1>3 DEF CloseStream
  <2> QED BY <1>0, <1>1, <1>2, <1>3, <2>1, HangUp
<1>4. CASE mode # "relay"
  <2>0. mode = "direct"
    <3>1. setting.mode \in {"relay", "direct"}
      BY <1>0, MacConstants DEF BTTypeOK
    <3> QED BY <1>4, <3>1 DEF mode
  <2>1. rf' = [rf EXCEPT ![i] = Destroyed(@)] /\ UNCHANGED sock
    BY <1>1, <1>4 DEF CloseStream
  <2>2. rf'[i] = Destroyed(rf[i]) /\ rf[i] \in StreamRecords /\ OnlyAt(i)
    BY <1>0, <2>1 DEF BTTypeOK, OnlyAt
  <2>3. rf'[i] \in StreamRecords /\ rf'[i].attached = FALSE /\ rf'[i].query = rf[i].query
        /\ rf'[i].pending = rf[i].pending
    BY <2>2, DestroyedStream
  <2>4. TypesAt(i)' /\ TargetOK(i)'
    <3>1. UNCHANGED <<sock, relay, opener, writer, phone>>
      BY <1>0, <2>1
    <3> QED BY <1>0, <2>3, <3>1 DEF TypesAt, TargetOK
  <2>5. ClientOK'
    BY <1>2 DEF ClientOK, At
  <2>6. PlaceOK(i)'
    <3>1. relay[i].main = "none" /\ ~sock[i].client /\ opener[i] = "none" /\ writer[i] = "idle"
      BY <1>0, <1>1, <2>0, Current DEF PlaceOK, RelayOK, At
    <3>2. Now' = Now /\ mode' = mode
      BY <1>0, <1>2 DEF Now, mode
    <3> QED BY <1>0, <2>1, <3>1, <3>2 DEF PlaceOK
  <2> QED BY <1>0, <1>1, <1>2, <2>0, <2>1, <2>2, <2>4, <2>5, <2>6, DirectStep
<1> QED BY <1>3, <1>4

----------------------------------------------------------------------------
(* Deaths. *)

(* What the client hears no more is still what the phone said. *)
LEMMA DownCut ==
    ASSUME NEW i \in Attempts, TypesAt(i), client \in Clients, DownOK(i), mode = "relay", i = Now,
           Said(i)' = Said(i), client'.got = client.got, Heard(i)' = <<>>
    PROVE  \E rest \in Seq(Data) : Said(i)' = (client'.got \o Heard(i)') \o rest
<1>1. PICK rest \in Seq(Data) : Said(i) = (client.got \o Heard(i)) \o rest
  BY DEF DownOK
<1>2. PICK g \in Seq(Data), h \in Seq(Data) : g = client.got /\ h = Heard(i)
  <2>1. sock[i].down \in Seq(Data) /\ client.got \in Seq(Data)
    BY DEF TypesAt, Socks, Clients
  <2> QED BY <2>1, TakeFirst DEF Heard
<1>3. h \o rest \in Seq(Data)
  BY Joined
<1>4. (g \o h) \o rest = g \o (h \o rest)
  BY Assoc
<1>5. g \o <<>> = g
  BY Words
<1> QED BY <1>1, <1>2, <1>3, <1>4, <1>5

(* The death of pcbu_auth closes its sockets, or takes its stream with it. *)
LEMMA ClientDiesKeeps ==
    ASSUME MacInv, ClientDies
    PROVE  MacInv'
<1>0. /\ BTTypeOK /\ client \in Clients /\ UNCHANGED <<setting, helper, relay, phone>>
      /\ mode' = mode /\ crashes' = crashes + 1 /\ crashes \in Nat
  BY Current DEF ClientDies, BTTypeOK, mode
<1>1. /\ client' \in Clients /\ client'.pc = "dead" /\ client'.attempt = client.attempt
      /\ client'.got = client.got /\ Now' = Now
  BY <1>0 DEF ClientDies, Clients, Now
<1>2. ClientOK'
  BY <1>1 DEF ClientOK, At
<1>3. CASE mode = "relay"
  <2>1. /\ sock' = [i \in Attempts |-> [sock[i] EXCEPT !.client = FALSE, !.down = <<>>]]
        /\ UNCHANGED <<opener, writer, rf>>
    BY <1>3 DEF ClientDies
  <2>2. ASSUME NEW i \in Attempts
        PROVE  /\ sock'[i] \in Socks /\ sock'[i].helper = sock[i].helper /\ sock'[i].up = sock[i].up
               /\ sock'[i].down = <<>> /\ sock'[i].client = FALSE
    <3>1. sock[i] \in Socks /\ sock'[i] = [sock[i] EXCEPT !.client = FALSE, !.down = <<>>]
      BY <1>0, <2>1 DEF BTTypeOK
    <3> QED BY <3>1, HungUp
  <2>3. BTTypeOK'
    <3>1. sock' \in [Attempts -> Socks]
      BY <2>1, <2>2
    <3>2. crashes' \in Nat /\ helper' \in BOOLEAN
      BY <1>0 DEF BTTypeOK
    <3> QED BY <1>0, <1>1, <2>1, <3>1, <3>2 DEF BTTypeOK
  <2>4. ASSUME NEW i \in Attempts
        PROVE  AttemptOK(i)'
    <3>0. /\ TypesAt(i) /\ PlaceOK(i) /\ RelayOK(i) /\ TargetOK(i) /\ WriteOK(i)
          /\ ClosedOK(i) /\ UpOK(i) /\ DownOK(i)
      BY Parts
    <3>1. PlaceOK(i)'
      BY <1>0, <1>1, <1>3, <2>1, <2>2, <3>0 DEF PlaceOK, At
    <3>1a. RelayOK(i)'
      BY <1>0, <2>2, <3>0 DEF RelayOK
    <3>2. TargetOK(i)' /\ WriteOK(i)' /\ ClosedOK(i)'
      BY <1>0, <2>1, <3>0 DEF TargetOK, WriteOK, ClosedOK
    <3>3. UpOK(i)'
      BY <1>0, <2>1, <2>2, <3>0 DEF UpOK
    <3>4. Said(i)' = Said(i) /\ Heard(i)' = <<>>
      BY <1>0, <2>2 DEF Said, Heard
    <3>5. i = Now => \E rest \in Seq(Data) : Said(i)' = (client'.got \o Heard(i)') \o rest
      BY <1>0, <1>1, <1>3, <3>0, <3>4, DownCut
    <3>6. DownOK(i)'
      BY <1>0, <1>1, <2>1, <2>2, <3>0, <3>5 DEF DownOK
    <3> QED BY <3>1, <3>1a, <3>2, <3>3, <3>6 DEF AttemptOK
  <2> QED BY <1>2, <2>3, <2>4 DEF MacInv
<1>4. CASE mode # "relay"
  <2>0. mode = "direct"
    <3>1. setting.mode \in {"relay", "direct"}
      BY <1>0, MacConstants DEF BTTypeOK
    <3> QED BY <1>4, <3>1 DEF mode
  <2>1. /\ rf' = [i \in Attempts |-> NewStream] /\ opener' = [i \in Attempts |-> "none"]
        /\ writer' = [i \in Attempts |-> "idle"] /\ UNCHANGED sock
    BY <1>4 DEF ClientDies
  <2>2. BTTypeOK'
    BY <1>0, <1>1, <2>1, NewStreamType DEF BTTypeOK, Openers, Writers
  <2>3. ASSUME NEW i \in Attempts
        PROVE  AttemptOK(i)'
    <3>0. PlaceOK(i) /\ RelayOK(i)
      BY Parts
    <3>1. rf'[i] = NewStream /\ opener'[i] = "none" /\ writer'[i] = "idle"
      BY <2>1
    <3>2. PlaceOK(i)' /\ RelayOK(i)'
      BY <1>0, <1>1, <2>0, <2>1, <3>0, <3>1 DEF PlaceOK, RelayOK
    <3>3. TargetOK(i)'
      BY <3>1, NewStreamType DEF TargetOK
    <3>4. WriteOK(i)' /\ ClosedOK(i)' /\ UpOK(i)' /\ DownOK(i)'
      BY <1>0, <2>0 DEF WriteOK, ClosedOK, UpOK, DownOK
    <3> QED BY <3>2, <3>3, <3>4 DEF AttemptOK
  <2> QED BY <1>2, <2>2, <2>3 DEF MacInv
<1> QED BY <1>3, <1>4

(* The death of the helper takes its streams with it and ends its sockets.  *)
LEMMA HelperDiesKeeps ==
    ASSUME MacInv, HelperDies
    PROVE  MacInv'
<1>0. /\ BTTypeOK /\ ClientOK /\ client \in Clients /\ UNCHANGED <<setting, client, phone>> /\ mode' = mode
      /\ mode = "relay" /\ crashes' = crashes + 1 /\ crashes \in Nat /\ Now' = Now /\ Now \in Attempts
      /\ helper' = FALSE
  BY Current DEF HelperDies, BTTypeOK, mode, Now
<1>1. /\ rf' = [i \in Attempts |-> NewStream] /\ opener' = [i \in Attempts |-> "none"]
      /\ writer' = [i \in Attempts |-> "idle"]
      /\ sock' = [i \in Attempts |-> [sock[i] EXCEPT !.helper = FALSE, !.up = <<>>]]
      /\ relay' = [i \in Attempts |-> IF relay[i].main \in {"none", "ended"} THEN relay[i]
                                     ELSE [relay[i] EXCEPT !.main = "dead", !.phone = "dead"]]
  BY DEF HelperDies
<1>2. ASSUME NEW i \in Attempts
      PROVE  /\ sock'[i] \in Socks /\ sock'[i].helper = FALSE /\ sock'[i].up = <<>>
             /\ sock'[i].down = sock[i].down /\ sock'[i].client = sock[i].client
  <2>1. sock[i] \in Socks /\ sock'[i] = [sock[i] EXCEPT !.helper = FALSE, !.up = <<>>] /\ <<>> \in Seq(Data)
    BY <1>0, <1>1, EmptySeq DEF BTTypeOK
  <2>2. sock'[i] \in Socks
    BY <2>1 DEF Socks
  <2> QED BY <2>1, <2>2 DEF Socks
<1>3. ASSUME NEW i \in Attempts
      PROVE  /\ relay'[i] \in Relays
             /\ \/ relay[i].main \in {"none", "ended"} /\ relay'[i] = relay[i]
                \/ relay[i].main \notin {"none", "ended"} /\ relay'[i].main = "dead" /\ relay'[i].phone = "dead"
  <2>1. relay[i] \in Relays
    BY <1>0 DEF BTTypeOK
  <2>2. CASE relay[i].main \in {"none", "ended"}
    BY <1>1, <2>1, <2>2
  <2>3. CASE relay[i].main \notin {"none", "ended"}
    <3>1. relay'[i] = [relay[i] EXCEPT !.main = "dead", !.phone = "dead"]
      BY <1>1, <2>3
    <3> QED BY <2>1, <2>3, <3>1 DEF Relays
  <2> QED BY <2>2, <2>3
<1>4. BTTypeOK'
  <2>1. sock' \in [Attempts -> Socks] /\ relay' \in [Attempts -> Relays]
    BY <1>1, <1>2, <1>3
  <2>2. crashes' \in Nat
    BY <1>0
  <2>3. helper' \in BOOLEAN
    BY DEF HelperDies
  <2> QED BY <1>0, <1>1, <2>1, <2>2, <2>3, NewStreamType DEF BTTypeOK, Openers, Writers
<1>5. ClientOK'
  BY <1>0, <1>2, <1>3 DEF ClientOK, At
<1>6. ASSUME NEW i \in Attempts
      PROVE  AttemptOK(i)'
  <2>0. /\ TypesAt(i) /\ PlaceOK(i) /\ RelayOK(i) /\ TargetOK(i) /\ WriteOK(i)
        /\ ClosedOK(i) /\ UpOK(i) /\ DownOK(i)
    BY Parts
  <2>1. rf'[i] = NewStream /\ opener'[i] = "none" /\ writer'[i] = "idle"
    BY <1>1
  <2>2. PlaceOK(i)'
    BY <1>0, <1>2, <1>3, <2>0, <2>1 DEF PlaceOK, At
  <2>3. RelayOK(i)'
    BY <1>0, <1>2, <1>3, <2>0 DEF RelayOK
  <2>4. TargetOK(i)' /\ WriteOK(i)' /\ ClosedOK(i)'
    BY <1>0, <2>1, NewStreamType DEF TargetOK, WriteOK, ClosedOK
  <2>5. UpOK(i)'
    <3>1. rf'[i].inFlight = <<>> /\ relay'[i].main \in {"none", "ended", "dead"}
      BY <1>3, <2>1, NewStreamType
    <3>2. PICK rest \in Seq(Data) : phone[i].asked = (phone[i].told \o rf[i].inFlight) \o rest
      BY <1>0, <2>0 DEF UpOK
    <3>3. PICK t \in Seq(Data), f \in Seq(Data) : t = phone[i].told /\ f = rf[i].inFlight
      BY <2>0 DEF TypesAt, Phones, StreamRecords
    <3>4. f \o rest \in Seq(Data)
      BY Joined
    <3>5. (t \o f) \o rest = t \o (f \o rest)
      BY Assoc
    <3>6. t \o <<>> = t
      BY Words
    <3>7. \E r \in Seq(Data) : phone'[i].asked = (phone'[i].told \o rf'[i].inFlight) \o r
      BY <1>0, <3>1, <3>2, <3>3, <3>4, <3>5, <3>6
    <3> QED BY <1>0, <1>3, <2>0, <3>1, <3>7 DEF UpOK
  <2>6. DownOK(i)'
    <3>1. Said(i)' = Said(i) /\ Heard(i)' = Heard(i) /\ At("line")' = At("line")
      BY <1>0, <1>2 DEF Said, Heard, At
    <3> QED BY <1>0, <1>2, <1>3, <2>0, <2>1, <3>1, NewStreamType DEF DownOK
  <2> QED BY <2>2, <2>3, <2>4, <2>5, <2>6 DEF AttemptOK
<1> QED BY <1>4, <1>5, <1>6 DEF MacInv

----------------------------------------------------------------------------
(* The invariant. *)

(* launchd starts the helper again, or nothing happens. *)
LEMMA IdleKeeps ==
    ASSUME MacInv, HelperStarts \/ UNCHANGED btVars
    PROVE  MacInv'
<1>1. UNCHANGED <<setting, client, sock, relay, opener, writer, rf, phone, crashes>> /\ helper' \in BOOLEAN
  BY DEF HelperStarts, btVars, MacInv, BTTypeOK
<1>2. BTTypeOK' /\ ClientOK'
  BY <1>1 DEF MacInv, BTTypeOK, ClientOK, At, mode, Now
<1>3. ASSUME NEW i \in Attempts
      PROVE  AttemptOK(i)'
  <2>0. /\ PlaceOK(i) /\ RelayOK(i) /\ TargetOK(i) /\ WriteOK(i) /\ ClosedOK(i) /\ UpOK(i) /\ DownOK(i)
    BY Parts
  <2>1. UpOK(i)' /\ DownOK(i)'
    BY <1>1, <2>0, UpSame, DownSame
  <2>2. PlaceOK(i)'
    BY <1>1, <2>0 DEF PlaceOK, At, mode, Now
  <2>3. RelayOK(i)' /\ TargetOK(i)' /\ WriteOK(i)' /\ ClosedOK(i)'
    BY <1>1, <2>0 DEF RelayOK, TargetOK, WriteOK, ClosedOK, mode
  <2> QED BY <2>1, <2>2, <2>3 DEF AttemptOK
<1> QED BY <1>2, <1>3 DEF MacInv

(* Nothing has been sent, said or opened. *)
LEMMA InitInv ==
    ASSUME BTInit
    PROVE  MacInv
<1>1. 1 \in Attempts /\ <<>> \in Seq(Data) /\ 0 \in 0 .. Len(Answers)
  BY MacConstants, EmptySeq, LenProperties DEF Attempts
<1>2. client \in Clients /\ client.pc = "open" /\ client.got = <<>> /\ client.attempt = 1 /\ Now = 1
  BY <1>1 DEF BTInit, Clients, Now
<1>3. ASSUME NEW i \in Attempts
      PROVE  /\ sock[i] = [up |-> <<>>, down |-> <<>>, client |-> FALSE, helper |-> FALSE]
             /\ relay[i] = [main |-> "none", phone |-> "none", isRunning |-> TRUE, up |-> <<>>, down |-> <<>>]
             /\ opener[i] = "none" /\ writer[i] = "idle" /\ rf[i] = NewStream
             /\ phone[i] = [said |-> 0, told |-> <<>>, asked |-> <<>>]
             /\ sock[i] \in Socks /\ relay[i] \in Relays /\ rf[i] \in StreamRecords /\ phone[i] \in Phones
  <2>1. /\ [up |-> <<>>, down |-> <<>>, client |-> FALSE, helper |-> FALSE] \in Socks
        /\ [main |-> "none", phone |-> "none", isRunning |-> TRUE, up |-> <<>>, down |-> <<>>] \in Relays
        /\ [said |-> 0, told |-> <<>>, asked |-> <<>>] \in Phones
    BY <1>1 DEF Socks, Relays, Phones
  <2> QED BY <2>1, NewStreamType DEF BTInit
<1>4. BTTypeOK
  <2>1. /\ sock \in [Attempts -> Socks] /\ relay \in [Attempts -> Relays]
        /\ opener \in [Attempts -> Openers] /\ writer \in [Attempts -> Writers]
        /\ rf \in [Attempts -> StreamRecords] /\ phone \in [Attempts -> Phones]
    BY <1>3 DEF BTInit, Openers, Writers
  <2> QED BY <1>2, <2>1 DEF BTInit, BTTypeOK
<1>5. ClientOK
  BY <1>1, <1>2, <1>3 DEF ClientOK, At
<1>6. ASSUME NEW i \in Attempts
      PROVE  AttemptOK(i)
  <2>1. PlaceOK(i) /\ RelayOK(i)
    BY <1>3 DEF PlaceOK, RelayOK
  <2>2. TargetOK(i) /\ WriteOK(i) /\ ClosedOK(i)
    BY <1>3, NewStreamType DEF TargetOK, WriteOK, ClosedOK
  <2>3. <<>> \o <<>> = <<>> /\ (<<>> \o <<>>) \o <<>> = <<>>
    BY <1>1, Words
  <2>3a. /\ rf[i].inFlight = <<>> /\ rf[i].readBuffer = <<>> /\ phone[i].asked = <<>> /\ phone[i].told = <<>>
         /\ phone[i].said = 0 /\ relay[i].main = "none" /\ ~sock[i].client /\ sock[i].down = <<>>
    BY <1>3, NewStreamType
  <2>4. UpOK(i)
    BY <1>1, <2>3, <2>3a DEF UpOK
  <2>5. Said(i) = <<>> /\ Heard(i) = <<>>
    BY <1>2, <2>3a DEF Said, Heard, At
  <2>6. DownOK(i)
    BY <1>1, <1>2, <2>3, <2>3a, <2>5 DEF DownOK
  <2> QED BY <2>1, <2>2, <2>4, <2>6 DEF AttemptOK
<1> QED BY <1>4, <1>5, <1>6 DEF MacInv

(* Every step of a thread or a callback of an attempt. *)
LEMMA AttemptKeeps ==
    ASSUME MacInv, NEW i \in Attempts,
           Connect(i) \/ WriteRaw(i) \/ Callback(i) \/ RelayClient(i) \/ PhoneThread(i)
    PROVE  MacInv'
<1>1. ASSUME Connect(i) PROVE MacInv'
  <2>1. QueryFails(i) \/ AwaitQuery(i) => MacInv'
    BY LookKeeps DEF QueryFails, AwaitQuery
  <2> QED BY <1>1, <2>1, StartQueryKeeps, OpenChannelKeeps, AwaitChannelKeeps DEF Connect
<1>2. ASSUME WriteRaw(i) PROVE MacInv'
  BY <1>2, SubmitKeeps, AwaitWriteKeeps DEF WriteRaw
<1>3. ASSUME Callback(i) PROVE MacInv'
  BY <1>3, StateCallbackKeeps, DataKeeps, WriteCompleteKeeps DEF Callback
<1>4. ASSUME RelayClient(i) PROVE MacInv'
  BY <1>4, ReadRequestKeeps, ReplyErrorKeeps, ReplyOKKeeps, PollKeeps, PassUpKeeps, JoinKeeps DEF RelayClient
<1>5. ASSUME PhoneThread(i) PROVE MacInv'
  BY <1>5, ReadPhoneKeeps, PassDownKeeps DEF PhoneThread
<1> QED BY <1>1, <1>2, <1>3, <1>4, <1>5

(* Every step. *)
LEMMA BTNextKeeps ==
    ASSUME MacInv, [BTNext]_btVars
    PROVE  MacInv'
<1>1. ASSUME ConnectThread PROVE MacInv'
  BY <1>1, OpenKeeps, AskKeeps, ReadLineKeeps, ConnectedKeeps, RetryKeeps, SendToRelayKeeps,
     SendToStreamKeeps, ReadFromRelayKeeps, ReadFromStreamKeeps, AfterFlowKeeps, CloseStreamKeeps
     DEF ConnectThread
<1> QED BY <1>1, StopKeeps, ClientDiesKeeps, HelperDiesKeeps, IdleKeeps, AttemptKeeps DEF BTNext

(* Bluetooth on macOS, the client, the helper and IOBluetooth's callbacks   *)
(* in any order and with any deaths: every word that was written or said is *)
(* where MacInv says, for any number of attempts and any answers.           *)
THEOREM MacInvariant == BTSpec => []MacInv
<1>1. BTInit => MacInv
  BY InitInv
<1>2. MacInv /\ [BTNext]_btVars => MacInv'
  BY BTNextKeeps
<1> QED BY <1>1, <1>2, PTL DEF BTSpec

(* IOBluetooth never calls back a delegate that is gone                     *)
(* (RFCOMMStream.Mac.mm:39-55, 95-104).                                     *)
THEOREM TargetsAlive == BTSpec => []CallbackTargetsAlive
<1>1. MacInv => CallbackTargetsAlive
  <2> SUFFICES ASSUME MacInv, NEW i \in Attempts, rf[i].query \/ rf[i].attached
               PROVE  rf[i].held \/ rf[i].pending
    BY DEF CallbackTargetsAlive
  <2>1. TargetOK(i)
    BY Parts
  <2> QED BY <2>1 DEF TargetOK
<1> QED BY <1>1, MacInvariant, PTL

(* The data of a write that the helper has in flight stays valid until it   *)
(* completes (RFCOMMStream.Mac.mm:242).                                     *)
THEOREM WriteDataStays == BTSpec => []WriteDataKept
<1>1. MacInv => WriteDataKept
  <2> SUFFICES ASSUME MacInv, mode = "relay", NEW i \in Attempts, rf[i].inFlight # <<>>
               PROVE  rf[i].inFlight = <<rf[i].pendingWrite>>
    BY DEF WriteDataKept
  <2>1. WriteOK(i)
    BY Parts
  <2> QED BY <2>1 DEF WriteOK
<1> QED BY <1>1, MacInvariant, PTL

(* What is followed by something is a prefix of the whole. *)
LEMMA PrefixOf ==
    ASSUME NEW s \in Seq(Data), NEW r \in Seq(Data)
    PROVE  IsPrefix(s, s \o r)
<1>1. s \o r \in Seq(Data) /\ Len(s \o r) = Len(s) + Len(r) /\ Len(s) \in Nat /\ Len(r) \in Nat
  BY ConcatProperties, LenProperties
<1>2. SubSeq(s \o r, 1, Len(s)) = s /\ SubSeq(s, 1, Len(s)) = s
  BY SubSeqFull, SubSeqOfConcat1, <1>1
<1> QED BY <1>1, <1>2 DEF IsPrefix

(* The relay passes on what the client wrote and what the phone said, in    *)
(* order and without a gap, and hangs up on a client only when it has       *)
(* passed down all that the phone said (BluetoothRelay.Mac.h:13-15).        *)
THEOREM RelayKeepsAll == BTSpec => []RelayLosesNothing
<1>1. MacInv => RelayLosesNothing
  <2> SUFFICES ASSUME MacInv, mode = "relay", NEW i \in Attempts
               PROVE  /\ IsPrefix(phone[i].told, phone[i].asked)
                      /\ i = Now => IsPrefix(client.got \o Heard(i), Said(i))
                      /\ /\ relay[i].main = "ended" /\ relay[i].phone = "ended"
                         /\ relay[i].up = <<>> /\ sock[i].client
                         => client.got \o Heard(i) = Said(i)
    BY DEF RelayLosesNothing
  <2>0. TypesAt(i) /\ UpOK(i) /\ DownOK(i) /\ client \in Clients
    BY Parts, Current
  <2>1. IsPrefix(phone[i].told, phone[i].asked)
    <3>1. PICK rest \in Seq(Data) : phone[i].asked = (phone[i].told \o rf[i].inFlight) \o rest
      BY <2>0 DEF UpOK
    <3>2. PICK t \in Seq(Data), f \in Seq(Data) : t = phone[i].told /\ f = rf[i].inFlight
      BY <2>0 DEF TypesAt, Phones, StreamRecords
    <3>3. PICK fr \in Seq(Data) : fr = f \o rest
      BY Joined
    <3>4. (t \o f) \o rest = t \o (f \o rest)
      BY Assoc
    <3>5. IsPrefix(t, t \o fr)
      BY PrefixOf
    <3> QED BY <3>1, <3>2, <3>3, <3>4, <3>5
  <2>2. ASSUME i = Now PROVE IsPrefix(client.got \o Heard(i), Said(i))
    <3>1. PICK rest \in Seq(Data) : Said(i) = (client.got \o Heard(i)) \o rest
      BY <2>0, <2>2 DEF DownOK
    <3>2. PICK g \in Seq(Data), h \in Seq(Data) : g = client.got /\ h = Heard(i)
      BY Pieces
    <3>3. PICK gh \in Seq(Data) : gh = g \o h
      BY Joined
    <3>4. IsPrefix(gh, gh \o rest)
      BY PrefixOf
    <3> QED BY <3>1, <3>2, <3>3, <3>4
  <2>3. /\ relay[i].main = "ended" /\ relay[i].phone = "ended"
        /\ relay[i].up = <<>> /\ sock[i].client
        => client.got \o Heard(i) = Said(i)
    BY <2>0 DEF DownOK
  <2> QED BY <2>1, <2>2, <2>3
<1> QED BY <1>1, MacInvariant, PTL

==============================================================================
