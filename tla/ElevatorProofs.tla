--------------------------- MODULE ElevatorProofs ---------------------------
(***************************************************************************)
(* Elevator, for any number of threads, commands and foreign connections,  *)
(* on every platform: ElevatorInv is inductive, every step of the two      *)
(* processes and their channel is a step of ShellCall or invisible there,  *)
(* and the loss of the elevator is told once.                              *)
(***************************************************************************)
EXTENDS Elevator, TLAPS

(* The messages of the channel are sequences of one element at most. *)
LEMMA OneElement ==
    ASSUME NEW x
    PROVE  /\ Append(<<>>, x) = <<x>> /\ Head(<<x>>) = x /\ Tail(<<x>>) = <<>>
           /\ <<x>> # <<>>
           /\ \A y : <<x>> = <<y>> => x = y
OBVIOUS

(* A command that has been called is one of Commands, and NoCommand is not. *)
LEMMA CommandNames ==
    /\ NoCommand \notin Commands
    /\ \A c \in Commands : c[1] \in Threads /\ c[2] \in 1..MaxCommands /\ c = <<c[1], c[2]>>
    /\ TypeOK => \A t \in Threads : issued[t] > 0 =>
                   /\ Command(t) \in Commands /\ Command(t)[1] = t /\ Command(t)[2] = issued[t]
BY ElevatorAssumption DEF Commands, NoCommand, Command, TypeOK

(* ElevatorInv holds initially. *)
LEMMA InitInv == Init => ElevatorInv
<1> SUFFICES ASSUME Init PROVE ElevatorInv
  OBVIOUS
<1>1. TypeOK
  <2>1. backlog \in Seq({"elevator", "other"}) /\ toElev \in Seq(Commands) /\ toApp \in Seq(Responses)
    BY DEF Init
  <2>2. others \in 0..MaxOthers /\ issued \in [Threads -> 0..MaxCommands]
    BY ElevatorAssumption DEF Init
  <2>3. grace \in BOOLEAN /\ outcome \in BOOLEAN /\ handler \in BOOLEAN
    BY DEF Init
  <2> QED BY <2>1, <2>2, <2>3 DEF Init, TypeOK
<1>2. WayInv /\ ToldInv
  BY DEF Init, WayInv, ToldInv
<1>3. \A c \in Commands : ~OnTheWay(c)
  BY CommandNames DEF Init, OnTheWay
<1>4. ChannelInv /\ RunInv
  BY <1>3 DEF Init, ChannelInv, RunInv, OnTheWay
<1> QED BY <1>1, <1>2, <1>4 DEF ElevatorInv

Quiet == \/ Start \/ Approve \/ Deny \/ GraceEnds \/ Connect \/ ConnectFails \/ OtherConnects
         \/ Accept \/ AcceptFails \/ SetElevatorLostHandler \/ ElevatorExits \/ Destroy

(* The steps that carry no command: starting, connecting, accepting, ending. *)
LEMMA QuietKeeps ==
    ASSUME ElevatorInv, Quiet
    PROVE  ElevatorInv'
<1>0. TypeOK /\ WayInv /\ ChannelInv /\ RunInv /\ ToldInv
  BY DEF ElevatorInv
<1>1. UNCHANGED <<platform, current, outcome, toElev, toApp, mutex, pc, issued, told, runs, succeeded>>
  BY DEF Quiet, Start, Approve, Deny, GraceEnds, Connect, ConnectFails, OtherConnects, Accept,
         AcceptFails, SetElevatorLostHandler, ElevatorExits, Destroy, appVars, launchVars,
         chanVars, elevVars, callVars
<1>2. backlog' \in Seq({"elevator", "other"})
  <2>1. backlog' = backlog \/ backlog' = <<>>
        \/ (\E e \in {"elevator", "other"} : backlog' = Append(backlog, e))
        \/ (backlog # <<>> /\ backlog' = Tail(backlog))
    BY DEF Quiet, Start, Approve, Deny, GraceEnds, Connect, ConnectFails, OtherConnects, Accept,
           AcceptFails, Close, SetElevatorLostHandler, ElevatorExits, Destroy, chanVars
  <2>2. backlog \in Seq({"elevator", "other"})
    BY <1>0 DEF TypeOK
  <2>3. <<>> \in Seq({"elevator", "other"}) /\ \A q \in Seq({"elevator", "other"}) :
           /\ \A e \in {"elevator", "other"} : Append(q, e) \in Seq({"elevator", "other"})
           /\ q # <<>> => Tail(q) \in Seq({"elevator", "other"})
    OBVIOUS
  <2> QED BY <2>1, <2>2, <2>3
<1>3. /\ others' \in 0..MaxOthers
      /\ app' \in {"starting", "testing", "checked", "up", "refused", "gone"}
      /\ launch' \in {"none", "prompt", "approved", "denied", "killed"}
      /\ ipc' \in {"none", "listening", "connected", "closed"}
      /\ link' \in {"none", "open", "shut", "held"}
      /\ elev' \in {"none", "connecting", "reading", "running", "responding", "broken", "exited"}
  BY <1>0, ElevatorAssumption
     DEF TypeOK, Quiet, Start, Approve, Deny, GraceEnds, Connect, ConnectFails, OtherConnects,
         Accept, AcceptFails, Listen, Close, TerminateLauncher, SetElevatorLostHandler,
         ElevatorExits, Destroy, appVars, launchVars, chanVars, elevVars
<1>4. grace' \in BOOLEAN /\ handler' \in BOOLEAN
  BY <1>0
     DEF TypeOK, Quiet, Start, Approve, Deny, GraceEnds, Connect, ConnectFails, OtherConnects,
         Accept, AcceptFails, SetElevatorLostHandler, ElevatorExits, Destroy, appVars, launchVars
<1>5. TypeOK'
  BY <1>0, <1>1, <1>2, <1>3, <1>4 DEF TypeOK
<1>6. WayInv'
  <2>1. /\ elev' \in {"running", "responding"} <=> elev \in {"running", "responding"}
        /\ launch' \in {"none", "prompt", "denied"} => elev' = "none"
        /\ ipc' = "none" => launch' = "none"
    BY <1>0
       DEF WayInv, Quiet, Start, Approve, Deny, GraceEnds, Connect, ConnectFails, OtherConnects,
           Accept, AcceptFails, Listen, Close, TerminateLauncher, SetElevatorLostHandler, ElevatorExits, Destroy,
           launchVars, elevVars, chanVars
  <2> QED BY <1>0, <1>1, <2>1 DEF WayInv
<1>7. ChannelInv'
  <2>1. \A c : OnTheWay(c)' <=> OnTheWay(c)
    BY <1>1 DEF OnTheWay
  <2>2. \/ ipc' = ipc
        \/ ipc \notin {"connected", "closed"}
        \/ ipc' = "closed" /\ \A t \in Threads : pc[t] = "idle"
    BY DEF Quiet, Start, Approve, Deny, GraceEnds, Connect, ConnectFails, OtherConnects, Accept,
           AcceptFails, Listen, AwaitsPeer, Close, SetElevatorLostHandler, ElevatorExits, Destroy,
           chanVars
  <2>3. \A t \in Threads : Command(t)' = Command(t)
    BY <1>1 DEF Command
  <2> QED BY <1>0, <1>1, <2>1, <2>2, <2>3, CommandNames DEF ChannelInv
<1>8. RunInv'
  <2>1. \A c : OnTheWay(c)' <=> OnTheWay(c)
    BY <1>1 DEF OnTheWay
  <2>2. \A t \in Threads : Command(t)' = Command(t)
    BY <1>1 DEF Command
  <2>3. elev' = elev \/ current = NoCommand
    BY <1>0
       DEF WayInv, Quiet, Start, Approve, Deny, GraceEnds, Connect, ConnectFails, OtherConnects,
           Accept, AcceptFails, SetElevatorLostHandler, ElevatorExits, Destroy, elevVars
  <2> QED BY <1>0, <1>1, <2>1, <2>2, <2>3, CommandNames DEF RunInv
<1>9. ToldInv'
  BY <1>0, <1>1
     DEF TypeOK, ToldInv, Quiet, Start, Approve, Deny, GraceEnds, Connect, ConnectFails,
         OtherConnects, Accept, AcceptFails, AwaitsPeer, Listen, Close, SetElevatorLostHandler,
         ElevatorExits, Destroy, appVars, chanVars
<1> QED BY <1>5, <1>6, <1>7, <1>8, <1>9 DEF ElevatorInv

(* The elevator takes the command it was sent. *)
LEMMA ReadCommandKeeps ==
    ASSUME ElevatorInv, ReadCommand
    PROVE  ElevatorInv'
<1>0. TypeOK /\ WayInv /\ ChannelInv /\ RunInv /\ ToldInv
  BY DEF ElevatorInv
<1>1. PICK c \in Commands : toElev = <<c>>
  BY <1>0 DEF ReadCommand, WayInv
<1>2. /\ toApp = <<>> /\ current = NoCommand /\ toElev' = <<>> /\ current' = c
      /\ elev' = "running" /\ elev = "reading"
      /\ UNCHANGED <<platform, app, handler, told, launch, grace, ipc, backlog, others, link,
                     toApp, outcome, runs, mutex, pc, issued, succeeded>>
  BY <1>0, <1>1, OneElement DEF ReadCommand, WayInv, appVars, launchVars, callVars
<1>3. TypeOK'
  BY <1>0, <1>2 DEF TypeOK
<1>4. WayInv' /\ ToldInv'
  BY <1>0, <1>2, CommandNames DEF WayInv, ToldInv
<1>5. \A d \in Commands : OnTheWay(d)' <=> OnTheWay(d)
  BY <1>1, <1>2, OneElement, CommandNames DEF OnTheWay
<1>6. \A t \in Threads : Command(t)' = Command(t)
  BY <1>2 DEF Command
<1>7. ChannelInv'
  BY <1>0, <1>2, <1>5, <1>6, CommandNames DEF ChannelInv
<1>8. RunInv'
  <2>1. runs[c] = 0
    BY <1>0, <1>1 DEF RunInv
  <2>2. \A t \in Threads : pc[t] # "idle" => Command(t) \in Commands
    BY <1>0, CommandNames DEF RunInv
  <2> QED BY <1>0, <1>2, <1>5, <1>6, <2>1, <2>2, OneElement, CommandNames DEF RunInv
<1> QED BY <1>3, <1>4, <1>7, <1>8 DEF ElevatorInv

(* It carries it out: the command has not run before. *)
LEMMA HandleCommandKeeps ==
    ASSUME ElevatorInv, HandleCommand
    PROVE  /\ ElevatorInv'
           /\ current \in Commands /\ runs[current] = 0 /\ current[2] <= issued[current[1]]
<1>0. TypeOK /\ WayInv /\ ChannelInv /\ RunInv /\ ToldInv
  BY DEF ElevatorInv
<1>1. /\ current \in Commands /\ toElev = <<>> /\ toApp = <<>> /\ elev = "running"
      /\ elev' = "responding" /\ runs' = [runs EXCEPT ![current] = @ + 1]
      /\ UNCHANGED <<platform, app, handler, told, launch, grace, ipc, backlog, others, link,
                     toElev, toApp, current, mutex, pc, issued, succeeded>>
  BY <1>0 DEF HandleCommand, WayInv, TypeOK, appVars, launchVars, chanVars, callVars
<1>2. outcome' \in BOOLEAN
  BY DEF HandleCommand
<1>3. /\ runs[current] = 0 /\ OnTheWay(current) /\ current[2] <= issued[current[1]]
      /\ runs'[current] = 1 /\ \A c \in Commands \ {current} : runs'[c] = runs[c]
  BY <1>0, <1>1 DEF RunInv, OnTheWay, TypeOK
<1>4. TypeOK'
  BY <1>0, <1>1, <1>2 DEF TypeOK
<1>5. WayInv' /\ ToldInv'
  BY <1>0, <1>1, CommandNames DEF WayInv, ToldInv
<1>6. \A d : OnTheWay(d)' <=> OnTheWay(d)
  BY <1>1 DEF OnTheWay
<1>7. \A t \in Threads : Command(t)' = Command(t)
  BY <1>1 DEF Command
<1>8. ChannelInv'
  BY <1>0, <1>1, <1>6, <1>7, CommandNames DEF ChannelInv
<1>9. RunInv'
  <2>1. \A t \in Threads : pc[t] # "idle" => Command(t) \in Commands
    BY <1>0, CommandNames DEF RunInv
  <2>2. \A c \in Commands :
          /\ runs'[c] \in {0, 1} /\ (runs'[c] = 1 \/ OnTheWay(c)' => c[2] <= issued'[c[1]])
          /\ (toElev' = <<c>> => runs'[c] = 0)
          /\ (current' = c => runs'[c] = IF elev' = "running" THEN 0 ELSE 1)
          /\ \A ok \in BOOLEAN : toApp' = <<[cmd |-> c, ok |-> ok]>> => runs'[c] = 1
    BY <1>0, <1>1, <1>3, <1>6 DEF RunInv
  <2>3. \A t \in Threads :
          /\ pc'[t] # "idle" => issued'[t] > 0
          /\ pc'[t] \in {"call", "write"} => runs'[Command(t)] = 0 /\ ~OnTheWay(Command(t))'
          /\ pc'[t] = "ok" => runs'[Command(t)] = 1
    BY <1>0, <1>1, <1>3, <1>6, <1>7, <2>1 DEF RunInv
  <2> QED BY <2>2, <2>3, <1>7 DEF RunInv
<1> QED BY <1>1, <1>3, <1>4, <1>5, <1>8, <1>9 DEF ElevatorInv

(* It answers, or its end of the channel fails. *)
LEMMA SendResponseKeeps ==
    ASSUME ElevatorInv, SendResponse
    PROVE  ElevatorInv'
<1>0. TypeOK /\ WayInv /\ ChannelInv /\ RunInv /\ ToldInv
  BY DEF ElevatorInv
<1>1. /\ current \in Commands /\ toElev = <<>> /\ toApp = <<>> /\ elev = "responding"
      /\ elev' \in {"reading", "broken"} /\ current' = NoCommand
      /\ UNCHANGED <<platform, app, handler, told, launch, grace, ipc, backlog, others, link,
                     toElev, outcome, runs, mutex, pc, issued, succeeded>>
  BY <1>0 DEF SendResponse, WayInv, TypeOK, appVars, launchVars, callVars
<1>2. toApp' = <<>> \/ \E ok \in BOOLEAN : toApp' = <<[cmd |-> current, ok |-> ok]>>
  BY <1>0, <1>1, OneElement DEF SendResponse, TypeOK
<1>3. runs[current] = 1 /\ OnTheWay(current)
  BY <1>0, <1>1 DEF RunInv, OnTheWay
<1>4. TypeOK'
  <2>1. \A ok \in BOOLEAN : [cmd |-> current, ok |-> ok] \in Responses
    BY <1>1 DEF Responses
  <2>2. <<>> \in Seq(Responses) /\ \A r \in Responses : <<r>> \in Seq(Responses)
    OBVIOUS
  <2>3. toApp' \in Seq(Responses)
    BY <1>2, <2>1, <2>2
  <2> QED BY <1>0, <1>1, <2>3 DEF TypeOK
<1>5. WayInv' /\ ToldInv'
  BY <1>0, <1>1, <1>2, CommandNames DEF WayInv, ToldInv, Responses
<1>6. \A d \in Commands : OnTheWay(d)' => d = current
  BY <1>1, <1>2, OneElement, CommandNames DEF OnTheWay
<1>7. \A t \in Threads : Command(t)' = Command(t)
  BY <1>1 DEF Command
<1>8. ChannelInv'
  BY <1>0, <1>1, <1>3, <1>6, <1>7, CommandNames DEF ChannelInv
<1>9. RunInv'
  <2>1. \A t \in Threads : pc[t] # "idle" => Command(t) \in Commands
    BY <1>0, CommandNames DEF RunInv
  <2>2. \A c \in Commands : \A ok \in BOOLEAN : toApp' = <<[cmd |-> c, ok |-> ok]>> => c = current
    BY <1>6 DEF OnTheWay
  <2> QED BY <1>0, <1>1, <1>3, <1>6, <1>7, <2>1, <2>2, CommandNames DEF RunInv
<1> QED BY <1>4, <1>5, <1>8, <1>9 DEF ElevatorInv

(* It dies, with the command it was at. *)
LEMMA ElevatorDiesKeeps ==
    ASSUME ElevatorInv, ElevatorDies
    PROVE  ElevatorInv'
<1>0. TypeOK /\ WayInv /\ ChannelInv /\ RunInv /\ ToldInv
  BY DEF ElevatorInv
<1>1. /\ elev' = "exited" /\ elev # "none" /\ current' = NoCommand
      /\ UNCHANGED <<platform, app, handler, told, launch, grace, ipc, backlog, others,
                     toElev, toApp, outcome, runs, mutex, pc, issued, succeeded>>
  BY DEF ElevatorDies, ElevAlive, appVars, launchVars, callVars
<1>2. TypeOK'
  <2>1. link' \in {"none", "open", "shut", "held"}
    BY <1>0 DEF ElevatorDies, TypeOK
  <2> QED BY <1>0, <1>1, <2>1 DEF TypeOK
<1>3. WayInv' /\ ToldInv'
  BY <1>0, <1>1 DEF WayInv, ToldInv
<1>4. \A d \in Commands : OnTheWay(d)' => OnTheWay(d)
  BY <1>1, CommandNames DEF OnTheWay
<1>5. \A t \in Threads : Command(t)' = Command(t)
  BY <1>1 DEF Command
<1>6. ChannelInv'
  BY <1>0, <1>1, <1>4, <1>5, CommandNames DEF ChannelInv
<1>7. RunInv'
  <2>1. \A t \in Threads : pc[t] # "idle" => Command(t) \in Commands
    BY <1>0, CommandNames DEF RunInv
  <2> QED BY <1>0, <1>1, <1>4, <1>5, <2>1, CommandNames DEF RunInv
<1> QED BY <1>2, <1>3, <1>6, <1>7 DEF ElevatorInv

(* A thread calls Shell: its new command has not been anywhere yet. *)
LEMMA CallKeeps ==
    ASSUME ElevatorInv, NEW t \in Threads, Call(t)
    PROVE  ElevatorInv'
<1>0. TypeOK /\ WayInv /\ ChannelInv /\ RunInv /\ ToldInv
  BY DEF ElevatorInv
<1>1. /\ pc[t] = "idle" /\ issued[t] < MaxCommands
      /\ pc' = [pc EXCEPT ![t] = "call"] /\ issued' = [issued EXCEPT ![t] = @ + 1]
      /\ UNCHANGED <<platform, app, handler, told, launch, grace, ipc, backlog, others, link,
                     toElev, toApp, elev, current, outcome, runs, mutex, succeeded>>
  BY DEF Call, appVars, launchVars, chanVars, elevVars
<1>2. /\ issued[t] \in Nat /\ issued'[t] = issued[t] + 1 /\ pc'[t] = "call"
      /\ \A u \in Threads \ {t} : issued'[u] = issued[u] /\ pc'[u] = pc[u]
  BY <1>0, <1>1 DEF TypeOK
<1>3. TypeOK'
  <2>1. issued' \in [Threads -> 0..MaxCommands]
    BY <1>0, <1>1, ElevatorAssumption DEF TypeOK
  <2> QED BY <1>0, <1>1, <2>1 DEF TypeOK
<1>4. WayInv' /\ ToldInv'
  BY <1>0, <1>1 DEF WayInv, ToldInv
<1>5. \A d : OnTheWay(d)' <=> OnTheWay(d)
  BY <1>1 DEF OnTheWay
<1>6. /\ \A u \in Threads \ {t} : Command(u)' = Command(u)
      /\ Command(t)' \in Commands /\ Command(t)'[1] = t /\ Command(t)'[2] = issued[t] + 1
  BY <1>2, <1>3, CommandNames DEF Command, TypeOK, Commands
<1>7. ChannelInv'
  BY <1>0, <1>1, <1>2, <1>5, <1>6, CommandNames DEF ChannelInv
<1>8. \A c \in Commands : runs[c] = 1 \/ OnTheWay(c) => c[2] <= issued'[c[1]]
  <2> SUFFICES ASSUME NEW c \in Commands, runs[c] = 1 \/ OnTheWay(c) PROVE c[2] <= issued'[c[1]]
    OBVIOUS
  <2>1. c[2] <= issued[c[1]] /\ c[2] \in Nat /\ c[1] \in Threads
    BY <1>0, CommandNames, ElevatorAssumption DEF RunInv
  <2> QED BY <2>1, <1>2
<1>9. runs[Command(t)'] = 0 /\ ~OnTheWay(Command(t)')
  <2>1. ~(Command(t)'[2] <= issued[t])
    BY <1>2, <1>6
  <2> QED BY <1>0, <1>6, <2>1 DEF RunInv
<1>10. RunInv'
  <2>1. \A c \in Commands :
          /\ runs'[c] \in {0, 1} /\ (runs'[c] = 1 \/ OnTheWay(c)' => c[2] <= issued'[c[1]])
          /\ (toElev' = <<c>> => runs'[c] = 0)
          /\ (current' = c => runs'[c] = IF elev' = "running" THEN 0 ELSE 1)
          /\ \A ok \in BOOLEAN : toApp' = <<[cmd |-> c, ok |-> ok]>> => runs'[c] = 1
    BY <1>0, <1>1, <1>5, <1>8 DEF RunInv
  <2>2. \A u \in Threads :
          /\ pc'[u] # "idle" => issued'[u] > 0
          /\ pc'[u] \in {"call", "write"} => runs'[Command(u)'] = 0 /\ ~OnTheWay(Command(u))'
          /\ pc'[u] = "ok" => runs'[Command(u)'] = 1
    <3>1. OnTheWay(Command(t))' <=> OnTheWay(Command(t)')
      BY <1>1 DEF OnTheWay
    <3>2. \A u \in Threads \ {t} : OnTheWay(Command(u))' <=> OnTheWay(Command(u))
      BY <1>1, <1>6 DEF OnTheWay
    <3> QED BY <1>0, <1>1, <1>2, <1>6, <1>9, <3>1, <3>2 DEF RunInv
  <2> QED BY <2>1, <2>2 DEF RunInv
<1> QED BY <1>3, <1>4, <1>7, <1>10 DEF ElevatorInv

(* The steps of a call that leave the way alone: locking, giving up, the    *)
(* check for a lost elevator, and the return.                               *)
LEMMA PlainCallKeeps ==
    ASSUME ElevatorInv, NEW t \in Threads,
           Begin(t) \/ CheckLost(t) \/ OnElevatorLost(t) \/ Return(t)
    PROVE  ElevatorInv'
<1>0. TypeOK /\ WayInv /\ ChannelInv /\ RunInv /\ ToldInv
  BY DEF ElevatorInv
<1>1. PICK l \in {"none", "write", "error", "lost", "idle"} :
      /\ pc' = [pc EXCEPT ![t] = l]
      /\ l = "write" => pc[t] = "call" /\ mutex = NoThread /\ mutex' = t /\ ipc = "connected"
      /\ l # "write" => mutex' = mutex
      /\ l = "idle" \/ pc[t] \in {"call", "none", "lost"}
      /\ pc[t] \in {"call", "none", "lost", "ok", "error"}
      /\ UNCHANGED <<platform, launch, grace, ipc, backlog, others, link,
                     toElev, toApp, elev, current, outcome, runs, issued>>
  BY DEF Begin, CheckLost, OnElevatorLost, Return, IsRunning, appVars, launchVars, chanVars, elevVars
<1>2. pc'[t] = l /\ \A u \in Threads \ {t} : pc'[u] = pc[u]
  BY <1>0, <1>1 DEF TypeOK
<1>3. TypeOK'
  <2>1. /\ app' \in {"starting", "testing", "checked", "up", "refused", "gone"}
        /\ told' \in Nat
    BY <1>0 DEF TypeOK, Begin, CheckLost, OnElevatorLost, Return, StartupResult, appVars
  <2>2. handler' \in BOOLEAN
    BY <1>0 DEF TypeOK, Begin, CheckLost, OnElevatorLost, Return, appVars
  <2>3. succeeded' \subseteq Commands
    <3>1. pc[t] = "ok" => Command(t) \in Commands
      BY <1>0, CommandNames DEF RunInv
    <3> QED BY <1>0, <3>1 DEF TypeOK, Begin, CheckLost, OnElevatorLost, Return
  <2>4. pc' \in [Threads -> {"idle", "call", "write", "read", "none", "lost", "ok", "error"}]
    BY <1>0, <1>1 DEF TypeOK
  <2>5. mutex' \in Threads \cup {NoThread}
    BY <1>0, <1>1 DEF TypeOK
  <2> QED BY <1>0, <1>1, <2>1, <2>2, <2>3, <2>4, <2>5 DEF TypeOK
<1>4. WayInv'
  BY <1>0, <1>1 DEF WayInv
<1>5. ToldInv'
  BY <1>0 DEF TypeOK, ToldInv, Begin, CheckLost, OnElevatorLost, Return, StartupResult, appVars, chanVars
<1>6. /\ \A d : OnTheWay(d)' <=> OnTheWay(d)
      /\ \A u \in Threads : Command(u)' = Command(u)
  BY <1>1 DEF OnTheWay, Command
<1>7. ChannelInv'
  <2>1. \A u \in Threads : pc'[u] \in {"write", "read"} => mutex' = u /\ ipc' = "connected"
    BY <1>0, <1>1, <1>2, ElevatorAssumption DEF ChannelInv
  <2>2. \A c \in Commands : OnTheWay(c)' => ipc' = "closed" \/ (pc'[c[1]] = "read" /\ c = Command(c[1])')
    BY <1>0, <1>1, <1>2, <1>6, CommandNames DEF ChannelInv
  <2> QED BY <2>1, <2>2 DEF ChannelInv
<1>8. RunInv'
  <2>1. \A u \in Threads : OnTheWay(Command(u))' <=> OnTheWay(Command(u))
    BY <1>1 DEF OnTheWay, Command
  <2> QED BY <1>0, <1>1, <1>2, <1>6, <2>1, CommandNames DEF RunInv
<1> QED BY <1>3, <1>4, <1>5, <1>7, <1>8 DEF ElevatorInv

(* While one thread is to write or read, nobody else's command is on its way. *)
LEMMA WayIsMine ==
    ASSUME ElevatorInv, NEW t \in Threads, pc[t] \in {"write", "read"},
           NEW c \in Commands, OnTheWay(c)
    PROVE  pc[t] = "read" /\ c = Command(t)
<1>1. mutex = t /\ ipc = "connected"
  BY DEF ElevatorInv, ChannelInv
<1>2. pc[c[1]] = "read" /\ c = Command(c[1]) /\ c[1] \in Threads
  BY <1>1, CommandNames DEF ElevatorInv, ChannelInv
<1>3. c[1] = t
  BY <1>1, <1>2 DEF ElevatorInv, ChannelInv
<1> QED BY <1>2, <1>3

(* The channel is closed and the command given back without a response. *)
LEMMA NoResponseKeeps ==
    ASSUME ElevatorInv, NEW t \in Threads, pc[t] \in {"write", "read"}, NoResponse(t),
           UNCHANGED <<platform, app, handler, told, launch, grace, others, toElev, toApp,
                       elev, current, outcome, runs, issued, succeeded>>
    PROVE  ElevatorInv'
<1>0. TypeOK /\ WayInv /\ ChannelInv /\ RunInv /\ ToldInv
  BY DEF ElevatorInv
<1>1. /\ ipc' = "closed" /\ mutex' = NoThread /\ pc' = [pc EXCEPT ![t] = "none"] /\ mutex = t
  BY <1>0 DEF NoResponse, Close, ChannelInv
<1>2. pc'[t] = "none" /\ \A u \in Threads \ {t} : pc'[u] = pc[u] /\ pc[u] \notin {"write", "read"}
  BY <1>0, <1>1 DEF TypeOK, ChannelInv
<1>3. TypeOK'
  <2>1. backlog' \in Seq({"elevator", "other"}) /\ link' \in {"none", "open", "shut", "held"}
    BY <1>0 DEF NoResponse, Close, TypeOK
  <2> QED BY <1>0, <1>1, <2>1 DEF TypeOK
<1>4. WayInv' /\ ToldInv'
  BY <1>0, <1>1 DEF WayInv, ToldInv
<1>5. /\ \A d : OnTheWay(d)' <=> OnTheWay(d)
      /\ \A u \in Threads : Command(u)' = Command(u) /\ (OnTheWay(Command(u))' <=> OnTheWay(Command(u)))
  BY DEF OnTheWay, Command
<1>6. ChannelInv'
  BY <1>1, <1>2 DEF ChannelInv
<1>7. RunInv'
  BY <1>0, <1>2, <1>5, CommandNames DEF RunInv
<1> QED BY <1>3, <1>4, <1>6, <1>7 DEF ElevatorInv

(* A command is written into an empty channel, or not at all. *)
LEMMA WriteCommandKeeps ==
    ASSUME ElevatorInv, NEW t \in Threads, WriteCommand(t)
    PROVE  ElevatorInv'
<1>0. TypeOK /\ WayInv /\ ChannelInv /\ RunInv /\ ToldInv
  BY DEF ElevatorInv
<1>1. CASE NoResponse(t) /\ UNCHANGED toElev
  BY <1>1, NoResponseKeeps DEF WriteCommand, appVars, launchVars, elevVars
<1>2. CASE /\ toElev' = Append(toElev, Command(t)) /\ pc' = [pc EXCEPT ![t] = "read"]
           /\ UNCHANGED <<mutex, ipc, backlog, link>>
  <2>1. /\ pc[t] = "write" /\ mutex = t /\ ipc = "connected"
        /\ UNCHANGED <<platform, app, handler, told, launch, grace, others, toApp, elev, current,
                       outcome, runs, issued, succeeded>>
    BY <1>0 DEF WriteCommand, ChannelInv, appVars, launchVars, elevVars
  <2>2. /\ Command(t) \in Commands /\ Command(t)[1] = t /\ Command(t)[2] = issued[t]
        /\ runs[Command(t)] = 0
    BY <1>0, <2>1, CommandNames DEF RunInv
  <2>3. \A c \in Commands : ~OnTheWay(c)
    BY <2>1, WayIsMine
  <2>4. toElev = <<>> /\ toApp = <<>> /\ current = NoCommand
    <3>1. current = NoCommand
      BY <1>0, <2>3 DEF OnTheWay, TypeOK
    <3>2. \A c \in Commands : toElev # <<c>>
      BY <2>3 DEF OnTheWay
    <3>3. \A r \in Responses : toApp # <<r>>
      <4> SUFFICES ASSUME NEW r \in Responses, toApp = <<r>> PROVE FALSE
        OBVIOUS
      <4>1. r.cmd \in Commands /\ r.ok \in BOOLEAN /\ r = [cmd |-> r.cmd, ok |-> r.ok]
        BY DEF Responses
      <4> QED BY <2>3, <4>1 DEF OnTheWay
    <3> QED BY <1>0, <3>1, <3>2, <3>3 DEF WayInv
  <2>5. toElev' = <<Command(t)>>
    BY <1>2, <2>4, OneElement
  <2>6. pc'[t] = "read" /\ \A u \in Threads \ {t} : pc'[u] = pc[u] /\ pc[u] \notin {"write", "read"}
    BY <1>0, <1>2, <2>1 DEF TypeOK, ChannelInv
  <2>7. TypeOK'
    <3>1. toElev' \in Seq(Commands)
      BY <2>2, <2>5
    <3> QED BY <1>0, <1>2, <2>1, <3>1 DEF TypeOK
  <2>8. WayInv' /\ ToldInv'
    BY <1>0, <1>2, <2>1, <2>2, <2>4, <2>5 DEF WayInv, ToldInv
  <2>9. \A u \in Threads : Command(u)' = Command(u)
    BY <2>1 DEF Command
  <2>10. \A c \in Commands : OnTheWay(c)' <=> c = Command(t)
    BY <2>1, <2>4, <2>5, OneElement, CommandNames DEF OnTheWay
  <2>11. ChannelInv'
    BY <1>0, <1>2, <2>1, <2>2, <2>6, <2>9, <2>10 DEF ChannelInv
  <2>12. RunInv'
    <3>1. \A c \in Commands :
            /\ runs'[c] \in {0, 1} /\ (runs'[c] = 1 \/ OnTheWay(c)' => c[2] <= issued'[c[1]])
            /\ (toElev' = <<c>> => runs'[c] = 0)
            /\ (current' = c => runs'[c] = IF elev' = "running" THEN 0 ELSE 1)
            /\ \A ok \in BOOLEAN : toApp' = <<[cmd |-> c, ok |-> ok]>> => runs'[c] = 1
      <4>1. issued[t] <= issued[t]
        BY <1>0 DEF TypeOK
      <4> QED BY <1>0, <2>1, <2>2, <2>4, <2>5, <2>10, <4>1, OneElement, CommandNames DEF RunInv
    <3>2. \A u \in Threads \ {t} : pc[u] # "idle" => Command(u) \in Commands /\ Command(u) # Command(t)
      BY <1>0, <2>2, CommandNames DEF RunInv
    <3>3. \A u \in Threads :
            /\ pc'[u] # "idle" => issued'[u] > 0
            /\ pc'[u] \in {"call", "write"} => runs'[Command(u)'] = 0 /\ ~OnTheWay(Command(u))'
            /\ pc'[u] = "ok" => runs'[Command(u)'] = 1
      <4>1. \A u \in Threads : Command(u) \in Commands => (OnTheWay(Command(u))' <=> Command(u) = Command(t))
        BY <2>1, <2>4, <2>5, <2>9, OneElement, CommandNames DEF OnTheWay
      <4> QED BY <1>0, <2>1, <2>6, <2>9, <3>2, <4>1 DEF RunInv
    <3> QED BY <3>1, <3>3 DEF RunInv
  <2> QED BY <2>7, <2>8, <2>11, <2>12 DEF ElevatorInv
<1> QED BY <1>1, <1>2 DEF WriteCommand

(* The response that is read is that to the reader's command. *)
LEMMA ReadResponseKeeps ==
    ASSUME ElevatorInv, NEW t \in Threads, ReadResponse(t)
    PROVE  ElevatorInv'
<1>0. TypeOK /\ WayInv /\ ChannelInv /\ RunInv /\ ToldInv
  BY DEF ElevatorInv
<1>1. CASE NoResponse(t) /\ UNCHANGED toApp
  BY <1>1, NoResponseKeeps DEF ReadResponse, appVars, launchVars, elevVars
<1>2. CASE /\ toApp # <<>> /\ toApp' = Tail(toApp)
           /\ pc' = [pc EXCEPT ![t] = IF Head(toApp).ok THEN "ok" ELSE "error"]
           /\ mutex' = NoThread /\ UNCHANGED <<ipc, backlog, link>>
  <2>1. /\ pc[t] = "read" /\ mutex = t /\ ipc = "connected"
        /\ UNCHANGED <<platform, app, handler, told, launch, grace, others, toElev, elev, current,
                       outcome, runs, issued, succeeded>>
    BY <1>0 DEF ReadResponse, ChannelInv, appVars, launchVars, elevVars
  <2>2. PICK r \in Responses : toApp = <<r>>
    BY <1>0, <1>2 DEF WayInv
  <2>3. /\ toElev = <<>> /\ current = NoCommand /\ toApp' = <<>>
    BY <1>0, <1>2, <2>2, OneElement DEF WayInv
  <2>4. /\ r.cmd \in Commands /\ r.ok \in BOOLEAN /\ toApp = <<[cmd |-> r.cmd, ok |-> r.ok]>>
    BY <2>2 DEF Responses
  <2>5. r.cmd = Command(t) /\ runs[Command(t)] = 1
    <3>1. OnTheWay(r.cmd)
      BY <2>4 DEF OnTheWay
    <3>2. runs[r.cmd] = 1
      BY <1>0, <2>4 DEF RunInv
    <3> QED BY <2>1, <2>4, <3>1, <3>2, WayIsMine
  <2>6. PICK l \in {"ok", "error"} : pc' = [pc EXCEPT ![t] = l]
    BY <1>2
  <2>7. pc'[t] = l /\ \A u \in Threads \ {t} : pc'[u] = pc[u] /\ pc[u] \notin {"write", "read"}
    BY <1>0, <2>1, <2>6 DEF TypeOK, ChannelInv
  <2>8. TypeOK'
    BY <1>0, <1>2, <2>1, <2>3, <2>6 DEF TypeOK
  <2>9. WayInv' /\ ToldInv'
    BY <1>0, <1>2, <2>1, <2>3 DEF WayInv, ToldInv
  <2>10. \A c \in Commands : ~OnTheWay(c)'
    BY <2>1, <2>3, CommandNames DEF OnTheWay
  <2>11. \A u \in Threads : Command(u)' = Command(u)
    BY <2>1 DEF Command
  <2>12. ChannelInv'
    BY <2>7, <2>10 DEF ChannelInv
  <2>13. RunInv'
    <3>1. \A u \in Threads : pc[u] # "idle" => Command(u) \in Commands /\ ~OnTheWay(Command(u))'
      BY <1>0, <2>1, <2>3, <2>11, CommandNames DEF RunInv, OnTheWay
    <3> QED BY <1>0, <2>1, <2>3, <2>5, <2>7, <2>10, <2>11, <3>1, CommandNames DEF RunInv
  <2> QED BY <2>8, <2>9, <2>12, <2>13 DEF ElevatorInv
<1> QED BY <1>1, <1>2 DEF ReadResponse

(* The desktop dies: the channel is closed, whatever is on its way. *)
LEMMA DesktopDiesKeeps ==
    ASSUME ElevatorInv, DesktopDies
    PROVE  ElevatorInv'
<1>0. TypeOK /\ WayInv /\ ChannelInv /\ RunInv /\ ToldInv
  BY DEF ElevatorInv
<1>1. /\ app' = "gone" /\ ipc' = "closed" /\ mutex' = NoThread /\ pc' = [t \in Threads |-> "idle"]
      /\ UNCHANGED <<platform, told, launch, grace, others, toElev, toApp, elev, current, outcome,
                     runs, issued, succeeded>>
  BY DEF DesktopDies, launchVars, elevVars
<1>2. TypeOK'
  <2>1. backlog' \in Seq({"elevator", "other"}) /\ link' \in {"none", "open", "shut", "held"}
    BY <1>0 DEF DesktopDies, TypeOK
  <2>2. handler' \in BOOLEAN
    BY DEF DesktopDies
  <2> QED BY <1>0, <1>1, <2>1, <2>2 DEF TypeOK
<1>3. WayInv' /\ ToldInv'
  <2>1. WayInv'
    BY <1>0, <1>1 DEF WayInv
  <2>2. told \in Nat /\ told <= 1 /\ ~handler'
    BY <1>0 DEF DesktopDies, ToldInv, TypeOK
  <2> QED BY <1>1, <2>1, <2>2 DEF ToldInv
<1>4. \A d : OnTheWay(d)' <=> OnTheWay(d)
  BY <1>1 DEF OnTheWay
<1>5. ChannelInv'
  BY <1>1 DEF ChannelInv
<1>6. RunInv'
  BY <1>0, <1>1, <1>4 DEF RunInv
<1> QED BY <1>2, <1>3, <1>5, <1>6 DEF ElevatorInv

(* Every step keeps ElevatorInv. *)
LEMMA StepInv == ElevatorInv /\ [Next]_vars => ElevatorInv'
<1> SUFFICES ASSUME ElevatorInv, [Next]_vars PROVE ElevatorInv'
  OBVIOUS
<1>1. CASE Quiet
  BY <1>1, QuietKeeps
<1>2. CASE ReadCommand \/ HandleCommand \/ SendResponse \/ ElevatorDies
  BY <1>2, ReadCommandKeeps, HandleCommandKeeps, SendResponseKeeps, ElevatorDiesKeeps
<1>3. CASE DesktopDies
  BY <1>3, DesktopDiesKeeps
<1>4. ASSUME NEW t \in Threads,
             \/ Call(t) \/ Begin(t) \/ WriteCommand(t) \/ ReadResponse(t)
             \/ CheckLost(t) \/ OnElevatorLost(t) \/ Return(t)
      PROVE  ElevatorInv'
  BY <1>4, CallKeeps, PlainCallKeeps, WriteCommandKeeps, ReadResponseKeeps
<1>5. CASE UNCHANGED vars
  <2>1. /\ \A d : OnTheWay(d)' <=> OnTheWay(d)
        /\ \A t \in Threads : Command(t)' = Command(t) /\ (OnTheWay(Command(t))' <=> OnTheWay(Command(t)))
    BY <1>5 DEF vars, chanVars, elevVars, callVars, OnTheWay, Command
  <2>2. TypeOK' /\ WayInv' /\ ToldInv'
    BY <1>5 DEF ElevatorInv, TypeOK, WayInv, ToldInv, vars, appVars, launchVars, chanVars, elevVars, callVars
  <2>3. ChannelInv'
    BY <1>5, <2>1, CommandNames DEF ElevatorInv, ChannelInv, vars, chanVars, callVars
  <2>4. RunInv'
    BY <1>5, <2>1 DEF ElevatorInv, RunInv, vars, chanVars, elevVars, callVars
  <2> QED BY <2>2, <2>3, <2>4 DEF ElevatorInv
<1> QED BY <1>1, <1>2, <1>3, <1>4, <1>5 DEF Next, Quiet

(* ElevatorInv holds in every state the two processes reach: one command at *)
(* most is on its way, and while the channel is open it is that of the      *)
(* thread that waits for its answer (ElevatorService::ExecCommand).         *)
THEOREM ElevatorInvariant == Spec => []ElevatorInv
BY InitInv, StepInv, PTL DEF Spec

(* However many threads find the elevator gone, the user is told once       *)
(* (Shell.cpp, OnElevatorLost).                                             *)
THEOREM LossTold == Spec => []LossToldOnce
<1>1. ElevatorInv => LossToldOnce
  BY DEF ElevatorInv, TypeOK, ToldInv, LossToldOnce
<1> QED BY <1>1, ElevatorInvariant, PTL

(* A step that changes no command, call or success is invisible to callers. *)
LEMMA StutterMaps ==
    ASSUME TypeOK, UNCHANGED <<issued, runs, succeeded>>,
           \A t \in Threads : pc'[t] = "idle" <=> pc[t] = "idle"
    PROVE  UNCHANGED Abstract!vars
BY DEF Abstract!vars

(* Shell implements what its callers rely on: every step of the desktop's   *)
(* threads, the elevator and the channel, with every timeout and death, is  *)
(* a step of ShellCall or none.                                             *)
THEOREM ShellCallImplemented == Spec => ImplementsShellCall
<1>1. Init => Abstract!Init
  BY DEF Init, Abstract!Init, Abstract!Commands, Commands
<1>2. ElevatorInv /\ [Next]_vars => [Abstract!Next]_(Abstract!vars)
  <2> SUFFICES ASSUME ElevatorInv, [Next]_vars
               PROVE  Abstract!Next \/ UNCHANGED Abstract!vars
    OBVIOUS
  <2>0. TypeOK /\ RunInv
    BY DEF ElevatorInv
  <2>1. CASE Quiet \/ ReadCommand \/ SendResponse \/ ElevatorDies \/ UNCHANGED vars
    <3>1. UNCHANGED <<pc, issued, runs, succeeded>>
      BY <2>1
         DEF Quiet, Start, Approve, Deny, GraceEnds, Connect, ConnectFails, OtherConnects, Accept,
             AcceptFails, SetElevatorLostHandler, ElevatorExits, Destroy, ReadCommand, SendResponse,
             ElevatorDies, elevVars, callVars, vars
    <3> QED BY <2>0, <3>1, StutterMaps
  <2>2. CASE HandleCommand
    <3>1. /\ current \in Commands /\ runs[current] = 0 /\ current[2] <= issued[current[1]]
      BY <2>2, HandleCommandKeeps
    <3>2. runs' = [runs EXCEPT ![current] = 1] /\ UNCHANGED <<pc, issued, succeeded>>
      BY <2>2, <3>1 DEF HandleCommand, callVars
    <3>3. Abstract!Run(current)
      BY <3>1, <3>2 DEF Abstract!Run
    <3> QED BY <3>1, <3>3 DEF Abstract!Next, Abstract!Commands, Commands
  <2>3. CASE DesktopDies
    <3>1. Abstract!Die
      BY <2>3 DEF DesktopDies, elevVars, Abstract!Die
    <3> QED BY <3>1 DEF Abstract!Next
  <2>4. ASSUME NEW t \in Threads, Call(t)
        PROVE  Abstract!Next
    <3>1. /\ pc[t] = "idle" /\ pc' = [pc EXCEPT ![t] = "call"]
          /\ issued' = [issued EXCEPT ![t] = @ + 1] /\ UNCHANGED <<runs, succeeded>>
      BY <2>4 DEF Call, elevVars
    <3>2. {u \in Threads : pc'[u] # "idle"} = {u \in Threads : pc[u] # "idle"} \cup {t}
      BY <2>0, <3>1 DEF TypeOK
    <3>3. Abstract!Call(t)
      BY <3>1, <3>2 DEF Abstract!Call
    <3> QED BY <3>3 DEF Abstract!Next
  <2>5. ASSUME NEW t \in Threads, Return(t)
        PROVE  Abstract!Next
    <3>1. /\ pc[t] \in {"ok", "error"} /\ pc' = [pc EXCEPT ![t] = "idle"] /\ UNCHANGED <<issued, runs>>
          /\ succeeded' = IF pc[t] = "ok" THEN succeeded \cup {Command(t)} ELSE succeeded
      BY <2>5 DEF Return, elevVars
    <3>2. {u \in Threads : pc'[u] # "idle"} = {u \in Threads : pc[u] # "idle"} \ {t}
      BY <2>0, <3>1 DEF TypeOK
    <3>3. pc[t] = "ok" => runs[<<t, issued[t]>>] = 1
      BY <2>0 DEF RunInv, Command
    <3>4. Abstract!Return(t)
      BY <3>1, <3>2, <3>3 DEF Abstract!Return, Command
    <3> QED BY <3>4 DEF Abstract!Next
  <2>6. ASSUME NEW t \in Threads,
               Begin(t) \/ WriteCommand(t) \/ ReadResponse(t) \/ CheckLost(t) \/ OnElevatorLost(t)
        PROVE  UNCHANGED Abstract!vars
    <3>1. /\ UNCHANGED <<issued, runs, succeeded>> /\ pc[t] # "idle"
          /\ \E l \in {"write", "read", "none", "ok", "error", "lost"} : pc' = [pc EXCEPT ![t] = l]
      BY <2>6 DEF Begin, WriteCommand, NoResponse, ReadResponse, CheckLost, OnElevatorLost, elevVars
    <3> QED BY <2>0, <3>1, StutterMaps DEF TypeOK
  <2> QED BY <2>1, <2>2, <2>3, <2>4, <2>5, <2>6 DEF Next, Quiet
<1> QED BY <1>1, <1>2, ElevatorInvariant, PTL DEF Spec, ImplementsShellCall, Abstract!Spec

=============================================================================
