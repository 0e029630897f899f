--------------------------- MODULE WinCredential ---------------------------
(***************************************************************************)
(* The Windows credential provider: LogonUI's calls on the provider and on *)
(* its tiles (CSampleProvider, CUnlockCredential), and the detached        *)
(* threads that ask the phone for a tile (CUnlockListener).                *)
(*                                                                         *)
(* LogonUI makes one call at a time.  A call that takes the tile's _mutex  *)
(* twice is two steps here, with the listeners' steps in between.          *)
(*                                                                         *)
(* A tile is an object <<u, g>>: the CUnlockCredential made for user u by  *)
(* the g-th enumeration.  Threads keep the object they were started for.   *)
(***************************************************************************)
EXTENDS Naturals, FiniteSets

CONSTANTS
    Users,          \* users of the sign-in screen
    Threads,        \* listener threads that can exist at one time
    NoThread, NoTile,
    Scenarios,      \* subset of {"logon", "unlock", "credui"}
    UnlockBehavior, \* the setting of that name
    WaitForNetwork, \* some paired device is not a Bluetooth device
    MaxEnumerations, \* bound on the enumerations of tiles
    MaxStarts       \* bound on the listener threads started in all

Lifetimes == 1 .. MaxEnumerations
Tiles == Users \X Lifetimes

\* What the tile tells apart: IsRetryVisible groups all the failures.
Results == {"unknown", "success", "failed"}

ASSUME WinConstants ==
    /\ NoThread \notin Threads /\ NoTile \notin Tiles
    /\ Scenarios \subseteq {"logon", "unlock", "credui"} /\ Scenarios # {}
    /\ MaxEnumerations \in Nat /\ MaxStarts \in Nat
    /\ WaitForNetwork \in BOOLEAN
    /\ UnlockBehavior \in {"none", "key_press", "key_press_lock_only",
                           "foreground_always", "foreground_lock_only"}

VARIABLES
    provider,   \* CSampleProvider: cpus, recreate flag, enumeration, tiles, pending CredentialsChanged
    tile,       \* CUnlockCredential: one record per object
    thread,     \* CUnlockListener's threads, with their ListenState
    starts,     \* listener threads started so far, for the bound
    unlockMutex, \* g_UnlockMutex: the thread that holds it
    ui,         \* LogonUI: the selected tile and the call in progress
    submitted,  \* history: confirmations handed to LogonUI
    refused     \* history: tiles whose confirmed password Windows refused

vars == <<provider, tile, thread, starts, unlockMutex, ui, submitted, refused>>

NewTile(cpus) == [cpus |-> cpus, result |-> "unknown", seq |-> 0, blocked |-> FALSE,
                  typed |-> FALSE, listener |-> NoThread]

FreeThread == [pc |-> "free", tile |-> NoTile, running |-> FALSE, ignoreWait |-> FALSE,
               seq |-> 0, result |-> "unknown"]

Idle(sel) == [pc |-> "idle", selected |-> sel, tile |-> NoTile, kind |-> "none", seq |-> 0]

Init ==
    /\ provider \in [cpus : Scenarios, recreate : {TRUE}, lifetime : {0}, tiles : {{}},
                     changed : {FALSE}]
    /\ tile = [o \in Tiles |-> NewTile("logon")]
    /\ thread = [t \in Threads |-> FreeThread]
    /\ starts = 0
    /\ unlockMutex = NoThread
    /\ ui = Idle(NoTile)
    /\ submitted = {}
    /\ refused = {}

-----------------------------------------------------------------------------
(* CUnlockListener::Start and Stop, called under the tile's _listenerMutex *)

IsRunning(o) == tile[o].listener # NoThread /\ thread[tile[o].listener].running

\* m_State is dropped; the thread notices isRunning at its next test.
Stopped(o) ==
    [t \in Threads |-> IF t = tile[o].listener THEN [thread[t] EXCEPT !.running = FALSE]
                                               ELSE thread[t]]

\* A listener of the tile: a new thread, or none when CreateThread fails.
Started(o, threads, ignoreWait, th, ls) ==
    \/ th = threads /\ ls = NoThread /\ UNCHANGED starts
    \/ \E t \in Threads :
          /\ threads[t].pc = "free" /\ starts < MaxStarts
          /\ ls = t
          /\ starts' = starts + 1
          /\ th = [threads EXCEPT ![t] = [FreeThread EXCEPT !.pc = "init", !.tile = o,
                                            !.running = TRUE, !.ignoreWait = ignoreWait]]

\* SetSelected's Start(): nothing when a listener is running already.
Start(o) ==
    IF IsRunning(o) THEN UNCHANGED <<tile, thread, starts>>
    ELSE \E ls \in Threads \cup {NoThread} :
            /\ Started(o, thread, FALSE, thread', ls)
            /\ tile' = [tile EXCEPT ![o].listener = ls]

\* CommandLinkClicked's Stop() and Start(true).
Restart(o) ==
    \E ls \in Threads \cup {NoThread} :
        /\ Started(o, Stopped(o), TRUE, thread', ls)
        /\ tile' = [tile EXCEPT ![o].listener = ls]

-----------------------------------------------------------------------------
(* The tile's _unlockResult, under _mutex *)

\* SetUnlockData: the tile after an answer, when the listener still runs.
WithAnswer(r, result) == [r EXCEPT !.result = result, !.seq = @ + 1]

\* IsUnlockPending
Pending(o, seq) == tile[o].seq = seq /\ tile[o].result = "success"

\* ExpireUnlockSuccess
Expired(o, seq) ==
    IF Pending(o, seq) THEN [tile EXCEPT ![o].result = "failed"] ELSE tile

(* Mutant: a submitted result stays in the tile. *)
FinishedKept(o, seq, isSubmitted) ==
    IF Pending(o, seq)
    THEN [tile EXCEPT ![o].result = IF isSubmitted THEN @ ELSE "failed",
                      ![o].blocked = isSubmitted /\ tile[o].cpus # "credui"]
    ELSE tile

\* FinishUnlockSubmission
Finished(o, seq, isSubmitted) ==
    IF Pending(o, seq)
    THEN [tile EXCEPT ![o].result = IF isSubmitted THEN "unknown" ELSE "failed",
                      ![o].blocked = isSubmitted /\ tile[o].cpus # "credui"]
    ELSE tile

-----------------------------------------------------------------------------
(* LogonUI's calls *)

Call(pc, o) == [ui EXCEPT !.pc = pc, !.tile = o]

\* CSampleProvider::SetUsageScenario: tiles are made again at the next count.
SetUsageScenario(cpus) ==
    /\ ui.pc = "idle" /\ ~provider.recreate
    /\ provider.lifetime < MaxEnumerations
    /\ provider' = [provider EXCEPT !.cpus = cpus, !.recreate = TRUE]
    /\ UNCHANGED <<starts, tile, thread, unlockMutex, ui, submitted, refused>>

\* CUnlockCredential::Shutdown of every tile: its listener is stopped and gone.  A thread
\* still sees the result of the object it holds; nobody sees the rest.
StopTiles ==
    thread' = [t \in Threads |-> IF thread[t].tile \in provider.tiles
                                 THEN [thread[t] EXCEPT !.running = FALSE] ELSE thread[t]]

Shutdown(r) == [NewTile(r.cpus) EXCEPT !.result = r.result, !.seq = r.seq]

\* GetCredentialCount, with the tiles made again first when the scenario was set:
\* one for every user of the array that has a paired device.
Enumerate ==
    /\ ui.pc = "idle" /\ provider.recreate /\ provider.lifetime < MaxEnumerations
    /\ StopTiles
    /\ \E paired \in SUBSET Users :
          LET made == paired \X {provider.lifetime + 1}
          IN  /\ provider' = [provider EXCEPT !.recreate = FALSE, !.lifetime = @ + 1,
                                 !.tiles = made, !.changed = FALSE]
              /\ tile' = [o \in Tiles |-> IF o \in made THEN NewTile(provider.cpus)
                                          ELSE IF o \in provider.tiles THEN Shutdown(tile[o])
                                          ELSE tile[o]]
    /\ ui' = Idle(NoTile)
    /\ UNCHANGED <<starts, unlockMutex, submitted, refused>>

\* GetCredentialCount after CredentialsChanged: the tile with a confirmation becomes
\* the default and LogonUI asks for its serialization without further input.
CountCredentials ==
    /\ ui.pc = "idle" /\ ~provider.recreate /\ provider.changed
    /\ provider' = [provider EXCEPT !.changed = FALSE]
    /\ \/ \E o \in provider.tiles : tile[o].result = "success" /\ ui' = Call("autologon", o)
       \/ /\ \A o \in provider.tiles : tile[o].result # "success"
          /\ UNCHANGED ui
    /\ UNCHANGED <<starts, tile, thread, unlockMutex, submitted, refused>>

\* The provider is destroyed when the screen closes.
Destroy ==
    /\ ui.pc = "idle" /\ provider.tiles # {}
    /\ StopTiles
    /\ provider' = [provider EXCEPT !.tiles = {}, !.changed = FALSE]
    /\ tile' = [o \in Tiles |-> IF o \in provider.tiles THEN Shutdown(tile[o]) ELSE tile[o]]
    /\ ui' = Idle(NoTile)
    /\ UNCHANGED <<starts, unlockMutex, submitted, refused>>

\* CUnlockCredential::SetSelected reads the result and the block under _mutex ...
SetSelected(o) ==
    /\ ui.pc = "idle" /\ o \in provider.tiles /\ ui.selected \in {NoTile, o}
    /\ ui' = CASE tile[o].result = "success" -> [Call("autologon", o) EXCEPT !.selected = o]
               [] tile[o].result # "success" /\ tile[o].blocked -> Idle(o)
               [] OTHER -> [Call("select", o) EXCEPT !.selected = o]
    /\ UNCHANGED <<starts, provider, tile, thread, unlockMutex, submitted, refused>>

\* ... and starts the listener under _listenerMutex.
SelectedStart ==
    /\ ui.pc = "select"
    /\ Start(ui.tile)
    /\ ui' = Idle(ui.selected)
    /\ UNCHANGED <<provider, unlockMutex, submitted, refused>>

\* The listener is stopped and the typed password cleared; the result stays.
SetDeselected ==
    /\ ui.pc = "idle" /\ ui.selected # NoTile
    /\ thread' = Stopped(ui.selected)
    /\ tile' = [tile EXCEPT ![ui.selected].listener = NoThread, ![ui.selected].typed = FALSE]
    /\ ui' = Idle(NoTile)
    /\ UNCHANGED <<starts, provider, unlockMutex, submitted, refused>>

\* The user edits the password field of the selected tile.
SetStringValue(isTyped) ==
    /\ ui.pc = "idle" /\ ui.selected # NoTile
    /\ tile' = [tile EXCEPT ![ui.selected].typed = isTyped]
    /\ UNCHANGED <<starts, provider, thread, unlockMutex, ui, submitted, refused>>

\* The Retry link: the result and the block are reset under _mutex ...
CommandLinkClicked ==
    /\ ui.pc = "idle" /\ ui.selected # NoTile
    /\ tile' = [tile EXCEPT ![ui.selected].result = "unknown", ![ui.selected].blocked = FALSE]
    /\ ui' = Call("retry", ui.selected)
    /\ refused' = refused \ {ui.selected}
    /\ UNCHANGED <<starts, provider, thread, unlockMutex, submitted>>

\* ... and the listener is replaced under _listenerMutex.
RetryStart ==
    /\ ui.pc = "retry"
    /\ Restart(ui.tile)
    /\ ui' = Idle(ui.selected)
    /\ UNCHANGED <<provider, unlockMutex, submitted, refused>>

\* GetSerialization takes the confirmed or the typed password under _mutex; without
\* either, or out of memory, it returns.  The user submits the selected tile, or LogonUI logs on by itself.
GetSerialization(o) ==
    /\ \/ ui.pc = "idle" /\ o = ui.selected /\ o # NoTile
       \/ ui.pc = "autologon" /\ o = ui.tile
    /\ \/ /\ tile[o].result = "success"
          /\ ui' = [Call("pack", o) EXCEPT !.kind = "phone", !.seq = tile[o].seq]
       \/ /\ tile[o].result # "success" /\ tile[o].typed
          /\ ui' = [Call("pack", o) EXCEPT !.kind = "typed"]
       \/ ui' = Idle(ui.selected)
    /\ UNCHANGED <<starts, provider, tile, thread, unlockMutex, submitted, refused>>

\* The Kerberos or the CredPack buffer is built: any of its steps may fail.
PackOutcomes == BOOLEAN

\* Serialized: FinishUnlockSubmission for a confirmed password.  LogonUI submits the
\* buffer; outside CredUI the result is reported later.
Serialized(isSubmitted) ==
    /\ ui.pc = "pack"
    /\ tile' = IF ui.kind = "phone" THEN Finished(ui.tile, ui.seq, isSubmitted) ELSE tile
    /\ submitted' = IF isSubmitted /\ ui.kind = "phone"
                    THEN submitted \cup {<<ui.tile, ui.seq>>} ELSE submitted
    /\ ui' = IF isSubmitted /\ tile[ui.tile].cpus # "credui"
             THEN [Call("logon", ui.tile) EXCEPT
                     !.kind = IF @ = "phone" /\ ~Pending(ui.tile, ui.seq) THEN "expired" ELSE @]
             ELSE Idle(ui.selected)
    /\ UNCHANGED <<starts, provider, thread, unlockMutex, refused>>

(* Mutant: every result lifts the block of the automatic start. *)
ReportResultUnblocks(hasLogonFailed) ==
    /\ ui.pc = "logon"
    /\ tile' = [tile EXCEPT ![ui.tile].result = "failed", ![ui.tile].blocked = FALSE]
    /\ refused' = IF ~hasLogonFailed THEN refused \ {ui.tile}
                  ELSE IF ui.kind = "phone" THEN refused \cup {ui.tile} ELSE refused
    /\ ui' = Idle(ui.selected)
    /\ UNCHANGED <<starts, provider, thread, unlockMutex, submitted>>

\* ReportResult: a refused confirmation leaves an error and blocks the automatic start.
ReportResult(hasLogonFailed) ==
    /\ ui.pc = "logon"
    /\ LET hasUnlockFailed == hasLogonFailed /\ tile[ui.tile].blocked
       IN  tile' = [tile EXCEPT ![ui.tile].result = IF hasUnlockFailed THEN "failed" ELSE "unknown",
                                ![ui.tile].blocked = hasUnlockFailed]
    /\ refused' = IF ~hasLogonFailed THEN refused \ {ui.tile}
                  ELSE IF ui.kind = "phone" THEN refused \cup {ui.tile} ELSE refused
    /\ ui' = Idle(ui.selected)
    /\ UNCHANGED <<starts, provider, thread, unlockMutex, submitted>>

LogonUI ==
    \/ \E c \in Scenarios : SetUsageScenario(c)
    \/ Enumerate \/ CountCredentials \/ Destroy
    \/ \E o \in Tiles : SetSelected(o) \/ GetSerialization(o)
    \/ SelectedStart \/ SetDeselected \/ CommandLinkClicked \/ RetryStart
    \/ \E b \in BOOLEAN : SetStringValue(b) \/ ReportResult(b)
    \/ \E b \in PackOutcomes : Serialized(b)

-----------------------------------------------------------------------------
(* The listener thread: ListenThread and Listen *)

Goto(t, pc) == thread' = [thread EXCEPT ![t].pc = pc]
TileOf(t) == thread[t].tile

(* Mutant: the answer of a stopped listener is stored as well. *)
SetUnlockDataAlways(t, result) == tile' = [tile EXCEPT ![TileOf(t)] = WithAnswer(@, result)]

\* SetUnlockData(result, &isRunning): a stopped listener's answer is dropped.
SetUnlockData(t, result) ==
    IF thread[t].running
    THEN tile' = [tile EXCEPT ![TileOf(t)] = WithAnswer(@, result)]
    ELSE UNCHANGED tile

\* The user name does not split into domain and user, or: which wait comes first.
IsSignIn(o) == tile[o].cpus \in {"logon", "unlock"}

ListenInit(t) ==
    /\ thread[t].pc = "init"
    /\ \/ Goto(t, "end")
       \/ Goto(t, IF ~IsSignIn(TileOf(t)) THEN "lock"
                  ELSE IF WaitForNetwork THEN "network" ELSE "behavior")
    /\ UNCHANGED <<starts, provider, tile, unlockMutex, ui, submitted, refused>>

\* The network came up, or the listener was stopped.
WaitNetwork(t) ==
    /\ thread[t].pc = "network"
    /\ Goto(t, "behavior")
    /\ UNCHANGED <<starts, provider, tile, unlockMutex, ui, submitted, refused>>

\* Ctrl and Alt held while waiting for the network.
CancelNetwork(t) ==
    /\ thread[t].pc = "network" /\ thread[t].running
    /\ SetUnlockData(t, "failed")
    /\ Goto(t, "end")
    /\ UNCHANGED <<starts, provider, unlockMutex, ui, submitted, refused>>

\* Whether the unlockBehavior setting asks for a key press or the foreground first.
WaitsForUser(t, isUserLoggedOn) ==
    /\ ~thread[t].ignoreWait
    /\ \/ UnlockBehavior \in {"key_press", "foreground_always"}
       \/ /\ UnlockBehavior \in {"key_press_lock_only", "foreground_lock_only"}
          /\ tile[TileOf(t)].cpus = "unlock" \/ isUserLoggedOn

WaitBehavior(t) ==
    /\ thread[t].pc = "behavior"
    /\ \E isUserLoggedOn \in BOOLEAN :
          Goto(t, IF WaitsForUser(t, isUserLoggedOn) THEN "user" ELSE "lock")
    /\ UNCHANGED <<starts, provider, tile, unlockMutex, ui, submitted, refused>>

\* A key changed, the screen came to the foreground, or the listener was stopped.
WaitUser(t) ==
    /\ thread[t].pc = "user"
    /\ Goto(t, "lock")
    /\ UNCHANGED <<starts, provider, tile, unlockMutex, ui, submitted, refused>>

\* One request at a time in the process: g_UnlockMutex, given up when stopped.
LockUnlockMutex(t) ==
    /\ thread[t].pc = "lock"
    /\ \/ /\ thread[t].running /\ unlockMutex = NoThread
          /\ unlockMutex' = t
          /\ Goto(t, "request")
       \/ /\ ~thread[t].running
          /\ Goto(t, "end")
          /\ UNCHANGED unlockMutex
    /\ UNCHANGED <<starts, provider, tile, ui, submitted, refused>>

\* UnlockHandler::GetResult returns (module UnlockHandler); the mutex is released.
\* A listener stopped before the request was given up brings no success.
GetResult(t) ==
    /\ thread[t].pc = "request"
    /\ unlockMutex' = NoThread
    /\ \E r \in {"success", "failed"} :
          thread' = [thread EXCEPT ![t].pc = "answer", ![t].result = r]
    /\ UNCHANGED <<starts, provider, tile, ui, submitted, refused>>

\* An exception in Listen (also while it waits): UNK_ERROR is reported by ListenThread.
ListenThrows(t) ==
    /\ thread[t].pc \in {"init", "behavior", "request"}
    /\ unlockMutex' = IF unlockMutex = t THEN NoThread ELSE unlockMutex
    /\ SetUnlockData(t, "failed")
    /\ Goto(t, "end")
    /\ UNCHANGED <<starts, provider, ui, submitted, refused>>

\* The answer reaches the tile; only a success that was stored is waited for.
Answer(t) ==
    /\ thread[t].pc = "answer"
    /\ SetUnlockData(t, thread[t].result)
    /\ LET isStored == tile' # tile
       IN thread' = [thread EXCEPT
                ![t].pc = IF isStored /\ thread[t].result = "success" THEN "notify" ELSE "end",
                ![t].seq = IF isStored THEN tile'[TileOf(t)].seq ELSE 0,
                ![t].result = "unknown"]
    /\ refused' = IF tile'[TileOf(t)].result = "success" THEN refused \ {TileOf(t)} ELSE refused
    /\ UNCHANGED <<starts, provider, unlockMutex, ui, submitted>>

\* UpdateProvider: CredentialsChanged, unless the tile was shut down.
UpdateProvider(t) ==
    /\ thread[t].pc = "notify"
    /\ provider' = IF TileOf(t) \in provider.tiles THEN [provider EXCEPT !.changed = TRUE]
                                                  ELSE provider
    /\ Goto(t, "pending")
    /\ UNCHANGED <<starts, tile, unlockMutex, ui, submitted, refused>>

(* Mutant: a stopped listener ends without taking its success back. *)
ExpireWhileRunning(t) ==
    /\ thread[t].pc = "pending"
    /\ tile' = IF thread[t].running THEN Expired(TileOf(t), thread[t].seq) ELSE tile
    /\ Goto(t, "end")
    /\ UNCHANGED <<starts, provider, unlockMutex, ui, submitted, refused>>

\* The success was taken, or UNLOCK_SUCCESS_TIMEOUT has passed: it expires.
ExpireUnlockSuccess(t) ==
    /\ thread[t].pc = "pending"
    /\ tile' = Expired(TileOf(t), thread[t].seq)
    /\ Goto(t, "end")
    /\ UNCHANGED <<starts, provider, unlockMutex, ui, submitted, refused>>

\* ListenThread ends.  A tile that still names it finds it not running.
EndThread(t) ==
    /\ thread[t].pc = "end"
    /\ thread' = [thread EXCEPT ![t] = FreeThread]
    /\ tile' = [o \in Tiles |-> IF tile[o].listener = t
                                THEN [tile[o] EXCEPT !.listener = NoThread] ELSE tile[o]]
    /\ UNCHANGED <<starts, provider, unlockMutex, ui, submitted, refused>>

Listener(t) ==
    \/ ListenInit(t) \/ WaitNetwork(t) \/ CancelNetwork(t) \/ WaitBehavior(t) \/ WaitUser(t)
    \/ LockUnlockMutex(t) \/ GetResult(t) \/ ListenThrows(t) \/ Answer(t)
    \/ UpdateProvider(t) \/ ExpireUnlockSuccess(t) \/ EndThread(t)

Next == LogonUI \/ \E t \in Threads : Listener(t)

Spec == Init /\ [][Next]_vars

-----------------------------------------------------------------------------
Providers == [cpus : Scenarios, recreate : BOOLEAN, lifetime : 0 .. MaxEnumerations,
              tiles : SUBSET Tiles, changed : BOOLEAN]

TileObjects == [cpus : Scenarios \cup {"logon"}, result : Results, seq : Nat,
                blocked : BOOLEAN, typed : BOOLEAN, listener : Threads \cup {NoThread}]

Listeners == [pc : {"free", "init", "network", "behavior", "user", "lock",
                    "request", "answer", "notify", "pending", "end"},
              tile : Tiles \cup {NoTile}, running : BOOLEAN,
              ignoreWait : BOOLEAN, seq : Nat, result : Results]

Calls == [pc : {"idle", "select", "retry", "autologon", "pack", "logon"},
          selected : Tiles \cup {NoTile}, tile : Tiles \cup {NoTile},
          kind : {"none", "phone", "typed", "expired"}, seq : Nat]

\* The provider, the tiles and the threads hold what their declarations say.
TypeOK ==
    /\ provider \in Providers
    /\ tile \in [Tiles -> TileObjects]
    /\ thread \in [Threads -> Listeners]
    /\ starts \in 0 .. MaxStarts
    /\ unlockMutex \in Threads \cup {NoThread}
    /\ ui \in Calls
    /\ submitted \subseteq Tiles \X Nat
    /\ refused \subseteq Tiles

\* GetSerialization and FinishUnlockSubmission: one confirmation on the phone logs on at
\* most once, whatever expires, is retried or answers again between the two.
SubmittedOnce ==
    [][\A s \in submitted : ~(ui'.pc = "pack" /\ ui'.kind = "phone" /\ <<ui'.tile, ui'.seq>> = s
                              /\ ui.pc # "pack")]_vars

\* SetUnlockData's isRunning test under _mutex: a confirmation arrives only on the tile the
\* user has selected, never on one that was left, shut down or made again meanwhile.
AnswerOnSelectedTile ==
    [][\A o \in Tiles : tile'[o].result = "success" /\ tile[o].result # "success"
          => ui.selected = o /\ o \in provider.tiles]_vars

\* _isAutoStartBlocked: once Windows refused a confirmed password, the phone is asked again
\* only after Retry, a logon that worked or a confirmation given to a listener that was
\* running already, also when wrong passwords are typed in between.
RefusedWaitsForRetry ==
    [][\A o \in refused : tile'[o].listener \in {tile[o].listener, NoThread}]_vars

\* Listen's wait and ExpireUnlockSuccess: a confirmation does not stay in the tile for
\* LogonUI to use much later.  While it stands, the listener that brought it waits to take
\* it back, also when it was stopped and another listener has been started.
SuccessIsWatched ==
    \A o \in Tiles : tile[o].result = "success" =>
        \E t \in Threads : /\ thread[t].pc \in {"notify", "pending"}
                           /\ thread[t].tile = o /\ thread[t].seq = tile[o].seq

-----------------------------------------------------------------------------
(* The inductive invariant *)

\* LogonUI's calls are for tiles that are shown; a call that starts a listener is for the
\* selected one.
UiInv ==
    /\ ui.selected # NoTile => ui.selected \in provider.tiles
    /\ ui.pc # "idle" => ui.tile \in provider.tiles
    /\ ui.pc \in {"select", "retry"} => ui.tile = ui.selected /\ ui.tile \notin refused
    /\ ui.pc = "pack" /\ ui.kind = "phone" => ui.seq <= tile[ui.tile].seq
    /\ ui.pc = "logon" /\ ui.kind = "phone" => tile[ui.tile].blocked

\* Nothing is known yet of the tiles of later enumerations.
LifetimeInv ==
    /\ \A o \in provider.tiles \cup refused : o[2] <= provider.lifetime
    /\ \A s \in submitted : s[1][2] <= provider.lifetime

\* A listener that runs is the one its tile names, and its tile is the selected one.
ListenerInv ==
    \A t \in Threads :
        /\ thread[t].pc # "free" => thread[t].tile \in Tiles
        /\ thread[t].running => /\ thread[t].tile = ui.selected /\ ui.selected # NoTile
                                /\ tile[thread[t].tile].listener = t

\* The automatic start of a tile whose confirmation was refused stays blocked.
RefusedInv == \A o \in refused \cap provider.tiles : tile[o].blocked /\ tile[o].result # "success"

\* A confirmation that was submitted is not in its tile any more.
SubmittedInv ==
    \A s \in submitted : \/ s[2] < tile[s[1]].seq
                         \/ s[2] = tile[s[1]].seq /\ tile[s[1]].result # "success"

WinInv ==
    TypeOK /\ UiInv /\ LifetimeInv /\ ListenerInv /\ RefusedInv /\ SubmittedInv /\ SuccessIsWatched
=============================================================================
