------------------------ MODULE WinCredentialProofs ------------------------
(***************************************************************************)
(* The tiles of the Windows credential provider: a confirmation reaches    *)
(* only the selected tile, is submitted at most once and is taken back,    *)
(* and a refused one waits for Retry; for any number of users, listeners   *)
(* and enumerations.                                                       *)
(***************************************************************************)
EXTENDS WinCredential, TLAPS

(* A new tile, a free thread and a call that is over are of their types. *)
LEMMA NewRecords ==
    /\ \A c \in Scenarios \cup {"logon"} : NewTile(c) \in TileObjects
    /\ FreeThread \in Listeners
    /\ \A o \in Tiles \cup {NoTile} : Idle(o) \in Calls
<1>1. \A c \in Scenarios \cup {"logon"} : NewTile(c) \in TileObjects
  BY DEF NewTile, TileObjects, Results
<1>2. FreeThread \in Listeners
  BY DEF FreeThread, Listeners, Results
<1>3. \A o \in Tiles \cup {NoTile} : Idle(o) \in Calls
  BY DEF Idle, Calls
<1> QED BY <1>1, <1>2, <1>3

(* The invariant and its parts. *)
LEMMA Parts ==
    ASSUME WinInv
    PROVE  /\ TypeOK /\ UiInv /\ LifetimeInv /\ ListenerInv /\ RefusedInv /\ SubmittedInv /\ SuccessIsWatched
           /\ provider \in Providers /\ ui \in Calls
           /\ provider.tiles \subseteq Tiles /\ NoTile \notin provider.tiles
           /\ (\A o \in Tiles : tile[o] \in TileObjects /\ tile[o].seq \in Nat)
           /\ (\A t \in Threads : thread[t] \in Listeners /\ t # NoThread)
<1>1. /\ TypeOK /\ UiInv /\ LifetimeInv /\ ListenerInv /\ RefusedInv /\ SubmittedInv /\ SuccessIsWatched
  BY DEF WinInv
<1>2. provider \in Providers /\ ui \in Calls /\ provider.tiles \subseteq Tiles
  BY <1>1 DEF TypeOK, Providers
<1>3. NoTile \notin provider.tiles /\ \A t \in Threads : t # NoThread
  BY <1>2, WinConstants
<1>4. \A o \in Tiles : tile[o] \in TileObjects /\ tile[o].seq \in Nat
  BY <1>1 DEF TypeOK, TileObjects
<1>5. \A t \in Threads : thread[t] \in Listeners
  BY <1>1 DEF TypeOK
<1> QED BY <1>1, <1>2, <1>3, <1>4, <1>5

-----------------------------------------------------------------------------
(* The listeners. *)

(* A step of a listener: it may change the result in its tile, as long as a *)
(* success is watched and new.                                              *)
LEMMA ListenerStep ==
    ASSUME WinInv, TypeOK', NEW t \in Threads, NEW o \in Tiles, o = thread[t].tile,
           thread' = [thread EXCEPT ![t] = thread'[t]],
           thread'[t].pc # "free", thread'[t].tile = o, thread'[t].running = thread[t].running,
           tile' = [tile EXCEPT ![o] = tile'[o]],
           tile'[o].blocked = tile[o].blocked, tile'[o].listener = tile[o].listener,
           \/ tile'[o].seq = tile[o].seq /\ tile'[o].result \in {tile[o].result, "failed"}
           \/ tile'[o].seq = tile[o].seq + 1,
           provider'.tiles = provider.tiles, provider'.lifetime = provider.lifetime,
           UNCHANGED <<ui, submitted>>, refused' \subseteq refused,
           o \in refused' => tile'[o].result = tile[o].result \/ tile'[o].result # "success",
           tile'[o].result = "success" =>
              \/ thread'[t].pc \in {"notify", "pending"} /\ thread'[t].seq = tile'[o].seq
              \/ /\ tile[o].result = "success" /\ tile'[o].seq = tile[o].seq
                 /\ ~(thread[t].pc \in {"notify", "pending"} /\ thread[t].seq = tile[o].seq)
    PROVE  WinInv'
<1>0. /\ TypeOK /\ UiInv /\ LifetimeInv /\ ListenerInv /\ RefusedInv /\ SubmittedInv /\ SuccessIsWatched
      /\ provider.tiles \subseteq Tiles /\ NoTile \notin provider.tiles /\ tile[o].seq \in Nat
  BY Parts
<1>1. \A q \in Tiles \ {o} : tile'[q] = tile[q]
  BY <1>0 DEF TypeOK
<1>2. \A u \in Threads \ {t} : thread'[u] = thread[u]
  BY <1>0 DEF TypeOK
<1>3. UiInv'
  <2>1. ui.pc # "idle" => ui.tile \in Tiles
    BY <1>0 DEF UiInv
  <2>2. ui.pc = "pack" /\ ui.kind = "phone" => ui.seq <= tile'[ui.tile].seq
    <3>1. CASE ui.tile = o
      <4>1. ui.seq \in Nat
        BY <1>0 DEF TypeOK, Calls
      <4> QED BY <1>0, <3>1, <4>1 DEF UiInv
    <3>2. CASE ui.tile # o
      BY <1>0, <1>1, <2>1, <3>2 DEF UiInv
    <3> QED BY <3>1, <3>2
  <2>3. ui.pc = "logon" => tile'[ui.tile].blocked = tile[ui.tile].blocked
    BY <1>1, <2>1
  <2> QED BY <1>0, <2>2, <2>3 DEF UiInv
<1>4. LifetimeInv'
  BY <1>0 DEF LifetimeInv
<1>5. ListenerInv'
  <2>1. \A u \in Threads : thread'[u].running = thread[u].running
    BY <1>2
  <2>2. \A u \in Threads : thread'[u].pc # "free" => thread'[u].tile \in Tiles
    BY <1>0, <1>2 DEF ListenerInv
  <2>3. ASSUME NEW u \in Threads, thread'[u].running
        PROVE  /\ thread'[u].tile = ui.selected /\ ui.selected # NoTile
               /\ tile'[thread'[u].tile].listener = u
    <3>1. thread'[u].tile = thread[u].tile /\ thread[u].running
      BY <1>2, <2>1, <2>3
    <3>2. thread[u].tile = ui.selected /\ ui.selected # NoTile /\ tile[thread[u].tile].listener = u
      BY <1>0, <3>1 DEF ListenerInv
    <3>3. thread[u].tile \in Tiles
      BY <1>0, <3>2 DEF UiInv
    <3> QED BY <1>1, <3>1, <3>2, <3>3
  <2> QED BY <2>2, <2>3 DEF ListenerInv
<1>6. RefusedInv'
  BY <1>0, <1>1 DEF RefusedInv
<1>7. SubmittedInv'
  <2> SUFFICES ASSUME NEW s \in submitted
               PROVE  \/ s[2] < tile'[s[1]].seq
                      \/ s[2] = tile'[s[1]].seq /\ tile'[s[1]].result # "success"
    BY DEF SubmittedInv
  <2>1. s[1] \in Tiles /\ s[2] \in Nat
    BY <1>0 DEF TypeOK
  <2>2. CASE s[1] # o
    BY <1>0, <1>1, <2>1, <2>2 DEF SubmittedInv
  <2>3. CASE s[1] = o
    BY <1>0, <2>1, <2>3 DEF SubmittedInv
  <2> QED BY <2>2, <2>3
<1>8. SuccessIsWatched'
  <2> SUFFICES ASSUME NEW q \in Tiles, tile'[q].result = "success"
               PROVE  \E u \in Threads : /\ thread'[u].pc \in {"notify", "pending"}
                                         /\ thread'[u].tile = q /\ thread'[u].seq = tile'[q].seq
    BY DEF SuccessIsWatched
  <2>1. CASE q # o
    <3>1. PICK u \in Threads : /\ thread[u].pc \in {"notify", "pending"}
                               /\ thread[u].tile = q /\ thread[u].seq = tile[q].seq
      BY <1>0, <1>1, <2>1 DEF SuccessIsWatched
    <3>2. u # t
      BY <2>1, <3>1
    <3> QED BY <1>1, <1>2, <2>1, <3>1, <3>2
  <2>2. CASE q = o
    <3>1. CASE thread'[t].pc \in {"notify", "pending"} /\ thread'[t].seq = tile'[o].seq
      BY <2>2, <3>1
    <3>2. CASE /\ tile[o].result = "success" /\ tile'[o].seq = tile[o].seq
               /\ ~(thread[t].pc \in {"notify", "pending"} /\ thread[t].seq = tile[o].seq)
      <4>1. PICK u \in Threads : /\ thread[u].pc \in {"notify", "pending"}
                                 /\ thread[u].tile = o /\ thread[u].seq = tile[o].seq
        BY <1>0, <3>2 DEF SuccessIsWatched
      <4>2. u # t
        BY <3>2, <4>1
      <4> QED BY <1>2, <2>2, <3>2, <4>1, <4>2
    <3> QED BY <2>2, <3>1, <3>2
  <2> QED BY <2>1, <2>2
<1> QED BY <1>3, <1>4, <1>5, <1>6, <1>7, <1>8 DEF WinInv

(* A step that only moves the listener on, before it has an answer. *)
LEMMA WaitKeeps ==
    ASSUME WinInv, NEW t \in Threads,
           \/ ListenInit(t) \/ WaitNetwork(t) \/ WaitBehavior(t) \/ WaitUser(t)
           \/ LockUnlockMutex(t) \/ GetResult(t)
    PROVE  WinInv'
<1>0. /\ TypeOK /\ ListenerInv /\ thread[t] \in Listeners
      /\ UNCHANGED <<starts, provider, tile, ui, submitted, refused>>
      /\ thread[t].pc \in {"init", "network", "behavior", "user", "lock", "request"}
  BY Parts DEF ListenInit, WaitNetwork, WaitBehavior, WaitUser, LockUnlockMutex, GetResult
<1>1. PICK o \in Tiles : o = thread[t].tile
  BY <1>0 DEF ListenerInv
<1>2. PICK l \in {"behavior", "network", "user", "lock", "request", "answer", "end"}, r \in Results :
        thread' = [thread EXCEPT ![t] = [thread[t] EXCEPT !.pc = l, !.result = r]]
  <2>1. thread[t].result \in Results
    BY <1>0 DEF Listeners
  <2>2. ASSUME NEW l, Goto(t, l)
        PROVE  thread' = [thread EXCEPT ![t] = [thread[t] EXCEPT !.pc = l, !.result = thread[t].result]]
    <3>1. [thread[t] EXCEPT !.pc = l] = [thread[t] EXCEPT !.pc = l, !.result = thread[t].result]
      BY <1>0 DEF Listeners
    <3>2. thread' = [thread EXCEPT ![t] = [thread[t] EXCEPT !.pc = l]]
      BY <1>0, <2>2 DEF Goto, TypeOK
    <3> QED BY <3>1, <3>2
  <2>3. GetResult(t) => \E r \in Results :
          thread' = [thread EXCEPT ![t] = [thread[t] EXCEPT !.pc = "answer", !.result = r]]
    BY <1>0 DEF GetResult, TypeOK, Results
  <2> QED BY <2>1, <2>2, <2>3 DEF ListenInit, WaitNetwork, WaitBehavior, WaitUser, LockUnlockMutex
<1>3. unlockMutex' \in Threads \cup {NoThread}
  BY <1>0 DEF TypeOK, ListenInit, WaitNetwork, WaitBehavior, WaitUser, LockUnlockMutex, GetResult
<1>4. thread'[t] = [thread[t] EXCEPT !.pc = l, !.result = r] /\ thread' = [thread EXCEPT ![t] = thread'[t]]
  BY <1>0, <1>2 DEF TypeOK
<1>5. /\ thread'[t] \in Listeners /\ thread'[t].pc = l /\ thread'[t].tile = thread[t].tile
      /\ thread'[t].running = thread[t].running
  BY <1>0, <1>4 DEF Listeners
<1>6. TypeOK'
  BY <1>0, <1>3, <1>4, <1>5 DEF TypeOK
<1>7. tile'[o] = tile[o] /\ tile' = [tile EXCEPT ![o] = tile'[o]]
  BY <1>0 DEF TypeOK
<1>8. /\ thread' = [thread EXCEPT ![t] = thread'[t]] /\ thread'[t].pc # "free"
      /\ thread'[t].tile = o /\ thread'[t].running = thread[t].running
  BY <1>1, <1>4, <1>5
<1>9. ~(thread[t].pc \in {"notify", "pending"})
  BY <1>0
<1>10. /\ provider'.tiles = provider.tiles /\ provider'.lifetime = provider.lifetime
       /\ UNCHANGED <<ui, submitted>> /\ refused' \subseteq refused
  BY <1>0
<1>11. /\ tile'[o].blocked = tile[o].blocked /\ tile'[o].listener = tile[o].listener
       /\ tile'[o].seq = tile[o].seq /\ tile'[o].result = tile[o].result
  BY <1>7
<1> QED BY <1>1, <1>6, <1>7, <1>8, <1>9, <1>10, <1>11, ListenerStep

(* The listener stops with a failure, which reaches the tile when it still runs. *)
LEMMA FailureKeeps ==
    ASSUME WinInv, NEW t \in Threads, CancelNetwork(t) \/ ListenThrows(t)
    PROVE  WinInv'
<1>0. /\ TypeOK /\ ListenerInv /\ thread[t] \in Listeners
      /\ UNCHANGED <<starts, provider, ui, submitted, refused>>
      /\ thread[t].pc \in {"init", "network", "behavior", "request"}
      /\ Goto(t, "end") /\ SetUnlockData(t, "failed")
  BY Parts DEF CancelNetwork, ListenThrows
<1>1. PICK o \in Tiles : o = thread[t].tile
  BY <1>0 DEF ListenerInv
<1>2. tile[o] \in TileObjects /\ tile[o].seq \in Nat
  BY Parts
<1>3. unlockMutex' \in Threads \cup {NoThread}
  BY <1>0 DEF TypeOK, CancelNetwork, ListenThrows
<1>4. thread'[t] = [thread[t] EXCEPT !.pc = "end"] /\ thread' = [thread EXCEPT ![t] = thread'[t]]
  BY <1>0 DEF TypeOK, Goto
<1>5. /\ thread'[t] \in Listeners /\ thread'[t].pc = "end" /\ thread'[t].tile = thread[t].tile
      /\ thread'[t].running = thread[t].running
  BY <1>0, <1>4 DEF Listeners
<1>6. /\ tile' = [tile EXCEPT ![o] = tile'[o]]
      /\ \/ tile'[o] = [tile[o] EXCEPT !.result = "failed", !.seq = tile[o].seq + 1]
         \/ tile'[o] = tile[o]
  BY <1>0, <1>1 DEF TypeOK, SetUnlockData, WithAnswer, TileOf
<1>7. /\ tile'[o] \in TileObjects /\ tile'[o].blocked = tile[o].blocked
      /\ tile'[o].listener = tile[o].listener
      /\ \/ tile'[o].seq = tile[o].seq /\ tile'[o].result = tile[o].result
         \/ tile'[o].seq = tile[o].seq + 1 /\ tile'[o].result = "failed"
  <2>1. CASE tile'[o] = [tile[o] EXCEPT !.result = "failed", !.seq = tile[o].seq + 1]
    <3>1. PICK n \in Nat : n = tile[o].seq + 1
      BY <1>2
    <3>2. tile'[o] = [tile[o] EXCEPT !.result = "failed", !.seq = n]
      BY <2>1, <3>1
    <3>3. tile'[o] \in TileObjects
      BY <1>2, <3>2 DEF TileObjects, Results
    <3>4. /\ tile'[o].blocked = tile[o].blocked /\ tile'[o].listener = tile[o].listener
          /\ tile'[o].seq = n /\ tile'[o].result = "failed"
      BY <1>2, <3>2 DEF TileObjects
    <3> QED BY <3>1, <3>3, <3>4
  <2>2. CASE tile'[o] = tile[o]
    BY <1>2, <2>2
  <2> QED BY <1>6, <2>1, <2>2
<1>8. TypeOK'
  BY <1>0, <1>3, <1>4, <1>5, <1>6, <1>7 DEF TypeOK
<1>9. /\ thread' = [thread EXCEPT ![t] = thread'[t]] /\ thread'[t].pc # "free"
      /\ thread'[t].tile = o /\ thread'[t].running = thread[t].running
  BY <1>1, <1>4, <1>5
<1>10. ~(thread[t].pc \in {"notify", "pending"})
  BY <1>0
<1>11. /\ provider'.tiles = provider.tiles /\ provider'.lifetime = provider.lifetime
       /\ UNCHANGED <<ui, submitted>> /\ refused' \subseteq refused
  BY <1>0
<1>12. tile' = [tile EXCEPT ![o] = tile'[o]]
  BY <1>6
<1> QED BY <1>1, <1>7, <1>8, <1>9, <1>10, <1>11, <1>12, ListenerStep

(* The answer: a success that reaches the tile is new, and its listener watches it. *)
LEMMA AnswerKeeps ==
    ASSUME WinInv, NEW t \in Threads, Answer(t)
    PROVE  WinInv'
<1>0. /\ TypeOK /\ ListenerInv /\ thread[t] \in Listeners /\ thread[t].pc = "answer"
      /\ UNCHANGED <<starts, provider, unlockMutex, ui, submitted>>
  BY Parts DEF Answer
<1>1. PICK o \in Tiles : o = thread[t].tile
  BY <1>0 DEF ListenerInv
<1>2. tile[o] \in TileObjects /\ tile[o].seq \in Nat
  BY Parts
<1>3. PICK res \in Results : res = thread[t].result
  BY <1>0 DEF Listeners
<1>4. /\ tile' = [tile EXCEPT ![o] = tile'[o]]
      /\ tile'[o] = IF thread[t].running THEN [tile[o] EXCEPT !.result = res, !.seq = tile[o].seq + 1]
                                         ELSE tile[o]
      /\ ~thread[t].running => tile' = tile
  BY <1>0, <1>1, <1>3 DEF Answer, TypeOK, SetUnlockData, WithAnswer, TileOf
<1>5. /\ tile'[o] \in TileObjects /\ tile'[o].blocked = tile[o].blocked
      /\ tile'[o].listener = tile[o].listener /\ tile'[o].seq \in Nat
      /\ IF thread[t].running THEN tile'[o].seq = tile[o].seq + 1 /\ tile'[o].result = res
                              ELSE tile'[o].seq = tile[o].seq /\ tile'[o].result = tile[o].result
  <2>1. CASE thread[t].running
    <3>1. PICK n \in Nat : n = tile[o].seq + 1
      BY <1>2
    <3>2. tile'[o] = [tile[o] EXCEPT !.result = res, !.seq = n]
      BY <1>4, <2>1, <3>1
    <3>3. tile'[o] \in TileObjects
      BY <1>2, <1>3, <3>2 DEF TileObjects
    <3>4. /\ tile'[o].blocked = tile[o].blocked /\ tile'[o].listener = tile[o].listener
          /\ tile'[o].seq = n /\ tile'[o].result = res
      BY <1>2, <3>2 DEF TileObjects
    <3> QED BY <2>1, <3>1, <3>3, <3>4
  <2>2. CASE ~thread[t].running
    BY <1>2, <1>4, <2>2
  <2> QED BY <2>1, <2>2
<1>6. thread[t].running => tile' # tile
  BY <1>2, <1>5
<1>7. PICK l \in {"notify", "end"}, q \in Nat :
        /\ thread' = [thread EXCEPT ![t] = [thread[t] EXCEPT !.pc = l, !.seq = q, !.result = "unknown"]]
        /\ thread[t].running /\ res = "success" => l = "notify" /\ q = tile'[o].seq
  <2>1. thread' = [thread EXCEPT
                ![t].pc = IF tile' # tile /\ res = "success" THEN "notify" ELSE "end",
                ![t].seq = IF tile' # tile THEN tile'[o].seq ELSE 0,
                ![t].result = "unknown"]
    BY <1>1, <1>3 DEF Answer, TileOf
  <2>2. PICK l \in {"notify", "end"} : l = IF tile' # tile /\ res = "success" THEN "notify" ELSE "end"
    OBVIOUS
  <2>3. PICK q \in Nat : q = IF tile' # tile THEN tile'[o].seq ELSE 0
    BY <1>5
  <2>4. thread' = [thread EXCEPT ![t] = [thread[t] EXCEPT !.pc = l, !.seq = q, !.result = "unknown"]]
    BY <1>0, <2>1, <2>2, <2>3 DEF TypeOK
  <2> QED BY <1>6, <2>2, <2>3, <2>4
<1>8. thread'[t] = [thread[t] EXCEPT !.pc = l, !.seq = q, !.result = "unknown"]
  BY <1>0, <1>7 DEF TypeOK
<1>9. /\ thread'[t] \in Listeners /\ thread'[t].pc = l /\ thread'[t].seq = q
      /\ thread'[t].tile = thread[t].tile /\ thread'[t].running = thread[t].running
  BY <1>0, <1>8 DEF Listeners, Results
<1>10. thread' = [thread EXCEPT ![t] = thread'[t]]
  BY <1>7, <1>8
<1>11. refused' = IF tile'[o].result = "success" THEN refused \ {o} ELSE refused
  BY <1>1 DEF Answer, TileOf
<1>12. TypeOK'
  BY <1>0, <1>4, <1>5, <1>9, <1>10, <1>11 DEF TypeOK
<1>13. /\ thread'[t].pc # "free" /\ thread'[t].tile = o
       /\ thread'[t].running = thread[t].running
  BY <1>1, <1>9
<1>14. ~(thread[t].pc \in {"notify", "pending"})
  BY <1>0
<1>15. /\ provider'.tiles = provider.tiles /\ provider'.lifetime = provider.lifetime
       /\ UNCHANGED <<ui, submitted>> /\ refused' \subseteq refused
  BY <1>0, <1>11
<1>16. o \in refused' => tile'[o].result # "success"
  BY <1>11
<1>17. tile'[o].result = "success" =>
              \/ thread'[t].pc \in {"notify", "pending"} /\ thread'[t].seq = tile'[o].seq
              \/ tile[o].result = "success" /\ tile'[o].seq = tile[o].seq
  BY <1>5, <1>7, <1>9
<1>18. \/ tile'[o].seq = tile[o].seq /\ tile'[o].result \in {tile[o].result, "failed"}
       \/ tile'[o].seq = tile[o].seq + 1
  BY <1>5
<1>19. tile' = [tile EXCEPT ![o] = tile'[o]]
  BY <1>4
<1> QED BY <1>1, <1>5, <1>10, <1>12, <1>13, <1>14, <1>15, <1>16, <1>17, <1>18, <1>19, ListenerStep

(* UpdateProvider: only the pending CredentialsChanged is noted. *)
LEMMA UpdateProviderKeeps ==
    ASSUME WinInv, NEW t \in Threads, UpdateProvider(t)
    PROVE  WinInv'
<1>0. /\ TypeOK /\ ListenerInv /\ SuccessIsWatched /\ thread[t] \in Listeners /\ thread[t].pc = "notify"
      /\ UNCHANGED <<starts, tile, unlockMutex, ui, submitted, refused>> /\ Goto(t, "pending")
      /\ provider \in Providers
  BY Parts DEF UpdateProvider
<1>1. PICK o \in Tiles : o = thread[t].tile
  BY <1>0 DEF ListenerInv
<1>2. /\ provider' \in Providers /\ provider'.tiles = provider.tiles
      /\ provider'.lifetime = provider.lifetime
  <2>1. \/ provider' = [provider EXCEPT !.changed = TRUE]
        \/ provider' = provider
    BY DEF UpdateProvider
  <2> QED BY <1>0, <2>1 DEF Providers
<1>3. thread'[t] = [thread[t] EXCEPT !.pc = "pending"] /\ thread' = [thread EXCEPT ![t] = thread'[t]]
  BY <1>0 DEF TypeOK, Goto
<1>4. /\ thread'[t] \in Listeners /\ thread'[t].pc = "pending" /\ thread'[t].tile = thread[t].tile
      /\ thread'[t].running = thread[t].running /\ thread'[t].seq = thread[t].seq
  BY <1>0, <1>3 DEF Listeners
<1>5. TypeOK'
  BY <1>0, <1>2, <1>3, <1>4 DEF TypeOK
<1>6. tile'[o] = tile[o] /\ tile' = [tile EXCEPT ![o] = tile'[o]]
  BY <1>0 DEF TypeOK
<1>7. /\ tile'[o].blocked = tile[o].blocked /\ tile'[o].listener = tile[o].listener
      /\ tile'[o].seq = tile[o].seq /\ tile'[o].result = tile[o].result
  BY <1>6
<1>8. /\ thread' = [thread EXCEPT ![t] = thread'[t]] /\ thread'[t].pc # "free"
      /\ thread'[t].tile = o /\ thread'[t].running = thread[t].running
  BY <1>1, <1>3, <1>4
<1>9. \/ thread'[t].pc \in {"notify", "pending"} /\ thread'[t].seq = tile'[o].seq
      \/ ~(thread[t].pc \in {"notify", "pending"} /\ thread[t].seq = tile[o].seq)
  BY <1>4, <1>7
<1>10. UNCHANGED <<ui, submitted>> /\ refused' \subseteq refused
  BY <1>0
<1>11. tile' = [tile EXCEPT ![o] = tile'[o]]
  BY <1>6
<1> QED BY <1>1, <1>2, <1>5, <1>7, <1>8, <1>9, <1>10, <1>11, ListenerStep

(* ExpireUnlockSuccess: the listener ends, and so does the success it brought. *)
LEMMA ExpireKeeps ==
    ASSUME WinInv, NEW t \in Threads, ExpireUnlockSuccess(t)
    PROVE  WinInv'
<1>0. /\ TypeOK /\ ListenerInv /\ thread[t] \in Listeners /\ thread[t].pc = "pending"
      /\ UNCHANGED <<starts, provider, unlockMutex, ui, submitted, refused>> /\ Goto(t, "end")
  BY Parts DEF ExpireUnlockSuccess
<1>1. PICK o \in Tiles : o = thread[t].tile
  BY <1>0 DEF ListenerInv
<1>2. tile[o] \in TileObjects /\ tile[o].seq \in Nat
  BY Parts
<1>3. thread'[t] = [thread[t] EXCEPT !.pc = "end"] /\ thread' = [thread EXCEPT ![t] = thread'[t]]
  BY <1>0 DEF TypeOK, Goto
<1>4. /\ thread'[t] \in Listeners /\ thread'[t].pc = "end" /\ thread'[t].tile = thread[t].tile
      /\ thread'[t].running = thread[t].running
  BY <1>0, <1>3 DEF Listeners
<1>5. /\ tile' = [tile EXCEPT ![o] = tile'[o]]
      /\ \/ tile'[o] = [tile[o] EXCEPT !.result = "failed"]
         \/ tile'[o] = tile[o] /\ ~(tile[o].seq = thread[t].seq /\ tile[o].result = "success")
  BY <1>0, <1>1 DEF TypeOK, ExpireUnlockSuccess, Expired, Pending, TileOf
<1>6. /\ tile'[o] \in TileObjects /\ tile'[o].blocked = tile[o].blocked
      /\ tile'[o].listener = tile[o].listener /\ tile'[o].seq = tile[o].seq
      /\ \/ tile'[o].result = "failed"
         \/ /\ tile'[o].result = tile[o].result
            /\ tile[o].result = "success" => thread[t].seq # tile[o].seq
  <2>1. CASE tile'[o] = [tile[o] EXCEPT !.result = "failed"]
    BY <1>2, <2>1 DEF TileObjects, Results
  <2>2. CASE tile'[o] = tile[o] /\ ~(tile[o].seq = thread[t].seq /\ tile[o].result = "success")
    BY <1>2, <2>2
  <2> QED BY <1>5, <2>1, <2>2
<1>7. TypeOK'
  BY <1>0, <1>3, <1>4, <1>5, <1>6 DEF TypeOK
<1>8. /\ thread' = [thread EXCEPT ![t] = thread'[t]] /\ thread'[t].pc # "free"
      /\ thread'[t].tile = o /\ thread'[t].running = thread[t].running
  BY <1>1, <1>3, <1>4
<1>9. /\ provider'.tiles = provider.tiles /\ provider'.lifetime = provider.lifetime
      /\ UNCHANGED <<ui, submitted>> /\ refused' \subseteq refused
  BY <1>0
<1>10. tile' = [tile EXCEPT ![o] = tile'[o]]
  BY <1>5
<1> QED BY <1>1, <1>6, <1>7, <1>8, <1>9, <1>10, ListenerStep

(* ListenThread ends: its tile forgets it, and it watched nothing any more. *)
LEMMA EndThreadKeeps ==
    ASSUME WinInv, NEW t \in Threads, EndThread(t)
    PROVE  WinInv'
<1>0. /\ TypeOK /\ UiInv /\ LifetimeInv /\ ListenerInv /\ RefusedInv /\ SubmittedInv /\ SuccessIsWatched
      /\ thread[t].pc = "end" /\ UNCHANGED <<starts, provider, unlockMutex, ui, submitted, refused>>
      /\ provider.tiles \subseteq Tiles /\ NoTile \notin provider.tiles
      /\ (\A o \in Tiles : tile[o] \in TileObjects) /\ \A u \in Threads : u # NoThread
  BY Parts DEF EndThread
<1>1. /\ thread'[t] = FreeThread /\ \A u \in Threads \ {t} : thread'[u] = thread[u]
      /\ thread' \in [Threads -> Listeners]
  BY <1>0, NewRecords DEF TypeOK, EndThread
<1>2. thread'[t].pc = "free" /\ thread'[t].running = FALSE
  BY <1>1 DEF FreeThread
<1>3. ASSUME NEW o \in Tiles
      PROVE  /\ tile'[o] \in TileObjects /\ tile'[o].seq = tile[o].seq
             /\ tile'[o].result = tile[o].result /\ tile'[o].blocked = tile[o].blocked
             /\ tile[o].listener # t => tile'[o] = tile[o]
  <2>1. CASE tile[o].listener = t
    <3>1. tile'[o] = [tile[o] EXCEPT !.listener = NoThread]
      BY <2>1 DEF EndThread
    <3> QED BY <1>0, <2>1, <3>1 DEF TileObjects
  <2>2. CASE tile[o].listener # t
    BY <1>0, <2>2 DEF EndThread
  <2> QED BY <2>1, <2>2
<1>4. TypeOK'
  <2>1. tile' \in [Tiles -> TileObjects]
    <3>1. tile' = [o \in Tiles |-> tile'[o]]
      BY DEF EndThread
    <3> QED BY <1>3, <3>1
  <2> QED BY <1>0, <1>1, <2>1 DEF TypeOK
<1>5. UiInv'
  <2>1. ui.pc # "idle" => ui.tile \in Tiles
    BY <1>0 DEF UiInv
  <2> QED BY <1>0, <1>3, <2>1 DEF UiInv
<1>6. LifetimeInv'
  BY <1>0 DEF LifetimeInv
<1>7. ListenerInv'
  <2>1. ASSUME NEW u \in Threads, thread'[u].running
        PROVE  /\ thread'[u].tile = ui.selected /\ ui.selected # NoTile
               /\ tile'[thread'[u].tile].listener = u
    <3>1. u # t /\ thread'[u] = thread[u]
      BY <1>1, <1>2, <2>1
    <3>2. thread[u].tile = ui.selected /\ ui.selected # NoTile /\ tile[thread[u].tile].listener = u
      BY <1>0, <2>1, <3>1 DEF ListenerInv
    <3>3. thread[u].tile \in Tiles
      BY <1>0, <3>2 DEF UiInv
    <3> QED BY <1>3, <3>1, <3>2, <3>3
  <2>2. ASSUME NEW u \in Threads, thread'[u].pc # "free"
        PROVE  thread'[u].tile \in Tiles
    BY <1>0, <1>1, <1>2, <2>2 DEF ListenerInv
  <2> QED BY <1>0, <2>1, <2>2 DEF ListenerInv
<1>8. RefusedInv'
  BY <1>0, <1>3 DEF RefusedInv
<1>9. SubmittedInv'
  <2>1. \A s \in submitted : s[1] \in Tiles
    BY <1>0 DEF TypeOK
  <2> QED BY <1>0, <1>3, <2>1 DEF SubmittedInv
<1>10. SuccessIsWatched'
  <2> SUFFICES ASSUME NEW q \in Tiles, tile'[q].result = "success"
               PROVE  \E u \in Threads : /\ thread'[u].pc \in {"notify", "pending"}
                                         /\ thread'[u].tile = q /\ thread'[u].seq = tile'[q].seq
    BY DEF SuccessIsWatched
  <2>1. PICK u \in Threads : /\ thread[u].pc \in {"notify", "pending"}
                             /\ thread[u].tile = q /\ thread[u].seq = tile[q].seq
    BY <1>0, <1>3 DEF SuccessIsWatched
  <2>2. u # t
    BY <1>0, <2>1
  <2> QED BY <1>1, <1>3, <2>1, <2>2
<1> QED BY <1>4, <1>5, <1>6, <1>7, <1>8, <1>9, <1>10 DEF WinInv

(* A step of a listener keeps the invariant. *)
LEMMA ListenerKeeps ==
    ASSUME WinInv, NEW t \in Threads, Listener(t)
    PROVE  WinInv'
BY WaitKeeps, FailureKeeps, AnswerKeeps, UpdateProviderKeeps, ExpireKeeps, EndThreadKeeps DEF Listener

-----------------------------------------------------------------------------
(* LogonUI's calls. *)

CallLabels == {"idle", "select", "retry", "autologon", "pack", "logon"}

(* The record of a call in progress. *)
LEMMA CallRecord ==
    ASSUME ui \in Calls, NEW o \in Tiles, NEW l \in CallLabels
    PROVE  /\ Call(l, o) \in Calls /\ Call(l, o).pc = l /\ Call(l, o).tile = o
           /\ Call(l, o).selected = ui.selected
           /\ Call(l, o).kind = ui.kind /\ Call(l, o).seq = ui.seq
BY DEF Call, Calls, CallLabels

(* The same, with the fields that SetSelected and GetSerialization write. *)
LEMMA CallWith ==
    ASSUME NEW c \in Calls, NEW o \in Tiles, NEW n \in Nat
    PROVE  /\ [c EXCEPT !.selected = o] \in Calls /\ [c EXCEPT !.selected = o].selected = o
           /\ [c EXCEPT !.selected = o].pc = c.pc /\ [c EXCEPT !.selected = o].tile = c.tile
           /\ [c EXCEPT !.kind = "phone", !.seq = n] \in Calls
           /\ [c EXCEPT !.kind = "phone", !.seq = n].pc = c.pc
           /\ [c EXCEPT !.kind = "phone", !.seq = n].tile = c.tile
           /\ [c EXCEPT !.kind = "phone", !.seq = n].selected = c.selected
           /\ [c EXCEPT !.kind = "phone", !.seq = n].seq = n
           /\ \A k \in {"none", "phone", "typed", "expired"} :
                 /\ [c EXCEPT !.kind = k] \in Calls /\ [c EXCEPT !.kind = k].pc = c.pc
                 /\ [c EXCEPT !.kind = k].tile = c.tile /\ [c EXCEPT !.kind = k].kind = k
                 /\ [c EXCEPT !.kind = k].selected = c.selected
<1>1. /\ [c EXCEPT !.selected = o] \in Calls /\ [c EXCEPT !.selected = o].selected = o
      /\ [c EXCEPT !.selected = o].pc = c.pc /\ [c EXCEPT !.selected = o].tile = c.tile
  BY DEF Calls
<1>2. /\ [c EXCEPT !.kind = "phone", !.seq = n] \in Calls
      /\ [c EXCEPT !.kind = "phone", !.seq = n].pc = c.pc
      /\ [c EXCEPT !.kind = "phone", !.seq = n].tile = c.tile
      /\ [c EXCEPT !.kind = "phone", !.seq = n].selected = c.selected
      /\ [c EXCEPT !.kind = "phone", !.seq = n].seq = n
  BY DEF Calls
<1>3. \A k \in {"none", "phone", "typed", "expired"} :
                 /\ [c EXCEPT !.kind = k] \in Calls /\ [c EXCEPT !.kind = k].pc = c.pc
                 /\ [c EXCEPT !.kind = k].tile = c.tile /\ [c EXCEPT !.kind = k].kind = k
                 /\ [c EXCEPT !.kind = k].selected = c.selected
  BY DEF Calls
<1> QED BY <1>1, <1>2, <1>3

(* A call that is over. *)
LEMMA IdleFields ==
    ASSUME NEW o
    PROVE  Idle(o).pc = "idle" /\ Idle(o).selected = o
BY DEF Idle

(* A call that changes neither a tile nor a listener, and takes the selection *)
(* from no tile.                                                              *)
LEMMA CallStep ==
    ASSUME WinInv, TypeOK', UiInv', UNCHANGED <<tile, thread, submitted, refused>>,
           provider'.tiles = provider.tiles, provider'.lifetime = provider.lifetime,
           ui'.selected = ui.selected \/ ui.selected = NoTile
    PROVE  WinInv'
<1>0. /\ LifetimeInv /\ ListenerInv /\ RefusedInv /\ SubmittedInv /\ SuccessIsWatched
  BY Parts
<1>1. LifetimeInv'
  BY <1>0 DEF LifetimeInv
<1>2. ListenerInv'
  BY <1>0 DEF ListenerInv
<1>3. RefusedInv' /\ SubmittedInv' /\ SuccessIsWatched'
  BY <1>0 DEF RefusedInv, SubmittedInv, SuccessIsWatched
<1> QED BY <1>1, <1>2, <1>3 DEF WinInv

(* SetUsageScenario asks for other tiles. *)
LEMMA ScenarioKeeps ==
    ASSUME WinInv, NEW c \in Scenarios, SetUsageScenario(c)
    PROVE  WinInv'
<1>0. /\ TypeOK /\ UiInv /\ provider \in Providers
      /\ provider' = [provider EXCEPT !.cpus = c, !.recreate = TRUE]
      /\ UNCHANGED <<starts, tile, thread, unlockMutex, ui, submitted, refused>>
  BY Parts DEF SetUsageScenario
<1>1. /\ provider' \in Providers /\ provider'.tiles = provider.tiles
      /\ provider'.lifetime = provider.lifetime
  BY <1>0 DEF Providers
<1>2. TypeOK'
  BY <1>0, <1>1 DEF TypeOK
<1>3. UiInv'
  BY <1>0, <1>1 DEF UiInv
<1>4. UNCHANGED <<tile, thread, submitted, refused>> /\ ui'.selected = ui.selected
  BY <1>0
<1> QED BY <1>1, <1>2, <1>3, <1>4, CallStep

(* GetCredentialCount after CredentialsChanged. *)
LEMMA CountKeeps ==
    ASSUME WinInv, CountCredentials
    PROVE  WinInv'
<1>0. /\ TypeOK /\ UiInv /\ provider \in Providers /\ ui \in Calls /\ provider.tiles \subseteq Tiles
      /\ provider' = [provider EXCEPT !.changed = FALSE]
      /\ UNCHANGED <<starts, tile, thread, unlockMutex, submitted, refused>>
  BY Parts DEF CountCredentials
<1>1. /\ provider' \in Providers /\ provider'.tiles = provider.tiles
      /\ provider'.lifetime = provider.lifetime
  BY <1>0 DEF Providers
<1>2. /\ ui' \in Calls /\ ui'.selected = ui.selected
      /\ \/ ui'.pc = "autologon" /\ ui'.tile \in provider.tiles
         \/ ui' = ui
  <2>1. CASE \E o \in provider.tiles : ui' = Call("autologon", o)
    <3>1. PICK o \in provider.tiles : ui' = Call("autologon", o)
      BY <2>1
    <3> QED BY <1>0, <3>1, CallRecord DEF CallLabels
  <2>2. CASE ui' = ui
    BY <1>0, <2>2
  <2> QED BY <2>1, <2>2 DEF CountCredentials
<1>3. TypeOK'
  BY <1>0, <1>1, <1>2 DEF TypeOK
<1>4. UiInv'
  BY <1>0, <1>1, <1>2 DEF UiInv
<1>5. UNCHANGED <<tile, thread, submitted, refused>> /\ ui'.selected = ui.selected
  BY <1>0, <1>2
<1> QED BY <1>1, <1>3, <1>4, <1>5, CallStep

(* SetSelected: a tile whose confirmation was refused starts nothing. *)
LEMMA SetSelectedKeeps ==
    ASSUME WinInv, NEW o \in Tiles, SetSelected(o)
    PROVE  WinInv'
<1>0. /\ TypeOK /\ UiInv /\ RefusedInv /\ ui \in Calls /\ o \in provider.tiles
      /\ ui.selected \in {NoTile, o} /\ NoTile \notin provider.tiles
      /\ UNCHANGED <<starts, provider, tile, thread, unlockMutex, submitted, refused>>
  BY Parts DEF SetSelected
<1>1. /\ ui' \in Calls /\ ui'.selected = o
      /\ \/ ui'.pc = "idle"
         \/ ui'.pc = "autologon" /\ ui'.tile = o
         \/ ui'.pc = "select" /\ ui'.tile = o /\ o \notin refused
  <2>1. CASE tile[o].result = "success"
    <3>1. ui' = [Call("autologon", o) EXCEPT !.selected = o]
      BY <2>1 DEF SetSelected
    <3>2. Call("autologon", o) \in Calls /\ Call("autologon", o).pc = "autologon" /\ Call("autologon", o).tile = o
      BY <1>0, CallRecord DEF CallLabels
    <3> QED BY <3>1, <3>2, CallWith
  <2>2. CASE tile[o].result # "success" /\ tile[o].blocked
    <3>1. ui' = Idle(o)
      BY <2>2 DEF SetSelected
    <3> QED BY <3>1, NewRecords, IdleFields
  <2>3. CASE tile[o].result # "success" /\ ~tile[o].blocked
    <3>1. ui' = [Call("select", o) EXCEPT !.selected = o]
      BY <2>3 DEF SetSelected
    <3>2. Call("select", o) \in Calls /\ Call("select", o).pc = "select" /\ Call("select", o).tile = o
      BY <1>0, CallRecord DEF CallLabels
    <3>3. o \notin refused
      BY <1>0, <2>3 DEF RefusedInv
    <3> QED BY <3>1, <3>2, <3>3, CallWith
  <2> QED BY <2>1, <2>2, <2>3
<1>2. TypeOK'
  BY <1>0, <1>1 DEF TypeOK
<1>3. UiInv'
  BY <1>0, <1>1 DEF UiInv
<1>4. /\ UNCHANGED <<tile, thread, submitted, refused>> /\ provider' = provider
      /\ ui'.selected = ui.selected \/ ui.selected = NoTile
  BY <1>0, <1>1
<1> QED BY <1>2, <1>3, <1>4, CallStep

(* GetSerialization takes a password, or nothing. *)
LEMMA GetSerializationKeeps ==
    ASSUME WinInv, NEW o \in Tiles, GetSerialization(o)
    PROVE  WinInv'
<1>0. /\ TypeOK /\ UiInv /\ ui \in Calls /\ tile[o].seq \in Nat
      /\ UNCHANGED <<starts, provider, tile, thread, unlockMutex, submitted, refused>>
  BY Parts DEF GetSerialization
<1>1. o \in provider.tiles
  BY <1>0 DEF UiInv, GetSerialization
<1>2. /\ Call("pack", o) \in Calls /\ Call("pack", o).pc = "pack" /\ Call("pack", o).tile = o
      /\ Call("pack", o).selected = ui.selected
  BY <1>0, CallRecord DEF CallLabels
<1>3. /\ ui' \in Calls /\ ui'.selected = ui.selected
      /\ \/ ui'.pc = "idle"
         \/ /\ ui'.pc = "pack" /\ ui'.tile = o
            /\ ui'.kind = "phone" => ui'.seq = tile[o].seq
  <2>1. CASE ui' = [Call("pack", o) EXCEPT !.kind = "phone", !.seq = tile[o].seq]
    <3>1. PICK n \in Nat : n = tile[o].seq
      BY <1>0
    <3>2. PICK c \in Calls : c = Call("pack", o)
      BY <1>2
    <3>3. ui' = [c EXCEPT !.kind = "phone", !.seq = n]
      BY <2>1, <3>1, <3>2
    <3>4. /\ ui' \in Calls /\ ui'.pc = c.pc /\ ui'.tile = c.tile /\ ui'.seq = n
          /\ ui'.selected = c.selected
      BY <3>3, CallWith
    <3> QED BY <1>2, <3>1, <3>2, <3>4
  <2>2. CASE ui' = [Call("pack", o) EXCEPT !.kind = "typed"]
    <3>1. /\ ui' \in Calls /\ ui'.pc = Call("pack", o).pc /\ ui'.tile = Call("pack", o).tile
          /\ ui'.kind = "typed" /\ ui'.selected = Call("pack", o).selected
      BY <1>0, <1>2, <2>2, CallWith
    <3> QED BY <1>2, <3>1
  <2>3. CASE ui' = Idle(ui.selected)
    <3>1. ui.selected \in Tiles \cup {NoTile}
      BY <1>0 DEF Calls
    <3> QED BY <2>3, <3>1, NewRecords, IdleFields
  <2> QED BY <2>1, <2>2, <2>3 DEF GetSerialization
<1>4. TypeOK'
  BY <1>0, <1>3 DEF TypeOK
<1>5. UiInv'
  BY <1>0, <1>1, <1>3 DEF UiInv
<1>6. /\ UNCHANGED <<tile, thread, submitted, refused>> /\ provider' = provider
      /\ ui'.selected = ui.selected
  BY <1>0, <1>3
<1> QED BY <1>4, <1>5, <1>6, CallStep

(* A call that changes one tile, and brings it no success. *)
LEMMA TileStep ==
    ASSUME WinInv, TypeOK', UiInv', RefusedInv', SubmittedInv', LifetimeInv', NEW o \in Tiles,
           tile' = [tile EXCEPT ![o] = tile'[o]],
           tile'[o].seq = tile[o].seq, tile'[o].listener = tile[o].listener,
           tile'[o].result = tile[o].result \/ tile'[o].result # "success",
           thread' = thread, ui'.selected = ui.selected
    PROVE  WinInv'
<1>0. TypeOK /\ UiInv /\ ListenerInv /\ SuccessIsWatched /\ provider.tiles \subseteq Tiles
  BY Parts
<1>1. \A q \in Tiles \ {o} : tile'[q] = tile[q]
  BY <1>0 DEF TypeOK
<1>2. ListenerInv'
  <2>1. ASSUME NEW u \in Threads, thread[u].running
        PROVE  /\ thread[u].tile = ui'.selected /\ ui'.selected # NoTile
               /\ tile'[thread[u].tile].listener = u
    <3>1. thread[u].tile = ui.selected /\ ui.selected # NoTile /\ tile[thread[u].tile].listener = u
      BY <1>0, <2>1 DEF ListenerInv
    <3>2. thread[u].tile \in Tiles
      BY <1>0, <3>1 DEF UiInv
    <3> QED BY <1>1, <3>1, <3>2
  <2> QED BY <1>0, <2>1 DEF ListenerInv
<1>3. SuccessIsWatched'
  BY <1>0, <1>1 DEF SuccessIsWatched
<1> QED BY <1>2, <1>3 DEF WinInv

(* SetStringValue changes nothing the phone's confirmation depends on. *)
LEMMA SetStringKeeps ==
    ASSUME WinInv, NEW b \in BOOLEAN, SetStringValue(b)
    PROVE  WinInv'
<1>0. /\ TypeOK /\ UiInv /\ LifetimeInv /\ RefusedInv /\ SubmittedInv /\ provider.tiles \subseteq Tiles
      /\ ui.selected # NoTile
      /\ UNCHANGED <<starts, provider, thread, unlockMutex, ui, submitted, refused>>
  BY Parts DEF SetStringValue
<1>1. PICK o \in Tiles : o = ui.selected
  BY <1>0 DEF UiInv
<1>2. tile[o] \in TileObjects
  BY Parts
<1>3. tile'[o] = [tile[o] EXCEPT !.typed = b] /\ tile' = [tile EXCEPT ![o] = tile'[o]]
  BY <1>0, <1>1 DEF TypeOK, SetStringValue
<1>4. /\ tile'[o] \in TileObjects /\ tile'[o].seq = tile[o].seq /\ tile'[o].listener = tile[o].listener
      /\ tile'[o].result = tile[o].result /\ tile'[o].blocked = tile[o].blocked
  BY <1>2, <1>3 DEF TileObjects
<1>5. \A q \in Tiles : /\ tile'[q].seq = tile[q].seq /\ tile'[q].blocked = tile[q].blocked
                       /\ tile'[q].result = tile[q].result
  BY <1>0, <1>3, <1>4 DEF TypeOK
<1>6. TypeOK'
  BY <1>0, <1>3, <1>4 DEF TypeOK
<1>7. UiInv'
  <2>1. ui.pc # "idle" => ui.tile \in Tiles
    BY <1>0 DEF UiInv
  <2> QED BY <1>0, <1>5, <2>1 DEF UiInv
<1>8. RefusedInv'
  BY <1>0, <1>5 DEF RefusedInv
<1>9. SubmittedInv'
  <2>1. \A s \in submitted : s[1] \in Tiles
    BY <1>0 DEF TypeOK
  <2> QED BY <1>0, <1>5, <2>1 DEF SubmittedInv
<1>10. LifetimeInv'
  BY <1>0 DEF LifetimeInv
<1>11. thread' = thread /\ ui'.selected = ui.selected /\ tile' = [tile EXCEPT ![o] = tile'[o]]
  BY <1>0, <1>3
<1> QED BY <1>4, <1>6, <1>7, <1>8, <1>9, <1>10, <1>11, TileStep

(* Retry forgets the result and the block of the selected tile. *)
LEMMA CommandLinkKeeps ==
    ASSUME WinInv, CommandLinkClicked
    PROVE  WinInv'
<1>0. /\ TypeOK /\ UiInv /\ LifetimeInv /\ RefusedInv /\ SubmittedInv /\ provider.tiles \subseteq Tiles
      /\ ui.selected # NoTile /\ ui \in Calls
      /\ UNCHANGED <<starts, provider, thread, unlockMutex, submitted>>
  BY Parts DEF CommandLinkClicked
<1>1. PICK o \in Tiles : o = ui.selected
  BY <1>0 DEF UiInv
<1>2. tile[o] \in TileObjects
  BY Parts
<1>3. /\ tile'[o] = [tile[o] EXCEPT !.result = "unknown", !.blocked = FALSE]
      /\ tile' = [tile EXCEPT ![o] = tile'[o]]
  BY <1>0, <1>1 DEF TypeOK, CommandLinkClicked
<1>4. /\ tile'[o] \in TileObjects /\ tile'[o].seq = tile[o].seq /\ tile'[o].listener = tile[o].listener
      /\ tile'[o].result = "unknown"
  BY <1>2, <1>3 DEF TileObjects, Results
<1>5. \A q \in Tiles \ {o} : tile'[q] = tile[q]
  BY <1>0, <1>3 DEF TypeOK
<1>6. refused' = refused \ {o} /\ ui' = Call("retry", o)
  BY <1>1 DEF CommandLinkClicked
<1>7. ui' \in Calls /\ ui'.pc = "retry" /\ ui'.tile = o /\ ui'.selected = ui.selected
  BY <1>0, <1>6, CallRecord DEF CallLabels
<1>8. TypeOK'
  BY <1>0, <1>3, <1>4, <1>6, <1>7 DEF TypeOK
<1>9. UiInv'
  BY <1>0, <1>1, <1>6, <1>7 DEF UiInv
<1>10. RefusedInv'
  BY <1>0, <1>5, <1>6 DEF RefusedInv
<1>11. SubmittedInv'
  <2>1. \A s \in submitted : s[1] \in Tiles
    BY <1>0 DEF TypeOK
  <2> QED BY <1>0, <1>4, <1>5, <2>1 DEF SubmittedInv
<1>12. LifetimeInv'
  BY <1>0, <1>6 DEF LifetimeInv
<1>13. thread' = thread /\ tile' = [tile EXCEPT ![o] = tile'[o]]
  BY <1>0, <1>3
<1> QED BY <1>4, <1>7, <1>8, <1>9, <1>10, <1>11, <1>12, <1>13, TileStep

(* ReportResult: a refused confirmation found its tile blocked, and leaves it so. *)
LEMMA ReportResultKeeps ==
    ASSUME WinInv, NEW b \in BOOLEAN, ReportResult(b)
    PROVE  WinInv'
<1>0. /\ TypeOK /\ UiInv /\ LifetimeInv /\ RefusedInv /\ SubmittedInv /\ provider.tiles \subseteq Tiles
      /\ ui.pc = "logon" /\ ui \in Calls /\ ui' = Idle(ui.selected)
      /\ UNCHANGED <<starts, provider, thread, unlockMutex, submitted>>
  BY Parts DEF ReportResult
<1>1. PICK o \in provider.tiles : o = ui.tile
  BY <1>0 DEF UiInv
<1>2. tile[o] \in TileObjects /\ o \in Tiles
  BY <1>0, Parts
<1>3. PICK f \in BOOLEAN, r \in {"failed", "unknown"} :
        /\ f = (b /\ tile[o].blocked)
        /\ f => r = "failed"
        /\ tile'[o] = [tile[o] EXCEPT !.result = r, !.blocked = f]
        /\ tile' = [tile EXCEPT ![o] = tile'[o]]
  <2>1. PICK f \in BOOLEAN : f = (b /\ tile[o].blocked)
    OBVIOUS
  <2>2. PICK r \in {"failed", "unknown"} : r = IF f THEN "failed" ELSE "unknown"
    OBVIOUS
  <2>3. tile' = [tile EXCEPT ![o].result = r, ![o].blocked = f]
    BY <1>1, <2>1, <2>2 DEF ReportResult
  <2>4. tile'[o] = [tile[o] EXCEPT !.result = r, !.blocked = f] /\ tile' = [tile EXCEPT ![o] = tile'[o]]
    BY <1>0, <1>2, <2>3 DEF TypeOK
  <2> QED BY <2>1, <2>2, <2>4
<1>4. /\ tile'[o] \in TileObjects /\ tile'[o].seq = tile[o].seq /\ tile'[o].listener = tile[o].listener
      /\ tile'[o].result = r /\ tile'[o].blocked = f
  BY <1>2, <1>3 DEF TileObjects, Results
<1>5. \A q \in Tiles \ {o} : tile'[q] = tile[q]
  BY <1>0, <1>3 DEF TypeOK
<1>6. refused' = IF ~b THEN refused \ {o} ELSE IF ui.kind = "phone" THEN refused \cup {o} ELSE refused
  BY <1>1 DEF ReportResult
<1>7. ui' \in Calls /\ ui'.pc = "idle" /\ ui'.selected = ui.selected
  <2>1. ui.selected \in Tiles \cup {NoTile}
    BY <1>0 DEF Calls
  <2> QED BY <1>0, <2>1, NewRecords, IdleFields
<1>8. TypeOK'
  BY <1>0, <1>2, <1>3, <1>4, <1>6, <1>7 DEF TypeOK
<1>9. UiInv'
  BY <1>0, <1>7 DEF UiInv
<1>10. RefusedInv'
  <2> SUFFICES ASSUME NEW q \in refused' \cap provider.tiles
               PROVE  tile'[q].blocked /\ tile'[q].result # "success"
    BY <1>0 DEF RefusedInv
  <2>1. CASE q # o
    BY <1>0, <1>5, <1>6, <2>1 DEF RefusedInv
  <2>2. CASE q = o
    <3>1. b = TRUE
      BY <1>6, <2>2
    <3>2. tile[o].blocked
      BY <1>0, <1>1, <1>6, <2>2, <3>1 DEF RefusedInv, UiInv
    <3>3. f
      BY <1>3, <3>1, <3>2
    <3>4. r = "failed"
      BY <1>3, <3>3
    <3> QED BY <1>4, <2>2, <3>3, <3>4
  <2> QED BY <2>1, <2>2
<1>11. SubmittedInv'
  <2>1. \A s \in submitted : s[1] \in Tiles
    BY <1>0 DEF TypeOK
  <2> QED BY <1>0, <1>4, <1>5, <2>1 DEF SubmittedInv
<1>12. LifetimeInv'
  BY <1>0, <1>1, <1>6 DEF LifetimeInv
<1>13. thread' = thread /\ tile' = [tile EXCEPT ![o] = tile'[o]] /\ tile'[o].result # "success"
  BY <1>0, <1>3, <1>4
<1> QED BY <1>2, <1>4, <1>7, <1>8, <1>9, <1>10, <1>11, <1>12, <1>13, TileStep

(* FinishUnlockSubmission on the tile whose password was packed. *)
LEMMA FinishedTile ==
    ASSUME TypeOK, NEW o \in Tiles, NEW n \in Nat, NEW b \in BOOLEAN, tile' = Finished(o, n, b)
    PROVE  /\ tile' = [tile EXCEPT ![o] = tile'[o]] /\ tile'[o] \in TileObjects
           /\ tile'[o].seq = tile[o].seq /\ tile'[o].listener = tile[o].listener
           /\ ~Pending(o, n) => tile'[o] = tile[o]
           /\ Pending(o, n) => /\ tile'[o].result \in {"unknown", "failed"}
                               /\ b /\ tile[o].cpus # "credui" => tile'[o].blocked
<1>0. tile[o] \in TileObjects
  BY DEF TypeOK
<1>1. CASE ~Pending(o, n)
  BY <1>0, <1>1 DEF TypeOK, Finished
<1>2. CASE Pending(o, n)
  <2>1. PICK r \in {"unknown", "failed"} : r = IF b THEN "unknown" ELSE "failed"
    OBVIOUS
  <2>2. PICK f \in BOOLEAN : f = (b /\ tile[o].cpus # "credui")
    OBVIOUS
  <2>3. tile' = [tile EXCEPT ![o].result = r, ![o].blocked = f]
    BY <1>2, <2>1, <2>2 DEF Finished
  <2>4. tile'[o] = [tile[o] EXCEPT !.result = r, !.blocked = f] /\ tile' = [tile EXCEPT ![o] = tile'[o]]
    BY <2>3 DEF TypeOK
  <2>5. /\ tile'[o] \in TileObjects /\ tile'[o].seq = tile[o].seq /\ tile'[o].listener = tile[o].listener
        /\ tile'[o].result = r /\ tile'[o].blocked = f
    BY <1>0, <2>4 DEF TileObjects, Results
  <2>6. b /\ tile[o].cpus # "credui" => tile'[o].blocked
    <3>1. b /\ tile[o].cpus # "credui" => f
      BY <2>2
    <3> QED BY <2>5, <3>1
  <2> QED BY <1>2, <2>1, <2>4, <2>5, <2>6
<1> QED BY <1>1, <1>2

(* The buffer is built: a confirmation that was submitted leaves its tile. *)
LEMMA SerializedKeeps ==
    ASSUME WinInv, NEW b \in BOOLEAN, Serialized(b)
    PROVE  WinInv'
<1>0. /\ TypeOK /\ UiInv /\ LifetimeInv /\ RefusedInv /\ SubmittedInv /\ provider.tiles \subseteq Tiles
      /\ ui.pc = "pack" /\ ui \in Calls
      /\ UNCHANGED <<starts, provider, thread, unlockMutex, refused>>
  BY Parts DEF Serialized
<1>1. PICK o \in provider.tiles, n \in Nat : o = ui.tile /\ n = ui.seq
  BY <1>0 DEF UiInv, Calls
<1>2. tile[o] \in TileObjects /\ o \in Tiles /\ tile[o].seq \in Nat
  BY <1>0, Parts
<1>3. tile' = IF ui.kind = "phone" THEN Finished(o, n, b) ELSE tile
  BY <1>1 DEF Serialized
<1>4. /\ tile' = [tile EXCEPT ![o] = tile'[o]] /\ tile'[o] \in TileObjects
      /\ tile'[o].seq = tile[o].seq /\ tile'[o].listener = tile[o].listener
      /\ ~(ui.kind = "phone" /\ Pending(o, n)) => tile'[o] = tile[o]
      /\ ui.kind = "phone" /\ Pending(o, n) =>
            /\ tile'[o].result \in {"unknown", "failed"}
            /\ b /\ tile[o].cpus # "credui" => tile'[o].blocked
  <2>1. CASE ui.kind = "phone"
    <3>1. tile' = Finished(o, n, b)
      BY <1>3, <2>1
    <3> QED BY <1>0, <1>2, <2>1, <3>1, FinishedTile
  <2>2. CASE ui.kind # "phone"
    BY <1>0, <1>2, <1>3, <2>2 DEF TypeOK
  <2> QED BY <2>1, <2>2
<1>5. \A q \in Tiles \ {o} : tile'[q] = tile[q]
  BY <1>0, <1>4 DEF TypeOK
<1>6. /\ ui' \in Calls /\ ui'.selected = ui.selected
      /\ \/ ui'.pc = "idle"
         \/ /\ ui'.pc = "logon" /\ ui'.tile = o
            /\ ui'.kind = "phone" => /\ ui.kind = "phone" /\ Pending(o, n)
                                     /\ b /\ tile[o].cpus # "credui"
  <2>1. CASE b /\ tile[o].cpus # "credui"
    <3>1. PICK c \in Calls : /\ c = Call("logon", o) /\ c.pc = "logon" /\ c.tile = o
                             /\ c.selected = ui.selected /\ c.kind = ui.kind
      BY <1>0, <1>2, CallRecord DEF CallLabels
    <3>2. PICK k \in {"none", "phone", "typed", "expired"} :
            k = IF c.kind = "phone" /\ ~Pending(o, n) THEN "expired" ELSE c.kind
      BY DEF Calls
    <3>3. ui' = [c EXCEPT !.kind = IF @ = "phone" /\ ~Pending(o, n) THEN "expired" ELSE @]
      BY <1>1, <2>1, <3>1 DEF Serialized
    <3>4. ui' = [c EXCEPT !.kind = k]
      BY <3>2, <3>3
    <3>5. /\ ui' \in Calls /\ ui'.pc = c.pc /\ ui'.tile = c.tile /\ ui'.kind = k
          /\ ui'.selected = c.selected
      BY <1>1, <1>2, <3>4, CallWith
    <3> QED BY <2>1, <3>1, <3>2, <3>5
  <2>2. CASE ~(b /\ tile[o].cpus # "credui")
    <3>1. ui' = Idle(ui.selected)
      BY <1>1, <2>2 DEF Serialized
    <3>2. ui.selected \in Tiles \cup {NoTile}
      BY <1>0 DEF Calls
    <3> QED BY <3>1, <3>2, NewRecords, IdleFields
  <2> QED BY <2>1, <2>2
<1>7. submitted' = IF b /\ ui.kind = "phone" THEN submitted \cup {<<o, n>>} ELSE submitted
  BY <1>1 DEF Serialized
<1>8. TypeOK'
  <2>1. submitted' \subseteq Tiles \X Nat
    BY <1>0, <1>2, <1>7 DEF TypeOK
  <2>2. tile' \in [Tiles -> TileObjects]
    BY <1>0, <1>2, <1>4 DEF TypeOK
  <2> QED BY <1>0, <1>6, <2>1, <2>2 DEF TypeOK
<1>9. UiInv'
  <2>1. ui'.pc = "logon" /\ ui'.kind = "phone" => tile'[ui'.tile].blocked
    BY <1>4, <1>6
  <2> QED BY <1>0, <1>6, <2>1 DEF UiInv
<1>10. RefusedInv'
  <2>1. \A q \in refused \cap provider.tiles : tile'[q] = tile[q]
    <3>1. o \in refused => ~Pending(o, n)
      BY <1>0, <1>1 DEF RefusedInv, Pending
    <3> QED BY <1>0, <1>4, <1>5, <3>1
  <2> QED BY <1>0, <2>1 DEF RefusedInv
<1>11. SubmittedInv'
  <2>1. ui.kind = "phone" => n <= tile[o].seq
    BY <1>0, <1>1 DEF UiInv
  <2>2. ASSUME NEW s \in submitted
        PROVE  \/ s[2] < tile'[s[1]].seq
               \/ s[2] = tile'[s[1]].seq /\ tile'[s[1]].result # "success"
    <3>1. s[1] \in Tiles
      BY <1>0 DEF TypeOK
    <3>2. \/ s[2] < tile[s[1]].seq
          \/ s[2] = tile[s[1]].seq /\ tile[s[1]].result # "success"
      BY <1>0 DEF SubmittedInv
    <3>3. tile'[s[1]].seq = tile[s[1]].seq
      BY <1>4, <1>5, <3>1
    <3>4. tile'[s[1]].result = tile[s[1]].result \/ tile'[s[1]].result # "success"
      BY <1>4, <1>5, <3>1
    <3> QED BY <3>2, <3>3, <3>4
  <2>3. ui.kind = "phone" => \/ n < tile'[o].seq
                             \/ n = tile'[o].seq /\ tile'[o].result # "success"
    <3>1. CASE n = tile[o].seq
      BY <1>4, <3>1 DEF Pending
    <3>2. CASE n # tile[o].seq
      BY <1>2, <1>4, <2>1, <3>2
    <3> QED BY <3>1, <3>2
  <2>4. <<o, n>>[1] = o /\ <<o, n>>[2] = n
    OBVIOUS
  <2>5. ASSUME NEW s \in submitted'
        PROVE  \/ s[2] < tile'[s[1]].seq
               \/ s[2] = tile'[s[1]].seq /\ tile'[s[1]].result # "success"
    <3>1. CASE s \in submitted
      BY <2>2, <3>1
    <3>2. CASE s \notin submitted
      <4>1. ui.kind = "phone" /\ s = <<o, n>>
        BY <1>7, <2>5, <3>2
      <4> QED BY <2>3, <2>4, <4>1
    <3> QED BY <3>1, <3>2
  <2> QED BY <2>5 DEF SubmittedInv
<1>12. LifetimeInv'
  <2>1. o[2] <= provider.lifetime
    BY <1>0 DEF LifetimeInv
  <2> QED BY <1>0, <1>7, <2>1 DEF LifetimeInv
<1>13. /\ thread' = thread /\ tile' = [tile EXCEPT ![o] = tile'[o]]
       /\ tile'[o].result = tile[o].result \/ tile'[o].result # "success"
  BY <1>0, <1>4
<1> QED BY <1>2, <1>4, <1>6, <1>8, <1>9, <1>10, <1>11, <1>12, <1>13, TileStep

(* A listener that runs is stopped with its tile, which is the selected one. *)
LEMMA RunsForSelected ==
    ASSUME WinInv, NEW u \in Threads, thread[u].running
    PROVE  /\ thread[u].tile = ui.selected /\ ui.selected \in provider.tiles
           /\ tile[ui.selected].listener = u
<1>0. UiInv /\ ListenerInv
  BY Parts
<1> QED BY <1>0 DEF UiInv, ListenerInv

(* The selected tile gets a new listener, or none, when no other runs. *)
LEMMA StartedKeeps ==
    ASSUME WinInv, NEW o \in provider.tiles, o = ui.selected, NEW th \in [Threads -> Listeners],
           \A u \in Threads : /\ th[u].running = FALSE /\ th[u].pc = thread[u].pc
                              /\ th[u].tile = thread[u].tile /\ th[u].seq = thread[u].seq,
           NEW w \in BOOLEAN, NEW ls \in Threads \cup {NoThread},
           Started(o, th, w, thread', ls), tile' = [tile EXCEPT ![o].listener = ls],
           ui' = Idle(ui.selected), UNCHANGED <<provider, unlockMutex, submitted, refused>>
    PROVE  WinInv'
<1>0. /\ TypeOK /\ UiInv /\ LifetimeInv /\ ListenerInv /\ RefusedInv /\ SubmittedInv /\ SuccessIsWatched
      /\ o \in Tiles /\ o # NoTile /\ tile[o] \in TileObjects /\ \A u \in Threads : u # NoThread
  BY Parts
<1>1. tile'[o] = [tile[o] EXCEPT !.listener = ls] /\ \A q \in Tiles \ {o} : tile'[q] = tile[q]
  BY <1>0 DEF TypeOK
<1>2. /\ tile'[o] \in TileObjects /\ tile'[o].listener = ls
      /\ tile'[o].seq = tile[o].seq /\ tile'[o].result = tile[o].result /\ tile'[o].blocked = tile[o].blocked
  BY <1>0, <1>1 DEF TileObjects
<1>3. ui' \in Calls /\ ui'.pc = "idle" /\ ui'.selected = o
  BY <1>0, NewRecords, IdleFields
<1>4. /\ thread' \in [Threads -> Listeners] /\ starts' \in 0 .. MaxStarts
      /\ \A u \in Threads : \/ thread'[u] = th[u]
                            \/ th[u].pc = "free" /\ u = ls /\ thread'[u].tile = o
  <2>1. CASE thread' = th /\ ls = NoThread /\ UNCHANGED starts
    BY <1>0, <2>1 DEF TypeOK
  <2>2. CASE \E t \in Threads :
          /\ th[t].pc = "free" /\ starts < MaxStarts
          /\ ls = t
          /\ starts' = starts + 1
          /\ thread' = [th EXCEPT ![t] = [FreeThread EXCEPT !.pc = "init", !.tile = o,
                                            !.running = TRUE, !.ignoreWait = w]]
    <3>1. PICK t \in Threads :
          /\ th[t].pc = "free" /\ starts < MaxStarts
          /\ ls = t
          /\ starts' = starts + 1
          /\ thread' = [th EXCEPT ![t] = [FreeThread EXCEPT !.pc = "init", !.tile = o,
                                            !.running = TRUE, !.ignoreWait = w]]
      BY <2>2
    <3>2. PICK n \in Listeners : /\ n = [FreeThread EXCEPT !.pc = "init", !.tile = o,
                                                          !.running = TRUE, !.ignoreWait = w]
                                 /\ n.tile = o
      <4>1. PICK f \in Listeners : f = FreeThread
        BY NewRecords
      <4>2. PICK n \in Listeners : n = [f EXCEPT !.pc = "init", !.tile = o, !.running = TRUE,
                                               !.ignoreWait = w]
        BY <1>0 DEF Listeners
      <4>3. n.tile = o
        BY <1>0, <4>2 DEF Listeners
      <4> QED BY <4>1, <4>2, <4>3
    <3>3. thread' = [th EXCEPT ![t] = n]
      BY <3>1, <3>2
    <3>4. starts' \in 0 .. MaxStarts
      BY <1>0, <3>1, WinConstants DEF TypeOK
    <3> QED BY <3>1, <3>2, <3>3, <3>4
  <2> QED BY <2>1, <2>2 DEF Started
<1>5. TypeOK'
  <2>1. tile' \in [Tiles -> TileObjects]
    BY <1>0, <1>1, <1>2 DEF TypeOK
  <2> QED BY <1>0, <1>3, <1>4, <2>1 DEF TypeOK
<1>6. UiInv'
  BY <1>0, <1>3 DEF UiInv
<1>7. LifetimeInv'
  BY <1>0 DEF LifetimeInv
<1>8. ListenerInv'
  <2>1. ASSUME NEW u \in Threads, thread'[u].running
        PROVE  thread'[u].tile = o /\ tile'[o].listener = u
    BY <1>2, <1>4, <2>1
  <2>2. ASSUME NEW u \in Threads, thread'[u].pc # "free"
        PROVE  thread'[u].tile \in Tiles
    BY <1>0, <1>4, <2>2 DEF ListenerInv
  <2> QED BY <1>0, <1>3, <2>1, <2>2 DEF ListenerInv
<1>9. RefusedInv'
  BY <1>0, <1>1, <1>2 DEF RefusedInv, TypeOK
<1>10. SubmittedInv'
  <2>1. \A s \in submitted : s[1] \in Tiles
    BY <1>0 DEF TypeOK
  <2> QED BY <1>0, <1>1, <1>2, <2>1 DEF SubmittedInv
<1>11. SuccessIsWatched'
  <2> SUFFICES ASSUME NEW q \in Tiles, tile'[q].result = "success"
               PROVE  \E u \in Threads : /\ thread'[u].pc \in {"notify", "pending"}
                                         /\ thread'[u].tile = q /\ thread'[u].seq = tile'[q].seq
    BY DEF SuccessIsWatched
  <2>1. tile[q].result = "success" /\ tile'[q].seq = tile[q].seq
    BY <1>1, <1>2
  <2>2. PICK u \in Threads : /\ thread[u].pc \in {"notify", "pending"}
                             /\ thread[u].tile = q /\ thread[u].seq = tile[q].seq
    BY <1>0, <2>1 DEF SuccessIsWatched
  <2>3. thread'[u] = th[u]
    BY <1>4, <2>2
  <2> QED BY <2>1, <2>2, <2>3
<1> QED BY <1>5, <1>6, <1>7, <1>8, <1>9, <1>10, <1>11 DEF WinInv

(* SetSelected starts a listener, unless the tile's own is running. *)
LEMMA SelectedStartKeeps ==
    ASSUME WinInv, SelectedStart
    PROVE  WinInv'
<1>0. /\ TypeOK /\ UiInv /\ ui.pc = "select" /\ Start(ui.tile) /\ ui' = Idle(ui.selected)
      /\ ui \in Calls /\ UNCHANGED <<provider, unlockMutex, submitted, refused>>
  BY Parts DEF SelectedStart
<1>1. PICK o \in provider.tiles : o = ui.tile /\ o = ui.selected
  BY <1>0 DEF UiInv
<1>2. CASE IsRunning(o)
  <2>1. UNCHANGED <<tile, thread, starts>>
    BY <1>0, <1>1, <1>2 DEF Start
  <2>2. ui' \in Calls /\ ui'.pc = "idle" /\ ui'.selected = ui.selected
    <3>1. ui.selected \in Tiles \cup {NoTile}
      BY <1>0 DEF Calls
    <3> QED BY <1>0, <3>1, NewRecords, IdleFields
  <2>3. TypeOK'
    BY <1>0, <2>1, <2>2 DEF TypeOK
  <2>4. UiInv'
    BY <1>0, <2>2 DEF UiInv
  <2>5. UNCHANGED <<tile, thread, submitted, refused>> /\ provider' = provider
    BY <1>0, <2>1
  <2> QED BY <2>2, <2>3, <2>4, <2>5, CallStep
<1>3. CASE ~IsRunning(o)
  <2>1. PICK ls \in Threads \cup {NoThread} :
          Started(o, thread, FALSE, thread', ls) /\ tile' = [tile EXCEPT ![o].listener = ls]
    BY <1>0, <1>1, <1>3 DEF Start
  <2>2. \A u \in Threads : thread[u].running = FALSE
    <3>1. \A u \in Threads : thread[u].running \in BOOLEAN
      BY <1>0 DEF TypeOK, Listeners
    <3>2. \A u \in Threads : thread[u].running => IsRunning(o)
      BY <1>1, RunsForSelected, WinConstants DEF IsRunning
    <3> QED BY <1>3, <3>1, <3>2
  <2>3. thread \in [Threads -> Listeners] /\ FALSE \in BOOLEAN
    BY <1>0 DEF TypeOK
  <2> QED BY <1>0, <1>1, <2>1, <2>2, <2>3, StartedKeeps
<1> QED BY <1>2, <1>3

(* The listeners once the one a tile names is stopped. *)
LEMMA StoppedThreads ==
    ASSUME WinInv, NEW o \in Tiles, o = ui.selected
    PROVE  /\ Stopped(o) \in [Threads -> Listeners]
           /\ \A u \in Threads : /\ Stopped(o)[u].running = FALSE /\ Stopped(o)[u].pc = thread[u].pc
                                 /\ Stopped(o)[u].tile = thread[u].tile /\ Stopped(o)[u].seq = thread[u].seq
<1>1. ASSUME NEW u \in Threads
      PROVE  /\ Stopped(o)[u] \in Listeners
             /\ Stopped(o)[u].running = FALSE /\ Stopped(o)[u].pc = thread[u].pc
             /\ Stopped(o)[u].tile = thread[u].tile /\ Stopped(o)[u].seq = thread[u].seq
  <2>0. thread[u] \in Listeners
    BY Parts
  <2>1. CASE u = tile[o].listener
    <3>1. Stopped(o)[u] = [thread[u] EXCEPT !.running = FALSE]
      BY <2>1 DEF Stopped
    <3> QED BY <2>0, <3>1 DEF Listeners
  <2>2. CASE u # tile[o].listener
    <3>1. Stopped(o)[u] = thread[u]
      BY <2>2 DEF Stopped
    <3>2. ~thread[u].running
      BY <2>2, RunsForSelected
    <3>3. thread[u].running = FALSE
      BY <2>0, <3>2 DEF Listeners
    <3> QED BY <2>0, <3>1, <3>3
  <2> QED BY <2>1, <2>2
<1>2. Stopped(o) = [u \in Threads |-> Stopped(o)[u]]
  BY DEF Stopped
<1> QED BY <1>1, <1>2

(* Retry replaces the listener. *)
LEMMA RetryStartKeeps ==
    ASSUME WinInv, RetryStart
    PROVE  WinInv'
<1>0. /\ TypeOK /\ UiInv /\ ui.pc = "retry" /\ Restart(ui.tile) /\ ui' = Idle(ui.selected)
      /\ UNCHANGED <<provider, unlockMutex, submitted, refused>> /\ provider.tiles \subseteq Tiles
  BY Parts DEF RetryStart
<1>1. PICK o \in provider.tiles : o = ui.tile /\ o = ui.selected
  BY <1>0 DEF UiInv
<1>2. PICK ls \in Threads \cup {NoThread} :
        Started(o, Stopped(o), TRUE, thread', ls) /\ tile' = [tile EXCEPT ![o].listener = ls]
  BY <1>0, <1>1 DEF Restart
<1>3. PICK th \in [Threads -> Listeners] : th = Stopped(o)
  BY <1>0, <1>1, StoppedThreads
<1>4. \A u \in Threads : /\ th[u].running = FALSE /\ th[u].pc = thread[u].pc
                         /\ th[u].tile = thread[u].tile /\ th[u].seq = thread[u].seq
  BY <1>0, <1>1, <1>3, StoppedThreads
<1>5. Started(o, th, TRUE, thread', ls) /\ TRUE \in BOOLEAN
  BY <1>2, <1>3
<1> QED BY <1>0, <1>1, <1>2, <1>4, <1>5, StartedKeeps

(* A call after which no listener runs: no tile gains a success by it. *)
LEMMA StopStep ==
    ASSUME WinInv, TypeOK', UiInv', LifetimeInv', RefusedInv', submitted' = submitted,
           \A u \in Threads : /\ thread'[u].running = FALSE /\ thread'[u].pc = thread[u].pc
                              /\ thread'[u].tile = thread[u].tile /\ thread'[u].seq = thread[u].seq,
           \A q \in Tiles : \/ tile'[q].seq = tile[q].seq /\ tile'[q].result = tile[q].result
                            \/ tile'[q].result # "success" /\ \A s \in submitted : s[1] # q
    PROVE  WinInv'
<1>0. TypeOK /\ ListenerInv /\ SubmittedInv /\ SuccessIsWatched
  BY Parts
<1>1. ListenerInv'
  BY <1>0 DEF ListenerInv
<1>2. SubmittedInv'
  <2>1. \A s \in submitted : s[1] \in Tiles
    BY <1>0 DEF TypeOK
  <2> QED BY <1>0, <2>1 DEF SubmittedInv
<1>3. SuccessIsWatched'
  BY <1>0 DEF SuccessIsWatched
<1> QED BY <1>1, <1>2, <1>3 DEF WinInv

(* SetDeselected stops the listener and keeps the result. *)
LEMMA SetDeselectedKeeps ==
    ASSUME WinInv, SetDeselected
    PROVE  WinInv'
<1>0. /\ TypeOK /\ UiInv /\ LifetimeInv /\ RefusedInv /\ provider.tiles \subseteq Tiles
      /\ ui.selected # NoTile /\ ui' = Idle(NoTile)
      /\ UNCHANGED <<starts, provider, unlockMutex, submitted, refused>>
  BY Parts DEF SetDeselected
<1>1. PICK o \in Tiles : o = ui.selected
  BY <1>0 DEF UiInv
<1>2. tile[o] \in TileObjects
  BY Parts
<1>3. /\ tile'[o] = [tile[o] EXCEPT !.listener = NoThread, !.typed = FALSE]
      /\ tile' = [tile EXCEPT ![o] = tile'[o]]
  BY <1>0, <1>1 DEF TypeOK, SetDeselected
<1>4. /\ tile'[o] \in TileObjects /\ tile'[o].seq = tile[o].seq
      /\ tile'[o].result = tile[o].result /\ tile'[o].blocked = tile[o].blocked
  BY <1>2, <1>3 DEF TileObjects
<1>5. \A q \in Tiles : /\ tile'[q].seq = tile[q].seq /\ tile'[q].result = tile[q].result
                       /\ tile'[q].blocked = tile[q].blocked
  BY <1>0, <1>3, <1>4 DEF TypeOK
<1>6. thread' = Stopped(o)
  BY <1>1 DEF SetDeselected
<1>7. /\ thread' \in [Threads -> Listeners]
      /\ \A u \in Threads : /\ thread'[u].running = FALSE /\ thread'[u].pc = thread[u].pc
                            /\ thread'[u].tile = thread[u].tile /\ thread'[u].seq = thread[u].seq
  BY <1>1, <1>6, StoppedThreads
<1>8. ui' \in Calls /\ ui'.pc = "idle" /\ ui'.selected = NoTile
  BY <1>0, NewRecords, IdleFields
<1>9. TypeOK'
  BY <1>0, <1>3, <1>4, <1>7, <1>8 DEF TypeOK
<1>10. UiInv'
  BY <1>8 DEF UiInv
<1>11. LifetimeInv'
  BY <1>0 DEF LifetimeInv
<1>12. RefusedInv'
  BY <1>0, <1>5 DEF RefusedInv
<1>13. submitted' = submitted
  BY <1>0
<1> QED BY <1>5, <1>7, <1>9, <1>10, <1>11, <1>12, <1>13, StopStep

(* Shutdown of every tile: no listener runs any more. *)
LEMMA StopTilesStops ==
    ASSUME WinInv, StopTiles
    PROVE  /\ thread' \in [Threads -> Listeners]
           /\ \A u \in Threads : /\ thread'[u].running = FALSE /\ thread'[u].pc = thread[u].pc
                                 /\ thread'[u].tile = thread[u].tile /\ thread'[u].seq = thread[u].seq
<1>1. ASSUME NEW u \in Threads
      PROVE  /\ thread'[u] \in Listeners
             /\ thread'[u].running = FALSE /\ thread'[u].pc = thread[u].pc
             /\ thread'[u].tile = thread[u].tile /\ thread'[u].seq = thread[u].seq
  <2>0. thread[u] \in Listeners
    BY Parts
  <2>1. CASE thread[u].tile \in provider.tiles
    <3>1. thread'[u] = [thread[u] EXCEPT !.running = FALSE]
      BY <2>1 DEF StopTiles
    <3> QED BY <2>0, <3>1 DEF Listeners
  <2>2. CASE thread[u].tile \notin provider.tiles
    <3>1. thread'[u] = thread[u]
      BY <2>2 DEF StopTiles
    <3>2. ~thread[u].running
      BY <2>2, RunsForSelected
    <3>3. thread[u].running = FALSE
      BY <2>0, <3>2 DEF Listeners
    <3> QED BY <2>0, <3>1, <3>3
  <2> QED BY <2>1, <2>2
<1>2. thread' = [u \in Threads |-> thread'[u]]
  BY DEF StopTiles
<1> QED BY <1>1, <1>2

(* A tile that was shut down keeps its result for the thread that watches it. *)
LEMMA ShutdownTile ==
    ASSUME NEW r \in TileObjects
    PROVE  /\ Shutdown(r) \in TileObjects
           /\ Shutdown(r).seq = r.seq /\ Shutdown(r).result = r.result
           /\ Shutdown(r).listener = NoThread
<1>1. PICK f \in TileObjects : f = NewTile(r.cpus)
  BY NewRecords DEF TileObjects
<1>2. Shutdown(r) = [f EXCEPT !.result = r.result, !.seq = r.seq]
  BY <1>1 DEF Shutdown
<1>3. Shutdown(r) \in TileObjects /\ Shutdown(r).seq = r.seq /\ Shutdown(r).result = r.result
  BY <1>2 DEF TileObjects
<1>4. f.listener = NoThread
  BY <1>1 DEF NewTile
<1>5. Shutdown(r).listener = f.listener
  BY <1>2 DEF TileObjects
<1> QED BY <1>3, <1>4, <1>5

(* The provider is destroyed. *)
LEMMA DestroyKeeps ==
    ASSUME WinInv, Destroy
    PROVE  WinInv'
<1>0. /\ TypeOK /\ UiInv /\ LifetimeInv /\ RefusedInv /\ StopTiles /\ provider \in Providers
      /\ provider' = [provider EXCEPT !.tiles = {}, !.changed = FALSE]
      /\ ui' = Idle(NoTile) /\ UNCHANGED <<starts, unlockMutex, submitted, refused>>
      /\ \A o \in Tiles : tile[o] \in TileObjects
  BY Parts DEF Destroy
<1>1. /\ thread' \in [Threads -> Listeners]
      /\ \A u \in Threads : /\ thread'[u].running = FALSE /\ thread'[u].pc = thread[u].pc
                            /\ thread'[u].tile = thread[u].tile /\ thread'[u].seq = thread[u].seq
  BY <1>0, StopTilesStops
<1>2. provider' \in Providers /\ provider'.tiles = {} /\ provider'.lifetime = provider.lifetime
  BY <1>0 DEF Providers
<1>3. ui' \in Calls /\ ui'.pc = "idle" /\ ui'.selected = NoTile
  BY <1>0, NewRecords, IdleFields
<1>4. ASSUME NEW q \in Tiles
      PROVE  /\ tile'[q] \in TileObjects
             /\ tile'[q].seq = tile[q].seq /\ tile'[q].result = tile[q].result
  BY <1>0, ShutdownTile DEF Destroy
<1>5. tile' \in [Tiles -> TileObjects]
  <2>1. tile' = [q \in Tiles |-> tile'[q]]
    BY DEF Destroy
  <2> QED BY <1>4, <2>1
<1>6. TypeOK'
  BY <1>0, <1>1, <1>2, <1>3, <1>5 DEF TypeOK
<1>7. UiInv'
  BY <1>3 DEF UiInv
<1>8. LifetimeInv'
  BY <1>0, <1>2 DEF LifetimeInv
<1>9. RefusedInv'
  BY <1>2 DEF RefusedInv
<1>10. submitted' = submitted
  BY <1>0
<1> QED BY <1>1, <1>4, <1>6, <1>7, <1>8, <1>9, <1>10, StopStep

(* The tiles are made again: those of the new enumeration have no history. *)
LEMMA EnumerateKeeps ==
    ASSUME WinInv, Enumerate
    PROVE  WinInv'
<1>0. /\ TypeOK /\ UiInv /\ LifetimeInv /\ RefusedInv /\ StopTiles /\ provider \in Providers
      /\ ui' = Idle(NoTile) /\ UNCHANGED <<starts, unlockMutex, submitted, refused>>
      /\ provider.lifetime < MaxEnumerations /\ \A o \in Tiles : tile[o] \in TileObjects
  BY Parts DEF Enumerate
<1>1. PICK paired \in SUBSET Users :
          LET made == paired \X {provider.lifetime + 1}
          IN  /\ provider' = [provider EXCEPT !.recreate = FALSE, !.lifetime = @ + 1,
                                 !.tiles = made, !.changed = FALSE]
              /\ tile' = [o \in Tiles |-> IF o \in made THEN NewTile(provider.cpus)
                                          ELSE IF o \in provider.tiles THEN Shutdown(tile[o])
                                          ELSE tile[o]]
  BY DEF Enumerate
<1>2. PICK n \in Lifetimes : n = provider.lifetime + 1
  BY <1>0, WinConstants DEF Providers, Lifetimes
<1>3. PICK made \in SUBSET Tiles : made = paired \X {n}
  BY <1>2 DEF Tiles
<1>4. /\ provider' = [provider EXCEPT !.recreate = FALSE, !.lifetime = n,
                         !.tiles = made, !.changed = FALSE]
      /\ tile' = [o \in Tiles |-> IF o \in made THEN NewTile(provider.cpus)
                                  ELSE IF o \in provider.tiles THEN Shutdown(tile[o])
                                  ELSE tile[o]]
  BY <1>1, <1>2, <1>3
<1>5. n \in 0 .. MaxEnumerations /\ provider.lifetime \in Nat
  BY <1>0, <1>2 DEF Lifetimes, Providers
<1>6. provider' \in Providers /\ provider'.tiles = made /\ provider'.lifetime = n
  BY <1>0, <1>4, <1>5 DEF Providers
<1>7. \A o \in made : o[2] = n
  BY <1>3
<1>8. /\ \A o \in refused : o \notin made
      /\ \A s \in submitted : s[1] \notin made
  BY <1>0, <1>2, <1>5, <1>7 DEF LifetimeInv
<1>9. /\ thread' \in [Threads -> Listeners]
      /\ \A u \in Threads : /\ thread'[u].running = FALSE /\ thread'[u].pc = thread[u].pc
                            /\ thread'[u].tile = thread[u].tile /\ thread'[u].seq = thread[u].seq
  BY <1>0, StopTilesStops
<1>10. ui' \in Calls /\ ui'.pc = "idle" /\ ui'.selected = NoTile
  BY <1>0, NewRecords, IdleFields
<1>11. ASSUME NEW q \in Tiles
       PROVE  /\ tile'[q] \in TileObjects
              /\ \/ tile'[q].seq = tile[q].seq /\ tile'[q].result = tile[q].result
                 \/ tile'[q].result # "success" /\ \A s \in submitted : s[1] # q
  <2>1. CASE q \in made
    <3>1. tile'[q] = NewTile(provider.cpus) /\ provider.cpus \in Scenarios
      BY <1>0, <1>4, <2>1 DEF Providers
    <3>2. tile'[q] \in TileObjects
      BY <3>1, NewRecords
    <3>3. tile'[q].result = "unknown"
      BY <3>1 DEF NewTile
    <3> QED BY <1>8, <2>1, <3>2, <3>3
  <2>2. CASE q \notin made
    BY <1>0, <1>4, <2>2, ShutdownTile
  <2> QED BY <2>1, <2>2
<1>12. tile' \in [Tiles -> TileObjects]
  <2>1. tile' = [q \in Tiles |-> tile'[q]]
    BY <1>4
  <2> QED BY <1>11, <2>1
<1>13. TypeOK'
  BY <1>0, <1>6, <1>9, <1>10, <1>12 DEF TypeOK
<1>14. UiInv'
  BY <1>10 DEF UiInv
<1>15. LifetimeInv'
  <2>1. provider.lifetime <= n /\ n <= n
    BY <1>2, <1>5
  <2>2. \A o \in made \cup refused : o[2] <= n
    <3>1. \A o \in refused : o[2] \in Nat /\ o[2] <= provider.lifetime
      BY <1>0 DEF LifetimeInv, TypeOK, Tiles, Lifetimes
    <3> QED BY <1>5, <1>7, <2>1, <3>1
  <2>3. \A s \in submitted : s[1][2] <= n
    <3>1. \A s \in submitted : s[1][2] \in Nat /\ s[1][2] <= provider.lifetime
      BY <1>0 DEF LifetimeInv, TypeOK, Tiles, Lifetimes
    <3> QED BY <1>5, <2>1, <3>1
  <2> QED BY <1>0, <1>6, <2>2, <2>3 DEF LifetimeInv
<1>16. RefusedInv'
  BY <1>0, <1>6, <1>8 DEF RefusedInv
<1>17. submitted' = submitted
  BY <1>0
<1> QED BY <1>9, <1>11, <1>13, <1>14, <1>15, <1>16, <1>17, StopStep

-----------------------------------------------------------------------------
(* The invariant, and what each step does to the tiles. *)

(* The initial states satisfy the invariant. *)
LEMMA InitInv == Init => WinInv
<1> SUFFICES ASSUME Init PROVE WinInv
  OBVIOUS
<1>1. provider \in Providers /\ provider.tiles = {} /\ provider.lifetime = 0
  <2>1. provider \in [cpus : Scenarios, recreate : {TRUE}, lifetime : {0}, tiles : {{}},
                       changed : {FALSE}]
    BY DEF Init
  <2>2. PICK c \in Scenarios : provider = [cpus |-> c, recreate |-> TRUE, lifetime |-> 0,
                                           tiles |-> {}, changed |-> FALSE]
    BY <2>1
  <2>3. 0 \in 0 .. MaxEnumerations /\ {} \in SUBSET Tiles
    BY WinConstants
  <2> QED BY <2>2, <2>3 DEF Providers
<1>2. tile \in [Tiles -> TileObjects] /\ \A o \in Tiles : tile[o] = NewTile("logon")
  BY NewRecords DEF Init
<1>3. thread \in [Threads -> Listeners] /\ \A t \in Threads : thread[t] = FreeThread
  BY NewRecords DEF Init
<1>4. ui \in Calls /\ ui.pc = "idle" /\ ui.selected = NoTile
  BY NewRecords, IdleFields DEF Init
<1>5. submitted = {} /\ refused = {} /\ starts = 0 /\ unlockMutex = NoThread
  BY DEF Init
<1>6. TypeOK
  BY <1>1, <1>2, <1>3, <1>4, <1>5, WinConstants DEF TypeOK
<1>7. UiInv
  BY <1>4 DEF UiInv
<1>8. LifetimeInv /\ RefusedInv /\ SubmittedInv
  BY <1>1, <1>5 DEF LifetimeInv, RefusedInv, SubmittedInv
<1>9. ListenerInv
  BY <1>3 DEF ListenerInv, FreeThread
<1>10. SuccessIsWatched
  BY <1>2 DEF SuccessIsWatched, NewTile
<1> QED BY <1>6, <1>7, <1>8, <1>9, <1>10 DEF WinInv

(* Every step keeps it. *)
LEMMA NextKeeps == WinInv /\ [Next]_vars => WinInv'
<1> SUFFICES ASSUME WinInv, [Next]_vars PROVE WinInv'
  OBVIOUS
<1>1. CASE LogonUI
  BY <1>1, ScenarioKeeps, EnumerateKeeps, CountKeeps, DestroyKeeps, SetSelectedKeeps,
     GetSerializationKeeps, SelectedStartKeeps, SetDeselectedKeeps, CommandLinkKeeps,
     RetryStartKeeps, SetStringKeeps, ReportResultKeeps, SerializedKeeps DEF LogonUI, PackOutcomes
<1>2. CASE \E t \in Threads : Listener(t)
  BY <1>2, ListenerKeeps
<1>3. CASE UNCHANGED vars
  BY <1>3 DEF vars, WinInv, TypeOK, UiInv, LifetimeInv, ListenerInv, RefusedInv, SubmittedInv,
              SuccessIsWatched
<1> QED BY <1>1, <1>2, <1>3 DEF Next

(* Only a listener that runs brings a success; only a start of the tile in the call gives *)
(* it another listener.                                                                   *)
Quiet(o) ==
    /\ \/ tile'[o].listener \in {tile[o].listener, NoThread}
       \/ ui.pc \in {"select", "retry"} /\ o = ui.tile
    /\ tile'[o].result = "success" /\ tile[o].result # "success" =>
          \E t \in Threads : thread[t].running /\ thread[t].tile = o

(* A step that rewrites some fields of one tile. *)
LEMMA OneTile ==
    ASSUME TypeOK, NEW q \in Tiles, NEW o \in Tiles, tile' = [tile EXCEPT ![q] = tile'[q]],
           tile'[q].listener \in {tile[q].listener, NoThread},
           tile'[q].result = tile[q].result \/ tile'[q].result # "success"
    PROVE  Quiet(o)
BY DEF Quiet, TypeOK

(* LogonUI's calls on the tiles. *)
LEMMA CallsQuiet ==
    ASSUME WinInv, NEW o \in Tiles, LogonUI
    PROVE  Quiet(o)
<1>0. /\ TypeOK /\ UiInv /\ provider.tiles \subseteq Tiles /\ provider \in Providers
      /\ \A q \in Tiles : tile[q] \in TileObjects
  BY Parts
<1>1. ASSUME UNCHANGED tile PROVE Quiet(o)
  BY <1>1 DEF Quiet
<1>2. ASSUME NEW c \in Scenarios, SetUsageScenario(c) PROVE Quiet(o)
  BY <1>1, <1>2 DEF SetUsageScenario
<1>3. CASE CountCredentials
  BY <1>1, <1>3 DEF CountCredentials
<1>4. ASSUME NEW q \in Tiles, SetSelected(q) \/ GetSerialization(q) PROVE Quiet(o)
  BY <1>1, <1>4 DEF SetSelected, GetSerialization
<1>5. ASSUME \/ tile'[o] = tile[o] \/ tile'[o] = Shutdown(tile[o])
             \/ \E c : tile'[o] = NewTile(c)
      PROVE  Quiet(o)
  <2>1. CASE tile'[o] = tile[o]
    BY <2>1 DEF Quiet
  <2>2. CASE tile'[o] = Shutdown(tile[o])
    BY <1>0, <2>2, ShutdownTile DEF Quiet
  <2>3. CASE \E c : tile'[o] = NewTile(c)
    BY <2>3 DEF Quiet, NewTile
  <2> QED BY <1>5, <2>1, <2>2, <2>3
<1>6. CASE Enumerate
  BY <1>5, <1>6 DEF Enumerate
<1>7. CASE Destroy
  BY <1>5, <1>7 DEF Destroy
<1>8. ASSUME ui.pc \in {"select", "retry"}, NEW q, q = ui.tile, NEW ls,
             tile' = [tile EXCEPT ![q].listener = ls]
      PROVE  Quiet(o)
  <2>1. q \in Tiles /\ tile[q] \in TileObjects
    BY <1>0, <1>8 DEF UiInv
  <2>2. tile'[q] = [tile[q] EXCEPT !.listener = ls]
    BY <1>0, <1>8, <2>1 DEF TypeOK
  <2>3. tile'[q].result = tile[q].result
    BY <2>1, <2>2 DEF TileObjects
  <2>4. o # q => tile'[o] = tile[o]
    BY <1>0, <1>8 DEF TypeOK
  <2> QED BY <1>8, <2>3, <2>4 DEF Quiet
<1>9. CASE SelectedStart
  BY <1>1, <1>8, <1>9 DEF SelectedStart, Start
<1>10. CASE RetryStart
  BY <1>8, <1>10 DEF RetryStart, Restart
<1>11. CASE SetDeselected
  <2>1. PICK q \in Tiles : q = ui.selected
    BY <1>0, <1>11 DEF UiInv, SetDeselected
  <2>2. /\ tile'[q] = [tile[q] EXCEPT !.listener = NoThread, !.typed = FALSE]
        /\ tile' = [tile EXCEPT ![q] = tile'[q]]
    BY <1>0, <1>11, <2>1 DEF TypeOK, SetDeselected
  <2>3. tile'[q].result = tile[q].result /\ tile'[q].listener = NoThread
    BY <1>0, <2>2 DEF TileObjects
  <2> QED BY <1>0, <2>2, <2>3, OneTile
<1>12. ASSUME NEW b \in BOOLEAN, SetStringValue(b) PROVE Quiet(o)
  <2>1. PICK q \in Tiles : q = ui.selected
    BY <1>0, <1>12 DEF UiInv, SetStringValue
  <2>2. tile'[q] = [tile[q] EXCEPT !.typed = b] /\ tile' = [tile EXCEPT ![q] = tile'[q]]
    BY <1>0, <1>12, <2>1 DEF TypeOK, SetStringValue
  <2>3. tile'[q].result = tile[q].result /\ tile'[q].listener = tile[q].listener
    BY <1>0, <2>2 DEF TileObjects
  <2> QED BY <1>0, <2>2, <2>3, OneTile
<1>13. CASE CommandLinkClicked
  <2>1. PICK q \in Tiles : q = ui.selected
    BY <1>0, <1>13 DEF UiInv, CommandLinkClicked
  <2>2. /\ tile'[q] = [tile[q] EXCEPT !.result = "unknown", !.blocked = FALSE]
        /\ tile' = [tile EXCEPT ![q] = tile'[q]]
    BY <1>0, <1>13, <2>1 DEF TypeOK, CommandLinkClicked
  <2>3. tile'[q].result = "unknown" /\ tile'[q].listener = tile[q].listener
    BY <1>0, <2>2 DEF TileObjects
  <2> QED BY <1>0, <2>2, <2>3, OneTile
<1>14. ASSUME NEW b \in BOOLEAN, ReportResult(b) PROVE Quiet(o)
  <2>1. PICK q \in Tiles : q = ui.tile
    BY <1>0, <1>14 DEF UiInv, ReportResult
  <2>2. PICK r \in {"failed", "unknown"}, f \in BOOLEAN :
          tile' = [tile EXCEPT ![q].result = r, ![q].blocked = f]
    <3>1. PICK f \in BOOLEAN : f = (b /\ tile[q].blocked)
      OBVIOUS
    <3>2. PICK r \in {"failed", "unknown"} : r = IF f THEN "failed" ELSE "unknown"
      OBVIOUS
    <3> QED BY <1>14, <2>1, <3>1, <3>2 DEF ReportResult
  <2>3. tile'[q] = [tile[q] EXCEPT !.result = r, !.blocked = f] /\ tile' = [tile EXCEPT ![q] = tile'[q]]
    BY <1>0, <2>2 DEF TypeOK
  <2>4. tile'[q].result = r /\ tile'[q].listener = tile[q].listener
    BY <1>0, <2>3 DEF TileObjects
  <2> QED BY <1>0, <2>3, <2>4, OneTile
<1>15. ASSUME NEW b \in BOOLEAN, Serialized(b) PROVE Quiet(o)
  <2>1. CASE ui.kind = "phone"
    <3>1. PICK q \in Tiles, n \in Nat : q = ui.tile /\ n = ui.seq
      BY <1>0, <1>15 DEF UiInv, Serialized, TypeOK, Calls
    <3>2. tile' = Finished(q, n, b)
      BY <1>15, <2>1, <3>1 DEF Serialized
    <3>3. /\ tile' = [tile EXCEPT ![q] = tile'[q]] /\ tile'[q].listener = tile[q].listener
          /\ tile'[q].result = tile[q].result \/ tile'[q].result # "success"
      BY <1>0, <3>2, FinishedTile
    <3> QED BY <1>0, <3>3, OneTile
  <2>2. CASE ui.kind # "phone"
    BY <1>1, <1>15, <2>2 DEF Serialized
  <2> QED BY <2>1, <2>2
<1> QED BY <1>2, <1>3, <1>4, <1>6, <1>7, <1>9, <1>10, <1>11, <1>12, <1>13, <1>14, <1>15
        DEF LogonUI, PackOutcomes

(* The listeners' steps on the tiles. *)
LEMMA ListenersQuiet ==
    ASSUME WinInv, NEW o \in Tiles, NEW t \in Threads, Listener(t)
    PROVE  Quiet(o)
<1>0. /\ TypeOK /\ ListenerInv /\ thread[t] \in Listeners
      /\ \A q \in Tiles : tile[q] \in TileObjects /\ tile[q].seq \in Nat
  BY Parts
<1>1. CASE UNCHANGED tile
  BY <1>1 DEF Quiet
<1>2. ASSUME thread[t].pc # "free", NEW res \in Results, SetUnlockData(t, res) PROVE Quiet(o)
  <2>1. PICK q \in Tiles : q = thread[t].tile
    BY <1>0, <1>2 DEF ListenerInv
  <2>2. CASE thread[t].running
    <3>1. PICK n \in Nat : n = tile[q].seq + 1
      BY <1>0
    <3>2. tile' = [tile EXCEPT ![q] = [tile[q] EXCEPT !.result = res, !.seq = n]]
      BY <1>2, <2>1, <2>2, <3>1 DEF SetUnlockData, WithAnswer, TileOf
    <3>3. tile'[q] = [tile[q] EXCEPT !.result = res, !.seq = n] /\ (o # q => tile'[o] = tile[o])
      BY <1>0, <3>2 DEF TypeOK
    <3>4. tile'[q].listener = tile[q].listener
      BY <1>0, <3>3 DEF TileObjects
    <3> QED BY <2>1, <2>2, <3>3, <3>4 DEF Quiet
  <2>3. CASE ~thread[t].running
    BY <1>1, <1>2, <2>3 DEF SetUnlockData
  <2> QED BY <2>2, <2>3
<1>3. CASE CancelNetwork(t) \/ ListenThrows(t)
  BY <1>2, <1>3 DEF CancelNetwork, ListenThrows, Results
<1>4. CASE Answer(t)
  <2>1. thread[t].result \in Results
    BY <1>0 DEF Listeners
  <2> QED BY <1>2, <1>4, <2>1 DEF Answer
<1>5. CASE ExpireUnlockSuccess(t)
  <2>1. PICK q \in Tiles : q = thread[t].tile
    BY <1>0, <1>5 DEF ListenerInv, ExpireUnlockSuccess
  <2>2. CASE tile' = [tile EXCEPT ![q].result = "failed"]
    <3>1. tile'[q] = [tile[q] EXCEPT !.result = "failed"] /\ tile' = [tile EXCEPT ![q] = tile'[q]]
      BY <1>0, <2>2 DEF TypeOK
    <3>2. tile'[q].result = "failed" /\ tile'[q].listener = tile[q].listener
      BY <1>0, <3>1 DEF TileObjects
    <3> QED BY <1>0, <3>1, <3>2, OneTile
  <2> QED BY <1>1, <1>5, <2>1, <2>2 DEF ExpireUnlockSuccess, Expired, TileOf
<1>6. CASE EndThread(t)
  <2>1. CASE tile[o].listener = t
    <3>1. tile'[o] = [tile[o] EXCEPT !.listener = NoThread]
      BY <1>6, <2>1 DEF EndThread
    <3>2. tile'[o].listener = NoThread /\ tile'[o].result = tile[o].result
      BY <1>0, <3>1 DEF TileObjects
    <3> QED BY <3>2 DEF Quiet
  <2>2. CASE tile[o].listener # t
    BY <1>6, <2>2 DEF EndThread, Quiet
  <2> QED BY <2>1, <2>2
<1>7. CASE \/ ListenInit(t) \/ WaitNetwork(t) \/ WaitBehavior(t) \/ WaitUser(t)
           \/ LockUnlockMutex(t) \/ GetResult(t) \/ UpdateProvider(t)
  BY <1>1, <1>7 DEF ListenInit, WaitNetwork, WaitBehavior, WaitUser, LockUnlockMutex, GetResult, UpdateProvider
<1> QED BY <1>3, <1>4, <1>5, <1>6, <1>7 DEF Listener

(* GetSerialization is the only call that takes a confirmed password, and takes the one *)
(* that is in the tile.                                                                 *)
LEMMA PacksCurrent ==
    ASSUME WinInv, Next, ui.pc # "pack", ui'.pc = "pack", ui'.kind = "phone"
    PROVE  /\ ui'.tile \in Tiles /\ ui'.seq = tile[ui'.tile].seq
           /\ tile[ui'.tile].result = "success"
<1>0. ui \in Calls /\ provider.tiles \subseteq Tiles /\ \A o \in Tiles : tile[o].seq \in Nat
  BY Parts
<1>1. ~(\E t \in Threads : Listener(t))
  <2>1. ASSUME NEW t \in Threads, Listener(t) PROVE ui' = ui
    BY <2>1 DEF Listener, ListenInit, WaitNetwork, CancelNetwork, WaitBehavior, WaitUser, LockUnlockMutex,
       GetResult, ListenThrows, Answer, UpdateProvider, ExpireUnlockSuccess, EndThread
  <2> QED BY <2>1
<1>2. \A q : ui' # Idle(q)
  BY IdleFields
<1>3. ASSUME NEW q \in Tiles, NEW l \in CallLabels \ {"pack"}, ui' = Call(l, q) PROVE FALSE
  BY <1>0, <1>3, CallRecord
<1>4. ASSUME NEW c \in Scenarios, SetUsageScenario(c) PROVE FALSE
  BY <1>4 DEF SetUsageScenario
<1>5. ASSUME NEW b \in BOOLEAN, SetStringValue(b) \/ ReportResult(b) PROVE FALSE
  BY <1>2, <1>5 DEF SetStringValue, ReportResult
<1>6. ~(Enumerate \/ Destroy \/ SelectedStart \/ SetDeselected \/ RetryStart)
  BY <1>2 DEF Enumerate, Destroy, SelectedStart, SetDeselected, RetryStart
<1>7. ~CountCredentials
  <2> SUFFICES ASSUME CountCredentials PROVE FALSE
    OBVIOUS
  <2>1. CASE ui' = ui
    BY <2>1
  <2>2. CASE \E o \in provider.tiles : ui' = Call("autologon", o)
    BY <1>0, <1>3, <2>2 DEF CallLabels
  <2> QED BY <2>1, <2>2 DEF CountCredentials
<1>8. ~CommandLinkClicked
  <2> SUFFICES ASSUME CommandLinkClicked PROVE FALSE
    OBVIOUS
  <2>1. ui' = Call("retry", ui.selected) /\ ui.selected \in Tiles
    BY <1>0 DEF CommandLinkClicked, Calls
  <2> QED BY <1>3, <2>1 DEF CallLabels
<1>9. ASSUME NEW b \in BOOLEAN, Serialized(b) PROVE FALSE
  BY <1>9 DEF Serialized
<1>10. ASSUME NEW o \in Tiles, SetSelected(o) PROVE FALSE
  <2>1. ASSUME NEW l \in CallLabels \ {"pack"}, ui' = [Call(l, o) EXCEPT !.selected = o] PROVE FALSE
    <3>1. PICK c \in Calls : c = Call(l, o) /\ c.pc = l
      BY <1>0, CallRecord
    <3>2. ui'.pc = c.pc
      BY <2>1, <3>1 DEF Calls
    <3> QED BY <3>1, <3>2
  <2> QED BY <1>2, <1>10, <2>1 DEF SetSelected, CallLabels
<1>11. PICK o \in Tiles : GetSerialization(o)
  BY <1>1, <1>4, <1>5, <1>6, <1>7, <1>8, <1>9, <1>10 DEF Next, LogonUI, PackOutcomes
<1>12. PICK c \in Calls : c = Call("pack", o) /\ c.tile = o
  BY <1>0, CallRecord DEF CallLabels
<1>13. ui' # [c EXCEPT !.kind = "typed"]
  BY DEF Calls
<1>14. tile[o].result = "success" /\ ui' = [c EXCEPT !.kind = "phone", !.seq = tile[o].seq]
  BY <1>2, <1>11, <1>12, <1>13 DEF GetSerialization
<1>15. ui'.tile = o /\ ui'.seq = tile[o].seq
  BY <1>12, <1>14 DEF Calls
<1> QED BY <1>14, <1>15

-----------------------------------------------------------------------------
(* The theorems. *)

(* The invariant of the tiles and their listeners holds in every behaviour. *)
THEOREM WinInvariant == Spec => []WinInv
<1>1. Init => WinInv
  BY InitInv
<1>2. WinInv /\ [Next]_vars => WinInv'
  BY NextKeeps
<1> QED BY <1>1, <1>2, PTL DEF Spec

(* A confirmation that stands in a tile is watched by the listener that brought it *)
(* (CUnlockListener::Listen's wait and ExpireUnlockSuccess).                       *)
THEOREM SuccessWatched == Spec => []SuccessIsWatched
<1>1. WinInv => SuccessIsWatched
  BY DEF WinInv
<1> QED BY <1>1, WinInvariant, PTL

(* A confirmation is packed for LogonUI only while it stands, and never again once it was *)
(* submitted (GetSerialization, FinishUnlockSubmission).                                  *)
THEOREM ConfirmationSubmittedOnce == Spec => SubmittedOnce
<1>1. WinInv /\ [Next]_vars =>
        [\A s \in submitted : ~(ui'.pc = "pack" /\ ui'.kind = "phone" /\ <<ui'.tile, ui'.seq>> = s
                              /\ ui.pc # "pack")]_vars
  <2> SUFFICES ASSUME WinInv, Next, NEW s \in submitted, ui'.pc = "pack", ui'.kind = "phone",
                      <<ui'.tile, ui'.seq>> = s, ui.pc # "pack"
               PROVE  FALSE
    OBVIOUS
  <2>1. SubmittedInv /\ \A o \in Tiles : tile[o].seq \in Nat
    BY Parts
  <2>2. /\ ui'.tile \in Tiles /\ ui'.seq = tile[ui'.tile].seq
        /\ tile[ui'.tile].result = "success"
    BY PacksCurrent
  <2>3. s[1] = ui'.tile /\ s[2] = ui'.seq
    OBVIOUS
  <2> QED BY <2>1, <2>2, <2>3 DEF SubmittedInv
<1> QED BY <1>1, WinInvariant, PTL DEF Spec, SubmittedOnce

(* A confirmation arrives only on the tile the user has selected (SetUnlockData's isRunning *)
(* test under _mutex, and who starts and stops listeners).                                  *)
THEOREM ConfirmsSelectedTile == Spec => AnswerOnSelectedTile
<1>1. WinInv /\ [Next]_vars =>
        [\A o \in Tiles : tile'[o].result = "success" /\ tile[o].result # "success"
          => ui.selected = o /\ o \in provider.tiles]_vars
  <2> SUFFICES ASSUME WinInv, Next, NEW o \in Tiles, tile'[o].result = "success",
                      tile[o].result # "success"
               PROVE  ui.selected = o /\ o \in provider.tiles
    OBVIOUS
  <2>1. Quiet(o)
    BY CallsQuiet, ListenersQuiet DEF Next
  <2>2. PICK t \in Threads : thread[t].running /\ thread[t].tile = o
    BY <2>1 DEF Quiet
  <2> QED BY <2>2, RunsForSelected
<1> QED BY <1>1, WinInvariant, PTL DEF Spec, AnswerOnSelectedTile

(* Once Windows refused a confirmed password, the tile gets no new listener before Retry, a *)
(* logon that worked or another confirmation (_isAutoStartBlocked).                         *)
THEOREM RefusedWaits == Spec => RefusedWaitsForRetry
<1>1. WinInv /\ [Next]_vars =>
        [\A o \in refused : tile'[o].listener \in {tile[o].listener, NoThread}]_vars
  <2> SUFFICES ASSUME WinInv, Next, NEW o \in refused
               PROVE  tile'[o].listener \in {tile[o].listener, NoThread}
    OBVIOUS
  <2>1. UiInv /\ o \in Tiles
    BY Parts DEF TypeOK
  <2>2. Quiet(o)
    BY <2>1, CallsQuiet, ListenersQuiet DEF Next
  <2> QED BY <2>1, <2>2 DEF Quiet, UiInv
<1> QED BY <1>1, WinInvariant, PTL DEF Spec, RefusedWaitsForRetry

=============================================================================
