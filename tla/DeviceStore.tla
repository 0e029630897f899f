----------------------------- MODULE DeviceStore -----------------------------
(* The list of paired devices (PairedDevicesStorage): one file shared by every
   process of the program, a cache and a mutex per process, and the threads
   that read, change and save the list.  GetDevices and SaveDevices are two
   critical sections, and writing the file is two steps of the file system: the
   file is truncated when it is opened and filled afterwards. *)
EXTENDS Naturals, Sequences, FiniteSets

CONSTANTS
  Procs,      \* the processes that share the file, "app" the one that pairs
  Threads,    \* the threads that use the storage
  ProcOf,     \* the process of a thread
  Ids,        \* the ids of paired devices
  Methods,    \* the pairing methods
  NoThread    \* the holder of a free mutex

ASSUME DeviceStoreAssumption ==
  /\ ProcOf \in [Threads -> Procs]
  /\ NoThread \notin Threads
  /\ "app" \in Procs

VARIABLES
  file,     \* paired_devices.json
  cache,    \* g_Cache of each process
  lock,     \* g_Mutex of each process
  op,       \* the storage call each thread is in
  faults,   \* bound: how many accesses to the file may still fail
  \* History variables, read by the properties only.
  paired,   \* the key each device was last stored with, 0 once it is removed
  raced     \* something disturbed the calls of a process (see Disturbed)

storeVars == <<file, cache, lock, op, faults, paired, raced>>

\* A stored device: `key' tells apart the keys of successive pairings; the rest
\* of an entry, its SSH servers included, is carried along.  A list is the set of
\* its entries: AddDevice never leaves two of one id, and nothing that is said
\* about a device depends on where in the list it stands.
Absent == [state |-> "absent", list |-> {}]
Torn == [state |-> "torn", list |-> {}]
Complete(list) == [state |-> "ok", list |-> list]

NoDevice == [id |-> "none", method |-> "none", key |-> 0]
IdleOp == [pc |-> "idle", kind |-> "none", arg |-> NoDevice, list |-> {}, ok |-> FALSE]

OfId(list, id) == {e \in list : e.id = id}
WithoutId(list, id) == {e \in list : e.id # id}
OnePerId(list) == \A d, e \in list : d.id = e.id => d = e

Entry == [id : Ids \cup {"none"}, method : Methods \cup {"none"}, key : Nat]
Files == [state : {"absent", "ok", "torn"}, list : SUBSET Entry]

\* What an earlier run can have left: the ids are told apart, and a file that
\* cannot be read holds no entry.
StoredFile(stored) ==
  /\ stored \in Files /\ OnePerId(stored.list)
  /\ stored.state # "ok" => stored.list = {}

\* GetDeviceByID: the entry of that id.
GetDeviceByID(list, id) ==
  IF OfId(list, id) # {} THEN CHOOSE e \in OfId(list, id) : TRUE ELSE NoDevice

AddDevice(list, device) == WithoutId(list, device.id) \cup {device}
RemoveDevice(list, id) == WithoutId(list, id)
RemoveDevicesWithMethod(list, method) == {e \in list : e.method # method}

Changed(o, list) ==
  CASE o.kind = "add" -> AddDevice(list, o.arg)
    [] o.kind = "remove" -> RemoveDevice(list, o.arg.id)
    [] o.kind = "remove_method" -> RemoveDevicesWithMethod(list, o.arg.method)
    [] OTHER -> list

\* A call begins: by id for the commands that look the device up first.
Call(t, kind, arg, lookup) ==
  op' = [op EXCEPT ![t] = [IdleOp EXCEPT !.pc = IF lookup THEN "find" ELSE "get",
                                         !.kind = kind, !.arg = arg]]

\* Load: a file that cannot be read or parsed is an empty list.
Load == IF file.state = "ok" THEN file.list ELSE {}

\* What a process takes the list to be: only a list that is not empty is cached.
View(p) == IF cache[p] # {} THEN cache[p] ELSE Load

InSave(t) == op[t].pc \in {"save", "write"}

\* What excuses a lost device: two calls of a process overlap, another process
\* has saved its own list, or the file was unreadable when a process had no
\* list of its own.
Disturbed(t) ==
  \/ \E u \in Threads \ {t} : ProcOf[u] = ProcOf[t] /\ InSave(u)
  \/ cache[ProcOf[t]] = {} /\ file.state = "torn"

\* SshServerHelper: the entry that was found is added again with its servers changed.
AddServer(o, entry) == [o EXCEPT !.pc = "get", !.kind = "add", !.arg = entry]

(* GetDevices, under the mutex: the cache, or the file when the cache is empty.
   The caller goes on with its copy of the list. *)
GetDevices(t) ==
  LET p == ProcOf[t] IN
  /\ op[t].pc \in {"find", "get"} /\ lock[p] = NoThread
  /\ \E readable \in BOOLEAN :
       LET seen == IF readable THEN View(p) ELSE {}
           entry == GetDeviceByID(seen, op[t].arg.id)
       IN /\ readable \/ (cache[p] = {} /\ faults > 0)
          /\ faults' = IF readable THEN faults ELSE faults - 1
          /\ raced' = (raced \/ Disturbed(t) \/ ~readable)
          /\ cache' = [cache EXCEPT ![p] = seen]
          /\ op' = [op EXCEPT ![t] =
               IF op[t].kind = "list" THEN [@ EXCEPT !.pc = "done", !.ok = TRUE]
               ELSE IF op[t].pc = "get" THEN [@ EXCEPT !.pc = "save", !.list = Changed(op[t], seen)]
               ELSE IF entry = NoDevice THEN [@ EXCEPT !.pc = "done"]
               ELSE IF op[t].kind = "remove" THEN [@ EXCEPT !.pc = "get"]
               ELSE AddServer(op[t], entry)]
  /\ UNCHANGED <<file, lock, paired>>

(* SaveDevices, first half: the mutex is taken, the file is created when it is
   missing and opened, which truncates it.  When it cannot be opened the
   exception is swallowed and the file keeps its contents. *)
SaveDevices(t) ==
  LET p == ProcOf[t] IN
  /\ op[t].pc = "save" /\ lock[p] = NoThread
  /\ \/ /\ lock' = [lock EXCEPT ![p] = t]
        /\ op' = [op EXCEPT ![t].pc = "write"]
        /\ file' = Torn
        /\ raced' = (raced \/ p # "app")
        /\ UNCHANGED faults
     \/ /\ faults > 0
        /\ faults' = faults - 1
        /\ op' = [op EXCEPT ![t].pc = "done"]
        /\ UNCHANGED <<file, lock, raced>>
  /\ UNCHANGED <<cache, paired>>

\* The cache after a write: only a list that was written replaces it.
\* Mutant: after a failed write the cache is dropped, to be read again.
CacheAfterDropped(p, ok, list) == [cache EXCEPT ![p] = IF ok THEN list ELSE {}]
CacheAfter(p, ok, list) == IF ok THEN [cache EXCEPT ![p] = list] ELSE cache

PairedAfter(o) ==
  [id \in Ids |->
    IF o.kind = "add" /\ o.arg.id = id THEN o.arg.key
    ELSE IF o.kind = "remove" /\ o.arg.id = id THEN 0
    ELSE IF o.kind = "remove_method" /\ GetDeviceByID(View("app"), id).method = o.arg.method
    THEN 0 ELSE paired[id]]

(* SaveDevices, second half.  Another process may have written the file since
   this one truncated it; what is left then is either list or neither. *)
WriteBytes(t) ==
  LET p == ProcOf[t] IN
  /\ op[t].pc = "write"
  /\ \/ /\ file' \in {Complete(op[t].list)} \cup (IF file.state = "ok" THEN {Torn} ELSE {})
        /\ op' = [op EXCEPT ![t].pc = "done", ![t].ok = TRUE]
        /\ cache' = CacheAfter(p, TRUE, op[t].list)
        /\ paired' = PairedAfter(op[t])
        /\ UNCHANGED faults
     \/ /\ faults > 0
        /\ faults' = faults - 1
        /\ file' = Torn
        /\ op' = [op EXCEPT ![t].pc = "done"]
        /\ cache' = CacheAfter(p, FALSE, op[t].list)
        /\ UNCHANGED paired
  /\ lock' = [lock EXCEPT ![p] = NoThread]
  /\ UNCHANGED raced

\* StartupChecks::NeedsReinstall drops the cache and reads the list again.
InvalidateCache(p) == cache' = [cache EXCEPT ![p] = {}]

StoreInit(files) ==
  /\ file \in files
  /\ cache = [p \in Procs |-> {}]
  /\ lock = [p \in Procs |-> NoThread]
  /\ op = [t \in Threads |-> IdleOp]
  /\ paired = [id \in Ids |-> GetDeviceByID(file.list, id).key]
  /\ raced = FALSE

StoreStep(t) == GetDevices(t) \/ SaveDevices(t) \/ WriteBytes(t)

StoreTypeOK ==
  /\ file \in Files
  /\ cache \in [Procs -> SUBSET Entry]
  /\ lock \in [Procs -> Threads \cup {NoThread}]
  /\ op \in [Threads ->
       [pc : {"idle", "find", "get", "save", "write", "done"},
        kind : {"none", "list", "add", "remove", "remove_method", "ssh"},
        arg : Entry, list : SUBSET Entry, ok : BOOLEAN]]
  /\ paired \in [Ids -> Nat] /\ raced \in BOOLEAN

(* A device that was paired stays in the list with the key of its last pairing,
   and one that was removed stays out of it, whatever accesses to the file
   fail, as long as the calls of the process do not overlap and no other process
   writes: a failed write leaves the list in the cache, and the next save
   writes it whole. *)
PairedIsKept ==
  ~raced => \A id \in Ids :
    LET key == GetDeviceByID(View("app"), id).key IN key = paired[id]

----
(* The inductive invariant of the list. *)

AppSaves(t) == InSave(t) /\ ProcOf[t] = "app"

\* What a save in progress rests on while nothing has disturbed the process:
\* the list it is about to write is its change of what the process still takes
\* the list to be, it is alone, and truncating the file takes nothing away that
\* the cache does not hold.  Nobody else has the file open.
SavingInv ==
  /\ OnePerId(View("app"))
  /\ \A t \in Threads : AppSaves(t) =>
       /\ op[t].list = Changed(op[t], View("app"))
       /\ cache["app"] = {} => View("app") = {}
       /\ \A u \in Threads : AppSaves(u) => u = t
  /\ \A t \in Threads : op[t].pc = "write" => ProcOf[t] = "app"

ListInv == PairedIsKept /\ (~raced => SavingInv)
==============================================================================
