---------------------------- MODULE GpibHandles -----------------------------
(***************************************************************************)
(* What the processes that use a board of the GPIB core hold, and what the *)
(* board counts of it (osfuncs.c, osinit.c, ibinit.c): open files, handles *)
(* of devices, references to the interface driver's module, the board lock *)
(* and automatic polls.                                                    *)
(*                                                                         *)
(* Each process opens the board once at a time; its files' names stand for *)
(* it.  The entries of ibioctl run under big_gpib_mutex and are one step   *)
(* each, but IBMUTEX, which gives it up.  ibopen and ibclose take no lock: *)
(* their steps meet every other entry, and their ++ and -- of a counter of *)
(* the board is a read and a write.  Two assumptions remain: the device    *)
(* list, which ibclose changes unlocked too, is changed in one step, and   *)
(* so is a counter by an ioctl.  copy_from_user does not fail and the      *)
(* callers have CAP_SYS_ADMIN.  The user library (external) never closes   *)
(* handle 0.                                                               *)
(***************************************************************************)
EXTENDS Integers, FiniteSets

CONSTANTS Files,          \* processes, with a file of the board each
          Pads, Sads,     \* addresses of devices
          MaxDescriptors, \* GPIB_MAX_NUM_DESCRIPTORS
          Modules,        \* modules of interface drivers
          MaxCount        \* bound: the count of an address

ASSUME MaxDescriptorsAssumption == MaxDescriptors \in Nat \ {0}
ASSUME MaxCountAssumption == MaxCount \in Nat

VARIABLES
    open,          \* the files that are open
    descriptors,   \* of each file, handles 1 .. MaxDescriptors - 1
    deviceList,    \* the reference count of each address, 0 when not listed
    autopoll, autospollers,      \* files with autopoll_enabled, the board's count
    provider, useCount, gotModule, moduleRefs,
    online,
    userMutex, lockingPid, holding,
    pc,            \* where in IBMUTEX, ibopen or ibclose each process is
    seen,          \* the counter that its ibopen or ibclose has read
    uncounted,     \* history: an address could not be counted
    boardOpened,   \* history: IBOPENDEV was called with is_board
    leftLocked,    \* history: a file was closed with the lock held
    typeFailed,    \* history: a change of driver failed
    useRaced, pollRaced  \* history: a counter changed between read and write

procs == <<pc, seen>>
devs == <<descriptors, deviceList, uncounted, boardOpened>>
polls == <<autopoll, autospollers, pollRaced>>
mods == <<provider, useCount, gotModule, moduleRefs, typeFailed, useRaced>>
lock == <<userMutex, lockingPid, holding, leftLocked>>
vars == <<open, procs, devs, polls, mods, online, lock>>

Handles == 1 .. MaxDescriptors - 1
Addresses == Pads \X Sads
None == [address |-> <<>>, board |-> FALSE]
Nobody == "nobody"
NoModule == "none"

(* There are finitely many processes, and a driver is not no driver.       *)
ASSUME FilesAssumption == IsFiniteSet(Files) /\ Nobody \notin Files
ASSUME ModulesAssumption == NoModule \notin Modules

Init ==
    /\ open = {}
    /\ descriptors = [f \in Files |-> [h \in Handles |-> None]]
    /\ deviceList = [a \in Addresses |-> 0]
    /\ autopoll = {} /\ autospollers = 0
    /\ provider = NoModule /\ useCount = 0 /\ gotModule = {}
    /\ moduleRefs = [m \in Modules |-> 0]
    /\ online = FALSE
    /\ userMutex = Nobody /\ lockingPid = Nobody /\ holding = {}
    /\ pc = [f \in Files |-> "idle"] /\ seen = [f \in Files |-> 0]
    /\ uncounted = FALSE /\ boardOpened = FALSE /\ leftLocked = FALSE
    /\ typeFailed = FALSE /\ useRaced = FALSE /\ pollRaced = FALSE

Goes(f, to) == pc' = [pc EXCEPT ![f] = to]
Forgets(f) == seen' = [seen EXCEPT ![f] = 0]
Idle(f) == f \in open /\ pc[f] = "idle"

(* Who has read a counter and has not written it yet.                      *)
Counting == {f \in Files : pc[f] \in {"count", "uncount"}}
Unpolling == {f \in Files : pc[f] = "unpoll"}

-----------------------------------------------------------------------------
(* The module of the interface driver. *)

UseMeets == useRaced' = (useRaced \/ Counting # {})

TakeModule(f) ==
    /\ gotModule' = gotModule \cup {f} /\ useCount' = useCount + 1
    /\ moduleRefs' = [moduleRefs EXCEPT ![provider] = @ + 1]
    /\ UseMeets
    /\ UNCHANGED <<provider, typeFailed>>

(* ibioctl: a board has a driver, and the file a reference to its module.  *)
Pinned(f) ==
    /\ Idle(f) /\ provider # NoModule
    /\ IF f \in gotModule THEN UNCHANGED mods ELSE TakeModule(f)

ReadsCount(f) == seen' = [seen EXCEPT ![f] = useCount] /\ UseMeets

ibopen(f) ==
    /\ f \notin open /\ pc[f] = "idle"
    /\ IF provider # NoModule
       THEN /\ moduleRefs' = [moduleRefs EXCEPT ![provider] = @ + 1]
            /\ ReadsCount(f) /\ Goes(f, "count")
            /\ UNCHANGED <<open, provider, useCount, gotModule, typeFailed>>
       ELSE open' = open \cup {f} /\ UNCHANGED <<mods, procs>>
    /\ UNCHANGED <<devs, polls, online, lock>>

CountOpen(f) ==
    /\ pc[f] = "count" /\ Goes(f, "idle")
    /\ useCount' = seen[f] + 1 /\ Forgets(f)
    /\ gotModule' = gotModule \cup {f} /\ open' = open \cup {f}
    /\ UNCHANGED <<devs, polls, provider, moduleRefs, typeFailed, useRaced,
                   online, lock>>

(* board_type_ioctl: the references held are given back, and as many, and  *)
(* one for this file, are taken of the new module; the i-th may fail.      *)
board_type_ioctl(f, m) ==
    LET had == f \in gotModule
        back == IF useCount > 0 THEN [moduleRefs EXCEPT ![provider] = @ - useCount]
                ELSE moduleRefs
        Holding(n, files) ==
            /\ useCount' = n /\ gotModule' = files
            /\ moduleRefs' = [back EXCEPT ![m] = @ + n]
        put == IF useCount > 0 THEN gotModule \ {f} ELSE gotModule
    IN  /\ Idle(f) /\ ~online
        /\ provider' = m /\ UseMeets
        /\ \/ /\ \/ \E i \in 0 .. useCount - 1 : Holding(i, put)
                 \/ ~had /\ Holding(useCount, put)
              /\ typeFailed' = TRUE
           \/ /\ Holding(IF had THEN useCount ELSE useCount + 1, put \cup {f})
              /\ UNCHANGED typeFailed
        /\ UNCHANGED <<open, procs, devs, polls, online, lock>>

(* ibonline: the allocation or the attach may fail, and nothing changes.   *)
ibonline(f) ==
    /\ Idle(f) /\ ~online /\ provider # NoModule
    /\ online' = TRUE
    /\ UNCHANGED <<open, procs, devs, polls, mods, lock>>

iboffline(f) ==
    /\ Idle(f) /\ online /\ provider # NoModule
    /\ online' = FALSE
    /\ UNCHANGED <<open, procs, devs, polls, mods, lock>>

-----------------------------------------------------------------------------
(* Handles of devices. *)

(* increment_open_device_count: a new address needs memory.                *)
Increments(list, a) ==
    \/ /\ list[a] < MaxCount
       /\ deviceList' = [list EXCEPT ![a] = @ + 1]
       /\ UNCHANGED uncounted
    \/ list[a] = 0 /\ deviceList' = list /\ uncounted' = TRUE

(* decrement_open_device_count fails for an address that is not listed.    *)
Listed(a) == deviceList[a] > 0
Uncounted(a) == [deviceList EXCEPT ![a] = @ - 1]

(* is_board makes no difference to the count.                              *)
open_dev_ioctl(f, a, board) ==
    /\ Pinned(f) /\ online
    /\ \E h \in Handles :
         /\ descriptors[f][h] = None
         /\ \A g \in Handles : g < h => descriptors[f][g] # None
         /\ descriptors' = [descriptors EXCEPT ![f][h] = [address |-> a, board |-> board]]
         /\ Increments(deviceList, a)
    /\ boardOpened' = (boardOpened \/ board)
    /\ UNCHANGED <<open, procs, polls, online, lock>>

close_dev_ioctl(f, h) ==
    LET a == descriptors[f][h].address IN
    /\ Pinned(f) /\ online
    /\ descriptors[f][h] # None /\ Listed(a)
    /\ deviceList' = Uncounted(a)
    /\ descriptors' = [descriptors EXCEPT ![f][h] = None]
    /\ UNCHANGED <<open, procs, polls, online, lock, uncounted, boardOpened>>

Readdress_CountsFirst(f, h, a) ==
    /\ Increments(deviceList, descriptors[f][h].address)
    /\ descriptors' = [descriptors EXCEPT ![f][h].address = a]

(* The old address is given up before the new one is counted.              *)
Readdress(f, h, a) ==
    LET old == descriptors[f][h].address IN
    /\ Listed(old)
    /\ descriptors' = [descriptors EXCEPT ![f][h].address = a]
    /\ Increments(Uncounted(old), a)

Device(f, h) == descriptors[f][h] # None /\ ~descriptors[f][h].board

pad_ioctl(f, h, pad) ==
    /\ Pinned(f) /\ Device(f, h)
    /\ Readdress(f, h, <<pad, descriptors[f][h].address[2]>>)
    /\ UNCHANGED <<open, procs, polls, online, lock, boardOpened>>

sad_ioctl(f, h, sad) ==
    /\ Pinned(f) /\ Device(f, h)
    /\ Readdress(f, h, <<descriptors[f][h].address[1], sad>>)
    /\ UNCHANGED <<open, procs, polls, online, lock, boardOpened>>

-----------------------------------------------------------------------------
(* Automatic polls and the board lock. *)

PollsMeet == pollRaced' = (pollRaced \/ Unpolling # {})

autospoll_ioctl(f) ==
    /\ Pinned(f) /\ PollsMeet
    /\ IF f \in autopoll
       THEN /\ autopoll' = autopoll \ {f}
            /\ autospollers' = IF autospollers > 0 THEN autospollers - 1 ELSE 0
       ELSE autopoll' = autopoll \cup {f} /\ autospollers' = autospollers + 1
    /\ UNCHANGED <<open, procs, devs, online, lock>>

(* mutex_ioctl, after big_gpib_mutex has been given up.                    *)
mutex_ioctl(f, lock_mutex) ==
    /\ Pinned(f) /\ Goes(f, IF lock_mutex THEN "lock" ELSE "unlock")
    /\ UNCHANGED <<open, seen, devs, polls, online, lock>>

(* The rest of IBMUTEX changes the lock only.                              *)
Locks(f, from, to) ==
    /\ pc[f] = from /\ Goes(f, to)
    /\ UNCHANGED <<open, seen, devs, polls, mods, online, leftLocked>>

LockMutex(f) ==
    /\ userMutex = Nobody
    /\ Locks(f, "lock", "name") /\ userMutex' = f
    /\ UNCHANGED <<lockingPid, holding>>

LockInterrupted(f) ==
    Locks(f, "lock", "idle") /\ UNCHANGED <<userMutex, lockingPid, holding>>

NameHolder(f) ==
    /\ Locks(f, "name", "hold") /\ lockingPid' = f
    /\ UNCHANGED <<userMutex, holding>>

MarkHolding(f) ==
    /\ Locks(f, "hold", "idle") /\ holding' = holding \cup {f}
    /\ UNCHANGED <<userMutex, lockingPid>>

UnlockMutex_KeepsPid(f) ==
    /\ Locks(f, "unlock", IF lockingPid = f THEN "drop" ELSE "idle")
    /\ UNCHANGED <<userMutex, holding, lockingPid>>

(* Only the pid is checked, and cleared under the same spin lock.          *)
UnlockMutex(f) ==
    /\ \/ lockingPid = f /\ Locks(f, "unlock", "drop") /\ lockingPid' = Nobody
       \/ lockingPid # f /\ Locks(f, "unlock", "idle") /\ UNCHANGED lockingPid
    /\ UNCHANGED <<userMutex, holding>>

DropHolding(f) ==
    /\ Locks(f, "drop", "release") /\ holding' = holding \ {f}
    /\ UNCHANGED <<userMutex, lockingPid>>

ReleaseMutex(f) ==
    /\ Locks(f, "release", "idle") /\ userMutex' = Nobody
    /\ UNCHANGED <<lockingPid, holding>>

-----------------------------------------------------------------------------
(* ibclose, in the order of its calls. *)

GivesPollsBack_Never(f) == FALSE
GivesPollsBack(f) == f \in autopoll

ibclose(f) ==
    /\ Idle(f)
    /\ IF GivesPollsBack(f) /\ autospollers > 0
       THEN /\ PollsMeet /\ Goes(f, "unpoll")
            /\ seen' = [seen EXCEPT ![f] = autospollers]
            /\ UNCHANGED <<autopoll, autospollers>>
       ELSE /\ autopoll' = autopoll \ {f} /\ Goes(f, "devices")
            /\ UNCHANGED <<autospollers, pollRaced, seen>>
    /\ UNCHANGED <<open, devs, mods, online, lock>>

GiveBackPolls(f) ==
    /\ pc[f] = "unpoll" /\ Goes(f, "devices")
    /\ autopoll' = autopoll \ {f} /\ autospollers' = seen[f] - 1
    /\ Forgets(f)
    /\ UNCHANGED <<open, devs, pollRaced, mods, online, lock>>

(* cleanup_open_devices: the handles in turn, until one is of an address   *)
(* that is not listed; handles opened with is_board are not counted out.   *)
CleanUp(f) ==
    LET C[h \in 0 .. MaxDescriptors - 1] ==
            IF h = 0 THEN [list |-> deviceList, ok |-> TRUE]
            ELSE LET c == C[h - 1]
                     a == descriptors[f][h].address
                 IN  IF ~c.ok \/ ~Device(f, h) THEN c
                     ELSE IF c.list[a] = 0 THEN [c EXCEPT !.ok = FALSE]
                     ELSE [c EXCEPT !.list[a] = @ - 1]
    IN  C
Cleaned(f) == CleanUp(f)[MaxDescriptors - 1].list

CloseDevices(f) ==
    /\ pc[f] = "devices" /\ Goes(f, "mutex")
    /\ deviceList' = Cleaned(f)
    /\ descriptors' = [descriptors EXCEPT ![f] = [h \in Handles |-> None]]
    /\ UNCHANGED <<open, seen, uncounted, boardOpened, polls, mods, online, lock>>

(* The mutex is given back; locking_pid stays.                             *)
CloseMutex(f) ==
    /\ pc[f] = "mutex" /\ Goes(f, "module")
    /\ userMutex' = IF f \in holding THEN Nobody ELSE userMutex
    /\ leftLocked' = (leftLocked \/ f \in holding)
    /\ holding' = holding \ {f}
    /\ UNCHANGED <<open, seen, devs, polls, mods, online, lockingPid>>

CloseModule(f) ==
    /\ pc[f] = "module"
    /\ IF f \in gotModule /\ useCount > 0
       THEN /\ moduleRefs' = [moduleRefs EXCEPT ![provider] = @ - 1]
            /\ ReadsCount(f) /\ Goes(f, "uncount")
            /\ UNCHANGED <<open, gotModule>>
       ELSE /\ gotModule' = gotModule \ {f} /\ open' = open \ {f}
            /\ Goes(f, "idle") /\ UNCHANGED <<seen, moduleRefs, useRaced>>
    /\ UNCHANGED <<devs, polls, provider, useCount, typeFailed, online, lock>>

CountClose(f) ==
    /\ pc[f] = "uncount" /\ Goes(f, "idle")
    /\ useCount' = seen[f] - 1 /\ Forgets(f)
    /\ gotModule' = gotModule \ {f} /\ open' = open \ {f}
    /\ UNCHANGED <<devs, polls, provider, moduleRefs, typeFailed, useRaced,
                   online, lock>>

-----------------------------------------------------------------------------
Next ==
    \E f \in Files :
       \/ ibopen(f) \/ CountOpen(f) \/ ibonline(f) \/ iboffline(f)
       \/ ibclose(f) \/ GiveBackPolls(f) \/ CloseDevices(f) \/ CloseMutex(f)
       \/ CloseModule(f) \/ CountClose(f)
       \/ autospoll_ioctl(f)
       \/ \E lock_mutex \in BOOLEAN : mutex_ioctl(f, lock_mutex)
       \/ LockMutex(f) \/ LockInterrupted(f) \/ NameHolder(f) \/ MarkHolding(f)
       \/ UnlockMutex(f) \/ DropHolding(f) \/ ReleaseMutex(f)
       \/ \E m \in Modules : board_type_ioctl(f, m)
       \/ \E a \in Addresses, board \in BOOLEAN : open_dev_ioctl(f, a, board)
       \/ \E h \in Handles : \/ close_dev_ioctl(f, h)
                             \/ \E pad \in Pads : pad_ioctl(f, h, pad)
                             \/ \E sad \in Sads : sad_ioctl(f, h, sad)

Spec == Init /\ [][Next]_vars

-----------------------------------------------------------------------------
TypeOK ==
    /\ open \subseteq Files /\ holding \subseteq open
    /\ autospollers \in Nat /\ useCount \in Nat
    /\ \A a \in Addresses : deviceList[a] >= 0
    /\ ~useRaced => \A m \in Modules : moduleRefs[m] >= 0
    /\ userMutex \in Files \cup {Nobody} /\ lockingPid \in Files \cup {Nobody}

IsOf(fh, a) == LET d == descriptors[fh[1]][fh[2]] IN d # None /\ d.address = a
HandlesOf(a) == {fh \in open \X Handles : IsOf(fh, a)}

(* An address is listed, with its status byte queue, for as long as one    *)
(* handle of it is open, whoever opened, closed or readdressed handles of  *)
(* it, and no longer: unless memory ran out, or a handle was opened as a   *)
(* board, which is counted in and never out.                               *)
DevicesAreCounted ==
    ~uncounted =>
       \A a \in Addresses :
          /\ deviceList[a] >= Cardinality(HandlesOf(a))
          /\ ~boardOpened => deviceList[a] = Cardinality(HandlesOf(a))

(* What the board counts is what its files hold, as long as no ibopen or   *)
(* ibclose, which take no lock, changes a counter while another entry      *)
(* does: the polls are those of the open files; each file that marks a     *)
(* reference to the driver's module is in use_count; and unless an ibopen  *)
(* or ibclose is half way, the current driver's module has as many         *)
(* references as use_count says, and no other module any.  After a failed  *)
(* change of driver a file may mark a reference that was given back.       *)
BoardCounts ==
    /\ autopoll \subseteq open /\ gotModule \subseteq open
    /\ ~pollRaced => autospollers = Cardinality(autopoll)
    /\ ~useRaced =>
          /\ useCount <= Cardinality(gotModule)
          /\ ~typeFailed => useCount = Cardinality(gotModule)
          /\ Counting = {} => \A m \in Modules :
                               moduleRefs[m] = IF m = provider THEN useCount ELSE 0

(* Who passes the check of locking_pid holds the board lock, and whoever   *)
(* has passed it still does until it gives the lock back, unless a file    *)
(* has been closed with the lock held: ibclose unlocks and leaves the pid. *)
LockIsHeld ==
    ~leftLocked =>
       /\ lockingPid # Nobody => userMutex = lockingPid
       /\ \A f \in Files : pc[f] \in {"drop", "release"} => userMutex = f

(* IBMUTEX refuses to release the lock of another process: "gpib: bug! pid *)
(* %i tried to release mutex held by pid %i" (osfuncs.c:1350).  The code   *)
(* does not: a process that closed the board with the lock held leaves its *)
(* pid, opens the board again and passes the check before the new holder   *)
(* has named itself.                                                       *)
LockOfAnother ==
    \A f \in Files : pc[f] \in {"drop", "release"} => userMutex \in {f, Nobody}
=============================================================================
