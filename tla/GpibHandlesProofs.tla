------------------------- MODULE GpibHandlesProofs --------------------------
(***************************************************************************)
(* Proofs about GpibHandles, for any number of processes, addresses,       *)
(* handles of a file and drivers.                                          *)
(*                                                                         *)
(* The state falls into parts that few actions change: where the processes *)
(* are, the board lock, the polls, the references to the module, and the   *)
(* handles.  Each part has a lemma that says which actions change it, and  *)
(* an invariant of its own.                                                *)
(***************************************************************************)
EXTENDS GpibHandles, FiniteSetTheorems, WellFoundedInduction, TLAPS

-----------------------------------------------------------------------------
(* Where the processes are. *)

Places == {"idle", "count", "lock", "name", "hold", "unlock", "drop", "release",
           "unpoll", "devices", "mutex", "module", "uncount"}

(* A process in a call, but ibopen, has the file open, and one that counts *)
(* down has read no zero.                                                  *)
ProcInv ==
    /\ pc \in [Files -> Places] /\ seen \in [Files -> Nat] /\ open \subseteq Files
    /\ useCount \in Nat /\ autospollers \in Nat
    /\ \A f \in Files : /\ pc[f] = "count" => f \notin open
                        /\ pc[f] \notin {"idle", "count"} => f \in open
                        /\ pc[f] \in {"unpoll", "uncount"} => seen[f] > 0

(* The rest of the entries at most take the reference of Pinned.           *)
LEMMA ProcChanges ==
    Next => \/ /\ UNCHANGED <<open, procs, useCount, autospollers>>
            \/ \E f \in Files :
                 \/ ibopen(f) \/ CountOpen(f) \/ ibclose(f) \/ GiveBackPolls(f)
                 \/ CloseDevices(f) \/ CloseMutex(f) \/ CloseModule(f) \/ CountClose(f)
                 \/ autospoll_ioctl(f) \/ \E m \in Modules : board_type_ioctl(f, m)
                 \/ \E lock_mutex \in BOOLEAN : mutex_ioctl(f, lock_mutex)
                 \/ LockMutex(f) \/ LockInterrupted(f) \/ NameHolder(f) \/ MarkHolding(f)
                 \/ UnlockMutex(f) \/ DropHolding(f) \/ ReleaseMutex(f)
                 \/ Pinned(f) /\ UNCHANGED <<open, procs, autospollers>>
BY DEF Next, procs, polls, mods, ibonline, iboffline, open_dev_ioctl, close_dev_ioctl,
       pad_ioctl, sad_ioctl

(* The reference of Pinned is counted.                                     *)
LEMMA PinnedCounts ==
    ASSUME ProcInv, NEW f \in Files, Pinned(f)
    PROVE  useCount' \in Nat /\ f \in open /\ pc[f] = "idle"
BY DEF ProcInv, Pinned, TakeModule, Idle, mods

(* What a step of one process has to show.                                 *)
LEMMA ProcKept ==
    ASSUME ProcInv, NEW f \in Files, NEW to \in Places, Goes(f, to), NEW n \in Nat,
           seen' \in {seen, [seen EXCEPT ![f] = n]},
           to \in {"unpoll", "uncount"} => seen' = [seen EXCEPT ![f] = n] /\ n > 0,
           open' \in {open, open \cup {f}, open \ {f}},
           to = "count" => f \notin open', to \notin {"idle", "count"} => f \in open',
           useCount' \in Nat, autospollers' \in Nat
    PROVE  ProcInv'
<1>1. /\ pc' \in [Files -> Places] /\ pc'[f] = to
      /\ \A g \in Files : g # f => pc'[g] = pc[g] /\ seen'[g] = seen[g]
                                   /\ (g \in open' <=> g \in open)
  BY DEF ProcInv, Goes
<1>2. seen' \in [Files -> Nat] /\ open' \subseteq Files
  BY DEF ProcInv
<1>3. to \in {"unpoll", "uncount"} => seen'[f] > 0
  BY DEF ProcInv
<1>4. ASSUME NEW g \in Files
      PROVE  /\ pc'[g] = "count" => g \notin open'
             /\ pc'[g] \notin {"idle", "count"} => g \in open'
             /\ pc'[g] \in {"unpoll", "uncount"} => seen'[g] > 0
  <2>1. CASE g = f
    BY <1>1, <1>3, <2>1
  <2>2. CASE g # f
    BY <1>1, <2>2 DEF ProcInv
  <2>. QED
    BY <2>1, <2>2
<1>. QED
  BY <1>1, <1>2, <1>4 DEF ProcInv

(* The part of the processes is inductive.                                 *)
LEMMA ProcStep == ProcInv /\ [Next]_vars => ProcInv'
<1>. SUFFICES ASSUME ProcInv, [Next]_vars PROVE ProcInv'
  OBVIOUS
<1>0. 0 \in Nat /\ useCount \in Nat /\ autospollers \in Nat
      /\ \A f \in Files : seen[f] \in Nat /\ seen[f] + 1 \in Nat
  BY DEF ProcInv
<1>1. CASE UNCHANGED <<open, procs, useCount, autospollers>>
  BY <1>1 DEF ProcInv, procs
<1>2. ASSUME NEW f \in Files, ibopen(f) PROVE ProcInv'
  <2>1. CASE provider # NoModule
    <3>1. /\ Goes(f, "count") /\ seen' = [seen EXCEPT ![f] = useCount]
          /\ open' = open /\ f \notin open /\ useCount' = useCount
          /\ autospollers' = autospollers
      BY <1>2, <2>1 DEF ibopen, ReadsCount, polls
    <3>. QED
      BY <1>0, <3>1, ProcKept DEF Places
  <2>2. CASE provider = NoModule
    BY <1>2, <2>2 DEF ibopen, ProcInv, procs, polls, mods
  <2>. QED
    BY <2>1, <2>2
<1>3. ASSUME NEW f \in Files, CountOpen(f) PROVE ProcInv'
  <2>1. /\ Goes(f, "idle") /\ seen' = [seen EXCEPT ![f] = 0]
        /\ open' = open \cup {f} /\ useCount' = seen[f] + 1 /\ autospollers' = autospollers
    BY <1>3 DEF CountOpen, Forgets, polls
  <2>. QED
    BY <1>0, <2>1, ProcKept DEF Places
<1>4. ASSUME NEW f \in Files, ibclose(f) PROVE ProcInv'
  <2>1. f \in open /\ open' = open /\ UNCHANGED <<useCount, autospollers>>
    BY <1>4 DEF ibclose, Idle, mods, polls
  <2>2. CASE autospollers > 0 /\ GivesPollsBack(f)
    <3>1. Goes(f, "unpoll") /\ seen' = [seen EXCEPT ![f] = autospollers]
      BY <1>4, <2>2 DEF ibclose
    <3>. QED
      BY <1>0, <2>1, <2>2, <3>1, ProcKept DEF Places
  <2>3. CASE ~(autospollers > 0 /\ GivesPollsBack(f))
    <3>1. Goes(f, "devices") /\ seen' = seen
      BY <1>4, <2>3 DEF ibclose
    <3>. QED
      BY <1>0, <2>1, <3>1, ProcKept DEF Places
  <2>. QED
    BY <2>2, <2>3
<1>5. ASSUME NEW f \in Files, GiveBackPolls(f) PROVE ProcInv'
  <2>1. /\ Goes(f, "devices") /\ seen' = [seen EXCEPT ![f] = 0] /\ open' = open
        /\ useCount' = useCount /\ autospollers' = seen[f] - 1 /\ pc[f] = "unpoll"
    BY <1>5 DEF GiveBackPolls, Forgets, mods
  <2>2. f \in open /\ autospollers' \in Nat
    BY <2>1 DEF ProcInv
  <2>. QED
    BY <1>0, <2>1, <2>2, ProcKept DEF Places
<1>6. ASSUME NEW f \in Files, CloseDevices(f) \/ CloseMutex(f) PROVE ProcInv'
  <2>1. /\ Goes(f, "mutex") \/ Goes(f, "module")
        /\ pc[f] \in {"devices", "mutex"}
        /\ UNCHANGED <<open, seen, useCount, autospollers>>
    BY <1>6 DEF CloseDevices, CloseMutex, mods, polls
  <2>2. f \in open
    BY <2>1 DEF ProcInv
  <2>. QED
    BY <1>0, <2>1, <2>2, ProcKept DEF Places
<1>7. ASSUME NEW f \in Files, CloseModule(f) PROVE ProcInv'
  <2>1. /\ pc[f] = "module" /\ UNCHANGED <<useCount, autospollers>>
        /\ \/ /\ Goes(f, "uncount") /\ seen' = [seen EXCEPT ![f] = useCount]
              /\ useCount > 0 /\ open' = open
           \/ Goes(f, "idle") /\ seen' = seen /\ open' = open \ {f}
    BY <1>7 DEF CloseModule, ReadsCount, polls
  <2>2. f \in open
    BY <2>1 DEF ProcInv
  <2>. QED
    BY <1>0, <2>1, <2>2, ProcKept DEF Places
<1>8. ASSUME NEW f \in Files, CountClose(f) PROVE ProcInv'
  <2>1. /\ Goes(f, "idle") /\ seen' = [seen EXCEPT ![f] = 0] /\ open' = open \ {f}
        /\ useCount' = seen[f] - 1 /\ pc[f] = "uncount" /\ autospollers' = autospollers
    BY <1>8 DEF CountClose, Forgets, polls
  <2>2. useCount' \in Nat
    BY <2>1 DEF ProcInv
  <2>. QED
    BY <1>0, <2>1, <2>2, ProcKept DEF Places
<1>9. ASSUME NEW f \in Files, autospoll_ioctl(f) PROVE ProcInv'
  <2>1. autospollers' \in Nat
    BY <1>0, <1>9 DEF autospoll_ioctl
  <2>. QED
    BY <1>9, <2>1, PinnedCounts DEF autospoll_ioctl, ProcInv, procs
<1>10. ASSUME NEW f \in Files, NEW m \in Modules, board_type_ioctl(f, m) PROVE ProcInv'
  <2>1. useCount' \in Nat /\ UNCHANGED <<open, procs, autospollers>>
    BY <1>0, <1>10 DEF board_type_ioctl, polls
  <2>. QED
    BY <2>1 DEF ProcInv, procs
<1>11. ASSUME NEW f \in Files, NEW lock_mutex \in BOOLEAN, mutex_ioctl(f, lock_mutex)
       PROVE  ProcInv'
  <2>1. /\ Goes(f, "lock") \/ Goes(f, "unlock")
        /\ UNCHANGED <<open, seen, autospollers>> /\ f \in open /\ useCount' \in Nat
    BY <1>11, PinnedCounts DEF mutex_ioctl, polls
  <2>. QED
    BY <1>0, <2>1, ProcKept DEF Places
<1>12. ASSUME NEW f \in Files,
              \/ LockMutex(f) \/ LockInterrupted(f) \/ NameHolder(f) \/ MarkHolding(f)
              \/ UnlockMutex(f) \/ DropHolding(f) \/ ReleaseMutex(f)
       PROVE  ProcInv'
  <2>1. PICK from, to \in {"idle", "lock", "name", "hold", "unlock", "drop", "release"} :
          Locks(f, from, to) /\ from # "idle"
    BY <1>12 DEF LockMutex, LockInterrupted, NameHolder, MarkHolding, UnlockMutex,
       DropHolding, ReleaseMutex
  <2>2. pc[f] = from /\ Goes(f, to) /\ UNCHANGED <<open, seen, useCount, autospollers>>
    BY <2>1 DEF Locks, mods, polls
  <2>3. f \in open
    BY <2>1, <2>2 DEF ProcInv
  <2>. QED
    BY <1>0, <2>1, <2>2, <2>3, ProcKept DEF Places
<1>13. ASSUME NEW f \in Files, Pinned(f), UNCHANGED <<open, procs, autospollers>>
       PROVE  ProcInv'
  BY <1>13, PinnedCounts DEF ProcInv, procs
<1>14. UNCHANGED vars => UNCHANGED <<open, procs, useCount, autospollers>>
  BY DEF vars, mods, polls
<1>. QED
  BY <1>1, <1>2, <1>3, <1>4, <1>5, <1>6, <1>7, <1>8, <1>9, <1>10, <1>11, <1>12, <1>13,
     <1>14, ProcChanges

-----------------------------------------------------------------------------
(* The board lock. *)

(* As long as no file was closed with the lock held: a process that has    *)
(* taken the lock has it until it gives it back, and only who is named as  *)
(* its holder, or has just taken its name out, is marked as holding it.    *)
LockInv ==
    /\ lockingPid \in Files \cup {Nobody}
    /\ ~leftLocked =>
       /\ \A f \in Files :
            /\ pc[f] = "name" => userMutex = f /\ lockingPid = Nobody /\ holding = {}
            /\ pc[f] = "hold" => userMutex = f /\ lockingPid = f /\ holding = {}
            /\ pc[f] = "drop" => userMutex = f /\ lockingPid = Nobody /\ holding = {f}
            /\ pc[f] = "release" => userMutex = f /\ lockingPid = Nobody /\ holding = {}
       /\ lockingPid # Nobody =>
            /\ userMutex = lockingPid
            /\ pc[lockingPid] # "hold" => holding = {lockingPid}
       /\ lockingPid = Nobody /\ holding # {} => \E f \in Files : pc[f] = "drop"

HasTaken == {"name", "hold", "drop", "release"}

(* Only IBMUTEX and ibclose touch the board lock.                          *)
LEMMA LockChanges ==
    ASSUME ProcInv
    PROVE  Next => \/ /\ UNCHANGED lock
                      /\ \A g \in Files : pc[g] \in HasTaken \/ pc'[g] \in HasTaken
                                             => pc'[g] = pc[g]
                   \/ \E f \in Files : \/ LockMutex(f) \/ NameHolder(f) \/ MarkHolding(f)
                                       \/ UnlockMutex(f) \/ DropHolding(f)
                                       \/ ReleaseMutex(f) \/ CloseMutex(f)
<1>. DEFINE Same == /\ UNCHANGED lock
                    /\ \A g \in Files : pc[g] \in HasTaken \/ pc'[g] \in HasTaken
                                             => pc'[g] = pc[g]
<1>1. UNCHANGED <<lock, pc>> => Same
  OBVIOUS
<1>2. ASSUME NEW f \in Files, NEW to \in Places \ HasTaken, Goes(f, to), UNCHANGED lock,
             pc[f] \notin HasTaken
      PROVE  Same
  BY <1>2 DEF ProcInv, Goes
<1>. HIDE DEF Same
<1>3. ASSUME NEW f \in Files,
             \/ ibopen(f) \/ CountOpen(f) \/ ibclose(f) \/ GiveBackPolls(f)
             \/ CloseDevices(f) \/ CloseModule(f) \/ CountClose(f) \/ LockInterrupted(f)
             \/ \E lock_mutex \in BOOLEAN : mutex_ioctl(f, lock_mutex)
      PROVE  Same
  <2>1. UNCHANGED lock
    BY <1>3 DEF ibopen, CountOpen, ibclose, GiveBackPolls, CloseDevices, CloseModule,
       CountClose, LockInterrupted, Locks, mutex_ioctl, lock
  <2>2. \/ pc' = pc
        \/ pc[f] \notin HasTaken /\ \E to \in Places \ HasTaken : Goes(f, to)
    BY <1>3 DEF ibopen, CountOpen, ibclose, GiveBackPolls, CloseDevices, CloseModule,
       CountClose, LockInterrupted, Locks, mutex_ioctl, Places, HasTaken, procs, Pinned, Idle
  <2>. QED
    BY <1>1, <1>2, <2>1, <2>2
<1>4. Next => \/ UNCHANGED <<lock, pc>>
              \/ \E f \in Files :
                   \/ ibopen(f) \/ CountOpen(f) \/ ibclose(f) \/ GiveBackPolls(f)
                   \/ CloseDevices(f) \/ CloseModule(f) \/ CountClose(f) \/ LockInterrupted(f)
                   \/ \E lock_mutex \in BOOLEAN : mutex_ioctl(f, lock_mutex)
              \/ \E f \in Files : \/ LockMutex(f) \/ NameHolder(f) \/ MarkHolding(f)
                                  \/ UnlockMutex(f) \/ DropHolding(f)
                                  \/ ReleaseMutex(f) \/ CloseMutex(f)
  BY DEF Next, procs, ibonline, iboffline, autospoll_ioctl, board_type_ioctl,
     open_dev_ioctl, close_dev_ioctl, pad_ioctl, sad_ioctl
<1>. QED
  BY <1>1, <1>3, <1>4 DEF Same

(* The part of the lock is inductive.                                      *)
LEMMA LockStep == ProcInv /\ LockInv /\ [Next]_vars => LockInv'
<1>. SUFFICES ASSUME ProcInv, LockInv, [Next]_vars PROVE LockInv'
  OBVIOUS
<1>. USE FilesAssumption
<1>0. pc \in [Files -> Places]
  BY DEF ProcInv
<1>1. ASSUME UNCHANGED lock,
             \A g \in Files : pc[g] \in HasTaken \/ pc'[g] \in HasTaken => pc'[g] = pc[g]
      PROVE  LockInv'
  BY <1>1 DEF lock, LockInv, HasTaken
<1>2. ASSUME NEW f \in Files, LockMutex(f) PROVE LockInv'
  BY <1>0, <1>2 DEF LockMutex, Locks, Goes, LockInv
<1>3. ASSUME NEW f \in Files, NameHolder(f) PROVE LockInv'
  BY <1>0, <1>3 DEF NameHolder, Locks, Goes, LockInv
<1>4. ASSUME NEW f \in Files, MarkHolding(f) PROVE LockInv'
  BY <1>0, <1>4 DEF MarkHolding, Locks, Goes, LockInv
<1>5. ASSUME NEW f \in Files, UnlockMutex(f) PROVE LockInv'
  BY <1>0, <1>5 DEF UnlockMutex, Locks, Goes, LockInv
<1>6. ASSUME NEW f \in Files, DropHolding(f) PROVE LockInv'
  BY <1>0, <1>6 DEF DropHolding, Locks, Goes, LockInv
<1>7. ASSUME NEW f \in Files, ReleaseMutex(f) PROVE LockInv'
  BY <1>0, <1>7 DEF ReleaseMutex, Locks, Goes, LockInv
<1>8. ASSUME NEW f \in Files, CloseMutex(f) PROVE LockInv'
  BY <1>0, <1>8 DEF CloseMutex, Goes, LockInv
<1>. QED
  BY <1>1, <1>2, <1>3, <1>4, <1>5, <1>6, <1>7, <1>8, LockChanges DEF vars, procs

(* At first every process is idle, and the board has no driver.            *)
LEMMA ProcInit == Init => ProcInv /\ LockInv
BY FilesAssumption DEF Init, ProcInv, LockInv, Places

(* Who passes the check of locking_pid in IBMUTEX and IBRSP holds the      *)
(* board lock, and keeps it until it gives it back, unless a file has been *)
(* closed with the lock held.                                              *)
THEOREM PidHoldsLock == Spec => []LockIsHeld
<1>1. ProcInv /\ LockInv => LockIsHeld
  BY DEF LockInv, LockIsHeld
<1>. QED
  BY <1>1, ProcInit, ProcStep, LockStep, PTL DEF Spec

-----------------------------------------------------------------------------
(* What the board counts. *)

(* Sets of files can be counted.                                           *)
LEMMA FilesFinite ==
    ASSUME NEW S \in SUBSET Files
    PROVE  IsFiniteSet(S) /\ Cardinality(S) \in Nat
BY FilesAssumption, FS_Subset, FS_CardinalityType

(* A file that is added to a set counts once.                              *)
LEMMA OneFileMore ==
    ASSUME NEW S \in SUBSET Files, NEW f \in Files
    PROVE  /\ f \notin S => Cardinality(S \cup {f}) = Cardinality(S) + 1
           /\ f \in S => Cardinality(S \cup {f}) = Cardinality(S)
BY FilesFinite, FS_AddElement

(* A file that is removed from a set counted once.                         *)
LEMMA OneFileLess ==
    ASSUME NEW S \in SUBSET Files, NEW f \in Files
    PROVE  /\ f \in S => Cardinality(S \ {f}) = Cardinality(S) - 1 /\ Cardinality(S) > 0
           /\ f \notin S => S \ {f} = S
<1>1. f \in S => Cardinality(S \ {f}) = Cardinality(S) - 1
  BY FilesFinite, FS_RemoveElement
<1>2. Cardinality(S) \in Nat /\ Cardinality(S \ {f}) \in Nat
  BY FilesFinite
<1>. QED
  BY <1>1, <1>2

(* Automatic polls. *)

Quits == {"devices", "mutex", "module", "uncount"}
DoneWithPolls(f) == f \notin open \/ pc[f] \in Quits

(* The polls of the open files are counted, also while one ibclose has     *)
(* read the counter and not yet written it.                                *)
PollInv ==
    /\ autopoll \subseteq Files
    /\ \A f \in Files : /\ DoneWithPolls(f) => f \notin autopoll
                        /\ pc[f] = "unpoll" => f \in autopoll
    /\ ~pollRaced => /\ autospollers = Cardinality(autopoll)
                     /\ \A f \in Unpolling : seen[f] = autospollers /\ Unpolling = {f}

(* Only IBAUTOSPOLL and the first two steps of ibclose touch the polls.    *)
LEMMA PollChanges ==
    ASSUME ProcInv
    PROVE  Next => \/ /\ UNCHANGED <<polls, Unpolling>>
                      /\ \A g \in Files : /\ DoneWithPolls(g)' => DoneWithPolls(g)
                                          /\ g \in Unpolling => seen'[g] = seen[g]
                   \/ \E f \in Files : autospoll_ioctl(f) \/ ibclose(f) \/ GiveBackPolls(f)
<1>. DEFINE Same == /\ UNCHANGED <<polls, Unpolling>>
                    /\ \A g \in Files : /\ DoneWithPolls(g)' => DoneWithPolls(g)
                                        /\ g \in Unpolling => seen'[g] = seen[g]
<1>1. ASSUME UNCHANGED <<polls, open, procs>> PROVE Same
  BY <1>1 DEF Unpolling, DoneWithPolls, procs
<1>2. ASSUME NEW f \in Files, NEW to \in Places \ {"unpoll"}, Goes(f, to), UNCHANGED polls,
             pc[f] # "unpoll", \A g \in Files \ {f} : seen'[g] = seen[g],
             open' = open \/ open' = open \cup {f} \/ (DoneWithPolls(f) /\ open' = open \ {f}),
             to \in Quits => DoneWithPolls(f)
      PROVE  Same
  <2>1. \A g \in Files : pc'[g] = IF g = f THEN to ELSE pc[g]
    BY <1>2 DEF ProcInv, Goes
  <2>2. Unpolling' = Unpolling /\ f \notin Unpolling
    BY <1>2, <2>1 DEF Unpolling
  <2>3. \A g \in Files : DoneWithPolls(g)' => DoneWithPolls(g)
    BY <1>2, <2>1 DEF DoneWithPolls
  <2>. QED
    BY <1>2, <2>2, <2>3
<1>. HIDE DEF Same
<1>3. ASSUME NEW f \in Files,
             \/ ibopen(f) \/ CountOpen(f) \/ CloseDevices(f) \/ CloseMutex(f)
             \/ CloseModule(f) \/ CountClose(f)
      PROVE  Same
  <2>1. UNCHANGED polls /\ pc[f] # "unpoll"
    BY <1>3 DEF ibopen, CountOpen, CloseDevices, CloseMutex, CloseModule, CountClose, polls
  <2>2. \A g \in Files \ {f} : seen'[g] = seen[g]
    BY <1>3 DEF ibopen, CountOpen, CloseDevices, CloseMutex, CloseModule, CountClose, ProcInv,
       procs, ReadsCount, Forgets
  <2>3. \/ UNCHANGED procs /\ open' = open \cup {f}
        \/ Goes(f, "count") /\ open' = open
        \/ Goes(f, "idle") /\ open' = open \cup {f}
        \/ /\ pc[f] \in Quits /\ open' = open
           /\ Goes(f, "mutex") \/ Goes(f, "module") \/ Goes(f, "uncount")
        \/ pc[f] \in Quits /\ open' = open \ {f} /\ Goes(f, "idle")
    BY <1>3 DEF ibopen, CountOpen, CloseDevices, CloseMutex, CloseModule, CountClose, Quits
  <2>4. CASE UNCHANGED procs /\ open' = open \cup {f}
    BY <2>1, <2>4 DEF Same, DoneWithPolls, Unpolling, procs
  <2>5. CASE ~(UNCHANGED procs /\ open' = open \cup {f})
    <3>1. PICK to \in Places \ {"unpoll"} :
            /\ Goes(f, to) /\ (to \in Quits => DoneWithPolls(f))
            /\ open' = open \/ open' = open \cup {f} \/ (DoneWithPolls(f) /\ open' = open \ {f})
      BY <2>3, <2>5 DEF Places, Quits, DoneWithPolls
    <3>. QED
      BY <1>2, <2>1, <2>2, <3>1
  <2>. QED
    BY <2>4, <2>5
<1>4. ASSUME NEW f \in Files,
             \/ LockMutex(f) \/ LockInterrupted(f) \/ NameHolder(f) \/ MarkHolding(f)
             \/ UnlockMutex(f) \/ DropHolding(f) \/ ReleaseMutex(f)
             \/ \E lock_mutex \in BOOLEAN : mutex_ioctl(f, lock_mutex)
      PROVE  Same
  <2>1. /\ UNCHANGED <<polls, open, seen>> /\ pc[f] # "unpoll"
        /\ \E to \in Places \ (Quits \cup {"unpoll"}) : Goes(f, to)
    BY <1>4 DEF LockMutex, LockInterrupted, NameHolder, MarkHolding, UnlockMutex,
       DropHolding, ReleaseMutex, Locks, mutex_ioctl, Places, Quits, Pinned, Idle
  <2>2. PICK to \in Places \ (Quits \cup {"unpoll"}) : Goes(f, to)
    BY <2>1
  <2>3. to \in Places \ {"unpoll"} /\ to \notin Quits
    BY <2>2
  <2>. QED
    BY <1>2, <2>1, <2>2, <2>3
<1>5. Next => \/ UNCHANGED <<polls, open, procs>>
              \/ \E f \in Files :
                   \/ ibopen(f) \/ CountOpen(f) \/ CloseDevices(f) \/ CloseMutex(f)
                   \/ CloseModule(f) \/ CountClose(f)
              \/ \E f \in Files :
                   \/ LockMutex(f) \/ LockInterrupted(f) \/ NameHolder(f) \/ MarkHolding(f)
                   \/ UnlockMutex(f) \/ DropHolding(f) \/ ReleaseMutex(f)
                   \/ \E lock_mutex \in BOOLEAN : mutex_ioctl(f, lock_mutex)
              \/ \E f \in Files : autospoll_ioctl(f) \/ ibclose(f) \/ GiveBackPolls(f)
  BY DEF Next, ibonline, iboffline, board_type_ioctl, open_dev_ioctl, close_dev_ioctl,
     pad_ioctl, sad_ioctl
<1>. QED
  BY <1>1, <1>3, <1>4, <1>5 DEF Same

(* The part of the polls is inductive.                                     *)
LEMMA PollStep == ProcInv /\ PollInv /\ [Next]_vars => PollInv'
<1>. SUFFICES ASSUME ProcInv, PollInv, [Next]_vars PROVE PollInv'
  OBVIOUS
<1>1. ASSUME UNCHANGED <<polls, Unpolling>>,
             \A g \in Files : /\ DoneWithPolls(g)' => DoneWithPolls(g)
                              /\ g \in Unpolling => seen'[g] = seen[g]
      PROVE  PollInv'
  <2>1. \A g \in Files : pc'[g] = "unpoll" <=> pc[g] = "unpoll"
    BY <1>1 DEF Unpolling
  <2>2. Unpolling \subseteq Files
    BY DEF Unpolling
  <2>. QED
    BY <1>1, <2>1, <2>2 DEF PollInv, polls
<1>2. ASSUME NEW f \in Files, autospoll_ioctl(f) PROVE PollInv'
  <2>1. /\ f \in open /\ pc[f] = "idle" /\ UNCHANGED <<open, procs>>
        /\ pollRaced' = (pollRaced \/ Unpolling # {})
        /\ autopoll' = IF f \in autopoll THEN autopoll \ {f} ELSE autopoll \cup {f}
    BY <1>2 DEF autospoll_ioctl, Pinned, Idle, PollsMeet
  <2>2. ~DoneWithPolls(f) /\ Unpolling' = Unpolling /\ f \notin Unpolling
        /\ \A g \in Files : DoneWithPolls(g)' <=> DoneWithPolls(g)
    BY <2>1 DEF DoneWithPolls, Unpolling, procs, Quits
  <2>3. ~pollRaced' => autospollers' = Cardinality(autopoll')
    <3>1. autopoll \in SUBSET Files /\ Cardinality(autopoll) \in Nat
      BY FilesFinite DEF PollInv
    <3>2. CASE f \in autopoll
      <4>1. Cardinality(autopoll \ {f}) = Cardinality(autopoll) - 1 /\ Cardinality(autopoll) > 0
        BY <3>1, <3>2, OneFileLess
      <4>2. autospollers' = IF autospollers > 0 THEN autospollers - 1 ELSE 0
        BY <1>2, <3>2 DEF autospoll_ioctl
      <4>. QED
        BY <2>1, <3>1, <3>2, <4>1, <4>2 DEF PollInv
    <3>3. CASE f \notin autopoll
      BY <1>2, <2>1, <3>1, <3>3, OneFileMore DEF autospoll_ioctl, PollInv
    <3>. QED
      BY <3>2, <3>3
  <2>. QED
    BY <2>1, <2>2, <2>3 DEF PollInv, procs
<1>3. ASSUME NEW f \in Files, ibclose(f) PROVE PollInv'
  <2>1. /\ f \in open /\ pc[f] = "idle" /\ open' = open /\ f \notin Unpolling
        /\ autospollers \in Nat /\ pc \in [Files -> Places] /\ seen \in [Files -> Nat]
    BY <1>3 DEF ibclose, Idle, ProcInv, Unpolling
  <2>2. CASE f \in autopoll /\ autospollers > 0
    <3>1. /\ pc' = [pc EXCEPT ![f] = "unpoll"] /\ seen' = [seen EXCEPT ![f] = autospollers]
          /\ UNCHANGED <<autopoll, autospollers>>
          /\ pollRaced' = (pollRaced \/ Unpolling # {})
      BY <1>3, <2>2 DEF ibclose, GivesPollsBack, PollsMeet, Goes
    <3>2. Unpolling' = Unpolling \cup {f}
      BY <2>1, <3>1 DEF Unpolling
    <3>3. \A g \in Files : DoneWithPolls(g)' <=> DoneWithPolls(g)
      BY <2>1, <3>1 DEF DoneWithPolls, Quits
    <3>. QED
      BY <2>1, <2>2, <3>1, <3>2, <3>3 DEF PollInv
  <2>3. CASE ~(f \in autopoll /\ autospollers > 0)
    <3>1. /\ pc' = [pc EXCEPT ![f] = "devices"] /\ autopoll' = autopoll \ {f}
          /\ UNCHANGED <<autospollers, pollRaced, seen>>
      BY <1>3, <2>3 DEF ibclose, GivesPollsBack, Goes
    <3>2. Unpolling' = Unpolling /\ Unpolling \subseteq Files
      BY <2>1, <3>1 DEF Unpolling
    <3>3. \A g \in Files : g # f => (DoneWithPolls(g)' <=> DoneWithPolls(g))
      BY <2>1, <3>1 DEF DoneWithPolls
    <3>4. ~pollRaced => f \notin autopoll
      BY <2>3, OneFileLess, FilesFinite DEF PollInv
    <3>5. ~pollRaced => autopoll' = autopoll
      BY <3>1, <3>4
    <3>6. \A g \in Files : pc'[g] = "unpoll" => g # f /\ pc[g] = "unpoll"
      BY <2>1, <3>1
    <3>. QED
      BY <2>1, <3>1, <3>2, <3>3, <3>5, <3>6 DEF PollInv
  <2>. QED
    BY <2>2, <2>3
<1>4. ASSUME NEW f \in Files, GiveBackPolls(f) PROVE PollInv'
  <2>1. /\ pc[f] = "unpoll" /\ pc' = [pc EXCEPT ![f] = "devices"] /\ open' = open
        /\ autopoll' = autopoll \ {f} /\ autospollers' = seen[f] - 1
        /\ pollRaced' = pollRaced /\ seen' = [seen EXCEPT ![f] = 0]
        /\ pc \in [Files -> Places] /\ seen \in [Files -> Nat]
    BY <1>4 DEF GiveBackPolls, Forgets, Goes, ProcInv
  <2>2. f \in Unpolling /\ Unpolling' = Unpolling \ {f} /\ f \in autopoll
    BY <2>1 DEF Unpolling, PollInv
  <2>3. \A g \in Files : g # f => (DoneWithPolls(g)' <=> DoneWithPolls(g))
    BY <2>1 DEF DoneWithPolls
  <2>4. ~pollRaced => autospollers' = Cardinality(autopoll') /\ Unpolling' = {}
    BY <2>1, <2>2, OneFileLess DEF PollInv
  <2>5. \A g \in Files : pc'[g] = "unpoll" => g # f /\ pc[g] = "unpoll"
    BY <2>1
  <2>. QED
    BY <2>1, <2>3, <2>4, <2>5 DEF PollInv
<1>5. UNCHANGED vars => /\ UNCHANGED <<polls, Unpolling>> /\ seen' = seen
                        /\ \A g \in Files : DoneWithPolls(g)' => DoneWithPolls(g)
  BY DEF vars, procs, Unpolling, DoneWithPolls
<1>. QED
  BY <1>1, <1>2, <1>3, <1>4, <1>5, PollChanges

-----------------------------------------------------------------------------
(* References to the driver's module. *)

Refs(n) == moduleRefs = [m \in Modules |-> IF m = provider THEN n ELSE 0]

(* An ibopen that has read use_count has a reference more than that, and   *)
(* an ibclose one less.                                                    *)
UseTypes ==
    /\ gotModule \subseteq open
    /\ provider \in Modules \cup {NoModule} /\ moduleRefs \in [Modules -> Int]
    /\ provider = NoModule => useCount = 0 /\ Counting = {}
    /\ \A f \in Files : pc[f] = "uncount" => f \in gotModule

UseInv ==
    /\ UseTypes
    /\ ~useRaced =>
         /\ useCount <= Cardinality(gotModule)
         /\ ~typeFailed => useCount = Cardinality(gotModule)
         /\ Counting = {} => Refs(useCount)
         /\ \A f \in Counting : /\ Counting = {f} /\ seen[f] = useCount
                                /\ pc[f] = "count" => Refs(useCount + 1)
                                /\ pc[f] = "uncount" => Refs(useCount - 1)

(* What a step has to show that leaves nobody who counts, or one.          *)
LEMMA UseKept ==
    ASSUME UseTypes', NEW S, Counting' = S,
           ~useRaced' => /\ useCount' <= Cardinality(gotModule')
                         /\ ~typeFailed' => useCount' = Cardinality(gotModule'),
           ~useRaced' =>
              \/ S = {} /\ moduleRefs' = [m \in Modules |-> IF m = provider' THEN useCount' ELSE 0]
              \/ \E f \in Files :
                   /\ S = {f} /\ seen'[f] = useCount'
                   /\ \/ pc'[f] = "count" /\ moduleRefs' =
                           [m \in Modules |-> IF m = provider' THEN useCount' + 1 ELSE 0]
                      \/ pc'[f] = "uncount" /\ moduleRefs' =
                           [m \in Modules |-> IF m = provider' THEN useCount' - 1 ELSE 0]
    PROVE  UseInv'
<1>1. CASE useRaced'
  BY <1>1 DEF UseInv, UseTypes
<1>2. CASE ~useRaced' /\ S = {}
  BY <1>2 DEF UseInv, Refs
<1>3. CASE ~useRaced' /\ S # {}
  BY <1>3 DEF UseInv, UseTypes, Refs
<1>. QED
  BY <1>1, <1>2, <1>3

(* No process begins or ends to count.                                     *)
SameCounting ==
    /\ open' = open
    /\ \A g \in Files : /\ pc[g] \in {"count", "uncount"} \/ pc'[g] \in {"count", "uncount"}
                             => pc'[g] = pc[g] /\ seen'[g] = seen[g]

(* The entries that change what the board counts of its module; all but    *)
(* five at most take the reference of Pinned.                              *)
LEMMA UseChanges ==
    ASSUME ProcInv
    PROVE  Next => \/ UNCHANGED mods /\ SameCounting
                   \/ \E f \in Files :
                        \/ ibopen(f) \/ CountOpen(f) \/ CloseModule(f) \/ CountClose(f)
                        \/ \E m \in Modules : board_type_ioctl(f, m)
                        \/ Pinned(f) /\ SameCounting
<1>1. UNCHANGED <<open, procs>> => SameCounting
  BY DEF SameCounting, procs
<1>2. ASSUME NEW f \in Files, NEW to \in Places \ {"count", "uncount"}, Goes(f, to),
             pc[f] \notin {"count", "uncount"}, open' = open,
             \A g \in Files \ {f} : seen'[g] = seen[g]
      PROVE  SameCounting
  BY <1>2 DEF SameCounting, Goes, ProcInv
<1>3. ASSUME NEW f \in Files,
             \/ ibclose(f) \/ GiveBackPolls(f) \/ CloseDevices(f) \/ CloseMutex(f)
             \/ LockMutex(f) \/ LockInterrupted(f) \/ NameHolder(f) \/ MarkHolding(f)
             \/ UnlockMutex(f) \/ DropHolding(f) \/ ReleaseMutex(f)
      PROVE  UNCHANGED mods /\ SameCounting
  <2>1. UNCHANGED mods /\ open' = open /\ pc[f] \notin {"count", "uncount"}
    BY <1>3 DEF ibclose, GiveBackPolls, CloseDevices, CloseMutex, LockMutex, LockInterrupted,
       NameHolder, MarkHolding, UnlockMutex, DropHolding, ReleaseMutex, Locks, Idle
  <2>2. \E to \in Places \ {"count", "uncount"} : Goes(f, to)
    BY <1>3 DEF ibclose, GiveBackPolls, CloseDevices, CloseMutex, LockMutex, LockInterrupted,
       NameHolder, MarkHolding, UnlockMutex, DropHolding, ReleaseMutex, Locks, Places
  <2>3. \A g \in Files \ {f} : seen'[g] = seen[g]
    BY <1>3 DEF ibclose, GiveBackPolls, CloseDevices, CloseMutex, LockMutex, LockInterrupted,
       NameHolder, MarkHolding, UnlockMutex, DropHolding, ReleaseMutex, Locks, Forgets, ProcInv
  <2>. QED
    BY <1>2, <2>1, <2>2, <2>3
<1>4. ASSUME NEW f \in Files, NEW lock_mutex \in BOOLEAN, mutex_ioctl(f, lock_mutex)
      PROVE  Pinned(f) /\ SameCounting
  <2>1. /\ Pinned(f) /\ pc[f] = "idle" /\ open' = open /\ seen' = seen
        /\ \E to \in Places \ {"count", "uncount"} : Goes(f, to)
    BY <1>4 DEF mutex_ioctl, Pinned, Idle, Places
  <2>. QED
    BY <1>2, <2>1
<1>5. Next => \/ UNCHANGED <<mods, open, procs>>
              \/ \E f \in Files :
                   \/ ibclose(f) \/ GiveBackPolls(f) \/ CloseDevices(f) \/ CloseMutex(f)
                   \/ LockMutex(f) \/ LockInterrupted(f) \/ NameHolder(f) \/ MarkHolding(f)
                   \/ UnlockMutex(f) \/ DropHolding(f) \/ ReleaseMutex(f)
              \/ \E f \in Files, lock_mutex \in BOOLEAN : mutex_ioctl(f, lock_mutex)
              \/ \E f \in Files :
                   \/ ibopen(f) \/ CountOpen(f) \/ CloseModule(f) \/ CountClose(f)
                   \/ \E m \in Modules : board_type_ioctl(f, m)
                   \/ Pinned(f) /\ UNCHANGED <<open, procs>>
  BY DEF Next, ibonline, iboffline, open_dev_ioctl, close_dev_ioctl, pad_ioctl, sad_ioctl,
     autospoll_ioctl
<1>. QED
  BY <1>1, <1>3, <1>4, <1>5

(* The reference of a file to the module of the current driver, taken      *)
(* while no other process counts.                                          *)
LEMMA ModuleTaken ==
    ASSUME ProcInv, UseInv, NEW f \in Files, f \in open, f \notin gotModule,
           provider # NoModule, TakeModule(f), SameCounting
    PROVE  UseInv'
<1>1. /\ gotModule' = gotModule \cup {f} /\ useCount' = useCount + 1 /\ provider' = provider
      /\ moduleRefs' = [moduleRefs EXCEPT ![provider] = @ + 1] /\ typeFailed' = typeFailed
      /\ useRaced' = (useRaced \/ Counting # {}) /\ useCount \in Nat
      /\ provider \in Modules /\ moduleRefs \in [Modules -> Int]
  BY DEF TakeModule, UseMeets, ProcInv, UseInv, UseTypes
<1>2. Counting' = Counting /\ open' = open
      /\ \A g \in Files : pc'[g] = "uncount" => pc[g] = "uncount"
  BY DEF SameCounting, Counting
<1>3. Cardinality(gotModule \cup {f}) = Cardinality(gotModule) + 1
      /\ Cardinality(gotModule) \in Nat
  BY OneFileMore, FilesFinite DEF UseInv, UseTypes, ProcInv
<1>4. moduleRefs' \in [Modules -> Int]
  BY <1>1
<1>5. ASSUME ~useRaced'
      PROVE  /\ Counting = {}
             /\ moduleRefs' = [k \in Modules |-> IF k = provider' THEN useCount' ELSE 0]
  <2>1. ~useRaced /\ Counting = {}
    BY <1>1, <1>5
  <2>2. moduleRefs = [k \in Modules |-> IF k = provider THEN useCount ELSE 0]
    BY <2>1 DEF UseInv, Refs
  <2>. QED
    BY <1>1, <2>1, <2>2
<1>6. ~useRaced' => /\ useCount' <= Cardinality(gotModule')
                    /\ ~typeFailed' => useCount' = Cardinality(gotModule')
  <2>1. ~useRaced' => ~useRaced
    BY <1>1
  <2>2. Cardinality(gotModule') = Cardinality(gotModule) + 1
    BY <1>1, <1>3
  <2>3. ~useRaced => /\ useCount <= Cardinality(gotModule)
                     /\ ~typeFailed => useCount = Cardinality(gotModule)
    BY DEF UseInv
  <2>. QED
    BY <1>1, <1>3, <2>1, <2>2, <2>3
<1>7. UseTypes'
  BY <1>1, <1>2, <1>4, ModulesAssumption DEF UseInv, UseTypes
<1>. QED
  BY <1>2, <1>5, <1>6, <1>7, UseKept

(* Where the references and who counts do not change.                      *)
LEMMA UseSame ==
    ASSUME UseInv, UNCHANGED mods, SameCounting
    PROVE  UseInv'
<1>1. Counting' = Counting /\ open' = open
      /\ \A g \in Files : pc'[g] = "uncount" => pc[g] = "uncount"
  BY DEF SameCounting, Counting
<1>0. \A g \in Counting : g \in Files /\ seen'[g] = seen[g] /\ pc'[g] = pc[g]
  BY DEF SameCounting, Counting
<1>2. UseTypes'
  BY <1>1 DEF UseInv, UseTypes, mods
<1>3. ~useRaced' => /\ useCount' <= Cardinality(gotModule')
                    /\ ~typeFailed' => useCount' = Cardinality(gotModule')
  BY DEF UseInv, mods
<1>4. ~useRaced' /\ Counting = {} =>
        moduleRefs' = [m \in Modules |-> IF m = provider' THEN useCount' ELSE 0]
  BY DEF UseInv, Refs, mods
<1>5. ASSUME ~useRaced', NEW f \in Counting
      PROVE  /\ f \in Files /\ Counting = {f} /\ seen'[f] = useCount'
             /\ \/ pc'[f] = "count" /\ moduleRefs' =
                     [m \in Modules |-> IF m = provider' THEN useCount' + 1 ELSE 0]
                \/ pc'[f] = "uncount" /\ moduleRefs' =
                     [m \in Modules |-> IF m = provider' THEN useCount' - 1 ELSE 0]
  <2>1. pc[f] \in {"count", "uncount"} /\ ~useRaced
    BY <1>5 DEF Counting, mods
  <2>2. /\ Counting = {f} /\ seen[f] = useCount
        /\ pc[f] = "count" =>
             moduleRefs = [m \in Modules |-> IF m = provider THEN useCount + 1 ELSE 0]
        /\ pc[f] = "uncount" =>
             moduleRefs = [m \in Modules |-> IF m = provider THEN useCount - 1 ELSE 0]
    BY <1>5, <2>1 DEF UseInv, Refs
  <2>3. f \in Files /\ seen'[f] = seen[f] /\ pc'[f] = pc[f]
    BY <1>0
  <2>4. useCount' = useCount /\ moduleRefs' = moduleRefs /\ provider' = provider
    BY DEF mods
  <2>. QED
    BY <2>1, <2>2, <2>3, <2>4
<1>. QED
  BY <1>1, <1>2, <1>3, <1>4, <1>5, UseKept

(* board_type_ioctl: the references of the old driver's module are given   *)
(* back, and those of the new one counted, as many as could be taken.      *)
LEMMA TypeChanged ==
    ASSUME ProcInv, UseInv, NEW f \in Files, NEW m \in Modules, board_type_ioctl(f, m)
    PROVE  UseInv'
<1>. DEFINE back == IF useCount > 0 THEN [moduleRefs EXCEPT ![provider] = @ - useCount]
                    ELSE moduleRefs
            put == IF useCount > 0 THEN gotModule \ {f} ELSE gotModule
            Holding(n, files) ==
              /\ useCount' = n /\ gotModule' = files
              /\ moduleRefs' = [back EXCEPT ![m] = @ + n]
<1>1. /\ f \in open /\ pc[f] = "idle" /\ open \subseteq Files /\ provider' = m
      /\ useRaced' = (useRaced \/ Counting # {})
      /\ UNCHANGED <<open, procs>> /\ useCount \in Nat
      /\ gotModule \subseteq Files /\ Cardinality(gotModule) \in Nat
  BY FilesFinite DEF board_type_ioctl, Idle, UseMeets, ProcInv, UseInv, UseTypes
<1>2. back \in [Modules -> Int] /\ (~useRaced' => back = [k \in Modules |-> 0])
  <2>1. moduleRefs \in [Modules -> Int] /\ (useCount > 0 => provider \in Modules)
    BY <1>1 DEF UseInv, UseTypes
  <2>2. back \in [Modules -> Int]
    BY <1>1, <2>1
  <2>3. ASSUME ~useRaced' PROVE back = [k \in Modules |-> 0]
    <3>1. moduleRefs = [k \in Modules |-> IF k = provider THEN useCount ELSE 0]
      BY <1>1, <2>3 DEF UseInv, Refs
    <3>. QED
      BY <1>1, <2>1, <3>1
  <2>. QED
    BY <2>2, <2>3
<1>3. /\ put \subseteq gotModule /\ put \cup {f} \subseteq open /\ put \subseteq Files
      /\ Cardinality(put) \in Nat
      /\ f \in gotModule /\ useCount > 0 => Cardinality(put) = Cardinality(gotModule) - 1
      /\ f \notin gotModule => put = gotModule
      /\ useCount = 0 => put = gotModule
  <2>1. put \subseteq gotModule
    OBVIOUS
  <2>. QED
    BY <1>1, <2>1, OneFileLess, FilesFinite DEF UseInv, UseTypes
<1>4. Cardinality(put \cup {f}) = IF f \in put THEN Cardinality(put) ELSE Cardinality(put) + 1
  BY <1>3, OneFileMore
<1>5. f \in gotModule => put \cup {f} = gotModule
  OBVIOUS
<1>6. \/ /\ \/ \E i \in 0 .. useCount - 1 : Holding(i, put)
            \/ f \notin gotModule /\ Holding(useCount, put)
         /\ typeFailed' = TRUE
      \/ /\ Holding(IF f \in gotModule THEN useCount ELSE useCount + 1, put \cup {f})
         /\ typeFailed' = typeFailed
  BY DEF board_type_ioctl
<1>7. PICK n \in Nat, files \in SUBSET open :
        /\ Holding(n, files)
        /\ ~useRaced' => /\ n <= Cardinality(files)
                         /\ ~typeFailed' => n = Cardinality(files)
        /\ \A g \in Files \ {f} : g \in gotModule => g \in files
  <2>0. ~useRaced' => /\ useCount <= Cardinality(gotModule)
                      /\ ~typeFailed => useCount = Cardinality(gotModule)
    BY <1>1 DEF UseInv, UseTypes
  <2>1. \A g \in Files \ {f} : g \in gotModule => g \in put
    OBVIOUS
  <2>. HIDE DEF Holding
  <2>2. CASE typeFailed' = TRUE /\ \E i \in 0 .. useCount - 1 : Holding(i, put)
    <3>1. PICK i \in 0 .. useCount - 1 : Holding(i, put)
      BY <2>2
    <3>2. i \in Nat /\ put \in SUBSET open /\ (~useRaced' => i <= Cardinality(put))
      BY <1>1, <1>3, <2>0, <3>1
    <3>. QED
      BY <2>1, <2>2, <3>1, <3>2
  <2>3. CASE typeFailed' = TRUE /\ f \notin gotModule /\ Holding(useCount, put)
    <3>1. put = gotModule /\ put \in SUBSET open
      BY <1>3, <2>3
    <3>. HIDE DEF put
    <3>. QED
      BY <1>1, <2>0, <2>1, <2>3, <3>1
  <2>4. CASE /\ Holding(IF f \in gotModule THEN useCount ELSE useCount + 1, put \cup {f})
             /\ typeFailed' = typeFailed
    <3>1. CASE f \in gotModule
      <4>1. Holding(useCount, gotModule) /\ gotModule \in SUBSET open
        BY <1>3, <1>5, <2>4, <3>1
      <4>. QED
        BY <1>1, <2>0, <2>4, <4>1
    <3>2. CASE f \notin gotModule
      <4>. DEFINE new == put \cup {f}
      <4>1. Holding(useCount + 1, new) /\ new \in SUBSET open
        BY <1>3, <2>4, <3>2
      <4>2. Cardinality(new) = Cardinality(gotModule) + 1
        BY <1>3, <1>4, <3>2
      <4>3. \A g \in Files \ {f} : g \in gotModule => g \in new
        OBVIOUS
      <4>. HIDE DEF new, put
      <4>. QED
        BY <1>1, <2>0, <2>4, <4>1, <4>2, <4>3
    <3>. QED
      BY <3>1, <3>2
  <2>. QED
    BY <1>6, <2>2, <2>3, <2>4
<1>8. moduleRefs' \in [Modules -> Int]
  BY <1>2, <1>7
<1>9. ASSUME ~useRaced'
      PROVE  /\ Counting = {}
             /\ moduleRefs' = [k \in Modules |-> IF k = provider' THEN useCount' ELSE 0]
  <2>1. back = [k \in Modules |-> 0] /\ moduleRefs' = [back EXCEPT ![m] = @ + n]
        /\ useCount' = n
    BY <1>2, <1>7, <1>9
  <2>. HIDE DEF back
  <2>2. moduleRefs' = [k \in Modules |-> IF k = m THEN n ELSE 0]
    BY <2>1
  <2>. QED
    BY <1>1, <1>9, <2>1, <2>2
<1>10. Counting' = Counting
  BY <1>1 DEF Counting, procs
<1>11. \A g \in Files : pc'[g] = "uncount" => g # f /\ pc[g] = "uncount"
  BY <1>1 DEF procs
<1>12. provider' \in Modules /\ provider' # NoModule /\ gotModule' \subseteq open'
       /\ useCount' = n /\ gotModule' = files
  BY <1>1, <1>7, ModulesAssumption
<1>13. ~useRaced' => n <= Cardinality(files) /\ (~typeFailed' => n = Cardinality(files))
  BY <1>7
<1>14. \A g \in Files : pc'[g] = "uncount" => g \in gotModule'
  BY <1>7, <1>11, <1>12 DEF UseInv, UseTypes
<1>15. UseTypes'
  BY <1>8, <1>12, <1>14 DEF UseTypes
<1>. HIDE DEF back, put, Holding
<1>. QED
  BY <1>9, <1>10, <1>12, <1>13, <1>15, UseKept

(* The part of the references is inductive.                                *)
LEMMA UseStep == ProcInv /\ UseInv /\ [Next]_vars => UseInv'
<1>. SUFFICES ASSUME ProcInv, UseInv, [Next]_vars PROVE UseInv'
  OBVIOUS
<1>0. /\ pc \in [Files -> Places] /\ seen \in [Files -> Nat] /\ open \subseteq Files
      /\ useCount \in Nat /\ moduleRefs \in [Modules -> Int]
      /\ gotModule \in SUBSET Files /\ Counting \subseteq Files
  BY DEF ProcInv, UseInv, UseTypes, Counting
<1>1. CASE UNCHANGED mods /\ SameCounting
  BY <1>1, UseSame
<1>2. ASSUME NEW f \in Files, Pinned(f), SameCounting PROVE UseInv'
  <2>1. CASE f \in gotModule
    BY <1>2, <2>1, UseSame DEF Pinned
  <2>2. CASE f \notin gotModule
    BY <1>2, <2>2, ModuleTaken DEF Pinned, Idle
  <2>. QED
    BY <2>1, <2>2
<1>3. ASSUME NEW f \in Files, NEW m \in Modules, board_type_ioctl(f, m) PROVE UseInv'
  BY <1>3, TypeChanged
<1>4. ASSUME NEW f \in Files, ibopen(f) PROVE UseInv'
  <2>1. CASE provider = NoModule
    <3>1. open' = open \cup {f} /\ UNCHANGED <<mods, procs>>
      BY <1>4, <2>1 DEF ibopen
    <3>2. Counting' = Counting
      BY <3>1 DEF Counting, procs
    <3>. QED
      BY <3>1, <3>2 DEF UseInv, UseTypes, Refs, mods, procs
  <2>2. CASE provider # NoModule
    <3>1. /\ f \notin open /\ pc[f] = "idle" /\ open' = open /\ provider \in Modules
          /\ moduleRefs' = [moduleRefs EXCEPT ![provider] = @ + 1]
          /\ seen' = [seen EXCEPT ![f] = useCount] /\ pc' = [pc EXCEPT ![f] = "count"]
          /\ useRaced' = (useRaced \/ Counting # {})
          /\ UNCHANGED <<provider, useCount, gotModule, typeFailed>>
      BY <1>4, <2>2 DEF ibopen, ReadsCount, UseMeets, Goes, UseInv, UseTypes
    <3>2. Counting' = Counting \cup {f}
      BY <1>0, <3>1 DEF Counting
    <3>3. pc'[f] = "count" /\ seen'[f] = useCount /\ moduleRefs' \in [Modules -> Int]
      BY <1>0, <3>1
    <3>4. \A g \in Files : pc'[g] = "uncount" => pc[g] = "uncount"
      BY <1>0, <3>1
    <3>5. ASSUME ~useRaced'
          PROVE  /\ Counting = {}
                 /\ moduleRefs' = [k \in Modules |-> IF k = provider' THEN useCount' + 1 ELSE 0]
      <4>1. Counting = {} /\ ~useRaced
        BY <3>1, <3>5
      <4>2. moduleRefs = [k \in Modules |-> IF k = provider THEN useCount ELSE 0]
        BY <4>1 DEF UseInv, Refs
      <4>. QED
        BY <1>0, <3>1, <4>1, <4>2
    <3>6. ~useRaced' => /\ useCount' <= Cardinality(gotModule')
                        /\ ~typeFailed' => useCount' = Cardinality(gotModule')
      BY <3>1 DEF UseInv
    <3>7. UseTypes'
      BY <3>1, <3>3, <3>4, ModulesAssumption DEF UseInv, UseTypes
    <3>8. ~useRaced' => Counting \cup {f} = {f} /\ seen'[f] = useCount'
      BY <3>1, <3>3, <3>5
    <3>. QED
      BY <3>2, <3>3, <3>5, <3>6, <3>7, <3>8, UseKept
  <2>. QED
    BY <2>1, <2>2
<1>5. ASSUME NEW f \in Files, CountOpen(f) PROVE UseInv'
  <2>1. /\ pc[f] = "count" /\ pc' = [pc EXCEPT ![f] = "idle"] /\ useCount' = seen[f] + 1
        /\ gotModule' = gotModule \cup {f} /\ open' = open \cup {f}
        /\ UNCHANGED <<provider, moduleRefs, typeFailed, useRaced>>
    BY <1>5 DEF CountOpen, Goes
  <2>2. f \in Counting /\ Counting' = Counting \ {f} /\ f \notin open /\ f \notin gotModule
    BY <1>0, <2>1 DEF Counting, ProcInv, UseInv, UseTypes
  <2>3. Cardinality(gotModule') = Cardinality(gotModule) + 1 /\ Cardinality(gotModule) \in Nat
    BY <1>0, <2>1, <2>2, OneFileMore, FilesFinite
  <2>4. \A g \in Files : pc'[g] = "uncount" => pc[g] = "uncount"
    BY <1>0, <2>1
  <2>5. ~useRaced => Counting = {f} /\ seen[f] = useCount /\ Refs(useCount + 1)
    BY <2>1, <2>2 DEF UseInv, UseTypes
  <2>. QED
    BY <1>0, <2>1, <2>2, <2>3, <2>4, <2>5 DEF UseInv, UseTypes, Refs
<1>6. ASSUME NEW f \in Files, CloseModule(f) PROVE UseInv'
  <2>1. CASE f \in gotModule /\ useCount > 0
    <3>1. /\ pc[f] = "module" /\ open' = open /\ provider \in Modules
          /\ moduleRefs' = [moduleRefs EXCEPT ![provider] = @ - 1]
          /\ seen' = [seen EXCEPT ![f] = useCount] /\ pc' = [pc EXCEPT ![f] = "uncount"]
          /\ useRaced' = (useRaced \/ Counting # {})
          /\ UNCHANGED <<provider, useCount, gotModule, typeFailed>>
      BY <1>6, <2>1 DEF CloseModule, ReadsCount, UseMeets, Goes, UseInv, UseTypes
    <3>2. Counting' = Counting \cup {f}
      BY <1>0, <3>1 DEF Counting
    <3>3. pc'[f] = "uncount" /\ seen'[f] = useCount /\ moduleRefs' \in [Modules -> Int]
      BY <1>0, <3>1
    <3>4. \A g \in Files : pc'[g] = "uncount" => g = f \/ pc[g] = "uncount"
      BY <1>0, <3>1
    <3>5. ASSUME ~useRaced'
          PROVE  /\ Counting = {}
                 /\ moduleRefs' = [k \in Modules |-> IF k = provider' THEN useCount' - 1 ELSE 0]
      <4>1. Counting = {} /\ ~useRaced
        BY <3>1, <3>5
      <4>2. moduleRefs = [k \in Modules |-> IF k = provider THEN useCount ELSE 0]
        BY <4>1 DEF UseInv, Refs
      <4>. QED
        BY <1>0, <3>1, <4>1, <4>2
    <3>6. ~useRaced' => /\ useCount' <= Cardinality(gotModule')
                        /\ ~typeFailed' => useCount' = Cardinality(gotModule')
      BY <3>1 DEF UseInv
    <3>7. UseTypes'
      BY <2>1, <3>1, <3>3, <3>4, ModulesAssumption DEF UseInv, UseTypes
    <3>8. ~useRaced' => Counting \cup {f} = {f} /\ seen'[f] = useCount'
      BY <3>1, <3>3, <3>5
    <3>. QED
      BY <3>2, <3>3, <3>5, <3>6, <3>7, <3>8, UseKept
  <2>2. CASE ~(f \in gotModule /\ useCount > 0)
    <3>1. /\ pc[f] = "module" /\ pc' = [pc EXCEPT ![f] = "idle"]
          /\ gotModule' = gotModule \ {f} /\ open' = open \ {f}
          /\ UNCHANGED <<provider, useCount, typeFailed, seen, moduleRefs, useRaced>>
      BY <1>6, <2>2 DEF CloseModule, Goes
    <3>2. Counting' = Counting
      BY <1>0, <3>1 DEF Counting
    <3>3. \A g \in Files : pc'[g] \in {"count", "uncount"} => g # f /\ pc'[g] = pc[g]
      BY <1>0, <3>1
    <3>4. \A g \in Counting : pc'[g] = pc[g]
      BY <1>0, <3>1 DEF Counting
    <3>5. /\ Cardinality(gotModule) \in Nat
          /\ f \in gotModule => /\ useCount = 0 /\ Cardinality(gotModule) > 0
                                /\ Cardinality(gotModule \ {f}) = Cardinality(gotModule) - 1
          /\ f \notin gotModule => gotModule \ {f} = gotModule
      <4>1. Cardinality(gotModule) \in Nat /\ (f \in gotModule => useCount = 0)
        BY <1>0, <2>2, FilesFinite
      <4>. QED
        BY <1>0, <4>1, OneFileLess
    <3>6. ~useRaced => /\ useCount <= Cardinality(gotModule')
                       /\ ~typeFailed => useCount = Cardinality(gotModule')
      <4>1. CASE f \in gotModule
        <5>1. useCount = 0 /\ Cardinality(gotModule') = Cardinality(gotModule) - 1
              /\ Cardinality(gotModule) > 0 /\ Cardinality(gotModule) \in Nat
          BY <3>1, <3>5, <4>1
        <5>. QED
          BY <5>1 DEF UseInv
      <4>2. CASE f \notin gotModule
        BY <3>1, <3>5, <4>2 DEF UseInv
      <4>. QED
        BY <4>1, <4>2
    <3>7. gotModule' \subseteq open'
      BY <3>1 DEF UseInv, UseTypes
    <3>. QED
      BY <1>0, <3>1, <3>2, <3>3, <3>4, <3>6, <3>7 DEF UseInv, UseTypes, Refs
  <2>. QED
    BY <2>1, <2>2
<1>7. ASSUME NEW f \in Files, CountClose(f) PROVE UseInv'
  <2>1. /\ pc[f] = "uncount" /\ pc' = [pc EXCEPT ![f] = "idle"] /\ useCount' = seen[f] - 1
        /\ gotModule' = gotModule \ {f} /\ open' = open \ {f}
        /\ UNCHANGED <<provider, moduleRefs, typeFailed, useRaced>>
    BY <1>7 DEF CountClose, Goes
  <2>2. f \in Counting /\ Counting' = Counting \ {f} /\ f \in gotModule
    BY <1>0, <2>1 DEF Counting, UseInv, UseTypes
  <2>3. Cardinality(gotModule') = Cardinality(gotModule) - 1 /\ Cardinality(gotModule) \in Nat
    BY <1>0, <2>1, <2>2, OneFileLess, FilesFinite
  <2>4. \A g \in Files : pc'[g] = "uncount" => g # f /\ pc[g] = "uncount"
    BY <1>0, <2>1
  <2>5. ~useRaced => Counting = {f} /\ seen[f] = useCount /\ Refs(useCount - 1)
    BY <2>1, <2>2 DEF UseInv, UseTypes
  <2>6. gotModule' \subseteq open'
    BY <2>1 DEF UseInv, UseTypes
  <2>. QED
    BY <1>0, <2>1, <2>2, <2>3, <2>4, <2>5, <2>6 DEF UseInv, UseTypes, Refs
<1>8. UNCHANGED vars => UNCHANGED mods /\ SameCounting
  BY DEF vars, procs, SameCounting
<1>. QED
  BY <1>1, <1>2, <1>3, <1>4, <1>5, <1>6, <1>7, <1>8, UseChanges

(* At first nobody polls and no reference is taken.                        *)
LEMMA CountInit == Init => PollInv /\ UseInv
<1>. SUFFICES ASSUME Init PROVE PollInv /\ UseInv
  OBVIOUS
<1>1. Counting = {} /\ Unpolling = {} /\ Cardinality({}) = 0
  BY FS_EmptySet DEF Init, Counting, Unpolling
<1>2. PollInv
  BY <1>1 DEF Init, PollInv, DoneWithPolls, Quits
<1>3. UseInv
  <2>1. Refs(useCount)
    BY DEF Init, Refs
  <2>. QED
    BY <1>1, <2>1 DEF Init, UseInv, UseTypes
<1>. QED
  BY <1>2, <1>3

(* As long as no ibopen or ibclose changes a counter while another entry   *)
(* does, the counts are what the files hold: the polls of the open files,  *)
(* and the references of the files that mark one, all to the module of the *)
(* current driver; exactly, unless a change of driver has failed.          *)
THEOREM CountsAreHeld == Spec => []BoardCounts
<1>1. Init => ProcInv /\ PollInv /\ UseInv
  BY ProcInit, CountInit
<1>2. ProcInv /\ PollInv /\ UseInv /\ [Next]_vars => ProcInv' /\ PollInv' /\ UseInv'
  BY ProcStep, PollStep, UseStep
<1>3. ASSUME ProcInv, PollInv, UseInv PROVE BoardCounts
  <2>1. autopoll \subseteq open
    BY <1>3 DEF PollInv, DoneWithPolls
  <2>2. ~useRaced /\ Counting = {} => \A m \in Modules :
          moduleRefs[m] = IF m = provider THEN useCount ELSE 0
    BY <1>3 DEF UseInv, UseTypes, Refs
  <2>. QED
    BY <1>3, <2>1, <2>2 DEF BoardCounts, PollInv, UseInv, UseTypes
<1>. QED
  BY <1>1, <1>2, <1>3, PTL DEF Spec

-----------------------------------------------------------------------------
(* The loop of cleanup_open_devices. *)

(* A set of natural numbers has a least element: the form in which the     *)
(* proofs about loops use induction.                                       *)
LEMMA Smallest ==
    ASSUME NEW T \in SUBSET Nat, T # {}
    PROVE  \E n \in T : \A m \in T : n <= m
<1>. DEFINE R == {ss \in Nat \X Nat : ss[1] < ss[2]}
<1>1. IsWellFoundedOn(R, Nat)
  BY NatLessThanWellFounded DEF OpToRel
<1>2. \E x \in T : \A y \in T : ~(<<y, x>> \in R)
  <2>. HIDE DEF R
  <2>. QED
    BY <1>1, WFMin
<1>3. PICK n \in T : \A m \in T : ~(<<m, n>> \in R)
  BY <1>2
<1>4. ASSUME NEW m \in T PROVE n <= m
  <2>1. m \in Nat /\ n \in Nat /\ <<m, n>> \in Nat \X Nat
    OBVIOUS
  <2>2. ~(<<m, n>>[1] < <<m, n>>[2])
    BY <1>3, <2>1
  <2>. QED
    BY <2>1, <2>2
<1>. QED
  BY <1>4

Steps == 0 .. MaxDescriptors - 1

(* One round of the loop.                                                  *)
CleanStep(f, c, h) ==
    LET a == descriptors[f][h].address IN
    IF ~c.ok \/ ~Device(f, h) THEN c
    ELSE IF c.list[a] = 0 THEN [c EXCEPT !.ok = FALSE]
    ELSE [c EXCEPT !.list[a] = @ - 1]

CleanStart == [list |-> deviceList, ok |-> TRUE]

(* The first n rounds of the loop.                                         *)
Rounds(f, n, C) ==
    C = [h \in 0 .. n |-> IF h = 0 THEN CleanStart ELSE CleanStep(f, C[h - 1], h)]

(* Every number of rounds of the loop has a result: the least number that  *)
(* had none would be one more than one that has.                           *)
LEMMA RoundsExist ==
    ASSUME NEW f, NEW n \in Nat
    PROVE  \E C : Rounds(f, n, C)
<1>. DEFINE T == {m \in Nat : ~\E C : Rounds(f, m, C)}
<1>. SUFFICES ASSUME T # {} PROVE FALSE
  OBVIOUS
<1>1. PICK m \in T : \A k \in T : m <= k
  <2>. HIDE DEF T
  <2>1. T \in SUBSET Nat
    BY DEF T
  <2>. QED
    BY <2>1, Smallest
<1>2. m # 0
  <2>1. Rounds(f, 0, [h \in 0 .. 0 |-> CleanStart])
    BY DEF Rounds
  <2>. QED
    BY <2>1
<1>3. PICK C : Rounds(f, m - 1, C)
  <2>1. m - 1 \in Nat /\ ~(m <= m - 1)
    BY <1>2
  <2>. QED
    BY <1>1, <2>1
<1>. DEFINE D == [h \in 0 .. m |-> IF h < m THEN C[h]
                                   ELSE CleanStep(f, C[m - 1], m)]
<1>4. \A h \in 0 .. m : D[h] = IF h = 0 THEN CleanStart ELSE CleanStep(f, D[h - 1], h)
  <2>. SUFFICES ASSUME NEW h \in 0 .. m
                PROVE  D[h] = IF h = 0 THEN CleanStart ELSE CleanStep(f, D[h - 1], h)
    OBVIOUS
  <2>1. CASE h = m
    <3>1. m - 1 \in 0 .. m /\ m - 1 < m
      BY <1>2
    <3>2. D[m - 1] = C[m - 1]
      BY <3>1
    <3>. QED
      BY <1>2, <2>1, <3>2
  <2>2. CASE h = 0
    BY <1>2, <1>3, <2>2 DEF Rounds
  <2>3. CASE h # 0 /\ h < m
    <3>1. h - 1 \in 0 .. m /\ h - 1 < m /\ h \in 0 .. m - 1
      BY <2>3
    <3>2. D[h - 1] = C[h - 1] /\ D[h] = C[h]
      BY <2>3, <3>1
    <3>3. C[h] = CleanStep(f, C[h - 1], h)
      BY <1>3, <2>3, <3>1 DEF Rounds
    <3>. QED
      BY <2>3, <3>2, <3>3
  <2>. QED
    BY <2>1, <2>2, <2>3
<1>5. Rounds(f, m, D)
  <2>1. D = [h \in 0 .. m |-> D[h]]
    OBVIOUS
  <2>. HIDE DEF D
  <2>. QED
    BY <1>4, <2>1 DEF Rounds
<1>. QED
  BY <1>5

(* CleanUp(f) is the function the loop defines, all its rounds.            *)
LEMMA CleanUpRounds ==
    ASSUME NEW f
    PROVE  Rounds(f, MaxDescriptors - 1, CleanUp(f))
<1>1. CleanUp(f) = CHOOSE C : Rounds(f, MaxDescriptors - 1, C)
  BY Zenon DEF CleanUp, Rounds, CleanStep, CleanStart
<1>2. \E C : Rounds(f, MaxDescriptors - 1, C)
  <2>1. MaxDescriptors - 1 \in Nat
    BY MaxDescriptorsAssumption
  <2>. QED
    BY <2>1, RoundsExist
<1>. QED
  BY <1>1, <1>2

-----------------------------------------------------------------------------
(* Handles and the counts of the addresses. *)

Records == [address : Addresses, board : BOOLEAN]
Pairs == Files \X Handles
Holders(a) == {fh \in Pairs : IsOf(fh, a)}

(* A file that is closed, or whose handles ibclose has closed.             *)
Gone(f) == f \notin open \/ pc[f] \in {"mutex", "module", "uncount"}

DeviceTypes ==
    /\ open \subseteq Files
    /\ descriptors \in [Files -> [Handles -> Records \cup {None}]]
    /\ deviceList \in [Addresses -> Nat]
    /\ \A f \in Files, h \in Handles : Gone(f) => descriptors[f][h] = None
    /\ ~boardOpened => \A f \in Files, h \in Handles : ~descriptors[f][h].board

(* A list counts at least a number of handles, and no more unless a handle *)
(* was opened as a board.                                                  *)
Counts(count, n) == count >= n /\ (~boardOpened => count = n)

DeviceInv ==
    /\ DeviceTypes
    /\ ~uncounted => \A a \in Addresses : Counts(deviceList[a], Cardinality(Holders(a)))

(* A free place of a file is no handle.                                    *)
LEMMA NoneIsNoRecord == None \notin Records /\ None.address \notin Addresses /\ ~None.board
BY DEF None, Records, Addresses

(* Sets of handles can be counted.                                         *)
LEMMA HoldersFinite ==
    ASSUME NEW S \in SUBSET Pairs
    PROVE  IsFiniteSet(S) /\ Cardinality(S) \in Nat
<1>1. IsFiniteSet(Handles)
  BY MaxDescriptorsAssumption, FS_Interval DEF Handles
<1>2. IsFiniteSet(Pairs)
  BY <1>1, FilesAssumption, FS_Product DEF Pairs
<1>. QED
  BY <1>2, FS_Subset, FS_CardinalityType

(* Closed files have no handles.                                           *)
LEMMA HoldersAreHandles ==
    ASSUME DeviceTypes, NEW a \in Addresses
    PROVE  HandlesOf(a) = Holders(a)
BY DEF DeviceTypes, Gone, HandlesOf, Holders, IsOf, Pairs

(* What the change of one handle does to the handles of an address.        *)
LEMMA OneHandle ==
    ASSUME DeviceTypes, NEW f \in Files, NEW h \in Handles, NEW r \in Records \cup {None},
           descriptors' = [descriptors EXCEPT ![f][h] = r], NEW a \in Addresses
    PROVE  /\ Cardinality(Holders(a)) \in Nat /\ Cardinality(Holders(a)') \in Nat
           /\ Cardinality(Holders(a)') + (IF IsOf(<<f, h>>, a) THEN 1 ELSE 0)
                = Cardinality(Holders(a)) + (IF r # None /\ r.address = a THEN 1 ELSE 0)
<1>. DEFINE H == Holders(a) \ {<<f, h>>}
<1>1. <<f, h>> \in Pairs /\ Holders(a) \in SUBSET Pairs /\ Holders(a)' \in SUBSET Pairs
      /\ H \in SUBSET Pairs
  BY DEF Pairs, Holders
<1>2. \A fh \in Pairs : fh # <<f, h>> => (IsOf(fh, a)' <=> IsOf(fh, a))
  <2>. SUFFICES ASSUME NEW g \in Files, NEW k \in Handles, <<g, k>> # <<f, h>>
                PROVE  descriptors'[g][k] = descriptors[g][k]
    BY DEF Pairs, IsOf
  <2>. QED
    BY DEF DeviceTypes
<1>3. descriptors'[f][h] = r
  BY DEF DeviceTypes
<1>4. IsOf(<<f, h>>, a)' <=> r # None /\ r.address = a
  BY <1>3 DEF IsOf
<1>5. Holders(a) = IF IsOf(<<f, h>>, a) THEN H \cup {<<f, h>>} ELSE H
  BY <1>1 DEF Holders
<1>6. Holders(a)' = IF r # None /\ r.address = a THEN H \cup {<<f, h>>} ELSE H
  BY <1>1, <1>2, <1>4 DEF Holders, Pairs
<1>7. /\ Cardinality(H) \in Nat /\ <<f, h>> \notin H
      /\ Cardinality(H \cup {<<f, h>>}) = Cardinality(H) + 1
  BY <1>1, HoldersFinite, FS_AddElement
<1>. HIDE DEF H
<1>. QED
  BY <1>5, <1>6, <1>7

(* The entries that change the handles or the device list.                 *)
LEMMA DeviceChanges ==
    ASSUME ProcInv
    PROVE  Next => \/ UNCHANGED devs /\ \A g \in Files : Gone(g)' => Gone(g)
                   \/ \E f \in Files :
                        \/ CloseDevices(f)
                        \/ \E a \in Addresses, board \in BOOLEAN : open_dev_ioctl(f, a, board)
                        \/ \E h \in Handles : \/ close_dev_ioctl(f, h)
                                              \/ \E pad \in Pads : pad_ioctl(f, h, pad)
                                              \/ \E sad \in Sads : sad_ioctl(f, h, sad)
<1>. DEFINE Same == UNCHANGED devs /\ \A g \in Files : Gone(g)' => Gone(g)
<1>1. ASSUME UNCHANGED <<devs, open, procs>> PROVE Same
  BY <1>1 DEF Gone, procs
<1>2. ASSUME NEW f \in Files, NEW to \in Places, Goes(f, to), UNCHANGED devs,
             open' = open \/ open' = open \cup {f} \/ (Gone(f) /\ open' = open \ {f}),
             to \in {"mutex", "module", "uncount"} => Gone(f)
      PROVE  Same
  <2>1. \A g \in Files : pc'[g] = IF g = f THEN to ELSE pc[g]
    BY <1>2 DEF ProcInv, Goes
  <2>. QED
    BY <1>2, <2>1 DEF Gone
<1>. HIDE DEF Same
<1>3. ASSUME NEW f \in Files,
             \/ CountOpen(f) \/ ibclose(f) \/ GiveBackPolls(f)
             \/ CloseMutex(f) \/ CloseModule(f) \/ CountClose(f)
      PROVE  Same
  <2>1. UNCHANGED devs
    BY <1>3 DEF CountOpen, ibclose, GiveBackPolls, CloseMutex, CloseModule, CountClose
  <2>2. \/ open' = open \cup {f} /\ Goes(f, "idle")
        \/ open' = open /\ (Goes(f, "unpoll") \/ Goes(f, "devices"))
        \/ /\ pc[f] \in {"mutex", "module"} /\ open' = open
           /\ Goes(f, "module") \/ Goes(f, "uncount")
        \/ pc[f] \in {"module", "uncount"} /\ open' = open \ {f} /\ Goes(f, "idle")
    BY <1>3 DEF CountOpen, ibclose, GiveBackPolls, CloseMutex, CloseModule, CountClose
  <2>3. PICK to \in Places :
          /\ Goes(f, to) /\ (to \in {"mutex", "module", "uncount"} => Gone(f))
          /\ open' = open \/ open' = open \cup {f} \/ (Gone(f) /\ open' = open \ {f})
    BY <2>2 DEF Places, Gone
  <2>. QED
    BY <1>2, <2>1, <2>3
<1>4. ASSUME NEW f \in Files,
             \/ LockMutex(f) \/ LockInterrupted(f) \/ NameHolder(f) \/ MarkHolding(f)
             \/ UnlockMutex(f) \/ DropHolding(f) \/ ReleaseMutex(f)
             \/ \E lock_mutex \in BOOLEAN : mutex_ioctl(f, lock_mutex)
      PROVE  Same
  <2>1. /\ UNCHANGED <<devs, open>>
        /\ \E to \in Places \ {"mutex", "module", "uncount"} : Goes(f, to)
    BY <1>4 DEF LockMutex, LockInterrupted, NameHolder, MarkHolding, UnlockMutex,
       DropHolding, ReleaseMutex, Locks, mutex_ioctl, Places
  <2>2. PICK to \in Places \ {"mutex", "module", "uncount"} : Goes(f, to)
    BY <2>1
  <2>3. to \in Places /\ to \notin {"mutex", "module", "uncount"}
    BY <2>2
  <2>. QED
    BY <1>2, <2>1, <2>2, <2>3
<1>5. ASSUME NEW f \in Files, ibopen(f) PROVE Same
  <2>1. UNCHANGED devs
    BY <1>5 DEF ibopen
  <2>2. CASE provider # NoModule
    BY <1>2, <1>5, <2>1, <2>2 DEF ibopen, Places
  <2>3. CASE provider = NoModule
    BY <1>5, <2>1, <2>3 DEF ibopen, Same, Gone, procs
  <2>. QED
    BY <2>2, <2>3
<1>6. Next => \/ UNCHANGED <<devs, open, procs>>
              \/ \E f \in Files :
                   \/ CountOpen(f) \/ ibclose(f) \/ GiveBackPolls(f)
                   \/ CloseMutex(f) \/ CloseModule(f) \/ CountClose(f)
              \/ \E f \in Files :
                   \/ LockMutex(f) \/ LockInterrupted(f) \/ NameHolder(f) \/ MarkHolding(f)
                   \/ UnlockMutex(f) \/ DropHolding(f) \/ ReleaseMutex(f)
                   \/ \E lock_mutex \in BOOLEAN : mutex_ioctl(f, lock_mutex)
              \/ \E f \in Files : ibopen(f)
              \/ \E f \in Files :
                   \/ CloseDevices(f)
                   \/ \E a \in Addresses, board \in BOOLEAN : open_dev_ioctl(f, a, board)
                   \/ \E h \in Handles : \/ close_dev_ioctl(f, h)
                                         \/ \E pad \in Pads : pad_ioctl(f, h, pad)
                                         \/ \E sad \in Sads : sad_ioctl(f, h, sad)
  BY DEF Next, ibonline, iboffline, autospoll_ioctl, board_type_ioctl
<1>. QED
  BY <1>1, <1>3, <1>4, <1>5, <1>6 DEF Same

(* What a step that changes one handle of an open file has to show.        *)
LEMMA TypesKept ==
    ASSUME DeviceTypes, NEW f \in open, NEW h \in Handles, NEW r \in Records \cup {None},
           descriptors' = [descriptors EXCEPT ![f][h] = r], UNCHANGED <<open, pc>>,
           pc[f] = "idle", deviceList' \in [Addresses -> Nat],
           boardOpened \/ r.board => boardOpened'
    PROVE  DeviceTypes'
<1>1. f \in Files /\ descriptors' \in [Files -> [Handles -> Records \cup {None}]]
  BY DEF DeviceTypes
<1>2. \A g \in Files, k \in Handles :
        descriptors'[g][k] = IF g = f /\ k = h THEN r ELSE descriptors[g][k]
  BY DEF DeviceTypes
<1>3. ~Gone(f) /\ \A g \in Files : Gone(g)' <=> Gone(g)
  BY DEF Gone
<1>. QED
  BY <1>1, <1>2, <1>3 DEF DeviceTypes

(* IBOPENDEV: a free place becomes a handle, which is counted or memory    *)
(* ran out.                                                                *)
LEMMA OpenDevice ==
    ASSUME DeviceInv, NEW f \in Files, NEW a \in Addresses, NEW board \in BOOLEAN,
           open_dev_ioctl(f, a, board)
    PROVE  DeviceInv'
<1>. DEFINE r == [address |-> a, board |-> board]
<1>1. PICK h \in Handles : /\ descriptors[f][h] = None
                           /\ descriptors' = [descriptors EXCEPT ![f][h] = r]
                           /\ Increments(deviceList, a)
  BY DEF open_dev_ioctl
<1>2. /\ f \in open /\ open' = open /\ pc' = pc /\ pc[f] = "idle" /\ DeviceTypes /\ deviceList \in [Addresses -> Nat]
      /\ boardOpened \/ board => boardOpened'
  BY DEF open_dev_ioctl, Pinned, Idle, procs, DeviceInv, DeviceTypes
<1>3. r \in Records /\ r # None /\ r.address = a /\ r.board = board
  BY NoneIsNoRecord DEF Records
<1>4. deviceList' \in [Addresses -> Nat]
  BY <1>1, <1>2 DEF Increments
<1>. HIDE DEF r
<1>5. DeviceTypes'
  BY <1>1, <1>2, <1>3, <1>4, TypesKept
<1>6. ASSUME ~uncounted', NEW b \in Addresses
      PROVE  Counts(deviceList[b], Cardinality(Holders(b)))'
  <2>1. ~uncounted /\ deviceList' = [deviceList EXCEPT ![a] = @ + 1]
    BY <1>1, <1>6 DEF Increments
  <2>2. ~IsOf(<<f, h>>, b)
    BY <1>1 DEF IsOf
  <2>3. /\ Cardinality(Holders(b)) \in Nat /\ Cardinality(Holders(b)') \in Nat
        /\ Cardinality(Holders(b)') = Cardinality(Holders(b)) + (IF b = a THEN 1 ELSE 0)
    <3>1. /\ Cardinality(Holders(b)) \in Nat /\ Cardinality(Holders(b)') \in Nat
          /\ Cardinality(Holders(b)') + (IF IsOf(<<f, h>>, b) THEN 1 ELSE 0)
               = Cardinality(Holders(b)) + (IF r # None /\ r.address = b THEN 1 ELSE 0)
      <4>1. r \in Records \cup {None}
        BY <1>3
      <4>. QED
        BY <1>1, <1>2, <4>1, OneHandle
    <3>. QED
      BY <1>3, <2>2, <3>1
  <2>4. deviceList'[b] = deviceList[b] + (IF b = a THEN 1 ELSE 0) /\ deviceList[b] \in Nat
    BY <1>2, <2>1
  <2>5. Counts(deviceList[b], Cardinality(Holders(b)))
    BY <2>1 DEF DeviceInv
  <2>. QED
    BY <1>2, <2>3, <2>4, <2>5 DEF Counts
<1>. QED
  BY <1>5, <1>6 DEF DeviceInv

(* IBCLOSEDEV: a handle, opened as a board or not, is counted out.         *)
LEMMA CloseDevice ==
    ASSUME DeviceInv, NEW f \in Files, NEW h \in Handles, close_dev_ioctl(f, h)
    PROVE  DeviceInv'
<1>. DEFINE a == descriptors[f][h].address
<1>1. /\ f \in open /\ open' = open /\ pc' = pc /\ pc[f] = "idle" /\ DeviceTypes /\ deviceList \in [Addresses -> Nat]
      /\ boardOpened' = boardOpened /\ uncounted' = uncounted
      /\ descriptors' = [descriptors EXCEPT ![f][h] = None]
      /\ deviceList' = [deviceList EXCEPT ![a] = @ - 1] /\ deviceList[a] > 0
      /\ descriptors[f][h] # None
  BY DEF close_dev_ioctl, Pinned, Idle, procs, DeviceInv, DeviceTypes, Listed, Uncounted
<1>2. descriptors[f][h] \in Records /\ a \in Addresses
  BY <1>1 DEF DeviceTypes, Records
<1>. HIDE DEF a
<1>3. deviceList' \in [Addresses -> Nat]
  <2>1. deviceList[a] - 1 \in Nat
    BY <1>1, <1>2
  <2>. QED
    BY <1>1, <2>1
<1>4. DeviceTypes'
  BY <1>1, <1>3, NoneIsNoRecord, TypesKept
<1>5. ASSUME ~uncounted', NEW b \in Addresses
      PROVE  Counts(deviceList[b], Cardinality(Holders(b)))'
  <2>1. IsOf(<<f, h>>, b) <=> b = a
    BY <1>1 DEF IsOf, a
  <2>2. /\ Cardinality(Holders(b)) \in Nat /\ Cardinality(Holders(b)') \in Nat
        /\ Cardinality(Holders(b)') + (IF b = a THEN 1 ELSE 0) = Cardinality(Holders(b))
    <3>1. /\ Cardinality(Holders(b)) \in Nat /\ Cardinality(Holders(b)') \in Nat
          /\ Cardinality(Holders(b)') + (IF IsOf(<<f, h>>, b) THEN 1 ELSE 0)
               = Cardinality(Holders(b)) + (IF None # None /\ None.address = b THEN 1 ELSE 0)
      BY <1>1, OneHandle
    <3>. QED
      BY <2>1, <3>1
  <2>3. deviceList'[b] + (IF b = a THEN 1 ELSE 0) = deviceList[b] /\ deviceList[b] \in Nat
        /\ deviceList'[b] \in Nat
    BY <1>1, <1>2, <1>3
  <2>4. Counts(deviceList[b], Cardinality(Holders(b)))
    BY <1>1, <1>5 DEF DeviceInv
  <2>. QED
    BY <1>1, <2>2, <2>3, <2>4 DEF Counts
<1>. QED
  BY <1>4, <1>5 DEF DeviceInv

(* IBPAD and IBSAD of a device: one handle goes from one address to        *)
(* another, which may be the same.                                         *)
LEMMA ReaddressDevice ==
    ASSUME DeviceInv, NEW f \in open, NEW h \in Handles, NEW a \in Addresses,
           Device(f, h), Readdress(f, h, a), open' = open, boardOpened' = boardOpened,
           pc' = pc, pc[f] = "idle"
    PROVE  DeviceInv'
<1>. DEFINE d == descriptors[f][h]
            old == d.address
            r == [address |-> a, board |-> d.board]
            list == [deviceList EXCEPT ![old] = @ - 1]
<1>1. /\ f \in Files /\ DeviceTypes /\ deviceList \in [Addresses -> Nat]
      /\ d \in Records /\ old \in Addresses /\ d # None
      /\ descriptors \in [Files -> [Handles -> Records \cup {None}]]
  BY DEF DeviceInv, DeviceTypes, Device, Records
<1>2. /\ deviceList[old] > 0 /\ Increments(list, a)
      /\ descriptors' = [descriptors EXCEPT ![f][h].address = a]
  BY DEF Readdress, Listed, Uncounted
<1>3. r \in Records /\ r # None /\ r.address = a /\ r.board = d.board /\ ~d.board
      /\ [d EXCEPT !.address = a] = r
  BY <1>1, NoneIsNoRecord DEF Records, Device
<1>4. descriptors' = [descriptors EXCEPT ![f][h] = r]
  BY <1>1, <1>2, <1>3
<1>5. list \in [Addresses -> Nat] /\ \A b \in Addresses :
        list[b] + (IF b = old THEN 1 ELSE 0) = deviceList[b]
  <2>. HIDE DEF old
  <2>1. deviceList[old] - 1 \in Nat
    BY <1>1, <1>2
  <2>. QED
    BY <1>1, <2>1
<1>. HIDE DEF list, r
<1>6. deviceList' \in [Addresses -> Nat]
  BY <1>2, <1>5 DEF Increments
<1>7. DeviceTypes'
  BY <1>1, <1>3, <1>4, <1>6, TypesKept
<1>8. ASSUME ~uncounted', NEW b \in Addresses
      PROVE  Counts(deviceList[b], Cardinality(Holders(b)))'
  <2>1. ~uncounted /\ deviceList' = [list EXCEPT ![a] = @ + 1]
    BY <1>2, <1>8 DEF Increments
  <2>2. IsOf(<<f, h>>, b) <=> b = old
    BY <1>1 DEF IsOf
  <2>. HIDE DEF old
  <2>3. /\ Cardinality(Holders(b)) \in Nat /\ Cardinality(Holders(b)') \in Nat
        /\ Cardinality(Holders(b)') + (IF b = old THEN 1 ELSE 0)
             = Cardinality(Holders(b)) + (IF b = a THEN 1 ELSE 0)
    <3>1. /\ Cardinality(Holders(b)) \in Nat /\ Cardinality(Holders(b)') \in Nat
          /\ Cardinality(Holders(b)') + (IF IsOf(<<f, h>>, b) THEN 1 ELSE 0)
               = Cardinality(Holders(b)) + (IF r # None /\ r.address = b THEN 1 ELSE 0)
      <4>1. r \in Records \cup {None}
        BY <1>3
      <4>. QED
        BY <1>1, <1>4, <4>1, OneHandle
    <3>. QED
      BY <1>3, <2>2, <3>1
  <2>4. deviceList'[b] = list[b] + (IF b = a THEN 1 ELSE 0) /\ list[b] \in Nat
        /\ deviceList[b] \in Nat
    BY <1>1, <1>5, <2>1
  <2>5. Counts(deviceList[b], Cardinality(Holders(b)))
    BY <2>1 DEF DeviceInv
  <2>. QED
    BY <1>5, <2>3, <2>4, <2>5 DEF Counts
<1>. QED
  BY <1>7, <1>8 DEF DeviceInv

(* The handles of an address that are left after n rounds of the loop.     *)
LeftHolders(f, n, a) == Holders(a) \ ({f} \X (1 .. n))
CleanTypes == [list : [Addresses -> Nat], ok : BOOLEAN]

(* The loop never meets an address that is not listed: what it has not     *)
(* taken back yet is counted.                                              *)
RoundGood(f, n, c) ==
    /\ c \in CleanTypes
    /\ ~uncounted => /\ c.ok
                     /\ \A a \in Addresses :
                          Counts(c.list[a], Cardinality(LeftHolders(f, n, a)))

(* A round of the loop counts out what it looks at.                        *)
LEMMA RoundKeeps ==
    ASSUME DeviceTypes, NEW f \in Files, NEW h \in Handles, NEW c, RoundGood(f, h - 1, c)
    PROVE  RoundGood(f, h, CleanStep(f, c, h))
<1>. DEFINE b == descriptors[f][h].address
            next == CleanStep(f, c, h)
<1>1. /\ c \in CleanTypes /\ c.list \in [Addresses -> Nat] /\ c.ok \in BOOLEAN
      /\ h \in Nat /\ h > 0 /\ h - 1 \in Nat
  BY MaxDescriptorsAssumption DEF RoundGood, CleanTypes, Handles
<1>2. Device(f, h) => b \in Addresses
  BY DEF DeviceTypes, Device, Records
<1>3. \A a \in Addresses :
        /\ LeftHolders(f, h, a) = LeftHolders(f, h - 1, a) \ {<<f, h>>}
        /\ <<f, h>> \in LeftHolders(f, h - 1, a) <=> IsOf(<<f, h>>, a)
  <2>1. {f} \X (1 .. h) = ({f} \X (1 .. h - 1)) \cup {<<f, h>>}
    BY <1>1
  <2>2. <<f, h>> \notin {f} \X (1 .. h - 1) /\ <<f, h>> \in Pairs
    BY <1>1 DEF Pairs
  <2>. QED
    BY <2>1, <2>2 DEF LeftHolders, Holders
<1>4. \A a \in Addresses :
        /\ Cardinality(LeftHolders(f, h - 1, a)) \in Nat
        /\ Cardinality(LeftHolders(f, h, a)) \in Nat
        /\ Cardinality(LeftHolders(f, h - 1, a))
             = Cardinality(LeftHolders(f, h, a)) + (IF IsOf(<<f, h>>, a) THEN 1 ELSE 0)
  <2>. SUFFICES ASSUME NEW a \in Addresses
                PROVE  /\ Cardinality(LeftHolders(f, h - 1, a)) \in Nat
                       /\ Cardinality(LeftHolders(f, h, a)) \in Nat
                       /\ Cardinality(LeftHolders(f, h - 1, a))
                            = Cardinality(LeftHolders(f, h, a))
                                + (IF IsOf(<<f, h>>, a) THEN 1 ELSE 0)
    OBVIOUS
  <2>1. LeftHolders(f, h - 1, a) \in SUBSET Pairs /\ LeftHolders(f, h, a) \in SUBSET Pairs
    BY DEF LeftHolders, Holders
  <2>. QED
    BY <1>3, <2>1, HoldersFinite, FS_RemoveElement
<1>5. CASE ~Device(f, h)
  <2>1. next = c
    BY <1>5 DEF CleanStep
  <2>2. \A a \in Addresses :
          ~boardOpened => ~IsOf(<<f, h>>, a)
    BY <1>5 DEF Device, IsOf, DeviceTypes
  <2>3. ASSUME NEW a \in Addresses, ~uncounted
        PROVE  Counts(c.list[a], Cardinality(LeftHolders(f, h, a)))
    <3>1. Counts(c.list[a], Cardinality(LeftHolders(f, h - 1, a))) /\ c.list[a] \in Nat
      BY <1>1, <2>3 DEF RoundGood
    <3>. QED
      BY <1>4, <2>2, <3>1 DEF Counts
  <2>. QED
    BY <2>1, <2>3 DEF RoundGood
<1>6. CASE Device(f, h)
  <2>1. \A a \in Addresses : IsOf(<<f, h>>, a) <=> a = b
    BY <1>6 DEF Device, IsOf
  <2>2. b \in Addresses
    BY <1>2, <1>6
  <2>3. next = IF ~c.ok THEN c
               ELSE IF c.list[b] = 0 THEN [c EXCEPT !.ok = FALSE]
               ELSE [c EXCEPT !.list[b] = @ - 1]
    BY <1>6 DEF CleanStep
  <2>. HIDE DEF b, next
  <2>4. ASSUME ~c.ok PROVE RoundGood(f, h, next)
    <3>1. next = c /\ uncounted
      BY <1>1, <2>3, <2>4 DEF RoundGood
    <3>. QED
      BY <1>1, <3>1 DEF RoundGood
  <2>5. ASSUME c.ok, c.list[b] = 0 PROVE RoundGood(f, h, next)
    <3>1. uncounted
      <4>1. SUFFICES ASSUME ~uncounted PROVE FALSE
        OBVIOUS
      <4>2. Counts(c.list[b], Cardinality(LeftHolders(f, h - 1, b)))
        BY <2>2, <4>1 DEF RoundGood
      <4>. QED
        BY <1>4, <2>1, <2>2, <2>5, <4>2 DEF Counts
    <3>2. next = [list |-> c.list, ok |-> FALSE]
      BY <1>1, <2>3, <2>5 DEF CleanTypes
    <3>3. next \in CleanTypes
      BY <1>1, <3>2 DEF CleanTypes
    <3>. QED
      BY <3>1, <3>3 DEF RoundGood
  <2>6. ASSUME c.ok, c.list[b] # 0 PROVE RoundGood(f, h, next)
    <3>. DEFINE list == [c.list EXCEPT ![b] = @ - 1]
    <3>1. next = [list |-> list, ok |-> TRUE]
      BY <1>1, <2>3, <2>6 DEF CleanTypes
    <3>2. list \in [Addresses -> Nat]
      <4>1. c.list[b] - 1 \in Nat
        BY <1>1, <2>2, <2>6
      <4>. QED
        BY <1>1, <4>1
    <3>3. \A a \in Addresses : list[a] + (IF a = b THEN 1 ELSE 0) = c.list[a]
      BY <1>1, <2>2
    <3>. HIDE DEF list
    <3>4. next \in CleanTypes /\ next.ok /\ next.list = list
      BY <3>1, <3>2 DEF CleanTypes
    <3>5. ASSUME NEW a \in Addresses, ~uncounted
          PROVE  Counts(list[a], Cardinality(LeftHolders(f, h, a)))
      <4>1. Counts(c.list[a], Cardinality(LeftHolders(f, h - 1, a))) /\ c.list[a] \in Nat
            /\ list[a] \in Nat
        BY <1>1, <3>2, <3>5 DEF RoundGood
      <4>2. list[a] + (IF a = b THEN 1 ELSE 0) = c.list[a]
        BY <3>3
      <4>3. Cardinality(LeftHolders(f, h - 1, a))
             = Cardinality(LeftHolders(f, h, a)) + (IF a = b THEN 1 ELSE 0)
        BY <1>4, <2>1
      <4>4. Cardinality(LeftHolders(f, h, a)) \in Nat
        BY <1>4
      <4>. QED
        BY <4>1, <4>2, <4>3, <4>4 DEF Counts
    <3>. QED
      BY <3>4, <3>5 DEF RoundGood
  <2>7. RoundGood(f, h, next)
    BY <2>4, <2>5, <2>6
  <2>. QED
    BY <2>7 DEF next
<1>. QED
  BY <1>5, <1>6

(* All rounds of the loop: the first of them that broke RoundGood would be *)
(* preceded by one that did not.                                           *)
LEMMA CleanUpGood ==
    ASSUME DeviceInv, NEW f \in Files
    PROVE  RoundGood(f, MaxDescriptors - 1, CleanUp(f)[MaxDescriptors - 1])
<1>. DEFINE C == CleanUp(f)
            T == {n \in Steps : ~RoundGood(f, n, C[n])}
<1>1. MaxDescriptors - 1 \in Nat
  BY MaxDescriptorsAssumption
<1>2. C = [h \in Steps |-> IF h = 0 THEN CleanStart ELSE CleanStep(f, C[h - 1], h)]
  BY CleanUpRounds DEF Rounds, Steps
<1>. HIDE DEF C
<1>3. C[0] = CleanStart
  <2>1. 0 \in Steps
    BY <1>1 DEF Steps
  <2>. QED
    BY <1>2, <2>1
<1>4. \A h \in Handles : C[h] = CleanStep(f, C[h - 1], h)
  <2>1. \A h \in Handles : h \in Steps /\ h # 0
    BY <1>1 DEF Steps, Handles
  <2>. QED
    BY <1>2, <2>1
<1>5. RoundGood(f, 0, C[0])
  <2>1. \A a : LeftHolders(f, 0, a) = Holders(a)
    BY DEF LeftHolders
  <2>. QED
    BY <1>3, <2>1 DEF RoundGood, CleanStart, CleanTypes, DeviceInv, DeviceTypes
<1>6. T = {}
  <2>. SUFFICES ASSUME T # {} PROVE FALSE
    OBVIOUS
  <2>1. PICK n \in T : \A k \in T : n <= k
    <3>1. T \in SUBSET Nat
      BY <1>1 DEF Steps
    <3>. HIDE DEF T
    <3>. QED
      BY <3>1, Smallest
  <2>2. n \in Handles /\ n \in Nat /\ n - 1 \in Steps /\ ~(n <= n - 1)
    BY <1>1, <1>5 DEF Steps, Handles
  <2>3. RoundGood(f, n - 1, C[n - 1])
    BY <2>1, <2>2
  <2>4. RoundGood(f, n, C[n])
    BY <1>4, <2>2, <2>3, RoundKeeps DEF DeviceInv
  <2>. QED
    BY <2>1, <2>4
<1>7. MaxDescriptors - 1 \in Steps
  BY <1>1 DEF Steps
<1>. QED
  BY <1>6, <1>7 DEF C

-----------------------------------------------------------------------------
(* Opening and closing the file, and every other step. *)

(* A step that leaves the handles alone.                                   *)
LEMMA DevicesSame ==
    ASSUME DeviceInv, UNCHANGED devs, open' \subseteq Files,
           \A g \in Files : Gone(g)' => Gone(g)
    PROVE  DeviceInv'
<1>1. \A a : Holders(a)' = Holders(a)
  BY DEF Holders, IsOf, devs
<1>2. DeviceTypes'
  BY DEF DeviceInv, DeviceTypes, devs
<1>. QED
  BY <1>1, <1>2 DEF DeviceInv, Counts, devs

(* ibclose: the file loses all its handles, and the loop has counted out   *)
(* those that were not opened as a board.                                  *)
LEMMA CloseFile ==
    ASSUME ProcInv, DeviceInv, NEW f \in Files, CloseDevices(f)
    PROVE  DeviceInv'
<1>. DEFINE c == CleanUp(f)[MaxDescriptors - 1]
<1>1. /\ pc' = [pc EXCEPT ![f] = "mutex"] /\ open' = open /\ DeviceTypes
      /\ uncounted' = uncounted /\ boardOpened' = boardOpened
      /\ descriptors' = [descriptors EXCEPT ![f] = [h \in Handles |-> None]]
      /\ deviceList' = c.list
  BY DEF CloseDevices, Goes, Cleaned, DeviceInv
<1>2. RoundGood(f, MaxDescriptors - 1, c)
  BY CleanUpGood
<1>. HIDE DEF c
<1>3. deviceList' \in [Addresses -> Nat]
  BY <1>1, <1>2 DEF RoundGood, CleanTypes
<1>4. [h \in Handles |-> None] \in [Handles -> Records \cup {None}]
  OBVIOUS
<1>5. descriptors' \in [Files -> [Handles -> Records \cup {None}]]
  BY <1>1, <1>4 DEF DeviceTypes
<1>6. \A g \in Files, h \in Handles :
        descriptors'[g][h] = IF g = f THEN None ELSE descriptors[g][h]
  BY <1>1 DEF DeviceTypes
<1>7. DeviceTypes'
  <2>1. \A g \in Files : Gone(g)' => g = f \/ Gone(g)
    BY <1>1 DEF Gone, ProcInv
  <2>. QED
    BY <1>1, <1>3, <1>5, <1>6, <2>1, NoneIsNoRecord DEF DeviceTypes
<1>8. ASSUME NEW a \in Addresses
      PROVE  Holders(a)' = LeftHolders(f, MaxDescriptors - 1, a)
  <2>1. ASSUME NEW fh \in Pairs
        PROVE  IsOf(fh, a)' <=> IsOf(fh, a) /\ fh \notin {f} \X Handles
    <3>1. PICK g \in Files, h \in Handles : fh = <<g, h>>
      BY DEF Pairs
    <3>2. descriptors'[g][h] = IF g = f THEN None ELSE descriptors[g][h]
      BY <1>6
    <3>3. <<g, h>> \in {f} \X Handles <=> g = f
      OBVIOUS
    <3>. QED
      BY <3>1, <3>2, <3>3 DEF IsOf
  <2>. QED
    BY <2>1 DEF Holders, LeftHolders, Handles
<1>9. ASSUME ~uncounted', NEW a \in Addresses
      PROVE  Counts(deviceList[a], Cardinality(Holders(a)))'
  <2>1. Counts(c.list[a], Cardinality(LeftHolders(f, MaxDescriptors - 1, a)))
    BY <1>1, <1>2, <1>9 DEF RoundGood
  <2>. QED
    BY <1>1, <1>8, <2>1 DEF Counts
<1>. QED
  BY <1>7, <1>9 DEF DeviceInv

(* Every step keeps what the device list counts.                           *)
LEMMA DeviceStep == ProcInv /\ DeviceInv /\ [Next]_vars => DeviceInv'
<1>. SUFFICES ASSUME ProcInv, DeviceInv, [Next]_vars PROVE DeviceInv'
  OBVIOUS
<1>1. ASSUME UNCHANGED devs, \A g \in Files : Gone(g)' => Gone(g) PROVE DeviceInv'
  <2>1. open' \subseteq Files
    BY ProcStep DEF ProcInv
  <2>. QED
    BY <1>1, <2>1, DevicesSame
<1>3. ASSUME NEW f \in Files, CloseDevices(f) PROVE DeviceInv'
  BY <1>3, CloseFile
<1>4. ASSUME NEW f \in Files, NEW a \in Addresses, NEW board \in BOOLEAN,
             open_dev_ioctl(f, a, board)
      PROVE  DeviceInv'
  BY <1>4, OpenDevice
<1>5. ASSUME NEW f \in Files, NEW h \in Handles, close_dev_ioctl(f, h)
      PROVE  DeviceInv'
  BY <1>5, CloseDevice
<1>6. ASSUME NEW f \in Files, NEW h \in Handles, NEW pad \in Pads, pad_ioctl(f, h, pad)
      PROVE  DeviceInv'
  <2>. DEFINE a == <<pad, descriptors[f][h].address[2]>>
  <2>1. /\ f \in open /\ Device(f, h) /\ Readdress(f, h, a)
        /\ open' = open /\ boardOpened' = boardOpened /\ pc' = pc /\ pc[f] = "idle"
    BY <1>6 DEF pad_ioctl, Pinned, Idle, procs
  <2>2. descriptors[f][h] \in Records
    BY <2>1 DEF DeviceInv, DeviceTypes, Device
  <2>3. a \in Addresses
    BY <2>2 DEF Records, Addresses
  <2>. HIDE DEF a
  <2>. QED
    BY <2>1, <2>3, ReaddressDevice
<1>7. ASSUME NEW f \in Files, NEW h \in Handles, NEW sad \in Sads, sad_ioctl(f, h, sad)
      PROVE  DeviceInv'
  <2>. DEFINE a == <<descriptors[f][h].address[1], sad>>
  <2>1. /\ f \in open /\ Device(f, h) /\ Readdress(f, h, a)
        /\ open' = open /\ boardOpened' = boardOpened /\ pc' = pc /\ pc[f] = "idle"
    BY <1>7 DEF sad_ioctl, Pinned, Idle, procs
  <2>2. descriptors[f][h] \in Records
    BY <2>1 DEF DeviceInv, DeviceTypes, Device
  <2>3. a \in Addresses
    BY <2>2 DEF Records, Addresses
  <2>. HIDE DEF a
  <2>. QED
    BY <2>1, <2>3, ReaddressDevice
<1>8. UNCHANGED vars => UNCHANGED devs /\ \A g \in Files : Gone(g)' => Gone(g)
  BY DEF vars, procs, Gone
<1>. QED
  BY <1>1, <1>3, <1>4, <1>5, <1>6, <1>7, <1>8, DeviceChanges

(* At first there is neither a handle nor a listed address.                *)
LEMMA DeviceInit == Init => DeviceInv
<1>. SUFFICES ASSUME Init PROVE DeviceInv
  OBVIOUS
<1>1. [h \in Handles |-> None] \in [Handles -> Records \cup {None}]
  OBVIOUS
<1>2. DeviceTypes
  BY <1>1, NoneIsNoRecord DEF Init, DeviceTypes, Gone
<1>3. \A a \in Addresses : deviceList[a] = 0 /\ Holders(a) = {}
  BY DEF Init, Holders, IsOf, Pairs
<1>4. Cardinality({}) = 0
  BY FS_EmptySet
<1>. QED
  BY <1>2, <1>3, <1>4 DEF DeviceInv, Counts

(* The invariant is about all files, the property about those that are     *)
(* open.                                                                   *)
LEMMA DeviceInvImplies == DeviceInv => DevicesAreCounted
BY HoldersAreHandles DEF DeviceInv, DevicesAreCounted, Counts

(* What the board counts of an address are the open handles of it.         *)
THEOREM DevicesCounted == Spec => []DevicesAreCounted
<1>1. Init => ProcInv /\ DeviceInv
  BY ProcInit, DeviceInit
<1>2. ProcInv /\ DeviceInv /\ [Next]_vars => ProcInv' /\ DeviceInv'
  BY ProcStep, DeviceStep
<1>3. DeviceInv => DevicesAreCounted
  BY DeviceInvImplies
<1>. QED
  BY <1>1, <1>2, <1>3, PTL DEF Spec

-----------------------------------------------------------------------------
(* Type correctness. *)

(* Who takes or holds the board lock is an open file: ibclose gives the    *)
(* lock back before the file is closed.                                    *)
OwnersInv ==
    /\ userMutex \in Files \cup {Nobody} /\ lockingPid \in Files \cup {Nobody}
    /\ holding \subseteq open
    /\ \A f \in Files : pc[f] \in {"module", "uncount"} => f \notin holding

(* The owners are inductive.                                               *)
LEMMA OwnersStep == ProcInv /\ OwnersInv /\ [Next]_vars => OwnersInv'
<1>. SUFFICES ASSUME ProcInv, OwnersInv, [Next]_vars PROVE OwnersInv'
  OBVIOUS
<1>0. pc \in [Files -> Places] /\ open \subseteq Files
      /\ \A f \in Files : pc[f] \notin {"idle", "count"} => f \in open
  BY DEF ProcInv
<1>1. CASE UNCHANGED <<open, procs, lock>>
  BY <1>1 DEF OwnersInv, procs, lock
<1>2. ASSUME NEW f \in Files,
             \/ LockMutex(f) \/ LockInterrupted(f) \/ NameHolder(f) \/ MarkHolding(f)
             \/ UnlockMutex(f) \/ DropHolding(f) \/ ReleaseMutex(f)
      PROVE  OwnersInv'
  <2>1. PICK from, to \in {"idle", "lock", "name", "hold", "unlock", "drop", "release"} :
          Locks(f, from, to) /\ from # "idle"
    BY <1>2 DEF LockMutex, LockInterrupted, NameHolder, MarkHolding, UnlockMutex,
       DropHolding, ReleaseMutex
  <2>2. pc[f] = from /\ pc' = [pc EXCEPT ![f] = to] /\ open' = open
    BY <2>1 DEF Locks, Goes
  <2>3. \A g \in Files : pc'[g] \in {"module", "uncount"} => g # f /\ pc'[g] = pc[g]
    BY <1>0, <2>2
  <2>4. f \in open
    BY <1>0, <2>1, <2>2
  <2>5. /\ userMutex' \in {userMutex, f, Nobody} /\ lockingPid' \in {lockingPid, f, Nobody}
        /\ holding' \in {holding, holding \cup {f}, holding \ {f}}
    BY <1>2 DEF LockMutex, LockInterrupted, NameHolder, MarkHolding, UnlockMutex,
       DropHolding, ReleaseMutex
  <2>. QED
    BY <2>2, <2>3, <2>4, <2>5 DEF OwnersInv
<1>3. ASSUME NEW f \in Files,
             \/ ibclose(f) \/ GiveBackPolls(f) \/ CloseDevices(f)
             \/ \E lock_mutex \in BOOLEAN : mutex_ioctl(f, lock_mutex)
      PROVE  OwnersInv'
  <2>1. /\ UNCHANGED <<open, lock>>
        /\ Goes(f, "unpoll") \/ Goes(f, "devices") \/ Goes(f, "mutex") \/ Goes(f, "lock")
           \/ Goes(f, "unlock")
    BY <1>3 DEF ibclose, GiveBackPolls, CloseDevices, mutex_ioctl
  <2>2. \A g \in Files : pc'[g] \in {"module", "uncount"} => pc'[g] = pc[g]
    BY <1>0, <2>1 DEF Goes
  <2>. QED
    BY <2>1, <2>2 DEF OwnersInv, lock
<1>4. ASSUME NEW f \in Files, CloseMutex(f) PROVE OwnersInv'
  <2>1. /\ pc' = [pc EXCEPT ![f] = "module"] /\ holding' = holding \ {f} /\ open' = open
        /\ userMutex' \in {userMutex, Nobody} /\ lockingPid' = lockingPid
    BY <1>4 DEF CloseMutex, Goes
  <2>2. \A g \in Files : pc'[g] \in {"module", "uncount"} => g = f \/ pc'[g] = pc[g]
    BY <1>0, <2>1
  <2>. QED
    BY <2>1, <2>2 DEF OwnersInv
<1>5. ASSUME NEW f \in Files, ibopen(f) \/ CountOpen(f) \/ CloseModule(f) \/ CountClose(f)
      PROVE  OwnersInv'
  <2>1. /\ UNCHANGED lock
        /\ \/ open' = open \cup {f} /\ (pc' = pc \/ Goes(f, "idle"))
           \/ open' = open /\ Goes(f, "count")
           \/ pc[f] = "module" /\ open' = open /\ Goes(f, "uncount")
           \/ pc[f] \in {"module", "uncount"} /\ open' = open \ {f} /\ Goes(f, "idle")
    BY <1>5 DEF ibopen, CountOpen, CloseModule, CountClose, procs
  <2>2. \A g \in Files : pc'[g] \in {"module", "uncount"} => pc[g] \in {"module", "uncount"}
    BY <1>0, <2>1 DEF Goes
  <2>3. holding \subseteq open'
    BY <2>1 DEF OwnersInv
  <2>. QED
    BY <2>1, <2>2, <2>3 DEF OwnersInv, lock
<1>6. Next => \/ UNCHANGED <<open, procs, lock>>
              \/ \E f \in Files :
                   \/ LockMutex(f) \/ LockInterrupted(f) \/ NameHolder(f) \/ MarkHolding(f)
                   \/ UnlockMutex(f) \/ DropHolding(f) \/ ReleaseMutex(f)
              \/ \E f \in Files :
                   \/ ibclose(f) \/ GiveBackPolls(f) \/ CloseDevices(f)
                   \/ \E lock_mutex \in BOOLEAN : mutex_ioctl(f, lock_mutex)
              \/ \E f \in Files : CloseMutex(f)
              \/ \E f \in Files : ibopen(f) \/ CountOpen(f) \/ CloseModule(f) \/ CountClose(f)
  BY DEF Next, ibonline, iboffline, autospoll_ioctl, board_type_ioctl, open_dev_ioctl,
     close_dev_ioctl, pad_ioctl, sad_ioctl
<1>7. UNCHANGED vars => UNCHANGED <<open, procs, lock>>
  BY DEF vars
<1>. QED
  BY <1>1, <1>2, <1>3, <1>4, <1>5, <1>6, <1>7

(* Types: in particular no count of the board goes below zero, whichever   *)
(* calls fail and whatever they meet; that of the references to a module   *)
(* does not unless the counter of them was changed by two at a time.       *)
THEOREM TypeCorrect == Spec => []TypeOK
<1>1. Init => ProcInv /\ PollInv /\ UseInv /\ DeviceInv /\ OwnersInv
  <2>1. Init => OwnersInv
    BY DEF Init, OwnersInv
  <2>. QED
    BY <2>1, ProcInit, CountInit, DeviceInit
<1>2. ProcInv /\ PollInv /\ UseInv /\ DeviceInv /\ OwnersInv /\ [Next]_vars
        => ProcInv' /\ PollInv' /\ UseInv' /\ DeviceInv' /\ OwnersInv'
  BY ProcStep, PollStep, UseStep, DeviceStep, OwnersStep
<1>3. ASSUME ProcInv, UseInv, DeviceInv, OwnersInv PROVE TypeOK
  <2>1. ASSUME ~useRaced, NEW m \in Modules PROVE moduleRefs[m] >= 0
    <3>1. CASE Counting = {}
      BY <1>3, <2>1, <3>1 DEF UseInv, UseTypes, Refs, ProcInv
    <3>2. CASE Counting # {}
      <4>1. PICK f \in Counting : TRUE
        BY <3>2
      <4>2. /\ f \in Files /\ pc[f] \in {"count", "uncount"} /\ seen[f] = useCount
            /\ pc[f] = "uncount" => useCount > 0
        BY <1>3, <2>1, <4>1 DEF Counting, UseInv, UseTypes, ProcInv
      <4>3. PICK n \in Nat : Refs(n)
        <5>1. useCount \in Nat
          BY <1>3 DEF ProcInv
        <5>2. CASE pc[f] = "count"
          BY <1>3, <2>1, <4>1, <5>1, <5>2 DEF UseInv, UseTypes
        <5>3. CASE pc[f] = "uncount"
          <6>1. useCount - 1 \in Nat /\ Refs(useCount - 1)
            BY <1>3, <2>1, <4>1, <4>2, <5>1, <5>3 DEF UseInv, UseTypes
          <6>. QED
            BY <6>1
        <5>. QED
          BY <4>2, <5>2, <5>3
      <4>. QED
        BY <4>3 DEF Refs
    <3>. QED
      BY <3>1, <3>2
  <2>2. \A a \in Addresses : deviceList[a] >= 0
    BY <1>3 DEF DeviceInv, DeviceTypes
  <2>. QED
    BY <1>3, <2>1, <2>2 DEF TypeOK, ProcInv, OwnersInv
<1>. QED
  BY <1>1, <1>2, <1>3, PTL DEF Spec
=============================================================================
