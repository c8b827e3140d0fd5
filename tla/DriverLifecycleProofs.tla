------------------------ MODULE DriverLifecycleProofs ------------------------
(***************************************************************************)
(* Proofs about DriverLifecycle, for any number of LOAD PROJECTs and of    *)
(* looks at bBusy: what a LOAD PROJECT leaves behind, whichever of its     *)
(* calls fail.                                                             *)
(***************************************************************************)
EXTENDS DriverLifecycle, TLAPS

(* What CreateBackgroundTask and CreateVLCThread create.                   *)
TaskKinds == Semaphores \cup {"task"}

(* Where rtOpen has not yet created anything of the background task, where *)
(* it creates it, and where it undoes that.                                *)
BeforeTask == {"sentinel", "synchronize", "find", "openDevice", "describe", "init",
               "usbThread", "sentinel2", "dpr", "pendSem"}
Creating   == {"doneSem", "taskSem", "task", "look"}
Undoing    == {"deleteThread", "deleteTask"}
InService  == {"loaded", "running", "closing"}

(* An object that exists belongs to a load of the past, or is one the      *)
(* present instance has a handle of.                                       *)
AliveIsHeld ==
  /\ at # "unloaded" => loads # 0
  /\ alive \subseteq Kinds \X (1..loads)
  /\ \A k \in Kinds : Mine(k) \in alive => handle[k] = "set"

(* The background task: nothing is deleted before the clean-up, and a      *)
(* handle is zero once its object has been deleted.                        *)
TaskDeletedOnce ==
  /\ at \in BeforeTask \cup Creating => \A k \in TaskKinds : deletes[k] = 0
  /\ \A k \in TaskKinds : /\ deletes[k] \in {0, 1}
                          /\ handle[k] # "null" => deletes[k] = 0

(* How far the creation of the background task has come.                   *)
TaskProgress ==
  /\ at \in BeforeTask => \A k \in TaskKinds : handle[k] = "null"
  /\ at = "doneSem" => \A k \in TaskKinds \ {"pendSem"} : handle[k] = "null"
  /\ at = "taskSem" => handle["taskSem"] = "null" /\ handle["task"] = "null"
  /\ at = "task" => handle["task"] = "null"
  /\ at = "look" => looks # 0
  /\ at = "deleteTask" => handle["taskSem"] = "null" /\ handle["task"] = "null"
  /\ at \in {"return", "failed"} /\ rc # "SUCCESS" =>
       \A k \in TaskKinds : handle[k] = "null"
  /\ at \in {"return"} \cup InService /\ bSimulate =>
       \A k \in TaskKinds : handle[k] = "null"

(* The result of rtOpen, which is an error once the USB thread was created.*)
ResultKnown ==
  /\ at \in {"sentinel", "synchronize", "find", "openDevice"} => rc = "SUCCESS"
  /\ at \in {"dpr", "pendSem"} \cup Creating => rc = "SUCCESS" /\ ~bSimulate
  /\ at \in Undoing \cup {"failed"} => rc # "SUCCESS"
  /\ at \in InService => rc = "SUCCESS"

(* The USB thread and the device.                                          *)
UsbKept ==
  /\ at \in {"sentinel", "synchronize", "find", "openDevice", "describe", "init",
             "usbThread"} => handle["usbThread"] = "null"
  /\ at \in {"sentinel", "synchronize", "find", "openDevice"} => handle["device"] = "null"
  /\ handle["usbThread"] = "set" => rc # "SUCCESS"
  /\ deletes["usbThread"] = 0
  /\ deletes["device"] \in {0, 1}
  /\ at \notin {"closing", "unloaded"} => deletes["device"] = 0
  /\ at = "closing" => Mine("device") \notin alive

LifecycleInv ==
  /\ TypeOK /\ AliveIsHeld /\ TaskDeletedOnce /\ TaskProgress /\ ResultKnown /\ UsbKept

-----------------------------------------------------------------------------
(* Before the first LOAD PROJECT.                                          *)
LEMMA LifecycleInit == Init => LifecycleInv
<1>. SUFFICES ASSUME Init PROVE LifecycleInv
  OBVIOUS
<1>1. TypeOK
  <2>1. /\ handle \in [Kinds -> {"null", "bad", "set"}]
        /\ deletes \in [Kinds -> 0..2]
    BY DEF Init
  <2>2. /\ loads \in 0..MaxLoads /\ looks \in 0..MaxLooks
        /\ alive \subseteq Kinds \X (1..MaxLoads) /\ online \subseteq 1..MaxLoads
    BY LifecycleAssumption DEF Init
  <2>. QED
    BY <2>1, <2>2 DEF Init, TypeOK
<1>. USE LifecycleAssumption
     DEF LifecycleInv, TypeOK, AliveIsHeld, TaskDeletedOnce, TaskProgress, ResultKnown,
         UsbKept, Mine, Kinds, Threads, Semaphores, TaskKinds,
         BeforeTask, Creating, Undoing, InService, OpenSteps, Errors, Init
<1>2. AliveIsHeld
  OBVIOUS
<1>3. TaskDeletedOnce /\ TaskProgress
  OBVIOUS
<1>4. ResultKnown /\ UsbKept
  OBVIOUS
<1>. QED
  BY <1>1, <1>2, <1>3, <1>4

(* Every step of rtLoad, rtOpen, the clean-ups and rtClose, whichever call *)
(* of it fails.                                                            *)
LEMMA LifecycleStep == LifecycleInv /\ [Next]_vars => LifecycleInv'
<1>. SUFFICES ASSUME LifecycleInv, [Next]_vars PROVE LifecycleInv'
  OBVIOUS
<1>0. ASSUME NEW simulate \in BOOLEAN, Load(simulate) PROVE TypeOK'
  <2>1. /\ handle' \in [Kinds -> {"null", "bad", "set"}]
        /\ deletes' \in [Kinds -> 0..2]
    BY <1>0 DEF Load
  <2>2. /\ loads' \in 0..MaxLoads /\ looks' \in 0..MaxLooks
        /\ alive' \subseteq Kinds \X (1..MaxLoads) /\ online' \subseteq 1..MaxLoads
    BY <1>0, LifecycleAssumption DEF Load, LifecycleInv, TypeOK
  <2>. QED
    BY <1>0, <2>1, <2>2 DEF Load, TypeOK, OpenSteps
<1>. USE LifecycleAssumption
     DEF LifecycleInv, TypeOK, AliveIsHeld, TaskDeletedOnce, TaskProgress, ResultKnown,
         UsbKept, Mine, Kinds, Threads, Semaphores, TaskKinds,
         BeforeTask, Creating, Undoing, InService, OpenSteps, Errors,
         instVars, taskVars, objVars
<1>1. ASSUME NEW simulate \in BOOLEAN, Load(simulate) PROVE LifecycleInv'
  <2>1. TypeOK'
    BY <1>0, <1>1
  <2>2. AliveIsHeld'
    BY <1>1 DEF Load
  <2>3. TaskDeletedOnce'
    BY <1>1 DEF Load
  <2>4. TaskProgress'
    BY <1>1 DEF Load
  <2>5. ResultKnown'
    <3>1. at' = "sentinel" /\ rc' = "SUCCESS"
      BY <1>1 DEF Load
    <3>. QED
      BY <3>1
  <2>6. UsbKept'
    BY <1>1 DEF Load
  <2>. QED
    BY <2>1, <2>2, <2>3, <2>4, <2>5, <2>6
<1>2. CASE CheckSentinel
  BY <1>2 DEF CheckSentinel, Check
<1>3. CASE Synchronize
  BY <1>3 DEF Synchronize, Check
<1>4. CASE FindDevice
  BY <1>4 DEF FindDevice, Check
<1>5. CASE OpenDevice
  <2>1. TypeOK'
    BY <1>5 DEF OpenDevice, Create, CreateFails
  <2>2. AliveIsHeld'
    <3>1. CASE Create("device")
      BY <1>5, <3>1 DEF OpenDevice, Create
    <3>2. CASE CreateFails("device", "bad")
      <4>1. /\ alive' = alive /\ loads' = loads /\ Mine("device") \notin alive
            /\ \A k \in Kinds \ {"device"} : handle'[k] = handle[k]
            /\ at' = "describe"
        BY <1>5, <3>2 DEF OpenDevice, CreateFails
      <4>. QED
        BY <1>5, <4>1 DEF OpenDevice
    <3>. QED
      BY <1>5, <3>1, <3>2 DEF OpenDevice
  <2>3. TaskDeletedOnce'
    <3>1. \A k \in TaskKinds : handle'[k] = handle[k] /\ deletes' = deletes
      BY <1>5 DEF OpenDevice, Create, CreateFails
    <3>. QED
      BY <1>5, <3>1 DEF OpenDevice
  <2>4. TaskProgress'
    BY <1>5 DEF OpenDevice, Create, CreateFails
  <2>5. ResultKnown'
    BY <1>5 DEF OpenDevice, Create, CreateFails
  <2>6. UsbKept'
    BY <1>5 DEF OpenDevice, Create, CreateFails
  <2>. QED
    BY <2>1, <2>2, <2>3, <2>4, <2>5, <2>6
<1>6. CASE Describe
  BY <1>6 DEF Describe
<1>7. CASE InitAdapter
  BY <1>7 DEF InitAdapter
<1>8. CASE CreateUsbThread
  BY <1>8 DEF CreateUsbThread, Create, CreateFails
<1>9. CASE CheckUiotSentinel
  BY <1>9 DEF CheckUiotSentinel
<1>10. CASE TestDpr
  BY <1>10 DEF TestDpr, Check
<1>11. CASE CreatePend
  BY <1>11 DEF CreatePend, NewSemaphore, Create, CreateFails
<1>12. CASE CreateDone
  BY <1>12 DEF CreateDone, NewSemaphore, Create, CreateFails
<1>13. CASE CreateTaskSem
  BY <1>13 DEF CreateTaskSem, NewSemaphore, Create, CreateFails
<1>14. CASE CreateTask
  BY <1>14 DEF CreateTask, Create, CreateFails
<1>15. CASE LookAtBusy
  <2>1. TypeOK'
    BY <1>15 DEF LookAtBusy, LooksAfter
  <2>2. AliveIsHeld'
    BY <1>15 DEF LookAtBusy, LooksAfter
  <2>3. TaskDeletedOnce'
    BY <1>15 DEF LookAtBusy, LooksAfter
  <2>4. TaskProgress'
    BY <1>15 DEF LookAtBusy, LooksAfter
  <2>5. ResultKnown'
    BY <1>15 DEF LookAtBusy, LooksAfter
  <2>6. UsbKept'
    BY <1>15 DEF LookAtBusy, LooksAfter
  <2>. QED
    BY <2>1, <2>2, <2>3, <2>4, <2>5, <2>6
<1>16. CASE UndoThread
  BY <1>16 DEF UndoThread, DeleteVLCThread, Delete, Zeroed
<1>17. CASE UndoTask
  BY <1>17 DEF UndoTask, DeleteBackgroundTask, Delete, Zeroed
<1>18. CASE Return
  BY <1>18 DEF Return
<1>19. CASE GiveUp
  BY <1>19 DEF GiveUp
<1>20. CASE OnLine
  BY <1>20 DEF OnLine
<1>21. CASE OffLine
  <2>1. TypeOK'
    BY <1>21 DEF OffLine, Delete
  <2>2. AliveIsHeld'
    BY <1>21 DEF OffLine, Delete
  <2>3. TaskDeletedOnce'
    BY <1>21 DEF OffLine, Delete
  <2>4. TaskProgress'
    BY <1>21 DEF OffLine, Delete
  <2>5. ResultKnown'
    BY <1>21 DEF OffLine, Delete
  <2>6. UsbKept'
    BY <1>21 DEF OffLine, Delete
  <2>. QED
    BY <2>1, <2>2, <2>3, <2>4, <2>5, <2>6
<1>22. CASE CloseDevice
  BY <1>22 DEF CloseDevice, Delete
<1>23. CASE Close
  BY <1>23 DEF Close, Delete, Zeroed
<1>24. ASSUME NEW load \in 1..MaxLoads, UsbThreadExit(load) PROVE LifecycleInv'
  BY <1>24 DEF UsbThreadExit
<1>25. ASSUME NEW load \in 1..MaxLoads, TaskExit(load) PROVE LifecycleInv'
  BY <1>25 DEF TaskExit
<1>26. CASE UNCHANGED vars
  BY <1>26 DEF vars
<1>. QED
  BY <1>1, <1>2, <1>3, <1>4, <1>5, <1>6, <1>7, <1>8, <1>9, <1>10, <1>11, <1>12, <1>13, <1>14, <1>15, <1>16, <1>17, <1>18, <1>19, <1>20, <1>21, <1>22, <1>23, <1>24, <1>25, <1>26 DEF Next, RtOpen

-----------------------------------------------------------------------------
(* The theorems.                                                           *)

\* The inductive invariant of LOAD and UNLOAD, whatever call fails and however often
\* the driver is loaded.
THEOREM LifecycleInvariant == Spec => []LifecycleInv
BY LifecycleInit, LifecycleStep, PTL DEF Spec

\* Types, which the invariant includes.
THEOREM TypeCorrect == Spec => []TypeOK
<1>1. LifecycleInv => TypeOK
  BY DEF LifecycleInv
<1>. QED
  BY <1>1, LifecycleInvariant, PTL

\* A LOAD PROJECT that fails leaves no task, no semaphore and no handle of one: when
\* rtOpen returns an error, CreateBackgroundTask has not begun, or has undone all.
THEOREM FailedOpenIsUndone == Spec => []FailedOpenLeavesNoTask
<1>1. LifecycleInv => FailedOpenLeavesNoTask
  BY DEF LifecycleInv, AliveIsHeld, TaskProgress, ResultKnown, FailedOpenLeavesNoTask,
         TaskKinds, Kinds, Threads, Undoing
<1>. QED
  BY <1>1, LifecycleInvariant, PTL

\* No object is deleted twice: neither by the two clean-ups of a failing LOAD PROJECT,
\* nor by UNLOAD PROJECT after them, nor by STOP PROJECT and UNLOAD PROJECT.
THEOREM NothingDeletedTwice == Spec => []DeletedOnce
<1>1. LifecycleInv => DeletedOnce
  <2>. SUFFICES ASSUME LifecycleInv, NEW k \in Kinds PROVE deletes[k] <= 1
    BY DEF DeletedOnce
  <2>1. k \in TaskKinds \/ k \in {"usbThread", "device"}
    BY DEF Kinds, Threads, TaskKinds
  <2>. QED
    BY <2>1 DEF LifecycleInv, TaskDeletedOnce, UsbKept
<1>. QED
  BY <1>1, LifecycleInvariant, PTL

\* The result of a rtOpen that created the USB thread is never SUCCESS: a driver in
\* service has no USB thread of its own.
NoUsbThreadInService == at \in InService => Mine("usbThread") \notin alive

\* Whatever the order of LOAD, START, STOP and UNLOAD PROJECT.
THEOREM ServiceWithoutUsbThread == Spec => []NoUsbThreadInService
<1>1. LifecycleInv => NoUsbThreadInService
  BY DEF LifecycleInv, AliveIsHeld, ResultKnown, UsbKept, NoUsbThreadInService, Kinds,
         Threads
<1>. QED
  BY <1>1, LifecycleInvariant, PTL
=============================================================================
