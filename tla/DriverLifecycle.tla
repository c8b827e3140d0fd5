--------------------------- MODULE DriverLifecycle ---------------------------
(***************************************************************************)
(* LOAD and UNLOAD of the driver: rtOpen and rtClose (Runtime/niUsbGpib.c),  *)
(* CreateBackgroundTask and DeleteBackgroundTask (Runtime/task.c),           *)
(* CreateVLCThread and DeleteVLCThread (Runtime/auxrut.c).                   *)
(*                                                                         *)
(* Every call to the operating system or to the USB stack may fail, and     *)
(* what rtOpen does next depends on which one did.  The module follows the  *)
(* kernel objects these calls create (device, threads, semaphores) and the  *)
(* handles the driver keeps of them.  Every LOAD works on a fresh           *)
(* DRIVER_INST; what an earlier one left behind stays alive.                *)
(***************************************************************************)
EXTENDS Naturals

CONSTANTS
  MaxLoads,  \* LOAD PROJECTs that are tried
  MaxLooks   \* looks at bBusy in CreateVLCThread, 1000 in the code

ASSUME LifecycleAssumption == MaxLoads \in Nat \ {0} /\ MaxLooks \in Nat \ {0}

VARIABLES
  at,            \* where the engine thread is
  rc,            \* rc of rtOpen
  bSimulate,     \* the project runs without the card
  loads,         \* LOAD PROJECTs so far; numbers the instances
  handle,        \* handle[k]: what the present instance keeps of its object of kind k
  alive,         \* the objects that exist: <<kind, load>>
  deletes,       \* delete calls made on the present instance's object of each kind
  bBusy, looks,  \* pTask->bBusy, WaitCnt
  online         \* loads whose usbdata->online is set

vars == <<at, rc, bSimulate, loads, handle, alive, deletes, bBusy, looks, online>>

Threads    == {"usbThread", "task"}
Semaphores == {"pendSem", "doneSem", "taskSem"}
Kinds      == Threads \cup Semaphores \cup {"device"}

Errors == {"FAILURE", "ALIGNMENT", "TASK_TIMEOUT", "CREATE_TASK", "CREATE_SEMAPHORE"}

OpenSteps == {"sentinel", "synchronize", "find", "openDevice", "describe", "init",
              "usbThread", "sentinel2", "dpr", "pendSem", "doneSem", "taskSem", "task",
              "look", "deleteThread", "deleteTask", "return"}

TypeOK ==
  /\ at \in OpenSteps \cup {"unloaded", "failed", "loaded", "running", "closing"}
  /\ rc \in Errors \cup {"SUCCESS"}
  /\ bSimulate \in BOOLEAN
  /\ loads \in 0..MaxLoads
  /\ handle \in [Kinds -> {"null", "bad", "set"}]
  /\ alive \subseteq Kinds \X (1..MaxLoads)
  /\ deletes \in [Kinds -> 0..2]
  /\ bBusy \in BOOLEAN /\ looks \in 0..MaxLooks
  /\ online \subseteq 1..MaxLoads

Init ==
  /\ at = "unloaded" /\ rc = "SUCCESS" /\ bSimulate = FALSE /\ loads = 0
  /\ handle = [k \in Kinds |-> "null"] /\ alive = {}
  /\ deletes = [k \in Kinds |-> 0]
  /\ bBusy = FALSE /\ looks = 0 /\ online = {}

-----------------------------------------------------------------------------
(* Objects and handles.                                                    *)

taskVars == <<bBusy, looks>>
objVars  == <<handle, alive, deletes>>
instVars == <<bSimulate, loads>>

Mine(k) == <<k, loads>>

\* A create call that succeeds, or one that leaves a handle that names nothing.
Create(k) ==
  /\ handle' = [handle EXCEPT ![k] = "set"]
  /\ alive' = alive \cup {Mine(k)}
  /\ UNCHANGED deletes

CreateFails(k, value) ==
  /\ handle' = [handle EXCEPT ![k] = value]
  /\ UNCHANGED <<alive, deletes>>

\* Delete calls on all handles of a set of kinds, which then become what
\* "after" says.  A handle that names nothing is refused by the call.
Delete(kinds, after) ==
  /\ alive' = alive \ {Mine(k) : k \in {j \in kinds : handle[j] = "set"}}
  /\ deletes' = [k \in Kinds |-> IF k \in kinds /\ handle[k] = "set" THEN deletes[k] + 1
                                                                   ELSE deletes[k]]
  /\ handle' = [k \in Kinds |-> IF k \in kinds THEN after[k] ELSE handle[k]]

\* DeleteSemaphore and DeleteVLCThread set their handles to zero.
Zeroed_Kept == handle
Zeroed      == [k \in Kinds |-> "null"]

\* DeleteVLCThread, and DeleteBackgroundTask that starts with it.
DeleteVLCThread ==
  Delete({"task", "taskSem"}, Zeroed)

DeleteBackgroundTask_KeepsDone ==
  Delete({"task", "taskSem", "pendSem"}, Zeroed)
DeleteBackgroundTask ==
  Delete({"task", "taskSem", "pendSem", "doneSem"}, Zeroed)

-----------------------------------------------------------------------------
(* rtOpen.                                                                 *)

\* One call of rtOpen that may fail: on to "next", or out with an error code.
Check(here, next, error) ==
  /\ at = here
  /\ \/ at' = next /\ UNCHANGED rc
     \/ at' = "return" /\ rc' = error
  /\ UNCHANGED <<instVars, objVars, taskVars, online>>

\* LOAD PROJECT: a DRIVER_INST as the project's compiler made it.
Load(simulate) ==
  /\ at = "unloaded" /\ loads < MaxLoads
  /\ at' = "sentinel" /\ rc' = "SUCCESS"
  /\ bSimulate' = simulate /\ loads' = loads + 1
  /\ handle' = [k \in Kinds |-> "null"] /\ deletes' = [k \in Kinds |-> 0]
  /\ bBusy' = FALSE /\ looks' = 0
  /\ UNCHANGED <<alive, online>>

CheckSentinel == Check("sentinel", "synchronize", "ALIGNMENT")
Synchronize   == Check("synchronize", "find", "FAILURE")

\* UsbFindFirstDevice, UsbFindNextDevice; then the allocation of usb_data, whose
\* failure returns at once.
FindDevice == Check("find", "openDevice", "FAILURE")

\* A failure here, or of the descriptor calls, is noted in rc and rtOpen goes on.
OpenDevice ==
  /\ at = "openDevice" /\ at' = "describe"
  /\ \/ Create("device") /\ UNCHANGED rc
     \/ CreateFails("device", "bad") /\ rc' = "FAILURE"
  /\ UNCHANGED <<instVars, taskVars, online>>

Describe ==
  /\ at = "describe" /\ at' = "init"
  /\ rc' \in {rc, "FAILURE"}
  /\ UNCHANGED <<instVars, objVars, taskVars, online>>

\* ni_usb_hs_wait_for_ready to iblines: their results are ignored.  ibrsc() sets
\* usbdata->online when its register write is not refused.
InitAdapter ==
  /\ at = "init" /\ at' = "usbThread"
  /\ online' \in {online, online \cup {loads}}
  /\ UNCHANGED <<rc, instVars, objVars, taskVars>>

\* CreateRtThread( usb_thread ): it is the success that sets rc.
CreateUsbThread ==
  /\ at = "usbThread" /\ at' = "sentinel2"
  /\ \/ Create("usbThread") /\ rc' = "TASK_TIMEOUT"
     \/ CreateFails("usbThread", "bad") /\ UNCHANGED rc
  /\ UNCHANGED <<instVars, taskVars, online>>

\* What follows the USB part is done only while rc is SUCCESS.
CheckUiotSentinel ==
  /\ at = "sentinel2"
  /\ \/ rc = "SUCCESS" /\ at' = (IF bSimulate THEN "return" ELSE "dpr") /\ UNCHANGED rc
     \/ rc = "SUCCESS" /\ at' = "return" /\ rc' = "ALIGNMENT"
     \/ rc # "SUCCESS" /\ at' = "return" /\ UNCHANGED rc
  /\ UNCHANGED <<instVars, objVars, taskVars, online>>

TestDpr == Check("dpr", "pendSem", "FAILURE")

\* CreateSemaphore zeroes the handle when it fails.
NewSemaphore(k, next, onError) ==
  /\ at = k
  /\ \/ Create(k) /\ at' = next /\ UNCHANGED rc
     \/ CreateFails(k, "null") /\ at' = onError /\ rc' = "CREATE_SEMAPHORE"
  /\ UNCHANGED <<instVars, taskVars, online>>

CreatePend    == NewSemaphore("pendSem", "doneSem", "deleteTask")
CreateDone    == NewSemaphore("doneSem", "taskSem", "deleteTask")
CreateTaskSem == NewSemaphore("taskSem", "task", "deleteThread")

\* CreateVLCThread: the task is told to start in DetectUsbPlug.
CreateTask ==
  /\ at = "task"
  /\ bBusy' = TRUE
  /\ \/ /\ Create("task")
        /\ looks' = MaxLooks /\ at' = "look" /\ UNCHANGED rc
     \/ /\ CreateFails("task", "bad")
        /\ at' = "deleteThread" /\ rc' = "CREATE_TASK" /\ UNCHANGED looks
  /\ UNCHANGED <<instVars, online>>

LooksAfter_Forever == looks
LooksAfter         == looks - 1

\* while( pTask->bBusy && --WaitCnt ).  bBusy is cleared by BackgroundTask only, and
\* the created task never gets there.
LookAtBusy ==
  /\ at = "look"
  /\ looks' = (IF bBusy THEN LooksAfter ELSE looks)
  /\ at' = (IF ~bBusy THEN "return" ELSE IF looks' = 0 THEN "deleteThread" ELSE "look")
  /\ rc' = (IF at' = "deleteThread" THEN "TASK_TIMEOUT" ELSE rc)
  /\ UNCHANGED <<instVars, objVars, bBusy, online>>

\* CreateVLCThread cleans up, then CreateBackgroundTask does.
UndoThread ==
  /\ at = "deleteThread" /\ at' = "deleteTask"
  /\ DeleteVLCThread
  /\ UNCHANGED <<rc, instVars, taskVars, online>>

UndoTask ==
  /\ at = "deleteTask" /\ at' = "return"
  /\ DeleteBackgroundTask
  /\ UNCHANGED <<rc, instVars, taskVars, online>>

Return ==
  /\ at = "return"
  /\ at' = IF rc = "SUCCESS" THEN "loaded" ELSE "failed"
  /\ UNCHANGED <<rc, instVars, objVars, taskVars, online>>

\* The engine does not call rtClose for an instance whose rtOpen failed.
GiveUp ==
  /\ at = "failed" /\ at' = "unloaded"
  /\ UNCHANGED <<rc, instVars, objVars, taskVars, online>>

-----------------------------------------------------------------------------
(* START, STOP and UNLOAD, the USB thread.                                 *)

OnLine ==
  /\ at = "loaded" /\ at' = "running"
  /\ UNCHANGED <<rc, instVars, objVars, taskVars, online>>

\* rtOffLine deletes the USB thread and keeps its handle.
OffLine ==
  /\ at = "running" /\ at' = "loaded"
  /\ Delete({"usbThread"}, handle)
  /\ UNCHANGED <<rc, instVars, taskVars, online>>

\* rtClose: the device goes first, ...
CloseDevice ==
  /\ at = "loaded" /\ at' = "closing"
  /\ Delete({"device"}, handle)
  /\ UNCHANGED <<rc, instVars, taskVars, online>>

\* ... then the USB thread and, unless simulating, the background task.
Close ==
  /\ at = "closing" /\ at' = "unloaded"
  /\ Delete({"usbThread"} \cup (IF bSimulate THEN {} ELSE {"task", "taskSem", "pendSem", "doneSem"}),
            [Zeroed EXCEPT !["usbThread"] = handle["usbThread"]])
  /\ UNCHANGED <<rc, instVars, taskVars, online>>

\* usb_thread leaves its loop when it finds its usbdata not online.
UsbThreadExit(load) ==
  /\ <<"usbThread", load>> \in alive /\ load \notin online
  /\ alive' = alive \ {<<"usbThread", load>>}
  /\ UNCHANGED <<at, rc, instVars, handle, deletes, taskVars, online>>

\* DetectUsbPlug returns when UsbEventsWithCallback gives up waiting for events.
TaskExit(load) ==
  /\ <<"task", load>> \in alive
  /\ alive' = alive \ {<<"task", load>>}
  /\ UNCHANGED <<at, rc, instVars, handle, deletes, taskVars, online>>

RtOpen ==
  \/ CheckSentinel \/ Synchronize \/ FindDevice \/ OpenDevice \/ Describe \/ InitAdapter
  \/ CreateUsbThread \/ CheckUiotSentinel \/ TestDpr \/ CreatePend \/ CreateDone
  \/ CreateTaskSem \/ CreateTask \/ LookAtBusy \/ UndoThread \/ UndoTask \/ Return

Next ==
  \/ \E simulate \in BOOLEAN : Load(simulate)
  \/ RtOpen \/ GiveUp \/ OnLine \/ OffLine \/ CloseDevice \/ Close
  \/ \E load \in 1..MaxLoads : UsbThreadExit(load) \/ TaskExit(load)

Spec     == Init /\ [][Next]_vars
FairSpec == Spec /\ WF_vars(RtOpen)

-----------------------------------------------------------------------------
(* Properties.                                                             *)

\* Whichever call fails, a LOAD PROJECT that fails leaves no task and no semaphore
\* of this instance behind, and no handle of one: the clean-up of CreateVLCThread
\* and of CreateBackgroundTask, nested, together undo what was done.
FailedOpenLeavesNoTask ==
  at = "failed" =>
    \A k \in Semaphores \cup {"task"} : Mine(k) \notin alive /\ handle[k] = "null"

\* Of the instance that is loaded, every object is deleted once at most, although
\* a failing CreateVLCThread runs DeleteVLCThread and then its caller runs it again,
\* and although UNLOAD PROJECT deletes what STOP PROJECT deleted before.
DeletedOnce == \A k \in Kinds : deletes[k] <= 1

\* rtOpen returns to the engine whatever fails, and whether or not the task it
\* waits for ever reports that it is initialised.
OpenReturns == at \in OpenSteps ~> at \in {"loaded", "failed"}

\* rtClose is not called after a failed rtOpen, which therefore has to release the
\* device and the USB thread itself.
FailedOpenReleases ==
  at = "failed" => Mine("device") \notin alive /\ Mine("usbThread") \notin alive
=============================================================================
