--------------------------- MODULE AsyncFunctions ---------------------------
(***************************************************************************)
(* Asynchronous special functions of the driver: Runtime/task.c together    *)
(* with the entry points of Runtime/niUsbGpib.c that drive it.              *)
(*                                                                         *)
(* Two threads share the state.  The VLC engine thread calls the entry      *)
(* points (rtOnLine, rtInput, rtSpecial, rtOutput, rtOffLine, rtReload); it *)
(* posts SPECIAL_INST blocks on the Pend list and flushes the Done list.    *)
(* BackgroundTask waits on its binary semaphore, takes blocks off Pend one  *)
(* by one, executes them and appends them to Done.                          *)
(*                                                                         *)
(* A list operation (LinkFunction, UnlinkFirstFunction, InitLinkedList) is  *)
(* one step: it runs under the list's semaphore, and module FunctionList    *)
(* shows that the pointer code behind it is such a step.  VerifyDoneList    *)
(* keeps Done.Semaphore over several operations, which is the control       *)
(* point "deliver".  Everything outside the list semaphores is a step of    *)
(* its own, as fine as the other thread can see.                            *)
(***************************************************************************)
EXTENDS Naturals, Sequences

CONSTANTS
  Blocks,             \* the SPECIAL_INST blocks of the project's flowcharts
  NoBlock,            \* NULL
  Calls,              \* the parameter blocks the flowcharts post, by what they ask for
  CmdLength,          \* WLength of a COMMAND: the bytes DoCommand copies, one a second
  MaxTries,           \* looks WaitForAllFunctionCompletion takes, 30 in the code
  ReloadAfterTimeout  \* TRUE: LOAD PROJECT may follow a STOP PROJECT that timed out

\* FunctionIds rtSpecial hands to Pend(); BAD_COMMAND is a DRVF_COMMAND whose
\* parameters fail the checks DoCommand makes first.
AsyncCalls == {"COMMAND", "BAD_COMMAND", "READ_GPIB", "SET_RSV", "CLEAR_TXRX"}

ASSUME BlocksAssumption == NoBlock \notin Blocks
ASSUME CallsAssumption  == Calls \subseteq AsyncCalls
ASSUME BoundsAssumption == CmdLength \in Nat \ {0} /\ MaxTries \in Nat
ASSUME ReloadAssumption == ReloadAfterTimeout \in BOOLEAN

VARIABLES
  \* engine thread
  eng,        \* where the engine thread is
  caller,     \* the entry point VerifyDoneList returns to
  posting,    \* the block Pend() is appending
  tries,      \* Cnt of WaitForAllFunctionCompletion
  offRc,      \* what the last rtOffLine returned
  goOffLine,  \* pNet->bGoOffLine
  \* the two lists and the task's semaphore
  pend, done, sem,
  \* background thread
  bg,         \* where BackgroundTask is
  cur,        \* pData
  bEmpty,     \* its local bEmpty
  bBusy,      \* pTask->bBusy
  n,          \* bytes the running COMMAND has copied
  \* the blocks, and the words of the project they point to
  Busy, Status, Work,
  pStatus,    \* *pStatus of the block, as the flowchart sees it
  pResult     \* *pResult: "Unset" from the call until the driver stores to it

engineVars == <<eng, caller, posting, tries, offRc, goOffLine>>
listVars   == <<pend, done, sem>>
taskVars   == <<bg, cur, bEmpty, bBusy, n>>
blockVars  == <<Busy, Status, Work, pStatus, pResult>>
vars       == <<engineVars, listVars, taskVars, blockVars>>

EngineSteps == {"stopped", "online", "verify", "lockDone", "deliver", "user", "link",
                "kick", "return", "waitPend", "waitBusy", "reloadDone"}
TaskSteps   == {"idle", "wait", "woken", "unlink", "check", "run", "linkDone", "assertFailed"}
FnStatus    == {"BUSY", "OK", "WRONGPARAM"}
UserStatus  == FnStatus \cup {"NONE", "ABORTED"}
Results     == {"Unset", "SUCCESS", "TIMEOUT", "ERROR", "COUNT"}

TypeOK ==
  /\ eng \in EngineSteps
  /\ caller \in {"rtInput", "rtOffLine"}
  /\ posting \in Blocks \cup {NoBlock}
  /\ tries \in 0..MaxTries
  /\ offRc \in {"SUCCESS", "OFFLINE_TIMEOUT"}
  /\ goOffLine \in BOOLEAN
  /\ pend \in Seq(Blocks)
  /\ done \in Seq(Blocks)
  /\ sem \in {0, 1}
  /\ bg \in TaskSteps
  /\ cur \in Blocks \cup {NoBlock}
  /\ bEmpty \in BOOLEAN
  /\ bBusy \in BOOLEAN
  /\ n \in 0..CmdLength
  /\ Busy \in [Blocks -> {"NOTBUSY", "BUSY", "ABORT"}]
  /\ Status \in [Blocks -> FnStatus]
  /\ Work \in [Blocks -> AsyncCalls \cup {"NONE"}]
  /\ pStatus \in [Blocks -> UserStatus]
  /\ pResult \in [Blocks -> Results]

\* rtOpen and CreateBackgroundTask have returned: the lists are empty, the task
\* has cleared bBusy and waits on its drained semaphore.
Init ==
  /\ eng = "stopped" /\ caller = "rtOffLine" /\ posting = NoBlock
  /\ tries = 0 /\ offRc = "SUCCESS" /\ goOffLine = FALSE
  /\ pend = <<>> /\ done = <<>> /\ sem = 0
  /\ bg = "wait" /\ cur = NoBlock /\ bEmpty = TRUE /\ bBusy = FALSE /\ n = 0
  /\ Busy = [b \in Blocks |-> "NOTBUSY"]
  /\ Status = [b \in Blocks |-> "BUSY"]
  /\ Work = [b \in Blocks |-> "NONE"]
  /\ pStatus = [b \in Blocks |-> "NONE"]
  /\ pResult = [b \in Blocks |-> "Unset"]

-----------------------------------------------------------------------------
(* The engine thread.                                                      *)

GoTo(step) == eng' = step

\* Pend(): a block is accepted only when its previous run has been flushed.
MayAccept_NotRunning(b) == Busy[b] # "BUSY"
MayAccept(b)            == Busy[b] = "NOTBUSY"

\* LinkFunction()'s count after the append decides whether the task is kicked.
KickNeeded_Later(count)  == count > 1
KickNeeded_Always(count) == TRUE
KickNeeded(count)        == count = 1

\* The first half of a look of WaitForAllFunctionCompletion, at Pend.uCounter.
PendLooksEmpty_Unread == TRUE
PendLooksEmpty        == pend = <<>>

\* VerifyDoneList() tells the flowchart only about blocks it did not re-post.
ShowStatus_Always(b) == TRUE
ShowStatus(b)        == Busy[b] = "BUSY"

\* rtOnLine: START PROJECT.
OnLine ==
  /\ eng = "stopped" /\ GoTo("online")
  /\ goOffLine' = FALSE
  /\ UNCHANGED <<caller, posting, tries, offRc, listVars, taskVars, blockVars>>

\* rtInput opens a scan cycle and runs VerifyDoneList; GpibsStatusUpdate returns
\* before it does anything (Card.c:527).
Input ==
  /\ eng = "online" /\ GoTo("verify")
  /\ caller' = "rtInput"
  /\ UNCHANGED <<posting, tries, offRc, goOffLine, listVars, taskVars, blockVars>>

\* rtSpecial -> Pend(): the block is free; it is marked and its parameters are
\* copied from User to Work.  The flowchart has reset its result word before.
PostAccept(b, call) ==
  /\ eng = "user" /\ MayAccept(b)
  /\ Busy' = [Busy EXCEPT ![b] = "BUSY"]
  /\ Status' = [Status EXCEPT ![b] = "BUSY"]
  /\ Work' = [Work EXCEPT ![b] = call]
  /\ pResult' = [pResult EXCEPT ![b] = "Unset"]
  /\ posting' = b /\ GoTo("link")
  /\ UNCHANGED <<caller, tries, offRc, goOffLine, listVars, taskVars, pStatus>>

\* rtSpecial -> Pend(): the block is still in use; it is spoiled, and the
\* flowchart is told.
PostReject_Overwrite(b, call) ==
  /\ eng = "user" /\ ~MayAccept(b)
  /\ Busy' = [Busy EXCEPT ![b] = "ABORT"]
  /\ Work' = [Work EXCEPT ![b] = call]
  /\ pStatus' = [pStatus EXCEPT ![b] = "ABORTED"]
  /\ UNCHANGED <<engineVars, listVars, taskVars, Status, pResult>>

PostReject_SaysBusy(b, call) ==
  /\ eng = "user" /\ ~MayAccept(b)
  /\ Busy' = [Busy EXCEPT ![b] = "ABORT"]
  /\ pStatus' = [pStatus EXCEPT ![b] = "BUSY"]
  /\ UNCHANGED <<engineVars, listVars, taskVars, Status, Work, pResult>>

PostReject(b, call) ==
  /\ eng = "user" /\ ~MayAccept(b)
  /\ Busy' = [Busy EXCEPT ![b] = "ABORT"]
  /\ pStatus' = [pStatus EXCEPT ![b] = "ABORTED"]
  /\ UNCHANGED <<engineVars, listVars, taskVars, Status, Work, pResult>>

\* Pend() -> LinkFunction().
LinkPend ==
  /\ eng = "link"
  /\ pend' = Append(pend, posting)
  /\ GoTo(IF KickNeeded(Len(pend')) THEN "kick" ELSE "return")
  /\ UNCHANGED <<caller, posting, tries, offRc, goOffLine, done, sem, taskVars, blockVars>>

\* Pend() -> Kick(): the semaphore's maximum is one unit.
KickTask ==
  /\ eng = "kick" /\ GoTo("return")
  /\ sem' = 1
  /\ UNCHANGED <<caller, posting, tries, offRc, goOffLine, pend, done, taskVars, blockVars>>

\* The end of rtSpecial: what Pend() returned is stored in the flowchart's word.
ReturnBusy ==
  /\ eng = "return" /\ GoTo("user")
  /\ pStatus' = [pStatus EXCEPT ![posting] = "BUSY"]
  /\ posting' = NoBlock
  /\ UNCHANGED <<caller, tries, offRc, goOffLine, listVars, taskVars,
                 Busy, Status, Work, pResult>>

\* rtOutput closes the scan cycle.
Output ==
  /\ eng = "user" /\ GoTo("online")
  /\ UNCHANGED <<caller, posting, tries, offRc, goOffLine, listVars, taskVars, blockVars>>

\* rtOffLine: STOP PROJECT, up to the call of WaitForAllFunctionCompletion.
OffLine ==
  /\ eng = "online" /\ GoTo("waitPend")
  /\ goOffLine' = TRUE /\ tries' = MaxTries
  /\ UNCHANGED <<caller, posting, offRc, listVars, taskVars, blockVars>>

\* WaitForAllFunctionCompletion leaves its loop with rc and flushes Done.
LeaveWait(rc) ==
  /\ offRc' = rc
  /\ caller' = "rtOffLine"
  /\ GoTo("verify")

WaitPend_Forever ==
  /\ eng = "waitPend"
  /\ GoTo(IF PendLooksEmpty THEN "waitBusy" ELSE "waitPend")
  /\ UNCHANGED <<caller, offRc, tries, posting, goOffLine, listVars, taskVars, blockVars>>

\* One look: Cnt runs out, or Pend.uCounter is read, without the semaphore.
WaitPend ==
  /\ eng = "waitPend"
  /\ \/ tries = 0 /\ LeaveWait("OFFLINE_TIMEOUT") /\ UNCHANGED tries
     \/ /\ tries > 0
        /\ tries' = tries - 1
        /\ GoTo(IF PendLooksEmpty THEN "waitBusy" ELSE "waitPend")
        /\ UNCHANGED <<caller, offRc>>
  /\ UNCHANGED <<posting, goOffLine, listVars, taskVars, blockVars>>

\* ... and bBusy, one second's sleep before the next look.
WaitBusy ==
  /\ eng = "waitBusy"
  /\ \/ ~bBusy /\ LeaveWait("SUCCESS")
     \/ bBusy /\ GoTo("waitPend") /\ UNCHANGED <<offRc, caller>>
  /\ UNCHANGED <<posting, tries, goOffLine, listVars, taskVars, blockVars>>

AfterVerify == IF caller = "rtInput" THEN "user" ELSE "stopped"

\* VerifyDoneList: Done.uCounter is read without the semaphore, ...
VerifyCount ==
  /\ eng = "verify"
  /\ GoTo(IF done = <<>> THEN AfterVerify ELSE "lockDone")
  /\ UNCHANGED <<caller, posting, tries, offRc, goOffLine, listVars, taskVars, blockVars>>

\* ... then the semaphore is taken once ...
LockDone ==
  /\ eng = "lockDone" /\ GoTo("deliver")
  /\ UNCHANGED <<caller, posting, tries, offRc, goOffLine, listVars, taskVars, blockVars>>

\* ... for all the blocks: each is unlinked, its status shown (SetReturnStatus:
\* a zero, i.e. BUSY, becomes OK) and the block freed, ...
Deliver ==
  /\ eng = "deliver" /\ done # <<>>
  /\ LET b == Head(done) IN
       /\ pStatus' = IF ShowStatus(b)
                     THEN [pStatus EXCEPT ![b] = IF Status[b] = "BUSY" THEN "OK" ELSE Status[b]]
                     ELSE pStatus
       /\ Busy' = [Busy EXCEPT ![b] = "NOTBUSY"]
  /\ done' = Tail(done)
  /\ UNCHANGED <<engineVars, pend, sem, taskVars, Status, Work, pResult>>

\* ... and the semaphore is given back.
UnlockDone ==
  /\ eng = "deliver" /\ done = <<>> /\ GoTo(AfterVerify)
  /\ UNCHANGED <<caller, posting, tries, offRc, goOffLine, listVars, taskVars, blockVars>>

\* rtReload: LOAD PROJECT initialises Pend ...
ReloadPend ==
  /\ eng = "stopped" /\ GoTo("reloadDone")
  /\ ReloadAfterTimeout \/ offRc = "SUCCESS"
  /\ pend' = <<>>
  /\ UNCHANGED <<caller, posting, tries, offRc, goOffLine, done, sem, taskVars, blockVars>>

\* ... and Done.
ReloadDone ==
  /\ eng = "reloadDone" /\ GoTo("stopped")
  /\ done' = <<>>
  /\ UNCHANGED <<caller, posting, tries, offRc, goOffLine, pend, sem, taskVars, blockVars>>

VerifyDoneList == VerifyCount \/ LockDone \/ Deliver \/ UnlockDone

Special ==
  \/ \E b \in Blocks, call \in Calls : PostAccept(b, call) \/ PostReject(b, call)
  \/ LinkPend \/ KickTask \/ ReturnBusy

WaitForAllFunctionCompletion == WaitPend \/ WaitBusy

Reload == ReloadPend \/ ReloadDone

Engine ==
  \/ OnLine \/ Input \/ VerifyDoneList \/ Special \/ Output
  \/ OffLine \/ WaitForAllFunctionCompletion \/ Reload

-----------------------------------------------------------------------------
(* The background thread: BackgroundTask().                                *)

\* bEmpty after UnlinkFirstFunction(), from the count it returns.
PendDrained_Early(count) == count <= 1
PendDrained(count)       == count = 0

\* bEmpty: tell the world the task can be shut down.
TaskIdle ==
  /\ bg = "idle" /\ bg' = "wait"
  /\ bBusy' = FALSE
  /\ UNCHANGED <<engineVars, listVars, cur, bEmpty, n, blockVars>>

\* Wait( pTask->Semaphore ).
TaskWait ==
  /\ bg = "wait" /\ bg' = "woken"
  /\ sem = 1 /\ sem' = 0
  /\ UNCHANGED <<engineVars, pend, done, cur, bEmpty, bBusy, n, blockVars>>

TaskWoken ==
  /\ bg = "woken" /\ bg' = "unlink"
  /\ bBusy' = TRUE
  /\ UNCHANGED <<engineVars, listVars, cur, bEmpty, n, blockVars>>

\* UnlinkFirstFunction( Pend ); pData is NULL, and the assertion below it fails,
\* when the list is empty.
TaskUnlink ==
  /\ bg = "unlink"
  /\ IF pend = <<>>
     THEN bg' = "assertFailed" /\ bEmpty' = TRUE /\ UNCHANGED <<pend, cur>>
     ELSE /\ bg' = "check"
          /\ cur' = Head(pend) /\ pend' = Tail(pend)
          /\ bEmpty' = PendDrained(Len(pend'))
  /\ UNCHANGED <<engineVars, done, sem, bBusy, n, blockVars>>

\* A block spoiled while it was pending is not executed.
TaskCheck ==
  /\ bg = "check"
  /\ bg' = IF Busy[cur] = "BUSY" THEN "run" ELSE "linkDone"
  /\ n' = 0
  /\ UNCHANGED <<engineVars, listVars, cur, bEmpty, bBusy, blockVars>>

\* The call DoAsyncSpecialFunction() made returns: its result word is stored (or
\* left alone) and the function's Status set.
Complete(status, results) ==
  /\ Status' = [Status EXCEPT ![cur] = status]
  /\ \E r \in results : pResult' = [pResult EXCEPT ![cur] = r]
  /\ bg' = "linkDone"

\* DoCommand() copies a byte a second until it has them all, it times out or the
\* project is being stopped.
CommandCopying_OffByOne == n <= CmdLength /\ ~goOffLine
CommandCopying          == n < CmdLength /\ ~goOffLine

CommandByte ==
  /\ bg = "run" /\ Work[cur] = "COMMAND" /\ CommandCopying
  /\ n' = n + 1
  /\ \/ UNCHANGED <<bg, Status, pResult>>
     \/ Complete("OK", {"TIMEOUT"})
  /\ UNCHANGED <<engineVars, listVars, cur, bEmpty, bBusy, Busy, Work, pStatus>>

CommandEnd ==
  /\ bg = "run" /\ Work[cur] = "COMMAND" /\ ~CommandCopying
  /\ Complete("OK", {"SUCCESS"})
  /\ UNCHANGED <<engineVars, listVars, cur, bEmpty, bBusy, n, Busy, Work, pStatus>>

\* DoCommand() refuses its parameters.
CommandRefused ==
  /\ bg = "run" /\ Work[cur] = "BAD_COMMAND"
  /\ Complete("OK", {"ERROR"})
  /\ UNCHANGED <<engineVars, listVars, cur, bEmpty, bBusy, n, Busy, Work, pStatus>>

\* DoGpibRead(): ni_usb_read() stores the byte count, zero when it fails.
ReadGpib ==
  /\ bg = "run" /\ Work[cur] = "READ_GPIB"
  /\ Complete("OK", {"COUNT"})
  /\ UNCHANGED <<engineVars, listVars, cur, bEmpty, bBusy, n, Busy, Work, pStatus>>

\* DoIbRSVWrite(): the result is assigned to the pointer, not to the word.
SetRsv ==
  /\ bg = "run" /\ Work[cur] = "SET_RSV"
  /\ Complete("OK", {pResult[cur]})
  /\ UNCHANGED <<engineVars, listVars, cur, bEmpty, bBusy, n, Busy, Work, pStatus>>

\* DoAsyncSpecialFunction() has no case for DRVF_CLEAR_TXRX.
NoSuchFunction ==
  /\ bg = "run" /\ Work[cur] = "CLEAR_TXRX"
  /\ Complete("WRONGPARAM", {pResult[cur]})
  /\ UNCHANGED <<engineVars, listVars, cur, bEmpty, bBusy, n, Busy, Work, pStatus>>

DoAsyncSpecialFunction ==
  CommandByte \/ CommandEnd \/ CommandRefused \/ ReadGpib \/ SetRsv \/ NoSuchFunction

\* LinkFunction( Done ), which waits while VerifyDoneList has the semaphore.
TaskLinkDone ==
  /\ bg = "linkDone" /\ eng # "deliver"
  /\ done' = Append(done, cur)
  /\ cur' = NoBlock
  /\ bg' = IF bEmpty THEN "idle" ELSE "unlink"
  /\ UNCHANGED <<engineVars, pend, sem, bEmpty, bBusy, n, blockVars>>

BackgroundTask ==
  \/ TaskIdle \/ TaskWait \/ TaskWoken \/ TaskUnlink \/ TaskCheck
  \/ DoAsyncSpecialFunction \/ TaskLinkDone

-----------------------------------------------------------------------------
Next == Engine \/ BackgroundTask

\* The background thread runs whenever it can.  The engine finishes the entry
\* point it is in, and every scan cycle ends, however many calls it makes; it
\* need never stop, start or reload the project.
Fairness ==
  /\ WF_vars(BackgroundTask)
  /\ WF_vars(VerifyDoneList \/ LinkPend \/ KickTask \/ ReturnBusy
              \/ WaitForAllFunctionCompletion \/ ReloadDone)
  /\ SF_vars(Output)

Spec == Init /\ [][Next]_vars

\* The engine's own steps, with a background thread that may be stuck in a USB call.
StuckTaskSpec ==
  Spec /\ WF_vars(VerifyDoneList \/ WaitForAllFunctionCompletion)

-----------------------------------------------------------------------------
(* Properties.                                                             *)

\* Where a call can be: on a list, in the hands of the task, or of Pend().
OnList(list, b) == \E i \in 1..Len(list) : list[i] = b
NoDuplicate(list) == \A i, j \in 1..Len(list) : list[i] = list[j] => i = j

InTask(b)  == cur = b
InPost(b)  == eng = "link" /\ posting = b
InUse(b)   == OnList(pend, b) \/ OnList(done, b) \/ InTask(b) \/ InPost(b)

\* The task is in, or on its way to, Wait() of its semaphore.
Asleep == \/ bg \in {"idle", "wait"}
          \/ bg \in {"check", "run", "linkDone"} /\ bEmpty

\* A unit of the semaphore that is there, or that Pend() is about to give.
KickPending == sem = 1 \/ eng = "kick"

\* The assertion of BackgroundTask (task.c:134): whenever the task goes to take
\* a block, there is one.
TaskAssertHolds == bg # "assertFailed"

\* The hand-shake between Pend() and BackgroundTask(): a sleeping task is kicked
\* exactly when there is work, a task that is awake always has work ahead, and no
\* second kick is given before the first is used (the semaphore holds one unit).
NoLostWakeup ==
  /\ Asleep => (KickPending <=> pend # <<>>)
  /\ ~Asleep /\ TaskAssertHolds => pend # <<>> /\ ~KickPending
  /\ ~(sem = 1 /\ eng = "kick")

\* No block is linked twice, whatever the flowchart re-posts: a block is on one list
\* once, or with one thread, while it is in use, and nowhere when it can be posted.
LinkedOnce ==
  /\ NoDuplicate(pend) /\ NoDuplicate(done)
  /\ \A b \in Blocks :
       /\ Busy[b] # "NOTBUSY" <=> InUse(b)
       /\ OnList(pend, b) => ~OnList(done, b) /\ ~InTask(b) /\ ~InPost(b)
       /\ OnList(done, b) => ~InTask(b) /\ ~InPost(b)
       /\ InTask(b) => ~InPost(b)

\* A flowchart that sees BUSY waits for a call that is really on its way, and one
\* that sees a final status can post again or has been told ABORTED.
BusyShownIsRunning ==
  \A b \in Blocks :
    /\ pStatus[b] = "BUSY" => Busy[b] = "BUSY"
    /\ pStatus[b] \in {"OK", "WRONGPARAM"} /\ posting # b => Busy[b] = "NOTBUSY"

\* When a flowchart sees OK, the result word is that of this very call: the result
\* is never older than the status (SetReturnStatus: "resynchronizes the result").
OkMeansResult ==
  \A b \in Blocks :
    pStatus[b] = "OK" /\ posting # b /\ Work[b] # "SET_RSV" => pResult[b] # "Unset"

\* After a successful STOP PROJECT nothing is left running or unreported, so that
\* LOAD PROJECT may reset the lists and UNLOAD PROJECT may delete the task.
StoppedMeansQuiet ==
  eng \in {"stopped", "reloadDone"} /\ offRc = "SUCCESS" =>
    /\ pend = <<>> /\ done = <<>> /\ sem = 0
    /\ bg = "wait"
    /\ \A b \in Blocks : Busy[b] = "NOTBUSY" /\ pStatus[b] # "BUSY"

\* A flowchart told ABORTED hears no more of the spoiled call: the late completion
\* never replaces ABORTED, only a new accepted call does.
AbortedStays ==
  [][\A b \in Blocks : pStatus[b] = "ABORTED" /\ pStatus'[b] # "ABORTED"
                          => pStatus'[b] = "BUSY"]_pStatus

\* The parameters the background thread works on do not change under it, although
\* the flowchart may rewrite User and call again at any time (Inc/Driver.h Note4).
WorkStable ==
  [][\A b \in Blocks : Busy[b] # "NOTBUSY" => Work'[b] = Work[b]]_Work

\* As long as the project keeps scanning, every accepted call gets reported.
CompletesWhileScanning ==
  []<>(eng = "user") =>
    \A b \in Blocks : Busy[b] # "NOTBUSY" ~> Busy[b] = "NOTBUSY"

\* The same, as a promise of the two threads to each other: whenever both are scheduled
\* fairly, an accepted call of a scanning project is reported.
CompletesWhenScheduled == Fairness => CompletesWhileScanning

\* STOP PROJECT returns, even when the background thread is stuck.
StopReturns == eng = "waitPend" ~> eng = "stopped"

\* The detailed system implements AsyncService.  Its queue, oldest call first:
InFlight ==
  done \o (IF cur = NoBlock THEN <<>> ELSE <<cur>>)
       \o pend
       \o (IF eng = "link" THEN <<posting>> ELSE <<>>)

Executed(b) == OnList(done, b) \/ (b = cur /\ bg = "linkDone")

Service == INSTANCE AsyncService WITH
  Calls   <- Calls,
  queue   <- InFlight,
  request <- Work,
  outcome <- [b \in Blocks |-> IF ~Executed(b) THEN "PENDING"
                               ELSE IF Status[b] = "BUSY" THEN "SKIPPED"
                               ELSE Status[b]],
  spoiled <- {b \in Blocks : Busy[b] = "ABORT"},
  status  <- [b \in Blocks |-> IF b = posting THEN "BUSY" ELSE pStatus[b]]

\* Calls are executed one at a time and reported once each, in the order in which
\* they were accepted, whatever the interleaving of the two threads.
ImplementsService == Service!Spec

=============================================================================
