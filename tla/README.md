# Formal model of the NiUsbGpib driver

NiUsbGpib is a driver for the VLC/RT soft-PLC: it connects an NI GPIB-USB-HS+
adapter to the flowcharts of a control project. This directory holds TLA+ modules
that model it, TLC configurations that check the modules on small instances, and
proofs, checked by TLAPS, for every size. Every definition is translated from the C
source; `PROJECT.json` maps each one to the lines it stands for.

## The system

The engine loads the driver, calls its entry points, and runs the flowcharts.

| Part | Source | State | Operations |
|---|---|---|---|
| Entry points | `Runtime/niUsbGpib.c` | `DRIVER_INST`: `bSimulate`, `bGoOffLine`, `bFirstCycle`, two lists, the task | `rtOpen`, `rtReload`, `rtOnLine`, `rtInput`, `rtSpecial`, `rtOutput`, `rtOffLine`, `rtClose` |
| Asynchronous functions | `Runtime/task.c` | `Pend` and `Done`, `TASK.bBusy`, `TASK.Semaphore`; in each block `Busy`, `Status`, `Work` | `Pend`, `BackgroundTask`, `DoAsyncSpecialFunction`, `VerifyDoneList`, `WaitForAllFunctionCompletion` |
| Lists, semaphores, threads, ticks | `Runtime/auxrut.c` | `pHead`, `pTail`, `uCounter`, `pNext`; handles | `LinkFunction`, `UnlinkFirstFunction`, `UnlinkFunction`, `CreateVLCThread`, `DeleteVLCThread`, `IsTimeout` |
| Special functions | `Runtime/Card.c` | the words and buffers of the project they point to | `DoCommand`, `DoGpibRead`, `DoGpibWrite`, `DoPadWrite`, `DoIbRSVWrite`, ports, Peek, Poke |
| Adapter protocol | `Runtime/ni_usb_gpib.c` | `usb_data`: pipes, `master`, `ibsta`, EOS mode | register writes, read, write, command, take control, standby, status, initialisation |
| GPIB calls | end of `Runtime/ni_usb_gpib.c` | as above | `ibcac`, `ibcmd`, `ibgts`, `ibrd`, `ibwrt`, `ibsic`, `ibpad`, `ibsad`, `ibrsv2`, ... |
| USB thread | `usb_thread` in `Runtime/niUsbGpib.c` | `usb_data.online` | polls an endpoint, reads the status word |
| GPIB core | `Runtime/sys/*.c`, `Runtime/ibutil.c` | boards, descriptors, status byte and event queues | the linux-gpib core the adapter code comes from; in the tree, not in `Runtime.vcxproj` |
| Configuration program | `Gui/` | the project's configuration | MFC dialogs |

How they interact:

* The **engine thread** calls the entry points one at a time. A scan cycle is
  `rtInput`, any number of `rtSpecial`, `rtOutput`. A slow function is not executed in
  `rtSpecial`: `Pend()` marks the block, copies its parameters from `User` to `Work`,
  appends it to `Pend`, and gives one unit to the task's semaphore if the list held
  nothing before.
* The **background thread** sleeps on that semaphore, takes blocks off `Pend` until the
  count says the list is empty, executes them and appends them to `Done`. The next
  `rtInput` takes `Done` as a whole and shows each status to its flowchart.
* A flowchart may call again with a block that is still in use. The call is refused, the
  old one is *spoiled* (`ABORT`), and its late completion must not be shown.
* `rtOffLine` sets `bGoOffLine`, waits at most 30 seconds for the task to calm down, and
  flushes `Done`. `rtReload` resets the lists and nothing else.
* `rtOpen` is a long sequence of calls, each of which may fail: USB stack, device,
  adapter, USB thread, two list semaphores, task semaphore, task.
* All three threads use one pair of bulk pipes; every request is answered by one packet.

What is hard, and what makes each part correct:

| Part | Hard | Correct when |
|---|---|---|
| Asynchronous functions | a kick only for the first block; `uCounter` and `bBusy` read without a lock; re-posting at any time; STOP during a call; result and status stored by different threads | no kick lost, no block linked twice, a status is never newer than its result, a spoiled call stays silent, a successful STOP leaves nothing, every call completes in order |
| Lists | two threads, five assignments per operation, `pTail` never reset, `bCallerOwnsSemaphore` | a first-in first-out queue with exact counts |
| Life cycle | failure of any of a dozen calls, nested clean-up | a failed LOAD leaves nothing, nothing is deleted twice, LOAD returns |
| USB exchanges | three threads without a lock, late answers after a timeout, requests that are out when their function returns | a call that reports success had its own answer, as long as every request was followed by its receive and none overlapped; every call returns |
| Board control | cached `master` and status against the adapter's, late answers taken for the next ones, another controller on the bus | commands under ATN and once, data in standby, no read refused for its EOS bits |
| GPIB core | bounded queues, the auto-poll thread against ioctls, `ibwait`, counts kept per board and per file and changed without a lock by `ibopen` and `ibclose`, loops over a user's buffer | status bytes in order, requests answered, waiters woken, counts those of the open files, the board lock with who is named as its holder, bytes accounted for |
| Arithmetic | 32-bit tick wrap, `offset + length`, timeout codes, readback blocks | results satisfy what their callers rely on |

`PROJECT.json` lists each hazard at its line, with the properties that cover it.

## The commit that is modelled

Two places of this commit keep the background task from running in a real project:

* `CreateVLCThread` starts `DetectUsbPlug` in place of `taskStub` (`auxrut.c:86-87`),
  although `auxrut.c:29` says "All tasks started by CreateThread use taskStub as an entry
  point." `BackgroundTask` is never entered and `bBusy` never cleared, so the call ends
  in its timeout.
* `rtOpen` treats the *success* of `CreateRtThread( usb_thread )` as a timeout
  (`niUsbGpib.c:541`), so LOAD PROJECT fails whenever the USB thread starts.

`DriverLifecycle` models both as they are. `AsyncFunctions` models `task.c` as written,
from the state in which `CreateBackgroundTask` would have left it: it shows that the
hand-shake is right once the task is started.

## Modules

| Module | Models | Notes |
|---|---|---|
| `FunctionQueue` | what a list promises | a queue; `Put` and `Take` return the count |
| `FunctionList` | `auxrut.c` lists, one step per assignment | implements `FunctionQueue` |
| `AsyncService` | what the asynchronous functions promise | one queue of calls: accept, refuse and spoil, execute in order, report in order |
| `AsyncFunctions` | `task.c` and the entry points that drive it | implements `AsyncService` |
| `DriverLifecycle` | `rtOpen`, `rtClose`, thread and task creation | objects against handles, for successive LOADs |
| `UsbTransfers` | what each exchange function of `ni_usb_gpib.c` makes of an answer | operators, used by the next two |
| `UsbExchange` | the two bulk pipes and the three threads that use them | `Card.c`, `usb_thread` and the functions they call |
| `BoardControl` | the board functions and the start of the adapter, transfer by transfer | one thread; another controller on the bus |
| `GpibEncodings` | lengths, read back blocks, time outs, addresses, ticks, bounds | operators |
| `GpibTransfers` | the loops of IBRD, IBWRT and IBCMD | a recursive function over the interface driver's results |
| `EncodingCalls` | | calls of the operators of both, over bounded inputs, and what the results have to satisfy |
| `GpibQueues` | the queues of status bytes and of events | operators, used by the next two modules |
| `GpibEvents` | the event queue of a board, with IBEVENT | one step per critical section |
| `AutoPoll` | the automatic poll thread, serial polls, IBMUTEX, IBRSP, IBWAIT, IBAUTOSPOLL, IBOPENDEV | one step per critical section |
| `GpibHandles` | files, handles, device counts, module references, board lock | one step per ioctl; `ibopen`, `ibclose` and IBMUTEX in several |
| `MCAsyncFunctions`, `MCAsyncInductive`, `MCFunctionList`, `MCUsbExchange`, `MCBoardControl` | | symmetry sets for TLC; a bound on the threads in a call; kinds of behaviour |
| `MCGpibHandles` | `GpibHandles` and `GpibEvents` together | kinds of behaviour, for TLC |
| `AsyncFunctionsProofs`, `FunctionListProofs`, `DriverLifecycleProofs`, `UsbExchangeProofs`, `BoardControlProofs`, `AutoPollProofs`, `GpibHandlesProofs`, `EncodingCallsProofs` | | inductive invariants, lemmas and theorems about the module of the same name |

**`AsyncFunctions`.** The engine thread is the variable `eng`, the background thread
`bg`; each names a point between two accesses to something the other thread can see.
`pend` and `done` are sequences, because `FunctionList` shows that a list operation is
one step; `sem` is the task's binary semaphore. `VerifyDoneList` keeps `Done.Semaphore`
over its whole loop: that is the control point `deliver`, during which `TaskLinkDone` is
disabled. `Pend()` is `PostAccept` (mark and copy), `LinkPend`, `KickTask`, `ReturnBusy`
(the store of the returned status at the end of `rtSpecial`), or `PostReject`.
`WaitForAllFunctionCompletion` reads `Pend.uCounter` in `WaitPend` and `bBusy` in
`WaitBusy`, so the task may move in between. The functions the task runs are modelled by
how long they last, which result word they store and which status they leave; a
`COMMAND` copies a byte a second and looks at `bGoOffLine` each time. `DoIbRSVWrite`
assigns its result to a pointer, so the model leaves the result word alone. The content
of buffers is left out.

**`AsyncService`** is reached by a refinement mapping: the queue is `done`, the block in
the task's hands, `pend`, and the block being linked, in this order.

**`FunctionList`** has one program counter per thread, and a step for every assignment
to `pHead`, `pTail`, `uCounter` and `pNext`. A thread may take the semaphore itself and
call with `bCallerOwnsSemaphore`. The mapping to `FunctionQueue` follows `pHead` for
`uCounter` blocks.

**`DriverLifecycle`** walks through `rtOpen` with a control point per call that may fail.
`handle` is what the `DRIVER_INST` keeps of each kernel object (nothing, a value that
names nothing, or the object), `alive` the objects that exist, `deletes` the delete calls
made on each. A LOAD starts with a new `DRIVER_INST`; what an earlier one left behind
stays alive. `usb_thread` ends when it finds `online` zero, `DetectUsbPlug` when the USB
stack gives up waiting.

**`UsbTransfers`, `UsbExchange`.** An exchange is one request and one answer. What a
function returns depends on what it checks: a read the id, length and error code of the
answer; a write and a command any answer of twelve bytes; a register write gives zero when
the length is wrong; take control ignores the error code, standby the id as well.
What a send may come to (`Sends`) is how much of the request went out and the status the
stack reports; `GoesOn` is the test each function makes of it, and they differ: a register
write looks at the status, a write and an interface clear at the bytes, the line status goes
on to receive after `-EAGAIN`, the others look at both. Between the request and its answer
each allocates a buffer and returns if there is none.

`UsbExchange` has `out` and `in` as queues, the adapter as an action that answers its
oldest request, and each thread as the chain of transfers its call makes: `ibstatus` is a
control transfer and two line status exchanges. `Send` is a send after which the function
receives, `ReturnsEarly` one after which it returns, by its test or for want of memory, with
the request out or not. `clean` records that no request went out whose answer its function
did not wait for to the end, and no two exchanges overlapped. `usb_thread` compares an
endpoint number it never initialised: `epMatches` is chosen once, either way.

**`BoardControl`** has `drv`, what the driver believes (`master`, the status word it caches,
the EOS mode), and `dev`, what is true of the adapter. An exchange may be refused, executed
with its answer lost or left in the pipe, or answered; a status read that fails yields the
cached word. `behind` is the answer left in the pipe: the next exchange takes it for its own
and leaves its own behind, whatever it was the answer to, since only a read looks at the id.
The two line status exchanges of an `ibstatus` may take it, or leave one of theirs; of answers
that wait, one is kept. What a thread of its own would do to the pipes is in `UsbExchange`.
Where `ibcmd` returns before `ni_usb_command`, it leaves its caller's count unset: `Leave`
makes it either of two values. `trouble` records what has gone wrong in the call, and the
properties say which trouble they exclude. The sign of the USB stack's error codes is not in
the repository and the code asks for "retval < 0", so `usbNegative` is left open. The start of
the adapter in `rtOpen` is a call like the others; nothing looks at its results.

**`GpibEncodings`, `GpibTransfers`, `EncodingCalls`.** Data bytes are stood for by their
positions; what the modules compute are lengths, offsets, codes and counts. `TransferCode` is
the time out code each request carries: a read and a write ask for ten microseconds for each
millisecond of their USB transfer, a command for `usec_timeout`, which is cleared with its
structure and never set, so for none, and a parallel poll for none.

**`AutoPoll`, `GpibHandles`, `GpibEvents`, `GpibQueues`.** The core's files are the linux-gpib
core and are not part of `Runtime.vcxproj`; the adapter code was written against them. Each
critical section of `big_gpib_mutex` is a step, and so is each access without it. The user
library, the devices and the interface driver are external: the library calls IBRSP with the
board lock, which the ioctl's comment asks for.

In `AutoPoll` a status byte is the number of its request. `accepted` are the bytes the thread
has queued and IBRSP has not yet handed over; a byte that finds the queue full or no memory is
never queued, and one that IBRSP has read is lost when its clean-up times out (`FinishOne`).

In `GpibHandles` `pc` says where in `ibopen`, `ibclose` or IBMUTEX a process is. `ibopen` and
`ibclose` hold no lock: their `++` and `--` of `use_count` and `autospollers` are a read into
`seen` and a write, with every other entry possible between. `ibclose` gives back its polls,
cleans up its devices, releases `user_mutex` and gives back the module in four stages. IBMUTEX
locks `user_mutex`, names the holder and marks the file, or checks and clears the name, drops
the mark and releases, in a step each. `useRaced` and `pollRaced` record that a counter was
changed between such a read and its write. Two assumptions remain: the device list, which
`ibclose` changes unlocked as well, is changed in one step, and an ioctl changes a counter in
one step.

## Runs

| Run | Instance | States | What it shows |
|---|---|---|---|
| `async_safety` | 2 blocks, all five kinds of call, COMMAND of 2 bytes, 2 looks at STOP | 358 804 | the safety and action properties of the asynchronous functions, `ImplementsService`, and the inductive invariant `IInv` |
| `async_progress` | 2 blocks, COMMAND, a task that may be stuck for ever | 42 123 | `StopReturns`, `CompletesWhenScheduled` |
| `function_list` | 3 blocks, 2 threads | 95 898 | `ImplementsQueue`, `HeldIsNotLinked` |
| `driver_lifecycle` | 2 LOADs, 3 looks at `bBusy` | 1 963 | clean-up, single deletion, `OpenReturns` |
| `usb_exchange` | 3 threads, 2 at a time, pipes of one packet | 193 076 | `InStep`, `OkWasDone`, `LagStays`, `CallsReturn` |
| `board_control` | a command of two chunks, reads of 2 bytes, 2 polls | 1 892 364 | commands, data, EOS mode, `CallsComeToAnEnd` |
| `encodings` | integers modulo 64, transfers of up to 4 bytes in 3 calls | 174 376 | the conversions and the data ioctls |
| `core_autopoll` | 2 devices, 2 requests, 2 processes, queues of 2 | 216 538 | the automatic poll against its users, `RequestsServed` |
| `core_handles` | 2 processes, 2 handles each, 2 addresses, 2 drivers, 4 events in a queue of 2 | 996 853 | what the board counts, its lock and its events |
| `async_reload_after_timeout` | violation | | LOAD after a timed-out STOP breaks the task's assertion |
| `open_releases` | violation | | a failed LOAD leaves the device open and the USB thread running |
| `lock_release` | violation | | a process releases the board lock of another |

The properties of the asynchronous functions:

* `NoLostWakeup`: a sleeping task has been kicked exactly when there is work; an awake
  one has work ahead and no kick outstanding, so the one unit of the semaphore suffices.
* `TaskAssertHolds`: `assert( pData != NULL )` at `task.c:134` never fails.
* `LinkedOnce`: a block in use is on one list once, or with one thread.
* `BusyShownIsRunning`, `OkMeansResult`: BUSY is shown only for a call on its way, and OK
  never before the result word has been stored for this very call. Blocks of SET_RSV are
  excepted, because the code never stores their result.
* `StoppedMeansQuiet`: after a STOP that reports success the lists are empty, the task
  waits, and no block is in use.
* `AbortedStays`, `WorkStable`: a late completion never replaces ABORTED; parameters in
  use are never rewritten.
* `CompletesWhenScheduled`, `StopReturns`: when both threads are scheduled, an accepted call
  is reported while scanning goes on; STOP returns in any case.

The properties of the adapter's driver:

* `InStep`: as long as `clean` holds, an exchange ends with the answer to its own request.
  Three things end `clean`: a request goes out and its function does not wait (no memory for
  the answer, an error although the request is out), a receive is given up, two exchanges
  overlap. All the other paths keep step, the line status after a failed send included.
* `OkWasDone`: a register write, read or write that is in step and returns 0 was carried
  out without an error; a read hands over data of a read answer only, in step or not.
* `LagStays`: an answer nobody waits for is not removed. After one time out or one overlap the
  driver is an answer behind, until a line status whose own request timed out takes one more.
* `CallsReturn`: no chain of transfers of a thread is endless, even when the adapter is silent.
* `CallsComeToAnEnd`: the same of the board functions, as a measure that each transfer makes
  smaller: `Stage`, the transfers still before the call, and `Rounds`, the rounds its loop may
  still make. A late answer that is not twelve bytes long, and the abort of an earlier read,
  make a round in which nothing is counted, and only one. It needs negative failures: a positive one
  repeats a chunk for ever.
* `CommandBytesOnce`: what `ibcmd` reports is what went out, and no byte goes out twice, unless
  a late answer was taken for a chunk's. Where it leaves the count unset, nothing went out.
* `CommandsWhileActive`, `DataInStandby`: command bytes go out under ATN and data without,
  across two status reads, two attempts to take control and the failures between them. Both
  exclude what the code cannot notice: control moving on the bus during the call and a status
  that could not be read, and the first also a late answer and an adapter that answers a take
  control with an error code. The second needs negative failures.
* `NoEosModeError`: no order of `ibeos`, reads and restarts leaves EOS bits the adapter
  refuses ("driver bug, we should have been able to avoid NIUSB_EOSMODE_ERROR").

The properties of the conversions and of the core:

* `ReadsAreDecoded`, `TimeoutsHold`, `MemoryAndAddresses`: what the callers rely on. A packet
  fits its buffer and is consumed to its last byte; a read or a write with a time out is given
  up by the adapter before its USB transfer, and the property says for which transfers it is
  not; a time out in ticks is neither early nor lost at the wrap; what passes a bounds check
  is within the bounds, if offset and length do not wrap.
* `TransfersAreCounted`: bytes reported are bytes moved, nothing is asked of the bus after
  END or an error, an error is not reported for a complete transfer, EOI goes out with the
  last byte only.
* `StatusBytesInOrder`: a queued byte stays queued until IBRSP hands it over, and bytes are
  handed over in the order of the requests, whether queued or polled for. It says nothing of
  bytes that are lost before they are queued, or by a clean-up that times out.
* `SpdFollowsSpe`: two polls are never mixed, and a poll is ended unless a command failed.
* `WaitersAreWoken`: no process sleeps for a byte that is queued, while polls can be ended.
* `RequestsServed`: while polling stays enabled and SRQ is not declared stuck, a request is
  answered by a poll. Enabling polls later wakes nobody and is outside of it.
* `DevicesAreCounted`: an address is listed as long as a handle of it is open, unless memory
  ran out or a handle was opened as a board.
* `BoardCounts`: while no unlocked update has met another, `autospollers` is the number of
  files that poll, `use_count` that of the files that mark a reference, and the driver's module
  has as many references. After a failed change of driver other files may still mark one that
  was given back: then `use_count` is smaller, and the references are still exact.
* `LockIsHeld`: who passes the check of `locking_pid` holds the lock until it has released it,
  unless a file was closed with the lock held; `LockOfAnother` is what happens then.
* `EventsInOrder`: accepted events leave the queue once and in order. A full queue costs the
  event that comes, and clears the mark of the loss, so that the reader is not told.

Every state machine but the two abstract ones and `GpibEvents` states a type invariant `TypeOK`, which is
proved. It is a property of a
run in `async_safety` only; the others were found to hold on the instances of the runs.

**Bounds.** Two blocks are enough for one block to overtake, spoil or kick another; the
order of three is checked in `function_list`, and proved for any number. The kick decides on
counts zero, one and more. A COMMAND of two bytes can be interrupted before, between and
after its bytes. `MaxTries` stands for the 30 looks of `WaitForAllFunctionCompletion`: with
2 a look can fail and another succeed. `MaxLooks` stands for the 1000 looks of
`CreateVLCThread` and `MaxPolls` for the 50 of `ni_usb_hs_wait_for_ready`; only "none left"
is told apart. Two LOADs show what a failed one leaves to the next. A pipe of one packet
fills, so that a request is refused, and lets an answer be late by one, which is enough to
shift all later ones. A command of 17 bytes has a full chunk and another; a read of two
bytes can end short. In `board_control` a behaviour either calls `ibeos` or takes control
and sends commands (`MCBoardControl`): only a read looks at what `ibeos` sets, and both
kinds read. `MaxSent` counts repeated chunks. `usb_exchange` has three threads, of which two
at most are in a call at a time: any two of them overlap, and each meets what a third has
left in the pipes. Two requests on two devices let two bytes of one device wait in its
queue, and one arrive before, during and after the poll of the other; a byte that is lost is
one for which there was no memory, as two requests do not overflow a queue of two. A full
queue loses the byte that comes in the same way (`push_status_byte`), and the proofs cover
queues of any length. Four events fill and overflow a queue of two. Two processes with two
handles can share an address, differ in it, and run out of handles. In `core_handles` a
behaviour uses handles, or the board lock, or changes the driver and polls, or has events:
all open, close, configure and go on and off line, and share no other state
(`MCGpibHandles`). A behaviour in which an update of `use_count` was lost is not followed,
and one is cut when lost updates have driven `autospollers` to `MaxUse`. Lengths, ticks and
addresses are integers modulo 64 with pages of 8; the wrap, the end of the dual port and
every remainder occur. Blocks and the processes of `core_handles` are interchangeable
(symmetry); threads are not. Deadlock is checked in all runs except those of
`DriverLifecycle`, where the number of LOADs is bounded.

**The engine.** It is external. From the entry points' own comments it is taken to call
them as START, cycles, STOP, LOAD, START and so on, one call at a time.
`ReloadAfterTimeout` says whether it may call `rtReload` after `rtOffLine` returned
`OFFLINE_TIMEOUT`; the passing runs and the proofs exclude it, and
`async_reload_after_timeout` shows why.

**Fairness.** `Fairness` of `AsyncFunctions`: weak fairness of the background thread,
which the kernel schedules whenever it can run and whose functions all have timeouts;
weak fairness of the engine inside an entry point; strong fairness of `Output`, since
every scan cycle has an end. It is the hypothesis of `CompletesWhenScheduled`, under
`StuckTaskSpec`, which itself is fair to the engine only. Nothing forces a flowchart to call
or the user to stop. `DriverLifecycle`: weak fairness of `rtOpen`, each call of which has a
timeout. `UsbExchange`: weak fairness of each thread's transfers, which the stack ends within
their timeouts; none of the adapter. `BoardControl` needs none: that calls end is stated as a
measure. `AutoPoll`: weak fairness of the thread, strong fairness of the steps that
take a mutex (mutexes are handed over in turn) and of a process giving the board lock back;
none of the calls a process makes.

## Findings

1. `rtReload` after a timed-out STOP empties `Pend` under a kicked task
   (`niUsbGpib.c:752`); the assertion at `task.c:134` then fails.
2. A failed `rtOpen` releases neither the device nor the USB thread, though
   `niUsbGpib.c:1001` says that `Close()` will not be called. The error it returns in the
   ordinary case is due to an inverted test of the thread's handle (`niUsbGpib.c:541`).
3. `ibclose` releases `user_mutex` and leaves `locking_pid` (`osfuncs.c:192`): the process opens
   the board again and releases the lock of another, which the message at line 1350 calls a bug.
   This is in the GPIB core, which is not built into the driver.

Remarks from modelling, which no run is spent on:

* `ibcmd` can return 0 for a command of which nothing went out (`ni_usb_gpib.c:790`): any answer of
  twelve bytes is taken for the chunk's, and an exchange given up before may have left one. The
  comment above `ibcmd` says that it terminates only on I/O complete. `CommandBytesOnce` excludes
  late answers for this reason.
* `autopoll_all_devices` returns before its wake-up when a poll that has queued bytes could not
  be ended (`autopoll.c:146`), though its own comment says why the wake-up is needed: the waiter
  sleeps on. `WaitersAreWoken` excludes it by `failed`.
* `ibclose` decrements `autospollers` without a lock (`osfuncs.c:178`), and the increment of an
  IBAUTOSPOLL between its read and its write is lost: a file polls and the board counts none.
  Line 180 reports the result as an error. `BoardCounts` excludes it by `pollRaced`.
* `DRVF_CLEAR_TXRX` is posted by `rtSpecial`, but `DoAsyncSpecialFunction` has no case for
  it; `DoCommand` reports SUCCESS for a copy that STOP PROJECT cut short (`Card.c:389`).
* `UnlinkFunction` changes its loop variable in place of the chain (`auxrut.c:281`); nothing
  calls it, and it is not modelled.
* The second attempt of `ibcac` to take control is synchronous again, though the comment
  (`ni_usb_gpib.c:2578`) speaks of an asynchronous fall-back; `ibsad` takes address 0 for
  "none", though its comment allows it.
* `DoGpibWrite` and `DoGpibRead` pass a pointer to 16 bits where `size_t` is stored
  (`Card.c:412`, `446`).
* A port access of four bytes does nothing and reports SUCCESS; the status of a device is
  looked up with 16 bits of the address; `offset + length` of Peek and Poke wraps.
* `write_ioctl` does not end while the interface driver reports success and moves nothing,
  nor does `ibrd` of the core once some bytes have come.
* `iboffline` stops the poll thread with `big_gpib_mutex` held, for which the thread may be
  waiting; `open_dev_ioctl` clears `stuck_srq` and wakes nobody.

## Proofs

Every invariant, action property and refinement the passing runs check is a theorem, for
every value of the constants, and so is the type invariant of every state machine, but for
`EventsInOrder` and `CallsComeToAnEnd`. What else is left to TLC are the liveness properties and
the violations. Each module of proofs has an inductive invariant in
named parts, a lemma per part with a step per action (or per group of actions) that can
disturb it, and theorems that follow from the invariant. The assumptions are those of the
constants, next to their declarations, and one more: `NoReloadAfterTimeout`, that LOAD does
not follow a STOP that timed out (first finding). The constants' assumptions say that bounds
are natural numbers and that special names (`NoBlock`, `Nobody`, `Thread`, `NoModule`) are
not members of the sets they are told apart from. `GpibHandles` needs finitely many files,
because it counts; `EncodingCalls` needs `WaitAssumption`, that waits are shorter than a
quarter of the tick counter's period: the looks at a time out, up to twice its length, then
stay within the half that the comparison tells apart.

**`AsyncFunctionsProofs`.** `IInv` needs more than the properties:

* `Control` ties `bBusy`, `cur`, `posting` and `caller` to the control points. Without it
  nothing says that a task with work in hand has `bBusy` set.
* `NoLostWakeup` is what makes `TaskAssertHolds` inductive: the task unlinks only while
  awake, and an awake task has work.
* `Stopping` records what `WaitForAllFunctionCompletion` has established so far. The
  argument of `StoppedMeansQuiet` is here: after the look at an empty `Pend` the engine
  posts nothing, so `Pend` stays empty; with `bBusy` clear the task waits or has just been
  woken; a woken task would have work, so it waits, and by the hand-shake nothing has been
  kicked.
* `Posting`: the block `Pend()` is appending is marked, hence on no list (`LinkedOnce`).

`OutcomesInv` says what a block carries from its execution to `VerifyDoneList`: an executed
call that was not spoiled has a status and its own result, one not yet executed has none.
From it follow `OkMeansResult` and `AbortedStays`. `DriverIsService` maps every step to a
step of `AsyncService` or to a stutter; the lemmas are about the queue the mapping glues
together from `done`, `cur`, `pend` and `posting` when a block moves from one to the next.

**`FunctionListProofs`.** `ListInv`: the semaphore is with one thread (`LockInv`), a block is
in the hands of one thread (`HandsInv`), and there is a sequence that the pointers spell
(`ListOf`), also midway between the assignments of one call, when `pHead`, `pTail`, `pNext`
and `uCounter` disagree in the way the control point says. That the recursive function
`Chain` follows the pointers to just this sequence (`ChainIs`) is an induction over its
length. `ListIsQueue` is the refinement of `FunctionQueue`: the last assignment of a call is
the `Put` or the `Take`.

**`DriverLifecycleProofs`.** `LifecycleInv` says which handles can be set at each control point
of `rtOpen` (`TaskProgress`), that an object is deleted only once its handle is cleared
(`TaskDeletedOnce`), that what exists has a handle (`AliveIsHeld`), and what `rc` can be.
`ServiceWithoutUsbThread` came out of it: `rtOpen` succeeds only if the USB thread could not
be created (second finding).

**`UsbExchangeProofs`.** `CleanInv`: while `clean` holds, either nobody waits and both pipes are
empty, or one thread waits and the pipes hold its request, or its answer, or nothing if its
request did not go out. `LagStays` counts: each action changes the waiting threads and the
messages in the pipes together, and only a receive without a request of its own takes one more.
`CallsInv`, for the types, follows the two line status exchanges of each `ibstatus` through a
call.

**`BoardControlProofs`.** `ActiveInv` and `StandbyInv` say what the chain of status read, take
control, second attempt and final status read knows of CIC and ATN at each point, under the
trouble the properties exclude. `CountsInv` ties `count` to `sent` through the loop of
`ibcmd`, unless an answer was late. An earlier proof found a flaw of the model: two CASE expressions (`LookAtStatus`,
`CacStatus`) had overlapping guards, of which TLC takes the first and TLA+ takes any; they
are exclusive now.

**`AutoPollProofs`.** `PollInv`: a poll is made with both mutexes (`LocksInv`), which is why two
polls cannot mix; `OrderInv` says of each device that its queued bytes increase, follow the
last byte handed over, and precede the request it asserts, and that a process which polls has
found the queue empty and holds a byte newer than all before; `WakeInv` says that whoever sleeps with a byte queued sleeps during a
poll of the thread, or after a failure.

**`GpibHandlesProofs`.** The state falls into parts that few actions change, with an invariant
each, on top of `ProcInv`, which says where a process in a call can be. `LockInv`: between the
steps of IBMUTEX the lock is with who is about to be named, or is named, or has just cleared
its name. `PollInv` and `UseInv`: unless a counter was changed between a read and its write,
what an `ibopen` or `ibclose` has read is the counter, one process at most has read it, and the
references differ from it by the one just taken or given back. `DeviceInv` counts the handles of
an address by the cardinality of their set. The loop of `cleanup_open_devices` is the hard part:
after n rounds the counts are those of the handles not looked at yet, so the loop never meets an
address that is not listed. `OwnersInv`, for the types, says that the lock's mark is on open
files.

**`EncodingCallsProofs`.** Arithmetic for any width of the integers, any size of a page that
divides it and any length, and the loops of IBRD, IBWRT and IBCMD: `Counted` is the loop's
invariant (no byte the bus was asked for is lost, and the loop goes on and ends for the right
reason), kept by a round of each ioctl.

Induction over data is out of the provers' reach as a rule, because the library's induction
theorems take an operator. The three places that need it (the chain of pointers, the clean-up
loop, the ioctl loops) argue by the least counterexample instead: a set of natural numbers
that is not empty has a least element, from the well-foundedness of `<` on `Nat`.

Only model-checked: the liveness properties `CompletesWhenScheduled`, `StopReturns`,
`CallsReturn`, `OpenReturns` and `RequestsServed`; the invariant `EventsInOrder`,
whose filter of a sequence has no facts in the library to argue with; and the measure of
`CallsComeToAnEnd`. Liveness under fairness and ENABLED
are out of the prover's reach.

## Plan

Done: 1. `FunctionQueue`, `FunctionList`; 2. `AsyncService`, `AsyncFunctions`;
3. `DriverLifecycle`; 4. `UsbTransfers`, `UsbExchange`; 5. `BoardControl`;
6. `GpibEncodings`, `GpibTransfers`, `EncodingCalls`; 7. `GpibQueues`, `AutoPoll`,
`GpibHandles`, `GpibEvents`; 8. a module of proofs for each state machine and for the conversions.

To come: properties of `AsyncService` and `FunctionQueue` themselves (order of the reports,
no block twice), which their implementations then inherit; a proof of the measure of
`CallsComeToAnEnd`, and measures for the other liveness properties.

## Not modelled

The configuration program (dialogs, no shared state with the runtime driver), `hid.c` (a
sample that is not called), resource scripts and logs. Memory exhaustion appears only
where it changes the control flow (`rtOpen`, the queues, the device counts). Content of
buffers, wording of messages and timing are abstracted. `usb_data.board`, which points into
the stack frame of `rtOpen` after it has returned, is recorded as a hazard. Of the core:
ioctls that copy a word to or from the board, signals that interrupt a lock, the removal of
the board while it is polled, the wrappers of `ibutil.c`, `ibrpp.c` and the timers, and a
device list that `ibclose` changes while an ioctl walks it.
The files `ibcac.c`, `ibcmd.c` and `ibgts.c` of `sys` are copies of what `BoardControl` models.

## Running

    tlc -workers 2 -config AsyncSafety.cfg MCAsyncInductive.tla
    tlapm AsyncFunctionsProofs.tla
    tlapm GpibHandlesProofs.tla

`PROJECT.json` names the module and configuration of every run. Definitions such as
`KickNeeded_Later`, with an underscore and a reason in the name, are faulty variants of the
definition below them: substituting one makes the property named with it in
`PROJECT.json` fail.
