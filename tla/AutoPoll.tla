------------------------------ MODULE AutoPoll ------------------------------
(***************************************************************************)
(* The automatic serial poll of the GPIB core: the kernel thread of        *)
(* ibinit.c that polls the devices when one requests service, the serial   *)
(* poll of device.c, the status byte queues of autopoll.c, and the ioctls  *)
(* of osfuncs.c and ibwait.c that meet it: IBMUTEX, IBRSP, IBWAIT for RQS, *)
(* IBAUTOSPOLL and IBOPENDEV.                                              *)
(*                                                                         *)
(* A process of the user library (external) calls IBRSP with the board     *)
(* lock, which the ioctl checks.  The board is on line and the controller, *)
(* the device list does not change, no signal interrupts a lock, and the   *)
(* interface driver (external) reports a request for service by SRQI and a *)
(* wake-up, and again in every update of its status while SRQ is asserted. *)
(* The n-th request of all the devices is the status byte n.               *)
(***************************************************************************)
EXTENDS GpibQueues, FiniteSets

CONSTANTS Users,         \* processes that use the board: those that
          Pollers,       \* call IBMUTEX and IBRSP, those that
          Waiters,       \* call IBWAIT, those that
          Enablers,      \* call IBAUTOSPOLL, and those that
          Openers,       \* call IBOPENDEV
          NumDevices,    \* length of the device list
          MaxRequests    \* bound: requests for service in all

ASSUME UsersAssumption == Users = Pollers \cup Waiters \cup Enablers \cup Openers
ASSUME NumDevicesAssumption == NumDevices \in Nat \ {0}
ASSUME MaxRequestsAssumption == MaxRequests \in Nat

VARIABLES
    requests,      \* requests made so far
    asserted,      \* the request each device holds SRQ for, or NoItem
    srqi, stuck,   \* SRQI of board->status, board->stuck_srq
    autopoll,      \* the files that have autopoll_enabled
    queue,         \* the status byte queue of each device
    userMutex, bigMutex,   \* who holds board->user_mutex, big_gpib_mutex
    awake,         \* threads of board->wait that run or have been woken
    pc,            \* where each thread is
    poll,          \* the poll a thread makes: next device, bytes queued,
                   \* the byte IBRSP has read
    spe,           \* the devices were told to answer serial polls
    failed,        \* history: the SPE or the SPD of a poll has failed
    accepted, given \* history: the bytes the thread has queued and IBRSP has
                   \* not handed over, the last byte handed over

vars == <<requests, asserted, srqi, stuck, autopoll, queue, userMutex, bigMutex,
          awake, pc, poll, spe, failed, accepted, given>>
bus == <<requests, asserted, srqi, spe, failed>>
locks == <<userMutex, bigMutex>>
history == <<accepted, given>>

Thread == "thread"
Nobody == "nobody"
Threads == Users \cup {Thread}
Devices == 1 .. NumDevices
autospollers == Cardinality(autopoll)

(* The kernel thread is none of the processes, and nobody is not one.      *)
ASSUME NamesAssumption == {Thread, Nobody} \cap Users = {}

NoPoll == [device |-> 1, bytes |-> 0, rc |-> "ok", byte |-> NoItem]

Init ==
    /\ requests = 0 /\ asserted = [d \in Devices |-> NoItem]
    /\ srqi = FALSE /\ stuck = FALSE
    /\ autopoll \in SUBSET Enablers
    /\ queue = [d \in Devices |-> EmptyQueue]
    /\ userMutex = Nobody /\ bigMutex = Nobody
    /\ awake = Threads
    /\ pc = [t \in Threads |-> IF t = Thread THEN "wait" ELSE "idle"]
    /\ poll = [t \in Threads |-> NoPoll]
    /\ spe = FALSE /\ failed = FALSE
    /\ accepted = [d \in Devices |-> {}] /\ given = [d \in Devices |-> 0]

Goto(t, to) == pc' = [pc EXCEPT ![t] = to]
Asserting == \E d \in Devices : asserted[d] # NoItem

(* A device requests service (external).                                   *)
RequestService(d) ==
    /\ requests < MaxRequests /\ asserted[d] = NoItem
    /\ requests' = requests + 1
    /\ asserted' = [asserted EXCEPT ![d] = requests + 1]
    /\ srqi' = TRUE /\ awake' = Threads
    /\ UNCHANGED <<stuck, autopoll, queue, locks, pc, poll, spe, failed, history>>

-----------------------------------------------------------------------------
(* The serial poll: setup_serial_poll, read_serial_poll_byte for one       *)
(* device or all, cleanup_serial_poll.  ibcac brings the status up to date *)
(* at the start of each.                                                   *)

(* ibcac, or the command, may fail; the bytes may have reached the devices *)
(* all the same.                                                           *)
Setup(t) ==
    /\ pc[t] = "setup" /\ bigMutex = t
    /\ srqi' = Asserting
    /\ \/ spe' = TRUE /\ Goto(t, "read") /\ UNCHANGED <<failed, poll>>
       \/ /\ spe' \in {spe, TRUE} /\ failed' = TRUE
          /\ poll' = [poll EXCEPT ![t].rc = "error"]
          /\ Goto(t, "finish")
    /\ UNCHANGED <<requests, asserted, stuck, autopoll, queue, locks, awake, history>>

AfterRead_ErrorEnds(t, d, ok) ==
    IF ~ok THEN "finish" ELSE IF t # Thread \/ d = NumDevices THEN "cleanup" ELSE "read"

(* serial_poll_all goes on with the next device whatever happened.         *)
AfterRead(t, d, ok) == IF t # Thread \/ d = NumDevices THEN "cleanup" ELSE "read"

HandOver(d, byte) == /\ given' = [given EXCEPT ![d] = byte]
                     /\ accepted' = [accepted EXCEPT ![d] = @ \ {byte}]

(* The thread queues a byte that has the RQS bit; IBRSP keeps it.          *)
TakeByte(t, d) ==
    LET byte == asserted[d] IN
    IF t # Thread
    THEN poll' = [poll EXCEPT ![t].byte = byte] /\ UNCHANGED <<queue, history>>
    ELSE IF byte = NoItem
    THEN /\ poll' = [poll EXCEPT ![t].device = d + 1]
         /\ UNCHANGED <<queue, history>>
    ELSE \E memory \in BOOLEAN :
            LET r == push_status_byte(queue[d], byte, memory)
                ok == r.rc = "ok"
            IN  /\ queue' = [queue EXCEPT ![d] = r.queue]
                /\ accepted' = [accepted EXCEPT ![d] = IF ok THEN @ \cup {byte} ELSE @]
                /\ poll' = [poll EXCEPT ![t].device = d + 1,
                                        ![t].bytes = IF ok THEN @ + 1 ELSE @]
                /\ UNCHANGED given

(* A read that fails may have taken the byte from the device.              *)
ReadByte(t) ==
    LET d == poll[t].device IN
    /\ pc[t] = "read" /\ bigMutex = t
    /\ srqi' = Asserting
    /\ \/ /\ TakeByte(t, d)
          /\ asserted' = [asserted EXCEPT ![d] = NoItem]
          /\ Goto(t, AfterRead(t, d, TRUE))
       \/ /\ poll' = [poll EXCEPT ![t].device = IF t = Thread THEN d + 1 ELSE @,
                                  ![t].rc = IF t = Thread THEN @ ELSE "error"]
          /\ asserted' \in {asserted, [asserted EXCEPT ![d] = NoItem]}
          /\ Goto(t, AfterRead(t, d, FALSE))
          /\ UNCHANGED <<queue, history>>
    /\ UNCHANGED <<requests, stuck, autopoll, locks, awake, spe, failed>>

(* The error of a clean-up is the result of serial_poll_all; it is         *)
(* forgotten by serial_poll_single.                                        *)
Cleanup(t) ==
    /\ pc[t] = "cleanup" /\ bigMutex = t
    /\ srqi' = Asserting
    /\ \/ spe' = FALSE /\ UNCHANGED <<failed, poll>>
       \/ /\ spe' \in {spe, FALSE} /\ failed' = TRUE
          /\ poll' = IF t = Thread THEN [poll EXCEPT ![t].rc = "error"] ELSE poll
    /\ Goto(t, "finish")
    /\ UNCHANGED <<requests, asserted, stuck, autopoll, queue, locks, awake, history>>

SerialPoll(t) == Setup(t) \/ ReadByte(t) \/ Cleanup(t)

-----------------------------------------------------------------------------
(* autospoll_thread. *)

(* wait_event: the condition is looked at with the lock; SRQI is cleared   *)
(* when it holds, and the thread sleeps when it does not.                  *)
WakeUp ==
    /\ pc[Thread] = "wait" /\ Thread \in awake /\ bigMutex = Nobody
    /\ IF autospollers > 0 /\ ~stuck /\ srqi
       THEN srqi' = FALSE /\ Goto(Thread, "recheck") /\ UNCHANGED awake
       ELSE awake' = awake \ {Thread} /\ UNCHANGED <<srqi, pc>>
    /\ UNCHANGED <<requests, asserted, stuck, autopoll, queue, locks, poll, spe,
                   failed, history>>

(* A request made while nobody asks for polls any more is forgotten.       *)
Recheck ==
    /\ pc[Thread] = "recheck" /\ bigMutex = Nobody
    /\ Goto(Thread, IF autospollers <= 0 THEN "wait" ELSE "lockUser")
    /\ UNCHANGED <<bus, stuck, autopoll, queue, locks, awake, poll, history>>

(* autopoll_all_devices: the user's lock first, then the board's.          *)
LockUser ==
    /\ pc[Thread] = "lockUser" /\ userMutex = Nobody
    /\ userMutex' = Thread /\ Goto(Thread, "lockBig")
    /\ UNCHANGED <<bus, stuck, autopoll, queue, bigMutex, awake, poll, history>>

LockBig ==
    /\ pc[Thread] = "lockBig" /\ bigMutex = Nobody
    /\ bigMutex' = Thread /\ Goto(Thread, "setup")
    /\ UNCHANGED <<bus, stuck, autopoll, queue, userMutex, awake, poll, history>>

WokenBy_Nobody(rc) == {}

(* The waiters are woken only when no error is returned.                   *)
WokenBy(rc) == IF rc = "ok" THEN Threads ELSE {}

FinishAll ==
    /\ pc[Thread] = "finish"
    /\ awake' = awake \cup WokenBy(poll[Thread].rc)
    /\ userMutex' = Nobody /\ bigMutex' = Nobody
    /\ Goto(Thread, "judge")
    /\ UNCHANGED <<bus, stuck, autopoll, queue, poll, history>>

(* A clear of SRQI that waits for the poll to end.                         *)
Judge_ClearsLate ==
    /\ pc[Thread] = "judge"
    /\ IF poll[Thread].rc # "ok" \/ poll[Thread].bytes = 0
       THEN stuck' = TRUE /\ srqi' = TRUE
       ELSE stuck' = stuck /\ srqi' = FALSE
    /\ Goto(Thread, "wait") /\ poll' = [poll EXCEPT ![Thread] = NoPoll]
    /\ UNCHANGED <<requests, asserted, autopoll, queue, locks, awake, spe, failed,
                   history>>

(* Without the locks: an error, or no byte, means that SRQ is stuck.       *)
Judge ==
    /\ pc[Thread] = "judge"
    /\ IF poll[Thread].rc # "ok" \/ poll[Thread].bytes = 0
       THEN stuck' = TRUE /\ srqi' = TRUE
       ELSE UNCHANGED <<stuck, srqi>>
    /\ Goto(Thread, "wait") /\ poll' = [poll EXCEPT ![Thread] = NoPoll]
    /\ UNCHANGED <<requests, asserted, autopoll, queue, locks, awake, spe, failed,
                   history>>

autospoll_thread == WakeUp \/ Recheck \/ LockUser \/ LockBig \/ FinishAll \/ Judge
                    \/ SerialPoll(Thread)

-----------------------------------------------------------------------------
(* The ioctls.  Each but IBMUTEX starts with big_gpib_mutex.               *)

LockBoard(u) ==
    /\ pc[u] = "idle" /\ userMutex = Nobody
    /\ userMutex' = u
    /\ UNCHANGED <<bus, stuck, autopoll, queue, bigMutex, awake, pc, poll, history>>

UnlockBoard(u) ==
    /\ pc[u] = "idle" /\ userMutex = u
    /\ userMutex' = Nobody
    /\ UNCHANGED <<bus, stuck, autopoll, queue, bigMutex, awake, pc, poll, history>>

TakesQueued_Never(d) == FALSE
TakesQueued(d) == Len(queue[d].items) > 0

(* IBRSP: a queued byte, or a poll of the device.                          *)
serial_poll_ioctl(u, d) ==
    /\ pc[u] = "idle" /\ bigMutex = Nobody /\ userMutex = u
    /\ IF TakesQueued(d)
       THEN LET r == pop_status_byte(queue[d]) IN
            /\ queue' = [queue EXCEPT ![d] = r.queue]
            /\ IF r.rc = "ok" THEN HandOver(d, r.item) ELSE UNCHANGED history
            /\ UNCHANGED <<bigMutex, pc, poll>>
       ELSE /\ bigMutex' = u /\ Goto(u, "setup")
            /\ poll' = [poll EXCEPT ![u] = [NoPoll EXCEPT !.device = d]]
            /\ UNCHANGED <<queue, history>>
    /\ UNCHANGED <<bus, stuck, autopoll, userMutex, awake>>

(* dvrsp: the byte is handed over unless the poll has failed, or the timer *)
(* of its clean-up has run out, failed or not: then it is lost.            *)
FinishOne(u) ==
    LET byte == poll[u].byte IN
    /\ pc[u] = "finish"
    /\ bigMutex' = Nobody /\ Goto(u, "idle")
    /\ poll' = [poll EXCEPT ![u] = NoPoll]
    /\ \/ poll[u].rc = "ok" /\ byte # NoItem /\ HandOver(poll[u].device, byte)
       \/ UNCHANGED history
    /\ UNCHANGED <<bus, stuck, autopoll, queue, userMutex, awake>>

(* IBWAIT for RQS of device d, with or without a time out.                 *)
ibwait(u, d) ==
    /\ pc[u] = "idle" /\ bigMutex = Nobody
    /\ Goto(u, "waiting") /\ awake' = awake \cup {u}
    /\ poll' = [poll EXCEPT ![u].device = d]
    /\ UNCHANGED <<bus, stuck, autopoll, queue, locks, history>>

(* Each look brings the status up to date.                                 *)
wait_satisfied(u) ==
    /\ pc[u] \in {"waiting", "timedOut"} /\ u \in awake /\ bigMutex = Nobody
    /\ srqi' = Asserting
    /\ IF pc[u] = "timedOut" \/ Len(queue[poll[u].device].items) > 0
       THEN Goto(u, "idle") /\ poll' = [poll EXCEPT ![u] = NoPoll] /\ UNCHANGED awake
       ELSE awake' = awake \ {u} /\ UNCHANGED <<pc, poll>>
    /\ UNCHANGED <<requests, asserted, stuck, autopoll, queue, locks, spe, failed, history>>

(* It wakes all of board->wait.                                            *)
wait_timeout(u) ==
    /\ pc[u] = "waiting"
    /\ Goto(u, "timedOut") /\ awake' = Threads
    /\ UNCHANGED <<bus, stuck, autopoll, queue, locks, poll, history>>

autospoll_ioctl(u) ==
    /\ pc[u] = "idle" /\ bigMutex = Nobody
    /\ autopoll' = IF u \in autopoll THEN autopoll \ {u} ELSE autopoll \cup {u}
    /\ UNCHANGED <<bus, stuck, queue, locks, awake, pc, poll, history>>

(* It opens another handle of a listed device, and nobody is woken.        *)
open_dev_ioctl(u) ==
    /\ pc[u] = "idle" /\ bigMutex = Nobody /\ stuck
    /\ stuck' = FALSE
    /\ UNCHANGED <<bus, autopoll, queue, locks, awake, pc, poll, history>>

Returns(u) == SerialPoll(u) \/ FinishOne(u) \/ wait_satisfied(u)

Next == \/ autospoll_thread
        \/ \E u \in Pollers : \/ LockBoard(u) \/ UnlockBoard(u)
                              \/ \E d \in Devices : serial_poll_ioctl(u, d)
        \/ \E u \in Waiters : \/ wait_timeout(u)
                              \/ \E d \in Devices : ibwait(u, d)
        \/ \E u \in Enablers : autospoll_ioctl(u)
        \/ \E u \in Openers : open_dev_ioctl(u)
        \/ \E u \in Users : Returns(u)
        \/ \E d \in Devices : RequestService(d)

(* Threads run and mutexes are handed over in turn; an ioctl under way     *)
(* returns and a process gives the board lock back.  Nothing is assumed of *)
(* the calls a process makes.                                              *)
Fairness ==
    /\ WF_vars(autospoll_thread) /\ SF_vars(WakeUp) /\ SF_vars(Recheck)
    /\ SF_vars(LockUser) /\ SF_vars(LockBig)
    /\ \A u \in Users : WF_vars(Returns(u)) /\ SF_vars(UnlockBoard(u))

Spec == Init /\ [][Next]_vars /\ Fairness

-----------------------------------------------------------------------------
TypeOK ==
    /\ requests \in 0 .. MaxRequests
    /\ asserted \in [Devices -> 0 .. MaxRequests]
    /\ srqi \in BOOLEAN /\ stuck \in BOOLEAN /\ spe \in BOOLEAN
    /\ autopoll \subseteq Enablers /\ awake \subseteq Threads
    /\ \A d \in Devices : Len(queue[d].items) <= QueueMax
    /\ userMutex \in Threads \cup {Nobody} /\ bigMutex \in Threads \cup {Nobody}

Contents(d) == {queue[d].items[i] : i \in 1 .. Len(queue[d].items)}

ReadOf(u, d) == pc[u] \in {"cleanup", "finish"} /\ poll[u].device = d
                /\ poll[u].byte # NoItem

(* A status byte the thread has queued stays queued until IBRSP hands it   *)
(* over, and the bytes of a device are handed over in the order of its     *)
(* requests, whether they come from the queue or from a poll of the        *)
(* user's: the queue is emptied before the device is polled.  A byte that  *)
(* is lost is not queued and not handed over: the thread's when the queue  *)
(* is full or memory short, the user's when the clean-up times out.        *)
StatusBytesInOrder ==
    \A d \in Devices :
       /\ \A i, j \in 1 .. Len(queue[d].items) :
            i < j => queue[d].items[i] < queue[d].items[j]
       /\ Contents(d) = accepted[d]
       /\ \A b \in accepted[d] : b > given[d]
       /\ \A u \in Users :
            ReadOf(u, d) => accepted[d] = {} /\ poll[u].byte > given[d]

(* Two polls are never mixed, and a poll is always ended by SPD: unless    *)
(* SPE or SPD itself has failed, the devices are in the serial poll mode   *)
(* only while one thread holds both locks and makes a poll.                *)
Polling(t) == pc[t] \in {"read", "cleanup"}
SpdFollowsSpe ==
    /\ \A t \in Threads : Polling(t) => bigMutex = t /\ userMutex = t
    /\ spe /\ ~(\E t \in Threads : Polling(t)) => failed

SleepsOnByte(u) == /\ pc[u] = "waiting" /\ u \notin awake
                   /\ Contents(poll[u].device) # {}

(* A process asleep for RQS has no byte queued, unless the thread is about *)
(* to wake it, as long as SPE and SPD go through.                          *)
WaitersAreWoken ==
    \A u \in Users :
       SleepsOnByte(u) => pc[Thread] \in {"read", "cleanup", "finish"} \/ failed

(* While autopolling stays enabled and SRQ is not declared stuck, a        *)
(* request for service is answered by a poll of the device: SRQI is        *)
(* cleared before the poll, so a request made during it is seen again, and *)
(* one device that does not answer does not hide the others.  Polling that *)
(* is enabled later is outside of it, because nobody wakes the thread then.*)
RequestsServed ==
    [](autopoll # {} /\ ~stuck) =>
       \A d \in Devices : [](asserted[d] # NoItem => <>(asserted[d] = NoItem))
=============================================================================
