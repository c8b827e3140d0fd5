--------------------------- MODULE AutoPollProofs ---------------------------
(***************************************************************************)
(* Proofs about AutoPoll, for any number of processes, devices, requests   *)
(* and places of a status byte queue.                                      *)
(***************************************************************************)
EXTENDS AutoPoll, TLAPS

-----------------------------------------------------------------------------
(* The start and the end of a serial poll: the thread goes on to the bytes *)
(* and past them, or the step has failed.                                  *)

(* What becomes of ibcac and SPE.                                          *)
LEMMA SetupSteps ==
    ASSUME NEW t, Setup(t)
    PROVE  /\ pc[t] = "setup" /\ bigMutex = t
           /\ \/ spe' /\ Goto(t, "read") /\ UNCHANGED <<failed, poll>>
              \/ failed' /\ Goto(t, "finish") /\ poll' = [poll EXCEPT ![t].rc = "error"]
           /\ UNCHANGED <<requests, asserted, queue, locks, awake, history>>
BY Zenon DEF Setup

(* What becomes of SPD.                                                    *)
LEMMA CleanupSteps ==
    ASSUME NEW t, Cleanup(t)
    PROVE  /\ pc[t] = "cleanup" /\ bigMutex = t /\ Goto(t, "finish")
           /\ \/ ~spe' /\ UNCHANGED <<failed, poll>>
              \/ failed' /\ poll' = IF t = Thread THEN [poll EXCEPT ![t].rc = "error"]
                                    ELSE poll
           /\ UNCHANGED <<requests, asserted, queue, locks, awake, history>>
BY Zenon DEF Cleanup

(* A look of IBWAIT: it ends, or the process goes to sleep.                *)
LEMMA LookSteps ==
    ASSUME NEW u, wait_satisfied(u)
    PROVE  /\ pc[u] \in {"waiting", "timedOut"} /\ u \in awake /\ bigMutex = Nobody
           /\ \/ Goto(u, "idle") /\ poll' = [poll EXCEPT ![u] = NoPoll] /\ awake' = awake
              \/ /\ pc[u] # "timedOut" /\ ~(Len(queue[poll[u].device].items) > 0)
                 /\ awake' = awake \ {u} /\ UNCHANGED <<pc, poll>>
           /\ UNCHANGED <<requests, asserted, queue, locks, spe, failed, history>>
BY Zenon DEF wait_satisfied

-----------------------------------------------------------------------------
(* Where the threads are, and what they poll.                              *)

ThreadPlaces == {"wait", "recheck", "lockUser", "lockBig", "setup", "read", "cleanup",
                 "finish", "judge"}
UserPlaces == {"idle", "setup", "read", "cleanup", "finish", "waiting", "timedOut"}
Polls == [device : Nat, bytes : Nat, rc : {"ok", "error"}, byte : Nat]

(* A poll goes through the device list once, from its start.               *)
PlacesInv ==
    /\ pc \in [Threads -> ThreadPlaces \cup UserPlaces]
    /\ pc[Thread] \in ThreadPlaces
    /\ \A u \in Users : pc[u] \in UserPlaces
    /\ poll \in [Threads -> Polls]
    /\ pc[Thread] \in {"wait", "recheck", "lockUser", "lockBig", "setup"}
         => poll[Thread] = NoPoll
    /\ \A t \in Threads : pc[t] \in {"setup", "read", "waiting"} => poll[t].device \in Devices
    /\ \A u \in Users : pc[u] \in {"cleanup", "finish"} => poll[u].device \in Devices

(* A poll in which one thing changes.                                      *)
LEMMA PollFields ==
    ASSUME NEW p \in Polls
    PROVE  /\ p.device \in Nat /\ p.bytes \in Nat /\ p.rc \in {"ok", "error"} /\ p.byte \in Nat
           /\ [p EXCEPT !.rc = "error"] \in Polls
           /\ [p EXCEPT !.rc = "error"].device = p.device
           /\ [p EXCEPT !.rc = "error"].byte = p.byte
           /\ \A n \in Nat : /\ [p EXCEPT !.device = n] \in Polls
                             /\ [p EXCEPT !.device = n].device = n
                             /\ [p EXCEPT !.byte = n] \in Polls
                             /\ [p EXCEPT !.byte = n].device = p.device
                             /\ [p EXCEPT !.byte = n].byte = n
BY DEF Polls

(* What a thread's poll becomes stays one.                                 *)
LEMMA OnePoll ==
    ASSUME PlacesInv, NEW t \in Threads, NEW p \in Polls, NEW to,
           poll' = [poll EXCEPT ![t] = p], Goto(t, to),
           t = Thread => to \in ThreadPlaces, t # Thread => to \in UserPlaces,
           t = Thread /\ to \in {"wait", "recheck", "lockUser", "lockBig", "setup"} => p = NoPoll,
           to \in {"setup", "read", "waiting"} \/ (t # Thread /\ to \in {"cleanup", "finish"})
             => p.device \in Devices
    PROVE  PlacesInv'
<1>1. /\ \A u \in Threads : u # t => pc'[u] = pc[u] /\ poll'[u] = poll[u]
      /\ pc'[t] = to /\ poll'[t] = p /\ poll' \in [Threads -> Polls]
      /\ to \in ThreadPlaces \cup UserPlaces
  BY NamesAssumption DEF PlacesInv, Goto, Threads
<1>2. pc' \in [Threads -> ThreadPlaces \cup UserPlaces]
  BY <1>1 DEF PlacesInv, Goto
<1>3. Thread \in Threads /\ Thread \notin Users /\ Users \subseteq Threads
  BY NamesAssumption DEF Threads
<1>4. pc'[Thread] \in ThreadPlaces /\ \A u \in Users : pc'[u] \in UserPlaces
  BY <1>1, <1>3 DEF PlacesInv
<1>5. pc'[Thread] \in {"wait", "recheck", "lockUser", "lockBig", "setup"}
        => poll'[Thread] = NoPoll
  BY <1>1, <1>3 DEF PlacesInv
<1>6. ASSUME NEW u \in Threads, pc'[u] \in {"setup", "read", "waiting"}
      PROVE  poll'[u].device \in Devices
  <2>1. CASE u = t
    BY <1>1, <1>6, <2>1
  <2>2. CASE u # t
    <3>1. pc[u] \in {"setup", "read", "waiting"} /\ poll'[u] = poll[u]
      BY <1>1, <1>6, <2>2
    <3>. QED
      BY <3>1 DEF PlacesInv
  <2>. QED
    BY <2>1, <2>2
<1>7. \A u \in Users : pc'[u] \in {"cleanup", "finish"} => poll'[u].device \in Devices
  BY <1>1, <1>3 DEF PlacesInv
<1>. QED
  BY <1>1, <1>2, <1>4, <1>5, <1>6, <1>7 DEF PlacesInv

(* The thread and the processes stay on their ways, and a poll inside the  *)
(* device list.                                                            *)
LEMMA PlacesStep ==
    ASSUME PlacesInv, asserted \in [Devices -> Nat], [Next]_vars
    PROVE  PlacesInv'
<1>0. /\ poll \in [Threads -> Polls] /\ NoPoll \in Polls /\ NoPoll.device = 1 /\ 1 \in Devices
      /\ Users \subseteq Threads /\ Thread \notin Users
      /\ \A d \in Devices : [NoPoll EXCEPT !.device = d] \in Polls
                           /\ [NoPoll EXCEPT !.device = d].device = d
      /\ \A t \in Threads : t = Thread \/ t \in Users
  BY NumDevicesAssumption, NamesAssumption
  DEF PlacesInv, Polls, NoPoll, NoItem, Devices, Threads
<1>1. ASSUME NEW t \in Threads, Setup(t) PROVE PlacesInv'
  <2>1. pc[t] = "setup" /\ poll[t].device \in Devices /\ poll[t] \in Polls
    BY <1>0, <1>1, SetupSteps DEF PlacesInv
  <2>2. CASE Goto(t, "read") /\ poll' = poll
    BY <1>0, <2>1, <2>2 DEF PlacesInv, Goto, ThreadPlaces, UserPlaces
  <2>3. CASE Goto(t, "finish") /\ poll' = [poll EXCEPT ![t].rc = "error"]
    <3>. DEFINE p == [poll[t] EXCEPT !.rc = "error"]
    <3>1. poll' = [poll EXCEPT ![t] = p]
      BY <2>3
    <3>2. p \in Polls /\ p.device \in Devices
      BY <2>1, PollFields
    <3>. HIDE DEF p
    <3>. QED
      BY <2>3, <3>1, <3>2, OnePoll DEF ThreadPlaces, UserPlaces
  <2>. QED
    BY <1>1, <2>2, <2>3, SetupSteps
<1>2. ASSUME NEW t \in Threads, ReadByte(t) PROVE PlacesInv'
  <2>. DEFINE d == poll[t].device
  <2>1. pc[t] = "read" /\ d \in Devices /\ poll[t] \in Polls /\ asserted[d] \in Nat
        /\ d \in Nat /\ d + 1 \in Nat
    BY <1>0, <1>2 DEF ReadByte, PlacesInv, Devices
  <2>2. CASE t # Thread
    <3>1. PICK p \in Polls : poll' = [poll EXCEPT ![t] = p] /\ p.device = d
      <4>1. CASE TakeByte(t, d)
        <5>1. poll' = [poll EXCEPT ![t] = [poll[t] EXCEPT !.byte = asserted[d]]]
          BY <2>2, <4>1 DEF TakeByte
        <5>2. [poll[t] EXCEPT !.byte = asserted[d]] \in Polls
              /\ [poll[t] EXCEPT !.byte = asserted[d]].device = d
          BY <2>1, PollFields
        <5>. QED
          BY <5>1, <5>2
      <4>2. CASE poll' = [poll EXCEPT ![t].device = IF t = Thread THEN d + 1 ELSE @,
                                      ![t].rc = IF t = Thread THEN @ ELSE "error"]
        <5>1. poll' = [poll EXCEPT ![t] = [poll[t] EXCEPT !.device = d, !.rc = "error"]]
          BY <1>0, <2>2, <4>2
        <5>2. [poll[t] EXCEPT !.device = d, !.rc = "error"] \in Polls
              /\ [poll[t] EXCEPT !.device = d, !.rc = "error"].device = d
          BY <2>1 DEF Polls
        <5>. QED
          BY <5>1, <5>2
      <4>. QED
        BY <1>2, <4>1, <4>2 DEF ReadByte
    <3>2. Goto(t, "cleanup")
      BY <1>2, <2>2 DEF ReadByte, AfterRead
    <3>. HIDE DEF d
    <3>. QED
      BY <2>1, <2>2, <3>1, <3>2, OnePoll DEF UserPlaces
  <2>3. CASE t = Thread
    <3>1. PICK p \in Polls : poll' = [poll EXCEPT ![t] = p] /\ p.device = d + 1
      <4>1. \/ poll' = [poll EXCEPT ![t].device = d + 1]
            \/ \E ok \in BOOLEAN : poll' = [poll EXCEPT ![t].device = d + 1,
                                                      ![t].bytes = IF ok THEN @ + 1 ELSE @]
        <5>1. CASE TakeByte(t, d)
          BY <2>3, <5>1 DEF TakeByte
        <5>2. CASE poll' = [poll EXCEPT ![t].device = IF t = Thread THEN d + 1 ELSE @,
                                        ![t].rc = IF t = Thread THEN @ ELSE "error"]
          BY <1>0, <2>1, <2>3, <5>2 DEF Polls
        <5>. QED
          BY <1>2, <5>1, <5>2 DEF ReadByte
      <4>. QED
        BY <1>0, <2>1, <4>1 DEF Polls
    <3>2. Goto(t, IF d = NumDevices THEN "cleanup" ELSE "read")
      BY <1>2, <2>3 DEF ReadByte, AfterRead
    <3>3. d # NumDevices => d + 1 \in Devices
      BY <2>1, NumDevicesAssumption DEF Devices
    <3>. HIDE DEF d
    <3>. QED
      BY <2>3, <3>1, <3>2, <3>3, OnePoll DEF ThreadPlaces
  <2>. QED
    BY <2>2, <2>3
<1>3. ASSUME NEW t \in Threads, Cleanup(t) PROVE PlacesInv'
  <2>1. pc[t] = "cleanup" /\ (t # Thread => poll[t].device \in Devices) /\ poll[t] \in Polls
    BY <1>0, <1>3, CleanupSteps DEF PlacesInv
  <2>2. CASE poll' = poll
    <3>1. poll' = [poll EXCEPT ![t] = poll[t]] /\ Goto(t, "finish")
      BY <1>0, <1>3, <2>2, CleanupSteps
    <3>. QED
      BY <2>1, <3>1, OnePoll DEF ThreadPlaces, UserPlaces
  <2>3. CASE poll' = [poll EXCEPT ![t].rc = "error"]
    <3>. DEFINE p == [poll[t] EXCEPT !.rc = "error"]
    <3>1. poll' = [poll EXCEPT ![t] = p] /\ Goto(t, "finish")
      BY <1>3, <2>3, CleanupSteps
    <3>2. p \in Polls /\ (t # Thread => p.device \in Devices)
      BY <2>1, PollFields
    <3>. HIDE DEF p
    <3>. QED
      BY <3>1, <3>2, OnePoll DEF ThreadPlaces, UserPlaces
  <2>. QED
    BY <1>3, <2>2, <2>3, CleanupSteps
<1>6. ASSUME NEW u \in Users, NEW d \in Devices, serial_poll_ioctl(u, d) PROVE PlacesInv'
  <2>1. CASE TakesQueued(d)
    BY <1>6, <2>1 DEF serial_poll_ioctl, PlacesInv
  <2>2. CASE ~TakesQueued(d)
    <3>1. Goto(u, "setup") /\ poll' = [poll EXCEPT ![u] = [NoPoll EXCEPT !.device = d]]
      BY <1>6, <2>2 DEF serial_poll_ioctl
    <3>. QED
      BY <1>0, <3>1, OnePoll DEF UserPlaces
  <2>. QED
    BY <2>1, <2>2
<1>8. ASSUME NEW u \in Users, NEW d \in Devices, ibwait(u, d) PROVE PlacesInv'
  <2>1. Goto(u, "waiting") /\ poll' = [poll EXCEPT ![u] = [poll[u] EXCEPT !.device = d]]
    BY <1>8 DEF ibwait
  <2>2. poll[u] \in Polls /\ d \in Nat
    BY <1>0 DEF Devices
  <2>3. [poll[u] EXCEPT !.device = d] \in Polls /\ [poll[u] EXCEPT !.device = d].device = d
    BY <2>2, PollFields
  <2>. QED
    BY <1>0, <2>1, <2>3, OnePoll DEF UserPlaces
<1>. USE NamesAssumption, NumDevicesAssumption
     DEF PlacesInv, Threads, ThreadPlaces, UserPlaces, Polls, Devices, NoPoll, NoItem, Goto
<1>4. CASE WakeUp \/ Recheck \/ LockUser \/ LockBig \/ FinishAll \/ Judge
  BY <1>4 DEF WakeUp, Recheck, LockUser, LockBig, FinishAll, Judge
<1>5. ASSUME NEW u \in Users,
             LockBoard(u) \/ UnlockBoard(u) \/ autospoll_ioctl(u) \/ open_dev_ioctl(u)
      PROVE  PlacesInv'
  BY <1>5 DEF LockBoard, UnlockBoard, autospoll_ioctl, open_dev_ioctl
<1>7. ASSUME NEW u \in Users, FinishOne(u) PROVE PlacesInv'
  BY <1>7 DEF FinishOne
<1>9. ASSUME NEW u \in Users, wait_timeout(u) PROVE PlacesInv'
  BY <1>9 DEF wait_timeout
<1>12. ASSUME NEW u \in Users, wait_satisfied(u) PROVE PlacesInv'
  <2>1. \/ Goto(u, "idle") /\ poll' = [poll EXCEPT ![u] = NoPoll]
        \/ UNCHANGED <<pc, poll>>
    BY <1>12, LookSteps
  <2>2. CASE Goto(u, "idle") /\ poll' = [poll EXCEPT ![u] = NoPoll]
    BY <2>2
  <2>3. CASE UNCHANGED <<pc, poll>>
    BY <2>3
  <2>. QED
    BY <2>1, <2>2, <2>3
<1>10. ASSUME NEW d \in Devices, RequestService(d) PROVE PlacesInv'
  BY <1>10 DEF RequestService
<1>11. CASE UNCHANGED vars
  BY <1>11 DEF vars
<1>. QED
  BY <1>1, <1>2, <1>3, <1>4, <1>5, <1>6, <1>7, <1>8, <1>9, <1>10, <1>11, <1>12, UsersAssumption
  DEF Next, autospoll_thread, SerialPoll, Returns

-----------------------------------------------------------------------------
(* The locks, and the serial poll mode of the devices. *)

(* A poll is made with both locks, which its thread got before and gives   *)
(* back after it; nobody else unlocks the board meanwhile.                 *)
LocksInv ==
    /\ \A t \in Threads : pc[t] \in {"setup", "read", "cleanup", "finish"}
                            => bigMutex = t /\ userMutex = t
    /\ pc[Thread] = "lockBig" => userMutex = Thread

SpeInv == spe => failed \/ \E t \in Threads : Polling(t)

(* Every step keeps the locks with who polls, and the devices out of the   *)
(* serial poll mode while nobody does.                                     *)
LEMMA LocksStep == PlacesInv /\ LocksInv /\ SpeInv /\ [Next]_vars => LocksInv' /\ SpeInv'
<1>. SUFFICES ASSUME PlacesInv, LocksInv, SpeInv, [Next]_vars PROVE LocksInv' /\ SpeInv'
  OBVIOUS
<1>. DEFINE Good == LocksInv' /\ SpeInv'
<1>0. /\ pc \in [Threads -> ThreadPlaces \cup UserPlaces]
      /\ pc[Thread] \in ThreadPlaces /\ \A u \in Users : pc[u] \in UserPlaces
      /\ Nobody \notin Threads
  BY NamesAssumption DEF PlacesInv, Threads, Thread, Nobody
<1>. USE NamesAssumption
     DEF LocksInv, SpeInv, Polling, Threads, ThreadPlaces, UserPlaces, Goto, locks
<1>1. ASSUME NEW t \in Threads, Setup(t) PROVE Good
  BY <1>0, <1>1, SetupSteps
<1>2. ASSUME NEW t \in Threads, ReadByte(t) PROVE Good
  BY <1>0, <1>2 DEF ReadByte, AfterRead
<1>3. ASSUME NEW t \in Threads, Cleanup(t) PROVE Good
  BY <1>0, <1>3, CleanupSteps
<1>4. CASE WakeUp \/ Recheck \/ LockUser
  BY <1>0, <1>4 DEF WakeUp, Recheck, LockUser, bus
<1>5. CASE LockBig
  BY <1>0, <1>5 DEF LockBig, bus
<1>6. CASE FinishAll
  BY <1>0, <1>6 DEF FinishAll, bus
<1>7. CASE Judge
  BY <1>0, <1>7 DEF Judge
<1>8. ASSUME NEW u \in Users, LockBoard(u) \/ UnlockBoard(u) PROVE Good
  BY <1>0, <1>8 DEF LockBoard, UnlockBoard, bus
<1>9. ASSUME NEW u \in Users, NEW d \in Devices, serial_poll_ioctl(u, d) PROVE Good
  BY <1>0, <1>9 DEF serial_poll_ioctl, bus
<1>10. ASSUME NEW u \in Users, FinishOne(u) PROVE Good
  BY <1>0, <1>10 DEF FinishOne, bus
<1>11. ASSUME NEW u \in Users, NEW d \in Devices, ibwait(u, d) PROVE Good
  BY <1>0, <1>11 DEF ibwait, bus
<1>12. ASSUME NEW u \in Users, wait_timeout(u) PROVE Good
  BY <1>0, <1>12 DEF wait_timeout, bus
<1>13. ASSUME NEW u \in Users, wait_satisfied(u) PROVE Good
  BY <1>0, <1>13, LookSteps
<1>14. CASE UNCHANGED <<pc, locks, spe, failed>>
  BY <1>14
<1>15. ASSUME NEW u \in Users, autospoll_ioctl(u) \/ open_dev_ioctl(u)
       PROVE  UNCHANGED <<pc, locks, spe, failed>>
  BY <1>15 DEF autospoll_ioctl, open_dev_ioctl, bus
<1>16. ASSUME NEW d \in Devices, RequestService(d) PROVE UNCHANGED <<pc, locks, spe, failed>>
  BY <1>16 DEF RequestService
<1>17. UNCHANGED vars => UNCHANGED <<pc, locks, spe, failed>>
  BY DEF vars
<1>. QED
  BY <1>1, <1>2, <1>3, <1>4, <1>5, <1>6, <1>7, <1>8, <1>9, <1>10, <1>11, <1>12, <1>13,
     <1>14, <1>15, <1>16, <1>17, UsersAssumption
  DEF Next, autospoll_thread, SerialPoll, Returns

-----------------------------------------------------------------------------
(* The queue of status bytes. *)

Queues == [items : Seq(Nat), dropped : BOOLEAN]
Queue(items, dropped) == [items |-> items, dropped |-> dropped]
Told(items) == Queue(items, FALSE)

(* A queue is a record of its two fields, and stays one when either        *)
(* changes.                                                                *)
LEMMA QueueFields ==
    ASSUME NEW q \in Queues
    PROVE  /\ q = Queue(q.items, q.dropped)
           /\ q.items \in Seq(Nat) /\ q.dropped \in BOOLEAN
           /\ \A items : [q EXCEPT !.items = items] = Queue(items, q.dropped)
           /\ \A dropped : [q EXCEPT !.dropped = dropped] = Queue(q.items, dropped)
BY DEF Queues, Queue

(* What an operation of a queue returns.                                   *)
LEMMA ResultFields ==
    ASSUME NEW rc, NEW queue0, NEW item
    PROVE  /\ Result(rc, queue0, item).rc = rc
           /\ Result(rc, queue0, item).queue = queue0
           /\ Result(rc, queue0, item).item = item
BY DEF Result

(* A push either queues the byte last, or answers an error and drops it.   *)
LEMMA PushStatusByte ==
    ASSUME NEW q \in Queues, NEW byte \in Nat, NEW memory \in BOOLEAN
    PROVE  LET r == push_status_byte(q, byte, memory) IN
           /\ r.queue \in Queues
           /\ \/ /\ r.rc = "ok" /\ r.queue.items = Append(q.items, byte)
                 /\ Len(q.items) < QueueMax
              \/ r.rc # "ok" /\ r.queue.items = q.items
<1>. DEFINE r == push_status_byte(q, byte, memory)
<1>1. CASE Len(q.items) >= QueueMax
  <2>1. q.items # <<>>
    BY <1>1, QueueMaxAssumption DEF Queues
  <2>2. r = Result("EPIPE", Told(q.items), NoItem)
    BY <1>1, <2>1 DEF Queues, push_status_byte, pop_status_byte, PopFront, Result, Queue, Told
  <2>3. Told(q.items) \in Queues /\ Told(q.items).items = q.items
    BY DEF Queues, Queue, Told
  <2>. HIDE DEF r
  <2>4. r.rc # "ok" /\ r.queue \in Queues /\ r.queue.items = q.items
    BY <2>2, <2>3, ResultFields
  <2>. QED
    BY <2>4 DEF r
<1>2. CASE ~(Len(q.items) >= QueueMax) /\ memory
  <2>1. r = Result("ok", Queue(Append(q.items, byte), q.dropped), NoItem)
    <3>1. r = Append1(q, byte)
      BY <1>2, ResultFields DEF push_status_byte
    <3>2. [q EXCEPT !.items = Append(@, byte)] = Queue(Append(q.items, byte), q.dropped)
      BY QueueFields
    <3>. QED
      BY <3>1, <3>2 DEF Append1
  <2>2. Queue(Append(q.items, byte), q.dropped) \in Queues
        /\ Queue(Append(q.items, byte), q.dropped).items = Append(q.items, byte)
    BY DEF Queues, Queue
  <2>. HIDE DEF r
  <2>3. r.rc = "ok" /\ r.queue \in Queues /\ r.queue.items = Append(q.items, byte)
    BY <2>1, <2>2, ResultFields
  <2>4. Len(q.items) < QueueMax
    BY <1>2, QueueMaxAssumption DEF Queues
  <2>. QED
    BY <2>3, <2>4 DEF r
<1>3. CASE ~(Len(q.items) >= QueueMax) /\ ~memory
  <2>1. r = Result("ENOMEM", q, NoItem)
    BY <1>3, ResultFields DEF push_status_byte
  <2>. HIDE DEF r
  <2>2. r.rc # "ok" /\ r.queue = q
    BY <2>1, ResultFields
  <2>. QED
    BY <2>2 DEF r
<1>. QED
  BY <1>1, <1>2, <1>3

(* A pop takes the first byte, or tells that one was dropped.              *)
LEMMA PopStatusByte ==
    ASSUME NEW q \in Queues, q.items # <<>>
    PROVE  LET r == pop_status_byte(q) IN
           /\ r.queue \in Queues
           /\ \/ r.rc = "ok" /\ r.queue.items = Tail(q.items) /\ r.item = Head(q.items)
              \/ r.rc # "ok" /\ r.queue.items = q.items
<1>. DEFINE r == pop_status_byte(q)
<1>1. CASE q.dropped
  <2>1. r = Result("EPIPE", Told(q.items), NoItem)
    BY <1>1, QueueFields DEF pop_status_byte, PopFront, Told
  <2>2. Told(q.items) \in Queues /\ Told(q.items).items = q.items
    BY DEF Queues, Queue, Told
  <2>. HIDE DEF r
  <2>3. r.rc # "ok" /\ r.queue \in Queues /\ r.queue.items = q.items
    BY <2>1, <2>2, ResultFields
  <2>. QED
    BY <2>3 DEF r
<1>2. CASE ~q.dropped
  <2>1. r = Result("ok", Queue(Tail(q.items), q.dropped), Head(q.items))
    BY <1>2, QueueFields DEF pop_status_byte, PopFront
  <2>2. Queue(Tail(q.items), q.dropped) \in Queues
        /\ Queue(Tail(q.items), q.dropped).items = Tail(q.items)
    BY DEF Queues, Queue
  <2>. HIDE DEF r
  <2>3. /\ r.rc = "ok" /\ r.queue \in Queues /\ r.queue.items = Tail(q.items)
        /\ r.item = Head(q.items)
    BY <2>1, <2>2, ResultFields
  <2>. QED
    BY <2>3 DEF r
<1>. QED
  BY <1>1, <1>2 DEF Queues

-----------------------------------------------------------------------------
(* Sequences of requests in the order they were made. *)

Elements(s) == {s[i] : i \in 1 .. Len(s)}
Increasing(s) == \A i, j \in 1 .. Len(s) : i < j => s[i] < s[j]

(* A byte above all that are queued goes last.                             *)
LEMMA AppendIncreasing ==
    ASSUME NEW s \in Seq(Nat), Increasing(s), NEW x \in Nat, \A b \in Elements(s) : b < x
    PROVE  Increasing(Append(s, x)) /\ Elements(Append(s, x)) = Elements(s) \cup {x}
<1>1. \A i \in 1 .. Len(s) : s[i] < x
  BY DEF Elements
<1>2. /\ Len(Append(s, x)) = Len(s) + 1 /\ Len(s) \in Nat
      /\ \A i \in 1 .. Len(s) : Append(s, x)[i] = s[i]
      /\ Append(s, x)[Len(s) + 1] = x
  OBVIOUS
<1>3. 1 .. Len(s) + 1 = (1 .. Len(s)) \cup {Len(s) + 1}
  BY <1>2
<1>4. Increasing(Append(s, x))
  BY <1>1, <1>2 DEF Increasing
<1>5. Elements(Append(s, x)) = Elements(s) \cup {x}
  BY <1>2, <1>3 DEF Elements
<1>. QED
  BY <1>4, <1>5

(* The first byte is below the rest.                                       *)
LEMMA TailIncreasing ==
    ASSUME NEW s \in Seq(Nat), Increasing(s), s # <<>>
    PROVE  /\ Increasing(Tail(s))
           /\ Elements(Tail(s)) = Elements(s) \ {Head(s)}
           /\ Head(s) \in Elements(s)
           /\ \A b \in Elements(Tail(s)) : Head(s) < b
<1>1. /\ Len(s) \in Nat /\ Len(s) > 0 /\ Head(s) = s[1] /\ Len(Tail(s)) = Len(s) - 1
      /\ \A i \in 1 .. Len(s) - 1 : Tail(s)[i] = s[i + 1]
      /\ \A i \in 1 .. Len(s) : s[i] \in Nat
  OBVIOUS
<1>2. Increasing(Tail(s))
  BY <1>1 DEF Increasing
<1>3. \A i \in 2 .. Len(s) : s[1] < s[i]
  BY <1>1 DEF Increasing
<1>4. Elements(Tail(s)) = {s[i] : i \in 2 .. Len(s)}
  <2>1. \A i \in 2 .. Len(s) : i - 1 \in 1 .. Len(s) - 1 /\ s[i] = Tail(s)[i - 1]
    BY <1>1
  <2>2. \A i \in 1 .. Len(s) - 1 : i + 1 \in 2 .. Len(s)
    BY <1>1
  <2>. QED
    <3>1. ASSUME NEW i \in 1 .. Len(s) - 1
          PROVE  Tail(s)[i] \in {s[j] : j \in 2 .. Len(s)}
      <4>1. Tail(s)[i] = s[i + 1] /\ i + 1 \in 2 .. Len(s)
        BY <1>1, <2>2
      <4>. QED
        BY <4>1
    <3>2. Elements(Tail(s)) = {Tail(s)[i] : i \in 1 .. Len(s) - 1}
      BY <1>1 DEF Elements
    <3>3. \A i \in 2 .. Len(s) : s[i] \in {Tail(s)[j] : j \in 1 .. Len(s) - 1}
      BY <2>1
    <3>. QED
      BY <3>1, <3>2, <3>3
<1>5. Elements(s) = Elements(Tail(s)) \cup {s[1]} /\ s[1] \notin Elements(Tail(s))
  <2>1. 1 .. Len(s) = (2 .. Len(s)) \cup {1}
    BY <1>1
  <2>2. \A i \in 2 .. Len(s) : s[i] # s[1]
    BY <1>1, <1>3
  <2>. QED
    BY <1>4, <2>1, <2>2 DEF Elements
<1>. QED
  BY <1>1, <1>2, <1>3, <1>4, <1>5

-----------------------------------------------------------------------------
(* What a device has: the bytes queued and not handed over, the last byte  *)
(* handed over, and the request it asserts, of all the requests made.      *)

InOrder(items, queued, last, request, made) ==
    /\ items \in Seq(Nat) /\ Increasing(items) /\ Elements(items) = queued
    /\ made \in Nat /\ last \in 0 .. made /\ request \in 0 .. made
    /\ \A b \in queued : b > last /\ b <= made
    /\ request # NoItem => request > last /\ \A b \in queued : b < request

(* A device makes the next request of all.                                 *)
LEMMA Requested ==
    ASSUME NEW items, NEW queued, NEW last, NEW made,
           InOrder(items, queued, last, NoItem, made)
    PROVE  InOrder(items, queued, last, made + 1, made + 1)
BY DEF InOrder, NoItem, Elements

(* Another device makes it.                                                *)
LEMMA OthersRequested ==
    ASSUME NEW items, NEW queued, NEW last, NEW made, NEW request,
           InOrder(items, queued, last, request, made)
    PROVE  InOrder(items, queued, last, request, made + 1)
BY DEF InOrder, NoItem, Elements

(* A request is answered and its byte dropped, or there was none.          *)
LEMMA Forgotten ==
    ASSUME NEW items, NEW queued, NEW last, NEW made, NEW request,
           InOrder(items, queued, last, request, made)
    PROVE  InOrder(items, queued, last, NoItem, made)
BY DEF InOrder, NoItem

(* A request is answered and its byte queued.                              *)
LEMMA Queued ==
    ASSUME NEW items, NEW queued, NEW last, NEW made, NEW request,
           InOrder(items, queued, last, request, made), request # NoItem
    PROVE  InOrder(Append(items, request), queued \cup {request}, last, NoItem, made)
<1>1. /\ items \in Seq(Nat) /\ Increasing(items) /\ request \in Nat
      /\ \A b \in Elements(items) : b < request
  BY DEF InOrder
<1>2. /\ Increasing(Append(items, request)) /\ Append(items, request) \in Seq(Nat)
      /\ Elements(Append(items, request)) = Elements(items) \cup {request}
  BY <1>1, AppendIncreasing
<1>. QED
  BY <1>2 DEF InOrder, NoItem

(* A request is answered past an empty queue: its byte may be handed over. *)
LEMMA HandedOver ==
    ASSUME NEW items, NEW queued, NEW last, NEW made, NEW request, items = <<>>,
           InOrder(items, queued, last, request, made), request # NoItem
    PROVE  request > last /\ InOrder(items, queued, request, NoItem, made)
BY DEF InOrder, NoItem, Elements

(* The first byte queued is handed over.                                   *)
LEMMA Popped ==
    ASSUME NEW items, NEW queued, NEW last, NEW made, NEW request,
           InOrder(items, queued, last, request, made), items # <<>>
    PROVE  InOrder(Tail(items), queued \ {Head(items)}, Head(items), request, made)
<1>1. items \in Seq(Nat) /\ Increasing(items)
  BY DEF InOrder
<1>2. /\ Increasing(Tail(items)) /\ Tail(items) \in Seq(Nat)
      /\ Elements(Tail(items)) = Elements(items) \ {Head(items)}
      /\ Head(items) \in Elements(items)
      /\ \A b \in Elements(Tail(items)) : Head(items) < b
  BY <1>1, TailIncreasing
<1>3. \A b \in Elements(items) : b \in Nat
  BY <1>1 DEF Elements
<1>. QED
  BY <1>2, <1>3 DEF InOrder, NoItem

(* A process that polls found the queue of its device empty, and nobody    *)
(* queues a byte while it holds the lock of the board.                     *)
PollPlaces == {"setup", "read", "cleanup", "finish"}
PolledIsEmpty ==
    \A u \in Users : pc[u] \in PollPlaces => queue[poll[u].device].items = <<>>

(* The byte it has read, if any, is the next to be handed over.            *)
HeldOrder(u, d) ==
    /\ poll[u].byte > given[d]
    /\ InOrder(queue[d].items, accepted[d], poll[u].byte, asserted[d], requests)
HeldBytes ==
    \A u \in Users :
       /\ pc[u] \in {"setup", "read"} => poll[u].byte = NoItem
       /\ pc[u] \in {"cleanup", "finish"} /\ poll[u].byte # NoItem
            => HeldOrder(u, poll[u].device)

DeviceOrder(d) == InOrder(queue[d].items, accepted[d], given[d], asserted[d], requests)

OrderInv ==
    /\ requests \in Nat
    /\ queue \in [Devices -> Queues] /\ asserted \in [Devices -> Nat]
    /\ accepted \in [Devices -> SUBSET Nat] /\ given \in [Devices -> Nat]
    /\ \A d \in Devices : DeviceOrder(d)
    /\ PolledIsEmpty /\ HeldBytes

(* What a step that changes what one device has must show.                 *)
LEMMA OneDevice ==
    ASSUME OrderInv, NEW d \in Devices, NEW q \in Queues, NEW queued \in SUBSET Nat,
           NEW last \in Nat, NEW request \in Nat,
           queue' = [queue EXCEPT ![d] = q], accepted' = [accepted EXCEPT ![d] = queued],
           given' = [given EXCEPT ![d] = last],
           asserted' = [asserted EXCEPT ![d] = request],
           requests' = requests, InOrder(q.items, queued, last, request, requests),
           PolledIsEmpty', HeldBytes'
    PROVE  OrderInv'
<1>1. ASSUME NEW e \in Devices PROVE DeviceOrder(e)'
  <2>1. CASE e = d
    BY <2>1 DEF OrderInv, DeviceOrder
  <2>2. CASE e # d
    BY <2>2 DEF OrderInv, DeviceOrder
  <2>. QED
    BY <2>1, <2>2
<1>. QED
  BY <1>1 DEF OrderInv

(* While a thread holds the lock of the board, or nobody does, no other    *)
(* process is in the middle of a poll.                                     *)
LEMMA NobodyElsePolls ==
    ASSUME LocksInv, NEW t, bigMutex = t, NEW u \in Users, pc[u] \in PollPlaces
    PROVE  t = u
BY DEF LocksInv, Threads, PollPlaces

(* When no process polls there is nothing to say of its poll.              *)
LEMMA NothingHeld ==
    ASSUME \A u \in Users : pc[u] \notin PollPlaces
    PROVE  PolledIsEmpty /\ HeldBytes
BY DEF PolledIsEmpty, HeldBytes, PollPlaces

(* One byte of a serial poll, which the thread queues or drops.            *)
LEMMA ThreadReads ==
    ASSUME PlacesInv, LocksInv, OrderInv, ReadByte(Thread)
    PROVE  OrderInv'
<1>. DEFINE d == poll[Thread].device
            byte == asserted[d]
<1>1. /\ pc[Thread] = "read" /\ bigMutex = Thread /\ d \in Devices /\ requests' = requests
      /\ \E to \in {"cleanup", "read"} : Goto(Thread, to)
      /\ Thread \notin Users /\ Thread \in Threads /\ Users \subseteq Threads
  BY NamesAssumption DEF ReadByte, PlacesInv, AfterRead, Threads
<1>2. PolledIsEmpty' /\ HeldBytes'
  <2>1. ASSUME NEW u \in Users PROVE pc'[u] \notin PollPlaces
    <3>1. pc[u] \notin PollPlaces
      BY <1>1, NobodyElsePolls
    <3>. QED
      BY <1>1, <3>1 DEF Goto, PlacesInv
  <2>. QED
    BY <2>1 DEF PolledIsEmpty, HeldBytes, PollPlaces
<1>3. /\ DeviceOrder(d) /\ queue[d] \in Queues /\ accepted[d] \in SUBSET Nat
      /\ given[d] \in Nat /\ byte \in Nat /\ 0 \in Nat
  BY <1>1 DEF OrderInv
<1>4. /\ queue = [queue EXCEPT ![d] = queue[d]] /\ given = [given EXCEPT ![d] = given[d]]
      /\ accepted = [accepted EXCEPT ![d] = accepted[d]]
      /\ asserted = [asserted EXCEPT ![d] = byte]
  BY <1>1 DEF OrderInv
<1>5. InOrder(queue[d].items, accepted[d], given[d], 0, requests)
  BY <1>3, Forgotten DEF DeviceOrder, NoItem
<1>6. CASE UNCHANGED <<asserted, queue, history>>
  BY <1>1, <1>2, <1>6 DEF OrderInv, DeviceOrder, history
<1>7. CASE asserted' = [asserted EXCEPT ![d] = NoItem] /\ UNCHANGED <<queue, history>>
  <2>1. /\ queue' = [queue EXCEPT ![d] = queue[d]]
        /\ given' = [given EXCEPT ![d] = given[d]]
        /\ accepted' = [accepted EXCEPT ![d] = accepted[d]]
        /\ asserted' = [asserted EXCEPT ![d] = 0]
    BY <1>4, <1>7 DEF history, NoItem
  <2>. HIDE DEF d
  <2>. QED
    BY <1>1, <1>2, <1>3, <1>5, <2>1, OneDevice
<1>8. CASE /\ TakeByte(Thread, d) /\ byte # NoItem
           /\ asserted' = [asserted EXCEPT ![d] = NoItem]
  <2>1. asserted' = [asserted EXCEPT ![d] = 0]
    BY <1>8 DEF NoItem
  <2>2. PICK memory \in BOOLEAN :
          LET r == push_status_byte(queue[d], byte, memory) IN
          /\ queue' = [queue EXCEPT ![d] = r.queue]
          /\ accepted' = [accepted EXCEPT ![d] = IF r.rc = "ok" THEN @ \cup {byte} ELSE @]
          /\ given' = given
    BY <1>8 DEF TakeByte
  <2>. DEFINE r == push_status_byte(queue[d], byte, memory)
  <2>3. /\ r.queue \in Queues
        /\ \/ r.rc = "ok" /\ r.queue.items = Append(queue[d].items, byte)
           \/ r.rc # "ok" /\ r.queue.items = queue[d].items
    BY <1>3, PushStatusByte
  <2>4. /\ queue' = [queue EXCEPT ![d] = r.queue] /\ given' = [given EXCEPT ![d] = given[d]]
        /\ accepted' = [accepted EXCEPT ![d] = IF r.rc = "ok" THEN @ \cup {byte} ELSE @]
    BY <1>4, <2>2
  <2>. HIDE DEF r
  <2>5. CASE r.rc = "ok"
    <3>1. InOrder(r.queue.items, accepted[d] \cup {byte}, given[d], 0, requests)
      <4>1. InOrder(queue[d].items, accepted[d], given[d], byte, requests)
        BY <1>3 DEF DeviceOrder
      <4>. HIDE DEF d, byte
      <4>2. InOrder(Append(queue[d].items, byte), accepted[d] \cup {byte}, given[d], NoItem,
                    requests)
        BY <1>8, <4>1, Queued
      <4>. QED
        BY <2>3, <2>5, <4>2 DEF NoItem
    <3>2. accepted' = [accepted EXCEPT ![d] = accepted[d] \cup {byte}]
          /\ accepted[d] \cup {byte} \in SUBSET Nat
      BY <1>3, <2>4, <2>5
    <3>. HIDE DEF d, byte
    <3>. QED
      BY <1>1, <1>2, <1>3, <2>1, <2>3, <2>4, <3>1, <3>2, OneDevice
  <2>6. CASE r.rc # "ok"
    <3>1. InOrder(r.queue.items, accepted[d], given[d], 0, requests)
      BY <1>5, <2>3, <2>6
    <3>2. accepted' = [accepted EXCEPT ![d] = accepted[d]]
      BY <2>4, <2>6
    <3>. HIDE DEF d, byte
    <3>. QED
      BY <1>1, <1>2, <1>3, <2>1, <2>3, <2>4, <3>1, <3>2, OneDevice
  <2>. QED
    BY <2>5, <2>6
<1>9. \/ UNCHANGED <<asserted, queue, history>>
      \/ asserted' = [asserted EXCEPT ![d] = NoItem] /\ UNCHANGED <<queue, history>>
      \/ /\ TakeByte(Thread, d) /\ byte # NoItem
         /\ asserted' = [asserted EXCEPT ![d] = NoItem]
  BY DEF ReadByte, TakeByte
<1>. QED
  BY <1>6, <1>7, <1>8, <1>9

(* One byte of a serial poll, which a process keeps to hand it over.       *)
LEMMA UserReads ==
    ASSUME PlacesInv, LocksInv, OrderInv, NEW t \in Users, ReadByte(t)
    PROVE  OrderInv'
<1>. DEFINE d == poll[t].device
            byte == asserted[d]
<1>1. /\ pc[t] = "read" /\ bigMutex = t /\ d \in Devices /\ requests' = requests
      /\ t # Thread /\ Goto(t, "cleanup") /\ UNCHANGED <<queue, history>>
      /\ Users \subseteq Threads
  BY NamesAssumption DEF ReadByte, TakeByte, PlacesInv, AfterRead, Threads
<1>2. /\ DeviceOrder(d) /\ queue[d] \in Queues /\ accepted[d] \in SUBSET Nat
      /\ given[d] \in Nat /\ byte \in Nat /\ 0 \in Nat
      /\ queue[d].items = <<>> /\ poll[t].byte = NoItem
  BY <1>1 DEF OrderInv, PolledIsEmpty, HeldBytes, PollPlaces
<1>0. poll \in [Threads -> Polls] /\ poll[t] \in Polls
  BY <1>1 DEF PlacesInv
<1>3. poll'[t].device = d
  <2>1. CASE TakeByte(t, d)
    BY <1>0, <1>1, <2>1 DEF TakeByte, Polls
  <2>2. CASE poll' = [poll EXCEPT ![t].device = IF t = Thread THEN d + 1 ELSE @,
                                  ![t].rc = IF t = Thread THEN @ ELSE "error"]
    BY <1>0, <1>1, <2>2 DEF Polls
  <2>. QED
    BY <2>1, <2>2 DEF ReadByte
<1>4. \A u \in Users : u # t => pc'[u] \notin PollPlaces
  BY <1>1, NobodyElsePolls DEF Goto, PlacesInv
<1>5. PolledIsEmpty'
  BY <1>1, <1>2, <1>3, <1>4 DEF PolledIsEmpty
<1>6. pc'[t] = "cleanup"
  BY <1>1 DEF Goto, PlacesInv
<1>7. CASE poll'[t].byte = NoItem
  <2>1. HeldBytes'
    BY <1>4, <1>6, <1>7 DEF HeldBytes, PollPlaces
  <2>2. asserted' \in {asserted, [asserted EXCEPT ![d] = NoItem]}
    BY DEF ReadByte
  <2>3. CASE asserted' = asserted
    BY <1>1, <1>5, <2>1, <2>3 DEF OrderInv, DeviceOrder, history
  <2>4. CASE asserted' = [asserted EXCEPT ![d] = NoItem]
    <3>1. /\ queue' = [queue EXCEPT ![d] = queue[d]]
          /\ given' = [given EXCEPT ![d] = given[d]]
          /\ accepted' = [accepted EXCEPT ![d] = accepted[d]]
          /\ asserted' = [asserted EXCEPT ![d] = 0]
      BY <1>1, <2>4 DEF OrderInv, history, NoItem
    <3>2. InOrder(queue[d].items, accepted[d], given[d], 0, requests)
      BY <1>2, Forgotten DEF DeviceOrder, NoItem
    <3>. HIDE DEF d
    <3>. QED
      BY <1>1, <1>2, <1>5, <2>1, <3>1, <3>2, OneDevice
  <2>. QED
    BY <2>2, <2>3, <2>4
<1>8. CASE poll'[t].byte # NoItem
  <2>1. poll'[t].byte = byte /\ asserted' = [asserted EXCEPT ![d] = NoItem]
    <3>1. CASE TakeByte(t, d) /\ asserted' = [asserted EXCEPT ![d] = NoItem]
      BY <1>1, <3>1 DEF TakeByte, PlacesInv, Polls
    <3>2. CASE poll' = [poll EXCEPT ![t].device = IF t = Thread THEN d + 1 ELSE @,
                                    ![t].rc = IF t = Thread THEN @ ELSE "error"]
      BY <1>1, <1>2, <1>8, <3>2 DEF PlacesInv, Polls
    <3>. QED
      BY <3>1, <3>2 DEF ReadByte
  <2>2. byte > given[d] /\ InOrder(queue[d].items, accepted[d], byte, NoItem, requests)
    <3>1. InOrder(queue[d].items, accepted[d], given[d], byte, requests)
      BY <1>2 DEF DeviceOrder
    <3>. HIDE DEF d, byte
    <3>. QED
      BY <1>2, <1>8, <2>1, <3>1, HandedOver
  <2>3. asserted'[d] = NoItem
    BY <1>1, <2>1 DEF OrderInv
  <2>4. ASSUME NEW e, e = d PROVE HeldOrder(t, e)'
    <3>. HIDE DEF d, byte
    <3>. QED
      BY <1>1, <2>1, <2>2, <2>3, <2>4 DEF HeldOrder, history
  <2>5. HeldBytes'
    BY <1>3, <1>4, <1>6, <2>4 DEF HeldBytes, PollPlaces
  <2>6. /\ queue' = [queue EXCEPT ![d] = queue[d]]
        /\ given' = [given EXCEPT ![d] = given[d]]
        /\ accepted' = [accepted EXCEPT ![d] = accepted[d]]
        /\ asserted' = [asserted EXCEPT ![d] = 0]
    BY <1>1, <2>1 DEF OrderInv, history, NoItem
  <2>7. InOrder(queue[d].items, accepted[d], given[d], 0, requests)
    BY <1>2, Forgotten DEF DeviceOrder, NoItem
  <2>. HIDE DEF d
  <2>. QED
    BY <1>1, <1>2, <1>5, <2>5, <2>6, <2>7, OneDevice
<1>. QED
  BY <1>7, <1>8

(* The end of the poll of a process: the byte is handed over or lost.      *)
LEMMA FinishOrder ==
    ASSUME PlacesInv, LocksInv, OrderInv, NEW u \in Users, FinishOne(u)
    PROVE  OrderInv'
<1>. DEFINE d == poll[u].device
            byte == poll[u].byte
<1>1. /\ pc[u] = "finish" /\ bigMutex = u /\ d \in Devices /\ Goto(u, "idle")
      /\ UNCHANGED <<requests, asserted, queue>> /\ Users \subseteq Threads
      /\ byte \in Nat
  BY DEF FinishOne, LocksInv, PlacesInv, Threads, bus, Polls
<1>2. PolledIsEmpty' /\ HeldBytes'
  <2>1. ASSUME NEW v \in Users PROVE pc'[v] \notin PollPlaces
    <3>1. v # u => pc[v] \notin PollPlaces
      BY <1>1, NobodyElsePolls
    <3>. QED
      BY <1>1, <3>1 DEF Goto, PlacesInv, PollPlaces
  <2>. QED
    BY <2>1 DEF PolledIsEmpty, HeldBytes, PollPlaces
<1>3. CASE UNCHANGED history
  BY <1>1, <1>2, <1>3 DEF OrderInv, DeviceOrder, history
<1>4. CASE byte # NoItem /\ HandOver(d, byte)
  <2>1. InOrder(queue[d].items, accepted[d], byte, asserted[d], requests)
    BY <1>1, <1>4 DEF OrderInv, HeldBytes, HeldOrder
  <2>2. queue[d].items = <<>>
    BY <1>1 DEF OrderInv, PolledIsEmpty, PollPlaces
  <2>3. accepted[d] \ {byte} = accepted[d]
    BY <2>1, <2>2 DEF InOrder, Elements
  <2>4. /\ queue' = [queue EXCEPT ![d] = queue[d]]
        /\ given' = [given EXCEPT ![d] = byte]
        /\ accepted' = [accepted EXCEPT ![d] = accepted[d]]
        /\ asserted' = [asserted EXCEPT ![d] = asserted[d]]
        /\ queue[d] \in Queues /\ accepted[d] \in SUBSET Nat /\ asserted[d] \in Nat
    BY <1>1, <1>4, <2>3 DEF HandOver, OrderInv
  <2>. HIDE DEF d, byte
  <2>. QED
    BY <1>1, <1>2, <2>1, <2>4, OneDevice
<1>. QED
  BY <1>3, <1>4 DEF FinishOne

(* IBRSP: the first byte queued, or the begin of a poll when there is      *)
(* none.                                                                   *)
LEMMA IbrspOrder ==
    ASSUME PlacesInv, LocksInv, OrderInv, NEW u \in Users, NEW d \in Devices,
           serial_poll_ioctl(u, d)
    PROVE  OrderInv'
<1>1. /\ bigMutex = Nobody /\ requests' = requests /\ asserted' = asserted /\ u \in Threads
      /\ u # Thread
  BY NamesAssumption DEF serial_poll_ioctl, bus, Threads
<1>2. /\ DeviceOrder(d) /\ queue[d] \in Queues /\ accepted[d] \in SUBSET Nat
      /\ given[d] \in Nat /\ asserted[d] \in Nat
  BY DEF OrderInv
<1>3. \A v \in Users : pc[v] \notin PollPlaces
  <2>1. \A v \in Users : v # Nobody
    BY NamesAssumption
  <2>. QED
    BY <1>1, <2>1, NobodyElsePolls
<1>4. CASE TakesQueued(d)
  <2>. DEFINE r == pop_status_byte(queue[d])
  <2>1. /\ queue' = [queue EXCEPT ![d] = r.queue] /\ pc' = pc
        /\ IF r.rc = "ok" THEN HandOver(d, r.item) ELSE UNCHANGED history
    BY <1>4 DEF serial_poll_ioctl
  <2>2. queue[d].items # <<>> /\ queue[d].items \in Seq(Nat)
    BY <1>2, <1>4 DEF TakesQueued, Queues
  <2>3. /\ r.queue \in Queues
        /\ \/ r.rc = "ok" /\ r.queue.items = Tail(queue[d].items)
                          /\ r.item = Head(queue[d].items)
           \/ r.rc # "ok" /\ r.queue.items = queue[d].items
    BY <1>2, <2>2, PopStatusByte
  <2>4. PolledIsEmpty' /\ HeldBytes'
    BY <1>3, <2>1 DEF PolledIsEmpty, HeldBytes, PollPlaces
  <2>5. asserted' = [asserted EXCEPT ![d] = asserted[d]]
    BY <1>1 DEF OrderInv
  <2>. HIDE DEF r
  <2>6. CASE r.rc = "ok"
    <3>. DEFINE head == Head(queue[d].items)
    <3>1. InOrder(r.queue.items, accepted[d] \ {head}, head, asserted[d], requests)
      <4>1. InOrder(queue[d].items, accepted[d], given[d], asserted[d], requests)
        BY <1>2 DEF DeviceOrder
      <4>2. InOrder(Tail(queue[d].items), accepted[d] \ {head}, head, asserted[d], requests)
        BY <2>2, <4>1, Popped
      <4>. QED
        BY <2>3, <2>6, <4>2
    <3>2. given' = [given EXCEPT ![d] = head]
          /\ accepted' = [accepted EXCEPT ![d] = accepted[d] \ {head}]
      BY <2>1, <2>3, <2>6 DEF HandOver
    <3>3. head \in Nat /\ accepted[d] \ {head} \in SUBSET Nat
      BY <1>2, <2>2
    <3>. HIDE DEF head
    <3>. QED
      BY <1>1, <1>2, <2>1, <2>3, <2>4, <2>5, <3>1, <3>2, <3>3, OneDevice
  <2>7. CASE r.rc # "ok"
    <3>1. InOrder(r.queue.items, accepted[d], given[d], asserted[d], requests)
      BY <1>2, <2>3, <2>7 DEF DeviceOrder
    <3>2. given' = [given EXCEPT ![d] = given[d]]
          /\ accepted' = [accepted EXCEPT ![d] = accepted[d]]
      BY <2>1, <2>7 DEF history, OrderInv
    <3>. QED
      BY <1>1, <1>2, <2>1, <2>3, <2>4, <2>5, <3>1, <3>2, OneDevice
  <2>. QED
    BY <2>6, <2>7
<1>5. CASE ~TakesQueued(d)
  <2>1. /\ UNCHANGED <<queue, history>> /\ Goto(u, "setup")
        /\ poll' = [poll EXCEPT ![u] = [NoPoll EXCEPT !.device = d]]
    BY <1>5 DEF serial_poll_ioctl
  <2>2. queue[d].items = <<>>
    BY <1>2, <1>5 DEF TakesQueued, Queues
  <2>3. poll'[u].device = d /\ poll'[u].byte = NoItem /\ pc'[u] = "setup"
    BY <1>1, <2>1 DEF PlacesInv, NoPoll, Goto
  <2>4. \A v \in Users : v # u => pc'[v] = pc[v]
    BY <2>1 DEF PlacesInv, Goto, Threads
  <2>5. PolledIsEmpty' /\ HeldBytes'
    BY <1>3, <2>1, <2>2, <2>3, <2>4 DEF PolledIsEmpty, HeldBytes, PollPlaces
  <2>. QED
    BY <1>1, <2>1, <2>5 DEF OrderInv, DeviceOrder, history
<1>. QED
  BY <1>4, <1>5

(* A device asserts SRQ for a byte above all others.                       *)
LEMMA RequestOrder ==
    ASSUME PlacesInv, OrderInv, NEW d \in Devices, RequestService(d)
    PROVE  OrderInv'
<1>1. /\ asserted[d] = NoItem /\ requests' = requests + 1
      /\ asserted' = [asserted EXCEPT ![d] = requests + 1]
      /\ UNCHANGED <<queue, history, pc, poll>>
  BY DEF RequestService
<1>2. ASSUME NEW e \in Devices PROVE DeviceOrder(e)'
  <2>1. CASE e = d
    <3>1. InOrder(queue[d].items, accepted[d], given[d], requests + 1, requests + 1)
      BY <1>1, Requested DEF OrderInv, DeviceOrder
    <3>. QED
      BY <1>1, <2>1, <3>1 DEF OrderInv, DeviceOrder, history
  <2>2. CASE e # d
    <3>1. InOrder(queue[e].items, accepted[e], given[e], asserted[e], requests + 1)
      BY OthersRequested DEF OrderInv, DeviceOrder
    <3>. QED
      BY <1>1, <2>2, <3>1 DEF OrderInv, DeviceOrder, history
  <2>. QED
    BY <2>1, <2>2
<1>3. HeldBytes'
  <2>1. ASSUME NEW u \in Users, pc[u] \in {"cleanup", "finish"}, poll[u].byte # NoItem
        PROVE  HeldOrder(u, poll[u].device)'
    <3>. DEFINE e == poll[u].device
                byte == poll[u].byte
    <3>1. /\ e \in Devices /\ byte > given[e]
          /\ InOrder(queue[e].items, accepted[e], byte, asserted[e], requests)
      BY <2>1 DEF PlacesInv, OrderInv, HeldBytes, HeldOrder
    <3>2. CASE e = d
      <4>1. InOrder(queue[e].items, accepted[e], byte, requests + 1, requests + 1)
        BY <1>1, <3>1, <3>2, Requested
      <4>2. asserted'[e] = requests + 1
        BY <1>1, <3>2 DEF OrderInv
      <4>. HIDE DEF byte
      <4>. QED
        BY <1>1, <3>1, <4>1, <4>2 DEF HeldOrder, history, byte
    <3>3. CASE e # d
      <4>1. InOrder(queue[e].items, accepted[e], byte, asserted[e], requests + 1)
        BY <3>1, OthersRequested
      <4>2. asserted'[e] = asserted[e]
        BY <1>1, <3>1, <3>3 DEF OrderInv
      <4>. HIDE DEF byte
      <4>. QED
        BY <1>1, <3>1, <4>1, <4>2 DEF HeldOrder, history, byte
    <3>. QED
      BY <3>2, <3>3
  <2>. QED
    BY <1>1, <2>1 DEF OrderInv, HeldBytes
<1>. QED
  BY <1>1, <1>2, <1>3 DEF OrderInv, PolledIsEmpty, history

(* Everything else leaves the bytes alone and begins no poll of a process. *)
DataKept ==
    /\ UNCHANGED <<requests, asserted, queue, history>>
    /\ \A u \in Users : pc'[u] \in PollPlaces =>
          /\ pc[u] \in PollPlaces /\ (pc'[u] \in {"setup", "read"} => pc[u] \in {"setup", "read"})
          /\ poll'[u].device = poll[u].device /\ poll'[u].byte = poll[u].byte

(* Four actions touch the bytes or begin or end the poll of a process.     *)
LEMMA DataChanges ==
    ASSUME PlacesInv, [Next]_vars
    PROVE  \/ DataKept
           \/ ReadByte(Thread)
           \/ \E u \in Users : ReadByte(u) \/ FinishOne(u)
           \/ \E u \in Users, d \in Devices : serial_poll_ioctl(u, d)
           \/ \E d \in Devices : RequestService(d)
<1>0. /\ pc \in [Threads -> ThreadPlaces \cup UserPlaces] /\ poll \in [Threads -> Polls]
      /\ Thread \notin Users /\ Threads = Users \cup {Thread}
  BY NamesAssumption DEF PlacesInv, Threads
<1>. USE DEF PollPlaces
<1>1. ASSUME NEW t \in Threads, Setup(t) PROVE DataKept
  BY <1>0, <1>1, SetupSteps DEF DataKept, Goto, Polls
<1>2. ASSUME NEW t \in Threads, Cleanup(t) PROVE DataKept
  BY <1>0, <1>2, CleanupSteps DEF DataKept, Goto, Polls
<1>3. CASE WakeUp \/ Recheck \/ LockUser \/ LockBig \/ FinishAll \/ Judge
  BY <1>0, <1>3 DEF WakeUp, Recheck, LockUser, LockBig, FinishAll, Judge, DataKept, Goto, bus
<1>4. ASSUME NEW u \in Users,
             LockBoard(u) \/ UnlockBoard(u) \/ autospoll_ioctl(u) \/ open_dev_ioctl(u)
      PROVE  DataKept
  BY <1>4 DEF LockBoard, UnlockBoard, autospoll_ioctl, open_dev_ioctl, DataKept, bus
<1>6. ASSUME NEW u \in Users, NEW d \in Devices, ibwait(u, d) PROVE DataKept
  BY <1>0, <1>6 DEF ibwait, DataKept, Goto, bus
<1>7. ASSUME NEW u \in Users, wait_satisfied(u) PROVE DataKept
  BY <1>0, <1>7, LookSteps DEF DataKept, Goto
<1>8. ASSUME NEW u \in Users, wait_timeout(u) PROVE DataKept
  BY <1>0, <1>8 DEF wait_timeout, DataKept, Goto, bus
<1>9. CASE UNCHANGED vars
  BY <1>9 DEF vars, DataKept, history
<1>. QED
  BY <1>0, <1>1, <1>2, <1>3, <1>4, <1>6, <1>7, <1>8, <1>9, UsersAssumption
  DEF Next, autospoll_thread, SerialPoll, Returns

(* Every step keeps the bytes in order.                                    *)
LEMMA OrderStep == PlacesInv /\ LocksInv /\ OrderInv /\ [Next]_vars => OrderInv'
<1>. SUFFICES ASSUME PlacesInv, LocksInv, OrderInv, [Next]_vars PROVE OrderInv'
  OBVIOUS
<1>1. CASE DataKept
  <2>1. PolledIsEmpty'
    BY <1>1 DEF DataKept, OrderInv, PolledIsEmpty
  <2>2. HeldBytes'
    BY <1>1 DEF DataKept, OrderInv, HeldBytes, HeldOrder, history, PollPlaces
  <2>. QED
    BY <1>1, <2>1, <2>2 DEF DataKept, OrderInv, DeviceOrder, history
<1>. QED
  BY <1>1, DataChanges, ThreadReads, UserReads, FinishOrder, IbrspOrder, RequestOrder

-----------------------------------------------------------------------------
(* Processes asleep for RQS. *)

(* The poll of the thread has an error only when SPE or SPD failed.        *)
ErrorIsFailure == poll[Thread].rc # "ok" => failed

Asleep(u) == pc[u] = "waiting" /\ u \notin awake /\ queue[poll[u].device].items # <<>>

WakeInv ==
    /\ ErrorIsFailure
    /\ \A u \in Users : Asleep(u) => pc[Thread] \in {"read", "cleanup", "finish"} \/ failed

(* Every step keeps the promise to the sleepers.                           *)
LEMMA WakeStep ==
    PlacesInv /\ OrderInv /\ WakeInv /\ [Next]_vars => WakeInv'
<1>. SUFFICES ASSUME PlacesInv, OrderInv, WakeInv, [Next]_vars PROVE WakeInv'
  OBVIOUS
<1>0. /\ pc \in [Threads -> ThreadPlaces \cup UserPlaces] /\ poll \in [Threads -> Polls]
      /\ Thread \notin Users /\ Thread \in Threads /\ Users \subseteq Threads
      /\ queue \in [Devices -> Queues]
      /\ \A u \in Users : pc[u] = "waiting" => poll[u].device \in Devices
  BY NamesAssumption DEF PlacesInv, Threads, OrderInv
<1>. USE DEF WakeInv, ErrorIsFailure, Asleep, Goto, Polls
<1>1. ASSUME NEW t \in Threads, Setup(t) PROVE WakeInv'
  BY <1>0, <1>1, SetupSteps
<1>2. ASSUME NEW t \in Threads, ReadByte(t) PROVE WakeInv'
  <2>1. CASE t = Thread
    BY <1>0, <1>2, <2>1 DEF ReadByte, TakeByte, AfterRead
  <2>2. CASE t # Thread
    BY <1>0, <1>2, <2>2 DEF ReadByte, TakeByte, AfterRead
  <2>. QED
    BY <2>1, <2>2
<1>3. ASSUME NEW t \in Threads, Cleanup(t) PROVE WakeInv'
  BY <1>0, <1>3, CleanupSteps
<1>4. CASE WakeUp
  BY <1>0, <1>4 DEF WakeUp
<1>5. CASE Recheck \/ LockUser \/ LockBig
  BY <1>0, <1>5 DEF Recheck, LockUser, LockBig, bus
<1>6. CASE FinishAll
  <2>1. pc' = [pc EXCEPT ![Thread] = "judge"] /\ UNCHANGED <<failed, queue, poll>>
        /\ awake' = awake \cup WokenBy(poll[Thread].rc)
    BY <1>6 DEF FinishAll, bus
  <2>2. poll[Thread].rc = "ok" => Threads \subseteq awake'
    BY <2>1 DEF WokenBy
  <2>. QED
    BY <1>0, <2>1, <2>2
<1>7. CASE Judge
  BY <1>0, <1>7 DEF Judge, NoPoll
<1>8. ASSUME NEW u \in Users,
             LockBoard(u) \/ UnlockBoard(u) \/ autospoll_ioctl(u) \/ open_dev_ioctl(u)
      PROVE  WakeInv'
  BY <1>8 DEF LockBoard, UnlockBoard, autospoll_ioctl, open_dev_ioctl, bus
<1>9. ASSUME NEW u \in Users, NEW d \in Devices, serial_poll_ioctl(u, d) PROVE WakeInv'
  <2>1. CASE TakesQueued(d)
    <3>1. /\ queue' = [queue EXCEPT ![d] = pop_status_byte(queue[d]).queue]
          /\ UNCHANGED <<pc, poll, awake, failed>>
      BY <1>9, <2>1 DEF serial_poll_ioctl, bus
    <3>2. queue[d].items # <<>> /\ queue[d] \in Queues
      BY <1>0, <2>1 DEF TakesQueued, Queues
    <3>3. \A e \in Devices : queue'[e].items # <<>> => queue[e].items # <<>>
      BY <1>0, <3>1, <3>2
    <3>. QED
      BY <1>0, <3>1, <3>3
  <2>2. CASE ~TakesQueued(d)
    BY <1>0, <1>9, <2>2 DEF serial_poll_ioctl, bus
  <2>. QED
    BY <2>1, <2>2
<1>10. ASSUME NEW u \in Users, FinishOne(u) PROVE WakeInv'
  BY <1>0, <1>10 DEF FinishOne, bus
<1>11. ASSUME NEW u \in Users, NEW d \in Devices, ibwait(u, d) PROVE WakeInv'
  BY <1>0, <1>11 DEF ibwait, bus
<1>12. ASSUME NEW u \in Users, wait_timeout(u) PROVE WakeInv'
  BY <1>0, <1>12 DEF wait_timeout, bus
<1>13. ASSUME NEW u \in Users, wait_satisfied(u) PROVE WakeInv'
  <2>1. UNCHANGED <<queue, failed>>
    BY <1>13, LookSteps
  <2>2. CASE pc' = [pc EXCEPT ![u] = "idle"] /\ poll' = [poll EXCEPT ![u] = NoPoll]
             /\ awake' = awake
    BY <1>0, <2>1, <2>2
  <2>3. CASE /\ pc[u] # "timedOut" /\ ~(Len(queue[poll[u].device].items) > 0)
             /\ awake' = awake \ {u} /\ UNCHANGED <<pc, poll>>
    <3>1. pc[u] = "waiting"
      BY <1>13, <2>3, LookSteps
    <3>2. queue[poll[u].device].items = <<>>
      BY <1>0, <2>3, <3>1 DEF Queues
    <3>. QED
      BY <1>0, <2>1, <2>3, <3>2
  <2>. QED
    BY <1>13, <2>2, <2>3, LookSteps
<1>14. ASSUME NEW d \in Devices, RequestService(d) PROVE WakeInv'
  BY <1>0, <1>14 DEF RequestService
<1>15. CASE UNCHANGED vars
  BY <1>15 DEF vars
<1>. HIDE DEF WakeInv, ErrorIsFailure, Asleep, Goto, Polls
<1>. QED
  BY <1>0, <1>1, <1>2, <1>3, <1>4, <1>5, <1>6, <1>7, <1>8, <1>9, <1>10, <1>11, <1>12, <1>13,
     <1>14, <1>15, UsersAssumption
  DEF Next, autospoll_thread, SerialPoll, Returns

-----------------------------------------------------------------------------
(* The theorems. *)

PollInv == PlacesInv /\ LocksInv /\ SpeInv /\ OrderInv /\ WakeInv

(* At first there is no byte, no lock is held and nobody polls.            *)
LEMMA PollInit == Init => PollInv
<1>. SUFFICES ASSUME Init PROVE PollInv
  OBVIOUS
<1>0. Thread \in Threads /\ Thread \notin Users /\ Users \subseteq Threads
  BY NamesAssumption DEF Threads
<1>1. PlacesInv
  <2>1. 1 \in Devices /\ NoPoll \in Polls
    BY NumDevicesAssumption DEF Devices, Polls, NoPoll, NoItem
  <2>. QED
    BY <1>0, <2>1 DEF Init, PlacesInv, ThreadPlaces, UserPlaces
<1>2. LocksInv /\ SpeInv
  BY <1>0 DEF Init, LocksInv, SpeInv
<1>3. OrderInv
  <2>1. EmptyQueue \in Queues /\ EmptyQueue.items = <<>>
    BY DEF EmptyQueue, Queues
  <2>2. InOrder(<<>>, {}, 0, NoItem, 0)
    BY DEF InOrder, Increasing, Elements, NoItem
  <2>3. \A u \in Users : pc[u] = "idle"
    BY <1>0 DEF Init
  <2>4. /\ queue \in [Devices -> Queues] /\ asserted \in [Devices -> Nat] /\ requests \in Nat
        /\ accepted \in [Devices -> SUBSET Nat] /\ given \in [Devices -> Nat]
    BY <2>1 DEF Init, NoItem
  <2>5. \A d \in Devices : DeviceOrder(d)
    BY <2>1, <2>2 DEF Init, DeviceOrder
  <2>. QED
    BY <2>3, <2>4, <2>5 DEF OrderInv, PolledIsEmpty, HeldBytes, PollPlaces
<1>4. WakeInv
  BY <1>0 DEF Init, WakeInv, ErrorIsFailure, Asleep, NoPoll
<1>. QED
  BY <1>1, <1>2, <1>3, <1>4 DEF PollInv

(* Whatever the order of the thread's steps, the processes' and the        *)
(* devices'.                                                               *)
THEOREM PollInvariant == Spec => []PollInv
<1>1. PollInv /\ [Next]_vars => PollInv'
  <2>1. PollInv => asserted \in [Devices -> Nat]
    BY DEF PollInv, OrderInv
  <2>. QED
    BY <2>1, PlacesStep, LocksStep, OrderStep, WakeStep DEF PollInv
<1>. QED
  BY <1>1, PollInit, PTL DEF Spec

(* A status byte the thread has queued stays queued until IBRSP hands it   *)
(* over, and the bytes of a device are handed over in the order of its     *)
(* requests, those a poll of a process has read included.                  *)
THEOREM BytesInOrder == Spec => []StatusBytesInOrder
<1>1. ASSUME PollInv PROVE StatusBytesInOrder
  <2>1. ASSUME NEW d \in Devices, NEW u \in Users, ReadOf(u, d)
        PROVE  accepted[d] = {} /\ poll[u].byte > given[d]
    <3>1. queue[d].items = <<>> /\ HeldOrder(u, d)
      BY <1>1, <2>1 DEF PollInv, OrderInv, PolledIsEmpty, HeldBytes, ReadOf, PollPlaces
    <3>. QED
      BY <3>1 DEF HeldOrder, InOrder, Elements
  <2>2. ASSUME NEW d \in Devices
        PROVE  /\ Increasing(queue[d].items) /\ Contents(d) = accepted[d]
               /\ \A b \in accepted[d] : b > given[d]
    BY <1>1, <2>2 DEF PollInv, OrderInv, DeviceOrder, InOrder, Contents, Elements
  <2>. QED
    BY <2>1, <2>2 DEF StatusBytesInOrder, Increasing
<1>. QED
  BY <1>1, PollInvariant, PTL

(* Two polls are never mixed, and a poll is ended by SPD unless SPE or SPD *)
(* itself has failed.                                                      *)
THEOREM PollsAreEnded == Spec => []SpdFollowsSpe
<1>1. PollInv => SpdFollowsSpe
  BY DEF PollInv, LocksInv, SpeInv, SpdFollowsSpe, Polling
<1>. QED
  BY <1>1, PollInvariant, PTL

(* A process asleep for RQS has no byte queued, unless the thread is about *)
(* to wake it or could not end a poll.                                     *)
THEOREM SleepersAreWoken == Spec => []WaitersAreWoken
<1>1. PollInv => WaitersAreWoken
  <2>1. \A d : Contents(d) # {} => queue[d].items # <<>>
    BY DEF Contents
  <2>. QED
    BY <2>1 DEF PollInv, WakeInv, Asleep, WaitersAreWoken, SleepsOnByte
<1>. QED
  BY <1>1, PollInvariant, PTL

-----------------------------------------------------------------------------
(* Type correctness. *)

(* The words of the board, its mutexes and its wait queue.                 *)
BoardInv ==
    /\ requests \in Nat /\ requests <= MaxRequests
    /\ srqi \in BOOLEAN /\ stuck \in BOOLEAN /\ spe \in BOOLEAN
    /\ autopoll \subseteq Enablers /\ awake \subseteq Threads
    /\ userMutex \in Threads \cup {Nobody} /\ bigMutex \in Threads \cup {Nobody}

(* Every step leaves the words what they are.                              *)
LEMMA BoardStep == BoardInv /\ [Next]_vars => BoardInv'
<1>. SUFFICES ASSUME BoardInv, [Next]_vars PROVE BoardInv'
  OBVIOUS
<1>. USE MaxRequestsAssumption DEF BoardInv, bus, locks, Threads
<1>1. ASSUME NEW t \in Threads, SerialPoll(t) PROVE BoardInv'
  <2>1. Asserting \in BOOLEAN
    BY DEF Asserting
  <2>2. /\ UNCHANGED <<requests, stuck, autopoll, userMutex, bigMutex, awake>>
        /\ srqi' = Asserting /\ spe' \in {spe, TRUE, FALSE}
    <3>1. CASE Setup(t)
      BY <3>1, Zenon DEF Setup, locks
    <3>2. CASE ReadByte(t)
      BY <3>2, Zenon DEF ReadByte, locks
    <3>3. CASE Cleanup(t)
      BY <3>3, Zenon DEF Cleanup, locks
    <3>. QED
      BY <1>1, <3>1, <3>2, <3>3 DEF SerialPoll
  <2>. QED
    BY <2>1, <2>2
<1>2. CASE WakeUp \/ Recheck \/ LockUser \/ LockBig
  BY <1>2 DEF WakeUp, Recheck, LockUser, LockBig
<1>3. CASE FinishAll \/ Judge
  BY <1>3 DEF FinishAll, Judge, WokenBy
<1>4. ASSUME NEW u \in Users,
             LockBoard(u) \/ UnlockBoard(u) \/ open_dev_ioctl(u) \/ FinishOne(u)
      PROVE  BoardInv'
  BY <1>4 DEF LockBoard, UnlockBoard, open_dev_ioctl, FinishOne
<1>5. ASSUME NEW u \in Users, NEW d \in Devices, serial_poll_ioctl(u, d) \/ ibwait(u, d)
      PROVE  BoardInv'
  <2>1. /\ UNCHANGED <<requests, srqi, stuck, spe, autopoll, userMutex>>
        /\ bigMutex' \in {bigMutex, u} /\ awake' \in {awake, awake \cup {u}}
    BY <1>5 DEF serial_poll_ioctl, ibwait
  <2>. QED
    BY <2>1
<1>6. ASSUME NEW u \in Users, wait_satisfied(u) PROVE BoardInv'
  <2>1. Asserting \in BOOLEAN
    BY DEF Asserting
  <2>2. /\ UNCHANGED <<requests, stuck, spe, autopoll, userMutex, bigMutex>>
        /\ srqi' = Asserting
    BY <1>6, Zenon DEF wait_satisfied, locks
  <2>3. awake' \subseteq awake
    BY <1>6, LookSteps
  <2>. QED
    BY <2>1, <2>2, <2>3
<1>7. ASSUME NEW u \in Users, wait_timeout(u) PROVE BoardInv'
  BY <1>7 DEF wait_timeout
<1>8. ASSUME NEW u \in Enablers, autospoll_ioctl(u) PROVE BoardInv'
  BY <1>8 DEF autospoll_ioctl
<1>9. ASSUME NEW d \in Devices, RequestService(d) PROVE BoardInv'
  BY <1>9 DEF RequestService
<1>10. CASE UNCHANGED vars
  BY <1>10 DEF vars
<1>. QED
  BY <1>1, <1>2, <1>3, <1>4, <1>5, <1>6, <1>7, <1>8, <1>9, <1>10, UsersAssumption
  DEF Next, autospoll_thread, Returns

Short == \A d \in Devices : Len(queue[d].items) <= QueueMax

(* A byte is queued only when there is room for it.                        *)
LEMMA ShortStep ==
    ASSUME PlacesInv, OrderInv, Short, [Next]_vars
    PROVE  Short'
<1>0. /\ queue \in [Devices -> Queues] /\ asserted \in [Devices -> Nat]
      /\ QueueMax \in Nat
  BY QueueMaxAssumption DEF OrderInv
<1>1. CASE UNCHANGED queue
  BY <1>1 DEF Short
<1>2. ASSUME NEW d \in Devices, NEW q \in Queues, queue' = [queue EXCEPT ![d] = q],
             Len(q.items) <= QueueMax
      PROVE  Short'
  BY <1>0, <1>2 DEF Short
<1>3. ASSUME NEW t \in Threads, ReadByte(t) PROVE Short'
  <2>. DEFINE d == poll[t].device
  <2>1. d \in Devices
    BY <1>3 DEF ReadByte, PlacesInv
  <2>2. \/ UNCHANGED queue
        \/ \E memory \in BOOLEAN :
              queue' = [queue EXCEPT ![d] = push_status_byte(queue[d], asserted[d], memory).queue]
    BY <1>3 DEF ReadByte, TakeByte
  <2>3. ASSUME NEW memory \in BOOLEAN
        PROVE  LET q == push_status_byte(queue[d], asserted[d], memory).queue IN
               q \in Queues /\ Len(q.items) <= QueueMax
    <3>. DEFINE r == push_status_byte(queue[d], asserted[d], memory)
    <3>1. queue[d] \in Queues /\ asserted[d] \in Nat /\ Len(queue[d].items) <= QueueMax
      BY <1>0, <2>1 DEF Short
    <3>2. /\ r.queue \in Queues
          /\ \/ r.queue.items = Append(queue[d].items, asserted[d]) /\ Len(queue[d].items) < QueueMax
             \/ r.queue.items = queue[d].items
      BY <3>1, PushStatusByte
    <3>. HIDE DEF r
    <3>3. queue[d].items \in Seq(Nat)
      BY <3>1 DEF Queues
    <3>4. Len(r.queue.items) <= QueueMax
      BY <1>0, <3>1, <3>2, <3>3
    <3>. QED
      BY <3>2, <3>4 DEF r
  <2>. HIDE DEF d
  <2>. QED
    BY <1>1, <1>2, <2>1, <2>2, <2>3
<1>4. ASSUME NEW u \in Users, NEW d \in Devices, serial_poll_ioctl(u, d) PROVE Short'
  <2>1. CASE ~TakesQueued(d)
    BY <1>1, <1>4, <2>1 DEF serial_poll_ioctl
  <2>2. CASE TakesQueued(d)
    <3>1. queue' = [queue EXCEPT ![d] = pop_status_byte(queue[d]).queue]
      BY <1>4, <2>2 DEF serial_poll_ioctl
    <3>. DEFINE r == pop_status_byte(queue[d])
    <3>2. queue[d] \in Queues /\ queue[d].items # <<>> /\ Len(queue[d].items) <= QueueMax
      BY <1>0, <2>2 DEF Short, TakesQueued, Queues
    <3>3. r.queue \in Queues /\ r.queue.items \in {Tail(queue[d].items), queue[d].items}
      BY <3>2, PopStatusByte
    <3>. HIDE DEF r
    <3>4. queue[d].items \in Seq(Nat)
      BY <3>2 DEF Queues
    <3>5. Len(r.queue.items) <= QueueMax
      BY <1>0, <3>2, <3>3, <3>4
    <3>. QED
      BY <1>2, <3>1, <3>3, <3>5 DEF r
  <2>. QED
    BY <2>1, <2>2
<1>5. CASE DataKept
  BY <1>1, <1>5 DEF DataKept
<1>6. ASSUME NEW d \in Devices, RequestService(d) PROVE Short'
  BY <1>1, <1>6 DEF RequestService
<1>7. ASSUME NEW u \in Users, FinishOne(u) PROVE Short'
  BY <1>1, <1>7 DEF FinishOne
<1>. QED
  BY <1>3, <1>4, <1>5, <1>6, <1>7, DataChanges DEF Threads

(* Types: in particular the bound of the status byte queues, which the     *)
(* thread keeps although a full queue answers an error and loses no item.  *)
THEOREM TypeCorrect == Spec => []TypeOK
<1>1. Init => BoardInv /\ Short
  <2>1. Init => BoardInv
    <3>. SUFFICES ASSUME Init PROVE BoardInv
      OBVIOUS
    <3>1. requests = 0 /\ 0 <= MaxRequests
      BY MaxRequestsAssumption DEF Init
    <3>2. /\ srqi = FALSE /\ stuck = FALSE /\ spe = FALSE /\ awake = Threads
          /\ autopoll \subseteq Enablers /\ userMutex = Nobody /\ bigMutex = Nobody
      BY DEF Init
    <3>. QED
      BY <3>1, <3>2 DEF BoardInv
  <2>2. Len(<<>>) <= QueueMax
    BY QueueMaxAssumption
  <2>3. Init => Short
    BY <2>2 DEF Init, Short, EmptyQueue
  <2>. QED
    BY <2>1, <2>3
<1>2. PollInv /\ BoardInv /\ Short /\ [Next]_vars => BoardInv' /\ Short'
  BY BoardStep, ShortStep DEF PollInv
<1>3. ASSUME PollInv, BoardInv, Short PROVE TypeOK
  <2>1. requests \in 0 .. MaxRequests /\ asserted \in [Devices -> 0 .. MaxRequests]
    BY <1>3, MaxRequestsAssumption DEF PollInv, OrderInv, DeviceOrder, InOrder, BoardInv
  <2>. QED
    BY <1>3, <2>1 DEF BoardInv, Short, TypeOK
<1>. QED
  BY <1>1, <1>2, <1>3, PollInvariant, PTL DEF Spec
=============================================================================
