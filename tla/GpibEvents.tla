----------------------------- MODULE GpibEvents ------------------------------
(***************************************************************************)
(* The event queue of a board (event.c): the interface driver (external)   *)
(* pushes events, from its interrupt routine and otherwise, and a process  *)
(* reads them with IBEVENT; the board is taken on and off line meanwhile.  *)
(* Push and pop run under the queue's spin lock.  An event is told from    *)
(* the others by its place in the order of the pushes.                     *)
(***************************************************************************)
EXTENDS GpibQueues

CONSTANT MaxEvents      \* bound: events pushed

VARIABLES
    online,
    queue,        \* board->event_queue
    pushed,       \* history: the events that came
    refused,      \* history: those whose push answered an error
    taken         \* history: those that left the queue, in turn

vars == <<online, queue, pushed, refused, taken>>

Init ==
    /\ online = FALSE /\ queue = EmptyQueue
    /\ pushed = 0 /\ refused = {} /\ taken = <<>>

ibonline ==
    /\ ~online /\ online' = TRUE
    /\ UNCHANGED <<queue, pushed, refused, taken>>

(* gpib_deallocate_board pops until the queue is empty, past the report of *)
(* a loss.                                                                 *)
iboffline ==
    /\ online /\ online' = FALSE
    /\ queue' = IF queue.items = <<>> THEN queue ELSE EmptyQueue
    /\ taken' = taken \o queue.items
    /\ UNCHANGED <<pushed, refused>>

PushEvent(memory) ==
    LET event == pushed + 1
        r == push_gpib_event(queue, event, memory)
    IN  /\ online /\ pushed < MaxEvents
        /\ pushed' = event /\ queue' = r.queue
        /\ refused' = IF r.rc = "ok" THEN refused ELSE refused \cup {event}
        /\ UNCHANGED <<online, taken>>

(* EventNone is no event, and is answered by an empty queue.               *)
event_ioctl ==
    LET r == pop_gpib_event(queue) IN
    /\ online
    /\ queue' = r.queue
    /\ taken' = IF r.item = NoItem THEN taken ELSE Append(taken, r.item)
    /\ UNCHANGED <<online, pushed, refused>>

Next ==
    \/ ibonline \/ iboffline \/ event_ioctl
    \/ \E memory \in BOOLEAN : PushEvent(memory)

Spec == Init /\ [][Next]_vars

-----------------------------------------------------------------------------
(* The events that a push has accepted leave the queue in the order they   *)
(* came, none twice and none but by IBEVENT or when the board is taken off *)
(* line: a full queue, and want of memory, cost the event that comes, and  *)
(* its push answers an error to the driver.  The reader is not told of the *)
(* loss to a full queue: the push itself clears the flag it has set.       *)
EventsInOrder ==
    taken \o queue.items = SelectSeq([i \in 1 .. pushed |-> i],
                                     LAMBDA event : event \notin refused)
=============================================================================
