----------------------------- MODULE GpibQueues -----------------------------
(***************************************************************************)
(* The two bounded first-in first-out queues of the GPIB core as operators *)
(* on their values: the status bytes of a device (autopoll.c) and the      *)
(* events of a board (event.c).  A queue is [items, dropped]; an operation *)
(* returns [rc, queue, item].                                              *)
(***************************************************************************)
EXTENDS Naturals, Sequences

CONSTANT QueueMax       \* max_num_status_bytes, max_num_events

ASSUME QueueMaxAssumption == QueueMax \in Nat \ {0}

EmptyQueue == [items |-> <<>>, dropped |-> FALSE]
NoItem == 0

Result(rc, queue, item) == [rc |-> rc, queue |-> queue, item |-> item]

(* The flag comes first: it is answered, and cleared, before any item.     *)
PopFront(q) ==
    IF q.dropped
    THEN Result("EPIPE", [q EXCEPT !.dropped = FALSE], NoItem)
    ELSE Result("ok", [q EXCEPT !.items = Tail(@)], Head(q.items))

pop_status_byte(q) ==
    IF q.items = <<>> THEN Result("EIO", q, NoItem) ELSE PopFront(q)

(* An empty queue answers EventNone, and keeps the flag.                   *)
pop_gpib_event(q) ==
    IF q.items = <<>> THEN Result("ok", q, NoItem) ELSE PopFront(q)

Append1(q, item) == Result("ok", [q EXCEPT !.items = Append(@, item)], NoItem)

(* A full queue: the flag is set, and the pop that should make room        *)
(* answers it instead; its error is returned and nothing is pushed.        *)
push_status_byte(q, item, memory) ==
    LET room == IF Len(q.items) >= QueueMax
                THEN pop_status_byte([q EXCEPT !.dropped = TRUE])
                ELSE Result("ok", q, NoItem)
    IN  CASE room.rc # "ok" -> room
          [] room.rc = "ok" /\ ~memory -> Result("ENOMEM", room.queue, NoItem)
          [] room.rc = "ok" /\ memory -> Append1(room.queue, item)

push_gpib_event_MakesRoom(q, item, memory) ==
    LET room == IF Len(q.items) >= QueueMax THEN [q EXCEPT !.items = Tail(@)] ELSE q
    IN  IF memory THEN Append1(room, item)
        ELSE Result("ENOMEM", [room EXCEPT !.dropped = TRUE], NoItem)

push_gpib_event(q, item, memory) ==
    LET room == IF Len(q.items) >= QueueMax
                THEN pop_gpib_event([q EXCEPT !.dropped = TRUE])
                ELSE Result("ok", q, NoItem)
    IN  CASE room.rc # "ok" -> room
          [] room.rc = "ok" /\ ~memory ->
               Result("ENOMEM", [room.queue EXCEPT !.dropped = TRUE], NoItem)
          [] room.rc = "ok" /\ memory -> Append1(room.queue, item)
=============================================================================
