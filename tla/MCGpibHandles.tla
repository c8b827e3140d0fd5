--------------------------- MODULE MCGpibHandles ----------------------------
(***************************************************************************)
(* GpibHandles and GpibEvents together, where a behaviour uses handles of  *)
(* devices, or the board lock, or changes the driver and polls, or has     *)
(* events.  All open and close the board, configure it and take it on and  *)
(* off line, where the kinds meet; they share no other state.              *)
(***************************************************************************)
EXTENDS GpibHandles, TLC

CONSTANTS FirstModule,
          MaxUse,      \* bound: what autospollers reaches after lost updates
          QueueMax, MaxEvents

VARIABLES kind,         \* what the behaviour uses
         queue, pushed, refused, taken      \* of GpibEvents

Events == INSTANCE GpibEvents

events == <<queue, pushed, refused, taken>>
all == <<vars, kind, events>>

MCInit == Init /\ Events!Init /\ kind \in {"devices", "lock", "counts", "events"}

(* A step of a process, which takes the event queue along when the board   *)
(* goes on or off line.                                                    *)
ProcessStep ==
    /\ Next /\ UNCHANGED kind
    /\ ~useRaced /\ autospollers' <= MaxUse
    /\ kind # "devices" => UNCHANGED descriptors
    /\ kind # "lock" => \A f \in Files : pc'[f] \notin {"lock", "unlock"}
    /\ kind # "counts" => /\ UNCHANGED autopoll
                          /\ provider' \in {provider, FirstModule}
    /\ IF online' = online THEN UNCHANGED events
       ELSE Events!ibonline \/ Events!iboffline

(* The driver has an event, or a process whose file has a reference to the *)
(* driver's module asks for one.                                           *)
EventStep ==
    /\ kind = "events" /\ UNCHANGED <<vars, kind>>
    /\ \/ \E memory \in BOOLEAN : Events!PushEvent(memory)
       \/ (\E f \in gotModule : Idle(f)) /\ Events!event_ioctl

(* A behaviour that has lost a reference is not followed: the counts would *)
(* grow without a bound.                                                   *)
Ends == useRaced /\ UNCHANGED all

MCSpec == MCInit /\ [][ProcessStep \/ EventStep \/ Ends]_all

(* The events of the board keep their order, whatever its processes do.    *)
EventsInOrder == Events!EventsInOrder

(* No action tells one process from another.                               *)
FilesAlike == Permutations(Files)
=============================================================================
