---------------------------- MODULE AsyncService ----------------------------
(***************************************************************************)
(* What the asynchronous special functions promise a flowchart, with no      *)
(* threads, lists or semaphores: one queue of accepted calls, executed one  *)
(* at a time in the order of acceptance ("Model3: Sequential async s.f.     *)
(* processing", Inc/Driver.h) and reported in that order.  AsyncFunctions   *)
(* implements it.                                                           *)
(***************************************************************************)
EXTENDS Naturals, Sequences

CONSTANTS Blocks, Calls

VARIABLES
  queue,    \* the blocks accepted and not yet reported, oldest first
  request,  \* what the current call of a block asks for
  outcome,  \* "PENDING" until executed; "SKIPPED" when it was spoiled before
  spoiled,  \* the blocks called again while in the queue
  status    \* the status word of the block's flowchart

vars == <<queue, request, outcome, spoiled, status>>

Queued(b) == \E i \in 1..Len(queue) : queue[i] = b

Outcomes(call) == IF call = "CLEAR_TXRX" THEN {"WRONGPARAM"} ELSE {"OK"}

Init ==
  /\ queue = <<>>
  /\ request = [b \in Blocks |-> "NONE"]
  /\ outcome = [b \in Blocks |-> "PENDING"]
  /\ spoiled = {}
  /\ status = [b \in Blocks |-> "NONE"]

\* A call of a block that is not in the queue is accepted.
Accept(b, call) ==
  /\ ~Queued(b)
  /\ queue' = Append(queue, b)
  /\ request' = [request EXCEPT ![b] = call]
  /\ status' = [status EXCEPT ![b] = "BUSY"]
  /\ UNCHANGED <<outcome, spoiled>>

\* A call of a block that is in the queue is refused and spoils the one there.
Reject(b) ==
  /\ Queued(b)
  /\ spoiled' = spoiled \cup {b}
  /\ status' = [status EXCEPT ![b] = "ABORTED"]
  /\ UNCHANGED <<queue, request, outcome>>

\* The oldest call that has not been executed is, or is skipped if spoiled.
Execute ==
  \E i \in 1..Len(queue) :
    LET b == queue[i] IN
    /\ outcome[b] = "PENDING"
    /\ \A j \in 1..(i - 1) : outcome[queue[j]] # "PENDING"
    /\ \E o \in Outcomes(request[b]) \cup (IF b \in spoiled THEN {"SKIPPED"} ELSE {}) :
         outcome' = [outcome EXCEPT ![b] = o]
    /\ UNCHANGED <<queue, request, spoiled, status>>

\* The oldest call is reported once executed; a spoiled one keeps "ABORTED".
Report ==
  /\ queue # <<>>
  /\ LET b == Head(queue) IN
       /\ outcome[b] # "PENDING"
       /\ status' = IF b \in spoiled THEN status ELSE [status EXCEPT ![b] = outcome[b]]
       /\ outcome' = [outcome EXCEPT ![b] = "PENDING"]
       /\ spoiled' = spoiled \ {b}
  /\ queue' = Tail(queue)
  /\ UNCHANGED request

Next ==
  \/ \E b \in Blocks, call \in Calls : Accept(b, call)
  \/ \E b \in Blocks : Reject(b)
  \/ Execute
  \/ Report

Spec == Init /\ [][Next]_vars

=============================================================================
