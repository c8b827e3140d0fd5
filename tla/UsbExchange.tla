---------------------------- MODULE UsbExchange -----------------------------
(***************************************************************************)
(* The requests and answers on the two bulk pipes of the adapter, as the   *)
(* threads of the running driver issue them (ni_usb_gpib.c, Card.c,        *)
(* niUsbGpib.c).  No lock orders the threads, no request carries a number  *)
(* and no function empties the IN pipe: an answer belongs to whoever       *)
(* receives next.                                                          *)
(*                                                                         *)
(* The engine writes, sets addresses and takes the board off line; the     *)
(* background task reads and requests service; usb_thread, when one is     *)
(* left, reads the status.  rtOpen has called ibrsc( 0 ), so ibwrt and     *)
(* ibrd go straight to the transfer (BoardControl has the other case).     *)
(*                                                                         *)
(* The adapter (external) answers requests in order, as late as it likes,  *)
(* and refuses a request while Capacity of them wait.  Any waiting thread  *)
(* may be the one whose transfer takes the next answer.                    *)
(***************************************************************************)
EXTENDS UsbTransfers, Sequences, FiniteSets

CONSTANTS Threads,      \* some of "engine", "task" and "usb"
          Capacity      \* requests, and answers, the adapter can hold

ASSUME ThreadsAssumption == Threads \subseteq {"engine", "task", "usb"}
ASSUME CapacityAssumption == Capacity \in Nat \ {0}

VARIABLES
    call,     \* the entry each thread executes, "idle" between calls
    step,     \* the transfer it is about to make, or making
    sent,     \* "yes": it waits for the answer to its request; "failed": it
              \* waits although its request did not go out; "no"
    lines,    \* line status exchanges made so far by the call
    cic,      \* CIC in the status word the thread holds
    ibsta,    \* CIC in usbdata->ibsta, shared by the threads
    out, in,  \* the pipes
    epMatches, \* usb_thread: the uninitialised ep equals _pipeIntRcv
    clean     \* history: no request went out whose answer its sender did not
              \* wait for to the end, no two exchanges at once

vars == <<call, step, sent, lines, cic, ibsta, out, in, epMatches, clean>>

Nobody == "nobody"
Owners == Threads \cup {Nobody}

CallsOf(t) == CASE t = "engine" -> {"write", "pad", "sad", "offline"}
                [] t = "task" -> {"read", "rsv"}
                [] t = "usb" -> {"status"}

Bulk == {"REG", "LINES", "RD", "WRT", "GTS"}

(* The n of a request: register writes, or bytes to move.                  *)
Size(c, s) == CASE s = "REG" -> (CASE c = "pad" -> 2 [] c = "sad" -> 3
                                   [] OTHER -> 1)
                [] s \in {"RD", "WRT"} -> 2
                [] OTHER -> 0

(* ibstatus: one control transfer, then iblines, which makes the line      *)
(* status exchange once to look at its result and once to use it.          *)
FirstStep(c) == CASE c = "write" -> "WRT" [] c = "read" -> "RD"
                  [] c \in {"pad", "sad"} -> "REG"
                  [] c = "offline" -> "STOP"
                  [] c \in {"rsv", "status"} -> "UPDATE"

(* What a call does when its ibstatus has returned: ibgts gives up unless  *)
(* the board is in charge, ibrsv2 refuses when it is.                      *)
AfterStatus(c, inCharge) == CASE c = "offline" /\ inCharge -> "GTS"
                              [] c = "rsv" /\ ~inCharge -> "REG"
                              [] OTHER -> "idle"

(* The step after s, n line status exchanges having been made.             *)
NextStep(c, s, n, inCharge) ==
    CASE s \in {"STOP", "GTS"} -> "UPDATE"
      [] s = "UPDATE" -> "LINES"
      [] s = "LINES" /\ n \in {1, 3} -> "LINES"
      [] s = "LINES" /\ n = 2 -> AfterStatus(c, inCharge)
      [] OTHER -> "idle"

Init == /\ call = [t \in Threads |-> "idle"]
        /\ step = [t \in Threads |-> "idle"]
        /\ sent = [t \in Threads |-> "no"]
        /\ lines = [t \in Threads |-> 0]
        /\ cic = [t \in Threads |-> FALSE]
        /\ ibsta = FALSE
        /\ out = <<>> /\ in = <<>>
        /\ epMatches \in IF "usb" \in Threads THEN BOOLEAN ELSE {FALSE}
        /\ clean = TRUE

(* A flowchart calls WRITE, SET_PAD, SET_SAD, READ or SET_IBRSV, the       *)
(* engine stops the project, usb_thread wakes up.                          *)
Begin(t, c) ==
    /\ call[t] = "idle" /\ c \in CallsOf(t)
    /\ t = "usb" => epMatches
    /\ call' = [call EXCEPT ![t] = c]
    /\ step' = [step EXCEPT ![t] = FirstStep(c)]
    /\ UNCHANGED <<sent, lines, cic, ibsta, out, in, epMatches, clean>>

(* The thread goes on to its next transfer, or returns.                    *)
Advance(t, n, inCharge) ==
    LET s == NextStep(call[t], step[t], n, inCharge) IN
    /\ step' = [step EXCEPT ![t] = s]
    /\ call' = [call EXCEPT ![t] = IF s = "idle" THEN "idle" ELSE @]
    /\ lines' = [lines EXCEPT ![t] = IF s = "idle" THEN 0 ELSE n]
    /\ cic' = [cic EXCEPT ![t] = inCharge /\ s # "idle"]

(* ni_usb_stop: a control transfer; an answer of another length is ignored.*)
Stop(t) == /\ step[t] = "STOP"
           /\ Advance(t, lines[t], cic[t])
           /\ UNCHANGED <<sent, ibsta, out, in, epMatches, clean>>

(* ni_usb_update_status: the adapter's status word, or usbdata->ibsta when *)
(* the control transfer fails.                                             *)
Update(t) ==
    /\ step[t] = "UPDATE"
    /\ \/ \E bus \in BOOLEAN : ibsta' = bus
       \/ UNCHANGED ibsta
    /\ Advance(t, lines[t], ibsta')
    /\ UNCHANGED <<sent, out, in, epMatches, clean>>

(* From here on nothing in the pipes is meant for t.                       *)
Disown(t, q) == [i \in 1 .. Len(q) |->
                   IF q[i].for = t THEN [q[i] EXCEPT !.for = Nobody] ELSE q[i]]

(* The exchange of t ends; iblines is followed by the assignment of the    *)
(* status to usbdata->ibsta.                                               *)
Ended(t) ==
    LET n == IF step[t] = "LINES" THEN lines[t] + 1 ELSE lines[t] IN
    /\ Advance(t, n, cic[t])
    /\ ibsta' = IF step[t] = "LINES" /\ n \in {2, 4} THEN cic[t] ELSE ibsta
    /\ sent' = [sent EXCEPT ![t] = "no"]
    /\ UNCHANGED epMatches

Waits(t) == sent[t] # "no"
Request(t, owner) == [kind |-> step[t], n |-> Size(call[t], step[t]), for |-> owner]
Takes(t, s) == /\ step[t] \in Bulk /\ ~Waits(t)
               /\ IsOut(s) => Len(out) < Capacity

(* A go to standby that returns once the request is sent.                   *)
Send_StandbyOnly(t) ==
    \E s \in Sends :
       /\ Takes(t, s) /\ GoesOn(step[t], s)
       /\ out' = IF IsOut(s)
                 THEN Append(out, Request(t, IF step[t] = "GTS" THEN Nobody ELSE t))
                 ELSE out
       /\ IF step[t] = "GTS"
          THEN Ended(t) /\ UNCHANGED clean
          ELSE /\ sent' = [sent EXCEPT ![t] = IF IsOut(s) THEN "yes" ELSE "failed"]
               /\ clean' = (clean /\ \A u \in Threads : ~Waits(u))
               /\ UNCHANGED <<call, step, lines, cic, ibsta, epMatches>>
       /\ UNCHANGED in

(* UsbBulkXfer on _pipeBlkSnd, after which the function receives: the line *)
(* status also when its request timed out.                                 *)
Send(t) ==
    \E s \in Sends :
       /\ Takes(t, s) /\ GoesOn(step[t], s)
       /\ out' = IF IsOut(s) THEN Append(out, Request(t, t)) ELSE out
       /\ sent' = [sent EXCEPT ![t] = IF IsOut(s) THEN "yes" ELSE "failed"]
       /\ clean' = (clean /\ \A u \in Threads : ~Waits(u))
       /\ UNCHANGED <<call, step, lines, cic, ibsta, in, epMatches>>

(* The function returns without receiving, by its test of the send or for  *)
(* want of a buffer; the request may be out all the same.                  *)
ReturnsEarly(t) ==
    \E s \in Sends :
       /\ Takes(t, s)
       /\ out' = IF IsOut(s) THEN Append(out, Request(t, Nobody)) ELSE out
       /\ clean' = (clean /\ ~IsOut(s))
       /\ Ended(t)
       /\ UNCHANGED in

(* UsbBulkXfer on _pipeBlkRcv ends with the oldest answer in the pipe.     *)
Receive(t) ==
    /\ Waits(t) /\ in # <<>>
    /\ Ended(t)
    /\ in' = Disown(t, Tail(in)) /\ out' = Disown(t, out)
    /\ UNCHANGED clean

(* A receive that starts over when its time is up.                         *)
GiveUp_Again(t) == Waits(t) /\ in = <<>> /\ UNCHANGED vars

(* The receive times out; an answer to a request that is out will still    *)
(* come.                                                                   *)
GiveUp(t) ==
    /\ Waits(t) /\ in = <<>>
    /\ Ended(t)
    /\ out' = Disown(t, out) /\ UNCHANGED in
    /\ clean' = (clean /\ sent[t] = "failed")

Answers(r) ==
    LET Ans(e, left) == [kind |-> r.kind, len |-> AnswerLen(r.kind, left),
                         error |-> e, left |-> left, n |-> r.n]
    IN  IF r.kind \in {"RD", "WRT"}
        THEN {Ans("none", 0), Ans("timeout", r.n)}
        ELSE {Ans("none", 0)}

(* The adapter executes its oldest request and answers it.                 *)
Answer ==
    /\ out # <<>> /\ Len(in) < Capacity
    /\ \E a \in Answers(Head(out)) :
         in' = Append(in, [answer |-> a, for |-> Head(out).for])
    /\ out' = Tail(out)
    /\ UNCHANGED <<call, step, sent, lines, cic, ibsta, epMatches, clean>>

Transfer(t) == \/ Stop(t) \/ Update(t) \/ Send(t) \/ ReturnsEarly(t)
               \/ Receive(t) \/ GiveUp(t)

Next == \/ Answer
        \/ \E t \in Threads : Transfer(t) \/ \E c \in CallsOf(t) : Begin(t, c)

(* The stack ends every transfer within the timeout it was given, and the  *)
(* threads run; nothing is assumed of the adapter.                         *)
Fairness == \A t \in Threads : WF_vars(Transfer(t))

Spec == Init /\ [][Next]_vars /\ Fairness

-----------------------------------------------------------------------------
TypeOK ==
    /\ \A t \in Threads :
         /\ call[t] \in CallsOf(t) \cup {"idle"}
         /\ step[t] \in Bulk \cup {"STOP", "UPDATE", "idle"}
         /\ sent[t] \in {"no", "yes", "failed"}
         /\ Waits(t) => step[t] \in Bulk
         /\ (call[t] = "idle") <=> (step[t] = "idle")
         /\ lines[t] \in 0 .. 4
    /\ \A i \in 1 .. Len(out) : out[i].kind \in Bulk /\ out[i].for \in Owners
    /\ \A i \in 1 .. Len(in) : in[i].answer.kind \in Bulk /\ in[i].for \in Owners
    /\ Len(out) <= Capacity /\ Len(in) <= Capacity

(* The step in which t takes an answer, and what its function makes of it. *)
Took(t) == Waits(t) /\ Len(in') < Len(in) /\ ~Waits(t)'
Taken(t) == Received(step[t], Head(in).answer)
Code(t) == Outcome(step[t], Taken(t), Size(call[t], step[t]))

(* An answer goes to the wrong request only after one of three things: a   *)
(* request went out and its function did not wait, a receive of an answer  *)
(* to come was abandoned, or two threads were in an exchange at once.      *)
(* Every other path of ni_usb_gpib.c keeps step, a failed send included,   *)
(* and the line status that receives after one.                            *)
InStep == [][\A t \in Threads : Took(t) /\ clean => Head(in).for = t]_vars

(* In step, a register write, a read or a write that returns 0 was carried *)
(* out by the adapter without an error; and in step or not, ni_usb_read    *)
(* hands over the data of a read answer only.                              *)
OkWasDone ==
    [][\A t \in Threads : Took(t) =>
         /\ clean /\ step[t] \in {"REG", "RD", "WRT"} /\ Code(t) = "OK"
            => /\ Taken(t).kind = step[t]
               /\ Taken(t).error \in {"none", "aborted"}
         /\ step[t] = "RD" /\ Read(Taken(t)).count > 0
            => Taken(t).kind = "RD"]_vars

(* Answers, there or to come, that no thread waits for.                    *)
Lag == Len(out) + Len(in) - Cardinality({t \in Threads : sent[t] = "yes"})

LagStep ==
    Lag' < Lag => /\ Lag' = Lag - 1
                  /\ \E t \in Threads : /\ step[t] = "LINES" /\ sent[t] = "failed"
                                        /\ Took(t)

(* Once the driver lags behind the adapter it lags: no function takes an   *)
(* answer beside the one to its request, so that the lag is never made     *)
(* good, but by a line status whose own request timed out and which        *)
(* receives all the same (ni_usb_gpib.c, 1455).                            *)
LagStays == [][LagStep]_vars

(* Every call returns, even when the adapter has stopped answering: each   *)
(* transfer has a timeout and every chain of transfers is finite.          *)
CallsReturn == \A t \in Threads : call[t] # "idle" ~> call[t] = "idle"
=============================================================================
