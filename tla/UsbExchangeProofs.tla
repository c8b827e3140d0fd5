------------------------- MODULE UsbExchangeProofs --------------------------
(***************************************************************************)
(* Proofs about UsbExchange, for any of the threads and any capacity of    *)
(* the pipes: as long as every request that is out is waited for, and no   *)
(* two exchanges overlap, every answer goes to its request; and a lag      *)
(* behind the adapter is made good by the line status alone.               *)
(***************************************************************************)
EXTENDS UsbExchange, FiniteSetTheorems, TLAPS

-----------------------------------------------------------------------------
(* Requests and answers. *)

Requests == [kind : Bulk, n : Nat, for : Owners]
AnswerRecords == [kind : Bulk, len : Nat, error : Errors, left : Nat, n : Nat]
Replies == [answer : AnswerRecords, for : Owners]
Steps == Bulk \cup {"STOP", "UPDATE", "idle"}
CallNames == {"write", "pad", "sad", "offline", "read", "rsv", "status"}

(* A thread waits for an answer in a call, at a bulk transfer; without a   *)
(* request that is out, only the line status does.                         *)
ExchangeTypes ==
    /\ call \in [Threads -> CallNames \cup {"idle"}] /\ step \in [Threads -> Steps]
    /\ sent \in [Threads -> {"no", "yes", "failed"}]
    /\ \A t \in Threads : call[t] = "idle" => step[t] = "idle"
    /\ \A t \in Threads : /\ Waits(t) => step[t] \in Bulk
                          /\ sent[t] = "failed" => step[t] = "LINES"
    /\ out \in Seq(Requests) /\ in \in Seq(Replies)

(* The n of a request is a number.                                         *)
LEMMA SizeIsNatural == \A c, s : Size(c, s) \in Nat
BY DEF Size

(* What follows a step is a step.                                          *)
LEMMA StepsFollow ==
    ASSUME NEW c, NEW s, NEW n, NEW inCharge
    PROVE  NextStep(c, s, n, inCharge) \in Steps
BY DEF NextStep, AfterStatus, Steps, Bulk

(* The entries of ni_usb_gpib.c the threads call, and their first steps.   *)
LEMMA CallsBegin ==
    ASSUME NEW t \in Threads, NEW c \in CallsOf(t)
    PROVE  c \in CallNames /\ FirstStep(c) \in Steps
BY ThreadsAssumption DEF CallsOf, FirstStep, CallNames, Steps, Bulk

(* Disowning changes whom a message is for and nothing else.               *)
LEMMA DisownKeeps ==
    ASSUME NEW t, NEW S, NEW q \in Seq(S),
           \A m \in S : [m EXCEPT !.for = Nobody] \in S
    PROVE  Disown(t, q) \in Seq(S) /\ Len(Disown(t, q)) = Len(q)
BY DEF Disown

(* What the adapter answers to a request has the shape of an answer.       *)
LEMMA AnswersAre ==
    ASSUME NEW r \in Requests, NEW a \in Answers(r)
    PROVE  a \in AnswerRecords
BY DEF Requests, Answers, AnswerLen, AnswerRecords, Errors

(* Going on keeps a thread at a step of a call.                            *)
LEMMA AdvanceKeeps ==
    ASSUME NEW t \in Threads, NEW n, NEW inCharge, ExchangeTypes,
           Advance(t, n, inCharge)
    PROVE  /\ call' \in [Threads -> CallNames \cup {"idle"}]
           /\ step' \in [Threads -> Steps]
           /\ \A u \in Threads : call'[u] = "idle" => step'[u] = "idle"
           /\ \A u \in Threads : u # t => step'[u] = step[u] /\ call'[u] = call[u]
<1>. DEFINE s == NextStep(call[t], step[t], n, inCharge)
<1>1. s \in Steps
  BY StepsFollow
<1>2. /\ step' = [step EXCEPT ![t] = s]
      /\ call' = [call EXCEPT ![t] = IF s = "idle" THEN "idle" ELSE @]
  BY Zenon DEF Advance
<1>3. /\ call \in [Threads -> CallNames \cup {"idle"}] /\ step \in [Threads -> Steps]
      /\ \A u \in Threads : call[u] = "idle" => step[u] = "idle"
  BY DEF ExchangeTypes
<1>4. s = "idle" \/ call[t] # "idle"
  <2>. SUFFICES ASSUME call[t] = "idle" PROVE s = "idle"
    OBVIOUS
  <2>1. step[t] = "idle"
    BY <1>3
  <2>. QED
    BY <2>1 DEF NextStep
<1>. HIDE DEF s
<1>. QED
  BY <1>1, <1>2, <1>3, <1>4

(* A request that is not out is waited for by the line status only.        *)
LEMMA FailedGoOn ==
    ASSUME NEW kind \in Bulk, NEW s \in Sends, GoesOn(kind, s), ~IsOut(s)
    PROVE  kind = "LINES"
BY DEF Bulk, Sends, GoesOn, IsOut

(* Every step of a thread and of the adapter keeps the types.              *)
LEMMA TypesStep ==
    ASSUME ExchangeTypes, [Next]_vars
    PROVE  ExchangeTypes'
<1>. USE DEF ExchangeTypes
<1>r. \A m \in Requests : [m EXCEPT !.for = Nobody] \in Requests
  BY DEF Requests, Owners
<1>a. \A m \in Replies : [m EXCEPT !.for = Nobody] \in Replies
  BY DEF Replies, Owners
<1>d. \A t : Disown(t, out) \in Seq(Requests) /\ Disown(t, in) \in Seq(Replies)
  BY <1>r, <1>a, DisownKeeps
<1>e. ASSUME NEW t \in Threads, Ended(t)
      PROVE  /\ call' \in [Threads -> CallNames \cup {"idle"}]
             /\ step' \in [Threads -> Steps]
             /\ sent' \in [Threads -> {"no", "yes", "failed"}]
             /\ \A u \in Threads : call'[u] = "idle" => step'[u] = "idle"
             /\ \A u \in Threads : /\ Waits(u)' => step'[u] \in Bulk
                                   /\ sent'[u] = "failed" => step'[u] = "LINES"
  <2>1. PICK n : Advance(t, n, cic[t]) /\ sent' = [sent EXCEPT ![t] = "no"]
    BY <1>e, Zenon DEF Ended
  <2>. QED
    BY <2>1, AdvanceKeeps DEF Waits
<1>1. ASSUME NEW t \in Threads, NEW c \in CallsOf(t), Begin(t, c)
      PROVE  ExchangeTypes'
  <2>1. /\ call[t] = "idle" /\ call' = [call EXCEPT ![t] = c]
        /\ step' = [step EXCEPT ![t] = FirstStep(c)]
        /\ UNCHANGED <<sent, out, in>>
    BY <1>1, Zenon DEF Begin
  <2>2. c \in CallNames /\ FirstStep(c) \in Steps
    BY CallsBegin
  <2>3. "idle" \notin CallNames /\ "idle" \notin Bulk
    BY DEF CallNames, Bulk
  <2>4. ~Waits(t)
    BY <2>1, <2>3 DEF Waits
  <2>. QED
    BY <2>1, <2>2, <2>3, <2>4 DEF Waits
<1>2. ASSUME NEW t \in Threads, Stop(t) \/ Update(t)
      PROVE  ExchangeTypes'
  <2>1. PICK n, inCharge : /\ Advance(t, n, inCharge) /\ step[t] \in {"STOP", "UPDATE"}
                           /\ UNCHANGED <<sent, out, in>>
    <3>1. CASE Stop(t)
      BY <3>1, Zenon DEF Stop
    <3>2. CASE Update(t)
      BY <3>2, Zenon DEF Update
    <3>. QED
      BY <1>2, <3>1, <3>2
  <2>2. ~Waits(t)
    BY <2>1 DEF Bulk, Waits
  <2>. QED
    BY <2>1, <2>2, AdvanceKeeps DEF Waits
<1>q. ASSUME NEW t \in Threads, step[t] \in Bulk, NEW o \in Owners
      PROVE  Append(out, Request(t, o)) \in Seq(Requests)
  <2>1. Request(t, o) \in Requests
    BY <1>q, SizeIsNatural DEF Request, Requests
  <2>. QED
    BY <2>1
<1>3. ASSUME NEW t \in Threads, Send(t)
      PROVE  ExchangeTypes'
  <2>1. PICK s \in Sends :
          /\ Takes(t, s) /\ GoesOn(step[t], s)
          /\ out' = IF IsOut(s) THEN Append(out, Request(t, t)) ELSE out
          /\ sent' = [sent EXCEPT ![t] = IF IsOut(s) THEN "yes" ELSE "failed"]
          /\ UNCHANGED <<call, step, in>>
    BY <1>3, Zenon DEF Send
  <2>2. step[t] \in Bulk /\ t \in Owners
    BY <2>1 DEF Takes, Owners
  <2>3. out' \in Seq(Requests)
    BY <1>q, <2>1, <2>2
  <2>4. ~IsOut(s) => step[t] = "LINES"
    BY <2>1, <2>2, FailedGoOn
  <2>. QED
    BY <2>1, <2>2, <2>3, <2>4 DEF Waits
<1>4. ASSUME NEW t \in Threads, ReturnsEarly(t)
      PROVE  ExchangeTypes'
  <2>1. PICK s \in Sends :
          /\ Takes(t, s) /\ Ended(t) /\ UNCHANGED in
          /\ out' = IF IsOut(s) THEN Append(out, Request(t, Nobody)) ELSE out
    BY <1>4, Zenon DEF ReturnsEarly
  <2>2. step[t] \in Bulk /\ Nobody \in Owners
    BY <2>1 DEF Takes, Owners
  <2>3. out' \in Seq(Requests)
    BY <1>q, <2>1, <2>2
  <2>. QED
    BY <1>e, <2>1, <2>3
<1>5. ASSUME NEW t \in Threads, Receive(t) \/ GiveUp(t)
      PROVE  ExchangeTypes'
  <2>1. Ended(t) /\ out' = Disown(t, out)
    BY <1>5 DEF Receive, GiveUp
  <2>2. in' \in Seq(Replies)
    <3>1. CASE GiveUp(t)
      BY <3>1 DEF GiveUp
    <3>2. CASE Receive(t)
      <4>1. in # <<>> /\ in' = Disown(t, Tail(in))
        BY <3>2 DEF Receive
      <4>2. Tail(in) \in Seq(Replies)
        BY <4>1
      <4>. QED
        BY <4>1, <4>2, <1>a, DisownKeeps
    <3>. QED
      BY <1>5, <3>1, <3>2
  <2>. QED
    BY <1>e, <1>d, <2>1, <2>2
<1>6. ASSUME Answer
      PROVE  ExchangeTypes'
  <2>1. /\ out # <<>> /\ out' = Tail(out) /\ UNCHANGED <<call, step, sent>>
    BY <1>6 DEF Answer
  <2>2. PICK a \in Answers(Head(out)) :
             in' = Append(in, [answer |-> a, for |-> Head(out).for])
    BY <1>6 DEF Answer
  <2>3. Head(out) \in Requests /\ out' \in Seq(Requests)
    BY <2>1
  <2>4. [answer |-> a, for |-> Head(out).for] \in Replies
    BY <2>3, AnswersAre DEF Replies, Requests
  <2>. QED
    BY <2>1, <2>2, <2>3, <2>4 DEF Waits
<1>7. CASE UNCHANGED vars
  BY <1>7 DEF vars, Waits
<1>. QED
  BY <1>1, <1>2, <1>3, <1>4, <1>5, <1>6, <1>7 DEF Next, Transfer

-----------------------------------------------------------------------------
(* In step.  Either no thread waits and the pipes are empty, or one does   *)
(* and they hold its request, or the answer to it, and nothing else; or    *)
(* nothing, when its request did not go out.                               *)

InStepWith(t) ==
    /\ Waits(t) /\ \A u \in Threads : Waits(u) => u = t
    /\ \/ sent[t] = "failed" /\ out = <<>> /\ in = <<>>
       \/ sent[t] = "yes" /\ out = <<Request(t, t)>> /\ in = <<>>
       \/ /\ sent[t] = "yes" /\ out = <<>>
          /\ \E a \in Answers(Request(t, t)) : in = <<[answer |-> a, for |-> t]>>

AtRest == (\A u \in Threads : ~Waits(u)) /\ out = <<>> /\ in = <<>>

CleanInv == clean => AtRest \/ \E t \in Threads : InStepWith(t)

(* What the steps of another thread leave alone.                           *)
LEMMA OthersKeepStep ==
    ASSUME NEW t \in Threads, NEW u \in Threads, u # t, ExchangeTypes,
           step'[u] = step[u], call'[u] = call[u],
           \A v \in Threads : sent'[v] = sent[v], UNCHANGED <<out, in>>,
           InStepWith(u)
    PROVE  InStepWith(u)'
<1>1. Request(u, u)' = Request(u, u)
  BY DEF Request
<1>2. Answers(Request(u, u))' = Answers(Request(u, u))
  BY <1>1 DEF Answers
<1>. QED
  BY <1>1, <1>2 DEF InStepWith, Waits

(* A thread sends while no other waits, or the run is no longer clean; the *)
(* adapter turns the one request into the one answer; its owner takes it.  *)
LEMMA CleanStep ==
    ASSUME ExchangeTypes, CleanInv, [Next]_vars
    PROVE  CleanInv'
<1>. SUFFICES ASSUME clean' PROVE AtRest' \/ \E t \in Threads : InStepWith(t)'
  BY DEF CleanInv
<1>k. ASSUME NEW t \in Threads, NEW n, NEW inCharge, Advance(t, n, inCharge)
      PROVE  \A u \in Threads : u # t => step'[u] = step[u] /\ call'[u] = call[u]
  BY <1>k, AdvanceKeeps
<1>o. ASSUME NEW t \in Threads, ~Waits(t), clean, UNCHANGED <<out, in>>,
             \A u \in Threads : sent'[u] = sent[u],
             \A u \in Threads : u # t => step'[u] = step[u] /\ call'[u] = call[u]
      PROVE  AtRest' \/ \E u \in Threads : InStepWith(u)'
  <2>1. CASE AtRest
    BY <1>o, <2>1 DEF AtRest, Waits
  <2>2. ASSUME NEW u \in Threads, InStepWith(u)
        PROVE  InStepWith(u)'
    <3>1. u # t
      BY <1>o, <2>2 DEF InStepWith
    <3>. QED
      BY <1>o, <2>2, <3>1, OthersKeepStep
  <2>. QED
    BY <1>o, <2>1, <2>2 DEF CleanInv
<1>1. ASSUME NEW t \in Threads, NEW c \in CallsOf(t), Begin(t, c)
      PROVE  AtRest' \/ \E u \in Threads : InStepWith(u)'
  <2>1. /\ call[t] = "idle" /\ call' = [call EXCEPT ![t] = c]
        /\ step' = [step EXCEPT ![t] = FirstStep(c)]
        /\ UNCHANGED <<sent, out, in, clean>>
    BY <1>1, Zenon DEF Begin
  <2>2. ~Waits(t)
    BY <2>1 DEF ExchangeTypes, Bulk, Waits
  <2>3. \A u \in Threads : u # t => step'[u] = step[u] /\ call'[u] = call[u]
    BY <2>1 DEF ExchangeTypes
  <2>4. UNCHANGED <<out, in>> /\ clean /\ \A u \in Threads : sent'[u] = sent[u]
    BY <2>1
  <2>. QED
    BY <1>o, <2>2, <2>3, <2>4
<1>2. ASSUME NEW t \in Threads, Stop(t) \/ Update(t)
      PROVE  AtRest' \/ \E u \in Threads : InStepWith(u)'
  <2>1. PICK n, inCharge : /\ Advance(t, n, inCharge) /\ step[t] \in {"STOP", "UPDATE"}
                           /\ UNCHANGED <<sent, out, in, clean>>
    <3>1. CASE Stop(t)
      BY <3>1, Zenon DEF Stop
    <3>2. CASE Update(t)
      BY <3>2, Zenon DEF Update
    <3>. QED
      BY <1>2, <3>1, <3>2
  <2>2. ~Waits(t)
    BY <2>1 DEF ExchangeTypes, Bulk, Waits
  <2>3. UNCHANGED <<out, in>> /\ clean /\ \A u \in Threads : sent'[u] = sent[u]
    BY <2>1
  <2>4. \A u \in Threads : u # t => step'[u] = step[u] /\ call'[u] = call[u]
    BY <1>k, <2>1
  <2>. QED
    BY <1>o, <2>2, <2>3, <2>4
<1>3. ASSUME NEW t \in Threads, Send(t)
      PROVE  AtRest' \/ \E u \in Threads : InStepWith(u)'
  <2>1. PICK s \in Sends :
          /\ out' = IF IsOut(s) THEN Append(out, Request(t, t)) ELSE out
          /\ sent' = [sent EXCEPT ![t] = IF IsOut(s) THEN "yes" ELSE "failed"]
          /\ UNCHANGED <<call, step, in>>
    BY <1>3, Zenon DEF Send
  <2>2. clean /\ \A u \in Threads : ~Waits(u)
    BY <1>3, Zenon DEF Send
  <2>3. AtRest
    BY <2>2 DEF CleanInv, InStepWith
  <2>4. Request(t, t)' = Request(t, t)
    BY <2>1 DEF Request
  <2>5. /\ out' = IF IsOut(s) THEN <<Request(t, t)>> ELSE <<>>
        /\ in' = <<>>
    BY <2>1, <2>3 DEF AtRest
  <2>6. /\ sent'[t] = (IF IsOut(s) THEN "yes" ELSE "failed")
        /\ \A u \in Threads : u # t => sent'[u] = sent[u]
    BY <2>1 DEF ExchangeTypes
  <2>7. Waits(t)' /\ \A u \in Threads : Waits(u)' => u = t
    BY <2>2, <2>6 DEF Waits
  <2>8. InStepWith(t)'
    BY <2>4, <2>5, <2>6, <2>7 DEF InStepWith
  <2>. QED
    BY <2>8
<1>4. ASSUME NEW t \in Threads, ReturnsEarly(t)
      PROVE  AtRest' \/ \E u \in Threads : InStepWith(u)'
  <2>1. PICK s \in Sends :
          /\ Takes(t, s) /\ clean' = (clean /\ ~IsOut(s)) /\ Ended(t) /\ UNCHANGED in
          /\ out' = IF IsOut(s) THEN Append(out, Request(t, Nobody)) ELSE out
    BY <1>4, Zenon DEF ReturnsEarly
  <2>2. clean /\ UNCHANGED <<out, in>>
    BY <2>1
  <2>3. ~Waits(t)
    BY <2>1 DEF Takes
  <2>4. PICK n : Advance(t, n, cic[t]) /\ sent' = [sent EXCEPT ![t] = "no"]
    BY <2>1, Zenon DEF Ended
  <2>5. \A u \in Threads : sent'[u] = sent[u]
    BY <2>3, <2>4 DEF ExchangeTypes, Waits
  <2>6. \A u \in Threads : u # t => step'[u] = step[u] /\ call'[u] = call[u]
    BY <1>k, <2>4
  <2>. QED
    BY <1>o, <2>2, <2>3, <2>5, <2>6
<1>w. ASSUME NEW t \in Threads, Waits(t), Ended(t), clean
      PROVE  InStepWith(t) /\ \A v \in Threads : ~Waits(v)'
  <2>1. PICK u \in Threads : InStepWith(u)
    BY <1>w DEF CleanInv, AtRest
  <2>2. u = t /\ \A v \in Threads : Waits(v) => v = t
    BY <1>w, <2>1 DEF InStepWith
  <2>3. sent' = [sent EXCEPT ![t] = "no"]
    BY <1>w, Zenon DEF Ended
  <2>. QED
    BY <2>1, <2>2, <2>3 DEF ExchangeTypes, Waits
<1>n. \A t : Disown(t, <<>>) = <<>>
  BY DEF Disown
<1>5. ASSUME NEW t \in Threads, Receive(t)
      PROVE  AtRest' \/ \E u \in Threads : InStepWith(u)'
  <2>1. /\ Waits(t) /\ in # <<>> /\ in' = Disown(t, Tail(in)) /\ out' = Disown(t, out)
        /\ UNCHANGED clean /\ Ended(t)
    BY <1>5, Zenon DEF Receive
  <2>2. InStepWith(t) /\ \A v \in Threads : ~Waits(v)'
    BY <1>w, <2>1
  <2>3. PICK a : out = <<>> /\ in = <<a>>
    BY <2>1, <2>2 DEF InStepWith
  <2>4. Tail(in) = <<>>
    BY <2>3
  <2>. QED
    BY <1>n, <2>1, <2>2, <2>3, <2>4 DEF AtRest
<1>6. ASSUME NEW t \in Threads, GiveUp(t)
      PROVE  AtRest' \/ \E u \in Threads : InStepWith(u)'
  <2>1. /\ Waits(t) /\ in = <<>> /\ in' = in /\ out' = Disown(t, out)
        /\ clean /\ sent[t] = "failed" /\ Ended(t)
    BY <1>6, Zenon DEF GiveUp
  <2>2. InStepWith(t) /\ \A v \in Threads : ~Waits(v)'
    BY <1>w, <2>1
  <2>3. out = <<>>
    BY <2>1, <2>2 DEF InStepWith
  <2>. QED
    BY <1>n, <2>1, <2>2, <2>3 DEF AtRest
<1>7. ASSUME Answer
      PROVE  AtRest' \/ \E u \in Threads : InStepWith(u)'
  <2>1. /\ out # <<>> /\ out' = Tail(out) /\ UNCHANGED <<call, step, sent, clean>>
    BY <1>7 DEF Answer
  <2>2. PICK a \in Answers(Head(out)) :
             in' = Append(in, [answer |-> a, for |-> Head(out).for])
    BY <1>7 DEF Answer
  <2>3. PICK u \in Threads : InStepWith(u)
    BY <2>1 DEF CleanInv, AtRest
  <2>4. out = <<Request(u, u)>> /\ in = <<>> /\ sent[u] = "yes"
    BY <2>1, <2>3 DEF InStepWith
  <2>5. Head(out) = Request(u, u) /\ Tail(out) = <<>> /\ Request(u, u).for = u
    BY <2>4 DEF Request
  <2>6. Request(u, u)' = Request(u, u)
    BY <2>1 DEF Request
  <2>7. out' = <<>> /\ in' = <<[answer |-> a, for |-> u]>>
    BY <2>1, <2>2, <2>4, <2>5
  <2>8. a \in Answers(Request(u, u)')
    BY <2>2, <2>5, <2>6
  <2>9. Answers(Request(u, u)') = Answers(Request(u, u))'
    BY DEF Answers
  <2>10. InStepWith(u)'
    BY <2>1, <2>3, <2>4, <2>7, <2>8, <2>9 DEF InStepWith, Waits
  <2>. QED
    BY <2>10
<1>8. CASE UNCHANGED vars
  <2>1. UNCHANGED <<call, step, sent, out, in, clean>>
    BY <1>8 DEF vars
  <2>2. \A u \in Threads : Request(u, u)' = Request(u, u)
    BY <2>1 DEF Request
  <2>3. \A u \in Threads : Answers(Request(u, u))' = Answers(Request(u, u))
    BY <2>2 DEF Answers
  <2>. QED
    BY <2>1, <2>2, <2>3 DEF CleanInv, AtRest, InStepWith, Waits
<1>. QED
  BY <1>1, <1>2, <1>3, <1>4, <1>5, <1>6, <1>7, <1>8 DEF Next, Transfer

(* The answers to a request fit the buffer of the function that sent it.   *)
LEMMA AnswersFit ==
    ASSUME NEW t \in Threads, step[t] \in {"REG", "RD", "WRT"},
           NEW a \in Answers(Request(t, t))
    PROVE  /\ Received(step[t], a) = a /\ a.kind = step[t]
           /\ a.error = "none" \/ (a.error = "timeout" /\ step[t] \in {"RD", "WRT"})
           /\ a # NoAnswer
           /\ step[t] = "WRT" => a.len = 12
  BY DEF Answers, Request, AnswerLen, Received, Buffer, NoAnswer, Size

(* Initially nothing is under way.                                         *)
LEMMA ExchangesBegin == Init => ExchangeTypes /\ CleanInv
<1>. SUFFICES ASSUME Init PROVE ExchangeTypes /\ CleanInv
  OBVIOUS
<1>1. ExchangeTypes
  BY DEF Init, ExchangeTypes, Steps, CallNames, Waits
<1>2. CleanInv
  BY DEF Init, CleanInv, AtRest, Waits
<1>. QED
  BY <1>1, <1>2

ExchangeInv == ExchangeTypes /\ CleanInv

(* The types, and what the pipes hold as long as the driver is in step.    *)
THEOREM ExchangeInvariant == Spec => []ExchangeInv
<1>1. Init => ExchangeInv
  BY ExchangesBegin DEF ExchangeInv
<1>2. ExchangeInv /\ [Next]_vars => ExchangeInv'
  BY TypesStep, CleanStep DEF ExchangeInv
<1>. QED
  BY <1>1, <1>2, PTL DEF Spec

(* Until a request is out that its function does not wait for to the end,  *)
(* or two exchanges overlap, every exchange of ni_usb_gpib.c ends with the *)
(* answer to its own request, also after sends that failed.                *)
THEOREM AnswersInStep == Spec => InStep
<1>1. ASSUME ExchangeInv, [Next]_vars
      PROVE  \A t \in Threads : Took(t) /\ clean => Head(in).for = t
  <2>. SUFFICES ASSUME NEW t \in Threads, Took(t), clean PROVE Head(in).for = t
    OBVIOUS
  <2>1. Waits(t) /\ Len(in') < Len(in)
    BY DEF Took
  <2>2. PICK u \in Threads : InStepWith(u)
    BY <1>1, <2>1 DEF ExchangeInv, CleanInv, AtRest
  <2>3. u = t
    BY <2>1, <2>2 DEF InStepWith
  <2>4. in # <<>>
    <3>1. in' \in Seq(Replies) /\ in \in Seq(Replies)
      BY <1>1, TypesStep DEF ExchangeInv, ExchangeTypes
    <3>. QED
      BY <2>1, <3>1
  <2>5. PICK a : in = <<[answer |-> a, for |-> t]>>
    BY <2>2, <2>3, <2>4 DEF InStepWith
  <2>. QED
    BY <2>5
<1>2. ExchangeInv /\ [Next]_vars => [\A t \in Threads : Took(t) /\ clean => Head(in).for = t]_vars
  BY <1>1
<1>. QED
  BY <1>2, ExchangeInvariant, PTL DEF Spec, InStep

(* In step, a 0 from a register write, a read or a write means that the    *)
(* adapter has carried it out; in step or not, only the answer to a read   *)
(* yields data (ni_usb_write_registers, ni_usb_read, ni_usb_write).        *)
THEOREM OkMeansDone == Spec => OkWasDone
<1>1. ASSUME ExchangeInv, [Next]_vars, NEW t \in Threads, Took(t)
      PROVE  /\ clean /\ step[t] \in {"REG", "RD", "WRT"} /\ Code(t) = "OK"
                => /\ Taken(t).kind = step[t]
                   /\ Taken(t).error \in {"none", "aborted"}
             /\ step[t] = "RD" /\ Read(Taken(t)).count > 0
                => Taken(t).kind = "RD"
  <2>1. ASSUME clean, step[t] \in {"REG", "RD", "WRT"}, Code(t) = "OK"
        PROVE  Taken(t).kind = step[t] /\ Taken(t).error \in {"none", "aborted"}
    <3>1. Waits(t) /\ Len(in') < Len(in)
      BY <1>1 DEF Took
    <3>2. PICK u \in Threads : InStepWith(u)
      BY <1>1, <2>1, <3>1 DEF ExchangeInv, CleanInv, AtRest
    <3>3. u = t
      BY <3>1, <3>2 DEF InStepWith
    <3>4. in # <<>>
      <4>1. in' \in Seq(Replies) /\ in \in Seq(Replies)
        BY <1>1, TypesStep DEF ExchangeInv, ExchangeTypes
      <4>. QED
        BY <3>1, <4>1
    <3>5. PICK a \in Answers(Request(t, t)) : in = <<[answer |-> a, for |-> t]>>
      BY <3>2, <3>3, <3>4 DEF InStepWith
    <3>6. Head(in).answer = a
      BY <3>5
    <3>7. /\ Received(step[t], a) = a /\ a.kind = step[t]
          /\ a.error = "none" \/ (a.error = "timeout" /\ step[t] \in {"RD", "WRT"})
          /\ a # NoAnswer
          /\ step[t] = "WRT" => a.len = 12
      BY <2>1, AnswersFit
    <3>8. Taken(t) = a
      BY <3>6, <3>7 DEF Taken
    <3>9. a.error # "timeout"
      <4>. SUFFICES ASSUME a.error = "timeout" PROVE Code(t) = "ETIMEDOUT"
        BY <2>1
      <4>1. Code(t) = Outcome(step[t], a, Size(call[t], step[t]))
        BY <3>8 DEF Code
      <4>2. CASE step[t] = "RD"
        <5>1. Code(t) = Read(a).code
          BY <4>1, <4>2 DEF Outcome
        <5>. QED
          BY <3>7, <4>2, <5>1 DEF Read, Failed, ReadCode
      <4>3. CASE step[t] = "WRT"
        <5>1. Code(t) = Write(a, Size(call[t], step[t])).code
          BY <4>1, <4>3 DEF Outcome
        <5>. QED
          BY <3>7, <4>3, <5>1 DEF Write, WriteCode
      <4>. QED
        BY <3>7, <4>2, <4>3
    <3>. QED
      BY <3>7, <3>8, <3>9
  <2>2. ASSUME step[t] = "RD", Read(Taken(t)).count > 0
        PROVE  Taken(t).kind = "RD"
    BY <2>2 DEF Read
  <2>. QED
    BY <2>1, <2>2
<1>2. ExchangeInv /\ [Next]_vars =>
        [\A t \in Threads : Took(t) =>
             /\ clean /\ step[t] \in {"REG", "RD", "WRT"} /\ Code(t) = "OK"
                => /\ Taken(t).kind = step[t]
                   /\ Taken(t).error \in {"none", "aborted"}
             /\ step[t] = "RD" /\ Read(Taken(t)).count > 0
                => Taken(t).kind = "RD"]_vars
  BY <1>1
<1>. QED
  BY <1>2, ExchangeInvariant, PTL DEF Spec, OkWasDone

-----------------------------------------------------------------------------
(* The lag of the driver behind the adapter. *)

Waiting == {t \in Threads : sent[t] = "yes"}

(* At most three threads wait, and one of them starts or stops at a time.  *)
LEMMA WaitersAreFinite ==
    ASSUME NEW S \in SUBSET Threads
    PROVE  IsFiniteSet(S) /\ Cardinality(S) \in Nat
<1>1. IsFiniteSet({"engine", "task", "usb"})
  <2>1. IsFiniteSet({} \cup {"engine"})
    BY FS_EmptySet, FS_AddElement
  <2>2. IsFiniteSet(({} \cup {"engine"}) \cup {"task"})
    BY <2>1, FS_AddElement
  <2>3. IsFiniteSet((({} \cup {"engine"}) \cup {"task"}) \cup {"usb"})
    BY <2>2, FS_AddElement
  <2>4. (({} \cup {"engine"}) \cup {"task"}) \cup {"usb"} = {"engine", "task", "usb"}
    OBVIOUS
  <2>. QED
    BY <2>3, <2>4
<1>2. S \in SUBSET {"engine", "task", "usb"}
  BY ThreadsAssumption
<1>. QED
  BY <1>1, <1>2, FS_Subset, FS_CardinalityType

(* Whoever begins to wait for an answer has sent a request; whoever ends   *)
(* waiting takes an answer from the pipe, or leaves one more behind.  Only *)
(* who waits without a request takes one of the others'.                   *)
LEMMA LagSteps ==
    ASSUME ExchangeTypes, ExchangeTypes', [Next]_vars
    PROVE  LagStep
<1>n. /\ out \in Seq(Requests) /\ in \in Seq(Replies)
      /\ Len(out) \in Nat /\ Len(in) \in Nat /\ Cardinality(Waiting) \in Nat
  BY WaitersAreFinite DEF ExchangeTypes, Waiting
<1>l. Lag = Len(out) + Len(in) - Cardinality(Waiting)
  BY DEF Lag, Waiting
<1>m. Lag' = Len(out') + Len(in') - Cardinality(Waiting')
  BY DEF Lag, Waiting
<1>i. Lag \in Int
  BY <1>n, <1>l
<1>r. \A m \in Requests : [m EXCEPT !.for = Nobody] \in Requests
  BY DEF Requests, Owners
<1>a. \A m \in Replies : [m EXCEPT !.for = Nobody] \in Replies
  BY DEF Replies, Owners
<1>d. \A t : Len(Disown(t, out)) = Len(out)
  BY <1>n, <1>r, DisownKeeps
<1>s. /\ sent \in [Threads -> {"no", "yes", "failed"}]
      /\ Waiting \in SUBSET Threads /\ IsFiniteSet(Waiting)
  BY WaitersAreFinite DEF ExchangeTypes, Waiting
<1>1. ASSUME UNCHANGED <<out, in, sent>>
      PROVE  Lag' = Lag
  BY <1>1 DEF Lag
<1>q. ASSUME NEW t \in Threads, step[t] \in Bulk, NEW o \in Owners,
             out' = Append(out, Request(t, o))
      PROVE  Len(out') = Len(out) + 1
  <2>1. Request(t, o) \in Requests
    BY <1>q, SizeIsNatural DEF Request, Requests
  <2>. QED
    BY <1>n, <1>q, <2>1
<1>2. ASSUME NEW t \in Threads, Send(t)
      PROVE  Lag' = Lag
  <2>1. PICK s \in Sends :
          /\ step[t] \in Bulk /\ ~Waits(t) /\ in' = in
          /\ out' = IF IsOut(s) THEN Append(out, Request(t, t)) ELSE out
          /\ sent' = [sent EXCEPT ![t] = IF IsOut(s) THEN "yes" ELSE "failed"]
    BY <1>2, Zenon DEF Send, Takes
  <2>2. sent[t] = "no"
    BY <2>1 DEF Waits
  <2>3. CASE IsOut(s)
    <3>1. Waiting' = Waiting \cup {t} /\ t \notin Waiting
      BY <1>s, <2>1, <2>2, <2>3 DEF Waiting
    <3>2. Cardinality(Waiting') = Cardinality(Waiting) + 1
      BY <1>s, <3>1, FS_AddElement
    <3>3. Len(out') = Len(out) + 1
      BY <1>q, <2>1, <2>3 DEF Owners
    <3>. QED
      BY <1>n, <1>l, <1>m, <2>1, <3>2, <3>3
  <2>4. CASE ~IsOut(s)
    <3>1. Waiting' = Waiting
      BY <1>s, <2>1, <2>2, <2>4 DEF Waiting
    <3>. QED
      BY <1>l, <1>m, <2>1, <2>4, <3>1
  <2>. QED
    BY <2>3, <2>4
<1>3. ASSUME NEW t \in Threads, ReturnsEarly(t)
      PROVE  Lag' >= Lag
  <2>1. PICK s \in Sends :
          /\ step[t] \in Bulk /\ ~Waits(t) /\ in' = in
          /\ out' = IF IsOut(s) THEN Append(out, Request(t, Nobody)) ELSE out
          /\ sent' = [sent EXCEPT ![t] = "no"]
    BY <1>3, Zenon DEF ReturnsEarly, Takes, Ended
  <2>2. sent' = sent
    BY <1>s, <2>1 DEF Waits
  <2>3. Len(out') >= Len(out)
    BY <1>n, <1>q, <2>1 DEF Owners
  <2>4. Waiting' = Waiting
    BY <2>2 DEF Waiting
  <2>. QED
    BY <1>n, <1>l, <1>m, <2>1, <2>3, <2>4
<1>w. ASSUME NEW t \in Threads, sent[t] = "yes", Ended(t)
      PROVE  Cardinality(Waiting') = Cardinality(Waiting) - 1
  <2>1. sent' = [sent EXCEPT ![t] = "no"]
    BY <1>w, Zenon DEF Ended
  <2>2. Waiting' = Waiting \ {t} /\ t \in Waiting
    BY <1>s, <1>w, <2>1 DEF Waiting
  <2>. QED
    BY <1>s, <2>2, FS_RemoveElement
<1>f. ASSUME NEW t \in Threads, sent[t] = "failed", Ended(t)
      PROVE  Waiting' = Waiting /\ ~Waits(t)'
  <2>1. sent' = [sent EXCEPT ![t] = "no"]
    BY <1>f, Zenon DEF Ended
  <2>. QED
    BY <1>s, <1>f, <2>1 DEF Waiting, Waits
<1>4. ASSUME NEW t \in Threads, Receive(t)
      PROVE  LagStep
  <2>1. /\ Waits(t) /\ Ended(t) /\ in # <<>>
        /\ in' = Disown(t, Tail(in)) /\ out' = Disown(t, out)
    BY <1>4 DEF Receive
  <2>2. Tail(in) \in Seq(Replies) /\ Len(Tail(in)) = Len(in) - 1
    BY <1>n, <2>1
  <2>3. Len(in') = Len(in) - 1 /\ Len(out') = Len(out)
    BY <1>a, <1>d, <2>1, <2>2, DisownKeeps
  <2>4. CASE sent[t] = "yes"
    <3>1. Lag' = Lag
      BY <1>n, <1>l, <1>m, <1>w, <2>1, <2>3, <2>4
    <3>. QED
      BY <1>i, <3>1 DEF LagStep
  <2>5. CASE sent[t] = "failed"
    <3>1. Waiting' = Waiting /\ ~Waits(t)' /\ step[t] = "LINES"
      BY <1>f, <2>1, <2>5 DEF ExchangeTypes, Waits
    <3>2. Lag' = Lag - 1
      BY <1>n, <1>l, <1>m, <2>3, <3>1
    <3>3. Took(t)
      BY <1>n, <2>1, <2>3, <3>1 DEF Took
    <3>. QED
      BY <2>5, <3>1, <3>2, <3>3 DEF LagStep
  <2>. QED
    BY <1>s, <2>1, <2>4, <2>5 DEF Waits
<1>5. ASSUME NEW t \in Threads, GiveUp(t)
      PROVE  Lag' >= Lag
  <2>1. Waits(t) /\ Ended(t) /\ in' = in /\ out' = Disown(t, out)
    BY <1>5 DEF GiveUp
  <2>2. Len(in') = Len(in) /\ Len(out') = Len(out)
    BY <1>d, <2>1
  <2>3. CASE sent[t] = "yes"
    BY <1>n, <1>l, <1>m, <1>w, <2>1, <2>2, <2>3
  <2>4. CASE sent[t] = "failed"
    BY <1>n, <1>l, <1>m, <1>f, <2>1, <2>2, <2>4
  <2>. QED
    BY <1>s, <2>1, <2>3, <2>4 DEF Waits
<1>6. ASSUME Answer
      PROVE  Lag' = Lag
  <2>1. out # <<>> /\ out' = Tail(out) /\ UNCHANGED sent
    BY <1>6 DEF Answer
  <2>2. PICK a \in Answers(Head(out)) :
             in' = Append(in, [answer |-> a, for |-> Head(out).for])
    BY <1>6 DEF Answer
  <2>3. Len(out') = Len(out) - 1 /\ Len(in') = Len(in) + 1
    BY <1>n, <2>1, <2>2
  <2>4. Waiting' = Waiting
    BY <2>1 DEF Waiting
  <2>. QED
    BY <1>n, <1>l, <1>m, <2>3, <2>4
<1>7. ASSUME NEW t \in Threads, NEW c \in CallsOf(t), Begin(t, c)
      PROVE  Lag' = Lag
  BY <1>1, <1>7 DEF Begin
<1>8. ASSUME NEW t \in Threads, Stop(t) \/ Update(t)
      PROVE  Lag' = Lag
  BY <1>1, <1>8 DEF Stop, Update
<1>9. ASSUME UNCHANGED vars
      PROVE  Lag' = Lag
  BY <1>1, <1>9 DEF vars
<1>j. Lag' \in Int
  <2>1. Len(out') \in Nat /\ Len(in') \in Nat
    BY DEF ExchangeTypes
  <2>2. Cardinality(Waiting') \in Nat
    BY WaitersAreFinite DEF Waiting
  <2>. QED
    BY <1>m, <2>1, <2>2
<1>g. Lag' >= Lag => LagStep
  BY <1>i, <1>j DEF LagStep
<1>. HIDE DEF Lag, LagStep
<1>. QED
  BY <1>g, <1>i, <1>2, <1>3, <1>4, <1>5, <1>6, <1>7, <1>8, <1>9 DEF Next, Transfer

(* An abandoned receive, or one that was never made, leaves an answer      *)
(* behind, and no function of ni_usb_gpib.c but the line status after a    *)
(* failed send ever receives ahead of its requests.                        *)
THEOREM LagIsMadeGoodByLines == Spec => LagStays
<1>1. ExchangeInv /\ ExchangeInv' /\ [Next]_vars => [LagStep]_vars
  BY LagSteps DEF ExchangeInv
<1>. QED
  BY <1>1, ExchangeInvariant, PTL DEF Spec, LagStays
-----------------------------------------------------------------------------
(* Type correctness: the calls a thread makes are its own, each comes to   *)
(* an end, and the pipes hold no more than they can.                       *)

(* How far a call has come is told by its step and the line status         *)
(* exchanges it has made: two to each ibstatus.                            *)
CallsInv ==
    /\ lines \in [Threads -> 0 .. 3]
    /\ \A t \in Threads :
         /\ call[t] \in CallsOf(t) \cup {"idle"}
         /\ call[t] = "idle" <=> step[t] = "idle"
         /\ step[t] \in {"idle", "STOP"} => lines[t] = 0
         /\ step[t] = "UPDATE" => lines[t] \in {0, 2}
         /\ step[t] = "GTS" => lines[t] = 2

PipesInv == Len(out) <= Capacity /\ Len(in) <= Capacity

(* Going on keeps a call on its way.                                       *)
LEMMA AdvanceCalls ==
    ASSUME ExchangeTypes, CallsInv, NEW t \in Threads, NEW n, NEW inCharge,
           n = IF step[t] = "LINES" THEN lines[t] + 1 ELSE lines[t],
           call[t] # "idle", Advance(t, n, inCharge)
    PROVE  CallsInv'
<1>. DEFINE s == NextStep(call[t], step[t], n, inCharge)
<1>1. /\ step' = [step EXCEPT ![t] = s]
      /\ call' = [call EXCEPT ![t] = IF s = "idle" THEN "idle" ELSE @]
      /\ lines' = [lines EXCEPT ![t] = IF s = "idle" THEN 0 ELSE n]
  BY Zenon DEF Advance
<1>2. lines[t] \in 0 .. 3 /\ (step[t] = "UPDATE" => lines[t] \in {0, 2})
      /\ (step[t] = "STOP" => lines[t] = 0) /\ (step[t] = "GTS" => lines[t] = 2)
  BY DEF CallsInv
<1>3. s # "idle" => n \in 0 .. 3
  BY <1>2 DEF NextStep
<1>4. /\ s \in {"idle", "UPDATE", "LINES", "GTS", "REG"}
      /\ s = "UPDATE" => n \in {0, 2}
      /\ s = "GTS" => n = 2
  BY <1>2 DEF NextStep, AfterStatus
<1>5. /\ call \in [Threads -> CallNames \cup {"idle"}] /\ step \in [Threads -> Steps]
  BY DEF ExchangeTypes
<1>. HIDE DEF s
<1>. QED
  BY <1>1, <1>3, <1>4, <1>5 DEF CallsInv

(* Every step keeps the calls on their way.                                *)
LEMMA CallsStep ==
    ASSUME ExchangeTypes, CallsInv, [Next]_vars
    PROVE  CallsInv'
<1>t. call \in [Threads -> CallNames \cup {"idle"}] /\ step \in [Threads -> Steps]
      /\ \A t \in Threads : Waits(t) => step[t] \in Bulk
  BY DEF ExchangeTypes, Waits
<1>i. \A t \in Threads : step[t] \in Bulk \cup {"STOP", "UPDATE"} => call[t] # "idle"
  BY DEF CallsInv, Bulk
<1>e. ASSUME NEW t \in Threads, Ended(t), step[t] \in Bulk PROVE CallsInv'
  <2>. DEFINE n == IF step[t] = "LINES" THEN lines[t] + 1 ELSE lines[t]
  <2>1. Advance(t, n, cic[t])
    BY <1>e, Zenon DEF Ended
  <2>. HIDE DEF n
  <2>2. n = IF step[t] = "LINES" THEN lines[t] + 1 ELSE lines[t]
    BY DEF n
  <2>. QED
    BY <1>i, <1>e, <2>1, <2>2, AdvanceCalls
<1>1. ASSUME NEW t \in Threads, NEW c \in CallsOf(t), Begin(t, c) PROVE CallsInv'
  <2>1. /\ call[t] = "idle" /\ call' = [call EXCEPT ![t] = c]
        /\ step' = [step EXCEPT ![t] = FirstStep(c)] /\ lines' = lines
    BY <1>1, Zenon DEF Begin
  <2>2. c # "idle" /\ FirstStep(c) \in {"WRT", "RD", "REG", "STOP", "UPDATE"}
    BY ThreadsAssumption DEF CallsOf, FirstStep
  <2>. QED
    BY <1>t, <2>1, <2>2 DEF CallsInv
<1>2. ASSUME NEW t \in Threads, Stop(t) \/ Update(t) PROVE CallsInv'
  <2>1. PICK inCharge : Advance(t, lines[t], inCharge) /\ step[t] \in {"STOP", "UPDATE"}
    <3>1. CASE Stop(t)
      BY <3>1, Zenon DEF Stop
    <3>2. CASE Update(t)
      BY <3>2, Zenon DEF Update
    <3>. QED
      BY <1>2, <3>1, <3>2
  <2>2. lines[t] = IF step[t] = "LINES" THEN lines[t] + 1 ELSE lines[t]
    BY <2>1
  <2>. QED
    BY <1>i, <2>1, <2>2, AdvanceCalls
<1>3. ASSUME NEW t \in Threads, Send(t) PROVE CallsInv'
  BY <1>3 DEF Send, CallsInv
<1>4. ASSUME NEW t \in Threads, ReturnsEarly(t) PROVE CallsInv'
  BY <1>4, <1>e DEF ReturnsEarly, Takes
<1>5. ASSUME NEW t \in Threads, Receive(t) \/ GiveUp(t) PROVE CallsInv'
  BY <1>t, <1>5, <1>e DEF Receive, GiveUp
<1>6. CASE Answer \/ UNCHANGED vars
  BY <1>6 DEF Answer, vars, CallsInv
<1>. QED
  BY <1>1, <1>2, <1>3, <1>4, <1>5, <1>6 DEF Next, Transfer

(* A full pipe takes no request, and an adapter with a full pipe waits.    *)
LEMMA PipesStep ==
    ASSUME ExchangeTypes, PipesInv, [Next]_vars
    PROVE  PipesInv'
<1>1. /\ out \in Seq(Requests) /\ in \in Seq(Replies) /\ Capacity \in Nat
      /\ Len(out) <= Capacity /\ Len(in) <= Capacity
  BY CapacityAssumption DEF ExchangeTypes, PipesInv
<1>2. ASSUME NEW t, NEW S, NEW q \in Seq(S) PROVE Len(Disown(t, q)) = Len(q)
  BY DEF Disown
<1>3. ASSUME NEW t \in Threads, Send(t) \/ ReturnsEarly(t) PROVE PipesInv'
  <2>1. /\ in' = in
        /\ \/ out' = out
           \/ Len(out) < Capacity /\ \E m : out' = Append(out, m)
    BY <1>3 DEF Send, ReturnsEarly, Takes
  <2>. QED
    BY <1>1, <2>1 DEF PipesInv
<1>4. ASSUME NEW t \in Threads, Receive(t) PROVE PipesInv'
  <2>1. in # <<>> /\ in' = Disown(t, Tail(in)) /\ out' = Disown(t, out)
    BY <1>4 DEF Receive
  <2>2. Tail(in) \in Seq(Replies) /\ Len(Tail(in)) = Len(in) - 1
    BY <1>1, <2>1
  <2>3. Len(in') = Len(Tail(in)) /\ Len(out') = Len(out)
    BY <1>1, <1>2, <2>1, <2>2
  <2>. QED
    BY <1>1, <2>2, <2>3 DEF PipesInv
<1>5. ASSUME NEW t \in Threads, GiveUp(t) PROVE PipesInv'
  <2>1. in' = in /\ out' = Disown(t, out)
    BY <1>5 DEF GiveUp
  <2>2. Len(out') = Len(out)
    BY <1>1, <1>2, <2>1
  <2>. QED
    BY <1>1, <2>1, <2>2 DEF PipesInv
<1>6. CASE Answer
  <2>1. PICK m : in' = Append(in, m) /\ Len(in) < Capacity /\ out # <<>> /\ out' = Tail(out)
    BY <1>6 DEF Answer
  <2>. QED
    BY <1>1, <2>1 DEF PipesInv
<1>7. CASE UNCHANGED <<out, in>>
  BY <1>7 DEF PipesInv
<1>. QED
  BY <1>3, <1>4, <1>5, <1>6, <1>7 DEF Next, Transfer, Begin, Stop, Update, vars

(* The types.                                                              *)
THEOREM TypeCorrect == Spec => []TypeOK
<1>1. Init => CallsInv /\ PipesInv
  BY CapacityAssumption DEF Init, CallsInv, PipesInv
<1>2. ExchangeInv /\ CallsInv /\ PipesInv /\ [Next]_vars => CallsInv' /\ PipesInv'
  BY CallsStep, PipesStep DEF ExchangeInv
<1>3. ASSUME ExchangeInv, CallsInv, PipesInv PROVE TypeOK
  <2>1. ASSUME NEW i \in 1 .. Len(out) PROVE out[i].kind \in Bulk /\ out[i].for \in Owners
    <3>1. out[i] \in Requests
      BY <1>3 DEF ExchangeInv, ExchangeTypes
    <3>. QED
      BY <3>1 DEF Requests
  <2>2. ASSUME NEW i \in 1 .. Len(in) PROVE in[i].answer.kind \in Bulk /\ in[i].for \in Owners
    <3>1. in[i] \in Replies
      BY <1>3 DEF ExchangeInv, ExchangeTypes
    <3>. QED
      BY <3>1 DEF Replies, AnswerRecords
  <2>3. \A t \in Threads : /\ call[t] \in CallsOf(t) \cup {"idle"}
                           /\ step[t] \in Bulk \cup {"STOP", "UPDATE", "idle"}
                           /\ sent[t] \in {"no", "yes", "failed"}
                           /\ Waits(t) => step[t] \in Bulk
                           /\ (call[t] = "idle") <=> (step[t] = "idle")
                           /\ lines[t] \in 0 .. 4
    BY <1>3 DEF ExchangeInv, ExchangeTypes, CallsInv, Steps, Waits
  <2>. QED
    BY <1>3, <2>1, <2>2, <2>3 DEF PipesInv, TypeOK
<1>. QED
  BY <1>1, <1>2, <1>3, ExchangeInvariant, PTL DEF Spec
=============================================================================
