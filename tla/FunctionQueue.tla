--------------------------- MODULE FunctionQueue ----------------------------
(***************************************************************************)
(* What Pend and Done are to their callers: a first-in first-out queue whose *)
(* operations are single steps.  This is the queue module AsyncFunctions    *)
(* uses; FunctionList implements it.                                        *)
(***************************************************************************)
EXTENDS Naturals, Sequences

CONSTANTS Blocks, NoBlock, Threads, Holder

VARIABLES
  q,     \* the blocks on the list
  held,  \* held[t]: the blocks thread t may link or has unlinked
  got,   \* got[t]: *ppRetData of t's last UnlinkFirstFunction
  ret    \* ret[t]: what t's last operation returned

vars == <<q, held, got, ret>>

Init ==
  /\ q = <<>>
  /\ held = [t \in Threads |-> IF t = Holder THEN Blocks ELSE {}]
  /\ got = [t \in Threads |-> NoBlock]
  /\ ret = [t \in Threads |-> 0]

Put(t, b) ==
  /\ b \in held[t]
  /\ q' = Append(q, b)
  /\ held' = [held EXCEPT ![t] = @ \ {b}]
  /\ ret' = [ret EXCEPT ![t] = Len(q) + 1]
  /\ UNCHANGED got

Take(t) ==
  /\ q # <<>>
  /\ q' = Tail(q)
  /\ held' = [held EXCEPT ![t] = @ \cup {Head(q)}]
  /\ got' = [got EXCEPT ![t] = Head(q)]
  /\ ret' = [ret EXCEPT ![t] = Len(q) - 1]

TakeNothing(t) ==
  /\ q = <<>>
  /\ got' = [got EXCEPT ![t] = NoBlock]
  /\ ret' = [ret EXCEPT ![t] = 0]
  /\ UNCHANGED <<q, held>>

Next == \E t \in Threads : (\E b \in Blocks : Put(t, b)) \/ Take(t) \/ TakeNothing(t)

Spec == Init /\ [][Next]_vars

=============================================================================
