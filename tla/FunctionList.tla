---------------------------- MODULE FunctionList ----------------------------
(***************************************************************************)
(* The linked lists of SPECIAL_INST blocks, Runtime/auxrut.c, at the level   *)
(* of their pointers: one LINKED_LIST (pHead, pTail, uCounter, Semaphore),   *)
(* the pNext of every block, and threads that call LinkFunction and          *)
(* UnlinkFirstFunction on it.  Every assignment to the list is a step.       *)
(* A thread may also take the semaphore itself and make its calls with       *)
(* bCallerOwnsSemaphore, as VerifyDoneList does.                             *)
(***************************************************************************)
EXTENDS Naturals, Sequences

CONSTANTS
  Blocks, NoBlock,     \* SPECIAL_INST blocks, NULL
  Threads, Holder      \* the threads, and the one that has all blocks at first

ASSUME ListAssumption == NoBlock \notin Blocks /\ Holder \in Threads

VARIABLES
  pHead, pTail, uCounter,  \* the LINKED_LIST
  sem,                     \* units of pList->Semaphore
  pNext,                   \* pNext of every block
  pc, pData,               \* where each thread is, and the block it handles
  owns,                    \* owns[t]: t took the semaphore before its calls
  held, got, ret           \* blocks in t's hands; *ppRetData and result of its last call

listVars == <<pHead, pTail, uCounter>>
retVars  == <<held, got, ret>>
vars     == <<listVars, sem, pNext, pc, pData, owns, retVars>>

Steps == {"ready", "linkWait", "linkItem", "linkTail", "linkCount", "kick",
          "takeWait", "takeHead", "takeNext", "takeCount"}

TypeOK ==
  /\ pHead \in Blocks \cup {NoBlock} /\ pTail \in Blocks \cup {NoBlock}
  /\ uCounter \in Nat
  /\ sem \in {0, 1}
  /\ pNext \in [Blocks -> Blocks \cup {NoBlock}]
  /\ pc \in [Threads -> Steps]
  /\ pData \in [Threads -> Blocks \cup {NoBlock}]
  /\ owns \in [Threads -> BOOLEAN]
  /\ held \in [Threads -> SUBSET Blocks]
  /\ got \in [Threads -> Blocks \cup {NoBlock}]
  /\ ret \in [Threads -> Nat]

\* CreateSemaphore and InitLinkedList.
Init ==
  /\ pHead = NoBlock /\ pTail = NoBlock /\ uCounter = 0 /\ sem = 1
  /\ pNext = [b \in Blocks |-> NoBlock]
  /\ pc = [t \in Threads |-> "ready"]
  /\ pData = [t \in Threads |-> NoBlock]
  /\ owns = [t \in Threads |-> FALSE]
  /\ held = [t \in Threads |-> IF t = Holder THEN Blocks ELSE {}]
  /\ got = [t \in Threads |-> NoBlock]
  /\ ret = [t \in Threads |-> 0]

-----------------------------------------------------------------------------
Step(t, from, to) == pc[t] = from /\ pc' = [pc EXCEPT ![t] = to]

\* Wait( pList->Semaphore ).
Wait == sem = 1 /\ sem' = 0

\* p->pNext.  The code never follows NULL; reading through it would give nothing.
Follow(p) == IF p = NoBlock THEN NoBlock ELSE pNext[p]

\* VerifyDoneList takes and gives back the semaphore itself.
TakeList(t) ==
  /\ pc[t] = "ready" /\ ~owns[t] /\ Wait
  /\ owns' = [owns EXCEPT ![t] = TRUE]
  /\ UNCHANGED <<listVars, pNext, pc, pData, retVars>>

GiveList(t) ==
  /\ pc[t] = "ready" /\ owns[t]
  /\ owns' = [owns EXCEPT ![t] = FALSE]
  /\ sem' = 1
  /\ UNCHANGED <<listVars, pNext, pc, pData, retVars>>

\* LinkFunction: the block is terminated before the semaphore is waited for.
Link_NotTerminated(t, b) ==
  /\ b \in held[t]
  /\ Step(t, "ready", IF owns[t] THEN "linkItem" ELSE "linkWait")
  /\ pData' = [pData EXCEPT ![t] = b]
  /\ UNCHANGED <<listVars, sem, pNext, owns, retVars>>

Link(t, b) ==
  /\ b \in held[t]
  /\ Step(t, "ready", IF owns[t] THEN "linkItem" ELSE "linkWait")
  /\ pNext' = [pNext EXCEPT ![b] = NoBlock]
  /\ pData' = [pData EXCEPT ![t] = b]
  /\ UNCHANGED <<listVars, sem, owns, retVars>>

LinkWait(t) ==
  /\ Step(t, "linkWait", "linkItem") /\ Wait
  /\ UNCHANGED <<listVars, pNext, pData, owns, retVars>>

\* Appended behind pTail when uCounter says there is one; pTail may be stale else.
LinkItem(t) ==
  /\ Step(t, "linkItem", "linkTail")
  /\ IF uCounter # 0
     THEN pNext' = [pNext EXCEPT ![pTail] = pData[t]] /\ UNCHANGED pHead
     ELSE pHead' = pData[t] /\ UNCHANGED pNext
  /\ UNCHANGED <<pTail, uCounter, sem, pData, owns, retVars>>

LinkTail(t) ==
  /\ Step(t, "linkTail", "linkCount")
  /\ pTail' = pData[t]
  /\ UNCHANGED <<pHead, uCounter, sem, pNext, pData, owns, retVars>>

LinkCount(t) ==
  /\ Step(t, "linkCount", "kick")
  /\ uCounter' = uCounter + 1
  /\ ret' = [ret EXCEPT ![t] = uCounter']
  /\ held' = [held EXCEPT ![t] = @ \ {pData[t]}]
  /\ UNCHANGED <<pHead, pTail, sem, pNext, pData, owns, got>>

\* The end of either function: the semaphore is released, unless it is the caller's.
Kick(t) ==
  /\ Step(t, "kick", "ready")
  /\ sem' = IF owns[t] THEN sem ELSE 1
  /\ pData' = [pData EXCEPT ![t] = NoBlock]
  /\ UNCHANGED <<listVars, pNext, owns, retVars>>

\* UnlinkFirstFunction.
UnlinkFirst(t) ==
  /\ Step(t, "ready", IF owns[t] THEN "takeHead" ELSE "takeWait")
  /\ UNCHANGED <<listVars, sem, pNext, pData, owns, retVars>>

TakeWait(t) ==
  /\ Step(t, "takeWait", "takeHead") /\ Wait
  /\ UNCHANGED <<listVars, pNext, pData, owns, retVars>>

\* *ppRetData is pHead, which has to be NULL when nothing is linked.
TakeHead(t) ==
  /\ pData' = [pData EXCEPT ![t] = pHead]
  /\ IF uCounter # 0
     THEN Step(t, "takeHead", "takeNext") /\ UNCHANGED <<got, ret>>
     ELSE /\ Step(t, "takeHead", "kick")
          /\ got' = [got EXCEPT ![t] = pHead]
          /\ ret' = [ret EXCEPT ![t] = 0]
  /\ UNCHANGED <<listVars, sem, pNext, owns, held>>

TakeNext_NotUnlinked(t) ==
  /\ Step(t, "takeNext", "takeCount")
  /\ UNCHANGED <<listVars, sem, pNext, pData, owns, retVars>>

TakeNext(t) ==
  /\ Step(t, "takeNext", "takeCount")
  /\ pHead' = Follow(pHead)
  /\ UNCHANGED <<pTail, uCounter, sem, pNext, pData, owns, retVars>>

TakeCount(t) ==
  /\ Step(t, "takeCount", "kick")
  /\ uCounter' = uCounter - 1
  /\ got' = [got EXCEPT ![t] = pData[t]]
  /\ ret' = [ret EXCEPT ![t] = uCounter']
  /\ held' = [held EXCEPT ![t] = @ \cup {pData[t]}]
  /\ UNCHANGED <<pHead, pTail, sem, pNext, pData, owns>>

-----------------------------------------------------------------------------
\* The blocks from pHead on: Chain(k) is the k-th.
Chain(len) ==
  LET item[k \in 1..len] == IF k = 1 THEN pHead
                            ELSE Follow(item[k - 1])
  IN item

LinkFunction(t) ==
  (\E b \in Blocks : Link(t, b)) \/ LinkWait(t) \/ LinkItem(t) \/ LinkTail(t) \/ LinkCount(t)

UnlinkFirstFunction(t) ==
  UnlinkFirst(t) \/ TakeWait(t) \/ TakeHead(t) \/ TakeNext(t) \/ TakeCount(t)

Next ==
  \E t \in Threads :
    TakeList(t) \/ GiveList(t) \/ LinkFunction(t) \/ UnlinkFirstFunction(t)
    \/ Kick(t)

Spec == Init /\ [][Next]_vars

-----------------------------------------------------------------------------
\* The list as its callers know it.  Between TakeNext and TakeCount the first block
\* is off the chain and still counted.
Linked ==
  IF \E t \in Threads : pc[t] = "takeCount"
  THEN <<pData[CHOOSE t \in Threads : pc[t] = "takeCount"]>> \o Chain(uCounter - 1)
  ELSE Chain(uCounter)

Queue == INSTANCE FunctionQueue WITH q <- Linked

\* The pointer code behaves as a first-in first-out queue with indivisible operations,
\* including the counts it returns (which decide whether the task is kicked) and the
\* NULL it returns when it is empty (which BackgroundTask asserts never to get).
ImplementsQueue == Queue!Spec

\* A block that is in the hands of a thread cannot be reached from pHead, so no two
\* threads ever work on one block.
HeldIsNotLinked ==
  \A t \in Threads : \A b \in held[t] : \A k \in 1..Len(Linked) : Linked[k] # b
=============================================================================
