------------------------- MODULE FunctionListProofs --------------------------
(*****************************************************************************)
(* Proofs about FunctionList, for any blocks and any threads: the pointer    *)
(* code keeps the chain of the linked blocks, never lets a thread work on a  *)
(* linked block, and implements FunctionQueue.                               *)
(*****************************************************************************)
EXTENDS FunctionList, NaturalsInduction, WellFoundedInduction, TLAPS

-----------------------------------------------------------------------------
(* The chain of pointers as a sequence. *)

(* Every set of numbers has a least one.                                     *)
LEMMA Smallest ==
  ASSUME NEW T \in SUBSET Nat, T # {}
  PROVE  \E n \in T : \A m \in T : n <= m
<1>. DEFINE R == {ss \in Nat \X Nat : ss[1] < ss[2]}
<1>1. IsWellFoundedOn(R, Nat)
  BY NatLessThanWellFounded DEF OpToRel
<1>2. \E x \in T : \A y \in T : ~(<<y, x>> \in R)
  <2>. HIDE DEF R
  <2>. QED
    BY <1>1, WFMin
<1>3. PICK n \in T : \A m \in T : ~(<<m, n>> \in R)
  BY <1>2
<1>4. ASSUME NEW m \in T PROVE n <= m
  <2>1. m \in Nat /\ n \in Nat /\ <<m, n>> \in Nat \X Nat
    OBVIOUS
  <2>2. ~(<<m, n>>[1] < <<m, n>>[2])
    BY <1>3, <2>1
  <2>. QED
    BY <2>1, <2>2
<1>. QED
  BY <1>4

(* s[1] is the first block and s[k + 1] is what pNext of s[k] points to.     *)
Links(len, s) == s = [k \in 1..len |-> IF k = 1 THEN pHead ELSE Follow(s[k - 1])]

(* The k-th block from pHead is determined: the least k at which two chains  *)
(* of pointers differed would follow a k at which they differ.               *)
LEMMA ChainIs ==
  ASSUME NEW len \in Nat, NEW s, Links(len, s)
  PROVE  Chain(len) = s
<1>1. Chain(len) = CHOOSE r : Links(len, r)
  BY Zenon DEF Chain, Links
<1>. DEFINE r == Chain(len)
<1>2. Links(len, r)
  BY <1>1
<1>. HIDE DEF r
<1>. DEFINE T == {k \in 1..len : r[k] # s[k]}
<1>3. T = {}
  <2>. SUFFICES ASSUME T # {} PROVE FALSE
    OBVIOUS
  <2>1. PICK k \in T : \A m \in T : k <= m
    <3>1. T \in SUBSET Nat
      OBVIOUS
    <3>. HIDE DEF T
    <3>. QED
      BY <3>1, Smallest
  <2>2. k \in 1..len /\ r[k] # s[k]
    OBVIOUS
  <2>3. k # 1
    BY <1>2, <2>2 DEF Links
  <2>4. k - 1 \in 1..len /\ ~(k <= k - 1)
    BY <2>2, <2>3
  <2>5. r[k - 1] = s[k - 1]
    BY <2>1, <2>4
  <2>6. r[k] = Follow(r[k - 1]) /\ s[k] = Follow(s[k - 1])
    BY <1>2, <2>2, <2>3 DEF Links
  <2>. QED
    BY <2>2, <2>5, <2>6
<1>4. \A k \in 1..len : r[k] = s[k]
  BY <1>3
<1>5. r = [k \in 1..len |-> r[k]] /\ s = [k \in 1..len |-> s[k]]
  BY <1>2 DEF Links
<1>. QED
  BY <1>4, <1>5 DEF r

-----------------------------------------------------------------------------
(* The semaphore. *)

Outside == {"ready", "linkWait", "takeWait"}
Linking == {"linkWait", "linkItem", "linkTail", "linkCount"}

(* t has the list: it took the semaphore, itself or in the function it calls.*)
Inside(t) == owns[t] \/ pc[t] \notin Outside

LockInv ==
  /\ sem \in {0, 1}
  /\ pc \in [Threads -> Steps] /\ owns \in [Threads -> BOOLEAN]
  /\ sem = 1 => \A t \in Threads : ~Inside(t)
  /\ \A t, u \in Threads : Inside(t) /\ Inside(u) => t = u
  /\ \A t \in Threads : pc[t] \in {"linkWait", "takeWait"} => ~owns[t]

(* What each step does to the semaphore and to the places of the threads.    *)
LEMMA LockStep ==
  ASSUME LockInv, [Next]_vars
  PROVE  LockInv'
<1>. USE DEF LockInv, Inside, Outside, Steps, Step, Wait
<1>1. ASSUME NEW t \in Threads, TakeList(t) PROVE LockInv'
  BY <1>1 DEF TakeList
<1>2. ASSUME NEW t \in Threads, GiveList(t) PROVE LockInv'
  BY <1>2 DEF GiveList
<1>3. ASSUME NEW t \in Threads, NEW b \in Blocks, Link(t, b) PROVE LockInv'
  BY <1>3 DEF Link
<1>4. ASSUME NEW t \in Threads, LinkWait(t) PROVE LockInv'
  BY <1>4 DEF LinkWait
<1>5. ASSUME NEW t \in Threads, LinkItem(t) PROVE LockInv'
  BY <1>5 DEF LinkItem
<1>6. ASSUME NEW t \in Threads, LinkTail(t) PROVE LockInv'
  BY <1>6 DEF LinkTail
<1>7. ASSUME NEW t \in Threads, LinkCount(t) PROVE LockInv'
  BY <1>7 DEF LinkCount
<1>8. ASSUME NEW t \in Threads, Kick(t) PROVE LockInv'
  BY <1>8 DEF Kick
<1>9. ASSUME NEW t \in Threads, UnlinkFirst(t) PROVE LockInv'
  BY <1>9 DEF UnlinkFirst
<1>10. ASSUME NEW t \in Threads, TakeWait(t) PROVE LockInv'
  BY <1>10 DEF TakeWait
<1>11. ASSUME NEW t \in Threads, TakeHead(t) PROVE LockInv'
  BY <1>11 DEF TakeHead
<1>12. ASSUME NEW t \in Threads, TakeNext(t) PROVE LockInv'
  BY <1>12 DEF TakeNext
<1>13. ASSUME NEW t \in Threads, TakeCount(t) PROVE LockInv'
  BY <1>13 DEF TakeCount
<1>14. CASE UNCHANGED vars
  BY <1>14 DEF vars
<1>. QED
  BY <1>1, <1>2, <1>3, <1>4, <1>5, <1>6, <1>7, <1>8, <1>9, <1>10, <1>11, <1>12,
     <1>13, <1>14 DEF Next, LinkFunction, UnlinkFirstFunction

-----------------------------------------------------------------------------
(* The list. *)

Pointers == Blocks \cup {NoBlock}

(* A block is in the hands of one thread; one that is being linked is in the *)
(* hands of the thread that links it, and ends the chain it will be put on.  *)
HandsInv ==
  /\ pHead \in Pointers /\ pTail \in Pointers
  /\ pNext \in [Blocks -> Pointers] /\ pData \in [Threads -> Pointers]
  /\ held \in [Threads -> SUBSET Blocks]
  /\ got \in [Threads -> Pointers] /\ ret \in [Threads -> Nat]
  /\ \A t \in Threads : pc[t] \in Linking => pData[t] \in held[t] /\ pNext[pData[t]] = NoBlock
  /\ \A t, u \in Threads : t # u => held[t] \cap held[u] = {}

(* What the pointer at the end of the chain s points to.                     *)
After(s) == IF s = <<>> THEN pHead ELSE pNext[s[Len(s)]]
Second(s) == IF Len(s) > 1 THEN s[2] ELSE NoBlock

(* The places of a thread at which the fields of the list disagree.          *)
Midway == {"linkTail", "linkCount", "takeNext", "takeCount"}

(* s is the list the pointers spell.  A thread midway has the next block     *)
(* behind its end, has pTail ahead of it, or has pHead behind its beginning. *)
ListOf(s) ==
  /\ s \in Seq(Blocks) /\ Len(s) = uCounter
  /\ \A i, j \in 1..Len(s) : s[i] = s[j] => i = j
  /\ \A t \in Threads, i \in 1..Len(s) : s[i] \notin held[t]
  /\ \A i \in 1..Len(s) : i < Len(s) => pNext[s[i]] = s[i + 1]
  /\ \A t \in Threads : pc[t] \in {"linkTail", "linkCount"} => After(s) = pData[t]
  /\ (\A t \in Threads : pc[t] \notin {"linkTail", "linkCount"}) => After(s) = NoBlock
  /\ \A t \in Threads : pc[t] = "linkCount" => pTail = pData[t]
  /\ (\A t \in Threads : pc[t] # "linkCount") /\ s # <<>> => pTail = s[Len(s)]
  /\ \A t \in Threads : pc[t] \in {"takeNext", "takeCount"} => s # <<>> /\ pData[t] = s[1]
  /\ \A t \in Threads : pc[t] = "takeCount" => pHead = Second(s)
  /\ (\A t \in Threads : pc[t] # "takeCount") /\ s # <<>> => pHead = s[1]

ListInv == LockInv /\ HandsInv /\ \E s : ListOf(s)

(* The chain that starts with the block p.                                   *)
LEMMA SpelledChain ==
  ASSUME NoBlock \notin Blocks, NEW s \in Seq(Blocks), s # <<>> => pHead = s[1],
         \A i \in 1..Len(s) : i < Len(s) => pNext[s[i]] = s[i + 1]
  PROVE  Chain(Len(s)) = s
<1>1. \A k \in 1..Len(s) : s[k] = IF k = 1 THEN pHead ELSE Follow(s[k - 1])
  <2>. SUFFICES ASSUME NEW k \in 1..Len(s)
                PROVE  s[k] = IF k = 1 THEN pHead ELSE Follow(s[k - 1])
    OBVIOUS
  <2>1. CASE k = 1
    BY <2>1
  <2>2. CASE k # 1
    <3>1. k - 1 \in 1..Len(s) /\ k - 1 < Len(s) /\ (k - 1) + 1 = k
      BY <2>2
    <3>2. s[k - 1] \in Blocks /\ pNext[s[k - 1]] = s[k]
      BY <3>1
    <3>. QED
      BY <2>2, <3>2 DEF Follow
  <2>. QED
    BY <2>1, <2>2
<1>2. s = [k \in 1..Len(s) |-> s[k]] /\ Len(s) \in Nat
  OBVIOUS
<1>3. Links(Len(s), s)
  BY <1>1, <1>2 DEF Links
<1>. QED
  BY <1>2, <1>3, ChainIs

(* What the callers see is the list the pointers spell.                      *)
LEMMA LinkedIs ==
  ASSUME LockInv, NEW s, ListOf(s)
  PROVE  Linked = s
<1>. NoBlock \notin Blocks
  BY ListAssumption
<1>1. CASE \A t \in Threads : pc[t] # "takeCount"
  <2>1. Linked = Chain(uCounter)
    BY <1>1 DEF Linked
  <2>2. Chain(Len(s)) = s
    BY <1>1, SpelledChain DEF ListOf
  <2>. QED
    BY <2>1, <2>2 DEF ListOf
<1>2. ASSUME NEW u \in Threads, pc[u] = "takeCount"
      PROVE  Linked = s
  <2>. DEFINE t == CHOOSE v \in Threads : pc[v] = "takeCount"
  <2>1. t \in Threads /\ pc[t] = "takeCount"
    BY <1>2
  <2>2. Linked = <<pData[t]>> \o Chain(uCounter - 1)
    BY <1>2 DEF Linked
  <2>. HIDE DEF t
  <2>3. /\ s \in Seq(Blocks) /\ s # <<>> /\ Len(s) = uCounter
        /\ pData[t] = s[1] /\ pHead = Second(s)
    BY <2>1 DEF ListOf
  <2>4. /\ Tail(s) \in Seq(Blocks) /\ Len(Tail(s)) = uCounter - 1
        /\ s = <<s[1]>> \o Tail(s)
        /\ \A i \in 1..Len(Tail(s)) : Tail(s)[i] = s[i + 1]
    BY <2>3
  <2>5. Tail(s) # <<>> => pHead = Tail(s)[1]
    <3>. SUFFICES ASSUME Tail(s) # <<>> PROVE pHead = Tail(s)[1]
      OBVIOUS
    <3>1. Len(Tail(s)) >= 1 /\ Len(s) > 1
      BY <2>3, <2>4
    <3>2. 1 \in 1..Len(Tail(s)) /\ Tail(s)[1] = s[2]
      BY <2>4, <3>1
    <3>. QED
      BY <2>3, <3>1, <3>2 DEF Second
  <2>6. \A i \in 1..Len(Tail(s)) :
           i < Len(Tail(s)) => pNext[Tail(s)[i]] = Tail(s)[i + 1]
    <3>. SUFFICES ASSUME NEW i \in 1..Len(Tail(s)), i < Len(Tail(s))
                  PROVE  pNext[Tail(s)[i]] = Tail(s)[i + 1]
      OBVIOUS
    <3>1. i + 1 \in 1..Len(s) /\ i + 1 < Len(s) /\ i + 1 \in 1..Len(Tail(s))
      BY <2>3, <2>4
    <3>2. pNext[s[i + 1]] = s[(i + 1) + 1]
      BY <3>1 DEF ListOf
    <3>. QED
      BY <2>4, <3>1, <3>2
  <2>7. Chain(Len(Tail(s))) = Tail(s)
    BY <2>4, <2>5, <2>6, SpelledChain
  <2>. QED
    BY <2>2, <2>3, <2>4, <2>7
<1>. QED
  BY <1>1, <1>2

-----------------------------------------------------------------------------
(* The steps. *)

(* While a thread has the list no other is midway.                           *)
LEMMA Alone ==
  ASSUME LockInv, NEW t \in Threads, Inside(t)
  PROVE  \A u \in Threads : u # t => pc[u] \in Outside /\ pc[u] \notin Midway
BY DEF LockInv, Inside, Outside, Midway

(* The block a linking thread handles is its own, and the end of the chain   *)
(* it is put behind is nobody's.                                             *)
LEMMA TailIsLinked ==
  ASSUME NEW s, ListOf(s), NEW t \in Threads, LockInv, pc[t] = "linkItem", uCounter # 0
  PROVE  s # <<>> /\ pTail = s[Len(s)] /\ pTail \in Blocks
         /\ \A u \in Threads : pTail \notin held[u]
<1>1. \A u \in Threads : pc[u] # "linkCount"
  BY DEF LockInv, Inside, Outside
<1>2. s \in Seq(Blocks) /\ s # <<>> /\ Len(s) \in 1..Len(s)
  BY DEF ListOf
<1>. QED
  BY <1>1, <1>2 DEF ListOf

(* Blocks change hands only by way of the list.                              *)
LEMMA HandsStep ==
  ASSUME LockInv, HandsInv, NEW s, ListOf(s), [Next]_vars
  PROVE  HandsInv'
<1>. USE DEF HandsInv, Linking, Step, Pointers
<1>. NoBlock \notin Blocks
  BY ListAssumption
<1>t. pc \in [Threads -> Steps] /\ uCounter \in Nat
  BY DEF LockInv, ListOf
<1>1. ASSUME NEW t \in Threads, TakeList(t) \/ GiveList(t) PROVE HandsInv'
  BY <1>1 DEF TakeList, GiveList, retVars, listVars
<1>3. ASSUME NEW t \in Threads, NEW b \in Blocks, Link(t, b) PROVE HandsInv'
  <2>1. /\ b \in held[t] /\ pNext' = [pNext EXCEPT ![b] = NoBlock]
        /\ pData' = [pData EXCEPT ![t] = b]
        /\ \A u \in Threads : u # t => pc'[u] = pc[u]
        /\ UNCHANGED <<pHead, pTail, held, got, ret>>
    BY <1>t, <1>3 DEF Link, retVars, listVars
  <2>. QED
    BY <2>1
<1>4. ASSUME NEW t \in Threads, LinkWait(t) PROVE HandsInv'
  BY <1>t, <1>4 DEF LinkWait, retVars, listVars
<1>5. ASSUME NEW t \in Threads, LinkItem(t) PROVE HandsInv'
  <2>1. /\ pc[t] = "linkItem" /\ pc' = [pc EXCEPT ![t] = "linkTail"]
        /\ UNCHANGED <<pTail, pData, held, got, ret>>
    BY <1>5 DEF LinkItem, retVars
  <2>2. CASE uCounter # 0
    <3>1. pNext' = [pNext EXCEPT ![pTail] = pData[t]] /\ UNCHANGED pHead
      BY <1>5, <2>2 DEF LinkItem
    <3>2. \A u \in Threads : pTail \notin held[u]
      BY <2>1, <2>2, TailIsLinked
    <3>3. pNext' \in [Blocks -> Pointers]
      BY <2>1, <3>1
    <3>4. ASSUME NEW u \in Threads, pc'[u] \in Linking
          PROVE  pData'[u] \in held'[u] /\ pNext'[pData'[u]] = NoBlock
      <4>1. pc[u] \in Linking
        BY <1>t, <2>1, <3>4
      <4>2. pData[u] \in held[u] /\ pNext[pData[u]] = NoBlock /\ pData[u] # pTail
        BY <3>2, <4>1
      <4>. QED
        BY <2>1, <3>1, <4>2
    <3>. QED
      BY <2>1, <3>1, <3>3, <3>4
  <2>3. CASE uCounter = 0
    <3>1. pHead' = pData[t] /\ UNCHANGED pNext
      BY <1>5, <2>3 DEF LinkItem
    <3>. QED
      BY <1>t, <2>1, <3>1
  <2>. QED
    BY <2>2, <2>3
<1>6. ASSUME NEW t \in Threads, LinkTail(t) PROVE HandsInv'
  BY <1>t, <1>6 DEF LinkTail, retVars
<1>7. ASSUME NEW t \in Threads, LinkCount(t) PROVE HandsInv'
  <2>1. /\ pc[t] = "linkCount" /\ pc' = [pc EXCEPT ![t] = "kick"]
        /\ held' = [held EXCEPT ![t] = @ \ {pData[t]}]
        /\ ret' = [ret EXCEPT ![t] = uCounter + 1]
        /\ UNCHANGED <<pHead, pTail, pNext, pData, got>>
    BY <1>7 DEF LinkCount
  <2>2. \A u \in Threads : pc'[u] \in Linking => pc[u] \in Linking /\ u # t
    BY <1>t, <2>1
  <2>3. \A u \in Threads : held'[u] \subseteq held[u] /\ (u # t => held'[u] = held[u])
    BY <2>1
  <2>4. held' \in [Threads -> SUBSET Blocks] /\ ret' \in [Threads -> Nat]
    BY <1>t, <2>1
  <2>. QED
    BY <2>1, <2>2, <2>3, <2>4
<1>8. ASSUME NEW t \in Threads, Kick(t) \/ UnlinkFirst(t) \/ TakeWait(t) PROVE HandsInv'
  BY <1>t, <1>8 DEF Kick, UnlinkFirst, TakeWait, retVars, listVars
<1>9. ASSUME NEW t \in Threads, TakeHead(t) PROVE HandsInv'
  <2>1. /\ pc[t] = "takeHead" /\ pData' = [pData EXCEPT ![t] = pHead]
        /\ pc' = [pc EXCEPT ![t] = "takeNext"] \/ pc' = [pc EXCEPT ![t] = "kick"]
        /\ UNCHANGED <<pHead, pTail, pNext, held>>
    BY <1>9 DEF TakeHead, listVars
  <2>2. got' \in [Threads -> Pointers] /\ ret' \in [Threads -> Nat]
    BY <1>9 DEF TakeHead
  <2>3. \A u \in Threads : pc'[u] \in Linking => pc[u] \in Linking /\ u # t
    BY <1>t, <2>1
  <2>. QED
    BY <2>1, <2>2, <2>3
<1>10. ASSUME NEW t \in Threads, TakeNext(t) PROVE HandsInv'
  BY <1>t, <1>10 DEF TakeNext, retVars, Follow
<1>11. ASSUME NEW t \in Threads, TakeCount(t) PROVE HandsInv'
  <2>1. /\ pc[t] = "takeCount" /\ pc' = [pc EXCEPT ![t] = "kick"]
        /\ held' = [held EXCEPT ![t] = @ \cup {pData[t]}]
        /\ got' = [got EXCEPT ![t] = pData[t]]
        /\ ret' = [ret EXCEPT ![t] = uCounter - 1]
        /\ UNCHANGED <<pHead, pTail, pNext, pData>>
    BY <1>11 DEF TakeCount
  <2>2. s \in Seq(Blocks) /\ s # <<>> /\ pData[t] = s[1] /\ Len(s) = uCounter
    BY <2>1 DEF ListOf
  <2>3. pData[t] \in Blocks /\ uCounter - 1 \in Nat
    BY <2>2
  <2>4. \A u \in Threads : pData[t] \notin held[u]
    <3>1. 1 \in 1..Len(s)
      BY <2>2
    <3>. QED
      BY <2>2, <3>1 DEF ListOf
  <2>5. \A u \in Threads : pc'[u] \in Linking => pc[u] \in Linking /\ u # t
    BY <1>t, <2>1
  <2>6. held' \in [Threads -> SUBSET Blocks] /\ ret' \in [Threads -> Nat]
    BY <2>1, <2>3
  <2>7. \A u, v \in Threads : u # v => held'[u] \cap held'[v] = {}
    BY <2>1, <2>4
  <2>. QED
    BY <2>1, <2>5, <2>6, <2>7
<1>12. CASE UNCHANGED vars
  BY <1>12 DEF vars, listVars, retVars
<1>. QED
  BY <1>1, <1>3, <1>4, <1>5, <1>6, <1>7, <1>8, <1>9, <1>10, <1>11, <1>12
     DEF Next, LinkFunction, UnlinkFirstFunction

(* What a step of FunctionQueue does to the list s, with r after it.         *)
PutStep(s, r) ==
  \E t \in Threads : \E b \in Blocks :
    /\ b \in held[t] /\ r = Append(s, b)
    /\ held' = [held EXCEPT ![t] = @ \ {b}]
    /\ ret' = [ret EXCEPT ![t] = Len(s) + 1] /\ UNCHANGED got

TakeStep(s, r) ==
  \E t \in Threads :
    /\ s # <<>> /\ r = Tail(s)
    /\ held' = [held EXCEPT ![t] = @ \cup {Head(s)}]
    /\ got' = [got EXCEPT ![t] = Head(s)]
    /\ ret' = [ret EXCEPT ![t] = Len(s) - 1]

NothingStep(s, r) ==
  \E t \in Threads :
    /\ s = <<>> /\ r = s
    /\ got' = [got EXCEPT ![t] = NoBlock]
    /\ ret' = [ret EXCEPT ![t] = 0] /\ UNCHANGED held

QueueStep(s, r) ==
  PutStep(s, r) \/ TakeStep(s, r) \/ NothingStep(s, r) \/ (r = s /\ UNCHANGED retVars)

(* A step that leaves the fields of the list, the pointers of its blocks and *)
(* the threads midway alone leaves the list alone.                           *)
LEMMA ListKept ==
  ASSUME NEW s, ListOf(s), UNCHANGED listVars,
         \A i \in 1..Len(s) : pNext'[s[i]] = pNext[s[i]],
         \A u \in Threads : held'[u] = held[u],
         \A u \in Threads : pc[u] \in Midway \/ pc'[u] \in Midway
                              => pc'[u] = pc[u] /\ pData'[u] = pData[u]
  PROVE  ListOf(s)'
<1>1. s \in Seq(Blocks) /\ (s # <<>> => Len(s) \in 1..Len(s))
  BY DEF ListOf
<1>2. After(s)' = After(s)
  BY <1>1 DEF After, listVars
<1>3. Second(s)' = Second(s)
  BY DEF Second
<1>4. /\ \A u \in Threads : pc[u] \in {"linkTail", "linkCount"} <=> pc'[u] \in {"linkTail", "linkCount"}
      /\ \A u \in Threads : pc[u] = "linkCount" <=> pc'[u] = "linkCount"
      /\ \A u \in Threads : pc[u] \in {"takeNext", "takeCount"} <=> pc'[u] \in {"takeNext", "takeCount"}
      /\ \A u \in Threads : pc[u] = "takeCount" <=> pc'[u] = "takeCount"
      /\ \A u \in Threads : pc'[u] \in Midway => pData'[u] = pData[u]
  BY DEF Midway
<1>5. /\ \A t \in Threads : pc'[t] \in {"linkTail", "linkCount"} => After(s)' = pData'[t]
      /\ \A t \in Threads : pc'[t] = "linkCount" => pTail' = pData'[t]
      /\ \A t \in Threads : pc'[t] \in {"takeNext", "takeCount"} => s # <<>> /\ pData'[t] = s[1]
  BY <1>2, <1>4 DEF ListOf, Midway, listVars
<1>6. /\ (\A t \in Threads : pc'[t] \notin {"linkTail", "linkCount"}) => After(s)' = NoBlock
      /\ (\A t \in Threads : pc'[t] # "linkCount") /\ s # <<>> => pTail' = s[Len(s)]
      /\ \A t \in Threads : pc'[t] = "takeCount" => pHead' = Second(s)
      /\ (\A t \in Threads : pc'[t] # "takeCount") /\ s # <<>> => pHead' = s[1]
  BY <1>2, <1>4 DEF ListOf, listVars
<1>7. /\ s \in Seq(Blocks) /\ Len(s) = uCounter'
      /\ \A i, j \in 1..Len(s) : s[i] = s[j] => i = j
      /\ \A t \in Threads, i \in 1..Len(s) : s[i] \notin held'[t]
      /\ \A i \in 1..Len(s) : i < Len(s) => pNext'[s[i]] = s[i + 1]
  BY DEF ListOf, listVars
<1>. QED
  BY <1>3, <1>5, <1>6, <1>7 DEF ListOf

(* Whoever is midway has the list to itself, and a list that is empty begins *)
(* and ends with NULL.                                                       *)
LEMMA ListStep ==
  ASSUME LockInv, HandsInv, NEW s, ListOf(s), [Next]_vars
  PROVE  \E r : ListOf(r)' /\ QueueStep(s, r)
<1>. NoBlock \notin Blocks
  BY ListAssumption
<1>t. pc \in [Threads -> Steps] /\ uCounter \in Nat
  BY DEF LockInv, ListOf
<1>s. /\ s \in Seq(Blocks) /\ Len(s) = uCounter /\ Len(s) \in Nat
      /\ \A i \in 1..Len(s) : s[i] \in Blocks
      /\ s # <<>> => 1 \in 1..Len(s) /\ Len(s) \in 1..Len(s)
  BY DEF ListOf
<1>h. /\ pNext \in [Blocks -> Pointers] /\ pData \in [Threads -> Pointers]
      /\ held \in [Threads -> SUBSET Blocks]
  BY DEF HandsInv
<1>k. ASSUME NEW t \in Threads, pc[t] \notin Midway, pc'[t] \notin Midway,
             \A u \in Threads : u # t => pc'[u] = pc[u] /\ pData'[u] = pData[u],
             \A i \in 1..Len(s) : pNext'[s[i]] = pNext[s[i]],
             UNCHANGED <<listVars, held>>
      PROVE  ListOf(s)'
  BY <1>k, ListKept
<1>q. ASSUME ListOf(s)', UNCHANGED retVars
      PROVE  \E r : ListOf(r)' /\ QueueStep(s, r)
  BY <1>q DEF QueueStep
<1>1. ASSUME NEW t \in Threads, TakeList(t) \/ GiveList(t)
      PROVE  \E r : ListOf(r)' /\ QueueStep(s, r)
  <2>1. pc[t] = "ready" /\ UNCHANGED <<listVars, pNext, pc, pData, retVars>>
    BY <1>1 DEF TakeList, GiveList
  <2>2. ListOf(s)'
    BY <2>1, <1>k DEF Midway, retVars
  <2>. QED
    BY <1>q, <2>1, <2>2
<1>2. ASSUME NEW t \in Threads, NEW b \in Blocks, Link(t, b)
      PROVE  \E r : ListOf(r)' /\ QueueStep(s, r)
  <2>1. /\ b \in held[t] /\ pc[t] = "ready" /\ pNext' = [pNext EXCEPT ![b] = NoBlock]
        /\ pData' = [pData EXCEPT ![t] = b]
        /\ pc' = [pc EXCEPT ![t] = IF owns[t] THEN "linkItem" ELSE "linkWait"]
        /\ UNCHANGED <<listVars, retVars>>
    BY <1>2 DEF Link, Step
  <2>2. \A u \in Threads : u # t => pc'[u] = pc[u] /\ pData'[u] = pData[u]
    BY <1>t, <1>h, <2>1
  <2>3. pc[t] \notin Midway /\ pc'[t] \notin Midway
    BY <1>t, <2>1 DEF Midway
  <2>4. \A i \in 1..Len(s) : pNext'[s[i]] = pNext[s[i]]
    <3>1. \A i \in 1..Len(s) : s[i] # b
      BY <2>1 DEF ListOf
    <3>. QED
      BY <1>s, <1>h, <2>1, <3>1
  <2>5. ListOf(s)'
    BY <1>k, <2>1, <2>2, <2>3, <2>4 DEF retVars
  <2>. QED
    BY <1>q, <2>1, <2>5
<1>3. ASSUME NEW t \in Threads, LinkWait(t) \/ UnlinkFirst(t) \/ TakeWait(t)
      PROVE  \E r : ListOf(r)' /\ QueueStep(s, r)
  <2>1. /\ UNCHANGED <<listVars, pNext, pData, retVars>>
        /\ \E from, to \in Steps \ Midway : pc[t] = from /\ pc' = [pc EXCEPT ![t] = to]
    BY <1>3 DEF LinkWait, UnlinkFirst, TakeWait, Step, Steps, Midway
  <2>2. ListOf(s)'
    BY <1>k, <1>t, <2>1 DEF retVars
  <2>. QED
    BY <1>q, <2>1, <2>2
<1>4. ASSUME NEW t \in Threads, Kick(t)
      PROVE  \E r : ListOf(r)' /\ QueueStep(s, r)
  <2>1. /\ pc[t] = "kick" /\ pc' = [pc EXCEPT ![t] = "ready"]
        /\ pData' = [pData EXCEPT ![t] = NoBlock] /\ UNCHANGED <<listVars, pNext, retVars>>
    BY <1>4 DEF Kick, Step
  <2>2. \A u \in Threads : u # t => pc'[u] = pc[u] /\ pData'[u] = pData[u]
    BY <1>t, <1>h, <2>1
  <2>3. pc[t] \notin Midway /\ pc'[t] \notin Midway
    BY <1>t, <2>1 DEF Midway
  <2>4. ListOf(s)'
    BY <1>k, <2>1, <2>2, <2>3 DEF retVars
  <2>. QED
    BY <1>q, <2>1, <2>4
<1>a. ASSUME NEW t \in Threads, Inside(t)
      PROVE  \A u \in Threads : u # t => pc[u] \notin Midway
  BY <1>a, Alone
<1>5. ASSUME NEW t \in Threads, LinkItem(t)
      PROVE  \E r : ListOf(r)' /\ QueueStep(s, r)
  <2>1. /\ pc[t] = "linkItem" /\ pc' = [pc EXCEPT ![t] = "linkTail"]
        /\ UNCHANGED <<pTail, uCounter, pData, retVars>>
    BY <1>5 DEF LinkItem, Step
  <2>2. /\ \A u \in Threads : pc[u] \notin Midway
        /\ pc'[t] = "linkTail" /\ \A u \in Threads : u # t => pc'[u] \notin Midway
    BY <1>a, <1>t, <2>1 DEF Inside, Outside, Midway
  <2>3. After(s)' = pData[t] /\ (s # <<>> => pHead' = pHead)
        /\ \A i \in 1..Len(s) : i < Len(s) => pNext'[s[i]] = s[i + 1]
    <3>1. CASE uCounter # 0
      <4>1. pNext' = [pNext EXCEPT ![pTail] = pData[t]] /\ UNCHANGED pHead
        BY <1>5, <3>1 DEF LinkItem
      <4>2. s # <<>> /\ pTail = s[Len(s)] /\ pTail \in Blocks
        BY <2>1, <3>1, TailIsLinked
      <4>3. pNext'[s[Len(s)]] = pData[t]
        BY <1>h, <4>1, <4>2
      <4>4. ASSUME NEW i \in 1..Len(s), i < Len(s)
            PROVE  pNext'[s[i]] = s[i + 1]
        <5>1. s[i] # s[Len(s)]
          BY <1>s, <4>2, <4>4 DEF ListOf
        <5>2. pNext'[s[i]] = pNext[s[i]]
          BY <1>s, <1>h, <4>1, <4>2, <5>1
        <5>. QED
          BY <4>4, <5>2 DEF ListOf
      <4>. QED
        BY <4>1, <4>2, <4>3, <4>4 DEF After
    <3>2. CASE uCounter = 0
      <4>1. pHead' = pData[t] /\ UNCHANGED pNext
        BY <1>5, <3>2 DEF LinkItem
      <4>2. s = <<>>
        BY <1>s, <3>2
      <4>. QED
        BY <4>1, <4>2 DEF After
    <3>. QED
      BY <3>1, <3>2
  <2>4. ListOf(s)'
    <3>1. pTail' = pTail /\ uCounter' = uCounter /\ pData' = pData /\ held' = held
      BY <2>1 DEF retVars
    <3>2. (s # <<>> => pTail = s[Len(s)]) /\ (s # <<>> => pHead = s[1])
      BY <2>2 DEF ListOf, Midway
    <3>3. \A u \in Threads : pc'[u] \in Midway => u = t
      BY <2>2
    <3>4. /\ \A u \in Threads : pc'[u] \in {"linkTail", "linkCount"} => After(s)' = pData'[u]
          /\ (\A u \in Threads : pc'[u] \notin {"linkTail", "linkCount"}) => After(s)' = NoBlock
      BY <2>2, <2>3, <3>1, <3>3 DEF Midway
    <3>5. \A u \in Threads : pc'[u] \notin {"linkCount", "takeNext", "takeCount"}
      BY <2>2, <3>3 DEF Midway
    <3>. QED
      BY <1>s, <2>3, <3>1, <3>2, <3>4, <3>5 DEF ListOf
  <2>. QED
    BY <1>q, <2>1, <2>4
<1>6. ASSUME NEW t \in Threads, LinkTail(t)
      PROVE  \E r : ListOf(r)' /\ QueueStep(s, r)
  <2>1. /\ pc[t] = "linkTail" /\ pc' = [pc EXCEPT ![t] = "linkCount"] /\ pTail' = pData[t]
        /\ pHead' = pHead /\ uCounter' = uCounter /\ pNext' = pNext /\ pData' = pData
        /\ UNCHANGED retVars
    BY <1>6 DEF LinkTail, Step
  <2>2. /\ \A u \in Threads : pc[u] \in Midway => u = t
        /\ pc'[t] = "linkCount" /\ \A u \in Threads : pc'[u] \in Midway => u = t
    BY <1>a, <1>t, <2>1 DEF Inside, Outside, Midway
  <2>3. After(s)' = After(s) /\ After(s) = pData[t]
    BY <2>1 DEF After, ListOf
  <2>4. s # <<>> => pHead = s[1]
    BY <2>1, <2>2 DEF ListOf, Midway
  <2>5. /\ \A u \in Threads : pc'[u] \in {"linkTail", "linkCount"} => After(s)' = pData'[u]
        /\ (\A u \in Threads : pc'[u] \notin {"linkTail", "linkCount"}) => After(s)' = NoBlock
        /\ \A u \in Threads : pc'[u] = "linkCount" => pTail' = pData'[u]
        /\ (\A u \in Threads : pc'[u] # "linkCount") /\ s # <<>> => pTail' = s[Len(s)]
    BY <2>1, <2>2, <2>3 DEF Midway
  <2>6. \A u \in Threads : pc'[u] \notin {"takeNext", "takeCount"}
    BY <2>2 DEF Midway
  <2>7. ListOf(s)'
    BY <1>s, <2>1, <2>4, <2>5, <2>6 DEF ListOf, retVars
  <2>. QED
    BY <1>q, <2>1, <2>7
<1>7. ASSUME NEW t \in Threads, LinkCount(t)
      PROVE  \E r : ListOf(r)' /\ QueueStep(s, r)
  <2>b. PICK b : b = pData[t]
    OBVIOUS
  <2>r. PICK r : r = Append(s, b)
    OBVIOUS
  <2>1. /\ pc[t] = "linkCount" /\ pc' = [pc EXCEPT ![t] = "kick"] /\ uCounter' = uCounter + 1
        /\ held' = [held EXCEPT ![t] = @ \ {b}] /\ ret' = [ret EXCEPT ![t] = uCounter + 1]
        /\ pHead' = pHead /\ pTail' = pTail /\ pNext' = pNext /\ pData' = pData /\ got' = got
    BY <1>7, <2>b DEF LinkCount, Step
  <2>2. \A u \in Threads : pc'[u] \notin Midway
    BY <1>a, <1>t, <2>1 DEF Inside, Outside, Midway
  <2>3. b \in held[t] /\ b \in Blocks /\ pNext[b] = NoBlock
    BY <1>h, <2>1, <2>b DEF HandsInv, Linking
  <2>4. After(s) = b /\ pTail = b
    BY <2>1, <2>b DEF ListOf
  <2>5. /\ r \in Seq(Blocks) /\ Len(r) = Len(s) + 1 /\ r[Len(r)] = b /\ r # <<>>
        /\ \A i \in 1..Len(s) : r[i] = s[i]
    BY <1>s, <2>3, <2>r
  <2>6. \A i \in 1..Len(s) : s[i] # b
    BY <2>3 DEF ListOf
  <2>7. \A i, j \in 1..Len(r) : r[i] = r[j] => i = j
    <3>. SUFFICES ASSUME NEW i \in 1..Len(r), NEW j \in 1..Len(r), r[i] = r[j] PROVE i = j
      OBVIOUS
    <3>1. \A k \in 1..Len(r) : k \in 1..Len(s) \/ k = Len(r)
      BY <1>s, <2>5
    <3>2. CASE i \in 1..Len(s) /\ j \in 1..Len(s)
      BY <2>5, <3>2 DEF ListOf
    <3>. QED
      BY <2>5, <2>6, <3>1, <3>2
  <2>8. \A u \in Threads, i \in 1..Len(r) : r[i] \notin held'[u]
    <3>1. \A u \in Threads : b \notin held'[u]
      BY <1>h, <2>1, <2>3 DEF HandsInv
    <3>2. \A u \in Threads : held'[u] \subseteq held[u]
      BY <1>h, <2>1
    <3>3. \A u \in Threads, i \in 1..Len(s) : s[i] \notin held[u]
      BY DEF ListOf
    <3>4. \A i \in 1..Len(r) : i \in 1..Len(s) \/ r[i] = b
      BY <1>s, <2>5
    <3>. QED
      BY <2>5, <3>1, <3>2, <3>3, <3>4
  <2>9. \A i \in 1..Len(r) : i < Len(r) => pNext'[r[i]] = r[i + 1]
    <3>. SUFFICES ASSUME NEW i \in 1..Len(r), i < Len(r) PROVE pNext[r[i]] = r[i + 1]
      BY <2>1
    <3>1. i \in 1..Len(s) /\ r[i] = s[i]
      BY <1>s, <2>5
    <3>2. CASE i < Len(s)
      <4>1. i + 1 \in 1..Len(s) /\ pNext[s[i]] = s[i + 1]
        BY <1>s, <3>1, <3>2 DEF ListOf
      <4>. QED
        BY <2>5, <3>1, <4>1
    <3>3. CASE i = Len(s)
      <4>1. s # <<>> /\ pNext[s[i]] = b
        BY <2>4, <3>1, <3>3 DEF After
      <4>. QED
        BY <1>s, <2>5, <3>1, <3>3, <4>1
    <3>. QED
      BY <1>s, <3>1, <3>2, <3>3
  <2>10. After(r)' = NoBlock
    BY <2>1, <2>3, <2>5 DEF After
  <2>11. pHead' = r[1]
    <3>1. CASE s = <<>>
      BY <2>1, <2>4, <2>5, <3>1 DEF After
    <3>2. CASE s # <<>>
      <4>1. pHead = s[1]
        BY <1>a, <2>1, <3>2 DEF ListOf, Inside, Outside, Midway
      <4>. QED
        BY <1>s, <2>1, <2>5, <3>2, <4>1
    <3>. QED
      BY <3>1, <3>2
  <2>12. ListOf(r)'
    BY <1>s, <2>1, <2>2, <2>4, <2>5, <2>7, <2>8, <2>9, <2>10, <2>11 DEF ListOf, Midway
  <2>13. PutStep(s, r)
    BY <1>s, <2>1, <2>3, <2>r DEF PutStep
  <2>. QED
    BY <2>12, <2>13 DEF QueueStep
<1>8. ASSUME NEW t \in Threads, TakeHead(t)
      PROVE  \E r : ListOf(r)' /\ QueueStep(s, r)
  <2>1. /\ pc[t] = "takeHead" /\ pData' = [pData EXCEPT ![t] = pHead]
        /\ UNCHANGED <<listVars, pNext, held>>
    BY <1>8 DEF TakeHead, Step
  <2>2. \A u \in Threads : pc[u] \notin Midway
    BY <1>a, <2>1 DEF Inside, Outside, Midway
  <2>3. CASE uCounter # 0
    <3>1. pc' = [pc EXCEPT ![t] = "takeNext"] /\ UNCHANGED retVars
      BY <1>8, <2>1, <2>3 DEF TakeHead, Step, retVars
    <3>2. /\ pHead' = pHead /\ pTail' = pTail /\ uCounter' = uCounter /\ pNext' = pNext
          /\ held' = held
      BY <2>1 DEF listVars
    <3>3. s # <<>> /\ pHead = s[1] /\ pTail = s[Len(s)] /\ After(s) = NoBlock
      BY <1>s, <2>2, <2>3 DEF ListOf, Midway
    <3>4. pData'[t] = s[1] /\ pc'[t] = "takeNext" /\ \A u \in Threads : u # t => pc'[u] \notin Midway
      BY <1>t, <1>h, <2>1, <2>2, <3>1, <3>3
    <3>5. \A u \in Threads : pc'[u] \notin {"linkTail", "linkCount", "takeCount"}
      BY <3>4 DEF Midway
    <3>6. \A u \in Threads : pc'[u] \in {"takeNext", "takeCount"} => s # <<>> /\ pData'[u] = s[1]
      BY <3>3, <3>4 DEF Midway
    <3>7. After(s)' = After(s)
      BY <3>2 DEF After
    <3>8. ListOf(s)'
      BY <1>s, <3>2, <3>3, <3>5, <3>6, <3>7 DEF ListOf
    <3>. QED
      BY <1>q, <3>1, <3>8
  <2>4. CASE uCounter = 0
    <3>1. /\ pc' = [pc EXCEPT ![t] = "kick"] /\ got' = [got EXCEPT ![t] = pHead]
          /\ ret' = [ret EXCEPT ![t] = 0]
      BY <1>8, <2>4 DEF TakeHead, Step
    <3>2. s = <<>>
      BY <1>s, <2>4
    <3>3. pHead = NoBlock
      BY <2>2, <3>2 DEF ListOf, Midway, After
    <3>4. \A u \in Threads : u # t => pc'[u] = pc[u] /\ pData'[u] = pData[u]
      BY <1>t, <1>h, <2>1, <3>1
    <3>5. pc'[t] \notin Midway
      BY <1>t, <3>1 DEF Midway
    <3>6. ListOf(s)'
      BY <1>k, <2>1, <2>2, <3>4, <3>5
    <3>7. NothingStep(s, s)
      BY <2>1, <3>1, <3>2, <3>3 DEF NothingStep
    <3>. QED
      BY <3>6, <3>7 DEF QueueStep
  <2>. QED
    BY <2>3, <2>4
<1>9. ASSUME NEW t \in Threads, TakeNext(t)
      PROVE  \E r : ListOf(r)' /\ QueueStep(s, r)
  <2>1. /\ pc[t] = "takeNext" /\ pc' = [pc EXCEPT ![t] = "takeCount"] /\ pHead' = Follow(pHead)
        /\ pTail' = pTail /\ uCounter' = uCounter /\ pNext' = pNext /\ pData' = pData
        /\ UNCHANGED retVars
    BY <1>9 DEF TakeNext, Step
  <2>2. /\ \A u \in Threads : pc[u] \in Midway => u = t
        /\ pc'[t] = "takeCount" /\ \A u \in Threads : pc'[u] \in Midway => u = t
    BY <1>a, <1>t, <2>1 DEF Inside, Outside, Midway
  <2>3. s # <<>> /\ pData[t] = s[1] /\ pHead = s[1] /\ After(s) = NoBlock /\ pTail = s[Len(s)]
    BY <2>1, <2>2 DEF ListOf, Midway
  <2>4. pHead' = pNext[s[1]]
    BY <1>s, <2>1, <2>3 DEF Follow
  <2>5. pNext[s[1]] = Second(s)
    <3>1. CASE Len(s) > 1
      <4>1. 1 \in 1..Len(s) /\ 1 + 1 = 2 /\ pNext[s[1]] = s[1 + 1]
        BY <1>s, <3>1 DEF ListOf
      <4>. QED
        BY <3>1, <4>1 DEF Second
    <3>2. CASE ~(Len(s) > 1)
      <4>1. Len(s) = 1
        BY <1>s, <2>3, <3>2
      <4>. QED
        BY <2>3, <3>2, <4>1 DEF After, Second
    <3>. QED
      BY <3>1, <3>2
  <2>6. After(s)' = After(s)
    BY <2>1, <2>3 DEF After
  <2>7. \A u \in Threads : pc'[u] \notin {"linkTail", "linkCount"}
    BY <2>2 DEF Midway
  <2>8. \A u \in Threads : pc'[u] \in {"takeNext", "takeCount"} => s # <<>> /\ pData'[u] = s[1]
    BY <2>1, <2>2, <2>3 DEF Midway
  <2>9. ~ \A u \in Threads : pc'[u] # "takeCount"
    BY <2>2
  <2>10. ListOf(s)'
    BY <1>s, <2>1, <2>3, <2>4, <2>5, <2>6, <2>7, <2>8, <2>9 DEF ListOf, retVars, Second
  <2>. QED
    BY <1>q, <2>1, <2>10
<1>10. ASSUME NEW t \in Threads, TakeCount(t)
      PROVE  \E r : ListOf(r)' /\ QueueStep(s, r)
  <2>. DEFINE r == Tail(s)
  <2>1. /\ pc[t] = "takeCount" /\ pc' = [pc EXCEPT ![t] = "kick"] /\ uCounter' = uCounter - 1
        /\ got' = [got EXCEPT ![t] = pData[t]] /\ ret' = [ret EXCEPT ![t] = uCounter - 1]
        /\ held' = [held EXCEPT ![t] = @ \cup {pData[t]}]
        /\ pHead' = pHead /\ pTail' = pTail /\ pNext' = pNext /\ pData' = pData
    BY <1>10 DEF TakeCount, Step
  <2>2. /\ \A u \in Threads : pc[u] \in Midway => u = t
        /\ \A u \in Threads : pc'[u] \notin Midway
    BY <1>a, <1>t, <2>1 DEF Inside, Outside, Midway
  <2>3. /\ s # <<>> /\ pData[t] = s[1] /\ pHead = Second(s)
        /\ After(s) = NoBlock /\ pTail = s[Len(s)]
    BY <2>1, <2>2 DEF ListOf, Midway
  <2>4. /\ r \in Seq(Blocks) /\ Len(r) = Len(s) - 1 /\ Head(s) = s[1]
        /\ \A i \in 1..Len(r) : i + 1 \in 1..Len(s) /\ r[i] = s[i + 1]
    BY <1>s, <2>3
  <2>. HIDE DEF r
  <2>5. \A i, j \in 1..Len(r) : r[i] = r[j] => i = j
    <3>. SUFFICES ASSUME NEW i \in 1..Len(r), NEW j \in 1..Len(r), r[i] = r[j] PROVE i = j
      OBVIOUS
    <3>1. i + 1 \in 1..Len(s) /\ j + 1 \in 1..Len(s) /\ s[i + 1] = s[j + 1]
      BY <2>4
    <3>2. i + 1 = j + 1
      BY <3>1 DEF ListOf
    <3>. QED
      BY <2>4, <3>2
  <2>6. \A u \in Threads, i \in 1..Len(r) : r[i] \notin held'[u]
    <3>. SUFFICES ASSUME NEW u \in Threads, NEW i \in 1..Len(r) PROVE r[i] \notin held'[u]
      OBVIOUS
    <3>1. i + 1 \in 1..Len(s) /\ r[i] = s[i + 1] /\ 1 \in 1..Len(s) /\ i + 1 # 1
      BY <1>s, <2>3, <2>4
    <3>2. s[i + 1] # s[1] /\ s[i + 1] \notin held[u]
      BY <3>1 DEF ListOf
    <3>. QED
      BY <1>h, <2>1, <2>3, <3>1, <3>2
  <2>7. \A i \in 1..Len(r) : i < Len(r) => pNext'[r[i]] = r[i + 1]
    <3>. SUFFICES ASSUME NEW i \in 1..Len(r), i < Len(r) PROVE pNext[r[i]] = r[i + 1]
      BY <2>1
    <3>1. i + 1 \in 1..Len(s) /\ i + 1 < Len(s) /\ i + 1 \in 1..Len(r)
      BY <1>s, <2>4
    <3>2. pNext[s[i + 1]] = s[(i + 1) + 1]
      BY <3>1 DEF ListOf
    <3>. QED
      BY <2>4, <3>1, <3>2
  <2>8. r # <<>> => /\ Len(r) \in 1..Len(r) /\ Len(r) + 1 = Len(s) /\ r[Len(r)] = s[Len(s)]
                    /\ Len(s) > 1 /\ r[1] = s[2]
    <3>. SUFFICES ASSUME r # <<>>
                  PROVE  /\ Len(r) \in 1..Len(r) /\ Len(r) + 1 = Len(s) /\ r[Len(r)] = s[Len(s)]
                         /\ Len(s) > 1 /\ r[1] = s[2]
      OBVIOUS
    <3>1. Len(r) \in Nat /\ Len(r) >= 1
      BY <2>4
    <3>2. 1 \in 1..Len(r) /\ Len(r) \in 1..Len(r) /\ Len(r) + 1 = Len(s) /\ 1 + 1 = 2
      BY <1>s, <2>4, <3>1
    <3>. QED
      BY <2>4, <3>1, <3>2
  <2>9. After(r)' = NoBlock
    <3>1. CASE r = <<>>
      <4>1. ~(Len(s) > 1)
        BY <1>s, <2>4, <3>1
      <4>. QED
        BY <2>1, <2>3, <3>1, <4>1 DEF After, Second
    <3>2. CASE r # <<>>
      BY <2>1, <2>3, <2>8, <3>2 DEF After
    <3>. QED
      BY <3>1, <3>2
  <2>10. r # <<>> => pHead' = r[1] /\ pTail' = r[Len(r)]
    BY <2>1, <2>3, <2>8 DEF Second
  <2>11. ListOf(r)'
    BY <1>s, <2>1, <2>2, <2>4, <2>5, <2>6, <2>7, <2>9, <2>10 DEF ListOf, Midway
  <2>12. TakeStep(s, r)
    BY <1>s, <2>1, <2>3, <2>4 DEF TakeStep, r
  <2>. QED
    BY <2>11, <2>12 DEF QueueStep
<1>11. CASE UNCHANGED vars
  <2>1. UNCHANGED <<listVars, pNext, pData, held, pc, retVars>>
    BY <1>11 DEF vars, retVars
  <2>2. ListOf(s)'
    BY <2>1, ListKept
  <2>. QED
    BY <1>q, <2>1, <2>2
<1>. QED
  BY <1>1, <1>2, <1>3, <1>4, <1>5, <1>6, <1>7, <1>8, <1>9, <1>10, <1>11
     DEF Next, LinkFunction, UnlinkFirstFunction

-----------------------------------------------------------------------------
(* The theorems. *)

(* CreateSemaphore and InitLinkedList leave an empty list nobody has.        *)
LEMMA ListBegins == Init => ListInv /\ ListOf(<<>>)
<1>. SUFFICES ASSUME Init PROVE LockInv /\ HandsInv /\ ListOf(<<>>)
  BY DEF ListInv
<1>1. LockInv
  BY DEF Init, LockInv, Steps, Inside, Outside
<1>2. HandsInv
  BY ListAssumption DEF Init, HandsInv, Pointers, Linking
<1>3. ListOf(<<>>)
  <2>1. <<>> \in Seq(Blocks) /\ Len(<<>>) = 0 /\ (1..0 = {})
    OBVIOUS
  <2>. QED
    BY <2>1 DEF Init, ListOf, After
<1>. QED
  BY <1>1, <1>2, <1>3

(* The semaphore is with one thread at a time, and the pointers spell a list *)
(* of distinct blocks that nobody works on, uCounter of them.                *)
THEOREM ListInvariant == Spec => []ListInv
<1>1. Init => ListInv
  BY ListBegins
<1>2. ListInv /\ [Next]_vars => ListInv'
  <2>. SUFFICES ASSUME ListInv, [Next]_vars PROVE ListInv'
    OBVIOUS
  <2>1. PICK s : ListOf(s)
    BY DEF ListInv
  <2>2. LockInv' /\ HandsInv'
    BY <2>1, LockStep, HandsStep DEF ListInv
  <2>3. PICK r : ListOf(r)'
    BY <2>1, ListStep DEF ListInv
  <2>. QED
    BY <2>2, <2>3 DEF ListInv
<1>. QED
  BY <1>1, <1>2, PTL DEF Spec

(* Types: in particular uCounter, which is decremented without a look at it, *)
(* never goes below zero.                                                    *)
THEOREM TypeCorrect == Spec => []TypeOK
<1>1. ListInv => TypeOK
  BY DEF ListInv, LockInv, HandsInv, ListOf, Pointers, TypeOK
<1>. QED
  BY <1>1, ListInvariant, PTL

(* A block a thread holds cannot be reached from pHead: LinkFunction and     *)
(* UnlinkFirstFunction never put two threads to work on one block.           *)
THEOREM BlocksHaveOneOwner == Spec => []HeldIsNotLinked
<1>1. ListInv => HeldIsNotLinked
  <2>. SUFFICES ASSUME ListInv PROVE HeldIsNotLinked
    OBVIOUS
  <2>1. PICK s : ListOf(s)
    BY DEF ListInv
  <2>2. Linked = s
    BY <2>1, LinkedIs DEF ListInv
  <2>3. \A t \in Threads, i \in 1..Len(s) : s[i] \notin held[t]
    BY <2>1 DEF ListOf
  <2>. QED
    BY <2>2, <2>3 DEF HeldIsNotLinked
<1>. QED
  BY <1>1, ListInvariant, PTL

(* The pointer code of auxrut.c implements the first-in first-out queue with *)
(* indivisible operations that AsyncFunctions takes its lists to be.         *)
THEOREM ListIsQueue == Spec => ImplementsQueue
<1>. DEFINE Spelled == \A x : LockInv /\ ListOf(x) => Linked = x
<1>a. Spelled
  BY LinkedIs
<1>b. Spelled'
  BY <1>a, PTL
<1>1. Init => Queue!Init
  <2>. SUFFICES ASSUME Init PROVE Queue!Init
    OBVIOUS
  <2>1. Linked = <<>>
    BY ListBegins, LinkedIs DEF ListInv
  <2>. QED
    BY <2>1 DEF Init, Queue!Init
<1>2. ListInv /\ ListInv' /\ [Next]_vars => [Queue!Next]_(Queue!vars)
  <2>. SUFFICES ASSUME ListInv, ListInv', [Next]_vars
                PROVE  Queue!Next \/ UNCHANGED Queue!vars
    OBVIOUS
  <2>1. PICK s : ListOf(s)
    BY DEF ListInv
  <2>2. PICK r : ListOf(r)' /\ QueueStep(s, r)
    BY <2>1, ListStep DEF ListInv
  <2>3. Linked = s
    BY <2>1, LinkedIs DEF ListInv
  <2>4. Linked' = r
    BY <1>b, <2>2 DEF ListInv
  <2>5. s \in Seq(Blocks) /\ held \in [Threads -> SUBSET Blocks]
    BY <2>1 DEF ListOf, ListInv, HandsInv
  <2>6. CASE PutStep(s, r)
    BY <2>3, <2>4, <2>6 DEF PutStep, Queue!Next, Queue!Put
  <2>7. CASE TakeStep(s, r)
    BY <2>3, <2>4, <2>7 DEF TakeStep, Queue!Next, Queue!Take
  <2>8. CASE NothingStep(s, r)
    BY <2>3, <2>4, <2>8 DEF NothingStep, Queue!Next, Queue!TakeNothing
  <2>9. CASE r = s /\ UNCHANGED retVars
    BY <2>3, <2>4, <2>9 DEF Queue!vars, retVars
  <2>. QED
    BY <2>2, <2>6, <2>7, <2>8, <2>9 DEF QueueStep
<1>. QED
  BY <1>1, <1>2, ListInvariant, PTL DEF Spec, ImplementsQueue, Queue!Spec
=============================================================================
