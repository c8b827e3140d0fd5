------------------------ MODULE AsyncFunctionsProofs ------------------------
(***************************************************************************)
(* Theorems about AsyncFunctions, for any set of blocks, any mix of calls, *)
(* any length of a COMMAND and any number of looks at STOP PROJECT.  They  *)
(* assume that LOAD PROJECT does not follow a STOP PROJECT that timed out. *)
(***************************************************************************)
EXTENDS AsyncFunctions, TLAPS

ASSUME NoReloadAfterTimeout == ReloadAfterTimeout = FALSE

-----------------------------------------------------------------------------
(* The inductive invariant, in parts.                                      *)

\* The control points of the two threads determine these variables.
Control ==
  /\ bBusy <=> bg \notin {"wait", "woken"}
  /\ cur # NoBlock <=> bg \in {"check", "run", "linkDone"}
  /\ posting # NoBlock <=> eng \in {"link", "kick", "return"}
  /\ eng \in {"user", "link", "kick", "return"} => caller = "rtInput"
  /\ eng \in {"stopped", "reloadDone"} => caller = "rtOffLine"

\* The task waits and nothing will wake it.
Calm == pend = <<>> /\ sem = 0 /\ bg = "wait"

\* What WaitForAllFunctionCompletion has established so far when it reports success.
Stopping ==
  /\ eng = "waitBusy" => pend = <<>>
  /\ eng \in {"verify", "lockDone", "deliver"} /\ caller = "rtOffLine" /\ offRc = "SUCCESS"
       => Calm
  /\ eng \in {"stopped", "reloadDone"} /\ offRc = "SUCCESS" => Calm /\ done = <<>>
  /\ eng = "reloadDone" => offRc = "SUCCESS"

\* The block being posted has just been marked.
Posting == posting # NoBlock => Busy[posting] = "BUSY"

IInv ==
  /\ TypeOK
  /\ Control
  /\ TaskAssertHolds
  /\ NoLostWakeup
  /\ Stopping
  /\ Posting
  /\ LinkedOnce
  /\ BusyShownIsRunning

-----------------------------------------------------------------------------
(* Facts about the lists.                                                  *)

\* Appending puts one more block on a list.
LEMMA AppendOnList ==
  ASSUME NEW list \in Seq(Blocks), NEW c \in Blocks, NEW b
  PROVE  OnList(Append(list, c), b) <=> OnList(list, b) \/ b = c
<1>1. Len(Append(list, c)) = Len(list) + 1 /\ Append(list, c)[Len(list) + 1] = c
  OBVIOUS
<1>2. \A i \in 1..Len(list) : Append(list, c)[i] = list[i]
  OBVIOUS
<1>3. ASSUME OnList(Append(list, c), b) PROVE OnList(list, b) \/ b = c
  BY <1>1, <1>2, <1>3 DEF OnList
<1>4. ASSUME OnList(list, b) \/ b = c PROVE OnList(Append(list, c), b)
  BY <1>1, <1>2, <1>4 DEF OnList
<1>. QED BY <1>3, <1>4

\* Appending a block that is not there keeps a list free of duplicates.
LEMMA AppendNoDuplicate ==
  ASSUME NEW list \in Seq(Blocks), NEW c \in Blocks,
         NoDuplicate(list), ~OnList(list, c)
  PROVE  NoDuplicate(Append(list, c))
<1>1. Len(Append(list, c)) = Len(list) + 1 /\ Append(list, c)[Len(list) + 1] = c
  OBVIOUS
<1>2. \A i \in 1..Len(list) : Append(list, c)[i] = list[i]
  OBVIOUS
<1>. QED BY <1>1, <1>2 DEF NoDuplicate, OnList

\* The first block of a list and the list without it.
LEMMA HeadAndTail ==
  ASSUME NEW list \in Seq(Blocks), list # <<>>
  PROVE  /\ Head(list) \in Blocks /\ Tail(list) \in Seq(Blocks)
         /\ Len(Tail(list)) = Len(list) - 1 /\ Len(list) \in Nat \ {0}
OBVIOUS

\* Unlinking the first block of a list without duplicates takes that block off it.
LEMMA TailOfList ==
  ASSUME NEW list \in Seq(Blocks), list # <<>>, NoDuplicate(list), NEW b
  PROVE  /\ NoDuplicate(Tail(list))
         /\ OnList(list, Head(list))
         /\ OnList(Tail(list), b) <=> OnList(list, b) /\ b # Head(list)
<1>1. /\ Len(list) >= 1 /\ Len(Tail(list)) = Len(list) - 1 /\ Head(list) = list[1]
      /\ Len(list) \in Nat
  OBVIOUS
<1>2. \A i \in 1..Len(Tail(list)) : Tail(list)[i] = list[i + 1]
  OBVIOUS
<1>3. NoDuplicate(Tail(list))
  BY <1>1, <1>2 DEF NoDuplicate
<1>4. OnList(list, Head(list))
  BY <1>1 DEF OnList
<1>5. ASSUME OnList(Tail(list), b) PROVE OnList(list, b) /\ b # Head(list)
  BY <1>1, <1>2, <1>5 DEF OnList, NoDuplicate
<1>6. ASSUME OnList(list, b), b # Head(list) PROVE OnList(Tail(list), b)
  <2>1. PICK i \in 1..Len(list) : list[i] = b
    BY <1>6 DEF OnList
  <2>2. i # 1
    BY <1>1, <1>6, <2>1
  <2>3. i - 1 \in 1..Len(Tail(list)) /\ Tail(list)[i - 1] = b
    BY <1>1, <1>2, <2>1, <2>2
  <2>. QED BY <2>3 DEF OnList
<1>. QED BY <1>3, <1>4, <1>5, <1>6

-----------------------------------------------------------------------------
(* The steps.                                                              *)

\* Executing a block touches only its status and result words and the byte count.
LEMMA RunStep ==
  ASSUME TypeOK, Control, DoAsyncSpecialFunction
  PROVE  /\ bg = "run" /\ bg' \in {"run", "linkDone"}
         /\ UNCHANGED <<engineVars, listVars, cur, bEmpty, bBusy, Busy, Work, pStatus>>
         /\ n' \in 0..CmdLength
         /\ Status' \in [Blocks -> FnStatus] /\ pResult' \in [Blocks -> Results]
<1> USE BoundsAssumption DEF TypeOK, Complete, FnStatus, Results
<1>1. cur \in Blocks
  BY DEF DoAsyncSpecialFunction, CommandByte, CommandEnd, CommandRefused, ReadGpib,
         SetRsv, NoSuchFunction, Control
<1>2. CASE CommandByte
  BY <1>1, <1>2 DEF CommandByte, CommandCopying
<1>3. CASE CommandEnd
  BY <1>1, <1>3 DEF CommandEnd
<1>4. CASE CommandRefused
  BY <1>1, <1>4 DEF CommandRefused
<1>5. CASE ReadGpib
  BY <1>1, <1>5 DEF ReadGpib
<1>6. CASE SetRsv
  BY <1>1, <1>6 DEF SetRsv
<1>7. CASE NoSuchFunction
  BY <1>1, <1>7 DEF NoSuchFunction
<1>. QED BY <1>2, <1>3, <1>4, <1>5, <1>6, <1>7 DEF DoAsyncSpecialFunction

\* Every step keeps the variables in their types.
LEMMA TypeInductive ==
  ASSUME TypeOK, Control, [Next]_vars
  PROVE  TypeOK'
<1> USE BoundsAssumption, CallsAssumption DEF TypeOK, Control, EngineSteps, TaskSteps, UserStatus, FnStatus,
        Results, engineVars, listVars, taskVars, blockVars, GoTo
<1>1. CASE OnLine
  BY <1>1 DEF OnLine
<1>2. CASE Input
  BY <1>2 DEF Input
<1>3. CASE LinkPend
  BY <1>3 DEF LinkPend
<1>4. CASE KickTask
  BY <1>4 DEF KickTask
<1>5. CASE ReturnBusy
  BY <1>5 DEF ReturnBusy
<1>6. CASE Output
  BY <1>6 DEF Output
<1>7. CASE OffLine
  BY <1>7 DEF OffLine
<1>8. CASE WaitPend
  BY <1>8 DEF WaitPend, LeaveWait, PendLooksEmpty
<1>9. CASE WaitBusy
  BY <1>9 DEF WaitBusy, LeaveWait
<1>10. CASE VerifyCount
  BY <1>10 DEF VerifyCount, AfterVerify
<1>11. CASE LockDone
  BY <1>11 DEF LockDone
<1>12. CASE Deliver
  BY <1>12 DEF Deliver
<1>13. CASE UnlockDone
  BY <1>13 DEF UnlockDone, AfterVerify
<1>14. CASE ReloadPend
  BY <1>14 DEF ReloadPend
<1>15. CASE ReloadDone
  BY <1>15 DEF ReloadDone
<1>16. ASSUME NEW b \in Blocks, NEW call \in Calls, PostAccept(b, call) PROVE TypeOK'
  BY <1>16 DEF PostAccept
<1>17. ASSUME NEW b \in Blocks, NEW call \in Calls, PostReject(b, call) PROVE TypeOK'
  BY <1>17 DEF PostReject
<1>18. CASE TaskIdle
  BY <1>18 DEF TaskIdle
<1>19. CASE TaskWait
  BY <1>19 DEF TaskWait
<1>20. CASE TaskWoken
  BY <1>20 DEF TaskWoken
<1>21. CASE TaskUnlink
  BY <1>21, HeadAndTail DEF TaskUnlink, PendDrained
<1>22. CASE TaskCheck
  BY <1>22 DEF TaskCheck
<1>23. CASE DoAsyncSpecialFunction
  BY <1>23, RunStep
<1>24. CASE TaskLinkDone
  BY <1>24 DEF TaskLinkDone
<1>25. CASE UNCHANGED vars
  BY <1>25 DEF vars
<1>. QED
  BY <1>1, <1>2, <1>3, <1>4, <1>5, <1>6, <1>7, <1>8, <1>9, <1>10,
     <1>11, <1>12, <1>13, <1>14, <1>15, <1>16, <1>17, <1>18, <1>19, <1>20,
     <1>21, <1>22, <1>23, <1>24, <1>25
  DEF Next, Engine, Special, VerifyDoneList, WaitForAllFunctionCompletion, Reload,
      BackgroundTask

\* Every step keeps the control points and their variables in agreement.
LEMMA ControlInductive ==
  ASSUME TypeOK, Control, [Next]_vars
  PROVE  Control'
<1> USE BlocksAssumption DEF TypeOK, Control, EngineSteps, TaskSteps, engineVars, listVars, taskVars, blockVars, GoTo
<1>1. CASE OnLine
  BY <1>1 DEF OnLine
<1>2. CASE Input
  BY <1>2 DEF Input
<1>3. CASE LinkPend
  BY <1>3 DEF LinkPend
<1>4. CASE KickTask
  BY <1>4 DEF KickTask
<1>5. CASE ReturnBusy
  BY <1>5 DEF ReturnBusy
<1>6. CASE Output
  BY <1>6 DEF Output
<1>7. CASE OffLine
  BY <1>7 DEF OffLine
<1>8. CASE WaitPend
  BY <1>8 DEF WaitPend, LeaveWait, PendLooksEmpty
<1>9. CASE WaitBusy
  BY <1>9 DEF WaitBusy, LeaveWait
<1>10. CASE VerifyCount
  BY <1>10 DEF VerifyCount, AfterVerify
<1>11. CASE LockDone
  BY <1>11 DEF LockDone
<1>12. CASE Deliver
  BY <1>12 DEF Deliver
<1>13. CASE UnlockDone
  BY <1>13 DEF UnlockDone, AfterVerify
<1>14. CASE ReloadPend
  BY <1>14 DEF ReloadPend
<1>15. CASE ReloadDone
  BY <1>15 DEF ReloadDone
<1>16. ASSUME NEW b \in Blocks, NEW call \in Calls, PostAccept(b, call) PROVE Control'
  BY <1>16 DEF PostAccept
<1>17. ASSUME NEW b \in Blocks, NEW call \in Calls, PostReject(b, call) PROVE Control'
  BY <1>17 DEF PostReject
<1>18. CASE TaskIdle
  BY <1>18 DEF TaskIdle
<1>19. CASE TaskWait
  BY <1>19 DEF TaskWait
<1>20. CASE TaskWoken
  BY <1>20 DEF TaskWoken
<1>21. CASE TaskUnlink
  <2>1. pend = <<>> => bg' = "assertFailed" /\ cur' = cur
    BY <1>21 DEF TaskUnlink
  <2>2. pend # <<>> => bg' = "check" /\ cur' \in Blocks
    BY <1>21, HeadAndTail DEF TaskUnlink
  <2>. QED BY <1>21, <2>1, <2>2 DEF TaskUnlink
<1>22. CASE TaskCheck
  BY <1>22 DEF TaskCheck
<1>23. CASE DoAsyncSpecialFunction
  BY <1>23, RunStep
<1>24. CASE TaskLinkDone
  BY <1>24 DEF TaskLinkDone
<1>25. CASE UNCHANGED vars
  BY <1>25 DEF vars
<1>. QED
  BY <1>1, <1>2, <1>3, <1>4, <1>5, <1>6, <1>7, <1>8, <1>9, <1>10,
     <1>11, <1>12, <1>13, <1>14, <1>15, <1>16, <1>17, <1>18, <1>19, <1>20,
     <1>21, <1>22, <1>23, <1>24, <1>25
  DEF Next, Engine, Special, VerifyDoneList, WaitForAllFunctionCompletion, Reload,
      BackgroundTask

\* The task never finds Pend empty when it goes to take a block.
LEMMA AssertInductive ==
  ASSUME TypeOK, Control, TaskAssertHolds, NoLostWakeup, [Next]_vars
  PROVE  TaskAssertHolds'
<1> USE DEF TypeOK, Control, TaskAssertHolds, NoLostWakeup, Asleep, KickPending, engineVars, listVars, taskVars, blockVars, GoTo
<1>1. CASE OnLine
  BY <1>1 DEF OnLine
<1>2. CASE Input
  BY <1>2 DEF Input
<1>3. CASE LinkPend
  BY <1>3 DEF LinkPend
<1>4. CASE KickTask
  BY <1>4 DEF KickTask
<1>5. CASE ReturnBusy
  BY <1>5 DEF ReturnBusy
<1>6. CASE Output
  BY <1>6 DEF Output
<1>7. CASE OffLine
  BY <1>7 DEF OffLine
<1>8. CASE WaitPend
  BY <1>8 DEF WaitPend, LeaveWait, PendLooksEmpty
<1>9. CASE WaitBusy
  BY <1>9 DEF WaitBusy, LeaveWait
<1>10. CASE VerifyCount
  BY <1>10 DEF VerifyCount, AfterVerify
<1>11. CASE LockDone
  BY <1>11 DEF LockDone
<1>12. CASE Deliver
  BY <1>12 DEF Deliver
<1>13. CASE UnlockDone
  BY <1>13 DEF UnlockDone, AfterVerify
<1>14. CASE ReloadPend
  BY <1>14 DEF ReloadPend
<1>15. CASE ReloadDone
  BY <1>15 DEF ReloadDone
<1>16. ASSUME NEW b \in Blocks, NEW call \in Calls, PostAccept(b, call) PROVE TaskAssertHolds'
  BY <1>16 DEF PostAccept
<1>17. ASSUME NEW b \in Blocks, NEW call \in Calls, PostReject(b, call) PROVE TaskAssertHolds'
  BY <1>17 DEF PostReject
<1>18. CASE TaskIdle
  BY <1>18 DEF TaskIdle
<1>19. CASE TaskWait
  BY <1>19 DEF TaskWait
<1>20. CASE TaskWoken
  BY <1>20 DEF TaskWoken
<1>21. CASE TaskUnlink
  BY <1>21, HeadAndTail DEF TaskUnlink, PendDrained
<1>22. CASE TaskCheck
  BY <1>22 DEF TaskCheck
<1>23. CASE DoAsyncSpecialFunction
  BY <1>23, RunStep
<1>24. CASE TaskLinkDone
  BY <1>24 DEF TaskLinkDone
<1>25. CASE UNCHANGED vars
  BY <1>25 DEF vars
<1>. QED
  BY <1>1, <1>2, <1>3, <1>4, <1>5, <1>6, <1>7, <1>8, <1>9, <1>10,
     <1>11, <1>12, <1>13, <1>14, <1>15, <1>16, <1>17, <1>18, <1>19, <1>20,
     <1>21, <1>22, <1>23, <1>24, <1>25
  DEF Next, Engine, Special, VerifyDoneList, WaitForAllFunctionCompletion, Reload,
      BackgroundTask

\* Every step keeps kicks and work in balance.
LEMMA HandshakeInductive ==
  ASSUME TypeOK, Control, TaskAssertHolds, NoLostWakeup, Stopping, [Next]_vars
  PROVE  NoLostWakeup'
<1> USE DEF TypeOK, Control, TaskAssertHolds, NoLostWakeup, Asleep, KickPending, Stopping, Calm,
        engineVars, listVars, taskVars, blockVars, GoTo
<1>1. CASE OnLine
  BY <1>1 DEF OnLine
<1>2. CASE Input
  BY <1>2 DEF Input
<1>3. CASE LinkPend
  BY <1>3 DEF LinkPend, KickNeeded
<1>4. CASE KickTask
  BY <1>4 DEF KickTask
<1>5. CASE ReturnBusy
  BY <1>5 DEF ReturnBusy
<1>6. CASE Output
  BY <1>6 DEF Output
<1>7. CASE OffLine
  BY <1>7 DEF OffLine
<1>8. CASE WaitPend
  BY <1>8 DEF WaitPend, LeaveWait, PendLooksEmpty
<1>9. CASE WaitBusy
  BY <1>9 DEF WaitBusy, LeaveWait
<1>10. CASE VerifyCount
  BY <1>10 DEF VerifyCount, AfterVerify
<1>11. CASE LockDone
  BY <1>11 DEF LockDone
<1>12. CASE Deliver
  BY <1>12 DEF Deliver
<1>13. CASE UnlockDone
  BY <1>13 DEF UnlockDone, AfterVerify
<1>14. CASE ReloadPend
  BY <1>14, NoReloadAfterTimeout DEF ReloadPend
<1>15. CASE ReloadDone
  BY <1>15 DEF ReloadDone
<1>16. ASSUME NEW b \in Blocks, NEW call \in Calls, PostAccept(b, call) PROVE NoLostWakeup'
  BY <1>16 DEF PostAccept
<1>17. ASSUME NEW b \in Blocks, NEW call \in Calls, PostReject(b, call) PROVE NoLostWakeup'
  BY <1>17 DEF PostReject
<1>18. CASE TaskIdle
  BY <1>18 DEF TaskIdle
<1>19. CASE TaskWait
  BY <1>19 DEF TaskWait
<1>20. CASE TaskWoken
  BY <1>20 DEF TaskWoken
<1>21. CASE TaskUnlink
  BY <1>21, HeadAndTail DEF TaskUnlink, PendDrained
<1>22. CASE TaskCheck
  BY <1>22 DEF TaskCheck
<1>23. CASE DoAsyncSpecialFunction
  BY <1>23, RunStep
<1>24. CASE TaskLinkDone
  BY <1>24 DEF TaskLinkDone
<1>25. CASE UNCHANGED vars
  BY <1>25 DEF vars
<1>. QED
  BY <1>1, <1>2, <1>3, <1>4, <1>5, <1>6, <1>7, <1>8, <1>9, <1>10,
     <1>11, <1>12, <1>13, <1>14, <1>15, <1>16, <1>17, <1>18, <1>19, <1>20,
     <1>21, <1>22, <1>23, <1>24, <1>25
  DEF Next, Engine, Special, VerifyDoneList, WaitForAllFunctionCompletion, Reload,
      BackgroundTask

\* What STOP PROJECT has found empty stays empty until it returns.
LEMMA StoppingInductive ==
  ASSUME TypeOK, Control, TaskAssertHolds, NoLostWakeup, Stopping, [Next]_vars
  PROVE  Stopping'
<1> USE DEF TypeOK, Control, TaskAssertHolds, NoLostWakeup, Asleep, KickPending, Stopping, Calm,
        engineVars, listVars, taskVars, blockVars, GoTo
<1>1. CASE OnLine
  BY <1>1 DEF OnLine
<1>2. CASE Input
  BY <1>2 DEF Input
<1>3. CASE LinkPend
  BY <1>3 DEF LinkPend, KickNeeded
<1>4. CASE KickTask
  BY <1>4 DEF KickTask
<1>5. CASE ReturnBusy
  BY <1>5 DEF ReturnBusy
<1>6. CASE Output
  BY <1>6 DEF Output
<1>7. CASE OffLine
  BY <1>7 DEF OffLine
<1>8. CASE WaitPend
  BY <1>8 DEF WaitPend, LeaveWait, PendLooksEmpty
<1>9. CASE WaitBusy
  BY <1>9 DEF WaitBusy, LeaveWait
<1>10. CASE VerifyCount
  BY <1>10 DEF VerifyCount, AfterVerify
<1>11. CASE LockDone
  BY <1>11 DEF LockDone
<1>12. CASE Deliver
  BY <1>12 DEF Deliver
<1>13. CASE UnlockDone
  BY <1>13 DEF UnlockDone, AfterVerify
<1>14. CASE ReloadPend
  BY <1>14, NoReloadAfterTimeout DEF ReloadPend
<1>15. CASE ReloadDone
  BY <1>15 DEF ReloadDone
<1>16. ASSUME NEW b \in Blocks, NEW call \in Calls, PostAccept(b, call) PROVE Stopping'
  BY <1>16 DEF PostAccept
<1>17. ASSUME NEW b \in Blocks, NEW call \in Calls, PostReject(b, call) PROVE Stopping'
  BY <1>17 DEF PostReject
<1>18. CASE TaskIdle
  BY <1>18 DEF TaskIdle
<1>19. CASE TaskWait
  BY <1>19 DEF TaskWait
<1>20. CASE TaskWoken
  BY <1>20 DEF TaskWoken
<1>21. CASE TaskUnlink
  BY <1>21, HeadAndTail DEF TaskUnlink, PendDrained
<1>22. CASE TaskCheck
  BY <1>22 DEF TaskCheck
<1>23. CASE DoAsyncSpecialFunction
  BY <1>23, RunStep
<1>24. CASE TaskLinkDone
  BY <1>24 DEF TaskLinkDone
<1>25. CASE UNCHANGED vars
  BY <1>25 DEF vars
<1>. QED
  BY <1>1, <1>2, <1>3, <1>4, <1>5, <1>6, <1>7, <1>8, <1>9, <1>10,
     <1>11, <1>12, <1>13, <1>14, <1>15, <1>16, <1>17, <1>18, <1>19, <1>20,
     <1>21, <1>22, <1>23, <1>24, <1>25
  DEF Next, Engine, Special, VerifyDoneList, WaitForAllFunctionCompletion, Reload,
      BackgroundTask

\* The block being posted stays marked.
LEMMA PostingInductive ==
  ASSUME TypeOK, Control, Posting, [Next]_vars
  PROVE  Posting'
<1> USE BlocksAssumption DEF TypeOK, Control, Posting, engineVars, listVars, taskVars, blockVars, GoTo
<1>1. CASE OnLine
  BY <1>1 DEF OnLine
<1>2. CASE Input
  BY <1>2 DEF Input
<1>3. CASE LinkPend
  BY <1>3 DEF LinkPend
<1>4. CASE KickTask
  BY <1>4 DEF KickTask
<1>5. CASE ReturnBusy
  BY <1>5 DEF ReturnBusy
<1>6. CASE Output
  BY <1>6 DEF Output
<1>7. CASE OffLine
  BY <1>7 DEF OffLine
<1>8. CASE WaitPend
  BY <1>8 DEF WaitPend, LeaveWait, PendLooksEmpty
<1>9. CASE WaitBusy
  BY <1>9 DEF WaitBusy, LeaveWait
<1>10. CASE VerifyCount
  BY <1>10 DEF VerifyCount, AfterVerify
<1>11. CASE LockDone
  BY <1>11 DEF LockDone
<1>12. CASE Deliver
  BY <1>12 DEF Deliver
<1>13. CASE UnlockDone
  BY <1>13 DEF UnlockDone, AfterVerify
<1>14. CASE ReloadPend
  BY <1>14 DEF ReloadPend
<1>15. CASE ReloadDone
  BY <1>15 DEF ReloadDone
<1>16. ASSUME NEW b \in Blocks, NEW call \in Calls, PostAccept(b, call) PROVE Posting'
  BY <1>16 DEF PostAccept
<1>17. ASSUME NEW b \in Blocks, NEW call \in Calls, PostReject(b, call) PROVE Posting'
  BY <1>17 DEF PostReject
<1>18. CASE TaskIdle
  BY <1>18 DEF TaskIdle
<1>19. CASE TaskWait
  BY <1>19 DEF TaskWait
<1>20. CASE TaskWoken
  BY <1>20 DEF TaskWoken
<1>21. CASE TaskUnlink
  BY <1>21, HeadAndTail DEF TaskUnlink, PendDrained
<1>22. CASE TaskCheck
  BY <1>22 DEF TaskCheck
<1>23. CASE DoAsyncSpecialFunction
  BY <1>23, RunStep
<1>24. CASE TaskLinkDone
  BY <1>24 DEF TaskLinkDone
<1>25. CASE UNCHANGED vars
  BY <1>25 DEF vars
<1>. QED
  BY <1>1, <1>2, <1>3, <1>4, <1>5, <1>6, <1>7, <1>8, <1>9, <1>10,
     <1>11, <1>12, <1>13, <1>14, <1>15, <1>16, <1>17, <1>18, <1>19, <1>20,
     <1>21, <1>22, <1>23, <1>24, <1>25
  DEF Next, Engine, Special, VerifyDoneList, WaitForAllFunctionCompletion, Reload,
      BackgroundTask

\* Every step keeps the status a flowchart sees honest.
LEMMA ShownInductive ==
  ASSUME TypeOK, Control, Posting, BusyShownIsRunning, [Next]_vars
  PROVE  BusyShownIsRunning'
<1> USE BlocksAssumption DEF TypeOK, Control, Posting, BusyShownIsRunning, UserStatus, FnStatus, engineVars, listVars, taskVars, blockVars, GoTo
<1>1. CASE OnLine
  BY <1>1 DEF OnLine
<1>2. CASE Input
  BY <1>2 DEF Input
<1>3. CASE LinkPend
  BY <1>3 DEF LinkPend
<1>4. CASE KickTask
  BY <1>4 DEF KickTask
<1>5. CASE ReturnBusy
  BY <1>5 DEF ReturnBusy
<1>6. CASE Output
  BY <1>6 DEF Output
<1>7. CASE OffLine
  BY <1>7 DEF OffLine
<1>8. CASE WaitPend
  BY <1>8 DEF WaitPend, LeaveWait, PendLooksEmpty
<1>9. CASE WaitBusy
  BY <1>9 DEF WaitBusy, LeaveWait
<1>10. CASE VerifyCount
  BY <1>10 DEF VerifyCount, AfterVerify
<1>11. CASE LockDone
  BY <1>11 DEF LockDone
<1>12. CASE Deliver
  BY <1>12, HeadAndTail DEF Deliver, ShowStatus
<1>13. CASE UnlockDone
  BY <1>13 DEF UnlockDone, AfterVerify
<1>14. CASE ReloadPend
  BY <1>14 DEF ReloadPend
<1>15. CASE ReloadDone
  BY <1>15 DEF ReloadDone
<1>16. ASSUME NEW b \in Blocks, NEW call \in Calls, PostAccept(b, call) PROVE BusyShownIsRunning'
  BY <1>16 DEF PostAccept, MayAccept
<1>17. ASSUME NEW b \in Blocks, NEW call \in Calls, PostReject(b, call) PROVE BusyShownIsRunning'
  BY <1>17 DEF PostReject, MayAccept
<1>18. CASE TaskIdle
  BY <1>18 DEF TaskIdle
<1>19. CASE TaskWait
  BY <1>19 DEF TaskWait
<1>20. CASE TaskWoken
  BY <1>20 DEF TaskWoken
<1>21. CASE TaskUnlink
  BY <1>21, HeadAndTail DEF TaskUnlink, PendDrained
<1>22. CASE TaskCheck
  BY <1>22 DEF TaskCheck
<1>23. CASE DoAsyncSpecialFunction
  BY <1>23, RunStep
<1>24. CASE TaskLinkDone
  BY <1>24 DEF TaskLinkDone
<1>25. CASE UNCHANGED vars
  BY <1>25 DEF vars
<1>. QED
  BY <1>1, <1>2, <1>3, <1>4, <1>5, <1>6, <1>7, <1>8, <1>9, <1>10,
     <1>11, <1>12, <1>13, <1>14, <1>15, <1>16, <1>17, <1>18, <1>19, <1>20,
     <1>21, <1>22, <1>23, <1>24, <1>25
  DEF Next, Engine, Special, VerifyDoneList, WaitForAllFunctionCompletion, Reload,
      BackgroundTask

\* What LinkedOnce says of one block.
Placed(b) ==
  /\ Busy[b] # "NOTBUSY" <=> InUse(b)
  /\ OnList(pend, b) => ~OnList(done, b) /\ ~InTask(b) /\ ~InPost(b)
  /\ OnList(done, b) => ~InTask(b) /\ ~InPost(b)
  /\ InTask(b) => ~InPost(b)

\* LinkedOnce, block by block.
LEMMA LinkedOncePlaced ==
  LinkedOnce <=> NoDuplicate(pend) /\ NoDuplicate(done) /\ \A b \in Blocks : Placed(b)
BY DEF LinkedOnce, Placed

\* Every step leaves a block that is in use in exactly one place.
LEMMA LinkedOnceInductive ==
  ASSUME TypeOK, Control, Stopping, LinkedOnce, [Next]_vars
  PROVE  LinkedOnce'
<1> USE BlocksAssumption DEF TypeOK, Control
<1> DEFINE Kept == /\ UNCHANGED <<pend, done, cur, Busy>>
                   /\ \A b \in Blocks : InPost(b)' <=> InPost(b)
<1>1. NoDuplicate(pend) /\ NoDuplicate(done) /\ \A b \in Blocks : Placed(b)
  BY LinkedOncePlaced
<1>2. SUFFICES (NoDuplicate(pend) /\ NoDuplicate(done) /\ \A b \in Blocks : Placed(b))'
  BY DEF LinkedOnce, Placed
<1>3. ASSUME Kept
      PROVE (NoDuplicate(pend) /\ NoDuplicate(done) /\ \A b \in Blocks : Placed(b))'
  BY <1>1, <1>3 DEF Placed, InUse, InTask, NoDuplicate, OnList
<1> USE DEF engineVars, listVars, taskVars, blockVars, GoTo
\* The engine thread.
<1>4. CASE OnLine \/ Input \/ KickTask \/ ReturnBusy \/ Output \/ OffLine \/ WaitPend \/ WaitBusy
           \/ VerifyCount \/ LockDone \/ UnlockDone
  <2>1. Kept
    BY <1>4 DEF OnLine, Input, KickTask, ReturnBusy, Output, OffLine, WaitPend, WaitBusy,
                VerifyCount, LockDone, UnlockDone, LeaveWait, AfterVerify, InPost
  <2>. QED BY <2>1, <1>3
<1>5. CASE ReloadPend \/ ReloadDone
  <2>1. pend' = pend /\ done' = done
    BY <1>5, NoReloadAfterTimeout DEF ReloadPend, ReloadDone, Stopping, Calm
  <2>2. Kept
    BY <1>5, <2>1 DEF ReloadPend, ReloadDone, InPost
  <2>. QED BY <2>2, <1>3
<1>6. ASSUME NEW c \in Blocks, NEW call \in Calls, PostAccept(c, call)
      PROVE (NoDuplicate(pend) /\ NoDuplicate(done) /\ \A b \in Blocks : Placed(b))'
  <2>1. ~InUse(c)
    BY <1>1, <1>6 DEF PostAccept, MayAccept, Placed
  <2>2. /\ UNCHANGED <<pend, done, cur>>
        /\ Busy' = [Busy EXCEPT ![c] = "BUSY"]
        /\ \A b \in Blocks : ~InPost(b) /\ (InPost(b)' <=> b = c)
    BY <1>6 DEF PostAccept, InPost
  <2>3. \A b \in Blocks : Placed(b)'
    BY <1>1, <2>1, <2>2 DEF Placed, InUse, InTask, OnList
  <2>. QED BY <1>1, <2>2, <2>3 DEF NoDuplicate
<1>7. ASSUME NEW c \in Blocks, NEW call \in Calls, PostReject(c, call)
      PROVE (NoDuplicate(pend) /\ NoDuplicate(done) /\ \A b \in Blocks : Placed(b))'
  <2>1. Busy[c] # "NOTBUSY" /\ Busy' = [Busy EXCEPT ![c] = "ABORT"]
    BY <1>7 DEF PostReject, MayAccept
  <2>2. UNCHANGED <<pend, done, cur, eng, posting>>
    BY <1>7 DEF PostReject
  <2>3. \A b \in Blocks : Placed(b)'
    BY <1>1, <2>1, <2>2 DEF Placed, InUse, InTask, InPost, OnList
  <2>. QED BY <1>1, <2>2, <2>3 DEF NoDuplicate
<1>8. CASE LinkPend
  <2>1. /\ posting \in Blocks /\ pend' = Append(pend, posting)
        /\ UNCHANGED <<done, cur, Busy>>
        /\ \A b \in Blocks : ~InPost(b)' /\ (InPost(b) <=> b = posting)
    BY <1>8 DEF LinkPend, InPost
  <2>2. ~OnList(pend, posting) /\ ~OnList(done, posting) /\ ~InTask(posting)
    BY <1>1, <2>1 DEF Placed
  <2>3. NoDuplicate(pend')
    BY <1>1, <2>1, <2>2, AppendNoDuplicate
  <2>4. \A b \in Blocks : OnList(pend', b) <=> OnList(pend, b) \/ b = posting
    BY <2>1, AppendOnList
  <2>5. \A b \in Blocks : Placed(b)'
    BY <1>1, <2>1, <2>2, <2>4 DEF Placed, InUse, InTask
  <2>. QED BY <1>1, <2>1, <2>3, <2>5
<1>9. CASE Deliver
  <2> DEFINE h == Head(done)
  <2>1. /\ done # <<>> /\ done' = Tail(done) /\ Busy' = [Busy EXCEPT ![h] = "NOTBUSY"]
        /\ UNCHANGED <<pend, cur, eng, posting>>
    BY <1>9 DEF Deliver
  <2>2. h \in Blocks /\ OnList(done, h) /\ NoDuplicate(done')
    BY <1>1, <2>1, HeadAndTail, TailOfList
  <2>3. \A b \in Blocks : OnList(done', b) <=> OnList(done, b) /\ b # h
    BY <1>1, <2>1, TailOfList
  <2>4. \A b \in Blocks : Placed(b)'
    <3> HIDE DEF h
    <3>. QED BY <1>1, <2>1, <2>2, <2>3 DEF Placed, InUse, InTask, InPost
  <2>. QED BY <1>1, <2>1, <2>2, <2>4
\* The background thread.
<1>10. CASE TaskIdle \/ TaskWait \/ TaskWoken \/ TaskCheck \/ UNCHANGED vars
  <2>1. Kept
    BY <1>10 DEF TaskIdle, TaskWait, TaskWoken, TaskCheck, vars, InPost
  <2>. QED BY <2>1, <1>3
<1>11. CASE DoAsyncSpecialFunction
  <2>1. Kept
    BY <1>11, RunStep DEF InPost
  <2>. QED BY <2>1, <1>3
<1>12. CASE TaskUnlink
  <2>1. CASE pend = <<>>
    <3>1. Kept
      BY <1>12, <2>1 DEF TaskUnlink, InPost
    <3>. QED BY <3>1, <1>3
  <2>2. CASE pend # <<>>
    <3> DEFINE h == Head(pend)
    <3>1. /\ pend' = Tail(pend) /\ cur' = h /\ cur \notin Blocks
          /\ UNCHANGED <<done, Busy, eng, posting>>
      BY <1>12, <2>2 DEF TaskUnlink
    <3>2. h \in Blocks /\ OnList(pend, h) /\ NoDuplicate(pend')
      BY <1>1, <2>2, <3>1, HeadAndTail, TailOfList
    <3>3. \A b \in Blocks : OnList(pend', b) <=> OnList(pend, b) /\ b # h
      BY <1>1, <2>2, <3>1, TailOfList
    <3>4. \A b \in Blocks : Placed(b)'
      <4> HIDE DEF h
      <4>. QED BY <1>1, <3>1, <3>2, <3>3 DEF Placed, InUse, InTask, InPost
    <3>. QED BY <1>1, <3>1, <3>2, <3>4
  <2>. QED BY <2>1, <2>2
<1>13. CASE TaskLinkDone
  <2>1. /\ cur \in Blocks /\ done' = Append(done, cur) /\ cur' \notin Blocks
        /\ UNCHANGED <<pend, Busy, eng, posting>>
    BY <1>13 DEF TaskLinkDone
  <2>2. ~OnList(pend, cur) /\ ~OnList(done, cur) /\ ~InPost(cur)
    BY <1>1, <2>1 DEF Placed, InTask
  <2>3. NoDuplicate(done')
    BY <1>1, <2>1, <2>2, AppendNoDuplicate
  <2>4. \A b \in Blocks : OnList(done', b) <=> OnList(done, b) \/ b = cur
    BY <2>1, AppendOnList
  <2>5. \A b \in Blocks : Placed(b)'
    BY <1>1, <2>1, <2>2, <2>4 DEF Placed, InUse, InTask, InPost
  <2>. QED BY <1>1, <2>1, <2>3, <2>5
<1>. QED
  BY <1>4, <1>5, <1>6, <1>7, <1>8, <1>9, <1>10, <1>11, <1>12, <1>13
  DEF Next, Engine, Special, VerifyDoneList, WaitForAllFunctionCompletion, Reload,
      BackgroundTask

-----------------------------------------------------------------------------
(* The theorems.                                                           *)

\* rtOpen and CreateBackgroundTask establish the invariant.
LEMMA InitInvariant == Init => IInv
<1> SUFFICES ASSUME Init PROVE IInv
  OBVIOUS
<1> USE BlocksAssumption, BoundsAssumption DEF Init
<1>1. TypeOK
  <2>1. <<>> \in Seq(Blocks)
    OBVIOUS
  <2>2. 0 \in 0..MaxTries /\ 0 \in 0..CmdLength
    OBVIOUS
  <2>3. /\ Busy \in [Blocks -> {"NOTBUSY", "BUSY", "ABORT"}]
        /\ Status \in [Blocks -> FnStatus] /\ Work \in [Blocks -> AsyncCalls \cup {"NONE"}]
        /\ pStatus \in [Blocks -> UserStatus] /\ pResult \in [Blocks -> Results]
    BY DEF UserStatus, FnStatus, Results
  <2>. QED BY <2>1, <2>2, <2>3 DEF TypeOK, EngineSteps, TaskSteps
<1>2. Control /\ Stopping /\ Posting
  BY DEF Control, Stopping, Calm, Posting
<1>3. TaskAssertHolds /\ NoLostWakeup
  BY DEF TaskAssertHolds, NoLostWakeup, Asleep, KickPending
<1>4. LinkedOnce
  <2>1. \A b \in Blocks : ~OnList(<<>>, b)
    BY 1..Len(<<>>) = {} DEF OnList
  <2>2. NoDuplicate(<<>>)
    BY DEF NoDuplicate
  <2>. QED BY <2>1, <2>2 DEF LinkedOnce, InUse, InTask, InPost
<1>5. BusyShownIsRunning
  BY DEF BusyShownIsRunning
<1>. QED BY <1>1, <1>2, <1>3, <1>4, <1>5 DEF IInv

\* Every step of the two threads preserves it.
LEMMA StepInvariant == IInv /\ [Next]_vars => IInv'
BY TypeInductive, ControlInductive, AssertInductive, HandshakeInductive, StoppingInductive,
   PostingInductive, LinkedOnceInductive, ShownInductive
DEF IInv

\* Init, the steps and the invariant together.
THEOREM Invariance == Spec => []IInv
BY InitInvariant, StepInvariant, PTL DEF Spec

\* All variables stay in their types: the semaphore never holds two units, the lists
\* hold only blocks of the project, DoCommand never copies past the end of WLength.
THEOREM TypeCorrect == Spec => []TypeOK
<1>1. IInv => TypeOK
  BY DEF IInv
<1>. QED BY <1>1, Invariance, PTL

\* The assertion of BackgroundTask (task.c:134) never fails: the task is woken, and
\* goes round its loop, only when there is a block on Pend.
THEOREM AssertionHolds == Spec => []TaskAssertHolds
<1>1. IInv => TaskAssertHolds
  BY DEF IInv
<1>. QED BY <1>1, Invariance, PTL

\* Kick() on a count of one is enough: no posted block is left behind a sleeping
\* task, and no kick is lost on a semaphore that is already given.
THEOREM NoWakeupIsLost == Spec => []NoLostWakeup
<1>1. IInv => NoLostWakeup
  BY DEF IInv
<1>. QED BY <1>1, Invariance, PTL

\* The Busy mark of a block is enough to keep it from being linked twice.
THEOREM BlocksLinkedOnce == Spec => []LinkedOnce
<1>1. IInv => LinkedOnce
  BY DEF IInv
<1>. QED BY <1>1, Invariance, PTL

\* What the flowchart is shown of a call is true of it.
THEOREM StatusIsHonest == Spec => []BusyShownIsRunning
<1>1. IInv => BusyShownIsRunning
  BY DEF IInv
<1>. QED BY <1>1, Invariance, PTL

\* WaitForAllFunctionCompletion, which reads Pend.uCounter and bBusy without a lock,
\* reports success only when the background thread has nothing left to do.
THEOREM StopIsComplete == Spec => []StoppedMeansQuiet
<1>1. IInv => StoppedMeansQuiet
  <2> SUFFICES ASSUME IInv, eng \in {"stopped", "reloadDone"}, offRc = "SUCCESS"
               PROVE  /\ pend = <<>> /\ done = <<>> /\ sem = 0 /\ bg = "wait"
                      /\ \A b \in Blocks : Busy[b] = "NOTBUSY" /\ pStatus[b] # "BUSY"
    BY DEF StoppedMeansQuiet
  <2>1. pend = <<>> /\ done = <<>> /\ sem = 0 /\ bg = "wait"
    BY DEF IInv, Stopping, Calm
  <2>2. \A b \in Blocks : ~OnList(<<>>, b)
    BY 1..Len(<<>>) = {} DEF OnList
  <2>3. \A b \in Blocks : Busy[b] = "NOTBUSY"
    BY <2>1, <2>2, BlocksAssumption DEF IInv, Control, LinkedOnce, InUse, InTask, InPost
  <2>4. \A b \in Blocks : pStatus[b] # "BUSY"
    BY <2>3 DEF IInv, BusyShownIsRunning
  <2>. QED BY <2>1, <2>3, <2>4
<1>. QED BY <1>1, Invariance, PTL

\* The parameters DoAsyncSpecialFunction works on are those of the call it executes.
THEOREM WorkIsStable == Spec => WorkStable
<1>1. ASSUME IInv, [Next]_vars
      PROVE  [\A b \in Blocks : Busy[b] # "NOTBUSY" => Work'[b] = Work[b]]_Work
  <2>1. CASE \E b \in Blocks, call \in Calls : PostAccept(b, call)
    BY <1>1, <2>1 DEF IInv, TypeOK, PostAccept, MayAccept
  <2>2. CASE DoAsyncSpecialFunction
    BY <1>1, <2>2, RunStep DEF IInv
  <2>3. CASE /\ ~\E b \in Blocks, call \in Calls : PostAccept(b, call)
             /\ ~DoAsyncSpecialFunction
    <3>1. Work' = Work
      BY <1>1, <2>3
      DEF Next, Engine, Special, VerifyDoneList, WaitForAllFunctionCompletion, Reload,
          BackgroundTask, OnLine, Input, LinkPend, KickTask, ReturnBusy, Output, OffLine,
          WaitPend, WaitBusy, VerifyCount, LockDone, Deliver, UnlockDone, ReloadPend,
          ReloadDone, PostReject, TaskIdle, TaskWait, TaskWoken, TaskUnlink, TaskCheck,
          TaskLinkDone, vars, blockVars
    <3>. QED BY <3>1
  <2>. QED BY <2>1, <2>2, <2>3
<1>. QED BY <1>1, Invariance, PTL DEF Spec, WorkStable

-----------------------------------------------------------------------------
(* Outcomes: what a block says of its call at each place.                  *)

\* An executed call that was not spoiled has a status, and its result word is its
\* own; a call that is in use and not executed has none; ABORTED is shown only of a
\* block that is not running.
OutcomesInv ==
  /\ OkMeansResult
  /\ \A b \in Blocks : pStatus[b] = "ABORTED" /\ posting # b => Busy[b] # "BUSY"
  /\ \A b \in Blocks : Executed(b) /\ Busy[b] = "BUSY" =>
       /\ Status[b] # "BUSY"
       /\ Status[b] = "OK" /\ Work[b] # "SET_RSV" => pResult[b] # "Unset"
  /\ \A b \in Blocks : Busy[b] # "NOTBUSY" /\ ~Executed(b) => Status[b] = "BUSY"

\* How the call of a block ends: DoAsyncSpecialFunction goes on, or the function
\* returns, which has a status of its own kind and stores its result.
Goes  == bg' = "run" /\ UNCHANGED <<Status, pResult>>
Ends  ==
  /\ bg' = "linkDone"
  /\ Status'[cur] = IF Work[cur] = "CLEAR_TXRX" THEN "WRONGPARAM" ELSE "OK"
  /\ Status'[cur] = "OK" /\ Work[cur] # "SET_RSV" => pResult'[cur] # "Unset"
  /\ pResult'[cur] # "Unset" \/ pResult' = pResult
  /\ \A b \in Blocks : b # cur => Status'[b] = Status[b] /\ pResult'[b] = pResult[b]

\* Each function goes on or ends.
LEMMA RunResult ==
  ASSUME TypeOK, Control, DoAsyncSpecialFunction
  PROVE  Goes \/ Ends
<1> USE DEF TypeOK, Complete, FnStatus, Results, Goes, Ends
<1>1. cur \in Blocks
  BY DEF DoAsyncSpecialFunction, CommandByte, CommandEnd, CommandRefused, ReadGpib,
         SetRsv, NoSuchFunction, Control
<1>2. CASE CommandByte
  BY <1>1, <1>2 DEF CommandByte
<1>3. CASE CommandEnd
  BY <1>1, <1>3 DEF CommandEnd
<1>4. CASE CommandRefused
  BY <1>1, <1>4 DEF CommandRefused
<1>5. CASE ReadGpib
  BY <1>1, <1>5 DEF ReadGpib
<1>6. CASE SetRsv
  BY <1>1, <1>6 DEF SetRsv
<1>7. CASE NoSuchFunction
  BY <1>1, <1>7 DEF NoSuchFunction
<1>. QED BY <1>2, <1>3, <1>4, <1>5, <1>6, <1>7 DEF DoAsyncSpecialFunction

\* A step that moves no block past its execution leaves the outcomes alone.
LEMMA OutcomesKept ==
  ASSUME OutcomesInv, UNCHANGED <<blockVars, posting>>,
         \A b \in Blocks : Executed(b)' <=> Executed(b)
  PROVE  OutcomesInv'
BY DEF OutcomesInv, OkMeansResult, blockVars

\* Every step keeps the outcomes.
LEMMA OutcomesInductive ==
  ASSUME IInv, OutcomesInv, [Next]_vars
  PROVE  OutcomesInv'
<1> USE BlocksAssumption DEF TypeOK, Control
<1>t. TypeOK /\ Control /\ LinkedOnce /\ BusyShownIsRunning
  BY DEF IInv
<1> USE DEF engineVars, listVars, taskVars, blockVars, GoTo
<1>1. CASE \/ OnLine \/ Input \/ KickTask \/ LinkPend \/ Output \/ OffLine \/ WaitPend
           \/ WaitBusy \/ VerifyCount \/ LockDone \/ UnlockDone
  <2>1. UNCHANGED <<blockVars, posting, done, cur, bg>>
    BY <1>1 DEF OnLine, Input, KickTask, LinkPend, Output, OffLine, WaitPend, WaitBusy,
                VerifyCount, LockDone, UnlockDone, LeaveWait
  <2>2. \A b \in Blocks : Executed(b)' <=> Executed(b)
    BY <2>1 DEF Executed, OnList
  <2>. QED BY <2>1, <2>2, OutcomesKept
<1>2. CASE ReloadPend \/ ReloadDone
  <2>1. done' = done
    BY <1>2, NoReloadAfterTimeout DEF ReloadPend, ReloadDone, IInv, Stopping, Calm
  <2>2. UNCHANGED <<blockVars, posting, cur, bg>>
    BY <1>2 DEF ReloadPend, ReloadDone
  <2>3. \A b \in Blocks : Executed(b)' <=> Executed(b)
    BY <2>1, <2>2 DEF Executed, OnList
  <2>. QED BY <2>2, <2>3, OutcomesKept
<1>3. CASE TaskIdle \/ TaskWait \/ TaskWoken \/ TaskUnlink
  <2>1. /\ UNCHANGED <<blockVars, posting, done>> /\ bg # "linkDone" /\ bg' # "linkDone"
    BY <1>3 DEF TaskIdle, TaskWait, TaskWoken, TaskUnlink
  <2>2. \A b \in Blocks : Executed(b)' <=> Executed(b)
    BY <2>1 DEF Executed, OnList
  <2>. QED BY <2>1, <2>2, OutcomesKept
<1>4. CASE TaskLinkDone
  <2>1. /\ UNCHANGED <<blockVars, posting>> /\ bg = "linkDone" /\ bg' # "linkDone"
        /\ done' = Append(done, cur) /\ cur \in Blocks
    BY <1>t, <1>4 DEF TaskLinkDone
  <2>2. \A b \in Blocks : OnList(done', b) <=> OnList(done, b) \/ b = cur
    BY <1>t, <2>1, AppendOnList
  <2>3. \A b \in Blocks : Executed(b)' <=> Executed(b)
    BY <2>1, <2>2 DEF Executed
  <2>. QED BY <2>1, <2>3, OutcomesKept
<1>5. CASE UNCHANGED vars
  <2>1. UNCHANGED <<blockVars, posting, done, cur, bg>>
    BY <1>5 DEF vars
  <2>2. \A b \in Blocks : Executed(b)' <=> Executed(b)
    BY <2>1 DEF Executed, OnList
  <2>. QED BY <2>1, <2>2, OutcomesKept
<1>6. ASSUME NEW c \in Blocks, NEW call \in Calls, PostAccept(c, call)
      PROVE  OutcomesInv'
  <2>1. /\ Busy[c] = "NOTBUSY" /\ posting = NoBlock /\ posting' = c
        /\ Busy' = [Busy EXCEPT ![c] = "BUSY"] /\ Status' = [Status EXCEPT ![c] = "BUSY"]
        /\ Work' = [Work EXCEPT ![c] = call] /\ pResult' = [pResult EXCEPT ![c] = "Unset"]
        /\ UNCHANGED <<done, cur, bg, pStatus>>
    BY <1>t, <1>6 DEF PostAccept, MayAccept
  <2>2. \A b \in Blocks : Executed(b)' <=> Executed(b)
    BY <2>1 DEF Executed, OnList
  <2>3. ~Executed(c)
    BY <1>t, <2>1 DEF Executed, LinkedOnce, InUse, InTask
  <2>. QED BY <1>t, <2>1, <2>2, <2>3 DEF OutcomesInv, OkMeansResult
<1>7. ASSUME NEW c \in Blocks, NEW call \in Calls, PostReject(c, call)
      PROVE  OutcomesInv'
  <2>1. /\ Busy[c] # "NOTBUSY" /\ Busy' = [Busy EXCEPT ![c] = "ABORT"]
        /\ pStatus' = [pStatus EXCEPT ![c] = "ABORTED"]
        /\ UNCHANGED <<posting, done, cur, bg, Status, Work, pResult>>
    BY <1>7 DEF PostReject, MayAccept
  <2>2. \A b \in Blocks : Executed(b)' <=> Executed(b)
    BY <2>1 DEF Executed, OnList
  <2>. QED BY <1>t, <2>1, <2>2 DEF OutcomesInv, OkMeansResult
<1>8. CASE ReturnBusy
  <2>1. /\ posting \in Blocks /\ posting' = NoBlock
        /\ pStatus' = [pStatus EXCEPT ![posting] = "BUSY"]
        /\ UNCHANGED <<done, cur, bg, Busy, Status, Work, pResult>>
    BY <1>t, <1>8 DEF ReturnBusy
  <2>2. \A b \in Blocks : Executed(b)' <=> Executed(b)
    BY <2>1 DEF Executed, OnList
  <2>. QED BY <1>t, <2>1, <2>2 DEF OutcomesInv, OkMeansResult
<1>9. CASE Deliver
  <2>. DEFINE h == Head(done)
  <2>1. /\ done # <<>> /\ done' = Tail(done) /\ Busy' = [Busy EXCEPT ![h] = "NOTBUSY"]
        /\ pStatus' = IF Busy[h] = "BUSY"
                      THEN [pStatus EXCEPT ![h] = IF Status[h] = "BUSY" THEN "OK" ELSE Status[h]]
                      ELSE pStatus
        /\ posting = NoBlock
        /\ UNCHANGED <<posting, cur, bg, Status, Work, pResult>>
    BY <1>t, <1>9 DEF Deliver, ShowStatus
  <2>2. h \in Blocks /\ OnList(done, h) /\ ~InTask(h)
    <3>1. h \in Blocks /\ OnList(done, h)
      BY <1>t, <2>1, HeadAndTail, TailOfList DEF LinkedOnce
    <3>. QED BY <1>t, <3>1 DEF LinkedOnce
  <2>3. \A b \in Blocks : OnList(done', b) <=> OnList(done, b) /\ b # h
    BY <1>t, <2>1, TailOfList DEF LinkedOnce
  <2>. HIDE DEF h
  <2>4. \A b \in Blocks : Executed(b)' <=> Executed(b) /\ b # h
    BY <2>1, <2>2, <2>3 DEF Executed, InTask
  <2>5. Executed(h)
    BY <2>2 DEF Executed
  <2>. QED BY <1>t, <2>1, <2>2, <2>4, <2>5 DEF OutcomesInv, OkMeansResult, FnStatus
<1>10. CASE TaskCheck
  <2>1. /\ bg = "check" /\ cur \in Blocks /\ UNCHANGED <<blockVars, posting, done, cur>>
        /\ bg' = IF Busy[cur] = "BUSY" THEN "run" ELSE "linkDone"
    BY <1>t, <1>10 DEF TaskCheck
  <2>2. \A b \in Blocks : Executed(b)' <=> Executed(b) \/ (b = cur /\ Busy[cur] # "BUSY")
    BY <2>1 DEF Executed, OnList
  <2>. QED BY <1>t, <2>1, <2>2 DEF OutcomesInv, OkMeansResult
<1>11. CASE DoAsyncSpecialFunction
  <2>1. /\ bg = "run" /\ cur \in Blocks
        /\ UNCHANGED <<Busy, Work, pStatus, posting, done, cur>>
    BY <1>t, <1>11, RunStep
  <2>2. CASE Goes
    <3>1. \A b \in Blocks : Executed(b)' <=> Executed(b)
      BY <2>1, <2>2 DEF Executed, OnList, Goes
    <3>. QED BY <2>1, <2>2, <3>1, OutcomesKept DEF Goes
  <2>3. CASE Ends
    <3>1. \A b \in Blocks : Executed(b)' <=> Executed(b) \/ b = cur
      BY <2>1, <2>3 DEF Executed, OnList, Ends
    <3>2. ~OnList(done, cur) /\ Busy[cur] # "NOTBUSY"
      BY <1>t, <2>1 DEF LinkedOnce, InTask, InUse
    <3>3. OkMeansResult'
      BY <1>t, <2>1, <2>3 DEF Ends, OutcomesInv, OkMeansResult
    <3>. QED BY <1>t, <2>1, <2>3, <3>1, <3>3 DEF Ends, OutcomesInv
  <2>. QED BY <1>t, <1>11, <2>2, <2>3, RunResult
<1>. QED
  BY <1>1, <1>2, <1>3, <1>4, <1>5, <1>6, <1>7, <1>8, <1>9, <1>10, <1>11
  DEF Next, Engine, Special, VerifyDoneList, WaitForAllFunctionCompletion, Reload,
      BackgroundTask

\* Initially no block has been called.
LEMMA InitOutcomes == Init => OutcomesInv
<1> SUFFICES ASSUME Init PROVE OutcomesInv
  OBVIOUS
<1>1. \A b \in Blocks : Busy[b] = "NOTBUSY" /\ pStatus[b] = "NONE"
  BY DEF Init
<1>2. \A b \in Blocks : ~Executed(b)
  BY 1..Len(<<>>) = {} DEF Init, Executed, OnList
<1>. QED BY <1>1, <1>2 DEF OutcomesInv, OkMeansResult

\* The outcomes hold along every run.
THEOREM Outcomes == Spec => []OutcomesInv
BY InitOutcomes, OutcomesInductive, Invariance, PTL DEF Spec

\* SetReturnStatus resynchronizes the result: OK is never shown before the result of
\* that very call has been stored (but for SET_IBRSV, which stores it elsewhere).
THEOREM ResultPrecedesOk == Spec => []OkMeansResult
<1>1. OutcomesInv => OkMeansResult
  BY DEF OutcomesInv
<1>. QED BY <1>1, Outcomes, PTL

\* A late completion never replaces ABORTED: VerifyDoneList shows the status of a
\* block only while it is BUSY, and a spoiled block is not until it is posted anew.
THEOREM AbortedIsFinal == Spec => AbortedStays
<1>1. ASSUME IInv, OutcomesInv, [Next]_vars
      PROVE  \A b \in Blocks : pStatus[b] = "ABORTED" /\ pStatus'[b] # "ABORTED"
                                 => pStatus'[b] = "BUSY"
  <2> USE DEF TypeOK
  <2>t. TypeOK /\ Control
    BY <1>1 DEF IInv
  <2>1. CASE \E b \in Blocks, call \in Calls : PostReject(b, call)
    BY <2>t, <2>1 DEF PostReject
  <2>2. CASE ReturnBusy
    BY <2>t, <2>2 DEF ReturnBusy
  <2>3. CASE Deliver
    <3>. DEFINE h == Head(done)
    <3>1. /\ done # <<>> /\ posting = NoBlock
          /\ pStatus' = IF Busy[h] = "BUSY"
                        THEN [pStatus EXCEPT ![h] = IF Status[h] = "BUSY" THEN "OK" ELSE Status[h]]
                        ELSE pStatus
      BY <2>t, <2>3 DEF Deliver, ShowStatus, Control
    <3>2. h \in Blocks
      BY <2>t, <3>1, HeadAndTail
    <3>. HIDE DEF h
    <3>3. pStatus[h] = "ABORTED" => Busy[h] # "BUSY"
      BY <1>1, <3>1, <3>2, BlocksAssumption DEF OutcomesInv
    <3>. QED BY <2>t, <3>1, <3>2, <3>3
  <2>4. CASE /\ ~\E b \in Blocks, call \in Calls : PostReject(b, call)
             /\ ~ReturnBusy /\ ~Deliver
    <3>1. pStatus' = pStatus
      <4>1. CASE DoAsyncSpecialFunction
        BY <2>t, <4>1, RunStep
      <4>2. CASE ~DoAsyncSpecialFunction
        BY <1>1, <2>4, <4>2
        DEF Next, Engine, Special, VerifyDoneList, WaitForAllFunctionCompletion, Reload,
            BackgroundTask, OnLine, Input, LinkPend, KickTask, Output, OffLine,
            WaitPend, WaitBusy, VerifyCount, LockDone, UnlockDone, ReloadPend,
            ReloadDone, PostAccept, TaskIdle, TaskWait, TaskWoken, TaskUnlink, TaskCheck,
            TaskLinkDone, vars, blockVars
      <4>. QED BY <4>1, <4>2
    <3>. QED BY <3>1
  <2>. QED BY <2>1, <2>2, <2>3, <2>4
<1>2. IInv /\ OutcomesInv /\ [Next]_vars =>
        [\A b \in Blocks : pStatus[b] = "ABORTED" /\ pStatus'[b] # "ABORTED"
                             => pStatus'[b] = "BUSY"]_pStatus
  BY <1>1
<1>. QED BY <1>2, Invariance, Outcomes, PTL DEF Spec, AbortedStays

-----------------------------------------------------------------------------
(* The queue of AsyncService.                                              *)

\* Two lists are the same when they hold the same blocks in the same order.
LEMMA SameList ==
  ASSUME NEW s \in Seq(Blocks), NEW t \in Seq(Blocks), Len(s) = Len(t),
         \A i \in 1..Len(s) : s[i] = t[i]
  PROVE  s = t
OBVIOUS

\* Joining lists.
LEMMA Joined ==
  ASSUME NEW s \in Seq(Blocks), NEW t \in Seq(Blocks)
  PROVE  /\ s \o t \in Seq(Blocks) /\ Len(s \o t) = Len(s) + Len(t)
         /\ \A i \in 1..Len(s) : (s \o t)[i] = s[i]
         /\ \A i \in 1..Len(t) : (s \o t)[Len(s) + i] = t[i]
OBVIOUS

\* What the lists of the driver are to the queue.
LEMMA JoinAppend ==
  ASSUME NEW s \in Seq(Blocks), NEW t \in Seq(Blocks), NEW b \in Blocks
  PROVE  /\ s \o Append(t, b) = Append(s \o t, b)
         /\ s \o <<b>> = Append(s, b)
         /\ s \o <<>> = s /\ <<>> \o s = s
<1>1. s \o Append(t, b) = Append(s \o t, b)
  <2>1. /\ s \o Append(t, b) \in Seq(Blocks) /\ Append(s \o t, b) \in Seq(Blocks)
        /\ Len(s \o Append(t, b)) = Len(Append(s \o t, b))
    OBVIOUS
  <2>2. \A i \in 1..Len(s \o Append(t, b)) : (s \o Append(t, b))[i] = Append(s \o t, b)[i]
    OBVIOUS
  <2>. QED BY <2>1, <2>2, SameList
<1>2. s \o <<b>> = Append(s, b)
  <2>1. /\ s \o <<b>> \in Seq(Blocks) /\ Append(s, b) \in Seq(Blocks)
        /\ Len(s \o <<b>>) = Len(Append(s, b))
    OBVIOUS
  <2>2. \A i \in 1..Len(s \o <<b>>) : (s \o <<b>>)[i] = Append(s, b)[i]
    OBVIOUS
  <2>. QED BY <2>1, <2>2, SameList
<1>3. s \o <<>> = s /\ <<>> \o s = s
  OBVIOUS
<1>. QED BY <1>1, <1>2, <1>3

\* The first block of a list can as well be the last of the list before it.
LEMMA JoinTail ==
  ASSUME NEW s \in Seq(Blocks), NEW t \in Seq(Blocks), t # <<>>
  PROVE  Append(s, Head(t)) \o Tail(t) = s \o t
<1>1. /\ Head(t) \in Blocks /\ Tail(t) \in Seq(Blocks)
      /\ Len(Tail(t)) = Len(t) - 1 /\ Len(t) \in Nat \ {0} /\ Head(t) = t[1]
      /\ \A i \in 1..Len(Tail(t)) : Tail(t)[i] = t[i + 1]
  OBVIOUS
<1>. DEFINE u == Append(s, Head(t))
<1>2. u \in Seq(Blocks) /\ Len(u) = Len(s) + 1 /\ u[Len(s) + 1] = t[1]
      /\ \A i \in 1..Len(s) : u[i] = s[i]
  BY <1>1
<1>. HIDE DEF u
<1>3. u \o Tail(t) \in Seq(Blocks) /\ s \o t \in Seq(Blocks)
      /\ Len(u \o Tail(t)) = Len(s) + Len(t) /\ Len(s \o t) = Len(s) + Len(t)
  BY <1>1, <1>2
<1>4. \A i \in 1..Len(s) + Len(t) : (u \o Tail(t))[i] = (s \o t)[i]
  <2>. SUFFICES ASSUME NEW i \in 1..Len(s) + Len(t)
                PROVE  (u \o Tail(t))[i] = (s \o t)[i]
    OBVIOUS
  <2>1. CASE i \in 1..Len(s)
    BY <1>1, <1>2, <2>1
  <2>2. CASE i = Len(s) + 1
    BY <1>1, <1>2, <2>2
  <2>3. CASE i > Len(s) + 1
    <3>1. i - Len(u) \in 1..Len(Tail(t)) /\ i - Len(s) = (i - Len(u)) + 1
      BY <1>1, <1>2, <2>3
    <3>2. (u \o Tail(t))[i] = Tail(t)[i - Len(u)]
      BY <1>1, <1>2, <2>3, <3>1
    <3>3. (s \o t)[i] = t[i - Len(s)]
      BY <2>3
    <3>. QED BY <1>1, <3>1, <3>2, <3>3
  <2>4. Len(s) \in Nat /\ Len(t) \in Nat /\ i \in Nat /\ i >= 1
    OBVIOUS
  <2>5. i \in 1..Len(s) \/ i = Len(s) + 1 \/ i > Len(s) + 1
    BY <2>4
  <2>. QED BY <2>1, <2>2, <2>3, <2>5
<1>. QED BY <1>3, <1>4, SameList DEF u

\* The tail of joined lists.
LEMMA TailOfJoin ==
  ASSUME NEW s \in Seq(Blocks), NEW t \in Seq(Blocks), s # <<>>
  PROVE  Head(s \o t) = Head(s) /\ Tail(s \o t) = Tail(s) \o t /\ s \o t # <<>>
<1>1. /\ Tail(s) \in Seq(Blocks) /\ Len(Tail(s)) = Len(s) - 1 /\ Len(s) \in Nat \ {0}
      /\ Head(s) = s[1] /\ \A i \in 1..Len(Tail(s)) : Tail(s)[i] = s[i + 1]
  OBVIOUS
<1>2. /\ s \o t \in Seq(Blocks) /\ Len(s \o t) = Len(s) + Len(t) /\ Head(s \o t) = s[1]
      /\ s \o t # <<>>
  BY <1>1
<1>3. /\ Tail(s \o t) \in Seq(Blocks) /\ Len(Tail(s \o t)) = Len(s) + Len(t) - 1
      /\ \A i \in 1..Len(s) + Len(t) - 1 : Tail(s \o t)[i] = (s \o t)[i + 1]
  BY <1>1, <1>2
<1>4. Tail(s) \o t \in Seq(Blocks) /\ Len(Tail(s) \o t) = Len(s) + Len(t) - 1
  BY <1>1
<1>5. \A i \in 1..Len(s) + Len(t) - 1 : Tail(s \o t)[i] = (Tail(s) \o t)[i]
  <2>. SUFFICES ASSUME NEW i \in 1..Len(s) + Len(t) - 1
                PROVE  (s \o t)[i + 1] = (Tail(s) \o t)[i]
    BY <1>3
  <2>1. CASE i < Len(s)
    BY <1>1, <2>1
  <2>2. CASE ~(i < Len(s))
    <3>1. (s \o t)[i + 1] = t[i + 1 - Len(s)]
      BY <1>1, <2>2
    <3>2. (Tail(s) \o t)[i] = t[i - Len(Tail(s))]
      BY <1>1, <2>2
    <3>3. i + 1 - Len(s) = i - Len(Tail(s))
      BY <1>1
    <3>. QED BY <3>1, <3>2, <3>3
  <2>. QED BY <2>1, <2>2
<1>. QED BY <1>1, <1>2, <1>3, <1>4, <1>5, SameList

-----------------------------------------------------------------------------
(* The refinement of AsyncService.                                         *)

\* The queue in parts, and the other variables of the service.
Current == IF cur = NoBlock THEN <<>> ELSE <<cur>>
Linking == IF eng = "link" THEN <<posting>> ELSE <<>>
OutcomeOf == [b \in Blocks |-> IF ~Executed(b) THEN "PENDING"
                               ELSE IF Status[b] = "BUSY" THEN "SKIPPED"
                               ELSE Status[b]]
Spoiled == {b \in Blocks : Busy[b] = "ABORT"}
Shown == [b \in Blocks |-> IF b = posting THEN "BUSY" ELSE pStatus[b]]

\* The parts are lists of blocks.
LEMMA FlightParts ==
  ASSUME TypeOK, Control
  PROVE  /\ done \in Seq(Blocks) /\ Current \in Seq(Blocks)
         /\ pend \in Seq(Blocks) /\ Linking \in Seq(Blocks)
         /\ done \o Current \in Seq(Blocks) /\ done \o Current \o pend \in Seq(Blocks)
         /\ InFlight = ((done \o Current) \o pend) \o Linking
         /\ InFlight \in Seq(Blocks)
<1>1. Current \in Seq(Blocks) /\ Linking \in Seq(Blocks)
  BY DEF TypeOK, Control, Current, Linking
<1>2. done \in Seq(Blocks) /\ pend \in Seq(Blocks)
  BY DEF TypeOK
<1>3. done \o Current \in Seq(Blocks)
  BY <1>1, <1>2, Joined
<1>4. (done \o Current) \o pend \in Seq(Blocks)
  BY <1>2, <1>3, Joined
<1>5. InFlight = ((done \o Current) \o pend) \o Linking
  BY DEF InFlight, Current, Linking
<1>6. ((done \o Current) \o pend) \o Linking \in Seq(Blocks)
  BY <1>1, <1>4, Joined
<1>. QED BY <1>1, <1>2, <1>3, <1>4, <1>5, <1>6

\* A block is on joined lists when it is on one of them.
LEMMA OnJoined ==
  ASSUME NEW s \in Seq(Blocks), NEW t \in Seq(Blocks), NEW b
  PROVE  OnList(s \o t, b) <=> OnList(s, b) \/ OnList(t, b)
<1>1. Len(s \o t) = Len(s) + Len(t) /\ Len(s) \in Nat /\ Len(t) \in Nat
  OBVIOUS
<1>2. ASSUME OnList(s, b) PROVE OnList(s \o t, b)
  BY <1>1, <1>2, Joined DEF OnList
<1>3. ASSUME OnList(t, b) PROVE OnList(s \o t, b)
  <2>1. PICK i \in 1..Len(t) : t[i] = b
    BY <1>3 DEF OnList
  <2>2. (s \o t)[Len(s) + i] = b /\ Len(s) + i \in 1..Len(s \o t)
    BY <1>1, <2>1, Joined
  <2>. QED BY <2>2 DEF OnList
<1>4. ASSUME OnList(s \o t, b) PROVE OnList(s, b) \/ OnList(t, b)
  <2>1. PICK i \in 1..Len(s) + Len(t) : (s \o t)[i] = b
    BY <1>1, <1>4 DEF OnList
  <2>2. CASE i \in 1..Len(s)
    BY <2>1, <2>2, Joined DEF OnList
  <2>3. CASE i \notin 1..Len(s)
    <3>1. i - Len(s) \in 1..Len(t) /\ Len(s) + (i - Len(s)) = i
      BY <1>1, <2>3
    <3>2. t[i - Len(s)] = b
      BY <2>1, <3>1, Joined
    <3>. QED BY <3>1, <3>2 DEF OnList
  <2>. QED BY <2>2, <2>3
<1>. QED BY <1>2, <1>3, <1>4

\* The blocks in flight are those that cannot be posted.
LEMMA InFlightIsInUse ==
  ASSUME IInv, NEW b \in Blocks
  PROVE  OnList(InFlight, b) <=> Busy[b] # "NOTBUSY"
<1> USE BlocksAssumption
<1>1. TypeOK /\ Control /\ LinkedOnce
  BY DEF IInv
<1>2. OnList(Current, b) <=> InTask(b)
  BY <1>1 DEF Current, OnList, InTask, TypeOK
<1>3. OnList(Linking, b) <=> InPost(b)
  BY DEF Linking, OnList, InPost
<1>4. OnList(done \o Current, b) <=> OnList(done, b) \/ InTask(b)
  BY <1>1, <1>2, FlightParts, OnJoined
<1>5. OnList((done \o Current) \o pend, b) <=> OnList(done, b) \/ InTask(b) \/ OnList(pend, b)
  BY <1>1, <1>4, FlightParts, OnJoined
<1>6. OnList(InFlight, b) <=> OnList((done \o Current) \o pend, b) \/ OnList(Linking, b)
  <2>. DEFINE front == (done \o Current) \o pend
  <2>1. front \in Seq(Blocks) /\ Linking \in Seq(Blocks) /\ InFlight = front \o Linking
    BY <1>1, FlightParts
  <2>. HIDE DEF front
  <2>2. OnList(front \o Linking, b) <=> OnList(front, b) \/ OnList(Linking, b)
    BY <2>1, OnJoined
  <2>. QED BY <2>1, <2>2 DEF front
<1>7. OnList(InFlight, b) <=> InUse(b)
  BY <1>3, <1>5, <1>6 DEF InUse
<1>. QED BY <1>1, <1>7 DEF LinkedOnce

\* Nothing happens to the service.
LEMMA ServiceStutters ==
  ASSUME InFlight' = InFlight, Work' = Work, OutcomeOf' = OutcomeOf,
         Spoiled' = Spoiled, Shown' = Shown
  PROVE  UNCHANGED Service!vars
BY Zenon DEF Service!vars, OutcomeOf, Spoiled, Shown

\* The task moves on without executing a block.
LEMMA OutcomeKept ==
  ASSUME Status' = Status, \A b \in Blocks : Executed(b)' <=> Executed(b)
  PROVE  OutcomeOf' = OutcomeOf
BY DEF OutcomeOf

\* The task executes the block it has taken: it is the oldest not yet executed.
LEMMA ServiceExecutes ==
  ASSUME IInv, OutcomesInv, cur \in Blocks, ~Executed(cur),
         NEW o \in Service!Outcomes(Work[cur])
                     \cup (IF cur \in Spoiled THEN {"SKIPPED"} ELSE {}),
         OutcomeOf' = [OutcomeOf EXCEPT ![cur] = o],
         InFlight' = InFlight, Work' = Work, Spoiled' = Spoiled, Shown' = Shown
  PROVE  Service!Execute
<1> DEFINE i == Len(done) + 1
<1>1. TypeOK /\ Control
  BY DEF IInv
<1>2. /\ Current = <<cur>> /\ done \in Seq(Blocks) /\ Len(done) \in Nat
      /\ done \o Current = Append(done, cur)
  <2>1. done \in Seq(Blocks)
    BY <1>1 DEF TypeOK
  <2>. QED BY <2>1, BlocksAssumption, JoinAppend DEF Current
<1>3. /\ Len(done \o Current) = i /\ (done \o Current)[i] = cur
      /\ \A j \in 1..(i - 1) : (done \o Current)[j] = done[j]
  BY <1>2
<1>4. /\ Len((done \o Current) \o pend) = i + Len(pend) /\ Len(pend) \in Nat
      /\ \A j \in 1..i : ((done \o Current) \o pend)[j] = (done \o Current)[j]
  BY <1>1, <1>3, FlightParts, Joined
<1>5. /\ Len(InFlight) = i + Len(pend) + Len(Linking) /\ Len(Linking) \in Nat
      /\ \A j \in 1..(i + Len(pend)) : InFlight[j] = ((done \o Current) \o pend)[j]
  <2>. DEFINE front == (done \o Current) \o pend
  <2>1. front \in Seq(Blocks) /\ Linking \in Seq(Blocks) /\ InFlight = front \o Linking
    BY <1>1, FlightParts
  <2>2. Len(front) = i + Len(pend)
    BY <1>4
  <2>. HIDE DEF front, i
  <2>3. /\ Len(front \o Linking) = Len(front) + Len(Linking) /\ Len(Linking) \in Nat
        /\ \A j \in 1..Len(front) : (front \o Linking)[j] = front[j]
    BY <2>1, Joined
  <2>. QED BY <2>1, <2>2, <2>3 DEF front
<1>6. i \in 1..Len(InFlight) /\ InFlight[i] = cur
  BY <1>2, <1>3, <1>4, <1>5
<1>7. \A j \in 1..(i - 1) : InFlight[j] = done[j] /\ done[j] \in Blocks /\ OnList(done, done[j])
  BY <1>2, <1>3, <1>4, <1>5 DEF OnList
<1>. HIDE DEF i
<1>8. OutcomeOf[cur] = "PENDING"
  BY DEF OutcomeOf
<1>9. \A j \in 1..(i - 1) : OutcomeOf[InFlight[j]] # "PENDING"
  BY <1>1, <1>7 DEF OutcomeOf, Executed, TypeOK, FnStatus
<1>. QED
  BY <1>6, <1>8, <1>9 DEF Service!Execute, OutcomeOf, Spoiled, Shown

\* The oldest block of the queue is the first of Done, and leaves both together.
LEMMA FlightDelivers ==
  ASSUME TypeOK, Control, done # <<>>, done' = Tail(done),
         UNCHANGED <<cur, pend, eng, posting>>
  PROVE  InFlight # <<>> /\ Head(InFlight) = Head(done) /\ InFlight' = Tail(InFlight)
<1>1. Current' = Current /\ Linking' = Linking
  BY DEF Current, Linking
<1>2. InFlight' = ((Tail(done) \o Current) \o pend) \o Linking
  BY <1>1 DEF InFlight, Current, Linking
<1>3. /\ done \in Seq(Blocks) /\ Current \in Seq(Blocks) /\ pend \in Seq(Blocks)
      /\ Linking \in Seq(Blocks) /\ done \o Current \in Seq(Blocks)
      /\ (done \o Current) \o pend \in Seq(Blocks)
      /\ InFlight = ((done \o Current) \o pend) \o Linking
  BY FlightParts
<1>4. /\ done \o Current # <<>> /\ Head(done \o Current) = Head(done)
      /\ Tail(done \o Current) = Tail(done) \o Current
  BY <1>3, TailOfJoin
<1>5. /\ (done \o Current) \o pend # <<>> /\ Head((done \o Current) \o pend) = Head(done)
      /\ Tail((done \o Current) \o pend) = (Tail(done) \o Current) \o pend
  BY <1>3, <1>4, TailOfJoin
<1>6. /\ InFlight # <<>> /\ Head(InFlight) = Head(done)
      /\ Tail(InFlight) = ((Tail(done) \o Current) \o pend) \o Linking
  <2>. DEFINE front == (done \o Current) \o pend
              rest == (Tail(done) \o Current) \o pend
  <2>1. /\ front \in Seq(Blocks) /\ front # <<>> /\ Linking \in Seq(Blocks)
        /\ Head(front) = Head(done) /\ Tail(front) = rest /\ InFlight = front \o Linking
    BY <1>3, <1>5
  <2>. HIDE DEF front, rest
  <2>2. /\ Head(front \o Linking) = Head(front) /\ front \o Linking # <<>>
        /\ Tail(front \o Linking) = Tail(front) \o Linking
    BY <2>1, TailOfJoin
  <2>3. InFlight # <<>> /\ Head(InFlight) = Head(done) /\ Tail(InFlight) = rest \o Linking
    BY <2>1, <2>2
  <2>. QED BY <2>3 DEF rest
<1>. QED BY <1>2, <1>6

\* Every step of the driver is a step of the service or leaves it as it is.
LEMMA ServiceStep ==
  ASSUME IInv, OutcomesInv, [Next]_vars
  PROVE  Service!Next \/ UNCHANGED Service!vars
<1> USE BlocksAssumption
<1>t. TypeOK /\ Control /\ LinkedOnce /\ posting \in Blocks \cup {NoBlock}
  BY DEF IInv, TypeOK
<1>p. /\ pStatus \in [Blocks -> UserStatus] /\ Status \in [Blocks -> FnStatus]
      /\ Busy \in [Blocks -> {"NOTBUSY", "BUSY", "ABORT"}]
      /\ cur \in Blocks \cup {NoBlock} /\ pend \in Seq(Blocks) /\ done \in Seq(Blocks)
  BY <1>t DEF TypeOK
<1>w. Work \in [Blocks -> AsyncCalls \cup {"NONE"}]
  BY <1>t DEF TypeOK
<1> USE DEF engineVars, listVars, taskVars, blockVars, GoTo
\* Steps that leave the queue and what is shown of it alone.
<1>s. ASSUME UNCHANGED <<Work, Status, Busy, pStatus, posting>>, InFlight' = InFlight,
             \A b \in Blocks : Executed(b)' <=> Executed(b)
      PROVE  UNCHANGED Service!vars
  <2>1. OutcomeOf' = OutcomeOf
    BY <1>s, OutcomeKept
  <2>2. Spoiled' = Spoiled /\ Shown' = Shown
    BY <1>s DEF Spoiled, Shown
  <2>. QED BY <1>s, <2>1, <2>2, ServiceStutters
<1>1. CASE \/ OnLine \/ Input \/ KickTask \/ Output \/ OffLine \/ WaitPend \/ WaitBusy
           \/ VerifyCount \/ LockDone \/ UnlockDone \/ ReloadPend \/ ReloadDone
  <2>1. pend' = pend /\ done' = done
    BY <1>1, NoReloadAfterTimeout
    DEF OnLine, Input, KickTask, Output, OffLine, WaitPend, WaitBusy, VerifyCount, LockDone,
        UnlockDone, LeaveWait, ReloadPend, ReloadDone, IInv, Stopping, Calm
  <2>2. UNCHANGED <<blockVars, posting, cur, bg>> /\ (eng' = "link" <=> eng = "link")
    BY <1>1 DEF OnLine, Input, KickTask, Output, OffLine, WaitPend, WaitBusy, VerifyCount,
                LockDone, UnlockDone, LeaveWait, AfterVerify, ReloadPend, ReloadDone
  <2>3. \A b \in Blocks : Executed(b)' <=> Executed(b)
    BY <2>1, <2>2 DEF Executed, OnList
  <2>4. InFlight' = InFlight
    BY <2>1, <2>2 DEF InFlight
  <2>. QED BY <1>s, <2>2, <2>3, <2>4
<1>2. CASE TaskIdle \/ TaskWait \/ TaskWoken \/ UNCHANGED vars
  <2>1. /\ UNCHANGED <<blockVars, posting, cur, pend, done, eng>>
        /\ bg' = "linkDone" <=> bg = "linkDone"
    BY <1>2 DEF TaskIdle, TaskWait, TaskWoken, vars
  <2>2. \A b \in Blocks : Executed(b)' <=> Executed(b)
    BY <2>1 DEF Executed, OnList
  <2>3. InFlight' = InFlight
    BY <2>1 DEF InFlight
  <2>. QED BY <1>s, <2>1, <2>2, <2>3
<1>3. CASE LinkPend
  <2>1. /\ eng = "link" /\ eng' # "link" /\ pend' = Append(pend, posting)
        /\ UNCHANGED <<posting, done, cur, bg, blockVars>>
    BY <1>3 DEF LinkPend
  <2>2. posting \in Blocks
    BY <1>t, <2>1 DEF Control
  <2>3. Linking = <<posting>> /\ Linking' = <<>> /\ Current' = Current
    BY <2>1 DEF Linking, Current
  <2>4. InFlight' = ((done \o Current) \o Append(pend, posting)) \o <<>>
    BY <2>1, <2>3 DEF InFlight, Current, Linking
  <2>5. InFlight = ((done \o Current) \o pend) \o <<posting>>
    BY <1>t, <2>3, FlightParts
  <2>6. /\ done \o Current \in Seq(Blocks) /\ (done \o Current) \o pend \in Seq(Blocks)
        /\ (done \o Current) \o Append(pend, posting) = Append((done \o Current) \o pend, posting)
        /\ ((done \o Current) \o pend) \o <<posting>> = Append((done \o Current) \o pend, posting)
    <3>. DEFINE front == done \o Current
                all == front \o pend
    <3>1. front \in Seq(Blocks) /\ all \in Seq(Blocks)
      BY <1>t, FlightParts
    <3>2. all \o <<posting>> = Append(all, posting)
      <4>. HIDE DEF all
      <4>. QED BY <2>2, <3>1, JoinAppend
    <3>3. front \o Append(pend, posting) = Append(front \o pend, posting)
      <4>. HIDE DEF front
      <4>. QED BY <1>p, <2>2, <3>1, JoinAppend
    <3>. QED BY <3>1, <3>2, <3>3
  <2>7. Append((done \o Current) \o pend, posting) \o <<>> = Append((done \o Current) \o pend, posting)
    BY <2>2, <2>6
  <2>8. InFlight' = InFlight
    BY <2>4, <2>5, <2>6, <2>7
  <2>9. \A b \in Blocks : Executed(b)' <=> Executed(b)
    BY <2>1 DEF Executed, OnList
  <2>. QED BY <1>s, <2>1, <2>8, <2>9
<1>4. CASE ReturnBusy
  <2>1. /\ eng = "return" /\ eng' = "user" /\ posting' = NoBlock
        /\ pStatus' = [pStatus EXCEPT ![posting] = "BUSY"]
        /\ UNCHANGED <<pend, done, cur, bg, Busy, Status, Work>>
    BY <1>4 DEF ReturnBusy
  <2>2. \A b \in Blocks : Executed(b)' <=> Executed(b)
    BY <2>1 DEF Executed, OnList
  <2>3. InFlight' = InFlight
    BY <2>1 DEF InFlight
  <2>4. Shown' = Shown
    BY <1>p, <1>t, <2>1 DEF Shown
  <2>5. Spoiled' = Spoiled /\ OutcomeOf' = OutcomeOf
    BY <2>1, <2>2, OutcomeKept DEF Spoiled
  <2>. QED BY <2>1, <2>3, <2>4, <2>5, ServiceStutters
<1>5. ASSUME NEW c \in Blocks, NEW call \in Calls, PostAccept(c, call)
      PROVE  Service!Next
  <2>1. /\ eng = "user" /\ eng' = "link" /\ Busy[c] = "NOTBUSY" /\ posting' = c
        /\ Busy' = [Busy EXCEPT ![c] = "BUSY"] /\ Status' = [Status EXCEPT ![c] = "BUSY"]
        /\ Work' = [Work EXCEPT ![c] = call]
        /\ UNCHANGED <<pend, done, cur, bg, pStatus>>
    BY <1>5 DEF PostAccept, MayAccept
  <2>2. posting = NoBlock
    BY <1>t, <2>1 DEF Control
  <2>3. InFlight' = Append(InFlight, c)
    <3>1. Linking = <<>> /\ Linking' = <<c>> /\ Current' = Current
      BY <2>1 DEF Linking, Current
    <3>2. InFlight' = ((done \o Current) \o pend) \o <<c>>
      BY <2>1, <3>1 DEF InFlight, Linking, Current
    <3>3. InFlight = ((done \o Current) \o pend) \o <<>> /\ (done \o Current) \o pend \in Seq(Blocks)
      BY <1>t, <3>1, FlightParts
    <3>4. ((done \o Current) \o pend) \o <<>> = (done \o Current) \o pend
      BY <3>3
    <3>5. ((done \o Current) \o pend) \o <<c>> = Append((done \o Current) \o pend, c)
      BY <3>3, JoinAppend
    <3>. QED BY <3>2, <3>3, <3>4, <3>5
  <2>4. ~OnList(InFlight, c)
    BY <2>1, InFlightIsInUse
  <2>5. ~Executed(c) /\ \A b \in Blocks : Executed(b)' <=> Executed(b)
    <3>1. \A b \in Blocks : Executed(b)' <=> Executed(b)
      BY <2>1 DEF Executed, OnList
    <3>2. ~Executed(c)
      BY <1>t, <2>1 DEF Executed, LinkedOnce, InUse, InTask
    <3>. QED BY <3>1, <3>2
  <2>6. OutcomeOf' = OutcomeOf
    BY <1>p, <2>1, <2>5 DEF OutcomeOf
  <2>7. Spoiled' = Spoiled
    BY <1>p, <2>1 DEF Spoiled
  <2>8. Shown' = [Shown EXCEPT ![c] = "BUSY"]
    BY <1>p, <2>1, <2>2 DEF Shown
  <2>9. ~Service!Queued(c)
    BY <2>4 DEF Service!Queued, OnList
  <2>10. Service!Accept(c, call)
    BY <2>1, <2>3, <2>6, <2>7, <2>8, <2>9 DEF Service!Accept, OutcomeOf, Spoiled, Shown
  <2>. QED BY <2>10 DEF Service!Next
<1>6. ASSUME NEW c \in Blocks, NEW call \in Calls, PostReject(c, call)
      PROVE  Service!Next
  <2>1. /\ eng = "user" /\ Busy[c] # "NOTBUSY" /\ Busy' = [Busy EXCEPT ![c] = "ABORT"]
        /\ pStatus' = [pStatus EXCEPT ![c] = "ABORTED"]
        /\ UNCHANGED <<eng, posting, pend, done, cur, bg, Status, Work>>
    BY <1>6 DEF PostReject, MayAccept
  <2>2. posting = NoBlock
    BY <1>t, <2>1 DEF Control
  <2>3. InFlight' = InFlight
    BY <2>1 DEF InFlight
  <2>4. OnList(InFlight, c)
    BY <2>1, InFlightIsInUse
  <2>5. \A b \in Blocks : Executed(b)' <=> Executed(b)
    BY <2>1 DEF Executed, OnList
  <2>6. OutcomeOf' = OutcomeOf
    BY <2>1, <2>5, OutcomeKept
  <2>7. Spoiled' = Spoiled \cup {c}
    BY <1>p, <2>1 DEF Spoiled
  <2>8. Shown' = [Shown EXCEPT ![c] = "ABORTED"]
    BY <1>p, <2>1, <2>2 DEF Shown
  <2>9. Service!Queued(c)
    BY <2>4 DEF Service!Queued, OnList
  <2>10. Service!Reject(c)
    BY <2>1, <2>3, <2>6, <2>7, <2>8, <2>9 DEF Service!Reject, OutcomeOf, Spoiled, Shown
  <2>. QED BY <2>10 DEF Service!Next
<1>7. CASE Deliver
  <2>0. PICK h : h = Head(done)
    OBVIOUS
  <2>1. /\ eng = "deliver" /\ done # <<>> /\ done' = Tail(done)
        /\ Busy' = [Busy EXCEPT ![h] = "NOTBUSY"]
        /\ pStatus' = IF Busy[h] = "BUSY"
                      THEN [pStatus EXCEPT ![h] = IF Status[h] = "BUSY" THEN "OK" ELSE Status[h]]
                      ELSE pStatus
        /\ UNCHANGED <<eng, posting, pend, cur, bg, Status, Work>>
    BY <1>7, <2>0 DEF Deliver, ShowStatus
  <2>2. posting = NoBlock
    BY <1>t, <2>1 DEF Control
  <2>3. h \in Blocks /\ OnList(done, h) /\ ~InTask(h) /\ Busy[h] # "NOTBUSY"
    <3>1. h \in Blocks /\ OnList(done, h)
      BY <1>t, <1>p, <2>0, <2>1, HeadAndTail, TailOfList DEF LinkedOnce
    <3>. QED BY <1>t, <3>1 DEF LinkedOnce, InUse
  <2>4. \A b \in Blocks : OnList(done', b) <=> OnList(done, b) /\ b # h
    BY <1>t, <1>p, <2>0, <2>1, TailOfList DEF LinkedOnce
  <2>5. \A b \in Blocks : Executed(b)' <=> Executed(b) /\ b # h
    BY <2>1, <2>3, <2>4 DEF Executed, InTask
  <2>6. Executed(h)
    BY <2>3 DEF Executed
  <2>7. InFlight # <<>> /\ Head(InFlight) = h /\ InFlight' = Tail(InFlight)
    BY <1>t, <2>0, <2>1, FlightDelivers
  <2>8. OutcomeOf[h] # "PENDING" /\ (Busy[h] = "BUSY" => OutcomeOf[h] = Status[h] /\ Status[h] # "BUSY")
    BY <1>p, <2>3, <2>6 DEF OutcomeOf, OutcomesInv, FnStatus
  <2>9. OutcomeOf' = [OutcomeOf EXCEPT ![h] = "PENDING"]
    BY <2>1, <2>3, <2>5 DEF OutcomeOf
  <2>10. Spoiled' = Spoiled \ {h}
    BY <1>p, <2>1, <2>3 DEF Spoiled
  <2>11. Shown' = IF h \in Spoiled THEN Shown ELSE [Shown EXCEPT ![h] = OutcomeOf[h]]
    <3>1. CASE h \in Spoiled
      BY <1>p, <2>1, <2>2, <3>1 DEF Spoiled, Shown
    <3>2. CASE h \notin Spoiled
      <4>1. Busy[h] = "BUSY"
        BY <1>p, <2>3, <3>2 DEF Spoiled
      <4>2. pStatus' = [pStatus EXCEPT ![h] = OutcomeOf[h]]
        BY <2>1, <2>8, <4>1
      <4>. QED BY <1>p, <2>1, <2>2, <2>3, <3>2, <4>2 DEF Shown
    <3>. QED BY <3>1, <3>2
  <2>12. Service!Report
    BY <2>1, <2>7, <2>8, <2>9, <2>10, <2>11 DEF Service!Report, OutcomeOf, Spoiled, Shown
  <2>. QED BY <2>12 DEF Service!Next
<1>8. CASE TaskUnlink
  <2>1. /\ bg = "unlink" /\ pend # <<>>
    <3>1. bg = "unlink"
      BY <1>8 DEF TaskUnlink
    <3>. QED BY <3>1 DEF IInv, NoLostWakeup, Asleep, TaskAssertHolds
  <2>2. /\ bg' = "check" /\ cur' = Head(pend) /\ pend' = Tail(pend)
        /\ UNCHANGED <<eng, posting, done, blockVars>>
    BY <1>8, <2>1 DEF TaskUnlink
  <2>3. cur = NoBlock /\ Head(pend) \in Blocks /\ Tail(pend) \in Seq(Blocks)
    BY <1>t, <1>p, <2>1, HeadAndTail DEF Control
  <2>4. Current = <<>> /\ Current' = <<Head(pend)>> /\ Linking' = Linking
    BY <2>2, <2>3 DEF Current, Linking
  <2>5. InFlight' = ((done \o <<Head(pend)>>) \o Tail(pend)) \o Linking
    BY <2>2, <2>4 DEF InFlight, Current, Linking
  <2>6. InFlight = ((done \o <<>>) \o pend) \o Linking
    BY <1>t, <2>4, FlightParts
  <2>7. /\ done \o <<>> = done /\ done \o <<Head(pend)>> = Append(done, Head(pend))
        /\ Append(done, Head(pend)) \o Tail(pend) = done \o pend
    BY <1>p, <2>1, <2>3, JoinAppend, JoinTail
  <2>8. InFlight' = InFlight
    BY <2>5, <2>6, <2>7
  <2>9. \A b \in Blocks : Executed(b)' <=> Executed(b)
    BY <2>1, <2>2 DEF Executed, OnList
  <2>. QED BY <1>s, <2>2, <2>8, <2>9
<1>9. CASE TaskLinkDone
  <2>1. /\ bg = "linkDone" /\ bg' # "linkDone" /\ done' = Append(done, cur) /\ cur' = NoBlock
        /\ UNCHANGED <<eng, posting, pend, blockVars>>
    BY <1>9 DEF TaskLinkDone
  <2>2. cur \in Blocks
    BY <1>t, <1>p, <2>1 DEF Control
  <2>3. Current = <<cur>> /\ Current' = <<>> /\ Linking' = Linking
    BY <2>1, <2>2 DEF Current, Linking
  <2>4. InFlight' = ((Append(done, cur) \o <<>>) \o pend) \o Linking
    BY <2>1, <2>3 DEF InFlight, Current, Linking
  <2>5. InFlight = ((done \o <<cur>>) \o pend) \o Linking
    BY <1>t, <2>3, FlightParts
  <2>6. done \o <<cur>> = Append(done, cur) /\ Append(done, cur) \o <<>> = Append(done, cur)
    BY <1>p, <2>2, JoinAppend
  <2>7. \A b \in Blocks : OnList(done', b) <=> OnList(done, b) \/ b = cur
    BY <1>p, <2>1, <2>2, AppendOnList
  <2>8. \A b \in Blocks : Executed(b)' <=> Executed(b)
    BY <2>1, <2>7 DEF Executed
  <2>. QED BY <1>s, <2>1, <2>4, <2>5, <2>6, <2>8
<1>10. CASE TaskCheck
  <2>1. /\ bg = "check" /\ cur \in Blocks
        /\ UNCHANGED <<blockVars, eng, posting, pend, done, cur>>
        /\ bg' = IF Busy[cur] = "BUSY" THEN "run" ELSE "linkDone"
    BY <1>t, <1>p, <1>10 DEF TaskCheck, Control
  <2>2. InFlight' = InFlight /\ Spoiled' = Spoiled /\ Shown' = Shown
    BY <2>1 DEF InFlight, Spoiled, Shown
  <2>3. CASE Busy[cur] = "BUSY"
    <3>1. \A b \in Blocks : Executed(b)' <=> Executed(b)
      BY <2>1, <2>3 DEF Executed, OnList
    <3>. QED BY <1>s, <2>1, <2>2, <3>1
  <2>4. CASE Busy[cur] # "BUSY"
    <3>1. Busy[cur] # "NOTBUSY" /\ ~OnList(done, cur)
      BY <1>t, <2>1 DEF LinkedOnce, InUse, InTask
    <3>2. ~Executed(cur) /\ cur \in Spoiled
      BY <1>p, <2>1, <2>4, <3>1 DEF Executed, Spoiled
    <3>3. Status[cur] = "BUSY"
      BY <2>1, <3>1, <3>2 DEF OutcomesInv
    <3>4. \A b \in Blocks : Executed(b)' <=> Executed(b) \/ b = cur
      BY <2>1, <2>4 DEF Executed, OnList
    <3>5. OutcomeOf' = [OutcomeOf EXCEPT ![cur] = "SKIPPED"]
      BY <2>1, <3>3, <3>4 DEF OutcomeOf
    <3>6. "SKIPPED" \in Service!Outcomes(Work[cur])
                          \cup (IF cur \in Spoiled THEN {"SKIPPED"} ELSE {})
      BY <3>2
    <3>7. Service!Execute
      BY <2>1, <2>2, <3>2, <3>5, <3>6, ServiceExecutes
    <3>. QED BY <3>7 DEF Service!Next
  <2>. QED BY <2>3, <2>4
<1>11. CASE DoAsyncSpecialFunction
  <2>1. /\ bg = "run" /\ cur \in Blocks
        /\ UNCHANGED <<Busy, Work, pStatus, eng, posting, pend, done, cur>>
    BY <1>t, <1>p, <1>11, RunStep DEF Control
  <2>2. InFlight' = InFlight /\ Spoiled' = Spoiled /\ Shown' = Shown
    BY <2>1 DEF InFlight, Spoiled, Shown
  <2>3. CASE Goes
    <3>1. \A b \in Blocks : Executed(b)' <=> Executed(b)
      BY <2>1, <2>3 DEF Executed, OnList, Goes
    <3>2. Status' = Status
      BY <2>3 DEF Goes
    <3>. QED BY <1>s, <2>1, <2>2, <3>1, <3>2
  <2>4. CASE Ends
    <3>1. ~OnList(done, cur) /\ ~Executed(cur)
      BY <1>t, <2>1 DEF LinkedOnce, InTask, Executed
    <3>2. \A b \in Blocks : Executed(b)' <=> Executed(b) \/ b = cur
      BY <2>1, <2>4 DEF Executed, OnList, Ends
    <3>3. PICK o : o = IF Work[cur] = "CLEAR_TXRX" THEN "WRONGPARAM" ELSE "OK"
      OBVIOUS
    <3>4. Status'[cur] = o /\ o # "BUSY" /\ \A b \in Blocks : b # cur => Status'[b] = Status[b]
      BY <2>4, <3>3 DEF Ends
    <3>5. OutcomeOf' = [OutcomeOf EXCEPT ![cur] = o]
      BY <2>1, <3>2, <3>4 DEF OutcomeOf
    <3>6. o \in Service!Outcomes(Work[cur])
                  \cup (IF cur \in Spoiled THEN {"SKIPPED"} ELSE {})
      BY <3>3 DEF Service!Outcomes
    <3>7. Service!Execute
      BY <2>1, <2>2, <3>1, <3>5, <3>6, ServiceExecutes
    <3>. QED BY <3>7 DEF Service!Next
  <2>. QED BY <1>t, <1>11, <2>3, <2>4, RunResult
<1>. QED
  BY <1>1, <1>2, <1>3, <1>4, <1>5, <1>6, <1>7, <1>8, <1>9, <1>10, <1>11
  DEF Next, Engine, Special, VerifyDoneList, WaitForAllFunctionCompletion, Reload,
      BackgroundTask

\* Initially nothing is in flight.
LEMMA ServiceBegins == Init => Service!Init
<1> SUFFICES ASSUME Init PROVE Service!Init
  OBVIOUS
<1>1. TypeOK /\ Control
  BY InitInvariant DEF IInv
<1>2. InFlight = <<>>
  BY DEF Init, InFlight
<1>3. \A b \in Blocks : ~Executed(b)
  BY 1..Len(<<>>) = {} DEF Init, Executed, OnList
<1>4. OutcomeOf = [b \in Blocks |-> "PENDING"]
  BY <1>3 DEF OutcomeOf
<1>5. Spoiled = {} /\ Shown = [b \in Blocks |-> "NONE"]
  BY BlocksAssumption DEF Init, Spoiled, Shown
<1>6. Work = [b \in Blocks |-> "NONE"]
  BY DEF Init
<1>. QED BY <1>2, <1>4, <1>5, <1>6 DEF Service!Init, OutcomeOf, Spoiled, Shown

\* The two threads, the lists and the semaphore implement one queue of calls that are
\* executed one at a time and reported once each, in the order of their acceptance.
THEOREM DriverIsService == Spec => ImplementsService
<1>1. Init => Service!Init
  BY ServiceBegins
<1>2. IInv /\ OutcomesInv /\ [Next]_vars => [Service!Next]_(Service!vars)
  BY ServiceStep
<1>. QED BY <1>1, <1>2, Invariance, Outcomes, PTL DEF Spec, ImplementsService, Service!Spec
=============================================================================
