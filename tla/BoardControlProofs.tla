------------------------- MODULE BoardControlProofs -------------------------
(***************************************************************************)
(* Proofs about BoardControl, for commands and transfers of any length:    *)
(* what the sequences of exchanges leave of the state of the bus at the    *)
(* one that puts bytes on it, whatever exchange fails.                     *)
(***************************************************************************)
EXTENDS BoardControl, TLAPS

-----------------------------------------------------------------------------
(* Exchanges. *)

(* An answer is a record of what its blocks say.                           *)
LEMMA AnswerType ==
    ASSUME NEW kind \in Kinds, NEW n \in Nat, NEW error \in Errors, NEW left \in Nat
    PROVE  Ans(kind, n, error, left) \in Answers
BY DEF Ans, AnswerLen, Answers

(* So is what it is taken for when it is left behind.                      *)
LEMMA LeftType == ASSUME NEW a \in Answers PROVE Left(a) \in Answers
BY DEF Left, Answers, Kinds

(* No answer is one of them, with the error of an answer that has none.    *)
LEMMA NoAnswerType == NoAnswer \in Answers /\ Failed(NoAnswer)
BY DEF NoAnswer, Answers, Failed, Errors

(* What comes of an exchange: its request is not sent; it is, and no       *)
(* answer is taken; or the oldest answer is, which is its own only when    *)
(* none was left behind.                                                   *)
Refused(kind, e) ==
    /\ e.code \in Unsent(kind, FALSE) /\ e.a = NoAnswer
    /\ e.own = NoAnswer /\ e.behind = behind
Unread(kind, n, answers, e) ==
    /\ e.code \in Unsent(kind, TRUE) \cup {Outcome(kind, NoAnswer, n)}
    /\ e.a = NoAnswer /\ e.own \in answers
    /\ e.behind \in {NoAnswer, behind, Left(e.own)}
Taken(kind, n, answers, e) ==
    /\ e.own \in answers /\ e.code = Outcome(kind, e.a, n)
    /\ behind = NoAnswer => e.a = e.own /\ e.behind = NoAnswer
    /\ behind # NoAnswer => e.a = Received(kind, behind) /\ e.behind = Left(e.own)

LEMMA ExchangeShapes ==
    ASSUME NEW kind, NEW n, NEW answers, NEW e \in Exchange(kind, n, answers)
    PROVE  Refused(kind, e) \/ Unread(kind, n, answers, e) \/ Taken(kind, n, answers, e)
<1>. DEFINE oldest(own) == IF behind = NoAnswer THEN own ELSE Received(kind, behind)
            kept(own) == IF behind = NoAnswer THEN NoAnswer ELSE Left(own)
            lost(own) == UNION {Ends(Unsent(kind, TRUE) \cup {Outcome(kind, NoAnswer, n)},
                                     NoAnswer, own, left) : left \in {NoAnswer, behind, Left(own)}}
            taken(own) == Ends({Outcome(kind, oldest(own), n)}, oldest(own), own, kept(own))
<1>0. e \in Ends(Unsent(kind, FALSE), NoAnswer, NoAnswer, behind)
           \cup UNION {lost(own) \cup taken(own) : own \in answers}
  BY DEF Exchange
<1>1. \/ e \in Ends(Unsent(kind, FALSE), NoAnswer, NoAnswer, behind)
      \/ \E own \in answers :
           \/ \E left \in {NoAnswer, behind, Left(own)} :
                e \in Ends(Unsent(kind, TRUE) \cup {Outcome(kind, NoAnswer, n)},
                           NoAnswer, own, left)
           \/ e \in Ends({Outcome(kind, oldest(own), n)}, oldest(own), own, kept(own))
  <2>. HIDE DEF lost, taken
  <2>1. \/ e \in Ends(Unsent(kind, FALSE), NoAnswer, NoAnswer, behind)
        \/ \E own \in answers : e \in lost(own) \/ e \in taken(own)
    BY <1>0
  <2>2. ASSUME NEW own, e \in lost(own)
        PROVE  \E left \in {NoAnswer, behind, Left(own)} :
                 e \in Ends(Unsent(kind, TRUE) \cup {Outcome(kind, NoAnswer, n)},
                            NoAnswer, own, left)
    BY <2>2 DEF lost
  <2>. QED
    BY <2>1, <2>2 DEF taken
<1>. HIDE DEF oldest, kept, lost, taken
<1>2. \A codes, a, own, left : e \in Ends(codes, a, own, left)
        => e.code \in codes /\ e.a = a /\ e.own = own /\ e.behind = left
  BY DEF Ends
<1>3. CASE e \in Ends(Unsent(kind, FALSE), NoAnswer, NoAnswer, behind)
  <2>1. /\ e.code \in Unsent(kind, FALSE) /\ e.a = NoAnswer
        /\ e.own = NoAnswer /\ e.behind = behind
    <3>. DEFINE codes == Unsent(kind, FALSE)
    <3>1. e \in Ends(codes, NoAnswer, NoAnswer, behind)
      BY <1>3
    <3>. HIDE DEF codes
    <3>2. e.code \in codes /\ e.a = NoAnswer /\ e.own = NoAnswer /\ e.behind = behind
      BY <1>2, <3>1, Zenon
    <3>. QED
      BY <3>2 DEF codes
  <2>. QED
    BY <2>1 DEF Refused
<1>4. ASSUME NEW own \in answers, NEW left \in {NoAnswer, behind, Left(own)},
             e \in Ends(Unsent(kind, TRUE) \cup {Outcome(kind, NoAnswer, n)}, NoAnswer, own, left)
      PROVE  Unread(kind, n, answers, e)
  <2>1. /\ e.code \in Unsent(kind, TRUE) \cup {Outcome(kind, NoAnswer, n)}
        /\ e.a = NoAnswer /\ e.own = own /\ e.behind = left
    BY <1>2, <1>4, Zenon
  <2>. QED
    BY <2>1, Zenon DEF Unread
<1>5. ASSUME NEW own \in answers, e \in taken(own)
      PROVE  Taken(kind, n, answers, e)
  <2>1. /\ e.code \in {Outcome(kind, oldest(own), n)}
        /\ e.a = oldest(own) /\ e.own = own /\ e.behind = kept(own)
    BY <1>2, <1>5, Zenon DEF taken
  <2>2. e.own \in answers /\ e.code = Outcome(kind, e.a, n)
    BY <2>1, Zenon
  <2>. QED
    BY <2>1, <2>2 DEF Taken, oldest, kept
<1>. QED
  BY <1>1, <1>3, <1>4, <1>5, Zenon DEF taken

(* The answer that is taken, and the one that is left, are answers.        *)
LEMMA ExchangeTypes ==
    ASSUME behind \in Answers, NEW kind, NEW n, NEW answers \in SUBSET Answers,
           NEW e \in Exchange(kind, n, answers)
    PROVE  e.a \in Answers /\ e.own \in Answers /\ e.behind \in Answers
<1>1. Received(kind, behind) \in Answers
  BY NoAnswerType DEF Received
<1>2. e.own \in Answers
  BY ExchangeShapes, NoAnswerType, Zenon DEF Refused, Unread, Taken
<1>3. /\ e.a \in {NoAnswer, e.own, Received(kind, behind)}
      /\ e.behind \in {NoAnswer, behind, Left(e.own)}
  <2>1. Refused(kind, e) \/ Unread(kind, n, answers, e) \/ Taken(kind, n, answers, e)
    BY ExchangeShapes
  <2>. QED
    BY <2>1 DEF Refused, Unread, Taken
<1>. QED
  BY <1>1, <1>2, <1>3, LeftType, NoAnswerType

(* A request that is not followed by a receive is refused with a code of   *)
(* the stack, or with ENOMEM, by all but three of the functions.           *)
LEMMA UnsentCodes ==
    ASSUME NEW kind \in Kinds \ {"SIC"}, NEW out, NEW code \in Unsent(kind, out)
    PROVE  /\ code \in {"USB", "EIO", "ETIMEDOUT", "ENOMEM"} \/ (kind = "WRT" /\ code = "OK")
           /\ kind \in {"CMD", "GTS"} => code \in {"USB", "ENOMEM"}
           /\ kind = "CAC" => code \in {"ETIMEDOUT", "ENOMEM"}
<1>1. CASE code = NoMemory(kind)
  BY <1>1 DEF NoMemory
<1>2. ASSUME NEW s \in Sends, ~GoesOn(kind, s), code = SendFailed(kind, s)
      PROVE  /\ code \in {"USB", "EIO", "ETIMEDOUT", "ENOMEM"} \/ (kind = "WRT" /\ code = "OK")
             /\ kind \in {"CMD", "GTS"} => code \in {"USB", "ENOMEM"}
             /\ kind = "CAC" => code \in {"ETIMEDOUT", "ENOMEM"}
  <2>1. kind # "WRT" => s.stat # "OK"
    BY <1>2 DEF GoesOn, Sends, IsOut, Kinds
  <2>. QED
    BY <1>2, <2>1 DEF SendFailed, Kinds
<1>. QED
  BY <1>1, <1>2 DEF Unsent

-----------------------------------------------------------------------------
(* What the driver keeps and what is true of the adapter. *)

Drivers == [master : BOOLEAN, ibsta : Status, eos : SUBSET EosFlags, char : EosChars \cup {0, 10}]
Devices == [cic : BOOLEAN, atn : BOOLEAN, sc : BOOLEAN]

RecordTypes ==
    /\ drv \in Drivers /\ dev \in Devices /\ behind \in Answers
    /\ usbNegative \in BOOLEAN

(* ibstatus: the true word, or the cached one and the trouble noted.       *)
LEMMA StatusWords ==
    ASSUME RecordTypes, NEW r \in StatusReads
    PROVE  /\ r.word \in Status
           /\ r.bad \in {{}, {"status"}}
           /\ r.bad = {} => (r.word.cic <=> dev.cic) /\ (r.word.atn <=> dev.atn)
BY DEF RecordTypes, StatusReads, Status, Drivers, Devices

(* What is read in its line status exchanges.                              *)
LEMMA LinesTaken == behind \in Answers /\ AfterLines => behind' \in Answers
<1>1. LinesAnswer \in Answers
  <2>1. Ans("LINES", 0, "none", 65227) \in Answers
    BY AnswerType DEF Kinds, Errors
  <2>. QED
    BY <2>1, LeftType DEF LinesAnswer
<1>. QED
  BY <1>1, NoAnswerType DEF AfterLines

(* Noting it changes nothing else of what the driver keeps.                *)
LEMMA StatusNoted ==
    ASSUME RecordTypes, NEW r \in StatusReads, Cache(r), UNCHANGED <<dev, usbNegative>>
    PROVE  /\ RecordTypes'
           /\ drv'.eos = drv.eos /\ drv'.char = drv.char /\ drv'.master = drv.master
BY StatusWords, LinesTaken DEF RecordTypes, Cache, Drivers

(* A list of register writes.                                              *)
LEMMA ListWritten ==
    ASSUME RecordTypes, NEW p, NEW n \in Nat, NEW written \in Devices, WriteList(p, n, written)
    PROVE  /\ pc = p /\ Goto(IF call = "open" THEN OpenNext[p] ELSE "idle")
           /\ dev' \in Devices /\ behind' \in Answers
           /\ UNCHANGED <<count, sent, usbNegative>>
<1>1. {Ans("REG", n, "none", 0)} \in SUBSET Answers
  BY AnswerType DEF Kinds, Errors
<1>2. PICK e \in Exchange("REG", n, {Ans("REG", n, "none", 0)}) :
        dev' = (IF Done(e) THEN written ELSE dev) /\ behind' = e.behind
  BY DEF WriteList
<1>3. behind' \in Answers
  BY <1>1, <1>2, ExchangeTypes, Zenon DEF RecordTypes
<1>. QED
  BY <1>2, <1>3 DEF RecordTypes, WriteList

(* A chip that was taken off the bus is a chip still.                      *)
LEMMA OffBusType == RecordTypes => OffBus \in Devices
BY DEF RecordTypes, OffBus, Devices

(* ibeos disables the EOS mode or enables it.                              *)
LEMMA EosSet ==
    ASSUME SetEos
    PROVE  /\ UNCHANGED <<pc, call, sync, count, sent, ret, dev, behind, usbNegative, trouble>>
           /\ DisableEos \/ \E char \in EosChars, binary \in BOOLEAN : EnableEos(char, binary)
<1>1. \A flags : ("BIN" \in flags) \in BOOLEAN
  OBVIOUS
<1>. QED
  BY <1>1, Zenon DEF SetEos

(* It leaves no bits and no character, or REOS.                            *)
LEMMA EosSteps ==
    ASSUME RecordTypes, DisableEos \/ \E char \in EosChars, binary \in BOOLEAN : EnableEos(char, binary)
    PROVE  /\ drv' \in Drivers
           /\ drv'.master = drv.master /\ drv'.ibsta = drv.ibsta
           /\ (drv'.eos = {} /\ drv'.char = 0) \/ "REOS" \in drv'.eos
<1>1. CASE DisableEos
  BY <1>1 DEF RecordTypes, DisableEos, Drivers
<1>2. ASSUME NEW char \in EosChars, NEW eos \in SUBSET EosFlags, "REOS" \in eos,
             drv' = [drv EXCEPT !.char = char, !.eos = eos]
      PROVE  /\ drv' \in Drivers
             /\ drv'.master = drv.master /\ drv'.ibsta = drv.ibsta
             /\ (drv'.eos = {} /\ drv'.char = 0) \/ "REOS" \in drv'.eos
  BY <1>2 DEF RecordTypes, Drivers
<1>3. ASSUME NEW char \in EosChars, NEW binary \in BOOLEAN, EnableEos(char, binary)
      PROVE  \E eos \in SUBSET EosFlags :
                "REOS" \in eos /\ drv' = [drv EXCEPT !.char = char, !.eos = eos]
  <2>1. drv.eos \in SUBSET EosFlags
    BY DEF RecordTypes, Drivers
  <2>2. CASE binary
    BY <1>3, <2>1, <2>2 DEF EnableEos, EosFlags
  <2>3. CASE ~binary
    BY <1>3, <2>1, <2>3 DEF EnableEos, EosFlags
  <2>. QED
    BY <2>2, <2>3
<1>. QED
  BY <1>1, <1>2, <1>3

(* The exchanges of one answer, and what they leave behind.                *)
LEMMA OneAnswer ==
    ASSUME RecordTypes, NEW kind \in Kinds, NEW n \in Nat, NEW m,
           NEW e \in Exchange(kind, m, {Ans(kind, n, "none", 0)})
    PROVE  e.behind \in Answers
<1>1. {Ans(kind, n, "none", 0)} \in SUBSET Answers
  BY AnswerType DEF Errors
<1>. QED
  BY <1>1, ExchangeTypes, Zenon DEF RecordTypes

(* Those of a take control, a chunk, a read and a write.                   *)
LEMMA TakeAnswerTypes == TakeAnswers \in SUBSET Answers
BY AnswerType DEF TakeAnswers, Kinds, Errors

LEMMA ChunkAnswerTypes ==
    ASSUME NEW n \in Nat \ {0}
    PROVE  CommandAnswers(n) \in SUBSET Answers
<1>1. n \in Nat /\ n - 1 \in Nat /\ "CMD" \in Kinds /\ {"none", "nobus", "addressing"} \subseteq Errors
  BY DEF Kinds, Errors
<1>. QED
  BY <1>1, AnswerType DEF CommandAnswers

LEMMA ReadAnswerTypes ==
    ASSUME NEW n \in Nat
    PROVE  ReadAnswers(n) \in SUBSET Answers
<1>1. /\ "RD" \in Kinds
      /\ {"none", "aborted", "addressing", "timeout", "eosmode"} \subseteq Errors
      /\ \A left \in 0 .. n : left \in Nat
  BY DEF Kinds, Errors
<1>2. \A a \in ReadAnswers(n) : \E error \in Errors, left \in Nat : a = Ans("RD", n, error, left)
  BY <1>1 DEF ReadAnswers
<1>. QED
  BY <1>1, <1>2, AnswerType

WriteAnswers == {Ans("WRT", 0, "none", 0)} \cup
                {Ans("WRT", 0, x, DataLength) : x \in {"timeout", "addressing", "nolistener"}}

LEMMA WriteAnswerTypes == WriteAnswers \in SUBSET Answers
<1>1. "WRT" \in Kinds /\ {"none", "timeout", "addressing", "nolistener"} \subseteq Errors
      /\ DataLength \in Nat
  BY LengthAssumption DEF Kinds, Errors
<1>. QED
  BY <1>1, AnswerType DEF WriteAnswers

(* What is left to transfer is never zero in a transfer.                   *)
LeftToDo ==
    /\ pc = "chunk" => count \in 0 .. CmdLength - 1
    /\ pc = "data" => count \in 0 .. DataLength - 1

(* Every step keeps the records.                                           *)
LEMMA RecordStep == RecordTypes /\ LeftToDo /\ [Next]_vars => RecordTypes'
<1>. SUFFICES ASSUME RecordTypes, LeftToDo, [Next]_vars PROVE RecordTypes'
  OBVIOUS
<1>0. {"REG", "GTS", "SIC"} \subseteq Kinds
  BY DEF Kinds
<1>1. CASE UNCHANGED <<drv, dev, behind, usbNegative>>
  BY <1>1 DEF RecordTypes
<1>2. CASE RegisterWrites
  <2>1. CASE ni_usb_init \/ ni_usb_shutdown_hardware
    BY <2>1, ListWritten, OffBusType DEF RecordTypes, ni_usb_init, ni_usb_shutdown_hardware
  <2>2. CASE ni_usb_secondary_address
    <3>1. drv' \in {drv, [drv EXCEPT !.eos = {"REOS"}, !.char = 10]}
      BY <2>2 DEF ni_usb_secondary_address
    <3>2. drv' \in Drivers
      BY <3>1 DEF RecordTypes, Drivers, EosFlags
    <3>. QED
      BY <2>2, <3>2, ListWritten DEF RecordTypes, ni_usb_secondary_address
  <2>3. CASE \/ ni_usb_primary_address \/ ni_usb_return_to_local \/ ni_usb_t1_delay
             \/ ni_usb_parallel_poll_configure \/ ni_usb_parallel_poll_response
             \/ ni_usb_serial_poll_response
    BY <2>3, ListWritten DEF RecordTypes, ni_usb_primary_address, ni_usb_return_to_local,
       ni_usb_t1_delay, ni_usb_parallel_poll_configure, ni_usb_parallel_poll_response,
       ni_usb_serial_poll_response
  <2>. QED
    BY <1>2, <2>1, <2>2, <2>3 DEF RegisterWrites
<1>3. CASE LookAtStatus \/ CacStatus \/ CacEnd \/ StandbyEnd
  BY <1>3, StatusNoted DEF LookAtStatus, CacStatus, CacEnd, StandbyEnd
<1>4. CASE StandbyStatus
  BY <1>4, StatusWords, LinesTaken DEF StandbyStatus, RecordTypes, Drivers
<1>5. CASE TakeControlFirst \/ TakeControlAgain
  <2>1. ASSUME NEW e \in Exchange("CAC", 0, TakeAnswers), behind' = e.behind,
               dev' = [dev EXCEPT !.atn = @ \/ (Done(e) /\ dev.cic /\ e.own.error = "none")],
               UNCHANGED <<drv, usbNegative>>
        PROVE  RecordTypes'
    <3>1. behind' \in Answers
      BY <2>1, TakeAnswerTypes, ExchangeTypes, Zenon DEF RecordTypes
    <3>. QED
      BY <2>1, <3>1 DEF RecordTypes, Devices
  <2>. QED
    BY <1>1, <1>5, <2>1 DEF TakeControlFirst, TakeControlAgain, Take
<1>6. CASE Chunk
  <2>. DEFINE n == ChunkLen(CmdLength - count)
  <2>1. PICK e \in Exchange("CMD", CmdLength - count, CommandAnswers(n)) : behind' = e.behind
    BY <1>6 DEF Chunk
  <2>2. n \in Nat \ {0}
    BY <1>6, LengthAssumption DEF Chunk, ChunkLen, LeftToDo
  <2>. HIDE DEF n
  <2>3. behind' \in Answers
    BY <2>1, <2>2, ChunkAnswerTypes, ExchangeTypes, Zenon DEF RecordTypes
  <2>. QED
    BY <1>6, <2>3 DEF RecordTypes, Chunk
<1>7. CASE ReadData
  <2>1. PICK e \in Exchange("RD", DataLength - count, ReadAnswers(DataLength - count)) :
          behind' = e.behind
    BY <1>7 DEF ReadData
  <2>2. DataLength - count \in Nat
    BY <1>7, LengthAssumption DEF ReadData, LeftToDo
  <2>3. behind' \in Answers
    BY <2>1, <2>2, ReadAnswerTypes, ExchangeTypes, Zenon DEF RecordTypes
  <2>. QED
    BY <1>7, <2>3 DEF RecordTypes, ReadData
<1>8. CASE WriteData
  <2>1. PICK e \in Exchange("WRT", DataLength, WriteAnswers) : behind' = e.behind
    BY <1>8 DEF WriteData, WriteAnswers
  <2>2. behind' \in Answers
    BY <2>1, WriteAnswerTypes, ExchangeTypes, Zenon DEF RecordTypes
  <2>. QED
    BY <1>8, <2>2 DEF RecordTypes, WriteData
<1>9. CASE StandbyGo
  <2>1. PICK e \in Exchange("GTS", 0, {Ans("GTS", 0, "none", 0)}) :
          behind' = e.behind /\ dev' = [dev EXCEPT !.atn = @ /\ ~(Done(e) /\ dev.cic)]
    BY <1>9 DEF StandbyGo
  <2>2. behind' \in Answers
    BY <1>0, <2>1, OneAnswer
  <2>. QED
    BY <1>9, <2>1, <2>2 DEF StandbyGo, RecordTypes, Devices
<1>10. CASE RequestSystemControl
  <2>. DEFINE n == IF call = "ibrsc1" THEN 2 ELSE 4
  <2>1. PICK e \in Exchange("REG", n, {Ans("REG", n, "none", 0)}) :
          behind' = e.behind /\ dev' \in {dev, Claim, Release}
    BY <1>10 DEF RequestSystemControl
  <2>2. drv' \in {[drv EXCEPT !.master = TRUE], [drv EXCEPT !.master = FALSE]}
    BY <1>10 DEF RequestSystemControl
  <2>3. n \in Nat
    OBVIOUS
  <2>. HIDE DEF n
  <2>4. behind' \in Answers
    BY <1>0, <2>1, <2>3, OneAnswer
  <2>. QED
    BY <1>10, <2>1, <2>2, <2>4
    DEF RequestSystemControl, RecordTypes, Claim, Release, Drivers, Devices
<1>11. CASE InterfaceClearPulse \/ RemoteEnable
  <2>1. /\ UNCHANGED <<drv, usbNegative>>
        /\ dev' \in {dev, [dev EXCEPT !.cic = TRUE, !.atn = TRUE]}
        /\ \/ \E e \in Exchange("SIC", 0, {Ans("SIC", 0, "none", 0)}) : behind' = e.behind
           \/ \E e \in Exchange("REG", 1, {Ans("REG", 1, "none", 0)}) : behind' = e.behind
    BY <1>11 DEF InterfaceClearPulse, RemoteEnable
  <2>2. behind' \in Answers
    BY <1>0, <2>1, OneAnswer
  <2>. QED
    BY <2>1, <2>2 DEF RecordTypes, Devices
<1>12. CASE SetEos
  BY <1>12, EosSet, EosSteps DEF RecordTypes
<1>13. CASE Bus
  BY <1>13 DEF Bus, RecordTypes, Devices
<1>14. CASE \/ ni_usb_hs_wait_for_ready \/ ni_usb_hs_plus_extra_init \/ Return \/ Call
            \/ UNCHANGED vars
  BY <1>1, <1>14 DEF ni_usb_hs_wait_for_ready, ni_usb_hs_plus_extra_init, Return, Call, vars
<1>. QED
  BY <1>2, <1>3, <1>4, <1>5, <1>6, <1>7, <1>8, <1>9, <1>10, <1>11, <1>12, <1>13, <1>14
  DEF Next, Step

-----------------------------------------------------------------------------
(* Where a call can be. *)

OpenPoints == {"ready", "extra", "init", "pad", "sad", "local", "t1", "rsc", "gtsStatus",
               "gtsGo", "gtsEnd", "return"}
CommandPoints == {"status", "cacStatus", "take", "again", "cacEnd", "chunk", "return"}
TransferPoints == {"gtsStatus", "gtsGo", "gtsEnd", "data", "return"}

WhereInv ==
    /\ pc = "idle" => call = "none"
    /\ pc \in {"ready", "extra", "init"} => call = "open"
    /\ pc \in {"cacStatus", "chunk"} => call = "ibcmd"
    /\ pc = "data" => call \in {"ibrd", "ibwrt"}
    /\ call = "open" => pc \in OpenPoints
    /\ call = "ibcmd" => pc \in CommandPoints /\ sync
    /\ call \in {"ibrd", "ibwrt"} => pc \in TransferPoints

(* What comes of a take control: zero means that an answer was received,   *)
(* and its own answer, without an error, that the adapter has control.     *)
LEMMA TakeOutcomes ==
    ASSUME NEW e \in Exchange("CAC", 0, TakeAnswers)
    PROVE  /\ e.code \in {"OK", "EIO", "ETIMEDOUT", "ENOMEM"}
           /\ e.code = "OK" => /\ Done(e) /\ ~Failed(e.a)
                               /\ behind = NoAnswer => e.a = e.own
                               /\ e.own.error = "none" => dev.cic
<1>1. CASE Refused("CAC", e)
  BY <1>1, UnsentCodes DEF Refused, Kinds
<1>2. CASE Unread("CAC", 0, TakeAnswers, e)
  <2>1. Outcome("CAC", NoAnswer, 0) = "EIO"
    BY NoAnswerType DEF Outcome, TakeControl
  <2>. QED
    BY <1>2, <2>1, UnsentCodes DEF Unread, Kinds
<1>3. CASE Taken("CAC", 0, TakeAnswers, e)
  <2>1. \A a : Outcome("CAC", a, 0) = IF Failed(a) THEN "EIO" ELSE "OK"
    BY DEF Outcome, TakeControl
  <2>2. e.own \in TakeAnswers /\ e.code = (IF Failed(e.a) THEN "EIO" ELSE "OK")
        /\ (behind = NoAnswer => e.a = e.own)
    BY <1>3, <2>1 DEF Taken
  <2>3. e.own # NoAnswer /\ (e.own.error = "none" => dev.cic)
    BY <2>2 DEF TakeAnswers, Ans, NoAnswer
  <2>. QED
    BY <2>2, <2>3 DEF Done
<1>. QED
  BY <1>1, <1>2, <1>3, ExchangeShapes

(* Every step keeps each call on its way.                                  *)
LEMMA WhereStep == WhereInv /\ [Next]_vars => WhereInv'
<1>. SUFFICES ASSUME WhereInv, [Next]_vars PROVE WhereInv'
  OBVIOUS
<1>. USE DEF WhereInv, Goto, OpenPoints, CommandPoints, TransferPoints
<1>1. CASE ni_usb_hs_wait_for_ready \/ ni_usb_hs_plus_extra_init \/ Return
  BY <1>1 DEF ni_usb_hs_wait_for_ready, ni_usb_hs_plus_extra_init, Return
<1>2. ASSUME NEW p \in {"init", "pad", "sad", "local", "t1", "ppc", "ist", "rsv", "shutdown"},
             pc = p, Goto(IF call = "open" THEN OpenNext[p] ELSE "idle")
      PROVE  WhereInv'
  BY <1>2 DEF OpenNext
<1>3. CASE RegisterWrites
  BY <1>2, <1>3 DEF RegisterWrites, WriteList, ni_usb_init, ni_usb_primary_address,
     ni_usb_secondary_address, ni_usb_return_to_local, ni_usb_t1_delay,
     ni_usb_parallel_poll_configure, ni_usb_parallel_poll_response,
     ni_usb_serial_poll_response, ni_usb_shutdown_hardware
<1>4. CASE LookAtStatus
  BY <1>4 DEF LookAtStatus
<1>5. CASE CacStatus \/ CacEnd
  BY <1>5 DEF CacStatus, CacEnd, MayCommand
<1>6. CASE TakeControlFirst \/ TakeControlAgain
  <2>1. {"OK", "EIO", "ETIMEDOUT", "ENOMEM"} \subseteq Codes
    BY DEF Codes
  <2>2. pc \in {"take", "again"} /\ pc' \in {"again", "cacEnd"} /\ UNCHANGED <<call, sync>>
    BY <1>6, <2>1, TakeOutcomes DEF TakeControlFirst, TakeControlAgain, Take, AfterTake
  <2>. QED
    BY <2>2
<1>7. CASE Chunk
  BY <1>7 DEF Chunk
<1>8. CASE StandbyStatus \/ StandbyGo \/ StandbyEnd
  BY <1>8 DEF StandbyStatus, StandbyGo, StandbyEnd, MayTransfer
<1>9. CASE ReadData \/ WriteData
  BY <1>9 DEF ReadData, WriteData
<1>10. CASE RequestSystemControl \/ InterfaceClearPulse \/ RemoteEnable
  BY <1>10 DEF RequestSystemControl, InterfaceClearPulse, RemoteEnable
<1>11. CASE Call
  BY <1>11 DEF Call, LibraryCalls, FirstOf
<1>12. CASE SetEos
  BY <1>12, EosSet
<1>13. CASE Bus \/ UNCHANGED vars
  BY <1>13 DEF Bus, vars
<1>. HIDE DEF WhereInv
<1>. QED
  BY <1>1, <1>3, <1>4, <1>5, <1>6, <1>7, <1>8, <1>9, <1>10, <1>11, <1>12, <1>13
  DEF Next, Step

-----------------------------------------------------------------------------
(* Taking control, and going to standby. *)

(* As long as the status could be read and nothing but the driver touched  *)
(* the bus, ibcmd comes to the bytes with the board in charge and ATN on.  *)
ActiveInv ==
    trouble \subseteq {"usb"} =>
       /\ pc \in {"cacStatus", "take", "again"} /\ call = "ibcmd" => dev.cic
       /\ pc = "cacEnd" /\ call = "ibcmd" /\ ret = "OK" => dev.cic /\ dev.atn
       /\ pc = "chunk" => dev.cic /\ dev.atn

(* ... and ibrd and ibwrt to the data with ATN off, when master was set.   *)
StandbyInv ==
    /\ pc = "gtsEnd" => ret \in {"OK", "USB", "ENOMEM"}
    /\ trouble \cap {"status", "bus"} = {} =>
          /\ pc = "gtsGo" => dev.cic
          /\ pc = "gtsEnd" /\ ret = "OK" => ~dev.atn
          /\ pc = "data" /\ usbNegative /\ drv.master => ~dev.atn

BusPoints == {"cacStatus", "take", "again", "cacEnd", "chunk", "gtsGo", "gtsEnd", "data"}

(* Trouble is remembered as long as the call lasts.                        *)
LEMMA Noted ==
    ASSUME NEW e, Note(e)
    PROVE  /\ trouble \subseteq trouble'
           /\ Failed(e.a) => "usb" \in trouble'
           /\ ~Failed(e.a) /\ behind # NoAnswer => "late" \in trouble'
           /\ ~Failed(e.a) /\ behind = NoAnswer /\ e.a.error # "none" => "adapter" \in trouble'
<1>1. CASE Failed(e.a)
  BY <1>1 DEF Note, Failed, NoAnswer
<1>2. CASE ~Failed(e.a) /\ behind # NoAnswer
  BY <1>2 DEF Note
<1>3. CASE ~Failed(e.a) /\ behind = NoAnswer /\ e.a.error # "none"
  BY <1>3 DEF Note
<1>4. CASE ~Failed(e.a) /\ behind = NoAnswer /\ e.a.error = "none"
  BY <1>4 DEF Note
<1>. QED
  BY <1>1, <1>2, <1>3, <1>4

(* Zero from a standby means that the adapter executed it, whosever answer *)
(* was received.                                                           *)
LEMMA StandbyOutcomes ==
    ASSUME NEW e \in Exchange("GTS", 0, {Ans("GTS", 0, "none", 0)})
    PROVE  e.code \in {"OK", "USB", "ENOMEM"} /\ (e.code = "OK" => Done(e))
<1>0. /\ Outcome("GTS", NoAnswer, 0) = "USB"
      /\ \A a : Outcome("GTS", a, 0) \in {"OK", "USB"}
  BY NoAnswerType DEF Outcome, GoToStandby, Stat
<1>1. CASE Refused("GTS", e)
  BY <1>1, UnsentCodes DEF Refused, Kinds
<1>2. CASE Unread("GTS", 0, {Ans("GTS", 0, "none", 0)}, e)
  BY <1>0, <1>2, UnsentCodes DEF Unread, Kinds
<1>3. CASE Taken("GTS", 0, {Ans("GTS", 0, "none", 0)}, e)
  <2>1. Done(e)
    BY <1>3 DEF Taken, Done, Ans, NoAnswer
  <2>. QED
    BY <1>0, <1>3, <2>1 DEF Taken
<1>. QED
  BY <1>1, <1>2, <1>3, ExchangeShapes

(* Every step keeps what the calls rely on of the bus; when the other      *)
(* controller moves, that is noted.                                        *)
LEMMA BusStep ==
    RecordTypes /\ WhereInv /\ ActiveInv /\ StandbyInv /\ [Next]_vars => ActiveInv' /\ StandbyInv'
<1>. SUFFICES ASSUME RecordTypes, WhereInv, ActiveInv, StandbyInv, [Next]_vars
              PROVE  ActiveInv' /\ StandbyInv'
  OBVIOUS
<1>. DEFINE Good == ActiveInv' /\ StandbyInv'
<1>0. pc' \notin BusPoints => Good
  BY DEF BusPoints, ActiveInv, StandbyInv
<1>1. CASE ni_usb_hs_wait_for_ready \/ ni_usb_hs_plus_extra_init \/ Return
  BY <1>0, <1>1 DEF ni_usb_hs_wait_for_ready, ni_usb_hs_plus_extra_init, Return, Goto, BusPoints
<1>2. ASSUME NEW p \in {"init", "pad", "sad", "local", "t1", "ppc", "ist", "rsv", "shutdown"},
             pc = p, Goto(IF call = "open" THEN OpenNext[p] ELSE "idle")
      PROVE  pc' \notin BusPoints
  BY <1>2 DEF OpenNext, Goto, BusPoints, WhereInv, OpenPoints
<1>3. CASE RegisterWrites
  BY <1>0, <1>2, <1>3 DEF RegisterWrites, WriteList, ni_usb_init, ni_usb_primary_address,
     ni_usb_secondary_address, ni_usb_return_to_local, ni_usb_t1_delay,
     ni_usb_parallel_poll_configure, ni_usb_parallel_poll_response,
     ni_usb_serial_poll_response, ni_usb_shutdown_hardware
<1>4. CASE LookAtStatus
  <2>1. PICK r \in StatusReads :
          /\ Leave(r.bad)
          /\ pc' \notin {"cacEnd", "chunk", "gtsGo", "gtsEnd", "data"}
          /\ pc' \in {"cacStatus", "take"} => r.word.cic
          /\ UNCHANGED <<call, dev>>
    BY <1>4 DEF LookAtStatus
  <2>2. (trouble \cup r.bad) \subseteq trouble' /\ (r.bad = {"status"} \/ (r.word.cic <=> dev.cic))
    BY <2>1, StatusWords DEF Leave
  <2>. QED
    BY <2>1, <2>2, <1>4 DEF ActiveInv, StandbyInv, LookAtStatus
<1>5. CASE CacStatus
  <2>1. PICK r \in StatusReads :
          /\ Leave(r.bad)
          /\ pc' = CASE ~r.word.cic -> "return"
                     [] r.word.cic /\ r.word.atn -> "chunk"
                     [] OTHER -> "take"
          /\ UNCHANGED <<call, dev>>
    BY <1>5 DEF CacStatus
  <2>2. /\ (trouble \cup r.bad) \subseteq trouble'
        /\ r.bad = {"status"} \/ ((r.word.cic <=> dev.cic) /\ (r.word.atn <=> dev.atn))
    BY <2>1, StatusWords DEF Leave
  <2>. QED
    BY <2>1, <2>2 DEF ActiveInv, StandbyInv
<1>6. CASE TakeControlFirst \/ TakeControlAgain
  <2>. DEFINE TookFrom(e) == /\ ret' = e.code /\ Note(e)
                             /\ dev' = [dev EXCEPT !.atn = @ \/ (Done(e) /\ dev.cic /\ e.own.error = "none")]
  <2>0. {"OK", "EIO", "ETIMEDOUT", "ENOMEM"} \subseteq Codes
    BY DEF Codes
  <2>1. /\ pc \in {"take", "again"} /\ pc' \in {"again", "cacEnd"} /\ call' = call
        /\ \/ \E e \in Exchange("CAC", 0, TakeAnswers) : TookFrom(e)
           \/ ret' = "ETIMEDOUT" /\ UNCHANGED <<dev, trouble>>
    BY <1>6, <2>0, TakeOutcomes
    DEF TakeControlFirst, TakeControlAgain, Take, AfterTake
  <2>2. CASE ret' = "ETIMEDOUT" /\ UNCHANGED <<dev, trouble>>
    BY <2>1, <2>2 DEF ActiveInv, StandbyInv
  <2>3. ASSUME NEW e \in Exchange("CAC", 0, TakeAnswers), TookFrom(e)
        PROVE  Good
    <3>1. trouble \subseteq trouble' /\ dev'.cic = dev.cic
      BY <2>3, Noted DEF RecordTypes, Devices
    <3>2. trouble' \subseteq {"usb"} /\ ret' = "OK" => dev'.atn /\ dev'.cic
      <4>1. SUFFICES ASSUME trouble' \subseteq {"usb"}, e.code = "OK" PROVE dev'.atn /\ dev'.cic
        BY <2>3
      <4>2. /\ Done(e) /\ ~Failed(e.a) /\ (e.own.error = "none" => dev.cic)
            /\ behind = NoAnswer => e.a = e.own
        BY <4>1, TakeOutcomes
      <4>3. e.own.error = "none"
        BY <2>3, <4>1, <4>2, Noted
      <4>. QED
        BY <2>3, <3>1, <4>2, <4>3 DEF RecordTypes, Devices
    <3>. QED
      BY <2>1, <3>1, <3>2 DEF ActiveInv, StandbyInv
  <2>. QED
    BY <2>1, <2>2, <2>3
<1>7. CASE CacEnd
  <2>1. PICK r \in StatusReads : Leave(r.bad)
    BY <1>7 DEF CacEnd
  <2>2. trouble \subseteq trouble' /\ UNCHANGED <<dev, ret, call>> /\ pc = "cacEnd"
        /\ (pc' = "return" \/ (pc' = "chunk" /\ call = "ibcmd" /\ ret = "OK"))
    <3>1. trouble \subseteq trouble'
      BY <2>1 DEF Leave
    <3>2. UNCHANGED <<dev, ret, call>> /\ pc = "cacEnd"
          /\ pc' = IF MayCommand THEN "chunk" ELSE "return"
      BY <1>7 DEF CacEnd
    <3>. QED
      BY <3>1, <3>2 DEF MayCommand
  <2>. QED
    BY <2>2 DEF ActiveInv, StandbyInv
<1>8. CASE Chunk
  <2>1. pc = "chunk" /\ pc' \in {"chunk", "return"} /\ dev' = dev /\ trouble \subseteq trouble'
    BY <1>8, Noted DEF Chunk
  <2>. QED
    BY <2>1 DEF ActiveInv, StandbyInv
<1>9. CASE StandbyStatus
  <2>1. PICK r \in StatusReads :
          /\ trouble' = trouble \cup r.bad
          /\ pc' \in {"gtsGo", "return"} /\ (pc' = "gtsGo" => r.word.cic)
          /\ dev' = dev
    BY <1>9 DEF StandbyStatus
  <2>2. r.bad = {"status"} \/ (r.word.cic <=> dev.cic)
    BY StatusWords
  <2>. QED
    BY <2>1, <2>2 DEF ActiveInv, StandbyInv
<1>10. CASE StandbyGo
  <2>1. PICK e \in Exchange("GTS", 0, {Ans("GTS", 0, "none", 0)}) :
          /\ dev' = [dev EXCEPT !.atn = @ /\ ~(Done(e) /\ dev.cic)]
          /\ ret' = e.code /\ Note(e)
    BY <1>10 DEF StandbyGo
  <2>2. pc = "gtsGo" /\ pc' = "gtsEnd" /\ trouble \subseteq trouble'
    BY <1>10, <2>1, Noted DEF StandbyGo
  <2>3. e.code \in {"OK", "USB", "ENOMEM"} /\ (e.code = "OK" => Done(e))
    BY StandbyOutcomes
  <2>. QED
    BY <2>1, <2>2, <2>3 DEF ActiveInv, StandbyInv, RecordTypes, Devices
<1>11. CASE StandbyEnd
  <2>1. PICK r \in StatusReads : trouble' = trouble \cup r.bad
    BY <1>11 DEF StandbyEnd
  <2>2. /\ trouble \subseteq trouble' /\ UNCHANGED <<dev, ret, usbNegative>> /\ pc = "gtsEnd"
        /\ (pc' = "return" \/ (pc' = "data" /\ ~Negative(ret)))
    <3>1. trouble \subseteq trouble'
      BY <2>1
    <3>2. UNCHANGED <<dev, ret, usbNegative>> /\ pc = "gtsEnd"
          /\ pc' = IF MayTransfer THEN "data" ELSE "return"
      BY <1>11 DEF StandbyEnd
    <3>. QED
      BY <3>1, <3>2 DEF MayTransfer
  <2>3. pc' = "data" /\ usbNegative => ret = "OK"
    BY <2>2 DEF Negative, StandbyInv
  <2>. QED
    BY <2>2, <2>3 DEF ActiveInv, StandbyInv
<1>12. CASE ReadData \/ WriteData
  <2>1. /\ pc = "data" /\ pc' \in {"data", "return"} /\ UNCHANGED <<dev, drv, usbNegative>>
        /\ trouble \subseteq trouble'
    BY <1>12, Noted DEF ReadData, WriteData
  <2>. QED
    BY <2>1 DEF ActiveInv, StandbyInv
<1>13. CASE RequestSystemControl \/ InterfaceClearPulse \/ RemoteEnable
  BY <1>0, <1>13 DEF RequestSystemControl, InterfaceClearPulse, RemoteEnable, Goto, BusPoints
<1>14. CASE Call
  <2>1. pc' \in BusPoints => pc' = "data" /\ ~drv'.master
    BY <1>14 DEF Call, LibraryCalls, FirstOf, BusPoints
  <2>. QED
    BY <1>0, <2>1 DEF ActiveInv, StandbyInv
<1>15. CASE SetEos
  BY <1>0, <1>15 DEF SetEos, BusPoints
<1>16. CASE Bus
  <2>1. pc = "idle" \/ "bus" \in trouble'
    BY <1>16 DEF Bus
  <2>2. UNCHANGED <<pc, ret>>
    BY <1>16 DEF Bus
  <2>. QED
    BY <2>1, <2>2 DEF ActiveInv, StandbyInv
<1>17. CASE UNCHANGED vars
  BY <1>17 DEF vars, ActiveInv, StandbyInv
<1>. HIDE DEF Good
<1>. QED
  BY <1>1, <1>3, <1>4, <1>5, <1>6, <1>7, <1>8, <1>9, <1>10, <1>11, <1>12, <1>13, <1>14, <1>15,
     <1>16, <1>17
  DEF Next, Step, Good

-----------------------------------------------------------------------------
(* What is counted. *)

(* A chunk is counted when an answer was received; when no other answer    *)
(* was left to be received, as what the adapter put out.                   *)
LEMMA ChunkOutcomes ==
    ASSUME behind \in Answers, NEW length \in Nat \ {0},
           NEW e \in Exchange("CMD", length, CommandAnswers(ChunkLen(length)))
    PROVE  /\ Failed(e.a) => e.code \in {"USB", "ENOMEM"}
           /\ ~Failed(e.a) => /\ e.code \in {"OK", "EIO"}
                              /\ CommandChunk(e.a, length).count \in Int
           /\ Done(e) => e.own.left \in 0 .. ChunkLen(length)
           /\ ~Failed(e.a) /\ behind = NoAnswer =>
                Done(e) /\ CommandChunk(e.a, length).count = ChunkLen(length) - e.own.left
<1>. DEFINE n == ChunkLen(length)
<1>0. n \in Nat \ {0}
  BY DEF ChunkLen
<1>1. ASSUME NEW a \in CommandAnswers(n)
      PROVE  a \in Answers /\ a.len = 12 /\ a.left \in 0 .. n /\ a # NoAnswer
  <2>. HIDE DEF n
  <2>1. a \in Answers
    BY <1>0, <1>1, ChunkAnswerTypes
  <2>2. n - 1 \in 0 .. n /\ n \in 0 .. n /\ 0 \in 0 .. n
    BY <1>0
  <2>3. a.len = 12 /\ a.left \in 0 .. n
    BY <1>1, <2>2 DEF CommandAnswers, Ans, AnswerLen
  <2>. QED
    BY <2>1, <2>3 DEF NoAnswer
<1>2. ASSUME NEW a \in Answers
      PROVE  /\ Failed(a) => Outcome("CMD", a, length) = "USB"
             /\ ~Failed(a) => Outcome("CMD", a, length) \in {"OK", "EIO"}
             /\ CommandChunk(a, length).count \in Int
             /\ a.len = 12 => CommandChunk(a, length).count = n - a.left
  <2>1. n \in Int /\ a.left \in Int
    BY <1>0, <1>2 DEF Answers
  <2>2. Failed(a) => a.len # 12
    BY DEF Failed, NoAnswer
  <2>. HIDE DEF n
  <2>3. CASE a.len = 12
    BY <2>1, <2>2, <2>3 DEF Outcome, CommandChunk, n
  <2>4. CASE a.len # 12
    BY <2>4 DEF Outcome, CommandChunk, Stat
  <2>. QED
    BY <2>3, <2>4
<1>3. CommandAnswers(n) \in SUBSET Answers
  BY <1>1
<1>. HIDE DEF n
<1>4. e.a \in Answers
  BY <1>3, ExchangeTypes DEF n
<1>5. Refused("CMD", e) \/ Unread("CMD", length, CommandAnswers(n), e)
      \/ Taken("CMD", length, CommandAnswers(n), e)
  BY ExchangeShapes DEF n
<1>6. Done(e) => e.own.left \in 0 .. n
  BY <1>1, <1>5 DEF Refused, Unread, Taken, Done
<1>7. CASE Refused("CMD", e) \/ Unread("CMD", length, CommandAnswers(n), e)
  <2>1. Failed(e.a)
    BY <1>7, NoAnswerType DEF Refused, Unread
  <2>2. e.code \in Unsent("CMD", FALSE) \/ e.code \in Unsent("CMD", TRUE) \/ e.code = "USB"
    BY <1>2, <1>7, NoAnswerType DEF Refused, Unread
  <2>3. e.code \in {"USB", "ENOMEM"}
    BY <2>2, UnsentCodes DEF Kinds
  <2>. QED
    BY <1>6, <2>1, <2>3 DEF n
<1>8. CASE Taken("CMD", length, CommandAnswers(n), e)
  <2>1. e.own \in CommandAnswers(n) /\ e.code = Outcome("CMD", e.a, length)
        /\ (behind = NoAnswer => e.a = e.own)
    BY <1>8 DEF Taken
  <2>2. Done(e) /\ e.own.len = 12
    BY <1>1, <2>1 DEF Done
  <2>. QED
    BY <1>2, <1>4, <1>6, <2>1, <2>2 DEF n
<1>. QED
  BY <1>5, <1>7, <1>8

(* What a read hands over is a number, below zero only for an answer to an *)
(* earlier read.                                                           *)
LEMMA ReadCounts ==
    ASSUME behind \in Answers, NEW length \in Nat,
           NEW e \in Exchange("RD", length, ReadAnswers(length))
    PROVE  e.a \in Answers /\ Read(e.a).count \in Int
<1>1. e.a \in Answers
  BY ReadAnswerTypes, ExchangeTypes
<1>2. e.a.n \in Int /\ e.a.left \in Int
  BY <1>1 DEF Answers
<1>. QED
  BY <1>1, <1>2 DEF Read

(* The bytes of a command that were put out are counted as long as every   *)
(* answer was that of its exchange and every exchange was answered, or     *)
(* failures are negative and end the loop.                                 *)
CountsInv ==
    /\ LeftToDo
    /\ count \in Int /\ sent \in Nat
    /\ pc \notin {"ready", "chunk", "data", "return"} => count = 0
    /\ pc \notin {"chunk", "return"} => sent = 0
    /\ pc # "return" => "unset" \notin trouble
    /\ pc = "chunk" /\ "late" \notin trouble =>
          (usbNegative \/ "usb" \notin trouble => count = sent)
    /\ call = "ibcmd" /\ pc = "return" /\ "late" \notin trouble =>
          IF "unset" \in trouble THEN sent = 0 /\ ret # "OK"
          ELSE /\ usbNegative => count <= sent /\ sent <= CmdLength
               /\ "usb" \notin trouble => count = sent
               /\ ret = "OK" => count = CmdLength

(* One chunk of a command, and the way the loop goes on.                   *)
LEMMA ChunkStep ==
    ASSUME RecordTypes, WhereInv, CountsInv, Chunk
    PROVE  CountsInv'
<1>. DEFINE length == CmdLength - count
            n == ChunkLen(length)
            Put(e) == IF Failed(e.a) THEN 0 ELSE CommandChunk(e.a, length).count
            Out(e) == IF Done(e) THEN n - e.own.left ELSE 0
<1>1. PICK e \in Exchange("CMD", length, CommandAnswers(n)) :
        /\ count' = count + Put(e)
        /\ sent' = Counted(sent + Out(e))
        /\ pc' = IF CommandGoesOn(e.code, count + Put(e)) THEN "chunk" ELSE "return"
        /\ ret' = IF Negative(e.code) THEN e.code ELSE "OK"
        /\ Note(e)
  BY DEF Chunk
<1>2. /\ pc = "chunk" /\ call = "ibcmd" /\ UNCHANGED <<call, usbNegative>>
      /\ count \in 0 .. CmdLength - 1 /\ sent \in Nat /\ CmdLength \in Nat
      /\ "late" \notin trouble /\ (usbNegative \/ "usb" \notin trouble) => count = sent
      /\ "unset" \notin trouble
  BY LengthAssumption DEF Chunk, WhereInv, CountsInv, LeftToDo
<1>3. length \in Nat \ {0} /\ n \in 0 .. length
  BY <1>2 DEF ChunkLen
<1>4. /\ Failed(e.a) => e.code \in {"USB", "ENOMEM"} /\ Put(e) = 0
      /\ ~Failed(e.a) => e.code \in {"OK", "EIO"}
      /\ Put(e) \in Int /\ Out(e) \in 0 .. n
      /\ ~Failed(e.a) /\ behind = NoAnswer => Put(e) = Out(e)
  <2>. HIDE DEF length
  <2>1. behind \in Answers
    BY DEF RecordTypes
  <2>2. /\ Failed(e.a) => e.code \in {"USB", "ENOMEM"}
        /\ ~Failed(e.a) => /\ e.code \in {"OK", "EIO"}
                           /\ CommandChunk(e.a, length).count \in Int
        /\ Done(e) => e.own.left \in 0 .. n
        /\ ~Failed(e.a) /\ behind = NoAnswer =>
             Done(e) /\ CommandChunk(e.a, length).count = n - e.own.left
    BY <1>3, <2>1, ChunkOutcomes
  <2>. QED
    BY <1>3, <2>2
<1>5. /\ trouble \subseteq trouble'
      /\ Failed(e.a) => "usb" \in trouble'
      /\ ~Failed(e.a) /\ behind # NoAnswer => "late" \in trouble'
      /\ "unset" \notin trouble'
  BY <1>1, <1>2, Noted DEF Note
<1>. DEFINE put == Put(e)
            out == Out(e)
<1>6. /\ count' = count + put /\ sent' = Counted(sent + out)
      /\ put \in Int /\ out \in 0 .. n
      /\ "late" \notin trouble' => put \in 0 .. out /\ (~Failed(e.a) => put = out)
  BY <1>1, <1>3, <1>4, <1>5
<1>7. sent' \in Nat /\ (sent + out <= CmdLength => sent' = sent + out)
  <2>1. ChunkLen(CmdLength) \in Nat
    BY <1>2 DEF ChunkLen
  <2>. HIDE DEF out, n
  <2>2. out \in Nat
    BY <1>3, <1>6
  <2>. QED
    BY <1>2, <1>6, <2>1, <2>2 DEF Counted, MaxSent
<1>8. count + n <= CmdLength /\ n \in Nat /\ count \in Nat
  BY <1>2, <1>3
<1>9. /\ pc' = "chunk" => ~Negative(e.code) /\ count' \in 0 .. CmdLength - 1
      /\ pc' = "return" => Negative(e.code) \/ count' \notin 0 .. CmdLength - 1
      /\ pc' \in {"chunk", "return"}
      /\ ret' = "OK" => ~Negative(e.code)
  <2>1. ret' = "OK" => ~Negative(e.code)
    BY <1>1 DEF Negative
  <2>. QED
    BY <1>1, <2>1 DEF CommandGoesOn
<1>10. usbNegative /\ Failed(e.a) => pc' = "return" /\ ret' # "OK"
  BY <1>4, <1>9 DEF Negative
<1>. HIDE DEF put, out, n, length, Put, Out
<1>11. /\ LeftToDo' /\ count' \in Int /\ sent' \in Nat /\ pc' \in {"chunk", "return"}
       /\ "unset" \notin trouble' /\ call' = "ibcmd" /\ usbNegative' = usbNegative
  BY <1>2, <1>5, <1>6, <1>7, <1>9 DEF LeftToDo
<1>12. CASE "late" \in trouble'
  BY <1>11, <1>12 DEF CountsInv
<1>13. CASE "late" \notin trouble'
  <2>1. put \in 0 .. out /\ (~Failed(e.a) => put = out) /\ "late" \notin trouble
    BY <1>5, <1>6, <1>13
  <2>2. count' \in Nat /\ count' <= CmdLength
    BY <1>2, <1>6, <1>8, <2>1
  <2>3. ret' = "OK" /\ pc' = "return" => count' = CmdLength
    BY <1>2, <1>9, <2>2
  <2>4. CASE usbNegative \/ "usb" \notin trouble'
    <3>1. count = sent /\ sent' = sent + out
      BY <1>2, <1>5, <1>6, <1>7, <1>8, <2>1, <2>4
    <3>2. ~Failed(e.a) => count' = sent'
      BY <1>6, <2>1, <3>1
    <3>3. count' <= sent' /\ sent' <= CmdLength
      BY <1>2, <1>6, <1>8, <2>1, <3>1
    <3>. QED
      BY <1>5, <1>10, <1>11, <2>3, <3>2, <3>3 DEF CountsInv
  <2>5. CASE ~usbNegative /\ "usb" \in trouble'
    BY <1>11, <2>3, <2>5 DEF CountsInv
  <2>. QED
    BY <2>4, <2>5
<1>. QED
  BY <1>12, <1>13

(* One read of ibrd.                                                       *)
LEMMA ReadStep ==
    ASSUME RecordTypes, CountsInv, ReadData
    PROVE  CountsInv'
<1>. DEFINE length == DataLength - count
<1>1. /\ pc = "data" /\ UNCHANGED <<call, sent>> /\ call = "ibrd" /\ "unset" \notin trouble
      /\ count \in 0 .. DataLength - 1 /\ sent = 0 /\ DataLength \in Nat
  BY LengthAssumption DEF ReadData, CountsInv, LeftToDo
<1>2. PICK e \in Exchange("RD", length, ReadAnswers(length)) :
        LET n == count + Read(e.a).count IN
        /\ count' = n
        /\ pc' = IF ReadGoesOn(e.code, n, e.a) THEN "data" ELSE "return"
        /\ trouble' = trouble \cup {"stop"} \/ Note(e)
  BY DEF ReadData
<1>3. Read(e.a).count \in Int
  <2>1. length \in Nat /\ behind \in Answers
    BY <1>1 DEF RecordTypes
  <2>. HIDE DEF length
  <2>. QED
    BY <2>1, ReadCounts
<1>4. "unset" \notin trouble'
  BY <1>1, <1>2 DEF Note
<1>. HIDE DEF length
<1>5. /\ count' \in Int /\ pc' \in {"data", "return"}
      /\ pc' = "data" => count' \in 0 .. DataLength - 1
  BY <1>1, <1>2, <1>3 DEF ReadGoesOn
<1>. QED
  BY <1>1, <1>4, <1>5 DEF CountsInv, LeftToDo

(* Every step keeps what is counted.                                       *)
LEMMA CountsStep == RecordTypes /\ WhereInv /\ CountsInv /\ [Next]_vars => CountsInv'
<1>. SUFFICES ASSUME RecordTypes, WhereInv, CountsInv, [Next]_vars PROVE CountsInv'
  OBVIOUS
<1>0. CmdLength \in Nat \ {0} /\ DataLength \in Nat \ {0}
  BY LengthAssumption
<1>. DEFINE Still == {"ready", "chunk", "data", "return"}
<1>1. ASSUME UNCHANGED <<count, sent>>, pc \notin Still, pc' # "return",
             trouble' = trouble \/ trouble' = {} \/ \E e : Note(e)
                \/ \E r \in StatusReads : trouble' = trouble \cup r.bad
      PROVE  CountsInv'
  <2>1. count' = 0 /\ sent' = 0 /\ "unset" \notin trouble'
    BY <1>1 DEF CountsInv, Note, StatusReads
  <2>. QED
    BY <1>0, <1>1, <2>1 DEF CountsInv, LeftToDo
<1>1a. ASSUME UNCHANGED <<sent, call>>, pc \notin Still, pc' = "return",
              count' \in Int, "unset" \notin trouble' => count' = count,
              call = "ibcmd" => ret' # "OK"
       PROVE  CountsInv'
  BY <1>0, <1>1a DEF CountsInv, LeftToDo
<1>2. CASE ni_usb_hs_wait_for_ready
  <2>1. /\ pc = "ready" /\ pc' \in {"ready", "extra"} /\ (pc' = "extra" => count' = 0)
        /\ count' = 0 \/ count' = count + 1
        /\ UNCHANGED <<sent, trouble>>
    BY <1>2 DEF ni_usb_hs_wait_for_ready, Goto
  <2>2. count \in Int
    BY DEF CountsInv
  <2>. QED
    BY <2>1, <2>2 DEF CountsInv, LeftToDo
<1>3. CASE ni_usb_hs_plus_extra_init \/ RegisterWrites \/ RequestSystemControl
           \/ InterfaceClearPulse \/ RemoteEnable
  <2>1. /\ UNCHANGED <<count, sent>> /\ pc \notin Still
        /\ \E p \in {"init", "pad", "sad", "local", "t1", "rsc", "idle", "gtsStatus"} : Goto(p)
    <3>1. ASSUME NEW p \in {"init", "pad", "sad", "local", "t1", "ppc", "ist", "rsv",
                            "shutdown"},
                 pc = p, Goto(IF call = "open" THEN OpenNext[p] ELSE "idle")
          PROVE  \E q \in {"pad", "sad", "local", "t1", "rsc", "idle"} : Goto(q)
      <4>1. call = "open" => p \in {"init", "pad", "sad", "local", "t1"}
        BY <3>1 DEF WhereInv, OpenPoints
      <4>. QED
        BY <3>1, <4>1 DEF OpenNext
    <3>. QED
      BY <1>3, <3>1 DEF RegisterWrites, WriteList, ni_usb_init, ni_usb_primary_address,
         ni_usb_secondary_address, ni_usb_return_to_local, ni_usb_t1_delay,
         ni_usb_parallel_poll_configure, ni_usb_parallel_poll_response,
         ni_usb_serial_poll_response, ni_usb_shutdown_hardware, ni_usb_hs_plus_extra_init,
         RequestSystemControl, InterfaceClearPulse, RemoteEnable
  <2>2. pc' # "return" /\ (trouble' = trouble \/ trouble' = {})
    BY <2>1 DEF Goto
  <2>. QED
    BY <1>1, <2>1, <2>2
<1>4. CASE Return
  BY <1>0, <1>4 DEF Return, Goto, CountsInv, LeftToDo
<1>5. CASE LookAtStatus \/ CacStatus \/ CacEnd
  <2>1. /\ UNCHANGED <<sent, call>> /\ pc \in {"status", "cacStatus", "cacEnd"}
        /\ pc' \in {"rsv", "cacStatus", "take", "return", "chunk"}
        /\ \E r \in StatusReads : Leave(r.bad)
        /\ pc' = "return" /\ call = "ibcmd" => ret' # "OK"
    <3>1. CASE LookAtStatus
      <4>1. PICK r \in StatusReads :
              /\ pc' = CASE call = "ibrsv" /\ ~r.word.cic -> "rsv"
                         [] call = "ibcmd" /\ r.word.cic -> "cacStatus"
                         [] call \notin {"ibrsv", "ibcmd"} /\ r.word.cic /\ ~r.word.atn -> "take"
                         [] OTHER -> "return"
              /\ ret' = IF r.word.cic = (call = "ibrsv") THEN "EIO" ELSE "OK"
              /\ Leave(r.bad)
        BY <3>1 DEF LookAtStatus
      <4>2. pc' = "return" /\ call = "ibcmd" => ~r.word.cic
        BY <4>1
      <4>3. r.word.cic \in BOOLEAN
        BY StatusWords DEF Status
      <4>4. pc' = "return" /\ call = "ibcmd" => ret' = "EIO"
        BY <4>1, <4>2, <4>3
      <4>. QED
        BY <3>1, <4>1, <4>4 DEF LookAtStatus
    <3>2. CASE CacStatus \/ CacEnd
      BY <3>2 DEF CacStatus, CacEnd, MayCommand
    <3>. QED
      BY <1>5, <3>1, <3>2
  <2>2. CASE pc' # "return"
    <3>1. count' = count /\ \E r \in StatusReads : trouble' = trouble \cup r.bad
      BY <2>1, <2>2 DEF Leave
    <3>2. pc' = "chunk" => call' = "ibcmd"
      BY <1>5, <2>1 DEF LookAtStatus, CacStatus, CacEnd, MayCommand, WhereInv
    <3>. QED
      BY <1>1, <2>1, <2>2, <3>1
  <2>3. CASE pc' = "return"
    <3>1. count' \in Int /\ ("unset" \notin trouble' => count' = count)
      BY <1>0, <2>1 DEF Leave, Unset, CountsInv
    <3>. QED
      BY <1>1a, <2>1, <2>3, <3>1
  <2>. QED
    BY <2>2, <2>3
<1>6. CASE StandbyStatus \/ StandbyGo \/ StandbyEnd
  <2>1. /\ UNCHANGED <<count, sent, call>> /\ pc \notin Still
        /\ (\E e : Note(e)) \/ (\E r \in StatusReads : trouble' = trouble \cup r.bad)
        /\ call = "ibcmd" => pc' # "return"
    BY <1>6 DEF StandbyStatus, StandbyGo, StandbyEnd, WhereInv, CommandPoints
  <2>2. CASE pc' = "return"
    BY <1>1a, <2>1, <2>2 DEF CountsInv
  <2>. QED
    BY <1>1, <2>1, <2>2
<1>7. CASE TakeControlFirst \/ TakeControlAgain
  <2>1. {"OK", "EIO", "ETIMEDOUT", "ENOMEM"} \subseteq Codes
    BY DEF Codes
  <2>2. /\ UNCHANGED <<count, sent>> /\ pc \notin Still /\ pc' \in {"again", "cacEnd"}
        /\ trouble' = trouble \/ \E e : Note(e)
    BY <1>7, <2>1, TakeOutcomes DEF TakeControlFirst, TakeControlAgain, Take, AfterTake
  <2>. QED
    BY <1>1, <2>2
<1>8. CASE Chunk
  BY <1>8, ChunkStep
<1>9. CASE ReadData
  BY <1>9, ReadStep
<1>10. CASE WriteData
  <2>1. pc = "data" /\ pc' = "return" /\ UNCHANGED <<call, count, sent>>
    BY <1>10 DEF WriteData
  <2>. QED
    BY <1>0, <2>1 DEF CountsInv, LeftToDo, WhereInv
<1>11. CASE Call
  <2>1. pc = "idle" /\ UNCHANGED <<count, sent, trouble>> /\ pc' # "return"
    BY <1>11 DEF Call, FirstOf, LibraryCalls
  <2>. QED
    BY <1>1, <2>1
<1>12. CASE SetEos
  BY <1>12, EosSet DEF CountsInv, LeftToDo
<1>13. CASE Bus
  <2>1. UNCHANGED <<pc, call, count, sent, ret, usbNegative>>
        /\ trouble' \in {trouble, trouble \cup {"bus"}}
    BY <1>13 DEF Bus
  <2>. QED
    BY <2>1 DEF CountsInv, LeftToDo
<1>14. CASE UNCHANGED vars
  BY <1>14 DEF vars, CountsInv, LeftToDo
<1>. QED
  BY <1>2, <1>3, <1>4, <1>5, <1>6, <1>7, <1>8, <1>9, <1>10, <1>11, <1>12, <1>13, <1>14
  DEF Next, Step

-----------------------------------------------------------------------------
(* The theorems. *)

ControlInv == RecordTypes /\ WhereInv /\ ActiveInv /\ StandbyInv /\ CountsInv

(* At first nothing is under way and nothing counted.                      *)
LEMMA ControlInit == Init => ControlInv
<1>. SUFFICES ASSUME Init PROVE ControlInv
  OBVIOUS
<1>1. RecordTypes
  BY NoAnswerType, SignsAssumption DEF Init, RecordTypes, Status, Drivers, Devices
<1>2. WhereInv /\ ActiveInv /\ StandbyInv
  BY DEF Init, WhereInv, OpenPoints, ActiveInv, StandbyInv
<1>3. CountsInv
  BY DEF Init, CountsInv, LeftToDo
<1>. QED
  BY <1>1, <1>2, <1>3 DEF ControlInv

(* The inductive invariant of the sequences of exchanges.                  *)
THEOREM ControlInvariant == Spec => []ControlInv
<1>1. ControlInv /\ [Next]_vars => ControlInv'
  BY RecordStep, WhereStep, BusStep, CountsStep DEF ControlInv, CountsInv
<1>. QED
  BY <1>1, ControlInit, PTL DEF Spec

(* A command byte goes out only while the board is the active controller,  *)
(* even when exchanges fail.                                               *)
THEOREM CommandsGoOutActive == Spec => CommandsWhileActive
<1>1. ControlInv => [pc = "chunk" /\ trouble \subseteq {"usb"} => dev.cic /\ dev.atn]_vars
  BY DEF ControlInv, ActiveInv
<1>. QED
  BY <1>1, ControlInvariant, PTL DEF CommandsWhileActive

(* A system controller's data goes out only in standby, if the failures of *)
(* the USB stack are negative.                                             *)
THEOREM DataGoesOutInStandby == Spec => DataInStandby
<1>1. ControlInv => [pc = "data" /\ drv.master /\ usbNegative
                       /\ trouble \cap {"status", "bus"} = {} => ~dev.atn]_vars
  BY DEF ControlInv, StandbyInv
<1>. QED
  BY <1>1, ControlInvariant, PTL DEF DataInStandby

(* Unless an answer of an earlier exchange is taken for a chunk's, ibcmd   *)
(* puts no byte out twice and reports none it did not put out, and when it *)
(* returns 0 it reports them all.                                          *)
THEOREM CommandsCountedOnce == Spec => []CommandBytesOnce
<1>1. ControlInv => CommandBytesOnce
  <2>. SUFFICES ASSUME ControlInv, call = "ibcmd", "late" \notin trouble
                PROVE  IF "unset" \in trouble THEN sent = 0 /\ ret # "OK"
                       ELSE /\ usbNegative => count <= sent /\ sent <= CmdLength
                            /\ "usb" \notin trouble => count = sent
                            /\ pc = "return" /\ ret = "OK" => count = CmdLength
    BY DEF CommandBytesOnce
  <2>1. pc \in CommandPoints /\ count \in Int /\ sent \in Nat /\ CmdLength \in Nat
    BY LengthAssumption DEF ControlInv, WhereInv, CountsInv
  <2>2. CASE pc = "return"
    BY <2>2 DEF ControlInv, CountsInv
  <2>3. CASE pc = "chunk"
    BY <2>1, <2>3 DEF ControlInv, CountsInv, LeftToDo
  <2>4. CASE pc \notin {"chunk", "return"}
    BY <2>1, <2>4 DEF ControlInv, CountsInv, CommandPoints
  <2>. QED
    BY <2>2, <2>3, <2>4
<1>. QED
  BY <1>1, ControlInvariant, PTL

(* No transfer is asked to move nothing: every chunk of a command and      *)
(* every read has bytes left.                                              *)
TransfersMoveBytes ==
    /\ pc = "chunk" => count < CmdLength
    /\ pc = "data" => count < DataLength

(* The loops of ibcmd and of the transfers ask for no empty exchange.      *)
THEOREM NoEmptyTransfer == Spec => []TransfersMoveBytes
<1>1. ControlInv => TransfersMoveBytes
  BY LengthAssumption DEF ControlInv, CountsInv, LeftToDo, TransfersMoveBytes
<1>. QED
  BY <1>1, ControlInvariant, PTL

(* No sequence of ibeos calls leaves bits that the adapter refuses.        *)
THEOREM EosModeAccepted == Spec => []NoEosModeError
<1>1. Init => EosAccepted
  BY DEF Init, EosAccepted
<1>2. ControlInv /\ EosAccepted /\ [Next]_vars => EosAccepted'
  <2>. SUFFICES ASSUME ControlInv, EosAccepted, [Next]_vars PROVE EosAccepted'
    OBVIOUS
  <2>0. RecordTypes
    BY DEF ControlInv
  <2>1. CASE UNCHANGED drv
    BY <2>1 DEF EosAccepted
  <2>2. CASE SetEos
    BY <2>0, <2>2, EosSet, EosSteps DEF EosAccepted
  <2>3. CASE LookAtStatus \/ CacStatus \/ CacEnd \/ StandbyEnd
    BY <2>0, <2>3, StatusNoted DEF LookAtStatus, CacStatus, CacEnd, StandbyEnd, EosAccepted
  <2>4. CASE StandbyStatus
    BY <2>0, <2>4 DEF StandbyStatus, RecordTypes, Drivers, EosAccepted
  <2>5. CASE RequestSystemControl
    BY <2>0, <2>5 DEF RequestSystemControl, RecordTypes, Drivers, EosAccepted
  <2>6. CASE ni_usb_secondary_address
    <3>1. drv' \in {drv, [drv EXCEPT !.eos = {"REOS"}, !.char = 10]}
      BY <2>6 DEF ni_usb_secondary_address
    <3>. QED
      BY <2>0, <3>1 DEF RecordTypes, Drivers, EosAccepted
  <2>7. UNCHANGED drv \/ SetEos \/ LookAtStatus \/ CacStatus \/ CacEnd \/ StandbyEnd
        \/ StandbyStatus \/ RequestSystemControl \/ ni_usb_secondary_address
    BY DEF Next, Step, RegisterWrites, ni_usb_init, ni_usb_primary_address,
       ni_usb_return_to_local, ni_usb_t1_delay, ni_usb_parallel_poll_configure,
       ni_usb_parallel_poll_response, ni_usb_serial_poll_response,
       ni_usb_shutdown_hardware, ni_usb_hs_wait_for_ready, ni_usb_hs_plus_extra_init, Return,
       TakeControlFirst, TakeControlAgain, Take, Chunk, StandbyGo, ReadData, WriteData,
       InterfaceClearPulse, RemoteEnable, Call, Bus, vars
  <2>. QED
    BY <2>1, <2>2, <2>3, <2>4, <2>5, <2>6, <2>7
<1>3. EosAccepted => NoEosModeError
  BY DEF NoEosModeError
<1>. QED
  BY <1>1, <1>2, <1>3, ControlInvariant, PTL DEF Spec

-----------------------------------------------------------------------------
(* Type correctness. *)

Troubles == {"usb", "adapter", "late", "status", "stop", "bus", "unset"}

(* The place in a call, its code, and what has gone wrong.                 *)
PlaceInv ==
    /\ pc \in Points /\ call \in LibraryCalls \cup {"open", "none"}
    /\ sync \in BOOLEAN /\ ret \in Codes
    /\ trouble \subseteq Troubles

(* Trouble noted is of the kinds there are.                                *)
LEMMA NotedTrouble ==
    ASSUME NEW e, Note(e), trouble \subseteq Troubles
    PROVE  trouble' \subseteq Troubles
BY DEF Note, Troubles

(* Going on stays in the call, or ends it.                                 *)
LEMMA GotoPlace ==
    ASSUME PlaceInv, NEW p \in Points, Goto(p)
    PROVE  PlaceInv'
BY DEF PlaceInv, Goto, Codes

(* What an exchange comes to is one of the codes, if what it makes of      *)
(* every answer is.                                                        *)
LEMMA ExchangeCodes ==
    ASSUME behind \in Answers, NEW kind \in Kinds \ {"SIC"}, NEW n,
           NEW answers \in SUBSET Answers,
           \A a \in Answers : Outcome(kind, a, n) \in Codes,
           NEW e \in Exchange(kind, n, answers)
    PROVE  e.code \in Codes
<1>1. \A out : \A code \in Unsent(kind, out) : code \in Codes
  BY UnsentCodes DEF Codes
<1>2. e.a \in Answers
  BY ExchangeTypes
<1>3. Refused(kind, e) \/ Unread(kind, n, answers, e) \/ Taken(kind, n, answers, e)
  BY ExchangeShapes
<1>. QED
  BY <1>1, <1>2, <1>3, NoAnswerType DEF Refused, Unread, Taken

(* A code of ni_usb_read, for any answer.                                  *)
LEMMA ReadCodes == \A a \in Answers : \A n : Outcome("RD", a, n) \in Codes
<1>. SUFFICES ASSUME NEW a \in Answers PROVE Read(a).code \in Codes
  BY DEF Outcome
<1>1. a.error \in Errors
  BY DEF Answers
<1>. QED
  BY <1>1 DEF Read, ReadCode, Codes, Errors

(* A code of ni_usb_write, for any answer.                                 *)
LEMMA WriteCodes == \A a \in Answers : \A n : Outcome("WRT", a, n) \in Codes
<1>. SUFFICES ASSUME NEW a \in Answers, NEW n PROVE Write(a, n).code \in Codes
  BY DEF Outcome
<1>1. a.error \in Errors
  BY DEF Answers
<1>. QED
  BY <1>1 DEF Write, WriteCode, Stat, Codes, Errors

(* A chunk stores a code of the stack or of ni_usb_command.                *)
LEMMA ChunkPlace == RecordTypes /\ PlaceInv /\ CountsInv /\ Chunk => PlaceInv'
<1>. SUFFICES ASSUME RecordTypes, PlaceInv, CountsInv, Chunk PROVE PlaceInv'
  OBVIOUS
<1>. DEFINE length == CmdLength - count
            n == ChunkLen(length)
<1>1. PICK e \in Exchange("CMD", length, CommandAnswers(n)) :
        /\ pc' \in {"chunk", "return"} /\ UNCHANGED <<call, sync>>
        /\ ret' = IF Negative(e.code) THEN e.code ELSE "OK"
        /\ Note(e)
  BY DEF Chunk
<1>2. length \in Nat \ {0}
  BY LengthAssumption DEF Chunk, CountsInv, LeftToDo
<1>. HIDE DEF length
<1>3. e.code \in {"USB", "OK", "EIO", "ENOMEM"}
  BY <1>2, ChunkOutcomes DEF RecordTypes
<1>4. trouble' \subseteq Troubles
  BY <1>1, NotedTrouble DEF PlaceInv
<1>. QED
  BY <1>1, <1>3, <1>4 DEF PlaceInv, Points, Codes

(* A read and a write store theirs.                                        *)
LEMMA DataPlace == RecordTypes /\ PlaceInv /\ LeftToDo /\ (ReadData \/ WriteData) => PlaceInv'
<1>. SUFFICES ASSUME RecordTypes, PlaceInv, LeftToDo, ReadData \/ WriteData PROVE PlaceInv'
  OBVIOUS
<1>0. behind \in Answers
  BY DEF RecordTypes
<1>1. CASE ReadData
  <2>. DEFINE n == DataLength - count
  <2>1. PICK e \in Exchange("RD", n, ReadAnswers(n)) :
          /\ ret' = e.code /\ pc' \in {"data", "return"} /\ UNCHANGED <<call, sync>>
          /\ trouble' = trouble \cup {"stop"} \/ Note(e)
    BY <1>1 DEF ReadData
  <2>2. trouble' \subseteq Troubles
    BY <2>1, NotedTrouble DEF PlaceInv, Troubles
  <2>3. n \in Nat
    BY <1>1, LengthAssumption DEF ReadData, LeftToDo
  <2>. HIDE DEF n
  <2>4. e.code \in Codes
    BY <1>0, <2>1, <2>3, ReadAnswerTypes, ReadCodes, ExchangeCodes DEF Kinds
  <2>. QED
    BY <2>1, <2>2, <2>4 DEF PlaceInv, Points
<1>2. CASE WriteData
  <2>1. PICK e \in Exchange("WRT", DataLength, WriteAnswers) :
          ret' = e.code /\ pc' = "return" /\ UNCHANGED <<call, sync>> /\ Note(e)
    BY <1>2 DEF WriteData, WriteAnswers
  <2>2. trouble' \subseteq Troubles
    BY <2>1, NotedTrouble DEF PlaceInv
  <2>3. e.code \in Codes
    BY <1>0, <2>1, WriteAnswerTypes, WriteCodes, ExchangeCodes DEF Kinds
  <2>. QED
    BY <2>1, <2>2, <2>3 DEF PlaceInv, Points
<1>. QED
  BY <1>1, <1>2

(* Every step of a call is to a place there is, with a code there is.      *)
LEMMA PlaceStep == RecordTypes /\ PlaceInv /\ WhereInv /\ CountsInv /\ [Next]_vars => PlaceInv'
<1>. SUFFICES ASSUME RecordTypes, PlaceInv, WhereInv, CountsInv, [Next]_vars PROVE PlaceInv'
  OBVIOUS
<1>p. \A e : Note(e) => trouble' \subseteq Troubles
  BY NotedTrouble DEF PlaceInv
<1>r. \A r \in StatusReads : r.bad \subseteq Troubles
  BY DEF StatusReads, Troubles
<1>1. CASE ni_usb_hs_wait_for_ready \/ ni_usb_hs_plus_extra_init \/ Return
           \/ RequestSystemControl \/ InterfaceClearPulse \/ RemoteEnable
  <2>1. \E p \in {"extra", "ready", "init", "idle", "gtsStatus"} : Goto(p)
    BY <1>1 DEF ni_usb_hs_wait_for_ready, ni_usb_hs_plus_extra_init, Return,
       RequestSystemControl, InterfaceClearPulse, RemoteEnable
  <2>. QED
    BY <2>1, GotoPlace DEF Points
<1>2. CASE RegisterWrites
  <2>1. ASSUME NEW p \in {"init", "pad", "sad", "local", "t1", "ppc", "ist", "rsv",
                          "shutdown"},
               pc = p, Goto(IF call = "open" THEN OpenNext[p] ELSE "idle")
        PROVE  PlaceInv'
    <3>1. call = "open" => p \in {"init", "pad", "sad", "local", "t1"}
      BY <2>1 DEF WhereInv, OpenPoints
    <3>2. \E q \in {"pad", "sad", "local", "t1", "rsc", "idle"} : Goto(q)
      BY <2>1, <3>1 DEF OpenNext
    <3>. QED
      BY <3>2, GotoPlace DEF Points
  <2>. QED
    BY <1>2, <2>1 DEF RegisterWrites, WriteList, ni_usb_init, ni_usb_primary_address,
       ni_usb_secondary_address, ni_usb_return_to_local, ni_usb_t1_delay,
       ni_usb_parallel_poll_configure, ni_usb_parallel_poll_response,
       ni_usb_serial_poll_response, ni_usb_shutdown_hardware
<1>3. CASE LookAtStatus \/ CacStatus \/ CacEnd \/ StandbyStatus \/ StandbyEnd
  <2>1. \E r \in StatusReads : trouble' \in {trouble \cup r.bad, trouble \cup r.bad \cup {"unset"}}
    BY <1>3 DEF LookAtStatus, CacStatus, CacEnd, StandbyStatus, StandbyEnd, Leave
  <2>2. trouble' \subseteq Troubles
    BY <1>r, <2>1 DEF PlaceInv, Troubles
  <2>3. /\ UNCHANGED <<call, sync>> /\ ret' \in {ret, "OK", "EIO"}
        /\ pc' \in {"rsv", "cacStatus", "take", "return", "chunk", "gtsGo", "data"}
    BY <1>3 DEF LookAtStatus, CacStatus, CacEnd, StandbyStatus, StandbyEnd
  <2>. QED
    BY <2>2, <2>3 DEF PlaceInv, Points, Codes
<1>4. CASE TakeControlFirst \/ TakeControlAgain
  <2>1. {"OK", "EIO", "ETIMEDOUT", "ENOMEM"} \subseteq Codes
    BY DEF Codes
  <2>2. /\ pc' \in {"again", "cacEnd"} /\ ret' \in Codes /\ UNCHANGED <<call, sync>>
        /\ trouble' = trouble \/ \E e : Note(e)
    BY <1>4, <2>1, TakeOutcomes DEF TakeControlFirst, TakeControlAgain, Take, AfterTake
  <2>. QED
    BY <1>p, <2>2 DEF PlaceInv, Points
<1>5. CASE Chunk \/ ReadData \/ WriteData
  BY <1>5, ChunkPlace, DataPlace DEF CountsInv
<1>6. CASE StandbyGo
  <2>1. PICK e \in Exchange("GTS", 0, {Ans("GTS", 0, "none", 0)}) : ret' = e.code /\ Note(e)
    BY <1>6 DEF StandbyGo
  <2>2. pc' = "gtsEnd" /\ UNCHANGED <<call, sync>>
    BY <1>6 DEF StandbyGo
  <2>. QED
    BY <1>p, <2>1, <2>2, StandbyOutcomes DEF PlaceInv, Points, Codes
<1>7. CASE Call
  <2>1. PICK c \in LibraryCalls : /\ call' = c /\ pc' = FirstOf(c)
                                  /\ sync' \in BOOLEAN \/ sync' = (c = "ibcmd")
                                  /\ UNCHANGED <<ret, trouble>>
    BY <1>7 DEF Call
  <2>2. FirstOf(c) \in Points
    BY DEF FirstOf, LibraryCalls, Points
  <2>3. (c = "ibcmd") \in BOOLEAN
    OBVIOUS
  <2>. QED
    BY <2>1, <2>2, <2>3 DEF PlaceInv
<1>8. CASE SetEos
  BY <1>8, EosSet DEF PlaceInv
<1>9. CASE Bus
  BY <1>9 DEF Bus, PlaceInv, Troubles
<1>10. CASE UNCHANGED vars
  BY <1>10 DEF vars, PlaceInv
<1>. QED
  BY <1>1, <1>2, <1>3, <1>4, <1>5, <1>6, <1>7, <1>8, <1>9, <1>10 DEF Next, Step

SentInv == sent <= MaxSent

(* The bound of the bytes counted as sent is kept by counting.             *)
LEMMA SentStep == CountsInv /\ SentInv /\ CountsInv' /\ [Next]_vars => SentInv'
<1>. SUFFICES ASSUME CountsInv, sent <= MaxSent, [Next]_vars, CountsInv'
              PROVE  sent' <= MaxSent
  BY DEF SentInv
<1>0. MaxSent \in Nat
  BY LengthAssumption DEF MaxSent, ChunkLen
<1>1. CASE Chunk
  <2>1. \E n : sent' = Counted(n)
    BY <1>1 DEF Chunk
  <2>2. sent' \in Nat
    BY DEF CountsInv
  <2>. QED
    BY <1>0, <2>1, <2>2 DEF Counted
<1>2. CASE sent' \in {0, sent}
  BY <1>0, <1>2
<1>3. SetEos => sent' = sent
  BY EosSet
<1>. QED
  BY <1>1, <1>2, <1>3 DEF Next, Step, RegisterWrites, WriteList, ni_usb_init,
     ni_usb_primary_address, ni_usb_secondary_address, ni_usb_return_to_local,
     ni_usb_t1_delay, ni_usb_parallel_poll_configure, ni_usb_parallel_poll_response,
     ni_usb_serial_poll_response, ni_usb_shutdown_hardware, ni_usb_hs_wait_for_ready,
     ni_usb_hs_plus_extra_init, Return, LookAtStatus, CacStatus, TakeControlFirst,
     TakeControlAgain, Take, CacEnd, StandbyStatus, StandbyGo, StandbyEnd, ReadData,
     WriteData, RequestSystemControl, InterfaceClearPulse, RemoteEnable, Call, Bus, vars

(* Types: in particular every code that ibcac, ibcmd, ibrd and ibwrt make  *)
(* of an answer is one of the codes the callers know.                      *)
THEOREM TypeCorrect == Spec => []TypeOK
<1>1. Init => PlaceInv /\ SentInv
  <2>1. Init => PlaceInv
    BY DEF Init, PlaceInv, Points, Codes, Troubles
  <2>2. 0 <= MaxSent
    BY LengthAssumption DEF MaxSent, ChunkLen
  <2>. QED
    BY <2>1, <2>2 DEF Init, SentInv
<1>2. ControlInv /\ PlaceInv /\ SentInv /\ ControlInv' /\ [Next]_vars
        => PlaceInv' /\ SentInv'
  BY PlaceStep, SentStep DEF ControlInv
<1>3. ControlInv /\ PlaceInv /\ SentInv => TypeOK
  <2>1. MaxSent \in Nat
    BY LengthAssumption DEF MaxSent, ChunkLen
  <2>. QED
    BY <2>1 DEF ControlInv, RecordTypes, Drivers, Devices, CountsInv, LeftToDo, PlaceInv, SentInv,
       Troubles, TypeOK
<1>. QED
  BY <1>1, <1>2, <1>3, ControlInvariant, PTL DEF Spec
=============================================================================
