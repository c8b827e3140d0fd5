---------------------------- MODULE BoardControl ----------------------------
(***************************************************************************)
(* The board functions at the end of ni_usb_gpib.c (ibcac, ibcmd, ibgts,   *)
(* ibrd, ibwrt, ibsic, ibsre, ibrsc, ibrsv, ibeos) and the start of the    *)
(* adapter in rtOpen, as sequences of exchanges.  One thread calls them;   *)
(* UsbExchange has what happens when several do.                           *)
(*                                                                         *)
(* drv is what the driver keeps in usb_data, dev is the truth: the adapter *)
(* and the bus it sits on.  Both are external, and so is the bus's other   *)
(* controller, which may pass control, take it back or move ATN while a    *)
(* call is under way.                                                      *)
(*                                                                         *)
(* An exchange may be refused, or executed without its answer being read.  *)
(* Nothing empties the IN pipe and no answer is checked for the request it *)
(* is to: what an exchange left there, the next one takes for its own, and *)
(* leaves its own behind.  One answer is left behind at most here.         *)
(*                                                                         *)
(* The code tells failures by "retval < 0"; the sign of the error codes of *)
(* the USB stack is not in the repository, so usbNegative is left open.    *)
(***************************************************************************)
EXTENDS UsbTransfers, FiniteSets

CONSTANTS CmdLength,    \* bytes of a command, more than one chunk
          DataLength,   \* bytes to read or write
          MaxPolls,     \* 50 in ni_usb_hs_wait_for_ready
          EosChars,     \* characters given to ibeos
          Signs         \* what usbNegative may be

ASSUME LengthAssumption == {CmdLength, DataLength} \subseteq Nat \ {0}
ASSUME PollAssumption == MaxPolls \in Nat \ {0}
ASSUME EosAssumption == EosChars \subseteq Nat
ASSUME SignsAssumption == Signs \subseteq BOOLEAN

VARIABLES
    pc,           \* the next transfer of the call
    call,         \* the library function called
    sync,         \* ibcac: its argument sync
    count, sent,  \* bytes reported so far, below zero when the unsigned
                  \* number has wrapped; bytes the adapter did put out
    ret,          \* ibcac, ibcmd: the code to return
    drv,          \* master, cached status, EOS mode
    dev,          \* CIC, ATN, system control
    behind,       \* the answer to an earlier request, still to be read
    usbNegative,  \* error codes of the USB stack are below zero
    trouble       \* history: what went wrong in this call

vars == <<pc, call, sync, count, sent, ret, drv, dev, behind, usbNegative, trouble>>

Status == [cic : BOOLEAN, atn : BOOLEAN]
EosFlags == {"REOS", "XEOS", "BIN"}

Negative(code) == IF code = "USB" THEN usbNegative ELSE code # "OK"

(* A repeated chunk is counted up to this bound.                           *)
MaxSent == CmdLength + ChunkLen(CmdLength)
Counted(n) == IF n > MaxSent THEN MaxSent ELSE n

Init == /\ pc = "ready" /\ call = "open" /\ sync = FALSE
        /\ count = 0 /\ sent = 0 /\ ret = "OK" /\ trouble = {}
        /\ drv = [master |-> FALSE, ibsta |-> [cic |-> FALSE, atn |-> FALSE],
                  eos |-> {}, char |-> 0]
        /\ dev \in [cic : {FALSE}, atn : BOOLEAN, sc : BOOLEAN]
        /\ behind = NoAnswer
        /\ usbNegative \in Signs

(* On to the next transfer, or back to the caller.                         *)
Goto(p) == /\ pc' = p
           /\ IF p = "idle"
              THEN call' = "none" /\ sync' = FALSE /\ ret' = "OK" /\ trouble' = {}
              ELSE UNCHANGED <<call, sync, ret, trouble>>

-----------------------------------------------------------------------------
(* Exchanges. *)

Ans(kind, n, e, left) == [kind |-> kind, len |-> AnswerLen(kind, left),
                          error |-> e, left |-> left, n |-> n]

(* What comes of an exchange: the code the function returns; the answer it *)
(* makes it of; the answer to its own request, if that went out; and the   *)
(* answer that is left behind.                                             *)
Ends(codes, a, own, left) ==
    {[code |-> c, a |-> a, own |-> own, behind |-> left] : c \in codes}

Unsent(kind, out) ==
    {SendFailed(kind, s) : s \in {x \in Sends : ~GoesOn(kind, x) /\ IsOut(x) = out}}
    \cup {NoMemory(kind)}

(* As an answer lies in the pipe: only a read looks whose answer it has,   *)
(* and nothing here looks at the result of a register write.               *)
Left(a) == IF a.kind = "RD" \/ a = NoAnswer THEN a
           ELSE [a EXCEPT !.n = 0, !.kind = IF a.len = 12 THEN "CMD" ELSE "REG"]

(* The request is not sent, or not as a whole; or it is, and the function  *)
(* gives up before or while it receives; or it takes the oldest answer.    *)
Exchange(kind, n, answers) ==
    Ends(Unsent(kind, FALSE), NoAnswer, NoAnswer, behind) \cup
    UNION {LET oldest == IF behind = NoAnswer THEN own ELSE Received(kind, behind)
           IN  (UNION {Ends(Unsent(kind, TRUE) \cup {Outcome(kind, NoAnswer, n)},
                            NoAnswer, own, left) : left \in {NoAnswer, behind, Left(own)}})
               \cup Ends({Outcome(kind, oldest, n)}, oldest, own,
                         IF behind = NoAnswer THEN NoAnswer ELSE Left(own))
             : own \in answers}

Done(e) == e.own # NoAnswer

Note(e) == trouble' = CASE Failed(e.a) -> trouble \cup {"usb"}
                        [] ~Failed(e.a) /\ behind # NoAnswer -> trouble \cup {"late"}
                        [] ~Failed(e.a) /\ behind = NoAnswer /\ e.a.error # "none"
                           -> trouble \cup {"adapter"}
                        [] OTHER -> trouble

(* ibstatus: the adapter's word, or the cached one when the control        *)
(* transfer fails; either is the cached one afterwards.                    *)
StatusReads ==
    {[word |-> [cic |-> dev.cic, atn |-> dev.atn], bad |-> {}],
     [word |-> drv.ibsta, bad |-> {"status"}]}

(* ... and its two line status exchanges, of which nothing is used here:   *)
(* they may take the answer that was left behind, and leave one of theirs. *)
(* Read as a status block, the end of a line status says 0xFECB left.      *)
LinesAnswer == Left(Ans("LINES", 0, "none", 65227))
AfterLines == behind' \in {NoAnswer, behind, LinesAnswer}

Cache(r) == drv' = [drv EXCEPT !.ibsta = r.word] /\ AfterLines

-----------------------------------------------------------------------------
(* The start of the adapter in rtOpen, whose results are all ignored.      *)

(* ni_usb_hs_wait_for_ready: polls without a pause, and gives up quietly.  *)
(* What it returns is not used.                                            *)
PollsOn(n) == n < MaxPolls

ni_usb_hs_wait_for_ready ==
    /\ pc = "ready"
    /\ \/ Goto("extra") /\ count' = 0
       \/ PollsOn(count + 1) /\ count' = count + 1 /\ Goto("ready")
    /\ UNCHANGED <<sent, drv, dev, behind, usbNegative>>

(* Three control transfers, each after the one before has succeeded; what  *)
(* it returns is not used.                                                 *)
ni_usb_hs_plus_extra_init ==
    /\ pc = "extra" /\ Goto("init")
    /\ UNCHANGED <<count, sent, drv, dev, behind, usbNegative>>

OpenNext == [init |-> "pad", pad |-> "sad", sad |-> "local", local |-> "t1",
             t1 |-> "rsc"]

(* The functions that are one list of n register writes; written is what   *)
(* the adapter is after it.                                                *)
WriteList(p, n, written) ==
    /\ pc = p
    /\ \E e \in Exchange("REG", n, {Ans("REG", n, "none", 0)}) :
         dev' = (IF Done(e) THEN written ELSE dev) /\ behind' = e.behind
    /\ Goto(IF call = "open" THEN OpenNext[p] ELSE "idle")
    /\ UNCHANGED <<count, sent, usbNegative>>

OffBus == [dev EXCEPT !.cic = FALSE, !.sc = FALSE]

(* The chip is reset, and taken off the bus.                               *)
ni_usb_init == WriteList("init", 24, OffBus) /\ UNCHANGED drv
ni_usb_shutdown_hardware == WriteList("shutdown", 2, OffBus) /\ UNCHANGED drv

(* Nothing looks at the effect of the other writes.                        *)
ni_usb_primary_address == WriteList("pad", 2, dev) /\ UNCHANGED drv
ni_usb_return_to_local == WriteList("local", 1, dev) /\ UNCHANGED drv
ni_usb_t1_delay == WriteList("t1", 3, dev) /\ UNCHANGED drv
ni_usb_parallel_poll_configure == WriteList("ppc", 1, dev) /\ UNCHANGED drv
ni_usb_parallel_poll_response == WriteList("ist", 1, dev) /\ UNCHANGED drv
ni_usb_serial_poll_response == WriteList("rsv", 1, dev) /\ UNCHANGED drv

(* rtOpen calls ni_usb_enable_eos next.                                    *)
ni_usb_secondary_address ==
    /\ WriteList("sad", 3, dev)
    /\ drv' = IF call = "open" THEN [drv EXCEPT !.eos = {"REOS"}, !.char = 10]
              ELSE drv

RegisterWrites ==
    \/ ni_usb_init \/ ni_usb_primary_address \/ ni_usb_secondary_address
    \/ ni_usb_return_to_local \/ ni_usb_t1_delay
    \/ ni_usb_parallel_poll_configure \/ ni_usb_parallel_poll_response
    \/ ni_usb_serial_poll_response \/ ni_usb_shutdown_hardware

-----------------------------------------------------------------------------
(* Calls. *)

LibraryCalls == {"ibcac", "ibcac0", "ibcmd", "ibgts", "ibrd", "ibwrt", "ibrsc1",
                 "ibrsc0", "ibsic", "ibsre1", "ibsre0", "ibrsv"}
                \cup {"pad", "sad", "local", "t1", "ppc", "ist", "shutdown"}

(* Where a call begins; ibrd and ibwrt go to standby when master is set.   *)
FirstOf(c) == CASE c \in {"ibcac", "ibcac0", "ibcmd", "ibrsv"} -> "status"
                [] c = "ibgts" -> "gtsStatus"
                [] c \in {"ibrd", "ibwrt"} ->
                     IF drv.master THEN "gtsStatus" ELSE "data"
                [] c \in {"ibrsc1", "ibrsc0"} -> "rsc"
                [] c = "ibsic" -> "sic"
                [] c \in {"ibsre1", "ibsre0"} -> "sre"
                [] OTHER -> c

(* ibsic and ibsre return at once unless master is set; ibcac0 is ibcac    *)
(* without fallback_to_async.                                              *)
Call == /\ pc = "idle"
        /\ \E c \in LibraryCalls :
             /\ c \in {"ibsic", "ibsre1", "ibsre0"} => drv.master
             /\ call' = c /\ pc' = FirstOf(c)
             /\ sync' \in IF c \in {"ibcac", "ibcac0"} THEN BOOLEAN
                          ELSE {c = "ibcmd"}
        /\ UNCHANGED <<count, sent, ret, drv, dev, behind, usbNegative, trouble>>

Return == /\ pc = "return" /\ Goto("idle")
          /\ count' = 0 /\ sent' = 0
          /\ UNCHANGED <<drv, dev, behind, usbNegative>>

DisableEos_KeepsMode ==
    drv' = [drv EXCEPT !.eos = @ \ {"REOS"}, !.char = 0]

(* ni_usb_disable_eos, ni_usb_enable_eos, ibeos.                           *)
DisableEos == drv' = [drv EXCEPT !.eos = {}, !.char = 0]
EnableEos(char, binary) ==
    drv' = [drv EXCEPT !.char = char,
                       !.eos = IF binary THEN @ \cup {"REOS", "BIN"}
                               ELSE (@ \cup {"REOS"}) \ {"BIN"}]
SetEos ==
    /\ pc = "idle"
    /\ \E flags \in SUBSET EosFlags, char \in EosChars :
         IF "REOS" \in flags THEN EnableEos(char, "BIN" \in flags)
         ELSE DisableEos
    /\ UNCHANGED <<pc, call, sync, count, sent, ret, dev, behind, usbNegative, trouble>>

-----------------------------------------------------------------------------
(* Taking control and commands. *)

(* Where ibcmd returns before it has called ni_usb_command, the number of  *)
(* bytes its caller looks at is whatever it was before.                    *)
Unset == {0, CmdLength}
Leave(bad) == IF call = "ibcmd" /\ pc' = "return"
              THEN count' \in Unset /\ trouble' = trouble \cup bad \cup {"unset"}
              ELSE count' = count /\ trouble' = trouble \cup bad

(* The status read at the start of ibcmd and ibrsv2; a refusal is EIO here, *)
(* whatever its code.                                                      *)
LookAtStatus ==
    /\ pc = "status"
    /\ \E r \in StatusReads :
         /\ pc' = CASE call = "ibrsv" /\ ~r.word.cic -> "rsv"
                    [] call = "ibcmd" /\ r.word.cic -> "cacStatus"
                    [] call \notin {"ibrsv", "ibcmd"} /\ r.word.cic
                         /\ ~r.word.atn -> "take"
                    [] OTHER -> "return"
         /\ ret' = IF r.word.cic = (call = "ibrsv") THEN "EIO" ELSE "OK"
         /\ Cache(r) /\ Leave(r.bad)
    /\ UNCHANGED <<call, sync, sent, dev, usbNegative>>

(* The one at the start of ibcac, when ibcmd calls it.                     *)
CacStatus ==
    /\ pc = "cacStatus"
    /\ \E r \in StatusReads :
         /\ pc' = CASE ~r.word.cic -> "return"
                    [] r.word.cic /\ r.word.atn -> "chunk"
                    [] OTHER -> "take"
         /\ ret' = IF r.word.cic THEN "OK" ELSE "EIO"
         /\ Cache(r) /\ Leave(r.bad)
    /\ UNCHANGED <<call, sync, sent, dev, usbNegative>>

(* The adapter takes control when it is in charge; synchronously, when the *)
(* talker on the bus allows it in time.                                    *)
TakeAnswers ==
    {Ans("CAC", 0, e, 0) : e \in {x \in {"none", "timeout"} :
        IF x = "none" THEN dev.cic ELSE sync \/ ~dev.cic}}

Take(after) ==
    \E e \in Exchange("CAC", 0, TakeAnswers) :
      /\ ret' = e.code
      /\ dev' = [dev EXCEPT !.atn = @ \/ (Done(e) /\ dev.cic /\ e.own.error = "none")]
      /\ behind' = e.behind /\ Note(e)
      /\ pc' = after[e.code]
      /\ UNCHANGED <<call, sync, count, sent, drv, usbNegative>>

(* Only a synchronous attempt that ended with -ETIMEDOUT is followed by    *)
(* another.                                                                *)
AfterTake == [code \in Codes |->
                IF code = "ETIMEDOUT" /\ sync /\ call # "ibcac0"
                THEN "again" ELSE "cacEnd"]

(* Synchronously only a listener can take control: LACS of the status word.*)
TakeControlFirst ==
    /\ pc = "take"
    /\ \/ Take(AfterTake)
       \/ /\ sync
          /\ ret' = "ETIMEDOUT" /\ pc' = AfterTake["ETIMEDOUT"]
          /\ UNCHANGED <<call, sync, count, sent, drv, dev, behind, usbNegative, trouble>>

(* The second attempt: the same as the first, with the timeout zero.       *)
TakeControlAgain == pc = "again" /\ Take([code \in Codes |-> "cacEnd"])

(* ibcmd goes on when ibcac returned 0.                                    *)
MayCommand_Anyway == call = "ibcmd"
MayCommand == call = "ibcmd" /\ ret = "OK"

(* The status read that ends ibcac.                                        *)
CacEnd == /\ pc = "cacEnd"
          /\ pc' = IF MayCommand THEN "chunk" ELSE "return"
          /\ \E r \in StatusReads : Cache(r) /\ Leave(r.bad)
          /\ UNCHANGED <<call, sync, sent, ret, dev, usbNegative>>

(* An adapter that is not the active controller takes no command; one with *)
(* nobody on the bus says how many bytes it has left.                      *)
CommandAnswers(n) ==
    IF dev.cic /\ dev.atn
    THEN {Ans("CMD", 0, "none", 0), Ans("CMD", 0, "nobus", n),
          Ans("CMD", 0, "nobus", n - 1)}
    ELSE {Ans("CMD", 0, "addressing", n)}

(* The loop of ni_usb_command; faulty: it goes on after an error.          *)
CommandGoesOn_AfterError(code, n) == n \in 0 .. CmdLength - 1
CommandGoesOn(code, n) == ~Negative(code) /\ n \in 0 .. CmdLength - 1

Chunk ==
    /\ pc = "chunk"
    /\ LET length == CmdLength - count
           n == ChunkLen(length)
       IN  \E e \in Exchange("CMD", length, CommandAnswers(n)) :
             LET total == count + IF Failed(e.a) THEN 0
                                  ELSE CommandChunk(e.a, length).count
             IN  /\ count' = total
                 /\ sent' = Counted(sent + IF Done(e) THEN n - e.own.left ELSE 0)
                 /\ pc' = IF CommandGoesOn(e.code, total) THEN "chunk" ELSE "return"
                 /\ ret' = IF Negative(e.code) THEN e.code ELSE "OK"
                 /\ behind' = e.behind /\ Note(e)
    /\ UNCHANGED <<call, sync, drv, dev, usbNegative>>

-----------------------------------------------------------------------------
(* Standby and data. *)

(* ibgts, alone or at the start of ibrd and ibwrt: a board that is not in  *)
(* charge loses master.                                                    *)
StandbyStatus ==
    /\ pc = "gtsStatus"
    /\ \E r \in StatusReads :
         /\ drv' = [drv EXCEPT !.ibsta = r.word, !.master = @ /\ r.word.cic]
         /\ AfterLines
         /\ trouble' = trouble \cup r.bad
         /\ pc' = IF r.word.cic THEN "gtsGo" ELSE "return"
         /\ ret' = IF r.word.cic THEN "OK" ELSE "EIO"
    /\ UNCHANGED <<call, sync, count, sent, dev, usbNegative>>

StandbyGo ==
    /\ pc = "gtsGo"
    /\ \E e \in Exchange("GTS", 0, {Ans("GTS", 0, "none", 0)}) :
         /\ dev' = [dev EXCEPT !.atn = @ /\ ~(Done(e) /\ dev.cic)]
         /\ ret' = e.code
         /\ behind' = e.behind /\ Note(e)
    /\ pc' = "gtsEnd"
    /\ UNCHANGED <<call, sync, count, sent, drv, usbNegative>>

(* ibrd and ibwrt go on unless ibgts returned a negative value.            *)
MayTransfer_Anyway == call \in {"ibrd", "ibwrt"}
MayTransfer == call \in {"ibrd", "ibwrt"} /\ ~Negative(ret)

StandbyEnd == /\ pc = "gtsEnd"
              /\ \E r \in StatusReads : Cache(r) /\ trouble' = trouble \cup r.bad
              /\ pc' = IF MayTransfer THEN "data" ELSE "return"
              /\ UNCHANGED <<call, sync, count, sent, ret, dev, usbNegative>>

EosAccepted == "REOS" \in drv.eos \/ (drv.eos = {} /\ drv.char = 0)

(* A read ends with END, with its count, at its timeout, or when STOP      *)
(* PROJECT has the adapter abort it (once in a call).                      *)
ReadAnswers(n) ==
    IF ~EosAccepted THEN {Ans("RD", n, "eosmode", n)}
    ELSE {Ans("RD", n, "none", left) : left \in 0 .. n - 1}
         \cup {Ans("RD", n, "timeout", n), Ans("RD", n, "addressing", n)}
         \cup {Ans("RD", n, "aborted", left) :
                  left \in {x \in 1 .. n : "stop" \notin trouble}}

(* The loop of ibrd; END comes with every read that ends short by itself.  *)
ReadGoesOn(code, n, a) == /\ code = "OK" /\ n > 0 /\ n < DataLength
                          /\ a.error # "none"

ReadData ==
    /\ pc = "data" /\ call = "ibrd"
    /\ LET length == DataLength - count IN
       \E e \in Exchange("RD", length, ReadAnswers(length)) :
         LET n == count + Read(e.a).count IN
         /\ count' = n /\ ret' = e.code /\ behind' = e.behind
         /\ pc' = IF ReadGoesOn(e.code, n, e.a) THEN "data" ELSE "return"
         /\ IF e.own.error = "aborted" THEN trouble' = trouble \cup {"stop"}
            ELSE Note(e)
    /\ UNCHANGED <<call, sync, sent, drv, dev, usbNegative>>

WriteData ==
    /\ pc = "data" /\ call = "ibwrt"
    /\ \E e \in Exchange("WRT", DataLength,
           {Ans("WRT", 0, "none", 0)} \cup
           {Ans("WRT", 0, x, DataLength) :
              x \in {"timeout", "addressing", "nolistener"}}) :
         /\ ret' = e.code
         /\ behind' = e.behind /\ Note(e)
    /\ pc' = "return"
    /\ UNCHANGED <<call, sync, count, sent, drv, dev, usbNegative>>

-----------------------------------------------------------------------------
(* System control. *)

(* The writes of ni_usb_request_system_control, on the chip: SETSC and     *)
(* CIFC; or CREN, CIFC, DSC and CLRSC.                                     *)
Release == [dev EXCEPT !.sc = FALSE]
Claim == [dev EXCEPT !.sc = TRUE]

(* ibrsc: master is set before the adapter is asked, whatever it answers.  *)
RequestSystemControl ==
    /\ pc = "rsc"
    /\ LET request == call = "ibrsc1"
           n == IF request THEN 2 ELSE 4
       IN  /\ drv' = [drv EXCEPT !.master = request]
           /\ \E e \in Exchange("REG", n, {Ans("REG", n, "none", 0)}) :
                /\ dev' = IF ~Done(e) THEN dev ELSE IF request THEN Claim ELSE Release
                /\ behind' = e.behind
    /\ Goto(IF call = "open" THEN "gtsStatus" ELSE "idle")
    /\ UNCHANGED <<count, sent, usbNegative>>

(* ibsic: the system controller becomes the active controller.             *)
InterfaceClearPulse ==
    /\ pc = "sic"
    /\ \E e \in Exchange("SIC", 0, {Ans("SIC", 0, "none", 0)}) :
         /\ dev' = IF Done(e) /\ dev.sc THEN [dev EXCEPT !.cic = TRUE, !.atn = TRUE]
                   ELSE dev
         /\ behind' = e.behind
    /\ Goto("idle")
    /\ UNCHANGED <<count, sent, drv, usbNegative>>

(* ibsre; what the REN line is matters to nothing here.                    *)
RemoteEnable ==
    /\ pc = "sre"
    /\ \E e \in Exchange("REG", 1, {Ans("REG", 1, "none", 0)}) : behind' = e.behind
    /\ Goto("idle")
    /\ UNCHANGED <<count, sent, drv, dev, usbNegative>>

(* The other controller passes or takes control, or moves ATN.             *)
Bus == /\ \E c, a \in BOOLEAN :
            /\ c = dev.cic => a # dev.atn /\ ~dev.cic
            /\ dev' = [dev EXCEPT !.cic = c, !.atn = a]
       /\ trouble' = IF pc = "idle" THEN trouble ELSE trouble \cup {"bus"}
       /\ UNCHANGED <<pc, call, sync, count, sent, ret, drv, behind, usbNegative>>

Step == \/ ni_usb_hs_wait_for_ready \/ ni_usb_hs_plus_extra_init
        \/ RegisterWrites \/ Return
        \/ LookAtStatus \/ CacStatus \/ TakeControlFirst \/ TakeControlAgain
        \/ CacEnd \/ Chunk
        \/ StandbyStatus \/ StandbyGo \/ StandbyEnd \/ ReadData \/ WriteData
        \/ RequestSystemControl \/ InterfaceClearPulse \/ RemoteEnable

Next == Step \/ Call \/ SetEos \/ Bus

Spec == Init /\ [][Next]_vars

-----------------------------------------------------------------------------
Points == {"idle", "return", "ready", "status", "cacStatus", "take", "again",
           "cacEnd", "chunk", "gtsStatus", "gtsGo", "gtsEnd", "data", "rsc",
           "sic", "sre", "extra", "init", "pad", "sad", "local", "t1", "ppc", "ist",
           "rsv", "shutdown"}

Answers == [kind : Kinds \cup {"nothing"}, len : Nat, error : Errors,
            left : Nat, n : Nat]

(* Types; what is left to transfer is never zero in a transfer.            *)
TypeOK ==
    /\ pc \in Points /\ call \in LibraryCalls \cup {"open", "none"}
    /\ sync \in BOOLEAN /\ ret \in Codes
    /\ count \in Int /\ sent \in 0 .. MaxSent
    /\ pc = "chunk" => count \in 0 .. CmdLength - 1
    /\ pc = "data" => count \in 0 .. DataLength - 1
    /\ drv \in [master : BOOLEAN, ibsta : Status, eos : SUBSET EosFlags,
                char : EosChars \cup {0, 10}]
    /\ dev \in [cic : BOOLEAN, atn : BOOLEAN, sc : BOOLEAN]
    /\ behind \in Answers /\ usbNegative \in BOOLEAN
    /\ trouble \subseteq {"usb", "adapter", "late", "status", "stop", "bus", "unset"}

(* A command byte goes out only while the board is the active controller,  *)
(* even when exchanges fail: ibcmd's status read, ibcac's, and its result  *)
(* together.  What is needed is that the status could be read, that the    *)
(* bus was left alone, that no answer was taken for another's, and that    *)
(* the adapter, when it answered a take control, had taken control:        *)
(* ni_usb_take_control ignores its error code.                             *)
CommandsWhileActive ==
    [][pc = "chunk" /\ trouble \subseteq {"usb"} => dev.cic /\ dev.atn]_vars

(* A system controller's data goes out only in standby, if the failures of *)
(* the USB stack are negative: ibrd and ibwrt test "retval < 0".  It does  *)
(* so when answers are late and when a read was aborted; what is needed is *)
(* that the status could be read and the bus was left alone.               *)
DataInStandby ==
    [][pc = "data" /\ drv.master /\ usbNegative /\ trouble \cap {"status", "bus"} = {}
       => ~dev.atn]_vars

(* Unless an answer of an earlier exchange is taken for a chunk's, ibcmd   *)
(* puts no byte out twice and reports no byte it did not put out; when     *)
(* every exchange was answered it reports exactly those, and when it       *)
(* returns 0 it reports them all.  The first needs negative failures: a    *)
(* positive one is taken for a chunk of which nothing was taken.  Where it *)
(* leaves its caller's number alone, it has failed before the first byte.  *)
CommandBytesOnce ==
    call = "ibcmd" /\ "late" \notin trouble =>
      IF "unset" \in trouble THEN sent = 0 /\ ret # "OK"
      ELSE /\ usbNegative => count <= sent /\ sent <= CmdLength
           /\ "usb" \notin trouble => count = sent
           /\ pc = "return" /\ ret = "OK" => count = CmdLength

(* No read is refused for its EOS bits ("driver bug, we should have been   *)
(* able to avoid NIUSB_EOSMODE_ERROR").                                    *)
NoEosModeError == pc = "data" /\ call = "ibrd" => EosAccepted

(* How far a call is from its end: the transfers still before it, and at a *)
(* loop the rounds it may still make.  An answer of an earlier exchange    *)
(* that is not twelve bytes long makes a round of which nothing is         *)
(* counted, and so does the abort of an earlier read.                      *)
Stage == [ready |-> 13, extra |-> 12, init |-> 11, pad |-> 10, sad |-> 9,
          local |-> 8, t1 |-> 7, rsc |-> 6, status |-> 7, cacStatus |-> 6,
          take |-> 5, again |-> 4, cacEnd |-> 3, chunk |-> 2,
          gtsStatus |-> 5, gtsGo |-> 4, gtsEnd |-> 3, data |-> 2,
          sic |-> 1, sre |-> 1, ppc |-> 1, ist |-> 1, rsv |-> 1,
          shutdown |-> 1, return |-> 1, idle |-> 0]

Rounds == CASE pc = "ready" -> MaxPolls - count
            [] pc = "chunk" -> CmdLength - count
                               + Cardinality({behind.len} \ {NoAnswer.len, 12})
            [] pc = "data" -> Cardinality({"stop"} \ trouble)
                              + Cardinality({behind.error} \cap {"aborted"})
            [] OTHER -> 0

Nearer == Stage[pc'] < Stage[pc] \/ (pc' = pc /\ Rounds' < Rounds)

(* Every call returns, if failures are negative: whatever fails or comes   *)
(* late, each transfer brings it nearer to its end, in the chunks of a     *)
(* command, the reads of ibrd and the polls of the start too.              *)
CallsComeToAnEnd ==
    [][usbNegative /\ pc # "idle" => Nearer \/ Bus]_vars
=============================================================================
