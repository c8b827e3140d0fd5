---------------------------- MODULE UsbTransfers ----------------------------
(***************************************************************************)
(* What the exchange functions of ni_usb_gpib.c make of a bulk transfer.   *)
(* Each of them sends one request on the OUT pipe and receives one answer  *)
(* on the IN pipe.  The functions differ in what they check of the answer: *)
(* its length, its id, its error code, or nothing.                         *)
(*                                                                         *)
(* An answer is a record: kind is the request it answers (the id byte),    *)
(* len its length in bytes, error the code of its status block, left the   *)
(* number of bytes not transferred, and n the number of register writes    *)
(* completed, or of the bytes the request was for.  A receive is an        *)
(* answer, or NoAnswer when the stack gave up.                             *)
(***************************************************************************)
EXTENDS Integers

Kinds == {"REG", "LINES", "RD", "WRT", "CMD", "CAC", "GTS", "SIC", "RPP"}

Errors == {"none", "aborted", "addressing", "eosmode", "nobus",
           "nolistener", "timeout"}

NoAnswer == [kind |-> "nothing", len |-> 0, error |-> "none",
             left |-> 0, n |-> 0]

Failed(a) == a = NoAnswer

(* The return codes: 0, a code of the USB stack, or an errno of the driver.*)
Codes == {"OK", "USB", "EIO", "ETIMEDOUT", "ENXIO", "EPIPE", "EINVAL", "ENOMEM"}

(* "return retval" after UsbBulkXfer: the status of the transfer.          *)
Stat(a) == IF Failed(a) THEN "USB" ELSE "OK"

(* in_data_length of each function (a read of up to 29 bytes); an answer   *)
(* that does not fit ends the transfer with an error of the stack.         *)
Buffer(kind) == CASE kind \in {"WRT", "CMD", "CAC", "SIC"} -> 16
                  [] kind \in {"REG", "LINES", "GTS", "RPP"} -> 32
                  [] kind = "RD" -> 64

Received(kind, a) == IF a.len <= Buffer(kind) THEN a ELSE NoAnswer

(* Length of the adapter's answers: a register write status with its       *)
(* termination block, one status block, or the blocks of a read.           *)
AnswerLen(kind, left) == CASE kind = "REG" -> 16
                           [] kind = "RD" -> IF left = 0 THEN 44 ELSE 28
                           [] OTHER -> 12

WriteRegisters(a, n) ==
    IF a.len # 16 THEN Stat(a)
    ELSE IF a.kind = "REG" /\ a.error = "none" /\ a.n = n
         THEN "OK" ELSE "EIO"

(* A read that treats a timeout like the other ends of a transfer.         *)
ReadCode_TimeoutIsEnd ==
    [none |-> "OK", aborted |-> "OK", addressing |-> "EIO",
     timeout |-> "OK", eosmode |-> "EINVAL", nobus |-> "EIO",
     nolistener |-> "EIO"]

(* The error codes of a read and of a write, as their switches map them;   *)
(* NIUSB_ABORTED_ERROR keeps the status of the transfer, zero here.        *)
ReadCode == [none |-> "OK", aborted |-> "OK", addressing |-> "EIO",
             timeout |-> "ETIMEDOUT", eosmode |-> "EINVAL",
             nobus |-> "EIO", nolistener |-> "EIO"]
WriteCode == [none |-> "OK", aborted |-> "OK", addressing |-> "ENXIO",
              nolistener |-> "EIO", timeout |-> "ETIMEDOUT",
              eosmode |-> "EPIPE", nobus |-> "EPIPE"]

(* ni_usb_read: parse_board_ibrd_readback refuses a block whose status is  *)
(* not that of a read; count is *bytes_read.                               *)
Read(a) ==
    IF Failed(a) THEN [code |-> "USB", count |-> 0]
    ELSE IF a.kind # "RD" THEN [code |-> "EIO", count |-> 0]
    ELSE [code |-> ReadCode[a.error], count |-> a.n - a.left]

(* ni_usb_write: any answer of twelve bytes is taken for the status.       *)
Write(a, length) ==
    IF a.len # 12 THEN [code |-> Stat(a), count |-> 0]
    ELSE [code |-> WriteCode[a.error], count |-> length - a.left]

(* ni_usb_command_chunk: at most 16 command bytes, any answer of twelve.   *)
ChunkLen(length) == IF length > 16 THEN 16 ELSE length
CommandChunk(a, length) ==
    IF a.len # 12 THEN [code |-> Stat(a), count |-> 0]
    ELSE [code |-> IF a.error \in {"none", "aborted"} THEN "OK" ELSE "EIO",
          count |-> ChunkLen(length) - a.left]

(* The remaining functions check no id and no error code.                  *)
TakeControl(a) == IF Failed(a) THEN "EIO" ELSE "OK"
GoToStandby(a) == Stat(a)
InterfaceClear(a) == "OK"
ParallelPoll(a) == Stat(a)
LineStatus(a) == Stat(a)

(* What UsbBulkXfer makes of a request (external): the bytes of it that    *)
(* went out, and its status.  EAGAIN is a code of the stack that one       *)
(* function looks for.  A request is not sent in part without an error.    *)
Sends == {s \in [out : {"none", "part", "all"}, stat : {"OK", "EAGAIN", "USB"}] :
             s.stat = "OK" => s.out = "all"}
IsOut(s) == s.out = "all"

(* Every function waits for an answer, whatever became of its request.     *)
GoesOn_Always(kind, s) == TRUE

(* Whether a function goes on to receive: a register write looks at the    *)
(* status, a write and an interface clear at the bytes, the line status    *)
(* returns unless the status is EAGAIN, and the others look at both.       *)
GoesOn(kind, s) ==
    CASE kind = "REG" -> s.stat = "OK"
      [] kind \in {"WRT", "SIC"} -> IsOut(s)
      [] kind = "LINES" -> s.stat = "EAGAIN" \/ (s.stat = "OK" /\ IsOut(s))
      [] OTHER -> s.stat = "OK" /\ IsOut(s)

(* What it returns when it does not: its own code, or the status.          *)
SendFailed(kind, s) == CASE kind = "CAC" -> "ETIMEDOUT"
                         [] kind = "RD" /\ s.out = "none" -> "EIO"
                         [] kind = "SIC" -> "OK"
                         [] OTHER -> IF s.stat = "OK" THEN "OK" ELSE "USB"

(* No memory for the request, or for the answer once the request is out.   *)
NoMemory(kind) == IF kind = "SIC" THEN "OK" ELSE "ENOMEM"

(* The code each function returns for an answer; n is the number of        *)
(* register writes, or the number of bytes, of the request.                *)
Outcome(kind, a, n) ==
    CASE kind = "REG" -> WriteRegisters(a, n)
      [] kind = "RD" -> Read(a).code
      [] kind = "WRT" -> Write(a, n).code
      [] kind = "CMD" -> CommandChunk(a, n).code
      [] kind = "CAC" -> TakeControl(a)
      [] kind = "GTS" -> GoToStandby(a)
      [] kind = "SIC" -> InterfaceClear(a)
      [] kind = "RPP" -> ParallelPoll(a)
      [] kind = "LINES" -> LineStatus(a)
=============================================================================
