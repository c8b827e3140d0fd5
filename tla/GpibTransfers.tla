--------------------------- MODULE GpibTransfers ----------------------------
(***************************************************************************)
(* The loops of the ioctls IBRD, IBWRT and IBCMD of the GPIB core, which   *)
(* move a user's buffer in loads of the board's buffer, over what the      *)
(* calls of the interface driver (external) come to.                       *)
(*                                                                         *)
(* A result is [n, rc, end, fault]: the bytes the driver could move, the   *)
(* return code, END, and whether copying the load from or to the user      *)
(* fails.  A transfer is [remain, part, bus, rc, end, fault, over, used,   *)
(* eoi]: bytes still to move, bytes of the present load, bytes moved on    *)
(* the bus (a history), code and END of the last call, a copy that failed, *)
(* whether the loop is over, the calls made, and how many bytes were still *)
(* to come when a byte was sent with EOI.                                  *)
(***************************************************************************)
EXTENDS Integers, Sequences

Begun(remain, over) ==
    [remain |-> remain, part |-> 0, bus |-> 0, rc |-> "ok", end |-> FALSE,
     fault |-> FALSE, over |-> over, used |-> 0, eoi |-> {}]

(* (board->buffer_length < remain) ? board->buffer_length : remain          *)
Load(size, remain) == IF size < remain THEN size ELSE remain

(* A call moves what it can of what it was asked for.                      *)
Moved(r, asked) == IF r.n < asked THEN r.n ELSE asked

(* The loop of ibrd: it fills the load, unless nothing comes any more.     *)
ibrd(part, length, r) == r.rc = "ok" /\ part > 0 /\ part < length /\ ~r.end

(* A load whose last call failed is given up with the bytes before it.     *)
ReadLoad_ErrorFirst(t, part, r) ==
    LET ended == [t EXCEPT !.part = 0, !.rc = r.rc, !.end = r.end] IN
    IF part = 0 \/ r.fault \/ r.rc # "ok"
    THEN [ended EXCEPT !.fault = part > 0 /\ r.fault, !.over = TRUE]
    ELSE [ended EXCEPT !.remain = @ - part, !.over = part = t.remain \/ r.end]

(* read_ioctl, when ibrd has returned: the load is handed over before the  *)
(* error ends the loop.                                                    *)
ReadLoad(t, part, r) ==
    LET ended == [t EXCEPT !.part = 0, !.rc = r.rc, !.end = r.end] IN
    IF part = 0 \/ r.fault
    THEN [ended EXCEPT !.fault = part > 0, !.over = TRUE]
    ELSE [ended EXCEPT !.remain = @ - part,
                       !.over = r.rc # "ok" \/ part = t.remain \/ r.end]

ReadCall(t, size, r) ==
    LET length == Load(size, t.remain)
        n == Moved(r, length - t.part)
        b == [t EXCEPT !.bus = @ + n]
    IN  IF ibrd(t.part + n, length, r) THEN [b EXCEPT !.part = @ + n]
        ELSE ReadLoad(b, t.part + n, r)

(* ibwrt and write_ioctl; ETIMEDOUT, when the timer has run out, replaces  *)
(* what the driver returned.  command_ioctl has the same loop.             *)
SendEoi(t, size, end) == end /\ t.remain <= size

WriteCall(t, size, end, r) ==
    LET length == Load(size, t.remain)
        n == Moved(r, length)
    IN  IF r.fault THEN [t EXCEPT !.fault = TRUE, !.over = TRUE]
        ELSE [t EXCEPT !.remain = @ - n, !.bus = @ + n, !.rc = r.rc,
                       !.over = r.rc # "ok" \/ n = t.remain,
                       !.eoi = IF SendEoi(t, size, end) /\ n = length
                               THEN @ \cup {t.remain - n} ELSE @]

(* A round of the loop, which makes one call of the interface driver.      *)
Round(op, size, end, t, r) ==
    IF t.over THEN t
    ELSE LET u == IF op = "IBRD" THEN ReadCall(t, size, r) ELSE WriteCall(t, size, end, r)
         IN  [u EXCEPT !.used = t.used + 1]

(* The transfer before the loop and after each round.                      *)
Loop(op, size, end, start, results) ==
    LET T[i \in 0 .. Len(results)] ==
            IF i = 0 THEN start ELSE Round(op, size, end, T[i - 1], results[i])
    IN  T
Run(op, size, end, start, results) ==
    Loop(op, size, end, start, results)[Len(results)]

(* The code, unless an error is suppressed: all bytes were moved, or END   *)
(* was seen.  A fault keeps the counts from the user.                      *)
Code(t, suppressed) == IF t.fault THEN "EFAULT"
                       ELSE IF suppressed THEN "ok" ELSE t.rc

read_ioctl(remain, size, results) ==
    LET t == Run("IBRD", size, FALSE, Begun(remain, remain = 0), results)
    IN  [last |-> t, code |-> Code(t, t.remain = 0 \/ t.end)]

write_ioctl(remain, size, end, results) ==
    LET t == Run("IBWRT", size, end, Begun(remain, remain = 0), results)
    IN  [last |-> t, code |-> Code(t, t.remain = 0)]

(* At least one call, even when nothing remains; no error is suppressed.   *)
command_ioctl(remain, size, results) ==
    LET t == Run("IBCMD", size, FALSE, Begun(remain, FALSE), results)
    IN  [last |-> t, code |-> Code(t, FALSE)]
=============================================================================
