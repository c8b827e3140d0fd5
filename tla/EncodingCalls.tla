---------------------------- MODULE EncodingCalls ----------------------------
(***************************************************************************)
(* Calls of the conversions of GpibEncodings and of the loops of           *)
(* GpibTransfers, one at a time, over small inputs, and what their results *)
(* must satisfy.                                                           *)
(***************************************************************************)
EXTENDS GpibEncodings, GpibTransfers

CONSTANTS MaxLength,     \* longest transfer
          MaxWait,       \* longest time out, in ticks
          MaxBytes, MaxCalls,   \* bytes of an ioctl, calls of the interface driver
          BufferSizes,   \* lengths of the board's buffer
          Addresses      \* physical addresses of the dual port

ASSUME LengthsAssumption == {MaxLength, MaxBytes, MaxCalls} \subseteq Nat
ASSUME SizesAssumption == BufferSizes \subseteq Nat \ {0}
(* Time outs are short against the range of the tick counter, and the      *)
(* pages mapped end before the last address.                               *)
ASSUME WaitAssumption == MaxWait \in Nat /\ 4 * MaxWait < Modulus
ASSUME AddressesAssumption ==
    Addresses \subseteq Nat /\ \A a \in Addresses : a + DprSize + Page <= Modulus

VARIABLE call

None == [op |-> "none"]
Words == 0 .. Modulus - 1

Init == call = None

ReadBlock ==
    \E length \in 1 .. MaxLength, n \in 0 .. MaxLength, block \in {15, 30} :
       /\ n <= length
       /\ call' = [op |-> "read", length |-> length, n |-> n, block |-> block]

(* Some lengths up to the largest.                                         *)
CountLength ==
    \E length \in (0 .. MaxLength) \cup {255, 256, 65534, 65535, 65536, 70000} :
       call' = [op |-> "count", length |-> length]

ReadRegisters == \E num \in 1 .. 8 : call' = [op |-> "registers", num |-> num]

(* Time outs in units of ten microseconds, round each of the durations.    *)
SetTimeout ==
    \E t \in 1 .. 17, d \in {-1, 0, 1} :
       call' = [op |-> "timeout", units |-> Durations[t] + d]

(* A transfer with a time out of some milliseconds, or with none, or with  *)
(* one above the longest the adapter knows.                                *)
Transfer ==
    \E kind \in {"RD", "WRT", "CMD", "RPP"},
       ms \in {0, 1, 2, 3, 10, 50, 300, 1000, 5000, 30000, 1000000,
              100000000, 100000001} :
       call' = [op |-> "transfer", kind |-> kind, ms |-> ms]

(* A time out started at a tick and looked at later.                       *)
WaitTicks ==
    \E start \in Words, wait \in 0 .. MaxWait, later \in 0 .. 2 * MaxWait :
       call' = [op |-> "ticks", start |-> start, wait |-> wait, later |-> later]

PackAddress == \E pad \in 0 .. 31, sad \in -1 .. 31 :
                  call' = [op |-> "address", pad |-> pad, sad |-> sad]

(* Any address of a caller: some with the bits of a secondary address      *)
(* wrong.                                                                  *)
UnpackAddress == \E pad \in 0 .. 31, high \in {0, 1, 30, 31, 32, 96, 126, 127, 160, 255} :
                    call' = [op |-> "unpack", address |-> pad + 256 * high]

Access == \E offset \in Words, length \in 0 .. Modulus \div 2, buffer \in {1, Page} :
             call' = [op |-> "access", offset |-> offset, length |-> length,
                      buffer |-> buffer]

MapMemory == \E address \in Addresses, size \in 1 .. DprSize :
                call' = [op |-> "map", address |-> address, size |-> size]

MemoryTest == \E bad \in 0 .. 3, byte \in {0, 85, 255} :
                 call' = [op |-> "test", bad |-> bad, byte |-> byte]

(* A port, and the status of a device, asked for by the flowchart.         *)
AccessPort == \E address \in {0, 255, 256, 4095, 4096, 65535}, length \in {1, 2, 4} :
                 call' = [op |-> "port", address |-> address, length |-> length]
AskDevice == \E address \in {0, 1, 127, 128, 65535, 65536, 65537, 65664} :
                call' = [op |-> "device", address |-> address]

(* An ioctl, with what the calls of the interface driver come to, and the  *)
(* copy that fails, if any.                                                *)
Ioctl ==
    \E op \in {"IBRD", "IBWRT", "IBCMD"}, remain \in 0 .. MaxBytes,
       size \in BufferSizes, end \in BOOLEAN, fault \in 0 .. MaxCalls,
       results \in [1 .. MaxCalls -> [n : 0 .. 2, rc : {"ok", "error"}, end : BOOLEAN]] :
       /\ op # "IBWRT" => ~end
       /\ op # "IBRD" => \A i \in 1 .. MaxCalls : ~results[i].end
       /\ call' = [op |-> op, remain |-> remain, size |-> size, end |-> end,
                   results |-> [i \in 1 .. MaxCalls |->
                      [n |-> results[i].n, rc |-> results[i].rc,
                       end |-> results[i].end, fault |-> i = fault]]]

Return == call # None /\ call' = None

Next == \/ /\ call = None
           /\ \/ ReadBlock \/ CountLength \/ ReadRegisters \/ SetTimeout \/ Transfer
              \/ WaitTicks \/ PackAddress \/ UnpackAddress \/ Access \/ MapMemory
              \/ MemoryTest \/ AccessPort \/ AskDevice \/ Ioctl
        \/ Return

Spec == Init /\ [][Next]_call

-----------------------------------------------------------------------------
(* What the results have to satisfy. *)

ReadIsParsed(length, n, block) ==
    LET p == Packet(n, block)
        r == Readback(p, length)
    IN  /\ PacketLen(p) <= ReadBuffer(length)
        /\ r.consumed = PacketLen(p)
        /\ r.actual = n
        /\ r.actual <= r.stored /\ r.stored <= length

CountIsReadBack(length) ==
    length \in 1 .. 65535 => StatusCount(ComplementCount(length)) = length

RegistersAreApart(num) ==
    LET starts == {4 * j : j \in 0 .. (num - 1) \div 3}
        results == {ResultAt(j) : j \in 0 .. num - 1}
    IN  /\ starts \cap results = {}
        /\ \A x \in starts \cup results : x < EndAt(num)
        /\ RegisterBlockLen(num) - EndAt(num) = 4

(* Lengths on the wire are those the driver hands to its caller: a read    *)
(* back packet fits the buffer sized for it whatever the size of the       *)
(* adapter's blocks, it is consumed to its last byte, and the count stored *)
(* is that of the data; the complement of a length is read back as the     *)
(* length; the results of a register read never fall on a start byte and   *)
(* the end byte follows them.                                              *)
ReadsAreDecoded ==
    /\ call.op = "read" => ReadIsParsed(call.length, call.n, call.block)
    /\ call.op = "count" => CountIsReadBack(call.length)
    /\ call.op = "registers" => RegistersAreApart(call.num)

DurationIsCoded(d) ==
    LET code == CodeDuration(ni_usb_timeout_code(d))
    IN  IF d = 0 \/ d > Durations[17] THEN code = 0
        ELSE /\ d <= code
             /\ \A t \in 1 .. 17 : d <= Durations[t] => code <= Durations[t]
             /\ timeout_to_usec(usec_to_timeout(code)) = code
             /\ ppoll_timeout_to_usec(usec_to_ppoll_timeout(d)) = code
             /\ usec_to_ppoll_timeout(ppoll_timeout_to_usec(0)) = 0

AdapterGivesUpFirst(kind, ms) ==
    LET given == CodeDuration(TransferCode(kind, ms))
    IN  IF kind \in {"RD", "WRT"} /\ ms \in 1 .. Durations[17]
        THEN given # 0 /\ given \div 100 <= ms
        ELSE given = 0

TicksHold(start, wait, later) ==
    LET mark == StartTimeout(Crt(start, 1, 1), wait)
        now == (start + later) % Modulus
    IN  /\ later > wait + 1 => IsTimeout(mark, Crt(now, 1, 1))
        /\ IsTimeout(mark, Crt(now, 1, 1)) => later > wait

(* Time outs end, and never early: the time out a duration is coded as is  *)
(* the shortest that is long enough; the adapter gives up a read or a      *)
(* write that has a time out before its USB transfer is given up, so that  *)
(* its answer is not left in the pipe, but it is never told to give up a   *)
(* command or a parallel poll, nor a transfer of a time out above 100 000  *)
(* seconds or of none; a time out in ticks is over exactly after its       *)
(* ticks, across the wrap of the counter, when a tick is a millisecond.    *)
TimeoutsHold ==
    /\ call.op = "timeout" => DurationIsCoded(call.units)
    /\ call.op = "transfer" => AdapterGivesUpFirst(call.kind, call.ms)
    /\ call.op = "ticks" => TicksHold(call.start, call.wait, call.later)

Done(c) == CASE c.op = "IBRD" -> read_ioctl(c.remain, c.size, c.results)
             [] c.op = "IBWRT" -> write_ioctl(c.remain, c.size, c.end, c.results)
             [] c.op = "IBCMD" -> command_ioctl(c.remain, c.size, c.results)

TransferIsCounted(c) ==
    LET d == Done(c)
        t == d.last
        earlier == 1 .. t.used - 1
    IN  t.over =>
        /\ ~t.fault => c.remain - t.remain = t.bus
        /\ \A i \in earlier : c.results[i].rc = "ok" /\ ~c.results[i].end
        /\ d.code = "ok" => \/ t.remain = 0 \/ t.end
                            \/ c.op = "IBRD" /\ c.results[t.used].n = 0
        /\ c.op # "IBCMD" /\ t.remain = 0 => d.code = "ok"
        /\ t.eoi \subseteq {0}
        /\ c.op = "IBWRT" /\ c.end /\ d.code = "ok" /\ c.remain > 0 => t.eoi = {0}

(* An ioctl that moves a buffer accounts for every byte: unless a copy     *)
(* failed, the bytes it reports are those moved on the bus; its success    *)
(* means all, or END, or a device that has no more; an error is not        *)
(* reported for a transfer that is complete, which the program would       *)
(* repeat; nothing is asked of the bus after END or an error; and EOI goes *)
(* with the last byte and no other.                                        *)
TransfersAreCounted == call.op \in {"IBRD", "IBWRT", "IBCMD"} => TransferIsCounted(call)

AddressRoundTrip(pad, sad) ==
    LET a == packAddress(pad, sad)
    IN  /\ addressIsValid(a) <=> pad <= 30 /\ sad <= 30
        /\ addressIsValid(a) => extractPAD(a) = pad /\ extractSAD(a) = sad
        /\ ibpad(pad) = <<>> <=> pad > 30
        /\ sad >= 1 => (ibsad(sad) = <<>> <=> sad > 30)

AddressIsChecked(a) ==
    addressIsValid(a) =>
       LET sad == extractSAD(a)
       IN  /\ extractPAD(a) <= gpib_addr_max
           /\ sad \in -1 .. gpib_addr_max
           /\ packAddress(extractPAD(a), sad) % 32 = a % 32

AccessIsInside(offset, length, buffer) ==
    LET ok == PeekPoke(offset, length, buffer) = "ok"
        inside == length \in 1 .. buffer /\ offset + length <= DprSize
        copy == CardCopy(length)
    IN  /\ inside => ok
        /\ ok /\ offset + length < Modulus => inside
        /\ 4 * copy[1] + 2 * copy[2] + copy[3] = length

PagesCoverMemory(address, size) ==
    LET m == AllocateDpr(address, size)
    IN  /\ m.first % Page = 0 /\ m.size % Page = 0
        /\ m.first <= address
        /\ address + size <= m.first + m.size
        /\ m.first + m.size < address + size + Page
        /\ FreeDpr(m.first + m.offset) = m.first

PortIsOfCard(address, length) ==
    LET width == Port(address, length)
    IN  width # INVALID_ADDRESS =>
           /\ width \in {0, length}
           /\ address \in 256 .. 4095

DeviceExists(address) ==
    LET device == DeviceStatus(address)
    IN  device # INVALID_ADDRESS =>
           device < 128 /\ (device = address \/ address > 65535)

FaultIsFound(bad, byte) ==
    LET reads == [i \in 1 .. 3 |-> IF i = bad THEN byte ELSE Patterns[i]]
    IN  TestDpr(reads) = "ok" <=> bad = 0 \/ byte = Patterns[bad]

(* What passes a check is what the check is for: an address packed from a  *)
(* primary and a secondary address is unpacked to them and only such an    *)
(* address is valid; an access that passes is within its buffer and within *)
(* the dual port, and none that fits is refused, unless offset + length    *)
(* wraps, which the sums of DoPeekCommand and DoPokeCommand do not look    *)
(* for; the pages mapped cover the dual port and the pointer returned      *)
(* leads back to them; an access to a port is within the ports of the card *)
(* and a status is that of an existing device; a byte of memory that does  *)
(* not hold a pattern fails the test.                                      *)
MemoryAndAddresses ==
    /\ call.op = "address" => AddressRoundTrip(call.pad, call.sad)
    /\ call.op = "unpack" => AddressIsChecked(call.address)
    /\ call.op = "access" => AccessIsInside(call.offset, call.length, call.buffer)
    /\ call.op = "map" => PagesCoverMemory(call.address, call.size)
    /\ call.op = "port" => PortIsOfCard(call.address, call.length)
    /\ call.op = "device" => DeviceExists(call.address)
    /\ call.op = "test" => FaultIsFound(call.bad, call.byte)
=============================================================================
