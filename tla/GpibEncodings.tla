--------------------------- MODULE GpibEncodings ----------------------------
(***************************************************************************)
(* The conversions of the driver as operators: lengths, read back blocks,  *)
(* time outs and addresses of ni_usb_gpib.c, ticks and pages of auxrut.c,  *)
(* bounds of Card.c.  Bytes of data are stood for by their position.  The  *)
(* unsigned integers of 32 bits are numbers modulo Modulus.                *)
(***************************************************************************)
EXTENDS Integers, Sequences

CONSTANTS Modulus,     \* 2^32 in the code
          Page,        \* 4096 in the code
          DprSize      \* DPR_TOTAL_SIZE

ASSUME ModulusAssumption == Modulus \in Nat /\ Modulus % 2 = 0 /\ Modulus > 2
ASSUME PageAssumption == Page \in 1 .. Modulus /\ Modulus % Page = 0
ASSUME DprAssumption == DprSize \in 1 .. Modulus

-----------------------------------------------------------------------------
(* Lengths. *)

(* complement_count of ni_usb_read and ni_usb_write: two bytes of -length, *)
(* the length cut to 0xffff; and count of a status block, read back in the *)
(* same way.                                                               *)
Cut(length) == IF length > 65535 THEN 65535 ELSE length
ComplementCount(length) == (65536 - Cut(length)) % 65536
StatusCount(raw) == (65536 - raw) % 65536

(* Bytes ni_usb_read can receive for length bytes of data.                 *)
ReadBuffer_NoSpare(length) == (length \div 30) * 32 + 32
ReadBuffer(length) == (length \div 30 + 1) * 32 + 32

(* The answer of the adapter (external): data blocks of 15 bytes, or       *)
(* extended blocks of 30, all of one kind, the last one padded; then the   *)
(* status, ADR1, the count of the last block, two zeros, the status of the *)
(* register writes and the termination, in 28 bytes.                       *)
CeilDiv(a, b) == (a + b - 1) \div b
Packet(n, block) == [blocks |-> CeilDiv(n, block), block |-> block,
                     last |-> IF n = 0 THEN 0 ELSE n - (CeilDiv(n, block) - 1) * block]
BlockBytes(block) == IF block = 15 THEN 16 ELSE 32
PacketLen(p) == p.blocks * BlockBytes(p.block) + 28

(* parse_board_ibrd_readback: what it returns, the bytes stored and        *)
(* *actual_bytes_read.                                                     *)
Readback(p, length) ==
    [consumed |-> p.blocks * BlockBytes(p.block) + 8 + 1 + 1 + 2 + 8 + 1 + 3 + 4,
     stored |-> IF p.blocks * p.block < length THEN p.blocks * p.block ELSE length,
     actual |-> IF p.blocks = 0 THEN 0 ELSE (p.blocks - 1) * p.block + p.last]

(* ni_usb_parse_register_read_block: a start byte before every three       *)
(* results; the position of result j, counted from zero, and where the end *)
(* byte is found.                                                          *)
ResultAt(j) == j + (j \div 3) + 1
RoundUp4(i) == 4 * CeilDiv(i, 4)
EndAt(num) == RoundUp4(num + CeilDiv(num, 3))
RegisterBlockLen(num) == RoundUp4(EndAt(num) + 2)

-----------------------------------------------------------------------------
(* Time outs. *)

(* enum gpib_timeout, TNONE = 0 to T1000s = 17, in units of ten            *)
(* microseconds so that they stay small numbers.                           *)
Durations == <<1, 3, 10, 30, 100, 300, 1000, 3000, 10000, 30000, 100000,
               300000, 1000000, 3000000, 10000000, 30000000, 100000000>>

timeout_to_usec(t) == IF t \in 1 .. 17 THEN Durations[t] ELSE 0

(* The smallest time out that is long enough; none when d is zero or above *)
(* a thousand seconds.                                                     *)
usec_to_timeout(d) ==
    IF d = 0 \/ d > Durations[17] THEN 0
    ELSE CHOOSE t \in 1 .. 17 : /\ d <= Durations[t]
                                /\ t > 1 => Durations[t - 1] < d

(* Codes 0xf0 to 0xff, then 1 and 2.                                       *)
ni_usb_timeout_code(d) ==
    LET t == usec_to_timeout(d) IN IF t <= 15 THEN 240 + t ELSE t - 15
CodeDuration(code) == timeout_to_usec(IF code >= 240 THEN code - 240 ELSE code + 15)

(* The code a request carries, whose USB transfer is given ms milliseconds:*)
(* a read and a write ask the adapter for ten microseconds for each; a     *)
(* command for usec_timeout of usb_data, which is cleared when it is       *)
(* allocated and never set; a parallel poll for none.                      *)
usec_timeout == 0
TransferCode(kind, ms) ==
    CASE kind \in {"RD", "WRT"} -> ni_usb_timeout_code(ms)
      [] kind = "CMD" -> ni_usb_timeout_code(usec_timeout)
      [] kind = "RPP" -> 240

(* A parallel poll waits two microseconds by default: less than one unit,  *)
(* and above none; -1 stands for it.                                       *)
PpollDefault == -1
ppoll_timeout_to_usec(t) == IF t = 0 THEN PpollDefault ELSE timeout_to_usec(t)
usec_to_ppoll_timeout(d) == IF d <= 0 THEN 0 ELSE usec_to_timeout(d)

(* GetCrtMiliSecond: the product wraps, then it is divided.                *)
Crt(ticks, interval, ratio) == ((ticks * interval) % Modulus) \div ratio

(* StartTimeout: zero means no time out, so a mark of zero becomes one.    *)
StartTimeout(now, timeout) ==
    LET mark == (now + timeout) % Modulus IN IF mark = 0 THEN 1 ELSE mark

Signed(u) == IF u >= Modulus \div 2 THEN u - Modulus ELSE u
IsTimeout_Unsigned(mark, now) == mark # 0 /\ mark < now
IsTimeout(mark, now) == mark # 0 /\ Signed((mark - now) % Modulus) < 0

-----------------------------------------------------------------------------
(* Addresses. *)

NOADDR == 65535
SadBits == 96                 \* sad_offset, 0x60
Bits5and6(x) == (x \div 32) % 4
ADDR_INVALID == -2
SAD_DISABLED == -1
gpib_addr_max == 30

(* sad is 0 to 30, or below zero for none.                                 *)
packAddress(pad, sad) ==
    (pad % 256) + (IF sad >= 0 THEN (sad + SadBits - 32 * Bits5and6(sad)) * 256 ELSE 0)

extractPAD(a) == IF a = NOADDR \/ a % 256 > gpib_addr_max THEN ADDR_INVALID
                 ELSE a % 256

extractSAD(a) ==
    LET sad == (a \div 256) % 256
        low == sad - 32 * Bits5and6(sad)
    IN  CASE a = NOADDR -> ADDR_INVALID
          [] a # NOADDR /\ sad = 0 -> SAD_DISABLED
          [] OTHER -> IF Bits5and6(sad) = 0 \/ low > gpib_addr_max
                      THEN ADDR_INVALID ELSE low

addressIsValid(a) ==
    a = NOADDR \/ (extractPAD(a) # ADDR_INVALID /\ extractSAD(a) # ADDR_INVALID)

(* ibpad and ibsad: what is written to the adapter, if anything.           *)
ibpad(addr) == IF addr > 30 THEN <<>> ELSE <<addr>>
ibsad(addr) == IF addr > 30 THEN <<>>
               ELSE IF addr >= 1 THEN <<addr, TRUE>> ELSE <<0, FALSE>>

-----------------------------------------------------------------------------
(* The dual port and the ports. *)

(* AllocateDpr: the pages mapped for [address, address + size), and the    *)
(* offset of the pointer returned; FreeDpr goes back to the page.          *)
AllocateDpr(address, size) ==
    LET offset == address % Page
        grown == (size + offset) % Modulus
    IN  [first |-> address - offset,
         size |-> (grown + ((Page - (grown % Page)) % Page)) % Modulus,
         offset |-> offset]
FreeDpr(pointer) == pointer - (pointer % Page)

(* CardCopy: the widths of its accesses.                                   *)
CardCopy(size) == <<size \div 4, (size % 4) \div 2, size % 2>>

(* DoPeekCommand, DoPokeCommand: "ok" and its error codes.                 *)
PeekPoke_AnyLength(offset, length, buffer) ==
    IF length = 0 THEN "RW_ZERO"
    ELSE IF (offset + length) % Modulus > DprSize THEN "DPR_OUT" ELSE "ok"

PeekPoke(offset, length, buffer) ==
    CASE length = 0 -> "RW_ZERO"
      [] length # 0 /\ length > buffer -> "SIZE"
      [] length # 0 /\ length <= buffer ->
           IF (offset + length) % Modulus > DprSize THEN "DPR_OUT" ELSE "ok"

INVALID_ADDRESS == -1

(* PortInput, PortOutput: the width of the access, or the error; an access *)
(* of four bytes does nothing.                                             *)
Port(address, length) ==
    IF address \in 256 .. 4095
    THEN IF length \in {1, 2} THEN length ELSE 0
    ELSE INVALID_ADDRESS

(* GetDeviceStatus takes 16 bits of the address.                           *)
DeviceStatus(address) == IF address % 65536 < 128 THEN address % 65536
                         ELSE INVALID_ADDRESS

(* TestAndFill, Init: the memory test writes a pattern and finds it again  *)
(* in the next pass; cells maps a position to what it reads back.          *)
Patterns == <<255, 85, 170, 0>>
TestDpr(reads) == IF \A i \in 1 .. 3 : reads[i] = Patterns[i]
                  THEN "ok" ELSE "HW_TEST"
=============================================================================
