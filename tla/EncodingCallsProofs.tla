------------------------ MODULE EncodingCallsProofs -------------------------
(***************************************************************************)
(* Proofs about the conversions of GpibEncodings and the loops of          *)
(* GpibTransfers, for integers of any width, transfers of any length and   *)
(* any results of the interface driver's calls.                            *)
(***************************************************************************)
EXTENDS EncodingCalls, WellFoundedInduction, TLAPS

-----------------------------------------------------------------------------
(* Lengths. *)

(* An answer with n of length bytes, in blocks of either size, fits the    *)
(* buffer of ni_usb_read and is parsed to its end.                         *)
LEMMA ReadsAreParsed ==
    ASSUME NEW length \in Nat, NEW n \in 0 .. length, NEW block \in {15, 30}
    PROVE  ReadIsParsed(length, n, block)
<1>. DEFINE b == CeilDiv(n, block)
            w == BlockBytes(block)
<1>1. b \in Nat /\ n <= b * block /\ b * block < n + block /\ (n = 0 <=> b = 0)
  <2>1. CASE block = 15
    BY <2>1 DEF CeilDiv
  <2>2. CASE block = 30
    BY <2>2 DEF CeilDiv
  <2>. QED
    BY <2>1, <2>2
<1>2. Packet(n, block).blocks = b /\ Packet(n, block).block = block
      /\ Packet(n, block).last = IF n = 0 THEN 0 ELSE n - (b - 1) * block
  BY DEF Packet
<1>3. PacketLen(Packet(n, block)) = b * w + 28
  BY <1>2 DEF PacketLen
<1>4. b * w <= (length \div 30 + 1) * 32 + 4
  <2>1. CASE block = 15
    <3>1. w = 16 /\ b = (n + 14) \div 15
      BY <2>1 DEF BlockBytes, CeilDiv
    <3>2. b <= 2 * (length \div 30) + 2
      BY <3>1
    <3>. QED
      BY <1>1, <3>1, <3>2
  <2>2. CASE block = 30
    <3>1. w = 32 /\ b = (n + 29) \div 30
      BY <2>2 DEF BlockBytes, CeilDiv
    <3>2. b <= length \div 30 + 1
      BY <3>1
    <3>. QED
      BY <1>1, <3>1, <3>2
  <2>. QED
    BY <2>1, <2>2
<1>5. Readback(Packet(n, block), length).consumed = b * w + 28
  <2>1. w \in Nat /\ b * w \in Nat
    BY <1>1 DEF BlockBytes
  <2>2. Readback(Packet(n, block), length).consumed = b * w + 8 + 1 + 1 + 2 + 8 + 1 + 3 + 4
    BY <1>2, Zenon DEF Readback
  <2>. HIDE DEF b, w
  <2>. QED
    BY <2>1, <2>2
<1>6. Readback(Packet(n, block), length).actual = n
  <2>1. CASE block = 15
    BY <1>1, <1>2, <2>1 DEF Readback
  <2>2. CASE block = 30
    BY <1>1, <1>2, <2>2 DEF Readback
  <2>. QED
    BY <2>1, <2>2
<1>7. Readback(Packet(n, block), length).stored
        = IF b * block < length THEN b * block ELSE length
  BY <1>2 DEF Readback
<1>8. PacketLen(Packet(n, block)) <= ReadBuffer(length)
  <2>1. w \in Nat /\ b * w \in Nat
    BY <1>1 DEF BlockBytes
  <2>. QED
    BY <1>3, <1>4, <2>1 DEF ReadBuffer
<1>9. b * block \in Nat
  BY <1>1
<1>. HIDE DEF b, w
<1>. QED
  BY <1>1, <1>3, <1>5, <1>6, <1>7, <1>8, <1>9 DEF ReadIsParsed

(* A length that fits 16 bits is read back from its complement.            *)
LEMMA CountsAreReadBack ==
    ASSUME NEW length \in Nat
    PROVE  CountIsReadBack(length)
<1>. SUFFICES ASSUME 1 <= length, length <= 65535
              PROVE  StatusCount(ComplementCount(length)) = length
  BY DEF CountIsReadBack
<1>1. ComplementCount(length) = 65536 - length
  BY DEF ComplementCount, Cut
<1>2. 65536 - (65536 - length) = length
  OBVIOUS
<1>3. length % 65536 = length
  OBVIOUS
<1>4. StatusCount(65536 - length) = length
  BY <1>2, <1>3 DEF StatusCount
<1>. QED
  BY <1>1, <1>4

(* Where the results of a register read are, whatever their number.        *)
LEMMA RegistersApart ==
    ASSUME NEW num \in Nat \ {0}
    PROVE  RegistersAreApart(num)
<1>1. EndAt(num) = 4 * ((num + (num + 2) \div 3 + 3) \div 4)
  BY DEF EndAt, RoundUp4, CeilDiv
<1>2. ASSUME NEW j \in 0 .. (num - 1) \div 3 PROVE 4 * j < EndAt(num)
  BY <1>1
<1>3. ASSUME NEW j \in 0 .. num - 1
      PROVE  /\ ResultAt(j) < EndAt(num)
             /\ \A i \in 0 .. (num - 1) \div 3 : 4 * i # ResultAt(j)
  BY <1>1 DEF ResultAt
<1>4. RegisterBlockLen(num) - EndAt(num) = 4
  BY <1>1 DEF RegisterBlockLen, RoundUp4, CeilDiv
<1>. QED
  BY <1>2, <1>3, <1>4 DEF RegistersAreApart

-----------------------------------------------------------------------------
(* Time outs. *)

(* A set of natural numbers has a least element: the form in which the     *)
(* proofs use induction.                                                   *)
LEMMA Smallest ==
    ASSUME NEW T \in SUBSET Nat, T # {}
    PROVE  \E n \in T : \A m \in T : n <= m
<1>. DEFINE R == {ss \in Nat \X Nat : ss[1] < ss[2]}
<1>1. IsWellFoundedOn(R, Nat)
  BY NatLessThanWellFounded DEF OpToRel
<1>2. \E x \in T : \A y \in T : ~(<<y, x>> \in R)
  <2>. HIDE DEF R
  <2>. QED
    BY <1>1, WFMin
<1>3. PICK n \in T : \A m \in T : ~(<<m, n>> \in R)
  BY <1>2
<1>4. ASSUME NEW m \in T PROVE n <= m
  <2>1. m \in Nat /\ n \in Nat /\ <<m, n>> \in Nat \X Nat
    OBVIOUS
  <2>2. ~(<<m, n>>[1] < <<m, n>>[2])
    BY <1>3, <2>1
  <2>. QED
    BY <2>1, <2>2
<1>. QED
  BY <1>4

Codes == 1 .. 17

(* The durations of enum gpib_timeout grow, at most fourfold.              *)
LEMMA DurationsGrow ==
    /\ \A t \in Codes : Durations[t] \in Nat \ {0}
    /\ \A t \in Codes : t > 1 => /\ Durations[t - 1] < Durations[t]
                                /\ Durations[t] <= 4 * Durations[t - 1]
    /\ Durations[1] = 1 /\ Durations[17] = 100000000
BY DEF Durations, Codes

(* Longer codes stand for longer durations.                                *)
LEMMA DurationsIncrease ==
    \A t, u \in Codes : t < u => Durations[t] < Durations[u]
BY DEF Durations, Codes

(* usec_to_timeout finds the shortest duration that is long enough.        *)
LEMMA ShortestDuration ==
    ASSUME NEW d \in Nat, d # 0, d <= Durations[17]
    PROVE  LET t == usec_to_timeout(d)
           IN  /\ t \in Codes /\ d <= Durations[t]
               /\ t > 1 => Durations[t - 1] < d
               /\ \A u \in Codes : d <= Durations[u] => t <= u
<1>. DEFINE T == {t \in Codes : d <= Durations[t]}
            Good(t) == d <= Durations[t] /\ (t > 1 => Durations[t - 1] < d)
<1>1. PICK t \in T : \A u \in T : t <= u
  <2>1. T \in SUBSET Nat /\ 17 \in T
    BY DEF Codes
  <2>. HIDE DEF T
  <2>. QED
    BY <2>1, Smallest
<1>2. Good(t)
  <2>. SUFFICES ASSUME t > 1, ~(Durations[t - 1] < d) PROVE FALSE
    OBVIOUS
  <2>1. t - 1 \in Codes
    BY DEF Codes
  <2>2. d <= Durations[t - 1]
    BY <2>1, DurationsGrow
  <2>3. t - 1 \in T /\ t \in Nat
    BY <2>1, <2>2 DEF Codes
  <2>4. t <= t - 1
    BY <1>1, <2>3
  <2>. QED
    BY <2>3, <2>4
<1>. DEFINE r == usec_to_timeout(d)
<1>3. r \in Codes /\ Good(r)
  <2>0. ~(d = 0 \/ d > Durations[17])
    BY DurationsGrow
  <2>1. r = CHOOSE u \in Codes : Good(u)
    BY <2>0, Zenon DEF usec_to_timeout, Codes
  <2>. HIDE DEF Good, r
  <2>. QED
    BY <1>1, <1>2, <2>1
<1>4. ASSUME NEW u \in Codes, d <= Durations[u] PROVE r <= u
  <2>. SUFFICES ASSUME u < r PROVE FALSE
    BY <1>3 DEF Codes
  <2>1. r - 1 \in Codes /\ r > 1 /\ u <= r - 1
    BY <1>3 DEF Codes
  <2>2. Durations[u] <= Durations[r - 1]
    BY <2>1, DurationsIncrease, DurationsGrow DEF Codes
  <2>3. Durations[r - 1] < d
    BY <1>3, <2>1
  <2>4. Durations[u] \in Nat /\ Durations[r - 1] \in Nat
    BY <2>1, DurationsGrow
  <2>. QED
    BY <1>4, <2>2, <2>3, <2>4
<1>. QED
  BY <1>3, <1>4

(* A duration in the range is coded as the shortest long enough, which the *)
(* tables of the core give back; none other is coded.                      *)
LEMMA ShortestIsCoded ==
    ASSUME NEW d \in Nat, d # 0, d <= Durations[17]
    PROVE  LET code == CodeDuration(ni_usb_timeout_code(d))
           IN  /\ code = Durations[usec_to_timeout(d)]
               /\ d <= code
               /\ \A t \in Codes : d <= Durations[t] => code <= Durations[t]
               /\ timeout_to_usec(usec_to_timeout(code)) = code
               /\ ppoll_timeout_to_usec(usec_to_ppoll_timeout(d)) = code
<1>. DEFINE t == usec_to_timeout(d)
            code == CodeDuration(ni_usb_timeout_code(d))
<1>1. /\ t \in Codes /\ d <= Durations[t]
      /\ \A u \in Codes : d <= Durations[u] => t <= u
  BY ShortestDuration
<1>2. code = Durations[t]
  <2>. HIDE DEF t
  <2>1. ni_usb_timeout_code(d) = IF t <= 15 THEN 240 + t ELSE t - 15
    BY DEF t, ni_usb_timeout_code
  <2>2. CodeDuration(IF t <= 15 THEN 240 + t ELSE t - 15) = timeout_to_usec(t)
    BY <1>1 DEF CodeDuration, Codes
  <2>. QED
    BY <1>1, <2>1, <2>2 DEF timeout_to_usec, Codes
<1>3. ASSUME NEW u \in Codes, d <= Durations[u] PROVE Durations[t] <= Durations[u]
  <2>1. t <= u /\ Durations[t] \in Nat
    BY <1>1, <1>3, DurationsGrow
  <2>. HIDE DEF t
  <2>. QED
    BY <1>1, <2>1, DurationsIncrease, DurationsGrow DEF Codes
<1>4. usec_to_timeout(Durations[t]) = t
  <2>. HIDE DEF t
  <2>. DEFINE e == Durations[t]
              u == usec_to_timeout(e)
  <2>1. e \in Nat /\ e # 0 /\ e <= Durations[17]
    BY <1>1, DurationsGrow, DurationsIncrease DEF Codes
  <2>2. u \in Codes /\ e <= Durations[u] /\ (e <= Durations[t] => u <= t)
    <3>. HIDE DEF e
    <3>. QED
      BY <1>1, <2>1, ShortestDuration
  <2>3. u <= t
    BY <2>1, <2>2
  <2>. HIDE DEF u
  <2>4. ~(u < t)
    BY <1>1, <2>1, <2>2, DurationsIncrease, DurationsGrow
  <2>5. u = t
    BY <1>1, <2>2, <2>3, <2>4 DEF Codes
  <2>. QED
    BY <2>5 DEF u
<1>5. timeout_to_usec(usec_to_timeout(code)) = code
  <2>1. timeout_to_usec(t) = Durations[t]
    BY <1>1 DEF timeout_to_usec, Codes
  <2>. HIDE DEF code, t
  <2>. QED
    BY <1>2, <1>4, <2>1
<1>6. ppoll_timeout_to_usec(usec_to_ppoll_timeout(d)) = code
  <2>1. usec_to_ppoll_timeout(d) = t
    BY DEF usec_to_ppoll_timeout
  <2>. HIDE DEF code, t
  <2>2. t # 0
    BY <1>1 DEF Codes
  <2>. QED
    BY <1>1, <1>2, <2>1, <2>2 DEF ppoll_timeout_to_usec, timeout_to_usec, Codes
<1>. HIDE DEF code, t
<1>7. d <= code /\ \A u \in Codes : d <= Durations[u] => code <= Durations[u]
  BY <1>1, <1>2, <1>3
<1>. QED
  BY <1>2, <1>5, <1>6, <1>7 DEF code, t

(* Zero and what is above a thousand seconds are coded as no time out.     *)
LEMMA DurationsAreCoded ==
    ASSUME NEW d \in Nat
    PROVE  DurationIsCoded(d)
<1>1. CASE d = 0 \/ d > Durations[17]
  <2>1. usec_to_timeout(d) = 0
    BY <1>1 DEF usec_to_timeout
  <2>2. ni_usb_timeout_code(d) = 240
    BY <2>1 DEF ni_usb_timeout_code
  <2>3. CodeDuration(240) = 0
    BY DEF CodeDuration, timeout_to_usec
  <2>. QED
    BY <1>1, <2>2, <2>3 DEF DurationIsCoded
<1>2. CASE ~(d = 0 \/ d > Durations[17])
  <2>1. d # 0 /\ d <= Durations[17]
    BY <1>2, DurationsGrow
  <2>2. usec_to_ppoll_timeout(ppoll_timeout_to_usec(0)) = 0
    BY DEF usec_to_ppoll_timeout, ppoll_timeout_to_usec, PpollDefault
  <2>. QED
    BY <1>2, <2>1, <2>2, ShortestIsCoded, Zenon DEF DurationIsCoded, Codes
<1>. QED
  BY <1>1, <1>2

(* A read or a write of ms milliseconds gives the adapter a time out, and  *)
(* one that is over before the transfer's; any other transfer gives none.  *)
LEMMA AdapterFirst ==
    ASSUME NEW kind \in {"RD", "WRT", "CMD", "RPP"}, NEW ms \in Nat
    PROVE  AdapterGivesUpFirst(kind, ms)
<1>0. Durations[17] \in Nat
  BY DurationsGrow DEF Codes
<1>1. ASSUME kind \in {"RD", "WRT"}, ms # 0, ms <= Durations[17]
      PROVE  AdapterGivesUpFirst(kind, ms)
  <2>. DEFINE t == usec_to_timeout(ms)
  <2>1. CodeDuration(TransferCode(kind, ms)) = Durations[t]
    BY <1>1, ShortestIsCoded DEF TransferCode
  <2>2. t \in Codes /\ (t > 1 => Durations[t - 1] < ms)
    BY <1>1, ShortestDuration
  <2>. HIDE DEF t
  <2>3. Durations[t] \in Nat /\ Durations[t] # 0 /\ Durations[t] <= 4 * ms
    <3>1. CASE t = 1
      BY <1>1, <3>1, DurationsGrow DEF Codes
    <3>2. CASE t > 1
      <4>1. t - 1 \in Codes
        BY <2>2, <3>2 DEF Codes
      <4>2. Durations[t - 1] \in Nat /\ Durations[t] \in Nat \ {0}
            /\ Durations[t] <= 4 * Durations[t - 1]
        BY <2>2, <3>2, <4>1, DurationsGrow
      <4>. QED
        BY <1>1, <2>2, <3>2, <4>2
    <3>. QED
      BY <2>2, <3>1, <3>2 DEF Codes
  <2>4. \A g \in Nat : g <= 4 * ms => g \div 100 <= ms
    OBVIOUS
  <2>. QED
    BY <1>1, <2>1, <2>3, <2>4 DEF AdapterGivesUpFirst
<1>2. CodeDuration(240) = 0 /\ ni_usb_timeout_code(0) = 240
  BY DEF CodeDuration, timeout_to_usec, ni_usb_timeout_code, usec_to_timeout
<1>3. ASSUME kind \in {"RD", "WRT"}, ms = 0 \/ ms > Durations[17]
      PROVE  AdapterGivesUpFirst(kind, ms)
  <2>1. usec_to_timeout(ms) = 0
    BY <1>3 DEF usec_to_timeout
  <2>2. TransferCode(kind, ms) = 240
    BY <1>3, <2>1 DEF TransferCode, ni_usb_timeout_code
  <2>3. ~(ms \in 1 .. Durations[17])
    BY <1>0, <1>3
  <2>. QED
    BY <1>2, <2>2, <2>3 DEF AdapterGivesUpFirst
<1>4. ASSUME kind \in {"CMD", "RPP"} PROVE AdapterGivesUpFirst(kind, ms)
  <2>1. TransferCode(kind, ms) = 240
    BY <1>2, <1>4 DEF TransferCode, usec_timeout
  <2>. QED
    BY <1>2, <1>4, <2>1 DEF AdapterGivesUpFirst
<1>. QED
  BY <1>0, <1>1, <1>3, <1>4

-----------------------------------------------------------------------------
(* Ticks, modulo Modulus. *)

(* What the unsigned arithmetic makes of sums and differences that leave   *)
(* the range once.                                                         *)
LEMMA Wraps ==
    ASSUME NEW a \in Int
    PROVE  /\ 0 <= a /\ a < Modulus => a % Modulus = a
           /\ Modulus <= a /\ a < 2 * Modulus => a % Modulus = a - Modulus
           /\ -Modulus <= a /\ a < 0 => a % Modulus = a + Modulus
<1>0. Modulus \in Nat /\ Modulus > 2
  BY ModulusAssumption
<1>1. ASSUME 0 <= a, a < Modulus PROVE a % Modulus = a
  BY <1>0, <1>1
<1>2. ASSUME Modulus <= a, a < 2 * Modulus PROVE a % Modulus = a - Modulus
  BY <1>0, <1>2
<1>3. ASSUME -Modulus <= a, a < 0 PROVE a % Modulus = a + Modulus
  BY <1>0, <1>3
<1>. QED
  BY <1>1, <1>2, <1>3

(* A time out of wait ticks, looked at later: it is over after its ticks,  *)
(* at most one late, and never before, wherever the counter wraps.         *)
LEMMA TicksAreCounted ==
    ASSUME NEW start \in Words, NEW wait \in 0 .. MaxWait, NEW later \in 0 .. 2 * MaxWait
    PROVE  TicksHold(start, wait, later)
<1>. DEFINE now == (start + later) % Modulus
            mark == StartTimeout(Crt(start, 1, 1), wait)
            half == Modulus \div 2
<1>0. /\ Modulus \in Nat /\ Modulus > 2 /\ MaxWait \in Nat /\ 4 * MaxWait < Modulus
      /\ start \in Int /\ 0 <= start /\ start < Modulus
      /\ wait \in Int /\ 0 <= wait /\ wait <= MaxWait
      /\ later \in Int /\ 0 <= later /\ later <= 2 * MaxWait
  BY ModulusAssumption, WaitAssumption DEF Words
<1>1. half \in Int /\ 2 * half = Modulus
  BY ModulusAssumption
<1>2. ASSUME NEW w \in Int, 0 <= w, w < Modulus PROVE Crt(w, 1, 1) = w
  <2>1. w * 1 = w /\ w % Modulus = w
    BY <1>2, Wraps
  <2>. QED
    BY <1>2, <2>1 DEF Crt
<1>3. now = IF start + later < Modulus THEN start + later ELSE start + later - Modulus
  BY <1>0, Wraps
<1>4. Crt(start, 1, 1) = start /\ Crt(now, 1, 1) = now
  <2>. HIDE DEF now
  <2>. QED
    BY <1>0, <1>2, <1>3
<1>. DEFINE sum == (start + wait) % Modulus
<1>5. sum = IF start + wait < Modulus THEN start + wait ELSE start + wait - Modulus
  BY <1>0, Wraps
<1>6. mark = IF sum = 0 THEN 1 ELSE sum
  BY <1>4 DEF StartTimeout
<1>. DEFINE gap == (mark - now) % Modulus
<1>. HIDE DEF now, mark, sum, half
<1>7. gap = IF mark - now < 0 THEN mark - now + Modulus ELSE mark - now
  BY <1>0, <1>3, <1>5, <1>6, Wraps
<1>. HIDE DEF gap
<1>8. IsTimeout(mark, now) <=> mark # 0 /\ gap >= half
  <2>1. Signed(gap) < 0 <=> gap >= half
    BY <1>0, <1>1, <1>3, <1>5, <1>6, <1>7 DEF Signed, half
  <2>. QED
    BY <2>1 DEF IsTimeout, gap
<1>9. /\ later > wait + 1 => mark # 0 /\ gap >= half
      /\ gap >= half => later > wait
  BY <1>0, <1>1, <1>3, <1>5, <1>6, <1>7
<1>. QED
  BY <1>4, <1>8, <1>9 DEF now, mark, TicksHold

-----------------------------------------------------------------------------
(* Addresses. *)

(* An address is unpacked to what it was packed from, and is valid only    *)
(* when both parts are.                                                    *)
LEMMA AddressesReturn ==
    ASSUME NEW pad \in 0 .. 31, NEW sad \in -1 .. 31
    PROVE  AddressRoundTrip(pad, sad)
<1>. DEFINE a == packAddress(pad, sad)
<1>0. pad \in Int /\ 0 <= pad /\ pad <= 31 /\ sad \in Int /\ -1 <= sad /\ sad <= 31
  OBVIOUS
<1>1. a = IF sad >= 0 THEN pad + (sad + 96) * 256 ELSE pad
  <2>1. sad >= 0 => Bits5and6(sad) = 0
    BY <1>0 DEF Bits5and6
  <2>2. pad % 256 = pad
    BY <1>0
  <2>. QED
    BY <1>0, <2>1, <2>2 DEF packAddress, SadBits
<1>. DEFINE high == IF sad >= 0 THEN sad + 96 ELSE 0
<1>2. a # NOADDR /\ a % 256 = pad /\ (a \div 256) % 256 = high
  BY <1>0, <1>1 DEF NOADDR
<1>. HIDE DEF a
<1>3. extractPAD(a) = IF pad > 30 THEN ADDR_INVALID ELSE pad
  BY <1>2 DEF extractPAD, gpib_addr_max
<1>4. extractSAD(a) = IF sad < 0 THEN SAD_DISABLED
                      ELSE IF sad > 30 THEN ADDR_INVALID ELSE sad
  <2>1. CASE sad < 0
    BY <1>2, <2>1 DEF extractSAD
  <2>2. CASE sad >= 0
    <3>1. Bits5and6(high) = 3 /\ high # 0 /\ high - 32 * 3 = sad
      BY <1>0, <2>2 DEF Bits5and6
    <3>. HIDE DEF high
    <3>. QED
      BY <1>0, <1>2, <2>2, <3>1 DEF extractSAD, gpib_addr_max
  <2>. QED
    BY <1>0, <2>1, <2>2
<1>5. sad < 0 <=> sad = -1
  BY <1>0
<1>6. /\ addressIsValid(a) <=> pad <= 30 /\ sad <= 30
      /\ addressIsValid(a) => extractPAD(a) = pad /\ extractSAD(a) = sad
  BY <1>0, <1>2, <1>3, <1>4, <1>5 DEF addressIsValid, ADDR_INVALID, SAD_DISABLED
<1>7. <<pad>> # <<>> /\ <<sad, TRUE>> # <<>>
  OBVIOUS
<1>8. /\ ibpad(pad) = <<>> <=> pad > 30
      /\ sad >= 1 => (ibsad(sad) = <<>> <=> sad > 30)
  BY <1>7 DEF ibpad, ibsad
<1>. QED
  BY <1>6, <1>8 DEF AddressRoundTrip, a

(* What a caller's address is unpacked to, when it is taken for valid.     *)
LEMMA AddressesAreChecked ==
    ASSUME NEW a \in Nat, a # NOADDR
    PROVE  AddressIsChecked(a)
<1>. SUFFICES ASSUME addressIsValid(a)
              PROVE  LET sad == extractSAD(a)
                     IN  /\ extractPAD(a) <= gpib_addr_max
                         /\ sad \in -1 .. gpib_addr_max
                         /\ packAddress(extractPAD(a), sad) % 32 = a % 32
  BY Zenon DEF AddressIsChecked
<1>1. extractPAD(a) # ADDR_INVALID /\ extractSAD(a) # ADDR_INVALID
  BY DEF addressIsValid
<1>2. extractPAD(a) = a % 256 /\ a % 256 <= 30
  BY <1>1 DEF extractPAD, gpib_addr_max
<1>. DEFINE high == (a \div 256) % 256
            low == high - 32 * Bits5and6(high)
<1>3. high \in 0 .. 255 /\ low \in Nat
  BY DEF Bits5and6
<1>4. extractSAD(a) = -1 \/ (extractSAD(a) = low /\ low <= 30)
  <2>. HIDE DEF high
  <2>1. CASE high = 0
    BY <2>1 DEF extractSAD, SAD_DISABLED, high
  <2>2. CASE high # 0
    <3>1. extractSAD(a) = IF Bits5and6(high) = 0 \/ low > gpib_addr_max
                          THEN ADDR_INVALID ELSE low
      BY <2>2 DEF extractSAD, high
    <3>. QED
      BY <1>1, <1>3, <3>1 DEF gpib_addr_max
  <2>. QED
    BY <2>1, <2>2
<1>. HIDE DEF low
<1>. DEFINE sad == extractSAD(a)
            pad == a % 256
<1>5. sad \in Int /\ -1 <= sad /\ sad <= 30
  BY <1>3, <1>4
<1>6. pad \in Int /\ 0 <= pad /\ pad <= 30 /\ pad % 32 = a % 32
  BY <1>2
<1>. HIDE DEF sad, pad
<1>7. packAddress(pad, sad) % 32 = pad % 32
  <2>1. pad % 256 = pad
    BY <1>6
  <2>2. CASE sad >= 0
    <3>1. packAddress(pad, sad) = pad + 32 * (8 * (sad + 96 - 32 * Bits5and6(sad)))
      BY <1>5, <2>1, <2>2 DEF packAddress, SadBits, Bits5and6
    <3>2. Bits5and6(sad) = 0
      BY <1>5, <2>2 DEF Bits5and6
    <3>. QED
      BY <1>5, <1>6, <3>1, <3>2
  <2>3. CASE sad < 0
    BY <1>5, <1>6, <2>1, <2>3 DEF packAddress
  <2>. QED
    BY <1>5, <2>2, <2>3
<1>. QED
  BY <1>2, <1>5, <1>6, <1>7 DEF gpib_addr_max, sad, pad

-----------------------------------------------------------------------------
(* The dual port and the ports. *)

(* CardCopy moves each byte once.                                          *)
LEMMA CopyIsComplete ==
    ASSUME NEW size \in Nat
    PROVE  LET copy == CardCopy(size) IN 4 * copy[1] + 2 * copy[2] + copy[3] = size
<1>. DEFINE q == size \div 4
            r == size % 4
<1>1. q \in Nat /\ r \in Nat /\ r < 4 /\ size = 4 * q + r
  OBVIOUS
<1>. HIDE DEF q, r
<1>2. 2 * (r \div 2) + (r % 2) = r /\ r \div 2 \in Nat
  BY <1>1
<1>3. size % 2 = r % 2
  BY <1>1
<1>4. 4 * q + 2 * (r \div 2) + (size % 2) = size
  BY <1>1, <1>2, <1>3
<1>5. CardCopy(size) = <<q, r \div 2, size % 2>>
  BY Zenon DEF CardCopy, q, r
<1>. QED
  BY <1>4, <1>5

(* An access that fits is let through, and one let through fits unless its *)
(* end is past the last integer.                                           *)
LEMMA AccessesAreInside ==
    ASSUME NEW offset \in Words, NEW length \in 0 .. Modulus \div 2, NEW buffer \in Nat
    PROVE  AccessIsInside(offset, length, buffer)
<1>. DEFINE end == (offset + length) % Modulus
<1>0. /\ offset \in Int /\ 0 <= offset /\ offset < Modulus /\ Modulus \in Nat
      /\ length \in Int /\ 0 <= length /\ length < Modulus
      /\ DprSize \in Nat /\ DprSize <= Modulus
  BY ModulusAssumption, DprAssumption DEF Words
<1>1. end = IF offset + length < Modulus THEN offset + length ELSE offset + length - Modulus
  BY <1>0, Wraps
<1>2. PeekPoke(offset, length, buffer) = "ok"
        <=> length # 0 /\ length <= buffer /\ end <= DprSize
  <2>. HIDE DEF end
  <2>1. CASE length = 0
    BY <2>1 DEF PeekPoke
  <2>2. CASE length # 0 /\ length > buffer
    BY <1>0, <2>2 DEF PeekPoke
  <2>3. CASE length # 0 /\ length <= buffer
    <3>1. end \in Int
      BY <1>0, <1>1
    <3>. QED
      BY <1>0, <2>3, <3>1 DEF PeekPoke, end
  <2>. QED
    BY <1>0, <2>1, <2>2, <2>3
<1>. HIDE DEF end
<1>3. length \in 1 .. buffer <=> length # 0 /\ length <= buffer
  BY <1>0
<1>4. length \in Nat
  BY <1>0
<1>. DEFINE ok == PeekPoke(offset, length, buffer) = "ok"
            inside == length \in 1 .. buffer /\ offset + length <= DprSize
<1>5. (inside => ok) /\ (ok /\ offset + length < Modulus => inside)
  BY <1>0, <1>1, <1>2, <1>3
<1>. QED
  BY <1>4, <1>5, CopyIsComplete, Zenon DEF AccessIsInside

(* An offset into a page.                                                  *)
LEMMA Pages ==
    ASSUME NEW n \in Nat
    PROVE  /\ n % Page \in Nat /\ n % Page < Page /\ n % Page <= n
           /\ (n - (n % Page)) % Page = 0
           /\ (n + (Page - (n % Page))) % Page = 0
<1>0. Page \in Nat /\ Page > 0
  BY PageAssumption, ModulusAssumption
<1>. DEFINE r == n % Page
            q == n \div Page
<1>1. r \in Nat /\ r < Page
  BY <1>0
<1>2. q \in Int /\ n = q * Page + r
  BY <1>0
<1>3. q >= 0
  BY <1>0
<1>. HIDE DEF r, q
<1>4. q * Page \in Nat
  BY <1>0, <1>2, <1>3
<1>5. (q * Page) % Page = 0 /\ ((q + 1) * Page) % Page = 0
  BY <1>0, <1>2
<1>6. n - r = q * Page /\ n + (Page - r) = (q + 1) * Page
  BY <1>0, <1>1, <1>2
<1>7. r <= n
  BY <1>1, <1>2, <1>4
<1>8. (n - r) % Page = 0 /\ (n + (Page - r)) % Page = 0
  BY <1>5, <1>6
<1>. QED
  BY <1>1, <1>7, <1>8, Zenon DEF r

(* The pages AllocateDpr maps cover the memory asked for and no page more, *)
(* and FreeDpr finds the first of them in the pointer returned.            *)
LEMMA PagesCover ==
    ASSUME NEW address \in Addresses, NEW size \in 1 .. DprSize
    PROVE  PagesCoverMemory(address, size)
<1>. DEFINE offset == address % Page
            grown == (size + offset) % Modulus
            rest == grown % Page
            mapped == (grown + ((Page - rest) % Page)) % Modulus
<1>0. /\ address \in Nat /\ size \in Nat /\ Page \in Nat /\ Page > 0 /\ Modulus \in Nat
      /\ address + size + Page <= Modulus /\ DprSize \in Nat
  BY AddressesAssumption, PageAssumption, ModulusAssumption, DprAssumption
<1>1. offset \in Nat /\ offset < Page /\ offset <= address /\ (address - offset) % Page = 0
  BY <1>0, Pages, Zenon
<1>. HIDE DEF offset
<1>2. grown = size + offset
  BY <1>0, <1>1, Wraps
<1>3. rest \in Nat /\ rest < Page /\ (grown + (Page - rest)) % Page = 0
  <2>1. grown \in Nat
    BY <1>0, <1>1, <1>2
  <2>. HIDE DEF grown
  <2>. QED
    BY <2>1, Pages, Zenon
<1>. HIDE DEF grown, rest
<1>4. (Page - rest) % Page = IF rest = 0 THEN 0 ELSE Page - rest
  BY <1>0, <1>3
<1>5. mapped = IF rest = 0 THEN grown ELSE grown + (Page - rest)
  <2>1. CASE rest = 0
    BY <1>0, <1>1, <1>2, <1>4, <2>1, Wraps
  <2>2. CASE rest # 0
    BY <1>0, <1>1, <1>2, <1>3, <1>4, <2>2, Wraps
  <2>. QED
    BY <2>1, <2>2
<1>. HIDE DEF mapped
<1>6. mapped % Page = 0
  <2>1. CASE rest = 0
    BY <1>5, <2>1 DEF rest
  <2>2. CASE rest # 0
    BY <1>3, <1>5, <2>2
  <2>. QED
    BY <2>1, <2>2
<1>7. AllocateDpr(address, size) = [first |-> address - offset, size |-> mapped, offset |-> offset]
  BY Zenon DEF AllocateDpr, offset, grown, rest, mapped
<1>8. FreeDpr((address - offset) + offset) = address - offset
  <2>1. (address - offset) + offset = address
    BY <1>0, <1>1
  <2>. QED
    BY <2>1, Zenon DEF FreeDpr, offset
<1>. QED
  BY <1>0, <1>1, <1>2, <1>3, <1>5, <1>6, <1>7, <1>8 DEF PagesCoverMemory

(* An access that is done goes to a port of the card.                      *)
LEMMA PortsAreOfCard ==
    ASSUME NEW address \in Nat, NEW length \in Nat
    PROVE  PortIsOfCard(address, length)
BY DEF PortIsOfCard, Port, INVALID_ADDRESS

(* A status that is returned is that of one of the 128 devices.            *)
LEMMA DevicesExist ==
    ASSUME NEW address \in Nat
    PROVE  DeviceExists(address)
<1>1. address <= 65535 => address % 65536 = address
  OBVIOUS
<1>. QED
  BY <1>1 DEF DeviceExists, DeviceStatus, INVALID_ADDRESS

(* A byte that does not hold a pattern fails the memory test.              *)
LEMMA FaultsAreFound ==
    ASSUME NEW bad \in 0 .. 3, NEW byte
    PROVE  FaultIsFound(bad, byte)
BY DEF FaultIsFound, TestDpr

-----------------------------------------------------------------------------
(* The loops of the ioctls. *)

Results == [n : Nat, rc : {"ok", "error"}, end : BOOLEAN, fault : BOOLEAN]
Transfers == [remain : Nat, part : Nat, bus : Nat, rc : {"ok", "error"}, end : BOOLEAN,
              fault : BOOLEAN, over : BOOLEAN, used : Nat, eoi : SUBSET {0}]

(* Nothing the bus was asked for is lost: bytes moved are handed over, or  *)
(* are in the present load, which has room.                                *)
BytesKept(op, size, remain, t) ==
    /\ t.remain <= remain
    /\ ~t.fault => t.bus = (remain - t.remain) + t.part
    /\ t.over => t.part = 0
    /\ op # "IBRD" => t.part = 0 /\ ~t.end
    /\ ~t.over /\ op # "IBCMD" => t.remain > 0 /\ t.part < Load(size, t.remain)
    /\ ~t.over => ~t.fault

(* Why the loop went on, and why it ended.                                 *)
RightEnd(op, end, remain, results, t) ==
    /\ \A i \in 1 .. (IF t.over THEN t.used - 1 ELSE t.used) :
          results[i].rc = "ok" /\ ~results[i].end
    /\ t.over /\ ~t.fault /\ t.rc = "ok"
         => t.remain = 0 \/ t.end \/ (op = "IBRD" /\ results[t.used].n = 0)
    /\ t.fault /\ op # "IBCMD" => t.remain > 0
    /\ op = "IBWRT" /\ end /\ remain > 0 /\ t.remain = 0 => 0 \in t.eoi

(* The transfer after n calls of the interface driver.                     *)
Counted(op, size, end, remain, results, t, n) ==
    /\ t \in Transfers /\ t.used <= n /\ (~t.over => t.used = n)
    /\ BytesKept(op, size, remain, t)
    /\ RightEnd(op, end, remain, results, t)

(* A call of ibrd, and the load handed over when ibrd has returned.        *)
LEMMA ReadRound ==
    ASSUME NEW size \in Nat \ {0}, NEW end, NEW remain \in Nat, NEW results, NEW n \in Nat,
           NEW t, Counted("IBRD", size, end, remain, results, t, n), ~t.over,
           results[n + 1] \in Results
    PROVE  Counted("IBRD", size, end, remain, results,
                   [ReadCall(t, size, results[n + 1]) EXCEPT !.used = t.used + 1], n + 1)
<1>. DEFINE r == results[n + 1]
            length == Load(size, t.remain)
            m == Moved(r, length - t.part)
            part == t.part + m
            u == ReadCall(t, size, r)
            v == [u EXCEPT !.used = t.used + 1]
<1>0. /\ t \in Transfers /\ t.used = n /\ ~t.fault
      /\ t.remain \in Nat /\ t.part \in Nat /\ t.bus \in Nat /\ t.used \in Nat
      /\ t.remain > 0 /\ t.part < length /\ t.remain <= remain
      /\ t.bus = (remain - t.remain) + t.part
      /\ \A i \in 1 .. n : results[i].rc = "ok" /\ ~results[i].end
  BY DEF Counted, BytesKept, RightEnd, Transfers
<1>1. length \in Nat /\ length > 0 /\ length <= t.remain /\ length <= size
  BY <1>0 DEF Load
<1>2. r \in Results /\ r.n \in Nat
  BY DEF Results
<1>3. m \in Nat /\ m <= length - t.part /\ (m = 0 => r.n = 0)
  <2>. HIDE DEF r, length
  <2>. QED
    BY <1>0, <1>1, <1>2 DEF Moved
<1>4. part \in Nat /\ part <= length /\ part <= t.remain /\ (part = 0 => r.n = 0)
  BY <1>0, <1>1, <1>3
<1>. DEFINE b == [t EXCEPT !.bus = @ + m]
<1>5. u = IF ibrd(part, length, r) THEN [b EXCEPT !.part = @ + m] ELSE ReadLoad(b, part, r)
  BY Zenon DEF ReadCall
<1>6. \A i \in 1 .. n + 1 : i \in 1 .. n \/ i = n + 1
  BY <1>0
<1>. HIDE DEF r, length, m, part, u
<1>7. CASE ibrd(part, length, r)
  <2>1. r.rc = "ok" /\ ~r.end /\ part > 0 /\ part < length
    BY <1>7, Zenon DEF ibrd
  <2>2. v = [t EXCEPT !.bus = @ + m, !.part = @ + m, !.used = t.used + 1]
    BY <1>0, <1>5, <1>7 DEF Transfers
  <2>. HIDE DEF v
  <2>3. v \in Transfers /\ v.used = n + 1 /\ v.over = t.over
    <3>1. t.bus + m \in Nat /\ t.part + m \in Nat /\ t.used + 1 \in Nat
      BY <1>0, <1>3
    <3>2. v \in Transfers
      BY <1>0, <2>2, <3>1 DEF Transfers
    <3>3. v.used = n + 1 /\ v.over = t.over
      BY <1>0, <2>2 DEF Transfers
    <3>. QED
      BY <3>2, <3>3
  <2>4. v.remain = t.remain /\ v.part = part /\ v.bus = t.bus + m /\ ~v.fault
    BY <1>0, <2>2 DEF Transfers, part
  <2>5. BytesKept("IBRD", size, remain, v)
    BY <1>0, <1>3, <2>1, <2>3, <2>4 DEF BytesKept, length, part
  <2>6. RightEnd("IBRD", end, remain, results, v)
    BY <1>0, <1>6, <2>1, <2>3, <2>4 DEF RightEnd, r
  <2>. QED
    BY <1>0, <2>3, <2>5, <2>6 DEF Counted, v, r, u
<1>8. CASE ~ibrd(part, length, r) /\ (part = 0 \/ r.fault)
  <2>. DEFINE faulty == part > 0
  <2>1. v = [t EXCEPT !.bus = @ + m, !.part = 0, !.rc = r.rc, !.end = r.end,
                      !.fault = faulty, !.over = TRUE, !.used = t.used + 1]
    BY <1>0, <1>5, <1>8 DEF Transfers, ReadLoad
  <2>. HIDE DEF v
  <2>2. v \in Transfers /\ v.used = n + 1 /\ v.over
    <3>1. t.bus + m \in Nat /\ t.used + 1 \in Nat
      BY <1>0, <1>3
    <3>2. r.rc \in {"ok", "error"} /\ r.end \in BOOLEAN
      BY <1>2, Zenon DEF Results
    <3>4. faulty \in BOOLEAN
      OBVIOUS
    <3>. HIDE DEF faulty
    <3>3. v \in Transfers
      BY <1>0, <2>1, <3>1, <3>2, <3>4 DEF Transfers
    <3>5. v.used = n + 1 /\ v.over
      BY <1>0, <2>1 DEF Transfers
    <3>. QED
      BY <3>3, <3>5
  <2>3. /\ v.remain = t.remain /\ v.part = 0 /\ v.bus = t.bus + m /\ v.fault = (part > 0)
        /\ v.rc = r.rc /\ v.end = r.end
    BY <1>0, <2>1 DEF Transfers
  <2>4. v.fault <=> part > 0
    BY <2>3, Zenon
  <2>5. BytesKept("IBRD", size, remain, v)
    BY <1>0, <1>3, <1>4, <2>2, <2>3, <2>4 DEF BytesKept, part
  <2>6. RightEnd("IBRD", end, remain, results, v)
    BY <1>0, <1>4, <2>2, <2>3, <2>4 DEF RightEnd, r
  <2>. QED
    BY <1>0, <2>2, <2>5, <2>6 DEF Counted, v, r, u
<1>9. CASE ~ibrd(part, length, r) /\ ~(part = 0 \/ r.fault)
  <2>. DEFINE last == r.rc # "ok" \/ part = t.remain \/ r.end
  <2>1. v = [t EXCEPT !.bus = @ + m, !.part = 0, !.rc = r.rc, !.end = r.end,
                      !.remain = @ - part, !.over = last, !.used = t.used + 1]
    BY <1>0, <1>5, <1>9 DEF Transfers, ReadLoad
  <2>. HIDE DEF v
  <2>2. v \in Transfers /\ v.used = n + 1 /\ v.over = last
    <3>1. t.bus + m \in Nat /\ t.remain - part \in Nat /\ t.used + 1 \in Nat
      BY <1>0, <1>3, <1>4
    <3>2. r.rc \in {"ok", "error"} /\ r.end \in BOOLEAN /\ last \in BOOLEAN
      BY <1>2, Zenon DEF Results
    <3>. HIDE DEF last
    <3>3. v \in Transfers
      BY <1>0, <2>1, <3>1, <3>2 DEF Transfers
    <3>4. v.used = n + 1 /\ v.over = last
      BY <1>0, <2>1 DEF Transfers
    <3>. QED
      BY <3>3, <3>4
  <2>3. /\ v.remain = t.remain - part /\ v.part = 0 /\ v.bus = t.bus + m /\ ~v.fault
        /\ v.rc = r.rc /\ v.end = r.end
    BY <1>0, <2>1 DEF Transfers
  <2>4. v.over <=> r.rc # "ok" \/ part = t.remain \/ r.end
    BY <2>2, Zenon
  <2>5. BytesKept("IBRD", size, remain, v)
    BY <1>0, <1>3, <1>4, <2>2, <2>3, <2>4 DEF BytesKept, part, Load
  <2>6. RightEnd("IBRD", end, remain, results, v)
    BY <1>0, <1>4, <1>6, <2>2, <2>3, <2>4 DEF RightEnd, r
  <2>. QED
    BY <1>0, <2>2, <2>5, <2>6 DEF Counted, v, r, u
<1>. QED
  BY <1>7, <1>8, <1>9

(* A call of ibwrt or ibcmd.                                               *)
LEMMA WriteRound ==
    ASSUME NEW op \in {"IBWRT", "IBCMD"}, NEW size \in Nat \ {0}, NEW end \in BOOLEAN,
           NEW remain \in Nat, NEW results, NEW n \in Nat,
           NEW t, Counted(op, size, end, remain, results, t, n), ~t.over,
           results[n + 1] \in Results, ~results[n + 1].end
    PROVE  Counted(op, size, end, remain, results,
                   [WriteCall(t, size, end, results[n + 1]) EXCEPT !.used = t.used + 1], n + 1)
<1>. DEFINE r == results[n + 1]
            length == Load(size, t.remain)
            m == Moved(r, length)
            u == WriteCall(t, size, end, r)
            v == [u EXCEPT !.used = t.used + 1]
<1>0. /\ t \in Transfers /\ t.used = n /\ ~t.fault /\ ~t.end
      /\ t.remain \in Nat /\ t.bus \in Nat /\ t.used \in Nat /\ t.eoi \in SUBSET {0}
      /\ t.part = 0 /\ t.remain <= remain /\ (op = "IBWRT" => t.remain > 0)
      /\ t.bus = remain - t.remain
      /\ \A i \in 1 .. n : results[i].rc = "ok" /\ ~results[i].end
  BY DEF Counted, BytesKept, RightEnd, Transfers
<1>1. length \in Nat /\ length <= t.remain /\ length <= size /\ (t.remain <= size => length = t.remain)
      /\ (length = t.remain => t.remain <= size) /\ (t.remain > 0 => length > 0)
  BY <1>0 DEF Load
<1>2. r \in Results /\ r.n \in Nat /\ ~r.end
  BY DEF Results
<1>3. m \in Nat /\ m <= length
  <2>. HIDE DEF r, length
  <2>. QED
    BY <1>0, <1>1, <1>2 DEF Moved
<1>4. \A i \in 1 .. n + 1 : i \in 1 .. n \/ i = n + 1
  BY <1>0
<1>. DEFINE last == r.rc # "ok" \/ m = t.remain
            eoi == IF SendEoi(t, size, end) /\ m = length
                   THEN t.eoi \cup {t.remain - m} ELSE t.eoi
<1>5. u = IF r.fault THEN [t EXCEPT !.fault = TRUE, !.over = TRUE]
          ELSE [t EXCEPT !.remain = @ - m, !.bus = @ + m, !.rc = r.rc, !.over = last, !.eoi = eoi]
  BY <1>0, Zenon DEF WriteCall, Transfers
<1>. HIDE DEF r, length, m, u
<1>6. CASE r.fault
  <2>1. v = [t EXCEPT !.fault = TRUE, !.over = TRUE, !.used = t.used + 1]
    BY <1>0, <1>5, <1>6 DEF Transfers
  <2>. HIDE DEF v
  <2>2. v \in Transfers /\ v.used = n + 1 /\ v.over
    <3>1. t.used + 1 \in Nat
      BY <1>0
    <3>2. v \in Transfers
      BY <1>0, <2>1, <3>1 DEF Transfers
    <3>3. v.used = n + 1 /\ v.over
      BY <1>0, <2>1 DEF Transfers
    <3>. QED
      BY <3>2, <3>3
  <2>3. v.remain = t.remain /\ v.part = 0 /\ v.fault /\ v.end = t.end /\ v.eoi = t.eoi
    BY <1>0, <2>1 DEF Transfers
  <2>5. BytesKept(op, size, remain, v)
    BY <1>0, <2>2, <2>3 DEF BytesKept
  <2>6. RightEnd(op, end, remain, results, v)
    BY <1>0, <2>2, <2>3 DEF RightEnd
  <2>. QED
    BY <1>0, <2>2, <2>5, <2>6 DEF Counted, v, r, u
<1>7. CASE ~r.fault
  <2>1. v = [t EXCEPT !.remain = @ - m, !.bus = @ + m, !.rc = r.rc, !.over = last,
                      !.eoi = eoi, !.used = t.used + 1]
    BY <1>0, <1>5, <1>7 DEF Transfers
  <2>2. /\ eoi \in SUBSET {0}
        /\ op = "IBWRT" /\ end /\ t.remain - m = 0 => 0 \in eoi
    <3>1. SendEoi(t, size, end) <=> end /\ t.remain <= size
      BY Zenon DEF SendEoi
    <3>. QED
      BY <1>0, <1>1, <1>3, <3>1
  <2>3. (last <=> r.rc # "ok" \/ m = t.remain) /\ last \in BOOLEAN
    BY Zenon
  <2>. HIDE DEF v, eoi, last
  <2>4. v \in Transfers /\ v.used = n + 1 /\ v.over = last
    <3>1. t.bus + m \in Nat /\ t.remain - m \in Nat /\ t.used + 1 \in Nat
      BY <1>0, <1>1, <1>3
    <3>2. r.rc \in {"ok", "error"}
      BY <1>2, Zenon DEF Results
    <3>3. v \in Transfers
      BY <1>0, <2>1, <2>2, <2>3, <3>1, <3>2 DEF Transfers
    <3>4. v.used = n + 1 /\ v.over = last
      BY <1>0, <2>1 DEF Transfers
    <3>. QED
      BY <3>3, <3>4
  <2>5. /\ v.remain = t.remain - m /\ v.part = 0 /\ v.bus = t.bus + m /\ ~v.fault
        /\ v.rc = r.rc /\ ~v.end /\ v.eoi = eoi
    BY <1>0, <2>1 DEF Transfers
  <2>6. v.over <=> r.rc # "ok" \/ m = t.remain
    BY <2>3, <2>4, Zenon
  <2>7. BytesKept(op, size, remain, v)
    BY <1>0, <1>1, <1>3, <2>4, <2>5, <2>6 DEF BytesKept, Load
  <2>8. RightEnd(op, end, remain, results, v)
    BY <1>0, <1>1, <1>2, <1>3, <1>4, <2>2, <2>4, <2>5, <2>6 DEF RightEnd, r
  <2>. QED
    BY <1>0, <2>4, <2>7, <2>8 DEF Counted, v, r, u
<1>. QED
  BY <1>6, <1>7

(* The first n rounds of a loop.                                           *)
Rounds(op, size, end, start, results, n, T) ==
    T = [i \in 0 .. n |-> IF i = 0 THEN start
                          ELSE Round(op, size, end, T[i - 1], results[i])]

(* Every number of rounds has a result: the least number that had none     *)
(* would be one more than one that has.                                    *)
LEMMA RoundsExist ==
    ASSUME NEW op, NEW size, NEW end, NEW start, NEW results, NEW n \in Nat
    PROVE  \E T : Rounds(op, size, end, start, results, n, T)
<1>. DEFINE R(t, i) == Round(op, size, end, t, results[i])
            Is(k, T) == Rounds(op, size, end, start, results, k, T)
            N == {k \in Nat : ~\E T : Is(k, T)}
<1>0. \A k, T : Is(k, T) <=> T = [i \in 0 .. k |-> IF i = 0 THEN start ELSE R(T[i - 1], i)]
  BY Zenon DEF Rounds
<1>. HIDE DEF R, Is
<1>. SUFFICES ASSUME N # {} PROVE FALSE
  BY DEF Is
<1>1. PICK m \in N : \A k \in N : m <= k
  <2>1. N \in SUBSET Nat
    BY DEF N
  <2>. HIDE DEF N
  <2>. QED
    BY <2>1, Smallest
<1>2. m # 0
  <2>1. Is(0, [i \in 0 .. 0 |-> start])
    BY <1>0
  <2>. QED
    BY <2>1
<1>3. PICK C : Is(m - 1, C)
  <2>1. m - 1 \in Nat /\ ~(m <= m - 1)
    BY <1>2
  <2>. QED
    BY <1>1, <2>1
<1>. DEFINE D == [i \in 0 .. m |-> IF i < m THEN C[i] ELSE R(C[m - 1], m)]
<1>4. ASSUME NEW i \in 0 .. m PROVE D[i] = IF i = 0 THEN start ELSE R(D[i - 1], i)
  <2>1. CASE i = m
    <3>1. m - 1 \in 0 .. m /\ m - 1 < m
      BY <1>2
    <3>2. D[m - 1] = C[m - 1]
      BY <3>1
    <3>. QED
      BY <1>2, <2>1, <3>2
  <2>2. CASE i = 0
    <3>1. 0 \in 0 .. m - 1 /\ 0 < m
      BY <1>2
    <3>. QED
      BY <1>0, <1>3, <2>2, <3>1
  <2>3. CASE i # 0 /\ i < m
    <3>1. i - 1 \in 0 .. m /\ i - 1 < m /\ i \in 0 .. m - 1
      BY <2>3
    <3>2. D[i - 1] = C[i - 1] /\ D[i] = C[i]
      BY <2>3, <3>1
    <3>3. C[i] = R(C[i - 1], i)
      BY <1>0, <1>3, <2>3, <3>1
    <3>. QED
      BY <2>3, <3>2, <3>3
  <2>. QED
    BY <2>1, <2>2, <2>3
<1>5. Is(m, D)
  <2>1. D = [i \in 0 .. m |-> D[i]]
    OBVIOUS
  <2>. HIDE DEF D
  <2>2. D = [i \in 0 .. m |-> IF i = 0 THEN start ELSE R(D[i - 1], i)]
    BY <1>4, <2>1
  <2>. QED
    BY <1>0, <2>2
<1>. QED
  BY <1>5

(* A loop is its rounds, one for each result.                              *)
LEMMA LoopRounds ==
    ASSUME NEW op, NEW size, NEW end, NEW start, NEW results, Len(results) \in Nat
    PROVE  Rounds(op, size, end, start, results, Len(results),
                  Loop(op, size, end, start, results))
<1>1. Loop(op, size, end, start, results)
        = CHOOSE T : Rounds(op, size, end, start, results, Len(results), T)
  BY Zenon DEF Loop, Rounds
<1>2. \E T : Rounds(op, size, end, start, results, Len(results), T)
  BY RoundsExist
<1>. QED
  BY <1>1, <1>2

(* What holds of the transfer before the loop, and is kept by each round,  *)
(* holds after the loop.                                                   *)
LEMMA RunIsCounted ==
    ASSUME NEW op \in {"IBRD", "IBWRT", "IBCMD"}, NEW size \in Nat \ {0}, NEW end \in BOOLEAN,
           NEW remain \in Nat, NEW start, NEW k \in Nat, NEW results, Len(results) = k,
           \A i \in 1 .. k : results[i] \in Results /\ (op # "IBRD" => ~results[i].end),
           Counted(op, size, end, remain, results, start, 0)
    PROVE  Counted(op, size, end, remain, results, Run(op, size, end, start, results), k)
<1>. DEFINE T == Loop(op, size, end, start, results)
            Good(i) == Counted(op, size, end, remain, results, T[i], i)
            N == {i \in Nat : i <= k /\ ~Good(i)}
<1>1. /\ T[0] = start
      /\ \A i \in 1 .. k : T[i] = Round(op, size, end, T[i - 1], results[i])
  <2>1. Rounds(op, size, end, start, results, k, T)
    BY LoopRounds
  <2>. HIDE DEF T
  <2>. QED
    BY <2>1 DEF Rounds
<1>2. Run(op, size, end, start, results) = T[k]
  BY DEF Run
<1>. HIDE DEF T
<1>3. ASSUME NEW i \in 1 .. k, Good(i - 1) PROVE Good(i)
  <2>. DEFINE t == T[i - 1]
              u == IF op = "IBRD" THEN ReadCall(t, size, results[i])
                   ELSE WriteCall(t, size, end, results[i])
  <2>1. i - 1 \in Nat /\ (i - 1) + 1 = i
    OBVIOUS
  <2>2. T[i] = IF t.over THEN t ELSE [u EXCEPT !.used = t.used + 1]
    BY <1>1, Zenon DEF Round
  <2>3. Counted(op, size, end, remain, results, t, i - 1)
    BY <1>3
  <2>. HIDE DEF t
  <2>4. CASE t.over
    <3>1. t.used \in Nat
      BY <2>3 DEF Counted, Transfers
    <3>2. t.used <= i
      BY <2>1, <2>3, <3>1 DEF Counted
    <3>3. Counted(op, size, end, remain, results, t, i)
      BY <2>3, <2>4, <3>2, Zenon DEF Counted
    <3>. QED
      BY <2>2, <2>4, <3>3, Zenon
  <2>5. CASE ~t.over /\ op = "IBRD"
    <3>1. Counted("IBRD", size, end, remain, results, t, i - 1)
      BY <2>3, <2>5
    <3>2. Counted("IBRD", size, end, remain, results,
                  [ReadCall(t, size, results[(i - 1) + 1]) EXCEPT !.used = t.used + 1],
                  (i - 1) + 1)
      BY <2>1, <2>5, <3>1, ReadRound
    <3>. QED
      BY <2>1, <2>2, <2>5, <3>2
  <2>6. CASE ~t.over /\ op # "IBRD"
    <3>1. op \in {"IBWRT", "IBCMD"} /\ results[i] \in Results /\ ~results[i].end
      BY <2>6
    <3>2. Counted(op, size, end, remain, results,
                  [WriteCall(t, size, end, results[(i - 1) + 1]) EXCEPT !.used = t.used + 1],
                  (i - 1) + 1)
      BY <2>1, <2>3, <2>6, <3>1, WriteRound
    <3>. QED
      BY <2>1, <2>2, <2>6, <3>2
  <2>. QED
    BY <2>4, <2>5, <2>6
<1>4. Good(0)
  BY <1>1
<1>. HIDE DEF Good
<1>5. N = {}
  <2>. SUFFICES ASSUME N # {} PROVE FALSE
    OBVIOUS
  <2>1. PICK m \in N : \A i \in N : m <= i
    <3>1. N \in SUBSET Nat
      BY DEF N
    <3>. HIDE DEF N
    <3>. QED
      BY <3>1, Smallest
  <2>2. m # 0 /\ m \in 1 .. k
    BY <1>4
  <2>3. m - 1 \in Nat /\ m - 1 <= k /\ ~(m <= m - 1)
    BY <2>2
  <2>4. Good(m - 1)
    BY <2>1, <2>3
  <2>. QED
    BY <1>3, <2>2, <2>4
<1>6. Good(k)
  BY <1>5
<1>. QED
  BY <1>2, <1>6 DEF Good

(* Nothing has been moved before the loop.                                 *)
LEMMA BeginningIsCounted ==
    ASSUME NEW op \in {"IBRD", "IBWRT", "IBCMD"}, NEW size \in Nat \ {0}, NEW end,
           NEW remain \in Nat, NEW results, NEW over \in BOOLEAN,
           over <=> op # "IBCMD" /\ remain = 0
    PROVE  Counted(op, size, end, remain, results, Begun(remain, over), 0)
<1>. DEFINE t == Begun(remain, over)
<1>1. /\ t.remain = remain /\ t.part = 0 /\ t.bus = 0 /\ t.rc = "ok" /\ ~t.end /\ ~t.fault
      /\ t.used = 0 /\ t.over = over
  BY DEF Begun
<1>2. t \in Transfers
  BY DEF Begun, Transfers
<1>. HIDE DEF t
<1>3. BytesKept(op, size, remain, t)
  BY <1>1 DEF BytesKept, Load
<1>4. RightEnd(op, end, remain, results, t)
  BY <1>1 DEF RightEnd
<1>. QED
  BY <1>1, <1>2, <1>3, <1>4 DEF Counted, t

(* Each of the ioctls accounts for its bytes, for buffers of any length,   *)
(* whatever the calls of the interface driver come to.                     *)
LEMMA IoctlsAreCounted ==
    ASSUME NEW c, c.op \in {"IBRD", "IBWRT", "IBCMD"}, c.remain \in Nat, c.size \in Nat \ {0},
           c.end \in BOOLEAN, NEW k \in Nat, c.results \in [1 .. k -> Results],
           c.op # "IBRD" => \A i \in 1 .. k : ~c.results[i].end
    PROVE  TransferIsCounted(c)
<1>. DEFINE sends == c.op = "IBWRT" /\ c.end
            over == c.op # "IBCMD" /\ c.remain = 0
            start == Begun(c.remain, over)
            t == Run(c.op, c.size, sends, start, c.results)
            suppressed == \/ c.op # "IBCMD" /\ t.remain = 0
                          \/ c.op = "IBRD" /\ t.end
<1>1. sends \in BOOLEAN /\ over \in BOOLEAN
  BY Zenon
<1>2. Len(c.results) = k /\ \A i \in 1 .. k : c.results[i] \in Results
  OBVIOUS
<1>3. Counted(c.op, c.size, sends, c.remain, c.results, start, 0)
  BY <1>1, BeginningIsCounted
<1>4. Counted(c.op, c.size, sends, c.remain, c.results, t, k)
  <2>. HIDE DEF start, sends
  <2>. QED
    BY <1>1, <1>2, <1>3, RunIsCounted
<1>5. Done(c).last = t /\ (Done(c).code = Code(t, suppressed))
  <2>1. CASE c.op = "IBRD"
    <3>1. sends = FALSE /\ over = (c.remain = 0) /\ suppressed = (t.remain = 0 \/ t.end)
      BY <2>1
    <3>2. Done(c) = read_ioctl(c.remain, c.size, c.results)
      BY <2>1 DEF Done
    <3>. HIDE DEF sends, over, suppressed
    <3>3. t = Run("IBRD", c.size, FALSE, Begun(c.remain, c.remain = 0), c.results)
      BY <2>1, <3>1, Zenon DEF start
    <3>4. Done(c).last = t /\ Done(c).code = Code(t, t.remain = 0 \/ t.end)
      BY <3>2, <3>3 DEF read_ioctl
    <3>. QED
      BY <3>1, <3>4, Zenon
  <2>2. CASE c.op = "IBWRT"
    <3>1. sends = c.end /\ over = (c.remain = 0) /\ suppressed = (t.remain = 0)
      BY <2>2
    <3>2. Done(c) = write_ioctl(c.remain, c.size, c.end, c.results)
      BY <2>2 DEF Done
    <3>. HIDE DEF sends, over, suppressed
    <3>3. t = Run("IBWRT", c.size, c.end, Begun(c.remain, c.remain = 0), c.results)
      BY <2>2, <3>1, Zenon DEF start
    <3>4. Done(c).last = t /\ Done(c).code = Code(t, t.remain = 0)
      BY <3>2, <3>3 DEF write_ioctl
    <3>. QED
      BY <3>1, <3>4, Zenon
  <2>3. CASE c.op = "IBCMD"
    <3>1. sends = FALSE /\ over = FALSE /\ suppressed = FALSE
      BY <2>3
    <3>2. Done(c) = command_ioctl(c.remain, c.size, c.results)
      BY <2>3 DEF Done
    <3>. HIDE DEF sends, over, suppressed
    <3>3. t = Run("IBCMD", c.size, FALSE, Begun(c.remain, FALSE), c.results)
      BY <2>3, <3>1, Zenon DEF start
    <3>4. Done(c).last = t /\ Done(c).code = Code(t, FALSE)
      BY <3>2, <3>3 DEF command_ioctl
    <3>. QED
      BY <3>1, <3>4, Zenon
  <2>. QED
    BY <2>1, <2>2, <2>3
<1>. DEFINE code == Code(t, suppressed)
<1>6. /\ code = "ok" <=> ~t.fault /\ (suppressed \/ t.rc = "ok")
      /\ suppressed <=> (c.op # "IBCMD" /\ t.remain = 0) \/ (c.op = "IBRD" /\ t.end)
  BY DEF Code
<1>7. sends <=> c.op = "IBWRT" /\ c.end
  BY Zenon
<1>. HIDE DEF t, suppressed, code, sends
<1>8. ASSUME t.over
      PROVE  /\ ~t.fault => c.remain - t.remain = t.bus
             /\ \A i \in 1 .. t.used - 1 : c.results[i].rc = "ok" /\ ~c.results[i].end
             /\ code = "ok" => \/ t.remain = 0 \/ t.end
                               \/ c.op = "IBRD" /\ c.results[t.used].n = 0
             /\ c.op # "IBCMD" /\ t.remain = 0 => code = "ok"
             /\ t.eoi \subseteq {0}
             /\ c.op = "IBWRT" /\ c.end /\ code = "ok" /\ c.remain > 0 => t.eoi = {0}
  <2>0. t \in Transfers /\ t.remain \in Nat /\ t.bus \in Nat /\ t.eoi \in SUBSET {0}
    BY <1>4 DEF Counted, Transfers
  <2>1. BytesKept(c.op, c.size, c.remain, t) /\ RightEnd(c.op, sends, c.remain, c.results, t)
    BY <1>4 DEF Counted
  <2>2. (~t.fault => c.remain - t.remain = t.bus) /\ (c.op # "IBRD" => ~t.end)
    BY <1>8, <2>0, <2>1 DEF BytesKept
  <2>3. /\ \A i \in 1 .. t.used - 1 : c.results[i].rc = "ok" /\ ~c.results[i].end
        /\ ~t.fault /\ t.rc = "ok"
             => t.remain = 0 \/ t.end \/ (c.op = "IBRD" /\ c.results[t.used].n = 0)
        /\ t.fault /\ c.op # "IBCMD" => t.remain > 0
        /\ c.op = "IBWRT" /\ sends /\ c.remain > 0 /\ t.remain = 0 => 0 \in t.eoi
    BY <1>8, <2>1 DEF RightEnd
  <2>. QED
    BY <1>6, <1>7, <2>0, <2>2, <2>3
<1>. QED
  BY <1>5, <1>8, Zenon DEF TransferIsCounted, code

-----------------------------------------------------------------------------
(* Calls. *)

(* Which call is made is told by its name.                                 *)
LEMMA NamesOfCalls ==
    /\ ReadBlock => call'.op = "read"
    /\ CountLength => call'.op = "count"
    /\ ReadRegisters => call'.op = "registers"
    /\ SetTimeout => call'.op = "timeout"
    /\ Transfer => call'.op = "transfer"
    /\ WaitTicks => call'.op = "ticks"
    /\ PackAddress => call'.op = "address"
    /\ UnpackAddress => call'.op = "unpack"
    /\ Access => call'.op = "access"
    /\ MapMemory => call'.op = "map"
    /\ MemoryTest => call'.op = "test"
    /\ AccessPort => call'.op = "port"
    /\ AskDevice => call'.op = "device"
    /\ Ioctl => call'.op \in {"IBRD", "IBWRT", "IBCMD"}
    /\ Return => call'.op = "none"
<1>1. ReadBlock => call'.op = "read"
  BY DEF ReadBlock
<1>2. CountLength => call'.op = "count"
  BY DEF CountLength
<1>3. ReadRegisters => call'.op = "registers"
  BY DEF ReadRegisters
<1>4. SetTimeout => call'.op = "timeout"
  BY DEF SetTimeout
<1>5. Transfer => call'.op = "transfer"
  BY DEF Transfer
<1>6. WaitTicks => call'.op = "ticks"
  BY DEF WaitTicks
<1>7. PackAddress => call'.op = "address"
  BY DEF PackAddress
<1>8. UnpackAddress => call'.op = "unpack"
  BY DEF UnpackAddress
<1>9. Access => call'.op = "access"
  BY DEF Access
<1>10. MapMemory => call'.op = "map"
  BY DEF MapMemory
<1>11. MemoryTest => call'.op = "test"
  BY DEF MemoryTest
<1>12. AccessPort => call'.op = "port"
  BY DEF AccessPort
<1>13. AskDevice => call'.op = "device"
  BY DEF AskDevice
<1>14. Ioctl => call'.op \in {"IBRD", "IBWRT", "IBCMD"}
  BY DEF Ioctl
<1>15. Return => call'.op = "none"
  BY DEF Return, None
<1>. QED
  BY <1>1, <1>2, <1>3, <1>4, <1>5, <1>6, <1>7, <1>8, <1>9, <1>10, <1>11, <1>12, <1>13,
     <1>14, <1>15

(* Lengths on the wire are those handed to the callers, for transfers of   *)
(* any length.                                                             *)
THEOREM Decoded == Spec => []ReadsAreDecoded
<1>1. Init => ReadsAreDecoded
  BY DEF Init, None, ReadsAreDecoded
<1>2. ASSUME Next PROVE ReadsAreDecoded'
  <2>1. ASSUME call'.op = "read" PROVE ReadIsParsed(call'.length, call'.n, call'.block)
    <3>1. ReadBlock
      BY <1>2, <2>1, NamesOfCalls DEF Next
    <3>2. PICK length \in 1 .. MaxLength, n \in 0 .. MaxLength, block \in {15, 30} :
             /\ n <= length
             /\ call' = [op |-> "read", length |-> length, n |-> n, block |-> block]
      BY <3>1 DEF ReadBlock
    <3>3. length \in Nat /\ n \in 0 .. length
      BY <3>2, LengthsAssumption
    <3>. QED
      BY <3>2, <3>3, ReadsAreParsed
  <2>2. ASSUME call'.op = "count" PROVE CountIsReadBack(call'.length)
    <3>1. CountLength
      BY <1>2, <2>2, NamesOfCalls DEF Next
    <3>2. PICK length \in (0 .. MaxLength) \cup {255, 256, 65534, 65535, 65536, 70000} :
             call' = [op |-> "count", length |-> length]
      BY <3>1 DEF CountLength
    <3>3. length \in Nat
      BY LengthsAssumption
    <3>. QED
      BY <3>2, <3>3, CountsAreReadBack
  <2>3. ASSUME call'.op = "registers" PROVE RegistersAreApart(call'.num)
    <3>1. ReadRegisters
      BY <1>2, <2>3, NamesOfCalls DEF Next
    <3>2. PICK num \in 1 .. 8 : call' = [op |-> "registers", num |-> num]
      BY <3>1 DEF ReadRegisters
    <3>. QED
      BY <3>2, RegistersApart
  <2>. QED
    BY <2>1, <2>2, <2>3 DEF ReadsAreDecoded
<1>3. ReadsAreDecoded /\ UNCHANGED call => ReadsAreDecoded'
  BY DEF ReadsAreDecoded
<1>. QED
  BY <1>1, <1>2, <1>3, PTL DEF Spec

(* Time outs end, and never early, for integers of any width and waits     *)
(* short against it.                                                       *)
THEOREM TimeoutsEnd == Spec => []TimeoutsHold
<1>1. Init => TimeoutsHold
  BY DEF Init, None, TimeoutsHold
<1>2. ASSUME Next PROVE TimeoutsHold'
  <2>1. ASSUME call'.op = "timeout" PROVE DurationIsCoded(call'.units)
    <3>1. SetTimeout
      BY <1>2, <2>1, NamesOfCalls DEF Next
    <3>2. PICK t \in Codes, d \in {-1, 0, 1} :
             call' = [op |-> "timeout", units |-> Durations[t] + d]
      BY <3>1 DEF SetTimeout, Codes
    <3>3. Durations[t] \in Nat \ {0}
      BY DurationsGrow
    <3>4. Durations[t] + d \in Nat
      BY <3>3
    <3>. QED
      BY <3>2, <3>4, DurationsAreCoded
  <2>2. ASSUME call'.op = "transfer" PROVE AdapterGivesUpFirst(call'.kind, call'.ms)
    <3>1. Transfer
      BY <1>2, <2>2, NamesOfCalls DEF Next
    <3>2. PICK kind \in {"RD", "WRT", "CMD", "RPP"},
               ms \in {0, 1, 2, 3, 10, 50, 300, 1000, 5000, 30000, 1000000,
                       100000000, 100000001} :
             call' = [op |-> "transfer", kind |-> kind, ms |-> ms]
      BY <3>1 DEF Transfer
    <3>3. ms \in Nat
      BY <3>2
    <3>. QED
      BY <3>2, <3>3, AdapterFirst
  <2>3. ASSUME call'.op = "ticks" PROVE TicksHold(call'.start, call'.wait, call'.later)
    <3>1. WaitTicks
      BY <1>2, <2>3, NamesOfCalls DEF Next
    <3>2. PICK start \in Words, wait \in 0 .. MaxWait, later \in 0 .. 2 * MaxWait :
             call' = [op |-> "ticks", start |-> start, wait |-> wait, later |-> later]
      BY <3>1 DEF WaitTicks
    <3>. QED
      BY <3>2, TicksAreCounted
  <2>. QED
    BY <2>1, <2>2, <2>3 DEF TimeoutsHold
<1>3. TimeoutsHold /\ UNCHANGED call => TimeoutsHold'
  BY DEF TimeoutsHold
<1>. QED
  BY <1>1, <1>2, <1>3, PTL DEF Spec

(* What passes a check is what the check is for, for a dual port and pages *)
(* of any size.                                                            *)
THEOREM ChecksHold == Spec => []MemoryAndAddresses
<1>1. Init => MemoryAndAddresses
  BY DEF Init, None, MemoryAndAddresses
<1>2. ASSUME Next PROVE MemoryAndAddresses'
  <2>1. ASSUME call'.op = "address" PROVE AddressRoundTrip(call'.pad, call'.sad)
    <3>1. PackAddress
      BY <1>2, <2>1, NamesOfCalls DEF Next
    <3>2. PICK pad \in 0 .. 31, sad \in -1 .. 31 :
             call' = [op |-> "address", pad |-> pad, sad |-> sad]
      BY <3>1 DEF PackAddress
    <3>. QED
      BY <3>2, AddressesReturn
  <2>2. ASSUME call'.op = "unpack" PROVE AddressIsChecked(call'.address)
    <3>1. UnpackAddress
      BY <1>2, <2>2, NamesOfCalls DEF Next
    <3>2. PICK pad \in 0 .. 31, high \in {0, 1, 30, 31, 32, 96, 126, 127, 160, 255} :
             call' = [op |-> "unpack", address |-> pad + 256 * high]
      BY <3>1 DEF UnpackAddress
    <3>3. pad + 256 * high \in Nat /\ pad + 256 * high # NOADDR
      BY DEF NOADDR
    <3>. QED
      BY <3>2, <3>3, AddressesAreChecked
  <2>3. ASSUME call'.op = "access"
        PROVE  AccessIsInside(call'.offset, call'.length, call'.buffer)
    <3>1. Access
      BY <1>2, <2>3, NamesOfCalls DEF Next
    <3>2. PICK offset \in Words, length \in 0 .. Modulus \div 2, buffer \in {1, Page} :
             call' = [op |-> "access", offset |-> offset, length |-> length,
                      buffer |-> buffer]
      BY <3>1 DEF Access
    <3>3. buffer \in Nat
      BY PageAssumption, ModulusAssumption
    <3>. QED
      BY <3>2, <3>3, AccessesAreInside
  <2>4. ASSUME call'.op = "map" PROVE PagesCoverMemory(call'.address, call'.size)
    <3>1. MapMemory
      BY <1>2, <2>4, NamesOfCalls DEF Next
    <3>2. PICK address \in Addresses, size \in 1 .. DprSize :
             call' = [op |-> "map", address |-> address, size |-> size]
      BY <3>1 DEF MapMemory
    <3>. QED
      BY <3>2, PagesCover
  <2>5. ASSUME call'.op = "port" PROVE PortIsOfCard(call'.address, call'.length)
    <3>1. AccessPort
      BY <1>2, <2>5, NamesOfCalls DEF Next
    <3>2. PICK address \in {0, 255, 256, 4095, 4096, 65535}, length \in {1, 2, 4} :
             call' = [op |-> "port", address |-> address, length |-> length]
      BY <3>1 DEF AccessPort
    <3>. QED
      BY <3>2, PortsAreOfCard
  <2>6. ASSUME call'.op = "device" PROVE DeviceExists(call'.address)
    <3>1. AskDevice
      BY <1>2, <2>6, NamesOfCalls DEF Next
    <3>2. PICK address \in {0, 1, 127, 128, 65535, 65536, 65537, 65664} :
             call' = [op |-> "device", address |-> address]
      BY <3>1 DEF AskDevice
    <3>. QED
      BY <3>2, DevicesExist
  <2>7. ASSUME call'.op = "test" PROVE FaultIsFound(call'.bad, call'.byte)
    <3>1. MemoryTest
      BY <1>2, <2>7, NamesOfCalls DEF Next
    <3>2. PICK bad \in 0 .. 3, byte \in {0, 85, 255} :
             call' = [op |-> "test", bad |-> bad, byte |-> byte]
      BY <3>1 DEF MemoryTest
    <3>. QED
      BY <3>2, FaultsAreFound
  <2>. QED
    BY <2>1, <2>2, <2>3, <2>4, <2>5, <2>6, <2>7 DEF MemoryAndAddresses
<1>3. MemoryAndAddresses /\ UNCHANGED call => MemoryAndAddresses'
  BY DEF MemoryAndAddresses
<1>. QED
  BY <1>1, <1>2, <1>3, PTL DEF Spec

(* The data ioctls of the core account for every byte, for transfers and   *)
(* buffers of any length and any number of calls of the interface driver.  *)
THEOREM BytesAreCounted == Spec => []TransfersAreCounted
<1>1. Init => TransfersAreCounted
  BY DEF Init, None, TransfersAreCounted
<1>2. ASSUME Next PROVE TransfersAreCounted'
  <2>. SUFFICES ASSUME call'.op \in {"IBRD", "IBWRT", "IBCMD"} PROVE TransferIsCounted(call')
    BY DEF TransfersAreCounted
  <2>1. Ioctl
    BY <1>2, NamesOfCalls DEF Next
  <2>2. PICK op \in {"IBRD", "IBWRT", "IBCMD"}, remain \in 0 .. MaxBytes,
             size \in BufferSizes, end \in BOOLEAN, fault \in 0 .. MaxCalls,
             results \in [1 .. MaxCalls -> [n : 0 .. 2, rc : {"ok", "error"}, end : BOOLEAN]] :
                /\ op # "IBWRT" => ~end
                /\ op # "IBRD" => \A i \in 1 .. MaxCalls : ~results[i].end
                /\ call' = [op |-> op, remain |-> remain, size |-> size, end |-> end,
                            results |-> [i \in 1 .. MaxCalls |->
                               [n |-> results[i].n, rc |-> results[i].rc,
                                end |-> results[i].end, fault |-> i = fault]]]
    BY <2>1, Zenon DEF Ioctl
  <2>. DEFINE calls == [i \in 1 .. MaxCalls |->
                          [n |-> results[i].n, rc |-> results[i].rc,
                           end |-> results[i].end, fault |-> i = fault]]
  <2>3. /\ call'.op = op /\ call'.remain = remain /\ call'.size = size /\ call'.end = end
        /\ call'.results = calls
    BY <2>2
  <2>4. MaxCalls \in Nat /\ remain \in Nat /\ size \in Nat \ {0}
    BY LengthsAssumption, SizesAssumption
  <2>5. ASSUME NEW i \in 1 .. MaxCalls PROVE calls[i] \in Results /\ calls[i].end = results[i].end
    <3>1. results[i].n \in Nat /\ results[i].rc \in {"ok", "error"} /\ results[i].end \in BOOLEAN
      OBVIOUS
    <3>2. (i = fault) \in BOOLEAN
      BY Zenon
    <3>. QED
      BY <3>1, <3>2 DEF Results
  <2>6. calls \in [1 .. MaxCalls -> Results]
    BY <2>5
  <2>7. op # "IBRD" => \A i \in 1 .. MaxCalls : ~calls[i].end
    BY <2>2, <2>5
  <2>. HIDE DEF calls
  <2>. QED
    BY <2>3, <2>4, <2>6, <2>7, IoctlsAreCounted
<1>3. TransfersAreCounted /\ UNCHANGED call => TransfersAreCounted'
  BY DEF TransfersAreCounted
<1>. QED
  BY <1>1, <1>2, <1>3, PTL DEF Spec
=============================================================================
