--------------------------- MODULE MCUsbExchange ----------------------------
(* An instance of UsbExchange for TLC: three threads, of which two at most *)
(* are in a call at a time.  A thread may begin as soon as another is done,*)
(* so that each of them meets what each of the others left in the pipes.   *)
EXTENDS UsbExchange

MaxBusy == 2
Busy == {t \in Threads : call[t] # "idle"}

SpecOfTwo == Init /\ [][Next /\ Cardinality(Busy') <= MaxBusy]_vars /\ Fairness

=============================================================================
