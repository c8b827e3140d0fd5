--------------------------- MODULE MCBoardControl ---------------------------
(* An instance of BoardControl for TLC: a behaviour calls ibeos, or takes  *)
(* control and sends commands, besides everything else.  What ibeos sets,  *)
(* only a read looks at.                                                   *)
EXTENDS BoardControl

VARIABLE kind

MCInit == Init /\ kind \in {"eos", "control"}

MCNext == /\ Next /\ UNCHANGED kind
          /\ kind = "eos" => call' \notin {"ibcmd", "ibcac", "ibcac0"}
          /\ kind = "control" /\ pc = "idle" => UNCHANGED drv

MCSpec == MCInit /\ [][MCNext]_<<vars, kind>>

=============================================================================
