----------------------------- MODULE MCOsdpBus ------------------------------
(***************************************************************************)
(* OsdpBus for TLC: the slave addresses of the instances.                  *)
(***************************************************************************)
EXTENDS OsdpBus, TLC

OneAddr == <<1>>
TwoAddrs == <<1, 64>>
=============================================================================
