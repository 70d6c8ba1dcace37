---------------------------- MODULE MCOsdpMaster ----------------------------
(***************************************************************************)
(* OsdpMaster for TLC: the slave addresses of the instances.               *)
(***************************************************************************)
EXTENDS OsdpMaster, TLC

OneAddr == <<1>>
TwoAddrs == <<1, 64>>
=============================================================================
