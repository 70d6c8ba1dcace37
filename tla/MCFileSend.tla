----------------------------- MODULE MCFileSend -----------------------------
(***************************************************************************)
(* FileSend for TLC: the names of the fragments' slave.                    *)
(***************************************************************************)
EXTENDS FileSend

OneSlave == {PD}
=============================================================================
