---------------------------- MODULE MCBlobQueue -----------------------------
(***************************************************************************)
(* BlobQueue for TLC.                                                      *)
(***************************************************************************)
EXTENDS BlobQueue, TLC
=============================================================================
