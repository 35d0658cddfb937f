----------------------------- MODULE MCRecvRing -----------------------------
(* Small instances of RecvRing for TLC. *)
EXTENDS RecvRing
=============================================================================
