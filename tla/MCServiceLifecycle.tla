------------------------- MODULE MCServiceLifecycle -------------------------
(* A finite instance of ServiceLifecycle for TLC.                          *)
EXTENDS ServiceLifecycleInv
=============================================================================
