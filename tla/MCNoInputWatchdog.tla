------------------------- MODULE MCNoInputWatchdog -------------------------
(* NoInputWatchdog on a small instance for TLC. *)
EXTENDS NoInputWatchdog
=============================================================================
