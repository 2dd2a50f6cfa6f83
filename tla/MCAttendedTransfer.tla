----------------------- MODULE MCAttendedTransfer -----------------------
(* AttendedTransfer on a small instance for TLC. *)
EXTENDS AttendedTransfer
=========================================================================
