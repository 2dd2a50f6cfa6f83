-------------------------- MODULE MCCallLifecycle --------------------------
(***************************************************************************)
(* The instance of CallLifecycle that TLC checks.                          *)
(***************************************************************************)
EXTENDS CallLifecycle
=============================================================================
