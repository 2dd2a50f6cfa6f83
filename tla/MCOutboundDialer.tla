------------------------- MODULE MCOutboundDialer -------------------------
(* OutboundDialer on a small instance for TLC. *)
EXTENDS OutboundDialer, TLC

\* Leads and attempts are interchangeable; used for safety only.
Symm == Permutations(Leads) \cup Permutations(Attempts)
=============================================================================
