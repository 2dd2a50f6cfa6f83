---------------------------- MODULE MCTtsGating ----------------------------
(* TtsGating on a small instance for TLC. *)
EXTENDS TtsGating, TLC

\* Playbacks and barge-in handlers are interchangeable; used for safety only.
Symm == Permutations(Playbacks) \cup Permutations(Bargers)
=============================================================================
