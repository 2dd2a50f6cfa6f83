------------------------- MODULE MCStreamingOutput -------------------------
(***************************************************************************)
(* StreamingOutput with a barge-in from the audio path and one from the    *)
(* provider's own event task.                                              *)
(***************************************************************************)
EXTENDS StreamingOutput
=============================================================================
