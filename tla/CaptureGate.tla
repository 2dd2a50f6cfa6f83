---------------------------- MODULE CaptureGate ----------------------------
(***************************************************************************)
(* What the engine promises about the caller's microphone while the agent  *)
(* speaks: a gate that a playback closes and that stays closed until the   *)
(* last playback holding it lets go.  A playback holds the gate once, and  *)
(* every holder lets go in the end, so the caller is never left unheard.   *)
(* The end of the call ends the gate.                                      *)
(***************************************************************************)
CONSTANT Playbacks

VARIABLES
    holders,   \* the playbacks that keep the gate closed
    spent,     \* the playbacks that closed it once
    open       \* the caller is heard

gateVars == <<holders, spent, open>>

Init ==
    /\ holders = {}
    /\ spent = {}
    /\ open = TRUE

Hold(p) ==
    /\ p \notin spent
    /\ holders' = holders \cup {p}
    /\ spent' = spent \cup {p}
    /\ open' = FALSE

\* One playback ends, or an interruption ends several at once.
LetGo(H) ==
    /\ H # {}
    /\ H \subseteq holders
    /\ holders' = holders \ H
    /\ open' = (holders' = {})
    /\ UNCHANGED spent

CallEnds ==
    /\ holders' = {}
    /\ spent' = Playbacks
    /\ open' = TRUE

Next ==
    \/ CallEnds
    \/ \E p \in Playbacks : Hold(p)
    \/ \E H \in SUBSET Playbacks : LetGo(H)

Safety == Init /\ [][Next]_gateVars

Spec ==
    /\ Safety
    /\ \A p \in Playbacks :
           WF_gateVars(\E H \in SUBSET Playbacks : p \in H /\ LetGo(H))
=============================================================================
