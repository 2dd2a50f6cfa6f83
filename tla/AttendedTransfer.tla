-------------------------- MODULE AttendedTransfer --------------------------
(***************************************************************************)
(* Attended transfers of one call: the tool that dials the agent while the *)
(* caller hears music, the handler of the leg that answers (announcement,  *)
(* the agent's digit, the bridge), what a leg's end means to the call, the *)
(* timeout guard, cancel_transfer, and the cleanup of the call.            *)
(*                                                                         *)
(* The session and its current_action are one shared object in the code:   *)
(* whoever holds the session sees every later change, and a save puts it   *)
(* back into the store even when it had been removed.  An ARI request is   *)
(* carried out when its await ends; the steps of a task are cut there.     *)
(***************************************************************************)
EXTENDS Naturals

CONSTANTS Attempts, \* bound: transfers the AI asks for
          Incidents, \* bound: failures, hangups, cancellations, pickups, and transfers asked for while
                     \* the AI speaks or another is still being undone
          Recorded  \* transfers with a recording of the caller (caller_recording): they are dialled
                    \* by a background task of the call, the others by the tool's own task

ASSUME BoundsAssumption ==
  Attempts \in Nat /\ Incidents \in Nat /\ Recorded \subseteq 1..Attempts

Dialled == 1..Attempts
PickupOf(i) == Attempts + i
Channels == 1..(2 * Attempts)
Of(c) == IF c \in Dialled THEN c ELSE c - Attempts   \* the transfer of a channel
Handlers == {"ans", "end"}   \* tasks of a StasisStart and of a channel's end

VARIABLES
  call,     \* the session: in the store, cleanup_in_progress; and whether the caller is there
  act,      \* session.current_action
  capture,  \* session.audio_capture_enabled
  speaking, \* the AI's speech holds a gating token
  moh,      \* music on hold on the caller's channel
  ai,       \* the provider runs
  mapped,   \* _attended_transfer_agent_channel_to_call_id
  digit,    \* _attended_transfer_dtmf_digits
  chan,     \* the agents' channels
  ends,     \* channel ends not yet handled
  orig,     \* the originating task of each transfer
  guard,    \* the timeout guard of each transfer
  job,      \* the handlers of each channel
  cancel,   \* the cancel_transfer call
  clean,    \* the cleanup of the call, and the leg it read from the action
  left,     \* incidents that may still happen
  hist      \* for the properties

session == <<call, act, capture>>
legs == <<mapped, digit, chan, ends>>
tasks == <<orig, guard, job, cancel, clean>>
vars == <<session, speaking, moh, ai, legs, tasks, left, hist>>

NoAction == [on |-> FALSE, leg |-> 0, answered |-> FALSE, decided |-> "none", saved |-> "none"]

Init ==
  /\ call = [stored |-> TRUE, ending |-> FALSE, here |-> TRUE]
  /\ act = NoAction /\ capture = TRUE /\ speaking = FALSE /\ moh = FALSE /\ ai = TRUE
  /\ mapped = {} /\ digit = [c \in Channels |-> "none"]
  /\ chan = [c \in Channels |-> "none"] /\ ends = {}
  /\ orig = [i \in Dialled |-> "no"] /\ guard = [i \in Dialled |-> "no"]
  /\ job = [k \in Handlers |-> [c \in Channels |-> "idle"]]
  /\ cancel = [pc |-> "idle", leg |-> 0]
  /\ clean = [pc |-> "no", leg |-> 0]
  /\ left = Incidents
  /\ hist = [by |-> 0, up |-> {}, raced |-> {}, alone |-> FALSE, deaf |-> FALSE, crossed |-> FALSE, undoes |-> 0]

-----------------------------------------------------------------------------
(* The session and the mapping. *)

\* upsert_call of a session that was read before: it is in the store again.
Saved == call' = [call EXCEPT !.stored = TRUE]

\* _unregister_attended_transfer_agent_channel: a handler that waits for the digit is cancelled.
Unregistered(gone, jobs) ==
  /\ mapped' = mapped \ gone
  /\ digit' = [c \in Channels |-> IF c \in gone THEN "none" ELSE digit[c]]
  /\ job' = [k \in Handlers |-> [c \in Channels |->
               IF k = "ans" /\ c \in gone /\ jobs[k][c] = "asked" THEN "idle" ELSE jobs[k][c]]]

At(k, c, pc) == [job EXCEPT ![k][c] = pc]

\* An accepted hangup: the channel's end is an event to come.
HungUp(c) ==
  IF c # 0 /\ chan[c] \in {"ringing", "up", "bridged"}
  THEN chan' = [chan EXCEPT ![c] = "gone"] /\ ends' = ends \cup {c}
  ELSE UNCHANGED <<chan, ends>>

Spends(n) == n <= left /\ left' = left - n
Incident == Spends(1)

\* The action is that of a transfer asked for after i: whoever writes it does not look whose it is.
Foreign(i) == act.on /\ \E j \in Dialled : j > i /\ orig[j] # "no"
Crossing(h, yes) == [h EXCEPT !.crossed = @ \/ yes]
Crosses(i) == hist' = Crossing(hist, call.stored /\ Foreign(i))

-----------------------------------------------------------------------------
(* The AI calls the tools, and may be speaking when it does: its speech gates the capture. *)
Silent ==
  /\ speaking /\ speaking' = FALSE /\ capture' = IF call.stored THEN TRUE ELSE capture
  /\ UNCHANGED <<call, act, moh, ai, legs, tasks, hist, left>>

\* is_pending_attended_transfer: get_tool_block_response refuses tools meanwhile.
Pending == act.on /\ act.decided = "none"

\* A task of the transfer is under way, or its leg.
Busy(j) ==
  \/ orig[j] \notin {"no", "done"} \/ guard[j] \in {"hang", "clear"} \/ cancel.pc # "idle"
  \/ \E c \in {j, PickupOf(j)} :
       chan[c] \notin {"none", "gone"} \/ c \in ends \/ \E k \in Handlers : job[k][c] # "idle"

\* attended_transfer: commit_deferred_action, over whatever action there is; the caller is screened
\* first, or put on hold.
Ask(i) ==
  /\ ai /\ call.stored /\ ~Pending
  /\ orig[i] = "no" /\ \A j \in Dialled : j < i => orig[j] # "no"
  /\ act' = [NoAction EXCEPT !.on = TRUE]
  /\ \E talks \in BOOLEAN :
       /\ IF talks THEN speaking' = TRUE /\ capture' = FALSE ELSE UNCHANGED <<speaking, capture>>
       /\ Spends((IF talks THEN 1 ELSE 0) + (IF \E j \in Dialled : Busy(j) THEN 1 ELSE 0))
  /\ orig' = [orig EXCEPT ![i] = IF i \in Recorded THEN "screen" ELSE "hold"]
  /\ moh' = IF i \in Recorded THEN moh ELSE TRUE
  /\ hist' = Crossing(hist, act.on)
  /\ UNCHANGED <<call, ai, legs, guard, job, cancel, clean>>

\* _clear_pending_attended_transfer_state: the capture is what it was when dialling saved it.
PendingCleared(i) ==
  IF call.stored /\ act.on
  THEN /\ act' = NoAction
       /\ capture' = IF act.saved = "none" THEN capture ELSE act.saved = "open"
       /\ hist' = Crossing([hist EXCEPT !.deaf = @ \/ act.saved = "shut"], Foreign(i))
  ELSE UNCHANGED <<act, capture, hist>>

\* _complete_caller_recording_transfer has the recording, or goes on without.
Screened(i) ==
  /\ orig[i] = "screen"
  /\ IF call.stored /\ act.on
     THEN orig' = [orig EXCEPT ![i] = "hold"] /\ moh' = TRUE
     ELSE orig' = [orig EXCEPT ![i] = "done"] /\ UNCHANGED moh
  /\ Crosses(i)
  /\ UNCHANGED <<session, speaking, ai, legs, guard, job, cancel, clean, left>>

\* The screening of the caller fails: the transfer is given up.
ScreeningFails(i) ==
  /\ Incident
  /\ orig[i] = "screen" /\ orig' = [orig EXCEPT ![i] = "done"]
  /\ PendingCleared(i)
  /\ UNCHANGED <<call, speaking, moh, ai, legs, guard, job, cancel, clean>>

\* _originate_attended_transfer_leg: the capture is saved, whatever the reason for its value.
Dial(i) ==
  /\ orig[i] = "hold" /\ orig' = [orig EXCEPT ![i] = "dial"]
  /\ act' = IF call.stored /\ act.on THEN [act EXCEPT !.saved = IF capture THEN "open" ELSE "shut"] ELSE act
  /\ capture' = IF call.stored THEN FALSE ELSE capture
  /\ hist' = Crossing([hist EXCEPT !.deaf = @ \/ ~act.on], call.stored /\ Foreign(i))
  /\ UNCHANGED <<call, speaking, moh, ai, legs, guard, job, cancel, clean, left>>

Rings(i) ==
  /\ orig[i] = "dial" /\ orig' = [orig EXCEPT ![i] = "rung"]
  /\ chan' = [chan EXCEPT ![i] = "ringing"]
  /\ UNCHANGED <<session, speaking, moh, ai, mapped, digit, ends, guard, job, cancel, clean, hist, left>>

\* _cleanup_failed_originate.
DialFails(i) ==
  /\ Incident
  /\ orig[i] = "dial" /\ orig' = [orig EXCEPT ![i] = "done"]
  /\ moh' = FALSE /\ PendingCleared(i)
  /\ UNCHANGED <<call, speaking, ai, legs, guard, job, cancel, clean>>

\* Mutant of Originated: no timeout guard.
OriginatedUnguarded(i) ==
  /\ orig[i] = "rung" /\ orig' = [orig EXCEPT ![i] = "done"]
  /\ act' = IF call.stored /\ act.on THEN [act EXCEPT !.leg = i] ELSE act
  /\ mapped' = mapped \cup {i} /\ UNCHANGED guard /\ Crosses(i)
  /\ UNCHANGED <<call, capture, speaking, moh, ai, digit, chan, ends, job, cancel, clean, left>>

\* The leg is registered and guarded, whatever became of the action meanwhile.
Originated(i) ==
  /\ orig[i] = "rung" /\ orig' = [orig EXCEPT ![i] = "done"]
  /\ act' = IF call.stored /\ act.on THEN [act EXCEPT !.leg = i] ELSE act
  /\ mapped' = mapped \cup {i} /\ guard' = [guard EXCEPT ![i] = "sleep"] /\ Crosses(i)
  /\ UNCHANGED <<call, capture, speaking, moh, ai, digit, chan, ends, job, cancel, clean, left>>

-----------------------------------------------------------------------------
(* _attended_transfer_abort_and_resume, of either handler. *)

\* Mutant of AbortHangsUp: the music goes on.
AbortKeepsMusic(k, c) ==
  /\ job[k][c] \in {"hang", "decline"}
  /\ HungUp(c) /\ UNCHANGED moh
  /\ IF job[k][c] = "decline"
     THEN capture' = FALSE ELSE UNCHANGED capture
  /\ job' = At(k, c, "resume")
  /\ UNCHANGED <<call, act, speaking, ai, mapped, digit, orig, guard, cancel, clean, hist, left>>

\* The mapping goes before the hangup; the caller's music stops, and the prompt is played to
\* a caller whose transfer was declined or not answered.
AbortHangsUp(k, c) ==
  /\ job[k][c] \in {"hang", "decline"}
  /\ HungUp(c) /\ moh' = FALSE
  /\ IF job[k][c] = "decline"
     THEN capture' = FALSE ELSE UNCHANGED capture
  /\ job' = At(k, c, "resume")
  /\ UNCHANGED <<call, act, speaking, ai, mapped, digit, orig, guard, cancel, clean, hist, left>>

\* Mutant of AbortResumes: the capture stays closed.
AbortResumesDeaf(k, c) ==
  /\ job[k][c] = "resume" /\ Unregistered({c}, At(k, c, "idle"))
  /\ IF call.stored /\ ~call.ending
     THEN act' = NoAction /\ UNCHANGED capture /\ Crosses(Of(c))
     ELSE UNCHANGED <<act, capture, hist>>
  /\ UNCHANGED <<call, speaking, moh, ai, chan, ends, orig, guard, cancel, clean, left>>

\* Never reinsert a removed call session.
AbortResumes(k, c) ==
  /\ job[k][c] = "resume" /\ Unregistered({c}, At(k, c, "idle"))
  /\ IF call.stored /\ ~call.ending
     THEN act' = NoAction /\ capture' = TRUE /\ Crosses(Of(c))
     ELSE UNCHANGED <<act, capture, hist>>
  /\ UNCHANGED <<call, speaking, moh, ai, chan, ends, orig, guard, cancel, clean, left>>

-----------------------------------------------------------------------------
(* _handle_attended_transfer_answered. *)

\* A task is giving the transfer up: it awaits Asterisk before it clears the action.
GivenUp(i) ==
  \/ guard[i] = "hang" \/ hist.undoes = i
  \/ \E k \in Handlers : job[k][i] \in {"hang", "decline"}

\* Up to its first await: the channel is the sole leg of the call, and the action is answered.
Registers(c) ==
  LET known == call.stored /\ act.on
      gone == mapped \ {c} IN
    /\ mapped' = IF known THEN {c} ELSE {}
    /\ digit' = [d \in Channels |-> IF d \in gone \/ ~known THEN "none" ELSE digit[d]]
    /\ job' = [k \in Handlers |-> [d \in Channels |->
                 IF k = "ans" /\ d = c THEN (IF known THEN "screen" ELSE "drop")
                 ELSE IF k = "ans" /\ d \in gone /\ job[k][d] = "asked" THEN "idle" ELSE job[k][d]]]
    /\ act' = IF known THEN [act EXCEPT !.answered = TRUE, !.leg = c] ELSE act
    /\ hist' = Crossing([hist EXCEPT !.up = IF known /\ ~GivenUp(Of(c)) THEN @ \cup {c} ELSE @,
                                     !.raced = IF known /\ GivenUp(Of(c)) THEN @ \cup {c} ELSE @],
                        (known /\ Foreign(Of(c))) \/ \E d \in gone : Of(d) # Of(c))

Answers(i) ==
  /\ chan[i] = "ringing" /\ chan' = [chan EXCEPT ![i] = "up"]
  /\ Registers(i)
  /\ UNCHANGED <<call, capture, speaking, moh, ai, ends, orig, guard, cancel, clean, left>>

\* Call pickup (a person's act: the originate request has returned): another phone's channel
\* enters Stasis, and Asterisk destroys the one that rang.
PickedUp(i) ==
  /\ Incident
  /\ chan[i] = "ringing" /\ orig[i] = "done"
  /\ chan' = [chan EXCEPT ![i] = "gone", ![PickupOf(i)] = "up"] /\ ends' = ends \cup {i}
  /\ Registers(PickupOf(i))
  /\ UNCHANGED <<call, capture, speaking, moh, ai, orig, guard, cancel, clean>>

\* Mutant of Drop: the leg that no action waits for is left up.
DropLeaves(c) ==
  /\ job["ans"][c] = "drop" /\ job' = At("ans", c, "idle") /\ UNCHANGED <<chan, ends>>
  /\ UNCHANGED <<session, speaking, moh, ai, mapped, digit, orig, guard, cancel, clean, hist, left>>

Drop(c) ==
  /\ job["ans"][c] = "drop" /\ job' = At("ans", c, "idle") /\ HungUp(c)
  /\ UNCHANGED <<session, speaking, moh, ai, mapped, digit, orig, guard, cancel, clean, hist, left>>

\* _handle_dtmf_received: the first digit of a mapped channel.
Presses(c) ==
  /\ chan[c] = "up" /\ c \in mapped /\ digit[c] = "none"
  /\ \E d \in {"yes", "no"} : digit' = [digit EXCEPT ![c] = d]
  /\ UNCHANGED <<session, speaking, moh, ai, mapped, chan, ends, tasks, hist, left>>

\* The announcement or the prompt cannot be delivered.
ScreenFails(c) ==
  /\ Incident
  /\ job["ans"][c] = "screen" /\ Unregistered({c}, At("ans", c, "hang"))
  /\ UNCHANGED <<session, speaking, moh, ai, chan, ends, orig, guard, cancel, clean, hist>>

AsksDigit(c) ==
  /\ job["ans"][c] = "screen" /\ digit[c] = "none" /\ job' = At("ans", c, "asked")
  /\ UNCHANGED <<session, speaking, moh, ai, legs, orig, guard, cancel, clean, hist, left>>

\* Assumed of time: an ARI request that began before the announcement has returned after it.
Returned ==
  /\ cancel.pc = "idle"
  /\ \A i \in Dialled : orig[i] # "rung" /\ guard[i] \notin {"hang", "clear"}

\* The decision is persisted in the current action; a session that is gone fails the handler.
Decides(c) ==
  /\ Returned
  /\ job["ans"][c] = "asked" \/ (job["ans"][c] = "screen" /\ digit[c] # "none")
  /\ LET accepted == digit[c] = "yes" IN
       /\ act' = IF call.stored /\ act.on
                 THEN [act EXCEPT !.decided = IF accepted THEN "accepted" ELSE "declined"] ELSE act
       /\ IF ~call.stored THEN job' = At("ans", c, "idle") /\ UNCHANGED <<mapped, digit>>
          ELSE IF accepted THEN job' = At("ans", c, "connect") /\ UNCHANGED <<mapped, digit>>
          ELSE Unregistered({c}, At("ans", c, "decline"))
  /\ Crosses(Of(c))
  /\ UNCHANGED <<call, capture, speaking, moh, ai, chan, ends, orig, guard, cancel, clean, left>>

\* _attended_transfer_finalize_bridge: the AI leaves before the agent joins.
Connects(c) ==
  /\ job["ans"][c] = "connect" /\ job' = At("ans", c, "join")
  /\ moh' = FALSE /\ ai' = FALSE
  /\ UNCHANGED <<session, speaking, legs, orig, guard, cancel, clean, hist, left>>

\* add_channel_to_bridge reports a failure by its result, which is not looked at.
Joins(c) ==
  /\ job["ans"][c] = "join" /\ job' = At("ans", c, "idle")
  /\ \/ chan[c] = "up" /\ clean.pc \in {"no", "begun"} /\ chan' = [chan EXCEPT ![c] = "bridged"] /\ UNCHANGED left
     \/ (chan[c] # "up" \/ clean.pc \notin {"no", "begun"}) /\ UNCHANGED <<chan, left>>
     \/ chan[c] = "up" /\ UNCHANGED chan /\ Incident
  /\ act' = IF act.on THEN [act EXCEPT !.answered = TRUE, !.leg = c, !.decided = "accepted"] ELSE act
  /\ Saved
  /\ hist' = Crossing([hist EXCEPT !.alone = @ \/ chan'[c] # "bridged" \/ ~act.on], Foreign(Of(c)))
  /\ UNCHANGED <<capture, speaking, moh, ai, mapped, digit, ends, orig, guard, cancel, clean>>

-----------------------------------------------------------------------------
(* _attended_transfer_timeout_guard. *)
Due(i) ==
  /\ guard[i] = "sleep" /\ i \in mapped
  /\ call.stored => act.on /\ act.leg = i /\ ~act.answered

\* It looks once, after the dial timeout.
GuardWakes(i) ==
  /\ guard[i] = "sleep" /\ Unregistered(IF Due(i) THEN {i} ELSE {}, job)
  /\ guard' = [guard EXCEPT ![i] = IF Due(i) /\ call.stored THEN "hang" ELSE "done"]
  /\ UNCHANGED <<session, speaking, moh, ai, chan, ends, orig, cancel, clean, hist, left>>

GuardHangsUp(i) ==
  /\ guard[i] = "hang" /\ guard' = [guard EXCEPT ![i] = "clear"] /\ HungUp(i)
  /\ UNCHANGED <<session, speaking, moh, ai, mapped, digit, orig, job, cancel, clean, hist, left>>

GuardClears(i) ==
  /\ guard[i] = "clear" /\ guard' = [guard EXCEPT ![i] = "done"]
  /\ moh' = FALSE /\ act' = NoAction /\ capture' = TRUE /\ Saved
  /\ hist' = Crossing(hist, Foreign(i))
  /\ UNCHANGED <<speaking, ai, legs, orig, job, cancel, clean, left>>

-----------------------------------------------------------------------------
(* cancel_transfer. *)
CancelBegins ==
  /\ Incident
  /\ ai /\ call.stored /\ act.on /\ ~act.answered
  /\ cancel.pc = "idle"
  /\ cancel' = [pc |-> IF act.leg = 0 THEN "clear" ELSE "hang", leg |-> act.leg]
  /\ Unregistered({act.leg}, job)
  /\ \E i \in Dialled : /\ orig[i] # "no" /\ ~Foreign(i)
                        /\ hist' = [hist EXCEPT !.undoes = i]
  /\ UNCHANGED <<session, speaking, moh, ai, chan, ends, orig, guard, clean>>

CancelHangsUp ==
  /\ cancel.pc = "hang" /\ cancel' = [cancel EXCEPT !.pc = "clear"] /\ HungUp(cancel.leg)
  /\ UNCHANGED <<session, speaking, moh, ai, mapped, digit, orig, guard, job, clean, hist, left>>

CancelClears ==
  /\ cancel.pc = "clear" /\ cancel' = [cancel EXCEPT !.pc = "idle", !.leg = 0]
  /\ moh' = FALSE /\ act' = NoAction /\ capture' = TRUE /\ Saved
  /\ hist' = Crossing([hist EXCEPT !.undoes = 0], Foreign(hist.undoes))
  /\ UNCHANGED <<speaking, ai, legs, orig, guard, job, clean, left>>

-----------------------------------------------------------------------------
(* Channels that end, and _cleanup_call. *)

\* Asterisk gives up ringing at the dial timeout.
RingsOut(i) ==
  /\ chan[i] = "ringing" /\ orig[i] = "done" /\ HungUp(i)
  /\ UNCHANGED <<session, speaking, moh, ai, mapped, digit, tasks, hist, left>>

\* The agent hangs up, or the leg cannot be reached.
LegEnds(c) ==
  /\ Incident
  /\ chan[c] \in {"ringing", "up", "bridged"} /\ HungUp(c)
  /\ UNCHANGED <<session, speaking, moh, ai, mapped, digit, tasks, hist>>

CleanupBegins(by) ==
  /\ call' = [call EXCEPT !.ending = TRUE, !.here = @ /\ by # 0]
  /\ clean' = [pc |-> "begun", leg |-> 0] /\ hist' = [hist EXCEPT !.by = by]

CallerHangsUp ==
  /\ Incident
  /\ call.stored /\ ~call.ending /\ CleanupBegins(0)
  /\ UNCHANGED <<act, capture, speaking, moh, ai, legs, orig, guard, job, cancel>>

\* Mutant of EndHandled: the end of an unanswered leg is the end of the call.
EndHandledAlike(c) ==
  /\ c \in ends /\ ends' = ends \ {c}
  /\ LET live == call.stored /\ ~call.ending
         own == act.on /\ act.leg \in {0, c} IN
       IF c \notin mapped THEN UNCHANGED <<mapped, digit, job, call, clean, hist>>
       ELSE IF ~live \/ ~own THEN Unregistered({c}, job) /\ UNCHANGED <<call, clean, hist>>
              ELSE CleanupBegins(c) /\ UNCHANGED <<mapped, digit, job>>
  /\ UNCHANGED <<act, capture, speaking, moh, ai, chan, orig, guard, cancel, left>>

\* Mutant of EndHandled: an answered leg is taken for a superseded one.
EndHandledStale(c) ==
  /\ c \in ends /\ ends' = ends \ {c}
  /\ LET live == call.stored /\ ~call.ending
         own == act.on /\ act.leg = 0 IN
       IF c \notin mapped THEN UNCHANGED <<mapped, digit, job, call, clean, hist>>
       ELSE IF ~live \/ ~own THEN Unregistered({c}, job) /\ UNCHANGED <<call, clean, hist>>
       ELSE IF ~act.answered
       THEN Unregistered({c}, At("end", c, "decline")) /\ Crosses(Of(c)) /\ UNCHANGED <<call, clean>>
       ELSE CleanupBegins(c) /\ UNCHANGED <<mapped, digit, job>>
  /\ UNCHANGED <<act, capture, speaking, moh, ai, chan, orig, guard, cancel, left>>

\* The end of a leg: only an answered one owns the call; another one resumes the caller.
EndHandled(c) ==
  /\ c \in ends /\ ends' = ends \ {c}
  /\ LET live == call.stored /\ ~call.ending
         own == act.on /\ act.leg \in {0, c} IN
       IF c \notin mapped THEN UNCHANGED <<mapped, digit, job, call, clean, hist>>
       ELSE IF ~live \/ ~own THEN Unregistered({c}, job) /\ UNCHANGED <<call, clean, hist>>
       ELSE IF ~act.answered
       THEN Unregistered({c}, At("end", c, "decline")) /\ Crosses(Of(c)) /\ UNCHANGED <<call, clean>>
       ELSE CleanupBegins(c) /\ UNCHANGED <<mapped, digit, job>>
  /\ UNCHANGED <<act, capture, speaking, moh, ai, chan, orig, guard, cancel, left>>

\* The call's background tasks are cancelled, the provider is stopped, the bridge destroyed, and
\* the leg read from the action.  An originate request under way may still be carried out.
CleanupStops ==
  /\ clean.pc = "begun" /\ clean' = [pc |-> "stopped", leg |-> act.leg]
  /\ guard' = [i \in Dialled |-> IF guard[i] = "no" THEN "no" ELSE "done"]
  /\ orig' = [i \in Dialled |-> IF i \in Recorded /\ orig[i] # "no" THEN "done" ELSE orig[i]]
  /\ \E rung \in SUBSET {i \in Recorded : orig[i] = "dial"} :
       chan' = [c \in Channels |-> IF c \in rung THEN "ringing" ELSE IF chan[c] = "bridged" THEN "up" ELSE chan[c]]
  /\ ai' = FALSE
  /\ UNCHANGED <<session, speaking, moh, mapped, digit, ends, job, cancel, hist, left>>

CleanupHangsUp ==
  /\ clean.pc = "stopped" /\ clean' = [clean EXCEPT !.pc = "hung"]
  /\ HungUp(clean.leg) /\ call' = [call EXCEPT !.here = FALSE]
  /\ UNCHANGED <<act, capture, speaking, moh, ai, mapped, digit, orig, guard, job, cancel, hist, left>>

\* Mutant of CleanupRemoves: the mappings stay.
CleanupLeavesMapping ==
  /\ clean.pc = "hung" /\ clean' = [clean EXCEPT !.pc = "done"]
  /\ call' = [call EXCEPT !.stored = FALSE] /\ UNCHANGED <<mapped, digit, job>>
  /\ UNCHANGED <<act, capture, speaking, moh, ai, chan, ends, orig, guard, cancel, hist, left>>

CleanupRemoves ==
  /\ clean.pc = "hung" /\ clean' = [clean EXCEPT !.pc = "done"]
  /\ call' = [call EXCEPT !.stored = FALSE] /\ Unregistered(mapped, job)
  /\ UNCHANGED <<act, capture, speaking, moh, ai, chan, ends, orig, guard, cancel, hist, left>>

-----------------------------------------------------------------------------
Originating(i) == Screened(i) \/ ScreeningFails(i) \/ Dial(i) \/ Rings(i) \/ DialFails(i) \/ Originated(i)
Guarding(i) == GuardWakes(i) \/ GuardHangsUp(i) \/ GuardClears(i)
Handling(c) ==
  \/ Drop(c) \/ ScreenFails(c) \/ AsksDigit(c) \/ Decides(c) \/ Connects(c) \/ Joins(c)
  \/ EndHandled(c) \/ \E k \in Handlers : AbortHangsUp(k, c) \/ AbortResumes(k, c)
Cleaning == CleanupStops \/ CleanupHangsUp \/ CleanupRemoves
Cancelling == CancelHangsUp \/ CancelClears

Next ==
  \/ Silent \/ CancelBegins \/ Cancelling \/ CallerHangsUp \/ Cleaning
  \/ \E i \in Dialled : Ask(i) \/ Originating(i) \/ Guarding(i) \/ Answers(i) \/ PickedUp(i) \/ RingsOut(i)
  \/ \E c \in Channels : Presses(c) \/ LegEnds(c) \/ Handling(c)

Fairness ==
  /\ WF_vars(Silent) /\ WF_vars(Cancelling) /\ WF_vars(Cleaning)
  /\ \A i \in Dialled : WF_vars(Originating(i)) /\ WF_vars(Guarding(i)) /\ WF_vars(RingsOut(i))
  /\ \A c \in Channels : WF_vars(Handling(c))

Spec == Init /\ [][Next]_vars /\ Fairness

-----------------------------------------------------------------------------
Jobs == {"idle", "drop", "screen", "asked", "connect", "join", "hang", "decline", "resume"}

TypeOK ==
  /\ call \in [stored : BOOLEAN, ending : BOOLEAN, here : BOOLEAN]
  /\ act \in [on : BOOLEAN, leg : {0} \cup Channels, answered : BOOLEAN,
              decided : {"none", "accepted", "declined"}, saved : {"none", "open", "shut"}]
  /\ capture \in BOOLEAN /\ speaking \in BOOLEAN /\ moh \in BOOLEAN /\ ai \in BOOLEAN
  /\ mapped \subseteq Channels /\ digit \in [Channels -> {"none", "yes", "no"}]
  /\ chan \in [Channels -> {"none", "ringing", "up", "bridged", "gone"}] /\ ends \subseteq Channels
  /\ orig \in [Dialled -> {"no", "screen", "hold", "dial", "rung", "done"}]
  /\ guard \in [Dialled -> {"no", "sleep", "hang", "clear", "done"}]
  /\ job \in [Handlers -> [Channels -> Jobs]]
  /\ cancel \in [pc : {"idle", "hang", "clear"}, leg : {0} \cup Channels]
  /\ clean \in [pc : {"no", "begun", "stopped", "hung", "done"}, leg : {0} \cup Channels]
  /\ left \in 0..Incidents
  /\ hist \in [by : {0} \cup Channels, up : SUBSET Channels, raced : SUBSET Channels, alone : BOOLEAN, deaf : BOOLEAN,
              crossed : BOOLEAN, undoes : {0} \cup Dialled]

-----------------------------------------------------------------------------
(* Properties.  Idle: every task of the transfers has ended or waits for an event to come. *)
Idle ==
  /\ \A i \in Dialled : orig[i] \in {"no", "done"} /\ guard[i] \notin {"hang", "clear"} /\ ~Due(i)
  /\ \A k \in Handlers, c \in Channels : job[k][c] = "idle"
  /\ cancel.pc = "idle" /\ ends = {} /\ ~speaking /\ clean.pc \in {"no", "done"}
  /\ \A c \in Channels : chan[c] # "ringing"

Live == call.stored /\ ~call.ending

\* The excuse of overlapping transfers.  The tools are refused only while a transfer waits for its
\* decision (context.py:176), so another may be asked for while one is still being undone; crossed
\* tells that a task of one transfer then wrote the action of another or unmapped its leg, or that
\* the end of its leg was taken for that of the other.

\* Only a leg that answered ends the caller's call by ending: one that rang out, was hung up before
\* it answered or was picked up elsewhere spares the caller (_cleanup_call, engine.py:10095).  The
\* legs of raced are among those that answered, against the intent of engine.py:7971 and 9262 and of
\* cancel_transfer.py:111: one that answers while cancel_transfer, the guard or an abort awaits its
\* hangup is registered again, and its end then ends the call.
LegEndSpares == hist.by \in {0} \cup hist.up \cup hist.raced \/ hist.crossed

\* A caller left with the AI is heard by it: every way a transfer ends reopens the capture that
\* dialling closed.  Excepted: a failed dial that restores the capture as the AI's own speech had
\* closed it, and a dial after its action was cancelled, which closes it with nobody to reopen it.
CallerHeard == Idle /\ Live => (ai => capture) \/ hist.deaf \/ hist.crossed

\* A caller on the line has the AI or an agent.  Excepted: the bridging that failed unnoticed after
\* the AI had left, and the agent bridged although the transfer had been cleared.
CallerServed ==
  Idle /\ Live => ai \/ (\E c \in Channels : chan[c] = "bridged") \/ hist.alone \/ hist.crossed

\* No agent is left up beside the call: a leg that is up at rest is the one the action names and
\* the mapping resolves, so that its hangup, or the cleanup, ends the other side.
LegsOwned ==
  Idle /\ Live => \A c \in Channels : chan[c] \in {"up", "bridged"} =>
                    (c \in mapped /\ act.on /\ act.leg = c) \/ hist.alone \/ hist.crossed

\* A call that is gone leaves no leg mapped to it, one that was dialled or answered during its
\* cleanup included: a later call of that channel must not resolve to it.
NoMappingLeft == Idle /\ ~call.stored => mapped = {}

\* A transfer is decided, or given up: until then the AI's tools are refused (context.py:140).
PendingSettles == Pending ~> (~Pending \/ ~call.stored)

\* A caller is not left with the music, however the agent, the dialling or a cancellation fares.
MusicStops == moh ~> (~moh \/ call.ending \/ hist.crossed)

=============================================================================
