----------------------------- MODULE TtsGating -----------------------------
(***************************************************************************)
(* File playback of the agent's speech in one call and the gating of the   *)
(* caller's microphone: PlaybackManager.play_audio, the PlaybackFinished   *)
(* handler, the fallback timers, barge-in, and the end of the call, against *)
(* an Asterisk that queues, plays, stops and reports playbacks.            *)
(*                                                                         *)
(* An action is the code between two awaits that really wait.  The bodies  *)
(* under the store's lock and the coordinator's methods await nothing that *)
(* does, so gating and the playback table change together.                 *)
(***************************************************************************)
EXTENDS FiniteSets

CONSTANTS
    Playbacks,     \* play_audio calls of the session, each with its own id
    Bargers,       \* barge-in handlers that may run at the same time
    EventsLost,    \* PlaybackFinished may be lost with the ARI websocket
    RepliesLost    \* the answer to a play request may be lost

ASSUME SwitchAssumption == /\ EventsLost \in BOOLEAN
                           /\ RepliesLost \in BOOLEAN

VARIABLES
    session,   \* the CallSession: stored, tts_tokens, tts_playing, capture
    phase,     \* how far _cleanup_call has come
    refs,      \* SessionStore._playbacks
    task,      \* where each play_audio call stands
    timers,    \* the playbacks whose fallback timer is armed
    barge,     \* per barge-in handler: the playbacks it still has to stop
    flushed,   \* history: the playbacks whose token a barge-in took
    line,      \* Asterisk: the caller's channel is up
    ari,       \* Asterisk: the state of each playback
    late,      \* Asterisk: playbacks that waited behind another one
    reply,     \* the answer to each play request
    events     \* PlaybackFinished events under way

engineVars == <<session, phase, refs, task, timers, barge, flushed>>
asteriskVars == <<line, ari, late, reply, events>>
vars == <<engineVars, asteriskVars>>

Stages == {"new", "file", "post", "done",     \* the way of a playback
           "unplayed", "refused",             \* it failed before, after its token
           "dropped", "cut"}                  \* it was cancelled before, after it

\* A handler that has nothing to stop.
Idle == [busy |-> FALSE, todo |-> {}]

TypeOK ==
    /\ session \in [stored : BOOLEAN, tokens : SUBSET Playbacks,
                    playing : BOOLEAN, capture : BOOLEAN]
    /\ phase \in {"live", "cleaning", "removed"}
    /\ refs \subseteq Playbacks
    /\ task \in [Playbacks -> Stages]
    /\ timers \subseteq Playbacks
    /\ barge \in [Bargers -> {Idle} \cup [busy : {TRUE}, todo : SUBSET Playbacks]]
    /\ flushed \subseteq Playbacks
    /\ line \in BOOLEAN
    /\ ari \in [Playbacks -> {"none", "posted", "queued", "playing", "over"}]
    /\ late \subseteq Playbacks
    /\ reply \in [Playbacks -> {"none", "ok", "error"}]
    /\ events \subseteq Playbacks

Init ==
    /\ session = [stored |-> TRUE, tokens |-> {}, playing |-> FALSE, capture |-> TRUE]
    /\ phase = "live"
    /\ refs = {}
    /\ task = [p \in Playbacks |-> "new"]
    /\ timers = {}
    /\ barge = [b \in Bargers |-> Idle]
    /\ flushed = {}
    /\ line = TRUE
    /\ ari = [p \in Playbacks |-> "none"]
    /\ late = {}
    /\ reply = [p \in Playbacks |-> "none"]
    /\ events = {}

-----------------------------------------------------------------------------
(* Asterisk's side of a playback.                                          *)

\* Asterisk has accepted the playback and not finished it.
Waiting(p) == ari[p] \in {"queued", "playing"}

\* A finished playback is reported, unless the event is lost.
Report(P) ==
    \E Q \in (IF EventsLost THEN SUBSET P ELSE {P}) : events' = events \cup Q

-----------------------------------------------------------------------------
(* The gating tokens of the session store.                                 *)

\* set_gating_token: with a token present the session is gated, whether it
\* was before or not.
WithToken(s, p) ==
    [s EXCEPT !.tokens = @ \cup {p}, !.playing = TRUE, !.capture = FALSE]

\* Mutant of WithoutTokens: any end of a playback opens the gate.
WithoutTokensEager(s, T) ==
    IF ~s.stored \/ s.tokens = {} THEN s
    ELSE [s EXCEPT !.tokens = @ \ T, !.playing = FALSE, !.capture = TRUE]

\* clear_gating_token, for every token of T: the last one opens the gate, a
\* removal that leaves tokens closes it again, and one from an empty set, or
\* from a session that is not in the store, changes nothing.
WithoutTokens(s, T) ==
    IF ~s.stored \/ s.tokens = {} THEN s
    ELSE LET left == s.tokens \ T
         IN  [s EXCEPT !.tokens = left,
                       !.playing = left # {},
                       !.capture = left = {}]

-----------------------------------------------------------------------------
(* play_audio.                                                             *)

\* The session is looked up, then the audio file is written in a thread.
StartPlay(p) ==
    /\ task[p] = "new"
    /\ task' = [task EXCEPT ![p] = IF session.stored THEN "file" ELSE "unplayed"]
    /\ UNCHANGED <<session, phase, refs, timers, barge, flushed, asteriskVars>>

FileFails(p) ==
    /\ task[p] = "file"
    /\ task' = [task EXCEPT ![p] = "unplayed"]
    /\ UNCHANGED <<session, phase, refs, timers, barge, flushed, asteriskVars>>

\* The file is there: take the token, record the playback, send the request.
GateAndPost(p) ==
    /\ task[p] = "file"
    /\ session.stored
    /\ session' = WithToken(session, p)
    /\ refs' = refs \cup {p}
    /\ ari' = [ari EXCEPT ![p] = "posted"]
    /\ task' = [task EXCEPT ![p] = "post"]
    /\ UNCHANGED <<phase, timers, barge, flushed, line, late, reply, events>>

\* The session was removed while the file was written: nothing is played.
GateFails(p) ==
    /\ task[p] = "file"
    /\ ~session.stored
    /\ task' = [task EXCEPT ![p] = "unplayed"]
    /\ UNCHANGED <<session, phase, refs, timers, barge, flushed, asteriskVars>>

\* Mutant of Started: the fallback timer is forgotten.
StartedUntimed(p) ==
    /\ task[p] = "post"
    /\ reply[p] = "ok"
    /\ task' = [task EXCEPT ![p] = "done"]
    /\ UNCHANGED <<session, phase, refs, timers, barge, flushed, asteriskVars>>

\* The request succeeded: arm the fallback timer.
Started(p) ==
    /\ task[p] = "post"
    /\ reply[p] = "ok"
    /\ task' = [task EXCEPT ![p] = "done"]
    /\ timers' = timers \cup {p}
    /\ UNCHANGED <<session, phase, refs, barge, flushed, asteriskVars>>

\* The request failed: forget the playback and give the token back.
NotStarted(p) ==
    /\ task[p] = "post"
    /\ reply[p] = "error"
    /\ task' = [task EXCEPT ![p] = "refused"]
    /\ refs' = refs \ {p}
    /\ session' = WithoutTokens(session, {p})
    /\ UNCHANGED <<phase, timers, barge, flushed, asteriskVars>>

\* _cleanup_call cancels the pipeline task in the middle of play_audio: what
\* the call had taken it keeps, and no timer is armed.
Cancelled(p) ==
    /\ phase = "cleaning"
    /\ task[p] \in {"file", "post"}
    /\ task' = [task EXCEPT ![p] = IF @ = "file" THEN "dropped" ELSE "cut"]
    /\ UNCHANGED <<session, phase, refs, timers, barge, flushed, asteriskVars>>

-----------------------------------------------------------------------------
(* The end of a playback.                                                  *)

\* Mutant of Settle: the end of one playback releases every token.
SettleAll(p) ==
    /\ refs' = refs \ {p}
    /\ session' = IF p \in refs THEN WithoutTokens(session, session.tokens) ELSE session

\* What both ends do: the first to find the playback in the table takes it
\* out and gives its token back.
Settle(p) ==
    /\ refs' = refs \ {p}
    /\ session' = IF p \in refs THEN WithoutTokens(session, {p}) ELSE session

OnPlaybackFinished(p) ==
    /\ p \in events
    /\ events' = events \ {p}
    /\ Settle(p)
    /\ UNCHANGED <<phase, task, timers, barge, flushed, line, ari, late, reply>>

\* The timer runs for the length of the audio and a margin, from the moment
\* the request was answered.  The margin outlasts Asterisk's own delays: only
\* a playback that waited behind another one can still be heard by then.
Overdue(p) == ari[p] = "over" \/ p \in late

GatingFallback(p) ==
    /\ p \in timers
    /\ Overdue(p)
    /\ timers' = timers \ {p}
    /\ Settle(p)
    /\ UNCHANGED <<phase, task, barge, flushed, asteriskVars>>

-----------------------------------------------------------------------------
(* Barge-in: _apply_barge_in_action and what its pipeline callers add.     *)

\* The caller speaks over the gate; the playbacks to stop are listed.
BargeStart(b) ==
    /\ ~barge[b].busy
    /\ line
    /\ session.stored
    /\ ~session.capture
    /\ barge' = [barge EXCEPT ![b] = [busy |-> TRUE, todo |-> refs]]
    /\ UNCHANGED <<session, phase, refs, task, timers, flushed, asteriskVars>>

\* stop_playback: Asterisk ends a playback it has accepted and reports it, and
\* answers 404, which counts as success, for one it does not have.
BargeStop(b, p) ==
    /\ p \in barge[b].todo
    /\ barge' = [barge EXCEPT ![b].todo = @ \ {p}]
    /\ IF Waiting(p)
       THEN /\ ari' = [ari EXCEPT ![p] = "over"]
            /\ Report({p})
       ELSE UNCHANGED <<ari, events>>
    /\ UNCHANGED <<session, phase, refs, task, timers, flushed, line, late, reply>>

\* Mutant of BargeClear: the tokens go while playbacks are still to be stopped.
BargeClearEarly(b) ==
    /\ barge[b].busy
    /\ session' = [WithoutTokens(session, session.tokens) EXCEPT !.stored = TRUE,
                                                                 !.capture = TRUE]
    /\ flushed' = flushed \cup (IF session.stored THEN session.tokens ELSE {})
    /\ barge' = [barge EXCEPT ![b].busy = FALSE]
    /\ UNCHANGED <<phase, refs, task, timers, asteriskVars>>

\* All stopped: clear every token there is by now, save the session, which
\* puts it into the store whether it is still there or not, and listen.
BargeClear(b) ==
    /\ barge[b].busy
    /\ barge[b].todo = {}
    /\ session' = [WithoutTokens(session, session.tokens) EXCEPT !.stored = TRUE,
                                                                 !.capture = TRUE]
    /\ flushed' = flushed \cup (IF session.stored THEN session.tokens ELSE {})
    /\ barge' = [barge EXCEPT ![b] = Idle]
    /\ UNCHANGED <<phase, refs, task, timers, asteriskVars>>

-----------------------------------------------------------------------------
(* The end of the call.                                                    *)

BeginCleanup ==
    /\ phase = "live"
    /\ phase' = "cleaning"
    /\ UNCHANGED <<session, refs, task, timers, barge, flushed, asteriskVars>>

\* remove_call takes the session out; the playback table is left alone.
RemoveCall ==
    /\ phase = "cleaning"
    /\ ~line
    /\ phase' = "removed"
    /\ session' = [session EXCEPT !.stored = FALSE]
    /\ UNCHANGED <<refs, task, timers, barge, flushed, asteriskVars>>

-----------------------------------------------------------------------------
(* Asterisk.                                                               *)

Accept(p) ==
    /\ ari[p] = "posted"
    /\ line
    /\ ari' = [ari EXCEPT ![p] = "queued"]
    /\ late' = late \cup (IF \E q \in Playbacks : Waiting(q) THEN {p} ELSE {})
    /\ \E r \in {"ok"} \cup (IF RepliesLost THEN {"error"} ELSE {}) :
           reply' = [reply EXCEPT ![p] = r]
    /\ UNCHANGED <<line, events, engineVars>>

Refuse(p) ==
    /\ ari[p] = "posted"
    /\ ari' = [ari EXCEPT ![p] = "over"]
    /\ reply' = [reply EXCEPT ![p] = "error"]
    /\ UNCHANGED <<line, late, events, engineVars>>

Begin(p) ==
    /\ ari[p] = "queued"
    /\ \A q \in Playbacks : ari[q] # "playing"
    /\ ari' = [ari EXCEPT ![p] = "playing"]
    /\ UNCHANGED <<line, late, reply, events, engineVars>>

Finish(p) ==
    /\ ari[p] = "playing"
    /\ ari' = [ari EXCEPT ![p] = "over"]
    /\ Report({p})
    /\ UNCHANGED <<line, late, reply, engineVars>>

\* The caller's channel goes, and with it whatever it was playing.
HangUp ==
    /\ line
    /\ line' = FALSE
    /\ ari' = [p \in Playbacks |-> IF Waiting(p) THEN "over" ELSE ari[p]]
    /\ Report({p \in Playbacks : Waiting(p)})
    /\ UNCHANGED <<late, reply, engineVars>>

-----------------------------------------------------------------------------
Play(p) ==
    \/ StartPlay(p)
    \/ FileFails(p)
    \/ GateAndPost(p)
    \/ GateFails(p)
    \/ Started(p)
    \/ NotStarted(p)
    \/ Cancelled(p)

Barge(b) ==
    \/ BargeStart(b)
    \/ \E p \in Playbacks : BargeStop(b, p)
    \/ BargeClear(b)

Asterisk(p) ==
    \/ Accept(p)
    \/ Refuse(p)
    \/ Begin(p)
    \/ Finish(p)

Next ==
    \/ \E p \in Playbacks : Play(p) \/ OnPlaybackFinished(p) \/ GatingFallback(p) \/ Asterisk(p)
    \/ \E b \in Bargers : Barge(b)
    \/ BeginCleanup
    \/ RemoveCall
    \/ HangUp

Spec == Init /\ [][Next]_vars

\* The event loop runs whatever is ready, Asterisk answers a request and plays
\* what it has accepted, clocks advance, and cleanup hangs the caller up before
\* it removes the call.  Nothing else says that a caller speaks or hangs up.
Fairness ==
    /\ \A p \in Playbacks :
        /\ WF_vars(GateAndPost(p) \/ GateFails(p) \/ FileFails(p))
        /\ WF_vars(Started(p) \/ NotStarted(p))
        /\ WF_vars(OnPlaybackFinished(p))
        /\ WF_vars(GatingFallback(p))
        /\ WF_vars(Accept(p) \/ Refuse(p))
        /\ WF_vars(Begin(p))
        /\ WF_vars(Finish(p))
    /\ \A b \in Bargers :
        /\ WF_vars(\E p \in Playbacks : BargeStop(b, p))
        /\ WF_vars(BargeClear(b))
    /\ WF_vars(phase = "cleaning" /\ HangUp)
    /\ WF_vars(RemoveCall)

FairSpec == Spec /\ Fairness

-----------------------------------------------------------------------------
(* Properties.                                                             *)

\* Who will give the token of a playback back: its request is still open, its
\* fallback timer runs, or its task was cancelled by the cleanup that is about
\* to remove the session.  The playback is in the table for them to find.
HasOwner(p) ==
    /\ p \in refs
    /\ \/ task[p] = "post"
       \/ p \in timers
       \/ task[p] = "cut" /\ phase = "cleaning"

\* No token without someone who will give it back, until the call is removed.
TokenOwned == phase # "removed" => \A p \in session.tokens : HasOwner(p)

\* What can make a playback audible while it holds no token: a barge-in took
\* the token, the answer to the request was lost, or the timer ran out while
\* the playback waited behind another one.
Excused(p) == p \in flushed \/ task[p] = "refused" \/ p \in late

\* While a playback of a live call is heard, the caller's microphone is closed,
\* and it is the playback's own token that keeps it closed, but for the named
\* excuses.
PlaybackCovered ==
    phase = "live" =>
        \A p \in Playbacks :
            ari[p] = "playing" /\ ~Excused(p) => p \in session.tokens /\ ~session.capture

\* What the promise sees of the engine: the tokens of a call that is not
\* removed, the playbacks that took one, and the microphone.
Holders == IF phase = "removed" THEN {} ELSE session.tokens
Spent == IF phase = "removed" THEN Playbacks
         ELSE {p \in Playbacks : task[p] \in {"post", "done", "refused", "cut"}}
Open == IF phase = "removed" THEN TRUE ELSE session.capture

Gate == INSTANCE CaptureGate WITH holders <- Holders, spent <- Spent, open <- Open

\* The engine keeps the promise: the microphone opens exactly when the last
\* token goes, no token comes back, and every token goes in the end.
GateKept == Gate!Spec
=============================================================================
