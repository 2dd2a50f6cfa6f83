-------------------------- MODULE NoInputWatchdog --------------------------
(***************************************************************************)
(* The caller-inactivity watchdog of one call: the observers that the ARI, *)
(* provider and playback handlers call, the timer task, the announcements  *)
(* it has spoken, and the terminal hangup it shares with the agent.        *)
(*                                                                         *)
(* The observers await nothing that really waits, so each is one step.     *)
(* The timer task waits in three places only: for the event or the         *)
(* deadline, for an announcement, and for the answer to the hangup.        *)
(* Time is counted in ticks; no tick passes while the loop has work for    *)
(* the timer task.                                                         *)
(***************************************************************************)
EXTENDS Integers

CONSTANTS
    MaxCheckIns,     \* policy: check-ins before the final warning
    Window,          \* policy: ticks of silence before a check-in
    Grace,           \* policy: ticks of silence after a check-in
    Talk,            \* bound: signs of life the caller gives
    Solo,            \* bound: agent outputs that answer nothing
    Transfers,       \* bound: transfers the agent begins
    Faults           \* bound: turns that end with no audio and no notice, lost ends of
                     \* the caller's speech, announcements that outlast the wait for
                     \* them, hangup requests that fail

ASSUME PolicyAssumption ==
    /\ MaxCheckIns \in Nat
    /\ Window \in Nat \ {0}
    /\ Grace \in Nat \ {0}

ASSUME BoundAssumption ==
    /\ Talk \in Nat
    /\ Solo \in Nat
    /\ Transfers \in Nat
    /\ Faults \in Nat

VARIABLES
    dog,      \* _CallState
    runner,   \* where the task _run stands, its timer and its event
    watched,  \* the state is registered
    since,    \* history: what was announced since the caller last gave a sign
    talking,  \* the caller speaks, as the detectors see it
    owed,     \* the model owes the caller an answer
    air,      \* the agent's audio that is on its way to the caller
    asked,    \* the audio of an announcement is still to come
    line,     \* the call is up and not being cleaned up
    transfer, \* a transfer of the call: attended and "pending", "action" another one, "done" transferred
    hangup,   \* _terminal_hangup_started, and the agent's own drain
    left      \* what remains of the bounds

callerVars == <<talking, owed, air, asked>>
callVars == <<line, transfer, hangup>>
vars == <<dog, runner, watched, since, callerVars, callVars, left>>

Unset == -1
Ticks == Unset .. (Window + Grace)
Silent == [checkIns |-> 0, warned |-> FALSE]
Asleep(t) == [pc |-> "asleep", timer |-> t, woken |-> FALSE, expired |-> FALSE]
Busy(pc) == [Asleep(Unset) EXCEPT !.pc = pc]

\* _CallState, and the task with its timer and its event.
Dogs == [ready : BOOLEAN, input : BOOLEAN, output : BOOLEAN,
         processing : BOOLEAN, own : BOOLEAN, terminal : BOOLEAN,
         phase : {"waiting", "announcing", "grace", "final_announcement", "hangup"},
         checkIns : 0..MaxCheckIns, deadline : Ticks, rest : Ticks,
         resumed : BOOLEAN]
Runners == [pc : {"asleep", "check_in", "final", "request", "over"},
            timer : Ticks, woken : BOOLEAN, expired : BOOLEAN]

TypeOK ==
    /\ dog \in Dogs
    /\ runner \in Runners
    /\ watched \in BOOLEAN
    /\ since \in [checkIns : 0..MaxCheckIns, warned : BOOLEAN]
    /\ talking \in BOOLEAN
    /\ owed \in BOOLEAN
    /\ air \in {"quiet", "reply", "silence", "own"}
    /\ asked \in BOOLEAN
    /\ line \in BOOLEAN
    /\ transfer \in {"none", "action", "pending", "done"}
    /\ hangup \in [started : BOOLEAN, draining : BOOLEAN]
    /\ left \in [talk : 0..Talk, solo : 0..Solo, transfers : 0..Transfers,
                faults : 0..Faults]

\* Registered when the agent's context is resolved, before its greeting.
Init ==
    /\ dog = [ready |-> FALSE, input |-> FALSE, output |-> FALSE,
              processing |-> FALSE, own |-> FALSE, terminal |-> FALSE,
              phase |-> "waiting", checkIns |-> 0, deadline |-> Unset,
              rest |-> Unset, resumed |-> FALSE]
    /\ runner = Asleep(Unset)
    /\ watched = TRUE
    /\ since = Silent
    /\ talking = FALSE
    /\ owed = FALSE
    /\ air = "quiet"
    /\ asked = FALSE
    /\ line = TRUE
    /\ transfer = "none"
    /\ hangup = [started |-> FALSE, draining |-> FALSE]
    /\ left = [talk |-> Talk, solo |-> Solo, transfers |-> Transfers,
               faults |-> Faults]

-----------------------------------------------------------------------------
(* The observers, as functions of the watchdog's state.                    *)

\* Silence is counted.
CanCount(d) ==
    d.ready /\ ~d.input /\ ~d.output /\ ~d.processing /\ ~d.terminal

Ready(d) ==
    [d EXCEPT !.ready = TRUE,
              !.deadline = IF ~d.output /\ ~d.processing THEN Window ELSE @]

\* Mutant of Heard: the check-ins already spoken still count.
HeardForgetful(d) ==
    [d EXCEPT !.resumed = TRUE,
              !.phase = "waiting",
              !.deadline = IF d.ready /\ ~d.output /\ ~d.processing
                           THEN Window ELSE Unset]

\* note_activity: the caller is there, the count starts again.
Heard(d) ==
    [d EXCEPT !.resumed = TRUE,
              !.checkIns = 0,
              !.phase = "waiting",
              !.deadline = IF d.ready /\ ~d.output /\ ~d.processing
                           THEN Window ELSE Unset]

\* note_processing(True): the clock stands while the model thinks.
Processing(d) == [d EXCEPT !.processing = TRUE, !.deadline = Unset]

\* note_input_state(True): the clock stands while the caller speaks.
InputStarts(d) ==
    [d EXCEPT !.input = TRUE, !.resumed = TRUE, !.checkIns = 0,
              !.phase = "waiting", !.deadline = Unset]

\* note_input_state(False): an end without a start changes nothing.
InputEnds(d) ==
    IF ~d.input THEN d
    ELSE [d EXCEPT !.input = FALSE,
                   !.deadline = IF d.ready /\ ~d.output /\ ~d.processing
                                THEN Window ELSE @]

\* note_agent_output_start: keep what is left of the deadline.
OutputStarts(d) ==
    [d EXCEPT !.rest = IF d.output THEN @ ELSE d.deadline,
              !.output = TRUE,
              !.processing = FALSE,
              !.deadline = Unset]

\* Mutant of OutputEnds: the agent's own silence turn buys a fresh window.
OutputEndsFresh(d, reset, preserve) ==
    LET ended == [d EXCEPT !.output = FALSE, !.processing = FALSE, !.rest = Unset]
    IN  IF preserve \/ d.own THEN ended
        ELSE [ended EXCEPT !.deadline = IF d.ready THEN Window ELSE @]

\* note_agent_output_end: an answer starts the count again, the output of a
\* hosted agent's silence turn goes on where it stopped, the watchdog's own
\* announcement leaves the rest to the timer task.
OutputEnds(d, reset, preserve) ==
    LET ended == [d EXCEPT !.output = FALSE, !.processing = FALSE, !.rest = Unset]
    IN  IF preserve \/ d.own THEN ended
        ELSE IF reset
        THEN [ended EXCEPT !.checkIns = 0,
                           !.phase = "waiting",
                           !.deadline = IF d.ready THEN Window ELSE @]
        ELSE [ended EXCEPT !.deadline = IF ~d.ready THEN @
                                        ELSE IF d.rest = Unset THEN Window
                                        ELSE d.rest]

\* After the call's state is removed or terminal, the observers do nothing.
Deaf == ~watched \/ dog.terminal

\* An observer's change, which wakes the timer task.
Tell(d) ==
    /\ dog' = IF Deaf THEN dog ELSE d
    /\ runner' = IF Deaf \/ runner.pc # "asleep" THEN runner
                 ELSE [runner EXCEPT !.woken = TRUE]

\* The same for a sign of life.
Sign(d) ==
    /\ Tell(d)
    /\ since' = IF Deaf THEN since ELSE Silent

-----------------------------------------------------------------------------
(* What the call tells the watchdog.                                       *)

MarkReady ==
    /\ watched
    /\ ~dog.ready
    /\ Tell(Ready(dog))
    /\ UNCHANGED <<watched, since, callerVars, callVars, left>>

\* The loop has something to do for the sleeping timer task.
Stirred == runner.woken \/ runner.expired \/ runner.timer = 0

\* Every sign the caller gives takes one of the bound.
Says ==
    /\ line
    /\ left.talk > 0
    /\ left' = [left EXCEPT !.talk = @ - 1]

\* TALK_DETECT or the audio detector while nothing is being played.
TalkStarts ==
    /\ Says
    /\ ~talking
    /\ air = "quiet"
    /\ talking' = TRUE
    /\ Sign(InputStarts(dog))
    /\ UNCHANGED <<watched, owed, air, asked, callVars>>

TalkEnds ==
    /\ talking
    /\ talking' = FALSE
    /\ Tell(InputEnds(dog))
    /\ UNCHANGED <<watched, since, owed, air, asked, callVars, left>>

\* A fault takes one of the bound.
Fault ==
    /\ left.faults > 0
    /\ left' = [left EXCEPT !.faults = @ - 1]

TalkEndLost ==
    /\ Fault
    /\ talking
    /\ talking' = FALSE
    /\ UNCHANGED <<dog, runner, watched, since, owed, air, asked, callVars>>

\* A provider's speech-start event, or TALK_DETECT over the agent's audio.
Activity ==
    /\ Says
    /\ Sign(Heard(dog))
    /\ UNCHANGED <<watched, callerVars, callVars>>

\* What the caller said: the model owes an answer.
Transcript ==
    /\ Says
    /\ owed' = TRUE
    /\ Sign(Processing(Heard(dog)))
    /\ UNCHANGED <<watched, talking, air, asked, callVars>>

AnswerStarts ==
    /\ owed
    /\ air = "quiet"
    /\ owed' = FALSE
    /\ air' = "reply"
    /\ Tell(OutputStarts(dog))
    /\ UNCHANGED <<watched, since, talking, asked, callVars, left>>

\* The provider reports the end of a turn in which it said nothing.
AnswerEmpty ==
    /\ owed
    /\ owed' = FALSE
    /\ Tell(OutputEnds(dog, TRUE, FALSE))
    /\ UNCHANGED <<watched, since, talking, air, asked, callVars, left>>

\* The turn ends in a failed or empty synthesis: run_turn just returns.
AnswerFails ==
    /\ Fault
    /\ owed
    /\ owed' = FALSE
    /\ UNCHANGED <<dog, runner, watched, since, talking, air, asked, callVars>>

\* The greeting, or anything the agent says without being asked.
SpeaksUp ==
    /\ line
    /\ air = "quiet"
    /\ left.solo > 0
    /\ left' = [left EXCEPT !.solo = @ - 1]
    /\ air' = "reply"
    /\ Tell(OutputStarts(dog))
    /\ UNCHANGED <<watched, since, talking, owed, asked, callVars>>

\* A hosted agent answers the caller's silence, as often as it likes.  Its turns
\* are seconds apart, so they are taken not to fall into the few turns of the
\* loop in which the timer task wakes up; SpeaksUp falls there.
SilenceTurn ==
    /\ line
    /\ air = "quiet"
    /\ ~Stirred
    /\ air' = "silence"
    /\ Tell(OutputStarts(dog))
    /\ UNCHANGED <<watched, since, talking, owed, asked, callVars, left>>

\* The audio of an announcement.
OwnStarts ==
    /\ asked
    /\ air = "quiet"
    /\ asked' = FALSE
    /\ air' = "own"
    /\ Tell(OutputStarts(dog))
    /\ UNCHANGED <<watched, since, talking, owed, callVars, left>>

\* Audio ends.  When an announcement ends after the wait for it, a provider's
\* drain keeps the policy state and a playback does not.
AudioEnds ==
    /\ air # "quiet"
    /\ air' = "quiet"
    /\ \E preserve \in IF air = "own" THEN BOOLEAN ELSE {FALSE} :
           Tell(OutputEnds(dog, air # "silence", preserve))
    /\ UNCHANGED <<watched, since, talking, owed, asked, callVars, left>>

-----------------------------------------------------------------------------
(* The timer task _run.                                                    *)

\* The top of its loop with state d: sleep until the event or the deadline.
Again(d) ==
    LET counted == IF CanCount(d) /\ d.deadline = Unset
                   THEN [d EXCEPT !.deadline = Window] ELSE d
    IN  /\ dog' = counted
        /\ runner' = Asleep(IF CanCount(d) THEN counted.deadline ELSE Unset)

\* A tick passes only when the loop has nothing to do for the timer task.
Tick ==
    /\ dog.deadline > 0
    /\ ~Stirred
    /\ dog' = [dog EXCEPT !.deadline = @ - 1]
    /\ runner' = [runner EXCEPT !.timer = IF @ > 0 THEN @ - 1 ELSE @]
    /\ UNCHANGED <<watched, since, callerVars, callVars, left>>

Wake ==
    /\ runner.pc = "asleep"
    /\ runner.woken
    /\ ~runner.expired
    /\ Again(dog)
    /\ UNCHANGED <<watched, since, callerVars, callVars, left>>

\* wait_for times out.  The task resumes some turns of the loop later, and
\* then the event no longer counts, whether it was set before or after.
Expire ==
    /\ runner.pc = "asleep"
    /\ runner.timer = 0
    /\ ~runner.expired
    /\ runner' = [runner EXCEPT !.expired = TRUE]
    /\ UNCHANGED <<dog, watched, since, callerVars, callVars, left>>

Expired == runner.pc = "asleep" /\ runner.expired

\* _no_input_should_pause: any transfer action counts ...
Pause == ~line \/ transfer # "none"

\* ... but a hangup is given up only for a pending attended transfer or a transferred call.
Transferring == transfer \in {"pending", "done"}

Lapse ==
    /\ Expired
    /\ ~CanCount(dog)
    /\ Again(dog)
    /\ UNCHANGED <<watched, since, callerVars, callVars, left>>

Postpone ==
    /\ Expired
    /\ CanCount(dog)
    /\ Pause
    /\ Again([dog EXCEPT !.checkIns = 0, !.phase = "waiting", !.deadline = Window])
    /\ UNCHANGED <<watched, since, callerVars, callVars, left>>

\* An announcement is due and asked for.
Announce(d) ==
    /\ Expired
    /\ CanCount(dog)
    /\ ~Pause
    /\ dog' = [d EXCEPT !.own = TRUE, !.deadline = Unset, !.resumed = FALSE]
    /\ asked' = TRUE
    /\ UNCHANGED <<watched, talking, owed, air, callVars, left>>

\* Mutant of CheckIn: one check-in too many.
CheckInOnceMore ==
    /\ dog.checkIns <= MaxCheckIns
    /\ Announce([dog EXCEPT !.checkIns = @ + 1, !.phase = "announcing"])
    /\ runner' = Busy("check_in")
    /\ since' = since

CheckIn ==
    /\ dog.checkIns < MaxCheckIns
    /\ Announce([dog EXCEPT !.checkIns = @ + 1, !.phase = "announcing"])
    /\ runner' = Busy("check_in")
    /\ since' = [since EXCEPT !.checkIns = IF @ < MaxCheckIns THEN @ + 1 ELSE @]

Warn ==
    /\ dog.checkIns >= MaxCheckIns
    /\ Announce([dog EXCEPT !.phase = "final_announcement"])
    /\ runner' = Busy("final")
    /\ since' = [since EXCEPT !.warned = TRUE]

\* The wait for an announcement is over: it was heard, it could not be spoken,
\* or it is late and still on its way.
Announced ==
    /\ \/ air # "own" /\ asked' = FALSE /\ UNCHANGED left
       \/ (asked \/ air = "own") /\ asked' \in {asked, FALSE} /\ Fault
    /\ UNCHANGED <<watched, since, talking, owed, air>>

Resumed(d) == [d EXCEPT !.own = FALSE, !.checkIns = 0, !.phase = "waiting",
                        !.deadline = Window]

CheckInDone ==
    /\ runner.pc = "check_in"
    /\ Announced
    /\ Again(IF dog.resumed THEN Resumed(dog)
             ELSE [dog EXCEPT !.own = FALSE, !.output = FALSE, !.phase = "grace",
                              !.deadline = Grace])
    /\ UNCHANGED callVars

\* The caller spoke during the final warning.
WarningHeard ==
    /\ runner.pc = "final"
    /\ Announced
    /\ dog.resumed
    /\ Again([Resumed(dog) EXCEPT !.output = FALSE])
    /\ UNCHANGED callVars

\* Nobody answered: _hangup_for_no_input and _terminate_call_after_audio, which
\* send one hangup per call, and none for a transferred call, a pending attended
\* transfer or a cleanup.
Terminate ==
    /\ runner.pc = "final"
    /\ Announced
    /\ ~dog.resumed
    /\ dog' = [dog EXCEPT !.own = FALSE, !.terminal = TRUE, !.phase = "hangup"]
    /\ IF ~line \/ Transferring \/ hangup.started
       THEN /\ runner' = Busy("over")
            /\ UNCHANGED hangup
       ELSE /\ runner' = Busy("request")
            /\ hangup' = [hangup EXCEPT !.started = TRUE]
    /\ UNCHANGED <<line, transfer>>

-----------------------------------------------------------------------------
(* The end of the call.                                                    *)

\* The answer to a hangup request is not looked at.
HangUp ==
    \/ line' = FALSE /\ UNCHANGED left
    \/ UNCHANGED line /\ Fault

Requested ==
    /\ runner.pc = "request"
    /\ HangUp
    /\ runner' = Busy("over")
    /\ UNCHANGED <<dog, watched, since, callerVars, transfer, hangup>>

\* The agent ends the call: it lets its last words drain and hangs up.
AgentEndsCall ==
    /\ line
    /\ ~Transferring
    /\ ~hangup.started
    /\ hangup' = [started |-> TRUE, draining |-> TRUE]
    /\ UNCHANGED <<dog, runner, watched, since, callerVars, line, transfer, left>>

AgentHangsUp ==
    /\ hangup.draining
    /\ hangup' = [hangup EXCEPT !.draining = FALSE]
    /\ IF transfer = "done" THEN UNCHANGED <<line, left>> ELSE HangUp
    /\ UNCHANGED <<dog, runner, watched, since, callerVars, transfer>>

CallerHangsUp ==
    /\ line
    /\ line' = FALSE
    /\ UNCHANGED <<dog, runner, watched, since, callerVars, transfer, hangup, left>>

\* _cleanup_call stops the watchdog and cancels its task.
Stop ==
    /\ ~line
    /\ watched
    /\ watched' = FALSE
    /\ runner' = Busy("over")
    /\ UNCHANGED <<dog, since, callerVars, callVars, left>>

TransferBegins ==
    /\ line
    /\ transfer = "none"
    /\ left.transfers > 0
    /\ left' = [left EXCEPT !.transfers = @ - 1]
    /\ transfer' \in {"action", "pending"}
    /\ UNCHANGED <<dog, runner, watched, since, callerVars, line, hangup>>

\* It is completed, or cancelled and the caller comes back to the agent.
TransferSettles ==
    /\ transfer \in {"action", "pending"}
    /\ transfer' \in {"none", "done"}
    /\ UNCHANGED <<dog, runner, watched, since, callerVars, line, hangup, left>>

-----------------------------------------------------------------------------
Answer == AnswerStarts \/ AnswerEmpty \/ AnswerFails

Observers ==
    \/ MarkReady
    \/ TalkStarts
    \/ TalkEnds
    \/ TalkEndLost
    \/ Activity
    \/ Transcript
    \/ Answer
    \/ SpeaksUp
    \/ SilenceTurn
    \/ OwnStarts
    \/ AudioEnds

Run ==
    \/ Wake
    \/ Expire
    \/ Lapse
    \/ Postpone
    \/ CheckIn
    \/ Warn
    \/ CheckInDone
    \/ WarningHeard
    \/ Terminate
    \/ Requested

Ending ==
    \/ AgentEndsCall
    \/ AgentHangsUp
    \/ CallerHangsUp
    \/ Stop
    \/ TransferBegins
    \/ TransferSettles

Next == Tick \/ Observers \/ Run \/ Ending

Spec == Init /\ [][Next]_vars

\* Time passes, the loop runs what is ready, a request is answered, and the
\* call's own processes end: a greeting, a sentence of the caller, an answer of
\* the model, audio, a transfer.  Nothing says that anybody hangs up or speaks.
Fairness ==
    /\ SF_vars(Tick)
    /\ WF_vars(Run)
    /\ WF_vars(AgentHangsUp)
    /\ WF_vars(MarkReady)
    /\ WF_vars(TalkEnds \/ TalkEndLost)
    /\ WF_vars(Answer)
    /\ WF_vars(AudioEnds)
    /\ WF_vars(TransferSettles)

FairSpec == Spec /\ Fairness

-----------------------------------------------------------------------------
(* Properties.                                                             *)

\* The watchdog gives a call up only after every check-in and the final warning
\* were announced since the caller last gave a sign of life, and not while the
\* caller speaks or the model works for the caller.
HangupEarned ==
    dog.terminal => /\ since.checkIns = MaxCheckIns
                    /\ since.warned
                    /\ ~dog.input
                    /\ ~dog.processing

\* A caller who has fallen silent does not hold the call for ever: it ends or
\* is transferred.  Nothing is promised of a call in which a turn, an event, an
\* announcement or the hangup failed, or a transfer was begun and cancelled.
Excused == left.faults < Faults \/ left.transfers < Transfers
Released == <>(~line \/ transfer = "done" \/ Excused)

=============================================================================
