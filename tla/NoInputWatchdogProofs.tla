----------------------- MODULE NoInputWatchdogProofs -----------------------
(***************************************************************************)
(* Proofs about NoInputWatchdog for every policy and every bound, with     *)
(* every fault allowed: types, and that a call given up had every check-in *)
(* and the final warning.                                                  *)
(***************************************************************************)
EXTENDS NoInputWatchdog, TLAPS

USE PolicyAssumption, BoundAssumption

-----------------------------------------------------------------------------
(* The pieces of a step.                                                   *)

\* The values a deadline is set to are ticks.
LEMMA TicksHold ==
    /\ Unset \in Ticks
    /\ Window \in Ticks
    /\ Grace \in Ticks
    /\ 0 \in 0..MaxCheckIns
BY DEF Ticks, Unset

\* A sleeping or busy timer task is one.
LEMMA RunnerTyped ==
    ASSUME NEW t \in Ticks
    PROVE  /\ Asleep(t) \in Runners
           /\ \A pc \in {"check_in", "final", "request", "over"} : Busy(pc) \in Runners
BY TicksHold DEF Asleep, Busy, Runners

\* A sign of life: the state stays one, the check-ins are forgotten.
LEMMA SignsDo ==
    ASSUME NEW d \in Dogs,
           NEW e \in {Heard(d), Processing(Heard(d)), InputStarts(d)}
    PROVE  /\ e \in Dogs
           /\ e.resumed
           /\ e.checkIns = 0
           /\ e.terminal = d.terminal
<1>1. Heard(d) \in Dogs /\ Heard(d).resumed /\ Heard(d).checkIns = 0
      /\ Heard(d).terminal = d.terminal
    BY TicksHold DEF Heard, Dogs
<1>2. LET h == Heard(d)
      IN  /\ Processing(h) \in Dogs /\ Processing(h).resumed = h.resumed
          /\ Processing(h).checkIns = h.checkIns /\ Processing(h).terminal = h.terminal
    BY <1>1, TicksHold DEF Processing, Dogs
<1>3. InputStarts(d) \in Dogs /\ InputStarts(d).resumed /\ InputStarts(d).checkIns = 0
      /\ InputStarts(d).terminal = d.terminal
    BY TicksHold DEF InputStarts, Dogs
<1>4. QED BY <1>1, <1>2, <1>3

\* What an observer that is no sign of life leaves of the state d.
Lesser(d, e) ==
    /\ e.checkIns \in {0, d.checkIns}
    /\ e.resumed = d.resumed
    /\ e.terminal = d.terminal
    /\ e.input => d.input
    /\ e.processing => d.processing

\* The other observers: the state stays one and they only take away.
LEMMA ObserversDo ==
    ASSUME NEW d \in Dogs, NEW r \in BOOLEAN, NEW p \in BOOLEAN,
           NEW e \in {Ready(d), InputEnds(d), OutputStarts(d), OutputEnds(d, r, p)}
    PROVE  e \in Dogs /\ Lesser(d, e)
<1>1. Ready(d) \in Dogs /\ Lesser(d, Ready(d))
    BY TicksHold DEF Ready, Dogs, Lesser
<1>2. InputEnds(d) \in Dogs /\ Lesser(d, InputEnds(d))
    BY TicksHold DEF InputEnds, Dogs, Lesser
<1>3. OutputStarts(d) \in Dogs /\ Lesser(d, OutputStarts(d))
    BY TicksHold DEF OutputStarts, Dogs, Lesser
<1>4. OutputEnds(d, r, p) \in Dogs /\ Lesser(d, OutputEnds(d, r, p))
    BY TicksHold DEF OutputEnds, Dogs, Lesser
<1>5. QED BY <1>1, <1>2, <1>3, <1>4

\* Telling keeps the types.
LEMMA TellTyped ==
    ASSUME TypeOK, NEW e \in Dogs, Tell(e)
    PROVE  dog' \in Dogs /\ runner' \in Runners
BY DEF TypeOK, Runners, Tell

\* What the top of the loop makes of a state d.
LEMMA AgainDoes ==
    ASSUME NEW d \in Dogs, Again(d)
    PROVE  /\ dog' \in Dogs
           /\ runner' \in Runners
           /\ runner'.pc = "asleep"
           /\ Lesser(d, dog')
<1> DEFINE counted == IF CanCount(d) /\ d.deadline = Unset
                      THEN [d EXCEPT !.deadline = Window] ELSE d
           t == IF CanCount(d) THEN counted.deadline ELSE Unset
<1>1. counted \in Dogs /\ Lesser(d, counted)
    BY TicksHold DEF Dogs, Lesser
<1>2. t \in Ticks
    BY <1>1, TicksHold DEF Dogs
<1>3. dog' = counted /\ runner' = Asleep(t)
    BY DEF Again
<1>4. Asleep(t) \in Runners /\ Asleep(t).pc = "asleep"
    BY <1>2, RunnerTyped DEF Asleep
<1>5. QED BY <1>1, <1>3, <1>4

-----------------------------------------------------------------------------
(* Types.                                                                  *)

\* A fault takes one of what remains; the wait for an announcement and a hangup
\* request, whether they fail or not, keep what they set in type.
LEMMA FaultTyped ==
    ASSUME TypeOK
    PROVE  /\ Fault => left' \in [talk : 0..Talk, solo : 0..Solo, transfers : 0..Transfers, faults : 0..Faults]
           /\ Announced => left' \in [talk : 0..Talk, solo : 0..Solo, transfers : 0..Transfers, faults : 0..Faults] /\ asked' \in BOOLEAN
           /\ HangUp => left' \in [talk : 0..Talk, solo : 0..Solo, transfers : 0..Transfers, faults : 0..Faults] /\ line' \in BOOLEAN
<1> DEFINE Rest == [talk : 0..Talk, solo : 0..Solo, transfers : 0..Transfers, faults : 0..Faults]
<1>0. left \in Rest
    BY DEF TypeOK
<1>1. ASSUME Fault PROVE left' \in Rest
  <2>1. left.faults - 1 \in 0..Faults
      BY <1>0, <1>1, BoundAssumption DEF Fault
  <2>2. QED BY <1>0, <1>1, <2>1 DEF Fault
<1>2. ASSUME Announced PROVE left' \in Rest /\ asked' \in BOOLEAN
    BY <1>0, <1>1, <1>2 DEF Announced, TypeOK
<1>3. ASSUME HangUp PROVE left' \in Rest /\ line' \in BOOLEAN
    BY <1>0, <1>1, <1>3 DEF HangUp, TypeOK
<1>4. QED BY <1>1, <1>2, <1>3

\* The observers and the call keep the types.
LEMMA ObserversTyped == TypeOK /\ Observers => TypeOK'
<1> SUFFICES ASSUME TypeOK, Observers PROVE TypeOK'
    OBVIOUS
<1> USE DEF TypeOK
<1>1. CASE MarkReady
    BY <1>1, ObserversDo, TellTyped DEF MarkReady, callerVars, callVars
<1>2. CASE TalkStarts
    BY <1>2, SignsDo, TellTyped DEF TalkStarts, Says, Sign, Silent, callVars
<1>3. CASE TalkEnds
    BY ZenonT(60), <1>3, ObserversDo, TellTyped DEF TalkEnds, callVars
<1>4. CASE TalkEndLost
    BY ZenonT(60), <1>4, FaultTyped DEF TalkEndLost, callVars
<1>5. CASE Activity
    BY <1>5, SignsDo, TellTyped DEF Activity, Says, Sign, Silent, callerVars, callVars
<1>6. CASE Transcript
    BY <1>6, SignsDo, TellTyped DEF Transcript, Says, Sign, Silent, callVars
<1>7. CASE AnswerStarts
    BY <1>7, ObserversDo, TellTyped DEF AnswerStarts, callVars
<1>8. CASE AnswerEmpty
    BY ZenonT(60), <1>8, ObserversDo, TellTyped DEF AnswerEmpty, callVars
<1>9. CASE AnswerFails
    BY ZenonT(60), <1>9, FaultTyped DEF AnswerFails, callVars
<1>10. CASE SpeaksUp
    BY <1>10, ObserversDo, TellTyped DEF SpeaksUp, callVars
<1>11. CASE SilenceTurn
    BY <1>11, ObserversDo, TellTyped DEF SilenceTurn, callVars
<1>12. CASE OwnStarts
    BY <1>12, ObserversDo, TellTyped DEF OwnStarts, callVars
<1>13. CASE AudioEnds
  <2>1. PICK preserve \in BOOLEAN : Tell(OutputEnds(dog, air # "silence", preserve))
      BY <1>13 DEF AudioEnds
  <2>2. dog' \in Dogs /\ runner' \in Runners
      BY <2>1, ObserversDo, TellTyped
  <2>3. QED BY <1>13, <2>2 DEF AudioEnds, callVars
<1>14. QED
    BY <1>1, <1>2, <1>3, <1>4, <1>5, <1>6, <1>7, <1>8, <1>9, <1>10, <1>11, <1>12, <1>13
       DEF Observers, Answer

\* A state with which the top of the loop is entered is one.
LEMMA TurnsTyped ==
    ASSUME NEW d \in Dogs
    PROVE  /\ [d EXCEPT !.checkIns = 0, !.phase = "waiting", !.deadline = Window] \in Dogs
           /\ Resumed(d) \in Dogs
           /\ [Resumed(d) EXCEPT !.output = FALSE] \in Dogs
           /\ [d EXCEPT !.own = FALSE, !.output = FALSE, !.phase = "grace",
                        !.deadline = Grace] \in Dogs
BY TicksHold DEF Dogs, Resumed

\* The return of an announcement keeps the types of all it does not hand on to
\* the loop.
LEMMA AnnouncedTyped ==
    ASSUME TypeOK, Announced, UNCHANGED callVars, dog' \in Dogs, runner' \in Runners
    PROVE  TypeOK'
<1>1. left' \in [talk : 0..Talk, solo : 0..Solo, transfers : 0..Transfers, faults : 0..Faults]
      /\ asked' \in BOOLEAN
    BY FaultTyped
<1>2. UNCHANGED <<watched, since, talking, owed, air>>
    BY DEF Announced
<1>3. QED BY <1>1, <1>2 DEF TypeOK, callVars

\* The timer task keeps the types.
LEMMA RunTyped == TypeOK /\ Run => TypeOK'
<1> SUFFICES ASSUME TypeOK, Run PROVE TypeOK'
    OBVIOUS
<1> USE DEF TypeOK
<1>1. CASE Wake
    BY <1>1, AgainDoes DEF Wake, callerVars, callVars
<1>2. CASE Expire
    BY ZenonT(60), <1>2 DEF Expire, Runners, callerVars, callVars
<1>3. CASE Lapse
    BY <1>3, AgainDoes DEF Lapse, callerVars, callVars
<1>4. CASE Postpone
    BY ZenonT(60), <1>4, TurnsTyped, AgainDoes DEF Postpone, callerVars, callVars
<1>5. CASE CheckIn
  <2>1. dog' \in Dogs
    <3>1. dog.checkIns + 1 \in 0..MaxCheckIns
        BY <1>5 DEF CheckIn, Dogs
    <3>2. [dog EXCEPT !.checkIns = @ + 1, !.phase = "announcing"] \in Dogs
        BY <3>1 DEF Dogs
    <3>3. QED BY <1>5, <3>2, TicksHold DEF CheckIn, Announce, Dogs
  <2>2. runner' \in Runners /\ since' \in [checkIns : 0..MaxCheckIns, warned : BOOLEAN]
      BY <1>5, RunnerTyped, TicksHold DEF CheckIn
  <2>3. QED BY <1>5, <2>1, <2>2 DEF CheckIn, Announce, callVars
<1>6. CASE Warn
  <2>1. dog' \in Dogs
      BY <1>6, TicksHold DEF Warn, Announce, Dogs
  <2>2. runner' \in Runners /\ since' \in [checkIns : 0..MaxCheckIns, warned : BOOLEAN]
      BY <1>6, RunnerTyped, TicksHold DEF Warn
  <2>3. QED BY <1>6, <2>1, <2>2 DEF Warn, Announce, callVars
<1>7. CASE CheckInDone
  <2>1. dog' \in Dogs /\ runner' \in Runners
      BY <1>7, TurnsTyped, AgainDoes DEF CheckInDone
  <2>2. Announced /\ UNCHANGED callVars
      BY <1>7 DEF CheckInDone
  <2>3. QED BY <2>1, <2>2, AnnouncedTyped
<1>8. CASE WarningHeard
  <2>1. dog' \in Dogs /\ runner' \in Runners
      BY <1>8, TurnsTyped, AgainDoes DEF WarningHeard
  <2>2. Announced /\ UNCHANGED callVars
      BY <1>8 DEF WarningHeard
  <2>3. QED BY <2>1, <2>2, AnnouncedTyped
<1>9. CASE Terminate
  <2>1. dog' \in Dogs
      BY <1>9 DEF Terminate, Dogs
  <2>2. runner' \in Runners
      BY <1>9, RunnerTyped, TicksHold DEF Terminate
  <2>3. QED BY ZenonT(60), <1>9, <2>1, <2>2, FaultTyped DEF Terminate, Announced
<1>10. CASE Requested
    BY <1>10, RunnerTyped, TicksHold, FaultTyped DEF Requested, callerVars
<1>11. QED
    BY <1>1, <1>2, <1>3, <1>4, <1>5, <1>6, <1>7, <1>8, <1>9, <1>10 DEF Run

\* Every step keeps every variable in its type.
LEMMA TypeStep == TypeOK /\ [Next]_vars => TypeOK'
<1> SUFFICES ASSUME TypeOK, [Next]_vars PROVE TypeOK'
    OBVIOUS
<1> USE DEF TypeOK
<1>1. CASE Tick
  <2>1. dog' \in Dogs
      BY <1>1 DEF Tick, Dogs, Ticks, Unset
  <2>2. runner' \in Runners
      BY <1>1 DEF Tick, Stirred, Runners, Ticks, Unset
  <2>3. QED BY <1>1, <2>1, <2>2 DEF Tick, callerVars, callVars
<1>2. CASE Observers
    BY <1>2, ObserversTyped
<1>3. CASE Run
    BY <1>3, RunTyped
<1>4. CASE Ending
  <2>1. CASE AgentEndsCall
      BY <2>1 DEF AgentEndsCall, callerVars
  <2>2. CASE AgentHangsUp
    <3>1. hangup' \in [started : BOOLEAN, draining : BOOLEAN]
        BY <2>2 DEF AgentHangsUp
    <3>2. UNCHANGED <<line, left>> \/ HangUp
        BY <2>2 DEF AgentHangsUp
    <3>3. /\ left' \in [talk : 0..Talk, solo : 0..Solo, transfers : 0..Transfers, faults : 0..Faults]
          /\ line' \in BOOLEAN
        BY <3>2, FaultTyped
    <3>4. UNCHANGED <<dog, runner, watched, since, callerVars, transfer>>
        BY <2>2 DEF AgentHangsUp
    <3>5. QED BY <3>1, <3>3, <3>4 DEF callerVars
  <2>3. CASE CallerHangsUp
      BY ZenonT(60), <2>3 DEF CallerHangsUp, callerVars
  <2>4. CASE Stop
      BY <2>4, RunnerTyped, TicksHold DEF Stop, callerVars, callVars
  <2>5. CASE TransferBegins
      BY <2>5 DEF TransferBegins, callerVars
  <2>6. CASE TransferSettles
      BY <2>6 DEF TransferSettles, callerVars
  <2>7. QED BY <1>4, <2>1, <2>2, <2>3, <2>4, <2>5, <2>6 DEF Ending
<1>5. CASE UNCHANGED vars
    BY <1>5 DEF vars, callerVars, callVars
<1>6. QED BY <1>1, <1>2, <1>3, <1>4, <1>5 DEF Next

\* The watchdog's state, its timer task and the call keep their types.
THEOREM TypeCorrect == Spec => []TypeOK
<1>1. Init => TypeOK
  <2> SUFFICES ASSUME Init PROVE TypeOK
      OBVIOUS
  <2>1. dog \in Dogs
      BY TicksHold DEF Init, Dogs
  <2>2. runner \in Runners
      BY TicksHold, RunnerTyped DEF Init
  <2>3. left \in [talk : 0..Talk, solo : 0..Solo, transfers : 0..Transfers, faults : 0..Faults]
      BY DEF Init
  <2>4. QED BY <2>1, <2>2, <2>3, TicksHold DEF Init, TypeOK, Silent
<1>2. QED BY <1>1, TypeStep, PTL DEF Spec

-----------------------------------------------------------------------------
(* A call is given up only after every announcement.                       *)

\* Every announcement was made, and nobody is busy.
Given ==
    /\ since.checkIns = MaxCheckIns
    /\ since.warned
    /\ ~dog.input
    /\ ~dog.processing

\* The watchdog counts no check-in that was not announced since the last sign
\* of life; what HangupEarned says holds as soon as the final warning is being
\* spoken and nobody answers it; and a terminal state has no timer task.
Earned ==
    /\ dog.checkIns <= since.checkIns
    /\ dog.terminal => runner.pc \in {"request", "over"}
    /\ runner.pc = "final" /\ ~dog.resumed => Given
    /\ dog.terminal => Given

\* An observer that is no sign of life keeps it.
LEMMA TellKeeps ==
    ASSUME TypeOK, Earned, NEW e \in Dogs, Lesser(dog, e), Tell(e), since' = since
    PROVE  Earned'
<1>1. runner'.pc = runner.pc
    BY DEF Tell, TypeOK, Runners
<1>2. Lesser(dog, dog')
    BY DEF Tell, Lesser
<1>3. QED BY <1>1, <1>2 DEF Earned, Given, Lesser, TypeOK, Dogs

\* So does a sign of life.
LEMMA SignKeeps ==
    ASSUME TypeOK, Earned, NEW e \in Dogs, e.resumed, e.checkIns = 0,
           e.terminal = dog.terminal, Sign(e)
    PROVE  Earned'
<1>1. runner'.pc = runner.pc
    BY DEF Sign, Tell, TypeOK, Runners
<1>2. CASE Deaf
    BY <1>1, <1>2 DEF Earned, Given, Sign, Tell
<1>3. CASE ~Deaf
    BY <1>1, <1>3 DEF Earned, Given, Sign, Tell, Deaf, Silent
<1>4. QED BY <1>2, <1>3

\* So does the top of the loop.
LEMMA AgainKeeps ==
    ASSUME TypeOK, Earned, NEW d \in Dogs, d.checkIns \in {0, dog.checkIns},
           ~d.terminal, Again(d), since' = since
    PROVE  Earned'
BY AgainDoes DEF Earned, Lesser, TypeOK, Dogs

\* Every step of the system keeps it.
LEMMA EarnedStep == TypeOK /\ Earned /\ [Next]_vars => Earned'
<1> SUFFICES ASSUME TypeOK, Earned, [Next]_vars PROVE Earned'
    OBVIOUS
<1>0. dog \in Dogs /\ runner \in Runners
    BY DEF TypeOK
<1>1. CASE Tick
    BY <1>0, <1>1 DEF Tick, Earned, Given, Dogs, Runners
<1>2. CASE Observers
  <2>1. CASE MarkReady
      BY <1>0, <2>1, ObserversDo, TellKeeps DEF MarkReady
  <2>2. CASE TalkStarts
      BY <1>0, <2>2, SignsDo, SignKeeps DEF TalkStarts
  <2>3. CASE TalkEnds
      BY <1>0, <2>3, ObserversDo, TellKeeps DEF TalkEnds
  <2>4. CASE TalkEndLost \/ AnswerFails
      BY <2>4 DEF TalkEndLost, AnswerFails, Earned, Given
  <2>5. CASE Activity
      BY <1>0, <2>5, SignsDo, SignKeeps DEF Activity
  <2>6. CASE Transcript
      BY <1>0, <2>6, SignsDo, SignKeeps DEF Transcript
  <2>7. CASE AnswerStarts \/ SpeaksUp \/ SilenceTurn \/ OwnStarts
      BY <1>0, <2>7, ObserversDo, TellKeeps
         DEF AnswerStarts, SpeaksUp, SilenceTurn, OwnStarts
  <2>8. CASE AnswerEmpty
      BY <1>0, <2>8, ObserversDo, TellKeeps DEF AnswerEmpty
  <2>9. CASE AudioEnds
    <3>1. PICK preserve \in BOOLEAN : Tell(OutputEnds(dog, air # "silence", preserve))
        BY <2>9 DEF AudioEnds
    <3>2. since' = since
        BY <2>9 DEF AudioEnds
    <3>3. QED BY <1>0, <3>1, <3>2, ObserversDo, TellKeeps
  <2>10. QED
      BY <1>2, <2>1, <2>2, <2>3, <2>4, <2>5, <2>6, <2>7, <2>8, <2>9 DEF Observers, Answer
<1>3. CASE Run
  <2>1. runner.pc \in {"asleep", "check_in", "final"} => ~dog.terminal
      BY DEF Earned
  <2>2. CASE Wake \/ Lapse
      BY <1>0, <2>1, <2>2, AgainKeeps DEF Wake, Lapse, Expired
  <2>3. CASE Expire
      BY <1>0, <2>3 DEF Expire, Earned, Given, Runners
  <2>4. CASE Postpone
    <3> DEFINE d == [dog EXCEPT !.checkIns = 0, !.phase = "waiting", !.deadline = Window]
    <3>1. d \in Dogs /\ d.checkIns = 0 /\ d.terminal = dog.terminal
        BY <1>0, TurnsTyped DEF Dogs
    <3>2. Again(d) /\ since' = since /\ ~dog.terminal
        BY <2>1, <2>4 DEF Postpone, Expired
    <3> HIDE DEF d
    <3>3. QED BY <3>1, <3>2, AgainKeeps
  <2>5. CASE CheckIn
      BY <1>0, <2>1, <2>5
         DEF CheckIn, Announce, Expired, Earned, Given, Busy, Asleep, TypeOK, Dogs
  <2>6. CASE Warn
    <3>1. since.checkIns = MaxCheckIns /\ ~dog.input /\ ~dog.processing
        BY <1>0, <2>6 DEF Warn, Announce, CanCount, Earned, TypeOK, Dogs
    <3>2. QED
        BY <1>0, <2>1, <2>6, <3>1
           DEF Warn, Announce, Expired, Earned, Given, Busy, Asleep, TypeOK, Dogs
  <2>7. CASE CheckInDone
    <3> DEFINE d == IF dog.resumed THEN Resumed(dog)
                    ELSE [dog EXCEPT !.own = FALSE, !.output = FALSE,
                                     !.phase = "grace", !.deadline = Grace]
    <3>1. d \in Dogs /\ d.checkIns \in {0, dog.checkIns} /\ d.terminal = dog.terminal
        BY <1>0, TurnsTyped DEF Dogs, Resumed
    <3>2. Again(d) /\ since' = since /\ ~dog.terminal
        BY <2>1, <2>7 DEF CheckInDone, Announced
    <3> HIDE DEF d
    <3>3. QED BY <3>1, <3>2, AgainKeeps
  <2>8. CASE WarningHeard
    <3> DEFINE r == Resumed(dog)
               d == [r EXCEPT !.output = FALSE]
    <3>0. r \in Dogs /\ r.checkIns = 0 /\ r.terminal = dog.terminal
        BY <1>0, TurnsTyped DEF Dogs, Resumed
    <3> HIDE DEF r
    <3>1. d \in Dogs /\ d.checkIns = 0 /\ d.terminal = dog.terminal
        BY <3>0 DEF Dogs
    <3>2. Again(d) /\ since' = since /\ ~dog.terminal
        BY <2>1, <2>8 DEF WarningHeard, Announced, r
    <3> HIDE DEF d
    <3>3. QED BY <3>1, <3>2, AgainKeeps
  <2>9. CASE Terminate
    <3>1. Given
        BY <2>9 DEF Terminate, Earned
    <3>2. runner'.pc \in {"request", "over"}
        BY <2>9 DEF Terminate, Busy, Asleep
    <3>3. QED BY <1>0, <2>9, <3>1, <3>2 DEF Terminate, Announced, Earned, Given, Dogs
  <2>10. CASE Requested
      BY <1>0, <2>10 DEF Requested, Earned, Given, Busy, Asleep
  <2>11. QED
      BY <1>3, <2>2, <2>3, <2>4, <2>5, <2>6, <2>7, <2>8, <2>9, <2>10 DEF Run
<1>4. CASE Ending
  <2>1. CASE Stop
      BY <2>1 DEF Stop, Earned, Given, Busy, Asleep
  <2>2. CASE AgentEndsCall \/ AgentHangsUp \/ CallerHangsUp \/ TransferBegins \/ TransferSettles
      BY <2>2 DEF AgentEndsCall, AgentHangsUp, CallerHangsUp, TransferBegins,
                  TransferSettles, Earned, Given
  <2>3. QED BY <1>4, <2>1, <2>2 DEF Ending
<1>5. CASE UNCHANGED vars
    BY <1>5 DEF vars, Earned, Given
<1>6. QED BY <1>1, <1>2, <1>3, <1>4, <1>5 DEF Next

\* However the observers, the announcements, the transfers and the hangup
\* requests interleave, and whatever fails: the watchdog gives a call up only
\* after every check-in and the final warning went unanswered.
THEOREM HangupEarnedHolds == Spec => []HangupEarned
<1>1. Init => Earned
    BY DEF Init, Earned, Silent, Asleep
<1>2. Earned => HangupEarned
    BY DEF Earned, Given, HangupEarned
<1>3. QED BY <1>1, <1>2, TypeCorrect, EarnedStep, PTL DEF Spec
=============================================================================
