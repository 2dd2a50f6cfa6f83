-------------------------- MODULE TtsGatingProofs --------------------------
(***************************************************************************)
(* Proofs about TtsGating for every set of playbacks and barge-in handlers, *)
(* with every fault allowed: types, the two safety invariants the runs     *)
(* check, and that each step is a step of CaptureGate or leaves it alone.  *)
(***************************************************************************)
EXTENDS TtsGating, TLAPS

-----------------------------------------------------------------------------
(* The session's tokens.                                                   *)

Session == [stored : BOOLEAN, tokens : SUBSET Playbacks,
            playing : BOOLEAN, capture : BOOLEAN]

\* Taking a token keeps a session a session.
LEMMA WithTokenTyped ==
    ASSUME NEW s \in Session, NEW p \in Playbacks
    PROVE  WithToken(s, p) \in Session
BY DEF Session, WithToken

\* So does giving tokens back.
LEMMA WithoutTokensTyped ==
    ASSUME NEW s \in Session, NEW T \in SUBSET Playbacks
    PROVE  WithoutTokens(s, T) \in Session
BY DEF Session, WithoutTokens

\* Taking a token closes the gate and leaves the other tokens alone.
LEMMA WithTokenDoes ==
    ASSUME NEW s \in Session, NEW p \in Playbacks
    PROVE  /\ WithToken(s, p).stored = s.stored
           /\ WithToken(s, p).tokens = s.tokens \cup {p}
           /\ WithToken(s, p).playing
           /\ ~WithToken(s, p).capture
BY DEF Session, WithToken

\* Giving tokens back to a session in the store removes exactly them, and
\* leaves the gate open exactly when none is left, if it was so before.
LEMMA WithoutTokensDoes ==
    ASSUME NEW s \in Session, NEW T \in SUBSET Playbacks,
           s.stored,
           s.playing <=> s.tokens # {},
           s.capture <=> s.tokens = {}
    PROVE  LET r == WithoutTokens(s, T)
           IN  /\ r.stored
               /\ r.tokens = s.tokens \ T
               /\ r.playing <=> r.tokens # {}
               /\ r.capture <=> r.tokens = {}
BY DEF Session, WithoutTokens

-----------------------------------------------------------------------------
(* Types.                                                                  *)

\* The events that come of a set of ended playbacks are playbacks.
LEMMA ReportTyped ==
    ASSUME NEW P \in SUBSET Playbacks, events \subseteq Playbacks, Report(P)
    PROVE  events' \subseteq Playbacks /\ events' \subseteq events \cup P
BY DEF Report

\* Every step keeps every variable in its type.
LEMMA TypeStep == TypeOK /\ [Next]_vars => TypeOK'
<1> SUFFICES ASSUME TypeOK, [Next]_vars PROVE TypeOK'
    OBVIOUS
<1> USE DEF TypeOK, Stages
<1>s. session \in Session
    BY DEF Session
<1>1. ASSUME NEW p \in Playbacks, Play(p) PROVE TypeOK'
  <2>1. CASE StartPlay(p)
    BY <2>1 DEF StartPlay, asteriskVars
  <2>2. CASE FileFails(p)
    BY <2>2 DEF FileFails, asteriskVars
  <2>3. CASE GateAndPost(p)
    <3>1. session' \in Session
      BY <2>3, <1>s, WithTokenTyped DEF GateAndPost
    <3> QED BY <3>1, <2>3 DEF GateAndPost, Session
  <2>4. CASE GateFails(p)
    BY <2>4 DEF GateFails, asteriskVars
  <2>5. CASE Started(p)
    BY <2>5 DEF Started, asteriskVars
  <2>6. CASE NotStarted(p)
    <3>1. session' \in Session
      BY <2>6, <1>s, WithoutTokensTyped DEF NotStarted
    <3> QED BY <3>1, <2>6 DEF NotStarted, Session, asteriskVars
  <2>7. CASE Cancelled(p)
    BY <2>7 DEF Cancelled, asteriskVars
  <2> QED BY <1>1, <2>1, <2>2, <2>3, <2>4, <2>5, <2>6, <2>7 DEF Play
<1>2. ASSUME NEW p \in Playbacks, Settle(p)
      PROVE  session' \in Session /\ refs' \subseteq Playbacks
    BY <1>2, <1>s, WithoutTokensTyped DEF Settle
<1>3. ASSUME NEW p \in Playbacks, OnPlaybackFinished(p) PROVE TypeOK'
    BY <1>3, <1>2 DEF OnPlaybackFinished, Session
<1>4. ASSUME NEW p \in Playbacks, GatingFallback(p) PROVE TypeOK'
    BY <1>4, <1>2 DEF GatingFallback, Session, asteriskVars
<1>5. ASSUME NEW p \in Playbacks, Asterisk(p) PROVE TypeOK'
  <2>1. CASE Accept(p)
    BY <2>1 DEF Accept, engineVars
  <2>2. CASE Refuse(p)
    BY <2>2 DEF Refuse, engineVars
  <2>3. CASE Begin(p)
    BY <2>3 DEF Begin, engineVars
  <2>4. CASE Finish(p)
    BY <2>4, ReportTyped DEF Finish, engineVars
  <2> QED BY <1>5, <2>1, <2>2, <2>3, <2>4 DEF Asterisk
<1>6. ASSUME NEW b \in Bargers, Barge(b) PROVE TypeOK'
  <2>1. CASE BargeStart(b)
    BY <2>1 DEF BargeStart, asteriskVars, Idle
  <2>2. ASSUME NEW p \in Playbacks, BargeStop(b, p) PROVE TypeOK'
    <3> DEFINE Busy == [busy : {TRUE}, todo : SUBSET Playbacks]
    <3>0. barge[b] \in Busy
      <4>1. barge[b] \in {Idle} \cup Busy
        OBVIOUS
      <4>2. p \in barge[b].todo /\ Idle.todo = {}
        BY <2>2 DEF BargeStop, Idle
      <4> QED BY <4>1, <4>2
    <3>1. barge' \in [Bargers -> {Idle} \cup Busy]
      <4>1. [barge[b] EXCEPT !.todo = @ \ {p}] \in Busy
        BY <3>0
      <4>2. barge' = [barge EXCEPT ![b] = [barge[b] EXCEPT !.todo = @ \ {p}]]
        BY <2>2 DEF BargeStop
      <4> QED BY <4>1, <4>2
    <3>2. ari' \in [Playbacks -> {"none", "posted", "queued", "playing", "over"}]
      BY <2>2 DEF BargeStop
    <3>3. events' \subseteq Playbacks
      BY <2>2, ReportTyped DEF BargeStop
    <3> QED BY <2>2, <3>1, <3>2, <3>3 DEF BargeStop
  <2>3. CASE BargeClear(b)
    <3>1. WithoutTokens(session, session.tokens) \in Session
      BY <1>s, WithoutTokensTyped DEF Session
    <3>2. session' \in Session
      BY <3>1, <2>3 DEF BargeClear, Session
    <3> QED BY <3>2, <2>3 DEF BargeClear, Session, asteriskVars
  <2> QED BY <1>6, <2>1, <2>2, <2>3 DEF Barge
<1>7. CASE BeginCleanup
    BY <1>7 DEF BeginCleanup, asteriskVars
<1>8. CASE RemoveCall
    BY <1>8 DEF RemoveCall, asteriskVars
<1>9. CASE HangUp
  <2>1. events' \subseteq Playbacks
    <3> DEFINE W == {q \in Playbacks : Waiting(q)}
    <3>1. W \subseteq Playbacks /\ Report(W)
      BY <1>9 DEF HangUp
    <3> QED BY <3>1, ReportTyped
  <2> QED BY <2>1, <1>9 DEF HangUp, engineVars
<1>10. CASE UNCHANGED vars
    BY <1>10 DEF vars, engineVars, asteriskVars
<1> QED BY <1>1, <1>3, <1>4, <1>5, <1>6, <1>7, <1>8, <1>9, <1>10 DEF Next

\* Every variable of the gating keeps its type, whatever is lost or delayed.
THEOREM TypeCorrect == Spec => []TypeOK
<1>1. Init => TypeOK
    BY DEF Init, TypeOK, Stages
<1> QED BY <1>1, TypeStep, PTL DEF Spec

-----------------------------------------------------------------------------
(* The gate agrees with its tokens, and tokens have an owner.              *)

\* A call that was not removed is in the store, and its gate is closed
\* exactly while it holds a token.
GateAgrees ==
    phase # "removed" =>
        /\ session.stored
        /\ session.playing <=> session.tokens # {}
        /\ session.capture <=> session.tokens = {}

\* What the store's session becomes by giving tokens back, in a live call.
Given(T) ==
    /\ session'.stored
    /\ session'.tokens = session.tokens \ T
    /\ session'.playing <=> session'.tokens # {}
    /\ session'.capture <=> session'.tokens = {}

\* Settling a playback gives its token back, or finds that it has none.
LEMMA SettleGives ==
    ASSUME TypeOK, GateAgrees, phase # "removed", TokenOwned,
           NEW p \in Playbacks, Settle(p)
    PROVE  Given({p})
<1>1. session \in Session
    BY DEF TypeOK, Session
<1>2. CASE p \in refs
    BY <1>1, <1>2, WithoutTokensDoes DEF Settle, GateAgrees, Given
<1>3. CASE p \notin refs
    BY <1>1, <1>3 DEF Settle, GateAgrees, Given, TokenOwned, HasOwner
<1> QED BY <1>2, <1>3

\* A request that failed gives its own token back.
LEMMA NotStartedGives ==
    ASSUME TypeOK, GateAgrees, phase # "removed", NEW p \in Playbacks, NotStarted(p)
    PROVE  Given({p})
<1>1. session \in Session
    BY DEF TypeOK, Session
<1> QED BY <1>1, WithoutTokensDoes DEF NotStarted, GateAgrees, Given

\* A barge-in gives every token back.
LEMMA BargeGives ==
    ASSUME TypeOK, GateAgrees, phase # "removed", NEW b \in Bargers, BargeClear(b)
    PROVE  Given(session.tokens)
<1>1. session \in Session
    BY DEF TypeOK, Session
<1> DEFINE r == WithoutTokens(session, session.tokens)
<1>2. r \in Session
    BY <1>1, WithoutTokensTyped DEF Session
<1>3. r.tokens = {} /\ ~r.playing
    BY <1>1, WithoutTokensDoes DEF GateAgrees, Session
<1>4. session' = [r EXCEPT !.stored = TRUE, !.capture = TRUE]
    BY DEF BargeClear
<1> HIDE DEF r
<1> QED BY <1>1, <1>2, <1>3, <1>4 DEF Given, Session

\* The steps that leave the session and the phase of cleanup alone.
Quiet ==
    \/ \E p \in Playbacks :
           \/ StartPlay(p) \/ FileFails(p) \/ GateFails(p) \/ Started(p) \/ Cancelled(p)
           \/ Asterisk(p)
    \/ \E b \in Bargers : BargeStart(b) \/ \E p \in Playbacks : BargeStop(b, p)
    \/ HangUp
    \/ UNCHANGED vars

LEMMA QuietKeeps == Quiet => UNCHANGED <<session, phase>>
BY DEF Quiet, StartPlay, FileFails, GateFails, Started, Cancelled, Asterisk, Accept,
       Refuse, Begin, Finish, BargeStart, BargeStop, HangUp, vars, engineVars, asteriskVars

\* The gate goes on agreeing with its tokens.
LEMMA GateStep == TypeOK /\ GateAgrees /\ TokenOwned /\ [Next]_vars => GateAgrees'
<1> SUFFICES ASSUME TypeOK, GateAgrees, TokenOwned, [Next]_vars, phase' # "removed"
             PROVE  GateAgrees'
    BY DEF GateAgrees
<1>s. session \in Session
    BY DEF TypeOK, Session
<1>p. phase # "removed"
    BY DEF Next, Play, Asterisk, Barge, StartPlay, FileFails, GateAndPost, GateFails, Started,
           NotStarted, Cancelled, OnPlaybackFinished, GatingFallback, Accept, Refuse, Begin,
           Finish, BargeStart, BargeStop, BargeClear, BeginCleanup, RemoveCall, HangUp,
           vars, engineVars
<1>1. CASE Quiet
    BY <1>1, QuietKeeps DEF GateAgrees
<1>2. ASSUME NEW p \in Playbacks, GateAndPost(p) PROVE GateAgrees'
  <2>1. session' = WithToken(session, p)
    BY <1>2 DEF GateAndPost
  <2> QED BY <2>1, <1>p, <1>s, WithTokenDoes DEF GateAgrees
<1>3. ASSUME NEW T, Given(T) PROVE GateAgrees'
    BY <1>3 DEF Given, GateAgrees
<1>4. ASSUME NEW p \in Playbacks, NotStarted(p) PROVE GateAgrees'
    BY <1>3, <1>4, <1>p, NotStartedGives
<1>5. ASSUME NEW p \in Playbacks, Settle(p) PROVE GateAgrees'
    BY <1>3, <1>5, <1>p, SettleGives
<1>6. ASSUME NEW b \in Bargers, BargeClear(b) PROVE GateAgrees'
    BY <1>3, <1>6, <1>p, BargeGives
<1>7. CASE BeginCleanup
    BY <1>7, <1>p DEF BeginCleanup, GateAgrees
<1>8. ~RemoveCall
    BY DEF RemoveCall
<1> QED
    BY <1>1, <1>2, <1>4, <1>5, <1>6, <1>7, <1>8
    DEF Next, Play, Barge, Quiet, OnPlaybackFinished, GatingFallback

\* Tokens go on having an owner.
LEMMA OwnerStep == TypeOK /\ GateAgrees /\ TokenOwned /\ [Next]_vars => TokenOwned'
<1> SUFFICES ASSUME TypeOK, GateAgrees, TokenOwned, [Next]_vars, phase' # "removed",
                    NEW q \in session'.tokens
             PROVE  HasOwner(q)'
    BY DEF TokenOwned
<1>q. q \in Playbacks
    BY TypeStep DEF TypeOK
<1>p. phase # "removed"
    BY DEF Next, Play, Asterisk, Barge, StartPlay, FileFails, GateAndPost, GateFails, Started,
           NotStarted, Cancelled, OnPlaybackFinished, GatingFallback, Accept, Refuse, Begin,
           Finish, BargeStart, BargeStop, BargeClear, BeginCleanup, RemoveCall, HangUp,
           vars, engineVars
<1>o. q \in session.tokens => HasOwner(q)
    BY <1>p DEF TokenOwned
<1> USE DEF HasOwner
<1>1. ASSUME NEW p \in Playbacks, Play(p) PROVE HasOwner(q)'
  <2>1. CASE GateAndPost(p)
    <3>1. session'.tokens = session.tokens \cup {p}
      BY <2>1, WithTokenDoes DEF GateAndPost, TypeOK, Session
    <3> QED BY <2>1, <3>1, <1>o DEF GateAndPost, TypeOK
  <2>2. CASE NotStarted(p)
    <3>1. q \in session.tokens /\ q # p
      BY <2>2, <1>p, NotStartedGives DEF Given
    <3> QED BY <2>2, <3>1, <1>q, <1>o DEF NotStarted, TypeOK
  <2>3. CASE Started(p)
    BY <2>3, <1>q, <1>o DEF Started, TypeOK
  <2>4. CASE Cancelled(p)
    BY <2>4, <1>q, <1>o DEF Cancelled, TypeOK
  <2>5. CASE StartPlay(p) \/ FileFails(p) \/ GateFails(p)
    BY <2>5, <1>q, <1>o DEF StartPlay, FileFails, GateFails, TypeOK
  <2> QED BY <1>1, <2>1, <2>2, <2>3, <2>4, <2>5 DEF Play
<1>2. ASSUME NEW p \in Playbacks, OnPlaybackFinished(p) \/ GatingFallback(p)
      PROVE  HasOwner(q)'
  <2>1. Settle(p)
    BY <1>2 DEF OnPlaybackFinished, GatingFallback
  <2>2. q \in session.tokens /\ q # p
    BY <2>1, <1>p, SettleGives DEF Given
  <2> QED BY <1>2, <2>1, <2>2, <1>o DEF OnPlaybackFinished, GatingFallback, Settle
<1>3. ASSUME NEW p \in Playbacks, Asterisk(p) PROVE HasOwner(q)'
    BY <1>3, <1>o DEF Asterisk, Accept, Refuse, Begin, Finish, engineVars
<1>4. ASSUME NEW b \in Bargers, Barge(b) PROVE HasOwner(q)'
  <2>1. CASE BargeClear(b)
    BY <2>1, <1>p, BargeGives DEF Given
  <2>2. CASE ~BargeClear(b)
    BY <1>4, <2>2, <1>o DEF Barge, BargeStart, BargeStop
  <2> QED BY <2>1, <2>2
<1>5. CASE BeginCleanup
    BY <1>5, <1>o DEF BeginCleanup
<1>6. CASE HangUp \/ UNCHANGED vars
    BY <1>6, <1>o DEF HangUp, engineVars, vars
<1>7. ~RemoveCall
    BY DEF RemoveCall
<1> QED BY <1>1, <1>2, <1>3, <1>4, <1>5, <1>6, <1>7 DEF Next

\* No token of a live call is forgotten: a request, a timer or the running
\* cleanup will give it back.
THEOREM TokenOwnedHolds == Spec => []TokenOwned
<1>1. Init => TypeOK /\ GateAgrees /\ TokenOwned
    BY DEF Init, TypeOK, Stages, GateAgrees, TokenOwned
<1> QED BY <1>1, TypeStep, GateStep, OwnerStep, PTL DEF Spec

-----------------------------------------------------------------------------
(* Playbacks that are heard are covered.                                   *)

\* Asterisk knows a playback from its request on, and reports only ended ones.
Reported ==
    /\ \A p \in Playbacks : task[p] \in {"new", "file"} => ari[p] = "none"
    /\ \A p \in events : ari[p] = "over"

\* A playback on its way to the caller holds its token, but for the excuses.
Covered ==
    phase = "live" =>
        \A p \in Playbacks :
            ari[p] \in {"posted", "queued", "playing"} /\ ~Excused(p) => p \in session.tokens

LEMMA ReportedStep == TypeOK /\ Reported /\ [Next]_vars => Reported'
<1> SUFFICES ASSUME TypeOK, Reported, [Next]_vars PROVE Reported'
    OBVIOUS
<1> USE DEF Reported, TypeOK
<1>1. ASSUME NEW p \in Playbacks, Play(p) PROVE Reported'
  <2>1. CASE GateAndPost(p)
    BY <2>1 DEF GateAndPost
  <2>2. CASE ~GateAndPost(p)
    BY <1>1, <2>2 DEF Play, StartPlay, FileFails, GateFails, Started, NotStarted, Cancelled,
                      asteriskVars
  <2> QED BY <2>1, <2>2
<1>2. ASSUME NEW p \in Playbacks, OnPlaybackFinished(p) PROVE Reported'
    BY <1>2 DEF OnPlaybackFinished
<1>3. ASSUME NEW p \in Playbacks, GatingFallback(p) PROVE Reported'
    BY <1>3 DEF GatingFallback, asteriskVars
<1>4. ASSUME NEW p \in Playbacks, Asterisk(p) PROVE Reported'
  <2>1. CASE Accept(p)
    BY <2>1 DEF Accept, engineVars
  <2>2. CASE Refuse(p)
    BY <2>2 DEF Refuse, engineVars
  <2>3. CASE Begin(p)
    BY <2>3 DEF Begin, engineVars
  <2>4. CASE Finish(p)
    <3>1. events' \subseteq events \cup {p}
      BY <2>4, ReportTyped DEF Finish
    <3> QED BY <2>4, <3>1 DEF Finish, engineVars
  <2> QED BY <1>4, <2>1, <2>2, <2>3, <2>4 DEF Asterisk
<1>5. ASSUME NEW b \in Bargers, Barge(b) PROVE Reported'
  <2>1. CASE BargeStart(b) \/ BargeClear(b)
    BY <2>1 DEF BargeStart, BargeClear, asteriskVars
  <2>2. ASSUME NEW p \in Playbacks, BargeStop(b, p) PROVE Reported'
    <3>1. CASE Waiting(p)
      <4>1. events' \subseteq events \cup {p}
        BY <2>2, <3>1, ReportTyped DEF BargeStop
      <4> QED BY <2>2, <3>1, <4>1 DEF BargeStop, Waiting
    <3>2. CASE ~Waiting(p)
      BY <2>2, <3>2 DEF BargeStop
    <3> QED BY <3>1, <3>2
  <2> QED BY <1>5, <2>1, <2>2 DEF Barge
<1>6. CASE HangUp
  <2> DEFINE W == {q \in Playbacks : Waiting(q)}
  <2>1. W \subseteq Playbacks /\ Report(W)
    BY <1>6 DEF HangUp
  <2>2. events' \subseteq events \cup W
    BY <2>1, ReportTyped
  <2> QED BY <1>6, <2>2 DEF HangUp, engineVars, Waiting
<1>7. CASE BeginCleanup \/ RemoveCall \/ UNCHANGED vars
    BY <1>7 DEF BeginCleanup, RemoveCall, vars, engineVars, asteriskVars
<1> QED BY <1>1, <1>2, <1>3, <1>4, <1>5, <1>6, <1>7 DEF Next

LEMMA CoveredStep ==
    TypeOK /\ GateAgrees /\ TokenOwned /\ Reported /\ Covered /\ [Next]_vars => Covered'
<1> SUFFICES ASSUME TypeOK, GateAgrees, TokenOwned, Reported, Covered, [Next]_vars,
                    phase' = "live",
                    NEW q \in Playbacks,
                    ari'[q] \in {"posted", "queued", "playing"}, ~Excused(q)'
             PROVE  q \in session'.tokens
    BY DEF Covered
<1>p. phase = "live"
    BY DEF Next, Play, Asterisk, Barge, StartPlay, FileFails, GateAndPost, GateFails, Started,
           NotStarted, Cancelled, OnPlaybackFinished, GatingFallback, Accept, Refuse, Begin,
           Finish, BargeStart, BargeStop, BargeClear, BeginCleanup, RemoveCall, HangUp,
           vars, engineVars
<1>c. ari[q] \in {"posted", "queued", "playing"} /\ ~Excused(q) => q \in session.tokens
    BY <1>p DEF Covered
<1> USE DEF TypeOK, Excused
<1>1. ASSUME NEW p \in Playbacks, Play(p) PROVE q \in session'.tokens
  <2>1. CASE GateAndPost(p)
    <3>1. session'.tokens = session.tokens \cup {p}
      BY <2>1, WithTokenDoes DEF GateAndPost, Session
    <3> QED BY <2>1, <3>1, <1>c DEF GateAndPost
  <2>2. CASE NotStarted(p)
    <3>1. session'.tokens = session.tokens \ {p}
      BY <2>2, <1>p, NotStartedGives DEF Given
    <3> QED BY <2>2, <3>1, <1>c DEF NotStarted, asteriskVars
  <2>3. CASE ~GateAndPost(p) /\ ~NotStarted(p)
    BY <1>1, <2>3, <1>c
    DEF Play, StartPlay, FileFails, GateFails, Started, Cancelled, asteriskVars
  <2> QED BY <2>1, <2>2, <2>3
<1>2. ASSUME NEW p \in Playbacks, Settle(p), p = q => ari[p] = "over" \/ p \in late,
             UNCHANGED <<ari, late, flushed, task>>
      PROVE  q \in session'.tokens
  <2>1. session'.tokens = session.tokens \ {p}
    BY <1>2, <1>p, SettleGives DEF Given
  <2> QED BY <1>2, <2>1, <1>c
<1>3. ASSUME NEW p \in Playbacks, OnPlaybackFinished(p) PROVE q \in session'.tokens
    BY <1>2, <1>3 DEF OnPlaybackFinished, Reported
<1>4. ASSUME NEW p \in Playbacks, GatingFallback(p) PROVE q \in session'.tokens
    BY <1>2, <1>4 DEF GatingFallback, Overdue, asteriskVars
<1>5. ASSUME NEW p \in Playbacks, Asterisk(p) PROVE q \in session'.tokens
    BY <1>5, <1>c DEF Asterisk, Accept, Refuse, Begin, Finish, engineVars
<1>6. ASSUME NEW b \in Bargers, Barge(b) PROVE q \in session'.tokens
  <2>1. CASE BargeClear(b)
    BY <2>1, <1>p, <1>c DEF BargeClear, GateAgrees, asteriskVars
  <2>2. CASE ~BargeClear(b)
    BY <1>6, <2>2, <1>c DEF Barge, BargeStart, BargeStop, asteriskVars
  <2> QED BY <2>1, <2>2
<1>7. CASE HangUp
    BY <1>7, <1>c DEF HangUp, engineVars, Waiting
<1>8. CASE BeginCleanup \/ RemoveCall \/ UNCHANGED vars
    BY <1>8, <1>p, <1>c DEF BeginCleanup, RemoveCall, vars, engineVars, asteriskVars
<1> QED BY <1>1, <1>3, <1>4, <1>5, <1>6, <1>7, <1>8 DEF Next

\* The invariant the theorems below rest on.
GatingHeld == TypeOK /\ GateAgrees /\ TokenOwned /\ Reported /\ Covered

LEMMA GatingInvariant == Spec => []GatingHeld
<1>1. Init => GatingHeld
    BY DEF Init, GatingHeld, TypeOK, Stages, GateAgrees, TokenOwned, Reported, Covered
<1>2. GatingHeld /\ [Next]_vars => GatingHeld'
    BY TypeStep, GateStep, OwnerStep, ReportedStep, CoveredStep DEF GatingHeld
<1> QED BY <1>1, <1>2, PTL DEF Spec

\* While the agent is heard in a live call the microphone is closed by the
\* playback's own token, but for a barge-in, a lost answer or a late start.
THEOREM PlaybackCoveredHolds == Spec => []PlaybackCovered
<1>1. GatingHeld => PlaybackCovered
    BY DEF GatingHeld, Covered, GateAgrees, PlaybackCovered
<1> QED BY <1>1, GatingInvariant, PTL

-----------------------------------------------------------------------------
(* The gate implements its promise.                                        *)

\* A step after the call was removed, or one that touches neither the session
\* nor the history of the playbacks, is invisible.
LEMMA Invisible ==
    ASSUME \/ phase = "removed" /\ phase' = "removed"
           \/ phase # "removed" /\ phase' # "removed" /\ UNCHANGED <<session, Spent>>
    PROVE  UNCHANGED <<Holders, Spent, Open>>
BY DEF Holders, Spent, Open

\* Giving tokens back lets go of the gate, or changes nothing if there are none.
LEMMA GivingLetsGo ==
    ASSUME TypeOK, TypeOK', GateAgrees, phase # "removed", phase' = phase, UNCHANGED Spent,
           NEW T \in SUBSET Playbacks, Given(T)
    PROVE  Gate!Next \/ UNCHANGED <<Holders, Spent, Open>>
<1> DEFINE H == session.tokens \cap T
<1>1. session.tokens \subseteq Playbacks
    BY DEF TypeOK
<1>2. /\ session'.tokens = session.tokens \ H
      /\ session.capture = (session.tokens = {})
      /\ session'.capture = (session'.tokens = {})
    BY DEF TypeOK, Given, GateAgrees
<1>3. CASE H = {}
    BY <1>2, <1>3 DEF Holders, Open
<1>4. CASE H # {}
  <2>1. Gate!LetGo(H)
    BY <1>2, <1>4 DEF Gate!LetGo, Holders, Spent, Open
  <2> QED BY <1>1, <2>1 DEF Gate!Next
<1> QED BY <1>3, <1>4

LEMMA GateNext ==
    GatingHeld /\ [Next]_vars => Gate!Next \/ UNCHANGED <<Holders, Spent, Open>>
<1> SUFFICES ASSUME GatingHeld, [Next]_vars
             PROVE  Gate!Next \/ UNCHANGED <<Holders, Spent, Open>>
    OBVIOUS
<1> USE DEF GatingHeld
<1>t. TypeOK'
    BY TypeStep
<1>1. CASE RemoveCall
  <2>1. Gate!CallEnds
    BY <1>1 DEF RemoveCall, Gate!CallEnds, Holders, Spent, Open
  <2> QED BY <2>1 DEF Gate!Next
<1>2. CASE ~RemoveCall /\ phase = "removed"
    BY <1>2, Invisible
    DEF Next, Play, Asterisk, Barge, StartPlay, FileFails, GateAndPost, GateFails, Started,
        NotStarted, Cancelled, OnPlaybackFinished, GatingFallback, Accept, Refuse, Begin,
        Finish, BargeStart, BargeStop, BargeClear, BeginCleanup, HangUp, vars, engineVars
<1>3. CASE phase # "removed"
  <2>1. ASSUME NEW p \in Playbacks, Play(p)
        PROVE  Gate!Next \/ UNCHANGED <<Holders, Spent, Open>>
    <3>1. CASE GateAndPost(p)
      <4>1. /\ session'.tokens = session.tokens \cup {p}
            /\ ~session'.capture
        BY <3>1, WithTokenDoes DEF GateAndPost, TypeOK, Session
      <4>2. p \notin Spent /\ Spent' = Spent \cup {p}
        BY <1>3, <3>1 DEF GateAndPost, TypeOK, Spent
      <4>3. Gate!Hold(p)
        BY <1>3, <3>1, <4>1, <4>2 DEF Gate!Hold, GateAndPost, TypeOK, Session, Holders, Spent, Open
      <4> QED BY <4>3 DEF Gate!Next
    <3>2. CASE NotStarted(p)
      <4>1. phase' = phase /\ Spent' = Spent
        BY <3>2 DEF NotStarted, Spent, TypeOK
      <4> QED BY <1>3, <3>2, <4>1, <1>t, NotStartedGives, GivingLetsGo
    <3>3. CASE StartPlay(p) \/ FileFails(p) \/ GateFails(p) \/ Started(p) \/ Cancelled(p)
      <4>1. phase' = phase /\ session' = session /\ Spent' = Spent
        BY <3>3 DEF StartPlay, FileFails, GateFails, Started, Cancelled, Spent, TypeOK
      <4> QED BY <1>3, <4>1, Invisible
    <3> QED BY <2>1, <3>1, <3>2, <3>3 DEF Play
  <2>2. ASSUME NEW p \in Playbacks, OnPlaybackFinished(p) \/ GatingFallback(p)
        PROVE  Gate!Next \/ UNCHANGED <<Holders, Spent, Open>>
    <3>1. Settle(p) /\ phase' = phase /\ Spent' = Spent
      BY <2>2 DEF OnPlaybackFinished, GatingFallback, Spent
    <3> QED BY <1>3, <3>1, <1>t, SettleGives, GivingLetsGo
  <2>3. ASSUME NEW b \in Bargers, BargeClear(b)
        PROVE  Gate!Next \/ UNCHANGED <<Holders, Spent, Open>>
    <3>1. phase' = phase /\ Spent' = Spent /\ session.tokens \in SUBSET Playbacks
      BY <2>3 DEF BargeClear, Spent, TypeOK
    <3> QED BY <1>3, <2>3, <3>1, <1>t, BargeGives, GivingLetsGo
  <2>4. CASE BeginCleanup
    <3>1. phase' # "removed" /\ session' = session /\ Spent' = Spent
      BY <2>4 DEF BeginCleanup, Spent
    <3> QED BY <1>3, <3>1, Invisible
  <2>5. ASSUME \/ \E p \in Playbacks : Asterisk(p)
               \/ \E b \in Bargers : BargeStart(b) \/ \E p \in Playbacks : BargeStop(b, p)
               \/ HangUp
               \/ UNCHANGED vars
        PROVE  UNCHANGED <<Holders, Spent, Open>>
    <3>1. UNCHANGED <<phase, session, task>>
      BY <2>5 DEF Asterisk, Accept, Refuse, Begin, Finish, BargeStart, BargeStop, HangUp,
                  vars, engineVars
    <3> QED BY <3>1 DEF Holders, Spent, Open
  <2> QED BY <1>1, <2>1, <2>2, <2>3, <2>4, <2>5 DEF Next, Barge
<1> QED BY <1>1, <1>2, <1>3

\* The tokens, the playback table, the timers and the barge-in handlers together
\* are the gate: it opens when the last holder lets go, and no playback holds it
\* a second time.
THEOREM GateImplemented == Spec => Gate!Safety
<1>1. Init => Gate!Init
    BY DEF Init, Gate!Init, Holders, Spent, Open
<1>2. GatingHeld /\ [Next]_vars => [Gate!Next]_(Gate!gateVars)
    BY GateNext DEF Gate!gateVars, Holders, Spent, Open
<1> QED BY <1>1, <1>2, GatingInvariant, PTL DEF Spec, Gate!Safety
=============================================================================
