----------------------- MODULE AttendedTransferProofs -----------------------
(***************************************************************************)
(* Theorems about AttendedTransfer, for any number of transfers, incidents *)
(* and recordings, whether the transfers overlap or not.  Nothing is       *)
(* assumed but BoundsAssumption.                                           *)
(*                                                                         *)
(* All transfers share the one current_action.  A step that writes the     *)
(* action of another transfer, unmaps its leg or takes the end of one leg  *)
(* for that of another sets hist.crossed (Mannered).  Until then the       *)
(* action, if there is one, is that of the newest transfer (Ordered,       *)
(* Named), and a leg that answered in a live call is the leg it names.     *)
(*                                                                         *)
(* On this rest the layers of Attended: a leg that answers is screened and *)
(* then bridged, or has an end to come that reads this same action and     *)
(* mapping (Answering, Owned); an answered transfer has a handler that     *)
(* will decide it and a dialling remembers what the capture was (Underway, *)
(* Remembered); and while the AI does not hear the caller something is     *)
(* left that reopens the capture (Reopens).  Closing, which needs none of  *)
(* it, tells what a call that is gone still has to unmap.                  *)
(***************************************************************************)
EXTENDS AttendedTransfer, TLAPS

JobType == [Handlers -> [Channels -> Jobs]]
ActType == [on : BOOLEAN, leg : {0} \cup Channels, answered : BOOLEAN,
            decided : {"none", "accepted", "declined"}, saved : {"none", "open", "shut"}]
CallType == [stored : BOOLEAN, ending : BOOLEAN, here : BOOLEAN]
CancelType == [pc : {"idle", "hang", "clear"}, leg : {0} \cup Channels]
CleanType == [pc : {"no", "begun", "stopped", "hung", "done"}, leg : {0} \cup Channels]
HistType == [by : {0} \cup Channels, up : SUBSET Channels, raced : SUBSET Channels, alone : BOOLEAN,
             deaf : BOOLEAN, crossed : BOOLEAN, undoes : {0} \cup Dialled]

\* The legs that answered, waited for or given up.
Rose == hist.up \cup hist.raced

\* TypeOK, with the types of the records closed.
Shaped ==
  /\ call \in CallType /\ act \in ActType
  /\ capture \in BOOLEAN /\ speaking \in BOOLEAN /\ moh \in BOOLEAN /\ ai \in BOOLEAN
  /\ mapped \subseteq Channels /\ digit \in [Channels -> {"none", "yes", "no"}]
  /\ chan \in [Channels -> {"none", "ringing", "up", "bridged", "gone"}] /\ ends \subseteq Channels
  /\ orig \in [Dialled -> {"no", "screen", "hold", "dial", "rung", "done"}]
  /\ guard \in [Dialled -> {"no", "sleep", "hang", "clear", "done"}]
  /\ job \in JobType /\ cancel \in CancelType /\ clean \in CleanType
  /\ left \in 0..Incidents

Typed == Shaped /\ hist \in HistType

-----------------------------------------------------------------------------
(* Types. *)

LEMMA Numbers ==
  /\ 0 \notin Channels /\ Dialled \subseteq Channels
  /\ \A i \in Dialled : PickupOf(i) \in Channels /\ PickupOf(i) \notin Dialled
  /\ \A i, j \in Dialled : PickupOf(i) = PickupOf(j) => i = j
  /\ \A c \in Channels : c \in Dialled \/ \E i \in Dialled : c = PickupOf(i)
  /\ \A i \in Dialled : Of(i) = i /\ Of(PickupOf(i)) = i
  /\ \A c \in Channels : Of(c) \in Dialled /\ c \in {Of(c), PickupOf(Of(c))}
  <1>1. 0 \notin Channels /\ Dialled \subseteq Channels
    BY BoundsAssumption DEF Channels, Dialled
  <1>2. \A i \in Dialled : PickupOf(i) \in Channels /\ PickupOf(i) \notin Dialled
    BY BoundsAssumption DEF Channels, Dialled, PickupOf
  <1>3. \A i, j \in Dialled : PickupOf(i) = PickupOf(j) => i = j
    BY BoundsAssumption DEF Dialled, PickupOf
  <1>4. ASSUME NEW c \in Channels, c \notin Dialled PROVE \E i \in Dialled : c = PickupOf(i)
    <2>1. c - Attempts \in Dialled /\ c = PickupOf(c - Attempts)
      BY <1>4, BoundsAssumption DEF Channels, Dialled, PickupOf
    <2>2. QED
      BY <2>1
  <1>5. \A i \in Dialled : Of(i) = i /\ Of(PickupOf(i)) = i
    <2>1. ASSUME NEW i \in Dialled PROVE Of(i) = i
      BY DEF Of
    <2>2. ASSUME NEW i \in Dialled PROVE Of(PickupOf(i)) = i
      BY <1>2, BoundsAssumption DEF Of, PickupOf, Dialled
    <2>3. QED
      BY <2>1, <2>2
  <1>6. \A c \in Channels : Of(c) \in Dialled /\ c \in {Of(c), PickupOf(Of(c))}
    BY <1>4, <1>5
  <1>7. QED
    BY <1>1, <1>2, <1>3, <1>4, <1>5, <1>6

LEMMA NoActionTyped == NoAction \in ActType
  BY DEF NoAction, ActType

LEMMA AtTyped ==
  ASSUME TypeOK, NEW k \in Handlers, NEW c \in Channels, NEW pc \in Jobs
  PROVE  /\ At(k, c, pc) \in JobType
         /\ \A l \in Handlers, d \in Channels : At(k, c, pc)[l][d] = IF l = k /\ d = c THEN pc ELSE job[l][d]
  <1>1. job \in JobType
    BY DEF TypeOK, JobType
  <1>2. QED
    BY <1>1 DEF At, JobType

\* A mapping that goes leaves handlers as they were, or idle.
LEMMA UnregisteredDoes ==
  ASSUME TypeOK, NEW gone, NEW jobs \in JobType, Unregistered(gone, jobs)
  PROVE  /\ mapped' \subseteq Channels /\ digit' \in [Channels -> {"none", "yes", "no"}]
         /\ job' \in JobType
         /\ \A k \in Handlers, c \in Channels : job'[k][c] \in {"idle", jobs[k][c]}
  <1>1. mapped' \subseteq Channels
    BY DEF Unregistered, TypeOK
  <1>2. digit' \in [Channels -> {"none", "yes", "no"}]
    BY DEF Unregistered, TypeOK
  <1>3. \A k \in Handlers, c \in Channels : jobs[k][c] \in Jobs /\ "idle" \in Jobs
    BY DEF JobType, Jobs
  <1>4. job' \in JobType /\ \A k \in Handlers, c \in Channels : job'[k][c] \in {"idle", jobs[k][c]}
    <2>1. job' = [k \in Handlers |-> [c \in Channels |->
                    IF k = "ans" /\ c \in gone /\ jobs[k][c] = "asked" THEN "idle" ELSE jobs[k][c]]]
      BY DEF Unregistered
    <2>2. QED
      BY <1>3, <2>1 DEF JobType
  <1>5. QED
    BY <1>1, <1>2, <1>4

LEMMA HungUpDoes ==
  ASSUME TypeOK, NEW c \in {0} \cup Channels, HungUp(c)
  PROVE  /\ chan' \in [Channels -> {"none", "ringing", "up", "bridged", "gone"}]
         /\ ends' \subseteq Channels
         /\ \A d \in Channels : chan[d] \in {"none", "gone"} /\ d \notin ends => chan'[d] = chan[d] /\ d \notin ends'
  <1>1. CASE c # 0 /\ chan[c] \in {"ringing", "up", "bridged"}
    BY <1>1, Numbers DEF HungUp, TypeOK
  <1>2. CASE ~(c # 0 /\ chan[c] \in {"ringing", "up", "bridged"})
    BY <1>2 DEF HungUp, TypeOK
  <1>3. QED
    BY <1>1, <1>2

LEMMA SpendsTyped == ASSUME TypeOK, NEW n \in Nat, Spends(n) PROVE left' \in 0..Incidents
  BY BoundsAssumption DEF TypeOK, Spends

LEMMA IncidentTyped == TypeOK /\ Incident => left' \in 0..Incidents
  BY SpendsTyped DEF Incident

LEMMA CrossingIs ==
  ASSUME NEW h \in HistType, NEW yes \in BOOLEAN
  PROVE  /\ Crossing(h, yes) \in HistType
         /\ Crossing(h, yes).crossed = (h.crossed \/ yes)
         /\ Crossing(h, yes).by = h.by /\ Crossing(h, yes).undoes = h.undoes
         /\ Crossing(h, yes).up = h.up /\ Crossing(h, yes).raced = h.raced
         /\ Crossing(h, yes).alone = h.alone /\ Crossing(h, yes).deaf = h.deaf
  BY DEF Crossing, HistType

LEMMA Split == TypeOK <=> Typed
  BY DEF TypeOK, Typed, Shaped, CallType, ActType, JobType, CancelType, CleanType, HistType

LEMMA RegistersIs ==
  ASSUME TypeOK, NEW c \in Channels, Registers(c)
  PROVE  /\ mapped' = IF call.stored /\ act.on THEN {c} ELSE {}
         /\ act' = IF call.stored /\ act.on THEN [act EXCEPT !.answered = TRUE, !.leg = c] ELSE act
         /\ job'["ans"][c] = IF call.stored /\ act.on THEN "screen" ELSE "drop"
         /\ \A d \in Channels : job'["end"][d] = job["end"][d]
         /\ \A d \in Channels : d # c =>
              \/ job'["ans"][d] = job["ans"][d]
              \/ job["ans"][d] = "asked" /\ job'["ans"][d] = "idle" /\ d \in mapped
         /\ mapped' \subseteq Channels /\ digit' \in [Channels -> {"none", "yes", "no"}]
         /\ act' \in ActType /\ job' \in JobType
  <1>1. /\ mapped' = IF call.stored /\ act.on THEN {c} ELSE {}
        /\ act' = IF call.stored /\ act.on THEN [act EXCEPT !.answered = TRUE, !.leg = c] ELSE act
    BY DEF Registers
  <1>2. job' = [k \in Handlers |-> [d \in Channels |->
                 IF k = "ans" /\ d = c THEN (IF call.stored /\ act.on THEN "screen" ELSE "drop")
                 ELSE IF k = "ans" /\ d \in mapped \ {c} /\ job[k][d] = "asked" THEN "idle" ELSE job[k][d]]]
    BY DEF Registers
  <1>3. job'["ans"][c] = IF call.stored /\ act.on THEN "screen" ELSE "drop"
    BY <1>2 DEF Handlers
  <1>4. \A d \in Channels : job'["end"][d] = job["end"][d]
    BY <1>2 DEF Handlers
  <1>5. \A d \in Channels : d # c =>
              \/ job'["ans"][d] = job["ans"][d]
              \/ job["ans"][d] = "asked" /\ job'["ans"][d] = "idle" /\ d \in mapped
    BY <1>2 DEF Handlers
  <1>6. mapped' \subseteq Channels /\ digit' \in [Channels -> {"none", "yes", "no"}]
    BY DEF Registers, TypeOK
  <1>7. act' \in ActType
    BY <1>1 DEF TypeOK, ActType
  <1>8. job' \in JobType
    BY <1>2 DEF TypeOK, JobType, Jobs
  <1>9. QED
    BY <1>1, <1>3, <1>4, <1>5, <1>6, <1>7, <1>8

\* What is noted of an answer.
LEMMA RegistersNotes ==
  ASSUME TypeOK, NEW c \in Channels, Registers(c)
  PROVE  /\ hist' \in HistType
         /\ hist'.by = hist.by /\ hist'.undoes = hist.undoes
         /\ hist'.alone = hist.alone /\ hist'.deaf = hist.deaf
         /\ \A d \in Channels : d \in Rose' <=> d \in Rose \/ (d = c /\ call.stored /\ act.on)
         /\ hist'.crossed <=> \/ hist.crossed \/ (call.stored /\ act.on /\ Foreign(Of(c)))
                               \/ \E d \in mapped \ {c} : Of(d) # Of(c)
  <1>. DEFINE known == call.stored /\ act.on
              given == GivenUp(Of(c))
              yes == (known /\ Foreign(Of(c))) \/ \E d \in mapped \ {c} : Of(d) # Of(c)
              u == IF known /\ ~given THEN hist.up \cup {c} ELSE hist.up
              r == IF known /\ given THEN hist.raced \cup {c} ELSE hist.raced
              h == [hist EXCEPT !.up = u, !.raced = r]
  <1>1. hist \in HistType /\ hist.up \subseteq Channels /\ hist.raced \subseteq Channels
    BY Split DEF Typed, HistType
  <1>2. yes \in BOOLEAN
    OBVIOUS
  <1>3. hist' = Crossing(h, yes)
    BY DEF Registers
  <1>4. /\ u \subseteq Channels /\ r \subseteq Channels
        /\ \A d \in Channels : d \in u \cup r <=> d \in Rose \/ (d = c /\ known)
    BY <1>1 DEF Rose
  <1>. HIDE DEF u, r
  <1>5. h \in HistType /\ h.by = hist.by /\ h.undoes = hist.undoes /\ h.alone = hist.alone /\ h.deaf = hist.deaf
        /\ h.up = u /\ h.raced = r /\ h.crossed = hist.crossed
    BY <1>1, <1>4 DEF HistType
  <1>. HIDE DEF h, yes
  <1>6. /\ hist' \in HistType /\ hist'.crossed = (h.crossed \/ yes)
        /\ hist'.by = hist.by /\ hist'.undoes = hist.undoes
        /\ hist'.alone = hist.alone /\ hist'.deaf = hist.deaf
        /\ hist'.up = u /\ hist'.raced = r
    BY <1>2, <1>3, <1>5, CrossingIs
  <1>7. \A d \in Channels : d \in Rose' <=> d \in Rose \/ (d = c /\ known)
    BY <1>4, <1>6 DEF Rose
  <1>8. hist'.crossed <=> hist.crossed \/ yes
    BY <1>2, <1>5, <1>6
  <1>9. QED
    BY <1>6, <1>7, <1>8 DEF yes

LEMMA CallTyped ==
  ASSUME NEW s \in CallType, NEW b \in BOOLEAN
  PROVE  /\ [s EXCEPT !.stored = b] \in CallType /\ [s EXCEPT !.here = b] \in CallType
         /\ [s EXCEPT !.ending = TRUE, !.here = b] \in CallType
         /\ s.stored \in BOOLEAN /\ s.ending \in BOOLEAN /\ s.here \in BOOLEAN
  BY DEF CallType

LEMMA ActTyped ==
  ASSUME NEW a \in ActType
  PROVE  /\ [NoAction EXCEPT !.on = TRUE] \in ActType /\ NoAction \in ActType
         /\ \A v \in {"open", "shut"} : [a EXCEPT !.saved = v] \in ActType
         /\ \A c \in Channels : /\ [a EXCEPT !.leg = c] \in ActType
                                /\ [a EXCEPT !.answered = TRUE, !.leg = c] \in ActType
                                /\ [a EXCEPT !.answered = TRUE, !.leg = c, !.decided = "accepted"] \in ActType
         /\ \A v \in {"accepted", "declined"} : [a EXCEPT !.decided = v] \in ActType
         /\ a.on \in BOOLEAN /\ a.answered \in BOOLEAN /\ a.leg \in {0} \cup Channels
  BY DEF ActType, NoAction

LEMMA CancelTyped ==
  ASSUME NEW s \in CancelType
  PROVE  /\ [s EXCEPT !.pc = "clear"] \in CancelType
         /\ [s EXCEPT !.pc = "idle", !.leg = 0] \in CancelType
         /\ s.leg \in {0} \cup Channels
         /\ \A c \in {0} \cup Channels : /\ [pc |-> "clear", leg |-> c] \in CancelType
                                         /\ [pc |-> "hang", leg |-> c] \in CancelType
  BY DEF CancelType

LEMMA CleanTyped ==
  ASSUME NEW s \in CleanType
  PROVE  /\ [s EXCEPT !.pc = "hung"] \in CleanType /\ [s EXCEPT !.pc = "done"] \in CleanType
         /\ s.leg \in {0} \cup Channels
         /\ \A c \in {0} \cup Channels : /\ [pc |-> "begun", leg |-> c] \in CleanType
                                         /\ [pc |-> "stopped", leg |-> c] \in CleanType
  BY DEF CleanType

LEMMA PlainShaped ==
  ASSUME Typed
  PROVE  /\ Silent \/ CancelClears \/ CallerHangsUp \/ CleanupStops => Shaped'
         /\ \A i \in Dialled : Ask(i) \/ Screened(i) \/ ScreeningFails(i) \/ Dial(i) \/ Rings(i) \/ DialFails(i)
                              \/ Originated(i) \/ GuardClears(i) => Shaped'
         /\ \A c \in Channels : Presses(c) \/ Joins(c) => Shaped'
  <1>. USE Numbers DEF session, legs, tasks
  <1>1. ASSUME Silent PROVE Shaped'
    BY <1>1, CallTyped DEF Silent, Typed, Shaped
  <1>2. ASSUME NEW i \in Dialled, Ask(i) PROVE Shaped'
    <2>1. PICK talks \in BOOLEAN :
            /\ IF talks THEN speaking' = TRUE /\ capture' = FALSE ELSE UNCHANGED <<speaking, capture>>
            /\ Spends((IF talks THEN 1 ELSE 0) + (IF \E j \in Dialled : Busy(j) THEN 1 ELSE 0))
      BY <1>2 DEF Ask
    <2>2. left' \in 0..Incidents
      <3>. DEFINE n == (IF talks THEN 1 ELSE 0) + (IF \E j \in Dialled : Busy(j) THEN 1 ELSE 0)
      <3>1. n \in Nat /\ Spends(n)
        BY <2>1
      <3>. HIDE DEF n
      <3>2. QED
        BY <3>1, Split, SpendsTyped
    <2>3. speaking' \in BOOLEAN /\ capture' \in BOOLEAN
      BY <2>1 DEF Typed, Shaped
    <2>4. QED
      BY <1>2, <2>2, <2>3, ActTyped DEF Ask, Typed, Shaped
  <1>3. ASSUME NEW i \in Dialled, Screened(i) PROVE Shaped'
    BY <1>3 DEF Screened, Typed, Shaped
  <1>31. ASSUME NEW i \in Dialled, ScreeningFails(i) PROVE Shaped'
    BY <1>31, ActTyped, IncidentTyped, Split DEF ScreeningFails, PendingCleared, Typed, Shaped
  <1>4. ASSUME NEW i \in Dialled, Dial(i) PROVE Shaped'
    BY <1>4, ActTyped DEF Dial, Typed, Shaped
  <1>5. ASSUME NEW i \in Dialled, Rings(i) PROVE Shaped'
    BY <1>5 DEF Rings, Typed, Shaped
  <1>6. ASSUME NEW i \in Dialled, DialFails(i) PROVE Shaped'
    BY <1>6, ActTyped, IncidentTyped, Split DEF DialFails, PendingCleared, Typed, Shaped
  <1>7. ASSUME NEW i \in Dialled, Originated(i) PROVE Shaped'
    BY <1>7, ActTyped DEF Originated, Typed, Shaped
  <1>8. ASSUME NEW c \in Channels, Presses(c) PROVE Shaped'
    BY <1>8 DEF Presses, Typed, Shaped
  <1>9. ASSUME NEW c \in Channels, Joins(c) PROVE Shaped'
    <2>1. act' \in ActType /\ call' \in CallType
      BY <1>9, CallTyped, ActTyped DEF Joins, Typed, Shaped, Saved
    <2>2. job' \in JobType
      BY <1>9, Split, AtTyped DEF Joins, Typed, Shaped, Handlers, Jobs
    <2>3. chan' \in [Channels -> {"none", "ringing", "up", "bridged", "gone"}] /\ left' \in 0..Incidents
      BY <1>9, Split, IncidentTyped DEF Joins, Typed, Shaped
    <2>4. QED
      BY <1>9, <2>1, <2>2, <2>3 DEF Joins, Typed, Shaped
  <1>10. ASSUME NEW i \in Dialled, GuardClears(i) PROVE Shaped'
    BY <1>10, ActTyped, CallTyped DEF GuardClears, Typed, Shaped, Saved
  <1>11. ASSUME CancelClears PROVE Shaped'
    BY <1>11, ActTyped, CallTyped, CancelTyped DEF CancelClears, Typed, Shaped, Saved
  <1>12. ASSUME CallerHangsUp PROVE Shaped'
    BY <1>12, CallTyped, CleanTyped, IncidentTyped, Split DEF CallerHangsUp, Typed, Shaped, CleanupBegins
  <1>13. ASSUME CleanupStops PROVE Shaped'
    <2>1. clean' \in CleanType
      BY <1>13, ActTyped, CleanTyped DEF CleanupStops, Typed, Shaped
    <2>2. chan' \in [Channels -> {"none", "ringing", "up", "bridged", "gone"}]
      BY <1>13 DEF CleanupStops, Typed, Shaped
    <2>3. orig' \in [Dialled -> {"no", "screen", "hold", "dial", "rung", "done"}]
      BY <1>13 DEF CleanupStops, Typed, Shaped
    <2>4. guard' \in [Dialled -> {"no", "sleep", "hang", "clear", "done"}]
      BY <1>13 DEF CleanupStops, Typed, Shaped
    <2>5. QED
      BY <1>13, <2>1, <2>2, <2>3, <2>4 DEF CleanupStops, Typed, Shaped
  <1>14. QED
    BY <1>1, <1>2, <1>3, <1>31, <1>4, <1>5, <1>6, <1>7, <1>8, <1>9, <1>10, <1>11, <1>12, <1>13

LEMMA HandlersShaped ==
  ASSUME Typed
  PROVE  /\ CancelBegins \/ CancelHangsUp \/ CleanupHangsUp \/ CleanupRemoves => Shaped'
         /\ \A i \in Dialled : GuardWakes(i) \/ GuardHangsUp(i) \/ Answers(i) \/ PickedUp(i) \/ RingsOut(i) => Shaped'
         /\ \A c \in Channels : LegEnds(c) \/ Drop(c) \/ ScreenFails(c) \/ AsksDigit(c)
                              \/ Decides(c) \/ Connects(c) \/ EndHandled(c) => Shaped'
         /\ \A k \in Handlers, c \in Channels : AbortHangsUp(k, c) \/ AbortResumes(k, c) => Shaped'
  <1>. USE Numbers DEF session, legs, tasks
  <1>0. /\ TypeOK /\ "ans" \in Handlers /\ "end" \in Handlers /\ job \in JobType
        /\ Jobs = {"idle", "drop", "screen", "asked", "connect", "join", "hang", "decline", "resume"}
    BY Split DEF Handlers, Jobs, Typed, Shaped
  <1>1. ASSUME NEW i \in Dialled, GuardWakes(i) PROVE Shaped'
    BY <1>0, <1>1, Split, UnregisteredDoes DEF GuardWakes, Typed, Shaped
  <1>2. ASSUME NEW i \in Dialled, GuardHangsUp(i) PROVE Shaped'
    BY <1>0, <1>2, HungUpDoes DEF GuardHangsUp, Typed, Shaped
  <1>3. ASSUME NEW i \in Dialled, Answers(i) PROVE Shaped'
    BY <1>0, <1>3, RegistersIs DEF Answers, Typed, Shaped
  <1>4. ASSUME NEW i \in Dialled, PickedUp(i) PROVE Shaped'
    <2>1. Registers(PickupOf(i)) /\ PickupOf(i) \in Channels /\ i \in Channels
      BY <1>4 DEF PickedUp
    <2>2. /\ mapped' \subseteq Channels /\ digit' \in [Channels -> {"none", "yes", "no"}]
          /\ job' \in JobType /\ act' \in ActType
      BY <1>0, <2>1, RegistersIs
    <2>3. chan' \in [Channels -> {"none", "ringing", "up", "bridged", "gone"}] /\ ends' \subseteq Channels
      BY <1>4, <2>1 DEF PickedUp, Typed, Shaped
    <2>4. QED
      BY <1>0, <1>4, <2>2, <2>3, IncidentTyped DEF PickedUp, Typed, Shaped
  <1>41. ASSUME NEW i \in Dialled, RingsOut(i) PROVE Shaped'
    BY <1>0, <1>41, HungUpDoes DEF RingsOut, Typed, Shaped
  <1>5. ASSUME NEW c \in Channels, LegEnds(c) PROVE Shaped'
    BY <1>0, <1>5, HungUpDoes, IncidentTyped DEF LegEnds, Typed, Shaped
  <1>6. ASSUME NEW c \in Channels, Drop(c) PROVE Shaped'
    BY <1>0, <1>6, AtTyped, HungUpDoes DEF Drop, Typed, Shaped
  <1>7. ASSUME NEW c \in Channels, ScreenFails(c) PROVE Shaped'
    <2>1. /\ mapped' \subseteq Channels /\ digit' \in [Channels -> {"none", "yes", "no"}]
          /\ job' \in JobType
      BY <1>0, <1>7, AtTyped, UnregisteredDoes DEF ScreenFails
    <2>2. QED
      BY <1>0, <1>7, <2>1, IncidentTyped DEF ScreenFails, Typed, Shaped
  <1>8. ASSUME NEW c \in Channels, AsksDigit(c) PROVE Shaped'
    BY <1>0, <1>8, AtTyped DEF AsksDigit, Typed, Shaped
  <1>9. ASSUME NEW c \in Channels, Decides(c) PROVE Shaped'
    <2>1. act' \in ActType
      BY <1>9, ActTyped DEF Decides, Typed, Shaped
    <2>2. /\ mapped' \subseteq Channels /\ digit' \in [Channels -> {"none", "yes", "no"}]
          /\ job' \in JobType
      BY <1>0, <1>9, AtTyped, UnregisteredDoes DEF Decides, Typed, Shaped
    <2>3. QED
      BY <1>9, <2>1, <2>2 DEF Decides, Typed, Shaped
  <1>10. ASSUME NEW c \in Channels, Connects(c) PROVE Shaped'
    BY <1>0, <1>10, AtTyped DEF Connects, Typed, Shaped
  <1>11. ASSUME NEW c \in Channels, EndHandled(c) PROVE Shaped'
    <2>1. /\ mapped' \subseteq Channels /\ digit' \in [Channels -> {"none", "yes", "no"}]
          /\ job' \in JobType
      BY <1>0, <1>11, AtTyped, UnregisteredDoes DEF EndHandled, Typed, Shaped
    <2>2. call' \in CallType /\ clean' \in CleanType
      <3>1. CASE CleanupBegins(c)
        <4>1. call \in CallType /\ call.here \in BOOLEAN
          BY CallTyped DEF Typed, Shaped
        <4>2. call' \in CallType
          BY <3>1, <4>1 DEF CleanupBegins, CallType
        <4>3. clean' \in CleanType
          BY <3>1 DEF CleanupBegins, CleanType
        <4>4. QED
          BY <4>2, <4>3
      <3>2. CASE UNCHANGED <<call, clean>>
        BY <3>2 DEF Typed, Shaped
      <3>3. QED
        BY <1>11, <3>1, <3>2 DEF EndHandled
    <2>3. QED
      BY <1>11, <2>1, <2>2 DEF EndHandled, Typed, Shaped
  <1>12. ASSUME NEW k \in Handlers, NEW c \in Channels, AbortHangsUp(k, c) PROVE Shaped'
    BY <1>0, <1>12, AtTyped, HungUpDoes DEF AbortHangsUp, Typed, Shaped
  <1>13. ASSUME NEW k \in Handlers, NEW c \in Channels, AbortResumes(k, c) PROVE Shaped'
    <2>1. act' \in ActType /\ capture' \in BOOLEAN
      BY <1>13, ActTyped DEF AbortResumes, Typed, Shaped
    <2>2. /\ mapped' \subseteq Channels /\ digit' \in [Channels -> {"none", "yes", "no"}]
          /\ job' \in JobType
      BY <1>0, <1>13, AtTyped, UnregisteredDoes DEF AbortResumes, Typed, Shaped
    <2>3. QED
      BY <1>13, <2>1, <2>2 DEF AbortResumes, Typed, Shaped
  <1>14. ASSUME CancelBegins PROVE Shaped'
    BY <1>0, <1>14, ActTyped, CancelTyped, IncidentTyped, UnregisteredDoes DEF CancelBegins, Typed, Shaped
  <1>15. ASSUME CancelHangsUp PROVE Shaped'
    BY <1>0, <1>15, CancelTyped, HungUpDoes DEF CancelHangsUp, Typed, Shaped
  <1>16. ASSUME CleanupHangsUp PROVE Shaped'
    BY <1>0, <1>16, CallTyped, CleanTyped, HungUpDoes DEF CleanupHangsUp, Typed, Shaped
  <1>17. ASSUME CleanupRemoves PROVE Shaped'
    BY <1>0, <1>17, CallTyped, CleanTyped, UnregisteredDoes DEF CleanupRemoves, Typed, Shaped
  <1>18. QED
    BY <1>1, <1>2, <1>3, <1>4, <1>41, <1>5, <1>6, <1>7, <1>8, <1>9, <1>10, <1>11, <1>12, <1>13, <1>14, <1>15,
       <1>16, <1>17

\* A channel enters Stasis: the leg that rang, or another phone's that picked the call up.
Comes(c) == (c \in Dialled /\ Answers(c)) \/ \E i \in Dialled : c = PickupOf(i) /\ PickedUp(i)

LEMMA ComesRegisters ==
  ASSUME NEW c, Comes(c)
  PROVE  c \in Channels /\ Registers(c)
  BY Numbers DEF Comes, Answers, PickedUp

\* What a step notes: only faults and crossings are added, and legs that answered.
Notes ==
  /\ hist' \in HistType
  /\ hist.crossed => hist'.crossed
  /\ hist.alone => hist'.alone
  /\ hist.deaf => hist'.deaf
  /\ \/ hist'.by = hist.by
     \/ CallerHangsUp /\ hist'.by = 0
     \/ \E c \in Channels : EndHandled(c) /\ CleanupBegins(c) /\ hist'.by = c
  /\ \/ hist'.undoes = hist.undoes
     \/ CancelBegins /\ hist'.undoes \in Dialled /\ orig[hist'.undoes] # "no" /\ ~Foreign(hist'.undoes)
     \/ CancelClears /\ hist'.undoes = 0
  /\ \A c \in Channels : c \in Rose' => c \in Rose \/ (Comes(c) /\ call.stored /\ act.on)
  /\ \A c \in Channels : c \in Rose => c \in Rose'

\* A step that answers nothing, and ends nothing.
LEMMA OnlyNotes ==
  ASSUME hist \in HistType, NEW h \in HistType, NEW yes \in BOOLEAN, hist' = Crossing(h, yes),
         h.by = hist.by, h.up = hist.up, h.raced = hist.raced, h.crossed = hist.crossed,
         hist.alone => h.alone, hist.deaf => h.deaf,
         \/ h.undoes = hist.undoes
         \/ CancelClears /\ h.undoes = 0
  PROVE  Notes
  <1>1. /\ hist' \in HistType /\ hist'.crossed = (h.crossed \/ yes)
        /\ hist'.by = h.by /\ hist'.undoes = h.undoes
        /\ hist'.up = h.up /\ hist'.raced = h.raced
        /\ hist'.alone = h.alone /\ hist'.deaf = h.deaf
    BY CrossingIs
  <1>2. Rose' = Rose
    BY <1>1 DEF Rose
  <1>3. QED
    BY <1>1, <1>2 DEF Notes

LEMMA Noted ==
  ASSUME TypeOK, [Next]_vars
  PROVE  Notes
  <1>. USE DEF session, legs, tasks
  <1>0. hist \in HistType /\ act \in ActType /\ call \in CallType /\ act.on \in BOOLEAN
    BY Split DEF Typed, Shaped, ActType
  <1>1. ASSUME hist' = hist PROVE Notes
    BY <1>0, <1>1 DEF Notes, Rose
  <1>2. \A i : Foreign(i) \in BOOLEAN /\ (call.stored /\ Foreign(i)) \in BOOLEAN
    BY DEF Foreign
  <1>3. ASSUME NEW i, Crosses(i) PROVE Notes
    <2>. DEFINE yes == call.stored /\ Foreign(i)
    <2>1. hist' = Crossing(hist, yes) /\ yes \in BOOLEAN
      BY <1>3 DEF Crosses
    <2>. HIDE DEF yes
    <2>2. QED
      BY <1>0, <2>1, OnlyNotes
  <1>4. ASSUME NEW i, PendingCleared(i) PROVE Notes
    <2>1. CASE hist' = hist
      BY <1>1, <2>1
    <2>2. CASE hist' = Crossing([hist EXCEPT !.deaf = @ \/ act.saved = "shut"], Foreign(i))
      <3>. DEFINE yes == Foreign(i)
                  shut == act.saved = "shut"
                  h == [hist EXCEPT !.deaf = @ \/ shut]
      <3>1. yes \in BOOLEAN /\ shut \in BOOLEAN /\ hist' = Crossing(h, yes)
        BY <1>2, <2>2
      <3>. HIDE DEF yes, shut
      <3>2. /\ h \in HistType /\ h.by = hist.by /\ h.up = hist.up /\ h.raced = hist.raced
            /\ h.crossed = hist.crossed /\ h.alone = hist.alone /\ h.undoes = hist.undoes
            /\ hist.deaf => h.deaf
        BY <1>0, <3>1 DEF HistType
      <3>. HIDE DEF h
      <3>3. QED
        BY <1>0, <3>1, <3>2, OnlyNotes
    <2>3. QED
      BY <1>4, <2>1, <2>2 DEF PendingCleared
  <1>5. ASSUME NEW i \in Dialled, Ask(i) PROVE Notes
    BY <1>0, <1>5, OnlyNotes DEF Ask
  <1>6. ASSUME NEW i \in Dialled, Dial(i) PROVE Notes
    <2>. DEFINE yes == call.stored /\ Foreign(i)
                off == ~act.on
                h == [hist EXCEPT !.deaf = @ \/ off]
    <2>1. yes \in BOOLEAN /\ off \in BOOLEAN /\ hist' = Crossing(h, yes)
      BY <1>2, <1>6 DEF Dial
    <2>. HIDE DEF yes, off
    <2>2. /\ h \in HistType /\ h.by = hist.by /\ h.up = hist.up /\ h.raced = hist.raced
          /\ h.crossed = hist.crossed /\ h.alone = hist.alone /\ h.undoes = hist.undoes
          /\ hist.deaf => h.deaf
      BY <1>0, <2>1 DEF HistType
    <2>. HIDE DEF h
    <2>3. QED
      BY <1>0, <2>1, <2>2, OnlyNotes
  <1>7. ASSUME NEW c \in Channels, Joins(c) PROVE Notes
    <2>. DEFINE yes == Foreign(Of(c))
                off == chan'[c] # "bridged" \/ ~act.on
                h == [hist EXCEPT !.alone = @ \/ off]
    <2>1. yes \in BOOLEAN /\ off \in BOOLEAN /\ hist' = Crossing(h, yes)
      BY <1>2, <1>7 DEF Joins
    <2>. HIDE DEF yes, off
    <2>2. /\ h \in HistType /\ h.by = hist.by /\ h.up = hist.up /\ h.raced = hist.raced
          /\ h.crossed = hist.crossed /\ h.deaf = hist.deaf /\ h.undoes = hist.undoes
          /\ hist.alone => h.alone
      BY <1>0, <2>1 DEF HistType
    <2>. HIDE DEF h
    <2>3. QED
      BY <1>0, <2>1, <2>2, OnlyNotes
  <1>8. ASSUME NEW i \in Dialled, GuardClears(i) PROVE Notes
    BY <1>0, <1>2, <1>8, OnlyNotes DEF GuardClears
  <1>9. CASE CancelBegins
    <2>1. PICK i \in Dialled : orig[i] # "no" /\ ~Foreign(i) /\ hist' = [hist EXCEPT !.undoes = i]
      BY <1>9 DEF CancelBegins
    <2>2. /\ hist' \in HistType /\ hist'.undoes = i /\ hist'.by = hist.by /\ hist'.up = hist.up
          /\ hist'.raced = hist.raced /\ hist'.crossed = hist.crossed
          /\ hist'.alone = hist.alone /\ hist'.deaf = hist.deaf
      BY <1>0, <2>1 DEF HistType
    <2>3. QED
      BY <1>9, <2>1, <2>2 DEF Notes, Rose
  <1>10. CASE CancelClears
    <2>. DEFINE yes == Foreign(hist.undoes)
                h == [hist EXCEPT !.undoes = 0]
    <2>1. yes \in BOOLEAN /\ hist' = Crossing(h, yes)
      BY <1>2, <1>10 DEF CancelClears
    <2>. HIDE DEF yes
    <2>2. /\ h \in HistType /\ h.by = hist.by /\ h.up = hist.up /\ h.raced = hist.raced
          /\ h.crossed = hist.crossed /\ h.deaf = hist.deaf /\ h.alone = hist.alone /\ h.undoes = 0
      BY <1>0 DEF HistType
    <2>. HIDE DEF h
    <2>3. QED
      BY <1>0, <1>10, <2>1, <2>2, OnlyNotes
  <1>11. ASSUME NEW c \in {0} \cup Channels, CleanupBegins(c), c = 0 => CallerHangsUp, c # 0 => EndHandled(c)
         PROVE  Notes
    <2>1. hist' = [hist EXCEPT !.by = c]
      BY <1>11 DEF CleanupBegins
    <2>2. /\ hist' \in HistType /\ hist'.by = c /\ hist'.undoes = hist.undoes /\ hist'.up = hist.up
          /\ hist'.raced = hist.raced /\ hist'.crossed = hist.crossed
          /\ hist'.alone = hist.alone /\ hist'.deaf = hist.deaf
      BY <1>0, <2>1 DEF HistType
    <2>3. QED
      BY <1>11, <2>2 DEF Notes, Rose
  <1>12. CASE CallerHangsUp
    BY <1>11, <1>12 DEF CallerHangsUp
  <1>13. ASSUME NEW c \in Channels, EndHandled(c) PROVE Notes
    <2>1. hist' = hist \/ Crosses(Of(c)) \/ CleanupBegins(c)
      BY <1>13 DEF EndHandled
    <2>2. QED
      BY <1>1, <1>3, <1>11, <1>13, <2>1, Numbers
  <1>14. ASSUME NEW c \in Channels, Comes(c) PROVE Notes
    <2>1. Registers(c)
      BY <1>14, ComesRegisters
    <2>2. /\ hist' \in HistType
          /\ hist'.by = hist.by /\ hist'.undoes = hist.undoes
          /\ hist'.alone = hist.alone /\ hist'.deaf = hist.deaf
          /\ \A d \in Channels : d \in Rose' <=> d \in Rose \/ (d = c /\ call.stored /\ act.on)
          /\ hist.crossed => hist'.crossed
      BY <2>1, RegistersNotes
    <2>3. QED
      BY <1>14, <2>2 DEF Notes
  <1>15. ASSUME NEW i \in Dialled, Answers(i) \/ PickedUp(i) PROVE Notes
    <2>1. \E d \in Channels : Comes(d)
      BY <1>15, Numbers DEF Comes
    <2>2. QED
      BY <1>14, <2>1
  <1>16. ASSUME NEW i \in Dialled, Screened(i) \/ Originated(i) PROVE Notes
    BY <1>3, <1>16 DEF Screened, Originated
  <1>17. ASSUME NEW i \in Dialled, ScreeningFails(i) \/ DialFails(i) PROVE Notes
    BY <1>4, <1>17 DEF ScreeningFails, DialFails
  <1>18. ASSUME NEW c \in Channels, Decides(c) PROVE Notes
    BY <1>3, <1>18 DEF Decides
  <1>19. ASSUME NEW k \in Handlers, NEW c \in Channels, AbortResumes(k, c) PROVE Notes
    BY <1>1, <1>3, <1>19 DEF AbortResumes
  <1>20. ASSUME NEW i \in Dialled, Rings(i) \/ GuardWakes(i) \/ GuardHangsUp(i) \/ RingsOut(i) PROVE hist' = hist
    BY <1>20 DEF Rings, GuardWakes, GuardHangsUp, RingsOut
  <1>21. ASSUME NEW c \in Channels,
                \/ Presses(c) \/ LegEnds(c) \/ Drop(c) \/ ScreenFails(c) \/ AsksDigit(c)
                \/ Connects(c) \/ \E k \in Handlers : AbortHangsUp(k, c)
         PROVE  hist' = hist
    BY <1>21 DEF Presses, LegEnds, Drop, ScreenFails, AsksDigit, Connects, AbortHangsUp
  <1>22. ASSUME Silent \/ CancelHangsUp \/ Cleaning \/ UNCHANGED vars PROVE hist' = hist
    BY <1>22 DEF Silent, CancelHangsUp, Cleaning, CleanupStops, CleanupHangsUp, CleanupRemoves, vars
  <1>23. CASE \E c \in Channels : Presses(c) \/ LegEnds(c) \/ Handling(c)
    BY <1>1, <1>7, <1>13, <1>18, <1>19, <1>21, <1>23 DEF Handling
  <1>24. CASE \E i \in Dialled :
                Ask(i) \/ Originating(i) \/ Guarding(i) \/ Answers(i) \/ PickedUp(i) \/ RingsOut(i)
    BY <1>1, <1>5, <1>6, <1>8, <1>15, <1>16, <1>17, <1>20, <1>24 DEF Originating, Guarding
  <1>25. QED
    BY <1>1, <1>9, <1>10, <1>12, <1>22, <1>23, <1>24 DEF Next, Cancelling

LEMMA TypeKept == TypeOK /\ [Next]_vars => TypeOK'
  <1>. SUFFICES ASSUME TypeOK, Typed, [Next]_vars PROVE Typed'
    BY Split DEF TypeOK, Typed, Shaped, CallType, ActType, JobType, CancelType, CleanType, HistType
  <1>1. ASSUME NEW c \in Channels, Presses(c) \/ LegEnds(c) \/ Handling(c) PROVE Shaped'
    BY <1>1, PlainShaped, HandlersShaped DEF Handling
  <1>2. ASSUME NEW i \in Dialled,
               Ask(i) \/ Originating(i) \/ Guarding(i) \/ Answers(i) \/ PickedUp(i) \/ RingsOut(i)
        PROVE  Shaped'
    BY <1>2, PlainShaped, HandlersShaped DEF Originating, Guarding
  <1>3. CASE Silent \/ CancelBegins \/ Cancelling \/ CallerHangsUp \/ Cleaning
    BY <1>3, PlainShaped, HandlersShaped, Noted DEF Cancelling, Cleaning, Notes, Typed
  <1>4. CASE UNCHANGED vars
    BY <1>4 DEF Typed, Shaped, vars, session, legs, tasks
  <1>5. QED
    BY <1>1, <1>2, <1>3, <1>4, Noted DEF Next, Notes, Typed

LEMMA InitTyped == Init => TypeOK
  <1>1. ASSUME Init PROVE Typed
    <2>1. /\ call \in CallType /\ act \in ActType /\ hist \in HistType
          /\ cancel \in CancelType /\ clean \in CleanType
      BY <1>1, NoActionTyped DEF Init, CallType, HistType, CancelType, CleanType
    <2>2. job \in JobType
      BY <1>1 DEF Init, JobType, Jobs
    <2>3. left \in 0..Incidents /\ mapped \subseteq Channels /\ ends \subseteq Channels
      BY <1>1, BoundsAssumption DEF Init
    <2>4. QED
      BY <1>1, <2>1, <2>2, <2>3 DEF Init, Typed, Shaped
  <1>2. QED
    BY <1>1, Split

\* Whatever the tasks of the transfers and the call's cleanup do to the shared session, each
\* variable keeps its shape; what the agent pressed is stored as a decision, never as a digit.
THEOREM TypeCorrect == Spec => []TypeOK
  <1>1. QED
    BY InitTyped, TypeKept, PTL DEF Spec

-----------------------------------------------------------------------------
(* What a step does to a channel: its handlers, its leg, its mapping. *)

LEMMA Names ==
  /\ "ans" \in Handlers /\ "end" \in Handlers /\ \A k \in Handlers : k \in {"ans", "end"}
  /\ Jobs = {"idle", "drop", "screen", "asked", "connect", "join", "hang", "decline", "resume"}
  BY DEF Handlers, Jobs

LEMMA UnregisteredIs ==
  ASSUME NEW gone, NEW jobs \in JobType, Unregistered(gone, jobs)
  PROVE  /\ mapped' = mapped \ gone
         /\ \A k \in Handlers, c \in Channels :
              job'[k][c] = IF k = "ans" /\ c \in gone /\ jobs[k][c] = "asked" THEN "idle" ELSE jobs[k][c]
  BY DEF Unregistered, JobType

LEMMA HungUpIs ==
  ASSUME TypeOK, NEW c \in {0} \cup Channels, HungUp(c)
  PROVE  \A d \in Channels :
           \/ chan'[d] = chan[d] /\ (d \in ends' <=> d \in ends) /\ (d # c \/ chan[d] \in {"none", "gone"})
           \/ d = c /\ chan[d] \in {"ringing", "up", "bridged"} /\ chan'[d] = "gone" /\ d \in ends'
  <1>1. CASE c # 0 /\ chan[c] \in {"ringing", "up", "bridged"}
    BY <1>1, Numbers DEF HungUp, TypeOK
  <1>2. CASE ~(c # 0 /\ chan[c] \in {"ringing", "up", "bridged"})
    BY <1>2, Numbers DEF HungUp, TypeOK
  <1>3. QED
    BY <1>1, <1>2

\* No originating task goes back, and a transfer begins when the AI asks for it.
LEMMA Forward ==
  ASSUME TypeOK, [Next]_vars, NEW i \in Dialled
  PROVE  /\ orig[i] = "done" => orig'[i] = "done"
         /\ orig'[i] \in {"no", "screen", "hold", "dial"} => orig[i] \in {"no", "screen", "hold", "dial"}
         /\ orig'[i] = "rung" => orig[i] \in {"dial", "rung"}
         /\ orig[i] = "dial" => orig'[i] \in {"dial", "rung", "done"}
         /\ orig[i] = "no" /\ orig'[i] # "no" => Ask(i)
         /\ orig[i] # "no" => orig'[i] # "no"
  <1>. DEFINE F == /\ orig[i] = "done" => orig'[i] = "done"
                   /\ orig'[i] \in {"no", "screen", "hold", "dial"} => orig[i] \in {"no", "screen", "hold", "dial"}
                   /\ orig'[i] = "rung" => orig[i] \in {"dial", "rung"}
                   /\ orig[i] = "dial" => orig'[i] \in {"dial", "rung", "done"}
                   /\ orig[i] = "no" /\ orig'[i] # "no" => Ask(i)
                   /\ orig[i] # "no" => orig'[i] # "no"
  <1>. orig \in [Dialled -> {"no", "screen", "hold", "dial", "rung", "done"}]
    BY DEF TypeOK
  <1>1. CASE orig' = orig
    BY <1>1
  <1>2. ASSUME NEW e \in Dialled, Screened(e) \/ ScreeningFails(e) \/ Dial(e) \/ Rings(e) \/ DialFails(e) \/ Originated(e)
        PROVE  F
    BY <1>2 DEF Screened, ScreeningFails, Dial, Rings, DialFails, Originated
  <1>3. ASSUME NEW e \in Dialled, Ask(e) PROVE F
    <2>1. CASE e = i
      BY <1>3, <2>1 DEF Ask
    <2>2. CASE e # i
      BY <1>3, <2>2 DEF Ask
    <2>3. QED
      BY <2>1, <2>2
  <1>4. CASE CleanupStops
    BY <1>4 DEF CleanupStops
  <1>. HIDE DEF F
  <1>5. ASSUME NEW e \in Dialled, Guarding(e) \/ Answers(e) \/ PickedUp(e) \/ RingsOut(e) PROVE orig' = orig
    BY <1>5 DEF Guarding, GuardWakes, GuardHangsUp, GuardClears, Answers, PickedUp, RingsOut, tasks
  <1>6. ASSUME NEW d \in Channels, Presses(d) \/ LegEnds(d) \/ Handling(d) PROVE orig' = orig
    BY <1>6 DEF Handling, Presses, LegEnds, Drop, ScreenFails, AsksDigit, Decides, Connects, Joins, EndHandled,
                AbortHangsUp, AbortResumes, tasks
  <1>7. ASSUME Silent \/ CancelBegins \/ Cancelling \/ CallerHangsUp \/ CleanupHangsUp \/ CleanupRemoves
        PROVE  orig' = orig
    BY <1>7 DEF Silent, CancelBegins, Cancelling, CancelHangsUp, CancelClears, CallerHangsUp,
                CleanupHangsUp, CleanupRemoves, tasks
  <1>8. CASE UNCHANGED vars
    BY <1>1, <1>8 DEF vars, tasks
  <1>9. F
    <2>1. ASSUME NEW e \in Dialled, Ask(e) \/ Originating(e) \/ Guarding(e) \/ Answers(e) \/ PickedUp(e) \/ RingsOut(e)
          PROVE  F
      BY <1>1, <1>2, <1>3, <1>5, <2>1 DEF Originating, F
    <2>2. ASSUME NEW d \in Channels, Presses(d) \/ LegEnds(d) \/ Handling(d) PROVE F
      BY <1>1, <1>6, <2>2 DEF F
    <2>3. CASE Silent \/ CancelBegins \/ Cancelling \/ CallerHangsUp \/ Cleaning
      BY <1>1, <1>4, <1>7, <2>3 DEF Cleaning, F
    <2>4. QED
      BY <1>8, <2>1, <2>2, <2>3 DEF Next, F
  <1>10. QED
    BY <1>9 DEF F

\* What takes a leg's mapping away.
Unmaps(c) ==
  \/ (c \in Dialled /\ GuardWakes(c) /\ Due(c)) \/ (CancelBegins /\ act.leg = c)
  \/ ScreenFails(c) \/ Decides(c) \/ EndHandled(c) \/ CleanupRemoves
  \/ \E k \in Handlers : AbortResumes(k, c)
  \/ \E d \in Channels : Comes(d) /\ (d # c \/ ~call.stored \/ ~act.on)

\* What a handler of channel c may do in a step.
AnsMoves(c) ==
  \/ job'["ans"][c] = job["ans"][c]
  \/ Comes(c)
  \/ Drop(c) \/ ScreenFails(c) \/ AsksDigit(c) \/ Decides(c) \/ Connects(c) \/ Joins(c)
  \/ AbortHangsUp("ans", c) \/ AbortResumes("ans", c)
  \/ job["ans"][c] = "asked" /\ job'["ans"][c] = "idle" /\ c \notin mapped' /\ Unmaps(c)

EndMoves(c) ==
  \/ job'["end"][c] = job["end"][c]
  \/ /\ EndHandled(c) /\ job'["end"][c] = "decline"
     /\ c \in mapped /\ Live /\ act.on /\ act.leg \in {0, c} /\ ~act.answered
  \/ AbortHangsUp("end", c) \/ AbortResumes("end", c)

\* Every step moves a handler by one of its own actions, except that a handler waiting for
\* the digit is cancelled with its mapping.
LEMMA Moves ==
  ASSUME TypeOK, [Next]_vars, NEW c \in Channels
  PROVE  AnsMoves(c) /\ EndMoves(c)
  <1>. USE DEF session, legs, tasks
  <1>0. job \in JobType
    BY Split DEF Typed, Shaped
  <1>1. job' = job => AnsMoves(c) /\ EndMoves(c)
    BY DEF AnsMoves, EndMoves
  <1>2. ASSUME NEW gone, Unregistered(gone, job), c \in gone => Unmaps(c) PROVE AnsMoves(c) /\ EndMoves(c)
    <2>1. job'["end"][c] = job["end"][c]
      BY <1>0, <1>2, UnregisteredIs, Names
    <2>2. job'["ans"][c] = job["ans"][c] \/ (c \in gone /\ job["ans"][c] = "asked" /\ job'["ans"][c] = "idle")
      BY <1>0, <1>2, UnregisteredIs, Names
    <2>3. c \in gone => c \notin mapped'
      BY <1>0, <1>2, UnregisteredIs
    <2>4. QED
      BY <1>2, <2>1, <2>2, <2>3 DEF AnsMoves, EndMoves
  <1>3. ASSUME NEW k \in Handlers, NEW d \in Channels, NEW pc \in Jobs, job' = At(k, d, pc)
        PROVE  \A l \in Handlers : (l = k /\ d = c) \/ job'[l][c] = job[l][c]
    BY <1>3, AtTyped
  <1>4. ASSUME NEW k \in Handlers, NEW d \in Channels, NEW pc \in Jobs, Unregistered({d}, At(k, d, pc)), pc # "asked"
        PROVE  /\ \A l \in Handlers : d # c => job'[l][c] = job[l][c]
               /\ job'[k][d] = pc
               /\ k = "end" /\ d = c => \/ job'["ans"][c] = job["ans"][c]
                                        \/ job["ans"][c] = "asked" /\ job'["ans"][c] = "idle" /\ c \notin mapped'
               /\ k = "ans" => job'["end"][c] = job["end"][c]
    <2>1. /\ At(k, d, pc) \in JobType
          /\ \A l \in Handlers, e \in Channels : At(k, d, pc)[l][e] = IF l = k /\ e = d THEN pc ELSE job[l][e]
      BY <1>4, AtTyped
    <2>2. /\ mapped' = mapped \ {d}
          /\ \A l \in Handlers, e \in Channels :
               job'[l][e] = IF l = "ans" /\ e \in {d} /\ At(k, d, pc)[l][e] = "asked" THEN "idle" ELSE At(k, d, pc)[l][e]
      BY <1>4, <2>1, UnregisteredIs
    <2>3. \A l \in Handlers : d # c => job'[l][c] = job[l][c]
      BY <2>1, <2>2
    <2>4. job'[k][d] = pc
      BY <1>4, <2>1, <2>2
    <2>5. k = "end" /\ d = c => \/ job'["ans"][c] = job["ans"][c]
                                \/ job["ans"][c] = "asked" /\ job'["ans"][c] = "idle" /\ c \notin mapped'
      BY <2>1, <2>2, Names
    <2>6. k = "ans" => job'["end"][c] = job["end"][c]
      BY <2>1, <2>2, Names
    <2>7. QED
      BY <2>3, <2>4, <2>5, <2>6
  <1>5. ASSUME NEW d \in Channels, Drop(d) \/ AsksDigit(d) \/ Connects(d) \/ Joins(d) PROVE AnsMoves(c) /\ EndMoves(c)
    <2>1. PICK pc \in Jobs : job' = At("ans", d, pc)
      BY <1>5, Names DEF Drop, AsksDigit, Connects, Joins
    <2>2. job'["end"][c] = job["end"][c] /\ (d = c \/ job'["ans"][c] = job["ans"][c])
      BY <2>1, <1>3, Names
    <2>3. QED
      BY <1>5, <2>2 DEF AnsMoves, EndMoves
  <1>6. ASSUME NEW d \in Channels, ScreenFails(d) PROVE AnsMoves(c) /\ EndMoves(c)
    <2>1. Unregistered({d}, At("ans", d, "hang"))
      BY <1>6 DEF ScreenFails
    <2>2. job'["end"][c] = job["end"][c] /\ (d = c \/ job'["ans"][c] = job["ans"][c])
      BY <2>1, <1>4, Names
    <2>3. QED
      BY <1>6, <2>2 DEF AnsMoves, EndMoves
  <1>7. ASSUME NEW d \in Channels, Decides(d) PROVE AnsMoves(c) /\ EndMoves(c)
    <2>1. \/ \E pc \in Jobs : job' = At("ans", d, pc)
          \/ Unregistered({d}, At("ans", d, "decline"))
      BY <1>7, Names DEF Decides
    <2>2. job'["end"][c] = job["end"][c] /\ (d = c \/ job'["ans"][c] = job["ans"][c])
      BY <2>1, <1>3, <1>4, Names
    <2>3. QED
      BY <1>7, <2>2 DEF AnsMoves, EndMoves
  <1>8. ASSUME NEW k \in Handlers, NEW d \in Channels, AbortHangsUp(k, d) PROVE AnsMoves(c) /\ EndMoves(c)
    <2>1. job' = At(k, d, "resume")
      BY <1>8 DEF AbortHangsUp
    <2>2. \A l \in Handlers : (l = k /\ d = c) \/ job'[l][c] = job[l][c]
      BY <2>1, <1>3, Names
    <2>3. QED
      BY <1>8, <2>2, Names DEF AnsMoves, EndMoves
  <1>9. ASSUME NEW k \in Handlers, NEW d \in Channels, AbortResumes(k, d) PROVE AnsMoves(c) /\ EndMoves(c)
    <2>1. Unregistered({d}, At(k, d, "idle"))
      BY <1>9 DEF AbortResumes
    <2>2. CASE k = "ans"
      <3>1. job'["end"][c] = job["end"][c] /\ (d = c \/ job'["ans"][c] = job["ans"][c])
        BY <2>1, <2>2, <1>4, Names
      <3>2. QED
        BY <1>9, <2>2, <3>1 DEF AnsMoves, EndMoves
    <2>3. CASE k = "end"
      <3>1. /\ d = c \/ job'["end"][c] = job["end"][c]
            /\ \/ job'["ans"][c] = job["ans"][c]
               \/ job["ans"][c] = "asked" /\ job'["ans"][c] = "idle" /\ c \notin mapped'
        BY <2>1, <2>3, <1>4, Names
      <3>2. QED
        <4>1. job["ans"][c] # job'["ans"][c] => Unmaps(c)
          <5>1. d # c => job'["ans"][c] = job["ans"][c]
            BY <2>1, <2>3, <1>4, Names
          <5>2. QED
            BY <1>9, <5>1 DEF Unmaps
        <4>2. QED
          BY <1>9, <2>3, <3>1, <4>1 DEF AnsMoves, EndMoves
    <2>4. QED
      BY <2>2, <2>3, Names
  <1>10. ASSUME NEW d \in Channels, EndHandled(d) PROVE AnsMoves(c) /\ EndMoves(c)
    <2>1. CASE job' = job
      BY <1>1, <2>1
    <2>2. CASE Unregistered({d}, job)
      BY <1>2, <1>10, <2>2 DEF Unmaps
    <2>3. CASE /\ Unregistered({d}, At("end", d, "decline"))
               /\ d \in mapped /\ Live /\ act.on /\ act.leg \in {0, d} /\ ~act.answered
      <3>1. /\ d = c \/ job'["end"][c] = job["end"][c]
            /\ \/ job'["ans"][c] = job["ans"][c]
               \/ job["ans"][c] = "asked" /\ job'["ans"][c] = "idle" /\ c \notin mapped'
            /\ d = c => job'["end"][c] = "decline"
            /\ d # c => job'["ans"][c] = job["ans"][c]
        BY <2>3, <1>4, Names
      <3>2. d = c => Unmaps(c)
        BY <1>10 DEF Unmaps
      <3>3. QED
        BY <1>10, <2>3, <3>1, <3>2 DEF AnsMoves, EndMoves
    <2>4. QED
      BY <1>10, <2>1, <2>2, <2>3 DEF EndHandled, Live
  <1>11. ASSUME NEW d \in Channels, Comes(d) PROVE AnsMoves(c) /\ EndMoves(c)
    <2>1. Registers(d)
      BY <1>11, ComesRegisters
    <2>2. job'["end"][c] = job["end"][c]
      BY <2>1, RegistersIs
    <2>3. CASE d = c
      BY <1>11, <2>2, <2>3 DEF AnsMoves, EndMoves
    <2>4. CASE d # c
      <3>1. \/ job'["ans"][c] = job["ans"][c]
            \/ job["ans"][c] = "asked" /\ job'["ans"][c] = "idle"
        BY <2>1, <2>4, RegistersIs
      <3>2. mapped' = {d} \/ mapped' = {}
        BY <2>1, RegistersIs
      <3>3. QED
        BY <1>11, <2>2, <2>4, <3>1, <3>2 DEF AnsMoves, EndMoves, Unmaps
    <2>5. QED
      BY <2>3, <2>4
  <1>12. ASSUME NEW i \in Dialled, Answers(i) \/ PickedUp(i) PROVE AnsMoves(c) /\ EndMoves(c)
    <2>1. \E d \in Channels : Comes(d)
      BY <1>12, Numbers DEF Comes
    <2>2. QED
      BY <1>11, <2>1
  <1>13. ASSUME NEW i \in Dialled, GuardWakes(i) PROVE AnsMoves(c) /\ EndMoves(c)
    <2>1. Unregistered(IF Due(i) THEN {i} ELSE {}, job)
      BY <1>13 DEF GuardWakes
    <2>2. c \in (IF Due(i) THEN {i} ELSE {}) => Unmaps(c)
      BY <1>13 DEF Unmaps
    <2>3. QED
      BY <1>2, <2>1, <2>2
  <1>14. ASSUME NEW i \in Dialled, Ask(i) \/ Originating(i) \/ GuardHangsUp(i) \/ GuardClears(i) \/ RingsOut(i)
         PROVE  job' = job
    BY <1>14 DEF RingsOut, PendingCleared, Ask, Originating, Screened, ScreeningFails, Dial, Rings, DialFails,
       Originated, GuardHangsUp, GuardClears
  <1>15. ASSUME NEW d \in Channels, Presses(d) \/ LegEnds(d) PROVE job' = job
    BY <1>15 DEF Presses, LegEnds
  <1>16. CASE CancelBegins \/ CleanupRemoves
    <2>1. CASE CancelBegins
      <3>1. Unregistered({act.leg}, job)
        BY <2>1 DEF CancelBegins
      <3>2. c \in {act.leg} => Unmaps(c)
        BY <2>1 DEF Unmaps
      <3>3. QED
        BY <1>2, <3>1, <3>2
    <2>2. CASE CleanupRemoves
      <3>1. Unregistered(mapped, job) /\ Unmaps(c)
        BY <2>2 DEF CleanupRemoves, Unmaps
      <3>2. QED
        BY <1>2, <3>1
    <2>3. QED
      BY <1>16, <2>1, <2>2
  <1>17. ASSUME Silent \/ Cancelling \/ CallerHangsUp \/ CleanupStops \/ CleanupHangsUp \/ UNCHANGED vars
         PROVE  job' = job
    BY <1>17 DEF Silent, Cancelling, CancelHangsUp, CancelClears, CallerHangsUp, CleanupStops, CleanupHangsUp, vars
  <1>18. CASE \E d \in Channels : Presses(d) \/ LegEnds(d) \/ Handling(d)
    BY <1>1, <1>5, <1>6, <1>7, <1>8, <1>9, <1>10, <1>15, <1>18 DEF Handling
  <1>19. CASE \E i \in Dialled : Ask(i) \/ Originating(i) \/ Guarding(i) \/ Answers(i) \/ PickedUp(i) \/ RingsOut(i)
    BY <1>1, <1>12, <1>13, <1>14, <1>19 DEF Guarding
  <1>20. QED
    BY <1>1, <1>16, <1>17, <1>18, <1>19 DEF Next, Cleaning

\* Where a handler of an answer goes.
AnsSteps(c) ==
  LET was == job["ans"][c]
      is == job'["ans"][c] IN
    \/ is = was
    \/ Comes(c) /\ is = IF call.stored /\ act.on THEN "screen" ELSE "drop"
    \/ Drop(c) /\ was = "drop" /\ is = "idle"
    \/ ScreenFails(c) /\ was = "screen" /\ is = "hang"
    \/ AsksDigit(c) /\ was = "screen" /\ is = "asked"
    \/ /\ Decides(c) /\ was \in {"screen", "asked"}
       /\ \/ is = "idle" /\ ~call.stored
          \/ is = "connect" /\ mapped' = mapped
          \/ is = "decline"
    \/ Connects(c) /\ was = "connect" /\ is = "join"
    \/ Joins(c) /\ was = "join" /\ is = "idle"
    \/ AbortHangsUp("ans", c) /\ was \in {"hang", "decline"} /\ is = "resume"
    \/ AbortResumes("ans", c) /\ was = "resume" /\ is = "idle"
    \/ was = "asked" /\ is = "idle" /\ c \notin mapped' /\ Unmaps(c)

LEMMA DecidesTo ==
  ASSUME TypeOK, NEW c \in Channels, Decides(c)
  PROVE  /\ job["ans"][c] \in {"screen", "asked"}
         /\ \/ job'["ans"][c] = "idle" /\ ~call.stored
            \/ job'["ans"][c] = "connect" /\ mapped' = mapped
            \/ job'["ans"][c] = "decline"
  <1>1. ASSUME NEW pc \in Jobs
        PROVE  /\ At("ans", c, pc) \in JobType /\ At("ans", c, pc)["ans"][c] = pc
               /\ pc # "asked" /\ Unregistered({c}, At("ans", c, pc)) => job'["ans"][c] = pc
    <2>1. At("ans", c, pc) \in JobType /\ At("ans", c, pc)["ans"][c] = pc
      BY AtTyped, Names
    <2>2. ASSUME pc # "asked", Unregistered({c}, At("ans", c, pc)) PROVE job'["ans"][c] = pc
      BY <2>1, <2>2, UnregisteredIs, Names
    <2>3. QED
      BY <2>1, <2>2
  <1>2. \/ ~call.stored /\ job' = At("ans", c, "idle")
        \/ job' = At("ans", c, "connect") /\ mapped' = mapped
        \/ Unregistered({c}, At("ans", c, "decline"))
    BY DEF Decides
  <1>3. job["ans"][c] \in {"screen", "asked"}
    BY DEF Decides
  <1>4. QED
    BY <1>1, <1>2, <1>3, Names

LEMMA AnsGoes ==
  ASSUME TypeOK, [Next]_vars, NEW c \in Channels
  PROVE  AnsSteps(c)
  <1>1. AnsMoves(c)
    BY Moves
  <1>2. ASSUME NEW pc \in Jobs PROVE At("ans", c, pc) \in JobType /\ At("ans", c, pc)["ans"][c] = pc
    BY AtTyped, Names
  <1>3. ASSUME NEW pc \in Jobs, pc # "asked", Unregistered({c}, At("ans", c, pc)) PROVE job'["ans"][c] = pc
    BY <1>2, <1>3, UnregisteredIs, Names
  <1>4. CASE Comes(c)
    BY <1>4, ComesRegisters, RegistersIs DEF AnsSteps
  <1>5. CASE Drop(c) \/ AsksDigit(c) \/ Connects(c) \/ Joins(c) \/ AbortHangsUp("ans", c)
    BY <1>2, <1>5, Names DEF Drop, AsksDigit, Connects, Joins, AbortHangsUp, AnsSteps
  <1>6. CASE ScreenFails(c) \/ AbortResumes("ans", c)
    BY <1>3, <1>6, Names DEF ScreenFails, AbortResumes, AnsSteps
  <1>7. CASE Decides(c)
    BY <1>7, DecidesTo DEF AnsSteps
  <1>8. QED
    BY <1>1, <1>4, <1>5, <1>6, <1>7 DEF AnsMoves, AnsSteps

\* A leg rings once, comes up, is bridged and is gone; its end is handled once.
LegMoves(c) ==
  /\ \/ chan'[c] = chan[c]
     \/ c \in Dialled /\ orig[c] = "dial" /\ orig'[c] # "dial" /\ chan'[c] = "ringing"
     \/ Comes(c) /\ chan'[c] = "up"
     \/ chan[c] \in {"ringing", "up", "bridged"} /\ chan'[c] = "gone" /\ c \in ends'
     \/ Joins(c) /\ chan[c] = "up" /\ chan'[c] = "bridged"
     \/ CleanupStops /\ chan[c] = "bridged" /\ chan'[c] = "up"
  /\ c \in ends' => c \in ends \/ chan'[c] = "gone"
  /\ c \in ends => c \in ends' \/ EndHandled(c)

LEMMA ComesUp ==
  ASSUME TypeOK, NEW c, Comes(c)
  PROVE  /\ chan'[c] = "up"
         /\ \A d \in Channels : d # c =>
              \/ chan'[d] = chan[d] /\ (d \in ends' <=> d \in ends)
              \/ chan[d] = "ringing" /\ chan'[d] = "gone" /\ d \in ends' /\ d \in Dialled /\ c = PickupOf(d)
         /\ c \in ends' => c \in ends
         /\ c \in ends => c \in ends'
  <1>1. chan \in [Channels -> {"none", "ringing", "up", "bridged", "gone"}]
    BY DEF TypeOK
  <1>2. ASSUME c \in Dialled, Answers(c)
        PROVE  /\ chan'[c] = "up" /\ ends' = ends
               /\ \A d \in Channels : d # c => chan'[d] = chan[d]
    BY <1>1, <1>2, Numbers DEF Answers
  <1>3. ASSUME NEW i \in Dialled, c = PickupOf(i), PickedUp(i)
        PROVE  /\ chan'[c] = "up" /\ ends' = ends \cup {i} /\ i # c /\ chan[i] = "ringing" /\ chan'[i] = "gone"
               /\ \A d \in Channels : d # c /\ d # i => chan'[d] = chan[d]
    <2>1. i \in Channels /\ c \in Channels /\ i # c
      BY <1>3, Numbers
    <2>2. QED
      BY <1>1, <1>3, <2>1 DEF PickedUp
  <1>4. QED
    BY <1>2, <1>3 DEF Comes

LEMMA Legs ==
  ASSUME TypeOK, [Next]_vars, NEW c \in Channels
  PROVE  LegMoves(c)
  <1>. USE DEF session, legs, tasks
  <1>0. /\ chan \in [Channels -> {"none", "ringing", "up", "bridged", "gone"}]
        /\ cancel.leg \in {0} \cup Channels /\ clean.leg \in {0} \cup Channels
    BY Split, CancelTyped, CleanTyped DEF Typed, Shaped
  <1>1. chan' = chan /\ ends' = ends => LegMoves(c)
    BY DEF LegMoves
  <1>2. ASSUME NEW d \in {0} \cup Channels, HungUp(d) PROVE LegMoves(c)
    BY <1>2, HungUpIs DEF LegMoves
  <1>3. ASSUME NEW d \in Channels, Comes(d) PROVE LegMoves(c)
    <2>1. CASE d = c
      BY <1>3, <2>1, ComesUp DEF LegMoves
    <2>2. CASE d # c
      BY <1>3, <2>2, ComesUp DEF LegMoves
    <2>3. QED
      BY <2>1, <2>2
  <1>4. ASSUME NEW i \in Dialled, Answers(i) \/ PickedUp(i) PROVE LegMoves(c)
    <2>1. \E d \in Channels : Comes(d)
      BY <1>4, Numbers DEF Comes
    <2>2. QED
      BY <1>3, <2>1
  <1>5. ASSUME NEW i \in Dialled, Rings(i) PROVE LegMoves(c)
    <2>1. orig \in [Dialled -> {"no", "screen", "hold", "dial", "rung", "done"}]
      BY DEF TypeOK
    <2>2. orig'[i] = "rung"
      BY <1>5, <2>1 DEF Rings
    <2>3. QED
      BY <1>0, <1>5, <2>2, Numbers DEF Rings, LegMoves
  <1>6. ASSUME NEW d \in Channels, Joins(d) PROVE LegMoves(c)
    <2>1. chan' = chan \/ (chan[d] = "up" /\ chan' = [chan EXCEPT ![d] = "bridged"])
      BY <1>6 DEF Joins
    <2>2. ends' = ends
      BY <1>6 DEF Joins
    <2>3. QED
      BY <1>0, <1>6, <2>1, <2>2 DEF LegMoves
  <1>7. ASSUME NEW d \in Channels, EndHandled(d) PROVE LegMoves(c)
    <2>1. chan' = chan /\ ends' = ends \ {d}
      BY <1>7 DEF EndHandled
    <2>2. QED
      BY <1>7, <2>1 DEF LegMoves
  <1>8. CASE CleanupStops
    <2>1. PICK rung \in SUBSET {i \in Recorded : orig[i] = "dial"} :
             chan' = [d \in Channels |-> IF d \in rung THEN "ringing"
                                        ELSE IF chan[d] = "bridged" THEN "up" ELSE chan[d]]
      BY <1>8 DEF CleanupStops
    <2>2. c \in rung => c \in Dialled /\ orig[c] = "dial" /\ orig'[c] # "dial"
      BY <1>8, BoundsAssumption DEF Dialled, CleanupStops
    <2>3. ends' = ends
      BY <1>8 DEF CleanupStops
    <2>4. QED
      BY <1>8, <2>1, <2>2, <2>3 DEF LegMoves
  <1>9. ASSUME Silent \/ CancelBegins \/ CancelClears \/ CallerHangsUp \/ CleanupRemoves \/ UNCHANGED vars
        PROVE  chan' = chan /\ ends' = ends
    BY <1>9 DEF Silent, CancelBegins, CancelClears, CallerHangsUp, CleanupRemoves, vars, Unregistered
  <1>10. ASSUME NEW i \in Dialled, Ask(i) \/ Screened(i) \/ ScreeningFails(i) \/ Dial(i) \/ DialFails(i) \/ Originated(i)
                                  \/ GuardWakes(i) \/ GuardClears(i)
         PROVE  chan' = chan /\ ends' = ends
    BY <1>10 DEF Ask, Screened, ScreeningFails, Dial, DialFails, Originated, GuardWakes, GuardClears
  <1>11. ASSUME NEW d \in Channels,
                \/ Presses(d) \/ ScreenFails(d) \/ AsksDigit(d) \/ Decides(d) \/ Connects(d)
                \/ \E k \in Handlers : AbortResumes(k, d)
         PROVE  chan' = chan /\ ends' = ends
    BY <1>11 DEF Presses, ScreenFails, AsksDigit, Decides, Connects, AbortResumes
  <1>12. ASSUME NEW d \in Channels, LegEnds(d) \/ Drop(d) \/ \E k \in Handlers : AbortHangsUp(k, d)
         PROVE  LegMoves(c)
    BY <1>2, <1>12 DEF LegEnds, Drop, AbortHangsUp
  <1>13. ASSUME NEW i \in Dialled, GuardHangsUp(i) \/ RingsOut(i) PROVE LegMoves(c)
    BY <1>2, <1>13, Numbers DEF GuardHangsUp, RingsOut
  <1>14. CASE CancelHangsUp \/ CleanupHangsUp
    BY <1>0, <1>2, <1>14 DEF CancelHangsUp, CleanupHangsUp
  <1>15. CASE \E d \in Channels : Presses(d) \/ LegEnds(d) \/ Handling(d)
    BY <1>1, <1>6, <1>7, <1>11, <1>12, <1>15 DEF Handling
  <1>16. CASE \E i \in Dialled : Ask(i) \/ Originating(i) \/ Guarding(i) \/ Answers(i) \/ PickedUp(i) \/ RingsOut(i)
    BY <1>1, <1>4, <1>5, <1>10, <1>13, <1>16 DEF Originating, Guarding
  <1>17. QED
    BY <1>1, <1>8, <1>9, <1>14, <1>15, <1>16 DEF Next, Cleaning, Cancelling

\* A leg is mapped when it registers or its originate request returns.
MapMoves(c) ==
  /\ c \in mapped' => c \in mapped \/ (Comes(c) /\ call.stored /\ act.on) \/ (c \in Dialled /\ Originated(c))
  /\ c \in mapped => c \in mapped' \/ Unmaps(c)

LEMMA Mappings ==
  ASSUME TypeOK, [Next]_vars, NEW c \in Channels
  PROVE  MapMoves(c)
  <1>. USE DEF session, legs, tasks
  <1>1. mapped' = mapped => MapMoves(c)
    BY DEF MapMoves
  <1>2. ASSUME NEW gone, NEW jobs, Unregistered(gone, jobs), c \in gone => Unmaps(c) PROVE MapMoves(c)
    BY <1>2 DEF Unregistered, MapMoves
  <1>3. ASSUME NEW d \in Channels, Comes(d) PROVE MapMoves(c)
    <2>1. Registers(d)
      BY <1>3, ComesRegisters
    <2>2. mapped' = IF call.stored /\ act.on THEN {d} ELSE {}
      BY <2>1, RegistersIs
    <2>3. c \in mapped' => Comes(c) /\ call.stored /\ act.on
      BY <1>3, <2>2
    <2>4. c \notin mapped' => d # c \/ ~call.stored \/ ~act.on
      BY <2>2
    <2>5. QED
      BY <1>3, <2>3, <2>4 DEF MapMoves, Unmaps
  <1>4. ASSUME NEW i \in Dialled, Answers(i) \/ PickedUp(i) PROVE MapMoves(c)
    <2>1. \E d \in Channels : Comes(d)
      BY <1>4, Numbers DEF Comes
    <2>2. QED
      BY <1>3, <2>1
  <1>5. ASSUME NEW i \in Dialled, Originated(i) PROVE MapMoves(c)
    <2>1. mapped' = mapped \cup {i}
      BY <1>5 DEF Originated
    <2>2. QED
      BY <1>5, <2>1 DEF MapMoves
  <1>6. ASSUME NEW i \in Dialled, GuardWakes(i) PROVE MapMoves(c)
    <2>1. Unregistered(IF Due(i) THEN {i} ELSE {}, job)
      BY <1>6 DEF GuardWakes
    <2>2. c \in (IF Due(i) THEN {i} ELSE {}) => Unmaps(c)
      BY <1>6 DEF Unmaps
    <2>3. QED
      BY <1>2, <2>1, <2>2
  <1>7. CASE CancelBegins
    <2>1. Unregistered({act.leg}, job)
      BY <1>7 DEF CancelBegins
    <2>2. c \in {act.leg} => Unmaps(c)
      BY <1>7 DEF Unmaps
    <2>3. QED
      BY <1>2, <2>1, <2>2
  <1>8. CASE CleanupRemoves
    BY <1>2, <1>8 DEF CleanupRemoves, Unmaps
  <1>9. ASSUME NEW d \in Channels, ScreenFails(d) PROVE MapMoves(c)
    <2>1. Unregistered({d}, At("ans", d, "hang"))
      BY <1>9 DEF ScreenFails
    <2>2. c \in {d} => Unmaps(c)
      BY <1>9 DEF Unmaps
    <2>3. QED
      BY <1>2, <2>1, <2>2
  <1>10. ASSUME NEW d \in Channels, Decides(d) PROVE MapMoves(c)
    <2>1. mapped' = mapped \/ Unregistered({d}, At("ans", d, "decline"))
      BY <1>10 DEF Decides
    <2>2. c \in {d} => Unmaps(c)
      BY <1>10 DEF Unmaps
    <2>3. QED
      BY <1>1, <1>2, <2>1, <2>2
  <1>11. ASSUME NEW k \in Handlers, NEW d \in Channels, AbortResumes(k, d) PROVE MapMoves(c)
    <2>1. Unregistered({d}, At(k, d, "idle"))
      BY <1>11 DEF AbortResumes
    <2>2. c \in {d} => Unmaps(c)
      BY <1>11 DEF Unmaps
    <2>3. QED
      BY <1>2, <2>1, <2>2
  <1>12. ASSUME NEW d \in Channels, EndHandled(d) PROVE MapMoves(c)
    <2>1. mapped' = mapped \/ \E jobs : Unregistered({d}, jobs)
      BY <1>12 DEF EndHandled
    <2>2. c \in {d} => Unmaps(c)
      BY <1>12 DEF Unmaps
    <2>3. QED
      BY <1>1, <1>2, <2>1, <2>2
  <1>13. ASSUME Silent \/ Cancelling \/ CallerHangsUp \/ CleanupStops \/ CleanupHangsUp \/ UNCHANGED vars
         PROVE  mapped' = mapped
    BY <1>13 DEF Silent, Cancelling, CancelHangsUp, CancelClears, CallerHangsUp, CleanupStops, CleanupHangsUp, vars
  <1>14. ASSUME NEW i \in Dialled, Ask(i) \/ Screened(i) \/ ScreeningFails(i) \/ Dial(i) \/ Rings(i) \/ DialFails(i)
                                  \/ GuardHangsUp(i) \/ GuardClears(i) \/ RingsOut(i)
         PROVE  mapped' = mapped
    BY <1>14 DEF Ask, Screened, ScreeningFails, Dial, Rings, DialFails, GuardHangsUp, GuardClears, RingsOut
  <1>15. ASSUME NEW d \in Channels,
                \/ Presses(d) \/ LegEnds(d) \/ Drop(d) \/ AsksDigit(d) \/ Connects(d) \/ Joins(d)
                \/ \E k \in Handlers : AbortHangsUp(k, d)
         PROVE  mapped' = mapped
    BY <1>15 DEF Presses, LegEnds, Drop, AsksDigit, Connects, Joins, AbortHangsUp
  <1>16. CASE \E d \in Channels : Presses(d) \/ LegEnds(d) \/ Handling(d)
    BY <1>1, <1>9, <1>10, <1>11, <1>12, <1>15, <1>16 DEF Handling
  <1>17. CASE \E i \in Dialled : Ask(i) \/ Originating(i) \/ Guarding(i) \/ Answers(i) \/ PickedUp(i) \/ RingsOut(i)
    BY <1>1, <1>4, <1>5, <1>6, <1>14, <1>17 DEF Originating, Guarding
  <1>18. QED
    BY <1>1, <1>7, <1>8, <1>13, <1>16, <1>17 DEF Next, Cleaning

\* Who writes the action, and who the capture.
ActMoves ==
  \/ act' = act
  \/ CancelClears
  \/ \E i \in Dialled : Ask(i) \/ ScreeningFails(i) \/ Dial(i) \/ DialFails(i) \/ Originated(i) \/ GuardClears(i)
  \/ \E c \in Channels : Comes(c) \/ Decides(c) \/ Joins(c) \/ \E k \in Handlers : AbortResumes(k, c)

CaptureMoves ==
  \/ capture' = capture /\ (speaking' = speaking \/ \E i \in Dialled : Ask(i))
  \/ Silent \/ CancelClears
  \/ \E i \in Dialled : Ask(i) \/ ScreeningFails(i) \/ Dial(i) \/ DialFails(i) \/ GuardClears(i)
  \/ \E k \in Handlers, c \in Channels : AbortHangsUp(k, c) \/ AbortResumes(k, c)

LEMMA Writers ==
  ASSUME TypeOK, [Next]_vars
  PROVE  ActMoves /\ CaptureMoves
  <1>. USE DEF session, legs, tasks
  <1>1. ASSUME \E i \in Dialled : Answers(i) \/ PickedUp(i) PROVE ActMoves /\ CaptureMoves
    <2>1. \E d \in Channels : Comes(d)
      BY <1>1, Numbers DEF Comes
    <2>2. capture' = capture /\ speaking' = speaking
      BY <1>1 DEF Answers, PickedUp
    <2>3. QED
      BY <2>1, <2>2 DEF ActMoves, CaptureMoves
  <1>2. ASSUME NEW i \in Dialled, Ask(i) \/ ScreeningFails(i) \/ Dial(i) \/ DialFails(i) \/ GuardClears(i)
        PROVE  ActMoves /\ CaptureMoves
    BY <1>2 DEF ActMoves, CaptureMoves
  <1>3. ASSUME NEW i \in Dialled, Originated(i) PROVE ActMoves /\ CaptureMoves
    BY <1>3 DEF Originated, ActMoves, CaptureMoves
  <1>4. ASSUME NEW i \in Dialled, Screened(i) \/ Rings(i) \/ GuardWakes(i) \/ GuardHangsUp(i) \/ RingsOut(i)
        PROVE  act' = act /\ capture' = capture /\ speaking' = speaking
    BY <1>4 DEF Screened, Rings, GuardWakes, GuardHangsUp, RingsOut
  <1>5. ASSUME NEW c \in Channels, Decides(c) \/ Joins(c) PROVE ActMoves /\ CaptureMoves
    BY <1>5 DEF Decides, Joins, ActMoves, CaptureMoves
  <1>6. ASSUME NEW k \in Handlers, NEW c \in Channels, AbortResumes(k, c) PROVE ActMoves /\ CaptureMoves
    BY <1>6 DEF ActMoves, CaptureMoves
  <1>7. ASSUME NEW k \in Handlers, NEW c \in Channels, AbortHangsUp(k, c) PROVE ActMoves /\ CaptureMoves
    BY <1>7 DEF AbortHangsUp, ActMoves, CaptureMoves
  <1>8. ASSUME NEW c \in Channels,
               Presses(c) \/ LegEnds(c) \/ Drop(c) \/ ScreenFails(c) \/ AsksDigit(c) \/ Connects(c) \/ EndHandled(c)
        PROVE  act' = act /\ capture' = capture /\ speaking' = speaking
    BY <1>8 DEF Presses, LegEnds, Drop, ScreenFails, AsksDigit, Connects, EndHandled
  <1>9. CASE Silent
    BY <1>9 DEF Silent, ActMoves, CaptureMoves
  <1>10. CASE CancelClears
    BY <1>10 DEF ActMoves, CaptureMoves
  <1>11. ASSUME CancelBegins \/ CancelHangsUp \/ CallerHangsUp \/ Cleaning \/ UNCHANGED vars
         PROVE  act' = act /\ capture' = capture /\ speaking' = speaking
    BY <1>11 DEF CancelBegins, CancelHangsUp, CallerHangsUp, Cleaning, CleanupStops, CleanupHangsUp,
       CleanupRemoves, vars
  <1>12. act' = act /\ capture' = capture /\ speaking' = speaking => ActMoves /\ CaptureMoves
    BY DEF ActMoves, CaptureMoves
  <1>13. CASE \E c \in Channels : Presses(c) \/ LegEnds(c) \/ Handling(c)
    BY <1>5, <1>6, <1>7, <1>8, <1>12, <1>13 DEF Handling
  <1>14. CASE \E i \in Dialled : Ask(i) \/ Originating(i) \/ Guarding(i) \/ Answers(i) \/ PickedUp(i) \/ RingsOut(i)
    BY <1>1, <1>2, <1>3, <1>4, <1>12, <1>14 DEF Originating, Guarding
  <1>15. QED
    BY <1>9, <1>10, <1>11, <1>12, <1>13, <1>14 DEF Next, Cancelling

GuardMoves(i) ==
  \/ guard'[i] = guard[i]
  \/ Originated(i) /\ guard'[i] = "sleep"
  \/ GuardWakes(i) \/ GuardHangsUp(i) \/ GuardClears(i)
  \/ CleanupStops /\ guard'[i] = (IF guard[i] = "no" THEN "no" ELSE "done")

CancelMoves == cancel' = cancel \/ CancelBegins \/ CancelHangsUp \/ CancelClears

CallMoves ==
  \/ call' = call /\ clean' = clean
  \/ call' = [call EXCEPT !.stored = TRUE] /\ clean' = clean
  \/ Live /\ \E by \in {0} \cup Channels : CleanupBegins(by)
  \/ Cleaning

LEMMA Undoing ==
  ASSUME TypeOK, [Next]_vars
  PROVE  (\A i \in Dialled : GuardMoves(i)) /\ CancelMoves
  <1>. USE DEF session, legs, tasks
  <1>0. guard \in [Dialled -> {"no", "sleep", "hang", "clear", "done"}]
    BY DEF TypeOK
  <1>1. guard' = guard /\ cancel' = cancel => (\A i \in Dialled : GuardMoves(i)) /\ CancelMoves
    BY DEF GuardMoves, CancelMoves
  <1>2. ASSUME NEW i \in Dialled, Originated(i) \/ GuardWakes(i) \/ GuardHangsUp(i) \/ GuardClears(i)
        PROVE  (\A j \in Dialled : GuardMoves(j)) /\ CancelMoves
    <2>1. PICK v : guard' = [guard EXCEPT ![i] = v] /\ (Originated(i) => v = "sleep")
      BY <1>2 DEF Originated, GuardWakes, GuardHangsUp, GuardClears
    <2>2. cancel' = cancel
      BY <1>2 DEF Originated, GuardWakes, GuardHangsUp, GuardClears
    <2>3. \A j \in Dialled : j # i => guard'[j] = guard[j]
      BY <1>0, <2>1
    <2>4. Originated(i) => guard'[i] = "sleep"
      BY <1>0, <2>1
    <2>5. QED
      BY <1>2, <2>2, <2>3, <2>4 DEF GuardMoves, CancelMoves
  <1>3. CASE CleanupStops
    BY <1>3 DEF CleanupStops, GuardMoves, CancelMoves
  <1>4. CASE CancelBegins \/ Cancelling
    BY <1>4 DEF CancelBegins, Cancelling, CancelHangsUp, CancelClears, GuardMoves, CancelMoves
  <1>5. ASSUME Silent \/ CallerHangsUp \/ CleanupHangsUp \/ CleanupRemoves \/ UNCHANGED vars
        PROVE  guard' = guard /\ cancel' = cancel
    BY <1>5 DEF Silent, CallerHangsUp, CleanupHangsUp, CleanupRemoves, vars
  <1>6. ASSUME NEW i \in Dialled, Ask(i) \/ Screened(i) \/ ScreeningFails(i) \/ Dial(i) \/ Rings(i) \/ DialFails(i)
                                  \/ Answers(i) \/ PickedUp(i) \/ RingsOut(i)
        PROVE  guard' = guard /\ cancel' = cancel
    BY <1>6 DEF Ask, Screened, ScreeningFails, Dial, Rings, DialFails, Answers, PickedUp, RingsOut
  <1>7. ASSUME NEW c \in Channels, Presses(c) \/ LegEnds(c) \/ Handling(c)
        PROVE  guard' = guard /\ cancel' = cancel
    BY <1>7 DEF Presses, LegEnds, Handling, Drop, ScreenFails, AsksDigit, Decides, Connects, Joins, EndHandled,
                AbortHangsUp, AbortResumes
  <1>8. CASE \E i \in Dialled : Ask(i) \/ Originating(i) \/ Guarding(i) \/ Answers(i) \/ PickedUp(i) \/ RingsOut(i)
    BY <1>1, <1>2, <1>6, <1>8 DEF Originating, Guarding
  <1>9. QED
    BY <1>1, <1>3, <1>4, <1>5, <1>7, <1>8 DEF Next, Cleaning

LEMMA Calls ==
  ASSUME TypeOK, [Next]_vars
  PROVE  CallMoves
  <1>. USE DEF session, legs, tasks
  <1>1. CASE CallerHangsUp
    BY <1>1 DEF CallerHangsUp, CallMoves, Live
  <1>2. ASSUME NEW c \in Channels, EndHandled(c) PROVE CallMoves
    <2>1. (Live /\ CleanupBegins(c)) \/ (call' = call /\ clean' = clean)
      BY <1>2 DEF EndHandled, Live
    <2>2. QED
      BY <2>1 DEF CallMoves
  <1>3. ASSUME CancelClears \/ (\E i \in Dialled : GuardClears(i)) \/ \E c \in Channels : Joins(c)
        PROVE  CallMoves
    BY <1>3 DEF CancelClears, GuardClears, Joins, Saved, CallMoves
  <1>4. ASSUME Silent \/ CancelBegins \/ CancelHangsUp \/ UNCHANGED vars
        PROVE  call' = call /\ clean' = clean
    BY <1>4 DEF Silent, CancelBegins, CancelHangsUp, vars
  <1>5. ASSUME NEW i \in Dialled, Ask(i) \/ Originating(i) \/ GuardWakes(i) \/ GuardHangsUp(i)
                                  \/ Answers(i) \/ PickedUp(i) \/ RingsOut(i)
        PROVE  call' = call /\ clean' = clean
    BY <1>5 DEF Ask, Originating, Screened, ScreeningFails, Dial, Rings, DialFails, Originated, GuardWakes,
       GuardHangsUp, Answers, PickedUp, RingsOut
  <1>6. ASSUME NEW c \in Channels,
               \/ Presses(c) \/ LegEnds(c) \/ Drop(c) \/ ScreenFails(c) \/ AsksDigit(c) \/ Decides(c) \/ Connects(c)
               \/ \E k \in Handlers : AbortHangsUp(k, c) \/ AbortResumes(k, c)
        PROVE  call' = call /\ clean' = clean
    BY <1>6 DEF Presses, LegEnds, Drop, ScreenFails, AsksDigit, Decides, Connects, AbortHangsUp, AbortResumes
  <1>7. call' = call /\ clean' = clean => CallMoves
    BY DEF CallMoves
  <1>8. CASE \E c \in Channels : Presses(c) \/ LegEnds(c) \/ Handling(c)
    BY <1>2, <1>3, <1>6, <1>7, <1>8 DEF Handling
  <1>9. CASE \E i \in Dialled : Ask(i) \/ Originating(i) \/ Guarding(i) \/ Answers(i) \/ PickedUp(i) \/ RingsOut(i)
    BY <1>3, <1>5, <1>7, <1>9 DEF Guarding
  <1>10. Cleaning => CallMoves
    BY DEF CallMoves
  <1>11. QED
    BY <1>1, <1>3, <1>4, <1>7, <1>8, <1>9, <1>10 DEF Next, Cancelling

-----------------------------------------------------------------------------
(* A call that is gone. *)

\* The cleanup runs while the call is ending and removes the session last; a leg mapped after
\* that has a sleeping guard, which finds no session and unregisters it.
Closing ==
  /\ call.ending <=> clean.pc # "no"
  /\ ~call.stored => /\ clean.pc = "done"
                     /\ \A c \in mapped : c \in Dialled /\ guard[c] = "sleep"

LEMMA ClosingKept ==
  ASSUME TypeOK, Closing, [Next]_vars
  PROVE  Closing'
  <1>0. call \in CallType /\ clean \in CleanType /\ mapped \subseteq Channels
    BY Split DEF Typed, Shaped
  <1>1. (call.ending <=> clean.pc # "no") /\ (~call.stored => clean.pc = "done")
    BY DEF Closing
  <1>2. /\ call'.ending <=> clean'.pc # "no"
        /\ ~call'.stored => clean'.pc = "done"
        /\ ~call'.stored => ~call.stored \/ CleanupRemoves
    <2>1. CASE call' = call /\ clean' = clean
      BY <1>1, <2>1
    <2>2. CASE call' = [call EXCEPT !.stored = TRUE] /\ clean' = clean
      BY <1>0, <1>1, <2>2 DEF CallType
    <2>3. CASE Live /\ \E by \in {0} \cup Channels : CleanupBegins(by)
      BY <1>0, <1>1, <2>3 DEF CallType, CleanupBegins, Live
    <2>4. CASE CleanupStops
      BY <1>0, <1>1, <2>4 DEF CleanupStops, session
    <2>5. CASE CleanupHangsUp
      BY <1>0, <1>1, <2>5 DEF CleanupHangsUp, CallType, CleanType
    <2>6. CASE CleanupRemoves
      BY <1>0, <1>1, <2>6 DEF CleanupRemoves, CallType, CleanType
    <2>7. QED
      BY <2>1, <2>2, <2>3, <2>4, <2>5, <2>6, Calls DEF CallMoves, Cleaning
  <1>3. CASE CleanupRemoves
    <2>1. mapped' = {}
      BY <1>3 DEF CleanupRemoves, Unregistered
    <2>2. QED
      BY <1>2, <2>1 DEF Closing
  <1>4. CASE ~CleanupRemoves
    <2>1. ASSUME ~call'.stored, NEW c \in mapped' PROVE c \in Dialled /\ guard'[c] = "sleep"
      <3>1. ~call.stored /\ clean.pc = "done"
        BY <1>1, <1>2, <1>4, <2>1
      <3>2. c \in Channels
        BY <2>1, TypeKept DEF TypeOK
      <3>3. c \in mapped \/ (c \in Dialled /\ Originated(c))
        BY <2>1, <3>1, <3>2, Mappings DEF MapMoves
      <3>4. CASE c \in Dialled /\ Originated(c)
        <4>1. guard \in [Dialled -> {"no", "sleep", "hang", "clear", "done"}]
          BY DEF TypeOK
        <4>2. QED
          BY <3>4, <4>1 DEF Originated
      <3>5. CASE c \in mapped
        <4>1. c \in Dialled /\ guard[c] = "sleep"
          BY <3>1, <3>5 DEF Closing
        <4>2. ~GuardWakes(c)
          BY <2>1, <3>1, <3>5, <4>1 DEF GuardWakes, Unregistered, Due
        <4>3. ~CleanupStops /\ ~GuardHangsUp(c) /\ ~GuardClears(c)
          BY <3>1, <4>1 DEF CleanupStops, GuardHangsUp, GuardClears
        <4>4. GuardMoves(c)
          BY <4>1, Undoing
        <4>5. QED
          BY <4>1, <4>2, <4>3, <4>4 DEF GuardMoves
      <3>6. QED
        BY <3>3, <3>4, <3>5
    <2>2. QED
      BY <1>2, <2>1 DEF Closing
  <1>5. QED
    BY <1>3, <1>4

\* A call that is gone leaves no leg mapped to it (_cleanup_call and the timeout guard): whatever
\* was dialled or answered during or after the cleanup, for any number of transfers, overlapping
\* or not, and any faults.
THEOREM NoMappingHolds == Spec => []NoMappingLeft
  <1>1. Init => TypeOK /\ Closing
    BY InitTyped DEF Init, Closing
  <1>2. TypeOK /\ Closing /\ [Next]_vars => (TypeOK /\ Closing)'
    BY TypeKept, ClosingKept
  <1>3. TypeOK /\ Closing => NoMappingLeft
    BY DEF TypeOK, Closing, NoMappingLeft, Idle, Due
  <1>4. QED
    BY <1>1, <1>2, <1>3, PTL DEF Spec

-----------------------------------------------------------------------------
(* Transfers follow each other, and may overlap. *)

\* The last transfer that was asked for: the action, while there is one, is its.
Newest(i) == orig[i] # "no" /\ \A j \in Dialled : j > i => orig[j] = "no"

Ordered == \A i, j \in Dialled : j < i /\ orig[i] # "no" => orig[j] # "no"

\* The transfer that cancel_transfer undoes is one that was asked for.
Undoes ==
  /\ hist.undoes = 0 <=> cancel.pc = "idle"
  /\ hist.undoes # 0 => orig[hist.undoes] # "no"

\* A leg that has not answered has no handler; a leg's end comes after its life, and its handler
\* after that of the answer.
Lives ==
  \A c \in Channels :
    /\ c \in ends => chan[c] = "gone"
    /\ chan[c] \in {"none", "ringing"} => c \notin Rose /\ \A k \in Handlers : job[k][c] = "idle"
    /\ job["end"][c] # "idle" => chan[c] = "gone" /\ job["ans"][c] = "idle"
    /\ job["ans"][c] = "resume" => chan[c] = "gone"

\* Nothing exists of a leg before its request, no guard before its return, and the leg that rang
\* is over when another phone has picked up.
Starts ==
  \A i \in Dialled :
    /\ orig[i] \in {"no", "screen", "hold", "dial"} => chan[i] = "none"
    /\ orig[i] # "done" => chan[PickupOf(i)] = "none" /\ guard[i] = "no"
    /\ chan[PickupOf(i)] # "none" =>
         chan[i] = "gone" /\ i \notin mapped /\ i \notin Rose /\ \A k \in Handlers : job[k][i] = "idle"

\* An action names a leg of the newest transfer, and an answered one a leg that answered; in a live
\* call it is that of the leg of that transfer that answered, whoever handles it.
Named ==
  /\ act.answered => act.on /\ act.leg \in Rose
  /\ \A c \in Channels : act.on /\ act.leg = c => Newest(Of(c))
  /\ Live =>
       /\ act.on => \A c \in Channels :
            Newest(Of(c)) /\ (job["ans"][c] # "idle" \/ chan[c] \in {"up", "bridged"}) =>
              act.answered /\ act.leg = c
       /\ act.decided # "none" => act.answered

\* A leg that is screened or connected has answered.
Known == \A c \in Channels : job["ans"][c] \in {"screen", "asked", "connect", "join"} => c \in Rose

\* The call is ended by its caller or by a leg that answered.
Ended == hist.by \in {0} \cup Rose
LEMMA CrossedBy ==
  ASSUME NEW h \in HistType, NEW yes \in BOOLEAN, hist' = Crossing(h, yes), ~hist'.crossed
  PROVE  ~yes
  BY CrossingIs

\* Whoever writes the action, or unmaps another's leg, without noting a crossing wrote its own.
LEMMA Mannered ==
  ASSUME TypeOK, ~hist'.crossed
  PROVE  /\ \A i \in Dialled : Ask(i) => ~act.on
         /\ \A i \in Dialled : ScreeningFails(i) \/ Dial(i) \/ DialFails(i) \/ Originated(i) =>
              ~(call.stored /\ Foreign(i))
         /\ \A i \in Dialled : GuardClears(i) => ~Foreign(i)
         /\ CancelClears => ~Foreign(hist.undoes)
         /\ \A c \in Channels : Comes(c) =>
              ~(call.stored /\ Foreign(Of(c))) /\ \A d \in mapped \ {c} : Of(d) = Of(c)
         /\ \A c \in Channels :
              EndHandled(c) /\ c \in mapped /\ Live /\ act.on /\ act.leg \in {0, c} /\ ~act.answered => ~Foreign(Of(c))
         /\ \A c \in Channels, k \in Handlers : AbortResumes(k, c) /\ Live => ~Foreign(Of(c))
         /\ \A c \in Channels : Decides(c) /\ call.stored => ~Foreign(Of(c))
         /\ \A c \in Channels : Joins(c) => ~Foreign(Of(c))
  <1>0. hist \in HistType /\ act.on \in BOOLEAN /\ \A i : Foreign(i) \in BOOLEAN
    BY Split DEF Typed, Shaped, ActType, Foreign
  <1>1. ASSUME NEW i, Crosses(i), call.stored PROVE ~Foreign(i)
    <2>. DEFINE yes == call.stored /\ Foreign(i)
    <2>1. hist' = Crossing(hist, yes) /\ yes \in BOOLEAN
      BY <1>1 DEF Crosses
    <2>2. ~yes
      <3>. HIDE DEF yes
      <3>1. QED
        BY <1>0, <2>1, CrossedBy
    <2>3. QED
      BY <1>1, <2>2
  <1>2. ASSUME NEW i, PendingCleared(i), call.stored PROVE ~Foreign(i)
    <2>1. CASE ~act.on
      BY <2>1 DEF Foreign
    <2>2. CASE act.on
      <3>. DEFINE shut == act.saved = "shut"
                  h == [hist EXCEPT !.deaf = @ \/ shut]
                  yes == Foreign(i)
      <3>1. shut \in BOOLEAN /\ yes \in BOOLEAN /\ hist' = Crossing(h, yes)
        BY <1>0, <1>2, <2>2 DEF PendingCleared
      <3>. HIDE DEF shut
      <3>2. h \in HistType
        BY <1>0, <3>1 DEF HistType
      <3>3. ~yes
        <4>. HIDE DEF yes, h
        <4>1. QED
          BY <3>1, <3>2, CrossedBy
      <3>4. QED
        BY <3>3
    <2>3. QED
      BY <2>1, <2>2
  <1>3. ASSUME NEW i \in Dialled, Ask(i) PROVE ~act.on
    BY <1>0, <1>3, CrossedBy DEF Ask
  <1>4. ASSUME NEW i \in Dialled, Dial(i) PROVE ~(call.stored /\ Foreign(i))
    <2>. DEFINE yes == call.stored /\ Foreign(i)
                off == ~act.on
                h == [hist EXCEPT !.deaf = @ \/ off]
    <2>1. yes \in BOOLEAN /\ off \in BOOLEAN /\ hist' = Crossing(h, yes)
      BY <1>4 DEF Dial
    <2>. HIDE DEF yes, off
    <2>2. h \in HistType
      BY <1>0, <2>1 DEF HistType
    <2>. HIDE DEF h
    <2>3. ~yes
      BY <2>1, <2>2, CrossedBy
    <2>4. QED
      BY <2>3 DEF yes
  <1>5. ASSUME NEW i \in Dialled, GuardClears(i) PROVE ~Foreign(i)
    BY <1>0, <1>5, CrossedBy DEF GuardClears
  <1>6. ASSUME CancelClears PROVE ~Foreign(hist.undoes)
    <2>. DEFINE yes == Foreign(hist.undoes)
                h == [hist EXCEPT !.undoes = 0]
    <2>1. yes \in BOOLEAN /\ hist' = Crossing(h, yes)
      BY <1>0, <1>6 DEF CancelClears
    <2>2. h \in HistType
      BY <1>0 DEF HistType
    <2>3. ~yes
      <3>. HIDE DEF yes, h
      <3>1. QED
        BY <2>1, <2>2, CrossedBy
    <2>4. QED
      BY <2>3
  <1>7. ASSUME NEW c \in Channels, Comes(c)
        PROVE  ~(call.stored /\ Foreign(Of(c))) /\ \A d \in mapped \ {c} : Of(d) = Of(c)
    <2>1. Registers(c)
      BY <1>7, ComesRegisters
    <2>2. ~(call.stored /\ act.on /\ Foreign(Of(c))) /\ ~ \E d \in mapped \ {c} : Of(d) # Of(c)
      BY <2>1, RegistersNotes
    <2>3. QED
      BY <2>2 DEF Foreign
  <1>8. ASSUME NEW c \in Channels, EndHandled(c), c \in mapped, Live, act.on, act.leg \in {0, c}, ~act.answered
        PROVE  ~Foreign(Of(c))
    <2>1. Crosses(Of(c))
      BY <1>8 DEF EndHandled, Live
    <2>2. QED
      BY <1>1, <1>8, <2>1 DEF Live
  <1>9. ASSUME NEW c \in Channels, NEW k \in Handlers, AbortResumes(k, c), Live PROVE ~Foreign(Of(c))
    BY <1>1, <1>9 DEF AbortResumes, Live
  <1>10. ASSUME NEW c \in Channels, Joins(c) PROVE ~Foreign(Of(c))
    <2>. DEFINE yes == Foreign(Of(c))
                off == chan'[c] # "bridged" \/ ~act.on
                h == [hist EXCEPT !.alone = @ \/ off]
    <2>1. yes \in BOOLEAN /\ off \in BOOLEAN /\ hist' = Crossing(h, yes)
      BY <1>0, <1>10 DEF Joins
    <2>. HIDE DEF off
    <2>2. h \in HistType
      BY <1>0, <2>1 DEF HistType
    <2>3. ~yes
      <3>. HIDE DEF yes, h
      <3>1. QED
        BY <2>1, <2>2, CrossedBy
    <2>4. QED
      BY <2>3
  <1>11. \A i \in Dialled : ScreeningFails(i) \/ DialFails(i) \/ Originated(i) => ~(call.stored /\ Foreign(i))
    BY <1>1, <1>2 DEF ScreeningFails, DialFails, Originated
  <1>12. \A c \in Channels : Decides(c) /\ call.stored => ~Foreign(Of(c))
    BY <1>1 DEF Decides
  <1>13. QED
    BY <1>3, <1>4, <1>5, <1>6, <1>7, <1>8, <1>9, <1>10, <1>11, <1>12

LEMMA NewestIs ==
  ASSUME NEW i \in Dialled, orig[i] # "no", act.on, ~Foreign(i)
  PROVE  Newest(i)
  BY DEF Foreign, Newest

LEMMA OneNewest ==
  ASSUME NEW i \in Dialled, NEW j \in Dialled, Newest(i), Newest(j)
  PROVE  i = j
  <1>1. ~(j > i) /\ ~(i > j)
    BY DEF Newest
  <1>2. QED
    BY <1>1, BoundsAssumption DEF Dialled

LEMMA NewestStays ==
  ASSUME TypeOK, [Next]_vars, \A i \in Dialled : ~Ask(i), NEW i \in Dialled
  PROVE  Newest(i)' <=> Newest(i)
  <1>1. \A j \in Dialled : orig'[j] = "no" <=> orig[j] = "no"
    BY Forward
  <1>2. QED
    BY <1>1 DEF Newest

LEMMA OrderKept ==
  ASSUME TypeOK, Ordered, Undoes, [Next]_vars
  PROVE  /\ Ordered' /\ Undoes'
         /\ \A i \in Dialled : Ask(i) => Newest(i)'
  <1>1. \A i \in Dialled : orig[i] # "no" => orig'[i] # "no"
    BY Forward
  <1>2. ASSUME NEW i \in Dialled, NEW j \in Dialled, j < i, orig'[i] # "no" PROVE orig'[j] # "no"
    <2>1. CASE orig[i] # "no"
      BY <1>1, <1>2, <2>1 DEF Ordered
    <2>2. CASE orig[i] = "no"
      <3>1. Ask(i)
        BY <1>2, <2>2, Forward
      <3>2. QED
        BY <1>1, <1>2, <3>1 DEF Ask
    <2>3. QED
      BY <2>1, <2>2
  <1>3. ASSUME NEW i \in Dialled, Ask(i) PROVE Newest(i)'
    <2>1. orig[i] = "no" /\ orig \in [Dialled -> {"no", "screen", "hold", "dial", "rung", "done"}]
      BY <1>3 DEF Ask, TypeOK
    <2>2. orig'[i] # "no" /\ \A j \in Dialled : j # i => orig'[j] = orig[j]
      BY <1>3, <2>1 DEF Ask
    <2>3. \A j \in Dialled : j > i => orig[j] = "no" /\ j # i
      BY <2>1, BoundsAssumption DEF Ordered, Dialled
    <2>4. QED
      BY <2>2, <2>3 DEF Newest
  <1>4. Undoes'
    <2>1. Notes /\ CancelMoves /\ cancel \in CancelType /\ hist \in HistType
      BY Noted, Undoing, Split DEF Typed, Shaped
    <2>2. \/ hist'.undoes = hist.undoes
          \/ CancelBegins /\ hist'.undoes \in Dialled /\ orig[hist'.undoes] # "no"
          \/ CancelClears /\ hist'.undoes = 0
      BY <2>1 DEF Notes
    <2>3. hist.undoes \in {0} \cup Dialled /\ 0 \notin Dialled
      BY <2>1, Numbers DEF HistType
    <2>4. CASE CancelBegins
      <3>1. cancel.pc = "idle" /\ cancel'.pc # "idle"
        BY <2>4 DEF CancelBegins
      <3>2. \E i \in Dialled : orig[i] # "no" /\ hist' = [hist EXCEPT !.undoes = i]
        BY <2>4 DEF CancelBegins
      <3>3. hist'.undoes \in Dialled /\ orig[hist'.undoes] # "no"
        BY <2>1, <3>2 DEF HistType
      <3>4. QED
        BY <1>1, <2>3, <3>1, <3>3 DEF Undoes
    <2>5. CASE CancelClears
      <3>1. cancel'.pc = "idle" /\ hist'.undoes = 0
        <4>1. cancel'.pc = "idle"
          BY <2>1, <2>5 DEF CancelClears, CancelType
        <4>. DEFINE yes == Foreign(hist.undoes)
                    h == [hist EXCEPT !.undoes = 0]
        <4>2. yes \in BOOLEAN /\ hist' = Crossing(h, yes)
          BY <2>5 DEF CancelClears, Foreign
        <4>3. h \in HistType /\ h.undoes = 0
          BY <2>1 DEF HistType
        <4>. HIDE DEF yes, h
        <4>4. QED
          BY <4>1, <4>2, <4>3, CrossingIs
      <3>2. QED
        BY <3>1 DEF Undoes
    <2>6. CASE ~CancelBegins /\ ~CancelClears
      <3>1. hist'.undoes = hist.undoes
        BY <2>2, <2>6
      <3>2. cancel'.pc = "idle" <=> cancel.pc = "idle"
        <4>1. CASE cancel' = cancel
          BY <4>1
        <4>2. CASE CancelHangsUp
          BY <2>1, <4>2 DEF CancelHangsUp, CancelType
        <4>3. QED
          BY <2>1, <2>6, <4>1, <4>2 DEF CancelMoves
      <3>3. QED
        BY <1>1, <2>3, <3>1, <3>2 DEF Undoes
    <2>7. QED
      BY <2>4, <2>5, <2>6
  <1>5. QED
    BY <1>2, <1>3, <1>4 DEF Ordered

LEMMA Reached ==
  ASSUME TypeOK, [Next]_vars, NEW c \in Channels
  PROVE  /\ c \in Rose' => c \in Rose \/ (Comes(c) /\ call.stored /\ act.on)
         /\ c \in Rose => c \in Rose'
         /\ Rose \subseteq Channels /\ Rose' \subseteq Channels
         /\ ~hist'.crossed => ~hist.crossed
         /\ (hist.alone => hist'.alone) /\ (hist.deaf => hist'.deaf)
  <1>1. Notes /\ hist \in HistType
    BY Noted, Split DEF Typed
  <1>2. Rose \subseteq Channels /\ Rose' \subseteq Channels
    BY <1>1 DEF Notes, Rose, HistType
  <1>3. QED
    BY <1>1, <1>2 DEF Notes

\* What there is of a leg is there of a transfer whose request was made.
LEMMA Asked ==
  ASSUME TypeOK, Lives, Starts, NEW c \in Channels
  PROVE  /\ chan[c] # "none" => orig[Of(c)] \notin {"no", "screen", "hold", "dial"}
         /\ c \in Rose => chan[c] \notin {"none", "ringing"}
         /\ \A k \in Handlers : job[k][c] # "idle" => chan[c] \notin {"none", "ringing"}
  BY Numbers DEF Starts, Lives

\* A channel enters Stasis once.
LEMMA ComesOnce ==
  ASSUME TypeOK, Starts, NEW c, Comes(c)
  PROVE  /\ chan[c] \in {"none", "ringing"}
         /\ \A i \in Dialled : c = PickupOf(i) => PickedUp(i) /\ chan[i] = "ringing"
         /\ \A i \in Dialled : c = PickupOf(i) => c \notin Dialled
  <1>1. ASSUME c \in Dialled, Answers(c) PROVE chan[c] = "ringing" /\ \A i \in Dialled : c # PickupOf(i)
    BY <1>1, Numbers DEF Answers
  <1>2. ASSUME NEW i \in Dialled, c = PickupOf(i), PickedUp(i)
        PROVE  chan[i] = "ringing" /\ chan[c] = "none" /\ c \notin Dialled /\ \A j \in Dialled : c = PickupOf(j) => j = i
    <2>1. chan[i] = "ringing"
      BY <1>2 DEF PickedUp
    <2>2. chan[c] = "none"
      BY <1>2, <2>1 DEF Starts
    <2>3. QED
      BY <1>2, <2>1, <2>2, Numbers
  <1>3. QED
    BY <1>1, <1>2 DEF Comes

LEMMA LivesKept ==
  ASSUME TypeOK, ~hist'.crossed, Lives, Starts, Named, [Next]_vars
  PROVE  Lives'
  <1>. SUFFICES ASSUME NEW c \in Channels
       PROVE  /\ c \in ends' => chan'[c] = "gone"
              /\ chan'[c] \in {"none", "ringing"} => c \notin Rose' /\ \A k \in Handlers : job'[k][c] = "idle"
              /\ job'["end"][c] # "idle" => chan'[c] = "gone" /\ job'["ans"][c] = "idle"
              /\ job'["ans"][c] = "resume" => chan'[c] = "gone"
    BY DEF Lives
  <1>1. /\ c \in ends => chan[c] = "gone"
        /\ chan[c] \in {"none", "ringing"} => c \notin Rose /\ \A k \in Handlers : job[k][c] = "idle"
        /\ job["end"][c] # "idle" => chan[c] = "gone" /\ job["ans"][c] = "idle"
        /\ job["ans"][c] = "resume" => chan[c] = "gone"
    BY DEF Lives
  <1>2. AnsMoves(c) /\ EndMoves(c) /\ LegMoves(c)
    BY Moves, Legs
  <1>3. /\ Comes(c) => chan'[c] = "up" /\ chan[c] \in {"none", "ringing"}
        /\ c \in Dialled /\ orig[c] = "dial" => chan[c] = "none"
    BY ComesUp, ComesOnce DEF Starts
  <1>4. chan[c] = "gone" => chan'[c] = "gone"
    BY <1>2, <1>3 DEF LegMoves, Joins
  <1>5. chan'[c] \in {"none", "ringing"} => chan[c] \in {"none", "ringing"} /\ ~Comes(c)
    BY <1>2, <1>3 DEF LegMoves
  <1>6. EndHandled(c) => c \in ends
    BY DEF EndHandled
  <1>7. ASSUME job["ans"][c] = "idle", ~Comes(c) PROVE job'["ans"][c] = "idle"
    BY <1>2, <1>7 DEF AnsMoves, Drop, ScreenFails, AsksDigit, Decides, Connects, Joins, AbortHangsUp, AbortResumes
  <1>8. ASSUME job["end"][c] = "idle", job'["end"][c] # "idle"
        PROVE  c \in ends /\ c \in mapped /\ job["ans"][c] = "idle"
    <2>1. EndHandled(c) /\ c \in mapped /\ Live /\ act.on /\ ~act.answered
      BY <1>2, <1>8 DEF EndMoves, AbortHangsUp, AbortResumes
    <2>2. act.leg \in {0, c} /\ c \in ends
      BY <1>2, <1>6, <1>8, <2>1 DEF EndMoves, AbortHangsUp, AbortResumes
    <2>3. Newest(Of(c))
      <3>1. ~Foreign(Of(c))
        BY <2>1, <2>2, Mannered
      <3>2. orig[Of(c)] # "no" /\ Of(c) \in Dialled
        BY <1>1, <2>2, Asked, Numbers
      <3>3. QED
        BY <2>1, <3>1, <3>2, NewestIs
    <2>4. job["ans"][c] = "idle"
      BY <2>1, <2>3 DEF Named
    <2>5. QED
      BY <2>1, <2>2, <2>4
  <1>9. c \in ends' => chan'[c] = "gone"
    BY <1>1, <1>2, <1>4 DEF LegMoves
  <1>10. ASSUME chan'[c] \in {"none", "ringing"}
         PROVE  c \notin Rose' /\ job'["ans"][c] = "idle" /\ job'["end"][c] = "idle"
    <2>1. c \notin Rose /\ job["ans"][c] = "idle" /\ job["end"][c] = "idle" /\ ~Comes(c) /\ c \notin ends
      BY <1>1, <1>5, <1>10, Names
    <2>2. QED
      BY <1>7, <1>8, <2>1, Reached
  <1>11. ASSUME job'["end"][c] # "idle" PROVE chan'[c] = "gone" /\ job'["ans"][c] = "idle"
    <2>1. chan[c] = "gone" /\ job["ans"][c] = "idle"
      BY <1>1, <1>8, <1>11
    <2>2. QED
      BY <1>3, <1>4, <1>7, <2>1
  <1>12. ASSUME job'["ans"][c] = "resume" PROVE chan'[c] = "gone"
    <2>1. job["ans"][c] = "resume" \/ AbortHangsUp("ans", c)
      BY <1>12, AnsGoes DEF AnsSteps
    <2>2. CASE job["ans"][c] = "resume"
      BY <1>1, <1>4, <2>2
    <2>3. CASE AbortHangsUp("ans", c)
      <3>1. HungUp(c) /\ job["ans"][c] # "idle"
        BY <2>3 DEF AbortHangsUp
      <3>2. chan[c] \notin {"none", "ringing"}
        BY <1>1, <3>1, Names
      <3>3. chan \in [Channels -> {"none", "ringing", "up", "bridged", "gone"}]
        BY DEF TypeOK
      <3>4. QED
        BY <3>1, <3>2, <3>3, HungUpIs
    <2>4. QED
      BY <2>1, <2>2, <2>3
  <1>13. QED
    BY <1>9, <1>10, <1>11, <1>12, Names

LEMMA StartsKept ==
  ASSUME TypeOK, Lives, Starts, [Next]_vars
  PROVE  Starts'
  <1>. SUFFICES ASSUME NEW i \in Dialled
       PROVE  /\ orig'[i] \in {"no", "screen", "hold", "dial"} => chan'[i] = "none"
              /\ orig'[i] # "done" => chan'[PickupOf(i)] = "none" /\ guard'[i] = "no"
              /\ chan'[PickupOf(i)] # "none" =>
                   /\ chan'[i] = "gone" /\ i \notin mapped' /\ i \notin Rose'
                   /\ \A k \in Handlers : job'[k][i] = "idle"
    BY DEF Starts
  <1>. DEFINE p == PickupOf(i)
  <1>0. i \in Channels /\ p \in Channels /\ p \notin Dialled /\ i # p /\ \A j \in Dialled : p = PickupOf(j) => j = i
    BY Numbers
  <1>1. /\ orig[i] \in {"no", "screen", "hold", "dial"} => chan[i] = "none"
        /\ orig[i] # "done" => chan[p] = "none" /\ guard[i] = "no"
        /\ chan[p] # "none" =>
             chan[i] = "gone" /\ i \notin mapped /\ i \notin Rose /\ \A k \in Handlers : job[k][i] = "idle"
    BY DEF Starts
  <1>2. LegMoves(i) /\ LegMoves(p) /\ AnsMoves(i) /\ EndMoves(i) /\ MapMoves(i) /\ GuardMoves(i)
    BY <1>0, Legs, Moves, Mappings, Undoing
  <1>3. Comes(i) => chan[i] = "ringing"
    BY <1>0, Numbers DEF Comes, Answers
  <1>4. Comes(p) => PickedUp(i) /\ chan[i] = "ringing"
    BY ComesOnce
  <1>. HIDE DEF p
  <1>5. ASSUME orig'[i] \in {"no", "screen", "hold", "dial"} PROVE chan'[i] = "none"
    <2>1. orig[i] \in {"no", "screen", "hold", "dial"}
      BY <1>5, Forward
    <2>2. orig[i] = "dial" => orig'[i] = "dial"
      BY <1>5, Forward
    <2>3. QED
      BY <1>1, <1>2, <1>3, <2>1, <2>2 DEF LegMoves, Joins
  <1>6. ASSUME orig'[i] # "done" PROVE chan'[p] = "none" /\ guard'[i] = "no"
    <2>1. orig[i] # "done" /\ chan[p] = "none" /\ guard[i] = "no"
      BY <1>1, <1>6, Forward
    <2>2. ~PickedUp(i)
      BY <2>1 DEF PickedUp
    <2>3. ~Originated(i)
      <3>1. orig \in [Dialled -> {"no", "screen", "hold", "dial", "rung", "done"}]
        BY DEF TypeOK
      <3>2. QED
        BY <1>6, <3>1 DEF Originated
    <2>4. chan'[p] = "none"
      BY <1>0, <1>2, <1>4, <2>1, <2>2 DEF LegMoves, Joins
    <2>5. guard'[i] = "no"
      BY <1>2, <2>1, <2>3 DEF GuardMoves, GuardWakes, Due, GuardHangsUp, GuardClears
    <2>6. QED
      BY <2>4, <2>5
  <1>7. ASSUME chan[i] = "gone" \/ Comes(p), i \notin mapped', i \notin Rose,
               \A k \in Handlers : job[k][i] = "idle", chan'[i] = "gone", i \notin mapped \/ i \notin ends
        PROVE  i \notin Rose' /\ \A k \in Handlers : job'[k][i] = "idle"
    <2>1. ~Comes(i)
      <3>1. Comes(i) => chan'[i] = "up"
        BY ComesUp
      <3>2. QED
        BY <1>7, <3>1
    <2>2. i \notin Rose'
      BY <1>0, <1>7, <2>1, Reached
    <2>3. job'["ans"][i] = "idle"
      BY <1>2, <1>7, <2>1, Names
         DEF AnsMoves, Drop, ScreenFails, AsksDigit, Decides, Connects, Joins, AbortHangsUp, AbortResumes
    <2>4. job'["end"][i] = "idle"
      BY <1>2, <1>7, Names DEF EndMoves, EndHandled, AbortHangsUp, AbortResumes
    <2>5. QED
      BY <2>2, <2>3, <2>4, Names
  <1>8. ASSUME chan'[p] # "none"
        PROVE  /\ chan'[i] = "gone" /\ i \notin mapped' /\ i \notin Rose'
               /\ \A k \in Handlers : job'[k][i] = "idle"
    <2>1. CASE chan[p] # "none"
      <3>1. /\ chan[i] = "gone" /\ i \notin mapped /\ i \notin Rose /\ \A k \in Handlers : job[k][i] = "idle"
            /\ orig[i] = "done"
        BY <1>1, <2>1
      <3>2. i \notin mapped'
        BY <1>2, <1>3, <3>1 DEF MapMoves, Originated
      <3>3. chan'[i] = "gone"
        BY <1>2, <1>3, <3>1 DEF LegMoves, Joins
      <3>4. QED
        BY <1>7, <3>1, <3>2, <3>3
    <2>2. CASE chan[p] = "none"
      <3>1. Comes(p)
        BY <1>0, <1>2, <1>8, <2>2 DEF LegMoves, Joins
      <3>2. chan[i] = "ringing" /\ PickedUp(i)
        BY <1>4, <3>1
      <3>3. i \notin Rose /\ (\A k \in Handlers : job[k][i] = "idle") /\ i \notin ends
        BY <1>0, <3>2 DEF Lives
      <3>4. chan'[i] = "gone"
        BY <1>0, <3>2 DEF PickedUp, TypeOK, p
      <3>5. Registers(p) /\ (mapped' = {p} \/ mapped' = {})
        BY <1>0, <3>1, ComesRegisters, RegistersIs
      <3>6. i \notin mapped'
        BY <1>0, <3>5
      <3>7. QED
        BY <1>7, <3>1, <3>3, <3>4, <3>6
    <2>3. QED
      BY <2>1, <2>2
  <1>9. QED
    BY <1>5, <1>6, <1>8 DEF p

\* Something of a leg is there that has been answered, or was and waits to be handled.
Engaged(c) ==
  (\E k \in Handlers : job[k][c] # "idle") \/ chan[c] \in {"up", "bridged"} \/ (c \in ends /\ c \in mapped)

There(c) == Engaged(c) \/ chan[c] = "ringing"

\* One leg of a transfer at a time: of the leg that rang nothing is left when it was picked up.
LEMMA OneLeg ==
  ASSUME TypeOK, Lives, Starts, NEW c \in Channels, NEW d \in Channels, There(c), There(d), Of(c) = Of(d)
  PROVE  c = d
  <1>1. ASSUME NEW e \in Channels, There(e) PROVE chan[e] # "none"
    BY <1>1 DEF There, Engaged, Lives
  <1>2. ASSUME NEW i \in Dialled, There(PickupOf(i)) PROVE ~There(i)
    <2>1. chan[PickupOf(i)] # "none"
      BY <1>1, <1>2, Numbers
    <2>2. QED
      BY <2>1, Names DEF Starts, There, Engaged
  <1>3. Of(c) \in Dialled /\ c \in {Of(c), PickupOf(Of(c))} /\ d \in {Of(c), PickupOf(Of(c))}
    BY Numbers
  <1>4. QED
    BY <1>2, <1>3

LEMMA ComesAlone ==
  ASSUME TypeOK, Lives, Starts, NEW d, Comes(d)
  PROVE  /\ d \in Channels /\ orig[Of(d)] # "no"
         /\ \A c \in Channels : Of(c) = Of(d) => ~Engaged(c)
  <1>1. PICK r \in Dialled : chan[r] = "ringing" /\ (d = r \/ d = PickupOf(r))
    BY DEF Comes, Answers, PickedUp
  <1>2. r \in Channels /\ There(r) /\ ~Engaged(r) /\ Of(d) = r /\ Of(r) = r /\ d \in Channels
    BY <1>1, Numbers DEF There, Engaged, Lives
  <1>3. ASSUME NEW c \in Channels, Of(c) = Of(d), Engaged(c) PROVE c = r
    <2>1. There(c) /\ Of(c) = Of(r)
      BY <1>2, <1>3 DEF There
    <2>2. QED
      BY <1>2, <2>1, OneLeg
  <1>4. orig[Of(d)] # "no"
    BY <1>1, <1>2, Asked
  <1>5. QED
    BY <1>2, <1>3, <1>4

LEMMA LiveLasts ==
  ASSUME TypeOK, Closing, [Next]_vars, Live'
  PROVE  Live /\ call.stored /\ ~Cleaning /\ clean.pc = "no"
  <1>0. call \in CallType
    BY Split DEF Typed, Shaped
  <1>1. ~Cleaning
    <2>1. CASE CleanupStops
      BY <2>1 DEF CleanupStops, Closing, Live, session
    <2>2. CASE CleanupHangsUp \/ CleanupRemoves
      BY <1>0, <2>2 DEF CleanupHangsUp, CleanupRemoves, Closing, Live, CallType
    <2>3. QED
      BY <2>1, <2>2 DEF Cleaning
  <1>2. ~call.ending
    BY <1>0, <1>1, Calls DEF CallMoves, CallType, CleanupBegins, Live
  <1>3. QED
    BY <1>1, <1>2 DEF Closing, Live

\* The transfer whose leg, or task, writes the action is the newest.
LEMMA Own ==
  ASSUME TypeOK, ~hist'.crossed, Lives, Starts, act.on
  PROVE  /\ \A d \in Channels : Comes(d) /\ call.stored => Newest(Of(d))
         /\ \A d \in Channels : Joins(d) \/ (Decides(d) /\ call.stored) => Newest(Of(d))
         /\ \A d \in Channels, k \in Handlers : AbortResumes(k, d) /\ Live => Newest(Of(d))
         /\ \A i \in Dialled :
              call.stored /\ (ScreeningFails(i) \/ Dial(i) \/ DialFails(i) \/ Originated(i)) => Newest(i)
         /\ \A i \in Dialled : GuardClears(i) => Newest(i)
  <1>1. ASSUME NEW d \in Channels, orig[Of(d)] # "no", ~Foreign(Of(d)) PROVE Newest(Of(d))
    BY <1>1, NewestIs, Numbers
  <1>2. ASSUME NEW d \in Channels, NEW k \in Handlers, job[k][d] # "idle" PROVE orig[Of(d)] # "no"
    BY <1>2, Asked
  <1>3. \A d \in Channels : Comes(d) /\ call.stored => Newest(Of(d))
    BY <1>1, ComesAlone, Mannered
  <1>4. \A d \in Channels : Joins(d) \/ Decides(d) => job["ans"][d] # "idle"
    BY Names DEF Joins, Decides
  <1>5. \A d \in Channels : Joins(d) \/ (Decides(d) /\ call.stored) => Newest(Of(d))
    BY <1>1, <1>2, <1>4, Names, Mannered
  <1>6. \A d \in Channels, k \in Handlers : AbortResumes(k, d) => job[k][d] # "idle"
    BY Names DEF AbortResumes
  <1>7. \A d \in Channels, k \in Handlers : AbortResumes(k, d) /\ Live => Newest(Of(d))
    BY <1>1, <1>2, <1>6, Mannered
  <1>8. \A i \in Dialled :
          call.stored /\ (ScreeningFails(i) \/ Dial(i) \/ DialFails(i) \/ Originated(i)) => Newest(i)
    <2>1. \A i \in Dialled : ScreeningFails(i) \/ Dial(i) \/ DialFails(i) \/ Originated(i) => orig[i] # "no"
      BY DEF ScreeningFails, Dial, DialFails, Originated
    <2>2. QED
      BY <2>1, NewestIs, Mannered
  <1>9. \A i \in Dialled : GuardClears(i) => Newest(i)
    <2>1. \A i \in Dialled : GuardClears(i) => orig[i] # "no"
      BY DEF GuardClears, Starts
    <2>2. QED
      BY <2>1, NewestIs, Mannered
  <1>10. QED
    BY <1>3, <1>5, <1>7, <1>8, <1>9

\* What a step without a crossing makes of the action: a transfer is asked for where there is none,
\* the newest goes on, or it is cleared.
Goes ==
  \/ act' = act
  \/ act' = NoAction
  \/ ~act.on /\ act' = [NoAction EXCEPT !.on = TRUE] /\ \E i \in Dialled : Ask(i)
  \/ act.on /\ call.stored /\ \E i \in Dialled :
       /\ Newest(i)
       /\ \/ Dial(i) /\ act' = [act EXCEPT !.saved = IF capture THEN "open" ELSE "shut"]
          \/ Originated(i) /\ act' = [act EXCEPT !.leg = i]
  \/ act.on /\ call.stored /\ \E c \in Channels :
       /\ Newest(Of(c))
       /\ \/ Comes(c) /\ act' = [act EXCEPT !.answered = TRUE, !.leg = c]
          \/ Decides(c) /\ \E v \in {"accepted", "declined"} : act' = [act EXCEPT !.decided = v]
  \/ act.on /\ \E c \in Channels :
       Newest(Of(c)) /\ Joins(c) /\ act' = [act EXCEPT !.answered = TRUE, !.leg = c, !.decided = "accepted"]

LEMMA ActGoes ==
  ASSUME TypeOK, ~hist'.crossed, Lives, Starts, [Next]_vars
  PROVE  Goes
  <1>0. act.on \in BOOLEAN
    BY Split DEF Typed, Shaped, ActType
  <1>1. ASSUME NEW i \in Dialled, Ask(i) PROVE Goes
    BY <1>0, <1>1, Mannered DEF Ask, Goes
  <1>2. ASSUME NEW i \in Dialled, ScreeningFails(i) \/ DialFails(i) \/ GuardClears(i) PROVE Goes
    BY <1>2 DEF ScreeningFails, DialFails, PendingCleared, GuardClears, Goes
  <1>3. ASSUME NEW i \in Dialled, Dial(i) PROVE Goes
    <2>1. CASE call.stored /\ act.on
      BY <1>3, <2>1, Own DEF Dial, Goes
    <2>2. CASE ~(call.stored /\ act.on)
      BY <1>3, <2>2 DEF Dial, Goes
    <2>3. QED
      BY <2>1, <2>2
  <1>4. ASSUME NEW i \in Dialled, Originated(i) PROVE Goes
    <2>1. CASE call.stored /\ act.on
      BY <1>4, <2>1, Own DEF Originated, Goes
    <2>2. CASE ~(call.stored /\ act.on)
      BY <1>4, <2>2 DEF Originated, Goes
    <2>3. QED
      BY <2>1, <2>2
  <1>5. ASSUME NEW c \in Channels, Comes(c) PROVE Goes
    <2>1. act' = IF call.stored /\ act.on THEN [act EXCEPT !.answered = TRUE, !.leg = c] ELSE act
      BY <1>5, ComesRegisters, RegistersIs
    <2>2. CASE call.stored /\ act.on
      BY <1>5, <2>1, <2>2, Own DEF Goes
    <2>3. CASE ~(call.stored /\ act.on)
      BY <2>1, <2>3 DEF Goes
    <2>4. QED
      BY <2>2, <2>3
  <1>6. ASSUME NEW c \in Channels, Decides(c) PROVE Goes
    <2>1. CASE call.stored /\ act.on
      <3>1. \E v \in {"accepted", "declined"} : act' = [act EXCEPT !.decided = v]
        BY <1>6, <2>1 DEF Decides
      <3>2. QED
        BY <1>6, <2>1, <3>1, Own DEF Goes
    <2>2. CASE ~(call.stored /\ act.on)
      BY <1>6, <2>2 DEF Decides, Goes
    <2>3. QED
      BY <2>1, <2>2
  <1>7. ASSUME NEW c \in Channels, Joins(c) PROVE Goes
    <2>1. CASE act.on
      BY <1>7, <2>1, Own DEF Joins, Goes
    <2>2. CASE ~act.on
      BY <1>7, <2>2 DEF Joins, Goes
    <2>3. QED
      BY <2>1, <2>2
  <1>8. ASSUME NEW c \in Channels, NEW k \in Handlers, AbortResumes(k, c) PROVE Goes
    BY <1>8 DEF AbortResumes, Goes
  <1>9. CancelClears \/ act' = act => Goes
    BY DEF CancelClears, Goes
  <1>10. QED
    BY <1>1, <1>2, <1>3, <1>4, <1>5, <1>6, <1>7, <1>8, <1>9, Writers DEF ActMoves

\* Only one channel enters Stasis in a step.
LEMMA ComesSole ==
  ASSUME TypeOK, Starts, NEW c \in Channels, NEW d \in Channels, Comes(c), Comes(d)
  PROVE  c = d
  <1>1. SUFFICES ASSUME c # d PROVE FALSE
    OBVIOUS
  <1>2. chan'[c] = "up" /\ chan[c] \in {"none", "ringing"}
    BY ComesUp, ComesOnce
  <1>3. chan'[c] = chan[c] \/ chan'[c] = "gone"
    BY <1>1, ComesUp
  <1>4. QED
    BY <1>2, <1>3

LEMMA NamedKept ==
  ASSUME TypeOK, ~hist'.crossed, Closing, Ordered, Undoes, Lives, Starts, Known, Named, [Next]_vars
  PROVE  Named'
  <1>. DEFINE At1(c) == job["ans"][c] # "idle" \/ chan[c] \in {"up", "bridged"}
  <1>0. act \in ActType /\ 0 \notin Channels /\ Rose \subseteq Channels /\ \A c \in Channels : Of(c) \in Dialled
    BY Split, Numbers DEF Typed, Shaped, HistType, Rose
  <1>1. /\ act.answered => act.on /\ act.leg \in Rose
        /\ \A c \in Channels : act.on /\ act.leg = c => Newest(Of(c))
        /\ Live' => Live /\ call.stored
        /\ Live => /\ act.on => \A c \in Channels : Newest(Of(c)) /\ At1(c) => act.answered /\ act.leg = c
                   /\ act.decided # "none" => act.answered
    BY LiveLasts DEF Named
  <1>2. ASSUME NEW c \in Channels, job'["ans"][c] # "idle" \/ chan'[c] \in {"up", "bridged"}, ~Comes(c)
        PROVE  At1(c)
    <2>1. AnsMoves(c) /\ LegMoves(c)
      BY Moves, Legs
    <2>2. CASE chan'[c] \in {"up", "bridged"}
      BY <1>2, <2>1, <2>2 DEF LegMoves
    <2>3. CASE job'["ans"][c] # "idle"
      BY <1>2, <2>1, <2>3 DEF AnsMoves, Drop, ScreenFails, AsksDigit, Decides, Connects, Joins, AbortHangsUp,
         AbortResumes
    <2>4. QED
      BY <1>2, <2>2, <2>3
  <1>3. ASSUME NEW c \in Channels, At1(c) PROVE Engaged(c)
    BY <1>3, Names DEF Engaged
  <1>. HIDE DEF At1
  <1>4. ASSUME NEW i \in Dialled, Ask(i), act' = [NoAction EXCEPT !.on = TRUE] PROVE Named'
    <2>1. orig[i] = "no" /\ job' = job /\ chan' = chan
      BY <1>4 DEF Ask, legs, tasks
    <2>2. act'.answered = FALSE /\ act'.leg = 0 /\ act'.decided = "none"
      BY <1>4 DEF NoAction
    <2>3. ASSUME NEW c \in Channels, Newest(Of(c))', At1(c) PROVE FALSE
      <3>1. Newest(i)'
        BY <1>4, OrderKept
      <3>2. ~(i > Of(c)) /\ ~(Of(c) > i)
        BY <1>0, <2>3, <3>1 DEF Newest
      <3>3. Of(c) = i
        BY <1>0, <3>2, BoundsAssumption DEF Dialled
      <3>4. chan[c] = "none" /\ job["ans"][c] = "idle"
        BY <2>1, <3>3, Asked, Names
      <3>5. QED
        BY <2>3, <3>4 DEF At1
    <2>4. QED
      BY <1>0, <2>1, <2>2, <2>3 DEF Named, At1
  <1>5. ASSUME \A i \in Dialled : ~Ask(i) PROVE Named'
    <2>0. \A i \in Dialled : Newest(i)' <=> Newest(i)
      BY <1>5, NewestStays
    <2>1. ASSUME NEW d \in Channels, Comes(d), act.on, call.stored, Newest(Of(d)),
                 act' = [act EXCEPT !.answered = TRUE, !.leg = d]
          PROVE  Named'
      <3>1. act'.on /\ act'.answered /\ act'.leg = d
        BY <1>0, <2>1 DEF ActType
      <3>2. d \in Rose'
        BY <2>1, ComesRegisters, RegistersNotes
      <3>3. ASSUME NEW c \in Channels, Newest(Of(c)), job'["ans"][c] # "idle" \/ chan'[c] \in {"up", "bridged"}
            PROVE  c = d
        <4>1. Of(c) = Of(d)
          BY <1>0, <2>1, <3>3, OneNewest
        <4>2. Comes(c)
          BY <1>2, <1>3, <2>1, <3>3, <4>1, ComesAlone
        <4>3. QED
          BY <2>1, <4>2, ComesSole
      <3>4. QED
        BY <1>0, <2>0, <2>1, <3>1, <3>2, <3>3 DEF Named
    <2>2. ASSUME NEW d \in Channels, Comes(d), ~(act.on /\ call.stored) PROVE Named'
      <3>1. act' = act
        BY <2>2, ComesRegisters, RegistersIs
      <3>2. act.leg \in Rose => act.leg \in Rose'
        BY <1>0, Reached
      <3>3. QED
        BY <1>0, <1>1, <2>0, <2>2, <3>1, <3>2 DEF Named
    <2>3. ASSUME \A c \in Channels : ~Comes(c),
                 act'.on => /\ act.on /\ act'.leg = act.leg /\ act'.answered = act.answered
                            /\ Live => act'.decided = act.decided \/ act.answered,
                 ~act'.on => act' = act \/ act' = NoAction
          PROVE  Named'
      <3>1. act.leg \in Rose => act.leg \in Rose'
        BY <1>0, Reached
      <3>2. ASSUME act'.on PROVE Named'
        <4>1. ASSUME Live', NEW c \in Channels, Newest(Of(c)), job'["ans"][c] # "idle" \/ chan'[c] \in {"up", "bridged"}
              PROVE  act'.answered /\ act'.leg = c
          BY <1>1, <1>2, <2>3, <3>2, <4>1
        <4>2. Live' /\ act'.decided # "none" => act'.answered
          BY <1>1, <2>3, <3>2
        <4>3. QED
          BY <1>0, <1>1, <2>0, <2>3, <3>1, <3>2, <4>1, <4>2 DEF Named
      <3>3. ASSUME ~act'.on PROVE Named'
        <4>1. act'.answered => FALSE
          BY <1>1, <2>3, <3>3 DEF NoAction
        <4>2. Live' => act'.decided = "none"
          BY <1>1, <2>3, <3>3 DEF NoAction
        <4>3. QED
          BY <3>3, <4>1, <4>2 DEF Named
      <3>4. QED
        BY <3>2, <3>3
    <2>4. ASSUME \A c \in Channels : ~Comes(c), NEW i \in Dialled, Dial(i), act.on,
                 act' = [act EXCEPT !.saved = IF capture THEN "open" ELSE "shut"]
          PROVE  Named'
      <3>1. act'.on = act.on /\ act'.leg = act.leg /\ act'.answered = act.answered /\ act'.decided = act.decided
        BY <1>0, <2>4 DEF ActType
      <3>2. QED
        BY <2>3, <2>4, <3>1
    <2>5. ASSUME \A c \in Channels : ~Comes(c), NEW i \in Dialled, Originated(i), act.on, Newest(i),
                 act' = [act EXCEPT !.leg = i]
          PROVE  Named'
      <3>1. act'.on = act.on /\ act'.leg = i /\ act'.answered = act.answered /\ act'.decided = act.decided
        BY <1>0, <2>5, Numbers DEF ActType
      <3>2. CASE act.answered
        <4>1. act.leg \in Rose /\ act.leg \in Channels /\ Newest(Of(act.leg))
          BY <1>0, <1>1, <3>2
        <4>2. Of(act.leg) = i
          BY <1>0, <2>5, <4>1, OneNewest
        <4>3. act.leg # PickupOf(i)
          <5>1. orig[i] = "rung"
            BY <2>5 DEF Originated
          <5>2. chan[PickupOf(i)] = "none" /\ PickupOf(i) \in Channels
            BY <5>1, Numbers DEF Starts
          <5>3. PickupOf(i) \notin Rose
            BY <5>2 DEF Lives
          <5>4. QED
            BY <4>1, <5>3
        <4>4. act.leg = i
          BY <4>1, <4>2, <4>3, Numbers
        <4>5. QED
          BY <2>3, <2>5, <3>1, <4>4
      <3>3. CASE ~act.answered
        <4>1. i \in Channels /\ Of(i) = i
          BY Numbers
        <4>2. Live => act'.decided = "none"
          BY <1>1, <3>1, <3>3
        <4>3. ASSUME Live', NEW c \in Channels, Newest(Of(c)), job'["ans"][c] # "idle" \/ chan'[c] \in {"up", "bridged"}
              PROVE  FALSE
          BY <1>1, <1>2, <2>5, <3>3, <4>3
        <4>4. QED
          BY <1>0, <1>1, <2>0, <2>5, <3>1, <3>3, <4>1, <4>2, <4>3 DEF Named
      <3>4. QED
        BY <1>0, <3>2, <3>3
    <2>6. ASSUME \A c \in Channels : ~Comes(c), NEW d \in Channels, Decides(d), act.on, Newest(Of(d)),
                 \E v \in {"accepted", "declined"} : act' = [act EXCEPT !.decided = v]
          PROVE  Named'
      <3>1. act'.on = act.on /\ act'.leg = act.leg /\ act'.answered = act.answered
        BY <1>0, <2>6 DEF ActType
      <3>2. At1(d)
        BY <2>6, Names DEF Decides, At1
      <3>3. Live => act.answered
        BY <1>1, <2>6, <3>2
      <3>4. QED
        BY <2>3, <2>6, <3>1, <3>3
    <2>7. ASSUME \A c \in Channels : ~Comes(c), NEW d \in Channels, Joins(d), act.on, Newest(Of(d)),
                 act' = [act EXCEPT !.answered = TRUE, !.leg = d, !.decided = "accepted"]
          PROVE  Named'
      <3>1. act'.on /\ act'.answered /\ act'.leg = d
        BY <1>0, <2>7 DEF ActType
      <3>2. job["ans"][d] = "join" /\ At1(d)
        BY <2>7, Names DEF Joins, At1
      <3>3. d \in Rose'
        BY <3>2, Reached DEF Known
      <3>4. ASSUME Live', NEW c \in Channels, Newest(Of(c)), job'["ans"][c] # "idle" \/ chan'[c] \in {"up", "bridged"}
            PROVE  d = c
        BY <1>1, <1>2, <2>7, <3>2, <3>4
      <3>5. QED
        BY <1>0, <2>0, <2>7, <3>1, <3>3, <3>4 DEF Named
    <2>8. CASE \E d \in Channels : Comes(d)
      <3>1. PICK d \in Channels : Comes(d)
        BY <2>8
      <3>2. CASE act.on /\ call.stored
        <4>1. Newest(Of(d)) /\ act' = [act EXCEPT !.answered = TRUE, !.leg = d]
          BY <3>1, <3>2, Own, ComesRegisters, RegistersIs
        <4>2. QED
          BY <2>1, <3>1, <3>2, <4>1
      <3>3. QED
        BY <2>2, <3>1, <3>2
    <2>9. CASE \A d \in Channels : ~Comes(d)
      <3>1. act' = act \/ act' = NoAction => Named'
        BY <2>3, <2>9 DEF NoAction
      <3>2. Goes
        BY ActGoes
      <3>3. QED
        BY <1>5, <2>4, <2>5, <2>6, <2>7, <2>9, <3>1, <3>2 DEF Goes
    <2>10. QED
      BY <2>8, <2>9
  <1>6. CASE \E i \in Dialled : Ask(i)
    <2>1. PICK i \in Dialled : Ask(i)
      BY <1>6
    <2>2. act' = [NoAction EXCEPT !.on = TRUE]
      BY <2>1 DEF Ask
    <2>3. QED
      BY <1>4, <2>1, <2>2
  <1>7. QED
    BY <1>5, <1>6

LEMMA KnownKept ==
  ASSUME TypeOK, Known, [Next]_vars
  PROVE  Known'
  <1>. SUFFICES ASSUME NEW c \in Channels, job'["ans"][c] \in {"screen", "asked", "connect", "join"}
       PROVE  c \in Rose'
    BY DEF Known
  <1>1. CASE Comes(c)
    <2>1. Registers(c)
      BY <1>1, ComesRegisters
    <2>2. call.stored /\ act.on
      BY <2>1, RegistersIs
    <2>3. QED
      BY <2>1, <2>2, RegistersNotes
  <1>2. CASE ~Comes(c)
    <2>1. job["ans"][c] \in {"screen", "asked", "connect", "join"}
      BY <1>2, AnsGoes DEF AnsSteps
    <2>2. QED
      BY <2>1, Reached DEF Known
  <1>3. QED
    BY <1>1, <1>2

LEMMA EndedKept ==
  ASSUME TypeOK, Named, Ended, [Next]_vars
  PROVE  Ended'
  <1>0. hist \in HistType /\ Notes /\ Rose \subseteq Channels /\ 0 \notin Channels /\ act.leg \in {0} \cup Channels
    BY Split, Noted, Numbers DEF Typed, Shaped, ActType, HistType, Rose
  <1>1. CASE hist'.by = hist.by
    <2>1. hist.by \in Rose => hist'.by \in Rose'
      BY <1>0, <1>1, Reached
    <2>2. QED
      BY <1>1, <2>1 DEF Ended
  <1>2. CASE hist'.by = 0
    BY <1>2 DEF Ended
  <1>3. ASSUME NEW c \in Channels, EndHandled(c), hist'.by = c, hist'.by # hist.by PROVE Ended'
    <2>1. ~Crosses(Of(c))
      <3>1. ASSUME Crosses(Of(c)) PROVE hist'.by = hist.by
        <4>. DEFINE yes == call.stored /\ Foreign(Of(c))
        <4>1. yes \in BOOLEAN /\ hist' = Crossing(hist, yes)
          BY <3>1 DEF Crosses, Foreign
        <4>. HIDE DEF yes
        <4>2. QED
          BY <1>0, <4>1, CrossingIs
      <3>2. QED
        BY <1>3, <3>1
    <2>2. act.on /\ act.leg \in {0, c} /\ act.answered
      BY <1>3, <2>1 DEF EndHandled
    <2>3. c \in Rose
      BY <1>0, <2>2 DEF Named
    <2>4. QED
      BY <1>3, <2>3, Reached DEF Ended
  <1>4. QED
    BY <1>0, <1>1, <1>2, <1>3 DEF Notes
-----------------------------------------------------------------------------
(* A leg that answered, until it is bridged or refused. *)

\* No guard and no cancellation is undoing a transfer.
Spared(i) == guard[i] \notin {"hang", "clear"} /\ hist.undoes # i

\* A leg being screened or bridged is mapped as long as it is up, and nothing undoes its transfer
\* once it is accepted; the AI has left when the agent joins.
Answering ==
  Live => \A c \in Channels :
    /\ chan[c] \in {"up", "bridged"} /\ job["ans"][c] \in {"screen", "asked", "connect", "join"} => c \in mapped
    /\ job["ans"][c] \in {"connect", "join"} => Spared(Of(c))
    /\ job["ans"][c] = "join" => ~ai

LEMMA AiGone ==
  ASSUME TypeOK, [Next]_vars, ai'
  PROVE  ai
  <1>1. ASSUME NEW i \in Dialled, Ask(i) \/ Originating(i) \/ Guarding(i) \/ Answers(i) \/ PickedUp(i) \/ RingsOut(i)
        PROVE  ai
    BY <1>1 DEF Ask, Originating, Screened, ScreeningFails, Dial, Rings, DialFails, Originated, Guarding, GuardWakes,
                GuardHangsUp, GuardClears, Answers, PickedUp, RingsOut
  <1>2. ASSUME NEW c \in Channels, Presses(c) \/ LegEnds(c) \/ Handling(c) PROVE ai
    BY <1>2 DEF Presses, LegEnds, Handling, Drop, ScreenFails, AsksDigit, Decides, Connects, Joins, EndHandled,
                AbortHangsUp, AbortResumes
  <1>3. CASE Silent \/ CancelBegins \/ Cancelling \/ CallerHangsUp \/ Cleaning \/ UNCHANGED vars
    BY <1>3 DEF Silent, CancelBegins, Cancelling, CancelHangsUp, CancelClears, CallerHangsUp, Cleaning, CleanupStops,
                CleanupHangsUp, CleanupRemoves, vars
  <1>4. QED
    BY <1>1, <1>2, <1>3 DEF Next

LEMMA UndoesStays ==
  ASSUME TypeOK, [Next]_vars, cancel' = cancel
  PROVE  hist'.undoes = hist.undoes
  <1>1. ~CancelBegins /\ ~CancelClears
    <2>1. ~CancelBegins
      BY DEF CancelBegins
    <2>2. cancel \in CancelType
      BY Split DEF Typed, Shaped
    <2>3. ~CancelClears
      BY <2>2 DEF CancelClears, CancelType
    <2>4. QED
      BY <2>1, <2>3
  <1>2. QED
    BY <1>1, Noted DEF Notes

\* A transfer is undone only while nobody has answered it, and while it is the newest.
LEMMA UndoBegins ==
  ASSUME TypeOK, Starts, Named, [Next]_vars, call.stored, NEW i \in Dialled, Spared(i), ~Spared(i)'
  PROVE  act.on /\ ~act.answered /\ Newest(i)
  <1>1. CASE guard'[i] \in {"hang", "clear"}
    <2>1. GuardMoves(i) /\ guard[i] \notin {"hang", "clear"} /\ i \in Channels /\ Of(i) = i
      BY Undoing, Numbers DEF Spared
    <2>2. guard \in [Dialled -> {"no", "sleep", "hang", "clear", "done"}]
      BY DEF TypeOK
    <2>3. GuardWakes(i)
      <3>1. GuardClears(i) => guard'[i] = "done"
        BY <2>2 DEF GuardClears
      <3>2. QED
        BY <1>1, <2>1, <3>1 DEF GuardMoves, GuardHangsUp
    <2>4. Due(i)
      BY <1>1, <2>2, <2>3 DEF GuardWakes
    <2>5. QED
      BY <2>1, <2>4 DEF Due, Named
  <1>2. CASE hist'.undoes = i
    <2>1. hist.undoes # i /\ 0 \notin Dialled
      BY Numbers DEF Spared
    <2>2. CancelBegins /\ orig[i] # "no" /\ ~Foreign(i)
      BY <1>2, <2>1, Noted DEF Notes
    <2>3. QED
      BY <2>2, NewestIs DEF CancelBegins
  <1>3. QED
    BY <1>1, <1>2 DEF Spared

\* What unmaps a leg of a live call that is up: its own handler, with the intention to hang it up.
LEMMA KeepsMapping ==
  ASSUME TypeOK, ~hist'.crossed, Closing, Lives, Starts, Named, [Next]_vars, Live',
         NEW c \in Channels, c \in mapped, c \notin mapped', chan[c] \in {"up", "bridged"}
  PROVE  ScreenFails(c) \/ (Decides(c) /\ job'["ans"][c] = "decline")
  <1>1. Live /\ call.stored /\ ~Cleaning
    BY LiveLasts
  <1>2. act.on /\ act.leg = c => act.answered
    BY <1>1 DEF Named
  <1>3. Unmaps(c)
    BY Mappings DEF MapMoves
  <1>4. ~(c \in Dialled /\ GuardWakes(c) /\ Due(c)) /\ ~(CancelBegins /\ act.leg = c)
    BY <1>1, <1>2 DEF Due, CancelBegins
  <1>5. ~EndHandled(c) /\ ~CleanupRemoves
    BY <1>1 DEF EndHandled, Lives, Cleaning
  <1>6. ASSUME NEW k \in Handlers, AbortResumes(k, c) PROVE FALSE
    <2>1. job[k][c] = "resume" /\ chan[c] # "gone"
      BY <1>6 DEF AbortResumes
    <2>2. QED
      BY <2>1, Names DEF Lives
  <1>7. ASSUME NEW d \in Channels, Comes(d) PROVE FALSE
    <2>1. Of(c) = Of(d)
      BY <1>7, Mannered
    <2>2. Engaged(c)
      BY DEF Engaged
    <2>3. QED
      BY <1>7, <2>1, <2>2, ComesAlone
  <1>8. ScreenFails(c) \/ Decides(c)
    BY <1>3, <1>4, <1>5, <1>6, <1>7 DEF Unmaps
  <1>9. Decides(c) => job'["ans"][c] = "decline"
    <2>1. Decides(c) => job'["ans"][c] = "decline" \/ ~call.stored \/ mapped' = mapped
      BY DecidesTo
    <2>2. QED
      BY <1>1, <2>1
  <1>10. QED
    BY <1>8, <1>9

LEMMA AnsweringKept ==
  ASSUME TypeOK, ~hist'.crossed, Closing, Undoes, Lives, Starts, Named, Answering, [Next]_vars
  PROVE  Answering'
  <1>. SUFFICES ASSUME Live', NEW c \in Channels
       PROVE  /\ chan'[c] \in {"up", "bridged"} /\ job'["ans"][c] \in {"screen", "asked", "connect", "join"} => c \in mapped'
              /\ job'["ans"][c] \in {"connect", "join"} => Spared(Of(c))'
              /\ job'["ans"][c] = "join" => ~ai'
    BY DEF Answering
  <1>1. Live /\ call.stored
    BY LiveLasts
  <1>2. /\ chan[c] \in {"up", "bridged"} /\ job["ans"][c] \in {"screen", "asked", "connect", "join"} => c \in mapped
        /\ job["ans"][c] \in {"connect", "join"} => Spared(Of(c))
        /\ job["ans"][c] = "join" => ~ai
    BY <1>1 DEF Answering
  <1>3. AnsSteps(c) /\ LegMoves(c)
    BY AnsGoes, Legs
  <1>4. act.on /\ Newest(Of(c)) => job["ans"][c] = "idle" \/ act.answered
    BY <1>1 DEF Named
  <1>5. ASSUME chan'[c] \in {"up", "bridged"}, job'["ans"][c] \in {"screen", "asked", "connect", "join"}
        PROVE  c \in mapped'
    <2>1. CASE Comes(c)
      <3>1. Registers(c)
        BY <2>1, ComesRegisters
      <3>2. act.on
        BY <1>1, <1>5, <3>1, RegistersIs
      <3>3. mapped' = {c}
        BY <1>1, <3>1, <3>2, RegistersIs
      <3>4. QED
        BY <3>3
    <2>2. CASE ~Comes(c)
      <3>1. chan[c] \in {"up", "bridged"}
        BY <1>3, <1>5, <2>2 DEF LegMoves
      <3>2. job["ans"][c] \in {"screen", "asked", "connect", "join"}
        BY <1>3, <1>5, <2>2 DEF AnsSteps
      <3>3. c \in mapped
        BY <1>2, <3>1, <3>2
      <3>4. ~(Decides(c) /\ job'["ans"][c] = "decline")
        BY <1>5
      <3>5. ~ScreenFails(c)
        <4>1. ScreenFails(c) => job'["ans"][c] = "hang"
          <5>1. At("ans", c, "hang") \in JobType /\ At("ans", c, "hang")["ans"][c] = "hang"
            BY AtTyped, Names
          <5>2. QED
            BY <5>1, UnregisteredIs, Names DEF ScreenFails
        <4>2. QED
          BY <1>5, <4>1
      <3>6. QED
        BY <3>1, <3>3, <3>4, <3>5, KeepsMapping
    <2>3. QED
      BY <2>1, <2>2
  <1>6. ASSUME job'["ans"][c] \in {"connect", "join"} PROVE Spared(Of(c))'
    <2>0. Of(c) \in Dialled /\ 0 \notin Dialled
      BY Numbers
    <2>1. CASE job["ans"][c] \in {"connect", "join"}
      BY <1>1, <1>2, <1>4, <2>0, <2>1, UndoBegins
    <2>2. CASE job["ans"][c] \notin {"connect", "join"}
      <3>1. Decides(c)
        BY <1>3, <1>6, <2>2 DEF AnsSteps
      <3>2. cancel.pc = "idle" /\ guard[Of(c)] \notin {"hang", "clear"} /\ guard' = guard /\ cancel' = cancel
        BY <2>0, <3>1 DEF Decides, Returned
      <3>3. hist.undoes = 0 /\ hist'.undoes = hist.undoes
        BY <3>2, UndoesStays DEF Undoes
      <3>4. QED
        BY <2>0, <3>2, <3>3 DEF Spared
    <2>3. QED
      BY <2>1, <2>2
  <1>7. ASSUME job'["ans"][c] = "join" PROVE ~ai'
    <2>1. CASE job["ans"][c] = "join"
      BY <1>2, <2>1, AiGone
    <2>2. CASE job["ans"][c] # "join"
      <3>1. Connects(c)
        BY <1>3, <1>7, <2>2 DEF AnsSteps
      <3>2. QED
        BY <3>1 DEF Connects
    <2>3. QED
      BY <2>1, <2>2
  <1>8. QED
    BY <1>5, <1>6, <1>7

-----------------------------------------------------------------------------
(* The agent on the line. *)

\* The agent is bridged, or has left and the end of its leg will end the call: the action and the
\* mapping say so, and nothing is left that would change them.
Joined(c) ==
  /\ chan[c] = "bridged" \/ c \in ends
  /\ c \in mapped /\ act.on /\ act.answered /\ act.leg = c /\ Spared(Of(c))
  /\ \A k \in Handlers : job[k][c] = "idle"

\* Unless a bridging went wrong unnoticed, a leg that is up at rest is the agent's, and a caller
\* whom the AI has left has an agent, or one about to join.
Owned ==
  Live /\ ~hist.alone =>
    /\ \A c \in Channels : chan[c] \in {"up", "bridged"} /\ job["ans"][c] = "idle" => Joined(c)
    /\ ~ai => \E c \in Channels : job["ans"][c] = "join" \/ Joined(c)

LEMMA JoinedKept ==
  ASSUME TypeOK, ~hist'.crossed, Closing, Undoes, Lives, Starts, Named, [Next]_vars, Live',
         NEW c \in Channels, Joined(c)
  PROVE  Joined(c)'
  <1>0. Live /\ call.stored /\ ~Cleaning /\ act \in ActType /\ Of(c) \in Dialled
    BY LiveLasts, Split, Numbers DEF Typed, Shaped
  <1>1. /\ chan[c] = "bridged" \/ c \in ends
        /\ c \in mapped /\ act.on /\ act.answered /\ act.leg = c /\ Spared(Of(c))
        /\ \A k \in Handlers : job[k][c] = "idle"
    BY DEF Joined
  <1>2. Engaged(c) /\ There(c) /\ Newest(Of(c))
    BY <1>1 DEF Engaged, There, Named
  <1>3. ASSUME NEW d \in Channels, Comes(d) PROVE FALSE
    <2>1. Newest(Of(d)) /\ Of(d) \in Dialled
      BY <1>0, <1>1, <1>3, Own, Numbers
    <2>2. Of(c) = Of(d)
      BY <1>0, <1>2, <2>1, OneNewest
    <2>3. QED
      BY <1>2, <1>3, <2>2, ComesAlone
  <1>4. ASSUME NEW d \in Channels, Newest(Of(d)), NEW k \in Handlers, job[k][d] # "idle" PROVE FALSE
    <2>1. There(d) /\ Of(d) \in Dialled
      BY <1>4, Numbers DEF There, Engaged
    <2>2. Of(d) = Of(c)
      BY <1>0, <1>2, <1>4, <2>1, OneNewest
    <2>3. d = c
      BY <1>2, <2>1, <2>2, OneLeg
    <2>4. QED
      BY <1>1, <1>4, <2>3
  <1>5. ASSUME NEW i \in Dialled, Newest(i) PROVE i = Of(c) /\ (orig[i] = "done" \/ (orig[i] = "rung" /\ i = c))
    <2>1. i = Of(c)
      BY <1>0, <1>2, <1>5, OneNewest
    <2>2. chan[c] # "none"
      BY <1>1 DEF Lives
    <2>3. orig[i] \in {"rung", "done"}
      <3>1. orig[i] \notin {"no", "screen", "hold", "dial"}
        BY <2>1, <2>2, Asked
      <3>2. QED
        BY <3>1 DEF TypeOK
    <2>4. orig[i] = "rung" => c # PickupOf(i)
      BY <2>2 DEF Starts
    <2>5. QED
      BY <2>1, <2>3, <2>4, Numbers
  <1>6. Spared(Of(c))'
    BY <1>0, <1>1, UndoBegins
  <1>7. ~EndHandled(c)
    <2>1. EndHandled(c) => CleanupBegins(c)
      BY <1>0, <1>1 DEF EndHandled, Live
    <2>2. CleanupBegins(c) => ~Live'
      <3>1. call \in CallType
        BY Split DEF Typed, Shaped
      <3>2. QED
        BY <3>1 DEF CleanupBegins, Live, CallType
    <2>3. QED
      BY <2>1, <2>2
  <1>8. chan'[c] = "bridged" \/ c \in ends'
    <2>1. ~(c \in Dialled /\ orig[c] = "dial")
      BY <1>1 DEF Starts, Lives
    <2>2. QED
      BY <1>0, <1>1, <1>3, <1>7, <2>1, Legs DEF LegMoves, Cleaning
  <1>9. c \in mapped'
    <2>1. ~ScreenFails(c) /\ ~Decides(c) /\ ~ \E k \in Handlers : AbortResumes(k, c)
      BY <1>1, Names DEF ScreenFails, Decides, AbortResumes
    <2>2. ~CancelBegins /\ ~Due(c) /\ ~CleanupRemoves
      BY <1>0, <1>1 DEF CancelBegins, Due, Cleaning
    <2>3. QED
      BY <1>1, <1>3, <1>7, <2>1, <2>2, Mappings DEF MapMoves, Unmaps
  <1>10. \A k \in Handlers : job'[k][c] = "idle"
    <2>1. AnsMoves(c) /\ EndMoves(c)
      BY Moves
    <2>2. job'["ans"][c] = "idle"
      BY <1>1, <1>3, <2>1, Names
         DEF AnsMoves, Drop, ScreenFails, AsksDigit, Decides, Connects, Joins, AbortHangsUp, AbortResumes
    <2>3. job'["end"][c] = "idle"
      BY <1>1, <1>7, <2>1, Names DEF EndMoves, AbortHangsUp, AbortResumes
    <2>4. QED
      BY <2>2, <2>3, Names
  <1>11. act'.on /\ act'.answered /\ act'.leg = c
    <2>1. ASSUME NEW d \in Channels, Decides(d) \/ Joins(d) \/ \E k \in Handlers : AbortResumes(k, d) PROVE FALSE
      <3>1. Newest(Of(d))
        BY <1>0, <1>1, <2>1, Own
      <3>2. \E k \in Handlers : job[k][d] # "idle"
        BY <2>1, Names DEF Decides, Joins, AbortResumes
      <3>3. QED
        BY <1>4, <3>1, <3>2
    <2>2. ~CancelClears
      <3>1. ASSUME CancelClears PROVE FALSE
        <4>1. hist.undoes # 0 /\ orig[hist.undoes] # "no" /\ ~Foreign(hist.undoes)
          BY <3>1, Mannered DEF CancelClears, Undoes
        <4>2. hist.undoes \in Dialled
          BY <4>1, Split DEF Typed, HistType
        <4>3. Newest(hist.undoes)
          BY <1>1, <4>1, <4>2, NewestIs
        <4>4. QED
          BY <1>1, <1>5, <4>2, <4>3 DEF Spared
      <3>2. QED
        BY <3>1
    <2>3. \A i \in Dialled : ~GuardClears(i)
      <3>1. ASSUME NEW i \in Dialled, GuardClears(i) PROVE FALSE
        <4>1. Newest(i) /\ guard[i] = "clear"
          BY <1>1, <3>1, Own DEF GuardClears
        <4>2. QED
          BY <1>1, <1>5, <4>1 DEF Spared
      <3>2. QED
        BY <3>1
    <2>4. \A i \in Dialled : ~Ask(i)
      BY <1>1, Mannered
    <2>5. \A i \in Dialled : ~ScreeningFails(i) /\ ~Dial(i) /\ ~DialFails(i)
      <3>1. ASSUME NEW i \in Dialled, ScreeningFails(i) \/ Dial(i) \/ DialFails(i) PROVE FALSE
        <4>1. Newest(i) /\ orig[i] \in {"screen", "hold", "dial"}
          BY <1>0, <1>1, <3>1, Own DEF ScreeningFails, Dial, DialFails
        <4>2. QED
          BY <1>5, <4>1
      <3>2. QED
        BY <3>1
    <2>6. ASSUME NEW i \in Dialled, Originated(i) PROVE act'.on /\ act'.answered /\ act'.leg = c
      <3>1. Newest(i) /\ orig[i] = "rung"
        BY <1>0, <1>1, <2>6, Own DEF Originated
      <3>2. i = c
        BY <1>5, <3>1
      <3>3. QED
        BY <1>0, <1>1, <2>6, <3>2 DEF Originated, ActType
    <2>7. QED
      BY <1>1, <1>3, <2>1, <2>2, <2>3, <2>4, <2>5, <2>6, Writers DEF ActMoves
  <1>12. QED
    BY <1>6, <1>8, <1>9, <1>10, <1>11 DEF Joined

LEMMA AiLeaves ==
  ASSUME TypeOK, [Next]_vars, ai, ~ai', ~Cleaning
  PROVE  \E c \in Channels : Connects(c)
  <1>1. ASSUME NEW i \in Dialled, Ask(i) \/ Originating(i) \/ Guarding(i) \/ Answers(i) \/ PickedUp(i) \/ RingsOut(i)
        PROVE  ai' = ai
    BY <1>1 DEF Ask, Originating, Screened, ScreeningFails, Dial, Rings, DialFails, Originated, Guarding, GuardWakes,
                GuardHangsUp, GuardClears, Answers, PickedUp, RingsOut
  <1>2. ASSUME NEW c \in Channels, Presses(c) \/ LegEnds(c) \/ Handling(c), ~Connects(c) PROVE ai' = ai
    BY <1>2 DEF Presses, LegEnds, Handling, Drop, ScreenFails, AsksDigit, Decides, Joins, EndHandled,
                AbortHangsUp, AbortResumes
  <1>3. ASSUME Silent \/ CancelBegins \/ Cancelling \/ CallerHangsUp \/ UNCHANGED vars PROVE ai' = ai
    BY <1>3 DEF Silent, CancelBegins, Cancelling, CancelHangsUp, CancelClears, CallerHangsUp, vars
  <1>4. QED
    BY <1>1, <1>2, <1>3 DEF Next

\* A bridging that is not noted as failed leaves its leg bridged, and named by the action.
LEMMA JoinsWell ==
  ASSUME TypeOK, Lives, Answering, [Next]_vars, NEW c \in Channels, Joins(c), Live, ~hist'.alone
  PROVE  Joined(c)'
  <1>0. act \in ActType /\ hist \in HistType /\ chan \in [Channels -> {"none", "ringing", "up", "bridged", "gone"}]
    BY Split DEF Typed, Shaped
  <1>1. chan'[c] = "bridged" /\ act.on
    <2>. DEFINE yes == Foreign(Of(c))
                off == chan'[c] # "bridged" \/ ~act.on
                h == [hist EXCEPT !.alone = @ \/ off]
    <2>1. yes \in BOOLEAN /\ off \in BOOLEAN /\ hist' = Crossing(h, yes)
      BY DEF Joins, Foreign
    <2>2. ~off
      <3>. HIDE DEF off
      <3>1. h \in HistType /\ h.alone = (hist.alone \/ off)
        BY <1>0, <2>1 DEF HistType
      <3>. HIDE DEF h, yes
      <3>2. QED
        BY <2>1, <3>1, CrossingIs
    <2>3. QED
      BY <2>2
  <1>2. job["ans"][c] = "join" /\ chan[c] \notin {"none", "ringing", "gone"}
    BY <1>0, <1>1, Names DEF Joins, Lives
  <1>3. c \in mapped /\ Spared(Of(c))
    BY <1>0, <1>2 DEF Answering
  <1>4. act'.on /\ act'.answered /\ act'.leg = c
    BY <1>0, <1>1 DEF Joins, ActType
  <1>5. c \in mapped' /\ Spared(Of(c))'
    <2>1. mapped' = mapped /\ guard' = guard /\ cancel' = cancel
      BY DEF Joins
    <2>2. hist'.undoes = hist.undoes
      BY <2>1, UndoesStays
    <2>3. QED
      BY <1>3, <2>1, <2>2 DEF Spared
  <1>6. \A k \in Handlers : job'[k][c] = "idle"
    <2>1. job["end"][c] = "idle"
      BY <1>2 DEF Lives
    <2>2. job' = At("ans", c, "idle")
      BY DEF Joins
    <2>3. QED
      BY <2>1, <2>2, AtTyped, Names
  <1>7. QED
    BY <1>1, <1>4, <1>5, <1>6 DEF Joined

LEMMA OwnedKept ==
  ASSUME TypeOK, ~hist'.crossed, Closing, Undoes, Lives, Starts, Named, Answering, Owned, [Next]_vars
  PROVE  Owned'
  <1>. SUFFICES ASSUME Live', ~hist'.alone
       PROVE  /\ \A c \in Channels : chan'[c] \in {"up", "bridged"} /\ job'["ans"][c] = "idle" => Joined(c)'
              /\ ~ai' => \E c \in Channels : job'["ans"][c] = "join" \/ Joined(c)'
    BY DEF Owned
  <1>1. Live /\ call.stored /\ ~Cleaning /\ ~hist.alone
    BY LiveLasts, Noted DEF Notes
  <1>2. /\ \A c \in Channels : chan[c] \in {"up", "bridged"} /\ job["ans"][c] = "idle" => Joined(c)
        /\ ~ai => \E c \in Channels : job["ans"][c] = "join" \/ Joined(c)
    BY <1>1 DEF Owned
  <1>3. ASSUME NEW c \in Channels, chan'[c] \in {"up", "bridged"}, job'["ans"][c] = "idle" PROVE Joined(c)'
    <2>1. AnsSteps(c) /\ LegMoves(c)
      BY AnsGoes, Legs
    <2>2. ~Comes(c)
      BY <1>3, ComesRegisters, RegistersIs
    <2>3. chan[c] \in {"up", "bridged"}
      BY <1>3, <2>1, <2>2 DEF LegMoves
    <2>4. CASE job["ans"][c] = "idle"
      BY <1>2, <2>3, <2>4, JoinedKept
    <2>5. CASE Joins(c)
      BY <1>1, <2>5, JoinsWell
    <2>6. CASE Drop(c)
      <3>1. chan'[c] = "gone"
        BY <2>3, <2>6, HungUpIs DEF Drop
      <3>2. QED
        BY <1>3, <3>1
    <2>7. CASE job["ans"][c] = "asked" /\ c \notin mapped'
      <3>1. c \in mapped
        BY <1>1, <2>3, <2>7 DEF Answering
      <3>2. ScreenFails(c) \/ (Decides(c) /\ job'["ans"][c] = "decline")
        BY <2>3, <2>7, <3>1, KeepsMapping
      <3>3. QED
        BY <1>3, <2>7, <3>2 DEF ScreenFails
    <2>8. CASE AbortResumes("ans", c) /\ job["ans"][c] = "resume"
      BY <2>3, <2>8 DEF Lives
    <2>9. QED
      BY <1>1, <1>3, <2>1, <2>2, <2>4, <2>5, <2>6, <2>7, <2>8 DEF AnsSteps
  <1>4. ASSUME ~ai' PROVE \E c \in Channels : job'["ans"][c] = "join" \/ Joined(c)'
    <2>1. CASE ~ai
      <3>1. PICK c \in Channels : job["ans"][c] = "join" \/ Joined(c)
        BY <1>2, <2>1
      <3>2. CASE Joined(c)
        BY <3>2, JoinedKept
      <3>3. CASE job["ans"][c] = "join"
        <4>1. ~Comes(c)
          <5>1. Engaged(c)
            BY <3>3, Names DEF Engaged
          <5>2. QED
            BY <5>1, ComesAlone
        <4>2. job'["ans"][c] = "join" \/ Joins(c)
          BY <3>3, <4>1, AnsGoes DEF AnsSteps
        <4>3. QED
          BY <1>1, <4>2, JoinsWell
      <3>4. QED
        BY <3>1, <3>2, <3>3
    <2>2. CASE ai
      <3>1. PICK c \in Channels : Connects(c)
        BY <1>1, <1>4, <2>2, AiLeaves
      <3>2. job'["ans"][c] = "join"
        BY <3>1, AtTyped, Names DEF Connects
      <3>3. QED
        BY <3>2
    <2>3. QED
      BY <2>1, <2>2
  <1>5. QED
    BY <1>3, <1>4

-----------------------------------------------------------------------------
(* The caller who stays with the AI. *)

\* An answered transfer of a call the AI still serves has a handler that will decide it.
Underway == Live /\ ai /\ act.on /\ act.answered => job["ans"][act.leg] \notin {"idle", "drop"}

\* A dialling whose action is still there remembers what the capture was.
Remembered == Live /\ act.on => \A i \in Dialled : Newest(i) /\ orig[i] = "dial" => act.saved # "none"

NoUndo == cancel.pc = "idle" /\ \A i \in Dialled : guard[i] \notin {"hang", "clear"}

\* A transfer that is not being undone will be: it is dialled, answered, or its guard is due.
Flying ==
  act.on /\ (act.answered \/ \E i \in Dialled : (Newest(i) /\ orig[i] \in {"dial", "rung"}) \/ Due(i))

Aborted == \E k \in Handlers, c \in Channels : job[k][c] \in {"hang", "decline", "resume"}

\* While the AI serves a live call and does not hear it, something is under way that reopens
\* the capture.
Reopens == Live /\ ai => capture \/ hist.deaf \/ speaking \/ ~NoUndo \/ Aborted \/ Flying

\* The request of a transfer that was answered has returned, unless the leg that rang answered.
LEMMA AnsweredLeg ==
  ASSUME TypeOK, Lives, Starts, Named, act.answered, NEW i \in Dialled, Newest(i)
  PROVE  /\ act.on /\ act.leg \in Channels /\ act.leg \in Rose
         /\ orig[i] = "done" \/ (orig[i] = "rung" /\ act.leg = i)
  <1>1. act.on /\ act.leg \in Rose /\ act.leg \in Channels
    BY Split DEF Named, Rose, Typed, HistType
  <1>2. Of(act.leg) = i
    BY <1>1, Numbers, OneNewest DEF Named
  <1>3. chan[act.leg] # "none" /\ orig[i] \notin {"no", "screen", "hold", "dial"}
    BY <1>1, <1>2, Asked
  <1>4. orig[i] \in {"rung", "done"}
    BY <1>3 DEF TypeOK
  <1>5. orig[i] = "rung" => act.leg # PickupOf(i)
    BY <1>3 DEF Starts
  <1>6. act.leg \in {i, PickupOf(i)}
    BY <1>1, <1>2, Numbers
  <1>7. QED
    BY <1>1, <1>4, <1>5, <1>6

LEMMA UnderwayKept ==
  ASSUME TypeOK, ~hist'.crossed, Closing, Lives, Starts, Named, Answering, Underway, [Next]_vars
  PROVE  Underway'
  <1>. SUFFICES ASSUME Live', ai', act'.on, act'.answered PROVE job'["ans"][act'.leg] \notin {"idle", "drop"}
    BY DEF Underway
  <1>0. Live /\ call.stored /\ ~Cleaning /\ ai /\ act \in ActType
    BY LiveLasts, AiGone, Split DEF Typed, Shaped
  <1>1. ASSUME NEW c \in Channels, NEW k \in Handlers PROVE ~AbortResumes(k, c)
    BY <1>0, <1>1 DEF AbortResumes, NoAction, Live
  <1>2. ASSUME NEW d \in Channels, Joins(d) PROVE FALSE
    BY <1>0, <1>2 DEF Joins, Answering
  <1>3. ASSUME NEW d \in Channels, Comes(d) PROVE job'["ans"][act'.leg] \notin {"idle", "drop"}
    <2>1. Registers(d)
      BY <1>3, ComesRegisters
    <2>2. act' = (IF act.on THEN [act EXCEPT !.answered = TRUE, !.leg = d] ELSE act)
          /\ job'["ans"][d] = (IF act.on THEN "screen" ELSE "drop")
      BY <1>0, <2>1, RegistersIs
    <2>3. act.on
      BY <2>2
    <2>4. act'.leg = d
      BY <1>0, <2>2, <2>3 DEF ActType
    <2>5. QED
      BY <2>2, <2>3, <2>4
  <1>4. ASSUME act.on, act.answered, act'.leg = act.leg, \A d \in Channels : ~Comes(d)
        PROVE  job'["ans"][act'.leg] \notin {"idle", "drop"}
    <2>. DEFINE c == act.leg
    <2>1. c \in Channels /\ job["ans"][c] \notin {"idle", "drop"}
      BY <1>0, <1>4, Split DEF Named, Rose, Typed, HistType, Underway
    <2>2. AnsSteps(c)
      BY <2>1, AnsGoes
    <2>3. ASSUME Unmaps(c), job["ans"][c] = "asked", job'["ans"][c] = "idle" PROVE FALSE
      <3>1. ~Due(c) /\ ~CancelBegins /\ ~CleanupRemoves
        BY <1>0, <1>4 DEF Due, CancelBegins, Cleaning
      <3>2. CASE EndHandled(c)
        <4>1. CASE c \in mapped
          <5>1. CleanupBegins(c)
            BY <1>0, <1>4, <3>2, <4>1 DEF EndHandled, Live
          <5>2. call \in CallType
            BY Split DEF Typed, Shaped
          <5>3. QED
            BY <5>1, <5>2 DEF CleanupBegins, Live, CallType
        <4>2. CASE c \notin mapped
          <5>1. job' = job
            BY <3>2, <4>2 DEF EndHandled
          <5>2. QED
            BY <2>3, <5>1
        <4>3. QED
          BY <4>1, <4>2
      <3>3. ~ScreenFails(c)
        BY <2>3 DEF ScreenFails
      <3>4. ~Decides(c)
        BY <1>0, <2>1, <2>3, DecidesTo
      <3>5. QED
        BY <1>1, <1>4, <2>1, <2>3, <3>1, <3>2, <3>3, <3>4, Names DEF Unmaps
    <2>. HIDE DEF c
    <2>4. job'["ans"][c] \notin {"idle", "drop"}
      BY <1>0, <1>1, <1>2, <1>4, <2>1, <2>2, <2>3, Names DEF AnsSteps
    <2>5. QED
      BY <1>4, <2>4 DEF c
  <1>5. ASSUME NEW i \in Dialled, Dial(i), act.on, act' = [act EXCEPT !.saved = IF capture THEN "open" ELSE "shut"]
        PROVE  act.answered /\ act'.leg = act.leg
    BY <1>0, <1>5 DEF ActType
  <1>6. ASSUME NEW i \in Dialled, Originated(i), Newest(i), act' = [act EXCEPT !.leg = i]
        PROVE  act.answered /\ act'.leg = act.leg
    <2>1. act.answered /\ act'.leg = i
      BY <1>0, <1>6, Numbers DEF ActType
    <2>2. orig[i] = "rung"
      BY <1>6 DEF Originated
    <2>3. QED
      BY <1>6, <2>1, <2>2, AnsweredLeg
  <1>7. ASSUME NEW v \in {"accepted", "declined"}, act' = [act EXCEPT !.decided = v]
        PROVE  act.answered /\ act'.leg = act.leg
    BY <1>0, <1>7 DEF ActType
  <1>8. CASE \E d \in Channels : Comes(d)
    BY <1>3, <1>8
  <1>9. CASE \A d \in Channels : ~Comes(d)
    <2>1. act' # NoAction /\ act' # [NoAction EXCEPT !.on = TRUE]
      BY DEF NoAction
    <2>2. act' = act => act.on /\ act.answered /\ act'.leg = act.leg
      OBVIOUS
    <2>3. Goes
      BY ActGoes
    <2>4. act.on /\ act.answered /\ act'.leg = act.leg
      BY <1>2, <1>5, <1>6, <1>7, <1>9, <2>1, <2>2, <2>3 DEF Goes
    <2>5. QED
      BY <1>4, <1>9, <2>4
  <1>10. QED
    BY <1>8, <1>9

\* What moves the task that dials.
OrigMoves(i) ==
  \/ orig'[i] = orig[i]
  \/ Ask(i) \/ Screened(i) \/ ScreeningFails(i)
  \/ Dial(i) /\ orig'[i] = "dial"
  \/ Rings(i) /\ orig'[i] = "rung"
  \/ DialFails(i) \/ Originated(i) \/ CleanupStops

LEMMA Originations ==
  ASSUME TypeOK, [Next]_vars, NEW i \in Dialled
  PROVE  OrigMoves(i)
  <1>. USE DEF session, legs, tasks
  <1>0. orig \in [Dialled -> {"no", "screen", "hold", "dial", "rung", "done"}]
    BY DEF TypeOK
  <1>1. orig' = orig => OrigMoves(i)
    BY DEF OrigMoves
  <1>2. ASSUME NEW e \in Dialled,
               \/ Ask(e) \/ Screened(e) \/ ScreeningFails(e) \/ Dial(e) \/ Rings(e) \/ DialFails(e) \/ Originated(e)
        PROVE  OrigMoves(i)
    <2>1. \E v : orig' = [orig EXCEPT ![e] = v]
      BY <1>2 DEF Ask, Screened, ScreeningFails, Dial, Rings, DialFails, Originated
    <2>2. e = i \/ orig'[i] = orig[i]
      BY <1>0, <2>1
    <2>3. (Dial(e) => orig'[e] = "dial") /\ (Rings(e) => orig'[e] = "rung")
      BY <1>0 DEF Dial, Rings
    <2>4. QED
      BY <1>2, <2>2, <2>3 DEF OrigMoves
  <1>3. ASSUME NEW e \in Dialled, Guarding(e) \/ Answers(e) \/ PickedUp(e) \/ RingsOut(e) PROVE orig' = orig
    BY <1>3 DEF Guarding, GuardWakes, GuardHangsUp, GuardClears, Answers, PickedUp, RingsOut
  <1>4. ASSUME NEW d \in Channels, Presses(d) \/ LegEnds(d) \/ Handling(d) PROVE orig' = orig
    BY <1>4 DEF Handling, Presses, LegEnds, Drop, ScreenFails, AsksDigit, Decides, Connects, Joins, EndHandled,
                AbortHangsUp, AbortResumes
  <1>5. ASSUME Silent \/ CancelBegins \/ Cancelling \/ CallerHangsUp \/ CleanupHangsUp \/ CleanupRemoves \/ UNCHANGED vars
        PROVE  orig' = orig
    BY <1>5 DEF Silent, CancelBegins, Cancelling, CancelHangsUp, CancelClears, CallerHangsUp,
                CleanupHangsUp, CleanupRemoves, vars
  <1>6. CleanupStops => OrigMoves(i)
    BY DEF OrigMoves
  <1>7. QED
    BY <1>1, <1>2, <1>3, <1>4, <1>5, <1>6 DEF Next, Originating, Cleaning

LEMMA RememberedKept ==
  ASSUME TypeOK, ~hist'.crossed, Closing, Ordered, Undoes, Lives, Starts, Remembered, [Next]_vars
  PROVE  Remembered'
  <1>. SUFFICES ASSUME Live', act'.on, NEW i \in Dialled, Newest(i)', orig'[i] = "dial" PROVE act'.saved # "none"
    BY DEF Remembered
  <1>0. Live /\ call.stored /\ ~Cleaning /\ act \in ActType
    BY LiveLasts, Split DEF Typed, Shaped
  <1>1. orig \in [Dialled -> {"no", "screen", "hold", "dial", "rung", "done"}]
    BY DEF TypeOK
  <1>2. ASSUME NEW j \in Dialled, Ask(j) PROVE FALSE
    <2>1. Newest(j)' /\ orig'[j] # "dial"
      BY <1>1, <1>2, OrderKept DEF Ask
    <2>2. ~(j > i) /\ ~(i > j)
      BY <2>1 DEF Newest
    <2>3. i = j
      BY <2>2, BoundsAssumption DEF Dialled
    <2>4. QED
      BY <2>1, <2>3
  <1>3. Newest(i)
    BY <1>2, NewestStays
  <1>4. ASSUME NEW j \in Dialled, Dial(j) PROVE act'.saved # "none"
    <2>1. act' = (IF act.on THEN [act EXCEPT !.saved = IF capture THEN "open" ELSE "shut"] ELSE act)
      BY <1>0, <1>4 DEF Dial
    <2>2. QED
      BY <1>0, <2>1 DEF ActType
  <1>5. CASE orig[i] # "dial"
    <2>1. ~Screened(i) /\ ~ScreeningFails(i) /\ ~DialFails(i) /\ ~Originated(i)
      BY <1>1 DEF Screened, ScreeningFails, DialFails, Originated
    <2>2. Dial(i)
      BY <1>0, <1>2, <1>5, <2>1, Originations DEF OrigMoves, Cleaning
    <2>3. QED
      BY <1>4, <2>2
  <1>6. CASE orig[i] = "dial"
    <2>1. act.on => act.saved # "none"
      BY <1>0, <1>3, <1>6 DEF Remembered
    <2>2. act' # NoAction
      BY DEF NoAction
    <2>3. ASSUME NEW j \in Dialled, act' = [act EXCEPT !.leg = j] PROVE act'.saved = act.saved
      BY <1>0, <2>3 DEF ActType
    <2>4. ASSUME NEW c \in Channels, act' = [act EXCEPT !.answered = TRUE, !.leg = c] PROVE act'.saved = act.saved
      BY <1>0, <2>4 DEF ActType
    <2>5. ASSUME NEW v \in {"accepted", "declined"}, act' = [act EXCEPT !.decided = v] PROVE act'.saved = act.saved
      BY <1>0, <2>5 DEF ActType
    <2>6. ASSUME NEW c \in Channels, act' = [act EXCEPT !.answered = TRUE, !.leg = c, !.decided = "accepted"]
          PROVE  act'.saved = act.saved
      BY <1>0, <2>6 DEF ActType
    <2>7. Goes
      BY ActGoes
    <2>8. QED
      BY <1>2, <1>4, <2>1, <2>2, <2>3, <2>4, <2>5, <2>6, <2>7 DEF Goes
  <1>7. QED
    BY <1>5, <1>6

\* A transfer whose request was not made, or failed, is nowhere under way.
LEMMA NotFlying ==
  ASSUME TypeOK, Lives, Starts, Named, call.stored, NEW i \in Dialled, Newest(i), orig[i] = "screen"
  PROVE  ~Flying
  <1>1. ~act.answered
    BY AnsweredLeg
  <1>2. ASSUME NEW j \in Dialled, Newest(j), orig[j] \in {"dial", "rung"} PROVE FALSE
    BY <1>2, OneNewest
  <1>3. ASSUME NEW j \in Dialled, Due(j) PROVE FALSE
    <2>1. guard[j] = "sleep" /\ act.on /\ act.leg = j /\ j \in Channels /\ Of(j) = j
      BY <1>3, Numbers DEF Due
    <2>2. j = i
      BY <2>1, OneNewest DEF Named
    <2>3. QED
      BY <2>1, <2>2 DEF Starts
  <1>4. QED
    BY <1>1, <1>2, <1>3 DEF Flying

\* Whoever writes the capture reopens it, or leaves something behind that will.
LEMMA WritersReopen ==
  ASSUME TypeOK, ~hist'.crossed, Closing, Lives, Starts, Named, Remembered, Reopens, [Next]_vars, Live', ai',
         \/ Silent \/ CancelClears
         \/ \E i \in Dialled : \/ Ask(i) \/ Dial(i) \/ ((ScreeningFails(i) \/ DialFails(i)) /\ act.on)
                               \/ GuardClears(i)
         \/ \E k \in Handlers, c \in Channels : AbortHangsUp(k, c) \/ AbortResumes(k, c)
  PROVE  Reopens'
  <1>0. Live /\ call.stored /\ ai /\ act \in ActType /\ hist \in HistType
    BY LiveLasts, AiGone, Split DEF Typed, Shaped
  <1>1. capture' = TRUE \/ hist'.deaf => Reopens'
    BY DEF Reopens
  <1>2. CASE Silent \/ CancelClears \/ \E i \in Dialled : GuardClears(i)
    BY <1>0, <1>1, <1>2 DEF Silent, CancelClears, GuardClears
  <1>3. ASSUME NEW k \in Handlers, NEW c \in Channels, AbortResumes(k, c) PROVE Reopens'
    BY <1>0, <1>1, <1>3 DEF AbortResumes, Live
  <1>4. ASSUME NEW k \in Handlers, NEW c \in Channels, AbortHangsUp(k, c) PROVE Reopens'
    <2>1. job'[k][c] = "resume"
      BY <1>4, AtTyped, Names DEF AbortHangsUp
    <2>2. Aborted'
      BY <2>1 DEF Aborted
    <2>3. QED
      BY <2>2 DEF Reopens
  <1>5. ASSUME NEW i \in Dialled, Dial(i) PROVE Reopens'
    <2>1. CASE ~act.on
      <3>. DEFINE yes == call.stored /\ Foreign(i)
                  h == [hist EXCEPT !.deaf = @ \/ ~act.on]
      <3>1. yes \in BOOLEAN /\ hist' = Crossing(h, yes)
        BY <1>5 DEF Dial, Foreign
      <3>2. h \in HistType /\ h.deaf
        BY <1>0, <2>1 DEF HistType
      <3>. HIDE DEF yes, h
      <3>3. hist'.deaf
        BY <3>1, <3>2, CrossingIs
      <3>4. QED
        BY <1>1, <3>3
    <2>2. CASE act.on
      <3>1. act'.on
        BY <1>0, <1>5, <2>2 DEF Dial, ActType
      <3>2. orig'[i] = "dial"
        BY <1>5 DEF Dial, TypeOK
      <3>3. Newest(i)'
        BY <1>0, <1>5, <2>2, Own, Mannered, NewestStays
      <3>4. QED
        BY <3>1, <3>2, <3>3 DEF Reopens, Flying
    <2>3. QED
      BY <2>1, <2>2
  <1>6. ASSUME NEW i \in Dialled, PendingCleared(i), act.on, act.saved # "none" PROVE Reopens'
    <2>. DEFINE shut == act.saved = "shut"
                h == [hist EXCEPT !.deaf = @ \/ shut]
    <2>1. capture' = (act.saved = "open") /\ hist' = Crossing(h, Foreign(i)) /\ Foreign(i) \in BOOLEAN /\ shut \in BOOLEAN
      BY <1>0, <1>6 DEF PendingCleared, Foreign
    <2>2. act.saved \in {"open", "shut"}
      BY <1>0, <1>6 DEF ActType
    <2>3. shut => hist'.deaf
      <3>. HIDE DEF shut
      <3>1. h \in HistType /\ (shut => h.deaf)
        BY <1>0, <2>1 DEF HistType
      <3>. HIDE DEF h
      <3>2. QED
        BY <2>1, <3>1, CrossingIs
    <2>4. QED
      BY <1>1, <2>1, <2>2, <2>3
  <1>7. ASSUME NEW i \in Dialled, DialFails(i), act.on PROVE Reopens'
    <2>1. Newest(i) /\ orig[i] = "dial" /\ PendingCleared(i)
      BY <1>0, <1>7, Own DEF DialFails
    <2>2. act.saved # "none"
      BY <1>0, <1>7, <2>1 DEF Remembered
    <2>3. QED
      BY <1>6, <1>7, <2>1, <2>2
  <1>8. ASSUME capture' = capture, speaking' = speaking, guard' = guard, cancel' = cancel, job' = job, ~Flying
        PROVE  Reopens'
    <2>1. capture \/ hist.deaf \/ speaking \/ ~NoUndo \/ Aborted
      BY <1>0, <1>8 DEF Reopens
    <2>2. (NoUndo' <=> NoUndo) /\ (Aborted' <=> Aborted)
      BY <1>8 DEF NoUndo, Aborted
    <2>3. hist.deaf => hist'.deaf
      BY Noted DEF Notes
    <2>4. QED
      BY <1>8, <2>1, <2>2, <2>3 DEF Reopens
  <1>9. ASSUME NEW i \in Dialled, ScreeningFails(i), act.on PROVE Reopens'
    <2>1. Newest(i) /\ orig[i] = "screen" /\ PendingCleared(i)
      BY <1>0, <1>9, Own DEF ScreeningFails
    <2>2. CASE act.saved # "none"
      BY <1>6, <1>9, <2>1, <2>2
    <2>3. CASE act.saved = "none"
      <3>1. capture' = capture /\ speaking' = speaking /\ guard' = guard /\ cancel' = cancel /\ job' = job
        BY <1>0, <1>9, <2>3 DEF ScreeningFails, PendingCleared
      <3>2. ~Flying
        BY <1>0, <2>1, NotFlying
      <3>3. QED
        BY <1>8, <3>1, <3>2
    <2>4. QED
      BY <2>2, <2>3
  <1>10. ASSUME NEW i \in Dialled, Ask(i) PROVE Reopens'
    <2>1. CASE speaking' = TRUE
      BY <2>1 DEF Reopens
    <2>2. CASE capture' = capture /\ speaking' = speaking
      <3>1. job' = job /\ guard' = guard /\ cancel' = cancel
        BY <1>10 DEF Ask
      <3>2. ~Flying
        BY <1>10, Mannered DEF Flying
      <3>3. QED
        BY <1>8, <2>2, <3>1, <3>2
    <2>3. QED
      BY <1>10, <2>1, <2>2 DEF Ask
  <1>11. QED
    BY <1>2, <1>3, <1>4, <1>5, <1>7, <1>9, <1>10

\* What is under way stays under way until it reopens the capture.
LEMMA OthersKeep ==
  ASSUME TypeOK, ~hist'.crossed, Closing, Lives, Starts, Named, Reopens, [Next]_vars, Live', ai',
         ~Silent, ~CancelClears,
         \A i \in Dialled : ~Ask(i) /\ ~Dial(i) /\ ~((ScreeningFails(i) \/ DialFails(i)) /\ act.on) /\ ~GuardClears(i),
         \A k \in Handlers, c \in Channels : ~AbortHangsUp(k, c) /\ ~AbortResumes(k, c)
  PROVE  Reopens'
  <1>0. Live /\ call.stored /\ ~Cleaning /\ ai /\ act \in ActType
    BY LiveLasts, AiGone, Split DEF Typed, Shaped
  <1>1. capture' = capture /\ speaking' = speaking
    <2>1. ASSUME NEW i \in Dialled, ScreeningFails(i) \/ DialFails(i) PROVE capture' = capture /\ speaking' = speaking
      BY <2>1 DEF ScreeningFails, DialFails, PendingCleared
    <2>2. QED
      BY <2>1, Writers DEF CaptureMoves
  <1>2. CASE capture \/ hist.deaf \/ speaking
    BY <1>1, <1>2, Noted DEF Reopens, Notes
  <1>3. CASE ~NoUndo
    <2>1. ASSUME NEW i \in Dialled, guard[i] \in {"hang", "clear"} PROVE ~NoUndo'
      <3>1. orig[i] = "done"
        BY <2>1 DEF Starts
      <3>2. guard'[i] = guard[i] \/ GuardHangsUp(i)
        BY <1>0, <2>1, <3>1, Undoing DEF GuardMoves, Originated, GuardWakes, Cleaning
      <3>3. GuardHangsUp(i) => guard'[i] = "clear"
        BY DEF GuardHangsUp, TypeOK
      <3>4. QED
        BY <2>1, <3>2, <3>3 DEF NoUndo
    <2>2. ASSUME cancel.pc # "idle" PROVE ~NoUndo'
      <3>1. cancel' = cancel \/ CancelHangsUp
        BY <2>2, Undoing DEF CancelMoves, CancelBegins
      <3>2. CancelHangsUp => cancel'.pc = "clear"
        BY Split DEF CancelHangsUp, Typed, Shaped, CancelType
      <3>3. QED
        BY <2>2, <3>1, <3>2 DEF NoUndo
    <2>3. ~NoUndo'
      BY <1>3, <2>1, <2>2 DEF NoUndo
    <2>4. QED
      BY <2>3 DEF Reopens
  <1>4. CASE Aborted
    <2>1. PICK k \in Handlers, c \in Channels : job[k][c] \in {"hang", "decline", "resume"}
      BY <1>4 DEF Aborted
    <2>2. ~Comes(c)
      <3>1. Engaged(c)
        BY <2>1 DEF Engaged
      <3>2. QED
        BY <3>1, ComesAlone
    <2>3. job'[k][c] \in {"hang", "decline", "resume"}
      <3>1. AnsMoves(c) /\ EndMoves(c)
        BY Moves
      <3>2. QED
        BY <2>1, <2>2, <3>1, Names DEF AnsMoves, EndMoves, Drop, ScreenFails, AsksDigit, Decides, Connects, Joins
    <2>4. QED
      BY <2>3 DEF Aborted, Reopens
  <1>5. CASE Flying
    <2>0. \A i \in Dialled : Newest(i)' <=> Newest(i)
      BY NewestStays
    <2>1. act.on /\ (act.answered \/ \E i \in Dialled : (Newest(i) /\ orig[i] \in {"dial", "rung"}) \/ Due(i))
      BY <1>5 DEF Flying
    <2>2. /\ act'.on
          /\ act.answered => act'.answered
          /\ act'.answered \/ act'.leg = act.leg \/ \E i \in Dialled : Originated(i)
      <3>1. \A i \in Dialled : ~ScreeningFails(i) /\ ~DialFails(i)
        BY <2>1
      <3>2. ASSUME NEW i \in Dialled, Originated(i) PROVE act'.on /\ act'.answered = act.answered
        BY <1>0, <2>1, <3>2 DEF Originated, ActType
      <3>3. ASSUME NEW c \in Channels, Comes(c) PROVE act'.on /\ act'.answered
        <4>1. act' = [act EXCEPT !.answered = TRUE, !.leg = c]
          BY <1>0, <2>1, <3>3, ComesRegisters, RegistersIs
        <4>2. QED
          BY <1>0, <2>1, <4>1 DEF ActType
      <3>4. ASSUME NEW c \in Channels, Decides(c) PROVE act'.on /\ act'.answered = act.answered /\ act'.leg = act.leg
        <4>1. act' = act \/ \E v \in {"accepted", "declined"} : act' = [act EXCEPT !.decided = v]
          BY <3>4 DEF Decides
        <4>2. QED
          BY <1>0, <2>1, <4>1 DEF ActType
      <3>5. ASSUME NEW c \in Channels, Joins(c) PROVE act'.on /\ act'.answered
        BY <1>0, <2>1, <3>5 DEF Joins, ActType
      <3>6. QED
        BY <2>1, <3>1, <3>2, <3>3, <3>4, <3>5, Writers DEF ActMoves
    <2>3. CASE act'.answered
      BY <2>2, <2>3 DEF Flying, Reopens
    <2>4. CASE \E i \in Dialled : Originated(i)
      <3>1. PICK i \in Dialled : Originated(i)
        BY <2>4
      <3>2. guard'[i] = "sleep" /\ i \in mapped' /\ act'.leg = i
        BY <1>0, <2>1, <3>1 DEF Originated, TypeOK, ActType
      <3>3. act'.answered \/ Due(i)'
        BY <2>2, <3>2 DEF Due
      <3>4. QED
        BY <2>2, <3>3 DEF Flying, Reopens
    <2>5. CASE ~act'.answered /\ ~ \E i \in Dialled : Originated(i)
      <3>1. ~act.answered /\ act'.leg = act.leg
        BY <2>2, <2>5
      <3>2. \A c \in Channels : ~Comes(c)
        <4>1. ASSUME NEW c \in Channels, Comes(c) PROVE FALSE
          <5>1. act' = [act EXCEPT !.answered = TRUE, !.leg = c]
            BY <1>0, <2>1, <4>1, ComesRegisters, RegistersIs
          <5>2. QED
            BY <1>0, <2>5, <5>1 DEF ActType
        <4>2. QED
          BY <4>1
      <3>3. ASSUME NEW i \in Dialled, orig[i] \in {"dial", "rung"} PROVE orig'[i] \in {"dial", "rung"}
        BY <1>0, <2>1, <2>5, <3>3, Originations DEF OrigMoves, Screened, ScreeningFails, Cleaning
      <3>4. ASSUME NEW i \in Dialled, Due(i) PROVE Due(i)' \/ ~NoUndo' \/ Aborted'
        <4>1. guard[i] = "sleep" /\ i \in mapped /\ act.leg = i /\ i \in Channels /\ Newest(Of(i))
          BY <1>0, <2>1, <3>4, Numbers DEF Due, Named
        <4>2. CASE GuardWakes(i)
          <5>1. guard'[i] = "hang"
            BY <1>0, <3>4, <4>2 DEF GuardWakes, TypeOK
          <5>2. QED
            BY <5>1 DEF NoUndo
        <4>3. CASE CancelBegins
          <5>1. cancel'.pc # "idle"
            BY <4>3 DEF CancelBegins
          <5>2. QED
            BY <5>1 DEF NoUndo
        <4>4. CASE ~GuardWakes(i) /\ ~CancelBegins
          <5>1. guard'[i] = "sleep"
            BY <1>0, <4>1, <4>4, Undoing DEF GuardMoves, GuardHangsUp, GuardClears, Cleaning
          <5>2. CASE i \in mapped'
            BY <2>2, <2>5, <3>1, <4>1, <5>1, <5>2 DEF Due
          <5>3. CASE i \notin mapped'
            <6>1. ScreenFails(i) \/ Decides(i) \/ EndHandled(i)
              BY <1>0, <3>2, <4>1, <4>4, <5>3, Mappings DEF MapMoves, Unmaps, Cleaning
            <6>2. ~ScreenFails(i) /\ ~Decides(i)
              BY <1>0, <2>1, <3>1, <4>1, Names DEF ScreenFails, Decides, Named
            <6>3. Unregistered({i}, At("end", i, "decline"))
              BY <1>0, <2>1, <3>1, <4>1, <6>1, <6>2 DEF EndHandled, Live
            <6>4. At("end", i, "decline") \in JobType /\ At("end", i, "decline")["end"][i] = "decline"
              BY <4>1, AtTyped, Names
            <6>5. job'["end"][i] = "decline"
              BY <4>1, <6>3, <6>4, UnregisteredIs, Names
            <6>6. QED
              BY <4>1, <6>5, Names DEF Aborted
          <5>4. QED
            BY <5>2, <5>3
        <4>5. QED
          BY <4>2, <4>3, <4>4
      <3>5. QED
        BY <2>0, <2>1, <2>2, <3>1, <3>3, <3>4 DEF Flying, Reopens
    <2>6. QED
      BY <2>3, <2>4, <2>5
  <1>6. QED
    BY <1>0, <1>2, <1>3, <1>4, <1>5 DEF Reopens

LEMMA ReopensKept ==
  ASSUME TypeOK, ~hist'.crossed, Closing, Lives, Starts, Named, Remembered, Reopens, [Next]_vars
  PROVE  Reopens'
  <1>1. CASE Live' /\ ai'
    BY <1>1, WritersReopen, OthersKeep
  <1>2. CASE ~(Live' /\ ai')
    BY <1>2 DEF Reopens
  <1>3. QED
    BY <1>1, <1>2

-----------------------------------------------------------------------------
(* The invariant, and the theorems. *)

\* What holds of transfers that did not cross.
Attended ==
  /\ Lives /\ Starts /\ Named /\ Known /\ Ended
  /\ Answering /\ Owned /\ Underway /\ Remembered /\ Reopens

IInv == TypeOK /\ Closing /\ Ordered /\ Undoes /\ (hist.crossed \/ Attended)

LEMMA InitIInv == Init => IInv
  <1>1. ASSUME Init PROVE IInv
    <2>1. Closing /\ Lives /\ Known /\ Ended
      BY <1>1, Names DEF Init, Closing, Lives, Known, Ended, Rose
    <2>2. Starts /\ Ordered /\ Undoes
      BY <1>1, Numbers, Names DEF Init, Starts, Rose, Ordered, Undoes
    <2>3. Named /\ Answering /\ Underway /\ Remembered
      BY <1>1, Names, Numbers DEF Init, Named, Answering, Underway, Remembered, NoAction
    <2>4. Owned /\ Reopens
      BY <1>1 DEF Init, Owned, Reopens
    <2>5. QED
      BY <1>1, <2>1, <2>2, <2>3, <2>4, InitTyped DEF IInv, Attended
  <1>2. QED
    BY <1>1

LEMMA NextIInv == IInv /\ [Next]_vars => IInv'
  <1>1. SUFFICES ASSUME IInv, [Next]_vars PROVE IInv'
    OBVIOUS
  <1>2. TypeOK' /\ Closing' /\ Ordered' /\ Undoes'
    BY <1>1, TypeKept, ClosingKept, OrderKept DEF IInv
  <1>3. ASSUME ~hist'.crossed PROVE Attended'
    <2>1. TypeOK /\ Closing /\ Ordered /\ Undoes /\ ~hist.crossed
      BY <1>1, <1>3, Noted DEF IInv, Notes
    <2>2. /\ Lives /\ Starts /\ Named /\ Known /\ Ended
          /\ Answering /\ Owned /\ Underway /\ Remembered /\ Reopens
      BY <1>1, <2>1 DEF IInv, Attended
    <2>3. Lives' /\ Starts' /\ Named' /\ Known' /\ Ended'
      BY <1>1, <1>3, <2>1, <2>2, LivesKept, StartsKept, NamedKept, KnownKept, EndedKept
    <2>4. Answering' /\ Owned'
      BY <1>1, <1>3, <2>1, <2>2, AnsweringKept, OwnedKept
    <2>5. Underway' /\ Remembered' /\ Reopens'
      BY <1>1, <1>3, <2>1, <2>2, UnderwayKept, RememberedKept, ReopensKept
    <2>6. QED
      BY <2>3, <2>4, <2>5 DEF Attended
  <1>4. QED
    BY <1>2, <1>3 DEF IInv

LEMMA IInvAlways == Spec => []IInv
  <1>1. QED
    BY InitIInv, NextIInv, PTL DEF Spec

\* Only the caller, or a leg that answered a transfer, ends the call: the end of a leg that rang out,
\* was picked up elsewhere, or was hung up before it answered spares the caller (_cleanup_call).
\* A leg that answered while its transfer was being given up ends the call too, and tasks of two
\* transfers that crossed are excepted.
THEOREM LegEndSparesHolds == Spec => []LegEndSpares
  <1>1. IInv => LegEndSpares
    BY DEF IInv, Attended, Ended, Rose, LegEndSpares
  <1>2. QED
    BY <1>1, IInvAlways, PTL

\* No agent's leg is left up beside the call: a leg that is up at rest is mapped and named by the
\* action, so that its end ends the call and the call's its (_handle_attended_transfer_answered, the
\* guard, cancel_transfer), whatever fails in between.  Excepted: a bridging that failed unnoticed
\* or came after the transfer was cleared, and transfers that crossed.
THEOREM LegsOwnedHolds == Spec => []LegsOwned
  <1>1. IInv => LegsOwned
    <2>1. ASSUME IInv, ~hist.crossed, Idle, Live, NEW c \in Channels, chan[c] \in {"up", "bridged"}, ~hist.alone
          PROVE  c \in mapped /\ act.on /\ act.leg = c
      <3>1. job["ans"][c] = "idle"
        BY <2>1, Names DEF Idle
      <3>2. QED
        BY <2>1, <3>1 DEF IInv, Attended, Owned, Joined
    <2>2. QED
      BY <2>1 DEF LegsOwned
  <1>2. QED
    BY <1>1, IInvAlways, PTL

\* A caller on the line at rest has the AI or an agent: the AI leaves only for an agent who accepted
\* (_attended_transfer_finalize_bridge), and the end of a bridged leg ends the call.  Excepted as for
\* LegsOwned.
THEOREM CallerServedHolds == Spec => []CallerServed
  <1>1. IInv => CallerServed
    <2>1. ASSUME IInv, ~hist.crossed, Idle, Live, ~ai, ~hist.alone PROVE \E c \in Channels : chan[c] = "bridged"
      <3>1. PICK c \in Channels : job["ans"][c] = "join" \/ Joined(c)
        BY <2>1 DEF IInv, Attended, Owned
      <3>2. job["ans"][c] = "idle" /\ c \notin ends
        BY <2>1, Names DEF Idle
      <3>3. QED
        BY <3>1, <3>2 DEF Joined
    <2>2. QED
      BY <2>1 DEF CallerServed
  <1>2. QED
    BY <1>1, IInvAlways, PTL

\* A caller left with the AI is heard by it: every way a transfer ends reopens the capture that
\* dialling closed, however the leg, the guard, the digit and a cancellation interleave with the
\* AI's own speech.  Excepted: a failed dial or screening that restores a capture the AI's speech had
\* closed, a dial after its action was cancelled, and transfers that crossed.
THEOREM CallerHeardHolds == Spec => []CallerHeard
  <1>1. IInv => CallerHeard
    <2>1. ASSUME IInv, ~hist.crossed, Idle, Live, ai PROVE capture \/ hist.deaf
      <3>1. ~speaking /\ NoUndo /\ ~Aborted
        BY <2>1 DEF Idle, NoUndo, Aborted
      <3>2. ~Flying
        <4>1. ASSUME act.on, act.answered PROVE FALSE
          <5>1. act.leg \in Channels
            BY <2>1, <4>1, Split DEF IInv, Attended, Named, Rose, Typed, HistType
          <5>2. job["ans"][act.leg] = "idle"
            BY <2>1, <5>1, Names DEF Idle
          <5>3. QED
            BY <2>1, <4>1, <5>2 DEF IInv, Attended, Underway
        <4>2. ~ \E i \in Dialled : orig[i] \in {"dial", "rung"} \/ Due(i)
          BY <2>1 DEF Idle
        <4>3. QED
          BY <4>1, <4>2 DEF Flying
      <3>3. QED
        BY <2>1, <3>1, <3>2 DEF IInv, Attended, Reopens
    <2>2. QED
      BY <2>1 DEF CallerHeard
  <1>2. QED
    BY <1>1, IInvAlways, PTL

=============================================================================
