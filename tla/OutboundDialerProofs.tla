------------------------ MODULE OutboundDialerProofs ------------------------
(***************************************************************************)
(* Proofs about OutboundDialer, for any campaign size, any number of       *)
(* attempts, operator requests and crashes.                                *)
(*                                                                         *)
(* The invariants stand on one another: TypeOK; CallsHeld, the path of one *)
(* call, which survives every fault and crash; WatchesHeld, what the stale *)
(* watchdog may close; CountedAll, whoever is engaged in a call is in the  *)
(* map the capacity check counts; and Slots, the count itself.             *)
(***************************************************************************)
EXTENDS OutboundDialer, FiniteSetTheorems, TLAPS

-----------------------------------------------------------------------------
(* Type correctness *)

LEMMA InitType == Init => TypeOK
<1> USE NoneAssumption DEF Init
<1>1. Init => StoreType
  BY DEF StoreType, CampaignStatus, LeadState, Attempt, Outcome
<1>2. Init => MapsType
  BY DEF MapsType, Meta, Kind, NoMeta
<1>3. Init => TasksType
  BY DEF TasksType, SchedTask, HndTask, AmdTask, Idle, NoTask, NoAmd, SchedPc, HndPc, AmdPc
<1>4. Init => AstType /\ HistType
  BY DEF AstType, HistType
<1>5. Init => SchedHolds /\ AmdHolds
  BY DEF SchedHolds, AmdHolds, Idle, NoAmd
<1> QED BY <1>1, <1>2, <1>3, <1>4, <1>5 DEF TypeOK

\* What the handlers write keeps the type of what they overwrite.
LEMMA FinishType ==
  ASSUME StoreType, NEW a \in Attempts, NEW o \in Outcome
  PROVE  Finish(a, o) \in [Attempts -> Attempt]
<1>1. att[a] \in Attempt
  BY DEF StoreType
<1>2. [att[a] EXCEPT !.st = "ended", !.outcome = o] \in Attempt
  BY <1>1 DEF Attempt
<1> QED BY <1>2 DEF Finish, StoreType

LEMMA SetLeadType ==
  ASSUME StoreType, NEW a \in Attempts, NEW known, NEW s \in LeadState
  PROVE  SetLead(att[a].lead, known, s) \in [Leads -> LeadState]
BY DEF SetLead, StoreType

LEMMA KillType ==
  ASSUME TasksType, AstType, NEW a \in Attempts, HangUp(a) \/ Kill(a)
  PROVE  /\ dst' \in [Attempts -> {"none", "event", "finish", "settle", "done"}]
         /\ chan' \in [Attempts -> {"none", "ringing", "stasis", "amd", "back", "dead"}]
BY DEF HangUp, Kill, TasksType, AstType

LEMMA MapsKept ==
  ASSUME MapsType, TasksType, NEW a \in Attempts, PopBoth(a) \/ Release(a)
  PROVE  /\ metaA' \in [Attempts -> Meta]
         /\ metaC' \in [Attempts -> Kind]
<1>1. NoMeta \in Meta /\ "none" \in Kind
  BY DEF NoMeta, Meta, Kind
<1>2. CASE PopBoth(a)
  BY <1>1, <1>2 DEF PopBoth, MapsType
<1>3. CASE Release(a)
  BY <1>1, <1>3 DEF Release, MapsType
<1> QED BY <1>2, <1>3

LEMMA TakeMetaType ==
  ASSUME MapsType, NEW a \in Attempts, NEW k \in Kind, TakeMeta(a, k)
  PROVE  /\ metaA' \in [Attempts -> Meta]
         /\ metaC' \in [Attempts -> Kind]
BY DEF TakeMeta, MapsType, Meta

\* The decisions of a tick move the scheduler's program counter and nothing else
\* but the campaign's status; the leads they can lease are queued.
Ticks == TickList \/ TickDecide \/ Recheck \/ MarkCompleted

LEMMA TickMoves ==
  ASSUME TypeOK, Ticks
  PROVE  /\ sched' \in SchedTask /\ sched'.pc \in {"idle", "decide", "complete", "lease"}
         /\ campaign' \in CampaignStatus
         /\ UNCHANGED <<lead, att, up, maps, hnd, amdh, dst, retry, sess, ast, hist>>
<1> USE DEF TypeOK, StoreType, TasksType, store
<1>1. UNCHANGED <<lead, att, up, maps, hnd, amdh, dst, retry, sess, ast, hist>>
  BY DEF Ticks, TickList, TickDecide, Recheck, MarkCompleted
<1>2. campaign' \in CampaignStatus
  BY DEF Ticks, TickList, TickDecide, Recheck, MarkCompleted, CampaignStatus
<1>3. \/ sched' = Idle
      \/ sched' = [sched EXCEPT !.pc = "decide", !.quiet = Occupied = {}]
      \/ sched' = [sched EXCEPT !.pc = "complete"]
      \/ sched' = [sched EXCEPT !.pc = "lease"]
  BY DEF Ticks, TickList, TickDecide, Recheck, MarkCompleted
<1>4. CASE sched' = Idle
  BY <1>1, <1>2, <1>4 DEF Idle, SchedTask, SchedPc
<1>5. CASE sched' = [sched EXCEPT !.pc = "decide", !.quiet = Occupied = {}]
  BY <1>1, <1>2, <1>5 DEF SchedTask, SchedPc
<1>6. CASE sched' = [sched EXCEPT !.pc = "complete"]
  BY <1>1, <1>2, <1>6 DEF SchedTask, SchedPc
<1>7. CASE sched' = [sched EXCEPT !.pc = "lease"]
  BY <1>1, <1>2, <1>7 DEF SchedTask, SchedPc
<1> QED BY <1>3, <1>4, <1>5, <1>6, <1>7

LEMMA LeaseMoves ==
  ASSUME TypeOK, Lease
  PROVE  /\ sched' \in SchedTask /\ sched'.pc \in {"idle", "recheck", "create"}
         /\ sched'.pc = "create" => sched'.lead \in Leads
         /\ lead' \in [Leads -> LeadState]
         /\ \A l \in Leads : lead'[l] # lead[l] => lead[l] \in {"pending", "leased"}
<1> USE DEF TypeOK, StoreType, TasksType
<1>1. CASE \E l \in Leads : /\ lead[l] \in {"pending", "leased"}
                            /\ lead' = [lead EXCEPT ![l] = "leased"]
                            /\ sched' = [sched EXCEPT !.pc = "create", !.lead = l]
  BY <1>1 DEF SchedTask, SchedPc, LeadState
<1>2. CASE lead' = lead /\ sched' = Idle
  BY <1>2 DEF Idle, SchedTask, SchedPc
<1>3. CASE lead' = lead /\ sched' = [sched EXCEPT !.pc = "recheck"]
  BY <1>3 DEF SchedTask, SchedPc
<1> QED BY <1>1, <1>2, <1>3 DEF Lease


LEMMA SchedulerType ==
  ASSUME TypeOK, Scheduler
  PROVE  TypeOK'
<1> USE NoneAssumption DEF TypeOK, StoreType, MapsType, TasksType, AstType, HistType,
       SchedHolds, AmdHolds, store, maps, tasks, ast, hist
<1>1. CASE TickBegin
  <2> DEFINE tracked == {b \in Attempts : metaA[b].kind = "tracked"}
             snap == {[att |-> b, ch |-> metaA[b].ch] : b \in tracked}
  <2>1. snap \in SUBSET [att : Attempts, ch : BOOLEAN]
    BY DEF Meta
  <2>2. sched' = [pc |-> "scan", lead |-> None, att |-> None, ch |-> FALSE,
                  snap |-> snap, quiet |-> FALSE]
    BY <1>1 DEF TickBegin, Idle
  <2> HIDE DEF snap
  <2>3. sched' \in SchedTask /\ SchedHolds'
    BY <2>1, <2>2 DEF SchedTask, SchedPc
  <2> QED BY <1>1, <2>3 DEF TickBegin
<1>2. CASE ScanSkip
  BY <1>2 DEF ScanSkip, SchedTask, SchedPc
<1>3. CASE ScanStale
  <2>1. PICK m \in sched.snap :
          sched' = [sched EXCEPT !.pc = IF m.ch THEN "probe" ELSE "staleFinish",
                                 !.att = m.att, !.ch = m.ch, !.snap = sched.snap \ {m}]
    BY <1>3 DEF ScanStale
  <2>2. m.att \in Attempts /\ m.ch \in BOOLEAN
    BY DEF SchedTask
  <2>3. sched' \in SchedTask
    BY <2>1, <2>2 DEF SchedTask, SchedPc
  <2>4. SchedHolds'
    BY <2>1, <2>2 DEF SchedTask
  <2> QED BY <1>3, <2>3, <2>4 DEF ScanStale
<1>4. CASE ScanProbeFails
  BY <1>4 DEF ScanProbeFails, SchedTask, SchedPc
<1>5. CASE ScanProbe
  BY <1>5, KillType DEF ScanProbe, SchedTask, SchedPc
<1>6. CASE StaleFinish
  <2>1. att' \in [Attempts -> Attempt]
    BY <1>6, FinishType DEF StaleFinish, Outcome
  <2>2. sched' \in SchedTask /\ SchedHolds'
    BY <1>6 DEF StaleFinish, SchedTask, SchedPc, Idle
  <2> QED BY <1>6, <2>1, <2>2 DEF StaleFinish
<1>7. CASE StaleLead
  BY <1>7, SetLeadType DEF StaleLead, SchedTask, SchedPc, Meta, Kind, NoMeta, LeadState
<1>8. CASE Ticks
  BY <1>8, TickMoves
<1>9. CASE Lease
  BY <1>9, LeaseMoves DEF Lease
<1>12. CASE CreateAttempt
  <2>1. PICK b \in Attempts :
          /\ att' = [att EXCEPT ![b] = [st |-> "open", lead |-> sched.lead, outcome |-> "none"]]
          /\ metaA' = [metaA EXCEPT ![b] = [kind |-> "tracked", ch |-> FALSE]]
          /\ sched' = [sched EXCEPT !.pc = "mark", !.att = b]
    BY <1>12 DEF CreateAttempt
  <2>2. sched.lead \in Leads
    BY <1>12 DEF CreateAttempt
  <2>3. att' \in [Attempts -> Attempt]
    BY <2>1, <2>2 DEF Attempt, Outcome
  <2>4. metaA' \in [Attempts -> Meta]
    BY <2>1 DEF Meta, Kind
  <2>5. sched' \in SchedTask /\ SchedHolds'
    BY <2>1, <2>2 DEF SchedTask, SchedPc
  <2> QED BY <1>12, <2>3, <2>4, <2>5 DEF CreateAttempt
<1>13. CASE MarkDialing
  BY <1>13 DEF MarkDialing, SchedTask, SchedPc, LeadState
<1>14. CASE MarkRefused
  <2>1. att' \in [Attempts -> Attempt]
    BY <1>14, FinishType DEF MarkRefused, Outcome
  <2>2. metaA' \in [Attempts -> Meta]
    BY <1>14 DEF MarkRefused, Meta, Kind, NoMeta
  <2>3. sched' \in SchedTask /\ SchedHolds'
    BY <1>14 DEF MarkRefused, SchedTask, SchedPc, Idle
  <2> QED BY <1>14, <2>1, <2>2, <2>3 DEF MarkRefused
<1>15. CASE Originate
  BY <1>15 DEF Originate, SchedTask, SchedPc
<1>16. CASE OriginateRefused
  <2>1. att' \in [Attempts -> Attempt]
    BY <1>16, FinishType DEF OriginateRefused, Outcome
  <2>2. sched' \in SchedTask /\ SchedHolds'
    BY <1>16 DEF OriginateRefused, SchedTask, SchedPc, Idle
  <2> QED BY <1>16, <2>1, <2>2 DEF OriginateRefused
<1>17. CASE RefusedLead
  BY <1>17 DEF RefusedLead, SchedTask, SchedPc, Idle, SetLead, LeadState, Meta, Kind, NoMeta
<1>18. CASE OriginateReply
  BY <1>18 DEF OriginateReply, SchedTask, SchedPc, Idle, Meta, Kind, RejectedKind
<1>19. CASE OriginateLost
  BY <1>19 DEF OriginateLost, SchedTask, SchedPc, Idle
<1> QED BY <1>1, <1>2, <1>3, <1>4, <1>5, <1>6, <1>7, <1>8, <1>9, <1>12, <1>13, <1>14, <1>15, <1>16, <1>17, <1>18, <1>19 DEF Scheduler, Ticks

LEMMA AnsweredType ==
  ASSUME TypeOK, NEW a \in Attempts, Answered(a)
  PROVE  TypeOK'
<1> USE NoneAssumption DEF TypeOK, StoreType, MapsType, TasksType, AstType, HistType,
       SchedHolds, AmdHolds, store, maps, tasks, ast, hist
<1>1. CASE AnsLookup(a)
  <2>1. metaA[a].kind \in Kind
    BY DEF Meta
  <2>2. metaA' \in [Attempts -> Meta] /\ metaC' \in [Attempts -> Kind]
    BY <1>1, <2>1, TakeMetaType DEF AnsLookup
  <2>3. hnd' \in [Attempts -> HndTask]
    <3>1. CASE metaA[a].kind = "none"
      BY SMTT(20), <1>1, <3>1 DEF AnsLookup, HndTask, HndPc
    <3>2. CASE hnd' = [hnd EXCEPT ![a] = [pc |-> "mark", known |-> metaA[a].kind \in Owned]]
      BY <3>2 DEF HndTask, HndPc
    <3> QED BY <1>1, <3>1, <3>2 DEF AnsLookup
  <2> QED BY <1>1, <2>2, <2>3 DEF AnsLookup
<1>2. CASE AnsRecover(a)
  <2>1. metaA' \in [Attempts -> Meta] /\ metaC' \in [Attempts -> Kind]
    BY <1>2, TakeMetaType DEF AnsRecover, Kind
  <2>2. hnd' \in [Attempts -> HndTask]
    <3>1. CASE hnd' = [hnd EXCEPT ![a] = [pc |-> "mark", known |-> TRUE]]
      BY <3>1 DEF HndTask, HndPc, NoTask
    <3>2. CASE hnd' = [hnd EXCEPT ![a] = [pc |-> "rejFinish", known |-> att[a].st = "open"]]
      BY <3>2 DEF HndTask, HndPc, NoTask
    <3> QED BY <1>2, <3>1, <3>2 DEF AnsRecover
  <2> QED BY <1>2, <2>1, <2>2 DEF AnsRecover
<1>3. CASE AnsMark(a)
  <2>1. lead' \in [Leads -> LeadState]
    BY <1>3, SetLeadType DEF AnsMark, LeadState
  <2>2. hnd' \in [Attempts -> HndTask]
    BY <1>3 DEF AnsMark, HndTask, HndPc, NoTask
  <2> QED BY <1>3, <2>1, <2>2 DEF AnsMark
<1>4. CASE AnsConfirm(a)
  <2>1. hnd' \in [Attempts -> HndTask]
    <3>1. CASE hnd' = [hnd EXCEPT ![a].pc = "hop"]
      BY <3>1 DEF HndTask, HndPc, NoTask
    <3>2. CASE hnd' = [hnd EXCEPT ![a].pc = "rejFinish"]
      BY <3>2 DEF HndTask, HndPc, NoTask
    <3> QED BY <1>4, <3>1, <3>2 DEF AnsConfirm
  <2> QED BY <1>4, <2>1 DEF AnsConfirm
<1>5. CASE AnsHop(a)
  BY <1>5 DEF AnsHop, HndTask, HndPc, NoTask
<1>6. CASE AnsHopReply(a)
  <2>1. hnd' \in [Attempts -> HndTask]
    <3>1. CASE hnd' = [hnd EXCEPT ![a] = NoTask]
      BY <3>1 DEF HndTask, HndPc, NoTask
    <3>2. CASE hnd' = [hnd EXCEPT ![a].pc = "hopFinish"]
      BY <3>2 DEF HndTask, HndPc, NoTask
    <3> QED BY <1>6, <3>1, <3>2 DEF AnsHopReply
  <2>2. /\ chan' \in [Attempts -> {"none", "ringing", "stasis", "amd", "back", "dead"}]
        /\ awaiting' \in SUBSET Attempts
    BY <1>6 DEF AnsHopReply
  <2> QED BY <1>6, <2>1, <2>2 DEF AnsHopReply
<1>7. CASE AnsHopFinish(a)
  <2>1. att' \in [Attempts -> Attempt]
    BY <1>7, FinishType DEF AnsHopFinish, Outcome
  <2>2. hnd' \in [Attempts -> HndTask]
    BY <1>7 DEF AnsHopFinish, HndTask, HndPc, NoTask
  <2> QED BY <1>7, <2>1, <2>2 DEF AnsHopFinish
<1>8. CASE AnsHopLead(a)
  <2>1. lead' \in [Leads -> LeadState]
    BY <1>8, SetLeadType DEF AnsHopLead, LeadState
  <2>2. hnd' \in [Attempts -> HndTask]
    BY <1>8 DEF AnsHopLead, HndTask, HndPc, NoTask
  <2> QED BY <1>8, <2>1, <2>2 DEF AnsHopLead
<1>9. CASE AnsHopHangup(a)
  BY <1>9, KillType DEF AnsHopHangup, HndTask, HndPc, NoTask
<1>10. CASE RejFinish(a)
  <2>1. att' \in [Attempts -> Attempt]
    BY <1>10, FinishType DEF RejFinish, Outcome
  <2>2. hnd' \in [Attempts -> HndTask]
    BY <1>10 DEF RejFinish, HndTask, HndPc, NoTask
  <2> QED BY <1>10, <2>1, <2>2 DEF RejFinish
<1>11. CASE RejLead(a)
  <2>1. lead' \in [Leads -> LeadState]
    BY <1>11, SetLeadType DEF RejLead, LeadState
  <2>2. metaA' \in [Attempts -> Meta] /\ metaC' \in [Attempts -> Kind]
    BY <1>11, TakeMetaType DEF RejLead, Kind, RejectedKind
  <2>3. hnd' \in [Attempts -> HndTask]
    BY <1>11 DEF RejLead, HndTask, HndPc
  <2> QED BY <1>11, <2>1, <2>2, <2>3 DEF RejLead
<1>12. CASE RejHangup(a)
  <2>1. hnd' \in [Attempts -> HndTask]
    BY <1>12 DEF RejHangup, HndTask, HndPc, NoTask
  <2>2. CASE Kill(a) /\ Release(a)
    BY <1>12, <2>1, <2>2, KillType, MapsKept DEF RejHangup, Release
  <2>3. CASE retry' = retry \cup {a} /\ UNCHANGED <<metaA, metaC, chan, dst>>
    BY <1>12, <2>1, <2>3 DEF RejHangup
  <2> QED BY <1>12, <2>2, <2>3 DEF RejHangup
<1> QED BY <1>1, <1>2, <1>3, <1>4, <1>5, <1>6, <1>7, <1>8, <1>9, <1>10, <1>11, <1>12 DEF Answered

LEMMA AmdResultType ==
  ASSUME TypeOK, NEW a \in Attempts, AmdResult(a)
  PROVE  TypeOK'
<1> USE NoneAssumption DEF TypeOK, StoreType, MapsType, TasksType, AstType, HistType,
       SchedHolds, AmdHolds, store, maps, tasks, ast, hist
<1>1. CASE AmdStart(a)
  BY <1>1 DEF AmdStart, AmdTask, AmdPc, NoAmd
<1>2. CASE AmdFinish(a)
  <2>1. amdh[a].res \in Outcome
    BY <1>2 DEF AmdFinish, Outcome
  <2>2. att' \in [Attempts -> Attempt]
    BY <1>2, <2>1, FinishType DEF AmdFinish
  <2>3. amdh' \in [Attempts -> AmdTask]
    BY <1>2 DEF AmdFinish, AmdTask, AmdPc
  <2> QED BY <1>2, <2>2, <2>3 DEF AmdFinish
<1>3. CASE AmdSettle(a)
  <2>1. lead' \in [Leads -> LeadState]
    BY <1>3, SetLeadType DEF AmdSettle, LeadState
  <2>2. metaA' \in [Attempts -> Meta] /\ metaC' \in [Attempts -> Kind]
    BY <1>3, MapsKept DEF AmdSettle
  <2>3. amdh' \in [Attempts -> AmdTask] /\ AmdHolds'
    BY <1>3 DEF AmdSettle, AmdTask, AmdPc
  <2> QED BY <1>3, <2>1, <2>2, <2>3 DEF AmdSettle
<1>4. CASE AmdHangup(a)
  BY <1>4, KillType DEF AmdHangup, AmdTask, AmdPc, NoAmd
<1>5. CASE AmdHuman(a)
  <2>1. lead' \in [Leads -> LeadState]
    BY <1>5, SetLeadType DEF AmdHuman, LeadState
  <2>2. amdh' \in [Attempts -> AmdTask]
    BY <1>5 DEF AmdHuman, AmdTask, AmdPc, NoAmd
  <2> QED BY <1>5, <2>1, <2>2 DEF AmdHuman
<1>6. CASE AmdAttach(a)
  BY <1>6 DEF AmdAttach, AmdTask, AmdPc, NoAmd
<1> QED BY <1>1, <1>2, <1>3, <1>4, <1>5, <1>6 DEF AmdResult

LEMMA ChannelGoneType ==
  ASSUME TypeOK, NEW a \in Attempts, ChannelGone(a)
  PROVE  TypeOK'
<1> USE NoneAssumption DEF TypeOK, StoreType, MapsType, TasksType, AstType, HistType,
       SchedHolds, AmdHolds, store, maps, tasks, ast, hist
<1>1. CASE Destroyed(a)
  <2>1. dst' \in [Attempts -> {"none", "event", "finish", "settle", "done"}]
    BY <1>1 DEF Destroyed
  <2>2. metaA' \in [Attempts -> Meta] /\ metaC' \in [Attempts -> Kind]
    BY <1>1, MapsKept DEF Destroyed, Kind
  <2>3. retry' \in SUBSET Attempts /\ awaiting' \in SUBSET Attempts
    BY <1>1 DEF Destroyed, Release
  <2> QED BY <1>1, <2>1, <2>2, <2>3 DEF Destroyed
<1>2. CASE DestroyedFinish(a)
  BY <1>2, FinishType DEF DestroyedFinish, Outcome
<1>3. CASE DestroyedSettle(a)
  BY <1>3, SetLeadType, MapsKept DEF DestroyedSettle, LeadState
<1> QED BY <1>1, <1>2, <1>3 DEF ChannelGone

LEMMA SessionType ==
  ASSUME TypeOK, NEW a \in Attempts, Session(a)
  PROVE  TypeOK'
<1> USE NoneAssumption DEF TypeOK, StoreType, MapsType, TasksType, AstType, HistType,
       SchedHolds, AmdHolds, store, maps, tasks, ast, hist
<1>1. CASE SessionIds(a)
  BY <1>1 DEF SessionIds
<1>2. CASE SessionEnds(a)
  BY <1>2, KillType DEF SessionEnds
<1>3. CASE PersistAttempt(a)
  BY <1>3, FinishType DEF PersistAttempt, Outcome
<1>4. CASE PersistLead(a)
  <2>1. lead' \in [Leads -> LeadState]
    BY <1>4 DEF PersistLead, SetLead, LeadState
  <2>2. metaA' \in [Attempts -> Meta] /\ metaC' \in [Attempts -> Kind]
    BY <1>4, MapsKept DEF PersistLead
  <2> QED BY <1>4, <2>1, <2>2 DEF PersistLead
<1>5. CASE PersistSkipped(a)
  BY <1>5 DEF PersistSkipped
<1> QED BY <1>1, <1>2, <1>3, <1>4, <1>5 DEF Session

LEMMA AsteriskType ==
  ASSUME TypeOK, NEW a \in Attempts,
         Answer(a) \/ RetryHangup(a) \/ AmdReturn(a) \/ ChannelDies(a) \/ BecomeStale(a)
  PROVE  TypeOK'
<1> USE NoneAssumption DEF TypeOK, StoreType, MapsType, TasksType, AstType, HistType,
       SchedHolds, AmdHolds, store, maps, tasks, ast, hist
<1>1. CASE Answer(a)
  <2>1. CASE up
    <3>1. hnd' = [hnd EXCEPT ![a] = [pc |-> "lookup", known |-> FALSE]]
      BY <1>1, <2>1 DEF Answer
    <3>2. hnd' \in [Attempts -> HndTask]
      BY <3>1 DEF HndTask, HndPc
    <3> QED BY <1>1, <2>1, <3>2 DEF Answer
  <2>2. CASE ~up
    BY <1>1, <2>2 DEF Answer
  <2> QED BY <2>1, <2>2
<1>2. CASE RetryHangup(a)
  <2>1. metaA' \in [Attempts -> Meta] /\ metaC' \in [Attempts -> Kind]
    BY <1>2, MapsKept DEF RetryHangup
  <2> QED BY <1>2, <2>1, KillType DEF RetryHangup, Release
<1>3. CASE AmdReturn(a)
  <2>1. CASE up
    <3>1. amdh' = [amdh EXCEPT ![a] = [pc |-> "start", known |-> FALSE, res |-> "none"]]
      BY <1>3, <2>1 DEF AmdReturn, NoAmd
    <3>2. amdh' \in [Attempts -> AmdTask] /\ AmdHolds'
      BY <3>1 DEF AmdTask, AmdPc
    <3> QED BY <1>3, <2>1, <3>2 DEF AmdReturn
  <2>2. CASE ~up
    BY <1>3, <2>2 DEF AmdReturn
  <2> QED BY <2>1, <2>2
<1>4. CASE ChannelDies(a)
  BY <1>4, KillType DEF ChannelDies
<1>5. CASE BecomeStale(a)
  BY <1>5 DEF BecomeStale
<1> QED BY <1>1, <1>2, <1>3, <1>4, <1>5

LEMMA CrashType ==
  ASSUME TypeOK, Crash \/ Restart
  PROVE  TypeOK'
<1> USE NoneAssumption DEF TypeOK, StoreType, MapsType, TasksType, AstType, HistType,
       SchedHolds, AmdHolds, store, maps, tasks, ast, hist
<1>1. CASE Crash
  <2>1. NoMeta \in Meta /\ NoTask \in HndTask /\ NoAmd \in AmdTask /\ "none" \in Kind
    BY DEF NoMeta, Meta, Kind, NoTask, HndTask, HndPc, NoAmd, AmdTask, AmdPc
  <2>2. Idle \in SchedTask /\ Idle.pc = "idle" /\ NoAmd.pc = "none"
    BY DEF Idle, SchedTask, SchedPc, NoAmd
  <2>3. MapsType'
    BY <1>1, <2>1 DEF Crash
  <2>4. TasksType'
    BY <1>1, <2>1, <2>2 DEF Crash
  <2>5. SchedHolds' /\ AmdHolds'
    BY <1>1, <2>2 DEF Crash
  <2> QED BY <1>1, <2>3, <2>4, <2>5 DEF Crash
<1>2. CASE Restart
  <2>1. PICK old \in SUBSET Attempts :
          /\ att' = [b \in Attempts |-> IF b \in old
                THEN [att[b] EXCEPT !.st = "ended", !.outcome = "stale_restart"] ELSE att[b]]
          /\ lead' = [l \in Leads |->
                IF /\ lead[l] \in {"dialing", "leased", "amd_pending", "in_progress"}
                   /\ \E b \in old : att[b].lead = l
                THEN "failed" ELSE lead[l]]
    BY <1>2 DEF Restart
  <2>2. ASSUME NEW b \in Attempts
        PROVE  [att[b] EXCEPT !.st = "ended", !.outcome = "stale_restart"] \in Attempt
    <3>1. att[b] \in Attempt
      OBVIOUS
    <3> QED BY <3>1 DEF Attempt, Outcome
  <2>3. att' \in [Attempts -> Attempt]
    BY <2>1, <2>2
  <2>4. lead' \in [Leads -> LeadState]
    BY <2>1 DEF LeadState
  <2> QED BY <1>2, <2>3, <2>4 DEF Restart
<1> QED BY <1>1, <1>2

LEMMA OperatorType ==
  ASSUME TypeOK, Operator
  PROVE  TypeOK'
<1> USE DEF TypeOK, StoreType, MapsType, TasksType, AstType, HistType,
       SchedHolds, AmdHolds, maps, tasks, ast, hist, OperatorTurn
<1>1. CASE SetStatus
  BY <1>1 DEF SetStatus, CampaignStatus, LeadState
<1>2. ASSUME NEW l \in Leads, CancelLead(l) \/ IgnoreLead(l)
      PROVE  TypeOK'
  BY <1>2 DEF CancelLead, IgnoreLead, LeadState
<1>3. ASSUME NEW l \in Leads, RecycleLead(l)
      PROVE  TypeOK'
  <2>1. ASSUME NEW b \in Attempts
        PROVE  [att[b] EXCEPT !.st = "deleted"] \in Attempt
    BY ZenonT(60) DEF Attempt
  <2>2. att' \in [Attempts -> Attempt]
    BY <1>3, <2>1 DEF RecycleLead
  <2>3. lead' \in [Leads -> LeadState] /\ requeues' \in [Leads -> Nat]
    BY <1>3 DEF RecycleLead, LeadState
  <2> QED BY <1>3, <2>2, <2>3 DEF RecycleLead
<1> QED BY <1>1, <1>2, <1>3 DEF Operator

LEMMA NextType ==
  ASSUME TypeOK, [Next]_vars
  PROVE  TypeOK'
<1>1. CASE Next
  BY <1>1, SchedulerType, AnsweredType, AmdResultType, ChannelGoneType, SessionType,
     AsteriskType, CrashType, OperatorType DEF Next
<1>2. CASE UNCHANGED vars
  BY <1>2 DEF vars, TypeOK, StoreType, MapsType, TasksType, AstType, HistType,
     SchedHolds, AmdHolds
<1> QED BY <1>1, <1>2

\* Type correctness, for every campaign and every number of calls and crashes.
THEOREM TypeCorrect == Spec => []TypeOK
<1> QED BY InitType, NextType, PTL DEF Spec

-----------------------------------------------------------------------------
(* No automatic redial *)

Queued == {"pending", "leased"}

\* No handler puts a lead back in the queue.
LEMMA SetLeadQueue ==
  ASSUME StoreType, NEW k, NEW known, NEW s \in LeadState \ Queued, NEW l \in Leads,
         SetLead(k, known, s)[l] \in Queued
  PROVE  lead[l] \in Queued
BY DEF SetLead, StoreType

HandlerStep(a) ==
    \/ Answer(a) \/ Answered(a) \/ RetryHangup(a) \/ AmdReturn(a) \/ AmdResult(a)
    \/ ChannelDies(a) \/ ChannelGone(a) \/ Session(a) \/ BecomeStale(a)

LEMMA HandlersKeepQueue ==
  ASSUME TypeOK, NEW a \in Attempts, HandlerStep(a)
  PROVE  /\ dials' = dials /\ requeues' = requeues /\ sched' = sched
         /\ \A l \in Leads : lead'[l] \in Queued => lead[l] \in Queued
<1> USE DEF TypeOK, store, maps, tasks, ast, hist, LeadState, Queued
<1>1. CASE Answered(a)
  BY <1>1, SetLeadQueue DEF Answered, AnsLookup, AnsRecover, AnsMark, AnsConfirm, AnsHop, AnsHopReply,
     AnsHopFinish, AnsHopLead, AnsHopHangup, RejFinish, RejLead, RejHangup
<1>2. CASE AmdResult(a)
  BY <1>2, SetLeadQueue DEF AmdResult, AmdStart, AmdFinish, AmdSettle, AmdHangup, AmdHuman, AmdAttach
<1>3. CASE ChannelGone(a)
  <2>1. CASE Destroyed(a) \/ DestroyedFinish(a)
    BY <2>1 DEF Destroyed, DestroyedFinish
  <2>2. CASE DestroyedSettle(a)
    BY <2>2, SetLeadQueue DEF DestroyedSettle
  <2> QED BY <1>3, <2>1, <2>2 DEF ChannelGone
<1>4. CASE Session(a)
  <2>1. CASE SessionIds(a) \/ SessionEnds(a) \/ PersistAttempt(a) \/ PersistSkipped(a)
    BY <2>1 DEF SessionIds, SessionEnds, PersistAttempt, PersistSkipped
  <2>2. CASE PersistLead(a)
    <3>1. PICK s \in {"completed", "failed"} : lead' = SetLead(att[a].lead, TRUE, s)
      BY <2>2 DEF PersistLead
    <3> QED BY <2>2, <3>1, SetLeadQueue DEF PersistLead
  <2> QED BY <1>4, <2>1, <2>2 DEF Session
<1>5. CASE Answer(a) \/ RetryHangup(a) \/ AmdReturn(a) \/ ChannelDies(a) \/ BecomeStale(a)
  BY <1>5 DEF Answer, RetryHangup, AmdReturn, ChannelDies, BecomeStale
<1> QED BY <1>1, <1>2, <1>3, <1>4, <1>5 DEF HandlerStep

\* A step that neither dials nor recycles keeps the budget, if it leaves claims
\* and the queue no larger.
LEMMA BudgetFrame ==
  ASSUME TypeOK, DialBudget, dials' = dials, requeues' = requeues,
         \A l \in Leads : sched'.pc = "originate" /\ sched'.lead = l
                          => sched.pc = "originate" /\ sched.lead = l,
         \A l \in Leads : lead'[l] \in Queued => lead[l] \in Queued
  PROVE  DialBudget'
<1> SUFFICES ASSUME NEW l \in Leads
             PROVE  /\ dials[l] + Claim(l)' <= requeues[l] + 1
                    /\ lead'[l] \in Queued => dials[l] + Claim(l)' <= requeues[l]
  BY DEF DialBudget, Queued
<1>1. dials[l] \in Nat /\ requeues[l] \in Nat
  BY DEF TypeOK, HistType
<1>2. Claim(l)' <= Claim(l) /\ Claim(l) \in {0, 1} /\ Claim(l)' \in {0, 1}
  BY DEF Claim
<1>3. /\ dials[l] + Claim(l) <= requeues[l] + 1
      /\ lead'[l] \in Queued => dials[l] + Claim(l) <= requeues[l]
  BY DEF DialBudget, Queued
<1> QED BY <1>1, <1>2, <1>3

LEMMA BudgetScheduler ==
  ASSUME TypeOK, DialBudget, Scheduler
  PROVE  DialBudget'
<1> USE DEF TypeOK, store, maps, tasks, ast, hist
<1>1. CASE TickBegin \/ ScanSkip \/ ScanStale \/ ScanProbeFails \/ ScanProbe \/ StaleFinish
  BY <1>1, BudgetFrame DEF TickBegin, ScanSkip, ScanStale, ScanProbeFails, ScanProbe,
     StaleFinish, Idle, TasksType, SchedTask
<1>2. CASE StaleLead
  BY <1>2, BudgetFrame, SetLeadQueue DEF StaleLead, TasksType, SchedTask, LeadState, Queued
<1>3. CASE Ticks
  BY <1>3, TickMoves, BudgetFrame
<1>4. CASE Lease
  BY <1>4, LeaseMoves, BudgetFrame DEF Lease, Queued
<1>5. CASE CreateAttempt \/ MarkRefused \/ OriginateRefused \/ OriginateReply \/ OriginateLost
  <2>1. sched'.pc # "originate"
    <3>1. CASE CreateAttempt
      <4>1. PICK a \in Attempts : sched' = [sched EXCEPT !.pc = "mark", !.att = a]
        BY <3>1 DEF CreateAttempt
      <4> QED BY <4>1 DEF TasksType, SchedTask
    <3>2. CASE OriginateRefused
      <4>1. sched' = [sched EXCEPT !.pc = "refused"]
        BY <3>2 DEF OriginateRefused
      <4> QED BY <4>1 DEF TasksType, SchedTask
    <3>3. CASE MarkRefused \/ OriginateReply \/ OriginateLost
      <4>1. sched' = Idle
        BY <3>3 DEF MarkRefused, OriginateReply, OriginateLost
      <4> QED BY <4>1 DEF Idle
    <3> QED BY <1>5, <3>1, <3>2, <3>3
  <2> QED BY <1>5, <2>1, BudgetFrame DEF CreateAttempt, MarkRefused, OriginateRefused,
       OriginateReply, OriginateLost
<1>6. CASE RefusedLead
  BY <1>6, BudgetFrame, SetLeadQueue DEF RefusedLead, Idle, LeadState, Queued
<1>7. CASE MarkDialing
  <2> SUFFICES ASSUME NEW l \in Leads
               PROVE  /\ dials[l] + Claim(l)' <= requeues[l] + 1
                      /\ lead'[l] \in Queued => dials[l] + Claim(l)' <= requeues[l]
    BY <1>7 DEF MarkDialing, DialBudget, Queued
  <2>1. dials[l] \in Nat /\ requeues[l] \in Nat
    BY DEF HistType
  <2>2. Claim(l) = 0 /\ (lead[l] \in Queued => dials[l] <= requeues[l]) /\ dials[l] <= requeues[l] + 1
    BY <1>7, <2>1 DEF MarkDialing, Claim, DialBudget, Queued
  <2>3. CASE l = sched.lead
    <3>1. lead'[l] \notin Queued /\ lead[l] \in Queued /\ Claim(l)' = 1
      BY <1>7, <2>3 DEF MarkDialing, Claim, Queued, StoreType, TasksType, SchedTask
    <3> QED BY <2>1, <2>2, <3>1
  <2>4. CASE l # sched.lead
    <3>1. lead'[l] = lead[l] /\ Claim(l)' = 0
      BY <1>7, <2>4 DEF MarkDialing, Claim, StoreType, TasksType, SchedTask
    <3> QED BY <2>1, <2>2, <3>1
  <2> QED BY <2>3, <2>4
<1>8. CASE Originate
  <2> SUFFICES ASSUME NEW l \in Leads
               PROVE  /\ dials'[l] + Claim(l)' <= requeues[l] + 1
                      /\ lead[l] \in Queued => dials'[l] + Claim(l)' <= requeues[l]
    BY <1>8 DEF Originate, DialBudget, Queued
  <2>1. dials[l] \in Nat /\ requeues[l] \in Nat
    BY DEF HistType
  <2>2. dials'[l] + Claim(l)' = dials[l] + Claim(l)
    BY <1>8, <2>1 DEF Originate, Claim, HistType, TasksType, SchedTask
  <2> QED BY <2>2 DEF DialBudget, Queued
<1> QED BY <1>1, <1>2, <1>3, <1>4, <1>5, <1>6, <1>7, <1>8 DEF Scheduler, Ticks

LEMMA BudgetStep ==
  ASSUME TypeOK, DialBudget, [Next]_vars
  PROVE  DialBudget'
<1> USE DEF TypeOK
<1>1. ASSUME NEW a \in Attempts, HandlerStep(a)
      PROVE  DialBudget'
  BY <1>1, HandlersKeepQueue, BudgetFrame
<1>2. CASE Crash
  BY <1>2, BudgetFrame DEF Crash, Idle, store
<1>3. CASE Restart
  <2>1. \A l \in Leads : lead'[l] \in Queued => lead[l] \in Queued
    BY <1>3 DEF Restart, Queued
  <2> QED BY <1>3, <2>1, BudgetFrame DEF Restart, tasks, hist
<1>4. CASE SetStatus \/ \E l \in Leads : CancelLead(l) \/ IgnoreLead(l)
  <2>1. \A l \in Leads : lead'[l] \in Queued => lead[l] \in Queued
    BY <1>4 DEF SetStatus, CancelLead, IgnoreLead, Queued, StoreType
  <2> QED BY <1>4, <2>1, BudgetFrame DEF SetStatus, CancelLead, IgnoreLead, OperatorTurn, tasks
<1>5. ASSUME NEW k \in Leads, RecycleLead(k)
      PROVE  DialBudget'
  <2> SUFFICES ASSUME NEW l \in Leads
               PROVE  /\ dials[l] + Claim(l) <= requeues'[l] + 1
                      /\ lead'[l] \in Queued => dials[l] + Claim(l) <= requeues'[l]
    BY <1>5 DEF RecycleLead, OperatorTurn, tasks, DialBudget, Queued, Claim
  <2>1. dials[l] \in Nat /\ requeues[l] \in Nat /\ Claim(l) \in {0, 1}
    BY DEF HistType, Claim
  <2>2. CASE l = k
    <3>1. requeues'[l] = requeues[l] + 1
      BY <1>5, <2>2 DEF RecycleLead, HistType
    <3> QED BY <2>1, <3>1 DEF DialBudget
  <2>3. CASE l # k
    <3>1. requeues'[l] = requeues[l] /\ lead'[l] = lead[l]
      BY <1>5, <2>3 DEF RecycleLead, HistType, StoreType
    <3> QED BY <2>1, <3>1 DEF DialBudget, Queued
  <2> QED BY <2>2, <2>3
<1>6. CASE UNCHANGED vars
  BY <1>6, BudgetFrame DEF vars
<1> QED BY <1>1, <1>2, <1>3, <1>4, <1>5, <1>6, BudgetScheduler DEF Next, HandlerStep, Operator

\* No automatic redial: crashes, restarts, expired leases and the watchdog never
\* dial a lead again; only an operator's recycle does.
THEOREM NoAutoRedialHolds == Spec => []NoAutoRedial
<1>1. Init => DialBudget
  BY DEF Init, DialBudget, Claim, Idle
<1>2. TypeOK /\ DialBudget => NoAutoRedial
  BY DEF TypeOK, HistType, DialBudget, Claim, NoAutoRedial
<1> QED BY <1>1, <1>2, TypeCorrect, BudgetStep, PTL DEF Spec

-----------------------------------------------------------------------------
(* FailClosed *)

\* A step keeps GateHeld when it confirms nothing away and puts nobody past the
\* gate who is neither there already nor confirmed.
LEMMA GateFrame ==
  ASSUME GateHeld, ctxOk \subseteq ctxOk',
         \A a \in Attempts : PastTheGate(a)' => PastTheGate(a) \/ a \in ctxOk
  PROVE  GateHeld'
BY DEF GateHeld

LEMMA GateHandlers ==
  ASSUME TypeOK, GateHeld, NEW b \in Attempts, HandlerStep(b)
  PROVE  GateHeld'
<1> USE DEF TypeOK, MapsType, TasksType, AstType, HndTask, AmdTask, store, maps, tasks, ast, hist
<1>1. CASE Answer(b) \/ RetryHangup(b) \/ AmdReturn(b) \/ ChannelDies(b) \/ BecomeStale(b)
  <2>1. CASE Answer(b)
    BY <2>1, GateFrame DEF Answer, PastTheGate
  <2>2. CASE RetryHangup(b) \/ ChannelDies(b) \/ BecomeStale(b)
    BY <2>2, GateFrame DEF RetryHangup, ChannelDies, BecomeStale, Kill, Alive, PastTheGate
  <2>3. CASE AmdReturn(b)
    BY <2>3, GateFrame DEF AmdReturn, NoAmd, PastTheGate, GateHeld
  <2> QED BY <1>1, <2>1, <2>2, <2>3
<1>2. CASE Answered(b)
  <2>1. CASE AnsLookup(b)
    <3>1. UNCHANGED <<chan, ctxOk, amdh, sess>> /\ \A a \in Attempts : a # b => hnd'[a] = hnd[a]
      BY <2>1 DEF AnsLookup
    <3>2. hnd'[b].pc \notin {"hop", "hopReply"}
      BY <2>1 DEF AnsLookup, NoTask
    <3> QED BY <3>1, <3>2, GateFrame DEF PastTheGate
  <2>10. CASE AnsRecover(b)
    BY <2>10, GateFrame DEF AnsRecover, PastTheGate
  <2>11. CASE AnsMark(b)
    BY <2>11, GateFrame DEF AnsMark, PastTheGate
  <2>2. CASE AnsConfirm(b)
    <3>1. \A a \in Attempts : a # b => (PastTheGate(a)' <=> PastTheGate(a))
      BY <2>2 DEF AnsConfirm, PastTheGate
    <3>2. b \in ctxOk' \/ (PastTheGate(b)' => PastTheGate(b))
      BY <2>2 DEF AnsConfirm, PastTheGate
    <3> QED BY <2>2, <3>1, <3>2 DEF AnsConfirm, GateHeld
  <2>3. CASE AnsHop(b)
    BY <2>3, GateFrame DEF AnsHop, PastTheGate
  <2>4. CASE AnsHopReply(b)
    BY <2>4, GateFrame DEF AnsHopReply, NoTask, PastTheGate
  <2>5. CASE AnsHopFinish(b)
    BY <2>5, GateFrame DEF AnsHopFinish, PastTheGate
  <2>9. CASE AnsHopLead(b)
    BY <2>9, GateFrame DEF AnsHopLead, PastTheGate
  <2>6. CASE RejFinish(b)
    BY <2>6, GateFrame DEF RejFinish, PastTheGate
  <2>12. CASE RejLead(b)
    BY <2>12, GateFrame DEF RejLead, PastTheGate
  <2>7. CASE AnsHopHangup(b)
    BY <2>7, GateFrame DEF AnsHopHangup, HangUp, Kill, Alive, NoTask, PastTheGate
  <2>8. CASE RejHangup(b)
    BY <2>8, GateFrame DEF RejHangup, Kill, Alive, NoTask, PastTheGate
  <2> QED BY <1>2, <2>1, <2>2, <2>3, <2>4, <2>5, <2>6, <2>7, <2>8, <2>9, <2>10, <2>11, <2>12 DEF Answered
<1>3. CASE AmdResult(b)
  <2>1. CASE AmdStart(b) \/ AmdFinish(b) \/ AmdSettle(b) \/ AmdHuman(b)
    BY <2>1, GateFrame DEF AmdStart, AmdFinish, AmdSettle, AmdHuman, PastTheGate
  <2>2. CASE AmdHangup(b)
    BY <2>2, GateFrame DEF AmdHangup, HangUp, Kill, Alive, NoAmd, PastTheGate
  <2>3. CASE AmdAttach(b)
    BY <2>3, GateFrame DEF AmdAttach, NoAmd, PastTheGate
  <2> QED BY <1>3, <2>1, <2>2, <2>3 DEF AmdResult
<1>4. CASE ChannelGone(b)
  BY <1>4, GateFrame DEF ChannelGone, Destroyed, DestroyedFinish, DestroyedSettle, PastTheGate
<1>5. CASE Session(b)
  <2>1. CASE SessionEnds(b)
    BY <2>1, GateFrame DEF SessionEnds, HangUp, Kill, Alive, PastTheGate
  <2>2. CASE SessionIds(b) \/ PersistAttempt(b) \/ PersistLead(b) \/ PersistSkipped(b)
    BY <2>2, GateFrame DEF SessionIds, PersistAttempt, PersistLead, PersistSkipped, PastTheGate
  <2> QED BY <1>5, <2>1, <2>2 DEF Session
<1> QED BY <1>1, <1>2, <1>3, <1>4, <1>5 DEF HandlerStep

LEMMA GateScheduler ==
  ASSUME TypeOK, GateHeld, Scheduler
  PROVE  GateHeld'
<1> USE DEF TypeOK, MapsType, TasksType, AstType, store, maps, tasks, ast, hist
<1>1. CASE TickBegin \/ ScanSkip \/ ScanStale \/ ScanProbeFails \/ StaleFinish \/ StaleLead
  BY <1>1, GateFrame DEF TickBegin, ScanSkip, ScanStale, ScanProbeFails, StaleFinish,
     StaleLead, PastTheGate
<1>2. CASE ScanProbe
  BY <1>2, GateFrame DEF ScanProbe, HangUp, Kill, Alive, PastTheGate
<1>3. CASE Ticks \/ Lease
  BY <1>3, GateFrame, TickMoves DEF Lease, PastTheGate
<1>4. CASE CreateAttempt \/ MarkDialing \/ MarkRefused
  BY <1>4, GateFrame DEF CreateAttempt, MarkDialing, MarkRefused, PastTheGate
<1>5. CASE Originate
  BY <1>5, GateFrame DEF Originate, PastTheGate
<1>6. CASE OriginateRefused \/ RefusedLead \/ OriginateReply \/ OriginateLost
  BY <1>6, GateFrame DEF OriginateRefused, RefusedLead, OriginateReply, OriginateLost, PastTheGate
<1> QED BY <1>1, <1>2, <1>3, <1>4, <1>5, <1>6 DEF Scheduler, Ticks

\* The mandatory lead context: no AI session without confirmed custom_vars, for
\* every number of leads and attempts and with every fault.
THEOREM FailClosedHolds == Spec => []FailClosed
<1>1. Init => GateHeld
  BY DEF Init, GateHeld, PastTheGate, NoTask, NoAmd
<1>2. TypeOK /\ GateHeld /\ [Next]_vars => GateHeld'
  <2> SUFFICES ASSUME TypeOK, GateHeld, [Next]_vars
               PROVE  GateHeld'
    OBVIOUS
  <2>1. CASE Crash
    BY <2>1, GateFrame DEF Crash, store, ast, NoTask, NoAmd, PastTheGate
  <2>2. CASE Restart \/ Operator
    BY <2>2, GateFrame DEF Restart, Operator, SetStatus, CancelLead, IgnoreLead, RecycleLead,
       OperatorTurn, maps, tasks, ast, hist, PastTheGate
  <2>3. CASE UNCHANGED vars
    BY <2>3, GateFrame DEF vars, PastTheGate
  <2> QED BY <2>1, <2>2, <2>3, GateHandlers, GateScheduler DEF Next, HandlerStep
<1>3. GateHeld => FailClosed
  BY DEF GateHeld, PastTheGate, FailClosed
<1> QED BY <1>1, <1>2, <1>3, TypeCorrect, PTL DEF Spec

-----------------------------------------------------------------------------
(* RejectedIsOwned *)

\* OwnershipHeld, one attempt at a time.
OwnedCall(a) ==
    /\ OneChannel(a)
    /\ att[a].outcome = "rejected" /\ Alive(a) /\ crashes = 0 => Rejecting(a)

LEMMA OwnedCalls == OwnershipHeld <=> \A a \in Attempts : OwnedCall(a)
BY DEF OwnershipHeld, RejectedIsOwned, OwnedCall

\* What OwnedCall reads of an attempt, apart from the scheduler.
Face(a) == <<att[a], chan[a], hnd[a].pc, dst[a], a \in retry>>

\* A handler of one call does not touch another call.
LEMMA OthersKept ==
  ASSUME TypeOK, NEW b \in Attempts, HandlerStep(b), NEW a \in Attempts, a # b
  PROVE  Face(a)' = Face(a) /\ sched' = sched /\ crashes' = crashes
<1> USE DEF TypeOK, StoreType, MapsType, TasksType, AstType, store, maps, tasks, ast, hist, Face
<1>1. CASE Answered(b)
  <2>1. CASE AnsLookup(b) \/ AnsRecover(b) \/ AnsMark(b) \/ AnsConfirm(b) \/ AnsHop(b) \/ AnsHopReply(b)
    BY <2>1 DEF AnsLookup, AnsRecover, AnsMark, AnsConfirm, AnsHop, AnsHopReply
  <2>2. CASE AnsHopFinish(b) \/ AnsHopLead(b) \/ AnsHopHangup(b)
    BY <2>2 DEF AnsHopFinish, AnsHopLead, AnsHopHangup, HangUp, Kill, Finish
  <2>3. CASE RejFinish(b) \/ RejLead(b) \/ RejHangup(b)
    BY <2>3 DEF RejFinish, RejLead, RejHangup, Kill, Release, Finish
  <2> QED BY <1>1, <2>1, <2>2, <2>3 DEF Answered
<1>2. CASE AmdResult(b)
  BY <1>2 DEF AmdResult, AmdStart, AmdFinish, AmdSettle, AmdHangup, AmdHuman, AmdAttach,
     HangUp, Kill, Finish
<1>3. CASE ChannelGone(b)
  <2>1. CASE Destroyed(b)
    BY <2>1 DEF Destroyed, Release
  <2>2. CASE DestroyedFinish(b)
    BY <2>2 DEF DestroyedFinish, Finish
  <2>3. CASE DestroyedSettle(b)
    BY <2>3 DEF DestroyedSettle
  <2> QED BY <1>3, <2>1, <2>2, <2>3 DEF ChannelGone
<1>4. CASE Session(b)
  BY <1>4 DEF Session, SessionIds, SessionEnds, PersistAttempt, PersistLead, PersistSkipped,
     HangUp, Kill, Finish
<1>5. CASE Answer(b) \/ RetryHangup(b) \/ AmdReturn(b) \/ ChannelDies(b) \/ BecomeStale(b)
  BY <1>5 DEF Answer, RetryHangup, AmdReturn, ChannelDies, BecomeStale, Kill, Release
<1> QED BY <1>1, <1>2, <1>3, <1>4, <1>5 DEF HandlerStep

\* The handlers of a call keep it owned.
LEMMA OwnHandlers ==
  ASSUME TypeOK, NEW b \in Attempts, HandlerStep(b), OwnedCall(b)
  PROVE  OwnedCall(b)'
<1> USE DEF TypeOK, StoreType, MapsType, TasksType, AstType, HndTask, store, maps, tasks, ast, hist,
         OwnedCall, OneChannel, Rejecting, Alive
<1>1. CASE Answered(b)
  <2>1. CASE AnsLookup(b) \/ AnsRecover(b) \/ AnsMark(b)
    BY <2>1 DEF AnsLookup, AnsRecover, AnsMark
  <2>2. CASE AnsConfirm(b) \/ AnsHop(b)
    BY <2>2 DEF AnsConfirm, AnsHop
  <2>3. CASE AnsHopReply(b)
    BY <2>3 DEF AnsHopReply, NoTask
  <2>4. CASE AnsHopFinish(b)
    BY <2>4 DEF AnsHopFinish, Finish
  <2>5. CASE AnsHopLead(b)
    BY <2>5 DEF AnsHopLead
  <2>6. CASE AnsHopHangup(b)
    BY <2>6 DEF AnsHopHangup, HangUp, Kill, NoTask
  <2>7. CASE RejFinish(b)
    BY <2>7 DEF RejFinish, Finish
  <2>8. CASE RejLead(b)
    BY <2>8 DEF RejLead
  <2>9. CASE RejHangup(b)
    BY <2>9 DEF RejHangup, Kill, Release, NoTask
  <2> QED BY <1>1, <2>1, <2>2, <2>3, <2>4, <2>5, <2>6, <2>7, <2>8, <2>9 DEF Answered
<1>2. CASE AmdResult(b)
  <2>1. CASE AmdStart(b) \/ AmdSettle(b) \/ AmdHuman(b) \/ AmdAttach(b)
    BY <2>1 DEF AmdStart, AmdSettle, AmdHuman, AmdAttach
  <2>2. CASE AmdFinish(b)
    BY <2>2 DEF AmdFinish, Finish, AmdHolds, AmdTask
  <2>3. CASE AmdHangup(b)
    BY <2>3 DEF AmdHangup, HangUp, Kill
  <2> QED BY <1>2, <2>1, <2>2, <2>3 DEF AmdResult
<1>3. CASE ChannelGone(b)
  <2>1. CASE Destroyed(b)
    BY <2>1 DEF Destroyed, Release
  <2>2. CASE DestroyedFinish(b)
    BY <2>2 DEF DestroyedFinish, Finish
  <2>3. CASE DestroyedSettle(b)
    BY <2>3 DEF DestroyedSettle
  <2> QED BY <1>3, <2>1, <2>2, <2>3 DEF ChannelGone
<1>4. CASE Session(b)
  <2>1. CASE SessionIds(b) \/ PersistLead(b) \/ PersistSkipped(b)
    BY <2>1 DEF SessionIds, PersistLead, PersistSkipped
  <2>2. CASE SessionEnds(b)
    BY <2>2 DEF SessionEnds, HangUp, Kill
  <2>3. CASE PersistAttempt(b)
    BY <2>3 DEF PersistAttempt, Finish
  <2> QED BY <1>4, <2>1, <2>2, <2>3 DEF Session
<1>5. CASE Answer(b) \/ AmdReturn(b) \/ BecomeStale(b)
  BY <1>5 DEF Answer, AmdReturn, BecomeStale
<1>6. CASE RetryHangup(b) \/ ChannelDies(b)
  BY <1>6 DEF RetryHangup, ChannelDies, Kill, Release
<1> QED BY <1>1, <1>2, <1>3, <1>4, <1>5, <1>6 DEF HandlerStep

LEMMA OwnScheduler ==
  ASSUME TypeOK, NEW b \in Attempts, Scheduler, OwnedCall(b)
  PROVE  OwnedCall(b)'
<1> USE DEF TypeOK, StoreType, TasksType, AstType, store, maps, tasks, ast, hist,
         OwnedCall, OneChannel, Rejecting, Alive
<1>1. CASE TickBegin \/ ScanSkip \/ ScanStale \/ ScanProbeFails \/ StaleLead
  BY ZenonT(60), <1>1 DEF TickBegin, ScanSkip, ScanStale, ScanProbeFails, StaleLead, SchedTask, Idle
<1>2. CASE ScanProbe
  BY <1>2 DEF ScanProbe, HangUp, Kill, SchedTask, SchedHolds
<1>3. CASE StaleFinish
  BY <1>3 DEF StaleFinish, Finish, SchedTask
<1>4. CASE Ticks \/ Lease
  BY <1>4, TickMoves, LeaseMoves DEF Lease
<1>5. CASE CreateAttempt
  BY <1>5 DEF CreateAttempt, SchedTask
<1>6. CASE MarkDialing
  BY <1>6 DEF MarkDialing, SchedTask
<1>7. CASE MarkRefused
  BY <1>7 DEF MarkRefused, Finish, SchedTask, Idle
<1>8. CASE Originate
  BY <1>8 DEF Originate, SchedTask, SchedHolds
<1>9. CASE OriginateRefused
  BY <1>9 DEF OriginateRefused, Finish, SchedTask
<1>10. CASE RefusedLead \/ OriginateReply \/ OriginateLost
  <2>1. sched' = Idle
    BY <1>10 DEF RefusedLead, OriginateReply, OriginateLost
  <2>2. sched'.pc \notin {"mark", "originate"}
    BY <2>1 DEF Idle
  <2> QED BY <1>10, <2>2 DEF RefusedLead, OriginateReply, OriginateLost
<1> QED BY <1>1, <1>2, <1>3, <1>4, <1>5, <1>6, <1>7, <1>8, <1>9, <1>10 DEF Scheduler, Ticks

\* A rejected call that is up has an owner who asks for its hangup, for every
\* number of attempts, with lost events, lost answers and a busy operator.
THEOREM RejectedIsOwnedHolds == Spec => []RejectedIsOwned
<1>1. Init => OwnershipHeld
  BY DEF Init, OwnershipHeld, RejectedIsOwned, OneChannel, Alive, Idle, NoTask
<1>2. TypeOK /\ OwnershipHeld /\ [Next]_vars => OwnershipHeld'
  <2> SUFFICES ASSUME TypeOK, OwnershipHeld, [Next]_vars, NEW a \in Attempts
               PROVE  OwnedCall(a)'
    BY OwnedCalls DEF OwnershipHeld, RejectedIsOwned, OwnedCall
  <2> OwnedCall(a)
    BY OwnedCalls
  <2> USE DEF OwnedCall, OneChannel, Rejecting, Alive
  <2>1. ASSUME NEW b \in Attempts, HandlerStep(b)
        PROVE  OwnedCall(a)'
    <3>1. CASE a = b
      BY <2>1, <3>1, OwnHandlers
    <3>2. CASE a # b
      BY <2>1, <3>2, OthersKept DEF Face
    <3> QED BY <3>1, <3>2
  <2>2. CASE Crash
    BY <2>2 DEF Crash, store, ast, Idle, NoTask, TypeOK, HistType
  <2>3. CASE Restart
    <3>1. PICK old \in SUBSET {c \in Attempts : att[c].st = "open"} :
            att' = [c \in Attempts |-> IF c \in old
                      THEN [att[c] EXCEPT !.st = "ended", !.outcome = "stale_restart"] ELSE att[c]]
      BY <2>3 DEF Restart
    <3>2. \/ att'[a] = att[a]
          \/ att[a].st = "open" /\ att'[a] = [att[a] EXCEPT !.st = "ended", !.outcome = "stale_restart"]
      BY <3>1
    <3>3. att[a].st = "none" <=> att'[a].st = "none"
      BY <3>2 DEF TypeOK, StoreType, Attempt
    <3>4. att'[a].outcome = "rejected" => att[a].outcome = "rejected"
      BY <3>2 DEF TypeOK, StoreType, Attempt
    <3> QED BY <2>3, <3>3, <3>4 DEF Restart, maps, tasks, ast, hist
  <2>4. CASE Operator
    <3>1. (att[a].st = "none" <=> att'[a].st = "none") /\ att'[a].outcome = att[a].outcome
      <4>1. CASE att' = att
        BY <4>1
      <4>2. ASSUME NEW l \in Leads, RecycleLead(l), att' # att
            PROVE  (att[a].st = "none" <=> att'[a].st = "none") /\ att'[a].outcome = att[a].outcome
        BY <4>2 DEF RecycleLead, TypeOK, StoreType, Attempt
      <4> QED BY <2>4, <4>1, <4>2 DEF Operator, SetStatus, CancelLead, IgnoreLead
    <3>2. UNCHANGED <<up, maps, tasks, ast, dials, crashes>>
      BY <2>4 DEF Operator, SetStatus, CancelLead, IgnoreLead, RecycleLead, OperatorTurn
    <3> QED BY <3>1, <3>2 DEF maps, tasks, ast
  <2>5. CASE UNCHANGED vars
    BY <2>5 DEF vars
  <2> QED BY <2>1, <2>2, <2>3, <2>4, <2>5, OwnScheduler DEF Next, HandlerStep
<1>3. OwnershipHeld => RejectedIsOwned
  BY DEF OwnershipHeld
<1> QED BY <1>1, <1>2, <1>3, TypeCorrect, PTL DEF Spec

-----------------------------------------------------------------------------
(* The path of a call *)

\* An answer, an AMD verdict and a session follow one another on a channel; what
\* ChannelDestroyed settles has no session, and what was never created nothing.
OnePath(a) ==
    /\ chan[a] \in {"none", "ringing", "amd", "back"} => hnd[a].pc = "none"
    /\ chan[a] \in {"none", "ringing", "stasis", "amd"} => amdh[a].pc = "none" /\ sess[a] = "none"
    /\ hnd[a].pc # "none" => amdh[a].pc = "none" /\ sess[a] = "none"
    /\ amdh[a].pc # "none" => sess[a] = "none"
    /\ dst[a] # "none" => chan[a] = "dead"
    /\ dst[a] \in {"finish", "settle"} => ~HasSession(a)
    /\ att[a].st = "none" => chan[a] = "none" /\ metaA[a].kind = "none"

\* Who has finished the attempt, and how far the rejection of a call has got.
Closed(a) ==
    \/ hnd[a].pc \in {"rejLead", "rejHangup"} \/ amdh[a].pc \in {"settle", "hangup"}
    \/ dst[a] = "settle" \/ sess[a] = "persisted" \/ metaA[a].kind \in RejectedKind
ClosedIsNotOpen(a) == Closed(a) => att[a].st # "open"
RejectedStays(a) ==
    metaA[a].kind \in RejectedKind
    => chan[a] \in {"stasis", "dead"} /\ sess[a] = "none" /\ hnd[a].pc \in {"none", "rejHangup"}

\* What the handlers of one call leave of another, beyond Face.
FaceB(a) == <<metaA[a], hnd[a], amdh[a], sess[a], a \in stale, a \in awaiting>>

LEMMA OthersKeptB ==
  ASSUME TypeOK, NEW b \in Attempts, HandlerStep(b), NEW a \in Attempts, a # b
  PROVE  FaceB(a)' = FaceB(a)
<1> USE DEF TypeOK, MapsType, TasksType, store, maps, tasks, ast, hist, FaceB
<1>1. CASE Answered(b)
  <2>1. CASE AnsLookup(b) \/ AnsRecover(b) \/ AnsMark(b)
    BY <2>1 DEF AnsLookup, AnsRecover, AnsMark, TakeMeta
  <2>2. CASE AnsConfirm(b) \/ AnsHop(b) \/ AnsHopReply(b)
    BY <2>2 DEF AnsConfirm, AnsHop, AnsHopReply
  <2>3. CASE AnsHopFinish(b) \/ AnsHopLead(b) \/ AnsHopHangup(b)
    BY <2>3 DEF AnsHopFinish, AnsHopLead, AnsHopHangup
  <2>4. CASE RejFinish(b) \/ RejLead(b) \/ RejHangup(b)
    BY <2>4 DEF RejFinish, RejLead, RejHangup, Release, TakeMeta
  <2> QED BY <1>1, <2>1, <2>2, <2>3, <2>4 DEF Answered
<1>2. CASE AmdResult(b)
  <2>1. CASE AmdStart(b) \/ AmdFinish(b)
    BY <2>1 DEF AmdStart, AmdFinish
  <2>2. CASE AmdSettle(b) \/ AmdHangup(b)
    BY <2>2 DEF AmdSettle, AmdHangup, PopBoth
  <2>3. CASE AmdHuman(b) \/ AmdAttach(b)
    BY <2>3 DEF AmdHuman, AmdAttach
  <2> QED BY <1>2, <2>1, <2>2, <2>3 DEF AmdResult
<1>3. CASE ChannelGone(b)
  <2>1. CASE Destroyed(b)
    BY <2>1 DEF Destroyed, Release
  <2>2. CASE DestroyedFinish(b) \/ DestroyedSettle(b)
    BY <2>2 DEF DestroyedFinish, DestroyedSettle, PopBoth
  <2> QED BY <1>3, <2>1, <2>2 DEF ChannelGone
<1>4. CASE Session(b)
  BY <1>4 DEF Session, SessionIds, SessionEnds, PersistAttempt, PersistLead, PersistSkipped,
     PopBoth
<1>5. CASE Answer(b) \/ RetryHangup(b) \/ AmdReturn(b) \/ ChannelDies(b) \/ BecomeStale(b)
  BY <1>5 DEF Answer, RetryHangup, AmdReturn, ChannelDies, BecomeStale, Release
<1> QED BY <1>1, <1>2, <1>3, <1>4, <1>5 DEF HandlerStep

\* finish_attempt leaves no open row and creates none.
LEMMA FinishCloses ==
  ASSUME StoreType, NEW a \in Attempts, NEW o \in Outcome, att' = Finish(a, o)
  PROVE  /\ att'[a].st # "open"
         /\ att'[a].st = "none" <=> att[a].st = "none"
         /\ \A c \in Attempts : c # a => att'[c] = att[c]
BY DEF Finish, StoreType, Attempt

\* A hangup kills a channel that is up or does nothing to it.
LEMMA HangUpKills ==
  ASSUME TasksType, AstType, NEW a \in Attempts, HangUp(a) \/ Kill(a)
  PROVE  /\ chan'[a] = chan[a] \/ (Alive(a) /\ chan'[a] = "dead")
         /\ dst'[a] = dst[a] \/ (Alive(a) /\ dst'[a] = "event" /\ chan'[a] = "dead")
         /\ Kill(a) => chan'[a] = (IF Alive(a) THEN "dead" ELSE chan[a])
         /\ \A c \in Attempts : c # a => chan'[c] = chan[c] /\ dst'[c] = dst[c]
BY DEF HangUp, Kill, Alive, TasksType, AstType

\* Dropping a rejection's ownership leaves a meta as it is or takes it away.
LEMMA ReleaseDrops ==
  ASSUME MapsType, NEW a \in Attempts, Release(a)
  PROVE  /\ metaA'[a] = metaA[a] \/ (metaA[a].kind \in RejectedKind /\ metaA'[a] = NoMeta)
         /\ metaA'[a].kind \notin RejectedKind
BY DEF Release, MapsType, NoMeta, RejectedKind

LEMMA PathHandlers ==
  ASSUME TypeOK, NEW b \in Attempts, HandlerStep(b), OnePath(b)
  PROVE  OnePath(b)'
<1> USE DEF TypeOK, StoreType, MapsType, TasksType, AstType, HndTask, AmdTask, store, maps, tasks, ast,
         hist, OnePath, HasSession
<1>1. CASE Answered(b)
  <2>1. CASE AnsLookup(b)
    BY <2>1 DEF AnsLookup, TakeMeta
  <2>2. CASE AnsRecover(b)
    BY <2>2 DEF AnsRecover, TakeMeta
  <2>3. CASE AnsMark(b) \/ AnsConfirm(b) \/ AnsHop(b) \/ AnsHopLead(b)
    BY <2>3 DEF AnsMark, AnsConfirm, AnsHop, AnsHopLead
  <2>4. CASE AnsHopReply(b)
    BY <2>4 DEF AnsHopReply, NoTask
  <2>5. CASE AnsHopFinish(b)
    <3>1. att' = Finish(b, "error") /\ "error" \in Outcome
      BY <2>5 DEF AnsHopFinish, Outcome
    <3> QED BY <2>5, <3>1, FinishCloses DEF AnsHopFinish
  <2>6. CASE AnsHopHangup(b)
    <3>1. HangUp(b)
      BY <2>6 DEF AnsHopHangup
    <3> QED BY <2>6, <3>1, HangUpKills DEF AnsHopHangup, NoTask, Alive
  <2>7. CASE RejFinish(b)
    <3>1. att' = Finish(b, "rejected") /\ "rejected" \in Outcome
      BY <2>7 DEF RejFinish, Outcome
    <3> QED BY <2>7, <3>1, FinishCloses DEF RejFinish
  <2>8. CASE RejLead(b)
    BY <2>8 DEF RejLead, TakeMeta
  <2>9. CASE RejHangup(b)
    <3>1. CASE Kill(b) /\ Release(b)
      BY <2>9, <3>1, HangUpKills, ReleaseDrops DEF RejHangup, NoTask, NoMeta, Alive
    <3>2. CASE UNCHANGED <<metaA, metaC, chan, dst>>
      BY <2>9, <3>2 DEF RejHangup, NoTask
    <3> QED BY <2>9, <3>1, <3>2 DEF RejHangup
  <2> QED BY <1>1, <2>1, <2>2, <2>3, <2>4, <2>5, <2>6, <2>7, <2>8, <2>9 DEF Answered
<1>2. CASE AmdResult(b)
  <2>1. CASE AmdStart(b)
    BY <2>1 DEF AmdStart
  <2>2. CASE AmdFinish(b)
    <3>1. att' = Finish(b, amdh[b].res) /\ amdh[b].res \in Outcome
      BY <2>2 DEF AmdFinish, AmdHolds, Outcome
    <3> QED BY <2>2, <3>1, FinishCloses DEF AmdFinish
  <2>3. CASE AmdSettle(b)
    BY <2>3 DEF AmdSettle, PopBoth, NoMeta
  <2>4. CASE AmdHangup(b)
    <3>1. HangUp(b)
      BY <2>4 DEF AmdHangup
    <3> QED BY <2>4, <3>1, HangUpKills DEF AmdHangup, NoAmd, Alive
  <2>5. CASE AmdHuman(b)
    BY <2>5 DEF AmdHuman
  <2>6. CASE AmdAttach(b)
    BY <2>6 DEF AmdAttach, NoAmd
  <2> QED BY <1>2, <2>1, <2>2, <2>3, <2>4, <2>5, <2>6 DEF AmdResult
<1>3. CASE ChannelGone(b)
  <2>1. CASE Destroyed(b)
    <3>1. metaA'[b] = metaA[b] \/ metaA'[b] = NoMeta
      BY <2>1, ReleaseDrops DEF Destroyed
    <3>2. dst[b] = "event" /\ dst'[b] \in {"done", "finish"} /\ (dst'[b] = "finish" => ~HasSession(b))
      BY <2>1 DEF Destroyed
    <3> QED BY <2>1, <3>1, <3>2 DEF Destroyed, NoMeta
  <2>2. CASE DestroyedFinish(b)
    <3>1. att' = Finish(b, "hangup") /\ "hangup" \in Outcome
      BY <2>2 DEF DestroyedFinish, Outcome
    <3> QED BY <2>2, <3>1, FinishCloses DEF DestroyedFinish
  <2>3. CASE DestroyedSettle(b)
    BY <2>3 DEF DestroyedSettle, PopBoth, NoMeta
  <2> QED BY <1>3, <2>1, <2>2, <2>3 DEF ChannelGone
<1>4. CASE Session(b)
  <2>1. CASE SessionIds(b) \/ PersistSkipped(b)
    BY <2>1 DEF SessionIds, PersistSkipped
  <2>2. CASE PersistLead(b)
    BY <2>2 DEF PersistLead, PopBoth, NoMeta
  <2>3. CASE SessionEnds(b)
    <3>1. HangUp(b)
      BY <2>3 DEF SessionEnds
    <3> QED BY <2>3, <3>1, HangUpKills DEF SessionEnds, Alive
  <2>4. CASE PersistAttempt(b)
    <3>1. att' = Finish(b, "session") /\ "session" \in Outcome
      BY <2>4 DEF PersistAttempt, Outcome
    <3> QED BY <2>4, <3>1, FinishCloses DEF PersistAttempt
  <2> QED BY <1>4, <2>1, <2>2, <2>3, <2>4 DEF Session
<1>5. CASE Answer(b) \/ AmdReturn(b)
  BY <1>5 DEF Answer, AmdReturn, NoAmd
<1>6. CASE BecomeStale(b)
  BY <1>6 DEF BecomeStale
<1>7. CASE ChannelDies(b)
  <2>1. CASE up
    <3>1. Kill(b)
      BY <1>7, <2>1 DEF ChannelDies
    <3> QED BY <1>7, <3>1, HangUpKills DEF ChannelDies, Alive
  <2>2. CASE ~up
    BY <1>7, <2>2 DEF ChannelDies, Alive
  <2> QED BY <2>1, <2>2
<1>8. CASE RetryHangup(b)
  <2>1. Kill(b) /\ Release(b)
    BY <1>8 DEF RetryHangup
  <2> QED BY <1>8, <2>1, HangUpKills, ReleaseDrops DEF RetryHangup, NoMeta, Alive
<1> QED BY <1>1, <1>2, <1>3, <1>4, <1>5, <1>6, <1>7, <1>8 DEF HandlerStep

\* No handler opens a row, creates one or removes one.
LEMMA RowsKept ==
  ASSUME TypeOK, NEW b \in Attempts, HandlerStep(b), NEW a \in Attempts
  PROVE  /\ att'[a].st = "open" => att[a].st = "open"
         /\ att'[a].st = "none" <=> att[a].st = "none"
<1> USE DEF TypeOK, StoreType, store
<1>1. CASE a # b
  BY <1>1, OthersKept DEF Face
<1>2. ASSUME NEW o \in Outcome, att' = Finish(b, o)
      PROVE  /\ att'[a].st = "open" => att[a].st = "open"
             /\ att'[a].st = "none" <=> att[a].st = "none"
  BY <1>2, FinishCloses
<1>3. att' = att \/ \E o \in Outcome : att' = Finish(b, o)
  <2>1. CASE Answered(b)
    <3>1. CASE AnsHopFinish(b)
      BY <3>1 DEF AnsHopFinish, Outcome
    <3>2. CASE RejFinish(b)
      BY <3>2 DEF RejFinish, Outcome
    <3> QED BY <2>1, <3>1, <3>2 DEF Answered, AnsLookup, AnsRecover, AnsMark, AnsConfirm, AnsHop,
         AnsHopReply, AnsHopLead, AnsHopHangup, RejLead, RejHangup
  <2>2. CASE AmdResult(b)
    <3>1. CASE AmdFinish(b)
      BY <3>1 DEF AmdFinish, AmdHolds, Outcome
    <3> QED BY <2>2, <3>1 DEF AmdResult, AmdStart, AmdSettle, AmdHangup, AmdHuman, AmdAttach
  <2>3. CASE ChannelGone(b)
    BY <2>3 DEF ChannelGone, Destroyed, DestroyedFinish, DestroyedSettle, Outcome
  <2>4. CASE Session(b)
    BY <2>4 DEF Session, SessionIds, SessionEnds, PersistAttempt, PersistLead, PersistSkipped, Outcome
  <2>5. CASE Answer(b) \/ RetryHangup(b) \/ AmdReturn(b) \/ ChannelDies(b) \/ BecomeStale(b)
    BY <2>5 DEF Answer, RetryHangup, AmdReturn, ChannelDies, BecomeStale
  <2> QED BY <2>1, <2>2, <2>3, <2>4, <2>5 DEF HandlerStep
<1> QED BY <1>2, <1>3

\* Who counts as having finished the attempt comes to count only by finishing it.
LEMMA ClosedHandlers ==
  ASSUME TypeOK, NEW b \in Attempts, HandlerStep(b), OnePath(b), ClosedIsNotOpen(b)
  PROVE  ClosedIsNotOpen(b)'
<1> SUFFICES ASSUME Closed(b)'
             PROVE  Closed(b) \/ att'[b].st # "open"
  BY RowsKept DEF ClosedIsNotOpen
<1> USE DEF TypeOK, StoreType, MapsType, TasksType, AstType, HndTask, AmdTask, store, maps, tasks, ast,
         hist, Closed
<1>1. CASE Answered(b)
  <2>1. CASE AnsLookup(b)
    BY <2>1 DEF AnsLookup, TakeMeta
  <2>2. CASE AnsRecover(b)
    BY <2>2 DEF AnsRecover, TakeMeta, RejectedKind
  <2>3. CASE AnsMark(b) \/ AnsConfirm(b) \/ AnsHop(b) \/ AnsHopLead(b) \/ AnsHopFinish(b)
    BY <2>3 DEF AnsMark, AnsConfirm, AnsHop, AnsHopLead, AnsHopFinish
  <2>4. CASE AnsHopReply(b)
    BY <2>4 DEF AnsHopReply, NoTask
  <2>6. CASE AnsHopHangup(b)
    <3>1. HangUp(b)
      BY <2>6 DEF AnsHopHangup
    <3> QED BY <2>6, <3>1, HangUpKills DEF AnsHopHangup, NoTask
  <2>7. CASE RejFinish(b)
    <3>1. att' = Finish(b, "rejected") /\ "rejected" \in Outcome
      BY <2>7 DEF RejFinish, Outcome
    <3> QED BY <3>1, FinishCloses
  <2>8. CASE RejLead(b)
    BY <2>8 DEF RejLead, TakeMeta
  <2>9. CASE RejHangup(b)
    BY <2>9 DEF RejHangup
  <2> QED BY <1>1, <2>1, <2>2, <2>3, <2>4, <2>6, <2>7, <2>8, <2>9 DEF Answered
<1>2. CASE AmdResult(b)
  <2>1. CASE AmdStart(b)
    BY <2>1 DEF AmdStart
  <2>2. CASE AmdFinish(b)
    <3>1. att' = Finish(b, amdh[b].res) /\ amdh[b].res \in Outcome
      BY <2>2 DEF AmdFinish, AmdHolds, Outcome
    <3> QED BY <3>1, FinishCloses
  <2>3. CASE AmdSettle(b)
    BY <2>3 DEF AmdSettle
  <2>4. CASE AmdHangup(b)
    BY <2>4 DEF AmdHangup
  <2>5. CASE AmdHuman(b) \/ AmdAttach(b)
    BY <2>5 DEF AmdHuman, AmdAttach, NoAmd
  <2> QED BY <1>2, <2>1, <2>2, <2>3, <2>4, <2>5 DEF AmdResult
<1>3. CASE ChannelGone(b)
  <2>1. CASE Destroyed(b)
    <3>1. metaA'[b] = metaA[b] \/ metaA'[b].kind \notin RejectedKind
      BY <2>1, ReleaseDrops DEF Destroyed
    <3>2. dst'[b] \in {"done", "finish"}
      BY <2>1 DEF Destroyed
    <3> QED BY <2>1, <3>1, <3>2 DEF Destroyed
  <2>2. CASE DestroyedFinish(b)
    <3>1. att' = Finish(b, "hangup") /\ "hangup" \in Outcome
      BY <2>2 DEF DestroyedFinish, Outcome
    <3> QED BY <3>1, FinishCloses
  <2>3. CASE DestroyedSettle(b)
    BY <2>3 DEF DestroyedSettle
  <2> QED BY <1>3, <2>1, <2>2, <2>3 DEF ChannelGone
<1>4. CASE Session(b)
  <2>1. CASE SessionIds(b) \/ PersistSkipped(b)
    BY <2>1 DEF SessionIds, PersistSkipped
  <2>2. CASE PersistLead(b)
    BY <2>2 DEF PersistLead
  <2>3. CASE SessionEnds(b)
    <3>1. HangUp(b)
      BY <2>3 DEF SessionEnds
    <3> QED BY <2>3, <3>1, HangUpKills DEF SessionEnds
  <2>4. CASE PersistAttempt(b)
    <3>1. att' = Finish(b, "session") /\ "session" \in Outcome
      BY <2>4 DEF PersistAttempt, Outcome
    <3> QED BY <3>1, FinishCloses
  <2> QED BY <1>4, <2>1, <2>2, <2>3, <2>4 DEF Session
<1>5. CASE Answer(b) \/ AmdReturn(b)
  BY <1>5 DEF Answer, AmdReturn, NoAmd
<1>6. CASE BecomeStale(b)
  BY <1>6 DEF BecomeStale
<1>7. CASE ChannelDies(b)
  BY <1>7, HangUpKills DEF ChannelDies
<1>8. CASE RetryHangup(b)
  <2>1. Kill(b) /\ Release(b)
    BY <1>8 DEF RetryHangup
  <2> QED BY <1>8, <2>1, HangUpKills, ReleaseDrops DEF RetryHangup
<1> QED BY <1>1, <1>2, <1>3, <1>4, <1>5, <1>6, <1>7, <1>8 DEF HandlerStep

LEMMA RejectedHandlers ==
  ASSUME TypeOK, NEW b \in Attempts, HandlerStep(b), OnePath(b), RejectedStays(b)
  PROVE  RejectedStays(b)'
<1> SUFFICES ASSUME metaA'[b].kind \in RejectedKind
             PROVE  chan'[b] \in {"stasis", "dead"} /\ sess'[b] = "none"
                    /\ hnd'[b].pc \in {"none", "rejHangup"}
  BY DEF RejectedStays
<1> USE DEF TypeOK, StoreType, MapsType, TasksType, AstType, HndTask, AmdTask, store, maps, tasks, ast,
         hist, RejectedStays, OnePath
<1>1. CASE Answered(b)
  <2>1. CASE AnsLookup(b)
    BY <2>1 DEF AnsLookup, TakeMeta
  <2>2. CASE AnsRecover(b)
    BY <2>2 DEF AnsRecover, TakeMeta, RejectedKind
  <2>3. CASE AnsMark(b) \/ AnsConfirm(b) \/ AnsHop(b) \/ AnsHopLead(b) \/ AnsHopFinish(b) \/ AnsHopReply(b)
    BY <2>3 DEF AnsMark, AnsConfirm, AnsHop, AnsHopLead, AnsHopFinish, AnsHopReply
  <2>4. CASE AnsHopHangup(b) \/ RejFinish(b)
    BY <2>4 DEF AnsHopHangup, RejFinish
  <2>5. CASE RejLead(b)
    BY <2>5 DEF RejLead
  <2>6. CASE RejHangup(b)
    <3>1. CASE Release(b)
      BY <3>1, ReleaseDrops
    <3>2. CASE UNCHANGED <<metaA, metaC, chan, dst>>
      BY <2>6, <3>2 DEF RejHangup, NoTask
    <3> QED BY <2>6, <3>1, <3>2 DEF RejHangup
  <2> QED BY <1>1, <2>1, <2>2, <2>3, <2>4, <2>5, <2>6 DEF Answered
<1>2. CASE AmdResult(b)
  <2>1. CASE AmdStart(b) \/ AmdFinish(b) \/ AmdHuman(b) \/ AmdAttach(b)
    BY <2>1 DEF AmdStart, AmdFinish, AmdHuman, AmdAttach
  <2>2. CASE AmdSettle(b)
    BY <2>2 DEF AmdSettle, PopBoth, NoMeta, RejectedKind
  <2>3. CASE AmdHangup(b)
    <3>1. HangUp(b)
      BY <2>3 DEF AmdHangup
    <3> QED BY <2>3, <3>1, HangUpKills DEF AmdHangup
  <2> QED BY <1>2, <2>1, <2>2, <2>3 DEF AmdResult
<1>3. CASE ChannelGone(b)
  <2>1. CASE Destroyed(b)
    <3>1. metaA'[b] = metaA[b] \/ metaA'[b].kind \notin RejectedKind
      BY <2>1, ReleaseDrops DEF Destroyed
    <3> QED BY <2>1, <3>1 DEF Destroyed
  <2>2. CASE DestroyedFinish(b)
    BY <2>2 DEF DestroyedFinish
  <2>3. CASE DestroyedSettle(b)
    BY <2>3 DEF DestroyedSettle, PopBoth, NoMeta, RejectedKind
  <2> QED BY <1>3, <2>1, <2>2, <2>3 DEF ChannelGone
<1>4. CASE Session(b)
  <2>1. CASE SessionIds(b) \/ PersistSkipped(b) \/ PersistAttempt(b)
    BY <2>1 DEF SessionIds, PersistSkipped, PersistAttempt
  <2>2. CASE PersistLead(b)
    BY <2>2 DEF PersistLead, PopBoth, NoMeta, RejectedKind
  <2>3. CASE SessionEnds(b)
    BY <2>3 DEF SessionEnds
  <2> QED BY <1>4, <2>1, <2>2, <2>3 DEF Session
<1>5. CASE Answer(b) \/ AmdReturn(b) \/ BecomeStale(b)
  BY <1>5 DEF Answer, AmdReturn, BecomeStale
<1>6. CASE ChannelDies(b)
  BY <1>6, HangUpKills DEF ChannelDies
<1>7. CASE RetryHangup(b)
  <2>1. Release(b)
    BY <1>7 DEF RetryHangup
  <2> QED BY <2>1, ReleaseDrops
<1> QED BY <1>1, <1>2, <1>3, <1>4, <1>5, <1>6, <1>7 DEF HandlerStep

\* The row of a call whose originate is under way exists.
RowExists(a) == sched.pc \in {"reply", "refused"} /\ sched.att = a => att[a].st # "none"

\* The facts about one call that hold with every fault and every crash.
CallHeld(a) ==
    OwnedCall(a) /\ RowExists(a) /\ OnePath(a) /\ ClosedIsNotOpen(a) /\ RejectedStays(a)
CallsHeld == \A a \in Attempts : CallHeld(a)

\* What the scheduler leaves of a call whatever it does to the others.
LEMMA PathScheduler ==
  ASSUME TypeOK, NEW b \in Attempts, Scheduler, CallHeld(b)
  PROVE  OnePath(b)' /\ ClosedIsNotOpen(b)' /\ RejectedStays(b)'
<1> USE DEF TypeOK, StoreType, MapsType, TasksType, AstType, store, maps, tasks, ast, hist, HasSession,
       CallHeld
<1> DEFINE Goal == OnePath(b)' /\ ClosedIsNotOpen(b)' /\ RejectedStays(b)'
<1>1. ASSUME UNCHANGED <<hnd, amdh, sess, chan, dst>>,
             att'[b].st = "open" => att[b].st = "open",
             att'[b].st = "none" <=> att[b].st = "none",
             metaA'[b] = metaA[b] \/ metaA'[b] = NoMeta
      PROVE  Goal
  BY <1>1 DEF OnePath, ClosedIsNotOpen, Closed, RejectedStays, NoMeta, RejectedKind
<1>2. CASE TickBegin \/ ScanSkip \/ ScanStale \/ ScanProbeFails \/ MarkDialing \/ OriginateLost
  <2>1. UNCHANGED <<att, metaA, hnd, amdh, sess, chan, dst>>
    BY <1>2 DEF TickBegin, ScanSkip, ScanStale, ScanProbeFails, MarkDialing, OriginateLost
  <2> QED BY <2>1, <1>1
<1>3. CASE Ticks \/ Lease
  <2>1. UNCHANGED <<att, metaA, hnd, amdh, sess, chan, dst>>
    BY <1>3, TickMoves DEF Lease
  <2> QED BY <2>1, <1>1
<1>4. CASE ScanProbe
  <2>1. HangUp(sched.att) /\ sched.att \in Attempts
    BY <1>4 DEF ScanProbe, SchedHolds
  <2>2. /\ chan'[b] = chan[b] \/ (Alive(b) /\ chan'[b] = "dead")
        /\ dst'[b] = dst[b] \/ (Alive(b) /\ dst'[b] = "event" /\ chan'[b] = "dead")
    BY <2>1, HangUpKills
  <2>3. UNCHANGED <<att, metaA, hnd, amdh, sess>>
    BY <1>4 DEF ScanProbe
  <2>4. OnePath(b)'
    BY <2>2, <2>3 DEF OnePath, Alive
  <2>5. ClosedIsNotOpen(b)' /\ RejectedStays(b)'
    BY <2>2, <2>3 DEF ClosedIsNotOpen, Closed, RejectedStays
  <2> QED BY <2>4, <2>5
<1>5. ASSUME NEW o \in Outcome, att' = Finish(sched.att, o), sched.att \in Attempts
      PROVE  /\ att'[b].st = "open" => att[b].st = "open"
             /\ att'[b].st = "none" <=> att[b].st = "none"
  BY <1>5, FinishCloses
<1>6. CASE StaleFinish
  BY <1>6, <1>5, <1>1 DEF StaleFinish, SchedHolds, Outcome
<1>7. CASE MarkRefused
  BY <1>7, <1>5, <1>1 DEF MarkRefused, SchedHolds, Outcome
<1>8. CASE OriginateRefused
  BY <1>8, <1>5, <1>1 DEF OriginateRefused, SchedHolds, Outcome
<1>9. CASE StaleLead \/ RefusedLead
  <2>1. metaA'[b] = metaA[b] \/ metaA'[b] = NoMeta
    BY <1>9 DEF StaleLead, RefusedLead
  <2> QED BY <1>9, <2>1, <1>1 DEF StaleLead, RefusedLead
<1>10. CASE CreateAttempt
  <2>1. PICK c \in Attempts :
          /\ att[c].st = "none"
          /\ att' = [att EXCEPT ![c] = [st |-> "open", lead |-> sched.lead, outcome |-> "none"]]
          /\ metaA' = [metaA EXCEPT ![c] = [kind |-> "tracked", ch |-> FALSE]]
    BY <1>10 DEF CreateAttempt
  <2>2. UNCHANGED <<hnd, amdh, sess, chan, dst>>
    BY <1>10 DEF CreateAttempt
  <2>3. CASE c # b
    BY <2>1, <2>2, <2>3, <1>1
  <2>4. CASE c = b
    <3>1. /\ chan[b] = "none" /\ hnd[b].pc = "none" /\ amdh[b].pc = "none" /\ sess[b] = "none"
          /\ dst[b] = "none"
      BY <2>1, <2>4 DEF OnePath
    <3>2. att'[b].st = "open" /\ metaA'[b].kind = "tracked"
      BY <2>1, <2>4
    <3>3. OnePath(b)'
      BY <2>2, <3>1, <3>2 DEF OnePath
    <3>4. ClosedIsNotOpen(b)' /\ RejectedStays(b)'
      BY <2>2, <3>1, <3>2 DEF ClosedIsNotOpen, Closed, RejectedStays, RejectedKind
    <3> QED BY <3>3, <3>4
  <2> QED BY <2>3, <2>4
<1>11. CASE Originate
  <2>1. /\ sched.att \in Attempts /\ sched.pc = "originate"
        /\ chan' = [chan EXCEPT ![sched.att] = "ringing"]
        /\ UNCHANGED <<att, metaA, hnd, amdh, sess, dst>>
    BY <1>11 DEF Originate, SchedHolds
  <2>2. CASE sched.att # b
    BY <2>1, <2>2 DEF OnePath, ClosedIsNotOpen, Closed, RejectedStays
  <2>3. CASE sched.att = b
    <3>1. chan[b] = "none" /\ att[b].st # "none" /\ chan'[b] = "ringing"
      BY <2>1, <2>3 DEF OwnedCall, OneChannel
    <3>2. OnePath(b)'
      BY <2>1, <3>1 DEF OnePath
    <3>3. ClosedIsNotOpen(b)' /\ RejectedStays(b)'
      BY <2>1, <3>1 DEF ClosedIsNotOpen, Closed, RejectedStays
    <3> QED BY <3>2, <3>3
  <2> QED BY <2>2, <2>3
<1>12. CASE OriginateReply
  <2>1. /\ sched.att \in Attempts /\ sched.pc = "reply"
        /\ UNCHANGED <<att, chan, hnd, amdh, sess, dst>>
    BY <1>12 DEF OriginateReply, SchedHolds
  <2>2. CASE sched.att # b
    <3>1. metaA'[b] = metaA[b]
      BY <1>12, <2>2 DEF OriginateReply
    <3> QED BY <2>1, <3>1, <1>1
  <2>3. CASE sched.att = b
    <3>1. \/ metaA'[b].kind = metaA[b].kind
          \/ metaA[b].kind = "none" /\ metaA'[b].kind = "junk"
      BY <1>12, <2>3, <2>1 DEF OriginateReply
    <3>2. OnePath(b)'
      BY <2>1, <2>3, <3>1 DEF OnePath, RowExists
    <3>3. ClosedIsNotOpen(b)' /\ RejectedStays(b)'
      BY <2>1, <3>1 DEF ClosedIsNotOpen, Closed, RejectedStays, RejectedKind
    <3> QED BY <3>2, <3>3
  <2> QED BY <2>2, <2>3
<1> QED BY <1>2, <1>3, <1>4, <1>6, <1>7, <1>8, <1>9, <1>10, <1>11, <1>12 DEF Scheduler, Ticks


LEMMA RowScheduler ==
  ASSUME TypeOK, NEW b \in Attempts, Scheduler, CallHeld(b)
  PROVE  RowExists(b)'
<1> USE DEF TypeOK, StoreType, TasksType, store, SchedTask, CallHeld, RowExists
<1>1. CASE TickBegin \/ ScanSkip \/ ScanStale \/ ScanProbeFails \/ ScanProbe
  <2>1. sched'.pc \notin {"reply", "refused"}
    BY <1>1 DEF TickBegin, ScanSkip, ScanStale, ScanProbeFails, ScanProbe, Idle
  <2> QED BY <2>1
<1>2. CASE StaleFinish \/ StaleLead \/ CreateAttempt \/ MarkDialing
  <2>1. sched'.pc \notin {"reply", "refused"}
    BY <1>2 DEF StaleFinish, StaleLead, CreateAttempt, MarkDialing
  <2> QED BY <2>1
<1>3. CASE Ticks \/ Lease
  <2>1. sched'.pc \notin {"reply", "refused"}
    BY <1>3, TickMoves, LeaseMoves
  <2> QED BY <2>1
<1>4. CASE MarkRefused \/ RefusedLead \/ OriginateReply \/ OriginateLost
  <2>1. sched'.pc \notin {"reply", "refused"}
    <3>1. sched' = Idle
      BY <1>4 DEF MarkRefused, RefusedLead, OriginateReply, OriginateLost
    <3> QED BY <3>1 DEF Idle
  <2> QED BY <2>1
<1>5. CASE Originate
  BY <1>5 DEF Originate, OwnedCall, OneChannel
<1>6. CASE OriginateRefused
  <2>1. sched.att \in Attempts /\ att' = Finish(sched.att, "error") /\ "error" \in Outcome
    BY <1>6 DEF OriginateRefused, SchedHolds, Outcome
  <2>2. att'[b].st = "none" <=> att[b].st = "none"
    BY <2>1, FinishCloses
  <2>3. sched'.att = sched.att /\ sched.pc \in {"originate", "reply"}
    BY <1>6 DEF OriginateRefused
  <2> QED BY <2>2, <2>3 DEF OwnedCall, OneChannel
<1> QED BY <1>1, <1>2, <1>3, <1>4, <1>5, <1>6 DEF Scheduler, Ticks

\* A handler of one call keeps what holds of every call.
LEMMA CallHandlers ==
  ASSUME TypeOK, NEW b \in Attempts, HandlerStep(b), NEW a \in Attempts, CallHeld(a)
  PROVE  CallHeld(a)'
<1> USE DEF CallHeld
<1>1. sched' = sched
  BY HandlersKeepQueue
<1>2. RowExists(a)'
  BY <1>1, RowsKept DEF RowExists
<1>3. CASE a = b
  <2>1. OwnedCall(a)' /\ OnePath(a)'
    BY <1>3, OwnHandlers, PathHandlers
  <2>2. ClosedIsNotOpen(a)' /\ RejectedStays(a)'
    BY <1>3, ClosedHandlers, RejectedHandlers
  <2> QED BY <1>2, <2>1, <2>2
<1>4. CASE a # b
  <2>1. Face(a)' = Face(a) /\ crashes' = crashes /\ FaceB(a)' = FaceB(a)
    BY <1>4, OthersKept, OthersKeptB
  <2>2. OwnedCall(a)'
    BY <1>1, <2>1 DEF Face, OwnedCall, OneChannel, Rejecting, Alive
  <2>3. OnePath(a)'
    BY <2>1 DEF Face, FaceB, OnePath, HasSession
  <2>4. ClosedIsNotOpen(a)' /\ RejectedStays(a)'
    BY <2>1 DEF Face, FaceB, ClosedIsNotOpen, Closed, RejectedStays
  <2> QED BY <1>2, <2>2, <2>3, <2>4
<1> QED BY <1>3, <1>4

\* A restart and the operator close and delete rows, and no more.
LEMMA RowsFrame ==
  ASSUME TypeOK, Restart \/ Operator, NEW a \in Attempts
  PROVE  /\ UNCHANGED <<maps, tasks, ast, crashes>>
         /\ att'[a].st = "open" => att[a].st = "open"
         /\ att'[a].st = "none" <=> att[a].st = "none"
         /\ att'[a].outcome = "rejected" => att[a].outcome = "rejected"
<1> USE DEF TypeOK, StoreType
<1>1. UNCHANGED <<maps, tasks, ast, crashes>>
  BY DEF Restart, hist, Operator, SetStatus, CancelLead, IgnoreLead, RecycleLead, OperatorTurn
<1>2. CASE Restart
  <2>1. PICK old \in SUBSET {c \in Attempts : att[c].st = "open"} :
          att' = [c \in Attempts |-> IF c \in old
                    THEN [att[c] EXCEPT !.st = "ended", !.outcome = "stale_restart"] ELSE att[c]]
    BY <1>2 DEF Restart
  <2>2. \/ att'[a] = att[a]
        \/ att[a].st = "open" /\ att'[a] = [att[a] EXCEPT !.st = "ended", !.outcome = "stale_restart"]
    BY <2>1
  <2> QED BY <1>1, <2>2 DEF Attempt
<1>3. CASE Operator
  <2>1. CASE att' = att
    BY <1>1, <2>1
  <2>2. ASSUME NEW l \in Leads, RecycleLead(l), att' # att
        PROVE  \/ att'[a] = att[a]
               \/ att[a].st # "none" /\ att'[a] = [att[a] EXCEPT !.st = "deleted"]
    BY <2>2 DEF RecycleLead
  <2>3. \/ att'[a] = att[a]
        \/ att[a].st # "none" /\ att'[a] = [att[a] EXCEPT !.st = "deleted"]
    BY <1>3, <2>1, <2>2 DEF Operator, SetStatus, CancelLead, IgnoreLead
  <2> QED BY <1>1, <2>3 DEF Attempt
<1> QED BY <1>2, <1>3

LEMMA CallStep ==
  ASSUME TypeOK, CallsHeld, [Next]_vars, NEW a \in Attempts
  PROVE  CallHeld(a)'
<1> CallHeld(a)
  BY DEF CallsHeld
<1> USE DEF CallHeld
<1>1. ASSUME NEW b \in Attempts, HandlerStep(b)
      PROVE  CallHeld(a)'
  BY <1>1, CallHandlers
<1>2. CASE Scheduler
  BY <1>2, OwnScheduler, RowScheduler, PathScheduler
<1>3. CASE Crash
  <2>1. OwnedCall(a)' /\ RowExists(a)'
    BY <1>3 DEF Crash, store, ast, Idle, NoTask, TypeOK, HistType, OwnedCall, OneChannel, RowExists
  <2>2. OnePath(a)'
    BY <1>3 DEF Crash, store, ast, NoTask, NoAmd, NoMeta, OnePath, HasSession
  <2>3. ClosedIsNotOpen(a)' /\ RejectedStays(a)'
    BY <1>3 DEF Crash, NoTask, NoAmd, NoMeta, ClosedIsNotOpen, Closed, RejectedStays, RejectedKind
  <2> QED BY <2>1, <2>2, <2>3
<1>4. CASE Restart \/ Operator
  <2> USE <1>4, RowsFrame DEF maps, tasks, ast
  <2>1. OwnedCall(a)' /\ RowExists(a)'
    BY DEF OwnedCall, OneChannel, Rejecting, Alive, RowExists
  <2>2. OnePath(a)'
    BY DEF OnePath, HasSession
  <2>3. ClosedIsNotOpen(a)' /\ RejectedStays(a)'
    BY DEF ClosedIsNotOpen, Closed, RejectedStays
  <2> QED BY <2>1, <2>2, <2>3
<1>5. CASE UNCHANGED vars
  BY <1>5 DEF vars, OwnedCall, OneChannel, Rejecting, Alive, RowExists, OnePath, HasSession,
     ClosedIsNotOpen, Closed, RejectedStays
<1> QED BY <1>1, <1>2, <1>3, <1>4, <1>5 DEF Next, HandlerStep

LEMMA CallsAlways == Spec => []CallsHeld
<1>1. Init => CallsHeld
  BY DEF Init, CallsHeld, CallHeld, OwnedCall, OneChannel, Alive, RowExists, OnePath, HasSession,
     ClosedIsNotOpen, Closed, RejectedStays, RejectedKind, Idle, NoTask, NoAmd, NoMeta
<1>2. TypeOK /\ CallsHeld /\ [Next]_vars => CallsHeld'
  BY CallStep DEF CallsHeld
<1> QED BY <1>1, <1>2, TypeCorrect, PTL DEF Spec

-----------------------------------------------------------------------------
(* GuardReleased *)

\* A raised guard outlives the handling of ChannelDestroyed only while the
\* request that raised it is out, or for good when its answer is lost after that.
GuardHeld ==
    \A a \in Attempts :
        a \in awaiting /\ dst[a] \in {"finish", "settle", "done"}
        => hnd[a].pc = "hopReply" \/ a \in late

LEMMA GuardHandlers ==
  ASSUME TypeOK, NEW b \in Attempts, HandlerStep(b), OnePath(b), GuardHeld,
         b \in awaiting', dst'[b] \in {"finish", "settle", "done"}
  PROVE  hnd'[b].pc = "hopReply" \/ b \in late'
<1> USE DEF TypeOK, MapsType, TasksType, AstType, HndTask, store, maps, tasks, ast, hist, GuardHeld,
         OnePath
<1>1. CASE Answered(b)
  <2>1. CASE AnsLookup(b) \/ AnsRecover(b) \/ AnsMark(b) \/ AnsConfirm(b) \/ AnsHopFinish(b) \/ AnsHopLead(b)
    BY <2>1 DEF AnsLookup, AnsRecover, AnsMark, AnsConfirm, AnsHopFinish, AnsHopLead
  <2>2. CASE AnsHop(b)
    BY <2>2 DEF AnsHop
  <2>3. CASE AnsHopReply(b)
    BY <2>3 DEF AnsHopReply
  <2>4. CASE RejFinish(b) \/ RejLead(b)
    BY <2>4 DEF RejFinish, RejLead
  <2>5. CASE AnsHopHangup(b)
    <3>1. HangUp(b)
      BY <2>5 DEF AnsHopHangup
    <3> QED BY <2>5, <3>1, HangUpKills DEF AnsHopHangup
  <2>6. CASE RejHangup(b)
    BY <2>6, HangUpKills DEF RejHangup
  <2> QED BY <1>1, <2>1, <2>2, <2>3, <2>4, <2>5, <2>6 DEF Answered
<1>2. CASE AmdResult(b)
  <2>1. CASE AmdStart(b) \/ AmdFinish(b) \/ AmdSettle(b) \/ AmdHuman(b) \/ AmdAttach(b)
    BY <2>1 DEF AmdStart, AmdFinish, AmdSettle, AmdHuman, AmdAttach
  <2>2. CASE AmdHangup(b)
    <3>1. HangUp(b)
      BY <2>2 DEF AmdHangup
    <3> QED BY <2>2, <3>1, HangUpKills DEF AmdHangup
  <2> QED BY <1>2, <2>1, <2>2 DEF AmdResult
<1>3. CASE ChannelGone(b)
  BY <1>3 DEF ChannelGone, Destroyed, DestroyedFinish, DestroyedSettle
<1>4. CASE Session(b)
  <2>1. CASE SessionEnds(b)
    <3>1. HangUp(b)
      BY <2>1 DEF SessionEnds
    <3> QED BY <2>1, <3>1, HangUpKills DEF SessionEnds
  <2>2. CASE SessionIds(b) \/ PersistAttempt(b) \/ PersistLead(b) \/ PersistSkipped(b)
    BY <2>2 DEF SessionIds, PersistAttempt, PersistLead, PersistSkipped
  <2> QED BY <1>4, <2>1, <2>2 DEF Session
<1>5. CASE Answer(b) \/ AmdReturn(b) \/ BecomeStale(b)
  BY <1>5 DEF Answer, AmdReturn, BecomeStale
<1>6. CASE RetryHangup(b) \/ ChannelDies(b)
  BY <1>6, HangUpKills DEF RetryHangup, ChannelDies
<1> QED BY <1>1, <1>2, <1>3, <1>4, <1>5, <1>6 DEF HandlerStep

\* Only a crash forgets a late answer.
LEMMA LateGrows ==
  ASSUME TypeOK
  PROVE  /\ \A b \in Attempts : HandlerStep(b) => late \subseteq late'
         /\ Scheduler \/ Restart \/ Operator => late' = late
<1> USE DEF hist, store, maps, tasks, ast
<1>1. ASSUME NEW b \in Attempts, HandlerStep(b)
      PROVE  late \subseteq late'
  <2>1. CASE Answered(b)
    BY <2>1 DEF Answered, AnsLookup, AnsRecover, AnsMark, AnsConfirm, AnsHop, AnsHopReply, AnsHopFinish,
       AnsHopLead, AnsHopHangup, RejFinish, RejLead, RejHangup
  <2>2. CASE AmdResult(b)
    BY <2>2 DEF AmdResult, AmdStart, AmdFinish, AmdSettle, AmdHangup, AmdHuman, AmdAttach
  <2>3. CASE ChannelGone(b) \/ Session(b)
    BY <2>3 DEF ChannelGone, Destroyed, DestroyedFinish, DestroyedSettle, Session, SessionIds, SessionEnds,
       PersistAttempt, PersistLead, PersistSkipped
  <2>4. CASE Answer(b) \/ RetryHangup(b) \/ AmdReturn(b) \/ ChannelDies(b) \/ BecomeStale(b)
    BY <2>4 DEF Answer, RetryHangup, AmdReturn, ChannelDies, BecomeStale
  <2> QED BY <1>1, <2>1, <2>2, <2>3, <2>4 DEF HandlerStep
<1>2. CASE Scheduler
  BY <1>2 DEF Scheduler, TickBegin, TickList, TickDecide, Recheck, MarkCompleted, ScanSkip, ScanStale,
     ScanProbeFails, ScanProbe, StaleFinish, StaleLead, Lease, CreateAttempt, MarkDialing, MarkRefused,
     Originate, OriginateRefused, RefusedLead, OriginateReply, OriginateLost
<1>3. CASE Restart \/ Operator
  BY <1>3 DEF Restart, Operator, SetStatus, CancelLead, IgnoreLead, RecycleLead, OperatorTurn
<1> QED BY <1>1, <1>2, <1>3

LEMMA GuardScheduler ==
  ASSUME TypeOK, Scheduler, NEW a \in Attempts
  PROVE  /\ UNCHANGED <<awaiting, hnd>>
         /\ dst'[a] = dst[a] \/ dst'[a] = "event"
<1> USE DEF TypeOK, StoreType, store, maps
<1>1. UNCHANGED <<awaiting, hnd>>
  BY TickMoves DEF Scheduler, Ticks, TickBegin, ScanSkip, ScanStale, ScanProbeFails, ScanProbe, StaleFinish,
     StaleLead, Lease, CreateAttempt, MarkDialing, MarkRefused, Originate, OriginateRefused,
     RefusedLead, OriginateReply, OriginateLost
<1>2. CASE ScanProbe
  <2>1. HangUp(sched.att) /\ sched.att \in Attempts
    BY <1>2 DEF ScanProbe, SchedHolds
  <2> QED BY <1>1, <2>1, HangUpKills
<1>3. CASE ~ScanProbe
  <2>1. dst' = dst
    BY <1>3, TickMoves DEF Scheduler, Ticks, TickBegin, ScanSkip, ScanStale, ScanProbeFails, StaleFinish,
       StaleLead, Lease, CreateAttempt, MarkDialing, MarkRefused, Originate, OriginateRefused,
       RefusedLead, OriginateReply, OriginateLost
  <2> QED BY <1>1, <2>1
<1> QED BY <1>2, <1>3

\* "do not leak channel IDs": a call that is over and that nobody works on has its
\* guard down, with answers lost or not, whatever became of its meta, and across
\* crashes, unless its hop's answer was lost after ChannelDestroyed had been handled.
THEOREM GuardReleasedHolds == Spec => []GuardReleased
<1>1. Init => GuardHeld
  BY DEF Init, GuardHeld
<1>2. TypeOK /\ CallsHeld /\ GuardHeld /\ [Next]_vars => GuardHeld'
  <2> SUFFICES ASSUME TypeOK, CallsHeld, GuardHeld, [Next]_vars, NEW a \in Attempts,
                      a \in awaiting', dst'[a] \in {"finish", "settle", "done"}
               PROVE  hnd'[a].pc = "hopReply" \/ a \in late'
    BY DEF GuardHeld
  <2>1. ASSUME NEW b \in Attempts, HandlerStep(b)
        PROVE  hnd'[a].pc = "hopReply" \/ a \in late'
    <3>1. CASE a = b
      BY <2>1, <3>1, GuardHandlers DEF CallsHeld, CallHeld
    <3>2. CASE a # b
      BY <2>1, <3>2, OthersKept, OthersKeptB, LateGrows DEF Face, FaceB, GuardHeld
    <3> QED BY <3>1, <3>2
  <2>2. CASE Scheduler
    BY <2>2, GuardScheduler, LateGrows DEF GuardHeld
  <2>3. CASE Crash
    BY <2>3 DEF Crash
  <2>4. CASE Restart \/ Operator
    BY <2>4, RowsFrame, LateGrows DEF maps, tasks, GuardHeld
  <2>5. CASE UNCHANGED vars
    BY <2>5 DEF vars, GuardHeld
  <2> QED BY <2>1, <2>2, <2>3, <2>4, <2>5 DEF Next, HandlerStep
<1>3. GuardHeld => GuardReleased
  BY DEF GuardHeld, GuardReleased, Working
<1> QED BY <1>1, <1>2, <1>3, TypeCorrect, CallsAlways, PTL DEF Spec

-----------------------------------------------------------------------------
(* What the watchdog may close *)

\* Nobody works on the call and nobody will: no handler runs, and the channel
\* neither rings nor is with the AMD application.
Settled(a) ==
    /\ hnd[a].pc = "none" /\ amdh[a].pc = "none" /\ chan[a] \notin {"ringing", "amd"}
    /\ att[a].st # "none"
    /\ ~(sched.att = a /\ sched.pc \in {"mark", "originate"})

Scanning == {"scan", "probe", "staleFinish", "staleLead"}

\* A meta without its channel id has no channel (or the originate's answer is on
\* the way), in the map and in the watchdog's copy of it; what is stale, and what
\* the watchdog has picked, is settled; what it has finished is not open.
Unanswered(a) ==
    metaA[a].kind = "tracked" /\ ~metaA[a].ch
    => chan[a] = "none" \/ (sched.pc = "reply" /\ sched.att = a)
Copied(a) == sched.pc \in Scanning /\ [att |-> a, ch |-> FALSE] \in sched.snap => chan[a] = "none"
Refused(a) ==
    sched.att = a => /\ sched.pc = "refused" => chan[a] = "none"
                     /\ sched.pc \in {"refused", "staleLead"} => att[a].st # "open"
Picked(a) ==
    /\ a \in stale => Settled(a)
    /\ sched.att = a /\ sched.pc \in {"probe", "staleFinish", "staleLead"}
       => Settled(a) /\ ~HasSession(a)
WatchHeld(a) == Unanswered(a) /\ Copied(a) /\ Refused(a) /\ Picked(a)
WatchesHeld == \A a \in Attempts : WatchHeld(a)

\* A call without a channel gets none from its handlers.
LEMMA NoChannelStays ==
  ASSUME TypeOK, NEW b \in Attempts, HandlerStep(b), CallHeld(b), chan[b] = "none"
  PROVE  chan'[b] = "none"
<1> USE DEF TypeOK, TasksType, AstType, ast, CallHeld, OnePath
<1>1. dst[b] = "none" /\ sess[b] = "none" /\ hnd[b].pc = "none" /\ amdh[b].pc = "none"
  OBVIOUS
<1>2. CASE Answered(b)
  BY <1>1, <1>2 DEF Answered, AnsLookup, AnsRecover, AnsMark, AnsConfirm, AnsHop, AnsHopReply,
     AnsHopFinish, AnsHopLead, AnsHopHangup, RejFinish, RejLead, RejHangup
<1>3. CASE AmdResult(b)
  BY <1>1, <1>3 DEF AmdResult, AmdStart, AmdFinish, AmdSettle, AmdHangup, AmdHuman, AmdAttach
<1>4. CASE ChannelGone(b)
  BY <1>1, <1>4 DEF ChannelGone, Destroyed, DestroyedFinish, DestroyedSettle
<1>5. CASE Session(b)
  BY <1>1, <1>5 DEF Session, SessionIds, SessionEnds, PersistAttempt, PersistLead, PersistSkipped
<1>6. CASE RetryHangup(b)
  BY <1>6, HangUpKills DEF RetryHangup, Alive
<1>7. CASE Answer(b) \/ AmdReturn(b) \/ ChannelDies(b) \/ BecomeStale(b)
  BY <1>7 DEF Answer, AmdReturn, ChannelDies, BecomeStale, Alive
<1> QED BY <1>2, <1>3, <1>4, <1>5, <1>6, <1>7 DEF HandlerStep

\* A settled call stays settled, and gets no session.
LEMMA SettledStays ==
  ASSUME TypeOK, NEW b \in Attempts, HandlerStep(b), CallHeld(b), Settled(b)
  PROVE  Settled(b)' /\ (~HasSession(b) => ~HasSession(b)')
<1> USE DEF TypeOK, TasksType, AstType, store, maps, tasks, ast, hist, Settled, HasSession
<1>1. sched' = sched /\ att'[b].st # "none"
  BY HandlersKeepQueue, RowsKept
<1>2. CASE Answered(b)
  BY <1>2 DEF Answered, AnsLookup, AnsRecover, AnsMark, AnsConfirm, AnsHop, AnsHopReply,
     AnsHopFinish, AnsHopLead, AnsHopHangup, RejFinish, RejLead, RejHangup
<1>3. CASE AmdResult(b)
  BY <1>3 DEF AmdResult, AmdStart, AmdFinish, AmdSettle, AmdHangup, AmdHuman, AmdAttach
<1>4. CASE ChannelGone(b)
  BY <1>1, <1>4 DEF ChannelGone, Destroyed, DestroyedFinish, DestroyedSettle
<1>5. CASE Session(b)
  <2>1. CASE SessionEnds(b)
    <3>1. HangUp(b)
      BY <2>1 DEF SessionEnds
    <3> QED BY <1>1, <2>1, <3>1, HangUpKills DEF SessionEnds
  <2>2. CASE SessionIds(b) \/ PersistAttempt(b) \/ PersistLead(b) \/ PersistSkipped(b)
    BY <1>1, <2>2 DEF SessionIds, PersistAttempt, PersistLead, PersistSkipped
  <2> QED BY <1>5, <2>1, <2>2 DEF Session
<1>6. CASE RetryHangup(b)
  BY <1>1, <1>6, HangUpKills DEF RetryHangup
<1>7. CASE ChannelDies(b)
  <2>1. chan'[b] = "dead" \/ chan'[b] = chan[b]
    BY <1>7, HangUpKills DEF ChannelDies
  <2> QED BY <1>1, <1>7, <2>1 DEF ChannelDies
<1>8. CASE Answer(b) \/ AmdReturn(b) \/ BecomeStale(b)
  BY <1>1, <1>8 DEF Answer, AmdReturn, BecomeStale
<1> QED BY <1>2, <1>3, <1>4, <1>5, <1>6, <1>7, <1>8 DEF HandlerStep

\* A handler takes a meta with its channel id, drops it or leaves it.
LEMMA MetaMoves ==
  ASSUME TypeOK, NEW b \in Attempts, HandlerStep(b)
  PROVE  metaA'[b] = metaA[b] \/ metaA'[b] = NoMeta \/ metaA'[b].ch
<1> USE DEF TypeOK, MapsType, maps
<1>1. CASE Answered(b)
  <2>1. CASE AnsLookup(b)
    BY <2>1 DEF AnsLookup, TakeMeta
  <2>2. CASE AnsRecover(b)
    BY <2>2 DEF AnsRecover, TakeMeta
  <2>3. CASE RejLead(b)
    BY <2>3 DEF RejLead, TakeMeta
  <2>4. CASE RejHangup(b)
    BY <2>4, ReleaseDrops DEF RejHangup
  <2> QED BY <1>1, <2>1, <2>2, <2>3, <2>4 DEF Answered, AnsMark, AnsConfirm, AnsHop, AnsHopReply,
       AnsHopFinish, AnsHopLead, AnsHopHangup, RejFinish
<1>2. CASE AmdResult(b)
  BY <1>2 DEF AmdResult, AmdStart, AmdFinish, AmdSettle, AmdHangup, AmdHuman, AmdAttach, PopBoth
<1>3. CASE ChannelGone(b)
  <2>1. CASE Destroyed(b)
    BY <2>1, ReleaseDrops DEF Destroyed
  <2> QED BY <1>3, <2>1 DEF ChannelGone, DestroyedFinish, DestroyedSettle, PopBoth
<1>4. CASE Session(b)
  BY <1>4 DEF Session, SessionIds, SessionEnds, PersistAttempt, PersistLead, PersistSkipped, PopBoth
<1>5. CASE RetryHangup(b)
  BY <1>5, ReleaseDrops DEF RetryHangup
<1>6. CASE Answer(b) \/ AmdReturn(b) \/ ChannelDies(b) \/ BecomeStale(b)
  BY <1>6 DEF Answer, AmdReturn, ChannelDies, BecomeStale
<1> QED BY <1>1, <1>2, <1>3, <1>4, <1>5, <1>6 DEF HandlerStep

\* Only the clock makes an attempt stale, and only one that is settled.
LEMMA StaleMoves ==
  ASSUME TypeOK, ~StaleMayRace, NEW b \in Attempts, HandlerStep(b), CallHeld(b), b \notin stale
  PROVE  b \in stale' => Settled(b)'
<1>1. CASE BecomeStale(b)
  BY <1>1 DEF BecomeStale, tasks, ast, store, Working, Settled, CallHeld, OnePath
<1>2. CASE ~BecomeStale(b)
  <2>1. stale' = stale
    BY <1>2 DEF HandlerStep, Answer, RetryHangup, AmdReturn, ChannelDies, maps,
       Answered, AnsLookup, AnsRecover, AnsMark, AnsConfirm, AnsHop, AnsHopReply,
       AnsHopFinish, AnsHopLead, AnsHopHangup, RejFinish, RejLead, RejHangup,
       AmdResult, AmdStart, AmdFinish, AmdSettle, AmdHangup, AmdHuman, AmdAttach,
       ChannelGone, Destroyed, DestroyedFinish, DestroyedSettle,
       Session, SessionIds, SessionEnds, PersistAttempt, PersistLead, PersistSkipped
  <2> QED BY <2>1
<1> QED BY <1>1, <1>2

LEMMA WatchHandlers ==
  ASSUME TypeOK, ~StaleMayRace, NEW b \in Attempts, HandlerStep(b), NEW a \in Attempts,
         CallHeld(a), WatchHeld(a)
  PROVE  WatchHeld(a)'
<1> USE DEF WatchHeld
<1>1. sched' = sched
  BY HandlersKeepQueue
<1>2. CASE a # b
  <2>1. Face(a)' = Face(a) /\ FaceB(a)' = FaceB(a)
    BY <1>2, OthersKept, OthersKeptB
  <2> QED BY <1>1, <2>1 DEF Face, FaceB, Unanswered, Copied, Refused, Picked, Settled, HasSession
<1>3. CASE a = b
  <2>1. Unanswered(a)'
    BY <1>1, <1>3, MetaMoves, NoChannelStays DEF Unanswered, NoMeta
  <2>2. Copied(a)' /\ Refused(a)'
    BY <1>1, <1>3, NoChannelStays, RowsKept DEF Copied, Refused
  <2>3. Picked(a)'
    BY <1>1, <1>3, SettledStays, StaleMoves DEF Picked
  <2> QED BY <2>1, <2>2, <2>3
<1> QED BY <1>2, <1>3

\* A step of the scheduler that moves no channel, opens no row and takes no meta
\* away from its channel id.
LEMMA WatchFrame ==
  ASSUME TypeOK, NEW a \in Attempts, WatchHeld(a),
         UNCHANGED <<hnd, amdh, sess>>, chan'[a] = chan[a],
         a \in stale' => a \in stale,
         att'[a].st = "open" => att[a].st = "open", att'[a].st = "none" <=> att[a].st = "none",
         metaA'[a] = metaA[a] \/ metaA'[a] = NoMeta,
         sched.pc # "reply" \/ sched.att # a,
         sched'.pc \in {"mark", "originate"} /\ sched'.att = a
            => sched.pc \in {"mark", "originate"} /\ sched.att = a,
         sched'.pc \notin {"probe", "staleFinish", "staleLead", "refused"} \/ sched'.att # a,
         [att |-> a, ch |-> FALSE] \in sched'.snap => [att |-> a, ch |-> FALSE] \in sched.snap,
         sched'.pc \in Scanning => sched.pc \in Scanning
  PROVE  WatchHeld(a)'
<1>1. Unanswered(a)'
  BY DEF WatchHeld, Unanswered, NoMeta
<1>2. Copied(a)' /\ Refused(a)'
  BY DEF WatchHeld, Copied, Refused
<1>3. Settled(a) => Settled(a)'
  BY DEF Settled
<1>4. Picked(a)'
  BY <1>3 DEF WatchHeld, Picked
<1> QED BY <1>1, <1>2, <1>4 DEF WatchHeld

LEMMA WatchScan ==
  ASSUME TypeOK, NEW a \in Attempts, CallHeld(a), WatchHeld(a),
         TickBegin \/ ScanSkip \/ ScanStale \/ ScanProbeFails \/ ScanProbe \/ StaleFinish \/ StaleLead
  PROVE  WatchHeld(a)'
<1> USE NoneAssumption DEF TypeOK, StoreType, MapsType, TasksType, AstType, SchedTask, store, maps, tasks,
       ast, hist
<1>1. CASE TickBegin
  <2>1. PICK snap \in SUBSET [att : Attempts, ch : BOOLEAN] :
          /\ sched' = [pc |-> "scan", lead |-> None, att |-> None, ch |-> FALSE,
                       snap |-> snap, quiet |-> FALSE]
          /\ [att |-> a, ch |-> FALSE] \in snap => metaA[a].kind = "tracked" /\ ~metaA[a].ch
    <3> DEFINE tracked == {b \in Attempts : metaA[b].kind = "tracked"}
               snap == {[att |-> b, ch |-> metaA[b].ch] : b \in tracked}
    <3>1. snap \in SUBSET [att : Attempts, ch : BOOLEAN]
      BY DEF Meta
    <3>2. [att |-> a, ch |-> FALSE] \in snap => metaA[a].kind = "tracked" /\ ~metaA[a].ch
      <4> SUFFICES ASSUME [att |-> a, ch |-> FALSE] \in snap
                   PROVE  metaA[a].kind = "tracked" /\ ~metaA[a].ch
        OBVIOUS
      <4>1. PICK b \in tracked : [att |-> a, ch |-> FALSE] = [att |-> b, ch |-> metaA[b].ch]
        OBVIOUS
      <4>2. a = b /\ metaA[b].ch = FALSE
        BY <4>1
      <4> QED BY <4>2
    <3>3. sched' = [pc |-> "scan", lead |-> None, att |-> None, ch |-> FALSE,
                    snap |-> snap, quiet |-> FALSE]
      BY <1>1 DEF TickBegin, Idle
    <3> HIDE DEF snap
    <3> QED BY <3>1, <3>2, <3>3
  <2>2. /\ sched'.att = None /\ sched'.pc = "scan" /\ sched'.snap = snap /\ sched.pc = "idle"
        /\ UNCHANGED <<att, metaA, hnd, amdh, sess, chan>>
        /\ a \in stale' => a \in stale
    <3>1. sched'.att = None /\ sched'.pc = "scan" /\ sched'.snap = snap
      BY <2>1
    <3>2. /\ sched.pc = "idle" /\ UNCHANGED <<att, metaA, hnd, amdh, sess, chan>>
          /\ stale' = {b \in stale : metaA[b].kind = "tracked"}
      BY <1>1 DEF TickBegin
    <3> QED BY <3>1, <3>2
  <2>3. Unanswered(a)' /\ Refused(a)'
    BY <2>2 DEF WatchHeld, Unanswered, Refused
  <2>4. Copied(a)'
    BY <2>1, <2>2 DEF WatchHeld, Unanswered, Copied
  <2>5. Settled(a) => Settled(a)'
    BY <2>2 DEF Settled
  <2>6. Picked(a)'
    BY <2>2, <2>5 DEF WatchHeld, Picked
  <2> QED BY <2>3, <2>4, <2>6 DEF WatchHeld
<1>2. CASE ScanSkip
  <2>1. PICK m \in sched.snap : sched' = [sched EXCEPT !.snap = sched.snap \ {m}]
    BY <1>2 DEF ScanSkip
  <2>2. UNCHANGED <<att, metaA, stale, hnd, amdh, sess, chan>> /\ sched.pc = "scan"
    BY <1>2 DEF ScanSkip
  <2> QED BY <2>1, <2>2, WatchFrame DEF Scanning
<1>3. CASE ScanStale
  <2>1. PICK m \in sched.snap :
          /\ ~Overlooked(m)
          /\ sched' = [sched EXCEPT !.pc = IF m.ch THEN "probe" ELSE "staleFinish",
                                    !.att = m.att, !.ch = m.ch, !.snap = sched.snap \ {m}]
    BY <1>3 DEF ScanStale
  <2>2. m.att \in Attempts /\ m.ch \in BOOLEAN /\ m = [att |-> m.att, ch |-> m.ch]
    OBVIOUS
  <2>3. /\ UNCHANGED <<att, metaA, stale, hnd, amdh, sess, chan>> /\ sched.pc = "scan"
        /\ sched'.pc \in {"probe", "staleFinish"} /\ sched'.att = m.att
        /\ [att |-> a, ch |-> FALSE] \in sched'.snap => [att |-> a, ch |-> FALSE] \in sched.snap
    BY <1>3, <2>1, <2>2 DEF ScanStale
  <2>4. CASE m.att # a
    BY <2>3, <2>4, WatchFrame DEF Scanning
  <2>5. CASE m.att = a
    <3>1. a \in stale /\ (m.ch => ~HasSession(a))
      BY <2>1, <2>5 DEF Overlooked
    <3>2. ~m.ch => chan[a] = "none"
      <4>1. ~m.ch => m = [att |-> a, ch |-> FALSE]
        BY <2>2, <2>5
      <4> QED BY <2>3, <4>1 DEF WatchHeld, Copied, Scanning
    <3>3. ~HasSession(a)
      BY <2>2, <3>1, <3>2 DEF CallHeld, OnePath, HasSession
    <3>4. Settled(a)
      BY <3>1 DEF WatchHeld, Picked
    <3>5. Settled(a)' /\ ~HasSession(a)'
      BY <2>3, <3>3, <3>4 DEF Settled, HasSession
    <3>6. Unanswered(a)' /\ Copied(a)' /\ Refused(a)'
      BY <2>3 DEF WatchHeld, Unanswered, Copied, Refused, Scanning
    <3> QED BY <3>5, <3>6 DEF WatchHeld, Picked
  <2> QED BY <2>4, <2>5
<1>4. CASE ScanProbeFails
  <2>1. /\ sched'.pc = "scan" /\ sched'.att = None /\ sched'.snap = sched.snap /\ sched.pc = "probe"
        /\ UNCHANGED <<att, metaA, stale, hnd, amdh, sess, chan>>
    BY <1>4 DEF ScanProbeFails
  <2> QED BY <2>1, WatchFrame DEF Scanning
<1>5. CASE ScanProbe
  <2>1. /\ sched'.pc = "staleFinish" /\ sched'.att = sched.att /\ sched'.snap = sched.snap /\ sched.pc = "probe"
        /\ UNCHANGED <<att, metaA, stale, hnd, amdh, sess>> /\ HangUp(sched.att) /\ sched.att \in Attempts
    BY <1>5 DEF ScanProbe, SchedHolds
  <2>2. chan'[a] = chan[a] \/ (chan'[a] = "dead" /\ Alive(a))
    BY <2>1, HangUpKills
  <2>3. Unanswered(a)' /\ Copied(a)' /\ Refused(a)'
    BY <2>1, <2>2 DEF WatchHeld, Unanswered, Copied, Refused, Scanning, Alive
  <2>4. Settled(a) => Settled(a)'
    BY <2>1, <2>2 DEF Settled
  <2>5. Picked(a)'
    BY <2>1, <2>4 DEF WatchHeld, Picked, HasSession
  <2> QED BY <2>3, <2>5 DEF WatchHeld
<1>6. CASE StaleFinish
  <2>1. /\ sched'.pc = "staleLead" /\ sched'.att = sched.att /\ sched'.snap = sched.snap
        /\ sched.pc = "staleFinish" /\ sched.att \in Attempts
        /\ att' = Finish(sched.att, "no_answer") /\ "no_answer" \in Outcome
        /\ UNCHANGED <<metaA, stale, hnd, amdh, sess, chan>>
    BY <1>6 DEF StaleFinish, SchedHolds, Outcome
  <2>2. /\ sched.att = a => att'[a].st # "open"
        /\ att'[a].st = "open" => att[a].st = "open"
        /\ att'[a].st = "none" <=> att[a].st = "none"
    BY <2>1, FinishCloses
  <2>3. Unanswered(a)' /\ Copied(a)' /\ Refused(a)'
    BY <2>1, <2>2 DEF WatchHeld, Unanswered, Copied, Refused, Scanning
  <2>4. Settled(a) => Settled(a)'
    BY <2>1, <2>2 DEF Settled
  <2>5. Picked(a)'
    BY <2>1, <2>4 DEF WatchHeld, Picked, HasSession
  <2> QED BY <2>3, <2>5 DEF WatchHeld
<1>7. CASE StaleLead
  <2>1. /\ sched'.pc = "scan" /\ sched'.att = None /\ sched'.snap = sched.snap /\ sched.pc = "staleLead"
        /\ UNCHANGED <<att, stale, hnd, amdh, sess, chan>>
        /\ metaA'[a] = metaA[a] \/ metaA'[a] = NoMeta
    BY <1>7 DEF StaleLead
  <2> QED BY <2>1, WatchFrame DEF Scanning
<1> QED BY <1>1, <1>2, <1>3, <1>4, <1>5, <1>6, <1>7

LEMMA WatchDial ==
  ASSUME TypeOK, ~LossyAri, NEW a \in Attempts, CallHeld(a), WatchHeld(a),
         Ticks \/ Lease \/ CreateAttempt \/ MarkDialing \/ MarkRefused \/ Originate
         \/ OriginateRefused \/ RefusedLead \/ OriginateReply \/ OriginateLost
  PROVE  WatchHeld(a)'
<1> USE NoneAssumption DEF TypeOK, StoreType, MapsType, TasksType, AstType, SchedTask, store, maps, tasks,
       ast, hist
<1>1. CASE Ticks \/ Lease
  <2>1. UNCHANGED <<att, metaA, stale, hnd, amdh, sess, chan>>
    BY <1>1, TickMoves DEF Lease
  <2>2. sched'.pc \in {"idle", "decide", "complete", "lease", "recheck", "create"}
    BY <1>1, TickMoves, LeaseMoves
  <2>3. sched.pc # "reply"
    BY <1>1 DEF Ticks, TickList, TickDecide, Recheck, MarkCompleted, Lease
  <2>4. Unanswered(a)' /\ Copied(a)' /\ Refused(a)'
    BY <2>1, <2>2, <2>3 DEF WatchHeld, Unanswered, Copied, Refused, Scanning
  <2>5. Settled(a) => Settled(a)'
    BY <2>1, <2>2 DEF Settled
  <2>6. Picked(a)'
    BY <2>1, <2>2, <2>5 DEF WatchHeld, Picked
  <2> QED BY <2>4, <2>6 DEF WatchHeld
<1>2. CASE CreateAttempt
  <2>1. PICK c \in Attempts :
          /\ att[c].st = "none"
          /\ att' = [att EXCEPT ![c] = [st |-> "open", lead |-> sched.lead, outcome |-> "none"]]
          /\ metaA' = [metaA EXCEPT ![c] = [kind |-> "tracked", ch |-> FALSE]]
          /\ sched' = [sched EXCEPT !.pc = "mark", !.att = c]
    BY <1>2 DEF CreateAttempt
  <2>2. /\ UNCHANGED <<stale, hnd, amdh, sess, chan>> /\ sched.pc = "create"
        /\ sched'.pc = "mark" /\ sched'.att = c
    BY <1>2, <2>1 DEF CreateAttempt
  <2>3. Copied(a)' /\ Refused(a)'
    BY <2>2 DEF Copied, Refused, Scanning
  <2>4. Unanswered(a)'
    <3>1. c = a => chan[a] = "none"
      BY <2>1 DEF CallHeld, OnePath
    <3>2. c # a => metaA'[a] = metaA[a]
      BY <2>1
    <3> QED BY <2>2, <3>1, <3>2 DEF WatchHeld, Unanswered
  <2>5. Settled(a) => Settled(a)'
    <3>1. Settled(a) => a # c /\ att'[a] = att[a]
      BY <2>1 DEF Settled
    <3> QED BY <2>2, <3>1 DEF Settled
  <2>6. Picked(a)'
    BY <2>2, <2>5 DEF WatchHeld, Picked
  <2> QED BY <2>3, <2>4, <2>6 DEF WatchHeld
<1>3. CASE MarkDialing
  <2>1. /\ sched.pc = "mark" /\ sched'.pc = "originate" /\ sched'.att = sched.att
        /\ sched'.snap = sched.snap /\ UNCHANGED <<att, metaA, stale, hnd, amdh, sess, chan>>
    BY <1>3 DEF MarkDialing
  <2> QED BY <2>1, WatchFrame DEF Scanning
<1>4. CASE MarkRefused \/ RefusedLead \/ OriginateLost
  <2>1. /\ sched' = Idle /\ sched.pc # "reply" /\ UNCHANGED <<stale, hnd, amdh, sess, chan>>
        /\ metaA'[a] = metaA[a] \/ metaA'[a] = NoMeta
    BY <1>4 DEF MarkRefused, RefusedLead, OriginateLost
  <2>2. sched'.pc = "idle" /\ sched'.snap = {}
    BY <2>1 DEF Idle
  <2>3. /\ att'[a].st = "open" => att[a].st = "open"
        /\ att'[a].st = "none" <=> att[a].st = "none"
    <3>1. CASE MarkRefused
      <4>1. sched.att \in Attempts /\ att' = Finish(sched.att, "canceled") /\ "canceled" \in Outcome
        BY <3>1 DEF MarkRefused, SchedHolds, Outcome
      <4> QED BY <4>1, FinishCloses
    <3>2. CASE RefusedLead \/ OriginateLost
      BY <3>2 DEF RefusedLead, OriginateLost
    <3> QED BY <1>4, <3>1, <3>2
  <2> QED BY <2>1, <2>2, <2>3, WatchFrame DEF Scanning
<1>5. CASE Originate
  <2>1. /\ sched.pc = "originate" /\ sched'.pc = "reply" /\ sched'.att = sched.att
        /\ sched.att \in Attempts /\ chan' = [chan EXCEPT ![sched.att] = "ringing"]
        /\ UNCHANGED <<att, metaA, stale, hnd, amdh, sess>>
    BY <1>5 DEF Originate, SchedHolds
  <2>2. Unanswered(a)' /\ Copied(a)' /\ Refused(a)'
    BY <2>1 DEF WatchHeld, Unanswered, Copied, Refused, Scanning
  <2>3. Settled(a) => Settled(a)'
    BY <2>1 DEF Settled
  <2>4. Picked(a)'
    BY <2>1, <2>3 DEF WatchHeld, Picked
  <2> QED BY <2>2, <2>4 DEF WatchHeld
<1>6. CASE OriginateRefused
  <2>1. /\ sched.pc = "originate" /\ sched'.pc = "refused" /\ sched'.att = sched.att
        /\ sched.att \in Attempts /\ att' = Finish(sched.att, "error") /\ "error" \in Outcome
        /\ UNCHANGED <<metaA, stale, hnd, amdh, sess, chan>>
    BY <1>6 DEF OriginateRefused, SchedHolds, Outcome
  <2>2. /\ sched.att = a => att'[a].st # "open" /\ chan[a] = "none"
        /\ att'[a].st = "none" <=> att[a].st = "none"
    BY <2>1, FinishCloses DEF CallHeld, OwnedCall, OneChannel
  <2>3. Unanswered(a)' /\ Copied(a)' /\ Refused(a)'
    BY <2>1, <2>2 DEF WatchHeld, Unanswered, Copied, Refused, Scanning
  <2>4. Settled(a) => Settled(a)'
    BY <2>1, <2>2 DEF Settled
  <2>5. Picked(a)'
    BY <2>1, <2>4 DEF WatchHeld, Picked
  <2> QED BY <2>3, <2>5 DEF WatchHeld
<1>7. CASE OriginateReply
  <2>1. /\ sched.pc = "reply" /\ sched' = Idle /\ UNCHANGED <<att, stale, hnd, amdh, sess, chan>>
        /\ sched.att = a => metaA'[a].ch
        /\ sched.att # a => metaA'[a] = metaA[a]
    BY <1>7 DEF OriginateReply, SchedHolds
  <2>2. sched'.pc = "idle"
    BY <2>1 DEF Idle
  <2>3. Unanswered(a)' /\ Copied(a)' /\ Refused(a)'
    BY <2>1, <2>2 DEF WatchHeld, Unanswered, Copied, Refused, Scanning
  <2>4. Settled(a) => Settled(a)'
    BY <2>1, <2>2 DEF Settled
  <2>5. Picked(a)'
    BY <2>1, <2>2, <2>4 DEF WatchHeld, Picked
  <2> QED BY <2>3, <2>5 DEF WatchHeld
<1> QED BY <1>1, <1>2, <1>3, <1>4, <1>5, <1>6, <1>7

LEMMA WatchesAlways ==
  ASSUME ~LossyAri, ~StaleMayRace
  PROVE  Spec => []WatchesHeld
<1>1. Init => WatchesHeld
  BY NoneAssumption DEF Init, WatchesHeld, WatchHeld, Unanswered, Copied, Refused, Picked, Scanning,
     Idle, NoMeta
<1>2. TypeOK /\ CallsHeld /\ WatchesHeld /\ [Next]_vars => WatchesHeld'
  <2> SUFFICES ASSUME TypeOK, CallsHeld, WatchesHeld, [Next]_vars, NEW a \in Attempts
               PROVE  WatchHeld(a)'
    BY DEF WatchesHeld
  <2> CallHeld(a) /\ WatchHeld(a)
    BY DEF CallsHeld, WatchesHeld
  <2>1. ASSUME NEW b \in Attempts, HandlerStep(b)
        PROVE  WatchHeld(a)'
    BY <2>1, WatchHandlers
  <2>2. CASE Scheduler
    BY <2>2, WatchScan, WatchDial DEF Scheduler, Ticks
  <2>3. CASE Crash
    <3>1. sched'.att # a /\ sched'.pc = "idle" /\ stale' = {} /\ metaA'[a].kind = "none"
      BY <2>3, NoneAssumption DEF Crash, Idle, NoMeta
    <3> QED BY <3>1 DEF WatchHeld, Unanswered, Copied, Refused, Picked, Scanning
  <2>4. CASE Restart \/ Operator
    <3> USE <2>4, RowsFrame DEF maps, tasks, ast
    <3>1. Unanswered(a)' /\ Copied(a)' /\ Refused(a)'
      BY DEF WatchHeld, Unanswered, Copied, Refused
    <3>2. Settled(a) => Settled(a)'
      BY DEF Settled
    <3>3. Picked(a)'
      BY <3>2 DEF WatchHeld, Picked, HasSession
    <3> QED BY <3>1, <3>3 DEF WatchHeld
  <2>5. CASE UNCHANGED vars
    BY <2>5 DEF vars, WatchHeld, Unanswered, Copied, Refused, Picked, Settled, HasSession
  <2> QED BY <2>1, <2>2, <2>3, <2>4, <2>5 DEF Next, HandlerStep
<1> QED BY <1>1, <1>2, TypeCorrect, CallsAlways, PTL DEF Spec

-----------------------------------------------------------------------------
(* Capacity and completion *)

\* The attempt is open, has a session, or is on its way to one.
Engaged(a) ==
    \/ att[a].st = "open" \/ HasSession(a)
    \/ sched.pc \in {"mark", "originate"} /\ sched.att = a
    \/ chan[a] \in {"ringing", "amd"}
    \/ chan[a] = "stasis"
       /\ hnd[a].pc \in {"lookup", "recover", "mark", "confirm", "hop", "hopReply"}
    \/ chan[a] = "back" /\ amdh[a].pc \in {"start", "lead", "attach"}
EngagedSet == {a \in Attempts : Engaged(a)}

\* What is engaged is counted: its meta is in memory and belongs to the campaign.
Counted(a) == Engaged(a) => metaA[a].kind \in Owned

\* No handler engages a call that was not.
LEMMA EngagedHandlers ==
  ASSUME TypeOK, NEW b \in Attempts, HandlerStep(b), CallHeld(b), Engaged(b)'
  PROVE  Engaged(b)
<1> SUFFICES ASSUME att'[b].st # "open", ~(sched.pc \in {"mark", "originate"} /\ sched.att = b)
             PROVE  Engaged(b)
  BY RowsKept DEF Engaged
<1>1. sched' = sched
  BY HandlersKeepQueue
<1> USE <1>1 DEF TypeOK, StoreType, MapsType, TasksType, AstType, HndTask, AmdTask, store, maps, tasks,
       ast, hist, HasSession, Engaged
<1>2. CASE Answered(b)
  <2>1. CASE AnsLookup(b)
    BY <2>1 DEF AnsLookup
  <2>2. CASE AnsRecover(b)
    BY <2>2 DEF AnsRecover
  <2>3. CASE AnsMark(b) \/ AnsConfirm(b) \/ AnsHop(b)
    BY <2>3 DEF AnsMark, AnsConfirm, AnsHop
  <2>4. CASE AnsHopReply(b)
    BY <2>4 DEF AnsHopReply, NoTask
  <2>5. CASE AnsHopFinish(b) \/ AnsHopLead(b) \/ RejFinish(b) \/ RejLead(b)
    BY <2>5 DEF AnsHopFinish, AnsHopLead, RejFinish, RejLead
  <2>6. CASE AnsHopHangup(b)
    <3>1. HangUp(b)
      BY <2>6 DEF AnsHopHangup
    <3> QED BY <2>6, <3>1, HangUpKills DEF AnsHopHangup, NoTask
  <2>7. CASE RejHangup(b)
    <3>1. chan'[b] = chan[b] \/ chan'[b] = "dead"
      BY <2>7, HangUpKills DEF RejHangup
    <3> QED BY <2>7, <3>1 DEF RejHangup, NoTask
  <2> QED BY <1>2, <2>1, <2>2, <2>3, <2>4, <2>5, <2>6, <2>7 DEF Answered
<1>3. CASE AmdResult(b)
  <2>1. CASE AmdStart(b) \/ AmdFinish(b) \/ AmdSettle(b) \/ AmdHuman(b)
    BY <2>1 DEF AmdStart, AmdFinish, AmdSettle, AmdHuman
  <2>2. CASE AmdHangup(b)
    <3>1. HangUp(b)
      BY <2>2 DEF AmdHangup
    <3> QED BY <2>2, <3>1, HangUpKills DEF AmdHangup, NoAmd
  <2>3. CASE AmdAttach(b)
    BY <2>3 DEF AmdAttach, NoAmd
  <2> QED BY <1>3, <2>1, <2>2, <2>3 DEF AmdResult
<1>4. CASE ChannelGone(b)
  BY <1>4 DEF ChannelGone, Destroyed, DestroyedFinish, DestroyedSettle
<1>5. CASE Session(b)
  <2>1. CASE SessionEnds(b)
    <3>1. HangUp(b)
      BY <2>1 DEF SessionEnds
    <3> QED BY <2>1, <3>1, HangUpKills DEF SessionEnds
  <2>2. CASE SessionIds(b) \/ PersistAttempt(b) \/ PersistLead(b) \/ PersistSkipped(b)
    BY <2>2 DEF SessionIds, PersistAttempt, PersistLead, PersistSkipped
  <2> QED BY <1>5, <2>1, <2>2 DEF Session
<1>6. CASE Answer(b)
  BY <1>6 DEF Answer, CallHeld, OnePath
<1>7. CASE AmdReturn(b)
  BY <1>7 DEF AmdReturn
<1>8. CASE RetryHangup(b)
  BY <1>8, HangUpKills DEF RetryHangup
<1>9. CASE ChannelDies(b)
  <2>1. chan'[b] = chan[b] \/ chan'[b] = "dead"
    BY <1>9, HangUpKills DEF ChannelDies
  <2> QED BY <1>9, <2>1 DEF ChannelDies
<1>10. CASE BecomeStale(b)
  BY <1>10 DEF BecomeStale
<1> QED BY <1>2, <1>3, <1>4, <1>5, <1>6, <1>7, <1>8, <1>9, <1>10 DEF HandlerStep

\* A handler that drops a meta, or marks it unowned, leaves the call disengaged.
LEMMA CountedHandlers ==
  ASSUME TypeOK, NEW b \in Attempts, HandlerStep(b), CallHeld(b), Counted(b)
  PROVE  Counted(b)'
<1> SUFFICES ASSUME metaA[b].kind \in Owned, metaA'[b].kind \notin Owned
             PROVE  ~Engaged(b)'
  BY EngagedHandlers DEF Counted
<1>1. CallHeld(b)'
  BY CallHandlers
<1>2. sched' = sched
  BY HandlersKeepQueue
<1> USE DEF TypeOK, StoreType, MapsType, TasksType, AstType, HndTask, AmdTask, store, maps, tasks,
       ast, hist
<1>3. ASSUME chan'[b] \notin {"none", "ringing", "amd"}, att'[b].st # "open", ~HasSession(b)',
             chan'[b] = "stasis" => hnd'[b].pc \in {"none", "rejHangup"},
             chan'[b] = "back" => amdh'[b].pc \in {"none", "hangup"}
      PROVE  ~Engaged(b)'
  BY <1>1, <1>2, <1>3 DEF Engaged, CallHeld, OwnedCall, OneChannel
<1>4. CASE Answered(b)
  <2>1. CASE AnsLookup(b) \/ AnsRecover(b)
    BY <2>1 DEF AnsLookup, AnsRecover, TakeMeta, Owned
  <2>2. CASE RejLead(b)
    <3>1. hnd[b].pc = "rejLead" /\ hnd'[b].pc = "rejHangup" /\ chan' = chan
      BY <2>2 DEF RejLead
    <3>2. /\ chan'[b] \notin {"none", "ringing", "amd", "back"} /\ att'[b].st # "open"
          /\ sess'[b] = "none"
      BY <1>1, <3>1 DEF CallHeld, OnePath, ClosedIsNotOpen, Closed
    <3> QED BY <1>3, <3>1, <3>2 DEF HasSession
  <2>3. CASE RejHangup(b)
    <3>1. /\ hnd[b].pc = "rejHangup" /\ hnd'[b].pc = "none" /\ UNCHANGED <<att, sess>>
          /\ Kill(b)
      BY <2>3 DEF RejHangup, NoTask
    <3>2. /\ chan'[b] \notin {"none", "ringing", "amd", "back"} /\ att'[b].st # "open"
          /\ sess'[b] = "none"
      BY <3>1, HangUpKills DEF CallHeld, OnePath, ClosedIsNotOpen, Closed, Alive
    <3> QED BY <1>3, <3>1, <3>2 DEF HasSession
  <2>4. CASE AnsMark(b) \/ AnsConfirm(b) \/ AnsHop(b) \/ AnsHopReply(b)
    BY <2>4 DEF AnsMark, AnsConfirm, AnsHop, AnsHopReply
  <2>5. CASE AnsHopFinish(b) \/ AnsHopLead(b) \/ AnsHopHangup(b) \/ RejFinish(b)
    BY <2>5 DEF AnsHopFinish, AnsHopLead, AnsHopHangup, RejFinish
  <2> QED BY <1>4, <2>1, <2>2, <2>3, <2>4, <2>5 DEF Answered
<1>5. CASE AmdResult(b)
  <2>1. CASE AmdSettle(b)
    <3>1. amdh[b].pc = "settle" /\ amdh'[b].pc = "hangup" /\ UNCHANGED <<chan, sess, hnd>>
      BY <2>1 DEF AmdSettle
    <3>2. /\ chan'[b] \in {"back", "dead"} /\ att'[b].st # "open" /\ sess'[b] = "none"
      BY <1>1, <3>1 DEF CallHeld, OnePath, ClosedIsNotOpen, Closed
    <3> QED BY <1>3, <3>1, <3>2 DEF HasSession
  <2>2. CASE AmdStart(b) \/ AmdFinish(b) \/ AmdHangup(b) \/ AmdHuman(b) \/ AmdAttach(b)
    BY <2>2 DEF AmdStart, AmdFinish, AmdHangup, AmdHuman, AmdAttach
  <2> QED BY <1>5, <2>1, <2>2 DEF AmdResult
<1>6. CASE ChannelGone(b)
  <2>1. CASE Destroyed(b)
    <3>1. dst[b] # "none" /\ UNCHANGED <<att, chan, sess>> /\ metaA[b].kind \in RejectedKind
      BY <2>1, ReleaseDrops DEF Destroyed
    <3>2. chan'[b] = "dead" /\ att'[b].st # "open" /\ sess'[b] = "none"
      BY <3>1 DEF CallHeld, OwnedCall, OneChannel, RejectedStays, ClosedIsNotOpen, Closed
    <3> QED BY <1>3, <3>2 DEF HasSession
  <2>2. CASE DestroyedFinish(b)
    BY <2>2 DEF DestroyedFinish
  <2>3. CASE DestroyedSettle(b)
    <3>1. dst[b] = "settle" /\ UNCHANGED <<att, chan, sess>>
      BY <2>3 DEF DestroyedSettle
    <3>2. chan'[b] = "dead" /\ att'[b].st # "open" /\ ~HasSession(b)'
      BY <3>1 DEF CallHeld, OnePath, ClosedIsNotOpen, Closed, HasSession
    <3> QED BY <1>3, <3>2
  <2> QED BY <1>6, <2>1, <2>2, <2>3 DEF ChannelGone
<1>7. CASE Session(b)
  <2>1. CASE PersistLead(b)
    <3>1. sess[b] = "persisted" /\ sess'[b] = "gone" /\ UNCHANGED <<att, chan, hnd, amdh>>
      BY <2>1 DEF PersistLead
    <3>2. /\ chan'[b] \notin {"none", "ringing", "stasis", "amd"} /\ att'[b].st # "open"
          /\ amdh'[b].pc = "none"
      BY <3>1 DEF CallHeld, OnePath, ClosedIsNotOpen, Closed
    <3> QED BY <1>3, <3>1, <3>2 DEF HasSession
  <2>2. CASE SessionIds(b) \/ SessionEnds(b) \/ PersistAttempt(b) \/ PersistSkipped(b)
    BY <2>2 DEF SessionIds, SessionEnds, PersistAttempt, PersistSkipped
  <2> QED BY <1>7, <2>1, <2>2 DEF Session
<1>8. CASE RetryHangup(b)
  <2>1. Kill(b) /\ Release(b) /\ UNCHANGED <<att, sess>>
    BY <1>8 DEF RetryHangup
  <2>2. metaA[b].kind \in RejectedKind
    BY <2>1, ReleaseDrops
  <2>3. chan'[b] = "dead" /\ att'[b].st # "open" /\ sess'[b] = "none"
    BY <2>1, <2>2, HangUpKills DEF CallHeld, RejectedStays, ClosedIsNotOpen, Closed, Alive
  <2> QED BY <1>3, <2>3 DEF HasSession
<1>9. CASE Answer(b) \/ AmdReturn(b) \/ ChannelDies(b) \/ BecomeStale(b)
  BY <1>9 DEF Answer, AmdReturn, ChannelDies, BecomeStale
<1> QED BY <1>4, <1>5, <1>6, <1>7, <1>8, <1>9 DEF HandlerStep

\* The scheduler engages a call only by creating its attempt.
LEMMA EngagedScheduler ==
  ASSUME TypeOK, Scheduler, ~CreateAttempt, NEW a \in Attempts, Engaged(a)'
  PROVE  Engaged(a)
<1> USE DEF TypeOK, StoreType, MapsType, TasksType, AstType, SchedTask, store, maps, tasks, ast, hist
<1>1. ASSUME UNCHANGED <<hnd, amdh, sess>>, chan'[a] = chan[a] \/ chan'[a] = "dead",
             att'[a].st = "open" => att[a].st = "open",
             sched'.pc \in {"mark", "originate"} => sched.pc \in {"mark", "originate"} /\ sched'.att = sched.att
      PROVE  Engaged(a)
  BY <1>1 DEF Engaged, HasSession
<1>2. CASE TickBegin \/ ScanSkip \/ ScanStale \/ ScanProbeFails \/ StaleLead
  <2>1. sched'.pc \notin {"mark", "originate"}
    <3>1. CASE TickBegin
      BY <3>1 DEF TickBegin, Idle
    <3>2. CASE ScanSkip
      BY <3>2 DEF ScanSkip
    <3>3. CASE ScanStale
      BY <3>3 DEF ScanStale
    <3>4. CASE ScanProbeFails \/ StaleLead
      BY <3>4 DEF ScanProbeFails, StaleLead
    <3> QED BY <1>2, <3>1, <3>2, <3>3, <3>4
  <2>2. UNCHANGED <<att, hnd, amdh, sess, chan>>
    BY <1>2 DEF TickBegin, ScanSkip, ScanStale, ScanProbeFails, StaleLead
  <2> QED BY <1>1, <2>1, <2>2
<1>3. CASE ScanProbe
  <2>1. HangUp(sched.att) /\ sched.att \in Attempts /\ sched'.pc = "staleFinish"
        /\ UNCHANGED <<att, hnd, amdh, sess>>
    BY <1>3 DEF ScanProbe, SchedHolds
  <2> QED BY <1>1, <2>1, HangUpKills
<1>4. CASE Ticks \/ Lease
  <2>1. UNCHANGED <<att, hnd, amdh, sess, chan>>
    BY <1>4, TickMoves DEF Lease
  <2>2. sched'.pc \notin {"mark", "originate"}
    BY <1>4, TickMoves, LeaseMoves
  <2> QED BY <1>1, <2>1, <2>2
<1>5. ASSUME NEW o \in Outcome, att' = Finish(sched.att, o), sched.att \in Attempts
      PROVE  att'[a].st = "open" => att[a].st = "open"
  BY <1>5, FinishCloses
<1>6. CASE StaleFinish \/ OriginateRefused
  <2>1. sched'.pc \notin {"mark", "originate"} /\ UNCHANGED <<hnd, amdh, sess, chan>>
    BY <1>6 DEF StaleFinish, OriginateRefused
  <2>2. att'[a].st = "open" => att[a].st = "open"
    BY <1>5, <1>6 DEF StaleFinish, OriginateRefused, SchedHolds, Outcome
  <2> QED BY <1>1, <2>1, <2>2
<1>7. CASE MarkRefused \/ RefusedLead \/ OriginateReply \/ OriginateLost
  <2>1. sched' = Idle /\ UNCHANGED <<hnd, amdh, sess, chan>>
    BY <1>7 DEF MarkRefused, RefusedLead, OriginateReply, OriginateLost
  <2>2. att'[a].st = "open" => att[a].st = "open"
    BY <1>5, <1>7 DEF MarkRefused, RefusedLead, OriginateReply, OriginateLost, SchedHolds, Outcome
  <2>3. sched'.pc \notin {"mark", "originate"}
    BY <2>1 DEF Idle
  <2> QED BY <1>1, <2>1, <2>2, <2>3
<1>8. CASE MarkDialing
  BY <1>8, <1>1 DEF MarkDialing
<1>9. CASE Originate
  <2>1. CASE a = sched.att
    BY <1>9, <2>1 DEF Originate, Engaged
  <2>2. CASE a # sched.att
    <3>1. /\ UNCHANGED <<att, hnd, amdh, sess>> /\ chan'[a] = chan[a]
          /\ sched'.pc \notin {"mark", "originate"}
      BY <1>9, <2>2 DEF Originate
    <3> QED BY <1>1, <3>1
  <2> QED BY <2>1, <2>2
<1> QED BY <1>2, <1>3, <1>4, <1>6, <1>7, <1>8, <1>9 DEF Scheduler, Ticks

\* What the scheduler takes out of the map is disengaged.
LEMMA CountedScheduler ==
  ASSUME TypeOK, ~LossyAri, Scheduler, ~CreateAttempt, NEW a \in Attempts, CallHeld(a), WatchHeld(a),
         Counted(a)
  PROVE  Counted(a)'
<1> SUFFICES ASSUME metaA[a].kind \in Owned, metaA'[a].kind \notin Owned
             PROVE  ~Engaged(a)'
  BY EngagedScheduler DEF Counted
<1> USE DEF TypeOK, StoreType, MapsType, TasksType, AstType, SchedTask, store, maps, tasks, ast, hist
<1>1. ASSUME sched.att = a, att'[a].st # "open", ~HasSession(a)', sched'.pc \notin {"mark", "originate"},
             chan'[a] \notin {"ringing", "amd"}, hnd'[a].pc = "none", amdh'[a].pc = "none"
      PROVE  ~Engaged(a)'
  BY <1>1 DEF Engaged
<1>2. CASE StaleLead
  <2>1. /\ sched.pc = "staleLead" /\ sched'.pc = "scan"
        /\ UNCHANGED <<att, chan, hnd, amdh, sess>>
        /\ metaA' = [metaA EXCEPT ![sched.att] = NoMeta]
    BY <1>2 DEF StaleLead
  <2>2. sched.att = a
    BY <2>1
  <2>3. att[a].st # "open" /\ ~HasSession(a) /\ Settled(a)
    BY <2>1, <2>2 DEF WatchHeld, Refused, Picked
  <2> QED BY <1>1, <2>1, <2>2, <2>3 DEF Settled, HasSession
<1>3. CASE MarkRefused
  <2>1. /\ sched.pc = "mark" /\ sched' = Idle
        /\ UNCHANGED <<chan, hnd, amdh, sess>>
        /\ metaA' = [metaA EXCEPT ![sched.att] = NoMeta]
        /\ sched.att \in Attempts /\ att' = Finish(sched.att, "canceled") /\ "canceled" \in Outcome
    BY <1>3 DEF MarkRefused, SchedHolds, Outcome
  <2>2. sched.att = a /\ sched'.pc = "idle"
    BY <2>1 DEF Idle
  <2>3. att'[a].st # "open"
    BY <2>1, <2>2, FinishCloses
  <2>4. chan[a] = "none" /\ hnd[a].pc = "none" /\ amdh[a].pc = "none" /\ sess[a] = "none"
    BY <2>1, <2>2 DEF CallHeld, OwnedCall, OneChannel, OnePath
  <2> QED BY <1>1, <2>1, <2>2, <2>3, <2>4 DEF HasSession
<1>4. CASE RefusedLead
  <2>1. /\ sched.pc = "refused" /\ sched' = Idle
        /\ UNCHANGED <<att, chan, hnd, amdh, sess>>
        /\ metaA' = [metaA EXCEPT ![sched.att] = NoMeta]
    BY <1>4 DEF RefusedLead
  <2>2. sched.att = a /\ sched'.pc = "idle"
    BY <2>1 DEF Idle
  <2>3. chan[a] = "none" /\ att[a].st # "open"
    BY <2>1, <2>2 DEF WatchHeld, Refused
  <2>4. hnd[a].pc = "none" /\ amdh[a].pc = "none" /\ sess[a] = "none"
    BY <2>3 DEF CallHeld, OnePath
  <2> QED BY <1>1, <2>1, <2>2, <2>3, <2>4 DEF HasSession
<1>5. CASE OriginateReply
  <2>1. CASE sched.att = a
    <3>1. metaA'[a].kind = metaA[a].kind
      BY <1>5, <2>1 DEF OriginateReply, Owned
    <3> QED BY <3>1
  <2>2. CASE sched.att # a
    BY <1>5, <2>2 DEF OriginateReply
  <2> QED BY <2>1, <2>2
<1>6. CASE Ticks \/ Lease
  BY <1>6, TickMoves DEF Lease
<1>7. CASE TickBegin \/ ScanSkip \/ ScanStale \/ ScanProbeFails \/ ScanProbe \/ StaleFinish
  BY <1>7 DEF TickBegin, ScanSkip, ScanStale, ScanProbeFails, ScanProbe, StaleFinish
<1>8. CASE MarkDialing \/ Originate \/ OriginateRefused \/ OriginateLost
  BY <1>8 DEF MarkDialing, Originate, OriginateRefused, OriginateLost
<1> QED BY <1>2, <1>3, <1>4, <1>5, <1>6, <1>7, <1>8 DEF Scheduler, Ticks

LEMMA CountedCreate ==
  ASSUME TypeOK, CreateAttempt, NEW a \in Attempts, Counted(a), CallHeld(a)
  PROVE  /\ Counted(a)'
         /\ Engaged(a)' => Engaged(a) \/ a = sched'.att
<1> USE DEF TypeOK, StoreType, MapsType, TasksType, SchedTask
<1>1. PICK c \in Attempts :
        /\ att' = [att EXCEPT ![c] = [st |-> "open", lead |-> sched.lead, outcome |-> "none"]]
        /\ metaA' = [metaA EXCEPT ![c] = [kind |-> "tracked", ch |-> FALSE]]
        /\ sched' = [sched EXCEPT !.pc = "mark", !.att = c]
  BY DEF CreateAttempt
<1>2. UNCHANGED <<chan, hnd, amdh, sess>> /\ sched.pc = "create" /\ sched'.att = c
  BY <1>1 DEF CreateAttempt, ast
<1>3. CASE a = c
  BY <1>1, <1>2, <1>3 DEF Counted, Owned
<1>4. CASE a # c
  <2>1. att'[a] = att[a] /\ metaA'[a] = metaA[a]
    BY <1>1, <1>4
  <2>2. Engaged(a)' => Engaged(a)
    BY <1>2, <1>4, <2>1 DEF Engaged, HasSession
  <2> QED BY <2>1, <2>2 DEF Counted
<1> QED BY <1>3, <1>4

\* Nothing but a crash counts as one.
LEMMA CrashFrame ==
  ASSUME TypeOK, [Next]_vars
  PROVE  Crash \/ crashes' = crashes
<1>1. ASSUME NEW b \in Attempts, HandlerStep(b)
      PROVE  crashes' = crashes
  BY <1>1 DEF HandlerStep, Answer, RetryHangup, AmdReturn, ChannelDies, BecomeStale, hist,
     Answered, AnsLookup, AnsRecover, AnsMark, AnsConfirm, AnsHop, AnsHopReply,
     AnsHopFinish, AnsHopLead, AnsHopHangup, RejFinish, RejLead, RejHangup,
     AmdResult, AmdStart, AmdFinish, AmdSettle, AmdHangup, AmdHuman, AmdAttach,
     ChannelGone, Destroyed, DestroyedFinish, DestroyedSettle,
     Session, SessionIds, SessionEnds, PersistAttempt, PersistLead, PersistSkipped
<1>2. ASSUME Scheduler
      PROVE  crashes' = crashes
  BY <1>2, TickMoves DEF Scheduler, Ticks, hist, TickBegin, ScanSkip, ScanStale, ScanProbeFails,
     ScanProbe, StaleFinish, StaleLead, Lease, CreateAttempt, MarkDialing, MarkRefused, Originate,
     OriginateRefused, RefusedLead, OriginateReply, OriginateLost
<1>3. ASSUME Restart \/ Operator
      PROVE  crashes' = crashes
  BY <1>3 DEF Restart, hist, Operator, SetStatus, CancelLead, IgnoreLead, RecycleLead, OperatorTurn
<1>4. ASSUME UNCHANGED vars
      PROVE  crashes' = crashes
  BY <1>4 DEF vars
<1> QED BY <1>1, <1>2, <1>3, <1>4 DEF Next, HandlerStep

LEMMA CrashCounts ==
  ASSUME TypeOK, [Next]_vars, crashes' = 0
  PROVE  crashes = 0 /\ ~Crash
<1>1. crashes \in Nat /\ (Crash => crashes' = crashes + 1)
  BY DEF Crash, TypeOK, HistType
<1> QED BY <1>1, CrashFrame

CountedAll == crashes = 0 => \A a \in Attempts : Counted(a)

\* Before the first crash, what is engaged is counted.
LEMMA CountedAlways ==
  ASSUME ~LossyAri, ~StaleMayRace
  PROVE  Spec => []CountedAll
<1>1. Init => CountedAll
  BY DEF Init, CountedAll, Counted, Engaged, HasSession, Idle, NoTask, NoAmd
<1>2. TypeOK /\ CallsHeld /\ WatchesHeld /\ CountedAll /\ [Next]_vars => CountedAll'
  <2> SUFFICES ASSUME TypeOK, CallsHeld, WatchesHeld, CountedAll, [Next]_vars, NEW a \in Attempts,
                      crashes' = 0
               PROVE  Counted(a)'
    BY DEF CountedAll
  <2>1. crashes = 0 /\ ~Crash
    BY CrashCounts
  <2> Counted(a) /\ CallHeld(a) /\ WatchHeld(a)
    BY <2>1 DEF CountedAll, CallsHeld, WatchesHeld
  <2>2. ASSUME NEW b \in Attempts, HandlerStep(b)
        PROVE  Counted(a)'
    <3>1. CASE a = b
      BY <2>2, <3>1, CountedHandlers
    <3>2. CASE a # b
      <4>1. Face(a)' = Face(a) /\ FaceB(a)' = FaceB(a) /\ sched' = sched
        BY <2>2, <3>2, OthersKept, OthersKeptB
      <4> QED BY <4>1 DEF Face, FaceB, Counted, Engaged, HasSession
    <3> QED BY <3>1, <3>2
  <2>3. CASE Scheduler
    BY <2>3, CountedScheduler, CountedCreate
  <2>4. CASE Restart \/ Operator
    BY <2>4, RowsFrame DEF maps, tasks, ast, Counted, Engaged, HasSession
  <2>5. CASE UNCHANGED vars
    BY <2>5 DEF vars, Counted, Engaged, HasSession
  <2> QED BY <2>1, <2>2, <2>3, <2>4, <2>5 DEF Next, HandlerStep
<1> QED BY <1>1, <1>2, TypeCorrect, CallsAlways, WatchesAlways, PTL DEF Spec

\* A step other than a crash engages at most the attempt it creates.
LEMMA EngagedMoves ==
  ASSUME TypeOK, CallsHeld, [Next]_vars, ~Crash
  PROVE  /\ ~CreateAttempt => EngagedSet' \subseteq EngagedSet
         /\ CreateAttempt => EngagedSet' \subseteq EngagedSet \cup {sched'.att}
<1> SUFFICES ASSUME NEW a \in Attempts, Engaged(a)'
             PROVE  Engaged(a) \/ (CreateAttempt /\ a = sched'.att)
  BY DEF EngagedSet
<1> CallHeld(a)
  BY DEF CallsHeld
<1>1. ASSUME NEW b \in Attempts, HandlerStep(b)
      PROVE  Engaged(a)
  <2>1. CASE a = b
    BY <1>1, <2>1, EngagedHandlers
  <2>2. CASE a # b
    <3>1. Face(a)' = Face(a) /\ FaceB(a)' = FaceB(a) /\ sched' = sched
      BY <1>1, <2>2, OthersKept, OthersKeptB
    <3> QED BY <3>1 DEF Face, FaceB, Engaged, HasSession
  <2> QED BY <2>1, <2>2
<1>2. CASE Scheduler /\ ~CreateAttempt
  BY <1>2, EngagedScheduler
<1>3. CASE CreateAttempt
  <2>1. PICK c \in Attempts :
          /\ att' = [att EXCEPT ![c] = [st |-> "open", lead |-> sched.lead, outcome |-> "none"]]
          /\ sched' = [sched EXCEPT !.pc = "mark", !.att = c]
    BY <1>3 DEF CreateAttempt
  <2>2. UNCHANGED <<chan, hnd, amdh, sess>> /\ sched'.att = c
    BY <1>3, <2>1 DEF CreateAttempt, ast, TypeOK, TasksType, SchedTask
  <2>3. a # c => att'[a] = att[a]
    BY <2>1 DEF TypeOK, StoreType
  <2> QED BY <1>3, <2>2, <2>3 DEF Engaged, HasSession
<1>4. CASE Restart \/ Operator
  BY <1>4, RowsFrame DEF maps, tasks, ast, Engaged, HasSession
<1>5. CASE UNCHANGED vars
  BY <1>5 DEF vars, Engaged, HasSession
<1> QED BY <1>1, <1>2, <1>3, <1>4, <1>5 DEF Next, HandlerStep

\* The rows that exist, one more with each attempt.
Tried == {a \in Attempts : att[a].st # "none"}

LEMMA TriedMoves ==
  ASSUME TypeOK, [Next]_vars
  PROVE  \E c : Tried' \subseteq Tried \cup {c}
<1>1. CASE CreateAttempt
  <2>1. PICK c \in Attempts :
          att' = [att EXCEPT ![c] = [st |-> "open", lead |-> sched.lead, outcome |-> "none"]]
    BY <1>1 DEF CreateAttempt
  <2>2. \A a \in Attempts : a # c => att'[a] = att[a]
    BY <2>1 DEF TypeOK, StoreType
  <2> QED BY <2>2 DEF Tried
<1>2. CASE ~CreateAttempt
  <2> SUFFICES ASSUME NEW a \in Attempts
               PROVE  att'[a].st # "none" => att[a].st # "none"
    BY DEF Tried
  <2>1. ASSUME NEW b \in Attempts, HandlerStep(b)
        PROVE  att'[a].st # "none" => att[a].st # "none"
    BY <2>1, RowsKept
  <2>2. CASE Scheduler
    <3>1. att' = att \/ \E o \in Outcome : att' = Finish(sched.att, o) /\ sched.att \in Attempts
      BY <1>2, <2>2, TickMoves DEF Scheduler, Ticks, store, TypeOK, SchedHolds, Outcome,
         TickBegin, ScanSkip, ScanStale, ScanProbeFails,
         ScanProbe, StaleFinish, StaleLead, Lease, MarkDialing, MarkRefused, Originate,
         OriginateRefused, RefusedLead, OriginateReply, OriginateLost
    <3>2. ASSUME NEW o \in Outcome, att' = Finish(sched.att, o), sched.att \in Attempts
          PROVE  att'[a].st # "none" => att[a].st # "none"
      BY <3>2, FinishCloses DEF TypeOK
    <3> QED BY <3>1, <3>2
  <2>3. CASE Crash
    BY <2>3 DEF Crash, store
  <2>4. CASE Restart \/ Operator
    BY <2>4, RowsFrame
  <2>5. CASE UNCHANGED vars
    BY <2>5 DEF vars
  <2> QED BY <2>1, <2>2, <2>3, <2>4, <2>5 DEF Next, HandlerStep
<1> QED BY <1>1, <1>2

LEMMA TriedFinite == Spec => []IsFiniteSet(Tried)
<1>1. Init => IsFiniteSet(Tried)
  <2>1. Init => Tried = {}
    BY DEF Init, Tried
  <2> QED BY <2>1, FS_EmptySet
<1>2. TypeOK /\ IsFiniteSet(Tried) /\ [Next]_vars => IsFiniteSet(Tried)'
  <2> SUFFICES ASSUME TypeOK, IsFiniteSet(Tried), [Next]_vars
               PROVE  IsFiniteSet(Tried')
    OBVIOUS
  <2>1. PICK c : Tried' \subseteq Tried \cup {c}
    BY TriedMoves
  <2>2. IsFiniteSet(Tried \cup {c})
    BY FS_AddElement
  <2> QED BY <2>1, <2>2, FS_Subset
<1> QED BY <1>1, <1>2, TypeCorrect, PTL DEF Spec

\* The campaign's slots before the first crash: what is engaged never exceeds
\* them; past the capacity check there is one to spare, and a tick that saw the
\* campaign quiet is still right about it.
Checked == {"decide", "lease", "create"}
Slots ==
    /\ Cardinality(EngagedSet) <= MaxConcurrent
    /\ sched.pc \in Checked => Cardinality(EngagedSet) < MaxConcurrent
    /\ sched.pc \in Checked \cup {"recheck", "complete"} /\ sched.quiet => EngagedSet = {}
    /\ sched.pc \in {"recheck", "complete"} => sched.quiet
SlotsHeld == crashes = 0 => Slots

\* Sets of engaged and of counted calls are finite.
LEMMA CallsFinite ==
  ASSUME TypeOK, CallsHeld, IsFiniteSet(Tried)
  PROVE  /\ IsFiniteSet(EngagedSet) /\ Cardinality(EngagedSet) \in Nat
         /\ IsFiniteSet(Occupied) /\ Cardinality(Occupied) \in Nat
<1>1. EngagedSet \subseteq Tried
  BY DEF EngagedSet, Tried, CallsHeld, CallHeld, OnePath, OwnedCall, OneChannel, Engaged, HasSession
<1>2. Occupied \subseteq Tried
  BY DEF Occupied, Tracked, Tried, Owned, CallsHeld, CallHeld, OnePath
<1> QED BY <1>1, <1>2, FS_Subset, FS_CardinalityType

\* The pacing of a tick: where the scheduler may be, by where it was.
LEMMA TickOrder ==
  ASSUME TypeOK, Scheduler, sched'.pc \in Checked \cup {"recheck", "complete"}
  PROVE  \/ /\ TickList /\ sched'.pc = "decide" /\ Cardinality(Occupied) < MaxConcurrent
            /\ sched'.quiet = (Occupied = {})
         \/ /\ sched.pc \in Checked \cup {"recheck"} /\ sched'.quiet = sched.quiet
            /\ sched'.pc \in Checked => sched.pc \in Checked
            /\ sched'.pc \in {"recheck", "complete"} => sched.quiet \/ sched.pc = "recheck"
            /\ ~CreateAttempt
<1> USE DEF TypeOK, TasksType, SchedTask, Checked
<1>1. CASE TickList
  BY <1>1 DEF TickList, Idle
<1>2. CASE TickDecide
  BY <1>2 DEF TickDecide, CreateAttempt, Idle
<1>3. CASE Lease
  <2>1. sched.pc = "lease" /\ ~CreateAttempt
    BY <1>3 DEF Lease, CreateAttempt
  <2>2. CASE \E l \in Leads : sched' = [sched EXCEPT !.pc = "create", !.lead = l]
    BY <2>1, <2>2
  <2>3. CASE sched.quiet /\ sched' = [sched EXCEPT !.pc = "recheck"]
    BY <2>1, <2>3
  <2>4. CASE sched' = Idle
    BY <2>4 DEF Idle
  <2> QED BY <1>3, <2>2, <2>3, <2>4 DEF Lease
<1>4. CASE Recheck
  BY <1>4 DEF Recheck, CreateAttempt, Idle
<1>5. CASE TickBegin \/ MarkCompleted \/ MarkRefused \/ RefusedLead \/ OriginateReply \/ OriginateLost
  <2>1. sched' = Idle \/ sched'.pc = "scan"
    BY <1>5 DEF TickBegin, MarkCompleted, MarkRefused, RefusedLead, OriginateReply, OriginateLost, Idle
  <2> QED BY <2>1 DEF Idle
<1>6. CASE ScanSkip \/ ScanStale \/ ScanProbeFails \/ ScanProbe \/ StaleFinish \/ StaleLead
  <2>1. sched'.pc \notin Checked \cup {"recheck", "complete"}
    BY <1>6 DEF ScanSkip, ScanStale, ScanProbeFails, ScanProbe, StaleFinish, StaleLead
  <2> QED BY <2>1
<1>7. CASE CreateAttempt \/ MarkDialing \/ Originate \/ OriginateRefused
  <2>1. sched'.pc \notin Checked \cup {"recheck", "complete"}
    BY <1>7 DEF CreateAttempt, MarkDialing, Originate, OriginateRefused
  <2> QED BY <2>1
<1> QED BY <1>1, <1>2, <1>3, <1>4, <1>5, <1>6, <1>7 DEF Scheduler


LEMMA SlotsStep ==
  ASSUME TypeOK, CallsHeld, CountedAll, IsFiniteSet(Tried), SlotsHeld, [Next]_vars
  PROVE  SlotsHeld'
<1> SUFFICES ASSUME crashes' = 0
             PROVE  Slots'
  BY DEF SlotsHeld
<1>1. crashes = 0 /\ ~Crash
  BY CrashCounts
<1>2. Slots /\ \A a \in Attempts : Counted(a)
  BY <1>1 DEF SlotsHeld, CountedAll
<1>3. /\ IsFiniteSet(EngagedSet) /\ Cardinality(EngagedSet) \in Nat
      /\ IsFiniteSet(Occupied) /\ Cardinality(Occupied) \in Nat /\ MaxConcurrent \in Nat
  BY CallsFinite, MaxConcurrentAssumption
<1>4. EngagedSet \subseteq Occupied
  BY <1>2 DEF EngagedSet, Occupied, Tracked, Counted
<1>5. CASE CreateAttempt
  <2>1. sched.pc = "create" /\ sched'.pc = "mark"
    <3>1. sched.pc = "create" /\ \E a \in Attempts : sched' = [sched EXCEPT !.pc = "mark", !.att = a]
      BY <1>5 DEF CreateAttempt
    <3> QED BY <3>1 DEF TypeOK, TasksType, SchedTask
  <2>2. EngagedSet' \subseteq EngagedSet \cup {sched'.att}
    BY <1>1, <1>5, EngagedMoves
  <2>3. /\ IsFiniteSet(EngagedSet \cup {sched'.att})
        /\ Cardinality(EngagedSet \cup {sched'.att}) <= Cardinality(EngagedSet) + 1
    <3>1. /\ IsFiniteSet(EngagedSet \cup {sched'.att})
          /\ \/ Cardinality(EngagedSet \cup {sched'.att}) = Cardinality(EngagedSet)
             \/ Cardinality(EngagedSet \cup {sched'.att}) = Cardinality(EngagedSet) + 1
      BY <1>3, FS_AddElement
    <3> QED BY <1>3, <3>1
  <2>4. IsFiniteSet(EngagedSet') /\ Cardinality(EngagedSet') <= Cardinality(EngagedSet \cup {sched'.att})
    BY <2>2, <2>3, FS_Subset
  <2>5. Cardinality(EngagedSet') \in Nat /\ Cardinality(EngagedSet \cup {sched'.att}) \in Nat
    BY <2>3, <2>4, FS_CardinalityType
  <2>6. Cardinality(EngagedSet) < MaxConcurrent
    BY <1>2, <2>1 DEF Slots, Checked
  <2>7. Cardinality(EngagedSet') <= MaxConcurrent
    BY <1>3, <2>3, <2>4, <2>5, <2>6
  <2> QED BY <2>1, <2>7 DEF Slots, Checked
<1>6. CASE ~CreateAttempt
  <2>1. EngagedSet' \subseteq EngagedSet
    BY <1>1, <1>6, EngagedMoves
  <2>2. IsFiniteSet(EngagedSet') /\ Cardinality(EngagedSet') <= Cardinality(EngagedSet)
    BY <1>3, <2>1, FS_Subset
  <2>3. Cardinality(EngagedSet') \in Nat
    BY <2>2, FS_CardinalityType
  <2>4. Cardinality(EngagedSet') <= MaxConcurrent
    BY <1>2, <1>3, <2>2, <2>3 DEF Slots
  <2>5. CASE sched' = sched
    BY <1>2, <1>3, <2>1, <2>2, <2>3, <2>4, <2>5 DEF Slots
  <2>6. CASE Scheduler
    <3>1. CASE sched'.pc \notin Checked \cup {"recheck", "complete"}
      BY <2>4, <3>1 DEF Slots
    <3>2. CASE sched'.pc = "decide" /\ Cardinality(Occupied) < MaxConcurrent /\ sched'.quiet = (Occupied = {})
      <4>1. Cardinality(EngagedSet) <= Cardinality(Occupied)
        BY <1>3, <1>4, FS_Subset
      <4>2. Cardinality(EngagedSet') < MaxConcurrent
        BY <1>3, <2>2, <2>3, <3>2, <4>1
      <4>3. sched'.quiet => EngagedSet' = {}
        BY <1>4, <2>1, <3>2
      <4> QED BY <2>4, <3>2, <4>2, <4>3 DEF Slots
    <3>3. CASE /\ sched.pc \in Checked \cup {"recheck"} /\ sched'.quiet = sched.quiet
               /\ sched'.pc \in Checked => sched.pc \in Checked
               /\ sched'.pc \in {"recheck", "complete"} => sched.quiet \/ sched.pc = "recheck"
      <4>1. sched'.pc \in Checked => Cardinality(EngagedSet') < MaxConcurrent
        BY <1>2, <1>3, <2>2, <2>3, <3>3 DEF Slots
      <4>2. sched'.quiet => EngagedSet' = {}
        BY <1>2, <2>1, <3>3 DEF Slots
      <4>3. sched'.pc \in {"recheck", "complete"} => sched'.quiet
        BY <1>2, <3>3 DEF Slots
      <4> QED BY <2>4, <4>1, <4>2, <4>3 DEF Slots
    <3> QED BY <2>6, <3>1, <3>2, <3>3, TickOrder
  <2>7. sched' = sched \/ Scheduler
    <3>1. ASSUME NEW b \in Attempts, HandlerStep(b)
          PROVE  sched' = sched
      BY <3>1, HandlersKeepQueue
    <3>2. CASE Restart \/ Operator
      BY <3>2 DEF Restart, tasks, Operator, SetStatus, CancelLead, IgnoreLead, RecycleLead, OperatorTurn
    <3>3. CASE UNCHANGED vars
      BY <3>3 DEF vars
    <3> QED BY <1>1, <3>1, <3>2, <3>3 DEF Next, HandlerStep
  <2> QED BY <2>5, <2>6, <2>7
<1> QED BY <1>5, <1>6

LEMMA SlotsAlways ==
  ASSUME ~LossyAri, ~StaleMayRace
  PROVE  Spec => []SlotsHeld
<1>1. Init => SlotsHeld
  <2> SUFFICES ASSUME Init
               PROVE  Slots
    BY DEF SlotsHeld
  <2>1. EngagedSet = {}
    BY DEF Init, EngagedSet, Engaged, HasSession, Idle, NoTask, NoAmd
  <2>2. Cardinality(EngagedSet) = 0
    BY <2>1, FS_EmptySet
  <2>3. sched.pc = "idle"
    BY DEF Init, Idle
  <2> QED BY <2>1, <2>2, <2>3, MaxConcurrentAssumption DEF Slots, Checked
<1>2. TypeOK /\ CallsHeld /\ CountedAll /\ IsFiniteSet(Tried) /\ SlotsHeld /\ [Next]_vars => SlotsHeld'
  BY SlotsStep
<1> QED BY <1>1, <1>2, TypeCorrect, CallsAlways, CountedAlways, TriedFinite, PTL DEF Spec

\* max_concurrent: until the engine crashes, and unless ARI loses an answer or
\* the stale timeout cuts into a call, a campaign never has more attempts in
\* flight than its slots, for any number of leads, attempts and slots, whatever
\* the operator recycles and whether or not the call history is saved.
THEOREM CapacityHolds ==
  ASSUME ~LossyAri, ~StaleMayRace
  PROVE  Spec => [](crashes = 0 => CapacityRespected)
<1>1. TypeOK /\ CallsHeld /\ IsFiniteSet(Tried) /\ SlotsHeld => (crashes = 0 => CapacityRespected)
  <2> SUFFICES ASSUME TypeOK, CallsHeld, IsFiniteSet(Tried), SlotsHeld, crashes = 0
               PROVE  CapacityRespected
    OBVIOUS
  <2>1. InFlight \subseteq EngagedSet
    BY DEF InFlight, EngagedSet, Engaged
  <2>2. IsFiniteSet(EngagedSet) /\ Cardinality(EngagedSet) \in Nat
    BY CallsFinite
  <2>3. IsFiniteSet(InFlight) /\ Cardinality(InFlight) <= Cardinality(EngagedSet)
    BY <2>1, <2>2, FS_Subset
  <2>4. Cardinality(InFlight) \in Nat
    BY <2>3, FS_CardinalityType
  <2>5. Cardinality(EngagedSet) <= MaxConcurrent
    BY DEF SlotsHeld, Slots
  <2> QED BY <2>2, <2>3, <2>4, <2>5, MaxConcurrentAssumption DEF CapacityRespected
<1> QED BY <1>1, TypeCorrect, CallsAlways, TriedFinite, SlotsAlways, PTL

LEMMA NoCrashes ==
  ASSUME MaxCrashes = 0
  PROVE  Spec => [](crashes = 0)
<1>1. Init => crashes = 0
  BY DEF Init
<1>2. TypeOK /\ crashes = 0 /\ [Next]_vars => (crashes = 0)'
  <2> SUFFICES ASSUME TypeOK, crashes = 0, [Next]_vars
               PROVE  crashes' = 0
    OBVIOUS
  <2>1. Crash => crashes < MaxCrashes
    BY DEF Crash
  <2>2. ~Crash
    BY <2>1
  <2> QED BY <2>2, CrashFrame
<1> QED BY <1>1, <1>2, TypeCorrect, PTL DEF Spec

\* The engine declares a campaign completed only when no attempt is open: under
\* the same conditions, although the check and the UPDATE are steps of their own
\* and the operator acts between them.
THEOREM CompletionHolds ==
  ASSUME ~LossyAri, ~StaleMayRace, MaxCrashes = 0
  PROVE  Spec => CompletedIsQuiet
<1>1. TypeOK /\ SlotsHeld /\ crashes = 0 /\ [Next]_vars
      => [campaign' = "completed" /\ campaign # "completed"
          => \A a \in Attempts : att[a].st # "open"]_vars
  <2> SUFFICES ASSUME TypeOK, SlotsHeld, crashes = 0, [Next]_vars,
                      campaign' = "completed", campaign # "completed", NEW a \in Attempts
               PROVE  att[a].st # "open"
    OBVIOUS
  <2>1. MarkCompleted
    <3>1. ASSUME NEW b \in Attempts, HandlerStep(b)
          PROVE  campaign' = campaign
      BY <3>1 DEF HandlerStep, Answer, RetryHangup, AmdReturn, ChannelDies, BecomeStale, store,
         Answered, AnsLookup, AnsRecover, AnsMark, AnsConfirm, AnsHop, AnsHopReply,
         AnsHopFinish, AnsHopLead, AnsHopHangup, RejFinish, RejLead, RejHangup,
         AmdResult, AmdStart, AmdFinish, AmdSettle, AmdHangup, AmdHuman, AmdAttach,
         ChannelGone, Destroyed, DestroyedFinish, DestroyedSettle,
         Session, SessionIds, SessionEnds, PersistAttempt, PersistLead, PersistSkipped
    <3>2. ASSUME Scheduler
          PROVE  campaign' = campaign \/ MarkCompleted
      BY <3>2 DEF Scheduler, store, TickBegin, ScanSkip, ScanStale, ScanProbeFails,
         ScanProbe, StaleFinish, StaleLead, TickList, TickDecide, Recheck, Lease, CreateAttempt,
         MarkDialing, MarkRefused, Originate, OriginateRefused, RefusedLead, OriginateReply, OriginateLost
    <3>3. ASSUME Crash \/ Restart
          PROVE  campaign' = campaign
      BY <3>3 DEF Crash, Restart, store
    <3>4. ASSUME Operator
          PROVE  campaign' # "completed" \/ campaign' = campaign
      BY <3>4 DEF Operator, SetStatus, CancelLead, IgnoreLead, RecycleLead
    <3>5. ASSUME UNCHANGED vars
          PROVE  campaign' = campaign
      BY <3>5 DEF vars
    <3> QED BY <3>1, <3>2, <3>3, <3>4, <3>5 DEF Next, HandlerStep
  <2>2. sched.pc = "complete"
    BY <2>1 DEF MarkCompleted
  <2>3. EngagedSet = {}
    BY <2>2 DEF SlotsHeld, Slots
  <2> QED BY <2>3 DEF EngagedSet, Engaged
<1> QED BY <1>1, TypeCorrect, SlotsAlways, NoCrashes, PTL DEF Spec, CompletedIsQuiet
=============================================================================
