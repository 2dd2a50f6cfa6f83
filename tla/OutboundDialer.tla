--------------------------- MODULE OutboundDialer ---------------------------
(***************************************************************************)
(* The outbound campaign dialer of src/src/engine.py over the SQLite store *)
(* of src/src/core/outbound_store.py, for one campaign.                    *)
(*                                                                         *)
(* Actors: the scheduler loop (one task), one task per ARI event (the      *)
(* listener creates a task for every event, so the handlers of one channel *)
(* interleave), the forced-hangup retry owner, the Admin UI operator (a    *)
(* second process on the same database file), Asterisk, and a crash.       *)
(*                                                                         *)
(* Grain: a step runs from one await to the next; an awaited store call    *)
(* and the straight-line code behind it are one step, because the store    *)
(* commits in a single SQL transaction and nothing else reads the maps in  *)
(* between.  One attempt owns one channel and both have one name.          *)
(***************************************************************************)
EXTENDS Naturals, FiniteSets

CONSTANTS
    Leads,          \* rows of outbound_leads of the campaign
    Attempts,       \* names an outbound_attempts row, and its channel, can get
    None,           \* no lead, no attempt
    MaxConcurrent,  \* outbound_campaigns.max_concurrent after the clamp to 1..5
    MaxOps,         \* bound: operator requests
    MaxCrashes,     \* bound: engine crashes
    HistoryMayFail, \* CallHistoryStore disabled, or save() returning False
    StaleMayRace,   \* AAVA_OUTBOUND_ATTEMPT_STALE_SECONDS shorter than ring + AMD
    LossyAri        \* an ARI connection may break and lose an event or an answer

ASSUME MaxConcurrentAssumption == MaxConcurrent \in 1..5
ASSUME NoneAssumption == None \notin Leads /\ None \notin Attempts
ASSUME BoundsAssumption == MaxOps \in Nat /\ MaxCrashes \in Nat
ASSUME SwitchAssumption == {HistoryMayFail, StaleMayRace, LossyAri} \subseteq BOOLEAN

VARIABLES
    \* the database file
    campaign,   \* outbound_campaigns.status
    lead,       \* outbound_leads.state
    att,        \* outbound_attempts: [st, lead, outcome]
    \* the engine process
    up,         \* the process runs and its ARI websocket is connected
    metaA,      \* _outbound_attempt_meta_by_attempt_id: [kind, ch]
    metaC,      \* _outbound_attempt_meta_by_channel_id: kind
    awaiting,   \* _outbound_awaiting_amd_channel_ids
    stale,      \* tracked attempts older than the stale timeout
    sched,      \* the scheduler task
    hnd,        \* tasks of _handle_outbound_answered
    amdh,       \* tasks of _handle_outbound_amd_result
    dst,        \* tasks of _handle_channel_destroyed
    retry,      \* channels with a task in _outbound_forced_hangup_tasks
    sess,       \* outbound CallSessions
    \* Asterisk
    chan,       \* the channel of an attempt
    ctxOk,      \* channels whose AAVA_CUSTOM_VARS_JSON was read back as expected
    \* history kept for the properties and the bounds
    dials,      \* originate requests per lead
    requeues,   \* recycle_lead calls per lead
    ops, crashes,
    late        \* attempts whose hop got no answer after the channel's end was handled

store == <<campaign, lead, att>>
maps  == <<metaA, metaC, awaiting, stale>>
tasks == <<sched, hnd, amdh, dst, retry, sess>>
ast   == <<chan, ctxOk>>
hist  == <<dials, requeues, ops, crashes, late>>
vars  == <<campaign, lead, att, up, metaA, metaC, awaiting, stale, sched, hnd,
           amdh, dst, retry, sess, chan, ctxOk, dials, requeues, ops, crashes, late>>

-----------------------------------------------------------------------------
(* Values *)

CampaignStatus == {"draft", "running", "paused", "stopped", "completed"}
LeadState == {"pending", "leased", "dialing", "amd_pending", "in_progress",
              "completed", "failed", "canceled"}
ActiveStates == {"pending", "leased", "dialing", "amd_pending", "in_progress"}

\* Outcome classes: "rejected" is the error written by the fail-closed gate,
\* "error" every other error, "hangup" any outcome read off a hangup cause,
\* "machine" voicemail_dropped or machine_detected, "consent" consent_denied or
\* consent_timeout, "session" what _persist_call_history writes.
Outcome == {"none", "rejected", "error", "canceled", "no_answer", "hangup",
            "machine", "consent", "stale_restart", "session"}

\* Meta: "rejected" carries fail_closed_rejected, "unowned" does so without a
\* campaign or a lead, "junk" is a dict that holds nothing but a channel id.
RejectedKind == {"rejected", "unowned"}
Kind == {"none", "tracked", "junk"} \cup RejectedKind
Owned == {"tracked", "rejected"}

NoMeta  == [kind |-> "none", ch |-> FALSE]
Idle    == [pc |-> "idle", lead |-> None, att |-> None, ch |-> FALSE,
            snap |-> {}, quiet |-> FALSE]
NoTask  == [pc |-> "none", known |-> FALSE]
NoAmd   == [pc |-> "none", known |-> FALSE, res |-> "none"]

Alive(a) == chan[a] \in {"ringing", "stasis", "amd", "back"}
HasSession(a) == sess[a] \in {"attached", "active", "ending0", "ending", "persisted"}
Working(a) ==
    \/ hnd[a].pc # "none" \/ amdh[a].pc # "none"
    \/ dst[a] \in {"event", "finish", "settle"}

\* finish_attempt: an UPDATE by id that overwrites whatever the row holds and
\* does nothing when the row was deleted.
Finish(a, outcome) ==
    IF att[a].st \in {"open", "ended"}
    THEN [att EXCEPT ![a] = [@ EXCEPT !.st = "ended", !.outcome = outcome]]
    ELSE att

\* set_lead_state: an UPDATE by id with no condition on the present state; the
\* handlers skip it when their meta carries no lead_id.
SetLead(l, known, state) ==
    IF known THEN [lead EXCEPT ![l] = state] ELSE lead

\* Pop one attempt from both maps.
PopBoth(a) ==
    /\ metaA' = [metaA EXCEPT ![a] = NoMeta]
    /\ metaC' = [metaC EXCEPT ![a] = "none"]

\* _release_outbound_rejection_ownership: drop only what the rejection created.
Release(a) ==
    /\ metaC' = [metaC EXCEPT ![a] = IF @ \in RejectedKind THEN "none" ELSE @]
    /\ metaA' = [metaA EXCEPT ![a] = IF @.kind \in RejectedKind THEN NoMeta ELSE @]
    /\ retry' = retry \ {a}

\* The channel dies, and ChannelDestroyed starts a task of its own; the event
\* of a channel that never entered Stasis may not come.
Kill(a) ==
    /\ chan' = [chan EXCEPT ![a] = IF Alive(a) THEN "dead" ELSE @]
    /\ \/ dst' = [dst EXCEPT ![a] = IF Alive(a) THEN "event" ELSE @]
       \/ /\ chan[a] = "ringing" \/ LossyAri
          /\ dst' = dst

\* A hangup request whose answer nobody reads: it works or it does not.
HangUp(a) == Kill(a) \/ UNCHANGED <<chan, dst>>

Init ==
    /\ campaign \in {"draft", "running"}
    /\ lead = [l \in Leads |-> "pending"]
    /\ att = [a \in Attempts |-> [st |-> "none", lead |-> None, outcome |-> "none"]]
    /\ up = TRUE
    /\ metaA = [a \in Attempts |-> NoMeta]
    /\ metaC = [a \in Attempts |-> "none"]
    /\ awaiting = {} /\ stale = {} /\ retry = {}
    /\ sched = Idle
    /\ hnd = [a \in Attempts |-> NoTask]
    /\ amdh = [a \in Attempts |-> NoAmd]
    /\ dst = [a \in Attempts |-> "none"]
    /\ sess = [a \in Attempts |-> "none"]
    /\ chan = [a \in Attempts |-> "none"]
    /\ ctxOk = {}
    /\ dials = [l \in Leads |-> 0]
    /\ requeues = [l \in Leads |-> 0]
    /\ late = {} /\ ops = 0 /\ crashes = 0

-----------------------------------------------------------------------------
(* _outbound_scheduler_loop *)

\* Mutant of Occupied: only the calls that reached the AI count.
OccupiedBySessions == {a \in Attempts : sess[a] \in {"active", "ending", "persisted"}}

\* _outbound_campaign_capacity: tracked attempts plus the active sessions that
\* are not among them.
Tracked == {a \in Attempts : metaA[a].kind \in Owned}
Occupied == Tracked \cup {a \in Attempts : sess[a] \in {"active", "ending", "persisted"}}

\* No lead is in a state the completion check counts as remaining work.
NoActiveLead == \A l \in Leads : lead[l] \notin ActiveStates

\* A tick begins: _outbound_cleanup_stale_attempts copies the list of metas.
\* The answer and the rejection handlers replace a meta instead of changing it,
\* so a copied one keeps its missing marker and its missing channel id.
TickBegin ==
    /\ up /\ sched.pc = "idle"
    /\ sched' = [Idle EXCEPT !.pc = "scan",
                             !.snap = {[att |-> a, ch |-> metaA[a].ch] :
                                       a \in {b \in Attempts : metaA[b].kind = "tracked"}}]
    /\ stale' = {a \in stale : metaA[a].kind = "tracked"}
    /\ UNCHANGED <<store, up, metaA, metaC, awaiting, hnd, amdh, dst, retry, sess, ast, hist>>

\* Mutant of Overlooked: a meta without a channel id is passed over too.
OverlookedUnanswered(m) ==
    \/ m.att \notin stale \/ ~m.ch
    \/ m.att \in awaiting \/ HasSession(m.att)

\* The watchdog passes over a copied meta that is too young, or whose known
\* channel is in the AMD hop or has a session.
Overlooked(m) ==
    \/ m.att \notin stale
    \/ m.ch /\ (m.att \in awaiting \/ HasSession(m.att))

ScanSkip ==
    /\ up /\ sched.pc = "scan"
    /\ \E m \in sched.snap :
         /\ Overlooked(m)
         /\ sched' = [sched EXCEPT !.snap = @ \ {m}]
    /\ UNCHANGED <<store, up, maps, hnd, amdh, dst, retry, sess, ast, hist>>

\* GET channels/<id> is sent only for a meta that knows its channel.
ScanStale ==
    /\ up /\ sched.pc = "scan"
    /\ \E m \in sched.snap :
         /\ ~Overlooked(m)
         /\ sched' = [sched EXCEPT !.pc = IF m.ch THEN "probe" ELSE "staleFinish",
                                   !.att = m.att, !.ch = m.ch, !.snap = @ \ {m}]
    /\ UNCHANGED <<store, up, maps, hnd, amdh, dst, retry, sess, ast, hist>>

\* The probe raised: the attempt is left for a later tick.
ScanProbeFails ==
    /\ up /\ sched.pc = "probe"
    /\ sched' = [sched EXCEPT !.pc = "scan", !.att = None, !.ch = FALSE]
    /\ UNCHANGED <<store, up, maps, hnd, amdh, dst, retry, sess, ast, hist>>

\* The probe answered: a channel that exists gets a hangup, result ignored.
ScanProbe ==
    /\ up /\ sched.pc = "probe"
    /\ sched' = [sched EXCEPT !.pc = "staleFinish"]
    /\ HangUp(sched.att)
    /\ UNCHANGED <<store, up, maps, hnd, amdh, retry, sess, ctxOk, hist>>

StaleFinish ==
    /\ up /\ sched.pc = "staleFinish"
    /\ att' = Finish(sched.att, "no_answer")
    /\ sched' = [sched EXCEPT !.pc = "staleLead"]
    /\ UNCHANGED <<campaign, lead, up, maps, hnd, amdh, dst, retry, sess, ast, hist>>

StaleLead ==
    /\ up /\ sched.pc = "staleLead"
    /\ lead' = SetLead(att[sched.att].lead, TRUE, "failed")
    /\ metaA' = [metaA EXCEPT ![sched.att] = NoMeta]
    /\ metaC' = [metaC EXCEPT ![sched.att] = IF sched.ch THEN "none" ELSE @]
    /\ sched' = [sched EXCEPT !.pc = "scan", !.att = None, !.ch = FALSE]
    /\ UNCHANGED <<campaign, att, up, awaiting, stale, hnd, amdh, dst, retry, sess, ast, hist>>

\* list_running_campaigns, once the scan is over, and the capacity of that moment.
TickList ==
    /\ up /\ sched.pc = "scan" /\ sched.snap = {}
    /\ sched' = IF campaign = "running" /\ Cardinality(Occupied) < MaxConcurrent
                THEN [sched EXCEPT !.pc = "decide", !.quiet = Occupied = {}] ELSE Idle
    /\ UNCHANGED <<store, up, maps, hnd, amdh, dst, retry, sess, ast, hist>>

\* The completion check, the calling window and the pacing.
TickDecide ==
    /\ up /\ sched.pc = "decide"
    /\ \/ /\ sched.quiet /\ NoActiveLead
          /\ sched' = [sched EXCEPT !.pc = "complete"]
       \/ /\ ~(sched.quiet /\ NoActiveLead)
          /\ \E a \in Attempts : att[a].st = "none"      \* bound: the attempts
          /\ sched' = [sched EXCEPT !.pc = "lease"]
       \/ /\ ~(sched.quiet /\ NoActiveLead)      \* outside the window, or too soon
          /\ sched' = Idle
    /\ UNCHANGED <<store, up, maps, hnd, amdh, dst, retry, sess, ast, hist>>

\* set_campaign_status(completed): unconditional, decided on earlier reads.
MarkCompleted ==
    /\ up /\ sched.pc = "complete"
    /\ campaign' = "completed"
    /\ sched' = Idle
    /\ UNCHANGED <<lead, att, up, maps, hnd, amdh, dst, retry, sess, ast, hist>>

\* Mutant of Lease: an empty lease is not noticed.
LeaseUnchecked ==
    /\ up /\ sched.pc = "lease"
    /\ sched' = [sched EXCEPT !.pc = "create"]
    /\ UNCHANGED <<store, up, maps, hnd, amdh, dst, retry, sess, ast, hist>>

\* lease_pending_leads with limit 1: a pending lead, or a lease that ran out.
Lease ==
    /\ up /\ sched.pc = "lease"
    /\ \/ \E l \in Leads :
            /\ lead[l] \in {"pending", "leased"}
            /\ lead' = [lead EXCEPT ![l] = "leased"]
            /\ sched' = [sched EXCEPT !.pc = "create", !.lead = l]
       \/ /\ \A l \in Leads : lead[l] # "pending"
          /\ lead' = lead
          /\ sched' = IF sched.quiet THEN [sched EXCEPT !.pc = "recheck"] ELSE Idle
    /\ UNCHANGED <<campaign, att, up, maps, hnd, amdh, dst, retry, sess, ast, hist>>

\* Nothing was leased: the completion check again, with the old capacity.
Recheck ==
    /\ up /\ sched.pc = "recheck"
    /\ sched' = IF NoActiveLead THEN [sched EXCEPT !.pc = "complete"] ELSE Idle
    /\ UNCHANGED <<store, up, maps, hnd, amdh, dst, retry, sess, ast, hist>>

\* create_attempt, then the in-memory meta.
CreateAttempt ==
    /\ up /\ sched.pc = "create"
    /\ \E a \in Attempts :
         /\ att[a].st = "none"
         /\ att' = [att EXCEPT ![a] = [st |-> "open", lead |-> sched.lead, outcome |-> "none"]]
         /\ metaA' = [metaA EXCEPT ![a] = [kind |-> "tracked", ch |-> FALSE]]
         /\ sched' = [sched EXCEPT !.pc = "mark", !.att = a]
    /\ UNCHANGED <<campaign, lead, up, metaC, awaiting, stale, hnd, amdh, dst, retry, sess, ast, hist>>

\* mark_lead_dialing: only a lead that is still leased.
MarkDialing ==
    /\ up /\ sched.pc = "mark"
    /\ lead[sched.lead] = "leased"
    /\ lead' = [lead EXCEPT ![sched.lead] = "dialing"]
    /\ sched' = [sched EXCEPT !.pc = "originate"]
    /\ UNCHANGED <<campaign, att, up, maps, hnd, amdh, dst, retry, sess, ast, hist>>

MarkRefused ==
    /\ up /\ sched.pc = "mark"
    /\ lead[sched.lead] # "leased"
    /\ att' = Finish(sched.att, "canceled")
    /\ metaA' = [metaA EXCEPT ![sched.att] = NoMeta]
    /\ sched' = Idle
    /\ UNCHANGED <<campaign, lead, up, metaC, awaiting, stale, hnd, amdh, dst, retry, sess, ast, hist>>

\* _outbound_originate_attempt up to the ARI request, which Asterisk accepts.
Originate ==
    /\ up /\ sched.pc = "originate"
    /\ dials' = [dials EXCEPT ![sched.lead] = @ + 1]
    /\ chan' = [chan EXCEPT ![sched.att] = "ringing"]
    /\ sched' = [sched EXCEPT !.pc = "reply"]
    /\ UNCHANGED <<store, up, maps, hnd, amdh, dst, retry, sess, ctxOk, requeues, ops, crashes, late>>

\* Invalid custom_vars, an ARI status of 400 or more, or no channel id.  The
\* ARI client turns a broken connection into status 500, and then the channel
\* of a refused request may exist and ring.
OriginateRefused ==
    /\ up
    /\ \/ sched.pc = "originate"
       \/ sched.pc = "reply" /\ LossyAri
    /\ att' = Finish(sched.att, "error")
    /\ sched' = [sched EXCEPT !.pc = "refused"]
    /\ UNCHANGED <<campaign, lead, up, maps, hnd, amdh, dst, retry, sess, ast, hist>>

\* Mutant of RefusedLead: the lead goes back to the queue for another try.
RefusedLeadRequeued ==
    /\ up /\ sched.pc = "refused"
    /\ lead' = SetLead(sched.lead, TRUE, "pending")
    /\ metaA' = [metaA EXCEPT ![sched.att] = NoMeta]
    /\ sched' = Idle
    /\ UNCHANGED <<campaign, att, up, metaC, awaiting, stale, hnd, amdh, dst, retry, sess, ast, hist>>

RefusedLead ==
    /\ up /\ sched.pc = "refused"
    /\ lead' = SetLead(sched.lead, TRUE, "failed")
    /\ metaA' = [metaA EXCEPT ![sched.att] = NoMeta]
    /\ sched' = Idle
    /\ UNCHANGED <<campaign, att, up, metaC, awaiting, stale, hnd, amdh, dst, retry, sess, ast, hist>>

\* The channel id arrives; a meta some handler has dropped meanwhile becomes junk.
OriginateReply ==
    /\ up /\ sched.pc = "reply"
    /\ LET k == IF metaA[sched.att].kind = "none" THEN "junk" ELSE metaA[sched.att].kind
       IN /\ metaA' = [metaA EXCEPT ![sched.att] = [kind |-> k, ch |-> TRUE]]
          /\ metaC' = [metaC EXCEPT ![sched.att] = k]
    /\ sched' = Idle
    /\ UNCHANGED <<store, up, awaiting, stale, hnd, amdh, dst, retry, sess, ast, hist>>

\* The request raised: the loop logs it and goes on, the meta stays as it is.
OriginateLost ==
    /\ up
    /\ \/ sched.pc = "originate"
       \/ sched.pc = "reply" /\ LossyAri
    /\ sched' = Idle
    /\ UNCHANGED <<store, up, maps, hnd, amdh, dst, retry, sess, ast, hist>>

-----------------------------------------------------------------------------
(* _handle_outbound_answered *)

\* The callee answers: StasisStart(outbound) starts the handler's task.  While
\* the engine is down the application is not registered and Asterisk hangs up.
Answer(a) ==
    /\ chan[a] = "ringing"
    /\ IF up
       THEN /\ chan' = [chan EXCEPT ![a] = "stasis"]
            /\ hnd' = [hnd EXCEPT ![a] = [pc |-> "lookup", known |-> FALSE]]
       ELSE /\ chan' = [chan EXCEPT ![a] = "dead"]
            /\ hnd' = hnd
    /\ UNCHANGED <<store, up, maps, sched, amdh, dst, retry, sess, ctxOk, hist>>

\* Take the meta into both maps, with the channel id.
TakeMeta(a, k) ==
    /\ metaA' = [metaA EXCEPT ![a] = [kind |-> k, ch |-> TRUE]]
    /\ metaC' = [metaC EXCEPT ![a] = k]

\* The first steps of the task need no await: it finds its meta in memory ...
AnsLookup(a) ==
    /\ up /\ hnd[a].pc = "lookup"
    /\ IF metaA[a].kind = "none"
       THEN /\ hnd' = [hnd EXCEPT ![a].pc = "recover"]
            /\ UNCHANGED <<metaA, metaC>>
       ELSE /\ TakeMeta(a, metaA[a].kind)
            /\ hnd' = [hnd EXCEPT ![a] = [pc |-> "mark", known |-> metaA[a].kind \in Owned]]
    /\ UNCHANGED <<store, up, awaiting, stale, sched, amdh, dst, retry, sess, ast, hist>>

\* ... or waits for get_active_attempt_runtime_context, which knows unfinished
\* attempts; the stored custom_vars may be corrupt, and that rejects the call.
AnsRecover(a) ==
    /\ up /\ hnd[a].pc = "recover"
    /\ \/ /\ att[a].st = "open"
          /\ TakeMeta(a, "tracked")
          /\ hnd' = [hnd EXCEPT ![a] = [pc |-> "mark", known |-> TRUE]]
       \/ /\ hnd' = [hnd EXCEPT ![a] = [pc |-> "rejFinish", known |-> att[a].st = "open"]]
          /\ UNCHANGED <<metaA, metaC>>
    /\ UNCHANGED <<store, up, awaiting, stale, sched, amdh, dst, retry, sess, ast, hist>>

\* set_attempt_channel, then set_lead_state(amd_pending).
AnsMark(a) ==
    /\ up /\ hnd[a].pc = "mark"
    /\ lead' = SetLead(att[a].lead, hnd[a].known, "amd_pending")
    /\ hnd' = [hnd EXCEPT ![a].pc = "confirm"]
    /\ UNCHANGED <<campaign, att, up, maps, sched, amdh, dst, retry, sess, ast, hist>>

\* Mutant of AnsConfirm: a variable that cannot be confirmed is only logged.
AnsConfirmOpen(a) ==
    /\ up /\ hnd[a].pc = "confirm"
    /\ hnd' = [hnd EXCEPT ![a].pc = "hop"]
    /\ ctxOk' = ctxOk \/ ctxOk' = ctxOk \cup {a}
    /\ UNCHANGED <<store, up, maps, sched, amdh, dst, retry, sess, chan, hist>>

\* Empty custom_vars, or AAVA_CUSTOM_VARS_JSON written and read back.
AnsConfirm(a) ==
    /\ up /\ hnd[a].pc = "confirm"
    /\ \/ /\ ctxOk' = ctxOk \cup {a}
          /\ hnd' = [hnd EXCEPT ![a].pc = "hop"]
       \/ /\ hnd' = [hnd EXCEPT ![a].pc = "rejFinish"]
          /\ ctxOk' = ctxOk
    /\ UNCHANGED <<store, up, maps, sched, amdh, dst, retry, sess, chan, hist>>

\* The correlation variables are set; the guard is raised before the request.
AnsHop(a) ==
    /\ up /\ hnd[a].pc = "hop"
    /\ awaiting' = awaiting \cup {a}
    /\ hnd' = [hnd EXCEPT ![a].pc = "hopReply"]
    /\ UNCHANGED <<store, up, metaA, metaC, stale, sched, amdh, dst, retry, sess, ast, hist>>

\* continue_in_dialplan: accepted; indeterminate, the guard stays whether or
\* not Asterisk took the request; or refused.
AnsHopReply(a) ==
    /\ up /\ hnd[a].pc = "hopReply"
    /\ \/ /\ chan[a] = "stasis"
          /\ chan' = [chan EXCEPT ![a] = "amd"]
          /\ hnd' = [hnd EXCEPT ![a] = NoTask]
          /\ UNCHANGED <<awaiting, late>>
       \/ /\ LossyAri
          /\ hnd' = [hnd EXCEPT ![a] = NoTask]
          /\ late' = IF dst[a] \in {"none", "event"} THEN late ELSE late \cup {a}
          /\ UNCHANGED <<chan, awaiting>>
       \/ /\ hnd' = [hnd EXCEPT ![a].pc = "hopFinish"]
          /\ awaiting' = awaiting \ {a}
          /\ UNCHANGED <<chan, late>>
    /\ UNCHANGED <<store, up, metaA, metaC, stale, sched, amdh, dst, retry, sess, ctxOk, dials, requeues, ops, crashes>>

\* A refused hop closes the attempt and hangs up; the maps keep the meta.
AnsHopFinish(a) ==
    /\ up /\ hnd[a].pc = "hopFinish"
    /\ att' = Finish(a, "error")
    /\ hnd' = [hnd EXCEPT ![a].pc = "hopLead"]
    /\ UNCHANGED <<campaign, lead, up, maps, sched, amdh, dst, retry, sess, ast, hist>>

AnsHopLead(a) ==
    /\ up /\ hnd[a].pc = "hopLead"
    /\ lead' = SetLead(att[a].lead, hnd[a].known, "failed")
    /\ hnd' = [hnd EXCEPT ![a].pc = "hopHangup"]
    /\ UNCHANGED <<campaign, att, up, maps, sched, amdh, dst, retry, sess, ast, hist>>

AnsHopHangup(a) ==
    /\ up /\ hnd[a].pc = "hopHangup"
    /\ HangUp(a)
    /\ hnd' = [hnd EXCEPT ![a] = NoTask]
    /\ UNCHANGED <<store, up, maps, sched, amdh, retry, sess, ctxOk, hist>>

-----------------------------------------------------------------------------
(* _reject_outbound_answered_attempt and its hangup retry owner *)

RejFinish(a) ==
    /\ up /\ hnd[a].pc = "rejFinish"
    /\ att' = Finish(a, "rejected")
    /\ hnd' = [hnd EXCEPT ![a].pc = "rejLead"]
    /\ UNCHANGED <<campaign, lead, up, maps, sched, amdh, dst, retry, sess, ast, hist>>

\* The lead fails, then the marked owner replaces whatever the maps hold.
RejLead(a) ==
    /\ up /\ hnd[a].pc = "rejLead"
    /\ lead' = SetLead(att[a].lead, hnd[a].known, "failed")
    /\ TakeMeta(a, IF hnd[a].known THEN "rejected" ELSE "unowned")
    /\ hnd' = [hnd EXCEPT ![a].pc = "rejHangup"]
    /\ UNCHANGED <<campaign, att, up, awaiting, stale, sched, amdh, dst, retry, sess, ast, hist>>

\* Mutant of RejHangup: one request, and no owner for a call that is still up.
RejHangupOnce(a) ==
    /\ up /\ hnd[a].pc = "rejHangup"
    /\ hnd' = [hnd EXCEPT ![a] = NoTask]
    /\ Release(a) /\ HangUp(a)
    /\ UNCHANGED <<store, up, awaiting, stale, sched, amdh, sess, ctxOk, hist>>

\* Asterisk accepts the hangup (or answers 404), or the retry owner takes over.
RejHangup(a) ==
    /\ up /\ hnd[a].pc = "rejHangup"
    /\ hnd' = [hnd EXCEPT ![a] = NoTask]
    /\ \/ Kill(a) /\ Release(a)
       \/ /\ retry' = retry \cup {a}
          /\ UNCHANGED <<metaA, metaC, chan, dst>>
    /\ UNCHANGED <<store, up, awaiting, stale, sched, amdh, sess, ctxOk, hist>>

\* A retry that is accepted; one that is not changes nothing and backs off.
RetryHangup(a) ==
    /\ up /\ a \in retry
    /\ Kill(a) /\ Release(a)
    /\ UNCHANGED <<store, up, awaiting, stale, sched, hnd, amdh, sess, ctxOk, hist>>

-----------------------------------------------------------------------------
(* _handle_outbound_amd_result *)

\* The dialplan returns the channel: StasisStart(outbound_amd).
AmdReturn(a) ==
    /\ chan[a] = "amd"
    /\ IF up
       THEN /\ chan' = [chan EXCEPT ![a] = "back"]
            /\ amdh' = [amdh EXCEPT ![a] = [NoAmd EXCEPT !.pc = "start"]]
       ELSE /\ chan' = [chan EXCEPT ![a] = "dead"]
            /\ amdh' = amdh
    /\ UNCHANGED <<store, up, maps, sched, hnd, dst, retry, sess, ctxOk, hist>>

\* The guard is dropped first; NOTSURE counts as MACHINE; a denied or timed-out
\* consent ends the call; HUMAN goes on.  The lead is known when a map holds meta.
AmdStart(a) ==
    /\ up /\ amdh[a].pc = "start"
    /\ awaiting' = awaiting \ {a}
    /\ \E r \in {"machine", "consent", "human"} :
         amdh' = [amdh EXCEPT ![a] =
                    [pc    |-> IF r = "human" THEN "lead" ELSE "finish",
                     known |-> \/ metaA[a].kind \in Owned
                               \/ metaA[a].kind = "none" /\ metaC[a] \in Owned,
                     res   |-> r]]
    /\ UNCHANGED <<store, up, metaA, metaC, stale, sched, hnd, dst, retry, sess, ast, hist>>

\* Voicemail drop or consent refusal: finish, settle the lead, forget, hang up.
AmdFinish(a) ==
    /\ up /\ amdh[a].pc = "finish"
    /\ att' = Finish(a, amdh[a].res)
    /\ amdh' = [amdh EXCEPT ![a].pc = "settle"]
    /\ UNCHANGED <<campaign, lead, up, maps, sched, hnd, dst, retry, sess, ast, hist>>

AmdSettle(a) ==
    /\ up /\ amdh[a].pc = "settle"
    /\ lead' = SetLead(att[a].lead, amdh[a].known,
                       IF amdh[a].res = "machine" THEN "completed" ELSE "canceled")
    /\ PopBoth(a)
    /\ amdh' = [amdh EXCEPT ![a].pc = "hangup"]
    /\ UNCHANGED <<campaign, att, up, awaiting, stale, sched, hnd, dst, retry, sess, ast, hist>>

AmdHangup(a) ==
    /\ up /\ amdh[a].pc = "hangup"
    /\ HangUp(a)
    /\ amdh' = [amdh EXCEPT ![a] = NoAmd]
    /\ UNCHANGED <<store, up, maps, sched, hnd, retry, sess, ctxOk, hist>>

\* HUMAN: the lead is in progress, then the inbound call path takes the channel.
AmdHuman(a) ==
    /\ up /\ amdh[a].pc = "lead"
    /\ lead' = SetLead(att[a].lead, amdh[a].known, "in_progress")
    /\ amdh' = [amdh EXCEPT ![a].pc = "attach"]
    /\ UNCHANGED <<campaign, att, up, maps, sched, hnd, dst, retry, sess, ast, hist>>

\* _handle_caller_stasis_start_hybrid: bridge and session, or a setup that fails
\* before there is a session (always so on a dead channel) and leaves the channel.
AmdAttach(a) ==
    /\ up /\ amdh[a].pc = "attach"
    /\ \/ /\ chan[a] = "back" /\ sess[a] = "none"
          /\ sess' = [sess EXCEPT ![a] = "attached"]
       \/ sess' = sess
    /\ amdh' = [amdh EXCEPT ![a] = NoAmd]
    /\ UNCHANGED <<store, up, maps, sched, hnd, dst, retry, ast, hist>>

\* The session reads AAVA_ATTEMPT_ID and its siblings off the channel.
SessionIds(a) ==
    /\ up /\ sess[a] = "attached" /\ chan[a] = "back"
    /\ sess' = [sess EXCEPT ![a] = "active"]
    /\ UNCHANGED <<store, up, maps, sched, hnd, amdh, dst, retry, ast, hist>>

-----------------------------------------------------------------------------
(* ChannelDestroyed and the end of a session *)

\* The callee hangs up, or the ring times out.
ChannelDies(a) ==
    /\ Alive(a)
    /\ IF up THEN Kill(a)
       ELSE chan' = [chan EXCEPT ![a] = "dead"] /\ dst' = dst
    /\ UNCHANGED <<store, up, maps, sched, hnd, amdh, retry, sess, ctxOk, hist>>

\* Mutant of Destroyed: an attempt whose meta is gone returns before its guard is released.
DestroyedForgets(a) ==
    /\ up /\ dst[a] = "event"
    /\ hnd[a].pc # "lookup" /\ amdh[a].pc # "start"
    /\ awaiting' = IF metaC[a] = "none" THEN awaiting ELSE awaiting \ {a}
    /\ \/ /\ metaC[a] \in RejectedKind
          /\ Release(a)
          /\ dst' = [dst EXCEPT ![a] = "done"]
       \/ /\ metaC[a] \notin RejectedKind
          /\ metaC[a] = "none" \/ HasSession(a)
          /\ dst' = [dst EXCEPT ![a] = "done"]
          /\ UNCHANGED <<metaA, metaC, retry>>
       \/ /\ metaC[a] = "junk" /\ ~HasSession(a)
          /\ metaC' = [metaC EXCEPT ![a] = "none"]
          /\ dst' = [dst EXCEPT ![a] = "done"]
          /\ UNCHANGED <<metaA, retry>>
       \/ /\ metaC[a] = "tracked" /\ ~HasSession(a)
          /\ dst' = [dst EXCEPT ![a] = "finish"]
          /\ UNCHANGED <<metaA, metaC, retry>>
    /\ UNCHANGED <<store, up, stale, sched, hnd, amdh, sess, ast, hist>>

\* _handle_outbound_channel_destroyed.  Tasks start in the order of their events.
Destroyed(a) ==
    /\ up /\ dst[a] = "event"
    /\ hnd[a].pc # "lookup" /\ amdh[a].pc # "start"
    /\ awaiting' = awaiting \ {a}
    /\ \/ /\ metaC[a] \in RejectedKind
          /\ Release(a)
          /\ dst' = [dst EXCEPT ![a] = "done"]
       \/ /\ metaC[a] \notin RejectedKind
          /\ metaC[a] = "none" \/ HasSession(a)
          /\ dst' = [dst EXCEPT ![a] = "done"]
          /\ UNCHANGED <<metaA, metaC, retry>>
       \/ /\ metaC[a] = "junk" /\ ~HasSession(a)
          /\ metaC' = [metaC EXCEPT ![a] = "none"]
          /\ dst' = [dst EXCEPT ![a] = "done"]
          /\ UNCHANGED <<metaA, retry>>
       \/ /\ metaC[a] = "tracked" /\ ~HasSession(a)
          /\ dst' = [dst EXCEPT ![a] = "finish"]
          /\ UNCHANGED <<metaA, metaC, retry>>
    /\ UNCHANGED <<store, up, stale, sched, hnd, amdh, sess, ast, hist>>

DestroyedFinish(a) ==
    /\ up /\ dst[a] = "finish"
    /\ att' = Finish(a, "hangup")
    /\ dst' = [dst EXCEPT ![a] = "settle"]
    /\ UNCHANGED <<campaign, lead, up, maps, sched, hnd, amdh, retry, sess, ast, hist>>

DestroyedSettle(a) ==
    /\ up /\ dst[a] = "settle"
    /\ lead' = SetLead(att[a].lead, TRUE, "failed")
    /\ PopBoth(a)
    /\ dst' = [dst EXCEPT ![a] = "done"]
    /\ UNCHANGED <<campaign, att, up, awaiting, stale, sched, hnd, amdh, retry, sess, ast, hist>>

\* _cleanup_call takes the session, with or without the outbound ids: the caller
\* left, or the end of a media leg or a failed setup ends the call.
SessionEnds(a) ==
    /\ up /\ sess[a] \in {"attached", "active"}
    /\ sess' = [sess EXCEPT ![a] = IF @ = "active" THEN "ending" ELSE "ending0"]
    /\ HangUp(a)
    /\ UNCHANGED <<store, up, maps, sched, hnd, amdh, retry, ctxOk, hist>>

\* _persist_call_history finishes the attempt of a session that knows it, once
\* the history record is saved.
PersistAttempt(a) ==
    /\ up /\ sess[a] = "ending"
    /\ att' = Finish(a, "session")
    /\ sess' = [sess EXCEPT ![a] = "persisted"]
    /\ UNCHANGED <<campaign, lead, up, maps, sched, hnd, amdh, dst, retry, ast, hist>>

PersistLead(a) ==
    /\ up /\ sess[a] = "persisted"
    /\ \E s \in {"completed", "failed"} : lead' = SetLead(att[a].lead, TRUE, s)
    /\ PopBoth(a)
    /\ sess' = [sess EXCEPT ![a] = "gone"]
    /\ UNCHANGED <<campaign, att, up, awaiting, stale, sched, hnd, amdh, dst, retry, ast, hist>>

\* The session is removed and nobody finished the attempt.
PersistSkipped(a) ==
    /\ up
    /\ \/ sess[a] = "ending0"
       \/ sess[a] = "ending" /\ HistoryMayFail
    /\ sess' = [sess EXCEPT ![a] = "gone"]
    /\ UNCHANGED <<store, up, maps, sched, hnd, amdh, dst, retry, ast, hist>>

-----------------------------------------------------------------------------
(* Time, crash and restart *)

\* A stale age that leaves time to ring, to answer and to classify is no race.
BecomeStale(a) ==
    /\ up /\ a \notin stale /\ metaA[a].kind = "tracked" /\ sched.att # a
    /\ StaleMayRace \/ ~(Working(a) \/ chan[a] \in {"ringing", "amd"})
    /\ stale' = stale \cup {a}
    /\ UNCHANGED <<store, up, metaA, metaC, awaiting, tasks, ast, hist>>

Crash ==
    /\ up /\ crashes < MaxCrashes
    /\ crashes' = crashes + 1
    /\ up' = FALSE
    /\ metaA' = [a \in Attempts |-> NoMeta]
    /\ metaC' = [a \in Attempts |-> "none"]
    /\ awaiting' = {} /\ stale' = {} /\ retry' = {}
    /\ sched' = Idle
    /\ hnd' = [a \in Attempts |-> NoTask]
    /\ amdh' = [a \in Attempts |-> NoAmd]
    /\ dst' = [a \in Attempts |-> "none"]
    /\ sess' = [a \in Attempts |-> "none"]
    /\ late' = {}
    /\ UNCHANGED <<store, ast, dials, requeues, ops>>

\* start: cleanup_stale_attempts_and_leads closes the open attempts that are old
\* enough and fails their leads; the younger ones are left to be answered.
Restart ==
    /\ ~up
    /\ up' = TRUE
    /\ \E old \in SUBSET {a \in Attempts : att[a].st = "open"} :
         /\ att' = [a \in Attempts |-> IF a \in old
                      THEN [att[a] EXCEPT !.st = "ended", !.outcome = "stale_restart"] ELSE att[a]]
         /\ lead' = [l \in Leads |->
                      IF /\ lead[l] \in {"dialing", "leased", "amd_pending", "in_progress"}
                         /\ \E a \in old : att[a].lead = l
                      THEN "failed" ELSE lead[l]]
    /\ UNCHANGED <<campaign, maps, tasks, ast, hist>>

-----------------------------------------------------------------------------
(* The operator, by admin_ui/backend/api/outbound.py *)

OperatorTurn ==
    /\ ops < MaxOps
    /\ ops' = ops + 1
    /\ UNCHANGED <<up, maps, tasks, ast, dials, crashes, late>>

\* POST campaigns/<id>/status: starting needs a pending lead.
SetStatus ==
    /\ OperatorTurn
    /\ \E s \in {"running", "paused", "stopped"}, cancelPending \in BOOLEAN :
         /\ s # campaign
         /\ s = "running" => \E l \in Leads : lead[l] = "pending"
         /\ campaign' = s
         /\ lead' = [l \in Leads |-> IF s = "stopped" /\ cancelPending /\ lead[l] = "pending"
                                     THEN "canceled" ELSE lead[l]]
    /\ UNCHANGED <<att, requeues>>

CancelLead(l) ==
    /\ OperatorTurn
    /\ lead[l] \in {"pending", "leased", "dialing", "amd_pending"}
    /\ lead' = [lead EXCEPT ![l] = "canceled"]
    /\ UNCHANGED <<campaign, att, requeues>>

IgnoreLead(l) ==
    /\ OperatorTurn
    /\ lead[l] \notin {"in_progress", "amd_pending"}
    /\ lead' = [lead EXCEPT ![l] = "canceled"]
    /\ UNCHANGED <<campaign, att, requeues>>

\* recycle_lead: redial keeps the attempts, reset deletes them; neither UPDATE
\* looks at the state.
RecycleLead(l) ==
    /\ OperatorTurn
    /\ lead' = [lead EXCEPT ![l] = "pending"]
    /\ requeues' = [requeues EXCEPT ![l] = @ + 1]
    /\ \/ att' = att
       \/ att' = [a \in Attempts |-> IF att[a].lead = l /\ att[a].st # "none"
                                     THEN [att[a] EXCEPT !.st = "deleted"] ELSE att[a]]
    /\ UNCHANGED campaign

Operator == SetStatus \/ \E l \in Leads : CancelLead(l) \/ IgnoreLead(l) \/ RecycleLead(l)

-----------------------------------------------------------------------------
Scheduler ==
    \/ TickBegin \/ ScanSkip \/ ScanStale \/ ScanProbeFails \/ ScanProbe
    \/ StaleFinish \/ StaleLead \/ TickList \/ TickDecide \/ MarkCompleted
    \/ Lease \/ Recheck \/ CreateAttempt \/ MarkDialing \/ MarkRefused
    \/ Originate \/ OriginateRefused \/ RefusedLead \/ OriginateReply \/ OriginateLost

Answered(a) ==
    \/ AnsLookup(a) \/ AnsRecover(a) \/ AnsMark(a) \/ AnsConfirm(a) \/ AnsHop(a) \/ AnsHopReply(a)
    \/ AnsHopFinish(a) \/ AnsHopLead(a) \/ AnsHopHangup(a)
    \/ RejFinish(a) \/ RejLead(a) \/ RejHangup(a)

AmdResult(a) ==
    \/ AmdStart(a) \/ AmdFinish(a) \/ AmdSettle(a) \/ AmdHangup(a)
    \/ AmdHuman(a) \/ AmdAttach(a)

ChannelGone(a) == Destroyed(a) \/ DestroyedFinish(a) \/ DestroyedSettle(a)

Session(a) ==
    \/ SessionIds(a) \/ SessionEnds(a) \/ PersistAttempt(a) \/ PersistLead(a)
    \/ PersistSkipped(a)

Next ==
    \/ Scheduler
    \/ \E a \in Attempts :
         \/ Answer(a) \/ Answered(a) \/ RetryHangup(a)
         \/ AmdReturn(a) \/ AmdResult(a)
         \/ ChannelDies(a) \/ ChannelGone(a) \/ Session(a)
         \/ BecomeStale(a)
    \/ Crash \/ Restart
    \/ Operator

Spec == Init /\ [][Next]_vars

\* The event loop runs every ready task; ARI answers a probe that is repeated
\* for ever; every ring times out and every call ends; clocks advance.
Fairness ==
    /\ WF_vars(Scheduler) /\ SF_vars(ScanProbe) /\ WF_vars(Restart)
    /\ \A a \in Attempts :
         /\ WF_vars(Answered(a)) /\ WF_vars(AmdResult(a)) /\ WF_vars(ChannelGone(a))
         /\ WF_vars(Session(a)) /\ WF_vars(RetryHangup(a))
         /\ WF_vars(ChannelDies(a)) /\ WF_vars(BecomeStale(a))

FairSpec == Spec /\ Fairness

-----------------------------------------------------------------------------
(* Properties *)

SchedPc == {"idle", "scan", "probe", "staleFinish", "staleLead", "decide", "complete",
            "lease", "recheck", "create", "mark", "originate", "reply", "refused"}
HndPc == {"none", "lookup", "recover", "mark", "confirm", "hop", "hopReply", "hopFinish", "hopLead",
          "hopHangup", "rejFinish", "rejLead", "rejHangup"}
AmdPc == {"none", "start", "finish", "settle", "hangup", "lead", "attach"}

Attempt == [st : {"none", "open", "ended", "deleted"}, lead : Leads \cup {None},
            outcome : Outcome]
Meta == [kind : Kind, ch : BOOLEAN]
SchedTask == [pc : SchedPc, lead : Leads \cup {None}, att : Attempts \cup {None},
              ch : BOOLEAN, snap : SUBSET [att : Attempts, ch : BOOLEAN],
              quiet : BOOLEAN]
HndTask == [pc : HndPc, known : BOOLEAN]
AmdTask == [pc : AmdPc, known : BOOLEAN, res : {"none", "machine", "consent", "human"}]

StoreType ==
    /\ campaign \in CampaignStatus
    /\ lead \in [Leads -> LeadState]
    /\ att \in [Attempts -> Attempt]

MapsType ==
    /\ up \in BOOLEAN
    /\ metaA \in [Attempts -> Meta]
    /\ metaC \in [Attempts -> Kind]
    /\ awaiting \in SUBSET Attempts
    /\ stale \in SUBSET Attempts

TasksType ==
    /\ sched \in SchedTask
    /\ hnd \in [Attempts -> HndTask]
    /\ amdh \in [Attempts -> AmdTask]
    /\ dst \in [Attempts -> {"none", "event", "finish", "settle", "done"}]
    /\ retry \in SUBSET Attempts
    /\ sess \in [Attempts -> {"none", "attached", "active", "ending0", "ending",
                              "persisted", "gone"}]

AstType ==
    /\ chan \in [Attempts -> {"none", "ringing", "stasis", "amd", "back", "dead"}]
    /\ ctxOk \in SUBSET Attempts

HistType ==
    /\ dials \in [Leads -> Nat] /\ requeues \in [Leads -> Nat]
    /\ ops \in Nat /\ crashes \in Nat /\ late \in SUBSET Attempts

\* A task holds a lead, an attempt or a verdict where its code uses one.
SchedHolds ==
    /\ sched.pc \in {"create", "mark", "originate", "reply", "refused"} => sched.lead \in Leads
    /\ sched.pc \in {"mark", "originate", "reply", "refused", "probe", "staleFinish", "staleLead"}
       => sched.att \in Attempts

AmdHolds ==
    \A a \in Attempts :
        amdh[a].pc \in {"finish", "settle"} => amdh[a].res \in {"machine", "consent"}

\* Every variable has the shape the code gives it, and no task runs on a lead, an
\* attempt or a verdict it does not have.
TypeOK ==
    StoreType /\ MapsType /\ TasksType /\ AstType /\ HistType /\ SchedHolds /\ AmdHolds

\* "manual retry only; no automatic retries" (recycle_lead): whatever crashes,
\* restarts, lease expiries and watchdog runs happen, a lead is dialed at most
\* once more often than an operator put it back in the queue.
NoAutoRedial == \A l \in Leads : dials[l] <= requeues[l] + 1

\* Its inductive form: a dial that is decided counts, and a lead that is queued
\* has one to spare.
Claim(l) == IF sched.pc = "originate" /\ sched.lead = l THEN 1 ELSE 0
DialBudget ==
    \A l \in Leads :
        /\ dials[l] + Claim(l) <= requeues[l] + 1
        /\ lead[l] \in {"pending", "leased"} => dials[l] + Claim(l) <= requeues[l]

\* The mandatory lead context: an AI session exists only on a channel whose
\* custom_vars were read back after the answer.
FailClosed == \A a \in Attempts : sess[a] # "none" => a \in ctxOk

\* Its inductive form: nothing on the way from the gate to a session has missed it.
PastTheGate(a) ==
    \/ hnd[a].pc \in {"hop", "hopReply"} \/ chan[a] \in {"amd", "back"}
    \/ amdh[a].pc # "none" \/ sess[a] # "none"
GateHeld == \A a \in Attempts : PastTheGate(a) => a \in ctxOk

\* A call rejected after the answer is never forgotten while it is up: its
\* handler still runs, or a retry owner keeps asking for the hangup.
Rejecting(a) == hnd[a].pc \in {"rejLead", "rejHangup"} \/ a \in retry
RejectedIsOwned ==
    \A a \in Attempts :
        att[a].outcome = "rejected" /\ Alive(a) /\ crashes = 0 => Rejecting(a)

\* Its inductive form: an attempt is dialed once, a handler means an answer, and
\* ChannelDestroyed means a dead channel.
OneChannel(a) ==
    /\ att[a].st = "none" => chan[a] = "none"
    /\ sched.pc \in {"mark", "originate"} /\ sched.att = a
       => chan[a] = "none" /\ att[a].st # "none"
    /\ chan[a] \in {"none", "ringing"} => hnd[a].pc = "none" /\ att[a].outcome # "rejected"
    /\ dst[a] # "none" => chan[a] = "dead"
OwnershipHeld == RejectedIsOwned /\ \A a \in Attempts : OneChannel(a)

\* max_concurrent caps what the campaign has in flight.
InFlight == {a \in Attempts : HasSession(a) \/ (att[a].st = "open" /\ chan[a] # "dead")}
CapacityRespected == Cardinality(InFlight) <= MaxConcurrent

\* The campaign is completed by the engine only when no attempt is open.
CompletedIsQuiet ==
    [][campaign' = "completed" /\ campaign # "completed"
       => \A a \in Attempts : att[a].st # "open"]_vars

\* Every attempt row is closed in the end (or deleted by the operator).
AttemptCloses == \A a \in Attempts : att[a].st = "open" ~> att[a].st # "open"

\* "Release the StasisEnd guard even when attempt metadata was already consumed so
\* indeterminate handoffs do not leak channel IDs" (engine.py:3904): once
\* ChannelDestroyed is handled and nobody works on the call, the guard is down,
\* through lost answers, a meta that is gone and crashes.  The one leak the code
\* has is named: a hop whose answer is lost after ChannelDestroyed was handled.
GuardReleased ==
    \A a \in Attempts : dst[a] = "done" /\ ~Working(a) => a \notin awaiting \/ a \in late

=============================================================================
