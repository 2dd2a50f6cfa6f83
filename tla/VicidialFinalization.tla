------------------------ MODULE VicidialFinalization ------------------------
(***************************************************************************)
(* How one call owned by a VICIdial dialer is disposed of: the tools that  *)
(* select a disposition or transfer the call, the terminal hangup, the     *)
(* call cleanup, and the worker that retries the durable outbox            *)
(* vicidial_pending_actions.  All of them serialise on the lifecycle lock  *)
(* of the call; the database and the dialer's HTTP API may fail at each    *)
(* use, an API request may take effect though its reply is lost, and the   *)
(* engine may stop between any two steps.                                  *)
(*                                                                         *)
(* A disposition is a label: "dnc", an appointment in Callbacks, a plain   *)
(* business status in Sales, or the semantic of the hangup itself.  The    *)
(* status sent to the dialer is a function of the label and is not kept    *)
(* apart.  The outbox has one row per dedupe key: "terminal" for the call, *)
(* and one per compliance request.  Backoff (next_attempt_at) is the       *)
(* worker's freedom to list a pending row at any time.                     *)
(***************************************************************************)
EXTENDS Naturals

CONSTANTS Dnc,         \* {"dnc"} where the mapping allowlists that disposition, else {}
          Callbacks,   \* callback appointments a caller may ask for
          Sales,       \* business dispositions without a side effect
          MaxCrashes   \* bound: engine stops considered

Compliance == Dnc \cup Callbacks
Rows == {"terminal"} \cup Compliance
Semantics == {"ai_hangup", "caller_hangup"}
Labels == {"none"} \cup Semantics \cup Sales \cup Compliance

ASSUME NamesAssumption ==
  /\ Dnc \subseteq {"dnc"}
  /\ "dnc" \notin Callbacks /\ "terminal" \notin Callbacks
  /\ Callbacks \cap ({"none"} \cup Semantics \cup Sales) = {}
  /\ Sales \cap ({"none", "dnc", "terminal"} \cup Semantics) = {}
  /\ MaxCrashes \in Nat

VARIABLES sess,      \* the two session objects: the live call's, and the worker's rebuilt one
          stored,    \* which of them the session store maps the call to
          asked,     \* a terminal hangup has read the session and waits for the lock
          cleanup,   \* progress of _cleanup_call
          turn,      \* the holder of the lifecycle lock and where it is
          listed,    \* the row the worker's pass has listed
          rows,      \* vicidial_pending_actions
          ext,       \* the call at the dialer
          booked,    \* compliance effects recorded at the dialer
          acked,     \* the compliance request last acknowledged to the caller
          history,   \* the call history record
          crashes

vars == <<sess, stored, asked, cleanup, turn, listed, rows, ext, booked, acked, history, crashes>>

Objects == {"live", "rebuilt"}
NewSession == [label |-> "none", committed |-> FALSE, qid |-> "none", mine |-> FALSE,
               finalizing |-> FALSE, finalized |-> FALSE]
Absent == [status |-> "absent", done |-> FALSE, term |-> "none"]
Free == [by |-> "none", at |-> "none", obj |-> "live", sem |-> "none", kept |-> FALSE, sure |-> FALSE]

Init ==
  /\ sess = [o \in Objects |-> NewSession] /\ stored = "live"
  /\ asked = FALSE /\ cleanup = "no" /\ turn = Free /\ listed = "none"
  /\ rows = [k \in Rows |-> Absent]
  /\ ext = "live" /\ booked = [k \in Compliance |-> 0] /\ acked = "none" /\ history = "none"
  /\ crashes = 0

-----------------------------------------------------------------------------
\* The outbox.

\* Mutant of Enqueue: a row that is there keeps its status, canceled or not.
EnqueueOnce(rs, k, term) ==
  [rs EXCEPT ![k] = IF @.status = "absent" THEN [status |-> "pending", done |-> FALSE, term |-> term]
                    ELSE [@ EXCEPT !.term = term]]

\* enqueue_pending_action: only a canceled row is opened again.
Enqueue(rs, k, term) ==
  [rs EXCEPT ![k] = IF @.status \in {"absent", "canceled"}
                      THEN [status |-> "pending", done |-> FALSE, term |-> term]
                      ELSE [@ EXCEPT !.term = term]]

Pending(k) == rows[k].status = "pending"

\* complete_pending_action, with its possible failure.
Complete(k) ==
  \/ rows' = rows
  \/ k # "none" /\ Pending(k) /\ rows' = [rows EXCEPT ![k].status = "completed"]

\* _queue_pending_workflow: [obj, rows] after queueing the selected compliance request.
QueueWorkflow(s, rs, term) ==
  LET queued == Enqueue(rs, s.label, term) IN
  [obj |-> IF queued[s.label].status = "completed" THEN [s EXCEPT !.committed = TRUE]
                                                    ELSE [s EXCEPT !.qid = s.label],
   rows |-> queued]

\* Mutant of Unowned: a selected DNC or callback counts as done when terminal control begins.
NeverUnowned(s) == FALSE

Unowned(s) == s.label \in Compliance /\ ~s.committed

\* _queue_vicidial_terminal_retry; db is whether the database accepts the row.
QueueTerminal(s, rs, sem, db) ==
  LET label == IF s.label = "none" THEN sem ELSE s.label IN
  IF db THEN [obj |-> [s EXCEPT !.label = label, !.committed = TRUE, !.qid = "terminal"],
              rows |-> Enqueue(rs, "terminal", label), kept |-> TRUE]
        ELSE [obj |-> s, rows |-> rs, kept |-> FALSE]

\* _retain_vicidial_terminal_retry; enq and seen: the compliance row is written, is read back.
Retain(s, rs, sem, enq, seen, db) ==
  LET q == IF enq THEN QueueWorkflow(s, rs, sem) ELSE [obj |-> s, rows |-> rs]
      owned == /\ seen /\ q.obj.qid # "none"
               /\ q.rows[q.obj.qid].status = "pending" /\ q.rows[q.obj.qid].term # "none"
  IN IF ~Unowned(s) THEN QueueTerminal(s, rs, sem, db)
     ELSE IF owned THEN [obj |-> q.obj, rows |-> q.rows, kept |-> TRUE]
     ELSE IF ~q.obj.committed THEN [obj |-> q.obj, rows |-> q.rows, kept |-> FALSE]
     ELSE QueueTerminal(q.obj, q.rows, sem, db)

-----------------------------------------------------------------------------
\* The dialer's API.

\* Mutant of Request: update_lead without the read before it.
RequestBlind(k, ok) ==
  /\ booked' \in {booked, [booked EXCEPT ![k] = @ + 1]}
  /\ ok => booked' # booked

\* add_dnc_phone and update_lead with its read before the write: ok only with the effect there,
\* and a recorded callback is found by the read and not written again.
Request(k, ok) ==
  /\ booked' \in {booked} \cup (IF booked[k] = 0 THEN {[booked EXCEPT ![k] = 1]} ELSE {})
  /\ ok => booked'[k] > 0

\* ra_call_control: accepted only for the call the Remote Agent still has.
Control(outcome, ok) ==
  /\ ext' \in IF ext = "live" THEN {"live", outcome} ELSE {ext}
  /\ ok => ext = "live" /\ ext' = outcome

\* The customer hangs up, or the dialer ends the call.
CustomerLeaves ==
  /\ ext = "live" /\ ext' = "left"
  /\ UNCHANGED <<sess, stored, asked, cleanup, turn, listed, rows, booked, acked, history, crashes>>

-----------------------------------------------------------------------------
\* The tools.

\* SetCallDispositionTool._execute_locked: a pending callback is canceled first.
Withdrawn(s) ==
  IF s.label \in Callbacks /\ s.qid # "none" /\ Pending(s.qid)
    THEN [rows EXCEPT ![s.qid].status = "canceled"] ELSE rows

Selectable(s, d) ==
  /\ ~s.finalized /\ ~s.finalizing /\ s.label # "dnc"
  /\ s.label \in Callbacks => /\ d \in Compliance /\ ~s.committed
                              /\ s.qid # "none" => ~rows[s.qid].done

SetDisposition(d) ==
  LET chosen == [sess["live"] EXCEPT !.label = d, !.committed = FALSE, !.qid = "none", !.mine = FALSE]
      queued == QueueWorkflow(chosen, Withdrawn(sess["live"]), "none")
  IN
  /\ turn = Free /\ stored = "live" /\ Selectable(sess["live"], d)
  /\ \/ /\ d \in Sales
        /\ sess' = [sess EXCEPT !["live"] = chosen]
        /\ UNCHANGED <<rows, acked>>
     \/ /\ d \in Compliance
        /\ sess' = [sess EXCEPT !["live"] = queued.obj]
        /\ rows' = queued.rows /\ acked' = d
     \/ /\ d \in Compliance   \* the row cannot be written: not acknowledged, nothing selected
        /\ sess' = [sess EXCEPT !["live"] = [chosen EXCEPT !.label = "none"]]
        /\ rows' = Withdrawn(sess["live"]) /\ acked' = "none"
  /\ UNCHANGED <<stored, asked, cleanup, turn, listed, ext, booked, history, crashes>>

\* execute_vicidial_transfer takes the lock.
TransferBegin ==
  /\ turn = Free /\ stored = "live"
  /\ ~sess["live"].finalized /\ ~sess["live"].finalizing
  /\ turn' = [Free EXCEPT !.by = "transfer", !.at = "workflow"]
  /\ UNCHANGED <<sess, stored, asked, cleanup, listed, rows, ext, booked, acked, history, crashes>>

\* The transfer request and, when it is accepted, the finalised session.
TransferControl ==
  /\ turn.by = "transfer" /\ turn.at = "control"
  /\ \E ok \in BOOLEAN :
       /\ Control("moved", ok)
       /\ sess' = [sess EXCEPT !["live"].finalized = @ \/ ok]
       /\ IF ok THEN Complete(sess["live"].qid) ELSE rows' = rows
  /\ stored' = "live" /\ turn' = Free
  /\ UNCHANGED <<asked, cleanup, listed, booked, acked, history, crashes>>

-----------------------------------------------------------------------------
\* Finalisation: _finalize_vicidial_call, from the hangup or from the cleanup.

\* _terminate_call_after_audio decides to hang up.
AskHangup ==
  /\ ~asked /\ stored = "live" /\ cleanup = "no" /\ ~sess["live"].finalized
  /\ asked' = TRUE
  /\ UNCHANGED <<sess, stored, cleanup, turn, listed, rows, ext, booked, acked, history, crashes>>

Waits(who) == IF who = "hangup" THEN asked ELSE cleanup = "waiting"
Resume(who) ==
  /\ asked' = IF who = "hangup" THEN FALSE ELSE asked
  /\ cleanup' = IF who = "cleanup" THEN "history" ELSE cleanup

\* Another holder of the lock finalised the call first.
FinalizeSkip(who) ==
  /\ Waits(who) /\ turn.by # who /\ sess["live"].finalized
  /\ Resume(who)
  /\ UNCHANGED <<sess, stored, turn, listed, rows, ext, booked, acked, history, crashes>>

\* The durable owner first, then external_finalizing, then the workflow.
FinalizeBegin(who) ==
  LET sem == IF who = "hangup" THEN "ai_hangup" ELSE "caller_hangup" IN
  /\ Waits(who) /\ turn = Free /\ ~sess["live"].finalized /\ ~sess["live"].finalizing
  /\ \E enq, seen, db \in BOOLEAN :
       LET r == Retain(sess["live"], rows, sem, enq, seen, db) IN
       /\ sess' = [sess EXCEPT !["live"] = [r.obj EXCEPT !.finalizing = TRUE]]
       /\ rows' = r.rows
       /\ turn' = [Free EXCEPT !.by = who, !.at = "workflow", !.sem = sem, !.kept = r.kept]
  /\ stored' = "live"
  /\ UNCHANGED <<asked, cleanup, listed, ext, booked, acked, history, crashes>>

\* commit_vicidial_disposition_workflow has nothing to do.
WorkflowDone ==
  /\ turn.at = "workflow" /\ ~Unowned(sess[turn.obj])
  /\ turn' = [turn EXCEPT !.at = "control"]
  /\ UNCHANGED <<sess, stored, asked, cleanup, listed, rows, ext, booked, acked, history, crashes>>

\* It applied the request: the row is advanced, unless the database fails.
WorkflowApplied ==
  LET s == sess[turn.obj] IN
  /\ turn.at = "workflow" /\ Unowned(s)
  /\ Request(s.label, TRUE)
  /\ \/ rows' = rows
     \/ /\ s.qid # "none" /\ Pending(s.qid)
        /\ rows' = [rows EXCEPT ![s.qid].done = TRUE]
  /\ sess' = [sess EXCEPT ![turn.obj].committed = TRUE]
  /\ turn' = [turn EXCEPT !.at = "control"]
  /\ UNCHANGED <<stored, asked, cleanup, listed, ext, acked, history, crashes>>

\* Mutant of WorkflowFailed: terminal control goes on with the failure status.
WorkflowIgnored ==
  /\ turn.at = "workflow" /\ Unowned(sess[turn.obj])
  /\ Request(sess[turn.obj].label, FALSE)
  /\ turn' = [turn EXCEPT !.at = "control"]
  /\ UNCHANGED <<sess, stored, asked, cleanup, listed, rows, ext, acked, history, crashes>>

\* It could not confirm the request: the request is queued, and terminal control is deferred
\* unless the queue shows the request completed.
WorkflowFailed ==
  LET s == sess[turn.obj]
      term == IF turn.by = "transfer" THEN "none" ELSE turn.sem
  IN
  /\ turn.at = "workflow" /\ Unowned(s)
  /\ Request(s.label, FALSE)
  /\ \E enq \in BOOLEAN :
       LET q == IF enq THEN QueueWorkflow(s, rows, term) ELSE [obj |-> s, rows |-> rows] IN
       /\ sess' = [sess EXCEPT ![turn.obj] = q.obj]
       /\ rows' = q.rows
       /\ turn' = IF q.obj.committed THEN [turn EXCEPT !.at = "control"]
                  ELSE IF turn.by = "transfer" THEN Free
                  ELSE [turn EXCEPT !.at = "finish"]
  /\ stored' = IF turn.by = "transfer" THEN "live" ELSE stored
  /\ UNCHANGED <<asked, cleanup, listed, ext, acked, history, crashes>>

\* client.call_control(HANGUP).
HangupControl ==
  /\ turn.at = "control" /\ turn.by # "transfer"
  /\ \E ok \in BOOLEAN :
       /\ Control("hungup", ok)
       /\ turn' = [turn EXCEPT !.at = IF ok THEN "finish" ELSE "reconcile", !.sure = ok]
  /\ UNCHANGED <<sess, stored, asked, cleanup, listed, rows, booked, acked, history, crashes>>

\* callid_info and agent_status: terminal evidence, only of a call that is over for the agent.
Reconcile ==
  /\ turn.at = "reconcile"
  /\ \E sure \in BOOLEAN :
       /\ sure => ext # "live"
       /\ turn' = [turn EXCEPT !.at = "finish", !.sure = sure]
  /\ UNCHANGED <<sess, stored, asked, cleanup, listed, rows, ext, booked, acked, history, crashes>>

\* The finally block, and what _finalize_vicidial_call does with a failure.
Finished(s) == [s EXCEPT !.finalizing = FALSE, !.finalized = @ \/ turn.sure]

FinalizeEnd ==
  LET s == Finished(sess["live"]) IN
  /\ turn.by \in {"hangup", "cleanup"} /\ turn.at = "finish"
  /\ \/ /\ turn.sure
        /\ sess' = [sess EXCEPT !["live"] = s]
        /\ IF s.mine THEN rows' = rows ELSE Complete(s.qid)
     \/ /\ ~turn.sure /\ turn.kept
        /\ sess' = [sess EXCEPT !["live"] = s] /\ rows' = rows
     \/ /\ ~turn.sure /\ ~turn.kept
        /\ \E enq, seen, db \in BOOLEAN :
             LET r == Retain(s, rows, turn.sem, enq, seen, db) IN
             sess' = [sess EXCEPT !["live"] = r.obj] /\ rows' = r.rows
  /\ stored' = "live" /\ turn' = Free /\ Resume(turn.by)
  /\ UNCHANGED <<listed, ext, booked, acked, history, crashes>>

-----------------------------------------------------------------------------
\* _cleanup_call, as far as the dialer is concerned.

CleanupBegin ==
  /\ cleanup = "no" /\ stored = "live"
  /\ cleanup' = IF sess["live"].finalized THEN "history" ELSE "waiting"
  /\ UNCHANGED <<sess, stored, asked, turn, listed, rows, ext, booked, acked, history, crashes>>

\* _persist_call_history, which may fail.
CleanupHistory ==
  /\ cleanup = "history" /\ cleanup' = "remove"
  /\ history' \in {history, IF sess["live"].finalized THEN "final" ELSE "open"}
  /\ UNCHANGED <<sess, stored, asked, turn, listed, rows, ext, booked, acked, crashes>>

CleanupRemove ==
  /\ cleanup = "remove" /\ cleanup' = "done" /\ stored' = "none"
  /\ UNCHANGED <<sess, asked, turn, listed, rows, ext, booked, acked, history, crashes>>

-----------------------------------------------------------------------------
\* The retry worker: _retry_pending_vicidial_actions.

WorkerList(k) ==
  /\ listed = "none" /\ Pending(k) /\ listed' = k
  /\ UNCHANGED <<sess, stored, asked, cleanup, turn, rows, ext, booked, acked, history, crashes>>

\* Under the lock the row is read again and skipped when it is no longer pending.
Runnable(k) == Pending(k)

WorkerTake ==
  /\ listed # "none" /\ turn = Free
  /\ IF Runnable(listed) THEN turn' = [Free EXCEPT !.by = "worker", !.at = "replay"] /\ listed' = listed
                         ELSE turn' = turn /\ listed' = "none"
  /\ UNCHANGED <<sess, stored, asked, cleanup, rows, ext, booked, acked, history, crashes>>

\* An exception: retry_pending_action leaves the row pending for a later pass.
GiveUp == turn' = Free /\ listed' = "none"

\* The queued side effect, and the mark that it is done.
WorkerReplay ==
  /\ turn.at = "replay"
  /\ \/ /\ rows[listed].done \/ listed = "terminal"
        /\ rows' = [rows EXCEPT ![listed].done = TRUE]
        /\ turn' = [turn EXCEPT !.at = "session"]
        /\ UNCHANGED <<booked, listed>>
     \/ /\ ~rows[listed].done /\ listed # "terminal"
        /\ Request(listed, TRUE)
        /\ rows' = [rows EXCEPT ![listed].done = TRUE]
        /\ turn' = [turn EXCEPT !.at = "session"] /\ listed' = listed
     \/ /\ ~rows[listed].done /\ listed # "terminal"
        /\ Request(listed, FALSE)
        /\ rows' = rows /\ GiveUp
     \/ /\ GiveUp /\ UNCHANGED <<rows, booked>>
  /\ UNCHANGED <<sess, stored, asked, cleanup, ext, acked, history, crashes>>

\* Mutant of Expected: the operation of the row for the semantic in its payload.
ExpectedOperation(k) == k

\* What the row asks to be the selected disposition.
Expected(k) == IF k = "terminal" THEN rows[k].term ELSE k

Rebuilt(k) == [NewSession EXCEPT !.label = Expected(k), !.committed = TRUE, !.qid = k,
                                 !.mine = TRUE, !.finalizing = TRUE]

\* Terminal control of the session in the store, or of one rebuilt from the row.
WorkerRebuild ==
  /\ turn.at = "session" /\ rows[listed].term # "none" /\ stored = "none"
  /\ sess' = [sess EXCEPT !["rebuilt"] = Rebuilt(listed)]
  /\ stored' = "rebuilt"
  /\ turn' = [turn EXCEPT !.at = "workflow", !.obj = "rebuilt", !.sem = rows[listed].term]
  /\ UNCHANGED <<asked, cleanup, listed, rows, ext, booked, acked, history, crashes>>

Matches(s, k) == s.qid = k /\ s.label = Expected(k)

WorkerResume ==
  /\ turn.at = "session" /\ rows[listed].term # "none" /\ stored = "live"
  /\ ~sess["live"].finalized /\ ~sess["live"].finalizing /\ Matches(sess["live"], listed)
  /\ sess' = [sess EXCEPT !["live"] = [@ EXCEPT !.committed = TRUE, !.mine = TRUE, !.finalizing = TRUE]]
  /\ turn' = [turn EXCEPT !.at = "workflow", !.sem = rows[listed].term]
  /\ UNCHANGED <<stored, asked, cleanup, listed, rows, ext, booked, acked, history, crashes>>

\* Nothing terminal to do: no terminal request, a finalised call, or a replaced disposition.
WorkerPass ==
  /\ turn.at = "session"
  /\ \/ rows[listed].term = "none"
     \/ stored = "live" /\ (sess["live"].finalized \/ ~Matches(sess["live"], listed))
  /\ turn' = [turn EXCEPT !.at = "close"]
  /\ UNCHANGED <<sess, stored, asked, cleanup, listed, rows, ext, booked, acked, history, crashes>>

\* The result of the terminal control on the live session.
WorkerEndLive ==
  /\ turn.by = "worker" /\ turn.at = "finish" /\ turn.obj = "live"
  /\ sess' = [sess EXCEPT !["live"] = Finished(@)]
  /\ stored' = "live"
  /\ IF turn.sure THEN turn' = [turn EXCEPT !.at = "close"] /\ listed' = listed ELSE GiveUp
  /\ UNCHANGED <<asked, cleanup, rows, ext, booked, acked, history, crashes>>

\* Mutant of WorkerEndRebuilt: a failed history update does not keep the row open.
EndRebuiltAnyway ==
  /\ turn.by = "worker" /\ turn.at = "finish" /\ turn.obj = "rebuilt"
  /\ sess' = [sess EXCEPT !["rebuilt"] = NewSession]
  /\ stored' = "none"
  /\ \/ turn.sure /\ history' \in {history, "final"} /\ turn' = [turn EXCEPT !.at = "close"] /\ listed' = listed
     \/ GiveUp /\ history' = history
  /\ UNCHANGED <<asked, cleanup, rows, ext, booked, acked, crashes>>

\* Mutant of WorkerEndRebuilt: the rebuilt session stays in the session store.
EndRebuiltKept ==
  /\ turn.by = "worker" /\ turn.at = "finish" /\ turn.obj = "rebuilt"
  /\ sess' = [sess EXCEPT !["rebuilt"] = NewSession]
  /\ stored' = stored
  /\ \/ turn.sure /\ turn' = [turn EXCEPT !.at = "close"] /\ listed' = listed
     \/ GiveUp
  /\ UNCHANGED <<asked, cleanup, rows, ext, booked, acked, history, crashes>>

\* The same on a rebuilt session: the stored history is brought up to date before the row closes.
WorkerEndRebuilt ==
  /\ turn.by = "worker" /\ turn.at = "finish" /\ turn.obj = "rebuilt"
  /\ sess' = [sess EXCEPT !["rebuilt"] = NewSession]
  /\ stored' = "none"
  /\ \/ /\ turn.sure
        /\ history' = IF history = "open" THEN "final" ELSE history
        /\ turn' = [turn EXCEPT !.at = "close"] /\ listed' = listed
     \/ GiveUp /\ history' = history
  /\ UNCHANGED <<asked, cleanup, rows, ext, booked, acked, crashes>>

WorkerClose ==
  /\ turn.at = "close"
  /\ Complete(listed)
  /\ GiveUp
  /\ UNCHANGED <<sess, stored, asked, cleanup, ext, booked, acked, history, crashes>>

-----------------------------------------------------------------------------
\* The engine stops: the database and the dialer keep what they have.
Crash ==
  /\ crashes < MaxCrashes /\ crashes' = crashes + 1
  /\ sess' = [o \in Objects |-> NewSession] /\ stored' = "none" /\ asked' = FALSE /\ cleanup' = "done"
  /\ turn' = Free /\ listed' = "none"
  /\ UNCHANGED <<rows, ext, booked, acked, history>>

Next ==
  \/ CustomerLeaves \/ (\E d \in Sales \cup Compliance : SetDisposition(d))
  \/ TransferBegin \/ TransferControl
  \/ AskHangup \/ (\E who \in {"hangup", "cleanup"} : FinalizeSkip(who) \/ FinalizeBegin(who))
  \/ WorkflowDone \/ WorkflowApplied \/ WorkflowFailed \/ HangupControl \/ Reconcile \/ FinalizeEnd
  \/ CleanupBegin \/ CleanupHistory \/ CleanupRemove
  \/ (\E k \in Rows : WorkerList(k)) \/ WorkerTake \/ WorkerReplay \/ WorkerRebuild \/ WorkerResume
  \/ WorkerPass \/ WorkerEndLive \/ WorkerEndRebuilt \/ WorkerClose
  \/ Crash

Spec == Init /\ [][Next]_vars

-----------------------------------------------------------------------------
SessionType == [label : Labels, committed : BOOLEAN, qid : Rows \cup {"none"},
                mine : BOOLEAN, finalizing : BOOLEAN, finalized : BOOLEAN]
RowType == [status : {"absent", "pending", "completed", "canceled"}, done : BOOLEAN, term : Labels]
TurnType == [by : {"none", "hangup", "cleanup", "transfer", "worker"},
             at : {"none", "workflow", "control", "reconcile", "finish", "replay", "session", "close"},
             obj : Objects, sem : Labels, kept : BOOLEAN, sure : BOOLEAN]

TypeOK ==
  /\ sess \in [Objects -> SessionType] /\ stored \in Objects \cup {"none"}
  /\ asked \in BOOLEAN /\ cleanup \in {"no", "waiting", "history", "remove", "done"}
  /\ turn \in TurnType /\ listed \in Rows \cup {"none"}
  /\ rows \in [Rows -> RowType]
  /\ ext \in {"live", "hungup", "moved", "left"} /\ booked \in [Compliance -> Nat]
  /\ acked \in {"none"} \cup Compliance /\ history \in {"none", "open", "final"}
  /\ crashes \in 0..MaxCrashes

\* What is believed done is done: a session or a row that says a DNC or a callback is committed
\* says so only of a request the dialer has recorded, whatever was lost, retried or replaced.
CommittedIsApplied ==
  /\ \A o \in Objects : sess[o].label \in Compliance /\ sess[o].committed => booked[sess[o].label] > 0
  /\ \A k \in Compliance :
       rows[k].status = "completed" \/ (Pending(k) /\ rows[k].done) => booked[k] > 0

\* A DNC or callback acknowledged to the caller is at the dialer or in a row that will be retried,
\* through failed databases, lost replies, replacements, transfers and engine stops.
AckedIsDurable == acked # "none" => booked[acked] > 0 \/ Pending(acked)

\* A retry after a lost reply does not schedule the same callback twice.
NoDuplicateCallback == \A b \in Callbacks : booked[b] <= 1

\* The engine ends or transfers a call it still has in memory only after the compliance request
\* acknowledged on it is recorded at the dialer.
LiveComplianceFirst ==
  turn.at = "control" /\ turn.obj = "live" /\ acked # "none" => booked[acked] > 0

\* The worker closes the row of a call whose session is gone only when the history stored for
\* that call no longer shows it unfinished.
CloseAfterHistory ==
  [][\A k \in Rows : Pending(k) /\ rows'[k].status = "completed" /\ turn.obj = "rebuilt"
                       => history' # "open"]_vars

\* What _finalize_vicidial_call says it establishes before terminal control: when the terminal
\* request counts as retained, a pending row carries it.
OwnerRetained ==
  turn.kept => \E k \in Rows : Pending(k) /\ rows[k].term # "none"

-----------------------------------------------------------------------------
\* What the retry loop and the lock give: the pass comes back, the lock (asyncio.Lock is fair) is
\* granted, and a dialer and a database asked again and again answer at last.
WorkerReplayed == WorkerReplay /\ turn'.at = "session"
WorkerEnds == (WorkerEndLive \/ WorkerEndRebuilt) /\ turn'.at = "close"
WorkerClosed == WorkerClose /\ rows' # rows
Confirmed == turn.by = "worker" /\ (HangupControl \/ Reconcile) /\ turn'.sure

HolderStep ==
  \/ TransferControl \/ WorkflowDone \/ WorkflowApplied \/ WorkflowFailed \/ HangupControl \/ Reconcile
  \/ FinalizeEnd \/ WorkerReplay \/ WorkerRebuild \/ WorkerResume \/ WorkerPass
  \/ WorkerEndLive \/ WorkerEndRebuilt \/ WorkerClose

Fairness ==
  /\ WF_vars(HolderStep) /\ SF_vars(WorkerTake) /\ \A k \in Rows : SF_vars(WorkerList(k))
  /\ SF_vars(WorkerReplayed) /\ SF_vars(Confirmed) /\ SF_vars(WorkerEnds) /\ SF_vars(WorkerClosed)

FairSpec == Spec /\ Fairness

\* Every retained row is worked off in the end, whatever fails on the way, unless the call was
\* moved by a transfer whose row could not be closed.
Drains == \A k \in Rows : Pending(k) ~> ~Pending(k) \/ ext = "moved"
=============================================================================
