--------------------- MODULE VicidialFinalizationProofs ---------------------
(***************************************************************************)
(* Proofs about VicidialFinalization, for any set of callbacks and sales   *)
(* and any number of engine stops.  The inductive invariant says what a    *)
(* session, the outbox and the holder of the lock may believe: each part   *)
(* is an operator on the data, so that what the outbox helpers preserve is *)
(* proved once.                                                            *)
(***************************************************************************)
EXTENDS VicidialFinalization, TLAPS

Honest(s, bk) == s.label \in Compliance /\ s.committed => bk[s.label] > 0
Tied(s) == s.qid \in Compliance => s.qid = s.label
RowsHonest(rs, bk) ==
  /\ \A k \in Compliance :
       rs[k].status = "completed" \/ (rs[k].status = "pending" /\ rs[k].done) => bk[k] > 0
  /\ rs["terminal"].term \in Compliance => bk[rs["terminal"].term] > 0

Beliefs ==
  /\ \A o \in Objects : Honest(sess[o], booked) /\ Tied(sess[o])
  /\ RowsHonest(rows, booked)

\* The holder of the lock: terminal control only of an owned disposition, the worker's row done.
HolderOK ==
  /\ turn.by = "none" => turn = Free
  /\ turn.by \in {"hangup", "cleanup", "transfer"} =>
       turn.obj = "live" /\ turn.at \in {"workflow", "control", "reconcile", "finish"}
  /\ turn.by \in {"hangup", "cleanup"} => turn.sem \in Semantics
  /\ turn.by = "worker" => listed # "none"
  /\ turn.at = "replay" => rows[listed].status = "pending"
  /\ turn.obj = "rebuilt" => turn.by = "worker" /\ turn.at \notin {"replay", "session"}
  /\ turn.by = "cleanup" => cleanup = "waiting"
  /\ turn.at \in {"control", "reconcile"} \/ turn.sure => ~Unowned(sess[turn.obj])
  /\ turn.by = "worker" /\ turn.at # "replay" /\ listed \in Compliance => booked[listed] > 0
  /\ turn.by = "worker" /\ turn.at = "workflow" => ~Unowned(sess[turn.obj])

\* A rebuilt session is worked on only after the cleanup, and its row closes after its history.
RebuiltOK ==
  /\ stored # "live" => cleanup = "done"
  /\ turn.obj = "rebuilt" => cleanup = "done"
  /\ turn.obj = "rebuilt" /\ turn.at = "close" => history # "open"

\* While the engine has not stopped the selected label is the acknowledged one.
LabelOK ==
  /\ acked # "none" /\ crashes = 0 => sess["live"].label = acked
  /\ crashes > 0 => /\ stored # "live" /\ ~asked /\ cleanup = "done"
                    /\ turn.at \in {"workflow", "control", "reconcile", "finish"} => turn.obj = "rebuilt"

IInv == TypeOK /\ Beliefs /\ HolderOK /\ RebuiltOK /\ LabelOK /\ AckedIsDurable /\ NoDuplicateCallback
USE NamesAssumption

-----------------------------------------------------------------------------
(* What the outbox helpers do to a session and to the rows.                *)

LEMMA NamesHold ==
    /\ Compliance \subseteq Rows /\ "terminal" \in Rows /\ "terminal" \notin Compliance
    /\ "none" \notin Compliance /\ "none" \notin Rows /\ "none" \in Labels
    /\ Semantics \subseteq Labels /\ Semantics \cap Compliance = {} /\ "none" \notin Semantics
    /\ Compliance \subseteq Labels /\ Sales \subseteq Labels /\ Sales \cap Compliance = {}
    /\ "none" \notin Sales
BY DEF Compliance, Rows, Labels, Semantics

LEMMA EnqueueDoes ==
    ASSUME NEW rs \in [Rows -> RowType], NEW k \in Rows, NEW t \in Labels
    PROVE  LET r == Enqueue(rs, k, t) IN
           /\ r \in [Rows -> RowType]
           /\ \A j \in Rows \ {k} : r[j] = rs[j]
           /\ r[k].term = t
           /\ rs[k].status \in {"pending", "completed"} =>
                r[k].status = rs[k].status /\ r[k].done = rs[k].done
           /\ rs[k].status \notin {"pending", "completed"} =>
                r[k].status = "pending" /\ ~r[k].done
BY DEF Enqueue, RowType

\* A session queued for its own request stays honest, and the request is then pending or applied.
LEMMA QueueDoes ==
    ASSUME NEW rs \in [Rows -> RowType], NEW s \in SessionType, NEW t \in Labels,
           NEW bk \in [Compliance -> Nat], s.label \in Compliance,
           Honest(s, bk), Tied(s), RowsHonest(rs, bk)
    PROVE  LET q == QueueWorkflow(s, rs, t) IN
           /\ q.obj \in SessionType /\ q.rows \in [Rows -> RowType]
           /\ Honest(q.obj, bk) /\ Tied(q.obj) /\ RowsHonest(q.rows, bk)
           /\ q.obj.label = s.label /\ q.obj.finalized = s.finalized
           /\ q.obj.finalizing = s.finalizing
           /\ \A k \in Rows : rs[k].status = "pending" => q.rows[k].status = "pending"
           /\ q.rows[s.label].status = "pending" \/ bk[s.label] > 0
<1> DEFINE q == QueueWorkflow(s, rs, t)
           r == Enqueue(rs, s.label, t)
<1>1. s.label \in Rows /\ s.label # "terminal" BY NamesHold
<1>2. /\ r \in [Rows -> RowType]
      /\ \A j \in Rows \ {s.label} : r[j] = rs[j]
      /\ rs[s.label].status \in {"pending", "completed"} =>
           r[s.label].status = rs[s.label].status /\ r[s.label].done = rs[s.label].done
      /\ rs[s.label].status \notin {"pending", "completed"} =>
           r[s.label].status = "pending" /\ ~r[s.label].done
    BY <1>1, EnqueueDoes
<1>3. q.rows = r
      /\ q.obj = IF r[s.label].status = "completed" THEN [s EXCEPT !.committed = TRUE]
                                                    ELSE [s EXCEPT !.qid = s.label]
    BY DEF QueueWorkflow
<1> HIDE DEF q, r
<1>4. RowsHonest(r, bk) BY <1>1, <1>2, NamesHold DEF RowsHonest
<1>5. r[s.label].status = "completed" => bk[s.label] > 0 BY <1>4 DEF RowsHonest
<1>6. q.obj \in SessionType /\ q.obj.label = s.label /\ q.obj.finalized = s.finalized
      /\ q.obj.finalizing = s.finalizing
    BY ZenonT(60), <1>1, <1>3 DEF SessionType
<1>7. Honest(q.obj, bk) /\ Tied(q.obj) BY <1>1, <1>3, <1>5 DEF SessionType, Honest, Tied
<1>8. \A k \in Rows : rs[k].status = "pending" => r[k].status = "pending" BY <1>1, <1>2
<1>9. r[s.label].status = "pending" \/ bk[s.label] > 0 BY <1>1, <1>2, <1>5 DEF RowType
<1>10. QED BY <1>2, <1>3, <1>4, <1>6, <1>7, <1>8, <1>9 DEF q

\* What retaining the terminal request leaves of the session and the rows.
Kept(s, rs, sem, bk, r) ==
    /\ r.obj \in SessionType /\ r.rows \in [Rows -> RowType] /\ r.kept \in BOOLEAN
    /\ Honest(r.obj, bk) /\ Tied(r.obj) /\ RowsHonest(r.rows, bk)
    /\ r.obj.label = s.label \/ (s.label = "none" /\ r.obj.label = sem)
    /\ r.obj.finalized = s.finalized /\ r.obj.finalizing = s.finalizing
    /\ \A k \in Rows : rs[k].status = "pending" => r.rows[k].status = "pending"

LEMMA QueueTerminalDoes ==
    ASSUME NEW rs \in [Rows -> RowType], NEW s \in SessionType, NEW sem \in Semantics,
           NEW bk \in [Compliance -> Nat], NEW db \in BOOLEAN, ~Unowned(s),
           Honest(s, bk), Tied(s), RowsHonest(rs, bk)
    PROVE  Kept(s, rs, sem, bk, QueueTerminal(s, rs, sem, db))
<1> DEFINE label == IF s.label = "none" THEN sem ELSE s.label
           r == Enqueue(rs, "terminal", label)
           o == [s EXCEPT !.label = label, !.committed = TRUE, !.qid = "terminal"]
<1>1. label \in Labels /\ (label \in Compliance => s.label = label /\ bk[label] > 0)
    BY NamesHold DEF SessionType, Unowned, Honest
<1> HIDE DEF label
<1>2. /\ r \in [Rows -> RowType]
      /\ \A j \in Rows \ {"terminal"} : r[j] = rs[j]
      /\ r["terminal"].term = label
      /\ rs["terminal"].status = "pending" => r["terminal"].status = "pending"
    BY <1>1, NamesHold, EnqueueDoes
<1> HIDE DEF r
<1>3. RowsHonest(r, bk) BY <1>1, <1>2, NamesHold DEF RowsHonest
<1>4. o \in SessionType /\ Honest(o, bk) /\ Tied(o) /\ o.label = label
      /\ o.finalized = s.finalized /\ o.finalizing = s.finalizing
    BY <1>1, NamesHold DEF SessionType, Honest, Tied
<1>5. label = s.label \/ (s.label = "none" /\ label = sem) BY DEF label
<1>6. CASE db
  <2>1. QueueTerminal(s, rs, sem, db) = [obj |-> o, rows |-> r, kept |-> TRUE]
      BY <1>6 DEF QueueTerminal, r, label
  <2> HIDE DEF o
  <2>2. QED BY <2>1, <1>2, <1>3, <1>4, <1>5, NamesHold DEF Kept
<1>7. CASE ~db
  <2>1. QueueTerminal(s, rs, sem, db) = [obj |-> s, rows |-> rs, kept |-> FALSE]
      BY <1>7 DEF QueueTerminal
  <2>2. QED BY <2>1 DEF Kept
<1>8. QED BY <1>6, <1>7

LEMMA RetainDoes ==
    ASSUME NEW rs \in [Rows -> RowType], NEW s \in SessionType, NEW sem \in Semantics,
           NEW bk \in [Compliance -> Nat],
           NEW enq \in BOOLEAN, NEW seen \in BOOLEAN, NEW db \in BOOLEAN,
           Honest(s, bk), Tied(s), RowsHonest(rs, bk)
    PROVE  Kept(s, rs, sem, bk, Retain(s, rs, sem, enq, seen, db))
<1> DEFINE q == IF enq THEN QueueWorkflow(s, rs, sem) ELSE [obj |-> s, rows |-> rs]
           owned == /\ seen /\ q.obj.qid # "none"
                    /\ q.rows[q.obj.qid].status = "pending" /\ q.rows[q.obj.qid].term # "none"
<1>1. CASE ~Unowned(s)
    BY <1>1, QueueTerminalDoes DEF Retain
<1>2. CASE Unowned(s)
  <2>1. /\ q.obj \in SessionType /\ q.rows \in [Rows -> RowType]
        /\ Honest(q.obj, bk) /\ Tied(q.obj) /\ RowsHonest(q.rows, bk)
        /\ q.obj.label = s.label /\ q.obj.finalized = s.finalized /\ q.obj.finalizing = s.finalizing
        /\ \A k \in Rows : rs[k].status = "pending" => q.rows[k].status = "pending"
      BY <1>2, QueueDoes, NamesHold DEF Unowned
  <2>2. Retain(s, rs, sem, enq, seen, db) =
          IF owned THEN [obj |-> q.obj, rows |-> q.rows, kept |-> TRUE]
          ELSE IF ~q.obj.committed THEN [obj |-> q.obj, rows |-> q.rows, kept |-> FALSE]
          ELSE QueueTerminal(q.obj, q.rows, sem, db)
      BY <1>2 DEF Retain
  <2> HIDE DEF q, owned
  <2>3. ASSUME NEW kept \in BOOLEAN,
               Retain(s, rs, sem, enq, seen, db) = [obj |-> q.obj, rows |-> q.rows, kept |-> kept]
        PROVE  Kept(s, rs, sem, bk, Retain(s, rs, sem, enq, seen, db))
      BY <2>1, <2>3 DEF Kept
  <2>4. CASE ~owned /\ q.obj.committed
    <3>1. Kept(q.obj, q.rows, sem, bk, QueueTerminal(q.obj, q.rows, sem, db))
        BY <2>1, <2>4, QueueTerminalDoes DEF Unowned
    <3>2. QED BY <3>1, <2>1, <2>2, <2>4 DEF Kept
  <2>5. CASE owned BY <2>2, <2>3, <2>5
  <2>6. CASE ~owned /\ ~q.obj.committed BY <2>2, <2>3, <2>6
  <2>7. QED BY <2>4, <2>5, <2>6
<1>3. QED BY <1>1, <1>2
-----------------------------------------------------------------------------
(* The dialer only gains requests, and a row closes only where it may.     *)

LEMMA RequestDoes ==
    ASSUME TypeOK, NEW k \in Compliance, NEW ok \in BOOLEAN, Request(k, ok)
    PROVE  /\ booked' \in [Compliance -> Nat]
           /\ \A j \in Compliance : booked[j] > 0 => booked'[j] > 0
           /\ \A j \in Compliance : booked[j] <= 1 => booked'[j] <= 1
           /\ ok => booked'[k] > 0
BY DEF Request, TypeOK

LEMMA HonestyLasts ==
    ASSUME NEW bk \in [Compliance -> Nat], NEW ck \in [Compliance -> Nat],
           \A j \in Compliance : bk[j] > 0 => ck[j] > 0
    PROVE  /\ \A s \in SessionType : Honest(s, bk) => Honest(s, ck)
           /\ \A rs \in [Rows -> RowType] : RowsHonest(rs, bk) => RowsHonest(rs, ck)
BY DEF Honest, RowsHonest

LEMMA CompleteDoes ==
    ASSUME TypeOK, RowsHonest(rows, booked), NEW k \in Rows \cup {"none"}, Complete(k),
           k \in Compliance => booked[k] > 0
    PROVE  /\ rows' \in [Rows -> RowType] /\ RowsHonest(rows', booked)
           /\ \A j \in Rows : Pending(j) => rows'[j].status = "pending" \/ j = k
<1>1. CASE rows' = rows BY <1>1 DEF TypeOK, Pending
<1>2. CASE k # "none" /\ Pending(k) /\ rows' = [rows EXCEPT ![k].status = "completed"]
  <2>1. rows' \in [Rows -> RowType] BY <1>2 DEF TypeOK, RowType
  <2>2. \A j \in Rows : j # k => rows'[j] = rows[j] BY <1>2 DEF TypeOK
  <2>3. rows'[k].term = rows[k].term BY <1>2 DEF TypeOK, RowType
  <2>4. RowsHonest(rows', booked) BY <1>2, <2>1, <2>2, <2>3, NamesHold DEF RowsHonest
  <2>5. QED BY <2>1, <2>2, <2>4 DEF Pending
<1>3. QED BY <1>1, <1>2 DEF Complete

\* The row a session points at closes only after the request it is for.
LEMMA TiedIsApplied ==
    ASSUME NEW s \in SessionType, NEW bk \in [Compliance -> Nat], Honest(s, bk), Tied(s), ~Unowned(s)
    PROVE  s.qid \in Compliance => bk[s.qid] > 0
BY DEF Honest, Tied, Unowned

-----------------------------------------------------------------------------
(* The inductive invariant.                                                *)

LEMMA InitHolds == Init => IInv
<1> SUFFICES ASSUME Init PROVE IInv OBVIOUS
<1>1. NewSession \in SessionType /\ \A bk : Honest(NewSession, bk) /\ Tied(NewSession)
    BY NamesHold DEF NewSession, SessionType, Honest, Tied
<1>2. Free \in TurnType /\ Absent \in RowType BY NamesHold DEF Free, TurnType, Objects, Absent, RowType
<1>3. TypeOK
  <2>1. 0 \in 0..MaxCrashes BY NamesAssumption
  <2>2. QED BY <1>1, <1>2, <2>1 DEF Init, TypeOK, Objects
<1>4. Beliefs BY <1>1, NamesHold DEF Init, Beliefs, RowsHonest, Absent
<1>5. HolderOK /\ RebuiltOK /\ LabelOK BY DEF Init, HolderOK, RebuiltOK, LabelOK, Free
<1>6. AckedIsDurable /\ NoDuplicateCallback BY DEF Init, AckedIsDurable, NoDuplicateCallback, Compliance
<1>7. QED BY <1>3, <1>4, <1>5, <1>6 DEF IInv

LEMMA CustomerLeavesHolds == ASSUME IInv, CustomerLeaves PROVE IInv'
BY NamesHold DEF IInv, TypeOK, Beliefs, HolderOK, RebuiltOK, LabelOK, AckedIsDurable,
   NoDuplicateCallback, Pending, Unowned, Objects, TurnType, CustomerLeaves

LEMMA TransferBeginHolds == ASSUME IInv, TransferBegin PROVE IInv'
<1>1. turn' \in TurnType /\ turn'.by = "transfer" /\ turn'.at = "workflow" /\ turn'.obj = "live" /\ turn'.sem = "none" /\ turn'.kept = FALSE /\ turn'.sure = FALSE
    BY NamesHold DEF IInv, TypeOK, TurnType, Objects, Free, TransferBegin
<1>2. TypeOK' BY <1>1 DEF IInv, TypeOK, Objects, TransferBegin
<1>3. Beliefs' BY DEF IInv, Beliefs, TransferBegin
<1>4. HolderOK' BY <1>1 DEF IInv, TypeOK, HolderOK, Unowned, Free, TransferBegin
<1>5. RebuiltOK' BY <1>1 DEF IInv, RebuiltOK, HolderOK, Free, TransferBegin
<1>6. LabelOK' BY <1>1 DEF IInv, LabelOK, HolderOK, TypeOK, TransferBegin
<1>7. AckedIsDurable' /\ NoDuplicateCallback' BY DEF IInv, AckedIsDurable, NoDuplicateCallback, Pending, TransferBegin
<1>8. QED BY <1>2, <1>3, <1>4, <1>5, <1>6, <1>7 DEF IInv

LEMMA AskHangupHolds == ASSUME IInv, AskHangup PROVE IInv'
BY NamesHold DEF IInv, TypeOK, Beliefs, HolderOK, RebuiltOK, LabelOK, AckedIsDurable,
   NoDuplicateCallback, Pending, Unowned, Objects, TurnType, AskHangup

LEMMA FinalizeSkipHolds == ASSUME IInv, NEW who \in {"hangup", "cleanup"}, FinalizeSkip(who) PROVE IInv'
<1>1. turn' = turn
    BY NamesHold DEF IInv, TypeOK, TurnType, Objects, Free, FinalizeSkip, Waits, Resume
<1>2. TypeOK' BY <1>1 DEF IInv, TypeOK, Objects, FinalizeSkip, Waits, Resume
<1>3. Beliefs' BY DEF IInv, Beliefs, FinalizeSkip, Waits, Resume
<1>4. HolderOK' BY <1>1 DEF IInv, TypeOK, HolderOK, Unowned, Free, FinalizeSkip, Waits, Resume
<1>5. RebuiltOK' BY <1>1 DEF IInv, RebuiltOK, HolderOK, Free, FinalizeSkip, Waits, Resume
<1>6. LabelOK' BY <1>1 DEF IInv, LabelOK, HolderOK, TypeOK, FinalizeSkip, Waits, Resume
<1>7. AckedIsDurable' /\ NoDuplicateCallback' BY DEF IInv, AckedIsDurable, NoDuplicateCallback, Pending, FinalizeSkip, Waits, Resume
<1>8. QED BY <1>2, <1>3, <1>4, <1>5, <1>6, <1>7 DEF IInv

LEMMA WorkflowDoneHolds == ASSUME IInv, WorkflowDone PROVE IInv'
<1>1. turn' \in TurnType /\ turn'.by = turn.by /\ turn'.at = "control" /\ turn'.obj = turn.obj /\ turn'.sem = turn.sem /\ turn'.kept = turn.kept /\ turn'.sure = turn.sure
    BY NamesHold DEF IInv, TypeOK, TurnType, Objects, Free, WorkflowDone
<1>2. TypeOK' BY <1>1 DEF IInv, TypeOK, Objects, WorkflowDone
<1>3. Beliefs' BY DEF IInv, Beliefs, WorkflowDone
<1>4. HolderOK' BY <1>1 DEF IInv, TypeOK, HolderOK, Unowned, Free, WorkflowDone
<1>5. RebuiltOK' BY <1>1 DEF IInv, RebuiltOK, HolderOK, Free, WorkflowDone
<1>6. LabelOK' BY <1>1 DEF IInv, LabelOK, HolderOK, TypeOK, WorkflowDone
<1>7. AckedIsDurable' /\ NoDuplicateCallback' BY DEF IInv, AckedIsDurable, NoDuplicateCallback, Pending, WorkflowDone
<1>8. QED BY <1>2, <1>3, <1>4, <1>5, <1>6, <1>7 DEF IInv

LEMMA HangupControlHolds == ASSUME IInv, HangupControl PROVE IInv'
<1>1. turn' \in TurnType /\ turn'.at \in {"finish", "reconcile"} /\ turn'.by = turn.by /\ turn'.obj = turn.obj /\ turn'.sem = turn.sem
    BY NamesHold DEF IInv, TypeOK, TurnType, Objects, Free, HangupControl, Control
<1>2. TypeOK' BY <1>1 DEF IInv, TypeOK, Objects, HangupControl, Control
<1>3. Beliefs' BY DEF IInv, Beliefs, HangupControl, Control
<1>4. HolderOK' BY <1>1 DEF IInv, TypeOK, HolderOK, Unowned, Free, HangupControl, Control
<1>5. RebuiltOK' BY <1>1 DEF IInv, RebuiltOK, HolderOK, Free, HangupControl, Control
<1>6. LabelOK' BY <1>1 DEF IInv, LabelOK, HolderOK, TypeOK, HangupControl, Control
<1>7. AckedIsDurable' /\ NoDuplicateCallback' BY DEF IInv, AckedIsDurable, NoDuplicateCallback, Pending, HangupControl, Control
<1>8. QED BY <1>2, <1>3, <1>4, <1>5, <1>6, <1>7 DEF IInv

LEMMA ReconcileHolds == ASSUME IInv, Reconcile PROVE IInv'
<1>1. turn' \in TurnType /\ turn'.at = "finish" /\ turn'.by = turn.by /\ turn'.obj = turn.obj /\ turn'.sem = turn.sem
    BY NamesHold DEF IInv, TypeOK, TurnType, Objects, Free, Reconcile
<1>2. TypeOK' BY <1>1 DEF IInv, TypeOK, Objects, Reconcile
<1>3. Beliefs' BY DEF IInv, Beliefs, Reconcile
<1>4. HolderOK' BY <1>1 DEF IInv, TypeOK, HolderOK, Unowned, Free, Reconcile
<1>5. RebuiltOK' BY <1>1 DEF IInv, RebuiltOK, HolderOK, Free, Reconcile
<1>6. LabelOK' BY <1>1 DEF IInv, LabelOK, HolderOK, TypeOK, Reconcile
<1>7. AckedIsDurable' /\ NoDuplicateCallback' BY DEF IInv, AckedIsDurable, NoDuplicateCallback, Pending, Reconcile
<1>8. QED BY <1>2, <1>3, <1>4, <1>5, <1>6, <1>7 DEF IInv

LEMMA CleanupBeginHolds == ASSUME IInv, CleanupBegin PROVE IInv'
BY NamesHold DEF IInv, TypeOK, Beliefs, HolderOK, RebuiltOK, LabelOK, AckedIsDurable,
   NoDuplicateCallback, Pending, Unowned, Objects, TurnType, CleanupBegin

LEMMA CleanupHistoryHolds == ASSUME IInv, CleanupHistory PROVE IInv'
BY NamesHold DEF IInv, TypeOK, Beliefs, HolderOK, RebuiltOK, LabelOK, AckedIsDurable,
   NoDuplicateCallback, Pending, Unowned, Objects, TurnType, CleanupHistory

LEMMA CleanupRemoveHolds == ASSUME IInv, CleanupRemove PROVE IInv'
BY NamesHold DEF IInv, TypeOK, Beliefs, HolderOK, RebuiltOK, LabelOK, AckedIsDurable,
   NoDuplicateCallback, Pending, Unowned, Objects, TurnType, CleanupRemove

LEMMA WorkerListHolds == ASSUME IInv, NEW k \in Rows, WorkerList(k) PROVE IInv'
BY NamesHold DEF IInv, TypeOK, Beliefs, HolderOK, RebuiltOK, LabelOK, AckedIsDurable,
   NoDuplicateCallback, Pending, Unowned, Objects, TurnType, WorkerList

LEMMA WorkerTakeHolds == ASSUME IInv, WorkerTake PROVE IInv'
<1>1. turn = Free /\ (turn' = Free \/ (turn' \in TurnType /\ turn'.by = "worker" /\ turn'.at = "replay" /\ turn'.obj = "live" /\ turn'.sem = "none" /\ turn'.kept = FALSE /\ turn'.sure = FALSE))
  <2>. DEFINE named == [Free EXCEPT !.by = "worker"]
              taken == [named EXCEPT !.at = "replay"]
  <2>1. turn = Free /\ (turn' = Free \/ turn' = taken)
    BY DEF WorkerTake
  <2>2. Free \in TurnType /\ Free.obj = "live" /\ Free.sem = "none" /\ Free.kept = FALSE /\ Free.sure = FALSE
    BY NamesHold DEF Free, TurnType, Objects
  <2>3. named \in TurnType /\ named.by = "worker" /\ named.obj = "live" /\ named.sem = "none" /\ named.kept = FALSE /\ named.sure = FALSE
    BY <2>2 DEF TurnType
  <2>. HIDE DEF named
  <2>4. taken \in TurnType /\ taken.by = "worker" /\ taken.at = "replay" /\ taken.obj = "live" /\ taken.sem = "none" /\ taken.kept = FALSE /\ taken.sure = FALSE
    BY <2>3 DEF TurnType
  <2>. HIDE DEF taken
  <2>5. QED
    BY <2>1, <2>4
<1>2. TypeOK' BY <1>1 DEF IInv, TypeOK, Objects, WorkerTake, Runnable
<1>3. Beliefs' BY DEF IInv, Beliefs, WorkerTake, Runnable
<1>4. HolderOK' BY <1>1 DEF IInv, TypeOK, HolderOK, Unowned, Free, WorkerTake, Runnable, Pending
<1>5. RebuiltOK' BY <1>1 DEF IInv, RebuiltOK, HolderOK, Free, WorkerTake, Runnable
<1>6. LabelOK' BY <1>1 DEF IInv, LabelOK, HolderOK, TypeOK, WorkerTake, Runnable
<1>7. AckedIsDurable' /\ NoDuplicateCallback' BY DEF IInv, AckedIsDurable, NoDuplicateCallback, Pending, WorkerTake, Runnable
<1>8. QED BY <1>2, <1>3, <1>4, <1>5, <1>6, <1>7 DEF IInv

LEMMA WorkerPassHolds == ASSUME IInv, WorkerPass PROVE IInv'
<1>1. turn' \in TurnType /\ turn'.by = turn.by /\ turn'.at = "close" /\ turn'.obj = turn.obj /\ turn'.sem = turn.sem /\ turn'.kept = turn.kept /\ turn'.sure = turn.sure
    BY NamesHold DEF IInv, TypeOK, TurnType, Objects, Free, WorkerPass
<1>2. TypeOK' BY <1>1 DEF IInv, TypeOK, Objects, WorkerPass
<1>3. Beliefs' BY DEF IInv, Beliefs, WorkerPass
<1>4. HolderOK' BY <1>1 DEF IInv, TypeOK, HolderOK, Unowned, Free, WorkerPass
<1>5. RebuiltOK' BY <1>1 DEF IInv, RebuiltOK, HolderOK, Free, WorkerPass
<1>6. LabelOK' BY <1>1 DEF IInv, LabelOK, HolderOK, TypeOK, WorkerPass
<1>7. AckedIsDurable' /\ NoDuplicateCallback' BY DEF IInv, AckedIsDurable, NoDuplicateCallback, Pending, WorkerPass
<1>8. QED BY <1>2, <1>3, <1>4, <1>5, <1>6, <1>7 DEF IInv

LEMMA CrashHolds == ASSUME IInv, Crash PROVE IInv'
<1>1. NewSession \in SessionType /\ \A bk : Honest(NewSession, bk) /\ Tied(NewSession)
    BY NamesHold DEF NewSession, SessionType, Honest, Tied
<1>2. Free \in TurnType BY NamesHold DEF Free, TurnType, Objects
<1>3. TypeOK'
  <2>1. crashes' \in 0..MaxCrashes BY NamesAssumption DEF IInv, TypeOK, Crash
  <2>2. QED BY <1>1, <1>2, <2>1 DEF IInv, TypeOK, Crash
<1>4. Beliefs' BY <1>1 DEF IInv, Beliefs, Crash
<1>5. HolderOK' /\ RebuiltOK' /\ LabelOK' BY NamesHold DEF IInv, HolderOK, RebuiltOK, LabelOK, TypeOK, Crash, Free, NewSession, Unowned, Objects
<1>6. AckedIsDurable' /\ NoDuplicateCallback' BY DEF IInv, AckedIsDurable, NoDuplicateCallback, Pending, Crash
<1>7. QED BY <1>3, <1>4, <1>5, <1>6 DEF IInv

LEMMA TransferControlHolds == ASSUME IInv, TransferControl PROVE IInv'
<1>1. Free \in TurnType /\ Free.by = "none" /\ Free.obj = "live" /\ Free.at = "none" /\ ~Free.sure
    BY NamesHold DEF Free, TurnType, Objects
<1>2. turn' = Free /\ stored' = "live" /\ booked' = booked BY DEF TransferControl
<1>3. sess["live"] \in SessionType /\ Honest(sess["live"], booked) /\ Tied(sess["live"])
      /\ ~Unowned(sess["live"]) /\ turn.obj = "live"
    BY DEF IInv, TypeOK, Beliefs, HolderOK, TransferControl, Objects
<1>4. PICK ok \in BOOLEAN :
        /\ Control("moved", ok)
        /\ sess' = [sess EXCEPT !["live"].finalized = @ \/ ok]
        /\ IF ok THEN Complete(sess["live"].qid) ELSE rows' = rows
    BY DEF TransferControl
<1> DEFINE t == [sess["live"] EXCEPT !.finalized = @ \/ ok]
<1>5. t \in SessionType /\ t.label = sess["live"].label
      /\ t.committed = sess["live"].committed /\ t.qid = sess["live"].qid
    BY <1>3 DEF SessionType
<1>6. sess' = [sess EXCEPT !["live"] = t] BY <1>4 DEF IInv, TypeOK
<1> HIDE DEF t
<1>7. sess["live"].qid \in Rows \cup {"none"} /\ RowsHonest(rows, booked) /\ booked \in [Compliance -> Nat]
      /\ TypeOK
    BY <1>3 DEF SessionType, IInv, Beliefs, TypeOK
<1>8. sess["live"].qid \in Compliance => booked[sess["live"].qid] > 0
    BY <1>3, <1>7, TiedIsApplied
<1>9. /\ rows' \in [Rows -> RowType] /\ RowsHonest(rows', booked)
      /\ \A j \in Rows : Pending(j) => rows'[j].status = "pending" \/ j = sess["live"].qid
    BY <1>4, <1>7, <1>8, CompleteDoes DEF TypeOK, Pending
<1>10. TypeOK'
    BY <1>1, <1>2, <1>4, <1>5, <1>6, <1>9 DEF IInv, TypeOK, TransferControl, Control, Objects
<1>11. Beliefs' BY <1>2, <1>3, <1>5, <1>6, <1>9 DEF IInv, TypeOK, Beliefs, Honest, Tied, Objects
<1>12. HolderOK' BY <1>1, <1>2 DEF HolderOK
<1>13. RebuiltOK' BY <1>1, <1>2 DEF RebuiltOK
<1>14. LabelOK' BY <1>1, <1>2, <1>5, <1>6 DEF IInv, TypeOK, LabelOK, HolderOK, TransferControl, Objects
<1>15. AckedIsDurable' /\ NoDuplicateCallback'
    BY <1>8, <1>9, NamesHold DEF IInv, TypeOK, AckedIsDurable, NoDuplicateCallback, Pending, TransferControl, Compliance
<1>16. QED BY <1>10, <1>11, <1>12, <1>13, <1>14, <1>15 DEF IInv

LEMMA FinalizeBeginHolds ==
    ASSUME IInv, NEW who \in {"hangup", "cleanup"}, FinalizeBegin(who) PROVE IInv'
<1> DEFINE s == sess["live"]
           sem == IF who = "hangup" THEN "ai_hangup" ELSE "caller_hangup"
<1>1. s \in SessionType /\ Honest(s, booked) /\ Tied(s) /\ RowsHonest(rows, booked)
      /\ rows \in [Rows -> RowType] /\ booked \in [Compliance -> Nat] /\ sem \in Semantics
    BY DEF IInv, TypeOK, Beliefs, Objects, Semantics
<1>2. PICK enq \in BOOLEAN, seen \in BOOLEAN, db \in BOOLEAN :
        LET r == Retain(s, rows, sem, enq, seen, db) IN
        /\ sess' = [sess EXCEPT !["live"] = [r.obj EXCEPT !.finalizing = TRUE]]
        /\ rows' = r.rows
        /\ turn' = [Free EXCEPT !.by = who, !.at = "workflow", !.sem = sem, !.kept = r.kept]
    BY DEF FinalizeBegin
<1> DEFINE r == Retain(s, rows, sem, enq, seen, db)
           t == [r.obj EXCEPT !.finalizing = TRUE]
<1>3. Kept(s, rows, sem, booked, r) BY <1>1, RetainDoes
<1>4. sess' = [sess EXCEPT !["live"] = t] /\ rows' = r.rows BY <1>2
<1>5. turn' \in TurnType /\ turn'.by = who /\ turn'.at = "workflow" /\ turn'.obj = "live" /\ ~turn'.sure
      /\ turn'.sem \in Semantics
    BY <1>1, <1>2, <1>3, NamesHold DEF Free, TurnType, Objects, Kept
<1> HIDE DEF r, s, sem
<1>6. t \in SessionType /\ Honest(t, booked) /\ Tied(t) /\ t.label = r.obj.label
    BY <1>3 DEF Kept, SessionType, Honest, Tied
<1> HIDE DEF t
<1>7. TypeOK' BY <1>3, <1>4, <1>5, <1>6 DEF IInv, TypeOK, FinalizeBegin, Kept, Objects
<1>8. Beliefs' BY <1>3, <1>4, <1>6 DEF IInv, TypeOK, Beliefs, Kept, FinalizeBegin, Objects
<1>9. HolderOK' BY <1>1, <1>5 DEF HolderOK, FinalizeBegin, Waits
<1>10. RebuiltOK' BY <1>5 DEF IInv, RebuiltOK, FinalizeBegin
<1>11. acked # "none" /\ crashes = 0 => t.label = acked
    BY <1>3, <1>6, NamesHold DEF IInv, LabelOK, Kept, s
<1>12. LabelOK' BY <1>4, <1>5, <1>6, <1>11 DEF IInv, TypeOK, LabelOK, FinalizeBegin, Waits, Objects
<1>13. AckedIsDurable' /\ NoDuplicateCallback'
    BY <1>3, <1>4, NamesHold DEF IInv, TypeOK, AckedIsDurable, NoDuplicateCallback, Pending, FinalizeBegin, Kept
<1>14. QED BY <1>7, <1>8, <1>9, <1>10, <1>12, <1>13 DEF IInv

LEMMA WorkflowAppliedHolds == ASSUME IInv, WorkflowApplied PROVE IInv'
<1> DEFINE o == turn.obj
           s == sess[o]
           t == [s EXCEPT !.committed = TRUE]
<1>1. s \in SessionType /\ o \in Objects /\ Tied(s) /\ Unowned(s) /\ s.label \in Compliance
      /\ Honest(s, booked) /\ TypeOK /\ RowsHonest(rows, booked)
    BY DEF IInv, TypeOK, TurnType, Beliefs, WorkflowApplied, Unowned
<1>2. turn.by \notin {"none", "worker"} /\ o = "live" BY <1>1 DEF IInv, HolderOK, WorkflowApplied, Free, TypeOK, TurnType
<1>3. Request(s.label, TRUE) BY DEF WorkflowApplied
<1>4. /\ booked' \in [Compliance -> Nat]
      /\ \A j \in Compliance : booked[j] > 0 => booked'[j] > 0
      /\ \A j \in Compliance : booked[j] <= 1 => booked'[j] <= 1
      /\ booked'[s.label] > 0
    BY <1>1, <1>3, RequestDoes
<1>5. sess' = [sess EXCEPT !["live"] = t] BY <1>2 DEF WorkflowApplied, IInv, TypeOK
<1>6. turn' \in TurnType /\ turn'.by = turn.by /\ turn'.at = "control" /\ turn'.obj = "live"
      /\ turn'.sure = turn.sure /\ turn'.sem = turn.sem
    BY <1>2 DEF WorkflowApplied, IInv, TypeOK, TurnType
<1>7. t \in SessionType /\ t.label = s.label /\ t.qid = s.qid /\ t.committed
    BY <1>1 DEF SessionType
<1>8. Honest(t, booked') /\ Tied(t) /\ ~Unowned(t)
    BY <1>1, <1>4, <1>7 DEF Honest, Tied, Unowned
<1> HIDE DEF t
<1>9. RowsHonest(rows, booked') BY <1>1, <1>4, HonestyLasts DEF TypeOK
<1>10. /\ rows' \in [Rows -> RowType] /\ RowsHonest(rows', booked')
       /\ \A j \in Rows : Pending(j) => rows'[j].status = "pending"
  <2>1. CASE rows' = rows BY <2>1, <1>9, <1>1 DEF TypeOK, Pending
  <2>2. CASE /\ s.qid # "none" /\ Pending(s.qid)
             /\ rows' = [rows EXCEPT ![s.qid].done = TRUE]
    <3>1. s.qid \in Rows BY <1>1, <2>2 DEF SessionType
    <3> DEFINE q == s.qid
               e == [rows[q] EXCEPT !.done = TRUE]
    <3>a. e \in RowType /\ e.status = rows[q].status /\ e.term = rows[q].term
        BY ZenonT(60), <1>1, <3>1 DEF TypeOK, RowType
    <3>b. rows' = [rows EXCEPT ![q] = e] BY <2>2
    <3> HIDE DEF e, q
    <3>c. q \in Rows BY <3>1 DEF q
    <3>2. rows' \in [Rows -> RowType] /\ (\A j \in Rows : rows'[j].status = rows[j].status
                                              /\ rows'[j].term = rows[j].term)
          /\ \A j \in Rows \ {s.qid} : rows'[j] = rows[j]
        BY <1>1, <3>a, <3>b, <3>c DEF TypeOK, q
    <3>3. s.qid \in Compliance => booked'[s.qid] > 0 BY <1>1, <1>4 DEF Tied
    <3>4. RowsHonest(rows', booked') BY <1>9, <3>1, <3>2, <3>3, NamesHold DEF RowsHonest
    <3>5. QED BY <3>2, <3>4 DEF Pending
  <2>3. QED BY <2>1, <2>2 DEF WorkflowApplied
<1>11. Honest(sess["rebuilt"], booked') BY <1>1, <1>4, HonestyLasts DEF IInv, Beliefs, TypeOK, Objects
<1>12. TypeOK' BY <1>4, <1>5, <1>6, <1>7, <1>10 DEF IInv, TypeOK, WorkflowApplied, Objects
<1>13. Beliefs' BY <1>5, <1>7, <1>8, <1>10, <1>11 DEF IInv, TypeOK, Beliefs, Objects
<1>14. HolderOK'
    BY <1>2, <1>5, <1>6, <1>8 DEF IInv, TypeOK, HolderOK, WorkflowApplied, Objects
<1>15. RebuiltOK' BY <1>6 DEF IInv, RebuiltOK, WorkflowApplied
<1>16. LabelOK' BY <1>2, <1>5, <1>6, <1>7 DEF IInv, TypeOK, LabelOK, WorkflowApplied, Objects
<1>17. AckedIsDurable' /\ NoDuplicateCallback'
    BY <1>4, <1>10, NamesHold DEF IInv, TypeOK, AckedIsDurable, NoDuplicateCallback, Pending, WorkflowApplied, Compliance
<1>18. QED BY <1>12, <1>13, <1>14, <1>15, <1>16, <1>17 DEF IInv

LEMMA WorkflowFailedHolds == ASSUME IInv, WorkflowFailed PROVE IInv'
<1> DEFINE s == sess[turn.obj]
           term == IF turn.by = "transfer" THEN "none" ELSE turn.sem
<1>1. s \in SessionType /\ turn.obj \in Objects /\ Tied(s) /\ Unowned(s) /\ s.label \in Compliance
      /\ Honest(s, booked) /\ TypeOK /\ RowsHonest(rows, booked) /\ term \in Labels
    BY NamesHold DEF IInv, TypeOK, TurnType, Beliefs, WorkflowFailed, Unowned
<1>2. turn.by \in {"hangup", "cleanup", "transfer"} /\ turn.obj = "live" /\ ~turn.sure
    BY <1>1 DEF IInv, HolderOK, WorkflowFailed, Free, TypeOK, TurnType
<1>3. Request(s.label, FALSE) BY DEF WorkflowFailed
<1>4. /\ booked' \in [Compliance -> Nat]
      /\ \A j \in Compliance : booked[j] > 0 => booked'[j] > 0
      /\ \A j \in Compliance : booked[j] <= 1 => booked'[j] <= 1
    BY <1>1, <1>3, RequestDoes
<1>5. Honest(s, booked') /\ RowsHonest(rows, booked') /\ Honest(sess["rebuilt"], booked')
    BY <1>1, <1>4, HonestyLasts DEF IInv, Beliefs, TypeOK, Objects
<1>6. PICK enq \in BOOLEAN :
        LET q == IF enq THEN QueueWorkflow(s, rows, term) ELSE [obj |-> s, rows |-> rows] IN
        /\ sess' = [sess EXCEPT ![turn.obj] = q.obj]
        /\ rows' = q.rows
        /\ turn' = IF q.obj.committed THEN [turn EXCEPT !.at = "control"]
                   ELSE IF turn.by = "transfer" THEN Free
                   ELSE [turn EXCEPT !.at = "finish"]
    BY DEF WorkflowFailed
<1> DEFINE q == IF enq THEN QueueWorkflow(s, rows, term) ELSE [obj |-> s, rows |-> rows]
<1>7. /\ q.obj \in SessionType /\ q.rows \in [Rows -> RowType]
      /\ Honest(q.obj, booked') /\ Tied(q.obj) /\ RowsHonest(q.rows, booked')
      /\ q.obj.label = s.label
      /\ \A k \in Rows : rows[k].status = "pending" => q.rows[k].status = "pending"
  <2>1. CASE enq
    <3>1. rows \in [Rows -> RowType] BY <1>1 DEF TypeOK
    <3>2. q = QueueWorkflow(s, rows, term) BY <2>1
    <3>3. QED BY <3>1, <3>2, <1>1, <1>4, <1>5, QueueDoes
  <2>2. CASE ~enq BY <2>2, <1>1, <1>5 DEF TypeOK
  <2>3. QED BY <2>1, <2>2
<1>8. sess' = [sess EXCEPT !["live"] = q.obj] /\ rows' = q.rows BY <1>2, <1>6
<1>9. turn' \in TurnType /\ turn'.obj = "live" /\ ~turn'.sure
      /\ \/ turn'.by = turn.by /\ turn'.at = "control" /\ q.obj.committed
         \/ turn' = Free /\ turn'.by = "none"
         \/ turn'.by = turn.by /\ turn'.at = "finish"
    BY <1>2, <1>6, NamesHold DEF IInv, TypeOK, TurnType, Free, Objects
<1> HIDE DEF q
<1>10. TypeOK' BY <1>4, <1>7, <1>8, <1>9 DEF IInv, TypeOK, WorkflowFailed, Objects
<1>11. Beliefs' BY <1>5, <1>7, <1>8 DEF IInv, TypeOK, Beliefs, Objects
<1>12. HolderOK'
    BY SMTT(20), <1>2, <1>7, <1>8, <1>9 DEF IInv, TypeOK, HolderOK, WorkflowFailed, Objects, Unowned, Free
<1>13. RebuiltOK' BY <1>9, <1>2 DEF IInv, RebuiltOK, WorkflowFailed
<1>14. LabelOK' BY <1>2, <1>7, <1>8, <1>9 DEF IInv, TypeOK, LabelOK, WorkflowFailed, Objects
<1>15. AckedIsDurable' /\ NoDuplicateCallback'
    BY <1>4, <1>7, <1>8, NamesHold DEF IInv, TypeOK, AckedIsDurable, NoDuplicateCallback, Pending, WorkflowFailed, Compliance
<1>16. QED BY <1>10, <1>11, <1>12, <1>13, <1>14, <1>15 DEF IInv

LEMMA FinalizeEndHolds == ASSUME IInv, FinalizeEnd PROVE IInv'
<1> DEFINE u == sess["live"]
           s == Finished(u)
           Goal(t) ==
             /\ sess' = [sess EXCEPT !["live"] = t] /\ Honest(t, booked) /\ Tied(t)
             /\ t.label = u.label \/ (u.label = "none" /\ t.label \in Semantics)
             /\ rows' \in [Rows -> RowType] /\ RowsHonest(rows', booked)
             /\ \A j \in Compliance : Pending(j) => rows'[j].status = "pending" \/ booked[j] > 0
<1>0. u \in SessionType /\ turn.sure \in BOOLEAN /\ turn.sem \in Semantics /\ turn.obj = "live"
    BY DEF IInv, TypeOK, TurnType, Objects, HolderOK, FinalizeEnd
<1>1. s \in SessionType /\ s.label = u.label /\ s.qid = u.qid /\ s.committed = u.committed
  <2> HIDE DEF u
  <2> QED BY <1>0 DEF Finished, SessionType
<1>2. Honest(s, booked) /\ Tied(s) /\ TypeOK /\ RowsHonest(rows, booked)
    BY <1>1 DEF IInv, Beliefs, Honest, Tied, Objects
<1>3. turn.sure => ~Unowned(s)
    BY <1>0, <1>1 DEF IInv, HolderOK, FinalizeEnd, Unowned
<1> HIDE DEF s
<1>4. \E t \in SessionType : Goal(t)
  <2>1. CASE turn.sure /\ sess' = [sess EXCEPT !["live"] = s]
             /\ IF s.mine THEN rows' = rows ELSE Complete(s.qid)
    <3>1. s.qid \in Rows \cup {"none"} BY <1>1 DEF SessionType
    <3>2. s.qid \in Compliance => booked[s.qid] > 0
        BY <1>1, <1>2, <1>3, <2>1, TiedIsApplied DEF TypeOK
    <3>3. CASE s.mine BY <1>1, <1>2, <2>1, <3>3 DEF TypeOK, Pending
    <3>4. CASE ~s.mine
      <4>1. /\ rows' \in [Rows -> RowType] /\ RowsHonest(rows', booked)
            /\ \A j \in Rows : Pending(j) => rows'[j].status = "pending" \/ j = s.qid
          BY <1>2, <2>1, <3>1, <3>2, <3>4, CompleteDoes
      <4>2. QED BY <1>1, <1>2, <2>1, <3>2, <4>1, NamesHold
    <3>5. QED BY <3>3, <3>4
  <2>2. CASE sess' = [sess EXCEPT !["live"] = s] /\ rows' = rows
      BY <1>1, <1>2, <2>2 DEF TypeOK, Pending
  <2>3. ASSUME NEW enq \in BOOLEAN, NEW seen \in BOOLEAN, NEW db \in BOOLEAN,
               LET r == Retain(s, rows, turn.sem, enq, seen, db) IN
               sess' = [sess EXCEPT !["live"] = r.obj] /\ rows' = r.rows
        PROVE  \E t \in SessionType : Goal(t)
    <3> DEFINE r == Retain(s, rows, turn.sem, enq, seen, db)
    <3>1. Kept(s, rows, turn.sem, booked, r)
        BY <1>0, <1>1, <1>2, RetainDoes DEF TypeOK
    <3>2. sess' = [sess EXCEPT !["live"] = r.obj] /\ rows' = r.rows BY <2>3
    <3> HIDE DEF r, u
    <3>3. r.obj \in SessionType /\ Goal(r.obj)
        BY <1>0, <1>1, <3>1, <3>2, NamesHold DEF Kept, Pending
    <3>4. QED BY <3>3
  <2>4. QED BY <2>1, <2>2, <2>3 DEF FinalizeEnd, s
<1>5. PICK t \in SessionType : Goal(t) BY <1>4
<1> HIDE DEF u
<1>6. turn' = Free /\ stored' = "live" /\ booked' = booked /\ acked' = acked /\ crashes' = crashes
      /\ ext' = ext /\ listed' = listed /\ history' = history
      /\ asked' \in {FALSE, asked} /\ (cleanup' = cleanup \/ (turn.by = "cleanup" /\ cleanup' = "history"))
      /\ (turn.by # "cleanup" => cleanup' = cleanup)
    BY DEF FinalizeEnd, Resume
<1>7. Free \in TurnType BY NamesHold DEF Free, TurnType, Objects
<1>8. TypeOK' BY <1>5, <1>6, <1>7 DEF IInv, TypeOK, Objects
<1>9. Beliefs' BY <1>5, <1>6 DEF IInv, TypeOK, Beliefs, Objects
<1>10. HolderOK' BY <1>6 DEF HolderOK, Free, Unowned
<1>11. crashes = 0 BY <1>0 DEF IInv, TypeOK, LabelOK, FinalizeEnd
<1>12. RebuiltOK' BY <1>6 DEF RebuiltOK, Free
<1>13. LabelOK' BY <1>5, <1>6, <1>11, NamesHold DEF IInv, TypeOK, LabelOK, Objects, u
<1>14. AckedIsDurable' /\ NoDuplicateCallback'
    BY <1>5, <1>6 DEF IInv, TypeOK, AckedIsDurable, NoDuplicateCallback, Pending
<1>15. QED BY <1>8, <1>9, <1>10, <1>12, <1>13, <1>14 DEF IInv

LEMMA SetDispositionHolds ==
    ASSUME IInv, NEW d \in Sales \cup Compliance, SetDisposition(d) PROVE IInv'
<1> DEFINE u == sess["live"]
           c == [u EXCEPT !.label = d, !.committed = FALSE, !.qid = "none", !.mine = FALSE]
           n == [c EXCEPT !.label = "none"]
           w == Withdrawn(u)
           q == QueueWorkflow(c, w, "none")
<1>1. u \in SessionType /\ Tied(u) /\ Honest(u, booked) /\ TypeOK /\ RowsHonest(rows, booked)
    BY DEF IInv, TypeOK, Beliefs, Objects
<1>2. c \in SessionType /\ c.label = d /\ Honest(c, booked) /\ Tied(c)
  <2> HIDE DEF u
  <2> QED BY <1>1, NamesHold DEF SessionType, Honest, Tied
<1>3. n \in SessionType /\ n.label = "none" /\ Honest(n, booked) /\ Tied(n)
  <2> HIDE DEF u
  <2> QED BY <1>1, NamesHold DEF SessionType, Honest, Tied
<1>4. /\ w \in [Rows -> RowType] /\ RowsHonest(w, booked)
      /\ \A k \in Rows : w[k] = rows[k] \/ u.label \in Callbacks
  <2>1. CASE ~(u.label \in Callbacks /\ u.qid # "none" /\ Pending(u.qid))
      BY <1>1, <2>1 DEF Withdrawn, TypeOK
  <2>2. CASE u.label \in Callbacks /\ u.qid # "none" /\ Pending(u.qid)
    <3> DEFINE k == u.qid
               e == [rows[k] EXCEPT !.status = "canceled"]
    <3>1. k \in Rows BY <1>1, <2>2 DEF SessionType
    <3>2. e \in RowType /\ e.status = "canceled" /\ e.term = rows[k].term
        BY <1>1, <3>1 DEF TypeOK, RowType
    <3>3. w = [rows EXCEPT ![k] = e] BY <2>2 DEF Withdrawn
    <3> HIDE DEF e, k, w, u
    <3>4. w \in [Rows -> RowType] /\ (\A j \in Rows \ {k} : w[j] = rows[j]) /\ w[k] = e
        BY <1>1, <3>1, <3>2, <3>3 DEF TypeOK
    <3>5. RowsHonest(w, booked) BY <1>1, <3>1, <3>2, <3>4, NamesHold DEF RowsHonest
    <3>6. QED BY <2>2, <3>4, <3>5
  <2>3. QED BY <2>1, <2>2
<1>5. d \in Compliance =>
        /\ q.obj \in SessionType /\ q.rows \in [Rows -> RowType]
        /\ Honest(q.obj, booked) /\ Tied(q.obj) /\ RowsHonest(q.rows, booked)
        /\ q.obj.label = d
        /\ q.rows[d].status = "pending" \/ booked[d] > 0
  <2> HIDE DEF c, w
  <2> QED BY <1>1, <1>2, <1>4, QueueDoes, NamesHold DEF TypeOK
<1>6. /\ turn = Free /\ stored = "live" /\ turn' = turn /\ stored' = stored /\ booked' = booked
      /\ crashes' = crashes /\ ext' = ext /\ listed' = listed /\ asked' = asked /\ cleanup' = cleanup
      /\ history' = history
    BY DEF SetDisposition
<1>7. crashes = 0 BY <1>6 DEF IInv, TypeOK, LabelOK
<1>8. d \in Sales => acked = "none"
  <2>1. SUFFICES ASSUME d \in Sales, acked # "none" PROVE FALSE BY <1>1 DEF TypeOK
  <2>2. u.label = acked /\ acked \in Compliance BY <1>1, <1>7, <2>1 DEF IInv, LabelOK, TypeOK
  <2>3. u.label # "dnc" /\ (u.label \in Callbacks => d \in Compliance)
      BY DEF SetDisposition, Selectable
  <2>4. QED BY <2>1, <2>2, <2>3, NamesHold DEF Compliance
<1>9. \E t \in SessionType :
        /\ sess' = [sess EXCEPT !["live"] = t] /\ Honest(t, booked) /\ Tied(t)
        /\ rows' \in [Rows -> RowType] /\ RowsHonest(rows', booked)
        /\ acked' \in {"none"} \cup Compliance
        /\ acked' # "none" => /\ t.label = acked'
                              /\ rows'[acked'].status = "pending" \/ booked[acked'] > 0
  <2>1. CASE d \in Sales /\ sess' = [sess EXCEPT !["live"] = c] /\ rows' = rows /\ acked' = acked
    <3> HIDE DEF c
    <3> QED BY <1>1, <1>2, <1>8, <2>1 DEF TypeOK
  <2>2. CASE d \in Compliance /\ sess' = [sess EXCEPT !["live"] = q.obj] /\ rows' = q.rows /\ acked' = d
    <3> HIDE DEF q
    <3> QED BY <1>5, <2>2
  <2>3. CASE sess' = [sess EXCEPT !["live"] = n] /\ rows' = w /\ acked' = "none"
    <3> HIDE DEF n, w
    <3> QED BY <1>3, <1>4, <2>3
  <2>4. QED BY <2>1, <2>2, <2>3 DEF SetDisposition
<1> HIDE DEF u, c, n, w, q
<1>10. PICK t \in SessionType :
        /\ sess' = [sess EXCEPT !["live"] = t] /\ Honest(t, booked) /\ Tied(t)
        /\ rows' \in [Rows -> RowType] /\ RowsHonest(rows', booked)
        /\ acked' \in {"none"} \cup Compliance
        /\ acked' # "none" => /\ t.label = acked'
                              /\ rows'[acked'].status = "pending" \/ booked[acked'] > 0
    BY <1>9
<1>11. TypeOK' BY <1>6, <1>10 DEF IInv, TypeOK, Objects
<1>12. Beliefs' BY <1>6, <1>10 DEF IInv, TypeOK, Beliefs, Objects
<1>13. HolderOK' BY <1>6 DEF HolderOK, Free
<1>14. RebuiltOK' BY <1>6 DEF IInv, RebuiltOK
<1>15. LabelOK' BY <1>6, <1>7, <1>10 DEF IInv, TypeOK, LabelOK, Objects
<1>16. AckedIsDurable' /\ NoDuplicateCallback'
    BY <1>6, <1>10 DEF IInv, AckedIsDurable, NoDuplicateCallback, Pending
<1>17. QED BY <1>11, <1>12, <1>13, <1>14, <1>15, <1>16 DEF IInv

LEMMA WorkerReplayHolds == ASSUME IInv, WorkerReplay PROVE IInv'
<1>1. TypeOK /\ RowsHonest(rows, booked) /\ turn.by = "worker" /\ listed \in Rows /\ turn.obj = "live"
      /\ turn.at = "replay"
    BY DEF IInv, TypeOK, TurnType, Objects, Beliefs, HolderOK, WorkerReplay, Free
<1>2. /\ booked' \in [Compliance -> Nat]
      /\ \A j \in Compliance : booked[j] > 0 => booked'[j] > 0
      /\ \A j \in Compliance : booked[j] <= 1 => booked'[j] <= 1
      /\ \/ /\ rows' = [rows EXCEPT ![listed].done = TRUE] /\ turn' = [turn EXCEPT !.at = "session"]
            /\ listed' = listed
            /\ listed \in Compliance => booked'[listed] > 0 \/ rows[listed].done
         \/ rows' = rows /\ turn' = Free /\ listed' = "none"
  <2>1. CASE /\ rows[listed].done \/ listed = "terminal"
             /\ rows' = [rows EXCEPT ![listed].done = TRUE]
             /\ turn' = [turn EXCEPT !.at = "session"] /\ booked' = booked /\ listed' = listed
      BY <2>1, <1>1, NamesHold DEF TypeOK
  <2>2. ASSUME NEW ok \in BOOLEAN, listed # "terminal", Request(listed, ok),
               ok => /\ rows' = [rows EXCEPT ![listed].done = TRUE]
                     /\ turn' = [turn EXCEPT !.at = "session"] /\ listed' = listed,
               ~ok => rows' = rows /\ GiveUp
        PROVE  /\ booked' \in [Compliance -> Nat]
               /\ \A j \in Compliance : booked[j] > 0 => booked'[j] > 0
               /\ \A j \in Compliance : booked[j] <= 1 => booked'[j] <= 1
               /\ \/ /\ rows' = [rows EXCEPT ![listed].done = TRUE]
                     /\ turn' = [turn EXCEPT !.at = "session"] /\ listed' = listed
                     /\ listed \in Compliance => booked'[listed] > 0 \/ rows[listed].done
                  \/ rows' = rows /\ turn' = Free /\ listed' = "none"
    <3>1. listed \in Compliance BY <1>1, <2>2 DEF Rows
    <3>2. /\ booked' \in [Compliance -> Nat]
          /\ \A j \in Compliance : booked[j] > 0 => booked'[j] > 0
          /\ \A j \in Compliance : booked[j] <= 1 => booked'[j] <= 1
          /\ ok => booked'[listed] > 0
        BY <1>1, <2>2, <3>1, RequestDoes DEF TypeOK
    <3>3. QED BY <2>2, <3>2 DEF GiveUp
  <2>3. CASE GiveUp /\ rows' = rows /\ booked' = booked BY <2>3, <1>1 DEF TypeOK, GiveUp
  <2>4. QED BY <2>1, <2>2, <2>3 DEF WorkerReplay
<1>3. RowsHonest(rows, booked') /\ \A o \in Objects : Honest(sess[o], booked')
    BY <1>1, <1>2, HonestyLasts DEF IInv, Beliefs, TypeOK
<1>4. /\ rows' \in [Rows -> RowType] /\ RowsHonest(rows', booked')
      /\ \A j \in Rows : Pending(j) => rows'[j].status = "pending"
      /\ turn' = Free \/ (listed \in Compliance => booked'[listed] > 0)
  <2>1. CASE rows' = rows /\ turn' = Free BY <2>1, <1>1, <1>3 DEF TypeOK, Pending
  <2>2. CASE /\ rows' = [rows EXCEPT ![listed].done = TRUE]
             /\ listed \in Compliance => booked'[listed] > 0 \/ rows[listed].done
    <3> DEFINE e == [rows[listed] EXCEPT !.done = TRUE]
    <3>1. e \in RowType /\ e.status = rows[listed].status /\ e.term = rows[listed].term
        BY ZenonT(60), <1>1 DEF TypeOK, RowType
    <3>2. rows' = [rows EXCEPT ![listed] = e] BY <2>2
    <3> HIDE DEF e
    <3>3. rows' \in [Rows -> RowType] /\ (\A j \in Rows \ {listed} : rows'[j] = rows[j])
          /\ rows'[listed] = e
        BY <1>1, <3>1, <3>2 DEF TypeOK
    <3>4. listed \in Compliance => booked'[listed] > 0
        BY <1>1, <1>3, <2>2 DEF IInv, HolderOK, RowsHonest
    <3>5. RowsHonest(rows', booked') BY <1>1, <1>3, <3>1, <3>3, <3>4, NamesHold DEF RowsHonest
    <3>6. QED BY <3>1, <3>3, <3>4, <3>5 DEF Pending
  <2>3. QED BY <1>2, <2>1, <2>2
<1>5. turn' = Free \/ (turn' \in TurnType /\ turn'.by = "worker" /\ turn'.at = "session" /\ turn'.obj = "live" /\ turn'.sure = turn.sure)
    BY <1>1, <1>2 DEF TypeOK, TurnType
<1>6. Free \in TurnType BY NamesHold DEF Free, TurnType, Objects
<1>7. TypeOK' BY <1>2, <1>4, <1>5, <1>6 DEF IInv, TypeOK, WorkerReplay
<1>8. Beliefs' BY <1>3, <1>4 DEF IInv, Beliefs, WorkerReplay
<1>9. HolderOK' BY <1>1, <1>2, <1>4, <1>5, NamesHold DEF IInv, HolderOK, WorkerReplay, Free, Unowned
<1>10. RebuiltOK' /\ LabelOK' BY <1>1, <1>5 DEF IInv, RebuiltOK, LabelOK, WorkerReplay, Free
<1>11. AckedIsDurable' /\ NoDuplicateCallback'
    BY <1>2, <1>4, NamesHold DEF IInv, TypeOK, AckedIsDurable, NoDuplicateCallback, Pending, WorkerReplay, Compliance
<1>12. QED BY <1>7, <1>8, <1>9, <1>10, <1>11 DEF IInv

\* Where the worker is in its row, and that the row's expected disposition is at the dialer.
LEMMA WorkerSession ==
    ASSUME IInv, turn.at = "session"
    PROVE  /\ turn.by = "worker" /\ turn.obj = "live"
           /\ listed \in Rows /\ Expected(listed) \in Labels
           /\ Expected(listed) \in Compliance => booked[Expected(listed)] > 0
<1>1. turn.by = "worker" /\ turn.obj = "live" /\ listed \in Rows
    BY DEF IInv, TypeOK, TurnType, Objects, HolderOK, Free
<1>3. CASE listed = "terminal"
    BY <1>1, <1>3, NamesHold DEF IInv, TypeOK, RowType, Beliefs, RowsHonest, Expected
<1>4. CASE listed \in Compliance BY <1>1, <1>4, NamesHold DEF IInv, HolderOK, Expected
<1>5. QED BY <1>1, <1>3, <1>4 DEF Rows

LEMMA WorkerRebuildHolds == ASSUME IInv, WorkerRebuild PROVE IInv'
<1> DEFINE t == Rebuilt(listed)
<1>1. turn.by = "worker" /\ listed \in Rows /\ Expected(listed) \in Labels
      /\ (Expected(listed) \in Compliance => booked[Expected(listed)] > 0)
    BY WorkerSession DEF WorkerRebuild, IInv, TypeOK, TurnType, HolderOK, Free
<1>2. t \in SessionType /\ t.label = Expected(listed) /\ t.committed /\ t.qid = listed
    BY <1>1, NamesHold DEF Rebuilt, NewSession, SessionType
<1>3. Honest(t, booked) /\ Tied(t) /\ ~Unowned(t)
    BY <1>1, <1>2, NamesHold DEF Honest, Tied, Unowned, Expected
<1>4. sess' = [sess EXCEPT !["rebuilt"] = t] BY DEF WorkerRebuild
<1> HIDE DEF t
<1>5. rows[listed].term \in Labels BY <1>1 DEF IInv, TypeOK, RowType
<1>6. turn' \in TurnType /\ turn'.by = "worker" /\ turn'.at = "workflow" /\ turn'.obj = "rebuilt"
    BY <1>1, <1>5 DEF WorkerRebuild, IInv, TypeOK, TurnType, Objects
<1>7. TypeOK' BY <1>2, <1>4, <1>6 DEF IInv, TypeOK, Objects, WorkerRebuild
<1>8. Beliefs' BY <1>3, <1>4 DEF IInv, TypeOK, Beliefs, Objects, WorkerRebuild
<1>9. HolderOK'
    BY <1>1, <1>3, <1>4, <1>6 DEF IInv, TypeOK, HolderOK, Unowned, Objects, WorkerRebuild
<1>10. RebuiltOK' /\ LabelOK'
    BY <1>4, <1>6 DEF IInv, TypeOK, RebuiltOK, LabelOK, Objects, WorkerRebuild
<1>11. AckedIsDurable' /\ NoDuplicateCallback'
    BY DEF IInv, AckedIsDurable, NoDuplicateCallback, Pending, WorkerRebuild
<1>12. QED BY <1>7, <1>8, <1>9, <1>10, <1>11 DEF IInv

LEMMA WorkerResumeHolds == ASSUME IInv, WorkerResume PROVE IInv'
<1> DEFINE s == sess["live"]
           t == [s EXCEPT !.committed = TRUE, !.mine = TRUE, !.finalizing = TRUE]
<1>1. turn.by = "worker" /\ turn.obj = "live" /\ listed \in Rows
      /\ (Expected(listed) \in Compliance => booked[Expected(listed)] > 0)
    BY WorkerSession DEF WorkerResume, IInv, TypeOK, TurnType, HolderOK, Free
<1>2. s \in SessionType /\ Tied(s) /\ s.label = Expected(listed)
    BY DEF IInv, TypeOK, Beliefs, Objects, WorkerResume, Matches
<1>3. sess' = [sess EXCEPT !["live"] = t] BY DEF WorkerResume
<1> HIDE DEF s
<1>4. t \in SessionType /\ t.label = s.label /\ t.qid = s.qid /\ t.committed BY <1>2 DEF SessionType
<1>5. Honest(t, booked) /\ Tied(t) /\ ~Unowned(t) BY <1>1, <1>2, <1>4 DEF Honest, Tied, Unowned
<1> HIDE DEF t
<1>6. rows[listed].term \in Labels BY <1>1 DEF IInv, TypeOK, RowType
<1>7. turn' \in TurnType /\ turn'.by = "worker" /\ turn'.at = "workflow" /\ turn'.obj = "live"
    BY <1>1, <1>6 DEF WorkerResume, IInv, TypeOK, TurnType, Objects
<1>8. TypeOK' BY <1>3, <1>4, <1>7 DEF IInv, TypeOK, Objects, WorkerResume
<1>9. Beliefs' BY <1>3, <1>5 DEF IInv, TypeOK, Beliefs, Objects, WorkerResume
<1>10. HolderOK'
    BY <1>1, <1>3, <1>5, <1>7 DEF IInv, TypeOK, HolderOK, Unowned, Objects, WorkerResume
<1>11. RebuiltOK' /\ LabelOK'
    BY <1>3, <1>4, <1>7 DEF s, IInv, TypeOK, RebuiltOK, LabelOK, Objects, WorkerResume
<1>12. AckedIsDurable' /\ NoDuplicateCallback'
    BY DEF IInv, AckedIsDurable, NoDuplicateCallback, Pending, WorkerResume
<1>13. QED BY <1>8, <1>9, <1>10, <1>11, <1>12 DEF IInv

LEMMA WorkerEndLiveHolds == ASSUME IInv, WorkerEndLive PROVE IInv'
<1> DEFINE s == sess["live"]
           t == Finished(s)
<1>1. s \in SessionType /\ Honest(s, booked) /\ Tied(s) /\ turn.sure \in BOOLEAN
    BY DEF IInv, TypeOK, TurnType, Beliefs, Objects
<1>2. sess' = [sess EXCEPT !["live"] = t] BY DEF WorkerEndLive, IInv, TypeOK, Objects
<1> HIDE DEF s
<1>3. t \in SessionType /\ t.label = s.label /\ t.qid = s.qid /\ t.committed = s.committed
    BY <1>1 DEF SessionType, Finished
<1>4. Honest(t, booked) /\ Tied(t) /\ (Unowned(t) <=> Unowned(s))
    BY <1>1, <1>3 DEF Honest, Tied, Unowned
<1> HIDE DEF t
<1>5. \/ turn' = Free /\ listed' = "none"
      \/ /\ turn' \in TurnType /\ turn'.by = "worker" /\ turn'.at = "close" /\ turn'.obj = "live"
         /\ turn'.sure /\ turn.sure /\ listed' = listed
    BY DEF WorkerEndLive, GiveUp, IInv, TypeOK, TurnType, Objects
<1>6. Free \in TurnType BY NamesHold DEF Free, TurnType, Objects
<1>7. TypeOK' BY <1>2, <1>3, <1>5, <1>6 DEF IInv, TypeOK, Objects, WorkerEndLive
<1>8. Beliefs' BY <1>2, <1>4 DEF IInv, TypeOK, Beliefs, Objects, WorkerEndLive
<1>9. HolderOK'
    BY <1>2, <1>4, <1>5, <1>6 DEF s, IInv, TypeOK, HolderOK, Free, Objects, WorkerEndLive
<1>10. RebuiltOK' /\ LabelOK'
    BY <1>2, <1>3, <1>5 DEF s, IInv, TypeOK, RebuiltOK, LabelOK, Free, Objects, WorkerEndLive
<1>11. AckedIsDurable' /\ NoDuplicateCallback'
    BY DEF IInv, AckedIsDurable, NoDuplicateCallback, Pending, WorkerEndLive
<1>12. QED BY <1>7, <1>8, <1>9, <1>10, <1>11 DEF IInv

LEMMA WorkerEndRebuiltHolds == ASSUME IInv, WorkerEndRebuilt PROVE IInv'
<1>1. NewSession \in SessionType /\ Honest(NewSession, booked) /\ Tied(NewSession)
      /\ ~Unowned(NewSession)
    BY NamesHold DEF NewSession, SessionType, Honest, Tied, Unowned
<1>2. sess' = [sess EXCEPT !["rebuilt"] = NewSession] /\ stored' = "none" BY DEF WorkerEndRebuilt
<1>3. \/ turn' = Free /\ listed' = "none"
      \/ /\ turn' \in TurnType /\ turn'.by = "worker" /\ turn'.at = "close" /\ turn'.obj = "rebuilt"
         /\ history' # "open" /\ listed' = listed
    BY DEF WorkerEndRebuilt, GiveUp, IInv, TypeOK, TurnType, Objects
<1>4. Free \in TurnType BY NamesHold DEF Free, TurnType, Objects
<1>5. TypeOK' BY <1>1, <1>2, <1>3, <1>4 DEF IInv, TypeOK, Objects, WorkerEndRebuilt
<1>6. Beliefs' BY <1>1, <1>2 DEF IInv, TypeOK, Beliefs, Objects, WorkerEndRebuilt
<1>7. HolderOK'
    BY <1>1, <1>2, <1>3, <1>4 DEF IInv, TypeOK, HolderOK, Free, Objects, WorkerEndRebuilt
<1>8. RebuiltOK' /\ LabelOK'
    BY <1>2, <1>3 DEF IInv, TypeOK, RebuiltOK, LabelOK, Free, Objects, WorkerEndRebuilt
<1>9. AckedIsDurable' /\ NoDuplicateCallback'
    BY DEF IInv, AckedIsDurable, NoDuplicateCallback, Pending, WorkerEndRebuilt
<1>10. QED BY <1>5, <1>6, <1>7, <1>8, <1>9 DEF IInv

LEMMA WorkerCloseHolds == ASSUME IInv, WorkerClose PROVE IInv'
<1>1. turn.by = "worker" /\ listed \in Rows /\ TypeOK /\ RowsHonest(rows, booked)
    BY DEF IInv, TypeOK, TurnType, Objects, HolderOK, Free, Beliefs, WorkerClose
<1>2. listed \in Compliance => booked[listed] > 0 BY <1>1 DEF IInv, HolderOK, WorkerClose
<1>3. /\ rows' \in [Rows -> RowType] /\ RowsHonest(rows', booked)
      /\ \A j \in Rows : Pending(j) => rows'[j].status = "pending" \/ j = listed
    BY <1>1, <1>2, CompleteDoes DEF WorkerClose
<1>4. turn' = Free /\ listed' = "none" /\ Free \in TurnType
    BY NamesHold DEF WorkerClose, GiveUp, Free, TurnType, Objects
<1>5. TypeOK' BY <1>3, <1>4 DEF IInv, TypeOK, WorkerClose
<1>6. Beliefs' BY <1>3 DEF IInv, Beliefs, WorkerClose
<1>7. HolderOK' BY <1>4 DEF HolderOK, Free
<1>8. RebuiltOK' /\ LabelOK' BY <1>4 DEF IInv, RebuiltOK, LabelOK, Free, WorkerClose
<1>9. AckedIsDurable' /\ NoDuplicateCallback'
    BY <1>2, <1>3, NamesHold
    DEF IInv, TypeOK, AckedIsDurable, NoDuplicateCallback, Pending, WorkerClose
<1>10. QED BY <1>5, <1>6, <1>7, <1>8, <1>9 DEF IInv

-----------------------------------------------------------------------------
(* The theorems.                                                           *)

LEMMA StepHolds == ASSUME IInv, [Next]_vars PROVE IInv'
<1>1. CASE UNCHANGED vars
    BY <1>1 DEF vars, IInv, TypeOK, Beliefs, HolderOK, RebuiltOK, LabelOK, AckedIsDurable,
                NoDuplicateCallback, Pending, Unowned
<1>2. CASE \E d \in Sales \cup Compliance : SetDisposition(d) BY <1>2, SetDispositionHolds
<1>3. CASE \E who \in {"hangup", "cleanup"} : FinalizeSkip(who) \/ FinalizeBegin(who)
    BY <1>3, FinalizeSkipHolds, FinalizeBeginHolds
<1>4. CASE \E k \in Rows : WorkerList(k) BY <1>4, WorkerListHolds
<1>5. CASE CustomerLeaves \/ TransferBegin \/ TransferControl \/ AskHangup
    BY <1>5, CustomerLeavesHolds, TransferBeginHolds, TransferControlHolds, AskHangupHolds
<1>6. CASE WorkflowDone \/ WorkflowApplied \/ WorkflowFailed \/ HangupControl \/ Reconcile
           \/ FinalizeEnd
    BY <1>6, WorkflowDoneHolds, WorkflowAppliedHolds, WorkflowFailedHolds, HangupControlHolds,
       ReconcileHolds, FinalizeEndHolds
<1>7. CASE CleanupBegin \/ CleanupHistory \/ CleanupRemove \/ Crash
    BY <1>7, CleanupBeginHolds, CleanupHistoryHolds, CleanupRemoveHolds, CrashHolds
<1>8. CASE WorkerTake \/ WorkerReplay \/ WorkerRebuild \/ WorkerResume \/ WorkerPass
           \/ WorkerEndLive \/ WorkerEndRebuilt \/ WorkerClose
    BY <1>8, WorkerTakeHolds, WorkerReplayHolds, WorkerRebuildHolds, WorkerResumeHolds,
       WorkerPassHolds, WorkerEndLiveHolds, WorkerEndRebuiltHolds, WorkerCloseHolds
<1>9. QED BY <1>1, <1>2, <1>3, <1>4, <1>5, <1>6, <1>7, <1>8 DEF Next

LEMMA IInvHolds == Spec => []IInv
<1>1. Init => IInv BY InitHolds
<1>2. IInv /\ [Next]_vars => IInv' BY StepHolds
<1>3. QED BY <1>1, <1>2, PTL DEF Spec

\* Every variable keeps its type: the outbox has one row per request, the dialer one count each.
THEOREM TypeCorrect == Spec => []TypeOK
<1>1. IInv => TypeOK BY DEF IInv
<1>2. QED BY <1>1, IInvHolds, PTL

\* A session or a row that says a DNC or callback is committed says so only of one the dialer has,
\* for any number of engine stops and whatever replies were lost.
THEOREM Committed == Spec => []CommittedIsApplied
<1>1. IInv => CommittedIsApplied
    BY DEF IInv, Beliefs, Honest, RowsHonest, CommittedIsApplied, Pending
<1>2. QED BY <1>1, IInvHolds, PTL

\* An acknowledged DNC or callback is at the dialer or in a row that will be retried.
THEOREM Durable == Spec => []AckedIsDurable
<1>1. IInv => AckedIsDurable BY DEF IInv
<1>2. QED BY <1>1, IInvHolds, PTL

\* No callback is scheduled twice, by any combination of the session's workflow and the worker.
THEOREM NoDuplicates == Spec => []NoDuplicateCallback
<1>1. IInv => NoDuplicateCallback BY DEF IInv
<1>2. QED BY <1>1, IInvHolds, PTL

\* A live call is ended or moved only after its acknowledged compliance request is recorded.
THEOREM ComplianceBeforeControl == Spec => []LiveComplianceFirst
<1>1. ASSUME IInv PROVE LiveComplianceFirst
  <2>1. SUFFICES ASSUME turn.at = "control", turn.obj = "live", acked # "none"
                 PROVE  booked[acked] > 0
      BY DEF LiveComplianceFirst
  <2>2. crashes = 0 BY <1>1, <2>1 DEF IInv, TypeOK, LabelOK
  <2>3. sess["live"].label = acked /\ acked \in Compliance
      BY <1>1, <2>1, <2>2 DEF IInv, TypeOK, LabelOK
  <2>4. ~Unowned(sess["live"]) /\ Honest(sess["live"], booked)
      BY <1>1, <2>1 DEF IInv, HolderOK, Beliefs, Objects
  <2>5. QED BY <2>3, <2>4 DEF Unowned, Honest
<1>2. QED BY <1>1, IInvHolds, PTL

\* The row of a call whose session is gone closes only after the stored history is brought up to
\* date.
THEOREM HistoryBeforeClose == Spec => CloseAfterHistory
<1> DEFINE A == \A k \in Rows : Pending(k) /\ rows'[k].status = "completed" /\ turn.obj = "rebuilt"
                                  => history' # "open"
<1>1. ASSUME IInv, Next PROVE A
  <2>1. SUFFICES ASSUME NEW k \in Rows, Pending(k), rows'[k].status = "completed",
                        turn.obj = "rebuilt"
                 PROVE  history' # "open"
      OBVIOUS
  <2>2. turn.by = "worker" /\ turn.at \notin {"replay", "session"} /\ turn # Free
        /\ (turn.at = "workflow" => ~Unowned(sess[turn.obj]))
      BY <1>1, <2>1 DEF IInv, HolderOK, Free
  <2>3. rows' # rows BY <2>1 DEF Pending
  <2>4. WorkerClose
    <3>1. ~(\E d \in Sales \cup Compliance : SetDisposition(d)) /\ ~CustomerLeaves /\ ~TransferBegin
          /\ ~TransferControl /\ ~AskHangup
        BY <2>2, <2>3 DEF SetDisposition, CustomerLeaves, TransferBegin, TransferControl, AskHangup
    <3>2. ~(\E who \in {"hangup", "cleanup"} : FinalizeSkip(who) \/ FinalizeBegin(who))
        BY <2>2, <2>3 DEF FinalizeSkip, FinalizeBegin
    <3>3. ~WorkflowDone /\ ~WorkflowApplied /\ ~WorkflowFailed /\ ~HangupControl /\ ~Reconcile
          /\ ~FinalizeEnd
        BY <2>2, <2>3 DEF WorkflowDone, WorkflowApplied, WorkflowFailed, HangupControl, Reconcile,
                         FinalizeEnd
    <3>4. ~CleanupBegin /\ ~CleanupHistory /\ ~CleanupRemove /\ ~Crash
          /\ ~(\E j \in Rows : WorkerList(j)) /\ ~WorkerTake
        BY <2>3 DEF CleanupBegin, CleanupHistory, CleanupRemove, Crash, WorkerList, WorkerTake
    <3>5. ~WorkerReplay /\ ~WorkerRebuild /\ ~WorkerResume /\ ~WorkerPass /\ ~WorkerEndLive
          /\ ~WorkerEndRebuilt
        BY <2>2, <2>3 DEF WorkerReplay, WorkerRebuild, WorkerResume, WorkerPass, WorkerEndLive,
                         WorkerEndRebuilt
    <3>6. QED BY <1>1, <3>1, <3>2, <3>3, <3>4, <3>5 DEF Next
  <2>5. QED BY <1>1, <2>1, <2>4 DEF WorkerClose, IInv, RebuiltOK
<1>2. ASSUME IInv, UNCHANGED vars PROVE A BY <1>2 DEF vars, Pending
<1>3. IInv /\ [Next]_vars => [A]_vars BY <1>1
<1>4. QED BY <1>3, IInvHolds, PTL DEF Spec, CloseAfterHistory
=============================================================================
