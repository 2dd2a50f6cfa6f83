----------------------- MODULE StreamingOutputProofs -----------------------
(***************************************************************************)
(* Proofs about StreamingOutput: its types; that no stale writer speaks    *)
(* into a flushed or finished segment (Ordered: what Asterisk's queue may  *)
(* hold after what); and that no interruption leaves admission closed      *)
(* (FencesHeld: who is in abort_output, and what that says of the fence).  *)
(***************************************************************************)
EXTENDS StreamingOutput, SequenceTheorems, TLAPS

LEMMA Removed ==
  ASSUME NEW S, NEW q \in Seq(S), NEW t
  PROVE  Without(q, t) \in Seq(S)
  <1>1. CASE \A i \in 1..Len(q) : q[i] # t
    BY <1>1 DEF Without
  <1>2. CASE \E i \in 1..Len(q) : q[i] = t
    <2>. DEFINE at == CHOOSE i \in 1..Len(q) : q[i] = t
    <2>1. at \in 1..Len(q) /\ Len(q) \in Nat /\ Len(q) - 1 \in Nat
      BY <1>2
    <2>2. Without(q, t) = [i \in 1..(Len(q) - 1) |-> IF i < at THEN q[i] ELSE q[i + 1]]
      BY <1>2 DEF Without
    <2>. HIDE DEF at
    <2>3. \A i \in 1..(Len(q) - 1) : (IF i < at THEN q[i] ELSE q[i + 1]) \in S
      BY <2>1
    <2>4. QED
      BY <2>1, <2>2, <2>3, IsASeq
  <1>3. QED
    BY <1>1, <1>2

LEMMA ClosedTyped == ASSUME NEW b \in BindType PROVE Closed(b) \in BindType
  BY DEF Closed, BindType

LEMMA FramesTyped ==
  ASSUME NEW q \in Seq(FrameType)
  PROVE  Frames(q) \subseteq Nat \X (0..Segments)
  <1>1. \A i \in DOMAIN q : q[i] \in FrameType
    OBVIOUS
  <1>2. \A i \in DOMAIN q : <<q[i].sid, q[i].n>> \in Nat \X (0..Segments)
    BY <1>1 DEF FrameType
  <1>3. QED
    BY <1>2 DEF Frames

LEMMA CutsTyped == ASSUME PlayerOK, NEW s, NEW h \in HistType PROVE Cuts(s, h) \in HistType
  <1>1. strm.id \in Nat
    BY DEF PlayerOK, StreamType
  <1>2. [h EXCEPT !.cut = @ \cup {strm.id}] \in HistType
    BY <1>1 DEF HistType
  <1>3. QED
    BY <1>2 DEF Cuts

LEMMA QueuedKeeps == ASSUME OutputOK, NEW t \in Tasks, Queued(t) PROVE tlock' \in Seq(Tasks)
  BY DEF OutputOK, Queued

LEMMA LeftKeeps == ASSUME OutputOK, NEW t, Left(t) PROVE tlock' \in Seq(Tasks)
  BY Removed DEF OutputOK, Left

LEMMA FailsKeeps ==
  ASSUME OutputOK, NEW n \in 0..Segments, Fails(n)
  PROVE  pacer' \in PacerType /\ tlock' \in Seq(Tasks)
  BY LeftKeeps DEF Fails, PacerType

LEMMA ResolveKeeps ==
  ASSUME OutputOK, PlayerOK, TasksOK, NEW n, NEW ok \in BOOLEAN, Resolve(n, ok)
  PROVE  /\ pacer' \in PacerType /\ tlock' \in Seq(Tasks)
         /\ bres' \in [1..Segments -> {"none", "ok", "bad"}]
  <1>1. bres' \in [1..Segments -> {"none", "ok", "bad"}]
    BY DEF Resolve, PlayerOK
  <1>2. CASE ok
    <2>1. pacer' = [pc |-> "idle", seg |-> 0] /\ Left("pacer")
      BY <1>2 DEF Resolve
    <2>2. pacer' \in PacerType
      BY <2>1, BoundsAssumption DEF PacerType
    <2>3. QED
      BY <1>1, <2>1, <2>2, LeftKeeps DEF TasksOK
  <1>3. CASE ~ok
    <2>1. Fails(0) /\ 0 \in 0..Segments
      BY <1>3, BoundsAssumption DEF Resolve
    <2>2. QED
      BY <1>1, <2>1, FailsKeeps
  <1>4. QED
    BY <1>2, <1>3

LEMMA FinishedKeeps ==
  ASSUME OutputOK, PlayerOK, TasksOK, NEW ok \in BOOLEAN, Finished(ok)
  PROVE  /\ strm' \in StreamType /\ pacer' \in PacerType /\ tlock' \in Seq(Tasks)
         /\ bres' \in [1..Segments -> {"none", "ok", "bad"}]
  <1>1. Resolve(strm.pend, ok)
    BY DEF Finished
  <1>2. strm' \in StreamType
    <2>. DEFINE bad == strm.failed \/ ~ok
                done == [strm EXCEPT !.pend = 0, !.gen = 0]
    <2>1. bad \in BOOLEAN
      OBVIOUS
    <2>2. strm' = [done EXCEPT !.failed = bad]
      BY DEF Finished
    <2>3. 0 \in 0..Segments /\ 0 \in Nat
      BY BoundsAssumption
    <2>4. [strm EXCEPT !.pend = 0] \in StreamType
      BY <2>3 DEF PlayerOK, StreamType
    <2>5. done = [[strm EXCEPT !.pend = 0] EXCEPT !.gen = 0]
      BY DEF PlayerOK, StreamType
    <2>6. done \in StreamType
      BY <2>3, <2>4, <2>5 DEF StreamType
    <2>. HIDE DEF bad, done
    <2>7. QED
      BY <2>1, <2>2, <2>6 DEF StreamType
  <1>3. QED
    BY <1>1, <1>2, ResolveKeeps

LEMMA FencedKeeps == ASSUME OutputOK, NEW ok, Fenced(ok) PROVE bind' \in BindType
  <1>1. bind \in BindType /\ Closed(bind) \in BindType
    BY ClosedTyped DEF OutputOK
  <1>2. [bind EXCEPT !.mk = "none"] \in BindType
    BY <1>1 DEF BindType
  <1>3. [bind EXCEPT !.out = "idle", !.admission = TRUE, !.mk = "none"] \in BindType
    BY <1>1 DEF BindType
  <1>4. [Closed(bind) EXCEPT !.mk = "none"] \in BindType
    BY <1>1 DEF BindType
  <1>5. QED
    BY <1>2, <1>3, <1>4 DEF Fenced

LEMMA StreamRemovedKeeps ==
  ASSUME PlayerOK, GatingOK, StreamRemoved
  PROVE  PlayerOK' /\ gates' \subseteq [bd : 0..Segments, epoch : Nat, sid : Nat] /\ tokens' \subseteq Nat
  <1>1. strm' \in StreamType
    BY BoundsAssumption DEF StreamRemoved, NoStream, StreamType
  <1>2. pacer' \in PacerType /\ src' \in Seq(ItemType)
    BY BoundsAssumption DEF StreamRemoved, PacerType
  <1>3. bres' \in [1..Segments -> {"none", "ok", "bad"}]
    BY DEF StreamRemoved, PlayerOK
  <1>4. gates' \subseteq [bd : 0..Segments, epoch : Nat, sid : Nat] /\ tokens' \subseteq Nat
    BY DEF StreamRemoved, GatingOK
  <1>5. QED
    BY <1>1, <1>2, <1>3, <1>4 DEF PlayerOK

LEMMA StreamGoneKeeps ==
  ASSUME PlayerOK, GatingOK, StreamGone
  PROVE  PlayerOK' /\ gates' \subseteq [bd : 0..Segments, epoch : Nat, sid : Nat] /\ tokens' \subseteq Nat
  <1>1. PICK k \in 0..Len(src) : src' = SubSeq(src, k + 1, Len(src))
    BY DEF StreamGone
  <1>2. src' \in Seq(ItemType)
    BY <1>1, SubSeqProperties DEF PlayerOK
  <1>3. QED
    BY <1>2 DEF StreamGone, PlayerOK, GatingOK

LEMMA StoppedKeeps ==
  ASSUME TypeOK, NEW s \in Bargers, NEW ok, Stopped(s, ok)
  PROVE  /\ tlock' \in Seq(Tasks) /\ PlayerOK' /\ TasksOK' /\ prov' \in ProvType /\ HistOK'
         /\ gates' \subseteq [bd : 0..Segments, epoch : Nat, sid : Nat] /\ tokens' \subseteq Nat
  <1>. USE DEF TypeOK
  <1>1. tlock' \in Seq(Tasks)
    <2>1. Without(tlock, "pacer") \in Seq(Tasks)
      BY Removed DEF OutputOK
    <2>2. Without(tlock, s) \in Seq(Tasks) /\ Without(Without(tlock, "pacer"), s) \in Seq(Tasks)
      BY <2>1, Removed DEF OutputOK
    <2>3. QED
      BY <2>2 DEF Stopped
  <1>2. PlayerOK' /\ gates' \subseteq [bd : 0..Segments, epoch : Nat, sid : Nat] /\ tokens' \subseteq Nat
    <2>1. CASE UNCHANGED <<player, gates, tokens>>
      BY <2>1 DEF player, PlayerOK, GatingOK
    <2>2. CASE StreamRemoved
      BY <2>2, StreamRemovedKeeps
    <2>3. CASE StreamGone
      BY <2>3, StreamGoneKeeps
    <2>4. QED
      BY <2>1, <2>2, <2>3 DEF Stopped
  <1>3. TasksOK'
    <2>1. abt' \in [Bargers -> {"no", "lock", "wait"}]
      BY DEF Stopped, TasksOK
    <2>2. barge' \in [Bargers -> [pc : {"idle", "stop", "clear"}, sid : Nat]]
      BY DEF Stopped, TasksOK
    <2>3. QED
      BY <2>1, <2>2 DEF TasksOK
  <1>4. prov' \in ProvType
    BY DEF Stopped, ProviderOK, ProvType
  <1>5. HistOK'
    <2>. DEFINE h == [hist EXCEPT !.silenced = IF ok THEN @ \cup {barge[s].sid} ELSE @]
    <2>1. barge[s].sid \in Nat
      BY DEF TasksOK
    <2>2. h \in HistType
      BY <2>1 DEF HistOK, HistType
    <2>3. hist' = Cuts(s, h)
      BY DEF Stopped
    <2>. HIDE DEF h
    <2>4. QED
      BY <2>2, <2>3, CutsTyped DEF HistOK
  <1>6. QED
    BY <1>1, <1>2, <1>3, <1>4, <1>5

LEMMA SocketClosesKeeps == ASSUME TypeOK, SocketCloses PROVE TypeOK'
  <1>. USE DEF TypeOK
  <1>1. OutputOK'
    BY BoundsAssumption DEF OutputOK, BindType, FrameType, output, player, gating, SocketCloses, Closed
  <1>2. PlayerOK'
    BY BoundsAssumption DEF PlayerOK, StreamType, PacerType, ItemType, output, player, gating, SocketCloses, Closed
  <1>3. TasksOK'
    BY BoundsAssumption DEF TasksOK, Tasks, output, player, gating, SocketCloses, Closed
  <1>4. GatingOK'
    BY BoundsAssumption DEF GatingOK, output, player, gating, SocketCloses, Closed
  <1>5. ProviderOK'
    BY BoundsAssumption DEF ProviderOK, ProvType, output, player, gating, SocketCloses, Closed
  <1>6. HistOK'
    BY BoundsAssumption DEF HistOK, HistType, output, player, gating, SocketCloses, Closed
  <1>7. QED
    BY <1>1, <1>2, <1>3, <1>4, <1>5, <1>6

LEMMA PlayKeeps == ASSUME TypeOK, Play PROVE TypeOK'
  <1>. USE DEF TypeOK
  <1>1. OutputOK'
    <2>1. bind' \in BindType
      BY DEF OutputOK, Play, output
    <2>2. tlock' \in Seq(Tasks)
      BY DEF OutputOK, Play, output
    <2>3. queue' \in Seq(FrameType) /\ acks' \subseteq [k : {"stop", "mark"}, g : Nat]
      <3>1. Head(queue) \in FrameType /\ Tail(queue) \in Seq(FrameType)
        BY DEF OutputOK, Play
      <3>2. Head(queue).k # "audio" => [k |-> Head(queue).k, g |-> Head(queue).g] \in [k : {"stop", "mark"}, g : Nat]
        BY <3>1 DEF FrameType
      <3>3. QED
        BY <3>1, <3>2 DEF OutputOK, Play
    <2>4. QED
      BY <2>1, <2>2, <2>3 DEF OutputOK
  <1>2. PlayerOK'
    BY BoundsAssumption DEF PlayerOK, StreamType, PacerType, ItemType, output, player, gating, Play
  <1>3. TasksOK'
    BY BoundsAssumption DEF TasksOK, Tasks, output, player, gating, Play
  <1>4. GatingOK'
    BY BoundsAssumption DEF GatingOK, output, player, gating, Play
  <1>5. ProviderOK'
    BY BoundsAssumption DEF ProviderOK, ProvType, output, player, gating, Play
  <1>6. HistOK'
    BY BoundsAssumption DEF HistOK, HistType, output, player, gating, Play
  <1>7. QED
    BY <1>1, <1>2, <1>3, <1>4, <1>5, <1>6

LEMMA XoffKeeps == ASSUME TypeOK, Xoff PROVE TypeOK'
  <1>. USE DEF TypeOK
  <1>1. OutputOK'
    BY BoundsAssumption DEF OutputOK, BindType, FrameType, output, player, gating, Xoff
  <1>2. PlayerOK'
    BY BoundsAssumption DEF PlayerOK, StreamType, PacerType, ItemType, output, player, gating, Xoff
  <1>3. TasksOK'
    BY BoundsAssumption DEF TasksOK, Tasks, output, player, gating, Xoff
  <1>4. GatingOK'
    BY BoundsAssumption DEF GatingOK, output, player, gating, Xoff
  <1>5. ProviderOK'
    BY BoundsAssumption DEF ProviderOK, ProvType, output, player, gating, Xoff
  <1>6. HistOK'
    BY BoundsAssumption DEF HistOK, HistType, output, player, gating, Xoff
  <1>7. QED
    BY <1>1, <1>2, <1>3, <1>4, <1>5, <1>6

LEMMA XonKeeps == ASSUME TypeOK, Xon PROVE TypeOK'
  <1>. USE DEF TypeOK
  <1>1. OutputOK'
    BY BoundsAssumption DEF OutputOK, BindType, FrameType, output, player, gating, Xon
  <1>2. PlayerOK'
    BY BoundsAssumption DEF PlayerOK, StreamType, PacerType, ItemType, output, player, gating, Xon
  <1>3. TasksOK'
    BY BoundsAssumption DEF TasksOK, Tasks, output, player, gating, Xon
  <1>4. GatingOK'
    BY BoundsAssumption DEF GatingOK, output, player, gating, Xon
  <1>5. ProviderOK'
    BY BoundsAssumption DEF ProviderOK, ProvType, output, player, gating, Xon
  <1>6. HistOK'
    BY BoundsAssumption DEF HistOK, HistType, output, player, gating, Xon
  <1>7. QED
    BY <1>1, <1>2, <1>3, <1>4, <1>5, <1>6

LEMMA ToldKeeps == ASSUME TypeOK, NEW a \in acks, Told(a) PROVE TypeOK'
  <1>. USE DEF TypeOK
  <1>1. OutputOK'
    BY BoundsAssumption DEF OutputOK, BindType, FrameType, output, player, gating, Told
  <1>2. PlayerOK'
    BY BoundsAssumption DEF PlayerOK, StreamType, PacerType, ItemType, output, player, gating, Told
  <1>3. TasksOK'
    BY BoundsAssumption DEF TasksOK, Tasks, output, player, gating, Told
  <1>4. GatingOK'
    BY BoundsAssumption DEF GatingOK, output, player, gating, Told
  <1>5. ProviderOK'
    BY BoundsAssumption DEF ProviderOK, ProvType, output, player, gating, Told
  <1>6. HistOK'
    BY BoundsAssumption DEF HistOK, HistType, output, player, gating, Told
  <1>7. QED
    BY <1>1, <1>2, <1>3, <1>4, <1>5, <1>6

LEMMA TakeAudioKeeps == ASSUME TypeOK, TakeAudio PROVE TypeOK'
  <1>. USE DEF TypeOK
  <1>a. Head(src) \in ItemType /\ Tail(src) \in Seq(ItemType)
    BY DEF PlayerOK, TakeAudio
  <1>b. pacer' \in PacerType /\ tlock' \in Seq(Tasks)
    <2>1. CASE Fails(Head(src).n)
      BY <1>a, <2>1, FailsKeeps DEF ItemType
    <2>2. CASE UNCHANGED tlock /\ pacer' = [pc |-> IF strm.gen = 0 THEN "admit" ELSE "write", seg |-> Head(src).n]
      BY <1>a, <2>2 DEF ItemType, PacerType, OutputOK, TasksOK
    <2>3. QED
      BY <2>1, <2>2 DEF TakeAudio
  <1>1. OutputOK'
    BY <1>b DEF OutputOK, TakeAudio
  <1>2. PlayerOK'
    BY <1>a, <1>b DEF PlayerOK, TakeAudio
  <1>3. TasksOK'
    BY <1>b DEF TasksOK, TakeAudio
  <1>4. GatingOK'
    BY BoundsAssumption DEF GatingOK, output, player, gating, TakeAudio, Fails, Left
  <1>5. ProviderOK'
    BY BoundsAssumption DEF ProviderOK, ProvType, output, player, gating, TakeAudio, Fails, Left
  <1>6. HistOK'
    BY BoundsAssumption DEF HistOK, HistType, output, player, gating, TakeAudio, Fails, Left
  <1>7. QED
    BY <1>1, <1>2, <1>3, <1>4, <1>5, <1>6

LEMMA AdmittedKeeps == ASSUME TypeOK, Admitted PROVE TypeOK'
  <1>. USE DEF TypeOK
  <1>a. tlock' \in Seq(Tasks)
    BY QueuedKeeps DEF Tasks, Admitted
  <1>1. OutputOK'
    BY <1>a DEF OutputOK, Admitted
  <1>2. PlayerOK'
    BY BoundsAssumption DEF PlayerOK, StreamType, PacerType, ItemType, output, player, gating, Admitted, Queued
  <1>3. TasksOK'
    BY BoundsAssumption DEF TasksOK, Tasks, output, player, gating, Admitted, Queued
  <1>4. GatingOK'
    BY BoundsAssumption DEF GatingOK, output, player, gating, Admitted, Queued
  <1>5. ProviderOK'
    BY BoundsAssumption DEF ProviderOK, ProvType, output, player, gating, Admitted, Queued
  <1>6. HistOK'
    BY BoundsAssumption DEF HistOK, HistType, output, player, gating, Admitted, Queued
  <1>7. QED
    BY <1>1, <1>2, <1>3, <1>4, <1>5, <1>6

LEMMA GoAroundKeeps == ASSUME TypeOK, GoAround PROVE TypeOK'
  <1>. USE DEF TypeOK
  <1>a. tlock' \in Seq(Tasks)
    BY LeftKeeps DEF Tasks, GoAround
  <1>1. OutputOK'
    BY <1>a DEF OutputOK, GoAround
  <1>2. PlayerOK'
    BY BoundsAssumption DEF PlayerOK, StreamType, PacerType, ItemType, output, player, gating, GoAround, Left
  <1>3. TasksOK'
    BY BoundsAssumption DEF TasksOK, Tasks, output, player, gating, GoAround, Left
  <1>4. GatingOK'
    BY BoundsAssumption DEF GatingOK, output, player, gating, GoAround, Left
  <1>5. ProviderOK'
    BY BoundsAssumption DEF ProviderOK, ProvType, output, player, gating, GoAround, Left
  <1>6. HistOK'
    BY BoundsAssumption DEF HistOK, HistType, output, player, gating, GoAround, Left
  <1>7. QED
    BY <1>1, <1>2, <1>3, <1>4, <1>5, <1>6

LEMMA BeginKeeps == ASSUME TypeOK, Begin PROVE TypeOK'
  <1>. USE DEF TypeOK
  <1>a. pacer' \in PacerType /\ tlock' \in Seq(Tasks)
    <2>1. CASE Fails(pacer.seg)
      BY <2>1, FailsKeeps DEF PlayerOK, PacerType
    <2>2. CASE Left("pacer") /\ pacer' = [pacer EXCEPT !.pc = "write"]
      BY <2>2, LeftKeeps DEF PlayerOK, PacerType, TasksOK
    <2>3. QED
      BY <2>1, <2>2 DEF Begin
  <1>b. bind' \in BindType /\ bind'.gen \in Nat
    <2>1. bind \in BindType /\ bind.gen + 1 \in Nat
      BY DEF OutputOK, BindType
    <2>2. [bind EXCEPT !.gen = bind.gen + 1] \in BindType
      BY <2>1 DEF BindType
    <2>3. bind' \in {bind, [[bind EXCEPT !.gen = bind.gen + 1] EXCEPT !.out = "buffering"]}
      BY DEF Begin, OutputOK, BindType
    <2>4. bind' \in BindType
      BY <2>1, <2>2, <2>3 DEF BindType
    <2>5. QED
      BY <2>4 DEF BindType
  <1>c. strm' \in StreamType
    BY <1>b DEF Begin, PlayerOK, StreamType
  <1>1. OutputOK'
    BY <1>a, <1>b DEF OutputOK, Begin
  <1>2. PlayerOK'
    BY <1>a, <1>c DEF PlayerOK, Begin
  <1>3. TasksOK'
    BY <1>a DEF TasksOK, Begin
  <1>4. GatingOK'
    BY BoundsAssumption DEF GatingOK, output, player, gating, Begin, Fails, Left
  <1>5. ProviderOK'
    BY BoundsAssumption DEF ProviderOK, ProvType, output, player, gating, Begin, Fails, Left
  <1>6. HistOK'
    BY BoundsAssumption DEF HistOK, HistType, output, player, gating, Begin, Fails, Left
  <1>7. QED
    BY <1>1, <1>2, <1>3, <1>4, <1>5, <1>6

LEMMA WriteKeeps == ASSUME TypeOK, Write PROVE TypeOK'
  <1>. USE DEF TypeOK
  <1>a. Frame(strm.id, pacer.seg) \in FrameType
    BY DEF Frame, FrameType, OutputOK, BindType, PlayerOK, StreamType, PacerType
  <1>1. OutputOK'
    BY <1>a DEF OutputOK, Write
  <1>2. PlayerOK'
    BY BoundsAssumption DEF PlayerOK, StreamType, PacerType, ItemType, output, player, gating, Write, Frame
  <1>3. TasksOK'
    BY BoundsAssumption DEF TasksOK, Tasks, output, player, gating, Write, Frame
  <1>4. GatingOK'
    BY BoundsAssumption DEF GatingOK, output, player, gating, Write, Frame
  <1>5. ProviderOK'
    BY BoundsAssumption DEF ProviderOK, ProvType, output, player, gating, Write, Frame
  <1>6. HistOK'
    BY BoundsAssumption DEF HistOK, HistType, output, player, gating, Write, Frame
  <1>7. QED
    BY <1>1, <1>2, <1>3, <1>4, <1>5, <1>6

LEMMA WriteRefusedKeeps == ASSUME TypeOK, WriteRefused PROVE TypeOK'
  <1>. USE DEF TypeOK
  <1>a. pacer' \in PacerType /\ tlock' \in Seq(Tasks)
    BY FailsKeeps DEF WriteRefused, PlayerOK, PacerType
  <1>1. OutputOK'
    BY <1>a, ClosedTyped DEF OutputOK, WriteRefused
  <1>2. PlayerOK'
    BY <1>a DEF PlayerOK, WriteRefused
  <1>3. TasksOK'
    BY <1>a DEF TasksOK, WriteRefused
  <1>4. GatingOK'
    BY BoundsAssumption DEF GatingOK, output, player, gating, WriteRefused, Fails, Left
  <1>5. ProviderOK'
    BY BoundsAssumption DEF ProviderOK, ProvType, output, player, gating, WriteRefused, Fails, Left
  <1>6. HistOK'
    <2>1. <<strm.id, pacer.seg>> \in Nat \X (0..Segments)
      BY DEF PlayerOK, StreamType, PacerType
    <2>2. QED
      BY <2>1 DEF HistOK, HistType, WriteRefused
  <1>7. QED
    BY <1>1, <1>2, <1>3, <1>4, <1>5, <1>6

LEMMA TakeBoundaryKeeps == ASSUME TypeOK, TakeBoundary PROVE TypeOK'
  <1>. USE DEF TypeOK
  <1>a. Head(src) \in ItemType /\ Tail(src) \in Seq(ItemType) /\ 0 \in 0..Segments
    BY BoundsAssumption DEF PlayerOK, TakeBoundary
  <1>b. /\ pacer' \in PacerType /\ tlock' \in Seq(Tasks)
        /\ bres' \in [1..Segments -> {"none", "ok", "bad"}] /\ strm' \in StreamType
    <2>1. CASE strm.gen # 0 /\ ~strm.stop /\ Ready
      <3>1. /\ strm' = [strm EXCEPT !.pend = Head(src).n] /\ UNCHANGED bres
            /\ pacer' = [pc |-> "finish", seg |-> 0] /\ Queued("pacer")
        BY <2>1 DEF TakeBoundary
      <3>2. tlock' \in Seq(Tasks)
        BY <3>1, QueuedKeeps DEF Tasks
      <3>3. strm' \in StreamType
        BY <1>a, <3>1 DEF PlayerOK, StreamType, ItemType
      <3>4. QED
        BY <1>a, <3>1, <3>2, <3>3 DEF PacerType, PlayerOK, TasksOK
    <2>2. CASE ~(strm.gen # 0 /\ ~strm.stop /\ Ready)
      <3>1. strm' \in StreamType
        <4>. DEFINE g == IF strm.stop THEN strm.gen ELSE 0
                    f == strm.failed \/ strm.gen # 0
        <4>1. strm \in StreamType /\ g \in Nat /\ f \in BOOLEAN
          BY DEF PlayerOK, StreamType
        <4>2. strm' = [[strm EXCEPT !.gen = g] EXCEPT !.failed = f]
          BY <2>2, <4>1 DEF TakeBoundary, StreamType
        <4>. HIDE DEF g, f
        <4>3. [strm EXCEPT !.gen = g] \in StreamType
          BY <4>1 DEF StreamType
        <4>4. QED
          BY <4>1, <4>2, <4>3 DEF StreamType
      <3>. DEFINE ok == strm.gen = 0 /\ ~strm.failed
      <3>2. Resolve(Head(src).n, ok) /\ ok \in BOOLEAN
        BY <2>2 DEF TakeBoundary
      <3>. HIDE DEF ok
      <3>3. QED
        BY <3>1, <3>2, ResolveKeeps
    <2>3. QED
      BY <2>1, <2>2
  <1>1. OutputOK'
    BY <1>b DEF OutputOK, TakeBoundary
  <1>2. PlayerOK'
    BY <1>a, <1>b DEF PlayerOK, TakeBoundary
  <1>3. TasksOK'
    BY <1>b DEF TasksOK, TakeBoundary
  <1>4. GatingOK'
    BY BoundsAssumption DEF GatingOK, output, player, gating, TakeBoundary, Resolve, Fails, Left, Queued
  <1>5. ProviderOK'
    BY BoundsAssumption DEF ProviderOK, ProvType, output, player, gating, TakeBoundary, Resolve, Fails, Left, Queued
  <1>6. HistOK'
    BY BoundsAssumption DEF HistOK, HistType, output, player, gating, TakeBoundary, Resolve, Fails, Left, Queued
  <1>7. QED
    BY <1>1, <1>2, <1>3, <1>4, <1>5, <1>6

LEMMA FinishKeeps == ASSUME TypeOK, Finish PROVE TypeOK'
  <1>. USE DEF TypeOK
  <1>a. 0 \in 0..Segments /\ bind.gen \in Nat
    BY BoundsAssumption DEF OutputOK, BindType
  <1>b. /\ pacer' \in PacerType /\ tlock' \in Seq(Tasks)
        /\ bres' \in [1..Segments -> {"none", "ok", "bad"}] /\ strm' \in StreamType
        /\ bind' \in BindType /\ queue' \in Seq(FrameType)
    <2>1. CASE Ready /\ Current
      <3>1. /\ bind' = [bind EXCEPT !.out = "finishing", !.fin = "wait"]
            /\ queue' = Append(queue, Marker("stop", bind.gen))
            /\ pacer' = [pacer EXCEPT !.pc = "finishing"] /\ Left("pacer") /\ UNCHANGED <<strm, bres>>
        BY <2>1 DEF Finish
      <3>2. bind' \in BindType
        BY <3>1 DEF OutputOK, BindType
      <3>3. Marker("stop", bind.gen) \in FrameType
        BY <1>a DEF Marker, FrameType
      <3>4. queue' \in Seq(FrameType)
        BY <3>1, <3>3 DEF OutputOK
      <3>5. QED
        BY <3>1, <3>2, <3>4, LeftKeeps DEF PacerType, PlayerOK, TasksOK
    <2>2. CASE ~(Ready /\ Current)
      BY <2>2, FinishedKeeps DEF Finish, OutputOK
    <2>3. QED
      BY <2>1, <2>2
  <1>1. OutputOK'
    BY <1>b DEF OutputOK, Finish
  <1>2. PlayerOK'
    BY <1>a, <1>b DEF PlayerOK, Finish
  <1>3. TasksOK'
    BY <1>b DEF TasksOK, Finish
  <1>4. GatingOK'
    BY BoundsAssumption DEF GatingOK, output, player, gating, Finish, Finished, Resolve, Fails, Left, Marker
  <1>5. ProviderOK'
    BY BoundsAssumption DEF ProviderOK, ProvType, output, player, gating, Finish, Finished, Resolve, Fails, Left,
       Marker
  <1>6. HistOK'
    BY BoundsAssumption DEF HistOK, HistType, output, player, gating, Finish, Finished, Resolve, Fails, Left, Marker
  <1>7. QED
    BY <1>1, <1>2, <1>3, <1>4, <1>5, <1>6

LEMMA FinishToldKeeps == ASSUME TypeOK, FinishTold PROVE TypeOK'
  <1>. USE DEF TypeOK
  <1>a. bind' \in BindType
    BY DEF FinishTold, OutputOK, BindType
  <1>b. /\ pacer' \in PacerType /\ tlock' \in Seq(Tasks)
        /\ bres' \in [1..Segments -> {"none", "ok", "bad"}] /\ strm' \in StreamType
    BY FinishedKeeps DEF FinishTold
  <1>1. OutputOK'
    BY <1>b, <1>a DEF OutputOK, FinishTold
  <1>2. PlayerOK'
    BY <1>a, <1>b DEF PlayerOK, FinishTold
  <1>3. TasksOK'
    BY <1>b DEF TasksOK, FinishTold
  <1>4. GatingOK'
    BY BoundsAssumption DEF GatingOK, output, player, gating, FinishTold, Finished, Resolve, Fails, Left
  <1>5. ProviderOK'
    BY BoundsAssumption DEF ProviderOK, ProvType, output, player, gating, FinishTold, Finished, Resolve, Fails, Left
  <1>6. HistOK'
    BY BoundsAssumption DEF HistOK, HistType, output, player, gating, FinishTold, Finished, Resolve, Fails, Left
  <1>7. QED
    BY <1>1, <1>2, <1>3, <1>4, <1>5, <1>6

LEMMA AbortLockedKeeps == ASSUME TypeOK, NEW t \in Bargers, AbortLocked(t) PROVE TypeOK'
  <1>. USE DEF TypeOK
  <1>. DEFINE fenced == [bind EXCEPT !.gen = @ + 1, !.out = "aborting", !.admission = FALSE,
                                  !.fin = IF @ = "wait" THEN "bad" ELSE @]
              flushed == [hist EXCEPT !.lost = @ \cup Frames(queue)]
  <1>a. fenced \in BindType /\ fenced.gen \in Nat
    <2>. DEFINE b1 == [bind EXCEPT !.gen = bind.gen + 1]
                b2 == [b1 EXCEPT !.out = "aborting"]
                b3 == [b2 EXCEPT !.admission = FALSE]
    <2>1. bind \in BindType /\ bind.gen + 1 \in Nat
      BY DEF OutputOK, BindType
    <2>2. b1 \in BindType
      BY <2>1 DEF BindType
    <2>3. fenced = [b3 EXCEPT !.fin = IF b3.fin = "wait" THEN "bad" ELSE b3.fin]
      BY <2>1 DEF BindType
    <2>. HIDE DEF b1
    <2>4. b3 \in BindType
      BY <2>2 DEF BindType
    <2>. HIDE DEF b3
    <2>5. fenced \in BindType
      BY <2>3, <2>4 DEF BindType
    <2>6. QED
      BY <2>5 DEF BindType
  <1>b. /\ \/ bind' = [fenced EXCEPT !.mk = "wait"] /\ queue' = <<Marker("mark", fenced.gen)>> /\ hist' = Cuts(t, flushed)
           \/ bind' = [fenced EXCEPT !.out = "failed", !.mk = "bad"] /\ UNCHANGED <<queue, hist>>
        /\ abt' = [abt EXCEPT ![t] = "wait"] /\ UNCHANGED <<tlock, acks, player, barge, gating, prov, made>>
    BY DEF AbortLocked
  <1>. HIDE DEF fenced
  <1>c. flushed \in HistType
    <2>1. Frames(queue) \subseteq Nat \X (0..Segments)
      BY FramesTyped DEF OutputOK
    <2>2. QED
      BY <2>1 DEF HistOK, HistType
  <1>. HIDE DEF flushed
  <1>1. OutputOK'
    <2>1. bind' \in BindType
      BY <1>a, <1>b DEF BindType
    <2>2. Marker("mark", fenced.gen) \in FrameType
      BY <1>a, BoundsAssumption DEF Marker, FrameType
    <2>3. <<Marker("mark", fenced.gen)>> \in Seq(FrameType)
      BY <2>2
    <2>4. queue' \in Seq(FrameType)
      BY <1>b, <2>3 DEF OutputOK
    <2>5. QED
      BY <1>b, <2>1, <2>4 DEF OutputOK
  <1>2. PlayerOK'
    BY BoundsAssumption DEF PlayerOK, StreamType, PacerType, ItemType, output, player, gating, AbortLocked, Marker,
       Cuts, Frames
  <1>3. TasksOK'
    BY BoundsAssumption DEF TasksOK, Tasks, output, player, gating, AbortLocked, Marker, Cuts, Frames
  <1>4. GatingOK'
    BY BoundsAssumption DEF GatingOK, output, player, gating, AbortLocked, Marker, Cuts, Frames
  <1>5. ProviderOK'
    BY BoundsAssumption DEF ProviderOK, ProvType, output, player, gating, AbortLocked, Marker, Cuts, Frames
  <1>6. HistOK'
    BY <1>b, <1>c, CutsTyped DEF HistOK
  <1>7. QED
    BY <1>1, <1>2, <1>3, <1>4, <1>5, <1>6

LEMMA BaredTyped == ASSUME TypeOK PROVE Bared \in HistType
  <1>1. \A n \in 1..prov.seg : <<strm.id, n>> \in Nat \X (1..Segments)
    BY SMTT(20), BoundsAssumption DEF TypeOK, PlayerOK, StreamType, ProviderOK, ProvType
  <1>2. {<<strm.id, n>> : n \in 1..prov.seg} \subseteq Nat \X (1..Segments)
    BY <1>1
  <1>3. QED
    BY <1>2 DEF Bared, TypeOK, HistOK, HistType

LEMMA WriteTimesOutKeeps == ASSUME TypeOK, WriteTimesOut PROVE TypeOK'
  <1>. USE DEF TypeOK
  <1>a. pacer' \in PacerType /\ tlock' \in Seq(Tasks)
    BY FailsKeeps DEF WriteTimesOut, PlayerOK, PacerType
  <1>1. OutputOK'
    BY <1>a, ClosedTyped DEF OutputOK, WriteTimesOut
  <1>2. PlayerOK'
    BY <1>a DEF PlayerOK, WriteTimesOut
  <1>3. TasksOK'
    BY <1>a DEF TasksOK, WriteTimesOut
  <1>4. GatingOK'
    BY BoundsAssumption DEF GatingOK, output, player, gating, WriteTimesOut, Closed, Fails, Left
  <1>5. ProviderOK'
    BY BoundsAssumption DEF ProviderOK, ProvType, output, player, gating, WriteTimesOut, Closed, Fails, Left
  <1>6. HistOK'
    BY BoundsAssumption DEF HistOK, HistType, output, player, gating, WriteTimesOut, Closed, Fails, Left
  <1>7. QED
    BY <1>1, <1>2, <1>3, <1>4, <1>5, <1>6

LEMMA FinishTimesOutKeeps == ASSUME TypeOK, FinishTimesOut PROVE TypeOK'
  <1>. USE DEF TypeOK
  <1>a. bind' \in BindType
    <2>1. Closed(bind) \in BindType
      BY ClosedTyped DEF OutputOK
    <2>2. QED
      BY <2>1 DEF FinishTimesOut, BindType
  <1>b. /\ pacer' \in PacerType /\ tlock' \in Seq(Tasks)
        /\ bres' \in [1..Segments -> {"none", "ok", "bad"}] /\ strm' \in StreamType
    BY FinishedKeeps DEF FinishTimesOut
  <1>1. OutputOK'
    BY <1>b, <1>a DEF OutputOK, FinishTimesOut
  <1>2. PlayerOK'
    BY <1>a, <1>b DEF PlayerOK, FinishTimesOut
  <1>3. TasksOK'
    BY <1>b DEF TasksOK, FinishTimesOut
  <1>4. GatingOK'
    BY BoundsAssumption DEF GatingOK, output, player, gating, FinishTimesOut, Closed, Finished, Resolve, Fails, Left
  <1>5. ProviderOK'
    BY BoundsAssumption DEF ProviderOK, ProvType, output, player, gating, FinishTimesOut, Closed, Finished,
       Resolve, Fails, Left
  <1>6. HistOK'
    BY BoundsAssumption DEF HistOK, HistType, output, player, gating, FinishTimesOut, Closed, Finished, Resolve,
       Fails, Left
  <1>7. QED
    BY <1>1, <1>2, <1>3, <1>4, <1>5, <1>6

LEMMA BargeBeginsKeeps == ASSUME TypeOK, NEW s \in Bargers, BargeBegins(s) PROVE TypeOK'
  <1>. USE DEF TypeOK
  <1>a. s \in Tasks
    BY DEF Tasks
  <1>b. tlock' \in Seq(Tasks) /\ abt' \in [Bargers -> {"no", "lock", "wait"}]
    BY <1>a, QueuedKeeps DEF BargeBegins, OutputOK, TasksOK
  <1>c. barge' \in [Bargers -> [pc : {"idle", "stop", "clear"}, sid : Nat]]
    <2>1. [pc |-> "stop", sid |-> strm.id] \in [pc : {"idle", "stop", "clear"}, sid : Nat]
      BY DEF PlayerOK, StreamType
    <2>2. QED
      BY <2>1 DEF BargeBegins, TasksOK
  <1>1. OutputOK'
    BY <1>b DEF OutputOK, BargeBegins
  <1>2. PlayerOK'
    BY BoundsAssumption DEF PlayerOK, StreamType, PacerType, ItemType, output, player, gating, BargeBegins, Queued
  <1>3. TasksOK'
    BY <1>b, <1>c DEF TasksOK
  <1>4. GatingOK'
    BY BoundsAssumption DEF GatingOK, output, player, gating, BargeBegins, Queued
  <1>5. ProviderOK'
    BY BoundsAssumption DEF ProviderOK, ProvType, output, player, gating, BargeBegins, Queued
  <1>6. HistOK'
    BY BoundsAssumption DEF HistOK, HistType, output, player, gating, BargeBegins, Queued
  <1>7. QED
    BY <1>1, <1>2, <1>3, <1>4, <1>5, <1>6

LEMMA BargeStopsKeeps == ASSUME TypeOK, NEW s \in Bargers, BargeStops(s) PROVE TypeOK'
  <1>. USE DEF TypeOK
  <1>a. /\ tlock' \in Seq(Tasks) /\ PlayerOK' /\ TasksOK' /\ prov' \in ProvType /\ HistOK'
        /\ gates' \subseteq [bd : 0..Segments, epoch : Nat, sid : Nat] /\ tokens' \subseteq Nat
    BY StoppedKeeps DEF BargeStops
  <1>b. bind' \in BindType
    BY FencedKeeps DEF BargeStops
  <1>1. OutputOK'
    BY <1>a, <1>b DEF OutputOK, BargeStops
  <1>2. PlayerOK'
    BY <1>a
  <1>3. TasksOK'
    BY <1>a
  <1>4. GatingOK'
    BY <1>a DEF GatingOK, BargeStops
  <1>5. ProviderOK'
    BY <1>a DEF ProviderOK, BargeStops
  <1>6. HistOK'
    BY <1>a
  <1>7. QED
    BY <1>1, <1>2, <1>3, <1>4, <1>5, <1>6

LEMMA BargeStopsClosedKeeps == ASSUME TypeOK, NEW s \in Bargers, BargeStopsClosed(s) PROVE TypeOK'
  <1>. USE DEF TypeOK
  <1>a. /\ tlock' \in Seq(Tasks) /\ PlayerOK' /\ TasksOK' /\ prov' \in ProvType /\ HistOK'
        /\ gates' \subseteq [bd : 0..Segments, epoch : Nat, sid : Nat] /\ tokens' \subseteq Nat
    BY StoppedKeeps DEF BargeStopsClosed
  <1>b. bind' \in BindType
    BY DEF BargeStopsClosed, OutputOK
  <1>1. OutputOK'
    BY <1>a, <1>b DEF OutputOK, BargeStopsClosed
  <1>2. PlayerOK'
    BY <1>a
  <1>3. TasksOK'
    BY <1>a
  <1>4. GatingOK'
    BY <1>a DEF GatingOK, BargeStopsClosed
  <1>5. ProviderOK'
    BY <1>a DEF ProviderOK, BargeStopsClosed
  <1>6. HistOK'
    BY <1>a
  <1>7. QED
    BY <1>1, <1>2, <1>3, <1>4, <1>5, <1>6

LEMMA BargeClearsKeeps == ASSUME TypeOK, NEW s \in Bargers, BargeClears(s) PROVE TypeOK'
  <1>. USE DEF TypeOK
  <1>1. OutputOK'
    BY BoundsAssumption DEF OutputOK, BindType, FrameType, output, player, gating, BargeClears
  <1>2. PlayerOK'
    BY BoundsAssumption DEF PlayerOK, StreamType, PacerType, ItemType, output, player, gating, BargeClears
  <1>3. TasksOK'
    BY BoundsAssumption DEF TasksOK, Tasks, output, player, gating, BargeClears
  <1>4. GatingOK'
    BY BoundsAssumption DEF GatingOK, output, player, gating, BargeClears
  <1>5. ProviderOK'
    BY BoundsAssumption DEF ProviderOK, ProvType, output, player, gating, BargeClears
  <1>6. HistOK'
    BY BaredTyped DEF HistOK, BargeClears
  <1>7. QED
    BY <1>1, <1>2, <1>3, <1>4, <1>5, <1>6

LEMMA ProvChunkKeeps == ASSUME TypeOK, ProvChunk PROVE TypeOK'
  <1>. USE DEF TypeOK
  <1>. DEFINE gated == IF segOn \/ strm.id = 0 THEN strm ELSE [strm EXCEPT !.epoch = @ + 1]
              starts == prov.q = "none" /\ strm.id = 0 /\ Ready
              q == IF starts THEN "live" ELSE IF prov.q = "none" THEN "other" ELSE prov.q
              read == q = "live" /\ (starts \/ strm.id # 0)
  <1>a. /\ Segment \in 1..Segments /\ prov.left > 0
        /\ made' = IF starts THEN [made EXCEPT !.streams = @ + 1] ELSE made
        /\ strm' = IF starts THEN [NoStream EXCEPT !.id = made.streams + 1] ELSE gated
        /\ pacer' = IF starts THEN [pc |-> "idle", seg |-> 0] ELSE pacer
        /\ src' = IF read THEN Append(src, Item("audio", Segment)) ELSE src
        /\ prov' = [prov EXCEPT !.seg = Segment, !.speaking = TRUE, !.left = @ - 1, !.q = q,
                                !.waits = @ \/ ~read]
        /\ tokens' \subseteq tokens \cup {strm.id, made.streams + 1}
        /\ drain' = [on |-> FALSE, toks |-> {}] /\ segOn' = TRUE /\ UNCHANGED <<output, bres, abt, barge, gates, hist>>
    BY DEF ProvChunk, StreamStarts
  <1>b. /\ 0 \in 0..Segments /\ Segment \in 0..Segments /\ strm.id \in Nat /\ made.streams + 1 \in Nat
        /\ prov.left - 1 \in 0..Chunks
    BY SMTT(20), BoundsAssumption, <1>a DEF PlayerOK, StreamType, ProviderOK, ProvType
  <1>c. gated \in StreamType
    BY DEF PlayerOK, StreamType
  <1>d. [NoStream EXCEPT !.id = made.streams + 1] \in StreamType
    BY <1>b DEF NoStream, StreamType
  <1>e. q \in {"none", "live", "other"} /\ read \in BOOLEAN
    BY DEF ProviderOK, ProvType
  <1>. HIDE DEF gated, starts, q, read
  <1>1. OutputOK'
    BY <1>a DEF OutputOK, output
  <1>2. PlayerOK'
    <2>1. strm' \in StreamType
      BY <1>a, <1>c, <1>d
    <2>2. pacer' \in PacerType
      BY <1>a, <1>b DEF PlayerOK, PacerType
    <2>3. Item("audio", Segment) \in ItemType
      BY <1>b DEF Item, ItemType
    <2>4. src' \in Seq(ItemType)
      BY <1>a, <2>3 DEF PlayerOK
    <2>5. QED
      BY <1>a, <2>1, <2>2, <2>4 DEF PlayerOK
  <1>3. TasksOK'
    BY <1>a DEF TasksOK
  <1>4. GatingOK'
    BY <1>a, <1>b DEF GatingOK
  <1>5. ProviderOK'
    <2>1. made' \in [streams : Nat, barges : 0..Barges]
      BY <1>a, <1>b DEF ProviderOK
    <2>2. (prov.waits \/ ~read) \in BOOLEAN
      BY <1>e DEF ProviderOK, ProvType
    <2>. DEFINE w == prov.waits \/ ~read
                p == [prov EXCEPT !.seg = Segment, !.speaking = TRUE, !.left = prov.left - 1, !.q = q]
    <2>3. p \in ProvType
      BY <1>b, <1>e DEF ProviderOK, ProvType
    <2>4. prov' = [p EXCEPT !.waits = w] /\ w \in BOOLEAN
      BY <1>a DEF ProviderOK, ProvType
    <2>. HIDE DEF p, w
    <2>5. prov' \in ProvType
      BY <2>3, <2>4 DEF ProvType
    <2>6. QED
      BY <2>1, <2>5 DEF ProviderOK
  <1>6. HistOK'
    BY <1>a DEF HistOK
  <1>7. QED
    BY <1>1, <1>2, <1>3, <1>4, <1>5, <1>6

LEMMA ProvDoneKeeps == ASSUME TypeOK, ProvDone PROVE TypeOK'
  <1>. USE DEF TypeOK
  <1>a. prov.seg \in 0..Segments /\ strm.epoch \in Nat /\ strm.id \in Nat
    BY DEF ProviderOK, ProvType, PlayerOK, StreamType
  <1>1. OutputOK'
    BY BoundsAssumption DEF OutputOK, BindType, FrameType, output, player, gating, ProvDone, Item
  <1>2. PlayerOK'
    <2>1. strm' \in StreamType
      BY <1>a DEF ProvDone, PlayerOK, StreamType
    <2>2. Item("bound", prov.seg) \in ItemType
      BY <1>a DEF Item, ItemType
    <2>a. src \in Seq(ItemType)
      BY DEF PlayerOK
    <2>b. src' = src \/ src' = Append(src, Item("bound", prov.seg))
      BY DEF ProvDone
    <2>3. src' \in Seq(ItemType)
      <3>. DEFINE it == Item("bound", prov.seg)
      <3>1. it \in ItemType /\ (src' = src \/ src' = Append(src, it))
        BY <2>2, <2>b
      <3>. HIDE DEF it
      <3>2. QED
        BY <2>a, <3>1
    <2>4. QED
      BY <2>1, <2>3 DEF ProvDone, PlayerOK
  <1>3. TasksOK'
    BY BoundsAssumption DEF TasksOK, Tasks, output, player, gating, ProvDone, Item
  <1>4. GatingOK'
    <2>1. [bd |-> prov.seg, epoch |-> strm.epoch, sid |-> strm.id] \in [bd : 0..Segments, epoch : Nat, sid : Nat]
      BY <1>a
    <2>2. gates' \subseteq [bd : 0..Segments, epoch : Nat, sid : Nat]
      BY <2>1 DEF ProvDone, GatingOK
    <2>3. drain' \in [on : BOOLEAN, toks : SUBSET Nat]
      BY DEF ProvDone, GatingOK
    <2>4. QED
      BY <2>2, <2>3 DEF ProvDone, GatingOK
  <1>5. ProviderOK'
    BY BoundsAssumption DEF ProviderOK, ProvType, output, player, gating, ProvDone, Item
  <1>6. HistOK'
    BY BoundsAssumption DEF HistOK, HistType, output, player, gating, ProvDone, Item
  <1>7. QED
    BY <1>1, <1>2, <1>3, <1>4, <1>5, <1>6

LEMMA GateTaskKeeps == ASSUME TypeOK, NEW g \in gates, GateTask(g) PROVE TypeOK'
  <1>. USE DEF TypeOK
  <1>1. OutputOK'
    BY BoundsAssumption DEF OutputOK, BindType, FrameType, output, player, gating, GateTask
  <1>2. PlayerOK'
    BY BoundsAssumption DEF PlayerOK, StreamType, PacerType, ItemType, output, player, gating, GateTask
  <1>3. TasksOK'
    BY BoundsAssumption DEF TasksOK, Tasks, output, player, gating, GateTask
  <1>4. GatingOK'
    BY BoundsAssumption DEF GatingOK, output, player, gating, GateTask
  <1>5. ProviderOK'
    BY BoundsAssumption DEF ProviderOK, ProvType, output, player, gating, GateTask
  <1>6. HistOK'
    BY BoundsAssumption DEF HistOK, HistType, output, player, gating, GateTask
  <1>7. QED
    BY <1>1, <1>2, <1>3, <1>4, <1>5, <1>6

LEMMA DrainDoneKeeps == ASSUME TypeOK, DrainDone PROVE TypeOK'
  <1>. USE DEF TypeOK
  <1>1. OutputOK'
    BY BoundsAssumption DEF OutputOK, BindType, FrameType, output, player, gating, DrainDone, DrainClears
  <1>2. PlayerOK'
    BY BoundsAssumption DEF PlayerOK, StreamType, PacerType, ItemType, output, player, gating, DrainDone, DrainClears
  <1>3. TasksOK'
    BY BoundsAssumption DEF TasksOK, Tasks, output, player, gating, DrainDone, DrainClears
  <1>4. GatingOK'
    BY BoundsAssumption DEF GatingOK, output, player, gating, DrainDone, DrainClears
  <1>5. ProviderOK'
    BY BoundsAssumption DEF ProviderOK, ProvType, output, player, gating, DrainDone, DrainClears
  <1>6. HistOK'
    BY BoundsAssumption DEF HistOK, HistType, output, player, gating, DrainDone, DrainClears
  <1>7. QED
    BY <1>1, <1>2, <1>3, <1>4, <1>5, <1>6

LEMMA DrainTimesOutKeeps == ASSUME TypeOK, DrainTimesOut PROVE TypeOK'
  <1>. USE DEF TypeOK
  <1>1. OutputOK'
    BY BoundsAssumption DEF OutputOK, BindType, FrameType, output, player, gating, DrainTimesOut, DrainClears
  <1>2. PlayerOK'
    BY BoundsAssumption DEF PlayerOK, StreamType, PacerType, ItemType, output, player, gating, DrainTimesOut,
       DrainClears
  <1>3. TasksOK'
    BY BoundsAssumption DEF TasksOK, Tasks, output, player, gating, DrainTimesOut, DrainClears
  <1>4. GatingOK'
    BY BoundsAssumption DEF GatingOK, output, player, gating, DrainTimesOut, DrainClears
  <1>5. ProviderOK'
    BY BoundsAssumption DEF ProviderOK, ProvType, output, player, gating, DrainTimesOut, DrainClears
  <1>6. HistOK'
    BY BaredTyped DEF HistOK, DrainTimesOut
  <1>7. QED
    BY <1>1, <1>2, <1>3, <1>4, <1>5, <1>6
LEMMA Begins == ASSUME Init PROVE TypeOK
  <1>1. OutputOK
    <2>1. <<>> \in Seq(Tasks) /\ <<>> \in Seq(FrameType)
      OBVIOUS
    <2>2. QED
      BY <2>1 DEF Init, OutputOK, BindType
  <1>2. PlayerOK
    <2>1. NoStream \in StreamType
      BY BoundsAssumption DEF NoStream, StreamType
    <2>2. <<>> \in Seq(ItemType) /\ 0 \in 0..Segments
      BY BoundsAssumption
    <2>3. QED
      BY <2>1, <2>2 DEF Init, PlayerOK, PacerType
  <1>3. TasksOK
    BY DEF Init, TasksOK
  <1>4. GatingOK
    BY DEF Init, GatingOK
  <1>5. ProviderOK
    BY BoundsAssumption DEF Init, ProviderOK, ProvType
  <1>6. HistOK
    BY DEF Init, HistOK, HistType
  <1>7. QED
    BY <1>1, <1>2, <1>3, <1>4, <1>5, <1>6 DEF TypeOK

LEMMA StuttersKeep == ASSUME TypeOK, UNCHANGED vars PROVE TypeOK'
  BY DEF TypeOK, OutputOK, PlayerOK, TasksOK, GatingOK, ProviderOK, HistOK, vars, output, player, gating

LEMMA NextKeeps == ASSUME TypeOK, Next PROVE TypeOK'
  <1>1. CASE SocketCloses \/ Xoff \/ Asterisk
    BY <1>1, SocketClosesKeeps, XoffKeeps, XonKeeps, PlayKeeps, ToldKeeps DEF Asterisk
  <1>2. CASE Pacing
    BY <1>2, TakeAudioKeeps, AdmittedKeeps, GoAroundKeeps, BeginKeeps, WriteKeeps, WriteRefusedKeeps,
       TakeBoundaryKeeps, FinishKeeps, FinishToldKeeps DEF Pacing
  <1>3. CASE TimesOut
    BY <1>3, WriteTimesOutKeeps, FinishTimesOutKeeps DEF TimesOut
  <1>4. CASE \E s \in Bargers : BargeBegins(s) \/ Barging(s)
    <2>1. PICK s \in Bargers : BargeBegins(s) \/ Barging(s)
      BY <1>4
    <2>2. QED
      BY <2>1, BargeBeginsKeeps, AbortLockedKeeps, BargeStopsKeeps, BargeStopsClosedKeeps, BargeClearsKeeps
         DEF Barging
  <1>5. CASE ProvChunk \/ ProvDone
    BY <1>5, ProvChunkKeeps, ProvDoneKeeps
  <1>6. CASE \E g \in gates : GateTask(g)
    BY <1>6, GateTaskKeeps
  <1>7. CASE DrainDone \/ DrainTimesOut
    BY <1>7, DrainDoneKeeps, DrainTimesOutKeeps
  <1>8. QED
    BY <1>1, <1>2, <1>3, <1>4, <1>5, <1>6, <1>7 DEF Next

\* The binding, the stream, its pacer, the tasks, the gating tokens and the provider keep their
\* shape for every number of responses, chunks and interruptions.
THEOREM TypeCorrect == Spec => []TypeOK
  <1>1. Init => TypeOK
    BY Begins
  <1>2. TypeOK /\ [Next]_vars => TypeOK'
    BY NextKeeps, StuttersKeep
  <1>3. QED
    BY <1>1, <1>2, PTL DEF Spec

-----------------------------------------------------------------------------
(* A stale writer never speaks into a flushed or finished segment: nothing   *)
(* in Asterisk's queue is younger than the binding's generation, and while   *)
(* the output is buffering every marker in the queue is older.               *)

Dated == \A i \in DOMAIN queue : queue[i].g <= bind.gen
Open == bind.out = "buffering" => \A i \in DOMAIN queue : queue[i].k # "audio" => queue[i].g < bind.gen
Ordered == Dated /\ Open /\ NothingLate

(* Who may leave the fence: an aborting barger is at "stop", and one that    *)
(* has nothing to abort found the socket closed.                             *)

BargerAborts == \A s \in Bargers : abt[s] # "no" => barge[s].pc = "stop"
NothingToAbort == \A s \in Bargers : barge[s].pc = "stop" /\ abt[s] = "no" => ~Ready
FencesHeld == BargerAborts /\ NothingToAbort /\ NotStranded

LEMMA Types ==
  ASSUME TypeOK
  PROVE  bind.gen \in Nat /\ queue \in Seq(FrameType) /\ \A i \in DOMAIN queue : queue[i].g \in Nat
  <1>1. bind.gen \in Nat /\ queue \in Seq(FrameType)
    BY DEF TypeOK, OutputOK, BindType
  <1>2. \A i \in DOMAIN queue : queue[i] \in FrameType
    BY <1>1
  <1>3. QED
    BY <1>1, <1>2 DEF FrameType

\* A step that leaves the queue alone and does not open a generation keeps the order.
LEMMA OrderStays ==
  ASSUME TypeOK, TypeOK', Ordered, queue' = queue, bind'.gen >= bind.gen,
         bind'.out # "buffering" \/ (bind'.out = bind.out /\ bind'.gen = bind.gen)
  PROVE  Ordered'
  <1>1. NothingLate'
    BY DEF Ordered, NothingLate
  <1>2. bind'.gen \in Nat
    BY DEF TypeOK, OutputOK, BindType
  <1>3. Dated'
    BY Types, <1>2 DEF Ordered, Dated
  <1>4. Open'
    BY DEF Ordered, Open
  <1>5. QED
    BY <1>1, <1>3, <1>4 DEF Ordered

LEMMA PlayOrders == ASSUME TypeOK, Ordered, Play PROVE Ordered'
  <1>1. /\ bind' = bind /\ queue' = Tail(queue) /\ Len(queue) \in Nat /\ Len(queue') = Len(queue) - 1
        /\ \A i \in 1..Len(queue') : i + 1 \in 1..Len(queue) /\ queue'[i] = queue[i + 1]
    BY Types DEF Play
  <1>2. DOMAIN queue = 1..Len(queue) /\ DOMAIN queue' = 1..Len(queue')
    BY Types, <1>1
  <1>3. Dated' /\ Open'
    BY <1>1, <1>2 DEF Ordered, Dated, Open
  <1>4. NothingLate'
    <2>1. SUFFICES ASSUME NEW i \in DOMAIN queue', NEW j \in DOMAIN queue',
                          i < j, queue'[i].k # "audio", queue'[j].k = "audio"
                   PROVE  queue'[i].g < queue'[j].g
      BY DEF NothingLate
    <2>2. i + 1 \in DOMAIN queue /\ j + 1 \in DOMAIN queue /\ i + 1 < j + 1
      BY <1>1, <1>2, <2>1
    <2>3. QED
      BY <1>1, <1>2, <2>1, <2>2 DEF Ordered, NothingLate
  <1>5. QED
    BY <1>3, <1>4 DEF Ordered

\* What is appended is of the binding's generation, and a frame is appended only while it is open.
LEMMA AppendOrders ==
  ASSUME TypeOK, Ordered, NEW f \in FrameType, queue' = Append(queue, f), f.g = bind.gen,
         bind'.gen = bind.gen, f.k = "audio" => bind.out = "buffering",
         bind'.out = "buffering" => bind.out = "buffering" /\ f.k = "audio"
  PROVE  Ordered'
  <1>1. /\ Len(queue) \in Nat /\ DOMAIN queue = 1..Len(queue) /\ DOMAIN queue' = 1..(Len(queue) + 1)
        /\ \A i \in DOMAIN queue : queue'[i] = queue[i]
        /\ queue'[Len(queue) + 1] = f
    BY Types
  <1>2. \A i \in DOMAIN queue' : i \in DOMAIN queue \/ i = Len(queue) + 1
    BY <1>1
  <1>3. Dated'
    BY Types, <1>1, <1>2 DEF Ordered, Dated
  <1>4. Open'
    BY <1>1, <1>2 DEF Ordered, Open
  <1>5. NothingLate'
    <2>1. SUFFICES ASSUME NEW i \in DOMAIN queue', NEW j \in DOMAIN queue',
                          i < j, queue'[i].k # "audio", queue'[j].k = "audio"
                   PROVE  queue'[i].g < queue'[j].g
      BY DEF NothingLate
    <2>2. i \in DOMAIN queue
      BY <1>1, <2>1
    <2>3. CASE j \in DOMAIN queue
      BY <1>1, <2>1, <2>2, <2>3 DEF Ordered, NothingLate
    <2>4. CASE j = Len(queue) + 1
      BY <1>1, <2>1, <2>2, <2>4 DEF Ordered, Open
    <2>5. QED
      BY <1>2, <2>3, <2>4
  <1>6. QED
    BY <1>3, <1>4, <1>5 DEF Ordered

LEMMA BeginOrders == ASSUME TypeOK, TypeOK', Ordered, Begin PROVE Ordered'
  <1>1. CASE bind' = bind
    BY <1>1, Types, OrderStays DEF Begin
  <1>2. CASE bind' = [bind EXCEPT !.gen = @ + 1, !.out = "buffering"]
    <2>1. bind'.gen = bind.gen + 1 /\ queue' = queue
      BY <1>2 DEF Begin, TypeOK, OutputOK, BindType
    <2>2. \A i \in DOMAIN queue : queue[i].g < bind'.gen
      BY <2>1, Types DEF Ordered, Dated
    <2>3. Dated' /\ Open'
      BY <2>1, <2>2, Types DEF Dated, Open
    <2>4. NothingLate'
      BY <2>1 DEF Ordered, NothingLate
    <2>5. QED
      BY <2>3, <2>4 DEF Ordered
  <1>3. QED
    BY <1>1, <1>2 DEF Begin

LEMMA AbortOrders == ASSUME TypeOK, TypeOK', Ordered, NEW t \in Bargers, AbortLocked(t) PROVE Ordered'
  <1>. DEFINE fenced == [bind EXCEPT !.gen = @ + 1, !.out = "aborting", !.admission = FALSE,
                                     !.fin = IF @ = "wait" THEN "bad" ELSE @]
  <1>1. bind \in BindType /\ fenced.gen = bind.gen + 1 /\ fenced.out = "aborting"
    BY DEF TypeOK, OutputOK, BindType
  <1>2. CASE bind' = [fenced EXCEPT !.mk = "wait"] /\ queue' = <<Marker("mark", fenced.gen)>>
    <2>1. bind'.gen = bind.gen + 1 /\ bind'.out = "aborting"
      BY <1>1, <1>2 DEF BindType
    <2>2. DOMAIN queue' = {1} /\ queue'[1].g = bind'.gen /\ queue'[1].k = "mark"
      BY <1>1, <1>2, <2>1 DEF Marker
    <2>3. QED
      BY <2>1, <2>2, Types DEF Ordered, Dated, Open, NothingLate
  <1>3. CASE bind' = [fenced EXCEPT !.out = "failed", !.mk = "bad"] /\ queue' = queue
    <2>1. bind'.gen = bind.gen + 1 /\ bind'.out = "failed"
      BY <1>1, <1>3 DEF BindType
    <2>2. QED
      BY <1>3, <2>1, Types, OrderStays
  <1>4. QED
    BY <1>2, <1>3 DEF AbortLocked

LEMMA FinishOrders == ASSUME TypeOK, TypeOK', Ordered, Finish PROVE Ordered'
  <1>1. CASE bind' = bind /\ queue' = queue
    BY <1>1, Types, OrderStays
  <1>2. CASE /\ bind' = [bind EXCEPT !.out = "finishing", !.fin = "wait"]
             /\ queue' = Append(queue, Marker("stop", bind.gen))
    <2>. DEFINE m == Marker("stop", bind.gen)
    <2>1. m \in FrameType /\ m.g = bind.gen /\ m.k = "stop"
      BY Types, BoundsAssumption DEF Marker, FrameType
    <2>2. bind'.gen = bind.gen /\ bind'.out = "finishing" /\ queue' = Append(queue, m)
      BY <1>2 DEF TypeOK, OutputOK, BindType
    <2>. HIDE DEF m
    <2>3. QED
      BY <2>1, <2>2, AppendOrders
  <1>3. QED
    BY <1>1, <1>2 DEF Finish

LEMMA WriteOrders == ASSUME TypeOK, TypeOK', Ordered, Write PROVE Ordered'
  <1>. DEFINE f == Frame(strm.id, pacer.seg)
  <1>1. f \in FrameType /\ f.g = bind.gen /\ f.k = "audio"
    BY Types DEF Frame, FrameType, TypeOK, PlayerOK, StreamType, PacerType
  <1>2. bind' = bind /\ bind.out = "buffering" /\ queue' = Append(queue, f)
    BY DEF Write, Current
  <1>. HIDE DEF f
  <1>3. QED
    BY <1>1, <1>2, AppendOrders

\* The rest leaves the queue and the generation alone.
Quiet == queue' = queue /\ bind'.gen = bind.gen /\ (bind'.out = bind.out \/ bind'.out # "buffering")

LEMMA QuietOrders == ASSUME TypeOK, TypeOK', Ordered, Quiet PROVE Ordered'
  BY Types, OrderStays DEF Quiet

LEMMA ClosedIsQuiet == Closed(bind).out = "closed" /\ Closed(bind).gen = bind.gen
  BY DEF Closed

LEMMA FencedIsQuiet == ASSUME TypeOK, NEW ok, Fenced(ok) PROVE bind'.gen = bind.gen /\ (bind'.out = bind.out \/ bind'.out # "buffering")
  BY DEF Fenced, Closed, TypeOK, OutputOK, BindType

LEMMA NextOrders == ASSUME TypeOK, TypeOK', Ordered, Next PROVE Ordered'
  <1>1. CASE SocketCloses \/ Xoff \/ Asterisk
    <2>1. CASE Play
      BY <2>1, PlayOrders
    <2>2. CASE SocketCloses \/ Xoff \/ Xon \/ \E a \in acks : Told(a)
      <3>1. Quiet
        BY ZenonT(60), <2>2 DEF Quiet, SocketCloses, Xoff, Xon, Told, Closed, TypeOK, OutputOK, BindType
      <3>2. QED
        BY <3>1, QuietOrders
    <2>3. QED
      BY <1>1, <2>1, <2>2 DEF Asterisk
  <1>2. CASE Pacing
    <2>1. CASE TakeAudio \/ Admitted \/ GoAround \/ WriteRefused \/ TakeBoundary
      <3>1. queue' = queue /\ bind' = bind
        BY <2>1 DEF TakeAudio, Admitted, GoAround, WriteRefused, TakeBoundary
      <3>2. QED
        BY <3>1, QuietOrders DEF Quiet
    <2>2. CASE FinishTold
      <3>1. queue' = queue /\ bind'.gen = bind.gen /\ (bind'.out = bind.out \/ bind'.out = "idle")
        BY <2>2 DEF FinishTold, TypeOK, OutputOK, BindType
      <3>2. QED
        BY <3>1, QuietOrders DEF Quiet
    <2>3. QED
      BY <1>2, <2>1, <2>2, BeginOrders, WriteOrders, FinishOrders DEF Pacing
  <1>3. CASE TimesOut
    <2>1. queue' = queue /\ bind'.gen = bind.gen /\ bind'.out = "closed"
      BY <1>3 DEF TimesOut, WriteTimesOut, FinishTimesOut, Closed, TypeOK, OutputOK, BindType
    <2>2. QED
      BY <2>1, QuietOrders DEF Quiet
  <1>4. CASE \E s \in Bargers : BargeBegins(s) \/ Barging(s)
    <2>1. PICK s \in Bargers : BargeBegins(s) \/ Barging(s)
      BY <1>4
    <2>2. CASE AbortLocked(s)
      BY <2>2, AbortOrders
    <2>3. CASE BargeStops(s)
      BY <2>3, FencedIsQuiet, QuietOrders DEF BargeStops, Quiet
    <2>4. CASE BargeBegins(s) \/ BargeStopsClosed(s) \/ BargeClears(s)
      <3>1. queue' = queue /\ bind' = bind
        BY <2>4 DEF BargeBegins, BargeStopsClosed, BargeClears, output
      <3>2. QED
        BY <3>1, QuietOrders DEF Quiet
    <2>5. QED
      BY <2>1, <2>2, <2>3, <2>4 DEF Barging
  <1>5. CASE ProvChunk \/ ProvDone \/ (\E g \in gates : GateTask(g)) \/ DrainDone \/ DrainTimesOut
    <2>1. queue' = queue /\ bind' = bind
      BY <1>5 DEF ProvChunk, StreamStarts, ProvDone, GateTask, DrainDone, DrainTimesOut, DrainClears, output
    <2>2. QED
      BY <2>1, QuietOrders DEF Quiet
  <1>6. QED
    BY <1>1, <1>2, <1>3, <1>4, <1>5 DEF Next

\* No frame is behind the end marker of its own generation or the fence of a later one
\* (asterisk_websocket.py: the generation is checked under the lock of every write).
THEOREM StaleWritersAreSilent == Spec => []NothingLate
  <1>1. Init => TypeOK /\ Ordered
    <2>1. Init => Ordered
      BY DEF Init, Ordered, Dated, Open, NothingLate
    <2>2. QED
      BY <2>1, Begins
  <1>2. (TypeOK /\ Ordered) /\ [Next]_vars => (TypeOK /\ Ordered)'
    <2>1. ASSUME TypeOK, Ordered, UNCHANGED vars PROVE Ordered'
      BY <2>1 DEF vars, output, Ordered, Dated, Open, NothingLate
    <2>2. QED
      BY <2>1, NextKeeps, StuttersKeep, NextOrders
  <1>3. TypeOK /\ Ordered => NothingLate
    BY DEF Ordered
  <1>4. QED
    BY <1>1, <1>2, <1>3, PTL DEF Spec

\* A step in which only the binding changes, or nothing that the fence is about.
LEMMA OthersKeepFences ==
  ASSUME FencesHeld, barge' = barge, abt' = abt,
         (bind'.admission = bind.admission /\ bind'.state = bind.state) \/ bind'.state # "ready"
  PROVE  FencesHeld'
  BY DEF FencesHeld, BargerAborts, NothingToAbort, NotStranded, Ready

\* A fence that is left is open, or the socket is closed.
LEMMA FencedOpens ==
  ASSUME TypeOK, NEW ok, Fenced(ok)
  PROVE  /\ ~Ready' \/ bind'.admission
         /\ bind'.state = bind.state \/ bind'.state # "ready"
  BY DEF Fenced, Closed, Ready, TypeOK, OutputOK, BindType

LEMMA LockedFences == ASSUME TypeOK, FencesHeld, NEW s \in Bargers, AbortLocked(s) PROVE FencesHeld'
  <1>1. /\ abt[s] = "lock" /\ abt' = [abt EXCEPT ![s] = "wait"] /\ bind'.state = bind.state
        /\ UNCHANGED barge
    BY DEF AbortLocked, TypeOK, OutputOK, BindType
  <1>2. abt'[s] = "wait" /\ \A u \in Bargers : u # s => abt'[u] = abt[u]
    BY <1>1 DEF TypeOK, TasksOK
  <1>3. BargerAborts' /\ NothingToAbort'
    BY <1>1, <1>2 DEF FencesHeld, BargerAborts, NothingToAbort, Ready
  <1>4. NotStranded'
    BY <1>2 DEF NotStranded
  <1>5. QED
    BY <1>3, <1>4 DEF FencesHeld

\* The pacer leaves the fence to the bargers; what it times out on, it closes.
LEMMA PacingKeepsFences == ASSUME TypeOK, FencesHeld, Pacing \/ TimesOut PROVE FencesHeld'
  <1>1. barge' = barge /\ abt' = abt
    BY DEF Pacing, TimesOut, TakeAudio, Admitted, GoAround, Begin, Write, WriteRefused, TakeBoundary, Finish,
           FinishTold, WriteTimesOut, FinishTimesOut
  <1>2. CASE TakeAudio \/ Admitted \/ GoAround \/ Write \/ WriteRefused \/ TakeBoundary
    <2>1. bind' = bind
      BY <1>2 DEF TakeAudio, Admitted, GoAround, Write, WriteRefused, TakeBoundary
    <2>2. QED
      BY <1>1, <2>1, OthersKeepFences
  <1>3. CASE Begin \/ Finish \/ FinishTold
    <2>1. bind'.admission = bind.admission /\ bind'.state = bind.state
      BY <1>3 DEF Begin, Finish, FinishTold, TypeOK, OutputOK, BindType
    <2>2. QED
      BY <1>1, <2>1, OthersKeepFences
  <1>4. CASE TimesOut
    <2>1. bind'.state # "ready"
      BY <1>4 DEF TimesOut, WriteTimesOut, FinishTimesOut, Closed, TypeOK, OutputOK, BindType
    <2>2. QED
      BY <1>1, <2>1, OthersKeepFences
  <1>5. QED
    BY <1>2, <1>3, <1>4 DEF Pacing

\* A barger that stops has left its abort, and with it the fence.
LEMMA StoppedFences ==
  ASSUME TypeOK, FencesHeld, NEW s \in Bargers, NEW ok, Stopped(s, ok),
         ~Ready' \/ bind'.admission, bind'.state = bind.state \/ bind'.state # "ready"
  PROVE  FencesHeld'
  <1>1. /\ \A u \in Bargers : u # s => barge'[u] = barge[u] /\ abt'[u] = abt[u]
        /\ barge'[s].pc = "clear" /\ abt'[s] = "no"
    BY DEF Stopped, TypeOK, TasksOK
  <1>2. BargerAborts'
    BY <1>1 DEF FencesHeld, BargerAborts
  <1>3. NothingToAbort'
    BY <1>1 DEF FencesHeld, NothingToAbort, Ready
  <1>4. NotStranded'
    BY DEF NotStranded
  <1>5. QED
    BY <1>2, <1>3, <1>4 DEF FencesHeld

LEMMA BargingKeepsFences ==
  ASSUME TypeOK, FencesHeld, NEW s \in Bargers, BargeBegins(s) \/ Barging(s)
  PROVE  FencesHeld'
  <1>1. CASE BargeBegins(s)
    <2>1. /\ barge' = [barge EXCEPT ![s] = [pc |-> "stop", sid |-> strm.id]]
          /\ barge[s].pc = "idle" /\ UNCHANGED bind
          /\ IF Ready THEN abt' = [abt EXCEPT ![s] = "lock"] ELSE abt' = abt
      BY <1>1 DEF BargeBegins
    <2>2. abt[s] = "no"
      BY <2>1 DEF FencesHeld, BargerAborts, TypeOK, TasksOK
    <2>3. \A u \in Bargers : u # s => abt'[u] = abt[u]
      BY <2>1 DEF TypeOK, TasksOK
    <2>4. barge'[s].pc = "stop" /\ \A u \in Bargers : u # s => barge'[u] = barge[u]
      BY <2>1 DEF TypeOK, TasksOK
    <2>5. BargerAborts'
      BY <2>3, <2>4 DEF FencesHeld, BargerAborts
    <2>6. Ready => abt'[s] = "lock"
      BY <2>1 DEF TypeOK, TasksOK
    <2>7. NothingToAbort'
      BY <2>1, <2>3, <2>4, <2>6 DEF FencesHeld, NothingToAbort, Ready
    <2>8. NotStranded'
      BY <2>1, <2>2, <2>3 DEF FencesHeld, NotStranded, Ready
    <2>9. QED
      BY <2>5, <2>7, <2>8 DEF FencesHeld
  <1>2. CASE AbortLocked(s)
    BY <1>2, LockedFences
  <1>3. CASE BargeStops(s)
    BY <1>3, FencedOpens, StoppedFences DEF BargeStops
  <1>4. CASE BargeStopsClosed(s)
    <2>1. ~Ready /\ bind' = bind
      BY <1>4 DEF BargeStopsClosed, FencesHeld, NothingToAbort
    <2>2. QED
      BY <1>4, <2>1, StoppedFences DEF BargeStopsClosed, Ready
  <1>5. CASE BargeClears(s)
    <2>1. /\ barge' = [barge EXCEPT ![s] = [pc |-> "idle", sid |-> 0]] /\ barge[s].pc = "clear"
          /\ UNCHANGED <<bind, abt>>
      BY <1>5 DEF BargeClears, output
    <2>2. barge'[s].pc = "idle" /\ \A u \in Bargers : u # s => barge'[u] = barge[u]
      BY <2>1 DEF TypeOK, TasksOK
    <2>3. BargerAborts' /\ NothingToAbort' /\ NotStranded'
      BY <2>1, <2>2 DEF FencesHeld, BargerAborts, NothingToAbort, NotStranded, Ready
    <2>4. QED
      BY <2>3 DEF FencesHeld
  <1>6. QED
    BY <1>1, <1>2, <1>3, <1>4, <1>5 DEF Barging

LEMMA NextKeepsFences == ASSUME TypeOK, FencesHeld, Next PROVE FencesHeld'
  <1>1. CASE SocketCloses \/ Xoff \/ Asterisk
    <2>1. /\ UNCHANGED <<barge, abt>>
          /\ (bind'.admission = bind.admission /\ bind'.state = bind.state) \/ bind'.state # "ready"
      BY <1>1 DEF SocketCloses, Xoff, Asterisk, Play, Xon, Told, Closed, TypeOK, OutputOK, BindType
    <2>2. QED
      BY <2>1, OthersKeepFences
  <1>2. CASE Pacing \/ TimesOut
    BY <1>2, PacingKeepsFences
  <1>3. CASE \E s \in Bargers : BargeBegins(s) \/ Barging(s)
    BY <1>3, BargingKeepsFences
  <1>4. CASE ProvChunk \/ ProvDone \/ (\E g \in gates : GateTask(g)) \/ DrainDone \/ DrainTimesOut
    <2>1. UNCHANGED <<bind, barge, abt>>
      BY <1>4 DEF ProvChunk, StreamStarts, ProvDone, GateTask, DrainDone, DrainTimesOut, DrainClears, output
    <2>2. QED
      BY <2>1, OthersKeepFences
  <1>5. QED
    BY <1>1, <1>2, <1>3, <1>4 DEF Next

\* Admission is closed on a live socket only while an interruption waits for its fence
\* (asterisk_websocket.py, abort_output): the agent is not locked out of its own output.
THEOREM FenceIsLeft == Spec => []NotStranded
  <1>1. Init => TypeOK /\ FencesHeld
    <2>1. Init => FencesHeld
      BY DEF Init, FencesHeld, BargerAborts, NothingToAbort, NotStranded, Ready
    <2>2. QED
      BY <2>1, Begins
  <1>2. (TypeOK /\ FencesHeld) /\ [Next]_vars => (TypeOK /\ FencesHeld)'
    <2>1. ASSUME TypeOK, FencesHeld, UNCHANGED vars PROVE FencesHeld'
      BY <2>1, OthersKeepFences DEF vars, output
    <2>2. QED
      BY <2>1, NextKeeps, StuttersKeep, NextKeepsFences
  <1>3. TypeOK /\ FencesHeld => NotStranded
    BY DEF FencesHeld
  <1>4. QED
    BY <1>1, <1>2, <1>3, PTL DEF Spec

=============================================================================
