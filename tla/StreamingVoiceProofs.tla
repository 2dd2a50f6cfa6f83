----------------------- MODULE StreamingVoiceProofs -----------------------
(***************************************************************************)
(* What may be heard of the agent's voice, proved for any number of tasks  *)
(* that interrupt it and any number of segments, chunks and barge-ins.     *)
(*                                                                         *)
(* The invariant is built in layers, each inductive with those below it:   *)
(*   Locked   who waits for its fence is alone at the head of the lock,    *)
(*            and while anyone waits a live output is "aborting";          *)
(*   Streams  whose the present stream is, who stopped it, and that        *)
(*            numbers and generations met anywhere are not from the future;*)
(*   Voice    on a live socket what Asterisk has to play is the present    *)
(*            stream's present generation, and an answer for the present   *)
(*            generation means that it has nothing;                        *)
(*   InTurn   the lock is taken in order, so an interruption that does not *)
(*            stop the stream has fenced before the stream's output begins;*)
(*   Plays    a stream that nobody stops has its pacer, in step with the   *)
(*            output state, and the provider's queue;                      *)
(*   Segs     segments come in order: acknowledged, played, held by the    *)
(*            pacer, waiting for it, being said;                           *)
(*   Losses   a stream that lost a frame acknowledges no boundary;         *)
(*   Gated    a gate that opens capture is that of the last boundary;      *)
(*   Covered  with no token left, all there is to hear was given up.       *)
(* The frames and markers of Asterisk's queue are in order by Ordered, of  *)
(* the module below; the layers above it need only the set of frames.      *)
(***************************************************************************)
EXTENDS StreamingOutputProofs

\* The frames that Asterisk has to play: stream and segment; and what waits for the pacer.
Voices == Frames(queue)
Items == {src[i] : i \in DOMAIN src}

\* One task at a time is in an abort, the head of the lock.
HeadWaits == \A t \in Bargers : abt[t] = "wait" => Holds(t)
SomeWaits == \E t \in Bargers : abt[t] = "wait"
Aborting ==
  Ready => /\ bind.out \in {"idle", "buffering", "finishing", "aborting"}
           /\ SomeWaits => bind.out = "aborting"
           /\ bind.out = "aborting" => ~bind.admission
Locked == HeadWaits /\ Aborting

\* The head of the lock keeps it when another task leaves.
LEMMA HeadStays ==
  ASSUME NEW S, NEW q \in Seq(S), q # <<>>, NEW t, Head(q) # t
  PROVE  Without(q, t) # <<>> /\ Head(Without(q, t)) = Head(q)
  <1>1. CASE \A i \in 1..Len(q) : q[i] # t
    BY <1>1 DEF Without
  <1>2. CASE \E i \in 1..Len(q) : q[i] = t
    <2>. DEFINE at == CHOOSE i \in 1..Len(q) : q[i] = t
    <2>1. at \in 1..Len(q) /\ q[at] = t /\ Len(q) \in Nat /\ Head(q) = q[1]
      BY <1>2
    <2>2. Without(q, t) = [i \in 1..(Len(q) - 1) |-> IF i < at THEN q[i] ELSE q[i + 1]]
      BY <1>2 DEF Without
    <2>. HIDE DEF at
    <2>3. 1 < at
      BY <2>1
    <2>4. Without(q, t) \in Seq(S)
      BY Removed
    <2>5. 1 \in 1..(Len(q) - 1) /\ Without(q, t)[1] = q[1]
      BY <2>1, <2>2, <2>3
    <2>6. DOMAIN Without(q, t) = 1..(Len(q) - 1)
      BY <2>2
    <2>7. QED
      BY <2>1, <2>4, <2>5, <2>6
  <1>3. QED
    BY <1>1, <1>2

\* Who waits for its fence is the head of the lock, so it is alone.
LEMMA Alone ==
  ASSUME HeadWaits, NEW s \in Bargers, NEW t \in Bargers, abt[s] = "wait", abt[t] = "wait"
  PROVE  s = t
  BY DEF HeadWaits, Holds

LEMMA HeadKept ==
  ASSUME TypeOK, HeadWaits, \A t \in Bargers : abt'[t] = "wait" => abt[t] = "wait",
         \/ tlock' = tlock
         \/ \E u \in Tasks : tlock' = Append(tlock, u)
         \/ Left("pacer")
  PROVE  HeadWaits'
  <1>1. SUFFICES ASSUME NEW t \in Bargers, abt'[t] = "wait" PROVE Holds(t)'
    BY DEF HeadWaits
  <1>2. tlock \in Seq(Tasks) /\ tlock # <<>> /\ Head(tlock) = t /\ t # "pacer"
    BY <1>1, BargersAssumption DEF HeadWaits, Holds, TypeOK, OutputOK
  <1>3. CASE tlock' = tlock
    BY <1>2, <1>3 DEF Holds
  <1>4. ASSUME NEW u \in Tasks, tlock' = Append(tlock, u) PROVE Holds(t)'
    BY <1>2, <1>4 DEF Holds
  <1>5. CASE Left("pacer")
    BY <1>2, <1>5, HeadStays DEF Holds, Left
  <1>6. QED
    BY <1>3, <1>4, <1>5

LEMMA SocketClosesLocks == ASSUME TypeOK, FencesHeld, Locked, SocketCloses PROVE Locked'
  <1>1. HeadWaits'
    BY HeadKept DEF SocketCloses, Locked
  <1>2. Aborting'
    BY DEF SocketCloses, Closed, Aborting, Ready, TypeOK, OutputOK, BindType
  <1>3. QED
    BY <1>1, <1>2 DEF Locked

\* A step that leaves the aborts alone, and the fence of a live socket.
LEMMA OthersKeepLocked ==
  ASSUME TypeOK, Locked, abt' = abt, tlock' = tlock \/ (\E u \in Tasks : tlock' = Append(tlock, u)) \/ Left("pacer"),
         ~Ready' \/ (/\ bind'.state = bind.state /\ bind'.admission = bind.admission
                     /\ bind'.out = bind.out \/ (~SomeWaits /\ bind'.out \in {"idle", "buffering", "finishing"}))
  PROVE  Locked'
  <1>1. HeadWaits'
    BY HeadKept DEF Locked
  <1>2. SomeWaits' <=> SomeWaits
    BY DEF SomeWaits
  <1>3. Aborting'
    BY <1>2 DEF Locked, Aborting, Ready
  <1>4. QED
    BY <1>1, <1>3 DEF Locked

\* A fence that is up belongs to the binding's generation and to nobody's output.
LEMMA PacingLocks == ASSUME TypeOK, Locked, Pacing \/ TimesOut PROVE Locked'
  <1>1. CASE TakeAudio \/ Admitted \/ GoAround \/ Write \/ WriteRefused \/ TakeBoundary
    <2>1. bind' = bind /\ abt' = abt
      BY <1>1 DEF TakeAudio, Admitted, GoAround, Write, WriteRefused, TakeBoundary
    <2>2. tlock' = tlock \/ (\E u \in Tasks : tlock' = Append(tlock, u)) \/ Left("pacer")
      BY <1>1 DEF TakeAudio, Admitted, GoAround, Write, WriteRefused, TakeBoundary, Fails, Resolve, Queued, Tasks
    <2>3. QED
      BY <2>1, <2>2, OthersKeepLocked DEF Ready
  <1>2. CASE Begin \/ Finish \/ FinishTold
    <2>1. abt' = abt /\ bind'.state = bind.state /\ bind'.admission = bind.admission
      BY <1>2 DEF Begin, Finish, FinishTold, TypeOK, OutputOK, BindType
    <2>2. tlock' = tlock \/ Left("pacer")
      BY <1>2 DEF Begin, Finish, FinishTold, Fails, Finished, Resolve
    <2>3. bind'.out = bind.out \/ (~(Ready /\ bind.out = "aborting") /\ bind'.out \in {"idle", "buffering", "finishing"})
      BY <1>2 DEF Begin, Finish, FinishTold, Current, TypeOK, OutputOK, BindType
    <2>4. Ready /\ SomeWaits => bind.out = "aborting"
      BY DEF Locked, Aborting
    <2>5. QED
      BY <2>1, <2>2, <2>3, <2>4, OthersKeepLocked DEF Ready
  <1>3. CASE TimesOut
    <2>1. abt' = abt /\ ~Ready' /\ (tlock' = tlock \/ Left("pacer"))
      BY <1>3 DEF TimesOut, WriteTimesOut, FinishTimesOut, Closed, Ready, Fails, Finished, Resolve, TypeOK,
         OutputOK, BindType
    <2>2. QED
      BY <2>1, OthersKeepLocked
  <1>4. QED
    BY <1>1, <1>2, <1>3 DEF Pacing

LEMMA AbortLocks == ASSUME TypeOK, Locked, NEW s \in Bargers, AbortLocked(s) PROVE Locked'
  <1>1. /\ abt' = [abt EXCEPT ![s] = "wait"] /\ tlock' = tlock /\ Holds(s)
        /\ bind'.state = bind.state /\ bind'.admission = FALSE /\ (Ready => bind'.out = "aborting")
    BY DEF AbortLocked, TypeOK, OutputOK, BindType
  <1>2. HeadWaits'
    BY <1>1 DEF Locked, HeadWaits, Holds, TypeOK, TasksOK
  <1>3. Aborting'
    BY <1>1 DEF Aborting, Ready
  <1>4. QED
    BY <1>2, <1>3 DEF Locked

\* A barger that stops leaves the lock; nobody else waits unless it was not its own abort.
LEMMA StoppedLocks ==
  ASSUME TypeOK, HeadWaits, NEW s \in Bargers, NEW ok, Stopped(s, ok)
  PROVE  HeadWaits' /\ (abt[s] = "wait" => ~SomeWaits') /\ (SomeWaits' => SomeWaits)
  <1>1. /\ \A t \in Bargers : t # s => abt'[t] = abt[t]
        /\ abt'[s] = "no"
    BY DEF Stopped, TypeOK, TasksOK
  <1>2. abt[s] = "wait" => ~SomeWaits'
    BY <1>1, Alone DEF SomeWaits
  <1>3. HeadWaits'
    <2>1. SUFFICES ASSUME NEW t \in Bargers, abt'[t] = "wait" PROVE Holds(t)'
      BY DEF HeadWaits
    <2>2. t # s /\ tlock \in Seq(Tasks) /\ tlock # <<>> /\ Head(tlock) = t /\ t # "pacer"
      BY <1>1, <2>1, BargersAssumption DEF HeadWaits, Holds, TypeOK, OutputOK
    <2>3. tlock' = Without(tlock, s) \/ tlock' = Without(Without(tlock, "pacer"), s)
      BY DEF Stopped
    <2>4. Without(tlock, "pacer") \in Seq(Tasks) /\ Without(tlock, "pacer") # <<>> /\ Head(Without(tlock, "pacer")) = t
      BY <2>2, HeadStays, Removed
    <2>5. QED
      BY <2>2, <2>3, <2>4, HeadStays DEF Holds
  <1>4. QED
    BY <1>1, <1>2, <1>3 DEF SomeWaits

LEMMA BargingLocks ==
  ASSUME TypeOK, FencesHeld, Locked, NEW s \in Bargers, BargeBegins(s) \/ Barging(s)
  PROVE  Locked'
  <1>1. CASE BargeBegins(s)
    <2>1. /\ bind' = bind /\ \A t \in Bargers : abt'[t] = "wait" => abt[t] = "wait"
          /\ tlock' = tlock \/ \E u \in Tasks : tlock' = Append(tlock, u)
      BY <1>1 DEF BargeBegins, Queued, Tasks, TypeOK, TasksOK
    <2>2. HeadWaits'
      BY <2>1, HeadKept DEF Locked
    <2>3. SomeWaits' => SomeWaits
      BY <2>1 DEF SomeWaits
    <2>4. QED
      BY <2>1, <2>2, <2>3 DEF Locked, Aborting, Ready
  <1>2. CASE AbortLocked(s)
    BY <1>2, AbortLocks
  <1>3. CASE BargeStops(s)
    <2>1. HeadWaits' /\ ~SomeWaits'
      BY <1>3, StoppedLocks DEF BargeStops, Locked
    <2>2. Ready' => bind'.out = "idle"
      BY <1>3 DEF BargeStops, Fenced, Closed, Ready, TypeOK, OutputOK, BindType
    <2>3. QED
      BY <2>1, <2>2 DEF Locked, Aborting
  <1>4. CASE BargeStopsClosed(s)
    <2>1. HeadWaits' /\ bind' = bind /\ ~Ready
      BY <1>4, StoppedLocks DEF BargeStopsClosed, Locked, FencesHeld, NothingToAbort
    <2>2. QED
      BY <2>1 DEF Locked, Aborting, Ready
  <1>5. CASE BargeClears(s)
    <2>1. bind' = bind /\ abt' = abt /\ tlock' = tlock
      BY <1>5 DEF BargeClears, output
    <2>2. QED
      BY <2>1, OthersKeepLocked DEF Ready
  <1>6. QED
    BY <1>1, <1>2, <1>3, <1>4, <1>5 DEF Barging

LEMMA NextLocks == ASSUME TypeOK, FencesHeld, Locked, Next PROVE Locked'
  <1>1. CASE SocketCloses
    BY <1>1, SocketClosesLocks
  <1>2. CASE Xoff \/ Asterisk
    <2>1. abt' = abt /\ tlock' = tlock /\ bind'.state = bind.state /\ bind'.admission = bind.admission /\ bind'.out = bind.out
      BY <1>2 DEF Xoff, Asterisk, Play, Xon, Told, TypeOK, OutputOK, BindType
    <2>2. QED
      BY <2>1, OthersKeepLocked
  <1>3. CASE Pacing \/ TimesOut
    BY <1>3, PacingLocks
  <1>4. CASE \E s \in Bargers : BargeBegins(s) \/ Barging(s)
    BY <1>4, BargingLocks
  <1>5. CASE ProvChunk \/ ProvDone \/ (\E g \in gates : GateTask(g)) \/ DrainDone \/ DrainTimesOut
    <2>1. bind' = bind /\ abt' = abt /\ tlock' = tlock
      BY <1>5 DEF ProvChunk, StreamStarts, ProvDone, GateTask, DrainDone, DrainTimesOut, DrainClears, output
    <2>2. QED
      BY <2>1, OthersKeepLocked DEF Ready
  <1>6. QED
    BY <1>1, <1>2, <1>3, <1>4, <1>5 DEF Next

-----------------------------------------------------------------------------
(* What Asterisk's queue has of the agent's voice.                           *)

LEMMA PlayedVoices ==
  ASSUME NEW q \in Seq(FrameType), q # <<>>
  PROVE  Frames(Tail(q)) \subseteq Frames(q)
  <1>1. /\ DOMAIN Tail(q) = 1..(Len(q) - 1) /\ DOMAIN q = 1..Len(q) /\ Len(q) \in Nat
        /\ \A i \in 1..(Len(q) - 1) : Tail(q)[i] = q[i + 1] /\ i + 1 \in 1..Len(q)
    OBVIOUS
  <1>2. SUFFICES ASSUME NEW i \in DOMAIN Tail(q), Tail(q)[i].k = "audio"
                 PROVE  <<Tail(q)[i].sid, Tail(q)[i].n>> \in Frames(q)
    BY DEF Frames
  <1>3. i + 1 \in DOMAIN q /\ q[i + 1] = Tail(q)[i]
    BY <1>1, <1>2
  <1>4. QED
    BY <1>2, <1>3 DEF Frames

LEMMA SentVoices ==
  ASSUME NEW q \in Seq(FrameType), NEW f \in FrameType
  PROVE  Frames(Append(q, f)) = Frames(q) \cup (IF f.k = "audio" THEN {<<f.sid, f.n>>} ELSE {})
  <1>. DEFINE r == Append(q, f)
  <1>1. /\ DOMAIN r = DOMAIN q \cup {Len(q) + 1} /\ Len(q) + 1 \notin DOMAIN q
        /\ r[Len(q) + 1] = f /\ \A i \in DOMAIN q : r[i] = q[i]
    OBVIOUS
  <1>. HIDE DEF r
  <1>2. {j \in DOMAIN r : r[j].k = "audio"} = {j \in DOMAIN q : q[j].k = "audio"} \cup {j \in {Len(q) + 1} : f.k = "audio"}
    BY <1>1
  <1>3. Frames(r) = Frames(q) \cup {<<f.sid, f.n>> : j \in {i \in {Len(q) + 1} : f.k = "audio"}}
    BY <1>1, <1>2 DEF Frames
  <1>4. QED
    BY <1>3 DEF r

\* Only the pacer's frame is ever added.
LEMMA VoicesCome ==
  ASSUME TypeOK, Next
  PROVE  \/ Voices' \subseteq Voices
         \/ Write /\ Voices' = Voices \cup {<<strm.id, pacer.seg>>}
  <1>1. queue \in Seq(FrameType) /\ bind.gen \in Nat /\ 0 \in 0..Segments /\ 0 \in Nat
    BY BoundsAssumption, Types
  <1>2. ASSUME queue' = queue PROVE Voices' = Voices
    BY <1>2 DEF Voices
  <1>3. CASE Play
    BY <1>1, <1>3, PlayedVoices DEF Play, Voices
  <1>4. CASE Write
    <2>1. Frame(strm.id, pacer.seg) \in FrameType /\ queue' = Append(queue, Frame(strm.id, pacer.seg))
      BY <1>1, <1>4 DEF Write, Frame, FrameType, TypeOK, PlayerOK, StreamType, PacerType
    <2>2. Frames(queue') = Frames(queue) \cup {<<strm.id, pacer.seg>>}
      BY <1>1, <2>1, SentVoices DEF Frame
    <2>3. QED
      BY <1>4, <2>2 DEF Voices
  <1>5. CASE Finish
    <2>1. CASE queue' = queue
      BY <2>1, <1>2
    <2>2. CASE queue' = Append(queue, Marker("stop", bind.gen))
      <3>1. Marker("stop", bind.gen) \in FrameType /\ Marker("stop", bind.gen).k # "audio"
        BY <1>1 DEF Marker, FrameType
      <3>2. QED
        BY <1>1, <2>2, <3>1, SentVoices DEF Voices
    <2>3. QED
      BY <1>5, <2>1, <2>2 DEF Finish
  <1>6. ASSUME NEW s \in Bargers, AbortLocked(s) PROVE Voices' \subseteq Voices
    <2>1. CASE queue' = queue
      BY <2>1, <1>2
    <2>2. ASSUME NEW g, queue' = <<Marker("mark", g)>> PROVE Voices' = {}
      BY <2>2 DEF Voices, Frames, Marker
    <2>3. QED
      BY <1>6, <2>1, <2>2 DEF AbortLocked
  <1>7. CASE SocketCloses \/ Xoff \/ Asterisk
    BY <1>2, <1>3, <1>7 DEF SocketCloses, Xoff, Asterisk, Xon, Told
  <1>8. CASE Pacing \/ TimesOut
    BY <1>2, <1>4, <1>5, <1>8 DEF Pacing, TimesOut, TakeAudio, Admitted, GoAround, Begin, WriteRefused, TakeBoundary,
       FinishTold, WriteTimesOut, FinishTimesOut
  <1>9. CASE \E s \in Bargers : BargeBegins(s) \/ Barging(s)
    BY <1>2, <1>6, <1>9 DEF Barging, BargeBegins, BargeStops, BargeStopsClosed, BargeClears, output
  <1>10. CASE ProvChunk \/ ProvDone \/ (\E g \in gates : GateTask(g)) \/ DrainDone \/ DrainTimesOut
    BY <1>2, <1>10 DEF ProvChunk, StreamStarts, ProvDone, GateTask, DrainDone, DrainTimesOut, DrainClears, output
  <1>11. QED
    BY <1>7, <1>8, <1>9, <1>10 DEF Next

\* An abort on a live socket leaves nothing to be heard.
LEMMA AbortHushes == ASSUME TypeOK, NEW s, AbortLocked(s), Ready PROVE Voices' = {}
  BY DEF AbortLocked, Voices, Frames, Marker

LEMMA VoicesTyped == ASSUME TypeOK PROVE Voices \subseteq Nat \X (0..Segments)
  BY FramesTyped DEF Voices, TypeOK, OutputOK

-----------------------------------------------------------------------------
(* Where values come from.                                                   *)

LEMMA Fields ==
  ASSUME TypeOK
  PROVE  /\ strm.id \in Nat /\ strm.gen \in Nat /\ strm.epoch \in Nat
         /\ strm.stop \in BOOLEAN /\ strm.failed \in BOOLEAN /\ strm.bd \in 0..Segments /\ strm.pend \in 0..Segments
         /\ pacer.seg \in 0..Segments /\ bind.gen \in Nat /\ prov.seg \in 0..Segments /\ prov.speaking \in BOOLEAN
         /\ made.streams \in Nat /\ Segments \in Nat
         /\ \A s \in Bargers : barge[s].sid \in Nat
  BY BoundsAssumption DEF TypeOK, OutputOK, PlayerOK, TasksOK, ProviderOK, BindType, StreamType, PacerType, ProvType

LEMMA GenerationsGrow == ASSUME TypeOK, Next PROVE bind'.gen \in {bind.gen, bind.gen + 1}
  <1>1. CASE SocketCloses \/ Xoff \/ Asterisk
    BY <1>1 DEF SocketCloses, Xoff, Asterisk, Play, Xon, Told, Closed, TypeOK, OutputOK, BindType
  <1>2. CASE Pacing
    BY <1>2 DEF Pacing, TakeAudio, Admitted, GoAround, Begin, Write, WriteRefused, TakeBoundary, Finish, FinishTold,
       TypeOK, OutputOK, BindType
  <1>3. CASE TimesOut
    BY <1>3 DEF TimesOut, WriteTimesOut, FinishTimesOut, Closed, TypeOK, OutputOK, BindType
  <1>4. CASE \E s \in Bargers : BargeBegins(s) \/ Barging(s)
    <2>1. PICK s \in Bargers : BargeBegins(s) \/ Barging(s)
      BY <1>4
    <2>2. CASE AbortLocked(s)
      BY <2>2 DEF AbortLocked, TypeOK, OutputOK, BindType
    <2>3. CASE BargeStops(s)
      BY <2>3, FencedIsQuiet DEF BargeStops
    <2>4. CASE BargeBegins(s) \/ BargeStopsClosed(s) \/ BargeClears(s)
      BY <2>4 DEF BargeBegins, BargeStopsClosed, BargeClears, output
    <2>5. QED
      BY <2>1, <2>2, <2>3, <2>4 DEF Barging
  <1>5. CASE ProvChunk \/ ProvDone \/ (\E g \in gates : GateTask(g)) \/ DrainDone \/ DrainTimesOut
    BY <1>5 DEF ProvChunk, StreamStarts, ProvDone, GateTask, DrainDone, DrainTimesOut, DrainClears, output
  <1>6. QED
    BY <1>1, <1>2, <1>3, <1>4, <1>5 DEF Next

\* A stream is started when there is none, on a live socket; its number is new.
Starts ==
  /\ Ready /\ strm.id = 0 /\ prov.q = "none" /\ made'.streams = made.streams + 1
  /\ strm' = [NoStream EXCEPT !.id = made.streams + 1] /\ pacer' = [pc |-> "idle", seg |-> 0]
  /\ prov'.q = "live"

LEMMA ChunkStarts ==
  ASSUME TypeOK, ProvChunk
  PROVE  \/ Starts
         \/ /\ made'.streams = made.streams /\ pacer' = pacer
            /\ \/ strm' = strm
               \/ strm.id # 0 /\ ~segOn /\ strm' = [strm EXCEPT !.epoch = @ + 1]
  BY DEF ProvChunk, StreamStarts, Starts, TypeOK, ProviderOK, ProvType

\* Everyone else keeps the stream's number or removes the stream.
SameStream == strm'.id = strm.id /\ strm'.bd = strm.bd /\ strm'.epoch = strm.epoch

LEMMA PacerKeepsStream ==
  ASSUME TypeOK, Pacing \/ TimesOut
  PROVE  /\ SameStream /\ strm'.stop = strm.stop /\ (strm.failed => strm'.failed)
         /\ \/ strm'.gen \in {strm.gen, 0}
            \/ Begin /\ ~strm.stop /\ strm'.gen = bind'.gen
         /\ made' = made /\ barge' = barge /\ gates' = gates /\ hist'.silenced = hist.silenced /\ hist'.cut = hist.cut
  <1>1. CASE TakeAudio \/ Admitted \/ GoAround \/ Write \/ WriteTimesOut
    BY <1>1 DEF TakeAudio, Admitted, GoAround, Write, WriteTimesOut, SameStream, gating
  <1>2. CASE WriteRefused
    BY <1>2 DEF WriteRefused, SameStream, gating, TypeOK, HistOK, HistType
  <1>3. CASE Begin
    BY <1>3 DEF Begin, SameStream, gating, TypeOK, PlayerOK, StreamType
  <1>4. CASE TakeBoundary
    BY <1>4 DEF TakeBoundary, SameStream, gating, TypeOK, PlayerOK, StreamType
  <1>5. CASE Finish \/ FinishTold \/ FinishTimesOut
    BY <1>5 DEF Finish, FinishTold, FinishTimesOut, Finished, SameStream, gating, TypeOK, PlayerOK, StreamType
  <1>6. QED
    BY <1>1, <1>2, <1>3, <1>4, <1>5 DEF Pacing, TimesOut

-----------------------------------------------------------------------------
(* Whose the streams are.                                                    *)

\* Without a stream there is no pacer.
NoneYet == strm.id = 0 => strm = NoStream /\ pacer = [pc |-> "dead", seg |-> 0] /\ src = <<>>
\* A stopped stream has its stopper, and whose stop found the stream has stopped it.
Stoppers == {s \in Bargers : barge[s].pc = "stop" /\ barge[s].sid = strm.id}
StopOwned ==
  /\ strm.stop => strm.failed /\ Stoppers # {}
  /\ strm.id # 0 /\ Stoppers # {} => strm.stop
\* Streams and generations are numbered upwards.
Aged ==
  /\ strm.id <= made.streams /\ strm.gen <= bind.gen
  /\ \A s \in Bargers : barge[s].sid <= made.streams
  /\ \A x \in hist.silenced \cup hist.cut : x <= made.streams
  /\ \A x \in hist.lost \cup Voices : x[1] <= made.streams
  /\ \A g \in gates : g.sid <= made.streams
  /\ \A a \in acks : a.g <= bind.gen
Streams == NoneYet /\ StopOwned /\ Aged

LEMMA PacingNone == ASSUME TypeOK, NoneYet, Pacing \/ TimesOut PROVE NoneYet'
  <1>1. pacer.pc # "dead"
    BY DEF Pacing, TimesOut, TakeAudio, Admitted, GoAround, Begin, Write, WriteRefused, TakeBoundary, Finish,
       FinishTold,
       WriteTimesOut, FinishTimesOut
  <1>2. QED
    BY <1>1, PacerKeepsStream DEF NoneYet, SameStream

\* What a stop leaves of the stream: nothing, if it is the stopped one.
LEMMA StopLeaves ==
  ASSUME TypeOK, NEW s \in Bargers, NEW ok, Stopped(s, ok)
  PROVE  /\ \/ strm' = strm /\ pacer' = pacer /\ gates' = gates /\ bres' = bres /\ tokens' = tokens
               /\ ((barge[s].sid = 0 /\ src' = src) \/ (barge[s].sid # 0 /\ strm.id # barge[s].sid /\ StreamGone))
            \/ barge[s].sid # 0 /\ strm.id = barge[s].sid /\ StreamRemoved
         /\ barge' = [barge EXCEPT ![s].pc = "clear"]
         /\ hist'.silenced \subseteq hist.silenced \cup {barge[s].sid} /\ (~ok => hist'.silenced = hist.silenced)
         /\ hist'.cut = IF strm.id \notin {0, barge[s].sid} THEN hist.cut \cup {strm.id} ELSE hist.cut
         /\ hist'.lost = hist.lost
  <1>1. \/ strm' = strm /\ pacer' = pacer /\ gates' = gates /\ bres' = bres /\ tokens' = tokens
           /\ ((barge[s].sid = 0 /\ src' = src) \/ (barge[s].sid # 0 /\ strm.id # barge[s].sid /\ StreamGone))
        \/ barge[s].sid # 0 /\ strm.id = barge[s].sid /\ StreamRemoved
    <2>1. \/ barge[s].sid = 0 /\ UNCHANGED <<player, gates, tokens>>
          \/ barge[s].sid # 0 /\ strm.id = barge[s].sid /\ StreamRemoved
          \/ barge[s].sid # 0 /\ strm.id # barge[s].sid /\ StreamGone
      BY DEF Stopped
    <2>2. CASE barge[s].sid = 0 /\ UNCHANGED <<player, gates, tokens>>
      BY <2>2 DEF player
    <2>3. CASE barge[s].sid # 0 /\ strm.id = barge[s].sid /\ StreamRemoved
      BY <2>3
    <2>4. CASE barge[s].sid # 0 /\ strm.id # barge[s].sid /\ StreamGone
      <3>1. UNCHANGED <<strm, pacer, bres, gates, tokens>>
        BY <2>4 DEF StreamGone
      <3>2. QED
        BY <2>4, <3>1
    <2>5. QED
      BY <2>1, <2>2, <2>3, <2>4
  <1>2. barge' = [barge EXCEPT ![s].pc = "clear"]
    BY DEF Stopped
  <1>. DEFINE h == [hist EXCEPT !.silenced = IF ok THEN @ \cup {barge[s].sid} ELSE @]
  <1>3. hist' = Cuts(s, h)
    BY DEF Stopped
  <1>4. /\ h.lost = hist.lost /\ h.cut = hist.cut /\ h.silenced \subseteq hist.silenced \cup {barge[s].sid}
        /\ (~ok => h.silenced = hist.silenced)
        /\ h \in [lost : {hist.lost}, silenced : {h.silenced}, cut : {hist.cut}, bare : {h.bare}]
    BY DEF TypeOK, HistOK, HistType
  <1>. HIDE DEF h
  <1>5. /\ hist'.lost = h.lost /\ hist'.silenced = h.silenced
        /\ hist'.cut = IF strm.id \notin {0, barge[s].sid} THEN h.cut \cup {strm.id} ELSE h.cut
    BY <1>3, <1>4 DEF Cuts
  <1>6. QED
    BY <1>1, <1>2, <1>4, <1>5

LEMMA StoppedNone == ASSUME TypeOK, NoneYet, NEW s \in Bargers, NEW ok, Stopped(s, ok) PROVE NoneYet'
  <1>1. CASE StreamRemoved
    BY <1>1 DEF StreamRemoved, NoneYet, NoStream
  <1>2. CASE strm' = strm /\ pacer' = pacer /\ src' = src
    BY <1>2 DEF NoneYet
  <1>3. CASE strm' = strm /\ pacer' = pacer /\ StreamGone
    <2>1. src = <<>> => src' = <<>>
      BY <1>3 DEF StreamGone
    <2>2. QED
      BY <1>3, <2>1 DEF NoneYet
  <1>4. QED
    BY <1>1, <1>2, <1>3, StopLeaves

LEMMA NextNone == ASSUME TypeOK, NoneYet, Next PROVE NoneYet'
  <1>1. CASE SocketCloses \/ Xoff \/ Asterisk
    BY <1>1 DEF SocketCloses, Xoff, Asterisk, Play, Xon, Told, player, NoneYet
  <1>2. CASE Pacing \/ TimesOut
    BY <1>2, PacingNone
  <1>3. ASSUME NEW s \in Bargers, BargeBegins(s) \/ Barging(s) PROVE NoneYet'
    <2>1. CASE BargeBegins(s)
      BY <2>1 DEF BargeBegins, NoneYet, TypeOK, PlayerOK, StreamType
    <2>2. CASE AbortLocked(s) \/ BargeClears(s)
      BY <2>2 DEF AbortLocked, BargeClears, player, NoneYet
    <2>3. CASE BargeStops(s) \/ BargeStopsClosed(s)
      BY <2>3, StoppedNone DEF BargeStops, BargeStopsClosed
    <2>4. QED
      BY <1>3, <2>1, <2>2, <2>3 DEF Barging
  <1>4. CASE ProvChunk
    <2>1. CASE Starts
      BY <2>1, Fields DEF Starts, NoneYet, NoStream
    <2>2. CASE /\ strm.id # 0 /\ strm' = [strm EXCEPT !.epoch = @ + 1]
      BY <2>2 DEF NoneYet, TypeOK, PlayerOK, StreamType
    <2>3. CASE strm' = strm /\ pacer' = pacer /\ made'.streams = made.streams
      <3>1. strm.id = 0 => src' = src
        BY <1>4, <2>3, Fields DEF ProvChunk, StreamStarts, TypeOK, ProviderOK
      <3>2. QED
        BY <2>3, <3>1 DEF NoneYet
    <2>4. QED
      BY <1>4, <2>1, <2>2, <2>3, ChunkStarts
  <1>5. CASE ProvDone
    BY <1>5 DEF ProvDone, NoneYet, TypeOK, PlayerOK, StreamType
  <1>6. CASE (\E g \in gates : GateTask(g)) \/ DrainDone \/ DrainTimesOut
    BY <1>6 DEF GateTask, DrainDone, DrainTimesOut, DrainClears, player, NoneYet
  <1>7. QED
    BY <1>1, <1>2, <1>3, <1>4, <1>5, <1>6 DEF Next

\* The stream's stop flag and its stoppers change together.
LEMMA StopStays ==
  ASSUME StopOwned, strm'.id = strm.id, strm'.stop = strm.stop, strm.failed => strm'.failed, barge' = barge
  PROVE  StopOwned'
  BY DEF StopOwned, Stoppers

LEMMA BargingStops ==
  ASSUME TypeOK, NoneYet, StopOwned, FencesHeld, NEW s \in Bargers, BargeBegins(s) \/ Barging(s)
  PROVE  StopOwned'
  <1>1. CASE BargeBegins(s)
    <2>1. /\ barge' = [barge EXCEPT ![s] = [pc |-> "stop", sid |-> strm.id]] /\ strm'.id = strm.id
          /\ strm.id = 0 => strm' = strm
          /\ strm.id # 0 => strm'.stop /\ strm'.failed
      BY <1>1 DEF BargeBegins, TypeOK, PlayerOK, StreamType
    <2>2. s \in Stoppers'
      BY <2>1 DEF Stoppers, TypeOK, TasksOK
    <2>3. strm.id = 0 => ~strm'.stop
      BY <2>1 DEF NoneYet, NoStream
    <2>4. QED
      BY <2>1, <2>2, <2>3 DEF StopOwned
  <1>2. CASE AbortLocked(s)
    BY <1>2, StopStays DEF AbortLocked, player
  <1>3. CASE BargeStops(s) \/ BargeStopsClosed(s)
    <2>1. PICK ok : Stopped(s, ok)
      BY <1>3 DEF BargeStops, BargeStopsClosed
    <2>2. CASE StreamRemoved
      BY <2>2 DEF StreamRemoved, StopOwned, NoStream
    <2>3. CASE strm' = strm /\ (barge[s].sid = 0 \/ strm.id # barge[s].sid)
      <3>1. barge' = [barge EXCEPT ![s].pc = "clear"]
        BY <2>1, StopLeaves
      <3>2. strm.id # 0 => Stoppers' = Stoppers
        BY <2>3, <3>1 DEF Stoppers, TypeOK, TasksOK
      <3>3. strm.id = 0 => ~strm.stop
        BY DEF NoneYet, NoStream
      <3>4. QED
        BY <2>3, <3>2, <3>3 DEF StopOwned
    <2>4. QED
      BY <2>1, <2>2, <2>3, StopLeaves
  <1>4. CASE BargeClears(s)
    <2>1. barge' = [barge EXCEPT ![s] = [pc |-> "idle", sid |-> 0]] /\ strm' = strm /\ barge[s].pc = "clear"
      BY <1>4 DEF BargeClears, player
    <2>2. Stoppers' = Stoppers
      BY <2>1 DEF Stoppers, TypeOK, TasksOK
    <2>3. QED
      BY <2>1, <2>2 DEF StopOwned
  <1>5. QED
    BY <1>1, <1>2, <1>3, <1>4 DEF Barging

LEMMA NextStops == ASSUME TypeOK, NoneYet, StopOwned, FencesHeld, Aged, Next PROVE StopOwned'
  <1>1. CASE SocketCloses \/ Xoff \/ Asterisk
    BY <1>1, StopStays DEF SocketCloses, Xoff, Asterisk, Play, Xon, Told, player
  <1>2. CASE Pacing \/ TimesOut
    BY <1>2, PacerKeepsStream, StopStays DEF SameStream
  <1>3. CASE \E s \in Bargers : BargeBegins(s) \/ Barging(s)
    BY <1>3, BargingStops
  <1>4. CASE ProvChunk
    <2>1. CASE Starts
      <3>1. strm'.id = made.streams + 1 /\ ~strm'.stop /\ barge' = barge
        BY <1>4, <2>1 DEF Starts, NoStream, ProvChunk, StreamStarts
      <3>2. \A s \in Bargers : barge[s].sid # made.streams + 1
        <4>1. ASSUME NEW s \in Bargers PROVE barge[s].sid # made.streams + 1
          <5>1. barge[s].sid <= made.streams /\ barge[s].sid \in Nat /\ made.streams \in Nat
            BY Fields DEF Aged
          <5>2. QED
            BY <5>1
        <4>2. QED
          BY <4>1
      <3>3. QED
        BY <3>1, <3>2 DEF StopOwned, Stoppers
    <2>2. CASE strm' = strm \/ strm' = [strm EXCEPT !.epoch = @ + 1]
      <3>1. strm'.id = strm.id /\ strm'.stop = strm.stop /\ strm'.failed = strm.failed
        BY <2>2 DEF TypeOK, PlayerOK, StreamType
      <3>2. QED
        BY <1>4, <3>1, StopStays DEF ProvChunk, StreamStarts
    <2>3. QED
      BY <1>4, <2>1, <2>2, ChunkStarts
  <1>5. CASE ProvDone
    <2>1. strm'.id = strm.id /\ strm'.stop = strm.stop /\ strm'.failed = strm.failed
      BY <1>5 DEF ProvDone, TypeOK, PlayerOK, StreamType
    <2>2. QED
      BY <1>5, <2>1, StopStays DEF ProvDone
  <1>6. CASE (\E g \in gates : GateTask(g)) \/ DrainDone \/ DrainTimesOut
    BY <1>6, StopStays DEF GateTask, DrainDone, DrainTimesOut, DrainClears, player
  <1>7. QED
    BY <1>1, <1>2, <1>3, <1>4, <1>5, <1>6 DEF Next

\* A stream's number or generation seen anywhere was the stream's, or is new.
Origins ==
  /\ made'.streams \in {made.streams, made.streams + 1}
  /\ strm'.id \in {strm.id, 0, made'.streams}
  /\ strm'.gen \in {strm.gen, 0, bind'.gen}
  /\ \A s \in Bargers : barge'[s].sid \in {barge[s].sid, strm.id, 0}
  /\ \A x \in hist'.silenced : x \in hist.silenced \/ \E s \in Bargers : x = barge[s].sid
  /\ hist'.cut \subseteq hist.cut \cup {strm.id}
  /\ hist'.lost \subseteq hist.lost \cup Voices \cup {<<strm.id, pacer.seg>>}
  /\ \A g \in gates' : g \in gates \/ g.sid = strm.id
  /\ \A a \in acks' : a \in acks \/ \E i \in DOMAIN queue : a.g = queue[i].g

\* The steps that leave these alone.
LEMMA OthersOrigins ==
  ASSUME TypeOK, made'.streams = made.streams, strm'.id = strm.id, strm'.gen = strm.gen, barge' = barge,
         hist'.silenced = hist.silenced, hist'.cut = hist.cut, hist'.lost = hist.lost, gates' \subseteq gates,
         acks' \subseteq acks
  PROVE  Origins
  BY DEF Origins

LEMMA PacingOrigins == ASSUME TypeOK, Pacing \/ TimesOut PROVE Origins
  <1>1. acks' = acks
    BY DEF Pacing, TimesOut, TakeAudio, Admitted, GoAround, Begin, Write, WriteRefused, TakeBoundary, Finish,
       FinishTold,
       WriteTimesOut, FinishTimesOut
  <1>2. hist'.lost \subseteq hist.lost \cup {<<strm.id, pacer.seg>>}
    BY DEF Pacing, TimesOut, TakeAudio, Admitted, GoAround, Begin, Write, WriteRefused, TakeBoundary, Finish,
       FinishTold,
       WriteTimesOut, FinishTimesOut, TypeOK, HistOK, HistType
  <1>3. /\ strm'.id = strm.id /\ strm'.gen \in {strm.gen, 0, bind'.gen} /\ made' = made /\ barge' = barge /\ gates' = gates
        /\ hist'.silenced = hist.silenced /\ hist'.cut = hist.cut
    BY PacerKeepsStream DEF SameStream
  <1>4. QED
    BY <1>1, <1>2, <1>3 DEF Origins

LEMMA AbortHist ==
  ASSUME TypeOK, NEW s \in Bargers, AbortLocked(s)
  PROVE  /\ hist'.silenced = hist.silenced
         /\ hist'.lost = IF Ready THEN hist.lost \cup Voices ELSE hist.lost
         /\ hist'.cut = IF Ready /\ strm.id \notin {0, barge[s].sid} THEN hist.cut \cup {strm.id} ELSE hist.cut
  <1>. DEFINE h == [hist EXCEPT !.lost = @ \cup Frames(queue)]
  <1>1. /\ h.silenced = hist.silenced /\ h.cut = hist.cut /\ h.lost = hist.lost \cup Voices
        /\ h \in [lost : {h.lost}, silenced : {h.silenced}, cut : {h.cut}, bare : {h.bare}]
    BY DEF TypeOK, HistOK, HistType, Voices
  <1>2. hist' = IF Ready THEN Cuts(s, h) ELSE hist
    BY DEF AbortLocked
  <1>. HIDE DEF h
  <1>3. QED
    BY <1>1, <1>2 DEF Cuts

LEMMA BargingOrigins == ASSUME TypeOK, NEW s \in Bargers, BargeBegins(s) \/ Barging(s) PROVE Origins
  <1>1. CASE BargeBegins(s)
    <2>1. /\ barge' = [barge EXCEPT ![s] = [pc |-> "stop", sid |-> strm.id]] /\ made'.streams = made.streams
          /\ strm'.id = strm.id /\ strm'.gen = strm.gen /\ hist' = hist /\ gates' = gates /\ acks' = acks
      BY <1>1 DEF BargeBegins, gating, TypeOK, PlayerOK, StreamType, ProviderOK
    <2>2. QED
      BY <2>1 DEF Origins, TypeOK, TasksOK
  <1>2. CASE AbortLocked(s)
    <2>1. made' = made /\ strm' = strm /\ barge' = barge /\ gates' = gates /\ acks' = acks
      BY <1>2 DEF AbortLocked, player, gating
    <2>2. QED
      BY <1>2, <2>1, AbortHist DEF Origins
  <1>3. CASE BargeStops(s) \/ BargeStopsClosed(s)
    <2>1. PICK ok : Stopped(s, ok)
      BY <1>3 DEF BargeStops, BargeStopsClosed
    <2>2. made' = made /\ acks' = acks
      BY <1>3 DEF BargeStops, BargeStopsClosed
    <2>3. /\ strm' = strm \/ (strm'.id = 0 /\ strm'.gen = 0)
          /\ gates' \subseteq gates
      BY <2>1, StopLeaves DEF StreamRemoved, NoStream
    <2>4. \A t \in Bargers : barge'[t].sid = barge[t].sid
      BY <2>1, StopLeaves DEF TypeOK, TasksOK
    <2>5. /\ hist'.silenced \subseteq hist.silenced \cup {barge[s].sid}
          /\ hist'.cut \subseteq hist.cut \cup {strm.id} /\ hist'.lost = hist.lost
      BY <2>1, StopLeaves
    <2>6. QED
      BY <2>2, <2>3, <2>4, <2>5 DEF Origins
  <1>4. CASE BargeClears(s)
    <2>1. /\ barge' = [barge EXCEPT ![s] = [pc |-> "idle", sid |-> 0]] /\ made' = made /\ strm' = strm
          /\ gates' = gates /\ acks' = acks
          /\ hist'.silenced = hist.silenced /\ hist'.cut = hist.cut /\ hist'.lost = hist.lost
      BY <1>4 DEF BargeClears, Bared, player, output, TypeOK, HistOK, HistType
    <2>2. QED
      BY <2>1 DEF Origins, TypeOK, TasksOK
  <1>5. QED
    BY <1>1, <1>2, <1>3, <1>4 DEF Barging

LEMMA NextOrigins == ASSUME TypeOK, Next PROVE Origins
  <1>1. CASE SocketCloses \/ Xoff \/ Xon \/ \E a \in acks : Told(a)
    BY <1>1, OthersOrigins DEF SocketCloses, Xoff, Xon, Told, player, gating
  <1>2. CASE Play
    <2>1. \A a \in acks' : a \in acks \/ \E i \in DOMAIN queue : a.g = queue[i].g
      <3>1. queue \in Seq(FrameType) /\ queue # <<>>
        BY <1>2, Types DEF Play
      <3>2. 1 \in DOMAIN queue /\ Head(queue) = queue[1]
        BY <3>1
      <3>3. QED
        BY <1>2, <3>2 DEF Play
    <2>2. QED
      BY <1>2, <2>1 DEF Play, player, gating, Origins
  <1>3. CASE Pacing \/ TimesOut
    BY <1>3, PacingOrigins
  <1>4. CASE \E s \in Bargers : BargeBegins(s) \/ Barging(s)
    BY <1>4, BargingOrigins
  <1>5. CASE ProvChunk
    <2>1. barge' = barge /\ hist' = hist /\ gates' = gates /\ acks' = acks
      BY <1>5 DEF ProvChunk, StreamStarts, output
    <2>2. CASE Starts
      BY <2>1, <2>2 DEF Starts, NoStream, Origins
    <2>3. CASE made'.streams = made.streams /\ (strm' = strm \/ strm' = [strm EXCEPT !.epoch = @ + 1])
      <3>1. strm'.id = strm.id /\ strm'.gen = strm.gen
        BY <2>3 DEF TypeOK, PlayerOK, StreamType
      <3>2. QED
        BY <2>1, <2>3, <3>1 DEF Origins
    <2>4. QED
      BY <1>5, <2>2, <2>3, ChunkStarts
  <1>6. CASE ProvDone
    <2>1. /\ barge' = barge /\ hist' = hist /\ acks' = acks /\ made' = made
          /\ \A g \in gates' : g \in gates \/ g.sid = strm.id
          /\ strm'.id = strm.id /\ strm'.gen = strm.gen
      BY <1>6 DEF ProvDone, output, TypeOK, PlayerOK, StreamType
    <2>2. QED
      BY <2>1 DEF Origins
  <1>7. CASE (\E g \in gates : GateTask(g)) \/ DrainDone \/ DrainTimesOut
    <2>1. /\ made' = made /\ strm' = strm /\ barge' = barge /\ gates' \subseteq gates /\ acks' = acks
          /\ hist'.silenced = hist.silenced /\ hist'.cut = hist.cut /\ hist'.lost = hist.lost
      BY <1>7 DEF GateTask, DrainDone, DrainTimesOut, DrainClears, Bared, player, output, TypeOK, HistOK, HistType
    <2>2. QED
      BY <2>1, OthersOrigins
  <1>8. QED
    BY <1>1, <1>2, <1>3, <1>4, <1>5, <1>6, <1>7 DEF Next, Asterisk

LEMMA NextAges == ASSUME TypeOK, TypeOK', Ordered, Aged, Next PROVE Aged'
  <1>1. /\ made.streams \in Nat /\ bind.gen \in Nat /\ made'.streams \in {made.streams, made.streams + 1}
        /\ bind'.gen \in {bind.gen, bind.gen + 1} /\ made'.streams \in Nat /\ bind'.gen \in Nat
    BY NextOrigins, GenerationsGrow, Fields DEF Origins, TypeOK, ProviderOK
  <1>2. \A n \in Nat : n <= made.streams => n <= made'.streams
    BY <1>1
  <1>3. \A n \in Nat : n <= bind.gen => n <= bind'.gen
    BY <1>1
  <1>4. strm.id \in Nat /\ strm.gen \in Nat /\ 0 \in Nat /\ \A s \in Bargers : barge[s].sid \in Nat
    BY Fields
  <1>5. strm.id <= made'.streams /\ \A s \in Bargers : barge[s].sid <= made'.streams
    BY <1>2, <1>4 DEF Aged
  <1>6. strm'.id <= made'.streams
    BY <1>1, <1>5, NextOrigins DEF Origins
  <1>7. strm'.gen <= bind'.gen
    BY <1>1, <1>3, <1>4, NextOrigins DEF Origins, Aged
  <1>8. \A s \in Bargers : barge'[s].sid <= made'.streams
    BY <1>1, <1>5, NextOrigins DEF Origins
  <1>9. \A x \in hist'.silenced \cup hist'.cut : x <= made'.streams
    <2>1. hist.silenced \subseteq Nat /\ hist.cut \subseteq Nat
      BY DEF TypeOK, HistOK, HistType
    <2>2. QED
      BY <1>2, <1>5, <2>1, NextOrigins DEF Origins, Aged
  <1>10. \A x \in hist'.lost \cup Voices' : x[1] <= made'.streams
    <2>1. hist.lost \subseteq Nat \X (0..Segments) /\ Voices \subseteq Nat \X (0..Segments)
      BY VoicesTyped DEF TypeOK, HistOK, HistType
    <2>2. \A x \in hist'.lost \cup Voices' : x \in hist.lost \cup Voices \/ x = <<strm.id, pacer.seg>>
      BY VoicesCome, NextOrigins DEF Origins
    <2>3. \A x \in hist.lost \cup Voices : x[1] <= made'.streams
      BY <1>2, <2>1 DEF Aged
    <2>4. <<strm.id, pacer.seg>>[1] <= made'.streams
      BY <1>5
    <2>5. QED
      BY <2>2, <2>3, <2>4
  <1>11. \A g \in gates' : g.sid <= made'.streams
    <2>1. \A g \in gates : g.sid \in Nat
      BY DEF TypeOK, GatingOK
    <2>2. QED
      BY <1>2, <1>5, <2>1, NextOrigins DEF Origins, Aged
  <1>12. \A a \in acks' : a.g <= bind'.gen
    <2>1. /\ \A a \in acks : a.g \in Nat /\ a.g <= bind.gen
          /\ \A i \in DOMAIN queue : queue[i].g \in Nat /\ queue[i].g <= bind.gen
      <3>1. \A i \in DOMAIN queue : queue[i] \in FrameType
        BY Types
      <3>2. \A i \in DOMAIN queue : queue[i].g \in Nat
        BY <3>1 DEF FrameType
      <3>3. \A a \in acks : a.g \in Nat
        BY DEF TypeOK, OutputOK
      <3>4. QED
        BY <3>2, <3>3 DEF Aged, Ordered, Dated
    <2>2. QED
      BY <1>3, <2>1, NextOrigins DEF Origins
  <1>13. QED
    BY <1>6, <1>7, <1>8, <1>9, <1>10, <1>11, <1>12 DEF Aged

-----------------------------------------------------------------------------
(* What is in Asterisk's queue is the present stream's present generation.   *)

Silence == Voices = {}
\* While the output is buffering, the stream writes in the binding's generation, or it was
\* stopped as it began and wrote nothing.
Writing ==
  Ready /\ bind.out = "buffering" =>
    /\ strm.id # 0
    /\ \/ strm.gen = bind.gen /\ strm.gen # 0 /\ pacer.pc \notin {"admit", "begin", "finishing"}
       \/ strm.stop /\ pacer.pc = "dead" /\ Silence
\* While it is finishing, the pacer waits for the answer, which no abort has spoilt.
Finishing ==
  Ready /\ bind.out = "finishing" =>
    bind.fin \in {"wait", "ok"} /\ pacer.pc = "finishing" /\ strm.gen = bind.gen /\ strm.gen # 0
Heard == Ready /\ ~Silence => bind.out \in {"buffering", "finishing"} /\ \A v \in Voices : v[1] = strm.id
\* An answer of the present generation: nothing is behind its marker, and nobody writes.
Acked == \A a \in acks : a.g = bind.gen => Silence /\ bind.out # "buffering"
FinAcked == pacer.pc = "finishing" => bind.fin # "none" /\ (bind.fin = "ok" => Silence)
\* A stream that has no generation, and did not fail, has nothing to be heard.
Unspoken == strm.id # 0 /\ strm.gen = 0 /\ ~strm.failed => Silence
\* Behind a fence that is waited for there is nothing, unless it can no longer be confirmed.
WaitSilent == SomeWaits => Silence \/ (~Ready /\ bind.mk # "ok")
Silenced == (\A v \in Voices : v[1] \notin hist.silenced) /\ (strm.id \in hist.silenced => strm.id = 0)
Voice == Writing /\ Finishing /\ Heard /\ Acked /\ FinAcked /\ Unspoken /\ WaitSilent /\ Silenced

\* The steps that neither speak nor move the output or the pacer.
LEMMA OthersKeepVoice ==
  ASSUME Voice, bind'.state = bind.state, bind'.gen = bind.gen, bind'.out = bind.out, bind'.fin = bind.fin,
         bind'.mk = bind.mk, Voices' \subseteq Voices, acks' \subseteq acks, pacer' = pacer,
         strm'.id = strm.id, strm'.gen = strm.gen, strm.stop => strm'.stop, strm.id # 0 /\ strm.failed => strm'.failed,
         SomeWaits' => SomeWaits, hist'.silenced = hist.silenced
  PROVE  Voice'
  <1>1. Silence => Silence'
    BY DEF Silence
  <1>2. Writing' /\ Finishing' /\ Heard'
    BY <1>1 DEF Voice, Writing, Finishing, Heard, Ready, Silence
  <1>3. Acked' /\ FinAcked' /\ Unspoken' /\ WaitSilent' /\ Silenced'
    BY <1>1 DEF Voice, Acked, FinAcked, Unspoken, WaitSilent, Silenced, Ready
  <1>4. QED
    BY <1>2, <1>3 DEF Voice

\* A step after which the socket is closed, and which neither speaks nor answers.
LEMMA ClosingKeepsVoice ==
  ASSUME TypeOK, Voice, Ready, bind' = Closed(bind) \/ bind' = [Closed(bind) EXCEPT !.fin = "none"], Voices' = Voices,
         acks' = acks, SomeWaits' => SomeWaits, hist'.silenced = hist.silenced, strm'.id = strm.id,
         (pacer' = pacer /\ bind' = Closed(bind)) \/ pacer'.pc = "dead", strm' = strm \/ strm'.failed
  PROVE  Voice'
  <1>1. /\ ~Ready' /\ bind'.out = "closed" /\ bind'.gen = bind.gen /\ bind'.mk # "wait"
        /\ (bind'.mk = "ok" => bind.mk = "ok")
    BY DEF Closed, Ready, TypeOK, OutputOK, BindType
  <1>2. pacer'.pc = "finishing" => pacer' = pacer /\ bind'.fin = IF bind.fin = "wait" THEN "bad" ELSE bind.fin
    BY DEF Closed, TypeOK, OutputOK, BindType
  <1>3. Silence' <=> Silence
    BY DEF Silence
  <1>4. Writing' /\ Finishing' /\ Heard' /\ Acked'
    BY <1>1, <1>3 DEF Writing, Finishing, Heard, Acked, Voice
  <1>5. FinAcked'
    BY <1>2, <1>3 DEF FinAcked, Voice
  <1>6. Unspoken' /\ WaitSilent' /\ Silenced'
    BY <1>1, <1>3 DEF Unspoken, WaitSilent, Silenced, Voice, Ready
  <1>7. QED
    BY <1>4, <1>5, <1>6 DEF Voice

\* Behind a marker of the present generation there is no frame, and nobody writes any.
LEMMA MarkerEnds ==
  ASSUME TypeOK, Ordered, queue # <<>>, Head(queue).k # "audio", Head(queue).g = bind.gen
  PROVE  Silence /\ bind.out # "buffering"
  <1>1. queue \in Seq(FrameType) /\ Len(queue) \in Nat /\ 1 \in DOMAIN queue /\ Head(queue) = queue[1]
        /\ DOMAIN queue = 1..Len(queue)
    BY Types
  <1>2. ASSUME NEW i \in DOMAIN queue, queue[i].k = "audio" PROVE FALSE
    <2>1. i \in Nat /\ 1 < i
      BY <1>1, <1>2
    <2>2. queue[1].g < queue[i].g /\ queue[i].g <= bind.gen
      BY <1>1, <1>2, <2>1 DEF Ordered, NothingLate, Dated
    <2>3. queue[i].g \in Nat /\ bind.gen \in Nat /\ queue[1].g \in Nat
      BY <1>1, <1>2, Types
    <2>4. QED
      BY <1>1, <2>2, <2>3
  <1>3. Silence
    BY <1>2 DEF Silence, Voices, Frames
  <1>4. bind.out # "buffering"
    BY <1>1, Types DEF Ordered, Open
  <1>5. QED
    BY <1>3, <1>4

LEMMA PlayVoice == ASSUME TypeOK, Ordered, Voice, Play PROVE Voice'
  <1>1. /\ bind' = bind /\ pacer' = pacer /\ strm' = strm /\ hist' = hist /\ abt' = abt /\ queue # <<>>
        /\ acks' = acks \/ (Head(queue).k # "audio" /\ acks' = acks \cup {[k |-> Head(queue).k, g |-> Head(queue).g]})
    BY DEF Play, player
  <1>2. Voices' \subseteq Voices
    BY Types, PlayedVoices DEF Play, Voices
  <1>3. CASE acks' = acks
    BY <1>1, <1>2, <1>3, OthersKeepVoice DEF SomeWaits
  <1>4. CASE Head(queue).k # "audio" /\ acks' = acks \cup {[k |-> Head(queue).k, g |-> Head(queue).g]}
    <2>1. Silence => Silence'
      BY <1>2 DEF Silence
    <2>2. Acked'
      BY <1>1, <1>4, <2>1, MarkerEnds DEF Acked, Voice
    <2>3. Writing' /\ Finishing' /\ Heard'
      BY <1>1, <1>2, <2>1 DEF Voice, Writing, Finishing, Heard, Ready, Silence
    <2>4. FinAcked' /\ Unspoken' /\ WaitSilent' /\ Silenced'
      BY <1>1, <1>2, <2>1 DEF Voice, FinAcked, Unspoken, WaitSilent, Silenced, Ready, SomeWaits
    <2>5. QED
      BY <2>2, <2>3, <2>4 DEF Voice
  <1>5. QED
    BY <1>1, <1>3, <1>4

LEMMA ToldVoice == ASSUME TypeOK, Voice, NEW a \in acks, Told(a) PROVE Voice'
  <1>1. /\ acks' \subseteq acks /\ Voices' = Voices /\ pacer' = pacer /\ strm' = strm /\ hist' = hist
        /\ (SomeWaits' <=> SomeWaits)
    BY DEF Told, player, Voices, SomeWaits
  <1>2. CASE bind' = bind
    BY <1>1, <1>2, OthersKeepVoice
  <1>3. CASE Ready /\ a.g = bind.gen
    <2>1. Silence /\ Silence' /\ bind.out # "buffering"
      BY <1>1, <1>3 DEF Voice, Acked, Silence
    <2>2. /\ bind'.state = bind.state /\ bind'.gen = bind.gen /\ bind'.out = bind.out
          /\ bind'.fin = bind.fin \/ (bind.fin = "wait" /\ bind'.fin = "ok")
      BY <1>3 DEF Told, TypeOK, OutputOK, BindType
    <2>3. Writing' /\ Heard' /\ Acked' /\ FinAcked' /\ Unspoken' /\ WaitSilent'
      BY <1>1, <2>1, <2>2 DEF Voice, Writing, Heard, Acked, FinAcked, Unspoken, WaitSilent, Ready
    <2>4. Finishing' /\ Silenced'
      BY <1>1, <2>2 DEF Voice, Finishing, Silenced, Ready
    <2>5. QED
      BY <2>3, <2>4 DEF Voice
  <1>4. QED
    BY <1>2, <1>3 DEF Told

LEMMA PacingSame ==
  ASSUME TypeOK, Pacing \/ TimesOut
  PROVE  acks' = acks /\ hist'.silenced = hist.silenced /\ strm'.id = strm.id /\ strm'.stop = strm.stop
         /\ (SomeWaits' <=> SomeWaits)
  <1>1. acks' = acks /\ abt' = abt
    BY DEF Pacing, TimesOut, TakeAudio, Admitted, GoAround, Begin, Write, WriteRefused, TakeBoundary, Finish,
       FinishTold,
       WriteTimesOut, FinishTimesOut
  <1>2. QED
    BY <1>1, PacerKeepsStream DEF SomeWaits, SameStream

\* A pacer that says nothing and leaves the output alone.
LEMMA SilentPacing ==
  ASSUME TypeOK, Voice, Pacing, bind' = bind, Voices' = Voices, strm'.gen = strm.gen, strm.failed => strm'.failed,
         pacer'.pc # "finishing", Ready => bind.out # "finishing",
         pacer'.pc \in {"admit", "begin"} => ~(Ready /\ bind.out = "buffering"),
         pacer.pc # "dead"
  PROVE  Voice'
  <1>1. Silence' <=> Silence
    BY DEF Silence
  <1>2. Writing'
    BY <1>1, PacingSame DEF Writing, Voice, Ready
  <1>3. Finishing' /\ Heard' /\ Acked' /\ FinAcked' /\ Unspoken' /\ WaitSilent' /\ Silenced'
    BY <1>1, PacingSame DEF Finishing, Heard, Acked, FinAcked, Unspoken, WaitSilent, Silenced, Voice, Ready
  <1>4. QED
    BY <1>2, <1>3 DEF Voice

LEMMA BeforeWriteVoice == ASSUME TypeOK, Voice, TakeAudio \/ Admitted \/ GoAround PROVE Voice'
  <1>1. bind' = bind /\ Voices' = Voices /\ strm' = strm /\ Pacing
    BY DEF TakeAudio, Admitted, GoAround, Voices, Pacing
  <1>2. Ready => bind.out # "finishing"
    BY DEF TakeAudio, Admitted, GoAround, Voice, Finishing
  <1>3. pacer'.pc \in {"dead", "admit", "begin", "write"} /\ pacer.pc # "dead"
    BY DEF TakeAudio, Admitted, GoAround, Fails, TypeOK, PlayerOK, PacerType
  <1>4. pacer'.pc \in {"admit", "begin"} => ~(Ready /\ bind.out = "buffering")
    <2>1. CASE TakeAudio
      BY <2>1 DEF TakeAudio, Fails, Voice, Writing
    <2>2. CASE Admitted \/ GoAround
      BY <2>2 DEF Admitted, GoAround, Voice, Writing
    <2>3. QED
      BY <2>1, <2>2
  <1>5. QED
    BY <1>1, <1>2, <1>3, <1>4, SilentPacing

LEMMA BeginVoice == ASSUME TypeOK, NoneYet, Aged, Locked, Voice, Begin PROVE Voice'
  <1>1. Voices' = Voices /\ Pacing /\ pacer.pc = "begin" /\ strm.id # 0
    BY DEF Begin, Voices, Pacing, NoneYet
  <1>2. (Silence' <=> Silence) /\ bind.gen \in Nat /\ strm.gen \in Nat
    BY <1>1, Fields DEF Silence
  <1>3. CASE Ready /\ bind.out = "idle"
    <2>1. /\ bind'.gen = bind.gen + 1 /\ bind'.out = "buffering" /\ bind'.fin = bind.fin /\ bind'.state = bind.state
      BY <1>3 DEF Begin, TypeOK, OutputOK, BindType
    <2>2. \/ strm.stop /\ strm' = strm /\ pacer'.pc = "dead"
          \/ strm'.gen = bind'.gen /\ pacer'.pc = "write"
      BY <1>3 DEF Begin, Fails, TypeOK, PlayerOK, StreamType, PacerType
    <2>3. Silence /\ ~SomeWaits
      BY <1>3 DEF Voice, Heard, Locked, Aborting
    <2>4. Writing'
      BY <1>1, <1>2, <2>1, <2>2, <2>3, PacingSame DEF Writing
    <2>5. Finishing' /\ Heard' /\ FinAcked' /\ Unspoken' /\ WaitSilent'
      BY <1>2, <2>1, <2>2, <2>3 DEF Finishing, Heard, FinAcked, Unspoken, WaitSilent
    <2>6. Acked'
      <3>1. ASSUME NEW a \in acks PROVE a.g # bind'.gen
        <4>1. a.g \in Nat /\ a.g <= bind.gen
          BY DEF TypeOK, OutputOK, Aged
        <4>2. QED
          BY <1>2, <2>1, <4>1
      <3>2. QED
        BY <1>1, <3>1, PacingSame DEF Acked
    <2>7. Silenced'
      BY <1>1, <1>2, PacingSame DEF Silenced, Voice
    <2>8. QED
      BY <2>4, <2>5, <2>6, <2>7 DEF Voice
  <1>4. CASE ~Ready \/ bind.out # "idle"
    <2>1. bind' = bind /\ strm' = strm /\ pacer'.pc = "dead"
      BY <1>4 DEF Begin, Fails
    <2>2. Ready => bind.out # "finishing"
      BY <1>1 DEF Voice, Finishing
    <2>3. QED
      BY <1>1, <2>1, <2>2, SilentPacing
  <1>5. QED
    BY <1>3, <1>4

LEMMA WriteVoice == ASSUME TypeOK, NoneYet, Locked, Voice, Write PROVE Voice'
  <1>1. /\ Pacing /\ Ready /\ strm.gen = bind.gen /\ bind.out = "buffering" /\ pacer.pc = "write"
        /\ bind' = bind /\ strm' = strm /\ pacer'.pc = "idle"
    BY DEF Write, Pacing, Current
  <1>2. Voices' \subseteq Voices \cup {<<strm.id, pacer.seg>>}
    BY <1>1, VoicesCome DEF Next
  <1>3. strm.id # 0 /\ strm.gen # 0 /\ ~SomeWaits
    BY <1>1 DEF Voice, Writing, Locked, Aborting
  <1>4. Writing' /\ Finishing' /\ FinAcked' /\ Unspoken' /\ WaitSilent'
    BY <1>1, <1>3, PacingSame DEF Writing, Finishing, FinAcked, Unspoken, WaitSilent
  <1>5. Heard'
    BY <1>1, <1>2 DEF Heard, Voice, Silence
  <1>6. Acked'
    BY <1>1, PacingSame DEF Acked, Voice
  <1>7. Silenced'
    BY <1>1, <1>2, <1>3, PacingSame DEF Silenced, Voice
  <1>8. QED
    BY <1>4, <1>5, <1>6, <1>7 DEF Voice

LEMMA WriteFailsVoice == ASSUME TypeOK, Voice, WriteRefused \/ WriteTimesOut PROVE Voice'
  <1>1. Voices' = Voices /\ (Pacing \/ TimesOut) /\ strm' = strm /\ pacer'.pc = "dead" /\ pacer.pc = "write"
    BY DEF WriteRefused, WriteTimesOut, Voices, Pacing, TimesOut, Fails
  <1>2. CASE WriteRefused
    <2>1. Ready => bind.out # "finishing"
      BY <1>1 DEF Voice, Finishing
    <2>2. QED
      BY <1>1, <1>2, <2>1, SilentPacing DEF WriteRefused, Pacing
  <1>3. CASE WriteTimesOut
    BY <1>1, <1>3, PacingSame, ClosingKeepsVoice DEF WriteTimesOut
  <1>4. QED
    BY <1>2, <1>3

\* What the pacer does of a boundary's result.
LEMMA ResolvedPacer ==
  ASSUME NEW n, NEW ok, Resolve(n, ok)
  PROVE  pacer' = (IF ok THEN [pc |-> "idle", seg |-> 0] ELSE [pc |-> "dead", seg |-> 0])
  BY DEF Resolve, Fails

LEMMA FinishedWell ==
  ASSUME TypeOK, Finished(TRUE)
  PROVE  /\ pacer' = [pc |-> "idle", seg |-> 0] /\ Left("pacer")
         /\ strm'.id = strm.id /\ strm'.stop = strm.stop /\ strm'.bd = strm.bd /\ strm'.pend = 0 /\ strm'.gen = 0
         /\ strm'.failed = strm.failed
  BY DEF Finished, Resolve, TypeOK, PlayerOK, StreamType

LEMMA FinishedBadly ==
  ASSUME TypeOK, Finished(FALSE)
  PROVE  /\ pacer' = [pc |-> "dead", seg |-> 0]
         /\ strm'.id = strm.id /\ strm'.stop = strm.stop /\ strm'.bd = strm.bd /\ strm'.pend = 0 /\ strm'.gen = 0
         /\ strm'.failed
  BY DEF Finished, Resolve, Fails, TypeOK, PlayerOK, StreamType

LEMMA TakeBoundaryVoice == ASSUME TypeOK, NoneYet, Voice, TakeBoundary PROVE Voice'
  <1>1. Voices' = Voices /\ Pacing /\ bind' = bind /\ pacer.pc = "idle" /\ strm.id # 0
    BY DEF TakeBoundary, Voices, Pacing, NoneYet
  <1>2. Ready => bind.out # "finishing"
    BY <1>1 DEF Voice, Finishing
  <1>3. CASE strm.gen # 0 /\ ~strm.stop /\ Ready
    <2>1. strm'.gen = strm.gen /\ strm'.failed = strm.failed /\ pacer'.pc = "finish"
      BY <1>3 DEF TakeBoundary, TypeOK, PlayerOK, StreamType
    <2>2. QED
      BY <1>1, <1>2, <2>1, SilentPacing
  <1>4. CASE ~(strm.gen # 0 /\ ~strm.stop /\ Ready)
    <2>1. /\ strm'.gen = (IF strm.stop THEN strm.gen ELSE 0) /\ strm'.failed = (strm.failed \/ strm.gen # 0)
          /\ strm'.stop = strm.stop /\ strm'.id = strm.id
          /\ pacer'.pc \in {"idle", "dead"}
      <3>1. /\ strm' = [strm EXCEPT !.gen = IF strm.stop THEN @ ELSE 0, !.failed = @ \/ strm.gen # 0]
            /\ \E n, ok : Resolve(n, ok)
        BY <1>4 DEF TakeBoundary
      <3>2. pacer'.pc \in {"idle", "dead"}
        BY <3>1, ResolvedPacer
      <3>3. QED
        BY <3>1, <3>2 DEF TypeOK, PlayerOK, StreamType
    <2>2. Silence' <=> Silence
      BY <1>1 DEF Silence
    <2>3. Writing' /\ Finishing'
      BY <1>1, <1>2, <1>4, <2>1, <2>2 DEF Writing, Finishing, Voice, Ready
    <2>4. Unspoken'
      BY <1>1, <2>1, <2>2 DEF Unspoken, Voice
    <2>5. Heard' /\ Acked' /\ FinAcked' /\ WaitSilent' /\ Silenced'
      BY <1>1, <2>1, <2>2, PacingSame DEF Heard, Acked, FinAcked, WaitSilent, Silenced, Voice, Ready
    <2>6. QED
      BY <2>3, <2>4, <2>5 DEF Voice
  <1>5. QED
    BY <1>3, <1>4

LEMMA FinishVoice == ASSUME TypeOK, NoneYet, Locked, Voice, Finish PROVE Voice'
  <1>1. Pacing /\ pacer.pc = "finish" /\ strm.id # 0
    <2>1. Pacing
      BY DEF Pacing
    <2>2. QED
      BY <2>1 DEF Finish, NoneYet
  <1>2. Voices' = Voices
    <2>1. CASE queue' = queue
      BY <2>1 DEF Voices
    <2>2. CASE queue' = Append(queue, Marker("stop", bind.gen))
      <3>1. Marker("stop", bind.gen) \in FrameType /\ Marker("stop", bind.gen).k # "audio"
        BY BoundsAssumption, Types DEF Marker, FrameType
      <3>2. QED
        BY <2>2, <3>1, SentVoices, Types DEF Voices
    <2>3. QED
      BY <2>1, <2>2 DEF Finish
  <1>3. Silence' <=> Silence
    BY <1>2 DEF Silence
  <1>4. CASE Ready /\ Current
    <2>1. strm.gen = bind.gen /\ bind.out = "buffering" /\ strm.gen # 0 /\ ~SomeWaits
      BY <1>1, <1>4 DEF Current, Voice, Writing, Locked, Aborting
    <2>2. /\ bind'.gen = bind.gen /\ bind'.out = "finishing" /\ bind'.fin = "wait" /\ bind'.state = bind.state
          /\ strm' = strm /\ pacer'.pc = "finishing"
      BY <1>4 DEF Finish, TypeOK, OutputOK, BindType, PlayerOK, PacerType
    <2>3. Writing' /\ Finishing' /\ FinAcked' /\ Unspoken'
      BY <2>1, <2>2 DEF Writing, Finishing, FinAcked, Unspoken
    <2>4. Heard' /\ Acked' /\ WaitSilent' /\ Silenced'
      BY <1>2, <1>3, <1>4, <2>1, <2>2, PacingSame, <1>1 DEF Heard, Acked, WaitSilent, Silenced, Voice, Ready
    <2>5. QED
      BY <2>3, <2>4 DEF Voice
  <1>5. CASE ~(Ready /\ Current)
    <2>1. bind' = bind /\ pacer'.pc = "dead" /\ strm'.gen = 0 /\ strm'.failed /\ strm'.id = strm.id
      <3>1. bind' = bind /\ Finished(FALSE)
        BY <1>5 DEF Finish
      <3>2. QED
        BY <3>1, FinishedBadly
    <2>2. Writing' /\ Finishing' /\ FinAcked' /\ Unspoken'
      BY <1>1, <1>5, <2>1 DEF Writing, Finishing, FinAcked, Unspoken, Voice, Ready, Current
    <2>3. Heard' /\ Acked' /\ WaitSilent' /\ Silenced'
      BY <1>1, <1>2, <1>3, <2>1, PacingSame DEF Heard, Acked, WaitSilent, Silenced, Voice, Ready
    <2>4. QED
      BY <2>2, <2>3 DEF Voice
  <1>6. QED
    BY <1>4, <1>5

LEMMA FinishEndsVoice == ASSUME TypeOK, Voice, FinishTold \/ FinishTimesOut PROVE Voice'
  <1>1. Voices' = Voices /\ (Pacing \/ TimesOut) /\ pacer.pc = "finishing"
    BY DEF FinishTold, FinishTimesOut, Voices, Pacing, TimesOut
  <1>2. Silence' <=> Silence
    BY <1>1 DEF Silence
  <1>3. CASE FinishTold
    <2>1. /\ bind'.gen = bind.gen /\ bind'.state = bind.state /\ bind'.mk = bind.mk
          /\ bind'.out = IF bind.gen = strm.gen /\ bind.out = "finishing" THEN "idle" ELSE bind.out
          /\ bind.fin \in {"ok", "bad"}
      BY <1>3 DEF FinishTold, TypeOK, OutputOK, BindType
    <2>2. /\ pacer'.pc \in {"idle", "dead"} /\ strm'.id = strm.id /\ strm'.gen = 0
          /\ (bind.fin = "bad" => strm'.failed)
      <3>1. Finished(bind.fin = "ok") /\ bind.fin \in {"ok", "bad"}
        BY <1>3 DEF FinishTold
      <3>2. CASE bind.fin = "ok"
        <4>1. Finished(TRUE)
          BY <3>1, <3>2
        <4>2. QED
          BY <4>1, <3>2, FinishedWell
      <3>3. CASE bind.fin = "bad"
        <4>1. Finished(FALSE)
          BY <3>1, <3>3
        <4>2. QED
          BY <4>1, FinishedBadly
      <3>4. QED
        BY <3>1, <3>2, <3>3
    <2>3. Ready => /\ bind.out # "buffering"
                   /\ bind.out = "finishing" => bind.fin = "ok" /\ bind.gen = strm.gen
      BY <1>1, <2>1 DEF Voice, Writing, Finishing
    <2>4. bind.fin = "ok" => Silence
      BY <1>1 DEF Voice, FinAcked
    <2>5. Writing' /\ Finishing' /\ FinAcked' /\ Unspoken'
      BY <2>1, <2>2, <2>3, <2>4, <1>2 DEF Writing, Finishing, FinAcked, Unspoken, Ready
    <2>6. Heard'
      BY <1>2, <2>1, <2>3, <2>4 DEF Heard, Voice, Ready
    <2>7. Acked' /\ WaitSilent' /\ Silenced'
      BY <1>1, <1>2, <2>1, PacingSame DEF Acked, WaitSilent, Silenced, Voice, Ready
    <2>8. QED
      BY <2>5, <2>6, <2>7 DEF Voice
  <1>4. CASE FinishTimesOut
    <2>1. bind' = [Closed(bind) EXCEPT !.fin = "none"] /\ bind.fin = "wait"
      BY <1>4 DEF FinishTimesOut
    <2>2. pacer'.pc = "dead" /\ strm'.failed
      BY <1>4, FinishedBadly DEF FinishTimesOut
    <2>3. CASE Ready
      BY <1>1, <2>1, <2>2, <2>3, PacingSame, ClosingKeepsVoice
    <2>4. CASE ~Ready
      <3>1. ~Ready' /\ bind'.out = "closed" /\ bind'.gen = bind.gen /\ (bind'.mk = "ok" => bind.mk = "ok")
        BY <2>1 DEF Closed, Ready, TypeOK, OutputOK, BindType
      <3>2. Writing' /\ Finishing' /\ Heard' /\ Unspoken' /\ FinAcked'
        BY <2>2, <3>1 DEF Writing, Finishing, Heard, Unspoken, FinAcked
      <3>3. Acked' /\ WaitSilent' /\ Silenced'
        BY <1>1, <1>2, <2>4, <3>1, PacingSame DEF Acked, WaitSilent, Silenced, Voice
      <3>4. QED
        BY <3>2, <3>3 DEF Voice
    <2>5. QED
      BY <2>3, <2>4
  <1>5. QED
    BY <1>3, <1>4

LEMMA PacingVoice == ASSUME TypeOK, Locked, Streams, Voice, Pacing \/ TimesOut PROVE Voice'
  BY BeforeWriteVoice, BeginVoice, WriteVoice, WriteFailsVoice, TakeBoundaryVoice, FinishVoice, FinishEndsVoice
     DEF Pacing, TimesOut, Streams

LEMMA AbortVoice == ASSUME TypeOK, Aged, Voice, NEW s \in Bargers, AbortLocked(s) PROVE Voice'
  <1>1. /\ bind'.gen = bind.gen + 1 /\ bind'.fin = (IF bind.fin = "wait" THEN "bad" ELSE bind.fin)
        /\ bind'.state = bind.state /\ strm' = strm /\ pacer' = pacer /\ acks' = acks
    BY DEF AbortLocked, player, TypeOK, OutputOK, BindType
  <1>2. \A a \in acks : a.g # bind'.gen
    <2>1. ASSUME NEW a \in acks PROVE a.g # bind'.gen
      <3>1. a.g \in Nat /\ a.g <= bind.gen /\ bind.gen \in Nat
        BY Fields DEF TypeOK, OutputOK, Aged
      <3>2. QED
        BY <1>1, <3>1
    <2>2. QED
      BY <2>1
  <1>3. hist'.silenced = hist.silenced
    BY AbortHist
  <1>4. CASE Ready
    <2>1. Silence' /\ Voices' = {} /\ bind'.out = "aborting"
      BY <1>4, AbortHushes DEF AbortLocked, TypeOK, OutputOK, BindType, Silence
    <2>2. Writing' /\ Finishing' /\ Heard' /\ Acked' /\ Unspoken' /\ WaitSilent'
      BY <2>1 DEF Writing, Finishing, Heard, Acked, Unspoken, WaitSilent
    <2>3. FinAcked' /\ Silenced'
      BY <1>1, <1>3, <2>1 DEF FinAcked, Silenced, Voice
    <2>4. QED
      BY <2>2, <2>3 DEF Voice
  <1>5. CASE ~Ready
    <2>1. Voices' = Voices /\ ~Ready' /\ bind'.out = "failed" /\ bind'.mk = "bad"
      BY <1>1, <1>5 DEF AbortLocked, TypeOK, OutputOK, BindType, Voices, Ready
    <2>2. Silence' <=> Silence
      BY <2>1 DEF Silence
    <2>3. Writing' /\ Finishing' /\ Heard' /\ Acked' /\ WaitSilent'
      BY <1>1, <1>2, <2>1 DEF Writing, Finishing, Heard, Acked, WaitSilent
    <2>4. FinAcked' /\ Unspoken' /\ Silenced'
      BY <1>1, <1>3, <2>1, <2>2 DEF FinAcked, Unspoken, Silenced, Voice
    <2>5. QED
      BY <2>3, <2>4 DEF Voice
  <1>6. QED
    BY <1>4, <1>5

\* What a stop leaves: the same stream or none, and its number silenced only by a fence.
LEMMA StoppedSame ==
  ASSUME TypeOK, NEW s \in Bargers, NEW ok, Stopped(s, ok)
  PROVE  \/ strm' = strm /\ pacer' = pacer
         \/ strm'.id = 0 /\ pacer'.pc = "dead"
  <1>1. CASE StreamRemoved
    BY <1>1 DEF StreamRemoved, NoStream
  <1>2. QED
    BY <1>1, StopLeaves

LEMMA StopsVoice ==
  ASSUME TypeOK, Locked, Voice, NEW s \in Bargers, BargeStops(s)
  PROVE  Voice'
  <1>. DEFINE ok == bind.mk = "ok"
  <1>1. Stopped(s, ok) /\ Fenced(ok) /\ abt[s] = "wait" /\ acks' = acks /\ Voices' = Voices
    BY DEF BargeStops, Voices
  <1>2. SomeWaits /\ ~SomeWaits'
    BY <1>1, StoppedLocks DEF SomeWaits, Locked
  <1>3. Silence \/ (~Ready /\ bind.mk # "ok")
    BY <1>2 DEF Voice, WaitSilent
  <1>4. Silence' <=> Silence
    BY <1>1 DEF Silence
  <1>5. /\ bind'.gen = bind.gen /\ (Ready' => bind'.out = "idle") /\ (~Ready => bind'.out = bind.out)
        /\ (Ready => bind'.out # "buffering")
        /\ bind'.fin = bind.fin \/ (bind.fin = "wait" /\ bind'.fin = "bad")
    BY <1>1 DEF Fenced, Closed, Ready, TypeOK, OutputOK, BindType
  <1>6. \/ strm' = strm /\ pacer' = pacer
        \/ strm'.id = 0 /\ pacer'.pc = "dead"
    BY <1>1, StoppedSame
  <1>7. Writing' /\ Finishing' /\ WaitSilent'
    BY <1>2, <1>5 DEF Writing, Finishing, WaitSilent
  <1>8. Heard'
    <2>1. Ready' => Ready
      BY <1>1 DEF Fenced, Ready, TypeOK, OutputOK, BindType
    <2>2. QED
      BY <1>3, <1>4, <2>1 DEF Heard
  <1>9. Acked'
    BY <1>1, <1>3, <1>4, <1>5 DEF Acked, Voice
  <1>10. FinAcked' /\ Unspoken'
    BY <1>4, <1>5, <1>6 DEF FinAcked, Unspoken, Voice
  <1>11. Silenced'
    <2>1. CASE bind.mk = "ok"
      <3>1. Voices' = {}
        BY <1>3, <1>4, <2>1 DEF Silence
      <3>2. strm'.id \in hist'.silenced => strm'.id = 0
        <4>1. hist'.silenced \subseteq hist.silenced \cup {barge[s].sid}
          BY <1>1, StopLeaves
        <4>2. \/ strm' = strm /\ (barge[s].sid = 0 \/ strm.id # barge[s].sid)
              \/ strm'.id = 0
          <5>1. CASE StreamRemoved
            BY <5>1 DEF StreamRemoved, NoStream
          <5>2. QED
            BY <1>1, <5>1, StopLeaves
        <4>3. QED
          BY <4>1, <4>2 DEF Voice, Silenced
      <3>3. QED
        BY <3>1, <3>2 DEF Silenced
    <2>2. CASE bind.mk # "ok"
      <3>1. hist'.silenced = hist.silenced
        BY <1>1, <2>2, StopLeaves
      <3>2. QED
        BY <1>1, <1>6, <3>1 DEF Silenced, Voice
    <2>3. QED
      BY <2>1, <2>2
  <1>12. QED
    BY <1>7, <1>8, <1>9, <1>10, <1>11 DEF Voice

LEMMA StopsClosedVoice ==
  ASSUME TypeOK, Locked, FencesHeld, Voice, NEW s \in Bargers, BargeStopsClosed(s)
  PROVE  Voice'
  <1>1. /\ Stopped(s, FALSE) /\ bind' = bind /\ acks' = acks /\ Voices' = Voices /\ ~Ready
        /\ (SomeWaits' => SomeWaits)
    BY StoppedLocks DEF BargeStopsClosed, Voices, FencesHeld, NothingToAbort, Locked
  <1>2. hist'.silenced = hist.silenced
    BY <1>1, StopLeaves
  <1>3. \/ strm' = strm /\ pacer' = pacer
        \/ strm'.id = 0 /\ pacer'.pc = "dead"
    BY <1>1, StoppedSame
  <1>4. Silence' <=> Silence
    BY <1>1 DEF Silence
  <1>5. Writing' /\ Finishing' /\ Heard' /\ WaitSilent'
    BY <1>1, <1>4 DEF Writing, Finishing, Heard, WaitSilent, Ready, Voice
  <1>6. Acked' /\ FinAcked' /\ Unspoken' /\ Silenced'
    BY <1>1, <1>2, <1>3, <1>4 DEF Acked, FinAcked, Unspoken, Silenced, Voice
  <1>7. QED
    BY <1>5, <1>6 DEF Voice

LEMMA BargingVoice ==
  ASSUME TypeOK, Locked, FencesHeld, Aged, Voice, NEW s \in Bargers, BargeBegins(s) \/ Barging(s)
  PROVE  Voice'
  <1>1. CASE BargeBegins(s)
    <2>1. /\ bind' = bind /\ Voices' = Voices /\ acks' = acks /\ pacer' = pacer /\ hist' = hist
      BY <1>1 DEF BargeBegins, Voices
    <2>2. strm'.id = strm.id /\ strm'.gen = strm.gen /\ (strm.stop => strm'.stop) /\ (strm.id # 0 => strm'.failed)
      BY <1>1 DEF BargeBegins, TypeOK, PlayerOK, StreamType
    <2>3. SomeWaits' => SomeWaits
      BY <1>1 DEF BargeBegins, SomeWaits, TypeOK, TasksOK
    <2>4. QED
      BY <2>1, <2>2, <2>3, OthersKeepVoice
  <1>2. CASE BargeClears(s)
    <2>1. /\ bind' = bind /\ Voices' = Voices /\ acks' = acks /\ pacer' = pacer /\ strm' = strm /\ abt' = abt
          /\ hist'.silenced = hist.silenced
      BY <1>2 DEF BargeClears, Bared, Voices, output, player, TypeOK, HistOK, HistType
    <2>2. QED
      BY <2>1, OthersKeepVoice DEF SomeWaits
  <1>3. QED
    BY <1>1, <1>2, AbortVoice, StopsVoice, StopsClosedVoice DEF Barging

LEMMA ProviderVoice ==
  ASSUME TypeOK, Locked, NoneYet, Aged, Voice,
         ProvChunk \/ ProvDone \/ (\E g \in gates : GateTask(g)) \/ DrainDone \/ DrainTimesOut
  PROVE  Voice'
  <1>1. bind' = bind /\ Voices' = Voices /\ acks' = acks /\ abt' = abt /\ hist'.silenced = hist.silenced
    BY DEF ProvChunk, StreamStarts, ProvDone, GateTask, DrainDone, DrainTimesOut, DrainClears, Bared, output,
       Voices, TypeOK, HistOK, HistType
  <1>2. CASE strm'.id = strm.id /\ strm'.gen = strm.gen /\ strm'.stop = strm.stop /\ strm'.failed = strm.failed /\ pacer' = pacer
    BY <1>1, <1>2, OthersKeepVoice DEF SomeWaits
  <1>3. CASE Starts
    <2>1. /\ Ready /\ strm.id = 0 /\ pacer.pc = "dead" /\ strm'.id = made.streams + 1 /\ strm'.gen = 0 /\ pacer'.pc = "idle"
      BY <1>3 DEF Starts, NoneYet, NoStream
    <2>2. bind.out \notin {"buffering", "finishing"}
      BY <2>1 DEF Voice, Writing, Finishing
    <2>3. Silence /\ Silence'
      BY <1>1, <2>1, <2>2 DEF Voice, Heard, Silence
    <2>4. Writing' /\ Finishing' /\ Heard' /\ Acked' /\ FinAcked' /\ Unspoken' /\ WaitSilent'
      BY <1>1, <2>1, <2>2, <2>3 DEF Writing, Finishing, Heard, Acked, FinAcked, Unspoken, WaitSilent
    <2>5. made.streams + 1 \notin hist.silenced
      <3>1. made.streams \in Nat /\ hist.silenced \subseteq Nat /\ \A x \in hist.silenced : x <= made.streams
        BY Fields DEF Aged, TypeOK, HistOK, HistType
      <3>2. QED
        BY <3>1
    <2>6. Silenced'
      BY <1>1, <2>1, <2>3, <2>5 DEF Silenced, Silence
    <2>7. QED
      BY <2>4, <2>6 DEF Voice
  <1>4. CASE ProvChunk
    BY <1>2, <1>3, <1>4, ChunkStarts DEF TypeOK, PlayerOK, StreamType
  <1>5. CASE ProvDone
    <2>1. strm'.id = strm.id /\ strm'.gen = strm.gen /\ strm'.stop = strm.stop /\ strm'.failed = strm.failed /\ pacer' = pacer
      BY <1>5 DEF ProvDone, TypeOK, PlayerOK, StreamType
    <2>2. QED
      BY <2>1, <1>2
  <1>6. CASE (\E g \in gates : GateTask(g)) \/ DrainDone \/ DrainTimesOut
    <2>1. strm' = strm /\ pacer' = pacer
      BY <1>6 DEF GateTask, DrainDone, DrainTimesOut, DrainClears, player
    <2>2. QED
      BY <2>1, <1>2
  <1>7. QED
    BY <1>4, <1>5, <1>6

LEMMA NextVoice == ASSUME TypeOK, Ordered, FencesHeld, Locked, Streams, Voice, Next PROVE Voice'
  <1>1. CASE SocketCloses
    <2>1. /\ Ready /\ bind' = Closed(bind) /\ Voices' = Voices /\ acks' = acks /\ (SomeWaits' => SomeWaits)
          /\ hist' = hist /\ strm' = strm /\ pacer' = pacer
      BY <1>1 DEF SocketCloses, Voices, SomeWaits, player
    <2>2. QED
      BY <2>1, ClosingKeepsVoice
  <1>2. CASE Xoff \/ Xon
    <2>1. /\ bind'.state = bind.state /\ bind'.gen = bind.gen /\ bind'.out = bind.out /\ bind'.fin = bind.fin
          /\ bind'.mk = bind.mk /\ Voices' = Voices /\ acks' = acks /\ pacer' = pacer /\ strm' = strm
          /\ hist' = hist /\ (SomeWaits' => SomeWaits)
      BY <1>2 DEF Xoff, Xon, Voices, SomeWaits, player, TypeOK, OutputOK, BindType
    <2>2. QED
      BY <2>1, OthersKeepVoice
  <1>3. CASE Play \/ \E a \in acks : Told(a)
    BY <1>3, PlayVoice, ToldVoice
  <1>4. CASE Pacing \/ TimesOut
    BY <1>4, PacingVoice
  <1>5. CASE \E s \in Bargers : BargeBegins(s) \/ Barging(s)
    BY <1>5, BargingVoice DEF Streams
  <1>6. CASE ProvChunk \/ ProvDone \/ (\E g \in gates : GateTask(g)) \/ DrainDone \/ DrainTimesOut
    BY <1>6, ProviderVoice DEF Streams
  <1>7. QED
    BY <1>1, <1>2, <1>3, <1>4, <1>5, <1>6 DEF Next, Asterisk

-----------------------------------------------------------------------------
SilenceInv == TypeOK /\ Ordered /\ FencesHeld /\ Locked /\ Streams /\ Voice

LEMMA SilenceBegins == ASSUME Init PROVE SilenceInv
  <1>1. TypeOK
    BY Begins
  <1>2. Ordered /\ FencesHeld /\ Locked
    BY DEF Init, Ordered, Dated, Open, NothingLate, FencesHeld, BargerAborts, NothingToAbort, NotStranded, Locked,
       HeadWaits, Aborting, SomeWaits, Ready
  <1>3. Voices = {} /\ strm = NoStream /\ acks = {}
    BY DEF Init, Voices, Frames
  <1>4. Streams
    BY <1>3 DEF Init, Streams, NoneYet, StopOwned, Stoppers, Aged, NoStream
  <1>5. Voice
    BY <1>3 DEF Init, Voice, Silence, Writing, Finishing, Heard, Acked, FinAcked, Unspoken, WaitSilent, SomeWaits,
       Silenced, NoStream, Ready
  <1>6. QED
    BY <1>1, <1>2, <1>4, <1>5 DEF SilenceInv

LEMMA SilenceKept == ASSUME SilenceInv, [Next]_vars PROVE SilenceInv'
  <1>1. CASE Next
    <2>1. TypeOK'
      BY <1>1, NextKeeps DEF SilenceInv
    <2>2. Ordered' /\ FencesHeld' /\ Locked'
      BY <1>1, <2>1, NextOrders, NextKeepsFences, NextLocks DEF SilenceInv
    <2>3. Streams'
      BY <1>1, <2>1, NextNone, NextStops, NextAges DEF SilenceInv, Streams
    <2>4. Voice'
      BY <1>1, NextVoice DEF SilenceInv
    <2>5. QED
      BY <2>1, <2>2, <2>3, <2>4 DEF SilenceInv
  <1>2. CASE UNCHANGED vars
    <2>1. TypeOK'
      BY <1>2, StuttersKeep DEF SilenceInv
    <2>2. Ordered' /\ FencesHeld' /\ Locked' /\ Voices' = Voices
      BY <1>2 DEF SilenceInv, vars, output, Ordered, Dated, Open, NothingLate, FencesHeld, BargerAborts,
         NothingToAbort,
         NotStranded, Locked, HeadWaits, Holds, Aborting, SomeWaits, Ready, Voices
    <2>3. Streams'
      BY <1>2, <2>2 DEF SilenceInv, vars, output, player, gating, Streams, NoneYet, StopOwned, Stoppers, Aged
    <2>4. Voice'
      BY <1>2, <2>2 DEF SilenceInv, vars, output, player, Voice, Silence, Writing, Finishing, Heard, Acked, FinAcked,
         Unspoken, WaitSilent, SomeWaits, Silenced, Ready
    <2>5. QED
      BY <2>1, <2>2, <2>3, <2>4 DEF SilenceInv
  <1>3. QED
    BY <1>1, <1>2

\* A barge-in whose stop was confirmed leaves nothing of its stream in Asterisk's queue
\* (stop_streaming_playback aborts the remote output before it waits for the local tasks): the
\* FLUSH emptied the queue, and a stale writer finds its generation gone.
THEOREM StoppedIsSilent == Spec => []StopSilences
  <1>1. SilenceInv => StopSilences
    <2>1. \A i \in DOMAIN queue : queue[i].k = "audio" => <<queue[i].sid, queue[i].n>> \in Voices
      BY DEF Voices, Frames
    <2>2. QED
      BY <2>1 DEF SilenceInv, Voice, Silenced, StopSilences
  <1>2. QED
    BY <1>1, SilenceBegins, SilenceKept, PTL DEF Spec

-----------------------------------------------------------------------------
(* The lock is taken in order: whoever asked for it before a stream began    *)
(* its output has fenced and gone when the stream begins.                    *)

Playing == Ready /\ strm.id # 0 /\ ~strm.stop

Among(q, t) == \E i \in DOMAIN q : q[i] = t
Distinct(q) == \A i, j \in DOMAIN q : q[i] = q[j] => i = j
Before(q, s, t) == \A i \in DOMAIN q : q[i] = t => \E j \in DOMAIN q : j < i /\ q[j] = s

\* Who waits for the lock, or has it.
Queueing ==
  /\ Distinct(tlock)
  /\ Among(tlock, "pacer") => pacer.pc \in {"begin", "finish"}
  /\ \A s \in Bargers : Among(tlock, s) <=> abt[s] # "no"
\* An interruption that does not stop the stream asked for the lock before the stream's pacer did.
Follows ==
  Playing => \A s \in Bargers : abt[s] # "no" => strm.gen = 0 /\ Before(tlock, s, "pacer")
InTurn == Queueing /\ Follows

LEMMA RemovedOrder ==
  ASSUME NEW S, NEW q \in Seq(S), NEW t
  PROVE  /\ Distinct(q) => Distinct(Without(q, t)) /\ ~Among(Without(q, t), t)
         /\ \A u : u # t => (Among(Without(q, t), u) <=> Among(q, u))
         /\ \A u, w : u # t /\ Before(q, u, w) => Before(Without(q, t), u, w)
  <1>1. CASE \A i \in 1..Len(q) : q[i] # t
    <2>1. Without(q, t) = q
      BY <1>1 DEF Without
    <2>2. ~Among(q, t)
      BY <1>1 DEF Among
    <2>3. QED
      BY <2>1, <2>2
  <1>2. CASE \E i \in 1..Len(q) : q[i] = t
    <2>. DEFINE at == CHOOSE i \in 1..Len(q) : q[i] = t
                r == Without(q, t)
                from(i) == IF i < at THEN i ELSE i + 1
                to(j) == IF j < at THEN j ELSE j - 1
    <2>1. at \in 1..Len(q) /\ q[at] = t /\ Len(q) \in Nat /\ DOMAIN q = 1..Len(q)
      BY <1>2
    <2>2. r = [i \in 1..(Len(q) - 1) |-> IF i < at THEN q[i] ELSE q[i + 1]]
      BY <1>2 DEF Without
    <2>. HIDE DEF at, r
    <2>3. DOMAIN r = 1..(Len(q) - 1)
      BY <2>2
    <2>4. \A i \in DOMAIN r : from(i) \in DOMAIN q /\ from(i) # at /\ r[i] = q[from(i)]
      BY <2>1, <2>2, <2>3
    <2>5. \A j \in DOMAIN q : j # at => to(j) \in DOMAIN r /\ r[to(j)] = q[j]
      BY <2>1, <2>2, <2>3
    <2>6. \A i, k \in DOMAIN r : from(i) = from(k) => i = k
      BY <2>1, <2>3
    <2>7. \A i \in DOMAIN r : \A j \in DOMAIN q : j # at /\ j < from(i) => to(j) < i
      BY <2>1, <2>3
    <2>. HIDE DEF from, to
    <2>8. Distinct(q) => Distinct(r) /\ ~Among(r, t)
      BY <2>1, <2>4, <2>6 DEF Distinct, Among
    <2>9. \A u : u # t => (Among(r, u) <=> Among(q, u))
      BY <2>1, <2>4, <2>5 DEF Among
    <2>10. ASSUME NEW u, NEW w, u # t, Before(q, u, w) PROVE Before(r, u, w)
      <3>1. SUFFICES ASSUME NEW i \in DOMAIN r, r[i] = w PROVE \E k \in DOMAIN r : k < i /\ r[k] = u
        BY DEF Before
      <3>2. PICK j \in DOMAIN q : j < from(i) /\ q[j] = u
        BY <2>4, <2>10, <3>1 DEF Before
      <3>3. j # at
        BY <2>1, <2>10, <3>2
      <3>4. QED
        BY <2>5, <2>7, <3>1, <3>2, <3>3
    <2>11. QED
      BY <2>8, <2>9, <2>10 DEF r
  <1>3. QED
    BY <1>1, <1>2

LEMMA AppendedOrder ==
  ASSUME NEW S, NEW q \in Seq(S), NEW t \in S
  PROVE  /\ Distinct(q) /\ ~Among(q, t) => Distinct(Append(q, t))
         /\ \A u : Among(Append(q, t), u) <=> Among(q, u) \/ u = t
         /\ \A u, w : Before(q, u, w) /\ (w = t => Among(q, u)) => Before(Append(q, t), u, w)
  <1>. DEFINE r == Append(q, t)
  <1>1. /\ DOMAIN q = 1..Len(q) /\ Len(q) \in Nat /\ DOMAIN r = 1..(Len(q) + 1)
        /\ r[Len(q) + 1] = t /\ \A i \in DOMAIN q : r[i] = q[i]
    OBVIOUS
  <1>. HIDE DEF r
  <1>2. Distinct(q) /\ ~Among(q, t) => Distinct(r)
    BY <1>1 DEF Distinct, Among
  <1>3. \A u : Among(r, u) <=> Among(q, u) \/ u = t
    BY <1>1 DEF Among
  <1>4. ASSUME NEW u, NEW w, Before(q, u, w), w = t => Among(q, u) PROVE Before(r, u, w)
    <2>1. SUFFICES ASSUME NEW i \in DOMAIN r, r[i] = w PROVE \E k \in DOMAIN r : k < i /\ r[k] = u
      BY DEF Before
    <2>2. CASE i \in DOMAIN q
      BY <1>1, <1>4, <2>1, <2>2 DEF Before
    <2>3. CASE i = Len(q) + 1
      BY <1>1, <1>4, <2>1, <2>3 DEF Among
    <2>4. QED
      BY <1>1, <2>1, <2>2, <2>3
  <1>5. QED
    BY <1>2, <1>3, <1>4 DEF r

\* A step that leaves lock, pacer and aborts alone.
LEMMA OthersInTurn ==
  ASSUME InTurn, tlock' = tlock, pacer'.pc = pacer.pc, abt' = abt, Playing' => Playing, strm'.gen = strm.gen
  PROVE  InTurn'
  BY DEF InTurn, Queueing, Follows

\* How the pacer uses the lock.
LEMMA PacingAsks ==
  ASSUME TypeOK, Pacing \/ TimesOut
  PROVE  /\ abt' = abt
         /\ \/ tlock' = tlock /\ pacer.pc \notin {"begin", "finish"}
            \/ Left("pacer")
            \/ /\ tlock' = Append(tlock, "pacer") /\ pacer.pc \notin {"begin", "finish"}
               /\ pacer'.pc \in {"begin", "finish"}
         /\ Begin => Holds("pacer")
         /\ ~Begin => strm'.gen \in {strm.gen, 0}
  <1>1. abt' = abt
    BY DEF Pacing, TimesOut, TakeAudio, Admitted, GoAround, Begin, Write, WriteRefused, TakeBoundary, Finish,
       FinishTold, WriteTimesOut, FinishTimesOut
  <1>2. CASE TakeAudio \/ Admitted \/ GoAround \/ Begin \/ Write \/ WriteRefused \/ WriteTimesOut
    BY <1>1, <1>2 DEF TakeAudio, Admitted, GoAround, Begin, Write, WriteRefused, WriteTimesOut, Fails, Queued,
       TypeOK, PlayerOK, PacerType
  <1>3. CASE TakeBoundary
    <2>1. pacer.pc = "idle"
      BY <1>3 DEF TakeBoundary
    <2>2. strm'.gen \in {strm.gen, 0}
      BY <1>3 DEF TakeBoundary, TypeOK, PlayerOK, StreamType
    <2>3. \/ tlock' = Append(tlock, "pacer") /\ pacer'.pc = "finish"
          \/ \E n, ok : Resolve(n, ok)
      BY <1>3 DEF TakeBoundary, Queued
    <2>4. (\E n, ok : Resolve(n, ok)) => Left("pacer")
      BY DEF Resolve, Fails
    <2>5. ~Begin
      BY <2>1 DEF Begin
    <2>6. QED
      BY <1>1, <2>1, <2>2, <2>3, <2>4, <2>5
  <1>4. CASE Finish \/ FinishTold \/ FinishTimesOut
    <2>1. pacer.pc \in {"finish", "finishing"}
      BY <1>4 DEF Finish, FinishTold, FinishTimesOut
    <2>2. strm'.gen \in {strm.gen, 0}
      BY <1>4 DEF Finish, FinishTold, FinishTimesOut, Finished, TypeOK, PlayerOK, StreamType
    <2>3. Left("pacer")
      BY <1>4 DEF Finish, FinishTold, FinishTimesOut, Finished, Resolve, Fails
    <2>4. ~Begin
      BY <2>1 DEF Begin
    <2>5. QED
      BY <1>1, <2>2, <2>3, <2>4
  <1>5. QED
    BY <1>2, <1>3, <1>4 DEF Pacing, TimesOut

LEMMA PacingInTurn == ASSUME TypeOK, InTurn, Pacing \/ TimesOut PROVE InTurn'
  <1>1. tlock \in Seq(Tasks) /\ "pacer" \in Tasks /\ \A s \in Bargers : s # "pacer"
    BY BargersAssumption DEF TypeOK, OutputOK, Tasks
  <1>2. Queueing /\ Follows
    BY DEF InTurn
  <1>3. Queueing'
    <2>1. CASE tlock' = tlock /\ pacer.pc \notin {"begin", "finish"}
      BY <1>2, <2>1, PacingAsks DEF Queueing
    <2>2. CASE Left("pacer")
      <3>1. Distinct(tlock') /\ ~Among(tlock', "pacer") /\ \A s \in Bargers : Among(tlock', s) <=> Among(tlock, s)
        BY <1>1, <1>2, <2>2, RemovedOrder DEF Left, Queueing
      <3>2. QED
        BY <1>2, <3>1, PacingAsks DEF Queueing
    <2>3. CASE /\ tlock' = Append(tlock, "pacer") /\ pacer.pc \notin {"begin", "finish"}
               /\ pacer'.pc \in {"begin", "finish"}
      <3>1. Distinct(tlock') /\ \A s \in Bargers : Among(tlock', s) <=> Among(tlock, s)
        BY <1>1, <1>2, <2>3, AppendedOrder DEF Queueing
      <3>2. QED
        BY <1>2, <2>3, <3>1, PacingAsks DEF Queueing
    <2>4. QED
      BY <2>1, <2>2, <2>3, PacingAsks
  <1>4. Follows'
    <2>1. SUFFICES ASSUME Playing', NEW s \in Bargers, abt[s] # "no"
                   PROVE  strm'.gen = 0 /\ Before(tlock', s, "pacer")
      BY PacingAsks DEF Follows
    <2>2. Playing
      <3>1. Ready' => Ready
        BY DEF Pacing, TimesOut, TakeAudio, Admitted, GoAround, Begin, Write, WriteRefused, TakeBoundary, Finish,
           FinishTold, WriteTimesOut, FinishTimesOut, Closed, Ready, TypeOK, OutputOK, BindType
      <3>2. QED
        BY <2>1, <3>1, PacerKeepsStream DEF Playing, SameStream
    <2>3. strm.gen = 0 /\ Before(tlock, s, "pacer") /\ Among(tlock, s)
      BY <1>2, <2>1, <2>2 DEF Follows, Queueing
    <2>4. ~Holds("pacer")
      <3>1. SUFFICES ASSUME Holds("pacer") PROVE FALSE
        OBVIOUS
      <3>2. 1 \in DOMAIN tlock /\ tlock[1] = "pacer" /\ DOMAIN tlock = 1..Len(tlock)
        BY <1>1, <3>1 DEF Holds
      <3>3. QED
        BY <1>1, <2>3, <3>2 DEF Before
    <2>5. strm'.gen = 0
      BY <2>3, <2>4, PacingAsks
    <2>6. Before(tlock', s, "pacer")
      <3>1. CASE Left("pacer")
        BY <1>1, <2>3, <3>1, RemovedOrder DEF Left
      <3>2. CASE tlock' = Append(tlock, "pacer")
        BY <1>1, <2>3, <3>2, AppendedOrder
      <3>3. CASE tlock' = tlock
        BY <2>3, <3>3
      <3>4. QED
        BY <3>1, <3>2, <3>3, PacingAsks
    <2>7. QED
      BY <2>5, <2>6
  <1>5. QED
    BY <1>3, <1>4 DEF InTurn

LEMMA BargingInTurn ==
  ASSUME SilenceInv, InTurn, NEW s \in Bargers, BargeBegins(s) \/ Barging(s)
  PROVE  InTurn'
  <1>1. TypeOK /\ Queueing /\ Follows /\ tlock \in Seq(Tasks) /\ s \in Tasks /\ s # "pacer" /\ "pacer" \notin Bargers
    BY BargersAssumption DEF SilenceInv, InTurn, TypeOK, OutputOK, Tasks
  <1>2. CASE BargeBegins(s)
    <2>1. ~Playing'
      BY <1>1, <1>2 DEF BargeBegins, Playing, TypeOK, PlayerOK, StreamType
    <2>2. abt[s] = "no"
      BY <1>1, <1>2 DEF BargeBegins, SilenceInv, FencesHeld, BargerAborts
    <2>3. pacer' = pacer /\ \/ tlock' = Append(tlock, s) /\ abt' = [abt EXCEPT ![s] = "lock"]
                            \/ tlock' = tlock /\ abt' = abt
      BY <1>2 DEF BargeBegins, Queued
    <2>4. CASE tlock' = Append(tlock, s) /\ abt' = [abt EXCEPT ![s] = "lock"]
      <3>1. /\ Distinct(tlock') /\ (Among(tlock', "pacer") => Among(tlock, "pacer"))
            /\ \A u \in Bargers : Among(tlock', u) <=> Among(tlock, u) \/ u = s
        BY <1>1, <2>2, <2>4, AppendedOrder DEF Queueing
      <3>2. \A u \in Bargers : abt'[u] # "no" <=> abt[u] # "no" \/ u = s
        BY <1>1, <2>4 DEF TypeOK, TasksOK
      <3>3. QED
        BY <1>1, <2>1, <2>3, <3>1, <3>2 DEF InTurn, Queueing, Follows
    <2>5. QED
      BY <1>1, <2>1, <2>3, <2>4 DEF InTurn, Queueing, Follows
  <1>3. CASE AbortLocked(s)
    <2>1. /\ tlock' = tlock /\ pacer' = pacer /\ strm' = strm /\ bind'.state = bind.state
          /\ \A u \in Bargers : abt'[u] # "no" <=> abt[u] # "no"
      BY <1>1, <1>3 DEF AbortLocked, player, TypeOK, OutputOK, BindType, TasksOK
    <2>2. QED
      BY <1>1, <2>1 DEF InTurn, Queueing, Follows, Playing, Ready
  <1>4. CASE BargeStops(s) \/ BargeStopsClosed(s)
    <2>1. PICK ok : Stopped(s, ok)
      BY <1>4 DEF BargeStops, BargeStopsClosed
    <2>2. Ready' => Ready
      BY <1>1, <1>4 DEF BargeStops, BargeStopsClosed, Fenced, Closed, Ready, TypeOK, OutputOK, BindType
    <2>3. \A u \in Bargers : abt'[u] # "no" <=> abt[u] # "no" /\ u # s
      BY <1>1, <2>1 DEF Stopped, TypeOK, TasksOK
    <2>4. CASE StreamRemoved /\ tlock' = Without(Without(tlock, "pacer"), s)
      <3>. DEFINE q == Without(tlock, "pacer")
      <3>1. q \in Seq(Tasks)
        BY <1>1, Removed
      <3>2. Distinct(q) /\ ~Among(q, "pacer") /\ \A u \in Bargers : Among(q, u) <=> Among(tlock, u)
        BY <1>1, RemovedOrder DEF Queueing
      <3>. HIDE DEF q
      <3>3. /\ Distinct(Without(q, s)) /\ ~Among(Without(q, s), "pacer") /\ ~Among(Without(q, s), s)
            /\ \A u \in Bargers : u # s => (Among(Without(q, s), u) <=> Among(q, u))
        BY <1>1, <3>1, <3>2, RemovedOrder
      <3>4. tlock' = Without(q, s) /\ ~Playing'
        BY <2>4 DEF q, StreamRemoved, NoStream, Playing
      <3>5. QED
        BY <1>1, <2>3, <3>2, <3>3, <3>4 DEF InTurn, Queueing, Follows
    <2>5. CASE strm' = strm /\ pacer' = pacer /\ tlock' = Without(tlock, s)
      <3>1. /\ Distinct(tlock') /\ ~Among(tlock', s) /\ (Among(tlock', "pacer") <=> Among(tlock, "pacer"))
            /\ \A u \in Bargers : u # s => (Among(tlock', u) <=> Among(tlock, u))
        BY <1>1, <2>5, RemovedOrder DEF Queueing
      <3>2. \A u \in Bargers : u # s /\ Before(tlock, u, "pacer") => Before(tlock', u, "pacer")
        BY <1>1, <2>5, RemovedOrder
      <3>3. Playing' => Playing
        BY <2>2, <2>5 DEF Playing
      <3>4. QED
        BY <1>1, <2>3, <2>5, <3>1, <3>2, <3>3 DEF InTurn, Queueing, Follows
    <2>6. QED
      BY <1>1, <2>1, <2>4, <2>5, StopLeaves DEF Stopped
  <1>5. CASE BargeClears(s)
    <2>1. tlock' = tlock /\ pacer' = pacer /\ abt' = abt /\ strm' = strm /\ bind' = bind
      BY <1>5 DEF BargeClears, output, player
    <2>2. QED
      BY <2>1, OthersInTurn DEF Playing, Ready
  <1>6. QED
    BY <1>2, <1>3, <1>4, <1>5 DEF Barging

LEMMA NextInTurn == ASSUME SilenceInv, InTurn, Next PROVE InTurn'
  <1>1. TypeOK
    BY DEF SilenceInv
  <1>2. CASE SocketCloses \/ Xoff \/ Asterisk
    <2>1. tlock' = tlock /\ pacer' = pacer /\ abt' = abt /\ strm' = strm /\ (Ready' => Ready)
      BY <1>1, <1>2 DEF SocketCloses, Closed, Xoff, Asterisk, Play, Xon, Told, player, Ready, TypeOK, OutputOK,
         BindType
    <2>2. QED
      BY <2>1, OthersInTurn DEF Playing
  <1>3. CASE Pacing \/ TimesOut
    BY <1>1, <1>3, PacingInTurn
  <1>4. CASE \E s \in Bargers : BargeBegins(s) \/ Barging(s)
    BY <1>4, BargingInTurn
  <1>5. CASE ProvChunk
    <2>1. tlock' = tlock /\ abt' = abt /\ bind' = bind
      BY <1>5 DEF ProvChunk, output
    <2>2. CASE Starts
      <3>1. ~Among(tlock, "pacer") /\ strm'.gen = 0
        BY <2>2 DEF Starts, NoStream, SilenceInv, Streams, NoneYet, InTurn, Queueing
      <3>2. QED
        BY <2>1, <3>1 DEF InTurn, Queueing, Follows, Among, Before
    <2>3. CASE pacer' = pacer /\ (strm' = strm \/ strm' = [strm EXCEPT !.epoch = @ + 1])
      <3>1. strm'.gen = strm.gen /\ strm'.id = strm.id /\ strm'.stop = strm.stop
        BY <1>1, <2>3 DEF TypeOK, PlayerOK, StreamType
      <3>2. QED
        BY <2>1, <2>3, <3>1, OthersInTurn DEF Playing, Ready
    <2>4. QED
      BY <1>1, <1>5, <2>2, <2>3, ChunkStarts
  <1>6. CASE ProvDone \/ (\E g \in gates : GateTask(g)) \/ DrainDone \/ DrainTimesOut
    <2>1. /\ tlock' = tlock /\ pacer' = pacer /\ abt' = abt /\ bind' = bind
          /\ strm'.gen = strm.gen /\ strm'.id = strm.id /\ strm'.stop = strm.stop
      BY <1>1, <1>6 DEF ProvDone, GateTask, DrainDone, DrainTimesOut, DrainClears, output, player, TypeOK, PlayerOK,
         StreamType
    <2>2. QED
      BY <2>1, OthersInTurn DEF Playing, Ready
  <1>7. QED
    BY <1>2, <1>3, <1>4, <1>5, <1>6 DEF Next

-----------------------------------------------------------------------------
(* A stream that nobody stops keeps its pacer, its generation and its queue. *)

\* The pacer and the output in step.
Steady ==
  /\ pacer.pc # "dead" /\ ~strm.failed
  /\ strm.gen = 0 => pacer.pc \in {"idle", "admit", "begin"}
  /\ strm.gen # 0 => /\ strm.gen = bind.gen
                     /\ \/ pacer.pc \in {"idle", "write", "finish"} /\ bind.out = "buffering"
                        \/ pacer.pc = "finishing" /\ bind.out = "finishing"
\* The provider's queue is the stream's, unless the stream was cut.
Fed == strm.id \notin hist.cut => prov.q = "live"
Plays == Playing => Steady /\ Fed

LEMMA OthersPlay ==
  ASSUME Plays, Playing' => Playing, bind'.gen = bind.gen, bind'.out = bind.out, pacer'.pc = pacer.pc, prov'.q = prov.q,
         strm'.id = strm.id, strm'.gen = strm.gen, strm'.failed = strm.failed, hist'.cut = hist.cut
  PROVE  Plays'
  BY DEF Plays, Steady, Fed

LEMMA PacingPlays == ASSUME SilenceInv, Plays, Pacing \/ TimesOut PROVE Plays'
  <1>1. SUFFICES ASSUME Playing' PROVE Steady' /\ Fed'
    BY DEF Plays
  <1>2. ~TimesOut
    <2>1. TypeOK
      BY DEF SilenceInv
    <2>2. TimesOut => ~Ready'
      BY <2>1 DEF TimesOut, WriteTimesOut, FinishTimesOut, Closed, Ready, TypeOK, OutputOK, BindType
    <2>3. QED
      BY <1>1, <2>2 DEF Playing
  <1>3. TypeOK /\ bind'.state = bind.state /\ prov' = prov /\ strm'.id = strm.id /\ strm'.stop = strm.stop /\ hist'.cut = hist.cut
    <2>1. TypeOK
      BY DEF SilenceInv
    <2>2. bind'.state = bind.state /\ prov' = prov
      BY <1>2, <2>1 DEF Pacing, TakeAudio, Admitted, GoAround, Begin, Write, WriteRefused, TakeBoundary, Finish,
         FinishTold,
         TypeOK, OutputOK, BindType
    <2>3. QED
      BY <2>1, <2>2, PacerKeepsStream DEF SameStream
  <1>4. Playing /\ Steady /\ Ready /\ ~strm.stop /\ ~strm.failed /\ Fed'
    BY <1>1, <1>3 DEF Playing, Plays, Steady, Fed, Ready
  <1>5. CASE TakeAudio \/ Admitted \/ GoAround
    <2>1. /\ bind' = bind /\ strm' = strm
          /\ \/ pacer.pc = "idle" /\ pacer'.pc = IF strm.gen = 0 THEN "admit" ELSE "write"
             \/ pacer.pc \in {"admit", "begin"} /\ pacer'.pc \in {"admit", "begin"}
      BY <1>3, <1>4, <1>5 DEF TakeAudio, Admitted, GoAround, TypeOK, PlayerOK, PacerType
    <2>2. QED
      BY <1>4, <2>1 DEF Steady
  <1>6. CASE Begin
    <2>1. pacer.pc = "begin" /\ bind.admission
      BY <1>6 DEF Begin
    <2>2. bind.out = "idle"
      BY <1>4, <2>1 DEF SilenceInv, Locked, Aborting, Voice, Writing, Finishing
    <2>3. strm'.gen = bind'.gen /\ bind'.gen = bind.gen + 1 /\ bind'.out = "buffering" /\ pacer'.pc = "write" /\ ~strm'.failed
      BY <1>3, <1>4, <1>6, <2>2 DEF Begin, TypeOK, OutputOK, PlayerOK, BindType, StreamType, PacerType
    <2>4. bind.gen \in Nat
      BY <1>3, Fields
    <2>5. QED
      BY <1>4, <2>3, <2>4 DEF Steady
  <1>7. CASE Write
    <2>1. bind' = bind /\ strm' = strm /\ pacer.pc = "write" /\ pacer'.pc = "idle"
      BY <1>7 DEF Write
    <2>2. QED
      BY <1>4, <2>1 DEF Steady
  <1>8. CASE WriteRefused
    BY <1>4, <1>8 DEF WriteRefused, Current, Steady
  <1>9. CASE TakeBoundary
    <2>1. pacer.pc = "idle" /\ bind' = bind
      BY <1>9 DEF TakeBoundary
    <2>2. CASE strm.gen # 0
      <3>1. strm'.gen = strm.gen /\ strm'.failed = strm.failed /\ pacer'.pc = "finish"
        BY <1>3, <1>4, <1>9, <2>2 DEF TakeBoundary, TypeOK, PlayerOK, StreamType
      <3>2. QED
        BY <1>4, <2>1, <2>2, <3>1 DEF Steady
    <2>3. CASE strm.gen = 0
      <3>1. /\ strm' = [strm EXCEPT !.gen = IF strm.stop THEN @ ELSE 0, !.failed = @ \/ strm.gen # 0]
            /\ \E n : Resolve(n, strm.gen = 0 /\ ~strm.failed)
        BY <1>9, <2>3 DEF TakeBoundary
      <3>2. strm.gen = 0 /\ ~strm.failed
        BY <1>4, <2>3
      <3>3. pacer'.pc = "idle"
        BY <3>1, <3>2 DEF Resolve
      <3>4. strm'.gen = 0 /\ ~strm'.failed
        BY <1>3, <1>4, <2>3, <3>1 DEF TypeOK, PlayerOK, StreamType
      <3>5. QED
        BY <1>4, <3>3, <3>4 DEF Steady
    <2>4. QED
      BY <2>2, <2>3
  <1>10. CASE Finish
    <2>1. pacer.pc = "finish"
      BY <1>10 DEF Finish
    <2>2. strm.gen # 0 /\ Current
      BY <1>4, <2>1 DEF Steady, Current
    <2>3. bind'.gen = bind.gen /\ bind'.out = "finishing" /\ pacer'.pc = "finishing" /\ strm' = strm
      BY <1>3, <1>4, <1>10, <2>2 DEF Finish, TypeOK, OutputOK, PlayerOK, BindType, PacerType
    <2>4. QED
      BY <1>4, <2>2, <2>3 DEF Steady
  <1>11. CASE FinishTold
    <2>1. pacer.pc = "finishing" /\ bind.fin \in {"ok", "bad"} /\ Finished(bind.fin = "ok")
      BY <1>11 DEF FinishTold
    <2>2. bind.fin = "ok"
      BY <1>4, <2>1 DEF Steady, SilenceInv, Voice, Finishing
    <2>3. Finished(TRUE)
      BY <2>1, <2>2
    <2>4. pacer'.pc = "idle" /\ strm'.gen = 0 /\ strm'.failed = strm.failed
      BY <1>3, <2>3, FinishedWell
    <2>5. QED
      BY <1>4, <2>4 DEF Steady
  <1>12. QED
    BY <1>2, <1>5, <1>6, <1>7, <1>8, <1>9, <1>10, <1>11 DEF Pacing

\* Who interrupts has stopped the stream, or asked for the lock before the stream's output began.
LEMMA BargingPlays ==
  ASSUME SilenceInv, InTurn, Plays, NEW s \in Bargers, BargeBegins(s) \/ Barging(s)
  PROVE  Plays'
  <1>1. TypeOK
    BY DEF SilenceInv
  <1>2. CASE BargeBegins(s)
    <2>1. strm'.id = strm.id /\ (strm.id # 0 => strm'.stop)
      BY <1>1, <1>2 DEF BargeBegins, TypeOK, PlayerOK, StreamType
    <2>2. ~Playing'
      BY <2>1, <1>1, Fields DEF Playing
    <2>3. QED
      BY <2>2 DEF Plays
  <1>3. CASE AbortLocked(s)
    <2>1. /\ strm' = strm /\ pacer' = pacer /\ prov' = prov /\ bind'.state = bind.state /\ abt[s] # "no"
          /\ hist.cut \subseteq hist'.cut
      BY <1>1, <1>3, AbortHist DEF AbortLocked, player, TypeOK, OutputOK, BindType
    <2>2. Playing => strm.gen = 0
      BY <2>1 DEF InTurn, Follows
    <2>3. QED
      BY <2>1, <2>2 DEF Plays, Playing, Steady, Fed, Ready
  <1>4. CASE BargeStops(s)
    <2>1. PICK ok : Stopped(s, ok)
      BY <1>4 DEF BargeStops
    <2>2. CASE StreamRemoved
      BY <2>2 DEF StreamRemoved, NoStream, Playing, Plays
    <2>3. CASE strm' = strm /\ (barge[s].sid = 0 \/ strm.id # barge[s].sid)
      <3>1. hist'.cut = IF strm.id \notin {0, barge[s].sid} THEN hist.cut \cup {strm.id} ELSE hist.cut
        BY <1>1, <2>1, StopLeaves
      <3>2. Playing' => Playing /\ strm.id \in hist'.cut
        BY <1>1, <1>4, <2>3, <3>1 DEF Playing, BargeStops, Fenced, Ready, TypeOK, OutputOK, BindType
      <3>3. Playing => strm.gen = 0
        BY <1>4 DEF BargeStops, InTurn, Follows
      <3>4. pacer' = pacer
        BY <1>1, <2>1, <2>3, StopLeaves
      <3>5. QED
        BY <2>3, <3>2, <3>3, <3>4 DEF Plays, Steady, Fed
    <2>4. QED
      BY <1>1, <2>1, <2>2, <2>3, StopLeaves
  <1>5. CASE BargeStopsClosed(s)
    <2>1. ~Ready'
      BY <1>5 DEF BargeStopsClosed, SilenceInv, FencesHeld, NothingToAbort, Ready
    <2>2. QED
      BY <2>1 DEF Plays, Playing
  <1>6. CASE BargeClears(s)
    <2>1. bind' = bind /\ pacer' = pacer /\ prov' = prov /\ strm' = strm /\ hist'.cut = hist.cut
      BY <1>1, <1>6 DEF BargeClears, Bared, output, player, TypeOK, HistOK, HistType
    <2>2. QED
      BY <2>1, OthersPlay DEF Playing, Ready
  <1>7. QED
    BY <1>2, <1>3, <1>4, <1>5, <1>6 DEF Barging

LEMMA NextPlays == ASSUME SilenceInv, InTurn, Plays, Next PROVE Plays'
  <1>1. TypeOK
    BY DEF SilenceInv
  <1>2. CASE SocketCloses
    <2>1. ~Ready'
      BY <1>1, <1>2 DEF SocketCloses, Closed, Ready, TypeOK, OutputOK, BindType
    <2>2. QED
      BY <2>1 DEF Plays, Playing
  <1>3. CASE Xoff \/ Asterisk
    <2>1. /\ bind'.gen = bind.gen /\ bind'.out = bind.out /\ bind'.state = bind.state
          /\ pacer' = pacer /\ prov' = prov /\ strm' = strm /\ hist' = hist
      BY <1>1, <1>3 DEF Xoff, Asterisk, Play, Xon, Told, player, TypeOK, OutputOK, BindType
    <2>2. QED
      BY <2>1, OthersPlay DEF Playing, Ready
  <1>4. CASE Pacing \/ TimesOut
    BY <1>4, PacingPlays
  <1>5. CASE \E s \in Bargers : BargeBegins(s) \/ Barging(s)
    BY <1>5, BargingPlays
  <1>6. CASE ProvChunk
    <2>1. CASE Starts
      BY <2>1 DEF Starts, NoStream, Plays, Steady, Fed
    <2>2. CASE pacer' = pacer /\ (strm' = strm \/ (strm.id # 0 /\ strm' = [strm EXCEPT !.epoch = @ + 1]))
      <3>1. /\ bind' = bind /\ hist' = hist /\ strm'.gen = strm.gen /\ strm'.failed = strm.failed
            /\ strm'.id = strm.id /\ strm'.stop = strm.stop
        BY <1>1, <1>6, <2>2 DEF ProvChunk, StreamStarts, output, TypeOK, PlayerOK, StreamType
      <3>2. strm.id # 0 /\ prov.q = "live" => prov'.q = "live"
        BY <1>1, <1>6 DEF ProvChunk, StreamStarts, TypeOK, ProviderOK, ProvType
      <3>3. QED
        BY <2>2, <3>1, <3>2 DEF Plays, Playing, Steady, Fed, Ready
    <2>3. QED
      BY <1>1, <1>6, <2>1, <2>2, ChunkStarts
  <1>7. CASE ProvDone
    <2>1. /\ bind' = bind /\ hist' = hist /\ pacer' = pacer /\ prov'.q = prov.q /\ strm'.gen = strm.gen
          /\ strm'.failed = strm.failed /\ strm'.id = strm.id /\ strm'.stop = strm.stop
      BY <1>1, <1>7 DEF ProvDone, output, TypeOK, PlayerOK, StreamType, ProviderOK, ProvType
    <2>2. QED
      BY <2>1, OthersPlay DEF Playing, Ready
  <1>8. CASE (\E g \in gates : GateTask(g)) \/ DrainDone \/ DrainTimesOut
    <2>1. bind' = bind /\ pacer' = pacer /\ prov' = prov /\ strm' = strm /\ hist'.cut = hist.cut
      BY <1>1, <1>8 DEF GateTask, DrainDone, DrainTimesOut, DrainClears, Bared, output, player, TypeOK, HistOK,
         HistType
    <2>2. QED
      BY <2>1, OthersPlay DEF Playing, Ready
  <1>9. QED
    BY <1>2, <1>3, <1>4, <1>5, <1>6, <1>7, <1>8 DEF Next

\* A stream that nobody stops keeps its pacer task, whoever else is interrupting, and, if no late
\* barge-in cut it, the provider's chunks go to the queue that it reads (engine.py,
\* _provider_stream_queues).
THEOREM UnstoppedPlays == Spec => []StreamPlays
  <1>1. Init => InTurn /\ Plays
    BY DEF Init, InTurn, Queueing, Follows, Distinct, Among, Plays, Playing, NoStream
  <1>2. SilenceInv /\ (InTurn /\ Plays) /\ [Next]_vars => (InTurn /\ Plays)'
    <2>1. ASSUME InTurn, Plays, UNCHANGED vars PROVE InTurn' /\ Plays'
      BY <2>1, OthersInTurn, OthersPlay DEF vars, output, player, Playing, Ready
    <2>2. QED
      BY <2>1, NextPlays, NextInTurn
  <1>3. Plays => StreamPlays
    BY DEF Plays, Playing, Steady, Fed, StreamPlays
  <1>4. QED
    BY <1>1, <1>2, <1>3, SilenceBegins, SilenceKept, PTL DEF Spec

-----------------------------------------------------------------------------
(* Segments come in order: what the provider has said, what waits for the    *)
(* pacer, what the pacer holds, what Asterisk has to play.                   *)

SrcOrder == \A i, j \in DOMAIN src : i < j =>
   src[i].n <= src[j].n /\ (src[i].k = "bound" => src[i].n < src[j].n)
\* Segment n is over for the provider.
Said(n) == n <= prov.seg /\ (n = prov.seg => ~prov.speaking)
\* Everything on its way belongs to a segment that was begun, every boundary to one that is over.
Begun ==
  /\ \A x \in Items : 1 <= x.n /\ x.n <= prov.seg /\ (x.k = "bound" => Said(x.n))
  /\ pacer.seg <= prov.seg /\ Said(strm.pend)
  /\ \A v \in Voices : 1 <= v[2] /\ v[2] <= prov.seg
  /\ prov.speaking => prov.seg # 0
Behind == \A x \in Items : pacer.seg <= x.n /\ strm.pend < x.n
\* What the pacer holds where.
AtWork ==
  /\ strm.pend # 0 <=> pacer.pc \in {"finish", "finishing"}
  /\ strm.pend # 0 => pacer.seg = 0
  /\ pacer.pc \in {"admit", "begin", "write"} => pacer.seg # 0
\* What was acknowledged is in front of everything on its way.
Done ==
  \A n \in 1..Segments : bres[n] = "ok" =>
    /\ Said(n)
    /\ \A x \in Items : n < x.n
    /\ pacer.seg # 0 => n < pacer.seg
    /\ \A v \in Voices : n < v[2]
Segs == SrcOrder /\ Begun /\ Behind /\ AtWork /\ Done

LEMMA ItemTypes == ASSUME TypeOK PROVE src \in Seq(ItemType) /\ \A x \in Items : x \in ItemType /\ x.n \in 0..Segments
  <1>1. src \in Seq(ItemType)
    BY DEF TypeOK, PlayerOK
  <1>2. \A x \in Items : x \in ItemType
    BY <1>1 DEF Items
  <1>3. QED
    BY <1>1, <1>2 DEF ItemType

\* What is taken from the front, and what stays behind it.
LEMMA Shorter ==
  ASSUME src \in Seq(ItemType), SrcOrder, NEW k \in 0..Len(src), src' = SubSeq(src, k + 1, Len(src))
  PROVE  SrcOrder' /\ Items' \subseteq Items
  <1>1. /\ Len(src) \in Nat /\ DOMAIN src = 1..Len(src) /\ DOMAIN src' = 1..(Len(src) - k)
        /\ \A i \in 1..(Len(src) - k) : src'[i] = src[i + k] /\ i + k \in 1..Len(src)
    OBVIOUS
  <1>2. SrcOrder'
    <2>1. SUFFICES ASSUME NEW i \in DOMAIN src', NEW j \in DOMAIN src', i < j
                   PROVE  src'[i].n <= src'[j].n /\ (src'[i].k = "bound" => src'[i].n < src'[j].n)
      BY DEF SrcOrder
    <2>2. i + k \in DOMAIN src /\ j + k \in DOMAIN src /\ i + k < j + k /\ src'[i] = src[i + k] /\ src'[j] = src[j + k]
      BY <1>1, <2>1
    <2>3. QED
      BY <2>2 DEF SrcOrder
  <1>3. Items' \subseteq Items
    <2>1. \A i \in DOMAIN src' : src'[i] \in Items
      BY <1>1 DEF Items
    <2>2. QED
      BY <2>1 DEF Items
  <1>4. QED
    BY <1>2, <1>3

LEMMA Taken ==
  ASSUME src \in Seq(ItemType), src # <<>>, SrcOrder, src' = Tail(src)
  PROVE  /\ SrcOrder' /\ Items' \subseteq Items /\ Head(src) \in Items
         /\ \A x \in Items' : Head(src).n <= x.n /\ (Head(src).k = "bound" => Head(src).n < x.n)
  <1>1. 1 \in 0..Len(src) /\ Tail(src) = SubSeq(src, 1 + 1, Len(src))
    OBVIOUS
  <1>2. SrcOrder' /\ Items' \subseteq Items
    BY <1>1, Shorter
  <1>3. /\ Len(src) \in Nat /\ 1 \in DOMAIN src /\ Head(src) = src[1] /\ DOMAIN src' = 1..(Len(src) - 1)
        /\ \A i \in 1..(Len(src) - 1) : src'[i] = src[i + 1] /\ i + 1 \in DOMAIN src /\ 1 < i + 1
    OBVIOUS
  <1>4. Head(src) \in Items
    BY <1>3 DEF Items
  <1>5. \A i \in DOMAIN src' : src[1].n <= src'[i].n /\ (src[1].k = "bound" => src[1].n < src'[i].n)
    BY <1>3 DEF SrcOrder
  <1>6. QED
    BY <1>2, <1>3, <1>4, <1>5 DEF Items

LEMMA Added ==
  ASSUME src \in Seq(ItemType), SrcOrder, NEW it \in ItemType, src' = Append(src, it),
         \A x \in Items : x.n <= it.n /\ (x.k = "bound" => x.n < it.n)
  PROVE  SrcOrder' /\ Items' = Items \cup {it}
  <1>1. /\ Len(src) \in Nat /\ DOMAIN src = 1..Len(src) /\ DOMAIN src' = 1..(Len(src) + 1)
        /\ \A i \in 1..Len(src) : src'[i] = src[i]
        /\ src'[Len(src) + 1] = it
    OBVIOUS
  <1>2. \A i \in DOMAIN src : src[i] \in Items
    BY DEF Items
  <1>3. SrcOrder'
    <2>1. SUFFICES ASSUME NEW i \in DOMAIN src', NEW j \in DOMAIN src', i < j
                   PROVE  src'[i].n <= src'[j].n /\ (src'[i].k = "bound" => src'[i].n < src'[j].n)
      BY DEF SrcOrder
    <2>2. i \in DOMAIN src /\ src'[i] = src[i]
      BY <1>1, <2>1
    <2>3. CASE j \in DOMAIN src
      BY <1>1, <2>1, <2>2, <2>3 DEF SrcOrder
    <2>4. CASE j = Len(src) + 1
      BY <1>1, <1>2, <2>2, <2>4
    <2>5. QED
      BY <1>1, <2>3, <2>4
  <1>4. Items' \subseteq Items \cup {it}
    BY <1>1, <1>2 DEF Items
  <1>5. \A x \in Items \cup {it} : x \in Items'
    <2>1. \A i \in DOMAIN src' : src'[i] \in Items'
      BY DEF Items
    <2>2. it \in Items'
      BY <1>1, <2>1
    <2>3. ASSUME NEW x \in Items PROVE x \in Items'
      <3>1. PICK i \in DOMAIN src : x = src[i]
        BY DEF Items
      <3>2. i \in DOMAIN src' /\ src'[i] = x
        BY <1>1, <3>1
      <3>3. QED
        BY <2>1, <3>2
    <2>4. QED
      BY <2>2, <2>3
  <1>6. QED
    BY <1>3, <1>4, <1>5

\* The steps that bring nothing new.
LEMMA OthersKeepSegs ==
  ASSUME TypeOK, Segs, prov'.seg = prov.seg, prov'.speaking = prov.speaking, SrcOrder', Items' \subseteq Items, Voices' \subseteq Voices,
         AtWork', strm'.pend \in {strm.pend, 0}, pacer'.seg \in {pacer.seg, 0},
         \A n \in 1..Segments : bres'[n] = "ok" => bres[n] = "ok"
  PROVE  Segs'
  <1>1. prov.seg \in Nat /\ Said(0) /\ \A n : Said(n)' <=> Said(n)
    BY Fields DEF Segs, Begun, Said
  <1>2. Begun'
    BY <1>1 DEF Segs, Begun
  <1>3. Behind'
    <2>1. \A x \in Items : x.n \in Nat /\ 1 <= x.n
      BY ItemTypes, Fields DEF Segs, Begun
    <2>2. QED
      BY <2>1 DEF Segs, Behind
  <1>4. Done'
    BY <1>1 DEF Segs, Done
  <1>5. QED
    BY <1>2, <1>3, <1>4 DEF Segs

LEMMA SaidStays ==
  ASSUME TypeOK, ProvChunk \/ ProvDone
  PROVE  \A n \in Nat : (n <= prov.seg => n <= prov'.seg) /\ (Said(n) => Said(n)')
  <1>1. prov.seg \in Nat
    BY Fields
  <1>2. CASE ProvChunk
    <2>1. prov'.seg = Segment /\ prov'.speaking = TRUE
      BY <1>2 DEF ProvChunk, StreamStarts, TypeOK, ProviderOK, ProvType
    <2>2. QED
      BY <1>1, <2>1 DEF Segment, Said
  <1>3. CASE ProvDone
    <2>1. prov'.seg = prov.seg /\ prov'.speaking = FALSE
      BY <1>3 DEF ProvDone, TypeOK, ProviderOK, ProvType
    <2>2. QED
      BY <1>1, <2>1 DEF Said
  <1>4. QED
    BY <1>2, <1>3

LEMMA ResolvedWell ==
  ASSUME TypeOK, NEW n, Resolve(n, TRUE)
  PROVE  /\ pacer' = [pc |-> "idle", seg |-> 0]
         /\ \A m \in 1..Segments : bres'[m] = "ok" => bres[m] = "ok" \/ m = n
  BY DEF Resolve, TypeOK, PlayerOK

LEMMA ResolvedBadly ==
  ASSUME TypeOK, NEW n, Resolve(n, FALSE)
  PROVE  /\ pacer' = [pc |-> "dead", seg |-> 0]
         /\ \A m \in 1..Segments : bres'[m] = "ok" => bres[m] = "ok"
  BY DEF Resolve, Fails, TypeOK, PlayerOK

\* A boundary is acknowledged when nothing is heard and nothing in front of it waits.
LEMMA Acknowledged ==
  ASSUME TypeOK, Segs, Silence, Voices' = Voices, prov' = prov, SrcOrder', Items' \subseteq Items, pacer' = [pc |-> "idle", seg |-> 0],
         strm'.pend = 0, NEW n \in 1..Segments, Said(n), \A x \in Items' : n < x.n,
         \A m \in 1..Segments : bres'[m] = "ok" => bres[m] = "ok" \/ m = n
  PROVE  Segs'
  <1>1. prov.seg \in Nat /\ Said(0) /\ \A m : Said(m)' <=> Said(m)
    BY Fields DEF Segs, Begun, Said
  <1>2. Voices' = {}
    BY DEF Silence
  <1>3. Begun'
    BY <1>1, <1>2 DEF Segs, Begun
  <1>4. Behind'
    <2>1. \A x \in Items : x.n \in Nat /\ 1 <= x.n
      BY ItemTypes, Fields DEF Segs, Begun
    <2>2. QED
      BY <2>1 DEF Segs, Behind
  <1>5. AtWork'
    BY DEF AtWork
  <1>6. Done'
    BY <1>1, <1>2 DEF Segs, Done
  <1>7. QED
    BY <1>3, <1>4, <1>5, <1>6 DEF Segs

LEMMA TakeAudioSegs == ASSUME TypeOK, Segs, TakeAudio PROVE Segs'
  <1>. DEFINE it == Head(src)
  <1>1. /\ src \in Seq(ItemType) /\ src # <<>> /\ src' = Tail(src) /\ prov' = prov /\ Voices' = Voices /\ strm' = strm
        /\ bres' = bres /\ pacer.pc = "idle" /\ pacer'.pc \in {"dead", "admit", "write"} /\ pacer'.seg = it.n
    BY ItemTypes DEF TakeAudio, Voices, Fails
  <1>2. /\ SrcOrder' /\ Items' \subseteq Items /\ it \in Items /\ \A x \in Items' : it.n <= x.n
    BY <1>1, Taken DEF Segs
  <1>. HIDE DEF it
  <1>3. it.n \in Nat /\ 1 <= it.n /\ it.n <= prov.seg /\ prov.seg \in Nat /\ \A n : Said(n)' <=> Said(n)
    BY <1>1, <1>2, ItemTypes, Fields DEF Segs, Begun, Said
  <1>4. Begun'
    BY <1>1, <1>2, <1>3 DEF Segs, Begun
  <1>5. Behind'
    BY <1>1, <1>2 DEF Segs, Behind
  <1>6. AtWork'
    BY <1>1, <1>3 DEF Segs, AtWork
  <1>7. Done'
    BY <1>1, <1>2, <1>3 DEF Segs, Done
  <1>8. QED
    BY <1>2, <1>4, <1>5, <1>6, <1>7 DEF Segs

LEMMA WriteSegs == ASSUME TypeOK, Segs, Write PROVE Segs'
  <1>1. /\ src' = src /\ Items' = Items /\ prov' = prov /\ strm' = strm /\ bres' = bres /\ pacer.pc = "write"
        /\ pacer' = [pc |-> "idle", seg |-> 0]
    BY DEF Write, Items
  <1>2. Voices' \subseteq Voices \cup {<<strm.id, pacer.seg>>}
    BY VoicesCome DEF Next, Pacing
  <1>3. pacer.seg \in Nat /\ pacer.seg # 0 /\ prov.seg \in Nat /\ \A n : Said(n)' <=> Said(n)
    BY <1>1, Fields DEF Segs, AtWork, Said
  <1>4. SrcOrder' /\ AtWork'
    BY <1>1 DEF Segs, SrcOrder, AtWork
  <1>5. Begun'
    BY <1>1, <1>2, <1>3 DEF Segs, Begun
  <1>6. Behind'
    <2>1. \A x \in Items : x.n \in Nat /\ 1 <= x.n
      BY ItemTypes, Fields DEF Segs, Begun
    <2>2. QED
      BY <1>1, <2>1 DEF Segs, Behind
  <1>7. Done'
    BY <1>1, <1>2, <1>3 DEF Segs, Done
  <1>8. QED
    BY <1>4, <1>5, <1>6, <1>7 DEF Segs

LEMMA TakeBoundarySegs == ASSUME TypeOK, NoneYet, Voice, Segs, TakeBoundary PROVE Segs'
  <1>. DEFINE it == Head(src)
  <1>1. /\ src \in Seq(ItemType) /\ src # <<>> /\ src' = Tail(src) /\ prov' = prov /\ Voices' = Voices
        /\ pacer.pc = "idle" /\ it.k = "bound" /\ strm.id # 0
    BY ItemTypes DEF TakeBoundary, Voices, NoneYet
  <1>2. /\ SrcOrder' /\ Items' \subseteq Items /\ it \in Items /\ \A x \in Items' : it.n < x.n
    BY <1>1, Taken DEF Segs
  <1>3. CASE strm.gen # 0 /\ ~strm.stop /\ Ready
    <2>1. strm'.pend = it.n /\ pacer' = [pc |-> "finish", seg |-> 0] /\ bres' = bres
      BY <1>3 DEF TakeBoundary, TypeOK, PlayerOK, StreamType
    <2>. HIDE DEF it
    <2>2. it.n \in Nat /\ 1 <= it.n /\ Said(it.n) /\ prov.seg \in Nat /\ \A n : Said(n)' <=> Said(n)
      BY <1>1, <1>2, ItemTypes, Fields DEF Segs, Begun, Said
    <2>3. Begun'
      BY <1>1, <1>2, <2>1, <2>2 DEF Segs, Begun
    <2>4. Behind'
      <3>1. \A x \in Items : x.n \in Nat /\ 1 <= x.n
        BY ItemTypes, Fields DEF Segs, Begun
      <3>2. QED
        BY <1>2, <2>1, <3>1 DEF Segs, Behind
    <2>5. AtWork'
      BY <2>1, <2>2 DEF AtWork
    <2>6. Done'
      BY <1>1, <1>2, <2>1, <2>2 DEF Segs, Done
    <2>7. QED
      BY <1>2, <2>3, <2>4, <2>5, <2>6 DEF Segs
  <1>4. CASE ~(strm.gen # 0 /\ ~strm.stop /\ Ready)
    <2>1. /\ strm' = [strm EXCEPT !.gen = IF strm.stop THEN @ ELSE 0, !.failed = @ \/ strm.gen # 0]
          /\ Resolve(it.n, strm.gen = 0 /\ ~strm.failed)
      BY <1>4 DEF TakeBoundary
    <2>2. strm'.pend = 0
      BY <1>1, <2>1 DEF Segs, AtWork, TypeOK, PlayerOK, StreamType
    <2>. HIDE DEF it
    <2>3. it.n \in 1..Segments /\ Said(it.n)
      BY <1>1, <1>2, ItemTypes, Fields DEF Segs, Begun
    <2>4. CASE strm.gen = 0 /\ ~strm.failed
      <3>1. Resolve(it.n, TRUE) /\ Silence
        BY <1>1, <2>1, <2>4 DEF Voice, Unspoken
      <3>2. QED
        BY <1>1, <1>2, <2>2, <2>3, <3>1, ResolvedWell, Acknowledged
    <2>5. CASE ~(strm.gen = 0 /\ ~strm.failed)
      <3>1. Resolve(it.n, FALSE)
        BY <2>1, <2>5
      <3>2. pacer' = [pc |-> "dead", seg |-> 0] /\ \A m \in 1..Segments : bres'[m] = "ok" => bres[m] = "ok"
        BY <3>1, ResolvedBadly
      <3>3. AtWork'
        BY <2>2, <3>2 DEF AtWork
      <3>4. QED
        BY <1>1, <1>2, <2>2, <3>2, <3>3, OthersKeepSegs
    <2>6. QED
      BY <2>4, <2>5
  <1>5. QED
    BY <1>3, <1>4

LEMMA FinishSegs == ASSUME TypeOK, Voice, Segs, Voices' \subseteq Voices, Finish \/ FinishTold \/ FinishTimesOut PROVE Segs'
  <1>1. /\ src' = src /\ Items' = Items /\ SrcOrder' /\ prov' = prov /\ pacer.pc \in {"finish", "finishing"}
    BY DEF Finish, FinishTold, FinishTimesOut, Items, Segs, SrcOrder
  <1>2. strm.pend # 0 /\ strm.pend \in 1..Segments /\ pacer.seg = 0
    BY <1>1, Fields DEF Segs, AtWork
  <1>3. CASE Finished(FALSE)
    <2>1. Resolve(strm.pend, FALSE)
      BY <1>3 DEF Finished
    <2>2. /\ pacer' = [pc |-> "dead", seg |-> 0] /\ strm'.pend = 0
          /\ \A m \in 1..Segments : bres'[m] = "ok" => bres[m] = "ok"
      BY <1>3, <2>1, FinishedBadly, ResolvedBadly
    <2>3. AtWork'
      BY <2>2 DEF AtWork
    <2>4. QED
      BY <1>1, <2>2, <2>3, OthersKeepSegs
  <1>4. CASE FinishTold /\ bind.fin = "ok"
    <2>1. Finished(TRUE) /\ Silence /\ Voices' = Voices
      <3>1. Finished(bind.fin = "ok") /\ queue' = queue /\ pacer.pc = "finishing"
        BY <1>4 DEF FinishTold
      <3>2. Finished(TRUE)
        BY <1>4, <3>1
      <3>3. QED
        BY <1>4, <3>1, <3>2 DEF Voice, FinAcked, Voices
    <2>2. Resolve(strm.pend, TRUE)
      BY <2>1 DEF Finished
    <2>3. /\ pacer' = [pc |-> "idle", seg |-> 0] /\ strm'.pend = 0
          /\ \A m \in 1..Segments : bres'[m] = "ok" => bres[m] = "ok" \/ m = strm.pend
      BY <2>1, <2>2, FinishedWell, ResolvedWell
    <2>4. Said(strm.pend) /\ \A x \in Items' : strm.pend < x.n
      BY <1>1 DEF Segs, Begun, Behind
    <2>5. QED
      BY <1>1, <1>2, <2>1, <2>3, <2>4, Acknowledged
  <1>5. CASE Finish /\ Ready /\ Current
    <2>1. strm' = strm /\ bres' = bres /\ pacer'.pc = "finishing" /\ pacer'.seg = pacer.seg
      BY <1>5 DEF Finish, TypeOK, PlayerOK, PacerType
    <2>2. AtWork'
      BY <1>2, <2>1 DEF AtWork
    <2>3. QED
      BY <1>1, <2>1, <2>2, OthersKeepSegs
  <1>6. CASE FinishTold /\ bind.fin # "ok"
    <2>1. Finished(bind.fin = "ok")
      BY <1>6 DEF FinishTold
    <2>2. Finished(FALSE)
      BY <1>6, <2>1
    <2>3. QED
      BY <2>2, <1>3
  <1>7. CASE Finish /\ ~(Ready /\ Current)
    <2>1. Finished(FALSE)
      BY <1>7 DEF Finish
    <2>2. QED
      BY <2>1, <1>3
  <1>8. CASE FinishTimesOut
    BY <1>3, <1>8 DEF FinishTimesOut
  <1>9. QED
    BY <1>4, <1>5, <1>6, <1>7, <1>8

LEMMA PacingSegs == ASSUME TypeOK, NoneYet, Voice, Segs, Pacing \/ TimesOut PROVE Segs'
  <1>1. CASE Admitted \/ GoAround \/ Begin \/ WriteRefused \/ WriteTimesOut
    <2>1. /\ src' = src /\ Items' = Items /\ SrcOrder' /\ prov' = prov /\ Voices' = Voices /\ bres' = bres /\ strm'.pend = strm.pend
      BY <1>1 DEF Admitted, GoAround, Begin, WriteRefused, WriteTimesOut, Items, Voices, Segs, SrcOrder,
         TypeOK, PlayerOK, StreamType
    <2>2. pacer'.seg = pacer.seg /\ pacer'.pc \in {"dead", "admit", "begin", "write"} /\ pacer.pc \in {"admit", "begin", "write"}
      BY <1>1 DEF Admitted, GoAround, Begin, WriteRefused, WriteTimesOut, Fails, TypeOK, PlayerOK, PacerType
    <2>3. AtWork'
      BY <2>1, <2>2 DEF Segs, AtWork
    <2>4. QED
      BY <2>1, <2>2, <2>3, OthersKeepSegs
  <1>2. CASE Finish \/ FinishTold \/ FinishTimesOut
    <2>1. Voices' \subseteq Voices
      <3>1. ~Write
        BY <1>2 DEF Finish, FinishTold, FinishTimesOut, Write
      <3>2. Next
        BY <1>2 DEF Next, Pacing, TimesOut
      <3>3. QED
        BY <3>1, <3>2, VoicesCome
    <2>2. QED
      BY <1>2, <2>1, FinishSegs
  <1>3. QED
    BY <1>1, <1>2, TakeAudioSegs, WriteSegs, TakeBoundarySegs DEF Pacing, TimesOut

\* The provider's next item belongs to its present segment, behind all that was said.
LEMMA ProviderSegs == ASSUME TypeOK, NoneYet, Segs, ProvChunk \/ ProvDone PROVE Segs'
  <1>0. PICK m : m = prov'.seg
    OBVIOUS
  <1>1. /\ m \in 1..Segments /\ m \in Nat /\ prov.seg \in Nat
        /\ \A n \in Nat : (n <= prov.seg => n <= m) /\ (Said(n) => n < m)
        /\ m # 0
    <2>1. CASE ProvChunk
      <3>1. m = Segment /\ Segment \in 1..Segments
        BY <1>0, <2>1 DEF ProvChunk, StreamStarts, TypeOK, ProviderOK, ProvType
      <3>2. QED
        BY <3>1, Fields DEF Segment, Said
    <2>2. CASE ProvDone
      <3>1. m = prov.seg /\ prov.speaking /\ prov.seg # 0
        BY <1>0, <2>2 DEF ProvDone, Segs, Begun, TypeOK, ProviderOK, ProvType
      <3>2. QED
        BY <3>1, Fields DEF Said
    <2>3. QED
      BY <2>1, <2>2
  <1>2. bres' = bres /\ Voices' = Voices
    BY DEF ProvChunk, StreamStarts, ProvDone, output, Voices
  <1>3. pacer'.seg \in {pacer.seg, 0} /\ strm'.pend \in {strm.pend, 0} /\ AtWork'
    <2>1. CASE pacer' = pacer /\ strm'.pend = strm.pend
      BY <2>1 DEF Segs, AtWork
    <2>2. CASE Starts
      BY <2>2 DEF Starts, NoStream, AtWork
    <2>3. QED
      BY <2>1, <2>2, ChunkStarts DEF ProvDone, TypeOK, PlayerOK, StreamType
  <1>4. PICK it \in ItemType : /\ it.n = m /\ (it.k = "bound" => Said(m)')
                               /\ src' = src \/ src' = Append(src, it)
    <2>1. CASE ProvChunk
      <3>1. src' = src \/ src' = Append(src, Item("audio", m))
        BY <1>0, <2>1 DEF ProvChunk, StreamStarts, TypeOK, ProviderOK, ProvType
      <3>2. Item("audio", m) \in ItemType /\ Item("audio", m).n = m /\ Item("audio", m).k = "audio"
        BY <1>1, BoundsAssumption DEF Item, ItemType
      <3>3. QED
        BY <3>1, <3>2
    <2>2. CASE ProvDone
      <3>1. (src' = src \/ src' = Append(src, Item("bound", m))) /\ prov'.speaking = FALSE
        BY <1>0, <2>2 DEF ProvDone, TypeOK, ProviderOK, ProvType
      <3>2. Item("bound", m) \in ItemType /\ Item("bound", m).n = m
        BY <1>1, BoundsAssumption DEF Item, ItemType
      <3>3. Said(m)'
        BY <1>0, <1>1, <3>1 DEF Said
      <3>4. QED
        BY <3>1, <3>2, <3>3
    <2>3. QED
      BY <2>1, <2>2
  <1>5. \A x \in Items : x.n \in Nat /\ x.n <= prov.seg /\ (x.k = "bound" => Said(x.n))
    BY ItemTypes DEF Segs, Begun
  <1>6. SrcOrder' /\ Items' \subseteq Items \cup {it}
    <2>1. CASE src' = src
      BY <2>1 DEF Segs, SrcOrder, Items
    <2>2. CASE src' = Append(src, it)
      <3>1. \A x \in Items : x.n <= it.n /\ (x.k = "bound" => x.n < it.n)
        BY <1>1, <1>4, <1>5
      <3>2. QED
        BY <2>2, <3>1, Added, ItemTypes DEF Segs
    <2>3. QED
      BY <1>4, <2>1, <2>2
  <1>7. \A n \in Nat : (n <= prov.seg => n <= prov'.seg) /\ (Said(n) => Said(n)')
    BY SaidStays
  <1>8. strm.pend \in Nat /\ pacer.seg \in Nat /\ 0 \in Nat /\ Said(0) /\ Said(strm.pend) /\ pacer.seg <= prov.seg
    BY Fields DEF Segs, Begun, Said
  <1>9. \A v \in Voices : v[2] \in Nat
    BY VoicesTyped, BoundsAssumption
  <1>10. Begun'
    <2>1. \A x \in Items' : 1 <= x.n /\ x.n <= prov'.seg /\ (x.k = "bound" => Said(x.n)')
      BY <1>0, <1>1, <1>4, <1>5, <1>6, <1>7 DEF Segs, Begun, Said
    <2>2. pacer'.seg <= prov'.seg /\ Said(strm.pend)'
      BY <1>3, <1>7, <1>8 DEF Said
    <2>3. \A v \in Voices' : 1 <= v[2] /\ v[2] <= prov'.seg
      BY <1>2, <1>7, <1>9 DEF Segs, Begun
    <2>4. QED
      BY <1>0, <1>1, <2>1, <2>2, <2>3 DEF Begun
  <1>11. Behind'
    <2>1. \A x \in Items : x.n \in Nat /\ 1 <= x.n
      BY ItemTypes DEF Segs, Begun
    <2>2. \A x \in Items : pacer'.seg <= x.n /\ strm'.pend < x.n
      BY <1>3, <2>1 DEF Segs, Behind
    <2>3. pacer'.seg <= it.n /\ strm'.pend < it.n
      BY <1>1, <1>3, <1>4, <1>8
    <2>4. QED
      BY <1>6, <2>2, <2>3 DEF Behind
  <1>12. Done'
    <2>1. SUFFICES ASSUME NEW n \in 1..Segments, bres[n] = "ok"
                   PROVE  /\ Said(n)' /\ \A x \in Items' : n < x.n
                          /\ pacer'.seg # 0 => n < pacer'.seg
                          /\ \A v \in Voices' : n < v[2]
      BY <1>2 DEF Done
    <2>2. n \in Nat /\ Said(n) /\ (\A x \in Items : n < x.n) /\ (pacer.seg # 0 => n < pacer.seg) /\ \A v \in Voices : n < v[2]
      BY <2>1, BoundsAssumption DEF Segs, Done
    <2>3. QED
      BY <1>1, <1>2, <1>3, <1>4, <1>6, <1>7, <2>2
  <1>13. QED
    BY <1>3, <1>6, <1>10, <1>11, <1>12 DEF Segs

LEMMA StopsSegs ==
  ASSUME TypeOK, Segs, NEW s \in Bargers, NEW ok, Stopped(s, ok), Voices' = Voices
  PROVE  Segs'
  <1>1. prov'.seg = prov.seg /\ prov'.speaking = prov.speaking
    BY DEF Stopped, TypeOK, ProviderOK, ProvType
  <1>2. CASE StreamRemoved
    <2>1. src' = <<>> /\ pacer' = [pc |-> "dead", seg |-> 0] /\ strm'.pend = 0
      BY <1>2 DEF StreamRemoved, NoStream
    <2>2. \A n \in 1..Segments : bres'[n] = "ok" => bres[n] = "ok"
      BY <1>2 DEF StreamRemoved
    <2>3. SrcOrder' /\ Items' = {} /\ AtWork'
      BY <2>1 DEF SrcOrder, Items, AtWork
    <2>4. QED
      BY <1>1, <2>1, <2>2, <2>3, OthersKeepSegs
  <1>3. CASE strm' = strm /\ pacer' = pacer /\ bres' = bres /\ (src' = src \/ StreamGone)
    <2>1. AtWork'
      BY <1>3 DEF Segs, AtWork
    <2>2. SrcOrder' /\ Items' \subseteq Items
      <3>1. CASE src' = src
        BY <3>1 DEF Segs, SrcOrder, Items
      <3>2. CASE StreamGone
        BY <3>2, ItemTypes, Shorter DEF StreamGone, Segs
      <3>3. QED
        BY <1>3, <3>1, <3>2
    <2>3. QED
      BY <1>1, <1>3, <2>1, <2>2, OthersKeepSegs
  <1>4. QED
    BY <1>2, <1>3, StopLeaves

LEMMA NextSegs == ASSUME TypeOK, NoneYet, Voice, Segs, Next PROVE Segs'
  <1>1. ASSUME src' = src, pacer' = pacer, strm'.pend = strm.pend, bres' = bres, prov' = prov, Voices' \subseteq Voices
        PROVE  Segs'
    <2>1. SrcOrder' /\ Items' = Items /\ AtWork'
      BY <1>1 DEF Segs, SrcOrder, Items, AtWork
    <2>2. QED
      BY <1>1, <2>1, OthersKeepSegs
  <1>2. Write \/ Voices' \subseteq Voices
    BY VoicesCome
  <1>3. CASE SocketCloses \/ Xoff \/ Asterisk
    <2>1. src' = src /\ pacer' = pacer /\ strm' = strm /\ bres' = bres /\ prov' = prov /\ pacer'.pc = pacer.pc
      BY <1>3 DEF SocketCloses, Xoff, Asterisk, Play, Xon, Told, player
    <2>2. ~Write
      BY <2>1 DEF Write
    <2>3. QED
      BY <1>1, <1>2, <2>1, <2>2
  <1>4. CASE Pacing \/ TimesOut
    BY <1>4, PacingSegs
  <1>5. ASSUME NEW s \in Bargers, BargeBegins(s) \/ Barging(s) PROVE Segs'
    <2>1. CASE BargeBegins(s)
      <3>1. src' = src /\ pacer' = pacer /\ bres' = bres /\ prov' = prov /\ Voices' = Voices /\ strm'.pend = strm.pend
        BY <2>1 DEF BargeBegins, Voices, TypeOK, PlayerOK, StreamType
      <3>2. QED
        BY <1>1, <3>1
    <2>2. CASE AbortLocked(s) \/ BargeClears(s)
      <3>1. src' = src /\ pacer' = pacer /\ bres' = bres /\ prov' = prov /\ strm' = strm /\ ~Write
        BY <2>2 DEF AbortLocked, BargeClears, player, Write
      <3>2. QED
        BY <1>1, <1>2, <3>1
    <2>3. CASE BargeStops(s) \/ BargeStopsClosed(s)
      <3>1. PICK ok : Stopped(s, ok)
        BY <2>3 DEF BargeStops, BargeStopsClosed
      <3>2. Voices' = Voices
        BY <2>3 DEF BargeStops, BargeStopsClosed, Voices
      <3>3. QED
        BY <3>1, <3>2, StopsSegs
    <2>4. QED
      BY <1>5, <2>1, <2>2, <2>3 DEF Barging
  <1>6. CASE ProvChunk \/ ProvDone
    BY <1>6, ProviderSegs
  <1>7. CASE (\E g \in gates : GateTask(g)) \/ DrainDone \/ DrainTimesOut
    <2>1. src' = src /\ pacer' = pacer /\ bres' = bres /\ prov' = prov /\ strm' = strm /\ Voices' = Voices
      BY <1>7 DEF GateTask, DrainDone, DrainTimesOut, DrainClears, output, player, Voices
    <2>2. QED
      BY <1>1, <2>1
  <1>8. QED
    BY <1>3, <1>4, <1>5, <1>6, <1>7 DEF Next

-----------------------------------------------------------------------------
(* A stream that lost a frame acknowledges no boundary any more.             *)

Lossy == strm.id \notin {0} \cup hist.cut /\ \E m \in 0..Segments : <<strm.id, m>> \in hist.lost
\* The stream acknowledges nothing any more.
Spent ==
  \/ pacer.pc = "dead"
  \/ strm.stop /\ strm.gen < bind.gen /\ (pacer.pc = "finishing" => bind.fin = "bad")
Loss == Lossy => Spent
Kept == \A n \in 1..Segments : bres[n] = "ok" /\ strm.bd = n /\ strm.id \notin hist.cut => <<strm.id, n>> \notin hist.lost
Losses == Loss /\ Kept

\* Once nobody will speak for it, a stream stays so until it is removed.
LEMMA PacingSpent == ASSUME SilenceInv, Spent, Pacing \/ TimesOut PROVE Spent'
  <1>1. /\ pacer.pc # "dead"
        /\ pacer.pc \in {"idle", "admit", "begin", "write", "finish", "finishing"}
    BY DEF SilenceInv, TypeOK, PlayerOK, PacerType, Pacing, TimesOut, TakeAudio, Admitted, GoAround, Begin, Write,
       WriteRefused, TakeBoundary, Finish, FinishTold,
       WriteTimesOut, FinishTimesOut
  <1>2. strm.stop /\ strm.gen < bind.gen /\ (pacer.pc = "finishing" => bind.fin = "bad") /\ strm.failed
    BY <1>1 DEF Spent, SilenceInv, Streams, StopOwned
  <1>3. TypeOK /\ bind.gen \in Nat /\ strm.gen \in Nat
    BY Fields DEF SilenceInv
  <1>4. CASE TakeAudio \/ Begin \/ WriteRefused \/ WriteTimesOut
    BY <1>2, <1>4 DEF TakeAudio, Begin, WriteRefused, WriteTimesOut, Fails, Spent
  <1>5. CASE Admitted \/ GoAround
    BY <1>2, <1>3, <1>5 DEF Admitted, GoAround, Spent, TypeOK, PlayerOK, PacerType
  <1>6. CASE Write
    BY <1>2, <1>3, <1>6 DEF Write, Current
  <1>7. CASE TakeBoundary
    <2>1. \E n : Resolve(n, strm.gen = 0 /\ ~strm.failed)
      BY <1>2, <1>7 DEF TakeBoundary
    <2>2. pacer'.pc = "dead"
      BY <1>2, <2>1 DEF Resolve, Fails
    <2>3. QED
      BY <2>2 DEF Spent
  <1>8. CASE Finish \/ FinishTimesOut
    <2>1. Finished(FALSE)
      <3>1. ~Current
        BY <1>2, <1>3 DEF Current
      <3>2. QED
        BY <1>8, <3>1 DEF Finish, FinishTimesOut
    <2>2. QED
      BY <1>3, <2>1, FinishedBadly DEF Spent
  <1>9. CASE FinishTold
    <2>1. Finished(bind.fin = "ok") /\ bind.fin = "bad"
      BY <1>2, <1>9 DEF FinishTold
    <2>2. Finished(FALSE)
      BY <2>1
    <2>3. QED
      BY <1>3, <2>2, FinishedBadly DEF Spent
  <1>10. QED
    BY <1>4, <1>5, <1>6, <1>7, <1>8, <1>9 DEF Pacing, TimesOut

LEMMA OthersKeepSpent ==
  ASSUME TypeOK, Spent, pacer' = pacer, strm'.gen = strm.gen, strm.stop => strm'.stop, bind'.gen \in {bind.gen, bind.gen + 1},
         bind.fin = "bad" => bind'.fin = "bad"
  PROVE  Spent'
  <1>1. bind.gen \in Nat /\ strm.gen \in Nat
    BY Fields
  <1>2. QED
    BY <1>1 DEF Spent

LEMMA NextSpent ==
  ASSUME SilenceInv, Spent, Next, strm.id # 0
  PROVE  Spent'
  <1>1. TypeOK
    BY DEF SilenceInv
  <1>2. bind'.gen \in {bind.gen, bind.gen + 1}
    BY <1>1, GenerationsGrow
  <1>3. CASE SocketCloses \/ Xoff \/ Asterisk
    <2>1. pacer' = pacer /\ strm' = strm /\ (bind.fin = "bad" => bind'.fin = "bad")
      BY <1>1, <1>3 DEF SocketCloses, Closed, Xoff, Asterisk, Play, Xon, Told, player, TypeOK, OutputOK, BindType
    <2>2. QED
      BY <1>1, <1>2, <2>1, OthersKeepSpent
  <1>4. CASE Pacing \/ TimesOut
    BY <1>4, PacingSpent
  <1>5. ASSUME NEW s \in Bargers, BargeBegins(s) \/ Barging(s) PROVE Spent'
    <2>1. CASE BargeBegins(s)
      <3>1. pacer' = pacer /\ bind' = bind /\ strm'.gen = strm.gen /\ (strm.stop => strm'.stop)
        BY <1>1, <2>1 DEF BargeBegins, TypeOK, PlayerOK, StreamType
      <3>2. QED
        BY <1>1, <1>2, <3>1, OthersKeepSpent
    <2>2. CASE AbortLocked(s) \/ BargeClears(s)
      <3>1. pacer' = pacer /\ strm' = strm /\ (bind.fin = "bad" => bind'.fin = "bad")
        BY <1>1, <2>2 DEF AbortLocked, BargeClears, output, player, TypeOK, OutputOK, BindType
      <3>2. QED
        BY <1>1, <1>2, <3>1, OthersKeepSpent
    <2>3. CASE BargeStops(s) \/ BargeStopsClosed(s)
      <3>1. PICK ok : Stopped(s, ok)
        BY <2>3 DEF BargeStops, BargeStopsClosed
      <3>2. bind.fin = "bad" => bind'.fin = "bad"
        BY <1>1, <2>3 DEF BargeStops, BargeStopsClosed, Fenced, Closed, TypeOK, OutputOK, BindType
      <3>3. CASE strm' = strm /\ pacer' = pacer
        BY <1>1, <1>2, <3>2, <3>3, OthersKeepSpent
      <3>4. CASE pacer'.pc = "dead"
        BY <3>4 DEF Spent
      <3>5. QED
        BY <1>1, <3>1, <3>3, <3>4, StoppedSame
    <2>4. QED
      BY <1>5, <2>1, <2>2, <2>3 DEF Barging
  <1>6. CASE ProvChunk \/ ProvDone
    <2>1. bind' = bind /\ pacer' = pacer /\ strm'.gen = strm.gen /\ strm'.stop = strm.stop
      BY <1>1, <1>6, ChunkStarts DEF Starts, ProvChunk, StreamStarts, ProvDone, output, TypeOK, PlayerOK, StreamType
    <2>2. QED
      BY <1>1, <1>2, <2>1, OthersKeepSpent
  <1>7. CASE (\E g \in gates : GateTask(g)) \/ DrainDone \/ DrainTimesOut
    <2>1. bind' = bind /\ pacer' = pacer /\ strm' = strm
      BY <1>7 DEF GateTask, DrainDone, DrainTimesOut, DrainClears, output, player
    <2>2. QED
      BY <1>1, <1>2, <2>1, OthersKeepSpent
  <1>8. QED
    BY <1>3, <1>4, <1>5, <1>6, <1>7 DEF Next

\* Frames are lost by a flush or by a refused write.
LEMMA LossComes ==
  ASSUME TypeOK, Next
  PROVE  \/ hist'.lost = hist.lost
         \/ WriteRefused /\ hist'.lost = hist.lost \cup {<<strm.id, pacer.seg>>}
         \/ \E s \in Bargers : AbortLocked(s) /\ Ready /\ hist'.lost = hist.lost \cup Voices
  <1>1. CASE SocketCloses \/ Xoff \/ Asterisk \/ ProvChunk \/ ProvDone \/ (\E g \in gates : GateTask(g)) \/ DrainDone \/ DrainTimesOut
    BY <1>1 DEF SocketCloses, Xoff, Asterisk, Play, Xon, Told, ProvChunk, StreamStarts, ProvDone, GateTask,
       DrainDone, DrainTimesOut, DrainClears, Bared,
       TypeOK, HistOK, HistType
  <1>2. CASE Pacing \/ TimesOut
    <2>1. CASE WriteRefused
      BY <2>1 DEF WriteRefused, TypeOK, HistOK, HistType
    <2>2. CASE ~WriteRefused
      BY <1>2, <2>2 DEF Pacing, TimesOut, TakeAudio, Admitted, GoAround, Begin, Write, TakeBoundary, Finish,
         FinishTold,
         WriteTimesOut, FinishTimesOut
    <2>3. QED
      BY <2>1, <2>2
  <1>3. ASSUME NEW s \in Bargers, BargeBegins(s) \/ Barging(s)
        PROVE  hist'.lost = hist.lost \/ (AbortLocked(s) /\ Ready /\ hist'.lost = hist.lost \cup Voices)
    <2>1. CASE AbortLocked(s)
      BY <2>1, AbortHist
    <2>2. CASE BargeBegins(s) \/ BargeClears(s)
      BY <2>2 DEF BargeBegins, BargeClears, Bared, TypeOK, HistOK, HistType
    <2>3. CASE BargeStops(s) \/ BargeStopsClosed(s)
      BY <2>3, StopLeaves DEF BargeStops, BargeStopsClosed
    <2>4. QED
      BY <1>3, <2>1, <2>2, <2>3 DEF Barging
  <1>4. QED
    BY <1>1, <1>2, <1>3 DEF Next

LEMMA CutsStay == ASSUME TypeOK, Next PROVE hist.cut \subseteq hist'.cut
  <1>1. CASE SocketCloses \/ Xoff \/ Asterisk \/ ProvChunk \/ ProvDone \/ (\E g \in gates : GateTask(g)) \/ DrainDone \/ DrainTimesOut
    BY <1>1 DEF SocketCloses, Xoff, Asterisk, Play, Xon, Told, ProvChunk, StreamStarts, ProvDone, GateTask,
       DrainDone, DrainTimesOut, DrainClears, Bared,
       TypeOK, HistOK, HistType
  <1>2. CASE Pacing \/ TimesOut
    BY <1>2, PacerKeepsStream
  <1>3. ASSUME NEW s \in Bargers, BargeBegins(s) \/ Barging(s) PROVE hist.cut \subseteq hist'.cut
    <2>1. CASE AbortLocked(s)
      BY <2>1, AbortHist
    <2>2. CASE BargeBegins(s) \/ BargeClears(s)
      BY <2>2 DEF BargeBegins, BargeClears, Bared, TypeOK, HistOK, HistType
    <2>3. CASE BargeStops(s) \/ BargeStopsClosed(s)
      BY <2>3, StopLeaves DEF BargeStops, BargeStopsClosed
    <2>4. QED
      BY <1>3, <2>1, <2>2, <2>3 DEF Barging
  <1>4. QED
    BY <1>1, <1>2, <1>3 DEF Next

\* A flush that takes frames belongs to a stop of the stream, or cuts it.
LEMMA FlushSpends ==
  ASSUME SilenceInv, NEW s \in Bargers, AbortLocked(s), Ready, Voices # {}, strm.id # 0
  PROVE  strm.id \in hist'.cut \/ Spent'
  <1>1. TypeOK
    BY DEF SilenceInv
  <1>2. CASE strm.id # barge[s].sid
    BY <1>1, <1>2, AbortHist
  <1>3. CASE strm.id = barge[s].sid
    <2>1. barge[s].pc = "stop" /\ strm' = strm /\ pacer' = pacer /\ bind'.gen = bind.gen + 1
          /\ bind'.fin = IF bind.fin = "wait" THEN "bad" ELSE bind.fin
      BY <1>1 DEF AbortLocked, player, SilenceInv, FencesHeld, BargerAborts, TypeOK, OutputOK, BindType
    <2>2. s \in Stoppers
      BY <1>3, <2>1 DEF Stoppers
    <2>3. strm.stop
      BY <2>2 DEF SilenceInv, Streams, StopOwned
    <2>4. pacer.pc = "finishing" => bind.fin \in {"wait", "bad"}
      BY <1>1 DEF SilenceInv, Voice, FinAcked, Silence, TypeOK, OutputOK, BindType
    <2>5. strm.gen \in Nat /\ bind.gen \in Nat /\ strm.gen <= bind.gen
      BY <1>1, Fields DEF SilenceInv, Streams, Aged
    <2>6. QED
      BY <2>1, <2>3, <2>4, <2>5 DEF Spent
  <1>4. QED
    BY <1>2, <1>3

LEMMA NextLoss == ASSUME SilenceInv, Loss, Next PROVE Loss'
  <1>1. TypeOK /\ 0 \in Nat /\ hist.lost \subseteq Nat \X (0..Segments)
    BY DEF SilenceInv, TypeOK, HistOK, HistType
  <1>2. SUFFICES ASSUME Lossy' PROVE Spent'
    BY DEF Loss
  <1>3. hist.cut \subseteq hist'.cut
    BY <1>1, CutsStay
  <1>4. PICK m \in 0..Segments : <<strm'.id, m>> \in hist'.lost
    BY <1>2 DEF Lossy
  <1>5. strm'.id # 0 /\ strm'.id \notin hist'.cut
    BY <1>2 DEF Lossy
  <1>6. strm'.id \in {strm.id, made'.streams}
    BY <1>1, <1>5, NextOrigins DEF Origins
  <1>7. CASE strm'.id = strm.id
    <2>1. CASE <<strm.id, m>> \in hist.lost
      <3>1. Spent
        BY <1>3, <1>5, <1>7, <2>1 DEF Loss, Lossy
      <3>2. QED
        BY <1>5, <1>7, <3>1, NextSpent
    <2>2. CASE WriteRefused
      BY <2>2 DEF WriteRefused, Fails, Spent
    <2>3. ASSUME NEW s \in Bargers, AbortLocked(s), Ready, <<strm.id, m>> \in Voices PROVE Spent'
      <3>1. Voices # {}
        BY <2>3
      <3>2. QED
        BY <1>5, <1>7, <2>3, <3>1, FlushSpends
    <2>4. QED
      BY <1>1, <1>4, <1>7, <2>1, <2>2, <2>3, LossComes
  <1>8. CASE strm'.id # strm.id
    <2>1. CASE ProvChunk
      <3>1. Starts
        BY <1>1, <1>8, <2>1, ChunkStarts DEF TypeOK, PlayerOK, StreamType
      <3>2. strm'.id = made.streams + 1 /\ hist'.lost = hist.lost
        BY <2>1, <3>1 DEF Starts, NoStream, ProvChunk, StreamStarts
      <3>3. made.streams \in Nat /\ \A x \in hist.lost : x[1] <= made.streams
        BY <1>1, Fields DEF SilenceInv, Streams, Aged
      <3>4. strm'.id <= made.streams
        BY <1>4, <3>2, <3>3
      <3>5. QED
        BY <3>2, <3>3, <3>4
    <2>2. CASE ~ProvChunk
      <3>1. strm'.id \in {strm.id, 0}
        <4>1. CASE SocketCloses \/ Xoff \/ Asterisk \/ (\E g \in gates : GateTask(g)) \/ DrainDone \/ DrainTimesOut
          BY <4>1 DEF SocketCloses, Xoff, Asterisk, Play, Xon, Told, GateTask, DrainDone, DrainTimesOut,
             DrainClears, player
        <4>2. CASE Pacing \/ TimesOut
          BY <1>1, <4>2, PacerKeepsStream DEF SameStream
        <4>3. ASSUME NEW s \in Bargers, BargeBegins(s) \/ Barging(s) PROVE strm'.id \in {strm.id, 0}
          <5>1. CASE BargeBegins(s) \/ AbortLocked(s) \/ BargeClears(s)
            BY <1>1, <5>1 DEF BargeBegins, AbortLocked, BargeClears, player, TypeOK, PlayerOK, StreamType
          <5>2. CASE BargeStops(s) \/ BargeStopsClosed(s)
            BY <1>1, <5>2, StoppedSame DEF BargeStops, BargeStopsClosed
          <5>3. QED
            BY <4>3, <5>1, <5>2 DEF Barging
        <4>4. CASE ProvDone
          BY <1>1, <4>4 DEF ProvDone, TypeOK, PlayerOK, StreamType
        <4>5. QED
          BY <2>2, <4>1, <4>2, <4>3, <4>4 DEF Next
      <3>2. QED
        BY <1>5, <1>8, <3>1
    <2>3. QED
      BY <2>1, <2>2
  <1>9. QED
    BY <1>7, <1>8

\* A boundary is acknowledged by a pacer whose stream lost nothing.
LEMMA NewlyDone ==
  ASSUME SilenceInv, Segs, Next, NEW n \in 1..Segments, bres'[n] = "ok", bres[n] # "ok"
  PROVE  ~Spent /\ strm'.id = strm.id /\ strm.id # 0 /\ hist' = hist
  <1>1. TypeOK /\ NoneYet
    BY DEF SilenceInv, Streams
  <1>2. CASE TakeBoundary
    <2>1. pacer.pc = "idle" /\ strm.id # 0
      BY <1>1, <1>2 DEF TakeBoundary, NoneYet
    <2>2. ~(strm.gen # 0 /\ ~strm.stop /\ Ready)
      BY <1>2 DEF TakeBoundary
    <2>3. Resolve(Head(src).n, strm.gen = 0 /\ ~strm.failed)
      BY <1>2, <2>2 DEF TakeBoundary
    <2>4. strm.gen = 0 /\ ~strm.failed
      <3>1. SUFFICES ASSUME ~(strm.gen = 0 /\ ~strm.failed) PROVE FALSE
        OBVIOUS
      <3>2. Resolve(Head(src).n, FALSE)
        BY <2>3, <3>1
      <3>3. QED
        BY <1>1, <3>2, ResolvedBadly
    <2>5. ~strm.stop
      BY <2>4 DEF SilenceInv, Streams, StopOwned
    <2>6. strm'.id = strm.id /\ hist' = hist
      BY <1>1, <1>2, PacerKeepsStream DEF TakeBoundary, Pacing, SameStream
    <2>7. QED
      BY <2>1, <2>5, <2>6 DEF Spent
  <1>3. CASE Finish \/ FinishTold \/ FinishTimesOut
    <2>1. pacer.pc \in {"finish", "finishing"} /\ strm.id # 0 /\ hist' = hist
      <3>1. pacer.pc \in {"finish", "finishing"} /\ hist' = hist
        BY <1>3 DEF Finish, FinishTold, FinishTimesOut
      <3>2. QED
        BY <1>1, <3>1 DEF NoneYet
    <2>2. strm'.id = strm.id
      BY <1>1, <1>3, PacerKeepsStream DEF Pacing, TimesOut, SameStream
    <2>3. ~Finished(FALSE)
      <3>1. Finished(FALSE) => Resolve(strm.pend, FALSE)
        BY DEF Finished
      <3>2. QED
        BY <1>1, <3>1, ResolvedBadly
    <2>4. FinishTold
      <3>1. CASE Finish
        BY <2>3, <3>1 DEF Finish
      <3>2. CASE FinishTimesOut
        BY <2>3, <3>2 DEF FinishTimesOut
      <3>3. QED
        BY <1>3, <3>1, <3>2
    <2>5. bind.fin = "ok" /\ pacer.pc = "finishing"
      <3>1. Finished(bind.fin = "ok") /\ pacer.pc = "finishing"
        BY <2>4 DEF FinishTold
      <3>2. SUFFICES ASSUME bind.fin # "ok" PROVE FALSE
        BY <3>1
      <3>3. Finished(FALSE)
        BY <3>1, <3>2
      <3>4. QED
        BY <2>3, <3>3
    <2>6. QED
      BY <2>1, <2>2, <2>5 DEF Spent
  <1>4. CASE \E s \in Bargers : BargeStops(s) \/ BargeStopsClosed(s)
    <2>1. PICK s \in Bargers : \E ok : Stopped(s, ok)
      BY <1>4 DEF BargeStops, BargeStopsClosed
    <2>2. StreamRemoved => bres'[n] # "ok"
      BY DEF StreamRemoved
    <2>3. QED
      BY <1>1, <2>1, <2>2, StopLeaves
  <1>5. bres' = bres \/ TakeBoundary \/ Finish \/ FinishTold \/ FinishTimesOut \/ \E s \in Bargers : BargeStops(s) \/ BargeStopsClosed(s)
    <2>1. CASE SocketCloses \/ Xoff \/ Asterisk \/ ProvChunk \/ ProvDone \/ (\E g \in gates : GateTask(g)) \/ DrainDone \/ DrainTimesOut
      BY <2>1 DEF SocketCloses, Xoff, Asterisk, Play, Xon, Told, ProvChunk, StreamStarts, ProvDone, GateTask,
         DrainDone, DrainTimesOut, DrainClears, player
    <2>2. CASE Pacing \/ TimesOut
      BY <2>2 DEF Pacing, TimesOut, TakeAudio, Admitted, GoAround, Begin, Write, WriteRefused, WriteTimesOut
    <2>3. CASE \E s \in Bargers : BargeBegins(s) \/ Barging(s)
      BY <2>3 DEF BargeBegins, Barging, AbortLocked, BargeClears, player
    <2>4. QED
      BY <2>1, <2>2, <2>3 DEF Next
  <1>6. QED
    BY <1>2, <1>3, <1>4, <1>5

\* The last boundary of a stream changes with the provider's next one, or with the stream.
LEMMA BoundaryMoves ==
  ASSUME SilenceInv, Next
  PROVE  \/ strm'.id = strm.id /\ strm'.bd = strm.bd
         \/ strm'.bd = 0
         \/ ProvDone /\ strm'.bd = prov.seg
  <1>1. TypeOK
    BY DEF SilenceInv
  <1>2. CASE SocketCloses \/ Xoff \/ Asterisk \/ (\E g \in gates : GateTask(g)) \/ DrainDone \/ DrainTimesOut
    BY <1>2 DEF SocketCloses, Xoff, Asterisk, Play, Xon, Told, GateTask, DrainDone, DrainTimesOut, DrainClears, player
  <1>3. CASE Pacing \/ TimesOut
    BY <1>1, <1>3, PacerKeepsStream DEF SameStream
  <1>4. ASSUME NEW s \in Bargers, BargeBegins(s) \/ Barging(s)
        PROVE (strm'.id = strm.id /\ strm'.bd = strm.bd) \/ strm'.bd = 0
    <2>1. CASE BargeBegins(s) \/ AbortLocked(s) \/ BargeClears(s)
      BY <1>1, <2>1 DEF BargeBegins, AbortLocked, BargeClears, player, TypeOK, PlayerOK, StreamType
    <2>2. CASE BargeStops(s) \/ BargeStopsClosed(s)
      <3>1. StreamRemoved => strm'.bd = 0
        BY DEF StreamRemoved, NoStream
      <3>2. QED
        BY <1>1, <2>2, <3>1, StopLeaves DEF BargeStops, BargeStopsClosed
    <2>3. QED
      BY <1>4, <2>1, <2>2 DEF Barging
  <1>5. CASE ProvChunk
    <2>1. Starts => strm'.bd = 0
      BY DEF Starts, NoStream
    <2>2. QED
      BY <1>1, <1>5, <2>1, ChunkStarts DEF TypeOK, PlayerOK, StreamType
  <1>6. CASE ProvDone
    BY <1>1, <1>6 DEF ProvDone, TypeOK, PlayerOK, StreamType
  <1>7. QED
    BY <1>2, <1>3, <1>4, <1>5, <1>6 DEF Next

LEMMA NextKept == ASSUME SilenceInv, Segs, Losses, Next PROVE Kept'
  <1>1. TypeOK /\ hist.cut \subseteq hist'.cut
    BY CutsStay DEF SilenceInv
  <1>2. SUFFICES ASSUME NEW n \in 1..Segments, bres'[n] = "ok", strm'.bd = n, strm'.id \notin hist'.cut
                 PROVE  <<strm'.id, n>> \notin hist'.lost
    BY DEF Kept
  <1>3. n \in Nat /\ n # 0 /\ n \in 0..Segments
    BY BoundsAssumption
  <1>4. CASE bres[n] # "ok"
    <2>1. ~Spent /\ strm'.id = strm.id /\ strm.id # 0 /\ hist' = hist
      BY <1>2, <1>4, NewlyDone
    <2>2. QED
      BY <1>2, <1>3, <2>1 DEF Losses, Loss, Lossy
  <1>5. CASE bres[n] = "ok"
    <2>1. Said(n) /\ (pacer.seg # 0 => n < pacer.seg) /\ \A v \in Voices : n < v[2]
      BY <1>5 DEF Segs, Done
    <2>2. ~(ProvDone /\ strm'.bd = prov.seg)
      BY <1>2, <2>1 DEF Said, ProvDone
    <2>3. strm'.id = strm.id /\ strm.bd = n
      BY <1>2, <1>3, <2>2, BoundaryMoves
    <2>4. <<strm.id, n>> \notin hist.lost
      BY <1>1, <1>2, <1>5, <2>3 DEF Losses, Kept
    <2>5. <<strm.id, n>> \notin Voices
      BY <1>3, <2>1
    <2>6. WriteRefused => pacer.seg # 0 /\ pacer.seg \in Nat
      BY <1>1, Fields DEF WriteRefused, Segs, AtWork
    <2>7. WriteRefused => <<strm.id, n>> # <<strm.id, pacer.seg>>
      BY <1>3, <2>1, <2>6
    <2>8. QED
      BY <1>1, <2>3, <2>4, <2>5, <2>7, LossComes
  <1>6. QED
    BY <1>4, <1>5

BoundaryInv == SilenceInv /\ Segs /\ Losses

LEMMA BoundaryBegins == ASSUME Init PROVE BoundaryInv
  <1>1. SilenceInv
    BY SilenceBegins
  <1>2. Items = {} /\ Voices = {} /\ Segments \in Nat
    BY BoundsAssumption DEF Init, Items, Voices, Frames
  <1>3. Segs
    BY <1>2 DEF Init, Segs, SrcOrder, Begun, Behind, AtWork, Done, Said, NoStream
  <1>4. Losses
    BY DEF Init, Losses, Loss, Lossy, Kept
  <1>5. QED
    BY <1>1, <1>3, <1>4 DEF BoundaryInv

LEMMA BoundaryKept == ASSUME BoundaryInv, [Next]_vars PROVE BoundaryInv'
  <1>1. SilenceInv'
    BY SilenceKept DEF BoundaryInv
  <1>2. CASE Next
    <2>1. Segs'
      BY <1>2, NextSegs DEF BoundaryInv, SilenceInv, Streams
    <2>2. Losses'
      BY <1>2, NextLoss, NextKept DEF BoundaryInv, Losses
    <2>3. QED
      BY <1>1, <2>1, <2>2 DEF BoundaryInv
  <1>3. CASE UNCHANGED vars
    <2>1. Items' = Items /\ Voices' = Voices
      BY <1>3 DEF vars, output, player, Items, Voices
    <2>2. Segs'
      BY <1>3, <2>1 DEF BoundaryInv, vars, output, player, Segs, SrcOrder, Begun, Behind, AtWork, Done, Said
    <2>3. Losses'
      BY <1>3 DEF BoundaryInv, vars, output, player, Losses, Loss, Lossy, Spent, Kept
    <2>4. QED
      BY <1>1, <2>2, <2>3 DEF BoundaryInv
  <1>4. QED
    BY <1>2, <1>3

\* A boundary that finish_transport_segment acknowledged as complete has none of its audio in
\* Asterisk's queue, and none of it was flushed or refused: the provider's segments stay in order
\* through the jitter buffer and the socket, and a stream that lost a frame resolves no boundary
\* as complete.
THEOREM CompleteMeansPlayed == Spec => []BoundaryHonest
  <1>1. BoundaryInv => BoundaryHonest
    <2>1. \A i \in DOMAIN queue : queue[i].k = "audio" => <<queue[i].sid, queue[i].n>> \in Voices
      BY DEF Voices, Frames
    <2>2. ASSUME BoundaryInv, NEW n \in 1..Segments, bres[n] = "ok"
          PROVE  /\ \A i \in DOMAIN queue : queue[i].k = "audio" => queue[i].n # n
                 /\ strm.bd = n /\ strm.id \notin hist.cut => <<strm.id, n>> \notin hist.lost
      <3>1. \A v \in Voices : n < v[2]
        BY <2>2 DEF BoundaryInv, Segs, Done
      <3>2. \A i \in DOMAIN queue : queue[i].k = "audio" => n < queue[i].n
        BY <2>1, <3>1
      <3>3. n \in Nat
        BY BoundsAssumption
      <3>4. QED
        BY <2>2, <3>2, <3>3 DEF BoundaryInv, Losses, Kept
    <2>3. QED
      BY <2>2 DEF BoundaryHonest
  <1>2. QED
    BY <1>1, BoundaryBegins, BoundaryKept, PTL DEF Spec

-----------------------------------------------------------------------------
(* What is not yet played is gated.                                          *)

\* The gating task g would clear the tokens if its boundary were acknowledged now.
GateMatches(g) == g.sid = strm.id /\ g.epoch = strm.epoch /\ g.bd = strm.bd
Gated ==
  /\ segOn = prov.speaking /\ (drain.on => ~prov.speaking)
  /\ \A g \in gates : /\ g.sid # 0 /\ g.bd # 0
                      /\ g.sid = strm.id => g.epoch <= strm.epoch
                      /\ GateMatches(g) => prov.seg = g.bd /\ ~prov.speaking
\* The present stream plays segment n with its tokens given up.
Bare(n) == <<strm.id, n>> \in hist.bare
\* Whatever is to be heard was given up by a barge-in or a drain timeout.
AllBare ==
  /\ Voices \subseteq hist.bare
  /\ \A x \in Items : x.k = "audio" => Bare(x.n)
  /\ pacer.seg # 0 => Bare(pacer.seg)
  /\ prov.speaking /\ strm.id # 0 => Bare(prov.seg)
Covered == Ready /\ tokens = {} => AllBare

LEMMA OthersKeepGated ==
  ASSUME Gated, gates' \subseteq gates, strm'.id = strm.id, strm'.epoch = strm.epoch, strm'.bd = strm.bd,
         prov'.seg = prov.seg, prov'.speaking = prov.speaking, segOn' = segOn, drain'.on => drain.on
  PROVE  Gated'
  BY DEF Gated, GateMatches

LEMMA ProviderGates == ASSUME BoundaryInv, Gated, ProvChunk \/ ProvDone PROVE Gated'
  <1>1. TypeOK /\ gates \subseteq [bd : 0..Segments, epoch : Nat, sid : Nat]
    BY DEF BoundaryInv, SilenceInv, TypeOK, GatingOK
  <1>2. strm.epoch \in Nat /\ strm.id \in Nat /\ made.streams \in Nat
    BY <1>1, Fields
  <1>3. CASE ProvChunk
    <2>1. gates' = gates /\ segOn' = TRUE /\ prov'.speaking = TRUE /\ ~drain'.on
      BY <1>1, <1>3 DEF ProvChunk, StreamStarts, TypeOK, ProviderOK, ProvType
    <2>2. \A g \in gates : g.sid = strm'.id => g.epoch <= strm'.epoch /\ (g.epoch = strm'.epoch => strm' = strm /\ segOn)
      <3>1. SUFFICES ASSUME NEW g \in gates, g.sid = strm'.id
                     PROVE  g.epoch <= strm'.epoch /\ (g.epoch = strm'.epoch => strm' = strm /\ segOn)
        OBVIOUS
      <3>2. g.sid \in Nat /\ g.epoch \in Nat /\ g.sid # 0 /\ g.sid <= made.streams /\ (g.sid = strm.id => g.epoch <= strm.epoch)
        BY <1>1 DEF Gated, BoundaryInv, SilenceInv, Streams, Aged
      <3>3. CASE Starts
        BY <1>2, <3>1, <3>2, <3>3 DEF Starts, NoStream
      <3>4. CASE strm.id # 0 /\ ~segOn /\ strm' = [strm EXCEPT !.epoch = @ + 1]
        <4>1. strm'.id = strm.id /\ strm'.epoch = strm.epoch + 1
          BY <1>1, <3>4 DEF TypeOK, PlayerOK, StreamType
        <4>2. QED
          BY <1>2, <3>1, <3>2, <4>1
      <3>5. CASE strm' = strm
        <4>1. segOn
          <5>1. SUFFICES ASSUME ~segOn PROVE FALSE
            OBVIOUS
          <5>2. strm.id # 0
            BY <3>1, <3>2, <3>5
          <5>3. strm' = [strm EXCEPT !.epoch = @ + 1]
            BY <1>3, <5>1, <5>2 DEF ProvChunk, StreamStarts
          <5>4. strm'.epoch = strm.epoch + 1
            BY <1>1, <5>3 DEF TypeOK, PlayerOK, StreamType
          <5>5. QED
            BY <1>2, <3>5, <5>4
        <4>2. QED
          BY <3>1, <3>2, <3>5, <4>1
      <3>6. QED
        BY <1>1, <1>3, <3>3, <3>4, <3>5, ChunkStarts
    <2>3. \A g \in gates : ~GateMatches(g)'
      <3>1. SUFFICES ASSUME NEW g \in gates, g.sid = strm'.id, g.epoch = strm'.epoch, g.bd = strm'.bd PROVE FALSE
        BY DEF GateMatches
      <3>2. strm' = strm /\ segOn
        BY <2>2, <3>1
      <3>3. QED
        BY <3>1, <3>2 DEF Gated, GateMatches
    <2>4. QED
      BY <2>1, <2>2, <2>3 DEF Gated
  <1>4. CASE ProvDone
    <2>1. /\ prov.speaking /\ prov'.speaking = FALSE /\ prov'.seg = prov.seg /\ segOn' = FALSE
          /\ strm'.id = strm.id /\ strm'.epoch = strm.epoch /\ prov.seg # 0
      BY <1>1, <1>4 DEF ProvDone, TypeOK, PlayerOK, StreamType, ProviderOK, ProvType, BoundaryInv, Segs, Begun
    <2>2. CASE strm.id = 0
      <3>1. gates' = gates
        BY <1>4, <2>2 DEF ProvDone
      <3>2. QED
        BY <2>1, <2>2, <3>1 DEF Gated, GateMatches
    <2>3. CASE strm.id # 0
      <3>1. /\ gates' = gates \cup {[bd |-> prov.seg, epoch |-> strm.epoch, sid |-> strm.id]}
            /\ strm'.bd = prov.seg
        BY <1>1, <1>4, <2>3 DEF ProvDone, TypeOK, PlayerOK, StreamType
      <3>2. \A g \in gates' : g.sid # 0 /\ g.bd # 0 /\ (g.sid = strm.id => g.epoch <= strm.epoch)
        BY <1>2, <2>1, <2>3, <3>1 DEF Gated
      <3>3. QED
        BY <2>1, <3>1, <3>2 DEF Gated, GateMatches
    <2>4. QED
      BY <2>2, <2>3
  <1>5. QED
    BY <1>3, <1>4

LEMMA NextGates == ASSUME BoundaryInv, Gated, Next PROVE Gated'
  <1>1. TypeOK
    BY DEF BoundaryInv, SilenceInv
  <1>2. CASE SocketCloses \/ Xoff \/ Asterisk
    <2>1. gates' = gates /\ strm' = strm /\ prov' = prov /\ segOn' = segOn /\ drain' = drain
      BY <1>2 DEF SocketCloses, Xoff, Asterisk, Play, Xon, Told, player, gating
    <2>2. QED
      BY <2>1, OthersKeepGated
  <1>3. CASE Pacing \/ TimesOut
    <2>1. gates' = gates /\ prov' = prov /\ segOn' = segOn /\ drain' = drain
      BY <1>3 DEF Pacing, TimesOut, TakeAudio, Admitted, GoAround, Begin, Write, WriteRefused, TakeBoundary,
         Finish, FinishTold,
         WriteTimesOut, FinishTimesOut, gating
    <2>2. QED
      BY <1>1, <1>3, <2>1, PacerKeepsStream, OthersKeepGated DEF SameStream
  <1>4. ASSUME NEW s \in Bargers, BargeBegins(s) \/ Barging(s) PROVE Gated'
    <2>1. CASE BargeBegins(s) \/ AbortLocked(s) \/ BargeClears(s)
      <3>1. /\ gates' = gates /\ prov' = prov /\ segOn' = segOn /\ drain' = drain
            /\ strm'.id = strm.id /\ strm'.epoch = strm.epoch /\ strm'.bd = strm.bd
        BY <1>1, <2>1 DEF BargeBegins, AbortLocked, BargeClears, player, gating, TypeOK, PlayerOK, StreamType
      <3>2. QED
        BY <3>1, OthersKeepGated
    <2>2. CASE BargeStops(s) \/ BargeStopsClosed(s)
      <3>1. PICK ok : Stopped(s, ok)
        BY <2>2 DEF BargeStops, BargeStopsClosed
      <3>2. prov'.seg = prov.seg /\ prov'.speaking = prov.speaking /\ segOn' = segOn /\ drain' = drain
        BY <1>1, <2>2 DEF BargeStops, BargeStopsClosed, Stopped, TypeOK, ProviderOK, ProvType
      <3>3. CASE StreamRemoved
        <4>1. strm'.id = 0 /\ gates' \subseteq gates
          BY <3>3 DEF StreamRemoved, NoStream
        <4>2. QED
          BY <3>2, <4>1 DEF Gated, GateMatches
      <3>4. CASE strm' = strm /\ gates' = gates
        BY <3>2, <3>4, OthersKeepGated
      <3>5. QED
        BY <1>1, <3>1, <3>3, <3>4, StopLeaves
    <2>3. QED
      BY <1>4, <2>1, <2>2 DEF Barging
  <1>5. CASE ProvChunk \/ ProvDone
    BY <1>5, ProviderGates
  <1>6. CASE (\E g \in gates : GateTask(g)) \/ DrainDone \/ DrainTimesOut
    <2>1. gates' \subseteq gates /\ strm' = strm /\ prov' = prov /\ segOn' = segOn /\ (drain'.on => drain.on)
      BY <1>6 DEF GateTask, DrainDone, DrainTimesOut, DrainClears, player
    <2>2. QED
      BY <2>1, OthersKeepGated
  <1>7. QED
    BY <1>2, <1>3, <1>4, <1>5, <1>6 DEF Next

\* Nothing new is on its way.
LEMMA OthersKeepCovered ==
  ASSUME Covered, Ready' => Ready, tokens' = tokens, strm'.id = strm.id, Voices' \subseteq Voices, Items' \subseteq Items,
         pacer'.seg \in {pacer.seg, 0}, prov'.seg = prov.seg, prov'.speaking = prov.speaking, hist.bare \subseteq hist'.bare
  PROVE  Covered'
  BY DEF Covered, AllBare, Bare

\* Everything there is to hear is of the present stream and of a segment that was begun.
LEMMA AllGivenUp ==
  ASSUME SilenceInv, Begun, Ready' => Ready, Voices' \subseteq Voices, Items' \subseteq Items, pacer'.seg \in {pacer.seg, 0},
         strm'.id = strm.id, prov'.seg = prov.seg, prov'.speaking = prov.speaking,
         \A n \in 1..prov.seg : <<strm.id, n>> \in hist'.bare
  PROVE  Covered'
  <1>1. /\ TypeOK
        /\ \A x \in Items : x.n \in Nat
        /\ \A v \in Voices : v = <<v[1], v[2]>> /\ v[2] \in Nat
    BY ItemTypes, VoicesTyped, BoundsAssumption DEF SilenceInv
  <1>2. \A n \in Nat : 1 <= n /\ n <= prov.seg => Bare(n)'
    BY <1>1, Fields DEF Bare
  <1>3. pacer.seg \in Nat /\ prov.seg \in Nat
    BY <1>1, Fields
  <1>4. pacer'.seg # 0 => pacer'.seg \in Nat /\ 1 <= pacer'.seg /\ pacer'.seg <= prov.seg
    BY <1>3 DEF Begun
  <1>5. prov.speaking => 1 <= prov.seg /\ prov.seg <= prov.seg
    BY <1>3 DEF Begun
  <1>6. Ready => Voices' \subseteq hist'.bare
    <2>1. ASSUME Ready, NEW v \in Voices PROVE v \in hist'.bare
      <3>1. v[1] = strm.id
        BY <2>1 DEF SilenceInv, Voice, Heard, Silence
      <3>2. Bare(v[2])'
        BY <1>1, <1>2 DEF Begun
      <3>3. QED
        BY <1>1, <3>1, <3>2 DEF Bare
    <2>2. QED
      BY <2>1
  <1>7. QED
    BY <1>1, <1>2, <1>3, <1>4, <1>5, <1>6 DEF Begun, Covered, AllBare

\* A gate that opens capture is that of the last boundary, and nothing is behind it.
LEMMA GateCovers == ASSUME BoundaryInv, Gated, Covered, NEW g \in gates, GateTask(g) PROVE Covered'
  <1>1. TypeOK /\ bind' = bind /\ Voices' = Voices /\ Items' = Items /\ pacer' = pacer /\ prov' = prov /\ hist' = hist
        /\ strm' = strm
    BY DEF BoundaryInv, SilenceInv, GateTask, output, player, Voices, Items
  <1>2. CASE tokens' = tokens
    BY <1>1, <1>2, OthersKeepCovered DEF Ready
  <1>3. CASE bres[g.bd] = "ok" /\ GateMatches(g)
    <2>1. g.bd \in 1..Segments
      <3>1. g.bd \in 0..Segments /\ g.bd # 0
        BY <1>1 DEF TypeOK, GatingOK, Gated
      <3>2. QED
        BY <3>1, BoundsAssumption
    <2>2. /\ prov.seg = g.bd /\ ~prov.speaking
          /\ \A x \in Items : g.bd < x.n /\ x.n <= prov.seg
          /\ pacer.seg # 0 => g.bd < pacer.seg
          /\ pacer.seg <= prov.seg
          /\ \A v \in Voices : g.bd < v[2] /\ v[2] <= prov.seg
      BY <1>3, <2>1 DEF Gated, BoundaryInv, Segs, Done, Begun
    <2>3. /\ prov.seg \in Nat /\ pacer.seg \in Nat
          /\ \A x \in Items : x.n \in Nat
          /\ \A v \in Voices : v[2] \in Nat
      BY <1>1, ItemTypes, VoicesTyped, BoundsAssumption, Fields
    <2>4. Items = {} /\ Voices = {} /\ pacer.seg = 0
      BY <2>2, <2>3
    <2>5. QED
      BY <1>1, <2>2, <2>4 DEF Covered, AllBare
  <1>4. QED
    BY <1>2, <1>3 DEF GateTask, GateMatches

LEMMA DrainCovers == ASSUME BoundaryInv, Gated, Covered, DrainDone PROVE Covered'
  <1>1. /\ bind' = bind /\ Voices' = Voices /\ Items' = Items /\ pacer' = pacer /\ prov' = prov
        /\ src = <<>> /\ pacer.seg = 0 /\ ~prov.speaking
        /\ bind.out \in {"idle", "closed", "failed"}
    BY DEF DrainDone, DrainClears, Drained, output, player, Voices, Items, Gated
  <1>2. Items = {} /\ (Ready => Voices = {})
    BY <1>1 DEF Items, BoundaryInv, SilenceInv, Voice, Heard, Silence
  <1>3. QED
    BY <1>1, <1>2 DEF Covered, AllBare, Ready

LEMMA BareGrows == ASSUME TypeOK, Next PROVE hist.bare \subseteq hist'.bare
  <1>1. CASE SocketCloses \/ Xoff \/ Asterisk \/ ProvChunk \/ ProvDone \/ (\E g \in gates : GateTask(g)) \/ DrainDone \/ DrainTimesOut
    BY <1>1 DEF SocketCloses, Xoff, Asterisk, Play, Xon, Told, ProvChunk, StreamStarts, ProvDone, GateTask,
       DrainDone, DrainTimesOut, DrainClears, Bared,
       TypeOK, HistOK, HistType
  <1>2. CASE Pacing \/ TimesOut
    BY <1>2 DEF Pacing, TimesOut, TakeAudio, Admitted, GoAround, Begin, Write, WriteRefused, TakeBoundary, Finish,
       FinishTold,
       WriteTimesOut, FinishTimesOut, TypeOK, HistOK, HistType
  <1>3. ASSUME NEW s \in Bargers, BargeBegins(s) \/ Barging(s) PROVE hist.bare \subseteq hist'.bare
    <2>1. CASE AbortLocked(s)
      BY <2>1 DEF AbortLocked, Cuts, TypeOK, HistOK, HistType
    <2>2. CASE BargeBegins(s) \/ BargeClears(s)
      BY <2>2 DEF BargeBegins, BargeClears, Bared, TypeOK, HistOK, HistType
    <2>3. CASE BargeStops(s) \/ BargeStopsClosed(s)
      BY <2>3 DEF BargeStops, BargeStopsClosed, Stopped, Cuts, TypeOK, HistOK, HistType
    <2>4. QED
      BY <1>3, <2>1, <2>2, <2>3 DEF Barging
  <1>4. QED
    BY <1>1, <1>2, <1>3 DEF Next

LEMMA ReadyStays == ASSUME TypeOK, Next PROVE Ready' => Ready
  <1>1. CASE SocketCloses \/ Xoff \/ Asterisk
    BY <1>1 DEF SocketCloses, Xoff, Asterisk, Play, Xon, Told, Ready, TypeOK, OutputOK, BindType
  <1>2. CASE Pacing \/ TimesOut
    BY <1>2 DEF Pacing, TimesOut, TakeAudio, Admitted, GoAround, Begin, Write, WriteRefused, TakeBoundary, Finish,
       FinishTold,
       WriteTimesOut, FinishTimesOut, Closed, Ready, TypeOK, OutputOK, BindType
  <1>3. ASSUME NEW s \in Bargers, BargeBegins(s) \/ Barging(s) PROVE Ready' => Ready
    <2>1. CASE AbortLocked(s)
      BY <2>1 DEF AbortLocked, Ready, TypeOK, OutputOK, BindType
    <2>2. CASE BargeStops(s)
      BY <2>2 DEF BargeStops, Fenced, Ready, TypeOK, OutputOK, BindType
    <2>3. CASE BargeBegins(s) \/ BargeStopsClosed(s) \/ BargeClears(s)
      BY <2>3 DEF BargeBegins, BargeStopsClosed, BargeClears, output, Ready
    <2>4. QED
      BY <1>3, <2>1, <2>2, <2>3 DEF Barging
  <1>4. CASE ProvChunk \/ ProvDone \/ (\E g \in gates : GateTask(g)) \/ DrainDone \/ DrainTimesOut
    BY <1>4 DEF ProvChunk, StreamStarts, ProvDone, GateTask, DrainDone, DrainTimesOut, DrainClears, output, Ready
  <1>5. QED
    BY <1>1, <1>2, <1>3, <1>4 DEF Next

LEMMA PacingCovers == ASSUME TypeOK, Segs, Covered, Pacing \/ TimesOut PROVE Covered'
  <1>1. Next /\ hist'.bare = hist.bare
    BY DEF Next, Pacing, TimesOut, TakeAudio, Admitted, GoAround, Begin, Write, WriteRefused, TakeBoundary, Finish,
       FinishTold,
       WriteTimesOut, FinishTimesOut, TypeOK, HistOK, HistType
  <1>0. strm'.id = strm.id
    BY PacerKeepsStream DEF SameStream
  <1>2. prov' = prov /\ tokens' = tokens
    BY DEF Pacing, TimesOut, TakeAudio, Admitted, GoAround, Begin, Write, WriteRefused, TakeBoundary, Finish,
       FinishTold,
       WriteTimesOut, FinishTimesOut, gating
  <1>3. Ready' => Ready
    BY <1>1, ReadyStays
  <1>4. CASE TakeAudio
    <2>1. /\ src \in Seq(ItemType) /\ src # <<>> /\ src' = Tail(src) /\ Head(src).k = "audio" /\ Voices' = Voices
          /\ pacer'.seg = Head(src).n
      BY <1>4, ItemTypes DEF TakeAudio, Voices, Fails
    <2>2. Items' \subseteq Items /\ Head(src) \in Items
      BY <2>1, Taken DEF Segs
    <2>3. QED
      BY <1>0, <1>1, <1>2, <1>3, <2>1, <2>2 DEF Covered, AllBare, Bare
  <1>5. CASE Write
    <2>1. Voices' \subseteq Voices \cup {<<strm.id, pacer.seg>>}
      BY <1>1, VoicesCome
    <2>2. Items' = Items /\ pacer'.seg = 0 /\ pacer.seg # 0
      BY <1>5 DEF Write, Items, Segs, AtWork
    <2>3. QED
      BY <1>0, <1>1, <1>2, <1>3, <2>1, <2>2 DEF Covered, AllBare, Bare
  <1>6. CASE Admitted \/ GoAround \/ Begin \/ WriteRefused \/ WriteTimesOut
    <2>1. Items' = Items /\ Voices' = Voices /\ pacer'.seg = pacer.seg
      BY <1>6 DEF Admitted, GoAround, Begin, WriteRefused, WriteTimesOut, Fails, Items, Voices, TypeOK, PlayerOK,
         PacerType
    <2>2. QED
      BY <1>0, <1>1, <1>2, <1>3, <2>1, OthersKeepCovered
  <1>7. CASE TakeBoundary
    <2>1. src \in Seq(ItemType) /\ src # <<>> /\ src' = Tail(src) /\ Voices' = Voices
      BY <1>7, ItemTypes DEF TakeBoundary, Voices
    <2>2. pacer'.seg = 0
      <3>1. pacer' = [pc |-> "finish", seg |-> 0] \/ \E n, ok : Resolve(n, ok)
        BY <1>7 DEF TakeBoundary
      <3>2. QED
        BY <3>1, ResolvedPacer
    <2>3. Items' \subseteq Items
      BY <2>1, Taken DEF Segs
    <2>4. QED
      BY <1>0, <1>1, <1>2, <1>3, <2>1, <2>2, <2>3, OthersKeepCovered
  <1>8. CASE Finish \/ FinishTold \/ FinishTimesOut
    <2>1. Items' = Items /\ ~Write
      BY <1>8 DEF Finish, FinishTold, FinishTimesOut, Items, Write
    <2>2. Voices' \subseteq Voices
      BY <1>1, <2>1, VoicesCome
    <2>3. pacer'.seg \in {pacer.seg, 0}
      <3>1. pacer' = [pacer EXCEPT !.pc = "finishing"] \/ \E ok : Finished(ok)
        BY <1>8 DEF Finish, FinishTold, FinishTimesOut
      <3>2. ASSUME NEW ok, Finished(ok) PROVE pacer'.seg = 0
        BY <3>2, ResolvedPacer DEF Finished
      <3>3. QED
        BY <3>1, <3>2 DEF TypeOK, PlayerOK, PacerType
    <2>4. QED
      BY <1>0, <1>1, <1>2, <1>3, <2>1, <2>2, <2>3, OthersKeepCovered
  <1>9. QED
    BY <1>4, <1>5, <1>6, <1>7, <1>8 DEF Pacing, TimesOut

LEMMA BargingCovers ==
  ASSUME SilenceInv, Segs, Covered, NEW s \in Bargers, BargeBegins(s) \/ Barging(s)
  PROVE  Covered'
  <1>0. TypeOK
    BY DEF SilenceInv
  <1>1. Next /\ (Ready' => Ready) /\ hist.bare \subseteq hist'.bare
    <2>1. Next
      BY DEF Next
    <2>2. QED
      BY <1>0, <2>1, ReadyStays, BareGrows
  <1>2. CASE BargeBegins(s) \/ AbortLocked(s)
    <2>1. Items' = Items /\ pacer' = pacer /\ prov' = prov /\ tokens' = tokens /\ ~Write
      BY <1>2 DEF BargeBegins, AbortLocked, player, gating, Items, Write
    <2>0. strm'.id = strm.id
      BY <1>0, <1>2 DEF BargeBegins, AbortLocked, player, TypeOK, PlayerOK, StreamType
    <2>2. Voices' \subseteq Voices
      BY <1>0, <1>1, <2>1, VoicesCome
    <2>3. QED
      BY <1>1, <2>0, <2>1, <2>2, OthersKeepCovered
  <1>3. CASE BargeClears(s)
    <2>1. /\ Items' = Items /\ Voices' = Voices /\ pacer' = pacer /\ prov' = prov /\ strm' = strm
          /\ \A n \in 1..prov.seg : <<strm.id, n>> \in hist'.bare
      BY <1>0, <1>3 DEF BargeClears, Bared, output, player, Items, Voices, TypeOK, HistOK, HistType
    <2>2. QED
      BY <1>1, <2>1, AllGivenUp DEF Segs
  <1>4. CASE BargeStopsClosed(s)
    <2>1. ~Ready'
      BY <1>4 DEF BargeStopsClosed, SilenceInv, FencesHeld, NothingToAbort, Ready
    <2>2. QED
      BY <2>1 DEF Covered
  <1>5. CASE BargeStops(s)
    <2>1. PICK ok : Stopped(s, ok)
      BY <1>5 DEF BargeStops
    <2>2. Voices' = Voices /\ prov'.seg = prov.seg /\ prov'.speaking = prov.speaking
      BY <1>0, <1>5 DEF BargeStops, Stopped, Voices, TypeOK, ProviderOK, ProvType
    <2>3. CASE StreamRemoved
      <3>1. Ready => Voices = {}
        BY <1>5 DEF BargeStops, SilenceInv, Voice, WaitSilent, SomeWaits, Silence
      <3>2. src' = <<>> /\ pacer'.seg = 0 /\ strm'.id = 0
        BY <2>3 DEF StreamRemoved, NoStream
      <3>3. Items' = {}
        BY <3>2 DEF Items
      <3>4. QED
        BY <1>1, <2>2, <3>1, <3>2, <3>3 DEF Covered, AllBare
    <2>4. CASE pacer' = pacer /\ strm' = strm /\ tokens' = tokens /\ (src' = src \/ StreamGone)
      <3>1. Items' \subseteq Items
        <4>1. CASE src' = src
          BY <4>1 DEF Items
        <4>2. CASE StreamGone
          BY <1>0, <4>2, ItemTypes, Shorter DEF StreamGone, Segs
        <4>3. QED
          BY <2>4, <4>1, <4>2
      <3>2. QED
        BY <1>1, <2>2, <2>4, <3>1, OthersKeepCovered
    <2>5. QED
      BY <1>0, <2>1, <2>3, <2>4, StopLeaves
  <1>6. QED
    BY <1>2, <1>3, <1>4, <1>5 DEF Barging

\* A chunk is gated by its segment's token, or its segment was given up before.
LEMMA ProviderCovers == ASSUME BoundaryInv, Gated, Covered, ProvChunk \/ ProvDone PROVE Covered'
  <1>1. TypeOK /\ bind' = bind /\ hist' = hist /\ Voices' = Voices
    BY DEF BoundaryInv, SilenceInv, ProvChunk, StreamStarts, ProvDone, output, Voices
  <1>2. CASE ProvChunk
    <2>1. CASE tokens' = {}
      <3>1. prov.speaking /\ tokens = {}
        BY <1>2, <2>1 DEF ProvChunk, StreamStarts, Gated
      <3>0. strm' = strm
        BY <1>1, <1>2, <2>1, <3>1 DEF ProvChunk, StreamStarts, Gated
      <3>2. prov'.seg = prov.seg /\ pacer'.seg \in {pacer.seg, 0}
        BY <1>1, <1>2, <3>1, ChunkStarts DEF ProvChunk, StreamStarts, Starts, Segment, TypeOK, ProviderOK, ProvType
      <3>3. src' = src \/ (strm.id # 0 /\ src' = Append(src, Item("audio", prov.seg)))
        BY <1>2, <2>1, <3>1 DEF ProvChunk, StreamStarts, Segment
      <3>4. \A x \in Items' : x \in Items \/ (strm.id # 0 /\ x.n = prov.seg)
        <4>1. \A i \in DOMAIN src' : (i \in DOMAIN src /\ src'[i] = src[i])
                                    \/ (strm.id # 0 /\ src'[i] = Item("audio", prov.seg))
          <5>1. src \in Seq(ItemType)
            BY <1>1, ItemTypes
          <5>2. QED
            BY <3>3, <5>1
        <4>2. QED
          BY <4>1 DEF Items, Item
      <3>5. QED
        BY <1>1, <3>0, <3>1, <3>2, <3>4 DEF Covered, AllBare, Bare, Ready
    <2>2. CASE tokens' # {}
      BY <2>2 DEF Covered
    <2>3. QED
      BY <2>1, <2>2
  <1>3. CASE ProvDone
    <2>1. tokens' = tokens /\ pacer' = pacer /\ prov'.speaking = FALSE /\ strm'.id = strm.id
      BY <1>1, <1>3 DEF ProvDone, TypeOK, PlayerOK, StreamType, ProviderOK, ProvType
    <2>2. src' = src \/ src' = Append(src, Item("bound", prov.seg))
      BY <1>3 DEF ProvDone
    <2>3. \A x \in Items' : x \in Items \/ x.k # "audio"
      <3>1. \A i \in DOMAIN src' : (i \in DOMAIN src /\ src'[i] = src[i]) \/ src'[i] = Item("bound", prov.seg)
        <4>1. src \in Seq(ItemType)
          BY <1>1, ItemTypes
        <4>2. QED
          BY <2>2, <4>1
      <3>2. QED
        BY <3>1 DEF Items, Item
    <2>4. QED
      BY <1>1, <2>1, <2>3 DEF Covered, AllBare, Bare, Ready
  <1>4. QED
    BY <1>2, <1>3

LEMMA NextCovers == ASSUME BoundaryInv, Gated, Covered, Next PROVE Covered'
  <1>1. TypeOK /\ Segs
    BY DEF BoundaryInv, SilenceInv
  <1>2. CASE SocketCloses \/ Xoff \/ Asterisk
    <2>1. /\ Items' = Items /\ pacer' = pacer /\ prov' = prov /\ tokens' = tokens /\ hist' = hist /\ strm' = strm
          /\ ~Write
      BY <1>2 DEF SocketCloses, Xoff, Asterisk, Play, Xon, Told, player, gating, Items, Write
    <2>2. QED
      BY <1>1, <2>1, VoicesCome, ReadyStays, OthersKeepCovered
  <1>3. CASE Pacing \/ TimesOut
    BY <1>1, <1>3, PacingCovers
  <1>4. CASE \E s \in Bargers : BargeBegins(s) \/ Barging(s)
    BY <1>1, <1>4, BargingCovers DEF BoundaryInv
  <1>5. CASE ProvChunk \/ ProvDone
    BY <1>5, ProviderCovers
  <1>6. CASE \E g \in gates : GateTask(g)
    BY <1>6, GateCovers
  <1>7. CASE DrainDone
    BY <1>7, DrainCovers
  <1>8. CASE DrainTimesOut
    <2>1. /\ Items' = Items /\ Voices' = Voices /\ pacer' = pacer /\ prov' = prov /\ strm' = strm /\ bind' = bind
          /\ \A n \in 1..prov.seg : <<strm.id, n>> \in hist'.bare
      BY <1>1, <1>8 DEF DrainTimesOut, DrainClears, Bared, output, player, Items, Voices, TypeOK, HistOK, HistType
    <2>2. QED
      BY <1>1, <2>1, AllGivenUp DEF Segs, BoundaryInv, Ready
  <1>9. QED
    BY <1>2, <1>3, <1>4, <1>5, <1>6, <1>7, <1>8 DEF Next

\* While Asterisk has the agent's voice to play, a gating token stands, unless a barge-in cleared
\* those of a stream that started after its stop, or the drain observer's timeout gave them up: a
\* stream has a token of its own (start_streaming_playback), complete_boundary_gating clears the tokens for the last
\* boundary only, when nothing is behind it, and the drain observer when nothing is pending.
THEOREM CaptureIsGated == Spec => []PlayoutCovered
  <1>1. Init => Gated /\ Covered
    <2>1. ASSUME Init PROVE Gated /\ Covered
      <3>1. Items = {} /\ Voices = {}
        BY <2>1 DEF Init, Items, Voices, Frames
      <3>2. QED
        BY <2>1, <3>1 DEF Init, Gated, Covered, AllBare
    <2>2. QED
      BY <2>1
  <1>2. BoundaryInv /\ (Gated /\ Covered) /\ [Next]_vars => (Gated /\ Covered)'
    <2>1. ASSUME Gated, Covered, UNCHANGED vars PROVE Gated' /\ Covered'
      <3>1. Items' = Items /\ Voices' = Voices
        BY <2>1 DEF vars, output, player, Items, Voices
      <3>2. QED
        BY <2>1, <3>1 DEF vars, output, player, gating, Gated, GateMatches, Covered, AllBare, Bare, Ready
    <2>2. QED
      BY <2>1, NextGates, NextCovers
  <1>3. Covered => PlayoutCovered
    <2>1. \A i \in DOMAIN queue : queue[i].k = "audio" => <<queue[i].sid, queue[i].n>> \in Voices
      BY DEF Voices, Frames
    <2>2. QED
      BY <2>1 DEF Covered, AllBare, Bare, PlayoutCovered
  <1>4. QED
    BY <1>1, <1>2, <1>3, BoundaryBegins, BoundaryKept, PTL DEF Spec
=============================================================================
