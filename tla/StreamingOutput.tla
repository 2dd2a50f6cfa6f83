-------------------------- MODULE StreamingOutput --------------------------
(***************************************************************************)
(* The agent's voice in continuous-stream mode over Asterisk's media       *)
(* WebSocket: a provider whose segments the engine gates, the streaming    *)
(* playback manager's stream with its pacer, the output protocol of the    *)
(* WebSocket server (generations, transition lock, FLUSH fenced by MARK),  *)
(* Asterisk's queue, and the tasks that interrupt a stream.                *)
(*                                                                         *)
(* The queues between provider and pacer are one (src).  A command or a    *)
(* frame is in Asterisk's queue when its send is done, since the socket    *)
(* keeps order; Asterisk's answers (acks) arrive late.                     *)
(***************************************************************************)
EXTENDS Naturals, Sequences

CONSTANTS Bargers,    \* tasks that may run _apply_barge_in_action
          InProvider, \* those of them that are the provider's event task
          Segments,   \* bound: the provider's responses
          Chunks,     \* bound: the audio chunks of all of them
          Barges,     \* bound: the interruptions
          LongAudio   \* a response may take longer than the 30 s its drain is waited for

ASSUME BargersAssumption == "pacer" \notin Bargers /\ InProvider \subseteq Bargers
ASSUME BoundsAssumption ==
  Segments \in Nat /\ Chunks \in Nat /\ Barges \in Nat /\ LongAudio \in BOOLEAN

Tasks == Bargers \cup {"pacer"}

VARIABLES bind,     \* the WebSocketMediaBinding, with the waiters for STOP (fin) and MARK (mk)
          tlock,    \* transition_lock: its holder and those who wait for it, in order
          queue,    \* what Asterisk has to play, and the markers between
          acks,     \* Asterisk's answers to markers, under way
          strm,     \* active_streams[call_id]; id 0 when there is none
          pacer,    \* the stream's pacer task and the segment of the frame it holds
          src,      \* frames and boundaries on their way to the pacer
          abt,      \* where each barger stands in abort_output
          barge,    \* where each barger stands, and the stream it found
          bres,     \* result of each boundary's future
          gates,    \* complete_boundary_gating tasks
          tokens,   \* session.tts_tokens: stream ids, and 0 for tts_segment
          segOn,    \* the call is in _segment_tts_active
          drain,    \* the provider output drain task, with the tokens it found
          prov,     \* the provider, and its queue in _provider_stream_queues
          made,     \* streams started and interruptions, so far
          hist      \* for the properties: lost frames, silenced and cut streams, and what of each was bared

output == <<bind, tlock, queue, acks>>
player == <<strm, pacer, src, bres>>
gating == <<gates, tokens, segOn, drain>>
vars == <<output, player, abt, barge, gating, prov, made, hist>>

NoStream == [id |-> 0, stop |-> FALSE, failed |-> FALSE, gen |-> 0, bd |-> 0, pend |-> 0, epoch |-> 0]

Init ==
  /\ bind = [state |-> "ready", gen |-> 0, out |-> "idle", admission |-> TRUE, xon |-> TRUE,
             fin |-> "none", mk |-> "none"]
  /\ tlock = <<>> /\ queue = <<>> /\ acks = {}
  /\ strm = NoStream /\ pacer = [pc |-> "dead", seg |-> 0] /\ src = <<>>
  /\ abt = [t \in Bargers |-> "no"]
  /\ barge = [s \in Bargers |-> [pc |-> "idle", sid |-> 0]]
  /\ bres = [n \in 1..Segments |-> "none"]
  /\ gates = {} /\ tokens = {} /\ segOn = FALSE
  /\ drain = [on |-> FALSE, toks |-> {}]
  /\ prov = [seg |-> 0, speaking |-> FALSE, left |-> Chunks, q |-> "none", waits |-> FALSE]
  /\ made = [streams |-> 0, barges |-> 0]
  /\ hist = [lost |-> {}, silenced |-> {}, cut |-> {}, bare |-> {}]

-----------------------------------------------------------------------------
(* The binding. *)
Ready == bind.state = "ready"
Holds(t) == tlock # <<>> /\ Head(tlock) = t
Queued(t) == tlock' = Append(tlock, t)
Without(q, t) ==
  IF \A i \in 1..Len(q) : q[i] # t THEN q
  ELSE LET at == CHOOSE i \in 1..Len(q) : q[i] = t IN
         [i \in 1..(Len(q) - 1) |-> IF i < at THEN q[i] ELSE q[i + 1]]
Left(t) == tlock' = Without(tlock, t)

\* _close_binding: every waiter is woken.
Closed(b) == [b EXCEPT !.state = "closed", !.out = "closed", !.admission = TRUE, !.xon = TRUE,
                       !.fin = IF @ = "wait" THEN "bad" ELSE @,
                       !.mk = IF @ = "wait" THEN "bad" ELSE @]

Item(k, n) == [k |-> k, n |-> n]
Frame(sid, n) == [k |-> "audio", g |-> bind.gen, sid |-> sid, n |-> n]
Marker(k, g) == [k |-> k, g |-> g, sid |-> 0, n |-> 0]
Frames(q) == {<<q[i].sid, q[i].n>> : i \in {j \in DOMAIN q : q[j].k = "audio"}}

SocketCloses ==
  /\ Ready /\ bind' = Closed(bind)
  /\ UNCHANGED <<tlock, queue, acks, player, abt, barge, gating, prov, made, hist>>

-----------------------------------------------------------------------------
(* Asterisk, and _handle_event. *)
Play ==
  /\ queue # <<>>
  /\ acks' = IF Head(queue).k = "audio" THEN acks
             ELSE acks \cup {[k |-> Head(queue).k, g |-> Head(queue).g]}
  /\ queue' = Tail(queue)
  /\ UNCHANGED <<bind, tlock, player, abt, barge, gating, prov, made, hist>>

Xoff ==
  /\ Ready /\ bind.xon /\ queue # <<>> /\ bind' = [bind EXCEPT !.xon = FALSE]
  /\ UNCHANGED <<tlock, queue, acks, player, abt, barge, gating, prov, made, hist>>

Xon ==
  /\ ~bind.xon /\ bind' = [bind EXCEPT !.xon = TRUE]
  /\ UNCHANGED <<tlock, queue, acks, player, abt, barge, gating, prov, made, hist>>

\* A correlation id names its waiter: an answer of another generation finds none.
Told(a) ==
  /\ acks' = acks \ {a}
  /\ bind' = IF ~Ready \/ a.g # bind.gen THEN bind
             ELSE IF a.k = "stop"
                  THEN [bind EXCEPT !.fin = IF @ = "wait" THEN "ok" ELSE @]
                  ELSE [bind EXCEPT !.mk = IF @ = "wait" THEN "ok" ELSE @]
  /\ UNCHANGED <<tlock, queue, player, abt, barge, gating, prov, made, hist>>

-----------------------------------------------------------------------------
(* The pacer: _drain_next_frame, _send_audio_chunk, finish_transport_segment *)
(* and the adapter calls they make.                                          *)

\* A frame or boundary failed.  A stopped stream's pacer leaves the flush to its stop owner.  One
\* that nobody stopped fails on a closed socket only, where its own abort_output returns at once:
\* an interruption stops the stream as it queues for the lock, so a later stream begins its output
\* behind that interruption's fence (StreamPlays).  The frame stays in frame_remainders.
Fails(n) == pacer' = [pc |-> "dead", seg |-> n] /\ Left("pacer")

TakeAudio ==
  /\ pacer.pc = "idle" /\ src # <<>> /\ Head(src).k = "audio"
  /\ src' = Tail(src) /\ bind' = bind
  /\ IF strm.stop \/ strm.failed \/ ~Ready
     THEN Fails(Head(src).n)
     ELSE /\ pacer' = [pc |-> IF strm.gen = 0 THEN "admit" ELSE "write", seg |-> Head(src).n]
          /\ UNCHANGED tlock
  /\ UNCHANGED <<queue, acks, strm, bres, abt, barge, gating, prov, made, hist>>

\* begin_output, past its wait for admission.
Admitted ==
  /\ pacer.pc = "admit" /\ bind.admission
  /\ pacer' = [pacer EXCEPT !.pc = "begin"] /\ Queued("pacer")
  /\ UNCHANGED <<bind, queue, acks, strm, src, bres, abt, barge, gating, prov, made, hist>>

\* An abort cleared the fence meanwhile: go around.
GoAround ==
  /\ pacer.pc = "begin" /\ Holds("pacer") /\ ~bind.admission
  /\ pacer' = [pacer EXCEPT !.pc = "admit"] /\ Left("pacer")
  /\ UNCHANGED <<bind, queue, acks, strm, src, bres, abt, barge, gating, prov, made, hist>>

\* START_MEDIA_BUFFERING; a stream that was stopped meanwhile does not get the generation.
Begin ==
  /\ pacer.pc = "begin" /\ Holds("pacer") /\ bind.admission
  /\ \/ /\ Ready /\ bind.out = "idle"
        /\ bind' = [bind EXCEPT !.gen = @ + 1, !.out = "buffering"]
        /\ IF strm.stop
           THEN Fails(pacer.seg) /\ UNCHANGED strm
           ELSE /\ Left("pacer") /\ strm' = [strm EXCEPT !.gen = bind'.gen]
                /\ pacer' = [pacer EXCEPT !.pc = "write"]
     \/ /\ ~Ready \/ bind.out # "idle"
        /\ UNCHANGED <<bind, strm>> /\ Fails(pacer.seg)
  /\ UNCHANGED <<queue, acks, src, bres, abt, barge, gating, prov, made, hist>>

\* send_audio, which waits for XON; its generation is the one begin_output returned.
Current == strm.gen = bind.gen /\ bind.out = "buffering"

Write ==
  /\ pacer.pc = "write" /\ Ready /\ Current /\ bind.xon
  /\ queue' = Append(queue, Frame(strm.id, pacer.seg))
  /\ pacer' = [pc |-> "idle", seg |-> 0]
  /\ UNCHANGED <<bind, tlock, acks, strm, src, bres, abt, barge, gating, prov, made, hist>>

WriteRefused ==
  /\ pacer.pc = "write" /\ (~Ready \/ ~Current)
  /\ bind' = bind /\ Fails(pacer.seg)
  /\ hist' = [hist EXCEPT !.lost = @ \cup {<<strm.id, pacer.seg>>}]
  /\ UNCHANGED <<queue, acks, strm, src, bres, abt, barge, gating, prov, made>>

\* No XON within the output timeout.
WriteTimesOut ==
  /\ pacer.pc = "write" /\ Ready /\ Current /\ ~bind.xon
  /\ bind' = Closed(bind) /\ Fails(pacer.seg)
  /\ UNCHANGED <<queue, acks, strm, src, bres, abt, barge, gating, prov, made, hist>>

\* The result of the boundary the pacer is at, and what the pacer does of it.
Resolve(n, ok) ==
  /\ bres' = [bres EXCEPT ![n] = IF @ = "none" THEN (IF ok THEN "ok" ELSE "bad") ELSE @]
  /\ IF ok THEN pacer' = [pc |-> "idle", seg |-> 0] /\ Left("pacer") ELSE Fails(0)

\* Nothing was written since the last boundary: only a failed output spoils this one.
TakeBoundary ==
  /\ pacer.pc = "idle" /\ src # <<>> /\ Head(src).k = "bound"
  /\ src' = Tail(src) /\ bind' = bind
  /\ IF strm.gen # 0 /\ ~strm.stop /\ Ready
     THEN /\ strm' = [strm EXCEPT !.pend = Head(src).n]
          /\ pacer' = [pc |-> "finish", seg |-> 0] /\ Queued("pacer")
          /\ UNCHANGED bres
     ELSE /\ strm' = [strm EXCEPT !.gen = IF strm.stop THEN @ ELSE 0, !.failed = @ \/ strm.gen # 0]
          /\ Resolve(Head(src).n, strm.gen = 0 /\ ~strm.failed)
  /\ UNCHANGED <<queue, acks, abt, barge, gating, prov, made, hist>>

Finished(ok) ==
  /\ strm' = [strm EXCEPT !.pend = 0, !.gen = 0, !.failed = @ \/ ~ok]
  /\ Resolve(strm.pend, ok)

\* finish_output under the lock: STOP_MEDIA_BUFFERING behind the frames.
Finish ==
  /\ pacer.pc = "finish" /\ Holds("pacer")
  /\ IF Ready /\ Current
     THEN /\ bind' = [bind EXCEPT !.out = "finishing", !.fin = "wait"]
          /\ queue' = Append(queue, Marker("stop", bind.gen))
          /\ pacer' = [pacer EXCEPT !.pc = "finishing"] /\ Left("pacer")
          /\ UNCHANGED <<strm, bres>>
     ELSE bind' = bind /\ UNCHANGED queue /\ Finished(FALSE)
  /\ UNCHANGED <<acks, src, abt, barge, gating, prov, made, hist>>

\* Mutant of FinishTold: a waiter that an abort woke counts as an acknowledgement.
FinishToldAnyhow ==
  /\ pacer.pc = "finishing" /\ bind.fin \in {"ok", "bad"}
  /\ bind' = [bind EXCEPT !.fin = "none",
                          !.out = IF bind.gen = strm.gen /\ @ = "finishing" THEN "idle" ELSE @]
  /\ Finished(TRUE)
  /\ UNCHANGED <<queue, acks, src, abt, barge, gating, prov, made, hist>>

\* The waiter is answered, by Asterisk, by an abort or by the close.
FinishTold ==
  /\ pacer.pc = "finishing" /\ bind.fin \in {"ok", "bad"}
  /\ bind' = [bind EXCEPT !.fin = "none",
                          !.out = IF bind.gen = strm.gen /\ @ = "finishing" THEN "idle" ELSE @]
  /\ Finished(bind.fin = "ok")
  /\ UNCHANGED <<queue, acks, src, abt, barge, gating, prov, made, hist>>

FinishTimesOut ==
  /\ pacer.pc = "finishing" /\ bind.fin = "wait"
  /\ bind' = [Closed(bind) EXCEPT !.fin = "none"]
  /\ Finished(FALSE)
  /\ UNCHANGED <<queue, acks, src, abt, barge, gating, prov, made, hist>>

-----------------------------------------------------------------------------
(* abort_output.                                                             *)

\* A barge that began before the present stream hits it none the less.
Cuts(s, h) == IF strm.id \in {0, barge[s].sid} THEN h ELSE [h EXCEPT !.cut = @ \cup {strm.id}]

\* Mutant of AbortLocked: the flush leaves the writer its generation.
AbortKeepsWriter(t) ==
  /\ abt[t] = "lock" /\ Holds(t)
  /\ LET fenced == [bind EXCEPT !.admission = FALSE, !.fin = IF @ = "wait" THEN "bad" ELSE @] IN
       IF Ready
       THEN /\ bind' = [fenced EXCEPT !.mk = "wait"]
            /\ queue' = <<Marker("mark", fenced.gen)>>
            /\ hist' = Cuts(t, [hist EXCEPT !.lost = @ \cup Frames(queue)])
       ELSE bind' = [fenced EXCEPT !.out = "failed", !.mk = "bad"] /\ UNCHANGED <<queue, hist>>
  /\ abt' = [abt EXCEPT ![t] = "wait"]
  /\ UNCHANGED <<tlock, acks, player, barge, gating, prov, made>>

\* The fence closes admission, invalidates the writer and wakes the finish waiter; FLUSH
\* removes the queue and MARK takes its place.  On a closed binding the FLUSH fails.
AbortLocked(t) ==
  /\ abt[t] = "lock" /\ Holds(t)
  /\ LET fenced == [bind EXCEPT !.gen = @ + 1, !.out = "aborting", !.admission = FALSE,
                                !.fin = IF @ = "wait" THEN "bad" ELSE @] IN
       IF Ready
       THEN /\ bind' = [fenced EXCEPT !.mk = "wait"]
            /\ queue' = <<Marker("mark", fenced.gen)>>
            /\ hist' = Cuts(t, [hist EXCEPT !.lost = @ \cup Frames(queue)])
       ELSE bind' = [fenced EXCEPT !.out = "failed", !.mk = "bad"] /\ UNCHANGED <<queue, hist>>
  /\ abt' = [abt EXCEPT ![t] = "wait"]
  /\ UNCHANGED <<tlock, acks, player, barge, gating, prov, made>>

\* Mutant of Fenced: admission is not reopened.
FencedShut(ok) ==
  bind' = IF ~Ready THEN [bind EXCEPT !.mk = "none"]
          ELSE IF ok THEN [bind EXCEPT !.out = "idle", !.mk = "none"]
          ELSE [Closed(bind) EXCEPT !.mk = "none"]

\* Mutant of Fenced: the output state stays at aborting.
FencedBusy(ok) ==
  bind' = IF ~Ready THEN [bind EXCEPT !.mk = "none"]
          ELSE IF ok THEN [bind EXCEPT !.admission = TRUE, !.mk = "none"]
          ELSE [Closed(bind) EXCEPT !.mk = "none"]

\* MARK was processed, the close woke the waiter, or no answer came in time.
Fenced(ok) ==
  bind' = IF ~Ready THEN [bind EXCEPT !.mk = "none"]
          ELSE IF ok THEN [bind EXCEPT !.out = "idle", !.admission = TRUE, !.mk = "none"]
          ELSE [Closed(bind) EXCEPT !.mk = "none"]

-----------------------------------------------------------------------------
(* _apply_barge_in_action and stop_streaming_playback.                       *)

BargeBegins(s) ==
  /\ barge[s].pc = "idle" /\ made.barges < Barges
  /\ strm.id # 0 \/ tokens # {}
  /\ made' = [made EXCEPT !.barges = @ + 1]
  /\ barge' = [barge EXCEPT ![s] = [pc |-> "stop", sid |-> strm.id]]
  /\ strm' = IF strm.id = 0 THEN strm ELSE [strm EXCEPT !.stop = TRUE, !.failed = TRUE]
  /\ IF Ready THEN Queued(s) /\ abt' = [abt EXCEPT ![s] = "lock"] ELSE UNCHANGED <<tlock, abt>>
  /\ UNCHANGED <<bind, queue, acks, pacer, src, bres, gating, prov, hist>>

\* The stream's tasks are cancelled and _cleanup_stream removes it with its token.
StreamRemoved ==
  /\ strm' = NoStream /\ pacer' = [pc |-> "dead", seg |-> 0] /\ src' = <<>>
  /\ bres' = [n \in 1..Segments |-> IF n \in {strm.bd, strm.pend} /\ bres[n] = "none" THEN "bad" ELSE bres[n]]
  /\ gates' = {g \in gates : g.sid # strm.id} /\ tokens' = tokens \ {strm.id}

\* Another barger removed the stream first: the jitter buffer emptied here is its successor's.
StreamGone ==
  /\ \E k \in 0..Len(src) : src' = SubSeq(src, k + 1, Len(src))
  /\ UNCHANGED <<strm, pacer, bres, gates, tokens>>

\* stop_streaming_playback returns ok, and the provider's queue is forgotten.
Stopped(s, ok) ==
  /\ tlock' = Without(IF barge[s].sid # 0 /\ strm.id = barge[s].sid THEN Without(tlock, "pacer") ELSE tlock, s)
  /\ abt' = [abt EXCEPT ![s] = "no"]
  /\ \/ barge[s].sid = 0 /\ UNCHANGED <<player, gates, tokens>>
     \/ barge[s].sid # 0 /\ strm.id = barge[s].sid /\ StreamRemoved
     \/ barge[s].sid # 0 /\ strm.id # barge[s].sid /\ StreamGone
  /\ hist' = Cuts(s, [hist EXCEPT !.silenced = IF ok THEN @ \cup {barge[s].sid} ELSE @])
  /\ prov' = [prov EXCEPT !.q = "none", !.waits = FALSE]
  /\ barge' = [barge EXCEPT ![s].pc = "clear"]

BargeStops(s) ==
  /\ abt[s] = "wait" /\ Fenced(bind.mk = "ok") /\ Stopped(s, bind.mk = "ok")
  /\ UNCHANGED <<queue, acks, segOn, drain, made>>

\* Mutant of BargeStopsClosed: a stop without a socket reports success.
BargeStopsUnheard(s) ==
  /\ barge[s].pc = "stop" /\ abt[s] = "no" /\ Stopped(s, TRUE)
  /\ UNCHANGED <<bind, queue, acks, segOn, drain, made>>

\* The socket was gone before the abort began.
BargeStopsClosed(s) ==
  /\ barge[s].pc = "stop" /\ abt[s] = "no" /\ Stopped(s, FALSE)
  /\ UNCHANGED <<bind, queue, acks, segOn, drain, made>>

\* The stream loses its tokens with audio of these segments to come.
Bared == [hist EXCEPT !.bare = @ \cup {<<strm.id, n>> : n \in 1..prov.seg}]

\* Every gating token of the session is cleared, that of a stream started since the stop
\* included; the segment stays in _segment_tts_active.
BargeClears(s) ==
  /\ barge[s].pc = "clear"
  /\ barge' = [barge EXCEPT ![s] = [pc |-> "idle", sid |-> 0]]
  /\ tokens' = {} /\ hist' = Bared
  /\ UNCHANGED <<output, player, abt, gates, segOn, drain, prov, made>>

-----------------------------------------------------------------------------
(* The provider's event task and what it starts.                             *)

EventTaskFree == \A s \in InProvider : barge[s].pc = "idle"
Segment == IF prov.speaking THEN prov.seg ELSE prov.seg + 1

\* start_streaming_playback, when no stream is active: a stream and its pacer, with a gating token
\* of the stream's own besides those held.
StreamStarts(held) ==
  /\ made' = [made EXCEPT !.streams = @ + 1]
  /\ tokens' = held \cup {made.streams + 1}
  /\ strm' = [NoStream EXCEPT !.id = made.streams + 1]
  /\ pacer' = [pc |-> "idle", seg |-> 0]

\* AgentAudio: the drain observer is cancelled, the segment is gated once (by the fallback token
\* when there is no stream yet), and the chunk goes to the provider's queue.  Without a queue a
\* new one is made, and a stream to read it unless one is active.
ProvChunk ==
  /\ EventTaskFree /\ prov.left > 0 /\ Segment \in 1..Segments
  /\ drain' = [on |-> FALSE, toks |-> {}]
  /\ segOn' = TRUE
  /\ LET gate == IF segOn \/ (strm.id = 0 /\ tokens # {}) THEN {} ELSE {strm.id}
         gated == IF segOn \/ strm.id = 0 THEN strm ELSE [strm EXCEPT !.epoch = @ + 1]
         starts == prov.q = "none" /\ strm.id = 0 /\ Ready
         q == IF starts THEN "live" ELSE IF prov.q = "none" THEN "other" ELSE prov.q
         read == q = "live" /\ (starts \/ strm.id # 0) IN
       /\ IF starts THEN StreamStarts(tokens \cup gate)
          ELSE strm' = gated /\ tokens' = tokens \cup gate /\ UNCHANGED <<pacer, made>>
       /\ src' = IF read THEN Append(src, Item("audio", Segment)) ELSE src
       /\ prov' = [prov EXCEPT !.seg = Segment, !.speaking = TRUE, !.left = @ - 1, !.q = q,
                               !.waits = @ \/ ~read]
  /\ UNCHANGED <<output, bres, abt, barge, gates, hist>>

\* AgentAudioDone: the boundary goes behind the stream's audio, a task clears the gating at its
\* acknowledgement, and the drain observer clears it at the latest.
ProvDone ==
  /\ EventTaskFree /\ prov.speaking
  /\ prov' = [prov EXCEPT !.speaking = FALSE]
  /\ IF strm.id = 0 THEN UNCHANGED <<strm, src, gates>>
     ELSE /\ strm' = [strm EXCEPT !.bd = prov.seg]
          /\ src' = Append(src, Item("bound", prov.seg))
          /\ gates' = gates \cup {[bd |-> prov.seg, epoch |-> strm.epoch, sid |-> strm.id]}
  /\ segOn' = FALSE
  /\ drain' = [on |-> TRUE, toks |-> tokens]
  /\ UNCHANGED <<output, pacer, bres, abt, barge, tokens, made, hist>>

\* Mutant of GateTask: without the epoch check.
GateTaskLate(g) ==
  /\ bres[g.bd] # "none"
  /\ gates' = gates \ {g}
  /\ tokens' = IF bres[g.bd] = "ok" /\ strm.id = g.sid /\ strm.bd = g.bd THEN tokens \ {g.sid, 0} ELSE tokens
  /\ UNCHANGED <<output, player, abt, barge, segOn, drain, prov, made, hist>>

\* complete_boundary_gating.
GateTask(g) ==
  /\ bres[g.bd] # "none"
  /\ gates' = gates \ {g}
  /\ tokens' = IF bres[g.bd] = "ok" /\ strm.id = g.sid /\ strm.epoch = g.epoch /\ strm.bd = g.bd
               THEN tokens \ {g.sid, 0} ELSE tokens
  /\ UNCHANGED <<output, player, abt, barge, segOn, drain, prov, made, hist>>

\* _call_audio_drain_snapshot finds nothing pending.
Drained ==
  /\ src = <<>> /\ pacer.seg = 0 /\ ~prov.waits
  /\ bind.out \in {"idle", "closed", "failed"}

\* _finish_provider_output_after_drain; without a drain it clears as much after its timeout.
DrainClears ==
  /\ drain' = [on |-> FALSE, toks |-> {}]
  /\ tokens' = tokens \ drain.toks
  /\ UNCHANGED <<output, player, abt, barge, gates, segOn, prov, made>>

DrainDone == drain.on /\ Drained /\ DrainClears /\ UNCHANGED hist

\* Nobody will read what is pending.
Stuck == prov.waits \/ (pacer.pc = "dead" /\ (src # <<>> \/ pacer.seg # 0)) \/ bind.out = "buffering"

\* Mutant of DrainTimesOut: the observer gives up with the tokens in place.
DrainGivesUp ==
  /\ drain.on /\ ~Drained /\ (LongAudio \/ Stuck)
  /\ drain' = [on |-> FALSE, toks |-> {}]
  /\ UNCHANGED <<output, player, abt, barge, gates, tokens, segOn, prov, made, hist>>

\* The observer's own timeout clears what the drain would have cleared.
DrainTimesOut ==
  /\ drain.on /\ ~Drained /\ (LongAudio \/ Stuck)
  /\ DrainClears /\ hist' = Bared

-----------------------------------------------------------------------------
Pacing == TakeAudio \/ Admitted \/ GoAround \/ Begin \/ Write \/ WriteRefused \/ TakeBoundary
          \/ Finish \/ FinishTold
TimesOut == WriteTimesOut \/ FinishTimesOut
Barging(s) == AbortLocked(s) \/ BargeStops(s) \/ BargeStopsClosed(s) \/ BargeClears(s)
Asterisk == Play \/ Xon \/ \E a \in acks : Told(a)

Next ==
  \/ SocketCloses \/ Xoff \/ Asterisk
  \/ Pacing \/ TimesOut
  \/ \E s \in Bargers : BargeBegins(s) \/ Barging(s)
  \/ ProvChunk \/ ProvDone
  \/ \E g \in gates : GateTask(g)
  \/ DrainDone \/ DrainTimesOut

Fairness ==
  /\ WF_vars(Asterisk) /\ WF_vars(Pacing) /\ WF_vars(ProvDone)
  /\ \A s \in Bargers : WF_vars(Barging(s))
  /\ WF_vars(\E g \in gates : GateTask(g)) /\ WF_vars(DrainDone \/ DrainTimesOut)

Spec == Init /\ [][Next]_vars /\ Fairness

-----------------------------------------------------------------------------
BindType == [state : {"ready", "closed"}, gen : Nat,
             out : {"idle", "buffering", "finishing", "aborting", "failed", "closed"},
             admission : BOOLEAN, xon : BOOLEAN,
             fin : {"none", "wait", "ok", "bad"}, mk : {"none", "wait", "ok", "bad"}]
StreamType == [id : Nat, stop : BOOLEAN, failed : BOOLEAN, gen : Nat, bd : 0..Segments,
               pend : 0..Segments, epoch : Nat]

PacerType == [pc : {"dead", "idle", "admit", "begin", "write", "finish", "finishing"},
              seg : 0..Segments]
ItemType == [k : {"audio", "bound"}, n : 0..Segments]
ProvType == [seg : 0..Segments, speaking : BOOLEAN, left : 0..Chunks,
             q : {"none", "live", "other"}, waits : BOOLEAN]
HistType == [lost : SUBSET (Nat \X (0..Segments)), silenced : SUBSET Nat, cut : SUBSET Nat,
             bare : SUBSET (Nat \X (1..Segments))]
FrameType == [k : {"audio", "stop", "mark"}, g : Nat, sid : Nat, n : 0..Segments]

OutputOK ==
  /\ bind \in BindType /\ tlock \in Seq(Tasks)
  /\ queue \in Seq(FrameType) /\ acks \subseteq [k : {"stop", "mark"}, g : Nat]
PlayerOK ==
  /\ strm \in StreamType
  /\ pacer \in PacerType /\ src \in Seq(ItemType)
  /\ bres \in [1..Segments -> {"none", "ok", "bad"}]
TasksOK ==
  /\ abt \in [Bargers -> {"no", "lock", "wait"}]
  /\ barge \in [Bargers -> [pc : {"idle", "stop", "clear"}, sid : Nat]]
GatingOK ==
  /\ gates \subseteq [bd : 0..Segments, epoch : Nat, sid : Nat]
  /\ tokens \subseteq Nat /\ segOn \in BOOLEAN
  /\ drain \in [on : BOOLEAN, toks : SUBSET Nat]
ProviderOK ==
  /\ prov \in ProvType
  /\ made \in [streams : Nat, barges : 0..Barges]
HistOK == hist \in HistType

TypeOK == OutputOK /\ PlayerOK /\ TasksOK /\ GatingOK /\ ProviderOK /\ HistOK

\* A barge-in whose stop was confirmed leaves nothing of its stream to be heard, whatever its
\* pacer was sending (stop_streaming_playback: "Invalidate remote output before waiting").
StopSilences == \A i \in DOMAIN queue : queue[i].k = "audio" => queue[i].sid \notin hist.silenced

\* No frame is behind the end marker of its own generation or the fence of a later one: a stale
\* writer never speaks into a flushed or finished segment.
NothingLate ==
  \A i, j \in DOMAIN queue :
    i < j /\ queue[i].k # "audio" /\ queue[j].k = "audio" => queue[i].g < queue[j].g

\* While Asterisk has the agent's voice to play, capture is gated: the stream's token stands
\* until the boundary of its last segment is acknowledged, even when the provider has long finished
\* and gated or finished another segment, and a response that resumes on a new stream after an
\* interruption is gated again.  Excepted is the stream whose tokens a barge-in that began before
\* it clears, or that the drain observer's timeout gives up.
PlayoutCovered ==
  Ready /\ tokens = {} =>
    \A i \in DOMAIN queue : queue[i].k = "audio" => <<queue[i].sid, queue[i].n>> \in hist.bare

\* A boundary acknowledged as complete means that its stream's audio before it was played: none
\* is in Asterisk's queue and none was flushed or refused.
BoundaryHonest ==
  \A n \in 1..Segments : bres[n] = "ok" =>
    /\ \A i \in DOMAIN queue : queue[i].k = "audio" => queue[i].n # n
    /\ strm.bd = n /\ strm.id \notin hist.cut => <<strm.id, n>> \notin hist.lost

\* A stream that nobody stops keeps its pacer through the interruptions of others: no flush that was
\* asked for before it invalidates its output.  The provider's queue is the one it reads, unless a
\* barge-in that began before the stream hit it.
StreamPlays ==
  Ready /\ strm.id # 0 /\ ~strm.stop => pacer.pc # "dead" /\ (strm.id \notin hist.cut => prov.q # "other")

\* Admission is closed on a live socket only while an interruption waits for its fence.
NotStranded == Ready /\ ~bind.admission => \E s \in Bargers : abt[s] = "wait"

\* After an interruption the provider's audio can restart: once no barge-in is running, what the
\* provider says is in a queue that a stream reads (engine.py: "Ensure subsequent provider audio
\* can restart playback cleanly").
PlaybackRestarts ==
  Ready /\ strm.id # 0 /\ (\A s \in Bargers : barge[s].pc = "idle") => ~prov.waits

\* Capture reopens: gating ends by acknowledgement, interruption, drain or timeout.
CaptureReopens == tokens # {} ~> tokens = {}
=============================================================================
