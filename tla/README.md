# Verification of the Asterisk AI Voice Agent

TLA+ models of the engine in `src/src/`, checked by TLC on small instances and, where
it is marked, proved by TLAPS for every value of the constants. The engine is one Python
process with one asyncio event loop. It controls Asterisk over ARI (events on a websocket,
requests over REST), moves audio over AudioSocket, RTP or a websocket, talks to AI
providers or local pipelines, and keeps outbound campaigns and call history in SQLite
files that the Admin UI, another process, opens too.

In the engine an action of a model is the code between two awaits. What can go wrong is
therefore what happens *between* awaits: the ARI listener starts a task per event
(`ari_client.py:581`), so two handlers of one channel interleave; timers, retries and
watchdogs run as tasks of their own; Asterisk goes on while a request is under way; and
the maps in memory die with the process while Asterisk's channels and the SQLite rows do
not.

## 1. Inventory

| Component | Code | State | Operations and interactions | What makes it hard | Correct when |
|---|---|---|---|---|---|
| Outbound campaign dialer | `src/engine.py`, `src/core/outbound_store.py`, `admin_ui/backend/api/outbound.py` | SQLite campaigns, leads, attempts; maps attempt→meta, channel→meta; the StasisEnd guard set; retry tasks | scheduler tick (watchdog, capacity, lease, originate), answer, AMD result, rejection, ChannelDestroyed, session end; operator requests from another process | handlers of one channel interleave; lost events and answers; crash with live channels; operator races | no automatic redial, fail-closed lead context, capacity, every attempt closed, outcomes not overwritten |
| TTS gating and playback | `src/core/session_store.py`, `src/core/conversation_coordinator.py`, `src/core/playback_manager.py`, `src/engine.py` | gating tokens, `tts_playing`, `audio_capture_enabled`, playback table, fallback timers | play, PlaybackFinished, fallback timer, barge-in, hangup | barge-in during a play request, events that never come, overlapping playbacks | capture is off exactly while a token is held, and comes back |
| No-input watchdog | `src/core/no_input_watchdog.py`, `src/engine.py` | per-call state, generation, deadline task | caller and agent activity, check-ins, forced terminal hangup | activity racing the deadline and the check-in that is being spoken | terminal at most once, only after all check-ins, never during speech |
| Call media lifecycle | `src/audio/transports/lifecycle.py` | task and phase of each call's media setup | attach with retries, abort, cleanup | timeout and hangup during attach | abort exactly once, nothing attached to a dead call |
| Call setup and cleanup | `src/engine.py` (`_handle_caller_stasis_start_hybrid`, `_cleanup_call`) | session, bridge, channels, providers | StasisStart, StasisEnd, ChannelDestroyed, cleanup | cleanup entered from several events; abandoned calls | each resource released once, one history row |
| Session store | `src/core/session_store.py` | sessions, indices by channel, playbacks | lookups and updates under one lock | none of its own: the lock bodies have no await | indices agree with sessions |
| Streaming playback | `src/core/streaming_playback_manager.py`, `src/audio/transports/asterisk_websocket.py`, `src/engine.py` | stream, jitter buffer, provider queue, output generation and admission, boundary futures, segment tokens | provider audio in, paced frames out, end of a segment, barge-in (FLUSH fenced by MARK), drain observer | two barge-ins at once, frames in flight across a flush, late answers, backpressure | nothing stale is heard, capture gated while Asterisk plays and reopened after, boundaries true |
| ARI client | `src/ari_client.py` | websocket, running flag, reconnect backoff, handlers | connect, listen, reconnect, REST commands | reconnect racing stop, lost events | one listener, no event handled twice |
| Deferred, attended and live-agent transfers | `src/tools/telephony/`, `src/engine.py` | `current_action` and the saved capture in the session, the agent leg's mapping and digit, the timeout guard | ask, screen the caller, dial, announce, accept or decline, bridge, cancel, time out, pickup, cleanup | the caller, the agent, the guard, a cancellation and the cleanup act on one shared session; two channels' events | the caller ends with the AI or an agent, heard, without music; no leg forgotten |
| VICIdial integration | `src/core/vicidial_store.py`, `src/core/vicidial_lifecycle.py`, `src/integrations/vicidial.py` | mappings, external sessions, pending finalisation | call control, disposition, finalisation with retries | finalise twice, crash between control and record | each external call finalised once |
| Audio gating manager and VAD | `src/core/audio_gating_manager.py`, `src/core/vad_manager.py` | per-call gate state, energy windows | frame in, decision out | thresholds, echo | no gate left closed |
| Call history | `src/core/call_history.py` | SQLite rows, dedupe by call id | save, post-call phases | save raced by post-call updates | one row per call |
| Conversation pipelines | `src/pipelines/` | adapters per role, per-call sessions | resolve, open, transcribe, respond, speak | cancellation, provider failure | no session leaked |
| AI providers | `src/providers/` | a websocket and a turn state per call | audio in and out, tool calls, reconnect | provider specific | out of scope: protocols of third parties |
| Tools and MCP | `src/tools/`, `src/mcp/` | registry, server processes | call, timeout, restart of a server | restart racing a call | one result per call |
| Transport orchestrator and codecs | `src/core/transport_orchestrator.py`, `src/audio/`, `src/rtp_server.py` | per-call profile, sockets | negotiation, framing, resampling | byte formats | pure data, a matter for unit tests |
| Configuration | `src/config.py`, `src/config/`, `src/config_apply.py` | settings | load, normalise, apply | - | not modelled |
| Admin UI, local AI server, CLI, updater | `admin_ui/`, `local_ai_server/`, `cli/`, `updater/` | - | HTTP services and tools around the engine | - | only the Admin UI's outbound requests are modelled |

Deferred transfers, VICIdial, call history and cleanup all meet in `_cleanup_call`
(`engine.py:10078`); the session object is shared by every handler of the call, which is
why so many hazards read it before an await and write it after one.

## 2. Plan

Ordered by how much of the engine's own promise a module carries. Modules with theorems
declare no RECURSIVE operator, keep one action per operation and state invariants as
conjunctions of named parts.

| # | Modules | What | State |
|---|---|---|---|
| 1 | `OutboundDialer`, `MCOutboundDialer`, `OutboundDialerProofs` | the campaign dialer against Asterisk, the operator and crashes | done |
| 2 | `CaptureGate` (abstract), `TtsGating`, `MCTtsGating`, `TtsGatingProofs` | file playback and the microphone gate; implements `CaptureGate` | done |
| 3 | `NoInputWatchdog`, `MCNoInputWatchdog`, `NoInputWatchdogProofs` | the inactivity policy, its task, the terminal hangup | done |
| 4 | `VicidialFinalization`, `MC...`, `...Proofs` | dispositions, terminal control, the durable outbox, engine stops | done |
| 5 | `CallLifecycle`, `MC...`, `...Proofs` | setup of a call and its media against its re-entrant cleanup | done |
| 6 | `StreamingOutput`, `MC...`, `...Proofs`, `StreamingVoiceProofs` | continuous streaming over the media WebSocket against barge-ins | done |
| 7 | `AttendedTransfer`, `MC...`, `...Proofs` | attended transfers of one call, with guard, cancellation and cleanup | done |
| 8 | `AriReconnect` | backoff, connect and stop of the listener | to do |
| 9 | `DeferredTransfer` | the announcement before a transfer, its commit and its cancellation by the caller's speech | to do |
| 10 | the pipelines' turn loop, MCP restarts | | to do |

The MC modules only give the parameters their symmetry or nothing at all; the values are in
the `.cfg` files. `CaptureGate` is the abstract specification of what shares the microphone;
the other promises are invariants and `~>` formulas of the modules themselves.

Every safety property of a passing run is stated by a theorem (section 11). What is open is in
rows 8 to 10.

## 3. Outbound campaign dialer

`OutboundDialer.tla` models one campaign: the SQLite rows (`campaign`, `lead`, `att`),
the engine's maps (`metaA`, `metaC`, `awaiting`, `stale`), one variable per kind of task
(`sched`, `hnd`, `amdh`, `dst`, `retry`, `sess`) and Asterisk's channels (`chan`,
`ctxOk`). A task variable is a program counter at the await where the task stands, with
the locals it carries over the await.

| Actions | Code |
|---|---|
| `TickBegin` … `ScanProbe`, `StaleFinish`, `StaleLead` | one tick of `_outbound_scheduler_loop`, its watchdog over tracked attempts (`engine.py:3001-3057`, `3419-3499`) |
| `TickList`, `TickDecide`, `MarkCompleted`, `Lease`, `Recheck` | capacity, completion, leasing (`2512-2586`, `3050-3141`, `outbound_store.py`) |
| `CreateAttempt` … `OriginateLost`, `RefusedLead` | `_outbound_originate_lead` (`3143-3350`) |
| `Ans*` | `_handle_outbound_answered`: recovery of lost meta, context confirmation, the hop to AMD (`3512-3717`) |
| `Rej*`, `RetryHangup` | the fail-closed rejection and its retry owner (`2075-2292`) |
| `Amd*` | `_handle_outbound_amd_result` (`3719-3895`) |
| `Destroyed*` | `_handle_channel_destroyed` for outbound channels (`3897-3977`) |
| `SessionIds`, `SessionEnds`, `Persist*` | the AI session and its end in `_persist_call_history` (`10837-10984`) |
| `Crash`, `Restart` | the process dies; the startup cleanup (`1117-1133`) |
| `SetStatus`, `CancelLead`, `IgnoreLead`, `RecycleLead` | the Admin UI's requests |
| `Answer`, `AmdReturn`, `ChannelDies` | Asterisk |

Outcomes are classes, not texts: what the properties tell apart is who wrote an outcome.
Other data (numbers, names, recordings, calling windows, pacing) is left to
nondeterminism.

Fault switches. `HistoryMayFail`: call history is disabled or its save fails.
`StaleMayRace`: an attempt may become stale while its call goes on. With the default of
120 s (`AAVA_OUTBOUND_ATTEMPT_STALE_SECONDS`) that takes a ring of 60 s, AMD, consent and a
voicemail of 30 s, or a shorter setting. `LossyAri`: the websocket breaks and an event or an answer
is lost. Bounds: `Attempts` (rows that can be created), `MaxOps` (operator requests),
`MaxCrashes`.

| Run | Instance | Shows |
|---|---|---|
| `outbound_faults` | one lead, two attempts, one crash, every fault | `TypeOK`; `NoAutoRedial`: a lead is dialed at most once more often than it was recycled; `FailClosed`: no session without confirmed context; `RejectedIsOwned`: a rejected call that is up has a handler or a retry owner; `GuardReleased`: the StasisEnd guard of a finished call comes down, however the hop's answer and ChannelDestroyed are ordered or lost |
| `outbound_capacity` | one lead, two attempts, one slot, one operator request (707 thousand states), no crash, lost answer or stale race | `CapacityRespected`: never more than `max_concurrent` attempts in flight (a session, or an open attempt whose channel lives); `CompletedIsQuiet`: the engine completes a campaign only with no attempt open |
| `outbound_liveness` | one lead, one attempt, one operator request, stale races | `AttemptCloses`: every attempt is closed in the end |

Why these bounds are enough to be interesting: a redial needs one lead and a second
attempt; a capacity overrun needs one slot and two attempts, and a lead that is recycled in
the middle of its call competes with itself as a second lead would (the instance with two
leads was checked too: 4.7 million states, no violation); a handler race needs one
channel, because handlers of different channels share no row and no map entry but the
scheduler's count. The operator and the crash meet in the proofs, which have no bounds, and
not in one TLC instance, which would not finish.

`GuardReleased` has one exception, kept as history (`late`): the hop whose answer is lost after
ChannelDestroyed was handled raises the guard for a channel that has no event left to lower it
(section 10).

Fairness: the event loop runs every task that can run (weak fairness of the scheduler and
of each handler); the probe of a suspected channel is answered if it is asked again and
again (strong, since each tick asks anew and each may fail); every ring times out and every
call ends; clocks advance; a crashed engine is restarted (its container restarts it).
Nothing obliges an operator.

Not modelled: a write to SQLite that fails (the handlers log it and go on), campaign CRUD, CSV
import, lead deletion, several campaigns at once, consent and voicemail media.

## 4. TTS gating and playback

`TtsGating.tla` models the file playback of one call. `session` holds the fields that
matter (`tts_tokens`, `tts_playing`, `audio_capture_enabled`) and whether it is in the
store, `refs` is the store's playback table, `task[p]` is where a `play_audio` call stands,
`timers` the armed fallback timers, `barge[b]` the playbacks a barge-in still has to stop.
Asterisk is a queue of playbacks on one channel (`ari`), with answers (`reply`) and events
(`events`) of its own pace. Store and coordinator methods await nothing that really waits,
so `WithToken` (`set_gating_token`) and `WithoutTokens` (`clear_gating_token`) are functions
used within the handlers' actions.

| Actions | Code |
|---|---|
| `StartPlay`, `FileFails`, `GateAndPost`, `GateFails`, `Started`, `NotStarted` | `play_audio`, cut at the file write and the request (`playback_manager.py:104-195`) |
| `OnPlaybackFinished`, `GatingFallback` | the event and the timer; both take the playback out of the table first (`197-245`, `447-506`) |
| `BargeStart`, `BargeStop`, `BargeClear` | `_apply_barge_in_action` (`engine.py:12756-12927`) and the line its pipeline callers add (`11354`, `13359`) |
| `BeginCleanup`, `Cancelled`, `RemoveCall` | `_cleanup_call` and the task it cancels (`10202-10300`, `10717`) |
| `Accept`, `Refuse`, `Begin`, `Finish`, `HangUp` | Asterisk, from how the code uses it |

`CaptureGate.tla` is what a component that shares the gate may rely on: a playback closes
it once, it opens exactly when the last holder lets go, and every holder lets go. The
refinement mapping (`Holders`, `Spent`, `Open`) ends the gate with the removal of the call,
because the session object a barge-in may put back belongs to nobody.

`tts_gating` (two playbacks, one barge-in, lost events and answers, 137 thousand states):
`TokenOwned`, that each token has an open request, an armed timer or the running cleanup to
give it back; `PlaybackCovered`, that a playback which is heard holds its own token, but for
three named excuses (a barge-in took it, the answer to its request was lost, it waited
behind another playback); `GateKept`, the refinement with its liveness. Two playbacks are
needed to queue and to overlap; a third adds no new pair. Two barge-ins at once are in the
proofs, which have no bounds.

`Overdue` is an assumption: the timer's margin (0.5 s, or 2.5 s in pipelines) outlasts
Asterisk's own delays, unless the playback waited behind another one. Fairness: what is ready runs,
Asterisk answers a request and plays what it accepted, timers fire, cleanup hangs the
caller up before it removes the call. Barge-ins and hangups are not obliged to happen.

Not modelled: the provider event that clears all tokens (`engine.py:14155-14190`) and
`vad_state`. The tokens of streaming playback are in section 8, the capture overrides of
attended transfers in section 9.

## 5. No-input watchdog

`NoInputWatchdog.tla` models one call: `dog` is `_CallState` (`rest` is
`output_pause_remaining`, `resumed` stands for `last_activity_at > activity_before`),
`runner` is the task `_run` with the timeout and the event of its `wait_for`, and the rest
is what the watchdog hears of: the caller (`talking`), the model (`owed`), the audio on its
way (`air`), an announcement that was asked for (`asked`), the call, a transfer, and the
terminal hangup that the agent and the watchdog share. `since` is history: what was
announced since the caller last gave a sign of life.

Each observer is one step, with its effect on `dog` as a function of its own (`Heard`,
`InputStarts`, `OutputEnds`, …), and each wakes the task through `Tell`. The task moves
with `Wake`, `Expire`, `Lapse`, `Postpone`, `CheckIn`, `Warn`, `CheckInDone`,
`WarningHeard`, `Terminate`, `Requested`. `Expire` and the action after it are two steps
because `wait_for` resumes the task some turns of the loop after its timer; what happens
in between is not seen through the event any more. The engine runs on Python 3.11 (its
`Dockerfile`), whose `wait_for` then reports the timeout.

Time is counted in ticks, and no tick passes while the loop has work for the sleeping task.
Policies are constants; check-ins, window and grace are small in the run and arbitrary in
the proofs. Bounds: `Talk` signs of life, `Solo` unasked agent outputs, `Transfers`, and
`Faults`, the number of turns that end with no audio, lost ends of the caller's speech,
announcements that outlast the wait for them (25 s and more) and hangup requests that fail.

The run `watchdog` (one check-in, window 2, grace 1, two faults and one transfer anywhere,
776 thousand states) shows `HangupEarned`: terminal only after every check-in and the final
warning were announced since the last sign of life, with nobody speaking and no answer owed;
and `Released`: the call of a caller who fell silent ends, also if a hosted agent answers
every silence. `Released` excuses every fault and every transfer (`Excused`): section 10
says what happens to the call then. Two faults are the smallest number that lets one fault
meet the recovery from another.

Fairness: ticks pass (strong, since a tick is only disabled for moments), the loop runs
what is ready, a request is answered, greetings, sentences, answers, audio and transfers
end. A hosted agent's silence turns are taken not to fall into the few turns of the loop in
which the task wakes (`SilenceTurn`); other outputs may.

The guards of the two hangup paths differ from `_no_input_should_pause`: any transfer action
pauses the clock (`Pause`), but only a pending attended transfer or a transferred call keeps the
watchdog and the agent from hanging up (`Transferring`).

Not modelled: `set_suspended` (it has no caller), the coercion of policies, the energy
detector's arithmetic (its verdict is an input), `_run`'s handler for unexpected errors,
VICIdial's branch of the terminal hangup (its finalisation is section 6).

## 6. VICIdial finalisation

`VicidialFinalization.tla` models how one call that a VICIdial dialer owns is disposed of.
`sess` holds the disposition fields of the two session objects there can be, the live call's
and the one the worker rebuilds from a row; `stored` says which the store maps the call to;
`turn` is the holder of the call's lifecycle lock with the await where it stands; `rows` is
the outbox table `vicidial_pending_actions`; `ext`, `booked` and `history` are what the
dialer and the call history have on record. A disposition is a label; the status text that
is sent is a function of it.

| Actions | Code |
|---|---|
| `SetDisposition`, `Workflow*` | the disposition tool and `commit_vicidial_disposition_workflow` (`tools/telephony/vicidial.py:159-335`, `557-785`) |
| `TransferBegin`, `TransferControl` | the external transfer of the call (`338-494`) |
| `AskHangup`, `Finalize*`, `HangupControl`, `Reconcile` | `_finalize_vicidial_call` from the terminal hangup and from cleanup (`engine.py:6054-6516`, `15747-15831`) |
| `Cleanup*` | its part of `_cleanup_call` |
| `Worker*` | the retry worker over the outbox, on a live call and on one whose session is gone (`engine.py:2681-3000`) |
| `Crash` | the engine stops between any two steps |

The database may fail at each use, an HTTP request may take effect although its answer is
lost. The backoff (`next_attempt_at`) is the freedom of the worker to list a pending row at any time.

| Run | Instance | Shows |
|---|---|---|
| `vicidial_faults` | a DNC, a callback, a sale, one engine stop (2.9 million states) | `CommittedIsApplied`, `AckedIsDurable`, `NoDuplicateCallback`, `LiveComplianceFirst`, `CloseAfterHistory`: a compliance request acknowledged to the caller is never lost, never doubled, and is at the dialer before a live call is ended |
| `vicidial_drains` | one sale, one stop, fair | `Drains`: the retained terminal row is worked off (the instance has no compliance rows) |
| `vicidial_owner` | no stop | violation of `OwnerRetained`, section 10 |

Two compliance kinds and a sale are what can replace each other; a stop before and one after
each write are both among the interleavings of one stop, and the proofs take any number.
Fairness: the holder of the lock goes on (weak), the worker's pass comes back and is granted
the lock, and a dialer and a database asked again and again answer at last (strong).

Not modelled: rows without a session snapshot, the HTTP client's retries within one request, call
admission and mapping, field synchronisation, the Admin UI's pages.

## 7. Call lifecycle

`CallLifecycle.tla` models one inbound call with a hosted agent over Asterisk's media
WebSocket: the StasisStart handler (`setup`), the handler of the media leg's own StasisStart
(`aux`), the provider's start (`prov`), the WebSocket server's slot and its disconnect
callback (`slot`, `drop`), and `_cleanup_call` (`clean`), which StasisEnd, ChannelDestroyed,
a closed socket and a failed setup all enter. ARI events are a set from which handlers start
in any order. A request that removes something takes effect in the step that resumes its
sender; one that creates something may be refused, its answer may be lost, and the media leg
may be created after its request was given up (`req = "late"`).

`call_lifecycle` (two attach attempts, 79 thousand states): `NothingLeft`: when cleanup and
setup are over there is no bridge, slot, map entry, provider task or provider instance, with
two named excuses (a media leg that Asterisk creates after the request was given up, `req = "stray"`,
and an instance whose stop was cut by a cancellation, `inst = "cut"`); `Released`: a call
whose caller has gone gives everything back and has its history row, or was abandoned before
its session was registered; `DeadAirEnds`: a registered call is served or its caller let go.
Two attempts let one fail and the other succeed.

Fairness is weak for every task: the loop runs what is ready, Asterisk answers, waits time
out. Assumed: a request to hang up or to destroy a bridge is carried out; cleanup ends
within the 900 s for which a seen channel is remembered; history can be stored; the provider
failure policy is the default `announce_hangup`.

Not modelled: cancellation and timeouts of the media setup (no caller configures them), AudioSocket
and ExternalMedia, a second call, contexts and pipelines, outbound calls (section 3), VICIdial
and transfers inside cleanup (sections 6 and 9), email and webhooks.

## 8. Streaming output

`StreamingOutput.tla` models the agent's voice in continuous-stream mode over the media
WebSocket: the binding with its generations, admission, transition lock and waiters (`bind`,
`tlock`), Asterisk's queue and its late answers (`queue`, `acks`), the stream and its pacer
(`strm`, `pacer`, `src`), the tasks that interrupt it (`barge`, `abt`), and the gating of the
segments (`tokens`, `segOn`, `gates`, `drain`).

| Actions | Code |
|---|---|
| `ProvChunk`, `ProvDone` | the provider's audio and end-of-segment events (`on_provider_event`, `engine.py:14539-14939`) |
| `StreamStarts` | a stream for the provider's queue, with a gating token of its own (`start_streaming_playback`, `streaming_playback_manager.py:677-842`) |
| `Pacing`, `TimesOut` | the pacer: admission, START, frames, the boundary's STOP (`streaming_playback_manager.py:1213-1774`, `audio/transports/asterisk_websocket.py:315-404`) |
| `BargeBegins`, `Barging` | `_apply_barge_in_action`, `stop_streaming_playback`, `abort_output` (`engine.py:12756-12877`, `asterisk_websocket.py:406-471`) |
| `GateTask`, `DrainDone`, `DrainTimesOut` | the completion of a boundary (`streaming_playback_manager.py:3787-3823`) and the drain observer (`engine.py:1645-1768`) |
| `Asterisk`, `Xoff`, `SocketCloses` | Asterisk, from the protocol the code speaks |

`streaming_output` (two gated responses, three chunks, two barge-ins of which one is the
provider's own event task, responses longer than the drain's 30 s; 1.28 million states):
`StopSilences`, `NothingLate`, `PlayoutCovered`, `BoundaryHonest`, `StreamPlays`, `NotStranded`
and the liveness of `CaptureReopens`. `streaming_restart`: section 10. Two responses are needed
for a boundary that answers late; two interruptions for one that hits its successor's stream;
three chunks for audio before, between and after them. A response that resumes on a new stream
after a barge-in is gated by that stream's token, although its segment was gated before. Excuses
kept as history: `hist.bare`, the audio of a stream whose tokens are cleared by a barge-in that
began before the stream (`BargeClears` clears every token of the session) or by the drain
observer's timeout; and `hist.cut`, a stream hit by a barge-in that began before it: its audio
may be flushed and the provider's queue taken from it, but `StreamPlays` demands its pacer all the
same. That is why no action is an abort of the pacer's own (`streaming_playback_manager.py:1250-1254`,
a frame that failed without a stop): the lock is fair and a stop marks the stream in the step that
asks for the lock, so a later stream's output begins behind the fence and only a closed socket
refuses its frames, where `abort_output` returns at once. Fairness: the loop runs what is ready, Asterisk plays and answers, timeouts
fire; no barge-in is obliged to happen, and backpressure (`Xoff`) may last.

Not modelled: AudioSocket and RTP output, the plain control format, providers with native
gating, stops by pipelines and by the end of a call, cancellation during the FLUSH's send,
coalescing, output suppression, keepalives, and a pacer that dies of a conversion error.

## 9. Attended transfer

`AttendedTransfer.tla` models the attended transfers of one call. The session and its
`current_action` are one shared object: whoever holds it sees later changes, and a save puts
it back into the store even after it was removed. An ARI request is carried out when its
await ends. `orig`, `guard`, `job["ans"]`, `job["end"]`, `cancel` and `clean` are the tasks;
`mapped` and `digit` the engine's maps of the agents' legs.

| Actions | Code |
|---|---|
| `Ask`, `Screened`, `ScreeningFails`, `Dial`, `Rings`, `DialFails`, `Originated` | `attended_transfer.py`: commit, caller recording and its failure, the originate request and its failure |
| `Answers`, `PickedUp`, `ScreenFails`, `AsksDigit`, `Presses`, `Decides`, `Connects`, `Joins` | `_handle_attended_transfer_answered` and `_attended_transfer_finalize_bridge` (`engine.py:7901-9420`) |
| `EndHandled`, `AbortHangsUp`, `AbortResumes` | the end of a leg in `_cleanup_call` (`10090-10150`), `_attended_transfer_abort_and_resume` |
| `GuardWakes` … `GuardClears` | the timeout guard, which looks once |
| `RingsOut`, `LegEnds` | Asterisk gives up ringing; the agent hangs up or cannot be reached |
| `CancelBegins` … `CancelClears` | `cancel_transfer.py` |
| `CallerHangsUp`, `Cleanup*` | the call's cleanup, which cancels the tasks of the call and hangs up the leg that the action names |

`attended_transfer` (two transfers, the first with a recording of the caller; two incidents
out of failed dials and screenings, speech at the request, hangups of agent or caller,
cancellation, pickup, lost bridging, and a transfer that is asked for while the other is still
under way; timeouts and digits are free; 638 thousand states):
`LegEndSpares`: only the caller or a leg that answered ends the call; `CallerHeard`: a caller
left with the AI has an open microphone; `CallerServed`: the caller has the AI or an agent;
`LegsOwned` and `NoMappingLeft`: no leg is forgotten, none stays mapped to a call that is gone;
`PendingSettles` and `MusicStops`: a transfer is decided or given up, and the music ends. Two
transfers are needed for what the first leaves to the second; two incidents for a fault during
the recovery from another. The proofs have no bound.

`Ask` is refused only while an action waits for its decision, as `get_tool_block_response` does
(`tools/context.py:140-192`): once a decision is persisted, or the action has been cleared, the
next transfer may be asked for while tasks or legs of the last one are still at work.

Excuses, kept as history: `hist.deaf` (a failed dial or screening restores the capture as the
AI's own speech had closed it; a dial after its action was cancelled); `hist.alone` (bridging failed
and its result is not looked at, `engine.py:9401`; the agent was bridged although the action
had been cleared); and `hist.crossed` (a task of one transfer wrote the action of a later one,
unmapped its leg, or the end of its leg was taken for that of the other). Section 10 says what
the code then does. `hist.up` and `hist.raced` are the legs that answered, the second while their
transfer was being given up. Assumptions: `Returned`, that an ARI request begun before the
announcement has returned after it; a pickup happens after the originate request has returned.
Fairness is weak for every task.

Not modelled: the deferral of a transfer until its announcement was spoken, predial, blind and
live-agent transfers, the save of the AI briefing, helper media, a request to stop the music
that is lost.

## 10. Divergences

Behaviours of the code that a comment or a document of the repository denies. Two are runs
whose counterexample shows them.

- `vicidial_owner`: `_queue_vicidial_terminal_retry` says that the terminal request is retained
  whatever the status of its row, and enqueueing reopens only canceled rows. A row completed as
  stale by the worker is then taken for the owner of the next hangup, with nothing pending
  behind it (`engine.py:6065`: "Establish durable ownership before attempting terminal control").
- `streaming_restart`: of two overlapping barge-ins the first removes the stream, the provider's
  next chunk starts another, and the second, begun on the old stream, flushes the new one's
  output and pops its provider queue; later audio goes to a queue that no stream reads
  (`engine.py:12819`: "Ensure subsequent provider audio can restart playback cleanly").

Met with the same models, and not kept as runs of their own:

Outbound campaign dialer
- ChannelDestroyed reads the rejection marker, awaits, and overwrites the outcome that the
  rejection wrote meanwhile.
- When call history is disabled or cannot be saved, the end of a call leaves its attempt open,
  and the watchdog later records a human call as no_answer.
- A ChannelDestroyed that settles the lead before the HUMAN branch writes in_progress leaves the
  lead in progress until an operator recycles it (`engine.py:3872`).
- After a restart the calls of the previous process are up and not counted:
  `CapacityRespected` fails with `MaxCrashes = 1`, two leads and one slot.
- The startup cleanup closes only attempts older than the stale timeout; a younger one is in
  no map and never closed: `AttemptCloses` fails under `FairSpec` with `MaxCrashes = 1`.
- An indeterminate hop whose answer fails after ChannelDestroyed was handled raises the StasisEnd
  guard, and nothing lowers it until a restart, though the guard is released "so indeterminate
  handoffs do not leak channel IDs" (`engine.py:3904`): `GuardReleased` excepts the attempts of
  `late` and fails without the exception. A ChannelDestroyed that is lost leaves the guard up
  until then too; the property speaks of one that was handled.
- An operator's stop between the engine's check and `set_campaign_status(completed)` is overwritten;
  `CompletedIsQuiet` is only about the attempts.
- `recycle_lead` does not look at the state of the lead, though its docstring names the states
  it is allowed from.

Playback and watchdog
- A barge-in that waits for Asterisk while the call is removed saves its stale session back
  into the store.
- The playback requested while a barge-in stops the others keeps playing with the microphone
  open, and so does one that waited behind another until its timer ran out: the first and third
  excuse of `PlaybackCovered` are needed (drop one, and `tts_gating` shows the behaviour).
- `docs/Configuration-Reference.md:497`: "The engine-level watchdog prevents an answered call
  from remaining open indefinitely when the caller stops responding." Without `Excused`, one
  fault or one transfer refutes `Released`: a turn that ends without audio leaves `processing`
  set and the clock stands; a lost end of the caller's speech leaves `input` set; a refused
  hangup is not looked at and the terminal guard stays; and the watchdog makes itself terminal
  before it asks for the hangup, which a pending transfer suppresses, so that nobody watches
  after that transfer is cancelled.
- A sign of life between the timeout and the task's next turn does not stop the check-in
  (the step from `Expire` to `CheckIn` does not look at the deadline again).
- A transfer that begins while a prompt is synthesised does not stop the prompt: the
  caller on hold hears it (`OwnStarts` after `TransferBegins`).

VICIdial
- The terminal row left by an earlier failed hangup is replayed by a rebuilt session before the
  acknowledged DNC is applied (`engine.py:6259-6261` says compliance comes first).
- `docs/Vicidial-Setup.md:409`: "DNC and callback side effects are deferred until terminal
  completion"; the worker replays them within its 5 s.
- The worker's finalisation on a live session between the history's save and the session's
  removal leaves the history unfinalised and saves the removed session again.

Call lifecycle
- When creating or joining the bridge fails before the session is registered, the bridge is
  leaked and the caller is left on the line: `force_caller_hangup=True` (`engine.py:7146`) has no
  effect without a session. `DeadAirEnds` therefore speaks of registered calls.
- A profile that is saved after cleanup's removal puts the session back (`engine.py:4884-4886`
  says "never resurrect the detached session").

Attended transfer
- The guard, `cancel_transfer` and the abort unregister the leg and then await its hangup; if it
  answers meanwhile its StasisStart registers it again and marks the action answered, and its end
  tears the caller's call down, which the order is said to prevent (`engine.py:7971` and `9263`,
  `cancel_transfer.py:111`). `LegEndSpares` counts such a leg, one of `hist.raced`, among those that
  answered, and fails without it.
- Tools are allowed again once a decision is persisted (`tools/context.py:93`, `176`), so a second
  transfer may start while the first is being undone. The undoing then clears the second's action, a
  late answer of the first's originate request writes its leg into that action, and the end of the
  first's leg is taken for the end of the second's: `LegEndSpares`, `CallerServed`, `LegsOwned` and
  `MusicStops` fail on the run's instance without `hist.crossed`, `CallerHeard` with a third
  incident.
- A cancellation while the leg is being dialled does not stop it: the agent is connected anyway,
  and the action is cleared, so that the agent's hangup leaves the caller alone.
- `finalize_bridge`, `cancel_transfer` and the guard save a removed session again
  (`engine.py:9312`: "Never reinsert a removed call session").
- A leg that answers between the cleanup's reading of the action and the removal of the session
  stays up: the handler does not look at `cleanup_in_progress` (`LegsOwned` speaks of live calls).

## 11. Proofs

All theorems are about `Spec`, for every value of the constants that meets the named
assumptions of the module: `MaxConcurrentAssumption`, `NoneAssumption`, `BoundsAssumption`,
`SwitchAssumption` (dialer); `PolicyAssumption`, `BoundAssumption` (watchdog); `NamesAssumption`
(VICIdial: a label means one thing); `AttemptsAssumption` (lifecycle: at least one attempt);
`BargersAssumption`, `BoundsAssumption` (streaming; the transfers have one of that name too). The
bounds of the TLC runs play no part in them.

`OutboundDialerProofs`
- `TypeCorrect`. Each group of actions keeps the shapes; the guards of `SchedHolds` and
  `AmdHolds` are part of `TypeOK` because later steps apply functions to what a task holds.
- `NoAutoRedialHolds`, by `DialBudget`. The property alone is not inductive: it does not say
  that a queued lead still has a dial to spare, nor that a decided dial already counts.
- `FailClosedHolds`, by `GateHeld`: nothing between the gate and a session has missed the
  confirmation, whichever task carries it.
- `RejectedIsOwnedHolds`, by `OwnershipHeld`: an attempt is dialed once, a handler means an
  answered channel, ChannelDestroyed a dead one. It is stated for runs without a crash, as
  the retry owner is a task and dies with the process.
- `GuardReleasedHolds`, for any faults and any number of crashes, by `CallsHeld` and `GuardHeld`.
  `CallsHeld` is the path of one call: which handler may be where given the channel, the row and
  the session. On it, a guard that outlives the handling of ChannelDestroyed belongs to the
  request that raised it and is still out, or to one of `late`.
- `CapacityHolds`, under `~LossyAri` and `~StaleMayRace`, up to the first crash. The engine
  counts a map (`metaA`), the property counts channels and sessions; neither alone is inductive.
  `WatchesHeld` says that the stale watchdog closes only what is over, hence `CountedAll`: whoever is
  engaged in a call is in the map. Then `Slots`: past the capacity check one slot is free, which
  stays so because only the scheduler dials (`Tried` makes the counted sets finite for every
  `Attempts`, finite or not).
- `CompletionHolds`, under the same switches and `MaxCrashes = 0`, from the part of `Slots` on a
  tick that found the campaign quiet. The switches are those of the `outbound_capacity` run: a
  lost answer leaves a channel that no map knows, a stale race drops a live call from the map,
  and a crash empties it while Asterisk goes on. These are limits of the code, not of the proof.

`TtsGatingProofs`, by one inductive invariant `GatingHeld` with five parts: `TypeOK`;
`GateAgrees` (in a call not removed, `tts_playing` and capture say whether there is a token);
`TokenOwned`; `Reported` (no event before a playback is over); `Covered` (a playback posted
or queued already holds its token, which is what makes `PlaybackCovered` inductive).
- `TypeCorrect`, `TokenOwnedHolds`, `PlaybackCoveredHolds`.
- `GateImplemented`: `Spec => Gate!Safety`, each step being a step of `CaptureGate` or a
  stutter. A barge-in's clearing is one `LetGo` of all tokens.

`NoInputWatchdogProofs`
- `TypeCorrect`: no deadline exceeds `Window + Grace`, check-ins stay within the policy.
- `HangupEarnedHolds`, by `Earned`: check-ins counted never exceed those announced since
  the last sign of life; a terminal state has no timer task; and all that the property says
  holds from the moment the final warning goes unanswered.

`VicidialFinalizationProofs`, for any number of engine stops, callbacks and sales
- `TypeCorrect`, `Committed`, `Durable`, `NoDuplicates`, `ComplianceBeforeControl` and the action
  property `HistoryBeforeClose`. The invariants lean on each other: what is committed is booked
  only because a workflow marks it after the dialer's answer, what is acknowledged survives only
  because the row is written before the session is changed, and a retry repeats nothing because
  the request asks the dialer before it writes.

`CallLifecycleProofs`, by `LifecycleHeld`: who may act (`Guarded`), what each name in the session
and the maps stands for (`Named`, `Listed`), and what each step of the cleanup leaves released for
good (`ProviderStopped`, `BridgeGone`, `LegGone`, `SlotGone`).
- `TypeCorrect`, `NothingIsLeft`.

`StreamingOutputProofs`, for any set of tasks that interrupt
- `TypeCorrect`.
- `StaleWritersAreSilent`, by `Ordered`: every frame and marker in Asterisk's queue is dated by a
  generation that only grows (`Dated`), and an open generation has no marker behind it (`Open`).
- `FenceIsLeft`, by `FencesHeld`: whoever closed the admission is the one that waits.

`StreamingVoiceProofs`, what is heard; for any number of tasks that interrupt, segments, chunks
and barge-ins, without further assumptions. The invariants are built in layers, each inductive
with those below it.
- `StoppedIsSilent`. `StopSilences` compares the queue with stops long past, so the invariant
  says what the queue may hold at all: `Locked` (one abort at a time, the head of the lock),
  `Streams` (who stopped the present stream; no number is from the future), `Voice` (on a live
  socket only the present stream's present generation is queued, and an answer for it means
  that nothing is).
- `UnstoppedPlays`, by `InTurn` (the lock is taken in order: an interruption that does not stop
  the stream is ahead of the pacer, and nothing was begun) and `Plays` (the pacer and the output are
  in step unless somebody stops).
- `CompleteMeansPlayed`, by `Segs` (acknowledged, played, held by the pacer, waiting for it, being
  said: segments are in this order) and `Losses` (a stream that lost a frame acknowledges nothing).
- `CaptureIsGated`, by `Gated` (a gating task whose boundary and epoch still match is that of the
  last boundary) and `Covered` (with no token left, all there is to hear was given up).

`AttendedTransferProofs`, for any number of transfers and incidents
- `TypeCorrect`.
- `LegEndSparesHolds`, `LegsOwnedHolds`, `CallerServedHolds` and `CallerHeardHolds`, for transfers
  that may overlap, by `IInv`: what holds always (`Closing`, `Ordered`, `Undoes`), and `Attended`,
  which holds until tasks of two transfers cross. All transfers share one action, and the
  properties are silent on whose it is. `Mannered` says that a step which writes the action for
  a transfer that is not the newest, or unmaps another's leg, sets `hist.crossed`; hence, until
  then, the action is that of the newest transfer and, in a live call, names the leg of it that answered
  (`Named`). `Lives` and `Starts` are the life of a leg. An answered action names a leg that
  answered, so its end may end the call (`Ended`).
  The other three speak of a call at rest, so each needs to know what will happen while it is not.
  `Owned` says that a leg up without a handler is `Joined`: bridged, or with an end still to be
  handled that will end the call, since the action and the mapping say so and nothing is left
  that would change either. `Answering` is what must hold on the way there: a leg being screened
  stays mapped, and nothing undoes a transfer once it is accepted. `Reopens` says that while the AI
  does not hear its caller something is left that reopens the capture: an announcement, an
  undoing, an aborting handler, or a transfer that is dialled, answered (`Underway`) or whose guard
  is due; `Remembered` that whoever dials still knows what to restore.
- `NoMappingHolds`, overlapping or not, by `Closing`: the cleanup removes the session last, and
  whatever is mapped after that has a sleeping guard, which finds no session and unregisters it.

Each candidate for an inductive invariant was checked by TLC on its run's instance before it was
proved.

Only model-checked: liveness (`AttemptCloses`, `Released`, `Drains`, `DeadAirEnds`,
`CaptureReopens`, `PendingSettles`, `MusicStops`, the fairness part of `GateKept`), since the
prover handles neither ENABLED nor fairness, and both violations. The type invariants of
streaming and transfers are proved and not repeated in a run. No property here needs induction
over data.

## 12. Not modelled

The components of section 1 without a module are either planned (section 2) or have no
protocol of their own: codecs, negotiation and detectors are arithmetic for unit tests, the
session store is atomic under its lock, configuration is read once, and the providers'
protocols are third parties'. Most of the repository's lines are in the Admin UI, the local AI
server and the providers. In the modelled components the parts left out are named at
the end of each section; of the dialer: campaign CRUD, CSV import, lead deletion, several
campaigns at once, consent and voicemail media.
