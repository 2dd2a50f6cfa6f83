--------------------------- MODULE CallLifecycle ---------------------------
(***************************************************************************)
(* One inbound call with a hosted agent over Asterisk's media WebSocket:   *)
(* the StasisStart handler that sets the call up, the handler of the media *)
(* leg's own StasisStart, the task that starts the provider, the WebSocket *)
(* server's slot for the call, and _cleanup_call, which StasisEnd,         *)
(* ChannelDestroyed, a closed socket and a failed setup all enter.         *)
(*                                                                         *)
(* A program counter names the await where a task stands.  ARI events are  *)
(* handled by a task each, in any order.  A request that removes something *)
(* takes effect in the step that resumes its sender; one that creates      *)
(* something may be refused, its reply may be lost, and the media leg may  *)
(* be created after its request was given up.                              *)
(***************************************************************************)
EXTENDS Naturals

CONSTANT AttachAttempts   \* tries to put the media leg into the bridge

ASSUME AttemptsAssumption == AttachAttempts \in Nat \ {0}

VARIABLES caller, media,  \* the two channels at Asterisk
          bridge,
          events,         \* ARI events whose handler has not run yet
          req,            \* the request that creates the media leg
          slot, drop,     \* the server's slot for the call; its disconnect callback is due
          stored, sess,   \* the session is in the store; what it says
          maps,           \* which engine maps know the media leg
          lock,           \* holder of the setup lock
          setup, tries,   \* the StasisStart handler, and its attach attempts left
          aux,            \* the handler of the media leg's StasisStart
          prov, listed, inst,  \* the provider start task, _call_providers, the instance
          clean,          \* the next step of the cleanup that owns the call
          row, seen       \* the history row; _seen_caller_stasis_channels

asterisk == <<caller, media, bridge, events, req>>
server == <<slot, drop>>
session == <<stored, sess, maps>>
provider == <<prov, listed, inst>>
record == <<row, seen>>
vars == <<asterisk, server, session, lock, setup, tries, aux, provider, clean, record>>

Init ==
  /\ caller = "up" /\ media = "none" /\ bridge = "none" /\ events = {} /\ req = "none"
  /\ slot = "none" /\ drop = FALSE
  /\ stored = FALSE /\ maps = {}
  /\ sess = [mid |-> FALSE, conn |-> "none", active |-> FALSE, cleaning |-> FALSE]
  /\ lock = "none" /\ setup = "answer" /\ tries = AttachAttempts /\ aux = "none"
  /\ prov = "idle" /\ listed = FALSE /\ inst = "none" /\ clean = "no" /\ row = "none" /\ seen = TRUE

-----------------------------------------------------------------------------
\* Asterisk.

Ends(c) == {<<c, "StasisEnd">>, <<c, "ChannelDestroyed">>}

HangUpCaller ==
  /\ caller' = "gone" /\ events' = IF caller = "up" THEN events \cup Ends("caller") ELSE events

\* A 404 for a leg that is not there counts as done.
HangUpMedia ==
  /\ media' = IF media = "up" THEN "gone" ELSE media
  /\ events' = IF media = "up" THEN events \cup Ends("media") ELSE events

CallerLeaves ==
  /\ caller = "up" /\ HangUpCaller
  /\ UNCHANGED <<media, bridge, req, server, session, lock, setup, tries, aux, provider, clean, record>>

MediaDrops ==
  /\ media = "up" /\ HangUpMedia
  /\ UNCHANGED <<caller, bridge, req, server, session, lock, setup, tries, aux, provider, clean, record>>

\* externalMedia is executed, in time or after the engine has given the request up.
CreateMedia ==
  /\ req \in {"sent", "late"} /\ media = "none"
  /\ media' = "up" /\ events' = events \cup {<<"media", "StasisStart">>}
  /\ req' = IF req = "sent" THEN "done" ELSE "stray"
  /\ UNCHANGED <<caller, bridge, server, session, lock, setup, tries, aux, provider, clean, record>>

\* _bind_media_start: the leg's socket names the nonce of the slot.
MediaStart ==
  /\ media = "up" /\ slot = "open" /\ slot' = "bound"
  /\ UNCHANGED <<asterisk, drop, session, lock, setup, tries, aux, provider, clean, record>>

\* The socket closes: before MEDIA_START it fails the slot, after it _close_binding reports it.
SocketCloses ==
  /\ \/ slot = "open" /\ media # "none" /\ slot' = "failed" /\ drop' = drop
     \/ slot = "bound" /\ slot' = "failed" /\ drop' = TRUE
  /\ UNCHANGED <<asterisk, session, lock, setup, tries, aux, provider, clean, record>>

-----------------------------------------------------------------------------
\* What the handlers share.

\* _media_session_is_active
IsActive == stored /\ ~sess.cleaning

\* _websocket_setup_is_owned
IsOwned ==
  /\ IsActive /\ sess.mid /\ "owner" \in maps
  /\ sess.conn \in {"pending", "bridge_attached", "ready"}

\* unregister_call: a bound slot is closed with its callback.
Unregister == slot' = "none" /\ drop' = (drop \/ slot = "bound")

\* Mutant of Enter: a call that ends before its session is registered leaves no row.
EnterUnrecorded(c, s) ==
  /\ sess' = IF stored /\ clean = "no" THEN [s EXCEPT !.cleaning = TRUE] ELSE s
  /\ clean' = IF stored /\ clean = "no" THEN "provider" ELSE clean
  /\ UNCHANGED <<stored, record>>

\* _cleanup_call up to its guards, for a session that is s by now: the first to enter owns the
\* cleanup.  Without a session the end of a caller's channel leaves an abandoned row, once.
Enter(c, s) ==
  /\ sess' = IF stored /\ clean = "no" THEN [s EXCEPT !.cleaning = TRUE] ELSE s
  /\ clean' = IF stored /\ clean = "no" THEN "provider" ELSE clean
  /\ IF ~stored /\ c = "caller" /\ seen
       THEN row' = (IF row = "none" THEN "abandoned" ELSE row) /\ seen' = FALSE
       ELSE UNCHANGED record
  /\ stored' = stored

-----------------------------------------------------------------------------
\* _handle_caller_stasis_start_hybrid, until the session is registered.

\* The transport is not admitted: the caller is hung up.
NotAdmitted ==
  /\ setup = "answer" /\ setup' = "done" /\ HangUpCaller
  /\ UNCHANGED <<media, bridge, req, server, session, lock, tries, aux, provider, clean, record>>

CreateBridge ==
  /\ setup = "answer"
  /\ bridge' = "up" /\ setup' = "join"
  /\ UNCHANGED <<caller, media, events, req, server, session, lock, tries, aux, provider, clean, record>>

\* Asterisk has put the caller into the bridge; the answer is on its way.
CallerJoined ==
  /\ setup = "join" /\ caller = "up" /\ setup' = "joined"
  /\ UNCHANGED <<asterisk, server, session, lock, tries, aux, provider, clean, record>>

\* No bridge, or the caller cannot join it, or a reply is lost: the exception enters a cleanup
\* that finds no session.
NotBridged ==
  /\ setup \in {"answer", "join", "joined"} /\ setup' = "done"
  /\ bridge' \in {bridge, "up"}
  /\ Enter("caller", sess)
  /\ UNCHANGED <<caller, media, events, req, server, maps, lock, tries, aux, provider>>

Register ==
  /\ setup = "joined" /\ setup' = "profile" /\ stored' = TRUE
  /\ UNCHANGED <<asterisk, server, sess, maps, lock, tries, aux, provider, clean, record>>

-----------------------------------------------------------------------------
\* From the session to the media leg.

\* The profile is resolved in many awaits, and the session is saved after some of them.
ProfileSaved ==
  /\ setup = "profile" /\ stored' = TRUE
  /\ UNCHANGED <<asterisk, server, sess, maps, lock, setup, tries, aux, provider, clean, record>>

\* The agent cannot be resolved: a prompt is played and the caller is hung up.
ProfileRefused ==
  /\ setup = "profile" /\ setup' = "announce" /\ stored' = TRUE
  /\ UNCHANGED <<asterisk, server, sess, maps, lock, tries, aux, provider, clean, record>>

Announced ==
  /\ setup = "announce" /\ setup' = "done" /\ HangUpCaller
  /\ UNCHANGED <<media, bridge, req, server, session, lock, tries, aux, provider, clean, record>>

\* prepare_call and create_call up to the request: no await gives the loop away between them.
AskForMedia ==
  /\ setup = "profile" /\ IsActive
  /\ setup' = "post" /\ slot' = "open" /\ req' = "sent"
  /\ maps' = {"pending", "owner"}
  /\ sess' = [sess EXCEPT !.mid = TRUE, !.conn = "pending"]
  /\ UNCHANGED <<caller, media, bridge, events, drop, stored, lock, tries, aux, provider, clean, record>>

\* An exception before the request, or a call that is ending: forced cleanup.
NoMedia ==
  /\ setup = "profile" /\ setup' = "done"
  /\ Enter("caller", sess)
  /\ UNCHANGED <<asterisk, server, maps, lock, tries, aux, provider>>

\* Mutant of MediaCreated: the reply is taken without a look at the call.
CreatedBlindly ==
  /\ setup = "post" /\ req = "done"
  /\ setup' = "attach"
  /\ UNCHANGED <<asterisk, server, session, lock, tries, aux, provider, clean, record>>

\* The reply names the leg.
MediaCreated ==
  /\ setup = "post" /\ req = "done" /\ IsActive
  /\ setup' = "attach"
  /\ UNCHANGED <<asterisk, server, session, lock, tries, aux, provider, clean, record>>

\* The call ended while Asterisk was creating the leg: it is destroyed and forgotten.
MediaTooLate ==
  /\ setup = "post" /\ req = "done" /\ ~IsActive
  /\ setup' = "done" /\ maps' = {}
  /\ HangUpMedia /\ Unregister
  /\ Enter("caller", sess)
  /\ UNCHANGED <<caller, bridge, req, lock, tries, aux, provider>>

\* The request failed, or its reply is lost: only the predetermined leg is deleted.
MediaFailed ==
  /\ setup = "post"
  /\ req' \in IF req = "sent" THEN {"none", "late"} ELSE {req}
  /\ setup' = "done" /\ maps' = {}
  /\ HangUpMedia /\ Unregister
  /\ Enter("caller", IF IsActive THEN [sess EXCEPT !.conn = "failed"] ELSE sess)
  /\ UNCHANGED <<caller, bridge, lock, tries, aux, provider>>

-----------------------------------------------------------------------------
\* The media leg joins the bridge, at the hand of the setup or of its own StasisStart.

Joins(who) ==
  \E added \in BOOLEAN :
    /\ added => media = "up" /\ bridge = "up"
    /\ sess' = IF added /\ IsOwned THEN [sess EXCEPT !.conn = "bridge_attached"] ELSE sess
    /\ IF who = "setup"
         THEN setup' = (IF added /\ IsOwned THEN "wait" ELSE "attach") /\ aux' = aux
         ELSE aux' = "done" /\ setup' = setup

\* Mutant of AttachTry: the attempts are not bounded.
AttachTryAgain ==
  /\ setup = "attach" /\ lock = "none" /\ tries' = tries - 1
  /\ IF IsOwned /\ sess.conn = "pending"
       THEN lock' = "setup" /\ setup' = "adding"
       ELSE lock' = lock /\ setup' = IF IsOwned THEN "wait" ELSE "attach"
  /\ UNCHANGED <<asterisk, server, session, aux, provider, clean, record>>

\* _attach_websocket_media_channel, called by the setup up to AttachAttempts times.
AttachTry ==
  /\ setup = "attach" /\ lock = "none" /\ tries > 0 /\ tries' = tries - 1
  /\ IF IsOwned /\ sess.conn = "pending"
       THEN lock' = "setup" /\ setup' = "adding"
       ELSE lock' = lock /\ setup' = IF IsOwned THEN "wait" ELSE "attach"
  /\ UNCHANGED <<asterisk, server, session, aux, provider, clean, record>>

AttachDone ==
  /\ setup = "adding" /\ lock' = "none" /\ Joins("setup")
  /\ UNCHANGED <<asterisk, server, stored, maps, tries, provider, clean, record>>

AttachGivenUp ==
  /\ setup = "attach" /\ tries = 0 /\ setup' = "done"
  /\ Enter("caller", sess)
  /\ UNCHANGED <<asterisk, server, maps, lock, tries, aux, provider>>

\* _handle_websocket_media_stasis_start
OnMediaStart ==
  /\ <<"media", "StasisStart">> \in events
  /\ IF stored
       THEN aux' = "attach" /\ media' = media /\ events' = events \ {<<"media", "StasisStart">>}
       ELSE /\ aux' = "done"
            /\ media' = IF media = "up" THEN "gone" ELSE media
            /\ events' = (IF media = "up" THEN events \cup Ends("media") ELSE events)
                         \ {<<"media", "StasisStart">>}
  /\ UNCHANGED <<caller, bridge, req, server, session, lock, setup, tries, provider, clean, record>>

AuxTry ==
  /\ aux = "attach" /\ lock = "none"
  /\ IF IsOwned /\ sess.conn = "pending" THEN lock' = "aux" /\ aux' = "adding"
                                          ELSE lock' = lock /\ aux' = "done"
  /\ UNCHANGED <<asterisk, server, session, setup, tries, provider, clean, record>>

AuxDone ==
  /\ aux = "adding" /\ lock' = "none" /\ Joins("aux")
  /\ UNCHANGED <<asterisk, server, stored, maps, tries, provider, clean, record>>

-----------------------------------------------------------------------------
\* Readiness, and the provider.

\* _await_websocket_media_ready
WaitBegins ==
  /\ setup = "wait" /\ lock = "none"
  /\ IsOwned /\ sess.conn = "bridge_attached" /\ slot # "none"
  /\ lock' = "setup" /\ setup' = "waiting"
  /\ UNCHANGED <<asterisk, server, session, tries, aux, provider, clean, record>>

\* Not owned any more, or the slot is gone.
WaitRefused ==
  /\ setup = "wait" /\ lock = "none"
  /\ ~(IsOwned /\ sess.conn = "bridge_attached" /\ slot # "none")
  /\ setup' = "done"
  /\ Enter("caller", IF IsOwned THEN [sess EXCEPT !.conn = "failed"] ELSE sess)
  /\ UNCHANGED <<asterisk, server, maps, lock, tries, aux, provider>>

\* MEDIA_START has come: finalize_call_ready, and the provider's start as a task of its own.
Ready ==
  /\ setup = "waiting" /\ slot = "bound" /\ IsOwned
  /\ lock' = "none" /\ setup' = "provider"
  /\ sess' = [sess EXCEPT !.conn = "ready"] /\ maps' = maps \ {"pending"}
  /\ prov' = "tools" /\ stored' = stored
  /\ UNCHANGED <<asterisk, server, tries, aux, listed, inst, clean, record>>

\* The socket failed, the call is not ours any more, or the wait timed out, which the loop may
\* notice after MEDIA_START.
NotReady ==
  /\ setup = "waiting" /\ lock' = "none" /\ setup' = "done"
  /\ Enter("caller", IF IsOwned THEN [sess EXCEPT !.conn = "failed"] ELSE sess)
  /\ UNCHANGED <<asterisk, server, maps, tries, aux, provider>>

SetupEnds ==
  /\ setup = "provider" /\ prov = "idle" /\ setup' = "done"
  /\ UNCHANGED <<asterisk, server, session, lock, tries, aux, provider, clean, record>>

\* A frame of the caller finds no provider: _kickoff_provider_session_start.
AudioAsks ==
  /\ IsActive /\ sess.conn = "ready" /\ slot = "bound" /\ "owner" \in maps
  /\ prov = "idle" /\ ~listed /\ ~sess.active
  /\ prov' = "tools"
  /\ UNCHANGED <<asterisk, server, session, lock, setup, tries, aux, listed, inst, clean, record>>

\* After the pre-call tools: an ending call gets no provider; else the instance is published.
ToolsDone ==
  /\ prov = "tools"
  /\ IF IsActive THEN prov' = "opening" /\ listed' = TRUE /\ inst' = "open"
                 ELSE prov' = "idle" /\ UNCHANGED <<listed, inst>>
  /\ UNCHANGED <<asterisk, server, session, lock, setup, tries, aux, clean, record>>

ProviderStarts ==
  /\ prov = "opening" /\ prov' = "idle"
  /\ sess' = [sess EXCEPT !.active = TRUE] /\ stored' = TRUE
  /\ UNCHANGED <<asterisk, server, maps, lock, setup, tries, aux, listed, inst, clean, record>>

\* start_session raises: the instance is withdrawn, stopped, and then the caller is told.
ProviderFails ==
  /\ prov = "opening" /\ prov' = "undo" /\ listed' = FALSE
  /\ UNCHANGED <<asterisk, server, session, lock, setup, tries, aux, inst, clean, record>>

ProviderUndone ==
  /\ prov = "undo" /\ prov' = "announce" /\ inst' = "none" /\ stored' = TRUE
  /\ UNCHANGED <<asterisk, server, sess, maps, lock, setup, tries, aux, listed, clean, record>>

FailureAnnounced ==
  /\ prov = "announce" /\ prov' = "idle" /\ HangUpCaller
  /\ UNCHANGED <<media, bridge, req, server, session, lock, setup, tries, aux, listed, inst, clean, record>>

-----------------------------------------------------------------------------
\* The events that enter the cleanup.

OnStasisEnd(c) ==
  /\ <<c, "StasisEnd">> \in events
  /\ events' = events \ {<<c, "StasisEnd">>}
  /\ Enter(c, sess)
  /\ UNCHANGED <<caller, media, bridge, req, server, maps, lock, setup, tries, aux, provider>>

\* The end of a leg that is still being set up is noted on the session first.
OnChannelDestroyed(c) ==
  /\ <<c, "ChannelDestroyed">> \in events
  /\ events' = events \ {<<c, "ChannelDestroyed">>}
  /\ IF c = "media" /\ "pending" \in maps
       THEN maps' = maps \ {"pending"}
            /\ Enter(c, IF stored THEN [sess EXCEPT !.conn = "closed"] ELSE sess)
       ELSE maps' = maps /\ Enter(c, sess)
  /\ UNCHANGED <<caller, media, bridge, req, server, lock, setup, tries, aux, provider>>

\* Mutant of OnDisconnect: the state is noted and the call goes on.
DisconnectNoted ==
  /\ drop /\ drop' = FALSE
  /\ sess' = IF stored THEN [sess EXCEPT !.conn = "closed"] ELSE sess
  /\ UNCHANGED <<asterisk, slot, stored, maps, lock, setup, tries, aux, provider, clean, record>>

\* _websocket_handle_disconnect
OnDisconnect ==
  /\ drop /\ drop' = FALSE
  /\ IF stored THEN Enter("media", [sess EXCEPT !.conn = "closed"])
               ELSE UNCHANGED <<stored, sess, clean, record>>
  /\ UNCHANGED <<asterisk, slot, maps, lock, setup, tries, aux, provider>>

-----------------------------------------------------------------------------
\* _cleanup_call in its owner's hands: what it releases, in its order.

\* The start task is cancelled, wherever it stands, and with it a setup that waits for it.  An
\* instance that was being stopped after a failed start may stay half stopped.
StopProvider ==
  /\ clean = "provider" /\ clean' = "bridge"
  /\ prov' = "idle" /\ listed' = FALSE
  /\ inst' \in IF listed THEN {"none"} ELSE IF prov = "undo" THEN {"none", "cut"} ELSE {inst}
  /\ setup' = IF setup = "provider" /\ prov # "idle" THEN "done" ELSE setup
  /\ UNCHANGED <<asterisk, server, session, lock, tries, aux, record>>

DestroyBridge ==
  /\ clean = "bridge" /\ clean' = "media" /\ bridge' = "gone"
  /\ UNCHANGED <<caller, media, events, req, server, session, lock, setup, tries, aux, provider, record>>

\* The media leg the session knows of by now.
EndMedia ==
  /\ clean = "media" /\ clean' = "caller"
  /\ IF sess.mid THEN HangUpMedia ELSE UNCHANGED <<media, events>>
  /\ UNCHANGED <<caller, bridge, req, server, session, lock, setup, tries, aux, provider, record>>

EndCaller ==
  /\ clean = "caller" /\ clean' = "close" /\ HangUpCaller
  /\ UNCHANGED <<media, bridge, req, server, session, lock, setup, tries, aux, provider, record>>

\* runtime.close_call, and the engine's maps.
CloseMedia ==
  /\ clean = "close" /\ clean' = "history" /\ Unregister
  /\ maps' = IF sess.mid THEN {} ELSE maps
  /\ UNCHANGED <<asterisk, stored, sess, lock, setup, tries, aux, provider, record>>

\* _persist_call_history: the first row of a call stays.
WriteHistory ==
  /\ clean = "history" /\ clean' = "remove" /\ row' = IF row = "none" THEN "full" ELSE row
  /\ UNCHANGED <<asterisk, server, session, lock, setup, tries, aux, provider, seen>>

RemoveCall ==
  /\ clean = "remove" /\ clean' = "done" /\ stored' = FALSE /\ seen' = FALSE
  /\ UNCHANGED <<asterisk, server, sess, maps, lock, setup, tries, aux, provider, row>>

-----------------------------------------------------------------------------
Setup ==
  \/ NotAdmitted \/ CreateBridge \/ NotBridged \/ Register \/ ProfileRefused \/ Announced
  \/ AskForMedia \/ NoMedia \/ MediaCreated \/ MediaTooLate \/ MediaFailed
  \/ AttachTry \/ AttachDone \/ AttachGivenUp \/ WaitBegins \/ WaitRefused \/ Ready \/ NotReady \/ SetupEnds
Aux == AuxTry \/ AuxDone
Provider == ToolsDone \/ ProviderStarts \/ ProviderFails \/ ProviderUndone \/ FailureAnnounced
Cleanup ==
  \/ StopProvider \/ DestroyBridge \/ EndMedia \/ EndCaller \/ CloseMedia \/ WriteHistory \/ RemoveCall
Channels == {"caller", "media"}

Next ==
  \/ CallerLeaves \/ MediaDrops \/ CreateMedia \/ MediaStart \/ SocketCloses
  \/ CallerJoined \/ ProfileSaved \/ AudioAsks
  \/ Setup \/ Aux \/ Provider \/ OnMediaStart \/ OnDisconnect
  \/ (\E c \in Channels : OnStasisEnd(c) \/ OnChannelDestroyed(c))
  \/ Cleanup

Spec == Init /\ [][Next]_vars

-----------------------------------------------------------------------------
SessionType == [mid : BOOLEAN, conn : {"none", "pending", "bridge_attached", "ready", "failed", "closed"},
                active : BOOLEAN, cleaning : BOOLEAN]

TypeOK ==
  /\ caller \in {"up", "gone"} /\ media \in {"none", "up", "gone"} /\ bridge \in {"none", "up", "gone"}
  /\ events \subseteq Channels \X {"StasisStart", "StasisEnd", "ChannelDestroyed"}
  /\ req \in {"none", "sent", "done", "late", "stray"}
  /\ slot \in {"none", "open", "bound", "failed"} /\ drop \in BOOLEAN
  /\ stored \in BOOLEAN /\ sess \in SessionType /\ maps \subseteq {"pending", "owner"}
  /\ lock \in {"none", "setup", "aux"}
  /\ setup \in {"answer", "join", "joined", "profile", "announce", "post", "attach", "adding",
                "wait", "waiting", "provider", "done"}
  /\ tries \in 0..AttachAttempts
  /\ aux \in {"none", "attach", "adding", "done"}
  /\ prov \in {"idle", "tools", "opening", "undo", "announce"}
  /\ listed \in BOOLEAN /\ inst \in {"none", "open", "cut"}
  /\ clean \in {"no", "provider", "bridge", "media", "caller", "close", "history", "remove", "done"}
  /\ row \in {"none", "abandoned", "full"} /\ seen \in BOOLEAN

\* However the cleanup and the setup interleave, when both are over the call has left nothing
\* behind: no bridge, no media leg, no slot, no provider.  Two excuses: a media leg that Asterisk
\* creates after its request was given up, and an instance whose stop was cut short.
NothingLeft ==
  clean = "done" /\ setup = "done" =>
    /\ bridge = "gone" /\ slot = "none" /\ maps = {}
    /\ media = "up" => req = "stray"
    /\ prov = "idle" /\ ~listed /\ inst # "open"

\* A call whose caller has gone gives back all it holds and has a row in the history, if its
\* session was registered before the end of its channel was reported.
Released ==
  caller = "gone" ~> row = "abandoned" \/ (row = "full" /\ clean = "done")

\* A registered call does not stay up without its agent: it is served, or the caller is let go.
Served == media = "up" /\ bridge = "up" /\ slot = "bound" /\ sess.active /\ listed
DeadAirEnds == stored /\ caller = "up" ~> Served \/ caller = "gone"

-----------------------------------------------------------------------------
\* The loop runs what is ready, Asterisk answers, requests and waits time out, provider calls end.
Fairness ==
  /\ WF_vars(Setup \/ CallerJoined) /\ WF_vars(Aux) /\ WF_vars(Provider) /\ WF_vars(Cleanup)
  /\ WF_vars(OnMediaStart) /\ WF_vars(OnDisconnect)
  /\ \A c \in Channels : WF_vars(OnStasisEnd(c)) /\ WF_vars(OnChannelDestroyed(c))

FairSpec == Spec /\ Fairness
=============================================================================
