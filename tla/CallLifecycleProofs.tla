------------------------ MODULE CallLifecycleProofs ------------------------
(***************************************************************************)
(* Theorems about CallLifecycle, for any number of attach attempts.        *)
(*                                                                         *)
(* NothingLeft speaks of the end of a call; what makes it true is what     *)
(* each step of the cleanup leaves for good: nothing that was released can *)
(* be acquired again, because every acquisition asks IsActive first and    *)
(* the cleanup marks the session before it releases anything.              *)
(***************************************************************************)
EXTENDS CallLifecycle, TLAPS

\* The session is marked exactly while a cleanup owns the call, and no cleanup owns a call that
\* is not registered yet.
Guarded ==
  /\ sess.cleaning <=> clean # "no"
  /\ setup \in {"answer", "join", "joined"} => ~stored /\ clean = "no" /\ prov = "idle"

\* A media leg, a request for one and the maps belong to a session that names the leg.
Named ==
  /\ media # "none" => sess.mid
  /\ req # "none" => sess.mid
  /\ maps # {} => sess.mid
  /\ req = "sent" => setup = "post"

\* An instance in use is listed or being stopped by its start task; the first start belongs to
\* a setup that is past its gates.
Listed ==
  /\ inst = "open" => listed \/ prov = "undo"
  /\ prov # "idle" \/ sess.conn = "ready" => setup \in {"provider", "done"}

\* What the steps of the cleanup have released stays released.
ProviderStopped == clean \notin {"no", "provider"} => prov = "idle" /\ ~listed /\ inst # "open"
BridgeGone == clean \notin {"no", "provider", "bridge"} => bridge = "gone"
LegGone ==
  clean \in {"caller", "close", "history", "remove", "done"} /\ media = "up" => req = "stray" \/ setup = "post"
SlotGone == clean \in {"history", "remove", "done"} => slot = "none" /\ maps = {}

LifecycleHeld ==
  TypeOK /\ Guarded /\ Named /\ Listed /\ ProviderStopped /\ BridgeGone /\ LegGone /\ SlotGone

-----------------------------------------------------------------------------
\* Every step keeps the shape of the state.
LEMMA TypeKept ==
  ASSUME TypeOK, [Next]_vars
  PROVE  TypeOK'
  <1>1. TypeOK
    OBVIOUS
  <1>2. CASE CallerLeaves
    BY <1>2, <1>1, AttemptsAssumption DEF CallerLeaves, HangUpCaller, Ends, server, session, provider, record, TypeOK, SessionType, Channels
  <1>3. CASE MediaDrops
    BY <1>3, <1>1, AttemptsAssumption DEF MediaDrops, HangUpMedia, Ends, server, session, provider, record, TypeOK, SessionType, Channels
  <1>4. CASE CreateMedia
    BY <1>4, <1>1, AttemptsAssumption DEF CreateMedia, server, session, provider, record, TypeOK, SessionType, Channels
  <1>5. CASE MediaStart
    BY <1>5, <1>1, AttemptsAssumption DEF MediaStart, asterisk, session, provider, record, TypeOK, SessionType, Channels
  <1>6. CASE SocketCloses
    <2>1. caller' \in {"up", "gone"} /\ media' \in {"none", "up", "gone"} /\ bridge' \in {"none", "up", "gone"}
      BY <1>6, <1>1 DEF SocketCloses, asterisk, session, provider, record, TypeOK
    <2>2. events' \subseteq Channels \X {"StasisStart", "StasisEnd", "ChannelDestroyed"}
      BY <1>6, <1>1 DEF SocketCloses, asterisk, session, provider, record, TypeOK, Channels
    <2>3. req' \in {"none", "sent", "done", "late", "stray"} /\ slot' \in {"none", "open", "bound", "failed"}
      BY <1>6, <1>1 DEF SocketCloses, asterisk, session, provider, record, TypeOK
    <2>4. drop' \in BOOLEAN /\ stored' \in BOOLEAN
      BY <1>6, <1>1 DEF SocketCloses, asterisk, session, provider, record, TypeOK
    <2>5. listed' \in BOOLEAN /\ seen' \in BOOLEAN
      BY <1>6, <1>1 DEF SocketCloses, asterisk, session, provider, record, TypeOK
    <2>6. sess' \in SessionType
      BY <1>6, <1>1 DEF SocketCloses, asterisk, session, provider, record, TypeOK, SessionType
    <2>7. maps' \subseteq {"pending", "owner"}
      BY <1>6, <1>1 DEF SocketCloses, asterisk, session, provider, record, TypeOK
    <2>8. /\ lock' \in {"none", "setup", "aux"} /\ tries' \in 0..AttachAttempts
      /\ setup' \in {"answer", "join", "joined", "profile", "announce", "post", "attach", "adding",
                    "wait", "waiting", "provider", "done"}
      /\ aux' \in {"none", "attach", "adding", "done"}
      /\ prov' \in {"idle", "tools", "opening", "undo", "announce"}
      /\ inst' \in {"none", "open", "cut"}
      BY <1>6, <1>1 DEF SocketCloses, asterisk, session, provider, record, TypeOK
    <2>9. /\ clean' \in {"no", "provider", "bridge", "media", "caller", "close", "history", "remove", "done"}
      /\ row' \in {"none", "abandoned", "full"}
      BY <1>6, <1>1 DEF SocketCloses, asterisk, session, provider, record, TypeOK
    <2> QED
      BY <2>1, <2>2, <2>3, <2>4, <2>5, <2>6, <2>7, <2>8, <2>9 DEF TypeOK
  <1>7. CASE CallerJoined
    BY <1>7, <1>1, AttemptsAssumption DEF CallerJoined, asterisk, server, session, provider, record, TypeOK, SessionType, Channels
  <1>8. CASE ProfileSaved
    BY <1>8, <1>1, AttemptsAssumption DEF ProfileSaved, asterisk, server, provider, record, TypeOK, SessionType, Channels
  <1>9. CASE AudioAsks
    BY <1>9, <1>1, AttemptsAssumption DEF AudioAsks, IsActive, asterisk, server, session, record, TypeOK, SessionType, Channels
  <1>10. CASE NotAdmitted
    BY <1>10, <1>1, AttemptsAssumption DEF NotAdmitted, HangUpCaller, Ends, server, session, provider, record, TypeOK, SessionType, Channels
  <1>11. CASE CreateBridge
    BY <1>11, <1>1, AttemptsAssumption DEF CreateBridge, server, session, provider, record, TypeOK, SessionType, Channels
  <1>12. CASE NotBridged
    <2>1. caller' \in {"up", "gone"} /\ media' \in {"none", "up", "gone"} /\ bridge' \in {"none", "up", "gone"}
      BY <1>12, <1>1 DEF NotBridged, Enter, provider, record, server, TypeOK
    <2>2. events' \subseteq Channels \X {"StasisStart", "StasisEnd", "ChannelDestroyed"}
      BY <1>12, <1>1 DEF NotBridged, Enter, provider, record, server, TypeOK, Channels
    <2>3. req' \in {"none", "sent", "done", "late", "stray"} /\ slot' \in {"none", "open", "bound", "failed"}
      BY <1>12, <1>1 DEF NotBridged, Enter, provider, record, server, TypeOK
    <2>4. drop' \in BOOLEAN /\ stored' \in BOOLEAN
      BY <1>12, <1>1 DEF NotBridged, Enter, provider, record, server, TypeOK
    <2>5. listed' \in BOOLEAN /\ seen' \in BOOLEAN
      BY <1>12, <1>1 DEF NotBridged, Enter, provider, record, server, TypeOK
    <2>6. sess' \in SessionType
      BY <1>12, <1>1 DEF NotBridged, Enter, provider, record, server, TypeOK, SessionType
    <2>7. maps' \subseteq {"pending", "owner"}
      BY <1>12, <1>1 DEF NotBridged, Enter, provider, record, server, TypeOK
    <2>8. /\ lock' \in {"none", "setup", "aux"} /\ tries' \in 0..AttachAttempts
      /\ setup' \in {"answer", "join", "joined", "profile", "announce", "post", "attach", "adding",
                    "wait", "waiting", "provider", "done"}
      /\ aux' \in {"none", "attach", "adding", "done"}
      /\ prov' \in {"idle", "tools", "opening", "undo", "announce"}
      /\ inst' \in {"none", "open", "cut"}
      BY <1>12, <1>1 DEF NotBridged, Enter, provider, record, server, TypeOK
    <2>9. /\ clean' \in {"no", "provider", "bridge", "media", "caller", "close", "history", "remove", "done"}
      /\ row' \in {"none", "abandoned", "full"}
      BY <1>12, <1>1 DEF NotBridged, Enter, provider, record, server, TypeOK
    <2> QED
      BY <2>1, <2>2, <2>3, <2>4, <2>5, <2>6, <2>7, <2>8, <2>9 DEF TypeOK
  <1>13. CASE Register
    BY <1>13, <1>1, AttemptsAssumption DEF Register, asterisk, server, provider, record, TypeOK, SessionType, Channels
  <1>14. CASE ProfileRefused
    BY <1>14, <1>1, AttemptsAssumption DEF ProfileRefused, asterisk, server, provider, record, TypeOK, SessionType, Channels
  <1>15. CASE Announced
    BY <1>15, <1>1, AttemptsAssumption DEF Announced, HangUpCaller, Ends, server, session, provider, record, TypeOK, SessionType, Channels
  <1>16. CASE AskForMedia
    <2>1. caller' \in {"up", "gone"} /\ media' \in {"none", "up", "gone"} /\ bridge' \in {"none", "up", "gone"}
      BY <1>16, <1>1 DEF AskForMedia, IsActive, provider, record, TypeOK
    <2>2. events' \subseteq Channels \X {"StasisStart", "StasisEnd", "ChannelDestroyed"}
      BY <1>16, <1>1 DEF AskForMedia, IsActive, provider, record, TypeOK, Channels
    <2>3. req' \in {"none", "sent", "done", "late", "stray"} /\ slot' \in {"none", "open", "bound", "failed"}
      BY <1>16, <1>1 DEF AskForMedia, IsActive, provider, record, TypeOK
    <2>4. drop' \in BOOLEAN /\ stored' \in BOOLEAN
      BY <1>16, <1>1 DEF AskForMedia, IsActive, provider, record, TypeOK
    <2>5. listed' \in BOOLEAN /\ seen' \in BOOLEAN
      BY <1>16, <1>1 DEF AskForMedia, IsActive, provider, record, TypeOK
    <2>6. sess' \in SessionType
      BY <1>16, <1>1 DEF AskForMedia, IsActive, provider, record, TypeOK, SessionType
    <2>7. maps' \subseteq {"pending", "owner"}
      BY <1>16, <1>1 DEF AskForMedia, IsActive, provider, record, TypeOK
    <2>8. /\ lock' \in {"none", "setup", "aux"} /\ tries' \in 0..AttachAttempts
      /\ setup' \in {"answer", "join", "joined", "profile", "announce", "post", "attach", "adding",
                    "wait", "waiting", "provider", "done"}
      /\ aux' \in {"none", "attach", "adding", "done"}
      /\ prov' \in {"idle", "tools", "opening", "undo", "announce"}
      /\ inst' \in {"none", "open", "cut"}
      BY <1>16, <1>1 DEF AskForMedia, IsActive, provider, record, TypeOK
    <2>9. /\ clean' \in {"no", "provider", "bridge", "media", "caller", "close", "history", "remove", "done"}
      /\ row' \in {"none", "abandoned", "full"}
      BY <1>16, <1>1 DEF AskForMedia, IsActive, provider, record, TypeOK
    <2> QED
      BY <2>1, <2>2, <2>3, <2>4, <2>5, <2>6, <2>7, <2>8, <2>9 DEF TypeOK
  <1>17. CASE NoMedia
    <2>1. caller' \in {"up", "gone"} /\ media' \in {"none", "up", "gone"} /\ bridge' \in {"none", "up", "gone"}
      BY <1>17, <1>1 DEF NoMedia, Enter, provider, record, asterisk, server, TypeOK
    <2>2. events' \subseteq Channels \X {"StasisStart", "StasisEnd", "ChannelDestroyed"}
      BY <1>17, <1>1 DEF NoMedia, Enter, provider, record, asterisk, server, TypeOK, Channels
    <2>3. req' \in {"none", "sent", "done", "late", "stray"} /\ slot' \in {"none", "open", "bound", "failed"}
      BY <1>17, <1>1 DEF NoMedia, Enter, provider, record, asterisk, server, TypeOK
    <2>4. drop' \in BOOLEAN /\ stored' \in BOOLEAN
      BY <1>17, <1>1 DEF NoMedia, Enter, provider, record, asterisk, server, TypeOK
    <2>5. listed' \in BOOLEAN /\ seen' \in BOOLEAN
      BY <1>17, <1>1 DEF NoMedia, Enter, provider, record, asterisk, server, TypeOK
    <2>6. sess' \in SessionType
      BY <1>17, <1>1 DEF NoMedia, Enter, provider, record, asterisk, server, TypeOK, SessionType
    <2>7. maps' \subseteq {"pending", "owner"}
      BY <1>17, <1>1 DEF NoMedia, Enter, provider, record, asterisk, server, TypeOK
    <2>8. /\ lock' \in {"none", "setup", "aux"} /\ tries' \in 0..AttachAttempts
      /\ setup' \in {"answer", "join", "joined", "profile", "announce", "post", "attach", "adding",
                    "wait", "waiting", "provider", "done"}
      /\ aux' \in {"none", "attach", "adding", "done"}
      /\ prov' \in {"idle", "tools", "opening", "undo", "announce"}
      /\ inst' \in {"none", "open", "cut"}
      BY <1>17, <1>1 DEF NoMedia, Enter, provider, record, asterisk, server, TypeOK
    <2>9. /\ clean' \in {"no", "provider", "bridge", "media", "caller", "close", "history", "remove", "done"}
      /\ row' \in {"none", "abandoned", "full"}
      BY <1>17, <1>1 DEF NoMedia, Enter, provider, record, asterisk, server, TypeOK
    <2> QED
      BY <2>1, <2>2, <2>3, <2>4, <2>5, <2>6, <2>7, <2>8, <2>9 DEF TypeOK
  <1>18. CASE MediaCreated
    BY <1>18, <1>1, AttemptsAssumption DEF MediaCreated, IsActive, asterisk, server, session, provider, record, TypeOK, SessionType, Channels
  <1>19. CASE MediaTooLate
    <2>1. caller' \in {"up", "gone"} /\ media' \in {"none", "up", "gone"} /\ bridge' \in {"none", "up", "gone"}
      BY <1>19, <1>1 DEF MediaTooLate, HangUpMedia, Ends, IsActive, Unregister, Enter, provider, record, TypeOK
    <2>2. events' \subseteq Channels \X {"StasisStart", "StasisEnd", "ChannelDestroyed"}
      BY <1>19, <1>1 DEF MediaTooLate, HangUpMedia, Ends, IsActive, Unregister, Enter, provider, record, TypeOK, Channels
    <2>3. req' \in {"none", "sent", "done", "late", "stray"} /\ slot' \in {"none", "open", "bound", "failed"}
      BY <1>19, <1>1 DEF MediaTooLate, HangUpMedia, Ends, IsActive, Unregister, Enter, provider, record, TypeOK
    <2>4. drop' \in BOOLEAN /\ stored' \in BOOLEAN
      BY <1>19, <1>1 DEF MediaTooLate, HangUpMedia, Ends, IsActive, Unregister, Enter, provider, record, TypeOK
    <2>5. listed' \in BOOLEAN /\ seen' \in BOOLEAN
      BY <1>19, <1>1 DEF MediaTooLate, HangUpMedia, Ends, IsActive, Unregister, Enter, provider, record, TypeOK
    <2>6. sess' \in SessionType
      BY <1>19, <1>1 DEF MediaTooLate, HangUpMedia, Ends, IsActive, Unregister, Enter, provider, record, TypeOK, SessionType
    <2>7. maps' \subseteq {"pending", "owner"}
      BY <1>19, <1>1 DEF MediaTooLate, HangUpMedia, Ends, IsActive, Unregister, Enter, provider, record, TypeOK
    <2>8. /\ lock' \in {"none", "setup", "aux"} /\ tries' \in 0..AttachAttempts
      /\ setup' \in {"answer", "join", "joined", "profile", "announce", "post", "attach", "adding",
                    "wait", "waiting", "provider", "done"}
      /\ aux' \in {"none", "attach", "adding", "done"}
      /\ prov' \in {"idle", "tools", "opening", "undo", "announce"}
      /\ inst' \in {"none", "open", "cut"}
      BY <1>19, <1>1 DEF MediaTooLate, HangUpMedia, Ends, IsActive, Unregister, Enter, provider, record, TypeOK
    <2>9. /\ clean' \in {"no", "provider", "bridge", "media", "caller", "close", "history", "remove", "done"}
      /\ row' \in {"none", "abandoned", "full"}
      BY <1>19, <1>1 DEF MediaTooLate, HangUpMedia, Ends, IsActive, Unregister, Enter, provider, record, TypeOK
    <2> QED
      BY <2>1, <2>2, <2>3, <2>4, <2>5, <2>6, <2>7, <2>8, <2>9 DEF TypeOK
  <1>20. CASE MediaFailed
    <2>1. caller' \in {"up", "gone"} /\ media' \in {"none", "up", "gone"} /\ bridge' \in {"none", "up", "gone"}
      BY <1>20, <1>1 DEF MediaFailed, HangUpMedia, Ends, IsActive, Unregister, Enter, provider, record, TypeOK
    <2>2. events' \subseteq Channels \X {"StasisStart", "StasisEnd", "ChannelDestroyed"}
      BY <1>20, <1>1 DEF MediaFailed, HangUpMedia, Ends, IsActive, Unregister, Enter, provider, record, TypeOK, Channels
    <2>3. req' \in {"none", "sent", "done", "late", "stray"} /\ slot' \in {"none", "open", "bound", "failed"}
      BY <1>20, <1>1 DEF MediaFailed, HangUpMedia, Ends, IsActive, Unregister, Enter, provider, record, TypeOK
    <2>4. drop' \in BOOLEAN /\ stored' \in BOOLEAN
      BY <1>20, <1>1 DEF MediaFailed, HangUpMedia, Ends, IsActive, Unregister, Enter, provider, record, TypeOK
    <2>5. listed' \in BOOLEAN /\ seen' \in BOOLEAN
      BY <1>20, <1>1 DEF MediaFailed, HangUpMedia, Ends, IsActive, Unregister, Enter, provider, record, TypeOK
    <2>6. sess' \in SessionType
      BY <1>20, <1>1 DEF MediaFailed, HangUpMedia, Ends, IsActive, Unregister, Enter, provider, record, TypeOK, SessionType
    <2>7. maps' \subseteq {"pending", "owner"}
      BY <1>20, <1>1 DEF MediaFailed, HangUpMedia, Ends, IsActive, Unregister, Enter, provider, record, TypeOK
    <2>8. /\ lock' \in {"none", "setup", "aux"} /\ tries' \in 0..AttachAttempts
      /\ setup' \in {"answer", "join", "joined", "profile", "announce", "post", "attach", "adding",
                    "wait", "waiting", "provider", "done"}
      /\ aux' \in {"none", "attach", "adding", "done"}
      /\ prov' \in {"idle", "tools", "opening", "undo", "announce"}
      /\ inst' \in {"none", "open", "cut"}
      BY <1>20, <1>1 DEF MediaFailed, HangUpMedia, Ends, IsActive, Unregister, Enter, provider, record, TypeOK
    <2>9. /\ clean' \in {"no", "provider", "bridge", "media", "caller", "close", "history", "remove", "done"}
      /\ row' \in {"none", "abandoned", "full"}
      BY <1>20, <1>1 DEF MediaFailed, HangUpMedia, Ends, IsActive, Unregister, Enter, provider, record, TypeOK
    <2> QED
      BY <2>1, <2>2, <2>3, <2>4, <2>5, <2>6, <2>7, <2>8, <2>9 DEF TypeOK
  <1>21. CASE AttachTry
    BY <1>21, <1>1, AttemptsAssumption DEF AttachTry, IsOwned, IsActive, asterisk, server, session, provider, record, TypeOK, SessionType, Channels
  <1>22. CASE AttachDone
    BY <1>22, <1>1, AttemptsAssumption DEF AttachDone, Joins, IsOwned, IsActive, asterisk, server, provider, record, TypeOK, SessionType, Channels
  <1>23. CASE AttachGivenUp
    <2>1. caller' \in {"up", "gone"} /\ media' \in {"none", "up", "gone"} /\ bridge' \in {"none", "up", "gone"}
      BY <1>23, <1>1 DEF AttachGivenUp, Enter, provider, record, asterisk, server, TypeOK
    <2>2. events' \subseteq Channels \X {"StasisStart", "StasisEnd", "ChannelDestroyed"}
      BY <1>23, <1>1 DEF AttachGivenUp, Enter, provider, record, asterisk, server, TypeOK, Channels
    <2>3. req' \in {"none", "sent", "done", "late", "stray"} /\ slot' \in {"none", "open", "bound", "failed"}
      BY <1>23, <1>1 DEF AttachGivenUp, Enter, provider, record, asterisk, server, TypeOK
    <2>4. drop' \in BOOLEAN /\ stored' \in BOOLEAN
      BY <1>23, <1>1 DEF AttachGivenUp, Enter, provider, record, asterisk, server, TypeOK
    <2>5. listed' \in BOOLEAN /\ seen' \in BOOLEAN
      BY <1>23, <1>1 DEF AttachGivenUp, Enter, provider, record, asterisk, server, TypeOK
    <2>6. sess' \in SessionType
      BY <1>23, <1>1 DEF AttachGivenUp, Enter, provider, record, asterisk, server, TypeOK, SessionType
    <2>7. maps' \subseteq {"pending", "owner"}
      BY <1>23, <1>1 DEF AttachGivenUp, Enter, provider, record, asterisk, server, TypeOK
    <2>8. /\ lock' \in {"none", "setup", "aux"} /\ tries' \in 0..AttachAttempts
      /\ setup' \in {"answer", "join", "joined", "profile", "announce", "post", "attach", "adding",
                    "wait", "waiting", "provider", "done"}
      /\ aux' \in {"none", "attach", "adding", "done"}
      /\ prov' \in {"idle", "tools", "opening", "undo", "announce"}
      /\ inst' \in {"none", "open", "cut"}
      BY <1>23, <1>1 DEF AttachGivenUp, Enter, provider, record, asterisk, server, TypeOK
    <2>9. /\ clean' \in {"no", "provider", "bridge", "media", "caller", "close", "history", "remove", "done"}
      /\ row' \in {"none", "abandoned", "full"}
      BY <1>23, <1>1 DEF AttachGivenUp, Enter, provider, record, asterisk, server, TypeOK
    <2> QED
      BY <2>1, <2>2, <2>3, <2>4, <2>5, <2>6, <2>7, <2>8, <2>9 DEF TypeOK
  <1>24. CASE WaitBegins
    BY <1>24, <1>1, AttemptsAssumption DEF WaitBegins, IsOwned, IsActive, asterisk, server, session, provider, record, TypeOK, SessionType, Channels
  <1>25. CASE WaitRefused
    <2>1. caller' \in {"up", "gone"} /\ media' \in {"none", "up", "gone"} /\ bridge' \in {"none", "up", "gone"}
      BY <1>25, <1>1 DEF WaitRefused, IsOwned, IsActive, Enter, provider, record, asterisk, server, TypeOK
    <2>2. events' \subseteq Channels \X {"StasisStart", "StasisEnd", "ChannelDestroyed"}
      BY <1>25, <1>1 DEF WaitRefused, IsOwned, IsActive, Enter, provider, record, asterisk, server, TypeOK, Channels
    <2>3. req' \in {"none", "sent", "done", "late", "stray"} /\ slot' \in {"none", "open", "bound", "failed"}
      BY <1>25, <1>1 DEF WaitRefused, IsOwned, IsActive, Enter, provider, record, asterisk, server, TypeOK
    <2>4. drop' \in BOOLEAN /\ stored' \in BOOLEAN
      BY <1>25, <1>1 DEF WaitRefused, IsOwned, IsActive, Enter, provider, record, asterisk, server, TypeOK
    <2>5. listed' \in BOOLEAN /\ seen' \in BOOLEAN
      BY <1>25, <1>1 DEF WaitRefused, IsOwned, IsActive, Enter, provider, record, asterisk, server, TypeOK
    <2>6. sess' \in SessionType
      BY <1>25, <1>1 DEF WaitRefused, IsOwned, IsActive, Enter, provider, record, asterisk, server, TypeOK, SessionType
    <2>7. maps' \subseteq {"pending", "owner"}
      BY <1>25, <1>1 DEF WaitRefused, IsOwned, IsActive, Enter, provider, record, asterisk, server, TypeOK
    <2>8. /\ lock' \in {"none", "setup", "aux"} /\ tries' \in 0..AttachAttempts
      /\ setup' \in {"answer", "join", "joined", "profile", "announce", "post", "attach", "adding",
                    "wait", "waiting", "provider", "done"}
      /\ aux' \in {"none", "attach", "adding", "done"}
      /\ prov' \in {"idle", "tools", "opening", "undo", "announce"}
      /\ inst' \in {"none", "open", "cut"}
      BY <1>25, <1>1 DEF WaitRefused, IsOwned, IsActive, Enter, provider, record, asterisk, server, TypeOK
    <2>9. /\ clean' \in {"no", "provider", "bridge", "media", "caller", "close", "history", "remove", "done"}
      /\ row' \in {"none", "abandoned", "full"}
      BY <1>25, <1>1 DEF WaitRefused, IsOwned, IsActive, Enter, provider, record, asterisk, server, TypeOK
    <2> QED
      BY <2>1, <2>2, <2>3, <2>4, <2>5, <2>6, <2>7, <2>8, <2>9 DEF TypeOK
  <1>26. CASE Ready
    BY <1>26, <1>1, AttemptsAssumption DEF Ready, IsOwned, IsActive, asterisk, server, provider, record, TypeOK, SessionType, Channels
  <1>27. CASE NotReady
    <2>1. caller' \in {"up", "gone"} /\ media' \in {"none", "up", "gone"} /\ bridge' \in {"none", "up", "gone"}
      BY <1>27, <1>1 DEF NotReady, IsOwned, IsActive, Enter, provider, record, asterisk, server, TypeOK
    <2>2. events' \subseteq Channels \X {"StasisStart", "StasisEnd", "ChannelDestroyed"}
      BY <1>27, <1>1 DEF NotReady, IsOwned, IsActive, Enter, provider, record, asterisk, server, TypeOK, Channels
    <2>3. req' \in {"none", "sent", "done", "late", "stray"} /\ slot' \in {"none", "open", "bound", "failed"}
      BY <1>27, <1>1 DEF NotReady, IsOwned, IsActive, Enter, provider, record, asterisk, server, TypeOK
    <2>4. drop' \in BOOLEAN /\ stored' \in BOOLEAN
      BY <1>27, <1>1 DEF NotReady, IsOwned, IsActive, Enter, provider, record, asterisk, server, TypeOK
    <2>5. listed' \in BOOLEAN /\ seen' \in BOOLEAN
      BY <1>27, <1>1 DEF NotReady, IsOwned, IsActive, Enter, provider, record, asterisk, server, TypeOK
    <2>6. sess' \in SessionType
      BY <1>27, <1>1 DEF NotReady, IsOwned, IsActive, Enter, provider, record, asterisk, server, TypeOK, SessionType
    <2>7. maps' \subseteq {"pending", "owner"}
      BY <1>27, <1>1 DEF NotReady, IsOwned, IsActive, Enter, provider, record, asterisk, server, TypeOK
    <2>8. /\ lock' \in {"none", "setup", "aux"} /\ tries' \in 0..AttachAttempts
      /\ setup' \in {"answer", "join", "joined", "profile", "announce", "post", "attach", "adding",
                    "wait", "waiting", "provider", "done"}
      /\ aux' \in {"none", "attach", "adding", "done"}
      /\ prov' \in {"idle", "tools", "opening", "undo", "announce"}
      /\ inst' \in {"none", "open", "cut"}
      BY <1>27, <1>1 DEF NotReady, IsOwned, IsActive, Enter, provider, record, asterisk, server, TypeOK
    <2>9. /\ clean' \in {"no", "provider", "bridge", "media", "caller", "close", "history", "remove", "done"}
      /\ row' \in {"none", "abandoned", "full"}
      BY <1>27, <1>1 DEF NotReady, IsOwned, IsActive, Enter, provider, record, asterisk, server, TypeOK
    <2> QED
      BY <2>1, <2>2, <2>3, <2>4, <2>5, <2>6, <2>7, <2>8, <2>9 DEF TypeOK
  <1>28. CASE SetupEnds
    BY <1>28, <1>1, AttemptsAssumption DEF SetupEnds, asterisk, server, session, provider, record, TypeOK, SessionType, Channels
  <1>29. CASE AuxTry
    BY <1>29, <1>1, AttemptsAssumption DEF AuxTry, IsOwned, IsActive, asterisk, server, session, provider, record, TypeOK, SessionType, Channels
  <1>30. CASE AuxDone
    BY <1>30, <1>1, AttemptsAssumption DEF AuxDone, Joins, IsOwned, IsActive, asterisk, server, provider, record, TypeOK, SessionType, Channels
  <1>31. CASE ToolsDone
    <2>1. caller' \in {"up", "gone"} /\ media' \in {"none", "up", "gone"} /\ bridge' \in {"none", "up", "gone"}
      BY <1>31, <1>1 DEF ToolsDone, IsActive, asterisk, server, session, record, TypeOK
    <2>2. events' \subseteq Channels \X {"StasisStart", "StasisEnd", "ChannelDestroyed"}
      BY <1>31, <1>1 DEF ToolsDone, IsActive, asterisk, server, session, record, TypeOK, Channels
    <2>3. req' \in {"none", "sent", "done", "late", "stray"} /\ slot' \in {"none", "open", "bound", "failed"}
      BY <1>31, <1>1 DEF ToolsDone, IsActive, asterisk, server, session, record, TypeOK
    <2>4. drop' \in BOOLEAN /\ stored' \in BOOLEAN
      BY <1>31, <1>1 DEF ToolsDone, IsActive, asterisk, server, session, record, TypeOK
    <2>5. listed' \in BOOLEAN /\ seen' \in BOOLEAN
      BY <1>31, <1>1 DEF ToolsDone, IsActive, asterisk, server, session, record, TypeOK
    <2>6. sess' \in SessionType
      BY <1>31, <1>1 DEF ToolsDone, IsActive, asterisk, server, session, record, TypeOK, SessionType
    <2>7. maps' \subseteq {"pending", "owner"}
      BY <1>31, <1>1 DEF ToolsDone, IsActive, asterisk, server, session, record, TypeOK
    <2>8. /\ lock' \in {"none", "setup", "aux"} /\ tries' \in 0..AttachAttempts
      /\ setup' \in {"answer", "join", "joined", "profile", "announce", "post", "attach", "adding",
                    "wait", "waiting", "provider", "done"}
      /\ aux' \in {"none", "attach", "adding", "done"}
      /\ prov' \in {"idle", "tools", "opening", "undo", "announce"}
      /\ inst' \in {"none", "open", "cut"}
      BY <1>31, <1>1 DEF ToolsDone, IsActive, asterisk, server, session, record, TypeOK
    <2>9. /\ clean' \in {"no", "provider", "bridge", "media", "caller", "close", "history", "remove", "done"}
      /\ row' \in {"none", "abandoned", "full"}
      BY <1>31, <1>1 DEF ToolsDone, IsActive, asterisk, server, session, record, TypeOK
    <2> QED
      BY <2>1, <2>2, <2>3, <2>4, <2>5, <2>6, <2>7, <2>8, <2>9 DEF TypeOK
  <1>32. CASE ProviderStarts
    <2>1. caller' \in {"up", "gone"} /\ media' \in {"none", "up", "gone"} /\ bridge' \in {"none", "up", "gone"}
      BY <1>32, <1>1 DEF ProviderStarts, asterisk, server, record, TypeOK
    <2>2. events' \subseteq Channels \X {"StasisStart", "StasisEnd", "ChannelDestroyed"}
      BY <1>32, <1>1 DEF ProviderStarts, asterisk, server, record, TypeOK, Channels
    <2>3. req' \in {"none", "sent", "done", "late", "stray"} /\ slot' \in {"none", "open", "bound", "failed"}
      BY <1>32, <1>1 DEF ProviderStarts, asterisk, server, record, TypeOK
    <2>4. drop' \in BOOLEAN /\ stored' \in BOOLEAN
      BY <1>32, <1>1 DEF ProviderStarts, asterisk, server, record, TypeOK
    <2>5. listed' \in BOOLEAN /\ seen' \in BOOLEAN
      BY <1>32, <1>1 DEF ProviderStarts, asterisk, server, record, TypeOK
    <2>6. sess' \in SessionType
      BY <1>32, <1>1 DEF ProviderStarts, asterisk, server, record, TypeOK, SessionType
    <2>7. maps' \subseteq {"pending", "owner"}
      BY <1>32, <1>1 DEF ProviderStarts, asterisk, server, record, TypeOK
    <2>8. /\ lock' \in {"none", "setup", "aux"} /\ tries' \in 0..AttachAttempts
      /\ setup' \in {"answer", "join", "joined", "profile", "announce", "post", "attach", "adding",
                    "wait", "waiting", "provider", "done"}
      /\ aux' \in {"none", "attach", "adding", "done"}
      /\ prov' \in {"idle", "tools", "opening", "undo", "announce"}
      /\ inst' \in {"none", "open", "cut"}
      BY <1>32, <1>1 DEF ProviderStarts, asterisk, server, record, TypeOK
    <2>9. /\ clean' \in {"no", "provider", "bridge", "media", "caller", "close", "history", "remove", "done"}
      /\ row' \in {"none", "abandoned", "full"}
      BY <1>32, <1>1 DEF ProviderStarts, asterisk, server, record, TypeOK
    <2> QED
      BY <2>1, <2>2, <2>3, <2>4, <2>5, <2>6, <2>7, <2>8, <2>9 DEF TypeOK
  <1>33. CASE ProviderFails
    <2>1. caller' \in {"up", "gone"} /\ media' \in {"none", "up", "gone"} /\ bridge' \in {"none", "up", "gone"}
      BY <1>33, <1>1 DEF ProviderFails, asterisk, server, session, record, TypeOK
    <2>2. events' \subseteq Channels \X {"StasisStart", "StasisEnd", "ChannelDestroyed"}
      BY <1>33, <1>1 DEF ProviderFails, asterisk, server, session, record, TypeOK, Channels
    <2>3. req' \in {"none", "sent", "done", "late", "stray"} /\ slot' \in {"none", "open", "bound", "failed"}
      BY <1>33, <1>1 DEF ProviderFails, asterisk, server, session, record, TypeOK
    <2>4. drop' \in BOOLEAN /\ stored' \in BOOLEAN
      BY <1>33, <1>1 DEF ProviderFails, asterisk, server, session, record, TypeOK
    <2>5. listed' \in BOOLEAN /\ seen' \in BOOLEAN
      BY <1>33, <1>1 DEF ProviderFails, asterisk, server, session, record, TypeOK
    <2>6. sess' \in SessionType
      BY <1>33, <1>1 DEF ProviderFails, asterisk, server, session, record, TypeOK, SessionType
    <2>7. maps' \subseteq {"pending", "owner"}
      BY <1>33, <1>1 DEF ProviderFails, asterisk, server, session, record, TypeOK
    <2>8. /\ lock' \in {"none", "setup", "aux"} /\ tries' \in 0..AttachAttempts
      /\ setup' \in {"answer", "join", "joined", "profile", "announce", "post", "attach", "adding",
                    "wait", "waiting", "provider", "done"}
      /\ aux' \in {"none", "attach", "adding", "done"}
      /\ prov' \in {"idle", "tools", "opening", "undo", "announce"}
      /\ inst' \in {"none", "open", "cut"}
      BY <1>33, <1>1 DEF ProviderFails, asterisk, server, session, record, TypeOK
    <2>9. /\ clean' \in {"no", "provider", "bridge", "media", "caller", "close", "history", "remove", "done"}
      /\ row' \in {"none", "abandoned", "full"}
      BY <1>33, <1>1 DEF ProviderFails, asterisk, server, session, record, TypeOK
    <2> QED
      BY <2>1, <2>2, <2>3, <2>4, <2>5, <2>6, <2>7, <2>8, <2>9 DEF TypeOK
  <1>34. CASE ProviderUndone
    BY <1>34, <1>1, AttemptsAssumption DEF ProviderUndone, asterisk, server, record, TypeOK, SessionType, Channels
  <1>35. CASE FailureAnnounced
    BY <1>35, <1>1, AttemptsAssumption DEF FailureAnnounced, HangUpCaller, Ends, server, session, record, TypeOK, SessionType, Channels
  <1>36. CASE OnMediaStart
    BY <1>36, <1>1, AttemptsAssumption DEF OnMediaStart, Ends, server, session, provider, record, TypeOK, SessionType, Channels
  <1>37. CASE OnDisconnect
    <2>1. caller' \in {"up", "gone"} /\ media' \in {"none", "up", "gone"} /\ bridge' \in {"none", "up", "gone"}
      BY <1>37, <1>1 DEF OnDisconnect, Enter, provider, record, asterisk, TypeOK
    <2>2. events' \subseteq Channels \X {"StasisStart", "StasisEnd", "ChannelDestroyed"}
      BY <1>37, <1>1 DEF OnDisconnect, Enter, provider, record, asterisk, TypeOK, Channels
    <2>3. req' \in {"none", "sent", "done", "late", "stray"} /\ slot' \in {"none", "open", "bound", "failed"}
      BY <1>37, <1>1 DEF OnDisconnect, Enter, provider, record, asterisk, TypeOK
    <2>4. drop' \in BOOLEAN /\ stored' \in BOOLEAN
      BY <1>37, <1>1 DEF OnDisconnect, Enter, provider, record, asterisk, TypeOK
    <2>5. listed' \in BOOLEAN /\ seen' \in BOOLEAN
      BY <1>37, <1>1 DEF OnDisconnect, Enter, provider, record, asterisk, TypeOK
    <2>6. sess' \in SessionType
      BY <1>37, <1>1 DEF OnDisconnect, Enter, provider, record, asterisk, TypeOK, SessionType
    <2>7. maps' \subseteq {"pending", "owner"}
      BY <1>37, <1>1 DEF OnDisconnect, Enter, provider, record, asterisk, TypeOK
    <2>8. /\ lock' \in {"none", "setup", "aux"} /\ tries' \in 0..AttachAttempts
      /\ setup' \in {"answer", "join", "joined", "profile", "announce", "post", "attach", "adding",
                    "wait", "waiting", "provider", "done"}
      /\ aux' \in {"none", "attach", "adding", "done"}
      /\ prov' \in {"idle", "tools", "opening", "undo", "announce"}
      /\ inst' \in {"none", "open", "cut"}
      BY <1>37, <1>1 DEF OnDisconnect, Enter, provider, record, asterisk, TypeOK
    <2>9. /\ clean' \in {"no", "provider", "bridge", "media", "caller", "close", "history", "remove", "done"}
      /\ row' \in {"none", "abandoned", "full"}
      BY <1>37, <1>1 DEF OnDisconnect, Enter, provider, record, asterisk, TypeOK
    <2> QED
      BY <2>1, <2>2, <2>3, <2>4, <2>5, <2>6, <2>7, <2>8, <2>9 DEF TypeOK
  <1>38. CASE StopProvider
    <2>1. caller' \in {"up", "gone"} /\ media' \in {"none", "up", "gone"} /\ bridge' \in {"none", "up", "gone"}
      BY <1>38, <1>1 DEF StopProvider, asterisk, server, session, provider, record, TypeOK
    <2>2. events' \subseteq Channels \X {"StasisStart", "StasisEnd", "ChannelDestroyed"}
      BY <1>38, <1>1 DEF StopProvider, asterisk, server, session, provider, record, TypeOK, Channels
    <2>3. req' \in {"none", "sent", "done", "late", "stray"} /\ slot' \in {"none", "open", "bound", "failed"}
      BY <1>38, <1>1 DEF StopProvider, asterisk, server, session, provider, record, TypeOK
    <2>4. drop' \in BOOLEAN /\ stored' \in BOOLEAN
      BY <1>38, <1>1 DEF StopProvider, asterisk, server, session, provider, record, TypeOK
    <2>5. listed' \in BOOLEAN /\ seen' \in BOOLEAN
      BY <1>38, <1>1 DEF StopProvider, asterisk, server, session, provider, record, TypeOK
    <2>6. sess' \in SessionType
      BY <1>38, <1>1 DEF StopProvider, asterisk, server, session, provider, record, TypeOK, SessionType
    <2>7. maps' \subseteq {"pending", "owner"}
      BY <1>38, <1>1 DEF StopProvider, asterisk, server, session, provider, record, TypeOK
    <2>8. /\ lock' \in {"none", "setup", "aux"} /\ tries' \in 0..AttachAttempts
      /\ setup' \in {"answer", "join", "joined", "profile", "announce", "post", "attach", "adding",
                    "wait", "waiting", "provider", "done"}
      /\ aux' \in {"none", "attach", "adding", "done"}
      /\ prov' \in {"idle", "tools", "opening", "undo", "announce"}
      /\ inst' \in {"none", "open", "cut"}
      BY <1>38, <1>1 DEF StopProvider, asterisk, server, session, provider, record, TypeOK
    <2>9. /\ clean' \in {"no", "provider", "bridge", "media", "caller", "close", "history", "remove", "done"}
      /\ row' \in {"none", "abandoned", "full"}
      BY <1>38, <1>1 DEF StopProvider, asterisk, server, session, provider, record, TypeOK
    <2> QED
      BY <2>1, <2>2, <2>3, <2>4, <2>5, <2>6, <2>7, <2>8, <2>9 DEF TypeOK
  <1>39. CASE DestroyBridge
    BY <1>39, <1>1, AttemptsAssumption DEF DestroyBridge, server, session, provider, record, TypeOK, SessionType, Channels
  <1>40. CASE EndMedia
    BY <1>40, <1>1, AttemptsAssumption DEF EndMedia, HangUpMedia, Ends, server, session, provider, record, TypeOK, SessionType, Channels
  <1>41. CASE EndCaller
    BY <1>41, <1>1, AttemptsAssumption DEF EndCaller, HangUpCaller, Ends, server, session, provider, record, TypeOK, SessionType, Channels
  <1>42. CASE CloseMedia
    <2>1. caller' \in {"up", "gone"} /\ media' \in {"none", "up", "gone"} /\ bridge' \in {"none", "up", "gone"}
      BY <1>42, <1>1 DEF CloseMedia, Unregister, asterisk, provider, record, TypeOK
    <2>2. events' \subseteq Channels \X {"StasisStart", "StasisEnd", "ChannelDestroyed"}
      BY <1>42, <1>1 DEF CloseMedia, Unregister, asterisk, provider, record, TypeOK, Channels
    <2>3. req' \in {"none", "sent", "done", "late", "stray"} /\ slot' \in {"none", "open", "bound", "failed"}
      BY <1>42, <1>1 DEF CloseMedia, Unregister, asterisk, provider, record, TypeOK
    <2>4. drop' \in BOOLEAN /\ stored' \in BOOLEAN
      BY <1>42, <1>1 DEF CloseMedia, Unregister, asterisk, provider, record, TypeOK
    <2>5. listed' \in BOOLEAN /\ seen' \in BOOLEAN
      BY <1>42, <1>1 DEF CloseMedia, Unregister, asterisk, provider, record, TypeOK
    <2>6. sess' \in SessionType
      BY <1>42, <1>1 DEF CloseMedia, Unregister, asterisk, provider, record, TypeOK, SessionType
    <2>7. maps' \subseteq {"pending", "owner"}
      BY <1>42, <1>1 DEF CloseMedia, Unregister, asterisk, provider, record, TypeOK
    <2>8. /\ lock' \in {"none", "setup", "aux"} /\ tries' \in 0..AttachAttempts
      /\ setup' \in {"answer", "join", "joined", "profile", "announce", "post", "attach", "adding",
                    "wait", "waiting", "provider", "done"}
      /\ aux' \in {"none", "attach", "adding", "done"}
      /\ prov' \in {"idle", "tools", "opening", "undo", "announce"}
      /\ inst' \in {"none", "open", "cut"}
      BY <1>42, <1>1 DEF CloseMedia, Unregister, asterisk, provider, record, TypeOK
    <2>9. /\ clean' \in {"no", "provider", "bridge", "media", "caller", "close", "history", "remove", "done"}
      /\ row' \in {"none", "abandoned", "full"}
      BY <1>42, <1>1 DEF CloseMedia, Unregister, asterisk, provider, record, TypeOK
    <2> QED
      BY <2>1, <2>2, <2>3, <2>4, <2>5, <2>6, <2>7, <2>8, <2>9 DEF TypeOK
  <1>43. CASE WriteHistory
    BY <1>43, <1>1, AttemptsAssumption DEF WriteHistory, asterisk, server, session, provider, TypeOK, SessionType, Channels
  <1>44. CASE RemoveCall
    <2>1. caller' \in {"up", "gone"} /\ media' \in {"none", "up", "gone"} /\ bridge' \in {"none", "up", "gone"}
      BY <1>44, <1>1 DEF RemoveCall, asterisk, server, provider, TypeOK
    <2>2. events' \subseteq Channels \X {"StasisStart", "StasisEnd", "ChannelDestroyed"}
      BY <1>44, <1>1 DEF RemoveCall, asterisk, server, provider, TypeOK, Channels
    <2>3. req' \in {"none", "sent", "done", "late", "stray"} /\ slot' \in {"none", "open", "bound", "failed"}
      BY <1>44, <1>1 DEF RemoveCall, asterisk, server, provider, TypeOK
    <2>4. drop' \in BOOLEAN /\ stored' \in BOOLEAN
      BY <1>44, <1>1 DEF RemoveCall, asterisk, server, provider, TypeOK
    <2>5. listed' \in BOOLEAN /\ seen' \in BOOLEAN
      BY <1>44, <1>1 DEF RemoveCall, asterisk, server, provider, TypeOK
    <2>6. sess' \in SessionType
      BY <1>44, <1>1 DEF RemoveCall, asterisk, server, provider, TypeOK, SessionType
    <2>7. maps' \subseteq {"pending", "owner"}
      BY <1>44, <1>1 DEF RemoveCall, asterisk, server, provider, TypeOK
    <2>8. /\ lock' \in {"none", "setup", "aux"} /\ tries' \in 0..AttachAttempts
      /\ setup' \in {"answer", "join", "joined", "profile", "announce", "post", "attach", "adding",
                    "wait", "waiting", "provider", "done"}
      /\ aux' \in {"none", "attach", "adding", "done"}
      /\ prov' \in {"idle", "tools", "opening", "undo", "announce"}
      /\ inst' \in {"none", "open", "cut"}
      BY <1>44, <1>1 DEF RemoveCall, asterisk, server, provider, TypeOK
    <2>9. /\ clean' \in {"no", "provider", "bridge", "media", "caller", "close", "history", "remove", "done"}
      /\ row' \in {"none", "abandoned", "full"}
      BY <1>44, <1>1 DEF RemoveCall, asterisk, server, provider, TypeOK
    <2> QED
      BY <2>1, <2>2, <2>3, <2>4, <2>5, <2>6, <2>7, <2>8, <2>9 DEF TypeOK
  <1>45. ASSUME NEW c \in Channels, OnStasisEnd(c) PROVE TypeOK'
    <2>1. caller' \in {"up", "gone"} /\ media' \in {"none", "up", "gone"} /\ bridge' \in {"none", "up", "gone"}
      BY <1>45, <1>1 DEF OnStasisEnd, Enter, provider, record, server, TypeOK
    <2>2. events' \subseteq Channels \X {"StasisStart", "StasisEnd", "ChannelDestroyed"}
      BY <1>45, <1>1 DEF OnStasisEnd, Enter, provider, record, server, TypeOK, Channels
    <2>3. req' \in {"none", "sent", "done", "late", "stray"} /\ slot' \in {"none", "open", "bound", "failed"}
      BY <1>45, <1>1 DEF OnStasisEnd, Enter, provider, record, server, TypeOK
    <2>4. drop' \in BOOLEAN /\ stored' \in BOOLEAN
      BY <1>45, <1>1 DEF OnStasisEnd, Enter, provider, record, server, TypeOK
    <2>5. listed' \in BOOLEAN /\ seen' \in BOOLEAN
      BY <1>45, <1>1 DEF OnStasisEnd, Enter, provider, record, server, TypeOK
    <2>6. sess' \in SessionType
      BY <1>45, <1>1 DEF OnStasisEnd, Enter, provider, record, server, TypeOK, SessionType
    <2>7. maps' \subseteq {"pending", "owner"}
      BY <1>45, <1>1 DEF OnStasisEnd, Enter, provider, record, server, TypeOK
    <2>8. /\ lock' \in {"none", "setup", "aux"} /\ tries' \in 0..AttachAttempts
      /\ setup' \in {"answer", "join", "joined", "profile", "announce", "post", "attach", "adding",
                    "wait", "waiting", "provider", "done"}
      /\ aux' \in {"none", "attach", "adding", "done"}
      /\ prov' \in {"idle", "tools", "opening", "undo", "announce"}
      /\ inst' \in {"none", "open", "cut"}
      BY <1>45, <1>1 DEF OnStasisEnd, Enter, provider, record, server, TypeOK
    <2>9. /\ clean' \in {"no", "provider", "bridge", "media", "caller", "close", "history", "remove", "done"}
      /\ row' \in {"none", "abandoned", "full"}
      BY <1>45, <1>1 DEF OnStasisEnd, Enter, provider, record, server, TypeOK
    <2> QED
      BY <2>1, <2>2, <2>3, <2>4, <2>5, <2>6, <2>7, <2>8, <2>9 DEF TypeOK
  <1>46. ASSUME NEW c \in Channels, OnChannelDestroyed(c) PROVE TypeOK'
    <2>1. caller' \in {"up", "gone"} /\ media' \in {"none", "up", "gone"} /\ bridge' \in {"none", "up", "gone"}
      BY <1>46, <1>1 DEF OnChannelDestroyed, Enter, provider, record, server, TypeOK
    <2>2. events' \subseteq Channels \X {"StasisStart", "StasisEnd", "ChannelDestroyed"}
      BY <1>46, <1>1 DEF OnChannelDestroyed, Enter, provider, record, server, TypeOK, Channels
    <2>3. req' \in {"none", "sent", "done", "late", "stray"} /\ slot' \in {"none", "open", "bound", "failed"}
      BY <1>46, <1>1 DEF OnChannelDestroyed, Enter, provider, record, server, TypeOK
    <2>4. drop' \in BOOLEAN /\ stored' \in BOOLEAN
      BY <1>46, <1>1 DEF OnChannelDestroyed, Enter, provider, record, server, TypeOK
    <2>5. listed' \in BOOLEAN /\ seen' \in BOOLEAN
      BY <1>46, <1>1 DEF OnChannelDestroyed, Enter, provider, record, server, TypeOK
    <2>6. sess' \in SessionType
      BY ZenonT(60), <1>46, <1>1 DEF OnChannelDestroyed, Enter, provider, record, server, TypeOK, SessionType
    <2>7. maps' \subseteq {"pending", "owner"}
      BY <1>46, <1>1 DEF OnChannelDestroyed, Enter, provider, record, server, TypeOK
    <2>8. /\ lock' \in {"none", "setup", "aux"} /\ tries' \in 0..AttachAttempts
      /\ setup' \in {"answer", "join", "joined", "profile", "announce", "post", "attach", "adding",
                    "wait", "waiting", "provider", "done"}
      /\ aux' \in {"none", "attach", "adding", "done"}
      /\ prov' \in {"idle", "tools", "opening", "undo", "announce"}
      /\ inst' \in {"none", "open", "cut"}
      BY <1>46, <1>1 DEF OnChannelDestroyed, Enter, provider, record, server, TypeOK
    <2>9. /\ clean' \in {"no", "provider", "bridge", "media", "caller", "close", "history", "remove", "done"}
      /\ row' \in {"none", "abandoned", "full"}
      BY <1>46, <1>1 DEF OnChannelDestroyed, Enter, provider, record, server, TypeOK
    <2> QED
      BY <2>1, <2>2, <2>3, <2>4, <2>5, <2>6, <2>7, <2>8, <2>9 DEF TypeOK
  <1>47. CASE UNCHANGED vars
    BY <1>47, <1>1 DEF vars, asterisk, server, session, provider, record, TypeOK, SessionType, Channels
  <1> QED
    BY <1>1, <1>2, <1>3, <1>4, <1>5, <1>6, <1>7, <1>8, <1>9, <1>10, <1>11, <1>12, <1>13, <1>14, <1>15, <1>16, <1>17, <1>18, <1>19, <1>20, <1>21, <1>22, <1>23, <1>24, <1>25, <1>26, <1>27, <1>28, <1>29, <1>30, <1>31, <1>32, <1>33, <1>34, <1>35, <1>36, <1>37, <1>38, <1>39, <1>40, <1>41, <1>42, <1>43, <1>44, <1>45, <1>46, <1>47 DEF Next, Setup, Aux, Provider, Cleanup

\* What was released stays released, step by step.
LEMMA ReleasesKept ==
  ASSUME LifecycleHeld, [Next]_vars
  PROVE  Guarded' /\ Named' /\ Listed' /\ ProviderStopped' /\ BridgeGone' /\ LegGone' /\ SlotGone'
  <1>1. TypeOK /\ Guarded /\ Named /\ Listed /\ ProviderStopped /\ BridgeGone /\ LegGone /\ SlotGone
    BY DEF LifecycleHeld
  <1>0. TypeOK'
    BY <1>1, TypeKept
  <1>2. CASE CallerLeaves
    BY <1>2, <1>0, <1>1 DEF CallerLeaves, HangUpCaller, Ends, server, session, provider, record, TypeOK, SessionType, Guarded, Named, Listed, ProviderStopped, BridgeGone, LegGone, SlotGone
  <1>3. CASE MediaDrops
    BY <1>3, <1>0, <1>1 DEF MediaDrops, HangUpMedia, Ends, server, session, provider, record, TypeOK, SessionType, Guarded, Named, Listed, ProviderStopped, BridgeGone, LegGone, SlotGone
  <1>4. CASE CreateMedia
    BY <1>4, <1>0, <1>1 DEF CreateMedia, server, session, provider, record, TypeOK, SessionType, Guarded, Named, Listed, ProviderStopped, BridgeGone, LegGone, SlotGone
  <1>5. CASE MediaStart
    BY <1>5, <1>0, <1>1 DEF MediaStart, asterisk, session, provider, record, TypeOK, SessionType, Guarded, Named, Listed, ProviderStopped, BridgeGone, LegGone, SlotGone
  <1>6. CASE SocketCloses
    BY <1>6, <1>0, <1>1 DEF SocketCloses, asterisk, session, provider, record, TypeOK, SessionType, Guarded, Named, Listed, ProviderStopped, BridgeGone, LegGone, SlotGone
  <1>7. CASE CallerJoined
    BY <1>7, <1>0, <1>1 DEF CallerJoined, asterisk, server, session, provider, record, TypeOK, SessionType, Guarded, Named, Listed, ProviderStopped, BridgeGone, LegGone, SlotGone
  <1>8. CASE ProfileSaved
    BY <1>8, <1>0, <1>1 DEF ProfileSaved, asterisk, server, provider, record, TypeOK, SessionType, Guarded, Named, Listed, ProviderStopped, BridgeGone, LegGone, SlotGone
  <1>9. CASE AudioAsks
    BY <1>9, <1>0, <1>1 DEF AudioAsks, IsActive, asterisk, server, session, record, TypeOK, SessionType, Guarded, Named, Listed, ProviderStopped, BridgeGone, LegGone, SlotGone
  <1>10. CASE NotAdmitted
    BY <1>10, <1>0, <1>1 DEF NotAdmitted, HangUpCaller, Ends, server, session, provider, record, TypeOK, SessionType, Guarded, Named, Listed, ProviderStopped, BridgeGone, LegGone, SlotGone
  <1>11. CASE CreateBridge
    BY <1>11, <1>0, <1>1 DEF CreateBridge, server, session, provider, record, TypeOK, SessionType, Guarded, Named, Listed, ProviderStopped, BridgeGone, LegGone, SlotGone
  <1>12. CASE NotBridged
    BY <1>12, <1>0, <1>1 DEF NotBridged, Enter, provider, record, server, TypeOK, SessionType, Guarded, Named, Listed, ProviderStopped, BridgeGone, LegGone, SlotGone
  <1>13. CASE Register
    BY <1>13, <1>0, <1>1 DEF Register, asterisk, server, provider, record, TypeOK, SessionType, Guarded, Named, Listed, ProviderStopped, BridgeGone, LegGone, SlotGone
  <1>14. CASE ProfileRefused
    BY <1>14, <1>0, <1>1 DEF ProfileRefused, asterisk, server, provider, record, TypeOK, SessionType, Guarded, Named, Listed, ProviderStopped, BridgeGone, LegGone, SlotGone
  <1>15. CASE Announced
    BY <1>15, <1>0, <1>1 DEF Announced, HangUpCaller, Ends, server, session, provider, record, TypeOK, SessionType, Guarded, Named, Listed, ProviderStopped, BridgeGone, LegGone, SlotGone
  <1>16. CASE AskForMedia
    BY <1>16, <1>0, <1>1 DEF AskForMedia, IsActive, provider, record, TypeOK, SessionType, Guarded, Named, Listed, ProviderStopped, BridgeGone, LegGone, SlotGone
  <1>17. CASE NoMedia
    BY <1>17, <1>0, <1>1 DEF NoMedia, Enter, provider, record, asterisk, server, TypeOK, SessionType, Guarded, Named, Listed, ProviderStopped, BridgeGone, LegGone, SlotGone
  <1>18. CASE MediaCreated
    BY <1>18, <1>0, <1>1 DEF MediaCreated, IsActive, asterisk, server, session, provider, record, TypeOK, SessionType, Guarded, Named, Listed, ProviderStopped, BridgeGone, LegGone, SlotGone
  <1>19. CASE MediaTooLate
    BY <1>19, <1>0, <1>1 DEF MediaTooLate, HangUpMedia, Ends, IsActive, Unregister, Enter, provider, record, TypeOK, SessionType, Guarded, Named, Listed, ProviderStopped, BridgeGone, LegGone, SlotGone
  <1>20. CASE MediaFailed
    BY <1>20, <1>0, <1>1 DEF MediaFailed, HangUpMedia, Ends, IsActive, Unregister, Enter, provider, record, TypeOK, SessionType, Guarded, Named, Listed, ProviderStopped, BridgeGone, LegGone, SlotGone
  <1>21. CASE AttachTry
    BY <1>21, <1>0, <1>1 DEF AttachTry, IsOwned, IsActive, asterisk, server, session, provider, record, TypeOK, SessionType, Guarded, Named, Listed, ProviderStopped, BridgeGone, LegGone, SlotGone
  <1>22. CASE AttachDone
    BY <1>22, <1>0, <1>1 DEF AttachDone, Joins, IsOwned, IsActive, asterisk, server, provider, record, TypeOK, SessionType, Guarded, Named, Listed, ProviderStopped, BridgeGone, LegGone, SlotGone
  <1>23. CASE AttachGivenUp
    BY <1>23, <1>0, <1>1 DEF AttachGivenUp, Enter, provider, record, asterisk, server, TypeOK, SessionType, Guarded, Named, Listed, ProviderStopped, BridgeGone, LegGone, SlotGone
  <1>24. CASE WaitBegins
    BY <1>24, <1>0, <1>1 DEF WaitBegins, IsOwned, IsActive, asterisk, server, session, provider, record, TypeOK, SessionType, Guarded, Named, Listed, ProviderStopped, BridgeGone, LegGone, SlotGone
  <1>25. CASE WaitRefused
    BY <1>25, <1>0, <1>1 DEF WaitRefused, IsOwned, IsActive, Enter, provider, record, asterisk, server, TypeOK, SessionType, Guarded, Named, Listed, ProviderStopped, BridgeGone, LegGone, SlotGone
  <1>26. CASE Ready
    BY <1>26, <1>0, <1>1 DEF Ready, IsOwned, IsActive, asterisk, server, provider, record, TypeOK, SessionType, Guarded, Named, Listed, ProviderStopped, BridgeGone, LegGone, SlotGone
  <1>27. CASE NotReady
    BY <1>27, <1>0, <1>1 DEF NotReady, IsOwned, IsActive, Enter, provider, record, asterisk, server, TypeOK, SessionType, Guarded, Named, Listed, ProviderStopped, BridgeGone, LegGone, SlotGone
  <1>28. CASE SetupEnds
    BY <1>28, <1>0, <1>1 DEF SetupEnds, asterisk, server, session, provider, record, TypeOK, SessionType, Guarded, Named, Listed, ProviderStopped, BridgeGone, LegGone, SlotGone
  <1>29. CASE AuxTry
    BY <1>29, <1>0, <1>1 DEF AuxTry, IsOwned, IsActive, asterisk, server, session, provider, record, TypeOK, SessionType, Guarded, Named, Listed, ProviderStopped, BridgeGone, LegGone, SlotGone
  <1>30. CASE AuxDone
    BY <1>30, <1>0, <1>1 DEF AuxDone, Joins, IsOwned, IsActive, asterisk, server, provider, record, TypeOK, SessionType, Guarded, Named, Listed, ProviderStopped, BridgeGone, LegGone, SlotGone
  <1>31. CASE ToolsDone
    BY <1>31, <1>0, <1>1 DEF ToolsDone, IsActive, asterisk, server, session, record, TypeOK, SessionType, Guarded, Named, Listed, ProviderStopped, BridgeGone, LegGone, SlotGone
  <1>32. CASE ProviderStarts
    BY <1>32, <1>0, <1>1 DEF ProviderStarts, asterisk, server, record, TypeOK, SessionType, Guarded, Named, Listed, ProviderStopped, BridgeGone, LegGone, SlotGone
  <1>33. CASE ProviderFails
    BY <1>33, <1>0, <1>1 DEF ProviderFails, asterisk, server, session, record, TypeOK, SessionType, Guarded, Named, Listed, ProviderStopped, BridgeGone, LegGone, SlotGone
  <1>34. CASE ProviderUndone
    BY <1>34, <1>0, <1>1 DEF ProviderUndone, asterisk, server, record, TypeOK, SessionType, Guarded, Named, Listed, ProviderStopped, BridgeGone, LegGone, SlotGone
  <1>35. CASE FailureAnnounced
    BY <1>35, <1>0, <1>1 DEF FailureAnnounced, HangUpCaller, Ends, server, session, record, TypeOK, SessionType, Guarded, Named, Listed, ProviderStopped, BridgeGone, LegGone, SlotGone
  <1>36. CASE OnMediaStart
    BY <1>36, <1>0, <1>1 DEF OnMediaStart, Ends, server, session, provider, record, TypeOK, SessionType, Guarded, Named, Listed, ProviderStopped, BridgeGone, LegGone, SlotGone
  <1>37. CASE OnDisconnect
    <2>1. CASE stored
      <3> DEFINE e == [sess EXCEPT !.conn = "closed"]
      <3>1. e.cleaning = sess.cleaning /\ e.mid = sess.mid /\ e.conn = "closed"
        BY <1>1 DEF TypeOK, SessionType
      <3>2. [e EXCEPT !.cleaning = TRUE].cleaning = TRUE /\ [e EXCEPT !.cleaning = TRUE].mid = sess.mid
            /\ [e EXCEPT !.cleaning = TRUE].conn = "closed"
        BY <1>1 DEF TypeOK, SessionType
      <3>3. sess' = IF clean = "no" THEN [e EXCEPT !.cleaning = TRUE] ELSE e
        BY <1>37, <2>1 DEF OnDisconnect, Enter
      <3>4. clean' = (IF clean = "no" THEN "provider" ELSE clean) /\ stored' = stored
        BY <1>37, <2>1 DEF OnDisconnect, Enter
      <3>5. sess'.mid = sess.mid /\ sess'.conn = "closed" /\ (sess'.cleaning <=> clean' # "no")
        <4>1. CASE clean = "no"
          BY <4>1, <3>2, <3>3, <3>4
        <4>2. CASE clean # "no"
          BY <4>2, <3>1, <3>3, <3>4, <1>1 DEF Guarded
        <4> QED
          BY <4>1, <4>2
      <3>6. /\ UNCHANGED <<media, bridge, req, slot, setup, prov, listed, inst>>
            /\ maps' \subseteq maps
        BY <1>37, <2>1 DEF OnDisconnect, asterisk, provider
      <3> HIDE DEF e
      <3>7. Guarded'
        BY <3>4, <3>5, <3>6, <2>1, <1>1 DEF TypeOK, Guarded
      <3>8. Named'
        BY <3>4, <3>5, <3>6, <2>1, <1>1 DEF TypeOK, Named, Guarded
      <3>9. Listed'
        BY <3>4, <3>5, <3>6, <2>1, <1>1 DEF TypeOK, Listed, Guarded
      <3>10. ProviderStopped'
        BY <3>4, <3>5, <3>6, <2>1, <1>1 DEF TypeOK, ProviderStopped, Guarded
      <3>11. BridgeGone'
        BY <3>4, <3>5, <3>6, <2>1, <1>1 DEF TypeOK, BridgeGone, Guarded
      <3>12. LegGone'
        BY <3>4, <3>5, <3>6, <2>1, <1>1 DEF TypeOK, LegGone, Guarded
      <3>13. SlotGone'
        BY <3>4, <3>5, <3>6, <2>1, <1>1 DEF TypeOK, SlotGone, Guarded
      <3> QED
        BY <3>7, <3>8, <3>9, <3>10, <3>11, <3>12, <3>13
    <2>2. CASE ~stored
      BY <1>37, <1>0, <1>1, <2>2 DEF OnDisconnect, Enter, provider, record, asterisk, TypeOK, SessionType, Guarded, Named, Listed, ProviderStopped, BridgeGone, LegGone, SlotGone
    <2> QED
      BY <2>1, <2>2
  <1>38. CASE StopProvider
    BY <1>38, <1>0, <1>1 DEF StopProvider, asterisk, server, session, provider, record, TypeOK, SessionType, Guarded, Named, Listed, ProviderStopped, BridgeGone, LegGone, SlotGone
  <1>39. CASE DestroyBridge
    BY <1>39, <1>0, <1>1 DEF DestroyBridge, server, session, provider, record, TypeOK, SessionType, Guarded, Named, Listed, ProviderStopped, BridgeGone, LegGone, SlotGone
  <1>40. CASE EndMedia
    BY <1>40, <1>0, <1>1 DEF EndMedia, HangUpMedia, Ends, server, session, provider, record, TypeOK, SessionType, Guarded, Named, Listed, ProviderStopped, BridgeGone, LegGone, SlotGone
  <1>41. CASE EndCaller
    BY <1>41, <1>0, <1>1 DEF EndCaller, HangUpCaller, Ends, server, session, provider, record, TypeOK, SessionType, Guarded, Named, Listed, ProviderStopped, BridgeGone, LegGone, SlotGone
  <1>42. CASE CloseMedia
    BY <1>42, <1>0, <1>1 DEF CloseMedia, Unregister, asterisk, provider, record, TypeOK, SessionType, Guarded, Named, Listed, ProviderStopped, BridgeGone, LegGone, SlotGone
  <1>43. CASE WriteHistory
    BY <1>43, <1>0, <1>1 DEF WriteHistory, asterisk, server, session, provider, TypeOK, SessionType, Guarded, Named, Listed, ProviderStopped, BridgeGone, LegGone, SlotGone
  <1>44. CASE RemoveCall
    BY <1>44, <1>0, <1>1 DEF RemoveCall, asterisk, server, provider, TypeOK, SessionType, Guarded, Named, Listed, ProviderStopped, BridgeGone, LegGone, SlotGone
  <1>45. ASSUME NEW c \in Channels, OnStasisEnd(c) PROVE Guarded' /\ Named' /\ Listed' /\ ProviderStopped' /\ BridgeGone' /\ LegGone' /\ SlotGone'
    BY <1>45, <1>0, <1>1 DEF OnStasisEnd, Enter, provider, record, server, TypeOK, SessionType, Guarded, Named, Listed, ProviderStopped, BridgeGone, LegGone, SlotGone
  <1>46. ASSUME NEW c \in Channels, OnChannelDestroyed(c) PROVE Guarded' /\ Named' /\ Listed' /\ ProviderStopped' /\ BridgeGone' /\ LegGone' /\ SlotGone'
    <2> DEFINE Early == c = "media" /\ "pending" \in maps
    <2>1. CASE Early /\ stored
      <3> DEFINE e == [sess EXCEPT !.conn = "closed"]
      <3>1. e.cleaning = sess.cleaning /\ e.mid = sess.mid /\ e.conn = "closed"
        BY <1>1 DEF TypeOK, SessionType
      <3>2. [e EXCEPT !.cleaning = TRUE].cleaning = TRUE /\ [e EXCEPT !.cleaning = TRUE].mid = sess.mid
            /\ [e EXCEPT !.cleaning = TRUE].conn = "closed"
        BY <1>1 DEF TypeOK, SessionType
      <3>3. sess' = IF clean = "no" THEN [e EXCEPT !.cleaning = TRUE] ELSE e
        BY <1>46, <2>1 DEF OnChannelDestroyed, Enter
      <3>4. clean' = (IF clean = "no" THEN "provider" ELSE clean) /\ stored' = stored
        BY <1>46, <2>1 DEF OnChannelDestroyed, Enter
      <3>5. sess'.mid = sess.mid /\ sess'.conn = "closed" /\ (sess'.cleaning <=> clean' # "no")
        <4>1. CASE clean = "no"
          BY <4>1, <3>2, <3>3, <3>4
        <4>2. CASE clean # "no"
          BY <4>2, <3>1, <3>3, <3>4, <1>1 DEF Guarded
        <4> QED
          BY <4>1, <4>2
      <3>6. /\ UNCHANGED <<media, bridge, req, slot, setup, prov, listed, inst>>
            /\ maps' \subseteq maps
        BY <1>46, <2>1 DEF OnChannelDestroyed, server, provider
      <3> HIDE DEF e
      <3> QED
        BY <3>4, <3>5, <3>6, <2>1, <1>1 DEF TypeOK, Guarded, Named, Listed, ProviderStopped, BridgeGone, LegGone, SlotGone
    <2>2. CASE Early /\ ~stored
      BY <1>46, <1>0, <1>1, <2>2 DEF OnChannelDestroyed, Enter, provider, record, server, TypeOK, SessionType, Guarded, Named, Listed, ProviderStopped, BridgeGone, LegGone, SlotGone
    <2>3. CASE ~Early
      BY <1>46, <1>0, <1>1, <2>3 DEF OnChannelDestroyed, Enter, provider, record, server, TypeOK, SessionType, Guarded, Named, Listed, ProviderStopped, BridgeGone, LegGone, SlotGone
    <2> QED
      BY <2>1, <2>2, <2>3
  <1>47. CASE UNCHANGED vars
    BY <1>47, <1>1 DEF vars, asterisk, server, session, provider, record, Guarded, Named, Listed, ProviderStopped, BridgeGone, LegGone, SlotGone
  <1> QED
    BY <1>2, <1>3, <1>4, <1>5, <1>6, <1>7, <1>8, <1>9, <1>10, <1>11, <1>12, <1>13, <1>14, <1>15, <1>16, <1>17, <1>18, <1>19, <1>20, <1>21, <1>22, <1>23, <1>24, <1>25, <1>26, <1>27, <1>28, <1>29, <1>30, <1>31, <1>32, <1>33, <1>34, <1>35, <1>36, <1>37, <1>38, <1>39, <1>40, <1>41, <1>42, <1>43, <1>44, <1>45, <1>46, <1>47 DEF Next, Setup, Aux, Provider, Cleanup

\* The invariant that makes NothingLeft inductive holds in every behaviour.
THEOREM Held == Spec => []LifecycleHeld
  <1>1. Init => LifecycleHeld
    <2>1. Init => TypeOK
      <3>1. Init => sess \in SessionType
        BY DEF Init, SessionType
      <3>2. ASSUME Init PROVE /\ caller \in {"up", "gone"} /\ media \in {"none", "up", "gone"}
                              /\ bridge \in {"none", "up", "gone"} /\ tries \in 0..AttachAttempts
        BY <3>2, AttemptsAssumption DEF Init
      <3>3. ASSUME Init PROVE events \subseteq Channels \X {"StasisStart", "StasisEnd", "ChannelDestroyed"}
        BY <3>3 DEF Init
      <3>4. ASSUME Init PROVE drop \in BOOLEAN /\ stored \in BOOLEAN /\ listed \in BOOLEAN /\ seen \in BOOLEAN
        BY <3>4 DEF Init
      <3> QED
        BY <3>1, <3>2, <3>3, <3>4 DEF Init, TypeOK
    <2>2. Init => Guarded /\ Named /\ Listed /\ ProviderStopped /\ BridgeGone /\ LegGone /\ SlotGone
      BY DEF Init, Guarded, Named, Listed, ProviderStopped, BridgeGone, LegGone, SlotGone
    <2> QED
      BY <2>1, <2>2 DEF LifecycleHeld
  <1>2. LifecycleHeld /\ [Next]_vars => LifecycleHeld'
    BY TypeKept, ReleasesKept DEF LifecycleHeld
  <1> QED
    BY <1>1, <1>2, PTL DEF Spec

\* Channels, session, provider, tasks and the cleanup keep their shape (_handle_caller_stasis_start_hybrid,
\* _start_provider_session, _cleanup_call), for any number of attach attempts.
THEOREM TypeCorrect == Spec => []TypeOK
  <1>1. LifecycleHeld => TypeOK
    BY DEF LifecycleHeld
  <1> QED
    BY <1>1, Held, PTL

\* When _cleanup_call and the StasisStart handler are both over, the call has no bridge, slot, map
\* entry or provider left, and no media leg but one that Asterisk created after its request was
\* given up, for any number of attach attempts.
THEOREM NothingIsLeft == Spec => []NothingLeft
  <1>1. LifecycleHeld => NothingLeft
    BY DEF LifecycleHeld, NothingLeft, ProviderStopped, BridgeGone, LegGone, SlotGone
  <1> QED
    BY <1>1, Held, PTL
=============================================================================
