---------------------------- MODULE VoiceGateway ----------------------------
(***************************************************************************)
(* The sessions of the voice server (src/server.py): /api/session-config   *)
(* and /api/start store a configuration and return its session id,         *)
(* /api/offer (WebRTC) or /api/ws takes the configuration out and runs the *)
(* bot, and the upload routes look the session up in either table and      *)
(* store media for it.                                                     *)
(*                                                                         *)
(* A step is what the event loop runs between two awaits.  One worker      *)
(* process: with more, every route here answers 503 (lines 178-185).       *)
(***************************************************************************)
EXTENDS MediaStores, FiniteSets

CONSTANTS
  Conns,       \* connections: POST /api/offer or GET /api/ws requests
  Uploads,     \* POST requests with a file
  Allows,      \* configuration -> the capabilities of its example
  MaxRequests, \* capture requests in all (bound of the model)
  NoSession    \* the empty session id

ASSUME NoSessionAssumption == NoSession \notin Sessions
ASSUME AllowsAssumption == Allows \in [{"own", "default"} -> SUBSET {"attachments", "webcam"}]

VARIABLES
  start,     \* session -> where the request that makes it is
  pending,   \* keys of _session_configs
  active,    \* _active_session_configs: session -> which configuration
  conn,      \* connection -> its phase, transport, session id and configuration
  upload,    \* upload -> its phase, session, kind and capture request
  restarted  \* the process has been started anew

vars == <<media, start, pending, active, conn, upload, restarted>>

Ids == Sessions \cup {NoSession}

(* "own" is what was stored for the session id, "default" what             *)
(* _sanitize_session_config makes of an empty dict.                        *)
Configs == {"own", "default"}

(* Where the bot of a connection may still have to take its session out of *)
(* the active table, and where no code is left that would.                 *)
Unfinished == {"signaling", "running"}
Leaking == {"failed", "renegotiated"}
ConnPhases == {"unsent", "checking", "accepting", "ended"} \cup Unfinished \cup Leaking

Transports == {"webrtc", "websocket"}
Kinds == {"attachment", "frame", "capture"}
Needs == [attachment |-> "attachments", frame |-> "webcam", capture |-> "webcam"]
Accepted == {"reading", "stored", "failed"}

TypeOK ==
  /\ MediaTypeOK
  /\ start \in [Sessions -> {"unsent", "checking", "refused", "ready", "lost"}]
  /\ pending \subseteq Sessions
  /\ active \in [Sessions -> {"none"} \cup Configs]
  /\ conn \in [Conns -> [phase : ConnPhases, transport : Transports, session : Ids,
                         config : {"none"} \cup Configs]]
  /\ upload \in [Uploads -> [phase : {"unsent", "refused"} \cup Accepted, session : Ids,
                             kind : Kinds, request : {NoRequest} \cup RequestIds]]
  /\ restarted \in BOOLEAN

(* A connection or an upload that holds nothing of a session. *)
Detached(phase) == [phase |-> phase, transport |-> "webrtc", session |-> NoSession, config |-> "none"]
Without(phase) == [phase |-> phase, session |-> NoSession, kind |-> "frame", request |-> NoRequest]

Init ==
  /\ MediaInit
  /\ start = [s \in Sessions |-> "unsent"]
  /\ pending = {}
  /\ active = [s \in Sessions |-> "none"]
  /\ conn = [c \in Conns |-> Detached("unsent")]
  /\ upload = [u \in Uploads |-> Without("unsent")]
  /\ restarted = FALSE

(* Ids that a client may use: those it was given, however long ago. *)
Announced == {s \in Sessions : start[s] \in {"ready", "lost"}}

-----------------------------------------------------------------------------
(* POST /api/session-config and POST /api/start *)

(* A body that is no JSON object is answered with 400. *)
StartArrives(s) ==
  /\ start[s] = "unsent"
  /\ \E next \in {"checking", "refused"} : start' = [start EXCEPT ![s] = next]
  /\ UNCHANGED <<media, pending, active, conn, upload, restarted>>

(* _store_session_config, under an id no request has used *)
Stored(s) == pending \cup {s}

(* The readiness check returns: 503, or a fresh id is stored and returned. *)
StartChecked(s) ==
  /\ start[s] = "checking"
  /\ \/ /\ start' = [start EXCEPT ![s] = "refused"]
        /\ UNCHANGED pending
     \/ /\ start' = [start EXCEPT ![s] = "ready"]
        /\ pending' = Stored(s)
  /\ UNCHANGED <<media, active, conn, upload, restarted>>

-----------------------------------------------------------------------------
(* Connections *)

Remaining_Read(s) == pending
Remaining(s) == pending \ {s}

(* _resolve_config: an id with nothing stored resolves to the defaults. *)
Resolve(c, s, transport, phase) ==
  /\ pending' = Remaining(s)
  /\ conn' = [conn EXCEPT ![c] = [phase |-> phase, transport |-> transport, session |-> s,
                                  config |-> IF s \in pending THEN "own" ELSE "default"]]

Activated(s, config) ==
  IF s = NoSession THEN active ELSE [active EXCEPT ![s] = config]

(* An offer is in the active table before the handler has looked at it. *)
Offer(c, s) ==
  /\ conn[c].phase = "unsent"
  /\ Resolve(c, s, "webrtc", "signaling")
  /\ active' = Activated(s, conn'[c].config)
  /\ UNCHANGED <<media, start, upload, restarted>>

Move(c, phase) == conn' = [conn EXCEPT ![c].phase = phase]

(* handle_web_request made a peer connection and called back: the bot runs *)
(* as a background task of the response.                                   *)
OfferConnects(c) ==
  /\ conn[c].phase = "signaling"
  /\ Move(c, "running")
  /\ UNCHANGED <<media, start, pending, active, upload, restarted>>

OfferFails(c) ==
  /\ conn[c].phase = "signaling"
  /\ Move(c, "failed")
  /\ UNCHANGED <<media, start, pending, active, upload, restarted>>

(* The offer names a peer connection that is there: it is renegotiated,    *)
(* and nothing calls back.                                                 *)
OfferRenegotiates(c) ==
  /\ conn[c].phase = "signaling"
  /\ \E d \in Conns :
       conn[d] = [conn[c] EXCEPT !.phase = "running", !.config = conn[d].config]
  /\ Move(c, "renegotiated")
  /\ UNCHANGED <<media, start, pending, active, upload, restarted>>

(* Without a session id the services are checked now. *)
WsArrives(c, s) ==
  /\ conn[c].phase = "unsent"
  /\ Resolve(c, s, "websocket", IF s = NoSession THEN "checking" ELSE "accepting")
  /\ UNCHANGED <<media, start, active, upload, restarted>>

WsChecked(c) ==
  /\ conn[c].phase = "checking"
  /\ \E next \in {"accepting", "ended"} : Move(c, next)
  /\ UNCHANGED <<media, start, pending, active, upload, restarted>>

OnAccept(s, config) == Activated(s, config)

WsAccepted(c) ==
  /\ conn[c].phase = "accepting"
  /\ Move(c, "running")
  /\ active' = OnAccept(conn[c].session, conn[c].config)
  /\ UNCHANGED <<media, start, pending, upload, restarted>>

(* websocket.accept raises: the configuration was taken out for nothing. *)
WsLost(c) ==
  /\ conn[c].phase = "accepting"
  /\ Move(c, "ended")
  /\ UNCHANGED <<media, start, pending, active, upload, restarted>>

Deactivated_Kept(s) == active
Deactivated(s) == Activated(s, "none")

(* The bot returns or raises: the finally block, which does not look whose *)
(* entry it takes out.                                                     *)
BotEnds(c) ==
  /\ conn[c].phase = "running"
  /\ Move(c, "ended")
  /\ active' = Deactivated(conn[c].session)
  /\ UNCHANGED <<media, start, pending, upload, restarted>>

-----------------------------------------------------------------------------
(* What a running bot does to the media of its session *)

BotStep(c) ==
  LET s == conn[c].session IN
  /\ conn[c].phase = "running"
  /\ s # NoSession
  /\ \/ /\ Len(asked) < MaxRequests
        /\ CreateCaptureRequest(s)
     \/ ClearMedia(s)
  /\ UNCHANGED <<start, pending, active, conn, upload, restarted>>

-----------------------------------------------------------------------------
(* Uploads *)

(* _session_capability_error; no configuration is an empty dict, since     *)
(* the default prompt is always added to it.                               *)
ConfigOf(s) ==
  IF active[s] # "none" THEN active[s] ELSE IF s \in pending THEN "own" ELSE "none"
Known(s) == ConfigOf(s) # "none"
MayUpload(s, kind) == Known(s) /\ Needs[kind] \in Allows[ConfigOf(s)]

(* The lookup of the session and the capture request come first, and then  *)
(* the body is awaited.                                                    *)
UploadArrives(u, s, kind, r) ==
  /\ upload[u].phase = "unsent"
  /\ (r = NoRequest) <=> (kind # "capture")
  /\ \/ /\ MayUpload(s, kind)
        /\ IF kind = "capture" THEN ConsumeCaptureRequest(s, r) ELSE UNCHANGED media
        /\ upload' = [upload EXCEPT ![u] =
             [phase |-> "reading", session |-> s, kind |-> kind, request |-> r]]
     \/ /\ MayUpload(s, kind) => kind = "capture" /\ ~Outstanding(s, r)
        /\ upload' = [upload EXCEPT ![u] =
             Without("refused")]
        /\ UNCHANGED media
  /\ UNCHANGED <<start, pending, active, conn, restarted>>

UploadStored(u) ==
  LET s == upload[u].session
      r == upload[u].request
  IN
  /\ upload[u].phase = "reading"
  /\ upload' = [upload EXCEPT ![u].phase = "stored"]
  /\ CASE upload[u].kind = "frame" -> StoreFrame(s)
       [] upload[u].kind = "attachment" -> StoreAttachment(s, [source |-> "upload", request |-> NoRequest])
       [] upload[u].kind = "capture" -> StoreAttachment(s, [source |-> "capture", request |-> r])
  /\ UNCHANGED <<start, pending, active, conn, restarted>>

(* The body is empty, over the limit, of the wrong kind, or cut off.  The  *)
(* capture request it was for stays consumed.                              *)
UploadFails(u) ==
  /\ upload[u].phase = "reading"
  /\ upload' = [upload EXCEPT ![u].phase = "failed"]
  /\ UNCHANGED <<media, start, pending, active, conn, restarted>>

-----------------------------------------------------------------------------
(* The process ends, with all it holds in memory, and is started anew. *)

Restart ==
  /\ ~restarted
  /\ restarted' = TRUE
  /\ LoseMedia
  /\ pending' = {}
  /\ active' = [s \in Sessions |-> "none"]
  /\ start' = [s \in Sessions |-> CASE start[s] = "ready" -> "lost"
                                    [] start[s] = "checking" -> "refused"
                                    [] OTHER -> start[s]]
  /\ conn' = [c \in Conns |-> IF conn[c].phase = "unsent" THEN conn[c] ELSE Detached("ended")]
  /\ upload' = [u \in Uploads |-> IF upload[u].phase = "unsent" THEN upload[u] ELSE Without("failed")]

StartStep(s) == StartArrives(s) \/ StartChecked(s)

ConnStep(c) ==
  \/ \E s \in Announced \cup {NoSession} : Offer(c, s) \/ WsArrives(c, s)
  \/ OfferConnects(c)
  \/ OfferFails(c)
  \/ OfferRenegotiates(c)
  \/ WsChecked(c)
  \/ WsAccepted(c)
  \/ WsLost(c)
  \/ BotEnds(c)
  \/ BotStep(c)

UploadStep(u) ==
  \/ \E s \in Announced, kind \in Kinds, r \in {NoRequest} \cup RequestIds : UploadArrives(u, s, kind, r)
  \/ UploadStored(u)
  \/ UploadFails(u)

Next ==
  \/ \E s \in Sessions : StartStep(s)
  \/ \E c \in Conns : ConnStep(c)
  \/ \E u \in Uploads : UploadStep(u)
  \/ Restart

Spec == Init /\ [][Next]_vars

-----------------------------------------------------------------------------
(* Properties *)

Attempts(s) == {c \in Conns : conn[c].session = s}

(* The configuration stored for a session is given to at most one          *)
(* connection, and to none while it still waits: of two offers, retries or *)
(* upgrades with one id, whenever they come, only the first is the session *)
(* that was configured.                                                    *)
ConfigGivenOnce ==
  \A s \in Sessions : \A c \in Attempts(s) : conn[c].config = "own" =>
    /\ s \notin pending
    /\ \A d \in Attempts(s) \ {c} : conn[d].config = "default"

(* The tables know a session exactly as long as it may be used.  A client  *)
(* that was given an id and connects once can upload from the moment it    *)
(* has the id until its bot ends, the handshake of a WebSocket apart; and  *)
(* the active table keeps no session of which every connection came to its *)
(* finally block (offers that failed or were renegotiations never do).     *)
KnownWhileLive ==
  \A s \in Sessions :
    /\ start[s] = "ready" =>
         /\ Attempts(s) = {} => ConfigOf(s) = "own"
         /\ \A c \in Conns : Attempts(s) = {c} /\ conn[c].phase \in Unfinished => ConfigOf(s) = "own"
    /\ active[s] # "none" => \E c \in Attempts(s) : conn[c].phase \in Unfinished \cup Leaking

(* r is the newest capture request that was made for session s. *)
Latest(s, r) == asked[r] = s /\ \A q \in RequestIds : asked[q] = s => q <= r

(* A capture is accepted only for the newest request that the bot made for *)
(* that very session, and only once: not for a duplicate, not for an       *)
(* upload of another session, and not when a newer request has replaced    *)
(* the one it answers, whether that one was answered or not.               *)
CaptureOnce ==
  [][\A u \in Uploads :
       upload[u].phase = "unsent" /\ upload'[u].phase = "reading" /\ upload'[u].kind = "capture" =>
         /\ Latest(upload'[u].session, upload'[u].request)
         /\ \A v \in Uploads : upload[v].phase \in Accepted => upload[v].request # upload'[u].request]_vars
=============================================================================
