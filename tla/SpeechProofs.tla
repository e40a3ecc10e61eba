---------------------------- MODULE SpeechProofs ----------------------------
(***************************************************************************)
(* Proofs about the speech services.                                       *)
(*                                                                         *)
(* SpeechCatalog, for any services, languages and number of requests: what *)
(* is stored and answered belongs to the service that was asked, the       *)
(* languages offered are those all services serve, and a voice found later *)
(* was offered.                                                            *)
(*                                                                         *)
(* ModelPrefetch, for any number of faults: a run that ends with status 0  *)
(* has loaded every model, and while a run works an artifact only changes  *)
(* for the better.  That runs do end in success is liveness and stays with *)
(* TLC.                                                                    *)
(***************************************************************************)
EXTENDS SpeechCatalog, TLAPS

-----------------------------------------------------------------------------
(* The inductive invariant *)

(* The voices that requests for a service have come with. *)
Brought(t) == {request[s].voice : s \in {q \in Requests : request[q].phase # "unsent" /\ request[q].tts = t}}

(* An entry is the answer of its own service, parsed with the voice of a   *)
(* request that asked for that service.                                    *)
EntriesSound ==
  /\ \A t \in Tts : ttsStore[t] # None =>
       ttsStore[t].of = t /\ ttsStore[t].ok /\ ttsStore[t].prefix \in Brought(t)
  /\ \A a \in Asr : asrStore[a] # None => asrStore[a].of = a /\ asrStore[a].ok

(* So is what a request has in hand, and unless it is a failure or of the  *)
(* engine in the process, there is an entry by then.                       *)
HasConfig(q) ==
  /\ q.config \in Config
  /\ q.config.of = q.tts
  /\ q.config.default = q.voice
  /\ q.config.ok /\ q.tts \notin InProcess => ttsStore[q.tts] # None /\ q.config.prefix \in Brought(q.tts)

RequestSound(q) ==
  /\ IF q.phase = "unsent" THEN q.asr = None ELSE q.voice # NoVoice
  /\ q.phase \in {"ttsLatest", "asr", "asrFetch", "over"} => HasConfig(q)
  /\ q.phase \in {"asr", "asrFetch"} => q.asr # None
  /\ q.phase = "over" /\ q.asr # None => q.heard \in AsrResult /\ q.heard.of = q.asr

RequestsSound == \A r \in Requests : RequestSound(request[r])

IInv == TypeOK /\ EntriesSound /\ RequestsSound

-----------------------------------------------------------------------------
(* Steps *)

(* One request goes on, without a change to what it asks for. *)
GoesOn(r, q) ==
  /\ q \in Request /\ q.phase # "unsent"
  /\ q.tts = request[r].tts /\ q.voice = request[r].voice /\ q.asr = request[r].asr
  /\ request' = [request EXCEPT ![r] = q]

(* With it, the voices that requests came with stay the same. *)
LEMMA GoesOnKeeps ==
  ASSUME TypeOK, NEW r \in Requests, NEW q, GoesOn(r, q), request[r].phase # "unsent"
  PROVE  /\ request' \in [Requests -> Request]
         /\ request'[r] = q /\ \A s \in Requests : s # r => request'[s] = request[s]
         /\ \A t : Brought(t)' = Brought(t)
<1>1. /\ request' \in [Requests -> Request]
      /\ request'[r] = q /\ \A s \in Requests : s # r => request'[s] = request[s]
  BY DEF TypeOK, GoesOn
<1>2. \A s \in Requests : /\ request'[s].tts = request[s].tts
                          /\ request'[s].voice = request[s].voice
                          /\ request'[s].phase = "unsent" <=> request[s].phase = "unsent"
  BY <1>1 DEF GoesOn
<1>3. ASSUME NEW t PROVE Brought(t)' = Brought(t)
  <2>1. {s \in Requests : request'[s].phase # "unsent" /\ request'[s].tts = t}
          = {s \in Requests : request[s].phase # "unsent" /\ request[s].tts = t}
    BY <1>2
  <2> QED BY <1>2, <2>1 DEF Brought
<1> QED BY <1>1, <1>3

(* No entry of a TTS service is taken out or changed but to a sound one.   *)
LEMMA GoesOnSound ==
  ASSUME IInv, NEW r \in Requests, NEW q, GoesOn(r, q), request[r].phase # "unsent",
         ttsStore' \in [Tts -> Config \cup {None}], latest' \in Config \cup {None},
         asrStore' \in [Asr -> AsrResult \cup {None}],
         \A t \in Tts : \/ ttsStore'[t] = ttsStore[t]
                        \/ /\ ttsStore'[t] # None /\ ttsStore'[t].of = t /\ ttsStore'[t].ok
                           /\ ttsStore'[t].prefix \in Brought(t),
         \A a \in Asr : \/ asrStore'[a] = asrStore[a]
                        \/ asrStore'[a].of = a /\ asrStore'[a].ok,
         q.phase \in {"ttsLatest", "asr", "asrFetch", "over"} =>
           /\ q.config \in Config /\ q.config.of = q.tts /\ q.config.default = q.voice
           /\ q.config.ok /\ q.tts \notin InProcess =>
                ttsStore'[q.tts] # None /\ q.config.prefix \in Brought(q.tts),
         q.phase \in {"asr", "asrFetch"} => q.asr # None,
         q.phase = "over" /\ q.asr # None => q.heard \in AsrResult /\ q.heard.of = q.asr
  PROVE  IInv'
<1>1. /\ request' \in [Requests -> Request]
      /\ request'[r] = q /\ \A s \in Requests : s # r => request'[s] = request[s]
      /\ \A t : Brought(t)' = Brought(t)
  BY GoesOnKeeps DEF IInv
<1>2. TypeOK'
  BY <1>1 DEF TypeOK
<1>3. EntriesSound'
  BY <1>1 DEF IInv, EntriesSound
<1>4. \A s \in Requests : RequestSound(request[s])
  BY DEF IInv, RequestsSound
<1>5. q.voice # NoVoice
  BY <1>4 DEF RequestSound, GoesOn
<1>6. RequestSound(q)'
  BY <1>1, <1>5 DEF RequestSound, HasConfig, GoesOn
<1>7. ASSUME NEW s \in Requests, s # r PROVE RequestSound(request[s])'
  <2>1. RequestSound(request[s]) /\ request'[s] = request[s] /\ request[s].tts \in Tts
    BY <1>1, <1>4, <1>7 DEF IInv, TypeOK, Request
  <2> QED BY <1>1, <2>1 DEF RequestSound, HasConfig
<1>8. RequestsSound'
  BY <1>1, <1>6, <1>7 DEF RequestsSound
<1> QED BY <1>2, <1>3, <1>8 DEF IInv

LEMMA ParsedTyped ==
  ASSUME NEW t \in Tts, NEW v \in Voices, NEW ok \in BOOLEAN
  PROVE  /\ Parsed(t, v, ok) \in Config /\ Parsed(t, v, ok) # None
         /\ Parsed(t, v, ok).of = t /\ Parsed(t, v, ok).default = v
         /\ Parsed(t, v, ok).ok = ok /\ Parsed(t, v, ok).prefix = v
<1>1. Parsed(t, v, ok) \in Config
  BY DEF Parsed, Config
<1> QED BY <1>1, EntryAssumption DEF Parsed

(* A stored configuration with the voice of the request as its default. *)
LEMMA HitTyped ==
  ASSUME IInv, NEW t \in Tts, NEW v \in Tts, ttsStore[t] # None
  PROVE  /\ Hit(t, v) \in Config /\ Hit(t, v).of = t /\ Hit(t, v).default = v
         /\ Hit(t, v).ok /\ Hit(t, v).prefix \in Brought(t)
<1>1. v # NoVoice
  BY VoiceAssumption
<1>2. Hit(t, v) = [ttsStore[t] EXCEPT !.default = v]
  BY <1>1 DEF Hit, Key
<1>3. ttsStore[t] \in Config /\ ttsStore[t].of = t /\ ttsStore[t].ok /\ ttsStore[t].prefix \in Brought(t)
  BY DEF IInv, TypeOK, EntriesSound
<1>4. /\ Hit(t, v) \in Config /\ Hit(t, v).default = v
      /\ Hit(t, v).of = ttsStore[t].of /\ Hit(t, v).ok = ttsStore[t].ok
      /\ Hit(t, v).prefix = ttsStore[t].prefix
  BY <1>2, <1>3 DEF Config, Voices
<1> QED BY <1>3, <1>4

(* The thread has a TTS configuration in hand.                             *)
LEMMA HasTtsSound ==
  ASSUME IInv, NEW r \in Requests, request[r].phase # "unsent", NEW config \in Config, HasTts(r, config),
         ttsStore' \in [Tts -> Config \cup {None}], latest' \in Config \cup {None},
         UNCHANGED asrStore,
         \A t \in Tts : \/ ttsStore'[t] = ttsStore[t]
                        \/ /\ ttsStore'[t] # None /\ ttsStore'[t].of = t /\ ttsStore'[t].ok
                           /\ ttsStore'[t].prefix \in Brought(t),
         config.of = request[r].tts, config.default = request[r].voice,
         config.ok /\ request[r].tts \notin InProcess =>
           ttsStore'[request[r].tts] # None /\ config.prefix \in Brought(request[r].tts)
  PROVE  IInv'
<1> DEFINE q == IF request[r].asr # None
                  THEN [request[r] EXCEPT !.config = config, !.phase = "asr"]
                  ELSE [request[r] EXCEPT !.config = config, !.phase = "over", !.reply = "answer"]
<1>1. request[r] \in Request /\ request \in [Requests -> Request]
  BY DEF IInv, TypeOK
<1>2. request' = [request EXCEPT ![r] = q]
  BY DEF HasTts
<1>3. /\ q \in Request /\ q.phase = IF request[r].asr # None THEN "asr" ELSE "over"
      /\ q.tts = request[r].tts /\ q.voice = request[r].voice /\ q.asr = request[r].asr
      /\ q.config = config
  BY <1>1 DEF Request, Phases
<1>. HIDE DEF q
<1>4. GoesOn(r, q)
  BY <1>2, <1>3 DEF GoesOn
<1>5. asrStore' \in [Asr -> AsrResult \cup {None}]
  BY DEF IInv, TypeOK
<1>6. /\ q.phase \in {"asr", "asrFetch"} => q.asr # None
      /\ ~ (q.phase = "over" /\ q.asr # None)
  BY <1>3
<1> QED BY <1>3, <1>4, <1>5, <1>6, GoesOnSound

(* It has one that is in the store, and is to make it the latest.          *)
LEMMA HoldsSound ==
  ASSUME IInv, NEW r \in Requests, request[r].phase # "unsent", NEW config \in Config, Holds(r, config),
         ttsStore' \in [Tts -> Config \cup {None}], UNCHANGED <<latest, asrStore>>,
         \A t \in Tts : \/ ttsStore'[t] = ttsStore[t]
                        \/ /\ ttsStore'[t] # None /\ ttsStore'[t].of = t /\ ttsStore'[t].ok
                           /\ ttsStore'[t].prefix \in Brought(t),
         config.of = request[r].tts, config.default = request[r].voice,
         config.ok /\ request[r].tts \notin InProcess =>
           ttsStore'[request[r].tts] # None /\ config.prefix \in Brought(request[r].tts)
  PROVE  IInv'
<1> DEFINE q == [request[r] EXCEPT !.config = config, !.phase = "ttsLatest"]
<1>1. request[r] \in Request /\ request \in [Requests -> Request]
  BY DEF IInv, TypeOK
<1>2. request' = [request EXCEPT ![r] = q]
  BY <1>1 DEF Holds
<1>3. /\ q \in Request /\ q.phase = "ttsLatest" /\ q.config = config
      /\ q.tts = request[r].tts /\ q.voice = request[r].voice /\ q.asr = request[r].asr
  BY <1>1 DEF Request, Phases
<1>. HIDE DEF q
<1>4. GoesOn(r, q)
  BY <1>2, <1>3 DEF GoesOn
<1>5. /\ asrStore' \in [Asr -> AsrResult \cup {None}] /\ latest' \in Config \cup {None}
  BY DEF IInv, TypeOK
<1> QED BY <1>3, <1>4, <1>5, GoesOnSound

(* The thread has the answer of the ASR service as well, and is done.      *)
LEMMA HasAsrSound ==
  ASSUME IInv, NEW r \in Requests, request[r].phase \in {"asr", "asrFetch"}, NEW heard \in AsrResult,
         heard.of = request[r].asr, HasAsr(r, heard), UNCHANGED <<ttsStore, latest>>,
         asrStore' \in [Asr -> AsrResult \cup {None}],
         \A a \in Asr : \/ asrStore'[a] = asrStore[a]
                        \/ asrStore'[a].of = a /\ asrStore'[a].ok
  PROVE  IInv'
<1> DEFINE q == [request[r] EXCEPT !.heard = heard, !.phase = "over", !.reply = Replied(r)]
<1>1. request[r] \in Request /\ request \in [Requests -> Request] /\ RequestSound(request[r])
  BY DEF IInv, TypeOK, RequestsSound
<1>2. request' = [request EXCEPT ![r] = q]
  BY <1>1 DEF HasAsr
<1>3. Replied(r) \in {None, "answer", "timeout"}
  BY <1>1 DEF Replied, Request
<1>4. /\ q \in Request /\ q.phase = "over"
      /\ q.tts = request[r].tts /\ q.voice = request[r].voice /\ q.asr = request[r].asr
      /\ q.config = request[r].config /\ q.heard = heard
  BY <1>1, <1>3 DEF Request, Phases
<1>. HIDE DEF q
<1>5. GoesOn(r, q)
  BY <1>2, <1>4 DEF GoesOn
<1>6. /\ ttsStore' \in [Tts -> Config \cup {None}] /\ latest' \in Config \cup {None}
      /\ \A t \in Tts : ttsStore'[t] = ttsStore[t]
  BY DEF IInv, TypeOK
<1>7. HasConfig(request[r])
  BY <1>1 DEF RequestSound
<1> QED BY <1>4, <1>5, <1>6, <1>7, GoesOnSound DEF HasConfig

LEMMA AskSound ==
  ASSUME IInv, NEW r \in Requests, NEW t \in Tts, NEW a \in Asr \cup {None}, NEW given \in {NoVoice, t},
         Ask(r, t, given, a)
  PROVE  IInv'
<1> DEFINE v == ResolvedVoice(given)
<1>0. PICK q : q = IF a = None /\ ttsStore[t] # None
                     THEN Asked(t, v, a, "over", Hit(t, v), "answer")
                     ELSE Asked(t, v, a, "tts", None, None)
  OBVIOUS
<1>1. v \in Tts /\ v # NoVoice
  BY DefaultAssumption, VoiceAssumption DEF ResolvedVoice
<1>2. request' = [request EXCEPT ![r] = q] /\ UNCHANGED <<ttsStore, latest, asrStore>>
  BY <1>0 DEF Ask, Key
<1>. HIDE DEF v
<1>3. /\ q \in Request /\ q.tts = t /\ q.voice = v /\ q.phase # "unsent"
      /\ q.phase \in {"tts", "over"}
      /\ q.phase = "over" => /\ q.asr = None /\ ttsStore[t] # None
                             /\ q.config = Hit(t, v)
  <2>1. CASE a = None /\ ttsStore[t] # None
    <3>1. Hit(t, v) \in Config
      BY <1>1, <2>1, HitTyped
    <3> QED BY <1>0, <1>1, <2>1, <3>1 DEF Asked, Request, Phases, Voices
  <2>2. CASE ~ (a = None /\ ttsStore[t] # None)
    BY <1>0, <1>1, <2>2 DEF Asked, Request, Phases, Voices
  <2> QED BY <2>1, <2>2
<1>4. /\ request' \in [Requests -> Request] /\ request'[r] = q
      /\ \A s \in Requests : s # r => request'[s] = request[s]
  BY <1>2, <1>3 DEF IInv, TypeOK
<1>5. \A u : Brought(u) \subseteq Brought(u)'
  <2>1. request[r].phase = "unsent"
    BY DEF Ask
  <2>2. ASSUME NEW u, NEW s \in Requests, request[s].phase # "unsent", request[s].tts = u
        PROVE  request[s].voice \in Brought(u)'
    <3>1. request'[s] = request[s]
      BY <1>4, <2>1, <2>2
    <3> QED BY <2>2, <3>1 DEF Brought
  <2> QED BY <2>2 DEF Brought
<1>6. TypeOK' /\ EntriesSound'
  BY <1>2, <1>4, <1>5 DEF IInv, TypeOK, EntriesSound
<1>7. RequestSound(q)'
  <2>1. CASE q.phase = "over"
    <3>1. /\ Hit(t, v) \in Config /\ Hit(t, v).of = t /\ Hit(t, v).default = v
          /\ Hit(t, v).ok /\ Hit(t, v).prefix \in Brought(t)
      BY <1>1, <1>3, <2>1, HitTyped
    <3>2. q.config = Hit(t, v) /\ q.asr = None /\ ttsStore'[t] # None /\ Hit(t, v).prefix \in Brought(t)'
      BY <1>2, <1>3, <1>5, <2>1, <3>1
    <3> QED BY <1>1, <1>3, <2>1, <3>1, <3>2 DEF RequestSound, HasConfig
  <2>2. CASE q.phase = "tts"
    BY <1>1, <1>3, <2>2 DEF RequestSound
  <2> QED BY <1>3, <2>1, <2>2
<1>8. ASSUME NEW s \in Requests, s # r PROVE RequestSound(request[s])'
  <2>1. RequestSound(request[s]) /\ request'[s] = request[s]
    BY <1>4, <1>8 DEF IInv, RequestsSound
  <2> QED BY <1>2, <1>5, <2>1 DEF RequestSound, HasConfig
<1> QED BY <1>4, <1>6, <1>7, <1>8 DEF IInv, RequestsSound

LEMMA ThreadSound ==
  ASSUME IInv, NEW r \in Requests, PrewarmTts(r) \/ TtsFetched(r) \/ TtsLatest(r)
  PROVE  IInv'
<1> DEFINE t == request[r].tts
           v == request[r].voice
<1>1. /\ t \in Tts /\ v \in Tts /\ v \in Voices /\ request[r].phase # "unsent" /\ v \in Brought(t)
      /\ ttsStore \in [Tts -> Config \cup {None}] /\ latest \in Config \cup {None}
  <2>1. request[r] \in Request /\ RequestSound(request[r]) /\ request[r].phase # "unsent"
    BY DEF IInv, TypeOK, RequestsSound, PrewarmTts, TtsFetched, TtsLatest
  <2> QED BY <2>1 DEF IInv, TypeOK, Request, RequestSound, Voices, Brought
<1>. HIDE DEF t, v
<1>2. ASSUME NEW ok \in BOOLEAN
      PROVE  /\ Parsed(t, v, ok) \in Config /\ Parsed(t, v, ok) # None
             /\ Parsed(t, v, ok).of = t /\ Parsed(t, v, ok).default = v
             /\ Parsed(t, v, ok).ok = ok /\ Parsed(t, v, ok).prefix = v
  BY <1>1, ParsedTyped
<1>3. CASE PrewarmTts(r)
  <2>0. UNCHANGED <<ttsStore, latest, asrStore>>
    BY <1>3 DEF PrewarmTts
  <2>1. CASE t \in InProcess /\ Holds(r, Parsed(t, v, TRUE))
    BY <1>1, <1>2, <2>0, <2>1, HoldsSound DEF t, v
  <2>2. CASE ttsStore[t] # None /\ Holds(r, Hit(t, v))
    <3>1. /\ Hit(t, v) \in Config /\ Hit(t, v).of = t /\ Hit(t, v).default = v
          /\ Hit(t, v).ok /\ Hit(t, v).prefix \in Brought(t)
      BY <1>1, <2>2, HitTyped
    <3> QED BY <1>1, <2>0, <2>2, <3>1, HoldsSound DEF t, v
  <2>3. CASE request' = [request EXCEPT ![r].phase = "ttsFetch"]
    <3> DEFINE q == [request[r] EXCEPT !.phase = "ttsFetch"]
    <3>1. request[r] \in Request
      BY DEF IInv, TypeOK
    <3>2. /\ q \in Request /\ q.phase = "ttsFetch"
          /\ q.tts = request[r].tts /\ q.voice = request[r].voice /\ q.asr = request[r].asr
      BY <3>1 DEF Request, Phases
    <3>3. request' = [request EXCEPT ![r] = q]
      BY <2>3
    <3>. HIDE DEF q
    <3>4. GoesOn(r, q)
      BY <3>2, <3>3 DEF GoesOn
    <3>5. asrStore' \in [Asr -> AsrResult \cup {None}]
      BY <2>0 DEF IInv, TypeOK
    <3> QED BY <1>1, <2>0, <2>3, <3>2, <3>4, <3>5, GoesOnSound
  <2> QED BY <1>3, <2>1, <2>2, <2>3 DEF PrewarmTts, Key, t, v
<1>4. CASE TtsFetched(r)
  <2>0. UNCHANGED <<latest, asrStore>>
    BY <1>4 DEF TtsFetched
  <2>1. CASE /\ ttsStore' = [ttsStore EXCEPT ![t] = Parsed(t, v, TRUE)]
             /\ Holds(r, Parsed(t, v, TRUE))
    <3>1. /\ ttsStore' \in [Tts -> Config \cup {None}] /\ ttsStore'[t] = Parsed(t, v, TRUE)
          /\ \A u \in Tts : u # t => ttsStore'[u] = ttsStore[u]
      BY <1>1, <1>2, <2>1
    <3>2. \A u \in Tts : \/ ttsStore'[u] = ttsStore[u]
                         \/ /\ ttsStore'[u] # None /\ ttsStore'[u].of = u /\ ttsStore'[u].ok
                            /\ ttsStore'[u].prefix \in Brought(u)
      BY <1>1, <1>2, <3>1
    <3> QED BY <1>1, <1>2, <2>0, <2>1, <3>1, <3>2, HoldsSound DEF t, v
  <2>2. CASE ttsStore' = ttsStore /\ HasTts(r, Parsed(t, v, FALSE))
    BY <1>1, <1>2, <2>0, <2>2, HasTtsSound DEF t, v
  <2> QED BY <1>4, <2>1, <2>2 DEF TtsFetched, StoredAfterFailure, Key, t, v
<1>5. CASE TtsLatest(r)
  <2>1. /\ UNCHANGED <<ttsStore, asrStore>> /\ latest' = request[r].config
        /\ HasTts(r, request[r].config) /\ request[r].phase = "ttsLatest"
    BY <1>5 DEF TtsLatest
  <2>2. HasConfig(request[r])
    BY <2>1 DEF IInv, RequestsSound, RequestSound
  <2> QED BY <1>1, <2>1, <2>2, HasTtsSound DEF HasConfig, t, v
<1> QED BY <1>3, <1>4, <1>5

LEMMA AsrSound ==
  ASSUME IInv, NEW r \in Requests, PrewarmAsr(r) \/ AsrFetched(r)
  PROVE  IInv'
<1> DEFINE a == request[r].asr
<1>1. /\ a \in Asr /\ request[r] \in Request /\ request[r].phase \in {"asr", "asrFetch"}
      /\ asrStore \in [Asr -> AsrResult \cup {None}] /\ UNCHANGED <<ttsStore, latest>>
      /\ HasConfig(request[r])
  <2>1. request[r] \in Request /\ RequestSound(request[r]) /\ request[r].phase \in {"asr", "asrFetch"}
    BY DEF IInv, TypeOK, RequestsSound, PrewarmAsr, AsrFetched
  <2> QED BY <2>1 DEF IInv, TypeOK, Request, RequestSound, PrewarmAsr, AsrFetched
<1>2. \A ok \in BOOLEAN : [of |-> a, ok |-> ok] \in AsrResult
  BY <1>1 DEF AsrResult
<1>. HIDE DEF a
<1>3. CASE PrewarmAsr(r)
  <2>0. UNCHANGED asrStore
    BY <1>3 DEF PrewarmAsr
  <2>1. CASE HasAsr(r, [of |-> a, ok |-> TRUE])
    BY <1>1, <1>2, <2>0, <2>1, HasAsrSound DEF a
  <2>2. CASE asrStore[a] # None /\ HasAsr(r, asrStore[a])
    <3>1. asrStore[a] \in AsrResult /\ asrStore[a].of = a
      BY <1>1, <2>2 DEF IInv, EntriesSound
    <3> QED BY <1>1, <2>0, <2>2, <3>1, HasAsrSound DEF a
  <2>3. CASE request' = [request EXCEPT ![r].phase = "asrFetch"]
    <3> DEFINE q == [request[r] EXCEPT !.phase = "asrFetch"]
    <3>1. /\ q \in Request /\ q.phase = "asrFetch" /\ q.config = request[r].config
          /\ q.tts = request[r].tts /\ q.voice = request[r].voice /\ q.asr = request[r].asr
      BY <1>1 DEF Request, Phases
    <3>2. request' = [request EXCEPT ![r] = q]
      BY <2>3
    <3>3. q.asr # None
      BY <1>1, <3>1, NoneAssumption DEF a
    <3>. HIDE DEF q
    <3>4. GoesOn(r, q)
      BY <3>1, <3>2 DEF GoesOn
    <3>5. /\ ttsStore' \in [Tts -> Config \cup {None}] /\ latest' \in Config \cup {None}
      BY <1>1 DEF IInv, TypeOK
    <3> QED BY <1>1, <2>0, <3>1, <3>3, <3>4, <3>5, GoesOnSound DEF HasConfig
  <2> QED BY <1>3, <2>1, <2>2, <2>3 DEF PrewarmAsr, a
<1>4. CASE AsrFetched(r)
  <2>1. CASE asrStore' = [asrStore EXCEPT ![a] = [of |-> a, ok |-> TRUE]] /\ HasAsr(r, [of |-> a, ok |-> TRUE])
    <3>1. /\ asrStore' \in [Asr -> AsrResult \cup {None}]
          /\ \A b \in Asr : \/ asrStore'[b] = asrStore[b]
                            \/ asrStore'[b].of = b /\ asrStore'[b].ok
      BY <1>1, <1>2, <2>1
    <3>2. PICK heard : heard = [of |-> a, ok |-> TRUE]
      OBVIOUS
    <3>3. heard \in AsrResult /\ heard.of = request[r].asr /\ HasAsr(r, heard)
      BY <1>2, <2>1, <3>2 DEF a
    <3> QED BY <1>1, <3>1, <3>3, HasAsrSound
  <2>2. CASE HasAsr(r, [of |-> a, ok |-> FALSE]) /\ UNCHANGED asrStore
    BY <1>1, <1>2, <2>2, HasAsrSound DEF a
  <2> QED BY <1>4, <2>1, <2>2 DEF AsrFetched, a
<1> QED BY <1>3, <1>4

LEMMA TimeoutSound ==
  ASSUME IInv, NEW r \in Requests, TimesOut(r)
  PROVE  IInv'
<1> DEFINE q == [request[r] EXCEPT !.reply = "timeout"]
<1>1. request[r] \in Request /\ RequestSound(request[r]) /\ request[r].phase \notin {"unsent", "over"}
  BY DEF IInv, TypeOK, RequestsSound, RequestSound, TimesOut
<1>2. /\ q \in Request /\ q.phase = request[r].phase /\ q.config = request[r].config
      /\ q.tts = request[r].tts /\ q.voice = request[r].voice /\ q.asr = request[r].asr
  BY <1>1 DEF Request
<1>3. request' = [request EXCEPT ![r] = q] /\ UNCHANGED <<ttsStore, latest, asrStore>>
  BY DEF TimesOut
<1>. HIDE DEF q
<1>4. GoesOn(r, q)
  BY <1>1, <1>2, <1>3 DEF GoesOn
<1>5. /\ ttsStore' \in [Tts -> Config \cup {None}] /\ latest' \in Config \cup {None}
      /\ asrStore' \in [Asr -> AsrResult \cup {None}]
  BY <1>3 DEF IInv, TypeOK
<1> QED BY <1>1, <1>2, <1>3, <1>4, <1>5, GoesOnSound DEF RequestSound, HasConfig


LEMMA AlwaysSound == Spec => []IInv
<1>1. Init => IInv
  <2> SUFFICES ASSUME Init PROVE IInv
    OBVIOUS
  <2>1. \A r \in Requests : request[r] = Asked(DefaultTts, NoVoice, None, "unsent", None, None)
    BY DEF Init
  <2>2. Asked(DefaultTts, NoVoice, None, "unsent", None, None) \in Request
    BY DefaultAssumption DEF Asked, Request, Phases, Voices
  <2>3. TypeOK
    BY <2>2 DEF Init, TypeOK
  <2>4. EntriesSound
    BY DEF Init, EntriesSound
  <2>5. RequestsSound
    BY <2>1 DEF RequestsSound, RequestSound, Asked
  <2> QED BY <2>3, <2>4, <2>5 DEF IInv
<1>2. IInv /\ [Next]_vars => IInv'
  <2> SUFFICES ASSUME IInv, [Next]_vars PROVE IInv'
    OBVIOUS
  <2>1. ASSUME NEW r \in Requests, RequestStep(r) PROVE IInv'
    BY <2>1, AskSound, TimeoutSound, ThreadSound, AsrSound DEF RequestStep
  <2>2. CASE UNCHANGED vars
    BY <2>2 DEF vars, IInv, TypeOK, EntriesSound, RequestsSound, RequestSound, HasConfig, Brought
  <2> QED BY <2>1, <2>2 DEF Next
<1> QED BY <1>1, <1>2, PTL DEF Spec

-----------------------------------------------------------------------------
(* The properties *)

(* What a request that is over has in hand. *)
LEMMA AnsweredSound ==
  ASSUME IInv, NEW r \in Requests, Answered(r)
  PROVE  /\ HasConfig(request[r]) /\ request[r].tts \in Tts
         /\ request[r].asr # None => /\ request[r].asr \in Asr
                                     /\ request[r].heard \in AsrResult
                                     /\ request[r].heard.of = request[r].asr
<1>1. request[r] \in Request /\ RequestSound(request[r])
  BY DEF IInv, TypeOK, RequestsSound
<1> QED BY <1>1 DEF RequestSound, Request, Answered

(* What is stored for a service is the answer of that service, never a     *)
(* failure or the answer of another, and a request is answered about the   *)
(* service and with the voice it asked for, whatever threads wrote between.*)
THEOREM AnswersAreOwn == Spec => []AnswerIsOwn
<1>1. IInv => AnswerIsOwn
  BY AnsweredSound DEF IInv, EntriesSound, HasConfig, AnswerIsOwn
<1> QED BY <1>1, AlwaysSound, PTL

(* The languages of a TTS configuration and of an ASR result. *)
LEMMA TtsLanguageSet ==
  ASSUME NEW c, c.ok, NEW language
  PROVE  language \in TtsLanguages(c) <=>
           \/ \E code \in Declared[c.of] : Canon[code] = language
           \/ \E sub \in Subvoices[c.of] : sub[2] # None /\ Canon[sub[2]] = language
           \/ \E sub \in Subvoices[c.of] : sub[2] = None /\ Declared[c.of] = {} /\ language = EnUS
<1> DEFINE Spoken(code) == IF code # None THEN {Canon[code]}
                           ELSE IF DeclaredBy(c) # {} THEN DeclaredBy(c) ELSE {EnUS}
           Of(sub) == {[id |-> <<c.prefix, sub[1]>>, language |-> l] : l \in Spoken(sub[2])}
<1>1. DeclaredBy(c) = {Canon[code] : code \in Declared[c.of]}
  BY DEF DeclaredBy
<1>2. DeclaredBy(c) = {} <=> Declared[c.of] = {}
  BY <1>1
<1>3. VoicesOf(c) = UNION {Of(sub) : sub \in Subvoices[c.of]}
  BY DEF VoicesOf
<1>4. (\E voice \in VoicesOf(c) : voice.language = language)
        <=> \E sub \in Subvoices[c.of] : language \in Spoken(sub[2])
  <2>1. ASSUME NEW voice \in VoicesOf(c), voice.language = language
        PROVE  \E sub \in Subvoices[c.of] : language \in Spoken(sub[2])
    <3>1. PICK sub \in Subvoices[c.of] : voice \in Of(sub)
      BY <1>3
    <3>. HIDE DEF Spoken
    <3>2. PICK l \in Spoken(sub[2]) : voice = [id |-> <<c.prefix, sub[1]>>, language |-> l]
      BY <3>1
    <3> QED BY <2>1, <3>2
  <2>2. ASSUME NEW sub \in Subvoices[c.of], language \in Spoken(sub[2])
        PROVE  \E voice \in VoicesOf(c) : voice.language = language
    <3>. HIDE DEF Spoken
    <3>1. [id |-> <<c.prefix, sub[1]>>, language |-> language] \in Of(sub)
      BY <2>2
    <3>2. [id |-> <<c.prefix, sub[1]>>, language |-> language] \in VoicesOf(c)
      BY <1>3, <3>1
    <3> QED BY <3>2
  <2> QED BY <2>1, <2>2
<1>5. language \in TtsLanguages(c) <=>
        language \in DeclaredBy(c) \/ \E sub \in Subvoices[c.of] : language \in Spoken(sub[2])
  <2>1. language \in TtsLanguages(c) <=>
          language \in DeclaredBy(c) \/ \E voice \in VoicesOf(c) : voice.language = language
    BY DEF TtsLanguages
  <2> QED BY <1>4, <2>1
<1> QED BY <1>1, <1>2, <1>5

(* A session is offered exactly the languages that all three services      *)
(* serve, whatever their spelling.                                         *)
THEOREM OffersAreServed == Spec => []OfferedIsServed
<1>1. ASSUME IInv PROVE OfferedIsServed
  <2> SUFFICES ASSUME NEW r \in Requests, Answered(r), request[r].asr # None,
                      request[r].heard.ok, request[r].config.ok,
                      NEW language \in Languages, NEW l \in Llms
               PROVE  language \in SessionLanguages(request[r].config, request[r].heard, l) <=>
                        /\ \/ Heard[request[r].asr] = {} /\ language = EsUS
                           \/ \E code \in Heard[request[r].asr] : Canon[code] = language
                        /\ \/ \E code \in Declared[request[r].tts] : Canon[code] = language
                           \/ \E sub \in Subvoices[request[r].tts] : sub[2] # None /\ Canon[sub[2]] = language
                           \/ \E sub \in Subvoices[request[r].tts] :
                                sub[2] = None /\ Declared[request[r].tts] = {} /\ language = EnUS
                        /\ Understood[l] = None \/ Base[language] \in Understood[l]
    BY DEF OfferedIsServed
  <2>1. request[r].config.of = request[r].tts /\ request[r].heard.of = request[r].asr
    BY <1>1, AnsweredSound DEF HasConfig
  <2>2. HeardBy(request[r].heard) = {Canon[code] : code \in Heard[request[r].asr]}
    BY <2>1 DEF HeardBy
  <2>3. HeardBy(request[r].heard) = {} <=> Heard[request[r].asr] = {}
    BY <2>2
  <2>4. language \in (IF HeardBy(request[r].heard) = {} THEN {EsUS} ELSE HeardBy(request[r].heard)) <=>
          \/ Heard[request[r].asr] = {} /\ language = EsUS
          \/ \E code \in Heard[request[r].asr] : Canon[code] = language
    BY <2>2, <2>3
  <2>5. language \in TtsLanguages(request[r].config) <=>
          \/ \E code \in Declared[request[r].tts] : Canon[code] = language
          \/ \E sub \in Subvoices[request[r].tts] : sub[2] # None /\ Canon[sub[2]] = language
          \/ \E sub \in Subvoices[request[r].tts] :
               sub[2] = None /\ Declared[request[r].tts] = {} /\ language = EnUS
    BY <2>1, TtsLanguageSet
  <2>6. language \in SessionLanguages(request[r].config, request[r].heard, l) <=>
          /\ language \in (IF HeardBy(request[r].heard) = {} THEN {EsUS} ELSE HeardBy(request[r].heard))
          /\ language \in TtsLanguages(request[r].config)
          /\ LlmServes(l, language)
    BY DEF SessionLanguages
  <2> QED BY <2>4, <2>5, <2>6 DEF LlmServes
<1> QED BY <1>1, AlwaysSound, PTL

(* Two configurations of one service, parsed with one voice, offer the     *)
(* same voices.                                                            *)
LEMMA SameVoices ==
  ASSUME NEW c, NEW d, c.ok, d.ok, c.of = d.of, c.prefix = d.prefix
  PROVE  VoicesOf(c) = VoicesOf(d)
BY DEF VoicesOf, DeclaredBy

(* A voice found later for a language that was offered with one is of      *)
(* those that were offered for it, and the preferred one stays.            *)
THEOREM VoicesWereOffered == Spec => []VoiceWasOffered
<1>1. ASSUME IInv PROVE VoiceWasOffered
  <2> SUFFICES ASSUME NEW r \in Requests, Answered(r), request[r].config.ok,
                      request[r].tts \notin InProcess,
                      \A s \in Requests : request[s].phase # "unsent" /\ request[s].tts = request[r].tts
                                            => request[s].voice = request[r].tts,
                      NEW voice \in VoicesOf(request[r].config)
               PROVE  /\ VoicesFor(request[r].tts, voice.language, voice.id) = {voice.id}
                      /\ \A id \in VoicesFor(request[r].tts, voice.language, None) :
                           [voice EXCEPT !.id = id] \in VoicesOf(request[r].config)
    BY DEF VoiceWasOffered
  <2> DEFINE t == request[r].tts
             c == request[r].config
             e == ttsStore[t]
  <2>1. /\ HasConfig(request[r]) /\ t \in Tts
    BY <1>1, AnsweredSound
  <2>2. e # None /\ c.of = t /\ c.prefix \in Brought(t)
    BY <2>1 DEF HasConfig
  <2>3. e.of = t /\ e.ok /\ e.prefix \in Brought(t)
    BY <1>1, <2>1, <2>2 DEF IInv, EntriesSound
  <2>4. \A v \in Brought(t) : v = t
    BY DEF Brought
  <2>5. VoicesOf(ConfigFor(t)) = VoicesOf(c)
    <3>1. ConfigFor(t) = e
      BY <2>2 DEF ConfigFor, Key
    <3> QED BY <2>2, <2>3, <2>4, <3>1, SameVoices
  <2>6. \A w \in VoicesOf(c) : w = [id |-> w.id, language |-> w.language]
    BY DEF VoicesOf
  <2>. HIDE DEF t, c, e
  <2>7. VoicesFor(t, voice.language, voice.id) = {voice.id}
    BY <2>5 DEF VoicesFor, c
  <2>8. ASSUME NEW id \in VoicesFor(t, voice.language, None)
        PROVE  [voice EXCEPT !.id = id] \in VoicesOf(c)
    <3>1. PICK w \in VoicesOf(c) : w.language = voice.language /\ w.id = id
      BY <2>5 DEF VoicesFor
    <3>2. voice = [id |-> voice.id, language |-> voice.language] /\ w = [id |-> id, language |-> voice.language]
      BY <2>6, <3>1 DEF c
    <3>3. [voice EXCEPT !.id = id] = w
      BY <3>2
    <3> QED BY <3>3
  <2> QED BY <2>7, <2>8 DEF t, c
<1> QED BY <1>1, AlwaysSound, PTL

-----------------------------------------------------------------------------
(* The cache of the models that the services load (ModelPrefetch) *)

CONSTANT MaxFaults
VARIABLES pc, item, whisper, disk, part, announced, sized, faults

Prefetch == INSTANCE ModelPrefetch

(* The places of a run that has loaded Whisper, and those of a download.   *)
PastWhisper == {"check", "get", "write", "place", "verify"}
Downloading == {"get", "write", "place"}

(* What a run knows of the volume while it works: it is past Whisper only  *)
(* with a complete snapshot, and downloads an artifact only where there is *)
(* no file.  What came with its length is whole for as long as it stays.   *)
Cleared ==
  /\ pc \in PastWhisper => whisper = "complete"
  /\ pc \in Downloading => disk[item] = "absent"
  /\ \A a \in Prefetch!Artifacts : sized[a] => disk[a] \in {"absent", "whole"}

FilesTyped ==
  /\ item \in Prefetch!Artifacts
  /\ disk \in [Prefetch!Artifacts -> Prefetch!Files]
  /\ part \in [Prefetch!Artifacts -> Prefetch!Files]
  /\ announced \in BOOLEAN
  /\ sized \in [Prefetch!Artifacts -> BOOLEAN]

OnCourse == FilesTyped /\ Cleared

USE DEF Prefetch!Files, Prefetch!Over, Prefetch!Places, PastWhisper, Downloading

LEMMA InitOnCourse == Prefetch!Init => OnCourse
<1> SUFFICES ASSUME Prefetch!Init PROVE OnCourse
  OBVIOUS
<1>1. FilesTyped
  BY DEF Prefetch!Init, FilesTyped, Prefetch!Artifacts
<1>2. Cleared
  BY DEF Prefetch!Init, Cleared
<1> QED BY <1>1, <1>2 DEF OnCourse

(* main goes on to the voices, or to the verification. *)
LEMMA GoOnTyped ==
  ASSUME item \in Prefetch!Artifacts, Prefetch!GoOn
  PROVE  /\ item' \in Prefetch!Artifacts
         /\ pc' = "check" \/ pc' = "verify"
BY DEF Prefetch!GoOn, Prefetch!Artifacts

LEMMA OnCourseStep == OnCourse /\ [Prefetch!Next]_(Prefetch!vars) => OnCourse'
<1> SUFFICES ASSUME OnCourse, [Prefetch!Next]_(Prefetch!vars) PROVE OnCourse'
  OBVIOUS
<1>. USE DEF OnCourse, FilesTyped, Cleared
<1>1. CASE Prefetch!Snapshot
  BY <1>1 DEF Prefetch!Snapshot
<1>2. CASE Prefetch!LoadWhisper
  BY <1>2 DEF Prefetch!LoadWhisper, Prefetch!WhisperLoads
<1>3. CASE Prefetch!Check
  <2>1. CASE Prefetch!LargeEnough(disk[item])
    BY <1>3, <2>1, GoOnTyped DEF Prefetch!Check
  <2>2. CASE ~Prefetch!LargeEnough(disk[item])
    BY <1>3, <2>2 DEF Prefetch!Check
  <2> QED BY <2>1, <2>2
<1>4. CASE Prefetch!Get
  BY <1>4 DEF Prefetch!Get
<1>5. CASE Prefetch!Written
  BY <1>5 DEF Prefetch!Written
<1>6. CASE Prefetch!Place
  <2>1. CASE Prefetch!Rejected
    BY <1>6, <2>1 DEF Prefetch!Place
  <2>2. CASE ~Prefetch!Rejected
    <3>1. /\ Prefetch!GoOn /\ pc = "place" /\ UNCHANGED <<whisper, announced>>
          /\ announced => part[item] = "whole"
          /\ disk' = [disk EXCEPT ![item] = part[item]]
          /\ part' = [part EXCEPT ![item] = "absent"]
          /\ sized' = [sized EXCEPT ![item] = announced]
      BY <1>6, <2>2 DEF Prefetch!Place, Prefetch!PlacedFile, Prefetch!Rejected
    <3>2. item' \in Prefetch!Artifacts /\ pc' \in {"check", "verify"}
      BY <3>1, GoOnTyped
    <3> QED BY <3>1, <3>2
  <2> QED BY <2>1, <2>2
<1>7. CASE Prefetch!Verify
  BY <1>7 DEF Prefetch!Verify, Prefetch!Discarded
<1>8. CASE Prefetch!SnapshotFails
  BY <1>8 DEF Prefetch!SnapshotFails
<1>9. CASE Prefetch!DownloadFails
  BY <1>9 DEF Prefetch!DownloadFails
<1>10. CASE Prefetch!Crash
  BY <1>10 DEF Prefetch!Crash, Prefetch!Running
<1>11. CASE Prefetch!Corrupt
  BY <1>11 DEF Prefetch!Corrupt, Prefetch!Running
<1>12. CASE Prefetch!Rerun
  BY <1>12 DEF Prefetch!Rerun, Prefetch!Running, Prefetch!Artifacts
<1>13. CASE UNCHANGED Prefetch!vars
  BY <1>13 DEF Prefetch!vars
<1> QED
  BY <1>1, <1>2, <1>3, <1>4, <1>5, <1>6, <1>7, <1>8, <1>9, <1>10, <1>11, <1>12, <1>13
  DEF Prefetch!Next, Prefetch!Progress

LEMMA AlwaysOnCourse == Prefetch!Spec => []OnCourse
BY InitOnCourse, OnCourseStep, PTL DEF Prefetch!Spec

(* A run that ends with status 0 has loaded Whisper and both Kokoro files, *)
(* whatever was on the volume and however many faults came before, and a   *)
(* file that a run put in place knowing its length is the whole artifact.  *)
THEOREM SuccessIsUsable == Prefetch!Spec => Prefetch!StartsUsable
<1> DEFINE Usable == /\ whisper = "complete"
                     /\ \A a \in Prefetch!Artifacts :
                          Prefetch!Loads(disk'[a]) /\ (sized[a] => disk'[a] = "whole")
<1>1. ASSUME OnCourse, [Prefetch!Next]_(Prefetch!vars), pc' = "done", pc # "done"
      PROVE  Usable
  <2>1. CASE Prefetch!Verify
    <3>1. pc = "verify" /\ Prefetch!Loadable /\ disk' = disk
      BY <1>1, <2>1 DEF Prefetch!Verify
    <3> QED BY <1>1, <3>1 DEF Prefetch!Loadable, Prefetch!Loads, OnCourse, Cleared
  <2>2. CASE ~Prefetch!Verify
    BY <1>1, <2>2, GoOnTyped
       DEF Prefetch!Next, Prefetch!Progress, Prefetch!Snapshot, Prefetch!SnapshotFails, Prefetch!LoadWhisper,
           Prefetch!Check, Prefetch!Get, Prefetch!Written, Prefetch!Place, Prefetch!DownloadFails,
           Prefetch!Crash, Prefetch!Corrupt, Prefetch!Rerun, Prefetch!Running, Prefetch!vars, OnCourse, FilesTyped
  <2> QED BY <2>1, <2>2
<1>2. OnCourse /\ [Prefetch!Next]_(Prefetch!vars) =>
        [pc' = "done" /\ pc # "done" => Usable]_(Prefetch!vars)
  BY <1>1
<1> QED BY <1>2, AlwaysOnCourse, PTL DEF Prefetch!Spec, Prefetch!StartsUsable

(* While a run works, an announced download puts nothing but the whole     *)
(* artifact in place, and a whole one is given up by the verification only.*)
THEOREM ChangesForTheBetter == Prefetch!Spec => Prefetch!OnlyWholeReplaces
<1> DEFINE Better == Prefetch!Running => \A a \in Prefetch!Artifacts : disk'[a] # disk[a] =>
                       /\ announced => disk'[a] \in {"absent", "whole"}
                       /\ disk[a] = "whole" => pc = "verify"
<1>1. ASSUME OnCourse, [Prefetch!Next]_(Prefetch!vars) PROVE Better
  <2> SUFFICES ASSUME Prefetch!Running, NEW a \in Prefetch!Artifacts, disk'[a] # disk[a]
               PROVE  /\ announced => disk'[a] \in {"absent", "whole"}
                      /\ disk[a] = "whole" => pc = "verify"
    OBVIOUS
  <2>. USE DEF OnCourse, FilesTyped, Cleared
  <2>1. CASE Prefetch!Check
    <3>1. a = item /\ disk'[a] = "absent" /\ ~Prefetch!LargeEnough(disk[item])
      BY <1>1, <2>1 DEF Prefetch!Check
    <3> QED BY <3>1 DEF Prefetch!LargeEnough
  <2>2. CASE Prefetch!Place
    <3>1. a = item /\ disk'[a] = part[item] /\ ~Prefetch!Rejected /\ pc = "place"
      BY <1>1, <2>2 DEF Prefetch!Place, Prefetch!PlacedFile
    <3> QED BY <1>1, <3>1 DEF Prefetch!Rejected
  <2>3. CASE Prefetch!Verify
    BY <1>1, <2>3 DEF Prefetch!Verify, Prefetch!Discarded
  <2>4. CASE Prefetch!Crash
    BY <1>1, <2>4 DEF Prefetch!Crash
  <2>5. CASE ~(Prefetch!Check \/ Prefetch!Place \/ Prefetch!Verify \/ Prefetch!Crash)
    BY <1>1, <2>5
       DEF Prefetch!Next, Prefetch!Progress, Prefetch!Snapshot, Prefetch!SnapshotFails, Prefetch!LoadWhisper,
           Prefetch!Get, Prefetch!Written, Prefetch!DownloadFails, Prefetch!Corrupt, Prefetch!Rerun, Prefetch!vars
  <2> QED BY <2>1, <2>2, <2>3, <2>4, <2>5
<1>2. OnCourse /\ [Prefetch!Next]_(Prefetch!vars) => [Better]_(Prefetch!vars)
  BY <1>1
<1> QED BY <1>2, AlwaysOnCourse, PTL DEF Prefetch!Spec, Prefetch!OnlyWholeReplaces
=============================================================================
