--------------------------- MODULE SpeechCatalog ---------------------------
(***************************************************************************)
(* What the speech services can do: /api/tts-config of the voice server    *)
(* (src/server.py) asks them through prewarm.py, in threads, and keeps the *)
(* answers in config_store by service; the entry "tts" holds the last      *)
(* answer of any.  From the answers come the languages and voices a        *)
(* session is offered, and later the voice for a language.                 *)
(*                                                                         *)
(* A step is one call of config_store, with what a thread does before the  *)
(* next.  The configuration of a TTS service is not spelt out but named:   *)
(* by the service it is of, the voice whose model prefix it was parsed     *)
(* with and its default voice.                                             *)
(***************************************************************************)
EXTENDS Naturals, FiniteSets

CONSTANTS
  Requests,      \* GET /api/tts-config requests that name a service
  Tts,           \* TTS selections: server, function_id and model
  Asr,           \* ASR selections, likewise
  Llms,          \* language models
  InProcess,     \* selections whose server is "in-process"
  ServerOf,      \* TTS selection -> its server, which selections may share
  DefaultTts,    \* the TTS entry the catalogue loads by default
  NoVoice,       \* an empty voice_id
  None,
  Codes,         \* spellings of languages in the services' answers
  Canon,         \* code -> language, normalize_lang_code in one case
  Base,          \* language -> its part before "-"
  EnUS,          \* the language "en-US"
  EsUS,          \* the language of _EMPTY_ASR_LANGUAGE_FALLBACK
  Declared,      \* TTS selection -> codes of its language_code parameter
  Subvoices,     \* TTS selection -> <<name, code>>, or <<name, None>> if zero-shot
  Heard,         \* ASR selection -> codes it declares, {} for "auto"
  Understood     \* LLM -> base languages of supported_languages, or None

Languages == {Canon[code] : code \in Codes}

ASSUME CanonAssumption == {EnUS, EsUS} \subseteq Languages
ASSUME DefaultAssumption == DefaultTts \in Tts
ASSUME VoiceAssumption == NoVoice \notin Tts
ASSUME NoneAssumption == None \notin Codes \cup Tts \cup Asr

VARIABLES
  ttsStore, \* config_store at _tts_cache_key: TTS selection -> configuration or None
  latest,   \* config_store at "tts"
  asrStore, \* config_store at _asr_cache_key: ASR selection -> its result or None
  request   \* request -> what it asks, how far its thread is, its reply

vars == <<ttsStore, latest, asrStore, request>>

Voices == Tts \cup {NoVoice}  \* a voice id is known by the service it is of
Config == [of : Tts, prefix : Voices, default : Voices, ok : BOOLEAN]
AsrResult == [of : Asr, ok : BOOLEAN]

(* config_store.get gives None only where there is no entry. *)
ASSUME EntryAssumption == None \notin Config \cup AsrResult

Phases == {"unsent", "tts", "ttsFetch", "ttsLatest", "asr", "asrFetch", "over"}

Request ==
  [phase : Phases, tts : Tts, voice : Voices, asr : Asr \cup {None},
   config : Config \cup {None}, heard : AsrResult \cup {None}, reply : {None, "answer", "timeout"}]

TypeOK ==
  /\ ttsStore \in [Tts -> Config \cup {None}]
  /\ latest \in Config \cup {None}
  /\ asrStore \in [Asr -> AsrResult \cup {None}]
  /\ request \in [Requests -> Request]

(* A request names a TTS service, or an ASR service as well: then it asks  *)
(* for the languages of a session with both.                               *)
Asked(t, v, a, phase, config, reply) ==
  [phase |-> phase, tts |-> t, voice |-> v, asr |-> a, config |-> config, heard |-> None, reply |-> reply]

Init ==
  /\ ttsStore = [t \in Tts |-> None]
  /\ latest = None
  /\ asrStore = [a \in Asr |-> None]
  /\ request = [r \in Requests |-> Asked(DefaultTts, NoVoice, None, "unsent", None, None)]

-----------------------------------------------------------------------------
(* Configurations *)

Parsed(t, v, ok) == [of |-> t, prefix |-> v, default |-> v, ok |-> ok]

(* _parse_tts_config, or the fixed one of Kokoro: each voice is its id and *)
(* its language; a zero-shot voice speaks every language of the service.   *)
DeclaredBy(c) == IF c.ok THEN {Canon[code] : code \in Declared[c.of]} ELSE {}

VoicesOf(c) ==
  LET Spoken(code) == IF code # None THEN {Canon[code]}
                      ELSE IF DeclaredBy(c) # {} THEN DeclaredBy(c) ELSE {EnUS}
  IN IF ~c.ok THEN {}
     ELSE UNION {{[id |-> <<c.prefix, sub[1]>>, language |-> l] : l \in Spoken(sub[2])} : sub \in Subvoices[c.of]}

(* _tts_language_set: a voice adds its language to those declared. *)
TtsLanguages_Declared(c) == DeclaredBy(c)
TtsLanguages(c) == DeclaredBy(c) \cup {v.language : v \in VoicesOf(c)}

HeardBy(h) == IF h.ok THEN {Canon[code] : code \in Heard[h.of]} ELSE {}

LlmServes(l, language) == Understood[l] = None \/ Base[language] \in Understood[l]

(* intersect_session_languages *)
SessionLanguages(c, h, l) ==
  LET asr == IF HeardBy(h) = {} THEN {EsUS} ELSE HeardBy(h)
  IN {language \in asr \cap TtsLanguages(c) : LlmServes(l, language)}

-----------------------------------------------------------------------------
(* GET /api/tts-config, in the event loop *)

Key_Server(t) == CHOOSE u \in Tts : ServerOf[u] = ServerOf[t]
Key(t) == t

Hit(t, v) == IF v = NoVoice THEN ttsStore[Key(t)] ELSE [ttsStore[Key(t)] EXCEPT !.default = v]

(* An omitted voice is the one of the default TTS, whatever the server.    *)
ResolvedVoice(v) == IF v = NoVoice THEN DefaultTts ELSE v

(* What is stored is answered at once when only voices are asked for.  A   *)
(* request that names nothing gets the latest entry and changes nothing.   *)
(* The selections are those that result: a field that the request lacks is *)
(* the default's, one by one, for the model and function of an ASR server  *)
(* that is given too.                                                      *)
Ask(r, t, given, a) ==
  LET v == ResolvedVoice(given) IN
  /\ request[r].phase = "unsent"
  /\ request' = [request EXCEPT ![r] =
       IF a = None /\ ttsStore[Key(t)] # None
         THEN Asked(t, v, a, "over", Hit(t, v), "answer")
         ELSE Asked(t, v, a, "tts", None, None)]
  /\ UNCHANGED <<ttsStore, latest, asrStore>>

(* asyncio.wait_for gives up on the languages; the thread goes on. *)
TimesOut(r) ==
  /\ request[r].asr # None
  /\ request[r].phase # "over"
  /\ request[r].reply = None
  /\ request' = [request EXCEPT ![r].reply = "timeout"]
  /\ UNCHANGED <<ttsStore, latest, asrStore>>

-----------------------------------------------------------------------------
(* The thread: prewarm_tts, and for the languages prewarm_asr after it *)

Replied(r) == IF request[r].reply = None THEN "answer" ELSE request[r].reply

HasTts(r, config) ==
  request' = [request EXCEPT ![r] = IF @.asr # None
    THEN [@ EXCEPT !.config = config, !.phase = "asr"]
    ELSE [@ EXCEPT !.config = config, !.phase = "over", !.reply = "answer"]]

(* The configuration is at hand, and has yet to become the latest one. *)
Holds(r, config) == request' = [request EXCEPT ![r].config = config, ![r].phase = "ttsLatest"]

PrewarmTts(r) ==
  LET t == request[r].tts
      v == request[r].voice
  IN
  /\ request[r].phase = "tts"
  /\ \/ t \in InProcess /\ Holds(r, Parsed(t, v, TRUE))
     \/ t \notin InProcess /\ ttsStore[Key(t)] # None /\ Holds(r, Hit(t, v))
     \/ /\ t \notin InProcess /\ ttsStore[Key(t)] = None
        /\ request' = [request EXCEPT ![r].phase = "ttsFetch"]
  /\ UNCHANGED <<ttsStore, latest, asrStore>>

StoredAfterFailure(t, v) == ttsStore

(* The service answers with its configuration or fails. *)
TtsFetched(r) ==
  LET t == request[r].tts
      v == request[r].voice
  IN
  /\ request[r].phase = "ttsFetch"
  /\ \/ /\ ttsStore' = [ttsStore EXCEPT ![Key(t)] = Parsed(t, v, TRUE)]
        /\ Holds(r, Parsed(t, v, TRUE))
     \/ /\ ttsStore' = StoredAfterFailure(t, v)
        /\ HasTts(r, Parsed(t, v, FALSE))
  /\ UNCHANGED <<latest, asrStore>>

(* The second call of config_store, for the entry "tts". *)
TtsLatest(r) ==
  /\ request[r].phase = "ttsLatest"
  /\ latest' = request[r].config
  /\ HasTts(r, request[r].config)
  /\ UNCHANGED <<ttsStore, asrStore>>

HasAsr(r, heard) ==
  request' = [request EXCEPT ![r].heard = heard, ![r].phase = "over", ![r].reply = Replied(r)]

PrewarmAsr(r) ==
  LET a == request[r].asr IN
  /\ request[r].phase = "asr"
  /\ \/ /\ a \in InProcess
        /\ HasAsr(r, [of |-> a, ok |-> TRUE])
     \/ /\ a \notin InProcess
        /\ asrStore[a] # None
        /\ HasAsr(r, asrStore[a])
     \/ /\ a \notin InProcess
        /\ asrStore[a] = None
        /\ request' = [request EXCEPT ![r].phase = "asrFetch"]
  /\ UNCHANGED <<ttsStore, latest, asrStore>>

AsrFetched(r) ==
  LET a == request[r].asr IN
  /\ request[r].phase = "asrFetch"
  /\ \/ /\ asrStore' = [asrStore EXCEPT ![a] = [of |-> a, ok |-> TRUE]]
        /\ HasAsr(r, [of |-> a, ok |-> TRUE])
     \/ /\ HasAsr(r, [of |-> a, ok |-> FALSE])
        /\ UNCHANGED asrStore
  /\ UNCHANGED <<ttsStore, latest>>

RequestStep(r) ==
  \/ \E t \in Tts, a \in Asr \cup {None} : \E given \in {NoVoice, t} : Ask(r, t, given, a)
  \/ TimesOut(r)
  \/ PrewarmTts(r)
  \/ TtsFetched(r)
  \/ TtsLatest(r)
  \/ PrewarmAsr(r)
  \/ AsrFetched(r)

Next == \E r \in Requests : RequestStep(r)

Spec == Init /\ [][Next]_vars

-----------------------------------------------------------------------------
(* resolve_voice_for_language, which bots may call at any time *)

(* The entry of the service, or else the latest one. *)
ConfigFor(t) == IF ttsStore[Key(t)] # None THEN ttsStore[Key(t)] ELSE latest

(* The preferred voice if it speaks the language, or the first that does.  *)
VoicesFor_Any(t, language, preferred) == {v.id : v \in VoicesOf(ConfigFor(t))}
VoicesFor(t, language, preferred) ==
  LET Speaking == {v.id : v \in {w \in VoicesOf(ConfigFor(t)) : w.language = language}}
  IN IF preferred \in Speaking THEN {preferred} ELSE Speaking

-----------------------------------------------------------------------------
(* Properties *)

Answered(r) == request[r].phase = "over"

(* What is stored for a service is what that very service answered: not    *)
(* the answer of another function on the same server, whatever thread      *)
(* wrote last, and not a failure, which would last until the next restart. *)
(* A request is answered about the service it asked for, with the voice it *)
(* asked for as the default, also when the entry was made for another.     *)
AnswerIsOwn ==
  /\ \A t \in Tts : ttsStore[t] # None => ttsStore[t].of = t /\ ttsStore[t].ok
  /\ \A a \in Asr : asrStore[a] # None => asrStore[a].of = a /\ asrStore[a].ok
  /\ \A r \in Requests : Answered(r) =>
       /\ request[r].config.of = request[r].tts
       /\ request[r].config.default = request[r].voice

(* The languages a session is offered are those that all three services    *)
(* serve, whatever their spelling, none too many and none missing, as long *)
(* as the ASR service has answered; one that declares none hears es-US.    *)
OfferedIsServed ==
  \A r \in Requests : Answered(r) /\ request[r].asr # None /\ request[r].heard.ok /\ request[r].config.ok =>
    LET q == request[r] IN
    \A language \in Languages, l \in Llms :
      language \in SessionLanguages(q.config, q.heard, l) <=>
        /\ \/ Heard[q.asr] = {} /\ language = EsUS
           \/ \E code \in Heard[q.asr] : Canon[code] = language
        /\ \/ \E code \in Declared[q.tts] : Canon[code] = language
           \/ \E sub \in Subvoices[q.tts] : sub[2] # None /\ Canon[sub[2]] = language
           \/ \E sub \in Subvoices[q.tts] : sub[2] = None /\ Declared[q.tts] = {} /\ language = EnUS
        /\ Understood[l] = None \/ Base[language] \in Understood[l]

(* For a language that was offered with a voice, the voice found later, in *)
(* spite of all requests in between, is one of those that were offered for *)
(* the language, and a preferred one stays.  The restriction is that no    *)
(* request for the service has borrowed the voice of another.              *)
VoiceWasOffered ==
  \A r \in Requests :
    LET q == request[r]
        offered == VoicesOf(q.config)
    IN
    /\ Answered(r)
    /\ q.config.ok
    /\ q.tts \notin InProcess
    /\ \A s \in Requests : request[s].phase # "unsent" /\ request[s].tts = q.tts => request[s].voice = q.tts
    => \A voice \in offered :
         /\ VoicesFor(q.tts, voice.language, voice.id) = {voice.id}
         /\ \A id \in VoicesFor(q.tts, voice.language, None) : [voice EXCEPT !.id = id] \in offered
=============================================================================
