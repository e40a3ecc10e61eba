-------------------------- MODULE ServiceSelection --------------------------
(***************************************************************************)
(* From the choice of services to the bot that uses them (src/server.py,   *)
(* src/utils.py and the bot in pipeline.py).  POST /api/start hydrates the *)
(* client's choice from the catalogues, checks the service of every slot,  *)
(* hydrates again and stores the result; /api/offer hydrates what was      *)
(* stored once more and lays it over the data that came with the offer;    *)
(* the bot fills in what is still missing from the defaults of that        *)
(* moment.  A WebSocket without a session id is checked and run with the   *)
(* defaults at once; an offer without one, and any connection whose id has *)
(* nothing stored, is run without a check.  Services go up and down all    *)
(* the while, and what is known of them is at most some seconds old.       *)
(*                                                                         *)
(* One session, once: others show in what they leave in the cache of what  *)
(* is reachable.                                                           *)
(***************************************************************************)
EXTENDS ServiceCatalog, PromptCatalog, FiniteSets

CONSTANTS
  Addresses,      \* addresses that may be probed, of both runtimes
  Platforms,      \* values of PLATFORM
  Bodies,         \* choices a client may send: slot -> id and fields
  RequestData,    \* what a client may send along with an offer: slot -> fields
  NvcfHosts,      \* hosts of NVIDIA Cloud Functions
  PromptCatalogs  \* contents of prompts.yaml

ASSUME SlotsAssumption == Slots = {"llm", "asr", "tts"}
(* What a client leaves out is empty; NoKey is no key of a prompt. *)
ASSUME BodiesAssumption ==
  /\ \A body \in Bodies, s \in Slots : DOMAIN body[s] = Fields \cup {"id"}
  /\ \A data \in RequestData, s \in Slots : DOMAIN data[s] = Fields \cup {"id"}
ASSUME KeyAssumption == \A catalog \in PromptCatalogs : NoKey \notin PromptKeys(catalog)

VARIABLES
  env,     \* platform and runtime, which the process is started with
  up,      \* addresses that accept connections
  cache,   \* _reachability_cache: address -> "unknown" once expired, "up" or "down"
  session, \* its phase and route, what was asked for, its configuration, the data of its offer
  checked, \* slot -> address of the readiness check
  used,    \* slot -> address the bot uses
  moved,   \* a probe would have answered otherwise than when the session started
  prompt   \* the default prompts listed, the one the bot has, whether it was chosen

vars == <<env, up, cache, session, checked, used, moved, prompt>>

Phases == {"idle", "llm", "asr", "tts", "ready", "stored", "offered", "running", "refused"}

(* How the connection comes about: after POST /api/start, as a WebSocket   *)
(* without a session id, or with nothing stored and nothing checked.       *)
Routes == {"start", "direct", "unchecked"}

(* Nothing chosen: what a connection with nothing stored resolves to. *)
NothingAsked == [s \in Slots |-> [f \in Fields \cup {"id"} |-> IF f = "id" THEN NoId ELSE Empty(f)]]

Keys == UNION {PromptKeys(catalog) : catalog \in PromptCatalogs} \cup {NoKey}

TypeOK ==
  /\ env \in [platform : {ConfiguredPlatform(raw) : raw \in Platforms}, container : BOOLEAN]
  /\ up \subseteq Addresses
  /\ cache \in [Addresses -> {"unknown", "up", "down"}]
  /\ session.phase \in Phases /\ session.asked \in Bodies \cup {NothingAsked}
  /\ session.route \in Routes /\ session.data \in RequestData \cup {NothingAsked}
  /\ DOMAIN session.config = Slots /\ \A s \in Slots : DOMAIN session.config[s] = Fields \cup {"id"}
  /\ checked \in [Slots -> [host : STRING, port : Nat]]
  /\ used \in [Slots -> [host : STRING, port : Nat]]
  /\ moved \in BOOLEAN
  /\ prompt \in [listed : SUBSET Keys, spoken : Keys, chosen : BOOLEAN]

(* Compose names resolve inside Docker only, published ports outside. *)
Resolvable(a) == env.container <=> a.host # "localhost"

Init ==
  /\ env \in [platform : {ConfiguredPlatform(raw) : raw \in Platforms}, container : BOOLEAN]
  /\ up \in SUBSET {a \in Addresses : Resolvable(a)}
  /\ cache = [a \in Addresses |-> "unknown"]
  /\ session = [phase |-> "idle", asked |-> NothingAsked, config |-> NothingAsked,
                route |-> "unchecked", data |-> NothingAsked]
  /\ checked = [s \in Slots |-> NoAddress]
  /\ used = [s \in Slots |-> NoAddress]
  /\ moved = FALSE
  /\ prompt = [listed |-> {}, spoken |-> NoKey, chosen |-> FALSE]

-----------------------------------------------------------------------------
(* is_endpoint_reachable *)

Live == {a \in Addresses : cache[a] = "up" \/ (cache[a] = "unknown" /\ a \in up)}

Probe(addresses) ==
  cache' = [a \in Addresses |->
              IF a \in addresses /\ cache[a] = "unknown" THEN (IF a \in up THEN "up" ELSE "down") ELSE cache[a]]

(* A service comes up or goes down, an answer is forgotten after its five  *)
(* seconds: then a probe may answer otherwise.                             *)
Observed == moved' = (moved \/ Live' # Live)

(* Nothing is looked at once the bot runs (bound of the model).            *)
Over == session.phase \in {"running", "refused"}

Toggle(a) ==
  /\ ~Over
  /\ Resolvable(a)
  /\ up' = IF a \in up THEN up \ {a} ELSE up \cup {a}
  /\ UNCHANGED <<env, cache, session, checked, used, prompt>>
  /\ Observed

Expire(a) ==
  /\ ~Over
  /\ cache[a] # "unknown"
  /\ cache' = [cache EXCEPT ![a] = "unknown"]
  /\ UNCHANGED <<env, up, session, checked, used, prompt>>
  /\ Observed

(* GET /api/services, by anyone *)
ListServices ==
  /\ ~Over
  /\ Probe(EffectiveProbes(env, Live))
  /\ UNCHANGED <<env, up, session, checked, used, moved, prompt>>

-----------------------------------------------------------------------------
(* Readiness *)

ReadyHosts ==
  [asr |-> {"nemotron-asr-streaming-english", "nemotron-asr-streaming-multilingual",
            "parakeet-ctc-asr", "parakeet-rnnt-asr"},
   tts |-> {"tts-service", "chatterbox-tts-service", "magpie-zeroshot-tts-service"}]
ServiceHosts == {"localhost", "127.0.0.1", "::1", "host.docker.internal"}

(* _local_speech_ready_url: whether there is one *)
HasReadyUrl(s, a) ==
  \/ a.host \in ReadyHosts[s] /\ a.port = ContainerPort[s]
  \/ a.host \in ServiceHosts /\ a.port = PublishedPort[s]

(* _local_llm_health_url: whether there is one *)
HasHealthUrl(a) ==
  \/ a.host \in {"nvidia-llm", "nvidia-llm-vllm"} /\ a.port = 8000
  \/ a.host = "nvidia-llm-vllm-omni" /\ a.port = 8002
  \/ a.host \in ServiceHosts /\ a.port \in {18000, 8002}

CheckOf(s, a) ==
  CASE s = "llm" -> IF HasHealthUrl(a) THEN "http" ELSE "none"
    [] s # "llm" /\ a = InProcess -> "none"
    [] s # "llm" /\ a # InProcess /\ HasReadyUrl(s, a) -> "http"
    [] s = "tts" /\ a # InProcess /\ ~HasReadyUrl(s, a) /\ a.host \in NvcfHosts -> "synthesis"
    [] OTHER -> "port"

(* What the check may find: a port that was up some seconds ago passes, a  *)
(* service that is up need not be ready, a cloud function may do anything. *)
Outcomes(s, a) ==
  CASE CheckOf(s, a) = "none" -> {TRUE}
    [] CheckOf(s, a) = "port" -> {a \in Live}
    [] CheckOf(s, a) = "http" -> IF a \in up THEN BOOLEAN ELSE {FALSE}
    [] CheckOf(s, a) = "synthesis" -> BOOLEAN

(* Where the code looks when the catalogue has no entry for the slot. *)
Fallback(s) == IF s = "llm" THEN Address("integrate.api.nvidia.com", 443) ELSE Address("grpc.nvcf.nvidia.com", 443)

DefaultServer(s) ==
  LET found == DefaultEntry(s, env, Live)
  IN IF found = {} THEN Fallback(s) ELSE (CHOOSE e \in found : TRUE).server

ServerOf(s, config) == IF config[s].server = NoAddress THEN DefaultServer(s) ELSE config[s].server

-----------------------------------------------------------------------------
(* The session *)

Become(phase, config) == session' = [session EXCEPT !.phase = phase, !.config = config]

Start(body) ==
  /\ session.phase = "idle"
  /\ session' = [phase |-> "llm", asked |-> body, config |-> Sanitize(body, env, Live),
                 route |-> "start", data |-> NothingAsked]
  /\ Probe(SanitizeProbes(body, env, Live))
  /\ moved' = FALSE
  /\ UNCHANGED <<env, up, checked, used, prompt>>

StartDirect ==
  /\ session.phase = "idle"
  /\ session' = [session EXCEPT !.phase = "llm", !.route = "direct"]
  /\ moved' = FALSE
  /\ UNCHANGED <<env, up, cache, checked, used, prompt>>

After == [llm |-> "asr", asr |-> "tts", tts |-> "ready"]

(* The server is resolved and its check awaited; a check that fails is     *)
(* answered with 503.  ASR looks for the default only when it needs it.    *)
Check(s) ==
  /\ session.phase = s
  /\ LET server == ServerOf(s, session.config)
     IN /\ checked' = [checked EXCEPT ![s] = server]
        /\ \E passes \in Outcomes(s, server) : Become(IF passes THEN After[s] ELSE "refused", session.config)
        /\ Probe((IF s = "asr" /\ session.config[s].server # NoAddress THEN {} ELSE EffectiveProbes(env, Live))
                   \cup (IF CheckOf(s, server) = "port" THEN {server} ELSE {}))
  /\ UNCHANGED <<env, up, used, moved, prompt>>

Resanitized == Sanitize(session.config, env, Live)

(* _store_session_config; without a session id there is nothing to store. *)
Store ==
  /\ session.phase = "ready"
  /\ IF session.route = "direct"
     THEN Become("offered", session.config) /\ UNCHANGED cache
     ELSE Become("stored", Resanitized) /\ Probe(SanitizeProbes(session.config, env, Live))
  /\ UNCHANGED <<env, up, checked, used, moved, prompt>>

(* POST /api/offer, or /api/ws with the session id: _resolve_config.  Only *)
(* an offer comes with data.                                               *)
Offer ==
  /\ session.phase = "stored"
  /\ \E data \in RequestData \cup {NothingAsked} :
       session' = [session EXCEPT !.phase = "offered", !.config = Resanitized, !.data = data]
  /\ Probe(SanitizeProbes(session.config, env, Live))
  /\ UNCHANGED <<env, up, checked, used, moved, prompt>>

(* An offer without a session id, or a connection with one that is unknown *)
(* or that another connection has used up: there is no configuration, and  *)
(* nothing is checked.                                                     *)
ConnectUnchecked ==
  /\ session.phase = "idle"
  /\ \E data \in RequestData \cup {NothingAsked} :
       session' = [session EXCEPT !.phase = "offered", !.data = data]
  /\ UNCHANGED <<env, up, cache, checked, used, moved, prompt>>

(* The body of the bot: the data of the offer, which nothing sanitizes,    *)
(* updated with the configuration.                                         *)
Updated(f, config, data) == IF config[f] # Empty(f) THEN config[f] ELSE data[f]
Body(s) == [f \in Fields |-> Updated(f, session.config[s], session.data[s])]

(* The bot loads the defaults and creates its services. *)
BotServer_Default(s) == DefaultServer(s)
BotServer(s) == IF Body(s).server = NoAddress THEN DefaultServer(s) ELSE Body(s).server

(* Any catalogue and default of the registry; a key of the client, in its  *)
(* configuration or its offer, or of PROMPT_SELECTOR, which count where    *)
(* the registry has no default.                                            *)
Spoken(catalog, registered, key, selector) ==
  [listed |-> ListedDefault(catalog, registered),
   spoken |-> ResolvedPrompt(catalog, SessionPrompt(key, registered), selector),
   chosen |-> key # NoKey \/ (registered = NoKey /\ selector # NoKey)]

PromptOutcomes ==
  UNION {LET keys == PromptKeys(catalog) \cup {NoKey}
         IN {Spoken(catalog, registered, key, selector) : registered, key, selector \in keys} : catalog \in PromptCatalogs}

RunBot ==
  /\ session.phase = "offered"
  /\ prompt' \in PromptOutcomes
  /\ prompt'.spoken # NoKey
  /\ used' = [s \in Slots |-> BotServer(s)]
  /\ Become("running", session.config)
  /\ Probe(EffectiveProbes(env, Live))
  /\ UNCHANGED <<env, up, checked, moved>>

(* resolve_prompt raises, before any service is created. *)
PromptFails ==
  /\ session.phase = "offered"
  /\ prompt' \in PromptOutcomes
  /\ prompt'.spoken = NoKey
  /\ Become("refused", session.config)
  /\ UNCHANGED <<env, up, cache, checked, used, moved>>

SessionStep ==
  \/ \E body \in Bodies : Start(body)
  \/ StartDirect
  \/ \E s \in Slots : Check(s)
  \/ Store
  \/ Offer
  \/ ConnectUnchecked
  \/ RunBot
  \/ PromptFails

Next ==
  \/ SessionStep
  \/ \E a \in Addresses : Toggle(a) \/ Expire(a)
  \/ ListServices

Spec == Init /\ [][Next]_vars

-----------------------------------------------------------------------------
(* Properties *)

(* What the client chose names one service whatever the probes answer: an  *)
(* address of its own, a cloud entry, or an entry of the one platform that *)
(* is configured.  A bare key is looked up among what is reachable, and    *)
(* without a platform so is the key of a variant.                          *)
Pinned(s) ==
  /\ session.config[s].server # NoAddress
  /\ session.asked[s].id.source # "raw"
  /\ session.asked[s].id.source = "self-hosted" => env.platform # Unset

(* The configuration leaves the address of a slot to the data of the offer.*)
Supplied(s) == session.config[s].server = NoAddress /\ session.data[s].server # NoAddress

(* The bot of a session that was checked uses the service that was checked:*)
(* always, if the choice names one service, and otherwise (a default, a    *)
(* bare key, a variant) unless a probe has changed its answer in between.  *)
(* The check and the use are separate hydrations and separate loads of the *)
(* defaults.  Two cases are excepted, in which the code checks nothing: a  *)
(* connection with nothing stored, and an address that the data of the     *)
(* offer supplies for a slot that was left at its default.                 *)
CheckedIsUsed ==
  session.phase = "running" /\ session.route # "unchecked" =>
    \A s \in Slots : Pinned(s) \/ (~moved /\ ~Supplied(s)) => used[s] = checked[s]

(* The three places that speak of defaults agree, whatever is reachable,   *)
(* on any platform: the entry the service list marks as selected is the    *)
(* one a session gets that chooses nothing, and the default the deployment *)
(* page announces for a key is in the list, under the same id and with the *)
(* same content, if it is available.  The registry has its own loader.     *)
(* (What is reachable does not depend on the session: before is enough.)   *)
DefaultsAgree ==
  session.phase = "idle" => \A s \in Slots :
    LET items == ToSet(ServicesResponse(s, env, Live)) IN
    /\ {item.entry : item \in {x \in items : x.selected}} = DefaultEntry(s, env, Live)
    /\ \A k \in ToSet(VariantKeys(s)) : \A p \in RegistryDefault(s, k, env, Live) :
         p.id.source = "cloud-nim" \/ Available(p.entry, Live) =>
           \E item \in items : item.id = p.id /\ item.entry = p.entry

CatalogueEntries(s) ==
  Entries(Cloud[s])
    \cup UNION {{Rewritten(e, env, "utils") : e \in Entries(p[2])} : p \in ToSet(Local[s])}

(* After any number of hydrations, with answers changing between them, the *)
(* configuration of a slot is all the client's own or all of one catalogue *)
(* entry, but for the voice, and its zero-shot file is never the client's. *)
(* The data of an offer replaces nothing of it; it does supply the fields  *)
(* that the configuration lacks, a zero-shot file among them.              *)
NoMixedSelection ==
  \A s \in Slots :
    LET config == session.config[s]
    IN /\ \/ config = Filter(session.asked[s])
          \/ \E e \in CatalogueEntries(s) :
               /\ \A f \in Fields \ (Overridable \cup {"promptFile"}) : config[f] = e[f]
               /\ config.promptFile \in {"", e.promptFile}
       /\ \A f \in Fields : config[f] # Empty(f) => Body(s)[f] = config[f]

(* The prompt listed as default is the one a running bot has when nobody   *)
(* chose another, whatever prompts.yaml and the registry say.  A bot whose *)
(* prompt cannot be resolved does not run.                                 *)
PromptShownIsUsed == session.phase = "running" /\ ~prompt.chosen => prompt.listed \subseteq {prompt.spoken}
=============================================================================
