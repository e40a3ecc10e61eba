--------------------------- MODULE ServiceCatalog ---------------------------
(***************************************************************************)
(* The service catalogues: services.cloud.yaml, services.local.yaml and    *)
(* what src/utils.py, src/examples_registry.py and src/runtime_platform.py *)
(* make of them: the list of /api/services, the entry of an id, the        *)
(* default of a slot.                                                      *)
(*                                                                         *)
(* A section of a catalogue is a mapping that keeps its order, here a      *)
(* sequence of <<key, entry>>.  An entry is a record of its fields; "" is  *)
(* both an empty value and an absent one, as it is for the code.  An       *)
(* address is its host and port: spelling, scheme and path are left out.   *)
(*                                                                         *)
(* env is the platform and the runtime of the process, live the addresses  *)
(* that is_endpoint_reachable answers True for.                            *)
(***************************************************************************)
EXTENDS Naturals, Sequences, SequencesExt

CONSTANTS
  Slots,        \* the categories of the example, a set
  Cloud,        \* slot -> its section of services.cloud.yaml
  Local,        \* slot -> <<platform, section>> for every platform of services.local.yaml
  ComposeHosts, \* host names of Docker Compose services: those without a dot
  Suffixed(_, _) \* key-platform, the key of a variant that is not the active one

Unset == "unset"

Address(host, port) == [host |-> host, port |-> port]
NoAddress == Address("", 0)
InProcess == Address("in-process", 80)

-----------------------------------------------------------------------------
(* Ordered mappings *)

Position(section, k) == SelectInSeq(section, LAMBDA item : item[1] = k)
Has(section, k) == Position(section, k) # 0
At(section, k) == section[Position(section, k)][2]
Put(section, k, e) ==
  IF Has(section, k) THEN ReplaceAt(section, Position(section, k), <<k, e>>) ELSE Append(section, <<k, e>>)
SetDefault(section, k, e) == IF Has(section, k) THEN section ELSE Append(section, <<k, e>>)
Entries(section) == {item[2] : item \in ToSet(section)}

(* A section, the list of platforms too, is a sequence of pairs. *)
IsSection(section) ==
  section \in Seq(ToSet(section)) /\ \A item \in ToSet(section) : item = <<item[1], item[2]>>

ASSUME SectionsAssumption ==
  \A s \in Slots : /\ IsSection(Cloud[s]) /\ IsSection(Local[s])
                   /\ \A platform \in ToSet(Local[s]) : IsSection(platform[2])

-----------------------------------------------------------------------------
(* Addresses outside Docker *)

(* The services whose published port differs from their own. *)
OverrideHosts ==
  [llm |-> {"nvidia-llm", "nvidia-llm-vllm"},
   asr |-> {"nemotron-asr-streaming-english", "nemotron-asr-streaming-multilingual",
            "parakeet-ctc-asr", "parakeet-rnnt-asr"},
   tts |-> {"tts-service", "chatterbox-tts-service", "magpie-zeroshot-tts-service"}]
ContainerPort == [llm |-> 8000, asr |-> 50052, tts |-> 50051]
PublishedPort == [llm |-> 18000, asr |-> 50152, tts |-> 50151]
Overridden == {"llm", "asr", "tts"}

OverridePort(a) ==
  IF \E s \in Overridden : a.host \in OverrideHosts[s] /\ a.port = ContainerPort[s]
  THEN PublishedPort[CHOOSE s \in Overridden : a.host \in OverrideHosts[s]]
  ELSE a.port

(* _rewrite_endpoint_for_host_runtime *)
HostAddress(a) ==
  IF a # InProcess /\ a.host \in ComposeHosts \cup {"host.docker.internal"}
  THEN Address("localhost", OverridePort(a)) ELSE a

(* The registry replaces the addresses it lists, and no others. *)
RegistryAddress(a) ==
  IF \/ a.host \in {"nvidia-llm", "nvidia-llm-vllm"} /\ a.port = 8000
     \/ a.host \in {"magpie-zeroshot-tts-service", "chatterbox-tts-service", "tts-service"} /\ a.port = 50051
     \/ /\ a.host \in {"nemotron-asr-streaming-english", "nemotron-asr-streaming-multilingual",
                       "parakeet-ctc-asr", "parakeet-rnnt-asr"}
        /\ a.port = 50052
  THEN Address("localhost", a.port + (IF a.port = 8000 THEN 10000 ELSE 100))
  ELSE IF a \in {Address("nemotron-speech", 50051), Address("nemotron-speech-tts", 50051), Address("pi-agent", 8787)}
          \/ a.host = "host.docker.internal"
       THEN Address("localhost", a.port) ELSE a

(* Both loaders go through the same steps, each in its own way: "utils"    *)
(* and "registry".                                                         *)
LoadedAddress(loader, a) == IF loader = "utils" THEN HostAddress(a) ELSE RegistryAddress(a)

Rewritten(e, env, loader) == IF env.container THEN e ELSE [e EXCEPT !.server = LoadedAddress(loader, @)]
RewrittenSection(section, env, loader) ==
  [i \in DOMAIN section |-> <<section[i][1], Rewritten(section[i][2], env, loader)>>]

(* Engines of a profile are taken to be there, everything else is probed. *)
Available(e, live) == e.managed \/ e.server \in live

-----------------------------------------------------------------------------
(* The local catalogue *)

(* PLATFORM, without its case and punctuation *)
Aliases ==
  [cloud |-> "cloud", workstation |-> "workstation", consumergpu |-> "consumer",
   dgxspark |-> "dgxspark", jetsonthor |-> "jetson"]
ConfiguredPlatform(raw) ==
  IF raw = Unset THEN Unset ELSE IF raw \in DOMAIN Aliases THEN Aliases[raw] ELSE ""

(* The section of the configured platform: none for "cloud", for an unknown *)
(* name and for a platform the file does not have.                         *)
PlatformSection(slot, platform) ==
  LET i == SelectInSeq(Local[slot], LAMBDA p : p[1] = platform)
  IN IF i = 0 THEN <<>> ELSE Local[slot][i][2]

(* Without a platform, the entries of all of them for one key, by platform. *)
NewKeys(keys, section) ==
  FoldLeft(LAMBDA found, item : IF Contains(found, item[1]) THEN found ELSE Append(found, item[1]), keys, section)
VariantKeys(slot) == FoldLeft(LAMBDA keys, platform : NewKeys(keys, platform[2]), <<>>, Local[slot])

Variants(slot, k) ==
  FoldLeft(LAMBDA found, platform :
             IF Has(platform[2], k) THEN Append(found, <<platform[1], At(platform[2], k)>>) ELSE found,
           <<>>, Local[slot])

Same(variants) == \A v \in ToSet(variants) : v[2] = variants[1][2]

(* _first_reachable_variant: its position, or 0 *)
ActiveVariant(variants, env, live, loader) ==
  SelectInSeq(variants, LAMBDA v : Available(Rewritten(v[2], env, loader), live))

(* The active variant keeps the key, the others get their platform's name  *)
(* appended.  The voice server leaves out one it has emitted already; the  *)
(* registry does not.                                                      *)
Emitted(target, k, variants, active, loader) ==
  LET Seen(i) == \E j \in DOMAIN variants : (j < i \/ j = active) /\ variants[j][2] = variants[i][2]
  IN FoldLeft(LAMBDA section, i :
                IF i = active \/ (loader = "utils" /\ Seen(i)) THEN section
                ELSE Put(section, Suffixed(k, variants[i][1]), variants[i][2]),
              IF active = 0 THEN target ELSE Put(target, k, variants[active][2]),
              [i \in DOMAIN variants |-> i])

MergedSection(slot, env, live, loader) ==
  FoldLeft(LAMBDA target, k :
             LET variants == Variants(slot, k)
             IN IF Same(variants) THEN Put(target, k, variants[1][2])
                ELSE Emitted(target, k, variants, ActiveVariant(variants, env, live, loader), loader),
           <<>>, VariantKeys(slot))

LocalSection(slot, env, live, loader) ==
  RewrittenSection(IF env.platform = Unset THEN MergedSection(slot, env, live, loader)
                   ELSE PlatformSection(slot, env.platform), env, loader)

LocalCatalog(slot, env, live) == LocalSection(slot, env, live, "utils")

(* What loading it probes: variants up to the first that answers. *)
VariantProbes(variants, env, live) ==
  LET active == ActiveVariant(variants, env, live, "utils")
      last == IF active = 0 THEN Len(variants) ELSE active
  IN IF Same(variants) THEN {}
     ELSE {Rewritten(v[2], env, "utils").server : v \in {w \in ToSet(SubSeq(variants, 1, last)) : ~w[2].managed}}

LocalProbes(env, live) ==
  IF env.platform # Unset THEN {}
  ELSE UNION {UNION {VariantProbes(Variants(s, k), env, live) : k \in ToSet(VariantKeys(s))} : s \in Slots}

(* What the platforms have between them.                                   *)
OwnNames(s) == {platform[1] : platform \in ToSet(Local[s])}
OwnKeys(s) == UNION {{item[1] : item \in ToSet(platform[2])} : platform \in ToSet(Local[s])}
OwnEntries(s) == UNION {Entries(platform[2]) : platform \in ToSet(Local[s])}

(* What the code relies on and never checks.  The two loaders rewrite by   *)
(* rules of their own, which give the same for what the file lists.  A key *)
(* with a platform appended is neither a key of the file nor that of       *)
(* another key's variant.                                                  *)
ASSUME AddressesAssumption ==
  \A s \in Slots : \A e \in OwnEntries(s) : HostAddress(e.server) = RegistryAddress(e.server)
ASSUME SuffixAssumption ==
  \A s \in Slots : \A k, other \in OwnKeys(s), name, second \in OwnNames(s) :
    /\ Suffixed(k, name) \notin OwnKeys(s)
    /\ Suffixed(k, name) = Suffixed(other, second) => k = other

-----------------------------------------------------------------------------
(* The effective catalogue *)

(* _filter_reachable_entries *)
ReachableLocal(slot, env, live) ==
  FoldLeft(LAMBDA kept, item : IF Available(item[2], live) THEN Append(kept, item) ELSE kept,
           <<>>, LocalCatalog(slot, env, live))

EffectiveProbes(env, live) ==
  LocalProbes(env, live)
    \cup UNION {{e.server : e \in {x \in Entries(LocalCatalog(s, env, live)) : ~x.managed}} : s \in Slots}

(* Reachable local entries come first and win on a shared key. *)
Merge(local, cloud) == FoldLeft(LAMBDA t, item : SetDefault(t, item[1], item[2]), local, cloud)

Effective(slot, env, live) == Merge(ReachableLocal(slot, env, live), Cloud[slot])

(* load_service_entry with an empty key: a set of at most one entry *)
DefaultEntry(slot, env, live) ==
  LET section == Effective(slot, env, live) IN IF section = <<>> THEN {} ELSE {section[1][2]}

(* load_service_entry_by_id.  An id is its source and key; a key alone has *)
(* the source "raw", and what the user has written the source "custom".    *)
NoId == [source |-> "", key |-> ""]

CatalogOf(source, slot, env, live) ==
  CASE source = "cloud-nim" -> Cloud[slot]
    [] source = "self-hosted" -> LocalCatalog(slot, env, live)
    [] source = "raw" -> Effective(slot, env, live)
    [] OTHER -> <<>>

EntryById(slot, id, env, live) ==
  LET section == CatalogOf(id.source, slot, env, live)
  IN IF Has(section, id.key) THEN {At(section, id.key)} ELSE {}

-----------------------------------------------------------------------------
(* GET /api/services *)

ApiEntries(section, source) ==
  [i \in DOMAIN section |->
     [id |-> [source |-> source, key |-> section[i][1]], entry |-> section[i][2], selected |-> i = 1]]

ServicesResponse(slot, env, live) ==
  LET entries == ApiEntries(ReachableLocal(slot, env, live), "self-hosted") \o ApiEntries(Cloud[slot], "cloud-nim")
      first == SelectInSeq(entries, LAMBDA e : e.selected)
  IN [i \in DOMAIN entries |-> [entries[i] EXCEPT !.selected = i = first]]

-----------------------------------------------------------------------------
(* GET /api/deployment: the default the registry names for a slot *)

RegistryLocal_AnyPlatform(slot, env, live) ==
  RewrittenSection(MergedSection(slot, env, live, "registry"), env, "registry")
RegistryLocal(slot, env, live) == LocalSection(slot, env, live, "registry")

Payload(source, k, e) == [id |-> [source |-> source, key |-> k], entry |-> e]

(* _resolve_service_default, a set of at most one payload: empty where the *)
(* code raises RuntimeError.                                               *)
RegistryDefault(slot, k, env, live) ==
  LET local == RegistryLocal(slot, env, live)
      up == SelectInSeq(local, LAMBDA item : Available(item[2], live))
      cloud == Cloud[slot]
  IN IF Has(local, k) /\ Available(At(local, k), live) THEN {Payload("self-hosted", k, At(local, k))}
     ELSE IF Has(local, k) /\ up # 0 THEN {Payload("self-hosted", local[up][1], local[up][2])}
     ELSE IF Has(cloud, k) THEN {Payload("cloud-nim", k, At(cloud, k))}
     ELSE IF ~Has(local, k) THEN {}
     ELSE IF cloud # <<>> THEN {Payload("cloud-nim", cloud[1][1], cloud[1][2])}
     ELSE {Payload("self-hosted", k, At(local, k))}

-----------------------------------------------------------------------------
(* What a session asks for *)

Fields == {"server", "function", "model", "voice", "promptFile"}
Empty(f) == IF f = "server" THEN NoAddress ELSE ""

(* The fields a client may set for an entry of the catalogue. *)
Overridable == {"voice"}

Hydrated_AnyField(f, asked, e) == IF asked[f] # Empty(f) THEN asked[f] ELSE e[f]
Hydrated(f, asked, e) ==
  IF f \in Overridable /\ asked[f] # Empty(f) THEN asked[f] ELSE e[f]

(* hydrate_config_from_catalog, for one slot *)
Hydrate(slot, asked, env, live) ==
  LET found == EntryById(slot, asked.id, env, live)
  IN IF found = {} THEN asked
     ELSE LET e == CHOOSE x \in found : TRUE
          IN [f \in Fields \cup {"id"} |-> IF f = "id" THEN asked.id ELSE Hydrated(f, asked, e)]

(* filter_session_config: the path of a zero-shot prompt is never the      *)
(* client's, the rest of a slot is what SESSION_CONFIG_KEYS lists.         *)
Filter(asked) == [asked EXCEPT !.promptFile = ""]

Sanitize(body, env, live) == [s \in Slots |-> Hydrate(s, Filter(body[s]), env, live)]

SanitizeProbes(body, env, live) ==
  IF \E s \in Slots : body[s].id.source = "raw" THEN EffectiveProbes(env, live)
  ELSE IF \E s \in Slots : body[s].id.source = "self-hosted" THEN LocalProbes(env, live)
  ELSE {}
=============================================================================
