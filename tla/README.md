# Formal models of the G-Force voice agent

TLA+ modules that model the stateful parts of this repository, TLC configurations
that check them on small instances, and theorems checked by TLAPS that hold for
every instance. All source paths are relative to the repository (`src/` below is
the directory that holds it).

## 1. The system

| part | code | state it keeps | operations |
|---|---|---|---|
| **Pi session manager** | `pi-agent-service/src/server.mjs` | `sessions` (key -> resident record with `busy`, `activeRequestId`, `touchedAt`), `pendingSessions` (key -> creation promise), `sessionFiles` (key -> file) | POST messages, POST abort, DELETE, idle timer, client disconnect |
| **Session index** | same, 543-567 and 375-378 | `session-index.json`, its temporary file, `indexWrite` (a chain of promises), the `.jsonl` session files | save, drop, load at start-up |
| **Delegated workers** | same, 127-211 | `activeWorkers`, one ephemeral session per call | `delegate_task`, abort of the run that called it |
| **Activity stream, shutdown** | same, 409-420, 485-518 | `activityHistory`, `activityClients`, `shuttingDown` | emit, subscribe, close, SIGTERM |
| **Ava's delegation** | `src/examples/frontend_backend_agent/src/{pi_backend,tool_handlers}.py` | `_active_task` per connection, filler tasks, executor threads | `call_backend`, `cancel_backend`, cancellation by the pipeline |
| **Voice gateway sessions** | `src/server.py` | `_session_configs`, `_active_session_configs` | session-config, start, offer, ws, upload checks |
| **Media stores** | `src/attachment_store.py`, `src/webcam_frame_store.py` | attachments, frames (ring of 64), listeners, one capture request per session | store, latest, consume, clear |
| **Webcam panel** | `src/client/src/components/WebcamVisionPanel.tsx` | capture loops, generation counters, requests | start, stop, capture, server messages |
| **Chat history** | `src/examples/frontend_backend_agent/pipeline.py`, `src/examples/shared/pipeline_utils.py` | the LLM context, the copy a summary is made of, the lock | sliding window, pinned summary |
| **Speech catalogue** | `src/examples/shared/prewarm.py`, `src/config_store.py` | the stored configurations of TTS and ASR services | prewarm, language intersection, voice for a language |
| **Choice of services** | `src/utils.py`, `src/server.py`, `src/examples_registry.py`, `src/runtime_platform.py`, the bot in `pipeline.py` | what is known to be reachable, the session's choice | load, merge, hydrate, check, fall back |
| **Model prefetch** | `src/prefetch_models.py`, `docker-compose.yml` | the model volume | download, verify, place, discard |

How they interact. A browser opens a voice connection to the gateway with a stored
session configuration. The pipeline of that connection gives its LLM (Ava) two tools.
`call_backend` sends POST messages to the Pi service from an executor thread, under a
session key that the connection's backend object made; `cancel_backend` cancels the
local wait, whose handler then sends POST abort from another thread. The Pi service
runs the prompt in the key's session: resident, restored from the file that the index
names, or new. The run may call `delegate_task`, several at a time. DELETE is part of
the service's interface; nothing in the repository sends it.

What is hard. The Pi service is one JavaScript thread, so everything between two
`await`s is atomic, but every `await` lets any other handler in: a creation is shared
by the calls that want the same key, the capacity is checked before it and used after
it, a record is read before `busy` is, DELETE awaits an abort and then reads the index.
The gateway is an event loop of the same kind: a configuration moves between two tables
around awaits, and an upload looks its session up before it awaits the body. What the
service catalogues say depends on what is reachable at the moment, and is asked for up to
five times on the way from the browser's choice to the bot.
The voice agent is one event loop with executor threads that cannot be interrupted:
the abort travels apart from what it aborts. The index must survive a crash between
any two file operations. The full list, each item at the line where it bites, is
`hazards` in `PROJECT.json`, with the properties that cover it.

What makes each part correct:

- *session manager*: capacity, one prompt per session, no stranded waiter, no leaked
  AgentSession, conversations kept apart, files kept for what is resident, every call
  answered;
- *index*: what was confirmed is durable, nothing else is lost, nothing removed is
  named but by a creation that had it open, every write settles;
- *workers*: the limit, an exact counter, every worker disposed, an aborted run ends;
- *delegation*: the tool can stop the latest call, connections never stop each other,
  fillers and answers are spoken only while somebody waits for them, every call ends,
  a stop gets through; and, from the user's side, what was stopped stops;
- *gateway*: a configuration is given to one connection, a session is known exactly
  while it may be used; *media stores*: the ring holds the newest frames of its own
  session, a capture request is consumed once, by its own session, while it is the newest;
- *chat history*: the prompt, then the latest messages without a gap, nothing lost that
  the policy keeps, no result of a tool without its call;
- *speech catalogue*: an answer is about the service that was asked, the languages offered
  are those that all three services serve, a voice offered for a language is found again;
- *choice of services*: the bot uses what was checked, no mixture of two services, the
  places that speak of defaults agree;
- *prefetch*: a run that ends well has loaded the models, whole files stay, and running it
  again ends well;
- *activity stream*: a subscriber sees each event once and in order, histories are
  bounded; *webcam panel*: no frame of a camera that was switched off is sent.

## 2. The modules

| module | what it is |
|---|---|
| `PiSessions` | the session manager |
| `PiSessionsProofs` | its theorems |
| `SessionIndex` | the index on disk, with crashes |
| `DurableIndex` | the abstract specification it implements |
| `SessionIndexProofs` | its theorems, the refinement among them |
| `WorkerPool`, `WorkerPoolProofs` | `delegate_task` and its theorems |
| `AvaDelegation` | the two tools, composed with `PiSessions` by `INSTANCE` |
| `AvaDelegationProofs` | its theorems, and that it implements `PiSessions` |
| `MediaStores` | the attachment and the webcam frame stores |
| `VoiceGateway`, `VoiceGatewayProofs` | the sessions of the voice server, extends `MediaStores`; theorems about both |
| `ChatHistory`, `ChatHistoryProofs` | the context of one voice session and the two ways to shorten it; theorems |
| `SpeechCatalog` | what is known of the speech services, and the languages and voices offered |
| `SpeechProofs` | theorems about `SpeechCatalog`, and about `ModelPrefetch`, the cache of the models these services load |
| `ServiceCatalog` | the catalogues as operators: loading, addresses, variants, merging, hydration |
| `PromptCatalog` | the default prompt, as listed, stored and used |
| `ServiceSelection` | one session from the choice to the bot; extends both catalogues |
| `ServiceSelectionProofs` | theorems about the selection and the catalogues |
| `ModelPrefetch` | the one-shot download of models, with kills |
| `MC*` | symmetry sets and catalogues for TLC |

`PROJECT.json` maps every definition to the lines it stands for.

### PiSessions

A step is what runs between two events of the event loop. A handler is a value of
`phase`, named for what it awaits: a message is `opening` (awaits `createSession`),
`saving` (awaits `persistSessionIndex`), `waiting` (awaits a creation another message
owns) or `running` (awaits `prompt`); a DELETE is `joining`, `stopping` or `erasing`;
the rest are the HTTP statuses. Records, and the session files they may create, are
named by the message that created them; `serving` is `activeRequestId` (and `busy`).

When a creation settles, its reactions run before any other event. `Resolve` is that
whole cascade: `finally` clears the entry, the DELETEs that joined dispose of the
session and drop the entry, the creator takes the record unless another message has
it, the messages that share the promise find it busy. Its order (the first DELETE
that joined before the creator) is the order in which the code attaches reactions.

`EvictionChoices` leaves open which idle sessions have expired and which was used
last, so that a step of the timer and of a creation may release any set that the two
loops of `evictIdleSessions` can. One case is excluded: a session whose own index
entry is still being written has not been idle for the TTL, and is released only if
the capacity calls for it.

What a session says, the provider's readiness check and the parsing of requests are
left out; a request that does not parse reaches no state.

### SessionIndex and DurableIndex

`SessionIndex` has the file operations of one write apart: it takes the map when it
starts (`StartWrite`), not when it was asked for, and ends by replacing the file
(`Renamed`) or not (`WriteFails`), which resumes the call that chained it. DELETE goes
on to `rm`. `CrashAndRestart` may come at any point, and is also what `shutdown()`
does to a write, since it exits without waiting for the chain. What the file system
acknowledged is assumed to stay (no power loss: the code does not `fsync`).

`DurableIndex` says the same without files: a change makes a new version, some version
is durable, later ones replace it and earlier ones never do, a call is confirmed once a
version that holds its change is durable, a crash loses the later versions and nothing
else. `versions`, `durable`, `snapshot` and `at` are history variables: they record what
the refinement needs and no guard reads them.

A creation is `opening` while it awaits `createSession`, with `target` the file it opened or
made, and then reads the index again: it is `open` if the entry is there, and chains a
write if it is not. A DELETE that finds a busy session is `stopping` while it awaits its
abort, and drops the entry afterwards. `InProgress` is `pendingSessions`. Of a session
itself there is no more than whether its key is `resident`; it may be busy whenever a
DELETE comes, and be evicted whenever it is not. So a creation that opened a file in the
meantime of a DELETE may find the entry gone and put it back (`PutBack`), although the
DELETE removes the file: the one way to a dangling entry, and `NoDanglingEntry` says that
there is no other.

### WorkerPool

One call of `delegate_task` is `creating`, `prompting` or `closing` (the `finally`
block that awaits `worker.abort`). The signal of the run is `aborted`; a worker hears it
only from the moment its listener is installed, so the second look at the signal
(`AbortSeen`) matters. `PiSessions` takes a prompt as one step from start to end; this
module is about what may keep it from ending.

### AvaDelegation

The client side of one request is `call` (its handler), `request` (its POST messages)
and `abort` (its POST abort): `queued` for a thread, `sent`, `served`, and `over` or
`broken`. Cancelling a wait drops a request that is still queued and leaves one that
has a thread alone, as cancelling `asyncio.to_thread` does. The arrival of a request is
the action of `PiSessions` for it, and all other steps of the service are its own:
`EvictExpired`, the ends of creations, `PromptEnds`, `Disconnect` when a thread gives up.

`_active_task` holds a call from its start until `call` leaves its `finally` block, which
for a cancelled one is after the POST abort: `Pending` is therefore the slot *and* the
state of its task. The order in which requests of different threads arrive is open.
Ava's texts are left out; with the default threshold the filler is a timer that may
fire at any time. With a threshold of 0 it is spoken before the request is queued, and
with `FRONTEND_BACKEND_DIRECT_TOOL_RESPONSE` off the answer goes through the LLM: neither
is modelled. Pipecat's own handling of tool calls is a nondeterministic
`HandlerCancelled`.

### VoiceGateway and MediaStores

A step is what the event loop runs between two awaits. A connection is `checking` (the
readiness check of a WebSocket), `accepting` (`ws.accept`), `signaling` (an offer whose
handler has not answered) or `running` (its bot); an upload is `reading` from the lookup
of its session until its body is there. `pending` holds the keys of `_session_configs`
(what is stored under a key never differs from `"own"`), `active` the table
`_active_session_configs`. `BotStep` is what a bot may do with the stores: ask for a
capture, read recent frames, clear. A restart loses both tables and the stores; clients
keep their ids. A failed or renegotiated offer leaves its active entry behind
(`Leaking`), as in the code. `asked` and `shot` are history variables.

The deployment's examples may lack a capability: `Allows` is that of the example of a
session's own and of the default configuration. (The shipped example has neither, so
its uploads are answered with 403; the routes and stores are there for others.)

### ChatHistory

One conversation, shortened by one of the two policies. A message is its role and its
number, so that a gap and a loss can be told. `Summarise` takes the copy under the lock,
`Summarised` puts the summary in place if the context is still the copy, `SummaryFails`
is the timeout, an error or an empty text. Tool results enter with their call, as the
aggregators of Pipecat do it. The shipped pipeline uses the window;
`apply_pinned_prompt_summary` is offered to other examples and called by none here.

### SpeechCatalog

Each request is a thread of `asyncio.to_thread`: a step is one call of `config_store` with
what the thread does before the next (`TtsLatest` is the second of the two that store a TTS
configuration). A selection is the one that results when the fields a request lacks have
been filled in, one by one, from the default's. A timeout answers the request and leaves the thread going
(`TimesOut`). A configuration is named by what it was made of (service, prefix, default
voice), and what is in it (`VoicesOf`, `DeclaredBy`) is computed. `SessionLanguages` is the
intersection, with its two default rules. `resolve_voice_for_language` is called by no bot
of the repository: `VoicesFor` is an operator on any reachable state.

### ServiceCatalog, PromptCatalog and ServiceSelection

The catalogues are pure operators of `env` (platform, Docker or host) and `live` (what
probes answer), one for each loader and resolver, the registry's second loader included.
Sections keep their order, as the first entry is the default. `ServiceSelection` follows
one session through `POST /api/start` (hydrate, check three slots, hydrate and store),
`/api/offer` (hydrate) and the bot (defaults for what is missing), while addresses come
up and go down (`Toggle`) and answers that are remembered expire (`Expire`). `checked` and
`used` are the addresses of the check and of the bot, and `moved` says whether a probe
would have answered otherwise in between. `route` is how the connection came about: after
`/api/start`; as a WebSocket without an id, which is checked on the way (`StartDirect`); or
with nothing stored and nothing checked (`ConnectUnchecked`: an offer without an id, any
connection whose id is unknown or used up). An offer may come with `request_data`: the
body of the bot is that, updated with the configuration (`Updated`, `Body`), so that it
supplies what the configuration lacks. A bot whose prompt cannot be resolved does not run
(`PromptFails`: the two `KeyError`s of `resolve_prompt`).

### ModelPrefetch

A step is one call that leaves a trace on the volume. Files are `absent`, `short` (below
the minimum), `broken` (of a plausible size, but it does not load), `other` (it loads, but
is not the artifact: `np.load` of an archive reads only its directory, and a session can be
made of any model) or `whole`. The Whisper snapshot is `absent`, `partial`, `complete` (its
files are there and load) or `damaged` (one of those that are there is empty or does not
load), which the library does not fetch again. The volume starts with anything; a kill, a
cut download, a missing GPU and a file that goes bad, of either kind, are faults. A
download without an announced length may place a `broken` file, which the verification
removes, or an `other` one, which it accepts. `sized` is a history variable: the file was
put in place by a run that had been told its length. `Rerun` is the operator's: the
service has `restart: "no"`.

## 3. The checks

| run | instance | shows |
|---|---|---|
| `sessions` | 3 keys, 3 messages, 2 deletes, 2 places | the seven safety properties of `PiSessions` when deletes, evictions and creations compete |
| `answered` | fair | every message and DELETE is answered |
| `index` | 2 keys, 2 creations, 1 delete, fair | the index implements `DurableIndex`; confirmed changes survive, other entries stay; nothing dangles that was not put back; no write waits for ever behind a failed one |
| `workers` | 2 runs, 3 calls, 2 places, fair | the limit, the exact counter, every worker disposed, an aborted run ends |
| `ava_cancel` | 2 connections, 2 calls, 1 place, 3 threads | the safety properties of the tools |
| `ava_ends` | 1 connection, 2 calls, 1 thread, fair | every call ends, every stop gets through |
| `ava_stopped` | **violation** | an early abort is answered, and the prompt runs on |
| `gateway` | 2 sessions, 2 connections, 3 uploads, 2 capture requests, a ring of 2, 1 restart | the gateway's tables and the stores |
| `history` | 8 messages, 2 prompt messages, limit 2 | both ways to shorten the context |
| `speech` | 3 requests, 2 functions of one server and an engine in the process, 2 ASR services | the stores, the languages and the voices |
| `selection` | 7 choices and 3 ways to connect, with and without data in the offer, 3 values of `PLATFORM`, Docker and host, 5 addresses, 3 prompt catalogues | what is checked is used; defaults, prompts and fields agree |
| `prefetch` | 4 faults, any volume, fair | models that load, whole files kept, success in the end |

The violation is a disagreement between the code and a sentence of its prompts;
`findings` in `PROJECT.json` quotes both. Section 6 lists what else was met.

**Bounds.** Every request is made at most once, so the instances are finite without
any constraint. Three keys and two places are the least in which a creation finds the
places taken by one session in use and one being created, and evicts a third; the third
message lets a creation be shared or a session be replaced; two deletes are the least in
which one joins a creation and another stops a run. One delete and two creations let an
index entry be made, dropped and made again around a write that was chained before, and
let the second creation open the file of the first while the delete removes it. Three calls and two places let one be refused while two
work. Two calls of one connection overlap, or follow each other; of
two, they compete for one session. One thread is the worst case for the executor; with
three a message and two aborts may be under way together.

Two connections are the least that can use one id twice or race each other; the restart
adds ids that were given out in an earlier life of the process. A ring of 2 has an order
that can go wrong and slides at the third frame, which is why there are three uploads; two
of them and two capture requests let a capture answer a request that has been replaced. To
keep the instance small the session's own example takes webcam uploads and the default one
attachments. Eight messages make two summaries with messages
between them, or four slides. Three requests are the least in which one stores between
another's lookup and the third's. The choices of `selection` are one of each kind: none, a
bare key, an entry of the platform, the variant of another one, a cloud entry, and an
address of the client's with a custom id and with none; the catalogues of the
MC module have what the shipped ones have of each
kind (two platforms that differ under one key, one that repeats another, an engine in
the process, a managed endpoint, cloud functions), and nothing happens once the bot
runs. The data of an offer has every field of every slot, each of its own. The third prompt
catalogue is one that no prompt can be resolved from. Four faults let two runs in a row fail twice over, or the volume be damaged between them.

Every property has a mutant,
a plausible bug in one definition, that TLC finds under the same configuration:
no property holds because a case does not occur.

**Deadlock** is not checked where the finite set of requests is used up, after which
the system idles.

**Fairness.** `PiSessions`: a creation, a file operation and a prompt end, well or
badly (the provider's stream ends or fails and is retried twice; there is no bound in
the service, which is what `AvaDelegation` does not rely on). `SessionIndex`: the file
system answers. `WorkerPool`: a session is created or not, a worker that was told to
abort stops; a worker that nobody aborts may work for ever. `ModelPrefetch`: a run goes on
until it ends, and the operator starts another one as long as none has succeeded
(`EventuallyReady` claims nothing if nobody does); faults are bounded in number. `AvaDelegation`: the event
loop and the threads go on and `urlopen` gives up after `PI_AGENT_TIMEOUT_SECONDS`; the
service may never reply.

## 4. The proofs

All proofs are checked by TLAPS to the last leaf, for all values of the constants
under the named assumptions of the modules, which TLC evaluates in the runs:

- kinds of requests are disjoint, and `None`, `NoSession`, `NoRequest`, `NoVoice`, `NoKey`
  are not among the values they stand beside;
- limits are positive where the code takes them so (`MaxSessions`, `MaxWorkers`, `Threads`,
  `Ring`); the tasks of the worker pool are finite;
- the choices and the data of a client have all fields (`BodiesAssumption`: the empty value
  is an absent field), catalogues are sequences of pairs (`SectionsAssumption`: YAML mappings), the
  slots are the three of the example;
- two things that the code relies on of `services.local.yaml` and never checks, used only
  by `DefaultsAlwaysAgree`: the voice server's loader and the registry's rewrite every
  address of the file to the same one, although each has a table of its own
  (`AddressesAssumption`); a key with the name of a platform appended is not a key of the
  file, nor that of a variant of another key (`SuffixAssumption`). The shipped file
  fulfils both, as does the catalogue of the run, which has more platforms. Neither can
  go: TLC refutes `DefaultsAgree` for a file whose first variant is an address that only
  the voice server's loader rewrites (`pi-agent:9999`), and for one that lists a key
  `nano-dgxspark` ahead of `nano`. Such an entry in the file is what a reviewer of a
  change to it should look for.

Nothing else is assumed of catalogues, prompts, orders of events, or of how many calls,
sessions, connections and faults there are. A module proves its invariants from an
inductive one; TLC was given the inductive one before it was proved.

- **PiSessions.** `TypeCorrect` needs what a handler holds (`HandlersTyped`).
  `CreationsAreOwned`: each entry of `pending` has a live owner of its key and each
  waiter an entry; it is what makes `Resolve` and `Reject` find exactly their waiters.
  `BusyIsExclusive`: busy records and running messages are a bijection; inductive only
  together with the fact that a record being created is not running yet.
  `CapacityRespected`: `Occupancy` counts a session being saved twice, so the bound on
  the *set* of keys is strengthened by the bound on the count before a creation starts.
  `ConversationsApart` needs that the file a session was opened with was created under
  the same key (`FilesOfOwnKey`), as a file outlives the session that made it.
  `SessionsDisposed` needs `PlaceIsOwn`: while a session is opened its key has no
  resident, and while it is saved none but itself; without it `sessions[key] = ...` could
  overwrite a session nobody disposes. `ResidentsIndexed` then follows where nobody
  deletes the key.
- **SessionIndex.** `TypeCorrect`; then, if the index can be read at start-up
  (`~ReadFaults`; see section 6 for the other case): `Refinement`, by
  the invariant that the disk holds version `durable`, that a write in progress holds
  version `snapshot`, not older than it, and that a queued call's change is at or before
  the version its own write will take; `Durability`, its consequence for confirmed calls;
  `NothingDangles`, by the invariant that after the version in which a file was dropped
  no version names it, unless a creation that had opened it put it back: until it does,
  such a creation is the only one that can; `EntriesStay`, an action property, by the invariant that the disk
  is behind the write under way and both are behind the memory by excused entries only.
- **WorkerPool.** `WorkersCounted` is the heart: the counter equals the number of calls at
  work, by induction over the ways a call starts and ends; `WorkersBounded` and
  `TypeCorrect` (the counter never goes below zero) follow from it, and `WorkersDisposed`
  from where a call is when it has made its worker.
- **AvaDelegation.** `ServiceImplemented`: the composition implements `PiSessions`. Every
  step of the tools is a step of the service (the arrival of a request, the end of a
  thread that gives up) or leaves its variables alone, so that all theorems about
  `PiSessions` hold in it. `LatestKeepsSlot`, `FillersEndWithCalls` and `CancelledStaySilent`
  from `Orderly`: the slot of a connection holds a call of its own that has not ended, the
  latest call holds the slot as long as it waits, a filler belongs to a call that waits
  or aborts, and a cancelled call is past its wait. `StopsStayApart` relates both sides:
  what has arrived at the service did so for a call that was made and under the key of
  its caller (`OwnKeys`), and the proof uses the theorems about `PiSessions` through the
  refinement.
- **VoiceGateway and MediaStores.** `Sound`: types, the stores, and that an upload that is
  being read has a session. `RingIsNewest` is the invariant of the stores that the frames
  are the last of all frames added, `Ring` at most. `Accounted` carries `ConfigsGivenOnce`
  and `SessionsKnown`: a configuration waits until a first connection has come for it,
  the first connection has it, each later one has the default, and what is active has a
  connection. `CapturesAnswerOnce`, an action property: what `captureRequest` holds is the
  newest request that was made for the session, none with a greater number having been
  made for it, and an accepted answer has taken its request out.
- **ChatHistory.** `ContextIsLatest`, `MessagesAccounted` and `ResultsKeepCalls`, for any
  limit and any length of the conversation. `InOrder` states the context element by
  element: what is pinned, then the latest messages, numbered without a gap. It is not
  inductive without `Lent`: the copy that a summary is made of could be cut off when it
  was taken, so it can be replaced when the summary arrives.
- **SpeechCatalog.** `AnswersAreOwn`, `OffersAreServed` and `VoicesWereOffered`. `EntriesSound`
  ties an entry to its service and to the voice of a request that came for that service;
  `RequestsSound` says that what a request has in hand was made for the service and the
  voice it asked for, and that there is an entry by then unless it is a failure or of the
  engine in the process: a later lookup for a language never comes too early.
- **ModelPrefetch** (in `SpeechProofs`). `SuccessIsUsable` and `ChangesForTheBetter`, from
  `OnCourse`: a run is past Whisper only with a snapshot that loads, downloads only
  where there is no file, and what it placed knowing the length is whole. They hold with any number of faults.
- **ServiceSelection.** `CheckedServices` from `IInv`: a slot whose id names one entry whatever is reachable, and
  every slot while no probe would answer otherwise, is *settled* (hydrating it again
  leaves the address alone), and what was checked is the address the configuration still
  resolves to; with that address, the bot's body has it too, as the configuration comes
  before the data of the offer. Of a session that was checked nothing but an address the
  data supplies for a slot without one is excepted. `ShownPromptUsed`. `OneEntryPerSlot`:
  whatever was hydrated, and how often, the configuration of a slot is its client's own or
  one catalogue entry's. For this the loops of the
  catalogues are typed, one lemma for each: a fold is the recursive function over sets of
  positions by which the community module defines it, and what each step keeps holds of
  its result (`FoldExists`, `FoldStays`, by the well-foundedness of the natural numbers
  for a set, not for a predicate). `SelectedIsDefault`: the list and the merge have the
  same first entry. `DefaultsAlwaysAgree` adds the deployment page, whose merge repeats
  variants that the voice server's leaves out. Two facts are kept by every `Put` of
  either merge (`PutOwn`, `PutVariant`): a variant that is not the active one stands
  behind the one that is, and a key of the file shows its active variant (`Ordered`); and
  which keys of the file a section has does not depend on the loader (`OwnIn`). So the
  first entry of the registry that answers is never one of its repetitions, and what the
  page shows is in the list that the client chooses from (`LoadersMeet`, `DefaultListed`).

Only model-checked: the six liveness properties (`EveryCallAnswered`, `EveryWriteSettles`,
`AbortEndsRun`, `EveryCallEnds`, `StopGetsThrough`, `EventuallyReady`), which are outside the
prover's reach. Every invariant and action property of the passing runs is a theorem.

## 5. Not modelled, and the plan

Not modelled because there is nothing to interleave: HTTP parsing, the readiness cache of
the Pi service, workspace path checks, the audio recorder, tracing and the text filter,
the listings of tools and subagents, TLS and TURN set-up, the rendering of the browser
client. Not modelled because it is not in the repository: Pipecat, the Pi coding agent
library, the model services. In the modelled parts: the spelling of YAML, of addresses
(scheme, path) and of languages beyond their case and region; the language and generation
parameters of a catalogue entry; the listeners of the stores, which keep nothing; the
texts of prompts.

Next, in this order:

1. `ActivityStream` (replay and live events, bounded histories, shutdown); abstract
   specification: each subscriber sees a suffix of the events, once, in order.
2. `WebcamPanel`: generations of the capture loops.

## 6. What was met while modelling

The models do what the code does. Where that is not what a reader would expect, the
properties say what they except, and this section says why. Only `StoppedWorkStops` is a
run; `ReleasedSessionsAreIdle`, `ResidentIsRestorable` (`PiSessions`), `NothingPendingIsTrue`
and `OnlyTheStoppedStops` (`AvaDelegation`) are stated in the modules, and TLC refutes them.

*Pi service* (`pi-agent-service/src/server.mjs`)

- A session is in both maps while its index entry is written, and counts twice (231, 256,
  221): another creation may evict it before its own request runs on it, although
  README.md:79 speaks of idle sessions (`ReleasedSessionsAreIdle`).
- DELETE of a busy session takes it out of the map, awaits its abort and then drops the
  entry and removes the file that the index names by then, which may be its successor's
  (374-378; `ResidentIsRestorable`). A creation that has that file open (239) then puts the
  entry back (257-260), so that the index on disk names a removed file; `NoDanglingEntry`
  excepts that creation.
- An index that cannot be read or parsed is answered with an empty map, and the next
  change overwrites it (546, 553-554): with `ReadFaults`, `EntriesSurvive` does not hold.
- POST abort ignores the request id it is sent (364) and stops what the session runs by
  then, though the client sends one (`test_pi_agent_backend.py:66`; `OnlyTheStoppedStops`).
- A refused creation has disposed of every idle session before it answers 503 (580), and
  more sessions than the maximum are in memory while evicted and deleted ones are still
  being stopped (589). A client that leaves during the creation is not noticed (315). A
  `worker.abort` that rejects would keep its worker and its place (207). An entry whose
  file cannot be opened leaves the map without a write (243).

*Delegation*

- The later of two overlapping calls empties the slot when it ends: `cancel_backend` then
  says that nothing is pending while the earlier one runs (`pi_backend.py:56`, 63-65;
  `tool_handlers.py:129`; `NothingPendingIsTrue`).
- Each connection has a session key of its own and never deletes its session.

*Gateway* (`src/server.py`)

- Media that arrive after their session has ended are stored and never cleared (706). The
  capture request of an upload that fails is used up (774).
- The bot of an older connection takes out the active entry of a newer one with the same
  id (815); an offer that fails or renegotiates leaves its entry for ever (808).
- A configuration taken for a WebSocket that is then not accepted is lost (859).

*Chat history*: the window counts messages, although CONFIGURATION.md:36 speaks of turns,
and may keep a tool's result without its call (`pipeline.py:129`); `ResultsHaveCalls` is
about the summary only.

*Speech catalogue* (`prewarm.py`)

- An ASR service that failed to answer counts as one that declares no language, and
  es-US is offered (197, 203). `OfferedIsServed` asks for an answer.
- A request that omits the voice borrows the default one, whose model prefix is cached in
  the voice ids of another service (70; `server.py:288`). `VoiceWasOffered` excepts it.
- For engines in the process, the voice of a language is looked up in whatever entry was
  made last. An empty but successful answer is kept for ever.

*Choice of services*

- The bot gives an explicit or built-in service without a function id, a model or a
  zero-shot file those of the default one (`pipeline.py:250`), against `server.py:281-283`:
  the check went to the same address with other values.
- Hydration keeps the default voice of one entry as the user's when the next hydration
  finds another entry, and drops the zero-shot file when it finds none.
- Without `PLATFORM`, the key of a variant names another entry as reachability changes
  (`utils.py:424`), and on the host both language models are at localhost:18000.
  `CheckedIsUsed` asks less of such a choice.
- A default whose variants are all unreachable, without a cloud entry of its name, makes
  `GET /api/deployment` raise (`examples_registry.py:307`).
- A `PROMPT_SELECTOR` without a default in the registry makes the bot speak another
  prompt than `/api/prompts` marks; `PromptShownIsUsed` counts it as a choice.
- The registry's loader rewrites the addresses it lists only, where `utils.py` rewrites
  every name without a dot, and does not merge equal variants.

- The body of a WebRTC bot starts from the offer's `request_data`, which nothing filters
  (`server.py:818`), although `utils.py:465` says that anything beyond the listed keys "is
  dropped before the pipeline sees it" and `utils.py:592` that a client path is never
  trusted. For a slot that was left at its default the bot uses the address, the values and
  the zero-shot file of that data (`pipeline.py:156`, 202, 246, 255), which no check has
  seen. `CheckedIsUsed` excepts such an address, and `NoMixedSelection` is about the
  configuration. The browser client sends no such data.
- An offer without a session id, and any connection whose id has nothing stored, is run
  without a readiness check (`server.py:803`, 258, 851).
- A prompt without content that is asked for by its key, or a `prompts.yaml` without any,
  ends the bot with a `KeyError` (`utils.py:163`, 170).

*Prefetch* (`prefetch_models.py`)

- The want of a GPU removes both whole artifacts (114), also under a running server;
  `OnlyWholeReplaces` excepts the verification. `docs/CONFIGURATION.md:114` says that "A
  missing, partial, or corrupt artifact is downloaded again atomically": for Kokoro, the
  run that finds a corrupt one removes it and fails, and the next one downloads it.
- A Whisper file that is empty or does not load fails every run at 60 or 66, and nothing
  removes it, against the same sentence: the library returns what it has cached.
  `EventuallyReady` excepts this.
- A file of sufficient size that loads is taken for the artifact, whatever it is (72, 109,
  112: `np.load` reads the directory of an archive only). `StartsUsable` claims the whole
  artifact only of a file that was downloaded with its length announced.
