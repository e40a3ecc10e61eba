----------------------- MODULE ServiceSelectionProofs -----------------------
(***************************************************************************)
(* Theorems about ServiceSelection, for any catalogues, choices, platforms *)
(* and addresses, in whatever order services come up and go down: the bot  *)
(* uses what was checked, and the prompt that was shown; no slot is a mix  *)
(* of two choices; the list of services, the deployment page and a session *)
(* that chooses nothing mean the same defaults.                            *)
(***************************************************************************)
EXTENDS ServiceSelection, WellFoundedInduction, SequenceTheorems, TLAPS

-----------------------------------------------------------------------------
(* The inductive invariant of CheckedIsUsed *)

(* The ids that name one entry whatever is reachable.                      *)
Stable(id) ==
  /\ id.source # "raw"
  /\ id.source = "self-hosted" => env.platform # Unset

(* What the catalogues have for the id of a slot now, at most one entry.   *)
Found(s) == EntryById(s, session.config[s].id, env, Live)

(* A hydration with what is reachable now would leave the address alone.   *)
Settled(s) == Found(s) # {} => session.config[s].server = (CHOOSE e \in Found(s) : TRUE).server

(* The phases a session is in once the check of a slot has passed.         *)
PassedBy ==
  [llm |-> {"asr", "tts", "ready", "stored", "offered", "running"},
   asr |-> {"tts", "ready", "stored", "offered", "running"},
   tts |-> {"ready", "stored", "offered", "running"}]

(* A session without choices of its own has none stored; whichever is being*)
(* checked came by one of the two routes that are.                         *)
Shaped ==
  /\ DOMAIN session = {"phase", "asked", "config", "route", "data"}
  /\ DOMAIN checked = Slots
  /\ session.phase \in Phases
  /\ session.phase = "idle" => session.route = "unchecked"
  /\ session.route # "start" => session.config = NothingAsked
  /\ session.phase \in {"llm", "asr", "tts", "ready"} => session.route \in {"start", "direct"}
  /\ session.phase = "stored" => session.route = "start"
  /\ \A s \in Slots :
       /\ DOMAIN session.config[s] = Fields \cup {"id"}
       /\ session.config[s].id = session.asked[s].id

(* A slot whose id names one entry is settled whatever the probes say, and *)
(* every slot while they have not changed; what was checked is the address *)
(* that the configuration still resolves to.                               *)
IInv ==
  /\ Shaped
  /\ \A s \in Slots : Stable(session.asked[s].id) \/ ~moved => Settled(s)
  /\ \A s \in Slots :
       session.phase \in PassedBy[s] /\ session.route # "unchecked" /\ (Pinned(s) \/ ~moved) =>
         checked[s] = ServerOf(s, session.config)
  /\ CheckedIsUsed

-----------------------------------------------------------------------------
(* The catalogues *)

(* A probe remembers what it finds; what is reachable stays the same.     *)
LEMMA LiveKept ==
  ASSUME NEW A, Probe(A), up' = up
  PROVE  Live' = Live
BY DEF Live, Probe

(* No probe is consulted for a stable id. *)
LEMMA StableEntry ==
  ASSUME NEW s, NEW id, Stable(id), NEW live, NEW other
  PROVE  EntryById(s, id, env, live) = EntryById(s, id, env, other)
BY DEF Stable, EntryById, CatalogOf, LocalCatalog, LocalSection

(* There is no entry for an id that is not given. *)
LEMMA NothingFound ==
  ASSUME NEW s, NEW live
  PROVE  EntryById(s, NoId, env, live) = {}
<1>1. CatalogOf(NoId.source, s, env, live) = <<>>
  BY DEF NoId, CatalogOf
<1>2. \A k : ~ Has(<<>>, k)
  BY DEF Has, Position, SelectInSeq
<1> QED BY <1>1, <1>2 DEF EntryById

(* Hydration keeps the id, and takes the address of the entry it finds.    *)
LEMMA HydratedServer ==
  ASSUME NEW s, NEW asked, NEW live, DOMAIN asked = Fields \cup {"id"}
  PROVE  LET hydrated == Hydrate(s, Filter(asked), env, live)
             found == EntryById(s, asked.id, env, live)
         IN /\ DOMAIN hydrated = Fields \cup {"id"}
            /\ hydrated.id = asked.id
            /\ found = {} => hydrated.server = asked.server
            /\ found # {} => hydrated.server = (CHOOSE e \in found : TRUE).server
<1> DEFINE hydrated == Hydrate(s, Filter(asked), env, live)
           found == EntryById(s, asked.id, env, live)
           e == CHOOSE x \in found : TRUE
<1>1. /\ DOMAIN Filter(asked) = Fields \cup {"id"}
      /\ Filter(asked).id = asked.id /\ Filter(asked).server = asked.server
  BY DEF Filter, Fields
<1>2. Hydrated("server", Filter(asked), e) = e.server
  BY DEF Hydrated, Overridable
<1>3. CASE found = {}
  <2>1. hydrated = Filter(asked)
    BY <1>1, <1>3 DEF Hydrate
  <2> QED BY <1>1, <1>3, <2>1
<1>4. CASE found # {}
  <2>1. hydrated = [f \in Fields \cup {"id"} |-> IF f = "id" THEN asked.id ELSE Hydrated(f, Filter(asked), e)]
    BY <1>1, <1>4 DEF Hydrate
  <2>2. hydrated.server = Hydrated("server", Filter(asked), e)
    BY <2>1 DEF Fields
  <2> QED BY <1>2, <1>4, <2>1, <2>2
<1> QED BY <1>3, <1>4

(* What a slot without a choice resolves to is settled. *)
LEMMA NothingSettled ==
  ASSUME NEW s \in Slots, session.config = NothingAsked
  PROVE  /\ DOMAIN session.config[s] = Fields \cup {"id"} /\ session.config[s].id = NoId
         /\ Settled(s)
<1>1. DOMAIN session.config[s] = Fields \cup {"id"} /\ session.config[s].id = NoId
  BY DEF NothingAsked, Fields
<1> QED BY <1>1, NothingFound DEF Settled, Found

(* A hydration settles every slot; it changes no address that was settled, *)
(* and leaves one that nothing is found for.                               *)
LEMMA SanitizedSettles ==
  ASSUME NEW asked, session'.config = Sanitize(asked, env, Live), env' = env, Live' = Live,
         \A s \in Slots : DOMAIN asked[s] = Fields \cup {"id"}
  PROVE  \A s \in Slots : /\ DOMAIN session'.config[s] = Fields \cup {"id"}
                          /\ session'.config[s].id = asked[s].id
                          /\ Settled(s)'
                          /\ EntryById(s, asked[s].id, env, Live) = {} => session'.config[s].server = asked[s].server
<1> SUFFICES ASSUME NEW s \in Slots
             PROVE  /\ DOMAIN session'.config[s] = Fields \cup {"id"}
                    /\ session'.config[s].id = asked[s].id
                    /\ Settled(s)'
                    /\ EntryById(s, asked[s].id, env, Live) = {} => session'.config[s].server = asked[s].server
  OBVIOUS
<1>1. session'.config[s] = Hydrate(s, Filter(asked[s]), env, Live)
  BY DEF Sanitize
<1> DEFINE found == EntryById(s, asked[s].id, env, Live)
           now == session'.config[s]
<1>2. /\ DOMAIN now = Fields \cup {"id"} /\ now.id = asked[s].id
      /\ found = {} => now.server = asked[s].server
      /\ found # {} => now.server = (CHOOSE e \in found : TRUE).server
  <2>1. PICK mine : mine = asked[s]
    OBVIOUS
  <2>2. DOMAIN mine = Fields \cup {"id"} /\ now = Hydrate(s, Filter(mine), env, Live)
    BY <1>1, <2>1
  <2>3. /\ DOMAIN now = Fields \cup {"id"} /\ now.id = mine.id
        /\ EntryById(s, mine.id, env, Live) = {} => now.server = mine.server
        /\ EntryById(s, mine.id, env, Live) # {} =>
             now.server = (CHOOSE e \in EntryById(s, mine.id, env, Live) : TRUE).server
    <3> HIDE DEF now
    <3> QED BY <2>2, HydratedServer
  <2> QED BY <2>1, <2>3
<1>3. Found(s)' = found
  BY <1>2 DEF Found
<1>4. Settled(s)'
  BY <1>2, <1>3 DEF Settled
<1> QED BY <1>2, <1>4

(* Where a default is looked for. *)
LEMMA SameServer ==
  ASSUME NEW s \in Slots, env' = env, Live' = Live, session'.config[s].server = session.config[s].server
  PROVE  ServerOf(s, session.config)' = ServerOf(s, session.config)
BY DEF ServerOf, DefaultServer

(* A session that is hydrated again keeps the address of every slot that a *)
(* choice pins, and of every slot while the probes say what they said.     *)
LEMMA SanitizedAgain ==
  ASSUME IInv, session'.config = Resanitized, session'.asked = session.asked, session'.route = session.route,
         DOMAIN session' = DOMAIN session, session'.phase \in Phases \ {"idle"}, session.phase # "running",
         session'.phase # "running",
         \A s \in Slots : session'.phase \in PassedBy[s] => session.phase \in PassedBy[s], session.route = "start",
         UNCHANGED <<env, checked, moved>>, Live' = Live
  PROVE  IInv'
<1>. USE DEF IInv
<1>1. \A s \in Slots : DOMAIN session.config[s] = Fields \cup {"id"} /\ session.config[s].id = session.asked[s].id
  BY DEF Shaped
<1>2. \A s \in Slots : /\ DOMAIN session'.config[s] = Fields \cup {"id"}
                       /\ session'.config[s].id = session.config[s].id
                       /\ Settled(s)'
                       /\ EntryById(s, session.config[s].id, env, Live) = {} =>
                            session'.config[s].server = session.config[s].server
  BY <1>1, SanitizedSettles DEF Resanitized
<1>3. Shaped'
  BY <1>1, <1>2 DEF Shaped
<1>4. ASSUME NEW s \in Slots, session'.phase \in PassedBy[s], session'.route # "unchecked",
             (Pinned(s) \/ ~moved)'
      PROVE  (checked[s] = ServerOf(s, session.config))'
  <2>1. Stable(session.asked[s].id) \/ ~moved
    BY <1>4 DEF Pinned, Stable
  <2>2. Settled(s)
    BY <2>1
  <2>3. session'.config[s].server = session.config[s].server
    BY <1>2, <2>2 DEF Settled, Found
  <2>4. Pinned(s) \/ ~moved
    BY <1>4, <2>3 DEF Pinned
  <2>5. checked[s] = ServerOf(s, session.config)
    BY <1>4, <2>4
  <2> QED BY <2>3, <2>5, SameServer
<1>5. CheckedIsUsed'
  BY DEF CheckedIsUsed
<1> QED BY <1>2, <1>3, <1>4, <1>5

(* The bot goes where the configuration leads, unless the data of the      *)
(* offer supplies the address.                                             *)
LEMMA BotFollowsConfig ==
  ASSUME NEW s \in Slots, Pinned(s) \/ ~Supplied(s)
  PROVE  BotServer(s) = ServerOf(s, session.config)
<1>1. Body(s).server = IF session.config[s].server # NoAddress THEN session.config[s].server
                       ELSE session.data[s].server
  BY DEF Body, Updated, Empty, Fields
<1> QED BY <1>1 DEF BotServer, ServerOf, Pinned, Supplied

(* While nothing is done for the session, what is reachable may change.    *)
LEMMA ObservedOnly ==
  ASSUME IInv, UNCHANGED <<env, session, checked, used>>, ~Over, Observed
  PROVE  IInv'
<1>. USE DEF IInv
<1>1. Shaped'
  BY DEF Shaped
<1>2. ~ moved' => ~ moved /\ Live' = Live
  BY DEF Observed
<1>3. ASSUME NEW s \in Slots, (Stable(session.asked[s].id) \/ ~moved)' PROVE Settled(s)'
  <2>1. CASE Stable(session.asked[s].id)
    <3>1. Found(s)' = Found(s)
      <4>1. session.config[s].id = session.asked[s].id
        BY DEF Shaped
      <4>2. EntryById(s, session.asked[s].id, env, Live') = EntryById(s, session.asked[s].id, env, Live)
        BY <2>1, StableEntry
      <4> QED BY <4>1, <4>2 DEF Found
    <3> QED BY <2>1, <3>1 DEF Settled
  <2>2. CASE ~ moved'
    BY <1>2, <2>2 DEF Settled, Found
  <2> QED BY <1>3, <2>1, <2>2 DEF Stable
<1>4. ASSUME NEW s \in Slots,
             (session.phase \in PassedBy[s] /\ session.route # "unchecked" /\ (Pinned(s) \/ ~moved))'
      PROVE  (checked[s] = ServerOf(s, session.config))'
  <2>1. CASE Pinned(s)
    BY <1>4, <2>1 DEF Pinned, ServerOf
  <2>2. CASE ~ moved'
    BY <1>2, <1>4, <2>2, SameServer
  <2> QED BY <1>4, <2>1, <2>2 DEF Pinned
<1>5. CheckedIsUsed'
  BY DEF CheckedIsUsed, Over
<1> QED BY <1>1, <1>3, <1>4, <1>5

-----------------------------------------------------------------------------
(* CheckedIsUsed *)

LEMMA InitSettled == Init => IInv
<1> SUFFICES ASSUME Init PROVE IInv
  OBVIOUS
<1>1. Shaped
  BY NothingSettled DEF Init, Shaped, Phases, NothingAsked, Fields
<1>2. \A s \in Slots : Settled(s)
  BY NothingSettled DEF Init
<1>3. \A s \in Slots : session.phase \notin PassedBy[s]
  BY SlotsAssumption DEF Init, PassedBy
<1>4. CheckedIsUsed
  BY DEF Init, CheckedIsUsed
<1> QED BY <1>1, <1>2, <1>3, <1>4 DEF IInv

LEMMA SettledStep == IInv /\ [Next]_vars => IInv'
<1> SUFFICES ASSUME IInv, [Next]_vars PROVE IInv'
  OBVIOUS
<1>. USE DEF IInv
<1>0. /\ DOMAIN session = {"phase", "asked", "config", "route", "data"}
      /\ DOMAIN checked = Slots
      /\ session.phase \in Phases
      /\ session.phase = "idle" => session.route = "unchecked"
      /\ session.route # "start" => session.config = NothingAsked
      /\ session.phase \in {"llm", "asr", "tts", "ready"} => session.route \in {"start", "direct"}
      /\ session.phase = "stored" => session.route = "start"
  BY DEF Shaped
<1>1. ASSUME NEW body \in Bodies, Start(body) PROVE IInv'
  <2>1. /\ session' = [phase |-> "llm", asked |-> body, config |-> Sanitize(body, env, Live),
                       route |-> "start", data |-> NothingAsked]
        /\ ~ moved' /\ UNCHANGED <<env, checked>>
    BY <1>1 DEF Start
  <2>2. Live' = Live
    BY <1>1, LiveKept DEF Start
  <2>3. \A s \in Slots : /\ DOMAIN session'.config[s] = Fields \cup {"id"}
                         /\ session'.config[s].id = body[s].id /\ Settled(s)'
    BY <2>1, <2>2, BodiesAssumption, SanitizedSettles
  <2>4. Shaped'
    BY <1>0, <2>1, <2>3 DEF Shaped, Phases
  <2>5. \A s \in Slots : session'.phase \notin PassedBy[s]
    BY <2>1, SlotsAssumption DEF PassedBy
  <2> QED BY <2>1, <2>3, <2>4, <2>5 DEF CheckedIsUsed
<1>2. CASE StartDirect
  <2>1. /\ session.phase = "idle" /\ session' = [session EXCEPT !.phase = "llm", !.route = "direct"]
        /\ UNCHANGED <<env, checked, cache, up>>
    BY <1>2 DEF StartDirect
  <2>2. /\ session'.phase = "llm" /\ session'.config = NothingAsked /\ session'.asked = session.asked
        /\ DOMAIN session' = DOMAIN session
    BY <1>0, <2>1
  <2>3. Shaped'
    BY <1>0, <2>1, <2>2 DEF Shaped, Phases
  <2>4. \A s \in Slots : Settled(s)'
    <3>1. \A s \in Slots : Settled(s)
      BY <1>0, <2>1, NothingSettled
    <3>2. Live' = Live /\ session'.config = session.config
      BY <1>0, <2>1, <2>2 DEF Live
    <3> QED BY <2>1, <3>1, <3>2 DEF Settled, Found
  <2>5. \A s \in Slots : session'.phase \notin PassedBy[s]
    BY <2>2, SlotsAssumption DEF PassedBy
  <2> QED BY <2>2, <2>3, <2>4, <2>5 DEF CheckedIsUsed
<1>3. ASSUME NEW s \in Slots, Check(s) PROVE IInv'
  <2>1. /\ session.phase = s /\ UNCHANGED <<env, moved>>
        /\ checked' = [checked EXCEPT ![s] = ServerOf(s, session.config)]
        /\ session'.phase \in {After[s], "refused"}
        /\ session'.config = session.config /\ session'.asked = session.asked
        /\ session'.route = session.route /\ DOMAIN session' = DOMAIN session
    BY <1>0, <1>3 DEF Check, Become
  <2>2. Live' = Live
    BY <1>3, LiveKept DEF Check
  <2>3. Shaped'
    BY <1>0, <2>1, SlotsAssumption DEF Shaped, Phases, After
  <2>4. \A t \in Slots : Settled(t)' = Settled(t)
    BY <2>1, <2>2 DEF Settled, Found
  <2>5. \A t \in Slots : session'.phase \in PassedBy[t] => t = s \/ session.phase \in PassedBy[t]
    BY <2>1, SlotsAssumption DEF PassedBy, After
  <2>6. ASSUME NEW t \in Slots,
               (session.phase \in PassedBy[t] /\ session.route # "unchecked" /\ (Pinned(t) \/ ~moved))'
        PROVE  (checked[t] = ServerOf(t, session.config))'
    <3>1. ServerOf(t, session.config)' = ServerOf(t, session.config)
      BY <2>1, <2>2, SameServer
    <3>2. Pinned(t)' = Pinned(t)
      BY <2>1 DEF Pinned
    <3>3. CASE t = s
      BY <1>0, <2>1, <3>1, <3>3
    <3>4. CASE t # s
      BY <1>0, <2>1, <2>5, <2>6, <3>1, <3>2, <3>4
    <3> QED BY <3>3, <3>4
  <2>7. CheckedIsUsed'
    BY <2>1, SlotsAssumption DEF CheckedIsUsed, After
  <2> QED BY <2>1, <2>3, <2>4, <2>6, <2>7 DEF Stable
<1>4. CASE Store
  <2>1. session.phase = "ready" /\ UNCHANGED <<env, checked, moved>>
    BY <1>4 DEF Store
  <2>2. Live' = Live
    BY <1>4, LiveKept DEF Store, Live
  <2>3. CASE session.route = "direct"
    <3>1. /\ session'.phase = "offered" /\ session'.config = session.config /\ session'.asked = session.asked
          /\ session'.route = session.route /\ DOMAIN session' = DOMAIN session
      BY <1>0, <1>4, <2>3 DEF Store, Become
    <3>2. Shaped'
      BY <1>0, <2>1, <3>1 DEF Shaped, Phases
    <3>3. \A s \in Slots : Settled(s)' = Settled(s) /\ Pinned(s)' = Pinned(s)
      BY <2>1, <2>2, <3>1 DEF Settled, Found, Pinned
    <3>4. \A s \in Slots : ServerOf(s, session.config)' = ServerOf(s, session.config)
      BY <2>1, <2>2, <3>1, SameServer
    <3>5. \A s \in Slots : session.phase \in PassedBy[s]
      BY <2>1, SlotsAssumption DEF PassedBy
    <3> QED BY <2>1, <3>1, <3>2, <3>3, <3>4, <3>5 DEF Stable, CheckedIsUsed
  <2>4. CASE session.route # "direct"
    <3>1. /\ session'.phase = "stored" /\ session'.config = Resanitized /\ session'.asked = session.asked
          /\ session'.route = session.route /\ DOMAIN session' = DOMAIN session
      BY <1>0, <1>4, <2>4 DEF Store, Become
    <3>2. \A s \in Slots : session.phase \in PassedBy[s]
      BY <2>1, SlotsAssumption DEF PassedBy
    <3>3. session.route = "start"
      BY <1>0, <2>1, <2>4
    <3> QED BY <2>1, <2>2, <3>1, <3>2, <3>3, SanitizedAgain DEF Phases
  <2> QED BY <2>3, <2>4
<1>5. CASE Offer
  <2>1. session.phase = "stored" /\ UNCHANGED <<env, checked, moved>>
    BY <1>5 DEF Offer
  <2>2. Live' = Live
    BY <1>5, LiveKept DEF Offer
  <2>3. /\ session'.phase = "offered" /\ session'.config = Resanitized /\ session'.asked = session.asked
        /\ session'.route = session.route /\ DOMAIN session' = DOMAIN session
    BY <1>0, <1>5 DEF Offer
  <2>4. \A s \in Slots : session.phase \in PassedBy[s]
    BY <2>1, SlotsAssumption DEF PassedBy
  <2> QED BY <1>0, <2>1, <2>2, <2>3, <2>4, SanitizedAgain DEF Phases
<1>6. CASE RunBot
  <2>1. /\ session.phase = "offered" /\ UNCHANGED <<env, checked, moved>>
        /\ used' = [s \in Slots |-> BotServer(s)]
        /\ session'.data = session.data
        /\ session'.phase = "running" /\ session'.config = session.config /\ session'.asked = session.asked
        /\ session'.route = session.route /\ DOMAIN session' = DOMAIN session
    BY <1>0, <1>6 DEF RunBot, Become
  <2>2. Live' = Live
    BY <1>6, LiveKept DEF RunBot
  <2>3. Shaped'
    BY <1>0, <2>1 DEF Shaped, Phases
  <2>4. \A s \in Slots : Settled(s)' = Settled(s) /\ Pinned(s)' = Pinned(s) /\ Supplied(s)' = Supplied(s)
    BY <2>1, <2>2 DEF Settled, Found, Pinned, Supplied
  <2>5. \A s \in Slots : ServerOf(s, session.config)' = ServerOf(s, session.config)
    BY <2>1, <2>2, SameServer
  <2>6. \A s \in Slots : session.phase \in PassedBy[s]
    BY <2>1, SlotsAssumption DEF PassedBy
  <2>7. CheckedIsUsed'
    <3> SUFFICES ASSUME NEW s \in Slots, session.route # "unchecked", Pinned(s) \/ (~moved /\ ~Supplied(s))
                 PROVE  BotServer(s) = checked[s]
      BY <2>1, <2>4 DEF CheckedIsUsed
    <3> QED BY <2>6, BotFollowsConfig
  <2> QED BY <2>1, <2>3, <2>4, <2>5, <2>6, <2>7 DEF Stable
<1>7. CASE ConnectUnchecked
  <2>1. /\ session.phase = "idle" /\ UNCHANGED <<env, up, cache, checked, moved>>
        /\ session'.phase = "offered" /\ session'.config = session.config /\ session'.asked = session.asked
        /\ session'.route = session.route /\ DOMAIN session' = DOMAIN session
    BY <1>0, <1>7 DEF ConnectUnchecked
  <2>2. Live' = Live
    BY <2>1 DEF Live
  <2>3. Shaped'
    BY <1>0, <2>1 DEF Shaped, Phases
  <2>4. \A s \in Slots : Settled(s)' = Settled(s)
    BY <2>1, <2>2 DEF Settled, Found
  <2>5. session'.route = "unchecked"
    BY <1>0, <2>1
  <2> QED BY <2>1, <2>3, <2>4, <2>5 DEF Stable, CheckedIsUsed
<1>8. CASE PromptFails
  <2>1. /\ UNCHANGED <<env, up, cache, checked, moved>>
        /\ session'.phase = "refused" /\ session'.config = session.config /\ session'.asked = session.asked
        /\ session'.route = session.route /\ DOMAIN session' = DOMAIN session
    BY <1>0, <1>8 DEF PromptFails, Become
  <2>2. Live' = Live
    BY <2>1 DEF Live
  <2>3. Shaped'
    BY <1>0, <2>1 DEF Shaped, Phases
  <2>4. \A s \in Slots : Settled(s)' = Settled(s)
    BY <2>1, <2>2 DEF Settled, Found
  <2>5. \A s \in Slots : session'.phase \notin PassedBy[s]
    BY <2>1, SlotsAssumption DEF PassedBy
  <2> QED BY <2>1, <2>3, <2>4, <2>5 DEF Stable, CheckedIsUsed
<1>9. ASSUME NEW a \in Addresses, Toggle(a) \/ Expire(a) PROVE IInv'
  BY <1>9, ObservedOnly DEF Toggle, Expire
<1>10. CASE ListServices
  <2>1. ~ Over /\ UNCHANGED <<env, session, checked, used, moved>>
    BY <1>10 DEF ListServices
  <2>2. Live' = Live
    BY <1>10, LiveKept DEF ListServices
  <2>3. \A s \in Slots : Settled(s)' = Settled(s) /\ ServerOf(s, session.config)' = ServerOf(s, session.config)
    BY <2>1, <2>2, SameServer DEF Settled, Found
  <2> QED BY <2>1, <2>3 DEF Shaped, Stable, Pinned, Supplied, CheckedIsUsed
<1>11. CASE UNCHANGED vars
  <2>1. Live' = Live
    BY <1>11 DEF vars, Live
  <2>2. \A s \in Slots : Settled(s)' = Settled(s) /\ ServerOf(s, session.config)' = ServerOf(s, session.config)
    BY <1>11, <2>1, SameServer DEF Settled, Found, vars
  <2> QED BY <1>11, <2>2 DEF vars, Shaped, Stable, Pinned, Supplied, CheckedIsUsed
<1> QED BY <1>1, <1>2, <1>3, <1>4, <1>5, <1>6, <1>7, <1>8, <1>9, <1>10, <1>11 DEF Next, SessionStep

(* The bot of a session that was checked uses what was checked, wherever   *)
(* the data of the offer does not supply the address.                      *)
THEOREM CheckedServices == Spec => []CheckedIsUsed
<1>1. IInv => CheckedIsUsed
  BY DEF IInv
<1> QED BY <1>1, InitSettled, SettledStep, PTL DEF Spec

-----------------------------------------------------------------------------
(* PromptShownIsUsed *)

(* One prompts.yaml, read by the list and by the bot. *)
LEMMA ShownPromptSpoken ==
  ASSUME NEW catalog \in PromptCatalogs, NEW registered, NEW key, NEW selector,
         registered \in PromptKeys(catalog) \cup {NoKey},
         ~ Spoken(catalog, registered, key, selector).chosen,
         Spoken(catalog, registered, key, selector).spoken # NoKey
  PROVE  Spoken(catalog, registered, key, selector).listed
           \subseteq {Spoken(catalog, registered, key, selector).spoken}
<1>1. key = NoKey /\ (registered = NoKey => selector = NoKey)
  BY DEF Spoken
<1>2. NoKey \notin PromptKeys(catalog)
  BY KeyAssumption
<1>3. Spoken(catalog, registered, key, selector).spoken = ResolvedPrompt(catalog, registered, selector)
  BY <1>1 DEF Spoken, SessionPrompt
<1>4. CASE registered = NoKey
  <2>1. ResolvedPrompt(catalog, registered, selector) \in {DefaultPromptKey(catalog), NoKey}
    BY <1>1, <1>4 DEF ResolvedPrompt
  <2> QED BY <1>2, <1>3, <1>4, <2>1 DEF Spoken, ListedDefault
<1>5. CASE registered # NoKey
  <2>1. ResolvedPrompt(catalog, registered, selector) \in {registered, NoKey}
    BY <1>5 DEF ResolvedPrompt
  <2> QED BY <1>3, <1>5, <2>1 DEF Spoken, ListedDefault
<1> QED BY <1>4, <1>5

(* Whatever prompts.yaml, the registry and PROMPT_SELECTOR say, the prompt *)
(* listed as default is the one that runs when nobody chose another.       *)
THEOREM ShownPromptUsed == Spec => []PromptShownIsUsed
<1>1. Init => PromptShownIsUsed
  BY DEF Init, PromptShownIsUsed
<1>2. IInv /\ PromptShownIsUsed /\ [Next]_vars => PromptShownIsUsed'
  <2> SUFFICES ASSUME IInv, PromptShownIsUsed, [Next]_vars PROVE PromptShownIsUsed'
    OBVIOUS
  <2>1. CASE RunBot
    <3>1. PICK catalog \in PromptCatalogs :
            \E registered, key, selector \in PromptKeys(catalog) \cup {NoKey} :
              prompt' = Spoken(catalog, registered, key, selector) /\ prompt'.spoken # NoKey
      BY <2>1 DEF RunBot, PromptOutcomes
    <3> QED BY <3>1, ShownPromptSpoken DEF PromptShownIsUsed
  <2>2. CASE PromptFails
    <3>1. session'.phase = "refused"
      BY <2>2 DEF PromptFails, Become, IInv, Shaped
    <3> QED BY <3>1 DEF PromptShownIsUsed
  <2>3. CASE ~ RunBot /\ ~ PromptFails
    <3>1. UNCHANGED prompt
      BY <2>3 DEF Next, SessionStep, Start, StartDirect, Check, Store, Offer, ConnectUnchecked,
                     Toggle, Expire, ListServices, vars
    <3>2. session'.phase = "running" => session.phase = "running"
      <4>1. DOMAIN session = {"phase", "asked", "config", "route", "data"}
        BY DEF IInv, Shaped
      <4>2. ASSUME NEW s \in Slots, Check(s) PROVE session'.phase # "running"
        BY <4>1, <4>2, SlotsAssumption DEF Check, Become, After
      <4>3. ASSUME StartDirect \/ Store \/ Offer \/ ConnectUnchecked PROVE session'.phase # "running"
        BY <4>1, <4>3 DEF StartDirect, Store, Offer, ConnectUnchecked, Become
      <4> QED
        BY <2>3, <4>2, <4>3 DEF Next, SessionStep, Start, Toggle, Expire, ListServices, vars
    <3> QED BY <3>1, <3>2 DEF PromptShownIsUsed
  <2> QED BY <2>1, <2>2, <2>3
<1> QED BY <1>1, <1>2, InitSettled, SettledStep, PTL DEF Spec

-----------------------------------------------------------------------------
(* Folds, by induction over the positions of a sequence: every loop over a *)
(* catalogue is one.                                                       *)

(* The natural numbers are well-founded. *)
LEMMA LeastElement ==
  ASSUME NEW S, S \subseteq Nat, S # {}
  PROVE  \E least \in S : \A n \in S : least <= n
<1> DEFINE Less == OpToRel(<, Nat)
<1>1. \A m \in Nat : \A n \in Nat : n < m => <<n, m>> \in Less
  BY DEF OpToRel
<1>2. IsWellFoundedOn(Less, Nat)
  BY NatLessThanWellFounded
<1>. HIDE DEF Less
<1>3. \E least \in S : \A n \in S : ~ (<<n, least>> \in Less)
  BY <1>2, WFMin
<1>4. PICK least \in S : \A n \in S : ~ (<<n, least>> \in Less)
  BY <1>3
<1>5. \A n \in S : n \in Nat /\ least \in Nat /\ ~ (n < least)
  BY <1>1, <1>4
<1>6. \A n \in S : least <= n
  BY <1>5
<1> QED BY <1>6

(* Induction over the numbers up to a bound, for a set of them.            *)
LEMMA AllUpTo ==
  ASSUME NEW n \in Nat, NEW S, 0 \in S, \A k \in 0..n : k \in S /\ k < n => k + 1 \in S
  PROVE  n \in S
<1> SUFFICES ASSUME n \notin S PROVE FALSE
  OBVIOUS
<1> DEFINE Rest == {k \in 0..n : k \notin S}
<1>1. Rest \subseteq Nat /\ Rest # {}
  <2>1. n \in Rest
    OBVIOUS
  <2> QED BY <2>1
<1>2. PICK least \in Rest : \A k \in Rest : least <= k
  BY <1>1, LeastElement
<1>3. least \in 1..n /\ least - 1 \in 0..n /\ least - 1 < n /\ ~ (least <= least - 1)
  BY <1>2
<1>4. least - 1 \in S
  BY <1>2, <1>3
<1> QED BY <1>2, <1>3, <1>4

(* The greatest of a set of positions, and the positions before it. *)
LEMMA MaxLast ==
  ASSUME NEW n \in Nat, NEW T \in SUBSET (1..n), T # {}
  PROVE  /\ Max(T) \in T /\ \A u \in T : Max(T) >= u
         /\ \A k \in Nat : T \subseteq 1..(k + 1) => T \ {Max(T)} \subseteq 1..k
<1> DEFINE Down == {n - t : t \in T}
<1>1. Down \subseteq Nat /\ Down # {}
  <2>1. PICK t \in T : TRUE
    OBVIOUS
  <2>2. n - t \in Down
    OBVIOUS
  <2> QED BY <2>2
<1>2. PICK least \in Down : \A d \in Down : least <= d
  BY <1>1, LeastElement
<1>3. PICK t \in T : least = n - t
  BY <1>2
<1>4. \A u \in T : n - u \in Down
  OBVIOUS
<1>5. \A u \in T : t >= u
  <2> HIDE DEF Down
  <2> QED BY <1>2, <1>3, <1>4
<1>6. Max(T) \in T /\ \A u \in T : Max(T) >= u
  BY <1>3, <1>5 DEF Max
<1> QED
  <2> SUFFICES ASSUME NEW k \in Nat, T \subseteq 1..(k + 1), NEW u \in T, u # Max(T)
               PROVE  u \in 1..k
    BY <1>6
  <2>1. u \in 1..(k + 1) /\ Max(T) \in 1..(k + 1) /\ Max(T) >= u
    BY <1>6
  <2>2. \A a, b \in 1..(k + 1) : b >= a /\ a # b => a \in 1..k
    OBVIOUS
  <2> QED BY <2>1, <2>2

(* There are no positions up to 0. *)
LEMMA EmptyRange == \A T \in SUBSET (1..0) : T = {}
<1>1. 1..0 = {}
  OBVIOUS
<1> QED BY <1>1

(* A set of positions without its last. *)
LEMMA OneLess ==
  ASSUME NEW n \in Nat, NEW k \in 0..n, k < n, NEW T \in SUBSET (1..(k + 1)), T # {}
  PROVE  T \in SUBSET (1..n) /\ Max(T) \in 1..n /\ T \ {Max(T)} \in SUBSET (1..k)
<1>1. \A t \in 1..(k + 1) : t \in 1..n
  OBVIOUS
<1>2. T \in SUBSET (1..n) /\ k \in Nat
  BY <1>1
<1> QED BY <1>2, MaxLast

(* What a fold goes through: the recursive function over sets of positions *)
(* by which FoldLeft is defined.                                           *)
Folds(g, n, base, F) ==
  \A T \in SUBSET (1..n) : g[T] = IF T = {} THEN base ELSE F[Max(T)][g[T \ {Max(T)}]]

LEMMA FoldExists ==
  ASSUME NEW n \in Nat, NEW X, NEW base \in X, NEW F, \A i \in 1..n : \A x \in X : F[i][x] \in X
  PROVE  \E g \in [SUBSET (1..n) -> X] : Folds(g, n, base, F)
<1> DEFINE Ks == {k \in 0..n : \E g \in [SUBSET (1..k) -> X] : Folds(g, k, base, F)}
<1>1. 0 \in Ks
  <2> DEFINE g == [T \in SUBSET (1..0) |-> base]
  <2>1. g \in [SUBSET (1..0) -> X] /\ Folds(g, 0, base, F)
    BY EmptyRange DEF Folds
  <2> HIDE DEF g
  <2>2. \E f \in [SUBSET (1..0) -> X] : Folds(f, 0, base, F)
    BY <2>1
  <2>3. 0 \in 0..n
    OBVIOUS
  <2> QED BY <2>2, <2>3
<1>2. ASSUME NEW k \in 0..n, k \in Ks, k < n PROVE k + 1 \in Ks
  <2>1. PICK g \in [SUBSET (1..k) -> X] : Folds(g, k, base, F)
    BY <1>2
  <2> DEFINE h == [T \in SUBSET (1..(k + 1)) |-> IF T = {} THEN base ELSE F[Max(T)][g[T \ {Max(T)}]]]
  <2>2. \A T \in SUBSET (1..(k + 1)) : T # {} => Max(T) \in 1..n /\ T \ {Max(T)} \in SUBSET (1..k)
    BY <1>2, OneLess
  <2>3. ASSUME NEW T \in SUBSET (1..(k + 1)) PROVE h[T] \in X
    <3>1. CASE T = {}
      BY <3>1
    <3>2. CASE T # {}
      <4>1. Max(T) \in 1..n /\ g[T \ {Max(T)}] \in X
        BY <2>2, <3>2
      <4> QED BY <3>2, <4>1
    <3> QED BY <3>1, <3>2
  <2>4. ASSUME NEW T \in SUBSET (1..k) PROVE T \in SUBSET (1..(k + 1)) /\ h[T] = g[T]
    <3>1. 1..k \subseteq 1..(k + 1)
      OBVIOUS
    <3> QED BY <2>1, <3>1 DEF Folds
  <2>5. Folds(h, k + 1, base, F)
    <3> SUFFICES ASSUME NEW T \in SUBSET (1..(k + 1)), T # {}
                 PROVE  h[T] = F[Max(T)][h[T \ {Max(T)}]]
      BY DEF Folds
    <3>1. h[T] = F[Max(T)][g[T \ {Max(T)}]]
      OBVIOUS
    <3>2. h[T \ {Max(T)}] = g[T \ {Max(T)}]
      BY <2>2, <2>4
    <3> QED BY <3>1, <3>2
  <2>6. h \in [SUBSET (1..(k + 1)) -> X]
    BY <2>3
  <2>7. k + 1 \in 0..n
    BY <1>2
  <2> HIDE DEF h
  <2> QED BY <2>5, <2>6, <2>7
<1>3. n \in Ks
  <2> HIDE DEF Ks
  <2> QED BY <1>1, <1>2, AllUpTo
<1> QED BY <1>3

(* What every step of a fold keeps holds of its result. *)
LEMMA FoldStays ==
  ASSUME NEW n \in Nat, NEW X, NEW g, g[{}] \in X,
         \A T \in SUBSET (1..n) : T # {} /\ g[T \ {Max(T)}] \in X => g[T] \in X
  PROVE  g[1..n] \in X
<1> DEFINE Ks == {k \in 0..n : \A T \in SUBSET (1..k) : g[T] \in X}
<1>1. 0 \in Ks
  <2>1. \A T \in SUBSET (1..0) : g[T] \in X
    BY EmptyRange
  <2>2. 0 \in 0..n
    OBVIOUS
  <2> QED BY <2>1, <2>2
<1>2. ASSUME NEW k \in 0..n, k \in Ks, k < n PROVE k + 1 \in Ks
  <2>1. ASSUME NEW T \in SUBSET (1..(k + 1)) PROVE g[T] \in X
    <3>1. CASE T = {}
      BY <3>1
    <3>2. CASE T # {}
      <4>1. T \in SUBSET (1..n) /\ T \ {Max(T)} \in SUBSET (1..k)
        BY <1>2, <3>2, OneLess
      <4>2. g[T \ {Max(T)}] \in X
        BY <1>2, <4>1
      <4> QED BY <3>2, <4>1, <4>2
    <3> QED BY <3>1, <3>2
  <2> QED BY <1>2, <2>1
<1>3. n \in Ks
  <2> HIDE DEF Ks
  <2> QED BY <1>1, <1>2, AllUpTo
<1> QED BY <1>3

-----------------------------------------------------------------------------
(* Ordered mappings *)

(* The first of some positions is one of them. *)
LEMMA MinIn ==
  ASSUME NEW n \in Nat, NEW I \in SUBSET (1..n)
  PROVE  IF I # {} THEN Min(I) \in I ELSE TRUE
<1> SUFFICES ASSUME I # {} PROVE Min(I) \in I
  OBVIOUS
<1>1. I \subseteq Nat
  OBVIOUS
<1>2. PICK least \in I : \A i \in I : least <= i
  BY <1>1, LeastElement
<1> QED BY <1>2 DEF Min

(* The position of a key, and what is there. *)
LEMMA PositionFound ==
  ASSUME NEW A, NEW B, NEW section \in Seq(A \X B), NEW k
  PROVE  /\ Position(section, k) \in 0..Len(section)
         /\ Has(section, k) => At(section, k) \in B
         /\ \A i \in 1..Len(section) : section[i][1] = k => Has(section, k)
<1> DEFINE I == {i \in 1..Len(section) : section[i][1] = k}
<1>1. Len(section) \in Nat /\ \A i \in 1..Len(section) : section[i] \in A \X B
  OBVIOUS
<1>2. Position(section, k) = IF I # {} THEN Min(I) ELSE 0
  BY DEF Position, SelectInSeq
<1>3. I # {} => Position(section, k) \in I
  <2>1. I \in SUBSET (1..Len(section))
    OBVIOUS
  <2> HIDE DEF I
  <2> QED BY <1>1, <1>2, <2>1, MinIn
<1>4. Position(section, k) \in 0..Len(section)
  BY <1>1, <1>2, <1>3
<1>5. \A i \in 1..Len(section) : section[i][1] = k => Has(section, k)
  BY <1>1, <1>3 DEF Has
<1>6. Has(section, k) => At(section, k) \in B
  BY <1>1, <1>4 DEF Has, At
<1> QED BY <1>4, <1>5, <1>6

(* What is put into a section is all that is new in it. *)
LEMMA PutKeeps ==
  ASSUME NEW A, NEW B, NEW section \in Seq(A \X B), NEW k \in A, NEW e \in B
  PROVE  /\ Put(section, k, e) \in Seq(A \X B)
         /\ SetDefault(section, k, e) \in Seq(A \X B)
<1>1. Append(section, <<k, e>>) \in Seq(A \X B)
  OBVIOUS
<1>2. ASSUME NEW i \in 1..Len(section) PROVE ReplaceAt(section, i, <<k, e>>) \in Seq(A \X B)
  <2>1. <<k, e>> \in A \X B
    OBVIOUS
  <2> QED BY <2>1, ExceptSeq DEF ReplaceAt
<1>3. Position(section, k) \in 0..Len(section)
  BY PositionFound
<1>4. Has(section, k) => Position(section, k) \in 1..Len(section)
  BY <1>3 DEF Has
<1> QED BY <1>1, <1>2, <1>4 DEF Put, SetDefault

-----------------------------------------------------------------------------
(* The local catalogue, which without a platform takes five loops *)

(* A key may get the name of a platform appended. *)
AllKeys(s) == OwnKeys(s) \cup {Suffixed(k, name) : k \in OwnKeys(s), name \in OwnNames(s)}
Sections(s) == Seq(AllKeys(s) \X OwnEntries(s))

(* The sections of the platforms, one by one. *)
LEMMA LocalTyped ==
  ASSUME NEW s \in Slots
  PROVE  /\ Len(Local[s]) \in Nat /\ DOMAIN Local[s] = 1..Len(Local[s])
         /\ \A i \in 1..Len(Local[s]) : /\ Local[s][i][1] \in OwnNames(s)
                                        /\ Local[s][i][2] \in Seq(OwnKeys(s) \X OwnEntries(s))
<1>1. Local[s] \in Seq(ToSet(Local[s]))
  BY SectionsAssumption DEF IsSection
<1>2. Len(Local[s]) \in Nat /\ DOMAIN Local[s] = 1..Len(Local[s])
  BY <1>1
<1>3. ASSUME NEW i \in 1..Len(Local[s])
      PROVE  Local[s][i][1] \in OwnNames(s) /\ Local[s][i][2] \in Seq(OwnKeys(s) \X OwnEntries(s))
  <2> DEFINE section == Local[s][i][2]
  <2>1. Local[s][i] \in ToSet(Local[s])
    BY <1>2 DEF ToSet
  <2>2. section \in Seq(ToSet(section)) /\ \A item \in ToSet(section) : item = <<item[1], item[2]>>
    BY <2>1, SectionsAssumption DEF IsSection
  <2>3. ToSet(section) \subseteq OwnKeys(s) \X OwnEntries(s)
    <3>1. ASSUME NEW item \in ToSet(section) PROVE item[1] \in OwnKeys(s) /\ item[2] \in OwnEntries(s)
      BY <2>1 DEF OwnKeys, OwnEntries, Entries
    <3> HIDE DEF section
    <3> QED BY <2>2, <3>1
  <2> HIDE DEF section
  <2>4. section \in Seq(OwnKeys(s) \X OwnEntries(s))
    BY <2>2, <2>3, SeqMonotonic
  <2> QED BY <2>1, <2>4 DEF OwnNames, section
<1> QED BY <1>2, <1>3

(* What a platform has for a key. *)
LEMMA KeyFound ==
  ASSUME NEW s \in Slots, NEW i \in 1..Len(Local[s]), NEW k
  PROVE  /\ Has(Local[s][i][2], k) => At(Local[s][i][2], k) \in OwnEntries(s)
         /\ (\E item \in ToSet(Local[s][i][2]) : item[1] = k) => Has(Local[s][i][2], k)
<1> DEFINE section == Local[s][i][2]
<1>1. section \in Seq(OwnKeys(s) \X OwnEntries(s))
  BY LocalTyped
<1> HIDE DEF section
<1>2. \A item \in ToSet(section) : \E j \in 1..Len(section) : item = section[j]
  BY <1>1 DEF ToSet
<1>3. Has(section, k) => At(section, k) \in OwnEntries(s)
  BY <1>1, PositionFound
<1>4. \A j \in 1..Len(section) : section[j][1] = k => Has(section, k)
  BY <1>1, PositionFound
<1> QED BY <1>2, <1>3, <1>4 DEF section

(* The entries of all platforms for one key. *)
LEMMA VariantsTyped ==
  ASSUME NEW s \in Slots, NEW k
  PROVE  /\ Variants(s, k) \in Seq(OwnNames(s) \X OwnEntries(s))
         /\ k \in OwnKeys(s) => Variants(s, k) # <<>>
<1> DEFINE n == Len(Local[s])
           X == Seq(OwnNames(s) \X OwnEntries(s))
           Op(found, platform) ==
             IF Has(platform[2], k) THEN Append(found, <<platform[1], At(platform[2], k)>>) ELSE found
           Run(g) == g = [T \in SUBSET (1..n) |->
                            IF T = {} THEN <<>> ELSE Op(g[T \ {Max(T)}], Local[s][Max(T)])]
           run == CHOOSE g : Run(g)
<1>1. n \in Nat /\ DOMAIN Local[s] = 1..n /\ <<>> \in X
  BY LocalTyped
<1>2. ASSUME NEW i \in 1..n, NEW x \in X PROVE Op(x, Local[s][i]) \in X
  <2>1. Local[s][i][1] \in OwnNames(s) /\ Local[s][i][2] \in Seq(OwnKeys(s) \X OwnEntries(s))
    BY LocalTyped
  <2>2. Has(Local[s][i][2], k) => At(Local[s][i][2], k) \in OwnEntries(s)
    BY KeyFound
  <2>3. Has(Local[s][i][2], k) => Append(x, <<Local[s][i][1], At(Local[s][i][2], k)>>) \in X
    BY <2>1, <2>2
  <2> QED BY <2>3
<1>3. Variants(s, k) = run[1..n]
  BY <1>1 DEF Variants, FoldLeft, MapThenFoldSet
<1>4. k \in OwnKeys(s) => \E i \in 1..n : Has(Local[s][i][2], k)
  <2> SUFFICES ASSUME k \in OwnKeys(s) PROVE \E i \in 1..n : Has(Local[s][i][2], k)
    OBVIOUS
  <2>1. PICK i \in 1..n : k \in {item[1] : item \in ToSet(Local[s][i][2])}
    BY <1>1 DEF OwnKeys, ToSet
  <2>2. Has(Local[s][i][2], k)
    BY <2>1, KeyFound
  <2> QED BY <2>2
<1>5. \A i \in 1..n, x \in X : Op(x, Local[s][i]) # <<>> \/ (x = <<>> /\ ~ Has(Local[s][i][2], k))
  <2> SUFFICES ASSUME NEW i \in 1..n, NEW x \in X, Op(x, Local[s][i]) = <<>>
               PROVE  x = <<>> /\ ~ Has(Local[s][i][2], k)
    OBVIOUS
  <2>1. Has(Local[s][i][2], k) => Append(x, <<Local[s][i][1], At(Local[s][i][2], k)>>) # <<>>
    <3> SUFFICES ASSUME Has(Local[s][i][2], k) PROVE Append(x, <<Local[s][i][1], At(Local[s][i][2], k)>>) # <<>>
      OBVIOUS
    <3> DEFINE v == <<Local[s][i][1], At(Local[s][i][2], k)>>
    <3>1. At(Local[s][i][2], k) \in OwnEntries(s) /\ Local[s][i][1] \in OwnNames(s)
      BY LocalTyped, KeyFound
    <3>2. v \in OwnNames(s) \X OwnEntries(s) /\ x \in Seq(OwnNames(s) \X OwnEntries(s))
      BY <3>1
    <3> HIDE DEF v
    <3>3. Append(x, v) # <<>>
      BY <3>2, AppendProperties
    <3> QED BY <3>3 DEF v
  <2> QED BY <2>1
<1> HIDE DEF n, X, Op
<1>6. \E g : Run(g)
  <2> DEFINE F == [i \in 1..n |-> [x \in X |-> Op(x, Local[s][i])]]
  <2>1. \A i \in 1..n : \A x \in X : F[i][x] = Op(x, Local[s][i]) /\ F[i][x] \in X
    BY <1>2
  <2> HIDE DEF F
  <2>2. PICK g \in [SUBSET (1..n) -> X] : Folds(g, n, <<>>, F)
    BY <1>1, <2>1, FoldExists
  <2>3. ASSUME NEW T \in SUBSET (1..n), T # {} PROVE g[T] = Op(g[T \ {Max(T)}], Local[s][Max(T)])
    <3>1. Max(T) \in 1..n /\ g[T \ {Max(T)}] \in X
      BY <1>1, <2>3, MaxLast
    <3> QED BY <2>1, <2>2, <2>3, <3>1 DEF Folds
  <2>4. Run(g)
    BY <2>2, <2>3 DEF Folds
  <2> QED BY <2>4
<1>7. Run(run)
  <2> HIDE DEF Run
  <2> QED BY <1>6
<1> HIDE DEF run
<1>8. ASSUME NEW T \in SUBSET (1..n), T # {}, run[T \ {Max(T)}] \in X PROVE run[T] \in X
  <2>1. Max(T) \in 1..n
    BY <1>1, <1>8, MaxLast
  <2>2. run[T] = Op(run[T \ {Max(T)}], Local[s][Max(T)])
    BY <1>7, <1>8
  <2> QED BY <1>2, <1>8, <2>1, <2>2
<1>9. run[{}] \in X
  BY <1>1, <1>7
<1>10. run[1..n] \in X
  BY <1>1, <1>8, <1>9, FoldStays
<1>11. k \in OwnKeys(s) => run[1..n] # <<>>
  <2> DEFINE Kept(T) == run[T] \in X /\ ((\E i \in T : Has(Local[s][i][2], k)) => run[T] # <<>>)
             kept == [T \in SUBSET (1..n) |-> Kept(T)]
  <2>1. Kept({})
    BY <1>9
  <2>2. ASSUME NEW T \in SUBSET (1..n), T # {}, Kept(T \ {Max(T)}) PROVE Kept(T)
    <3>1. Max(T) \in 1..n /\ run[T] = Op(run[T \ {Max(T)}], Local[s][Max(T)]) /\ run[T] \in X
      BY <1>1, <1>7, <1>8, <2>2, MaxLast
    <3>2. run[T] # <<>> \/ (run[T \ {Max(T)}] = <<>> /\ ~ Has(Local[s][Max(T)][2], k))
      BY <1>5, <2>2, <3>1
    <3> QED BY <2>2, <3>1, <3>2
  <2> HIDE DEF Kept
  <2>3. kept[{}] \in {TRUE}
    BY <2>1
  <2>4. ASSUME NEW T \in SUBSET (1..n), T # {}, kept[T \ {Max(T)}] \in {TRUE} PROVE kept[T] \in {TRUE}
    BY <2>2, <2>4
  <2> HIDE DEF kept
  <2>5. kept[1..n] \in {TRUE}
    <3> DEFINE Good == {TRUE}
    <3>1. kept[{}] \in Good /\ \A T \in SUBSET (1..n) : T # {} /\ kept[T \ {Max(T)}] \in Good => kept[T] \in Good
      BY <2>3, <2>4
    <3>2. n \in Nat
      BY <1>1
    <3> HIDE DEF Good
    <3>3. kept[1..n] \in Good
      BY <3>1, <3>2, FoldStays
    <3> QED BY <3>3 DEF Good
  <2>6. Kept(1..n)
    BY <2>5 DEF kept
  <2> QED BY <1>4, <2>6 DEF Kept
<1> QED BY <1>3, <1>10, <1>11 DEF X

(* The keys of one platform, after those of the platforms before it. *)
LEMMA NewKeysTyped ==
  ASSUME NEW K, NEW V, NEW keys \in Seq(K), NEW section \in Seq(K \X V)
  PROVE  NewKeys(keys, section) \in Seq(K)
<1> DEFINE n == Len(section)
           X == Seq(K)
           Op(found, item) == IF Contains(found, item[1]) THEN found ELSE Append(found, item[1])
           Run(g) == g = [T \in SUBSET (1..n) |->
                            IF T = {} THEN keys ELSE Op(g[T \ {Max(T)}], section[Max(T)])]
           run == CHOOSE g : Run(g)
<1>1. n \in Nat /\ DOMAIN section = 1..n /\ keys \in X
  OBVIOUS
<1>2. ASSUME NEW i \in 1..n, NEW x \in X PROVE Op(x, section[i]) \in X
  <2>1. section[i] \in K \X V
    OBVIOUS
  <2> QED BY <2>1
<1>3. NewKeys(keys, section) = run[1..n]
  BY <1>1 DEF NewKeys, FoldLeft, MapThenFoldSet
<1> HIDE DEF n, X, Op
<1>4. \E g : Run(g)
  <2> DEFINE F == [i \in 1..n |-> [x \in X |-> Op(x, section[i])]]
  <2>1. \A i \in 1..n : \A x \in X : F[i][x] = Op(x, section[i]) /\ F[i][x] \in X
    BY <1>2
  <2> HIDE DEF F
  <2>2. PICK g \in [SUBSET (1..n) -> X] : Folds(g, n, keys, F)
    BY <1>1, <2>1, FoldExists
  <2>3. ASSUME NEW T \in SUBSET (1..n), T # {} PROVE g[T] = Op(g[T \ {Max(T)}], section[Max(T)])
    <3>1. Max(T) \in 1..n /\ g[T \ {Max(T)}] \in X
      BY <1>1, <2>3, MaxLast
    <3> QED BY <2>1, <2>2, <2>3, <3>1 DEF Folds
  <2>4. Run(g)
    BY <2>2, <2>3 DEF Folds
  <2> QED BY <2>4
<1>5. Run(run)
  <2> HIDE DEF Run
  <2> QED BY <1>4
<1> HIDE DEF run
<1>6. ASSUME NEW T \in SUBSET (1..n), T # {}, run[T \ {Max(T)}] \in X PROVE run[T] \in X
  <2>1. Max(T) \in 1..n
    BY <1>1, <1>6, MaxLast
  <2>2. run[T] = Op(run[T \ {Max(T)}], section[Max(T)])
    BY <1>5, <1>6
  <2> QED BY <1>2, <1>6, <2>1, <2>2
<1>7. run[{}] \in X
  BY <1>1, <1>5
<1>8. run[1..n] \in X
  BY <1>1, <1>6, <1>7, FoldStays
<1> QED BY <1>3, <1>8 DEF X

(* The keys of all platforms. *)
LEMMA VariantKeysTyped ==
  ASSUME NEW s \in Slots
  PROVE  VariantKeys(s) \in Seq(OwnKeys(s))
<1> DEFINE n == Len(Local[s])
           X == Seq(OwnKeys(s))
           Op(keys, platform) == NewKeys(keys, platform[2])
           Run(g) == g = [T \in SUBSET (1..n) |->
                            IF T = {} THEN <<>> ELSE Op(g[T \ {Max(T)}], Local[s][Max(T)])]
           run == CHOOSE g : Run(g)
<1>1. n \in Nat /\ DOMAIN Local[s] = 1..n /\ <<>> \in X
  BY LocalTyped
<1>2. ASSUME NEW i \in 1..n, NEW x \in X PROVE Op(x, Local[s][i]) \in X
  <2>1. Local[s][i][2] \in Seq(OwnKeys(s) \X OwnEntries(s))
    BY LocalTyped
  <2> QED BY <2>1, NewKeysTyped
<1>3. VariantKeys(s) = run[1..n]
  BY <1>1 DEF VariantKeys, FoldLeft, MapThenFoldSet
<1> HIDE DEF n, X, Op
<1>4. \E g : Run(g)
  <2> DEFINE F == [i \in 1..n |-> [x \in X |-> Op(x, Local[s][i])]]
  <2>1. \A i \in 1..n : \A x \in X : F[i][x] = Op(x, Local[s][i]) /\ F[i][x] \in X
    BY <1>2
  <2> HIDE DEF F
  <2>2. PICK g \in [SUBSET (1..n) -> X] : Folds(g, n, <<>>, F)
    BY <1>1, <2>1, FoldExists
  <2>3. ASSUME NEW T \in SUBSET (1..n), T # {} PROVE g[T] = Op(g[T \ {Max(T)}], Local[s][Max(T)])
    <3>1. Max(T) \in 1..n /\ g[T \ {Max(T)}] \in X
      BY <1>1, <2>3, MaxLast
    <3> QED BY <2>1, <2>2, <2>3, <3>1 DEF Folds
  <2>4. Run(g)
    BY <2>2, <2>3 DEF Folds
  <2> QED BY <2>4
<1>5. Run(run)
  <2> HIDE DEF Run
  <2> QED BY <1>4
<1> HIDE DEF run
<1>6. ASSUME NEW T \in SUBSET (1..n), T # {}, run[T \ {Max(T)}] \in X PROVE run[T] \in X
  <2>1. Max(T) \in 1..n
    BY <1>1, <1>6, MaxLast
  <2>2. run[T] = Op(run[T \ {Max(T)}], Local[s][Max(T)])
    BY <1>5, <1>6
  <2> QED BY <1>2, <1>6, <2>1, <2>2
<1>7. run[{}] \in X
  BY <1>1, <1>5
<1>8. run[1..n] \in X
  BY <1>1, <1>6, <1>7, FoldStays
<1> QED BY <1>3, <1>8 DEF X

(* What putting in a variant keeps holds of all of them. *)
LEMMA EmittedStays ==
  ASSUME NEW target, NEW k, NEW loader, NEW n \in Nat, NEW variants, DOMAIN variants = 1..n, NEW active, NEW X,
         (IF active = 0 THEN target ELSE Put(target, k, variants[active][2])) \in X,
         \A i \in 1..n : \A section \in X : Put(section, Suffixed(k, variants[i][1]), variants[i][2]) \in X
  PROVE  Emitted(target, k, variants, active, loader) \in X
<1> DEFINE Seen(i) == \E j \in DOMAIN variants : (j < i \/ j = active) /\ variants[j][2] = variants[i][2]
           base == IF active = 0 THEN target ELSE Put(target, k, variants[active][2])
           Op(section, i) ==
             IF i = active \/ (loader = "utils" /\ Seen(i)) THEN section
             ELSE Put(section, Suffixed(k, variants[i][1]), variants[i][2])
           Run(g) == g = [T \in SUBSET (1..n) |->
                            IF T = {} THEN base ELSE Op(g[T \ {Max(T)}], [j \in DOMAIN variants |-> j][Max(T)])]
           run == CHOOSE g : Run(g)
<1>1. DOMAIN variants = 1..n /\ DOMAIN [j \in DOMAIN variants |-> j] = 1..n /\ base \in X
  OBVIOUS
<1>2. ASSUME NEW i \in 1..n, NEW x \in X PROVE Op(x, [j \in DOMAIN variants |-> j][i]) \in X
  <2>1. Put(x, Suffixed(k, variants[i][1]), variants[i][2]) \in X
    OBVIOUS
  <2>2. [j \in DOMAIN variants |-> j][i] = i
    BY <1>1
  <2> QED BY <2>1, <2>2
<1>3. Emitted(target, k, variants, active, loader) = run[1..n]
  BY <1>1 DEF Emitted, FoldLeft, MapThenFoldSet
<1> HIDE DEF Op, base
<1>4. \E g : Run(g)
  <2> DEFINE F == [i \in 1..n |-> [x \in X |-> Op(x, [j \in DOMAIN variants |-> j][i])]]
  <2>1. \A i \in 1..n : \A x \in X : F[i][x] = Op(x, [j \in DOMAIN variants |-> j][i]) /\ F[i][x] \in X
    BY <1>2
  <2> HIDE DEF F
  <2>2. PICK g \in [SUBSET (1..n) -> X] : Folds(g, n, base, F)
    BY <1>1, <2>1, FoldExists
  <2>3. ASSUME NEW T \in SUBSET (1..n), T # {} PROVE g[T] = Op(g[T \ {Max(T)}], [j \in DOMAIN variants |-> j][Max(T)])
    <3>1. Max(T) \in 1..n /\ g[T \ {Max(T)}] \in X
      BY <1>1, <2>3, MaxLast
    <3> QED BY <2>1, <2>2, <2>3, <3>1 DEF Folds
  <2>4. Run(g)
    BY <2>2, <2>3 DEF Folds
  <2> QED BY <2>4
<1>5. Run(run)
  <2> HIDE DEF Run
  <2> QED BY <1>4
<1> HIDE DEF run
<1>6. ASSUME NEW T \in SUBSET (1..n), T # {}, run[T \ {Max(T)}] \in X PROVE run[T] \in X
  <2>1. Max(T) \in 1..n
    BY <1>1, <1>6, MaxLast
  <2>2. run[T] = Op(run[T \ {Max(T)}], [j \in DOMAIN variants |-> j][Max(T)])
    BY <1>5, <1>6
  <2> QED BY <1>2, <1>6, <2>1, <2>2
<1>7. run[{}] \in X
  BY <1>1, <1>5
<1>8. run[1..n] \in X
  BY <1>1, <1>6, <1>7, FoldStays
<1> QED BY <1>3, <1>8

(* The variants of one key, the active one under the key itself. *)
LEMMA EmittedTyped ==
  ASSUME NEW s \in Slots, NEW target \in Sections(s), NEW k \in OwnKeys(s), NEW loader,
         NEW variants \in Seq(OwnNames(s) \X OwnEntries(s)), NEW active \in 0..Len(variants)
  PROVE  Emitted(target, k, variants, active, loader) \in Sections(s)
<1>1. k \in AllKeys(s) /\ Len(variants) \in Nat /\ DOMAIN variants = 1..Len(variants)
  BY DEF AllKeys
<1>2. \A i \in 1..Len(variants) : variants[i] \in OwnNames(s) \X OwnEntries(s)
  OBVIOUS
<1>3. active # 0 => Put(target, k, variants[active][2]) \in Sections(s)
  BY <1>1, <1>2, PutKeeps DEF Sections
<1>4. ASSUME NEW i \in 1..Len(variants), NEW section \in Sections(s)
      PROVE  Put(section, Suffixed(k, variants[i][1]), variants[i][2]) \in Sections(s)
  <2>1. Suffixed(k, variants[i][1]) \in AllKeys(s) /\ variants[i][2] \in OwnEntries(s)
    BY <1>2 DEF AllKeys
  <2> QED BY <2>1, PutKeeps DEF Sections
<1> QED BY <1>1, <1>3, <1>4, EmittedStays

(* The first variant that answers. *)
LEMMA ActiveTyped ==
  ASSUME NEW X, NEW variants \in Seq(X), NEW runtime, NEW live, NEW loader
  PROVE  ActiveVariant(variants, runtime, live, loader) \in 0..Len(variants)
<1> DEFINE I == {i \in 1..Len(variants) : Available(Rewritten(variants[i][2], runtime, loader), live)}
           n == Len(variants)
<1>1. ActiveVariant(variants, runtime, live, loader) = IF I # {} THEN Min(I) ELSE 0
  BY DEF ActiveVariant, SelectInSeq
<1>2. I \in SUBSET (1..n) /\ n \in Nat
  OBVIOUS
<1> HIDE DEF I, n
<1>3. I # {} => Min(I) \in 1..n
  BY <1>2, MinIn
<1>4. ActiveVariant(variants, runtime, live, loader) \in 0..n
  BY <1>1, <1>2, <1>3
<1> QED BY <1>4 DEF n

(* One more key, with its variants. *)
Joined(target, s, k, runtime, live, loader) ==
  IF Same(Variants(s, k)) THEN Put(target, k, Variants(s, k)[1][2])
  ELSE Emitted(target, k, Variants(s, k), ActiveVariant(Variants(s, k), runtime, live, loader), loader)

LEMMA JoinedTyped ==
  ASSUME NEW s \in Slots, NEW target \in Sections(s), NEW k \in OwnKeys(s), NEW runtime, NEW live, NEW loader
  PROVE  Joined(target, s, k, runtime, live, loader) \in Sections(s)
<1> DEFINE variants == Variants(s, k)
<1>1. k \in AllKeys(s)
  BY DEF AllKeys
<1>2. variants \in Seq(OwnNames(s) \X OwnEntries(s)) /\ variants # <<>>
  BY VariantsTyped
<1> HIDE DEF variants
<1>3. variants[1] \in OwnNames(s) \X OwnEntries(s)
  BY <1>2
<1>4. Put(target, k, variants[1][2]) \in Sections(s)
  BY <1>1, <1>3, PutKeeps DEF Sections
<1>5. ActiveVariant(variants, runtime, live, loader) \in 0..Len(variants)
  BY <1>2, ActiveTyped
<1>6. Emitted(target, k, variants, ActiveVariant(variants, runtime, live, loader), loader) \in Sections(s)
  BY <1>2, <1>5, EmittedTyped
<1> QED BY <1>4, <1>6 DEF Joined, variants

(* What joining the next key keeps, for the keys joined so far, holds of   *)
(* the whole section.                                                      *)
LEMMA MergedReaches ==
  ASSUME NEW s \in Slots, NEW runtime, NEW live, NEW loader, NEW Z, <<>> \in Z[{}],
         \A T \in SUBSET (1..Len(VariantKeys(s))) : \A section \in Sections(s) :
           T # {} /\ section \in Z[T \ {Max(T)}]
             => Joined(section, s, VariantKeys(s)[Max(T)], runtime, live, loader) \in Z[T]
  PROVE  /\ MergedSection(s, runtime, live, loader) \in Sections(s)
         /\ MergedSection(s, runtime, live, loader) \in Z[1..Len(VariantKeys(s))]
<1> DEFINE n == Len(VariantKeys(s))
           X == Sections(s)
           Op(target, k) == Joined(target, s, k, runtime, live, loader)
           Run(g) == g = [T \in SUBSET (1..n) |->
                            IF T = {} THEN <<>> ELSE Op(g[T \ {Max(T)}], VariantKeys(s)[Max(T)])]
           run == CHOOSE g : Run(g)
           reached == [T \in SUBSET (1..n) |-> T]
           Kept == {T \in SUBSET (1..n) : run[T] \in X /\ run[T] \in Z[T]}
<1>1. n \in Nat /\ DOMAIN VariantKeys(s) = 1..n /\ <<>> \in X
  BY VariantKeysTyped DEF Sections
<1>2. ASSUME NEW i \in 1..n, NEW x \in X PROVE Op(x, VariantKeys(s)[i]) \in X
  <2>1. VariantKeys(s)[i] \in OwnKeys(s)
    BY VariantKeysTyped
  <2> QED BY <2>1, JoinedTyped
<1>3. MergedSection(s, runtime, live, loader) = run[1..n]
  BY <1>1 DEF MergedSection, Joined, FoldLeft, MapThenFoldSet
<1>4. \A T \in SUBSET (1..n) : \A x \in X :
        T # {} /\ x \in Z[T \ {Max(T)}] => Op(x, VariantKeys(s)[Max(T)]) \in Z[T]
  OBVIOUS
<1> HIDE DEF n, X, Op
<1>5. \E g : Run(g)
  <2> DEFINE F == [i \in 1..n |-> [x \in X |-> Op(x, VariantKeys(s)[i])]]
  <2>1. \A i \in 1..n : \A x \in X : F[i][x] = Op(x, VariantKeys(s)[i]) /\ F[i][x] \in X
    BY <1>2
  <2> HIDE DEF F
  <2>2. PICK g \in [SUBSET (1..n) -> X] : Folds(g, n, <<>>, F)
    BY <1>1, <2>1, FoldExists
  <2>3. ASSUME NEW T \in SUBSET (1..n), T # {} PROVE g[T] = Op(g[T \ {Max(T)}], VariantKeys(s)[Max(T)])
    <3>1. Max(T) \in 1..n /\ g[T \ {Max(T)}] \in X
      BY <1>1, <2>3, MaxLast
    <3> QED BY <2>1, <2>2, <2>3, <3>1 DEF Folds
  <2>4. Run(g)
    BY <2>2, <2>3 DEF Folds
  <2> QED BY <2>4
<1>6. Run(run)
  <2> HIDE DEF Run
  <2> QED BY <1>5
<1> HIDE DEF run
<1>7. ASSUME NEW T \in SUBSET (1..n), T # {}, reached[T \ {Max(T)}] \in Kept PROVE reached[T] \in Kept
  <2>1. Max(T) \in 1..n /\ T \ {Max(T)} \in SUBSET (1..n)
    BY <1>1, <1>7, MaxLast
  <2>2. reached[T \ {Max(T)}] = T \ {Max(T)} /\ reached[T] = T
    BY <2>1
  <2>3. run[T] = Op(run[T \ {Max(T)}], VariantKeys(s)[Max(T)])
    BY <1>6, <1>7
  <2>4. run[T \ {Max(T)}] \in X /\ run[T \ {Max(T)}] \in Z[T \ {Max(T)}]
    BY <1>7, <2>2
  <2>5. run[T] \in X
    BY <1>2, <2>1, <2>3, <2>4
  <2>6. run[T] \in Z[T]
    BY <1>4, <1>7, <2>3, <2>4
  <2> QED BY <2>2, <2>5, <2>6
<1>8. reached[{}] \in Kept
  <2>1. {} \in SUBSET (1..n) /\ run[{}] = <<>>
    BY <1>6
  <2> QED BY <1>1, <2>1
<1> HIDE DEF reached, Kept
<1>9. reached[1..n] \in Kept
  BY <1>1, <1>7, <1>8, FoldStays
<1>10. reached[1..n] = 1..n /\ \A T \in Kept : run[T] \in X /\ run[T] \in Z[T]
  BY DEF reached, Kept
<1> QED BY <1>3, <1>9, <1>10 DEF X, n

LEMMA MergedTyped ==
  ASSUME NEW s \in Slots, NEW runtime, NEW live, NEW loader
  PROVE  MergedSection(s, runtime, live, loader) \in Sections(s)
<1> DEFINE n == Len(VariantKeys(s))
           Z == [T \in SUBSET (1..n) |-> Sections(s)]
<1>1. n \in Nat /\ \A i \in 1..n : VariantKeys(s)[i] \in OwnKeys(s)
  BY VariantKeysTyped
<1>2. <<>> \in Z[{}]
  BY DEF Sections
<1>3. ASSUME NEW T \in SUBSET (1..n), NEW section \in Sections(s), T # {}
      PROVE  Joined(section, s, VariantKeys(s)[Max(T)], runtime, live, loader) \in Z[T]
  <2>1. VariantKeys(s)[Max(T)] \in OwnKeys(s)
    <3> HIDE DEF n
    <3> QED BY <1>1, <1>3, MaxLast
  <2> QED BY <2>1, JoinedTyped
<1> HIDE DEF Z
<1> QED BY <1>2, <1>3, MergedReaches

-----------------------------------------------------------------------------
(* The effective catalogue *)

(* _filter_reachable_entries: what keeping the next entry, if it answers,  *)
(* preserves holds of all that is kept.                                    *)
LEMMA ReachableReaches ==
  ASSUME NEW s, NEW runtime, NEW live, NEW A, NEW B, LocalCatalog(s, runtime, live) \in Seq(A \X B),
         NEW Z, <<>> \in Z[{}],
         \A T \in SUBSET (1..Len(LocalCatalog(s, runtime, live))) : \A kept \in Seq(A \X B) :
           T # {} /\ kept \in Z[T \ {Max(T)}]
             => (IF Available(LocalCatalog(s, runtime, live)[Max(T)][2], live)
                 THEN Append(kept, LocalCatalog(s, runtime, live)[Max(T)]) ELSE kept) \in Z[T]
  PROVE  /\ ReachableLocal(s, runtime, live) \in Seq(A \X B)
         /\ ReachableLocal(s, runtime, live) \in Z[1..Len(LocalCatalog(s, runtime, live))]
<1> DEFINE n == Len(LocalCatalog(s, runtime, live))
           X == Seq(A \X B)
           Op(kept, item) == IF Available(item[2], live) THEN Append(kept, item) ELSE kept
           Run(g) == g = [T \in SUBSET (1..n) |->
                            IF T = {} THEN <<>> ELSE Op(g[T \ {Max(T)}], LocalCatalog(s, runtime, live)[Max(T)])]
           run == CHOOSE g : Run(g)
           reached == [T \in SUBSET (1..n) |-> T]
           Kept == {T \in SUBSET (1..n) : run[T] \in X /\ run[T] \in Z[T]}
<1>1. n \in Nat /\ DOMAIN LocalCatalog(s, runtime, live) = 1..n /\ <<>> \in X
  OBVIOUS
<1>2. ASSUME NEW i \in 1..n, NEW x \in X PROVE Op(x, LocalCatalog(s, runtime, live)[i]) \in X
  <2>1. LocalCatalog(s, runtime, live)[i] \in A \X B
    OBVIOUS
  <2> QED BY <2>1
<1>3. ReachableLocal(s, runtime, live) = run[1..n]
  BY <1>1 DEF ReachableLocal, FoldLeft, MapThenFoldSet
<1>4. \A T \in SUBSET (1..n) : \A x \in X :
        T # {} /\ x \in Z[T \ {Max(T)}] => Op(x, LocalCatalog(s, runtime, live)[Max(T)]) \in Z[T]
  OBVIOUS
<1> HIDE DEF n, X, Op
<1>5. \E g : Run(g)
  <2> DEFINE F == [i \in 1..n |-> [x \in X |-> Op(x, LocalCatalog(s, runtime, live)[i])]]
  <2>1. \A i \in 1..n : \A x \in X : F[i][x] = Op(x, LocalCatalog(s, runtime, live)[i]) /\ F[i][x] \in X
    BY <1>2
  <2> HIDE DEF F
  <2>2. PICK g \in [SUBSET (1..n) -> X] : Folds(g, n, <<>>, F)
    BY <1>1, <2>1, FoldExists
  <2>3. ASSUME NEW T \in SUBSET (1..n), T # {}
        PROVE  g[T] = Op(g[T \ {Max(T)}], LocalCatalog(s, runtime, live)[Max(T)])
    <3>1. Max(T) \in 1..n /\ g[T \ {Max(T)}] \in X
      BY <1>1, <2>3, MaxLast
    <3> QED BY <2>1, <2>2, <2>3, <3>1 DEF Folds
  <2>4. Run(g)
    BY <2>2, <2>3 DEF Folds
  <2> QED BY <2>4
<1>6. Run(run)
  <2> HIDE DEF Run
  <2> QED BY <1>5
<1> HIDE DEF run
<1>7. ASSUME NEW T \in SUBSET (1..n), T # {}, reached[T \ {Max(T)}] \in Kept PROVE reached[T] \in Kept
  <2>1. Max(T) \in 1..n /\ T \ {Max(T)} \in SUBSET (1..n)
    BY <1>1, <1>7, MaxLast
  <2>2. reached[T \ {Max(T)}] = T \ {Max(T)} /\ reached[T] = T
    BY <2>1
  <2>3. run[T] = Op(run[T \ {Max(T)}], LocalCatalog(s, runtime, live)[Max(T)])
    BY <1>6, <1>7
  <2>4. run[T \ {Max(T)}] \in X /\ run[T \ {Max(T)}] \in Z[T \ {Max(T)}]
    BY <1>7, <2>2
  <2>5. run[T] \in X
    BY <1>2, <2>1, <2>3, <2>4
  <2>6. run[T] \in Z[T]
    BY <1>4, <1>7, <2>3, <2>4
  <2> QED BY <2>2, <2>5, <2>6
<1>8. reached[{}] \in Kept
  <2>1. {} \in SUBSET (1..n) /\ run[{}] = <<>>
    BY <1>6
  <2> QED BY <1>1, <2>1
<1> HIDE DEF reached, Kept
<1>9. reached[1..n] \in Kept
  BY <1>1, <1>7, <1>8, FoldStays
<1>10. reached[1..n] = 1..n /\ \A T \in Kept : run[T] \in X /\ run[T] \in Z[T]
  BY DEF reached, Kept
<1> QED BY <1>3, <1>9, <1>10 DEF X, n

LEMMA ReachableTyped ==
  ASSUME NEW s, NEW runtime, NEW live, NEW A, NEW B, LocalCatalog(s, runtime, live) \in Seq(A \X B)
  PROVE  ReachableLocal(s, runtime, live) \in Seq(A \X B)
<1>. PICK catalog : catalog = LocalCatalog(s, runtime, live)
  OBVIOUS
<1> DEFINE n == Len(catalog)
           Z == [T \in SUBSET (1..n) |-> Seq(A \X B)]
           Following(T, kept) == IF Available(catalog[Max(T)][2], live) THEN Append(kept, catalog[Max(T)]) ELSE kept
<1>1. n \in Nat /\ \A i \in 1..n : catalog[i] \in A \X B
  OBVIOUS
<1>2. <<>> \in Z[{}]
  OBVIOUS
<1>3. ASSUME NEW T \in SUBSET (1..n), NEW kept \in Seq(A \X B), T # {} PROVE Following(T, kept) \in Z[T]
  <2>1. catalog[Max(T)] \in A \X B
    <3> HIDE DEF n
    <3> QED BY <1>1, <1>3, MaxLast
  <2> QED BY <2>1
<1> HIDE DEF Z
<1> QED BY <1>2, <1>3, ReachableReaches

(* Every entry that answers is kept. *)
LEMMA ReachableKeeps ==
  ASSUME NEW s, NEW runtime, NEW live, NEW A, NEW B, LocalCatalog(s, runtime, live) \in Seq(A \X B),
         NEW item \in ToSet(LocalCatalog(s, runtime, live)), Available(item[2], live)
  PROVE  item \in ToSet(ReachableLocal(s, runtime, live))
<1>. PICK catalog : catalog = LocalCatalog(s, runtime, live)
  OBVIOUS
<1> DEFINE n == Len(catalog)
           Holds(section, x) == x \in ToSet(section)
           Z == [T \in SUBSET (1..n) |->
                   {x \in Seq(A \X B) : \A i \in T : Available(catalog[i][2], live) => Holds(x, catalog[i])}]
           Following(T, kept) == IF Available(catalog[Max(T)][2], live) THEN Append(kept, catalog[Max(T)]) ELSE kept
<1>1. n \in Nat /\ DOMAIN catalog = 1..n /\ \A i \in 1..n : catalog[i] \in A \X B
  OBVIOUS
<1>2. <<>> \in Z[{}]
  OBVIOUS
<1>3. ASSUME NEW T \in SUBSET (1..n), NEW kept \in Seq(A \X B), T # {}, kept \in Z[T \ {Max(T)}]
      PROVE  Following(T, kept) \in Z[T]
  <2>1. Max(T) \in T /\ catalog[Max(T)] \in A \X B
    <3> HIDE DEF n
    <3> QED BY <1>1, <1>3, MaxLast
  <2>. PICK last : last = Max(T)
    OBVIOUS
  <2>2. \A i \in T \ {last} : Available(catalog[i][2], live) => Holds(kept, catalog[i])
    BY <1>3
  <2>3. Append(kept, catalog[last]) \in Seq(A \X B)
    BY <2>1
  <2>4. /\ Holds(Append(kept, catalog[last]), catalog[last])
        /\ \A x : Holds(kept, x) => Holds(Append(kept, catalog[last]), x)
    <3>1. /\ Len(kept) \in Nat /\ Len(Append(kept, catalog[last])) = Len(kept) + 1
          /\ Append(kept, catalog[last])[Len(kept) + 1] = catalog[last]
          /\ \A j \in 1..Len(kept) : Append(kept, catalog[last])[j] = kept[j]
          /\ DOMAIN kept = 1..Len(kept) /\ DOMAIN Append(kept, catalog[last]) = 1..(Len(kept) + 1)
      OBVIOUS
    <3>2. Len(kept) + 1 \in 1..(Len(kept) + 1) /\ \A j \in 1..Len(kept) : j \in 1..(Len(kept) + 1)
      BY <3>1
    <3> QED BY <3>1, <3>2 DEF ToSet
  <2> HIDE DEF Holds
  <2>5. \A i \in T : Available(catalog[i][2], live) => Holds(Following(T, kept), catalog[i])
    BY <2>2, <2>4
  <2> QED BY <2>3, <2>5
<1>4. \A x \in Z[1..n] : \A i \in 1..n : Available(catalog[i][2], live) => Holds(x, catalog[i])
  OBVIOUS
<1>5. PICK i \in 1..n : item = catalog[i]
  BY <1>1 DEF ToSet
<1> HIDE DEF Z
<1>6. ReachableLocal(s, runtime, live) \in Z[1..n]
  BY <1>2, <1>3, ReachableReaches
<1> QED BY <1>4, <1>5, <1>6

(* Both are empty, or both begin with the same. *)
Starts(section, other) == IF other = <<>> THEN section = <<>> ELSE section # <<>> /\ section[1] = other[1]

(* The first entry: a local one if there is any. *)
LEMMA MergedFirst ==
  ASSUME NEW A, NEW B, NEW local \in Seq(A \X B), NEW cloud \in Seq(A \X B)
  PROVE  /\ Merge(local, cloud) \in Seq(A \X B)
         /\ Starts(Merge(local, cloud), IF local # <<>> THEN local ELSE cloud)
<1> DEFINE n == Len(cloud)
           X == Seq(A \X B)
           Op(t, item) == SetDefault(t, item[1], item[2])
           Run(g) == g = [T \in SUBSET (1..n) |->
                            IF T = {} THEN local ELSE Op(g[T \ {Max(T)}], cloud[Max(T)])]
           run == CHOOSE g : Run(g)
<1>1. n \in Nat /\ DOMAIN cloud = 1..n /\ local \in X
  OBVIOUS
<1>2. ASSUME NEW i \in 1..n, NEW x \in X PROVE Op(x, cloud[i]) \in X
  <2>1. cloud[i] \in A \X B
    OBVIOUS
  <2> QED BY <2>1, PutKeeps
<1>3. ASSUME NEW i \in 1..n, NEW x \in X, x # <<>> PROVE Starts(Op(x, cloud[i]), x)
  <2>1. <<cloud[i][1], cloud[i][2]>> \in A \X B
    OBVIOUS
  <2>2. Starts(Append(x, <<cloud[i][1], cloud[i][2]>>), x)
    <3> DEFINE v == <<cloud[i][1], cloud[i][2]>>
    <3>1. v \in A \X B /\ x \in Seq(A \X B) /\ Len(x) >= 1
      BY <1>3, <2>1
    <3> HIDE DEF v
    <3>2. Append(x, v) # <<>> /\ \A j \in 1..Len(x) : Append(x, v)[j] = x[j]
      BY <3>1, AppendProperties
    <3> QED BY <3>1, <3>2 DEF Starts, v
  <2> QED BY <2>2 DEF SetDefault, Starts
<1>4. n # 0 => Starts(Op(<<>>, cloud[1]), cloud)
  <2> SUFFICES ASSUME n # 0 PROVE Starts(Op(<<>>, cloud[1]), cloud)
    OBVIOUS
  <2>1. ~ Has(<<>>, cloud[1][1])
    BY DEF Has, Position, SelectInSeq
  <2>2. cloud[1] \in A \X B /\ cloud # <<>>
    OBVIOUS
  <2>3. Op(<<>>, cloud[1]) = << <<cloud[1][1], cloud[1][2]>> >>
    BY <2>1 DEF SetDefault
  <2>4. <<cloud[1][1], cloud[1][2]>> = cloud[1]
    BY <2>2
  <2>5. \A v : <<v>> # <<>> /\ <<v>>[1] = v
    OBVIOUS
  <2> HIDE DEF Op
  <2>6. Op(<<>>, cloud[1]) # <<>> /\ Op(<<>>, cloud[1])[1] = cloud[1]
    BY <2>3, <2>4, <2>5
  <2> QED BY <2>2, <2>6 DEF Starts
<1>5. n = 0 => cloud = <<>>
  OBVIOUS
<1>6. Merge(local, cloud) = run[1..n]
  BY <1>1 DEF Merge, FoldLeft, MapThenFoldSet
<1> HIDE DEF n, X, Op
<1>7. \E g : Run(g)
  <2> DEFINE F == [i \in 1..n |-> [x \in X |-> Op(x, cloud[i])]]
  <2>1. \A i \in 1..n : \A x \in X : F[i][x] = Op(x, cloud[i]) /\ F[i][x] \in X
    BY <1>2
  <2> HIDE DEF F
  <2>2. PICK g \in [SUBSET (1..n) -> X] : Folds(g, n, local, F)
    BY <1>1, <2>1, FoldExists
  <2>3. ASSUME NEW T \in SUBSET (1..n), T # {} PROVE g[T] = Op(g[T \ {Max(T)}], cloud[Max(T)])
    <3>1. Max(T) \in 1..n /\ g[T \ {Max(T)}] \in X
      BY <1>1, <2>3, MaxLast
    <3> QED BY <2>1, <2>2, <2>3, <3>1 DEF Folds
  <2>4. Run(g)
    BY <2>2, <2>3 DEF Folds
  <2> QED BY <2>4
<1>8. Run(run)
  <2> HIDE DEF Run
  <2> QED BY <1>7
<1> HIDE DEF run
<1>9. ASSUME NEW T \in SUBSET (1..n), T # {}, run[T \ {Max(T)}] \in X PROVE run[T] \in X
  <2>1. Max(T) \in 1..n
    BY <1>1, <1>9, MaxLast
  <2>2. run[T] = Op(run[T \ {Max(T)}], cloud[Max(T)])
    BY <1>8, <1>9
  <2> QED BY <1>2, <1>9, <2>1, <2>2
<1>10. run[{}] \in X
  BY <1>1, <1>8
<1>11. run[1..n] \in X
  BY <1>1, <1>9, <1>10, FoldStays
<1> DEFINE first == IF local # <<>> THEN local ELSE cloud
           Kept(T) == run[T] \in X /\ (local # <<>> \/ 1 \in T => Starts(run[T], first)) /\ (T = {} => run[T] = local)
           kept == [T \in SUBSET (1..n) |-> Kept(T)]
           Good == {TRUE}
<1>12. kept[{}] \in Good
  BY <1>8, <1>10 DEF Starts
<1>13. ASSUME NEW T \in SUBSET (1..n), T # {}, kept[T \ {Max(T)}] \in Good PROVE kept[T] \in Good
  <2> DEFINE x == run[T \ {Max(T)}]
  <2>1. Max(T) \in T /\ Max(T) \in 1..n /\ run[T] = Op(x, cloud[Max(T)]) /\ run[T] \in X
    BY <1>1, <1>8, <1>9, <1>13, MaxLast
  <2>2. Kept(T \ {Max(T)})
    BY <1>13
  <2>3. Max(T) = 1 => T \ {Max(T)} = {}
    <3>1. \A t \in T : Max(T) >= t /\ t \in 1..n
      BY <1>1, <1>13, MaxLast
    <3>2. \A t \in 1..n : 1 >= t => t = 1
      BY <1>1
    <3> QED BY <3>1, <3>2
  <2> HIDE DEF Kept
  <2>4. ASSUME local # <<>> \/ 1 \in T PROVE Starts(run[T], first)
    <3>1. CASE Starts(x, first) /\ x # <<>>
      BY <1>3, <2>1, <2>2, <3>1 DEF Starts, Kept
    <3>2. CASE local = <<>> /\ Max(T) = 1
      BY <1>4, <1>1, <2>1, <2>2, <2>3, <3>2 DEF Kept
    <3>3. local # <<>> \/ 1 \in T \ {Max(T)} \/ (local = <<>> /\ Max(T) = 1)
      BY <2>4
    <3>4. local # <<>> \/ 1 \in T \ {Max(T)} => Starts(x, first) /\ x # <<>>
      <4>1. local # <<>> \/ cloud # <<>>
        BY <1>1, <1>5, <2>1
      <4> QED BY <2>2, <4>1 DEF Kept, Starts
    <3> QED BY <3>1, <3>2, <3>3, <3>4
  <2> QED BY <1>13, <2>1, <2>4 DEF Kept
<1> HIDE DEF Kept, Good
<1>14. kept[1..n] \in Good
  <2> HIDE DEF kept
  <2> QED BY <1>1, <1>12, <1>13, FoldStays
<1>15. Kept(1..n)
  BY <1>14 DEF Good
<1>16. Starts(run[1..n], first)
  <2>1. CASE n = 0
    <3>1. 1..n = {}
      BY <2>1
    <3> QED BY <1>5, <1>15, <2>1, <3>1 DEF Kept, Starts
  <2>2. CASE n # 0
    <3>1. 1 \in 1..n
      BY <1>1, <2>2
    <3> QED BY <1>15, <3>1 DEF Kept
  <2> QED BY <2>1, <2>2
<1> QED BY <1>6, <1>11, <1>16 DEF X

(* Keys stay and every entry is rewritten. *)
LEMMA RewrittenTyped ==
  ASSUME NEW A, NEW B, NEW R, NEW section \in Seq(A \X B), NEW runtime, NEW loader,
         \A e \in B : Rewritten(e, runtime, loader) \in R
  PROVE  RewrittenSection(section, runtime, loader) \in Seq(A \X R)
<1> DEFINE n == Len(section)
           Item(i) == <<section[i][1], Rewritten(section[i][2], runtime, loader)>>
           items == [i \in 1..n |-> Item(i)]
<1>1. n \in Nat /\ DOMAIN section = 1..n /\ \A i \in 1..n : section[i] \in A \X B
  OBVIOUS
<1>2. \A i \in 1..n : Item(i) \in A \X R
  BY <1>1
<1>3. RewrittenSection(section, runtime, loader) = items
  BY <1>1 DEF RewrittenSection
<1> HIDE DEF n, Item
<1>4. items \in [1..n -> A \X R]
  BY <1>2
<1> HIDE DEF items
<1>5. items \in Seq(A \X R)
  BY <1>1, <1>4, IsASeq
<1> QED BY <1>3, <1>5

(* The section of a platform, as it is in the file. *)
LEMMA PlatformTyped ==
  ASSUME NEW s \in Slots, NEW platform
  PROVE  PlatformSection(s, platform) \in Sections(s)
<1> DEFINE n == Len(Local[s])
           I == {i \in 1..n : Local[s][i][1] = platform}
           chosen == IF I # {} THEN Min(I) ELSE 0
<1>1. PlatformSection(s, platform) = IF chosen = 0 THEN <<>> ELSE Local[s][chosen][2]
  BY DEF PlatformSection, SelectInSeq
<1>2. I \in SUBSET (1..n) /\ n \in Nat
  BY LocalTyped
<1> HIDE DEF I
<1>3. chosen # 0 => chosen \in 1..n
  BY <1>2, MinIn
<1> HIDE DEF chosen
<1>4. chosen # 0 => Local[s][chosen][2] \in Seq(OwnKeys(s) \X OwnEntries(s))
  BY <1>3, LocalTyped
<1>5. Seq(OwnKeys(s) \X OwnEntries(s)) \subseteq Sections(s)
  <2>1. OwnKeys(s) \X OwnEntries(s) \subseteq AllKeys(s) \X OwnEntries(s)
    BY DEF AllKeys
  <2> QED BY <2>1, SeqMonotonic DEF Sections
<1>6. <<>> \in Sections(s)
  BY DEF Sections
<1> QED BY <1>1, <1>4, <1>5, <1>6

(* Whatever is reachable, a catalogue holds entries of the files only.     *)
LEMMA CataloguesTyped ==
  ASSUME NEW s \in Slots, NEW live
  PROVE  \E K : /\ Cloud[s] \in Seq(K \X CatalogueEntries(s))
                /\ LocalCatalog(s, env, live) \in Seq(K \X CatalogueEntries(s))
<1> DEFINE Own == {Rewritten(x, env, "utils") : x \in OwnEntries(s)}
           CloudKeys == {item[1] : item \in ToSet(Cloud[s])}
           K == AllKeys(s) \cup CloudKeys
           Sound == Seq(K \X CatalogueEntries(s))
<1>1. Own \subseteq CatalogueEntries(s) /\ Entries(Cloud[s]) \subseteq CatalogueEntries(s)
  BY DEF CatalogueEntries, OwnEntries
<1>2. Cloud[s] \in Seq(CloudKeys \X Entries(Cloud[s]))
  <2>1. Cloud[s] \in Seq(ToSet(Cloud[s])) /\ \A item \in ToSet(Cloud[s]) : item = <<item[1], item[2]>>
    BY SectionsAssumption DEF IsSection
  <2>2. ToSet(Cloud[s]) \subseteq CloudKeys \X Entries(Cloud[s])
    BY <2>1 DEF Entries
  <2> QED BY <2>1, <2>2, SeqMonotonic
<1>3. LocalCatalog(s, env, live) \in Seq(AllKeys(s) \X Own)
  <2> DEFINE section == IF env.platform = Unset THEN MergedSection(s, env, live, "utils")
                        ELSE PlatformSection(s, env.platform)
  <2>1. section \in Seq(AllKeys(s) \X OwnEntries(s))
    BY MergedTyped, PlatformTyped DEF Sections
  <2>2. LocalCatalog(s, env, live) = RewrittenSection(section, env, "utils")
    BY DEF LocalCatalog, LocalSection
  <2>3. \A x \in OwnEntries(s) : Rewritten(x, env, "utils") \in Own
    OBVIOUS
  <2> HIDE DEF section, Own
  <2>4. RewrittenSection(section, env, "utils") \in Seq(AllKeys(s) \X Own)
    BY <2>1, <2>3, RewrittenTyped
  <2> QED BY <2>2, <2>4
<1>4. \A S, T : S \subseteq K /\ T \subseteq CatalogueEntries(s) => Seq(S \X T) \subseteq Sound
  <2> SUFFICES ASSUME NEW S, NEW T, S \subseteq K, T \subseteq CatalogueEntries(s)
               PROVE  Seq(S \X T) \subseteq Sound
    OBVIOUS
  <2>1. S \X T \subseteq K \X CatalogueEntries(s)
    OBVIOUS
  <2> QED BY <2>1, SeqMonotonic
<1>5. Cloud[s] \in Sound /\ LocalCatalog(s, env, live) \in Sound
  BY <1>1, <1>2, <1>3, <1>4
<1> QED BY <1>5

(* What an id names is one of them. *)
LEMMA FoundInCatalogue ==
  ASSUME NEW s \in Slots, NEW id, NEW live, NEW e \in EntryById(s, id, env, live)
  PROVE  e \in CatalogueEntries(s)
<1>1. PICK K : /\ Cloud[s] \in Seq(K \X CatalogueEntries(s))
               /\ LocalCatalog(s, env, live) \in Seq(K \X CatalogueEntries(s))
  BY CataloguesTyped
<1> DEFINE Sound == Seq(K \X CatalogueEntries(s))
           section == CatalogOf(id.source, s, env, live)
<1>2. Effective(s, env, live) \in Sound
  <2>1. ReachableLocal(s, env, live) \in Sound
    BY <1>1, ReachableTyped
  <2> QED BY <1>1, <2>1, MergedFirst DEF Effective
<1>3. <<>> \in Sound
  OBVIOUS
<1>4. section \in Sound
  <2>1. Cloud[s] \in Sound /\ LocalCatalog(s, env, live) \in Sound
    BY <1>1
  <2> HIDE DEF Sound
  <2> QED BY <1>2, <1>3, <2>1 DEF CatalogOf
<1>5. Has(section, id.key) /\ e = At(section, id.key)
  BY DEF EntryById
<1> HIDE DEF section
<1> QED BY <1>4, <1>5, PositionFound

-----------------------------------------------------------------------------
(* NoMixedSelection *)

(* All of one catalogue entry, but for the voice; no file of the client's. *)
TakenFrom(config, e) ==
  /\ \A f \in Fields \ (Overridable \cup {"promptFile"}) : config[f] = e[f]
  /\ config.promptFile \in {"", e.promptFile}

(* A slot is what its client asked for or what one entry says.             *)
Unmixed(s, config, asked) == config = Filter(asked) \/ \E e \in CatalogueEntries(s) : TakenFrom(config, e)

(* There is nothing to filter the second time. *)
LEMMA FilteredTwice ==
  ASSUME NEW asked
  PROVE  Filter(Filter(asked)) = Filter(asked)
BY DEF Filter

(* A hydration takes a slot over from one entry, or leaves it as it is but *)
(* for the file: what was unmixed stays so, whatever is reachable by then. *)
LEMMA HydratedUnmixed ==
  ASSUME NEW s \in Slots, NEW config, NEW asked, NEW live, DOMAIN config = Fields \cup {"id"},
         Unmixed(s, config, asked) \/ config = asked
  PROVE  Unmixed(s, Hydrate(s, Filter(config), env, live), asked)
<1> DEFINE hydrated == Hydrate(s, Filter(config), env, live)
           found == EntryById(s, config.id, env, live)
           e == CHOOSE x \in found : TRUE
<1>1. /\ DOMAIN Filter(config) = Fields \cup {"id"} /\ Filter(config).promptFile = ""
      /\ \A f \in Fields \ {"promptFile"} : Filter(config)[f] = config[f]
      /\ Filter(config).id = config.id
  BY DEF Filter, Fields
<1>2. CASE found = {}
  <2>1. hydrated = Filter(config)
    BY <1>1, <1>2 DEF Hydrate
  <2>2. CASE config = asked
    BY <2>1, <2>2 DEF Unmixed
  <2>3. CASE config = Filter(asked)
    BY <2>1, <2>3, FilteredTwice DEF Unmixed
  <2>4. ASSUME NEW x \in CatalogueEntries(s), TakenFrom(config, x) PROVE Unmixed(s, hydrated, asked)
    BY <1>1, <2>1, <2>4 DEF Unmixed, TakenFrom
  <2> QED BY <2>2, <2>3, <2>4 DEF Unmixed
<1>3. CASE found # {}
  <2>1. e \in CatalogueEntries(s)
    BY <1>3, FoundInCatalogue
  <2>2. hydrated = [f \in Fields \cup {"id"} |-> IF f = "id" THEN config.id ELSE Hydrated(f, Filter(config), e)]
    BY <1>1, <1>3 DEF Hydrate
  <2>3. \A f \in Fields \ Overridable : hydrated[f] = e[f]
    <3> HIDE DEF e
    <3> QED BY <2>2 DEF Hydrated, Fields
  <2>4. TakenFrom(hydrated, e)
    <3> HIDE DEF e, hydrated
    <3> QED BY <2>3 DEF TakenFrom, Fields, Overridable
  <2> QED BY <2>1, <2>4 DEF Unmixed
<1> QED BY <1>2, <1>3

(* The configuration of a slot is all the client's own or all of one       *)
(* catalogue entry, after any number of hydrations, with whatever probes   *)
(* between, and the data of an offer replaces nothing of it.               *)
THEOREM OneEntryPerSlot == Spec => []NoMixedSelection
<1>1. NoMixedSelection <=> \A s \in Slots : Unmixed(s, session.config[s], session.asked[s])
  BY DEF NoMixedSelection, Unmixed, TakenFrom, Body, Updated
<1>2. Init => NoMixedSelection
  <2> SUFFICES ASSUME Init PROVE NoMixedSelection
    OBVIOUS
  <2>1. \A s \in Slots : NothingAsked[s] = Filter(NothingAsked[s])
    BY DEF NothingAsked, Filter, Fields, Empty
  <2> QED BY <1>1, <2>1 DEF Init, Unmixed
<1>3. IInv /\ NoMixedSelection /\ [Next]_vars => NoMixedSelection'
  <2> SUFFICES ASSUME IInv, NoMixedSelection, [Next]_vars PROVE NoMixedSelection'
    OBVIOUS
  <2>1. DOMAIN session = {"phase", "asked", "config", "route", "data"}
        /\ \A s \in Slots : DOMAIN session.config[s] = Fields \cup {"id"}
    BY DEF IInv, Shaped
  <2>2. env' = env
    BY DEF Next, SessionStep, Start, StartDirect, Check, Store, Offer, ConnectUnchecked, RunBot, PromptFails,
           Toggle, Expire, ListServices, vars
  <2>3. (\A s \in Slots : Unmixed(s, session'.config[s], session'.asked[s])) => NoMixedSelection'
    <3>1. \A s \in Slots : CatalogueEntries(s)' = CatalogueEntries(s)
      BY <2>2 DEF CatalogueEntries
    <3>2. (\A s \in Slots : Unmixed(s, session.config[s], session.asked[s])')
            => NoMixedSelection'
      BY DEF NoMixedSelection, Unmixed, TakenFrom, Body, Updated
    <3>3. ASSUME NEW s \in Slots
          PROVE  Unmixed(s, session.config[s], session.asked[s])'
                   <=> Unmixed(s, session'.config[s], session'.asked[s])
      BY <3>1 DEF Unmixed, TakenFrom
    <3> QED BY <3>2, <3>3
  <2>4. ASSUME NEW body \in Bodies, Start(body) PROVE NoMixedSelection'
    <3>1. session'.asked = body /\ session'.config = Sanitize(body, env, Live)
      BY <2>4 DEF Start
    <3>2. \A s \in Slots : DOMAIN body[s] = Fields \cup {"id"}
      BY BodiesAssumption
    <3>3. \A s \in Slots : Unmixed(s, session'.config[s], session'.asked[s])
      BY <3>1, <3>2, HydratedUnmixed DEF Sanitize
    <3> QED BY <2>3, <3>3
  <2>5. ASSUME session'.config = Resanitized, session'.asked = session.asked PROVE NoMixedSelection'
    <3>1. ASSUME NEW s \in Slots PROVE Unmixed(s, session'.config[s], session'.asked[s])
      <4>1. session'.config[s] = Hydrate(s, Filter(session.config[s]), env, Live)
        BY <2>5 DEF Resanitized, Sanitize
      <4>2. PICK config, asked : config = session.config[s] /\ asked = session.asked[s]
        OBVIOUS
      <4>3. DOMAIN config = Fields \cup {"id"} /\ Unmixed(s, config, asked)
        BY <1>1, <2>1, <4>2
      <4>4. Unmixed(s, Hydrate(s, Filter(config), env, Live), asked)
        BY <4>3, HydratedUnmixed
      <4> QED BY <2>5, <4>1, <4>2, <4>4
    <3> QED BY <2>3, <3>1
  <2>6. ASSUME session'.config = session.config, session'.asked = session.asked PROVE NoMixedSelection'
    BY <1>1, <2>6, <2>3
  <2>7. CASE Store \/ Offer
    <3>1. session'.asked = session.asked /\ session'.config \in {Resanitized, session.config}
      BY <2>1, <2>7 DEF Store, Offer, Become
    <3> QED BY <2>5, <2>6, <3>1
  <2>8. ASSUME NEW s \in Slots, Check(s) PROVE NoMixedSelection'
    BY <2>1, <2>6, <2>8 DEF Check, Become
  <2>9. CASE StartDirect \/ ConnectUnchecked \/ RunBot \/ PromptFails
    BY <2>1, <2>6, <2>9 DEF StartDirect, ConnectUnchecked, RunBot, PromptFails, Become
  <2>10. CASE UNCHANGED session
    BY <2>6, <2>10
  <2> QED BY <2>4, <2>7, <2>8, <2>9, <2>10
          DEF Next, SessionStep, Toggle, Expire, ListServices, vars
<1> QED BY <1>2, <1>3, InitSettled, SettledStep, PTL DEF Spec

-----------------------------------------------------------------------------
(* The default of the service list *)

(* The items of a section, in its order. *)
LEMMA ItemsInOrder ==
  ASSUME NEW section, NEW source, NEW n \in Nat, Len(section) = n, DOMAIN section = 1..n
  PROVE  /\ ApiEntries(section, source) \in Seq(ToSet(ApiEntries(section, source)))
         /\ Len(ApiEntries(section, source)) = n
         /\ \A i \in 1..n : /\ ApiEntries(section, source)[i].entry = section[i][2]
                            /\ ApiEntries(section, source)[i].selected <=> i = 1
                            /\ DOMAIN ApiEntries(section, source)[i] = {"id", "entry", "selected"}
<1> DEFINE items == ApiEntries(section, source)
<1>1. items = [i \in 1..n |-> [id |-> [source |-> source, key |-> section[i][1]],
                               entry |-> section[i][2], selected |-> i = 1]]
  BY DEF ApiEntries
<1>2. \A i \in 1..n : /\ items[i].entry = section[i][2] /\ items[i].selected = (i = 1)
                      /\ DOMAIN items[i] = {"id", "entry", "selected"}
  BY <1>1
<1>3. DOMAIN items = 1..n /\ items = [i \in 1..n |-> items[i]]
  BY <1>1
<1> HIDE DEF items
<1>4. items \in [1..n -> ToSet(items)]
  BY <1>3 DEF ToSet
<1>5. items \in Seq(ToSet(items)) /\ Len(items) = n
  BY <1>3, <1>4, IsASeq
<1>6. \A i \in 1..n : items[i].selected <=> i = 1
  BY <1>2
<1> QED BY <1>2, <1>5, <1>6 DEF items

(* The first item is the one selected, if there is any. *)
LEMMA FirstSelected ==
  ASSUME NEW s, NEW live, NEW A, NEW B, ReachableLocal(s, env, live) \in Seq(A \X B), Cloud[s] \in Seq(A \X B)
  PROVE  {item.entry : item \in {x \in ToSet(ServicesResponse(s, env, live)) : x.selected}}
           = IF ReachableLocal(s, env, live) # <<>> THEN {ReachableLocal(s, env, live)[1][2]}
             ELSE IF Cloud[s] # <<>> THEN {Cloud[s][1][2]} ELSE {}
<1>. PICK local : local = ReachableLocal(s, env, live)
  OBVIOUS
<1>. PICK cloud : cloud = Cloud[s]
  OBVIOUS
<1>. PICK left : left = ApiEntries(local, "self-hosted")
  OBVIOUS
<1>. PICK right : right = ApiEntries(cloud, "cloud-nim")
  OBVIOUS
<1> DEFINE entries == left \o right
           n == Len(entries)
           Ones == {i \in 1..n : entries[i].selected}
           first == IF Ones # {} THEN Min(Ones) ELSE 0
           response == [i \in DOMAIN entries |-> [entries[i] EXCEPT !.selected = i = first]]
<1>1. ServicesResponse(s, env, live) = response
  BY DEF ServicesResponse, SelectInSeq
<1>2. /\ left \in Seq(ToSet(left)) /\ Len(left) = Len(local)
      /\ \A i \in 1..Len(local) : /\ left[i].entry = local[i][2]
                                  /\ left[i].selected <=> i = 1
                                  /\ DOMAIN left[i] = {"id", "entry", "selected"}
  <2>1. Len(local) \in Nat /\ DOMAIN local = 1..Len(local)
    OBVIOUS
  <2> QED BY <2>1, ItemsInOrder
<1>3. /\ right \in Seq(ToSet(right)) /\ Len(right) = Len(cloud)
      /\ \A i \in 1..Len(cloud) : /\ right[i].entry = cloud[i][2]
                                  /\ right[i].selected <=> i = 1
                                  /\ DOMAIN right[i] = {"id", "entry", "selected"}
  <2>1. Len(cloud) \in Nat /\ DOMAIN cloud = 1..Len(cloud)
    OBVIOUS
  <2> QED BY <2>1, ItemsInOrder
<1>4. /\ Len(local) \in Nat /\ Len(cloud) \in Nat /\ n = Len(local) + Len(cloud) /\ DOMAIN entries = 1..n
      /\ \A i \in 1..Len(local) : entries[i] = left[i]
      /\ \A i \in 1..Len(cloud) : entries[Len(local) + i] = right[i]
  <2>1. Len(local) \in Nat /\ Len(cloud) \in Nat
    OBVIOUS
  <2>2. PICK T : left \in Seq(T) /\ right \in Seq(T)
    <3> DEFINE S == ToSet(left)
               T == ToSet(right)
    <3>1. left \in Seq(S) /\ right \in Seq(T)
      BY <1>2, <1>3
    <3> HIDE DEF S, T
    <3>2. S \subseteq S \cup T /\ T \subseteq S \cup T
      OBVIOUS
    <3>3. Seq(S) \subseteq Seq(S \cup T) /\ Seq(T) \subseteq Seq(S \cup T)
      BY <3>2, SeqMonotonic
    <3> QED BY <3>1, <3>3
  <2>3. DOMAIN entries = 1..n
    BY <2>2
  <2>4. /\ Len(left \o right) = Len(left) + Len(right)
        /\ \A i \in 1..(Len(left) + Len(right)) :
             (left \o right)[i] = IF i <= Len(left) THEN left[i] ELSE right[i - Len(left)]
    BY <2>2, ConcatProperties
  <2>5. \A i \in 1..Len(local) : i \in 1..(Len(local) + Len(cloud)) /\ i <= Len(local)
    BY <2>1
  <2>6. \A i \in 1..Len(cloud) : /\ Len(local) + i \in 1..(Len(local) + Len(cloud)) /\ ~ (Len(local) + i <= Len(local))
                                 /\ (Len(local) + i) - Len(local) = i
    BY <2>1
  <2>7. n = Len(local) + Len(cloud)
    BY <1>2, <1>3, <2>4
  <2>8. \A i \in 1..Len(local) : entries[i] = left[i]
    BY <1>2, <1>3, <2>4, <2>5
  <2>9. \A i \in 1..Len(cloud) : entries[Len(local) + i] = right[i]
    BY <1>2, <1>3, <2>4, <2>6
  <2> QED BY <2>1, <2>3, <2>7, <2>8, <2>9
<1>5. local # <<>> => Len(local) >= 1
  OBVIOUS
<1>6. cloud # <<>> => Len(cloud) >= 1
  OBVIOUS
<1>7. (local = <<>> => Len(local) = 0) /\ (cloud = <<>> => Len(cloud) = 0)
  OBVIOUS
<1>8. CASE n = 0
  <2>1. local = <<>> /\ cloud = <<>> /\ DOMAIN entries = {}
    BY <1>4, <1>5, <1>6, <1>8
  <2>2. ToSet(response) = {}
    <3> HIDE DEF first, entries
    <3> QED BY <2>1 DEF ToSet
  <2> QED BY <1>1, <2>1, <2>2
<1>9. CASE n # 0
  <2> DEFINE e == IF local # <<>> THEN local[1][2] ELSE cloud[1][2]
  <2>1. entries[1].entry = e /\ entries[1].selected /\ DOMAIN entries[1] = {"id", "entry", "selected"}
    <3>1. CASE local # <<>>
      <4>1. 1 \in 1..Len(local)
        BY <1>4, <1>5, <3>1
      <4> QED BY <1>2, <1>4, <3>1, <4>1
    <3>2. CASE local = <<>>
      <4>1. 1 \in 1..Len(cloud) /\ Len(local) + 1 = 1
        BY <1>4, <1>7, <1>9, <3>2
      <4> QED BY <1>3, <1>4, <3>2, <4>1
    <3> QED BY <3>1, <3>2
  <2>2. 1 \in 1..n /\ n \in Nat
    BY <1>4, <1>9
  <2>3. \A i \in 1..n : DOMAIN entries[i] = {"id", "entry", "selected"}
    <3> SUFFICES ASSUME NEW i \in 1..n PROVE DOMAIN entries[i] = {"id", "entry", "selected"}
      OBVIOUS
    <3>1. CASE i \in 1..Len(local)
      BY <1>2, <1>4, <3>1
    <3>2. CASE i \notin 1..Len(local)
      <4>1. i - Len(local) \in 1..Len(cloud) /\ Len(local) + (i - Len(local)) = i
        BY <1>4, <3>2
      <4> QED BY <1>3, <1>4, <4>1
    <3> QED BY <3>1, <3>2
  <2> HIDE DEF entries, n
  <2>4. first = 1
    <3>1. 1 \in Ones /\ Ones \in SUBSET (1..n)
      BY <2>1, <2>2
    <3>2. Min(Ones) \in Ones /\ 1 >= Min(Ones)
      <4> HIDE DEF Ones
      <4>1. \E least \in Ones : \A i \in Ones : least <= i
        BY <2>2, <3>1, LeastElement
      <4> QED BY <3>1, <4>1 DEF Min
    <3> QED BY <2>2, <3>1, <3>2
  <2> HIDE DEF first
  <2>5. \A i \in 1..n : (response[i].selected <=> i = 1) /\ response[i].entry = entries[i].entry
    BY <1>4, <2>3, <2>4
  <2>6. DOMAIN response = 1..n
    BY <1>4
  <2> HIDE DEF response
  <2>7. {item.entry : item \in {x \in ToSet(response) : x.selected}} = {e}
    <3>1. ToSet(response) = {response[i] : i \in 1..n}
      BY <2>6 DEF ToSet
    <3>2. response[1] \in ToSet(response) /\ response[1].selected /\ response[1].entry = e
      BY <2>1, <2>2, <2>5, <3>1
    <3>3. \A x \in ToSet(response) : x.selected => x = response[1]
      BY <2>5, <3>1
    <3> HIDE DEF e
    <3> QED BY <3>2, <3>3
  <2>8. local # <<>> \/ cloud # <<>>
    BY <1>4, <1>7, <1>9 DEF n
  <2> QED BY <1>1, <2>7, <2>8
<1> QED BY <1>8, <1>9

(* The entry that the service list marks as selected is the one a session  *)
(* gets that chooses nothing, for any catalogues, on any platform and      *)
(* whatever is reachable: the list and the merge keep the same order.      *)
THEOREM SelectedIsDefault ==
  \A s \in Slots : \A live :
    {item.entry : item \in {x \in ToSet(ServicesResponse(s, env, live)) : x.selected}} = DefaultEntry(s, env, live)
<1> SUFFICES ASSUME NEW s \in Slots, NEW live
             PROVE  {item.entry : item \in {x \in ToSet(ServicesResponse(s, env, live)) : x.selected}}
                      = DefaultEntry(s, env, live)
  OBVIOUS
<1>1. PICK K : /\ Cloud[s] \in Seq(K \X CatalogueEntries(s))
               /\ LocalCatalog(s, env, live) \in Seq(K \X CatalogueEntries(s))
  BY CataloguesTyped
<1>2. PICK local : local = ReachableLocal(s, env, live)
  OBVIOUS
<1>3. PICK cloud : cloud = Cloud[s]
  OBVIOUS
<1>4. local \in Seq(K \X CatalogueEntries(s)) /\ cloud \in Seq(K \X CatalogueEntries(s))
  BY <1>1, <1>2, <1>3, ReachableTyped
<1>5. Starts(Merge(local, cloud), IF local # <<>> THEN local ELSE cloud)
  BY <1>4, MergedFirst
<1>6. DefaultEntry(s, env, live) = IF local # <<>> THEN {local[1][2]} ELSE IF cloud # <<>> THEN {cloud[1][2]} ELSE {}
  BY <1>2, <1>3, <1>5 DEF DefaultEntry, Effective, Starts
<1>7. {item.entry : item \in {x \in ToSet(ServicesResponse(s, env, live)) : x.selected}}
        = IF local # <<>> THEN {local[1][2]} ELSE IF cloud # <<>> THEN {cloud[1][2]} ELSE {}
  BY <1>2, <1>3, <1>4, FirstSelected
<1> QED BY <1>6, <1>7

-----------------------------------------------------------------------------
(* Two loaders, one catalogue: DefaultsAgree *)

(* The keys of the file that a section has, without those of variants.     *)
OwnIn(s, section) == {k \in OwnKeys(s) : \E i \in 1..Len(section) : section[i][1] = k}

(* For the keys of a slot, the position of the variant that answers first, *)
(* 0 if none does, and the entries that answer.                            *)
Answering(s, active, answering) ==
  \A k \in OwnKeys(s) :
    /\ active[k] \in 0..Len(Variants(s, k))
    /\ active[k] # 0 => Variants(s, k)[active[k]][2] \in answering
    /\ \A i \in 1..Len(Variants(s, k)) : Variants(s, k)[i][2] \in answering => active[k] # 0

(* What a section shows for a key of the file. *)
Shown(s, k, active) == Variants(s, k)[IF active[k] = 0 THEN 1 ELSE active[k]][2]

(* A variant that is not the active one stands behind the one that is.     *)
Ordered(s, section, active, answering) ==
  \A i \in 1..Len(section) :
    /\ section[i][1] \in OwnKeys(s) => section[i][2] = Shown(s, section[i][1], active)
    /\ \A k \in OwnKeys(s), name \in OwnNames(s) :
         section[i][1] = Suffixed(k, name) =>
           /\ section[i][2] \in answering => active[k] # 0
           /\ active[k] # 0 => \E q \in 1..Len(section) : q < i /\ section[q][1] = k

(* The position of a key holds that key. *)
LEMMA KeyPlace ==
  ASSUME NEW X, NEW section \in Seq(X), NEW k
  PROVE  /\ Position(section, k) \in 0..Len(section)
         /\ Position(section, k) # 0 => section[Position(section, k)][1] = k
<1> DEFINE n == Len(section)
           I == {i \in 1..n : section[i][1] = k}
           found == Position(section, k)
<1>1. n \in Nat
  OBVIOUS
<1>2. found = IF I # {} THEN Min(I) ELSE 0
  BY DEF Position, SelectInSeq
<1> HIDE DEF found
<1>3. I \in SUBSET (1..n) /\ \A i \in I : i \in 0..n /\ section[i][1] = k
  BY <1>1
<1> HIDE DEF I, n
<1>4. found = 0 \/ found \in I
  BY <1>1, <1>2, <1>3, MinIn
<1>5. 0 \in 0..n
  BY <1>1
<1>6. found \in 0..n /\ (found # 0 => section[found][1] = k)
  BY <1>3, <1>4, <1>5
<1> QED BY <1>6 DEF found, n

(* The one position that a Put touches. *)
Place(section, k) == IF Has(section, k) THEN Position(section, k) ELSE Len(section) + 1

LEMMA PutShape ==
  ASSUME NEW X, NEW section \in Seq(X), NEW k, NEW e, <<k, e>> \in X
  PROVE  /\ Place(section, k) \in 1..(Len(section) + 1)
         /\ Put(section, k, e)[Place(section, k)] = <<k, e>>
         /\ Len(Put(section, k, e)) = IF Place(section, k) <= Len(section) THEN Len(section) ELSE Place(section, k)
         /\ \A i \in 1..Len(section) : i # Place(section, k) => Put(section, k, e)[i] = section[i]
         /\ Place(section, k) <= Len(section) => section[Place(section, k)][1] = k
<1> DEFINE n == Len(section)
           found == Position(section, k)
<1>1. n \in Nat
  OBVIOUS
<1>2. found \in 0..n /\ (found # 0 => section[found][1] = k)
  BY KeyPlace
<1> HIDE DEF found
<1>3. CASE found # 0
  <2>1. Put(section, k, e) = [section EXCEPT ![found] = <<k, e>>] /\ Place(section, k) = found
    BY <1>3 DEF Put, Has, ReplaceAt, Place, found
  <2>2. found \in 1..n /\ found <= n
    BY <1>1, <1>2, <1>3
  <2>3. /\ Len([section EXCEPT ![found] = <<k, e>>]) = n
        /\ [section EXCEPT ![found] = <<k, e>>][found] = <<k, e>>
        /\ \A i \in 1..n : i # found => [section EXCEPT ![found] = <<k, e>>][i] = section[i]
    BY <2>2
  <2> QED BY <1>1, <1>2, <1>3, <2>1, <2>2, <2>3
<1>4. CASE found = 0
  <2>1. Put(section, k, e) = Append(section, <<k, e>>) /\ Place(section, k) = n + 1
    BY <1>4 DEF Put, Has, Place, found
  <2>2. /\ Len(Append(section, <<k, e>>)) = n + 1 /\ Append(section, <<k, e>>)[n + 1] = <<k, e>>
        /\ \A i \in 1..n : Append(section, <<k, e>>)[i] = section[i]
    OBVIOUS
  <2> QED BY <1>1, <2>1, <2>2
<1> QED BY <1>3, <1>4

(* What a key of the file shows is put under it. *)
LEMMA PutOwn ==
  ASSUME NEW s \in Slots, NEW active, NEW answering, NEW section \in Sections(s),
         Ordered(s, section, active, answering), NEW k \in OwnKeys(s),
         NEW e \in OwnEntries(s), e = Shown(s, k, active)
  PROVE  /\ Ordered(s, Put(section, k, e), active, answering)
         /\ OwnIn(s, Put(section, k, e)) = OwnIn(s, section) \cup {k}
<1>1. section \in Seq(AllKeys(s) \X OwnEntries(s)) /\ <<k, e>> \in AllKeys(s) \X OwnEntries(s)
  BY DEF Sections, AllKeys
<1> DEFINE after == Put(section, k, e)
           p == Place(section, k)
<1>2. /\ p \in 1..(Len(section) + 1) /\ after[p] = <<k, e>>
      /\ Len(after) = IF p <= Len(section) THEN Len(section) ELSE p
      /\ \A i \in 1..Len(section) : i # p => after[i] = section[i]
      /\ p <= Len(section) => section[p][1] = k
  BY <1>1, PutShape
<1> HIDE DEF after, p
<1>3. Len(section) \in Nat
  BY <1>1
<1>4. /\ Len(after) \in Nat /\ Len(section) <= Len(after) /\ p \in 1..Len(after)
      /\ \A i \in 1..Len(after) : i # p => i \in 1..Len(section) /\ after[i] = section[i]
      /\ \A i \in 1..Len(section) : i \in 1..Len(after) /\ after[i][1] = section[i][1]
  BY <1>2, <1>3
<1>5. OwnIn(s, after) = OwnIn(s, section) \cup {k}
  BY <1>2, <1>4 DEF OwnIn
<1>6. ASSUME NEW i \in 1..Len(after)
      PROVE  /\ after[i][1] \in OwnKeys(s) => after[i][2] = Shown(s, after[i][1], active)
             /\ \A other \in OwnKeys(s), name \in OwnNames(s) :
                  after[i][1] = Suffixed(other, name) =>
                    /\ after[i][2] \in answering => active[other] # 0
                    /\ active[other] # 0 => \E q \in 1..Len(after) : q < i /\ after[q][1] = other
  <2>1. CASE i = p
    <3>1. after[i][1] = k /\ after[i][2] = e
      BY <1>2, <2>1
    <3>2. \A other \in OwnKeys(s), name \in OwnNames(s) : Suffixed(other, name) # k
      BY SuffixAssumption
    <3> QED BY <3>1, <3>2
  <2>2. CASE i # p
    <3>1. i \in 1..Len(section) /\ after[i] = section[i]
      BY <1>4, <2>2
    <3>2. ASSUME NEW other \in OwnKeys(s), NEW name \in OwnNames(s), after[i][1] = Suffixed(other, name)
          PROVE  /\ after[i][2] \in answering => active[other] # 0
                 /\ active[other] # 0 => \E q \in 1..Len(after) : q < i /\ after[q][1] = other
      <4>1. /\ section[i][2] \in answering => active[other] # 0
            /\ active[other] # 0 => \E q \in 1..Len(section) : q < i /\ section[q][1] = other
        BY <3>1, <3>2 DEF Ordered
      <4> QED BY <1>4, <3>1, <4>1
    <3>3. section[i][1] \in OwnKeys(s) => section[i][2] = Shown(s, section[i][1], active)
      BY <3>1 DEF Ordered
    <3> QED BY <3>1, <3>2, <3>3
  <2> QED BY <2>1, <2>2
<1>7. Ordered(s, after, active, answering)
  BY <1>6 DEF Ordered
<1> QED BY <1>5, <1>7 DEF after

(* A variant is put under a key of its own, behind the one that is active. *)
LEMMA PutVariant ==
  ASSUME NEW s \in Slots, NEW active, NEW answering, NEW section \in Sections(s),
         Ordered(s, section, active, answering), NEW k \in OwnKeys(s), NEW name \in OwnNames(s),
         NEW e \in OwnEntries(s), e \in answering => active[k] # 0, active[k] # 0 => k \in OwnIn(s, section)
  PROVE  /\ Ordered(s, Put(section, Suffixed(k, name), e), active, answering)
         /\ OwnIn(s, Put(section, Suffixed(k, name), e)) = OwnIn(s, section)
<1>1. section \in Seq(AllKeys(s) \X OwnEntries(s)) 
      /\ <<Suffixed(k, name), e>> \in AllKeys(s) \X OwnEntries(s)
  BY DEF Sections, AllKeys
<1> DEFINE after == Put(section, Suffixed(k, name), e)
           p == Place(section, Suffixed(k, name))
<1>2. /\ p \in 1..(Len(section) + 1) /\ after[p] = <<Suffixed(k, name), e>>
      /\ Len(after) = IF p <= Len(section) THEN Len(section) ELSE p
      /\ \A i \in 1..Len(section) : i # p => after[i] = section[i]
      /\ p <= Len(section) => section[p][1] = Suffixed(k, name)
  BY <1>1, PutShape
<1> HIDE DEF after, p
<1>3. Len(section) \in Nat /\ Suffixed(k, name) \notin OwnKeys(s)
  BY <1>1, SuffixAssumption
<1>4. /\ Len(after) \in Nat /\ Len(section) <= Len(after) /\ p \in 1..Len(after)
      /\ \A i \in 1..Len(after) : i # p => i \in 1..Len(section) /\ after[i] = section[i]
      /\ \A i \in 1..Len(section) : i \in 1..Len(after) /\ after[i][1] = section[i][1]
  BY <1>2, <1>3
<1>5. OwnIn(s, after) = OwnIn(s, section)
  <2>1. ASSUME NEW other \in OwnKeys(s), NEW i \in 1..Len(after), after[i][1] = other
        PROVE  i \in 1..Len(section) /\ section[i][1] = other
    BY <1>2, <1>3, <1>4, <2>1
  <2> QED BY <1>4, <2>1 DEF OwnIn
<1>6. ASSUME NEW i \in 1..Len(after)
      PROVE  /\ after[i][1] \in OwnKeys(s) => after[i][2] = Shown(s, after[i][1], active)
             /\ \A other \in OwnKeys(s), second \in OwnNames(s) :
                  after[i][1] = Suffixed(other, second) =>
                    /\ after[i][2] \in answering => active[other] # 0
                    /\ active[other] # 0 => \E q \in 1..Len(after) : q < i /\ after[q][1] = other
  <2>1. CASE i = p
    <3>1. after[i][1] = Suffixed(k, name) /\ after[i][2] = e
      BY <1>2, <2>1
    <3>2. \A other \in OwnKeys(s), second \in OwnNames(s) : Suffixed(other, second) = Suffixed(k, name) => other = k
      BY SuffixAssumption
    <3>3. active[k] # 0 => \E q \in 1..Len(after) : q < i /\ after[q][1] = k
      <4> SUFFICES ASSUME active[k] # 0 PROVE \E q \in 1..Len(after) : q < i /\ after[q][1] = k
        OBVIOUS
      <4>1. CASE p <= Len(section)
        <5>1. p \in 1..Len(section) /\ section[p][1] = Suffixed(k, name)
          BY <1>2, <1>3, <4>1
        <5>2. \E q \in 1..Len(section) : q < p /\ section[q][1] = k
          BY <5>1 DEF Ordered
        <5> QED BY <1>4, <2>1, <5>2
      <4>2. CASE ~ (p <= Len(section))
        <5>1. PICK q \in 1..Len(section) : section[q][1] = k
          BY DEF OwnIn
        <5>2. q < p
          BY <1>2, <1>3, <4>2
        <5> QED BY <1>4, <2>1, <5>1, <5>2
      <4> QED BY <4>1, <4>2
    <3> QED BY <1>3, <3>1, <3>2, <3>3
  <2>2. CASE i # p
    <3>1. i \in 1..Len(section) /\ after[i] = section[i]
      BY <1>4, <2>2
    <3>2. ASSUME NEW other \in OwnKeys(s), NEW second \in OwnNames(s), after[i][1] = Suffixed(other, second)
          PROVE  /\ after[i][2] \in answering => active[other] # 0
                 /\ active[other] # 0 => \E q \in 1..Len(after) : q < i /\ after[q][1] = other
      <4>1. /\ section[i][2] \in answering => active[other] # 0
            /\ active[other] # 0 => \E q \in 1..Len(section) : q < i /\ section[q][1] = other
        BY <3>1, <3>2 DEF Ordered
      <4> QED BY <1>4, <3>1, <4>1
    <3>3. section[i][1] \in OwnKeys(s) => section[i][2] = Shown(s, section[i][1], active)
      BY <3>1 DEF Ordered
    <3> QED BY <3>1, <3>2, <3>3
  <2> QED BY <2>1, <2>2
<1>7. Ordered(s, after, active, answering)
  BY <1>6 DEF Ordered
<1> QED BY <1>5, <1>7 DEF after

(* A variant is active as soon as one answers. *)
LEMMA ActiveFirst ==
  ASSUME NEW X, NEW variants \in Seq(X), NEW runtime, NEW live, NEW loader, NEW active,
         active = ActiveVariant(variants, runtime, live, loader)
  PROVE  /\ active \in 0..Len(variants)
         /\ active # 0 => Available(Rewritten(variants[active][2], runtime, loader), live)
         /\ \A i \in 1..Len(variants) : Available(Rewritten(variants[i][2], runtime, loader), live) => active # 0
<1> DEFINE I == {i \in 1..Len(variants) : Available(Rewritten(variants[i][2], runtime, loader), live)}
           n == Len(variants)
<1>1. active = IF I # {} THEN Min(I) ELSE 0
  BY DEF ActiveVariant, SelectInSeq
<1>2. I \in SUBSET (1..n) /\ n \in Nat /\ \A i \in I : i \in 1..n /\ i # 0
  OBVIOUS
<1>3. \A i : i \in I <=> i \in 1..n /\ Available(Rewritten(variants[i][2], runtime, loader), live)
  OBVIOUS
<1> HIDE DEF I, n
<1>4. I # {} => active \in I
  BY <1>1, <1>2, MinIn
<1>5. active \in 0..n /\ (active # 0 => active \in I) /\ (I # {} => active # 0)
  <2>1. CASE I = {}
    BY <1>1, <1>2, <2>1
  <2>2. CASE I # {}
    <3>1. active \in I /\ active \in 1..n /\ active # 0
      BY <1>2, <1>4, <2>2
    <3> QED BY <1>2, <2>2, <3>1
  <2> QED BY <2>1, <2>2
<1>6. active # 0 => Available(Rewritten(variants[active][2], runtime, loader), live)
  BY <1>3, <1>5
<1>7. \A i \in 1..n : Available(Rewritten(variants[i][2], runtime, loader), live) => active # 0
  BY <1>3, <1>5
<1> QED BY <1>5, <1>6, <1>7 DEF n

(* One more key: the active variant first, if any, then the others.        *)
LEMMA JoinedOrdered ==
  ASSUME NEW s \in Slots, NEW active, NEW answering, Answering(s, active, answering),
         NEW section \in Sections(s), Ordered(s, section, active, answering), NEW k \in OwnKeys(s),
         NEW runtime, NEW live, NEW loader, active[k] = ActiveVariant(Variants(s, k), runtime, live, loader)
  PROVE  /\ Ordered(s, Joined(section, s, k, runtime, live, loader), active, answering)
         /\ OwnIn(s, Joined(section, s, k, runtime, live, loader))
              = OwnIn(s, section) \cup {own \in {k} : Same(Variants(s, own)) \/ active[own] # 0}
<1>. PICK variants : variants = Variants(s, k)
  OBVIOUS
<1>. PICK chosen : chosen = active[k]
  OBVIOUS
<1> DEFINE n == Len(variants)
<1>1. variants \in Seq(OwnNames(s) \X OwnEntries(s)) /\ variants # <<>>
  BY VariantsTyped
<1>2. /\ n \in Nat /\ DOMAIN variants = 1..n /\ 1 \in 1..n
      /\ \A i \in 1..n : variants[i][1] \in OwnNames(s) /\ variants[i][2] \in OwnEntries(s)
  BY <1>1
<1>3. /\ chosen \in 0..n /\ (chosen # 0 => variants[chosen][2] \in answering)
      /\ \A i \in 1..n : variants[i][2] \in answering => chosen # 0
  BY DEF Answering
<1>4. Shown(s, k, active) = variants[IF chosen = 0 THEN 1 ELSE chosen][2]
  BY DEF Shown
<1>5. CASE Same(variants)
  <2>1. variants[1][2] = Shown(s, k, active)
    <3>1. chosen # 0 => variants[chosen] \in ToSet(variants)
      BY <1>2, <1>3 DEF ToSet
    <3> QED BY <1>4, <1>5, <3>1 DEF Same
  <2>2. Joined(section, s, k, runtime, live, loader) = Put(section, k, variants[1][2])
    BY <1>5 DEF Joined
  <2>3. /\ Ordered(s, Put(section, k, variants[1][2]), active, answering)
        /\ OwnIn(s, Put(section, k, variants[1][2])) = OwnIn(s, section) \cup {k}
    BY <1>2, <2>1, PutOwn
  <2> QED BY <1>5, <2>2, <2>3
<1>6. CASE ~ Same(variants)
  <2>. PICK base : base = IF chosen = 0 THEN section ELSE Put(section, k, variants[chosen][2])
    OBVIOUS
  <2> DEFINE X == {x \in Sections(s) : Ordered(s, x, active, answering) /\ OwnIn(s, x) = OwnIn(s, base)}
  <2>1. /\ base \in Sections(s) /\ Ordered(s, base, active, answering)
        /\ OwnIn(s, base) = OwnIn(s, section) \cup {own \in {k} : chosen # 0}
    <3>1. CASE chosen = 0
      BY <3>1
    <3>2. CASE chosen # 0
      <4>1. chosen \in 1..n /\ variants[chosen][2] \in OwnEntries(s) /\ variants[chosen][2] = Shown(s, k, active)
        BY <1>2, <1>3, <1>4, <3>2
      <4>2. k \in AllKeys(s)
        BY DEF AllKeys
      <4>3. Put(section, k, variants[chosen][2]) \in Sections(s)
        BY <4>1, <4>2, PutKeeps DEF Sections
      <4>4. /\ Ordered(s, Put(section, k, variants[chosen][2]), active, answering)
            /\ OwnIn(s, Put(section, k, variants[chosen][2])) = OwnIn(s, section) \cup {k}
        BY <4>1, PutOwn
      <4> QED BY <3>2, <4>3, <4>4
    <3> QED BY <3>1, <3>2
  <2>2. ASSUME NEW i \in 1..n, NEW x \in X PROVE Put(x, Suffixed(k, variants[i][1]), variants[i][2]) \in X
    <3>1. /\ variants[i][1] \in OwnNames(s) /\ variants[i][2] \in OwnEntries(s)
          /\ variants[i][2] \in answering => active[k] # 0
      BY <1>2, <1>3
    <3>2. x \in Sections(s) /\ Ordered(s, x, active, answering) /\ OwnIn(s, x) = OwnIn(s, base)
      OBVIOUS
    <3>3. active[k] # 0 => k \in OwnIn(s, x)
      BY <2>1, <3>2
    <3>4. Suffixed(k, variants[i][1]) \in AllKeys(s)
      BY <3>1 DEF AllKeys
    <3>5. Put(x, Suffixed(k, variants[i][1]), variants[i][2]) \in Sections(s)
      BY <3>1, <3>2, <3>4, PutKeeps DEF Sections
    <3>6. /\ Ordered(s, Put(x, Suffixed(k, variants[i][1]), variants[i][2]), active, answering)
          /\ OwnIn(s, Put(x, Suffixed(k, variants[i][1]), variants[i][2])) = OwnIn(s, x)
      BY <3>1, <3>2, <3>3, PutVariant
    <3> QED BY <3>2, <3>5, <3>6
  <2>3. base \in X
    BY <2>1
  <2>4. Joined(section, s, k, runtime, live, loader) = Emitted(section, k, variants, chosen, loader)
    BY <1>6 DEF Joined
  <2>5. \A x \in X : Ordered(s, x, active, answering) /\ OwnIn(s, x) = OwnIn(s, base)
    OBVIOUS
  <2> HIDE DEF X
  <2>6. Emitted(section, k, variants, chosen, loader) \in X
    BY <1>2, <2>2, <2>3, EmittedStays
  <2> QED BY <1>6, <2>1, <2>4, <2>5, <2>6
<1> QED BY <1>5, <1>6

(* The whole section: its order, and the keys of the file it has, which do *)
(* not depend on the loader.                                               *)
LEMMA MergedOrdered ==
  ASSUME NEW s \in Slots, NEW active, NEW answering, Answering(s, active, answering),
         NEW runtime, NEW live, NEW loader,
         \A k \in OwnKeys(s) : active[k] = ActiveVariant(Variants(s, k), runtime, live, loader)
  PROVE  /\ Ordered(s, MergedSection(s, runtime, live, loader), active, answering)
         /\ OwnIn(s, MergedSection(s, runtime, live, loader))
              = {k \in ToSet(VariantKeys(s)) : Same(Variants(s, k)) \/ active[k] # 0}
<1>. PICK keys : keys = VariantKeys(s)
  OBVIOUS
<1> DEFINE n == Len(keys)
           Shows(k) == Same(Variants(s, k)) \/ active[k] # 0
           Joining(T) == {k \in {keys[i] : i \in T} : Shows(k)}
           Z == [T \in SUBSET (1..n) |->
                   {x \in Sections(s) : Ordered(s, x, active, answering) /\ OwnIn(s, x) = Joining(T)}]
<1>1. n \in Nat /\ DOMAIN keys = 1..n /\ \A i \in 1..n : keys[i] \in OwnKeys(s)
  BY VariantKeysTyped
<1>2. <<>> \in Z[{}]
  <2>1. Len(<<>>) = 0 /\ <<>> \in Sections(s)
    BY DEF Sections
  <2>2. Ordered(s, <<>>, active, answering) /\ OwnIn(s, <<>>) = {}
    BY <2>1 DEF Ordered, OwnIn
  <2> QED BY <2>1, <2>2
<1>3. ASSUME NEW T \in SUBSET (1..n), NEW section \in Sections(s), T # {}, section \in Z[T \ {Max(T)}]
      PROVE  Joined(section, s, keys[Max(T)], runtime, live, loader) \in Z[T]
  <2>1. Max(T) \in T /\ Max(T) \in 1..n
    <3> HIDE DEF n
    <3> QED BY <1>1, <1>3, MaxLast
  <2>. PICK last : last = Max(T)
    OBVIOUS
  <2>2. last \in T /\ keys[last] \in OwnKeys(s)
    BY <1>1, <2>1
  <2>3. Ordered(s, section, active, answering) /\ OwnIn(s, section) = Joining(T \ {last})
    BY <1>3
  <2>. PICK after : after = Joined(section, s, keys[last], runtime, live, loader)
    OBVIOUS
  <2>4. /\ Ordered(s, after, active, answering)
        /\ OwnIn(s, after) = OwnIn(s, section) \cup {own \in {keys[last]} : Shows(own)}
    BY <2>2, <2>3, JoinedOrdered
  <2>5. after \in Sections(s)
    BY <2>2, JoinedTyped
  <2>6. Joining(T) = Joining(T \ {last}) \cup {own \in {keys[last]} : Shows(own)}
    BY <2>2
  <2> QED BY <2>3, <2>4, <2>5, <2>6
<1>4. \A x \in Z[1..n] : Ordered(s, x, active, answering) /\ OwnIn(s, x) = Joining(1..n)
  OBVIOUS
<1>5. {keys[i] : i \in 1..n} = ToSet(keys)
  BY <1>1 DEF ToSet
<1> HIDE DEF Z
<1>6. MergedSection(s, runtime, live, loader) \in Z[1..n]
  BY <1>2, <1>3, MergedReaches
<1> QED BY <1>4, <1>5, <1>6

(* For what the file lists the two loaders rewrite alike. *)
LEMMA RewrittenAlike ==
  ASSUME NEW s \in Slots, NEW e \in OwnEntries(s), NEW runtime
  PROVE  Rewritten(e, runtime, "utils") = Rewritten(e, runtime, "registry")
<1>1. LoadedAddress("utils", e.server) = LoadedAddress("registry", e.server)
  BY AddressesAssumption DEF LoadedAddress
<1> QED BY <1>1 DEF Rewritten

(* So they find the same variant active. *)
LEMMA SameActive ==
  ASSUME NEW s \in Slots, NEW k \in OwnKeys(s), NEW runtime, NEW live
  PROVE  ActiveVariant(Variants(s, k), runtime, live, "utils") = ActiveVariant(Variants(s, k), runtime, live, "registry")
<1>. PICK variants : variants = Variants(s, k)
  OBVIOUS
<1> DEFINE Replying(loader) ==
             {i \in 1..Len(variants) : Available(Rewritten(variants[i][2], runtime, loader), live)}
<1>1. variants \in Seq(OwnNames(s) \X OwnEntries(s))
  BY VariantsTyped
<1>2. \A i \in 1..Len(variants) : variants[i][2] \in OwnEntries(s)
  BY <1>1
<1>3. Replying("utils") = Replying("registry")
  BY <1>2, RewrittenAlike
<1>4. \A loader : ActiveVariant(variants, runtime, live, loader)
                    = IF Replying(loader) # {} THEN Min(Replying(loader)) ELSE 0
  BY DEF ActiveVariant, SelectInSeq
<1> HIDE DEF Replying
<1> QED BY <1>3, <1>4

(* Without a platform: what the two sections have in common is what has a  *)
(* key of the file, and what answers first in the registry's.              *)
LEMMA MergedMeet ==
  ASSUME NEW s \in Slots, NEW runtime, NEW live,
         NEW i \in 1..Len(MergedSection(s, runtime, live, "registry")),
         LET registry == MergedSection(s, runtime, live, "registry")
             Answers(q) == Available(Rewritten(registry[q][2], runtime, "registry"), live)
         IN registry[i][1] \in OwnKeys(s) \/ (Answers(i) /\ \A q \in 1..Len(registry) : q < i => ~ Answers(q))
  PROVE  MergedSection(s, runtime, live, "registry")[i] \in ToSet(MergedSection(s, runtime, live, "utils"))
<1>. PICK registry : registry = MergedSection(s, runtime, live, "registry")
  OBVIOUS
<1>. PICK utils : utils = MergedSection(s, runtime, live, "utils")
  OBVIOUS
<1> DEFINE Answers(q) == Available(Rewritten(registry[q][2], runtime, "registry"), live)
           active == [k \in OwnKeys(s) |-> ActiveVariant(Variants(s, k), runtime, live, "registry")]
           answering == {e \in OwnEntries(s) : Available(Rewritten(e, runtime, "registry"), live)}
<1>1. registry \in Seq(AllKeys(s) \X OwnEntries(s)) /\ utils \in Seq(AllKeys(s) \X OwnEntries(s))
  BY MergedTyped DEF Sections
<1>2. Answering(s, active, answering)
  <2> SUFFICES ASSUME NEW k \in OwnKeys(s)
               PROVE  /\ active[k] \in 0..Len(Variants(s, k))
                      /\ active[k] # 0 => Variants(s, k)[active[k]][2] \in answering
                      /\ \A q \in 1..Len(Variants(s, k)) : Variants(s, k)[q][2] \in answering => active[k] # 0
    BY DEF Answering
  <2>. PICK variants : variants = Variants(s, k)
    OBVIOUS
  <2>. PICK chosen : chosen = ActiveVariant(variants, runtime, live, "registry")
    OBVIOUS
  <2>1. variants \in Seq(OwnNames(s) \X OwnEntries(s))
    BY VariantsTyped
  <2>2. \A q \in 1..Len(variants) : variants[q][2] \in OwnEntries(s)
    BY <2>1
  <2>3. /\ chosen \in 0..Len(variants)
        /\ chosen # 0 => Available(Rewritten(variants[chosen][2], runtime, "registry"), live)
        /\ \A q \in 1..Len(variants) : Available(Rewritten(variants[q][2], runtime, "registry"), live) => chosen # 0
    BY <2>1, ActiveFirst
  <2>4. chosen # 0 => chosen \in 1..Len(variants)
    BY <2>1, <2>3
  <2>5. active[k] = chosen
    OBVIOUS
  <2> QED BY <2>2, <2>3, <2>4, <2>5
<1>3. \A k \in OwnKeys(s) : /\ active[k] = ActiveVariant(Variants(s, k), runtime, live, "registry")
                            /\ active[k] = ActiveVariant(Variants(s, k), runtime, live, "utils")
  BY SameActive
<1>4. \A e \in OwnEntries(s) : e \in answering <=> Available(Rewritten(e, runtime, "registry"), live)
  OBVIOUS
<1> HIDE DEF active, answering
<1>5. /\ Ordered(s, registry, active, answering) /\ Ordered(s, utils, active, answering)
      /\ OwnIn(s, registry) = OwnIn(s, utils)
  <2>1. /\ Ordered(s, MergedSection(s, runtime, live, "registry"), active, answering)
        /\ OwnIn(s, MergedSection(s, runtime, live, "registry"))
             = {k \in ToSet(VariantKeys(s)) : Same(Variants(s, k)) \/ active[k] # 0}
    BY <1>2, <1>3, MergedOrdered
  <2>2. /\ Ordered(s, MergedSection(s, runtime, live, "utils"), active, answering)
        /\ OwnIn(s, MergedSection(s, runtime, live, "utils"))
             = {k \in ToSet(VariantKeys(s)) : Same(Variants(s, k)) \/ active[k] # 0}
    BY <1>2, <1>3, MergedOrdered
  <2> QED BY <2>1, <2>2
<1>6. \A q \in 1..Len(registry) : registry[q] = <<registry[q][1], registry[q][2]>> /\ registry[q][2] \in OwnEntries(s)
                                  /\ registry[q][1] \in AllKeys(s)
  BY <1>1
<1>7. DOMAIN utils = 1..Len(utils) /\ \A q \in 1..Len(utils) : utils[q] = <<utils[q][1], utils[q][2]>>
  BY <1>1
<1>8. ASSUME registry[i][1] \in OwnKeys(s)
      PROVE  registry[i] \in ToSet(utils)
  <2>1. registry[i][1] \in OwnIn(s, utils)
    BY <1>5, <1>8 DEF OwnIn
  <2>2. PICK j \in 1..Len(utils) : utils[j][1] = registry[i][1]
    BY <2>1 DEF OwnIn
  <2>3. utils[j][2] = Shown(s, registry[i][1], active) /\ registry[i][2] = Shown(s, registry[i][1], active)
    BY <1>5, <1>8, <2>2 DEF Ordered
  <2>4. utils[j] = registry[i]
    BY <1>6, <1>7, <2>2, <2>3
  <2> QED BY <1>7, <2>4 DEF ToSet
<1>9. ASSUME Answers(i), \A q \in 1..Len(registry) : q < i => ~ Answers(q), registry[i][1] \notin OwnKeys(s)
      PROVE  FALSE
  <2>1. PICK k \in OwnKeys(s), name \in OwnNames(s) : registry[i][1] = Suffixed(k, name)
    BY <1>6, <1>9 DEF AllKeys
  <2>2. registry[i][2] \in answering
    BY <1>4, <1>6, <1>9
  <2>3. active[k] # 0 /\ \E q \in 1..Len(registry) : q < i /\ registry[q][1] = k
    BY <1>5, <2>1, <2>2 DEF Ordered
  <2>4. PICK q \in 1..Len(registry) : q < i /\ registry[q][1] = k
    BY <2>3
  <2>5. registry[q][2] = Variants(s, k)[active[k]][2]
    BY <1>5, <2>3, <2>4 DEF Ordered, Shown
  <2>6. registry[q][2] \in answering
    BY <1>2, <2>3, <2>5 DEF Answering
  <2> QED BY <1>4, <1>6, <1>9, <2>4, <2>6
<1> QED BY <1>8, <1>9

(* On any platform, and after rewriting.                                   *)
LEMMA LoadersMeet ==
  ASSUME NEW s \in Slots, NEW runtime, NEW live, NEW i \in 1..Len(LocalSection(s, runtime, live, "registry")),
         LET local == LocalSection(s, runtime, live, "registry")
         IN \/ local[i][1] \in OwnKeys(s)
            \/ Available(local[i][2], live) /\ \A q \in 1..Len(local) : q < i => ~ Available(local[q][2], live)
  PROVE  LocalSection(s, runtime, live, "registry")[i] \in ToSet(LocalSection(s, runtime, live, "utils"))
<1> DEFINE Loaded(loader) == IF runtime.platform = Unset THEN MergedSection(s, runtime, live, loader)
                             ELSE PlatformSection(s, runtime.platform)
<1>. PICK registry : registry = Loaded("registry")
  OBVIOUS
<1>. PICK utils : utils = Loaded("utils")
  OBVIOUS
<1>1. registry \in Seq(AllKeys(s) \X OwnEntries(s)) /\ utils \in Seq(AllKeys(s) \X OwnEntries(s))
  BY MergedTyped, PlatformTyped DEF Sections
<1>2. /\ LocalSection(s, runtime, live, "registry") = RewrittenSection(registry, runtime, "registry")
      /\ LocalSection(s, runtime, live, "utils") = RewrittenSection(utils, runtime, "utils")
  BY DEF LocalSection
<1>3. /\ Len(registry) \in Nat /\ DOMAIN registry = 1..Len(registry)
      /\ Len(utils) \in Nat /\ DOMAIN utils = 1..Len(utils)
      /\ \A q \in 1..Len(registry) : registry[q][2] \in OwnEntries(s)
      /\ \A q \in 1..Len(utils) : utils[q][2] \in OwnEntries(s)
  BY <1>1
<1>. PICK local : local = LocalSection(s, runtime, live, "registry")
  OBVIOUS
<1>. PICK listed : listed = LocalSection(s, runtime, live, "utils")
  OBVIOUS
<1>4. /\ DOMAIN local = 1..Len(registry)
      /\ \A q \in 1..Len(registry) : local[q] = <<registry[q][1], Rewritten(registry[q][2], runtime, "registry")>>
  BY <1>2, <1>3 DEF RewrittenSection
<1>5. /\ DOMAIN listed = 1..Len(utils)
      /\ \A q \in 1..Len(utils) : listed[q] = <<utils[q][1], Rewritten(utils[q][2], runtime, "utils")>>
  BY <1>2, <1>3 DEF RewrittenSection
<1>6. Len(local) = Len(registry)
  BY <1>3, <1>4
<1>7. registry[i] \in ToSet(utils)
  <2>1. CASE runtime.platform = Unset
    <3>1. /\ registry = MergedSection(s, runtime, live, "registry")
          /\ utils = MergedSection(s, runtime, live, "utils")
      BY <2>1
    <3>2. \A q \in 1..Len(registry) : local[q][1] = registry[q][1]
                                      /\ local[q][2] = Rewritten(registry[q][2], runtime, "registry")
      BY <1>4
    <3>3. \/ registry[i][1] \in OwnKeys(s)
          \/ /\ Available(Rewritten(registry[i][2], runtime, "registry"), live)
             /\ \A q \in 1..Len(registry) :
                  q < i => ~ Available(Rewritten(registry[q][2], runtime, "registry"), live)
      BY <1>6, <3>2
    <3> QED BY <1>6, <3>1, <3>3, MergedMeet
  <2>2. CASE runtime.platform # Unset
    BY <1>3, <1>6, <2>2 DEF ToSet
  <2> QED BY <2>1, <2>2
<1>8. PICK j \in 1..Len(utils) : utils[j] = registry[i]
  BY <1>3, <1>7 DEF ToSet
<1>9. listed[j] = local[i]
  <2>1. Rewritten(registry[i][2], runtime, "utils") = Rewritten(registry[i][2], runtime, "registry")
    BY <1>3, <1>6, RewrittenAlike
  <2>2. local[i] = <<registry[i][1], Rewritten(registry[i][2], runtime, "registry")>>
    BY <1>4, <1>6
  <2>3. listed[j] = <<utils[j][1], Rewritten(utils[j][2], runtime, "utils")>>
    BY <1>5
  <2> QED BY <1>8, <2>1, <2>2, <2>3
<1> QED BY <1>5, <1>8, <1>9 DEF ToSet

(* Both catalogues are in the list, each entry under its own id. *)
LEMMA ItemsListed ==
  ASSUME NEW s, NEW live, NEW A, NEW B, ReachableLocal(s, env, live) \in Seq(A \X B), Cloud[s] \in Seq(A \X B)
  PROVE  /\ \A pair \in ToSet(ReachableLocal(s, env, live)) : \E item \in ToSet(ServicesResponse(s, env, live)) :
              item.id = [source |-> "self-hosted", key |-> pair[1]] /\ item.entry = pair[2]
         /\ \A pair \in ToSet(Cloud[s]) : \E item \in ToSet(ServicesResponse(s, env, live)) :
              item.id = [source |-> "cloud-nim", key |-> pair[1]] /\ item.entry = pair[2]
<1>. PICK local : local = ReachableLocal(s, env, live)
  OBVIOUS
<1>. PICK cloud : cloud = Cloud[s]
  OBVIOUS
<1>. PICK left : left = ApiEntries(local, "self-hosted")
  OBVIOUS
<1>. PICK right : right = ApiEntries(cloud, "cloud-nim")
  OBVIOUS
<1> DEFINE entries == left \o right
           Item(section, source, j) == [id |-> [source |-> source, key |-> section[j][1]],
                                        entry |-> section[j][2], selected |-> j = 1]
           Listed(x) == \E item \in ToSet(ServicesResponse(s, env, live)) : item.id = x.id /\ item.entry = x.entry
<1>1. /\ Len(local) \in Nat /\ DOMAIN local = 1..Len(local)
      /\ Len(cloud) \in Nat /\ DOMAIN cloud = 1..Len(cloud)
  OBVIOUS
<1>2. /\ left \in Seq(ToSet(left)) /\ Len(left) = Len(local)
      /\ \A j \in 1..Len(local) : left[j] = Item(local, "self-hosted", j)
  <2>1. left \in Seq(ToSet(left)) /\ Len(left) = Len(local)
    BY <1>1, ItemsInOrder
  <2> QED BY <1>1, <2>1 DEF ApiEntries
<1>3. /\ right \in Seq(ToSet(right)) /\ Len(right) = Len(cloud)
      /\ \A j \in 1..Len(cloud) : right[j] = Item(cloud, "cloud-nim", j)
  <2>1. right \in Seq(ToSet(right)) /\ Len(right) = Len(cloud)
    BY <1>1, ItemsInOrder
  <2> QED BY <1>1, <2>1 DEF ApiEntries
<1>4. /\ DOMAIN entries = 1..(Len(local) + Len(cloud))
      /\ \A j \in 1..Len(local) : entries[j] = left[j]
      /\ \A j \in 1..Len(cloud) : entries[Len(local) + j] = right[j]
  <2>1. PICK S, T : S = ToSet(left) /\ T = ToSet(right)
    OBVIOUS
  <2>2. Seq(S) \subseteq Seq(S \cup T) /\ Seq(T) \subseteq Seq(S \cup T)
    BY SeqMonotonic
  <2>3. left \in Seq(S \cup T) /\ right \in Seq(S \cup T)
    BY <1>2, <1>3, <2>1, <2>2
  <2>4. /\ entries \in Seq(S \cup T) /\ Len(entries) = Len(left) + Len(right)
        /\ \A j \in 1..(Len(left) + Len(right)) :
             entries[j] = IF j <= Len(left) THEN left[j] ELSE right[j - Len(left)]
    BY <2>3, ConcatProperties
  <2>5. DOMAIN entries = 1..Len(entries)
    BY <2>4
  <2>6. \A j \in 1..Len(local) : j \in 1..(Len(local) + Len(cloud)) /\ j <= Len(local)
    BY <1>1
  <2>7. \A j \in 1..Len(cloud) : /\ Len(local) + j \in 1..(Len(local) + Len(cloud)) /\ ~ (Len(local) + j <= Len(local))
                                 /\ (Len(local) + j) - Len(local) = j
    BY <1>1
  <2> HIDE DEF entries
  <2>8. DOMAIN entries = 1..(Len(local) + Len(cloud))
    BY <1>2, <1>3, <2>4, <2>5
  <2>9. \A j \in 1..Len(local) : entries[j] = left[j]
    BY <1>2, <1>3, <2>4, <2>6
  <2>10. \A j \in 1..Len(cloud) : entries[Len(local) + j] = right[j]
    BY <1>2, <1>3, <2>4, <2>7
  <2> QED BY <2>8, <2>9, <2>10
<1>5. PICK first : ServicesResponse(s, env, live)
                     = [j \in DOMAIN entries |-> [entries[j] EXCEPT !.selected = j = first]]
  BY DEF ServicesResponse
<1>6. ASSUME NEW section, NEW source, NEW q, NEW j \in DOMAIN entries, entries[j] = Item(section, source, q)
      PROVE  Listed(Item(section, source, q))
  <2>1. ServicesResponse(s, env, live)[j] = [entries[j] EXCEPT !.selected = j = first]
    BY <1>5, <1>6
  <2>2. /\ ServicesResponse(s, env, live)[j].id = Item(section, source, q).id
        /\ ServicesResponse(s, env, live)[j].entry = Item(section, source, q).entry
    BY <1>6, <2>1
  <2>3. ServicesResponse(s, env, live)[j] \in ToSet(ServicesResponse(s, env, live))
    <3> HIDE DEF entries
    <3> QED BY <1>5, <1>6 DEF ToSet
  <2> HIDE DEF Item
  <2> QED BY <2>2, <2>3
<1>7. ASSUME NEW j \in 1..Len(local) PROVE Listed(Item(local, "self-hosted", j))
  <2>1. j \in DOMAIN entries /\ entries[j] = Item(local, "self-hosted", j)
    BY <1>1, <1>2, <1>4
  <2> HIDE DEF Item, entries, Listed
  <2> QED BY <1>6, <2>1
<1>8. ASSUME NEW j \in 1..Len(cloud) PROVE Listed(Item(cloud, "cloud-nim", j))
  <2>1. Len(local) + j \in DOMAIN entries /\ entries[Len(local) + j] = Item(cloud, "cloud-nim", j)
    BY <1>1, <1>3, <1>4
  <2> HIDE DEF Item, entries, Listed
  <2> QED BY <1>6, <2>1
<1>9. ASSUME NEW pair \in ToSet(local)
      PROVE  \E item \in ToSet(ServicesResponse(s, env, live)) :
               item.id = [source |-> "self-hosted", key |-> pair[1]] /\ item.entry = pair[2]
  <2>1. PICK j \in 1..Len(local) : pair = local[j]
    BY <1>1 DEF ToSet
  <2> QED BY <1>7, <2>1
<1>10. ASSUME NEW pair \in ToSet(cloud)
       PROVE  \E item \in ToSet(ServicesResponse(s, env, live)) :
                item.id = [source |-> "cloud-nim", key |-> pair[1]] /\ item.entry = pair[2]
  <2>1. PICK j \in 1..Len(cloud) : pair = cloud[j]
    BY <1>1 DEF ToSet
  <2> QED BY <1>8, <2>1
<1> QED BY <1>9, <1>10

(* The pair at the position of a key. *)
LEMMA PairAt ==
  ASSUME NEW X, NEW section \in Seq(X), NEW k, Has(section, k),
         \A item \in X : item = <<item[1], item[2]>>
  PROVE  /\ Position(section, k) \in 1..Len(section)
         /\ section[Position(section, k)] = <<k, At(section, k)>>
<1> DEFINE found == Position(section, k)
<1>1. found \in 0..Len(section) /\ section[found][1] = k /\ found # 0
  BY KeyPlace DEF Has
<1> HIDE DEF found
<1>2. found \in 1..Len(section)
  BY <1>1
<1>3. section[found] = <<section[found][1], section[found][2]>>
  BY <1>2
<1> QED BY <1>1, <1>2, <1>3 DEF At, found

(* A default that is up, or in the cloud, is in the list of services.      *)
LEMMA DefaultListed ==
  ASSUME NEW s \in Slots, NEW live, NEW k \in ToSet(VariantKeys(s)), NEW p \in RegistryDefault(s, k, env, live),
         p.id.source = "cloud-nim" \/ Available(p.entry, live)
  PROVE  \E item \in ToSet(ServicesResponse(s, env, live)) : item.id = p.id /\ item.entry = p.entry
<1>. PICK local : local = RegistryLocal(s, env, live)
  OBVIOUS
<1>. PICK cloud : cloud = Cloud[s]
  OBVIOUS
<1> DEFINE Answers(i) == Available(local[i][2], live)
           I == {i \in 1..Len(local) : Answers(i)}
           first == IF I # {} THEN Min(I) ELSE 0
           Listed(x) == \E item \in ToSet(ServicesResponse(s, env, live)) : item.id = x.id /\ item.entry = x.entry
<1>1. PICK K : /\ cloud \in Seq(K \X CatalogueEntries(s))
               /\ LocalCatalog(s, env, live) \in Seq(K \X CatalogueEntries(s))
  BY CataloguesTyped
<1>2. ReachableLocal(s, env, live) \in Seq(K \X CatalogueEntries(s))
  BY <1>1, ReachableTyped
<1>3. /\ \A pair \in ToSet(ReachableLocal(s, env, live)) : \E item \in ToSet(ServicesResponse(s, env, live)) :
           item.id = [source |-> "self-hosted", key |-> pair[1]] /\ item.entry = pair[2]
      /\ \A pair \in ToSet(Cloud[s]) : \E item \in ToSet(ServicesResponse(s, env, live)) :
           item.id = [source |-> "cloud-nim", key |-> pair[1]] /\ item.entry = pair[2]
  BY <1>1, <1>2, ItemsListed
<1>4. PICK R : local \in Seq(AllKeys(s) \X R)
  <2> DEFINE section == IF env.platform = Unset THEN MergedSection(s, env, live, "registry")
                        ELSE PlatformSection(s, env.platform)
             R == {Rewritten(x, env, "registry") : x \in OwnEntries(s)}
  <2>1. section \in Seq(AllKeys(s) \X OwnEntries(s))
    BY MergedTyped, PlatformTyped DEF Sections
  <2>2. local = RewrittenSection(section, env, "registry")
    BY DEF RegistryLocal, LocalSection
  <2>3. \A x \in OwnEntries(s) : Rewritten(x, env, "registry") \in R
    OBVIOUS
  <2> HIDE DEF section, R
  <2>4. RewrittenSection(section, env, "registry") \in Seq(AllKeys(s) \X R)
    BY <2>1, <2>3, RewrittenTyped
  <2> QED BY <2>2, <2>4
<1>5. Len(local) \in Nat /\ \A i \in 1..Len(local) : local[i] = <<local[i][1], local[i][2]>>
  BY <1>4
<1>6. Has(local, k) => /\ Position(local, k) \in 1..Len(local)
                      /\ local[Position(local, k)] = <<k, At(local, k)>>
  <2>1. \A item \in AllKeys(s) \X R : item = <<item[1], item[2]>>
    OBVIOUS
  <2>. PICK X : X = AllKeys(s) \X R
    OBVIOUS
  <2> QED BY <1>4, <2>1, PairAt
<1>7. Has(cloud, k) => /\ Position(cloud, k) \in 1..Len(cloud)
                      /\ cloud[Position(cloud, k)] = <<k, At(cloud, k)>>
  <2>1. \A item \in K \X CatalogueEntries(s) : item = <<item[1], item[2]>>
    OBVIOUS
  <2>. PICK X : X = K \X CatalogueEntries(s)
    OBVIOUS
  <2> QED BY <1>1, <2>1, PairAt
<1>8. k \in OwnKeys(s)
  <2>1. VariantKeys(s) \in Seq(OwnKeys(s))
    BY VariantKeysTyped
  <2> QED BY <2>1 DEF ToSet
<1>9. ASSUME NEW i \in 1..Len(local), Answers(i),
             local[i][1] \in OwnKeys(s) \/ \A q \in 1..Len(local) : q < i => ~ Answers(q)
      PROVE  Listed(Payload("self-hosted", local[i][1], local[i][2]))
  <2>1. local = LocalSection(s, env, live, "registry")
    BY DEF RegistryLocal
  <2>2. local[i] \in ToSet(LocalSection(s, env, live, "utils"))
    BY <1>9, <2>1, LoadersMeet
  <2>3. local[i] \in ToSet(LocalCatalog(s, env, live))
    BY <2>2 DEF LocalCatalog
  <2>. PICK pair : pair = local[i]
    OBVIOUS
  <2>4. pair \in ToSet(LocalCatalog(s, env, live)) /\ Available(pair[2], live)
    BY <1>9, <2>3
  <2>5. pair \in ToSet(ReachableLocal(s, env, live))
    BY <1>1, <2>4, ReachableKeeps
  <2>6. \E item \in ToSet(ServicesResponse(s, env, live)) :
          item.id = [source |-> "self-hosted", key |-> pair[1]] /\ item.entry = pair[2]
    BY <1>3, <2>5
  <2> QED BY <2>6 DEF Payload
<1>10. ASSUME NEW i \in 1..Len(cloud)
      PROVE  Listed(Payload("cloud-nim", cloud[i][1], cloud[i][2]))
  <2>1. cloud[i] \in ToSet(Cloud[s])
    BY <1>1 DEF ToSet
  <2> QED BY <1>3, <2>1 DEF Payload
<1>11. /\ first \in 0..Len(local)
       /\ first # 0 => Answers(first) /\ \A q \in 1..Len(local) : q < first => ~ Answers(q)
  <2>1. I \in SUBSET (1..Len(local)) /\ \A i : i \in I <=> i \in 1..Len(local) /\ Answers(i)
    OBVIOUS
  <2> HIDE DEF I, Answers
  <2>2. I # {} => \E least \in I : \A i \in I : least <= i
    <3>1. I \subseteq Nat
      BY <2>1
    <3> QED BY <3>1, LeastElement
  <2>3. I # {} => first \in I /\ \A i \in I : first <= i
    BY <2>2 DEF Min
  <2>4. first # 0 => I # {}
    OBVIOUS
  <2>5. first = 0 \/ first \in I
    BY <2>3
  <2> HIDE DEF first
  <2>6. \A i \in 1..Len(local) : first <= i /\ i < first => FALSE
    BY <1>5, <2>1, <2>5
  <2> QED BY <1>5, <2>1, <2>3, <2>4, <2>5, <2>6
<1>12. RegistryDefault(s, k, env, live)
        = IF Has(local, k) /\ Available(At(local, k), live) THEN {Payload("self-hosted", k, At(local, k))}
          ELSE IF Has(local, k) /\ first # 0 THEN {Payload("self-hosted", local[first][1], local[first][2])}
          ELSE IF Has(cloud, k) THEN {Payload("cloud-nim", k, At(cloud, k))}
          ELSE IF ~Has(local, k) THEN {}
          ELSE IF cloud # <<>> THEN {Payload("cloud-nim", cloud[1][1], cloud[1][2])}
          ELSE {Payload("self-hosted", k, At(local, k))}
  BY DEF RegistryDefault, SelectInSeq
<1> HIDE DEF first, Listed
<1>13. CASE Has(local, k) /\ Available(At(local, k), live)
  <2>1. PICK i \in 1..Len(local) : local[i] = <<k, At(local, k)>>
    BY <1>6, <1>13
  <2>2. Listed(Payload("self-hosted", k, At(local, k)))
    BY <1>8, <1>9, <1>13, <2>1
  <2> QED BY <1>12, <1>13, <2>2 DEF Listed
<1>14. CASE Has(local, k) /\ ~ Available(At(local, k), live) /\ first # 0
  <2>1. first \in 1..Len(local) /\ Answers(first) /\ \A q \in 1..Len(local) : q < first => ~ Answers(q)
    <3>1. first \in 1..Len(local)
      BY <1>5, <1>11, <1>14
    <3> QED BY <1>11, <1>14, <3>1
  <2>2. Listed(Payload("self-hosted", local[first][1], local[first][2]))
    BY <1>9, <2>1
  <2> QED BY <1>12, <1>14, <2>2 DEF Listed
<1>15. CASE Has(cloud, k) /\ ~ (Has(local, k) /\ (Available(At(local, k), live) \/ first # 0))
  <2>1. PICK i \in 1..Len(cloud) : cloud[i] = <<k, At(cloud, k)>>
    BY <1>7, <1>15
  <2>2. Listed(Payload("cloud-nim", k, At(cloud, k)))
    BY <1>10, <2>1
  <2> QED BY <1>12, <1>15, <2>2 DEF Listed
<1>16. CASE /\ Has(local, k) /\ ~ Available(At(local, k), live) /\ first = 0
            /\ ~ Has(cloud, k) /\ cloud # <<>>
  <2>1. 1 \in 1..Len(cloud)
    BY <1>1, <1>16
  <2>2. Listed(Payload("cloud-nim", cloud[1][1], cloud[1][2]))
    BY <1>10, <2>1
  <2> QED BY <1>12, <1>16, <2>2 DEF Listed
<1>17. CASE /\ Has(local, k) /\ ~ Available(At(local, k), live) /\ first = 0
            /\ ~ Has(cloud, k) /\ cloud = <<>>
  <2>1. p = Payload("self-hosted", k, At(local, k))
    BY <1>12, <1>17
  <2> QED BY <1>17, <2>1 DEF Payload
<1>18. ~ (~ Has(local, k) /\ ~ Has(cloud, k))
  BY <1>12
<1> QED BY <1>13, <1>14, <1>15, <1>16, <1>17, <1>18

(* The service list, the session that chooses nothing and the deployment   *)
(* page name the same defaults, for all catalogues that fulfil the two     *)
(* assumptions, on any platform, inside Docker or out, whatever answers:   *)
(* the registry's loader repeats variants that the voice server's leaves   *)
(* out, but never ahead of the one that is active.                         *)
THEOREM DefaultsAlwaysAgree == Spec => []DefaultsAgree
<1>1. DefaultsAgree
  <2> SUFFICES ASSUME NEW s \in Slots
               PROVE  /\ {item.entry : item \in {x \in ToSet(ServicesResponse(s, env, Live)) : x.selected}}
                           = DefaultEntry(s, env, Live)
                      /\ \A k \in ToSet(VariantKeys(s)) : \A p \in RegistryDefault(s, k, env, Live) :
                           (p.id.source = "cloud-nim" \/ Available(p.entry, Live)) =>
                             \E item \in ToSet(ServicesResponse(s, env, Live)) :
                               item.id = p.id /\ item.entry = p.entry
    BY DEF DefaultsAgree
  <2> QED BY SelectedIsDefault, DefaultListed
<1> QED BY <1>1, PTL
=============================================================================
