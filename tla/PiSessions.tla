----------------------------- MODULE PiSessions -----------------------------
(***************************************************************************)
(* The session manager of the Pi agent service                             *)
(* (pi-agent-service/src/server.mjs): the map of resident sessions, the    *)
(* map of creations in progress, and the HTTP handlers that share them.    *)
(*                                                                         *)
(* The service is one JavaScript thread.  A step of this module is what    *)
(* runs between two events of the event loop: a handler up to its next     *)
(* await on I/O, or everything that the settling of one promise resumes.   *)
(* Between two steps any other handler may run.                            *)
(*                                                                         *)
(* A session record, and the .jsonl file that it may create, is named by   *)
(* the message request that created it.                                    *)
(***************************************************************************)
EXTENDS Naturals, FiniteSets

CONSTANTS
  Keys,         \* external session keys
  Messages,     \* POST /sessions/<key>/messages requests, each made once
  Deletes,      \* DELETE /sessions/<key> requests, each made once
  MaxSessions,  \* maxResidentSessions, from PI_MAX_SESSIONS
  None          \* null, undefined, "not in the map"

Calls == Messages \cup Deletes

ASSUME CallsAssumption == Messages \cap Deletes = {}
ASSUME NoneAssumption == None \notin Calls /\ None \notin Keys
ASSUME MaxAssumption == MaxSessions \in Nat \ {0}

VARIABLES
  sessions,   \* key -> resident record
  pending,    \* key -> owner of the creation in progress
  files,      \* key -> session file, the index as held in memory
  removed,    \* session files deleted from the disk
  phase,      \* call -> where its handler is, or the status it replied
  key,        \* call -> the key in its URL
  record,     \* call -> the record its handler holds
  fileOf,     \* record -> its session file
  serving,    \* record -> activeRequestId (None: not busy)
  aborting,   \* records whose run has been told to abort
  made,       \* records whose AgentSession was created
  disposed    \* records whose AgentSession has been disposed

calls == <<phase, key, record>>
records == <<fileOf, serving, aborting, made, disposed>>
vars == <<sessions, pending, files, removed, calls, records>>

Replies == {"200", "409", "500", "503"}
MessagePhases == Replies \cup
  { "unsent",
    "opening",   \* owns a creation, awaits createSession
    "saving",    \* owns a creation, awaits persistSessionIndex
    "waiting",   \* awaits a creation that another message owns
    "running" }  \* awaits session.prompt
DeletePhases == Replies \cup
  { "unsent",
    "joining",   \* awaits a creation in progress
    "stopping",  \* awaits the abort of a busy session
    "erasing" }  \* awaits persistSessionIndex and rm

Resident == {k \in Keys : sessions[k] # None}
Creating == {k \in Keys : pending[k] # None}
Occupancy == Cardinality(Resident) + Cardinality(Creating)
Busy(r) == serving[r] # None

(* Room for one more session once the sessions of the keys E are released. *)
HasRoom_OffByOne(E) == Occupancy - Cardinality(E) <= MaxSessions
HasRoom(E) == Occupancy - Cardinality(E) < MaxSessions
BusyAt(k) == sessions[k] # None /\ Busy(sessions[k])
Idle == {k \in Resident : ~BusyAt(k)}

TypeOK ==
  /\ sessions \in [Keys -> Messages \cup {None}]
  /\ pending \in [Keys -> Messages \cup {None}]
  /\ files \in [Keys -> Messages \cup {None}]
  /\ removed \subseteq Messages
  /\ phase \in [Calls -> MessagePhases \cup DeletePhases]
  /\ \A m \in Messages : phase[m] \in MessagePhases
  /\ \A d \in Deletes : phase[d] \in DeletePhases
  /\ key \in [Calls -> Keys \cup {None}]
  /\ record \in [Calls -> Messages \cup {None}]
  /\ fileOf \in [Messages -> Messages \cup {None}]
  /\ serving \in [Messages -> Messages \cup {None}]
  /\ aborting \subseteq Messages
  /\ made \subseteq Messages
  /\ disposed \subseteq Messages

Init ==
  /\ sessions = [k \in Keys |-> None]
  /\ pending = [k \in Keys |-> None]
  /\ files = [k \in Keys |-> None]
  /\ removed = {}
  /\ phase = [c \in Calls |-> "unsent"]
  /\ key = [c \in Calls |-> None]
  /\ record = [c \in Calls |-> None]
  /\ fileOf = [m \in Messages |-> None]
  /\ serving = [m \in Messages |-> None]
  /\ aborting = {}
  /\ made = {}
  /\ disposed = {}

-----------------------------------------------------------------------------
(* Eviction and disposal *)

(***************************************************************************)
(* The sets of keys that evictIdleSessions may release.  It walks the idle *)
(* sessions; it releases the expired ones and, when room is needed, each   *)
(* one it meets while there is none.  Its order, least recently used       *)
(* first, is left open, and any time may pass between two steps, so any    *)
(* idle session may have expired, except one whose own creation is still   *)
(* being saved: an index write is far shorter than the idle time limit.    *)
(***************************************************************************)
EvictionChoices(forCapacity) ==
  { E \in SUBSET Idle :
      /\ forCapacity => HasRoom(E) \/ E = Idle
      /\ E \cap Creating # {} => /\ forCapacity
                                 /\ Occupancy - Cardinality(E) >= MaxSessions - 1 }

(* disposeRecord for the idle sessions of the keys E. *)
Release(E) ==
  /\ sessions' = [k \in Keys |-> IF k \in E THEN None ELSE sessions[k]]
  /\ disposed' = disposed \cup {sessions[k] : k \in E}

(* The eviction timer. *)
EvictExpired ==
  \E E \in EvictionChoices(FALSE) \ {{}} :
    /\ Release(E)
    /\ UNCHANGED <<pending, files, removed, calls, fileOf, serving, aborting, made>>

-----------------------------------------------------------------------------
(* POST /sessions/<key>/messages *)

InProgress_Never(k) == FALSE
InProgress(k) == pending[k] # None

Receive(c, k, next) ==
  /\ phase[c] = "unsent"
  /\ key' = [key EXCEPT ![c] = k]
  /\ phase' = [phase EXCEPT ![c] = next]

(* A resident session is taken, or refused while it serves another call. *)
PostMessageToResident(m, k) ==
  LET r == sessions[k] IN
  /\ r # None
  /\ UNCHANGED <<sessions, pending, files, removed, fileOf, aborting, made, disposed>>
  /\ \/ /\ Busy(r)
        /\ Receive(m, k, "409")
        /\ UNCHANGED <<record, serving>>
     \/ /\ ~Busy(r)
        /\ Receive(m, k, "running")
        /\ record' = [record EXCEPT ![m] = r]
        /\ serving' = [serving EXCEPT ![r] = m]

(* A creation for the same key is in progress: its promise is shared. *)
PostMessageToPending(m, k) ==
  /\ sessions[k] = None
  /\ InProgress(k)
  /\ Receive(m, k, "waiting")
  /\ UNCHANGED <<sessions, pending, files, removed, record, records>>

(* Neither: make room, then refuse or start a creation.  A saved file that *)
(* cannot be opened is dropped from the index and a new one is used.       *)
PostMessageCreates(m, k) ==
  /\ sessions[k] = None
  /\ ~InProgress(k)
  /\ \E E \in EvictionChoices(TRUE) :
       /\ Release(E)
       /\ UNCHANGED <<removed, record, serving, aborting, made>>
       /\ \/ /\ ~HasRoom(E)
             /\ Receive(m, k, "503")
             /\ UNCHANGED <<pending, files, fileOf>>
          \/ /\ HasRoom(E)
             /\ Receive(m, k, "opening")
             /\ pending' = [pending EXCEPT ![k] = m]
             /\ \/ /\ files[k] # None
                   /\ fileOf' = [fileOf EXCEPT ![m] = files[k]]
                   /\ UNCHANGED files
                \/ /\ fileOf' = [fileOf EXCEPT ![m] = m]
                   /\ files' = [files EXCEPT ![k] = None]

PostMessage(m, k) ==
  \/ PostMessageToResident(m, k)
  \/ PostMessageToPending(m, k)
  \/ PostMessageCreates(m, k)

-----------------------------------------------------------------------------
(* The end of a creation *)

(* The calls for key k that await its creation. *)
Sharing_AnyKey(k, awaits) == {c \in Calls : phase[c] = awaits}
Sharing(k, awaits) == {c \in Calls : phase[c] = awaits /\ key[c] = k}

(* The ways to pick one element of S, as singletons; {} when S is empty. *)
Pick(S) == IF S = {} THEN {{}} ELSE {{x} : x \in S}

(* Another message found the record resident while it was being saved. *)
TakenByOther_Unchecked(m) == FALSE
TakenByOther(m) == Busy(m)

(* The calls that the creation resumes, and what each one does first. *)
Resume(m, k, index, stopper, eraser) ==
  /\ phase' = [c \in Calls |->
       IF c = m THEN (IF TakenByOther(m) THEN "409" ELSE "running")
       ELSE IF c \in Sharing(k, "waiting") THEN "409"
       ELSE IF c \in stopper THEN "stopping"
       ELSE IF c \in Sharing(k, "joining") THEN "erasing"
       ELSE phase[c]]
  /\ record' = [c \in Calls |->
       IF c \in stopper \/ (c = m /\ ~TakenByOther(m)) THEN m
       ELSE IF c \in eraser THEN index[k]
       ELSE record[c]]
  /\ aborting' = IF stopper = {} THEN aborting ELSE aborting \cup {m}
  /\ files' = IF eraser = {} THEN index ELSE [index EXCEPT ![k] = None]

(***************************************************************************)
(* The creation promise of key k resolves to record m.  Its reactions run  *)
(* before any other event.  The entry of pendingSessions goes.  The first  *)
(* DELETE that joined disposes of the session if it is still resident, or  *)
(* starts to stop it when another message is already using it; the other   *)
(* ones drop the key from the index.  Last, the owner takes the record,    *)
(* resident or not, unless another message did, and the messages that      *)
(* share the promise find it busy.                                         *)
(***************************************************************************)
Resolve(m, k, index, resident) ==
  LET deleters == Sharing(k, "joining")
      live == resident[k] = m
      busy == TakenByOther(m) IN
  /\ pending' = [pending EXCEPT ![k] = None]
  /\ sessions' = IF deleters = {} THEN resident ELSE [resident EXCEPT ![k] = None]
  /\ disposed' = IF deleters # {} /\ live /\ ~busy THEN disposed \cup {m} ELSE disposed
  /\ serving' = IF busy THEN serving ELSE [serving EXCEPT ![m] = m]
  /\ made' = made \cup {m}
  /\ \E stopper \in Pick(IF live /\ busy THEN deleters ELSE {}) :
     \E eraser \in Pick(deleters \ stopper) :
       Resume(m, k, index, stopper, eraser)
  /\ UNCHANGED <<removed, key, fileOf>>

(* The creation promise rejects: so does every call that awaits it. *)
Reject_NoFinally(m, k) ==
  /\ phase' = [c \in Calls |->
       IF c = m \/ c \in Sharing(k, "waiting") \cup Sharing(k, "joining")
         THEN "500" ELSE phase[c]]
  /\ UNCHANGED <<sessions, pending, files, removed, key, record, records>>
Reject(m, k) ==
  /\ pending' = [pending EXCEPT ![k] = None]
  /\ phase' = [c \in Calls |->
       IF c = m \/ c \in Sharing(k, "waiting") \cup Sharing(k, "joining")
         THEN "500" ELSE phase[c]]
  /\ UNCHANGED <<sessions, files, removed, key, record, records>>

Indexed_Assumed(m) == TRUE
Indexed(m) == files[key[m]] = fileOf[m]

(* createSession returns: the record becomes resident, and the index is    *)
(* saved first when it does not name the session's file yet.               *)
SessionOpened(m) ==
  LET k == key[m]
      resident == [sessions EXCEPT ![k] = m] IN
  /\ phase[m] = "opening"
  /\ \/ /\ Indexed(m)
        /\ Resolve(m, k, files, resident)
     \/ /\ ~Indexed(m)
        /\ sessions' = resident
        /\ files' = [files EXCEPT ![k] = fileOf[m]]
        /\ phase' = [phase EXCEPT ![m] = "saving"]
        /\ made' = made \cup {m}
        /\ UNCHANGED <<pending, removed, key, record, fileOf, serving, aborting, disposed>>

SessionNotOpened(m) ==
  /\ phase[m] = "opening"
  /\ Reject(m, key[m])

IndexSaved(m) ==
  /\ phase[m] = "saving"
  /\ Resolve(m, key[m], files, sessions)

IndexNotSaved(m) ==
  /\ phase[m] = "saving"
  /\ Reject(m, key[m])

-----------------------------------------------------------------------------
(* Runs and how they are stopped *)

(* session.prompt settles: the reply goes out and the record is idle. *)
PromptEnds(m) ==
  LET r == record[m] IN
  /\ phase[m] = "running"
  /\ \E status \in {"200", "500"} \cup (IF r \in aborting THEN {"409"} ELSE {}) :
       phase' = [phase EXCEPT ![m] = status]
  /\ serving' = [serving EXCEPT ![r] = None]
  /\ aborting' = aborting \ {r}
  /\ UNCHANGED <<sessions, pending, files, removed, key, record, fileOf, made, disposed>>

(* POST /sessions/<key>/abort: the resident session, if busy, is aborted   *)
(* whatever request it serves.                                             *)
PostAbort(k) ==
  /\ BusyAt(k)
  /\ aborting' = aborting \cup {sessions[k]}
  /\ UNCHANGED <<sessions, pending, files, removed, calls,
                 fileOf, serving, made, disposed>>

(* The client closes the connection while the prompt runs.  An earlier     *)
(* close is not heard: the handler starts to listen when the run starts.   *)
Disconnect(m) ==
  /\ phase[m] = "running"
  /\ serving[record[m]] = m
  /\ aborting' = aborting \cup {record[m]}
  /\ UNCHANGED <<sessions, pending, files, removed, calls,
                 fileOf, serving, made, disposed>>

-----------------------------------------------------------------------------
(* DELETE /sessions/<key> *)

(* The index entry goes; the file it named is remembered for rm. *)
DropIndexEntry(d, k) ==
  /\ files' = [files EXCEPT ![k] = None]
  /\ record' = [record EXCEPT ![d] = files[k]]

Held_Unchecked(k) == {k}
Held(k) == {k} \cap Resident

PostDelete(d, k) ==
  LET r == sessions[k] IN
  /\ UNCHANGED <<pending, removed, fileOf, serving, made>>
  /\ \/ /\ InProgress(k)
        /\ Receive(d, k, "joining")
        /\ UNCHANGED <<sessions, files, record, aborting, disposed>>
     \/ /\ ~InProgress(k)
        /\ \/ /\ BusyAt(k)
              /\ Receive(d, k, "stopping")
              /\ sessions' = [sessions EXCEPT ![k] = None]
              /\ record' = [record EXCEPT ![d] = r]
              /\ aborting' = aborting \cup {r}
              /\ UNCHANGED <<files, disposed>>
           \/ /\ ~BusyAt(k)
              /\ Receive(d, k, "erasing")
              /\ Release(Held(k))
              /\ DropIndexEntry(d, k)
              /\ UNCHANGED aborting

(* session.abort returned once the run had ended. *)
SessionStopped(d) ==
  LET k == key[d] IN
  /\ phase[d] = "stopping"
  /\ ~Busy(record[d])
  /\ phase' = [phase EXCEPT ![d] = "erasing"]
  /\ disposed' = disposed \cup {record[d]}
  /\ DropIndexEntry(d, k)
  /\ UNCHANGED <<sessions, pending, removed, key,
                 fileOf, serving, aborting, made>>

(* The index was saved: the file is removed. *)
Erased(d) ==
  /\ phase[d] = "erasing"
  /\ phase' = [phase EXCEPT ![d] = "200"]
  /\ removed' = removed \cup ({record[d]} \ {None})
  /\ UNCHANGED <<sessions, pending, files, key, record, records>>

(* The index was not saved, or the file not removed. *)
NotErased(d) ==
  /\ phase[d] = "erasing"
  /\ phase' = [phase EXCEPT ![d] = "500"]
  /\ UNCHANGED <<sessions, pending, files, removed, key, record, records>>

-----------------------------------------------------------------------------
MessageStep(m) ==
  \/ \E k \in Keys : PostMessage(m, k)
  \/ SessionOpened(m)
  \/ SessionNotOpened(m)
  \/ IndexSaved(m)
  \/ IndexNotSaved(m)
  \/ PromptEnds(m)
  \/ Disconnect(m)

DeleteStep(d) ==
  \/ \E k \in Keys : PostDelete(d, k)
  \/ SessionStopped(d)
  \/ Erased(d)
  \/ NotErased(d)

Next ==
  \/ EvictExpired
  \/ \E k \in Keys : PostAbort(k)
  \/ \E m \in Messages : MessageStep(m)
  \/ \E d \in Deletes : DeleteStep(d)

Spec == Init /\ [][Next]_vars

(***************************************************************************)
(* Opening a session and writing a file end, well or badly, and so does a  *)
(* prompt: the provider's stream ends or fails, and is retried twice.      *)
(***************************************************************************)
Fairness ==
  /\ \A m \in Messages :
       /\ WF_vars(SessionOpened(m) \/ SessionNotOpened(m))
       /\ WF_vars(IndexSaved(m) \/ IndexNotSaved(m))
       /\ WF_vars(PromptEnds(m))
  /\ \A d \in Deletes :
       /\ WF_vars(SessionStopped(d))
       /\ WF_vars(Erased(d) \/ NotErased(d))

FairSpec == Spec /\ Fairness

-----------------------------------------------------------------------------
(* Safety *)

(* The keys that are resident or being created never exceed the configured *)
(* maximum, although createPrimarySession checks it before its awaits and  *)
(* a session is in both maps while its index entry is written.             *)
ResidencyBound == Cardinality(Resident \cup Creating) <= MaxSessions

(* A record is busy for exactly the call that runs a prompt on it: no two  *)
(* prompts share a session, and no session stays busy, answering 409 for   *)
(* ever, once its call is gone.                                            *)
BusyMeansRunning ==
  \A m \in Messages :
    /\ phase[m] = "running" => serving[record[m]] = m
    /\ Busy(m) => phase[serving[m]] = "running" /\ record[serving[m]] = m

(* A call that awaits a creation has one in progress for its key, owned by *)
(* a message that is still at work: nothing strands the calls that share a *)
(* promise.                                                                *)
CreationOwned ==
  /\ \A k \in Keys : pending[k] # None =>
       phase[pending[k]] \in {"opening", "saving"} /\ key[pending[k]] = k
  /\ \A c \in Calls : phase[c] \in {"opening", "saving", "waiting", "joining"} =>
       pending[key[c]] # None

(* Every session ever made is resident under its own key, disposed, or     *)
(* about to be disposed by the DELETE that stops it: whatever the order of *)
(* creations, evictions and deletes, no AgentSession is lost undisposed.   *)
NoSessionLost ==
  \A m \in Messages : m \in made /\ m \notin disposed =>
    \/ sessions[key[m]] = m
    \/ \E d \in Deletes : phase[d] = "stopping" /\ record[d] = m

(* A conversation is only ever served by sessions and files of its own     *)
(* key, however calls for different keys interleave.                       *)
ConversationsIsolated ==
  /\ \A k \in Keys : sessions[k] # None => key[sessions[k]] = k
  /\ \A k \in Keys : files[k] # None => key[files[k]] = k
  /\ \A c \in Calls : record[c] # None => key[record[c]] = key[c]

(* The in-memory index names the file of every resident session of a key   *)
(* that nobody deletes, so that the next index write saves it.             *)
ResidentIsIndexed ==
  \A k \in Keys :
    sessions[k] # None /\ (\A d \in Deletes : key[d] # k) => files[k] = fileOf[sessions[k]]

(* Liveness *)

(* Every call gets a reply: no cycle of calls awaiting each other, no      *)
(* promise that nobody settles.                                            *)
EveryCallAnswered ==
  \A c \in Calls : phase[c] # "unsent" ~> phase[c] \in Replies

-----------------------------------------------------------------------------
(* What the documentation says, and the code does not do *)

(* README.md:79: idle sessions are released from memory.  A session that   *)
(* serves a request is therefore never a released one.                     *)
ReleasedSessionsAreIdle ==
  \A m \in Messages : phase[m] = "running" => record[m] \notin disposed

(* README.md:79: primary session files survive, and sessions are restored  *)
(* on demand.  A resident session therefore has its file, and an index     *)
(* entry that finds it.                                                    *)
ResidentIsRestorable ==
  \A k \in Keys : sessions[k] # None =>
    files[k] = fileOf[sessions[k]] /\ fileOf[sessions[k]] \notin removed

=============================================================================
