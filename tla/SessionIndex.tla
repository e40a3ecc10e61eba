---------------------------- MODULE SessionIndex ----------------------------
(***************************************************************************)
(* The session index of the Pi agent service on disk                       *)
(* (pi-agent-service/src/server.mjs): the map from session keys to session *)
(* files, the creations and deletes that change it, the chain of writes    *)
(* that saves it, the removal of session files, and what a crash at any    *)
(* point leaves for the next process to load.                              *)
(*                                                                         *)
(* PiSessions has the same map as `files' and takes a write of it as one   *)
(* step that succeeds or fails.  This module has the steps of the write,   *)
(* and leaves out what the sessions do: any resident one may be busy.      *)
(*                                                                         *)
(* A session file is named by the creation that makes it; later creations  *)
(* of the same key open it again.  A crash is the                          *)
(* end of the process, by a signal or by shutdown(), which does not wait   *)
(* for writes; what the file system was told stays.                        *)
(***************************************************************************)
EXTENDS Naturals, Sequences

CONSTANTS
  Keys,        \* external session keys
  Saves,       \* creations of a session
  Drops,       \* DELETE requests
  ReadFaults,  \* whether reading the index file may fail at start-up
  None         \* null, undefined, "not in the map"

Ops == Saves \cup Drops
Maps == [Keys -> Saves \cup {None}]

ASSUME OpsAssumption == Saves \cap Drops = {}
ASSUME NoneAssumption == None \notin Saves
ASSUME FaultsAssumption == ReadFaults \in BOOLEAN

VARIABLES
  index,      \* key -> session file, in memory
  queue,      \* the calls whose write is chained on indexWrite, oldest first
  writing,    \* whether the write of the oldest one has started
  temporary,  \* what is being written to the temporary file
  disk,       \* the content of session-index.json
  resident,   \* keys with a session in memory
  broken,     \* session files that could not be opened
  erased,     \* session files removed by DELETE
  phase,      \* call -> where its handler is
  key,        \* call -> its key
  target,     \* creation -> its session file, DELETE -> the one it took out of the index
  versions,   \* history: every value of index since the process started
  durable,    \* history: which of them is on disk
  snapshot,   \* history: which of them is being written
  at          \* history: call -> which of them it made, or 0

files == <<temporary, disk, erased>>
calls == <<phase, key, target>>
history == <<versions, durable, snapshot, at>>
vars == <<index, queue, writing, resident, broken, files, calls, history>>

Empty == [k \in Keys |-> None]

Settled == {"saved", "erased", "kept"}
Phases == Settled \cup
  { "unsent",
    "opening",   \* creation: awaits createSession
    "unopened",  \* createSession failed, or the process died first
    "open",      \* the session is there and the index names its file already
    "stopping",  \* DELETE: awaits the abort of a busy session
    "queued",    \* awaits its write of the index
    "erasing",   \* DELETE: awaits rm
    "refused",   \* the write failed
    "lost" }     \* the process died first

TypeOK ==
  /\ index \in Maps
  /\ queue \in Seq(Ops)
  /\ writing \in BOOLEAN
  /\ writing => queue # <<>>
  /\ temporary \in Maps
  /\ disk \in Maps
  /\ resident \subseteq Keys
  /\ broken \subseteq Saves
  /\ erased \subseteq Saves
  /\ phase \in [Ops -> Phases]
  /\ key \in [Ops -> Keys \cup {None}]
  /\ target \in [Ops -> Saves \cup {None}]
  /\ versions \in Seq(Maps)
  /\ durable \in 1 .. Len(versions)
  /\ snapshot \in 1 .. Len(versions)
  /\ at \in [Ops -> Nat]

(* The first start, on an empty volume: ENOENT gives an empty map. *)
Init ==
  /\ index = Empty
  /\ queue = <<>>
  /\ writing = FALSE
  /\ temporary = Empty
  /\ disk = Empty
  /\ resident = {}
  /\ broken = {}
  /\ erased = {}
  /\ phase = [o \in Ops |-> "unsent"]
  /\ key = [o \in Ops |-> None]
  /\ target = [o \in Ops |-> None]
  /\ versions = <<Empty>>
  /\ durable = 1
  /\ snapshot = 1
  /\ at = [o \in Ops |-> 0]

-----------------------------------------------------------------------------
(* Changes of the map *)

SetEntry(k, file) ==
  /\ index' = [index EXCEPT ![k] = file]
  /\ versions' = Append(versions, index')

(* A call changes the entry of key k and chains a write. *)
Request(o, k, file) ==
  /\ SetEntry(k, file)
  /\ at' = [at EXCEPT ![o] = Len(versions) + 1]
  /\ phase' = [phase EXCEPT ![o] = "queued"]
  /\ key' = [key EXCEPT ![o] = k]
  /\ target' = [target EXCEPT ![o] = IF o \in Drops THEN index[k] ELSE file]
  /\ queue' = Append(queue, o)
  /\ UNCHANGED <<writing, broken, files, durable, snapshot>>

(* The index stays as it is. *)
Move(o, next) ==
  /\ phase' = [phase EXCEPT ![o] = next]
  /\ UNCHANGED <<index, queue, writing, broken, files, history>>

-----------------------------------------------------------------------------
(* Creations: a message for a key that has no session in memory *)

(* pendingSessions has the key: until createSession and, where the index   *)
(* changes, its write have ended.                                          *)
InProgress(k) == \E s \in Saves : key[s] = k /\ phase[s] \in {"opening", "queued"}

Opening(s, k) == phase[s] = "opening" /\ key[s] = k

(* The file that the index names is opened.  When there is none, a new one *)
(* is made; when it cannot be opened, its entry goes as well, and nothing  *)
(* is written until somebody else's change is.                             *)
OpenSession(s, k) ==
  /\ phase[s] = "unsent"
  /\ k \notin resident
  /\ ~InProgress(k)
  /\ phase' = [phase EXCEPT ![s] = "opening"]
  /\ key' = [key EXCEPT ![s] = k]
  /\ UNCHANGED <<queue, writing, resident, files, durable, snapshot, at>>
  /\ \/ /\ index[k] # None
        /\ target' = [target EXCEPT ![s] = index[k]]
        /\ UNCHANGED <<index, broken, versions>>
     \/ /\ index[k] = None
        /\ target' = [target EXCEPT ![s] = s]
        /\ UNCHANGED <<index, broken, versions>>
     \/ /\ index[k] # None
        /\ target' = [target EXCEPT ![s] = s]
        /\ broken' = broken \cup {index[k]}
        /\ SetEntry(k, None)

(* The session is there.  The index is read again: it names another file,  *)
(* or none, when the file is new or a DELETE that was stopping the session *)
(* before this one has dropped the entry.                                  *)
SessionOpened(s, k) ==
  /\ Opening(s, k)
  /\ resident' = resident \cup {k}
  /\ \/ /\ index[k] = target[s]
        /\ Move(s, "open")
        /\ UNCHANGED <<key, target>>
     \/ /\ index[k] # target[s]
        /\ Request(s, k, target[s])

SessionNotOpened(s) ==
  /\ phase[s] = "opening"
  /\ Move(s, "unopened")
  /\ UNCHANGED <<resident, key, target>>

(* evictIdleSessions, also while the entry of the session is written. *)
Evict(k) ==
  /\ k \in resident
  /\ resident' = resident \ {k}
  /\ UNCHANGED <<index, queue, writing, broken, files, calls, history>>

-----------------------------------------------------------------------------
(* DELETE: it awaits a creation of its key that is in progress first *)

(* The session is busy: it leaves the map, and its abort is awaited. *)
StopSession(d, k) ==
  /\ phase[d] = "unsent"
  /\ ~InProgress(k)
  /\ k \in resident
  /\ resident' = resident \ {k}
  /\ key' = [key EXCEPT ![d] = k]
  /\ Move(d, "stopping")
  /\ UNCHANGED target

(* No session, an idle one, or one that has stopped: by then another       *)
(* creation may be in progress or done.  The DELETE writes even if there   *)
(* is nothing to drop.                                                     *)
DropEntry(d, k) ==
  /\ \/ /\ phase[d] = "unsent"
        /\ ~InProgress(k)
        /\ resident' = resident \ {k}
     \/ /\ phase[d] = "stopping" /\ key[d] = k
        /\ UNCHANGED resident
  /\ Request(d, k, None)

-----------------------------------------------------------------------------
(* The chain of writes *)

(* The promise before it in the chain has settled, well or badly: the next *)
(* write takes the map as it is now, not as it was when it was asked for.  *)
MayStart_AfterSuccess == queue # <<>> /\ ~writing /\ \A o \in Ops : phase[o] # "refused"
MayStart == queue # <<>> /\ ~writing
StartWrite ==
  /\ MayStart
  /\ writing' = TRUE
  /\ temporary' = index
  /\ snapshot' = Len(versions)
  /\ UNCHANGED <<index, queue, resident, broken, disk, erased, calls, versions, durable, at>>

(* What the handlers of the calls whose write has ended do next. *)
Succeeded == [o \in Ops |-> IF o \in Saves THEN "saved" ELSE "erasing"]
Failed_Ignored == Succeeded
Failed == [o \in Ops |-> "refused"]

(* The calls that the end of a write resumes. *)
Resumed_WholeQueue == {queue[i] : i \in 1 .. Len(queue)}
Resumed == {Head(queue)}

WriteEnds(next) ==
  /\ writing
  /\ phase' = [o \in Ops |-> IF o \in Resumed THEN next[o] ELSE phase[o]]
  /\ queue' = Tail(queue)
  /\ writing' = FALSE
  /\ UNCHANGED <<index, resident, broken, temporary, erased, key, target, versions, snapshot, at>>

(* The temporary file was written and has replaced the index. *)
Renamed ==
  /\ WriteEnds(Succeeded)
  /\ disk' = temporary
  /\ durable' = snapshot

(* writeFile or rename fails. *)
WriteFails ==
  /\ WriteEnds(Failed)
  /\ UNCHANGED <<disk, durable>>

-----------------------------------------------------------------------------
(* The removal of a session file *)

Leave(d, next) ==
  /\ phase[d] = "erasing"
  /\ phase' = [phase EXCEPT ![d] = next]
  /\ UNCHANGED <<index, queue, writing, resident, broken, temporary, disk, key, target, history>>

FileErased(d) ==
  /\ Leave(d, "erased")
  /\ erased' = erased \cup ({target[d]} \ {None})

FileKept(d) ==
  /\ Leave(d, "kept")
  /\ UNCHANGED erased

-----------------------------------------------------------------------------
(* The process dies and the next one loads the index.  The temporary file  *)
(* is never read.  A read error other than ENOENT is logged, and the index *)
(* starts empty.                                                           *)
Loads_Nothing == {Empty}
Loads == {disk} \cup (IF ReadFaults THEN {Empty} ELSE {})
CrashAndRestart ==
  /\ index' \in Loads
  /\ queue' = <<>>
  /\ writing' = FALSE
  /\ resident' = {}
  /\ phase' = [o \in Ops |->
       IF phase[o] \in {"queued", "stopping", "erasing"} THEN "lost"
       ELSE IF phase[o] = "opening" THEN "unopened" ELSE phase[o]]
  /\ versions' = [v \in 1 .. durable |-> versions[v]]
  /\ snapshot' = durable
  /\ temporary' = Empty
  /\ at' = [o \in Ops |-> IF at[o] > durable THEN 0 ELSE at[o]]
  /\ UNCHANGED <<broken, disk, erased, key, target, durable>>

Next ==
  \/ \E s \in Saves, k \in Keys : OpenSession(s, k) \/ SessionOpened(s, k)
  \/ \E s \in Saves : SessionNotOpened(s)
  \/ \E k \in Keys : Evict(k)
  \/ \E d \in Drops, k \in Keys : StopSession(d, k) \/ DropEntry(d, k)
  \/ StartWrite
  \/ Renamed
  \/ WriteFails
  \/ \E d \in Drops : FileErased(d) \/ FileKept(d)
  \/ CrashAndRestart

Spec == Init /\ [][Next]_vars

(* The file system answers, well or badly. *)
FairSpec ==
  /\ Spec
  /\ WF_vars(StartWrite \/ Renamed \/ WriteFails)
  /\ \A d \in Drops : WF_vars(FileErased(d) \/ FileKept(d))

-----------------------------------------------------------------------------
(* Properties *)

(* A call that was answered with success finds its change on disk, in this *)
(* version of the index or in one that came after it, also after a crash.  *)
ConfirmedIsDurable ==
  \A o \in Ops : phase[o] \in Settled \cup {"erasing"} => at[o] \in 1 .. durable

(* A creation that had opened f found its entry gone when it was through,  *)
(* and put it back.                                                        *)
PutBack(f) ==
  \E s \in Saves \ {f} : target[s] = f /\ phase[s] \in {"queued", "saved", "refused", "lost"}

(* The index on disk names a session file that a DELETE removed only if a  *)
(* message had it open across that DELETE and put the entry back (257-260, *)
(* between a DELETE that waits for a busy session and its rm): otherwise   *)
(* the next process never opens a conversation that is gone, whichever     *)
(* writes fail and wherever the process dies.                              *)
NoDanglingEntry == \A k \in Keys : disk[k] = None \/ disk[k] \notin erased \/ PutBack(disk[k])

(* An entry leaves the disk only when a DELETE of its key asked for it or  *)
(* its file cannot be opened: calls for other keys, failed writes and      *)
(* crashes keep it (README.md:79, sessions survive service restarts).      *)
EntriesSurvive ==
  [][\A k \in Keys :
       disk[k] # None /\ disk'[k] # disk[k] =>
         disk[k] \in broken \/ \E d \in Drops : key[d] = k]_vars

(* Every write settles, or the process dies: a failed write never blocks   *)
(* the ones behind it.                                                     *)
EveryWriteSettles == \A o \in Ops : phase[o] = "queued" ~> phase[o] # "queued"

(* The index keeps the promise of DurableIndex. *)
Promise == INSTANCE DurableIndex WITH
  confirmed <- {o \in Ops : phase[o] \in Settled}
KeepsPromise == Promise!Spec

=============================================================================
