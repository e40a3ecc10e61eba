-------------------------- MODULE PiSessionsProofs --------------------------
(***************************************************************************)
(* Theorems about PiSessions, for every set of keys and requests and every *)
(* capacity.                                                               *)
(***************************************************************************)
EXTENDS PiSessions, FiniteSetTheorems, TLAPS

(* What a handler holds: the key of a call that has arrived, the record of *)
(* a call that uses one.                                                   *)
HandlersTyped ==
  /\ \A c \in Calls : phase[c] # "unsent" => key[c] \in Keys
  /\ \A c \in Calls : phase[c] \in {"running", "stopping"} => record[c] \in Messages

Typed == TypeOK /\ HandlersTyped

LEMMA ReleaseTyped ==
  ASSUME TypeOK, NEW E \in SUBSET Resident, Release(E)
  PROVE  /\ sessions' \in [Keys -> Messages \cup {None}]
         /\ disposed' \subseteq Messages
BY DEF TypeOK, Release, Resident

LEMMA ResolveTyped ==
  ASSUME Typed, NEW m \in Messages, NEW k \in Keys,
         NEW index \in [Keys -> Messages \cup {None}],
         NEW resident \in [Keys -> Messages \cup {None}],
         phase[m] # "unsent", Resolve(m, k, index, resident)
  PROVE  Typed'
<1> DEFINE deleters == Sharing(k, "joining")
<1>1. PICK stopper \in SUBSET deleters, eraser \in SUBSET deleters :
        stopper \cap eraser = {} /\ Resume(m, k, index, stopper, eraser)
  BY DEF Resolve, Pick
<1>2. m \in Calls /\ \A c \in deleters : c \in Calls /\ phase[c] = "joining"
  BY DEF Calls, Sharing
<1>3. /\ sessions' \in [Keys -> Messages \cup {None}]
      /\ pending' \in [Keys -> Messages \cup {None}]
      /\ files' \in [Keys -> Messages \cup {None}]
      /\ aborting' \subseteq Messages
      /\ made' \subseteq Messages
      /\ disposed' \subseteq Messages
      /\ serving' \in [Messages -> Messages \cup {None}]
      /\ UNCHANGED <<removed, key, fileOf>>
  BY <1>1 DEF Typed, TypeOK, Resolve, Resume
<1>4. record' \in [Calls -> Messages \cup {None}]
  BY <1>1 DEF Typed, TypeOK, Resume
<1>6. /\ phase' \in [Calls -> MessagePhases \cup DeletePhases]
      /\ \A n \in Messages : phase'[n] \in MessagePhases
      /\ \A d \in Deletes : phase'[d] \in DeletePhases
  BY <1>1, CallsAssumption
     DEF Typed, TypeOK, Calls, Sharing, MessagePhases, DeletePhases, Replies, Resume
<1>5. HandlersTyped'
  BY <1>1, <1>2, <1>3, <1>4 DEF Typed, TypeOK, HandlersTyped, Sharing, Resume
<1> QED BY <1>3, <1>4, <1>5, <1>6 DEF Typed, TypeOK

LEMMA RejectTyped ==
  ASSUME Typed, NEW m \in Messages, NEW k \in Keys, phase[m] # "unsent", Reject(m, k)
  PROVE  Typed'
<1>1. m \in Calls /\ \A d \in Deletes : m # d
  BY CallsAssumption DEF Calls
<1> QED BY <1>1 DEF Typed, TypeOK, HandlersTyped, Reject, Sharing, records,
                    Calls, MessagePhases, DeletePhases, Replies

(* No step leaves the types.                                               *)
LEMMA TypedStep == Typed /\ [Next]_vars => Typed'
<1> SUFFICES ASSUME Typed, [Next]_vars PROVE Typed'
  OBVIOUS
<1> USE DEF Typed
<1>0. /\ Messages \subseteq Calls /\ Deletes \subseteq Calls
      /\ \A m \in Messages, d \in Deletes : m # d
  BY CallsAssumption DEF Calls
<1>1. CASE EvictExpired
  <2>1. PICK E \in SUBSET Resident :
          Release(E) /\ UNCHANGED <<pending, files, removed, calls, fileOf, serving, aborting, made>>
    BY <1>1 DEF EvictExpired, EvictionChoices, Idle
  <2> QED BY <2>1, ReleaseTyped DEF TypeOK, HandlersTyped, calls
<1>2. ASSUME NEW k \in Keys, PostAbort(k) PROVE Typed'
  BY <1>2 DEF PostAbort, BusyAt, TypeOK, HandlersTyped, calls
<1>3. ASSUME NEW m \in Messages, MessageStep(m) PROVE Typed'
  <2>1. ASSUME NEW k \in Keys, PostMessageToResident(m, k) PROVE Typed'
    BY <2>1, <1>0 DEF PostMessageToResident, Receive, TypeOK, HandlersTyped, MessagePhases, DeletePhases, Replies
  <2>2. ASSUME NEW k \in Keys, PostMessageToPending(m, k) PROVE Typed'
    BY <2>2, <1>0 DEF PostMessageToPending, Receive, TypeOK, HandlersTyped, MessagePhases, DeletePhases, Replies, records
  <2>3. ASSUME NEW k \in Keys, PostMessageCreates(m, k) PROVE Typed'
    <3>1. PICK E \in SUBSET Resident :
            /\ Release(E)
            /\ UNCHANGED <<removed, record, serving, aborting, made>>
            /\ \/ Receive(m, k, "503") /\ UNCHANGED <<pending, files, fileOf>>
               \/ /\ Receive(m, k, "opening")
                  /\ pending' = [pending EXCEPT ![k] = m]
                  /\ \/ fileOf' = [fileOf EXCEPT ![m] = files[k]] /\ UNCHANGED files
                     \/ /\ fileOf' = [fileOf EXCEPT ![m] = m]
                        /\ files' = [files EXCEPT ![k] = None]
      BY <2>3 DEF PostMessageCreates, EvictionChoices, Idle
    <3>2. sessions' \in [Keys -> Messages \cup {None}] /\ disposed' \subseteq Messages
      BY <3>1, ReleaseTyped
    <3>3. HandlersTyped'
      BY <3>1, <1>0 DEF Receive, TypeOK, HandlersTyped
    <3> QED BY <3>1, <3>2, <3>3, <1>0 DEF Receive, TypeOK, MessagePhases, DeletePhases, Replies
  <2>4. CASE SessionOpened(m)
    <3>1. key[m] \in Keys
      BY <2>4, <1>0 DEF SessionOpened, HandlersTyped
    <3>2. CASE Indexed(m)
      <4>1. Resolve(m, key[m], files, [sessions EXCEPT ![key[m]] = m])
        BY <2>4, <3>2 DEF SessionOpened
      <4>2. phase[m] # "unsent"
        BY <2>4 DEF SessionOpened
      <4> QED BY <4>1, <4>2, <3>1, ResolveTyped DEF TypeOK
    <3>3. CASE ~Indexed(m)
      BY <2>4, <3>1, <3>3, <1>0 DEF SessionOpened, TypeOK, HandlersTyped, MessagePhases, DeletePhases, Replies
    <3> QED BY <3>2, <3>3
  <2>5. CASE SessionNotOpened(m) \/ IndexNotSaved(m)
    BY <2>5, <1>0, RejectTyped DEF SessionNotOpened, IndexNotSaved, HandlersTyped
  <2>6. CASE IndexSaved(m)
    BY <2>6, <1>0, ResolveTyped DEF IndexSaved, HandlersTyped, TypeOK
  <2>7. CASE PromptEnds(m)
    BY <2>7, <1>0 DEF PromptEnds, TypeOK, HandlersTyped, MessagePhases, DeletePhases, Replies
  <2>8. CASE Disconnect(m)
    BY <2>8, <1>0 DEF Disconnect, TypeOK, HandlersTyped, calls
  <2> QED BY <1>3, <2>1, <2>2, <2>3, <2>4, <2>5, <2>6, <2>7, <2>8 DEF MessageStep, PostMessage
<1>4. ASSUME NEW d \in Deletes, DeleteStep(d) PROVE Typed'
  <2>1. ASSUME NEW k \in Keys, PostDelete(d, k) PROVE Typed'
    <3>1. CASE InProgress(k)
      BY <2>1, <3>1, <1>0 DEF PostDelete, Receive, TypeOK, HandlersTyped, MessagePhases, DeletePhases, Replies
    <3>2. CASE ~InProgress(k) /\ BusyAt(k)
      BY <2>1, <3>2, <1>0 DEF PostDelete, BusyAt, Receive, TypeOK, HandlersTyped, MessagePhases, DeletePhases, Replies
    <3>3. CASE ~InProgress(k) /\ ~BusyAt(k)
      <4>1. sessions' \in [Keys -> Messages \cup {None}] /\ disposed' \subseteq Messages
        <5>1. Release(Held(k)) /\ Held(k) \in SUBSET Resident
          BY <2>1, <3>3 DEF PostDelete, Held
        <5> QED BY <5>1, ReleaseTyped
      <4> QED BY <2>1, <3>3, <4>1, <1>0
              DEF PostDelete, DropIndexEntry, Receive, TypeOK, HandlersTyped, MessagePhases, DeletePhases, Replies
    <3> QED BY <3>1, <3>2, <3>3
  <2>2. CASE SessionStopped(d)
    <3>1. key[d] \in Keys /\ record[d] \in Messages
      BY <2>2, <1>0 DEF SessionStopped, HandlersTyped
    <3> QED BY <2>2, <3>1, <1>0
            DEF SessionStopped, DropIndexEntry, TypeOK, HandlersTyped, MessagePhases, DeletePhases, Replies
  <2>3. CASE Erased(d) \/ NotErased(d)
    BY <2>3, <1>0 DEF Erased, NotErased, TypeOK, HandlersTyped, MessagePhases, DeletePhases, Replies, records
  <2> QED BY <1>4, <2>1, <2>2, <2>3 DEF DeleteStep
<1>5. CASE UNCHANGED vars
  BY <1>5 DEF vars, calls, records, TypeOK, HandlersTyped
<1> QED BY <1>1, <1>2, <1>3, <1>4, <1>5 DEF Next

LEMMA TypedInit == Init => Typed
BY NoneAssumption DEF Init, Typed, Calls, TypeOK, HandlersTyped, MessagePhases, DeletePhases, Replies

LEMMA AlwaysTyped == Spec => []Typed
BY TypedInit, TypedStep, PTL DEF Spec

(* Every variable keeps its type.                                          *)
THEOREM TypeCorrect == Spec => []TypeOK
<1>1. Typed => TypeOK
  BY DEF Typed
<1> QED BY <1>1, AlwaysTyped, PTL

-----------------------------------------------------------------------------
(* Creations and their owners *)

(* The owner of a creation is the one that pendingSessions names.          *)
OwnersNamed ==
  \A m \in Messages : phase[m] \in {"opening", "saving"} => pending[key[m]] = m

Owned == CreationOwned /\ OwnersNamed

(* When a creation settles, its entry goes and so does every call that     *)
(* awaits it.                                                              *)
LEMMA SettlementOwned ==
  ASSUME Typed, Owned, NEW m \in Messages, phase[m] \in {"opening", "saving"},
         key' = key, pending' = [pending EXCEPT ![key[m]] = None],
         \A c \in Calls : key[c] = key[m] =>
            phase'[c] \notin {"opening", "saving", "waiting", "joining"},
         \A c \in Calls : key[c] # key[m] => phase'[c] = phase[c]
  PROVE  Owned'
<1>1. m \in Calls /\ key[m] \in Keys /\ Messages \subseteq Calls
  BY DEF Typed, HandlersTyped, Calls
<1>2. ASSUME NEW k \in Keys, pending'[k] # None
      PROVE  phase'[pending'[k]] \in {"opening", "saving"} /\ key'[pending'[k]] = k
  <2>1. k # key[m] /\ pending'[k] = pending[k] /\ pending[k] # None /\ pending[k] \in Messages
    BY <1>1, <1>2 DEF Typed, TypeOK
  <2>2. key[pending[k]] = k /\ phase[pending[k]] \in {"opening", "saving"}
    BY <2>1 DEF Owned, CreationOwned
  <2> QED BY <1>1, <2>1, <2>2
<1>3. ASSUME NEW c \in Calls, phase'[c] \in {"opening", "saving", "waiting", "joining"}
      PROVE  pending'[key'[c]] # None
  <2>1. key[c] # key[m] /\ phase'[c] = phase[c] /\ key[c] \in Keys
    BY <1>3 DEF Typed, HandlersTyped
  <2> QED BY <1>3, <2>1 DEF Owned, CreationOwned, Typed, TypeOK
<1>4. ASSUME NEW n \in Messages, phase'[n] \in {"opening", "saving"}
      PROVE  pending'[key'[n]] = n
  <2>1. key[n] # key[m] /\ phase'[n] = phase[n] /\ key[n] \in Keys
    BY <1>1, <1>4 DEF Typed, HandlersTyped
  <2> QED BY <1>4, <2>1 DEF Owned, OwnersNamed, Typed, TypeOK
<1> QED BY <1>2, <1>3, <1>4 DEF Owned, CreationOwned, OwnersNamed

LEMMA ResolveOwned ==
  ASSUME Typed, Owned, NEW m \in Messages, phase[m] \in {"opening", "saving"},
         NEW index, NEW resident, Resolve(m, key[m], index, resident)
  PROVE  Owned'
<1>1. PICK stopper \in SUBSET Sharing(key[m], "joining"),
           eraser \in SUBSET Sharing(key[m], "joining") :
        Resume(m, key[m], index, stopper, eraser)
  BY DEF Resolve, Pick
<1>2. key' = key /\ pending' = [pending EXCEPT ![key[m]] = None]
  BY DEF Resolve
<1>3. ASSUME NEW c \in Calls, key[c] = key[m]
      PROVE  phase'[c] \notin {"opening", "saving", "waiting", "joining"}
  <2>1. c \in Messages /\ phase[c] \in {"opening", "saving"} => c = m
    BY <1>3 DEF Owned, OwnersNamed
  <2>2. phase[c] \in {"opening", "saving"} => c \in Messages
    BY DEF Calls, Typed, TypeOK, DeletePhases, Replies
  <2> QED BY <1>1, <1>3, <2>1, <2>2 DEF Resume, Sharing
<1>4. \A c \in Calls : key[c] # key[m] => phase'[c] = phase[c]
  BY <1>1 DEF Resume, Sharing
<1> QED BY <1>2, <1>3, <1>4, SettlementOwned

LEMMA RejectOwned ==
  ASSUME Typed, Owned, NEW m \in Messages, phase[m] \in {"opening", "saving"},
         Reject(m, key[m])
  PROVE  Owned'
<1>1. ASSUME NEW c \in Calls, key[c] = key[m]
      PROVE  phase'[c] \notin {"opening", "saving", "waiting", "joining"}
  <2>1. c \in Messages /\ phase[c] \in {"opening", "saving"} => c = m
    BY <1>1 DEF Owned, OwnersNamed
  <2>2. phase[c] \in {"opening", "saving"} => c \in Messages
    BY DEF Calls, Typed, TypeOK, DeletePhases, Replies
  <2> QED BY <1>1, <2>1, <2>2 DEF Reject, Sharing
<1>2. \A c \in Calls : key[c] # key[m] => phase'[c] = phase[c]
  BY DEF Reject, Sharing
<1> QED BY <1>1, <1>2, SettlementOwned DEF Reject

(* A step that starts no creation and awaits none keeps the ownership.     *)
LEMMA UninvolvedOwned ==
  ASSUME Typed, Owned, NEW c \in Calls, pending' = pending,
         phase[c] \notin {"opening", "saving"},
         NEW next \in (MessagePhases \cup DeletePhases) \ {"opening", "saving"},
         phase' = [phase EXCEPT ![c] = next],
         \A n \in Calls : n # c => key'[n] = key[n],
         next \in {"waiting", "joining"} => pending'[key'[c]] # None
  PROVE  Owned'
<1>1. \A n \in Calls : n # c => key'[n] = key[n] /\ phase'[n] = phase[n]
  BY DEF Typed, TypeOK
<1>2. phase'[c] = next
  BY DEF Typed, TypeOK
<1>3. Messages \subseteq Calls
  BY DEF Calls
<1>4. ASSUME NEW j \in Keys, pending'[j] # None
      PROVE  phase'[pending'[j]] \in {"opening", "saving"} /\ key'[pending'[j]] = j
  <2>1. pending[j] \in Calls /\ pending[j] # c
    BY <1>3, <1>4 DEF Owned, CreationOwned, Typed, TypeOK
  <2> QED BY <1>1, <1>4, <2>1 DEF Owned, CreationOwned
<1>5. ASSUME NEW n \in Calls, phase'[n] \in {"opening", "saving", "waiting", "joining"}
      PROVE  pending'[key'[n]] # None
  BY <1>1, <1>2, <1>5 DEF Owned, CreationOwned
<1>6. ASSUME NEW m \in Messages, phase'[m] \in {"opening", "saving"}
      PROVE  pending'[key'[m]] = m
  BY <1>1, <1>2, <1>3, <1>6 DEF Owned, OwnersNamed
<1> QED BY <1>4, <1>5, <1>6 DEF Owned, CreationOwned, OwnersNamed

LEMMA OwnedStep == Typed /\ Owned /\ [Next]_vars => Owned'
<1> SUFFICES ASSUME Typed, Owned, [Next]_vars PROVE Owned'
  OBVIOUS
<1>0. Messages \subseteq Calls /\ Deletes \subseteq Calls
  BY DEF Calls
<1>1. CASE UNCHANGED <<phase, key, pending>>
  BY <1>1 DEF Owned, CreationOwned, OwnersNamed
<1>2. CASE EvictExpired \/ (\E k \in Keys : PostAbort(k)) \/ UNCHANGED vars
  BY <1>1, <1>2 DEF EvictExpired, PostAbort, vars, calls
<1>3. ASSUME NEW m \in Messages, MessageStep(m) PROVE Owned'
  <2>1. ASSUME NEW k \in Keys, PostMessageToResident(m, k) PROVE Owned'
    <3>1. pending' = pending /\ (Receive(m, k, "409") \/ Receive(m, k, "running"))
      BY <2>1 DEF PostMessageToResident
    <3> QED BY <1>0, <3>1, UninvolvedOwned
            DEF Receive, Typed, TypeOK, MessagePhases, DeletePhases, Replies
  <2>2. ASSUME NEW k \in Keys, PostMessageToPending(m, k) PROVE Owned'
    <3>1. Receive(m, k, "waiting") /\ pending' = pending /\ pending[k] # None /\ key'[m] = k
      BY <1>0, <2>2 DEF PostMessageToPending, Receive, InProgress, Typed, TypeOK
    <3> QED BY <1>0, <3>1, UninvolvedOwned
            DEF Receive, Typed, TypeOK, MessagePhases, DeletePhases, Replies
  <2>3. ASSUME NEW k \in Keys, PostMessageCreates(m, k) PROVE Owned'
    <3>1. CASE Receive(m, k, "503") /\ pending' = pending
      BY <1>0, <3>1, UninvolvedOwned DEF Receive, Typed, TypeOK, MessagePhases, DeletePhases, Replies
    <3>2. CASE Receive(m, k, "opening") /\ pending' = [pending EXCEPT ![k] = m]
      <4>1. /\ key'[m] = k /\ phase'[m] = "opening" /\ pending'[k] = m /\ m # None
            /\ \A n \in Calls : n # m => key'[n] = key[n] /\ phase'[n] = phase[n]
            /\ \A j \in Keys : j # k => pending'[j] = pending[j]
            /\ phase[m] = "unsent" /\ pending[k] = None
        BY <1>0, <2>3, <3>2, NoneAssumption
           DEF PostMessageCreates, InProgress, Receive, Typed, TypeOK
      <4>2. \A j \in Keys : pending[j] # None => pending[j] \in Calls /\ pending[j] # m
        BY <1>0, <4>1 DEF Owned, CreationOwned, Typed, TypeOK
      <4>3. ASSUME NEW n \in Calls, n # m,
                   phase[n] \in {"opening", "saving", "waiting", "joining"}
            PROVE  key[n] \in Keys /\ key[n] # k
        BY <4>1, <4>3 DEF Owned, CreationOwned, Typed, HandlersTyped
      <4> QED BY <1>0, <4>1, <4>2, <4>3 DEF Owned, CreationOwned, OwnersNamed
    <3> QED BY <2>3, <3>1, <3>2 DEF PostMessageCreates
  <2>4. CASE SessionOpened(m)
    <3>1. CASE Indexed(m)
      BY <2>4, <3>1, ResolveOwned DEF SessionOpened
    <3>2. CASE ~Indexed(m)
      <4>1. /\ phase[m] = "opening" /\ phase' = [phase EXCEPT ![m] = "saving"]
            /\ UNCHANGED <<pending, key>>
        BY <2>4, <3>2 DEF SessionOpened
      <4>2. /\ phase'[m] = "saving"
            /\ \A n \in Calls : n # m => phase'[n] = phase[n]
        BY <1>0, <4>1 DEF Typed, TypeOK
      <4>3. \A j \in Keys : pending[j] # None => pending[j] \in Calls
        BY <1>0 DEF Typed, TypeOK
      <4> QED BY <1>0, <4>1, <4>2, <4>3 DEF Owned, CreationOwned, OwnersNamed
    <3> QED BY <3>1, <3>2
  <2>5. CASE SessionNotOpened(m) \/ IndexNotSaved(m)
    BY <2>5, RejectOwned DEF SessionNotOpened, IndexNotSaved
  <2>6. CASE IndexSaved(m)
    BY <2>6, ResolveOwned DEF IndexSaved
  <2>7. CASE PromptEnds(m)
    <3>1. PICK status \in Replies : phase' = [phase EXCEPT ![m] = status]
      BY <2>7 DEF PromptEnds, Replies
    <3>2. phase[m] = "running" /\ UNCHANGED <<pending, key>> /\ key[m] \in Keys
      BY <1>0, <2>7 DEF PromptEnds, Typed, HandlersTyped
    <3> QED BY <1>0, <3>1, <3>2, UninvolvedOwned DEF MessagePhases, DeletePhases, Replies
  <2>8. CASE Disconnect(m)
    BY <1>1, <2>8 DEF Disconnect, calls
  <2> QED BY <1>3, <2>1, <2>2, <2>3, <2>4, <2>5, <2>6, <2>7, <2>8 DEF MessageStep, PostMessage
<1>4. ASSUME NEW d \in Deletes, DeleteStep(d) PROVE Owned'
  <2>1. ASSUME NEW k \in Keys, PostDelete(d, k) PROVE Owned'
    <3>1. PICK next \in {"joining", "stopping", "erasing"} :
            /\ Receive(d, k, next) /\ pending' = pending
            /\ next = "joining" => pending[k] # None
      BY <2>1 DEF PostDelete, InProgress
    <3>2. key'[d] = k
      BY <1>0, <3>1 DEF Receive, Typed, TypeOK
    <3> QED BY <1>0, <3>1, <3>2, UninvolvedOwned
            DEF Receive, Typed, TypeOK, MessagePhases, DeletePhases, Replies
  <2>2. CASE SessionStopped(d) \/ Erased(d) \/ NotErased(d)
    <3>1. PICK next \in {"erasing", "200", "500"} : phase' = [phase EXCEPT ![d] = next]
      BY <2>2 DEF SessionStopped, Erased, NotErased
    <3>2. /\ phase[d] \in {"stopping", "erasing"} /\ UNCHANGED <<pending, key>>
          /\ key[d] \in Keys
      BY <1>0, <2>2 DEF SessionStopped, Erased, NotErased, Typed, HandlersTyped
    <3> QED BY <1>0, <3>1, <3>2, UninvolvedOwned DEF MessagePhases, DeletePhases, Replies
  <2> QED BY <1>4, <2>1, <2>2 DEF DeleteStep
<1> QED BY <1>2, <1>3, <1>4 DEF Next

(* Every call that awaits a creation has one in progress, owned by a       *)
(* message at work: no call is left awaiting a promise nobody settles.     *)
THEOREM CreationsAreOwned == Spec => []CreationOwned
<1>1. Init => Owned
  BY DEF Init, Owned, CreationOwned, OwnersNamed, Calls
<1>2. Owned => CreationOwned
  BY DEF Owned
<1> QED BY <1>1, <1>2, OwnedStep, AlwaysTyped, PTL DEF Spec

-----------------------------------------------------------------------------
(* Busy records *)

(* A step that starts and ends no run keeps busy records and runs matched. *)
LEMMA NoRunChanges ==
  ASSUME Typed, BusyMeansRunning, serving' = serving,
         \A n \in Messages : phase[n] = "running" \/ phase'[n] = "running" =>
            phase'[n] = phase[n] /\ record'[n] = record[n]
  PROVE  BusyMeansRunning'
<1>1. \A m \in Messages : Busy(m) => serving[m] \in Messages
  BY DEF Typed, TypeOK, Busy
<1> QED BY <1>1 DEF BusyMeansRunning, Busy

LEMMA ResolveBusy ==
  ASSUME Typed, BusyMeansRunning, NEW m \in Messages, phase[m] \in {"opening", "saving"},
         NEW k \in Keys, NEW index, NEW resident, Resolve(m, k, index, resident)
  PROVE  BusyMeansRunning'
<1>0. /\ m \in Calls /\ Messages \subseteq Calls /\ None \notin Messages
      /\ \A n \in Messages : n \notin Deletes
  BY CallsAssumption, NoneAssumption DEF Calls
<1>1. PICK stopper \in SUBSET Sharing(k, "joining"), eraser \in SUBSET Sharing(k, "joining") :
        Resume(m, k, index, stopper, eraser)
  BY DEF Resolve, Pick
<1>2. Sharing(k, "joining") \cap Messages = {}
  BY DEF Sharing, Typed, TypeOK, MessagePhases, Replies
<1>3. ASSUME NEW n \in Messages, n # m
      PROVE  /\ phase'[n] = "running" <=> phase[n] = "running"
             /\ record'[n] = record[n]
  BY <1>0, <1>1, <1>2, <1>3 DEF Resume, Sharing
<1>4. CASE Busy(m)
  <2>1. serving' = serving /\ phase'[m] = "409"
    BY <1>0, <1>1, <1>4 DEF Resolve, Resume, TakenByOther
  <2> QED BY <1>3, <2>1, NoRunChanges
<1>5. CASE ~Busy(m)
  <2>1. serving' = [serving EXCEPT ![m] = m] /\ phase'[m] = "running" /\ record'[m] = m
    BY <1>0, <1>1, <1>2, <1>5 DEF Resolve, Resume, TakenByOther
  <2>2. /\ serving'[m] = m
        /\ \A n \in Messages : n # m => serving'[n] = serving[n]
        /\ \A n \in Messages : serving[n] \in Messages \cup {None}
    BY <2>1 DEF Typed, TypeOK
  <2>3. \A n \in Messages : phase[n] = "running" => record[n] \in Messages /\ record[n] # m
    BY <1>0, <1>5 DEF BusyMeansRunning, Busy, Typed, HandlersTyped
  <2>4. \A n \in Messages : Busy(n) => serving[n] # m
    BY DEF BusyMeansRunning
  <2>5. ASSUME NEW n \in Messages, phase'[n] = "running"
        PROVE  serving'[record'[n]] = n
    BY <1>3, <2>1, <2>2, <2>3, <2>5 DEF BusyMeansRunning
  <2>6. ASSUME NEW n \in Messages, serving'[n] # None
        PROVE  phase'[serving'[n]] = "running" /\ record'[serving'[n]] = n
    BY <1>3, <2>1, <2>2, <2>4, <2>6 DEF BusyMeansRunning, Busy
  <2> QED BY <2>5, <2>6 DEF BusyMeansRunning, Busy
<1> QED BY <1>4, <1>5

LEMMA BusyStep == Typed /\ BusyMeansRunning /\ [Next]_vars => BusyMeansRunning'
<1> SUFFICES ASSUME Typed, BusyMeansRunning, [Next]_vars PROVE BusyMeansRunning'
  OBVIOUS
<1>0. /\ Messages \subseteq Calls /\ Deletes \subseteq Calls /\ None \notin Messages
      /\ \A m \in Messages, d \in Deletes : m # d
  BY CallsAssumption, NoneAssumption DEF Calls
<1>1. CASE EvictExpired \/ (\E k \in Keys : PostAbort(k)) \/ UNCHANGED vars
  BY <1>1, NoRunChanges DEF EvictExpired, PostAbort, vars, calls, records
<1>2. ASSUME NEW m \in Messages, MessageStep(m) PROVE BusyMeansRunning'
  <2>1. ASSUME NEW k \in Keys, PostMessageToResident(m, k) PROVE BusyMeansRunning'
    <3>1. CASE Receive(m, k, "409") /\ UNCHANGED <<record, serving>>
      BY <1>0, <3>1, NoRunChanges DEF Receive, Typed, TypeOK
    <3>2. CASE /\ ~Busy(sessions[k]) /\ Receive(m, k, "running")
               /\ record' = [record EXCEPT ![m] = sessions[k]]
               /\ serving' = [serving EXCEPT ![sessions[k]] = m]
      <4>1. sessions[k] \in Messages
        BY <2>1 DEF PostMessageToResident, Typed, TypeOK
      <4>2. /\ phase[m] = "unsent" /\ phase'[m] = "running" /\ record'[m] = sessions[k]
            /\ serving'[sessions[k]] = m
            /\ \A n \in Messages : n # sessions[k] => serving'[n] = serving[n]
            /\ \A n \in Messages : n # m => phase'[n] = phase[n] /\ record'[n] = record[n]
            /\ \A n \in Messages : serving[n] \in Messages \cup {None}
        BY <1>0, <3>2, <4>1 DEF Receive, Typed, TypeOK
      <4>3. \A n \in Messages : phase[n] = "running" =>
              record[n] \in Messages /\ record[n] # sessions[k]
        BY <1>0, <3>2 DEF BusyMeansRunning, Busy, Typed, HandlersTyped
      <4>4. \A n \in Messages : Busy(n) => serving[n] # m
        BY <4>2 DEF BusyMeansRunning
      <4>5. ASSUME NEW n \in Messages, phase'[n] = "running"
            PROVE  serving'[record'[n]] = n
        BY <4>2, <4>3, <4>5 DEF BusyMeansRunning
      <4>6. ASSUME NEW n \in Messages, serving'[n] # None
            PROVE  phase'[serving'[n]] = "running" /\ record'[serving'[n]] = n
        BY <4>2, <4>4, <4>6 DEF BusyMeansRunning, Busy
      <4> QED BY <4>5, <4>6 DEF BusyMeansRunning, Busy
    <3> QED BY <2>1, <3>1, <3>2 DEF PostMessageToResident
  <2>2. ASSUME NEW k \in Keys, PostMessageToPending(m, k) \/ PostMessageCreates(m, k)
        PROVE  BusyMeansRunning'
    <3>1. PICK next \in {"waiting", "503", "opening"} :
            Receive(m, k, next) /\ UNCHANGED <<record, serving>>
      BY <2>2 DEF PostMessageToPending, PostMessageCreates, records
    <3> QED BY <1>0, <3>1, NoRunChanges DEF Receive, Typed, TypeOK
  <2>3. CASE SessionOpened(m)
    <3>1. key[m] \in Keys
      BY <1>0, <2>3 DEF SessionOpened, Typed, HandlersTyped
    <3>2. CASE Indexed(m)
      BY <2>3, <3>1, <3>2, ResolveBusy DEF SessionOpened
    <3>3. CASE ~Indexed(m)
      BY <1>0, <2>3, <3>3, NoRunChanges DEF SessionOpened, Typed, TypeOK
    <3> QED BY <3>2, <3>3
  <2>4. CASE SessionNotOpened(m) \/ IndexNotSaved(m)
    BY <1>0, <2>4, NoRunChanges
       DEF SessionNotOpened, IndexNotSaved, Reject, Sharing, records, Typed, TypeOK
  <2>5. CASE IndexSaved(m)
    BY <1>0, <2>5, ResolveBusy DEF IndexSaved, Typed, HandlersTyped
  <2>6. CASE PromptEnds(m)
    <3>1. /\ record[m] \in Messages /\ serving[record[m]] = m
          /\ phase[m] = "running" /\ record' = record
          /\ serving'[record[m]] = None
          /\ \A n \in Messages : n # record[m] => serving'[n] = serving[n]
      BY <1>0, <2>6 DEF PromptEnds, BusyMeansRunning, Typed, TypeOK, HandlersTyped
    <3>2. PICK status \in Replies : phase' = [phase EXCEPT ![m] = status]
      BY <2>6 DEF PromptEnds, Replies
    <3>3. /\ phase'[m] # "running"
          /\ \A n \in Messages : n # m => phase'[n] = phase[n]
      BY <1>0, <3>2 DEF Replies, Typed, TypeOK
    <3>4. \A n \in Messages : phase[n] = "running" => record[n] \in Messages
      BY <1>0 DEF Typed, HandlersTyped
    <3> QED BY <3>1, <3>3, <3>4 DEF BusyMeansRunning, Busy, Typed, TypeOK
  <2>7. CASE Disconnect(m)
    BY <2>7, NoRunChanges DEF Disconnect, calls
  <2> QED BY <1>2, <2>1, <2>2, <2>3, <2>4, <2>5, <2>6, <2>7 DEF MessageStep, PostMessage
<1>3. ASSUME NEW d \in Deletes, DeleteStep(d) PROVE BusyMeansRunning'
  <2>1. ASSUME NEW k \in Keys, PostDelete(d, k) PROVE BusyMeansRunning'
    <3>1. /\ serving' = serving
          /\ \A n \in Messages : phase'[n] = phase[n] /\ record'[n] = record[n]
      BY <1>0, <2>1 DEF PostDelete, Receive, DropIndexEntry, Typed, TypeOK
    <3> QED BY <3>1, NoRunChanges
  <2>2. CASE SessionStopped(d) \/ Erased(d) \/ NotErased(d)
    <3>1. /\ serving' = serving
          /\ \A n \in Messages : phase'[n] = phase[n] /\ record'[n] = record[n]
      BY <1>0, <2>2 DEF SessionStopped, Erased, NotErased, DropIndexEntry, records, Typed, TypeOK
    <3> QED BY <3>1, NoRunChanges
  <2> QED BY <1>3, <2>1, <2>2 DEF DeleteStep
<1> QED BY <1>1, <1>2, <1>3 DEF Next

(* No two prompts share a session, and a session is busy only while the    *)
(* call it serves runs: it is never stuck answering 409.                   *)
THEOREM BusyIsExclusive == Spec => []BusyMeansRunning
<1>1. Init => BusyMeansRunning
  BY DEF Init, BusyMeansRunning, Busy, Calls
<1> QED BY <1>1, BusyStep, AlwaysTyped, PTL DEF Spec

-----------------------------------------------------------------------------
(* Capacity *)

(* The two maps are finite and, together, within the capacity.             *)
Counted ==
  /\ IsFiniteSet(Resident)
  /\ IsFiniteSet(Creating)
  /\ ResidencyBound

LEMMA FewerCounted ==
  ASSUME Counted, Resident' \subseteq Resident \cup Creating, Creating' \subseteq Creating
  PROVE  Counted'
<1> DEFINE all == Resident \cup Creating
           all2 == Resident' \cup Creating'
<1>1. IsFiniteSet(all)
  BY FS_Union DEF Counted
<1>2. all2 \subseteq all
  OBVIOUS
<1>3. IsFiniteSet(all2) /\ Cardinality(all2) <= Cardinality(all)
  BY <1>1, <1>2, FS_Subset
<1>4. IsFiniteSet(Resident') /\ IsFiniteSet(Creating')
  BY <1>1, FS_Subset DEF Counted
<1>5. Cardinality(all) \in Nat /\ Cardinality(all2) \in Nat
  BY <1>1, <1>3, FS_CardinalityType
<1> QED BY <1>3, <1>4, <1>5, MaxAssumption DEF Counted, ResidencyBound

(* A creation starts only below capacity, counted after the eviction.      *)
LEMMA CreationCounted ==
  ASSUME Counted, NEW k \in Keys, NEW E \in SUBSET Resident, HasRoom(E),
         Resident' = Resident \ E, Creating' \subseteq Creating \cup {k}
  PROVE  Counted'
<1> DEFINE kept == Resident \ E
<1>1. IsFiniteSet(E) /\ IsFiniteSet(kept) /\ IsFiniteSet(Creating)
  BY FS_Subset DEF Counted
<1>2. /\ Cardinality(E) \in Nat /\ Cardinality(kept) \in Nat
      /\ Cardinality(Creating) \in Nat /\ Cardinality(Resident) \in Nat
  BY <1>1, FS_CardinalityType DEF Counted
<1>3. Cardinality(kept) = Cardinality(Resident) - Cardinality(E)
  <2>1. Resident \cap E = E
    OBVIOUS
  <2>2. Cardinality(kept) = Cardinality(Resident) - Cardinality(Resident \cap E)
    BY FS_Difference DEF Counted
  <2> QED BY <2>1, <2>2
<1>4. Cardinality(kept) + Cardinality(Creating) < MaxSessions
  BY <1>2, <1>3 DEF HasRoom, Occupancy
<1>5. /\ IsFiniteSet(kept \cup Creating)
      /\ Cardinality(kept \cup Creating) <= Cardinality(kept) + Cardinality(Creating)
  <2>1. IsFiniteSet(kept \cap Creating) /\ Cardinality(kept \cap Creating) \in Nat
    BY <1>1, FS_Subset, FS_CardinalityType
  <2>2. /\ IsFiniteSet(kept \cup Creating)
        /\ Cardinality(kept \cup Creating)
             = Cardinality(kept) + Cardinality(Creating) - Cardinality(kept \cap Creating)
    BY <1>1, FS_Union
  <2> QED BY <1>2, <2>1, <2>2
<1>6. /\ IsFiniteSet((kept \cup Creating) \cup {k})
      /\ Cardinality((kept \cup Creating) \cup {k}) <= Cardinality(kept \cup Creating) + 1
      /\ Cardinality(kept \cup Creating) \in Nat
  <2> DEFINE both == kept \cup Creating
  <2>1. IsFiniteSet(both) /\ Cardinality(both) \in Nat
    BY <1>5, FS_CardinalityType
  <2>2. /\ IsFiniteSet(both \cup {k})
        /\ Cardinality(both \cup {k}) =
             IF k \in both THEN Cardinality(both) ELSE Cardinality(both) + 1
    BY <2>1, FS_AddElement
  <2> HIDE DEF both
  <2>3. Cardinality(both \cup {k}) <= Cardinality(both) + 1
    BY <2>1, <2>2
  <2> QED BY <2>1, <2>2, <2>3 DEF both
<1>7. /\ IsFiniteSet(Resident') /\ IsFiniteSet(Creating')
      /\ IsFiniteSet(Resident' \cup Creating')
      /\ Cardinality(Resident' \cup Creating') <= Cardinality((kept \cup Creating) \cup {k})
  <2>1. Resident' \cup Creating' \subseteq (kept \cup Creating) \cup {k}
    OBVIOUS
  <2> QED BY <1>6, <2>1, FS_Subset
<1>8. /\ Cardinality(Resident' \cup Creating') \in Nat
      /\ Cardinality((kept \cup Creating) \cup {k}) \in Nat
  BY <1>6, <1>7, FS_CardinalityType
<1> QED BY <1>2, <1>4, <1>5, <1>6, <1>7, <1>8, MaxAssumption DEF Counted, ResidencyBound

LEMMA CountedStep == Typed /\ Owned /\ Counted /\ [Next]_vars => Counted'
<1> SUFFICES ASSUME Typed, Owned, Counted, [Next]_vars PROVE Counted'
  OBVIOUS
<1>0. Messages \subseteq Calls /\ None \notin Messages
  BY NoneAssumption DEF Calls
<1>1. CASE UNCHANGED <<sessions, pending>>
  BY <1>1, FewerCounted DEF Resident, Creating
<1>2. CASE EvictExpired
  BY <1>2, FewerCounted DEF EvictExpired, Release, Resident, Creating
<1>3. CASE (\E k \in Keys : PostAbort(k)) \/ UNCHANGED vars
  BY <1>1, <1>3 DEF PostAbort, vars
<1>4. ASSUME NEW m \in Messages, MessageStep(m) PROVE Counted'
  <2>1. ASSUME phase[m] \in {"opening", "saving"}
        PROVE  key[m] \in Creating
    BY <1>0, <2>1 DEF Owned, OwnersNamed, Creating, Typed, HandlersTyped
  <2>2. ASSUME NEW k \in Creating, sessions' = [sessions EXCEPT ![k] = m],
               pending' = pending
        PROVE  Counted'
    BY <2>2, FewerCounted DEF Resident, Creating, Typed, TypeOK
  <2>3. ASSUME NEW k \in Creating, NEW index, NEW resident, Resolve(m, k, index, resident),
               resident = sessions \/ resident = [sessions EXCEPT ![k] = m]
        PROVE  Counted'
    BY <2>3, FewerCounted DEF Resolve, Resident, Creating, Typed, TypeOK
  <2>4. ASSUME NEW k \in Creating, Reject(m, k)
        PROVE  Counted'
    BY <2>4, FewerCounted DEF Reject, Resident, Creating, Typed, TypeOK
  <2>5. ASSUME NEW k \in Keys, PostMessageCreates(m, k) PROVE Counted'
    <3>1. PICK E \in SUBSET Resident :
            /\ Release(E)
            /\ \/ UNCHANGED pending
               \/ HasRoom(E) /\ pending' = [pending EXCEPT ![k] = m]
      BY <2>5 DEF PostMessageCreates, EvictionChoices, Idle
    <3>2. Resident' = Resident \ E
      BY <3>1 DEF Release, Resident
    <3>3. CASE UNCHANGED pending
      BY <3>2, <3>3, FewerCounted DEF Creating
    <3>4. CASE HasRoom(E) /\ pending' = [pending EXCEPT ![k] = m]
      <4>1. Creating' \subseteq Creating \cup {k}
        BY <3>4 DEF Creating, Typed, TypeOK
      <4> QED BY <3>2, <3>4, <4>1, CreationCounted
    <3> QED BY <3>1, <3>3, <3>4
  <2>6. CASE SessionOpened(m)
    BY <2>1, <2>2, <2>3, <2>6 DEF SessionOpened
  <2>7. CASE SessionNotOpened(m) \/ IndexSaved(m) \/ IndexNotSaved(m)
    BY <2>1, <2>3, <2>4, <2>7 DEF SessionNotOpened, IndexSaved, IndexNotSaved
  <2>8. ASSUME NEW k \in Keys, PostMessageToResident(m, k) \/ PostMessageToPending(m, k)
        PROVE  Counted'
    BY <1>1, <2>8 DEF PostMessageToResident, PostMessageToPending
  <2>9. CASE PromptEnds(m) \/ Disconnect(m)
    BY <1>1, <2>9 DEF PromptEnds, Disconnect
  <2> QED BY <1>4, <2>5, <2>6, <2>7, <2>8, <2>9 DEF MessageStep, PostMessage
<1>5. ASSUME NEW d \in Deletes, DeleteStep(d) PROVE Counted'
  <2>1. ASSUME NEW k \in Keys, PostDelete(d, k) PROVE Counted'
    <3>1. Resident' \subseteq Resident /\ pending' = pending
      BY <2>1 DEF PostDelete, Release, Resident, Typed, TypeOK
    <3> QED BY <3>1, FewerCounted DEF Creating
  <2>2. CASE SessionStopped(d) \/ Erased(d) \/ NotErased(d)
    BY <1>1, <2>2 DEF SessionStopped, Erased, NotErased
  <2> QED BY <1>5, <2>1, <2>2 DEF DeleteStep
<1> QED BY <1>2, <1>3, <1>4, <1>5 DEF Next

(* The resident sessions and the creations in progress are never more than *)
(* the capacity, for any interleaving of creations, evictions and deletes. *)
THEOREM CapacityRespected == Spec => []ResidencyBound
<1>1. Init => Owned /\ Counted
  <2>1. Init => Owned
    BY DEF Init, Owned, CreationOwned, OwnersNamed, Calls
  <2>2. Init => Resident = {} /\ Creating = {}
    BY DEF Init, Resident, Creating
  <2>3. Resident = {} /\ Creating = {} => Counted
    BY FS_EmptySet, MaxAssumption DEF Counted, ResidencyBound
  <2> QED BY <2>1, <2>2, <2>3
<1>2. Counted => ResidencyBound
  BY DEF Counted
<1> QED BY <1>1, <1>2, OwnedStep, CountedStep, AlwaysTyped, PTL DEF Spec

-----------------------------------------------------------------------------
(* Conversations *)

(* A call that has not arrived has no key, record or file, and the file of *)
(* a record was created under the record's own key.                        *)
Untouched ==
  \A c \in Calls : phase[c] = "unsent" =>
    /\ key[c] = None /\ record[c] = None
    /\ c \in Messages => fileOf[c] = None

FilesOfOwnKey ==
  \A m \in Messages : fileOf[m] # None => key[fileOf[m]] = key[m]

Isolated == ConversationsIsolated /\ FilesOfOwnKey /\ Untouched

(* Nothing refers to a call that has not arrived.                          *)
LEMMA UnsentIsUnnamed ==
  ASSUME Typed, Isolated, NEW c \in Calls, phase[c] = "unsent"
  PROVE  /\ \A k \in Keys : sessions[k] # c /\ files[k] # c
         /\ \A n \in Calls : record[n] # c
         /\ \A n \in Messages : fileOf[n] # c
<1>1. key[c] = None /\ None \notin Keys /\ c # None /\ Messages \subseteq Calls
  BY NoneAssumption DEF Isolated, Untouched, Calls
<1>2. ASSUME NEW n \in Calls, record[n] = c PROVE FALSE
  <2>1. phase[n] # "unsent" /\ key[n] \in Keys
    BY <1>1, <1>2 DEF Isolated, Untouched, Typed, HandlersTyped
  <2> QED BY <1>1, <1>2, <2>1 DEF Isolated, ConversationsIsolated
<1>3. ASSUME NEW n \in Messages, fileOf[n] = c PROVE FALSE
  <2>1. phase[n] # "unsent" /\ key[n] \in Keys
    BY <1>1, <1>3 DEF Isolated, Untouched, Typed, HandlersTyped
  <2> QED BY <1>1, <1>3, <2>1 DEF Isolated, FilesOfOwnKey
<1>4. \A k \in Keys : sessions[k] # c /\ files[k] # c
  BY <1>1 DEF Isolated, ConversationsIsolated
<1> QED BY <1>2, <1>3, <1>4

(* The arrival of a call disturbs nothing that was there before.           *)
LEMMA ReceiptIsolated ==
  ASSUME Typed, Isolated, NEW c \in Calls, NEW k \in Keys,
         NEW next \in (MessagePhases \cup DeletePhases) \ {"unsent"}, Receive(c, k, next),
         \A j \in Keys : sessions'[j] \in {None, sessions[j]} /\ files'[j] \in {None, files[j]},
         \A n \in Calls : n # c => record'[n] = record[n],
         \A n \in Messages : n # c => fileOf'[n] = fileOf[n],
         record'[c] # None => record'[c] \in Calls \ {c} /\ key[record'[c]] = k,
         c \in Messages =>
            fileOf'[c] \in {None, c} \/ (fileOf'[c] \in Messages \ {c} /\ key[fileOf'[c]] = k)
  PROVE  Isolated'
<1>1. /\ phase[c] = "unsent" /\ phase'[c] = next /\ key'[c] = k
      /\ \A n \in Calls : n # c => phase'[n] = phase[n] /\ key'[n] = key[n]
  BY DEF Receive, Typed, TypeOK
<1>2. /\ \A j \in Keys : sessions[j] # c /\ files[j] # c
      /\ \A n \in Calls : record[n] # c
      /\ \A n \in Messages : fileOf[n] # c
  BY <1>1, UnsentIsUnnamed
<1>3. /\ Messages \subseteq Calls
      /\ \A j \in Keys : sessions[j] \in Messages \cup {None} /\ files[j] \in Messages \cup {None}
      /\ \A n \in Calls : record[n] \in Messages \cup {None}
      /\ \A n \in Messages : fileOf[n] \in Messages \cup {None}
  BY DEF Typed, TypeOK, Calls
<1>4. ConversationsIsolated'
  BY <1>1, <1>2, <1>3 DEF Isolated, ConversationsIsolated
<1>5. FilesOfOwnKey'
  BY <1>1, <1>2, <1>3 DEF Isolated, FilesOfOwnKey
<1>6. Untouched'
  BY <1>1, <1>3 DEF Isolated, Untouched
<1> QED BY <1>4, <1>5, <1>6 DEF Isolated

(* Once every key is known, what is handed over stays within one key.      *)
LEMMA HandoverIsolated ==
  ASSUME Typed, Isolated, UNCHANGED <<key, fileOf>>,
         \A n \in Calls : phase'[n] = "unsent" => phase[n] = "unsent" /\ record'[n] = record[n],
         \A j \in Keys : /\ sessions'[j] # None => key[sessions'[j]] = j
                         /\ files'[j] # None => key[files'[j]] = j,
         \A n \in Calls : record'[n] # None => key[record'[n]] = key[n]
  PROVE  Isolated'
BY DEF Isolated, ConversationsIsolated, FilesOfOwnKey, Untouched

LEMMA ResolveIsolated ==
  ASSUME Typed, Isolated, NEW m \in Messages, phase[m] \in {"opening", "saving"},
         NEW resident \in [Keys -> Messages \cup {None}],
         \A j \in Keys : resident[j] # None => key[resident[j]] = j,
         Resolve(m, key[m], files, resident)
  PROVE  Isolated'
<1> DEFINE k == key[m]
<1>1. PICK stopper \in SUBSET Sharing(k, "joining"), eraser \in SUBSET Sharing(k, "joining") :
        Resume(m, k, files, stopper, eraser)
  BY DEF Resolve, Pick
<1>2. m \in Calls /\ k \in Keys /\ UNCHANGED <<key, fileOf>>
  BY DEF Calls, Typed, HandlersTyped, Resolve
<1>3. \A n \in Calls : phase'[n] = "unsent" => phase[n] = "unsent" /\ record'[n] = record[n]
  BY <1>1 DEF Resume, Sharing
<1>4. \A j \in Keys : sessions'[j] # None => key[sessions'[j]] = j
  BY <1>2 DEF Resolve
<1>5. \A j \in Keys : files'[j] # None => key[files'[j]] = j
  BY <1>1, <1>2 DEF Resume, Isolated, ConversationsIsolated, Typed, TypeOK
<1>6. \A n \in Calls : record'[n] # None => key[record'[n]] = key[n]
  BY <1>1, <1>2 DEF Resume, Sharing, Isolated, ConversationsIsolated
<1> QED BY <1>2, <1>3, <1>4, <1>5, <1>6, HandoverIsolated

LEMMA IsolatedStep == Typed /\ Isolated /\ [Next]_vars => Isolated'
<1> SUFFICES ASSUME Typed, Isolated, [Next]_vars PROVE Isolated'
  OBVIOUS
<1>0. /\ Messages \subseteq Calls /\ Deletes \subseteq Calls /\ None \notin Calls
      /\ \A m \in Messages, d \in Deletes : m # d
  BY CallsAssumption, NoneAssumption DEF Calls
<1>1. ASSUME UNCHANGED <<key, fileOf, files, record>>,
             \A c \in Calls : phase'[c] = "unsent" => phase[c] = "unsent",
             \A j \in Keys : sessions'[j] \in {None, sessions[j]}
      PROVE  Isolated'
  BY <1>1, HandoverIsolated DEF Isolated, ConversationsIsolated
<1>2. CASE EvictExpired \/ (\E k \in Keys : PostAbort(k)) \/ UNCHANGED vars
  BY <1>1, <1>2 DEF EvictExpired, Release, PostAbort, vars, calls, records
<1>3. ASSUME NEW m \in Messages, MessageStep(m) PROVE Isolated'
  <2>1. ASSUME NEW k \in Keys, PostMessageToResident(m, k) PROVE Isolated'
    <3>1. PICK next \in {"409", "running"} :
            /\ Receive(m, k, next) /\ UNCHANGED <<sessions, files, fileOf>>
            /\ record' = record \/ record' = [record EXCEPT ![m] = sessions[k]]
      BY <2>1 DEF PostMessageToResident
    <3>2. sessions[k] \in Messages /\ key[sessions[k]] = k /\ phase[m] = "unsent"
      BY <2>1 DEF PostMessageToResident, Receive, Typed, TypeOK, Isolated, ConversationsIsolated
    <3>3. record[m] = None /\ fileOf[m] = None /\ sessions[k] # m
      BY <1>0, <3>2, UnsentIsUnnamed DEF Isolated, Untouched
    <3> QED BY <1>0, <3>1, <3>2, <3>3, ReceiptIsolated
            DEF Typed, TypeOK, MessagePhases, DeletePhases, Replies
  <2>2. ASSUME NEW k \in Keys, PostMessageToPending(m, k) PROVE Isolated'
    <3>1. Receive(m, k, "waiting") /\ UNCHANGED <<sessions, files, fileOf, record>>
      BY <2>2 DEF PostMessageToPending, records
    <3>2. record[m] = None /\ fileOf[m] = None
      BY <1>0, <3>1 DEF Receive, Isolated, Untouched
    <3> QED BY <1>0, <3>1, <3>2, ReceiptIsolated DEF MessagePhases, DeletePhases, Replies
  <2>3. ASSUME NEW k \in Keys, PostMessageCreates(m, k) PROVE Isolated'
    <3>1. PICK E \in SUBSET Resident, next \in {"503", "opening"} :
            /\ Release(E) /\ UNCHANGED record /\ Receive(m, k, next)
            /\ \/ UNCHANGED <<files, fileOf>>
               \/ /\ files[k] # None /\ UNCHANGED files
                  /\ fileOf' = [fileOf EXCEPT ![m] = files[k]]
               \/ /\ fileOf' = [fileOf EXCEPT ![m] = m]
                  /\ files' = [files EXCEPT ![k] = None]
      BY <2>3 DEF PostMessageCreates, EvictionChoices, Idle
    <3>2. /\ phase[m] = "unsent" /\ record[m] = None /\ fileOf[m] = None /\ files[k] # m
          /\ files[k] # None => files[k] \in Messages /\ key[files[k]] = k
      BY <1>0, <3>1, UnsentIsUnnamed
         DEF Receive, Isolated, Untouched, ConversationsIsolated, Typed, TypeOK
    <3>3. \A j \in Keys : sessions'[j] \in {None, sessions[j]} /\ files'[j] \in {None, files[j]}
      BY <3>1 DEF Release, Typed, TypeOK
    <3>4. /\ \A n \in Messages : n # m => fileOf'[n] = fileOf[n]
          /\ fileOf'[m] \in {None, m} \/ (fileOf'[m] \in Messages \ {m} /\ key[fileOf'[m]] = k)
      BY <3>1, <3>2 DEF Typed, TypeOK
    <3> QED BY <1>0, <3>1, <3>2, <3>3, <3>4, ReceiptIsolated DEF MessagePhases, DeletePhases, Replies
  <2>4. CASE SessionOpened(m)
    <3>1. key[m] \in Keys /\ phase[m] = "opening"
      BY <1>0, <2>4 DEF SessionOpened, Typed, HandlersTyped
    <3> DEFINE resident == [sessions EXCEPT ![key[m]] = m]
    <3>2. /\ resident \in [Keys -> Messages \cup {None}]
          /\ \A j \in Keys : resident[j] # None => key[resident[j]] = j
      BY <3>1 DEF Isolated, ConversationsIsolated, Typed, TypeOK
    <3>3. CASE Indexed(m)
      BY <2>4, <3>1, <3>2, <3>3, ResolveIsolated DEF SessionOpened
    <3>4. CASE ~Indexed(m)
      <4>1. /\ sessions' = resident /\ files' = [files EXCEPT ![key[m]] = fileOf[m]]
            /\ phase' = [phase EXCEPT ![m] = "saving"] /\ UNCHANGED <<key, record, fileOf>>
        BY <2>4, <3>4 DEF SessionOpened
      <4>2. \A j \in Keys : files'[j] # None => key[files'[j]] = j
        BY <3>1, <4>1 DEF Isolated, ConversationsIsolated, FilesOfOwnKey, Typed, TypeOK
      <4>3. \A c \in Calls : phase'[c] = "unsent" => phase[c] = "unsent"
        BY <4>1 DEF Typed, TypeOK
      <4> QED BY <3>2, <4>1, <4>2, <4>3, HandoverIsolated DEF Isolated, ConversationsIsolated
    <3> QED BY <3>3, <3>4
  <2>5. CASE SessionNotOpened(m) \/ IndexNotSaved(m)
    BY <1>1, <2>5 DEF SessionNotOpened, IndexNotSaved, Reject, records
  <2>6. CASE IndexSaved(m)
    BY <2>6, ResolveIsolated DEF IndexSaved, Isolated, ConversationsIsolated, Typed, TypeOK
  <2>7. CASE PromptEnds(m) \/ Disconnect(m)
    BY <1>0, <1>1, <2>7 DEF PromptEnds, Disconnect, calls, Typed, TypeOK
  <2> QED BY <1>3, <2>1, <2>2, <2>3, <2>4, <2>5, <2>6, <2>7 DEF MessageStep, PostMessage
<1>4. ASSUME NEW d \in Deletes, DeleteStep(d) PROVE Isolated'
  <2>1. ASSUME NEW k \in Keys, PostDelete(d, k) PROVE Isolated'
    <3>1. PICK next \in {"joining", "stopping", "erasing"} :
            /\ Receive(d, k, next) /\ UNCHANGED fileOf
            /\ \A j \in Keys : /\ sessions'[j] \in {None, sessions[j]}
                               /\ files'[j] \in {None, files[j]}
            /\ \A n \in Calls : n # d => record'[n] = record[n]
            /\ record'[d] \in {record[d], sessions[k], files[k]}
      BY <1>0, <2>1 DEF PostDelete, Release, DropIndexEntry, Typed, TypeOK
    <3>2. phase[d] = "unsent" /\ record[d] = None
      BY <1>0, <3>1 DEF Receive, Isolated, Untouched
    <3>3. record'[d] # None => record'[d] \in Calls \ {d} /\ key[record'[d]] = k
      BY <1>0, <3>1, <3>2 DEF Isolated, ConversationsIsolated, Typed, TypeOK
    <3> QED BY <1>0, <3>1, <3>3, ReceiptIsolated DEF MessagePhases, DeletePhases, Replies
  <2>2. CASE SessionStopped(d)
    <3>1. /\ key[d] \in Keys /\ UNCHANGED <<key, fileOf, sessions>>
          /\ files' = [files EXCEPT ![key[d]] = None]
          /\ record' = [record EXCEPT ![d] = files[key[d]]]
          /\ phase[d] = "stopping" /\ phase' = [phase EXCEPT ![d] = "erasing"]
      BY <1>0, <2>2 DEF SessionStopped, DropIndexEntry, Typed, HandlersTyped
    <3> QED BY <1>0, <3>1, HandoverIsolated DEF Isolated, ConversationsIsolated, Typed, TypeOK
  <2>3. CASE Erased(d) \/ NotErased(d)
    BY <1>0, <1>1, <2>3 DEF Erased, NotErased, records, Typed, TypeOK
  <2> QED BY <1>4, <2>1, <2>2, <2>3 DEF DeleteStep
<1> QED BY <1>2, <1>3, <1>4 DEF Next

LEMMA AlwaysIsolated == Spec => []Isolated
<1>1. Init => Isolated
  BY DEF Init, Isolated, ConversationsIsolated, FilesOfOwnKey, Untouched, Calls
<1> QED BY <1>1, IsolatedStep, AlwaysTyped, PTL DEF Spec

(* A conversation is only ever served by sessions and files of its own     *)
(* key, whatever the calls for other keys do meanwhile.                    *)
THEOREM ConversationsApart == Spec => []ConversationsIsolated
<1>1. Isolated => ConversationsIsolated
  BY DEF Isolated
<1> QED BY <1>1, AlwaysIsolated, PTL

-----------------------------------------------------------------------------
(* Sessions are disposed *)

(* A creation has made its session when its index entry is being saved, no *)
(* earlier, and the place under its key is then its own or empty.          *)
PlaceIsOwn ==
  \A m \in Messages :
    /\ phase[m] \in {"unsent", "opening"} => m \notin made
    /\ phase[m] = "opening" => sessions[key[m]] = None
    /\ phase[m] = "saving" => m \in made /\ sessions[key[m]] \in {None, m}

Accounted == NoSessionLost /\ PlaceIsOwn

(* Sessions that leave the map are disposed of, or a DELETE stops them.    *)
LEMMA DepartureAccounted ==
  ASSUME Typed, Accounted, made' = made, disposed \subseteq disposed',
         \A m \in Messages : phase[m] # "unsent" => key'[m] = key[m],
         \A j \in Keys : \/ sessions'[j] = sessions[j]
                         \/ sessions'[j] = None /\
                              \/ sessions[j] \in disposed' \cup {None}
                              \/ \E d \in Deletes : phase'[d] = "stopping" /\ record'[d] = sessions[j],
         \A d \in Deletes : phase[d] = "stopping" =>
            \/ phase'[d] = "stopping" /\ record'[d] = record[d]
            \/ record[d] \in disposed',
         \A m \in Messages :
            \/ phase'[m] = phase[m]
            \/ phase[m] # "unsent" /\ phase'[m] \notin {"unsent", "opening", "saving"}
            \/ phase[m] = "unsent" /\ phase'[m] \notin {"saving"} /\
                 (phase'[m] = "opening" => key'[m] \in Keys /\ sessions[key'[m]] = None)
  PROVE  Accounted'
<1>1. \A m \in Messages : m \in made => phase[m] # "unsent" /\ key[m] \in Keys
  BY DEF Accounted, PlaceIsOwn, Typed, HandlersTyped, Calls
<1>2. NoSessionLost'
  BY <1>1, NoneAssumption DEF Accounted, NoSessionLost, Typed, TypeOK, Calls
<1>3. ASSUME NEW m \in Messages
      PROVE  /\ phase'[m] \in {"unsent", "opening"} => m \notin made
             /\ phase'[m] = "opening" => sessions'[key'[m]] = None
             /\ phase'[m] = "saving" => m \in made /\ sessions'[key'[m]] \in {None, m}
  <2>1. phase[m] # "unsent" => key[m] \in Keys
    BY DEF Typed, HandlersTyped, Calls
  <2> QED BY <2>1 DEF Accounted, PlaceIsOwn
<1> QED BY <1>2, <1>3 DEF Accounted, PlaceIsOwn

(* A settled creation leaves its session resident, disposed or stopped.    *)
LEMMA ResolveAccounted ==
  ASSUME Typed, Owned, Accounted, NEW m \in Messages, phase[m] \in {"opening", "saving"},
         NEW index, NEW resident,
         IF phase[m] = "opening" THEN resident = [sessions EXCEPT ![key[m]] = m]
                                 ELSE resident = sessions,
         Resolve(m, key[m], index, resident)
  PROVE  Accounted'
<1> DEFINE k == key[m]
           deleters == Sharing(k, "joining")
<1>1. PICK stopper \in Pick(IF resident[k] = m /\ TakenByOther(m) THEN deleters ELSE {}) :
        \E eraser \in Pick(deleters \ stopper) : Resume(m, k, index, stopper, eraser)
  BY DEF Resolve
<1>resume. PICK eraser \in Pick(deleters \ stopper) : Resume(m, k, index, stopper, eraser)
  BY <1>1
<1>2. /\ k \in Keys /\ m \in Calls /\ Messages \subseteq Calls /\ Deletes \subseteq Calls
      /\ None \notin Messages /\ \A d \in Deletes : d \notin Messages
  BY CallsAssumption, NoneAssumption DEF Calls, Typed, HandlersTyped
<1>3. deleters \subseteq Deletes
  BY <1>2 DEF Sharing, Calls, Typed, TypeOK, MessagePhases, Replies
<1>4. /\ key' = key /\ made' = made \cup {m} /\ disposed \subseteq disposed'
      /\ sessions' = IF deleters = {} THEN resident ELSE [resident EXCEPT ![k] = None]
  BY DEF Resolve
<1>5. /\ stopper \subseteq deleters /\ eraser \subseteq deleters /\ stopper \cap eraser = {}
      /\ resident[k] = m /\ TakenByOther(m) /\ deleters # {} => stopper # {}
  BY <1>1, <1>resume DEF Pick
<1>6. \A d \in Deletes : phase[d] = "stopping" => phase'[d] = "stopping" /\ record'[d] = record[d]
  BY <1>resume, <1>2, <1>5 DEF Resume, Sharing
<1>7. \A j \in Keys : j # k => sessions'[j] = sessions[j]
  BY <1>2, <1>4 DEF Typed, TypeOK
<1>8. /\ resident[k] \in {None, m}
      /\ phase[m] = "opening" => resident[k] = m
      /\ sessions'[k] = IF deleters = {} THEN resident[k] ELSE None
  BY <1>2, <1>4 DEF Accounted, PlaceIsOwn, Typed, TypeOK
<1>9. ASSUME resident[k] = m
      PROVE  \/ sessions'[k] = m \/ m \in disposed'
             \/ \E d \in Deletes : phase'[d] = "stopping" /\ record'[d] = m
  <2>1. CASE deleters = {}
    BY <1>8, <1>9, <2>1
  <2>2. CASE deleters # {} /\ ~TakenByOther(m)
    BY <1>9, <2>2 DEF Resolve
  <2>3. CASE deleters # {} /\ TakenByOther(m)
    <3>1. PICK d \in stopper : TRUE
      BY <1>5, <1>9, <2>3
    <3>2. d \in Deletes /\ d # m /\ d \notin Sharing(k, "waiting")
      BY <1>2, <1>3, <1>5, <3>1 DEF Sharing
    <3> QED BY <1>resume, <1>2, <3>1, <3>2 DEF Resume
  <2> QED BY <2>1, <2>2, <2>3
<1>10. NoSessionLost'
  <2> SUFFICES ASSUME NEW n \in Messages, n \in made', n \notin disposed'
               PROVE  \/ sessions'[key'[n]] = n
                      \/ \E d \in Deletes : phase'[d] = "stopping" /\ record'[d] = n
    BY DEF NoSessionLost
  <2>1. CASE \E d \in Deletes : phase[d] = "stopping" /\ record[d] = n
    BY <1>6, <2>1
  <2>2. CASE n = m /\ resident[k] = m
    BY <1>4, <1>9, <2>2
  <2>3. CASE n \in made /\ sessions[key[n]] = n
    <3>1. key[n] \in Keys
      BY <1>2, <2>3 DEF Accounted, PlaceIsOwn, Typed, HandlersTyped
    <3>2. CASE key[n] # k
      BY <1>4, <1>7, <2>3, <3>1, <3>2
    <3>3. CASE key[n] = k
      <4>1. n = m /\ phase[m] = "saving"
        BY <1>2, <2>3, <3>3 DEF Accounted, PlaceIsOwn
      <4> QED BY <2>2, <2>3, <4>1
    <3> QED BY <3>2, <3>3
  <2> QED BY <1>4, <1>8, <2>1, <2>2, <2>3 DEF Accounted, NoSessionLost, PlaceIsOwn
<1>11. PlaceIsOwn'
  <2>1. phase'[m] \notin {"unsent", "opening", "saving"}
    BY <1>resume, <1>2 DEF Resume
  <2>2. ASSUME NEW n \in Messages, n # m
        PROVE  /\ key'[n] = key[n]
               /\ phase'[n] \in {phase[n], "409"}
               /\ phase[n] \in {"opening", "saving"} => key[n] \in Keys \ {k}
    BY <1>resume, <1>2, <1>3, <1>4, <1>5, <2>2
       DEF Resume, Owned, OwnersNamed, Typed, HandlersTyped
  <2> QED BY <1>4, <1>7, <2>1, <2>2 DEF Accounted, PlaceIsOwn
<1> QED BY <1>10, <1>11 DEF Accounted

LEMMA AccountedStep == Typed /\ Owned /\ Accounted /\ [Next]_vars => Accounted'
<1> SUFFICES ASSUME Typed, Owned, Accounted, [Next]_vars PROVE Accounted'
  OBVIOUS
<1>0. /\ Messages \subseteq Calls /\ Deletes \subseteq Calls /\ None \notin Calls
      /\ \A m \in Messages, d \in Deletes : m # d
  BY CallsAssumption, NoneAssumption DEF Calls
<1>1. CASE EvictExpired
  <2>1. PICK E \in SUBSET Resident : Release(E) /\ UNCHANGED <<calls, made>>
    BY <1>1 DEF EvictExpired, EvictionChoices, Idle
  <2> QED BY <2>1, DepartureAccounted DEF Release, calls, Typed, TypeOK
<1>2. CASE (\E k \in Keys : PostAbort(k)) \/ UNCHANGED vars
  BY <1>2, DepartureAccounted DEF PostAbort, vars, calls, records
<1>3. ASSUME NEW m \in Messages, MessageStep(m) PROVE Accounted'
  <2>1. ASSUME NEW k \in Keys, PostMessageToResident(m, k) \/ PostMessageToPending(m, k)
        PROVE  Accounted'
    <3>1. PICK next \in {"409", "running", "waiting"} :
            /\ Receive(m, k, next) /\ UNCHANGED <<sessions, made, disposed>>
            /\ \A d \in Deletes : record'[d] = record[d]
      BY <1>0, <2>1 DEF PostMessageToResident, PostMessageToPending, records, Typed, TypeOK
    <3> QED BY <1>0, <3>1, DepartureAccounted DEF Receive, Typed, TypeOK
  <2>2. ASSUME NEW k \in Keys, PostMessageCreates(m, k) PROVE Accounted'
    <3>1. PICK E \in SUBSET Resident, next \in {"503", "opening"} :
            Receive(m, k, next) /\ Release(E) /\ UNCHANGED <<record, made>>
      BY <2>2 DEF PostMessageCreates, EvictionChoices, Idle
    <3>2. /\ phase[m] = "unsent" /\ key'[m] = k /\ sessions[k] = None
          /\ \A c \in Calls : c # m => phase'[c] = phase[c] /\ key'[c] = key[c]
          /\ phase'[m] \in {"503", "opening"}
      BY <1>0, <2>2, <3>1 DEF PostMessageCreates, Receive, Typed, TypeOK
    <3>3. \A j \in Keys : \/ sessions'[j] = sessions[j]
                          \/ sessions'[j] = None /\ sessions[j] \in disposed'
      BY <3>1 DEF Release, Typed, TypeOK
    <3> QED BY <1>0, <3>1, <3>2, <3>3, DepartureAccounted DEF Release
  <2>3. CASE SessionOpened(m)
    <3>1. CASE Indexed(m)
      BY <2>3, <3>1, ResolveAccounted DEF SessionOpened
    <3>2. CASE ~Indexed(m)
      <4>1. /\ key[m] \in Keys /\ phase[m] = "opening" /\ phase'[m] = "saving"
            /\ sessions'[key[m]] = m /\ sessions[key[m]] = None
            /\ \A j \in Keys : j # key[m] => sessions'[j] = sessions[j]
            /\ \A c \in Calls : c # m => phase'[c] = phase[c]
            /\ made' = made \cup {m} /\ UNCHANGED <<key, record, disposed>>
        BY <1>0, <2>3, <3>2
           DEF SessionOpened, Accounted, PlaceIsOwn, Typed, TypeOK, HandlersTyped
      <4>2. \A n \in Messages : n # m /\ phase[n] \in {"opening", "saving"} =>
              key[n] \in Keys \ {key[m]}
        BY <1>0, <4>1 DEF Owned, OwnersNamed, Typed, HandlersTyped
      <4>3. PlaceIsOwn'
        BY <1>0, <4>1, <4>2 DEF Accounted, PlaceIsOwn
      <4>4. \A n \in Messages : n \in made => key[n] \in Keys
        BY <1>0 DEF Accounted, PlaceIsOwn, Typed, HandlersTyped
      <4>5. NoSessionLost'
        BY <1>0, <4>1, <4>4 DEF Accounted, NoSessionLost
      <4> QED BY <4>3, <4>5 DEF Accounted
    <3> QED BY <3>1, <3>2
  <2>4. CASE SessionNotOpened(m) \/ IndexNotSaved(m)
    <3>1. /\ UNCHANGED <<sessions, key, record, made, disposed>>
          /\ \A c \in Calls :
               \/ phase'[c] = phase[c]
               \/ phase[c] \in {"opening", "saving", "waiting", "joining"} /\ phase'[c] = "500"
      BY <2>4 DEF SessionNotOpened, IndexNotSaved, Reject, Sharing, records
    <3> QED BY <1>0, <3>1, DepartureAccounted
  <2>5. CASE IndexSaved(m)
    BY <2>5, ResolveAccounted DEF IndexSaved
  <2>6. CASE PromptEnds(m)
    <3>1. PICK status \in Replies : phase' = [phase EXCEPT ![m] = status]
      BY <2>6 DEF PromptEnds, Replies
    <3>2. /\ phase[m] = "running" /\ phase'[m] = status
          /\ \A c \in Calls : c # m => phase'[c] = phase[c]
      BY <1>0, <2>6, <3>1 DEF PromptEnds, Typed, TypeOK
    <3> QED BY <1>0, <2>6, <3>2, DepartureAccounted DEF PromptEnds, Replies
  <2>7. CASE Disconnect(m)
    BY <2>7, DepartureAccounted DEF Disconnect, calls
  <2> QED BY <1>3, <2>1, <2>2, <2>3, <2>4, <2>5, <2>6, <2>7 DEF MessageStep, PostMessage
<1>4. ASSUME NEW d \in Deletes, DeleteStep(d) PROVE Accounted'
  <2>1. ASSUME NEW k \in Keys, PostDelete(d, k) PROVE Accounted'
    <3>1. PICK next \in {"joining", "stopping", "erasing"} :
            /\ Receive(d, k, next) /\ made' = made /\ disposed \subseteq disposed'
            /\ \A c \in Calls : c # d => record'[c] = record[c]
      BY <1>0, <2>1 DEF PostDelete, Release, DropIndexEntry, Typed, TypeOK
    <3>2. /\ phase[d] = "unsent" /\ phase'[d] = next
          /\ \A c \in Calls : c # d => phase'[c] = phase[c] /\ key'[c] = key[c]
      BY <1>0, <3>1 DEF Receive, Typed, TypeOK
    <3>3. \A j \in Keys : \/ sessions'[j] = sessions[j]
                          \/ sessions'[j] = None /\
                               \/ sessions[j] \in disposed' \cup {None}
                               \/ phase'[d] = "stopping" /\ record'[d] = sessions[j]
      BY <1>0, <2>1 DEF PostDelete, Receive, Release, Held, Typed, TypeOK
    <3> QED BY <1>0, <3>1, <3>2, <3>3, DepartureAccounted
  <2>2. CASE SessionStopped(d)
    BY <1>0, <2>2, DepartureAccounted DEF SessionStopped, DropIndexEntry, Typed, TypeOK
  <2>3. CASE Erased(d) \/ NotErased(d)
    BY <1>0, <2>3, DepartureAccounted DEF Erased, NotErased, records, Typed, TypeOK
  <2> QED BY <1>4, <2>1, <2>2, <2>3 DEF DeleteStep
<1> QED BY <1>1, <1>2, <1>3, <1>4 DEF Next

(* Whatever the order of creations, evictions and deletes, an AgentSession *)
(* is resident, disposed, or in the hands of the DELETE that stops it.     *)
THEOREM SessionsDisposed == Spec => []NoSessionLost
<1>1. Init => Owned /\ Accounted
  BY DEF Init, Owned, CreationOwned, OwnersNamed, Accounted, NoSessionLost, PlaceIsOwn, Calls
<1>2. Accounted => NoSessionLost
  BY DEF Accounted
<1> QED BY <1>1, <1>2, OwnedStep, AccountedStep, AlwaysTyped, PTL DEF Spec

-----------------------------------------------------------------------------
(* The index *)

(* A step that moves no file and makes no session resident keeps the index *)
(* in line with the resident sessions.                                     *)
LEMMA NoMoveIndexed ==
  ASSUME Typed, Isolated, ResidentIsIndexed,
         \A d \in Deletes : phase[d] # "unsent" => key'[d] = key[d],
         \A d \in Deletes : phase[d] = "unsent" => key[d] = None,
         \A m \in Messages : phase[m] # "unsent" => fileOf'[m] = fileOf[m],
         \A j \in Keys : /\ sessions'[j] \in {None, sessions[j]}
                         /\ \/ files'[j] = files[j] \/ sessions'[j] = None
                            \/ \E d \in Deletes : key'[d] = j
  PROVE  ResidentIsIndexed'
<1>1. ASSUME NEW j \in Keys, sessions'[j] # None, \A d \in Deletes : key'[d] # j
      PROVE  files'[j] = fileOf'[sessions'[j]]
  <2>1. /\ sessions'[j] = sessions[j] /\ sessions[j] \in Messages /\ files'[j] = files[j]
        /\ \A d \in Deletes : key[d] # j
    BY <1>1, NoneAssumption DEF Typed, TypeOK
  <2>2. phase[sessions[j]] # "unsent"
    BY <1>1, <2>1, UnsentIsUnnamed DEF Calls
  <2> QED BY <1>1, <2>1, <2>2 DEF ResidentIsIndexed
<1> QED BY <1>1 DEF ResidentIsIndexed

LEMMA ResolveIndexed ==
  ASSUME Typed, Isolated, ResidentIsIndexed, NEW m \in Messages,
         NEW resident \in [Keys -> Messages \cup {None}], key[m] \in Keys,
         \A j \in Keys : j # key[m] => resident[j] = sessions[j],
         resident[key[m]] # None /\ (\A d \in Deletes : key[d] # key[m])
            => files[key[m]] = fileOf[resident[key[m]]],
         Resolve(m, key[m], files, resident)
  PROVE  ResidentIsIndexed'
<1> DEFINE k == key[m]
<1>1. PICK stopper \in SUBSET Sharing(k, "joining"), eraser \in SUBSET Sharing(k, "joining") :
        Resume(m, k, files, stopper, eraser)
  BY DEF Resolve, Pick
<1>2. /\ UNCHANGED <<key, fileOf>>
      /\ \A j \in Keys : sessions'[j] \in {None, resident[j]}
      /\ \A j \in Keys : j # k => files'[j] = files[j]
      /\ eraser = {} => files'[k] = files[k]
  BY <1>1 DEF Resolve, Resume, Typed, TypeOK
<1>3. (\A d \in Deletes : key[d] # k) => eraser = {}
  BY <1>1, CallsAssumption DEF Sharing, Calls, Typed, TypeOK, MessagePhases, Replies
<1> QED BY <1>2, <1>3 DEF ResidentIsIndexed

LEMMA IndexedStep ==
  Typed /\ Isolated /\ ResidentIsIndexed /\ [Next]_vars => ResidentIsIndexed'
<1> SUFFICES ASSUME Typed, Isolated, ResidentIsIndexed, [Next]_vars
             PROVE  ResidentIsIndexed'
  OBVIOUS
<1>0. /\ Messages \subseteq Calls /\ Deletes \subseteq Calls
      /\ \A m \in Messages, d \in Deletes : m # d
      /\ \A d \in Deletes : phase[d] = "unsent" => key[d] = None
  BY CallsAssumption DEF Calls, Isolated, Untouched
<1>1. CASE UNCHANGED <<key, files, fileOf>> /\ \A j \in Keys : sessions'[j] \in {None, sessions[j]}
  BY <1>0, <1>1, NoMoveIndexed
<1>2. CASE EvictExpired \/ (\E k \in Keys : PostAbort(k)) \/ UNCHANGED vars
  BY <1>1, <1>2 DEF EvictExpired, Release, PostAbort, vars, calls, records
<1>3. ASSUME NEW m \in Messages, MessageStep(m) PROVE ResidentIsIndexed'
  <2>1. ASSUME NEW k \in Keys, PostMessage(m, k) PROVE ResidentIsIndexed'
    <3>1. phase[m] = "unsent" /\ key' = [key EXCEPT ![m] = k]
      BY <2>1 DEF PostMessage, PostMessageToResident, PostMessageToPending,
                  PostMessageCreates, Receive
    <3>2. \A n \in Messages : n # m => fileOf'[n] = fileOf[n]
      BY <2>1 DEF PostMessage, PostMessageToResident, PostMessageToPending,
                  PostMessageCreates, records, Typed, TypeOK
    <3>3. \A j \in Keys : /\ sessions'[j] \in {None, sessions[j]}
                          /\ files'[j] = files[j] \/ sessions'[j] = None
      <4>1. CASE PostMessageToResident(m, k) \/ PostMessageToPending(m, k)
        BY <4>1 DEF PostMessageToResident, PostMessageToPending
      <4>2. CASE PostMessageCreates(m, k)
        <5>1. PICK E : Release(E)
          BY <4>2 DEF PostMessageCreates
        <5>2. sessions[k] = None /\ (files' = files \/ files' = [files EXCEPT ![k] = None])
          BY <4>2 DEF PostMessageCreates
        <5> QED BY <5>1, <5>2 DEF Release, Typed, TypeOK
      <4> QED BY <2>1, <4>1, <4>2 DEF PostMessage
    <3>4. /\ \A d \in Deletes : key'[d] = key[d]
          /\ \A n \in Messages : phase[n] # "unsent" => fileOf'[n] = fileOf[n]
      BY <1>0, <3>1, <3>2 DEF Typed, TypeOK
    <3> QED BY <1>0, <3>3, <3>4, NoMoveIndexed
  <2>2. CASE SessionOpened(m)
    <3>1. key[m] \in Keys
      BY <1>0, <2>2 DEF SessionOpened, Typed, HandlersTyped
    <3>2. CASE Indexed(m)
      <4> DEFINE resident == [sessions EXCEPT ![key[m]] = m]
      <4>1. /\ resident \in [Keys -> Messages \cup {None}] /\ resident[key[m]] = m
            /\ \A j \in Keys : j # key[m] => resident[j] = sessions[j]
        BY <3>1 DEF Typed, TypeOK
      <4>2. files[key[m]] = fileOf[m] /\ Resolve(m, key[m], files, resident)
        BY <2>2, <3>2 DEF SessionOpened, Indexed
      <4> HIDE DEF resident
      <4> QED BY <3>1, <4>1, <4>2, ResolveIndexed
    <3>3. CASE ~Indexed(m)
      BY <2>2, <3>1, <3>3 DEF SessionOpened, ResidentIsIndexed, Typed, TypeOK
    <3> QED BY <3>2, <3>3
  <2>3. CASE IndexSaved(m)
    <3>1. key[m] \in Keys
      BY <1>0, <2>3 DEF IndexSaved, Typed, HandlersTyped
    <3> QED BY <2>3, <3>1, ResolveIndexed DEF IndexSaved, ResidentIsIndexed, Typed, TypeOK
  <2>4. CASE SessionNotOpened(m) \/ IndexNotSaved(m) \/ PromptEnds(m) \/ Disconnect(m)
    BY <1>1, <2>4
       DEF SessionNotOpened, IndexNotSaved, Reject, PromptEnds, Disconnect, calls, records
  <2> QED BY <1>3, <2>1, <2>2, <2>3, <2>4 DEF MessageStep
<1>4. ASSUME NEW d \in Deletes, DeleteStep(d) PROVE ResidentIsIndexed'
  <2>1. ASSUME NEW k \in Keys, PostDelete(d, k) PROVE ResidentIsIndexed'
    <3>1. /\ phase[d] = "unsent" /\ key'[d] = k /\ fileOf' = fileOf
          /\ \A c \in Calls : c # d => key'[c] = key[c]
      BY <1>0, <2>1 DEF PostDelete, Receive, Typed, TypeOK
    <3>2. \A j \in Keys : /\ sessions'[j] \in {None, sessions[j]}
                          /\ files'[j] = files[j] \/ j = k
      BY <2>1 DEF PostDelete, Release, DropIndexEntry, Typed, TypeOK
    <3> QED BY <1>0, <3>1, <3>2, NoMoveIndexed
  <2>2. CASE SessionStopped(d)
    <3>1. /\ UNCHANGED <<key, fileOf, sessions>>
          /\ \A j \in Keys : files'[j] = files[j] \/ j = key[d]
      BY <2>2 DEF SessionStopped, DropIndexEntry, Typed, TypeOK
    <3> QED BY <1>0, <3>1, NoMoveIndexed
  <2>3. CASE Erased(d) \/ NotErased(d)
    BY <1>1, <2>3 DEF Erased, NotErased, records
  <2> QED BY <1>4, <2>1, <2>2, <2>3 DEF DeleteStep
<1> QED BY <1>2, <1>3, <1>4 DEF Next

(* Unless a DELETE has named its key, a resident session has an entry in   *)
(* the index that names its file, for the next write to save.              *)
THEOREM ResidentsIndexed == Spec => []ResidentIsIndexed
<1>1. Init => ResidentIsIndexed
  BY DEF Init, ResidentIsIndexed
<1> QED BY <1>1, IndexedStep, AlwaysTyped, AlwaysIsolated, PTL DEF Spec

=============================================================================
