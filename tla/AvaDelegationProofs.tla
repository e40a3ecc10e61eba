------------------------ MODULE AvaDelegationProofs ------------------------
(***************************************************************************)
(* Theorems about AvaDelegation, for every set of connections and calls,   *)
(* every number of threads and every capacity of the service.              *)
(***************************************************************************)
EXTENDS AvaDelegation, TLAPS

-----------------------------------------------------------------------------
(* The handlers of the voice agent *)

(* A call that was made has a connection, and the slot of a connection     *)
(* holds a call of its own that has not ended.                             *)
CallsTyped ==
  /\ call \in [Messages -> CallStates]
  /\ caller \in [Messages -> Keys \cup {None}]
  /\ slot \in [Keys -> Messages \cup {None}]
  /\ fillers \cup cancelled \cup stopped \subseteq Messages
  /\ latest \in [Keys -> Messages \cup {None}]
  /\ \A c \in Messages : call[c] # "unmade" => caller[c] \in Keys
  /\ \A k \in Keys : slot[k] # None =>
       caller[slot[k]] = k /\ call[slot[k]] \in {"waiting", "aborting"}

(* Requests are made for calls.                                            *)
TransfersTyped ==
  /\ request \in [Messages -> TransferStates]
  /\ abort \in [Messages -> TransferStates \ {"dropped"}]
  /\ \A c \in Messages : call[c] = "unmade" => request[c] = "none" /\ abort[c] = "none"

(* What the handlers rely on when they resume: a filler is pending only    *)
(* while its call waits, and a cancelled call is past the wait.            *)
HandlersSound ==
  /\ LatestIsCancellable
  /\ \A k \in Keys : latest[k] # None => call[latest[k]] # "unmade"
  /\ \A c \in fillers : call[c] \in {"waiting", "aborting"}
  /\ \A c \in cancelled : call[c] \in {"aborting", "aborted", "answering", "muted"}

Orderly == CallsTyped /\ TransfersTyped /\ HandlersSound

(* The end of a wait, as every handler that awaits a transfer leaves it.   *)
LEMMA LeavesOrderly ==
  ASSUME CallsTyped, HandlersSound, NEW c \in Messages, NEW from, NEW next,
         \/ from = "waiting" /\ next \in {"answering", "answered", "failed"}
         \/ from = "aborting" /\ next = "aborted",
         Leaves(c, from, next)
  PROVE  /\ CallsTyped' /\ HandlersSound'
         /\ \A n \in Messages : call'[n] = "unmade" <=> call[n] = "unmade"
<1>1. CASE UNCHANGED <<call, slot, fillers>>
  BY <1>1 DEF Leaves, CallsTyped, HandlersSound, LatestIsCancellable
<1>2. CASE call[c] = from /\ call' = [call EXCEPT ![c] = next] /\ slot' = Vacated(c)
           /\ fillers' = fillers \ {c}
  <2>1. /\ call'[c] = next /\ call[c] \in {"waiting", "aborting"} /\ caller[c] \in Keys
        /\ \A n \in Messages : n # c => call'[n] = call[n]
        /\ next \in CallStates \ {"unmade", "waiting", "aborting"}
    BY <1>2 DEF CallsTyped, CallStates, Ended
  <2>2. /\ slot' \in [Keys -> Messages \cup {None}]
        /\ \A k \in Keys : slot'[k] = IF slot[k] = c THEN None ELSE slot[k]
    BY <1>2, <2>1 DEF CallsTyped, Vacated
  <2>3. c \in cancelled => call[c] = "aborting"
    BY <2>1 DEF HandlersSound
  <2>4. UNCHANGED <<caller, cancelled, stopped, latest>>
    BY DEF Leaves
  <2>5. CallsTyped'
    BY <1>2, <2>1, <2>2, <2>4 DEF CallsTyped
  <2>6. HandlersSound'
    BY <1>2, <2>1, <2>2, <2>3, <2>4 DEF CallsTyped, HandlersSound, LatestIsCancellable
  <2> QED BY <2>1, <2>5, <2>6
<1> QED BY <1>1, <1>2 DEF Leaves, Dropped

(* The start of a cancellation.                                            *)
LEMMA CancelOrderly ==
  ASSUME Orderly, NEW c \in Messages, call[c] = "waiting", Cancel(c),
         stopped' \subseteq stopped \cup {c}, cancelled' \subseteq cancelled \cup {c}
  PROVE  Orderly'
<1>1. /\ call'[c] = "aborting" /\ call' \in [Messages -> CallStates]
      /\ \A n \in Messages : n # c => call'[n] = call[n]
      /\ UNCHANGED <<caller, slot, fillers, latest>>
  BY DEF Cancel, Orderly, CallsTyped, CallStates
<1>2. CallsTyped'
  BY <1>1 DEF Orderly, CallsTyped
<1>3. TransfersTyped'
  BY <1>1 DEF Cancel, Orderly, TransfersTyped, TransferStates, OnThread
<1>4. HandlersSound'
  BY <1>1 DEF Orderly, CallsTyped, HandlersSound, LatestIsCancellable
<1> QED BY <1>2, <1>3, <1>4 DEF Orderly

LEMMA HandlerOrderly ==
  ASSUME Orderly, NEW c \in Messages, HandlerStep(c)
  PROVE  Orderly'
<1>0. None \notin Messages /\ None \notin Keys
  BY AbsenceAssumption
<1>1. ASSUME NEW k \in Keys, CallBackend(c, k) PROVE Orderly'
  <2>1. /\ call[c] = "unmade" /\ call'[c] = "waiting" /\ call' \in [Messages -> CallStates]
        /\ \A n \in Messages : n # c => call'[n] = call[n]
        /\ caller'[c] = k /\ caller' \in [Messages -> Keys \cup {None}]
        /\ \A n \in Messages : n # c => caller'[n] = caller[n]
        /\ slot'[k] = c /\ slot' \in [Keys -> Messages \cup {None}]
        /\ \A j \in Keys : j # k => slot'[j] = slot[j]
        /\ latest'[k] = c /\ latest' \in [Keys -> Messages \cup {None}]
        /\ \A j \in Keys : j # k => latest'[j] = latest[j]
        /\ fillers' \subseteq fillers \cup {c}
        /\ UNCHANGED <<cancelled, stopped>>
    BY <1>1 DEF CallBackend, Orderly, CallsTyped, CallStates
  <2>2. CallsTyped'
    BY <1>0, <2>1 DEF Orderly, CallsTyped
  <2>3. TransfersTyped'
    BY <1>1, <2>1 DEF CallBackend, Orderly, TransfersTyped, TransferStates
  <2>4. HandlersSound'
    BY <1>0, <2>1 DEF Orderly, CallsTyped, HandlersSound, LatestIsCancellable
  <2> QED BY <2>2, <2>3, <2>4 DEF Orderly
<1>2. CASE FillerFires(c)
  BY <1>2 DEF FillerFires, transfers, Orderly, CallsTyped, TransfersTyped, HandlersSound,
              LatestIsCancellable
<1>3. CASE Answer(c)
  <2>1. /\ call[c] = "answering" /\ call'[c] = IF c \in cancelled THEN "muted" ELSE "answered"
        /\ call' \in [Messages -> CallStates]
        /\ \A n \in Messages : n # c => call'[n] = call[n]
        /\ UNCHANGED <<caller, slot, fillers, cancelled, stopped, latest, transfers>>
    BY <1>3 DEF Answer, MaySpeak, Orderly, CallsTyped, CallStates, Ended
  <2>2. CallsTyped'
    BY <2>1 DEF Orderly, CallsTyped
  <2>3. TransfersTyped'
    BY <2>1 DEF Orderly, TransfersTyped, transfers
  <2>4. HandlersSound'
    BY <2>1 DEF Orderly, CallsTyped, HandlersSound, LatestIsCancellable
  <2> QED BY <2>2, <2>3, <2>4 DEF Orderly
<1>4. CASE HandlerCancelled(c)
  <2>1. CASE call[c] = "waiting" /\ Cancel(c) /\ cancelled' = cancelled \cup {c} /\ UNCHANGED stopped
    BY <2>1, CancelOrderly
  <2>2. CASE call[c] = "aborting" /\ Leaves(c, "aborting", "aborted") /\ UNCHANGED transfers
    BY <2>2, LeavesOrderly DEF Orderly, TransfersTyped, transfers
  <2>3. CASE call[c] = "answering" /\ cancelled' = cancelled \cup {c}
             /\ UNCHANGED <<call, caller, slot, fillers, stopped, latest, transfers>>
    BY <2>3 DEF transfers, Orderly, CallsTyped, TransfersTyped, HandlersSound, LatestIsCancellable
  <2> QED BY <1>4, <2>1, <2>2, <2>3 DEF HandlerCancelled
<1> QED BY <1>1, <1>2, <1>3, <1>4 DEF HandlerStep

LEMMA TransferOrderly ==
  ASSUME Orderly, NEW c \in Messages, RequestStep(c) \/ AbortStep(c)
  PROVE  Orderly'
<1>1. ASSUME UNCHANGED handlers, TransfersTyped' PROVE Orderly'
  BY <1>1 DEF handlers, Orderly, CallsTyped, HandlersSound, LatestIsCancellable
<1>2. ASSUME NEW next, Leaves(c, "waiting", next), next \in {"answering", "answered", "failed"},
             NEW end \in TransferStates, request[c] # "none",
             request' = [request EXCEPT ![c] = end], abort' = abort
      PROVE  Orderly'
  <2>1. CallsTyped' /\ HandlersSound' /\ \A n \in Messages : call'[n] = "unmade" <=> call[n] = "unmade"
    BY <1>2, LeavesOrderly DEF Orderly
  <2> QED BY <1>2, <2>1 DEF Orderly, TransfersTyped
<1>3. ASSUME NEW end \in {"over", "broken"}, AbortOver(c, end), abort[c] # "none", request' = request
      PROVE  Orderly'
  <2>1. CallsTyped' /\ HandlersSound' /\ \A n \in Messages : call'[n] = "unmade" <=> call[n] = "unmade"
    BY <1>3, LeavesOrderly DEF Orderly, AbortOver, Resumed
  <2> QED BY <1>3, <2>1 DEF Orderly, TransfersTyped, AbortOver, TransferStates
<1>4. CASE RequestStarts(c)
  BY <1>1, <1>4 DEF RequestStarts, handlers, Orderly, TransfersTyped, TransferStates, OnThread
<1>5. CASE RequestArrives(c)
  BY <1>1, <1>5 DEF RequestArrives, handlers, Orderly, TransfersTyped, TransferStates, OnThread
<1>6. CASE ReplyRead(c)
  BY <1>2, <1>6 DEF ReplyRead, Outcome, TransferStates
<1>7. CASE RequestFails(c)
  BY <1>2, <1>7 DEF RequestFails, GivesUp, TransferStates
<1>8. CASE AbortStarts(c)
  BY <1>1, <1>8 DEF AbortStarts, handlers, Orderly, TransfersTyped, TransferStates, OnThread
<1>9. CASE AbortArrives(c)
  <2>1. CASE abort[c] = "sent" /\ abort' = [abort EXCEPT ![c] = "served"]
             /\ UNCHANGED handlers /\ UNCHANGED request
    BY <1>1, <2>1 DEF handlers, Orderly, TransfersTyped, TransferStates, OnThread
  <2>2. CASE abort[c] = "sent" /\ AbortOver(c, "over") /\ UNCHANGED request
    BY <1>3, <2>2
  <2> QED BY <1>9, <2>1, <2>2 DEF AbortArrives
<1>10. CASE AbortReplied(c) \/ AbortFails(c)
  BY <1>3, <1>10 DEF AbortReplied, AbortFails, OnThread
<1> QED BY <1>4, <1>5, <1>6, <1>7, <1>8, <1>9, <1>10 DEF RequestStep, AbortStep

LEMMA OrderlyStep == Orderly /\ [Next]_vars => Orderly'
<1> SUFFICES ASSUME Orderly, [Next]_vars PROVE Orderly'
  OBVIOUS
<1>1. CASE UNCHANGED <<handlers, transfers>>
  BY <1>1 DEF handlers, transfers, Orderly, CallsTyped, TransfersTyped, HandlersSound,
              LatestIsCancellable
<1>2. ASSUME NEW k \in Keys, CancelBackend(k) PROVE Orderly'
  <2>1. slot[k] \in Messages /\ call[slot[k]] = "waiting"
    BY <1>2 DEF CancelBackend, Pending, Orderly, CallsTyped
  <2> QED BY <1>2, <2>1, CancelOrderly DEF CancelBackend
<1>3. ASSUME NEW c \in Messages, ServiceStep(c) PROVE Orderly'
  BY <1>1, <1>3 DEF ServiceStep
<1>4. CASE EvictionStep \/ UNCHANGED vars
  BY <1>1, <1>4 DEF EvictionStep, vars
<1> QED BY <1>2, <1>3, <1>4, HandlerOrderly, TransferOrderly DEF Next

LEMMA AlwaysOrderly == Spec => []Orderly
<1>1. Init => Orderly
  BY AbsenceAssumption
     DEF Init, Orderly, CallsTyped, TransfersTyped, HandlersSound, LatestIsCancellable,
         CallStates, TransferStates
<1> QED BY <1>1, OrderlyStep, PTL DEF Spec

(* The call made last on a connection keeps the slot for as long as it     *)
(* waits, so that a cancel_backend stops it.                               *)
THEOREM LatestKeepsSlot == Spec => []LatestIsCancellable
<1>1. Orderly => LatestIsCancellable
  BY DEF Orderly, HandlersSound
<1> QED BY <1>1, AlwaysOrderly, PTL

(* No filler is spoken for a call that is over.                            *)
THEOREM FillersEndWithCalls == Spec => []NoLateFiller
<1>1. Orderly => NoLateFiller
  BY DEF Orderly, HandlersSound, NoLateFiller, Ended
<1> QED BY <1>1, AlwaysOrderly, PTL

(* A handler that was cancelled, once or twice, never speaks its answer.   *)
THEOREM CancelledStaySilent == Spec => []SilentOnceCancelled
<1>1. Orderly => SilentOnceCancelled
  BY DEF Orderly, HandlersSound, SilentOnceCancelled
<1> QED BY <1>1, AlwaysOrderly, PTL

-----------------------------------------------------------------------------
(* The service *)

(* Every step of the voice agent is a step of the service, or leaves it    *)
(* alone: a request arrives under a key of the service.                    *)
LEMMA ServiceStepOrNone == Orderly /\ [Next]_vars => [Pi!Next]_(Pi!vars)
<1> SUFFICES ASSUME Orderly, [Next]_vars PROVE Pi!Next \/ UNCHANGED service
  BY DEF service, Pi!vars, Pi!calls, Pi!records
<1>1. ASSUME NEW c \in Messages, Pi!MessageStep(c) PROVE Pi!Next
  BY <1>1 DEF Pi!Next
<1>2. ASSUME NEW c \in Messages, call[c] # "unmade" PROVE caller[c] \in Keys
  BY <1>2 DEF Orderly, CallsTyped
<1>3. ASSUME NEW c \in Messages, HandlerStep(c) PROVE UNCHANGED service
  BY <1>3 DEF HandlerStep, CallBackend, FillerFires, Answer, HandlerCancelled, Cancel
<1>4. ASSUME NEW c \in Messages, RequestStep(c) PROVE Pi!Next \/ UNCHANGED service
  <2>1. CASE RequestArrives(c)
    <3>1. Pi!PostMessage(c, caller[c]) /\ caller[c] \in Keys
      BY <1>2, <2>1 DEF RequestArrives, Conversation, Orderly, TransfersTyped
    <3> QED BY <1>1, <3>1 DEF Pi!MessageStep
  <2>2. CASE RequestFails(c)
    BY <1>1, <2>2 DEF RequestFails, Pi!MessageStep
  <2> QED BY <1>4, <2>1, <2>2 DEF RequestStep, RequestStarts, ReplyRead
<1>5. ASSUME NEW c \in Messages, AbortStep(c) PROVE Pi!Next \/ UNCHANGED service
  <2>1. CASE AbortArrives(c)
    <3>1. caller[c] \in Keys
      BY <1>2, <2>1 DEF AbortArrives, Orderly, TransfersTyped
    <3> QED BY <2>1, <3>1 DEF AbortArrives, Conversation, Pi!Next
  <2> QED BY <1>5, <2>1 DEF AbortStep, AbortStarts, AbortReplied, AbortFails
<1>6. ASSUME NEW c \in Messages, ServiceStep(c) PROVE Pi!Next
  BY <1>1, <1>6 DEF ServiceStep, Opens, Saves, Pi!MessageStep
<1>7. CASE (\E k \in Keys : CancelBackend(k)) \/ EvictionStep \/ UNCHANGED vars
  BY <1>7 DEF CancelBackend, Cancel, EvictionStep, vars, Pi!Next
<1> QED BY <1>3, <1>4, <1>5, <1>6, <1>7 DEF Next

(* What the voice agent makes the service do is a behaviour of the service *)
(* as PiSessions specifies it, so that what is proved of the service holds *)
(* under the voice agent too.                                              *)
THEOREM ServiceImplemented == Spec => Pi!Spec
<1>1. Init => Pi!Init
  BY DEF Init
<1> QED BY <1>1, ServiceStepOrNone, AlwaysOrderly, PTL DEF Spec, Pi!Spec

-----------------------------------------------------------------------------
(* What is proved of the service *)

(* PiSessions once more, with the facts proved of it.                      *)
Sessions == INSTANCE PiSessionsProofs

LEMMA ServiceAssumptions ==
  /\ Messages \cap Deletes = {}
  /\ None \notin Sessions!Calls /\ None \notin Keys
  /\ MaxSessions \in Nat \ {0}
BY AbsenceAssumption, CapacityAssumption DEF Deletes, Sessions!Calls

(* The two instances of PiSessions are the same specification.             *)
LEMMA SamePost ==
  ASSUME NEW c, NEW k
  PROVE  Pi!PostMessage(c, k) <=> Sessions!PostMessage(c, k)
<1>1. Pi!PostMessageToResident(c, k) <=> Sessions!PostMessageToResident(c, k)
  BY DEF Pi!PostMessageToResident, Sessions!PostMessageToResident, Pi!Receive,
         Sessions!Receive, Pi!Busy, Sessions!Busy
<1>2. Pi!PostMessageToPending(c, k) <=> Sessions!PostMessageToPending(c, k)
  BY DEF Pi!PostMessageToPending, Sessions!PostMessageToPending, Pi!InProgress,
         Sessions!InProgress, Pi!Receive, Sessions!Receive, Pi!records, Sessions!records
<1>3. Pi!PostMessageCreates(c, k) <=> Sessions!PostMessageCreates(c, k)
  <2>1. Pi!Occupancy = Sessions!Occupancy /\ \A E : Pi!HasRoom(E) <=> Sessions!HasRoom(E)
    <3>1. \A E : Pi!Cardinality(E) = Sessions!Cardinality(E)
      BY DEF Pi!Cardinality, Sessions!Cardinality
    <3> QED BY <3>1 DEF Pi!HasRoom, Sessions!HasRoom, Pi!Occupancy, Sessions!Occupancy,
                        Pi!Resident, Sessions!Resident, Pi!Creating, Sessions!Creating
  <2>2. Pi!EvictionChoices(TRUE) = Sessions!EvictionChoices(TRUE)
    <3>1. Pi!Idle = Sessions!Idle /\ Pi!Creating = Sessions!Creating
      BY DEF Pi!Idle, Sessions!Idle, Pi!BusyAt, Sessions!BusyAt, Pi!Busy, Sessions!Busy,
             Pi!Resident, Sessions!Resident, Pi!Creating, Sessions!Creating
    <3>2. \A E : Pi!Cardinality(E) = Sessions!Cardinality(E)
      BY DEF Pi!Cardinality, Sessions!Cardinality
    <3> QED BY <2>1, <3>1, <3>2 DEF Pi!EvictionChoices, Sessions!EvictionChoices
  <2>3. \A E : Pi!Release(E) <=> Sessions!Release(E)
    BY DEF Pi!Release, Sessions!Release
  <2>4. /\ Pi!InProgress(k) <=> Sessions!InProgress(k)
        /\ \A next : Pi!Receive(c, k, next) <=> Sessions!Receive(c, k, next)
    BY DEF Pi!InProgress, Sessions!InProgress, Pi!Receive, Sessions!Receive
  <2> QED BY <2>1, <2>2, <2>3, <2>4
          DEF Pi!PostMessageCreates, Sessions!PostMessageCreates
<1> QED BY <1>1, <1>2, <1>3 DEF Pi!PostMessage, Sessions!PostMessage

LEMMA SameMessageStep ==
  ASSUME NEW c \in Messages
  PROVE  Pi!MessageStep(c) <=> Sessions!MessageStep(c)
<1>1. Pi!SessionOpened(c) <=> Sessions!SessionOpened(c)
  BY DEF Pi!SessionOpened, Sessions!SessionOpened, Pi!Indexed, Sessions!Indexed,
         Pi!Resolve, Sessions!Resolve, Pi!Resume, Sessions!Resume, Pi!Sharing,
         Sessions!Sharing, Pi!Calls, Sessions!Calls, Pi!TakenByOther,
         Sessions!TakenByOther, Pi!Busy, Sessions!Busy, Pi!Pick, Sessions!Pick
<1>2. Pi!SessionNotOpened(c) <=> Sessions!SessionNotOpened(c)
  BY DEF Pi!SessionNotOpened, Sessions!SessionNotOpened, Pi!Reject, Sessions!Reject,
         Pi!Sharing, Sessions!Sharing, Pi!Calls, Sessions!Calls, Pi!records,
         Sessions!records
<1>3. Pi!IndexSaved(c) <=> Sessions!IndexSaved(c)
  BY DEF Pi!IndexSaved, Sessions!IndexSaved, Pi!Resolve, Sessions!Resolve, Pi!Resume,
         Sessions!Resume, Pi!Sharing, Sessions!Sharing, Pi!Calls, Sessions!Calls,
         Pi!TakenByOther, Sessions!TakenByOther, Pi!Busy, Sessions!Busy, Pi!Pick,
         Sessions!Pick
<1>4. Pi!IndexNotSaved(c) <=> Sessions!IndexNotSaved(c)
  BY DEF Pi!IndexNotSaved, Sessions!IndexNotSaved, Pi!Reject, Sessions!Reject,
         Pi!Sharing, Sessions!Sharing, Pi!Calls, Sessions!Calls, Pi!records,
         Sessions!records
<1>5. Pi!PromptEnds(c) <=> Sessions!PromptEnds(c)
  BY DEF Pi!PromptEnds, Sessions!PromptEnds
<1>6. Pi!Disconnect(c) <=> Sessions!Disconnect(c)
  BY DEF Pi!Disconnect, Sessions!Disconnect, Pi!calls, Sessions!calls
<1> QED BY <1>1, <1>2, <1>3, <1>4, <1>5, <1>6, SamePost DEF Pi!MessageStep, Sessions!MessageStep

LEMMA SameNext == [Pi!Next]_(Pi!vars) => [Sessions!Next]_(Sessions!vars)
<1>1. Pi!EvictExpired <=> Sessions!EvictExpired
  BY DEF Pi!EvictExpired, Sessions!EvictExpired, Pi!EvictionChoices,
         Sessions!EvictionChoices, Pi!HasRoom, Sessions!HasRoom, Pi!Occupancy,
         Sessions!Occupancy, Pi!Resident, Sessions!Resident, Pi!Creating,
         Sessions!Creating, Pi!Idle, Sessions!Idle, Pi!BusyAt, Sessions!BusyAt,
         Pi!Busy, Sessions!Busy, Pi!Release, Sessions!Release, Pi!calls, Sessions!calls
<1>2. \A k \in Keys : Pi!PostAbort(k) <=> Sessions!PostAbort(k)
  BY DEF Pi!PostAbort, Sessions!PostAbort, Pi!BusyAt, Sessions!BusyAt, Pi!Busy,
         Sessions!Busy, Pi!calls, Sessions!calls
<1>3. UNCHANGED Pi!vars <=> UNCHANGED Sessions!vars
  BY DEF Pi!vars, Sessions!vars, Pi!calls, Sessions!calls, Pi!records, Sessions!records
<1> QED BY <1>1, <1>2, <1>3, SameMessageStep DEF Pi!Next, Sessions!Next, Deletes

(* What later proofs use of the service: its types, busy records serve     *)
(* running calls, and conversations are isolated.                          *)
Served == Sessions!Typed /\ Sessions!BusyMeansRunning /\ Sessions!Isolated

LEMMA AlwaysServed == Spec => []Served
<1>1. Pi!Init => Sessions!Init
  BY DEF Pi!Init, Sessions!Init, Pi!Calls, Sessions!Calls
<1>2. Spec => Sessions!Spec
  BY <1>1, SameNext, ServiceImplemented, PTL DEF Pi!Spec, Sessions!Spec
<1>3. Sessions!Spec => []Sessions!Typed
  BY ServiceAssumptions, Sessions!AlwaysTyped
<1>4. Sessions!Spec => []Sessions!BusyMeansRunning
  BY ServiceAssumptions, Sessions!BusyIsExclusive
<1>5. Sessions!Spec => []Sessions!Isolated
  BY ServiceAssumptions, Sessions!AlwaysIsolated
<1> QED BY <1>2, <1>3, <1>4, <1>5, PTL DEF Served

-----------------------------------------------------------------------------
(* Which request an abort stops *)

(* A request has reached the service only for a call that was made, and    *)
(* under the key of its connection; an abort stops a call that was made.   *)
OwnKeys ==
  /\ \A c \in Messages : phase[c] # "unsent" => call[c] # "unmade" /\ key[c] = caller[c]
  /\ hit \in [Messages -> Messages \cup {None}]
  /\ \A c \in Messages : hit[c] # None => call[c] # "unmade" /\ call[hit[c]] # "unmade"
  /\ ConnectionsApart

(* A call gets its key when it arrives, and keeps it.                      *)
LEMMA ArrivalsOnly ==
  ASSUME Served, NEW c \in Messages, Opens(c) \/ Saves(c) \/ Pi!PromptEnds(c) \/ Pi!Disconnect(c)
  PROVE  UNCHANGED key /\ \A n \in Messages : phase'[n] # "unsent" => phase[n] # "unsent"
<1>1. \A n \in Messages : n \in Pi!Calls
  BY DEF Pi!Calls
<1>2. phase \in [Messages -> Sessions!MessagePhases \cup Sessions!DeletePhases]
  BY DEF Served, Sessions!Typed, Sessions!TypeOK, Sessions!Calls, Deletes
<1>3. ASSUME NEW k, NEW index, NEW resident, Pi!Resolve(c, k, index, resident), phase[c] # "unsent"
      PROVE  UNCHANGED key /\ \A n \in Messages : phase'[n] # "unsent" => phase[n] # "unsent"
  <2>1. PICK stopper \in SUBSET Pi!Sharing(k, "joining"), eraser \in SUBSET Pi!Sharing(k, "joining") :
          Pi!Resume(c, k, index, stopper, eraser)
    BY <1>3 DEF Pi!Resolve, Pi!Pick
  <2> QED BY <1>1, <1>3, <2>1 DEF Pi!Resolve, Pi!Resume, Pi!Sharing
<1>4. ASSUME NEW k, Pi!Reject(c, k), phase[c] # "unsent"
      PROVE  UNCHANGED key /\ \A n \in Messages : phase'[n] # "unsent" => phase[n] # "unsent"
  BY <1>1, <1>4 DEF Pi!Reject, Pi!Sharing, Pi!records
<1>5. CASE Opens(c)
  <2>1. phase[c] = "opening"
    BY <1>5 DEF Opens, Pi!SessionOpened, Pi!SessionNotOpened
  <2>2. CASE UNCHANGED key /\ phase' = [phase EXCEPT ![c] = "saving"]
    BY <1>2, <2>1, <2>2
  <2> QED BY <1>3, <1>4, <1>5, <2>1, <2>2 DEF Opens, Pi!SessionOpened, Pi!SessionNotOpened
<1>6. CASE Saves(c)
  BY <1>3, <1>4, <1>6 DEF Saves, Pi!IndexSaved, Pi!IndexNotSaved
<1>7. CASE Pi!PromptEnds(c) \/ Pi!Disconnect(c)
  BY <1>2, <1>7 DEF Pi!PromptEnds, Pi!Disconnect, Pi!calls
<1> QED BY <1>5, <1>6, <1>7

LEMMA OwnKeysStep == Orderly /\ Served /\ OwnKeys /\ [Next]_vars => OwnKeys'
<1> SUFFICES ASSUME Orderly, Served, OwnKeys, [Next]_vars PROVE OwnKeys'
  OBVIOUS
<1>0. /\ phase \in [Messages -> Sessions!MessagePhases \cup Sessions!DeletePhases]
      /\ key \in [Messages -> Keys \cup {None}]
      /\ None \notin Messages
  BY AbsenceAssumption DEF Served, Sessions!Typed, Sessions!TypeOK, Sessions!Calls, Deletes
<1>1. ASSUME UNCHANGED <<key, hit>>,
             \A n \in Messages : phase'[n] # "unsent" => phase[n] # "unsent",
             \A n \in Messages : call[n] # "unmade" => call'[n] # "unmade" /\ caller'[n] = caller[n]
      PROVE  OwnKeys'
  BY <1>1 DEF OwnKeys, ConnectionsApart
<1>2. ASSUME NEW c \in Messages, NEW from, NEW next, next # "unmade", Leaves(c, from, next)
      PROVE  \A n \in Messages : call[n] # "unmade" => call'[n] # "unmade" /\ caller'[n] = caller[n]
  BY <1>2 DEF Leaves, Orderly, CallsTyped
<1>3. ASSUME NEW c \in Messages, Cancel(c)
      PROVE  /\ UNCHANGED <<service, hit>>
             /\ \A n \in Messages : call[n] # "unmade" => call'[n] # "unmade" /\ caller'[n] = caller[n]
  BY <1>3 DEF Cancel, Orderly, CallsTyped
<1>4. ASSUME NEW c \in Messages, HandlerStep(c) PROVE OwnKeys'
  <2>1. ASSUME NEW k \in Keys, CallBackend(c, k) PROVE OwnKeys'
    BY <1>1, <2>1 DEF CallBackend, service, Orderly, CallsTyped
  <2>2. CASE FillerFires(c) \/ Answer(c)
    BY <1>1, <2>2 DEF FillerFires, Answer, service, transfers, Orderly, CallsTyped
  <2>3. CASE HandlerCancelled(c)
    BY <1>1, <1>2, <1>3, <2>3 DEF HandlerCancelled, service, transfers
  <2> QED BY <1>4, <2>1, <2>2, <2>3 DEF HandlerStep
<1>5. ASSUME NEW c \in Messages, RequestArrives(c) PROVE OwnKeys'
  <2>1. /\ call[c] # "unmade" /\ key' = [key EXCEPT ![c] = caller[c]]
        /\ \E next : phase' = [phase EXCEPT ![c] = next]
        /\ UNCHANGED <<hit, handlers>>
    BY <1>5 DEF RequestArrives, Conversation, Orderly, TransfersTyped, Pi!PostMessage,
                Pi!PostMessageToResident, Pi!PostMessageToPending, Pi!PostMessageCreates, Pi!Receive
  <2> QED BY <1>0, <2>1 DEF handlers, OwnKeys, ConnectionsApart
<1>6. ASSUME NEW c \in Messages, RequestStarts(c) \/ ReplyRead(c) \/ RequestFails(c)
      PROVE  OwnKeys'
  BY <1>1, <1>2, <1>6, ArrivalsOnly
     DEF RequestStarts, ReplyRead, Outcome, RequestFails, handlers, service
<1>7. ASSUME NEW c \in Messages, AbortArrives(c) PROVE OwnKeys'
  <2>1. CASE AbortOver(c, "over") /\ UNCHANGED <<hit, service>>
    BY <1>1, <1>2, <2>1 DEF AbortOver, Resumed, service
  <2>2. CASE Pi!PostAbort(caller[c]) /\ hit' = [hit EXCEPT ![c] = serving[sessions[caller[c]]]]
             /\ UNCHANGED handlers
    <3> DEFINE k == caller[c]
               n == serving[sessions[k]]
    <3>1. call[c] # "unmade" /\ k \in Keys
      BY <1>7 DEF AbortArrives, Orderly, TransfersTyped, CallsTyped
    <3>2. sessions[k] \in Messages /\ n \in Messages
      BY <1>0, <2>2, <3>1
         DEF Pi!PostAbort, Pi!BusyAt, Pi!Busy, Served, Sessions!Typed, Sessions!TypeOK
    <3>3. phase[n] = "running" /\ record[n] = sessions[k]
      BY <1>0, <3>2 DEF Served, Sessions!BusyMeansRunning, Sessions!Busy
    <3>4. key[n] = k
      BY <1>0, <3>1, <3>2, <3>3
         DEF Served, Sessions!Isolated, Sessions!ConversationsIsolated, Sessions!Calls
    <3>5. call[n] # "unmade" /\ caller[n] = k
      BY <3>2, <3>3, <3>4 DEF OwnKeys
    <3>6. UNCHANGED <<phase, key, call, caller>>
      BY <2>2 DEF Pi!PostAbort, Pi!calls, handlers
    <3>7. hit' = [hit EXCEPT ![c] = n]
      BY <2>2
    <3> HIDE DEF n
    <3> QED BY <1>0, <3>1, <3>2, <3>5, <3>6, <3>7 DEF OwnKeys, ConnectionsApart
  <2> QED BY <1>7, <2>1, <2>2 DEF AbortArrives, Conversation
<1>8. ASSUME NEW c \in Messages, AbortStarts(c) \/ AbortReplied(c) \/ AbortFails(c)
      PROVE  OwnKeys'
  BY <1>1, <1>2, <1>8 DEF AbortStarts, AbortReplied, AbortFails, AbortOver, Resumed, handlers, service
<1>9. ASSUME NEW c \in Messages, ServiceStep(c) PROVE OwnKeys'
  BY <1>1, <1>9, ArrivalsOnly DEF ServiceStep, handlers, transfers
<1>10. ASSUME NEW k \in Keys, CancelBackend(k) PROVE OwnKeys'
  <2>1. slot[k] \in Messages
    BY <1>10 DEF CancelBackend, Pending, Orderly, CallsTyped
  <2> QED BY <1>1, <1>3, <1>10, <2>1 DEF CancelBackend, service
<1>11. CASE EvictionStep \/ UNCHANGED vars
  BY <1>1, <1>11 DEF EvictionStep, Pi!EvictExpired, Pi!calls, vars, handlers, transfers, service
<1> QED BY <1>4, <1>5, <1>6, <1>7, <1>8, <1>9, <1>10, <1>11 DEF Next, RequestStep, AbortStep

LEMMA AlwaysOwnKeys == Spec => []OwnKeys
<1>1. Init => OwnKeys
  BY DEF Init, Pi!Init, Pi!Calls, OwnKeys, ConnectionsApart
<1> QED BY <1>1, OwnKeysStep, AlwaysOrderly, AlwaysServed, PTL DEF Spec

(* No connection stops the work of another one, although a POST abort only *)
(* names a session key: the session that it finds serves a call of the     *)
(* connection that asks.                                                   *)
THEOREM StopsStayApart == Spec => []ConnectionsApart
<1>1. OwnKeys => ConnectionsApart
  BY DEF OwnKeys
<1> QED BY <1>1, AlwaysOwnKeys, PTL

(* Every variable keeps its type.                                          *)
THEOREM TypeCorrect == Spec => []TypeOK
<1>1. Orderly /\ OwnKeys => TypeOK
  BY DEF Orderly, CallsTyped, TransfersTyped, OwnKeys, TypeOK
<1> QED BY <1>1, AlwaysOrderly, AlwaysOwnKeys, PTL

=============================================================================
