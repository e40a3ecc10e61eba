--------------------------- MODULE AvaDelegation ---------------------------
(***************************************************************************)
(* Ava's tools call_backend and cancel_backend                             *)
(* (examples/frontend_backend_agent/src/tool_handlers.py, pi_backend.py),  *)
(* composed with the Pi agent service they call (PiSessions).              *)
(*                                                                         *)
(* Each voice connection has a backend object with a session key of its    *)
(* own and one slot for its active request.  The handlers are coroutines   *)
(* of one event loop; their HTTP requests run in the threads of its        *)
(* executor, which all connections share.  A step is what a coroutine does *)
(* between two awaits, what a thread does until it blocks, or a step of    *)
(* the service.  Requests of different threads reach the service in any    *)
(* order.                                                                  *)
(*                                                                         *)
(* A call of call_backend, and the request that it makes, is named by the  *)
(* same constant (call_id in the code).                                    *)
(***************************************************************************)
EXTENDS Naturals, FiniteSets

CONSTANTS
  Keys,         \* voice connections, and the session keys they use
  Messages,     \* calls of call_backend
  Fillers,      \* those of them that come with a filler_text
  MaxSessions,  \* PI_MAX_SESSIONS
  Threads,      \* threads of the default executor
  None          \* None, "not in the map"

ASSUME ThreadsAssumption == Threads \in Nat \ {0}
ASSUME CapacityAssumption == MaxSessions \in Nat \ {0}
ASSUME AbsenceAssumption == None \notin Messages \cup Keys

(* No part of the voice agent sends a DELETE. *)
Deletes == {}

VARIABLES  \* of the service
  sessions, pending, files, removed, phase, key, record, fileOf, serving,
  aborting, made, disposed

Pi == INSTANCE PiSessions

VARIABLES
  call,       \* call -> where its handler is, or how it ended
  caller,     \* call -> its connection
  slot,       \* connection -> _active_task, as the call that made it
  request,    \* call -> where its POST messages is
  abort,      \* call -> where its POST abort is
  hit,        \* call -> the request that its POST abort stopped
  fillers,    \* calls whose filler_task is pending
  cancelled,  \* calls whose handler the pipeline cancelled
  stopped,    \* history: calls of which cancel_backend said "I stopped that"
  latest      \* history: connection -> the call made last

service ==
  <<sessions, pending, files, removed, phase, key, record, fileOf, serving,
    aborting, made, disposed>>
handlers == <<call, caller, slot, fillers, cancelled, stopped, latest>>
transfers == <<request, abort, hit>>
vars == <<handlers, transfers, service>>

Ended == {"answered", "muted", "failed", "aborted"}
CallStates == Ended \cup
  { "unmade",
    "waiting",    \* awaits the reply
    "answering",  \* has the reply, awaits the end of the filler task
    "aborting" }  \* was cancelled, awaits the POST abort
OnThread == {"sent", "served"}
TransferStates == OnThread \cup
  { "none",
    "queued",   \* waits for a thread
    "dropped",  \* was cancelled before it got one
    "over",     \* the reply was read
    "broken" }  \* the service was not reached, or did not reply in time

TypeOK ==
  /\ call \in [Messages -> CallStates]
  /\ caller \in [Messages -> Keys \cup {None}]
  /\ slot \in [Keys -> Messages \cup {None}]
  /\ request \in [Messages -> TransferStates]
  /\ abort \in [Messages -> TransferStates \ {"dropped"}]
  /\ hit \in [Messages -> Messages \cup {None}]
  /\ fillers \cup cancelled \cup stopped \subseteq Messages
  /\ latest \in [Keys -> Messages \cup {None}]
  /\ \A k \in Keys : slot[k] # None =>
       caller[slot[k]] = k /\ call[slot[k]] \in {"waiting", "aborting"}

Init ==
  /\ Pi!Init
  /\ call = [c \in Messages |-> "unmade"]
  /\ caller = [c \in Messages |-> None]
  /\ slot = [k \in Keys |-> None]
  /\ request = [c \in Messages |-> "none"]
  /\ abort = [c \in Messages |-> "none"]
  /\ hit = [c \in Messages |-> None]
  /\ fillers = {}
  /\ cancelled = {}
  /\ stopped = {}
  /\ latest = [k \in Keys |-> None]

-----------------------------------------------------------------------------
(* call_backend: the start *)

(* The filler is scheduled if there is one, and the request queued for a   *)
(* thread.  The slot is taken from whatever call had it.                   *)
CallBackend(c, k) ==
  /\ call[c] = "unmade"
  /\ call' = [call EXCEPT ![c] = "waiting"]
  /\ caller' = [caller EXCEPT ![c] = k]
  /\ slot' = [slot EXCEPT ![k] = c]
  /\ latest' = [latest EXCEPT ![k] = c]
  /\ request' = [request EXCEPT ![c] = "queued"]
  /\ fillers' = fillers \cup ({c} \cap Fillers)
  /\ UNCHANGED <<abort, hit, cancelled, stopped, service>>

(* The threshold passes: the filler is spoken. *)
FillerFires(c) ==
  /\ c \in fillers
  /\ fillers' = fillers \ {c}
  /\ UNCHANGED <<call, caller, slot, cancelled, stopped, latest, transfers, service>>

-----------------------------------------------------------------------------
(* call_backend: the end *)

(* The slot is given back, unless a later call has taken it. *)
Vacated_Always(c) == [slot EXCEPT ![caller[c]] = None]
Vacated(c) == [slot EXCEPT ![caller[c]] = IF @ = c THEN None ELSE @]

(* agent.call returns or raises, and the pending filler is cancelled: the  *)
(* handler is at `next', or never resumes because it is not at `from'.     *)
Dropped_OnAnswer(c, next) == IF next \in {"answering", "answered"} THEN {c} ELSE {}
Dropped(c, next) == {c}
Leaves(c, from, next) ==
  /\ UNCHANGED <<caller, cancelled, stopped, latest>>
  /\ \/ /\ call[c] = from
        /\ call' = [call EXCEPT ![c] = next]
        /\ slot' = Vacated(c)
        /\ fillers' = fillers \ Dropped(c, next)
     \/ /\ call[c] # from
        /\ UNCHANGED <<call, slot, fillers>>

(* The reply is read.  To cancel a filler that is still pending takes one  *)
(* more turn of the event loop.                                            *)
Outcome(c) ==
  IF phase[c] # "200" THEN "failed"
  ELSE IF c \in fillers THEN "answering" ELSE "answered"
ReplyRead(c) ==
  /\ request[c] = "served"
  /\ phase[c] \in Pi!Replies
  /\ request' = [request EXCEPT ![c] = "over"]
  /\ Leaves(c, "waiting", Outcome(c))
  /\ UNCHANGED <<abort, hit, service>>

(* The handler speaks the answer, unless the wait for the filler task has  *)
(* swallowed a cancellation of its own.                                    *)
MaySpeak_Always(c) == TRUE
MaySpeak(c) == c \notin cancelled
Answer(c) ==
  /\ call[c] = "answering"
  /\ call' = [call EXCEPT ![c] = IF MaySpeak(c) THEN "answered" ELSE "muted"]
  /\ UNCHANGED <<caller, slot, fillers, cancelled, stopped, latest, transfers, service>>

-----------------------------------------------------------------------------
(* Cancellation *)

(* The wait for the reply is cancelled, and with it a request that has no  *)
(* thread yet; one that has goes on.  The service is asked to abort.       *)
Cancel(c) ==
  /\ call' = [call EXCEPT ![c] = "aborting"]
  /\ request' = [request EXCEPT ![c] = IF @ = "queued" THEN "dropped" ELSE @]
  /\ abort' = [abort EXCEPT ![c] = "queued"]
  /\ UNCHANGED <<caller, slot, fillers, latest, hit, service>>

(* cancel_backend says that it stopped the call in the slot, or, changing  *)
(* nothing, that there is nothing pending.                                 *)
Pending(k) == slot[k] # None /\ call[slot[k]] = "waiting"
CancelBackend(k) ==
  /\ Pending(k)
  /\ Cancel(slot[k])
  /\ stopped' = stopped \cup {slot[k]}
  /\ UNCHANGED cancelled

(* The pipeline cancels the handler, and may do so again.  One that awaits *)
(* the POST abort ends at once, and leaves it to its thread.               *)
HandlerCancelled(c) ==
  \/ /\ call[c] = "waiting"
     /\ Cancel(c)
     /\ cancelled' = cancelled \cup {c}
     /\ UNCHANGED stopped
  \/ /\ call[c] = "aborting"
     /\ Leaves(c, "aborting", "aborted")
     /\ UNCHANGED <<transfers, service>>
  \/ /\ call[c] = "answering"
     /\ cancelled' = cancelled \cup {c}
     /\ UNCHANGED <<call, caller, slot, fillers, stopped, latest, transfers, service>>

-----------------------------------------------------------------------------
(* The threads and the connections to the service *)

Occupied == {c \in Messages : request[c] \in OnThread}
Aborters == {c \in Messages : abort[c] \in OnThread}
ThreadIsFree == Cardinality(Occupied) + Cardinality(Aborters) < Threads

RequestStarts(c) ==
  /\ request[c] = "queued"
  /\ ThreadIsFree
  /\ request' = [request EXCEPT ![c] = "sent"]
  /\ UNCHANGED <<abort, hit, handlers, service>>

(* The session key is made once for each backend object. *)
Conversation_Shared(c) == CHOOSE k \in Keys : TRUE
Conversation(c) == caller[c]
RequestArrives(c) ==
  /\ request[c] = "sent"
  /\ Pi!PostMessage(c, Conversation(c))
  /\ request' = [request EXCEPT ![c] = "served"]
  /\ UNCHANGED <<abort, hit, handlers>>

(* The service cannot be reached, or does not reply in time: the thread    *)
(* closes the connection, which the service hears while the prompt runs.   *)
GivesUp_Never(c) == FALSE
GivesUp(c) == request[c] = "sent" \/ (request[c] = "served" /\ phase[c] \notin Pi!Replies)
RequestFails(c) ==
  /\ GivesUp(c)
  /\ request' = [request EXCEPT ![c] = "broken"]
  /\ Leaves(c, "waiting", "failed")
  /\ IF phase[c] = "running" THEN Pi!Disconnect(c) ELSE UNCHANGED service
  /\ UNCHANGED <<abort, hit>>

AbortStarts(c) ==
  /\ abort[c] = "queued"
  /\ ThreadIsFree
  /\ abort' = [abort EXCEPT ![c] = "sent"]
  /\ UNCHANGED <<request, hit, handlers, service>>

(* The POST abort is over: the handler that awaits it raises. *)
Resumed_IfHit(c) == IF hit[c] = None THEN "none" ELSE "aborting"
Resumed(c) == "aborting"
AbortOver(c, end) ==
  /\ abort' = [abort EXCEPT ![c] = end]
  /\ Leaves(c, Resumed(c), "aborted")

(* The service aborts what runs in the session, and replies when that has  *)
(* ended; with nothing running it replies at once.                         *)
AbortArrives(c) ==
  LET k == Conversation(c) IN
  /\ abort[c] = "sent"
  /\ UNCHANGED request
  /\ \/ /\ Pi!PostAbort(k)
        /\ abort' = [abort EXCEPT ![c] = "served"]
        /\ hit' = [hit EXCEPT ![c] = serving[sessions[k]]]
        /\ UNCHANGED handlers
     \/ /\ ~Pi!BusyAt(k)
        /\ AbortOver(c, "over")
        /\ UNCHANGED <<hit, service>>

AbortReplied(c) ==
  /\ abort[c] = "served"
  /\ phase[hit[c]] # "running"
  /\ AbortOver(c, "over")
  /\ UNCHANGED <<request, hit, service>>

(* A transport failure of the POST abort is suppressed. *)
AbortFails(c) ==
  /\ abort[c] \in OnThread
  /\ AbortOver(c, "broken")
  /\ UNCHANGED <<request, hit, service>>

-----------------------------------------------------------------------------
(* The steps that the service takes by itself *)
Opens(c) == Pi!SessionOpened(c) \/ Pi!SessionNotOpened(c)
Saves(c) == Pi!IndexSaved(c) \/ Pi!IndexNotSaved(c)
ServiceStep(c) ==
  /\ Opens(c) \/ Saves(c) \/ Pi!PromptEnds(c)
  /\ UNCHANGED <<handlers, transfers>>
EvictionStep == Pi!EvictExpired /\ UNCHANGED <<handlers, transfers>>

HandlerStep(c) ==
  \/ \E k \in Keys : CallBackend(c, k)
  \/ FillerFires(c)
  \/ Answer(c)
  \/ HandlerCancelled(c)

RequestStep(c) ==
  RequestStarts(c) \/ RequestArrives(c) \/ ReplyRead(c) \/ RequestFails(c)

AbortStep(c) ==
  AbortStarts(c) \/ AbortArrives(c) \/ AbortReplied(c) \/ AbortFails(c)

Next ==
  \/ \E c \in Messages :
       HandlerStep(c) \/ RequestStep(c) \/ AbortStep(c) \/ ServiceStep(c)
  \/ \E k \in Keys : CancelBackend(k)
  \/ EvictionStep

Spec == Init /\ [][Next]_vars

(***************************************************************************)
(* The event loop and the threads go on, and urlopen gives up after its    *)
(* timeout.  Nothing is assumed of the service: it may never reply.        *)
(***************************************************************************)
FairSpec ==
  /\ Spec
  /\ \A c \in Messages :
       /\ WF_vars(Answer(c))
       /\ WF_vars(RequestStarts(c))
       /\ WF_vars(RequestArrives(c) \/ ReplyRead(c) \/ RequestFails(c))
       /\ WF_vars(AbortStarts(c))
       /\ WF_vars(AbortArrives(c) \/ AbortReplied(c) \/ AbortFails(c))

-----------------------------------------------------------------------------
(* Properties *)

(* The call made last is the one that a cancel_backend stops, as long as   *)
(* it waits: the end of an earlier call never takes the slot from it.      *)
LatestIsCancellable ==
  \A k \in Keys :
    latest[k] # None /\ call[latest[k]] = "waiting" => slot[k] = latest[k]

(* No connection stops the work of another one, whatever becomes of the    *)
(* session they compete for meanwhile.                                     *)
ConnectionsApart == \A c \in Messages : hit[c] # None => caller[hit[c]] = caller[c]

(* "Let me check that" is not said after the call is over, however it ends. *)
NoLateFiller == \A c \in Messages : c \in fillers => call[c] \notin Ended

(* A handler that the pipeline has cancelled does not speak its answer,    *)
(* also when the cancellation comes while it awaits its filler task, where *)
(* it is swallowed.                                                        *)
SilentOnceCancelled == \A c \in cancelled : call[c] # "answered"

(* Every call ends, though the service may not reply and all threads may   *)
(* be waiting for it.                                                      *)
EveryCallEnds == \A c \in Messages : call[c] # "unmade" ~> call[c] \in Ended

(* A POST abort gets a thread, though the requests it should stop may have *)
(* all of them, and its thread is given back.                              *)
StopGetsThrough == \A c \in Messages : abort[c] = "queued" ~> abort[c] \in {"over", "broken"}

-----------------------------------------------------------------------------
(* What the code says, and does not do *)

(* tool_handlers.py:38: cancel_active cancels any active invocation.  When *)
(* it says that nothing is pending, nothing is.                            *)
NothingPendingIsTrue ==
  \A k \in Keys : ~Pending(k) => \A c \in Messages : call[c] = "waiting" => caller[c] # k

(* prompts.yaml:14: cancel_backend stops active delegated Pi work.  Once   *)
(* the service has answered the abort, the request that was stopped does   *)
(* not run on.                                                             *)
StoppedWorkStops ==
  \A c \in stopped :
    abort[c] = "over" /\ phase[c] = "running" => record[c] \in aborting

(* tests/unit/test_pi_agent_backend.py:66: an abort carries the identifier *)
(* of the request it is for.  It stops that one or none.                   *)
OnlyTheStoppedStops == \A c \in Messages : hit[c] \in {None, c}

=============================================================================
