----------------------------- MODULE WorkerPool -----------------------------
(***************************************************************************)
(* The delegate_task tool of the Pi agent service                          *)
(* (pi-agent-service/src/server.mjs): runs of primary sessions call it,    *)
(* several calls at a time, and each call that finds room runs an          *)
(* ephemeral worker session until its prompt ends or the run is aborted.   *)
(*                                                                         *)
(* A step is what the one JavaScript thread does between two awaits.       *)
(* PiSessions takes the prompt of a primary session as one step; here is   *)
(* what may keep that prompt from ending.                                  *)
(***************************************************************************)
EXTENDS Naturals, FiniteSets

CONSTANTS
  Runs,       \* runs of primary sessions, one for each POST messages
  Tasks,      \* calls of delegate_task
  MaxWorkers, \* maxWorkers, from PI_MAX_WORKERS
  None        \* no run yet

ASSUME MaxAssumption == MaxWorkers \in Nat \ {0}
ASSUME TasksAssumption == IsFiniteSet(Tasks)
ASSUME NoneAssumption == None \notin Runs

VARIABLES
  activeWorkers,  \* the counter of that name
  aborted,        \* runs whose signal has been aborted
  ended,          \* runs whose prompt has settled
  phase,          \* task -> where its call is
  run,            \* task -> the run that called it
  made,           \* tasks whose worker session was created
  disposed,       \* tasks whose worker session was disposed
  told            \* tasks whose worker was told to abort

vars == <<activeWorkers, aborted, ended, phase, run, made, disposed, told>>

AtWork ==
  { "creating",   \* awaits createSession
    "prompting",  \* awaits worker.prompt
    "closing" }   \* awaits worker.abort in the finally block
Over == {"rejected", "completed", "failed", "aborted"}
Phases == {"unsent"} \cup AtWork \cup Over

Active == {t \in Tasks : phase[t] \in AtWork}

TypeOK ==
  /\ activeWorkers \in Nat
  /\ aborted \subseteq Runs
  /\ ended \subseteq Runs
  /\ phase \in [Tasks -> Phases]
  /\ run \in [Tasks -> Runs \cup {None}]
  /\ \A t \in Tasks : run[t] = None <=> phase[t] = "unsent"
  /\ made \subseteq Tasks
  /\ disposed \subseteq made
  /\ told \subseteq made

Init ==
  /\ activeWorkers = 0
  /\ aborted = {}
  /\ ended = {}
  /\ phase = [t \in Tasks |-> "unsent"]
  /\ run = [t \in Tasks |-> None]
  /\ made = {}
  /\ disposed = {}
  /\ told = {}

-----------------------------------------------------------------------------
(* The start of a call *)

HasRoom_OffByOne == activeWorkers <= MaxWorkers
HasRoom == activeWorkers < MaxWorkers

(* No room: the call throws.  An aborted signal throws next, before the    *)
(* worker is counted.                                                      *)
Delegate(t, r) ==
  /\ phase[t] = "unsent"
  /\ r \notin ended
  /\ run' = [run EXCEPT ![t] = r]
  /\ UNCHANGED <<aborted, ended, made, disposed, told>>
  /\ \/ /\ ~HasRoom
        /\ phase' = [phase EXCEPT ![t] = "rejected"]
        /\ UNCHANGED activeWorkers
     \/ /\ HasRoom
        /\ r \in aborted
        /\ phase' = [phase EXCEPT ![t] = "aborted"]
        /\ UNCHANGED activeWorkers
     \/ /\ HasRoom
        /\ r \notin aborted
        /\ phase' = [phase EXCEPT ![t] = "creating"]
        /\ activeWorkers' = activeWorkers + 1

-----------------------------------------------------------------------------
(* The end of a call: the finally block *)

Released_Uncounted == activeWorkers
Released == activeWorkers - 1

(* The worker is disposed and the call returns or throws. *)
Finish(t, outcome) ==
  /\ phase' = [phase EXCEPT ![t] = outcome]
  /\ activeWorkers' = Released
  /\ UNCHANGED <<aborted, ended, run, told>>

Disposed_IfUnaborted(t) == IF run[t] \in aborted THEN disposed ELSE disposed \cup {t}
Disposed(t) == disposed \cup {t}

(* What a call that fails reports. *)
Failure(t) == IF run[t] \in aborted THEN "aborted" ELSE "failed"

-----------------------------------------------------------------------------
(* The worker *)

NotCreated(t) ==
  /\ phase[t] = "creating"
  /\ Finish(t, Failure(t))
  /\ UNCHANGED <<made, disposed>>

(* The listener is installed, and then the signal is looked at: an abort   *)
(* that came during createSession is noticed here.                         *)
AbortSeen_Unchecked(t) == FALSE
AbortSeen(t) == run[t] \in aborted
Created(t) ==
  /\ phase[t] = "creating"
  /\ made' = made \cup {t}
  /\ \/ /\ AbortSeen(t)
        /\ Finish(t, "aborted")
        /\ disposed' = disposed \cup {t}
     \/ /\ ~AbortSeen(t)
        /\ phase' = [phase EXCEPT ![t] = "prompting"]
        /\ UNCHANGED <<activeWorkers, aborted, ended, run, disposed, told>>

(* worker.prompt returns: the result counts unless the signal was aborted. *)
PromptReturns(t) ==
  /\ phase[t] = "prompting"
  /\ Finish(t, IF run[t] \in aborted THEN "aborted" ELSE "completed")
  /\ disposed' = Disposed(t)
  /\ UNCHANGED made

(* worker.prompt throws, or its last message has no text; the worker may   *)
(* still be streaming, and is stopped before it is disposed.               *)
PromptThrows(t) ==
  /\ phase[t] = "prompting"
  /\ UNCHANGED made
  /\ \/ /\ Finish(t, Failure(t))
        /\ disposed' = Disposed(t)
     \/ /\ phase' = [phase EXCEPT ![t] = "closing"]
        /\ UNCHANGED <<activeWorkers, aborted, ended, run, disposed, told>>

Closed(t) ==
  /\ phase[t] = "closing"
  /\ Finish(t, Failure(t))
  /\ disposed' = Disposed(t)
  /\ UNCHANGED made

-----------------------------------------------------------------------------
(* The runs of the primary sessions *)

(* The signal of run r is aborted: the listener of each of its workers     *)
(* aborts it.                                                              *)
Listening(r) == {t \in Tasks : phase[t] = "prompting" /\ run[t] = r}
Abort(r) ==
  /\ r \notin ended
  /\ aborted' = aborted \cup {r}
  /\ told' = told \cup Listening(r)
  /\ UNCHANGED <<activeWorkers, ended, phase, run, made, disposed>>

(* A run settles when the tools it called have. *)
RunEnds(r) ==
  /\ r \notin ended
  /\ \A t \in Tasks : run[t] = r => phase[t] \in Over
  /\ ended' = ended \cup {r}
  /\ UNCHANGED <<activeWorkers, aborted, phase, run, made, disposed, told>>

-----------------------------------------------------------------------------
TaskStep(t) ==
  \/ \E r \in Runs : Delegate(t, r)
  \/ NotCreated(t)
  \/ Created(t)
  \/ PromptReturns(t)
  \/ PromptThrows(t)
  \/ Closed(t)

RunStep(r) == Abort(r) \/ RunEnds(r)

Next == (\E t \in Tasks : TaskStep(t)) \/ (\E r \in Runs : RunStep(r))

Spec == Init /\ [][Next]_vars

(***************************************************************************)
(* A session is created or not, a worker that was told to stop does, and a *)
(* run whose tools are over ends.  Nothing is assumed of a prompt that     *)
(* nobody aborts: a worker may work for ever.                              *)
(***************************************************************************)
FairSpec ==
  /\ Spec
  /\ \A t \in Tasks :
       /\ WF_vars(NotCreated(t) \/ Created(t))
       /\ WF_vars(t \in told /\ (PromptReturns(t) \/ PromptThrows(t)))
       /\ WF_vars(Closed(t))
  /\ \A r \in Runs : WF_vars(r \in aborted /\ RunEnds(r))

-----------------------------------------------------------------------------
(* Properties *)

(* docs/CONFIGURATION.md:16: the maximum of concurrent delegated workers,  *)
(* whatever calls of whatever runs overlap.                                *)
WorkerBound == Cardinality(Active) <= MaxWorkers

(* The counter is the number of calls that have a worker: no path through  *)
(* a call loses a place for ever or gives one back twice.                  *)
CountIsExact == activeWorkers = Cardinality(Active)

(* A worker session outlives its call on no path: when the call is over,   *)
(* it was disposed.                                                        *)
NoWorkerLost == \A t \in made : phase[t] \in Over => t \in disposed

(* A run that is aborted ends, although a call of it may be at any point,  *)
(* creating its worker included, and a worker left alone might never stop. *)
AbortEndsRun == \A r \in Runs : r \in aborted ~> r \in ended

=============================================================================
