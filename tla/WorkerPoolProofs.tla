-------------------------- MODULE WorkerPoolProofs --------------------------
(***************************************************************************)
(* Theorems about WorkerPool, for every finite set of calls, every set of  *)
(* runs and every maximum.                                                 *)
(***************************************************************************)
EXTENDS WorkerPool, FiniteSetTheorems, TLAPS

(* A call has made its worker when it awaits its prompt or its abort, and  *)
(* not before.                                                             *)
WorkerMade ==
  \A t \in Tasks :
    /\ phase[t] \in {"unsent", "creating"} => t \notin made
    /\ phase[t] \in {"prompting", "closing"} => t \in made

(* TypeOK does not hold by itself: that the counter stays in Nat when it   *)
(* is lowered follows from what it counts.                                 *)
Inv == TypeOK /\ CountIsExact /\ WorkerBound /\ WorkerMade /\ NoWorkerLost

LEMMA ActiveFinite == IsFiniteSet(Active)
BY TasksAssumption, FS_Subset DEF Active

(* A call that starts is one more, one that ends is one less, and any      *)
(* other move of a call that stays at work changes nothing.                *)
LEMMA OneMore ==
  ASSUME NEW t \in Tasks, NEW next \in AtWork, phase \in [Tasks -> Phases],
         phase[t] = "unsent", phase' = [phase EXCEPT ![t] = next]
  PROVE  Cardinality(Active') = Cardinality(Active) + 1 /\ Cardinality(Active) \in Nat
<1>1. Active' = Active \cup {t} /\ t \notin Active
  BY DEF Active, AtWork
<1> QED BY <1>1, ActiveFinite, FS_AddElement, FS_CardinalityType

LEMMA OneLess ==
  ASSUME NEW t \in Tasks, NEW next \in Phases \ AtWork, phase \in [Tasks -> Phases],
         phase[t] \in AtWork, phase' = [phase EXCEPT ![t] = next]
  PROVE  /\ Cardinality(Active') = Cardinality(Active) - 1
         /\ Cardinality(Active) \in Nat \ {0}
<1>1. Active' = Active \ {t} /\ t \in Active
  BY DEF Active
<1>2. Cardinality(Active \ {t}) = Cardinality(Active) - 1
  BY <1>1, ActiveFinite, FS_RemoveElement
<1>3. Cardinality(Active) # 0
  BY <1>1, ActiveFinite, FS_EmptySet
<1> QED BY <1>1, <1>2, <1>3, ActiveFinite, FS_CardinalityType

LEMMA SameNumber ==
  ASSUME phase \in [Tasks -> Phases],
         \A t \in Tasks : phase[t] \in AtWork <=> phase'[t] \in AtWork
  PROVE  Active' = Active
BY DEF Active

(* The finally block gives back the one place the call has.                *)
LEMMA FinishCounts ==
  ASSUME Inv, NEW t \in Tasks, NEW outcome \in Over, phase[t] \in AtWork,
         Finish(t, outcome)
  PROVE  /\ CountIsExact' /\ WorkerBound' /\ activeWorkers' \in Nat
         /\ phase' \in [Tasks -> Phases]
         /\ phase'[t] = outcome
         /\ \A u \in Tasks \ {t} : phase'[u] = phase[u]
         /\ UNCHANGED <<aborted, ended, run, told>>
<1>1. outcome \in Phases \ AtWork
  BY DEF Over, Phases, AtWork
<1>2. /\ Cardinality(Active') = Cardinality(Active) - 1
      /\ Cardinality(Active) \in Nat \ {0}
  BY <1>1, OneLess DEF Inv, TypeOK, Finish
<1> QED BY <1>1, <1>2, MaxAssumption DEF Inv, TypeOK, Finish, Released, CountIsExact, WorkerBound

(* What the end of a call needs besides: that it disposes of its worker.   *)
LEMMA FinishKeeps ==
  ASSUME Inv, NEW t \in Tasks, NEW outcome \in Over, phase[t] \in AtWork,
         Finish(t, outcome),
         \/ phase[t] = "creating" /\ made' = made /\ disposed' = disposed
         \/ t \in made' /\ made' = made \cup {t} /\ disposed' = disposed \cup {t}
  PROVE  Inv'
<1>1. /\ CountIsExact' /\ WorkerBound' /\ activeWorkers' \in Nat
      /\ phase' \in [Tasks -> Phases]
      /\ phase'[t] = outcome
      /\ \A u \in Tasks \ {t} : phase'[u] = phase[u]
      /\ UNCHANGED <<aborted, ended, run, told>>
  BY FinishCounts
<1>2. outcome \notin {"unsent", "creating", "prompting", "closing"} /\ phase[t] # "unsent"
  BY DEF Over, AtWork
<1>3. TypeOK'
  BY <1>1, <1>2 DEF Inv, TypeOK
<1>4. WorkerMade' /\ NoWorkerLost'
  BY <1>1, <1>2 DEF Inv, TypeOK, WorkerMade, NoWorkerLost, Over
<1> QED BY <1>1, <1>3, <1>4 DEF Inv

LEMMA InvInit == Init => Inv
<1> SUFFICES ASSUME Init PROVE Inv
  OBVIOUS
<1>1. Active = {}
  BY DEF Init, Active, AtWork
<1>2. Cardinality(Active) = 0
  BY <1>1, FS_EmptySet
<1> QED BY <1>2, MaxAssumption, NoneAssumption
        DEF Init, Inv, TypeOK, CountIsExact, WorkerBound, WorkerMade, NoWorkerLost, Phases

LEMMA InvStep == Inv /\ [Next]_vars => Inv'
<1> SUFFICES ASSUME Inv, [Next]_vars PROVE Inv'
  OBVIOUS
<1>1. ASSUME NEW t \in Tasks, NEW r \in Runs, Delegate(t, r) PROVE Inv'
  <2>1. CASE ~HasRoom \/ r \in aborted
    <3>1. PICK next \in {"rejected", "aborted"} :
            phase' = [phase EXCEPT ![t] = next] /\ UNCHANGED activeWorkers
      BY <1>1, <2>1 DEF Delegate
    <3>2. Active' = Active
      BY <1>1, <3>1, SameNumber DEF Delegate, Inv, TypeOK, AtWork
    <3>3. TypeOK'
      BY <1>1, <3>1, NoneAssumption DEF Delegate, Inv, TypeOK, Phases, Over
    <3>4. WorkerMade' /\ NoWorkerLost'
      BY <1>1, <3>1 DEF Delegate, Inv, TypeOK, WorkerMade, NoWorkerLost, Over
    <3> QED BY <3>1, <3>2, <3>3, <3>4 DEF Inv, CountIsExact, WorkerBound
  <2>2. CASE HasRoom /\ r \notin aborted
    <3>1. phase' = [phase EXCEPT ![t] = "creating"] /\ activeWorkers' = activeWorkers + 1
      BY <1>1, <2>2 DEF Delegate
    <3>2. /\ Cardinality(Active') = Cardinality(Active) + 1
          /\ Cardinality(Active) \in Nat
      BY <1>1, <3>1, OneMore DEF Delegate, Inv, TypeOK, AtWork
    <3>3. TypeOK'
      BY <1>1, <3>1, NoneAssumption DEF Delegate, Inv, TypeOK, Phases, AtWork
    <3>4. WorkerMade' /\ NoWorkerLost'
      BY <1>1, <3>1 DEF Delegate, Inv, TypeOK, WorkerMade, NoWorkerLost, Over
    <3>5. CountIsExact' /\ WorkerBound'
      BY <2>2, <3>1, <3>2, MaxAssumption DEF Inv, CountIsExact, WorkerBound, HasRoom
    <3> QED BY <3>3, <3>4, <3>5 DEF Inv
  <2> QED BY <2>1, <2>2
<1>2. ASSUME NEW t \in Tasks, NotCreated(t) PROVE Inv'
  BY <1>2, FinishKeeps DEF NotCreated, Failure, Over, AtWork
<1>3. ASSUME NEW t \in Tasks, Created(t) PROVE Inv'
  <2>1. CASE AbortSeen(t)
    BY <1>3, <2>1, FinishKeeps DEF Created, Over, AtWork
  <2>2. CASE ~AbortSeen(t)
    <3>1. phase' = [phase EXCEPT ![t] = "prompting"]
          /\ UNCHANGED <<activeWorkers, aborted, ended, run, disposed, told>>
      BY <1>3, <2>2 DEF Created
    <3>2. Active' = Active
      BY <1>3, <3>1, SameNumber DEF Created, Inv, TypeOK, AtWork
    <3>3. TypeOK'
      BY <1>3, <3>1 DEF Created, Inv, TypeOK, Phases, AtWork
    <3>4. WorkerMade' /\ NoWorkerLost'
      BY <1>3, <3>1 DEF Created, Inv, TypeOK, WorkerMade, NoWorkerLost, Over
    <3> QED BY <3>1, <3>2, <3>3, <3>4 DEF Inv, CountIsExact, WorkerBound
  <2> QED BY <2>1, <2>2
<1>4. ASSUME NEW t \in Tasks, PromptReturns(t) PROVE Inv'
  <2>1. t \in made
    BY <1>4 DEF PromptReturns, Inv, WorkerMade
  <2> QED BY <1>4, <2>1, FinishKeeps DEF PromptReturns, Disposed, Over, AtWork
<1>5. ASSUME NEW t \in Tasks, PromptThrows(t) PROVE Inv'
  <2>1. t \in made
    BY <1>5 DEF PromptThrows, Inv, WorkerMade
  <2>2. CASE Finish(t, Failure(t)) /\ disposed' = Disposed(t)
    BY <1>5, <2>1, <2>2, FinishKeeps DEF PromptThrows, Disposed, Failure, Over, AtWork
  <2>3. CASE /\ phase' = [phase EXCEPT ![t] = "closing"]
             /\ UNCHANGED <<activeWorkers, aborted, ended, run, disposed, told>>
    <3>1. Active' = Active
      BY <1>5, <2>3, SameNumber DEF PromptThrows, Inv, TypeOK, AtWork
    <3>2. TypeOK'
      BY <1>5, <2>3 DEF PromptThrows, Inv, TypeOK, Phases, AtWork
    <3>3. WorkerMade' /\ NoWorkerLost'
      BY <1>5, <2>1, <2>3 DEF PromptThrows, Inv, TypeOK, WorkerMade, NoWorkerLost, Over
    <3> QED BY <2>3, <3>1, <3>2, <3>3 DEF Inv, CountIsExact, WorkerBound
  <2> QED BY <1>5, <2>2, <2>3 DEF PromptThrows
<1>6. ASSUME NEW t \in Tasks, Closed(t) PROVE Inv'
  <2>1. t \in made
    BY <1>6 DEF Closed, Inv, WorkerMade
  <2> QED BY <1>6, <2>1, FinishKeeps DEF Closed, Disposed, Failure, Over, AtWork
<1>7. ASSUME NEW r \in Runs, Abort(r) PROVE Inv'
  <2>1. Listening(r) \subseteq made
    BY DEF Listening, Inv, WorkerMade
  <2> QED BY <1>7, <2>1 DEF Abort, Inv, TypeOK, CountIsExact, WorkerBound, Active, WorkerMade, NoWorkerLost
<1>8. ASSUME NEW r \in Runs, RunEnds(r) PROVE Inv'
  BY <1>8 DEF RunEnds, Inv, TypeOK, CountIsExact, WorkerBound, Active, WorkerMade, NoWorkerLost
<1>9. CASE UNCHANGED vars
  BY <1>9 DEF vars, Inv, TypeOK, CountIsExact, WorkerBound, Active, WorkerMade, NoWorkerLost
<1> QED BY <1>1, <1>2, <1>3, <1>4, <1>5, <1>6, <1>7, <1>8, <1>9 DEF Next, TaskStep, RunStep

LEMMA Invariance == Spec => []Inv
BY InvInit, InvStep, PTL DEF Spec

(* Every variable stays in its type; the counter never goes below zero.    *)
THEOREM TypeCorrect == Spec => []TypeOK
<1>1. Inv => TypeOK
  BY DEF Inv
<1> QED BY <1>1, Invariance, PTL

(* activeWorkers is the number of calls of delegate_task that are between  *)
(* its `+= 1' and its `-= 1', on every path.                               *)
THEOREM WorkersCounted == Spec => []CountIsExact
<1>1. Inv => CountIsExact
  BY DEF Inv
<1> QED BY <1>1, Invariance, PTL

(* No more workers than PI_MAX_WORKERS are at work.                        *)
THEOREM WorkersBounded == Spec => []WorkerBound
<1>1. Inv => WorkerBound
  BY DEF Inv
<1> QED BY <1>1, Invariance, PTL

(* A call of delegate_task that is over has disposed of its worker.        *)
THEOREM WorkersDisposed == Spec => []NoWorkerLost
<1>1. Inv => NoWorkerLost
  BY DEF Inv
<1> QED BY <1>1, Invariance, PTL

=============================================================================
