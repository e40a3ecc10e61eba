------------------------- MODULE SessionIndexProofs -------------------------
(***************************************************************************)
(* Theorems about SessionIndex, for any keys and calls, when the index     *)
(* file can be read at start-up.                                           *)
(***************************************************************************)
EXTENDS SessionIndex, TLAPS

(* The value in memory is the last version, the value on disk the durable  *)
(* one, and the write that is under way saves one in between.              *)
VersionsKept ==
  /\ index = versions[Len(versions)]
  /\ disk = versions[durable]
  /\ writing => durable <= snapshot /\ temporary = versions[snapshot]

(* Calls that have not chained a write yet. *)
Early == {"unsent", "opening", "stopping"}

(* The changes of the calls whose write is to come are in memory, and the  *)
(* write under way has the change of the call it was started for.          *)
ChangesKept ==
  /\ \A i \in 1 .. Len(queue) : at[queue[i]] \in 1 .. Len(versions)
  /\ writing => at[Head(queue)] <= snapshot
  /\ \A o \in Ops : at[o] <= Len(versions)
  /\ \A o \in Ops : phase[o] \in Early => at[o] = 0

Inv ==
  /\ TypeOK
  /\ VersionsKept
  /\ ChangesKept
  /\ ConfirmedIsDurable

-----------------------------------------------------------------------------
(* Sequences *)

LEMMA Appended ==
  ASSUME NEW S, NEW s \in Seq(S), NEW x \in S
  PROVE  /\ Append(s, x) \in Seq(S)
         /\ Len(s) \in Nat
         /\ Len(Append(s, x)) = Len(s) + 1
         /\ \A i \in 1 .. Len(s) : Append(s, x)[i] = s[i]
         /\ Append(s, x)[Len(s) + 1] = x
  OBVIOUS

LEMMA Prefix ==
  ASSUME NEW S, NEW s \in Seq(S), NEW n \in 1 .. Len(s)
  PROVE  /\ [i \in 1 .. n |-> s[i]] \in Seq(S)
         /\ Len([i \in 1 .. n |-> s[i]]) = n
  OBVIOUS

LEMMA Rest ==
  ASSUME NEW S, NEW s \in Seq(S), s # <<>>
  PROVE  /\ Head(s) \in S
         /\ Head(s) = s[1]
         /\ Tail(s) \in Seq(S)
         /\ Len(s) \in Nat \ {0}
         /\ Len(Tail(s)) = Len(s) - 1
         /\ \A i \in 1 .. Len(Tail(s)) : Tail(s)[i] = s[i + 1]
  OBVIOUS

-----------------------------------------------------------------------------
(* Type correctness *)

LEMMA TypedInit == Init => TypeOK
  <1> SUFFICES ASSUME Init PROVE TypeOK
    OBVIOUS
  <1>1. Empty \in Maps
    BY DEF Empty, Maps
  <1>2. versions \in Seq(Maps) /\ Len(versions) = 1
    BY <1>1 DEF Init
  <1>3. queue \in Seq(Ops)
    BY DEF Init
  <1>4. phase \in [Ops -> Phases]
    BY DEF Init, Phases
  <1>5. /\ key \in [Ops -> Keys \cup {None}]
        /\ target \in [Ops -> Saves \cup {None}]
        /\ at \in [Ops -> Nat]
    BY DEF Init
  <1>6. durable \in 1 .. Len(versions) /\ snapshot \in 1 .. Len(versions)
    <2>1. durable = 1 /\ snapshot = 1
      BY DEF Init
    <2> QED
      BY <1>2, <2>1
  <1>7. /\ index = Empty /\ temporary = Empty /\ disk = Empty
        /\ broken = {} /\ erased = {} /\ resident = {} /\ writing = FALSE
    BY DEF Init
  <1> QED
    BY <1>1, <1>2, <1>3, <1>4, <1>5, <1>6, <1>7 DEF TypeOK

(* A change of one entry keeps the types of the map and of its versions. *)
LEMMA TypedEntry ==
  ASSUME TypeOK, NEW k \in Keys, NEW file \in Saves \cup {None}, SetEntry(k, file)
  PROVE  /\ index' \in Maps
         /\ versions' \in Seq(Maps)
         /\ Len(versions) \in Nat
         /\ Len(versions') = Len(versions) + 1
         /\ \A i \in 1 .. Len(versions) : versions'[i] = versions[i]
         /\ versions'[Len(versions')] = index'
  <1>1. index' \in Maps
    BY DEF TypeOK, SetEntry, Maps
  <1>2. versions \in Seq(Maps) /\ versions' = Append(versions, index')
    BY DEF TypeOK, SetEntry
  <1> HIDE DEF Maps
  <1> QED
    BY <1>1, <1>2, Appended

LEMMA TypedRequest ==
  ASSUME TypeOK, NEW o \in Ops, NEW k \in Keys, NEW file \in Saves \cup {None},
         Request(o, k, file), resident' \subseteq Keys
  PROVE  TypeOK'
  <1> USE DEF TypeOK
  <1>1. /\ index' \in Maps
        /\ versions' \in Seq(Maps)
        /\ Len(versions) \in Nat
        /\ Len(versions') = Len(versions) + 1
    BY TypedEntry DEF Request
  <1>2. queue' \in Seq(Ops) /\ queue' # <<>>
    BY DEF Request
  <1>3. phase' \in [Ops -> Phases]
    BY DEF Request, Phases
  <1>4. key' \in [Ops -> Keys \cup {None}] /\ at' \in [Ops -> Nat]
    BY <1>1 DEF Request
  <1>5. target' \in [Ops -> Saves \cup {None}]
    BY DEF Request, Maps
  <1> QED
    BY <1>1, <1>2, <1>3, <1>4, <1>5 DEF Request, files

LEMMA TypedMove ==
  ASSUME TypeOK, NEW o \in Ops, NEW next \in Phases, Move(o, next), resident' \subseteq Keys,
         key' \in [Ops -> Keys \cup {None}], target' = target
  PROVE  TypeOK'
  BY DEF TypeOK, Move, files, history

LEMMA TypedEnd ==
  ASSUME TypeOK, NEW next, WriteEnds(next), next \in [Ops -> Phases],
         disk' \in Maps, durable' \in 1 .. Len(versions)
  PROVE  TypeOK'
  <1> USE DEF TypeOK
  <1>1. queue # <<>> /\ queue' \in Seq(Ops)
    BY DEF WriteEnds
  <1>2. phase' \in [Ops -> Phases]
    BY DEF WriteEnds
  <1> QED
    BY <1>1, <1>2 DEF WriteEnds

LEMMA TypedStep ==
  ASSUME TypeOK, [Next]_vars PROVE TypeOK'
  <1>1. ASSUME NEW s \in Saves, NEW k \in Keys, OpenSession(s, k) PROVE TypeOK'
    <2>1. s \in Ops
      BY DEF Ops
    <2>2. phase' \in [Ops -> Phases] /\ key' \in [Ops -> Keys \cup {None}]
      BY <1>1, <2>1 DEF OpenSession, TypeOK, Phases
    <2>3. index[k] \in Saves \cup {None}
      BY DEF TypeOK, Maps
    <2>4. target' \in [Ops -> Saves \cup {None}] /\ broken' \subseteq Saves
      BY <1>1, <2>1, <2>3 DEF OpenSession, TypeOK
    <2>5. /\ index' \in Maps
          /\ versions' \in Seq(Maps)
          /\ Len(versions) \in Nat
          /\ Len(versions') \in {Len(versions), Len(versions) + 1}
      <3>1. CASE UNCHANGED <<index, versions>>
        BY <3>1 DEF TypeOK
      <3>2. CASE SetEntry(k, None)
        BY <3>2, TypedEntry
      <3> QED
        BY <1>1, <3>1, <3>2 DEF OpenSession
    <2>6. durable' \in 1 .. Len(versions') /\ snapshot' \in 1 .. Len(versions')
      BY <1>1, <2>5 DEF OpenSession, TypeOK
    <2> QED
      BY <1>1, <2>2, <2>4, <2>5, <2>6 DEF OpenSession, TypeOK, files
  <1>2. ASSUME NEW s \in Saves, NEW k \in Keys, SessionOpened(s, k) PROVE TypeOK'
    <2>1. s \in Ops /\ target[s] \in Saves \cup {None} /\ resident' \subseteq Keys
      BY <1>2 DEF SessionOpened, Ops, TypeOK
    <2>2. CASE Request(s, k, target[s])
      BY <2>1, <2>2, TypedRequest
    <2>3. CASE Move(s, "open") /\ UNCHANGED <<key, target>>
      BY <2>1, <2>3, TypedMove DEF Phases, TypeOK
    <2> QED
      BY <1>2, <2>2, <2>3 DEF SessionOpened
  <1>3. ASSUME NEW s \in Saves, SessionNotOpened(s) PROVE TypeOK'
    BY <1>3, TypedMove DEF SessionNotOpened, Phases, TypeOK, Ops
  <1>10. ASSUME NEW k \in Keys, Evict(k) PROVE TypeOK'
    BY <1>10 DEF Evict, TypeOK, files, calls, history
  <1>11. ASSUME NEW d \in Drops, NEW k \in Keys, StopSession(d, k) PROVE TypeOK'
    BY <1>11, TypedMove DEF StopSession, Phases, TypeOK, Ops
  <1>12. ASSUME NEW d \in Drops, NEW k \in Keys, DropEntry(d, k) PROVE TypeOK'
    <2>1. d \in Ops /\ resident' \subseteq Keys
      BY <1>12 DEF DropEntry, Ops, TypeOK
    <2> QED
      BY <1>12, <2>1, TypedRequest DEF DropEntry
  <1>4. CASE StartWrite
    BY <1>4 DEF StartWrite, MayStart, TypeOK, calls
  <1>5. CASE Renamed
    <2>1. Succeeded \in [Ops -> Phases]
      BY DEF Succeeded, Phases, Settled
    <2> QED
      BY <1>5, <2>1, TypedEnd DEF Renamed, TypeOK
  <1>6. CASE WriteFails
    <2>1. Failed \in [Ops -> Phases]
      BY DEF Failed, Phases
    <2> QED
      BY <1>6, <2>1, TypedEnd DEF WriteFails, TypeOK
  <1>7. ASSUME NEW d \in Drops, FileErased(d) \/ FileKept(d) PROVE TypeOK'
    <2>1. target[d] \in Saves \cup {None}
      BY DEF TypeOK, Ops
    <2>2. erased' \subseteq Saves
      BY <1>7, <2>1 DEF TypeOK, FileErased, FileKept
    <2>3. phase' \in [Ops -> Phases]
      BY <1>7 DEF TypeOK, FileErased, FileKept, Leave, Phases, Settled
    <2> QED
      BY <1>7, <2>2, <2>3 DEF TypeOK, FileErased, FileKept, Leave, history
  <1>8. CASE CrashAndRestart
    <2>1. Empty \in Maps
      BY DEF Empty, Maps
    <2>2. index' \in Maps
      BY <1>8, <2>1 DEF CrashAndRestart, TypeOK, Loads
    <2>3. phase' \in [Ops -> Phases]
      BY <1>8 DEF CrashAndRestart, TypeOK, Phases
    <2>4. at' \in [Ops -> Nat]
      BY <1>8 DEF CrashAndRestart, TypeOK
    <2>5. queue' \in Seq(Ops)
      BY <1>8 DEF CrashAndRestart
    <2>6. versions' \in Seq(Maps) /\ Len(versions') = durable
      BY <1>8, Prefix DEF CrashAndRestart, TypeOK
    <2>7. durable' \in 1 .. Len(versions') /\ snapshot' \in 1 .. Len(versions')
      BY <1>8, <2>6 DEF CrashAndRestart, TypeOK
    <2>8. /\ ~writing' /\ writing' \in BOOLEAN /\ temporary' = Empty
          /\ UNCHANGED <<broken, disk, erased, key, target>> /\ resident' = {}
      BY <1>8 DEF CrashAndRestart
    <2> QED
      BY <2>1, <2>2, <2>3, <2>4, <2>5, <2>6, <2>7, <2>8 DEF TypeOK
  <1>9. CASE UNCHANGED vars
    BY <1>9 DEF vars, files, calls, history, TypeOK
  <1> QED
    BY <1>1, <1>2, <1>3, <1>4, <1>5, <1>6, <1>7, <1>8, <1>9, <1>10, <1>11, <1>12 DEF Next

(* Every reachable state of the session index has its type.                *)
THEOREM TypeCorrect == Spec => []TypeOK
  BY TypedInit, TypedStep, PTL DEF Spec

-----------------------------------------------------------------------------
(* The versions of the index *)

LEMMA VersionsKeptByEntry ==
  ASSUME TypeOK, VersionsKept, NEW k \in Keys, NEW file \in Saves \cup {None},
         SetEntry(k, file), UNCHANGED <<writing, temporary, disk, durable, snapshot>>
  PROVE  VersionsKept'
  BY TypedEntry DEF TypeOK, VersionsKept

LEMMA VersionsStep ==
  ASSUME TypeOK, VersionsKept, ~ReadFaults, [Next]_vars PROVE VersionsKept'
  <1> USE DEF VersionsKept
  <1>1. ASSUME NEW s \in Saves, NEW k \in Keys, OpenSession(s, k) PROVE VersionsKept'
    <2>1. UNCHANGED <<writing, temporary, disk, durable, snapshot>>
      BY <1>1 DEF OpenSession, files
    <2>2. CASE UNCHANGED <<index, versions>>
      BY <2>1, <2>2
    <2>3. CASE SetEntry(k, None)
      BY <2>1, <2>3, VersionsKeptByEntry
    <2> QED
      BY <1>1, <2>2, <2>3 DEF OpenSession
  <1>2. ASSUME NEW o \in Ops, NEW k \in Keys, NEW file \in Saves \cup {None}, Request(o, k, file)
        PROVE  VersionsKept'
    BY <1>2, VersionsKeptByEntry DEF Request, files
  <1>3. ASSUME NEW o \in Ops, NEW next, Move(o, next) PROVE VersionsKept'
    BY <1>3 DEF Move, files, history
  <1>10. ASSUME NEW s \in Saves, NEW k \in Keys, SessionOpened(s, k) PROVE VersionsKept'
    <2>1. s \in Ops /\ target[s] \in Saves \cup {None}
      BY DEF Ops, TypeOK
    <2> QED
      BY <1>2, <1>3, <1>10, <2>1 DEF SessionOpened
  <1>11. ASSUME NEW s \in Saves, SessionNotOpened(s) PROVE VersionsKept'
    BY <1>3, <1>11 DEF SessionNotOpened, Ops
  <1>12. ASSUME NEW k \in Keys, Evict(k) PROVE VersionsKept'
    BY <1>12 DEF Evict, files, history
  <1>13. ASSUME NEW d \in Drops, NEW k \in Keys, StopSession(d, k) PROVE VersionsKept'
    BY <1>3, <1>13 DEF StopSession, Ops
  <1>14. ASSUME NEW d \in Drops, NEW k \in Keys, DropEntry(d, k) PROVE VersionsKept'
    BY <1>2, <1>14 DEF DropEntry, Ops
  <1>4. CASE StartWrite
    BY <1>4 DEF StartWrite, TypeOK
  <1>5. CASE Renamed
    BY <1>5 DEF Renamed, WriteEnds, TypeOK
  <1>6. CASE WriteFails
    BY <1>6 DEF WriteFails, WriteEnds
  <1>7. ASSUME NEW d \in Drops, FileErased(d) \/ FileKept(d) PROVE VersionsKept'
    BY <1>7 DEF FileErased, FileKept, Leave, history
  <1>8. CASE CrashAndRestart
    <2>1. /\ index' = disk /\ disk' = disk
          /\ durable' = durable /\ ~writing'
          /\ versions' = [v \in 1 .. durable |-> versions[v]]
      BY <1>8 DEF CrashAndRestart, Loads
    <2>2. Len(versions') = durable /\ versions'[durable] = versions[durable]
      BY <2>1, Prefix DEF TypeOK
    <2> QED
      BY <2>1, <2>2
  <1>9. CASE UNCHANGED vars
    BY <1>9 DEF vars, files, calls, history
  <1> QED
    BY <1>1, <1>4, <1>5, <1>6, <1>7, <1>8, <1>9, <1>10, <1>11, <1>12, <1>13, <1>14 DEF Next

LEMMA ChangesKeptByRequest ==
  ASSUME TypeOK, ChangesKept, ConfirmedIsDurable,
         NEW o \in Ops, NEW k \in Keys, NEW file \in Saves \cup {None}, Request(o, k, file),
         phase[o] \in Early
  PROVE  ChangesKept' /\ ConfirmedIsDurable'
  <1>1. Len(versions) \in Nat /\ Len(versions') = Len(versions) + 1
    BY TypedEntry DEF Request
  <1>2. /\ at[o] = 0
        /\ at' = [at EXCEPT ![o] = Len(versions) + 1]
        /\ phase' = [phase EXCEPT ![o] = "queued"]
        /\ at \in [Ops -> Nat] /\ phase \in [Ops -> Phases]
    BY DEF Request, ChangesKept, TypeOK
  <1>3. /\ queue' \in Seq(Ops)
        /\ Len(queue) \in Nat
        /\ Len(queue') = Len(queue) + 1
        /\ \A i \in 1 .. Len(queue) : queue'[i] = queue[i] /\ queue[i] \in Ops
        /\ queue'[Len(queue) + 1] = o
    BY Appended DEF Request, TypeOK
  <1>4. \A i \in 1 .. Len(queue') : at'[queue'[i]] \in 1 .. Len(versions')
    <2> TAKE i \in 1 .. Len(queue')
    <2>1. CASE i = Len(queue) + 1
      BY <1>1, <1>2, <1>3, <2>1
    <2>2. CASE i \in 1 .. Len(queue)
      <3>1. at[queue[i]] \in 1 .. Len(versions) /\ queue[i] # o
        BY <1>2, <2>2 DEF ChangesKept
      <3> QED
        BY <1>1, <1>2, <1>3, <2>2, <3>1
    <2> QED
      BY <1>3, <2>1, <2>2
  <1>5. writing' => at'[Head(queue')] <= snapshot'
    <2> SUFFICES ASSUME writing PROVE at'[Head(queue')] <= snapshot
      BY DEF Request, files
    <2>1. queue # <<>> /\ queue \in Seq(Ops)
      BY DEF TypeOK
    <2>2. Head(queue) \in Ops /\ 1 \in 1 .. Len(queue) /\ Head(queue) = queue[1]
      BY <2>1, Rest
    <2>3. Head(queue') = queue[1]
      BY <2>2, <1>3, Rest
    <2>4. queue[1] # o
      BY <1>2, <2>2 DEF ChangesKept
    <2> QED
      BY <1>2, <2>2, <2>3, <2>4 DEF ChangesKept
  <1>6. \A x \in Ops : at'[x] <= Len(versions')
    BY <1>1, <1>2 DEF ChangesKept
  <1>7. \A x \in Ops : phase'[x] \in Early => at'[x] = 0
    BY <1>2 DEF ChangesKept, Early
  <1>8. ConfirmedIsDurable'
    <2>1. durable' = durable
      BY DEF Request
    <2> QED
      BY <1>2, <2>1 DEF ConfirmedIsDurable, Settled
  <1> QED
    BY <1>4, <1>5, <1>6, <1>7, <1>8 DEF ChangesKept

(* A call moves on and the index stays as it is. *)
LEMMA ChangesKeptByMove ==
  ASSUME TypeOK, ChangesKept, ConfirmedIsDurable,
         NEW o \in Ops, NEW next, Move(o, next), phase[o] \in Early,
         next \notin Settled \cup {"erasing"}
  PROVE  ChangesKept' /\ ConfirmedIsDurable'
  <1>1. /\ UNCHANGED <<queue, versions, durable, snapshot, at, writing>>
        /\ \A x \in Ops : phase'[x] = IF x = o THEN next ELSE phase[x]
    BY DEF Move, history, TypeOK
  <1> QED
    BY <1>1 DEF ChangesKept, ConfirmedIsDurable

LEMMA ChangesStep ==
  ASSUME TypeOK, VersionsKept, ChangesKept, ConfirmedIsDurable, [Next]_vars
  PROVE  ChangesKept' /\ ConfirmedIsDurable'
  <1>1. ASSUME NEW s \in Saves, NEW k \in Keys, OpenSession(s, k)
        PROVE  ChangesKept' /\ ConfirmedIsDurable'
    <2>1. Len(versions) \in Nat /\ Len(versions') \in {Len(versions), Len(versions) + 1}
      BY <1>1, TypedEntry DEF OpenSession, TypeOK
    <2>2. /\ phase[s] = "unsent" /\ s \in Ops
          /\ \A x \in Ops : phase'[x] = IF x = s THEN "opening" ELSE phase[x]
          /\ UNCHANGED <<queue, writing, durable, snapshot, at>>
      BY <1>1 DEF OpenSession, TypeOK, Ops
    <2>3. \A x \in Ops : phase'[x] \in Early => at'[x] = 0
      BY <2>2 DEF ChangesKept, Early
    <2>4. ConfirmedIsDurable'
      BY <2>2 DEF ConfirmedIsDurable, Settled
    <2>5. /\ \A i \in 1 .. Len(queue) : at[queue[i]] \in 1 .. Len(versions')
          /\ \A x \in Ops : at[x] <= Len(versions')
      BY <2>1 DEF ChangesKept, TypeOK
    <2> QED
      BY <2>2, <2>3, <2>4, <2>5 DEF ChangesKept
  <1>2. ASSUME NEW s \in Saves, NEW k \in Keys, SessionOpened(s, k)
        PROVE  ChangesKept' /\ ConfirmedIsDurable'
    <2>1. s \in Ops /\ target[s] \in Saves \cup {None} /\ phase[s] \in Early
      BY <1>2 DEF SessionOpened, Opening, Early, Ops, TypeOK
    <2> QED
      BY <1>2, <2>1, ChangesKeptByRequest, ChangesKeptByMove DEF SessionOpened, Settled
  <1>3. ASSUME NEW s \in Saves, SessionNotOpened(s)
        PROVE  ChangesKept' /\ ConfirmedIsDurable'
    BY <1>3, ChangesKeptByMove DEF SessionNotOpened, Settled, Early, Ops
  <1>11. ASSUME NEW k \in Keys, Evict(k) PROVE ChangesKept' /\ ConfirmedIsDurable'
    BY <1>11 DEF Evict, calls, history, ChangesKept, ConfirmedIsDurable
  <1>12. ASSUME NEW d \in Drops, NEW k \in Keys, StopSession(d, k)
         PROVE  ChangesKept' /\ ConfirmedIsDurable'
    BY <1>12, ChangesKeptByMove DEF StopSession, Settled, Early, Ops
  <1>13. ASSUME NEW d \in Drops, NEW k \in Keys, DropEntry(d, k)
         PROVE  ChangesKept' /\ ConfirmedIsDurable'
    <2>1. d \in Ops /\ phase[d] \in Early
      BY <1>13 DEF DropEntry, Early, Ops
    <2> QED
      BY <1>13, <2>1, ChangesKeptByRequest DEF DropEntry
  <1>4. CASE StartWrite
    <2>1. Head(queue) = queue[1] /\ 1 \in 1 .. Len(queue)
      BY <1>4, Rest DEF StartWrite, MayStart, TypeOK
    <2> QED
      BY <1>4, <2>1 DEF StartWrite, calls, ChangesKept, ConfirmedIsDurable, TypeOK
  <1>5. ASSUME NEW next \in [Ops -> Phases \ Early], WriteEnds(next)
        PROVE  ChangesKept'
    <2>1. queue # <<>> /\ queue \in Seq(Ops)
      BY <1>5 DEF WriteEnds, TypeOK
    <2>2. \A i \in 1 .. Len(queue') : at'[queue'[i]] \in 1 .. Len(versions')
      BY <1>5, <2>1, Rest DEF WriteEnds, ChangesKept
    <2>3. \A o \in Ops : phase'[o] \in Early => at'[o] = 0
      BY <1>5 DEF WriteEnds, ChangesKept
    <2> QED
      BY <1>5, <2>2, <2>3 DEF WriteEnds, ChangesKept
  <1>6. CASE Renamed
    <2>1. Succeeded \in [Ops -> Phases \ Early]
      BY DEF Succeeded, Phases, Settled, Early
    <2>2. queue # <<>> /\ queue \in Seq(Ops) /\ writing
      BY <1>6 DEF Renamed, WriteEnds, TypeOK
    <2>3. /\ Head(queue) \in Ops
          /\ at[Head(queue)] \in 1 .. snapshot
      BY <2>2, Rest DEF ChangesKept, TypeOK
    <2>4. /\ phase' = [o \in Ops |-> IF o = Head(queue) THEN Succeeded[o] ELSE phase[o]]
          /\ at' = at /\ durable' = snapshot /\ durable <= snapshot
      BY <1>6, <2>2 DEF Renamed, WriteEnds, Resumed, VersionsKept
    <2>5. ConfirmedIsDurable'
      BY <2>3, <2>4 DEF ConfirmedIsDurable, TypeOK
    <2> QED
      BY <1>5, <1>6, <2>1, <2>5 DEF Renamed
  <1>7. CASE WriteFails
    <2>1. Failed \in [Ops -> Phases \ Early]
      BY DEF Failed, Phases, Early
    <2>2. \A o \in Ops : Failed[o] \notin Settled \cup {"erasing"}
      BY DEF Failed, Settled
    <2>3. ConfirmedIsDurable'
      BY <1>7, <2>2 DEF WriteFails, WriteEnds, ConfirmedIsDurable
    <2> QED
      BY <1>5, <1>7, <2>1, <2>3 DEF WriteFails
  <1>8. ASSUME NEW d \in Drops, FileErased(d) \/ FileKept(d)
        PROVE  ChangesKept' /\ ConfirmedIsDurable'
    <2>1. PICK next \in {"erased", "kept"} : Leave(d, next)
      BY <1>8 DEF FileErased, FileKept
    <2>2. d \in Ops
      BY DEF Ops
    <2> QED
      BY <2>1, <2>2 DEF Leave, history, ChangesKept, ConfirmedIsDurable, Settled, Early, TypeOK
  <1>9. CASE CrashAndRestart
    <2>1. queue' = <<>> /\ ~writing' /\ durable' = durable
      BY <1>9 DEF CrashAndRestart
    <2>2. Len(versions') = durable /\ durable \in Nat
      BY <1>9, Prefix DEF CrashAndRestart, TypeOK
    <2>3. \A o \in Ops : /\ phase'[o] \in {phase[o], "lost", "unopened"}
                         /\ phase'[o] = "erasing" => FALSE
                         /\ at'[o] = IF at[o] > durable THEN 0 ELSE at[o]
                         /\ at[o] \in Nat
      BY <1>9 DEF CrashAndRestart, TypeOK
    <2>4. ConfirmedIsDurable'
      BY <2>1, <2>2, <2>3 DEF ConfirmedIsDurable, Settled
    <2> QED
      BY <2>1, <2>2, <2>3, <2>4 DEF ChangesKept, Early
  <1>10. CASE UNCHANGED vars
    BY <1>10 DEF vars, calls, history, ChangesKept, ConfirmedIsDurable
  <1> QED
    BY <1>1, <1>2, <1>3, <1>4, <1>6, <1>7, <1>8, <1>9, <1>10, <1>11, <1>12, <1>13 DEF Next

LEMMA InvInit == Init => Inv
  <1> SUFFICES ASSUME Init PROVE Inv
    OBVIOUS
  <1>1. TypeOK
    BY TypedInit
  <1>2. VersionsKept
    BY DEF Init, VersionsKept
  <1>3. ChangesKept /\ ConfirmedIsDurable
    BY DEF Init, ChangesKept, ConfirmedIsDurable, Settled
  <1> QED
    BY <1>1, <1>2, <1>3 DEF Inv

LEMMA InvStep == ASSUME Inv, ~ReadFaults, [Next]_vars PROVE Inv'
  BY TypedStep, VersionsStep, ChangesStep DEF Inv

LEMMA AlwaysInv == ASSUME ~ReadFaults PROVE Spec => []Inv
  BY InvInit, InvStep, PTL DEF Spec

(* Whatever the order of writes, failures and crashes, a call that was     *)
(* answered with success has its change in the index on disk.              *)
THEOREM Durability == ASSUME ~ReadFaults PROVE Spec => []ConfirmedIsDurable
  BY AlwaysInv, PTL DEF Inv

-----------------------------------------------------------------------------
(* The chain of writes *)

(* Each call is chained once, and waits while it is. *)
QueueKept ==
  /\ \A i \in 1 .. Len(queue) : phase[queue[i]] = "queued"
  /\ \A i, j \in 1 .. Len(queue) : queue[i] = queue[j] => i = j

LEMMA QueueKeptByEnd ==
  ASSUME TypeOK, QueueKept, NEW next, WriteEnds(next) PROVE QueueKept'
  <1>1. queue # <<>> /\ queue \in Seq(Ops) /\ queue' = Tail(queue)
    BY DEF WriteEnds, TypeOK
  <1>2. /\ Len(queue) \in Nat \ {0}
        /\ Len(queue') = Len(queue) - 1
        /\ Head(queue) = queue[1]
        /\ \A i \in 1 .. Len(queue') : queue'[i] = queue[i + 1]
    BY <1>1, Rest
  <1>3. \A i \in 1 .. Len(queue') : i + 1 \in 1 .. Len(queue) /\ i + 1 # 1
    BY <1>2
  <1>4. \A i \in 1 .. Len(queue') : phase'[queue'[i]] = "queued"
    <2> TAKE i \in 1 .. Len(queue')
    <2>1. queue[i + 1] # Head(queue) /\ queue[i + 1] \in Ops /\ 1 \in 1 .. Len(queue)
      BY <1>1, <1>2, <1>3 DEF QueueKept
    <2> QED
      BY <1>2, <1>3, <2>1 DEF WriteEnds, Resumed, QueueKept
  <1>5. \A i, j \in 1 .. Len(queue') : queue'[i] = queue'[j] => i = j
    BY <1>2, <1>3 DEF QueueKept
  <1> QED
    BY <1>4, <1>5 DEF QueueKept

(* The call whose write ends has waited for it. *)
LEMMA HeadWaits ==
  ASSUME TypeOK, QueueKept, writing
  PROVE  Head(queue) \in Ops /\ phase[Head(queue)] = "queued" /\ queue # <<>>
  <1>1. queue # <<>> /\ queue \in Seq(Ops)
    BY DEF TypeOK
  <1> QED
    BY <1>1, Rest DEF QueueKept

LEMMA QueueStep ==
  ASSUME TypeOK, QueueKept, [Next]_vars PROVE QueueKept'
  <1>1. ASSUME NEW o \in Ops, NEW k \in Keys, NEW file, Request(o, k, file), phase[o] \in Early
        PROVE  QueueKept'
    <2>1. /\ Len(queue) \in Nat
          /\ Len(queue') = Len(queue) + 1
          /\ \A i \in 1 .. Len(queue) : queue'[i] = queue[i] /\ queue[i] \in Ops
          /\ queue'[Len(queue) + 1] = o
      BY <1>1, Appended DEF Request, TypeOK
    <2>2. \A i \in 1 .. Len(queue) : queue[i] # o
      BY <1>1 DEF QueueKept, Early
    <2> QED
      BY <1>1, <2>1, <2>2 DEF QueueKept, Request, TypeOK
  <1>2. ASSUME NEW d \in Drops, FileErased(d) \/ FileKept(d) PROVE QueueKept'
    <2>1. PICK next \in {"erased", "kept"} : Leave(d, next)
      BY <1>2 DEF FileErased, FileKept
    <2>2. \A i \in 1 .. Len(queue) : queue[i] \in Ops
      BY DEF TypeOK
    <2> QED
      BY <2>1, <2>2 DEF Leave, QueueKept, TypeOK
  <1>3. CASE StartWrite \/ \E k \in Keys : Evict(k)
    BY <1>3 DEF StartWrite, Evict, calls, QueueKept
  <1>9. ASSUME NEW o \in Ops, NEW next, phase' = [phase EXCEPT ![o] = next],
               phase[o] \in Early, queue' = queue
        PROVE  QueueKept'
    <2>1. \A i \in 1 .. Len(queue) : queue[i] \in Ops /\ queue[i] # o
      BY <1>9 DEF TypeOK, QueueKept, Early
    <2> QED
      BY <1>9, <2>1 DEF QueueKept, TypeOK
  <1>4. CASE Renamed \/ WriteFails
    BY <1>4, QueueKeptByEnd DEF Renamed, WriteFails
  <1>5. CASE CrashAndRestart
    BY <1>5 DEF CrashAndRestart, QueueKept
  <1>6. CASE UNCHANGED vars
    BY <1>6 DEF vars, calls, QueueKept
  <1>7. ASSUME NEW s \in Saves, NEW k \in Keys, OpenSession(s, k) \/ SessionOpened(s, k)
        PROVE  QueueKept'
    <2>1. s \in Ops /\ phase[s] \in Early
      BY <1>7 DEF OpenSession, SessionOpened, Opening, Ops, Early
    <2> QED
      BY <1>1, <1>7, <1>9, <2>1 DEF OpenSession, SessionOpened, Move
  <1>8. ASSUME NEW d \in Drops, NEW k \in Keys, StopSession(d, k) \/ DropEntry(d, k)
        PROVE  QueueKept'
    <2>1. d \in Ops /\ phase[d] \in Early
      BY <1>8 DEF StopSession, DropEntry, Ops, Early
    <2> QED
      BY <1>1, <1>8, <1>9, <2>1 DEF StopSession, DropEntry, Move
  <1>10. ASSUME NEW s \in Saves, SessionNotOpened(s) PROVE QueueKept'
    BY <1>9, <1>10 DEF SessionNotOpened, Move, Ops, Early
  <1> QED
    BY <1>2, <1>3, <1>4, <1>5, <1>6, <1>7, <1>8, <1>10 DEF Next

-----------------------------------------------------------------------------
(* The index keeps the promise of DurableIndex *)

Confirmed == {o \in Ops : phase[o] \in Settled}

LEMMA PromiseInit == Init => Promise!Init
  <1> SUFFICES ASSUME Init PROVE Promise!Init
    OBVIOUS
  <1>1. Empty \in Maps
    BY DEF Empty, Maps
  <1>2. Confirmed = {}
    BY DEF Init, Confirmed, Settled
  <1> QED
    BY <1>1, <1>2 DEF Init, Promise!Init, Confirmed

LEMMA PromiseChange ==
  ASSUME Inv, NEW o \in Ops, NEW k \in Keys, NEW file \in Saves \cup {None}, Request(o, k, file),
         phase[o] \in Early
  PROVE  Promise!Change(o)
  <1>1. at[o] = 0
    BY DEF Inv, ChangesKept
  <1>2. index' \in Maps /\ versions' = Append(versions, index')
    BY TypedEntry DEF Inv, Request, SetEntry
  <1>3. Confirmed' = Confirmed
    BY DEF Request, Confirmed, Settled, Early, Inv, TypeOK
  <1> QED
    BY <1>1, <1>2, <1>3 DEF Request, files, Promise!Change, Promise!Amend, Confirmed

(* A step that saves version v and confirms the calls of S. *)
LEMMA PromiseSave ==
  ASSUME NEW v \in durable .. Len(versions), durable' = v, disk' = versions[v],
         NEW S \in SUBSET {o \in Ops : at[o] \in 1 .. v}, Confirmed' = Confirmed \cup S,
         UNCHANGED <<index, versions, at>>
  PROVE  Promise!Save
  BY DEF Promise!Save, Confirmed

(* A call moves on and the index stays as it is. *)
LEMMA PromiseMove ==
  ASSUME TypeOK, NEW o \in Ops, NEW next, Move(o, next), phase[o] \in Early, next \notin Settled
  PROVE  UNCHANGED Promise!vars
  <1>1. Confirmed' = Confirmed
    BY DEF Move, Confirmed, Settled, Early, TypeOK
  <1> QED
    BY <1>1 DEF Move, files, history, Confirmed, Promise!vars

LEMMA PromiseStep ==
  ASSUME Inv, QueueKept, ~ReadFaults, [Next]_vars PROVE [Promise!Next]_(Promise!vars)
  <1> USE DEF Promise!Next
  <1>0. TypeOK /\ VersionsKept /\ ChangesKept /\ ConfirmedIsDurable
    BY DEF Inv
  <1>1. ASSUME NEW s \in Saves, NEW k \in Keys, OpenSession(s, k)
        PROVE  [Promise!Next]_(Promise!vars)
    <2>1. Confirmed' = Confirmed
      BY <1>0, <1>1 DEF OpenSession, Confirmed, Settled, TypeOK, Ops
    <2>2. UNCHANGED <<disk, durable, at>>
      BY <1>1 DEF OpenSession, files
    <2>3. CASE UNCHANGED <<index, versions>>
      BY <2>1, <2>2, <2>3 DEF Promise!vars, Confirmed
    <2>4. CASE SetEntry(k, None)
      <3>1. index' \in Maps /\ versions' = Append(versions, index')
        BY <1>0, <2>4, TypedEntry DEF SetEntry
      <3> QED
        BY <2>1, <2>2, <3>1 DEF Promise!ChangeAlone, Promise!Amend, Confirmed
    <2> QED
      BY <1>1, <2>3, <2>4 DEF OpenSession
  <1>2. ASSUME NEW s \in Saves, NEW k \in Keys, SessionOpened(s, k)
        PROVE  [Promise!Next]_(Promise!vars)
    <2>1. s \in Ops /\ target[s] \in Saves \cup {None} /\ phase[s] \in Early
      BY <1>0, <1>2 DEF SessionOpened, Opening, Early, Ops, TypeOK
    <2> QED
      BY <1>0, <1>2, <2>1, PromiseChange, PromiseMove DEF SessionOpened, Settled
  <1>3. ASSUME NEW s \in Saves, SessionNotOpened(s) PROVE UNCHANGED Promise!vars
    BY <1>0, <1>3, PromiseMove DEF SessionNotOpened, Settled, Early, Ops
  <1>9. ASSUME NEW k \in Keys, Evict(k) PROVE UNCHANGED Promise!vars
    BY <1>9 DEF Evict, files, calls, history, Promise!vars
  <1>10. ASSUME NEW d \in Drops, NEW k \in Keys, StopSession(d, k) PROVE UNCHANGED Promise!vars
    BY <1>0, <1>10, PromiseMove DEF StopSession, Settled, Early, Ops
  <1>11. ASSUME NEW d \in Drops, NEW k \in Keys, DropEntry(d, k) PROVE Promise!Next
    <2>1. d \in Ops /\ phase[d] \in Early
      BY <1>11 DEF DropEntry, Early, Ops
    <2> QED
      BY <1>11, <2>1, PromiseChange DEF DropEntry
  <1>4. CASE StartWrite
    BY <1>4 DEF StartWrite, calls, Promise!vars
  <1>5. CASE Renamed \/ WriteFails
    <2>1. /\ Head(queue) \in Ops
          /\ phase[Head(queue)] = "queued"
          /\ at[Head(queue)] \in 1 .. Len(versions)
          /\ writing
      <3>1. writing
        BY <1>5 DEF Renamed, WriteFails, WriteEnds
      <3> QED
        BY <1>0, <3>1, HeadWaits, Rest DEF ChangesKept, TypeOK
    <2>2. CASE Renamed
      <3> DEFINE S == {Head(queue)} \cap Saves
      <3>1. Confirmed' = Confirmed \cup S
        BY <1>0, <2>1, <2>2 DEF Renamed, WriteEnds, Resumed, Succeeded, Confirmed, Settled, TypeOK, Ops
      <3>2. /\ snapshot \in durable .. Len(versions)
            /\ durable' = snapshot
            /\ disk' = versions[snapshot]
            /\ UNCHANGED <<index, versions, at>>
        BY <1>0, <2>2 DEF Renamed, WriteEnds, VersionsKept, TypeOK
      <3>3. S \in SUBSET {o \in Ops : at[o] \in 1 .. snapshot}
        BY <1>0, <2>1 DEF ChangesKept, TypeOK
      <3> HIDE DEF S
      <3> QED
        BY <3>1, <3>2, <3>3, PromiseSave
    <2>3. CASE WriteFails
      <3>1. Confirmed' = Confirmed
        BY <1>0, <2>1, <2>3 DEF WriteFails, WriteEnds, Resumed, Failed, Confirmed, Settled, TypeOK
      <3> QED
        BY <2>3, <3>1 DEF WriteFails, WriteEnds, Promise!vars, Confirmed
    <2> QED
      BY <1>5, <2>2, <2>3
  <1>6. ASSUME NEW d \in Drops, FileErased(d) \/ FileKept(d) PROVE Promise!Next
    <2>1. PICK next \in {"erased", "kept"} : Leave(d, next)
      BY <1>6 DEF FileErased, FileKept
    <2>2. d \in Ops /\ phase[d] = "erasing"
      BY <2>1 DEF Leave, Ops
    <2>3. Confirmed' = Confirmed \cup {d}
      BY <1>0, <2>1, <2>2 DEF Leave, Confirmed, Settled, TypeOK
    <2>4. {d} \in SUBSET {o \in Ops : at[o] \in 1 .. durable}
      BY <1>0, <2>2 DEF ConfirmedIsDurable
    <2>5. /\ durable \in durable .. Len(versions)
          /\ durable' = durable
          /\ disk' = versions[durable]
          /\ UNCHANGED <<index, versions, at>>
      BY <1>0, <2>1 DEF Leave, history, VersionsKept, TypeOK
    <2> QED
      BY <2>3, <2>4, <2>5, PromiseSave
  <1>7. CASE CrashAndRestart
    <2>1. Confirmed' = Confirmed
      BY <1>0, <1>7 DEF CrashAndRestart, Confirmed, Settled, TypeOK
    <2> QED
      BY <1>7, <2>1 DEF CrashAndRestart, Loads, Confirmed, Promise!Crash
  <1>8. CASE UNCHANGED vars
    BY <1>8 DEF vars, files, calls, history, Promise!vars
  <1> QED
    BY <1>1, <1>2, <1>3, <1>4, <1>5, <1>6, <1>7, <1>8, <1>9, <1>10, <1>11 DEF Next

LEMMA QueueInit == Init => QueueKept
  BY DEF Init, QueueKept

(* The writes, failures and crashes of the session index implement an      *)
(* index of which some version is durable at any time.                     *)
THEOREM Refinement == ASSUME ~ReadFaults PROVE Spec => KeepsPromise
  <1>1. Init => Inv /\ QueueKept /\ Promise!Init
    BY InvInit, QueueInit, PromiseInit
  <1>2. Inv /\ QueueKept /\ [Next]_vars => (Inv /\ QueueKept)'
    BY InvStep, QueueStep DEF Inv
  <1>3. Inv /\ QueueKept /\ [Next]_vars => [Promise!Next]_(Promise!vars)
    BY PromiseStep
  <1> QED
    BY <1>1, <1>2, <1>3, PTL DEF Spec, KeepsPromise, Promise!Spec

-----------------------------------------------------------------------------
(* Removed session files *)

(* No version from v on names the file f. *)
Absent(f, v) ==
  \A w \in v .. Len(versions), k \in Keys : versions[w][k] # f

(* The session of the creation f has not been opened: its file is not made. *)
Fresh(f) == phase[f] \in {"unsent", "opening"}

(* The phases of creations that have put an entry into the index. *)
Put == {"queued", "saved", "refused", "lost"}

(* A creation opens a file of its own, or one that was made for its key. *)
Chosen(s) ==
  /\ target[s] \in Saves
  /\ target[s] # s => ~Fresh(target[s])
  /\ key[target[s]] = key[s]

(* A file is named by no version before it is made, and for its own key    *)
(* only; and by no version from the one on in which a DELETE took it out,  *)
(* unless a creation that had opened it put it back.                       *)
FilesKept ==
  /\ \A s \in Saves : Fresh(s) => Absent(s, 1)
  /\ \A v \in 1 .. Len(versions), k \in Keys :
       versions[v][k] # None => key[versions[v][k]] = k
  /\ \A s \in Saves : phase[s] = "opening" => Chosen(s)
  /\ \A d \in Drops : phase[d] \in {"queued", "erasing"} /\ target[d] # None =>
       /\ at[d] \in 1 .. Len(versions)
       /\ ~Fresh(target[d])
       /\ Absent(target[d], at[d]) \/ PutBack(target[d])
  /\ \A f \in erased : ~Fresh(f) /\ (Absent(f, durable) \/ PutBack(f))

(* Creations go forward: a file that is made stays so, and an entry that   *)
(* was put stays with the one who put it.                                  *)
Forward ==
  \A s \in Saves :
    /\ ~Fresh(s) => ~Fresh(s)' /\ key'[s] = key[s]
    /\ phase[s] \in Put => phase'[s] \in Put /\ target'[s] = target[s]

LEMMA PutBackStays == ASSUME Forward, NEW f, PutBack(f) PROVE PutBack(f)'
  <1>1. PICK s \in Saves \ {f} : target[s] = f /\ phase[s] \in Put
    BY DEF PutBack, Put
  <1>2. target'[s] = f /\ phase'[s] \in Put
    BY <1>1 DEF Forward
  <1> QED
    BY <1>1, <1>2 DEF PutBack, Put

LEMMA ChosenStays ==
  ASSUME Forward, NEW s \in Saves, Chosen(s), target'[s] = target[s], key'[s] = key[s]
  PROVE  Chosen(s)'
  <1>1. CASE target[s] = s
    BY <1>1 DEF Chosen
  <1>2. CASE target[s] # s
    BY <1>2 DEF Chosen, Forward
  <1> QED
    BY <1>1, <1>2

LEMMA ForwardStep == ASSUME TypeOK, QueueKept, [Next]_vars PROVE Forward
  <1>0. \A s \in Saves : s \in Ops /\ s \notin Drops
    BY OpsAssumption DEF Ops
  <1>1. ASSUME NEW o \in Ops, NEW next,
               \A x \in Ops : phase'[x] = IF x = o THEN next ELSE phase[x],
               \A x \in Ops \ {o} : key'[x] = key[x] /\ target'[x] = target[x],
               o \in Saves => Fresh(o)
        PROVE  Forward
    BY <1>0, <1>1 DEF Forward, Fresh, Put
  <1>2. ASSUME NEW s \in Saves, NEW k \in Keys, OpenSession(s, k) PROVE Forward
    <2>1. \A x \in Ops : phase'[x] = IF x = s THEN "opening" ELSE phase[x]
      BY <1>0, <1>2 DEF OpenSession, TypeOK
    <2>2. \A x \in Ops \ {s} : key'[x] = key[x] /\ target'[x] = target[x]
      BY <1>0, <1>2 DEF OpenSession, TypeOK
    <2> QED
      BY <1>0, <1>1, <1>2, <2>1, <2>2 DEF OpenSession, Fresh
  <1>3. ASSUME NEW o \in Ops, NEW k \in Keys, NEW file, Request(o, k, file), o \in Saves => Fresh(o)
        PROVE  Forward
    <2>1. \A x \in Ops : phase'[x] = IF x = o THEN "queued" ELSE phase[x]
      BY <1>3 DEF Request, TypeOK
    <2>2. \A x \in Ops \ {o} : key'[x] = key[x] /\ target'[x] = target[x]
      BY <1>3 DEF Request, TypeOK
    <2> QED
      BY <1>1, <1>3, <2>1, <2>2
  <1>4. ASSUME NEW o \in Ops, NEW next, Move(o, next), target' = target,
               \A x \in Ops \ {o} : key'[x] = key[x], o \in Saves => Fresh(o)
        PROVE  Forward
    <2>1. \A x \in Ops : phase'[x] = IF x = o THEN next ELSE phase[x]
      BY <1>4 DEF Move, TypeOK
    <2> QED
      BY <1>1, <1>4, <2>1
  <1>5. ASSUME NEW s \in Saves, NEW k \in Keys, SessionOpened(s, k) PROVE Forward
    <2>1. s \in Ops /\ Fresh(s)
      BY <1>0, <1>5 DEF SessionOpened, Opening, Fresh
    <2> QED
      BY <1>3, <1>4, <1>5, <2>1 DEF SessionOpened
  <1>6. ASSUME NEW s \in Saves, SessionNotOpened(s) PROVE Forward
    BY <1>0, <1>4, <1>6 DEF SessionNotOpened, Fresh
  <1>7. ASSUME NEW d \in Drops, NEW k \in Keys, StopSession(d, k) PROVE Forward
    <2>1. d \in Ops /\ d \notin Saves /\ \A x \in Ops \ {d} : key'[x] = key[x]
      BY <1>0, <1>7 DEF StopSession, Ops, TypeOK
    <2> QED
      BY <1>4, <1>7, <2>1 DEF StopSession
  <1>8. ASSUME NEW d \in Drops, NEW k \in Keys, DropEntry(d, k) PROVE Forward
    <2>1. d \in Ops /\ d \notin Saves
      BY <1>0 DEF Ops
    <2> QED
      BY <1>3, <1>8, <2>1 DEF DropEntry
  <1>9. CASE Renamed \/ WriteFails
    <2>1. PICK next : WriteEnds(next) /\ \A x \in Saves : next[x] \in {"saved", "refused"}
      BY <1>0, <1>9 DEF Renamed, WriteFails, Succeeded, Failed
    <2>2. Head(queue) \in Ops /\ phase[Head(queue)] = "queued"
      BY <2>1, HeadWaits DEF WriteEnds
    <2> QED
      BY <1>0, <2>1, <2>2 DEF WriteEnds, Resumed, Forward, Fresh, Put
  <1>10. ASSUME NEW d \in Drops, FileErased(d) \/ FileKept(d) PROVE Forward
    <2>1. PICK next : Leave(d, next)
      BY <1>10 DEF FileErased, FileKept
    <2> QED
      BY <1>0, <2>1 DEF Leave, Forward, Fresh, Put, TypeOK
  <1>11. CASE CrashAndRestart
    BY <1>0, <1>11 DEF CrashAndRestart, Forward, Fresh, Put
  <1>12. CASE StartWrite \/ UNCHANGED vars \/ \E k \in Keys : Evict(k)
    BY <1>12 DEF StartWrite, Evict, vars, calls, Forward, Fresh
  <1> QED
    BY <1>2, <1>5, <1>6, <1>7, <1>8, <1>9, <1>10, <1>11, <1>12 DEF Next

LEMMA AbsentByEntry ==
  ASSUME Inv, NEW k \in Keys, NEW file \in Saves \cup {None}, SetEntry(k, file),
         NEW f \in Saves, NEW v \in 1 .. Len(versions), Absent(f, v), file # f
  PROVE  \A w \in v .. Len(versions'), j \in Keys : versions'[w][j] # f
  <1>1. /\ Len(versions) \in Nat
        /\ Len(versions') = Len(versions) + 1
        /\ \A w \in 1 .. Len(versions) : versions'[w] = versions[w]
        /\ versions'[Len(versions')] = index'
    BY TypedEntry DEF Inv
  <1>2. \A j \in Keys : index[j] # f
    BY <1>1 DEF Absent, Inv, VersionsKept
  <1>3. \A j \in Keys : index'[j] # f
    BY <1>2 DEF SetEntry, Inv, TypeOK, Maps
  <1> QED
    BY <1>1, <1>3 DEF Absent

(* A file that a version names is made, and keeps its key. *)
LEMMA NamedIsMade ==
  ASSUME Inv, FilesKept, NEW v \in 1 .. Len(versions), NEW k \in Keys, versions[v][k] # None
  PROVE  /\ versions[v][k] \in Saves
         /\ ~Fresh(versions[v][k])
         /\ key[versions[v][k]] = k
  <1>1. versions[v][k] \in Saves
    BY DEF Inv, TypeOK, Maps
  <1> QED
    BY <1>1 DEF FilesKept, Absent

(* A change of the index by the call o, or by nobody. *)
LEMMA FilesKeptByEntry ==
  ASSUME Inv, FilesKept, Forward,
         NEW k \in Keys, NEW file \in Saves \cup {None}, SetEntry(k, file),
         file # None => /\ ~Fresh(file)'
                        /\ key'[file] = k
                        /\ ~Fresh(file) => PutBack(file)',
         \A s \in Saves : phase'[s] = "opening" => Chosen(s)',
         \A d \in Drops : phase'[d] \in {"queued", "erasing"} =>
           \/ phase'[d] = phase[d] /\ at'[d] = at[d] /\ target'[d] = target[d]
           \/ file = None /\ at'[d] = Len(versions) + 1 /\ target'[d] = index[k],
         UNCHANGED <<erased, durable>>
  PROVE  FilesKept'
  <1>0. /\ TypeOK
        /\ Len(versions) \in Nat \ {0}
        /\ Len(versions) \in 1 .. Len(versions)
        /\ 1 \in 1 .. Len(versions)
        /\ index = versions[Len(versions)]
        /\ Len(versions') = Len(versions) + 1
        /\ \A w \in 1 .. Len(versions) : versions'[w] = versions[w]
        /\ versions'[Len(versions')] = index'
        /\ \A j \in Keys : index'[j] = IF j = k THEN file ELSE index[j]
    BY TypedEntry DEF Inv, TypeOK, VersionsKept, SetEntry, Maps
  <1>1. ASSUME NEW s \in Saves, Fresh(s)' PROVE Absent(s, 1)'
    <2>1. Fresh(s) /\ file # s
      BY <1>1, NoneAssumption DEF Forward
    <2>2. Absent(s, 1)
      BY <2>1 DEF FilesKept
    <2>3. \A w \in 1 .. Len(versions'), j \in Keys : versions'[w][j] # s
      BY <1>0, <2>1, <2>2, AbsentByEntry
    <2> QED
      BY <2>3 DEF Absent
  <1>2. ASSUME NEW v \in 1 .. Len(versions'), NEW j \in Keys, versions'[v][j] # None
        PROVE  key'[versions'[v][j]] = j
    <2>1. CASE v \in 1 .. Len(versions)
      BY <1>0, <1>2, <2>1, NamedIsMade DEF Forward
    <2>2. CASE v = Len(versions) + 1 /\ j = k
      BY <1>0, <1>2, <2>2
    <2>3. CASE v = Len(versions) + 1 /\ j # k
      <3>1. versions'[v][j] = versions[Len(versions)][j]
        BY <1>0, <2>3
      <3> QED
        BY <1>0, <1>2, <3>1, NamedIsMade DEF Forward
    <2> QED
      BY <1>0, <2>1, <2>2, <2>3
  <1>3. ASSUME NEW f \in Saves, NEW v \in 1 .. Len(versions), ~Fresh(f),
               Absent(f, v) \/ PutBack(f)
        PROVE  /\ ~Fresh(f)'
               /\ (\A w \in v .. Len(versions'), j \in Keys : versions'[w][j] # f) \/ PutBack(f)'
    <2>1. ~Fresh(f)'
      BY <1>3 DEF Forward
    <2>2. CASE PutBack(f)
      BY <2>1, <2>2, PutBackStays
    <2>3. CASE file = f
      BY <1>3, <2>1, <2>3, NoneAssumption
    <2>4. CASE Absent(f, v) /\ file # f
      BY <1>3, <2>1, <2>4, AbsentByEntry
    <2> QED
      BY <1>3, <2>2, <2>3, <2>4
  <1>4. ASSUME NEW d \in Drops, phase'[d] \in {"queued", "erasing"}, target'[d] # None
        PROVE  /\ at'[d] \in 1 .. Len(versions')
               /\ ~Fresh(target[d])'
               /\ \/ \A w \in at'[d] .. Len(versions'), j \in Keys : versions'[w][j] # target'[d]
                  \/ PutBack(target[d])'
    <2>1. CASE phase'[d] = phase[d] /\ at'[d] = at[d] /\ target'[d] = target[d]
      <3>1. /\ target[d] \in Saves
            /\ at[d] \in 1 .. Len(versions)
            /\ ~Fresh(target[d])
            /\ Absent(target[d], at[d]) \/ PutBack(target[d])
        BY <1>0, <1>4, <2>1 DEF FilesKept, TypeOK, Ops
      <3>2. PICK f \in Saves : f = target[d]
        BY <3>1
      <3>3. /\ ~Fresh(f)'
            /\ (\A w \in at[d] .. Len(versions'), j \in Keys : versions'[w][j] # f) \/ PutBack(f)'
        BY <1>3, <3>1, <3>2
      <3> QED
        BY <1>0, <2>1, <3>1, <3>2, <3>3 DEF Fresh, PutBack
    <2>2. CASE file = None /\ at'[d] = Len(versions) + 1 /\ target'[d] = index[k]
      <3>1. /\ index[k] \in Saves
            /\ ~Fresh(index[k])
            /\ key[index[k]] = k
        BY <1>0, <1>4, <2>2, NamedIsMade
      <3>2. ~Fresh(target[d])'
        <4>1. PICK f \in Saves : f = index[k] /\ ~Fresh(f)
          BY <3>1
        <4> QED
          BY <4>1, <2>2 DEF Forward, Fresh
      <3>3. \A j \in Keys : index'[j] # index[k]
        <4>1. ASSUME NEW j \in Keys, j # k PROVE index[j] # index[k]
          <5>1. index[j] # None => key[index[j]] = j
            BY <1>0, NamedIsMade
          <5> QED
            BY <3>1, <4>1, <5>1, NoneAssumption
        <4> QED
          BY <1>0, <2>2, <3>1, <4>1, NoneAssumption
      <3> QED
        BY <1>0, <2>2, <3>2, <3>3 DEF Fresh
    <2> QED
      BY <1>4, <2>1, <2>2
  <1>5. ASSUME NEW f \in erased
        PROVE  /\ ~Fresh(f)'
               /\ (\A w \in durable .. Len(versions'), j \in Keys : versions'[w][j] # f) \/ PutBack(f)'
    <2>1. f \in Saves /\ durable \in 1 .. Len(versions)
      BY <1>0 DEF TypeOK
    <2> QED
      BY <1>3, <2>1 DEF FilesKept
  <1> QED
    BY <1>1, <1>2, <1>4, <1>5 DEF FilesKept, Absent, Fresh, PutBack

(* A step that leaves the versions of the index as they are. *)
LEMMA FilesKeptByStay ==
  ASSUME Inv, FilesKept, Forward, UNCHANGED versions,
         durable' \in Nat, durable <= durable',
         \A s \in Saves : phase'[s] = "opening" => Chosen(s)',
         \A d \in Drops : phase'[d] \in {"queued", "erasing"} =>
           phase[d] \in {"queued", "erasing"} /\ at'[d] = at[d] /\ target'[d] = target[d],
         \A f \in erased' : f \in Saves /\ ~Fresh(f) /\ (Absent(f, durable) \/ PutBack(f))
  PROVE  FilesKept'
  <1>0. /\ TypeOK
        /\ Len(versions) \in Nat
        /\ durable \in 1 .. Len(versions)
        /\ versions' = versions
    BY DEF Inv, TypeOK
  <1>1. \A s \in Saves : Fresh(s)' => Absent(s, 1)'
    BY <1>0 DEF FilesKept, Forward, Absent
  <1>2. ASSUME NEW v \in 1 .. Len(versions'), NEW j \in Keys, versions'[v][j] # None
        PROVE  key'[versions'[v][j]] = j
    BY <1>0, <1>2, NamedIsMade DEF Forward
  <1>3. ASSUME NEW d \in Drops, phase'[d] \in {"queued", "erasing"}, target'[d] # None
        PROVE  /\ at'[d] \in 1 .. Len(versions')
               /\ ~Fresh(target[d])'
               /\ Absent(target[d], at[d])' \/ PutBack(target[d])'
    <2>1. /\ target[d] \in Saves
          /\ at'[d] = at[d] /\ target'[d] = target[d]
          /\ at[d] \in 1 .. Len(versions)
          /\ ~Fresh(target[d])
          /\ Absent(target[d], at[d]) \/ PutBack(target[d])
      BY <1>0, <1>3 DEF FilesKept, TypeOK, Ops
    <2>2. PICK f \in Saves : f = target[d]
      BY <2>1
    <2>3. PutBack(f) => PutBack(f)'
      BY PutBackStays
    <2>4. ~Fresh(f)'
      BY <2>1, <2>2 DEF Forward
    <2> QED
      BY <1>0, <2>1, <2>2, <2>3, <2>4 DEF Absent, Fresh, PutBack
  <1>4. ASSUME NEW f \in erased'
        PROVE  ~Fresh(f)' /\ (Absent(f, durable)' \/ PutBack(f)')
    <2>1. f \in Saves /\ ~Fresh(f) /\ (Absent(f, durable) \/ PutBack(f))
      OBVIOUS
    <2>2. PutBack(f) => PutBack(f)'
      BY PutBackStays
    <2> QED
      BY <1>0, <2>1, <2>2 DEF Absent, Forward
  <1> QED
    BY <1>1, <1>2, <1>3, <1>4 DEF FilesKept

LEMMA FilesKeptInit == Init => FilesKept
  <1> SUFFICES ASSUME Init PROVE FilesKept
    OBVIOUS
  <1>1. Len(versions) = 1 /\ versions[1] = Empty
    <2>1. versions = <<Empty>>
      BY DEF Init
    <2> HIDE DEF Empty
    <2> QED
      BY <2>1
  <1>2. \A w \in 1 .. Len(versions), k \in Keys : versions[w][k] = None
    <2>1. \A w \in 1 .. Len(versions) : w = 1
      BY <1>1
    <2>2. \A k \in Keys : Empty[k] = None
      BY DEF Empty
    <2> QED
      BY <1>1, <2>1, <2>2
  <1>3. /\ erased = {}
        /\ \A d \in Drops : target[d] = None
        /\ \A s \in Saves : phase[s] = "unsent"
    BY DEF Init, Ops
  <1> QED
    BY <1>2, <1>3, NoneAssumption DEF FilesKept, Absent

LEMMA FilesKeptStep ==
  ASSUME Inv, QueueKept, FilesKept, ~ReadFaults, [Next]_vars PROVE FilesKept'
  <1>0. /\ TypeOK
        /\ Forward
        /\ \A x \in Saves : x \in Ops /\ x \notin Drops
        /\ \A x \in Drops : x \in Ops /\ x \notin Saves
        /\ Len(versions) \in Nat \ {0}
        /\ durable \in 1 .. Len(versions)
        /\ \A f \in erased : f \in Saves /\ ~Fresh(f) /\ (Absent(f, durable) \/ PutBack(f))
    BY ForwardStep, OpsAssumption DEF Inv, TypeOK, Ops, FilesKept
  <1>a. ASSUME NEW s \in Saves, phase[s] = "opening", target'[s] = target[s], key'[s] = key[s]
        PROVE  Chosen(s)'
    BY <1>0, <1>a, ChosenStays DEF FilesKept
  <1>1. ASSUME NEW s \in Saves, NEW k \in Keys, OpenSession(s, k) PROVE FilesKept'
    <2>1. /\ s \in Ops
          /\ phase[s] = "unsent"
          /\ \A x \in Ops : phase'[x] = IF x = s THEN "opening" ELSE phase[x]
          /\ \A x \in Ops : key'[x] = IF x = s THEN k ELSE key[x]
          /\ \A x \in Ops : x # s => target'[x] = target[x]
          /\ UNCHANGED <<erased, durable, at>>
      BY <1>0, <1>1 DEF OpenSession, files, TypeOK
    <2>2. ASSUME target'[s] = s PROVE Chosen(s)'
      BY <1>0, <2>1, <2>2 DEF Chosen
    <2>3. ASSUME target'[s] = index[k], index[k] # None PROVE Chosen(s)'
      <3>1. /\ index[k] \in Saves
            /\ ~Fresh(index[k])
            /\ key[index[k]] = k
        <4>1. index = versions[Len(versions)] /\ Len(versions) \in 1 .. Len(versions)
          BY <1>0 DEF Inv, VersionsKept
        <4> QED
          BY <2>3, <4>1, NamedIsMade
      <3>2. index[k] # s
        BY <2>1, <3>1 DEF Fresh
      <3> QED
        BY <1>0, <2>1, <2>3, <3>1, <3>2 DEF Chosen, Fresh
    <2>4. Chosen(s)'
      BY <1>0, <1>1, <2>2, <2>3 DEF OpenSession, TypeOK
    <2>5. \A x \in Saves : phase'[x] = "opening" => Chosen(x)'
      BY <1>0, <1>a, <2>1, <2>4
    <2>6. \A d \in Drops : phase'[d] = phase[d] /\ at'[d] = at[d] /\ target'[d] = target[d]
      BY <1>0, <2>1
    <2>7. CASE UNCHANGED versions
      BY <1>0, <2>1, <2>5, <2>6, <2>7, FilesKeptByStay
    <2>8. CASE SetEntry(k, None)
      BY <1>0, <2>1, <2>5, <2>6, <2>8, FilesKeptByEntry
    <2> QED
      BY <1>1, <2>7, <2>8 DEF OpenSession
  <1>2. ASSUME NEW s \in Saves, NEW k \in Keys, SessionOpened(s, k) PROVE FilesKept'
    <2>1. /\ s \in Ops
          /\ phase[s] = "opening" /\ key[s] = k
          /\ Chosen(s)
          /\ target[s] \in Saves
      BY <1>0, <1>2 DEF SessionOpened, Opening, FilesKept, Chosen
    <2>2. CASE Move(s, "open") /\ UNCHANGED <<key, target>>
      <3>1. /\ \A x \in Ops : phase'[x] = IF x = s THEN "open" ELSE phase[x]
            /\ UNCHANGED <<key, target, versions, erased, durable, at>>
        BY <1>0, <2>2 DEF Move, files, history, TypeOK
      <3>2. \A x \in Saves : phase'[x] = "opening" => Chosen(x)'
        BY <1>0, <1>a, <3>1
      <3> QED
        BY <1>0, <3>1, <3>2, FilesKeptByStay
    <2>3. CASE Request(s, k, target[s])
      <3>1. /\ \A x \in Ops : phase'[x] = IF x = s THEN "queued" ELSE phase[x]
            /\ \A x \in Ops : x # s => at'[x] = at[x]
            /\ key' = key /\ target' = target
            /\ SetEntry(k, target[s])
            /\ UNCHANGED <<erased, durable>>
        BY <1>0, <2>1, <2>3 DEF Request, files, TypeOK
      <3>2. \A x \in Saves : phase'[x] = "opening" => Chosen(x)'
        BY <1>0, <1>a, <3>1
      <3>3. PICK f \in Saves : f = target[s]
        BY <2>1
      <3>4. ~Fresh(f)' /\ key'[f] = k
        BY <1>0, <2>1, <3>1, <3>3 DEF Chosen, Fresh
      <3>5. ~Fresh(f) => PutBack(f)'
        BY <1>0, <2>1, <3>1, <3>3 DEF Fresh, PutBack
      <3>6. \A d \in Drops : phase'[d] = phase[d] /\ at'[d] = at[d] /\ target'[d] = target[d]
        BY <1>0, <3>1
      <3> QED
        BY <1>0, <3>1, <3>2, <3>3, <3>4, <3>5, <3>6, FilesKeptByEntry
    <2> QED
      BY <1>2, <2>2, <2>3 DEF SessionOpened
  <1>3. ASSUME NEW s \in Saves, SessionNotOpened(s) PROVE FilesKept'
    <2>1. /\ \A x \in Ops : phase'[x] = IF x = s THEN "unopened" ELSE phase[x]
          /\ UNCHANGED <<key, target, versions, erased, durable, at>>
      BY <1>0, <1>3 DEF SessionNotOpened, Move, files, history, TypeOK
    <2>2. \A x \in Saves : phase'[x] = "opening" => Chosen(x)'
      BY <1>0, <1>a, <2>1
    <2> QED
      BY <1>0, <2>1, <2>2, FilesKeptByStay
  <1>4. ASSUME NEW d \in Drops, NEW k \in Keys, StopSession(d, k) PROVE FilesKept'
    <2>1. /\ \A x \in Ops : phase'[x] = IF x = d THEN "stopping" ELSE phase[x]
          /\ \A x \in Ops : x # d => key'[x] = key[x]
          /\ UNCHANGED <<target, versions, erased, durable, at>>
      BY <1>0, <1>4 DEF StopSession, Move, files, history, TypeOK
    <2>2. \A x \in Saves : phase'[x] = "opening" => Chosen(x)'
      BY <1>0, <1>a, <2>1
    <2> QED
      BY <1>0, <2>1, <2>2, FilesKeptByStay
  <1>5. ASSUME NEW d \in Drops, NEW k \in Keys, DropEntry(d, k) PROVE FilesKept'
    <2>1. /\ \A x \in Ops : phase'[x] = IF x = d THEN "queued" ELSE phase[x]
          /\ \A x \in Ops : at'[x] = IF x = d THEN Len(versions) + 1 ELSE at[x]
          /\ \A x \in Ops : target'[x] = IF x = d THEN index[k] ELSE target[x]
          /\ \A x \in Ops : x # d => key'[x] = key[x]
          /\ SetEntry(k, None)
          /\ UNCHANGED <<erased, durable>>
      BY <1>0, <1>5 DEF DropEntry, Request, files, TypeOK
    <2>2. \A x \in Saves : phase'[x] = "opening" => Chosen(x)'
      BY <1>0, <1>a, <2>1
    <2>3. \A x \in Drops :
            \/ phase'[x] = phase[x] /\ at'[x] = at[x] /\ target'[x] = target[x]
            \/ at'[x] = Len(versions) + 1 /\ target'[x] = index[k]
      BY <1>0, <2>1
    <2> QED
      BY <1>0, <2>1, <2>2, <2>3, FilesKeptByEntry
  <1>6. CASE StartWrite \/ UNCHANGED vars \/ \E k \in Keys : Evict(k)
    <2>1. UNCHANGED <<phase, key, target, versions, erased, durable, at>>
      BY <1>6 DEF StartWrite, Evict, vars, files, calls, history
    <2> QED
      BY <1>0, <1>a, <2>1, FilesKeptByStay
  <1>7. CASE Renamed \/ WriteFails
    <2>1. PICK next : WriteEnds(next) /\ \A x \in Ops : next[x] \in {"saved", "erasing", "refused"}
      BY <1>7 DEF Renamed, WriteFails, Succeeded, Failed
    <2>2. Head(queue) \in Ops /\ phase[Head(queue)] = "queued"
      BY <1>0, <2>1, HeadWaits DEF WriteEnds
    <2>3. /\ \A x \in Ops :
               \/ phase'[x] = phase[x]
               \/ phase[x] = "queued" /\ phase'[x] \in {"saved", "erasing", "refused"}
          /\ UNCHANGED <<versions, key, target, at, erased>>
      BY <2>1, <2>2 DEF WriteEnds, Resumed
    <2>4. durable' \in Nat /\ durable <= durable'
      BY <1>0, <1>7 DEF Renamed, WriteFails, WriteEnds, Inv, TypeOK, VersionsKept
    <2>5. \A x \in Saves : phase'[x] = "opening" => Chosen(x)'
      BY <1>0, <1>a, <2>3
    <2> QED
      BY <1>0, <2>3, <2>4, <2>5, FilesKeptByStay
  <1>8. ASSUME NEW d \in Drops, FileErased(d) \/ FileKept(d) PROVE FilesKept'
    <2>1. PICK next \in {"erased", "kept"} : Leave(d, next)
      BY <1>8 DEF FileErased, FileKept
    <2>2. /\ phase[d] = "erasing"
          /\ \A x \in Ops : phase'[x] = IF x = d THEN next ELSE phase[x]
          /\ UNCHANGED <<key, target, versions, durable, at>>
      BY <1>0, <2>1 DEF Leave, history, TypeOK
    <2>3. \A f \in erased' : f \in erased \/ (f = target[d] /\ f # None)
      BY <1>8 DEF FileErased, FileKept
    <2>4. at[d] <= durable
      BY <1>0, <2>2 DEF Inv, ConfirmedIsDurable
    <2>5. target[d] # None => /\ target[d] \in Saves
                              /\ ~Fresh(target[d])
                              /\ Absent(target[d], durable) \/ PutBack(target[d])
      <3>1. target[d] \in Saves \cup {None}
        BY <1>0 DEF TypeOK
      <3>2. target[d] # None => /\ at[d] \in 1 .. Len(versions)
                                /\ ~Fresh(target[d])
                                /\ Absent(target[d], at[d]) \/ PutBack(target[d])
        BY <2>2 DEF FilesKept
      <3>3. target[d] # None /\ Absent(target[d], at[d]) => Absent(target[d], durable)
        BY <1>0, <2>4, <3>2 DEF Absent
      <3> QED
        BY <3>1, <3>2, <3>3
    <2>6. \A f \in erased' : f \in Saves /\ ~Fresh(f) /\ (Absent(f, durable) \/ PutBack(f))
      BY <1>0, <2>3, <2>5
    <2>7. \A x \in Saves : phase'[x] = "opening" => Chosen(x)'
      BY <1>0, <1>a, <2>2
    <2> QED
      BY <1>0, <2>2, <2>6, <2>7, FilesKeptByStay
  <1>9. CASE CrashAndRestart
    <2>1. /\ versions' = [v \in 1 .. durable |-> versions[v]]
          /\ UNCHANGED <<erased, key, target, durable>>
          /\ \A x \in Ops : phase'[x] \notin {"queued", "erasing", "opening"}
      BY <1>9 DEF CrashAndRestart
    <2>2. Len(versions') = durable /\ \A v \in 1 .. durable : versions'[v] = versions[v]
      BY <1>0, <2>1, Prefix DEF TypeOK
    <2>3. \A f \in Saves, v \in 1 .. Len(versions) :
            Absent(f, v) => \A w \in v .. Len(versions'), k \in Keys : versions'[w][k] # f
      BY <1>0, <2>2 DEF Absent
    <2>4. \A s \in Saves : Fresh(s)' => Absent(s, 1)'
      BY <1>0, <2>2, <2>3 DEF FilesKept, Forward, Absent
    <2>5. ASSUME NEW v \in 1 .. Len(versions'), NEW k \in Keys, versions'[v][k] # None
          PROVE  key'[versions'[v][k]] = k
      BY <1>0, <2>1, <2>2, <2>5, NamedIsMade
    <2>6. \A f \in erased : ~Fresh(f)' /\ (Absent(f, durable)' \/ PutBack(f)')
      BY <1>0, <2>1, <2>3, PutBackStays DEF Forward, Absent
    <2> QED
      BY <1>0, <2>1, <2>4, <2>5, <2>6 DEF FilesKept
  <1> QED
    BY <1>1, <1>2, <1>3, <1>4, <1>5, <1>6, <1>7, <1>8, <1>9 DEF Next

(* No order of creations, deletes, writes, removals, failures and crashes  *)
(* leaves an entry on disk that names a session file that a DELETE removed *)
(* unless a creation that had opened the file put the entry back.          *)
THEOREM NothingDangles == ASSUME ~ReadFaults PROVE Spec => []NoDanglingEntry
  <1>1. Init => Inv /\ QueueKept /\ FilesKept
    BY InvInit, QueueInit, FilesKeptInit
  <1>2. Inv /\ QueueKept /\ FilesKept /\ [Next]_vars => (Inv /\ QueueKept /\ FilesKept)'
    BY InvStep, QueueStep, FilesKeptStep DEF Inv
  <1>3. Inv /\ FilesKept => NoDanglingEntry
    BY DEF Inv, TypeOK, VersionsKept, FilesKept, Absent, NoDanglingEntry
  <1> QED
    BY <1>1, <1>2, <1>3, PTL DEF Spec
-----------------------------------------------------------------------------
(* Entries *)

(* A key has one creation at most whose session is being opened, and the   *)
(* index names the file of that creation for it, or none by now.           *)
CreationsKept ==
  /\ \A x, y \in Saves :
       phase[x] = "opening" /\ phase[y] = "opening" /\ key[x] = key[y] => x = y
  /\ \A s \in Saves, k \in Keys : Opening(s, k) => index[k] \in {None, target[s]}

(* An entry that was taken out, or may be: a DELETE came for its key, or   *)
(* its file could not be opened.                                           *)
Dropped(k) == \E d \in Drops : phase[d] # "unsent" /\ key[d] = k
Excused(k, file) == file \in broken \/ Dropped(k)

(* What a map has for a key, a later one has as well. *)
Handed(older, newer) == \A k \in Keys : older[k] = None \/ newer[k] = older[k] \/ Excused(k, older[k])

(* The disk is behind the write under way, and both are behind the memory, *)
(* by excused entries only.                                                *)
EntriesKept ==
  /\ Handed(disk, index)
  /\ writing => Handed(disk, temporary) /\ Handed(temporary, index)

(* What was excused stays so. *)
StillExcused == \A k \in Keys, f \in Saves : Excused(k, f) => Excused(k, f)'

LEMMA CreationsKeptStep ==
  ASSUME TypeOK, QueueKept, CreationsKept, [Next]_vars PROVE CreationsKept'
  <1>0. /\ \A x \in Saves : x \in Ops /\ x \notin Drops
        /\ \A x \in Drops : x \in Ops /\ x \notin Saves
    BY OpsAssumption DEF Ops
  <1>1. ASSUME NEW s \in Saves, NEW k \in Keys, OpenSession(s, k) PROVE CreationsKept'
    <2>1. /\ phase[s] = "unsent"
          /\ \A x \in Saves : phase'[x] = IF x = s THEN "opening" ELSE phase[x]
          /\ \A x \in Saves : key'[x] = IF x = s THEN k ELSE key[x]
          /\ \A x \in Saves : x # s => target'[x] = target[x]
          /\ \A x \in Saves : phase[x] = "opening" => key[x] # k
      BY <1>0, <1>1 DEF OpenSession, InProgress, TypeOK
    <2>2. \A j \in Keys : j # k => index'[j] = index[j]
      BY <1>1 DEF OpenSession, SetEntry, TypeOK, Maps
    <2>3. index'[k] \in {None, target'[s]}
      BY <1>0, <1>1 DEF OpenSession, SetEntry, TypeOK, Maps
    <2> QED
      BY <2>1, <2>2, <2>3 DEF CreationsKept, Opening
  <1>2. ASSUME \A x \in Saves : phase'[x] = "opening" =>
                 phase[x] = "opening" /\ key'[x] = key[x] /\ target'[x] = target[x],
               \A x \in Saves, j \in Keys :
                 Opening(x, j)' => index'[j] \in {None, index[j]}
        PROVE  CreationsKept'
    BY <1>2 DEF CreationsKept, Opening
  <1>3. ASSUME NEW s \in Saves, NEW k \in Keys, SessionOpened(s, k) PROVE CreationsKept'
    <2>1. /\ s \in Ops /\ phase[s] = "opening" /\ key[s] = k
          /\ \A x \in Saves : phase'[x] = "opening" => x # s /\ phase[x] = "opening"
          /\ \A x \in Saves : x # s => key'[x] = key[x] /\ target'[x] = target[x]
      BY <1>0, <1>3 DEF SessionOpened, Opening, Move, Request, TypeOK
    <2>2. \A j \in Keys : j # k => index'[j] = index[j]
      BY <1>3 DEF SessionOpened, Move, Request, SetEntry, TypeOK, Maps
    <2>3. \A x \in Saves, j \in Keys : Opening(x, j)' => j # k
      BY <2>1 DEF CreationsKept, Opening
    <2> QED
      BY <1>2, <2>1, <2>2, <2>3
  <1>4. ASSUME NEW s \in Saves, SessionNotOpened(s) PROVE CreationsKept'
    BY <1>0, <1>2, <1>4 DEF SessionNotOpened, Move, TypeOK
  <1>5. ASSUME NEW d \in Drops, NEW k \in Keys, StopSession(d, k) PROVE CreationsKept'
    BY <1>0, <1>2, <1>5 DEF StopSession, Move, TypeOK
  <1>6. ASSUME NEW d \in Drops, NEW k \in Keys, DropEntry(d, k) PROVE CreationsKept'
    <2>1. \A x \in Saves : phase'[x] = phase[x] /\ key'[x] = key[x] /\ target'[x] = target[x]
      BY <1>0, <1>6 DEF DropEntry, Request, TypeOK
    <2>2. \A j \in Keys : index'[j] \in {None, index[j]}
      BY <1>6 DEF DropEntry, Request, SetEntry, TypeOK, Maps
    <2> QED
      BY <1>2, <2>1, <2>2
  <1>7. CASE Renamed \/ WriteFails
    <2>1. Head(queue) \in Ops /\ phase[Head(queue)] = "queued"
      BY <1>7, HeadWaits DEF Renamed, WriteFails, WriteEnds
    <2>2. \A x \in Saves : phase'[x] = "opening" => phase[x] = "opening"
      BY <1>0, <1>7, <2>1 DEF Renamed, WriteFails, WriteEnds, Resumed, Succeeded, Failed
    <2> QED
      BY <1>2, <1>7, <2>2 DEF Renamed, WriteFails, WriteEnds
  <1>8. ASSUME NEW d \in Drops, FileErased(d) \/ FileKept(d) PROVE CreationsKept'
    <2>1. PICK next : Leave(d, next)
      BY <1>8 DEF FileErased, FileKept
    <2> QED
      BY <1>0, <1>2, <2>1 DEF Leave, TypeOK
  <1>9. CASE CrashAndRestart
    BY <1>0, <1>2, <1>9 DEF CrashAndRestart, Opening
  <1>10. CASE StartWrite \/ UNCHANGED vars \/ \E k \in Keys : Evict(k)
    BY <1>2, <1>10 DEF StartWrite, Evict, vars, calls
  <1> QED
    BY <1>1, <1>3, <1>4, <1>5, <1>6, <1>7, <1>8, <1>9, <1>10 DEF Next

(* A change of an entry that is None already, or becomes it and is excused *)
(* from then on.                                                           *)
LEMMA EntriesKeptByEntry ==
  ASSUME TypeOK, EntriesKept, NEW k \in Keys, NEW file \in Saves \cup {None}, SetEntry(k, file),
         StillExcused, UNCHANGED <<disk, temporary, writing>>,
         \/ index[k] = None
         \/ file = None /\ index[k] \in Saves /\ \A f \in Saves : f = index[k] => Excused(k, f)'
  PROVE  EntriesKept'
  <1>1. \A j \in Keys : index'[j] = IF j = k THEN file ELSE index[j]
    BY DEF SetEntry, TypeOK, Maps
  <1>2. ASSUME NEW older \in Maps, Handed(older, index)
        PROVE  \A j \in Keys : \/ older[j] = None \/ index'[j] = older[j]
                               \/ older[j] \in Saves /\ \A f \in Saves : f = older[j] => Excused(j, f)'
    <2> SUFFICES ASSUME NEW j \in Keys, older[j] # None, index'[j] # older[j]
                 PROVE  older[j] \in Saves /\ \A f \in Saves : f = older[j] => Excused(j, f)'
      OBVIOUS
    <2>1. older[j] \in Saves
      BY DEF Maps
    <2>2. CASE Excused(j, older[j])
      BY <2>1, <2>2 DEF StillExcused
    <2>3. CASE index[j] = older[j]
      BY <1>1, <2>1, <2>3
    <2> QED
      BY <1>2, <2>2, <2>3 DEF Handed
  <1>3. Handed(disk, index)'
    BY <1>2 DEF EntriesKept, TypeOK, Handed
  <1>4. writing => Handed(temporary, index)'
    BY <1>2 DEF EntriesKept, TypeOK, Handed
  <1>5. writing => Handed(disk, temporary)'
    <2>1. \A j \in Keys : disk[j] # None => disk[j] \in Saves
      BY DEF TypeOK, Maps
    <2> QED
      BY <2>1 DEF EntriesKept, Handed, StillExcused
  <1> QED
    BY <1>3, <1>4, <1>5 DEF EntriesKept

LEMMA EntriesKeptStep ==
  ASSUME TypeOK, CreationsKept, EntriesKept, ~ReadFaults, [Next]_vars
  PROVE  EntriesKept'
  <1>0. /\ \A x \in Drops : x \in Ops /\ x \notin Saves
        /\ \A x \in Saves : x \in Ops /\ x \notin Drops
    BY OpsAssumption DEF Ops
  <1>a. ASSUME broken \subseteq broken',
               \A d \in Drops : phase[d] # "unsent" => phase'[d] # "unsent" /\ key'[d] = key[d]
        PROVE  StillExcused
    BY <1>a DEF StillExcused, Excused, Dropped
  <1>b. ASSUME StillExcused, UNCHANGED index, writing' => writing /\ UNCHANGED temporary,
               disk' = disk \/ (writing /\ disk' = temporary)
        PROVE  EntriesKept'
    <2>1. \A j \in Keys : /\ disk[j] # None => disk[j] \in Saves
                          /\ temporary[j] # None => temporary[j] \in Saves
      BY DEF TypeOK, Maps
    <2> QED
      BY <1>b, <2>1 DEF EntriesKept, Handed, StillExcused
  <1>1. ASSUME NEW s \in Saves, NEW k \in Keys, OpenSession(s, k) PROVE EntriesKept'
    <2>1. /\ \A d \in Drops : phase'[d] = phase[d] /\ key'[d] = key[d]
          /\ broken \subseteq broken'
          /\ UNCHANGED <<disk, temporary, writing>>
      BY <1>0, <1>1 DEF OpenSession, files, TypeOK
    <2>2. StillExcused
      BY <1>a, <2>1
    <2>3. CASE UNCHANGED index
      BY <1>b, <2>1, <2>2, <2>3
    <2>4. CASE SetEntry(k, None) /\ index[k] # None /\ broken' = broken \cup {index[k]}
      <3>1. index[k] \in Saves
        BY <2>4 DEF TypeOK, Maps
      <3>2. \A f \in Saves : f = index[k] => Excused(k, f)'
        BY <2>4 DEF Excused
      <3> QED
        BY <2>1, <2>2, <2>4, <3>1, <3>2, EntriesKeptByEntry
    <2> QED
      BY <1>1, <2>3, <2>4 DEF OpenSession
  <1>2. ASSUME NEW s \in Saves, NEW k \in Keys, SessionOpened(s, k) PROVE EntriesKept'
    <2>1. s \in Ops /\ target[s] \in Saves \cup {None}
      BY <1>0 DEF TypeOK
    <2>2. /\ \A d \in Drops : phase'[d] = phase[d] /\ key'[d] = key[d]
          /\ UNCHANGED <<broken, disk, temporary, writing>>
      BY <1>0, <1>2 DEF SessionOpened, Move, Request, files, TypeOK
    <2>3. StillExcused
      BY <1>a, <2>2
    <2>4. CASE UNCHANGED index
      BY <1>b, <2>2, <2>3, <2>4
    <2>5. CASE Request(s, k, target[s]) /\ index[k] # target[s]
      <3>1. index[k] = None
        BY <1>2, <2>5 DEF SessionOpened, CreationsKept
      <3> QED
        BY <2>1, <2>2, <2>3, <2>5, <3>1, EntriesKeptByEntry DEF Request
    <2> QED
      BY <1>2, <2>4, <2>5 DEF SessionOpened, Move
  <1>3. ASSUME NEW s \in Saves, SessionNotOpened(s) PROVE EntriesKept'
    <2>1. /\ \A d \in Drops : phase'[d] = phase[d] /\ key'[d] = key[d]
          /\ UNCHANGED <<index, broken, disk, temporary, writing>>
      BY <1>0, <1>3 DEF SessionNotOpened, Move, files, TypeOK
    <2> QED
      BY <1>a, <1>b, <2>1
  <1>4. ASSUME NEW d \in Drops, NEW k \in Keys, StopSession(d, k) PROVE EntriesKept'
    <2>1. /\ phase[d] = "unsent"
          /\ \A x \in Drops : x # d => phase'[x] = phase[x] /\ key'[x] = key[x]
          /\ UNCHANGED <<index, broken, disk, temporary, writing>>
      BY <1>0, <1>4 DEF StopSession, Move, files, TypeOK
    <2> QED
      BY <1>a, <1>b, <2>1
  <1>5. ASSUME NEW d \in Drops, NEW k \in Keys, DropEntry(d, k) PROVE EntriesKept'
    <2>1. /\ phase[d] = "unsent" \/ key[d] = k
          /\ phase'[d] = "queued" /\ key'[d] = k
          /\ \A x \in Drops : x # d => phase'[x] = phase[x] /\ key'[x] = key[x]
          /\ SetEntry(k, None)
          /\ UNCHANGED <<broken, disk, temporary, writing>>
      BY <1>0, <1>5 DEF DropEntry, Request, files, TypeOK
    <2>2. StillExcused
      BY <1>a, <2>1
    <2>3. \A f \in Saves : Excused(k, f)'
      BY <2>1 DEF Excused, Dropped
    <2>4. index[k] = None \/ index[k] \in Saves
      BY DEF TypeOK, Maps
    <2> QED
      BY <2>1, <2>2, <2>3, <2>4, EntriesKeptByEntry
  <1>6. CASE StartWrite
    BY <1>6 DEF StartWrite, calls, EntriesKept, Handed, Excused, Dropped
  <1>7. CASE Renamed \/ WriteFails
    <2>1. \A d \in Drops : phase[d] # "unsent" => phase'[d] # "unsent"
      BY <1>7 DEF Renamed, WriteFails, WriteEnds, Succeeded, Failed, Ops
    <2> QED
      BY <1>a, <1>b, <1>7, <2>1 DEF Renamed, WriteFails, WriteEnds
  <1>8. ASSUME NEW d \in Drops, FileErased(d) \/ FileKept(d) PROVE EntriesKept'
    <2>1. PICK next \in {"erased", "kept"} : Leave(d, next) /\ UNCHANGED disk
      BY <1>8 DEF FileErased, FileKept, Leave
    <2>2. \A x \in Drops : phase'[x] = IF x = d THEN next ELSE phase[x]
      BY <1>0, <2>1 DEF Leave, TypeOK
    <2> QED
      BY <1>a, <1>b, <2>1, <2>2 DEF Leave
  <1>9. CASE CrashAndRestart
    <2>1. /\ index' = disk /\ UNCHANGED disk /\ writing' = FALSE
      BY <1>9 DEF CrashAndRestart, Loads
    <2> QED
      BY <2>1 DEF EntriesKept, Handed
  <1>10. CASE UNCHANGED vars \/ \E k \in Keys : Evict(k)
    BY <1>a, <1>b, <1>10 DEF vars, Evict, files, calls
  <1> QED
    BY <1>1, <1>2, <1>3, <1>4, <1>5, <1>6, <1>7, <1>8, <1>9, <1>10 DEF Next

(* An entry leaves the disk only when a DELETE of its key asked for it or  *)
(* its file cannot be opened: no write of another call, failed write or    *)
(* crash takes it out.                                                     *)
THEOREM EntriesStay == ASSUME ~ReadFaults PROVE Spec => EntriesSurvive
  <1>1. Init => CreationsKept /\ EntriesKept
    BY DEF Init, Empty, Ops, CreationsKept, Opening, EntriesKept, Handed
  <1>2. /\ TypeOK /\ QueueKept /\ CreationsKept /\ EntriesKept /\ [Next]_vars
        => (QueueKept /\ CreationsKept /\ EntriesKept)'
    BY QueueStep, CreationsKeptStep, EntriesKeptStep
  <1>3. TypeOK /\ EntriesKept /\ [Next]_vars =>
          [\A k \in Keys : disk[k] # None /\ disk'[k] # disk[k] =>
             disk[k] \in broken \/ \E d \in Drops : key[d] = k]_vars
    <2>1. CASE Renamed
      BY <2>1 DEF Renamed, WriteEnds, EntriesKept, Handed, Excused, Dropped
    <2>2. CASE ~Renamed /\ [Next]_vars
      <3>1. disk' = disk
        BY <2>2 DEF Next, OpenSession, SessionOpened, SessionNotOpened, Evict, StopSession,
                    DropEntry, Request, Move, StartWrite, WriteFails,
                    FileErased, FileKept, Leave, CrashAndRestart, files, vars
      <3> QED
        BY <3>1
    <2> QED
      BY <2>1, <2>2
  <1> QED
    BY <1>1, <1>2, <1>3, QueueInit, TypeCorrect, PTL DEF Spec, EntriesSurvive

=============================================================================
