---------------------------- MODULE DurableIndex ----------------------------
(***************************************************************************)
(* What the session index of the Pi agent service promises the calls that  *)
(* change it, whatever file operations it is made of.                      *)
(*                                                                         *)
(* Every change makes a new version of the index.  Some version is durable *)
(* at any time; later versions replace it, earlier ones never do.  A call  *)
(* is confirmed only once a version that holds its change is durable.  A   *)
(* crash loses the versions after the durable one and nothing else.        *)
(***************************************************************************)
EXTENDS Naturals, Sequences

CONSTANTS Ops,   \* calls that change the index, each made once
          Maps   \* the values of the index

VARIABLES
  index,     \* its value in memory
  disk,      \* its value on disk
  versions,  \* the values it has had since the last crash
  durable,   \* which of them is on disk
  at,        \* call -> the version its change made, or 0
  confirmed  \* calls that were told that their change is saved

vars == <<index, disk, versions, durable, at, confirmed>>

Init ==
  /\ index \in Maps
  /\ disk = index
  /\ versions = <<index>>
  /\ durable = 1
  /\ at = [o \in Ops |-> 0]
  /\ confirmed = {}

(* The index changes. *)
Amend ==
  /\ index' \in Maps
  /\ versions' = Append(versions, index')
  /\ UNCHANGED <<disk, durable, confirmed>>

(* A call changes it, or the service itself on behalf of nobody. *)
Change(o) ==
  /\ at[o] = 0
  /\ Amend
  /\ at' = [at EXCEPT ![o] = Len(versions) + 1]

ChangeAlone == Amend /\ UNCHANGED at

(* A version not older than the durable one is saved, calls whose changes  *)
(* it holds are confirmed, or both.                                        *)
Save ==
  \E v \in durable .. Len(versions) :
    /\ durable' = v
    /\ disk' = versions[v]
    /\ \E S \in SUBSET {o \in Ops : at[o] \in 1 .. v} : confirmed' = confirmed \cup S
    /\ UNCHANGED <<index, versions, at>>

Crash ==
  /\ index' = disk
  /\ versions' = [v \in 1 .. durable |-> versions[v]]
  /\ at' = [o \in Ops |-> IF at[o] > durable THEN 0 ELSE at[o]]
  /\ UNCHANGED <<disk, durable, confirmed>>

Next ==
  \/ \E o \in Ops : Change(o)
  \/ ChangeAlone
  \/ Save
  \/ Crash

Spec == Init /\ [][Next]_vars

=============================================================================
