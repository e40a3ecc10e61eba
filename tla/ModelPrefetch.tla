--------------------------- MODULE ModelPrefetch ---------------------------
(***************************************************************************)
(* The one-shot model-init service (src/prefetch_models.py): it fills the  *)
(* model cache that the voice server is started on once it has exited with *)
(* status 0.  Nothing restarts it (docker-compose.yml, restart: "no"); the *)
(* operator runs it again.                                                 *)
(*                                                                         *)
(* A step is one call that leaves a trace on the disk.  The process may be *)
(* killed between any two; downloads may be cut off, with or without an    *)
(* announced length; loading a model may fail for want of a GPU.  The      *)
(* faults are bounded in number, so that the others can be shown to end.   *)
(***************************************************************************)
EXTENDS Naturals

CONSTANT MaxFaults \* faults in all (bound of the model)

ASSUME MaxFaultsAssumption == MaxFaults \in Nat

VARIABLES
  pc,        \* where the run is
  item,      \* the Kokoro artifact it has come to
  whisper,   \* the Faster Whisper snapshot in the cache
  disk,      \* artifact -> the file at its path
  part,      \* artifact -> the file at its .part path
  announced, \* the response in hand has a Content-Length
  sized,     \* artifact -> a run that was told its length put the file in place
  faults     \* faults so far

vars == <<pc, item, whisper, disk, part, announced, sized, faults>>

(* What a file is.  "short" is below the minimum size of the artifact; the *)
(* others reach it: "broken" does not load, and "other" does, although it  *)
(* is not the artifact (a different model; an archive of which np.load,    *)
(* that reads no more than its directory, does not notice what is damaged).*)
Artifacts == {"model", "voices"}
Files == {"absent", "short", "broken", "other", "whole"}

(* The snapshot lacks files; or it has them all, and they load; or one is  *)
(* empty or does not load.  Nothing compares what loads with the original. *)
Snapshots == {"absent", "partial", "complete", "damaged"}

Over == {"done", "failed", "down"}
Places == {"whisper", "runtime", "check", "get", "write", "place", "verify"} \cup Over

TypeOK ==
  /\ pc \in Places
  /\ item \in Artifacts
  /\ whisper \in Snapshots
  /\ disk \in [Artifacts -> Files]
  /\ part \in [Artifacts -> Files]
  /\ announced \in BOOLEAN
  /\ sized \in [Artifacts -> BOOLEAN]
  /\ faults \in 0..MaxFaults

(* The volume may hold anything: files of earlier versions, of other tools *)
(* and of runs that were killed.                                           *)
Init ==
  /\ pc = "whisper"
  /\ item = "model"
  /\ whisper \in Snapshots
  /\ disk \in [Artifacts -> Files]
  /\ part \in [Artifacts -> Files]
  /\ announced = FALSE
  /\ sized = [a \in Artifacts |-> FALSE]
  /\ faults = 0

Running == pc \notin Over
Fault == faults < MaxFaults /\ faults' = faults + 1
NoFault == UNCHANGED faults

-----------------------------------------------------------------------------
(* Faster Whisper *)

(* A file that the cache has is not fetched again, whatever is in it. *)
Fetched(snapshot) == IF whisper = "damaged" THEN whisper ELSE snapshot

(* snapshot_download returns; what it returns may still lack files. *)
Snapshot ==
  /\ pc = "whisper"
  /\ \/ NoFault /\ whisper' = Fetched("complete")
     \/ Fault /\ whisper' = Fetched("partial")
  /\ pc' = "runtime"
  /\ UNCHANGED <<item, disk, part, announced, sized>>

SnapshotFails ==
  /\ pc = "whisper"
  /\ Fault
  /\ \E left \in {whisper, Fetched("partial")} : whisper' = left
  /\ pc' = "failed"
  /\ UNCHANGED <<item, disk, part, announced, sized>>

WhisperLoads == whisper = "complete"

(* The files are looked for, and then the model is loaded on the GPU.      *)
(* Neither check removes what it does not like.                            *)
LoadWhisper ==
  /\ pc = "runtime"
  /\ \/ WhisperLoads /\ NoFault /\ pc' = "check"
     \/ ~WhisperLoads /\ NoFault /\ pc' = "failed"
     \/ WhisperLoads /\ Fault /\ pc' = "failed"
  /\ UNCHANGED <<item, whisper, disk, part, announced, sized>>

-----------------------------------------------------------------------------
(* Kokoro: _download_if_missing_or_partial, for the model and the voices   *)

(* The artifact in hand is there: main goes on to the next one. *)
GoOn ==
  IF item = "model" THEN pc' = "check" /\ item' = "voices" ELSE pc' = "verify" /\ UNCHANGED item

LargeEnough_Never(file) == FALSE
LargeEnough(file) == file \notin {"absent", "short"}

(* A file that is too small is removed, and so is what a run left behind.  *)
Check ==
  /\ pc = "check"
  /\ IF LargeEnough(disk[item])
       THEN GoOn /\ UNCHANGED <<disk, part>>
       ELSE /\ pc' = "get"
            /\ UNCHANGED item
            /\ disk' = [disk EXCEPT ![item] = "absent"]
            /\ part' = [part EXCEPT ![item] = "absent"]
  /\ NoFault
  /\ UNCHANGED <<whisper, announced, sized>>

(* The response may lack a length: nothing but the minimum is known then.  *)
Get ==
  /\ pc = "get"
  /\ pc' = "write"
  /\ announced' \in BOOLEAN
  /\ part' = [part EXCEPT ![item] = "short"]
  /\ NoFault
  /\ UNCHANGED <<item, whisper, disk, sized>>

(* The stream of chunks, which are those of the artifact, ends, at its end *)
(* or before.                                                              *)
Written ==
  /\ pc = "write"
  /\ pc' = "place"
  /\ \/ NoFault /\ part' = [part EXCEPT ![item] = "whole"]
     \/ Fault /\ \E cut \in {"short", "broken", "other"} : part' = [part EXCEPT ![item] = cut]
  /\ UNCHANGED <<item, whisper, disk, announced, sized>>

Rejected == (announced /\ part[item] # "whole") \/ part[item] = "short"

(* The .part file takes the place of the artifact in one call. *)
PlacedFile == part[item]
Place ==
  /\ pc = "place"
  /\ part' = [part EXCEPT ![item] = "absent"]
  /\ IF Rejected
       THEN pc' = "failed" /\ UNCHANGED <<item, disk, sized>>
       ELSE /\ GoOn
            /\ disk' = [disk EXCEPT ![item] = PlacedFile]
            /\ sized' = [sized EXCEPT ![item] = announced]
  /\ NoFault
  /\ UNCHANGED <<whisper, announced>>

(* No answer, an error status, or a read that times out. *)
DownloadFails ==
  /\ pc \in {"get", "write"}
  /\ Fault
  /\ part' = [part EXCEPT ![item] = "absent"]
  /\ pc' = "failed"
  /\ UNCHANGED <<item, whisper, disk, announced, sized>>

-----------------------------------------------------------------------------
(* _verify_kokoro_artifacts *)

Discarded_Kept == disk
Discarded == [a \in Artifacts |-> "absent"]

Loads(file) == file \in {"other", "whole"}

Loadable_Model == Loads(disk["model"])
Loadable == \A a \in Artifacts : Loads(disk[a])

(* Artifacts that do not load are both removed, whichever it was and       *)
(* whether they or the provider are to blame; a provider that is not even  *)
(* listed leaves them alone.                                               *)
Verify ==
  /\ pc = "verify"
  /\ \/ /\ Loadable
        /\ pc' = "done"
        /\ NoFault
        /\ UNCHANGED disk
     \/ /\ ~Loadable
        /\ pc' = "failed"
        /\ NoFault
        /\ disk' = Discarded
     \/ /\ Fault
        /\ pc' = "failed"
        /\ disk' \in {disk, Discarded}
  /\ UNCHANGED <<item, whisper, part, announced, sized>>

-----------------------------------------------------------------------------
(* The container *)

(* The process is killed, perhaps between the two removals of Verify. *)
Crash ==
  /\ Running
  /\ Fault
  /\ pc' = "down"
  /\ \E left \in {whisper, IF pc = "whisper" THEN Fetched("partial") ELSE whisper} : whisper' = left
  /\ \E left \in {disk, IF pc = "verify" THEN [disk EXCEPT !["model"] = "absent"] ELSE disk} : disk' = left
  /\ UNCHANGED <<item, part, announced, sized>>

(* A file loses its content between two runs. *)
Corrupt ==
  /\ ~Running
  /\ Fault
  /\ \/ /\ \E a \in Artifacts, file \in Files \ {"whole"} :
             /\ disk' = [disk EXCEPT ![a] = file]
             /\ sized' = [sized EXCEPT ![a] = FALSE]
        /\ UNCHANGED whisper
     \/ /\ whisper' \in Snapshots \ {"complete"}
        /\ UNCHANGED <<disk, sized>>
  /\ UNCHANGED <<item, pc, part, announced>>

(* docker compose up, or docker compose run model-init *)
Rerun ==
  /\ ~Running
  /\ pc' = "whisper"
  /\ item' = "model"
  /\ announced' = FALSE
  /\ NoFault
  /\ UNCHANGED <<whisper, disk, part, sized>>

Progress ==
  \/ Snapshot
  \/ LoadWhisper
  \/ Check
  \/ Get
  \/ Written
  \/ Place
  \/ Verify

Next ==
  \/ Progress
  \/ SnapshotFails
  \/ DownloadFails
  \/ Crash
  \/ Corrupt
  \/ Rerun

Spec == Init /\ [][Next]_vars

(* A run goes on until it ends, and the operator starts another one as     *)
(* long as none was successful.                                            *)
FairSpec == Spec /\ WF_vars(Progress) /\ WF_vars(pc # "done" /\ Rerun)

-----------------------------------------------------------------------------
(* Properties *)

(* The server is started on models that load: a run ends with status 0     *)
(* only when Whisper and both Kokoro files are there and load, whatever    *)
(* was on the volume before and however often earlier runs were killed.  A *)
(* Kokoro file is the whole artifact when a run that was told its length   *)
(* put it there; one that was on the volume before, or that came without a *)
(* length and was cut off, may be another one that loads.                  *)
StartsUsable ==
  [][pc' = "done" /\ pc # "done" =>
       /\ whisper = "complete"
       /\ \A a \in Artifacts : Loads(disk'[a]) /\ (sized[a] => disk'[a] = "whole")]_vars

(* While a run works, an artifact changes at once, and for the better: a   *)
(* download whose length was announced puts nothing but the whole artifact *)
(* in its place, and a whole one is not given up by a kill, a failed       *)
(* download or another run, but only by the verification, when the other   *)
(* file or the GPU does not work.                                          *)
OnlyWholeReplaces ==
  [][Running => \A a \in Artifacts : disk'[a] # disk[a] =>
       /\ announced => disk'[a] \in {"absent", "whole"}
       /\ disk[a] = "whole" => pc = "verify"]_vars

(* Once the faults stop, running it again ends in success, every time: of  *)
(* all that may be left on the volume, nothing blocks every further run    *)
(* but a damaged Whisper file, which no run fetches again or removes.      *)
EventuallyReady == []<>(pc = "done" \/ whisper = "damaged")
=============================================================================
