---------------------------- MODULE TopoJobsProofs ----------------------------
(***************************************************************************)
(* Proofs about TopoJobs, for any number of requests, tasks, reapers and   *)
(* sweeps and any sizes: its types, and, when no request or sweep outlives *)
(* the making of a map, that the account is charged for what is there,     *)
(* that a completed map keeps its outputs, that a removed job leaves       *)
(* nothing behind, and that the whole implements TopoJobLifecycle.         *)
(***************************************************************************)
EXTENDS TopoJobs, TLAPS

(* A start has flipped the row and is still on its way to an answer.       *)
Flipped(h) == start[h] \in {"launch", "persist", "failing"}

(* It has, or the task it launched is there.                               *)
Launched(h) == Flipped(h) \/ task[h] # "none"

(* The task has the job and its outputs are not yet uploaded.              *)
Making(h) == task[h] \in {"claimed", "working"}

(* A delete is past its look at the status.                                *)
Purging(d) == del[d] \in {"fresh", "abort", "purge", "row"}

(* One start at most gets past the flip; it found the job uploading, and   *)
(* launches its task afterwards.                                           *)
OneLaunch == \A h, k \in Starts : Launched(h) /\ Launched(k) => h = k
AfterFlip == \A h \in Starts : Launched(h) => status \notin {"none", "uploading"}
LaunchFirst ==
  \A h \in Starts : start[h] \in {"idle", "checked", "launch"} => task[h] = "none"
LaunchOK == OneLaunch /\ AfterFlip /\ LaunchFirst

(* Who could still disturb a job that is being made was at it when the     *)
(* task claimed it.                                                        *)
EarlyOK ==
  \A h \in Starts : Making(h) =>
    /\ Flipped(h) => h \in early
    /\ status = "processing" => \A d \in Deletes : Purging(d) => d \in early
    /\ \A s \in Sweeps : sweep[s] # "idle" => s \in early

(* So nobody is left to disturb one that is made,                          *)
AloneOK ==
  \A h \in Starts : task[h] = "finish" =>
    /\ ~Flipped(h)
    /\ status = "processing" => \A d \in Deletes : ~Purging(d)
    /\ \A s \in Sweeps : sweep[s] = "idle"

(* nor a completed one, but its owner.                                     *)
CompleteOK ==
  status = "complete" =>
    /\ \A h \in Starts : ~Flipped(h) /\ task[h] \in {"none", "tellComplete", "ended"}
    /\ \A s \in Sweeps : sweep[s] = "idle"

(* Only a completed job is charged for, and a delete that looked at the    *)
(* charge read what it still is.                                           *)
ChargeOK ==
  /\ charge # 0 => status = "complete"
  /\ ChargedForWhatIsThere
  /\ \A d \in Deletes : del[d] \in {"abort", "purge", "row"} /\ status # "gone"
                          => fresh[d] = charge

(* A task is about to tell the owner, who has heard nothing of it yet.     *)
TaskTells(h) == task[h] \in {"tellComplete", "tellFailed"}
Unheard(outcome) == told = <<>> /\ status \in {outcome, "gone"}

(* Whoever is about to tell the owner is alone with it and has the outcome *)
(* right.                                                                  *)
TellOK ==
  /\ status \notin Terminal \union {"gone"} => told = <<>>
  /\ \A h \in Starts : /\ task[h] = "tellComplete" => Unheard("complete")
                       /\ task[h] = "tellFailed" => Unheard("failed")
  /\ \A r \in Reapers : reap[r] = "tell" => Unheard("failed")
  /\ \A r \in Reapers, h \in Starts : reap[r] = "tell" => ~TaskTells(h)
  /\ \A r, q \in Reapers : reap[r] = "tell" /\ reap[q] = "tell" => r = q

(* A job that is made and still the task's has its outputs, unless its     *)
(* owner is deleting it; so has a completed one.                           *)
OutputsOK ==
  /\ \A h \in Starts : task[h] = "finish" /\ status = "processing" =>
         outputs \/ \E d \in Deletes : del[d] # "idle"
  /\ OutputsKept

(* The inductive invariant                                                 *)
JobInv ==
  /\ TypeOK
  /\ LaunchOK
  /\ EarlyOK
  /\ AloneOK
  /\ CompleteOK
  /\ ChargeOK
  /\ TellOK
  /\ OutputsOK

(* What was uploaded was uploaded by the one task, past its work, when no  *)
(* sweep was under way.                                                    *)
Wrote(h) == task[h] \in {"finish", "fail", "erase", "tellComplete", "tellFailed", "ended"}

WroteOK ==
  outputs => /\ \E h \in Starts : Wrote(h)
             /\ \A s \in Sweeps : sweep[s] = "idle"

(* A task that fails on what it uploaded finds the row its own only if     *)
(* nobody is deleting the job.                                             *)
FailOK ==
  \A h \in Starts : task[h] = "fail" /\ outputs /\ status = "processing" =>
    \A d \in Deletes : ~Purging(d)

(* Whoever has been through the objects left no input, and nothing brings  *)
(* one back; a row is only removed after that.                             *)
InputsGone ==
  /\ status = "none" => /\ \A d \in Deletes : del[d] = "idle"
                        /\ \A s \in Sweeps : sweep[s] = "idle"
  /\ \A d \in Deletes : /\ del[d] \in {"purge", "row"} => ~open
                        /\ del[d] = "row" => ~zip
  /\ \A s \in Sweeps : /\ sweep[s] \in {"purge", "row"} => ~open
                       /\ sweep[s] = "row" => ~zip
  /\ status = "gone" => ~open /\ ~zip

(* Outputs that come after that are those of a task that will erase them,  *)
(* or that died before it could.                                           *)
Owed == orphaned \/ \E h \in Starts : task[h] \in {"finish", "fail", "erase"}

OutputsGone ==
  outputs /\ (status = "gone" \/ \E d \in Deletes : del[d] = "row") => Owed

(* The invariant of what is left in S3, beside JobInv                      *)
LeftInv ==
  /\ WroteOK
  /\ FailOK
  /\ InputsGone
  /\ OutputsGone

(* The initial state has the types.                                        *)
LEMMA InitTypes == Init => TypeOK
<1> SUFFICES ASSUME Init PROVE TypeOK
  OBVIOUS
<1>1. RowOK
  BY JobsAssumption DEF Init, RowOK
<1>2. S3OK /\ GhostOK
  BY DEF Init, S3OK, GhostOK
<1>3. RequestsOK
  BY DEF Init, RequestsOK, StartPlaces, DelPlaces
<1>4. WorkersOK
  BY DEF Init, WorkersOK, TaskPlaces, ReapPlaces, SweepPlaces
<1>5. ToldOK
  BY DEF Init, ToldOK
<1> QED BY <1>1, <1>2, <1>3, <1>4, <1>5 DEF TypeOK

(* Every step keeps the types of the row and the storage counter,          *)
LEMMA RowTypes == TypeOK /\ [Next]_vars => RowOK'
<1> SUFFICES ASSUME TypeOK, [Next]_vars PROVE RowOK'
  OBVIOUS
<1> USE JobsAssumption DEF TypeOK, RowOK, Existing, InFlight, Terminal
<1>1. CASE Submit \/ DeadlinePasses \/ CeilingPasses
  BY <1>1 DEF Submit, DeadlinePasses, CeilingPasses
<1>2. CASE Dropped \/ PassDropped \/ UNCHANGED vars
  BY <1>2 DEF Dropped, PassDropped, vars, row
<1>3. ASSUME NEW j \in Joins, Joining(j) PROVE RowOK'
  BY <1>3 DEF Joining, ownUploadingJob, joinTopoUpload, row
<1>4. ASSUME NEW h \in Starts, Starting(h) PROVE RowOK'
  BY <1>4 DEF Starting, StartCheck, StartFlip, launchFargateTask, StartPersist,
              StartFail, StartKeeps
<1>5. ASSUME NEW h \in Starts, Working(h) PROVE RowOK'
  BY <1>5 DEF Working, TaskClaim, TaskFetch, TaskUpload, TaskComplete, TaskFail,
              TaskErase, TaskTell, Heartbeat, TaskDies, row
<1>6. ASSUME NEW d \in Deletes, Deleting(d) PROVE RowOK'
  BY <1>6 DEF Deleting, DeleteRead, DeleteCancel, DeleteFresh, DeleteAbort,
              DeletePurge, DeleteRow, DelKeeps, decrementStorageUsed, RequestsOK
<1>7. ASSUME NEW r \in Reapers, Reaping(r) PROVE RowOK'
  BY <1>7 DEF Reaping, ReapRead, ReapClaim, ReapTell, ReapKeeps
<1>8. ASSUME NEW s \in Sweeps, Sweeping(s) PROVE RowOK'
  BY <1>8 DEF Sweeping, SweepRead, SweepAbort, SweepPurge, SweepRow, SweepKeeps
<1> QED BY <1>1, <1>2, <1>3, <1>4, <1>5, <1>6, <1>7, <1>8 DEF Next

(* of the objects in S3,                                                   *)
LEMMA S3Types == TypeOK /\ [Next]_vars => S3OK'
<1> SUFFICES ASSUME TypeOK, [Next]_vars PROVE S3OK'
  OBVIOUS
<1> USE DEF TypeOK, S3OK, s3
<1>1. CASE Submit \/ DeadlinePasses \/ CeilingPasses
  BY Zenon, <1>1 DEF Submit, DeadlinePasses, CeilingPasses
<1>2. CASE Dropped \/ PassDropped \/ UNCHANGED vars
  BY <1>2 DEF Dropped, PassDropped, vars
<1>3. ASSUME NEW j \in Joins, Joining(j) PROVE S3OK'
  BY <1>3 DEF Joining, ownUploadingJob, joinTopoUpload
<1>4. ASSUME NEW h \in Starts, Starting(h) PROVE S3OK'
  BY <1>4 DEF Starting, StartCheck, StartFlip, launchFargateTask, StartPersist,
              StartFail, StartKeeps
<1>5. ASSUME NEW h \in Starts, Working(h) PROVE S3OK'
  BY <1>5 DEF Working, TaskClaim, TaskFetch, TaskUpload, TaskComplete, TaskFail,
              TaskErase, TaskTell, Heartbeat, TaskDies, TaskKeeps
<1>6. ASSUME NEW d \in Deletes, Deleting(d) PROVE S3OK'
  BY <1>6 DEF Deleting, DeleteRead, DeleteCancel, DeleteFresh, DeleteAbort,
              DeletePurge, DeleteRow, AbortUploads, DeletePrefixes
<1>7. ASSUME NEW r \in Reapers, Reaping(r) PROVE S3OK'
  BY <1>7 DEF Reaping, ReapRead, ReapClaim, ReapTell, ReapKeeps
<1>8. ASSUME NEW s \in Sweeps, Sweeping(s) PROVE S3OK'
  BY <1>8 DEF Sweeping, SweepRead, SweepAbort, SweepPurge, SweepRow,
              AbortUploads, DeletePrefixes
<1> QED BY <1>1, <1>2, <1>3, <1>4, <1>5, <1>6, <1>7, <1>8 DEF Next

(* of the requests,                                                        *)
LEMMA RequestTypes == TypeOK /\ [Next]_vars => RequestsOK'
<1> SUFFICES ASSUME TypeOK, [Next]_vars PROVE RequestsOK'
  OBVIOUS
<1> USE DEF TypeOK, RequestsOK, request, StartPlaces, DelPlaces
<1>1. CASE Submit \/ DeadlinePasses \/ CeilingPasses
  BY <1>1 DEF Submit, DeadlinePasses, CeilingPasses
<1>2. CASE Dropped \/ PassDropped \/ UNCHANGED vars
  BY <1>2 DEF Dropped, PassDropped, vars
<1>3. ASSUME NEW j \in Joins, Joining(j) PROVE RequestsOK'
  BY <1>3 DEF Joining, ownUploadingJob, joinTopoUpload, JoinMove
<1>4. ASSUME NEW h \in Starts, Starting(h) PROVE RequestsOK'
  BY <1>4 DEF Starting, StartCheck, StartFlip, launchFargateTask, StartPersist,
              StartFail, StartKeeps, StartMove
<1>5. ASSUME NEW h \in Starts, Working(h) PROVE RequestsOK'
  BY <1>5 DEF Working, TaskClaim, TaskFetch, TaskUpload, TaskComplete, TaskFail,
              TaskErase, TaskTell, Heartbeat, TaskDies, TaskKeeps
<1>6. ASSUME NEW d \in Deletes, Deleting(d) PROVE RequestsOK'
  BY <1>6 DEF Deleting, DeleteRead, DeleteCancel, DeleteFresh, DeleteAbort,
              DeletePurge, DeleteRow, DelKeeps, DelMove, RowOK
<1>7. ASSUME NEW r \in Reapers, Reaping(r) PROVE RequestsOK'
  BY <1>7 DEF Reaping, ReapRead, ReapClaim, ReapTell, ReapKeeps
<1>8. ASSUME NEW s \in Sweeps, Sweeping(s) PROVE RequestsOK'
  BY <1>8 DEF Sweeping, SweepRead, SweepAbort, SweepPurge, SweepRow, SweepKeeps
<1> QED BY <1>1, <1>2, <1>3, <1>4, <1>5, <1>6, <1>7, <1>8 DEF Next

(* of the tasks, reapers and sweeps,                                       *)
LEMMA WorkerTypes == TypeOK /\ [Next]_vars => WorkersOK'
<1> SUFFICES ASSUME TypeOK, [Next]_vars PROVE WorkersOK'
  OBVIOUS
<1> USE DEF TypeOK, WorkersOK, reaper, TaskPlaces, ReapPlaces, SweepPlaces
<1>1. CASE Submit \/ DeadlinePasses \/ CeilingPasses
  BY <1>1 DEF Submit, DeadlinePasses, CeilingPasses
<1>2. CASE Dropped \/ PassDropped \/ UNCHANGED vars
  BY <1>2 DEF Dropped, PassDropped, vars
<1>3. ASSUME NEW j \in Joins, Joining(j) PROVE WorkersOK'
  BY <1>3 DEF Joining, ownUploadingJob, joinTopoUpload
<1>4. ASSUME NEW h \in Starts, Starting(h) PROVE WorkersOK'
  BY <1>4 DEF Starting, StartCheck, StartFlip, launchFargateTask, StartPersist,
              StartFail, StartKeeps
<1>5. ASSUME NEW h \in Starts, Working(h) PROVE WorkersOK'
  BY <1>5 DEF Working, TaskClaim, TaskFetch, TaskUpload, TaskComplete, TaskFail,
              TaskErase, TaskTell, Heartbeat, TaskDies, TaskKeeps, TaskMove, Guarded
<1>6. ASSUME NEW d \in Deletes, Deleting(d) PROVE WorkersOK'
  BY <1>6 DEF Deleting, DeleteRead, DeleteCancel, DeleteFresh, DeleteAbort,
              DeletePurge, DeleteRow, DelKeeps
<1>7. ASSUME NEW r \in Reapers, Reaping(r) PROVE WorkersOK'
  BY <1>7 DEF Reaping, ReapRead, ReapClaim, ReapTell, ReapKeeps, ReapMove, InFlight
<1>8. ASSUME NEW s \in Sweeps, Sweeping(s) PROVE WorkersOK'
  BY <1>8 DEF Sweeping, SweepRead, SweepAbort, SweepPurge, SweepRow, SweepKeeps,
              SweepMove
<1> QED BY <1>1, <1>2, <1>3, <1>4, <1>5, <1>6, <1>7, <1>8 DEF Next

(* of the notifications                                                    *)
LEMMA ToldTypes == TypeOK /\ [Next]_vars => ToldOK'
<1> SUFFICES ASSUME TypeOK, [Next]_vars PROVE ToldOK'
  OBVIOUS
<1> USE DEF TypeOK, ToldOK, Terminal
<1>1. CASE Submit \/ DeadlinePasses \/ CeilingPasses
  BY <1>1 DEF Submit, DeadlinePasses, CeilingPasses
<1>2. CASE Dropped \/ PassDropped \/ UNCHANGED vars
  BY <1>2 DEF Dropped, PassDropped, vars
<1>3. ASSUME NEW j \in Joins, Joining(j) PROVE ToldOK'
  BY <1>3 DEF Joining, ownUploadingJob, joinTopoUpload
<1>4. ASSUME NEW h \in Starts, Starting(h) PROVE ToldOK'
  BY <1>4 DEF Starting, StartCheck, StartFlip, launchFargateTask, StartPersist,
              StartFail, StartKeeps
<1>5. ASSUME NEW h \in Starts, Working(h) PROVE ToldOK'
  BY <1>5 DEF Working, TaskClaim, TaskFetch, TaskUpload, TaskComplete, TaskFail,
              TaskErase, TaskTell, Heartbeat, TaskDies
<1>6. ASSUME NEW d \in Deletes, Deleting(d) PROVE ToldOK'
  BY <1>6 DEF Deleting, DeleteRead, DeleteCancel, DeleteFresh, DeleteAbort,
              DeletePurge, DeleteRow, DelKeeps
<1>7. ASSUME NEW r \in Reapers, Reaping(r) PROVE ToldOK'
  <2>1. told' = told \/ told' = Append(told, "failed")
    BY Zenon, <1>7 DEF Reaping, ReapRead, ReapClaim, ReapTell
  <2> QED BY <2>1
<1>8. ASSUME NEW s \in Sweeps, Sweeping(s) PROVE ToldOK'
  BY <1>8 DEF Sweeping, SweepRead, SweepAbort, SweepPurge, SweepRow, SweepKeeps
<1> QED BY <1>1, <1>2, <1>3, <1>4, <1>5, <1>6, <1>7, <1>8 DEF Next

(* and of the ghosts.                                                      *)
LEMMA GhostTypes == TypeOK /\ [Next]_vars => GhostOK'
<1> SUFFICES ASSUME TypeOK, [Next]_vars PROVE GhostOK'
  OBVIOUS
<1> USE DEF TypeOK, GhostOK, ghost
<1>1. CASE Submit \/ DeadlinePasses \/ CeilingPasses
  BY <1>1 DEF Submit, DeadlinePasses, CeilingPasses
<1>2. CASE Dropped \/ PassDropped \/ UNCHANGED vars
  BY <1>2 DEF Dropped, PassDropped, vars
<1>3. ASSUME NEW j \in Joins, Joining(j) PROVE GhostOK'
  BY <1>3 DEF Joining, ownUploadingJob, joinTopoUpload
<1>4. ASSUME NEW h \in Starts, Starting(h) PROVE GhostOK'
  BY <1>4 DEF Starting, StartCheck, StartFlip, launchFargateTask, StartPersist,
              StartFail, StartKeeps
<1>5. ASSUME NEW h \in Starts, Working(h) PROVE GhostOK'
  <2>1. CASE TaskDies(h)
    BY Zenon, <2>1 DEF TaskDies
  <2>2. CASE ~TaskDies(h)
    BY <1>5, <2>2 DEF Working, TaskClaim, TaskFetch, TaskUpload, TaskComplete,
       TaskFail, TaskErase, TaskTell, Heartbeat, Underway, Requests
  <2> QED BY <2>1, <2>2
<1>6. ASSUME NEW d \in Deletes, Deleting(d) PROVE GhostOK'
  BY <1>6 DEF Deleting, DeleteRead, DeleteCancel, DeleteFresh, DeleteAbort,
              DeletePurge, DeleteRow, DelKeeps
<1>7. ASSUME NEW r \in Reapers, Reaping(r) PROVE GhostOK'
  BY <1>7 DEF Reaping, ReapRead, ReapClaim, ReapTell, ReapKeeps
<1>8. ASSUME NEW s \in Sweeps, Sweeping(s) PROVE GhostOK'
  BY <1>8 DEF Sweeping, SweepRead, SweepAbort, SweepPurge, SweepRow, SweepKeeps
<1> QED BY <1>1, <1>2, <1>3, <1>4, <1>5, <1>6, <1>7, <1>8 DEF Next

(* So every step keeps the types.                                          *)
LEMMA JobTypesStep == TypeOK /\ [Next]_vars => TypeOK'
BY RowTypes, S3Types, RequestTypes, WorkerTypes, ToldTypes, GhostTypes DEF TypeOK

(* Every variable keeps its type, in every interleaving of the requests of *)
(* topoJobs.ts, the task of worker.py, the reaper and the sweep.           *)
THEOREM JobTypes == Spec => []TypeOK
BY InitTypes, JobTypesStep, PTL DEF Spec

(* The guarded flip lets one start through, so one task is launched.       *)
LEMMA LaunchStep == TypeOK /\ LaunchOK /\ [Next]_vars => LaunchOK'
<1> SUFFICES ASSUME TypeOK, LaunchOK, [Next]_vars PROVE LaunchOK'
  OBVIOUS
<1> USE DEF TypeOK, RequestsOK, WorkersOK, LaunchOK, OneLaunch, AfterFlip, LaunchFirst,
            Launched, Flipped, Existing, InFlight, Terminal
<1>1. CASE Submit \/ DeadlinePasses \/ CeilingPasses
  BY <1>1 DEF Submit, DeadlinePasses, CeilingPasses, request
<1>2. CASE Dropped \/ PassDropped \/ UNCHANGED vars
  BY <1>2 DEF Dropped, PassDropped, vars, row, request
<1>3. ASSUME NEW j \in Joins, Joining(j) PROVE LaunchOK'
  BY <1>3 DEF Joining, ownUploadingJob, joinTopoUpload, row
<1>4. ASSUME NEW h \in Starts, Starting(h) PROVE LaunchOK'
  <2> USE DEF StartMove, StartKeeps
  <2>1. CASE StartCheck(h)
    BY <2>1 DEF StartCheck
  <2>2. CASE StartFlip(h)
    BY <2>2 DEF StartFlip
  <2>3. CASE launchFargateTask(h)
    BY <2>3 DEF launchFargateTask
  <2>4. CASE StartPersist(h)
    BY <2>4 DEF StartPersist
  <2>5. CASE StartFail(h)
    BY <2>5 DEF StartFail
  <2> QED BY <1>4, <2>1, <2>2, <2>3, <2>4, <2>5 DEF Starting
<1>5. ASSUME NEW h \in Starts, Working(h) PROVE LaunchOK'
  <2>1. start' = start
    BY <1>5 DEF Working, TaskClaim, TaskFetch, TaskUpload, TaskComplete, TaskFail,
       TaskErase, TaskTell, Heartbeat, TaskDies, TaskKeeps, request
  <2>2. \/ task' = task
        \/ /\ task[h] # "none"
           /\ \E p \in TaskPlaces \ {"none"} : task' = [task EXCEPT ![h] = p]
    BY <1>5 DEF Working, TaskClaim, TaskFetch, TaskUpload, TaskComplete, TaskFail,
       TaskErase, TaskTell, Heartbeat, TaskDies, TaskMove, Guarded, TaskPlaces
  <2>3. status' = status \/ status' \in {"processing", "complete", "failed"}
    BY <1>5 DEF Working, TaskClaim, TaskFetch, TaskUpload, TaskComplete, TaskFail,
       TaskErase, TaskTell, Heartbeat, TaskDies, row
  <2> QED BY <2>1, <2>2, <2>3
<1>6. ASSUME NEW d \in Deletes, Deleting(d) PROVE LaunchOK'
  BY <1>6 DEF Deleting, DeleteRead, DeleteCancel, DeleteFresh, DeleteAbort,
              DeletePurge, DeleteRow, DelKeeps
<1>7. ASSUME NEW r \in Reapers, Reaping(r) PROVE LaunchOK'
  BY <1>7 DEF Reaping, ReapRead, ReapClaim, ReapTell, ReapKeeps, request
<1>8. ASSUME NEW s \in Sweeps, Sweeping(s) PROVE LaunchOK'
  BY <1>8 DEF Sweeping, SweepRead, SweepAbort, SweepPurge, SweepRow, SweepKeeps, request
<1> QED BY <1>1, <1>2, <1>3, <1>4, <1>5, <1>6, <1>7, <1>8 DEF Next

(* A request begun after the claim can no longer reach a step that         *)
(* disturbs the task: a start finds the row flipped, a delete cancels it   *)
(* first, and a sweep finds it no longer uploading.                        *)
LEMMA EarlyStep == TypeOK /\ LaunchOK /\ EarlyOK /\ [Next]_vars => EarlyOK'
<1> SUFFICES ASSUME TypeOK, LaunchOK, EarlyOK, [Next]_vars PROVE EarlyOK'
  OBVIOUS
<1> USE DEF TypeOK, RequestsOK, WorkersOK, EarlyOK, Making, Flipped, Purging
<1>1. CASE Submit \/ DeadlinePasses \/ CeilingPasses
  BY <1>1 DEF Submit, DeadlinePasses, CeilingPasses, request, reaper, ghost
<1>2. CASE Dropped \/ PassDropped \/ UNCHANGED vars
  BY <1>2 DEF Dropped, PassDropped, vars, row, request, reaper, ghost
<1>3. ASSUME NEW j \in Joins, Joining(j) PROVE EarlyOK'
  BY <1>3 DEF Joining, ownUploadingJob, joinTopoUpload, row, reaper, ghost
<1>4. ASSUME NEW h \in Starts, Starting(h) PROVE EarlyOK'
  <2> USE DEF StartMove, StartKeeps, reaper, ghost
  <2>1. CASE StartCheck(h)
    BY <2>1 DEF StartCheck
  <2>2. CASE StartFlip(h)
    BY <2>2 DEF StartFlip, LaunchOK, LaunchFirst
  <2>3. CASE launchFargateTask(h)
    BY <2>3 DEF launchFargateTask
  <2>4. CASE StartPersist(h)
    BY <2>4 DEF StartPersist
  <2>5. CASE StartFail(h)
    BY <2>5 DEF StartFail
  <2> QED BY <1>4, <2>1, <2>2, <2>3, <2>4, <2>5 DEF Starting
<1>5. ASSUME NEW h \in Starts, Working(h) PROVE EarlyOK'
  <2> USE DEF TaskKeeps, request, reaper, ghost, row
  <2>1. CASE TaskClaim(h)
    <3>1. CASE status = "pending"
      BY <2>1, <3>1 DEF TaskClaim, Guarded, TaskMove, Underway, LaunchOK, OneLaunch,
         Launched
    <3>2. CASE status # "pending"
      BY <2>1, <3>2 DEF TaskClaim, Guarded, TaskMove
    <3> QED BY <3>1, <3>2
  <2>2. CASE TaskUpload(h)
    BY <2>2 DEF TaskUpload, TaskMove, LaunchOK, OneLaunch, Launched
  <2>3. CASE TaskFetch(h) \/ TaskErase(h) \/ TaskTell(h) \/ TaskDies(h)
    BY <2>3 DEF TaskFetch, TaskErase, TaskTell, TaskDies, TaskMove
  <2>4. CASE TaskComplete(h) \/ TaskFail(h)
    BY <2>4 DEF TaskComplete, TaskFail, Guarded, TaskMove
  <2>5. CASE Heartbeat(h)
    BY <2>5 DEF Heartbeat
  <2> QED BY <1>5, <2>1, <2>2, <2>3, <2>4, <2>5 DEF Working
<1>6. ASSUME NEW d \in Deletes, Deleting(d) PROVE EarlyOK'
  <2> USE DEF DelKeeps, DelMove, reaper, ghost, InFlight
  <2>1. CASE DeleteRead(d) \/ DeleteCancel(d) \/ DeleteFresh(d)
    BY <2>1 DEF DeleteRead, DeleteCancel, DeleteFresh
  <2>2. CASE DeleteAbort(d) \/ DeletePurge(d) \/ DeleteRow(d)
    BY <2>2 DEF DeleteAbort, DeletePurge, DeleteRow
  <2> QED BY <1>6, <2>1, <2>2 DEF Deleting
<1>7. ASSUME NEW r \in Reapers, Reaping(r) PROVE EarlyOK'
  BY <1>7 DEF Reaping, ReapRead, ReapClaim, ReapTell, ReapKeeps, request, ghost
<1>8. ASSUME NEW s \in Sweeps, Sweeping(s) PROVE EarlyOK'
  <2> USE DEF SweepKeeps, SweepMove, request, ghost
  <2>1. CASE SweepRead(s)
    BY <2>1 DEF SweepRead, LaunchOK, AfterFlip, Launched
  <2>2. CASE SweepAbort(s) \/ SweepPurge(s) \/ SweepRow(s)
    BY <2>2 DEF SweepAbort, SweepPurge, SweepRow
  <2> QED BY <1>8, <2>1, <2>2 DEF Sweeping
<1> QED BY <1>1, <1>2, <1>3, <1>4, <1>5, <1>6, <1>7, <1>8 DEF Next

(* The requests and sweeps that were under way at the claim are over when  *)
(* the map is made.                                                        *)
LEMMA AloneStep ==
  ASSUME ~LongRequests
  PROVE  TypeOK /\ LaunchOK /\ EarlyOK /\ AloneOK /\ [Next]_vars => AloneOK'
<1> SUFFICES ASSUME TypeOK, LaunchOK, EarlyOK, AloneOK, [Next]_vars PROVE AloneOK'
  OBVIOUS
<1> USE DEF TypeOK, RequestsOK, WorkersOK, AloneOK, Flipped, Purging
<1>1. CASE Submit \/ DeadlinePasses \/ CeilingPasses
  BY <1>1 DEF Submit, DeadlinePasses, CeilingPasses, request, reaper
<1>2. CASE Dropped \/ PassDropped \/ UNCHANGED vars
  BY <1>2 DEF Dropped, PassDropped, vars, row, request, reaper
<1>3. ASSUME NEW j \in Joins, Joining(j) PROVE AloneOK'
  BY <1>3 DEF Joining, ownUploadingJob, joinTopoUpload, row, reaper
<1>4. ASSUME NEW h \in Starts, Starting(h) PROVE AloneOK'
  <2> USE DEF StartMove, StartKeeps, reaper
  <2>1. CASE StartCheck(h)
    BY <2>1 DEF StartCheck
  <2>2. CASE StartFlip(h)
    BY <2>2 DEF StartFlip, LaunchOK, LaunchFirst
  <2>3. CASE launchFargateTask(h)
    BY <2>3 DEF launchFargateTask
  <2>4. CASE StartPersist(h)
    BY <2>4 DEF StartPersist
  <2>5. CASE StartFail(h)
    BY <2>5 DEF StartFail
  <2> QED BY <1>4, <2>1, <2>2, <2>3, <2>4, <2>5 DEF Starting
<1>5. ASSUME NEW h \in Starts, Working(h) PROVE AloneOK'
  <2> USE DEF TaskKeeps, request, reaper, row
  <2>1. CASE TaskClaim(h)
    BY <2>1 DEF TaskClaim, Guarded, TaskMove, LaunchOK, OneLaunch, Launched
  <2>2. CASE TaskUpload(h)
    <3>1. CASE task' = [task EXCEPT ![h] = "finish"]
      <4>1. Making(h) /\ early \intersect Underway = {}
        BY <2>2, <3>1 DEF TaskUpload, TaskMove, Made, Making
      <4>2. ~Flipped(h)
        BY <4>1 DEF EarlyOK, Underway
      <4>3. status = "processing" => \A d \in Deletes : ~Purging(d)
        BY <4>1 DEF EarlyOK, Underway
      <4>4. \A s \in Sweeps : sweep[s] = "idle"
        BY <4>1 DEF EarlyOK, Underway
      <4> QED BY <2>2, <3>1, <4>2, <4>3, <4>4 DEF TaskUpload
    <3>2. CASE task' = [task EXCEPT ![h] = "fail"]
      BY <2>2, <3>2 DEF TaskUpload
    <3> QED BY <2>2, <3>1, <3>2 DEF TaskUpload, TaskMove
  <2>3. CASE TaskFetch(h) \/ TaskErase(h) \/ TaskTell(h) \/ TaskDies(h)
    BY <2>3 DEF TaskFetch, TaskErase, TaskTell, TaskDies, TaskMove
  <2>4. CASE TaskComplete(h) \/ TaskFail(h)
    BY <2>4 DEF TaskComplete, TaskFail, Guarded, TaskMove
  <2>5. CASE Heartbeat(h)
    BY <2>5 DEF Heartbeat
  <2> QED BY <1>5, <2>1, <2>2, <2>3, <2>4, <2>5 DEF Working
<1>6. ASSUME NEW d \in Deletes, Deleting(d) PROVE AloneOK'
  <2> USE DEF DelKeeps, DelMove, reaper, InFlight
  <2>1. CASE DeleteRead(d) \/ DeleteCancel(d) \/ DeleteFresh(d)
    BY <2>1 DEF DeleteRead, DeleteCancel, DeleteFresh
  <2>2. CASE DeleteAbort(d) \/ DeletePurge(d) \/ DeleteRow(d)
    BY <2>2 DEF DeleteAbort, DeletePurge, DeleteRow
  <2> QED BY <1>6, <2>1, <2>2 DEF Deleting
<1>7. ASSUME NEW r \in Reapers, Reaping(r) PROVE AloneOK'
  BY <1>7 DEF Reaping, ReapRead, ReapClaim, ReapTell, ReapKeeps, request
<1>8. ASSUME NEW s \in Sweeps, Sweeping(s) PROVE AloneOK'
  <2> USE DEF SweepKeeps, SweepMove, request
  <2>1. CASE SweepRead(s)
    BY <2>1 DEF SweepRead, LaunchOK, AfterFlip, Launched
  <2>2. CASE SweepAbort(s) \/ SweepPurge(s) \/ SweepRow(s)
    BY <2>2 DEF SweepAbort, SweepPurge, SweepRow
  <2> QED BY <1>8, <2>1, <2>2 DEF Sweeping
<1> QED BY <1>1, <1>2, <1>3, <1>4, <1>5, <1>6, <1>7, <1>8 DEF Next

(* Nothing is under way on a job that completes but deletes and the task.  *)
LEMMA CompleteStep ==
  TypeOK /\ LaunchOK /\ AloneOK /\ CompleteOK /\ [Next]_vars => CompleteOK'
<1> SUFFICES ASSUME TypeOK, LaunchOK, AloneOK, CompleteOK, [Next]_vars PROVE CompleteOK'
  OBVIOUS
<1> USE DEF TypeOK, RequestsOK, WorkersOK, CompleteOK, Flipped
<1>1. CASE Submit \/ DeadlinePasses \/ CeilingPasses
  BY <1>1 DEF Submit, DeadlinePasses, CeilingPasses, request, reaper
<1>2. CASE Dropped \/ PassDropped \/ UNCHANGED vars
  BY <1>2 DEF Dropped, PassDropped, vars, row, request, reaper
<1>3. ASSUME NEW j \in Joins, Joining(j) PROVE CompleteOK'
  BY <1>3 DEF Joining, ownUploadingJob, joinTopoUpload, row, reaper
<1>4. ASSUME NEW h \in Starts, Starting(h) PROVE CompleteOK'
  <2> USE DEF StartMove, StartKeeps, reaper
  <2>1. CASE StartCheck(h)
    BY <2>1 DEF StartCheck
  <2>2. CASE StartFlip(h)
    BY <2>2 DEF StartFlip
  <2>3. CASE launchFargateTask(h)
    BY <2>3 DEF launchFargateTask
  <2>4. CASE StartPersist(h)
    BY <2>4 DEF StartPersist
  <2>5. CASE StartFail(h)
    BY <2>5 DEF StartFail
  <2> QED BY <1>4, <2>1, <2>2, <2>3, <2>4, <2>5 DEF Starting
<1>5. ASSUME NEW h \in Starts, Working(h) PROVE CompleteOK'
  <2> USE DEF TaskKeeps, request, reaper, row
  <2>1. CASE TaskComplete(h)
    <3>1. CASE status = "processing"
      <4>1. \A k \in Starts : ~Flipped(k) /\ (k # h => task[k] = "none")
        BY <2>1, <3>1 DEF TaskComplete, Guarded, TaskMove, AloneOK, LaunchOK, OneLaunch,
           Launched
      <4> QED BY <2>1, <3>1, <4>1 DEF TaskComplete, Guarded, TaskMove, AloneOK
    <3>2. CASE status # "processing"
      BY <2>1, <3>2 DEF TaskComplete, Guarded, TaskMove
    <3> QED BY <3>1, <3>2
  <2>2. CASE TaskClaim(h) \/ TaskFail(h)
    BY <2>2 DEF TaskClaim, TaskFail, Guarded, TaskMove
  <2>3. CASE TaskFetch(h) \/ TaskUpload(h) \/ TaskErase(h) \/ TaskTell(h) \/ TaskDies(h)
    BY <2>3 DEF TaskFetch, TaskUpload, TaskErase, TaskTell, TaskDies, TaskMove
  <2>4. CASE Heartbeat(h)
    BY <2>4 DEF Heartbeat
  <2> QED BY <1>5, <2>1, <2>2, <2>3, <2>4 DEF Working
<1>6. ASSUME NEW d \in Deletes, Deleting(d) PROVE CompleteOK'
  BY <1>6 DEF Deleting, DeleteRead, DeleteCancel, DeleteFresh, DeleteAbort,
              DeletePurge, DeleteRow, DelKeeps, reaper
<1>7. ASSUME NEW r \in Reapers, Reaping(r) PROVE CompleteOK'
  BY <1>7 DEF Reaping, ReapRead, ReapClaim, ReapTell, ReapKeeps, request
<1>8. ASSUME NEW s \in Sweeps, Sweeping(s) PROVE CompleteOK'
  BY <1>8 DEF Sweeping, SweepRead, SweepAbort, SweepPurge, SweepRow, SweepKeeps,
              SweepMove, request
<1> QED BY <1>1, <1>2, <1>3, <1>4, <1>5, <1>6, <1>7, <1>8 DEF Next

(* Every step keeps the charge, the counter and what deletes read of it in *)
(* agreement.                                                              *)
LEMMA ChargeStep ==
  TypeOK /\ AloneOK /\ CompleteOK /\ ChargeOK /\ [Next]_vars => ChargeOK'
<1> SUFFICES ASSUME TypeOK, AloneOK, CompleteOK, ChargeOK, [Next]_vars PROVE ChargeOK'
  OBVIOUS
<1> USE JobsAssumption DEF TypeOK, RequestsOK, RowOK, ChargeOK, ChargedForWhatIsThere,
            Existing, InFlight, Terminal
<1>1. CASE Submit \/ DeadlinePasses \/ CeilingPasses
  BY <1>1 DEF Submit, DeadlinePasses, CeilingPasses, request
<1>2. CASE Dropped \/ PassDropped \/ UNCHANGED vars
  BY <1>2 DEF Dropped, PassDropped, vars, row, request
<1>3. ASSUME NEW j \in Joins, Joining(j) PROVE ChargeOK'
  BY <1>3 DEF Joining, ownUploadingJob, joinTopoUpload, row
<1>4. ASSUME NEW h \in Starts, Starting(h) PROVE ChargeOK'
  BY <1>4 DEF Starting, StartCheck, StartFlip, launchFargateTask, StartPersist,
              StartFail, StartMove, StartKeeps, CompleteOK, Flipped
<1>5. ASSUME NEW h \in Starts, Working(h) PROVE ChargeOK'
  <2> USE DEF TaskKeeps, request, row
  <2>1. CASE TaskComplete(h)
    <3>1. CASE status = "processing"
      <4>1. \A d \in Deletes : del[d] \notin {"abort", "purge", "row"}
        BY <2>1, <3>1 DEF TaskComplete, Guarded, TaskMove, AloneOK, Purging
      <4> QED BY <2>1, <3>1, <4>1 DEF TaskComplete
    <3>2. CASE status # "processing"
      BY <2>1, <3>2 DEF TaskComplete
    <3> QED BY <3>1, <3>2
  <2>2. CASE TaskClaim(h) \/ TaskFail(h)
    BY <2>2 DEF TaskClaim, TaskFail
  <2>3. CASE \/ TaskFetch(h) \/ TaskUpload(h) \/ TaskErase(h) \/ TaskTell(h)
             \/ Heartbeat(h) \/ TaskDies(h)
    BY <2>3 DEF TaskFetch, TaskUpload, TaskErase, TaskTell, Heartbeat, TaskDies
  <2> QED BY <1>5, <2>1, <2>2, <2>3 DEF Working
<1>6. ASSUME NEW d \in Deletes, Deleting(d) PROVE ChargeOK'
  <2> USE DEF DelMove
  <2>1. CASE DeleteRead(d) \/ DeleteCancel(d)
    BY <2>1 DEF DeleteRead, DeleteCancel
  <2>2. CASE DeleteFresh(d)
    BY <2>2 DEF DeleteFresh
  <2>3. CASE DeleteAbort(d) \/ DeletePurge(d)
    BY <2>3 DEF DeleteAbort, DeletePurge
  <2>4. CASE DeleteRow(d)
    BY <2>4 DEF DeleteRow, decrementStorageUsed
  <2> QED BY <1>6, <2>1, <2>2, <2>3, <2>4 DEF Deleting
<1>7. ASSUME NEW r \in Reapers, Reaping(r) PROVE ChargeOK'
  BY <1>7 DEF Reaping, ReapRead, ReapClaim, ReapTell, ReapKeeps, request
<1>8. ASSUME NEW s \in Sweeps, Sweeping(s) PROVE ChargeOK'
  BY <1>8 DEF Sweeping, SweepRead, SweepAbort, SweepPurge, SweepRow, SweepKeeps, request
<1> QED BY <1>1, <1>2, <1>3, <1>4, <1>5, <1>6, <1>7, <1>8 DEF Next

(* Every step keeps whoever is to tell the owner alone with it.            *)
LEMMA TellStep ==
  TypeOK /\ LaunchOK /\ CompleteOK /\ TellOK /\ [Next]_vars => TellOK'
<1> SUFFICES ASSUME TypeOK, LaunchOK, CompleteOK, TellOK, [Next]_vars PROVE TellOK'
  OBVIOUS
<1> USE DEF TypeOK, WorkersOK, RowOK, TellOK, TaskTells, Unheard,
            Existing, InFlight, Terminal
<1>1. CASE Submit \/ DeadlinePasses \/ CeilingPasses
  BY <1>1 DEF Submit, DeadlinePasses, CeilingPasses, reaper
<1>2. CASE Dropped \/ PassDropped \/ UNCHANGED vars
  BY <1>2 DEF Dropped, PassDropped, vars, row, reaper
<1>3. ASSUME NEW j \in Joins, Joining(j) PROVE TellOK'
  BY <1>3 DEF Joining, ownUploadingJob, joinTopoUpload, row, reaper
<1>4. ASSUME NEW h \in Starts, Starting(h) PROVE TellOK'
  <2> USE DEF StartMove, StartKeeps, reaper
  <2>1. CASE StartCheck(h) \/ StartFlip(h) \/ StartPersist(h)
    BY <2>1 DEF StartCheck, StartFlip, StartPersist
  <2>2. CASE launchFargateTask(h)
    BY <2>2 DEF launchFargateTask
  <2>3. CASE StartFail(h)
    <3>1. status # "complete" /\ status # "uploading" /\ status # "none"
      BY <2>3 DEF StartFail, LaunchOK, AfterFlip, Launched, Flipped, CompleteOK
    <3> QED BY <2>3, <3>1 DEF StartFail
  <2> QED BY <1>4, <2>1, <2>2, <2>3 DEF Starting
<1>5. ASSUME NEW h \in Starts, Working(h) PROVE TellOK'
  <2> USE DEF TaskKeeps, reaper, row
  <2>1. CASE TaskComplete(h)
    BY <2>1 DEF TaskComplete, Guarded, TaskMove
  <2>2. CASE TaskClaim(h)
    BY <2>2 DEF TaskClaim, Guarded, TaskMove
  <2>3. CASE TaskFail(h)
    BY <2>3 DEF TaskFail, Guarded, TaskMove
  <2>4. CASE TaskTell(h)
    BY <2>4 DEF TaskTell, TaskMove, LaunchOK, OneLaunch, Launched
  <2>5. CASE TaskFetch(h) \/ TaskUpload(h) \/ TaskErase(h) \/ TaskDies(h)
    BY <2>5 DEF TaskFetch, TaskUpload, TaskErase, TaskDies, TaskMove
  <2>6. CASE Heartbeat(h)
    BY <2>6 DEF Heartbeat
  <2> QED BY <1>5, <2>1, <2>2, <2>3, <2>4, <2>5, <2>6 DEF Working
<1>6. ASSUME NEW d \in Deletes, Deleting(d) PROVE TellOK'
  BY <1>6 DEF Deleting, DeleteRead, DeleteCancel, DeleteFresh, DeleteAbort,
              DeletePurge, DeleteRow, DelKeeps, reaper
<1>7. ASSUME NEW r \in Reapers, Reaping(r) PROVE TellOK'
  <2> USE DEF ReapKeeps, ReapMove
  <2>1. CASE ReapRead(r)
    BY <2>1 DEF ReapRead
  <2>2. CASE ReapClaim(r)
    BY <2>2 DEF ReapClaim
  <2>3. CASE ReapTell(r)
    BY <2>3 DEF ReapTell
  <2> QED BY <1>7, <2>1, <2>2, <2>3 DEF Reaping
<1>8. ASSUME NEW s \in Sweeps, Sweeping(s) PROVE TellOK'
  BY <1>8 DEF Sweeping, SweepRead, SweepAbort, SweepPurge, SweepRow, SweepKeeps
<1> QED BY <1>1, <1>2, <1>3, <1>4, <1>5, <1>6, <1>7, <1>8 DEF Next

(* No step but a delete takes the outputs of a job that is made or         *)
(* complete.                                                               *)
LEMMA OutputsStep ==
  TypeOK /\ LaunchOK /\ AloneOK /\ CompleteOK /\ OutputsOK /\ [Next]_vars => OutputsOK'
<1> SUFFICES ASSUME TypeOK, LaunchOK, AloneOK, CompleteOK, OutputsOK, [Next]_vars
             PROVE  OutputsOK'
  OBVIOUS
<1> USE DEF TypeOK, WorkersOK, RequestsOK, OutputsOK, OutputsKept
<1>1. CASE Submit \/ DeadlinePasses \/ CeilingPasses
  BY <1>1 DEF Submit, DeadlinePasses, CeilingPasses, request, s3
<1>2. CASE Dropped \/ PassDropped \/ UNCHANGED vars
  BY <1>2 DEF Dropped, PassDropped, vars, row, request, s3
<1>3. ASSUME NEW j \in Joins, Joining(j) PROVE OutputsOK'
  BY <1>3 DEF Joining, ownUploadingJob, joinTopoUpload, row, s3
<1>4. ASSUME NEW h \in Starts, Starting(h) PROVE OutputsOK'
  <2> USE DEF StartMove, StartKeeps, s3
  <2>1. CASE StartCheck(h) \/ StartFlip(h) \/ StartPersist(h) \/ StartFail(h)
    BY <2>1 DEF StartCheck, StartFlip, StartPersist, StartFail
  <2>2. CASE launchFargateTask(h)
    BY <2>2 DEF launchFargateTask
  <2> QED BY <1>4, <2>1, <2>2 DEF Starting
<1>5. ASSUME NEW h \in Starts, Working(h) PROVE OutputsOK'
  <2> USE DEF TaskKeeps, request, row
  <2>1. CASE TaskComplete(h)
    BY <2>1 DEF TaskComplete, Guarded, TaskMove
  <2>2. CASE TaskFail(h)
    BY <2>2 DEF TaskFail, Guarded, TaskMove
  <2>3. CASE TaskClaim(h)
    BY <2>3 DEF TaskClaim, Guarded, TaskMove, LaunchOK, OneLaunch, Launched
  <2>4. CASE TaskUpload(h)
    BY <2>4 DEF TaskUpload, TaskMove
  <2>5. CASE TaskErase(h)
    BY <2>5 DEF TaskErase, TaskMove, LaunchOK, OneLaunch, Launched, CompleteOK
  <2>6. CASE TaskFetch(h) \/ TaskTell(h) \/ TaskDies(h)
    BY <2>6 DEF TaskFetch, TaskTell, TaskDies, TaskMove
  <2>7. CASE Heartbeat(h)
    BY <2>7 DEF Heartbeat
  <2> QED BY <1>5, <2>1, <2>2, <2>3, <2>4, <2>5, <2>6, <2>7 DEF Working
<1>6. ASSUME NEW d \in Deletes, Deleting(d) PROVE OutputsOK'
  <2>1. \E e \in Deletes : del'[e] # "idle"
    BY <1>6 DEF Deleting, DeleteRead, DeleteCancel, DeleteFresh, DeleteAbort,
       DeletePurge, DeleteRow, DelMove
  <2> QED BY <2>1
<1>7. ASSUME NEW r \in Reapers, Reaping(r) PROVE OutputsOK'
  BY <1>7 DEF Reaping, ReapRead, ReapClaim, ReapTell, ReapKeeps, request, InFlight
<1>8. ASSUME NEW s \in Sweeps, Sweeping(s) PROVE OutputsOK'
  <2> USE DEF SweepKeeps, SweepMove, request
  <2>1. CASE SweepRead(s) \/ SweepAbort(s) \/ SweepRow(s)
    BY <2>1 DEF SweepRead, SweepAbort, SweepRow, AbortUploads, s3
  <2>2. CASE SweepPurge(s)
    BY <2>2 DEF SweepPurge, AloneOK, CompleteOK
  <2> QED BY <1>8, <2>1, <2>2 DEF Sweeping
<1> QED BY <1>1, <1>2, <1>3, <1>4, <1>5, <1>6, <1>7, <1>8 DEF Next

(* The initial state satisfies the invariant,                              *)
LEMMA InitJob == Init => JobInv
<1> SUFFICES ASSUME Init PROVE JobInv
  OBVIOUS
<1>1. TypeOK
  BY InitTypes
<1>2. LaunchOK /\ EarlyOK /\ AloneOK /\ CompleteOK
  BY DEF Init, LaunchOK, OneLaunch, AfterFlip, LaunchFirst, Launched, Flipped, EarlyOK,
         Making, AloneOK, CompleteOK
<1>3. ChargeOK
  BY JobsAssumption DEF Init, ChargeOK, ChargedForWhatIsThere
<1>4. TellOK /\ OutputsOK
  BY DEF Init, TellOK, OutputsOK, OutputsKept
<1> QED BY <1>1, <1>2, <1>3, <1>4 DEF JobInv

(* every step keeps it,                                                    *)
LEMMA JobStep == ASSUME ~LongRequests PROVE JobInv /\ [Next]_vars => JobInv'
BY JobTypesStep, LaunchStep, EarlyStep, AloneStep, CompleteStep, ChargeStep, TellStep,
   OutputsStep DEF JobInv

(* and so it always holds.                                                 *)
LEMMA JobInvariant == ASSUME ~LongRequests PROVE Spec => []JobInv
BY InitJob, JobStep, PTL DEF Spec

(* The account is charged exactly for the outputs of the row it has,       *)
(* however the charge of worker.py and the refund of deleteTopoJob race.   *)
THEOREM ChargeMatches == ASSUME ~LongRequests PROVE Spec => []ChargedForWhatIsThere
<1>1. JobInv => ChargedForWhatIsThere
  BY DEF JobInv, ChargeOK
<1> QED BY JobInvariant, <1>1, PTL

(* A completed map has its outputs until its owner deletes it, whatever    *)
(* reapers, sweeps and a task that lost its job remove.                    *)
THEOREM OutputsStay == ASSUME ~LongRequests PROVE Spec => []OutputsKept
<1>1. JobInv => OutputsKept
  BY DEF JobInv, OutputsOK
<1> QED BY JobInvariant, <1>1, PTL

(* What a task uploaded has no writer but the task the one start launched, *)
(* and no sweep begins on a job that was started.                          *)
LEMMA WroteStep ==
  ASSUME ~LongRequests
  PROVE  TypeOK /\ LaunchOK /\ EarlyOK /\ WroteOK /\ [Next]_vars => WroteOK'
<1> SUFFICES ASSUME TypeOK, LaunchOK, EarlyOK, WroteOK, [Next]_vars PROVE WroteOK'
  OBVIOUS
<1> USE DEF TypeOK, WorkersOK, S3OK, WroteOK, Wrote
<1>1. CASE Submit \/ DeadlinePasses \/ CeilingPasses
  BY <1>1 DEF Submit, DeadlinePasses, CeilingPasses, s3, reaper
<1>2. CASE Dropped \/ PassDropped \/ UNCHANGED vars
  BY <1>2 DEF Dropped, PassDropped, vars, s3, reaper
<1>3. ASSUME NEW j \in Joins, Joining(j) PROVE WroteOK'
  BY <1>3 DEF Joining, ownUploadingJob, joinTopoUpload, s3, reaper
<1>4. ASSUME NEW h \in Starts, Starting(h) PROVE WroteOK'
  <2> USE DEF StartMove, StartKeeps, s3, reaper
  <2>1. CASE StartCheck(h) \/ StartFlip(h) \/ StartPersist(h) \/ StartFail(h)
    BY <2>1 DEF StartCheck, StartFlip, StartPersist, StartFail
  <2>2. CASE launchFargateTask(h)
    BY <2>2 DEF launchFargateTask, LaunchOK, LaunchFirst
  <2> QED BY <1>4, <2>1, <2>2 DEF Starting
<1>5. ASSUME NEW h \in Starts, Working(h) PROVE WroteOK'
  <2> USE DEF TaskKeeps, reaper, row
  <2>1. ASSUME task[h] # "none", outputs PROVE Wrote(h)
    BY <2>1 DEF LaunchOK, OneLaunch, Launched
  <2>2. CASE TaskUpload(h)
    <3>1. CASE Made
      <4>1. \A s \in Sweeps : sweep[s] = "idle"
        BY <2>2, <3>1 DEF TaskUpload, TaskMove, Made, EarlyOK, Making, Underway
      <4> QED BY <2>2, <4>1 DEF TaskUpload, TaskMove
    <3>2. CASE ~Made
      BY <2>1, <2>2, <3>2 DEF TaskUpload, TaskMove
    <3> QED BY <3>1, <3>2
  <2>3. CASE TaskClaim(h)
    BY <2>1, <2>3 DEF TaskClaim, Guarded, TaskMove
  <2>4. CASE TaskFetch(h)
    BY <2>1, <2>4 DEF TaskFetch, TaskMove
  <2>5. CASE TaskComplete(h) \/ TaskFail(h)
    BY <2>5 DEF TaskComplete, TaskFail, Guarded, TaskMove
  <2>6. CASE TaskErase(h) \/ TaskTell(h) \/ TaskDies(h)
    BY <2>6 DEF TaskErase, TaskTell, TaskDies, TaskMove
  <2>7. CASE Heartbeat(h)
    BY <2>7 DEF Heartbeat
  <2> QED BY <1>5, <2>2, <2>3, <2>4, <2>5, <2>6, <2>7 DEF Working
<1>6. ASSUME NEW d \in Deletes, Deleting(d) PROVE WroteOK'
  BY <1>6 DEF Deleting, DeleteRead, DeleteCancel, DeleteFresh, DeleteAbort,
              DeletePurge, DeleteRow, DelKeeps, AbortUploads, DeletePrefixes, s3, reaper
<1>7. ASSUME NEW r \in Reapers, Reaping(r) PROVE WroteOK'
  BY <1>7 DEF Reaping, ReapRead, ReapClaim, ReapTell, ReapKeeps
<1>8. ASSUME NEW s \in Sweeps, Sweeping(s) PROVE WroteOK'
  <2> USE DEF SweepKeeps, SweepMove, s3
  <2>1. CASE SweepRead(s)
    BY <2>1 DEF SweepRead, LaunchOK, AfterFlip, Launched
  <2>2. CASE SweepAbort(s) \/ SweepPurge(s) \/ SweepRow(s)
    BY <2>2 DEF SweepAbort, SweepPurge, SweepRow, AbortUploads, DeletePrefixes
  <2> QED BY <1>8, <2>1, <2>2 DEF Sweeping
<1> QED BY <1>1, <1>2, <1>3, <1>4, <1>5, <1>6, <1>7, <1>8 DEF Next

(* A delete that began after the claim has cancelled the job before it     *)
(* takes the objects, so a task that fails with outputs uploaded and the   *)
(* job still its own is alone with it.                                     *)
LEMMA FailStep ==
  ASSUME ~LongRequests
  PROVE  /\ TypeOK /\ LaunchOK /\ EarlyOK /\ WroteOK /\ FailOK
         /\ [Next]_vars
         => FailOK'
<1> SUFFICES ASSUME TypeOK, LaunchOK, EarlyOK, WroteOK, FailOK, [Next]_vars PROVE FailOK'
  OBVIOUS
<1> USE DEF TypeOK, RequestsOK, WorkersOK, S3OK, FailOK, Purging
<1>1. CASE Submit \/ DeadlinePasses \/ CeilingPasses
  BY <1>1 DEF Submit, DeadlinePasses, CeilingPasses, s3, request
<1>2. CASE Dropped \/ PassDropped \/ UNCHANGED vars
  BY <1>2 DEF Dropped, PassDropped, vars, row, s3, request
<1>3. ASSUME NEW j \in Joins, Joining(j) PROVE FailOK'
  BY <1>3 DEF Joining, ownUploadingJob, joinTopoUpload, row, s3
<1>4. ASSUME NEW h \in Starts, Starting(h) PROVE FailOK'
  <2> USE DEF StartMove, StartKeeps, s3
  <2>1. CASE StartCheck(h) \/ StartFlip(h) \/ StartPersist(h) \/ StartFail(h)
    BY <2>1 DEF StartCheck, StartFlip, StartPersist, StartFail
  <2>2. CASE launchFargateTask(h)
    BY <2>2 DEF launchFargateTask
  <2> QED BY <1>4, <2>1, <2>2 DEF Starting
<1>5. ASSUME NEW h \in Starts, Working(h) PROVE FailOK'
  <2> USE DEF TaskKeeps, request, row
  <2>1. ASSUME task[h] # "none", outputs PROVE Wrote(h)
    BY <2>1 DEF WroteOK, Wrote, LaunchOK, OneLaunch, Launched
  <2>2. CASE TaskUpload(h)
    <3>1. CASE Made
      <4>1. status = "processing" => \A d \in Deletes : ~Purging(d)
        BY <2>2, <3>1 DEF TaskUpload, TaskMove, Made, EarlyOK, Making, Underway
      <4> QED BY <2>2, <4>1 DEF TaskUpload
    <3>2. CASE ~Made
      BY <2>1, <2>2, <3>2 DEF TaskUpload, TaskMove, Wrote
    <3> QED BY <3>1, <3>2
  <2>3. CASE TaskClaim(h)
    BY <2>1, <2>3 DEF TaskClaim, Guarded, TaskMove, Wrote, LaunchOK, OneLaunch, Launched
  <2>4. CASE TaskFetch(h)
    BY <2>1, <2>4 DEF TaskFetch, TaskMove, Wrote
  <2>5. CASE TaskComplete(h) \/ TaskFail(h)
    BY <2>5 DEF TaskComplete, TaskFail, Guarded, TaskMove
  <2>6. CASE TaskErase(h) \/ TaskTell(h) \/ TaskDies(h)
    BY <2>6 DEF TaskErase, TaskTell, TaskDies, TaskMove
  <2>7. CASE Heartbeat(h)
    BY <2>7 DEF Heartbeat
  <2> QED BY <1>5, <2>2, <2>3, <2>4, <2>5, <2>6, <2>7 DEF Working
<1>6. ASSUME NEW d \in Deletes, Deleting(d) PROVE FailOK'
  <2> USE DEF DelKeeps, DelMove, InFlight
  <2>1. CASE DeleteRead(d) \/ DeleteCancel(d) \/ DeleteFresh(d)
    BY <2>1 DEF DeleteRead, DeleteCancel, DeleteFresh, s3
  <2>2. CASE DeleteAbort(d) \/ DeletePurge(d) \/ DeleteRow(d)
    BY <2>2 DEF DeleteAbort, DeletePurge, DeleteRow, AbortUploads, DeletePrefixes, s3
  <2> QED BY <1>6, <2>1, <2>2 DEF Deleting
<1>7. ASSUME NEW r \in Reapers, Reaping(r) PROVE FailOK'
  BY <1>7 DEF Reaping, ReapRead, ReapClaim, ReapTell, ReapKeeps, request
<1>8. ASSUME NEW s \in Sweeps, Sweeping(s) PROVE FailOK'
  BY <1>8 DEF Sweeping, SweepRead, SweepAbort, SweepPurge, SweepRow, SweepKeeps,
              AbortUploads, DeletePrefixes, request, s3
<1> QED BY <1>1, <1>2, <1>3, <1>4, <1>5, <1>6, <1>7, <1>8 DEF Next

(* The upload is opened once, with the row; after an abort no join can     *)
(* bring the ZIP back, and the row goes after the prefixes.                *)
LEMMA InputsStep == TypeOK /\ InputsGone /\ [Next]_vars => InputsGone'
<1> SUFFICES ASSUME TypeOK, InputsGone, [Next]_vars PROVE InputsGone'
  OBVIOUS
<1> USE DEF TypeOK, RowOK, RequestsOK, WorkersOK, S3OK, InputsGone, Existing, InFlight,
            Terminal
<1>1. CASE Submit
  BY <1>1 DEF Submit, request, reaper
<1>2. CASE DeadlinePasses \/ CeilingPasses
  BY <1>2 DEF DeadlinePasses, CeilingPasses, request, reaper, s3
<1>3. CASE Dropped \/ PassDropped \/ UNCHANGED vars
  BY <1>3 DEF Dropped, PassDropped, vars, row, s3, request, reaper
<1>4. ASSUME NEW j \in Joins, Joining(j) PROVE InputsGone'
  <2>1. \/ open' = open /\ zip' = zip
        \/ open /\ ~open' /\ zip' \in BOOLEAN
    <3>1. CASE ownUploadingJob(j)
      BY <3>1 DEF ownUploadingJob, s3
    <3>2. CASE joinTopoUpload(j)
      <4>1. zip' = zip \/ zip' = TRUE
        BY Zenon, <3>2 DEF joinTopoUpload
      <4> QED BY <3>2, <4>1 DEF joinTopoUpload
    <3> QED BY <1>4, <3>1, <3>2 DEF Joining
  <2>2. UNCHANGED <<status, del, sweep>>
    BY <1>4 DEF Joining, ownUploadingJob, joinTopoUpload, row, reaper
  <2> QED BY <2>1, <2>2
<1>5. ASSUME NEW h \in Starts, Starting(h) PROVE InputsGone'
  BY <1>5 DEF Starting, StartCheck, StartFlip, launchFargateTask, StartPersist,
              StartFail, StartKeeps, StartMove, s3, reaper
<1>6. ASSUME NEW h \in Starts, Working(h) PROVE InputsGone'
  <2>1. /\ open' = open
        /\ zip' = zip \/ zip' = FALSE
    BY <1>6 DEF Working, TaskClaim, TaskFetch, TaskUpload, TaskComplete, TaskFail,
       TaskErase, TaskTell, Heartbeat, TaskDies, TaskKeeps
  <2>2. UNCHANGED <<del, sweep>>
    BY <1>6 DEF Working, TaskClaim, TaskFetch, TaskUpload, TaskComplete, TaskFail,
       TaskErase, TaskTell, Heartbeat, TaskDies, TaskKeeps, request, reaper
  <2>3. status' = status \/ status' \in {"processing", "complete", "failed"}
    BY <1>6 DEF Working, TaskClaim, TaskFetch, TaskUpload, TaskComplete, TaskFail,
       TaskErase, TaskTell, Heartbeat, TaskDies, row
  <2> QED BY <2>1, <2>2, <2>3
<1>7. ASSUME NEW d \in Deletes, Deleting(d) PROVE InputsGone'
  <2> USE DEF DelMove, DelKeeps, reaper
  <2>1. CASE DeleteRead(d) \/ DeleteCancel(d) \/ DeleteFresh(d)
    BY <2>1 DEF DeleteRead, DeleteCancel, DeleteFresh, s3
  <2>2. CASE DeleteAbort(d)
    BY <2>2 DEF DeleteAbort, AbortUploads
  <2>3. CASE DeletePurge(d)
    BY <2>3 DEF DeletePurge, DeletePrefixes
  <2>4. CASE DeleteRow(d)
    BY <2>4 DEF DeleteRow, s3
  <2> QED BY <1>7, <2>1, <2>2, <2>3, <2>4 DEF Deleting
<1>8. ASSUME NEW r \in Reapers, Reaping(r) PROVE InputsGone'
  <2>1. zip' = zip \/ zip' = FALSE
    BY Zenon, <1>8 DEF Reaping, ReapRead, ReapClaim, ReapTell
  <2>2. UNCHANGED <<open, del, sweep>>
    BY <1>8 DEF Reaping, ReapRead, ReapClaim, ReapTell, ReapKeeps, request
  <2>3. status' = status \/ status' = "failed"
    BY <1>8 DEF Reaping, ReapRead, ReapClaim, ReapTell
  <2> QED BY <2>1, <2>2, <2>3
<1>9. ASSUME NEW s \in Sweeps, Sweeping(s) PROVE InputsGone'
  <2> USE DEF SweepMove, SweepKeeps, request
  <2>1. CASE SweepRead(s)
    BY <2>1 DEF SweepRead, s3
  <2>2. CASE SweepAbort(s)
    BY <2>2 DEF SweepAbort, AbortUploads
  <2>3. CASE SweepPurge(s)
    BY <2>3 DEF SweepPurge, DeletePrefixes
  <2>4. CASE SweepRow(s)
    BY <2>4 DEF SweepRow, s3
  <2> QED BY <1>9, <2>1, <2>2, <2>3, <2>4 DEF Sweeping
<1> QED BY <1>1, <1>2, <1>3, <1>4, <1>5, <1>6, <1>7, <1>8, <1>9 DEF Next

(* Outputs that are there behind a purge have a task that still owes an    *)
(* erasure, or died owing it: it cannot win its guarded write any more.    *)
LEMMA OwedStep ==
  /\ TypeOK /\ LaunchOK /\ AloneOK /\ WroteOK /\ FailOK /\ OutputsGone
  /\ [Next]_vars
  => OutputsGone'
<1> SUFFICES ASSUME TypeOK, LaunchOK, AloneOK, WroteOK, FailOK, OutputsGone, [Next]_vars
             PROVE  OutputsGone'
  OBVIOUS
<1> USE DEF TypeOK, RowOK, RequestsOK, WorkersOK, S3OK, GhostOK, OutputsGone, Owed,
            Existing, InFlight, Terminal
<1>1. CASE Submit \/ DeadlinePasses \/ CeilingPasses
  BY <1>1 DEF Submit, DeadlinePasses, CeilingPasses, request, s3, ghost
<1>2. CASE Dropped \/ PassDropped \/ UNCHANGED vars
  BY <1>2 DEF Dropped, PassDropped, vars, row, request, s3, ghost
<1>3. ASSUME NEW j \in Joins, Joining(j) PROVE OutputsGone'
  BY <1>3 DEF Joining, ownUploadingJob, joinTopoUpload, row, s3, ghost
<1>4. ASSUME NEW h \in Starts, Starting(h) PROVE OutputsGone'
  <2> USE DEF StartMove, StartKeeps, s3, ghost
  <2>1. CASE StartCheck(h) \/ StartFlip(h) \/ StartPersist(h) \/ StartFail(h)
    BY <2>1 DEF StartCheck, StartFlip, StartPersist, StartFail
  <2>2. CASE launchFargateTask(h)
    BY <2>2 DEF launchFargateTask, LaunchOK, LaunchFirst
  <2> QED BY <1>4, <2>1, <2>2 DEF Starting
<1>5. ASSUME NEW h \in Starts, Working(h) PROVE OutputsGone'
  <2> USE DEF TaskKeeps, request, row, ghost
  <2>1. CASE TaskComplete(h)
    <3>1. CASE status = "processing"
      <4>1. \A d \in Deletes : del[d] # "row"
        BY <2>1, <3>1 DEF TaskComplete, Guarded, TaskMove, AloneOK, Purging
      <4> QED BY <2>1, <3>1, <4>1 DEF TaskComplete
    <3>2. CASE status # "processing"
      BY <2>1, <3>2 DEF TaskComplete, Guarded, TaskMove
    <3> QED BY <3>1, <3>2
  <2>2. CASE TaskFail(h)
    <3>1. CASE status = "processing"
      <4>1. outputs => \A d \in Deletes : del[d] # "row"
        BY <2>2, <3>1 DEF TaskFail, Guarded, TaskMove, FailOK, Purging
      <4> QED BY <2>2, <3>1, <4>1 DEF TaskFail
    <3>2. CASE status # "processing"
      BY <2>2, <3>2 DEF TaskFail, Guarded, TaskMove
    <3> QED BY <3>1, <3>2
  <2>3. CASE TaskClaim(h)
    BY <2>3 DEF TaskClaim, Guarded, TaskMove
  <2>4. CASE TaskUpload(h)
    BY <2>4 DEF TaskUpload, TaskMove
  <2>5. CASE TaskErase(h) \/ TaskFetch(h) \/ TaskTell(h)
    BY <2>5 DEF TaskErase, TaskFetch, TaskTell, TaskMove
  <2>6. CASE TaskDies(h)
    <3>1. orphaned' \/ ~(task[h] \in {"finish", "fail", "erase"} /\ outputs)
      BY Zenon, <2>6 DEF TaskDies
    <3>2. orphaned => orphaned'
      BY Zenon, <2>6 DEF TaskDies
    <3> QED BY <2>6, <3>1, <3>2 DEF TaskDies
  <2>7. CASE Heartbeat(h)
    BY <2>7 DEF Heartbeat
  <2> QED BY <1>5, <2>1, <2>2, <2>3, <2>4, <2>5, <2>6, <2>7 DEF Working
<1>6. ASSUME NEW d \in Deletes, Deleting(d) PROVE OutputsGone'
  <2> USE DEF DelMove, DelKeeps, ghost
  <2>1. CASE DeleteRead(d) \/ DeleteCancel(d) \/ DeleteFresh(d)
    BY <2>1 DEF DeleteRead, DeleteCancel, DeleteFresh, s3
  <2>2. CASE DeleteAbort(d)
    BY <2>2 DEF DeleteAbort, AbortUploads
  <2>3. CASE DeletePurge(d)
    BY <2>3 DEF DeletePurge, DeletePrefixes
  <2>4. CASE DeleteRow(d)
    BY <2>4 DEF DeleteRow, s3
  <2> QED BY <1>6, <2>1, <2>2, <2>3, <2>4 DEF Deleting
<1>7. ASSUME NEW r \in Reapers, Reaping(r) PROVE OutputsGone'
  BY <1>7 DEF Reaping, ReapRead, ReapClaim, ReapTell, ReapKeeps, request, ghost
<1>8. ASSUME NEW s \in Sweeps, Sweeping(s) PROVE OutputsGone'
  <2> USE DEF SweepMove, SweepKeeps, request, ghost
  <2>1. CASE SweepRead(s) \/ SweepAbort(s)
    BY <2>1 DEF SweepRead, SweepAbort, AbortUploads, s3
  <2>2. CASE SweepPurge(s)
    BY <2>2 DEF SweepPurge, DeletePrefixes
  <2>3. CASE SweepRow(s)
    <3>1. ~outputs
      BY <2>3 DEF SweepRow, WroteOK
    <3> QED BY <2>3, <3>1 DEF SweepRow, s3
  <2> QED BY <1>8, <2>1, <2>2, <2>3 DEF Sweeping
<1> QED BY <1>1, <1>2, <1>3, <1>4, <1>5, <1>6, <1>7, <1>8 DEF Next

(* What a removal leaves in S3 always has its explanation.                 *)
LEMMA LeftInvariant == ASSUME ~LongRequests PROVE Spec => []LeftInv
<1>1. Init => LeftInv
  <2> SUFFICES ASSUME Init PROVE LeftInv
    OBVIOUS
  <2>1. WroteOK /\ FailOK /\ OutputsGone
    BY DEF Init, WroteOK, FailOK, OutputsGone
  <2>2. InputsGone
    BY DEF Init, InputsGone
  <2> QED BY <2>1, <2>2 DEF LeftInv
<1>2. JobInv /\ LeftInv /\ [Next]_vars => LeftInv'
  BY WroteStep, FailStep, InputsStep, OwedStep DEF JobInv, LeftInv
<1> QED BY <1>1, <1>2, JobInvariant, PTL DEF Spec

(* Once a job is gone and whoever was at work on it has stopped, S3 holds  *)
(* nothing of it but what a killed task had uploaded: deleteTopoJobObjects *)
(* and the sweep leave no upload a join could finish, and a task that lost *)
(* its job takes its outputs away.                                         *)
THEOREM NothingStays == ASSUME ~LongRequests PROVE Spec => []NothingLeft
<1>1. LeftInv => NothingLeft
  BY DEF LeftInv, InputsGone, OutputsGone, Owed, NothingLeft, Quiet
<1> QED BY LeftInvariant, <1>1, PTL

(* A step of a start is a Start, a Fail or no step of the lifecycle;       *)
LEMMA StartMaps ==
  ASSUME JobInv, NEW h \in Starts, Starting(h)
  PROVE  [Lifecycle!Next]_Lifecycle!vars
<1> USE DEF Lifecycle!vars, StartKeeps
<1>1. CASE StartCheck(h) \/ launchFargateTask(h) \/ StartPersist(h)
  BY <1>1 DEF StartCheck, launchFargateTask, StartPersist
<1>2. CASE StartFlip(h)
  BY <1>2 DEF StartFlip, Lifecycle!Next, Lifecycle!Start, Lifecycle!Move
<1>3. CASE StartFail(h)
  <2>1. status \notin {"none", "uploading", "complete"}
    BY <1>3 DEF StartFail, StartMove, JobInv, LaunchOK, AfterFlip, Launched, Flipped,
       CompleteOK
  <2>2. Lifecycle!Fail \/ UNCHANGED Lifecycle!vars
    BY <1>3, <2>1 DEF StartFail, Lifecycle!Fail, Lifecycle!Move, Lifecycle!InFlight,
       Existing, InFlight, Terminal
  <2> QED BY <2>2 DEF Lifecycle!Next
<1> QED BY <1>1, <1>2, <1>3 DEF Starting

(* a step of the task is a Claim, a Finish, a Fail, a Tell or none;        *)
LEMMA TaskMaps ==
  ASSUME JobInv, NEW h \in Starts, Working(h)
  PROVE  [Lifecycle!Next]_Lifecycle!vars
<1> USE DEF Lifecycle!vars, TaskKeeps, row, Lifecycle!Move
<1>1. CASE TaskClaim(h)
  BY <1>1 DEF TaskClaim, Lifecycle!Next, Lifecycle!Claim
<1>2. CASE TaskComplete(h)
  BY <1>2 DEF TaskComplete, Lifecycle!Next, Lifecycle!Finish
<1>3. CASE TaskFail(h)
  BY <1>3 DEF TaskFail, Lifecycle!Next, Lifecycle!Fail, Lifecycle!InFlight
<1>4. CASE TaskTell(h)
  <2>1. PICK outcome \in Lifecycle!Terminal :
           Unheard(outcome) /\ told' = Append(told, outcome)
    BY <1>4 DEF TaskTell, TaskMove, JobInv, TellOK, Lifecycle!Terminal
  <2>2. Lifecycle!Tell(outcome)
    BY <1>4, <2>1 DEF TaskTell, Lifecycle!Tell, Unheard
  <2> QED BY <2>2 DEF Lifecycle!Next
<1>5. CASE TaskFetch(h) \/ TaskUpload(h) \/ TaskErase(h) \/ Heartbeat(h) \/ TaskDies(h)
  BY <1>5 DEF TaskFetch, TaskUpload, TaskErase, Heartbeat, TaskDies
<1> QED BY <1>1, <1>2, <1>3, <1>4, <1>5 DEF Working

(* a step of a delete is a Fail, a Remove that gives back all of the       *)
(* charge, or none;                                                        *)
LEMMA DeleteMaps ==
  ASSUME JobInv, NEW d \in Deletes, Deleting(d)
  PROVE  [Lifecycle!Next]_Lifecycle!vars
<1> USE DEF Lifecycle!vars, DelKeeps, Lifecycle!Move
<1>1. CASE DeleteCancel(d)
  BY <1>1 DEF DeleteCancel, Lifecycle!Next, Lifecycle!Fail, Lifecycle!InFlight, InFlight
<1>2. CASE DeleteRow(d)
  <2>1. CASE status \in Existing
    <3>1. used' = Elsewhere
      <4>1. /\ fresh[d] = charge /\ used = Elsewhere + charge
            /\ charge \in Nat /\ Elsewhere \in Nat
        BY <1>2, <2>1, JobsAssumption
           DEF DeleteRow, DelMove, JobInv, TypeOK, RowOK, ChargeOK, ChargedForWhatIsThere,
               Existing, InFlight, Terminal
      <4>2. used' = IF fresh[d] >= used THEN 0 ELSE used - fresh[d]
        BY <1>2, <2>1 DEF DeleteRow, decrementStorageUsed, Existing, InFlight, Terminal
      <4> QED BY <4>1, <4>2
    <3> QED BY <1>2, <2>1, <3>1 DEF DeleteRow, Lifecycle!Next, Lifecycle!Remove,
               Lifecycle!Existing, Lifecycle!InFlight, Lifecycle!Terminal,
               Existing, InFlight, Terminal
  <2>2. CASE status \notin Existing
    BY <1>2, <2>2 DEF DeleteRow
  <2> QED BY <2>1, <2>2
<1>3. CASE DeleteRead(d) \/ DeleteFresh(d) \/ DeleteAbort(d) \/ DeletePurge(d)
  BY <1>3 DEF DeleteRead, DeleteFresh, DeleteAbort, DeletePurge
<1> QED BY <1>1, <1>2, <1>3 DEF Deleting

(* a step of a reaper is a Fail, a Tell or none;                           *)
LEMMA ReapMaps ==
  ASSUME JobInv, NEW r \in Reapers, Reaping(r)
  PROVE  [Lifecycle!Next]_Lifecycle!vars
<1> USE DEF Lifecycle!vars, ReapKeeps, Lifecycle!Move
<1>1. CASE ReapRead(r)
  BY <1>1 DEF ReapRead
<1>2. CASE ReapClaim(r)
  BY <1>2 DEF ReapClaim, Lifecycle!Next, Lifecycle!Fail, Lifecycle!InFlight, InFlight
<1>3. CASE ReapTell(r)
  <2>1. Unheard("failed")
    BY <1>3 DEF ReapTell, ReapMove, JobInv, TellOK
  <2>2. told' = told \/ told' = Append(told, "failed")
    BY Zenon, <1>3 DEF ReapTell
  <2>3. Lifecycle!Tell("failed") \/ UNCHANGED Lifecycle!vars
    BY <1>3, <2>1, <2>2 DEF ReapTell, Lifecycle!Tell, Unheard
  <2> QED BY <2>3 DEF Lifecycle!Next, Lifecycle!Terminal
<1> QED BY <1>1, <1>2, <1>3 DEF Reaping

(* a step of a sweep is a Remove or none.                                  *)
LEMMA SweepMaps ==
  ASSUME JobInv, NEW s \in Sweeps, Sweeping(s)
  PROVE  [Lifecycle!Next]_Lifecycle!vars
<1> USE DEF Lifecycle!vars, SweepKeeps, Lifecycle!Move
<1>1. CASE SweepRow(s)
  <2>1. status = "uploading" => used = Elsewhere
    BY JobsAssumption DEF JobInv, TypeOK, RowOK, ChargeOK, ChargedForWhatIsThere
  <2> QED BY <1>1, <2>1 DEF SweepRow, Lifecycle!Next, Lifecycle!Remove, Lifecycle!Existing
<1>2. CASE SweepRead(s) \/ SweepAbort(s) \/ SweepPurge(s)
  BY <1>2 DEF SweepRead, SweepAbort, SweepPurge
<1> QED BY <1>1, <1>2 DEF Sweeping

(* So every step is a step of the lifecycle or a stutter.                  *)
LEMMA StepMaps == JobInv /\ [Next]_vars => [Lifecycle!Next]_Lifecycle!vars
<1> SUFFICES ASSUME JobInv, [Next]_vars PROVE [Lifecycle!Next]_Lifecycle!vars
  OBVIOUS
<1>1. CASE Submit
  BY <1>1 DEF Submit, Lifecycle!Next, Lifecycle!Submit, Lifecycle!Move
<1>2. CASE Dropped \/ PassDropped \/ DeadlinePasses \/ CeilingPasses \/ UNCHANGED vars
  BY <1>2 DEF Dropped, PassDropped, DeadlinePasses, CeilingPasses, vars, row,
              Lifecycle!vars
<1>3. ASSUME NEW j \in Joins, Joining(j) PROVE UNCHANGED Lifecycle!vars
  BY <1>3 DEF Joining, ownUploadingJob, joinTopoUpload, row, Lifecycle!vars
<1> QED BY <1>1, <1>2, <1>3, StartMaps, TaskMaps, DeleteMaps, ReapMaps, SweepMaps DEF Next

(* The guarded status writes and the charge in their transactions          *)
(* implement the lifecycle: a job runs at most once, settles for good, is  *)
(* charged and refunded in the step that completes or removes it, and its  *)
(* owner hears of the outcome at most once and as it is.                   *)
THEOREM ImplementsLifecycle == ASSUME ~LongRequests PROVE Spec => KeepsLifecycle
<1>1. Init => Lifecycle!Init
  BY DEF Init, Lifecycle!Init
<1> QED BY <1>1, StepMaps, JobInvariant, PTL DEF Spec, KeepsLifecycle, Lifecycle!Spec

=============================================================================
