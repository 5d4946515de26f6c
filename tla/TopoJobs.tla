------------------------------- MODULE TopoJobs -------------------------------
(***************************************************************************)
(* One LiDAR map of an account: the requests that submit, start and delete *)
(* it (api/src/routes/topoJobs.ts), the compute task a start launches      *)
(* (topo/worker.py), and the reaper and the sweep of abandoned uploads     *)
(* every API instance runs (api/src/lib/topoJobReaper.ts).  They share a   *)
(* database row, the objects the job has in S3 and the owner's storage     *)
(* counter, and no lock: each status write that matters is guarded by the  *)
(* status it expects.                                                      *)
(*                                                                         *)
(* A step is one statement, transaction or S3 call.  A request that throws *)
(* or whose API instance dies stops where it is (Dropped); a call that is  *)
(* only best effort fails with its caller.  StopTask makes a task die,     *)
(* which a task here may do at any time, so the calls to it and the ARN    *)
(* they need are left out.  The jobs of an account meet only in the checks *)
(* of credits and capacity, here one more way for a start to be refused.   *)
(***************************************************************************)
EXTENDS Naturals, Sequences

CONSTANTS
  Starts,       \* requests to start the job, and the task each may launch
  Deletes,      \* requests to delete it
  Joins,        \* requests to join its upload
  Reapers,      \* API instances running a reaper
  Sweeps,       \* API instances running a sweep of abandoned uploads
  Bytes,        \* what the job's outputs take
  Elsewhere,    \* what else is charged to the account
  LongRequests  \* a request or a sweep may outlive the making of a map

Requests == Starts \union Deletes \union Sweeps

ASSUME JobsAssumption ==
  /\ Bytes \in Nat \ {0}
  /\ Elsewhere \in Nat
  /\ Starts \intersect Deletes = {}
  /\ (Starts \union Deletes) \intersect Sweeps = {}
  /\ LongRequests \in BOOLEAN

VARIABLES
  status,  \* topo_jobs.status; "none" and "gone" when there is no row
  charge,  \* topo_jobs.output_bytes
  age,     \* the row against the reaper's deadlines
  used,    \* users.storage_used_bytes
  open,    \* S3: the multipart upload is open
  zip,     \* S3: the ZIP under inputs/
  outputs, \* S3: objects under outputs/
  start,   \* where each start request stands
  join,    \* where each join stands
  del,     \* where each delete stands
  fresh,   \* the outputBytes deleteTopoJob read again
  task,    \* where the task each start launched stands
  reap,    \* where each reaper stands
  sweep,   \* where each sweep of abandoned uploads stands
  told,    \* the notifications the owner got of the job's outcome
  early,   \* ghost: requests under way when the task now making a map claimed it
  orphaned \* ghost: a task died on outputs it had uploaded

row     == <<status, charge, age>>
s3      == <<open, zip, outputs>>
request == <<start, join, del, fresh>>
reaper  == <<reap, sweep>>
ghost   == <<early, orphaned>>
vars    == <<row, used, s3, request, task, reaper, told, ghost>>

Terminal == {"complete", "failed"}
InFlight == {"pending", "processing"}
Existing == {"uploading"} \union InFlight \union Terminal

StartPlaces == {"idle", "checked", "launch", "persist", "failing", "done"}
DelPlaces   == {"idle", "cancel", "fresh", "abort", "purge", "row", "done"}
TaskPlaces  == {"none", "placed", "claimed", "working", "finish", "fail", "erase",
                "tellComplete", "tellFailed", "ended"}
ReapPlaces  == {"idle", "pending", "processing", "tell"}
SweepPlaces == {"idle", "abort", "purge", "row"}

Init ==
  /\ status = "none"
  /\ charge = 0
  /\ age = "fresh"
  /\ used = Elsewhere
  /\ open = FALSE
  /\ zip = FALSE
  /\ outputs = FALSE
  /\ start = [h \in Starts |-> "idle"]
  /\ join = [j \in Joins |-> "idle"]
  /\ del = [d \in Deletes |-> "idle"]
  /\ fresh = [d \in Deletes |-> 0]
  /\ task = [h \in Starts |-> "none"]
  /\ reap = [r \in Reapers |-> "idle"]
  /\ sweep = [s \in Sweeps |-> "idle"]
  /\ told = <<>>
  /\ early = {}
  /\ orphaned = FALSE

-----------------------------------------------------------------------------
(* Submitting and uploading                                                *)

(* POST /topo-jobs: the row, then its multipart upload, which S3 may       *)
(* refuse; the id goes out with the answer.                                *)
Submit ==
  /\ status = "none"
  /\ status' = "uploading"
  /\ open' \in BOOLEAN
  /\ UNCHANGED <<charge, age, used, zip, outputs, request, task, reaper,
                 told, ghost>>

JoinMove(j, from, to) == join[j] = from /\ join' = [join EXCEPT ![j] = to]

(* POST /topo-jobs/:id/complete looks for an uploading row                 *)
ownUploadingJob(j) ==
  /\ JoinMove(j, "idle", "joining")
  /\ status = "uploading"
  /\ UNCHANGED <<row, used, s3, start, del, fresh, task, reaper, told, ghost>>

(* and has S3 join the parts: refused with some missing, aborted if a part *)
(* has the wrong size, nothing to do if the upload is no longer open.      *)
joinTopoUpload(j) ==
  /\ JoinMove(j, "joining", "done")
  /\ \/ open /\ open' = FALSE /\ zip' \in {zip, TRUE}
     \/ UNCHANGED <<open, zip>>
  /\ UNCHANGED <<row, used, outputs, start, del, fresh, task, reaper,
                 told, ghost>>

-----------------------------------------------------------------------------
(* POST /topo-jobs/:id/start                                               *)

StartMove(h, from, to) == start[h] = from /\ start' = [start EXCEPT ![h] = to]

StartKeeps == UNCHANGED <<charge, used, s3, join, del, fresh,
                          reaper, told, ghost>>

(* The job is uploading, its ZIP is there and fit to run, and there is     *)
(* capacity; none of it holds on to anything.                              *)
StartCheck(h) ==
  /\ StartMove(h, "idle", "checked")
  /\ status = "uploading"
  /\ zip
  /\ StartKeeps /\ UNCHANGED <<status, age, task>>

(* The guarded flip, under the lock on the user's row                      *)
StartFlip(h) ==
  /\ \/ /\ status = "uploading"
        /\ StartMove(h, "checked", "launch")
        /\ status' = "pending"
        /\ age' = "fresh"
     \/ /\ status # "uploading"
        /\ StartMove(h, "checked", "done")
        /\ UNCHANGED <<status, age>>
  /\ StartKeeps /\ UNCHANGED task

(* RunTask places the task; or it throws, perhaps for a task it has placed *)
launchFargateTask(h) ==
  /\ \/ StartMove(h, "launch", "persist") /\ task' = [task EXCEPT ![h] = "placed"]
     \/ StartMove(h, "launch", "failing") /\ task' = [task EXCEPT ![h] = "placed"]
     \/ StartMove(h, "launch", "failing") /\ UNCHANGED task
  /\ StartKeeps /\ UNCHANGED <<status, age>>

(* The ARN goes into the row, which counts as an update of it; a row that  *)
(* is gone makes the statement throw.                                      *)
StartPersist(h) ==
  /\ \/ /\ StartMove(h, "persist", "done")
        /\ status \in Existing
        /\ age' = IF status = "pending" THEN "fresh" ELSE age
     \/ StartMove(h, "persist", "failing") /\ UNCHANGED age
  /\ StartKeeps /\ UNCHANGED <<status, task>>

(* The catch block: the row is failed whatever its status                  *)
StartFail(h) ==
  /\ StartMove(h, "failing", "done")
  /\ status' = IF status \in Existing THEN "failed" ELSE status
  /\ StartKeeps /\ UNCHANGED <<age, task>>

-----------------------------------------------------------------------------
(* DELETE /topo-jobs/:id                                                   *)

DelMove(d, from, to) == del[d] = from /\ del' = [del EXCEPT ![d] = to]

DelKeeps == UNCHANGED <<age, start, join, task, reaper, told, ghost>>

DeleteRead(d) ==
  /\ status \in Existing
  /\ DelMove(d, "idle", IF status \in InFlight THEN "cancel" ELSE "fresh")
  /\ DelKeeps /\ UNCHANGED <<status, charge, used, s3, fresh>>

DeleteCancel(d) ==
  /\ DelMove(d, "cancel", "fresh")
  /\ status' = IF status \in InFlight THEN "failed" ELSE status
  /\ DelKeeps /\ UNCHANGED <<charge, used, s3, fresh>>

(* deleteTopoJob: the charge as it is now, or the row is gone              *)
DeleteFresh(d) ==
  /\ DelMove(d, "fresh", IF status = "gone" THEN "done" ELSE "abort")
  /\ fresh' = [fresh EXCEPT ![d] = charge]
  /\ DelKeeps /\ UNCHANGED <<status, charge, used, s3>>

(* deleteTopoJobObjects aborts the open upload, then deletes the prefixes  *)
PrefixesOnly == UNCHANGED s3  \* mutant: the open upload is left to expire
AbortUploads == open' = FALSE /\ UNCHANGED <<zip, outputs>>
DeletePrefixes == zip' = FALSE /\ outputs' = FALSE /\ UNCHANGED open

DeleteAbort(d) ==
  /\ DelMove(d, "abort", "purge")
  /\ AbortUploads
  /\ DelKeeps /\ UNCHANGED <<status, charge, used, fresh>>

DeletePurge(d) ==
  /\ DelMove(d, "purge", "row")
  /\ DeletePrefixes
  /\ DelKeeps /\ UNCHANGED <<status, charge, used, fresh>>

(* The row goes and the charge that was read is given back, in one         *)
(* transaction, which a row already gone rolls back.                       *)
decrementStorageUsed(bytes) == used' = IF bytes >= used THEN 0 ELSE used - bytes

DeleteRowBlindly(d) ==  \* mutant: the charge is given back row or no row
  /\ DelMove(d, "row", "done")
  /\ fresh' = [fresh EXCEPT ![d] = 0]
  /\ status' = "gone"
  /\ charge' = 0
  /\ decrementStorageUsed(fresh[d])
  /\ DelKeeps /\ UNCHANGED s3

DeleteRow(d) ==
  /\ DelMove(d, "row", "done")
  /\ fresh' = [fresh EXCEPT ![d] = 0]
  /\ \/ /\ status \in Existing
        /\ status' = "gone"
        /\ charge' = 0
        /\ decrementStorageUsed(fresh[d])
     \/ status = "gone" /\ UNCHANGED <<status, charge, used>>
  /\ DelKeeps /\ UNCHANGED s3

(* A request that was refused, threw or died with its API instance         *)
Dropped ==
  /\ \/ /\ \E h \in Starts : /\ start[h] \notin {"idle", "done"}
                             /\ start' = [start EXCEPT ![h] = "done"]
        /\ UNCHANGED <<del, fresh>>
     \/ /\ \E d \in Deletes : /\ del[d] \notin {"idle", "done"}
                              /\ del' = [del EXCEPT ![d] = "done"]
                              /\ fresh' = [fresh EXCEPT ![d] = 0]
        /\ UNCHANGED start
  /\ UNCHANGED <<row, used, s3, join, task, reaper, told, ghost>>

-----------------------------------------------------------------------------
(* The compute task (topo/worker.py main)                                  *)

TaskMove(h, from, to) == task[h] = from /\ task' = [task EXCEPT ![h] = to]

TaskKeeps == UNCHANGED <<open, request, reaper>>

Underway == {h \in Starts : start[h] \notin {"idle", "done"}}
              \union {d \in Deletes : del[d] \notin {"idle", "done"}}
              \union {s \in Sweeps : sweep[s] # "idle"}

(* update_status(expected_status): where the guarded write leads           *)
Guarded(h, from, expected, won, lost) ==
  TaskMove(h, from, IF status = expected THEN won ELSE lost)

TaskClaim(h) ==
  /\ Guarded(h, "placed", "pending", "claimed", "ended")
  /\ IF status = "pending"
     THEN status' = "processing" /\ age' = "fresh" /\ early' = Underway
     ELSE UNCHANGED <<status, age, early>>
  /\ TaskKeeps /\ UNCHANGED <<charge, used, zip, outputs, told, orphaned>>

(* process_job fetches the ZIP, and fails without it                       *)
TaskFetch(h) ==
  /\ TaskMove(h, "claimed", IF zip THEN "working" ELSE "fail")
  /\ TaskKeeps /\ UNCHANGED <<row, used, zip, outputs, told, ghost>>

(* makes the map, which is what takes the time of a run, and uploads it;   *)
(* or fails, before or amid the uploads.  Either way the ZIP goes, which   *)
(* no other step reads of a job that was started.                          *)
Made == LongRequests \/ early \intersect Underway = {}

TaskUpload(h) ==
  /\ \/ TaskMove(h, "working", "finish") /\ Made /\ outputs' = TRUE
     \/ TaskMove(h, "working", "fail") /\ Made /\ outputs' = TRUE
     \/ TaskMove(h, "working", "fail") /\ UNCHANGED outputs
  /\ zip' = FALSE
  /\ early' = {}
  /\ TaskKeeps /\ UNCHANGED <<row, used, told, orphaned>>

CompleteWithInput(h) ==  \* mutant: the outputs counted with the ZIP they came from
  /\ Guarded(h, "finish", "processing", "tellComplete", "erase")
  /\ IF status = "processing"
     THEN status' = "complete" /\ charge' = Bytes + Bytes /\ used' = used + Bytes + Bytes
     ELSE UNCHANGED <<status, charge, used>>
  /\ TaskKeeps /\ UNCHANGED <<age, zip, outputs, told, ghost>>

(* The guarded write of the outcome, and the charge in the same commit     *)
TaskComplete(h) ==
  /\ Guarded(h, "finish", "processing", "tellComplete", "erase")
  /\ IF status = "processing"
     THEN status' = "complete" /\ charge' = Bytes /\ used' = used + Bytes
     ELSE UNCHANGED <<status, charge, used>>
  /\ TaskKeeps /\ UNCHANGED <<age, zip, outputs, told, ghost>>

TaskFail(h) ==
  /\ Guarded(h, "fail", "processing", "tellFailed", "erase")
  /\ status' = IF status = "processing" THEN "failed" ELSE status
  /\ TaskKeeps /\ UNCHANGED <<charge, age, used, zip, outputs, told, ghost>>

(* The job was reaped or deleted mid-run: the outputs are nobody's         *)
TaskErase(h) ==
  /\ TaskMove(h, "erase", "ended")
  /\ outputs' = FALSE
  /\ TaskKeeps /\ UNCHANGED <<status, charge, age, used, zip, told, ghost>>

TaskTellInTry(h) ==  \* mutant: a notification that throws fails the job
  /\ \/ TaskMove(h, "tellComplete", "ended") /\ told' = Append(told, "complete")
     \/ TaskMove(h, "tellComplete", "fail") /\ UNCHANGED told
     \/ TaskMove(h, "tellFailed", "ended") /\ told' = Append(told, "failed")
  /\ TaskKeeps /\ UNCHANGED <<status, charge, age, used, zip, outputs, ghost>>

TaskTell(h) ==
  /\ \/ TaskMove(h, "tellComplete", "ended") /\ told' = Append(told, "complete")
     \/ TaskMove(h, "tellFailed", "ended") /\ told' = Append(told, "failed")
  /\ TaskKeeps /\ UNCHANGED <<status, charge, age, used, zip, outputs, ghost>>

(* _heartbeat_loop; its write is guarded on `processing`                   *)
Heartbeat(h) ==
  /\ task[h] = "working"
  /\ status = "processing"
  /\ age = "overdue"
  /\ age' = "fresh"
  /\ TaskKeeps /\ UNCHANGED <<status, charge, used, zip, outputs, task, told, ghost>>

(* Stopped, out of memory, or unable to reach the database or S3           *)
TaskDies(h) ==
  /\ task[h] \notin {"none", "ended"}
  /\ task' = [task EXCEPT ![h] = "ended"]
  /\ orphaned' = (orphaned \/ (task[h] \in {"finish", "fail", "erase"} /\ outputs))
  /\ TaskKeeps /\ UNCHANGED <<row, used, zip, outputs, told, early>>

-----------------------------------------------------------------------------
(* The reaper (reapStuckTopoJobs), once in every API instance              *)

(* Time passes the deadline of the status the row is in; for a processing  *)
(* row that is the stall, which a heartbeat takes back.                    *)
DeadlinePasses ==
  /\ status \in {"uploading"} \union InFlight
  /\ age = "fresh"
  /\ age' = "overdue"
  /\ UNCHANGED <<status, charge, used, s3, request, task, reaper, told, ghost>>

(* and the ceiling of a processing row, which none takes back              *)
CeilingPasses ==
  /\ status = "processing"
  /\ age # "expired"
  /\ age' = "expired"
  /\ UNCHANGED <<status, charge, used, s3, request, task, reaper, told, ghost>>

ReapMove(r, from, to) == reap[r] = from /\ reap' = [reap EXCEPT ![r] = to]

ReapKeeps == UNCHANGED <<charge, age, used, open, outputs, request, task, sweep, ghost>>

ReapReadStalled(r) ==  \* mutant: only the stall counts, not the ceiling
  /\ status \in InFlight
  /\ age = "overdue"
  /\ ReapMove(r, "idle", status)
  /\ ReapKeeps /\ UNCHANGED <<status, zip, told>>

(* One pass reads the overdue rows                                         *)
ReapRead(r) ==
  /\ status \in InFlight
  /\ age # "fresh"
  /\ ReapMove(r, "idle", status)
  /\ ReapKeeps /\ UNCHANGED <<status, zip, told>>

ReapClaimUnguarded(r) ==  \* mutant: the rows that were read are failed by id
  /\ reap[r] \in InFlight
  /\ ReapMove(r, reap[r], IF status \in Existing THEN "tell" ELSE "idle")
  /\ status' = IF status \in Existing THEN "failed" ELSE status
  /\ ReapKeeps /\ UNCHANGED <<zip, told>>

(* claimAndNotify: only the pass whose guarded flip counts goes on         *)
ReapClaim(r) ==
  /\ reap[r] \in InFlight
  /\ ReapMove(r, reap[r], IF status = reap[r] THEN "tell" ELSE "idle")
  /\ status' = IF status = reap[r] THEN "failed" ELSE status
  /\ ReapKeeps /\ UNCHANGED <<zip, told>>

(* The ZIP goes and the owner is told, each at best                        *)
ReapTell(r) ==
  /\ ReapMove(r, "tell", "idle")
  /\ zip' \in {zip, FALSE}
  /\ told' \in {told, Append(told, "failed")}
  /\ ReapKeeps /\ UNCHANGED status

-----------------------------------------------------------------------------
(* sweepAbandonedTopoUploads: the objects first, then the guarded delete   *)

SweepMove(s, from, to) == sweep[s] = from /\ sweep' = [sweep EXCEPT ![s] = to]

SweepKeeps == UNCHANGED <<age, used, request, task, reap, told, ghost>>

SweepRead(s) ==
  /\ status = "uploading"
  /\ age # "fresh"
  /\ SweepMove(s, "idle", "abort")
  /\ SweepKeeps /\ UNCHANGED <<status, charge, s3>>

SweepAbort(s) ==
  /\ SweepMove(s, "abort", "purge")
  /\ AbortUploads
  /\ SweepKeeps /\ UNCHANGED <<status, charge>>

SweepPurge(s) ==
  /\ SweepMove(s, "purge", "row")
  /\ DeletePrefixes
  /\ SweepKeeps /\ UNCHANGED <<status, charge>>

SweepRow(s) ==
  /\ SweepMove(s, "row", "idle")
  /\ status' = IF status = "uploading" THEN "gone" ELSE status
  /\ SweepKeeps /\ UNCHANGED <<charge, s3>>

(* The API instance dies amid a pass, or a statement of it throws          *)
PassDropped ==
  /\ \/ /\ \E r \in Reapers : /\ reap[r] # "idle"
                              /\ reap' = [reap EXCEPT ![r] = "idle"]
        /\ UNCHANGED sweep
     \/ /\ \E s \in Sweeps : /\ sweep[s] # "idle"
                             /\ sweep' = [sweep EXCEPT ![s] = "idle"]
        /\ UNCHANGED reap
  /\ UNCHANGED <<row, used, s3, request, task, told, ghost>>

-----------------------------------------------------------------------------
Joining(j) == ownUploadingJob(j) \/ joinTopoUpload(j)

Starting(h) ==
  \/ StartCheck(h) \/ StartFlip(h)
  \/ launchFargateTask(h) \/ StartPersist(h) \/ StartFail(h)

Deleting(d) ==
  \/ DeleteRead(d) \/ DeleteCancel(d) \/ DeleteFresh(d)
  \/ DeleteAbort(d) \/ DeletePurge(d) \/ DeleteRow(d)

Working(h) ==
  \/ TaskClaim(h) \/ TaskFetch(h) \/ TaskUpload(h) \/ TaskComplete(h)
  \/ TaskFail(h) \/ TaskErase(h) \/ TaskTell(h)
  \/ Heartbeat(h) \/ TaskDies(h)

Reaping(r) == ReapRead(r) \/ ReapClaim(r) \/ ReapTell(r)

Sweeping(s) == SweepRead(s) \/ SweepAbort(s) \/ SweepPurge(s) \/ SweepRow(s)

Next ==
  \/ Submit \/ Dropped \/ DeadlinePasses \/ CeilingPasses \/ PassDropped
  \/ \E j \in Joins : Joining(j)
  \/ \E h \in Starts : Starting(h) \/ Working(h)
  \/ \E d \in Deletes : Deleting(d)
  \/ \E r \in Reapers : Reaping(r)
  \/ \E s \in Sweeps : Sweeping(s)

Spec == Init /\ [][Next]_vars

(* Time passes, the reaper runs on its interval, and a pass that is cut    *)
(* short is followed by another: some pass in the end gets to its claim.   *)
FairSpec ==
  /\ Spec
  /\ WF_vars(DeadlinePasses) /\ WF_vars(CeilingPasses)
  /\ \A r \in Reapers : WF_vars(ReapRead(r)) /\ SF_vars(ReapClaim(r))

-----------------------------------------------------------------------------
(* Properties                                                              *)

RowOK ==
  /\ status \in {"none", "gone"} \union Existing
  /\ charge \in {0, Bytes}
  /\ age \in {"fresh", "overdue", "expired"}
  /\ used \in Nat

S3OK == open \in BOOLEAN /\ zip \in BOOLEAN /\ outputs \in BOOLEAN

RequestsOK ==
  /\ start \in [Starts -> StartPlaces]
  /\ join \in [Joins -> {"idle", "joining", "done"}]
  /\ del \in [Deletes -> DelPlaces]
  /\ fresh \in [Deletes -> {0, Bytes}]

WorkersOK ==
  /\ task \in [Starts -> TaskPlaces]
  /\ reap \in [Reapers -> ReapPlaces]
  /\ sweep \in [Sweeps -> SweepPlaces]

ToldOK == told \in Seq(Terminal)
GhostOK == early \subseteq Requests /\ orphaned \in BOOLEAN

TypeOK == RowOK /\ S3OK /\ RequestsOK /\ WorkersOK /\ ToldOK /\ GhostOK

(* The account is charged exactly for the outputs of the row it has:       *)
(* a completion, a cancellation, two deletes and a reaper that race never  *)
(* charge twice, keep a charge for a row that is gone or give one back     *)
(* that was never made.                                                    *)
ChargedForWhatIsThere == used = Elsewhere + charge

(* A completed map has its outputs until its owner deletes it: no task     *)
(* that lost its job, no reaper and no sweep removes them.                 *)
OutputsKept ==
  status = "complete" => outputs \/ \E d \in Deletes : del[d] # "idle"

(* Once a job is gone and whoever was at work on it has stopped, S3 holds  *)
(* nothing of it, unless a task was killed on what it had uploaded.        *)
Quiet ==
  /\ \A h \in Starts : task[h] \in {"none", "ended"}
  /\ \A j \in Joins : join[j] # "joining"

NothingLeft ==
  status = "gone" /\ Quiet => ~open /\ ~zip /\ (outputs => orphaned)

(* The whole of it is the lifecycle the owner may rely on                  *)
Lifecycle == INSTANCE TopoJobLifecycle
               WITH Bytes <- Bytes, Elsewhere <- Elsewhere,
                    status <- status, used <- used, told <- told
KeepsLifecycle == Lifecycle!Spec

(* A job that was started settles, whatever became of its task             *)
Settles == (status \in InFlight) ~> (status \in Terminal \union {"gone"})

=============================================================================
