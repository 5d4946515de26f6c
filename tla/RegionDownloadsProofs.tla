------------------------ MODULE RegionDownloadsProofs ------------------------
(***************************************************************************)
(* Proofs about RegionDownloads, for any downloads, maps and number of     *)
(* kills: its types, that the queue never stalls, that a wiped phone stays *)
(* wiped, that what is registered is on disk and what is whole is listed,  *)
(* and that an update loses no map.                                        *)
(***************************************************************************)
EXTENDS RegionDownloads, TLAPS

(* The types, by variable                                                  *)
JobType == job \in [Ids -> [state : JobStates, update : BOOLEAN]]

Stops == {"none", "pause", "cancel"}
Outcomes == {"none", "cancelled", "wait", "stalled", "failed", "ready"}

RunType ==
  run \in [at : RunPlaces, id : Ids \union {None}, update : BOOLEAN, stop : Stops,
           holes : BOOLEAN, drop : SUBSET Ids, old : Ids \union {None}, outcome : Outcomes]

DiskType ==
  /\ file \in [Ids -> {"none", "part", "whole"}]
  /\ row \subseteq Ids
  /\ removing \in [Ids -> {"no", "files", "row", "file"}]

RestType ==
  /\ wiping \in BOOLEAN
  /\ kills \in 0..MaxKills
  /\ owed \subseteq Maps /\ demoted \subseteq Maps
  /\ cut \subseteq Ids
  /\ clean \in BOOLEAN

(* The drain is at a job exactly while it works on one; it drops copies    *)
(* only after a swap, and the one whose file goes has no row any more.     *)
RunOK ==
  /\ run.id = None <=> run.at \in {"idle", "next"}
  /\ run.id = None => run.stop = "none"
  /\ run.drop # {} => run.at \in {"row", "file"}
  /\ run.old # None <=> run.at = "file"
  /\ run.old \notin row

(* The job in hand says that it downloads, unless the wipe forgot it.      *)
InHandOK ==
  \A i \in Ids : Running(i) =>
    \/ job[i] = [state |-> "downloading", update |-> run.update]
    \/ job[i].state = "none" /\ wiping

(* A phone that is being wiped has no job, and a clean one no run either.  *)
WipeOK ==
  /\ wiping => \A i \in Ids : job[i].state = "none"
  /\ clean => run.at = "idle" /\ \A i \in Ids : job[i].state = "none"

(* What is being removed is in nobody's hands: its job is gone or done.    *)
RemovalOK ==
  \A i \in Ids :
    /\ removing[i] # "no" => ~Running(i) /\ job[i].state \in {"none", "ready"}
    /\ removing[i] = "files" => job[i].state = "none"
    /\ removing[i] = "file" => i \notin row
    /\ removing[i] = "row" /\ job[i].state # "none" /\ i \in row \ cut => file[i] # "none"

(* A run is registered before its marker goes, and whole before the swap.  *)
RegisterOK ==
  /\ run.at \in {"finalize", "swap"} => run.id \in row
  /\ run.at = "swap" => file[run.id] = "whole"
  /\ run.at \in {"register", "finalize"} /\ Tile(run.id) => file[run.id] # "none"

(* A clip is registered only by the run that has it whole, which can fail  *)
(* it no more.                                                             *)
ClipOK ==
  /\ run.id # None /\ run.holes => Tile(run.id)
  /\ \A i \in row : ~Tile(i) =>
       IF Running(i)
       THEN run.at = "swap" \/ (run.at \in {"row", "file", "finish"} /\ run.outcome = "ready")
       ELSE job[i].state \in {"none", "ready"}

(* A whole tile file without a row is taken away by someone, who knows it  *)
(* by its file.                                                            *)
LostOK ==
  \A i \in Ids \ (row \union cut) : Tile(i) /\ file[i] = "whole" =>
    removing[i] \in {"files", "file"} \/ run.old = i

(* A map that was saved has a copy that nobody is at but the run that has  *)
(* just put it in the place of the others, and every run of it is an       *)
(* update.                                                                 *)
Keeps(i) ==
  /\ i \in row \ run.drop
  /\ file[i] = "whole"
  /\ removing[i] = "no"
  /\ IF Running(i)
     THEN run.at \in {"row", "file", "finish"} /\ run.outcome = "ready"
     ELSE job[i].state \in {"none", "ready"}

Kept(m) ==
  /\ \E i \in IdsOf(m) : Keeps(i)
  /\ \A i \in IdsOf(m) : /\ job[i].state # "none" => job[i].update
                         /\ Running(i) => run.update

OwedOK == \A m \in owed \ demoted : Kept(m)

(* These are the types.                                                    *)
LEMMA Types == TypeOK <=> JobType /\ RunType /\ DiskType /\ RestType
BY DEF TypeOK, JobType, RunType, DiskType, RestType, Stops, Outcomes

(* Jobs that may join the queue: in nobody's hands, and not registered but *)
(* for a tile file that a failed run left registered with its marker.      *)
Joinable(ids) ==
  \A i \in ids : /\ job[i].state = "none" /\ ~Running(i) /\ removing[i] = "no"
                 /\ file[i] # "whole"
                 /\ i \in row => Tile(i) /\ file[i] = "part"

(* What a user does puts such jobs in the queue, takes some out, or is of  *)
(* one of the other kinds.                                                 *)
LEMMA UserSteps ==
  ASSUME User
  PROVE  \/ /\ ~wiping
            /\ \E ids \in SUBSET Ids, update \in BOOLEAN : Joinable(ids) /\ Enqueue(ids, update)
            /\ \/ demoted' = demoted
               \/ demoted' \subseteq demoted \union {MapOf[i] : i \in Ids}
         \/ DiscardUnfinished
         \/ \E ids \in SUBSET Live : Cancel(ids)
         \/ \E i \in Ids : resumeRegionDownload(i) \/ pauseRegionDownload(i) \/ DeleteSaved(i)
<1>1. CASE FirstSave
  BY <1>1 DEF FirstSave, Joinable, Fresh, Live
<1>2. CASE StartUpdate
  <2>1. PICK ids \in SUBSET Fresh : Enqueue(ids, TRUE)
    BY <1>2 DEF StartUpdate
  <2>2. ids \in SUBSET Ids /\ Joinable(ids)
    BY DEF Joinable, Fresh, Live
  <2> QED BY <1>2, <2>1, <2>2 DEF StartUpdate
<1>3. CASE ResumeUnfinished
  <2>1. Joinable(Unfinished) /\ Unfinished \in SUBSET Ids
    BY DEF Joinable, Unfinished, Live
  <2>2. demoted' \subseteq demoted \union {MapOf[i] : i \in Ids}
    BY <1>3 DEF ResumeUnfinished, Unfinished
  <2> QED BY <1>3, <2>1, <2>2 DEF ResumeUnfinished
<1>4. CASE stopRegionGroup
  <2> DEFINE ids == IF \E i \in Live : job[i].update THEN Live \ In("ready") ELSE Live
  <2>1. ids \in SUBSET Live
    OBVIOUS
  <2>2. Cancel(ids)
    BY <1>4 DEF stopRegionGroup
  <2> HIDE DEF ids
  <2> QED BY <2>1, <2>2
<1>5. CASE CancelNotice
  <2>1. PICK waiting \in SUBSET In("wait") :
           Cancel(In("queued") \union In("downloading") \union waiting)
    BY <1>5 DEF CancelNotice
  <2>2. In("queued") \union In("downloading") \union waiting \in SUBSET Live
    BY DEF In, Live
  <2> QED BY <2>1, <2>2
<1>6. CASE \E i \in Ids : StopJob(i)
  <2>1. PICK i \in Ids : i \in Live /\ Cancel({i})
    BY <1>6 DEF StopJob
  <2>2. {i} \in SUBSET Live
    BY <2>1
  <2> QED BY <2>1, <2>2
<1> QED BY <1>1, <1>2, <1>3, <1>4, <1>5, <1>6 DEF User

(* The older copies of the map of the run                                  *)
Older == (row \cap IdsOf(MapOf[run.id])) \ {run.id}

(* A swap drops the run's own copy, full of holes, or the older ones.      *)
LEMMA SwapSteps ==
  ASSUME Swap
  PROVE  \/ /\ Older # {} /\ run.holes
            /\ run' = [run EXCEPT !.at = AfterDrop({run.id}), !.drop = {run.id},
                                  !.outcome = "failed", !.holes = FALSE]
         \/ /\ Older = {} \/ ~run.holes
            /\ run' = [run EXCEPT !.at = AfterDrop(Older), !.drop = Older,
                                  !.outcome = "ready", !.holes = FALSE]
<1>1. CASE Older # {} /\ run.holes
  <2>1. settleUpdate = [drop |-> {run.id}, outcome |-> "failed"]
    BY <1>1 DEF settleUpdate, Older
  <2>2. settleUpdate.drop = {run.id} /\ settleUpdate.outcome = "failed"
    BY <2>1
  <2> QED BY <1>1, <2>2, Zenon DEF Swap
<1>2. CASE ~(Older # {} /\ run.holes)
  <2>1. settleUpdate = [drop |-> Older, outcome |-> "ready"]
    BY <1>2 DEF settleUpdate, Older
  <2>2. settleUpdate.drop = Older /\ settleUpdate.outcome = "ready"
    BY <2>1
  <2> QED BY <1>2, <2>2, Zenon DEF Swap
<1> QED BY <1>1, <1>2

(* A copy to drop loses its row, or has lost it already.                   *)
LEMMA DropRowSteps ==
  ASSUME DropRow
  PROVE  \E i \in run.drop :
           /\ row' = row \ {i}
           /\ \/ i \in row /\ run' = [run EXCEPT !.at = "file", !.drop = run.drop \ {i},
                                                 !.old = i]
              \/ i \notin row /\ run' = [run EXCEPT !.at = AfterDrop(run.drop \ {i}),
                                                    !.drop = run.drop \ {i}]
<1>1. PICK i \in run.drop :
        /\ row' = row \ {i}
        /\ run' = IF i \in row THEN [run EXCEPT !.at = "file", !.drop = run.drop \ {i},
                                                !.old = i]
                  ELSE [run EXCEPT !.at = AfterDrop(run.drop \ {i}), !.drop = run.drop \ {i}]
  BY Zenon DEF DropRow
<1>2. CASE i \in row
  BY <1>1, <1>2, Zenon
<1>3. CASE i \notin row
  BY <1>1, <1>3, Zenon
<1> QED BY <1>2, <1>3

(* So a run that drops rows goes on to the file, to the next one or to its *)
(* end, and nothing else of it changes.                                    *)
LEMMA DropRowEnds ==
  ASSUME RunType, DropRow
  PROVE  /\ run.at = "row"
         /\ UNCHANGED <<job, file, removing, wiping, kills, owed, demoted, cut, clean>>
         /\ run'.id = run.id /\ run'.update = run.update /\ run'.stop = run.stop
         /\ run'.holes = run.holes /\ run'.outcome = run.outcome
         /\ \E i \in run.drop :
              /\ row' = row \ {i}
              /\ run'.drop = run.drop \ {i}
              /\ \/ i \in row /\ run'.at = "file" /\ run'.old = i
                 \/ /\ i \notin row /\ run'.old = run.old
                    /\ run'.at = IF run'.drop = {} THEN "finish" ELSE "row"
<1>1. run.at = "row"
      /\ UNCHANGED <<job, file, removing, wiping, kills, owed, demoted, cut, clean>>
  BY Zenon DEF DropRow, RunKeeps, ghost
<1>2. PICK i \in run.drop :
        /\ row' = row \ {i}
        /\ \/ i \in row /\ run' = [run EXCEPT !.at = "file", !.drop = run.drop \ {i},
                                              !.old = i]
           \/ i \notin row /\ run' = [run EXCEPT !.at = AfterDrop(run.drop \ {i}),
                                                 !.drop = run.drop \ {i}]
  BY DropRowSteps, Zenon
<1>3. CASE i \in row
  <2>1. run' = [run EXCEPT !.at = "file", !.drop = run.drop \ {i}, !.old = i]
    BY <1>2, <1>3, Zenon
  <2>2. /\ run'.id = run.id /\ run'.update = run.update /\ run'.stop = run.stop
        /\ run'.holes = run.holes /\ run'.outcome = run.outcome
        /\ run'.drop = run.drop \ {i} /\ run'.at = "file" /\ run'.old = i
    BY <2>1 DEF RunType
  <2> QED BY <1>1, <1>2, <1>3, <2>2, Zenon
<1>4. CASE i \notin row
  <2> DEFINE left == run.drop \ {i}
  <2>1. run' = [run EXCEPT !.at = AfterDrop(left), !.drop = left]
    BY <1>2, <1>4, Zenon
  <2> HIDE DEF left
  <2>2. /\ run'.id = run.id /\ run'.update = run.update /\ run'.stop = run.stop
        /\ run'.holes = run.holes /\ run'.outcome = run.outcome
        /\ run'.drop = left /\ run'.at = AfterDrop(left) /\ run'.old = run.old
    BY <2>1 DEF RunType
  <2>3. run'.at = IF run'.drop = {} THEN "finish" ELSE "row"
    BY <2>2 DEF AfterDrop
  <2> QED BY <1>1, <1>2, <1>4, <2>2, <2>3, Zenon DEF left
<1> QED BY <1>3, <1>4

(* The initial state has the types.                                        *)
LEMMA InitTypes == Init => TypeOK
<1> SUFFICES ASSUME Init PROVE TypeOK
  OBVIOUS
<1> USE RegionAssumption DEF Init
<1>1. JobType
  BY DEF JobType, JobStates, NoJob
<1>2. RunType
  BY DEF RunType, NoRun, RunPlaces, Stops, Outcomes
<1>3. DiskType
  BY DEF DiskType
<1>4. RestType
  <2>1. kills \in 0..MaxKills
    OBVIOUS
  <2> QED BY <2>1, Zenon DEF RestType
<1> QED BY <1>1, <1>2, <1>3, <1>4, Types

(* Every step keeps the types of the queue,                                *)
LEMMA JobTypes == TypeOK /\ [Next]_vars => JobType'
<1> SUFFICES ASSUME TypeOK, [Next]_vars PROVE JobType'
  OBVIOUS
<1>0. JobType /\ RunType
  BY Types
<1> USE <1>0 DEF JobType, JobStates, NoJob
<1>1. CASE User
  <2>1. ASSUME NEW ids \in SUBSET Ids, NEW update \in BOOLEAN, Enqueue(ids, update)
        PROVE  JobType'
    BY <2>1 DEF Enqueue
  <2>2. ASSUME NEW ids \in SUBSET Live, Cancel(ids) PROVE JobType'
    BY <2>2 DEF Cancel
  <2>3. ASSUME NEW i \in Ids, resumeRegionDownload(i) PROVE JobType'
    BY <2>3 DEF resumeRegionDownload
  <2>4. ASSUME NEW i \in Ids, pauseRegionDownload(i) \/ DeleteSaved(i) PROVE JobType'
    BY <2>4 DEF pauseRegionDownload, DeleteSaved
  <2>5. CASE DiscardUnfinished
    BY <2>5 DEF DiscardUnfinished
  <2> QED BY <1>1, UserSteps, <2>1, <2>2, <2>3, <2>4, <2>5
<1>2. CASE Drain
  <2>1. CASE Pick
    BY <2>1 DEF Pick, In
  <2>2. CASE Downloaded \/ Cancelled \/ Parked \/ Failed \/ Register \/ Finalize
    BY <2>2 DEF Downloaded, Cancelled, Parked, Failed, Register, Finalize
  <2>3. CASE Swap \/ DropRow \/ DropFile \/ SwapFails
    BY <2>3 DEF Swap, DropRow, DropFile, SwapFails
  <2>4. CASE Finish
    <3>1. CASE job' = [job EXCEPT ![run.id] = NoJob]
      BY <3>1
    <3>2. CASE job' = job
      BY <3>2
    <3>3. CASE run.outcome # "cancelled" /\ job' = [job EXCEPT ![run.id].state = run.outcome]
      <4>1. run.outcome \in JobStates
        BY <3>3 DEF RunType, Outcomes
      <4> QED BY <3>3, <4>1
    <3> QED BY <2>4, <3>1, <3>2, <3>3 DEF Finish
  <2> QED BY <1>2, <2>1, <2>2, <2>3, <2>4 DEF Drain
<1>3. CASE Removal
  BY <1>3 DEF Removal, DeleteFiles, DeleteRow, DeleteFile, RemovalKeeps
<1>4. CASE ConnectionBack
  BY <1>4 DEF ConnectionBack
<1>5. CASE sweepOrphanFiles \/ Wipe \/ UNCHANGED vars
  BY <1>5 DEF sweepOrphanFiles, Wipe, vars
<1>6. CASE cancelAllRegionDownloads
  BY <1>6 DEF cancelAllRegionDownloads
<1>7. CASE Kill
  BY <1>7 DEF Kill
<1> QED BY <1>1, <1>2, <1>3, <1>4, <1>5, <1>6, <1>7 DEF Next

(* of the run,                                                             *)
LEMMA RunTypes == TypeOK /\ RunOK /\ [Next]_vars => RunType'
<1> SUFFICES ASSUME TypeOK, RunOK, [Next]_vars PROVE RunType'
  OBVIOUS
<1>0. JobType /\ RunType /\ DiskType
  BY Types
<1> USE <1>0 DEF RunType, RunPlaces, Stops, Outcomes, NoRun
<1>1. CASE User
  <2>1. ASSUME NEW ids \in SUBSET Ids, NEW update \in BOOLEAN, Enqueue(ids, update)
        PROVE  RunType'
    BY <2>1 DEF Enqueue, Pumped
  <2>2. ASSUME NEW ids \in SUBSET Live, Cancel(ids) PROVE RunType'
    BY <2>2 DEF Cancel
  <2>3. ASSUME NEW i \in Ids, resumeRegionDownload(i) PROVE RunType'
    BY <2>3 DEF resumeRegionDownload, Pumped
  <2>4. ASSUME NEW i \in Ids, pauseRegionDownload(i) \/ DeleteSaved(i) PROVE RunType'
    BY <2>4 DEF pauseRegionDownload, DeleteSaved
  <2>5. CASE DiscardUnfinished
    BY <2>5 DEF DiscardUnfinished
  <2> QED BY <1>1, UserSteps, <2>1, <2>2, <2>3, <2>4, <2>5
<1>2. CASE Drain
  <2> USE DEF EndRun
  <2>1. CASE Pick
    <3>1. CASE run' = NoRun
      BY <3>1
    <3>2. ASSUME NEW i \in Ids,
                 run' = [NoRun EXCEPT !.at = "work", !.id = i, !.update = job[i].update]
          PROVE  RunType'
      <4>1. job[i].update \in BOOLEAN
        BY DEF JobType
      <4> QED BY <3>2, <4>1
    <3> QED BY <2>1, <3>1, <3>2 DEF Pick, In
  <2>2. CASE Downloaded
    <3>1. PICK holes \in BOOLEAN : run' = [run EXCEPT !.at = "register", !.holes = holes]
      BY <2>2 DEF Downloaded
    <3> QED BY <3>1
  <2>3. CASE Parked
    <3>1. PICK why \in {"wait", "stalled"} : run' = [run EXCEPT !.at = "finish", !.outcome = why]
      BY <2>3 DEF Parked
    <3> QED BY <3>1
  <2>4. CASE Cancelled \/ Failed \/ Register \/ Finalize
    <3>1. CASE Cancelled
      BY <3>1 DEF Cancelled
    <3>2. CASE Failed
      BY <3>2 DEF Failed
    <3>3. CASE Register
      BY <3>3 DEF Register
    <3>4. CASE Finalize
      BY <3>4 DEF Finalize
    <3> QED BY <2>4, <3>1, <3>2, <3>3, <3>4
  <2>5. CASE Swap
    <3>1. Older \in SUBSET Ids /\ run.id \in Ids
      BY <2>5 DEF Older, IdsOf, Swap, RunOK
    <3>2. PICK drop \in SUBSET Ids, outcome \in {"failed", "ready"} :
             run' = [run EXCEPT !.at = AfterDrop(drop), !.drop = drop, !.outcome = outcome,
                                !.holes = FALSE]
      BY <2>5, <3>1, SwapSteps, Zenon
    <3>3. AfterDrop(drop) \in RunPlaces
      BY DEF AfterDrop
    <3> HIDE DEF Older
    <3> QED BY <3>2, <3>3
  <2>6. CASE DropRow
    <3>1. ASSUME NEW i \in Ids,
                 run' = [run EXCEPT !.at = "file", !.drop = run.drop \ {i}, !.old = i]
          PROVE  RunType'
      BY <3>1
    <3>2. ASSUME NEW left \in SUBSET Ids,
                 run' = [run EXCEPT !.at = AfterDrop(left), !.drop = left]
          PROVE  RunType'
      BY <3>2 DEF AfterDrop
    <3>3. run.drop \in SUBSET Ids
      OBVIOUS
    <3>4. \A i \in run.drop : i \in Ids /\ run.drop \ {i} \in SUBSET Ids
      BY <3>3, Zenon
    <3> QED BY <2>6, <3>1, <3>2, <3>4, DropRowSteps, Zenon
  <2>7. CASE DropFile
    BY <2>7 DEF DropFile, AfterDrop
  <2>8. CASE SwapFails
    BY <2>8 DEF SwapFails
  <2>9. CASE Finish
    BY <2>9 DEF Finish
  <2> QED BY <1>2, <2>1, <2>2, <2>3, <2>4, <2>5, <2>6, <2>7, <2>8, <2>9 DEF Drain
<1>3. CASE Removal
  BY <1>3 DEF Removal, DeleteFiles, DeleteRow, DeleteFile, RemovalKeeps
<1>4. CASE ConnectionBack
  BY <1>4 DEF ConnectionBack, Pumped
<1>5. CASE sweepOrphanFiles \/ Wipe \/ UNCHANGED vars
  BY <1>5 DEF sweepOrphanFiles, Wipe, vars
<1>6. CASE cancelAllRegionDownloads
  BY <1>6 DEF cancelAllRegionDownloads
<1>7. CASE Kill
  BY <1>7 DEF Kill
<1> QED BY <1>1, <1>2, <1>3, <1>4, <1>5, <1>6, <1>7 DEF Next

(* of what is on disk                                                      *)
LEMMA DiskTypes == TypeOK /\ RunOK /\ [Next]_vars => DiskType'
<1> SUFFICES ASSUME TypeOK, RunOK, [Next]_vars PROVE DiskType'
  OBVIOUS
<1>0. DiskType /\ RunType
  BY Types
<1> USE <1>0 DEF DiskType, disk
<1>1. CASE User
  <2>1. ASSUME NEW ids \in SUBSET Ids, NEW update \in BOOLEAN, Enqueue(ids, update)
        PROVE  DiskType'
    BY <2>1 DEF Enqueue
  <2>2. ASSUME NEW ids \in SUBSET Live, Cancel(ids) PROVE DiskType'
    BY <2>2 DEF Cancel, Abandoned
  <2>3. ASSUME NEW i \in Ids, resumeRegionDownload(i) \/ pauseRegionDownload(i)
        PROVE  DiskType'
    BY <2>3 DEF resumeRegionDownload, pauseRegionDownload
  <2>4. ASSUME NEW i \in Ids, DeleteSaved(i) PROVE DiskType'
    BY <2>4 DEF DeleteSaved
  <2>5. CASE DiscardUnfinished
    BY <2>5 DEF DiscardUnfinished
  <2> QED BY <1>1, UserSteps, <2>1, <2>2, <2>3, <2>4, <2>5
<1>2. CASE Drain
  <2> USE DEF Written
  <2>1. CASE Pick \/ Swap \/ SwapFails
    BY <2>1 DEF Pick, Swap, SwapFails
  <2>2. CASE Downloaded \/ Cancelled \/ Finalize \/ DropFile
    BY <2>2 DEF Downloaded, Cancelled, Finalize, DropFile
  <2>3. CASE Parked
    BY <2>3 DEF Parked
  <2>4. CASE Failed
    <3>1. PICK left \in {file[run.id], "part", "none", "whole"} :
             file' = [file EXCEPT ![run.id] = left]
      BY <2>4 DEF Failed
    <3>2. run.id \in Ids
      BY <2>4 DEF Failed, RunOK, RunType
    <3> QED BY <2>4, <3>1, <3>2 DEF Failed
  <2>5. CASE Register
    <3>1. run.id \in Ids
      BY <2>5 DEF Register, RunOK, RunType
    <3> QED BY <2>5, <3>1 DEF Register
  <2>6. CASE DropRow
    BY <2>6 DEF DropRow
  <2>7. CASE Finish
    BY <2>7 DEF Finish, Abandoned
  <2> QED BY <1>2, <2>1, <2>2, <2>3, <2>4, <2>5, <2>6, <2>7 DEF Drain
<1>3. CASE Removal
  BY <1>3 DEF Removal, DeleteFiles, DeleteRow, DeleteFile
<1>4. CASE ConnectionBack
  BY <1>4 DEF ConnectionBack
<1>5. CASE sweepOrphanFiles \/ cancelAllRegionDownloads \/ Wipe \/ UNCHANGED vars
  BY <1>5 DEF sweepOrphanFiles, cancelAllRegionDownloads, Wipe, vars
<1>6. CASE Kill
  BY <1>6 DEF Kill, Written
<1> QED BY <1>1, <1>2, <1>3, <1>4, <1>5, <1>6 DEF Next

(* and of the rest.                                                        *)
LEMMA RestTypes == TypeOK /\ RunOK /\ [Next]_vars => RestType'
<1> SUFFICES ASSUME TypeOK, RunOK, [Next]_vars PROVE RestType'
  OBVIOUS
<1>0. DiskType /\ RunType /\ RestType
  BY Types
<1> USE <1>0, RegionAssumption DEF RestType, ghost
<1>1. CASE User
  <2>1. ASSUME NEW ids \in SUBSET Ids, NEW update \in BOOLEAN, Enqueue(ids, update),
               demoted' = demoted \/ demoted' \subseteq demoted \union {MapOf[i] : i \in Ids}
        PROVE  RestType'
    <3>1. Saved \subseteq Maps
      BY DEF Saved
    <3>2. owed' \subseteq Maps /\ cut' \subseteq Ids /\ clean' = FALSE
          /\ UNCHANGED <<wiping, kills>>
      BY <2>1, <3>1 DEF Enqueue
    <3>3. demoted' \subseteq Maps
      BY <2>1
    <3> QED BY <3>2, <3>3, Zenon
  <2>2. ASSUME NEW ids \in SUBSET Live, Cancel(ids) PROVE RestType'
    BY <2>2 DEF Cancel
  <2>3. ASSUME NEW i \in Ids, resumeRegionDownload(i) \/ pauseRegionDownload(i)
        PROVE  RestType'
    BY <2>3 DEF resumeRegionDownload, pauseRegionDownload
  <2>4. ASSUME NEW i \in Ids, DeleteSaved(i) PROVE RestType'
    BY <2>4 DEF DeleteSaved
  <2>5. CASE DiscardUnfinished
    BY <2>5 DEF DiscardUnfinished, Unfinished
  <2> QED BY <1>1, UserSteps, <2>1, <2>2, <2>3, <2>4, <2>5
<1>2. CASE Drain
  <2> USE DEF RunKeeps
  <2>1. CASE Cancelled
    BY <2>1 DEF Cancelled, DiskType
  <2>2. CASE ~Cancelled
    BY <1>2, <2>2 DEF Drain, Pick, Downloaded, Parked, Failed, Register, Finalize, Swap,
                      DropRow, DropFile, SwapFails, Finish
  <2> QED BY <2>1, <2>2
<1>3. CASE Removal
  BY <1>3 DEF Removal, DeleteFiles, DeleteRow, DeleteFile, RemovalKeeps
<1>4. CASE ConnectionBack
  BY <1>4 DEF ConnectionBack
<1>5. CASE sweepOrphanFiles \/ cancelAllRegionDownloads \/ Wipe \/ UNCHANGED vars
  BY <1>5 DEF sweepOrphanFiles, cancelAllRegionDownloads, Wipe, vars
<1>6. CASE Kill
  <2>1. cut' \subseteq Ids
    BY <1>6 DEF Kill, RunType
  <2>2. kills' \in 0..MaxKills
    BY <1>6 DEF Kill
  <2> QED BY <1>6, <2>1, <2>2, Zenon DEF Kill
<1> QED BY <1>1, <1>2, <1>3, <1>4, <1>5, <1>6 DEF Next

(* A step of a run under way                                               *)
InRun ==
  \/ Downloaded \/ Cancelled \/ Parked \/ Failed \/ Register \/ Finalize
  \/ Swap \/ DropRow \/ DropFile \/ SwapFails

(* Between its first and its last step a run touches files and rows, and   *)
(* leaves the queue and what is asked of it alone.                         *)
LEMMA RunUnderWay ==
  ASSUME RunType, InRun
  PROVE  /\ UNCHANGED <<job, removing, wiping, kills, owed, demoted, clean>>
         /\ run.at \notin {"idle", "next", "finish"} /\ run'.at \notin {"idle", "next"}
         /\ run'.id = run.id /\ run'.update = run.update /\ run'.stop = run.stop
<1> USE DEF RunType, RunKeeps, ghost, disk, EndRun
<1>1. CASE Downloaded
  BY <1>1 DEF Downloaded
<1>2. CASE Cancelled
  BY <1>2 DEF Cancelled
<1>3. CASE Parked
  BY <1>3 DEF Parked
<1>4. CASE Failed
  BY <1>4 DEF Failed
<1>5. CASE Register \/ Finalize
  BY <1>5 DEF Register, Finalize
<1>6. CASE Swap
  <2>1. AfterDrop(settleUpdate.drop) \notin {"idle", "next"}
    BY DEF AfterDrop
  <2> QED BY <1>6, <2>1 DEF Swap
<1>7. CASE DropRow
  BY <1>7, DropRowEnds
<1>8. CASE DropFile
  BY <1>8 DEF DropFile, AfterDrop
<1>9. CASE SwapFails
  BY <1>9 DEF SwapFails
<1> QED BY <1>1, <1>2, <1>3, <1>4, <1>5, <1>6, <1>7, <1>8, <1>9 DEF InRun

(* The drain takes a queued job, or ends for want of one.                  *)
LEMMA PickSteps ==
  ASSUME JobType, Pick
  PROVE  /\ run.at = "next"
         /\ UNCHANGED <<disk, wiping, kills, ghost>>
         /\ run'.drop = {} /\ run'.old = None /\ run'.stop = "none" /\ ~run'.holes
         /\ \/ run'.id = None /\ run'.at = "idle" /\ In("queued") = {} /\ job' = job
            \/ /\ run'.id \in Ids /\ run'.at = "work"
               /\ job[run'.id] = [state |-> "queued", update |-> run'.update]
               /\ job' = [job EXCEPT ![run'.id] =
                            [state |-> "downloading", update |-> run'.update]]
<1>1. run.at = "next" /\ UNCHANGED <<disk, wiping, kills, ghost>>
  BY DEF Pick, RunKeeps
<1>2. CASE In("queued") = {} /\ run' = NoRun /\ job' = job
  BY <1>1, <1>2 DEF NoRun
<1>3. ASSUME NEW i \in In("queued"),
             run' = [NoRun EXCEPT !.at = "work", !.id = i, !.update = job[i].update],
             job' = [job EXCEPT ![i].state = "downloading"]
      PROVE  /\ run'.drop = {} /\ run'.old = None /\ run'.stop = "none" /\ ~run'.holes
             /\ run'.id \in Ids /\ run'.at = "work"
             /\ job[run'.id] = [state |-> "queued", update |-> run'.update]
             /\ job' = [job EXCEPT ![run'.id] =
                          [state |-> "downloading", update |-> run'.update]]
  <2>1. i \in Ids /\ job[i].state = "queued"
    BY DEF In
  <2>2. job[i] = [state |-> "queued", update |-> job[i].update]
    BY <2>1 DEF JobType
  <2>3. run'.id = i /\ run'.at = "work" /\ run'.update = job[i].update
    BY <1>3 DEF NoRun
  <2>4. run'.drop = {} /\ run'.old = None /\ run'.stop = "none" /\ ~run'.holes
    BY <1>3 DEF NoRun
  <2>5. job' = [job EXCEPT ![i] = [state |-> "downloading", update |-> job[i].update]]
    <3>1. [job[i] EXCEPT !.state = "downloading"]
            = [state |-> "downloading", update |-> job[i].update]
      BY <2>1 DEF JobType
    <3> QED BY <1>3, <3>1, Zenon
  <2> QED BY <2>1, <2>2, <2>3, <2>4, <2>5
<1> QED BY <1>1, <1>2, <1>3 DEF Pick

(* What a run becomes: its job goes, goes with all it wrote, or says how   *)
(* the run ended.                                                          *)
LEMMA FinishSteps ==
  ASSUME JobType, RunType, DiskType, RunOK, Finish
  PROVE  /\ run.at = "finish" /\ run.id \in Ids
         /\ run'.at = "next" /\ run'.id = None /\ run'.stop = "none"
         /\ run'.drop = {} /\ run'.old = None /\ ~run'.holes
         /\ UNCHANGED <<file, row, wiping, kills, ghost>>
         /\ \A k \in Ids \ {run.id} : job'[k] = job[k] /\ removing'[k] = removing[k]
         /\ \/ /\ job'[run.id] = NoJob /\ removing'[run.id] = removing[run.id]
               /\ run.outcome = "cancelled"
            \/ /\ job'[run.id] = NoJob /\ removing'[run.id] = "files"
               /\ run.outcome = "ready" /\ ~run.update
            \/ /\ removing'[run.id] = removing[run.id] /\ run.outcome # "cancelled"
               /\ job'[run.id] = IF job[run.id].state = "none" THEN job[run.id]
                                 ELSE [state |-> run.outcome, update |-> job[run.id].update]
               /\ run.outcome = "ready" /\ run.stop = "cancel" => run.update
<1>1. run.at = "finish" /\ UNCHANGED <<file, row, wiping, kills, ghost>>
  BY DEF Finish, RunKeeps
<1>2. run.id \in Ids
  BY <1>1 DEF RunOK, RunType
<1>3. /\ run'.at = "next" /\ run'.id = None /\ run'.stop = "none"
      /\ run'.drop = {} /\ run'.old = None /\ ~run'.holes
  BY DEF Finish, NoRun
<1>4. CASE StoppedLate
  <2>1. removing' = Abandoned({run.id}) /\ job' = [job EXCEPT ![run.id] = NoJob]
    BY <1>4 DEF Finish
  <2>2. run.outcome = "ready" /\ ~run.update
    BY <1>4 DEF StoppedLate
  <2> QED BY <1>1, <1>2, <1>3, <2>1, <2>2 DEF JobType, Abandoned, DiskType
<1>5. CASE ~StoppedLate
  <2>1. removing' = removing /\ (run.outcome = "ready" /\ run.stop = "cancel" => run.update)
    BY <1>5 DEF Finish, StoppedLate
  <2>2. CASE run.outcome = "cancelled"
    <3>1. job' = [job EXCEPT ![run.id] = NoJob]
      BY <2>2 DEF Finish
    <3> QED BY <1>1, <1>2, <1>3, <2>1, <2>2, <3>1 DEF JobType
  <2>3. CASE run.outcome # "cancelled" /\ run.id \in Live
    <3>1. job' = [job EXCEPT ![run.id].state = run.outcome]
      BY <1>5, <2>3 DEF Finish
    <3>2. [job[run.id] EXCEPT !.state = run.outcome]
            = [state |-> run.outcome, update |-> job[run.id].update]
      BY <1>2 DEF JobType
    <3>3. job[run.id].state # "none"
      BY <2>3 DEF Live
    <3> QED BY <1>1, <1>2, <1>3, <2>1, <2>3, <3>1, <3>2, <3>3 DEF JobType
  <2>4. CASE run.outcome # "cancelled" /\ run.id \notin Live
    <3>1. job' = job /\ job[run.id].state = "none"
      BY <1>2, <1>5, <2>4 DEF Finish, Live
    <3> QED BY <1>1, <1>2, <1>3, <2>1, <2>4, <3>1
  <2> QED BY <2>2, <2>3, <2>4
<1> QED BY <1>4, <1>5

(* The drain's own steps lead from one place to the next.                  *)
LEMMA RunStep == TypeOK /\ RunOK /\ NoStall /\ [Next]_vars => RunOK'
<1> SUFFICES ASSUME TypeOK, RunOK, NoStall, [Next]_vars PROVE RunOK'
  OBVIOUS
<1>0. JobType /\ RunType /\ DiskType /\ RestType
  BY Types
<1> USE <1>0, RegionAssumption DEF RunType, DiskType, RunOK, disk, NoRun
<1>1. CASE User
  <2>1. ASSUME NEW ids \in SUBSET Ids, NEW update \in BOOLEAN, ~wiping, Joinable(ids),
               Enqueue(ids, update)
        PROVE  RunOK'
    BY <2>1 DEF Enqueue, Pumped
  <2>2. ASSUME NEW ids \in SUBSET Live, Cancel(ids) PROVE RunOK'
    BY <2>2 DEF Cancel, Abandoned, Live
  <2>3. ASSUME NEW i \in Ids, resumeRegionDownload(i) PROVE RunOK'
    BY <2>3 DEF resumeRegionDownload, Pumped
  <2>4. ASSUME NEW i \in Ids, pauseRegionDownload(i) PROVE RunOK'
    BY <2>4 DEF pauseRegionDownload, NoStall, In, Running
  <2>5. ASSUME NEW i \in Ids, DeleteSaved(i) PROVE RunOK'
    BY <2>5 DEF DeleteSaved
  <2>6. CASE DiscardUnfinished
    BY <2>6 DEF DiscardUnfinished
  <2> QED BY <1>1, UserSteps, <2>1, <2>2, <2>3, <2>4, <2>5, <2>6
<1>2. CASE Drain
  <2>1. CASE Pick
    BY <2>1, PickSteps
  <2>2. CASE Downloaded
    BY <2>2 DEF Downloaded
  <2>3. CASE Cancelled
    BY <2>3 DEF Cancelled, EndRun
  <2>4. CASE Parked
    BY <2>4 DEF Parked, EndRun
  <2>5. CASE Failed
    BY <2>5 DEF Failed, EndRun
  <2>6. CASE Register
    BY <2>6 DEF Register
  <2>7. CASE Finalize
    BY <2>7 DEF Finalize
  <2>8. CASE Swap
    BY <2>8 DEF Swap, AfterDrop
  <2>9. CASE DropRow
    BY <2>9, DropRowEnds
  <2>10. CASE DropFile
    BY <2>10 DEF DropFile, AfterDrop
  <2>11. CASE SwapFails
    BY <2>11 DEF SwapFails
  <2>12. CASE Finish
    BY <2>12, FinishSteps
  <2> QED BY <1>2, <2>1, <2>2, <2>3, <2>4, <2>5, <2>6, <2>7, <2>8, <2>9, <2>10, <2>11,
     <2>12 DEF Drain
<1>3. CASE Removal
  BY <1>3 DEF Removal, DeleteFiles, DeleteRow, DeleteFile, RemovalKeeps, disk
<1>4. CASE ConnectionBack
  BY <1>4 DEF ConnectionBack, Pumped, In
<1>5. CASE sweepOrphanFiles
  BY <1>5 DEF sweepOrphanFiles
<1>6. CASE cancelAllRegionDownloads
  BY <1>6 DEF cancelAllRegionDownloads
<1>7. CASE Wipe
  BY <1>7 DEF Wipe
<1>8. CASE Kill
  BY <1>8 DEF Kill
<1>9. CASE UNCHANGED vars
  BY <1>9 DEF vars
<1> QED BY <1>1, <1>2, <1>3, <1>4, <1>5, <1>6, <1>7, <1>8, <1>9 DEF Next

(* Only the wipe takes the job in hand out of the queue.                   *)
LEMMA InHandStep == TypeOK /\ RunOK /\ NoStall /\ InHandOK /\ [Next]_vars => InHandOK'
<1> SUFFICES ASSUME TypeOK, RunOK, NoStall, InHandOK, [Next]_vars PROVE InHandOK'
  OBVIOUS
<1>0. JobType /\ RunType /\ DiskType /\ RestType
  BY Types
<1> USE <1>0, RegionAssumption DEF JobType, RunType, InHandOK, Running, NoRun, NoJob, RunOK
<1>1. CASE User
  <2>1. ASSUME NEW ids \in SUBSET Ids, NEW update \in BOOLEAN, ~wiping, Joinable(ids),
               Enqueue(ids, update)
        PROVE  InHandOK'
    <3>1. run'.id = run.id /\ run'.update = run.update /\ wiping' = wiping
      BY <2>1 DEF Enqueue, Pumped
    <3>2. \A i \in Ids : Running(i) => job'[i] = job[i]
      BY <2>1 DEF Enqueue, Joinable
    <3> QED BY <3>1, <3>2
  <2>2. ASSUME NEW ids \in SUBSET Live, Cancel(ids) PROVE InHandOK'
    BY <2>2 DEF Cancel, Abandoned
  <2>3. ASSUME NEW i \in Ids, resumeRegionDownload(i) PROVE InHandOK'
    BY <2>3 DEF resumeRegionDownload, Pumped
  <2>4. ASSUME NEW i \in Ids, pauseRegionDownload(i) PROVE InHandOK'
    BY <2>4 DEF pauseRegionDownload
  <2>5. ASSUME NEW i \in Ids, DeleteSaved(i) PROVE InHandOK'
    BY <2>5 DEF DeleteSaved
  <2>6. CASE DiscardUnfinished
    BY <2>6 DEF DiscardUnfinished
  <2> QED BY <1>1, UserSteps, <2>1, <2>2, <2>3, <2>4, <2>5, <2>6
<1>2. CASE Drain
  <2>1. CASE Pick
    BY <2>1, PickSteps
  <2>2. CASE InRun
    BY <2>2, RunUnderWay
  <2>3. CASE Finish
    BY <2>3, FinishSteps
  <2> QED BY <1>2, <2>1, <2>2, <2>3 DEF Drain, InRun
<1>3. CASE Removal
  BY <1>3 DEF Removal, DeleteFiles, DeleteRow, DeleteFile, RemovalKeeps
<1>4. CASE ConnectionBack
  BY <1>4 DEF ConnectionBack, Pumped, In
<1>5. CASE sweepOrphanFiles
  BY <1>5 DEF sweepOrphanFiles
<1>6. CASE cancelAllRegionDownloads
  BY <1>6 DEF cancelAllRegionDownloads
<1>7. CASE Wipe
  BY <1>7 DEF Wipe
<1>8. CASE Kill
  BY <1>8 DEF Kill
<1>9. CASE UNCHANGED vars
  BY <1>9 DEF vars
<1> QED BY <1>1, <1>2, <1>3, <1>4, <1>5, <1>6, <1>7, <1>8, <1>9 DEF Next

(* Whoever queues a job pumps, and the drain ends only on an empty queue.  *)
LEMMA NoStallStep == TypeOK /\ RunOK /\ NoStall /\ [Next]_vars => NoStall'
<1> SUFFICES ASSUME TypeOK, RunOK, NoStall, [Next]_vars PROVE NoStall'
  OBVIOUS
<1>0. JobType /\ RunType /\ DiskType /\ RestType
  BY Types
<1> USE <1>0, RegionAssumption DEF JobType, RunType, NoStall, In, Running, NoRun, NoJob,
   RunOK
<1>1. CASE User
  <2>1. ASSUME NEW ids \in SUBSET Ids, NEW update \in BOOLEAN, ~wiping, Joinable(ids),
               Enqueue(ids, update)
        PROVE  NoStall'
    BY <2>1 DEF Enqueue, Pumped
  <2>2. ASSUME NEW ids \in SUBSET Live, Cancel(ids) PROVE NoStall'
    BY <2>2 DEF Cancel, Abandoned
  <2>3. ASSUME NEW i \in Ids, resumeRegionDownload(i) PROVE NoStall'
    BY <2>3 DEF resumeRegionDownload, Pumped
  <2>4. ASSUME NEW i \in Ids, pauseRegionDownload(i) PROVE NoStall'
    BY <2>4 DEF pauseRegionDownload
  <2>5. ASSUME NEW i \in Ids, DeleteSaved(i) PROVE NoStall'
    BY <2>5 DEF DeleteSaved
  <2>6. CASE DiscardUnfinished
    BY <2>6 DEF DiscardUnfinished
  <2> QED BY <1>1, UserSteps, <2>1, <2>2, <2>3, <2>4, <2>5, <2>6
<1>2. CASE Drain
  <2>1. CASE Pick
    BY <2>1, PickSteps
  <2>2. CASE InRun
    BY <2>2, RunUnderWay
  <2>3. CASE Finish
    BY <2>3, FinishSteps DEF Outcomes
  <2> QED BY <1>2, <2>1, <2>2, <2>3 DEF Drain, InRun
<1>3. CASE Removal
  BY <1>3 DEF Removal, DeleteFiles, DeleteRow, DeleteFile, RemovalKeeps
<1>4. CASE ConnectionBack
  BY <1>4 DEF ConnectionBack, Pumped, In
<1>5. CASE sweepOrphanFiles
  BY <1>5 DEF sweepOrphanFiles
<1>6. CASE cancelAllRegionDownloads
  BY <1>6 DEF cancelAllRegionDownloads
<1>7. CASE Wipe
  BY <1>7 DEF Wipe
<1>8. CASE Kill
  BY <1>8 DEF Kill
<1>9. CASE UNCHANGED vars
  BY <1>9 DEF vars
<1> QED BY <1>1, <1>2, <1>3, <1>4, <1>5, <1>6, <1>7, <1>8, <1>9 DEF Next

(* Nothing joins the queue of a phone that is being wiped, and what joins  *)
(* it afterwards is the next user's.                                       *)
LEMMA WipeStep == TypeOK /\ RunOK /\ NoStall /\ InHandOK /\ WipeOK /\ [Next]_vars => WipeOK'
<1> SUFFICES ASSUME TypeOK, RunOK, NoStall, InHandOK, WipeOK, [Next]_vars PROVE WipeOK'
  OBVIOUS
<1>0. JobType /\ RunType /\ DiskType /\ RestType
  BY Types
<1> USE <1>0, RegionAssumption DEF JobType, RunType, WipeOK, NoRun, NoJob, RestType, ghost,
   disk, RunKeeps
<1>1. CASE User
  <2>1. ASSUME NEW ids \in SUBSET Ids, NEW update \in BOOLEAN, ~wiping, Joinable(ids),
               Enqueue(ids, update)
        PROVE  WipeOK'
    BY <2>1 DEF Enqueue, Pumped
  <2>2. ASSUME NEW ids \in SUBSET Live, Cancel(ids) PROVE WipeOK'
    BY <2>2 DEF Cancel, Abandoned, Live
  <2>3. ASSUME NEW i \in Ids, resumeRegionDownload(i) PROVE WipeOK'
    BY <2>3 DEF resumeRegionDownload, Pumped
  <2>4. ASSUME NEW i \in Ids, pauseRegionDownload(i) PROVE WipeOK'
    BY <2>4 DEF pauseRegionDownload
  <2>5. ASSUME NEW i \in Ids, DeleteSaved(i) PROVE WipeOK'
    BY <2>5 DEF DeleteSaved
  <2>6. CASE DiscardUnfinished
    BY <2>6 DEF DiscardUnfinished
  <2> QED BY <1>1, UserSteps, <2>1, <2>2, <2>3, <2>4, <2>5, <2>6
<1>2. CASE Drain
  <2>1. CASE Pick
    BY <2>1, PickSteps
  <2>2. CASE InRun
    BY <2>2, RunUnderWay
  <2>3. CASE Finish
    BY <2>3, FinishSteps DEF Live
  <2> QED BY <1>2, <2>1, <2>2, <2>3 DEF Drain, InRun
<1>3. CASE Removal
  BY <1>3 DEF Removal, DeleteFiles, DeleteRow, DeleteFile, RemovalKeeps
<1>4. CASE ConnectionBack
  <2>1. PICK ids \in (SUBSET In("wait")) \ {{}} : TRUE
    BY <1>4 DEF ConnectionBack
  <2>2. ids # {} /\ ids \subseteq In("wait")
    BY <2>1
  <2>3. PICK i \in In("wait") : TRUE
    BY <2>2
  <2>4. ~wiping /\ ~clean
    BY <2>3 DEF In
  <2> QED BY <1>4, <2>4 DEF ConnectionBack
<1>5. CASE sweepOrphanFiles
  BY <1>5 DEF sweepOrphanFiles
<1>6. CASE cancelAllRegionDownloads
  BY <1>6 DEF cancelAllRegionDownloads
<1>7. CASE Wipe
  BY <1>7 DEF Wipe
<1>8. CASE Kill
  BY <1>8 DEF Kill
<1>9. CASE UNCHANGED vars
  BY <1>9 DEF vars
<1> QED BY <1>1, <1>2, <1>3, <1>4, <1>5, <1>6, <1>7, <1>8, <1>9 DEF Next

(* A registered run keeps its row and its file to the swap.                *)
LEMMA RegisterStep ==
  TypeOK /\ RunOK /\ RemovalOK /\ RegisterOK /\ [Next]_vars => RegisterOK'
<1> SUFFICES ASSUME TypeOK, RunOK, RemovalOK, RegisterOK, [Next]_vars PROVE RegisterOK'
  OBVIOUS
<1>0. JobType /\ RunType /\ DiskType /\ RestType
  BY Types
<1> USE <1>0, RegionAssumption DEF RunType, DiskType, RunOK, RegisterOK, disk, Tile, NoRun,
   Running
<1>1. CASE User
  <2>1. ASSUME NEW ids \in SUBSET Ids, NEW update \in BOOLEAN, ~wiping, Joinable(ids),
               Enqueue(ids, update)
        PROVE  RegisterOK'
    BY <2>1 DEF Enqueue, Pumped
  <2>2. ASSUME NEW ids \in SUBSET Live, Cancel(ids) PROVE RegisterOK'
    BY <2>2 DEF Cancel, Abandoned
  <2>3. ASSUME NEW i \in Ids, resumeRegionDownload(i) PROVE RegisterOK'
    BY <2>3 DEF resumeRegionDownload, Pumped
  <2>4. ASSUME NEW i \in Ids, pauseRegionDownload(i) PROVE RegisterOK'
    BY <2>4 DEF pauseRegionDownload
  <2>5. ASSUME NEW i \in Ids, DeleteSaved(i) PROVE RegisterOK'
    BY <2>5 DEF DeleteSaved
  <2>6. CASE DiscardUnfinished
    BY <2>6 DEF DiscardUnfinished, Unfinished
  <2> QED BY <1>1, UserSteps, <2>1, <2>2, <2>3, <2>4, <2>5, <2>6
<1>2. CASE Drain
  <2>1. CASE Pick
    BY <2>1, PickSteps
  <2>2. CASE Downloaded
    BY <2>2 DEF Downloaded, Written
  <2>3. CASE Cancelled
    BY <2>3 DEF Cancelled, EndRun
  <2>4. CASE Parked
    <3>1. PICK why \in Outcomes : run' = [run EXCEPT !.at = "finish", !.outcome = why]
      BY <2>4 DEF Parked, EndRun, Outcomes
    <3>2. run'.at = "finish" /\ run'.id = run.id
      BY <3>1
    <3> QED BY <3>2
  <2>5. CASE Failed
    BY <2>5 DEF Failed, EndRun
  <2>6. CASE Register
    BY <2>6 DEF Register
  <2>7. CASE Finalize
    BY <2>7 DEF Finalize
  <2>8. CASE Swap
    BY <2>8 DEF Swap, AfterDrop
  <2>9. CASE DropRow
    BY <2>9, DropRowEnds
  <2>10. CASE DropFile
    BY <2>10 DEF DropFile, AfterDrop
  <2>11. CASE SwapFails
    BY <2>11 DEF SwapFails
  <2>12. CASE Finish
    BY <2>12, FinishSteps
  <2> QED BY <1>2, <2>1, <2>2, <2>3, <2>4, <2>5, <2>6, <2>7, <2>8, <2>9, <2>10, <2>11,
     <2>12 DEF Drain
<1>3. CASE Removal
  BY <1>3 DEF Removal, DeleteFiles, DeleteRow, DeleteFile, RemovalKeeps, RemovalOK, disk
<1>4. CASE ConnectionBack
  BY <1>4 DEF ConnectionBack, Pumped, In
<1>5. CASE sweepOrphanFiles
  BY <1>5 DEF sweepOrphanFiles
<1>6. CASE cancelAllRegionDownloads
  BY <1>6 DEF cancelAllRegionDownloads
<1>7. CASE Wipe
  BY <1>7 DEF Wipe
<1>8. CASE Kill
  BY <1>8 DEF Kill
<1>9. CASE UNCHANGED vars
  BY <1>9 DEF vars
<1> QED BY <1>1, <1>2, <1>3, <1>4, <1>5, <1>6, <1>7, <1>8, <1>9 DEF Next

(* What is removed stays out of the queue's hands: it was out of them, and  *)
(* nothing joins whose removal is under way.                                *)
LEMMA RemovalStep ==
  /\ TypeOK /\ RunOK /\ NoStall /\ InHandOK
  /\ RemovalOK /\ RegisteredOnDisk
  /\ [Next]_vars
  => RemovalOK'
<1> SUFFICES ASSUME TypeOK, RunOK, NoStall, InHandOK, RemovalOK, RegisteredOnDisk,
   [Next]_vars
             PROVE  RemovalOK'
  OBVIOUS
<1>0. JobType /\ RunType /\ DiskType /\ RestType
  BY Types
<1> USE <1>0, RegionAssumption DEF JobType, RunType, DiskType, RestType, RunOK, RemovalOK,
   Running, disk, NoRun, NoJob, ghost, RunKeeps
<1>1. CASE User
  <2>1. ASSUME NEW ids \in SUBSET Ids, NEW update \in BOOLEAN, ~wiping, Joinable(ids),
               Enqueue(ids, update)
        PROVE  RemovalOK'
    BY <2>1 DEF Enqueue, Pumped, Joinable
  <2>2. ASSUME NEW ids \in SUBSET Live, Cancel(ids) PROVE RemovalOK'
    BY <2>2 DEF Cancel, Abandoned, Live
  <2>3. ASSUME NEW i \in Ids, resumeRegionDownload(i) PROVE RemovalOK'
    BY <2>3 DEF resumeRegionDownload, Pumped
  <2>4. ASSUME NEW i \in Ids, pauseRegionDownload(i) PROVE RemovalOK'
    BY <2>4 DEF pauseRegionDownload
  <2>5. ASSUME NEW i \in Ids, DeleteSaved(i) PROVE RemovalOK'
    BY <2>5 DEF DeleteSaved, RegisteredOnDisk, OnDisk
  <2>6. CASE DiscardUnfinished
    BY <2>6 DEF DiscardUnfinished, Unfinished
  <2> QED BY <1>1, UserSteps, <2>1, <2>2, <2>3, <2>4, <2>5, <2>6
<1>2. CASE Drain
  <2>1. CASE Pick
    BY <2>1, PickSteps
  <2>2. CASE Downloaded
    BY <2>2 DEF Downloaded, Written
  <2>3. CASE Cancelled
    BY <2>3 DEF Cancelled, EndRun
  <2>4. CASE Parked
    <3>1. run'.id = run.id /\ UNCHANGED <<job, row, removing, cut>>
      BY <2>4, RunUnderWay DEF Parked, InRun
    <3>2. file' = file \/ file' = Written
      BY <2>4, Zenon DEF Parked
    <3> QED BY <3>1, <3>2 DEF Written
  <2>5. CASE Failed
    BY <2>5 DEF Failed, EndRun
  <2>6. CASE Register
    BY <2>6 DEF Register
  <2>7. CASE Finalize
    BY <2>7 DEF Finalize
  <2>8. CASE Swap
    BY <2>8 DEF Swap
  <2>9. CASE DropRow
    BY <2>9, DropRowEnds
  <2>10. CASE DropFile
    BY <2>10 DEF DropFile
  <2>11. CASE SwapFails
    BY <2>11 DEF SwapFails
  <2>12. CASE Finish
    BY <2>12, FinishSteps
  <2> QED BY <1>2, <2>1, <2>2, <2>3, <2>4, <2>5, <2>6, <2>7, <2>8, <2>9, <2>10, <2>11,
     <2>12 DEF Drain
<1>3. CASE Removal
  BY <1>3 DEF Removal, DeleteFiles, DeleteRow, DeleteFile, RemovalKeeps
<1>4. CASE ConnectionBack
  BY <1>4 DEF ConnectionBack, Pumped, In
<1>5. CASE sweepOrphanFiles
  BY <1>5 DEF sweepOrphanFiles, Live
<1>6. CASE cancelAllRegionDownloads
  BY <1>6 DEF cancelAllRegionDownloads
<1>7. CASE Wipe
  BY <1>7 DEF Wipe
<1>8. CASE Kill
  BY <1>8 DEF Kill
<1>9. CASE UNCHANGED vars
  BY <1>9 DEF vars
<1> QED BY <1>1, <1>2, <1>3, <1>4, <1>5, <1>6, <1>7, <1>8, <1>9 DEF Next

(* A clip is in the registry from the step that leaves it whole.           *)
LEMMA ClipStep == TypeOK /\ RunOK /\ NoStall /\ InHandOK /\ ClipOK /\ [Next]_vars => ClipOK'
<1> SUFFICES ASSUME TypeOK, RunOK, NoStall, InHandOK, ClipOK, [Next]_vars PROVE ClipOK'
  OBVIOUS
<1>0. JobType /\ RunType /\ DiskType /\ RestType
  BY Types
<1> USE <1>0, RegionAssumption DEF JobType, RunType, DiskType, RunOK, ClipOK, InHandOK,
   Running, disk, NoRun, NoJob, Tile, RunKeeps
<1>1. CASE User
  <2>1. ASSUME NEW ids \in SUBSET Ids, NEW update \in BOOLEAN, ~wiping, Joinable(ids),
               Enqueue(ids, update)
        PROVE  ClipOK'
    BY <2>1 DEF Enqueue, Pumped, Joinable
  <2>2. ASSUME NEW ids \in SUBSET Live, Cancel(ids) PROVE ClipOK'
    BY <2>2 DEF Cancel, Abandoned, Live
  <2>3. ASSUME NEW i \in Ids, resumeRegionDownload(i) PROVE ClipOK'
    BY <2>3 DEF resumeRegionDownload, Pumped
  <2>4. ASSUME NEW i \in Ids, pauseRegionDownload(i) PROVE ClipOK'
    BY <2>4 DEF pauseRegionDownload
  <2>5. ASSUME NEW i \in Ids, DeleteSaved(i) PROVE ClipOK'
    BY <2>5 DEF DeleteSaved
  <2>6. CASE DiscardUnfinished
    BY <2>6 DEF DiscardUnfinished
  <2> QED BY <1>1, UserSteps, <2>1, <2>2, <2>3, <2>4, <2>5, <2>6
<1>2. CASE Drain
  <2>1. CASE Pick
    BY <2>1, PickSteps
  <2>2. CASE Downloaded
    <3>1. PICK holes \in IF Tile(run.id) THEN BOOLEAN ELSE {FALSE} :
             run' = [run EXCEPT !.at = "register", !.holes = holes]
      BY <2>2 DEF Downloaded
    <3>2. run'.holes => Tile(run.id)
      BY <3>1
    <3> QED BY <2>2, <3>1, <3>2, RunUnderWay DEF Downloaded, InRun
  <2>3. CASE Cancelled
    BY <2>3 DEF Cancelled, EndRun
  <2>4. CASE Parked
    <3>1. PICK why \in {"wait", "stalled"} :
             run' = [run EXCEPT !.at = "finish", !.outcome = why]
      BY <2>4 DEF Parked, EndRun
    <3>2. run'.id = run.id /\ run'.holes = run.holes /\ run'.at = "finish"
      BY <3>1
    <3> QED BY <2>4, <3>2 DEF Parked
  <2>5. CASE Failed
    BY <2>5 DEF Failed, EndRun
  <2>6. CASE Register
    BY <2>6 DEF Register
  <2>7. CASE Finalize
    BY <2>7 DEF Finalize
  <2>8. CASE Swap
    <3>1. run.id \in Ids /\ run'.id = run.id /\ ~run'.holes /\ UNCHANGED <<job, disk>>
      BY <2>8, RunUnderWay DEF Swap, InRun
    <3>2. CASE run.holes
      BY <3>1, <3>2
    <3>3. CASE ~run.holes
      <4>1. run' = [run EXCEPT !.at = AfterDrop(Older), !.drop = Older, !.outcome = "ready",
                               !.holes = FALSE]
        BY <2>8, <3>3, SwapSteps, Zenon
      <4>2. run'.outcome = "ready" /\ run'.at \in {"row", "finish"}
        BY <4>1 DEF AfterDrop
      <4> QED BY <3>1, <4>2
    <3> QED BY <3>2, <3>3
  <2>9. CASE DropRow
    BY <2>9, DropRowEnds
  <2>10. CASE DropFile
    BY <2>10 DEF DropFile, AfterDrop
  <2>11. CASE SwapFails
    BY <2>11 DEF SwapFails
  <2>12. CASE Finish
    BY <2>12, FinishSteps
  <2> QED BY <1>2, <2>1, <2>2, <2>3, <2>4, <2>5, <2>6, <2>7, <2>8, <2>9, <2>10, <2>11,
     <2>12 DEF Drain
<1>3. CASE Removal
  BY <1>3 DEF Removal, DeleteFiles, DeleteRow, DeleteFile, RemovalKeeps
<1>4. CASE ConnectionBack
  BY <1>4 DEF ConnectionBack, Pumped, In
<1>5. CASE sweepOrphanFiles
  BY <1>5 DEF sweepOrphanFiles
<1>6. CASE cancelAllRegionDownloads
  BY <1>6 DEF cancelAllRegionDownloads
<1>7. CASE Wipe
  BY <1>7 DEF Wipe
<1>8. CASE Kill
  BY <1>8 DEF Kill
<1>9. CASE UNCHANGED vars
  BY <1>9 DEF vars
<1> QED BY <1>1, <1>2, <1>3, <1>4, <1>5, <1>6, <1>7, <1>8, <1>9 DEF Next

(* A row is there for a file, or for a removal that takes it next.         *)
LEMMA OnDiskStep ==
  /\ TypeOK /\ RunOK /\ NoStall /\ InHandOK /\ RemovalOK
  /\ RegisterOK /\ ClipOK /\ RegisteredOnDisk
  /\ [Next]_vars
  => RegisteredOnDisk'
<1> SUFFICES ASSUME TypeOK, RunOK, NoStall, InHandOK, RemovalOK, RegisterOK, ClipOK,
   RegisteredOnDisk, [Next]_vars
             PROVE  RegisteredOnDisk'
  OBVIOUS
<1>0. JobType /\ RunType /\ DiskType /\ RestType
  BY Types
<1> USE <1>0, RegionAssumption DEF JobType, RunType, DiskType, RestType, RunOK,
   RegisteredOnDisk, OnDisk, Running, disk, ghost, RunKeeps
<1>1. CASE User
  <2>1. ASSUME NEW ids \in SUBSET Ids, NEW update \in BOOLEAN, ~wiping, Joinable(ids),
               Enqueue(ids, update)
        PROVE  RegisteredOnDisk'
    BY <2>1 DEF Enqueue, Pumped, Joinable
  <2>2. ASSUME NEW ids \in SUBSET Live, Cancel(ids) PROVE RegisteredOnDisk'
    BY <2>2 DEF Cancel, Abandoned, Live, RemovalOK
  <2>3. ASSUME NEW i \in Ids, resumeRegionDownload(i) PROVE RegisteredOnDisk'
    BY <2>3 DEF resumeRegionDownload, Pumped
  <2>4. ASSUME NEW i \in Ids, pauseRegionDownload(i) PROVE RegisteredOnDisk'
    BY <2>4 DEF pauseRegionDownload
  <2>5. ASSUME NEW i \in Ids, DeleteSaved(i) PROVE RegisteredOnDisk'
    BY <2>5 DEF DeleteSaved
  <2>6. CASE DiscardUnfinished
    BY <2>6 DEF DiscardUnfinished, Unfinished
  <2> QED BY <1>1, UserSteps, <2>1, <2>2, <2>3, <2>4, <2>5, <2>6
<1>2. CASE Drain
  <2>1. CASE Pick
    BY <2>1, PickSteps
  <2>2. CASE Downloaded
    BY <2>2 DEF Downloaded, Written
  <2>3. CASE Cancelled
    BY <2>3 DEF Cancelled, EndRun
  <2>4. CASE Parked
    <3>1. UNCHANGED <<row, removing, cut>>
      BY <2>4 DEF Parked
    <3>2. file' = file \/ file' = Written
      BY <2>4, Zenon DEF Parked
    <3> QED BY <3>1, <3>2 DEF Written
  <2>5. CASE Failed
    BY <2>5 DEF Failed, ClipOK, Tile, EndRun
  <2>6. CASE Register
    BY <2>6 DEF Register, RegisterOK, Tile
  <2>7. CASE Finalize
    BY <2>7 DEF Finalize
  <2>8. CASE Swap
    BY <2>8 DEF Swap
  <2>9. CASE DropRow
    BY <2>9, DropRowEnds
  <2>10. CASE DropFile
    BY <2>10 DEF DropFile
  <2>11. CASE SwapFails
    BY <2>11 DEF SwapFails
  <2>12. CASE Finish
    <3>1. UNCHANGED <<file, row, cut>> /\ run.at = "finish" /\ run.id \in Ids
      BY <2>12, FinishSteps
    <3>2. \A k \in Ids : removing'[k] = removing[k] \/ removing[k] = "no"
      BY <2>12, FinishSteps DEF RemovalOK
    <3> QED BY <3>1, <3>2
  <2> QED BY <1>2, <2>1, <2>2, <2>3, <2>4, <2>5, <2>6, <2>7, <2>8, <2>9, <2>10, <2>11,
     <2>12 DEF Drain
<1>3. CASE Removal
  BY <1>3 DEF Removal, DeleteFiles, DeleteRow, DeleteFile, RemovalKeeps, RemovalOK
<1>4. CASE ConnectionBack
  BY <1>4 DEF ConnectionBack, Pumped, In
<1>5. CASE sweepOrphanFiles
  BY <1>5 DEF sweepOrphanFiles, Live
<1>6. CASE cancelAllRegionDownloads
  BY <1>6 DEF cancelAllRegionDownloads
<1>7. CASE Wipe
  BY <1>7 DEF Wipe
<1>8. CASE Kill
  BY <1>8 DEF Kill, Written
<1>9. CASE UNCHANGED vars
  BY <1>9 DEF vars
<1> QED BY <1>1, <1>2, <1>3, <1>4, <1>5, <1>6, <1>7, <1>8, <1>9 DEF Next

(* A whole file loses its row only to someone who deletes it next.         *)
LEMMA LostStep ==
  TypeOK /\ RunOK /\ RemovalOK /\ RegisterOK /\ LostOK /\ [Next]_vars => LostOK'
<1> SUFFICES ASSUME TypeOK, RunOK, RemovalOK, RegisterOK, LostOK, [Next]_vars
             PROVE  LostOK'
  OBVIOUS
<1>0. JobType /\ RunType /\ DiskType /\ RestType
  BY Types
<1> USE <1>0, RegionAssumption DEF JobType, RunType, DiskType, RestType, RunOK, LostOK,
   Running, disk, ghost, RunKeeps, RegisterOK, Tile
<1>1. CASE User
  <2>1. ASSUME NEW ids \in SUBSET Ids, NEW update \in BOOLEAN, ~wiping, Joinable(ids),
               Enqueue(ids, update)
        PROVE  LostOK'
    BY <2>1 DEF Enqueue, Pumped, Joinable
  <2>2. ASSUME NEW ids \in SUBSET Live, Cancel(ids) PROVE LostOK'
    BY <2>2 DEF Cancel, Abandoned, Live
  <2>3. ASSUME NEW i \in Ids, resumeRegionDownload(i) PROVE LostOK'
    BY <2>3 DEF resumeRegionDownload, Pumped
  <2>4. ASSUME NEW i \in Ids, pauseRegionDownload(i) PROVE LostOK'
    BY <2>4 DEF pauseRegionDownload
  <2>5. ASSUME NEW i \in Ids, DeleteSaved(i) PROVE LostOK'
    BY <2>5 DEF DeleteSaved
  <2>6. CASE DiscardUnfinished
    BY <2>6 DEF DiscardUnfinished, Unfinished
  <2> QED BY <1>1, UserSteps, <2>1, <2>2, <2>3, <2>4, <2>5, <2>6
<1>2. CASE Drain
  <2>1. CASE Pick
    BY <2>1, PickSteps
  <2>2. CASE Downloaded
    BY <2>2 DEF Downloaded, Written
  <2>3. CASE Cancelled
    BY <2>3 DEF Cancelled, EndRun
  <2>4. CASE Parked
    <3>1. UNCHANGED <<row, removing, cut>> /\ run'.old = run.old
      BY <2>4 DEF Parked, EndRun
    <3>2. file' = file \/ file' = Written
      BY <2>4, Zenon DEF Parked
    <3> QED BY <3>1, <3>2 DEF Written
  <2>5. CASE Failed
    BY <2>5 DEF Failed, EndRun
  <2>6. CASE Register
    BY <2>6 DEF Register
  <2>7. CASE Finalize
    BY <2>7 DEF Finalize
  <2>8. CASE Swap
    BY <2>8 DEF Swap
  <2>9. CASE DropRow
    <3>1. UNCHANGED <<file, removing, cut>> /\ run.old = None
      BY <2>9 DEF DropRow
    <3>2. PICK i \in run.drop : row' = row \ {i} /\ (i \in row => run'.old = i)
      BY <2>9, DropRowEnds, Zenon
    <3> QED BY <3>1, <3>2
  <2>10. CASE DropFile
    BY <2>10 DEF DropFile
  <2>11. CASE SwapFails
    BY <2>11 DEF SwapFails
  <2>12. CASE Finish
    BY <2>12, FinishSteps
  <2> QED BY <1>2, <2>1, <2>2, <2>3, <2>4, <2>5, <2>6, <2>7, <2>8, <2>9, <2>10, <2>11,
     <2>12 DEF Drain
<1>3. CASE Removal
  BY <1>3 DEF Removal, DeleteFiles, DeleteRow, DeleteFile, RemovalKeeps
<1>4. CASE ConnectionBack
  BY <1>4 DEF ConnectionBack, Pumped, In
<1>5. CASE sweepOrphanFiles
  BY <1>5 DEF sweepOrphanFiles, Live
<1>6. CASE cancelAllRegionDownloads
  BY <1>6 DEF cancelAllRegionDownloads
<1>7. CASE Wipe
  BY <1>7 DEF Wipe
<1>8. CASE Kill
  <2>1. /\ row' = row
        /\ cut' = cut \union {i \in Ids : removing[i] # "no"} \union ({run.old} \ {None})
    BY <1>8 DEF Kill
  <2>2. file' = file \/ file' = Written
    BY <1>8, Zenon DEF Kill
  <2>3. \A i \in Ids : file'[i] = "whole" => file[i] = "whole"
    BY <2>2 DEF Written
  <2> QED BY <2>1, <2>3
<1>9. CASE UNCHANGED vars
  BY <1>9 DEF vars
<1> QED BY <1>1, <1>2, <1>3, <1>4, <1>5, <1>6, <1>7, <1>8, <1>9 DEF Next

(* Whatever is queued is an update of the maps that were saved, but for    *)
(* those a resume demotes.                                                 *)
LEMMA EnqueueSteps ==
  ASSUME TypeOK, OwedOK, FirstSave \/ StartUpdate \/ ResumeUnfinished
  PROVE  \E ids \in SUBSET Ids, update \in BOOLEAN :
           /\ Joinable(ids) /\ Enqueue(ids, update) /\ ~wiping
           /\ demoted \subseteq demoted'
           /\ update \/ \A i \in ids : MapOf[i] \notin owed' \ demoted'
<1> USE DEF Joinable
<1>1. CASE FirstSave
  <2>1. PICK ids \in SUBSET Fresh : Enqueue(ids, FALSE)
    BY <1>1 DEF FirstSave
  <2>2. ids \in SUBSET Ids /\ Joinable(ids) /\ ~wiping /\ demoted' = demoted /\ row = {}
    BY <1>1 DEF FirstSave, Fresh, Live
  <2>3. Saved = {} /\ owed \ demoted = {}
    BY <2>2 DEF Saved, AtRest, OwedOK, Kept, Keeps
  <2>4. owed' \ demoted' = {}
    BY <2>1, <2>2, <2>3 DEF Enqueue
  <2> QED BY <2>1, <2>2, <2>4
<1>2. CASE StartUpdate
  <2>1. PICK ids \in SUBSET Fresh : Enqueue(ids, TRUE)
    BY <1>2 DEF StartUpdate
  <2>2. ids \in SUBSET Ids /\ Joinable(ids) /\ ~wiping /\ demoted' = demoted
    BY <1>2 DEF StartUpdate, Fresh, Live
  <2> QED BY <2>1, <2>2
<1>3. CASE ResumeUnfinished
  <2>1. Enqueue(Unfinished, FALSE) /\ ~wiping
    BY <1>3 DEF ResumeUnfinished
  <2>2. Unfinished \in SUBSET Ids /\ Joinable(Unfinished)
    BY DEF Unfinished, Live
  <2>3. demoted' = demoted \union ({MapOf[i] : i \in Unfinished} \cap (owed \union Saved))
    BY <1>3 DEF ResumeUnfinished
  <2>4. owed' = owed \union Saved
    BY <2>1 DEF Enqueue
  <2>5. \A i \in Unfinished : MapOf[i] \notin owed' \ demoted'
    BY <2>3, <2>4
  <2> QED BY <2>1, <2>2, <2>3, <2>5
<1> QED BY <1>1, <1>2, <1>3

(* What joins the queue leaves a map its copy, and finds one for each that *)
(* counts as saved from now on.                                            *)
LEMMA EnqueueKeeps ==
  ASSUME TypeOK, RunOK, InHandOK, OwedOK, FirstSave \/ StartUpdate \/ ResumeUnfinished
  PROVE  OwedOK'
<1>0. JobType /\ RunType /\ DiskType /\ RestType
  BY Types
<1>1. PICK ids \in SUBSET Ids, update \in BOOLEAN :
        /\ Joinable(ids) /\ Enqueue(ids, update) /\ ~wiping
        /\ demoted \subseteq demoted'
        /\ update \/ \A i \in ids : MapOf[i] \notin owed' \ demoted'
  BY EnqueueSteps, Zenon
<1>2. /\ UNCHANGED <<file, row, removing>>
      /\ owed' = owed \union Saved
      /\ \A i \in Ids : job'[i] = IF i \in ids THEN [state |-> "queued", update |-> update]
                                  ELSE IF job[i].state \in {"ready", "failed"} THEN NoJob
                                  ELSE job[i]
  BY <1>1 DEF Enqueue, disk
<1>3. /\ run'.id = run.id /\ run'.update = run.update /\ run'.drop = run.drop
      /\ run'.outcome = run.outcome /\ (run.id # None => run'.at = run.at)
  BY <1>0, <1>1 DEF Enqueue, Pumped, RunType, RunOK
<1>4. ASSUME NEW m \in owed' \ demoted' PROVE Kept(m)'
  <2>1. m \notin demoted /\ (m \in owed \/ m \in Saved)
    BY <1>1, <1>2, <1>4
  <2>2. \A i \in ids : MapOf[i] = m => update
    BY <1>1, <1>4
  <2>3. ASSUME NEW k \in IdsOf(m), job'[k].state # "none", k \notin ids
        PROVE  job'[k] = job[k] /\ job[k].state \notin {"none", "ready", "failed"}
    BY <1>2, <2>3 DEF IdsOf, NoJob
  <2>4. \A k \in ids : job'[k].update = update
    BY <1>2
  <2>5. CASE m \in owed
    <3>1. Kept(m)
      BY <2>1, <2>5 DEF OwedOK
    <3>2. PICK i \in IdsOf(m) : Keeps(i)
      BY <3>1 DEF Kept
    <3>3. i \in Ids /\ i \notin ids /\ (Running(i) => run.id # None)
      BY <1>1, <3>2, RegionAssumption DEF Keeps, Joinable, IdsOf, Running
    <3>4. ~Running(i) => job'[i].state \in {"none", "ready"}
      BY <1>2, <3>2, <3>3 DEF Keeps, NoJob
    <3>5. Keeps(i)'
      BY <1>2, <1>3, <3>2, <3>3, <3>4 DEF Keeps, Running
    <3>6. \A k \in IdsOf(m) : job'[k].state # "none" => job'[k].update
      BY <2>2, <2>3, <2>4, <3>1 DEF Kept, IdsOf
    <3>7. \A k \in IdsOf(m) : Running(k)' => run'.update
      BY <1>3, <3>1 DEF Kept, Running
    <3> QED BY <3>5, <3>6, <3>7 DEF Kept, IdsOf
  <2>6. CASE m \in Saved
    <3>1. ~FirstSaving(m)
      BY <2>6 DEF Saved
    <3>2. PICK i \in IdsOf(m) : AtRest(i)
      BY <2>6 DEF Saved
    <3>3. i \in Ids /\ i \notin ids /\ ~Running(i)
      BY <1>1, <3>2 DEF AtRest, Joinable, IdsOf
    <3>4. job'[i].state = "none"
      BY <1>2, <3>2, <3>3 DEF AtRest, NoJob
    <3>5. Keeps(i)'
      BY <1>2, <1>3, <3>2, <3>3, <3>4 DEF Keeps, AtRest, Running
    <3>6. \A k \in IdsOf(m) : k \in Live \ Settled => job[k].update
      BY <3>1 DEF FirstSaving, IdsOf
    <3>7. \A k \in IdsOf(m) : job'[k].state # "none" => job'[k].update
      BY <2>2, <2>3, <2>4, <3>6 DEF IdsOf, Live, Settled, In
    <3>8. ASSUME NEW k \in IdsOf(m), Running(k) PROVE run.update
      <4>1. job[k] = [state |-> "downloading", update |-> run.update] /\ k \in Ids
        BY <1>1, <3>8 DEF InHandOK, IdsOf
      <4>2. k \in Live \ Settled
        BY <4>1 DEF Live, Settled, In
      <4> QED BY <3>6, <4>1, <4>2
    <3>9. \A k \in IdsOf(m) : Running(k)' => run'.update
      BY <1>3, <3>8 DEF Running
    <3> QED BY <3>5, <3>7, <3>9 DEF Kept, IdsOf
  <2> QED BY <2>1, <2>5, <2>6
<1> QED BY <1>4 DEF OwedOK

(* Every other step leaves a saved map a copy, the one it had or the run's *)
(* own, or is the user's who deletes the map.                              *)
LEMMA OthersKeep ==
  ASSUME TypeOK, RunOK, RemovalOK, RegisterOK, NEW m \in Maps, Kept(m),
         \/ DiscardUnfinished \/ (\E ids \in SUBSET Live : Cancel(ids))
         \/ (\E i \in Ids : resumeRegionDownload(i) \/ pauseRegionDownload(i) \/ DeleteSaved(i))
         \/ Drain \/ Removal \/ ConnectionBack \/ sweepOrphanFiles
         \/ cancelAllRegionDownloads \/ Wipe \/ Kill \/ UNCHANGED vars
  PROVE  Kept(m)' \/ m \notin owed'
<1>0. JobType /\ RunType /\ DiskType /\ RestType
  BY Types
<1>1. PICK i \in IdsOf(m) : Keeps(i)
  BY DEF Kept
<1>2. i \in Ids /\ MapOf[i] = m
  BY DEF IdsOf
<1>3. \A k \in IdsOf(m) : /\ job[k].state # "none" => job[k].update
                          /\ Running(k) => run.update
  BY DEF Kept
<1> DEFINE Updates == \A k \in IdsOf(m) : /\ job[k].state # "none" => job[k].update
                                          /\ Running(k) => run.update
<1>4. Updates
  BY <1>3
<1>5. ASSUME Keeps(i)', Updates' PROVE Kept(m)'
  BY <1>5 DEF Kept, IdsOf
<1> USE <1>0, <1>1, <1>2, <1>3, RegionAssumption
        DEF JobType, RunType, DiskType, RestType, RunOK, Keeps, Running, disk, NoRun, NoJob
<1>6. CASE DiscardUnfinished
  <2>1. Keeps(i)'
    BY <1>6 DEF DiscardUnfinished, Unfinished
  <2>2. Updates'
    BY <1>6 DEF DiscardUnfinished, IdsOf
  <2> QED BY <1>5, <2>1, <2>2
<1>7. ASSUME NEW ids \in SUBSET Live, Cancel(ids) PROVE Kept(m)'
  <2>1. Keeps(i)'
    BY <1>7 DEF Cancel, Abandoned, Live
  <2>2. Updates'
    BY <1>7 DEF Cancel, IdsOf
  <2> QED BY <1>5, <2>1, <2>2
<1>8. ASSUME NEW k \in Ids, resumeRegionDownload(k) PROVE Kept(m)'
  <2>1. Keeps(i)'
    BY <1>8 DEF resumeRegionDownload, Pumped
  <2>2. Updates'
    BY <1>8 DEF resumeRegionDownload, Pumped, IdsOf
  <2> QED BY <1>5, <2>1, <2>2
<1>9. ASSUME NEW k \in Ids, pauseRegionDownload(k) PROVE Kept(m)'
  <2>1. Keeps(i)'
    BY <1>9 DEF pauseRegionDownload
  <2>2. Updates'
    BY <1>9 DEF pauseRegionDownload, IdsOf
  <2> QED BY <1>5, <2>1, <2>2
<1>10. ASSUME NEW k \in Ids, DeleteSaved(k) PROVE Kept(m)' \/ m \notin owed'
  <2>1. CASE MapOf[k] = m
    BY <1>10, <2>1 DEF DeleteSaved
  <2>2. CASE MapOf[k] # m
    <3>1. Keeps(i)'
      BY <1>10, <2>2 DEF DeleteSaved
    <3>2. Updates'
      BY <1>10 DEF DeleteSaved, IdsOf
    <3> QED BY <1>5, <3>1, <3>2
  <2> QED BY <2>1, <2>2
<1>11. CASE Pick
  <2>1. Keeps(i)'
    BY <1>11, PickSteps
  <2>2. Updates'
    BY <1>11, PickSteps DEF IdsOf
  <2> QED BY <1>5, <2>1, <2>2
<1>12. CASE InRun
  <2>1. Updates'
    <3> HIDE <1>1
    <3> QED BY <1>12, RunUnderWay DEF IdsOf
  <2>2. ASSUME run.at \in {"work", "register", "finalize"}, row \subseteq row',
               run'.drop = run.drop, \A k \in Ids \ {run.id} : file'[k] = file[k]
        PROVE  Keeps(i)'
    BY <1>12, <2>2, RunUnderWay
  <2>3. CASE Downloaded \/ Cancelled \/ Register \/ Finalize
    <3>1. /\ run.at \in {"work", "register", "finalize"} /\ row \subseteq row'
          /\ run'.drop = run.drop /\ \A k \in Ids \ {run.id} : file'[k] = file[k]
      <4> USE DEF Written, EndRun
      <4>1. CASE Downloaded
        BY <4>1 DEF Downloaded
      <4>2. CASE Cancelled
        BY <4>2 DEF Cancelled
      <4>3. CASE Register
        BY <4>3 DEF Register
      <4>4. CASE Finalize
        BY <4>4 DEF Finalize
      <4> QED BY <2>3, <4>1, <4>2, <4>3, <4>4
    <3> QED BY <1>5, <2>1, <2>2, <3>1
  <2>4. CASE Parked
    <3>1. run.at = "work" /\ row' = row
      BY <2>4 DEF Parked
    <3>2. run'.drop = run.drop
      <4>1. PICK why \in Outcomes : run' = [run EXCEPT !.at = "finish", !.outcome = why]
        BY <2>4 DEF Parked, EndRun, Outcomes
      <4> QED BY <4>1
    <3>3. file' = file \/ file' = Written
      BY <2>4, Zenon DEF Parked
    <3>4. \A k \in Ids \ {run.id} : file'[k] = file[k]
      BY <3>3 DEF Written
    <3> QED BY <1>5, <2>1, <2>2, <3>1, <3>2, <3>4
  <2>5. CASE Failed
    <3>1. run.at \in {"work", "register", "finalize"} /\ row' = row /\ run'.drop = run.drop
      BY <2>5 DEF Failed, EndRun
    <3>2. PICK left : file' = [file EXCEPT ![run.id] = left]
      BY <2>5 DEF Failed
    <3> QED BY <1>5, <2>1, <2>2, <3>1, <3>2
  <2>6. CASE Swap
    <3>1. /\ run.at = "swap" /\ ~Running(i) /\ UNCHANGED <<job, file, row, removing>>
          /\ run.id \in Ids /\ run'.id = run.id
      BY <2>6 DEF Swap
    <3>2. CASE run' = [run EXCEPT !.at = AfterDrop({run.id}), !.drop = {run.id},
                                  !.outcome = "failed", !.holes = FALSE]
      <4>1. run'.drop = {run.id}
        BY <3>2
      <4>2. Keeps(i)'
        BY <3>1, <4>1
      <4> QED BY <1>5, <2>1, <4>2
    <3>3. CASE run' = [run EXCEPT !.at = AfterDrop(Older), !.drop = Older,
                                  !.outcome = "ready", !.holes = FALSE]
      <4>1. run'.drop = Older /\ run'.outcome = "ready" /\ run'.at \in {"row", "finish"}
        BY <3>3 DEF AfterDrop
      <4>2. CASE MapOf[run.id] = m
        <5>1. run.id \in row /\ file[run.id] = "whole" /\ removing[run.id] = "no"
          BY <3>1 DEF RegisterOK, RemovalOK
        <5>2. run.id \in IdsOf(m) /\ run.id \notin Older
          BY <3>1, <4>2 DEF IdsOf, Older
        <5>3. Keeps(run.id)'
          BY <3>1, <4>1, <5>1, <5>2
        <5> QED BY <2>1, <3>1, <5>2, <5>3 DEF Kept, IdsOf
      <4>3. CASE MapOf[run.id] # m
        <5>1. i \notin Older
          BY <4>3 DEF Older, IdsOf
        <5>2. Keeps(i)'
          BY <3>1, <4>1, <5>1
        <5> QED BY <1>5, <2>1, <5>2
      <4> QED BY <4>2, <4>3
    <3> QED BY <2>6, <3>2, <3>3, SwapSteps
  <2>7. CASE DropRow
    <3>1. PICK k \in run.drop : row' = row \ {k} /\ run'.drop = run.drop \ {k}
      BY <2>7, DropRowEnds, Zenon
    <3>2. i # k /\ UNCHANGED <<job, file, removing>>
      BY <2>7 DEF DropRow
    <3>3. /\ run'.id = run.id /\ run'.outcome = run.outcome
          /\ run'.at \in {"file", "row", "finish"}
      BY <2>7, DropRowEnds
    <3>4. Keeps(i)'
      BY <3>1, <3>2, <3>3
    <3> QED BY <1>5, <2>1, <3>4
  <2>8. CASE DropFile
    <3>1. Keeps(i)'
      BY <2>8 DEF DropFile, AfterDrop
    <3> QED BY <1>5, <2>1, <3>1
  <2>9. CASE SwapFails
    <3>1. Keeps(i)'
      BY <2>9 DEF SwapFails
    <3> QED BY <1>5, <2>1, <3>1
  <2> QED BY <1>12, <2>3, <2>4, <2>5, <2>6, <2>7, <2>8, <2>9 DEF InRun
<1>13. CASE Finish
  <2>1. Keeps(i)'
    <3>1. CASE Running(i)
      <4>1. run.update /\ run.outcome = "ready" /\ run.id = i
        BY <3>1
      <4>2. removing'[i] = "no" /\ job'[i].state \in {"none", "ready"}
        BY <1>13, <4>1, FinishSteps
      <4> QED BY <1>13, <4>2, FinishSteps
    <3>2. CASE ~Running(i)
      BY <1>13, <3>2, FinishSteps
    <3> QED BY <3>1, <3>2
  <2>2. Updates'
    <3> HIDE <1>1
    <3> QED BY <1>13, FinishSteps DEF IdsOf
  <2> QED BY <1>5, <2>1, <2>2
<1>14. CASE Removal
  <2>1. Keeps(i)'
    BY <1>14 DEF Removal, DeleteFiles, DeleteRow, DeleteFile, RemovalKeeps
  <2>2. Updates'
    BY <1>14 DEF Removal, DeleteFiles, DeleteRow, DeleteFile, RemovalKeeps, IdsOf
  <2> QED BY <1>5, <2>1, <2>2
<1>15. CASE ConnectionBack
  <2>1. Keeps(i)'
    BY <1>15 DEF ConnectionBack, Pumped, In
  <2>2. Updates'
    BY <1>15 DEF ConnectionBack, Pumped, In, IdsOf
  <2> QED BY <1>5, <2>1, <2>2
<1>16. CASE sweepOrphanFiles \/ UNCHANGED vars
  <2>1. Keeps(i)'
    BY <1>16 DEF sweepOrphanFiles, vars
  <2>2. Updates'
    BY <1>16 DEF sweepOrphanFiles, vars, IdsOf
  <2> QED BY <1>5, <2>1, <2>2
<1>17. CASE cancelAllRegionDownloads
  <2>1. Keeps(i)'
    BY <1>17 DEF cancelAllRegionDownloads
  <2>2. Updates'
    BY <1>17 DEF cancelAllRegionDownloads, IdsOf
  <2> QED BY <1>5, <2>1, <2>2
<1>18. CASE Wipe
  BY <1>18 DEF Wipe
<1>19. CASE Kill
  <2>1. file'[i] = "whole"
    <3>1. CASE run.at = "work"
      <4>1. file' = file \/ file' = Written
        BY <1>19, Zenon DEF Kill
      <4> QED BY <3>1, <4>1 DEF Written
    <3>2. CASE run.at # "work"
      BY <1>19, <3>2 DEF Kill
    <3> QED BY <3>1, <3>2
  <2>2. Keeps(i)'
    BY <1>19, <2>1 DEF Kill
  <2>3. Updates'
    BY <1>19 DEF Kill, IdsOf
  <2> QED BY <1>5, <2>2, <2>3
<1> QED BY <1>6, <1>7, <1>8, <1>9, <1>10, <1>11, <1>12, <1>13, <1>14, <1>15, <1>16, <1>17,
           <1>18, <1>19 DEF Drain, InRun

(* MapKept's half of the invariant                                         *)
LEMMA OwedStep ==
  /\ TypeOK /\ RunOK /\ InHandOK /\ RemovalOK /\ RegisterOK /\ OwedOK
  /\ [Next]_vars
  => OwedOK'
<1> SUFFICES ASSUME TypeOK, RunOK, InHandOK, RemovalOK, RegisterOK, OwedOK, [Next]_vars
             PROVE  OwedOK'
  OBVIOUS
<1>1. CASE FirstSave \/ StartUpdate \/ ResumeUnfinished
  BY <1>1, EnqueueKeeps
<1>2. CASE ~(FirstSave \/ StartUpdate \/ ResumeUnfinished)
  <2>1. \/ DiscardUnfinished \/ (\E ids \in SUBSET Live : Cancel(ids))
        \/ (\E i \in Ids : resumeRegionDownload(i) \/ pauseRegionDownload(i) \/ DeleteSaved(i))
        \/ Drain \/ Removal \/ ConnectionBack \/ sweepOrphanFiles
        \/ cancelAllRegionDownloads \/ Wipe \/ Kill \/ UNCHANGED vars
    <3>1. CASE User
      <4>1. stopRegionGroup => \E ids \in SUBSET Live : Cancel(ids)
        <5> DEFINE ids == IF \E i \in Live : job[i].update THEN Live \ In("ready") ELSE Live
        <5>1. stopRegionGroup => ids \in SUBSET Live /\ Cancel(ids)
          BY DEF stopRegionGroup
        <5> HIDE DEF ids
        <5> QED BY <5>1
      <4>2. CancelNotice => \E ids \in SUBSET Live : Cancel(ids)
        BY DEF CancelNotice, In, Live
      <4>3. ASSUME NEW i \in Ids, StopJob(i) PROVE \E ids \in SUBSET Live : Cancel(ids)
        <5>1. {i} \in SUBSET Live /\ Cancel({i})
          BY <4>3 DEF StopJob
        <5> QED BY <5>1
      <4> QED BY <1>2, <3>1, <4>1, <4>2, <4>3 DEF User
    <3> QED BY <3>1 DEF Next
  <2>2. (demoted' = demoted /\ owed' \subseteq owed) \/ owed' = {}
    <3> USE DEF ghost, RunKeeps, RemovalKeeps
    <3>1. CASE Drain
      BY <3>1, RunUnderWay, PickSteps, FinishSteps, Types DEF Drain, InRun
    <3>2. CASE Removal
      BY <3>2 DEF Removal, DeleteFiles, DeleteRow, DeleteFile
    <3>3. CASE ~Drain /\ ~Removal
      BY <2>1, <3>3 DEF DiscardUnfinished, Cancel, resumeRegionDownload, pauseRegionDownload,
         DeleteSaved, ConnectionBack, sweepOrphanFiles, cancelAllRegionDownloads, Wipe, Kill, vars
    <3> QED BY <3>1, <3>2, <3>3
  <2>3. ASSUME NEW m \in owed' \ demoted' PROVE Kept(m)'
    <3>1. m \in owed \ demoted /\ m \in Maps
      BY <2>2, <2>3 DEF TypeOK
    <3>2. Kept(m)
      BY <3>1 DEF OwedOK
    <3> QED BY <2>1, <2>3, <3>1, <3>2, OthersKeep
  <2> QED BY <2>3 DEF OwedOK
<1> QED BY <1>1, <1>2

(* A wiped phone has no file and no row either: with no job and no run     *)
(* nobody writes one, and nothing that is left to remove brings one back.  *)
LEMMA WipedStep ==
  TypeOK /\ RunOK /\ NoStall /\ WipeOK /\ StaysWiped /\ [Next]_vars => StaysWiped'
<1> SUFFICES ASSUME TypeOK, RunOK, NoStall, WipeOK, StaysWiped, [Next]_vars
             PROVE  StaysWiped'
  OBVIOUS
<1>0. JobType /\ RunType /\ DiskType /\ RestType
  BY Types
<1> USE DEF StaysWiped, ghost, disk, RunKeeps, RemovalKeeps
<1>1. CASE clean /\ clean'
  <2>1. /\ run.at = "idle" /\ Live = {} /\ row = {} /\ \A i \in Ids : file[i] = "none"
    BY <1>1 DEF WipeOK, Live
  <2>2. CASE User
    <3>1. ~FirstSave /\ ~StartUpdate /\ ~ResumeUnfinished /\ ~DiscardUnfinished
      BY <1>1, <2>1 DEF FirstSave, StartUpdate, ResumeUnfinished, DiscardUnfinished, Enqueue,
         Unfinished
    <3>2. UNCHANGED <<file, row>>
      BY <2>2, <3>1 DEF User, stopRegionGroup, CancelNotice, StopJob, Cancel,
         resumeRegionDownload, pauseRegionDownload, DeleteSaved
    <3> QED BY <2>1, <3>2
  <2>3. ~Drain
    BY <2>1 DEF Drain, Pick, Downloaded, Cancelled, Parked, Failed, Register, Finalize, Swap,
       DropRow, DropFile, SwapFails, Finish
  <2>4. CASE Removal
    BY <2>1, <2>4, <1>0 DEF Removal, DeleteFiles, DeleteRow, DeleteFile, DiskType
  <2>5. CASE ConnectionBack \/ cancelAllRegionDownloads \/ UNCHANGED vars
    BY <2>1, <2>5 DEF ConnectionBack, cancelAllRegionDownloads, vars
  <2>6. CASE sweepOrphanFiles
    BY <2>1, <2>6 DEF sweepOrphanFiles
  <2>7. CASE Wipe
    BY <2>7 DEF Wipe
  <2>8. CASE Kill
    BY <2>1, <2>8 DEF Kill
  <2> QED BY <2>2, <2>3, <2>4, <2>5, <2>6, <2>7, <2>8 DEF Next
<1>2. CASE ~clean /\ clean'
  <2>1. ~User
    BY <1>2 DEF User, FirstSave, StartUpdate, ResumeUnfinished, Enqueue, DiscardUnfinished,
       stopRegionGroup, CancelNotice, StopJob, Cancel, resumeRegionDownload,
       pauseRegionDownload, DeleteSaved
  <2>2. ~Drain
    BY <1>0, <1>2, RunUnderWay, PickSteps, FinishSteps DEF Drain, InRun
  <2>3. Wipe
    BY <1>2, <2>1, <2>2 DEF Next, Removal, DeleteFiles, DeleteRow, DeleteFile, ConnectionBack,
       sweepOrphanFiles, cancelAllRegionDownloads, Kill, vars
  <2> QED BY <2>3 DEF Wipe
<1>3. CASE ~clean'
  BY <1>3
<1> QED BY <1>0, <1>1, <1>2, <1>3 DEF RestType

(* The invariant, which holds at first                                     *)
RegionInv ==
  /\ TypeOK /\ RunOK /\ NoStall /\ InHandOK /\ WipeOK /\ StaysWiped
  /\ RemovalOK /\ RegisterOK /\ ClipOK /\ RegisteredOnDisk /\ LostOK /\ OwedOK

LEMMA RegionInit == Init => RegionInv
<1> SUFFICES ASSUME Init PROVE RegionInv
  OBVIOUS
<1> USE RegionAssumption DEF Init, NoRun, NoJob, Running
<1>1. RunOK /\ NoStall /\ InHandOK
  BY DEF RunOK, NoStall, InHandOK, In
<1>2. WipeOK /\ StaysWiped /\ RemovalOK
  BY DEF WipeOK, StaysWiped, RemovalOK
<1>3. RegisterOK /\ ClipOK
  BY DEF RegisterOK, ClipOK
<1>4. RegisteredOnDisk /\ LostOK /\ OwedOK
  BY DEF RegisteredOnDisk, LostOK, OwedOK
<1> QED BY <1>1, <1>2, <1>3, <1>4, InitTypes DEF RegionInv

(* and always.                                                             *)
LEMMA RegionInvariant == Spec => []RegionInv
<1>1. RegionInv /\ [Next]_vars => RegionInv'
  <2> SUFFICES ASSUME RegionInv, [Next]_vars PROVE RegionInv'
    OBVIOUS
  <2>1. /\ TypeOK /\ RunOK /\ NoStall /\ InHandOK /\ WipeOK /\ StaysWiped
        /\ RemovalOK /\ RegisterOK /\ ClipOK /\ RegisteredOnDisk /\ LostOK /\ OwedOK
    BY DEF RegionInv
  <2>2. TypeOK'
    <3>1. JobType' /\ RunType' /\ DiskType' /\ RestType'
      BY <2>1, JobTypes, RunTypes, DiskTypes, RestTypes
    <3> QED BY <3>1 DEF TypeOK, JobType, RunType, DiskType, RestType, Stops, Outcomes
  <2>3. RunOK' /\ NoStall' /\ InHandOK'
    BY <2>1, RunStep, NoStallStep, InHandStep
  <2>4. WipeOK' /\ StaysWiped' /\ RemovalOK'
    BY <2>1, WipeStep, WipedStep, RemovalStep
  <2>5. RegisterOK' /\ ClipOK' /\ RegisteredOnDisk'
    BY <2>1, RegisterStep, ClipStep, OnDiskStep
  <2>6. LostOK' /\ OwedOK'
    BY <2>1, LostStep, OwedStep
  <2> QED BY <2>2, <2>3, <2>4, <2>5, <2>6 DEF RegionInv
<1> QED BY <1>1, RegionInit, PTL DEF Spec

(* The variables of RegionDownloads have their types in every state.       *)
THEOREM RegionTypes == Spec => []TypeOK
BY RegionInvariant, PTL DEF RegionInv

(* The queue does not stall (pump, regionDownloadQueue.ts): whoever queues *)
(* a job finds a drain under way or starts one, the drain ends only on an  *)
(* empty queue, and a job that downloads is the one in the drain's hands,  *)
(* whoever stops, resumes, wipes or kills it meanwhile.                    *)
THEOREM QueueRuns == Spec => []NoStall
BY RegionInvariant, PTL DEF RegionInv

(* A wiped phone stays wiped (cancelAllRegionDownloads): the wipe deletes  *)
(* only once the drain has ended, so no run it stopped writes a file or a  *)
(* row of the area into the next user's phone.                             *)
THEOREM WipeStays == Spec => []StaysWiped
BY RegionInvariant, PTL DEF RegionInv

(* What is registered in map_artifact is on disk, but while its removal is *)
(* on its way, and but for what a kill or a Stop of an unfinalized         *)
(* download cut.                                                           *)
THEOREM RegisteredStays == Spec => []RegisteredOnDisk
BY RegionInvariant, PTL DEF RegionInv

(* No whole tile file is left that nothing lists: without a row it is the  *)
(* next to be deleted by the removal or the update that took its row.      *)
THEOREM NothingLost == Spec => []NoLostFile
<1>1. RegionInv => NoLostFile
  BY DEF RegionInv, LostOK, NoLostFile
<1> QED BY <1>1, RegionInvariant, PTL

(* An update loses no map (swapSuperseded): whatever becomes of it, a copy *)
(* that was saved stays registered and whole until the new one is, or the  *)
(* user deletes the map; but for updates resumed as first saves.           *)
THEOREM MapsStay == Spec => []MapKept
<1>1. RegionInv => MapKept
  BY DEF RegionInv, OwedOK, Kept, Keeps, MapKept, HasCopy, IdsOf
<1> QED BY <1>1, RegionInvariant, PTL

=============================================================================
