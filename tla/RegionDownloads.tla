--------------------------- MODULE RegionDownloads ---------------------------
(***************************************************************************)
(* Offline map areas on the phone (mobile/src/offline): the queue that     *)
(* downloads the files of one saved area one at a time                     *)
(* (regionDownloadQueue.ts), the two runners that write and register them  *)
(* (regionTileDownload.ts, regionDownloads.ts), an update that swaps new   *)
(* files for old (swapSuperseded), what Saved resumes, discards, deletes   *)
(* and sweeps, and the wipe that stops it all.                             *)
(*                                                                         *)
(* JavaScript runs one step at a time and every await lets others in; the  *)
(* app may be killed between any two steps.  Left out: tiles and bytes,    *)
(* names, the notification's own timers and restarts behind another app,   *)
(* toasts, and a second area (areas share only the queue).  Screens show   *)
(* the queue as it is, but a question may stand while the queue moves on:  *)
(* a Stop may be answered at any time.                                     *)
(***************************************************************************)
EXTENDS Naturals, FiniteSets

CONSTANTS
  Ids,       \* one per download: the job, its file and its row
  Maps,      \* the maps of the area
  Clips,     \* those cut from an archive; the others are tile pyramids
  Areas,     \* the clips of a sharpened area, which no update cuts again
  MapOf,     \* the map an id is drawn for
  MaxKills,  \* how often the app is killed
  None

ASSUME RegionAssumption ==
  /\ Clips \subseteq Maps /\ Areas \subseteq Clips
  /\ MapOf \in [Ids -> Maps]
  /\ MaxKills \in Nat
  /\ None \notin Ids

VARIABLES
  job,       \* the queue: the job of each id
  run,       \* the drain: the job it is at, and how far
  file,      \* each id's file: none, part (it says it is unfinished) or whole
  row,       \* the ids registered in map_artifact
  removing,  \* what the removal of each id has still to do
  wiping,    \* the wipe waits for the queue to stop
  kills,
  owed,      \* ghost: maps saved, and by no first save that is still at it, before
             \* the runs that replace them
  demoted,   \* ghost: maps whose update was resumed as a first save
  cut,       \* ghost: ids whose removal a kill cut short or left the row out
  clean      \* ghost: the phone was wiped and nothing queued since

ghost == <<owed, demoted, cut, clean>>
disk  == <<file, row, removing>>
vars  == <<job, run, disk, wiping, kills, ghost>>

\* paused is "wait" for a connection or for the app to be in front, which
\* end by themselves, and "stalled" by the user or the provider, which do not
JobStates == {"none", "queued", "downloading", "wait", "stalled", "failed", "ready"}
RunPlaces == {"idle", "next", "work", "register", "finalize", "swap", "row", "file", "finish"}

NoJob == [state |-> "none", update |-> FALSE]
NoRun == [at |-> "idle", id |-> None, update |-> FALSE, stop |-> "none",
          holes |-> FALSE, drop |-> {}, old |-> None, outcome |-> "none"]

Init ==
  /\ job = [i \in Ids |-> NoJob]
  /\ run = NoRun
  /\ file = [i \in Ids |-> "none"]
  /\ row = {}
  /\ removing = [i \in Ids |-> "no"]
  /\ wiping = FALSE
  /\ kills = 0
  /\ owed = {} /\ demoted = {} /\ cut = {}
  /\ clean = FALSE

-----------------------------------------------------------------------------
(* The queue                                                               *)

IdsOf(m)  == {i \in Ids : MapOf[i] = m}
Tile(i)   == MapOf[i] \notin Clips
Live      == {i \in Ids : job[i].state # "none"}
In(s)     == {i \in Ids : job[i].state = s}
Running(i) == run.id = i
Fresh     == {i \in Ids : i \notin Live /\ file[i] = "none" /\ i \notin row
                            /\ removing[i] = "no" /\ ~Running(i)}
Settled   == In("ready") \union In("failed")
Busy      == Live \ Settled # {}

\* the maps with a copy no run is at, but for those a first save is still at
FirstSaving(m) == \E i \in Live \ Settled : MapOf[i] = m /\ ~job[i].update
AtRest(i) == /\ i \in row \ run.drop /\ file[i] = "whole" /\ removing[i] = "no"
             /\ ~Running(i) /\ job[i].state \in {"none", "ready", "failed"}
Saved     == {m \in Maps : ~FirstSaving(m) /\ \E i \in IdsOf(m) : AtRest(i)}

(* pump: the drain goes on from here unless it is on                       *)
Pumped == IF run.at = "idle" THEN [run EXCEPT !.at = "next"] ELSE run

(* enqueueRegionDownloads: settled jobs leave, the new ones join           *)
Enqueue(ids, update) ==
  /\ job' = [i \in Ids |->
       IF i \in ids THEN [state |-> "queued", update |-> update]
       ELSE IF job[i].state \in {"ready", "failed"} THEN NoJob ELSE job[i]]
  /\ run' = Pumped
  /\ owed' = owed \union Saved
  /\ cut' = cut \ (ids \ row)
  /\ clean' = FALSE
  /\ UNCHANGED <<disk, wiping, kills>>

(* Save an area: some of its maps, when it is not there                    *)
FirstSave ==
  /\ ~wiping
  /\ Live = {} /\ row = {}
  /\ \E ids \in (SUBSET Fresh) \ {{}} :
       /\ \A i, k \in ids : MapOf[i] = MapOf[k] => i = k
       /\ Enqueue(ids, FALSE)
  /\ UNCHANGED demoted

(* Update: every file of the card again, but for a sharpened area's        *)
Own(m) == IF m \in Areas THEN {} ELSE row \cap IdsOf(m)

StartUpdate ==
  /\ ~wiping
  /\ ~Busy
  /\ \E ids \in (SUBSET Fresh) \ {{}} :
       /\ \A m \in Maps : Cardinality(ids \cap IdsOf(m)) = Cardinality(Own(m))
       /\ Enqueue(ids, TRUE)
  /\ UNCHANGED demoted

(* What Saved lists as unfinished, whose jobs an app kill took, or the     *)
(* next enqueue                                                            *)
Unfinished == {i \in Ids \ Live : Tile(i) /\ file[i] = "part" /\ removing[i] = "no" /\ ~Running(i)}

(* resumeOrphan: as the file tells it, which does not say it is an update  *)
ResumeUnfinished ==
  /\ ~wiping
  /\ Unfinished # {}
  /\ Enqueue(Unfinished, FALSE)
  /\ demoted' = demoted \union ({MapOf[i] : i \in Unfinished} \cap (owed \union Saved))

ConnectionBackUnpumped ==  \* mutant: queued again, and nobody takes it
  /\ \E ids \in (SUBSET In("wait")) \ {{}} :
       job' = [i \in Ids |-> IF i \in ids THEN [job[i] EXCEPT !.state = "queued"] ELSE job[i]]
  /\ UNCHANGED <<run, disk, wiping, kills, ghost>>

(* resumeJobsPausedBy: a connection is back, or the app is in front again  *)
ConnectionBack ==
  /\ \E ids \in (SUBSET In("wait")) \ {{}} :
       job' = [i \in Ids |-> IF i \in ids THEN [job[i] EXCEPT !.state = "queued"] ELSE job[i]]
  /\ run' = Pumped
  /\ UNCHANGED <<disk, wiping, kills, ghost>>

resumeRegionDownload(i) ==
  /\ job[i].state \in {"wait", "stalled", "failed"}
  /\ job' = [job EXCEPT ![i].state = "queued"]
  /\ run' = Pumped
  /\ UNCHANGED <<disk, wiping, kills, ghost>>

(* Offered on the tile task in hand; the last word of the user's is taken  *)
pauseRegionDownload(i) ==
  /\ job[i].state = "downloading"
  /\ Tile(i)
  /\ run' = [run EXCEPT !.stop = "pause"]
  /\ UNCHANGED <<job, disk, wiping, kills, ghost>>

(* cancelRegionDownload of each: the one in hand is asked to stop, a saved *)
(* file of an update stays, and the others leave with all they wrote.      *)
Abandoned(ids) == [i \in Ids |-> IF i \in ids THEN "files" ELSE removing[i]]

Cancel(ids) ==
  LET kept == {i \in ids : ~Running(i) /\ job[i].update /\ job[i].state = "ready"}
      gone == {i \in ids : ~Running(i)} \ kept IN
  /\ job' = [i \in Ids |-> IF i \in gone THEN NoJob ELSE job[i]]
  /\ run' = IF run.id \in ids THEN [run EXCEPT !.stop = "cancel"] ELSE run
  /\ removing' = Abandoned(gone)
  /\ UNCHANGED <<file, row, wiping, kills, ghost>>

(* Stop or Discard on a job's row                                          *)
StopJob(i) == i \in Live /\ Cancel({i})

(* Stop on the run's card: an update keeps what it has saved (jobsToStop)  *)
stopRegionGroup ==
  /\ Live # {}
  /\ Cancel(IF \E i \in Live : job[i].update THEN Live \ In("ready") ELSE Live)

(* Cancel on the notification: what is in hand and what waits for a        *)
(* connection                                                              *)
CancelNotice ==
  \E waiting \in SUBSET In("wait") :
    LET ids == In("queued") \union In("downloading") \union waiting IN
    ids # {} /\ Cancel(ids)

-----------------------------------------------------------------------------
(* The drain: one job at a time                                            *)

RunKeeps == UNCHANGED <<wiping, kills, ghost>>

Pick ==
  /\ run.at = "next"
  /\ \/ /\ In("queued") = {}
        /\ run' = NoRun
        /\ UNCHANGED job
     \/ \E i \in In("queued") :
          /\ run' = [NoRun EXCEPT !.at = "work", !.id = i, !.update = job[i].update]
          /\ job' = [job EXCEPT ![i].state = "downloading"]
  /\ UNCHANGED disk /\ RunKeeps

EndRun(outcome) == run' = [run EXCEPT !.at = "finish", !.outcome = outcome]

(* The file of the run, once it has written to it: a tile file says again  *)
(* that it is unfinished (initRegionMbtiles)                               *)
Written == [file EXCEPT ![run.id] = "part"]

(* It is done: the tile runner looks at what was asked of it, the clip     *)
(* runner at a cancel alone.                                               *)
Downloaded ==
  /\ run.at = "work"
  /\ run.stop # "cancel"
  /\ \E holes \in IF Tile(run.id) THEN BOOLEAN ELSE {FALSE} :
       run' = [run EXCEPT !.at = "register", !.holes = holes]
  /\ file' = Written
  /\ UNCHANGED <<job, row, removing>> /\ RunKeeps

(* A cancel that was seen, or an archive that is not on the CDN            *)
Cancelled ==
  /\ run.at = "work"
  /\ run.stop = "cancel" \/ ~Tile(run.id)
  /\ EndRun("cancelled")
  /\ file' = [file EXCEPT ![run.id] = "none"]
  /\ cut' = cut \union ({run.id} \cap row)
  /\ UNCHANGED <<job, row, removing, wiping, kills, owed, demoted, clean>>

ParkedAsAsked ==  \* mutant: the reason is what was asked, not why it ended
  /\ run.at = "work"
  /\ EndRun(run.stop)
  /\ UNCHANGED <<job, file, row, removing>> /\ RunKeeps

(* The provider, the connection or the app's side halted it (settledStop:  *)
(* what the user asked for wins), the clip at its look at the connection,  *)
(* whatever was asked meanwhile.                                           *)
Parked ==
  /\ run.at = "work"
  /\ IF Tile(run.id)
     THEN /\ run.stop # "cancel"
          /\ \E why \in IF run.stop = "pause" THEN {"stalled"} ELSE {"wait", "stalled"} : EndRun(why)
     ELSE EndRun("wait")
  /\ file' \in {file, Written}
  /\ UNCHANGED <<job, row, removing>> /\ RunKeeps

(* A halt with too many dead tiles, or anything thrown, a full phone or a  *)
(* locked file among it: the file stays as a checkpoint, but for a clip    *)
(* whose archive refuses it, and may be whole if its journal was locked.   *)
Failed ==
  /\ run.at \in {"work", "register", "finalize"}
  /\ EndRun("failed")
  /\ \E left \in CASE run.at = "work" /\ Tile(run.id)  -> {file[run.id], "part"}
                    [] run.at = "work" /\ ~Tile(run.id) -> {file[run.id], "part", "none"}
                    [] run.at = "register"              -> {file[run.id]}
                    [] run.at = "finalize"              -> {file[run.id], "whole"} :
       file' = [file EXCEPT ![run.id] = left]
  /\ UNCHANGED <<job, row, removing>> /\ RunKeeps

RegisterLast ==  \* mutant: the marker goes before the row is there
  /\ run.at = "register"
  /\ IF file[run.id] = "whole"
     THEN /\ row' = row \union {run.id}
          /\ run' = [run EXCEPT !.at = "swap"]
          /\ UNCHANGED file
     ELSE file' = [file EXCEPT ![run.id] = "whole"] /\ UNCHANGED <<run, row>>
  /\ UNCHANGED <<job, removing>> /\ RunKeeps

(* insertArtifact; then the tile runner drops the marker that says the     *)
(* file is unfinished, which a clip has none of.                           *)
Register ==
  /\ run.at = "register"
  /\ row' = row \union {run.id}
  /\ IF Tile(run.id)
     THEN run' = [run EXCEPT !.at = "finalize"] /\ UNCHANGED file
     ELSE run' = [run EXCEPT !.at = "swap"] /\ file' = [file EXCEPT ![run.id] = "whole"]
  /\ UNCHANGED <<job, removing>> /\ RunKeeps

Finalize ==
  /\ run.at = "finalize"
  /\ file' = [file EXCEPT ![run.id] = "whole"]
  /\ run' = [run EXCEPT !.at = "swap"]
  /\ UNCHANGED <<job, row, removing>> /\ RunKeeps

(* settleUpdate: the older files of the map go, or, if this one has holes, *)
(* this one                                                                *)
settleUpdate ==
  LET older == (row \cap IdsOf(MapOf[run.id])) \ {run.id} IN
  IF older # {} /\ run.holes
  THEN [drop |-> {run.id}, outcome |-> "failed"]
  ELSE [drop |-> older, outcome |-> "ready"]

AfterDrop(left) == IF left = {} THEN "finish" ELSE "row"

Swap ==
  /\ run.at = "swap"
  /\ run' = [run EXCEPT !.at = AfterDrop(settleUpdate.drop),
                        !.drop = settleUpdate.drop, !.outcome = settleUpdate.outcome,
                        !.holes = FALSE]
  /\ UNCHANGED <<job, disk>> /\ RunKeeps

(* deleteDownloadedArtifact of each: the row, then the file it pointed at; *)
(* a row that is gone already points at none.                              *)
DropRow ==
  /\ run.at = "row"
  /\ \E i \in run.drop :
       /\ row' = row \ {i}
       /\ run' = IF i \in row THEN [run EXCEPT !.at = "file", !.drop = @ \ {i}, !.old = i]
                 ELSE [run EXCEPT !.at = AfterDrop(run.drop \ {i}), !.drop = @ \ {i}]
  /\ UNCHANGED <<job, file, removing>> /\ RunKeeps

DropFile ==
  /\ run.at = "file"
  /\ file' = [file EXCEPT ![run.old] = "none"]
  /\ run' = [run EXCEPT !.at = AfterDrop(run.drop), !.old = None]
  /\ UNCHANGED <<job, row, removing>> /\ RunKeeps

(* The registry failed the swap: both copies stay, and it counts as saved  *)
SwapFails ==
  /\ run.at \in {"swap", "row"}
  /\ run' = [run EXCEPT !.at = "finish", !.drop = {}, !.outcome = "ready"]
  /\ UNCHANGED <<job, disk>> /\ RunKeeps

StoppedLateAny == run.stop = "cancel" /\ run.outcome = "ready"  \* mutant: of an update too

(* What the run became.  A first save that was stopped late goes as if it  *)
(* had been stopped in time.                                               *)
StoppedLate == run.stop = "cancel" /\ run.outcome = "ready" /\ ~run.update

Finish ==
  /\ run.at = "finish"
  /\ run' = [NoRun EXCEPT !.at = "next"]
  /\ IF run.outcome = "cancelled" \/ StoppedLate
     THEN job' = [job EXCEPT ![run.id] = NoJob]
     ELSE job' = IF run.id \in Live THEN [job EXCEPT ![run.id].state = run.outcome] ELSE job
  /\ removing' = IF StoppedLate THEN Abandoned({run.id}) ELSE removing
  /\ UNCHANGED <<file, row>> /\ RunKeeps

-----------------------------------------------------------------------------
(* Removals                                                                *)

RemovalKeeps == UNCHANGED <<job, run, wiping, kills, ghost>>

DeleteFilesOnly(i) ==  \* mutant: its row is forgotten
  /\ removing[i] = "files"
  /\ removing' = [removing EXCEPT ![i] = "no"]
  /\ file' = [file EXCEPT ![i] = "none"]
  /\ UNCHANGED row /\ RemovalKeeps

(* deleteAbandonedRegion: the files, then deleteDownloadedArtifact         *)
DeleteFiles(i) ==
  /\ removing[i] = "files"
  /\ removing' = [removing EXCEPT ![i] = "row"]
  /\ file' = [file EXCEPT ![i] = "none"]
  /\ UNCHANGED row /\ RemovalKeeps

DeleteRow(i) ==
  /\ removing[i] = "row"
  /\ removing' = [removing EXCEPT ![i] = IF i \in row /\ file[i] # "none" THEN "file" ELSE "no"]
  /\ row' = row \ {i}
  /\ UNCHANGED file /\ RemovalKeeps

DeleteFile(i) ==
  /\ removing[i] = "file"
  /\ removing' = [removing EXCEPT ![i] = "no"]
  /\ file' = [file EXCEPT ![i] = "none"]
  /\ UNCHANGED row /\ RemovalKeeps

(* Delete in Saved, of a layer or of each of the card's, whose download is *)
(* over                                                                    *)
DeleteSaved(i) ==
  /\ ~wiping
  /\ i \in row /\ removing[i] = "no"
  /\ job[i].state \in {"none", "ready"} /\ ~Running(i)
  /\ removing' = [removing EXCEPT ![i] = "row"]
  /\ owed' = owed \ {MapOf[i]}
  /\ UNCHANGED <<job, run, file, row, wiping, kills, demoted, cut, clean>>

(* discardOrphan: the files of what Saved lists as unfinished              *)
DiscardUnfinished ==
  /\ ~wiping
  /\ Unfinished # {}
  /\ file' = [i \in Ids |-> IF i \in Unfinished THEN "none" ELSE file[i]]
  /\ cut' = cut \union (Unfinished \cap row)
  /\ UNCHANGED <<job, run, row, removing, wiping, kills, owed, demoted, clean>>

(* Opening Saved sweeps the clips nothing points at                        *)
sweepOrphanFiles ==
  /\ file' = [i \in Ids |-> IF Tile(i) \/ i \in row \union Live THEN file[i] ELSE "none"]
  /\ file' # file
  /\ UNCHANGED <<job, run, row, removing, wiping, kills, ghost>>

(* The wipe: every job is forgotten, the one in hand asked to stop, and    *)
(* nothing deleted before the drain has ended.  One that gives up waiting  *)
(* says so, and is not followed here.                                      *)
cancelAllRegionDownloads ==
  /\ ~wiping
  /\ wiping' = TRUE
  /\ job' = [i \in Ids |-> NoJob]
  /\ run' = IF run.id = None THEN run ELSE [run EXCEPT !.stop = "cancel"]
  /\ UNCHANGED <<disk, kills, ghost>>

WipeAtOnce ==  \* mutant: the run in hand is asked to stop and not waited for
  /\ wiping
  /\ wiping' = FALSE
  /\ row' = {}
  /\ file' = [i \in Ids |-> "none"]
  /\ clean' = TRUE
  /\ owed' = {} /\ demoted' = {} /\ cut' = {}
  /\ UNCHANGED <<job, run, removing, kills>>

Wipe ==
  /\ wiping
  /\ run.at = "idle"
  /\ wiping' = FALSE
  /\ row' = {}
  /\ file' = [i \in Ids |-> "none"]
  /\ clean' = TRUE
  /\ owed' = {} /\ demoted' = {} /\ cut' = {}
  /\ UNCHANGED <<job, run, removing, kills>>

(* The app is killed: the queue was in memory                              *)
Kill ==
  /\ kills < MaxKills
  /\ kills' = kills + 1
  /\ job' = [i \in Ids |-> NoJob]
  /\ run' = NoRun
  /\ removing' = [i \in Ids |-> "no"]
  /\ wiping' = FALSE
  /\ cut' = cut \union {i \in Ids : removing[i] # "no"}
                \union ({run.old} \ {None})
  /\ file' \in IF run.at = "work" THEN {file, Written} ELSE {file}
  /\ UNCHANGED <<row, owed, demoted, clean>>

User ==
  \/ FirstSave \/ StartUpdate \/ ResumeUnfinished \/ DiscardUnfinished
  \/ stopRegionGroup \/ CancelNotice
  \/ \E i \in Ids : resumeRegionDownload(i) \/ pauseRegionDownload(i) \/ StopJob(i) \/ DeleteSaved(i)

Drain ==
  \/ Pick \/ Downloaded \/ Cancelled \/ Parked \/ Failed
  \/ Register \/ Finalize \/ Swap \/ DropRow \/ DropFile \/ SwapFails \/ Finish

Removal == \E i \in Ids : DeleteFiles(i) \/ DeleteRow(i) \/ DeleteFile(i)

Next ==
  \/ User \/ Drain \/ Removal
  \/ ConnectionBack \/ sweepOrphanFiles
  \/ cancelAllRegionDownloads \/ Wipe \/ Kill

Spec == Init /\ [][Next]_vars

-----------------------------------------------------------------------------
(* Properties                                                              *)

TypeOK ==
  /\ job \in [Ids -> [state : JobStates, update : BOOLEAN]]
  /\ run \in [at : RunPlaces, id : Ids \union {None}, update : BOOLEAN,
              stop : {"none", "pause", "cancel"}, holes : BOOLEAN, drop : SUBSET Ids,
              old : Ids \union {None},
              outcome : {"none", "cancelled", "wait", "stalled", "failed", "ready"}]
  /\ file \in [Ids -> {"none", "part", "whole"}]
  /\ row \subseteq Ids
  /\ removing \in [Ids -> {"no", "files", "row", "file"}]
  /\ wiping \in BOOLEAN
  /\ kills \in 0..MaxKills
  /\ owed \subseteq Maps /\ demoted \subseteq Maps
  /\ cut \subseteq Ids
  /\ clean \in BOOLEAN

(* An area keeps every map it had: whatever becomes of an update - failed, *)
(* parked, stopped at any moment, killed - an older or a newer copy is     *)
(* registered and whole, until the user deletes the map.  Not so of an     *)
(* update that a kill cut short and Saved resumed as if it were a first    *)
(* save: it drops the old copy, and a late Stop then drops the new one.    *)
HasCopy(m) == \E i \in row \cap IdsOf(m) : file[i] = "whole"

MapKept == \A m \in owed \ demoted : HasCopy(m)

(* What is registered is on disk, but while its removal is on its way, and *)
(* but for what a kill cut short, or a Stop or Discard of a download that  *)
(* was registered and not yet finalized.                                   *)
OnDisk(i) == file[i] # "none" \/ removing[i] = "row"

RegisteredOnDisk == \A i \in row \ cut : OnDisk(i)

(* A finished tile file without a row, which nothing lists and nothing     *)
(* sweeps, is one whose removal is on its way.                             *)
NoLostFile ==
  \A i \in Ids \ (row \union cut) :
    Tile(i) /\ file[i] = "whole" => removing[i] # "no" \/ run.old = i

(* The queue does not stall: a job that is queued has a drain to take it,  *)
(* and one that is downloading has the drain's token.                      *)
NoStall ==
  /\ In("queued") # {} => run.at # "idle"
  /\ \A i \in In("downloading") : Running(i)

(* A wiped phone stays wiped: no run that the wipe stopped writes a file   *)
(* or a row of the area afterwards.                                        *)
StaysWiped == clean => row = {} /\ \A i \in Ids : file[i] = "none"

=============================================================================
