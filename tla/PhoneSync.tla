------------------------------- MODULE PhoneSync -------------------------------
(***************************************************************************)
(* The sync of one phone with its account: the local enqueue               *)
(* (mobile/src/sync/outbox.ts), the flush (flush.ts), the delta pull       *)
(* (deltaPull.ts, mirrorStore.ts), the actions of the Sync issues screen   *)
(* (syncIssues.ts) and POST /sync/push and GET /sync/delta of the API      *)
(* (api/src/routes/sync.ts), with another device of the same account, a    *)
(* lossy connection and crashes of the app.                                *)
(*                                                                         *)
(* The JavaScript of the app is one thread, so a step is what runs between *)
(* two awaits: one SQL statement, or one transaction under the write lock. *)
(* The flush and the pull hold copies of rows across such steps; the       *)
(* user's actions come in between.                                         *)
(***************************************************************************)
EXTENDS OutboxPlan

CONSTANTS
  Known,      \* the rows both sides hold at the start
  Refusals,   \* how the account may refuse a well-formed op
  GiveUp,     \* SYNC_GIVE_UP_FAILURES
  Allowance   \* bound: how often each thing the environment may do happens

EnvironmentActs ==
  {"loss", "crash", "foreign", "refuse", "discard", "late", "reset"}

ASSUME SyncAssumption ==
  /\ Known \subseteq Ids
  /\ Refusals \subseteq {"temporary", "final"}
  /\ GiveUp \in Nat \ {0}
  /\ Allowance \in [EnvironmentActs -> Nat]

VARIABLES
  outbox,     \* table outbox
  nextSeq,    \* its AUTOINCREMENT counter
  mirror,     \* tables places and trip_logs
  shelf,      \* table conflict_shelf
  cursor,     \* sync_state 'cursor'; 0 stands for no cursor
  applyFailed,\* sync_state 'applyFailedAt' is set
  pc,         \* where the sync cycle stands
  batch,      \* the ops of the batch, as loaded
  answers,    \* the results not yet applied
  snap,       \* the outbox as the pull or the confirm step loaded it
  page,       \* the delta page in hand
  srv,        \* the account's rows
  tomb,       \* when a row was deleted, 0 for never
  clock,      \* the account's clock; updatedAt and deletedAt are its values
  reqs,       \* push requests the API is working on
  stamp,      \* the last value of "text" anybody wrote
  left,       \* what remains of Allowance
  ghost       \* what the properties remember; no guard reads it but Create's

phoneVars   == <<outbox, nextSeq, mirror, shelf, cursor, applyFailed>>
cycleVars   == <<pc, batch, answers, snap, page>>
accountVars == <<srv, tomb, clock>>
vars == <<phoneVars, cycleVars, accountVars, reqs, stamp, left, ghost>>

-----------------------------------------------------------------------------
(* Values                                                                  *)

Rows    == [vals : RowVals, at : Nat]

ASSUME RowAssumption == None \notin Rows

Mirrors == [Ids -> Rows \cup {None}]

Statuses == {"applied", "alreadyApplied", "rejected", "dependencyFailed"}
Codes    == {"ok", "gone", "temporary", "final"}
Answers  == [status : Statuses, row : Rows \cup {None}, receipts : OpFields,
             code : Codes]

ASSUME AnswerAssumption == None \notin Answers

Requests == [todo : SUBSET Seqs, batch : Outboxes, failed : SUBSET Ids,
             answers : [Seqs -> Answers \cup {None}], read : Rows \cup {None}]
Lanes    == {"live", "late"}

ASSUME RequestAssumption == None \notin Requests

Pages == [rows : Mirrors, dead : SUBSET Ids, at : Nat]

Pcs == {"idle", "select", "loaded", "sent", "apply", "shelve", "reread",
        "upsert", "pull", "fetched", "merge"}

Folds == {"sentCreate", "sentUpdate", "loaded"}
Marks == Folds \cup {"overtaken", "refused", "uncovered", "cut"}

NoOps     == [s \in Seqs |-> None]
Live(rows) == {i \in Ids : rows[i] # None}

(* Mutant: no defaults.                                                    *)
Unfilled(fields) == fields

(* What a row holds once an op's fields are laid over nothing: the columns *)
(* a create leaves out take their defaults.                                *)
Filled(fields) ==
  [f \in Fields |-> IF fields[f] # Unset THEN fields[f]
                    ELSE IF f = "text" THEN 0 ELSE NoPlace]

(* Mutant: the trips that link to a place keep their link.                 *)
WithoutRowOnly(rows, i, at) == [rows EXCEPT ![i] = None]

(* A place leaves: its row goes and every trip forgets it, at the time at  *)
(* when at is not 0.  (cascadePlaceDelete; deletePlacesCascade)            *)
Without(rows, i, at) ==
  [j \in Ids |->
     IF j = i THEN None
     ELSE IF i \in Places /\ rows[j] # None /\ rows[j].vals["ref"] = i
          THEN [vals |-> [rows[j].vals EXCEPT !["ref"] = NoPlace],
                at   |-> IF at = 0 THEN rows[j].at ELSE at]
          ELSE rows[j]]

Spend(act) == left[act] > 0 /\ left' = [left EXCEPT ![act] = @ - 1]

-----------------------------------------------------------------------------
(* Initial state: a phone that has pulled the rows of Known.               *)

KnownRow == [vals |-> Filled(NoFields), at |-> 1]

Init ==
  /\ outbox = NoOps
  /\ nextSeq = 1
  /\ srv = [i \in Ids |-> IF i \in Known THEN KnownRow ELSE None]
  /\ mirror = srv
  /\ shelf = {}
  /\ cursor = 1
  /\ applyFailed = FALSE
  /\ pc = "idle"
  /\ batch = NoOps
  /\ answers = NoOps
  /\ snap = NoOps
  /\ page = None
  /\ tomb = [i \in Ids |-> 0]
  /\ clock = 1
  /\ reqs = [k \in Lanes |-> None]
  /\ stamp = 0
  /\ left = Allowance
  /\ ghost = [minted |-> Known, owed |-> [i \in Ids |-> 0], gone |-> {},
              marks |-> {}, resetMidPull |-> FALSE,
              foreign |-> {}, seen |-> {}, masked |-> {},
              displaced |-> {}, excused |-> {}]

-----------------------------------------------------------------------------
(* What the user does on the phone.  Each is one transaction and may run   *)
(* between any two steps of a cycle.                                       *)

Enqueue(e) ==
  /\ Appends(outbox, e) => nextSeq <= MaxSeq
  /\ outbox' = AfterEnqueue(outbox, nextSeq, e)
  /\ nextSeq' = IF Appends(outbox, e) THEN nextSeq + 1 ELSE nextSeq

(* The queued ops of e's row the enqueue changes or drops although the     *)
(* account may see, or have seen, their earlier form.                      *)
FoldsOf(e) ==
  LET touched == MergeTargets(outbox, e) \cup Dropped(outbox, e)
  IN {f \in {e.id} \X Folds :
        \E s \in touched :
          \/ f[2] = "loaded" /\ pc = "loaded" /\ batch[s] # None
          \/ f[2] = "sentCreate" /\ outbox[s].op = "create" /\ outbox[s].sent
          \/ f[2] = "sentUpdate" /\ outbox[s].op = "update" /\ outbox[s].sent}

(* The cycle is about to write a mirror row from a copy of the outbox that *)
(* does not hold this edit.                                                *)
Overtaken(i) ==
  \/ pc = "merge"
  \/ pc = "upsert" /\ batch[First(Held(answers))].id = i

MarkOvertaken(i) == IF Overtaken(i) THEN {<<i, "overtaken">>} ELSE {}

(* The ops of a queue that carry a text for row i.                         *)
TextOps(ob, i) == {s \in OfRow(ob, i) : ob[s].fields["text"] # Unset}

(* The user takes the last text of a row out of the outbox, and an earlier *)
(* one stays.                                                              *)
MarkUncovered(s, rest) ==
  LET i == outbox[s].id
  IN IF /\ s \in TextOps(outbox, i) /\ TextOps(rest, i) # {}
        /\ \A r \in TextOps(rest, i) : r < s
     THEN {<<i, "uncovered">>} ELSE {}

Remember(e, owed, gone) ==
  ghost' = [ghost EXCEPT
              !.minted = @ \cup {e.id},
              !.owed[e.id] = owed,
              !.gone = gone,
              !.marks = @ \cup FoldsOf(e) \cup MarkOvertaken(e.id)]

LinkChoices == {NoPlace} \cup (Places \cap Live(mirror))

(* createPlaceLocal, createTripLocal                                       *)
Create(i) ==
  /\ i \notin ghost.minted
  /\ stamp < MaxStamp
  /\ stamp' = stamp + 1
  /\ \E ref \in IF i \in Trips THEN LinkChoices ELSE {Unset} :
       LET fields == [NoFields EXCEPT !["text"] = stamp', !["ref"] = ref]
           e == NewEntry("create", i, fields, NoFields, 0)
       IN /\ Enqueue(e)
          /\ mirror' = [mirror EXCEPT ![i] = [vals |-> Filled(fields), at |-> 0]]
          /\ Remember(e, stamp', ghost.gone)
  /\ UNCHANGED <<shelf, cursor, applyFailed, cycleVars, accountVars, reqs, left>>

(* enqueueUpdate of one field                                              *)
Update(i, f, v) ==
  LET e == NewEntry("update", i, [NoFields EXCEPT ![f] = v],
                    [NoFields EXCEPT ![f] = mirror[i].vals[f]], mirror[i].at)
  IN /\ mirror[i] # None
     /\ Enqueue(e)
     /\ mirror' = [mirror EXCEPT ![i].vals[f] = v]
     /\ Remember(e, IF f = "text" THEN v ELSE ghost.owed[i], ghost.gone)
     /\ UNCHANGED <<shelf, cursor, applyFailed, cycleVars, accountVars, reqs, left>>

(* updatePlaceLocal, updateTripLocal                                       *)
UpdateText(i) ==
  /\ stamp < MaxStamp
  /\ stamp' = stamp + 1
  /\ Update(i, "text", stamp')

(* updateTripLocal with places                                             *)
UpdateRef(i) ==
  /\ i \in Trips
  /\ mirror[i] # None
  /\ \E p \in LinkChoices :
       /\ p # mirror[i].vals["ref"]
       /\ Update(i, "ref", p)
  /\ UNCHANGED stamp

(* deletePlaceLocal, deleteTripLocal                                       *)
Delete(i) ==
  LET e == NewEntry("delete", i, NoFields, NoFields, 0)
  IN /\ mirror[i] # None
     /\ Enqueue(e)
     /\ mirror' = Without(mirror, i, 0)
     /\ Remember(e, 0, ghost.gone \cup {i})
     /\ UNCHANGED <<shelf, cursor, applyFailed, cycleVars, accountVars, reqs,
                    stamp, left>>

(* retryParkedOp, which the screen offers where opAdvice says canRetry     *)
Retry(s) ==
  /\ outbox[s] # None
  /\ outbox[s].state = "blocked"
  /\ outbox[s].error = "temporary"
  /\ outbox' = [outbox EXCEPT ![s].state = "queued", ![s].error = "none",
                              ![s].failures = 0]
  /\ UNCHANGED <<nextSeq, mirror, shelf, cursor, applyFailed, cycleVars,
                 accountVars, reqs, stamp, left, ghost>>

(* revertDiscardedUpdate: the base values of the fields no other op owns.  *)
Reverted(row, base, ownedByOthers) ==
  [row EXCEPT !.vals =
     [f \in Fields |-> IF base[f] # Unset /\ ownedByOthers[f] = Unset
                       THEN base[f] ELSE row.vals[f]]]

(* discardParkedOp: a create takes its row and its lineage along, an       *)
(* update is undone in the mirror.                                         *)
Discard(s) ==
  LET e == outbox[s]
      without == [outbox EXCEPT ![s] = None]
  IN /\ e # None
     /\ e.state \in {"blocked", "deadRemote"}
     /\ Spend("discard")
     /\ outbox' = [r \in Seqs |->
                     IF e.op = "create" /\ outbox[r] # None /\ outbox[r].id = e.id
                     THEN None ELSE without[r]]
     /\ mirror' = IF e.op = "create" THEN [mirror EXCEPT ![e.id] = None]
                  ELSE IF e.op = "update" /\ mirror[e.id] # None
                  THEN [mirror EXCEPT ![e.id] =
                          Reverted(@, e.base, CollectDirty(without, e.id))]
                  ELSE mirror
     /\ ghost' = [ghost EXCEPT
                    !.owed[e.id] =
                       IF e.op = "create" \/ e.fields["text"] = @ THEN 0 ELSE @,
                    !.marks = @ \cup MarkOvertaken(e.id) \cup MarkUncovered(s, outbox')]
     /\ UNCHANGED <<nextSeq, shelf, cursor, applyFailed, cycleVars,
                    accountVars, reqs, stamp>>

(* recreateFromDeadRemote: the phone's own copy with the dead edit over it *)
(* becomes a new place; the dead op goes.                                  *)
Recreate(s, i) ==
  LET e == outbox[s]
      fields == Overlay([mirror[e.id].vals EXCEPT !["ref"] = Unset], e.fields)
      new == NewEntry("create", i, fields, NoFields, 0)
  IN /\ e # None
     /\ e.state = "deadRemote"
     /\ e.id \in Places
     /\ mirror[e.id] # None
     /\ i \in Places \ ghost.minted
     /\ nextSeq <= MaxSeq
     /\ outbox' = [AfterEnqueue(outbox, nextSeq, new) EXCEPT ![s] = None]
     /\ nextSeq' = nextSeq + 1
     /\ mirror' = [mirror EXCEPT ![i] = [vals |-> Filled(fields), at |-> 0]]
     /\ ghost' = [ghost EXCEPT
                    !.minted = @ \cup {i},
                    !.owed[i] = fields["text"],
                    !.owed[e.id] = 0,
                    !.marks = @ \cup MarkUncovered(s, outbox')]
     /\ UNCHANGED <<shelf, cursor, applyFailed, cycleVars, accountVars, reqs,
                    stamp, left>>

(* resyncFromScratch: wipeMirror keeps the rows a create op still names.   *)
Reset ==
  /\ applyFailed
  /\ Spend("reset")
  /\ mirror' = [i \in Ids |->
                  IF \E s \in OfRow(outbox, i) : outbox[s].op = "create"
                  THEN mirror[i] ELSE None]
  /\ cursor' = 0
  /\ applyFailed' = FALSE
  /\ ghost' = [ghost EXCEPT !.resetMidPull = @ \/ pc \in {"fetched", "merge"}]
  /\ UNCHANGED <<outbox, nextSeq, shelf, cycleVars, accountVars, reqs, stamp>>

-----------------------------------------------------------------------------
(* The flush (flushOutbox, sendBatch)                                      *)

(* Mutants: nothing takes the retrying ops up again; the parked ops too.   *)
NoRetries   == {"inflight"}
EveryState  == {"inflight", "retrying", "blocked"}

(* Crash recovery and the one retry per cycle are the same statement.      *)
RecoveredStates == {"inflight", "retrying"}

StartCycle ==
  /\ pc = "idle"
  /\ outbox' = [s \in Seqs |->
                  IF s \in InState(outbox, RecoveredStates)
                  THEN [outbox[s] EXCEPT !.state = "queued"] ELSE outbox[s]]
  /\ pc' = "select"
  /\ UNCHANGED <<nextSeq, mirror, shelf, cursor, applyFailed, batch, answers,
                 snap, page, accountVars, reqs, stamp, left, ghost>>

LoadBatch ==
  /\ pc = "select"
  /\ LET ready == SelectFlushBatch(outbox)
     IN IF ready = {} THEN pc' = "pull" /\ UNCHANGED batch
        ELSE /\ pc' = "loaded"
             /\ batch' = [s \in Seqs |-> IF s \in ready THEN outbox[s] ELSE None]
  /\ UNCHANGED <<phoneVars, answers, snap, page, accountVars, reqs, stamp, left,
                 ghost>>

(* UPDATE ... WHERE seq IN: rows deleted since the load stay deleted, but  *)
(* the request carries the batch as it was loaded.                         *)
Send ==
  /\ pc = "loaded"
  /\ outbox' = [s \in Seqs |->
                  IF batch[s] # None /\ outbox[s] # None
                  THEN [outbox[s] EXCEPT !.state = "inflight", !.sent = TRUE]
                  ELSE outbox[s]]
  /\ reqs' = [reqs EXCEPT !["live"] =
                [todo |-> Held(batch), batch |-> batch, failed |-> {},
                 answers |-> NoOps, read |-> None]]
  /\ pc' = "sent"
  /\ UNCHANGED <<nextSeq, mirror, shelf, cursor, applyFailed, batch, answers,
                 snap, page, accountVars, stamp, left, ghost>>

(* The other device's texts that undelivered receipts name.                *)
Undelivered(results) ==
  {results[s].receipts["text"] : s \in Held(results)} \cap Stamps

(* No answer, or a 5xx: the batch is queued again and the cycle goes on to *)
(* its pull.  A request given up on may still be running at the API.       *)
RequestFails ==
  /\ pc = "sent"
  /\ outbox' = [s \in Seqs |->
                  IF batch[s] # None /\ outbox[s] # None
                  THEN [outbox[s] EXCEPT !.state = "queued"] ELSE outbox[s]]
  /\ \/ reqs["live"] = None /\ UNCHANGED <<reqs, left, ghost>>
     \/ /\ reqs["live"] # None
        /\ Spend("loss")
        /\ reqs' = [reqs EXCEPT !["live"] = None]
        /\ ghost' = [ghost EXCEPT
                       !.excused = @ \cup Undelivered(reqs["live"].answers)]
     \/ /\ reqs["live"] # None
        /\ reqs["live"].todo # {}
        /\ Spend("late")
        /\ reqs["late"] = None
        /\ reqs' = [reqs EXCEPT !["live"] = None, !["late"] = reqs["live"]]
        /\ ghost' = [ghost EXCEPT
                       !.excused = @ \cup Undelivered(reqs["live"].answers)]
  /\ batch' = NoOps
  /\ pc' = "pull"
  /\ UNCHANGED <<nextSeq, mirror, shelf, cursor, applyFailed, answers, snap, page,
                 accountVars, stamp>>

Reply ==
  /\ pc = "sent"
  /\ reqs["live"] # None
  /\ reqs["live"].todo = {}
  /\ answers' = reqs["live"].answers
  /\ reqs' = [reqs EXCEPT !["live"] = None]
  /\ pc' = "apply"
  /\ UNCHANGED <<phoneVars, batch, snap, page, accountVars, stamp, left, ghost>>

-----------------------------------------------------------------------------
(* applyOpResult, one result after the other                               *)

Cur == First(Held(answers))
Op  == batch[Cur]
Result == answers[Cur]

Succeeded == {"applied", "alreadyApplied"}

NextResult == answers' = [answers EXCEPT ![Cur] = None] /\ pc' = "apply"

AfterShelving ==
  IF Result.row # None /\ Op.op # "delete"
  THEN pc' = "reread" /\ UNCHANGED answers
  ELSE NextResult

BatchDone ==
  /\ pc = "apply"
  /\ Held(answers) = {}
  /\ batch' = NoOps
  /\ pc' = "select"
  /\ UNCHANGED <<phoneVars, answers, snap, page, accountVars, reqs, stamp, left,
                 ghost>>

ApplySuccess ==
  /\ pc = "apply"
  /\ Held(answers) # {}
  /\ Result.status \in Succeeded
  /\ outbox' = [outbox EXCEPT ![Cur] = None]
  /\ IF Carries(Result.receipts) # {}
     THEN pc' = "shelve" /\ UNCHANGED answers
     ELSE AfterShelving
  /\ UNCHANGED <<nextSeq, mirror, shelf, cursor, applyFailed, batch, snap, page,
                 accountVars, reqs, stamp, left, ghost>>

(* The receipts that are neither about the base, nor this op's own write,  *)
(* nor one of the row's edits still to be sent, nor about an empty field.  *)
RealConflicts ==
  LET afterOwn == FilterSelfConflicts(Result.receipts, Op.base, Op.fields)
      later == {s \in OfRow(outbox, Op.id) \cap InState(outbox, {"queued", "inflight"}) :
                  s > Cur}
  IN {f \in Carries(afterOwn) :
        /\ afterOwn[f] # 0
        /\ \A s \in later : FilterSelfConflicts(afterOwn, Op.base, outbox[s].fields)[f] # Unset}

Shelve ==
  /\ pc = "shelve"
  /\ shelf' = shelf \cup
       {[id |-> Op.id, field |-> f, own |-> Op.fields[f],
         server |-> Result.receipts[f]] : f \in RealConflicts}
  /\ AfterShelving
  /\ UNCHANGED <<outbox, nextSeq, mirror, cursor, applyFailed, batch, snap, page,
                 accountVars, reqs, stamp, left, ghost>>

Reread ==
  /\ pc = "reread"
  /\ snap' = [s \in Seqs |-> IF s \in OfRow(outbox, Op.id) THEN outbox[s] ELSE None]
  /\ pc' = "upsert"
  /\ UNCHANGED <<phoneVars, batch, answers, page, accountVars, reqs, stamp, left,
                 ghost>>

(* Mutant: the account's row as it is.                                     *)
ConfirmedRaw(row, pending) == row

(* applyConfirmedRow: pending scalars over the row.  A trip's pending      *)
(* placeIds has no column of that name, so its links are the server's.     *)
Confirmed(row, pending) ==
  [row EXCEPT !.vals = Overlay(@, [pending EXCEPT !["ref"] = Unset])]

Texts(rows) == {rows[i].vals["text"] : i \in Live(rows)}

(* Of the texts of the other device that come in, what reaches the screen, *)
(* and what a pending edit hides there while the row's version moves on.   *)
Look(texts) ==
  [ghost EXCEPT
     !.seen   = @ \cup (Texts(mirror') \cap ghost.foreign),
     !.masked = @ \cup ((texts \cap ghost.foreign) \ Texts(mirror'))]

ConfirmRow ==
  /\ pc = "upsert"
  /\ mirror' = [mirror EXCEPT ![Op.id] =
                  Confirmed(Result.row, CollectDirty(snap, Op.id))]
  /\ snap' = NoOps
  /\ NextResult
  /\ ghost' = Look({Result.row.vals["text"]})
  /\ UNCHANGED <<outbox, nextSeq, shelf, cursor, applyFailed, batch, page,
                 accountVars, reqs, stamp, left>>

(* shouldGiveUpOnSyncOp: the count is not enough, the day must be over too.*)
Park(e, code, dayOver) ==
  IF code = "gone" /\ e.op # "create"
  THEN [e EXCEPT !.state = "deadRemote", !.error = "final"]
  ELSE IF code = "temporary" /\ ~(dayOver /\ e.failures + 1 >= GiveUp)
  THEN [e EXCEPT !.state = "retrying", !.error = "temporary",
                 !.failures = IF @ < GiveUp THEN @ + 1 ELSE @]
  ELSE [e EXCEPT !.state = "blocked", !.failures = 0,
                 !.error = IF code = "temporary" THEN "temporary" ELSE "final"]

ApplyRefusal ==
  /\ pc = "apply"
  /\ Held(answers) # {}
  /\ Result.status \in {"rejected", "dependencyFailed"}
  /\ \E dayOver \in BOOLEAN :
       outbox' = [outbox EXCEPT ![Cur] =
                   IF @ = None THEN None
                   ELSE IF Result.status = "dependencyFailed"
                   THEN [@ EXCEPT !.state = "queued"]
                   ELSE Park(@, Result.code, dayOver)]
  /\ NextResult
  /\ UNCHANGED <<nextSeq, mirror, shelf, cursor, applyFailed, batch, snap, page,
                 accountVars, reqs, stamp, left, ghost>>

-----------------------------------------------------------------------------
(* The pull (runDeltaPull), which runs whether or not the flush succeeded. *)

(* Mutants: the rows after the cursor's next moment; a cursor taken after  *)
(* the read; no tombstones.                                                *)
DeltaAfter(t) ==
  [rows |-> [i \in Ids |-> IF srv[i] # None /\ srv[i].at > t + 1 THEN srv[i] ELSE None],
   dead |-> {i \in Ids : tomb[i] > t /\ srv[i] = None},
   at   |-> clock]

DeltaStampedLate(t) ==
  [rows |-> [i \in Ids |-> IF srv[i] # None /\ srv[i].at > t THEN srv[i] ELSE None],
   dead |-> {i \in Ids : tomb[i] > t /\ srv[i] = None},
   at   |-> clock + 1]

DeltaWithoutTombstones(t) ==
  [rows |-> [i \in Ids |-> IF srv[i] # None /\ srv[i].at > t THEN srv[i] ELSE None],
   dead |-> {},
   at   |-> clock]

(* GET /sync/delta, read in one snapshot and delivered as one page.        *)
DeltaSince(t) ==
  [rows |-> [i \in Ids |-> IF srv[i] # None /\ srv[i].at > t THEN srv[i] ELSE None],
   dead |-> {i \in Ids : tomb[i] > t /\ srv[i] = None},
   at   |-> clock]

FetchPage ==
  /\ pc = "pull"
  /\ page' = DeltaSince(cursor)
  /\ pc' = "fetched"
  /\ UNCHANGED <<phoneVars, batch, answers, snap, accountVars, reqs, stamp, left,
                 ghost>>

PullFails ==
  /\ pc = "pull"
  /\ Spend("loss")
  /\ pc' = "idle"
  /\ UNCHANGED <<phoneVars, batch, answers, snap, page, accountVars, reqs, stamp,
                 ghost>>

LoadForRebase ==
  /\ pc = "fetched"
  /\ snap' = outbox
  /\ pc' = "merge"
  /\ UNCHANGED <<phoneVars, batch, answers, page, accountVars, reqs, stamp, left,
                 ghost>>

(* rebase and rebasePendingPlaceLinks: a trip whose links are pending      *)
(* keeps the phone's column, a trip the phone does not hold has none.      *)
Rebased(row, local, pending) ==
  LET scalars == Overlay(row.vals, [pending EXCEPT !["ref"] = Unset])
      keepsLinks == pending["ref"] # Unset /\ local # None
  IN [row EXCEPT !.vals = [scalars EXCEPT
        !["ref"] = IF keepsLinks THEN local.vals["ref"] ELSE row.vals["ref"]]]

(* applyTombstone on the mirror.                                           *)
Forgotten(rows, dead) ==
  [i \in Ids |->
     IF i \in dead THEN None
     ELSE IF rows[i] # None /\ rows[i].vals["ref"] \in dead
          THEN [rows[i] EXCEPT !.vals["ref"] = NoPlace]
          ELSE rows[i]]

(* Mutant: the row's ops go with the row.                                  *)
OrphansDropped(ob, dead) ==
  [s \in Seqs |-> IF ob[s] = None \/ ob[s].id \notin dead THEN ob[s] ELSE None]

(* applyTombstone on the outbox: a pending delete has what it wanted, any  *)
(* other waiting op of the row is parked.                                  *)
Orphaned(ob, dead) ==
  [s \in Seqs |->
     IF ob[s] = None \/ ob[s].id \notin dead THEN ob[s]
     ELSE IF ob[s].op = "delete" THEN None
     ELSE IF ob[s].state \in {"queued", "blocked"}
          THEN [ob[s] EXCEPT !.state = "deadRemote"] ELSE ob[s]]

(* One page in one transaction, the cursor with it.                        *)
ApplyPage ==
  /\ pc = "merge"
  /\ LET merged == [i \in Ids |->
                      IF page.rows[i] = None THEN mirror[i]
                      ELSE Rebased(page.rows[i], mirror[i], CollectDirty(snap, i))]
     IN mirror' = Forgotten(merged, page.dead)
  /\ outbox' = Orphaned(outbox, page.dead)
  /\ cursor' = page.at
  /\ applyFailed' = FALSE
  /\ page' = None
  /\ snap' = NoOps
  /\ pc' = "idle"
  /\ ghost' = Look(Texts(page.rows))
  /\ UNCHANGED <<nextSeq, shelf, batch, answers, accountVars, reqs, stamp, left>>

(* The transaction rolls back (SyncApplyError).                            *)
ApplyPageFails ==
  /\ pc = "merge"
  /\ Spend("loss")
  /\ applyFailed' = TRUE
  /\ page' = None
  /\ snap' = NoOps
  /\ pc' = "idle"
  /\ UNCHANGED <<outbox, nextSeq, mirror, shelf, cursor, batch, answers,
                 accountVars, reqs, stamp, ghost>>

-----------------------------------------------------------------------------
(* The API at work on a push request.  An op reads its row, then writes    *)
(* it: two statements, with other requests in between.                     *)

HeadSeq(k)   == First(reqs[k].todo)
HeadOp(k) == reqs[k].batch[HeadSeq(k)]

Working(k) == reqs[k] # None /\ reqs[k].todo # {}

Answer(status, row, receipts, code) ==
  [status |-> status, row |-> row, receipts |-> receipts, code |-> code]

(* The answer is recorded; a create that failed takes its dependents along.*)
Finish(k, answer) ==
  reqs' = [reqs EXCEPT
            ![k].todo = @ \ {HeadSeq(k)},
            ![k].answers[HeadSeq(k)] = answer,
            ![k].failed = IF /\ HeadOp(k).op = "create"
                             /\ answer.status \in {"rejected", "dependencyFailed"}
                          THEN @ \cup {HeadOp(k).id} ELSE @,
            ![k].read = None]

Refused(code) == Answer("rejected", None, NoFields, code)

(* resolveTripPlaceIds: every place named must be there.                   *)
Resolves(fields) == fields["ref"] \in Places => srv[fields["ref"]] # None

(* Mutant: tombstones are not consulted.                                   *)
TombstonesIgnored(i) == FALSE

(* createAlreadyTombstoned                                                 *)
AlreadyTombstoned(i) == tomb[i] # 0

(* Mutant: receipts for the edits made over the current row.               *)
ReceiptsInverted(e, row) ==
  [f \in Fields |-> IF /\ e.baseAt = row.at
                       /\ e.fields[f] # Unset
                       /\ e.fields[f] # row.vals[f]
                    THEN row.vals[f] ELSE Unset]

(* conflictReceipts                                                        *)
Receipts(e, row) ==
  [f \in Fields |-> IF /\ e.baseAt # row.at
                       /\ e.fields[f] # Unset
                       /\ e.fields[f] # row.vals[f]
                    THEN row.vals[f] ELSE Unset]

SkipDependent(k) ==
  /\ Working(k)
  /\ Dependencies(HeadOp(k)) \cap reqs[k].failed # {}
  /\ Finish(k, Answer("dependencyFailed", None, NoFields, "ok"))
  /\ UNCHANGED <<phoneVars, cycleVars, accountVars, stamp, left, ghost>>

Reads(k) ==
  /\ Working(k)
  /\ Dependencies(HeadOp(k)) \cap reqs[k].failed = {}
  /\ reqs[k].read = None

(* The account may turn any create or update down: fields it validates     *)
(* before it looks for the row, quotas and definitions after.              *)
RefuseOp(k) ==
  /\ Reads(k)
  /\ HeadOp(k).op \in {"create", "update"}
  /\ Spend("refuse")
  /\ \E code \in Refusals : Finish(k, Refused(code))
  /\ ghost' = [ghost EXCEPT !.marks = @ \cup {<<HeadOp(k).id, "refused">>}]
  /\ UNCHANGED <<phoneVars, cycleVars, accountVars, stamp>>

ReadForCreate(k) ==
  LET e == HeadOp(k)
  IN /\ Reads(k)
     /\ e.op = "create"
     /\ IF srv[e.id] # None
        THEN Finish(k, Answer("alreadyApplied", srv[e.id], NoFields, "ok"))
        ELSE IF AlreadyTombstoned(e.id)
        THEN Finish(k, Answer("alreadyApplied", None, NoFields, "ok"))
        ELSE IF ~Resolves(e.fields) THEN Finish(k, Refused("final"))
        ELSE reqs' = [reqs EXCEPT
                       ![k].read = [vals |-> Filled(e.fields), at |-> 0]]
     /\ UNCHANGED <<phoneVars, cycleVars, accountVars, stamp, left, ghost>>

ReadForUpdate(k) ==
  LET e == HeadOp(k)
  IN /\ Reads(k)
     /\ e.op = "update"
     /\ IF srv[e.id] = None THEN Finish(k, Refused("gone"))
        ELSE IF ~Resolves(e.fields) THEN Finish(k, Refused("final"))
        ELSE reqs' = [reqs EXCEPT ![k].read = srv[e.id]]
     /\ UNCHANGED <<phoneVars, cycleVars, accountVars, stamp, left, ghost>>

Writes(k, op) == Working(k) /\ reqs[k].read # None /\ HeadOp(k).op = op

(* The account has taken a text: the phone no longer owes it.              *)
Landed(e) == [ghost.owed EXCEPT ![e.id] = IF e.fields["text"] = @ THEN 0 ELSE @]

WriteCreate(k) ==
  LET e == HeadOp(k)
      row == [vals |-> Filled(e.fields), at |-> clock + 1]
  IN /\ Writes(k, "create")
     /\ srv[e.id] = None
     /\ Resolves(e.fields)
     /\ clock' = clock + 1
     /\ srv' = [srv EXCEPT ![e.id] = row]
     /\ Finish(k, Answer("applied", row, NoFields, "ok"))
     /\ ghost' = [ghost EXCEPT !.owed = Landed(e)]
     /\ UNCHANGED <<phoneVars, cycleVars, tomb, stamp, left>>

WriteUpdate(k) ==
  LET e == HeadOp(k)
      read == reqs[k].read
      row == [vals |-> Overlay(srv[e.id].vals, e.fields), at |-> clock + 1]
      replaced == IF e.fields["text"] = Unset THEN {}
                  ELSE {srv[e.id].vals["text"]} \cap ghost.foreign
  IN /\ Writes(k, "update")
     /\ srv[e.id] # None
     /\ Resolves(e.fields)
     /\ clock' = clock + 1
     /\ srv' = [srv EXCEPT ![e.id] = row]
     /\ Finish(k, Answer("applied", row, Receipts(e, read), "ok"))
     /\ ghost' = [ghost EXCEPT
                    !.owed = Landed(e),
                    !.displaced = @ \cup replaced,
                    !.excused = IF k = "late" \/ read # srv[e.id]
                                THEN @ \cup replaced ELSE @]
     /\ UNCHANGED <<phoneVars, cycleVars, tomb, stamp, left>>

(* A unique key, a missing row or a missing place the check had not seen:  *)
(* not an AppError, so the whole request ends in a 500.                    *)
WriteAborts(k) ==
  LET e == HeadOp(k)
  IN /\ Working(k)
     /\ reqs[k].read # None
     /\ \/ e.op = "create" /\ srv[e.id] # None
        \/ e.op = "update" /\ srv[e.id] = None
        \/ ~Resolves(e.fields)
     /\ reqs' = [reqs EXCEPT ![k] = None]
     /\ ghost' = [ghost EXCEPT !.excused = @ \cup Undelivered(reqs[k].answers)]
     /\ UNCHANGED <<phoneVars, cycleVars, accountVars, stamp, left>>

(* deletePlacesCascade, deleteTripsCascade: row, trip links and tombstone  *)
(* in one transaction.                                                     *)
RemoveRow(i) ==
  IF srv[i] = None THEN UNCHANGED accountVars
  ELSE /\ clock' = clock + 1
       /\ srv' = Without(srv, i, clock + 1)
       /\ tomb' = [tomb EXCEPT ![i] = clock + 1]

DeleteRow(k) ==
  LET i == HeadOp(k).id
  IN /\ Reads(k)
     /\ HeadOp(k).op = "delete"
     /\ RemoveRow(i)
     /\ Finish(k, Answer(IF srv[i] = None THEN "alreadyApplied" ELSE "applied",
                         None, NoFields, "ok"))
     /\ UNCHANGED <<phoneVars, cycleVars, stamp, left, ghost>>

LateEnds ==
  /\ reqs["late"] # None
  /\ reqs["late"].todo = {}
  /\ reqs' = [reqs EXCEPT !["late"] = None]
  /\ UNCHANGED <<phoneVars, cycleVars, accountVars, stamp, left, ghost>>

-----------------------------------------------------------------------------
(* The rest of the world                                                   *)

(* Another device of the account writes a row.                             *)
ForeignEdit(i) ==
  /\ srv[i] # None
  /\ stamp < MaxStamp
  /\ Spend("foreign")
  /\ stamp' = stamp + 1
  /\ clock' = clock + 1
  /\ srv' = [srv EXCEPT ![i] =
               [vals |-> [@.vals EXCEPT !["text"] = stamp'], at |-> clock']]
  /\ ghost' = [ghost EXCEPT !.foreign = @ \cup {stamp'}]
  /\ UNCHANGED <<phoneVars, cycleVars, tomb, reqs>>

ForeignDelete(i) ==
  /\ srv[i] # None
  /\ Spend("foreign")
  /\ RemoveRow(i)
  /\ UNCHANGED <<phoneVars, cycleVars, reqs, stamp, ghost>>

(* The result in hand has been taken out of the outbox and its row is not  *)
(* on the screen yet.                                                      *)
BeingApplied(i) == pc \in {"shelve", "reread", "upsert"} /\ Op.id = i

(* The app is killed: what it held in memory is gone.                      *)
Crash ==
  /\ pc # "idle"
  /\ Spend("crash")
  /\ pc' = "idle"
  /\ batch' = NoOps
  /\ answers' = NoOps
  /\ snap' = NoOps
  /\ page' = None
  /\ reqs' = [reqs EXCEPT !["live"] = None]
  /\ ghost' = [ghost EXCEPT
                 !.excused = @ \cup Undelivered(answers) \cup
                   (IF reqs["live"] = None THEN {} ELSE Undelivered(reqs["live"].answers)),
                 !.marks = @ \cup {m \in Ids \X {"cut"} : BeingApplied(m[1])}]
  /\ UNCHANGED <<phoneVars, accountVars, stamp>>

-----------------------------------------------------------------------------
(* Specification                                                           *)

UserStep ==
  \/ \E i \in Ids : Create(i) \/ UpdateText(i) \/ UpdateRef(i) \/ Delete(i)
  \/ \E s \in Seqs : Retry(s) \/ Discard(s) \/ (\E i \in Places : Recreate(s, i))
  \/ Reset

FlushStep ==
  StartCycle \/ LoadBatch \/ Send \/ RequestFails \/ Reply \/ BatchDone
  \/ ApplySuccess \/ Shelve \/ Reread \/ ConfirmRow \/ ApplyRefusal

PullStep == FetchPage \/ PullFails \/ LoadForRebase \/ ApplyPage \/ ApplyPageFails

ServerStep ==
  \/ \E k \in Lanes : \/ SkipDependent(k) \/ RefuseOp(k) \/ ReadForCreate(k)
                      \/ ReadForUpdate(k) \/ WriteCreate(k) \/ WriteUpdate(k)
                      \/ WriteAborts(k) \/ DeleteRow(k)
  \/ LateEnds

WorldStep == Crash \/ \E i \in Ids : ForeignEdit(i) \/ ForeignDelete(i)

Next == UserStep \/ FlushStep \/ PullStep \/ ServerStep \/ WorldStep

(* Nothing stops the app's own steps nor the API's; the triggers of        *)
(* syncEngine.ts start another cycle.  Faults and users owe nothing.       *)
Fairness ==
  /\ WF_vars(FlushStep)
  /\ WF_vars(FetchPage \/ LoadForRebase \/ ApplyPage)
  /\ WF_vars(ServerStep)

Spec == Init /\ [][Next]_vars
FairSpec == Spec /\ Fairness

-----------------------------------------------------------------------------
(* Properties                                                              *)

Ghosts == [minted : SUBSET Ids, owed : [Ids -> Values], gone : SUBSET Ids,
           marks : SUBSET (Ids \X Marks),
           resetMidPull : BOOLEAN, foreign : SUBSET Stamps, seen : SUBSET Stamps,
           masked : SUBSET Stamps, displaced : SUBSET Stamps, excused : SUBSET Stamps]

ShelfEntries == [id : Ids, field : Fields, own : Values \cup {Unset}, server : Values]

(* Every variable keeps its type.                                          *)
TypeOK ==
  /\ outbox \in Outboxes
  /\ nextSeq \in 1 .. MaxSeq + 1
  /\ mirror \in Mirrors
  /\ shelf \subseteq ShelfEntries
  /\ cursor \in Nat
  /\ applyFailed \in BOOLEAN
  /\ pc \in Pcs
  /\ batch \in Outboxes
  /\ answers \in [Seqs -> Answers \cup {None}]
  /\ snap \in Outboxes
  /\ page \in Pages \cup {None}
  /\ srv \in Mirrors
  /\ tomb \in [Ids -> Nat]
  /\ clock \in Nat
  /\ reqs \in [Lanes -> Requests \cup {None}]
  /\ stamp \in 0 .. MaxStamp
  /\ left \in [EnvironmentActs -> Nat]
  /\ ghost \in Ghosts

(* The user's last text for row i is still in the outbox.                  *)
StillPending(i) ==
  \E s \in OfRow(outbox, i) : outbox[s].fields["text"] = ghost.owed[i]

(* What the user typed last into a row is on the account, or waits in the  *)
(* outbox, parked ops included, or the user gave it up: no interleaving of *)
(* the enqueue, the flush and the pull loses it.  Left out are the rows    *)
(* with an edit folded into a create the account may already hold, and     *)
(* with one folded into an op between its load and its send.               *)
EditKept ==
  \A i \in Ids :
    \/ ghost.owed[i] = 0
    \/ StillPending(i)
    \/ {<<i, "sentCreate">>, <<i, "loaded">>} \cap ghost.marks # {}

(* The same without the first exception: replaying a create is safe        *)
(* ("replay is safe because writes are idempotent", syncClient.ts:12).     *)
EditKeptInSentCreate ==
  \A i \in Ids :
    ghost.owed[i] = 0 \/ StillPending(i) \/ <<i, "loaded">> \in ghost.marks

(* A row the user deleted is not on the account, or its delete is on its   *)
(* way.  Left out are the deletes that cancelled an op between its load    *)
(* and its send.                                                           *)
DeleteSticks ==
  \A i \in ghost.gone :
    \/ srv[i] = None
    \/ \E s \in OfRow(outbox, i) : outbox[s].op = "delete"
    \/ <<i, "loaded">> \in ghost.marks

(* A row the account has deleted never exists there again, however its     *)
(* create is repeated (createAlreadyTombstoned).                           *)
NoResurrection == \A i \in Ids : tomb[i] # 0 => srv[i] = None

(* The receipts for a text of the other device still on their way.         *)
ReceiptUnderWay(t) ==
  \/ t \in Undelivered(answers)
  \/ reqs["live"] # None /\ t \in Undelivered(reqs["live"].answers)

Shelved(t) == \E entry \in shelf : entry.field = "text" /\ entry.server = t

(* A text of the other device that this phone's write replaced was on this *)
(* phone's screen before, or is on the conflict shelf, or its receipt is   *)
(* under way.  Left out are receipts whose answer never arrived, a text    *)
(* written between the op's read and its write, and a text that came in    *)
(* while a pending edit hid it.                                            *)
ReplacedTextKept ==
  \A t \in ghost.displaced :
    \/ t \in ghost.seen \cup ghost.masked \cup ghost.excused
    \/ Shelved(t)
    \/ ReceiptUnderWay(t)

Folded(i) == \E f \in Folds : <<i, f>> \in ghost.marks

(* Everything on the shelf came from another device: no replay makes the   *)
(* phone's own writes look like somebody else's.  Left out are rows with   *)
(* an edit folded into an op already sent or loaded for sending, with an   *)
(* edit overtaken by a mirror write, or with an op the account refused.    *)
ShelfIsForeign ==
  \A entry \in shelf :
    \/ entry.field = "ref"
    \/ entry.server \in ghost.foreign
    \/ \E m \in Folds \cup {"overtaken", "refused"} : <<entry.id, m>> \in ghost.marks

Parked(e) == e # None /\ e.state \in {"blocked", "deadRemote"}

(* A row on the screen shows the newest edit of its text that is not on    *)
(* the account yet, parked or not.  Left out are the edits of a row the    *)
(* account has deleted, the row whose answer is just being applied, the    *)
(* rows with an edit made while the cycle was between its copy of the      *)
(* outbox and the mirror row it computes from it, or folded into a create  *)
(* sent before, those the app was killed in the midst of, and those whose  *)
(* newest edit the user gave up.                                           *)
Unshown == {"sentCreate", "overtaken", "cut", "uncovered"}

PendingShown ==
  \A i \in Live(mirror) : \A s \in TextOps(outbox, i) :
    \/ \E r \in TextOps(outbox, i) : r > s
    \/ outbox[s].state = "deadRemote"
    \/ mirror[i].vals["text"] = outbox[s].fields["text"]
    \/ BeingApplied(i)
    \/ \E m \in Unshown : <<i, m>> \in ghost.marks

(* Between cycles, a phone that has seen all the account wrote and has no  *)
(* delete to send shows the account's row wherever it has no op of its own *)
(* ("the effective row the UI renders = server row + pending dirty fields",*)
(* syncClient.ts:316).  Left out are the rows with an edit folded into an  *)
(* op the account may hold, and a reset while a page is in hand.           *)
CaughtUp ==
  pc = "idle" /\ cursor = clock /\ \A s \in Held(outbox) : outbox[s].op # "delete"

MirrorAgrees ==
  (CaughtUp /\ ~ghost.resetMidPull) =>
    \A i \in Ids : OfRow(outbox, i) = {} => mirror[i] = srv[i] \/ Folded(i)

(* Every version of a row up to the cursor, and every deletion, is on the  *)
(* phone, for the next pull asks only for what came later.  Left out are   *)
(* the rows whose delete is pending on the phone; a phone that resyncs     *)
(* from scratch while a page is in hand does not have it.                  *)
CursorHonest ==
  \A i \in Ids :
    \/ \E s \in OfRow(outbox, i) : outbox[s].op = "delete"
    \/ /\ srv[i] # None /\ srv[i].at <= cursor
          => mirror[i] # None /\ mirror[i].at >= srv[i].at
       /\ tomb[i] \in 1 .. cursor => mirror[i] = None

(* No trip of the account links a place that is gone, although an op's     *)
(* check of its links and its write are two statements and deletes come in *)
(* between.                                                                *)
LinksResolve == \A t \in Trips \cap Live(srv) : Resolves(srv[t].vals)

(* No update is on its way to the account without the create of a row it   *)
(* names before it in the same request, if that create is still to be      *)
(* confirmed.  Not so of creates, into which a later link is folded.       *)
Leads(s) ==
  \A r \in Seqs :
    (/\ outbox[r] # None
     /\ outbox[r].op = "create"
     /\ outbox[r].id \in Dependencies(reqs["live"].batch[s]))
    => r < s /\ reqs["live"].batch[r] # None

UpdatesGoAfterCreates ==
  reqs["live"] # None =>
    \A s \in reqs["live"].todo : reqs["live"].batch[s].op = "update" => Leads(s)

(* What the account refused waits for the user: no step of a cycle takes a *)
(* parked op up again (blocked is terminal for the flush), nor drops it,   *)
(* except that a tombstone may turn it from blocked to deadRemote.         *)
ParkedWaits ==
  [][(FlushStep \/ PullStep \/ ServerStep \/ WorldStep) =>
       \A s \in Seqs : Parked(outbox[s]) => Parked(outbox'[s])]_vars

(* Left alone, phone and account agree: every op was taken or is parked or *)
(* waits for a parked one, and rows without an op are the account's.       *)
Settled ==
  /\ InState(outbox, {"inflight", "retrying"}) = {}
  /\ Ready(outbox) = {}
  /\ \A i \in Ids : OfRow(outbox, i) = {} => mirror[i] = srv[i]

Converges == <>[]Settled

=============================================================================
