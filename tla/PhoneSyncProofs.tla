---------------------------- MODULE PhoneSyncProofs ----------------------------
(***************************************************************************)
(* What holds of PhoneSync for every set of rows, every length of the      *)
(* outbox and every allowance of the environment: type correctness, that   *)
(* an op parked for the user stays parked whatever a cycle does, and that  *)
(* a deleted row does not come back as long as no request outlives its     *)
(* timeout.                                                                *)
(***************************************************************************)
EXTENDS PhoneSync, WellFoundedInduction, TLAPS

-----------------------------------------------------------------------------
(* The inductive invariants.                                               *)

(* The steps of applyOpResult: an answer, then its receipts, then its row. *)
InResult == {"shelve", "reread", "upsert"}

(* What the cycle holds in memory fits where the cycle stands.             *)
CycleOK ==
  /\ Held(answers) \subseteq Held(batch)
  /\ pc \notin InResult \cup {"apply"} => Held(answers) = {}
  /\ pc \in InResult => Held(answers) # {}
  /\ pc \in {"reread", "upsert"} => Result.row # None
  /\ pc \in {"fetched", "merge"} => page \in Pages

(* A request has an op for everything it works on or has answered, and the *)
(* one the phone waits for carries the batch.                              *)
RequestsOK ==
  /\ \A k \in Lanes : reqs[k] # None =>
       /\ reqs[k].todo \subseteq Held(reqs[k].batch)
       /\ Held(reqs[k].answers) \subseteq Held(reqs[k].batch)
  /\ reqs["live"] # None => pc = "sent" /\ reqs["live"].batch = batch

TypeInv == TypeOK /\ CycleOK /\ RequestsOK

(* The batch is a copy of outbox rows whose op and row id never change and *)
(* whose numbers are not handed out again.                                 *)
BatchIsOutbox ==
  \A s \in Held(outbox) \cap Held(batch) :
    outbox[s].op = batch[s].op /\ outbox[s].id = batch[s].id

NumbersUsed == \A s \in Held(outbox) \cup Held(batch) : s < nextSeq

(* The ops of a batch are where the flush left them: queued until they are *)
(* marked, then inflight until their answer is applied.                    *)
BatchState ==
  /\ pc = "loaded" => \A s \in Held(outbox) \cap Held(batch) : outbox[s].state = "queued"
  /\ pc = "sent" => \A s \in Held(outbox) \cap Held(batch) : outbox[s].state = "inflight"
  /\ \A s \in Held(outbox) \cap Held(answers) : outbox[s].state = "inflight"

(* The account turns no delete down, so no delete is ever parked.          *)
Turned(results, ops) ==
  \A s \in Held(results) : results[s].status = "rejected" => ops[s].op # "delete"

DeletesAccepted ==
  /\ Turned(answers, batch)
  /\ \A k \in Lanes : reqs[k] # None => Turned(reqs[k].answers, reqs[k].batch)
  /\ \A s \in Held(outbox) : Parked(outbox[s]) => outbox[s].op # "delete"

ParkedInv ==
  TypeInv /\ BatchIsOutbox /\ NumbersUsed /\ BatchState /\ DeletesAccepted

(* Only one request is ever at work, and the create it has checked is of a *)
(* row that never was.                                                     *)
OneRequest == left["late"] = 0 /\ reqs["late"] = None

ReadIsFresh ==
  (reqs["live"] # None /\ reqs["live"].read # None /\ HeadOp("live").op = "create")
    => /\ HeadOp("live").id \in Ids
       /\ srv[HeadOp("live").id] = None
       /\ tomb[HeadOp("live").id] = 0

ResurrectionInv == TypeInv /\ OneRequest /\ ReadIsFresh /\ NoResurrection

-----------------------------------------------------------------------------
(* Lemmas on the operators the actions are built from.                     *)

(* A set of numbers that is not empty has a first one.                     *)
LEMMA FirstIsIn ==
  ASSUME NEW S \in SUBSET Nat, S # {}
  PROVE  First(S) \in S /\ \A r \in S : First(S) <= r
<1> DEFINE R == {ss \in Nat \X Nat : ss[1] < ss[2]}
<1>1. IsWellFoundedOn(R, Nat)
  <2>1. R = OpToRel(<, Nat)
    BY DEF OpToRel
  <2> QED BY <2>1, NatLessThanWellFounded
<1>2. PICK x \in S : \A y \in S : ~ (<<y, x>> \in R)
  <2> HIDE DEF R
  <2> QED BY <1>1, WFMin
<1>3. \A y \in S : x <= y
  <2>1. ASSUME NEW y \in S, y < x
        PROVE  <<y, x>> \in R
    <3>1. <<y, x>> \in Nat \X Nat /\ <<y, x>>[1] < <<y, x>>[2]
      BY <2>1
    <3> QED BY <3>1
  <2>2. \A y \in S : ~ (y < x)
    <3> HIDE DEF R
    <3> QED BY <1>2, <2>1
  <2> QED BY <2>2
<1> QED BY <1>3 DEF First

(* A set of sequence numbers that is not empty has a last one.             *)
LEMMA LastIsIn ==
  ASSUME NEW S \in SUBSET Seqs, S # {}
  PROVE  Last(S) \in S
<1> DEFINE T == {MaxSeq - s : s \in S}
<1>1. T \in SUBSET Nat /\ T # {}
  BY PlanAssumption DEF Seqs
<1>2. PICK t \in T : \A r \in T : t <= r
  BY <1>1, FirstIsIn
<1>3. PICK s \in S : t = MaxSeq - s
  BY <1>2
<1>4. \A r \in S : r <= s
  BY <1>2, <1>3, PlanAssumption DEF Seqs
<1> QED BY <1>4 DEF Last

(* Laying op fields over a row gives a row, over op fields op fields.      *)
LEMMA OverlayTypes ==
  /\ \A under \in RowVals, over \in OpFields : Overlay(under, over) \in RowVals
  /\ \A under, over \in OpFields : Overlay(under, over) \in OpFields
BY DEF Overlay, RowVals, OpFields

(* What is pending for a row are op fields.                                *)
LEMMA CollectDirtyType ==
  ASSUME NEW ob \in Outboxes, NEW i \in Ids
  PROVE  CollectDirty(ob, i) \in OpFields
<1> DEFINE pending(f) == {s \in OfRow(ob, i) : /\ ob[s].state # "deadRemote"
                                              /\ ob[s].op # "delete"
                                              /\ ob[s].fields[f] # Unset}
<1>1. SUFFICES ASSUME NEW f \in Fields, pending(f) # {}
               PROVE  ob[Last(pending(f))].fields[f] \in Values \cup {Unset}
  BY DEF CollectDirty, OpFields
<1>2. Last(pending(f)) \in pending(f)
  <2>1. pending(f) \in SUBSET Seqs
    BY DEF OfRow, Held
  <2> QED BY <1>1, <2>1, LastIsIn
<1>3. ob[Last(pending(f))] \in Entries
  BY <1>2 DEF OfRow, Held, Outboxes
<1> QED BY <1>3 DEF Entries, OpFields

(* The rows and values the two sides build have their types.               *)
LEMMA RowTypes ==
  /\ NoFields \in OpFields
  /\ \A fields \in OpFields : Filled(fields) \in RowVals
  /\ \A rows \in Mirrors, i \in Ids, at \in Nat : Without(rows, i, at) \in Mirrors
  /\ \A rows \in Mirrors, dead \in SUBSET Ids : Forgotten(rows, dead) \in Mirrors
<1>1. NoFields \in OpFields
  BY DEF NoFields, OpFields
<1>2. \A fields \in OpFields : Filled(fields) \in RowVals
  BY PlanAssumption DEF Filled, OpFields, RowVals, Values
<1>3. ASSUME NEW rows \in Mirrors, NEW i \in Ids, NEW at \in Nat
      PROVE  Without(rows, i, at) \in Mirrors
  BY DEF Without, Mirrors, Rows, RowVals, Fields, Values
<1>4. ASSUME NEW rows \in Mirrors, NEW dead \in SUBSET Ids
      PROVE  Forgotten(rows, dead) \in Mirrors
  BY DEF Forgotten, Mirrors, Rows, RowVals, Fields, Values
<1> QED BY <1>1, <1>2, <1>3, <1>4

(* An enqueue leaves an outbox, and so does a tombstone.                   *)
LEMMA OutboxTypes ==
  /\ \A e \in Entries, ob \in Outboxes, n \in Nat : AfterEnqueue(ob, n, e) \in Outboxes
  /\ \A ob \in Outboxes, dead \in SUBSET Ids : Orphaned(ob, dead) \in Outboxes
<1>1. ASSUME NEW old \in Entries, NEW e \in Entries
      PROVE  Merged(old, e) \in Entries
  BY OverlayTypes DEF Merged, Entries
<1>2. ASSUME NEW e \in Entries, NEW ob \in Outboxes, NEW n \in Nat
      PROVE  AfterEnqueue(ob, n, e) \in Outboxes
  <2>1. \A s \in MergeTargets(ob, e) : ob[s] \in Entries
    BY DEF MergeTargets, QueuedCreates, SameRowQueued, InState, OfRow, Held, Outboxes
  <2> QED BY <1>1, <2>1 DEF AfterEnqueue, Outboxes
<1>3. ASSUME NEW ob \in Outboxes, NEW dead \in SUBSET Ids
      PROVE  Orphaned(ob, dead) \in Outboxes
  BY DEF Orphaned, Outboxes, Entries, OpStates
<1> QED BY <1>2, <1>3

(* What is laid over a row that comes in from the account.                 *)
LEMMA MergeTypes ==
  ASSUME NEW row \in Rows, NEW pending \in OpFields
  PROVE  /\ Confirmed(row, pending) \in Rows
         /\ \A local \in Rows \cup {None} : Rebased(row, local, pending) \in Rows
         /\ \A owned \in OpFields : Reverted(row, pending, owned) \in Rows
         /\ \A e \in Entries : Receipts(e, row) \in OpFields
<1>1. [pending EXCEPT !["ref"] = Unset] \in OpFields
  BY DEF OpFields
<1>2. Confirmed(row, pending) \in Rows
  BY <1>1, OverlayTypes DEF Confirmed, Rows
<1>3. ASSUME NEW local \in Rows \cup {None}
      PROVE  Rebased(row, local, pending) \in Rows
  <2>1. Overlay(row.vals, [pending EXCEPT !["ref"] = Unset]) \in RowVals
    BY <1>1, OverlayTypes DEF Rows
  <2>2. local # None => local.vals["ref"] \in Values
    BY DEF Rows, RowVals, Fields
  <2>3. row.vals["ref"] \in Values
    BY DEF Rows, RowVals, Fields
  <2> QED BY <2>1, <2>2, <2>3 DEF Rebased, Rows, RowVals, Fields
<1>4. ASSUME NEW owned \in OpFields
      PROVE  Reverted(row, pending, owned) \in Rows
  BY DEF Reverted, Rows, RowVals, OpFields
<1>5. ASSUME NEW e \in Entries
      PROVE  Receipts(e, row) \in OpFields
  BY DEF Receipts, Rows, RowVals, OpFields
<1> QED BY <1>2, <1>3, <1>4, <1>5

-----------------------------------------------------------------------------
(* Type correctness.                                                       *)

(* A new op is an outbox entry.                                            *)
LEMMA NewEntryType ==
  ASSUME NEW op \in OpKinds, NEW i \in Ids, NEW fields \in OpFields,
         NEW base \in OpFields, NEW at \in Nat
  PROVE  NewEntry(op, i, fields, base, at) \in Entries
BY DEF NewEntry, Entries, OpStates, Errors

(* An enqueue leaves an outbox and a number that may still be handed out.  *)
LEMMA EnqueueTypes ==
  ASSUME TypeOK, NEW e \in Entries, Enqueue(e)
  PROVE  outbox' \in Outboxes /\ nextSeq' \in 1 .. MaxSeq + 1
<1>1. outbox' \in Outboxes
  BY OutboxTypes DEF TypeOK, Enqueue
<1>2. nextSeq' \in 1 .. MaxSeq + 1
  BY PlanAssumption DEF TypeOK, Enqueue
<1> QED BY <1>1, <1>2

(* What the properties remember of an enqueue has its type.                *)
LEMMA RememberTypes ==
  ASSUME TypeOK, NEW e \in Entries, NEW owed \in Values, NEW gone \in SUBSET Ids,
         Remember(e, owed, gone)
  PROVE  ghost' \in Ghosts
<1>1. e.id \in Ids
  BY DEF Entries
<1>2. FoldsOf(e) \cup MarkOvertaken(e.id) \in SUBSET (Ids \X Marks)
  BY <1>1 DEF FoldsOf, MarkOvertaken, Marks
<1> QED BY <1>1, <1>2 DEF TypeOK, Remember, Ghosts

(* What the user does keeps every type.                                    *)
LEMMA UserTypes ==
  ASSUME TypeOK, UserStep
  PROVE  TypeOK'
<1> USE DEF phoneVars, cycleVars, accountVars
<1>1. ASSUME NEW i \in Ids, Create(i)
      PROVE  TypeOK'
  <2>1. stamp' \in Stamps /\ stamp' \in 0 .. MaxStamp /\ stamp' \in Values
    BY <1>1, PlanAssumption DEF Create, TypeOK, Stamps, Values
  <2>2. PICK ref \in IF i \in Trips THEN LinkChoices ELSE {Unset} :
          LET fields == [NoFields EXCEPT !["text"] = stamp', !["ref"] = ref]
              e == NewEntry("create", i, fields, NoFields, 0)
          IN /\ Enqueue(e)
             /\ mirror' = [mirror EXCEPT ![i] = [vals |-> Filled(fields), at |-> 0]]
             /\ Remember(e, stamp', ghost.gone)
    BY <1>1 DEF Create
  <2> DEFINE fields == [NoFields EXCEPT !["text"] = stamp', !["ref"] = ref]
             e == NewEntry("create", i, fields, NoFields, 0)
  <2>3. fields \in OpFields
    BY <2>1 DEF NoFields, OpFields, LinkChoices, Values
  <2>4. e \in Entries
    BY <2>3, NewEntryType, RowTypes DEF OpKinds
  <2>5. mirror' \in Mirrors
    BY <2>2, <2>3, RowTypes DEF TypeOK, Mirrors, Rows
  <2>6. ghost.gone \in SUBSET Ids
    BY DEF TypeOK, Ghosts
  <2>7. ghost' \in Ghosts
    <3> HIDE DEF e
    <3> QED BY <2>1, <2>2, <2>4, <2>6, RememberTypes DEF e
  <2>8. outbox' \in Outboxes /\ nextSeq' \in 1 .. MaxSeq + 1
    BY <2>2, <2>4, EnqueueTypes
  <2> QED BY <1>1, <2>1, <2>5, <2>7, <2>8 DEF Create, TypeOK
<1>2. ASSUME NEW i \in Ids, NEW f \in Fields, NEW v \in Values, Update(i, f, v),
             stamp' \in 0 .. MaxStamp
      PROVE  TypeOK'
  <2> DEFINE e == NewEntry("update", i, [NoFields EXCEPT ![f] = v],
                           [NoFields EXCEPT ![f] = mirror[i].vals[f]], mirror[i].at)
  <2>1. mirror[i] \in Rows /\ mirror[i].vals \in RowVals
    BY <1>2 DEF Update, TypeOK, Mirrors, Rows
  <2>2. e \in Entries
    <3>1. [NoFields EXCEPT ![f] = v] \in OpFields
      BY RowTypes DEF OpFields
    <3>2. [NoFields EXCEPT ![f] = mirror[i].vals[f]] \in OpFields
      BY <2>1, RowTypes DEF OpFields, RowVals
    <3>3. mirror[i].at \in Nat
      BY <2>1 DEF Rows
    <3> QED BY <3>1, <3>2, <3>3, NewEntryType DEF OpKinds
  <2>3. mirror' \in Mirrors
    BY <1>2, <2>1 DEF Update, TypeOK, Mirrors, Rows, RowVals
  <2>4. /\ (IF f = "text" THEN v ELSE ghost.owed[i]) \in Values
        /\ ghost.gone \in SUBSET Ids
    BY DEF TypeOK, Ghosts
  <2>5. ghost' \in Ghosts
    <3>1. Remember(e, IF f = "text" THEN v ELSE ghost.owed[i], ghost.gone)
      BY <1>2 DEF Update
    <3> HIDE DEF e
    <3> QED BY <2>2, <2>4, <3>1, RememberTypes
  <2>6. outbox' \in Outboxes /\ nextSeq' \in 1 .. MaxSeq + 1
    <3>1. Enqueue(e)
      BY <1>2 DEF Update
    <3> QED BY <2>2, <3>1, EnqueueTypes
  <2> QED BY <1>2, <2>3, <2>5, <2>6 DEF Update, TypeOK
<1>3. ASSUME NEW i \in Ids, UpdateText(i) \/ UpdateRef(i)
      PROVE  TypeOK'
  <2>1. CASE UpdateText(i)
    <3>1. stamp' \in 0 .. MaxStamp /\ stamp' \in Values
      BY <2>1, PlanAssumption DEF UpdateText, TypeOK, Values
    <3> QED BY <1>2, <2>1, <3>1 DEF UpdateText, Fields
  <2>2. CASE UpdateRef(i)
    <3>1. LinkChoices \subseteq Values
      BY DEF LinkChoices, Values
    <3> QED BY <1>2, <2>2, <3>1 DEF UpdateRef, Fields, TypeOK
  <2> QED BY <1>3, <2>1, <2>2
<1>4. ASSUME NEW i \in Ids, Delete(i)
      PROVE  TypeOK'
  <2> DEFINE e == NewEntry("delete", i, NoFields, NoFields, 0)
  <2>1. e \in Entries
    BY NewEntryType, RowTypes DEF OpKinds
  <2>2. 0 \in Values /\ ghost.gone \cup {i} \in SUBSET Ids
    BY PlanAssumption DEF TypeOK, Ghosts, Values
  <2>3. ghost' \in Ghosts
    <3>1. Remember(e, 0, ghost.gone \cup {i})
      BY <1>4 DEF Delete
    <3> HIDE DEF e
    <3> QED BY <2>1, <2>2, <3>1, RememberTypes
  <2>4. outbox' \in Outboxes /\ nextSeq' \in 1 .. MaxSeq + 1
    <3>1. Enqueue(e)
      BY <1>4 DEF Delete
    <3> QED BY <2>1, <3>1, EnqueueTypes
  <2>5. mirror' \in Mirrors
    BY <1>4, RowTypes DEF Delete, TypeOK
  <2> QED BY <1>4, <2>3, <2>4, <2>5 DEF Delete, TypeOK
<1>5. ASSUME NEW s \in Seqs, Retry(s)
      PROVE  TypeOK'
  <2>1. outbox' \in Outboxes
    BY <1>5 DEF Retry, TypeOK, Outboxes, Entries, OpStates, Errors
  <2> QED BY <1>5, <2>1 DEF Retry, TypeOK
<1>6. ASSUME NEW s \in Seqs, Discard(s)
      PROVE  TypeOK'
  <2> DEFINE e == outbox[s]
             without == [outbox EXCEPT ![s] = None]
  <2>1. e \in Entries /\ e.id \in Ids /\ e.base \in OpFields
    BY <1>6 DEF Discard, TypeOK, Outboxes, Entries
  <2>2. without \in Outboxes /\ outbox' \in Outboxes
    BY <1>6 DEF Discard, TypeOK, Outboxes
  <2>3. CollectDirty(without, e.id) \in OpFields
    BY <2>1, <2>2, CollectDirtyType
  <2>4. mirror[e.id] # None =>
          Reverted(mirror[e.id], e.base, CollectDirty(without, e.id)) \in Rows
    BY <2>1, <2>3, MergeTypes DEF TypeOK, Mirrors
  <2>5. mirror' \in Mirrors
    BY <1>6, <2>1, <2>4 DEF Discard, TypeOK, Mirrors
  <2>6. ghost' \in Ghosts
    <3>1. MarkOvertaken(e.id) \in SUBSET (Ids \X Marks)
      BY <2>1 DEF MarkOvertaken, Marks
    <3>2. MarkUncovered(s, outbox') \in SUBSET (Ids \X Marks)
      BY <2>1 DEF MarkUncovered, Marks
    <3>3. 0 \in Values
      BY PlanAssumption DEF Values
    <3> QED BY <1>6, <2>1, <3>1, <3>2, <3>3 DEF Discard, TypeOK, Ghosts
  <2>7. left' \in [EnvironmentActs -> Nat]
    BY <1>6 DEF Discard, Spend, TypeOK, EnvironmentActs
  <2> QED BY <1>6, <2>2, <2>5, <2>6, <2>7 DEF Discard, TypeOK
<1>7. ASSUME NEW s \in Seqs, NEW i \in Places, Recreate(s, i)
      PROVE  TypeOK'
  <2> DEFINE e == outbox[s]
             fields == Overlay([mirror[e.id].vals EXCEPT !["ref"] = Unset], e.fields)
             new == NewEntry("create", i, fields, NoFields, 0)
  <2>0. i \in Ids
    BY DEF Ids
  <2>1. e \in Entries /\ e.id \in Ids /\ e.fields \in OpFields
    BY <1>7 DEF Recreate, TypeOK, Outboxes, Entries
  <2>2. mirror[e.id].vals \in RowVals
    BY <1>7, <2>1 DEF Recreate, TypeOK, Mirrors, Rows
  <2>3. fields \in OpFields
    <3>1. [mirror[e.id].vals EXCEPT !["ref"] = Unset] \in OpFields
      BY <2>2 DEF RowVals, OpFields
    <3> QED BY <2>1, <3>1, OverlayTypes
  <2>4. fields["text"] \in Values
    BY <2>1, <2>2 DEF Overlay, OpFields, RowVals, Fields
  <2>5. new \in Entries
    BY <2>0, <2>3, NewEntryType, RowTypes DEF OpKinds
  <2>6. outbox' \in Outboxes
    <3>1. AfterEnqueue(outbox, nextSeq, new) \in Outboxes
      BY <2>5, OutboxTypes DEF TypeOK
    <3>2. outbox' = [AfterEnqueue(outbox, nextSeq, new) EXCEPT ![s] = None]
      BY <1>7 DEF Recreate
    <3> QED BY <3>1, <3>2 DEF Outboxes
  <2>7. mirror' \in Mirrors
    <3>1. Filled(fields) \in RowVals
      BY <2>3, RowTypes
    <3>2. mirror' = [mirror EXCEPT ![i] = [vals |-> Filled(fields), at |-> 0]]
      BY <1>7 DEF Recreate
    <3> QED BY <2>0, <3>1, <3>2 DEF TypeOK, Mirrors, Rows
  <2>8. ghost' \in Ghosts
    <3>1. ghost' = [ghost EXCEPT
                      !.minted = @ \cup {i},
                      !.owed = [@ EXCEPT ![i] = fields["text"], ![e.id] = 0],
                      !.marks = @ \cup MarkUncovered(s, outbox')]
      BY <1>7 DEF Recreate
    <3>2. 0 \in Values
      BY PlanAssumption DEF Values
    <3>3. MarkUncovered(s, outbox') \in SUBSET (Ids \X Marks)
      BY <2>1 DEF MarkUncovered, Marks
    <3> HIDE DEF fields
    <3> QED BY <2>0, <2>4, <3>1, <3>2, <3>3 DEF TypeOK, Ghosts
  <2>9. nextSeq' \in 1 .. MaxSeq + 1
    BY <1>7, PlanAssumption DEF Recreate, TypeOK
  <2> QED BY <1>7, <2>6, <2>7, <2>8, <2>9 DEF Recreate, TypeOK
<1>8. ASSUME Reset
      PROVE  TypeOK'
  <2>1. mirror' \in Mirrors
    BY <1>8 DEF Reset, TypeOK, Mirrors
  <2>2. ghost' \in Ghosts
    BY <1>8 DEF Reset, TypeOK, Ghosts
  <2>3. left' \in [EnvironmentActs -> Nat]
    BY <1>8 DEF Reset, Spend, TypeOK, EnvironmentActs
  <2> QED BY <1>8, <2>1, <2>2, <2>3 DEF Reset, TypeOK
<1> QED
  BY <1>1, <1>3, <1>4, <1>5, <1>6, <1>7, <1>8 DEF UserStep

(* The answer being applied is one of the batch's.                         *)
LEMMA CurTypes ==
  ASSUME TypeInv, Held(answers) # {}
  PROVE  /\ Cur \in Held(answers) /\ Cur \in Seqs
         /\ Result \in Answers
         /\ Op \in Entries
<1>1. Held(answers) \in SUBSET Nat
  BY DEF Held, Seqs
<1>2. Cur \in Held(answers)
  BY <1>1, FirstIsIn DEF Cur
<1>3. Cur \in Seqs /\ Result \in Answers
  BY <1>2 DEF Held, Result, TypeInv, TypeOK
<1>4. Op \in Entries
  BY <1>2 DEF Held, Op, TypeInv, TypeOK, CycleOK, Outboxes
<1> QED BY <1>2, <1>3, <1>4

(* Parking an op leaves an op.                                             *)
LEMMA ParkType ==
  ASSUME NEW e \in Entries, NEW code \in Codes, NEW dayOver \in BOOLEAN
  PROVE  Park(e, code, dayOver) \in Entries
<1>1. [e EXCEPT !.state = "deadRemote", !.error = "final"] \in Entries
  BY DEF Entries, OpStates, Errors
<1>2. [e EXCEPT !.state = "retrying", !.error = "temporary",
                !.failures = IF @ < GiveUp THEN @ + 1 ELSE @] \in Entries
  <2>1. (IF e.failures < GiveUp THEN e.failures + 1 ELSE e.failures) \in Nat
    BY DEF Entries
  <2>2. \A n \in Nat : [e EXCEPT !.state = "retrying", !.error = "temporary",
                                 !.failures = n] \in Entries
    BY DEF Entries, OpStates, Errors
  <2> QED BY <2>1, <2>2
<1>3. \A er \in Errors :
        [e EXCEPT !.state = "blocked", !.failures = 0, !.error = er] \in Entries
  BY DEF Entries, OpStates
<1>4. (IF code = "temporary" THEN "temporary" ELSE "final") \in Errors
  BY DEF Errors
<1> QED
  BY <1>1, <1>2, <1>3, <1>4 DEF Park

(* The steps of the flush keep every type, and the cycle's memory fits.    *)
LEMMA FlushTypes ==
  ASSUME TypeInv, FlushStep
  PROVE  TypeInv'
<1> USE DEF phoneVars, cycleVars, accountVars, TypeInv
<1>1. ASSUME StartCycle
      PROVE  TypeInv'
  <2>1. outbox' \in Outboxes
    <3>1. \A s \in InState(outbox, RecoveredStates) :
            [outbox[s] EXCEPT !.state = "queued"] \in Entries
      BY DEF InState, Held, TypeOK, Outboxes, Entries, OpStates
    <3> QED BY <1>1, <3>1 DEF StartCycle, TypeOK, Outboxes
  <2>2. TypeOK'
    BY <1>1, <2>1 DEF StartCycle, TypeOK, Pcs
  <2>3. CycleOK'
    BY <1>1 DEF StartCycle, CycleOK, InResult, Held
  <2>4. RequestsOK'
    BY <1>1 DEF StartCycle, RequestsOK, Held
  <2> QED BY <2>2, <2>3, <2>4
<1>2. ASSUME LoadBatch
      PROVE  TypeInv'
  <2>1. batch' \in Outboxes
    BY <1>2 DEF LoadBatch, TypeOK, Outboxes
  <2>2. TypeOK'
    BY <1>2, <2>1 DEF LoadBatch, TypeOK, Pcs
  <2>3. CycleOK'
    BY <1>2 DEF LoadBatch, CycleOK, InResult, Held
  <2>4. RequestsOK'
    BY <1>2 DEF LoadBatch, RequestsOK, Held
  <2> QED BY <2>2, <2>3, <2>4
<1>3. ASSUME Send
      PROVE  TypeInv'
  <2>1. outbox' \in Outboxes
    <3>1. \A s \in Seqs : outbox[s] # None =>
            [outbox[s] EXCEPT !.state = "inflight", !.sent = TRUE] \in Entries
      BY DEF TypeOK, Outboxes, Entries, OpStates
    <3> QED BY <1>3, <3>1 DEF Send, TypeOK, Outboxes
  <2>2. reqs' \in [Lanes -> Requests \cup {None}]
    <3>1. [todo |-> Held(batch), batch |-> batch, failed |-> {},
           answers |-> NoOps, read |-> None] \in Requests
      BY DEF Requests, TypeOK, NoOps, Held
    <3> QED BY <1>3, <3>1 DEF Send, TypeOK, Lanes
  <2>3. TypeOK'
    BY <1>3, <2>1, <2>2 DEF Send, TypeOK, Pcs
  <2>4. CycleOK'
    BY <1>3 DEF Send, CycleOK, InResult, Held
  <2>5. RequestsOK'
    BY <1>3 DEF Send, RequestsOK, Held, NoOps, Lanes, TypeOK
  <2> QED BY <2>3, <2>4, <2>5
<1>4. ASSUME RequestFails
      PROVE  TypeInv'
  <2>1. outbox' \in Outboxes
    <3>1. \A s \in Seqs : outbox[s] # None =>
            [outbox[s] EXCEPT !.state = "queued"] \in Entries
      BY DEF TypeOK, Outboxes, Entries, OpStates
    <3> QED BY <1>4, <3>1 DEF RequestFails, TypeOK, Outboxes
  <2>2. /\ reqs' \in [Lanes -> Requests \cup {None}]
        /\ left' \in [EnvironmentActs -> Nat]
    BY <1>4 DEF RequestFails, Spend, TypeOK, Lanes, EnvironmentActs
  <2>3. ghost' \in Ghosts
    BY <1>4 DEF RequestFails, TypeOK, Ghosts, Undelivered
  <2>4. batch' \in Outboxes
    BY <1>4 DEF RequestFails, NoOps, Outboxes
  <2>5. TypeOK'
    BY <1>4, <2>1, <2>2, <2>3, <2>4 DEF RequestFails, TypeOK, Pcs
  <2>6. CycleOK'
    BY <1>4 DEF RequestFails, CycleOK, InResult, Held
  <2>7. RequestsOK'
    BY <1>4 DEF RequestFails, RequestsOK, Held, Lanes, TypeOK
  <2> QED BY <2>5, <2>6, <2>7
<1>5. ASSUME Reply
      PROVE  TypeInv'
  <2>1. TypeOK'
    BY <1>5 DEF Reply, TypeOK, Pcs, Requests, Lanes
  <2>2. CycleOK'
    BY <1>5 DEF Reply, CycleOK, RequestsOK, InResult, Held, Lanes
  <2>3. RequestsOK'
    BY <1>5 DEF Reply, RequestsOK, Held, Lanes, TypeOK
  <2> QED BY <2>1, <2>2, <2>3
<1>6. ASSUME BatchDone
      PROVE  TypeInv'
  <2>1. TypeOK'
    BY <1>6 DEF BatchDone, TypeOK, Pcs, NoOps, Outboxes
  <2>2. CycleOK'
    BY <1>6 DEF BatchDone, CycleOK, InResult, Held
  <2>3. RequestsOK'
    BY <1>6 DEF BatchDone, RequestsOK, Held
  <2> QED BY <2>1, <2>2, <2>3
<1>7. ASSUME ApplySuccess
      PROVE  TypeInv'
  <2>1. outbox' \in Outboxes
    BY <1>7 DEF ApplySuccess, TypeOK, Outboxes
  <2>2. CASE pc' = "shelve" /\ UNCHANGED answers
    <3>1. TypeOK'
      BY <1>7, <2>1, <2>2 DEF ApplySuccess, TypeOK, Pcs
    <3>2. CycleOK'
      BY <1>7, <2>2 DEF ApplySuccess, CycleOK, InResult, Held
    <3>3. RequestsOK'
      BY <1>7 DEF ApplySuccess, RequestsOK, Held
    <3> QED BY <3>1, <3>2, <3>3
  <2>3. CASE Result.row # None /\ pc' = "reread" /\ UNCHANGED answers
    <3>1. TypeOK'
      BY <1>7, <2>1, <2>3 DEF ApplySuccess, TypeOK, Pcs
    <3>2. CycleOK'
      BY <1>7, <2>3 DEF ApplySuccess, CycleOK, InResult, Held, Result, Cur
    <3>3. RequestsOK'
      BY <1>7 DEF ApplySuccess, RequestsOK, Held
    <3> QED BY <3>1, <3>2, <3>3
  <2>4. CASE NextResult
    <3>1. TypeOK'
      BY <1>7, <2>1, <2>4 DEF ApplySuccess, NextResult, TypeOK, Pcs
    <3>2. CycleOK'
      BY <1>7, <2>4 DEF ApplySuccess, NextResult, CycleOK, InResult, Held, TypeOK
    <3>3. RequestsOK'
      BY <1>7 DEF ApplySuccess, RequestsOK, Held
    <3> QED BY <3>1, <3>2, <3>3
  <2> QED BY <1>7, <2>2, <2>3, <2>4 DEF ApplySuccess, AfterShelving
<1>8. ASSUME Shelve
      PROVE  TypeInv'
  <2>1. /\ Cur \in Seqs /\ Result \in Answers /\ Op \in Entries
    BY <1>8, CurTypes DEF Shelve, CycleOK, InResult
  <2>2. shelf' \subseteq ShelfEntries
    <3>1. Op.id \in Ids /\ Op.fields \in OpFields /\ Result.receipts \in OpFields
      BY <2>1 DEF Entries, Answers
    <3>2. RealConflicts \subseteq
            Carries(FilterSelfConflicts(Result.receipts, Op.base, Op.fields))
      BY DEF RealConflicts
    <3>3. \A f \in RealConflicts : f \in Fields /\ Result.receipts[f] \in Values
      BY <3>1, <3>2 DEF Carries, FilterSelfConflicts, OpFields
    <3>4. \A f \in RealConflicts :
            [id |-> Op.id, field |-> f, own |-> Op.fields[f],
             server |-> Result.receipts[f]] \in ShelfEntries
      BY <3>1, <3>3 DEF ShelfEntries, OpFields
    <3> QED BY <1>8, <3>4 DEF Shelve, TypeOK
  <2>3. RequestsOK'
    BY <1>8 DEF Shelve, RequestsOK, Held
  <2>4. CASE Result.row # None /\ pc' = "reread" /\ UNCHANGED answers
    <3>1. TypeOK'
      BY <1>8, <2>2, <2>4 DEF Shelve, TypeOK, Pcs
    <3>2. CycleOK'
      BY <1>8, <2>4 DEF Shelve, CycleOK, InResult, Held, Result, Cur
    <3> QED BY <2>3, <3>1, <3>2
  <2>5. CASE NextResult
    <3>1. TypeOK'
      BY <1>8, <2>2, <2>5 DEF Shelve, NextResult, TypeOK, Pcs
    <3>2. CycleOK'
      BY <1>8, <2>5 DEF Shelve, NextResult, CycleOK, InResult, Held, TypeOK
    <3> QED BY <2>3, <3>1, <3>2
  <2> QED BY <1>8, <2>4, <2>5 DEF Shelve, AfterShelving
<1>9. ASSUME Reread
      PROVE  TypeInv'
  <2>1. TypeOK'
    BY <1>9 DEF Reread, TypeOK, Pcs, Outboxes
  <2>2. CycleOK'
    BY <1>9 DEF Reread, CycleOK, InResult, Held, Result, Cur
  <2>3. RequestsOK'
    BY <1>9 DEF Reread, RequestsOK, Held
  <2> QED BY <2>1, <2>2, <2>3
<1>10. ASSUME ConfirmRow
       PROVE  TypeInv'
  <2>1. /\ Cur \in Seqs /\ Result \in Answers /\ Op \in Entries
        /\ Result.row # None
    BY <1>10, CurTypes DEF ConfirmRow, CycleOK, InResult
  <2>2. mirror' \in Mirrors
    <3>1. Result.row \in Rows /\ Op.id \in Ids
      BY <2>1 DEF Answers, Entries
    <3>2. CollectDirty(snap, Op.id) \in OpFields
      BY <3>1, CollectDirtyType DEF TypeOK
    <3>3. Confirmed(Result.row, CollectDirty(snap, Op.id)) \in Rows
      BY <3>1, <3>2, MergeTypes
    <3> QED BY <1>10, <3>1, <3>3 DEF ConfirmRow, TypeOK, Mirrors
  <2>3. ghost' \in Ghosts
    BY <1>10 DEF ConfirmRow, Look, TypeOK, Ghosts
  <2>4. TypeOK'
    BY <1>10, <2>2, <2>3 DEF ConfirmRow, NextResult, TypeOK, Pcs, NoOps, Outboxes
  <2>5. CycleOK'
    BY <1>10 DEF ConfirmRow, NextResult, CycleOK, InResult, Held, TypeOK
  <2>6. RequestsOK'
    BY <1>10 DEF ConfirmRow, RequestsOK, Held
  <2> QED BY <2>4, <2>5, <2>6
<1>11. ASSUME ApplyRefusal
       PROVE  TypeInv'
  <2>1. Cur \in Seqs /\ Result.code \in Codes
    BY <1>11, CurTypes DEF ApplyRefusal, Answers
  <2>2. outbox' \in Outboxes
    <3>1. PICK dayOver \in BOOLEAN :
            outbox' = [outbox EXCEPT ![Cur] =
                        IF @ = None THEN None
                        ELSE IF Result.status = "dependencyFailed"
                        THEN [@ EXCEPT !.state = "queued"]
                        ELSE Park(@, Result.code, dayOver)]
      BY <1>11 DEF ApplyRefusal
    <3>2. outbox[Cur] # None =>
            /\ Park(outbox[Cur], Result.code, dayOver) \in Entries
            /\ [outbox[Cur] EXCEPT !.state = "queued"] \in Entries
      <4>1. outbox[Cur] # None => outbox[Cur] \in Entries
        BY <2>1 DEF TypeOK, Outboxes
      <4>2. \A e \in Entries : [e EXCEPT !.state = "queued"] \in Entries
        BY DEF Entries, OpStates
      <4> QED BY <2>1, <4>1, <4>2, ParkType
    <3> QED BY <3>1, <3>2 DEF TypeOK, Outboxes
  <2>3. TypeOK'
    BY <1>11, <2>2 DEF ApplyRefusal, NextResult, TypeOK, Pcs
  <2>4. CycleOK'
    BY <1>11 DEF ApplyRefusal, NextResult, CycleOK, InResult, Held, TypeOK
  <2>5. RequestsOK'
    BY <1>11 DEF ApplyRefusal, RequestsOK, Held
  <2> QED BY <2>3, <2>4, <2>5
<1> QED
  BY <1>1, <1>2, <1>3, <1>4, <1>5, <1>6, <1>7, <1>8, <1>9, <1>10, <1>11 DEF FlushStep

(* The steps of the pull.                                                  *)
LEMMA PullTypes ==
  ASSUME TypeInv, PullStep
  PROVE  TypeInv'
<1> USE DEF phoneVars, cycleVars, accountVars, TypeInv
<1>1. ASSUME FetchPage
      PROVE  TypeInv'
  <2>1. DeltaSince(cursor) \in Pages
    BY DEF DeltaSince, Pages, TypeOK, Mirrors
  <2>2. TypeOK'
    BY <1>1, <2>1 DEF FetchPage, TypeOK, Pcs
  <2>4. CycleOK'
    BY <1>1, <2>1 DEF FetchPage, CycleOK, InResult, Held
  <2>5. RequestsOK'
    BY <1>1 DEF FetchPage, RequestsOK, Held
  <2> QED BY <2>2, <2>4, <2>5
<1>2. ASSUME PullFails
      PROVE  TypeInv'
  <2>1. TypeOK'
    BY <1>2 DEF PullFails, Spend, TypeOK, Pcs, EnvironmentActs
  <2>2. CycleOK'
    BY <1>2 DEF PullFails, CycleOK, InResult, Held
  <2>3. RequestsOK'
    BY <1>2 DEF PullFails, RequestsOK, Held
  <2> QED BY <2>1, <2>2, <2>3
<1>3. ASSUME LoadForRebase
      PROVE  TypeInv'
  <2>1. TypeOK'
    BY <1>3 DEF LoadForRebase, TypeOK, Pcs
  <2>2. CycleOK'
    BY <1>3 DEF LoadForRebase, CycleOK, InResult, Held
  <2>3. RequestsOK'
    BY <1>3 DEF LoadForRebase, RequestsOK, Held
  <2> QED BY <2>1, <2>2, <2>3
<1>4. ASSUME ApplyPage
      PROVE  TypeInv'
  <2> DEFINE merged == [i \in Ids |->
                          IF page.rows[i] = None THEN mirror[i]
                          ELSE Rebased(page.rows[i], mirror[i], CollectDirty(snap, i))]
  <2>1. page \in Pages
    BY <1>4 DEF ApplyPage, TypeOK, CycleOK
  <2>2. page.rows \in Mirrors /\ page.dead \in SUBSET Ids /\ page.at \in Nat
    BY <2>1 DEF Pages
  <2>3. merged \in Mirrors
    <3>1. ASSUME NEW i \in Ids, page.rows[i] # None
          PROVE  Rebased(page.rows[i], mirror[i], CollectDirty(snap, i)) \in Rows
      <4>1. CollectDirty(snap, i) \in OpFields
        BY CollectDirtyType DEF TypeOK
      <4>2. page.rows[i] \in Rows /\ mirror[i] \in Rows \cup {None}
        BY <2>2, <3>1 DEF TypeOK, Mirrors
      <4> QED BY <4>1, <4>2, MergeTypes
    <3> QED BY <3>1 DEF TypeOK, Mirrors
  <2>4. mirror' \in Mirrors
    <3>1. mirror' = Forgotten(merged, page.dead)
      BY <1>4 DEF ApplyPage
    <3> HIDE DEF merged
    <3> QED BY <2>2, <2>3, <3>1, RowTypes
  <2>5. outbox' \in Outboxes
    BY <1>4, <2>2, OutboxTypes DEF ApplyPage, TypeOK
  <2>6. ghost' \in Ghosts
    BY <1>4 DEF ApplyPage, Look, TypeOK, Ghosts
  <2>7. TypeOK'
    BY <1>4, <2>2, <2>4, <2>5, <2>6 DEF ApplyPage, TypeOK, Pcs, NoOps, Outboxes
  <2>8. CycleOK'
    BY <1>4 DEF ApplyPage, CycleOK, InResult, Held
  <2>9. RequestsOK'
    BY <1>4 DEF ApplyPage, RequestsOK, Held
  <2> QED BY <2>7, <2>8, <2>9
<1>5. ASSUME ApplyPageFails
      PROVE  TypeInv'
  <2>1. TypeOK'
    BY <1>5 DEF ApplyPageFails, Spend, TypeOK, Pcs, NoOps, Outboxes, EnvironmentActs
  <2>2. CycleOK'
    BY <1>5 DEF ApplyPageFails, CycleOK, InResult, Held
  <2>3. RequestsOK'
    BY <1>5 DEF ApplyPageFails, RequestsOK, Held
  <2> QED BY <2>1, <2>2, <2>3
<1> QED
  BY <1>1, <1>2, <1>3, <1>4, <1>5 DEF PullStep

(* The op a request is at is one of its batch.                             *)
LEMMA HeadTypes ==
  ASSUME TypeInv, NEW k \in Lanes, Working(k)
  PROVE  /\ reqs[k] \in Requests
         /\ HeadSeq(k) \in reqs[k].todo /\ HeadSeq(k) \in Held(reqs[k].batch)
         /\ HeadSeq(k) \in Seqs
         /\ HeadOp(k) \in Entries
<1>1. reqs[k] \in Requests
  BY DEF Working, TypeInv, TypeOK
<1>2. reqs[k].todo \in SUBSET Nat /\ reqs[k].todo # {}
  BY <1>1 DEF Working, Requests, Seqs
<1>3. HeadSeq(k) \in reqs[k].todo
  BY <1>2, FirstIsIn DEF HeadSeq
<1>4. HeadSeq(k) \in Held(reqs[k].batch)
  BY <1>3 DEF Working, TypeInv, RequestsOK
<1>5. HeadOp(k) \in Entries
  BY <1>1, <1>4 DEF Held, HeadOp, Requests, Outboxes
<1> QED BY <1>1, <1>3, <1>4, <1>5 DEF Held

(* Recording an answer.                                                    *)
LEMMA FinishTypes ==
  ASSUME TypeInv, NEW k \in Lanes, Working(k), NEW answer \in Answers,
         Finish(k, answer)
  PROVE  /\ reqs' \in [Lanes -> Requests \cup {None}] /\ reqs'[k] \in Requests
         /\ UNCHANGED <<pc, batch>> => RequestsOK'
<1>1. /\ reqs[k] \in Requests
      /\ HeadSeq(k) \in Held(reqs[k].batch)
      /\ HeadSeq(k) \in Seqs
      /\ HeadOp(k) \in Entries
  BY HeadTypes
<1>2. HeadOp(k).id \in Ids
  BY <1>1 DEF Entries
<1>3. /\ reqs' = [reqs EXCEPT ![k] = reqs'[k]]
      /\ reqs'[k] \in Requests
      /\ reqs'[k].todo = reqs[k].todo \ {HeadSeq(k)}
      /\ reqs'[k].answers = [reqs[k].answers EXCEPT ![HeadSeq(k)] = answer]
      /\ reqs'[k].batch = reqs[k].batch
  BY <1>1, <1>2 DEF Finish, TypeInv, TypeOK, Requests
<1>4. reqs' \in [Lanes -> Requests \cup {None}]
  BY <1>3 DEF TypeInv, TypeOK
<1>5. ASSUME UNCHANGED <<pc, batch>>
      PROVE  RequestsOK'
  <2>1. Held(reqs'[k].answers) \subseteq Held(reqs'[k].batch)
    BY <1>1, <1>3 DEF Working, TypeInv, RequestsOK, Held, Requests
  <2>2. reqs'[k].todo \subseteq Held(reqs'[k].batch)
    BY <1>3 DEF Working, TypeInv, RequestsOK
  <2>3. \A l \in Lanes : l # k => reqs'[l] = reqs[l]
    BY <1>3 DEF TypeInv, TypeOK
  <2>4. reqs[k] # None
    BY DEF Working
  <2>5. reqs'["live"] # None => pc' = "sent" /\ reqs'["live"].batch = batch'
    BY <1>3, <1>5, <2>3, <2>4 DEF TypeInv, RequestsOK, Lanes
  <2>6. ASSUME NEW l \in Lanes, reqs'[l] # None
        PROVE  /\ reqs'[l].todo \subseteq Held(reqs'[l].batch)
               /\ Held(reqs'[l].answers) \subseteq Held(reqs'[l].batch)
    BY <2>1, <2>2, <2>3, <2>6 DEF TypeInv, RequestsOK
  <2> QED BY <2>5, <2>6 DEF RequestsOK, Held
<1> QED BY <1>3, <1>4, <1>5

(* An answer put together from its parts is an answer.                     *)
LEMMA AnswerType ==
  ASSUME NEW status \in Statuses, NEW row \in Rows \cup {None},
         NEW receipts \in OpFields, NEW code \in Codes
  PROVE  Answer(status, row, receipts, code) \in Answers
BY DEF Answer, Answers

(* So is a refusal.                                                        *)
LEMMA RefusedType ==
  ASSUME NEW code \in Codes
  PROVE  Refused(code) \in Answers
BY AnswerType, RowTypes DEF Refused, Statuses

(* Keeping a read in a request.                                            *)
LEMMA KeepReadTypes ==
  ASSUME TypeInv, NEW k \in Lanes, Working(k), NEW row \in Rows \cup {None},
         reqs' = [reqs EXCEPT ![k].read = row], UNCHANGED <<pc, batch>>
  PROVE  reqs' \in [Lanes -> Requests \cup {None}] /\ RequestsOK'
<1>1. reqs[k] \in Requests /\ reqs[k] # None
  BY HeadTypes DEF Working
<1>2. /\ reqs'[k] \in Requests
      /\ reqs'[k].todo = reqs[k].todo
      /\ reqs'[k].answers = reqs[k].answers
      /\ reqs'[k].batch = reqs[k].batch
  BY <1>1 DEF TypeInv, TypeOK, Requests
<1>3. \A l \in Lanes : l # k => reqs'[l] = reqs[l]
  BY DEF TypeInv, TypeOK
<1>4. reqs' \in [Lanes -> Requests \cup {None}]
  BY <1>2 DEF TypeInv, TypeOK
<1>5. RequestsOK'
  BY <1>1, <1>2, <1>3 DEF TypeInv, RequestsOK, Held, Lanes
<1> QED BY <1>4, <1>5

(* Giving a request up.                                                    *)
LEMMA DropRequestTypes ==
  ASSUME TypeInv, NEW k \in Lanes, reqs' = [reqs EXCEPT ![k] = None],
         UNCHANGED <<pc, batch>>
  PROVE  reqs' \in [Lanes -> Requests \cup {None}] /\ RequestsOK'
BY DEF TypeInv, TypeOK, RequestsOK, Held, Lanes

(* Removing a row of the account keeps rows, tombstones and clock typed.   *)
LEMMA RemoveRowTypes ==
  ASSUME TypeOK, NEW i \in Ids, RemoveRow(i)
  PROVE  srv' \in Mirrors /\ tomb' \in [Ids -> Nat] /\ clock' \in Nat
<1>1. CASE srv[i] = None
  BY <1>1 DEF RemoveRow, TypeOK, accountVars
<1>2. CASE srv[i] # None
  <2>1. clock + 1 \in Nat /\ srv \in Mirrors /\ tomb \in [Ids -> Nat]
    BY DEF TypeOK
  <2>2. Without(srv, i, clock + 1) \in Mirrors
    BY <2>1, RowTypes
  <2>3. /\ clock' = clock + 1 /\ srv' = Without(srv, i, clock + 1)
        /\ tomb' = [tomb EXCEPT ![i] = clock + 1]
    BY <1>2 DEF RemoveRow
  <2> QED BY <2>1, <2>2, <2>3
<1> QED BY <1>1, <1>2

(* The steps of the API.                                                   *)
LEMMA ServerTypes ==
  ASSUME TypeInv, ServerStep
  PROVE  TypeInv'
<1> USE DEF phoneVars, cycleVars, accountVars
<1>0. ASSUME UNCHANGED cycleVars
      PROVE  CycleOK'
  BY <1>0 DEF TypeInv, CycleOK, InResult, Held, Result, Cur
<1>1. ASSUME NEW k \in Lanes, SkipDependent(k)
      PROVE  TypeInv'
  <2>1. Answer("dependencyFailed", None, NoFields, "ok") \in Answers
    BY AnswerType, RowTypes DEF Statuses, Codes
  <2> QED BY <1>0, <1>1, <2>1, FinishTypes DEF SkipDependent, TypeInv, TypeOK
<1>2. ASSUME NEW k \in Lanes, RefuseOp(k)
      PROVE  TypeInv'
  <2>1. Refusals \subseteq Codes
    BY SyncAssumption DEF Codes
  <2>2. PICK code \in Refusals : Finish(k, Refused(code))
    BY <1>2 DEF RefuseOp
  <2>3. Working(k) /\ HeadOp(k).id \in Ids
    BY <1>2, HeadTypes DEF RefuseOp, Reads, Entries
  <2>4. reqs' \in [Lanes -> Requests \cup {None}] /\ RequestsOK'
    BY <1>2, <2>1, <2>2, <2>3, RefusedType, FinishTypes DEF RefuseOp
  <2>5. ghost' \in Ghosts
    BY <1>2, <2>3 DEF RefuseOp, TypeInv, TypeOK, Ghosts, Marks
  <2>6. left' \in [EnvironmentActs -> Nat]
    BY <1>2 DEF RefuseOp, Spend, TypeInv, TypeOK, EnvironmentActs
  <2> QED BY <1>0, <1>2, <2>4, <2>5, <2>6 DEF RefuseOp, TypeInv, TypeOK
<1>3. ASSUME NEW k \in Lanes, ReadForCreate(k)
      PROVE  TypeInv'
  <2>1. /\ Working(k) /\ HeadOp(k).id \in Ids /\ HeadOp(k).fields \in OpFields
    BY <1>3, HeadTypes DEF ReadForCreate, Reads, Entries
  <2>2. srv[HeadOp(k).id] \in Rows \cup {None}
    BY <2>1 DEF TypeInv, TypeOK, Mirrors
  <2>3. /\ Answer("alreadyApplied", srv[HeadOp(k).id], NoFields, "ok") \in Answers
        /\ Answer("alreadyApplied", None, NoFields, "ok") \in Answers
        /\ Refused("final") \in Answers
    BY <2>2, AnswerType, RefusedType, RowTypes DEF Statuses, Codes
  <2>4. [vals |-> Filled(HeadOp(k).fields), at |-> 0] \in Rows
    BY <2>1, RowTypes DEF Rows
  <2>5. reqs' \in [Lanes -> Requests \cup {None}] /\ RequestsOK'
    <3>1. UNCHANGED <<pc, batch>>
      BY <1>3 DEF ReadForCreate
    <3>2. CASE \E answer \in Answers : Finish(k, answer)
      BY <2>1, <3>1, <3>2, FinishTypes
    <3>3. CASE reqs' = [reqs EXCEPT
                          ![k].read = [vals |-> Filled(HeadOp(k).fields), at |-> 0]]
      BY <2>1, <2>4, <3>1, <3>3, KeepReadTypes
    <3> QED BY <1>3, <2>3, <3>2, <3>3 DEF ReadForCreate
  <2> QED BY <1>0, <1>3, <2>5 DEF ReadForCreate, TypeInv, TypeOK
<1>4. ASSUME NEW k \in Lanes, ReadForUpdate(k)
      PROVE  TypeInv'
  <2>1. /\ Working(k) /\ HeadOp(k).id \in Ids
    BY <1>4, HeadTypes DEF ReadForUpdate, Reads, Entries
  <2>2. srv[HeadOp(k).id] \in Rows \cup {None}
    BY <2>1 DEF TypeInv, TypeOK, Mirrors
  <2>3. Refused("gone") \in Answers /\ Refused("final") \in Answers
    BY RefusedType DEF Codes
  <2>4. reqs' \in [Lanes -> Requests \cup {None}] /\ RequestsOK'
    <3>1. UNCHANGED <<pc, batch>>
      BY <1>4 DEF ReadForUpdate
    <3>2. CASE \E answer \in Answers : Finish(k, answer)
      BY <2>1, <3>1, <3>2, FinishTypes
    <3>3. CASE reqs' = [reqs EXCEPT ![k].read = srv[HeadOp(k).id]]
      BY <2>1, <2>2, <3>1, <3>3, KeepReadTypes
    <3> QED BY <1>4, <2>3, <3>2, <3>3 DEF ReadForUpdate
  <2> QED BY <1>0, <1>4, <2>4 DEF ReadForUpdate, TypeInv, TypeOK
<1>5. ASSUME NEW k \in Lanes, WriteCreate(k)
      PROVE  TypeInv'
  <2> DEFINE row == [vals |-> Filled(HeadOp(k).fields), at |-> clock + 1]
  <2>1. /\ Working(k) /\ HeadOp(k).id \in Ids /\ HeadOp(k).fields \in OpFields
    BY <1>5, HeadTypes DEF WriteCreate, Writes, Entries
  <2>2. clock + 1 \in Nat
    BY DEF TypeInv, TypeOK
  <2>3. row \in Rows
    BY <2>1, <2>2, RowTypes DEF Rows
  <2>4. srv' \in Mirrors
    BY <1>5, <2>3 DEF WriteCreate, TypeInv, TypeOK, Mirrors
  <2>5. reqs' \in [Lanes -> Requests \cup {None}] /\ RequestsOK'
    <3>1. Answer("applied", row, NoFields, "ok") \in Answers
      BY <2>3, AnswerType, RowTypes DEF Statuses, Codes
    <3>2. Finish(k, Answer("applied", row, NoFields, "ok")) /\ UNCHANGED <<pc, batch>>
      BY <1>5 DEF WriteCreate
    <3> HIDE DEF row
    <3> QED BY <2>1, <3>1, <3>2, FinishTypes
  <2>6. ghost' \in Ghosts
    <3>1. ghost \in Ghosts /\ ghost.owed \in [Ids -> Values]
      BY DEF TypeInv, TypeOK, Ghosts
    <3>2. Landed(HeadOp(k)) \in [Ids -> Values]
      <4>1. 0 \in Values
        BY PlanAssumption DEF Values
      <4> QED BY <3>1, <4>1 DEF Landed
    <3>3. ghost' = [ghost EXCEPT !.owed = Landed(HeadOp(k))]
      BY <1>5 DEF WriteCreate
    <3> QED BY <3>1, <3>2, <3>3 DEF Ghosts
  <2> QED BY <1>0, <1>5, <2>2, <2>4, <2>5, <2>6 DEF WriteCreate, TypeInv, TypeOK
<1>6. ASSUME NEW k \in Lanes, WriteUpdate(k)
      PROVE  TypeInv'
  <2> DEFINE e == HeadOp(k)
             row == [vals |-> Overlay(srv[e.id].vals, e.fields), at |-> clock + 1]
  <2>1. /\ Working(k) /\ e \in Entries /\ e.id \in Ids /\ e.fields \in OpFields
    BY <1>6, HeadTypes DEF WriteUpdate, Writes, Entries
  <2>2. clock + 1 \in Nat
    BY DEF TypeInv, TypeOK
  <2>3. row \in Rows
    <3>1. srv[e.id].vals \in RowVals
      BY <1>6, <2>1 DEF WriteUpdate, TypeInv, TypeOK, Mirrors, Rows
    <3> QED BY <2>1, <2>2, <3>1, OverlayTypes DEF Rows
  <2>4. srv' \in Mirrors
    BY <1>6, <2>3 DEF WriteUpdate, TypeInv, TypeOK, Mirrors
  <2>5. reqs' \in [Lanes -> Requests \cup {None}] /\ RequestsOK'
    <3>1. reqs[k].read \in Rows
      BY <1>6, <2>1, HeadTypes DEF WriteUpdate, Writes, Requests
    <3>2. Receipts(e, reqs[k].read) \in OpFields
      BY <2>1, <3>1, MergeTypes
    <3>3. Answer("applied", row, Receipts(e, reqs[k].read), "ok") \in Answers
      BY <2>3, <3>2, AnswerType DEF Statuses, Codes
    <3>4. /\ Finish(k, Answer("applied", row, Receipts(e, reqs[k].read), "ok"))
          /\ UNCHANGED <<pc, batch>>
      BY <1>6 DEF WriteUpdate
    <3> HIDE DEF row, e
    <3> QED BY <2>1, <3>3, <3>4, FinishTypes
  <2>6. ghost' \in Ghosts
    <3> DEFINE replaced == IF e.fields["text"] = Unset THEN {}
                           ELSE {srv[e.id].vals["text"]} \cap ghost.foreign
    <3>1. ghost \in Ghosts /\ ghost.owed \in [Ids -> Values] /\ ghost.foreign \in SUBSET Stamps
      BY DEF TypeInv, TypeOK, Ghosts
    <3>2. Landed(e) \in [Ids -> Values]
      <4>1. 0 \in Values
        BY PlanAssumption DEF Values
      <4> HIDE DEF e
      <4> QED BY <3>1, <4>1 DEF Landed
    <3>3. replaced \in SUBSET Stamps
      BY <3>1
    <3>4. ghost' = [ghost EXCEPT
                      !.owed = Landed(e),
                      !.displaced = @ \cup replaced,
                      !.excused = IF k = "late" \/ reqs[k].read # srv[e.id]
                                  THEN @ \cup replaced ELSE @]
      BY <1>6 DEF WriteUpdate
    <3> HIDE DEF e, replaced
    <3> QED BY <3>1, <3>2, <3>3, <3>4 DEF Ghosts
  <2> QED BY <1>0, <1>6, <2>2, <2>4, <2>5, <2>6 DEF WriteUpdate, TypeInv, TypeOK
<1>7. ASSUME NEW k \in Lanes, WriteAborts(k)
      PROVE  TypeInv'
  <2>1. ghost' \in Ghosts
    BY <1>7 DEF WriteAborts, Undelivered, TypeInv, TypeOK, Ghosts
  <2> QED BY <1>0, <1>7, <2>1, DropRequestTypes DEF WriteAborts, TypeInv, TypeOK
<1>8. ASSUME NEW k \in Lanes, DeleteRow(k)
      PROVE  TypeInv'
  <2>1. /\ Working(k) /\ HeadOp(k).id \in Ids
    BY <1>8, HeadTypes DEF DeleteRow, Reads, Entries
  <2>2. srv' \in Mirrors /\ tomb' \in [Ids -> Nat] /\ clock' \in Nat
    BY <1>8, <2>1, RemoveRowTypes DEF DeleteRow, TypeInv
  <2>3. reqs' \in [Lanes -> Requests \cup {None}] /\ RequestsOK'
    <3>1. /\ Answer("alreadyApplied", None, NoFields, "ok") \in Answers
          /\ Answer("applied", None, NoFields, "ok") \in Answers
      BY AnswerType, RowTypes DEF Statuses, Codes
    <3>2. \E answer \in Answers : Finish(k, answer)
      BY <1>8, <3>1 DEF DeleteRow
    <3> QED BY <1>8, <2>1, <3>2, FinishTypes DEF DeleteRow
  <2> QED BY <1>0, <1>8, <2>2, <2>3 DEF DeleteRow, TypeInv, TypeOK
<1>9. ASSUME LateEnds
      PROVE  TypeInv'
  BY <1>0, <1>9, DropRequestTypes DEF LateEnds, TypeInv, TypeOK, Lanes
<1> QED
  BY <1>1, <1>2, <1>3, <1>4, <1>5, <1>6, <1>7, <1>8, <1>9 DEF ServerStep

(* Other devices and crashes.                                              *)
LEMMA WorldTypes ==
  ASSUME TypeInv, WorldStep
  PROVE  TypeInv'
<1> USE DEF phoneVars, cycleVars, accountVars
<1>1. ASSUME NEW i \in Ids, ForeignEdit(i)
      PROVE  TypeInv'
  <2>1. stamp' \in 0 .. MaxStamp /\ stamp' \in Stamps /\ stamp' \in Values
    BY <1>1, PlanAssumption DEF ForeignEdit, TypeInv, TypeOK, Stamps, Values
  <2>2. clock' \in Nat
    BY <1>1 DEF ForeignEdit, TypeInv, TypeOK
  <2>3. srv' \in Mirrors
    <3>1. srv[i].vals \in RowVals
      BY <1>1 DEF ForeignEdit, TypeInv, TypeOK, Mirrors, Rows
    <3>2. [vals |-> [srv[i].vals EXCEPT !["text"] = stamp'], at |-> clock'] \in Rows
      BY <2>1, <2>2, <3>1 DEF Rows, RowVals
    <3> QED BY <1>1, <3>2 DEF ForeignEdit, TypeInv, TypeOK, Mirrors
  <2>4. ghost' \in Ghosts
    BY <1>1, <2>1 DEF ForeignEdit, TypeInv, TypeOK, Ghosts
  <2>5. left' \in [EnvironmentActs -> Nat]
    BY <1>1 DEF ForeignEdit, Spend, TypeInv, TypeOK, EnvironmentActs
  <2>6. CycleOK' /\ RequestsOK'
    BY <1>1 DEF ForeignEdit, TypeInv, CycleOK, RequestsOK, InResult, Held, Result, Cur
  <2> QED BY <1>1, <2>1, <2>2, <2>3, <2>4, <2>5, <2>6 DEF ForeignEdit, TypeInv, TypeOK
<1>2. ASSUME NEW i \in Ids, ForeignDelete(i)
      PROVE  TypeInv'
  <2>1. srv' \in Mirrors /\ tomb' \in [Ids -> Nat] /\ clock' \in Nat
    BY <1>2, RemoveRowTypes DEF ForeignDelete, TypeInv
  <2>2. left' \in [EnvironmentActs -> Nat]
    BY <1>2 DEF ForeignDelete, Spend, TypeInv, TypeOK, EnvironmentActs
  <2>3. CycleOK' /\ RequestsOK'
    BY <1>2 DEF ForeignDelete, TypeInv, CycleOK, RequestsOK, InResult, Held, Result, Cur
  <2> QED BY <1>2, <2>1, <2>2, <2>3 DEF ForeignDelete, TypeInv, TypeOK
<1>3. ASSUME Crash
      PROVE  TypeInv'
  <2>1. ghost' \in Ghosts
    <3>1. {m \in Ids \X {"cut"} : BeingApplied(m[1])} \subseteq Ids \X Marks
      BY DEF Marks
    <3> QED BY <1>3, <3>1 DEF Crash, Undelivered, TypeInv, TypeOK, Ghosts
  <2>2. left' \in [EnvironmentActs -> Nat]
    BY <1>3 DEF Crash, Spend, TypeInv, TypeOK, EnvironmentActs
  <2>3. TypeOK'
    BY <1>3, <2>1, <2>2 DEF Crash, TypeInv, TypeOK, Pcs, NoOps, Outboxes
  <2>4. CycleOK'
    BY <1>3 DEF Crash, CycleOK, InResult, Held, NoOps
  <2>5. RequestsOK'
    BY <1>3 DEF Crash, TypeInv, TypeOK, RequestsOK, Held, Lanes
  <2> QED BY <2>3, <2>4, <2>5 DEF TypeInv
<1> QED BY <1>1, <1>2, <1>3 DEF WorldStep

(* A phone that has just pulled has the types and a cycle at rest.         *)
LEMMA InitTypes ==
  Init => TypeInv
<1> SUFFICES ASSUME Init PROVE TypeInv
  OBVIOUS
<1> USE DEF Init
<1>1. srv \in Mirrors
  <2>1. KnownRow \in Rows
    BY RowTypes DEF KnownRow, Rows
  <2> QED BY <2>1 DEF Mirrors
<1>2. ghost \in Ghosts
  <2>1. 0 \in Values
    BY PlanAssumption DEF Values
  <2> QED BY <2>1, SyncAssumption DEF Ghosts
<1>3. outbox \in Outboxes /\ nextSeq \in 1 .. MaxSeq + 1 /\ stamp \in 0 .. MaxStamp
  BY PlanAssumption DEF NoOps, Outboxes
<1>4. TypeOK
  BY <1>1, <1>2, <1>3, SyncAssumption DEF TypeOK, NoOps, Pcs
<1>5. CycleOK
  BY DEF CycleOK, InResult, Held, NoOps
<1>6. RequestsOK
  BY DEF RequestsOK, Lanes
<1> QED BY <1>4, <1>5, <1>6 DEF TypeInv

(* Every step of anyone keeps the types and the fit of the cycle.          *)
LEMMA NextTypes ==
  TypeInv /\ [Next]_vars => TypeInv'
<1> SUFFICES ASSUME TypeInv, [Next]_vars PROVE TypeInv'
  OBVIOUS
<1>1. CASE UserStep
  <2>1. TypeOK'
    BY <1>1, UserTypes DEF TypeInv
  <2>2. UNCHANGED <<cycleVars, reqs>>
    BY <1>1 DEF UserStep, Create, UpdateText, UpdateRef, Update, Delete, Retry,
                Discard, Recreate, Reset, cycleVars
  <2>3. CycleOK' /\ RequestsOK'
    BY <2>2 DEF TypeInv, CycleOK, RequestsOK, InResult, Held, Result, Cur, cycleVars
  <2> QED BY <2>1, <2>3 DEF TypeInv
<1>2. CASE UNCHANGED vars
  <2>1. TypeOK'
    BY <1>2 DEF TypeInv, TypeOK, vars, phoneVars, cycleVars, accountVars
  <2>2. CycleOK' /\ RequestsOK'
    BY <1>2 DEF TypeInv, CycleOK, RequestsOK, InResult, Held, Result, Cur,
                vars, cycleVars
  <2> QED BY <2>1, <2>2 DEF TypeInv
<1> QED BY <1>1, <1>2, FlushTypes, PullTypes, ServerTypes, WorldTypes DEF Next

(* Every variable keeps its type, and what the cycle holds in memory fits  *)
(* where the cycle stands, in every behaviour.                             *)
THEOREM TypeInvariant ==
  Spec => []TypeInv
<1> QED BY InitTypes, NextTypes, PTL DEF Spec

(* Every variable keeps its type in every behaviour, whatever the faults.  *)
THEOREM TypeCorrect ==
  Spec => []TypeOK
<1>1. TypeInv => TypeOK
  BY DEF TypeInv
<1> QED BY <1>1, TypeInvariant, PTL

-----------------------------------------------------------------------------
(* A deleted row stays deleted.                                            *)

(* A step that leaves rows, tombstones and requests alone.                 *)
LEMMA QuietStep ==
  ASSUME ResurrectionInv, UNCHANGED <<srv, tomb, reqs>>, left'["late"] = 0
  PROVE  OneRequest' /\ ReadIsFresh' /\ NoResurrection'
BY DEF ResurrectionInv, OneRequest, ReadIsFresh, NoResurrection, HeadOp, HeadSeq

(* A step after which the phone's request has read nothing.                *)
LEMMA NothingReadStep ==
  ASSUME ResurrectionInv, UNCHANGED <<srv, tomb>>, left'["late"] = 0,
         reqs'["late"] = None,
         reqs'["live"] = None \/ reqs'["live"].read = None
  PROVE  OneRequest' /\ ReadIsFresh' /\ NoResurrection'
BY DEF ResurrectionInv, OneRequest, ReadIsFresh, NoResurrection

(* Recording an answer forgets what was read.                              *)
LEMMA FinishForgets ==
  ASSUME TypeInv, NEW answer, Working("live"), Finish("live", answer)
  PROVE  reqs'["late"] = reqs["late"] /\ reqs'["live"].read = None
<1>1. reqs["live"] \in Requests
  BY HeadTypes DEF Lanes
<1> QED BY <1>1 DEF TypeInv, TypeOK, Finish, Lanes, Requests

(* Removing a row writes the tombstone of a row that was there.            *)
LEMMA RemoveRowSafe ==
  ASSUME TypeOK, NoResurrection, NEW i \in Ids, RemoveRow(i)
  PROVE  /\ NoResurrection'
         /\ \A j \in Ids : srv[j] = None /\ tomb[j] = 0
                             => srv'[j] = None /\ tomb'[j] = 0
<1>1. CASE srv[i] = None
  BY <1>1 DEF RemoveRow, NoResurrection, accountVars
<1>2. CASE srv[i] # None
  <2>1. \A j \in Ids : srv[j] = None \/ j = i => srv'[j] = None
    BY <1>2 DEF RemoveRow, Without, TypeOK, Mirrors
  <2>2. \A j \in Ids : tomb'[j] = IF j = i THEN clock + 1 ELSE tomb[j]
    BY <1>2 DEF RemoveRow, TypeOK
  <2> QED BY <1>2, <2>1, <2>2 DEF NoResurrection
<1> QED BY <1>1, <1>2

(* No step of anyone brings a deleted row back, nor lets a checked create  *)
(* go stale.                                                               *)
LEMMA ResurrectionStep ==
  ResurrectionInv /\ [Next]_vars => ResurrectionInv'
<1> SUFFICES ASSUME ResurrectionInv, [Next]_vars
             PROVE  OneRequest' /\ ReadIsFresh' /\ NoResurrection'
  BY NextTypes DEF ResurrectionInv
<1> USE DEF phoneVars, cycleVars, accountVars
<1>1. /\ TypeInv /\ TypeOK /\ OneRequest /\ ReadIsFresh /\ NoResurrection
      /\ left["late"] = 0 /\ reqs["late"] = None
  BY DEF ResurrectionInv, TypeInv, OneRequest
<1>2. \A act \in EnvironmentActs : Spend(act) => act # "late" /\ left'["late"] = 0
  BY <1>1 DEF Spend, TypeOK, EnvironmentActs
<1>3. CASE UserStep
  <2>1. UNCHANGED <<srv, tomb, reqs>>
    BY <1>3 DEF UserStep, Create, UpdateText, UpdateRef, Update, Delete, Retry,
                Discard, Recreate, Reset
  <2>2. left'["late"] = 0
    BY <1>1, <1>2, <1>3 DEF UserStep, Create, UpdateText, UpdateRef, Update, Delete,
                Retry, Discard, Recreate, Reset, EnvironmentActs
  <2> QED BY <2>1, <2>2, QuietStep
<1>4. CASE FlushStep
  <2>1. CASE Send
    BY <1>1, <2>1, NothingReadStep DEF Send, TypeOK, Lanes
  <2>2. CASE RequestFails
    <3>1. ~ Spend("late")
      BY <1>2 DEF EnvironmentActs
    <3>2. CASE UNCHANGED <<reqs, left>>
      BY <1>1, <2>2, <3>2, QuietStep DEF RequestFails
    <3>3. CASE Spend("loss") /\ reqs' = [reqs EXCEPT !["live"] = None]
      BY <1>1, <1>2, <2>2, <3>3, NothingReadStep
         DEF RequestFails, EnvironmentActs, TypeOK, Lanes
    <3> QED BY <2>2, <3>1, <3>2, <3>3 DEF RequestFails
  <2>3. CASE Reply
    BY <1>1, <2>3, NothingReadStep DEF Reply, TypeOK, Lanes
  <2>4. CASE ~ (Send \/ RequestFails \/ Reply)
    BY <1>1, <1>4, <2>4, QuietStep
       DEF FlushStep, StartCycle, LoadBatch, BatchDone, ApplySuccess, Shelve, Reread,
           ConfirmRow, ApplyRefusal
  <2> QED BY <2>1, <2>2, <2>3, <2>4
<1>5. CASE PullStep
  <2>1. UNCHANGED <<srv, tomb, reqs>>
    BY <1>5 DEF PullStep, FetchPage, PullFails, LoadForRebase, ApplyPage, ApplyPageFails
  <2>2. left'["late"] = 0
    BY <1>1, <1>2, <1>5 DEF PullStep, FetchPage, PullFails, LoadForRebase, ApplyPage,
                            ApplyPageFails, EnvironmentActs
  <2> QED BY <2>1, <2>2, QuietStep
<1>6. CASE ServerStep
  <2>1. ~ LateEnds /\ \A k \in Lanes : Working(k) => k = "live"
    BY <1>1 DEF LateEnds, Working, Lanes
  <2>2. SUFFICES ASSUME SkipDependent("live") \/ RefuseOp("live")
                        \/ ReadForCreate("live") \/ ReadForUpdate("live")
                        \/ WriteCreate("live") \/ WriteUpdate("live")
                        \/ WriteAborts("live") \/ DeleteRow("live")
                 PROVE  OneRequest' /\ ReadIsFresh' /\ NoResurrection'
    <3>1. \A k \in Lanes :
            SkipDependent(k) \/ RefuseOp(k) \/ ReadForCreate(k) \/ ReadForUpdate(k)
            \/ WriteCreate(k) \/ WriteUpdate(k) \/ WriteAborts(k) \/ DeleteRow(k)
              => reqs[k] # None
      BY DEF SkipDependent, RefuseOp, ReadForCreate, ReadForUpdate, WriteCreate,
             WriteUpdate, WriteAborts, DeleteRow, Reads, Writes, Working
    <3>2. \A k \in Lanes : reqs[k] # None => k = "live"
      BY <1>1 DEF Lanes
    <3> QED BY <1>6, <2>1, <3>1, <3>2 DEF ServerStep
  <2>3. Working("live") /\ "live" \in Lanes
    BY <2>2 DEF SkipDependent, RefuseOp, ReadForCreate, ReadForUpdate,
         WriteCreate, WriteUpdate, WriteAborts, DeleteRow, Reads, Writes, Lanes
  <2>4. /\ HeadOp("live").id \in Ids
        /\ reqs["live"] \in Requests /\ reqs["live"] # None
    BY <1>1, <2>3, HeadTypes DEF Entries, Working
  <2>5. ASSUME NEW answer, Finish("live", answer)
        PROVE  reqs'["late"] = None /\ reqs'["live"].read = None
    BY <1>1, <2>3, <2>5, FinishForgets
  <2>6. ASSUME NEW row, reqs' = [reqs EXCEPT !["live"].read = row]
        PROVE  /\ reqs'["late"] = None
               /\ HeadOp("live")' = HeadOp("live")
    <3>1. /\ reqs'["live"].todo = reqs["live"].todo
          /\ reqs'["live"].batch = reqs["live"].batch
          /\ reqs'["late"] = reqs["late"]
      BY <1>1, <2>3, <2>4, <2>6 DEF TypeOK, Requests, Lanes
    <3> QED BY <1>1, <3>1 DEF HeadOp, HeadSeq
  <2>7. CASE SkipDependent("live")
    BY <1>1, <2>5, <2>7, NothingReadStep DEF SkipDependent
  <2>8. CASE RefuseOp("live")
    BY <1>2, <2>5, <2>8, NothingReadStep DEF RefuseOp, EnvironmentActs
  <2>9. CASE ReadForCreate("live")
    <3>1. CASE \E answer : Finish("live", answer)
      BY <1>1, <2>5, <2>9, <3>1, NothingReadStep DEF ReadForCreate
    <3>2. CASE /\ srv[HeadOp("live").id] = None /\ tomb[HeadOp("live").id] = 0
               /\ \E row : reqs' = [reqs EXCEPT !["live"].read = row]
      BY <1>1, <2>4, <2>6, <2>9, <3>2
         DEF ReadForCreate, OneRequest, ReadIsFresh, NoResurrection
    <3> QED BY <2>9, <3>1, <3>2 DEF ReadForCreate, AlreadyTombstoned
  <2>10. CASE ReadForUpdate("live")
    <3>1. CASE \E answer : Finish("live", answer)
      BY <1>1, <2>5, <2>10, <3>1, NothingReadStep DEF ReadForUpdate
    <3>2. CASE \E row : reqs' = [reqs EXCEPT !["live"].read = row]
      BY <1>1, <2>6, <2>10, <3>2
         DEF ReadForUpdate, OneRequest, ReadIsFresh, NoResurrection
    <3> QED BY <2>10, <3>1, <3>2 DEF ReadForUpdate
  <2>11. CASE WriteCreate("live")
    <3>1. tomb[HeadOp("live").id] = 0 /\ UNCHANGED <<tomb, left>>
      BY <1>1, <2>4, <2>11 DEF WriteCreate, Writes, ReadIsFresh
    <3>2. \A j \in Ids : j # HeadOp("live").id => srv'[j] = srv[j]
      BY <1>1, <2>11 DEF WriteCreate, TypeOK, Mirrors
    <3>3. reqs'["late"] = None /\ reqs'["live"].read = None
      BY <2>5, <2>11 DEF WriteCreate
    <3> QED BY <1>1, <3>1, <3>2, <3>3 DEF OneRequest, ReadIsFresh, NoResurrection
  <2>12. CASE WriteUpdate("live")
    <3>1. srv[HeadOp("live").id] # None /\ UNCHANGED <<tomb, left>>
      BY <2>12 DEF WriteUpdate
    <3>2. \A j \in Ids : j # HeadOp("live").id => srv'[j] = srv[j]
      BY <1>1, <2>12 DEF WriteUpdate, TypeOK, Mirrors
    <3>3. reqs'["late"] = None /\ reqs'["live"].read = None
      BY <2>5, <2>12 DEF WriteUpdate
    <3> QED BY <1>1, <3>1, <3>2, <3>3, <2>4 DEF OneRequest, ReadIsFresh, NoResurrection
  <2>13. CASE WriteAborts("live")
    BY <1>1, <2>3, <2>13, NothingReadStep DEF WriteAborts, TypeOK, Lanes
  <2>14. CASE DeleteRow("live")
    <3>1. NoResurrection'
      BY <1>1, <2>4, <2>14, RemoveRowSafe DEF DeleteRow
    <3>2. reqs'["late"] = None /\ reqs'["live"].read = None /\ UNCHANGED left
      BY <2>5, <2>14 DEF DeleteRow
    <3> QED BY <1>1, <3>1, <3>2 DEF OneRequest, ReadIsFresh
  <2> QED BY <2>2, <2>7, <2>8, <2>9, <2>10, <2>11, <2>12, <2>13, <2>14
<1>7. CASE WorldStep
  <2>1. CASE Crash
    BY <1>1, <1>2, <2>1, NothingReadStep DEF Crash, EnvironmentActs, TypeOK, Lanes
  <2>2. ASSUME NEW i \in Ids, ForeignEdit(i)
        PROVE  OneRequest' /\ ReadIsFresh' /\ NoResurrection'
    <3>1. srv[i] # None /\ UNCHANGED <<tomb, reqs>> /\ left'["late"] = 0
      BY <1>2, <2>2 DEF ForeignEdit, EnvironmentActs
    <3>2. \A j \in Ids : j # i => srv'[j] = srv[j]
      BY <1>1, <2>2 DEF ForeignEdit, TypeOK, Mirrors
    <3>3. HeadOp("live")' = HeadOp("live")
      BY <3>1 DEF HeadOp, HeadSeq
    <3> QED BY <1>1, <3>1, <3>2, <3>3 DEF OneRequest, ReadIsFresh, NoResurrection
  <2>3. ASSUME NEW i \in Ids, ForeignDelete(i)
        PROVE  OneRequest' /\ ReadIsFresh' /\ NoResurrection'
    <3>1. UNCHANGED reqs /\ left'["late"] = 0
      BY <1>2, <2>3 DEF ForeignDelete, EnvironmentActs
    <3> QED BY <1>1, <2>3, <3>1, RemoveRowSafe
         DEF ForeignDelete, OneRequest, ReadIsFresh, HeadOp, HeadSeq
  <2> QED BY <1>7, <2>1, <2>2, <2>3 DEF WorldStep
<1>8. CASE UNCHANGED vars
  BY <1>1, <1>8, QuietStep DEF vars
<1> QED BY <1>3, <1>4, <1>5, <1>6, <1>7, <1>8 DEF Next

(* When no request outlives the phone's timeout, a row the account has     *)
(* deleted is never on the account again, whatever else the phone, the     *)
(* connection and the other device do.                                     *)
THEOREM DeletedStaysDeleted ==
  ASSUME Allowance["late"] = 0
  PROVE  Spec => []NoResurrection
<1>1. Init => ResurrectionInv
  BY InitTypes DEF Init, ResurrectionInv, OneRequest, ReadIsFresh, NoResurrection, Lanes
<1>2. ResurrectionInv => NoResurrection
  BY DEF ResurrectionInv
<1> QED BY <1>1, <1>2, ResurrectionStep, PTL DEF Spec

-----------------------------------------------------------------------------
(* A parked op waits for the user.                                         *)

(* What the user does to the outbox keeps what the cycle relies on.        *)
SameOp(s) == outbox'[s].op = outbox[s].op /\ outbox'[s].id = outbox[s].id

UserMove(s) ==
  \/ s \in Held(outbox) /\ SameOp(s) /\ outbox'[s].state = outbox[s].state
  \/ s \in Held(outbox) /\ SameOp(s) /\ Parked(outbox[s]) /\ outbox'[s].state = "queued"
  \/ s = nextSeq /\ s < nextSeq' /\ outbox'[s].state = "queued"

(* Steps of the user that only change, drop, append or requeue ops keep    *)
(* what the cycle relies on.                                               *)
LEMMA UserMoves ==
  ASSUME ParkedInv, UNCHANGED <<pc, batch, answers, reqs>>,
         nextSeq' \in Nat, nextSeq' >= nextSeq,
         \A s \in Held(outbox)' : UserMove(s)
  PROVE  BatchIsOutbox' /\ NumbersUsed' /\ BatchState' /\ DeletesAccepted'
<1>1. nextSeq \in Nat /\ Held(batch)' = Held(batch) /\ Held(answers)' = Held(answers)
      /\ Held(batch) \subseteq Nat /\ Held(outbox) \subseteq Nat /\ nextSeq' >= nextSeq
  BY DEF ParkedInv, TypeInv, TypeOK, Held, Seqs
<1>2. \A s \in Held(outbox)' \cap Held(batch) : s # nextSeq
  BY <1>1 DEF ParkedInv, NumbersUsed
<1>3. BatchIsOutbox'
  BY <1>1, <1>2 DEF ParkedInv, BatchIsOutbox, UserMove, SameOp
<1>4. NumbersUsed'
  <2>1. \A s \in Held(batch)' : s < nextSeq'
    BY <1>1 DEF ParkedInv, NumbersUsed
  <2>2. \A s \in Held(outbox)' : s < nextSeq'
    BY <1>1 DEF ParkedInv, NumbersUsed, UserMove
  <2> QED BY <2>1, <2>2 DEF NumbersUsed
<1>5. BatchState'
  <2>1. Held(answers) \subseteq Held(batch)
    BY DEF ParkedInv, TypeInv, CycleOK
  <2> QED BY <1>1, <1>2, <2>1 DEF ParkedInv, BatchState, UserMove, Parked
<1>6. DeletesAccepted'
  <2>1. \A s \in Held(outbox)' : Parked(outbox'[s]) => outbox'[s].op # "delete"
    BY DEF ParkedInv, DeletesAccepted, UserMove, SameOp, Parked, Held
  <2>2. Turned(answers, batch)'
    BY DEF ParkedInv, DeletesAccepted, Turned, Held
  <2>3. \A k \in Lanes : reqs'[k] # None => Turned(reqs'[k].answers, reqs'[k].batch)
    BY DEF ParkedInv, DeletesAccepted, Turned, Held
  <2> QED BY <2>1, <2>2, <2>3 DEF DeletesAccepted, Turned, Held
<1> QED BY <1>3, <1>4, <1>5, <1>6

(* An enqueue changes fields, drops ops or appends one.                    *)
LEMMA EnqueueMoves ==
  ASSUME ParkedInv, NEW e \in Entries, e.state = "queued", Enqueue(e)
  PROVE  nextSeq' >= nextSeq /\ \A s \in Held(outbox)' : UserMove(s)
<1>1. nextSeq' >= nextSeq
  BY DEF Enqueue, ParkedInv, TypeInv, TypeOK
<1>2. ASSUME NEW s \in Held(outbox)'
      PROVE  UserMove(s)
  <2>1. s \in Seqs /\ outbox'[s] # None /\ outbox' = AfterEnqueue(outbox, nextSeq, e)
    BY DEF Held, Enqueue
  <2>2. CASE s \in MergeTargets(outbox, e)
    <3>1. s \in Held(outbox) /\ outbox[s] \in Entries
      BY <2>2 DEF MergeTargets, QueuedCreates, SameRowQueued, InState, OfRow, Held,
                  ParkedInv, TypeInv, TypeOK, Outboxes
    <3>2. outbox'[s] = Merged(outbox[s], e)
      BY <2>1, <2>2 DEF AfterEnqueue
    <3> QED BY <3>1, <3>2 DEF Merged, Entries, UserMove, SameOp
  <2>3. CASE s \notin MergeTargets(outbox, e) /\ s = nextSeq /\ Appends(outbox, e)
    <3>1. outbox'[s] = e /\ nextSeq' = nextSeq + 1
      BY <2>1, <2>3 DEF AfterEnqueue, Enqueue
    <3> QED BY <2>3, <3>1 DEF UserMove, ParkedInv, TypeInv, TypeOK
  <2>4. CASE s \notin MergeTargets(outbox, e) /\ ~ (s = nextSeq /\ Appends(outbox, e))
    <3>1. outbox'[s] = outbox[s]
      BY <2>1, <2>4 DEF AfterEnqueue
    <3> QED BY <2>1, <3>1 DEF UserMove, SameOp, Held
  <2> QED BY <2>2, <2>3, <2>4
<1> QED BY <1>1, <1>2

(* Every action of the user is such a step.                                *)
LEMMA UserMoveStep ==
  ASSUME ParkedInv, UserStep
  PROVE  nextSeq' >= nextSeq /\ \A s \in Held(outbox)' : UserMove(s)
<1> USE DEF cycleVars
<1>0. TypeInv /\ TypeOK
  BY DEF ParkedInv, TypeInv
<1>3. ASSUME NEW op \in OpKinds, NEW i \in Ids, NEW fields \in OpFields,
             NEW base \in OpFields, NEW at \in Nat,
             Enqueue(NewEntry(op, i, fields, base, at))
      PROVE  nextSeq' >= nextSeq /\ \A s \in Held(outbox)' : UserMove(s)
  <2> DEFINE e == NewEntry(op, i, fields, base, at)
  <2>1. e \in Entries /\ e.state = "queued"
    BY NewEntryType DEF NewEntry
  <2>2. Enqueue(e)
    BY <1>3
  <2> HIDE DEF e
  <2> QED BY <2>1, <2>2, EnqueueMoves
<1>4. nextSeq \in Nat /\ \A s \in Held(outbox) : outbox[s] \in Entries
  BY <1>0 DEF TypeOK, Held, Outboxes
<1>5. ASSUME NEW i \in Ids, Create(i)
      PROVE  nextSeq' >= nextSeq /\ \A s \in Held(outbox)' : UserMove(s)
  <2>1. stamp' \in Values /\ LinkChoices \subseteq Values
    BY <1>0, <1>5, PlanAssumption DEF Create, TypeOK, Values, LinkChoices
  <2>2. PICK ref \in IF i \in Trips THEN LinkChoices ELSE {Unset} :
          Enqueue(NewEntry("create", i,
                    [NoFields EXCEPT !["text"] = stamp', !["ref"] = ref], NoFields, 0))
    BY <1>5 DEF Create
  <2>3. [NoFields EXCEPT !["text"] = stamp', !["ref"] = ref] \in OpFields
    BY <2>1 DEF NoFields, OpFields
  <2> QED BY <1>3, <2>2, <2>3, RowTypes DEF OpKinds
<1>6. ASSUME NEW i \in Ids, NEW f \in Fields, NEW v \in Values, Update(i, f, v)
      PROVE  nextSeq' >= nextSeq /\ \A s \in Held(outbox)' : UserMove(s)
  <2>1. mirror[i].vals \in RowVals /\ mirror[i].at \in Nat
    BY <1>0, <1>6 DEF Update, TypeOK, Mirrors, Rows
  <2>2. /\ [NoFields EXCEPT ![f] = v] \in OpFields
        /\ [NoFields EXCEPT ![f] = mirror[i].vals[f]] \in OpFields
    BY <2>1, RowTypes DEF OpFields, RowVals
  <2> QED BY <1>3, <1>6, <2>1, <2>2 DEF Update, OpKinds
<1>7. ASSUME NEW i \in Ids, UpdateText(i) \/ UpdateRef(i)
      PROVE  nextSeq' >= nextSeq /\ \A s \in Held(outbox)' : UserMove(s)
  <2>1. CASE UpdateText(i)
    <3>1. stamp' \in Values
      BY <1>0, <2>1, PlanAssumption DEF UpdateText, TypeOK, Values
    <3> QED BY <1>6, <2>1, <3>1 DEF UpdateText, Fields
  <2>2. CASE UpdateRef(i)
    <3>1. LinkChoices \subseteq Values
      BY DEF LinkChoices, Values
    <3> QED BY <1>6, <2>2, <3>1 DEF UpdateRef, Fields
  <2> QED BY <1>7, <2>1, <2>2
<1>8. ASSUME NEW i \in Ids, Delete(i)
      PROVE  nextSeq' >= nextSeq /\ \A s \in Held(outbox)' : UserMove(s)
  BY <1>3, <1>8, RowTypes DEF Delete, OpKinds
<1>9. ASSUME NEW s \in Seqs, Retry(s)
      PROVE  nextSeq' >= nextSeq /\ \A r \in Held(outbox)' : UserMove(r)
  <2>1. /\ s \in Held(outbox) /\ Parked(outbox[s]) /\ SameOp(s)
        /\ outbox'[s].state = "queued"
    BY <1>0, <1>4, <1>9 DEF Retry, Held, Parked, SameOp, TypeOK, Outboxes, Entries
  <2>2. \A r \in Seqs : r # s => outbox'[r] = outbox[r]
    BY <1>0, <1>9 DEF Retry, TypeOK, Outboxes
  <2>3. UserMove(s)
    BY <2>1 DEF UserMove
  <2>4. \A r \in Held(outbox)' : r # s => UserMove(r)
    BY <2>2 DEF Held, UserMove, SameOp
  <2>5. \A r \in Held(outbox)' : UserMove(r)
    BY <2>3, <2>4, Zenon
  <2>6. nextSeq' >= nextSeq
    BY <1>4, <1>9 DEF Retry
  <2> QED BY <2>5, <2>6
<1>10. ASSUME NEW s \in Seqs, Discard(s)
       PROVE  nextSeq' >= nextSeq /\ \A r \in Held(outbox)' : UserMove(r)
  <2>1. \A r \in Seqs : outbox'[r] = None \/ outbox'[r] = outbox[r]
    BY <1>0, <1>10 DEF Discard, TypeOK, Outboxes
  <2> QED BY <1>4, <1>10, <2>1 DEF Discard, Held, UserMove, SameOp
<1>11. ASSUME NEW s \in Seqs, NEW i \in Places, Recreate(s, i)
       PROVE  nextSeq' >= nextSeq /\ \A r \in Held(outbox)' : UserMove(r)
  <2> DEFINE fields == Overlay([mirror[outbox[s].id].vals EXCEPT !["ref"] = Unset],
                               outbox[s].fields)
             new == NewEntry("create", i, fields, NoFields, 0)
             ob == AfterEnqueue(outbox, nextSeq, new)
  <2>1. /\ new.state = "queued" /\ new.op = "create"
        /\ nextSeq' = nextSeq + 1
        /\ outbox' = [ob EXCEPT ![s] = None]
    BY <1>11 DEF Recreate, NewEntry
  <2> HIDE DEF new
  <2>2. \A r \in Seqs : ob[r] = outbox[r] \/ (r = nextSeq /\ ob[r] = new)
    BY <2>1 DEF AfterEnqueue, MergeTargets, Dropped
  <2>3. \A r \in Held(outbox)' : outbox'[r] = ob[r]
    BY <2>1 DEF AfterEnqueue, Held
  <2>4. \A r \in Held(outbox)' : outbox'[r] = outbox[r] \/ (r = nextSeq /\ outbox'[r] = new)
    BY <2>2, <2>3 DEF Held
  <2> QED BY <1>4, <2>1, <2>4 DEF Held, UserMove, SameOp
<1>12. ASSUME Reset
       PROVE  nextSeq' >= nextSeq /\ \A r \in Held(outbox)' : UserMove(r)
  BY <1>4, <1>12 DEF Reset, Held, UserMove, SameOp
<1> QED
  BY <1>5, <1>7, <1>8, <1>9, <1>10, <1>11, <1>12 DEF UserStep

(* So the user keeps what the cycle relies on.                             *)
LEMMA UserKeepsParked ==
  ASSUME ParkedInv, UserStep
  PROVE  BatchIsOutbox' /\ NumbersUsed' /\ BatchState' /\ DeletesAccepted'
<1> USE DEF cycleVars
<1>1. UNCHANGED <<pc, batch, answers, reqs>>
  BY DEF UserStep, Create, UpdateText, UpdateRef, Update, Delete, Retry, Discard,
         Recreate, Reset
<1>2. nextSeq' \in Nat
  BY UserTypes DEF ParkedInv, TypeInv, TypeOK
<1> QED BY <1>1, <1>2, UserMoves, UserMoveStep

(* A step of the cycle or of the account that drops ops or moves them from *)
(* state to state hands out no number and changes no op.                   *)
LEMMA CycleMoves ==
  ASSUME ParkedInv, UNCHANGED nextSeq, Held(batch)' = {} \/ UNCHANGED batch,
         \A s \in Held(outbox)' : s \in Held(outbox) /\ SameOp(s)
  PROVE  BatchIsOutbox' /\ NumbersUsed'
<1>1. CASE UNCHANGED batch
  BY <1>1 DEF ParkedInv, BatchIsOutbox, NumbersUsed, SameOp, Held
<1>2. CASE Held(batch)' = {}
  BY <1>2 DEF ParkedInv, BatchIsOutbox, NumbersUsed
<1> QED BY <1>1, <1>2

(* Every step of the flush keeps what the cycle relies on.                 *)
LEMMA FlushKeepsParked ==
  ASSUME ParkedInv, FlushStep
  PROVE  BatchIsOutbox' /\ NumbersUsed' /\ BatchState' /\ DeletesAccepted'
<1> USE DEF phoneVars, cycleVars, accountVars
<1>0. /\ TypeInv /\ TypeOK /\ CycleOK /\ RequestsOK
      /\ BatchIsOutbox /\ NumbersUsed /\ BatchState /\ DeletesAccepted
  BY DEF ParkedInv, TypeInv
<1>1. \A s \in Held(outbox) : outbox[s] \in Entries
  BY <1>0 DEF TypeOK, Held, Outboxes
<1>2. CASE StartCycle
  <2>1. ASSUME NEW s \in Held(outbox)'
        PROVE  /\ s \in Held(outbox) /\ SameOp(s)
               /\ outbox'[s] = outbox[s] \/ outbox'[s].state = "queued"
    BY <1>1, <1>2, <2>1 DEF StartCycle, SameOp, Held, InState, Entries
  <2>2. BatchIsOutbox' /\ NumbersUsed'
    BY <1>2, <2>1, CycleMoves DEF StartCycle, Held
  <2>3. BatchState'
    BY <1>0, <1>2 DEF StartCycle, BatchState, CycleOK, InResult, Held
  <2>4. DeletesAccepted'
    BY <1>0, <1>2, <2>1 DEF StartCycle, DeletesAccepted, Turned, Parked, SameOp, Held
  <2> QED BY <2>2, <2>3, <2>4
<1>3. CASE LoadBatch
  <2>1. ASSUME NEW s \in Held(batch)', batch' # batch
        PROVE  /\ s \in Held(outbox) /\ batch'[s] = outbox[s]
               /\ outbox[s].state = "queued"
    BY <1>3, <2>1 DEF LoadBatch, SelectFlushBatch, Ready, InState, Held
  <2>2. BatchIsOutbox' /\ NumbersUsed'
    BY <1>0, <1>3, <2>1 DEF LoadBatch, BatchIsOutbox, NumbersUsed, Held
  <2>3. BatchState'
    <3>1. Held(answers)' = {} /\ pc' # "sent"
      BY <1>0, <1>3 DEF LoadBatch, CycleOK, InResult, Held
    <3>2. ASSUME pc' = "loaded"
          PROVE  \A s \in Held(batch)' : s \in Held(outbox) /\ outbox[s].state = "queued"
      BY <1>3, <3>2 DEF LoadBatch, SelectFlushBatch, Ready, InState, Held
    <3> QED BY <1>3, <3>1, <3>2 DEF LoadBatch, BatchState
  <2>4. DeletesAccepted'
    <3>1. Held(answers) = {}
      BY <1>0, <1>3 DEF LoadBatch, CycleOK, InResult
    <3> QED BY <1>0, <1>3, <3>1 DEF LoadBatch, DeletesAccepted, Turned, Held
  <2> QED BY <2>2, <2>3, <2>4
<1>4. CASE Send
  <2>1. ASSUME NEW s \in Held(outbox)'
        PROVE  /\ s \in Held(outbox) /\ SameOp(s)
               /\ s \in Held(batch) => outbox'[s].state = "inflight"
               /\ s \notin Held(batch) => outbox'[s] = outbox[s]
    BY <1>1, <1>4, <2>1 DEF Send, SameOp, Held, Entries
  <2>2. BatchIsOutbox' /\ NumbersUsed'
    BY <1>4, <2>1, CycleMoves DEF Send, Held
  <2>3. BatchState'
    BY <1>0, <1>4, <2>1 DEF Send, BatchState, CycleOK, InResult, Held
  <2>4. DeletesAccepted'
    <3>1. \A k \in Lanes : reqs'[k] # None => Turned(reqs'[k].answers, reqs'[k].batch)
      BY <1>0, <1>4 DEF Send, DeletesAccepted, Turned, Held, NoOps, Lanes, TypeOK
    <3>2. \A s \in Held(outbox)' : Parked(outbox'[s]) => outbox'[s].op # "delete"
      BY <1>0, <2>1 DEF DeletesAccepted, Parked, Held
    <3>3. Turned(answers, batch)'
      BY <1>0, <1>4 DEF Send, DeletesAccepted, Turned, Held
    <3> QED BY <3>1, <3>2, <3>3 DEF DeletesAccepted, Turned, Held
  <2> QED BY <2>2, <2>3, <2>4
<1>5. CASE RequestFails
  <2>1. ASSUME NEW s \in Held(outbox)'
        PROVE  /\ s \in Held(outbox) /\ SameOp(s)
               /\ outbox'[s].state = "queued" \/ outbox'[s] = outbox[s]
    BY <1>1, <1>5, <2>1 DEF RequestFails, SameOp, Held, Entries
  <2>2. Held(batch)' = {} /\ Held(answers)' = {}
    BY <1>0, <1>5 DEF RequestFails, CycleOK, InResult, Held, NoOps
  <2>3. BatchIsOutbox' /\ NumbersUsed'
    BY <1>5, <2>1, <2>2, CycleMoves DEF RequestFails
  <2>4. BatchState'
    BY <1>5, <2>2 DEF RequestFails, BatchState
  <2>5. DeletesAccepted'
    <3>1. \A k \in Lanes : reqs'[k] # None => \E l \in Lanes : reqs[l] # None /\ reqs'[k] = reqs[l]
      BY <1>0, <1>5 DEF RequestFails, Lanes, TypeOK
    <3>2. \A k \in Lanes : reqs'[k] # None => Turned(reqs'[k].answers, reqs'[k].batch)
      BY <1>0, <3>1 DEF DeletesAccepted, Turned, Held
    <3>3. \A s \in Held(outbox)' : Parked(outbox'[s]) => outbox'[s].op # "delete"
      BY <1>0, <2>1 DEF DeletesAccepted, Parked
    <3> QED BY <2>2, <3>2, <3>3 DEF DeletesAccepted, Turned, Held
  <2> QED BY <2>3, <2>4, <2>5
<1>6. CASE Reply
  <2>1. BatchIsOutbox' /\ NumbersUsed'
    BY <1>6, CycleMoves DEF Reply, Held, SameOp
  <2>2. Held(answers)' \subseteq Held(batch) /\ pc = "sent"
    BY <1>0, <1>6 DEF Reply, RequestsOK, Held, Lanes
  <2>3. BatchState'
    BY <1>0, <1>6, <2>2 DEF Reply, BatchState, Held
  <2>4. DeletesAccepted'
    <3>1. Turned(answers, batch)'
      BY <1>0, <1>6 DEF Reply, RequestsOK, DeletesAccepted, Turned, Held, Lanes
    <3>2. \A k \in Lanes : reqs'[k] # None => reqs[k] # None /\ reqs'[k] = reqs[k]
      BY <1>0, <1>6 DEF Reply, Lanes, TypeOK
    <3> QED BY <1>0, <1>6, <3>1, <3>2 DEF Reply, DeletesAccepted, Turned, Held
  <2> QED BY <2>1, <2>3, <2>4
<1>7. CASE BatchDone
  <2>1. Held(batch)' = {} /\ Held(answers)' = {}
    BY <1>7 DEF BatchDone, Held, NoOps
  <2>2. BatchIsOutbox' /\ NumbersUsed'
    BY <1>7, <2>1, CycleMoves DEF BatchDone, Held, SameOp
  <2>3. BatchState'
    BY <1>7, <2>1 DEF BatchDone, BatchState
  <2>4. DeletesAccepted'
    BY <1>0, <1>7, <2>1 DEF BatchDone, DeletesAccepted, Turned, Held
  <2> QED BY <2>2, <2>3, <2>4
<1>8. ASSUME pc' \in {"apply", "shelve", "reread", "upsert"},
             UNCHANGED <<nextSeq, batch, reqs>>,
             \A s \in Held(outbox)' : s \in Held(outbox) /\ outbox'[s] = outbox[s],
             UNCHANGED answers \/ NextResult
      PROVE  BatchIsOutbox' /\ NumbersUsed' /\ BatchState' /\ DeletesAccepted'
  <2>1. \A s \in Held(answers)' : s \in Held(answers) /\ answers'[s] = answers[s]
    BY <1>0, <1>8 DEF NextResult, Held, TypeOK
  <2>2. BatchIsOutbox' /\ NumbersUsed'
    BY <1>8, CycleMoves DEF Held, SameOp
  <2>3. BatchState'
    BY <1>0, <1>8, <2>1 DEF BatchState
  <2>4. DeletesAccepted'
    BY <1>0, <1>8, <2>1 DEF DeletesAccepted, Turned, Held
  <2> QED BY <2>2, <2>3, <2>4
<1>9. CASE ApplySuccess
  <2>1. \A s \in Held(outbox)' : s \in Held(outbox) /\ outbox'[s] = outbox[s]
    BY <1>0, <1>9 DEF ApplySuccess, Held, TypeOK, Outboxes
  <2> QED BY <1>8, <1>9, <2>1 DEF ApplySuccess, AfterShelving, NextResult
<1>10. CASE Shelve
  BY <1>8, <1>10 DEF Shelve, AfterShelving, NextResult, Held
<1>11. CASE Reread
  BY <1>8, <1>11 DEF Reread, Held
<1>12. CASE ConfirmRow
  BY <1>8, <1>12 DEF ConfirmRow, NextResult, Held
<1>13. CASE ApplyRefusal
  <2>1. Cur \in Held(answers) /\ Cur \in Seqs /\ Cur \in Held(batch)
    BY <1>0, <1>13, CurTypes DEF ApplyRefusal, CycleOK
  <2>2. PICK dayOver \in BOOLEAN :
          outbox' = [outbox EXCEPT ![Cur] =
                      IF @ = None THEN None
                      ELSE IF Result.status = "dependencyFailed"
                      THEN [@ EXCEPT !.state = "queued"]
                      ELSE Park(@, Result.code, dayOver)]
    BY <1>13 DEF ApplyRefusal
  <2>3. \A s \in Held(outbox)' : s # Cur => s \in Held(outbox) /\ outbox'[s] = outbox[s]
    BY <1>0, <2>2 DEF Held, TypeOK, Outboxes
  <2>4. ASSUME Cur \in Held(outbox)'
        PROVE  /\ Cur \in Held(outbox) /\ SameOp(Cur)
               /\ Parked(outbox'[Cur]) => Result.status = "rejected"
    <3>1. Cur \in Held(outbox)
      BY <1>0, <2>1, <2>2, <2>4 DEF Held, TypeOK, Outboxes
    <3>2. outbox[Cur] \in Entries
      BY <1>1, <3>1
    <3>3. CASE Result.status = "dependencyFailed"
      <4>1. outbox'[Cur] = [outbox[Cur] EXCEPT !.state = "queued"]
        BY <1>0, <2>1, <2>2, <3>1, <3>3 DEF Held, TypeOK, Outboxes
      <4> QED BY <3>1, <3>2, <4>1 DEF SameOp, Parked, Entries
    <3>4. CASE Result.status # "dependencyFailed"
      <4>1. outbox'[Cur] = Park(outbox[Cur], Result.code, dayOver)
        BY <1>0, <2>1, <2>2, <3>1, <3>4 DEF Held, TypeOK, Outboxes
      <4>2. Result.status = "rejected"
        BY <1>13, <3>4 DEF ApplyRefusal
      <4> QED BY <3>1, <3>2, <4>1, <4>2 DEF SameOp, Park, Entries
    <3> QED BY <3>3, <3>4
  <2>5. \A s \in Held(answers)' : s \in Held(answers) /\ s # Cur /\ answers'[s] = answers[s]
    BY <1>0, <1>13, <2>1 DEF ApplyRefusal, NextResult, Held, TypeOK
  <2>6. BatchIsOutbox' /\ NumbersUsed'
    <3>1. \A s \in Held(outbox)' : s \in Held(outbox) /\ SameOp(s)
      BY <2>3, <2>4 DEF SameOp
    <3> QED BY <1>13, <3>1, CycleMoves DEF ApplyRefusal, Held
  <2>7. BatchState'
    BY <1>0, <1>13, <2>3, <2>5 DEF ApplyRefusal, NextResult, BatchState
  <2>8. DeletesAccepted'
    <3>1. Result.status = "rejected" /\ Cur \in Held(outbox) => outbox[Cur].op # "delete"
      BY <1>0, <2>1 DEF DeletesAccepted, Turned, BatchIsOutbox, Result
    <3>2. \A s \in Held(outbox)' : Parked(outbox'[s]) => outbox'[s].op # "delete"
      BY <1>0, <2>3, <2>4, <3>1 DEF DeletesAccepted, SameOp
    <3> QED BY <1>0, <1>13, <2>5, <3>2 DEF ApplyRefusal, DeletesAccepted, Turned, Held
  <2> QED BY <2>6, <2>7, <2>8
<1> QED
  BY <1>2, <1>3, <1>4, <1>5, <1>6, <1>7, <1>9, <1>10, <1>11, <1>12, <1>13 DEF FlushStep

(* So does the pull: a tombstone drops deletes and parks the others.       *)
LEMMA OrphanedMoves ==
  ASSUME TypeOK, NEW dead \in SUBSET Ids, outbox' = Orphaned(outbox, dead)
  PROVE  \A s \in Held(outbox)' :
           /\ s \in Held(outbox) /\ SameOp(s)
           /\ \/ outbox'[s] = outbox[s]
              \/ outbox[s].op # "delete" /\ outbox'[s].state = "deadRemote"
<1>1. \A s \in Held(outbox) : outbox[s] \in Entries
  BY DEF TypeOK, Held, Outboxes
<1> QED BY <1>1 DEF Orphaned, Held, SameOp, Entries

(* The steps of the pull keep what the cycle relies on.                    *)
LEMMA PullKeepsParked ==
  ASSUME ParkedInv, PullStep
  PROVE  BatchIsOutbox' /\ NumbersUsed' /\ BatchState' /\ DeletesAccepted'
<1> USE DEF phoneVars, cycleVars, accountVars
<1>0. /\ TypeInv /\ TypeOK /\ CycleOK
      /\ BatchIsOutbox /\ NumbersUsed /\ BatchState /\ DeletesAccepted
  BY DEF ParkedInv, TypeInv
<1>1. Held(answers) = {} /\ Held(answers)' = {} /\ pc' \notin {"loaded", "sent"}
  BY <1>0 DEF PullStep, FetchPage, PullFails, LoadForRebase, ApplyPage, ApplyPageFails,
              CycleOK, InResult, Held
<1>2. BatchState'
  BY <1>1 DEF BatchState
<1>3. UNCHANGED <<nextSeq, batch, answers, reqs>>
  BY DEF PullStep, FetchPage, PullFails, LoadForRebase, ApplyPage, ApplyPageFails
<1>4. CASE UNCHANGED outbox
  <2>1. BatchIsOutbox' /\ NumbersUsed'
    BY <1>3, <1>4, CycleMoves DEF Held, SameOp
  <2>2. DeletesAccepted'
    BY <1>0, <1>3, <1>4 DEF DeletesAccepted, Turned, Held
  <2> QED BY <1>2, <2>1, <2>2
<1>5. CASE ApplyPage
  <2>1. page.dead \in SUBSET Ids
    BY <1>0, <1>5 DEF ApplyPage, CycleOK, Pages
  <2>2. \A s \in Held(outbox)' :
           /\ s \in Held(outbox) /\ SameOp(s)
           /\ \/ outbox'[s] = outbox[s]
              \/ outbox[s].op # "delete" /\ outbox'[s].state = "deadRemote"
    BY <1>0, <1>5, <2>1, OrphanedMoves DEF ApplyPage
  <2>3. BatchIsOutbox' /\ NumbersUsed'
    BY <1>3, <2>2, CycleMoves
  <2>4. DeletesAccepted'
    BY <1>0, <1>1, <1>3, <2>2 DEF DeletesAccepted, Turned, SameOp, Held
  <2> QED BY <1>2, <2>3, <2>4
<1> QED
  BY <1>4, <1>5 DEF PullStep, FetchPage, PullFails, LoadForRebase, ApplyPageFails

(* So does the account, which answers "rejected" to no delete.             *)
LEMMA FinishTurned ==
  ASSUME TypeInv, NEW k \in Lanes, Working(k), NEW answer, Finish(k, answer),
         answer.status = "rejected" => HeadOp(k).op # "delete",
         Turned(reqs[k].answers, reqs[k].batch)
  PROVE  /\ Turned(reqs'[k].answers, reqs'[k].batch)
         /\ \A l \in Lanes : l # k => reqs'[l] = reqs[l]
<1>1. reqs[k] \in Requests /\ HeadSeq(k) \in Seqs
  BY HeadTypes
<1>2. /\ reqs'[k].answers = [reqs[k].answers EXCEPT ![HeadSeq(k)] = answer]
      /\ reqs'[k].batch = reqs[k].batch
      /\ \A l \in Lanes : l # k => reqs'[l] = reqs[l]
  BY <1>1 DEF Finish, TypeInv, TypeOK, Requests
<1>3. reqs[k].answers \in [Seqs -> Answers \cup {None}]
  BY <1>1 DEF Requests
<1>4. Turned(reqs'[k].answers, reqs'[k].batch)
  BY <1>1, <1>2, <1>3 DEF Turned, Held, HeadOp
<1> QED BY <1>2, <1>4

(* The steps of the API keep it: a delete is answered, never turned down.  *)
LEMMA ServerKeepsParked ==
  ASSUME ParkedInv, ServerStep
  PROVE  BatchIsOutbox' /\ NumbersUsed' /\ BatchState' /\ DeletesAccepted'
<1> USE DEF phoneVars, cycleVars, accountVars
<1>0. /\ TypeInv /\ TypeOK
      /\ BatchIsOutbox /\ NumbersUsed /\ BatchState /\ DeletesAccepted
  BY DEF ParkedInv, TypeInv
<1>1. UNCHANGED <<outbox, nextSeq, pc, batch, answers>>
  BY DEF ServerStep, SkipDependent, RefuseOp, ReadForCreate, ReadForUpdate,
         WriteCreate, WriteUpdate, WriteAborts, DeleteRow, LateEnds
<1>2. BatchIsOutbox' /\ NumbersUsed'
  BY <1>1, CycleMoves DEF Held, SameOp
<1>3. BatchState'
  BY <1>0, <1>1 DEF BatchState, Held
<1>4. SUFFICES \A k \in Lanes : reqs'[k] # None => Turned(reqs'[k].answers, reqs'[k].batch)
  BY <1>0, <1>1, <1>2, <1>3 DEF DeletesAccepted, Turned, Held
<1>5. \A k \in Lanes : reqs[k] # None => Turned(reqs[k].answers, reqs[k].batch)
  BY <1>0 DEF DeletesAccepted
<1>6. ASSUME NEW k \in Lanes, Working(k), NEW answer, Finish(k, answer),
             answer.status = "rejected" => HeadOp(k).op # "delete"
      PROVE  \A l \in Lanes : reqs'[l] # None => Turned(reqs'[l].answers, reqs'[l].batch)
  <2>1. Turned(reqs[k].answers, reqs[k].batch)
    BY <1>5, <1>6 DEF Working
  <2> QED BY <1>0, <1>5, <1>6, <2>1, FinishTurned
<1>7. ASSUME NEW k \in Lanes, Working(k), NEW row, reqs' = [reqs EXCEPT ![k].read = row]
      PROVE  \A l \in Lanes : reqs'[l] # None => Turned(reqs'[l].answers, reqs'[l].batch)
  <2>1. reqs[k] \in Requests /\ reqs[k] # None
    BY <1>0, <1>7, HeadTypes DEF Working
  <2>2. /\ reqs'[k].answers = reqs[k].answers /\ reqs'[k].batch = reqs[k].batch
        /\ \A l \in Lanes : l # k => reqs'[l] = reqs[l]
    BY <1>0, <1>7, <2>1 DEF TypeOK, Requests
  <2> QED BY <1>5, <2>1, <2>2
<1>8. ASSUME NEW k \in Lanes, reqs' = [reqs EXCEPT ![k] = None]
      PROVE  \A l \in Lanes : reqs'[l] # None => Turned(reqs'[l].answers, reqs'[l].batch)
  BY <1>0, <1>5, <1>8 DEF TypeOK
<1>9. ASSUME NEW k \in Lanes, SkipDependent(k) \/ DeleteRow(k)
      PROVE  Working(k) /\ \E answer : Finish(k, answer) /\ answer.status # "rejected"
  BY <1>9 DEF SkipDependent, DeleteRow, Reads, Answer
<1>10. ASSUME NEW k \in Lanes, WriteCreate(k) \/ WriteUpdate(k)
       PROVE  Working(k) /\ \E answer : Finish(k, answer) /\ answer.status # "rejected"
  BY <1>10 DEF WriteCreate, WriteUpdate, Writes, Answer
<1>11. ASSUME NEW k \in Lanes, RefuseOp(k)
       PROVE  Working(k) /\ HeadOp(k).op # "delete" /\ \E answer : Finish(k, answer)
  BY <1>11 DEF RefuseOp, Reads
<1>12. ASSUME NEW k \in Lanes, ReadForCreate(k)
       PROVE  /\ Working(k) /\ HeadOp(k).op # "delete"
              /\ \/ \E answer : Finish(k, answer)
                 \/ \E row : reqs' = [reqs EXCEPT ![k].read = row]
  BY <1>12 DEF ReadForCreate, Reads
<1>13. ASSUME NEW k \in Lanes, ReadForUpdate(k)
       PROVE  /\ Working(k) /\ HeadOp(k).op # "delete"
              /\ \/ \E answer : Finish(k, answer)
                 \/ \E row : reqs' = [reqs EXCEPT ![k].read = row]
  BY <1>13 DEF ReadForUpdate, Reads
<1>14. ASSUME NEW k \in Lanes, WriteAborts(k)
       PROVE  reqs' = [reqs EXCEPT ![k] = None]
  BY <1>14 DEF WriteAborts
<1>15. CASE LateEnds
  BY <1>8, <1>15 DEF LateEnds, Lanes
<1>16. CASE \E k \in Lanes : \/ SkipDependent(k) \/ RefuseOp(k) \/ ReadForCreate(k)
                             \/ ReadForUpdate(k) \/ WriteCreate(k) \/ WriteUpdate(k)
                             \/ WriteAborts(k) \/ DeleteRow(k)
  BY <1>6, <1>7, <1>8, <1>9, <1>10, <1>11, <1>12, <1>13, <1>14, <1>16
<1> QED BY <1>15, <1>16 DEF ServerStep

(* Crashes and the other device keep it.                                   *)
LEMMA WorldKeepsParked ==
  ASSUME ParkedInv, WorldStep
  PROVE  BatchIsOutbox' /\ NumbersUsed' /\ BatchState' /\ DeletesAccepted'
<1> USE DEF phoneVars, cycleVars, accountVars
<1>0. /\ TypeInv /\ TypeOK
      /\ BatchIsOutbox /\ NumbersUsed /\ BatchState /\ DeletesAccepted
  BY DEF ParkedInv, TypeInv
<1>1. CASE Crash
  <2>1. Held(batch)' = {} /\ Held(answers)' = {} /\ UNCHANGED <<outbox, nextSeq>>
    BY <1>1 DEF Crash, Held, NoOps
  <2>2. BatchIsOutbox' /\ NumbersUsed'
    BY <2>1, CycleMoves DEF Held, SameOp
  <2>3. BatchState'
    BY <1>1, <2>1 DEF Crash, BatchState
  <2>4. \A k \in Lanes : reqs'[k] # None => reqs[k] # None /\ reqs'[k] = reqs[k]
    BY <1>0, <1>1 DEF Crash, TypeOK, Lanes
  <2>5. DeletesAccepted'
    BY <1>0, <2>1, <2>4 DEF DeletesAccepted, Turned, Held
  <2> QED BY <2>2, <2>3, <2>5
<1>2. CASE UNCHANGED <<outbox, nextSeq, pc, batch, answers, reqs>>
  <2>1. BatchIsOutbox' /\ NumbersUsed'
    BY <1>2, CycleMoves DEF Held, SameOp
  <2> QED BY <1>0, <1>2, <2>1 DEF BatchState, DeletesAccepted, Turned, Held
<1> QED BY <1>1, <1>2 DEF WorldStep, ForeignEdit, ForeignDelete

(* What the cycle relies on about its batch is kept by every step,         *)
LEMMA ParkedInvStep ==
  ASSUME ParkedInv, [Next]_vars
  PROVE  ParkedInv'
<1> SUFFICES BatchIsOutbox' /\ NumbersUsed' /\ BatchState' /\ DeletesAccepted'
  BY NextTypes DEF ParkedInv
<1>1. CASE UNCHANGED vars
  <2>1. UNCHANGED <<outbox, nextSeq, pc, batch, answers, reqs>>
    BY <1>1 DEF vars, phoneVars, cycleVars
  <2>2. BatchIsOutbox' /\ NumbersUsed'
    BY <2>1, CycleMoves DEF Held, SameOp
  <2> QED BY <2>1, <2>2 DEF ParkedInv, BatchState, DeletesAccepted, Turned, Held
<1> QED BY <1>1, UserKeepsParked, FlushKeepsParked, PullKeepsParked,
           ServerKeepsParked, WorldKeepsParked DEF Next

(* and so holds in every behaviour.                                        *)
LEMMA ParkedInvariant ==
  Spec => []ParkedInv
<1>1. Init => ParkedInv
  BY InitTypes DEF Init, ParkedInv, BatchIsOutbox, NumbersUsed, BatchState,
                   DeletesAccepted, Turned, Held, NoOps
<1>2. ParkedInv /\ [Next]_vars => ParkedInv'
  BY ParkedInvStep
<1> QED BY <1>1, <1>2, PTL DEF Spec

(* No step of a cycle, of the account or of the rest of the world takes a  *)
(* parked op up.                                                           *)
LEMMA ParkedStep ==
  ASSUME ParkedInv, FlushStep \/ PullStep \/ ServerStep \/ WorldStep,
         NEW s \in Seqs, Parked(outbox[s])
  PROVE  Parked(outbox'[s])
<1> USE DEF phoneVars, cycleVars, accountVars
<1>0. /\ TypeInv /\ TypeOK /\ CycleOK /\ BatchState /\ DeletesAccepted
      /\ s \in Held(outbox)
  BY DEF ParkedInv, TypeInv, Parked, Held
<1>1. CASE UNCHANGED outbox
  BY <1>1
<1>2. CASE StartCycle
  BY <1>0, <1>2 DEF StartCycle, RecoveredStates, InState, Parked
<1>3. CASE Send
  <2>1. batch[s] = None
    BY <1>0, <1>3 DEF Send, BatchState, Held, Parked
  <2> QED BY <1>3, <2>1 DEF Send
<1>4. CASE RequestFails
  <2>1. batch[s] = None
    BY <1>0, <1>4 DEF RequestFails, BatchState, Held, Parked
  <2> QED BY <1>4, <2>1 DEF RequestFails
<1>5. CASE ApplySuccess \/ ApplyRefusal
  <2>1. Cur \in Held(answers)
    BY <1>0, <1>5, CurTypes DEF ApplySuccess, ApplyRefusal
  <2>2. s # Cur
    BY <1>0, <2>1 DEF BatchState, Parked
  <2> QED BY <1>0, <1>5, <2>2 DEF ApplySuccess, ApplyRefusal, TypeOK, Outboxes
<1>6. CASE ApplyPage
  <2>1. outbox[s].op # "delete" /\ outbox[s] \in Entries
    BY <1>0 DEF DeletesAccepted, Held, TypeOK, Outboxes
  <2>2. [outbox[s] EXCEPT !.state = "deadRemote"] \in Entries
    BY <2>1 DEF Entries, OpStates
  <2>3. outbox'[s] \in {outbox[s], [outbox[s] EXCEPT !.state = "deadRemote"]}
    BY <1>6, <2>1 DEF ApplyPage, Orphaned
  <2> QED BY <2>1, <2>2, <2>3, NoneAssumption DEF Parked, Entries
<1> QED
  BY <1>1, <1>2, <1>3, <1>4, <1>5, <1>6
  DEF FlushStep, PullStep, ServerStep, WorldStep, LoadBatch, Reply, BatchDone, Shelve,
      Reread, ConfirmRow, FetchPage, PullFails, LoadForRebase, ApplyPageFails,
      SkipDependent, RefuseOp, ReadForCreate, ReadForUpdate, WriteCreate, WriteUpdate,
      WriteAborts, DeleteRow, LateEnds, Crash, ForeignEdit, ForeignDelete

(* What the account refused waits for the user, whatever else happens.     *)
THEOREM ParkedWaitsForUser ==
  Spec => ParkedWaits
<1>1. ParkedInv /\ [Next]_vars =>
        [(FlushStep \/ PullStep \/ ServerStep \/ WorldStep) =>
           \A s \in Seqs : Parked(outbox[s]) => Parked(outbox'[s])]_vars
  BY ParkedStep
<1> QED BY <1>1, ParkedInvariant, PTL DEF Spec, ParkedWaits

=============================================================================
