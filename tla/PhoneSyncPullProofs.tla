-------------------------- MODULE PhoneSyncPullProofs --------------------------
(***************************************************************************)
(* What the phone may conclude from what the account sends: that the       *)
(* cursor stands for no row the mirror lacks, for every set of rows and    *)
(* every allowance of the environment in which no request outlives its     *)
(* timeout and not both a refusal and a discard happen.  For every         *)
(* allowance: that the links of the account resolve, that no update leaves *)
(* the phone before the creates it needs, that no text of the other device *)
(* which a write of the phone replaces is lost sight of, and that the      *)
(* screen shows the newest edit of a row that is not on the account yet.   *)
(***************************************************************************)
EXTENDS PhoneSyncEditProofs, FiniteSetTheorems

-----------------------------------------------------------------------------
(* What each actor leaves alone                                            *)

(* The user touches neither the cycle nor the account.                     *)
LEMMA UserLeaves ==
  ASSUME UserStep
  PROVE  UNCHANGED <<cycleVars, accountVars, reqs>>
<1>1. ASSUME NEW i \in Ids, Create(i) \/ Delete(i)
      PROVE  UNCHANGED <<cycleVars, accountVars, reqs>>
  BY <1>1 DEF Create, Delete
<1>2. ASSUME NEW i \in Ids, UpdateText(i) \/ UpdateRef(i)
      PROVE  UNCHANGED <<cycleVars, accountVars, reqs>>
  BY <1>2 DEF UpdateText, UpdateRef, Update
<1>3. ASSUME NEW s \in Seqs, Retry(s) \/ Discard(s)
      PROVE  UNCHANGED <<cycleVars, accountVars, reqs>>
  BY <1>3 DEF Retry, Discard
<1>4. ASSUME NEW s \in Seqs, NEW i \in Places, Recreate(s, i)
      PROVE  UNCHANGED <<cycleVars, accountVars, reqs>>
  BY <1>4 DEF Recreate
<1>5. Reset => UNCHANGED <<cycleVars, accountVars, reqs>>
  BY DEF Reset
<1> QED BY <1>1, <1>2, <1>3, <1>4, <1>5 DEF UserStep

(* The account touches nothing of the phone and of its cycle.              *)
LEMMA ServerLeaves ==
  ASSUME ServerStep
  PROVE  UNCHANGED <<cycleVars, phoneVars>>
<1>1. ASSUME NEW k \in Lanes, SkipDependent(k) \/ RefuseOp(k) \/ ReadForCreate(k)
      PROVE  UNCHANGED <<cycleVars, phoneVars>>
  BY <1>1 DEF SkipDependent, RefuseOp, ReadForCreate
<1>2. ASSUME NEW k \in Lanes, ReadForUpdate(k) \/ WriteCreate(k) \/ WriteUpdate(k)
      PROVE  UNCHANGED <<cycleVars, phoneVars>>
  BY <1>2 DEF ReadForUpdate, WriteCreate, WriteUpdate
<1>3. ASSUME NEW k \in Lanes, WriteAborts(k) \/ DeleteRow(k)
      PROVE  UNCHANGED <<cycleVars, phoneVars>>
  BY <1>3 DEF WriteAborts, DeleteRow
<1>4. LateEnds => UNCHANGED <<cycleVars, phoneVars>>
  BY DEF LateEnds
<1> QED BY <1>1, <1>2, <1>3, <1>4 DEF ServerStep

(* Nor does another device; only a crash ends the cycle.                   *)
LEMMA WorldLeaves ==
  ASSUME WorldStep
  PROVE  UNCHANGED phoneVars /\ (Crash \/ UNCHANGED <<cycleVars, reqs>>)
<1>1. ASSUME NEW i \in Ids, ForeignEdit(i) \/ ForeignDelete(i)
      PROVE  UNCHANGED <<phoneVars, cycleVars, reqs>>
  BY <1>1 DEF ForeignEdit, ForeignDelete
<1>2. Crash => UNCHANGED phoneVars
  BY DEF Crash
<1> QED BY <1>1, <1>2 DEF WorldStep

-----------------------------------------------------------------------------
(* The links of the account's trips                                        *)

(* A row that leaves takes the links to it along.                          *)
LEMMA RemovalResolves ==
  ASSUME TypeOK, LinksResolve, NEW i \in Ids, RemoveRow(i)
  PROVE  LinksResolve'
<1>1. CASE srv[i] = None
  BY <1>1 DEF RemoveRow, accountVars, LinksResolve, Resolves, Live
<1>2. CASE srv[i] # None
  <2>1. srv' = Without(srv, i, clock + 1)
    BY <1>2 DEF RemoveRow
  <2> SUFFICES ASSUME NEW t \in Trips, t \in Ids, srv'[t] # None,
                      srv'[t].vals["ref"] \in Places
               PROVE  srv'[srv'[t].vals["ref"]] # None
    BY DEF LinksResolve, Resolves, Live
  <2>2. srv[t] # None /\ srv[t] \in Rows
    BY <2>1 DEF Without, TypeOK, Mirrors
  <2>3. ~(i \in Places /\ srv[t].vals["ref"] = i) /\ srv'[t] = srv[t]
    BY <2>1, <2>2, PlanAssumption DEF Without, Rows, RowVals, Fields
  <2>4. srv[srv[t].vals["ref"]] # None
    BY <2>2, <2>3 DEF LinksResolve, Resolves, Live
  <2>5. srv[t].vals["ref"] \in Ids /\ srv[t].vals["ref"] # i
    BY <2>3 DEF Ids
  <2>6. ASSUME NEW j \in Ids, srv[j] # None, j # i
        PROVE  srv'[j] = srv[j] \/ srv'[j] \in Rows
    <3>1. srv[j] \in Rows /\ clock + 1 \in Nat /\ clock + 1 # 0 /\ NoPlace \in Values
      BY <2>6 DEF TypeOK, Mirrors, Values
    <3>2. [vals |-> [srv[j].vals EXCEPT !["ref"] = NoPlace], at |-> clock + 1] \in Rows
      BY <3>1 DEF Rows, RowVals
    <3> QED BY <2>1, <2>6, <3>1, <3>2 DEF Without
  <2> QED BY <2>3, <2>4, <2>5, <2>6, RowAssumption
<1> QED BY <1>1, <1>2

(* A row written over an existing one or into an empty place, whose link   *)
(* resolves, breaks no link.                                               *)
LEMMA WriteResolves ==
  ASSUME TypeOK, LinksResolve, NEW i \in Ids, NEW row \in Rows,
         srv' = [srv EXCEPT ![i] = row],
         i \in Trips /\ row.vals["ref"] \in Places => srv[row.vals["ref"]] # None
  PROVE  LinksResolve'
<1>1. row # None
  BY RowAssumption
<1> SUFFICES ASSUME NEW t \in Trips, t \in Ids, srv'[t] # None,
                    srv'[t].vals["ref"] \in Places
             PROVE  srv'[srv'[t].vals["ref"]] # None
  BY DEF LinksResolve, Resolves, Live
<1>2. srv[srv'[t].vals["ref"]] # None
  BY DEF TypeOK, Mirrors, LinksResolve, Resolves, Live
<1> QED BY <1>1, <1>2 DEF TypeOK, Mirrors, Ids

(* Only a place that is there is linked to: the check of the links and the *)
(* write are two statements, but the write fails on a missing place, and a *)
(* place that goes takes the links to it along.                            *)
THEOREM LinksAreThere ==
  Spec => []LinksResolve
<1> USE DEF phoneVars, cycleVars, accountVars
<1>1. Init => LinksResolve
  BY PlanAssumption
     DEF Init, LinksResolve, Resolves, KnownRow, Filled, NoFields, Fields, Live
<1>2. TypeInv /\ LinksResolve /\ [Next]_vars => LinksResolve'
  <2> SUFFICES ASSUME TypeInv, LinksResolve, [Next]_vars
               PROVE  LinksResolve'
    OBVIOUS
  <2>0. TypeOK
    BY DEF TypeInv
  <2>1. CASE UNCHANGED srv
    BY <2>1 DEF LinksResolve, Resolves, Live
  <2>2. ASSUME NEW k \in Lanes, WriteCreate(k)
        PROVE  LinksResolve'
    <3> DEFINE e == HeadOp(k)
               row == [vals |-> Filled(e.fields), at |-> clock + 1]
    <3>1. e \in Entries /\ e.fields \in OpFields
      BY <2>2, HeadTypes DEF WriteCreate, Writes, Entries
    <3>2. row \in Rows
      BY <2>0, <3>1, RowTypes DEF TypeOK, Rows
    <3>3. row.vals["ref"] \in Places => srv[row.vals["ref"]] # None
      BY <2>2, <3>1, PlanAssumption DEF WriteCreate, Resolves, Filled, Fields
    <3>4. srv' = [srv EXCEPT ![e.id] = row]
      BY <2>2 DEF WriteCreate
    <3> HIDE DEF e, row
    <3> QED BY <2>0, <3>1, <3>2, <3>3, <3>4, WriteResolves DEF Entries
  <2>3. ASSUME NEW k \in Lanes, WriteUpdate(k)
        PROVE  LinksResolve'
    <3> DEFINE e == HeadOp(k)
               row == [vals |-> Overlay(srv[e.id].vals, e.fields), at |-> clock + 1]
    <3>1. e \in Entries /\ e.fields \in OpFields /\ e.id \in Ids
      BY <2>3, HeadTypes DEF WriteUpdate, Writes, Entries
    <3>2. srv[e.id] # None /\ srv[e.id].vals \in RowVals
      BY <2>0, <2>3, <3>1 DEF WriteUpdate, TypeOK, Mirrors, Rows
    <3>3. row \in Rows
      BY <2>0, <3>1, <3>2, OverlayTypes DEF TypeOK, Rows
    <3>4. row.vals["ref"] \in {srv[e.id].vals["ref"], e.fields["ref"]}
      BY DEF Overlay, Fields
    <3>5. e.id \in Trips /\ row.vals["ref"] \in Places => srv[row.vals["ref"]] # None
      BY <2>3, <3>1, <3>2, <3>4 DEF WriteUpdate, LinksResolve, Resolves, Live
    <3>6. srv' = [srv EXCEPT ![e.id] = row]
      BY <2>3 DEF WriteUpdate
    <3> HIDE DEF e, row
    <3> QED BY <2>0, <3>1, <3>3, <3>5, <3>6, WriteResolves
  <2>4. ASSUME NEW k \in Lanes, DeleteRow(k)
        PROVE  LinksResolve'
    <3>1. HeadOp(k).id \in Ids
      BY <2>4, HeadTypes DEF DeleteRow, Reads, Entries
    <3> QED BY <2>0, <2>4, <3>1, RemovalResolves DEF DeleteRow
  <2>5. ASSUME NEW i \in Ids, ForeignEdit(i)
        PROVE  LinksResolve'
    <3> DEFINE row == [vals |-> [srv[i].vals EXCEPT !["text"] = stamp'], at |-> clock']
    <3>1. srv[i] # None /\ srv[i] \in Rows
      BY <2>0, <2>5 DEF ForeignEdit, TypeOK, Mirrors
    <3>2. row \in Rows /\ row.vals["ref"] = srv[i].vals["ref"]
      BY <2>0, <2>5, <3>1, PlanAssumption
         DEF ForeignEdit, TypeOK, Rows, RowVals, Values, Fields
    <3>3. i \in Trips /\ row.vals["ref"] \in Places => srv[row.vals["ref"]] # None
      BY <3>1, <3>2 DEF LinksResolve, Resolves, Live
    <3>4. srv' = [srv EXCEPT ![i] = row]
      BY <2>5 DEF ForeignEdit
    <3> HIDE DEF row
    <3> QED BY <2>0, <3>2, <3>3, <3>4, WriteResolves
  <2>6. ASSUME NEW i \in Ids, ForeignDelete(i)
        PROVE  LinksResolve'
    BY <2>0, <2>6, RemovalResolves DEF ForeignDelete
  <2> QED
    BY <2>1, <2>2, <2>3, <2>4, <2>5, <2>6
    DEF Next, UserStep, FlushStep, PullStep, ServerStep, WorldStep, vars,
        Create, UpdateText, UpdateRef, Update, Delete, Retry, Discard, Recreate, Reset,
        StartCycle, LoadBatch, Send, RequestFails, Reply, BatchDone, ApplySuccess, Shelve,
        Reread, ConfirmRow, ApplyRefusal, FetchPage, PullFails, LoadForRebase, ApplyPage,
        ApplyPageFails, SkipDependent, RefuseOp, ReadForCreate, ReadForUpdate, WriteAborts,
        LateEnds, Crash
<1>3. Spec => []TypeInv
  BY TypeInvariant
<1> QED BY <1>1, <1>2, <1>3, PTL DEF Spec

-----------------------------------------------------------------------------
(* The cursor: the inductive invariant                                     *)

PendingDelete(i) == \E s \in OfRow(outbox, i) : outbox[s].op = "delete"

(* What has a time later than the cursor will come with the next page.     *)
TimesOK ==
  /\ cursor <= clock
  /\ \A i \in Ids : srv[i] # None => srv[i].at >= 1

(* A row's create is its first op, also in the batch, and an op is         *)
(* answered before the ones behind it.                                     *)
CreatesFirst(ob) ==
  \A r, s \in Held(ob) : IsCreate(ob[r]) /\ ob[s].id = ob[r].id => r <= s

AnsweredInOrder ==
  reqs["live"] # None =>
    \A s \in Held(reqs["live"].answers), r \in reqs["live"].todo : s < r

(* A row that came with an answer is the account's, or what became of that *)
(* one since the next page will bring.                                     *)
NewEnough(row, i) ==
  /\ tomb[i] = 0 \/ tomb[i] > cursor
  /\ srv[i] # None => row.at >= srv[i].at \/ srv[i].at > cursor

(* A delete that was taken has left nothing, and a create was refused for  *)
(* a row the account does not have; unless nobody will discard it.         *)
TrueAnswer(s, answer) ==
  LET i == batch[s].id
  IN /\ answer.row # None => NewEnough(answer.row, i)
     /\ answer.status \in Succeeded /\ batch[s].op = "delete" => srv[i] = None
     /\ answer.status = "rejected" /\ IsCreate(batch[s])
          => srv[i] = None \/ left["discard"] = 0

AnswersTrue ==
  /\ \A s \in Held(answers) : TrueAnswer(s, answers[s])
  /\ reqs["live"] # None =>
       \A s \in Held(reqs["live"].answers) : TrueAnswer(s, reqs["live"].answers[s])

(* What a discard takes out of the mirror the account does not have.       *)
DiscardsOK ==
  \/ left["discard"] = 0
  \/ /\ left["refuse"] = 0
     /\ \A s \in Held(outbox) :
          Parked(outbox[s]) /\ IsCreate(outbox[s]) => srv[outbox[s].id] = None

(* The page in hand brings all that the cursor it was asked for leaves out *)
(* and its own time includes.                                              *)
PageBrings(i) ==
  /\ srv[i] # None /\ srv[i].at <= page.at
       => page.rows[i] = srv[i] \/ (page.rows[i] = None /\ srv[i].at <= cursor)
  /\ tomb[i] \in 1 .. page.at => i \in page.dead \/ tomb[i] <= cursor
  /\ page.rows[i] # None => tomb[i] = 0 \/ tomb[i] > page.at

PageOK ==
  pc \in {"fetched", "merge"} =>
    /\ page.at <= clock
    /\ \A i \in page.dead : tomb[i] # 0
    /\ ~ghost.resetMidPull => \A i \in Ids : PageBrings(i)

(* CursorHonest, of one row, and more: a tombstone the cursor includes has *)
(* been applied, with a delete pending or not.                             *)
RowHonest(i) ==
  /\ PendingDelete(i) \/ (srv[i] # None /\ srv[i].at <= cursor
                             => mirror[i] # None /\ mirror[i].at >= srv[i].at)
  /\ tomb[i] \in 1 .. cursor => mirror[i] = None

RowsHonest == ~ghost.resetMidPull => \A i \in Ids : RowHonest(i)

HonestInv ==
  /\ TimesOK
  /\ CreatesFirst(outbox) /\ CreatesFirst(batch) /\ AnsweredInOrder
  /\ AnswersTrue /\ DiscardsOK
  /\ PageOK /\ RowsHonest

(* What is known of a state before a step, and of no request being late    *)
Known3 == KeptInv /\ ResurrectionInv /\ HonestInv

-----------------------------------------------------------------------------
(* What a step does to the account                                         *)

(* Rows and tombstones change to the next moment; only a create's write    *)
(* makes a row.                                                            *)
AccountMoves ==
  /\ clock \in Nat /\ clock' \in {clock, clock + 1}
  /\ \A i \in Ids :
       /\ \/ srv'[i] = srv[i] \/ srv'[i] = None
          \/ srv'[i] # None /\ srv'[i].at = clock + 1 /\ clock' = clock + 1
       /\ tomb'[i] = tomb[i] \/ (tomb'[i] = clock + 1 /\ clock' = clock + 1)

(* Removing a row moves the account so, and makes no row.                  *)
LEMMA RemovalMoves ==
  ASSUME TypeOK, NEW i \in Ids, RemoveRow(i)
  PROVE  AccountMoves /\ srv'[i] = None /\ \A j \in Ids : srv[j] = None => srv'[j] = None
<1>0. clock \in Nat /\ clock + 1 \in Nat /\ clock + 1 # 0
      /\ srv \in Mirrors /\ tomb \in [Ids -> Nat]
  BY DEF TypeOK
<1>1. CASE srv[i] = None
  BY <1>0, <1>1 DEF RemoveRow, accountVars, AccountMoves
<1>2. CASE srv[i] # None
  <2>1. /\ srv' = Without(srv, i, clock + 1) /\ clock' = clock + 1
        /\ tomb' = [tomb EXCEPT ![i] = clock + 1]
    BY <1>2 DEF RemoveRow
  <2>2. ASSUME NEW j \in Ids
        PROVE  /\ \/ srv'[j] = srv[j] \/ srv'[j] = None
                  \/ srv'[j] # None /\ srv'[j].at = clock + 1
               /\ srv[j] = None => srv'[j] = None
    <3>0. srv'[j] = IF j = i THEN None
                    ELSE IF i \in Places /\ srv[j] # None /\ srv[j].vals["ref"] = i
                    THEN [vals |-> [srv[j].vals EXCEPT !["ref"] = NoPlace], at |-> clock + 1]
                    ELSE srv[j]
      BY <1>0, <2>1 DEF Without
    <3>1. CASE srv[j] = None
      BY <3>0, <3>1
    <3>2. CASE srv[j] # None
      <4>1. srv[j] \in Rows /\ NoPlace \in Values
        BY <1>0, <3>2 DEF Mirrors, Values
      <4>2. [vals |-> [srv[j].vals EXCEPT !["ref"] = NoPlace], at |-> clock + 1] \in Rows
        BY <1>0, <4>1 DEF Rows, RowVals
      <4> QED BY <3>0, <3>2, <4>2, RowAssumption
    <3> QED BY <3>1, <3>2
  <2> QED BY <1>0, <2>1, <2>2 DEF AccountMoves, Without
<1> QED BY <1>1, <1>2

(* Every step moves the account so, and a row comes to be in one way only. *)
LEMMA AccountStep ==
  ASSUME TypeInv, [Next]_vars
  PROVE  /\ AccountMoves
         /\ \A i \in Ids : srv[i] = None /\ srv'[i] # None
              => \E k \in Lanes : WriteCreate(k) /\ HeadOp(k).id = i
<1> USE DEF phoneVars, cycleVars, accountVars
<1>0. TypeOK /\ clock \in Nat /\ srv \in Mirrors
  BY DEF TypeInv, TypeOK
<1>1. CASE UNCHANGED <<srv, tomb, clock>>
  BY <1>0, <1>1 DEF AccountMoves
<1>2. ASSUME NEW k \in Lanes, WriteCreate(k)
      PROVE  AccountMoves /\ \A i \in Ids : srv[i] = None /\ srv'[i] # None => HeadOp(k).id = i
  <2>1. HeadOp(k) \in Entries /\ HeadOp(k).fields \in OpFields
    BY <1>0, <1>2, HeadTypes DEF WriteCreate, Writes, Entries
  <2>2. [vals |-> Filled(HeadOp(k).fields), at |-> clock + 1] # None
    BY <1>0, <2>1, RowTypes, RowAssumption DEF Rows
  <2>3. /\ srv' = [srv EXCEPT ![HeadOp(k).id] =
                     [vals |-> Filled(HeadOp(k).fields), at |-> clock + 1]]
        /\ clock' = clock + 1 /\ tomb' = tomb
    BY <1>2 DEF WriteCreate
  <2> QED BY <1>0, <2>1, <2>2, <2>3 DEF AccountMoves, Mirrors
<1>3. ASSUME NEW k \in Lanes, WriteUpdate(k)
      PROVE  AccountMoves /\ \A i \in Ids : srv[i] = None => srv'[i] = None
  <2>1. HeadOp(k) \in Entries /\ HeadOp(k).fields \in OpFields /\ HeadOp(k).id \in Ids
    BY <1>0, <1>3, HeadTypes DEF WriteUpdate, Writes, Entries
  <2>2. srv[HeadOp(k).id] # None /\ srv[HeadOp(k).id].vals \in RowVals
    BY <1>0, <1>3, <2>1 DEF WriteUpdate, Mirrors, Rows
  <2>3. [vals |-> Overlay(srv[HeadOp(k).id].vals, HeadOp(k).fields), at |-> clock + 1] # None
    BY <1>0, <2>1, <2>2, OverlayTypes, RowAssumption DEF Rows
  <2>4. /\ srv' = [srv EXCEPT ![HeadOp(k).id] =
              [vals |-> Overlay(srv[HeadOp(k).id].vals, HeadOp(k).fields), at |-> clock + 1]]
        /\ clock' = clock + 1 /\ tomb' = tomb
    BY <1>3 DEF WriteUpdate
  <2> QED BY <1>0, <2>2, <2>3, <2>4 DEF AccountMoves, Mirrors
<1>4. ASSUME NEW k \in Lanes, DeleteRow(k)
      PROVE  AccountMoves /\ \A i \in Ids : srv[i] = None => srv'[i] = None
  <2>1. HeadOp(k).id \in Ids
    BY <1>0, <1>4, HeadTypes DEF DeleteRow, Reads, Entries
  <2> QED BY <1>0, <1>4, <2>1, RemovalMoves DEF DeleteRow
<1>5. ASSUME NEW i \in Ids, ForeignEdit(i)
      PROVE  AccountMoves /\ \A j \in Ids : srv[j] = None => srv'[j] = None
  <2>1. srv[i] # None /\ srv[i].vals \in RowVals /\ stamp' \in Values
    BY <1>0, <1>5, PlanAssumption DEF ForeignEdit, Mirrors, Rows, TypeOK, Values
  <2>2. [vals |-> [srv[i].vals EXCEPT !["text"] = stamp'], at |-> clock + 1] # None
    BY <1>0, <2>1, RowAssumption DEF Rows, RowVals
  <2>3. /\ srv' = [srv EXCEPT ![i] =
                     [vals |-> [srv[i].vals EXCEPT !["text"] = stamp'], at |-> clock + 1]]
        /\ clock' = clock + 1 /\ tomb' = tomb
    BY <1>5 DEF ForeignEdit
  <2> QED BY <1>0, <2>1, <2>2, <2>3 DEF AccountMoves, Mirrors
<1>6. ASSUME NEW i \in Ids, ForeignDelete(i)
      PROVE  AccountMoves /\ \A j \in Ids : srv[j] = None => srv'[j] = None
  BY <1>0, <1>6, RemovalMoves DEF ForeignDelete
<1> QED
  BY <1>1, <1>2, <1>3, <1>4, <1>5, <1>6
  DEF Next, UserStep, FlushStep, PullStep, ServerStep, WorldStep, vars,
      Create, UpdateText, UpdateRef, Update, Delete, Retry, Discard, Recreate, Reset,
      StartCycle, LoadBatch, Send, RequestFails, Reply, BatchDone, ApplySuccess, Shelve,
      Reread, ConfirmRow, ApplyRefusal, FetchPage, PullFails, LoadForRebase, ApplyPage,
      ApplyPageFails, SkipDependent, RefuseOp, ReadForCreate, ReadForUpdate, WriteAborts,
      LateEnds, Crash

(* The request the phone waits for makes row i.                            *)
Makes(i) == WriteCreate("live") /\ HeadOp("live").id = i

(* With one request at a time no other does.                               *)
LEMMA MadeLive ==
  ASSUME Known3, [Next]_vars
  PROVE  /\ AccountMoves
         /\ \A i \in Ids : srv[i] = None /\ srv'[i] # None => Makes(i)
<1>1. TypeInv /\ \A k \in Lanes : WriteCreate(k) => k = "live"
  BY DEF Known3, ResurrectionInv, OneRequest, Lanes, WriteCreate, Writes, Working
<1> QED BY <1>1, AccountStep DEF Makes

(* The cursor is moved by the page applied and put back by a resync.       *)
LEMMA CursorMoves ==
  ASSUME Known3, [Next]_vars
  PROVE  \/ cursor' = cursor
         \/ Reset /\ cursor' = 0
         \/ ApplyPage /\ cursor' = page.at
<1> USE DEF phoneVars
<1>1. CASE UserStep
  BY <1>1 DEF UserStep, Create, UpdateText, UpdateRef, Update, Delete, Retry, Discard,
              Recreate, Reset
<1>2. CASE FlushStep \/ PullStep \/ UNCHANGED vars
  BY <1>2
     DEF FlushStep, PullStep, vars, StartCycle, LoadBatch, Send, RequestFails, Reply,
         BatchDone, ApplySuccess, Shelve, Reread, ConfirmRow, ApplyRefusal, FetchPage,
         PullFails, LoadForRebase, ApplyPage, ApplyPageFails
<1>3. CASE ServerStep \/ WorldStep
  BY <1>3
     DEF ServerStep, WorldStep, SkipDependent, RefuseOp, ReadForCreate, ReadForUpdate,
         WriteCreate, WriteUpdate, WriteAborts, DeleteRow, LateEnds, Crash, ForeignEdit,
         ForeignDelete
<1> QED BY <1>1, <1>2, <1>3 DEF Next

(* So the cursor stays behind the account's clock.                         *)
LEMMA TimesKept ==
  ASSUME Known3, [Next]_vars
  PROVE  TimesOK'
<1>0. /\ AccountMoves /\ TimesOK /\ PageOK /\ cursor \in Nat
  BY MadeLive DEF Known3, HonestInv, ResurrectionInv, TypeInv, TypeOK
<1>1. cursor' <= clock
  <2>1. CASE ApplyPage
    BY <1>0, <2>1 DEF PageOK, ApplyPage
  <2>2. cursor' = cursor \/ cursor' = 0 \/ ApplyPage
    BY CursorMoves
  <2> QED BY <1>0, <2>1, <2>2 DEF TimesOK, AccountMoves
<1>2. cursor' <= clock'
  <2>1. cursor' \in Nat
    BY NextTypes DEF Known3, ResurrectionInv, TypeInv, TypeOK
  <2> QED BY <1>0, <1>1, <2>1 DEF AccountMoves
<1>3. \A i \in Ids : srv'[i] # None => srv'[i].at >= 1
  BY <1>0 DEF AccountMoves, TimesOK
<1> QED BY <1>2, <1>3 DEF TimesOK

(* A row that was new enough stays so, but for the page.                   *)
LEMMA StaysNewEnough ==
  ASSUME Known3, [Next]_vars, ~ApplyPage
  PROVE  \A i \in Ids, row \in Rows :
           NewEnough(row, i) =>
             /\ tomb'[i] = 0 \/ tomb'[i] > cursor'
             /\ srv'[i] # None => row.at >= srv'[i].at \/ srv'[i].at > cursor'
<1>0. /\ AccountMoves /\ TimesOK /\ TimesOK' /\ cursor \in Nat
      /\ tomb \in [Ids -> Nat] /\ srv \in Mirrors
      /\ tomb' \in [Ids -> Nat] /\ srv' \in Mirrors
  BY MadeLive, TimesKept, NextTypes DEF Known3, HonestInv, ResurrectionInv, TypeInv, TypeOK
<1>1. cursor' = cursor \/ cursor' = 0
  BY CursorMoves
<1>2. SUFFICES ASSUME NEW i \in Ids, NEW row \in Rows, NewEnough(row, i)
               PROVE  /\ tomb'[i] = 0 \/ tomb'[i] > cursor'
                      /\ srv'[i] # None => row.at >= srv'[i].at \/ srv'[i].at > cursor'
  OBVIOUS
<1>3. tomb[i] \in Nat /\ tomb'[i] \in Nat /\ clock + 1 > cursor
  BY <1>0 DEF AccountMoves, TimesOK
<1>4. tomb'[i] = 0 \/ tomb'[i] > cursor'
  BY <1>0, <1>1, <1>2, <1>3 DEF AccountMoves, NewEnough
<1>5. srv'[i] # None => row.at >= srv'[i].at \/ srv'[i].at > cursor'
  <2>1. CASE cursor' = 0
    <3>1. srv'[i] # None => srv'[i].at >= 1 /\ srv'[i].at \in Nat
      BY <1>0 DEF TimesOK, Mirrors, Rows
    <3> QED BY <2>1, <3>1
  <2>2. CASE cursor' = cursor
    BY <1>0, <1>2, <1>3, <2>2 DEF AccountMoves, NewEnough
  <2> QED BY <1>1, <2>1, <2>2
<1> QED BY <1>4, <1>5

(* What the step makes of the outbox: its ops or fewer, or one new op.     *)
LEMMA OpsCome ==
  ASSUME KeptInv, [Next]_vars
  PROVE  NoNewOp \/ \E e \in Entries : Adds(e) /\ TakenFrom(e)
<1>1. ASSUME NEW i \in Ids, Create(i) \/ UpdateText(i) \/ UpdateRef(i) \/ Delete(i)
      PROVE  \E e : Adds(e) /\ TakenFrom(e)
  BY <1>1, EditAdds
<1>2. ASSUME NEW s \in Seqs, NEW i \in Places, Recreate(s, i)
      PROVE  \E e : Adds(e) /\ TakenFrom(e)
  BY <1>2, RecreateAdds
<1>3. NoNewOp \/ \E e : Adds(e) /\ TakenFrom(e)
  BY <1>1, <1>2 DEF Next, UserStep, NoNewOp
<1> QED BY <1>3 DEF Adds

(* The create of a row stays its first op.                                 *)
LEMMA CreatesStayFirst ==
  ASSUME KeptInv, CreatesFirst(outbox), CreatesFirst(batch), [Next]_vars
  PROVE  CreatesFirst(outbox)' /\ CreatesFirst(batch)'
<1>0. /\ TypeInv /\ ParkedInv /\ LedgersOK
      /\ outbox \in Ledgers /\ nextSeq \in Nat
  BY KeptTypes DEF KeptInv, Ledgers
<1>1. CASE NoNewOp
  <2>1. \A s \in Held(outbox)' : s \in Held(outbox) /\ Same(s)
    BY <1>0, <1>1, NoNewOpSlides DEF Slide
  <2>2. CreatesFirst(outbox)'
    BY <1>0, <2>1 DEF CreatesFirst, Same, IsCreate
  <2>3. \/ batch' = batch
        \/ \A s \in Held(batch)' : s \in Held(outbox) /\ batch'[s] = outbox[s]
    BY <1>0, <1>1, CycleCopies
  <2>4. CreatesFirst(batch)'
    BY <1>0, <2>3 DEF CreatesFirst, IsCreate, Held
  <2> QED BY <2>2, <2>4
<1>2. ASSUME NEW e \in Entries, AddsOp(e), IsCreate(e) => e.id \notin ghost.minted
      PROVE  CreatesFirst(outbox)' /\ CreatesFirst(batch)'
  <2>1. batch' = batch
    BY <1>2 DEF AddsOp
  <2>2. \A s \in Held(outbox) : s < nextSeq /\ outbox[s].id \in ghost.minted /\ s \in Nat
    BY <1>0 DEF LedgersOK, Held, Seqs
  <2>3. ASSUME NEW s \in Held(outbox)'
        PROVE  \/ /\ s \in Held(outbox) /\ outbox'[s].id = outbox[s].id
                  /\ outbox'[s].op = outbox[s].op
               \/ s = nextSeq /\ outbox'[s] = e
    <3>1. CASE s \in MergeTargets(outbox, e) /\ outbox'[s] = Merged(outbox[s], e)
      <4>1. s \in Held(outbox) /\ outbox[s] \in Entries
        BY <1>0, <3>1, KeptTypes DEF MergeTargets, QueuedCreates, SameRowQueued, OfRow, InState
      <4> QED BY <3>1, <4>1, <1>2, MergedOp
    <3> QED BY <1>2, <3>1 DEF AddsOp
  <2>4. CreatesFirst(outbox)'
    <3> SUFFICES ASSUME NEW r \in Held(outbox)', NEW s \in Held(outbox)',
                        IsCreate(outbox'[r]), outbox'[s].id = outbox'[r].id
                 PROVE  r <= s
      BY DEF CreatesFirst
    <3>1. CASE r \in Held(outbox) /\ s \in Held(outbox)
      BY <1>0, <2>2, <2>3, <3>1 DEF CreatesFirst, IsCreate
    <3>2. CASE r = nextSeq /\ outbox'[r] = e /\ s \in Held(outbox)
      BY <1>2, <2>2, <2>3, <3>2 DEF IsCreate
    <3>3. CASE s = nextSeq
      <4>1. r \in Held(outbox) \/ r = nextSeq
        BY <2>3
      <4>2. r \in Nat /\ (r < nextSeq \/ r = nextSeq)
        BY <1>0, <2>2, <4>1
      <4> QED BY <1>0, <3>3, <4>2
    <3> QED BY <2>3, <3>1, <3>2, <3>3
  <2> QED BY <1>0, <2>1, <2>4 DEF CreatesFirst, Held
<1> QED BY <1>1, <1>2, OpsCome DEF Adds

-----------------------------------------------------------------------------
(* What the answers say                                                    *)

(* TrueAnswer, of an answer known now, after the step.                     *)
TrueAfter(s, answer) ==
  LET i == batch[s].id
  IN /\ answer.row # None =>
          /\ tomb'[i] = 0 \/ tomb'[i] > cursor'
          /\ srv'[i] # None => answer.row.at >= srv'[i].at \/ srv'[i].at > cursor'
     /\ answer.status \in Succeeded /\ batch[s].op = "delete" => srv'[i] = None
     /\ answer.status = "rejected" /\ IsCreate(batch[s])
          => srv'[i] = None \/ left'["discard"] = 0

GivesAnswer(answer) ==
  Working("live") /\ Finish("live", answer) /\ TrueAfter(HeadSeq("live"), answer)

KeepsRead == \E row : Working("live") /\ reqs' = [reqs EXCEPT !["live"].read = row]

(* Whatever the API answers is true.                                       *)
LEMMA ServerAnswers ==
  ASSUME Known3, ServerStep, reqs'["live"] # None
  PROVE  (\E answer : GivesAnswer(answer)) \/ KeepsRead
<1> USE DEF phoneVars, cycleVars, accountVars
<1>0. /\ TypeInv /\ TypeOK /\ RequestsOK /\ NoResurrection /\ NoResurrection'
      /\ clock \in Nat /\ srv \in Mirrors /\ reqs["late"] = None
      /\ \A k \in Lanes : Working(k) => k = "live"
  BY ResurrectionStep
     DEF Next, Known3, ResurrectionInv, TypeInv, TypeOK, OneRequest, Working, Lanes
<1>1. SUFFICES ASSUME Working("live"), reqs["live"] # None,
                      NEW e, e = HeadOp("live"), e \in Entries, e.id \in Ids,
                      e = batch[HeadSeq("live")]
               PROVE  (\E answer : GivesAnswer(answer)) \/ KeepsRead
  <2>1. Working("live")
    <3>1. \A k \in Lanes :
            SkipDependent(k) \/ RefuseOp(k) \/ ReadForCreate(k) \/ ReadForUpdate(k)
            \/ WriteCreate(k) \/ WriteUpdate(k) \/ WriteAborts(k) \/ DeleteRow(k)
              => Working(k)
      BY DEF SkipDependent, RefuseOp, ReadForCreate, ReadForUpdate, WriteCreate,
             WriteUpdate, WriteAborts, DeleteRow, Reads, Writes
    <3>2. ~LateEnds
      BY <1>0 DEF LateEnds
    <3>3. \E k \in Lanes : Working(k)
      BY <3>1, <3>2 DEF ServerStep
    <3> QED BY <1>0, <3>3
  <2>2. HeadOp("live") \in Entries /\ HeadOp("live").id \in Ids
    BY <1>0, <2>1, HeadTypes DEF Lanes, Entries
  <2>3. reqs["live"] # None /\ HeadOp("live") = batch[HeadSeq("live")]
    BY <1>0, <2>1 DEF Working, RequestsOK, HeadOp
  <2> QED BY <1>1, <2>1, <2>2, <2>3
<1>2. CASE SkipDependent("live")
  BY <1>1, <1>2 DEF SkipDependent, Answer, GivesAnswer, TrueAfter, Succeeded
<1>3. CASE RefuseOp("live")
  <2>1. PICK code \in Refusals : Finish("live", Refused(code))
    BY <1>3 DEF RefuseOp
  <2>2. left["refuse"] > 0 /\ left'["discard"] = left["discard"]
    BY <1>0, <1>3 DEF RefuseOp, Spend, TypeOK, EnvironmentActs
  <2>3. left'["discard"] = 0
    BY <2>2 DEF Known3, HonestInv, DiscardsOK
  <2>4. Refused(code).row = None /\ Refused(code).status = "rejected"
    BY DEF Refused, Answer
  <2>5. TrueAfter(HeadSeq("live"), Refused(code))
    BY <2>3, <2>4 DEF TrueAfter, Succeeded
  <2> QED BY <1>1, <2>1, <2>5 DEF GivesAnswer
<1>4. CASE ReadForCreate("live")
  <2>0. e.op = "create" /\ UNCHANGED <<srv, tomb, cursor, left>>
    BY <1>1, <1>4 DEF ReadForCreate
  <2>1. CASE srv[e.id] # None
    <3>1. Finish("live", Answer("alreadyApplied", srv[e.id], NoFields, "ok"))
      BY <1>1, <1>4, <2>1 DEF ReadForCreate
    <3>2. tomb[e.id] = 0 /\ srv[e.id].at \in Nat
      BY <1>0, <1>1, <2>1 DEF NoResurrection, Mirrors, Rows
    <3>3. TrueAfter(HeadSeq("live"), Answer("alreadyApplied", srv[e.id], NoFields, "ok"))
      BY <1>1, <2>0, <3>2 DEF TrueAfter, Answer
    <3> QED BY <1>1, <3>1, <3>3 DEF GivesAnswer
  <2>2. CASE srv[e.id] = None /\ AlreadyTombstoned(e.id)
    <3>1. Finish("live", Answer("alreadyApplied", None, NoFields, "ok"))
      BY <1>1, <1>4, <2>2 DEF ReadForCreate
    <3>2. TrueAfter(HeadSeq("live"), Answer("alreadyApplied", None, NoFields, "ok"))
      BY <1>1, <2>0, <2>2 DEF TrueAfter, Answer
    <3> QED BY <1>1, <3>1, <3>2 DEF GivesAnswer
  <2>3. CASE srv[e.id] = None /\ Finish("live", Refused("final"))
    <3>1. TrueAfter(HeadSeq("live"), Refused("final"))
      BY <1>1, <2>0, <2>3 DEF TrueAfter, Refused, Answer, Succeeded
    <3> QED BY <1>1, <2>3, <3>1 DEF GivesAnswer
  <2> QED BY <1>1, <1>4, <2>1, <2>2, <2>3 DEF ReadForCreate, KeepsRead
<1>5. CASE ReadForUpdate("live")
  <2>0. e.op = "update"
    BY <1>1, <1>5 DEF ReadForUpdate
  <2>1. ASSUME NEW code, Finish("live", Refused(code))
        PROVE  GivesAnswer(Refused(code))
    BY <1>1, <2>0, <2>1 DEF GivesAnswer, TrueAfter, Refused, Answer, Succeeded, IsCreate
  <2> QED BY <1>1, <1>5, <2>1 DEF ReadForUpdate, KeepsRead
<1>6. ASSUME NEW row \in Rows, NEW receipts, srv'[e.id] = row, e.op # "delete",
             Finish("live", Answer("applied", row, receipts, "ok"))
      PROVE  \E answer : GivesAnswer(answer)
  <2>1. row # None /\ row.at \in Nat
    BY RowAssumption DEF Rows
  <2>2. tomb'[e.id] = 0
    BY <1>0, <1>1, <1>6, <2>1 DEF NoResurrection
  <2>3. TrueAfter(HeadSeq("live"), Answer("applied", row, receipts, "ok"))
    BY <1>1, <1>6, <2>1, <2>2 DEF TrueAfter, Answer
  <2> QED BY <1>1, <1>6, <2>3 DEF GivesAnswer
<1>7. CASE WriteCreate("live")
  <2>1. e.fields \in OpFields /\ clock + 1 \in Nat
    BY <1>0, <1>1 DEF Entries
  <2>2. PICK row : row = [vals |-> Filled(e.fields), at |-> clock + 1]
    OBVIOUS
  <2>3. row \in Rows
    BY <2>1, <2>2, RowTypes DEF Rows
  <2>4. srv' = [srv EXCEPT ![e.id] = row] /\ e.op = "create"
        /\ Finish("live", Answer("applied", row, NoFields, "ok"))
    BY <1>1, <1>7, <2>2 DEF WriteCreate, Writes
  <2> QED BY <1>0, <1>1, <1>6, <2>3, <2>4 DEF Mirrors
<1>8. CASE WriteUpdate("live")
  <2>1. e.fields \in OpFields /\ clock + 1 \in Nat
        /\ srv[e.id].vals \in RowVals
    BY <1>0, <1>1, <1>8 DEF Entries, WriteUpdate, Mirrors, Rows
  <2>2. PICK row : row = [vals |-> Overlay(srv[e.id].vals, e.fields), at |-> clock + 1]
    OBVIOUS
  <2>3. row \in Rows
    BY <2>1, <2>2, OverlayTypes DEF Rows
  <2>4. srv' = [srv EXCEPT ![e.id] = row] /\ e.op = "update"
        /\ Finish("live", Answer("applied", row, Receipts(e, reqs["live"].read), "ok"))
    BY <1>1, <1>8, <2>2 DEF WriteUpdate, Writes
  <2> QED BY <1>0, <1>1, <1>6, <2>3, <2>4 DEF Mirrors
<1>9. CASE DeleteRow("live")
  <2>1. srv'[e.id] = None
    BY <1>0, <1>1, <1>9, RemovalMoves DEF DeleteRow
  <2>2. PICK status : Finish("live", Answer(status, None, NoFields, "ok")) /\ status \in Succeeded
    BY <1>9 DEF DeleteRow, Succeeded
  <2>3. TrueAfter(HeadSeq("live"), Answer(status, None, NoFields, "ok"))
    BY <1>1, <2>1, <2>2 DEF TrueAfter, Answer, Succeeded
  <2> QED BY <1>1, <2>2, <2>3 DEF GivesAnswer
<1>10. ~WriteAborts("live") /\ ~LateEnds
  BY <1>0 DEF WriteAborts, LateEnds, TypeOK, Lanes
<1>11. \A k \in Lanes :
         SkipDependent(k) \/ RefuseOp(k) \/ ReadForCreate(k) \/ ReadForUpdate(k)
         \/ WriteCreate(k) \/ WriteUpdate(k) \/ WriteAborts(k) \/ DeleteRow(k)
           => k = "live"
  <2>1. \A k \in Lanes :
          SkipDependent(k) \/ RefuseOp(k) \/ ReadForCreate(k) \/ ReadForUpdate(k)
          \/ WriteCreate(k) \/ WriteUpdate(k) \/ WriteAborts(k) \/ DeleteRow(k)
            => Working(k)
    BY DEF SkipDependent, RefuseOp, ReadForCreate, ReadForUpdate, WriteCreate,
           WriteUpdate, WriteAborts, DeleteRow, Reads, Writes
  <2> QED BY <1>0, <2>1
<1> QED BY <1>2, <1>3, <1>4, <1>5, <1>7, <1>8, <1>9, <1>10, <1>11 DEF ServerStep

(* What the environment may not do any more it never will.                 *)
LEMMA LeftFalls ==
  ASSUME TypeOK, [Next]_vars, NEW act \in EnvironmentActs, left[act] = 0
  PROVE  left'[act] = 0
<1>1. ASSUME NEW a \in EnvironmentActs, Spend(a)
      PROVE  left'[act] = 0
  BY <1>1 DEF Spend, TypeOK
<1>2. CASE UNCHANGED left
  BY <1>2
<1> QED
  BY <1>1, <1>2
  DEF EnvironmentActs, Next, UserStep, FlushStep, PullStep, ServerStep, WorldStep, vars,
      Create, UpdateText, UpdateRef, Update, Delete, Retry, Discard, Recreate, Reset,
      StartCycle, LoadBatch, Send, RequestFails, Reply, BatchDone, ApplySuccess, Shelve,
      Reread, ConfirmRow, ApplyRefusal, FetchPage, PullFails, LoadForRebase, ApplyPage,
      ApplyPageFails, SkipDependent, RefuseOp, ReadForCreate, ReadForUpdate, WriteCreate,
      WriteUpdate, WriteAborts, DeleteRow, LateEnds, Crash, ForeignEdit, ForeignDelete

(* A true answer stays true, but for the page, unless its row is made anew.*)
LEMMA StaysTrue ==
  ASSUME Known3, [Next]_vars, ~ApplyPage,
         NEW s \in Held(batch), NEW answer \in Answers, TrueAnswer(s, answer),
         batch[s].op = "delete" \/ IsCreate(batch[s]) => ~Makes(batch[s].id)
  PROVE  TrueAfter(s, answer)
<1>1. batch[s].id \in Ids /\ TypeOK
  BY DEF Known3, ResurrectionInv, TypeInv, TypeOK, Held, Outboxes, Entries
<1>2. srv[batch[s].id] = None /\ (batch[s].op = "delete" \/ IsCreate(batch[s]))
        => srv'[batch[s].id] = None
  BY <1>1, MadeLive
<1>3. left["discard"] = 0 => left'["discard"] = 0
  BY <1>1, LeftFalls DEF EnvironmentActs
<1>4. answer.row # None =>
        /\ tomb'[batch[s].id] = 0 \/ tomb'[batch[s].id] > cursor'
        /\ srv'[batch[s].id] # None => answer.row.at >= srv'[batch[s].id].at
                                       \/ srv'[batch[s].id].at > cursor'
  <2>1. answer.row # None => answer.row \in Rows /\ NewEnough(answer.row, batch[s].id)
    BY DEF TrueAnswer, Answers
  <2> QED BY <1>1, <2>1, StaysNewEnough
<1> QED BY <1>2, <1>3, <1>4 DEF TrueAnswer, TrueAfter

(* No row of a delete or a create that has been answered is made again.    *)
LEMMA NotMadeAgain ==
  ASSUME Known3, NEW s, batch[s].op = "delete" \/ IsCreate(batch[s]),
         \/ s \in Held(answers)
         \/ reqs["live"] # None /\ s \in Held(reqs["live"].answers)
  PROVE  ~Makes(batch[s].id)
<1> SUFFICES ASSUME Makes(batch[s].id)
             PROVE  FALSE
  OBVIOUS
<1>0. TypeInv /\ CycleOK /\ RequestsOK
  BY DEF Known3, ResurrectionInv, TypeInv
<1>1. /\ WriteCreate("live") /\ Working("live") /\ reqs["live"] # None
      /\ HeadOp("live").id = batch[s].id /\ HeadOp("live").op = "create"
  BY DEF Makes, WriteCreate, Writes, Working
<1>2. pc = "sent" /\ reqs["live"].batch = batch
  BY <1>0, <1>1 DEF RequestsOK
<1>3. s \in Held(reqs["live"].answers) /\ s \in Held(batch) /\ s \in Nat
  BY <1>0, <1>1, <1>2 DEF CycleOK, InResult, RequestsOK, Held, Lanes, Seqs
<1>4. /\ HeadSeq("live") \in reqs["live"].todo /\ HeadSeq("live") \in Held(batch)
      /\ HeadSeq("live") \in Nat /\ IsCreate(batch[HeadSeq("live")])
      /\ batch[HeadSeq("live")].id = batch[s].id
  BY <1>0, <1>1, <1>2, HeadTypes DEF Lanes, HeadOp, IsCreate, Seqs
<1>5. s < HeadSeq("live")
  BY <1>1, <1>3, <1>4 DEF Known3, HonestInv, AnsweredInOrder
<1>6. HeadSeq("live") <= s
  <2>1. CASE batch[s].op = "delete"
    BY <1>3, <1>4 DEF Known3, HonestInv, CreatesFirst
  <2>2. CASE IsCreate(batch[s])
    <3>1. batch \in Ledgers
      BY DEF Ledgers
    <3>2. s = HeadSeq("live")
      BY <1>3, <1>4, <2>2, <3>1 DEF Known3, KeptInv, OneCreate
    <3> QED BY <1>3, <3>2
  <2> QED BY <2>1, <2>2
<1> QED BY <1>3, <1>4, <1>5, <1>6

(* Where the answers and the ops of the live request come from.            *)
LEMMA LiveCase ==
  ASSUME Known3, [Next]_vars, reqs'["live"] # None
  PROVE  \/ Held(reqs'["live"].answers) = {}
         \/ /\ reqs["live"] # None /\ batch' = batch
            /\ reqs'["live"].answers = reqs["live"].answers
            /\ reqs'["live"].todo = reqs["live"].todo
         \/ /\ reqs["live"] # None /\ batch' = batch
            /\ \E answer : GivesAnswer(answer)
<1> USE DEF cycleVars
<1>0. TypeInv /\ TypeOK /\ RequestsOK /\ RequestsOK'
  BY NextTypes DEF Known3, ResurrectionInv, TypeInv
<1>1. CASE ServerStep
  <2>1. batch' = batch
    BY <1>1 DEF ServerStep, SkipDependent, RefuseOp, ReadForCreate, ReadForUpdate,
                WriteCreate, WriteUpdate, WriteAborts, DeleteRow, LateEnds
  <2>2. CASE \E answer : GivesAnswer(answer)
    BY <2>1, <2>2 DEF GivesAnswer, Working
  <2>3. CASE KeepsRead
    <3>1. reqs["live"] \in Requests /\ reqs["live"] # None
      BY <1>0, <2>3, HeadTypes DEF KeepsRead, Lanes, Working
    <3>2. /\ reqs'["live"].answers = reqs["live"].answers
          /\ reqs'["live"].todo = reqs["live"].todo
      BY <1>0, <2>3, <3>1 DEF KeepsRead, TypeOK, Requests, Lanes
    <3> QED BY <2>1, <3>1, <3>2
  <2> QED BY <1>1, <2>2, <2>3, ServerAnswers
<1>2. CASE NoNewOp /\ ~ServerStep
  <2>1. \/ Send /\ reqs'["live"].answers = NoOps
        \/ reqs["live"] # None /\ reqs'["live"] = reqs["live"]
    BY <1>0, <1>2, OtherMoves DEF Lanes
  <2>2. CASE reqs["live"] # None /\ reqs'["live"] = reqs["live"]
    BY <1>0, <2>2 DEF RequestsOK
  <2> QED BY <2>1, <2>2 DEF NoOps, Held
<1>3. CASE UNCHANGED <<reqs, batch>>
  BY <1>3
<1> QED BY <1>1, <1>2, <1>3, OpsCome DEF Known3, Adds, AddsOp

(* How recording an answer changes the live request.                       *)
LEMMA Recorded ==
  ASSUME TypeInv, Working("live"), NEW answer, Finish("live", answer)
  PROVE  /\ reqs["live"] # None /\ HeadSeq("live") \in Held(batch)
         /\ HeadSeq("live") \in reqs["live"].todo /\ HeadOp("live") = batch[HeadSeq("live")]
         /\ reqs'["live"].todo = reqs["live"].todo \ {HeadSeq("live")}
         /\ reqs'["live"].answers = [reqs["live"].answers EXCEPT ![HeadSeq("live")] = answer]
         /\ reqs["live"].answers \in [Seqs -> Answers \cup {None}]
<1>1. TypeOK /\ "live" \in Lanes
  BY DEF TypeInv, Lanes
<1>2. /\ reqs["live"] \in Requests /\ reqs["live"] # None
      /\ HeadSeq("live") \in reqs["live"].todo /\ HeadSeq("live") \in Held(reqs["live"].batch)
  BY <1>1, HeadTypes DEF Working
<1>3. /\ reqs'["live"].todo = reqs["live"].todo \ {HeadSeq("live")}
      /\ reqs'["live"].answers = [reqs["live"].answers EXCEPT ![HeadSeq("live")] = answer]
  BY <1>1, <1>2 DEF Finish, TypeOK, Requests
<1>4. reqs["live"].batch = batch
  BY <1>2 DEF TypeInv, RequestsOK
<1> QED BY <1>2, <1>3, <1>4 DEF Requests, HeadOp

(* The API answers the first op it has not answered yet.                   *)
LEMMA GivenAnswer ==
  ASSUME Known3, NEW answer, GivesAnswer(answer)
  PROVE  /\ reqs["live"] # None /\ HeadSeq("live") \in Held(batch)
         /\ \A r \in reqs["live"].todo : HeadSeq("live") <= r
         /\ HeadSeq("live") \in Nat /\ reqs["live"].todo \subseteq Nat
         /\ HeadSeq("live") \in reqs["live"].todo
         /\ reqs'["live"].todo = reqs["live"].todo \ {HeadSeq("live")}
         /\ reqs'["live"].answers = [reqs["live"].answers EXCEPT ![HeadSeq("live")] = answer]
         /\ reqs["live"].answers \in [Seqs -> Answers \cup {None}]
<1>1. TypeInv /\ Working("live") /\ Finish("live", answer)
  BY DEF Known3, ResurrectionInv, GivesAnswer
<1>2. reqs["live"].todo \in SUBSET Nat /\ reqs["live"].todo # {}
  BY <1>1, HeadTypes DEF Requests, Seqs, Lanes
<1>3. \A r \in reqs["live"].todo : HeadSeq("live") <= r
  BY <1>2, FirstIsIn DEF HeadSeq
<1> QED BY <1>1, <1>2, <1>3, Recorded

(* The API answers in order.                                               *)
LEMMA OrderKept ==
  ASSUME Known3, [Next]_vars
  PROVE  AnsweredInOrder'
<1> SUFFICES ASSUME reqs'["live"] # None,
                    NEW s \in Held(reqs'["live"].answers), NEW r \in reqs'["live"].todo
             PROVE  s < r
  BY DEF AnsweredInOrder
<1>1. CASE /\ reqs["live"] # None
           /\ reqs'["live"].answers = reqs["live"].answers
           /\ reqs'["live"].todo = reqs["live"].todo
  BY <1>1 DEF Known3, HonestInv, AnsweredInOrder, Held
<1>2. ASSUME NEW answer, GivesAnswer(answer)
      PROVE  s < r
  <2>1. /\ r \in reqs["live"].todo /\ r # HeadSeq("live") /\ HeadSeq("live") <= r
        /\ r \in Nat /\ HeadSeq("live") \in Nat /\ reqs["live"] # None
    BY <1>2, GivenAnswer
  <2>2. s \in Held(reqs["live"].answers) \/ s = HeadSeq("live")
    BY <1>2, GivenAnswer DEF Held
  <2> QED BY <2>1, <2>2 DEF Known3, HonestInv, AnsweredInOrder
<1> QED BY <1>1, <1>2, LiveCase DEF Held

(* The batch is kept while there are answers.                              *)
LEMMA BatchWithAnswers ==
  ASSUME TypeInv, [Next]_vars
  PROVE  \/ batch' = batch
         \/ Held(answers)' = {} /\ reqs'["live"] = None
<1> USE DEF cycleVars, phoneVars
<1>0. TypeOK /\ CycleOK /\ RequestsOK
  BY DEF TypeInv
<1>1. CASE LoadBatch \/ BatchDone \/ RequestFails \/ Crash
  BY <1>0, <1>1
     DEF LoadBatch, BatchDone, RequestFails, Crash, TypeOK, CycleOK, RequestsOK, NoOps, Held,
         InResult, Lanes
<1> QED
  BY <1>1
  DEF Next, UserStep, FlushStep, PullStep, ServerStep, WorldStep, vars,
      Create, UpdateText, UpdateRef, Update, Delete, Retry, Discard, Recreate, Reset,
      StartCycle, Send, Reply, ApplySuccess, Shelve,
      Reread, ConfirmRow, ApplyRefusal, FetchPage, PullFails, LoadForRebase, ApplyPage,
      ApplyPageFails, SkipDependent, RefuseOp, ReadForCreate, ReadForUpdate, WriteCreate,
      WriteUpdate, WriteAborts, DeleteRow, LateEnds, ForeignEdit, ForeignDelete

(* What the account has answered stays true until it is applied.           *)
LEMMA AnswersStayTrue ==
  ASSUME Known3, [Next]_vars
  PROVE  AnswersTrue'
<1>0. /\ TypeInv /\ TypeOK /\ CycleOK /\ RequestsOK /\ AnswersTrue
      /\ TypeOK' /\ RequestsOK' /\ CycleOK'
  BY NextTypes DEF Known3, ResurrectionInv, TypeInv, HonestInv
<1>1. CASE ApplyPage
  <2>1. pc = "merge" /\ UNCHANGED <<answers, reqs>>
    BY <1>1 DEF ApplyPage
  <2>2. Held(answers) = {} /\ reqs["live"] = None
    BY <1>0, <2>1 DEF CycleOK, RequestsOK, InResult
  <2> QED BY <2>1, <2>2 DEF AnswersTrue, Held
<1>2. ASSUME ~ApplyPage, batch' = batch
      PROVE  AnswersTrue'
  <2>1. ASSUME NEW s, NEW a,
               \/ s \in Held(answers) /\ a = answers[s]
               \/ /\ reqs["live"] # None /\ s \in Held(reqs["live"].answers)
                  /\ a = reqs["live"].answers[s]
        PROVE  TrueAfter(s, a)
    <3>1. TrueAnswer(s, a) /\ s \in Held(batch)
      BY <1>0, <2>1 DEF AnswersTrue, CycleOK, RequestsOK, Lanes
    <3>2. a \in Answers
      BY <1>0, <2>1 DEF TypeOK, Requests, Held, Lanes
    <3>3. batch[s].op = "delete" \/ IsCreate(batch[s]) => ~Makes(batch[s].id)
      BY <2>1, NotMadeAgain
    <3> QED BY <1>2, <3>1, <3>2, <3>3, StaysTrue
  <2>2. ASSUME NEW s \in Held(answers)'
        PROVE  TrueAfter(s, answers'[s])
    <3>1. CASE NoNewOp
      BY <1>0, <2>1, <3>1, AnswersCome
    <3>2. CASE answers' = answers
      BY <2>1, <3>2 DEF Held
    <3> QED BY <3>1, <3>2, OpsCome DEF Known3, Adds, AddsOp
  <2>3. ASSUME reqs'["live"] # None, NEW s \in Held(reqs'["live"].answers)
        PROVE  TrueAfter(s, reqs'["live"].answers[s])
    <3>1. CASE reqs["live"] # None /\ reqs'["live"].answers = reqs["live"].answers
      BY <2>1, <2>3, <3>1
    <3>2. ASSUME NEW answer, GivesAnswer(answer)
          PROVE  TrueAfter(s, reqs'["live"].answers[s])
      <4>1. CASE s = HeadSeq("live")
        <5>1. s \in Seqs
          BY <2>3 DEF Held
        <5>2. /\ reqs'["live"].answers = [reqs["live"].answers EXCEPT ![HeadSeq("live")] = answer]
              /\ reqs["live"].answers \in [Seqs -> Answers \cup {None}]
          BY <3>2, GivenAnswer
        <5>3. reqs'["live"].answers[s] = answer
          BY <4>1, <5>1, <5>2
        <5> QED BY <3>2, <4>1, <5>3 DEF GivesAnswer
      <4>2. CASE s # HeadSeq("live")
        <5>1. reqs'["live"].answers[s] = reqs["live"].answers[s] /\ reqs["live"] # None
              /\ s \in Held(reqs["live"].answers)
          BY <2>3, <3>2, <4>2, GivenAnswer DEF Held
        <5> QED BY <2>1, <5>1
      <4> QED BY <4>1, <4>2
    <3> QED BY <2>3, <3>1, <3>2, LiveCase
  <2>4. \A s \in Held(answers)' : TrueAnswer(s, answers[s])'
    BY <1>2, <2>2 DEF TrueAfter, TrueAnswer, NewEnough
  <2>5. reqs'["live"] # None =>
          \A s \in Held(reqs["live"].answers)' : TrueAnswer(s, reqs["live"].answers[s])'
    BY <1>2, <2>3 DEF TrueAfter, TrueAnswer, NewEnough, Held
  <2> QED BY <2>4, <2>5 DEF AnswersTrue
<1>3. CASE Held(answers)' = {} /\ reqs'["live"] = None
  BY <1>3 DEF AnswersTrue
<1> QED BY <1>0, <1>1, <1>2, <1>3, BatchWithAnswers

-----------------------------------------------------------------------------
(* What a discard takes                                                    *)

(* An op is parked by its refusal, or when a page says its row is gone.    *)
LEMMA ParksFrom ==
  ASSUME Known3, [Next]_vars, NEW s \in Held(outbox)', Parked(outbox'[s])
  PROVE  /\ s \in Held(outbox) /\ SameOp(s)
         /\ \/ Parked(outbox[s])
            \/ ApplyPage /\ outbox[s].id \in page.dead
            \/ ApplyRefusal /\ s = Cur /\ Result.status = "rejected" /\ s \in Held(answers)
<1> USE DEF phoneVars
<1>0. /\ ParkedInv /\ TypeInv /\ TypeOK
      /\ \A r \in Held(outbox) : outbox[r] \in Entries
  BY KeptTypes DEF Known3, KeptInv
<1>1. CASE UserStep
  <2>1. UserMove(s)
    BY <1>0, <1>1, UserMoveStep
  <2> QED BY <2>1 DEF UserMove, Parked, Held
<1>2. CASE StartCycle \/ Send \/ RequestFails
  <2>1. /\ s \in Held(outbox)
        /\ \/ outbox'[s] = outbox[s]
           \/ outbox'[s] = [outbox[s] EXCEPT !.state = "queued"]
           \/ outbox'[s] = [outbox[s] EXCEPT !.state = "inflight", !.sent = TRUE]
    <3>1. CASE StartCycle
      BY <3>1 DEF StartCycle, InState, Held
    <3>2. CASE Send
      BY <3>2 DEF Send, Held
    <3>3. CASE RequestFails
      BY <3>3 DEF RequestFails, Held
    <3> QED BY <1>2, <3>1, <3>2, <3>3
  <2>2. outbox[s] \in Entries
    BY <1>0, <2>1
  <2> QED BY <2>1, <2>2 DEF SameOp, Parked, Entries
<1>3. CASE ApplySuccess
  <2>1. outbox'[s] = outbox[s] /\ s \in Held(outbox)
    BY <1>0, <1>3 DEF ApplySuccess, Held, TypeOK, Outboxes
  <2> QED BY <2>1 DEF SameOp
<1>4. CASE ApplyRefusal
  <2>1. Cur \in Held(answers) /\ Cur \in Seqs
    BY <1>0, <1>4, CurTypes DEF ApplyRefusal
  <2>2. CASE s # Cur
    <3>1. outbox'[s] = outbox[s] /\ s \in Held(outbox)
      BY <1>0, <1>4, <2>2 DEF ApplyRefusal, Held, TypeOK, Outboxes
    <3> QED BY <3>1 DEF SameOp
  <2>3. CASE s = Cur
    <3>1. PICK dayOver \in BOOLEAN :
            outbox' = [outbox EXCEPT ![Cur] =
                   IF @ = None THEN None
                   ELSE IF Result.status = "dependencyFailed"
                   THEN [@ EXCEPT !.state = "queued"]
                   ELSE Park(@, Result.code, dayOver)]
      BY <1>4 DEF ApplyRefusal
    <3>2. outbox[s] # None /\ s \in Held(outbox)
      BY <1>0, <2>1, <2>3, <3>1 DEF Held, TypeOK, Outboxes
    <3>3. outbox'[s] = IF Result.status = "dependencyFailed"
                       THEN [outbox[s] EXCEPT !.state = "queued"]
                       ELSE Park(outbox[s], Result.code, dayOver)
      BY <1>0, <2>1, <2>3, <3>1, <3>2 DEF TypeOK, Outboxes
    <3>4. Result.status = "rejected"
      BY <1>0, <1>4, <3>2, <3>3 DEF ApplyRefusal, Parked, Entries
    <3>5. SameOp(s)
      BY <1>0, <3>2, <3>3, <3>4 DEF SameOp, Park, Entries
    <3> QED BY <1>4, <2>1, <2>3, <3>2, <3>4, <3>5
  <2> QED BY <2>2, <2>3
<1>5. CASE ApplyPage
  <2>1. outbox' = Orphaned(outbox, page.dead)
    BY <1>5 DEF ApplyPage
  <2>2. s \in Held(outbox) /\ (outbox[s].id \notin page.dead => outbox'[s] = outbox[s])
    BY <2>1 DEF Orphaned, Held
  <2>3. SameOp(s)
    BY <1>0, <2>1, <2>2 DEF Orphaned, SameOp, Entries, Held
  <2> QED BY <1>5, <2>2, <2>3
<1>6. CASE UNCHANGED outbox
  BY <1>6 DEF Held, SameOp
<1> QED
  BY <1>1, <1>2, <1>3, <1>4, <1>5, <1>6
  DEF Next, FlushStep, PullStep, ServerStep, WorldStep, vars, LoadBatch, Reply, BatchDone,
      Shelve, Reread, ConfirmRow, FetchPage, PullFails, LoadForRebase,
      ApplyPageFails, SkipDependent, RefuseOp, ReadForCreate, ReadForUpdate, WriteCreate,
      WriteUpdate, WriteAborts, DeleteRow, LateEnds, Crash, ForeignEdit, ForeignDelete

(* What may be discarded stays off the account.                            *)
LEMMA DiscardsKept ==
  ASSUME Known3, [Next]_vars
  PROVE  DiscardsOK'
<1> USE DEF accountVars
<1>0. /\ KeptInv /\ ParkedInv /\ TypeInv /\ TypeOK /\ CycleOK /\ RequestsOK /\ NoResurrection
      /\ BatchState /\ BatchIsOutbox
      /\ \A r \in Held(outbox) : outbox[r] \in Entries /\ outbox[r].id \in Ids
  BY KeptTypes DEF Known3, KeptInv, ParkedInv, TypeInv, ResurrectionInv
<1>1. CASE left["discard"] = 0
  <2>1. left'["discard"] = 0
    BY <1>0, <1>1, LeftFalls DEF EnvironmentActs
  <2> QED BY <2>1 DEF DiscardsOK
<1>2. CASE left["discard"] # 0
  <2>1. left'["refuse"] = 0
    <3>1. left["refuse"] = 0
      BY <1>2 DEF Known3, HonestInv, DiscardsOK
    <3> QED BY <1>0, <3>1, LeftFalls DEF EnvironmentActs
  <2>2. ASSUME NEW s \in Held(outbox)', Parked(outbox'[s]), IsCreate(outbox'[s])
        PROVE  srv'[outbox'[s].id] = None
    <3>1. /\ s \in Held(outbox) /\ SameOp(s)
          /\ \/ Parked(outbox[s])
             \/ ApplyPage /\ outbox[s].id \in page.dead
             \/ ApplyRefusal /\ s = Cur /\ Result.status = "rejected" /\ s \in Held(answers)
      BY <2>2, ParksFrom
    <3>2. IsCreate(outbox[s]) /\ outbox'[s].id = outbox[s].id /\ outbox[s].id \in Ids
      BY <1>0, <2>2, <3>1 DEF SameOp, IsCreate
    <3>3. CASE Parked(outbox[s])
      <4>1. srv[outbox[s].id] = None
        BY <1>2, <3>1, <3>2, <3>3 DEF Known3, HonestInv, DiscardsOK
      <4>2. ASSUME Makes(outbox[s].id)
            PROVE  FALSE
        <5>1. /\ Working("live") /\ reqs["live"] # None /\ IsCreate(HeadOp("live"))
              /\ HeadOp("live").id = outbox[s].id
          BY <4>2 DEF Makes, WriteCreate, Writes, Working, IsCreate
        <5>2. s = HeadSeq("live")
          BY <1>0, <3>1, <3>2, <5>1, HeadCreate DEF Lanes
        <5>3. s \in Held(reqs["live"].batch)
          BY <1>0, <5>1, <5>2, HeadTypes DEF Lanes
        <5>4. pc = "sent" /\ s \in Held(batch)
          BY <1>0, <5>1, <5>3 DEF RequestsOK
        <5>5. outbox[s].state = "inflight"
          BY <1>0, <3>1, <5>4 DEF BatchState
        <5> QED BY <3>3, <5>5 DEF Parked
      <4> QED BY <3>2, <4>1, <4>2, MadeLive
    <3>4. CASE ApplyPage /\ outbox[s].id \in page.dead
      <4>1. tomb[outbox[s].id] # 0
        BY <3>4 DEF Known3, HonestInv, PageOK, ApplyPage
      <4> QED BY <1>0, <3>2, <3>4, <4>1 DEF NoResurrection, ApplyPage
    <3>5. CASE ApplyRefusal /\ s = Cur /\ Result.status = "rejected" /\ s \in Held(answers)
      <4>1. s \in Held(batch)
        BY <1>0, <3>5 DEF CycleOK
      <4>2. IsCreate(batch[s]) /\ batch[s].id = outbox[s].id
        BY <1>0, <3>1, <3>2, <4>1 DEF BatchIsOutbox, IsCreate
      <4>3. TrueAnswer(s, answers[s])
        BY <3>5 DEF Known3, HonestInv, AnswersTrue
      <4>4. srv[outbox[s].id] = None
        BY <1>2, <3>5, <4>2, <4>3 DEF TrueAnswer, Result
      <4> QED BY <3>2, <3>5, <4>4 DEF ApplyRefusal
    <3> QED BY <3>1, <3>3, <3>4, <3>5
  <2> QED BY <2>1, <2>2 DEF DiscardsOK
<1> QED BY <1>1, <1>2

-----------------------------------------------------------------------------
(* The page in hand                                                        *)

(* Only a resync is remembered as one, and nothing forgets it.             *)
LEMMA ResetRemembered ==
  ASSUME Known3, [Next]_vars
  PROVE  \/ ghost'.resetMidPull = ghost.resetMidPull
         \/ /\ Reset
            /\ ghost'.resetMidPull = (ghost.resetMidPull \/ pc \in {"fetched", "merge"})
<1>0. ghost \in Ghosts
  BY DEF Known3, ResurrectionInv, TypeInv, TypeOK
<1>1. ASSUME NEW e, NEW owed, NEW gone, Remember(e, owed, gone)
      PROVE  ghost'.resetMidPull = ghost.resetMidPull
  BY <1>0, <1>1 DEF Remember, Ghosts
<1>2. CASE \E i \in Ids : Create(i) \/ UpdateText(i) \/ UpdateRef(i) \/ Delete(i)
  BY <1>1, <1>2 DEF Create, UpdateText, UpdateRef, Update, Delete
<1>3. CASE \E s \in Seqs : Discard(s) \/ \E i \in Places : Recreate(s, i)
  <2>1. ASSUME NEW s \in Seqs, Discard(s)
        PROVE  ghost'.resetMidPull = ghost.resetMidPull
    BY <1>0, <2>1 DEF Discard, Ghosts
  <2>2. ASSUME NEW s \in Seqs, NEW i \in Places, Recreate(s, i)
        PROVE  ghost'.resetMidPull = ghost.resetMidPull
    BY <1>0, <2>2 DEF Recreate, Ghosts
  <2> QED BY <1>3, <2>1, <2>2
<1>4. CASE Reset
  BY <1>0, <1>4 DEF Reset, Ghosts
<1>5. CASE RequestFails \/ Crash
  BY <1>0, <1>5 DEF RequestFails, Crash, Ghosts
<1>6. CASE ConfirmRow \/ ApplyPage
  BY <1>0, <1>6 DEF ConfirmRow, ApplyPage, Look, Ghosts
<1>7. CASE ServerStep \/ \E i \in Ids : ForeignEdit(i)
  BY <1>0, <1>7
     DEF ServerStep, SkipDependent, RefuseOp, ReadForCreate, ReadForUpdate, WriteCreate,
         WriteUpdate, WriteAborts, DeleteRow, LateEnds, ForeignEdit, Ghosts
<1>8. CASE ghost' = ghost
  BY <1>8
<1> QED
  BY <1>2, <1>3, <1>4, <1>5, <1>6, <1>7, <1>8
  DEF Next, UserStep, FlushStep, PullStep, WorldStep, vars, Retry,
      StartCycle, LoadBatch, Send, Reply, BatchDone, ApplySuccess, Shelve,
      Reread, ApplyRefusal, FetchPage, PullFails, LoadForRebase, ApplyPageFails, ForeignDelete

(* A page in hand has been asked for, or was in hand before.               *)
LEMMA PageFrom ==
  ASSUME [Next]_vars, pc' \in {"fetched", "merge"}
  PROVE  \/ FetchPage
         \/ pc \in {"fetched", "merge"} /\ page' = page /\ ~ApplyPage
<1> USE DEF cycleVars
<1>0. ~ApplyPage
  BY DEF ApplyPage
<1>1. CASE UserStep
  <2>1. ASSUME NEW i \in Ids, Create(i) \/ UpdateText(i) \/ UpdateRef(i) \/ Delete(i)
        PROVE  UNCHANGED cycleVars
    BY <2>1 DEF Create, UpdateText, UpdateRef, Update, Delete
  <2>2. ASSUME NEW s \in Seqs, Retry(s) \/ Discard(s) \/ \E i \in Places : Recreate(s, i)
        PROVE  UNCHANGED cycleVars
    BY <2>2 DEF Retry, Discard, Recreate
  <2>3. Reset => UNCHANGED cycleVars
    BY DEF Reset
  <2> QED BY <1>0, <1>1, <2>1, <2>2, <2>3 DEF UserStep
<1>2. CASE FlushStep
  BY <1>2
     DEF FlushStep, StartCycle, LoadBatch, Send, RequestFails, Reply, BatchDone,
         ApplySuccess, Shelve, AfterShelving, NextResult, Reread, ConfirmRow, ApplyRefusal
<1>3. CASE UNCHANGED vars \/ FetchPage \/ PullFails \/ LoadForRebase
  BY <1>0, <1>3 DEF vars, FetchPage, PullFails, LoadForRebase
<1>4. ~ApplyPageFails
  BY DEF ApplyPageFails
<1>5. CASE ServerStep \/ WorldStep
  BY <1>0, <1>5
     DEF ServerStep, WorldStep, SkipDependent, RefuseOp, ReadForCreate, ReadForUpdate,
         WriteCreate, WriteUpdate, WriteAborts, DeleteRow, LateEnds, Crash, ForeignEdit,
         ForeignDelete
<1> QED BY <1>0, <1>1, <1>2, <1>3, <1>4, <1>5 DEF Next, PullStep

(* The page keeps its word while it is in hand.                            *)
LEMMA PageKept ==
  ASSUME Known3, [Next]_vars
  PROVE  PageOK'
<1> USE DEF accountVars, phoneVars
<1>0. /\ TypeOK /\ TypeOK' /\ CycleOK /\ CycleOK' /\ NoResurrection /\ AccountMoves
      /\ clock \in Nat /\ cursor \in Nat /\ srv \in Mirrors /\ tomb \in [Ids -> Nat]
      /\ srv' \in Mirrors /\ tomb' \in [Ids -> Nat]
  BY NextTypes, MadeLive DEF Known3, ResurrectionInv, TypeInv, TypeOK
<1>1. CASE FetchPage
  <2>1. page' = DeltaSince(cursor) /\ UNCHANGED <<srv, tomb, clock, cursor>>
    BY <1>1 DEF FetchPage
  <2>2. /\ page'.at = clock
        /\ page'.dead = {i \in Ids : tomb[i] > cursor /\ srv[i] = None}
        /\ \A i \in Ids : page'.rows[i] = IF srv[i] # None /\ srv[i].at > cursor
                                          THEN srv[i] ELSE None
    BY <2>1 DEF DeltaSince
  <2>3. \A i \in page'.dead : tomb'[i] # 0
    BY <1>0, <2>1, <2>2
  <2>4. ASSUME NEW i \in Ids
        PROVE  PageBrings(i)'
    <3>1. srv[i] # None => srv[i].at \in Nat /\ tomb[i] = 0
      BY <1>0 DEF Mirrors, Rows, NoResurrection
    <3>2. tomb[i] \in Nat
      BY <1>0
    <3> QED BY <1>0, <2>1, <2>2, <3>1, <3>2 DEF PageBrings
  <2> QED BY <1>0, <2>1, <2>2, <2>3, <2>4 DEF PageOK
<1>2. CASE pc \in {"fetched", "merge"} /\ page' = page /\ ~ApplyPage
  <2>1. page \in Pages /\ page.at \in Nat /\ page.at <= clock /\ page.dead \subseteq Ids
        /\ \A i \in page.dead : tomb[i] # 0
    BY <1>0, <1>2 DEF CycleOK, Pages, Known3, HonestInv, PageOK
  <2>2. ASSUME NEW i \in Ids
        PROVE  /\ tomb[i] \in Nat
               /\ tomb'[i] = tomb[i] \/ tomb'[i] > page.at
               /\ srv'[i] = srv[i] \/ srv'[i] = None \/ srv'[i].at > page.at
    BY <1>0, <2>1 DEF AccountMoves
  <2>3. page.at <= clock'
    BY <1>0, <2>1 DEF AccountMoves
  <2>4. \A i \in page.dead : tomb'[i] # 0
    BY <2>1, <2>2
  <2>5. ASSUME ~ghost'.resetMidPull
        PROVE  /\ cursor' = cursor
               /\ \A i \in Ids : PageBrings(i)
    <3>1. ~Reset /\ ~ghost.resetMidPull
      BY <1>0, <1>2, <2>5, ResetRemembered DEF Reset, TypeOK, Ghosts
    <3> QED BY <1>2, <3>1, CursorMoves DEF Known3, HonestInv, PageOK
  <2>6. ASSUME ~ghost'.resetMidPull, NEW i \in Ids
        PROVE  PageBrings(i)'
    <3>1. PageBrings(i) /\ cursor' = cursor
      BY <2>5, <2>6
    <3>2. srv'[i] # None => srv'[i].at \in Nat
      BY <1>0 DEF Mirrors, Rows
    <3>3. srv'[i] # None /\ srv'[i].at <= page.at
            => page.rows[i] = srv'[i] \/ (page.rows[i] = None /\ srv'[i].at <= cursor)
      BY <2>1, <2>2, <3>1, <3>2 DEF PageBrings
    <3>4. tomb'[i] \in 1 .. page.at => i \in page.dead \/ tomb'[i] <= cursor
      BY <2>1, <2>2, <3>1 DEF PageBrings
    <3>5. page.rows[i] # None => tomb'[i] = 0 \/ tomb'[i] > page.at
      BY <2>1, <2>2, <3>1 DEF PageBrings
    <3> QED BY <1>2, <3>1, <3>3, <3>4, <3>5 DEF PageBrings
  <2> QED BY <1>2, <2>3, <2>4, <2>6 DEF PageOK
<1>3. CASE pc' \notin {"fetched", "merge"}
  BY <1>3 DEF PageOK
<1> QED BY <1>1, <1>2, <1>3, PageFrom

-----------------------------------------------------------------------------
(* The rows of the mirror                                                  *)

(* A step leaves row i at its version, with its delete pending if one was; *)
(* or takes it out, with its delete pending or the account's row gone; or  *)
(* the account never had it; or it comes from the account.                 *)
SameVersion(i) ==
  /\ mirror'[i] = None <=> mirror[i] = None
  /\ mirror[i] # None => mirror'[i].at = mirror[i].at

KeepsDelete(i) == PendingDelete(i) => PendingDelete(i)' \/ srv[i] = None

RowMove(i) ==
  \/ SameVersion(i) /\ KeepsDelete(i)
  \/ mirror'[i] = None /\ (PendingDelete(i)' \/ srv[i] = None)
  \/ NeverThere(i)
  \/ mirror'[i] # None /\ NewEnough(mirror'[i], i)

(* So it stays honest.                                                     *)
LEMMA RowStays ==
  ASSUME Known3, [Next]_vars, cursor' = cursor, NEW i \in Ids, RowHonest(i), RowMove(i)
  PROVE  RowHonest(i)'
<1>0. /\ AccountMoves /\ cursor \in Nat /\ clock \in Nat /\ cursor <= clock
      /\ tomb[i] \in Nat /\ tomb'[i] \in Nat
      /\ srv[i] # None => srv[i].at \in Nat
      /\ srv'[i] # None => srv'[i].at \in Nat
  <2>1. TypeOK /\ TypeOK' /\ TimesOK
    BY NextTypes DEF Known3, ResurrectionInv, TypeInv, HonestInv
  <2> QED BY <2>1, MadeLive DEF TypeOK, TimesOK, Mirrors, Rows
<1>1. tomb'[i] \in 1 .. cursor => tomb'[i] = tomb[i]
  BY <1>0 DEF AccountMoves
<1>2. srv'[i] # None /\ srv'[i].at <= cursor => srv'[i] = srv[i]
  BY <1>0 DEF AccountMoves
<1>3. CASE SameVersion(i) /\ KeepsDelete(i)
  BY <1>1, <1>2, <1>3 DEF SameVersion, KeepsDelete, RowHonest
<1>4. CASE mirror'[i] = None /\ (PendingDelete(i)' \/ srv[i] = None)
  BY <1>1, <1>2, <1>4 DEF RowHonest
<1>5. CASE NeverThere(i)
  BY <1>1, <1>2, <1>5 DEF NeverThere, RowHonest
<1>6. CASE mirror'[i] # None /\ NewEnough(mirror'[i], i)
  BY <1>0, <1>1, <1>2, <1>6 DEF NewEnough, RowHonest
<1> QED BY <1>3, <1>4, <1>5, <1>6 DEF RowMove

(* An enqueue drops no delete but those of the row it deletes.             *)
LEMMA EnqueueKeepsDeletes ==
  ASSUME ParkedInv, NEW e \in Entries, Enqueue(e),
         NEW i \in Ids, e.op = "delete" => e.id # i
  PROVE  PendingDelete(i) => PendingDelete(i)'
<1>0. /\ TypeOK /\ outbox' = AfterEnqueue(outbox, nextSeq, e)
      /\ \A s \in Held(outbox) : outbox[s] \in Entries /\ s # nextSeq
  <2>1. \A s \in Held(outbox) : s < nextSeq /\ s \in Nat
    BY DEF ParkedInv, NumbersUsed, Held, Seqs
  <2> QED BY <2>1, KeptTypes DEF Enqueue
<1>1. ASSUME NEW s \in OfRow(outbox, i), outbox[s].op = "delete"
      PROVE  s \in OfRow(outbox, i)' /\ outbox'[s].op = "delete"
  <2>1. s \in Held(outbox) /\ outbox[s].id = i /\ s \in Seqs /\ outbox[s] \in Entries
    BY <1>0 DEF OfRow, Held
  <2>2. s \notin Dropped(outbox, e)
    BY <2>1 DEF Dropped, SameRowQueued, OfRow
  <2>3. s \notin MergeTargets(outbox, e)
    BY <1>1 DEF MergeTargets, QueuedCreates
  <2>4. outbox'[s] = outbox[s]
    BY <1>0, <2>1, <2>2, <2>3 DEF AfterEnqueue
  <2> QED BY <1>1, <2>1, <2>4 DEF OfRow, Held
<1> QED BY <1>1 DEF PendingDelete

(* A delete is in the outbox, or its row never left the phone.             *)
LEMMA DeleteQueued ==
  ASSUME KeptInv, NEW e \in Entries, e.op = "delete", Enqueue(e)
  PROVE  PendingDelete(e.id)' \/ NeverThere(e.id)
<1>0. /\ ParkedInv /\ TypeOK /\ Unsent
      /\ outbox' = AfterEnqueue(outbox, nextSeq, e)
      /\ Appends(outbox, e) => nextSeq \in Seqs
  <2>1. ParkedInv /\ TypeOK /\ Unsent
    BY KeptTypes DEF KeptInv, AccountOK
  <2> QED BY <2>1, PlanAssumption DEF Enqueue, TypeOK, Seqs
<1>1. CASE CancelsCreate(outbox, e)
  <2>1. PICK s \in QueuedCreates(outbox, e.id) : ~outbox[s].sent
    BY <1>1 DEF CancelsCreate
  <2>2. s \in Held(outbox) /\ outbox[s].id = e.id /\ IsCreate(outbox[s])
    BY <2>1 DEF QueuedCreates, SameRowQueued, InState, OfRow, IsCreate
  <2> QED BY <1>0, <2>1, <2>2 DEF Unsent
<1>2. CASE ~CancelsCreate(outbox, e)
  <2>1. MergeTargets(outbox, e) = {} /\ Appends(outbox, e)
    BY <1>2 DEF Appends, MergeTargets
  <2>2. nextSeq \in Seqs /\ nextSeq \notin Held(outbox)
    BY <1>0, <2>1 DEF ParkedInv, NumbersUsed, Seqs
  <2>3. nextSeq \notin Dropped(outbox, e)
    BY <2>2 DEF Dropped, SameRowQueued, InState
  <2>4. outbox'[nextSeq] = e
    BY <1>0, <2>1, <2>2, <2>3 DEF AfterEnqueue
  <2>5. e # None
    BY NoneAssumption
  <2>6. nextSeq \in OfRow(outbox, e.id)'
    BY <2>2, <2>4, <2>5 DEF OfRow, Held
  <2> QED BY <2>4, <2>6 DEF PendingDelete
<1> QED BY <1>1, <1>2

(* The user's edits move rows so: an edited row keeps its version, a new   *)
(* one was never there, and a deleted one waits for its delete.            *)
LEMMA EditMovesRows ==
  ASSUME Known3, NEW j \in Ids, Create(j) \/ UpdateText(j) \/ UpdateRef(j) \/ Delete(j),
         NEW i \in Ids
  PROVE  RowMove(i)
<1>0. /\ KeptInv /\ ParkedInv /\ TypeOK /\ UnmintedOK /\ mirror \in Mirrors
      /\ nextSeq \in Nat
  BY KeptTypes DEF Known3, KeptInv, AccountOK, TypeOK
<1>1. ASSUME NEW op \in OpKinds, NEW fields \in OpFields, NEW base \in OpFields,
             NEW at \in Nat, Enqueue(NewEntry(op, j, fields, base, at))
      PROVE  /\ op # "delete" \/ i # j => KeepsDelete(i)
             /\ op = "delete" => PendingDelete(j)' \/ NeverThere(j)
  <2> DEFINE e == NewEntry(op, j, fields, base, at)
  <2>1. e \in Entries /\ e.op = op /\ e.id = j
    BY NewEntryType DEF NewEntry
  <2>2. Enqueue(e)
    BY <1>1
  <2> HIDE DEF e
  <2>3. op # "delete" \/ i # j => KeepsDelete(i)
    BY <1>0, <2>1, <2>2, EnqueueKeepsDeletes DEF KeepsDelete
  <2>4. op = "delete" => PendingDelete(j)' \/ NeverThere(j)
    BY <1>0, <2>1, <2>2, DeleteQueued
  <2> QED BY <2>3, <2>4
<1>2. CASE Create(j)
  <2>1. stamp' \in Values /\ LinkChoices \subseteq Values
    BY <1>0, <1>2, PlanAssumption DEF Create, TypeOK, Values, LinkChoices
  <2>2. PICK ref \in IF j \in Trips THEN LinkChoices ELSE {Unset} :
          /\ Enqueue(NewEntry("create", j,
                    [NoFields EXCEPT !["text"] = stamp', !["ref"] = ref], NoFields, 0))
          /\ \A k \in Ids : k # j => mirror'[k] = mirror[k]
    BY <1>0, <1>2 DEF Create, Mirrors
  <2>3. [NoFields EXCEPT !["text"] = stamp', !["ref"] = ref] \in OpFields
    BY <2>1 DEF NoFields, OpFields
  <2>4. KeepsDelete(i)
    BY <1>1, <2>2, <2>3, RowTypes DEF OpKinds
  <2>5. NeverThere(j)
    BY <1>0, <1>2 DEF Create, UnmintedOK
  <2> QED BY <2>2, <2>4, <2>5 DEF RowMove, SameVersion
<1>3. ASSUME NEW f \in Fields, NEW v \in Values, Update(j, f, v)
      PROVE  RowMove(i)
  <2>1. mirror[j] \in Rows /\ mirror[j].vals \in RowVals /\ mirror[j].at \in Nat
    BY <1>0, <1>3 DEF Update, Mirrors, Rows
  <2>2. /\ [NoFields EXCEPT ![f] = v] \in OpFields
        /\ [NoFields EXCEPT ![f] = mirror[j].vals[f]] \in OpFields
    BY <2>1, RowTypes DEF OpFields, RowVals
  <2>3. KeepsDelete(i)
    BY <1>1, <1>3, <2>1, <2>2 DEF Update, OpKinds
  <2>4. [mirror[j] EXCEPT !.vals[f] = v] \in Rows
        /\ [mirror[j] EXCEPT !.vals[f] = v].at = mirror[j].at
    BY <2>1 DEF Rows, RowVals
  <2>5. mirror' = [mirror EXCEPT ![j] = [mirror[j] EXCEPT !.vals[f] = v]]
    BY <1>3 DEF Update
  <2>6. SameVersion(i)
    BY <1>0, <1>3, <2>4, <2>5, RowAssumption DEF Update, SameVersion, Mirrors
  <2> QED BY <2>3, <2>6 DEF RowMove
<1>4. CASE UpdateText(j)
  <2>1. stamp' \in Values
    BY <1>0, <1>4, PlanAssumption DEF UpdateText, TypeOK, Values
  <2> QED BY <1>3, <1>4, <2>1 DEF UpdateText, Fields
<1>5. CASE UpdateRef(j)
  <2>1. LinkChoices \subseteq Values
    BY DEF LinkChoices, Values
  <2> QED BY <1>3, <1>5, <2>1 DEF UpdateRef, Fields
<1>6. CASE Delete(j)
  <2>1. /\ i # j => KeepsDelete(i)
        /\ PendingDelete(j)' \/ NeverThere(j)
    BY <1>1, <1>6, RowTypes DEF Delete, OpKinds
  <2>2. mirror' = Without(mirror, j, 0)
    BY <1>6 DEF Delete
  <2>3. CASE i = j
    <3>1. mirror'[j] = None
      BY <2>2 DEF Without
    <3> QED BY <2>1, <2>3, <3>1 DEF RowMove
  <2>4. CASE i # j
    <3>1. CASE mirror[i] = None
      BY <2>1, <2>2, <2>4, <3>1 DEF RowMove, SameVersion, Without
    <3>2. CASE mirror[i] # None
      <4>1. mirror[i] \in Rows /\ NoPlace \in Values
        BY <1>0, <3>2 DEF Mirrors, Values
      <4>2. [vals |-> [mirror[i].vals EXCEPT !["ref"] = NoPlace], at |-> mirror[i].at] \in Rows
        BY <4>1 DEF Rows, RowVals
      <4>3. mirror'[i] \in Rows /\ mirror'[i].at = mirror[i].at
        BY <2>2, <2>4, <3>2, <4>1, <4>2 DEF Without
      <4> QED BY <2>1, <2>4, <3>2, <4>3, RowAssumption DEF RowMove, SameVersion
    <3> QED BY <3>1, <3>2
  <2> QED BY <2>3, <2>4
<1> QED BY <1>2, <1>4, <1>5, <1>6

(* So do the actions of the Sync issues screen, but for a resync: what a   *)
(* discard takes out the account does not have.                            *)
LEMMA IssuesMoveRows ==
  ASSUME Known3, NEW s \in Seqs, Retry(s) \/ Discard(s) \/ \E j \in Places : Recreate(s, j),
         NEW i \in Ids
  PROVE  RowMove(i)
<1>0. /\ KeptInv /\ ParkedInv /\ TypeOK /\ UnmintedOK /\ mirror \in Mirrors
      /\ outbox \in Outboxes /\ DeletesAccepted
      /\ \A r \in Held(outbox) : r \in Seqs /\ outbox[r] \in Entries
  BY KeptTypes DEF Known3, KeptInv, ParkedInv, AccountOK, TypeOK
<1>1. ASSUME \A r \in OfRow(outbox, i) :
               outbox[r].op = "delete" => r \in OfRow(outbox, i)' /\ outbox'[r].op = "delete"
      PROVE  KeepsDelete(i)
  BY <1>1 DEF KeepsDelete, PendingDelete
<1>2. CASE Retry(s)
  <2>1. \A r \in OfRow(outbox, i) : r \in OfRow(outbox, i)' /\ outbox'[r].op = outbox[r].op
    BY <1>0, <1>2 DEF Retry, OfRow, Held, Outboxes, Entries
  <2> QED BY <1>1, <1>2, <2>1 DEF Retry, RowMove, SameVersion
<1>3. CASE Discard(s)
  <2> DEFINE e == outbox[s]
  <2>0. s \in Held(outbox) /\ e \in Entries /\ Parked(e) /\ e.op # "delete" /\ e.id \in Ids
    BY <1>0, <1>3 DEF Discard, Held, Parked, DeletesAccepted, Entries
  <2>1. ASSUME NEW r \in OfRow(outbox, i), outbox[r].op = "delete", e.op # "create" \/ e.id # i
        PROVE  r \in OfRow(outbox, i)' /\ outbox'[r].op = "delete"
    <3>1. r \in Seqs /\ outbox[r] # None /\ outbox[r].id = i /\ r # s
      BY <2>0, <2>1 DEF OfRow, Held
    <3>2. outbox'[r] = outbox[r]
      BY <1>0, <1>3, <2>1, <3>1 DEF Discard, Outboxes
    <3> QED BY <2>1, <3>1, <3>2 DEF OfRow, Held
  <2>2. CASE e.op = "create"
    <3>1. srv[e.id] = None
      <4>1. left["discard"] # 0
        BY <1>3 DEF Discard, Spend
      <4> QED BY <2>0, <2>2, <4>1 DEF Known3, HonestInv, DiscardsOK, IsCreate
    <3>2. mirror' = [mirror EXCEPT ![e.id] = None]
      BY <1>3, <2>2 DEF Discard
    <3>3. CASE i = e.id
      BY <1>0, <3>1, <3>2, <3>3 DEF RowMove, Mirrors
    <3>4. CASE i # e.id
      BY <1>0, <1>1, <2>1, <3>2, <3>4 DEF RowMove, SameVersion, Mirrors
    <3> QED BY <3>3, <3>4
  <2>3. CASE e.op = "update" /\ mirror[e.id] # None
    <3>1. PICK owned : mirror' = [mirror EXCEPT ![e.id] = Reverted(@, e.base, owned)]
      BY <1>3, <2>3 DEF Discard
    <3>2. mirror[e.id] \in Rows
      BY <1>0, <2>0, <2>3 DEF Mirrors
    <3>3. /\ Reverted(mirror[e.id], e.base, owned) \in Rows
          /\ Reverted(mirror[e.id], e.base, owned).at = mirror[e.id].at
      BY <2>0, <3>2 DEF Reverted, Rows, RowVals, Entries, OpFields
    <3>4. SameVersion(i)
      BY <1>0, <2>3, <3>1, <3>3, RowAssumption DEF SameVersion, Mirrors
    <3> QED BY <1>1, <2>1, <2>3, <3>4 DEF RowMove
  <2>4. CASE ~(e.op = "update" /\ mirror[e.id] # None) /\ e.op # "create"
    BY <1>1, <1>3, <2>1, <2>4 DEF Discard, RowMove, SameVersion
  <2> QED BY <2>2, <2>3, <2>4
<1>4. ASSUME NEW j \in Places, Recreate(s, j)
      PROVE  RowMove(i)
  <2> DEFINE fields == Overlay([mirror[outbox[s].id].vals EXCEPT !["ref"] = Unset],
                               outbox[s].fields)
             new == NewEntry("create", j, fields, NoFields, 0)
  <2>1. /\ new.op = "create" /\ outbox[s].state = "deadRemote" /\ outbox[s] # None
        /\ outbox' = [AfterEnqueue(outbox, nextSeq, new) EXCEPT ![s] = None]
        /\ mirror' = [mirror EXCEPT ![j] = [vals |-> Filled(fields), at |-> 0]]
        /\ j \notin ghost.minted /\ j \in Ids
    BY <1>4 DEF Recreate, NewEntry, Ids
  <2> HIDE DEF new, fields
  <2>2. outbox[s].op # "delete"
    BY <1>0, <2>1 DEF DeletesAccepted, Parked, Held
  <2>3. ASSUME NEW r \in OfRow(outbox, i), outbox[r].op = "delete"
        PROVE  r \in OfRow(outbox, i)' /\ outbox'[r].op = "delete"
    <3>1. r \in Seqs /\ outbox[r] # None /\ outbox[r].id = i /\ r # s /\ r # nextSeq
      <4>1. r \in Held(outbox) /\ r < nextSeq /\ r \in Nat
        BY <1>0 DEF OfRow, ParkedInv, NumbersUsed, Seqs
      <4> QED BY <2>2, <2>3, <4>1 DEF OfRow, Held
    <3>2. outbox'[r] = AfterEnqueue(outbox, nextSeq, new)[r]
      BY <2>1, <3>1 DEF AfterEnqueue
    <3>3. AfterEnqueue(outbox, nextSeq, new)[r] = outbox[r]
      BY <2>1, <3>1 DEF AfterEnqueue, MergeTargets, Dropped
    <3> QED BY <2>3, <3>1, <3>2, <3>3 DEF OfRow, Held
  <2>4. NeverThere(j)
    BY <1>0, <2>1 DEF UnmintedOK
  <2>5. i # j => mirror'[i] = mirror[i]
    BY <1>0, <2>1 DEF Mirrors
  <2> QED BY <1>1, <2>3, <2>4, <2>5 DEF RowMove, SameVersion
<1> QED BY <1>2, <1>3, <1>4

(* And so do the cycle, but for its page, the account and the world: what  *)
(* is confirmed comes from the account, and a delete that goes was taken.  *)
LEMMA CycleMovesRows ==
  ASSUME Known3, FlushStep \/ PullStep \/ ServerStep \/ WorldStep \/ UNCHANGED vars,
         ~ApplyPage, NEW i \in Ids
  PROVE  RowMove(i)
<1> USE DEF phoneVars
<1>0. /\ TypeInv /\ TypeOK /\ CycleOK /\ mirror \in Mirrors /\ outbox \in Outboxes
      /\ BatchIsOutbox /\ AnswersTrue
      /\ \A r \in Held(outbox) : r \in Seqs /\ outbox[r] \in Entries
  BY KeptTypes DEF Known3, KeptInv, ParkedInv, TypeInv, TypeOK, HonestInv
<1>1. ASSUME \A r \in Held(outbox) : r \in Held(outbox)' /\ SameOp(r)
      PROVE  KeepsDelete(i)
  BY <1>1 DEF KeepsDelete, PendingDelete, OfRow, SameOp
<1>2. CASE StartCycle \/ Send \/ RequestFails
  <2>1. ASSUME NEW r \in Held(outbox)
        PROVE  r \in Held(outbox)' /\ SameOp(r)
    <3>1. \/ outbox'[r] = outbox[r]
          \/ outbox'[r] = [outbox[r] EXCEPT !.state = "queued"]
          \/ outbox'[r] = [outbox[r] EXCEPT !.state = "inflight", !.sent = TRUE]
      <4>1. CASE StartCycle
        BY <1>0, <4>1 DEF StartCycle
      <4>2. CASE Send
        BY <1>0, <4>2 DEF Send
      <4>3. CASE RequestFails
        BY <1>0, <4>3 DEF RequestFails
      <4> QED BY <1>2, <4>1, <4>2, <4>3
    <3>2. r \in Seqs /\ outbox[r] \in Entries /\ outbox[r] # None
      BY <1>0 DEF Held
    <3>3. outbox'[r] \in Entries /\ SameOp(r)
      BY <3>1, <3>2 DEF SameOp, Entries, OpStates
    <3> QED BY <3>2, <3>3, NoneAssumption DEF Held
  <2> QED BY <1>1, <1>2, <2>1 DEF StartCycle, Send, RequestFails, RowMove, SameVersion
<1>3. CASE ApplyRefusal
  <2>1. Cur \in Held(answers) /\ Cur \in Seqs /\ Result \in Answers
    BY <1>0, <1>3, CurTypes DEF ApplyRefusal
  <2>2. ASSUME NEW r \in Held(outbox)
        PROVE  r \in Held(outbox)' /\ SameOp(r)
    <3>1. r \in Seqs /\ outbox[r] \in Entries /\ outbox[r] # None
      BY <1>0 DEF Held
    <3>2. \/ outbox'[r] = outbox[r]
          \/ outbox'[r] = [outbox[r] EXCEPT !.state = "queued"]
          \/ \E dayOver \in BOOLEAN : outbox'[r] = Park(outbox[r], Result.code, dayOver)
      BY <1>0, <1>3, <2>1, <3>1 DEF ApplyRefusal, Outboxes
    <3>3. Result.code \in Codes
      BY <2>1 DEF Answers
    <3>4. CASE \E dayOver \in BOOLEAN : outbox'[r] = Park(outbox[r], Result.code, dayOver)
      <4>1. outbox'[r] \in Entries
        BY <3>1, <3>3, <3>4, ParkType
      <4>2. SameOp(r)
        BY <3>1, <3>4 DEF SameOp, Park, Entries
      <4> QED BY <3>1, <4>1, <4>2, NoneAssumption DEF Held
    <3>5. CASE outbox'[r] = outbox[r] \/ outbox'[r] = [outbox[r] EXCEPT !.state = "queued"]
      <4>1. outbox'[r] \in Entries /\ SameOp(r)
        BY <3>1, <3>5 DEF SameOp, Entries, OpStates
      <4> QED BY <3>1, <4>1, NoneAssumption DEF Held
    <3> QED BY <3>2, <3>4, <3>5
  <2> QED BY <1>1, <1>3, <2>2 DEF ApplyRefusal, RowMove, SameVersion
<1>4. CASE ApplySuccess
  <2>1. Cur \in Held(answers) /\ Cur \in Held(batch) /\ Result.status \in Succeeded
    BY <1>0, <1>4, CurTypes DEF ApplySuccess, CycleOK
  <2>2. ASSUME NEW r \in OfRow(outbox, i), outbox[r].op = "delete", r # Cur
        PROVE  r \in OfRow(outbox, i)' /\ outbox'[r].op = "delete"
    BY <1>0, <1>4, <2>2 DEF ApplySuccess, OfRow, Held, Outboxes
  <2>3. ASSUME Cur \in OfRow(outbox, i), outbox[Cur].op = "delete"
        PROVE  srv[i] = None
    <3>1. batch[Cur].op = "delete" /\ batch[Cur].id = i
      BY <1>0, <2>1, <2>3 DEF BatchIsOutbox, OfRow
    <3>2. TrueAnswer(Cur, Result)
      BY <1>0, <2>1 DEF AnswersTrue, Result
    <3> QED BY <2>1, <3>1, <3>2 DEF TrueAnswer
  <2>4. KeepsDelete(i)
    BY <2>2, <2>3 DEF KeepsDelete, PendingDelete
  <2> QED BY <1>4, <2>4 DEF ApplySuccess, RowMove, SameVersion
<1>5. CASE ConfirmRow
  <2>1. Cur \in Held(answers) /\ Result \in Answers /\ Op \in Entries /\ Result.row # None
    BY <1>0, <1>5, CurTypes DEF ConfirmRow, CycleOK, InResult
  <2>2. Result.row \in Rows /\ Op.id \in Ids /\ TrueAnswer(Cur, Result)
    BY <1>0, <2>1 DEF Answers, Entries, AnswersTrue, Result
  <2>3. NewEnough(Result.row, Op.id)
    BY <2>1, <2>2 DEF TrueAnswer, Op
  <2>4. PICK row : row = Confirmed(Result.row, CollectDirty(snap, Op.id))
    OBVIOUS
  <2>5. row \in Rows /\ row.at = Result.row.at
    <3>1. CollectDirty(snap, Op.id) \in OpFields
      BY <1>0, <2>2, CollectDirtyType DEF TypeOK
    <3> QED BY <2>2, <2>4, <3>1, MergeTypes DEF Confirmed, Rows
  <2>6. mirror' = [mirror EXCEPT ![Op.id] = row] /\ outbox' = outbox
    BY <1>5, <2>4 DEF ConfirmRow
  <2>7. CASE i = Op.id
    <3>1. mirror'[i] = row /\ row # None
      BY <1>0, <2>2, <2>5, <2>6, <2>7, RowAssumption DEF Mirrors
    <3>2. NewEnough(row, i)
      BY <2>3, <2>5, <2>7 DEF NewEnough
    <3> QED BY <3>1, <3>2 DEF RowMove
  <2>8. CASE i # Op.id
    <3>1. mirror'[i] = mirror[i]
      BY <1>0, <2>6, <2>8 DEF Mirrors
    <3> QED BY <2>6, <3>1 DEF RowMove, SameVersion, KeepsDelete, PendingDelete, OfRow, Held
  <2> QED BY <2>7, <2>8
<1>6. CASE UNCHANGED <<outbox, mirror>>
  BY <1>6 DEF RowMove, SameVersion, KeepsDelete, PendingDelete, OfRow, Held
<1> QED
  BY <1>2, <1>3, <1>4, <1>5, <1>6
  DEF FlushStep, PullStep, ServerStep, WorldStep, vars, LoadBatch, Reply, BatchDone,
      Shelve, Reread, FetchPage, PullFails, LoadForRebase,
      ApplyPageFails, SkipDependent, RefuseOp, ReadForCreate, ReadForUpdate, WriteCreate,
      WriteUpdate, WriteAborts, DeleteRow, LateEnds, Crash, ForeignEdit, ForeignDelete

(* The page brings what its time, the next cursor, includes.               *)
LEMMA PageHonest ==
  ASSUME Known3, ApplyPage, NEW i \in Ids, RowHonest(i), PageBrings(i)
  PROVE  RowHonest(i)'
<1> USE DEF accountVars
<1>0. /\ TypeOK /\ NoResurrection /\ mirror \in Mirrors /\ page \in Pages
      /\ \A r \in Held(outbox) : r \in Seqs /\ outbox[r] \in Entries
      /\ \A j \in page.dead : tomb[j] # 0
      /\ cursor \in Nat /\ page.at \in Nat /\ tomb[i] \in Nat
      /\ srv[i] # None => srv[i].at \in Nat
  BY KeptTypes
     DEF Known3, KeptInv, ResurrectionInv, TypeInv, CycleOK, ApplyPage, HonestInv, PageOK,
         TypeOK, Pages, Mirrors, Rows
<1> DEFINE merged == IF page.rows[i] = None THEN mirror[i]
                     ELSE Rebased(page.rows[i], mirror[i], CollectDirty(snap, i))
<1>1. /\ mirror'[i] = IF i \in page.dead THEN None
                      ELSE IF merged # None /\ merged.vals["ref"] \in page.dead
                      THEN [merged EXCEPT !.vals["ref"] = NoPlace] ELSE merged
      /\ cursor' = page.at /\ outbox' = Orphaned(outbox, page.dead)
      /\ UNCHANGED <<srv, tomb>>
  BY DEF ApplyPage, Forgotten
<1>2. page.rows[i] # None => merged \in Rows /\ merged.at = page.rows[i].at
  <2> SUFFICES ASSUME page.rows[i] # None
               PROVE  merged \in Rows /\ merged.at = page.rows[i].at
    OBVIOUS
  <2>1. page.rows[i] \in Rows /\ mirror[i] \in Rows \cup {None}
    BY <1>0 DEF Pages, Mirrors
  <2>2. CollectDirty(snap, i) \in OpFields
    BY <1>0, CollectDirtyType DEF TypeOK
  <2>3. Rebased(page.rows[i], mirror[i], CollectDirty(snap, i)) \in Rows
    BY <2>1, <2>2, MergeTypes
  <2>4. Rebased(page.rows[i], mirror[i], CollectDirty(snap, i)).at = page.rows[i].at
    BY <2>1 DEF Rebased, Rows
  <2> QED BY <2>3, <2>4
<1>3. page.rows[i] = None => merged = mirror[i]
  OBVIOUS
<1>4. merged \in Rows \cup {None}
  BY <1>0, <1>2 DEF Mirrors
<1> HIDE DEF merged
<1>5. i \notin page.dead =>
        /\ mirror'[i] = None <=> merged = None
        /\ merged # None => mirror'[i].at = merged.at
  <2>1. merged # None => /\ [merged EXCEPT !.vals["ref"] = NoPlace] \in Rows
                         /\ [merged EXCEPT !.vals["ref"] = NoPlace].at = merged.at
    BY <1>4 DEF Rows, RowVals, Values
  <2> QED BY <1>1, <2>1, RowAssumption
<1>6. tomb'[i] \in 1 .. cursor' => mirror'[i] = None
  <2> SUFFICES ASSUME tomb[i] \in 1 .. page.at, i \notin page.dead
               PROVE  mirror'[i] = None
    BY <1>1
  <2>1. tomb[i] <= cursor /\ page.rows[i] = None
    BY <1>0 DEF PageBrings
  <2>2. mirror[i] = None
    BY <1>0, <2>1 DEF RowHonest
  <2> QED BY <1>3, <1>5, <2>1, <2>2
<1>7. ASSUME srv[i] # None, srv[i].at <= page.at
      PROVE  PendingDelete(i)' \/ (mirror'[i] # None /\ mirror'[i].at >= srv[i].at)
  <2>1. i \notin page.dead
    BY <1>0, <1>7 DEF NoResurrection
  <2>2. CASE page.rows[i] = srv[i]
    <3>1. merged \in Rows /\ merged.at = srv[i].at
      BY <1>2, <1>7, <2>2
    <3> QED BY <1>0, <1>5, <1>7, <2>1, <3>1, RowAssumption
  <2>3. CASE page.rows[i] = None /\ srv[i].at <= cursor
    <3>1. PendingDelete(i) => PendingDelete(i)'
      <4>1. ASSUME NEW r \in OfRow(outbox, i)
            PROVE  r \in OfRow(outbox, i)' /\ outbox'[r] = outbox[r]
        BY <1>0, <1>1, <2>1 DEF OfRow, Held, Orphaned
      <4> QED BY <4>1 DEF PendingDelete
    <3>2. PendingDelete(i) \/ (mirror[i] # None /\ mirror[i].at >= srv[i].at)
      BY <1>7, <2>3 DEF RowHonest
    <3> QED BY <1>3, <1>5, <2>1, <2>3, <3>1, <3>2
  <2> QED BY <1>7, <2>2, <2>3 DEF PageBrings
<1> QED BY <1>1, <1>6, <1>7 DEF RowHonest

(* So every row stays honest, unless a resync comes into a pull.           *)
LEMMA RowsKept ==
  ASSUME Known3, [Next]_vars
  PROVE  RowsHonest'
<1> SUFFICES ASSUME ~ghost'.resetMidPull, NEW i \in Ids
             PROVE  RowHonest(i)'
  BY DEF RowsHonest
<1>1. CASE Reset
  <2>1. cursor' = 0
    BY <1>1 DEF Reset
  <2>2. TimesOK' /\ TypeOK'
    BY TimesKept, NextTypes DEF Known3, ResurrectionInv, TypeInv
  <2>3. tomb'[i] \notin 1 .. cursor'
    BY <2>1, <2>2 DEF TypeOK
  <2>4. srv'[i] # None => ~(srv'[i].at <= cursor')
    BY <2>1, <2>2 DEF TimesOK, TypeOK, Mirrors, Rows
  <2> QED BY <2>3, <2>4 DEF RowHonest
<1>2. CASE ~Reset
  <2>1. ~ghost.resetMidPull
    BY <1>2, ResetRemembered
  <2>2. RowHonest(i)
    BY <2>1 DEF Known3, HonestInv, RowsHonest
  <2>3. CASE ApplyPage
    <3>1. PageBrings(i)
      BY <2>1, <2>3 DEF Known3, HonestInv, PageOK, ApplyPage
    <3> QED BY <2>2, <2>3, <3>1, PageHonest
  <2>4. CASE ~ApplyPage
    <3>1. cursor' = cursor
      BY <1>2, <2>4, CursorMoves
    <3>2. RowMove(i)
      <4>1. CASE FlushStep \/ PullStep \/ ServerStep \/ WorldStep \/ UNCHANGED vars
        BY <2>4, <4>1, CycleMovesRows
      <4>2. CASE UserStep
        BY <1>2, <4>2, EditMovesRows, IssuesMoveRows DEF UserStep
      <4> QED BY <4>1, <4>2 DEF Next
    <3> QED BY <2>2, <3>1, <3>2, RowStays
  <2> QED BY <2>3, <2>4
<1> QED BY <1>1, <1>2

-----------------------------------------------------------------------------
(* The cursor                                                              *)

(* The invariant of DeletedStaysDeleted, by itself.                        *)
LEMMA ResurrectionInvariant ==
  ASSUME Allowance["late"] = 0
  PROVE  Spec => []ResurrectionInv
<1>1. Init => ResurrectionInv
  BY InitTypes, PlanAssumption
     DEF Init, ResurrectionInv, OneRequest, ReadIsFresh, NoResurrection, Lanes
<1> QED BY <1>1, ResurrectionStep, PTL DEF Spec

(* The invariant holds at the start.                                       *)
LEMMA InitHonest ==
  ASSUME Allowance["refuse"] = 0 \/ Allowance["discard"] = 0
  PROVE  Init => HonestInv
<1> SUFFICES ASSUME Init
             PROVE  HonestInv
  OBVIOUS
<1>1. /\ Held(outbox) = {} /\ Held(batch) = {} /\ Held(answers) = {}
      /\ reqs["live"] = None /\ pc = "idle" /\ left = Allowance
  BY DEF Init, NoOps, Held, Lanes
<1>2. \A i \in Ids : /\ srv[i] # None => srv[i].at = 1 /\ mirror[i] = srv[i]
                     /\ tomb[i] = 0
  BY DEF Init, KnownRow
<1>3. TimesOK
  BY <1>2 DEF Init, TimesOK
<1>4. RowsHonest
  BY <1>2 DEF RowsHonest, RowHonest
<1> QED
  BY <1>1, <1>3, <1>4
  DEF HonestInv, CreatesFirst, AnsweredInOrder, AnswersTrue, DiscardsOK, PageOK

(* and after every step.                                                   *)
LEMMA HonestStep ==
  KeptInv /\ ResurrectionInv /\ HonestInv /\ [Next]_vars => HonestInv'
BY TimesKept, CreatesStayFirst, OrderKept, AnswersStayTrue, DiscardsKept, PageKept, RowsKept
   DEF Known3, HonestInv

(* The next pull asks for what comes after the cursor, and all up to it is *)
(* on the phone, unless a resync came into a pull: for a phone that gives  *)
(* up on no request that is still at work, and whose user discards nothing *)
(* if the account refuses what it could take.                              *)
THEOREM CursorStaysHonest ==
  ASSUME Allowance["late"] = 0, Allowance["refuse"] = 0 \/ Allowance["discard"] = 0
  PROVE  Spec => [](~ghost.resetMidPull => CursorHonest)
<1>1. Init => HonestInv
  BY InitHonest
<1>2. Spec => []KeptInv
  BY KeptInvariant
<1>3. Spec => []ResurrectionInv
  BY ResurrectionInvariant
<1>4. HonestInv => (~ghost.resetMidPull => CursorHonest)
  BY DEF HonestInv, RowsHonest, RowHonest, PendingDelete, CursorHonest
<1> QED BY <1>1, <1>2, <1>3, <1>4, HonestStep, PTL DEF Spec

-----------------------------------------------------------------------------
(* The order of a batch                                                    *)

(* The ids of the ops selectFlushBatch finds parked: these block from the  *)
(* start of the queue on.                                                  *)
ParkedIds(ob) == {ob[s].id : s \in InState(ob, {"blocked", "deadRemote", "retrying"})}

(* What op n makes of the ids blocked before it: a queued op that waits    *)
(* for one of them blocks its own.                                         *)
BlockedNext(ob, n, before) ==
  IF n \in InState(ob, {"queued"}) /\ WaitsFor(ob[n], before)
  THEN before \cup {ob[n].id} ELSE before

(* f counts the blocked ids along the first m ops of the queue.            *)
Counts(ob, f, m) ==
  /\ f \in [0 .. m -> SUBSET Ids]
  /\ f[0] = ParkedIds(ob)
  /\ \A n \in 1 .. m : f[n] = BlockedNext(ob, n, f[n - 1])

(* The count exists for every length: of the lengths that have none the    *)
(* first is neither 0 nor the next of one that has.                        *)
LEMMA CountsExist ==
  ASSUME NEW ob \in Outboxes, NEW m \in Nat
  PROVE  \E f : Counts(ob, f, m)
<1> DEFINE Bad == {n \in Nat : ~\E f : Counts(ob, f, n)}
<1> SUFFICES ASSUME Bad # {} PROVE FALSE
  OBVIOUS
<1> DEFINE n == First(Bad)
<1>1. n \in Bad /\ \A r \in Bad : n <= r
  BY FirstIsIn
<1>2. n \in Nat /\ ~\E f : Counts(ob, f, n)
  BY <1>1
<1>0. /\ ParkedIds(ob) \in SUBSET Ids
      /\ \A k, before : before \in SUBSET Ids => BlockedNext(ob, k, before) \in SUBSET Ids
  <2>1. \A s \in Held(ob) : ob[s].id \in Ids
    BY DEF Held, Outboxes, Entries
  <2> QED BY <2>1 DEF ParkedIds, BlockedNext, InState
<1> HIDE DEF n, Bad
<1>3. CASE n = 0
  <2>1. Counts(ob, [k \in 0 .. 0 |-> ParkedIds(ob)], 0)
    BY <1>0 DEF Counts
  <2> QED BY <1>2, <1>3, <2>1
<1>4. CASE n # 0
  <2>1. n - 1 \in Nat /\ n - 1 \notin Bad
    BY <1>1, <1>2, <1>4
  <2>2. PICK f : Counts(ob, f, n - 1)
    BY <2>1 DEF Bad
  <2> DEFINE g == [k \in 0 .. n |-> IF k = n THEN BlockedNext(ob, n, f[n - 1]) ELSE f[k]]
  <2>3. f[n - 1] \in SUBSET Ids /\ BlockedNext(ob, n, f[n - 1]) \in SUBSET Ids
    BY <1>0, <2>1, <2>2 DEF Counts
  <2>4. g \in [0 .. n -> SUBSET Ids] /\ g[0] = ParkedIds(ob)
    BY <1>2, <1>4, <2>2, <2>3 DEF Counts
  <2>5. ASSUME NEW k \in 1 .. n
        PROVE  g[k] = BlockedNext(ob, k, g[k - 1])
    <3>1. k - 1 \in 0 .. n - 1 /\ k - 1 # n /\ k \in 0 .. n
      BY <1>2
    <3>2. g[k - 1] = f[k - 1]
      BY <1>2, <3>1
    <3>3. CASE k = n
      BY <3>1, <3>2, <3>3
    <3>4. CASE k # n
      <4>1. k \in 1 .. n - 1
        BY <1>2, <3>4
      <4>2. f[k] = BlockedNext(ob, k, f[k - 1])
        BY <2>2, <4>1 DEF Counts
      <4> QED BY <3>1, <3>2, <3>4, <4>2
    <3> QED BY <3>3, <3>4
  <2> HIDE DEF g
  <2>6. Counts(ob, g, n)
    BY <2>4, <2>5 DEF Counts
  <2> QED BY <1>2, <2>6
<1> QED BY <1>3, <1>4

(* BlockedIds is such a count, so its recursion may be unfolded.           *)
LEMMA BlockedIdsCount ==
  ASSUME NEW ob \in Outboxes
  PROVE  /\ BlockedIds(ob)[0] = ParkedIds(ob)
         /\ \A n \in 1 .. MaxSeq :
              BlockedIds(ob)[n] = BlockedNext(ob, n, BlockedIds(ob)[n - 1])
<1>1. PICK f : Counts(ob, f, MaxSeq)
  BY CountsExist, PlanAssumption
<1>2. f = [n \in 0 .. MaxSeq |->
             IF n = 0 THEN ParkedIds(ob)
             ELSE IF n \in InState(ob, {"queued"}) /\ WaitsFor(ob[n], f[n - 1])
                  THEN f[n - 1] \cup {ob[n].id}
                  ELSE f[n - 1]]
  <2>1. f \in [0 .. MaxSeq -> SUBSET Ids]
    BY <1>1 DEF Counts
  <2>2. ASSUME NEW n \in 0 .. MaxSeq
        PROVE  f[n] = IF n = 0 THEN ParkedIds(ob)
                      ELSE IF n \in InState(ob, {"queued"}) /\ WaitsFor(ob[n], f[n - 1])
                           THEN f[n - 1] \cup {ob[n].id}
                           ELSE f[n - 1]
    <3>1. CASE n = 0
      BY <1>1, <3>1 DEF Counts
    <3>2. CASE n # 0
      <4>1. n \in 1 .. MaxSeq
        BY <3>2, PlanAssumption
      <4> QED BY <1>1, <3>2, <4>1 DEF Counts, BlockedNext
    <3> QED BY <3>1, <3>2
  <2> QED BY <2>1, <2>2
<1>3. PICK b : b = BlockedIds(ob)
  OBVIOUS
<1>4. b = [n \in 0 .. MaxSeq |->
             IF n = 0 THEN ParkedIds(ob)
             ELSE IF n \in InState(ob, {"queued"}) /\ WaitsFor(ob[n], b[n - 1])
                  THEN b[n - 1] \cup {ob[n].id}
                  ELSE b[n - 1]]
  BY <1>2, <1>3 DEF BlockedIds, ParkedIds
<1>5. b[0] = ParkedIds(ob)
  BY <1>4, PlanAssumption
<1>6. ASSUME NEW n \in 1 .. MaxSeq
      PROVE  b[n] = BlockedNext(ob, n, b[n - 1])
  <2>1. n \in 0 .. MaxSeq /\ n # 0
    BY PlanAssumption
  <2>2. b[n] = IF n \in InState(ob, {"queued"}) /\ WaitsFor(ob[n], b[n - 1])
               THEN b[n - 1] \cup {ob[n].id}
               ELSE b[n - 1]
    BY <1>4, <2>1
  <2> QED BY <2>2 DEF BlockedNext
<1> QED BY <1>3, <1>5, <1>6

(* Once blocked, an id stays blocked down the queue.                       *)
LEMMA BlockedGrows ==
  ASSUME NEW ob \in Outboxes, NEW a \in 0 .. MaxSeq, NEW c \in 0 .. MaxSeq, a <= c
  PROVE  BlockedIds(ob)[a] \subseteq BlockedIds(ob)[c]
<1> DEFINE Bad == {n \in Nat : a <= n /\ n <= c /\ ~(BlockedIds(ob)[a] \subseteq BlockedIds(ob)[n])}
<1> SUFFICES ASSUME Bad # {} PROVE FALSE
  BY PlanAssumption
<1>1. PICK n : n = First(Bad)
  OBVIOUS
<1>2. n \in Bad /\ \A r \in Bad : n <= r
  BY <1>1, FirstIsIn
<1>3. n # a /\ n \in Nat /\ a <= n /\ n <= c /\ n \in 1 .. MaxSeq
  BY <1>2, PlanAssumption
<1>4. n - 1 \in Nat /\ a <= n - 1 /\ n - 1 <= c /\ n - 1 \notin Bad
  BY <1>2, <1>3, PlanAssumption
<1>5. BlockedIds(ob)[a] \subseteq BlockedIds(ob)[n - 1]
  BY <1>4
<1>6. BlockedIds(ob)[n - 1] \subseteq BlockedIds(ob)[n]
  BY <1>3, BlockedIdsCount DEF BlockedNext
<1> QED BY <1>2, <1>5, <1>6

(* A ready update has every create it depends on ready before it.          *)
LEMMA ReadyLeads ==
  ASSUME NEW ob \in Outboxes, NEW s \in Ready(ob), ob[s].op = "update",
         NEW r \in Held(ob), ob[r].id \in Dependencies(ob[s]), ob[r].state # "inflight",
         IsCreate(ob[r]), r < s
  PROVE  r \in Ready(ob)
<1>1. /\ s \in Seqs /\ r \in Seqs /\ s \in Nat /\ r \in Nat /\ ob[r] \in Entries
      /\ s - 1 \in 0 .. MaxSeq /\ r \in 0 .. MaxSeq /\ r <= s - 1
      /\ s \in InState(ob, {"queued"})
      /\ ~WaitsFor(ob[s], BlockedIds(ob)[s - 1])
  BY PlanAssumption DEF Ready, InState, Held, Outboxes, Seqs
<1>2. ob[r].id \notin BlockedIds(ob)[s - 1]
  BY <1>1 DEF WaitsFor
<1>3. ob[r].id \notin BlockedIds(ob)[r] /\ ob[r].id \notin BlockedIds(ob)[0]
  BY <1>1, <1>2, BlockedGrows, PlanAssumption
<1>4. ob[r].id \notin ParkedIds(ob)
  BY <1>3, BlockedIdsCount
<1>5. ob[r].state = "queued"
  BY <1>1, <1>4 DEF ParkedIds, InState, Entries, OpStates
<1>6. ~WaitsFor(ob[r], BlockedIds(ob)[r - 1])
  <2>1. r \in 1 .. MaxSeq /\ r \in InState(ob, {"queued"})
    BY <1>1, <1>5 DEF Seqs, InState
  <2>2. BlockedIds(ob)[r] = BlockedNext(ob, r, BlockedIds(ob)[r - 1])
    BY <2>1, BlockedIdsCount
  <2> QED BY <1>3, <2>1, <2>2 DEF BlockedNext
<1> QED BY <1>5, <1>6 DEF Ready, InState

(* The links of a queue name rows that were made.                          *)
LinksMinted(ob) == \A s \in Held(ob) : LinkOf(ob[s]) \subseteq ghost.minted

(* So do the rows on the screen and those on their way to it.              *)
RowsMinted ==
  /\ Live(mirror) \subseteq ghost.minted
  /\ pc \in {"fetched", "merge"} => Live(page.rows) \subseteq ghost.minted

(* An update comes after the create of the row it links to.                *)
UpdatesFollow ==
  \A r, s \in Held(outbox) :
    IsCreate(outbox[r]) /\ outbox[s].op = "update" /\ outbox[r].id \in LinkOf(outbox[s])
      => r < s

(* The ops of the outbox marked as sent.                                   *)
Inflight == InState(outbox, {"inflight"})

(* None is marked while a batch is chosen, and every marked op has an      *)
(* answer coming that will take the mark off.                              *)
InflightOK ==
  /\ pc \in {"select", "loaded"} => Inflight = {}
  /\ pc = "sent" => Inflight \subseteq Held(batch)
  /\ reqs["live"] # None
       => Held(batch) \subseteq reqs["live"].todo \cup Held(reqs["live"].answers)
  /\ pc \in InResult \cup {"apply"} => Inflight \subseteq Held(answers)
  /\ pc \in InResult => Cur \notin Held(outbox)

(* UpdatesGoAfterCreates, of the batch from its choice on.                 *)
BatchLeads ==
  pc \in {"loaded", "sent"} =>
    \A s \in Held(batch) : batch[s].op = "update" =>
      \A r \in Held(outbox) :
        IsCreate(outbox[r]) /\ outbox[r].id \in Dependencies(batch[s])
          => r < s /\ batch[r] # None

(* The strengthening: what keeps a batch in order while it is chosen.      *)
OrderInv ==
  /\ CreatesFirst(outbox) /\ CreatesFirst(batch)
  /\ LinksMinted(outbox) /\ LinksMinted(batch) /\ RowsMinted
  /\ UpdatesFollow /\ InflightOK /\ BatchLeads

(* No row is shown, nor on its way to the screen, that was never made.     *)
LEMMA RowsStayMinted ==
  ASSUME KeptInv, RowsMinted, [Next]_vars
  PROVE  RowsMinted'
<1> USE DEF phoneVars, cycleVars
<1>0. /\ TypeInv /\ TypeOK /\ mirror \in Mirrors /\ srv \in Mirrors /\ ghost \in Ghosts
      /\ Live(srv) \subseteq ghost.minted
      /\ \A s \in Held(batch) : batch[s].id \in ghost.minted
  BY KeptTypes DEF KeptInv, AccountOK, UnmintedOK, NeverThere, Live, TypeOK, LedgersOK, Ledgers
<1>1. ghost.minted \subseteq ghost'.minted
  <2>1. CASE NoNewOp
    BY <2>1, NoNewOpSlides DEF KeptInv, Slide, OwesLess
  <2> QED BY <2>1, OpsCome DEF Adds, OwesOp
<1>2. Live(mirror)' \subseteq ghost'.minted
  <2> SUFFICES ASSUME NEW j \in Ids, mirror'[j] # None, j \notin ghost'.minted
               PROVE  FALSE
    BY DEF Live
  <2>0. mirror[j] = None /\ j \notin ghost.minted
    BY <1>1 DEF RowsMinted, Live
  <2>1. ASSUME NEW i \in Ids, Create(i)
        PROVE  FALSE
    <3>1. i \in ghost'.minted /\ mirror'[j] = mirror[j]
      <4>1. i \in ghost'.minted
        BY <1>0, <2>1 DEF Create, Remember, Ghosts, NewEntry
      <4> QED BY <1>0, <2>1, <4>1 DEF Create, Mirrors
    <3> QED BY <2>0, <3>1
  <2>2. ASSUME NEW i \in Ids, NEW f, NEW v, Update(i, f, v)
        PROVE  FALSE
    BY <1>0, <2>0, <2>2 DEF Update, Mirrors
  <2>3. ASSUME NEW i \in Ids, Delete(i)
        PROVE  FALSE
    BY <1>0, <2>0, <2>3 DEF Delete, Without
  <2>4. ASSUME NEW s \in Seqs, Discard(s)
        PROVE  FALSE
    BY <1>0, <2>0, <2>4 DEF Discard, Mirrors
  <2>5. ASSUME NEW s \in Seqs, NEW i \in Places, Recreate(s, i)
        PROVE  FALSE
    <3>1. i \in ghost'.minted
      BY <1>0, <2>5 DEF Recreate, Ghosts
    <3> QED BY <1>0, <2>0, <2>5, <3>1 DEF Recreate, Mirrors
  <2>6. CASE Reset
    BY <2>0, <2>6 DEF Reset
  <2>7. CASE ConfirmRow
    <3>1. Held(answers) # {}
      BY <1>0, <2>7 DEF ConfirmRow, TypeInv, CycleOK, InResult
    <3>2. Op.id \in ghost.minted
      BY <1>0, <3>1, CurTypes DEF Op, TypeInv, CycleOK
    <3> QED BY <1>0, <2>0, <2>7, <3>2 DEF ConfirmRow, Mirrors
  <2>8. CASE ApplyPage
    <3>1. page.rows[j] = None
      BY <2>0, <2>8 DEF ApplyPage, RowsMinted, Live
    <3> QED BY <2>0, <2>8, <3>1 DEF ApplyPage, Forgotten
  <2>9. CASE UNCHANGED mirror
    BY <2>0, <2>9
  <2>10. ASSUME NEW i \in Ids, UpdateText(i) \/ UpdateRef(i)
         PROVE  FALSE
    BY <2>2, <2>10 DEF UpdateText, UpdateRef
  <2>11. CASE UserStep
    <3>1. ASSUME NEW s \in Seqs, Retry(s) PROVE UNCHANGED mirror
      BY <3>1 DEF Retry
    <3> QED BY <2>1, <2>3, <2>4, <2>5, <2>6, <2>9, <2>10, <2>11, <3>1 DEF UserStep
  <2>12. CASE FlushStep
    BY <2>7, <2>9, <2>12 DEF FlushStep, StartCycle, LoadBatch, Send, RequestFails, Reply,
         BatchDone, ApplySuccess, Shelve, Reread, ApplyRefusal
  <2>13. CASE PullStep
    BY <2>8, <2>9, <2>13 DEF PullStep, FetchPage, PullFails, LoadForRebase, ApplyPageFails
  <2>14. CASE ServerStep \/ WorldStep \/ UNCHANGED vars
    BY <2>9, <2>14 DEF ServerStep, SkipDependent, RefuseOp, ReadForCreate, ReadForUpdate,
         WriteCreate, WriteUpdate, WriteAborts, DeleteRow, LateEnds,
         WorldStep, Crash, ForeignEdit, ForeignDelete, vars
  <2> QED BY <2>11, <2>12, <2>13, <2>14 DEF Next
<1>3. pc' \in {"fetched", "merge"} => Live(page.rows)' \subseteq ghost'.minted
  <2>1. CASE FetchPage
    BY <1>0, <1>1, <2>1 DEF FetchPage, DeltaSince, Live
  <2>2. CASE pc \in {"fetched", "merge"} /\ UNCHANGED page
    BY <1>1, <2>2 DEF RowsMinted, Live
  <2>3. CASE pc' \notin {"fetched", "merge"}
    BY <2>3
  <2>4. \/ FetchPage \/ pc' \notin {"fetched", "merge"}
        \/ pc \in {"fetched", "merge"} /\ UNCHANGED page
    <3> USE DEF cycleVars
    <3>1. CASE UserStep \/ ServerStep \/ WorldStep \/ UNCHANGED vars
      BY <3>1, UserLeaves, ServerLeaves, WorldLeaves DEF Crash, vars
    <3>2. CASE FlushStep
      BY <3>2 DEF FlushStep, StartCycle, LoadBatch, Send, RequestFails, Reply, BatchDone,
           ApplySuccess, Shelve, Reread, ConfirmRow, ApplyRefusal, AfterShelving, NextResult
    <3>3. CASE PullStep
      BY <3>3 DEF PullStep, PullFails, LoadForRebase, ApplyPage, ApplyPageFails
    <3> QED BY <3>1, <3>2, <3>3 DEF Next
  <2> QED BY <2>1, <2>2, <2>3, <2>4
<1> QED BY <1>2, <1>3 DEF RowsMinted

(* An update keeps behind the create it links to: the tail of the queue,   *)
(* into which a link is folded, is behind every other op.                  *)
LEMMA LinksStayBehind ==
  ASSUME KeptInv, RowsMinted, LinksMinted(outbox), LinksMinted(batch), UpdatesFollow,
         [Next]_vars
  PROVE  LinksMinted(outbox)' /\ LinksMinted(batch)' /\ UpdatesFollow'
<1>0. /\ TypeInv /\ ParkedInv /\ LedgersOK
      /\ outbox \in Ledgers /\ nextSeq \in Nat
      /\ \A s \in Held(outbox) : s < nextSeq /\ s \in Nat /\ outbox[s] \in Entries
  BY KeptTypes DEF KeptInv, Ledgers, LedgersOK, Held, Seqs
<1>1. CASE NoNewOp
  <2>1. (\A s \in Held(outbox)' : s \in Held(outbox) /\ Same(s)) /\ ghost'.minted = ghost.minted
    BY <1>0, <1>1, NoNewOpSlides DEF Slide, OwesLess
  <2>2. LinksMinted(outbox)' /\ UpdatesFollow'
    BY <1>0, <2>1 DEF LinksMinted, UpdatesFollow, LinkOf, Same, IsCreate
  <2>3. \/ batch' = batch
        \/ \A s \in Held(batch)' : s \in Held(outbox) /\ batch'[s] = outbox[s]
    BY <1>0, <1>1, CycleCopies
  <2>4. LinksMinted(batch)'
    BY <2>1, <2>3 DEF LinksMinted, Held
  <2> QED BY <2>2, <2>4
<1>2. ASSUME NEW e \in Entries, Adds(e), TakenFrom(e)
      PROVE  LinksMinted(outbox)' /\ LinksMinted(batch)' /\ UpdatesFollow'
  <2>1. batch' = batch /\ ghost'.minted = ghost.minted \cup {e.id}
    BY <1>2 DEF Adds, AddsOp, OwesOp
  <2>2. LinkOf(e) \subseteq ghost.minted
    BY <1>2 DEF TakenFrom, RowsMinted, LinksMinted
  <2>3. ASSUME NEW s \in Held(outbox)'
        PROVE  \/ s \in Held(outbox) /\ outbox'[s] = outbox[s]
               \/ /\ s \in MergeTargets(outbox, e)
                  /\ s \in Held(outbox) /\ outbox'[s].op = outbox[s].op
                  /\ outbox'[s].id = outbox[s].id /\ e.op = "update"
                  /\ LinkOf(outbox'[s]) \subseteq LinkOf(outbox[s]) \cup LinkOf(e)
               \/ s = nextSeq /\ outbox'[s] = e
    <3>1. CASE s \in MergeTargets(outbox, e) /\ outbox'[s] = Merged(outbox[s], e)
      <4>1. s \in Held(outbox) /\ outbox[s] \in Entries /\ e.op = "update"
        BY <1>0, <3>1, KeptTypes DEF MergeTargets, QueuedCreates, SameRowQueued, OfRow, InState
      <4>2. LinkOf(Merged(outbox[s], e)) \subseteq LinkOf(outbox[s]) \cup LinkOf(e)
        BY <4>1 DEF LinkOf, Merged, Overlay, Entries, Fields
      <4> QED BY <3>1, <4>1, <4>2, <1>2, MergedOp
    <3> QED BY <1>2, <3>1 DEF Adds, AddsOp
  <2>4. LinksMinted(outbox)' /\ LinksMinted(batch)'
    <3>1. ASSUME NEW s \in Held(outbox)'
          PROVE  LinkOf(outbox'[s]) \subseteq ghost'.minted
      BY <2>1, <2>2, <2>3 DEF LinksMinted
    <3> QED BY <2>1, <3>1 DEF LinksMinted, Held
  <2>5. UpdatesFollow'
    <3> SUFFICES ASSUME NEW r \in Held(outbox)', NEW s \in Held(outbox)',
                        IsCreate(outbox'[r]), outbox'[s].op = "update",
                        outbox'[r].id \in LinkOf(outbox'[s])
                 PROVE  r < s
      BY DEF UpdatesFollow, LinkOf
    <3>1. CASE r = nextSeq /\ outbox'[r] = e
      <4>1. e.id \notin ghost.minted /\ e.op = "create"
        BY <1>2, <3>1 DEF Adds, IsCreate
      <4>2. s \in Held(outbox) /\ outbox'[s] = outbox[s]
        BY <1>0, <2>3, <3>1, <4>1
      <4> QED BY <3>1, <4>1, <4>2 DEF LinksMinted
    <3>2. CASE r \in Held(outbox) /\ outbox'[r].op = outbox[r].op /\ outbox'[r].id = outbox[r].id
      <4>1. CASE s = nextSeq
        BY <1>0, <3>2, <4>1
      <4>2. CASE /\ s \in Held(outbox) /\ outbox'[s].op = outbox[s].op
                 /\ outbox[r].id \in LinkOf(outbox[s])
        BY <3>2, <4>2 DEF UpdatesFollow, IsCreate
      <4>3. CASE s \in MergeTargets(outbox, e) /\ s \in Held(outbox) /\ outbox'[s].op = outbox[s].op
        <5>1. IsTail(outbox, s)
          BY <4>3 DEF MergeTargets, QueuedCreates
        <5>2. r <= s /\ r # s
          BY <3>2, <4>3, <5>1 DEF IsTail, IsCreate
        <5> QED BY <1>0, <3>2, <4>3, <5>2
      <4> QED BY <2>3, <3>2, <4>1, <4>2, <4>3
    <3> QED BY <2>3, <3>1, <3>2
  <2> QED BY <2>4, <2>5
<1> QED BY <1>1, <1>2, OpsCome

(* What the API's answer to the head of request k says: the row is the     *)
(* account's, as it is for every update that succeeds, and there are       *)
(* receipts only for an update just written.                               *)
Says(k, answer) ==
  /\ answer.row \in {None, srv'[HeadOp(k).id]}
  /\ answer.status \in Succeeded /\ HeadOp(k).op = "update" => answer.row # None
  /\ \/ answer.receipts = NoFields
     \/ /\ WriteUpdate(k) /\ answer.status = "applied"
        /\ answer.receipts = Receipts(HeadOp(k), reqs[k].read)

(* A step of the API answers an op, remembers the row it read for one, or  *)
(* ends a request.                                                         *)
LEMMA ServerDoes ==
  ASSUME TypeInv, ServerStep
  PROVE  \E k \in Lanes :
           \/ Working(k) /\ \E answer \in Answers : Finish(k, answer) /\ Says(k, answer)
           \/ Working(k) /\ \E row \in Rows : reqs' = [reqs EXCEPT ![k].read = row]
           \/ reqs' = [reqs EXCEPT ![k] = None] /\ (WriteAborts(k) \/ k = "late")
<1> USE DEF accountVars
<1> DEFINE Does(k) == \/ Working(k) /\ \E answer \in Answers : Finish(k, answer) /\ Says(k, answer)
                      \/ Working(k) /\ \E row \in Rows : reqs' = [reqs EXCEPT ![k].read = row]
                      \/ reqs' = [reqs EXCEPT ![k] = None] /\ (WriteAborts(k) \/ k = "late")
<1> SUFFICES \E k \in Lanes : Does(k)
  OBVIOUS
<1>0. TypeOK /\ srv \in Mirrors /\ clock + 1 \in Nat
  BY DEF TypeInv, TypeOK
<1>1. ASSUME NEW k \in Lanes, SkipDependent(k)
      PROVE  Does(k)
  <2>1. Answer("dependencyFailed", None, NoFields, "ok") \in Answers
    BY AnswerType, RowTypes DEF Statuses, Codes
  <2> QED BY <1>1, <2>1 DEF SkipDependent, Says, Answer, Succeeded
<1>2. ASSUME NEW k \in Lanes, RefuseOp(k)
      PROVE  Does(k)
  <2>1. \A code \in Refusals : Refused(code) \in Answers
    BY SyncAssumption, RefusedType DEF Codes
  <2> QED BY <1>2, <2>1 DEF RefuseOp, Reads, Says, Refused, Answer, Succeeded
<1>3. ASSUME NEW k \in Lanes, ReadForCreate(k)
      PROVE  Does(k)
  <2>1. /\ Working(k) /\ HeadOp(k).id \in Ids /\ HeadOp(k).fields \in OpFields
    BY <1>3, HeadTypes DEF ReadForCreate, Reads, Entries
  <2>2. srv[HeadOp(k).id] \in Rows \cup {None}
    BY <1>0, <2>1 DEF Mirrors
  <2>3. /\ Answer("alreadyApplied", srv[HeadOp(k).id], NoFields, "ok") \in Answers
        /\ Answer("alreadyApplied", None, NoFields, "ok") \in Answers
        /\ Refused("final") \in Answers
    BY <2>2, AnswerType, RefusedType, RowTypes DEF Statuses, Codes
  <2>4. [vals |-> Filled(HeadOp(k).fields), at |-> 0] \in Rows
    BY <2>1, RowTypes DEF Rows
  <2>5. ASSUME NEW answer \in Answers, Finish(k, answer),
               answer = Answer("alreadyApplied", srv[HeadOp(k).id], NoFields, "ok")
                 \/ answer = Answer("alreadyApplied", None, NoFields, "ok")
                 \/ answer = Refused("final")
        PROVE  Does(k)
    <3>1. srv' = srv /\ HeadOp(k).op = "create"
      BY <1>3 DEF ReadForCreate
    <3>2. Says(k, answer)
      BY <2>5, <3>1 DEF Says, Refused, Answer
    <3> QED BY <2>1, <2>5, <3>2
  <2>6. \/ Finish(k, Answer("alreadyApplied", srv[HeadOp(k).id], NoFields, "ok"))
        \/ Finish(k, Answer("alreadyApplied", None, NoFields, "ok"))
        \/ Finish(k, Refused("final"))
        \/ reqs' = [reqs EXCEPT ![k].read = [vals |-> Filled(HeadOp(k).fields), at |-> 0]]
    BY <1>3 DEF ReadForCreate
  <2> QED BY <2>1, <2>3, <2>4, <2>5, <2>6
<1>4. ASSUME NEW k \in Lanes, ReadForUpdate(k)
      PROVE  Does(k)
  <2>1. Working(k) /\ HeadOp(k).id \in Ids
    BY <1>4, HeadTypes DEF ReadForUpdate, Reads, Entries
  <2>2. srv[HeadOp(k).id] \in Rows \cup {None}
    BY <1>0, <2>1 DEF Mirrors
  <2>3. Refused("gone") \in Answers /\ Refused("final") \in Answers
    BY RefusedType DEF Codes
  <2>4. \A code : Says(k, Refused(code))
    BY DEF Says, Refused, Answer, Succeeded
  <2> QED BY <1>4, <2>1, <2>2, <2>3, <2>4 DEF ReadForUpdate
<1>5. ASSUME NEW k \in Lanes, WriteCreate(k)
      PROVE  Does(k)
  <2> DEFINE row == [vals |-> Filled(HeadOp(k).fields), at |-> clock + 1]
  <2>1. Working(k) /\ HeadOp(k).fields \in OpFields /\ HeadOp(k).id \in Ids
    BY <1>5, HeadTypes DEF WriteCreate, Writes, Entries
  <2>2. row \in Rows
    BY <1>0, <2>1, RowTypes DEF Rows
  <2>3. Answer("applied", row, NoFields, "ok") \in Answers
    BY <2>2, AnswerType, RowTypes DEF Statuses, Codes
  <2>4. srv'[HeadOp(k).id] = row /\ Finish(k, Answer("applied", row, NoFields, "ok"))
    BY <1>0, <1>5, <2>1 DEF WriteCreate, Mirrors
  <2>5. Says(k, Answer("applied", row, NoFields, "ok"))
    BY <2>2, <2>4, RowAssumption DEF Says, Answer
  <2> QED BY <2>1, <2>3, <2>4, <2>5
<1>6. ASSUME NEW k \in Lanes, WriteUpdate(k)
      PROVE  Does(k)
  <2> DEFINE e == HeadOp(k)
             row == [vals |-> Overlay(srv[e.id].vals, e.fields), at |-> clock + 1]
  <2>1. Working(k) /\ e \in Entries /\ e.id \in Ids /\ e.fields \in OpFields
    BY <1>6, HeadTypes DEF WriteUpdate, Writes, Entries
  <2>2. row \in Rows
    <3>1. srv[e.id].vals \in RowVals
      BY <1>0, <1>6, <2>1 DEF WriteUpdate, Mirrors, Rows
    <3> QED BY <1>0, <2>1, <3>1, OverlayTypes DEF Rows
  <2>3. reqs[k].read \in Rows
    BY <1>6, <2>1, HeadTypes DEF WriteUpdate, Writes, Requests
  <2>4. Answer("applied", row, Receipts(e, reqs[k].read), "ok") \in Answers
    BY <2>1, <2>2, <2>3, MergeTypes, AnswerType DEF Statuses, Codes
  <2>5. /\ srv'[e.id] = row /\ WriteUpdate(k)
        /\ Finish(k, Answer("applied", row, Receipts(e, reqs[k].read), "ok"))
    BY <1>0, <1>6, <2>1 DEF WriteUpdate, Mirrors
  <2>6. Says(k, Answer("applied", row, Receipts(e, reqs[k].read), "ok"))
    BY <2>2, <2>5, RowAssumption DEF Says, Answer
  <2> QED BY <2>1, <2>4, <2>5, <2>6
<1>7. ASSUME NEW k \in Lanes, WriteAborts(k)
      PROVE  Does(k)
  BY <1>7 DEF WriteAborts
<1>8. ASSUME NEW k \in Lanes, DeleteRow(k)
      PROVE  Does(k)
  <2>1. /\ Answer("alreadyApplied", None, NoFields, "ok") \in Answers
        /\ Answer("applied", None, NoFields, "ok") \in Answers
    BY AnswerType, RowTypes DEF Statuses, Codes
  <2>2. HeadOp(k).op = "delete"
    BY <1>8 DEF DeleteRow
  <2>3. \A status : Says(k, Answer(status, None, NoFields, "ok"))
    BY <2>2 DEF Says, Answer
  <2> QED BY <1>8, <2>1, <2>3 DEF DeleteRow, Reads
<1>9. CASE LateEnds
  <2>1. Does("late")
    BY <1>9 DEF LateEnds
  <2> QED BY <2>1 DEF Lanes
<1> HIDE DEF Does
<1> QED BY <1>1, <1>2, <1>3, <1>4, <1>5, <1>6, <1>7, <1>8, <1>9 DEF ServerStep

(* Whatever of a batch the account has not answered, it has still to do.   *)
LEMMA NothingSkipped ==
  ASSUME TypeInv, ServerStep, reqs'["live"] # None,
         Held(batch) \subseteq reqs["live"].todo \cup Held(reqs["live"].answers)
  PROVE  Held(batch) \subseteq reqs'["live"].todo \cup Held(reqs'["live"].answers)
<1>0. TypeOK /\ "live" \in Lanes
  BY DEF TypeInv, Lanes
<1>1. ASSUME NEW k \in Lanes, Working(k), NEW answer \in Answers, Finish(k, answer)
      PROVE  Held(batch) \subseteq reqs'["live"].todo \cup Held(reqs'["live"].answers)
  <2>1. /\ reqs[k] \in Requests /\ HeadSeq(k) \in Seqs
    BY <1>1, HeadTypes
  <2>2. /\ reqs'[k].todo = reqs[k].todo \ {HeadSeq(k)}
        /\ reqs'[k].answers = [reqs[k].answers EXCEPT ![HeadSeq(k)] = answer]
        /\ \A l \in Lanes : l # k => reqs'[l] = reqs[l]
    BY <1>0, <1>1, <2>1 DEF Finish, TypeOK, Requests
  <2>3. reqs[k].answers \in [Seqs -> Answers \cup {None}] /\ answer # None
    BY <2>1, AnswerAssumption DEF Requests
  <2>4. Held(reqs[k].answers) \cup {HeadSeq(k)} \subseteq Held(reqs'[k].answers)
    BY <1>1, <2>1, <2>2, <2>3 DEF Held
  <2> QED BY <1>0, <2>2, <2>4
<1>2. ASSUME NEW k \in Lanes, Working(k), NEW row, reqs' = [reqs EXCEPT ![k].read = row]
      PROVE  Held(batch) \subseteq reqs'["live"].todo \cup Held(reqs'["live"].answers)
  <2>1. reqs[k] \in Requests
    BY <1>2, HeadTypes
  <2>2. /\ reqs'[k].todo = reqs[k].todo /\ reqs'[k].answers = reqs[k].answers
        /\ \A l \in Lanes : l # k => reqs'[l] = reqs[l]
    BY <1>0, <1>2, <2>1 DEF TypeOK, Requests
  <2> QED BY <1>0, <2>2
<1>3. ASSUME NEW k \in Lanes, reqs' = [reqs EXCEPT ![k] = None]
      PROVE  Held(batch) \subseteq reqs'["live"].todo \cup Held(reqs'["live"].answers)
  BY <1>0, <1>3 DEF TypeOK
<1> QED BY <1>1, <1>2, <1>3, ServerDoes

(* No op is in flight but those of the batch that wait for their answer.   *)
LEMMA InflightStep ==
  ASSUME KeptInv, InflightOK, [Next]_vars
  PROVE  InflightOK'
<1> USE DEF phoneVars, cycleVars
<1>0. /\ TypeInv /\ TypeOK /\ ParkedInv /\ CycleOK /\ RequestsOK /\ nextSeq \in Nat
      /\ \A s \in Held(outbox) : outbox[s] \in Entries
      /\ \A s \in Held(batch) : s < nextSeq /\ s \in Nat
  BY KeptTypes DEF KeptInv, TypeInv, LedgersOK, Ledgers, Held, Seqs
<1>1. CASE UserStep
  <2>1. UNCHANGED <<pc, batch, answers, reqs>>
    BY <1>1 DEF UserStep, Create, UpdateText, UpdateRef, Update, Delete, Retry, Discard,
                Recreate, Reset
  <2>2. Inflight' \subseteq Inflight
    <3>1. \A s \in Held(outbox)' : UserMove(s)
      BY <1>0, <1>1, UserMoveStep
    <3> QED BY <3>1 DEF Inflight, InState, UserMove
  <2>3. pc \in InResult => Cur \notin Held(outbox)'
    <3>1. \A s \in Held(outbox)' : s \in Held(outbox) \/ s = nextSeq
      BY <1>0, <1>1, UserMoveStep DEF UserMove
    <3>2. pc \in InResult => Cur \in Held(batch) /\ Cur \notin Held(outbox)
      BY <1>0, CurTypes DEF CycleOK, InflightOK
    <3> QED BY <1>0, <3>1, <3>2
  <2>4. Cur' = Cur /\ Held(batch)' = Held(batch) /\ Held(answers)' = Held(answers)
    BY <2>1 DEF Cur, Held
  <2> QED BY <2>1, <2>2, <2>3, <2>4 DEF InflightOK
<1>2. CASE PullStep
  <2>1. pc \in {"pull", "fetched", "merge"} /\ pc' \in {"fetched", "merge", "idle"}
    BY <1>2 DEF PullStep, FetchPage, PullFails, LoadForRebase, ApplyPage, ApplyPageFails
  <2>2. UNCHANGED reqs /\ reqs["live"] = None
    BY <1>0, <1>2, <2>1 DEF PullStep, FetchPage, PullFails, LoadForRebase, ApplyPage,
                            ApplyPageFails, RequestsOK
  <2> QED BY <2>1, <2>2 DEF InflightOK, InResult
<1>3. CASE ServerStep
  <2>1. UNCHANGED <<outbox, pc, batch, answers>>
    BY <1>3 DEF ServerStep, SkipDependent, RefuseOp, ReadForCreate, ReadForUpdate,
                WriteCreate, WriteUpdate, WriteAborts, DeleteRow, LateEnds
  <2>2. /\ Cur' = Cur /\ Held(batch)' = Held(batch) /\ Held(answers)' = Held(answers)
        /\ Held(outbox)' = Held(outbox) /\ Inflight' = Inflight
    BY <2>1 DEF Cur, Held, Inflight, InState
  <2>3. reqs'["live"] # None => reqs["live"] # None
    BY <1>0, <1>3, ServerMoves DEF Lanes
  <2>4. reqs'["live"] # None
          => Held(batch) \subseteq reqs'["live"].todo \cup Held(reqs'["live"].answers)
    BY <1>0, <1>3, <2>3, NothingSkipped DEF InflightOK
  <2>5. Held(reqs["live"].answers)' = Held(reqs'["live"].answers)
    BY DEF Held
  <2> QED BY <2>1, <2>2, <2>4, <2>5 DEF InflightOK
<1>4. CASE WorldStep
  <2>1. CASE Crash
    BY <1>0, <2>1 DEF Crash, InflightOK, InResult, TypeOK, Lanes
  <2>2. CASE UNCHANGED <<outbox, pc, batch, answers, reqs>>
    BY <2>2 DEF InflightOK, Inflight, InState, Held, Cur
  <2> QED BY <1>4, <2>1, <2>2 DEF WorldStep, ForeignEdit, ForeignDelete
<1>5. CASE UNCHANGED vars
  BY <1>5 DEF vars, InflightOK, Inflight, InState, Held, Cur
<1>6. CASE FlushStep
  <2> SUFFICES ASSUME FlushStep PROVE InflightOK'
    BY <1>6
  <2>0. pc' # "sent" => reqs'["live"] = None
    BY <1>0, NextTypes DEF Next, TypeInv, RequestsOK
  <2>1. CASE StartCycle
    <3>1. Inflight' = {}
      <4> SUFFICES ASSUME NEW s \in Inflight' PROVE FALSE
        OBVIOUS
      <4>1. s \in Seqs /\ outbox'[s] # None /\ outbox'[s].state = "inflight"
        BY DEF Inflight, InState, Held
      <4>2. outbox'[s] = IF s \in InState(outbox, RecoveredStates)
                         THEN [outbox[s] EXCEPT !.state = "queued"] ELSE outbox[s]
        BY <2>1, <4>1 DEF StartCycle
      <4>3. s \notin InState(outbox, RecoveredStates)
        <5>1. ASSUME s \in InState(outbox, RecoveredStates) PROVE outbox'[s].state = "queued"
          BY <1>0, <4>2, <5>1 DEF InState, Entries
        <5> QED BY <4>1, <5>1
      <4> QED BY <4>1, <4>2, <4>3 DEF InState, RecoveredStates, Held
    <3>2. pc' = "select"
      BY <2>1 DEF StartCycle
    <3> QED BY <2>0, <3>1, <3>2 DEF InflightOK, InResult
  <2>2. CASE LoadBatch
    <3>1. pc = "select" /\ pc' \in {"pull", "loaded"} /\ outbox' = outbox
      BY <2>2 DEF LoadBatch
    <3>2. Inflight' = {}
      BY <3>1 DEF InflightOK, Inflight, InState, Held
    <3> QED BY <2>0, <3>1, <3>2 DEF InflightOK, InResult
  <2>3. CASE Send
    <3>1. pc = "loaded" /\ pc' = "sent" /\ batch' = batch
      BY <2>3 DEF Send
    <3>2. Inflight' \subseteq Held(batch)
      <4> SUFFICES ASSUME NEW s \in Inflight', s \notin Held(batch) PROVE FALSE
        OBVIOUS
      <4>1. s \in Seqs /\ outbox'[s] # None /\ outbox'[s].state = "inflight" /\ batch[s] = None
        BY DEF Inflight, InState, Held
      <4>2. outbox'[s] = outbox[s]
        BY <2>3, <4>1 DEF Send
      <4> QED BY <3>1, <4>1, <4>2 DEF InflightOK, Inflight, InState, Held
    <3>3. reqs'["live"].todo = Held(batch)
      BY <1>0, <2>3 DEF Send, TypeOK, Lanes
    <3>4. Held(batch)' = Held(batch)
      BY <3>1 DEF Held
    <3> QED BY <3>1, <3>2, <3>3, <3>4 DEF InflightOK, InResult
  <2>4. CASE RequestFails
    <3>1. pc' = "pull"
      BY <2>4 DEF RequestFails
    <3> QED BY <2>0, <3>1 DEF InflightOK, InResult
  <2>5. CASE Reply
    <3>1. /\ pc = "sent" /\ pc' = "apply" /\ outbox' = outbox
          /\ answers' = reqs["live"].answers
          /\ reqs["live"] # None /\ reqs["live"].todo = {}
      BY <2>5 DEF Reply
    <3>2. Inflight' = Inflight /\ Held(answers)' = Held(reqs["live"].answers)
      BY <3>1 DEF Inflight, InState, Held
    <3>3. Inflight \subseteq Held(reqs["live"].answers)
      BY <3>1 DEF InflightOK
    <3> QED BY <2>0, <3>1, <3>2, <3>3 DEF InflightOK, InResult
  <2>6. CASE BatchDone
    <3>1. pc = "apply" /\ pc' = "select" /\ outbox' = outbox /\ Held(answers) = {}
      BY <2>6 DEF BatchDone
    <3>2. Inflight' = {}
      BY <3>1 DEF InflightOK, Inflight, InState, Held
    <3> QED BY <2>0, <3>1, <3>2 DEF InflightOK, InResult
  <2>7. ASSUME pc \in InResult \cup {"apply"}, Held(answers) # {},
               Cur \notin Inflight', Inflight' \subseteq Inflight, NextResult
        PROVE  InflightOK'
    <3>1. pc' = "apply" /\ answers' = [answers EXCEPT ![Cur] = None]
      BY <2>7 DEF NextResult
    <3>2. Held(answers) \ {Cur} \subseteq Held(answers)'
      BY <1>0, <3>1 DEF TypeOK, Held
    <3>3. Inflight' \subseteq Held(answers)'
      BY <2>7, <3>2 DEF InflightOK
    <3> QED BY <2>0, <3>1, <3>3 DEF InflightOK, InResult
  <2>8. ASSUME pc \in InResult \cup {"apply"}, pc' \in InResult, UNCHANGED answers,
               Cur \notin Held(outbox)', Inflight' \subseteq Inflight
        PROVE  InflightOK'
    <3>1. Cur' = Cur /\ Held(answers)' = Held(answers)
      BY <2>8 DEF Cur, Held
    <3> QED BY <2>0, <2>8, <3>1 DEF InflightOK, InResult
  <2>9. CASE ApplySuccess
    <3>1. Cur \in Seqs /\ outbox' = [outbox EXCEPT ![Cur] = None] /\ Held(answers) # {}
          /\ pc = "apply"
      BY <1>0, <2>9, CurTypes DEF ApplySuccess
    <3>2. Cur \notin Held(outbox)' /\ Inflight' \subseteq Inflight
      BY <1>0, <3>1 DEF Held, Inflight, InState, TypeOK, Outboxes
    <3>3. Cur \notin Inflight'
      BY <3>2 DEF Inflight, InState
    <3>4. NextResult \/ (pc' \in InResult /\ UNCHANGED answers)
      BY <2>9 DEF ApplySuccess, AfterShelving, InResult
    <3> QED BY <2>7, <2>8, <3>1, <3>2, <3>3, <3>4
  <2>10. CASE Shelve \/ Reread \/ ConfirmRow
    <3>1. /\ pc \in InResult /\ outbox' = outbox
          /\ NextResult \/ (pc' \in InResult /\ UNCHANGED answers)
      BY <2>10 DEF Shelve, Reread, ConfirmRow, AfterShelving, InResult
    <3>2. Held(answers) # {} /\ Cur \notin Held(outbox)
      BY <1>0, <3>1 DEF CycleOK, InflightOK
    <3>3. Held(outbox)' = Held(outbox) /\ Inflight' = Inflight
      BY <3>1 DEF Inflight, InState, Held
    <3>4. Cur \notin Inflight'
      BY <3>2, <3>3 DEF Inflight, InState
    <3> QED BY <2>7, <2>8, <3>1, <3>2, <3>3, <3>4
  <2>11. CASE ApplyRefusal
    <3>1. /\ pc = "apply" /\ Held(answers) # {} /\ NextResult /\ Cur \in Seqs
          /\ Result \in Answers
      BY <1>0, <2>11, CurTypes DEF ApplyRefusal
    <3>2. PICK dayOver \in BOOLEAN :
            outbox' = [outbox EXCEPT ![Cur] =
                        IF @ = None THEN None
                        ELSE IF Result.status = "dependencyFailed"
                        THEN [@ EXCEPT !.state = "queued"]
                        ELSE Park(@, Result.code, dayOver)]
      BY <2>11 DEF ApplyRefusal
    <3>3. Cur \notin Inflight'
      <4>1. CASE outbox[Cur] = None
        BY <1>0, <3>1, <3>2, <4>1 DEF Inflight, InState, Held, TypeOK, Outboxes
      <4>2. CASE outbox[Cur] # None
        <5>1. outbox[Cur] \in Entries
          BY <1>0, <3>1, <4>2 DEF Held
        <5>2. [outbox[Cur] EXCEPT !.state = "queued"].state = "queued"
          BY <5>1 DEF Entries
        <5>3. Park(outbox[Cur], Result.code, dayOver).state \in {"deadRemote", "retrying", "blocked"}
          BY <5>1 DEF Park, Entries
        <5>4. outbox'[Cur] \in {[outbox[Cur] EXCEPT !.state = "queued"],
                                Park(outbox[Cur], Result.code, dayOver)}
          BY <1>0, <3>1, <3>2, <4>2 DEF TypeOK, Outboxes
        <5> QED BY <5>2, <5>3, <5>4 DEF Inflight, InState
      <4> QED BY <4>1, <4>2
    <3>4. Inflight' \subseteq Inflight
      <4> SUFFICES ASSUME NEW s \in Inflight', s # Cur PROVE s \in Inflight
        BY <3>3
      <4> QED BY <1>0, <3>1, <3>2 DEF Inflight, InState, Held, TypeOK, Outboxes
    <3> QED BY <2>7, <3>1, <3>3, <3>4
  <2> QED BY <2>1, <2>2, <2>3, <2>4, <2>5, <2>6, <2>9, <2>10, <2>11 DEF FlushStep
<1> QED BY <1>1, <1>2, <1>3, <1>4, <1>5, <1>6 DEF Next

(* A batch is cut at a number of ready ops: what is ready before an op of  *)
(* the batch is in it.                                                     *)
LEMMA BatchIsPrefix ==
  ASSUME NEW ob, NEW s \in SelectFlushBatch(ob), NEW r \in Ready(ob), r <= s
  PROVE  r \in SelectFlushBatch(ob)
<1> DEFINE UpTo(q) == {p \in Ready(ob) : p <= q}
<1>1. Ready(ob) \subseteq 1 .. MaxSeq /\ s \in Ready(ob)
  BY DEF Ready, InState, Held, Seqs, SelectFlushBatch
<1>2. r \in Nat /\ s \in Nat /\ \A p \in Ready(ob) : p \in Nat
  BY <1>1, PlanAssumption
<1>3. UpTo(r) \subseteq UpTo(s)
  <2>1. ASSUME NEW p \in Ready(ob), p <= r
        PROVE  p <= s
    BY <1>2, <2>1
  <2> QED BY <2>1
<1>4. IsFiniteSet(UpTo(s))
  <2>1. IsFiniteSet(1 .. MaxSeq)
    BY FS_Interval, PlanAssumption
  <2>2. UpTo(s) \subseteq 1 .. MaxSeq
    BY <1>1
  <2> HIDE DEF UpTo
  <2> QED BY <2>1, <2>2, FS_Subset
<1>5. /\ Cardinality(UpTo(r)) <= Cardinality(UpTo(s))
      /\ Cardinality(UpTo(r)) \in Nat /\ Cardinality(UpTo(s)) \in Nat
  <2> HIDE DEF UpTo
  <2>1. IsFiniteSet(UpTo(r))
    BY <1>3, <1>4, FS_Subset
  <2> QED BY <1>3, <1>4, <2>1, FS_Subset, FS_CardinalityType
<1>6. Cardinality(UpTo(s)) <= BatchMax
  BY DEF SelectFlushBatch
<1>7. Cardinality(UpTo(r)) <= BatchMax
  <2> HIDE DEF UpTo
  <2> QED BY <1>5, <1>6, PlanAssumption
<1> QED BY <1>7 DEF SelectFlushBatch

(* The batch, as chosen, has every create an update of it depends on.      *)
LEMMA ChosenLeads ==
  ASSUME KeptInv, OrderInv, LoadBatch, pc' = "loaded"
  PROVE  BatchLeads'
<1>0. /\ outbox \in Outboxes /\ UNCHANGED outbox /\ pc = "select" /\ pc' = "loaded"
      /\ SelectFlushBatch(outbox) # {}
      /\ batch' = [s \in Seqs |-> IF s \in SelectFlushBatch(outbox) THEN outbox[s] ELSE None]
  BY KeptTypes DEF LoadBatch, phoneVars, KeptInv, TypeOK
<1> SUFFICES ASSUME NEW s \in Held(batch)', batch'[s].op = "update",
                    NEW r \in Held(outbox), IsCreate(outbox[r]),
                    outbox[r].id \in Dependencies(batch'[s])
             PROVE  r < s /\ batch'[r] # None
  BY <1>0 DEF BatchLeads, Held, Dependencies
<1>1. /\ s \in SelectFlushBatch(outbox) /\ s \in Ready(outbox) /\ batch'[s] = outbox[s]
      /\ s \in Held(outbox) /\ s \in Nat /\ r \in Nat /\ r \in Seqs
  <2>1. s \in Seqs /\ batch'[s] # None
    BY DEF Held
  <2>2. s \in SelectFlushBatch(outbox) /\ batch'[s] = outbox[s]
    BY <1>0, <2>1
  <2> QED BY <2>1, <2>2 DEF SelectFlushBatch, Ready, InState, Held, Seqs
<1>2. outbox[r].id = outbox[s].id \/ outbox[r].id \in LinkOf(outbox[s])
  BY <1>1 DEF Dependencies, LinkOf
<1>3. r < s
  <2>1. CASE outbox[r].id = outbox[s].id
    <3>1. r <= s /\ r # s
      BY <1>1, <2>1 DEF OrderInv, CreatesFirst, IsCreate
    <3> QED BY <1>1, <3>1
  <2>2. CASE outbox[r].id \in LinkOf(outbox[s])
    BY <1>1, <2>2 DEF OrderInv, UpdatesFollow
  <2> QED BY <1>2, <2>1, <2>2
<1>4. outbox[r].state # "inflight"
  BY <1>0 DEF OrderInv, InflightOK, Inflight, InState
<1>5. r \in Ready(outbox)
  BY <1>0, <1>1, <1>3, <1>4, ReadyLeads
<1>6. r \in SelectFlushBatch(outbox)
  BY <1>1, <1>3, <1>5, BatchIsPrefix
<1> QED BY <1>0, <1>1, <1>3, <1>6 DEF Held

(* No create comes up afterwards that the batch's ops depend on.           *)
LEMMA BatchLeadsStep ==
  ASSUME KeptInv, OrderInv, [Next]_vars
  PROVE  BatchLeads'
<1> USE DEF phoneVars, cycleVars
<1>0. TypeInv /\ ParkedInv /\ \A s \in Held(batch) : batch[s].id \in ghost.minted
  BY KeptTypes DEF KeptInv, LedgersOK, Ledgers
<1>1. ASSUME UNCHANGED batch, pc \in {"loaded", "sent"},
             \A r \in Held(outbox)' :
               IsCreate(outbox'[r])
                 => \/ outbox'[r].id \notin ghost.minted
                    \/ /\ r \in Held(outbox) /\ IsCreate(outbox[r])
                       /\ outbox'[r].id = outbox[r].id
      PROVE  BatchLeads'
  <2> SUFFICES ASSUME NEW s \in Held(batch), batch[s].op = "update",
                      NEW r \in Held(outbox)', IsCreate(outbox'[r]),
                      outbox'[r].id \in Dependencies(batch[s])
               PROVE  r < s /\ batch[r] # None
    BY <1>1 DEF BatchLeads, Held, Dependencies
  <2>1. Dependencies(batch[s]) \subseteq ghost.minted
    BY <1>0 DEF Dependencies, OrderInv, LinksMinted, LinkOf
  <2>2. r \in Held(outbox) /\ IsCreate(outbox[r]) /\ outbox'[r].id = outbox[r].id
    BY <1>1, <2>1
  <2> QED BY <1>1, <2>2 DEF OrderInv, BatchLeads
<1>2. CASE NoNewOp
  <2>1. \A r \in Held(outbox)' : r \in Held(outbox) /\ Same(r)
    BY <1>0, <1>2, NoNewOpSlides DEF Slide
  <2>2. CASE LoadBatch
    <3>1. CASE pc' = "loaded"
      BY <2>2, <3>1, ChosenLeads
    <3>2. CASE pc' # "loaded"
      BY <2>2, <3>2 DEF LoadBatch, BatchLeads
    <3> QED BY <3>1, <3>2
  <2>3. CASE pc' \notin {"loaded", "sent"}
    BY <2>3 DEF BatchLeads
  <2>4. CASE UNCHANGED batch /\ pc \in {"loaded", "sent"}
    BY <1>1, <2>1, <2>4 DEF Same, IsCreate
  <2>5. LoadBatch \/ pc' \notin {"loaded", "sent"} \/ (UNCHANGED batch /\ pc \in {"loaded", "sent"})
    BY <1>2 DEF NoNewOp, vars, Retry, Discard, Reset, FlushStep, StartCycle, Send, RequestFails,
           Reply, BatchDone, ApplySuccess, Shelve, Reread, ConfirmRow, ApplyRefusal,
           AfterShelving, NextResult,
           PullStep, FetchPage, PullFails, LoadForRebase, ApplyPage, ApplyPageFails, ServerStep,
           SkipDependent, RefuseOp, ReadForCreate, ReadForUpdate, WriteCreate, WriteUpdate,
           WriteAborts, DeleteRow, LateEnds, WorldStep, Crash, ForeignEdit, ForeignDelete
  <2> QED BY <2>2, <2>3, <2>4, <2>5
<1>3. ASSUME NEW e \in Entries, Adds(e)
      PROVE  BatchLeads'
  <2>1. UNCHANGED <<pc, batch>>
    BY <1>3 DEF Adds, AddsOp
  <2>2. CASE pc \notin {"loaded", "sent"}
    BY <2>1, <2>2 DEF BatchLeads
  <2>3. ASSUME NEW r \in Held(outbox)', IsCreate(outbox'[r])
        PROVE  \/ outbox'[r].id \notin ghost.minted
               \/ /\ r \in Held(outbox) /\ IsCreate(outbox[r])
                  /\ outbox'[r].id = outbox[r].id
    <3>1. CASE r \in MergeTargets(outbox, e) /\ outbox'[r] = Merged(outbox[r], e)
      <4>1. r \in Held(outbox) /\ outbox[r] \in Entries
        BY <1>0, <3>1, KeptTypes DEF MergeTargets, QueuedCreates, SameRowQueued, OfRow, InState
      <4> QED BY <2>3, <3>1, <4>1, <1>3, MergedOp DEF IsCreate
    <3> QED BY <1>3, <2>3, <3>1 DEF Adds, AddsOp
  <2> QED BY <1>1, <2>1, <2>2, <2>3
<1> QED BY <1>2, <1>3, OpsCome

(* A batch leads with the creates its updates need.                        *)
LEMMA OrderInvariant ==
  Spec => []OrderInv
<1>1. Init => OrderInv
  <2> SUFFICES ASSUME Init PROVE OrderInv
    OBVIOUS
  <2>1. Held(outbox) = {} /\ Held(batch) = {} /\ reqs["live"] = None /\ pc = "idle"
    BY DEF Init, NoOps, Held, Lanes
  <2>2. Live(mirror) \subseteq ghost.minted
    BY DEF Init, Live
  <2> QED BY <2>1, <2>2 DEF OrderInv, CreatesFirst, LinksMinted, RowsMinted, UpdatesFollow,
                            InflightOK, Inflight, InState, BatchLeads, InResult
<1>2. KeptInv /\ OrderInv /\ [Next]_vars => OrderInv'
  BY CreatesStayFirst, RowsStayMinted, LinksStayBehind, InflightStep, BatchLeadsStep
     DEF OrderInv
<1>3. Spec => []KeptInv
  BY KeptInvariant
<1> QED BY <1>1, <1>2, <1>3, PTL DEF Spec

(* No update is on its way without the create of a row it names before it  *)
(* in the same request, if that create is still to be confirmed.           *)
THEOREM UpdatesFollowCreates ==
  Spec => []UpdatesGoAfterCreates
<1>1. KeptInv /\ OrderInv => UpdatesGoAfterCreates
  <2> SUFFICES ASSUME KeptInv, OrderInv, reqs["live"] # None,
                      NEW s \in reqs["live"].todo, reqs["live"].batch[s].op = "update",
                      NEW r \in Seqs, outbox[r] # None, outbox[r].op = "create",
                      outbox[r].id \in Dependencies(reqs["live"].batch[s])
               PROVE  r < s /\ reqs["live"].batch[r] # None
    BY DEF UpdatesGoAfterCreates, Leads
  <2>1. pc = "sent" /\ reqs["live"].batch = batch /\ s \in Held(batch)
    BY KeptTypes DEF KeptInv, TypeInv, RequestsOK, Lanes
  <2> QED BY <2>1 DEF OrderInv, BatchLeads, IsCreate, Held
<1> QED BY <1>1, KeptInvariant, OrderInvariant, PTL

-----------------------------------------------------------------------------
(* The other device's texts                                                *)

(* The other device's texts that were never on the screen, and those of    *)
(* them that no pending edit hid there either.                             *)
Unseen    == ghost.foreign \ ghost.seen
Unnoticed == Unseen \ ghost.masked

(* What the properties remember of the other device only grows, and so     *)
(* does the shelf; a text becomes foreign as it is written.                *)
LEMMA Remembers ==
  ASSUME TypeInv, [Next]_vars
  PROVE  /\ ghost.seen \subseteq ghost'.seen /\ ghost.masked \subseteq ghost'.masked
         /\ ghost.excused \subseteq ghost'.excused /\ shelf \subseteq shelf'
         /\ \/ ghost'.foreign = ghost.foreign
            \/ /\ ghost'.foreign = ghost.foreign \cup {stamp + 1}
               /\ stamp' = stamp + 1 /\ stamp + 1 \in Values
               /\ \E i \in Ids : ForeignEdit(i)
         /\ ghost'.displaced = ghost.displaced \/ \E k \in Lanes : WriteUpdate(k)
<1> USE DEF phoneVars
<1>0. ghost \in Ghosts /\ stamp \in Nat
  BY PlanAssumption DEF TypeInv, TypeOK
<1>1. CASE UserStep
  <2>1. UNCHANGED shelf
    BY <1>1 DEF UserStep, Create, UpdateText, UpdateRef, Update, Delete, Retry, Discard,
                Recreate, Reset
  <2>2. /\ ghost'.foreign = ghost.foreign /\ ghost'.seen = ghost.seen
        /\ ghost'.masked = ghost.masked /\ ghost'.excused = ghost.excused
        /\ ghost'.displaced = ghost.displaced
    <3>1. CASE UNCHANGED ghost
      BY <3>1
    <3>2. ASSUME NEW e, NEW owed, NEW gone, Remember(e, owed, gone)
          PROVE  /\ ghost'.foreign = ghost.foreign /\ ghost'.seen = ghost.seen
                 /\ ghost'.masked = ghost.masked /\ ghost'.excused = ghost.excused
                 /\ ghost'.displaced = ghost.displaced
      BY <1>0, <3>2 DEF Remember, Ghosts
    <3>3. ASSUME NEW s \in Seqs, Discard(s) \/ \E i \in Places : Recreate(s, i)
          PROVE  /\ ghost'.foreign = ghost.foreign /\ ghost'.seen = ghost.seen
                 /\ ghost'.masked = ghost.masked /\ ghost'.excused = ghost.excused
                 /\ ghost'.displaced = ghost.displaced
      BY <1>0, <3>3 DEF Discard, Recreate, Ghosts
    <3>4. CASE Reset
      BY <1>0, <3>4 DEF Reset, Ghosts
    <3>5. ASSUME NEW i \in Ids, Create(i) \/ UpdateText(i) \/ UpdateRef(i) \/ Delete(i)
          PROVE  \E e, owed, gone : Remember(e, owed, gone)
      <4>1. ASSUME NEW f, NEW v, Update(i, f, v)
            PROVE  \E e, owed, gone : Remember(e, owed, gone)
        BY <4>1 DEF Update
      <4>2. CASE Create(i)
        BY <4>2 DEF Create
      <4>3. CASE Delete(i)
        BY <4>3 DEF Delete
      <4> QED BY <3>5, <4>1, <4>2, <4>3 DEF UpdateText, UpdateRef
    <3>6. \A s \in Seqs : Retry(s) => UNCHANGED ghost
      BY DEF Retry
    <3> QED BY <1>1, <3>1, <3>2, <3>3, <3>4, <3>5, <3>6 DEF UserStep
  <2> QED BY <2>1, <2>2
<1>2. CASE FlushStep
  <2>1. shelf \subseteq shelf'
    BY <1>2 DEF FlushStep, StartCycle, LoadBatch, Send, RequestFails, Reply, BatchDone,
                ApplySuccess, Shelve, Reread, ConfirmRow, ApplyRefusal
  <2>2. UNCHANGED ghost \/ RequestFails \/ ConfirmRow
    BY <1>2 DEF FlushStep, StartCycle, LoadBatch, Send, Reply, BatchDone,
                ApplySuccess, Shelve, Reread, ApplyRefusal
  <2>3. CASE RequestFails
    BY <1>0, <2>1, <2>3 DEF RequestFails, Ghosts
  <2>4. CASE ConfirmRow
    BY <1>0, <2>1, <2>4 DEF ConfirmRow, Look, Ghosts
  <2> QED BY <2>1, <2>2, <2>3, <2>4
<1>3. CASE PullStep
  <2>1. UNCHANGED shelf /\ (UNCHANGED ghost \/ ApplyPage)
    BY <1>3 DEF PullStep, FetchPage, PullFails, LoadForRebase, ApplyPage, ApplyPageFails
  <2> QED BY <1>0, <2>1 DEF ApplyPage, Look, Ghosts
<1>4. CASE ServerStep
  <2>1. UNCHANGED shelf
    BY <1>4 DEF ServerStep, SkipDependent, RefuseOp, ReadForCreate, ReadForUpdate,
                WriteCreate, WriteUpdate, WriteAborts, DeleteRow, LateEnds
  <2>2. ASSUME NEW k \in Lanes, WriteUpdate(k)
        PROVE  /\ ghost'.seen = ghost.seen /\ ghost'.masked = ghost.masked
               /\ ghost.excused \subseteq ghost'.excused /\ ghost'.foreign = ghost.foreign
    BY <1>0, <2>2 DEF WriteUpdate, Ghosts
  <2>3. ASSUME NEW k \in Lanes, RefuseOp(k) \/ WriteAborts(k) \/ WriteCreate(k)
        PROVE  /\ ghost'.seen = ghost.seen /\ ghost'.masked = ghost.masked
               /\ ghost.excused \subseteq ghost'.excused /\ ghost'.foreign = ghost.foreign
               /\ ghost'.displaced = ghost.displaced
    BY <1>0, <2>3 DEF RefuseOp, WriteAborts, WriteCreate, Ghosts
  <2>4. \/ UNCHANGED ghost
        \/ \E k \in Lanes : RefuseOp(k) \/ WriteAborts(k) \/ WriteCreate(k) \/ WriteUpdate(k)
    BY <1>4 DEF ServerStep, SkipDependent, ReadForCreate, ReadForUpdate, DeleteRow, LateEnds
  <2> QED BY <2>1, <2>2, <2>3, <2>4
<1>5. CASE WorldStep
  <2>1. UNCHANGED shelf
    BY <1>5 DEF WorldStep, Crash, ForeignEdit, ForeignDelete
  <2>2. CASE Crash
    BY <1>0, <2>1, <2>2 DEF Crash, Ghosts
  <2>3. ASSUME NEW i \in Ids, ForeignEdit(i)
        PROVE  /\ ghost'.foreign = ghost.foreign \cup {stamp + 1}
               /\ stamp' = stamp + 1 /\ stamp + 1 \in Values
               /\ ghost'.seen = ghost.seen /\ ghost'.masked = ghost.masked
               /\ ghost.excused \subseteq ghost'.excused
               /\ ghost'.displaced = ghost.displaced
    BY <1>0, <2>3, PlanAssumption DEF ForeignEdit, Ghosts, Values
  <2> QED BY <1>5, <2>1, <2>2, <2>3 DEF WorldStep, ForeignDelete
<1>6. CASE UNCHANGED vars
  BY <1>6 DEF vars
<1> QED BY <1>1, <1>2, <1>3, <1>4, <1>5, <1>6 DEF Next

(* So what is said of a text written before stays true of it.              *)
LEMMA OldText ==
  ASSUME TypeInv, [Next]_vars, NEW t \in Past \cup {Unset}
  PROVE  /\ t \notin Unseen => t \notin Unseen'
         /\ t \notin Unnoticed => t \notin Unnoticed'
         /\ t \notin ghost.foreign => t \notin ghost'.foreign
<1>1. stamp \in Nat
  BY PlanAssumption DEF TypeInv, TypeOK
<1>2. t # stamp + 1 \/ stamp + 1 \notin Values
  BY <1>1, UnsetAssumption DEF Past
<1> QED BY <1>2, Remembers DEF Unseen, Unnoticed

(* The version at of row i is one whose text the phone has noticed.        *)
Noticed(at, i) ==
  /\ at <= clock
  /\ srv[i] # None /\ srv[i].at = at => srv[i].vals["text"] \notin Unnoticed

(* An op carries no text of the other device but one its user has seen, an *)
(* update none at all; and an update was made over a version noticed.      *)
GoodOp(e) ==
  /\ Text(e) \notin Unseen /\ e.base["text"] \notin Unseen
  /\ e.op = "update" => Text(e) \notin ghost.foreign /\ Noticed(e.baseAt, e.id)

QueuesGood == \A ob \in Ledgers : \A s \in Held(ob) : GoodOp(ob[s])

(* The rows on the screen are seen, and in versions noticed.               *)
ScreenGood ==
  \A i \in Live(mirror) :
    mirror[i].vals["text"] \notin Unseen /\ Noticed(mirror[i].at, i)

ForeignPast == ghost.foreign \subseteq Past \ {0}

(* A version noticed stays so: the account's rows only change to later ones.*)
LEMMA NoticedStays ==
  ASSUME KeptInv, [Next]_vars, NEW i \in Ids, NEW at \in Nat, Noticed(at, i)
  PROVE  Noticed(at, i)'
<1>0. TypeInv /\ AccountMoves /\ PastRows(srv)
  BY AccountStep DEF KeptInv, ParkedInv, PastOK
<1> SUFFICES ASSUME srv'[i] # None, srv'[i].at = at
             PROVE  srv'[i].vals["text"] \notin Unnoticed'
  BY <1>0 DEF AccountMoves, Noticed
<1>1. srv'[i] = srv[i]
  BY <1>0 DEF AccountMoves, Noticed
<1>2. srv[i].vals["text"] \notin Unnoticed /\ srv[i].vals["text"] \in Past
  BY <1>0, <1>1 DEF Noticed, PastRows, PastRow
<1> QED BY <1>0, <1>1, <1>2, OldText

(* Every op of a queue afterwards is a copy of one before, but for the one *)
(* the user just made.                                                     *)
LEMMA QueuesCome ==
  ASSUME KeptInv, NoNewOp, NEW ob \in Ledgers'
  PROVE  \E b \in Ledgers : CopyOf(ob, b)
<1>0. TypeInv /\ ParkedInv /\ Slide
  BY NoNewOpSlides DEF KeptInv, ParkedInv
<1>1. outbox \in Ledgers /\ batch \in Ledgers
      /\ \A k \in Lanes : reqs[k] # None => reqs[k].batch \in Ledgers
  BY DEF Ledgers
<1>2. CASE ob = outbox'
  BY <1>0, <1>1, <1>2 DEF Slide, Same, CopyOf, Held
<1>3. CASE ob = batch'
  <2>1. CopyOf(batch', batch) \/ CopyOf(batch', outbox)
    BY <1>0, CycleCopies DEF CopyOf, Held
  <2> QED BY <1>1, <1>3, <2>1
<1>4. ASSUME NEW k \in Lanes, reqs'[k] # None, ob = reqs'[k].batch
      PROVE  \E b \in Ledgers : CopyOf(ob, b)
  <2>1. \/ reqs[k] # None /\ ob = reqs[k].batch
        \/ ob = batch
        \/ reqs["live"] # None /\ ob = reqs["live"].batch
    BY <1>0, <1>4, ServerMoves, OtherMoves
  <2> QED BY <1>1, <2>1 DEF CopyOf, Lanes
<1> QED BY <1>2, <1>3, <1>4 DEF Ledgers

(* A good op stays good, and so does every copy of it.                     *)
LEMMA GoodStays ==
  ASSUME KeptInv, [Next]_vars, NEW e \in Entries, GoodOp(e),
         Text(e) \in Past \cup {Unset}, e.base["text"] \in Past \cup {Unset},
         NEW c, c.op = e.op, c.id = e.id, c.fields = e.fields, c.base = e.base,
         c.baseAt = e.baseAt
  PROVE  GoodOp(c)'
<1>1. TypeInv /\ e.id \in Ids /\ e.baseAt \in Nat
  BY DEF KeptInv, ParkedInv, Entries
<1>2. Text(e) \notin Unseen' /\ e.base["text"] \notin Unseen'
  BY <1>1, OldText DEF GoodOp
<1>3. e.op = "update" => Text(e) \notin ghost'.foreign /\ Noticed(e.baseAt, e.id)'
  BY <1>1, OldText, NoticedStays DEF GoodOp
<1> QED BY <1>2, <1>3 DEF GoodOp, Text

(* A step that leaves the account's rows alone makes no text foreign, and  *)
(* the next stamp is nobody's yet.                                         *)
LEMMA TextWritten ==
  ASSUME KeptInv, [Next]_vars, ForeignPast, srv' = srv
  PROVE  ghost'.foreign = ghost.foreign /\ stamp + 1 \notin ghost'.foreign
<1>0. TypeInv /\ TypeOK /\ PastOK /\ stamp \in Nat
  BY KeptTypes DEF KeptInv, ParkedInv
<1>1. ASSUME NEW i \in Ids, ForeignEdit(i), stamp' = stamp + 1
      PROVE  FALSE
  <2>1. srv[i] # None
    BY <1>1 DEF ForeignEdit
  <2>2. srv'[i].vals["text"] = stamp + 1
    BY <1>0, <1>1 DEF ForeignEdit, TypeOK, Mirrors, Rows, RowVals, Fields
  <2>3. srv[i].vals["text"] \in Past
    BY <1>0, <2>1 DEF PastOK, PastRows, PastRow
  <2> QED BY <1>0, <2>1, <2>2, <2>3 DEF Past
<1>2. ghost'.foreign = ghost.foreign
  BY <1>0, <1>1, Remembers
<1> QED BY <1>0, <1>2 DEF ForeignPast, Past

(* The op the user makes is good: its text is new, or copied by a create   *)
(* from the screen or an op, and its base is what the screen shows.        *)
LEMMA GoodNew ==
  ASSUME KeptInv, [Next]_vars, ScreenGood, QueuesGood, ForeignPast,
         NEW e \in Entries, Adds(e), TakenFrom(e)
  PROVE  GoodOp(e)'
<1>0. /\ TypeInv /\ TypeOK /\ PastOK /\ stamp \in Nat
  BY KeptTypes DEF KeptInv, ParkedInv
<1>a. Unset \notin ghost.foreign /\ Unset \notin ghost'.foreign
  <2>1. TypeInv'
    BY <1>0, NextTypes
  <2>2. \A S \in SUBSET Stamps : Unset \notin S
    <3>1. Stamps \subseteq Values
      BY PlanAssumption DEF Stamps, Values
    <3> QED BY <3>1, UnsetAssumption
  <2> QED BY <1>0, <2>1, <2>2 DEF TypeInv, TypeOK, Ghosts
<1>1. ghost'.foreign = ghost.foreign /\ stamp + 1 \notin ghost'.foreign
  BY TextWritten DEF Adds, AddsOp
<1>2. \A i \in Live(mirror) : mirror[i].vals["text"] \notin Unseen' /\ mirror[i].at \in Nat
  <2>1. \A i \in Live(mirror) : mirror[i].vals["text"] \in Past /\ mirror[i].at \in Nat
    BY <1>0 DEF PastOK, PastRows, PastRow, Live, TypeOK, Mirrors, Rows
  <2> QED BY <1>0, <2>1, OldText DEF ScreenGood
<1>3. \A s \in Held(outbox) : Text(outbox[s]) \notin Unseen'
  <2>1. \A s \in Held(outbox) : Text(outbox[s]) \in Past \cup {Unset} /\ GoodOp(outbox[s])
    BY <1>0 DEF PastOK, PastOps, Ledgers, QueuesGood
  <2> QED BY <1>0, <2>1, OldText DEF GoodOp
<1>4. Text(e) \notin Unseen'
  BY <1>a, <1>1, <1>2, <1>3 DEF TakenFrom, Texts, Unseen
<1>5. e.base["text"] \notin Unseen'
  <2>1. CASE e.op = "update"
    BY <1>a, <1>2, <2>1 DEF TakenFrom, Unseen, Live, Entries
  <2>2. CASE e.op # "update"
    BY <1>a, <2>2 DEF TakenFrom, Unseen
  <2> QED BY <2>1, <2>2
<1>6. ASSUME e.op = "update"
      PROVE  Text(e) \notin ghost'.foreign /\ Noticed(e.baseAt, e.id)'
  <2>1. e.id \in Live(mirror) /\ e.baseAt = mirror[e.id].at /\ e.id \in Ids /\ e.baseAt \in Nat
    BY <1>6 DEF TakenFrom, Live, Entries
  <2>2. Noticed(e.baseAt, e.id)
    BY <2>1 DEF ScreenGood
  <2>3. Noticed(e.baseAt, e.id)'
    BY <2>1, <2>2, NoticedStays
  <2>4. Text(e) = Unset \/ Text(e) = stamp + 1
    BY <1>6 DEF TakenFrom, IsCreate
  <2> QED BY <1>a, <1>1, <2>3, <2>4
<1> QED BY <1>4, <1>5, <1>6 DEF GoodOp

(* A queue of good ops stays one.                                          *)
LEMMA QueuesStayGood ==
  ASSUME KeptInv, [Next]_vars, ScreenGood, QueuesGood, ForeignPast
  PROVE  QueuesGood'
<1>0. PastOK /\ \A ob \in Ledgers : ob \in Outboxes
  BY DEF KeptInv, ParkedInv, TypeInv, TypeOK, Ledgers, Requests
<1>1. ASSUME NEW b \in Ledgers, NEW s \in Held(b), NEW c, c.op = b[s].op, c.id = b[s].id,
             c.fields = b[s].fields, c.base = b[s].base, c.baseAt = b[s].baseAt
      PROVE  GoodOp(c)'
  <2>1. b[s] \in Entries /\ GoodOp(b[s])
    BY <1>0 DEF QueuesGood, Held, Outboxes
  <2>2. Text(b[s]) \in Past \cup {Unset} /\ b[s].base["text"] \in Past \cup {Unset}
    BY <1>0 DEF PastOK, PastOps
  <2> QED BY <1>1, <2>1, <2>2, GoodStays
<1> SUFFICES ASSUME NEW ob \in Ledgers', NEW s \in Held(ob)
             PROVE  GoodOp(ob[s])'
  BY DEF QueuesGood
<1>2. CASE NoNewOp
  <2>1. PICK b \in Ledgers : CopyOf(ob, b)
    BY <1>2, QueuesCome
  <2> QED BY <1>1, <2>1 DEF CopyOf
<1>3. ASSUME NEW e \in Entries, Adds(e), TakenFrom(e)
      PROVE  GoodOp(ob[s])'
  <2>0. GoodOp(e)'
    BY <1>3, GoodNew
  <2>1. CASE ob \in Ledgers
    BY <1>1, <2>1
  <2>2. CASE ob = outbox'
    <3>1. PICK b : b = outbox
      OBVIOUS
    <3>2. b \in Ledgers /\ b \in Outboxes
      BY <1>0, <3>1 DEF Ledgers
    <3>3. CASE s \in Held(b) /\ ob[s] = b[s]
      BY <1>1, <3>2, <3>3
    <3>4. CASE s \in MergeTargets(b, e) /\ ob[s] = Merged(b[s], e)
      <4>1. s \in Held(b) /\ b[s] \in Entries /\ e.op = "update"
        BY <3>2, <3>4 DEF MergeTargets, QueuedCreates, SameRowQueued, OfRow, InState, Held, Outboxes
      <4>2. GoodOp(b[s])'
        BY <1>1, <3>2, <4>1
      <4>3. /\ ob[s].op = b[s].op /\ ob[s].id = b[s].id /\ ob[s].baseAt = b[s].baseAt
            /\ Text(ob[s]) \in {Text(e), Text(b[s])}
            /\ ob[s].base["text"] \in {b[s].base["text"], e.base["text"]}
        BY <3>4, <4>1, MergedOp
      <4> QED BY <2>0, <4>1, <4>2, <4>3 DEF GoodOp
    <3>5. CASE ob[s] = e
      BY <2>0, <3>5
    <3> QED BY <1>3, <2>2, <3>1, <3>3, <3>4, <3>5 DEF Adds, AddsOp
  <2>3. ob \in Ledgers \/ ob = outbox'
    BY <1>3 DEF Adds, AddsOp, Ledgers
  <2> QED BY <2>1, <2>2, <2>3
<1> QED BY <1>2, <1>3, OpsCome

(* A copy of a row: one of the same version says the same as the account.  *)
Version(row, i) ==
  row # None =>
    /\ row.at <= clock
    /\ srv[i] # None /\ srv[i].at = row.at => srv[i].vals["text"] = row.vals["text"]

(* An answer brings such a copy, and receipts only for an update applied.  *)
GoodAnswer(s, answer) ==
  /\ Version(answer.row, batch[s].id)
  /\ answer.receipts["text"] # Unset => answer.status = "applied" /\ batch[s].op = "update"

AnswersGood ==
  /\ \A s \in Held(answers) : GoodAnswer(s, answers[s])
  /\ reqs["live"] # None =>
       \A s \in Held(reqs["live"].answers) : GoodAnswer(s, reqs["live"].answers[s])

PageGood == pc \in {"fetched", "merge"} => \A i \in Ids : Version(page.rows[i], i)

(* The account's versions are moments gone by.                             *)
VersionsPast == \A i \in Live(srv) : srv[i].at \in 1 .. clock

(* They stay so.                                                           *)
LEMMA VersionsStayPast ==
  ASSUME KeptInv, [Next]_vars, VersionsPast
  PROVE  VersionsPast'
<1>1. TypeInv /\ AccountMoves
  BY AccountStep DEF KeptInv, ParkedInv
<1> QED BY <1>1 DEF AccountMoves, VersionsPast, Live

(* And a copy of a row stays a copy of that version.                       *)
LEMMA VersionStays ==
  ASSUME KeptInv, [Next]_vars, NEW i \in Ids, NEW row \in Rows \cup {None}, Version(row, i)
  PROVE  Version(row, i)'
<1> SUFFICES ASSUME row # None PROVE Version(row, i)'
  BY DEF Version
<1>1. TypeInv /\ AccountMoves /\ row.at \in Nat
  BY AccountStep DEF KeptInv, ParkedInv, Rows
<1> QED BY <1>1 DEF AccountMoves, Version

(* What a row becomes on the screen is seen there, at a version noticed.   *)
LEMMA ScreenStaysGood ==
  ASSUME KeptInv, [Next]_vars, ScreenGood, QueuesGood, ForeignPast,
         PageGood, AnswersGood, VersionsPast
  PROVE  ScreenGood'
<1> USE DEF phoneVars
<1>0. /\ TypeInv /\ TypeOK /\ PastOK /\ stamp \in Nat /\ clock \in Nat
      /\ mirror \in Mirrors /\ AccountMoves
      /\ ghost \in Ghosts /\ TypeOK' /\ mirror' \in Mirrors
      /\ VersionsPast' /\ clock' \in Nat
  BY NextTypes, KeptTypes, AccountStep, VersionsStayPast DEF KeptInv, ParkedInv, TypeInv, TypeOK
<1> SUFFICES ASSUME NEW j \in Ids, NEW row, row = mirror'[j], row # None
             PROVE  row.vals["text"] \notin Unseen' /\ Noticed(row.at, j)'
  BY DEF ScreenGood, Live, Noticed
<1>1. row \in Rows
  BY <1>0 DEF Mirrors
<1>2. ASSUME NEW old \in Rows, old = mirror[j]
      PROVE  /\ old.vals["text"] \notin Unseen' /\ old.vals["text"] \notin Unseen
             /\ Noticed(old.at, j)'
  <2>1. /\ old.vals["text"] \notin Unseen /\ old.vals["text"] \in Past
        /\ Noticed(old.at, j) /\ old.at \in Nat
    BY <1>2, <1>0, RowAssumption DEF ScreenGood, Live, PastOK, PastRows, PastRow, Rows
  <2> QED BY <1>0, <2>1, OldText, NoticedStays
<1>3. ASSUME row.at = 0
      PROVE  Noticed(row.at, j)'
  BY <1>0, <1>3 DEF Noticed, VersionsPast, Live
<1>4. CASE UNCHANGED mirror
  BY <1>1, <1>2, <1>4
<1>5. ASSUME UNCHANGED srv, row.vals["text"] = stamp + 1
      PROVE  row.vals["text"] \notin Unseen'
  BY <1>5, TextWritten DEF Unseen
<1>6. ASSUME NEW s \in Held(outbox)
      PROVE  /\ outbox[s].fields \in OpFields /\ outbox[s].base \in OpFields
             /\ outbox[s].id \in Ids
             /\ Text(outbox[s]) \notin Unseen' /\ outbox[s].base["text"] \notin Unseen'
  <2>1. /\ Text(outbox[s]) \in Past \cup {Unset} /\ outbox[s].base["text"] \in Past \cup {Unset}
        /\ GoodOp(outbox[s])
    BY <1>0, <1>6 DEF PastOK, PastOps, Ledgers, QueuesGood
  <2>2. outbox[s] \in Entries
    BY <1>0, <1>6 DEF TypeOK, Outboxes, Held
  <2> QED BY <1>0, <2>1, <2>2, OldText DEF GoodOp, Entries
<1>7. ASSUME NEW i \in Ids, Create(i)
      PROVE  row.vals["text"] \notin Unseen' /\ Noticed(row.at, j)'
  <2>1. UNCHANGED srv /\ stamp' = stamp + 1
    BY <1>7 DEF Create, accountVars
  <2>2. PICK ref :
          mirror' = [mirror EXCEPT ![i] =
            [vals |-> Filled([NoFields EXCEPT !["text"] = stamp + 1, !["ref"] = ref]), at |-> 0]]
    BY <1>7, <2>1 DEF Create
  <2>3. CASE j = i
    <3>1. row = [vals |-> Filled([NoFields EXCEPT !["text"] = stamp + 1, !["ref"] = ref]), at |-> 0]
      BY <1>0, <2>2, <2>3 DEF Mirrors
    <3>2. stamp + 1 # Unset
      <4>1. stamp + 1 \in Values
        BY <1>0, <2>1, PlanAssumption DEF TypeOK, Values
      <4> QED BY <4>1, UnsetAssumption
    <3>3. row.vals["text"] = stamp + 1
      BY <3>1, <3>2 DEF Filled, NoFields, Fields
    <3> QED BY <1>3, <1>5, <2>1, <3>1, <3>3
  <2>4. CASE j # i
    <3>1. row = mirror[j]
      BY <1>0, <2>2, <2>4 DEF Mirrors
    <3> QED BY <1>1, <1>2, <3>1
  <2> QED BY <2>3, <2>4
<1>8. ASSUME NEW i \in Ids, NEW f \in Fields, NEW v, Update(i, f, v),
             f = "text" => v = stamp + 1
      PROVE  row.vals["text"] \notin Unseen' /\ Noticed(row.at, j)'
  <2>1. UNCHANGED srv /\ mirror[i] # None /\ mirror' = [mirror EXCEPT ![i].vals[f] = v]
    BY <1>8 DEF Update, accountVars
  <2>2. mirror[j] \in Rows
    BY <1>0, <2>1 DEF Mirrors
  <2>3. row.at = mirror[j].at /\ row.vals["text"] \in {mirror[j].vals["text"], stamp + 1}
    BY <1>0, <1>8, <2>1, <2>2 DEF Mirrors, Rows, RowVals, Fields
  <2> QED BY <1>2, <1>5, <2>1, <2>2, <2>3
<1>9. ASSUME NEW i \in Ids, Delete(i)
      PROVE  row.vals["text"] \notin Unseen' /\ Noticed(row.at, j)'
  <2>1. mirror' = Without(mirror, i, 0)
    BY <1>9 DEF Delete
  <2>2. mirror[j] # None /\ mirror[j] \in Rows
    BY <1>0, <2>1 DEF Without, Mirrors
  <2>3. row.at = mirror[j].at /\ row.vals["text"] = mirror[j].vals["text"]
    BY <1>0, <2>1, <2>2 DEF Without, Rows, RowVals, Fields
  <2> QED BY <1>2, <2>2, <2>3
<1>10. ASSUME NEW s \in Seqs, Discard(s)
       PROVE  row.vals["text"] \notin Unseen' /\ Noticed(row.at, j)'
  <2> DEFINE e == outbox[s]
             rest == CollectDirty([outbox EXCEPT ![s] = None], e.id)
  <2>1. s \in Held(outbox)
    BY <1>10 DEF Discard, Held
  <2>2. mirror' = IF e.op = "create" THEN [mirror EXCEPT ![e.id] = None]
                  ELSE IF e.op = "update" /\ mirror[e.id] # None
                  THEN [mirror EXCEPT ![e.id] = Reverted(@, e.base, rest)]
                  ELSE mirror
    BY <1>10 DEF Discard
  <2>3. CASE row = mirror[j]
    BY <1>1, <1>2, <2>3
  <2>4. CASE /\ mirror[j] # None /\ e.id = j
             /\ row = Reverted(mirror[j], e.base, rest)
    <3>1. mirror[j] \in Rows
      BY <1>0, <2>4 DEF Mirrors
    <3>2. row.at = mirror[j].at /\ row.vals["text"] \in {mirror[j].vals["text"], e.base["text"]}
      <4> HIDE DEF rest, e
      <4> QED BY <2>4, <3>1 DEF Reverted, Rows, RowVals, Fields
    <3> QED BY <1>2, <1>6, <2>1, <3>1, <3>2
  <2> HIDE DEF rest
  <2> QED BY <1>0, <1>6, <2>1, <2>2, <2>3, <2>4 DEF Mirrors
<1>11. ASSUME NEW s \in Seqs, NEW i \in Places, Recreate(s, i)
       PROVE  row.vals["text"] \notin Unseen' /\ Noticed(row.at, j)'
  <2> DEFINE e == outbox[s]
             fields == Overlay([mirror[e.id].vals EXCEPT !["ref"] = Unset], e.fields)
  <2>1. /\ s \in Held(outbox) /\ mirror[e.id] # None
        /\ mirror' = [mirror EXCEPT ![i] = [vals |-> Filled(fields), at |-> 0]]
    BY <1>11 DEF Recreate, Held
  <2>2. CASE j = i
    <3>1. row = [vals |-> Filled(fields), at |-> 0]
      BY <1>0, <2>1, <2>2 DEF Mirrors
    <3>2. e.id \in Ids /\ mirror[e.id] \in Rows /\ e.fields \in OpFields
      BY <1>0, <1>6, <2>1 DEF Mirrors
    <3>3. fields["text"] \in {mirror[e.id].vals["text"], Text(e)} /\ fields["text"] \in Values
      BY <3>2, UnsetAssumption DEF Overlay, Rows, RowVals, OpFields, Fields, Text
    <3>4. row.vals["text"] = fields["text"]
      <4> HIDE DEF fields
      <4> QED BY <3>1, <3>3, UnsetAssumption DEF Filled, Fields
    <3>5. mirror[e.id].vals["text"] \notin Unseen'
      <4>1. mirror[e.id].vals["text"] \notin Unseen /\ mirror[e.id].vals["text"] \in Past
        BY <1>0, <2>1, <3>2 DEF ScreenGood, Live, PastOK, PastRows, PastRow
      <4> QED BY <1>0, <4>1, OldText
    <3> HIDE DEF fields
    <3> QED BY <1>3, <1>6, <2>1, <3>1, <3>3, <3>4, <3>5
  <2>3. CASE j # i
    <3>1. row = mirror[j]
      BY <1>0, <2>1, <2>3 DEF Mirrors
    <3> QED BY <1>1, <1>2, <3>1
  <2> QED BY <2>2, <2>3
<1>12. CASE Reset
  <2>1. row = mirror[j]
    BY <1>12 DEF Reset
  <2> QED BY <1>1, <1>2, <2>1
<1>13. ASSUME NEW texts, ghost' = Look(texts)
       PROVE  /\ row.vals["text"] \notin Unseen'
              /\ \A t \in texts : t \notin Unnoticed'
  <2>1. /\ ghost'.foreign = ghost.foreign
        /\ ghost'.seen = ghost.seen \cup (Texts(mirror') \cap ghost.foreign)
        /\ ghost'.masked = ghost.masked \cup ((texts \cap ghost.foreign) \ Texts(mirror'))
    BY <1>0, <1>13 DEF Look, Ghosts
  <2>2. row.vals["text"] \in Texts(mirror')
    BY DEF Texts, Live
  <2> QED BY <2>1, <2>2 DEF Unseen, Unnoticed
<1>14. ASSUME NEW new \in Rows, Version(new, j), row.at = new.at,
              new.vals["text"] \notin Unnoticed'
       PROVE  Noticed(row.at, j)'
  <2>1. Version(new, j)'
    BY <1>14, VersionStays
  <2> QED BY <1>14, <2>1, RowAssumption DEF Version, Noticed
<1>15. CASE ConfirmRow
  <2>1. /\ pc = "upsert" /\ ghost' = Look({Result.row.vals["text"]})
        /\ mirror' = [mirror EXCEPT ![Op.id] =
                        Confirmed(Result.row, CollectDirty(snap, Op.id))]
    BY <1>15 DEF ConfirmRow
  <2>2. Held(answers) # {} /\ Result.row # None
    BY <1>0, <2>1 DEF TypeInv, CycleOK, InResult
  <2>3. Cur \in Held(answers) /\ Result \in Answers /\ Op \in Entries
    BY <1>0, <2>2, CurTypes
  <2>4. Op.id \in Ids /\ Result.row \in Rows /\ Version(Result.row, Op.id)
    BY <2>2, <2>3 DEF Answers, Entries, AnswersGood, GoodAnswer, Result, Op
  <2>5. CASE j = Op.id
    <3>1. PICK new : new = Result.row
      OBVIOUS
    <3>2. row.at = new.at
      BY <1>0, <2>1, <2>4, <2>5, <3>1 DEF Confirmed, Mirrors, Rows
    <3>3. new.vals["text"] \notin Unnoticed'
      BY <1>13, <2>1, <3>1
    <3>4. Version(new, j)
      BY <2>4, <2>5, <3>1
    <3> QED BY <1>13, <1>14, <2>1, <2>4, <3>1, <3>2, <3>3, <3>4
  <2>6. CASE j # Op.id
    <3>1. row = mirror[j]
      BY <1>0, <2>1, <2>4, <2>6 DEF Mirrors
    <3> QED BY <1>1, <1>2, <3>1
  <2> QED BY <2>5, <2>6
<1>16. CASE ApplyPage
  <2> DEFINE merged == [i \in Ids |->
                      IF page.rows[i] = None THEN mirror[i]
                      ELSE Rebased(page.rows[i], mirror[i], CollectDirty(snap, i))]
  <2>1. /\ pc = "merge" /\ ghost' = Look(Texts(page.rows))
        /\ mirror' = Forgotten(merged, page.dead)
    BY <1>16 DEF ApplyPage
  <2>2. page \in Pages /\ page.rows[j] \in Rows \cup {None}
    BY <1>0, <2>1 DEF TypeInv, CycleOK, Pages, Mirrors
  <2>3. merged[j] # None /\ (row = merged[j] \/ row = [merged[j] EXCEPT !.vals["ref"] = NoPlace])
    BY <2>1 DEF Forgotten
  <2>4. CASE page.rows[j] = None
    <3>1. merged[j] = mirror[j] /\ mirror[j] \in Rows
      BY <1>0, <2>3, <2>4 DEF Mirrors
    <3>2. row.at = mirror[j].at
      <4> HIDE DEF merged
      <4> QED BY <2>3, <3>1 DEF Rows
    <3> QED BY <1>2, <1>13, <2>1, <3>1, <3>2
  <2>5. CASE page.rows[j] # None
    <3>1. PICK new : new = page.rows[j]
      OBVIOUS
    <3>2. new \in Rows /\ Version(new, j) /\ new.vals["text"] \in Texts(page.rows)
      BY <2>1, <2>2, <2>5, <3>1 DEF PageGood, Texts, Live
    <3>3. merged[j] = Rebased(new, mirror[j], CollectDirty(snap, j))
      BY <2>5, <3>1
    <3>4. merged[j] \in Rows /\ merged[j].at = new.at
      <4>1. CollectDirty(snap, j) \in OpFields /\ mirror[j] \in Rows \cup {None}
        BY <1>0, CollectDirtyType DEF TypeOK, Mirrors
      <4>2. merged[j] \in Rows
        BY <3>2, <3>3, <4>1, MergeTypes
      <4>3. merged[j].at = new.at
        BY <3>2, <3>3 DEF Rebased, Rows
      <4> QED BY <4>2, <4>3
    <3>5. row.at = new.at
      <4> HIDE DEF merged
      <4> QED BY <2>3, <3>4 DEF Rows
    <3> QED BY <1>13, <1>14, <2>1, <3>2, <3>5
  <2> QED BY <2>4, <2>5
<1>17. CASE UserStep
  <2>1. ASSUME NEW s \in Seqs, Retry(s) PROVE UNCHANGED mirror
    BY <2>1 DEF Retry
  <2>2. ASSUME NEW i \in Ids, UpdateText(i) \/ UpdateRef(i)
        PROVE  row.vals["text"] \notin Unseen' /\ Noticed(row.at, j)'
    <3>1. CASE UpdateText(i)
      BY <1>8, <3>1 DEF UpdateText, Fields
    <3>2. CASE UpdateRef(i)
      BY <1>8, <3>2 DEF UpdateRef, Fields
    <3> QED BY <2>2, <3>1, <3>2
  <2> QED BY <1>4, <1>7, <1>9, <1>10, <1>11, <1>12, <1>17, <2>1, <2>2 DEF UserStep
<1>18. CASE FlushStep
  BY <1>4, <1>15, <1>18 DEF FlushStep, StartCycle, LoadBatch, Send, RequestFails, Reply,
       BatchDone, ApplySuccess, Shelve, Reread, ApplyRefusal
<1>19. CASE PullStep
  BY <1>4, <1>16, <1>19 DEF PullStep, FetchPage, PullFails, LoadForRebase, ApplyPageFails
<1>20. CASE ServerStep \/ WorldStep \/ UNCHANGED vars
  BY <1>4, <1>20 DEF ServerStep, SkipDependent, RefuseOp, ReadForCreate, ReadForUpdate,
       WriteCreate, WriteUpdate, WriteAborts, DeleteRow, LateEnds,
       WorldStep, Crash, ForeignEdit, ForeignDelete, vars
<1> QED BY <1>17, <1>18, <1>19, <1>20 DEF Next

(* The live request is new, or as before, or has got its next answer.      *)
LEMMA LiveGoes ==
  ASSUME KeptInv, [Next]_vars, reqs'["live"] # None
  PROVE  \/ Held(reqs'["live"].answers) = {}
         \/ /\ reqs["live"] # None /\ batch' = batch
            /\ reqs'["live"].answers = reqs["live"].answers
            /\ reqs'["live"].todo = reqs["live"].todo
         \/ /\ Working("live") /\ batch' = batch
            /\ \E answer \in Answers : Finish("live", answer) /\ Says("live", answer)
<1> USE DEF cycleVars
<1>0. TypeInv /\ TypeOK /\ RequestsOK /\ RequestsOK' /\ "live" \in Lanes
  BY NextTypes DEF KeptInv, ParkedInv, TypeInv, Lanes
<1>1. CASE ServerStep
  <2>1. batch' = batch
    BY <1>1 DEF ServerStep, SkipDependent, RefuseOp, ReadForCreate, ReadForUpdate,
                WriteCreate, WriteUpdate, WriteAborts, DeleteRow, LateEnds
  <2>2. PICK k \in Lanes :
          \/ Working(k) /\ \E answer \in Answers : Finish(k, answer) /\ Says(k, answer)
          \/ Working(k) /\ \E row \in Rows : reqs' = [reqs EXCEPT ![k].read = row]
          \/ reqs' = [reqs EXCEPT ![k] = None] /\ (WriteAborts(k) \/ k = "late")
    BY <1>0, <1>1, ServerDoes
  <2>3. k # "live" => reqs'["live"] = reqs["live"]
    BY <1>0, <2>2 DEF Finish, TypeOK
  <2>4. CASE k = "live"
    <3>1. CASE Working(k) /\ \E row \in Rows : reqs' = [reqs EXCEPT ![k].read = row]
      <4>1. reqs["live"] \in Requests
        BY <1>0, <2>4, <3>1, HeadTypes
      <4>2. /\ reqs'["live"].answers = reqs["live"].answers
            /\ reqs'["live"].todo = reqs["live"].todo
        BY <1>0, <2>4, <3>1, <4>1 DEF TypeOK, Requests
      <4> QED BY <2>1, <2>4, <3>1, <4>2 DEF Working
    <3>2. reqs' # [reqs EXCEPT ![k] = None]
      BY <1>0, <2>4 DEF TypeOK
    <3> QED BY <2>1, <2>2, <2>4, <3>1, <3>2
  <2> QED BY <2>1, <2>3, <2>4
<1>2. CASE NoNewOp /\ ~ServerStep
  <2>1. \/ Send /\ reqs'["live"].answers = NoOps
        \/ reqs["live"] # None /\ reqs'["live"] = reqs["live"]
    BY <1>0, <1>2, OtherMoves
  <2>2. CASE reqs["live"] # None /\ reqs'["live"] = reqs["live"]
    BY <1>0, <2>2 DEF RequestsOK
  <2> QED BY <2>1, <2>2 DEF NoOps, Held
<1>3. CASE UNCHANGED <<reqs, batch>>
  BY <1>3
<1> QED BY <1>1, <1>2, <1>3, OpsCome DEF Adds, AddsOp

(* What the account answers is good, and stays so until it is applied.     *)
LEMMA AnswersStayGood ==
  ASSUME KeptInv, [Next]_vars, AnswersGood, VersionsPast
  PROVE  AnswersGood'
<1>0. /\ TypeInv /\ TypeOK /\ TypeOK' /\ CycleOK /\ RequestsOK /\ VersionsPast'
      /\ batch \in Outboxes
  BY NextTypes, VersionsStayPast DEF KeptInv, ParkedInv, TypeInv, TypeOK
<1>1. ASSUME batch' = batch, NEW s \in Held(batch), NEW a \in Answers, GoodAnswer(s, a)
      PROVE  GoodAnswer(s, a)'
  <2>1. batch[s].id \in Ids
    BY <1>0 DEF Held, Outboxes, Entries
  <2>2. Version(a.row, batch[s].id)'
    BY <1>1, <2>1, VersionStays DEF GoodAnswer, Answers
  <2> QED BY <1>1, <2>2 DEF GoodAnswer
<1>2. reqs["live"] # None =>
        /\ reqs["live"].batch = batch /\ reqs["live"].answers \in [Seqs -> Answers \cup {None}]
        /\ Held(reqs["live"].answers) \subseteq Held(batch)
  BY <1>0 DEF TypeOK, Requests, RequestsOK, Lanes
<1>3. ASSUME batch' = batch, NEW s, NEW a,
             \/ s \in Held(answers) /\ a = answers[s]
             \/ /\ reqs["live"] # None /\ s \in Held(reqs["live"].answers)
                /\ a = reqs["live"].answers[s]
      PROVE  GoodAnswer(s, a)'
  <2>1. a \in Answers /\ s \in Held(batch) /\ GoodAnswer(s, a)
    BY <1>0, <1>2, <1>3 DEF Held, AnswersGood, TypeOK, CycleOK
  <2> QED BY <1>1, <1>3, <2>1
<1>4. ASSUME batch' = batch, NEW answer \in Answers, Working("live"),
             Finish("live", answer), Says("live", answer), NEW s, s = HeadSeq("live")
      PROVE  GoodAnswer(s, answer)'
  <2>1. HeadOp("live") = batch[s] /\ HeadOp("live").id \in Ids
    BY <1>0, <1>4, Recorded, HeadTypes DEF Entries, Lanes
  <2>2. answer.row # None => srv'[HeadOp("live").id] # None /\ answer.row = srv'[HeadOp("live").id]
    BY <1>4 DEF Says
  <2>3. answer.row # None => answer.row.at <= clock'
    BY <1>0, <2>1, <2>2 DEF VersionsPast, Live
  <2>4. answer.receipts["text"] # Unset => answer.status = "applied" /\ HeadOp("live").op = "update"
    BY <1>4 DEF Says, NoFields, Fields, WriteUpdate, Writes
  <2> QED BY <1>4, <2>1, <2>2, <2>3, <2>4 DEF GoodAnswer, Version
<1>5. CASE batch' = batch
  <2>1. ASSUME NEW s \in Held(answers)'
        PROVE  GoodAnswer(s, answers[s])'
    <3>1. CASE NoNewOp
      <4>1. PICK a : a = answers'[s]
        OBVIOUS
      <4>2. GoodAnswer(s, a)'
        BY <1>0, <1>3, <1>5, <3>1, <4>1, AnswersCome
      <4> QED BY <4>1, <4>2 DEF GoodAnswer, Version
    <3>2. ASSUME NEW e \in Entries, Adds(e)
          PROVE  GoodAnswer(s, answers[s])'
      <4>1. PICK a : a = answers'[s]
        OBVIOUS
      <4>2. s \in Held(answers) /\ a = answers[s]
        BY <3>2, <4>1 DEF Adds, AddsOp, Held
      <4>3. GoodAnswer(s, a)'
        BY <1>3, <1>5, <4>2
      <4> QED BY <4>1, <4>3 DEF GoodAnswer, Version
    <3> QED BY <3>1, <3>2, OpsCome
  <2>2. ASSUME reqs'["live"] # None, NEW s \in Held(reqs'["live"].answers)
        PROVE  GoodAnswer(s, reqs["live"].answers[s])'
    <3>1. PICK a : a = reqs'["live"].answers[s]
      OBVIOUS
    <3>2. CASE reqs["live"] # None /\ reqs'["live"].answers = reqs["live"].answers
      BY <1>3, <1>5, <2>2, <3>1, <3>2 DEF GoodAnswer, Version
    <3>3. ASSUME NEW answer \in Answers, Working("live"),
                 Finish("live", answer), Says("live", answer)
          PROVE  GoodAnswer(s, a)'
      <4>1. /\ reqs'["live"].answers = [reqs["live"].answers EXCEPT ![HeadSeq("live")] = answer]
            /\ reqs["live"].answers \in [Seqs -> Answers \cup {None}] /\ reqs["live"] # None
        BY <1>0, <3>3, Recorded
      <4>2. CASE s = HeadSeq("live")
        <5>1. a = answer
          BY <2>2, <3>1, <4>1, <4>2 DEF Held
        <5> QED BY <1>4, <1>5, <3>3, <4>2, <5>1
      <4>3. CASE s # HeadSeq("live")
        <5>1. s \in Held(reqs["live"].answers) /\ a = reqs["live"].answers[s]
          BY <2>2, <3>1, <4>1, <4>3 DEF Held
        <5> QED BY <1>3, <1>5, <4>1, <5>1
      <4> QED BY <4>2, <4>3
    <3>4. CASE Held(reqs'["live"].answers) = {}
      BY <2>2, <3>4
    <3>5. GoodAnswer(s, a)'
      BY <1>3, <1>5, <2>2, <3>1, <3>2, <3>3, <3>4, LiveGoes
    <3> QED BY <3>1, <3>5 DEF GoodAnswer, Version
  <2> QED BY <2>1, <2>2 DEF AnswersGood
<1>6. CASE Held(answers)' = {} /\ reqs'["live"] = None
  BY <1>6 DEF AnswersGood
<1> QED BY <1>0, <1>5, <1>6, BatchWithAnswers

(* So does the page.                                                       *)
LEMMA PageStaysGood ==
  ASSUME KeptInv, [Next]_vars, PageGood, VersionsPast
  PROVE  PageGood'
<1>0. /\ TypeInv /\ CycleOK /\ srv \in Mirrors /\ VersionsPast'
  BY VersionsStayPast DEF KeptInv, ParkedInv, TypeInv, TypeOK
<1> SUFFICES ASSUME pc' \in {"fetched", "merge"}, NEW i \in Ids
             PROVE  Version(page.rows[i], i)'
  BY DEF PageGood
<1>1. CASE FetchPage
  <2>1. /\ UNCHANGED <<srv, clock>>
        /\ page'.rows[i] # None => srv[i] # None /\ page'.rows[i] = srv[i]
    BY <1>1 DEF FetchPage, accountVars, DeltaSince
  <2> QED BY <2>1 DEF Version, VersionsPast, Live
<1>2. CASE pc \in {"fetched", "merge"} /\ page' = page
  <2>1. PICK row : row = page.rows[i]
    OBVIOUS
  <2>2. row \in Rows \cup {None} /\ Version(row, i)
    BY <1>0, <1>2, <2>1 DEF CycleOK, Pages, Mirrors, PageGood
  <2>3. Version(row, i)'
    BY <2>2, VersionStays
  <2> QED BY <1>2, <2>1, <2>3 DEF Version
<1> QED BY <1>1, <1>2, PageFrom

(* An op the request is still at has no answer yet.                        *)
AnsweredOnce ==
  reqs["live"] # None => reqs["live"].todo \cap Held(reqs["live"].answers) = {}

(* Only texts of the other device are noted as replaced.                   *)
DisplacedForeign == ghost.displaced \subseteq ghost.foreign

(* A text of the other device that needs no receipt any more; one whose    *)
(* receipt has been looked at is such a text.                              *)
KeptText(t) == t \in ghost.seen \cup ghost.masked \cup ghost.excused \/ Shelved(t)

ShelvedOK ==
  pc \in {"reread", "upsert"} /\ Result.receipts["text"] \in ghost.displaced
    => KeptText(Result.receipts["text"])

ReplaceInv ==
  /\ QueuesGood /\ ScreenGood /\ PageGood /\ AnswersGood
  /\ ForeignPast /\ VersionsPast /\ AnsweredOnce /\ DisplacedForeign
  /\ ShelvedOK /\ ReplacedTextKept

(* The types of what is remembered of texts.                               *)
LEMMA TextSets ==
  ASSUME KeptInv
  PROVE  /\ ghost.foreign \subseteq Stamps /\ ghost.displaced \subseteq Stamps
         /\ \A t \in Stamps : t # Unset /\ t # 0
<1>1. ghost \in Ghosts
  BY KeptTypes DEF KeptInv, ParkedInv, TypeOK
<1>2. Stamps \subseteq Values /\ 0 \notin Stamps
  BY PlanAssumption DEF Stamps, Values
<1> QED BY <1>1, <1>2, UnsetAssumption DEF Ghosts

(* Nothing is answered twice.                                              *)
LEMMA AnsweredOnceStep ==
  ASSUME KeptInv, [Next]_vars, AnsweredOnce
  PROVE  AnsweredOnce'
<1> SUFFICES ASSUME reqs'["live"] # None
             PROVE  reqs'["live"].todo \cap Held(reqs'["live"].answers) = {}
  BY DEF AnsweredOnce, Held
<1>0. TypeInv
  BY DEF KeptInv, ParkedInv
<1>1. ASSUME NEW answer, Working("live"), Finish("live", answer)
      PROVE  reqs'["live"].todo \cap Held(reqs'["live"].answers) = {}
  <2>1. /\ reqs["live"] # None
        /\ reqs'["live"].todo = reqs["live"].todo \ {HeadSeq("live")}
        /\ reqs'["live"].answers = [reqs["live"].answers EXCEPT ![HeadSeq("live")] = answer]
    BY <1>0, <1>1, Recorded
  <2>2. Held(reqs'["live"].answers) \subseteq Held(reqs["live"].answers) \cup {HeadSeq("live")}
    BY <2>1 DEF Held
  <2> QED BY <2>1, <2>2 DEF AnsweredOnce
<1>2. CASE /\ reqs["live"] # None /\ reqs'["live"].answers = reqs["live"].answers
           /\ reqs'["live"].todo = reqs["live"].todo
  BY <1>2 DEF AnsweredOnce
<1> QED BY <1>1, <1>2, LiveGoes

(* Foreign texts are of the past, and texts replaced are foreign.          *)
LEMMA ForeignStep ==
  ASSUME KeptInv, [Next]_vars, ForeignPast, DisplacedForeign
  PROVE  ForeignPast' /\ DisplacedForeign'
<1>0. TypeInv /\ stamp \in Nat /\ stamp' \in Nat /\ ghost \in Ghosts
  BY PlanAssumption, NextTypes DEF KeptInv, ParkedInv, TypeInv, TypeOK
<1>1. stamp' \in {stamp, stamp + 1}
  BY OpsCome, NoNewOpSlides DEF KeptInv, Slide, Adds
<1>2. ForeignPast'
  BY <1>0, <1>1, Remembers DEF ForeignPast, Past
<1>3. ASSUME NEW k \in Lanes, WriteUpdate(k)
      PROVE  DisplacedForeign'
  BY <1>0, <1>3 DEF WriteUpdate, Ghosts, DisplacedForeign
<1>4. CASE ghost'.displaced = ghost.displaced
  <2>1. ghost.foreign \subseteq ghost'.foreign
    BY <1>0, Remembers
  <2> QED BY <1>2, <1>4, <2>1 DEF DisplacedForeign
<1> QED BY <1>0, <1>2, <1>3, <1>4, Remembers

(* A text needs a receipt no more, and never again.                        *)
LEMMA KeptTextStays ==
  ASSUME TypeInv, [Next]_vars, NEW t, KeptText(t)
  PROVE  KeptText(t)'
BY Remembers DEF KeptText, Shelved

(* A text just replaced was noticed, or its receipt is on its way, or it   *)
(* is one nobody promises anything about.                                  *)
LEMMA JustReplaced ==
  ASSUME KeptInv, [Next]_vars, ReplaceInv, NEW t \in ghost'.displaced \ ghost.displaced
  PROVE  /\ KeptText(t)' \/ ReceiptUnderWay(t)'
         /\ reqs["live"] = None => KeptText(t)'
<1>0. TypeInv /\ TypeOK /\ ghost \in Ghosts /\ t \in Stamps
  <2>1. KeptInv => TypeOK' 
    BY NextTypes DEF KeptInv, ParkedInv, TypeInv
  <2> QED BY <2>1 DEF KeptInv, ParkedInv, TypeInv, TypeOK, Ghosts
<1>1. PICK k \in Lanes : WriteUpdate(k)
  BY <1>0, Remembers
<1> DEFINE e == HeadOp(k)
           read == reqs[k].read
           row == [vals |-> Overlay(srv[e.id].vals, e.fields), at |-> clock + 1]
<1>2. Working(k) /\ reqs[k] # None /\ reqs[k].batch \in Ledgers
      /\ HeadSeq(k) \in Held(reqs[k].batch) /\ e \in Entries /\ e.op = "update"
  BY <1>0, <1>1, HeadTypes DEF WriteUpdate, Writes, Working, Ledgers
<1>3. GoodOp(e)
  BY <1>2 DEF ReplaceInv, QueuesGood, HeadOp
<1>4. /\ t = srv[e.id].vals["text"] /\ t \in ghost.foreign /\ e.fields["text"] # Unset
      /\ srv[e.id] # None
      /\ k = "late" \/ read # srv[e.id] => t \in ghost'.excused
      /\ ghost'.seen = ghost.seen /\ ghost'.masked = ghost.masked
  BY <1>0, <1>1 DEF WriteUpdate, Ghosts
<1>5. CASE k = "late" \/ read # srv[e.id]
  BY <1>4, <1>5 DEF KeptText
<1>6. CASE k = "live" /\ read = srv[e.id] /\ e.baseAt = srv[e.id].at
  <2>1. t \notin Unnoticed
    BY <1>2, <1>3, <1>4, <1>6 DEF GoodOp, Noticed
  <2> QED BY <1>2, <1>4, <1>6, <2>1 DEF Unnoticed, Unseen, KeptText
<1>7. CASE k = "live" /\ read = srv[e.id] /\ e.baseAt # srv[e.id].at
  <2>1. e.fields["text"] # t
    BY <1>2, <1>3, <1>4 DEF GoodOp, Text
  <2>2. Receipts(e, read)["text"] = t
    <3> HIDE DEF e, read
    <3> QED BY <1>4, <1>7, <2>1 DEF Receipts, Fields
  <2>3. PICK answer : answer = Answer("applied", row, Receipts(e, read), "ok")
    OBVIOUS
  <2>4. Finish("live", answer) /\ answer.receipts["text"] = t /\ answer \in Answers
    <3>1. Finish("live", answer) /\ answer.receipts["text"] = t
      BY <1>1, <1>7, <2>2, <2>3 DEF WriteUpdate, Answer
    <3>2. row \in Rows /\ Receipts(e, read) \in OpFields
      <4>1. /\ srv[e.id].vals \in RowVals /\ e.fields \in OpFields /\ clock + 1 \in Nat
            /\ srv[e.id] \in Rows
        BY <1>0, <1>2, <1>4 DEF TypeOK, Mirrors, Rows, Entries
      <4>2. Overlay(srv[e.id].vals, e.fields) \in RowVals
        BY <4>1, OverlayTypes
      <4> QED BY <1>2, <1>7, <4>1, <4>2, MergeTypes DEF Rows
    <3> HIDE DEF row
    <3> QED BY <2>3, <3>1, <3>2, AnswerType DEF Statuses, Codes
  <2>5. /\ HeadSeq("live") \in Seqs
        /\ reqs'["live"].answers = [reqs["live"].answers EXCEPT ![HeadSeq("live")] = answer]
        /\ reqs["live"].answers \in [Seqs -> Answers \cup {None}]
        /\ reqs'["live"] # None
    <3>1. Working("live") /\ HeadSeq("live") \in Seqs /\ "live" \in Lanes
      BY <1>2, <1>7 DEF Held
    <3>2. reqs'["live"] \in Requests
      BY <1>0, <2>4, <3>1, FinishTypes
    <3> QED BY <1>0, <2>4, <3>1, <3>2, Recorded, RequestAssumption
  <2>6. HeadSeq("live") \in Held(reqs'["live"].answers)
        /\ reqs'["live"].answers[HeadSeq("live")].receipts["text"] = t
    BY <2>4, <2>5, AnswerAssumption DEF Held
  <2>7. ReceiptUnderWay(t)'
    BY <1>0, <2>5, <2>6 DEF ReceiptUnderWay, Undelivered
  <2> QED BY <1>2, <1>7, <2>7
<1> QED BY <1>5, <1>6, <1>7 DEF Lanes

(* A receipt stays on its way until it is looked at, or is lost.           *)
LEMMA ReceiptsGoOn ==
  ASSUME KeptInv, [Next]_vars, AnsweredOnce, NEW t, ReceiptUnderWay(t)
  PROVE  \/ ReceiptUnderWay(t)' \/ t \in ghost'.excused
         \/ Held(answers) # {} /\ NextResult /\ t = Result.receipts["text"]
<1> USE DEF cycleVars, phoneVars, accountVars
<1>0. /\ TypeInv /\ TypeOK /\ CycleOK /\ RequestsOK /\ ghost \in Ghosts
      /\ answers \in [Seqs -> Answers \cup {None}]
  BY DEF KeptInv, ParkedInv, TypeInv, TypeOK
<1>1. CASE UNCHANGED <<answers, reqs>>
  BY <1>1 DEF ReceiptUnderWay, Undelivered, Held
<1>2. CASE NextResult /\ UNCHANGED reqs
  <2>1. ASSUME NEW s \in Held(answers), answers[s].receipts["text"] = t
        PROVE  \/ s \in Held(answers)' /\ answers'[s].receipts["text"] = t
               \/ t = Result.receipts["text"]
    BY <1>0, <1>2, <2>1 DEF NextResult, Held, Result
  <2> QED BY <1>2, <2>1 DEF ReceiptUnderWay, Undelivered
<1>3. CASE Reply
  <2>1. Held(answers) = {} /\ answers' = reqs["live"].answers
    BY <1>0, <1>3 DEF Reply, CycleOK, InResult
  <2> QED BY <2>1 DEF ReceiptUnderWay, Undelivered, Held
<1>4. CASE Send
  <2>1. reqs["live"] = None /\ UNCHANGED answers
    BY <1>0, <1>4 DEF Send, RequestsOK
  <2> QED BY <2>1 DEF ReceiptUnderWay, Undelivered, Held
<1>5. CASE RequestFails
  <2>1. Held(answers) = {}
    BY <1>0, <1>5 DEF RequestFails, CycleOK, InResult
  <2>2. reqs["live"] # None /\ t \in Undelivered(reqs["live"].answers)
    BY <2>1 DEF ReceiptUnderWay, Undelivered
  <2> QED BY <1>0, <1>5, <2>2 DEF RequestFails, Ghosts
<1>6. CASE Crash
  BY <1>0, <1>6 DEF Crash, Ghosts, ReceiptUnderWay
<1>7. CASE ServerStep
  <2>1. answers' = answers
    BY <1>7 DEF ServerStep, SkipDependent, RefuseOp, ReadForCreate, ReadForUpdate,
                WriteCreate, WriteUpdate, WriteAborts, DeleteRow, LateEnds
  <2>2. CASE t \in Undelivered(answers)
    BY <2>1, <2>2 DEF ReceiptUnderWay, Undelivered, Held
  <2>3. CASE reqs["live"] # None /\ t \in Undelivered(reqs["live"].answers)
    <3>1. CASE reqs'["live"] # None
      <4>1. CASE reqs'["live"].answers = reqs["live"].answers
        BY <2>3, <3>1, <4>1 DEF ReceiptUnderWay, Undelivered, Held
      <4>2. ASSUME NEW answer \in Answers, Working("live"), Finish("live", answer)
            PROVE  ReceiptUnderWay(t)'
        <5>1. /\ HeadSeq("live") \in reqs["live"].todo
              /\ reqs'["live"].answers = [reqs["live"].answers EXCEPT ![HeadSeq("live")] = answer]
          BY <1>0, <4>2, Recorded
        <5>2. HeadSeq("live") \notin Held(reqs["live"].answers)
          BY <2>3, <5>1 DEF AnsweredOnce
        <5>3. PICK s \in Held(reqs["live"].answers) : reqs["live"].answers[s].receipts["text"] = t
          BY <2>3 DEF Undelivered
        <5>4. s \in Held(reqs'["live"].answers) /\ reqs'["live"].answers[s].receipts["text"] = t
          BY <5>1, <5>2, <5>3 DEF Held
        <5> QED BY <2>3, <3>1, <5>4 DEF ReceiptUnderWay, Undelivered
      <4>3. Held(reqs'["live"].answers) # {}
        <5>1. Held(reqs["live"].answers) # {}
          BY <2>3 DEF Undelivered
        <5>2. reqs'["live"].answers = reqs["live"].answers
              \/ \E answer : Answered("live", answer)
          BY <1>0, <1>7, <3>1, ServerMoves DEF Lanes
        <5>3. ASSUME NEW answer, Answered("live", answer)
              PROVE  Held(reqs'["live"].answers) # {}
          <6>1. HeadSeq("live") \notin Held(reqs["live"].answers)
            BY <1>0, <2>3, <5>3, Recorded DEF Answered, AnsweredOnce
          <6> QED BY <5>1, <5>3, <6>1 DEF Answered, Held
        <5> QED BY <5>1, <5>2, <5>3
      <4> QED BY <3>1, <4>1, <4>2, <4>3, LiveGoes
    <3>2. CASE reqs'["live"] = None
      <4>1. PICK k \in Lanes :
              \/ Working(k) /\ \E answer \in Answers : Finish(k, answer) /\ Says(k, answer)
              \/ Working(k) /\ \E row \in Rows : reqs' = [reqs EXCEPT ![k].read = row]
              \/ reqs' = [reqs EXCEPT ![k] = None] /\ (WriteAborts(k) \/ k = "late")
        BY <1>0, <1>7, ServerDoes
      <4>2. k # "live" => reqs'["live"] = reqs["live"]
        BY <1>0, <4>1 DEF Finish, TypeOK, Lanes
      <4>3. CASE k = "live" /\ WriteAborts(k)
        BY <1>0, <2>3, <4>3 DEF WriteAborts, Ghosts
      <4>4. ASSUME k = "live", NEW answer \in Answers, Working(k), Finish(k, answer)
            PROVE  FALSE
        BY <1>0, <3>2, <4>4, FinishTypes, RequestAssumption
      <4>5. ASSUME k = "live", NEW row \in Rows, Working(k), reqs' = [reqs EXCEPT ![k].read = row]
            PROVE  FALSE
        <5>1. reqs[k] \in Requests
          BY <1>0, <4>5, HeadTypes
        <5>2. reqs'[k] \in Requests
          BY <1>0, <4>5, <5>1 DEF TypeOK, Requests
        <5> QED BY <3>2, <4>5, <5>2, RequestAssumption
      <4> QED BY <2>3, <3>2, <4>1, <4>2, <4>3, <4>4, <4>5
    <3> QED BY <3>1, <3>2
  <2> QED BY <2>2, <2>3 DEF ReceiptUnderWay
<1>8. CASE UserStep
  BY <1>1, <1>8, UserLeaves
<1>9. CASE FlushStep
  BY <1>1, <1>2, <1>3, <1>4, <1>5, <1>9
     DEF FlushStep, StartCycle, LoadBatch, BatchDone, ApplySuccess, Shelve, AfterShelving,
         Reread, ConfirmRow, ApplyRefusal
<1>10. CASE PullStep
  BY <1>1, <1>10 DEF PullStep, FetchPage, PullFails, LoadForRebase, ApplyPage, ApplyPageFails
<1>11. CASE WorldStep \/ UNCHANGED vars
  BY <1>1, <1>6, <1>11 DEF WorldStep, ForeignEdit, ForeignDelete, vars
<1> QED BY <1>7, <1>8, <1>9, <1>10, <1>11 DEF Next

(* What the receipts just looked at name is kept, by the shelf if by       *)
(* nothing else.                                                           *)
LEMMA ShelveKeeps ==
  ASSUME KeptInv, [Next]_vars, ReplaceInv, Shelve,
         NEW t \in ghost.displaced, t = Result.receipts["text"]
  PROVE  KeptText(t)'
<1>0. /\ TypeInv /\ TypeOK /\ CycleOK /\ t \in ghost.foreign /\ t # Unset
      /\ t \in Past \ {0}
  BY TextSets DEF KeptInv, ParkedInv, TypeInv, ReplaceInv, DisplacedForeign, ForeignPast
<1>1. /\ Held(answers) # {} /\ Cur \in Held(answers) /\ Cur \in Held(batch)
      /\ Op \in Entries /\ Result \in Answers
  BY <1>0, CurTypes DEF Shelve, CycleOK, InResult
<1>2. Op.op = "update"
  BY <1>0, <1>1 DEF ReplaceInv, AnswersGood, GoodAnswer, Result, Op
<1>3. GoodOp(Op)
  BY <1>1 DEF ReplaceInv, QueuesGood, Ledgers, Op
<1>4. t \notin Unseen => KeptText(t)'
  BY <1>0, Remembers DEF Unseen, KeptText
<1> DEFINE afterOwn == FilterSelfConflicts(Result.receipts, Op.base, Op.fields)
           later == {s \in OfRow(outbox, Op.id) \cap InState(outbox, {"queued", "inflight"}) :
                       s > Cur}
<1>5. CASE t = Op.base["text"]
  BY <1>3, <1>4, <1>5 DEF GoodOp
<1>6. CASE t # Op.base["text"]
  <2>1. Op.fields["text"] # t
    BY <1>0, <1>2, <1>3 DEF GoodOp, Text
  <2>2. afterOwn["text"] = t
    BY <1>6, <2>1 DEF FilterSelfConflicts, Fields
  <2>3. ASSUME NEW s \in later,
               FilterSelfConflicts(afterOwn, Op.base, outbox[s].fields)["text"] = Unset
        PROVE  KeptText(t)'
    <3>1. t = outbox[s].fields["text"]
      <4> HIDE DEF afterOwn
      <4> QED BY <1>0, <1>6, <2>2, <2>3 DEF FilterSelfConflicts, Fields
    <3>2. GoodOp(outbox[s])
      BY DEF ReplaceInv, QueuesGood, Ledgers, OfRow
    <3> QED BY <1>4, <3>1, <3>2 DEF GoodOp, Text
  <2>4. CASE \A s \in later :
               FilterSelfConflicts(afterOwn, Op.base, outbox[s].fields)["text"] # Unset
    <3>1. "text" \in RealConflicts
      <4>1. afterOwn["text"] # 0 /\ "text" \in Carries(afterOwn)
        BY <1>0, <2>2 DEF Carries, Fields
      <4> QED BY <2>4, <4>1 DEF RealConflicts
    <3>2. [id |-> Op.id, field |-> "text", own |-> Op.fields["text"],
           server |-> Result.receipts["text"]] \in shelf'
      BY <3>1 DEF Shelve
    <3> QED BY <3>2 DEF KeptText, Shelved
  <2> QED BY <2>3, <2>4
<1> QED BY <1>5, <1>6

(* A receipt that has been looked at has done its work.                    *)
LEMMA ShelvedStep ==
  ASSUME KeptInv, [Next]_vars, ReplaceInv
  PROVE  ShelvedOK'
<1> USE DEF cycleVars, phoneVars
<1>0. TypeInv /\ TypeInv' /\ CycleOK /\ RequestsOK /\ TypeOK
  BY NextTypes DEF KeptInv, ParkedInv, TypeInv
<1> SUFFICES ASSUME pc' \in {"reread", "upsert"}, NEW t \in ghost'.displaced,
                    t = Result'.receipts["text"]
             PROVE  KeptText(t)'
  BY DEF ShelvedOK, KeptText, Shelved
<1>1. reqs["live"] = None \/ pc = "sent"
  BY <1>0 DEF RequestsOK
<1>2. CASE pc \in {"reread", "upsert"} /\ answers' = answers
  <2>1. t = Result.receipts["text"] /\ reqs["live"] = None
    BY <1>1, <1>2 DEF Result, Cur, Held
  <2>2. CASE t \in ghost.displaced
    BY <1>0, <1>2, <2>1, <2>2, KeptTextStays DEF ReplaceInv, ShelvedOK
  <2> QED BY <2>1, <2>2, JustReplaced
<1>3. CASE Shelve
  <2>1. UNCHANGED <<answers, ghost>> /\ t = Result.receipts["text"]
    BY <1>3 DEF Shelve, AfterShelving, NextResult, Result, Cur, Held
  <2> QED BY <1>3, <2>1, ShelveKeeps
<1>4. CASE ApplySuccess
  <2>1. /\ UNCHANGED <<answers, ghost>> /\ t = Result.receipts["text"]
        /\ Carries(Result.receipts) = {}
    BY <1>4 DEF ApplySuccess, AfterShelving, NextResult, Result, Cur, Held
  <2>2. t = Unset /\ t \in ghost.displaced
    BY <2>1 DEF Carries, Fields
  <2> QED BY <2>2, TextSets
<1>5. CASE UserStep
  BY <1>2, <1>5, UserLeaves
<1>6. CASE FlushStep
  BY <1>2, <1>3, <1>4, <1>6
     DEF FlushStep, StartCycle, LoadBatch, Send, RequestFails, Reply, BatchDone,
         Reread, ConfirmRow, ApplyRefusal, NextResult
<1>7. CASE PullStep
  BY <1>7 DEF PullStep, FetchPage, PullFails, LoadForRebase, ApplyPage, ApplyPageFails
<1>8. CASE ServerStep \/ WorldStep \/ UNCHANGED vars
  BY <1>2, <1>8
     DEF ServerStep, SkipDependent, RefuseOp, ReadForCreate, ReadForUpdate,
         WriteCreate, WriteUpdate, WriteAborts, DeleteRow, LateEnds,
         WorldStep, Crash, ForeignEdit, ForeignDelete, vars
<1> QED BY <1>5, <1>6, <1>7, <1>8 DEF Next

(* No text this phone replaced is lost sight of.                           *)
LEMMA ReplacedStep ==
  ASSUME KeptInv, [Next]_vars, ReplaceInv
  PROVE  ReplacedTextKept'
<1>0. TypeInv /\ CycleOK
  BY DEF KeptInv, ParkedInv, TypeInv
<1> SUFFICES ASSUME NEW t \in ghost'.displaced
             PROVE  KeptText(t)' \/ ReceiptUnderWay(t)'
  BY DEF ReplacedTextKept, KeptText, Shelved
<1>1. CASE t \notin ghost.displaced
  BY <1>1, JustReplaced
<1>2. CASE t \in ghost.displaced /\ KeptText(t)
  BY <1>0, <1>2, KeptTextStays
<1>3. CASE t \in ghost.displaced /\ ReceiptUnderWay(t)
  <2>1. SUFFICES ASSUME Held(answers) # {}, NextResult, t = Result.receipts["text"]
                 PROVE  KeptText(t)' \/ ReceiptUnderWay(t)'
    BY <1>3, ReceiptsGoOn DEF ReplaceInv, KeptText
  <2>2. t # Unset /\ Cur \in Held(answers)
    BY <1>0, <1>3, <2>1, TextSets, CurTypes
  <2>3. CASE ApplySuccess
    BY <2>1, <2>2, <2>3 DEF ApplySuccess, NextResult, Carries, Fields
  <2>4. CASE Shelve
    BY <1>3, <2>1, <2>4, ShelveKeeps
  <2>5. CASE pc \in {"reread", "upsert"}
    BY <1>0, <1>3, <2>1, <2>5, KeptTextStays DEF ReplaceInv, ShelvedOK
  <2>6. CASE ApplyRefusal
    BY <2>1, <2>2, <2>6 DEF ApplyRefusal, ReplaceInv, AnswersGood, GoodAnswer, Result
  <2>7. answers' # answers
    <3>1. answers'[Cur] = None /\ answers[Cur] # None
      BY <1>0, <2>1, <2>2 DEF NextResult, TypeInv, TypeOK, Held
    <3> QED BY <3>1
  <2>8. ~Reply /\ ~Crash
    BY <1>0, <2>1 DEF NextResult, Reply, Crash, CycleOK, InResult
  <2>9. CASE FlushStep
    BY <2>3, <2>4, <2>5, <2>6, <2>7, <2>8, <2>9
       DEF FlushStep, StartCycle, LoadBatch, Send, RequestFails, BatchDone, Reread, ConfirmRow
  <2>10. FlushStep
    BY <2>7, <2>8
       DEF Next, UserStep, PullStep, ServerStep, WorldStep, vars, phoneVars, cycleVars,
           Create, UpdateText, UpdateRef, Update, Delete, Retry, Discard, Recreate, Reset,
           FetchPage, PullFails, LoadForRebase, ApplyPage, ApplyPageFails,
           SkipDependent, RefuseOp, ReadForCreate, ReadForUpdate, WriteCreate, WriteUpdate,
           WriteAborts, DeleteRow, LateEnds, ForeignEdit, ForeignDelete
  <2> QED BY <2>9, <2>10
<1> QED BY <1>1, <1>2, <1>3 DEF ReplaceInv, ReplacedTextKept, KeptText

(* A text of the other device that this phone's write replaced was on this *)
(* phone's screen before, or is on the conflict shelf, or its receipt is   *)
(* under way; with the exceptions ReplacedTextKept names.                  *)
THEOREM ReplacedTextsStay ==
  Spec => []ReplacedTextKept
<1>1. Init => ReplaceInv
  <2> SUFFICES ASSUME Init PROVE ReplaceInv
    OBVIOUS
  <2>1. /\ ghost.foreign = {} /\ ghost.displaced = {} /\ reqs = [k \in Lanes |-> None]
        /\ pc = "idle" /\ clock = 1 /\ answers = NoOps
        /\ batch = NoOps /\ outbox = NoOps
        /\ mirror = srv
    BY DEF Init
  <2>2. \A i \in Live(srv) : srv[i].at = 1
    BY DEF Init, KnownRow, Live
  <2>3. Held(answers) = {} /\ reqs["live"] = None /\ \A ob \in Ledgers : Held(ob) = {}
    BY <2>1 DEF Held, NoOps, Ledgers, Lanes
  <2>4. QueuesGood /\ PageGood /\ AnswersGood /\ AnsweredOnce
    BY <2>1, <2>3 DEF QueuesGood, PageGood, AnswersGood, AnsweredOnce
  <2>5. ForeignPast /\ DisplacedForeign /\ ShelvedOK /\ ReplacedTextKept
    BY <2>1 DEF ForeignPast, DisplacedForeign, ShelvedOK, ReplacedTextKept
  <2>6. VersionsPast
    BY <2>1, <2>2 DEF VersionsPast
  <2>7. ScreenGood
    BY <2>1, <2>2 DEF ScreenGood, Noticed, Unnoticed, Unseen, Live
  <2> QED BY <2>4, <2>5, <2>6, <2>7 DEF ReplaceInv
<1>2. KeptInv /\ ReplaceInv /\ [Next]_vars => ReplaceInv'
  BY QueuesStayGood, ScreenStaysGood, PageStaysGood, AnswersStayGood, ForeignStep,
     VersionsStayPast, AnsweredOnceStep, ShelvedStep, ReplacedStep
     DEF ReplaceInv
<1>3. ReplaceInv => ReplacedTextKept
  BY DEF ReplaceInv
<1>4. Spec => []KeptInv
  BY KeptInvariant
<1> QED BY <1>1, <1>2, <1>3, <1>4, PTL DEF Spec

-----------------------------------------------------------------------------
(* What the screen shows of pending edits                                  *)

Dead(e) == e.state = "deadRemote"

(* PendingShown, of one row.                                               *)
Shown(i) ==
  i \in Live(mirror) =>
    \A s \in TextOps(outbox, i) :
      \/ \E r \in TextOps(outbox, i) : r > s
      \/ outbox[s].state = "deadRemote"
      \/ mirror[i].vals["text"] = outbox[s].fields["text"]
      \/ BeingApplied(i)
      \/ \E m \in Unshown : <<i, m>> \in ghost.marks

(* A queued create that was never sent holds all text of its row, for any  *)
(* later edit is folded into it; what has been in a request is marked.     *)
AllInCreate ==
  \A s \in Held(outbox) :
    IsCreate(outbox[s]) /\ ~outbox[s].sent /\ outbox[s].state = "queued"
      => TextOps(outbox, outbox[s].id) \subseteq {s}

SentMarked ==
  \A s \in Held(outbox) :
    outbox[s].state \in {"inflight", "retrying", "blocked"} => outbox[s].sent

(* What succeeds brings its row, but for a delete and a create of a row    *)
(* that was deleted since; only an update that was applied has receipts.   *)
SaneAnswer(e, answer) ==
  /\ answer.status \in Succeeded /\ e.op = "update" => answer.row # None
  /\ Carries(answer.receipts) # {} => answer.status \in Succeeded /\ e.op = "update"

AnswersSane ==
  /\ \A s \in Held(answers) : SaneAnswer(batch[s], answers[s])
  /\ reqs["live"] # None =>
       \A s \in Held(reqs["live"].answers) : SaneAnswer(batch[s], reqs["live"].answers[s])
  /\ pc = "shelve" => Result.row # None /\ Op.op = "update"

(* The rows the cycle is about to lay its copy of the outbox over, and     *)
(* that copy: it has the ops of these rows as they are, and besides them   *)
(* none that is laid over a row.                                           *)
Overlays(i) == (pc = "upsert" /\ i = Op.id) \/ (pc = "merge" /\ page.rows[i] # None)

Copied(i) ==
  /\ \A s \in OfRow(outbox, i) :
       /\ s \in OfRow(snap, i)
       /\ snap[s].op = outbox[s].op /\ snap[s].fields = outbox[s].fields
       /\ Dead(snap[s]) <=> Dead(outbox[s])
  /\ \A s \in OfRow(snap, i) : s \in OfRow(outbox, i) \/ Dead(snap[s])

CopyOK ==
  \A i \in Ids : Overlays(i) /\ <<i, "overtaken">> \notin ghost.marks => Copied(i)

ShownInv ==
  /\ AllInCreate /\ SentMarked
  /\ AnswersSane /\ CopyOK /\ PendingShown

(* A step keeps the screen of a row true if it leaves row and ops as they  *)
(* are, or takes none but older ones away.                                 *)
LEMMA StaysShown ==
  ASSUME NEW i \in Ids, Shown(i),
         i \in Live(mirror') => /\ i \in Live(mirror)
                                /\ mirror'[i].vals["text"] = mirror[i].vals["text"],
         \A s \in TextOps(outbox', i) :
           /\ s \in TextOps(outbox, i) /\ Text(outbox'[s]) = Text(outbox[s])
           /\ Dead(outbox[s]) => Dead(outbox'[s]),
         \A s \in TextOps(outbox', i), r \in TextOps(outbox, i) :
           r > s => \E q \in TextOps(outbox', i) : q > s,
         ghost.marks \subseteq ghost'.marks,
         BeingApplied(i) => BeingApplied(i)' \/ <<i, "cut">> \in ghost'.marks
  PROVE  Shown(i)'
<1> SUFFICES ASSUME i \in Live(mirror'), NEW s \in TextOps(outbox', i)
             PROVE  \/ \E r \in TextOps(outbox', i) : r > s
                    \/ outbox'[s].state = "deadRemote"
                    \/ mirror'[i].vals["text"] = outbox'[s].fields["text"]
                    \/ BeingApplied(i)'
                    \/ \E m \in Unshown : <<i, m>> \in ghost'.marks
  BY DEF Shown
<1>1. s \in TextOps(outbox, i)
      /\ outbox'[s].fields["text"] = outbox[s].fields["text"]
      /\ (Dead(outbox[s]) => Dead(outbox'[s]))
  BY DEF TextOps, Text
<1>2. "cut" \in Unshown
  BY DEF Unshown
<1>3. \/ \E r \in TextOps(outbox, i) : r > s
      \/ outbox[s].state = "deadRemote"
      \/ mirror[i].vals["text"] = outbox[s].fields["text"]
      \/ BeingApplied(i)
      \/ \E m \in Unshown : <<i, m>> \in ghost.marks
  BY <1>1 DEF Shown
<1> QED BY <1>1, <1>2, <1>3 DEF Dead

(* What is laid over a row is the last text that waits for it.             *)
LEMMA LastPending ==
  ASSUME NEW ob \in Outboxes, NEW i \in Ids
  PROVE  /\ \A s \in TextOps(ob, i) :
              /\ ~Dead(ob[s]) /\ ob[s].op # "delete"
              /\ \A r \in TextOps(ob, i) : ~Dead(ob[r]) /\ ob[r].op # "delete" => r <= s
              => CollectDirty(ob, i)["text"] = ob[s].fields["text"]
         /\ \A s \in TextOps(ob, i) :
              ~Dead(ob[s]) /\ ob[s].op # "delete" => CollectDirty(ob, i)["text"] # Unset
<1> DEFINE pending(f) == {s \in OfRow(ob, i) : /\ ob[s].state # "deadRemote"
                                              /\ ob[s].op # "delete"
                                              /\ ob[s].fields[f] # Unset}
<1>1. CollectDirty(ob, i)["text"] = IF pending("text") = {} THEN Unset
                                    ELSE ob[Last(pending("text"))].fields["text"]
  BY DEF CollectDirty, Fields
<1>2. \A s : s \in pending("text") <=> s \in TextOps(ob, i) /\ ~Dead(ob[s]) /\ ob[s].op # "delete"
  BY DEF TextOps, Dead
<1>3. pending("text") \in SUBSET Seqs
  BY DEF OfRow, Held
<1> HIDE DEF pending
<1>4. pending("text") # {} => Last(pending("text")) \in pending("text")
  BY <1>3, LastIsIn
<1>5. ASSUME NEW s \in pending("text"), \A r \in pending("text") : r <= s
      PROVE  Last(pending("text")) = s
  <2>1. \A r \in pending("text") : r <= Last(pending("text"))
    BY <1>5 DEF Last
  <2>2. s <= Last(pending("text")) /\ Last(pending("text")) <= s /\ s \in Nat
        /\ Last(pending("text")) \in Nat
    BY <1>3, <1>4, <1>5, <2>1 DEF Seqs
  <2> QED BY <2>2
<1>6. \A s \in pending("text") : ob[s].fields["text"] # Unset
  BY DEF pending
<1>7. ASSUME NEW s \in TextOps(ob, i), ~Dead(ob[s]), ob[s].op # "delete"
      PROVE  CollectDirty(ob, i)["text"] # Unset
  BY <1>1, <1>2, <1>4, <1>6, <1>7
<1>8. ASSUME NEW s \in TextOps(ob, i), ~Dead(ob[s]), ob[s].op # "delete",
             \A r \in TextOps(ob, i) : ~Dead(ob[r]) /\ ob[r].op # "delete" => r <= s
      PROVE  CollectDirty(ob, i)["text"] = ob[s].fields["text"]
  <2>1. s \in pending("text") /\ \A r \in pending("text") : r <= s
    BY <1>2, <1>8
  <2> QED BY <1>1, <1>5, <2>1
<1> QED BY <1>7, <1>8

(* What the account answers makes sense, and so what is being applied.     *)
LEMMA AnswersStaySane ==
  ASSUME KeptInv, [Next]_vars, AnswersSane
  PROVE  AnswersSane'
<1>0. TypeInv /\ TypeOK /\ TypeOK' /\ CycleOK /\ RequestsOK /\ "live" \in Lanes
  BY NextTypes DEF KeptInv, ParkedInv, TypeInv, Lanes
<1>1. ASSUME batch' = batch, NEW answer \in Answers, Working("live"),
             Finish("live", answer), Says("live", answer)
      PROVE  SaneAnswer(batch[HeadSeq("live")], answer)
  <2>1. HeadOp("live") = batch[HeadSeq("live")]
    BY <1>0, <1>1, Recorded
  <2>2. Carries(answer.receipts) # {} => answer.status \in Succeeded /\ HeadOp("live").op = "update"
    BY <1>1 DEF Says, Carries, NoFields, WriteUpdate, Writes, Succeeded
  <2> QED BY <1>1, <2>1, <2>2 DEF Says, SaneAnswer
<1>2. ASSUME batch' = batch, NEW s \in Held(answers')
      PROVE  SaneAnswer(batch[s], answers'[s])
  <2>1. CASE NoNewOp
    <3>1. \/ s \in Held(answers) /\ answers'[s] = answers[s]
          \/ /\ reqs["live"] # None /\ s \in Held(reqs["live"].answers)
             /\ answers'[s] = reqs["live"].answers[s]
      BY <1>0, <1>2, <2>1, AnswersCome DEF Held
    <3> QED BY <3>1 DEF AnswersSane
  <2>2. ASSUME NEW e \in Entries, Adds(e)
        PROVE  SaneAnswer(batch[s], answers'[s])
    BY <1>2, <2>2 DEF Adds, AddsOp, AnswersSane, Held
  <2> QED BY <2>1, <2>2, OpsCome
<1>3. ASSUME batch' = batch, reqs'["live"] # None, NEW s \in Held(reqs'["live"].answers)
      PROVE  SaneAnswer(batch[s], reqs'["live"].answers[s])
  <2>1. CASE reqs["live"] # None /\ reqs'["live"].answers = reqs["live"].answers
    BY <1>3, <2>1 DEF AnswersSane
  <2>2. ASSUME NEW answer \in Answers, Working("live"),
               Finish("live", answer), Says("live", answer)
        PROVE  SaneAnswer(batch[s], reqs'["live"].answers[s])
    <3>1. /\ reqs'["live"].answers = [reqs["live"].answers EXCEPT ![HeadSeq("live")] = answer]
          /\ reqs["live"].answers \in [Seqs -> Answers \cup {None}] /\ reqs["live"] # None
      BY <1>0, <2>2, Recorded
    <3>2. CASE s = HeadSeq("live")
      <4>1. reqs'["live"].answers[s] = answer
        BY <1>3, <3>1, <3>2 DEF Held
      <4> QED BY <1>1, <1>3, <2>2, <3>2, <4>1
    <3>3. CASE s # HeadSeq("live")
      <4>1. s \in Held(reqs["live"].answers) /\ reqs'["live"].answers[s] = reqs["live"].answers[s]
        BY <1>3, <3>1, <3>3 DEF Held
      <4> QED BY <3>1, <4>1 DEF AnswersSane
    <3> QED BY <3>2, <3>3
  <2>3. CASE Held(reqs'["live"].answers) = {}
    BY <1>3, <2>3
  <2> QED BY <1>3, <2>1, <2>2, <2>3, LiveGoes
<1>4. pc' = "shelve" => Result'.row # None /\ Op'.op = "update"
  <2> SUFFICES ASSUME pc' = "shelve"
               PROVE  Result'.row # None /\ Op'.op = "update"
    OBVIOUS
  <2>1. CASE pc = "shelve" /\ UNCHANGED <<answers, batch>>
    BY <2>1 DEF AnswersSane, Result, Op, Cur
  <2>2. CASE ApplySuccess
    <3>1. Held(answers) # {} /\ Result.status \in Succeeded
      BY <2>2 DEF ApplySuccess
    <3>2. Carries(Result.receipts) # {} /\ UNCHANGED <<answers, batch>>
      BY <2>2 DEF ApplySuccess, AfterShelving, NextResult
    <3>3. SaneAnswer(Op, Result)
      BY <1>0, <3>1, CurTypes DEF AnswersSane, Op, Result
    <3>4. Result' = Result /\ Op' = Op
      BY <3>2 DEF Result, Op, Cur
    <3> QED BY <3>1, <3>2, <3>3, <3>4 DEF SaneAnswer
  <2>3. \/ pc = "shelve" /\ UNCHANGED <<answers, batch>>
        \/ ApplySuccess
    <3> USE DEF cycleVars
    <3>1. CASE FlushStep \/ PullStep
      BY <3>1 DEF FlushStep, PullStep, StartCycle, LoadBatch, Send, RequestFails, Reply,
                  BatchDone, Shelve, AfterShelving, NextResult, Reread, ConfirmRow,
                  ApplyRefusal, FetchPage, PullFails, LoadForRebase, ApplyPage,
                  ApplyPageFails
    <3>2. CASE UserStep \/ ServerStep \/ WorldStep \/ UNCHANGED vars
      BY <3>2, UserLeaves, ServerLeaves, WorldLeaves DEF Crash, vars
    <3> QED BY <3>1, <3>2 DEF Next
  <2> QED BY <2>1, <2>2, <2>3
<1>5. CASE batch' = batch
  BY <1>2, <1>3, <1>4, <1>5 DEF AnswersSane
<1>6. CASE Held(answers)' = {} /\ reqs'["live"] = None
  BY <1>4, <1>6 DEF AnswersSane
<1> QED BY <1>0, <1>5, <1>6, BatchWithAnswers

(* Where an op goes: dead it stays, and it stands in another state than    *)
(* queued or dead only once it has been in a request.                      *)
LEMMA StateMoves ==
  ASSUME KeptInv, [Next]_vars, NEW s \in Held(outbox'), s \in Held(outbox)
  PROVE  \/ outbox'[s].state = outbox[s].state
         \/ outbox[s].state = "inflight"
         \/ /\ outbox[s].state # "deadRemote"
            /\ outbox'[s].state \in {"queued", "deadRemote"} \/ outbox'[s].sent
<1> USE DEF phoneVars
<1>0. /\ ParkedInv /\ TypeInv /\ TypeOK /\ BatchState
      /\ outbox[s] \in Entries
  BY KeptTypes DEF KeptInv, ParkedInv
<1>1. CASE UserStep
  <2>1. CASE UNCHANGED outbox
    BY <2>1
  <2>2. ASSUME NEW r \in Seqs, Retry(r)
        PROVE  \/ outbox'[s].state = outbox[s].state
               \/ outbox[s].state # "deadRemote" /\ outbox'[s].state = "queued"
    BY <1>0, <2>2 DEF Retry, TypeOK, Outboxes, Entries
  <2>3. CASE UserStep /\ ~\E r \in Seqs : Retry(r)
    <3>1. NoNewOp \/ \E e \in Entries : Adds(e)
      BY <2>3, OpsCome DEF Next
    <3>2. ASSUME NEW e \in Entries, AddsOp(e)
          PROVE  outbox'[s].state = outbox[s].state
      <4>1. Merged(outbox[s], e).state = outbox[s].state
        BY <1>0 DEF Merged, Entries
      <4>2. s # nextSeq
        BY <1>0 DEF ParkedInv, NumbersUsed, TypeOK, Held, Seqs
      <4> QED BY <3>2, <4>1, <4>2 DEF AddsOp
    <3>3. ASSUME NEW r \in Seqs, Discard(r)
          PROVE  outbox'[s].state = outbox[s].state
      BY <1>0, <3>3 DEF Discard, TypeOK, Outboxes, Held
    <3>4. CASE Reset
      BY <3>4 DEF Reset
    <3>5. ASSUME NEW i \in Ids, Create(i) \/ UpdateText(i) \/ UpdateRef(i) \/ Delete(i)
          PROVE  outbox'[s].state = outbox[s].state
      BY <3>2, <3>5, EditAdds DEF Adds
    <3>6. ASSUME NEW r \in Seqs, NEW i \in Places, Recreate(r, i)
          PROVE  outbox'[s].state = outbox[s].state
      BY <3>2, <3>6, RecreateAdds DEF Adds
    <3> QED BY <2>3, <3>3, <3>4, <3>5, <3>6 DEF UserStep
  <2> QED BY <1>1, <2>2, <2>3
<1>2. CASE StartCycle
  BY <1>0, <1>2 DEF StartCycle, RecoveredStates, InState, Held, Entries
<1>3. CASE Send
  <2>1. CASE batch[s] # None
    <3>1. outbox'[s].sent /\ outbox[s].state = "queued"
      BY <1>0, <1>3, <2>1 DEF Send, Held, Entries, BatchState
    <3> QED BY <3>1
  <2>2. CASE batch[s] = None
    BY <1>3, <2>2 DEF Send, Held
  <2> QED BY <2>1, <2>2
<1>4. CASE RequestFails
  BY <1>0, <1>4 DEF RequestFails, Held, BatchState
<1>5. CASE ApplySuccess
  BY <1>0, <1>5 DEF ApplySuccess, Held, TypeOK, Outboxes
<1>6. CASE ApplyRefusal
  <2>1. Cur \in Held(answers) /\ Cur \in Seqs
    BY <1>0, <1>6, CurTypes DEF ApplyRefusal
  <2>2. CASE s # Cur
    BY <1>0, <1>6, <2>2 DEF ApplyRefusal, Held, TypeOK, Outboxes
  <2>3. CASE s = Cur
    BY <1>0, <2>1, <2>3 DEF BatchState
  <2> QED BY <2>2, <2>3
<1>7. CASE ApplyPage
  BY <1>0, <1>7 DEF ApplyPage, Orphaned, Held, Entries
<1>8. CASE UNCHANGED outbox
  BY <1>8
<1> QED
  BY <1>1, <1>2, <1>3, <1>4, <1>5, <1>6, <1>7, <1>8
  DEF Next, FlushStep, PullStep, ServerStep, WorldStep, vars, LoadBatch, Reply, BatchDone,
      Shelve, Reread, ConfirmRow, FetchPage, PullFails, LoadForRebase,
      ApplyPageFails, SkipDependent, RefuseOp, ReadForCreate, ReadForUpdate, WriteCreate,
      WriteUpdate, WriteAborts, DeleteRow, LateEnds, Crash, ForeignEdit, ForeignDelete

(* What has been in a request is marked for good.                          *)
LEMMA SentStaysMarked ==
  ASSUME KeptInv, [Next]_vars, SentMarked
  PROVE  SentMarked'
<1>0. ParkedInv /\ \A s \in Held(outbox) : outbox[s] \in Entries
  BY KeptTypes DEF KeptInv
<1>1. ASSUME NEW s \in Held(outbox'), s \in Held(outbox), outbox[s].sent => outbox'[s].sent,
             outbox'[s].state \in {"inflight", "retrying", "blocked"}
      PROVE  outbox'[s].sent
  BY <1>1, StateMoves DEF SentMarked
<1>2. CASE NoNewOp
  <2>1. \A s \in Held(outbox)' : s \in Held(outbox) /\ Same(s)
    BY <1>0, <1>2, NoNewOpSlides DEF Slide
  <2> QED BY <1>1, <2>1 DEF SentMarked, Same, Held
<1>3. NoNewOp \/ UserStep
  BY DEF Next, NoNewOp
<1>4. CASE UserStep /\ ~NoNewOp
  <2>1. PICK e \in Entries : Adds(e)
    BY <1>4, OpsCome
  <2>2. ASSUME NEW s \in Held(outbox'), s \notin Held(outbox)
        PROVE  outbox'[s].state = "queued"
    BY <1>0, <1>4, <2>2, UserMoveStep DEF UserMove, Held
  <2>3. ASSUME NEW s \in Held(outbox'), s \in Held(outbox)
        PROVE  outbox'[s].sent = outbox[s].sent
    <3>1. s # nextSeq
      BY <1>0, <2>3 DEF ParkedInv, NumbersUsed, TypeInv, TypeOK, Held, Seqs
    <3>2. Merged(outbox[s], e).sent = outbox[s].sent
      BY <1>0, <2>1, <2>3, MergedOp
    <3> QED BY <2>1, <2>3, <3>1, <3>2 DEF Adds, AddsOp, Held
  <2> QED BY <1>1, <2>2, <2>3 DEF SentMarked, Held
<1> QED BY <1>2, <1>3, <1>4

(* An op the user makes on a row's screen, and what becomes of the screen. *)
Edits(e) ==
  /\ e \in Entries /\ Enqueue(e)
  /\ IsCreate(e) => e.id \notin ghost.minted
  /\ e.op = "delete" => Text(e) = Unset
  /\ ghost.marks \cup FoldsOf(e) \cup MarkOvertaken(e.id) \subseteq ghost'.marks
  /\ UNCHANGED <<pc, batch, answers, snap, page, reqs>>
  /\ \A i \in Live(mirror') :
       \/ /\ i # e.id \/ (e.op # "delete" /\ Text(e) = Unset)
          /\ i \in Live(mirror) /\ mirror'[i].vals["text"] = mirror[i].vals["text"]
       \/ /\ i = e.id /\ e.op # "delete" /\ Text(e) # Unset
          /\ mirror'[i].vals["text"] = Text(e)

(* Every edit is such an op.                                               *)
LEMMA EditMade ==
  ASSUME KeptInv, NEW i \in Ids, Create(i) \/ UpdateText(i) \/ UpdateRef(i) \/ Delete(i)
  PROVE  \E e : Edits(e)
<1> USE DEF cycleVars, accountVars
<1>0. /\ TypeOK /\ stamp \in Nat /\ ghost \in Ghosts
      /\ NoFields \in OpFields /\ 0 \in Values
      /\ mirror \in Mirrors
  BY KeptTypes, RowTypes, PlanAssumption DEF KeptInv, TypeOK, Values
<1>a. stamp < MaxStamp => stamp + 1 \in Values
  BY <1>0, PlanAssumption DEF Values
<1>b. ASSUME NEW e, e.id \in Ids, NEW owed, NEW gone, Remember(e, owed, gone)
      PROVE  ghost.marks \cup FoldsOf(e) \cup MarkOvertaken(e.id) \subseteq ghost'.marks
  BY <1>0, <1>b DEF Remember, Ghosts
<1>1. CASE Create(i)
  <2>1. /\ stamp' = stamp + 1 /\ stamp' \in Values /\ i \notin ghost.minted
        /\ UNCHANGED <<pc, batch, answers, snap, page, reqs>>
    BY <1>a, <1>1 DEF Create
  <2>2. PICK ref \in IF i \in Trips THEN LinkChoices ELSE {Unset} :
          LET fields == [NoFields EXCEPT !["text"] = stamp', !["ref"] = ref]
              e == NewEntry("create", i, fields, NoFields, 0)
          IN /\ Enqueue(e) /\ Remember(e, stamp', ghost.gone)
             /\ mirror' = [mirror EXCEPT ![i] = [vals |-> Filled(fields), at |-> 0]]
    BY <1>1 DEF Create
  <2>3. PICK fields : fields = [NoFields EXCEPT !["text"] = stamp', !["ref"] = ref]
    OBVIOUS
  <2>4. PICK e : e = NewEntry("create", i, fields, NoFields, 0)
    OBVIOUS
  <2>5. /\ Enqueue(e) /\ Remember(e, stamp', ghost.gone)
        /\ mirror' = [mirror EXCEPT ![i] = [vals |-> Filled(fields), at |-> 0]]
    BY <2>2, <2>3, <2>4
  <2>6. fields \in OpFields /\ fields["text"] = stamp' /\ stamp' # Unset
    BY <2>1, <2>3, UnsetAssumption DEF NoFields, OpFields, LinkChoices, Values, Fields
  <2>7. e \in Entries /\ e.op = "create" /\ e.id = i /\ Text(e) = stamp'
    BY <1>0, <2>4, <2>6, NewEntryType DEF OpKinds, NewEntry, Text
  <2>8. \A j \in Live(mirror') : IF j = i THEN mirror'[j].vals["text"] = stamp'
                                 ELSE j \in Live(mirror) /\ mirror'[j] = mirror[j]
    BY <1>0, <2>5, <2>6 DEF Live, Mirrors, Filled, Fields
  <2> QED BY <1>b, <2>1, <2>5, <2>6, <2>7, <2>8 DEF Edits
<1>2. ASSUME NEW f \in Fields, NEW v \in Values, Update(i, f, v)
      PROVE  \E e : Edits(e)
  <2>0. PICK e : e = NewEntry("update", i, [NoFields EXCEPT ![f] = v],
                              [NoFields EXCEPT ![f] = mirror[i].vals[f]], mirror[i].at)
    OBVIOUS
  <2>1. mirror[i] \in Rows /\ mirror[i].vals \in RowVals /\ mirror[i].at \in Nat
    <3>1. mirror[i] # None
      BY <1>2 DEF Update
    <3> QED BY <1>0, <3>1 DEF Rows, Mirrors
  <2>2. /\ [NoFields EXCEPT ![f] = v] \in OpFields
        /\ [NoFields EXCEPT ![f] = mirror[i].vals[f]] \in OpFields
    BY <1>0, <2>1 DEF OpFields, RowVals
  <2>3. e \in Entries
    BY <2>0, <2>1, <2>2, NewEntryType DEF OpKinds
  <2>4. /\ e.op = "update" /\ e.id = i
        /\ Text(e) = IF f = "text" THEN v ELSE Unset
    BY <2>0, <2>2 DEF NewEntry, Text, NoFields, Fields, OpFields
  <2>5. /\ Enqueue(e) /\ Remember(e, IF f = "text" THEN v ELSE ghost.owed[i], ghost.gone)
        /\ UNCHANGED <<pc, batch, answers, snap, page, reqs>>
    BY <1>2, <2>0 DEF Update
  <2>6. v # Unset
    BY UnsetAssumption
  <2>7. mirror' = [mirror EXCEPT ![i].vals[f] = v]
    BY <1>2 DEF Update
  <2>8. mirror'[i].vals["text"] = IF f = "text" THEN v ELSE mirror[i].vals["text"]
    BY <1>0, <2>1, <2>7 DEF Mirrors, Rows, RowVals, Fields
  <2>9. /\ i \in Live(mirror)
        /\ \A j \in Live(mirror') : j # i => j \in Live(mirror) /\ mirror'[j] = mirror[j]
    BY <1>0, <1>2, <2>7 DEF Live, Mirrors, Update
  <2> QED BY <1>b, <2>3, <2>4, <2>5, <2>6, <2>8, <2>9 DEF Edits, IsCreate
<1>3. CASE UpdateText(i)
  <2>1. stamp' \in Values /\ Update(i, "text", stamp')
    BY <1>a, <1>3 DEF UpdateText
  <2> QED BY <1>2, <2>1 DEF Fields
<1>4. CASE UpdateRef(i)
  <2>1. LinkChoices \subseteq Values
    BY DEF LinkChoices, Values
  <2>2. \E p \in Values : Update(i, "ref", p)
    BY <1>4, <2>1 DEF UpdateRef
  <2> QED BY <1>2, <2>2 DEF Fields
<1>5. CASE Delete(i)
  <2>0. PICK e : e = NewEntry("delete", i, NoFields, NoFields, 0)
    OBVIOUS
  <2>1. e \in Entries
    BY <1>0, <2>0, NewEntryType DEF OpKinds
  <2>2. /\ Enqueue(e) /\ Remember(e, 0, ghost.gone \cup {i})
        /\ UNCHANGED <<pc, batch, answers, snap, page, reqs>>
        /\ mirror' = Without(mirror, i, 0)
    BY <1>5, <2>0 DEF Delete
  <2>3. Text(e) = Unset /\ e.op = "delete" /\ e.id = i
    BY <2>0 DEF NewEntry, Text, NoFields, Fields
  <2>4. \A j \in Live(mirror') : /\ j # i /\ j \in Live(mirror)
                                 /\ mirror'[j].vals["text"] = mirror[j].vals["text"]
    BY <1>0, <2>2 DEF Live, Without, Mirrors, Rows, RowVals, Fields
  <2> QED BY <1>b, <2>1, <2>2, <2>3, <2>4 DEF Edits, IsCreate
<1> QED BY <1>1, <1>3, <1>4, <1>5

(* What an edit makes of the queue.                                        *)
LEMMA EditQueue ==
  ASSUME KeptInv, NEW e, Edits(e)
  PROVE  /\ \A s \in Held(outbox') :
              \/ s \in Held(outbox) /\ outbox'[s] = outbox[s] /\ s \notin MergeTargets(outbox, e)
              \/ /\ s \in MergeTargets(outbox, e) /\ s \in Held(outbox)
                 /\ outbox'[s] = Merged(outbox[s], e)
              \/ /\ s = nextSeq /\ outbox'[s] = e /\ MergeTargets(outbox, e) = {}
         /\ \A s \in Held(outbox) : s \in Held(outbox') \/ (e.op = "delete" /\ outbox[s].id = e.id)
         /\ MergeTargets(outbox, e) = {} /\ e.op # "delete" => nextSeq \in Held(outbox') /\ outbox'[nextSeq] = e
         /\ \A s \in Held(outbox) : s < nextSeq /\ outbox[s].id \in ghost.minted /\ s \in Nat
         /\ \A s \in MergeTargets(outbox, e) : s \in Held(outbox) /\ outbox[s].id = e.id
                                               /\ outbox[s].state = "queued" /\ e.op = "update"
         /\ \A s \in Held(outbox) : outbox[s] \in Entries
         /\ nextSeq \in Nat
<1>0. /\ TypeOK /\ ParkedInv /\ e \in Entries /\ nextSeq \in Nat
      /\ \A s \in Held(outbox) : outbox[s] \in Entries
  BY KeptTypes DEF KeptInv, Edits
<1>1. /\ outbox' = AfterEnqueue(outbox, nextSeq, e)
      /\ Appends(outbox, e) => nextSeq <= MaxSeq
  BY DEF Edits, Enqueue
<1>2. \A s \in MergeTargets(outbox, e) :
        /\ s \in Held(outbox) /\ outbox[s].id = e.id /\ outbox[s].state = "queued"
        /\ e.op = "update" /\ s \notin Dropped(outbox, e)
  BY DEF MergeTargets, QueuedCreates, SameRowQueued, InState, OfRow, Dropped
<1>3. \A s \in Held(outbox) : s < nextSeq /\ outbox[s].id \in ghost.minted /\ s \in Nat
  BY DEF KeptInv, LedgersOK, Ledgers, Held, Seqs
<1>4. \A s \in MergeTargets(outbox, e) : Merged(outbox[s], e) \in Entries
  BY <1>0, <1>2, OverlayTypes DEF Merged, Entries
<1>5. ASSUME NEW s \in Held(outbox')
      PROVE  \/ s \in Held(outbox) /\ outbox'[s] = outbox[s] /\ s \notin MergeTargets(outbox, e)
             \/ /\ s \in MergeTargets(outbox, e) /\ s \in Held(outbox)
                /\ outbox'[s] = Merged(outbox[s], e)
             \/ /\ s = nextSeq /\ outbox'[s] = e /\ MergeTargets(outbox, e) = {}
  BY <1>1, <1>2 DEF AfterEnqueue, Held, Appends
<1>6. ASSUME NEW s \in Held(outbox), ~(e.op = "delete" /\ outbox[s].id = e.id)
      PROVE  s \in Held(outbox')
  <2>1. s \notin Dropped(outbox, e) /\ s # nextSeq /\ s \in Seqs
    BY <1>0, <1>3, <1>6 DEF Dropped, SameRowQueued, OfRow, Held
  <2>2. outbox'[s] = outbox[s] \/ (s \in MergeTargets(outbox, e) /\ outbox'[s] = Merged(outbox[s], e))
    BY <1>1, <2>1 DEF AfterEnqueue
  <2> QED BY <1>4, <1>6, <2>1, <2>2, NoneAssumption DEF Held
<1>7. ASSUME MergeTargets(outbox, e) = {}, e.op # "delete"
      PROVE  nextSeq \in Held(outbox') /\ outbox'[nextSeq] = e
  <2>1. Appends(outbox, e) /\ Dropped(outbox, e) = {}
    BY <1>7 DEF Appends, CancelsCreate, Dropped
  <2>2. nextSeq \in Seqs /\ outbox'[nextSeq] = e
    BY <1>0, <1>1, <1>7, <2>1 DEF AfterEnqueue, Seqs, TypeOK
  <2> QED BY <1>0, <2>2, NoneAssumption DEF Held
<1> QED BY <1>0, <1>2, <1>3, <1>5, <1>6, <1>7

(* A queued create takes the updates of its row.                           *)
LEMMA FoldedIntoCreate ==
  ASSUME KeptInv, NEW e \in Entries, NEW c \in QueuedCreates(outbox, e.id)
  PROVE  /\ \A s \in MergeTargets(outbox, e) : s = c
         /\ e.op = "update" => c \in MergeTargets(outbox, e)
<1>1. \A s \in QueuedCreates(outbox, e.id) : s = c
  <2>1. \A s \in QueuedCreates(outbox, e.id) :
          s \in Held(outbox) /\ IsCreate(outbox[s]) /\ outbox[s].id = e.id
    BY DEF QueuedCreates, SameRowQueued, OfRow, IsCreate
  <2>2. outbox \in Ledgers
    BY DEF Ledgers
  <2> QED BY <2>1, <2>2 DEF KeptInv, OneCreate
<1>2. c \in Nat
  BY DEF QueuedCreates, SameRowQueued, OfRow, Held, Seqs
<1>3. c <= c /\ QueuedCreates(outbox, e.id) # {}
  BY <1>2
<1>4. ASSUME e.op = "update"
      PROVE  c \in MergeTargets(outbox, e)
  BY <1>1, <1>3, <1>4 DEF MergeTargets
<1> QED BY <1>1, <1>3, <1>4 DEF MergeTargets

(* The copy the user makes of a deleted place is a new row, and of the     *)
(* queue only the op it is made from goes.                                 *)
LEMMA RecreateQueue ==
  ASSUME KeptInv, NEW s \in Seqs, NEW i \in Places, Recreate(s, i)
  PROVE  \E e \in Entries :
           /\ IsCreate(e) /\ e.id = i /\ i \in Ids \ ghost.minted
           /\ s \in Held(outbox) /\ Dead(outbox[s]) /\ outbox[s].id # i
           /\ \A r \in Held(outbox') :
                \/ r \in Held(outbox) /\ r # s /\ outbox'[r] = outbox[r]
                \/ r = nextSeq /\ outbox'[r] = e
           /\ \A r \in Held(outbox) : r = s \/ r \in Held(outbox')
           /\ \A r \in Held(outbox) : outbox[r].id \in ghost.minted
           /\ mirror'[i] # None /\ mirror'[i].vals["text"] = Text(e)
           /\ \A j \in Ids \ {i} : mirror'[j] = mirror[j]
           /\ ghost'.marks = ghost.marks \cup MarkUncovered(s, outbox')
           /\ UNCHANGED <<pc, batch, answers, snap, page, reqs>>
<1> USE DEF cycleVars, accountVars
<1> DEFINE old == outbox[s]
           fields == Overlay([mirror[old.id].vals EXCEPT !["ref"] = Unset], old.fields)
<1>0. /\ TypeOK /\ ghost \in Ghosts /\ mirror \in Mirrors
      /\ i \in Ids /\ i \notin ghost.minted /\ NoFields \in OpFields
      /\ s \in Held(outbox) /\ old \in Entries /\ old.id \in Ids /\ old.fields \in OpFields
      /\ nextSeq \in Seqs /\ nextSeq \in Nat
  <2>1. /\ outbox[s] # None /\ i \notin ghost.minted /\ nextSeq <= MaxSeq
    BY DEF Recreate
  <2>2. /\ TypeOK /\ ghost \in Ghosts /\ mirror \in Mirrors
        /\ NoFields \in OpFields /\ outbox[s] \in Entries
    BY <2>1, KeptTypes, RowTypes DEF KeptInv, Held, TypeOK
  <2>3. nextSeq \in Seqs /\ nextSeq \in Nat
    BY <2>1, <2>2, PlanAssumption DEF TypeOK, Seqs
  <2> QED BY <2>1, <2>2, <2>3 DEF Held, Ids, Entries
<1>1. \A r \in Held(outbox) : outbox[r].id \in ghost.minted /\ r # nextSeq
  BY <1>0 DEF KeptInv, LedgersOK, Ledgers, Held, Seqs
<1>2. mirror[old.id].vals \in RowVals
  <2>1. mirror[old.id] # None
    BY DEF Recreate
  <2> QED BY <1>0, <2>1 DEF TypeOK, Mirrors, Rows
<1>3. fields \in OpFields /\ fields["text"] # Unset
  <2>1. [mirror[old.id].vals EXCEPT !["ref"] = Unset] \in OpFields
    BY <1>2 DEF RowVals, OpFields
  <2>2. mirror[old.id].vals["text"] \in Values
    BY <1>2 DEF RowVals, Fields
  <2>3. fields["text"] = IF Text(old) # Unset THEN Text(old) ELSE mirror[old.id].vals["text"]
    BY <1>2 DEF Overlay, RowVals, Fields, Text
  <2> QED BY <1>0, <2>1, <2>2, <2>3, OverlayTypes, UnsetAssumption
<1>4. PICK e : e = NewEntry("create", i, fields, NoFields, 0)
  OBVIOUS
<1>5. e.op = "create" /\ e.id = i /\ Text(e) = fields["text"] /\ e \in Entries
  <2>1. e \in Entries
    BY <1>0, <1>3, <1>4, NewEntryType DEF OpKinds
  <2> HIDE DEF fields
  <2> QED BY <1>4, <2>1 DEF NewEntry, Text
<1>6. /\ outbox' = [AfterEnqueue(outbox, nextSeq, e) EXCEPT ![s] = None]
      /\ mirror' = [mirror EXCEPT ![i] = [vals |-> Filled(fields), at |-> 0]]
      /\ UNCHANGED <<pc, batch, answers, snap, page, reqs>>
      /\ old.state = "deadRemote"
  BY <1>4 DEF Recreate
<1>7. ghost'.marks = ghost.marks \cup MarkUncovered(s, outbox')
  BY <1>0 DEF Recreate, Ghosts
<1>8. MergeTargets(outbox, e) = {} /\ Dropped(outbox, e) = {} /\ Appends(outbox, e)
  BY <1>5 DEF MergeTargets, Dropped, Appends, CancelsCreate
<1>9. \A r \in Seqs : outbox'[r] = IF r = s THEN None ELSE IF r = nextSeq THEN e ELSE outbox[r]
  BY <1>6, <1>8 DEF AfterEnqueue
<1>10. \A r \in Held(outbox') :
         \/ r \in Held(outbox) /\ r # s /\ outbox'[r] = outbox[r]
         \/ r = nextSeq /\ outbox'[r] = e
  BY <1>9 DEF Held
<1>11. \A r \in Held(outbox) : r = s \/ r \in Held(outbox')
  BY <1>1, <1>9 DEF Held
<1>12. /\ mirror'[i] = [vals |-> Filled(fields), at |-> 0]
       /\ \A j \in Ids \ {i} : mirror'[j] = mirror[j]
  <2> HIDE DEF fields
  <2> QED BY <1>0, <1>6 DEF Mirrors
<1>13. mirror'[i] # None /\ mirror'[i].vals["text"] = Text(e)
  <2> HIDE DEF fields
  <2>1. Filled(fields) \in RowVals
    BY <1>3, RowTypes
  <2>2. [vals |-> Filled(fields), at |-> 0] \in Rows
    BY <2>1 DEF Rows
  <2>3. Filled(fields)["text"] = fields["text"]
    BY <1>3 DEF Filled, Fields
  <2> QED BY <1>5, <1>12, <2>2, <2>3, RowAssumption
<1> QED
  <2> HIDE DEF fields
  <2> QED BY <1>0, <1>1, <1>5, <1>6, <1>7, <1>10, <1>11, <1>12, <1>13 DEF IsCreate, Dead

(* What the user does besides is to make an op on a row's screen.          *)
LEMMA StepsOfUser ==
  ASSUME KeptInv, [Next]_vars
  PROVE  \/ NoNewOp
         \/ \E e : Edits(e)
         \/ \E s \in Seqs, i \in Places : Recreate(s, i)
BY EditMade DEF Next, UserStep, NoNewOp

(* The create of a row that was never sent keeps all the text of its row.  *)
LEMMA AllInCreateStays ==
  ASSUME KeptInv, [Next]_vars, AllInCreate, SentMarked
  PROVE  AllInCreate'
<1>0. ParkedInv
  BY DEF KeptInv
<1> SUFFICES ASSUME NEW s \in Held(outbox'), IsCreate(outbox'[s]), ~outbox'[s].sent,
                    outbox'[s].state = "queued",
                    NEW r \in TextOps(outbox', outbox'[s].id)
             PROVE  r = s
  BY DEF AllInCreate
<1>a. r \in Held(outbox') /\ outbox'[r].id = outbox'[s].id /\ Text(outbox'[r]) # Unset
  BY DEF TextOps, OfRow, Text
<1>b. ASSUME s \in Held(outbox), IsCreate(outbox[s]), ~outbox[s].sent,
             outbox[s].state = "queued", r \in Held(outbox), outbox[r].id = outbox[s].id,
             Text(outbox[r]) # Unset
      PROVE  r = s
  <2>1. r \in TextOps(outbox, outbox[s].id)
    BY <1>b DEF TextOps, OfRow, Text
  <2> QED BY <1>b, <2>1 DEF AllInCreate
<1>1. CASE NoNewOp
  <2>1. s \in Held(outbox) /\ Same(s) /\ r \in Held(outbox) /\ Same(r)
    BY <1>0, <1>1, <1>a, NoNewOpSlides DEF Slide, Held
  <2>2. outbox[s].state \in OpStates
    BY <1>0, <2>1, KeptTypes DEF Entries
  <2>3. outbox[s].state \in {"queued", "deadRemote"}
    BY <2>1, <2>2 DEF SentMarked, Same, OpStates
  <2>4. outbox[s].state = "queued"
    BY <2>1, <2>3, StateMoves
  <2> QED BY <1>a, <1>b, <2>1, <2>4 DEF Same, IsCreate, Text
<1>2. ASSUME NEW e, Edits(e)
      PROVE  r = s
  <2>0. e \in Entries /\ (IsCreate(e) => e.id \notin ghost.minted)
        /\ (e.op = "delete" => Text(e) = Unset)
    BY <1>2 DEF Edits
  <2>1. /\ \A q \in Held(outbox') :
             \/ q \in Held(outbox) /\ outbox'[q] = outbox[q] /\ q \notin MergeTargets(outbox, e)
             \/ /\ q \in MergeTargets(outbox, e) /\ q \in Held(outbox)
                /\ outbox'[q] = Merged(outbox[q], e)
             \/ /\ q = nextSeq /\ outbox'[q] = e /\ MergeTargets(outbox, e) = {}
        /\ \A q \in Held(outbox) : outbox[q].id \in ghost.minted /\ outbox[q] \in Entries
        /\ \A q \in MergeTargets(outbox, e) : q \in Held(outbox) /\ outbox[q].id = e.id
                                              /\ outbox[q].state = "queued" /\ e.op = "update"
    BY <1>2, EditQueue
  <2>2. ASSUME NEW q \in MergeTargets(outbox, e)
        PROVE  /\ Merged(outbox[q], e).op = outbox[q].op /\ Merged(outbox[q], e).id = outbox[q].id
               /\ Merged(outbox[q], e).sent = outbox[q].sent
    BY <2>0, <2>1, MergedOp
  <2>3. CASE s = nextSeq /\ outbox'[s] = e
    BY <1>a, <2>0, <2>1, <2>2, <2>3 DEF IsCreate
  <2>4. CASE s \in Held(outbox) /\ outbox[s].id = outbox'[s].id /\ IsCreate(outbox[s])
             /\ ~outbox[s].sent /\ outbox[s].state = "queued"
    <3>1. outbox[s].id = e.id => s \in QueuedCreates(outbox, e.id)
      BY <2>4 DEF QueuedCreates, SameRowQueued, OfRow, InState, IsCreate
    <3>2. CASE r \in Held(outbox) /\ outbox'[r] = outbox[r]
      BY <1>a, <1>b, <2>4, <3>2
    <3>3. CASE r \in MergeTargets(outbox, e)  /\ outbox'[r] = Merged(outbox[r], e)
      BY <1>a, <2>0, <2>1, <2>2, <2>4, <3>1, <3>3, FoldedIntoCreate
    <3>4. CASE r = nextSeq /\ outbox'[r] = e /\ MergeTargets(outbox, e) = {}
      <4>1. e.id = outbox[s].id /\ Text(e) # Unset /\ e.op = "update"
        BY <1>a, <2>0, <2>1, <2>4, <3>4 DEF Entries, OpKinds, IsCreate
      <4> QED BY <2>0, <3>1, <3>4, <4>1, FoldedIntoCreate
    <3> QED BY <1>a, <2>1, <3>2, <3>3, <3>4
  <2>5. \/ s = nextSeq /\ outbox'[s] = e
        \/ /\ s \in Held(outbox) /\ outbox[s].id = outbox'[s].id /\ IsCreate(outbox[s])
           /\ ~outbox[s].sent /\ outbox[s].state = "queued"
    BY <2>1, <2>2 DEF IsCreate
  <2> QED BY <2>3, <2>4, <2>5
<1>3. ASSUME NEW d \in Seqs, NEW i \in Places, Recreate(d, i)
      PROVE  r = s
  <2>1. PICK e \in Entries :
          /\ e.id = i /\ i \notin ghost.minted
          /\ \A q \in Held(outbox') :
               \/ q \in Held(outbox) /\ q # d /\ outbox'[q] = outbox[q]
               \/ q = nextSeq /\ outbox'[q] = e
          /\ \A q \in Held(outbox) : outbox[q].id \in ghost.minted
    BY <1>3, RecreateQueue
  <2> QED BY <1>a, <1>b, <2>1
<1> QED BY <1>1, <1>2, <1>3, StepsOfUser

(* When the cycle comes to lay its copy over a row, and while it is there. *)
LEMMA OverlayFrom ==
  ASSUME [Next]_vars, NEW i \in Ids, Overlays(i)'
  PROVE  \/ Reread /\ i = Op.id
         \/ LoadForRebase
         \/ /\ Overlays(i) /\ snap' = snap
            /\ UserStep \/ outbox' = outbox
<1> USE DEF phoneVars, cycleVars
<1>1. ASSUME UNCHANGED <<pc, batch, answers, snap, page>>
      PROVE  Overlays(i) /\ snap' = snap
  BY <1>1 DEF Overlays, Op, Cur, Held
<1>2. CASE UserStep
  <2>1. UNCHANGED <<pc, batch, answers, snap, page>>
    BY <1>2 DEF UserStep, Create, UpdateText, UpdateRef, Update, Delete, Retry, Discard,
                Recreate, Reset
  <2> QED BY <1>1, <1>2, <2>1
<1>3. CASE FlushStep
  <2>1. CASE Reread
    <3>1. pc' = "upsert" /\ Op' = Op
      BY <2>1 DEF Reread, Op, Cur, Held
    <3> QED BY <2>1, <3>1 DEF Overlays
  <2>2. CASE ~Reread
    <3>1. pc' \notin {"upsert", "merge"}
      BY <1>3, <2>2 DEF FlushStep, StartCycle, LoadBatch, Send, RequestFails, Reply,
                        BatchDone, ApplySuccess, Shelve, AfterShelving, NextResult,
                        ConfirmRow, ApplyRefusal
    <3> QED BY <3>1 DEF Overlays
  <2> QED BY <2>1, <2>2
<1>4. CASE PullStep
  <2>1. LoadForRebase \/ pc' \notin {"upsert", "merge"}
    BY <1>4 DEF PullStep, FetchPage, PullFails, ApplyPage, ApplyPageFails
  <2> QED BY <2>1 DEF Overlays
<1>5. CASE ServerStep \/ UNCHANGED vars
  <2>1. UNCHANGED <<pc, batch, answers, snap, page, outbox>>
    BY <1>5 DEF ServerStep, SkipDependent, RefuseOp, ReadForCreate, ReadForUpdate,
                WriteCreate, WriteUpdate, WriteAborts, DeleteRow, LateEnds, vars
  <2> QED BY <1>1, <2>1
<1>6. CASE WorldStep
  <2>1. pc' = "idle" \/ UNCHANGED <<pc, batch, answers, snap, page, outbox>>
    BY <1>6 DEF WorldStep, Crash, ForeignEdit, ForeignDelete
  <2> QED BY <1>1, <2>1 DEF Overlays
<1> QED BY <1>2, <1>3, <1>4, <1>5, <1>6 DEF Next

(* The copy still has what it needs if the row's ops stay, or dead ones go.*)
LEMMA CopyHolds ==
  ASSUME NEW i \in Ids, Copied(i), snap' = snap,
         \A s \in OfRow(outbox', i) :
           /\ s \in OfRow(outbox, i)
           /\ outbox'[s].op = outbox[s].op /\ outbox'[s].fields = outbox[s].fields
           /\ Dead(outbox'[s]) <=> Dead(outbox[s]),
         \A s \in OfRow(outbox, i) : s \in OfRow(outbox', i) \/ Dead(outbox[s])
  PROVE  Copied(i)'
<1>1. ASSUME NEW s \in OfRow(outbox', i)
      PROVE  /\ s \in OfRow(snap', i)
             /\ snap'[s].op = outbox'[s].op /\ snap'[s].fields = outbox'[s].fields
             /\ Dead(snap'[s]) <=> Dead(outbox'[s])
  BY DEF Copied
<1>2. ASSUME NEW s \in OfRow(snap', i)
      PROVE  s \in OfRow(outbox', i) \/ Dead(snap'[s])
  <2>1. s \in OfRow(snap, i)
    BY DEF OfRow, Held
  <2> QED BY <2>1 DEF Copied
<1> QED BY <1>1, <1>2 DEF Copied

(* A row over which the copy is about to be laid was made before.          *)
LEMMA OverlaidMinted ==
  ASSUME KeptInv, RowsMinted, NEW i \in Ids, Overlays(i)
  PROVE  i \in ghost.minted
<1>0. TypeInv /\ CycleOK
  BY DEF KeptInv, ParkedInv, TypeInv
<1>1. CASE pc = "upsert" /\ i = Op.id
  <2>1. Cur \in Held(batch)
    BY <1>0, <1>1, CurTypes DEF CycleOK, InResult
  <2> QED BY <1>1, <2>1 DEF KeptInv, LedgersOK, Ledgers, Op
<1>2. CASE pc = "merge" /\ page.rows[i] # None
  BY <1>2 DEF RowsMinted, Live
<1> QED BY <1>1, <1>2 DEF Overlays

(* An edit of a row the copy is about to be laid over is noted.            *)
LEMMA OvertakenNoted ==
  ASSUME NEW i \in Ids, Overlays(i), MarkOvertaken(i) \subseteq ghost'.marks
  PROVE  <<i, "overtaken">> \in ghost'.marks
BY DEF Overlays, MarkOvertaken, Overtaken, Op, Cur

(* The copy is good until it is used, or the row is marked.                *)
LEMMA CopyStays ==
  ASSUME KeptInv, RowsMinted, CopyOK, [Next]_vars
  PROVE  CopyOK'
<1> USE DEF phoneVars
<1>0. /\ TypeInv /\ TypeOK /\ ParkedInv /\ outbox \in Outboxes
      /\ \A s \in Held(outbox) : outbox[s] \in Entries /\ outbox[s].id \in Ids
  BY KeptTypes DEF KeptInv, TypeOK
<1> SUFFICES ASSUME NEW i \in Ids, Overlays(i)', <<i, "overtaken">> \notin ghost'.marks
             PROVE  Copied(i)'
  BY DEF CopyOK
<1>1. CASE Reread /\ i = Op.id
  <2>1. outbox' = outbox /\ snap' = [s \in Seqs |-> IF s \in OfRow(outbox, i) THEN outbox[s] ELSE None]
    BY <1>1 DEF Reread
  <2>2. OfRow(snap', i) = OfRow(outbox, i) /\ \A s \in OfRow(outbox, i) : snap'[s] = outbox[s]
    BY <2>1 DEF OfRow, Held
  <2> QED BY <2>1, <2>2 DEF Copied, Dead
<1>2. CASE LoadForRebase
  <2>1. outbox' = outbox /\ snap' = outbox
    BY <1>2 DEF LoadForRebase
  <2> QED BY <2>1 DEF Copied
<1>3. ASSUME Overlays(i), snap' = snap, UserStep \/ outbox' = outbox
      PROVE  Copied(i)'
  <2>0. ghost.marks \subseteq ghost'.marks
    <3>1. CASE NoNewOp
      BY <1>0, <3>1, NoNewOpSlides DEF Slide, OwesLess
    <3>2. ASSUME NEW e, Adds(e)
          PROVE  ghost.marks \subseteq ghost'.marks
      BY <3>2 DEF Adds, OwesOp
    <3> QED BY <3>1, <3>2, OpsCome
  <2>1. Copied(i)
    BY <1>3, <2>0 DEF CopyOK
  <2>2. CASE outbox' = outbox
    BY <1>3, <2>1, <2>2, CopyHolds
  <2>3. ASSUME NEW e, Edits(e)
        PROVE  Copied(i)'
    <3>1. e.id # i
      BY <1>3, <2>3, OvertakenNoted DEF Edits
    <3>2. /\ \A s \in Held(outbox') :
               \/ s \in Held(outbox) /\ outbox'[s] = outbox[s]
               \/ s \in Held(outbox) /\ outbox[s].id = e.id /\ outbox'[s] = Merged(outbox[s], e)
               \/ s \notin Held(outbox) /\ outbox'[s] = e
          /\ \A s \in Held(outbox) : s \in Held(outbox') \/ outbox[s].id = e.id
      <4>1. \A s \in Held(outbox) : s # nextSeq
        BY <1>0 DEF ParkedInv, NumbersUsed, TypeOK, Held, Seqs
      <4> QED BY <2>3, <4>1, EditQueue
    <3>3. \A s \in Held(outbox) : Merged(outbox[s], e).id = outbox[s].id
      BY <1>0, <2>3, MergedOp DEF Edits
    <3>4. \A s \in OfRow(outbox', i) : s \in OfRow(outbox, i) /\ outbox'[s] = outbox[s]
      BY <3>1, <3>2, <3>3 DEF OfRow
    <3>5. \A s \in OfRow(outbox, i) : s \in OfRow(outbox', i)
      BY <3>1, <3>2, <3>3 DEF OfRow
    <3> QED BY <1>3, <2>1, <3>4, <3>5, CopyHolds
  <2>4. ASSUME NEW d \in Seqs, Discard(d)
        PROVE  Copied(i)'
    <3>1. /\ d \in Held(outbox)
          /\ \A s \in Seqs : outbox'[s] = outbox[s] \/ (s \in Held(outbox) /\ outbox[s].id = outbox[d].id)
                             \/ s = d
          /\ \A s \in Seqs : outbox'[s] \in {None, outbox[s]}
      BY <1>0, <2>4 DEF Discard, Held, Outboxes
    <3>2. outbox[d].id # i
      <4>1. MarkOvertaken(outbox[d].id) \subseteq ghost'.marks
        BY <1>0, <2>4 DEF Discard, TypeOK, Ghosts
      <4> QED BY <1>3, <4>1, OvertakenNoted
    <3>3. \A s \in OfRow(outbox', i) : s \in OfRow(outbox, i) /\ outbox'[s] = outbox[s]
      BY <3>1 DEF OfRow, Held
    <3>4. \A s \in OfRow(outbox, i) : s \in OfRow(outbox', i)
      BY <3>1, <3>2 DEF OfRow, Held
    <3> QED BY <1>3, <2>1, <3>3, <3>4, CopyHolds
  <2>5. ASSUME NEW d \in Seqs, Retry(d)
        PROVE  Copied(i)'
    <3>1. /\ outbox[d].state = "blocked" /\ d \in Held(outbox) /\ outbox[d] \in Entries
          /\ outbox' = [outbox EXCEPT ![d].state = "queued", ![d].error = "none",
                                      ![d].failures = 0]
      BY <1>0, <2>5 DEF Retry, Held
    <3>2. /\ \A s \in Seqs : s # d => outbox'[s] = outbox[s]
          /\ outbox'[d] \in Entries /\ outbox'[d].id = outbox[d].id
          /\ outbox'[d].op = outbox[d].op
          /\ outbox'[d].fields = outbox[d].fields /\ outbox'[d].state = "queued"
      BY <1>0, <3>1 DEF Outboxes, Entries, OpStates, Errors
    <3>3. OfRow(outbox', i) = OfRow(outbox, i)
      BY <3>1, <3>2, NoneAssumption DEF OfRow, Held
    <3>4. \A s \in OfRow(outbox', i) :
             /\ outbox'[s].op = outbox[s].op /\ outbox'[s].fields = outbox[s].fields
             /\ Dead(outbox'[s]) <=> Dead(outbox[s])
      BY <3>1, <3>2 DEF OfRow, Held, Dead
    <3> QED BY <1>3, <2>1, <3>3, <3>4, CopyHolds
  <2>6. ASSUME NEW d \in Seqs, NEW j \in Places, Recreate(d, j)
        PROVE  Copied(i)'
    <3>1. PICK e \in Entries :
            /\ e.id = j /\ j \notin ghost.minted
            /\ Dead(outbox[d])
            /\ \A r \in Held(outbox') :
                 \/ r \in Held(outbox) /\ r # d /\ outbox'[r] = outbox[r]
                 \/ r = nextSeq /\ outbox'[r] = e
            /\ \A r \in Held(outbox) : r = d \/ r \in Held(outbox')
            /\ \A r \in Held(outbox) : outbox[r].id \in ghost.minted
      BY <2>6, RecreateQueue
    <3>2. i # j
      BY <1>3, <3>1, OverlaidMinted
    <3>3. \A s \in OfRow(outbox', i) : s \in OfRow(outbox, i) /\ outbox'[s] = outbox[s]
      BY <3>1, <3>2 DEF OfRow
    <3>4. ASSUME NEW s \in OfRow(outbox, i), ~Dead(outbox[s])
          PROVE  s \in OfRow(outbox', i)
      <4>1. s \in Held(outbox') /\ s # d /\ outbox[s].id = i
        BY <3>1, <3>4 DEF OfRow
      <4>2. s # nextSeq
        BY <1>0 DEF ParkedInv, NumbersUsed, TypeOK, OfRow, Held, Seqs
      <4>3. outbox'[s] = outbox[s]
        BY <3>1, <4>1, <4>2
      <4> QED BY <4>1, <4>3 DEF OfRow
    <3> QED BY <1>3, <2>1, <3>3, <3>4, CopyHolds
  <2>7. ASSUME UserStep
        PROVE  Copied(i)'
    <3>1. CASE Reset
      BY <2>2, <3>1 DEF Reset
    <3> QED BY <2>3, <2>4, <2>5, <2>6, <2>7, <3>1, EditMade DEF UserStep
  <2> QED BY <1>3, <2>2, <2>7
<1> QED BY <1>1, <1>2, <1>3, OverlayFrom

(* PendingShown is Shown of every row.                                     *)
LEMMA ShownOfRows ==
  PendingShown <=> \A i \in Ids : Shown(i)
BY DEF PendingShown, Shown, Live

(* Marks are for good.                                                     *)
LEMMA MarksStay ==
  ASSUME KeptInv, [Next]_vars
  PROVE  ghost.marks \subseteq ghost'.marks
<1>1. CASE NoNewOp
  BY <1>1, NoNewOpSlides DEF KeptInv, Slide, OwesLess
<1>2. ASSUME NEW e, Adds(e)
      PROVE  ghost.marks \subseteq ghost'.marks
  BY <1>2 DEF Adds, OwesOp
<1> QED BY <1>1, <1>2, OpsCome

(* An edit of a row's text is what the screen shows and the newest op, be  *)
(* it appended or folded; another row does not change.                     *)
LEMMA EditShows ==
  ASSUME KeptInv, AllInCreate, NEW e, Edits(e), NEW i \in Ids, Shown(i)
  PROVE  Shown(i)'
<1>0. /\ e \in Entries /\ (e.op = "delete" => Text(e) = Unset)
      /\ \A s \in Held(outbox) : s < nextSeq /\ s \in Nat /\ outbox[s] \in Entries
      /\ nextSeq \in Nat
  BY EditQueue DEF Edits
<1>1. /\ \A s \in Held(outbox') :
           \/ s \in Held(outbox) /\ outbox'[s] = outbox[s] /\ s \notin MergeTargets(outbox, e)
           \/ /\ s \in MergeTargets(outbox, e) /\ s \in Held(outbox)
              /\ outbox'[s] = Merged(outbox[s], e)
           \/ /\ s = nextSeq /\ outbox'[s] = e /\ MergeTargets(outbox, e) = {}
      /\ \A s \in Held(outbox) : s \in Held(outbox') \/ (e.op = "delete" /\ outbox[s].id = e.id)
      /\ MergeTargets(outbox, e) = {} /\ e.op # "delete"
           => nextSeq \in Held(outbox') /\ outbox'[nextSeq] = e
      /\ \A s \in MergeTargets(outbox, e) : /\ s \in Held(outbox) /\ outbox[s].id = e.id
                                            /\ e.op = "update"
  BY EditQueue
<1>2. \A s \in Held(outbox) :
        /\ Merged(outbox[s], e).id = outbox[s].id /\ Merged(outbox[s], e).op = outbox[s].op
        /\ Text(Merged(outbox[s], e)) = IF Text(e) # Unset THEN Text(e) ELSE Text(outbox[s])
        /\ Merged(outbox[s], e).state = outbox[s].state
  <2> SUFFICES ASSUME NEW s \in Held(outbox)
               PROVE  /\ Merged(outbox[s], e).id = outbox[s].id
                      /\ Merged(outbox[s], e).op = outbox[s].op
                      /\ Text(Merged(outbox[s], e)) = IF Text(e) # Unset THEN Text(e)
                                                      ELSE Text(outbox[s])
                      /\ Merged(outbox[s], e).state = outbox[s].state
    OBVIOUS
  <2>1. Merged(outbox[s], e).state = outbox[s].state
    BY <1>0 DEF Merged, Entries
  <2> QED BY <1>0, <2>1, MergedOp
<1>3. ghost.marks \cup FoldsOf(e) \subseteq ghost'.marks /\ (BeingApplied(i) => BeingApplied(i)')
  BY DEF Edits, BeingApplied, Op, Cur, Held
<1>4. \A s, ob : s \in TextOps(ob, i) <=> s \in Held(ob) /\ ob[s].id = i /\ Text(ob[s]) # Unset
  BY DEF TextOps, OfRow, Text
<1>5. i \in Live(mirror') =>
        \/ /\ i # e.id \/ (e.op # "delete" /\ Text(e) = Unset)
           /\ i \in Live(mirror) /\ mirror'[i].vals["text"] = mirror[i].vals["text"]
        \/ /\ i = e.id /\ e.op # "delete" /\ Text(e) # Unset
           /\ mirror'[i].vals["text"] = Text(e)
  BY DEF Edits
<1>6. CASE i # e.id \/ (e.op # "delete" /\ Text(e) = Unset)
  <2>1. \A s \in TextOps(outbox', i) :
          /\ s \in TextOps(outbox, i) /\ Text(outbox'[s]) = Text(outbox[s])
          /\ Dead(outbox[s]) => Dead(outbox'[s])
    BY <1>0, <1>1, <1>2, <1>4, <1>6 DEF Dead
  <2>2. \A s \in TextOps(outbox, i) : s \in TextOps(outbox', i)
    <3> SUFFICES ASSUME NEW s \in TextOps(outbox, i)
                 PROVE  s \in TextOps(outbox', i)
      OBVIOUS
    <3>1. s \in Held(outbox) /\ outbox[s].id = i /\ Text(outbox[s]) # Unset
      BY <1>4
    <3>2. s \in Held(outbox') /\ s # nextSeq
      BY <1>0, <1>1, <1>6, <3>1
    <3> QED BY <1>1, <1>2, <1>4, <1>6, <3>1, <3>2
  <2>3. i \in Live(mirror') => /\ i \in Live(mirror)
                               /\ mirror'[i].vals["text"] = mirror[i].vals["text"]
    BY <1>5, <1>6
  <2> QED BY <1>3, <2>1, <2>2, <2>3, StaysShown
<1>7. CASE i = e.id /\ e.op # "delete" /\ Text(e) # Unset
  <2> SUFFICES ASSUME mirror'[i].vals["text"] = Text(e), NEW s \in TextOps(outbox', i),
                      Text(outbox'[s]) # Text(e), <<i, "sentCreate">> \notin ghost'.marks
               PROVE  \E r \in TextOps(outbox', i) : r > s
    BY <1>5, <1>7 DEF Shown, Text, Unshown
  <2>1. /\ s \in Held(outbox) /\ outbox'[s] = outbox[s] /\ s \notin MergeTargets(outbox, e)
        /\ s \in TextOps(outbox, i) /\ s \in Nat /\ s < nextSeq
    BY <1>0, <1>1, <1>2, <1>4, <1>7
  <2>2. CASE MergeTargets(outbox, e) = {}
    <3>1. nextSeq \in TextOps(outbox', i)
      BY <1>1, <1>4, <1>7, <2>2
    <3> QED BY <1>0, <2>1, <3>1
  <2>3. ASSUME NEW m \in MergeTargets(outbox, e)
        PROVE  \E r \in TextOps(outbox', i) : r > s
    <3>1. m \in Held(outbox) /\ outbox[m].id = i /\ m \in Nat /\ m # nextSeq
      BY <1>0, <1>1, <1>7
    <3>2. m \in Held(outbox') /\ outbox'[m] = Merged(outbox[m], e)
      BY <1>1, <1>7, <3>1
    <3>3. m \in TextOps(outbox', i)
      BY <1>2, <1>4, <1>7, <3>1, <3>2
    <3>4. s < m
      <4>1. CASE m \in QueuedCreates(outbox, i)
        <5>1. IsCreate(outbox[m]) /\ outbox[m].state = "queued"
          BY <4>1 DEF QueuedCreates, SameRowQueued, InState, IsCreate
        <5>2. outbox[m].sent => <<i, "sentCreate">> \in FoldsOf(e)
          BY <1>7, <5>1 DEF FoldsOf, Folds, IsCreate
        <5>3. ~outbox[m].sent
          BY <1>3, <5>2
        <5>4. s \in {m}
          BY <2>1, <3>1, <5>1, <5>3 DEF AllInCreate
        <5> QED BY <2>1, <2>3, <5>4
      <4>2. CASE m \notin QueuedCreates(outbox, i)
        <5>1. IsTail(outbox, m)
          BY <1>7, <2>3, <4>2 DEF MergeTargets
        <5> QED BY <2>1, <2>3, <3>1, <5>1 DEF IsTail
      <4> QED BY <4>1, <4>2
    <3> QED BY <2>1, <3>1, <3>3, <3>4
  <2> QED BY <2>2, <2>3
<1>8. CASE i = e.id /\ e.op = "delete"
  BY <1>5, <1>8 DEF Shown
<1> QED BY <1>6, <1>7, <1>8

(* When the user takes an op out of the queue, what is left is as before   *)
(* but for the newest text.                                                *)
LEMMA TakenOutShown ==
  ASSUME KeptInv, [Next]_vars, NEW d \in Held(outbox), NEW i \in Ids, Shown(i),
         i \in Live(mirror') => /\ i \in Live(mirror)
                                /\ mirror'[i].vals["text"] = mirror[i].vals["text"],
         \A s \in TextOps(outbox', i) : s \in TextOps(outbox, i) /\ outbox'[s] = outbox[s],
         \A s \in TextOps(outbox, i) : s = d \/ s \in TextOps(outbox', i),
         MarkUncovered(d, outbox') \subseteq ghost'.marks,
         UNCHANGED <<pc, batch, answers>>
  PROVE  Shown(i)'
<1>0. ghost.marks \subseteq ghost'.marks /\ (BeingApplied(i) => BeingApplied(i)')
  BY MarksStay DEF BeingApplied, Op, Cur, Held
<1>1. \A s \in TextOps(outbox, i) : s \in Nat /\ outbox[s].id = i
  BY DEF TextOps, OfRow, Held, Seqs
<1>2. CASE \A s \in TextOps(outbox', i), r \in TextOps(outbox, i) :
             r > s => \E q \in TextOps(outbox', i) : q > s
  BY <1>0, <1>2, StaysShown
<1>3. ASSUME NEW s \in TextOps(outbox', i), NEW r \in TextOps(outbox, i), r > s,
             \A q \in TextOps(outbox', i) : ~(q > s)
      PROVE  Shown(i)'
  <2>1. r = d
    BY <1>3
  <2>2. \A q \in TextOps(outbox', i) : q < d
    BY <1>1, <1>3, <2>1
  <2>3. <<i, "uncovered">> \in ghost'.marks
    BY <1>1, <1>3, <2>1, <2>2 DEF MarkUncovered
  <2> QED BY <2>3 DEF Shown, Unshown
<1> QED BY <1>2, <1>3

(* What the user does with a parked op leaves the screen true.             *)
LEMMA RecreateShows ==
  ASSUME KeptInv, [Next]_vars, NEW d \in Seqs, NEW j \in Places, Recreate(d, j),
         NEW i \in Ids, Shown(i)
  PROVE  Shown(i)'
<1>0. \A s, ob : s \in TextOps(ob, i) <=> s \in Held(ob) /\ ob[s].id = i /\ Text(ob[s]) # Unset
  BY DEF TextOps, OfRow, Text
<1>1. PICK e \in Entries :
        /\ e.id = j
        /\ d \in Held(outbox)
        /\ \A r \in Held(outbox') :
             \/ r \in Held(outbox) /\ r # d /\ outbox'[r] = outbox[r]
             \/ r = nextSeq /\ outbox'[r] = e
        /\ \A r \in Held(outbox) : r = d \/ r \in Held(outbox')
        /\ \A r \in Held(outbox) : outbox[r].id \in ghost.minted
        /\ j \in Ids \ ghost.minted
        /\ mirror'[j].vals["text"] = Text(e)
        /\ \A k \in Ids \ {j} : mirror'[k] = mirror[k]
        /\ ghost'.marks = ghost.marks \cup MarkUncovered(d, outbox')
        /\ UNCHANGED <<pc, batch, answers>>
  BY RecreateQueue
<1>2. CASE i = j
  <2>1. \A s \in TextOps(outbox', i) : outbox'[s] = e
    BY <1>0, <1>1, <1>2
  <2> QED BY <1>1, <1>2, <2>1 DEF Shown, Text
<1>3. CASE i # j
  <2>1. \A s \in TextOps(outbox', i) : s \in TextOps(outbox, i) /\ outbox'[s] = outbox[s]
    BY <1>0, <1>1, <1>3
  <2>2. \A s \in Held(outbox) : s # nextSeq
    BY KeptTypes DEF KeptInv, ParkedInv, NumbersUsed, Held, Seqs
  <2>3. \A s \in TextOps(outbox, i) : s = d \/ s \in TextOps(outbox', i)
    BY <1>0, <1>1, <2>2
  <2>4. i \in Live(mirror') => i \in Live(mirror) /\ mirror'[i].vals["text"] = mirror[i].vals["text"]
    BY <1>1, <1>3 DEF Live
  <2> QED BY <1>1, <2>1, <2>3, <2>4, TakenOutShown
<1> QED BY <1>2, <1>3

(* So with an op that is discarded: an update that is taken back is one no *)
(* other waits behind, unless those are dead too.                          *)
LEMMA DiscardShows ==
  ASSUME KeptInv, [Next]_vars, NEW d \in Seqs, Discard(d), NEW i \in Ids, Shown(i)
  PROVE  Shown(i)'
<1> USE DEF cycleVars
<1> DEFINE e == outbox[d]
           without == [outbox EXCEPT ![d] = None]
<1>0. /\ TypeOK /\ outbox \in Outboxes /\ mirror \in Mirrors /\ ghost \in Ghosts
      /\ d \in Held(outbox) /\ e \in Entries /\ e.id \in Ids
      /\ \A s \in Held(outbox) : outbox[s].op = "delete" => Text(outbox[s]) = Unset
  BY KeptTypes DEF KeptInv, Discard, Held, TypeOK, PastOK, PastOps, Ledgers
<1>1. \A s, ob : s \in TextOps(ob, i) <=> s \in Held(ob) /\ ob[s].id = i /\ Text(ob[s]) # Unset
  BY DEF TextOps, OfRow, Text
<1>2. /\ MarkUncovered(d, outbox') \subseteq ghost'.marks
      /\ UNCHANGED <<pc, batch, answers>>
  BY <1>0 DEF Discard, Ghosts
<1>3. /\ outbox' = [r \in Seqs |->
                     IF e.op = "create" /\ outbox[r] # None /\ outbox[r].id = e.id
                     THEN None ELSE without[r]]
      /\ mirror' = IF e.op = "create" THEN [mirror EXCEPT ![e.id] = None]
                   ELSE IF e.op = "update" /\ mirror[e.id] # None
                   THEN [mirror EXCEPT ![e.id] =
                           Reverted(@, e.base, CollectDirty(without, e.id))]
                   ELSE mirror
  BY DEF Discard
<1>4. \A s \in TextOps(outbox', i) : s \in TextOps(outbox, i) /\ outbox'[s] = outbox[s]
  BY <1>0, <1>1, <1>3 DEF Held, Outboxes
<1>5. CASE i # e.id \/ e.op # "create"
  <2>1. \A s \in TextOps(outbox, i) : s = d \/ s \in TextOps(outbox', i)
    BY <1>0, <1>1, <1>3, <1>5 DEF Held, Outboxes
  <2>2. CASE mirror'[i] = mirror[i]
    BY <1>0, <1>2, <1>4, <2>1, <2>2, TakenOutShown DEF Live
  <2>3. CASE mirror'[i] # mirror[i]
    <3>1. /\ i = e.id /\ e.op = "update" /\ mirror[i] # None
          /\ outbox' = without
          /\ mirror' = [mirror EXCEPT ![i] =
                          Reverted(mirror[i], e.base, CollectDirty(without, i))]
      BY <1>0, <1>3, <1>5, <2>3 DEF Mirrors, Outboxes
    <3>2. without \in Outboxes
      BY <1>0 DEF Outboxes
    <3>3. CASE CollectDirty(without, i)["text"] = Unset
      <4> HIDE DEF without
      <4>1. \A s \in TextOps(without, i) : Dead(without[s]) \/ without[s].op = "delete"
        BY <3>2, <3>3, LastPending
      <4>2. \A s \in TextOps(outbox', i) : Dead(outbox'[s])
        BY <1>0, <1>1, <1>4, <3>1, <4>1
      <4> QED BY <4>2 DEF Shown, Dead
    <3>4. CASE CollectDirty(without, i)["text"] # Unset
      <4>1. mirror[i] \in Rows /\ mirror[i].vals \in RowVals
        BY <1>0, <3>1 DEF Mirrors, Rows
      <4>2. mirror'[i] = Reverted(mirror[i], e.base, CollectDirty(without, i))
        BY <1>0, <3>1 DEF Mirrors
      <4>3. mirror'[i].vals["text"] = mirror[i].vals["text"]
        <5> HIDE DEF without, e
        <5> QED BY <3>4, <4>1, <4>2 DEF Reverted, Rows, Fields
      <4> QED BY <1>0, <1>2, <1>4, <2>1, <3>1, <4>3, TakenOutShown DEF Live
    <3> QED BY <3>3, <3>4
  <2> QED BY <2>2, <2>3
<1>6. CASE i = e.id /\ e.op = "create"
  BY <1>0, <1>3, <1>6 DEF Shown, Live, Mirrors
<1> QED BY <1>5, <1>6

(* A step that makes no op and leaves the row and its ops there.           *)
LEMMA QuietShows ==
  ASSUME KeptInv, [Next]_vars, NoNewOp, NEW i \in Ids, Shown(i),
         i \in Live(mirror') => /\ i \in Live(mirror)
                                /\ mirror'[i].vals["text"] = mirror[i].vals["text"],
         \A s \in TextOps(outbox', i), r \in TextOps(outbox, i) :
           r > s => \E q \in TextOps(outbox', i) : q > s,
         BeingApplied(i) => BeingApplied(i)' \/ <<i, "cut">> \in ghost'.marks
  PROVE  Shown(i)'
<1>1. ParkedInv /\ \A s \in Held(outbox') : s \in Held(outbox) /\ Same(s)
  BY NoNewOpSlides DEF KeptInv, Slide, Held
<1>2. ASSUME NEW s \in TextOps(outbox', i)
      PROVE  /\ s \in TextOps(outbox, i) /\ Text(outbox'[s]) = Text(outbox[s])
             /\ Dead(outbox[s]) => Dead(outbox'[s])
  <2>1. s \in Held(outbox') /\ s \in Held(outbox) /\ Same(s)
    BY <1>1 DEF TextOps, OfRow
  <2>2. s \in TextOps(outbox, i) /\ Text(outbox'[s]) = Text(outbox[s])
    BY <2>1 DEF TextOps, OfRow, Same, Text
  <2>3. Dead(outbox[s]) => Dead(outbox'[s])
    BY <2>1, StateMoves DEF Dead
  <2> QED BY <2>2, <2>3
<1>3. ghost.marks \subseteq ghost'.marks
  BY MarksStay
<1> QED BY <1>2, <1>3, StaysShown

(* The steps of the user.                                                  *)
LEMMA UserShows ==
  ASSUME KeptInv, [Next]_vars, UserStep, AllInCreate, NEW i \in Ids, Shown(i)
  PROVE  Shown(i)'
<1> USE DEF phoneVars, cycleVars
<1>0. outbox \in Outboxes /\ \A s \in Held(outbox) : outbox[s] \in Entries
  BY KeptTypes DEF KeptInv, TypeOK
<1>1. ASSUME NEW d \in Seqs, Retry(d)
      PROVE  Shown(i)'
  <2>1. NoNewOp /\ UNCHANGED <<mirror, pc, batch, answers>>
    BY <1>1 DEF NoNewOp, Retry
  <2>2. TextOps(outbox, i) \subseteq TextOps(outbox', i)
    <3>1. /\ d \in Held(outbox) /\ outbox[d] \in Entries
          /\ outbox' = [outbox EXCEPT ![d].state = "queued", ![d].error = "none",
                                      ![d].failures = 0]
      BY <1>0, <1>1 DEF Retry, Held
    <3>2. /\ outbox'[d] \in Entries /\ outbox'[d].id = outbox[d].id
          /\ outbox'[d].fields = outbox[d].fields
          /\ \A s \in Seqs : s # d => outbox'[s] = outbox[s]
      BY <1>0, <3>1 DEF Outboxes, Entries, OpStates, Errors
    <3> QED BY <3>1, <3>2, NoneAssumption DEF TextOps, OfRow, Held
  <2>3. BeingApplied(i) => BeingApplied(i)'
    BY <2>1 DEF BeingApplied, Op, Cur, Held
  <2> QED BY <2>1, <2>2, <2>3, QuietShows
<1>2. CASE Reset
  <2>1. NoNewOp /\ UNCHANGED <<outbox, pc, batch, answers>>
    BY <1>2 DEF NoNewOp, Reset
  <2>2. i \in Live(mirror') => i \in Live(mirror) /\ mirror'[i] = mirror[i]
    BY <1>2 DEF Reset, Live
  <2>3. BeingApplied(i) => BeingApplied(i)'
    BY <2>1 DEF BeingApplied, Op, Cur, Held
  <2>4. TextOps(outbox', i) = TextOps(outbox, i)
    BY <2>1
  <2> QED BY <2>1, <2>2, <2>3, <2>4, QuietShows
<1> QED BY <1>1, <1>2, EditMade, EditShows, DiscardShows, RecreateShows DEF UserStep

(* A copy that has what it needs ends in the row's last pending text.      *)
LEMMA CopyLastPending ==
  ASSUME KeptInv, NEW i \in Ids, Copied(i), NEW s \in TextOps(outbox, i),
         ~Dead(outbox[s]), \A r \in TextOps(outbox, i) : ~(r > s)
  PROVE  CollectDirty(snap, i)["text"] = outbox[s].fields["text"]
<1>0. /\ snap \in Outboxes
      /\ \A r \in Held(snap) : snap[r].op = "delete" => Text(snap[r]) = Unset
  BY KeptTypes DEF KeptInv, TypeOK, PastOK, PastOps
<1>1. s \in OfRow(outbox, i) /\ Text(outbox[s]) # Unset /\ s \in Nat
  BY DEF TextOps, Text, OfRow, Held, Seqs
<1>2. /\ s \in TextOps(snap, i) /\ ~Dead(snap[s]) /\ snap[s].op # "delete"
      /\ snap[s].fields["text"] = outbox[s].fields["text"]
  <2>1. /\ s \in OfRow(snap, i) /\ snap[s].fields = outbox[s].fields
        /\ Dead(snap[s]) <=> Dead(outbox[s])
    BY <1>1 DEF Copied
  <2> QED BY <1>0, <1>1, <2>1 DEF TextOps, Text, OfRow
<1>3. ASSUME NEW r \in TextOps(snap, i), ~Dead(snap[r])
      PROVE  r <= s
  <2>1. r \in OfRow(snap, i) /\ r \in Nat /\ Text(snap[r]) # Unset
    BY DEF TextOps, OfRow, Held, Seqs, Text
  <2>2. r \in OfRow(outbox, i) /\ snap[r].fields = outbox[r].fields
    BY <1>3, <2>1 DEF Copied
  <2>3. r \in TextOps(outbox, i)
    BY <2>1, <2>2 DEF TextOps, Text
  <2> QED BY <1>1, <2>1, <2>3
<1> QED BY <1>0, <1>2, <1>3, LastPending

(* What is laid over a row shows its last pending text.                    *)
LEMMA OverlaidShows ==
  ASSUME KeptInv, CopyOK, NEW i \in Ids, Overlays(i), ghost.marks \subseteq ghost'.marks,
         TextOps(outbox', i) = TextOps(outbox, i),
         \A s \in TextOps(outbox, i) : outbox'[s] = outbox[s],
         CollectDirty(snap, i)["text"] # Unset
           => mirror'[i].vals["text"] = CollectDirty(snap, i)["text"]
  PROVE  Shown(i)'
<1>1. CASE <<i, "overtaken">> \in ghost.marks
  BY <1>1 DEF Shown, Unshown
<1>2. CASE <<i, "overtaken">> \notin ghost.marks
  <2> SUFFICES ASSUME NEW s \in TextOps(outbox, i), ~Dead(outbox[s]),
                      \A r \in TextOps(outbox, i) : ~(r > s)
               PROVE  mirror'[i].vals["text"] = outbox[s].fields["text"]
    BY DEF Shown, Dead
  <2>1. Copied(i)
    BY <1>2 DEF CopyOK
  <2>2. CollectDirty(snap, i)["text"] = outbox[s].fields["text"]
    BY <2>1, CopyLastPending
  <2> QED BY <2>2 DEF TextOps
<1> QED BY <1>1, <1>2

(* The row of an op whose success is being applied is on its way to the    *)
(* screen, or the op was the row's first, or a delete.                     *)
LEMMA SuccessShows ==
  ASSUME KeptInv, [Next]_vars, OrderInv, AnswersSane, ApplySuccess, NEW i \in Ids, Shown(i)
  PROVE  Shown(i)'
<1>0. /\ TypeInv /\ TypeOK /\ CycleOK /\ outbox \in Outboxes
      /\ Held(answers) # {} /\ Result.status \in Succeeded
      /\ Cur \in Held(answers) /\ Cur \in Seqs /\ Op \in Entries /\ Cur \in Held(batch)
  BY CurTypes DEF KeptInv, ParkedInv, TypeInv, TypeOK, CycleOK, ApplySuccess
<1>1. /\ NoNewOp /\ UNCHANGED <<mirror, batch>> /\ ~BeingApplied(i)
      /\ outbox' = [outbox EXCEPT ![Cur] = None]
  BY DEF NoNewOp, FlushStep, ApplySuccess, BeingApplied
<1>2. /\ \A s \in TextOps(outbox', i) : s \in TextOps(outbox, i) /\ s # Cur
      /\ \A s \in TextOps(outbox, i) : s = Cur \/ s \in TextOps(outbox', i)
  BY <1>0, <1>1 DEF TextOps, OfRow, Held, Outboxes
<1>3. Cur \in Held(outbox) => outbox[Cur].id = Op.id /\ outbox[Cur].op = Op.op
  BY <1>0 DEF KeptInv, ParkedInv, BatchIsOutbox, Op
<1>4. CASE pc' \in {"shelve", "reread"} /\ i = Op.id
  <2>1. UNCHANGED answers
    BY <1>4 DEF ApplySuccess, AfterShelving, NextResult
  <2> QED BY <1>1, <1>4, <2>1 DEF Shown, BeingApplied, Op, Cur, Held
<1>5. CASE \A s \in TextOps(outbox', i), r \in TextOps(outbox, i) :
             r > s => \E q \in TextOps(outbox', i) : q > s
  BY <1>1, <1>5, QuietShows DEF Live
<1>6. ASSUME NEW s \in TextOps(outbox', i), NEW r \in TextOps(outbox, i), r > s,
             ~\E q \in TextOps(outbox', i) : q > s
      PROVE  pc' \in {"shelve", "reread"} /\ i = Op.id
  <2>1. r = Cur /\ Cur \in Held(outbox) /\ i = Op.id /\ Text(outbox[Cur]) # Unset
    <3>1. r = Cur
      BY <1>2, <1>6
    <3> QED BY <1>3, <3>1 DEF TextOps, OfRow, Text
  <2>2. Op.op # "delete"
    BY <1>3, <2>1 DEF KeptInv, PastOK, PastOps, Ledgers
  <2>3. ~IsCreate(Op)
    <3>1. s \in Held(outbox) /\ outbox[s].id = outbox[Cur].id /\ s \in Nat /\ Cur \in Nat
      BY <1>0, <1>2, <1>3, <2>1 DEF TextOps, OfRow, Held, Seqs
    <3>2. IsCreate(outbox[Cur]) => Cur <= s
      BY <2>1, <3>1 DEF OrderInv, CreatesFirst
    <3> QED BY <1>3, <1>6, <2>1, <3>1, <3>2 DEF IsCreate
  <2>4. Result.row # None
    <3>1. SaneAnswer(Op, Result)
      BY <1>0 DEF AnswersSane, Op, Result
    <3>2. Op.op = "update"
      BY <1>0, <2>2, <2>3 DEF Entries, OpKinds, IsCreate
    <3> QED BY <1>0, <3>1, <3>2 DEF SaneAnswer
  <2> QED BY <2>1, <2>2, <2>4 DEF ApplySuccess, AfterShelving
<1> QED BY <1>4, <1>5, <1>6

(* The steps of a flush.                                                   *)
LEMMA FlushShows ==
  ASSUME KeptInv, [Next]_vars, OrderInv, AnswersSane, CopyOK, FlushStep, NEW i \in Ids, Shown(i)
  PROVE  Shown(i)'
<1> USE DEF phoneVars
<1>0. /\ TypeInv /\ TypeOK /\ CycleOK /\ outbox \in Outboxes /\ mirror \in Mirrors
      /\ NoNewOp /\ ghost.marks \subseteq ghost'.marks
  BY MarksStay DEF KeptInv, ParkedInv, TypeInv, TypeOK, NoNewOp
<1>1. CASE UNCHANGED mirror /\ Held(outbox) \subseteq Held(outbox')
           /\ (BeingApplied(i) => BeingApplied(i)')
  <2>1. \A s \in Held(outbox') : s \in Held(outbox) /\ Same(s)
    BY <1>0, NoNewOpSlides DEF KeptInv, Slide, Held
  <2>2. TextOps(outbox, i) \subseteq TextOps(outbox', i)
    BY <1>1, <2>1 DEF TextOps, OfRow, Same
  <2> QED BY <1>0, <1>1, <2>2, QuietShows DEF Live
<1>2. CASE StartCycle
  BY <1>0, <1>1, <1>2, NoneAssumption
     DEF StartCycle, InState, Held, BeingApplied, Entries, OpStates, Outboxes
<1>3. CASE Send
  <2>1. \A s \in Held(outbox) : outbox[s] \in Entries
    BY <1>0 DEF Held, Outboxes
  <2>2. Held(outbox) \subseteq Held(outbox')
    BY <1>3, <2>1, NoneAssumption DEF Send, Held, Entries, OpStates
  <2> QED BY <1>1, <1>3, <2>2 DEF Send, BeingApplied
<1>4. CASE RequestFails
  <2>1. \A s \in Held(outbox) : outbox[s] \in Entries
    BY <1>0 DEF Held, Outboxes
  <2>2. Held(outbox) \subseteq Held(outbox')
    BY <1>4, <2>1, NoneAssumption DEF RequestFails, Held, Entries, OpStates
  <2> QED BY <1>1, <1>4, <2>2 DEF RequestFails, BeingApplied
<1>5. CASE ApplyRefusal
  <2>1. UNCHANGED mirror /\ ~BeingApplied(i)
    BY <1>5 DEF ApplyRefusal, BeingApplied
  <2>2. PICK dayOver \in BOOLEAN :
          outbox' = [outbox EXCEPT ![Cur] =
                      IF @ = None THEN None
                      ELSE IF Result.status = "dependencyFailed"
                      THEN [@ EXCEPT !.state = "queued"]
                      ELSE Park(@, Result.code, dayOver)]
    BY <1>5 DEF ApplyRefusal
  <2>3. Cur \in Seqs /\ Result.code \in Codes
    BY <1>0, <1>5, CurTypes DEF ApplyRefusal, Answers
  <2>4. ASSUME Cur \in Held(outbox)
        PROVE  outbox'[Cur] \in Entries
    <3>1. outbox[Cur] \in Entries /\ outbox[Cur] # None
      BY <1>0, <2>4 DEF Held, Outboxes
    <3>2. [outbox[Cur] EXCEPT !.state = "queued"] \in Entries
      BY <3>1 DEF Entries, OpStates
    <3>3. Park(outbox[Cur], Result.code, dayOver) \in Entries
      BY <2>3, <3>1, ParkType
    <3> QED BY <1>0, <2>2, <2>3, <3>1, <3>2, <3>3 DEF Outboxes
  <2>5. Held(outbox) \subseteq Held(outbox')
    <3>1. \A s \in Seqs : s # Cur => outbox'[s] = outbox[s]
      BY <1>0, <2>2 DEF Outboxes
    <3> QED BY <2>4, <3>1, NoneAssumption DEF Held
  <2> QED BY <1>1, <2>1, <2>5
<1>6. CASE LoadBatch \/ Reply \/ BatchDone
  <2>1. UNCHANGED <<mirror, outbox>> /\ ~BeingApplied(i)
    BY <1>6 DEF LoadBatch, Reply, BatchDone, BeingApplied
  <2> QED BY <1>1, <2>1
<1>7. CASE Shelve
  <2>1. Result.row # None /\ Op.op = "update"
    BY <1>7 DEF AnswersSane, Shelve
  <2>2. UNCHANGED <<mirror, outbox, batch, answers>> /\ pc' = "reread"
    BY <1>7, <2>1 DEF Shelve, AfterShelving
  <2>3. BeingApplied(i) => BeingApplied(i)'
    BY <2>2 DEF BeingApplied, Op, Cur, Held
  <2> QED BY <1>1, <2>2, <2>3
<1>8. CASE Reread
  <2>1. UNCHANGED <<mirror, outbox, batch, answers>> /\ pc' = "upsert"
    BY <1>8 DEF Reread
  <2>2. BeingApplied(i) => BeingApplied(i)'
    BY <2>1 DEF BeingApplied, Op, Cur, Held
  <2> QED BY <1>1, <2>1, <2>2
<1>9. CASE ConfirmRow
  <2>0. /\ pc = "upsert" /\ outbox' = outbox
        /\ mirror' = [mirror EXCEPT ![Op.id] =
                        Confirmed(Result.row, CollectDirty(snap, Op.id))]
    BY <1>9 DEF ConfirmRow
  <2>1. CASE i # Op.id
    <3>1. mirror'[i] = mirror[i] /\ ~BeingApplied(i)
      BY <1>0, <2>0, <2>1 DEF Mirrors, BeingApplied
    <3>2. TextOps(outbox', i) = TextOps(outbox, i)
      BY <2>0
    <3> QED BY <1>0, <3>1, <3>2, QuietShows DEF Live
  <2>2. CASE i = Op.id
    <3>1. mirror'[i] = Confirmed(Result.row, CollectDirty(snap, i))
      BY <1>0, <2>0, <2>2 DEF Mirrors
    <3>2. Result.row \in Rows /\ CollectDirty(snap, i) \in OpFields
      <4>1. Result \in Answers /\ Result.row # None
        BY <1>0, <2>0, CurTypes DEF CycleOK, InResult
      <4> QED BY <1>0, <4>1, CollectDirtyType DEF Answers, TypeOK
    <3>3. CollectDirty(snap, i)["text"] # Unset
            => mirror'[i].vals["text"] = CollectDirty(snap, i)["text"]
      BY <3>1, <3>2 DEF Confirmed, Overlay, Rows, OpFields, Fields
    <3>4. Overlays(i)
      BY <2>0, <2>2 DEF Overlays
    <3>5. TextOps(outbox', i) = TextOps(outbox, i) /\ outbox' = outbox
      BY <2>0
    <3> QED BY <1>0, <3>3, <3>4, <3>5, OverlaidShows
  <2> QED BY <2>1, <2>2
<1> QED BY <1>2, <1>3, <1>4, <1>5, <1>6, <1>7, <1>8, <1>9, SuccessShows DEF FlushStep

(* The steps of a pull.                                                    *)
LEMMA PullShows ==
  ASSUME KeptInv, [Next]_vars, CopyOK, PullStep, NEW i \in Ids, Shown(i)
  PROVE  Shown(i)'
<1> USE DEF phoneVars
<1>0. /\ TypeInv /\ TypeOK /\ CycleOK /\ outbox \in Outboxes /\ mirror \in Mirrors
      /\ NoNewOp /\ ghost.marks \subseteq ghost'.marks /\ ~BeingApplied(i)
  BY MarksStay DEF KeptInv, ParkedInv, TypeInv, TypeOK, NoNewOp, PullStep, BeingApplied,
                   FetchPage, PullFails, LoadForRebase, ApplyPage, ApplyPageFails
<1>1. CASE ~ApplyPage
  <2>1. UNCHANGED <<mirror, outbox>>
    BY <1>1 DEF PullStep, FetchPage, PullFails, LoadForRebase, ApplyPageFails
  <2>2. TextOps(outbox', i) = TextOps(outbox, i)
    BY <2>1
  <2> QED BY <1>0, <2>1, <2>2, QuietShows DEF Live
<1>2. CASE ApplyPage
  <2> DEFINE merged == [j \in Ids |->
                          IF page.rows[j] = None THEN mirror[j]
                          ELSE Rebased(page.rows[j], mirror[j], CollectDirty(snap, j))]
  <2>0. /\ pc = "merge" /\ page \in Pages
        /\ mirror' = Forgotten(merged, page.dead)
        /\ outbox' = Orphaned(outbox, page.dead)
    BY <1>0, <1>2 DEF ApplyPage, CycleOK
  <2> SUFFICES ASSUME i \in Live(mirror')
               PROVE  Shown(i)'
    BY DEF Shown
  <2>1. i \notin page.dead /\ merged[i] # None
    BY <2>0 DEF Live, Forgotten
  <2>2. /\ TextOps(outbox', i) = TextOps(outbox, i)
        /\ \A s \in TextOps(outbox, i) : outbox'[s] = outbox[s]
    <3>1. \A s \in OfRow(outbox, i) : outbox'[s] = outbox[s]
      BY <2>0, <2>1 DEF Orphaned, OfRow, Held
    <3>2. \A s \in OfRow(outbox', i) : s \in OfRow(outbox, i)
      <4>1. \A s \in Held(outbox') : s \in Held(outbox) /\ outbox'[s].id = outbox[s].id
        BY <1>0, NoNewOpSlides DEF KeptInv, Slide, Same, Held
      <4> QED BY <4>1 DEF OfRow
    <3>3. OfRow(outbox', i) = OfRow(outbox, i)
      BY <3>1, <3>2 DEF OfRow, Held
    <3> QED BY <3>1, <3>3 DEF TextOps
  <2>3. CASE page.rows[i] = None
    <3>1. merged[i] = mirror[i] /\ mirror[i] \in Rows
      BY <1>0, <2>1, <2>3 DEF Mirrors
    <3>2. mirror'[i].vals["text"] = mirror[i].vals["text"]
      <4> HIDE DEF merged
      <4> QED BY <2>0, <2>1, <3>1 DEF Forgotten, Rows, RowVals, Fields
    <3> QED BY <1>0, <2>2, <3>1, <3>2, QuietShows, RowAssumption DEF Live
  <2>4. CASE page.rows[i] # None
    <3>1. merged[i] = Rebased(page.rows[i], mirror[i], CollectDirty(snap, i))
      BY <2>4
    <3>2. page.rows[i] \in Rows /\ CollectDirty(snap, i) \in OpFields
      BY <1>0, <2>0, <2>4, CollectDirtyType DEF Pages, Mirrors, TypeOK
    <3>3. merged[i] \in Rows
      BY <1>0, <3>1, <3>2, MergeTypes DEF Mirrors
    <3>4. mirror'[i].vals["text"] = merged[i].vals["text"]
      <4> HIDE DEF merged
      <4> QED BY <2>0, <2>1, <3>3 DEF Forgotten, Rows, RowVals, Fields
    <3>5. CollectDirty(snap, i)["text"] # Unset
            => merged[i].vals["text"] = CollectDirty(snap, i)["text"]
      <4> HIDE DEF merged
      <4> QED BY <3>1, <3>2 DEF Rebased, Overlay, Rows, OpFields, Fields
    <3>6. Overlays(i)
      BY <2>0, <2>4 DEF Overlays
    <3> QED BY <1>0, <2>2, <3>4, <3>5, <3>6, OverlaidShows
  <2> QED BY <2>3, <2>4
<1> QED BY <1>1, <1>2

(* The steps of the account and of the rest of the world.                  *)
LEMMA OthersShow ==
  ASSUME KeptInv, [Next]_vars, ServerStep \/ WorldStep \/ UNCHANGED vars,
         NEW i \in Ids, Shown(i)
  PROVE  Shown(i)'
<1> USE DEF phoneVars, cycleVars
<1>1. NoNewOp /\ UNCHANGED <<mirror, outbox>>
  BY DEF NoNewOp, vars, ServerStep, SkipDependent, RefuseOp, ReadForCreate, ReadForUpdate,
         WriteCreate, WriteUpdate, WriteAborts, DeleteRow, LateEnds, WorldStep, Crash,
         ForeignEdit, ForeignDelete
<1>2. BeingApplied(i) => BeingApplied(i)' \/ <<i, "cut">> \in ghost'.marks
  <2>1. CASE Crash
    <3>1. ghost \in Ghosts
      BY KeptTypes DEF KeptInv
    <3>2. {m \in Ids \X {"cut"} : BeingApplied(m[1])} \subseteq ghost'.marks
      BY <2>1, <3>1 DEF Crash, Ghosts
    <3> QED BY <3>2
  <2>2. CASE ~Crash
    <3>1. UNCHANGED <<pc, batch, answers>>
      BY <2>2 DEF vars, ServerStep, SkipDependent, RefuseOp, ReadForCreate, ReadForUpdate,
             WriteCreate, WriteUpdate, WriteAborts, DeleteRow, LateEnds, WorldStep,
             ForeignEdit, ForeignDelete
    <3> QED BY <3>1 DEF BeingApplied, Op, Cur, Held
  <2> QED BY <2>1, <2>2
<1>3. TextOps(outbox', i) = TextOps(outbox, i)
  BY <1>1
<1> QED BY <1>1, <1>2, <1>3, QuietShows DEF Live

(* The screen shows the newest edit of a row's text that is not on the     *)
(* account yet, parked or not, however the user's actions, the flush and   *)
(* the pull come in between each other; with the exceptions PendingShown   *)
(* names.                                                                  *)
THEOREM PendingIsShown ==
  Spec => []PendingShown
<1>1. Init => ShownInv
  <2> SUFFICES ASSUME Init PROVE ShownInv
    OBVIOUS
  <2>1. Held(outbox) = {} /\ Held(answers) = {} /\ reqs["live"] = None /\ pc = "idle"
    BY DEF Init, NoOps, Held, Lanes
  <2> QED BY <2>1 DEF ShownInv, AllInCreate, SentMarked, AnswersSane, CopyOK, Overlays,
                      PendingShown, TextOps, OfRow
<1>2. KeptInv /\ OrderInv /\ ShownInv /\ [Next]_vars => ShownInv'
  <2> SUFFICES ASSUME KeptInv, OrderInv, ShownInv, [Next]_vars
               PROVE  ShownInv'
    OBVIOUS
  <2>1. AllInCreate' /\ SentMarked' /\ AnswersSane' /\ CopyOK'
    BY AllInCreateStays, SentStaysMarked, AnswersStaySane, CopyStays DEF ShownInv, OrderInv
  <2>2. \A i \in Ids : Shown(i)
    BY ShownOfRows DEF ShownInv
  <2>3. ASSUME NEW i \in Ids
        PROVE  Shown(i)'
    BY <2>2, UserShows, FlushShows, PullShows, OthersShow DEF ShownInv, Next
  <2>4. PendingShown'
    BY <2>3 DEF PendingShown, Shown, Live
  <2> QED BY <2>1, <2>4 DEF ShownInv
<1>3. ShownInv => PendingShown
  BY DEF ShownInv
<1> QED BY <1>1, <1>2, <1>3, KeptInvariant, OrderInvariant, PTL DEF Spec

=============================================================================
