-------------------------- MODULE PhoneSyncEditProofs --------------------------
(***************************************************************************)
(* No edit is lost: what holds of PhoneSync for every set of rows, every   *)
(* length of the outbox and every allowance of the environment, requests   *)
(* that outlive their timeout included.                                    *)
(***************************************************************************)
EXTENDS PhoneSyncProofs

-----------------------------------------------------------------------------
(* The inductive invariant                                                 *)

Text(e)     == e.fields["text"]
IsCreate(e) == e.op = "create"

(* The outbox and its copies: the batch, and what each request carries     *)
Ledgers == {outbox, batch} \cup {reqs[k].batch : k \in {l \in Lanes : reqs[l] # None}}

(* A row id is made once, and with it the one create of that row.          *)
LedgersOK ==
  \A ob \in Ledgers : \A s \in Held(ob) : s < nextSeq /\ ob[s].id \in ghost.minted

OneCreate ==
  \A a, b \in Ledgers : \A r \in Held(a), s \in Held(b) :
    IsCreate(a[r]) /\ IsCreate(b[s]) /\ a[r].id = b[s].id => r = s

(* Nobody holds a text that has not been written yet, so that the next one *)
(* is new to everybody; a delete carries none.                             *)
Past == 0 .. stamp

PastOps(ob) ==
  \A s \in Held(ob) : /\ Text(ob[s]) \in Past \cup {Unset}
                      /\ ob[s].base["text"] \in Past \cup {Unset}
                      /\ ob[s].op = "delete" => Text(ob[s]) = Unset

PastRow(row)   == row # None => row.vals["text"] \in Past
PastRows(rows) == \A i \in Ids : PastRow(rows[i])
PastResults(results) == \A s \in Seqs : results[s] # None => PastRow(results[s].row)

PastOK ==
  /\ \A ob \in Ledgers \cup {snap} : PastOps(ob)
  /\ PastRows(mirror) /\ PastRows(srv)
  /\ pc \in {"fetched", "merge"} => PastRows(page.rows)
  /\ PastResults(answers)
  /\ \A k \in Lanes : reqs[k] # None => PastResults(reqs[k].answers)

(* The rows EditKept excepts, and what the phone still owes the account    *)
Spoilt(i)     == {<<i, "sentCreate">>, <<i, "loaded">>} \cap ghost.marks # {}
Owes(e)       == ghost.owed[e.id] # 0 /\ Text(e) = ghost.owed[e.id]
NeverThere(i) == srv[i] = None /\ tomb[i] = 0

UnmintedOK == \A i \in Ids \ ghost.minted : NeverThere(i)

(* What a request carries is the op the outbox holds, which has been sent; *)
(* a create that has changed since has been noted.                         *)
RequestCopies ==
  \A k \in Lanes : reqs[k] # None =>
    \A s \in Held(outbox) \cap Held(reqs[k].batch) :
      /\ outbox[s].sent
      /\ outbox[s].op = reqs[k].batch[s].op /\ outbox[s].id = reqs[k].batch[s].id
      /\ IsCreate(outbox[s]) =>
           Text(outbox[s]) = Text(reqs[k].batch[s]) \/ Spoilt(outbox[s].id)

(* and so has every op that has changed between its load and its answer.   *)
Waiting(s) == pc \in {"loaded", "sent"} \/ answers[s] # None

BatchCopies ==
  \A s \in Held(outbox) \cap Held(batch) :
    Waiting(s) => Text(outbox[s]) = Text(batch[s]) \/ Spoilt(outbox[s].id)

(* A create that was never sent is of a row the account never had, and one *)
(* whose text the phone still owes has not been taken.                     *)
Unsent ==
  \A s \in Held(outbox) :
    IsCreate(outbox[s]) /\ ~outbox[s].sent => NeverThere(outbox[s].id)

CreateOwed ==
  \A s \in Held(outbox) :
    IsCreate(outbox[s]) /\ Owes(outbox[s])
      => NeverThere(outbox[s].id) \/ Spoilt(outbox[s].id)

(* What the account says it has taken is not owed any more.                *)
Taken(results) ==
  \A s \in Held(results) \cap Held(outbox) :
    results[s].status \in Succeeded /\ Owes(outbox[s]) => Spoilt(outbox[s].id)

TakenOK == Taken(answers) /\ (reqs["live"] # None => Taken(reqs["live"].answers))

AccountOK == UnmintedOK /\ Unsent /\ CreateOwed

KeptInv ==
  /\ ParkedInv
  /\ LedgersOK /\ OneCreate /\ PastOK
  /\ RequestCopies /\ BatchCopies
  /\ AccountOK /\ TakenOK
  /\ EditKept

-----------------------------------------------------------------------------
(* What a step does to the outbox                                          *)

(* A step that makes no op: ops move from state to state or go, and the    *)
(* phone owes no more than before.                                         *)
Same(s) ==
  /\ outbox'[s].op = outbox[s].op /\ outbox'[s].id = outbox[s].id
  /\ outbox'[s].fields = outbox[s].fields /\ outbox'[s].base = outbox[s].base
  /\ outbox'[s].baseAt = outbox[s].baseAt
  /\ outbox[s].sent => outbox'[s].sent

OwesLess ==
  /\ ghost'.minted = ghost.minted /\ ghost.marks \subseteq ghost'.marks
  /\ \A i \in Ids : ghost'.owed[i] \in {ghost.owed[i], 0}

Slide ==
  /\ \A s \in Held(outbox)' : s \in Held(outbox) /\ Same(s)
  /\ nextSeq' = nextSeq /\ stamp' \in {stamp, stamp + 1}
  /\ OwesLess

(* The fields of the invariants the proofs begin with                      *)
LEMMA KeptTypes ==
  ASSUME ParkedInv
  PROVE  /\ TypeOK /\ TypeInv
         /\ \A s \in Held(outbox) : s \in Seqs /\ outbox[s] \in Entries /\ outbox[s].id \in Ids
         /\ nextSeq \in Nat /\ stamp \in Nat
         /\ ghost \in Ghosts /\ ghost.owed \in [Ids -> Values]
<1>1. TypeOK /\ TypeInv
  BY DEF ParkedInv, TypeInv
<1>2. \A s \in Held(outbox) : s \in Seqs /\ outbox[s] \in Entries /\ outbox[s].id \in Ids
  BY <1>1 DEF TypeOK, Outboxes, Held, Entries
<1>3. nextSeq \in Nat /\ stamp \in Nat /\ ghost \in Ghosts
  BY <1>1, PlanAssumption DEF TypeOK
<1> QED BY <1>1, <1>2, <1>3 DEF Ghosts

(* The flush makes no op.                                                  *)
LEMMA FlushSlides ==
  ASSUME ParkedInv, FlushStep
  PROVE  Slide
<1> USE DEF phoneVars, cycleVars, accountVars
<1>0. /\ TypeOK /\ TypeInv
      /\ \A s \in Held(outbox) : s \in Seqs /\ outbox[s] \in Entries
      /\ ghost \in Ghosts /\ stamp \in Nat
  BY KeptTypes
<1>1. nextSeq' = nextSeq /\ stamp' = stamp
  BY DEF FlushStep, StartCycle, LoadBatch, Send, RequestFails, Reply, BatchDone,
         ApplySuccess, Shelve, Reread, ConfirmRow, ApplyRefusal
<1>2. OwesLess
  <2>1. CASE UNCHANGED ghost
    BY <2>1 DEF OwesLess
  <2>2. CASE RequestFails \/ ConfirmRow
    BY <1>0, <2>2 DEF RequestFails, ConfirmRow, Look, OwesLess, Ghosts
  <2> QED BY <2>1, <2>2 DEF FlushStep, StartCycle, LoadBatch, Send, Reply, BatchDone,
                            ApplySuccess, Shelve, Reread, ApplyRefusal
<1>3. ASSUME NEW s \in Held(outbox)'
      PROVE  s \in Held(outbox) /\ Same(s)
  <2>0. s \in Seqs /\ outbox'[s] # None
    BY DEF Held
  <2>1. CASE UNCHANGED outbox
    BY <2>1 DEF Held, Same
  <2>2. CASE StartCycle
    BY <1>0, <2>0, <2>2 DEF StartCycle, InState, Held, Same, Entries
  <2>3. CASE Send
    BY <1>0, <2>0, <2>3 DEF Send, Held, Same, Entries
  <2>4. CASE RequestFails
    BY <1>0, <2>0, <2>4 DEF RequestFails, Held, Same, Entries
  <2>5. CASE ApplySuccess
    BY <1>0, <2>0, <2>5 DEF ApplySuccess, TypeOK, Outboxes, Held, Same
  <2>6. CASE ApplyRefusal
    <3>1. Cur \in Seqs
      BY <1>0, <2>6, CurTypes DEF ApplyRefusal
    <3>2. CASE s # Cur
      BY <1>0, <2>0, <2>6, <3>2 DEF ApplyRefusal, TypeOK, Outboxes, Held, Same
    <3>3. CASE s = Cur
      <4>1. PICK dayOver \in BOOLEAN :
              outbox' = [outbox EXCEPT ![Cur] =
                           IF @ = None THEN None
                           ELSE IF Result.status = "dependencyFailed"
                           THEN [@ EXCEPT !.state = "queued"]
                           ELSE Park(@, Result.code, dayOver)]
        BY <2>6 DEF ApplyRefusal
      <4>2. outbox[s] # None
        BY <1>0, <2>0, <3>1, <3>3, <4>1 DEF TypeOK, Outboxes
      <4>3. outbox[s] \in Entries /\ s \in Held(outbox)
        BY <1>0, <2>0, <4>2 DEF Held
      <4>4. \/ outbox'[s] = [outbox[s] EXCEPT !.state = "queued"]
            \/ outbox'[s] = Park(outbox[s], Result.code, dayOver)
        BY <1>0, <3>1, <3>3, <4>1, <4>2 DEF TypeOK, Outboxes
      <4>5. CASE outbox'[s] = [outbox[s] EXCEPT !.state = "queued"]
        BY <4>3, <4>5 DEF Same, Entries
      <4>6. CASE outbox'[s] = Park(outbox[s], Result.code, dayOver)
        BY <4>3, <4>6 DEF Same, Entries, Park
      <4> QED BY <4>3, <4>4, <4>5, <4>6
    <3> QED BY <3>2, <3>3
  <2> QED BY <2>1, <2>2, <2>3, <2>4, <2>5, <2>6
          DEF FlushStep, LoadBatch, Reply, BatchDone, Shelve, Reread, ConfirmRow
<1> QED BY <1>1, <1>2, <1>3 DEF Slide

(* Nor do the pull, the account and the rest of the world.                 *)
LEMMA OthersSlide ==
  ASSUME ParkedInv, PullStep \/ ServerStep \/ WorldStep \/ UNCHANGED vars
  PROVE  Slide
<1> USE DEF phoneVars, cycleVars, accountVars
<1>0. /\ TypeOK /\ TypeInv
      /\ \A s \in Held(outbox) : s \in Seqs /\ outbox[s] \in Entries
      /\ ghost \in Ghosts /\ stamp \in Nat
  BY KeptTypes
<1>1. nextSeq' = nextSeq /\ stamp' \in {stamp, stamp + 1}
  BY DEF PullStep, ServerStep, WorldStep, vars, FetchPage, PullFails, LoadForRebase,
         ApplyPage, ApplyPageFails, SkipDependent, RefuseOp, ReadForCreate,
         ReadForUpdate, WriteCreate, WriteUpdate, WriteAborts, DeleteRow, LateEnds,
         Crash, ForeignEdit, ForeignDelete
<1>2. ASSUME NEW k \in Lanes, Working(k), ghost'.owed = Landed(HeadOp(k)),
             ghost'.minted = ghost.minted, ghost.marks \subseteq ghost'.marks
      PROVE  OwesLess
  BY <1>0, <1>2 DEF Landed, Ghosts, OwesLess
<1>3. OwesLess
  <2>1. CASE UNCHANGED ghost
    BY <2>1 DEF OwesLess
  <2>2. CASE ApplyPage \/ Crash \/ \E i \in Ids : ForeignEdit(i)
    BY <1>0, <2>2 DEF ApplyPage, Crash, ForeignEdit, Look, OwesLess, Ghosts
  <2>3. ASSUME NEW k \in Lanes, RefuseOp(k) \/ WriteAborts(k)
        PROVE  OwesLess
    BY <1>0, <2>3 DEF RefuseOp, WriteAborts, OwesLess, Ghosts
  <2>4. ASSUME NEW k \in Lanes, WriteCreate(k)
        PROVE  OwesLess
    <3>1. ghost' = [ghost EXCEPT !.owed = Landed(HeadOp(k))] /\ Working(k)
      BY <2>4 DEF WriteCreate, Writes
    <3> QED BY <1>0, <1>2, <3>1 DEF Ghosts
  <2>5. ASSUME NEW k \in Lanes, WriteUpdate(k)
        PROVE  OwesLess
    <3>1. /\ ghost'.owed = Landed(HeadOp(k)) /\ ghost'.minted = ghost.minted
          /\ ghost'.marks = ghost.marks /\ Working(k)
      BY <1>0, <2>5 DEF WriteUpdate, Writes, Ghosts
    <3> QED BY <1>2, <3>1
  <2> QED BY <2>1, <2>2, <2>3, <2>4, <2>5
          DEF PullStep, ServerStep, WorldStep, vars, FetchPage, PullFails, LoadForRebase,
              ApplyPageFails, SkipDependent, ReadForCreate, ReadForUpdate, DeleteRow,
              LateEnds, ForeignDelete
<1>4. ASSUME NEW s \in Held(outbox)'
      PROVE  s \in Held(outbox) /\ Same(s)
  <2>0. s \in Seqs /\ outbox'[s] # None
    BY DEF Held
  <2>1. CASE UNCHANGED outbox
    BY <2>1 DEF Held, Same
  <2>2. CASE ApplyPage
    BY <1>0, <2>0, <2>2 DEF ApplyPage, Orphaned, Held, Same, Entries
  <2> QED BY <2>1, <2>2
          DEF PullStep, ServerStep, WorldStep, vars, FetchPage, PullFails, LoadForRebase,
              ApplyPageFails, SkipDependent, RefuseOp, ReadForCreate, ReadForUpdate,
              WriteCreate, WriteUpdate, WriteAborts, DeleteRow, LateEnds, Crash,
              ForeignEdit, ForeignDelete
<1> QED BY <1>1, <1>3, <1>4 DEF Slide

(* Nor do the user's actions on parked ops and the reset.                  *)
LEMMA TidySlides ==
  ASSUME ParkedInv, Reset \/ \E s \in Seqs : Retry(s) \/ Discard(s)
  PROVE  Slide
<1>0. /\ TypeOK /\ TypeInv
      /\ \A s \in Held(outbox) : s \in Seqs /\ outbox[s] \in Entries /\ outbox[s].id \in Ids
      /\ ghost \in Ghosts /\ stamp \in Nat
  BY KeptTypes
<1>1. nextSeq' = nextSeq /\ stamp' = stamp
  BY DEF Reset, Retry, Discard
<1>2. CASE Reset
  <2>1. OwesLess
    BY <1>0, <1>2 DEF Reset, OwesLess, Ghosts
  <2> QED BY <1>1, <1>2, <2>1 DEF Reset, Slide, Same, Held
<1>3. ASSUME NEW s \in Seqs, Retry(s)
      PROVE  Slide
  <2>1. ghost' = ghost /\ s \in Held(outbox)
        /\ outbox' = [outbox EXCEPT ![s] = [@ EXCEPT !.state = "queued", !.error = "none",
                                                     !.failures = 0]]
    BY <1>3 DEF Retry, Held
  <2>2. \A r \in Held(outbox)' : r \in Held(outbox) /\ Same(r)
    BY <1>0, <2>1 DEF TypeOK, Outboxes, Entries, Held, Same
  <2> QED BY <1>1, <2>1, <2>2 DEF Slide, OwesLess
<1>4. ASSUME NEW s \in Seqs, Discard(s)
      PROVE  Slide
  <2>1. \A r \in Held(outbox)' : r \in Held(outbox) /\ Same(r)
    BY <1>0, <1>4 DEF Discard, TypeOK, Outboxes, Held, Same
  <2>2. OwesLess
    <3> DEFINE i == outbox[s].id
               kept == IF outbox[s].op = "create" \/ outbox[s].fields["text"] = ghost.owed[i]
                       THEN 0 ELSE ghost.owed[i]
    <3>1. i \in Ids
      BY <1>0, <1>4 DEF Discard, Held
    <3>2. ghost' = [ghost EXCEPT !.owed[i] = kept,
                      !.marks = @ \cup MarkOvertaken(i) \cup MarkUncovered(s, outbox')]
      BY <1>4 DEF Discard
    <3>3. kept \in {ghost.owed[i], 0}
      OBVIOUS
    <3> HIDE DEF i, kept
    <3> QED BY <1>0, <3>1, <3>2, <3>3 DEF OwesLess, Ghosts
  <2>3. nextSeq' = nextSeq /\ stamp' \in {stamp, stamp + 1}
    BY <1>1
  <2> QED BY <2>1, <2>2, <2>3 DEF Slide
<1> QED BY <1>2, <1>3, <1>4

-----------------------------------------------------------------------------
(* What such a step leaves true                                            *)

(* What is noted of a row stays noted, and what is owed was owed.          *)
LEMMA OwedBefore ==
  ASSUME Slide, NEW s \in Held(outbox)', outbox[s].id \in Ids
  PROVE  /\ Spoilt(outbox[s].id) => Spoilt(outbox[s].id)'
         /\ Owes(outbox[s])' => Owes(outbox[s])
         /\ IsCreate(outbox'[s]) <=> IsCreate(outbox[s])
         /\ Text(outbox'[s]) = Text(outbox[s]) /\ outbox'[s].id = outbox[s].id
<1>1. /\ outbox'[s].id = outbox[s].id /\ Text(outbox'[s]) = Text(outbox[s])
      /\ IsCreate(outbox'[s]) <=> IsCreate(outbox[s])
  BY DEF Slide, Same, Text, IsCreate
<1>2. ghost.marks \subseteq ghost'.marks
      /\ ghost'.owed[outbox[s].id] \in {ghost.owed[outbox[s].id], 0}
  BY DEF Slide, OwesLess
<1>3. Spoilt(outbox[s].id) => Spoilt(outbox[s].id)'
  BY <1>1, <1>2 DEF Spoilt
<1>4. Owes(outbox[s])' => Owes(outbox[s])
  BY <1>1, <1>2 DEF Owes
<1> QED BY <1>1, <1>3, <1>4

(* An edit is lost only with its op, and then it is owed no more.          *)
LEMMA SlideKept ==
  ASSUME KeptInv, Slide,
         \A s \in Held(outbox) : s \notin Held(outbox)' /\ Owes(outbox[s])
           => Spoilt(outbox[s].id) \/ ghost'.owed[outbox[s].id] = 0
  PROVE  EditKept'
<1> SUFFICES ASSUME NEW i \in Ids, ghost'.owed[i] # 0, ~Spoilt(i)'
             PROVE  StillPending(i)'
  BY DEF EditKept, Spoilt
<1>1. ghost'.owed[i] = ghost.owed[i] /\ ~Spoilt(i)
  BY DEF Slide, OwesLess, Spoilt
<1>2. PICK s \in OfRow(outbox, i) : outbox[s].fields["text"] = ghost.owed[i]
  BY <1>1 DEF KeptInv, EditKept, StillPending, Spoilt
<1>3. s \in Held(outbox) /\ outbox[s].id = i /\ Owes(outbox[s])
  BY <1>1, <1>2 DEF OfRow, Owes, Text
<1>4. s \in Held(outbox)'
  BY <1>1, <1>3
<1>5. Same(s)
  BY <1>4 DEF Slide
<1>6. s \in OfRow(outbox, i)' /\ outbox'[s].fields["text"] = ghost'.owed[i]
  BY <1>1, <1>2, <1>3, <1>4, <1>5 DEF OfRow, Same
<1> QED BY <1>6 DEF StillPending

(* The account takes a create, or has no more of its row than before.      *)
TakesOnly(j) ==
  /\ j \in ghost.minted
  /\ \A s \in Held(outbox)' : IsCreate(outbox[s]) /\ outbox[s].id = j
       => outbox[s].sent /\ (~Owes(outbox[s])' \/ Spoilt(j)')

(* So what the outbox says about the account's rows stays true.            *)
LEMMA SlideAccount ==
  ASSUME KeptInv, Slide,
         \A j \in Ids : NeverThere(j) => NeverThere(j)' \/ TakesOnly(j)
  PROVE  AccountOK'
<1>0. /\ UnmintedOK /\ Unsent /\ CreateOwed
      /\ \A s \in Held(outbox) : outbox[s].id \in Ids
      /\ \A s \in Held(outbox)' : s \in Held(outbox) /\ Same(s)
      /\ ghost'.minted = ghost.minted
  BY KeptTypes DEF KeptInv, AccountOK, Slide, OwesLess
<1>1. UnmintedOK'
  <2> SUFFICES ASSUME NEW i \in Ids, i \notin ghost.minted
               PROVE  NeverThere(i)'
    BY <1>0 DEF UnmintedOK
  <2>1. NeverThere(i)
    BY <1>0 DEF UnmintedOK
  <2> QED BY <2>1 DEF TakesOnly
<1>2. Unsent'
  <2> SUFFICES ASSUME NEW s \in Held(outbox)', IsCreate(outbox'[s]), ~outbox'[s].sent
               PROVE  NeverThere(outbox[s].id)'
    BY DEF Unsent
  <2>1. /\ s \in Held(outbox) /\ IsCreate(outbox[s]) /\ ~outbox[s].sent
        /\ outbox'[s].id = outbox[s].id /\ outbox[s].id \in Ids
    BY <1>0 DEF Same, IsCreate
  <2>2. NeverThere(outbox[s].id)
    BY <1>0, <2>1 DEF Unsent
  <2>3. ~TakesOnly(outbox[s].id)
    BY <2>1 DEF TakesOnly
  <2> QED BY <2>1, <2>2, <2>3 DEF NeverThere
<1>3. CreateOwed'
  <2> SUFFICES ASSUME NEW s \in Held(outbox)', IsCreate(outbox'[s]), Owes(outbox[s])',
                      ~Spoilt(outbox[s].id)'
               PROVE  NeverThere(outbox[s].id)'
    BY DEF CreateOwed
  <2>1. /\ s \in Held(outbox) /\ IsCreate(outbox[s]) /\ Owes(outbox[s])
        /\ ~Spoilt(outbox[s].id) /\ outbox'[s].id = outbox[s].id /\ outbox[s].id \in Ids
    BY <1>0, OwedBefore
  <2>2. NeverThere(outbox[s].id)
    BY <1>0, <2>1 DEF CreateOwed
  <2>3. ~TakesOnly(outbox[s].id)
    BY <2>1 DEF TakesOnly, Spoilt
  <2> QED BY <2>1, <2>2, <2>3 DEF NeverThere
<1> QED BY <1>1, <1>2, <1>3 DEF AccountOK

(* Copies are made of the outbox and of copies.                            *)
CopyOf(ob, b) ==
  \A s \in Held(ob) :
    /\ s \in Held(b) /\ ob[s].op = b[s].op /\ ob[s].id = b[s].id
    /\ ob[s].fields = b[s].fields /\ ob[s].base = b[s].base
    /\ ob[s].baseAt = b[s].baseAt

(* So the copies keep what is true of what they are copied from.           *)
LEMMA SlideLedgers ==
  ASSUME KeptInv, Slide,
         \E b \in Ledgers : CopyOf(batch', b),
         \A k \in Lanes : reqs'[k] # None => \E b \in Ledgers : CopyOf(reqs'[k].batch, b),
         \E b \in Ledgers \cup {snap} : CopyOf(snap', b) \/ Held(snap') = {}
  PROVE  /\ LedgersOK' /\ OneCreate'
         /\ \A ob \in (Ledgers \cup {snap})' : PastOps(ob)'
<1>0. /\ LedgersOK /\ OneCreate /\ \A ob \in Ledgers \cup {snap} : PastOps(ob)
      /\ nextSeq' = nextSeq /\ ghost'.minted = ghost.minted
      /\ stamp \in Nat /\ stamp' \in {stamp, stamp + 1}
  BY KeptTypes DEF KeptInv, PastOK, Slide, OwesLess
<1>1. CopyOf(outbox', outbox) /\ outbox \in Ledgers
  BY DEF Slide, Same, CopyOf, Ledgers
<1>2. ASSUME NEW ob \in Ledgers'
      PROVE  \E b \in Ledgers : CopyOf(ob, b)
  <2>1. ob = outbox' \/ ob = batch' \/ \E k \in Lanes : reqs'[k] # None /\ ob = reqs'[k].batch
    BY DEF Ledgers
  <2> QED BY <1>1, <2>1
<1>3. LedgersOK'
  <2> SUFFICES ASSUME NEW ob \in Ledgers', NEW s \in Held(ob)
               PROVE  s < nextSeq' /\ ob[s].id \in ghost'.minted
    BY DEF LedgersOK
  <2>1. PICK b \in Ledgers : CopyOf(ob, b)
    BY <1>2
  <2>2. s \in Held(b) /\ ob[s].id = b[s].id
    BY <2>1 DEF CopyOf
  <2> QED BY <1>0, <2>2 DEF LedgersOK
<1>4. OneCreate'
  <2> SUFFICES ASSUME NEW oa \in Ledgers', NEW ob \in Ledgers',
                      NEW r \in Held(oa), NEW s \in Held(ob),
                      IsCreate(oa[r]), IsCreate(ob[s]), oa[r].id = ob[s].id
               PROVE  r = s
    BY DEF OneCreate
  <2>1. PICK a \in Ledgers : CopyOf(oa, a)
    BY <1>2
  <2>2. PICK b \in Ledgers : CopyOf(ob, b)
    BY <1>2
  <2>3. /\ r \in Held(a) /\ IsCreate(a[r]) /\ oa[r].id = a[r].id
        /\ s \in Held(b) /\ IsCreate(b[s]) /\ ob[s].id = b[s].id
    BY <2>1, <2>2 DEF CopyOf, IsCreate
  <2> QED BY <1>0, <2>3 DEF OneCreate
<1>5. ASSUME NEW ob \in (Ledgers \cup {snap})'
      PROVE  PastOps(ob)'
  <2>1. CASE Held(ob) = {}
    BY <2>1 DEF PastOps
  <2>2. CASE \E b \in Ledgers \cup {snap} : CopyOf(ob, b)
    <3>1. PICK b \in Ledgers \cup {snap} : CopyOf(ob, b)
      BY <2>2
    <3>2. PastOps(b) /\ Past \subseteq Past'
      BY <1>0 DEF Past
    <3> QED BY <3>1, <3>2 DEF CopyOf, PastOps, Text
  <2> QED BY <1>2, <2>1, <2>2
<1> QED BY <1>3, <1>4, <1>5

(* A request carries what a request carried, or what has just been sent.   *)
Carried(k) ==
  \/ \E l \in Lanes : reqs[l] # None /\ reqs'[k].batch = reqs[l].batch
  \/ \A s \in Held(outbox)' \cap Held(reqs'[k].batch) :
       /\ outbox'[s].sent
       /\ outbox[s].op = reqs'[k].batch[s].op /\ outbox[s].id = reqs'[k].batch[s].id
       /\ Text(outbox[s]) = Text(reqs'[k].batch[s]) \/ Spoilt(outbox[s].id)

(* So requests go on carrying what the outbox holds.                       *)
LEMMA SlideRequests ==
  ASSUME KeptInv, Slide, \A k \in Lanes : reqs'[k] # None => Carried(k)
  PROVE  RequestCopies'
<1> SUFFICES ASSUME NEW k \in Lanes, reqs'[k] # None,
                    NEW s \in Held(outbox)', s \in Held(reqs'[k].batch)
             PROVE  /\ outbox'[s].sent
                    /\ outbox'[s].op = reqs'[k].batch[s].op
                    /\ outbox'[s].id = reqs'[k].batch[s].id
                    /\ IsCreate(outbox'[s]) =>
                         \/ Text(outbox'[s]) = Text(reqs'[k].batch[s])
                         \/ Spoilt(outbox[s].id)'
  BY DEF RequestCopies, Held
<1>1. s \in Held(outbox) /\ Same(s) /\ outbox[s].id \in Ids
  BY KeptTypes DEF KeptInv, Slide
<1>2. CASE \E l \in Lanes : reqs[l] # None /\ reqs'[k].batch = reqs[l].batch
  <2>1. PICK l \in Lanes : reqs[l] # None /\ reqs'[k].batch = reqs[l].batch
    BY <1>2
  <2>2. /\ outbox[s].sent
        /\ outbox[s].op = reqs[l].batch[s].op /\ outbox[s].id = reqs[l].batch[s].id
        /\ IsCreate(outbox[s]) =>
             Text(outbox[s]) = Text(reqs[l].batch[s]) \/ Spoilt(outbox[s].id)
    BY <1>1, <2>1 DEF KeptInv, RequestCopies
  <2> QED BY <1>1, <2>1, <2>2, OwedBefore DEF Same
<1>3. CASE ~\E l \in Lanes : reqs[l] # None /\ reqs'[k].batch = reqs[l].batch
  <2>1. /\ outbox'[s].sent
        /\ outbox[s].op = reqs'[k].batch[s].op /\ outbox[s].id = reqs'[k].batch[s].id
        /\ Text(outbox[s]) = Text(reqs'[k].batch[s]) \/ Spoilt(outbox[s].id)
    BY <1>3 DEF Carried
  <2> QED BY <1>1, <2>1, OwedBefore DEF Same
<1> QED BY <1>2, <1>3

(* The batch is the one it was, of which no more is waited for, or has     *)
(* just been loaded.                                                       *)
LEMMA SlideBatch ==
  ASSUME KeptInv, Slide,
         \/ batch' = batch /\ \A s \in Held(batch) : Waiting(s)' => Waiting(s)
         \/ \A s \in Held(batch)' : s \in Held(outbox) /\ batch'[s] = outbox[s]
  PROVE  BatchCopies'
<1> SUFFICES ASSUME NEW s \in Held(outbox)', s \in Held(batch)', Waiting(s)'
             PROVE  Text(outbox'[s]) = Text(batch'[s]) \/ Spoilt(outbox[s].id)'
  BY DEF BatchCopies
<1>1. s \in Held(outbox) /\ outbox[s].id \in Ids
  BY KeptTypes DEF KeptInv, Slide
<1>2. Text(outbox[s]) = Text(batch'[s]) \/ Spoilt(outbox[s].id)
  <2>1. CASE batch' = batch /\ \A r \in Held(batch) : Waiting(r)' => Waiting(r)
    BY <1>1, <2>1 DEF KeptInv, BatchCopies, Held
  <2>2. CASE \A r \in Held(batch)' : r \in Held(outbox) /\ batch'[r] = outbox[r]
    BY <2>2
  <2> QED BY <2>1, <2>2
<1> QED BY <1>1, <1>2, OwedBefore

(* An answer that was there stays what it was; a new one is of an op that  *)
(* is owed no more.                                                        *)
LEMMA SlideTaken ==
  ASSUME KeptInv, Slide, NEW new,
         \A s \in Held(outbox)' \cap Held(new) :
           \/ s \in Held(answers) /\ new[s] = answers[s]
           \/ /\ reqs["live"] # None /\ s \in Held(reqs["live"].answers)
              /\ new[s] = reqs["live"].answers[s]
           \/ new[s].status \in Succeeded => ~Owes(outbox[s])' \/ Spoilt(outbox[s].id)'
  PROVE  \A s \in Held(new) \cap Held(outbox)' :
           new[s].status \in Succeeded /\ Owes(outbox[s])' => Spoilt(outbox[s].id)'
<1> SUFFICES ASSUME NEW s \in Held(new), s \in Held(outbox)',
                    new[s].status \in Succeeded, Owes(outbox[s])'
             PROVE  Spoilt(outbox[s].id)'
  OBVIOUS
<1>1. s \in Held(outbox) /\ outbox[s].id \in Ids
  BY KeptTypes DEF KeptInv, Slide
<1>2. CASE s \in Held(answers) /\ new[s] = answers[s]
  <2>1. Owes(outbox[s]) => Spoilt(outbox[s].id)
    BY <1>1, <1>2 DEF KeptInv, TakenOK, Taken
  <2> QED BY <1>1, <2>1, OwedBefore
<1>3. CASE reqs["live"] # None /\ s \in Held(reqs["live"].answers)
           /\ new[s] = reqs["live"].answers[s]
  <2>1. Owes(outbox[s]) => Spoilt(outbox[s].id)
    BY <1>1, <1>3 DEF KeptInv, TakenOK, Taken
  <2> QED BY <1>1, <2>1, OwedBefore
<1> QED BY <1>2, <1>3


-----------------------------------------------------------------------------
(* The steps that make no op, one part of the invariant after the other    *)

(* Every step but those in which the user makes an op.                     *)
NoNewOp ==
  \/ FlushStep \/ PullStep \/ ServerStep \/ WorldStep \/ UNCHANGED vars
  \/ Reset \/ \E s \in Seqs : Retry(s) \/ Discard(s)

(* They are the steps that make no op.                                     *)
LEMMA NoNewOpSlides ==
  ASSUME ParkedInv, NoNewOp
  PROVE  Slide
BY FlushSlides, OthersSlide, TidySlides DEF NoNewOp

(* The op a request is at, if it is a create, is the one of its row.       *)
LEMMA HeadCreate ==
  ASSUME KeptInv, NEW k \in Lanes, Working(k), NEW s \in Held(outbox),
         IsCreate(HeadOp(k)), IsCreate(outbox[s]), outbox[s].id = HeadOp(k).id
  PROVE  /\ s = HeadSeq(k) /\ outbox[s].sent
         /\ Text(outbox[s]) = Text(HeadOp(k)) \/ Spoilt(outbox[s].id)
<1>1. HeadSeq(k) \in Held(reqs[k].batch) /\ reqs[k] # None
  BY HeadTypes DEF KeptInv, ParkedInv, Working
<1>2. reqs[k].batch \in Ledgers /\ outbox \in Ledgers
  BY <1>1 DEF Ledgers
<1>3. s = HeadSeq(k)
  BY <1>1, <1>2 DEF KeptInv, OneCreate, HeadOp
<1> QED BY <1>1, <1>3 DEF KeptInv, RequestCopies, HeadOp

(* What the account takes is not owed any more.                            *)
LEMMA LandedOwes ==
  ASSUME KeptInv, Slide, UNCHANGED outbox, NEW k \in Lanes, Working(k),
         ghost'.owed = Landed(HeadOp(k)), NEW s \in Held(outbox),
         outbox[s].id = HeadOp(k).id, Text(outbox[s]) = Text(HeadOp(k))
  PROVE  ~Owes(outbox[s])'
<1>1. HeadOp(k) \in Entries /\ ghost.owed \in [Ids -> Values]
  BY HeadTypes, KeptTypes DEF KeptInv, ParkedInv
<1>2. ghost'.owed[outbox[s].id] =
        IF Text(outbox[s]) = ghost.owed[outbox[s].id] THEN 0 ELSE ghost.owed[outbox[s].id]
  BY <1>1 DEF Landed, Text, Entries
<1> QED BY <1>2 DEF Owes, Text

(* A row that never was is made by its create only.                        *)
LEMMA AccountKept ==
  ASSUME KeptInv, NoNewOp
  PROVE  AccountOK'
<1> USE DEF phoneVars, cycleVars, accountVars
<1>0. /\ TypeOK /\ TypeInv /\ ParkedInv /\ Slide
      /\ \A s \in Held(outbox) : outbox[s].id \in Ids
  BY KeptTypes, NoNewOpSlides DEF KeptInv
<1>1. SUFFICES \A j \in Ids : NeverThere(j) => NeverThere(j)' \/ TakesOnly(j)
  BY <1>0, SlideAccount
<1>2. CASE UNCHANGED <<srv, tomb>>
  BY <1>2 DEF NeverThere
<1>3. ASSUME NEW k \in Lanes, WriteCreate(k)
      PROVE  \A j \in Ids : NeverThere(j) => NeverThere(j)' \/ TakesOnly(j)
  <2>1. /\ Working(k) /\ IsCreate(HeadOp(k)) /\ UNCHANGED <<outbox, tomb>>
        /\ ghost'.owed = Landed(HeadOp(k)) /\ HeadOp(k) \in Entries
        /\ \A j \in Ids : j # HeadOp(k).id => srv'[j] = srv[j]
    BY <1>0, <1>3, HeadTypes DEF WriteCreate, Writes, IsCreate, TypeOK, Ghosts, Mirrors
  <2>2. HeadOp(k).id \in ghost.minted
    <3>1. HeadSeq(k) \in Held(reqs[k].batch) /\ reqs[k].batch \in Ledgers
      BY <1>0, <2>1, HeadTypes DEF Working, Ledgers
    <3> QED BY <3>1 DEF KeptInv, LedgersOK, HeadOp
  <2>3. ASSUME NEW s \in Held(outbox)', IsCreate(outbox[s]), outbox[s].id = HeadOp(k).id
        PROVE  outbox[s].sent /\ (~Owes(outbox[s])' \/ Spoilt(HeadOp(k).id))
    <3>1. s \in Held(outbox)
      BY <2>1 DEF Held
    <3>2. outbox[s].sent /\ (Text(outbox[s]) = Text(HeadOp(k)) \/ Spoilt(HeadOp(k).id))
      BY <2>1, <2>3, <3>1, HeadCreate
    <3> QED BY <1>0, <2>1, <2>3, <3>1, <3>2, LandedOwes
  <2>4. ASSUME NEW j \in Ids, j = HeadOp(k).id
        PROVE  TakesOnly(j)
    <3>1. Spoilt(j) => Spoilt(j)'
      BY <1>0 DEF Slide, OwesLess, Spoilt
    <3> QED BY <2>2, <2>3, <2>4, <3>1 DEF TakesOnly
  <2> QED BY <2>1, <2>4 DEF NeverThere
<1>4. ASSUME NEW k \in Lanes, WriteUpdate(k)
      PROVE  \A j \in Ids : NeverThere(j) => NeverThere(j)'
  BY <1>0, <1>4 DEF WriteUpdate, NeverThere, TypeOK, Mirrors
<1>5. ASSUME NEW i \in Ids, RemoveRow(i)
      PROVE  \A j \in Ids : NeverThere(j) => NeverThere(j)'
  BY <1>0, <1>5 DEF RemoveRow, Without, NeverThere, TypeOK, Mirrors
<1>6. ASSUME NEW k \in Lanes, DeleteRow(k)
      PROVE  \A j \in Ids : NeverThere(j) => NeverThere(j)'
  <2>1. HeadOp(k).id \in Ids /\ RemoveRow(HeadOp(k).id)
    BY <1>0, <1>6, HeadTypes DEF DeleteRow, Reads, Entries
  <2> QED BY <1>5, <2>1
<1>7. ASSUME NEW i \in Ids, ForeignEdit(i) \/ ForeignDelete(i)
      PROVE  \A j \in Ids : NeverThere(j) => NeverThere(j)'
  <2>1. CASE ForeignEdit(i)
    BY <1>0, <2>1 DEF ForeignEdit, NeverThere, TypeOK, Mirrors
  <2>2. CASE ForeignDelete(i)
    BY <1>5, <2>2 DEF ForeignDelete
  <2> QED BY <1>7, <2>1, <2>2
<1> QED BY <1>2, <1>3, <1>4, <1>6, <1>7
        DEF NoNewOp, FlushStep, PullStep, ServerStep, WorldStep, vars, StartCycle,
            LoadBatch, Send, RequestFails, Reply, BatchDone, ApplySuccess, Shelve, Reread,
            ConfirmRow, ApplyRefusal, FetchPage, PullFails, LoadForRebase, ApplyPage,
            ApplyPageFails, SkipDependent, RefuseOp, ReadForCreate, ReadForUpdate,
            WriteAborts, LateEnds, Crash, Reset, Retry, Discard

(* Request k's head has got its answer.                                    *)
Answered(k, answer) ==
  /\ Working(k) /\ Finish(k, answer)
  /\ reqs'[k].answers = [reqs[k].answers EXCEPT ![HeadSeq(k)] = answer]

(* The API changes no request but to answer its head, remember what it     *)
(* read or end it.                                                         *)
LEMMA ServerMoves ==
  ASSUME TypeInv, ServerStep, NEW k \in Lanes, reqs'[k] # None
  PROVE  /\ reqs[k] # None /\ reqs'[k].batch = reqs[k].batch
         /\ reqs'[k].answers = reqs[k].answers \/ \E answer : Answered(k, answer)
<1>0. TypeOK
  BY DEF TypeInv
<1> DEFINE Moved == /\ reqs[k] # None /\ reqs'[k].batch = reqs[k].batch
                    /\ \/ reqs'[k].answers = reqs[k].answers
                       \/ \E answer : Answered(k, answer)
<1>1. ASSUME NEW l \in Lanes, Working(l), NEW answer, Finish(l, answer)
      PROVE  Moved
  <2>1. reqs[l] \in Requests /\ reqs[l] # None
    BY <1>1, HeadTypes DEF Working
  <2>2. /\ reqs'[l].answers = [reqs[l].answers EXCEPT ![HeadSeq(l)] = answer]
        /\ reqs'[l].batch = reqs[l].batch
        /\ l # k => reqs'[k] = reqs[k]
    BY <1>0, <1>1, <2>1 DEF Finish, TypeOK, Requests
  <2> QED BY <1>1, <2>1, <2>2 DEF Answered
<1>2. ASSUME NEW l \in Lanes, Working(l), NEW row, reqs' = [reqs EXCEPT ![l].read = row]
      PROVE  Moved
  <2>1. reqs[l] \in Requests /\ reqs[l] # None
    BY <1>2, HeadTypes DEF Working
  <2>2. /\ reqs'[l].answers = reqs[l].answers /\ reqs'[l].batch = reqs[l].batch
        /\ l # k => reqs'[k] = reqs[k]
    BY <1>0, <1>2, <2>1 DEF TypeOK, Requests
  <2> QED BY <2>1, <2>2
<1>3. ASSUME NEW l \in Lanes, reqs' = [reqs EXCEPT ![l] = None]
      PROVE  Moved
  BY <1>0, <1>3 DEF TypeOK
<1> HIDE DEF Moved
<1>4. ASSUME NEW l \in Lanes, SkipDependent(l) \/ RefuseOp(l) \/ DeleteRow(l)
                              \/ WriteCreate(l) \/ WriteUpdate(l)
      PROVE  Moved
  <2>1. Working(l) /\ \E answer : Finish(l, answer)
    BY <1>4 DEF SkipDependent, RefuseOp, DeleteRow, WriteCreate, WriteUpdate, Writes, Reads
  <2> QED BY <1>1, <2>1
<1>5. ASSUME NEW l \in Lanes, ReadForCreate(l)
      PROVE  Moved
  <2>1. Working(l) /\ \/ \E answer : Finish(l, answer)
                      \/ \E row : reqs' = [reqs EXCEPT ![l].read = row]
    BY <1>5 DEF ReadForCreate, Reads
  <2> QED BY <1>1, <1>2, <2>1
<1>6. ASSUME NEW l \in Lanes, ReadForUpdate(l)
      PROVE  Moved
  <2>1. Working(l) /\ \/ \E answer : Finish(l, answer)
                      \/ \E row : reqs' = [reqs EXCEPT ![l].read = row]
    BY <1>6 DEF ReadForUpdate, Reads
  <2> QED BY <1>1, <1>2, <2>1
<1>7. ASSUME NEW l \in Lanes, WriteAborts(l)
      PROVE  Moved
  BY <1>3, <1>7 DEF WriteAborts
<1>8. ASSUME LateEnds
      PROVE  Moved
  <2>1. "late" \in Lanes /\ reqs' = [reqs EXCEPT !["late"] = None]
    BY <1>8 DEF LateEnds, Lanes
  <2> QED BY <1>3, <2>1
<1>9. Moved
  BY <1>4, <1>5, <1>6, <1>7, <1>8 DEF ServerStep
<1> QED BY <1>9 DEF Moved

(* Any other step leaves a request, drops it, lets it run on behind the    *)
(* phone's back, or sends a new one.                                       *)
LEMMA OtherMoves ==
  ASSUME TypeInv, NoNewOp, ~ServerStep, NEW k \in Lanes, reqs'[k] # None
  PROVE  \/ Send /\ k = "live" /\ reqs'[k].batch = batch /\ reqs'[k].answers = NoOps
         \/ reqs[k] # None /\ reqs'[k] = reqs[k]
         \/ k = "late" /\ reqs["live"] # None /\ reqs'[k] = reqs["live"]
<1> USE DEF cycleVars, phoneVars
<1>0. TypeOK
  BY DEF TypeInv
<1>1. CASE UNCHANGED reqs
  BY <1>1
<1>2. CASE Send
  BY <1>0, <1>2 DEF Send, TypeOK, Lanes
<1>3. CASE RequestFails \/ Reply \/ Crash
  BY <1>0, <1>3 DEF RequestFails, Reply, Crash, TypeOK, Lanes
<1> QED BY <1>1, <1>2, <1>3
        DEF NoNewOp, FlushStep, PullStep, WorldStep, vars, StartCycle,
            LoadBatch, BatchDone, ApplySuccess, Shelve, Reread,
            ConfirmRow, ApplyRefusal, FetchPage, PullFails, LoadForRebase, ApplyPage,
            ApplyPageFails, ForeignEdit, ForeignDelete, Reset, Retry, Discard

(* What the cycle holds comes from the outbox.                             *)
LEMMA CycleCopies ==
  ASSUME TypeInv, NoNewOp
  PROVE  /\ \/ batch' = batch
            \/ \A s \in Held(batch)' : s \in Held(outbox) /\ batch'[s] = outbox[s]
         /\ \/ snap' = snap
            \/ \A s \in Held(snap)' : s \in Held(outbox) /\ snap'[s] = outbox[s]
<1> USE DEF cycleVars
<1>1. CASE LoadBatch
  BY <1>1 DEF LoadBatch, SelectFlushBatch, Ready, InState, Held
<1>2. CASE Reread
  BY <1>2 DEF Reread, OfRow, Held
<1>3. CASE LoadForRebase
  BY <1>3 DEF LoadForRebase, Held
<1> QED BY <1>1, <1>2, <1>3
        DEF NoNewOp, FlushStep, PullStep, ServerStep, WorldStep, vars, StartCycle,
            Send, RequestFails, Reply, BatchDone, ApplySuccess, Shelve,
            ConfirmRow, ApplyRefusal, FetchPage, PullFails, ApplyPage,
            ApplyPageFails, SkipDependent, RefuseOp, ReadForCreate, ReadForUpdate,
            WriteCreate, WriteUpdate, WriteAborts, DeleteRow, LateEnds, Crash, ForeignEdit,
            ForeignDelete, Reset, Retry, Discard, NoOps, Held

(* The copies of the outbox keep what is true of it.                       *)
LEMMA LedgersKept ==
  ASSUME KeptInv, NoNewOp
  PROVE  /\ LedgersOK' /\ OneCreate'
         /\ \A ob \in (Ledgers \cup {snap})' : PastOps(ob)'
<1>0. TypeInv /\ Slide
  BY KeptTypes, NoNewOpSlides DEF KeptInv
<1>1. \A b : CopyOf(b, b)
  BY DEF CopyOf
<1>2. \A ob : (\A s \in Held(ob) : s \in Held(outbox) /\ ob[s] = outbox[s]) => CopyOf(ob, outbox)
  BY DEF CopyOf
<1>3. outbox \in Ledgers /\ batch \in Ledgers
  BY DEF Ledgers
<1>4. \E b \in Ledgers : CopyOf(batch', b)
  BY <1>0, <1>1, <1>2, <1>3, CycleCopies DEF Held
<1>5. \E b \in Ledgers \cup {snap} : CopyOf(snap', b)
  BY <1>0, <1>1, <1>2, <1>3, CycleCopies DEF Held
<1>6. ASSUME NEW k \in Lanes, reqs'[k] # None
      PROVE  \E b \in Ledgers : CopyOf(reqs'[k].batch, b)
  <2>1. reqs'[k].batch = batch \/ \E l \in Lanes : reqs[l] # None /\ reqs'[k].batch = reqs[l].batch
    BY <1>0, <1>6, ServerMoves, OtherMoves DEF Lanes
  <2>2. reqs'[k].batch \in Ledgers
    BY <2>1 DEF Ledgers
  <2> QED BY <1>1, <2>2
<1> QED BY <1>0, <1>4, <1>5, <1>6, SlideLedgers

(* A request is sent with the texts the outbox holds.                      *)
LEMMA RequestsKept ==
  ASSUME KeptInv, NoNewOp
  PROVE  RequestCopies'
<1>0. TypeInv /\ TypeOK /\ Slide /\ BatchIsOutbox
  BY KeptTypes, NoNewOpSlides DEF KeptInv, ParkedInv
<1>1. SUFFICES ASSUME NEW k \in Lanes, reqs'[k] # None
               PROVE  Carried(k)
  BY <1>0, SlideRequests
<1>2. CASE ServerStep
  BY <1>0, <1>1, <1>2, ServerMoves DEF Carried
<1>3. CASE ~ServerStep /\ ~Send
  BY <1>0, <1>1, <1>3, OtherMoves DEF Carried, Lanes
<1>4. CASE Send
  <2>1. reqs'[k].batch = batch \/ (reqs[k] # None /\ reqs'[k].batch = reqs[k].batch)
    BY <1>0, <1>1, <1>4 DEF Send, TypeOK, Lanes
  <2>2. ASSUME NEW s \in Held(outbox)', s \in Held(batch)
        PROVE  /\ outbox'[s].sent
               /\ outbox[s].op = batch[s].op /\ outbox[s].id = batch[s].id
               /\ Text(outbox[s]) = Text(batch[s]) \/ Spoilt(outbox[s].id)
    <3>1. s \in Held(outbox) /\ outbox[s] \in Entries /\ s \in Seqs /\ batch[s] # None
      BY <1>0, <2>2 DEF Slide, Held, TypeOK, Outboxes
    <3>2. outbox'[s] = [outbox[s] EXCEPT !.state = "inflight", !.sent = TRUE]
      BY <1>4, <3>1 DEF Send, Held
    <3>3. Waiting(s)
      BY <1>4 DEF Send, Waiting
    <3> QED BY <1>0, <2>2, <3>1, <3>2, <3>3 DEF KeptInv, BatchCopies, BatchIsOutbox, Entries
  <2> QED BY <1>1, <2>1, <2>2 DEF Carried
<1> QED BY <1>2, <1>3, <1>4

(* No op is waited for anew but with the batch that is loaded.             *)
LEMMA BatchKept ==
  ASSUME KeptInv, NoNewOp
  PROVE  BatchCopies'
<1> USE DEF cycleVars
<1>0. TypeInv /\ TypeOK /\ CycleOK /\ RequestsOK /\ Slide
  BY KeptTypes, NoNewOpSlides DEF KeptInv, TypeInv
<1>1. SUFFICES \/ batch' = batch /\ \A s \in Held(batch) : Waiting(s)' => Waiting(s)
               \/ \A s \in Held(batch)' : s \in Held(outbox) /\ batch'[s] = outbox[s]
  BY <1>0, SlideBatch
<1>2. CASE batch' # batch
  BY <1>0, <1>2, CycleCopies
<1>3. CASE LoadBatch /\ batch' = batch
  <2>1. pc' = "pull" \/ \A s \in Held(batch)' : s \in Held(outbox) /\ batch'[s] = outbox[s]
    BY <1>3 DEF LoadBatch, SelectFlushBatch, Ready, InState, Held
  <2> QED BY <1>3, <2>1 DEF LoadBatch, Waiting
<1>4. CASE NextResult /\ batch' = batch
  <2>1. \A s \in Seqs : answers'[s] # None => answers[s] # None
    BY <1>0, <1>4 DEF NextResult, TypeOK
  <2> QED BY <1>4, <2>1 DEF NextResult, Waiting, Held
<1>5. CASE Reply
  BY <1>5 DEF Reply, Waiting
<1>6. CASE Send
  BY <1>6 DEF Send, Waiting
<1>7. CASE /\ batch' = batch /\ UNCHANGED answers
           /\ pc' \notin {"loaded", "sent"} \/ pc' = pc
  BY <1>7 DEF Waiting
<1>8. CASE Crash
  BY <1>8 DEF Crash, NoOps, Held
<1> QED BY <1>2, <1>3, <1>4, <1>5, <1>6, <1>7, <1>8
        DEF NoNewOp, FlushStep, PullStep, ServerStep, WorldStep, vars, StartCycle,
            RequestFails, BatchDone, ApplySuccess, Shelve, Reread, AfterShelving,
            ConfirmRow, ApplyRefusal, FetchPage, PullFails, LoadForRebase, ApplyPage,
            ApplyPageFails, SkipDependent, RefuseOp, ReadForCreate, ReadForUpdate,
            WriteCreate, WriteUpdate, WriteAborts, DeleteRow, LateEnds, ForeignEdit,
            ForeignDelete, Reset, Retry, Discard

(* The results at hand are those of the batch's answer, fewer and fewer.   *)
LEMMA AnswersCome ==
  ASSUME TypeInv, NoNewOp, NEW s \in Held(answers)'
  PROVE  \/ s \in Held(answers) /\ answers'[s] = answers[s]
         \/ /\ reqs["live"] # None /\ s \in Held(reqs["live"].answers)
            /\ answers'[s] = reqs["live"].answers[s]
<1> USE DEF cycleVars
<1>0. TypeOK /\ s \in Seqs /\ answers'[s] # None
  BY DEF TypeInv, Held
<1>1. CASE UNCHANGED answers
  BY <1>1 DEF Held
<1>2. CASE NextResult
  BY <1>0, <1>2 DEF NextResult, TypeOK, Held
<1>3. CASE Reply
  BY <1>0, <1>3 DEF Reply, Held
<1>4. CASE Crash
  BY <1>0, <1>4 DEF Crash, NoOps
<1> QED BY <1>1, <1>2, <1>3, <1>4
        DEF NoNewOp, FlushStep, PullStep, ServerStep, WorldStep, vars, StartCycle,
            LoadBatch, Send, RequestFails, BatchDone, ApplySuccess, Shelve, Reread,
            AfterShelving, ConfirmRow, ApplyRefusal, FetchPage, PullFails, LoadForRebase,
            ApplyPage, ApplyPageFails, SkipDependent, RefuseOp, ReadForCreate,
            ReadForUpdate, WriteCreate, WriteUpdate, WriteAborts, DeleteRow, LateEnds,
            ForeignEdit, ForeignDelete, Reset, Retry, Discard

(* An answer to the head of the phone's request that says it was taken is  *)
(* given when nothing is owed for it, or is owed no more.                  *)
LEMMA FinishTaken ==
  ASSUME KeptInv, Slide, UNCHANGED outbox, NEW k \in Lanes, Working(k), NEW answer,
         Finish(k, answer),
         \A s \in Held(outbox) : k = "live" /\ s = HeadSeq(k) /\ answer.status \in Succeeded
           => ~Owes(outbox[s])' \/ Spoilt(outbox[s].id)
  PROVE  reqs'["live"] # None => Taken(reqs["live"].answers)'
<1>0. TypeInv /\ TypeOK
  BY KeptTypes DEF KeptInv
<1>1. SUFFICES ASSUME reqs'["live"] # None
               PROVE  Taken(reqs["live"].answers)'
  OBVIOUS
<1> DEFINE Fine(s) ==
      \/ /\ reqs["live"] # None /\ s \in Held(reqs["live"].answers)
         /\ reqs'["live"].answers[s] = reqs["live"].answers[s]
      \/ reqs'["live"].answers[s].status \in Succeeded
           => ~Owes(outbox[s])' \/ Spoilt(outbox[s].id)'
<1>2. reqs[k] \in Requests /\ reqs[k] # None /\ HeadSeq(k) \in Seqs
  BY <1>0, HeadTypes DEF Working
<1>3. /\ reqs'[k].answers = [reqs[k].answers EXCEPT ![HeadSeq(k)] = answer]
      /\ reqs[k].answers \in [Seqs -> Answers \cup {None}]
      /\ \A l \in Lanes : l # k => reqs'[l] = reqs[l]
  BY <1>0, <1>2 DEF Finish, TypeOK, Requests
<1>4. ASSUME NEW s \in Held(outbox)' \cap Held(reqs'["live"].answers)
      PROVE  Fine(s)
  <2>0. s \in Seqs /\ s \in Held(outbox) /\ reqs'["live"].answers[s] # None
    BY <1>4 DEF Held
  <2>1. CASE k # "live"
    BY <1>1, <1>3, <1>4, <2>1 DEF Held, Lanes
  <2>2. CASE k = "live" /\ s # HeadSeq(k)
    BY <1>2, <1>3, <2>0, <2>2 DEF Held
  <2>3. CASE k = "live" /\ s = HeadSeq(k)
    <3>1. reqs'["live"].answers[s] = answer
      BY <1>2, <1>3, <2>3
    <3>2. Spoilt(outbox[s].id) => Spoilt(outbox[s].id)'
      BY DEF Slide, OwesLess, Spoilt
    <3> QED BY <2>0, <2>3, <3>1, <3>2
  <2> QED BY <2>1, <2>2, <2>3
<1>5. \A s \in Held(reqs'["live"].answers) \cap Held(outbox)' :
        reqs'["live"].answers[s].status \in Succeeded /\ Owes(outbox[s])'
          => Spoilt(outbox[s].id)'
  BY <1>4, SlideTaken
<1> QED BY <1>5 DEF Taken

(* A request that is answered no further, or dropped.                      *)
LEMMA NothingTaken ==
  ASSUME KeptInv, Slide,
         reqs'["live"] # None =>
           \/ reqs["live"] # None /\ reqs'["live"].answers = reqs["live"].answers
           \/ reqs'["live"].answers = NoOps
  PROVE  reqs'["live"] # None => Taken(reqs["live"].answers)'
<1> SUFFICES ASSUME reqs'["live"] # None
             PROVE  Taken(reqs["live"].answers)'
  OBVIOUS
<1>1. CASE reqs'["live"].answers = NoOps
  BY <1>1 DEF Taken, Held, NoOps
<1>2. CASE reqs["live"] # None /\ reqs'["live"].answers = reqs["live"].answers
  <2>1. \A s \in Held(reqs'["live"].answers) \cap Held(outbox)' :
          reqs'["live"].answers[s].status \in Succeeded /\ Owes(outbox[s])'
            => Spoilt(outbox[s].id)'
    BY <1>2, SlideTaken
  <2> QED BY <2>1 DEF Taken
<1> QED BY <1>1, <1>2

(* What the account says it has taken is owed no more, whichever step of   *)
(* its own says so.                                                        *)
LEMMA ServerTaken ==
  ASSUME KeptInv, ServerStep
  PROVE  reqs'["live"] # None => Taken(reqs["live"].answers)'
<1> USE DEF phoneVars, cycleVars
<1>0. /\ ParkedInv /\ TypeInv /\ TypeOK /\ RequestsOK /\ Slide
      /\ \A s \in Held(outbox) : outbox[s] \in Entries
  BY KeptTypes, NoNewOpSlides DEF KeptInv, NoNewOp, TypeInv
<1>1. UNCHANGED outbox
  BY DEF ServerStep, SkipDependent, RefuseOp, ReadForCreate, ReadForUpdate,
         WriteCreate, WriteUpdate, WriteAborts, DeleteRow, LateEnds
<1> DEFINE Safe == reqs'["live"] # None => Taken(reqs["live"].answers)'
           Due(k, answer) ==
             \A s \in Held(outbox) : k = "live" /\ s = HeadSeq(k) /\ answer.status \in Succeeded
               => ~Owes(outbox[s])' \/ Spoilt(outbox[s].id)
<1>2. ASSUME NEW k \in Lanes, Working(k), NEW answer, Finish(k, answer), Due(k, answer)
      PROVE  Safe
  BY <1>0, <1>1, <1>2, FinishTaken
<1>3. ASSUME NEW k \in Lanes, Working(k), NEW answer, Finish(k, answer),
             answer.status \notin Succeeded
      PROVE  Safe
  BY <1>2, <1>3
<1>4. ASSUME \/ \E k \in Lanes : WriteAborts(k) \/ \E row : Working(k) /\ reqs' = [reqs EXCEPT ![k].read = row]
             \/ LateEnds
      PROVE  Safe
  <2>1. reqs'["live"] # None => reqs["live"] # None /\ reqs'["live"].answers = reqs["live"].answers
    BY <1>0, <1>4 DEF WriteAborts, LateEnds, Working, TypeOK, Requests, Lanes
  <2> QED BY <1>0, <2>1, NothingTaken
(* The op the phone's request is at, as the outbox holds it.               *)
<1>5. ASSUME NEW s \in Held(outbox), Working("live"), s = HeadSeq("live")
      PROVE  /\ outbox[s].op = HeadOp("live").op /\ outbox[s].id = HeadOp("live").id
             /\ Text(outbox[s]) = Text(HeadOp("live")) \/ Spoilt(outbox[s].id)
  <2>1. s \in Held(reqs["live"].batch) /\ reqs["live"] # None /\ reqs["live"].batch = batch
        /\ pc = "sent"
    BY <1>0, <1>5, HeadTypes DEF Working, RequestsOK, Lanes
  <2> QED BY <1>5, <2>1 DEF KeptInv, RequestCopies, BatchCopies, Waiting, HeadOp, Lanes
<1>6. ASSUME NEW k \in Lanes, SkipDependent(k) \/ RefuseOp(k)
      PROVE  Safe
  <2>1. /\ Answer("dependencyFailed", None, NoFields, "ok").status \notin Succeeded
        /\ \A code : Refused(code).status \notin Succeeded
    BY DEF Refused, Answer, Succeeded
  <2>2. Working(k) /\ \E answer : Finish(k, answer) /\ answer.status \notin Succeeded
    <3>1. CASE SkipDependent(k)
      BY <2>1, <3>1 DEF SkipDependent
    <3>2. CASE RefuseOp(k)
      BY <2>1, <3>2 DEF RefuseOp, Reads
    <3> QED BY <1>6, <3>1, <3>2
  <2> HIDE DEF Safe
  <2> QED BY <1>3, <2>2
<1>7. ASSUME NEW k \in Lanes, ReadForCreate(k)
      PROVE  Safe
  <2>0. Working(k) /\ HeadOp(k).op = "create" /\ ghost' = ghost
        /\ HeadOp(k) \in Entries /\ HeadOp(k).id \in Ids
    BY <1>0, <1>7, HeadTypes DEF ReadForCreate, Reads, Entries
  <2>1. CASE ~NeverThere(HeadOp(k).id) /\ \E answer : Finish(k, answer)
    <3>1. PICK answer : Finish(k, answer)
      BY <2>1
    <3>2. Due(k, answer)
      <4> SUFFICES ASSUME NEW s \in Held(outbox), k = "live", s = HeadSeq(k)
                   PROVE  ~Owes(outbox[s])' \/ Spoilt(outbox[s].id)
        OBVIOUS
      <4>1. IsCreate(outbox[s]) /\ ~NeverThere(outbox[s].id)
        BY <1>5, <2>0, <2>1 DEF IsCreate
      <4>2. ~Owes(outbox[s]) \/ Spoilt(outbox[s].id)
        BY <4>1 DEF KeptInv, AccountOK, CreateOwed
      <4> QED BY <1>1, <2>0, <4>2 DEF Owes, Text
    <3> HIDE DEF Safe, Due
    <3> QED BY <1>2, <2>0, <3>1, <3>2
  <2>2. CASE \E answer : Finish(k, answer) /\ answer.status \notin Succeeded
    <3> HIDE DEF Safe
    <3> QED BY <1>3, <2>0, <2>2
  <2>3. CASE \E row : reqs' = [reqs EXCEPT ![k].read = row]
    <3> HIDE DEF Safe
    <3> QED BY <1>4, <2>0, <2>3
  <2>4. Refused("final").status \notin Succeeded
    BY DEF Refused, Answer, Succeeded
  <2> HIDE DEF Safe
  <2> QED BY <1>7, <2>1, <2>2, <2>3, <2>4 DEF ReadForCreate, NeverThere, AlreadyTombstoned
<1>8. ASSUME NEW k \in Lanes, ReadForUpdate(k)
      PROVE  Safe
  <2>1. /\ Working(k)
        /\ \/ \E answer : Finish(k, answer) /\ answer.status \notin Succeeded
           \/ \E row : reqs' = [reqs EXCEPT ![k].read = row]
    BY <1>8 DEF ReadForUpdate, Reads, Refused, Answer, Succeeded
  <2> HIDE DEF Safe
  <2> QED BY <1>3, <1>4, <2>1
<1>9. ASSUME NEW k \in Lanes, WriteCreate(k) \/ WriteUpdate(k)
      PROVE  Safe
  <2>1. Working(k) /\ ghost'.owed = Landed(HeadOp(k)) /\ \E answer : Finish(k, answer)
    BY <1>0, <1>9 DEF WriteCreate, WriteUpdate, Writes, TypeOK, Ghosts
  <2>2. PICK answer : Finish(k, answer)
    BY <2>1
  <2>3. Due(k, answer)
    <3> SUFFICES ASSUME NEW s \in Held(outbox), k = "live", s = HeadSeq(k)
                 PROVE  ~Owes(outbox[s])' \/ Spoilt(outbox[s].id)
      OBVIOUS
    <3>1. /\ outbox[s].id = HeadOp(k).id
          /\ Text(outbox[s]) = Text(HeadOp(k)) \/ Spoilt(outbox[s].id)
      BY <1>5, <2>1
    <3> QED BY <1>0, <1>1, <2>1, <3>1, LandedOwes
  <2> HIDE DEF Safe, Due
  <2> QED BY <1>2, <2>1, <2>2, <2>3
<1>10. ASSUME NEW k \in Lanes, DeleteRow(k)
       PROVE  Safe
  <2>1. /\ Working(k) /\ HeadOp(k).op = "delete" /\ ghost' = ghost
        /\ \E answer : Finish(k, answer)
    BY <1>10 DEF DeleteRow, Reads
  <2>2. PICK answer : Finish(k, answer)
    BY <2>1
  <2>3. Due(k, answer)
    <3> SUFFICES ASSUME NEW s \in Held(outbox), k = "live", s = HeadSeq(k)
                 PROVE  ~Owes(outbox[s])'
      OBVIOUS
    <3>1. outbox[s].op = "delete" /\ outbox[s].id \in Ids
      BY <1>0, <1>5, <2>1 DEF Entries
    <3>2. Text(outbox[s]) = Unset
      BY <3>1 DEF KeptInv, PastOK, PastOps, Ledgers
    <3>3. ghost.owed[outbox[s].id] \in Values
      BY <1>0, <3>1, KeptTypes
    <3> QED BY <1>1, <2>1, <3>2, <3>3, UnsetAssumption DEF Owes, Text
  <2> HIDE DEF Safe, Due
  <2> QED BY <1>2, <2>1, <2>2, <2>3
<1> HIDE DEF Safe
<1>11. Safe
  BY <1>4, <1>6, <1>7, <1>8, <1>9, <1>10 DEF ServerStep
<1> QED BY <1>11 DEF Safe

(* The same of every step that makes no op, and of the results at hand.    *)
LEMMA TakenKept ==
  ASSUME KeptInv, NoNewOp
  PROVE  TakenOK'
<1>0. TypeInv /\ Slide
  BY KeptTypes, NoNewOpSlides DEF KeptInv
<1>1. Taken(answers)'
  <2>1. \A s \in Held(answers)' \cap Held(outbox)' :
          answers'[s].status \in Succeeded /\ Owes(outbox[s])' => Spoilt(outbox[s].id)'
    BY <1>0, AnswersCome, SlideTaken
  <2> QED BY <2>1 DEF Taken
<1>2. reqs'["live"] # None => Taken(reqs["live"].answers)'
  <2>1. CASE ServerStep
    BY <2>1, ServerTaken
  <2>2. CASE ~ServerStep
    <3>1. reqs'["live"] # None =>
            \/ reqs["live"] # None /\ reqs'["live"].answers = reqs["live"].answers
            \/ reqs'["live"].answers = NoOps
      BY <1>0, <2>2, OtherMoves DEF Lanes
    <3> QED BY <1>0, <3>1, NothingTaken
  <2> QED BY <2>1, <2>2
<1> QED BY <1>1, <1>2 DEF TakenOK

(* An op goes when it was taken, when it is a delete, or when the user     *)
(* gives it up.                                                            *)
LEMMA EditsKept ==
  ASSUME KeptInv, NoNewOp
  PROVE  EditKept'
<1> USE DEF phoneVars, cycleVars
<1>0. /\ TypeInv /\ TypeOK /\ CycleOK /\ Slide
      /\ \A s \in Held(outbox) : s \in Seqs /\ outbox[s] \in Entries /\ outbox[s].id \in Ids
      /\ ghost.owed \in [Ids -> Values] /\ ghost \in Ghosts
  BY KeptTypes, NoNewOpSlides DEF KeptInv, TypeInv
<1>1. SUFFICES ASSUME NEW s \in Held(outbox), s \notin Held(outbox)', Owes(outbox[s])
               PROVE  Spoilt(outbox[s].id) \/ ghost'.owed[outbox[s].id] = 0
  BY <1>0, SlideKept
<1>2. outbox[s] # None /\ outbox'[s] = None /\ s \in Seqs
  BY <1>1 DEF Held
<1>3. CASE ApplySuccess
  <2>1. s = Cur
    BY <1>0, <1>2, <1>3 DEF ApplySuccess, TypeOK, Outboxes
  <2>2. s \in Held(answers) /\ answers[s].status \in Succeeded
    BY <1>0, <1>3, <2>1, CurTypes DEF ApplySuccess, Result
  <2> QED BY <1>1, <2>2 DEF KeptInv, TakenOK, Taken
<1>4. CASE ApplyPage
  <2>1. outbox[s].op = "delete" \/ [outbox[s] EXCEPT !.state = "deadRemote"] = None
    BY <1>2, <1>4 DEF ApplyPage, Orphaned
  <2>2. [outbox[s] EXCEPT !.state = "deadRemote"] \in Entries
    BY <1>0 DEF Entries, OpStates
  <2>3. Text(outbox[s]) = Unset
    BY <2>1, <2>2, NoneAssumption DEF KeptInv, PastOK, PastOps, Ledgers
  <2> QED BY <1>0, <1>1, <2>3, UnsetAssumption DEF Owes
<1>5. ASSUME NEW r \in Seqs, Discard(r)
      PROVE  ghost'.owed[outbox[s].id] = 0
  <2>1. /\ ghost'.owed = [ghost.owed EXCEPT ![outbox[r].id] =
              IF outbox[r].op = "create" \/ outbox[r].fields["text"] = @ THEN 0 ELSE @]
        /\ outbox[r] # None
    BY <1>0, <1>5 DEF Discard, Ghosts
  <2>2. CASE outbox[r].op = "create" /\ outbox[s].id = outbox[r].id
    BY <1>0, <2>1, <2>2
  <2>3. CASE s = r
    BY <1>0, <1>1, <2>1, <2>3 DEF Owes, Text
  <2>4. s = r \/ (outbox[r].op = "create" /\ outbox[s].id = outbox[r].id)
    BY <1>0, <1>2, <1>5 DEF Discard, TypeOK, Outboxes
  <2> QED BY <2>2, <2>3, <2>4
<1>6. CASE ApplyRefusal
  <2>1. s = Cur
    BY <1>0, <1>2, <1>6 DEF ApplyRefusal, TypeOK, Outboxes
  <2>2. Result \in Answers
    BY <1>0, <1>6, CurTypes DEF ApplyRefusal
  <2>3. PICK dayOver \in BOOLEAN :
          outbox'[s] = IF Result.status = "dependencyFailed"
                       THEN [outbox[s] EXCEPT !.state = "queued"]
                       ELSE Park(outbox[s], Result.code, dayOver)
    BY <1>0, <1>2, <1>6, <2>1 DEF ApplyRefusal, TypeOK, Outboxes
  <2>4. outbox'[s] \in Entries
    <3>1. [outbox[s] EXCEPT !.state = "queued"] \in Entries
      BY <1>0 DEF Entries, OpStates
    <3>2. Park(outbox[s], Result.code, dayOver) \in Entries
      BY <1>0, <2>2, ParkType DEF Answers
    <3> QED BY <2>3, <3>1, <3>2
  <2> QED BY <1>2, <2>4, NoneAssumption
<1>7. CASE StartCycle \/ Send \/ RequestFails
  <2>1. \E e \in Entries : outbox'[s] \in {e, outbox[s]}
    <3>1. \A st \in OpStates, b \in BOOLEAN :
            /\ [outbox[s] EXCEPT !.state = st] \in Entries
            /\ [outbox[s] EXCEPT !.state = st, !.sent = b] \in Entries
      BY <1>0 DEF Entries
    <3>2. "queued" \in OpStates /\ "inflight" \in OpStates
      BY DEF OpStates
    <3> QED BY <1>2, <1>7, <3>1, <3>2 DEF StartCycle, Send, RequestFails
  <2> QED BY <1>2, <2>1, NoneAssumption
<1>8. ASSUME NEW r \in Seqs, Retry(r)
      PROVE  outbox'[s] # None
  <2>1. outbox'[s] = IF s = r THEN [outbox[s] EXCEPT !.state = "queued", !.error = "none",
                                                     !.failures = 0]
                     ELSE outbox[s]
    BY <1>0, <1>8 DEF Retry, TypeOK, Outboxes
  <2>2. [outbox[s] EXCEPT !.state = "queued", !.error = "none", !.failures = 0] \in Entries
    BY <1>0 DEF Entries, OpStates, Errors
  <2> QED BY <1>2, <2>1, <2>2, NoneAssumption
<1>9. CASE UNCHANGED outbox
  BY <1>2, <1>9
<1> QED BY <1>2, <1>3, <1>4, <1>5, <1>6, <1>7, <1>8, <1>9
        DEF NoNewOp, FlushStep, PullStep, ServerStep, WorldStep, vars, LoadBatch, Reply,
            BatchDone, Shelve, Reread, ConfirmRow, FetchPage, PullFails, LoadForRebase,
            ApplyPageFails, SkipDependent, RefuseOp, ReadForCreate, ReadForUpdate,
            WriteCreate, WriteUpdate, WriteAborts, DeleteRow, LateEnds, Crash, ForeignEdit,
            ForeignDelete, Reset

-----------------------------------------------------------------------------
(* The steps that make an op                                               *)

(* Op e is appended or folded into a queued op of its row.  What goes with *)
(* it is owed no more; a text it carries is new to its row, and owed.      *)
AddsOp(e) ==
  /\ \A s \in Held(outbox)' :
       \/ s \in Held(outbox) /\ outbox'[s] = outbox[s]
       \/ s \in MergeTargets(outbox, e) /\ outbox'[s] = Merged(outbox[s], e)
       \/ s = nextSeq /\ outbox'[s] = e /\ s < nextSeq'
  /\ nextSeq' \in Nat /\ nextSeq' >= nextSeq
  /\ UNCHANGED <<pc, batch, answers, snap, page, reqs, srv, tomb>>

NewText(e) == Text(e) # Unset /\ (e.id \notin ghost.minted \/ Text(e) \notin Past)

OwesOp(e) ==
  /\ ghost'.minted = ghost.minted \cup {e.id}
  /\ ghost.marks \cup FoldsOf(e) \subseteq ghost'.marks
  /\ \A i \in Ids : \/ ghost'.owed[i] \in {ghost.owed[i], 0}
                    \/ i = e.id /\ ghost'.owed[i] = Text(e) /\ NewText(e)
  /\ Text(e) # Unset => ghost'.owed[e.id] = Text(e)
  /\ \A s \in Held(outbox) : s \in Held(outbox)' \/ ghost'.owed[outbox[s].id] = 0
  /\ Text(e) # Unset => \E s \in OfRow(outbox, e.id)' : Text(outbox'[s]) = Text(e)

Adds(e) ==
  /\ e \in Entries
  /\ AddsOp(e) /\ OwesOp(e)
  /\ IsCreate(e) => e.id \notin ghost.minted
  /\ stamp' \in {stamp, stamp + 1}
  /\ Text(e) \in Past' \cup {Unset} /\ e.base["text"] \in Past' \cup {Unset}
  /\ e.op = "delete" => Text(e) = Unset

(* Where what the op holds comes from: the link from the screen or from an *)
(* op, the text of an update from the user, and what it was made over from *)
(* the row on the screen; a create may also copy what is there.            *)
LinkOf(e) == {e.fields["ref"]} \cap Places

TakenFrom(e) ==
  /\ LinkOf(e) \subseteq Live(mirror) \cup UNION {LinkOf(outbox[s]) : s \in Held(outbox)}
  /\ \/ Text(e) = Unset
     \/ Text(e) = stamp + 1 /\ stamp' = stamp + 1
     \/ /\ IsCreate(e)
        /\ Text(e) \in Texts(mirror) \cup {Text(outbox[s]) : s \in Held(outbox)}
  /\ e.op = "update" => /\ mirror[e.id] # None
                        /\ e.baseAt = mirror[e.id].at
                        /\ e.base["text"] \in {Unset, mirror[e.id].vals["text"]}
  /\ e.op # "update" => e.base["text"] = Unset

(* What a fold leaves of the op it changes.                                *)
LEMMA MergedOp ==
  ASSUME NEW old \in Entries, NEW e \in Entries
  PROVE  /\ Merged(old, e).op = old.op /\ Merged(old, e).id = old.id
         /\ Merged(old, e).sent = old.sent /\ Merged(old, e).baseAt = old.baseAt
         /\ Text(Merged(old, e)) = IF Text(e) # Unset THEN Text(e) ELSE Text(old)
         /\ Merged(old, e).base["text"] \in {old.base["text"], e.base["text"]}
BY DEF Merged, Overlay, Text, Entries, Fields

(* An op is folded into a waiting op of its row, and that is noted where   *)
(* the account may know the earlier form, or the batch has it.             *)
LEMMA FoldNoted ==
  ASSUME ParkedInv, NEW e \in Entries, FoldsOf(e) \subseteq ghost'.marks,
         NEW s \in MergeTargets(outbox, e)
  PROVE  /\ s \in Held(outbox) /\ outbox[s].id = e.id /\ outbox[s].state = "queued"
         /\ outbox[s].op # "delete" /\ e.op = "update"
         /\ IsCreate(outbox[s]) /\ outbox[s].sent => Spoilt(e.id)'
         /\ pc = "loaded" /\ batch[s] # None => Spoilt(e.id)'
<1>1. /\ s \in Held(outbox) /\ outbox[s].id = e.id /\ outbox[s].state = "queued"
      /\ outbox[s].op # "delete" /\ e.op = "update"
  BY DEF MergeTargets, QueuedCreates, SameRowQueued, InState, OfRow
<1>2. ASSUME IsCreate(outbox[s]), outbox[s].sent
      PROVE  Spoilt(e.id)'
  <2>1. <<e.id, "sentCreate">> \in FoldsOf(e)
    BY <1>2 DEF FoldsOf, Folds, IsCreate
  <2> QED BY <2>1 DEF Spoilt
<1>3. ASSUME pc = "loaded", batch[s] # None
      PROVE  Spoilt(e.id)'
  <2>1. <<e.id, "loaded">> \in FoldsOf(e)
    BY <1>3 DEF FoldsOf, Folds
  <2> QED BY <2>1 DEF Spoilt
<1> QED BY <1>1, <1>2, <1>3

(* Ops in a request or under answer are inflight, and never folded into.   *)
LEMMA NotFolded ==
  ASSUME ParkedInv, NEW e \in Entries, NEW s \in MergeTargets(outbox, e)
  PROVE  /\ s \notin Held(answers)
         /\ pc = "sent" => s \notin Held(batch)
<1>1. s \in Held(outbox) /\ outbox[s].state = "queued"
  BY DEF MergeTargets, QueuedCreates, SameRowQueued, InState, OfRow
<1> QED BY <1>1 DEF ParkedInv, BatchState

(* What an untouched op is owed, it was owed before.                       *)
LEMMA StillOwed ==
  ASSUME KeptInv, NEW e, Adds(e), NEW s \in Held(outbox), outbox'[s] = outbox[s],
         Owes(outbox[s])'
  PROVE  Owes(outbox[s])
<1>1. outbox[s].id \in Ids /\ outbox[s].id \in ghost.minted
      /\ Text(outbox[s]) \in Past \cup {Unset}
  BY KeptTypes DEF KeptInv, LedgersOK, PastOK, PastOps, Ledgers
<1>2. ghost'.owed[outbox[s].id] \in {ghost.owed[outbox[s].id], 0}
  BY <1>1 DEF Adds, OwesOp, NewText, Owes, Text
<1> QED BY <1>2 DEF Owes, Text

(* An op that is made leaves true what is said of the outbox, its copies   *)
(* and the account.                                                        *)
LEMMA AddsKeep ==
  ASSUME KeptInv, NEW e, Adds(e)
  PROVE  /\ LedgersOK' /\ OneCreate'
         /\ \A ob \in (Ledgers \cup {snap})' : PastOps(ob)'
         /\ RequestCopies' /\ BatchCopies' /\ AccountOK' /\ TakenOK' /\ EditKept'
<1>0. /\ ParkedInv /\ TypeInv /\ TypeOK /\ CycleOK /\ RequestsOK
      /\ e \in Entries /\ e.id \in Ids /\ nextSeq \in Nat /\ stamp \in Nat
      /\ \A s \in Held(outbox) : s \in Seqs /\ outbox[s] \in Entries /\ outbox[s].id \in Ids
  BY KeptTypes DEF KeptInv, TypeInv, Adds, Entries
<1>1. /\ outbox \in Ledgers /\ batch \in Ledgers
      /\ \A k \in Lanes : reqs[k] # None => reqs[k].batch \in Ledgers
  BY DEF Ledgers
<1>2. /\ FoldsOf(e) \subseteq ghost'.marks /\ ghost.minted \subseteq ghost'.minted
      /\ nextSeq' \in Nat /\ nextSeq' >= nextSeq
      /\ UNCHANGED <<pc, batch, answers, snap, reqs, srv, tomb>>
      /\ \A i : Spoilt(i) => Spoilt(i)'
  BY DEF Adds, AddsOp, OwesOp, Spoilt
<1>3. Ledgers' \subseteq Ledgers \cup {outbox'}
  BY <1>2 DEF Ledgers
(* The three kinds of op the outbox holds then.                            *)
<1> DEFINE Kept(s)   == s \in Held(outbox) /\ outbox'[s] = outbox[s]
           Changed(s) == /\ s \in MergeTargets(outbox, e) /\ s \in Held(outbox)
                         /\ outbox'[s].op = outbox[s].op /\ outbox'[s].id = outbox[s].id
                         /\ outbox[s].id = e.id /\ e.op = "update"
                         /\ outbox'[s].sent = outbox[s].sent /\ outbox[s].op # "delete"
                         /\ Text(outbox'[s]) =
                              IF Text(e) # Unset THEN Text(e) ELSE Text(outbox[s])
                         /\ outbox'[s].base["text"] \in {outbox[s].base["text"], e.base["text"]}
                         /\ IsCreate(outbox[s]) /\ outbox[s].sent => Spoilt(e.id)'
                         /\ pc = "loaded" /\ batch[s] # None => Spoilt(e.id)'
           New(s)    == s = nextSeq /\ outbox'[s] = e /\ s < nextSeq'
<1>4. ASSUME NEW s \in Held(outbox)'
      PROVE  Kept(s) \/ Changed(s) \/ New(s)
  <2>1. \/ Kept(s) \/ New(s)
        \/ s \in MergeTargets(outbox, e) /\ outbox'[s] = Merged(outbox[s], e)
    BY <1>4 DEF Adds, AddsOp
  <2>2. ASSUME s \in MergeTargets(outbox, e), outbox'[s] = Merged(outbox[s], e)
        PROVE  Changed(s)
    BY <1>0, <1>2, <2>2, FoldNoted, MergedOp
  <2> QED BY <2>1, <2>2
<1>5. LedgersOK'
  <2> SUFFICES ASSUME NEW ob \in Ledgers', NEW s \in Held(ob)
               PROVE  s < nextSeq' /\ ob[s].id \in ghost'.minted
    BY DEF LedgersOK
  <2>1. CASE ob \in Ledgers
    <3>1. s < nextSeq /\ ob[s].id \in ghost.minted /\ s \in Nat
      BY <2>1 DEF KeptInv, LedgersOK, Held, Seqs
    <3> QED BY <1>0, <1>2, <3>1
  <2>2. CASE ob = outbox'
    <3>1. s \in Held(outbox)'
      BY <2>2 DEF Held
    <3>2. CASE New(s)
      BY <2>2, <3>2 DEF Adds, OwesOp
    <3>3. CASE s \in Held(outbox) /\ outbox'[s].id = outbox[s].id
      <4>1. s < nextSeq /\ outbox[s].id \in ghost.minted /\ s \in Nat
        BY <1>0, <1>1, <3>3 DEF KeptInv, LedgersOK, Seqs
      <4> QED BY <1>0, <1>2, <2>2, <3>3, <4>1
    <3> QED BY <1>4, <3>1, <3>2, <3>3
  <2> QED BY <1>3, <2>1, <2>2
<1>6. OneCreate'
  (* A create in a ledger is an older one of its row, at its place, or new. *)
  <2>1. ASSUME NEW ob \in Ledgers', NEW s \in Held(ob), IsCreate(ob[s])
        PROVE  \/ \E b \in Ledgers : s \in Held(b) /\ IsCreate(b[s]) /\ b[s].id = ob[s].id
               \/ s = nextSeq /\ ob[s] = e
    <3>1. CASE ob \in Ledgers
      BY <2>1, <3>1
    <3>2. CASE ob = outbox'
      <4>1. s \in Held(outbox)'
        BY <3>2 DEF Held
      <4> QED BY <1>1, <1>4, <2>1, <3>2, <4>1 DEF IsCreate
    <3> QED BY <1>3, <3>1, <3>2
  <2>2. ASSUME NEW b \in Ledgers, NEW r \in Held(b), IsCreate(e)
        PROVE  b[r].id # e.id
    BY <2>2 DEF KeptInv, LedgersOK, Adds
  <2> SUFFICES ASSUME NEW a \in Ledgers', NEW b \in Ledgers', NEW r \in Held(a), NEW s \in Held(b),
                      IsCreate(a[r]), IsCreate(b[s]), a[r].id = b[s].id
               PROVE  r = s
    BY DEF OneCreate
  <2>3. \/ \E c \in Ledgers : r \in Held(c) /\ IsCreate(c[r]) /\ c[r].id = a[r].id
        \/ r = nextSeq /\ a[r] = e
    BY <2>1
  <2>4. \/ \E c \in Ledgers : s \in Held(c) /\ IsCreate(c[s]) /\ c[s].id = b[s].id
        \/ s = nextSeq /\ b[s] = e
    BY <2>1
  <2> QED BY <2>2, <2>3, <2>4 DEF KeptInv, OneCreate
<1>7. ASSUME NEW ob \in (Ledgers \cup {snap})'
      PROVE  PastOps(ob)'
  <2>1. Past \subseteq Past'
    BY <1>0 DEF Adds, Past
  <2>2. CASE ob \in Ledgers \cup {snap}
    BY <2>1, <2>2 DEF KeptInv, PastOK, PastOps, Text
  <2>3. CASE ob = outbox'
    <3> SUFFICES ASSUME NEW s \in Held(outbox)'
                 PROVE  /\ Text(outbox'[s]) \in Past' \cup {Unset}
                        /\ outbox'[s].base["text"] \in Past' \cup {Unset}
                        /\ outbox'[s].op = "delete" => Text(outbox'[s]) = Unset
      BY <2>3 DEF PastOps, Held, Text
    <3>1. CASE New(s)
      BY <3>1 DEF Adds
    <3>2. ASSUME s \in Held(outbox)
          PROVE  /\ Text(outbox[s]) \in Past' \cup {Unset}
                 /\ outbox[s].base["text"] \in Past' \cup {Unset}
                 /\ outbox[s].op = "delete" => Text(outbox[s]) = Unset
      BY <1>1, <2>1, <3>2 DEF KeptInv, PastOK, PastOps
    <3>3. CASE Kept(s)
      BY <3>2, <3>3
    <3>4. CASE Changed(s)
      BY <3>2, <3>4 DEF Adds
    <3> QED BY <1>4, <3>1, <3>3, <3>4
  <2> QED BY <1>2, <1>3, <2>2, <2>3
<1>8. RequestCopies'
  <2> SUFFICES ASSUME NEW k \in Lanes, reqs[k] # None,
                      NEW s \in Held(outbox)', s \in Held(reqs[k].batch)
               PROVE  /\ outbox'[s].sent
                      /\ outbox'[s].op = reqs[k].batch[s].op
                      /\ outbox'[s].id = reqs[k].batch[s].id
                      /\ IsCreate(outbox'[s]) => \/ Text(outbox'[s]) = Text(reqs[k].batch[s])
                                                 \/ Spoilt(outbox[s].id)'
    BY <1>2 DEF RequestCopies, Held, IsCreate, Text
  <2>1. ~New(s)
    BY <1>0, <1>1 DEF KeptInv, LedgersOK, Held, Seqs
  <2>2. ASSUME s \in Held(outbox)
        PROVE  /\ outbox[s].sent
               /\ outbox[s].op = reqs[k].batch[s].op /\ outbox[s].id = reqs[k].batch[s].id
               /\ IsCreate(outbox[s]) => \/ Text(outbox[s]) = Text(reqs[k].batch[s])
                                         \/ Spoilt(outbox[s].id)
    BY <2>2 DEF KeptInv, RequestCopies
  <2>3. CASE Kept(s)
    BY <1>2, <2>2, <2>3 DEF Spoilt
  <2>4. CASE Changed(s)
    BY <2>2, <2>4 DEF Spoilt, IsCreate
  <2> QED BY <1>4, <2>1, <2>3, <2>4
<1>9. BatchCopies'
  <2> SUFFICES ASSUME NEW s \in Held(outbox)', s \in Held(batch), Waiting(s)
               PROVE  Text(outbox'[s]) = Text(batch[s]) \/ Spoilt(outbox[s].id)'
    BY <1>2 DEF BatchCopies, Waiting, Text, Held
  <2>1. ~New(s)
    BY <1>0, <1>1 DEF KeptInv, LedgersOK, Held, Seqs
  <2>2. CASE Kept(s)
    BY <1>2, <2>2 DEF KeptInv, BatchCopies, Spoilt
  <2>3. CASE Changed(s)
    <3>1. pc = "loaded"
      BY <1>0, <2>3, NotFolded DEF Waiting, Held
    <3> QED BY <2>3, <3>1 DEF Held, Spoilt
  <2> QED BY <1>4, <2>1, <2>2, <2>3
<1>10. AccountOK'
  <2>1. UnmintedOK'
    BY <1>2 DEF KeptInv, AccountOK, UnmintedOK, NeverThere
  <2>2. IsCreate(e) => NeverThere(e.id)
    BY <1>0 DEF Adds, KeptInv, AccountOK, UnmintedOK
  <2>3. Unsent'
    <3> SUFFICES ASSUME NEW s \in Held(outbox)', IsCreate(outbox'[s]), ~outbox'[s].sent
                 PROVE  NeverThere(outbox[s].id)'
      BY DEF Unsent, IsCreate
    <3>1. CASE New(s)
      BY <1>2, <2>2, <3>1 DEF NeverThere
    <3>2. CASE Kept(s) \/ Changed(s)
      <4>1. NeverThere(outbox[s].id) /\ outbox'[s].id = outbox[s].id
        BY <3>2 DEF KeptInv, AccountOK, Unsent, IsCreate
      <4> QED BY <1>2, <4>1 DEF NeverThere
    <3> QED BY <1>4, <3>1, <3>2
  <2>4. CreateOwed'
    <3> SUFFICES ASSUME NEW s \in Held(outbox)', IsCreate(outbox'[s]), Owes(outbox[s])'
                 PROVE  NeverThere(outbox[s].id)' \/ Spoilt(outbox[s].id)'
      BY DEF CreateOwed, IsCreate
    <3>1. CASE New(s)
      BY <1>2, <2>2, <3>1 DEF NeverThere
    <3>2. CASE Kept(s)
      <4>1. NeverThere(outbox[s].id) \/ Spoilt(outbox[s].id)
        BY <3>2, StillOwed DEF KeptInv, AccountOK, CreateOwed
      <4> QED BY <1>2, <3>2, <4>1 DEF NeverThere, Spoilt
    <3>3. CASE Changed(s) /\ outbox[s].sent
      BY <3>3 DEF IsCreate, Spoilt
    <3>4. CASE Changed(s) /\ ~outbox[s].sent
      <4>1. NeverThere(outbox[s].id) /\ outbox'[s].id = outbox[s].id
        BY <3>4 DEF KeptInv, AccountOK, Unsent, IsCreate
      <4> QED BY <1>2, <4>1 DEF NeverThere
    <3> QED BY <1>4, <3>1, <3>2, <3>3, <3>4
  <2> QED BY <2>1, <2>3, <2>4 DEF AccountOK
<1>11. ASSUME NEW s \in Held(outbox)', s \in Held(batch),
              s \in Held(answers) \/ pc = "sent", Owes(outbox[s])'
       PROVE  s \in Held(outbox) /\ Owes(outbox[s]) /\ outbox'[s] = outbox[s]
  <2>1. ~New(s)
    BY <1>0, <1>1, <1>11 DEF KeptInv, LedgersOK, Held, Seqs
  <2>2. ~Changed(s)
    BY <1>0, <1>11, NotFolded
  <2>3. Kept(s)
    BY <1>4, <1>11, <2>1, <2>2
  <2> QED BY <1>11, <2>3, StillOwed
<1>12. TakenOK'
  <2>1. ASSUME NEW s \in Held(answers), s \in Held(outbox)', answers[s].status \in Succeeded,
               Owes(outbox[s])'
        PROVE  Spoilt(outbox[s].id)'
    <3>1. s \in Held(batch)
      BY <1>0, <2>1 DEF CycleOK
    <3>2. s \in Held(outbox) /\ Owes(outbox[s]) /\ outbox'[s] = outbox[s]
      BY <1>11, <2>1, <3>1
    <3>3. Spoilt(outbox[s].id)
      BY <2>1, <3>2 DEF KeptInv, TakenOK, Taken
    <3> QED BY <1>2, <3>2, <3>3 DEF Spoilt
  <2>2. ASSUME reqs["live"] # None, NEW s \in Held(reqs["live"].answers), s \in Held(outbox)',
               reqs["live"].answers[s].status \in Succeeded, Owes(outbox[s])'
        PROVE  Spoilt(outbox[s].id)'
    <3>1. s \in Held(batch) /\ pc = "sent"
      BY <1>0, <2>2 DEF RequestsOK, Lanes
    <3>2. s \in Held(outbox) /\ Owes(outbox[s]) /\ outbox'[s] = outbox[s]
      BY <1>11, <2>2, <3>1
    <3>3. Spoilt(outbox[s].id)
      BY <2>2, <3>2 DEF KeptInv, TakenOK, Taken
    <3> QED BY <1>2, <3>2, <3>3 DEF Spoilt
  <2>3. Taken(answers)'
    BY <1>2, <2>1 DEF Taken, Held
  <2>4. reqs'["live"] # None => Taken(reqs["live"].answers)'
    BY <1>2, <2>2 DEF Taken, Held
  <2> QED BY <2>3, <2>4 DEF TakenOK
<1>13. EditKept'
  <2> SUFFICES ASSUME NEW i \in Ids, ghost'.owed[i] # 0, ~Spoilt(i)'
               PROVE  StillPending(i)'
    BY DEF EditKept, Spoilt
  <2>1. CASE i = e.id /\ Text(e) # Unset
    <3>1. PICK s \in OfRow(outbox, e.id)' : Text(outbox'[s]) = Text(e)
      BY <2>1 DEF Adds, OwesOp
    <3>2. ghost'.owed[i] = Text(e)
      BY <2>1 DEF Adds, OwesOp
    <3> QED BY <2>1, <3>1, <3>2 DEF StillPending, Text
  <2>2. CASE ~(i = e.id /\ Text(e) # Unset)
    <3>1. ghost'.owed[i] = ghost.owed[i] /\ ~Spoilt(i)
      BY <1>2, <2>2 DEF Adds, OwesOp, NewText
    <3>2. PICK s \in OfRow(outbox, i) : Text(outbox[s]) = ghost.owed[i]
      BY <3>1 DEF KeptInv, EditKept, StillPending, Spoilt, Text
    <3>3. s \in Held(outbox) /\ outbox[s].id = i
      BY <3>2 DEF OfRow
    <3>4. s \in Held(outbox)'
      BY <3>1, <3>3 DEF Adds, OwesOp
    <3>5. ~New(s)
      BY <1>0, <1>1, <3>3 DEF KeptInv, LedgersOK, Seqs
    <3>6. outbox'[s].id = i /\ Text(outbox'[s]) = Text(outbox[s])
      BY <1>4, <2>2, <3>3, <3>4, <3>5
    <3> QED BY <3>1, <3>2, <3>4, <3>6 DEF StillPending, OfRow, Text
  <2> QED BY <2>1, <2>2
<1> QED BY <1>5, <1>6, <1>7, <1>8, <1>9, <1>10, <1>12, <1>13

(* An enqueue makes an op.                                                 *)
LEMMA EnqueueAdds ==
  ASSUME KeptInv, NEW e \in Entries, NEW owed \in Values, NEW gone,
         Enqueue(e), Remember(e, owed, gone),
         UNCHANGED <<pc, batch, answers, snap, page, reqs, srv, tomb>>,
         stamp' \in {stamp, stamp + 1},
         IF Text(e) # Unset THEN owed = Text(e) /\ NewText(e)
                            ELSE owed \in {ghost.owed[e.id], 0},
         e.op = "delete" => Text(e) = Unset /\ owed = 0,
         IsCreate(e) => e.id \notin ghost.minted,
         Text(e) \in Past' \cup {Unset}, e.base["text"] \in Past' \cup {Unset}
  PROVE  Adds(e)
<1>0. /\ ParkedInv /\ TypeOK /\ e.id \in Ids /\ e.op \in OpKinds
      /\ nextSeq \in Nat /\ nextSeq \in 1 .. MaxSeq + 1 /\ MaxSeq \in Nat
      /\ ghost \in Ghosts /\ ghost.owed \in [Ids -> Values]
      /\ \A s \in Held(outbox) : s \in Seqs /\ outbox[s] \in Entries /\ outbox[s].id \in Ids
  BY KeptTypes, PlanAssumption DEF KeptInv, Entries, TypeOK
<1>1. /\ outbox' = AfterEnqueue(outbox, nextSeq, e)
      /\ nextSeq' = IF Appends(outbox, e) THEN nextSeq + 1 ELSE nextSeq
      /\ Appends(outbox, e) => nextSeq <= MaxSeq
  BY DEF Enqueue
<1>2. /\ ghost'.minted = ghost.minted \cup {e.id}
      /\ ghost.marks \cup FoldsOf(e) \subseteq ghost'.marks
      /\ ghost'.owed = [ghost.owed EXCEPT ![e.id] = owed]
  BY <1>0 DEF Remember, Ghosts
<1>3. \A s \in MergeTargets(outbox, e) :
        /\ s \in Held(outbox) /\ outbox[s].id = e.id /\ e.op = "update"
        /\ Merged(outbox[s], e) \in Entries /\ Merged(outbox[s], e).id = e.id
        /\ Text(e) # Unset => Text(Merged(outbox[s], e)) = Text(e)
        /\ s \notin Dropped(outbox, e)
  <2> SUFFICES ASSUME NEW s \in MergeTargets(outbox, e)
               PROVE  /\ s \in Held(outbox) /\ outbox[s].id = e.id /\ e.op = "update"
                      /\ Merged(outbox[s], e) \in Entries /\ Merged(outbox[s], e).id = e.id
                      /\ Text(e) # Unset => Text(Merged(outbox[s], e)) = Text(e)
                      /\ s \notin Dropped(outbox, e)
    OBVIOUS
  <2>1. s \in Held(outbox) /\ outbox[s].id = e.id /\ e.op = "update"
    BY DEF MergeTargets, QueuedCreates, SameRowQueued, InState, OfRow
  <2>2. Merged(outbox[s], e) \in Entries
    BY <1>0, <2>1, OverlayTypes DEF Merged, Entries
  <2> QED BY <1>0, <2>1, <2>2, MergedOp DEF Dropped
<1>4. e # None
  BY NoneAssumption
<1>5. AddsOp(e)
  <2>1. ASSUME NEW s \in Held(outbox)'
        PROVE  \/ s \in Held(outbox) /\ outbox'[s] = outbox[s]
               \/ s \in MergeTargets(outbox, e) /\ outbox'[s] = Merged(outbox[s], e)
               \/ s = nextSeq /\ outbox'[s] = e /\ s < nextSeq'
    <3>1. s \in Seqs /\ outbox'[s] # None
      BY DEF Held
    <3> QED BY <1>0, <1>1, <3>1 DEF AfterEnqueue, Held
  <2>2. nextSeq' \in Nat /\ nextSeq' >= nextSeq
    BY <1>0, <1>1
  <2> QED BY <2>1, <2>2 DEF AddsOp
<1>6. \A s \in Held(outbox) : s \in Held(outbox)' \/ ghost'.owed[outbox[s].id] = 0
  <2> SUFFICES ASSUME NEW s \in Held(outbox), s \notin Held(outbox)'
               PROVE  ghost'.owed[outbox[s].id] = 0
    OBVIOUS
  <2>1. s \in Seqs /\ outbox'[s] = None /\ outbox[s] # None
    BY DEF Held
  <2>2. s \in Dropped(outbox, e)
    BY <1>1, <1>3, <1>4, <2>1, NoneAssumption DEF AfterEnqueue
  <2>3. e.op = "delete" /\ outbox[s].id = e.id
    BY <2>2 DEF Dropped, SameRowQueued, OfRow
  <2> QED BY <1>0, <1>2, <2>3
<1>7. Text(e) # Unset => \E s \in OfRow(outbox, e.id)' : Text(outbox'[s]) = Text(e)
  <2> SUFFICES ASSUME Text(e) # Unset
               PROVE  \E s \in Held(outbox)' : outbox'[s].id = e.id /\ Text(outbox'[s]) = Text(e)
    BY DEF OfRow
  <2>1. CASE MergeTargets(outbox, e) # {}
    <3>1. PICK s \in MergeTargets(outbox, e) : TRUE
      BY <2>1
    <3>2. outbox'[s] = Merged(outbox[s], e) /\ s \in Seqs
      BY <1>0, <1>1, <1>3, <3>1 DEF AfterEnqueue
    <3>3. outbox'[s] # None /\ outbox'[s].id = e.id /\ Text(outbox'[s]) = Text(e)
      BY <1>3, <3>1, <3>2, NoneAssumption
    <3> QED BY <3>2, <3>3 DEF Held
  <2>2. CASE MergeTargets(outbox, e) = {}
    <3>1. Appends(outbox, e) /\ Dropped(outbox, e) = {}
      BY <2>2 DEF Appends, CancelsCreate, Dropped
    <3>2. nextSeq \in Seqs /\ outbox'[nextSeq] = e
      BY <1>0, <1>1, <2>2, <3>1 DEF AfterEnqueue, Seqs
    <3> QED BY <1>4, <3>2 DEF Held
  <2> QED BY <2>1, <2>2
<1>8. /\ \A i \in Ids : \/ ghost'.owed[i] \in {ghost.owed[i], 0}
                        \/ i = e.id /\ ghost'.owed[i] = Text(e) /\ NewText(e)
      /\ Text(e) # Unset => ghost'.owed[e.id] = Text(e)
  BY <1>0, <1>2
<1>9. OwesOp(e)
  BY <1>2, <1>6, <1>7, <1>8 DEF OwesOp
<1> QED BY <1>5, <1>9 DEF Adds

(* Every op the user makes on a row's screen is such an op.                *)
LEMMA EditAdds ==
  ASSUME KeptInv, NEW i \in Ids, Create(i) \/ UpdateText(i) \/ UpdateRef(i) \/ Delete(i)
  PROVE  \E e : Adds(e) /\ TakenFrom(e)
<1> USE DEF cycleVars, accountVars
<1>0. /\ TypeOK /\ stamp \in Nat /\ ghost.owed \in [Ids -> Values]
      /\ NoFields \in OpFields /\ 0 \in Values
      /\ mirror \in Mirrors
  BY KeptTypes, RowTypes, PlanAssumption DEF KeptInv, TypeOK, Values
<1>a. /\ stamp < MaxStamp => stamp + 1 \in Values
      /\ stamp + 1 \notin Past /\ stamp + 1 \in 0 .. stamp + 1
  BY <1>0, PlanAssumption DEF Past, Values
<1>1. CASE Create(i)
  <2>0. /\ stamp' = stamp + 1 /\ stamp < MaxStamp /\ i \notin ghost.minted
        /\ UNCHANGED <<pc, batch, answers, snap, page, reqs, srv, tomb>>
    BY <1>1 DEF Create
  <2>1. /\ stamp' = stamp + 1 /\ stamp' \in Values /\ stamp' \notin Past /\ stamp' \in Past'
        /\ i \notin ghost.minted /\ UNCHANGED <<pc, batch, answers, snap, page, reqs, srv, tomb>>
    BY <1>a, <2>0 DEF Past
  <2>2. PICK ref \in IF i \in Trips THEN LinkChoices ELSE {Unset} :
          LET fields == [NoFields EXCEPT !["text"] = stamp', !["ref"] = ref]
              e == NewEntry("create", i, fields, NoFields, 0)
          IN Enqueue(e) /\ Remember(e, stamp', ghost.gone)
    BY <1>1 DEF Create
  <2>3. PICK e : e = NewEntry("create", i, [NoFields EXCEPT !["text"] = stamp', !["ref"] = ref],
                              NoFields, 0)
    OBVIOUS
  <2>4. Enqueue(e) /\ Remember(e, stamp', ghost.gone)
    BY <2>2, <2>3
  <2>5. [NoFields EXCEPT !["text"] = stamp', !["ref"] = ref] \in OpFields
    BY <2>1 DEF NoFields, OpFields, LinkChoices, Values
  <2>6. e \in Entries
    BY <1>0, <2>3, <2>5, NewEntryType DEF OpKinds
  <2>7. /\ Text(e) = stamp' /\ e.op = "create" /\ e.id = i /\ e.base["text"] = Unset
    BY <2>3, <2>5 DEF NewEntry, Text, NoFields, Fields
  <2>8. stamp' # Unset
    BY <2>1, UnsetAssumption
  <2>9. Adds(e)
    BY <2>1, <2>4, <2>6, <2>7, <2>8, EnqueueAdds DEF NewText
  <2>10. TakenFrom(e)
    <3>1. e.fields["ref"] = ref
      BY <2>3, <2>5 DEF NewEntry, NoFields, Fields
    <3>2. LinkOf(e) \subseteq Live(mirror)
      BY <2>2, <3>1, PlanAssumption, UnsetAssumption DEF LinkOf, LinkChoices, Values
    <3> QED BY <2>0, <2>7, <3>2 DEF TakenFrom
  <2> QED BY <2>9, <2>10
<1>2. ASSUME NEW f \in Fields, NEW v \in Values, Update(i, f, v),
             \/ f = "text" /\ v = stamp' /\ stamp' = stamp + 1
             \/ f = "ref" /\ stamp' = stamp /\ v \in LinkChoices
      PROVE  \E e : Adds(e) /\ TakenFrom(e)
  <2>0. PICK e : e = NewEntry("update", i, [NoFields EXCEPT ![f] = v],
                              [NoFields EXCEPT ![f] = mirror[i].vals[f]], mirror[i].at)
    OBVIOUS
  <2>1. mirror[i] \in Rows /\ mirror[i].vals \in RowVals /\ mirror[i].at \in Nat
    <3>1. mirror[i] # None
      BY <1>2 DEF Update
    <3> QED BY <1>0, <3>1 DEF Rows, Mirrors
  <2>2. /\ [NoFields EXCEPT ![f] = v] \in OpFields
        /\ [NoFields EXCEPT ![f] = mirror[i].vals[f]] \in OpFields
    BY <1>0, <2>1 DEF OpFields, RowVals
  <2>3. e \in Entries
    BY <2>0, <2>1, <2>2, NewEntryType DEF OpKinds
  <2>4. /\ e.op = "update" /\ e.id = i
        /\ Text(e) = IF f = "text" THEN v ELSE Unset
        /\ e.base["text"] = IF f = "text" THEN mirror[i].vals["text"] ELSE Unset
    BY <2>0, <2>2 DEF NewEntry, Text, NoFields, Fields, OpFields
  <2>5. PICK owed : owed = IF f = "text" THEN v ELSE ghost.owed[i]
    OBVIOUS
  <2>6. Enqueue(e) /\ Remember(e, owed, ghost.gone)
    BY <1>2, <2>0, <2>5 DEF Update
  <2>7. mirror[i].vals["text"] \in Past
    BY <1>2 DEF Update, KeptInv, PastOK, PastRows, PastRow
  <2>8. /\ v # Unset /\ Past \subseteq Past'
        /\ f = "text" => v \notin Past /\ v \in Past'
    BY <1>0, <1>a, <1>2, UnsetAssumption DEF Past
  <2>9. UNCHANGED <<pc, batch, answers, snap, page, reqs, srv, tomb>>
    BY <1>2 DEF Update
  <2>10. owed \in Values
    BY <1>0, <2>5
  <2>11. IF Text(e) # Unset THEN owed = Text(e) /\ NewText(e)
                            ELSE owed \in {ghost.owed[e.id], 0}
    BY <2>4, <2>5, <2>8 DEF NewText
  <2>12. Text(e) \in Past' \cup {Unset} /\ e.base["text"] \in Past' \cup {Unset}
    BY <2>4, <2>7, <2>8
  <2>13. stamp' \in {stamp, stamp + 1}
    BY <1>2
  <2>14. ~IsCreate(e) /\ e.op # "delete"
    BY <2>4 DEF IsCreate
  <2>15. Adds(e)
    BY <2>3, <2>6, <2>9, <2>10, <2>11, <2>12, <2>13, <2>14, EnqueueAdds
  <2>16. TakenFrom(e)
    <3>1. /\ e.fields["ref"] = IF f = "ref" THEN v ELSE Unset
          /\ e.baseAt = mirror[i].at /\ mirror[i] # None
      BY <1>2, <2>0, <2>2 DEF NewEntry, NoFields, Fields, OpFields, Update
    <3>2. LinkOf(e) \subseteq Live(mirror)
      BY <1>2, <3>1, PlanAssumption, UnsetAssumption DEF LinkOf, LinkChoices, Values
    <3>3. Text(e) = Unset \/ (Text(e) = stamp + 1 /\ stamp' = stamp + 1)
      BY <1>2, <2>4
    <3> QED BY <2>4, <3>1, <3>2, <3>3 DEF TakenFrom
  <2> QED BY <2>15, <2>16
<1>3. CASE UpdateText(i)
  <2>1. stamp' = stamp + 1 /\ stamp' \in Values /\ Update(i, "text", stamp')
    BY <1>a, <1>3 DEF UpdateText
  <2> QED BY <1>2, <2>1 DEF Fields
<1>4. CASE UpdateRef(i)
  <2>1. LinkChoices \subseteq Values
    BY DEF LinkChoices, Values
  <2>2. stamp' = stamp /\ \E p \in Values : p \in LinkChoices /\ Update(i, "ref", p)
    BY <1>4, <2>1 DEF UpdateRef
  <2> QED BY <1>2, <2>2 DEF Fields
<1>5. CASE Delete(i)
  <2>0. PICK e : e = NewEntry("delete", i, NoFields, NoFields, 0)
    OBVIOUS
  <2>1. e \in Entries
    BY <1>0, <2>0, NewEntryType DEF OpKinds
  <2>2. Enqueue(e) /\ Remember(e, 0, ghost.gone \cup {i})
        /\ UNCHANGED <<pc, batch, answers, snap, page, reqs, srv, tomb, stamp>>
    BY <1>5, <2>0 DEF Delete
  <2>3. Text(e) = Unset /\ e.op = "delete" /\ e.base["text"] = Unset
    BY <2>0 DEF NewEntry, Text, NoFields, Fields
  <2>4. Adds(e)
    BY <1>0, <2>1, <2>2, <2>3, EnqueueAdds DEF IsCreate
  <2>5. TakenFrom(e)
    <3>1. e.fields["ref"] = Unset
      BY <2>0 DEF NewEntry, NoFields, Fields
    <3>2. LinkOf(e) = {}
      BY <3>1, PlanAssumption, UnsetAssumption DEF LinkOf, Values
    <3> QED BY <2>3, <3>2 DEF TakenFrom
  <2> QED BY <2>4, <2>5
<1> QED BY <1>1, <1>3, <1>4, <1>5

(* So is the copy made of a place that was deleted elsewhere.              *)
LEMMA RecreateAdds ==
  ASSUME KeptInv, NEW s \in Seqs, NEW i \in Places, Recreate(s, i)
  PROVE  \E e : Adds(e) /\ TakenFrom(e)
<1> USE DEF cycleVars, accountVars
<1> DEFINE old == outbox[s]
           fields == Overlay([mirror[old.id].vals EXCEPT !["ref"] = Unset], old.fields)
<1>0. /\ TypeOK /\ ghost \in Ghosts /\ ghost.owed \in [Ids -> Values]
      /\ i \in Ids /\ i \notin ghost.minted /\ NoFields \in OpFields
      /\ s \in Held(outbox) /\ old \in Entries /\ old.id \in Ids /\ old.fields \in OpFields
      /\ nextSeq \in Seqs /\ nextSeq \in Nat
  <2>1. /\ outbox[s] # None /\ i \notin ghost.minted /\ nextSeq <= MaxSeq
    BY DEF Recreate
  <2>2. /\ TypeOK /\ ghost \in Ghosts /\ ghost.owed \in [Ids -> Values]
        /\ NoFields \in OpFields /\ outbox[s] \in Entries
    BY <2>1, KeptTypes, RowTypes DEF KeptInv, Held
  <2>3. nextSeq \in Seqs /\ nextSeq \in Nat
    BY <2>1, <2>2, PlanAssumption DEF TypeOK, Seqs
  <2> QED BY <2>1, <2>2, <2>3 DEF Held, Ids, Entries
<1>1. old.id \in ghost.minted /\ s # nextSeq /\ Text(old) \in Past \cup {Unset}
  BY <1>0 DEF KeptInv, LedgersOK, PastOK, PastOps, Ledgers, Seqs
<1>2. mirror[old.id].vals \in RowVals /\ mirror[old.id].vals["text"] \in Past
  <2>1. mirror[old.id] # None
    BY DEF Recreate
  <2> QED BY <1>0, <2>1 DEF TypeOK, Mirrors, Rows, KeptInv, PastOK, PastRows, PastRow
<1>3. fields \in OpFields /\ fields["text"] \in Past /\ fields["text"] # Unset
  <2>1. [mirror[old.id].vals EXCEPT !["ref"] = Unset] \in OpFields
    BY <1>2 DEF RowVals, OpFields
  <2>2. fields \in OpFields
    BY <1>0, <2>1, OverlayTypes
  <2>3. mirror[old.id].vals["text"] \in Values
    BY <1>2 DEF RowVals, Fields
  <2>4. fields["text"] = IF Text(old) # Unset THEN Text(old) ELSE mirror[old.id].vals["text"]
    BY <1>2 DEF Overlay, RowVals, Fields, Text
  <2> QED BY <1>1, <1>2, <2>2, <2>3, <2>4, UnsetAssumption
<1>4. PICK e : e = NewEntry("create", i, fields, NoFields, 0)
  OBVIOUS
<1>5. /\ e.op = "create" /\ e.id = i /\ Text(e) = fields["text"] /\ e.base["text"] = Unset
      /\ e \in Entries
  <2>1. e \in Entries
    BY <1>0, <1>3, <1>4, NewEntryType DEF OpKinds
  <2> HIDE DEF fields
  <2> QED BY <1>4, <2>1 DEF NewEntry, Text, NoFields, Fields
<1>6. /\ outbox' = [AfterEnqueue(outbox, nextSeq, e) EXCEPT ![s] = None]
      /\ nextSeq' = nextSeq + 1 /\ stamp' = stamp
      /\ ghost' = [ghost EXCEPT !.minted = @ \cup {i},
                                !.owed = [@ EXCEPT ![i] = fields["text"], ![old.id] = 0],
                                !.marks = @ \cup MarkUncovered(s, outbox')]
      /\ UNCHANGED <<pc, batch, answers, snap, page, reqs, srv, tomb>>
  BY <1>4 DEF Recreate
<1>7. /\ MergeTargets(outbox, e) = {} /\ Dropped(outbox, e) = {} /\ Appends(outbox, e)
      /\ FoldsOf(e) = {}
  BY <1>5 DEF MergeTargets, Dropped, Appends, CancelsCreate, FoldsOf
<1>8. \A r \in Seqs : outbox'[r] = IF r = s THEN None ELSE IF r = nextSeq THEN e ELSE outbox[r]
  BY <1>6, <1>7 DEF AfterEnqueue
<1>9. /\ ghost'.minted = ghost.minted \cup {i} /\ ghost.marks \subseteq ghost'.marks
      /\ ghost'.owed = [ghost.owed EXCEPT ![i] = Text(e), ![old.id] = 0]
  <2> HIDE DEF fields
  <2> QED BY <1>0, <1>5, <1>6 DEF Ghosts
<1>10. AddsOp(e)
  <2>1. \A r \in Held(outbox)' : \/ r \in Held(outbox) /\ outbox'[r] = outbox[r]
                                 \/ r = nextSeq /\ outbox'[r] = e /\ r < nextSeq'
    BY <1>0, <1>6, <1>8 DEF Held
  <2>2. nextSeq' \in Nat /\ nextSeq' >= nextSeq
    BY <1>0, <1>6
  <2> QED BY <1>6, <2>1, <2>2 DEF AddsOp
<1>11. OwesOp(e)
  <2>1. old.id # i
    BY <1>0, <1>1
  <2>2. \A j \in Ids : \/ ghost'.owed[j] \in {ghost.owed[j], 0}
                       \/ j = e.id /\ ghost'.owed[j] = Text(e) /\ NewText(e)
    <3>1. NewText(e)
      BY <1>0, <1>3, <1>5 DEF NewText
    <3> HIDE DEF old
    <3> QED BY <1>0, <1>5, <1>9, <2>1, <3>1
  <2>3. ghost'.owed[e.id] = Text(e)
    <3> HIDE DEF old
    <3> QED BY <1>0, <1>5, <1>9, <2>1
  <2>4. \A r \in Held(outbox) : r \in Held(outbox)' \/ ghost'.owed[outbox[r].id] = 0
    <3>1. ghost'.owed[old.id] = 0
      <4> HIDE DEF old
      <4> QED BY <1>0, <1>9
    <3>2. \A r \in Held(outbox) : r \in Held(outbox)' \/ r = s
      BY <1>5, <1>8, NoneAssumption DEF Held
    <3> QED BY <3>1, <3>2
  <2>5. \E r \in OfRow(outbox, e.id)' : Text(outbox'[r]) = Text(e)
    <3>1. nextSeq \in Seqs /\ outbox'[nextSeq] = e /\ e # None
      BY <1>0, <1>1, <1>5, <1>8, NoneAssumption
    <3> QED BY <3>1 DEF OfRow, Held
  <2> QED BY <1>5, <1>7, <1>9, <2>2, <2>3, <2>4, <2>5 DEF OwesOp
<1>12. Adds(e)
  BY <1>0, <1>3, <1>5, <1>6, <1>10, <1>11 DEF Adds, Past
<1>13. TakenFrom(e)
  <2>1. fields["ref"] = old.fields["ref"]
    BY <1>2 DEF Overlay, RowVals, Fields
  <2>2. LinkOf(e) = LinkOf(old)
    <3> HIDE DEF fields
    <3> QED BY <1>4, <2>1 DEF NewEntry, LinkOf
  <2>3. Text(e) \in {mirror[old.id].vals["text"], Text(old)}
    <3>1. fields["text"] \in {mirror[old.id].vals["text"], old.fields["text"]}
      BY <1>2 DEF Overlay, RowVals, Fields
    <3> HIDE DEF fields
    <3> QED BY <1>5, <3>1 DEF Text
  <2>4. mirror[old.id].vals["text"] \in Texts(mirror)
    BY <1>0 DEF Recreate, Texts, Live
  <2> HIDE DEF fields
  <2>5. LinkOf(e) \subseteq UNION {LinkOf(outbox[r]) : r \in Held(outbox)}
    BY <1>0, <2>2
  <2>6. Text(e) \in Texts(mirror) \cup {Text(outbox[r]) : r \in Held(outbox)}
    BY <1>0, <2>3, <2>4
  <2> QED BY <1>5, <2>5, <2>6 DEF TakenFrom, IsCreate
<1> QED BY <1>12, <1>13

-----------------------------------------------------------------------------
(* No row holds a text before it is written                                *)

(* The part of PastOK that is about rows.                                  *)
RowsPast ==
  /\ PastRows(mirror) /\ PastRows(srv)
  /\ pc \in {"fetched", "merge"} => PastRows(page.rows)
  /\ PastResults(answers)
  /\ \A k \in Lanes : reqs[k] # None => PastResults(reqs[k].answers)

(* Rows put together from the texts that are there hold such texts.        *)
LEMMA PastMade ==
  ASSUME stamp \in Nat
  PROVE  /\ \A rows \in Mirrors, i \in Ids, at \in Nat :
              PastRows(rows) => PastRows(Without(rows, i, at))
         /\ \A rows \in Mirrors, dead \in SUBSET Ids :
              PastRows(rows) => PastRows(Forgotten(rows, dead))
         /\ \A under \in RowVals, over \in OpFields :
              under["text"] \in Past /\ over["text"] \in Past \cup {Unset}
                => Overlay(under, over)["text"] \in Past
         /\ \A fields \in OpFields :
              fields["text"] \in Past \cup {Unset} => Filled(fields)["text"] \in Past
<1>1. ASSUME NEW rows \in Mirrors, NEW i \in Ids, NEW at \in Nat, PastRows(rows)
      PROVE  PastRows(Without(rows, i, at))
  <2> SUFFICES ASSUME NEW j \in Ids, Without(rows, i, at)[j] # None
               PROVE  Without(rows, i, at)[j].vals["text"] \in Past
    BY DEF PastRows, PastRow
  <2>1. rows[j] # None
    BY DEF Without
  <2>2. rows[j] \in Rows /\ rows[j].vals["text"] \in Past
    BY <1>1, <2>1 DEF Mirrors, PastRows, PastRow
  <2> QED BY <2>1, <2>2 DEF Without, Rows, RowVals, Fields
<1>2. ASSUME NEW rows \in Mirrors, NEW dead \in SUBSET Ids, PastRows(rows)
      PROVE  PastRows(Forgotten(rows, dead))
  <2> SUFFICES ASSUME NEW j \in Ids, Forgotten(rows, dead)[j] # None
               PROVE  Forgotten(rows, dead)[j].vals["text"] \in Past
    BY DEF PastRows, PastRow
  <2>1. rows[j] # None
    BY DEF Forgotten
  <2>2. rows[j] \in Rows /\ rows[j].vals["text"] \in Past
    BY <1>2, <2>1 DEF Mirrors, PastRows, PastRow
  <2> QED BY <2>1, <2>2 DEF Forgotten, Rows, RowVals, Fields
<1>3. ASSUME NEW under \in RowVals, NEW over \in OpFields,
             under["text"] \in Past, over["text"] \in Past \cup {Unset}
      PROVE  Overlay(under, over)["text"] \in Past
  BY <1>3 DEF Overlay, Fields
<1>4. ASSUME NEW fields \in OpFields, fields["text"] \in Past \cup {Unset}
      PROVE  Filled(fields)["text"] \in Past
  BY <1>4 DEF Filled, Fields, Past
<1> QED BY <1>1, <1>2, <1>3, <1>4

(* The text pending for a row is one an op carries.                        *)
LEMMA PastPending ==
  ASSUME NEW ob \in Outboxes, PastOps(ob), NEW i \in Ids
  PROVE  CollectDirty(ob, i)["text"] \in Past \cup {Unset}
<1> DEFINE pending(f) == {s \in OfRow(ob, i) : /\ ob[s].state # "deadRemote"
                                              /\ ob[s].op # "delete"
                                              /\ ob[s].fields[f] # Unset}
<1>1. CollectDirty(ob, i)["text"] = IF pending("text") = {} THEN Unset
                                    ELSE ob[Last(pending("text"))].fields["text"]
  BY DEF CollectDirty, Fields
<1>2. SUFFICES ASSUME pending("text") # {}
               PROVE  ob[Last(pending("text"))].fields["text"] \in Past \cup {Unset}
  BY <1>1
<1>3. Last(pending("text")) \in pending("text")
  <2>1. pending("text") \in SUBSET Seqs
    BY DEF OfRow, Held
  <2> QED BY <1>2, <2>1, LastIsIn
<1>4. Last(pending("text")) \in Held(ob)
  BY <1>3 DEF OfRow
<1> QED BY <1>4 DEF PastOps, Text

(* What lies in the past does so after a step.                             *)
LEMMA PastGrows ==
  ASSUME stamp \in Nat, stamp' \in {stamp, stamp + 1}
  PROVE  Past \subseteq Past'
BY DEF Past

(* A step that brings no new row into a hand leaves it at that.            *)
LEMMA PastPhone ==
  ASSUME KeptInv, NoNewOp, ~ServerStep, PastRows(mirror)', PastRows(srv)'
  PROVE  RowsPast'
<1> USE DEF cycleVars, accountVars, phoneVars
<1>0. TypeInv /\ TypeOK /\ stamp \in Nat /\ Slide /\ RowsPast
  BY KeptTypes, NoNewOpSlides DEF KeptInv, PastOK, RowsPast
<1>1. Past \subseteq Past'
  BY <1>0, PastGrows DEF Slide
<1>3. pc' \in {"fetched", "merge"} => PastRows(page.rows)'
  <2>1. CASE FetchPage
    <3>1. page'.rows = [i \in Ids |-> IF srv[i] # None /\ srv[i].at > cursor THEN srv[i] ELSE None]
      BY <2>1 DEF FetchPage, DeltaSince
    <3> QED BY <1>0, <1>1, <3>1 DEF RowsPast, PastRows, PastRow
  <2>2. CASE \/ page' = page /\ (pc' = pc \/ pc = "fetched")
             \/ pc' \notin {"fetched", "merge"}
    BY <1>0, <1>1, <2>2 DEF RowsPast, PastRows, PastRow
  <2> QED BY <2>1, <2>2
          DEF NoNewOp, FlushStep, PullStep, WorldStep, vars, StartCycle, LoadBatch, Send,
              RequestFails, Reply, BatchDone, ApplySuccess, Shelve, Reread, ConfirmRow,
              ApplyRefusal, PullFails, LoadForRebase, ApplyPage, ApplyPageFails, Crash,
              ForeignEdit, ForeignDelete, Reset, Retry, Discard, AfterShelving, NextResult
<1>4. PastResults(answers)'
  <2> SUFFICES ASSUME NEW s \in Seqs, answers'[s] # None
               PROVE  PastRow(answers'[s].row)
    BY <1>1 DEF PastResults, PastRow
  <2>1. s \in Held(answers)'
    BY DEF Held
  <2> QED BY <1>0, <2>1, AnswersCome DEF RowsPast, PastResults, Held, Lanes
<1>5. ASSUME NEW k \in Lanes, reqs'[k] # None
      PROVE  PastResults(reqs[k].answers)'
  <2>1. \/ reqs'[k].answers = NoOps
        \/ \E l \in Lanes : reqs[l] # None /\ reqs'[k].answers = reqs[l].answers
    BY <1>0, <1>5, OtherMoves DEF Lanes
  <2>2. PastResults(reqs'[k].answers)
    BY <1>0, <2>1 DEF RowsPast, PastResults, NoOps
  <2> QED BY <1>1, <2>2 DEF PastResults, PastRow
<1> QED BY <1>3, <1>4, <1>5 DEF RowsPast

(* The phone's own rows are made of what it holds and what comes in.       *)
LEMMA PastMirror ==
  ASSUME KeptInv, NoNewOp
  PROVE  PastRows(mirror)'
<1> USE DEF phoneVars
<1>0. /\ TypeInv /\ TypeOK /\ CycleOK /\ stamp \in Nat /\ Slide /\ RowsPast
      /\ \A s \in Held(outbox) : s \in Seqs /\ outbox[s] \in Entries /\ outbox[s].id \in Ids
  BY KeptTypes, NoNewOpSlides DEF KeptInv, PastOK, RowsPast, TypeInv
<1>1. Past \subseteq Past'
  BY <1>0, PastGrows DEF Slide
<1>2. SUFFICES PastRows(mirror')
  BY <1>1 DEF PastRows, PastRow
<1>3. CASE UNCHANGED mirror
  BY <1>0, <1>3 DEF RowsPast
(* A row laid under what is pending for it.                                *)
<1>4. ASSUME NEW row \in Rows, PastRow(row), row # None, NEW pending \in OpFields,
             pending["text"] \in Past \cup {Unset}
      PROVE  /\ Confirmed(row, pending).vals["text"] \in Past
             /\ \A local : Rebased(row, local, pending).vals["text"] \in Past
             /\ Rebased(row, None, pending).vals \in RowVals
  <2>1. /\ [pending EXCEPT !["ref"] = Unset] \in OpFields
        /\ [pending EXCEPT !["ref"] = Unset]["text"] = pending["text"]
        /\ row.vals \in RowVals /\ row.vals["text"] \in Past
    BY <1>4 DEF OpFields, Rows, PastRow, Fields
  <2>2. Overlay(row.vals, [pending EXCEPT !["ref"] = Unset])["text"] \in Past
    BY <1>0, <1>4, <2>1, PastMade
  <2>3. Overlay(row.vals, [pending EXCEPT !["ref"] = Unset]) \in RowVals
    BY <2>1, OverlayTypes
  <2>4. row.vals["ref"] \in Values
    BY <2>1 DEF RowVals, Fields
  <2> QED BY <2>2, <2>3, <2>4 DEF Confirmed, Rebased, Rows, RowVals, Fields
<1>5. CASE Reset
  BY <1>0, <1>5 DEF Reset, RowsPast, PastRows, PastRow
<1>6. ASSUME NEW s \in Seqs, Discard(s)
      PROVE  PastRows(mirror')
  <2> DEFINE e == outbox[s]
             without == [outbox EXCEPT ![s] = None]
             row == Reverted(mirror[e.id], e.base, CollectDirty(without, e.id))
  <2>1. s \in Held(outbox) /\ e \in Entries /\ e.id \in Ids
    BY <1>0, <1>6 DEF Discard, Held
  <2>2. e.base["text"] \in Past \cup {Unset}
    BY <2>1 DEF KeptInv, PastOK, PastOps, Ledgers
  <2>3. mirror[e.id] # None => row.vals["text"] \in Past
    <3>1. mirror[e.id] # None => mirror[e.id] \in Rows /\ mirror[e.id].vals["text"] \in Past
      BY <1>0, <2>1 DEF TypeOK, Mirrors, RowsPast, PastRows, PastRow
    <3> QED BY <2>2, <3>1 DEF Reverted, Rows, RowVals, Fields
  <2>4. \/ mirror' = [mirror EXCEPT ![e.id] = None]
        \/ mirror[e.id] # None /\ mirror' = [mirror EXCEPT ![e.id] = row]
        \/ mirror' = mirror
    BY <1>6 DEF Discard
  <2> HIDE DEF row, without
  <2> QED BY <1>0, <2>1, <2>3, <2>4 DEF TypeOK, Mirrors, RowsPast, PastRows, PastRow
<1>7. CASE ConfirmRow
  <2>1. /\ Held(answers) # {} /\ Result.row # None /\ Result \in Answers
        /\ Op \in Entries /\ Op.id \in Ids /\ Cur \in Held(answers)
    BY <1>0, <1>7, CurTypes DEF ConfirmRow, CycleOK, InResult, Entries
  <2>2. Result.row \in Rows /\ PastRow(Result.row)
    BY <1>0, <2>1 DEF Answers, Result, RowsPast, PastResults, Held
  <2>3. /\ CollectDirty(snap, Op.id) \in OpFields
        /\ CollectDirty(snap, Op.id)["text"] \in Past \cup {Unset}
    BY <1>0, <2>1, CollectDirtyType, PastPending DEF TypeOK, KeptInv, PastOK
  <2>4. Confirmed(Result.row, CollectDirty(snap, Op.id)).vals["text"] \in Past
    BY <1>4, <2>1, <2>2, <2>3
  <2>5. mirror' = [mirror EXCEPT ![Op.id] = Confirmed(Result.row, CollectDirty(snap, Op.id))]
    BY <1>7 DEF ConfirmRow
  <2> QED BY <1>0, <2>1, <2>4, <2>5 DEF TypeOK, Mirrors, RowsPast, PastRows, PastRow
<1>8. CASE ApplyPage
  <2> DEFINE merged == [i \in Ids |->
                          IF page.rows[i] = None THEN mirror[i]
                          ELSE Rebased(page.rows[i], mirror[i], CollectDirty(snap, i))]
  <2>1. /\ page.rows \in Mirrors /\ page.dead \in SUBSET Ids
        /\ PastRows(page.rows)
    BY <1>0, <1>8 DEF ApplyPage, CycleOK, Pages, RowsPast
  <2>2. ASSUME NEW i \in Ids, page.rows[i] # None
        PROVE  /\ Rebased(page.rows[i], mirror[i], CollectDirty(snap, i)) \in Rows
               /\ Rebased(page.rows[i], mirror[i], CollectDirty(snap, i)).vals["text"] \in Past
    <3>1. page.rows[i] \in Rows /\ PastRow(page.rows[i]) /\ mirror[i] \in Rows \cup {None}
      BY <1>0, <2>1, <2>2 DEF Mirrors, PastRows, TypeOK
    <3>2. /\ CollectDirty(snap, i) \in OpFields
          /\ CollectDirty(snap, i)["text"] \in Past \cup {Unset}
      BY <1>0, CollectDirtyType, PastPending DEF TypeOK, KeptInv, PastOK
    <3> QED BY <1>4, <2>2, <3>1, <3>2, MergeTypes
  <2>3. merged \in Mirrors /\ PastRows(merged)
    BY <1>0, <2>2 DEF TypeOK, Mirrors, RowsPast, PastRows, PastRow
  <2>4. mirror' = Forgotten(merged, page.dead)
    BY <1>8 DEF ApplyPage
  <2> HIDE DEF merged
  <2> QED BY <1>0, <2>1, <2>3, <2>4, PastMade
<1> QED BY <1>3, <1>5, <1>6, <1>7, <1>8
        DEF NoNewOp, FlushStep, PullStep, ServerStep, WorldStep, vars, StartCycle,
            LoadBatch, Send, RequestFails, Reply, BatchDone, ApplySuccess, Shelve, Reread,
            ApplyRefusal, FetchPage, PullFails, LoadForRebase, ApplyPageFails, SkipDependent,
            RefuseOp, ReadForCreate, ReadForUpdate, WriteCreate, WriteUpdate, WriteAborts,
            DeleteRow, LateEnds, Crash, ForeignEdit, ForeignDelete, Retry

(* The account's rows are made of what it holds and what an op carries.    *)
LEMMA PastAccount ==
  ASSUME KeptInv, NoNewOp
  PROVE  PastRows(srv)'
<1> USE DEF accountVars
<1>0. /\ TypeInv /\ TypeOK /\ stamp \in Nat /\ Slide /\ RowsPast /\ clock \in Nat
  BY KeptTypes, NoNewOpSlides DEF KeptInv, PastOK, RowsPast, TypeOK
<1>1. Past \subseteq Past'
  BY <1>0, PastGrows DEF Slide
<1>2. PastRows(srv') => PastRows(srv)'
  BY <1>1 DEF PastRows, PastRow
<1>3. CASE UNCHANGED srv
  BY <1>0, <1>2, <1>3 DEF RowsPast
<1>4. ASSUME NEW k \in Lanes, Working(k)
      PROVE  /\ HeadOp(k).id \in Ids /\ HeadOp(k).fields \in OpFields
             /\ Text(HeadOp(k)) \in Past \cup {Unset}
  <2>1. HeadSeq(k) \in Held(reqs[k].batch) /\ reqs[k] # None /\ HeadOp(k) \in Entries
    BY <1>0, <1>4, HeadTypes DEF Working
  <2> QED BY <2>1 DEF KeptInv, PastOK, PastOps, Ledgers, HeadOp, Entries
<1>5. ASSUME NEW k \in Lanes, WriteCreate(k)
      PROVE  PastRows(srv')
  <2>1. Filled(HeadOp(k).fields)["text"] \in Past
    BY <1>0, <1>4, <1>5, PastMade DEF WriteCreate, Writes, Text
  <2>2. srv' = [srv EXCEPT ![HeadOp(k).id] = [vals |-> Filled(HeadOp(k).fields), at |-> clock + 1]]
    BY <1>5 DEF WriteCreate
  <2> QED BY <1>0, <2>1, <2>2 DEF TypeOK, Mirrors, RowsPast, PastRows, PastRow
<1>6. ASSUME NEW k \in Lanes, WriteUpdate(k)
      PROVE  PastRows(srv')
  <2>1. /\ HeadOp(k).id \in Ids /\ HeadOp(k).fields \in OpFields
        /\ Text(HeadOp(k)) \in Past \cup {Unset} /\ srv[HeadOp(k).id] # None
    BY <1>4, <1>6 DEF WriteUpdate, Writes
  <2>2. srv[HeadOp(k).id].vals \in RowVals /\ srv[HeadOp(k).id].vals["text"] \in Past
    BY <1>0, <2>1 DEF TypeOK, Mirrors, Rows, RowsPast, PastRows, PastRow
  <2>3. Overlay(srv[HeadOp(k).id].vals, HeadOp(k).fields)["text"] \in Past
    BY <1>0, <2>1, <2>2, PastMade DEF Text
  <2>4. srv' = [srv EXCEPT ![HeadOp(k).id] =
                  [vals |-> Overlay(srv[HeadOp(k).id].vals, HeadOp(k).fields), at |-> clock + 1]]
    BY <1>6 DEF WriteUpdate
  <2> QED BY <1>0, <2>3, <2>4 DEF TypeOK, Mirrors, RowsPast, PastRows, PastRow
<1>7. ASSUME NEW i \in Ids, RemoveRow(i)
      PROVE  PastRows(srv')
  BY <1>0, <1>7, PastMade DEF RemoveRow, RowsPast, TypeOK
<1>8. ASSUME NEW k \in Lanes, DeleteRow(k)
      PROVE  PastRows(srv')
  <2>1. HeadOp(k).id \in Ids /\ RemoveRow(HeadOp(k).id)
    BY <1>4, <1>8 DEF DeleteRow, Reads
  <2> QED BY <1>7, <2>1
<1>9. ASSUME NEW i \in Ids, ForeignDelete(i)
      PROVE  PastRows(srv')
  BY <1>7, <1>9 DEF ForeignDelete
<1>10. ASSUME NEW i \in Ids, ForeignEdit(i)
       PROVE  PastRows(srv)'
  <2>1. /\ stamp' = stamp + 1 /\ srv[i] # None
        /\ srv' = [srv EXCEPT ![i] = [vals |-> [srv[i].vals EXCEPT !["text"] = stamp'],
                                      at |-> clock']]
    BY <1>10 DEF ForeignEdit
  <2>2. stamp' \in Past' /\ srv[i].vals \in RowVals
    BY <1>0, <2>1 DEF Past, TypeOK, Mirrors, Rows
  <2>3. [srv[i].vals EXCEPT !["text"] = stamp']["text"] \in Past'
    BY <2>2 DEF RowVals, Fields
  <2> QED BY <1>0, <1>1, <2>1, <2>3 DEF TypeOK, Mirrors, RowsPast, PastRows, PastRow
<1> QED BY <1>2, <1>3, <1>5, <1>6, <1>8, <1>9, <1>10
        DEF NoNewOp, FlushStep, PullStep, ServerStep, WorldStep, vars, StartCycle,
            LoadBatch, Send, RequestFails, Reply, BatchDone, ApplySuccess, Shelve, Reread,
            ConfirmRow, ApplyRefusal, FetchPage, PullFails, LoadForRebase, ApplyPage,
            ApplyPageFails, SkipDependent, RefuseOp, ReadForCreate, ReadForUpdate,
            WriteAborts, LateEnds, Crash, Reset, Retry, Discard

(* Its answers carry rows it has or has just written.                      *)
LEMMA PastAnswers ==
  ASSUME KeptInv, ServerStep
  PROVE  RowsPast'
<1> USE DEF phoneVars, cycleVars
<1>0. /\ TypeInv /\ TypeOK /\ stamp \in Nat /\ RowsPast /\ NoNewOp
  BY KeptTypes DEF KeptInv, PastOK, RowsPast, NoNewOp
<1>1. UNCHANGED <<pc, page, answers, stamp>>
  BY DEF ServerStep, SkipDependent, RefuseOp, ReadForCreate, ReadForUpdate,
         WriteCreate, WriteUpdate, WriteAborts, DeleteRow, LateEnds
<1>2. PastRows(mirror)' /\ PastRows(srv)'
  BY <1>0, PastMirror, PastAccount
<1>3. /\ pc' \in {"fetched", "merge"} => PastRows(page.rows)'
      /\ PastResults(answers)'
  BY <1>0, <1>1 DEF RowsPast, PastRows, PastRow, PastResults, Past
<1> DEFINE Good == \A l \in Lanes : reqs'[l] # None => PastResults(reqs'[l].answers)
<1>4. ASSUME NEW k \in Lanes, Working(k), NEW answer, Finish(k, answer), PastRow(answer.row)
      PROVE  Good
  <2>1. reqs[k] \in Requests /\ reqs[k] # None /\ HeadSeq(k) \in Seqs
    BY <1>0, <1>4, HeadTypes DEF Working
  <2>2. /\ reqs'[k].answers = [reqs[k].answers EXCEPT ![HeadSeq(k)] = answer]
        /\ reqs[k].answers \in [Seqs -> Answers \cup {None}]
        /\ \A l \in Lanes : l # k => reqs'[l] = reqs[l]
    BY <1>0, <1>4, <2>1 DEF Finish, TypeOK, Requests
  <2> QED BY <1>0, <1>4, <2>1, <2>2 DEF RowsPast, PastResults
<1>5. ASSUME NEW k \in Lanes, Working(k), NEW row, reqs' = [reqs EXCEPT ![k].read = row]
      PROVE  Good
  <2>1. reqs[k] \in Requests /\ reqs[k] # None
    BY <1>0, <1>5, HeadTypes DEF Working
  <2>2. reqs'[k].answers = reqs[k].answers /\ \A l \in Lanes : l # k => reqs'[l] = reqs[l]
    BY <1>0, <1>5, <2>1 DEF TypeOK, Requests
  <2> QED BY <1>0, <2>1, <2>2 DEF RowsPast
<1>6. ASSUME NEW k \in Lanes, reqs' = [reqs EXCEPT ![k] = None]
      PROVE  Good
  BY <1>0, <1>6 DEF TypeOK, RowsPast
<1> HIDE DEF Good
<1>7. \A status, receipts, code :
        /\ PastRow(Answer(status, None, receipts, code).row)
        /\ PastRow(Refused(code).row)
  BY DEF PastRow, Answer, Refused
<1>8. ASSUME NEW k \in Lanes, SkipDependent(k)
      PROVE  Good
  BY <1>4, <1>7, <1>8 DEF SkipDependent
<1>9. ASSUME NEW k \in Lanes, RefuseOp(k)
      PROVE  Good
  BY <1>4, <1>7, <1>9 DEF RefuseOp, Reads
<1>10. ASSUME NEW k \in Lanes, DeleteRow(k)
       PROVE  Good
  BY <1>4, <1>7, <1>10 DEF DeleteRow, Reads
<1>11. ASSUME NEW k \in Lanes, ReadForCreate(k)
       PROVE  Good
  <2>1. Working(k) /\ HeadOp(k).id \in Ids
    BY <1>0, <1>11, HeadTypes DEF ReadForCreate, Reads, Entries
  <2>2. PastRow(Answer("alreadyApplied", srv[HeadOp(k).id], NoFields, "ok").row)
    BY <1>0, <2>1 DEF RowsPast, PastRows, PastRow, Answer
  <2> QED BY <1>4, <1>5, <1>7, <1>11, <2>1, <2>2 DEF ReadForCreate
<1>12. ASSUME NEW k \in Lanes, ReadForUpdate(k)
       PROVE  Good
  <2>1. Working(k)
    BY <1>12 DEF ReadForUpdate, Reads
  <2> QED BY <1>4, <1>5, <1>7, <1>12, <2>1 DEF ReadForUpdate
<1>13. ASSUME NEW k \in Lanes, WriteCreate(k) \/ WriteUpdate(k)
       PROVE  Good
  <2>1. Working(k) /\ HeadOp(k).id \in Ids
    BY <1>0, <1>13, HeadTypes DEF WriteCreate, WriteUpdate, Writes, Entries
  <2>2. PICK row, receipts : /\ srv' = [srv EXCEPT ![HeadOp(k).id] = row]
                             /\ Finish(k, Answer("applied", row, receipts, "ok"))
    BY <1>13 DEF WriteCreate, WriteUpdate
  <2>3. srv'[HeadOp(k).id] = row
    BY <1>0, <2>1, <2>2 DEF TypeOK, Mirrors
  <2>4. PastRow(row)
    BY <1>1, <1>2, <2>1, <2>3 DEF PastRows, PastRow, Past
  <2>5. PastRow(Answer("applied", row, receipts, "ok").row)
    BY <2>4 DEF Answer
  <2> QED BY <1>4, <2>1, <2>2, <2>5
<1>14. ASSUME NEW k \in Lanes, WriteAborts(k)
       PROVE  Good
  BY <1>6, <1>14 DEF WriteAborts
<1>15. ASSUME LateEnds
       PROVE  Good
  <2>1. "late" \in Lanes
    BY DEF Lanes
  <2> QED BY <1>6, <1>15, <2>1 DEF LateEnds
<1>16. Good
  BY <1>8, <1>9, <1>10, <1>11, <1>12, <1>13, <1>14, <1>15 DEF ServerStep
<1>17. \A k \in Lanes : reqs'[k] # None => PastResults(reqs[k].answers)'
  BY <1>1, <1>16 DEF Good, PastResults, PastRow, Past
<1> QED BY <1>2, <1>3, <1>17 DEF RowsPast

(* The rows the user's edits leave hold the texts the user wrote.          *)
LEMMA PastEdits ==
  ASSUME KeptInv, NEW i \in Ids,
         \/ Create(i) \/ UpdateText(i) \/ UpdateRef(i) \/ Delete(i)
         \/ i \in Places /\ \E s \in Seqs : Recreate(s, i)
  PROVE  RowsPast'
<1> USE DEF cycleVars, accountVars
<1>0. TypeOK /\ stamp \in Nat /\ RowsPast /\ NoFields \in OpFields
  BY KeptTypes, RowTypes DEF KeptInv, PastOK, RowsPast
<1>1. stamp' \in {stamp, stamp + 1} /\ UNCHANGED <<pc, srv, page, answers, reqs>>
  BY DEF Create, UpdateText, UpdateRef, Update, Delete, Recreate
<1>2. Past \subseteq Past'
  BY <1>0, <1>1, PastGrows
<1>3. /\ PastRows(srv)' /\ (pc' \in {"fetched", "merge"} => PastRows(page.rows)')
      /\ PastResults(answers)'
      /\ \A k \in Lanes : reqs'[k] # None => PastResults(reqs[k].answers)'
  BY <1>0, <1>1, <1>2 DEF RowsPast, PastRows, PastRow, PastResults
<1>4. SUFFICES PastRows(mirror)'
  BY <1>3 DEF RowsPast
<1>5. ASSUME NEW row, row.vals["text"] \in Past', mirror' = [mirror EXCEPT ![i] = row]
      PROVE  PastRows(mirror)'
  BY <1>0, <1>2, <1>5 DEF TypeOK, Mirrors, RowsPast, PastRows, PastRow
<1>6. CASE Create(i)
  <2>1. PICK ref \in IF i \in Trips THEN LinkChoices ELSE {Unset} :
          mirror' = [mirror EXCEPT ![i] =
            [vals |-> Filled([NoFields EXCEPT !["text"] = stamp', !["ref"] = ref]), at |-> 0]]
    BY <1>6 DEF Create
  <2>2. stamp' \in Past'
    BY <1>0, <1>1 DEF Past
  <2>3. Filled([NoFields EXCEPT !["text"] = stamp', !["ref"] = ref])["text"] \in Past'
    BY <1>0, <1>1, <2>2 DEF Filled, NoFields, Fields, Past
  <2> QED BY <1>5, <2>1, <2>3
<1>7. ASSUME NEW f \in Fields, NEW v, Update(i, f, v), f = "text" => v \in Past'
      PROVE  PastRows(mirror)'
  <2>1. mirror[i] # None /\ mirror' = [mirror EXCEPT ![i].vals[f] = v]
    BY <1>7 DEF Update
  <2>2. mirror[i] \in Rows /\ mirror[i].vals["text"] \in Past
    BY <1>0, <2>1 DEF TypeOK, Mirrors, RowsPast, PastRows, PastRow
  <2>3. mirror' = [mirror EXCEPT ![i] = [mirror[i] EXCEPT !.vals = [@ EXCEPT ![f] = v]]]
    BY <2>1
  <2>4. [mirror[i] EXCEPT !.vals = [@ EXCEPT ![f] = v]].vals["text"] \in Past'
    BY <1>2, <1>7, <2>2 DEF Rows, RowVals, Fields
  <2> QED BY <1>5, <2>3, <2>4
<1>8. CASE UpdateText(i)
  <2>1. Update(i, "text", stamp') /\ stamp' \in Past'
    BY <1>0, <1>1, <1>8 DEF UpdateText, Past
  <2> QED BY <1>7, <2>1 DEF Fields
<1>9. CASE UpdateRef(i)
  <2>1. \E p : Update(i, "ref", p)
    BY <1>9 DEF UpdateRef
  <2> QED BY <1>7, <2>1 DEF Fields
<1>10. CASE Delete(i)
  <2>1. PastRows(Without(mirror, i, 0)) /\ mirror' = Without(mirror, i, 0)
    BY <1>0, <1>10, PastMade DEF Delete, RowsPast, TypeOK
  <2> QED BY <1>2, <2>1 DEF PastRows, PastRow
<1>11. ASSUME NEW s \in Seqs, Recreate(s, i)
       PROVE  PastRows(mirror)'
  <2> DEFINE e == outbox[s]
             under == [mirror[e.id].vals EXCEPT !["ref"] = Unset]
             fields == Overlay(under, e.fields)
  <2>1. /\ s \in Held(outbox) /\ e \in Entries /\ e.id \in Ids /\ e.fields \in OpFields
        /\ mirror[e.id] # None
    BY <1>11, KeptTypes DEF KeptInv, Recreate, Held, Entries
  <2>2. Text(e) \in Past \cup {Unset}
    BY <2>1 DEF KeptInv, PastOK, PastOps, Ledgers
  <2>3. mirror[e.id].vals \in RowVals /\ mirror[e.id].vals["text"] \in Past
    BY <1>0, <2>1 DEF TypeOK, Mirrors, Rows, RowsPast, PastRows, PastRow
  <2>4. under \in OpFields /\ under["text"] \in Past
    BY <2>3 DEF RowVals, OpFields, Fields
  <2>5. fields \in OpFields /\ fields["text"] \in Past \cup {Unset}
    <3>1. fields["text"] = IF Text(e) # Unset THEN Text(e) ELSE under["text"]
      BY DEF Overlay, Fields, Text
    <3> QED BY <2>1, <2>2, <2>4, <3>1, OverlayTypes
  <2>6. Filled(fields)["text"] \in Past
    BY <1>0, <2>5, PastMade
  <2>7. mirror' = [mirror EXCEPT ![i] = [vals |-> Filled(fields), at |-> 0]]
    BY <1>11 DEF Recreate
  <2> HIDE DEF fields
  <2> QED BY <1>2, <1>5, <2>6, <2>7
<1> QED BY <1>6, <1>8, <1>9, <1>10, <1>11

-----------------------------------------------------------------------------
(* The theorem                                                             *)

(* The invariant holds at the start and is kept by every step.             *)
LEMMA KeptInvariant ==
  Spec => []KeptInv
<1>1. Init => KeptInv
  <2> SUFFICES ASSUME Init
               PROVE  KeptInv
    OBVIOUS
  <2>1. ParkedInv
    BY InitTypes DEF Init, ParkedInv, BatchIsOutbox, NumbersUsed, BatchState,
                     DeletesAccepted, Turned, Held, NoOps
  <2>2. /\ Held(outbox) = {} /\ Held(batch) = {} /\ Held(answers) = {} /\ Held(snap) = {}
        /\ \A k \in Lanes : reqs[k] = None
    BY DEF Init, Held, NoOps
  <2>3. \A ob \in Ledgers \cup {snap} : Held(ob) = {}
    BY <2>2 DEF Ledgers
  <2>4. LedgersOK /\ OneCreate
    BY <2>3 DEF LedgersOK, OneCreate
  <2>5. PastOK
    <3>1. KnownRow.vals["text"] = 0 /\ 0 \in Past
      BY DEF Init, KnownRow, Filled, NoFields, Fields, Past
    <3>2. PastRows(srv) /\ PastRows(mirror)
      BY <3>1 DEF Init, PastRows, PastRow
    <3>3. PastResults(answers) /\ pc \notin {"fetched", "merge"}
      BY DEF Init, NoOps, PastResults
    <3> QED BY <2>2, <2>3, <3>2, <3>3 DEF PastOK, PastOps
  <2>6. RequestCopies /\ BatchCopies /\ TakenOK
    BY <2>2 DEF RequestCopies, BatchCopies, TakenOK, Taken, Lanes
  <2>7. AccountOK
    BY <2>2, SyncAssumption DEF Init, AccountOK, UnmintedOK, NeverThere, Unsent, CreateOwed
  <2>8. EditKept
    BY DEF Init, EditKept
  <2> QED BY <2>1, <2>4, <2>5, <2>6, <2>7, <2>8 DEF KeptInv
<1>2. KeptInv /\ [Next]_vars => KeptInv'
  <2> SUFFICES ASSUME KeptInv, [Next]_vars
               PROVE  KeptInv'
    OBVIOUS
  <2>1. ParkedInv'
    BY ParkedInvStep DEF KeptInv
  <2>2. CASE NoNewOp
    <3>1. RowsPast'
      BY <2>2, PastPhone, PastMirror, PastAccount, PastAnswers
    <3>2. PastOK'
      BY <2>2, <3>1, LedgersKept DEF PastOK, RowsPast
    <3> QED BY <2>1, <2>2, <3>2, LedgersKept, RequestsKept, BatchKept, AccountKept,
               TakenKept, EditsKept DEF KeptInv
  <2>3. ASSUME NEW i \in Ids,
               \/ Create(i) \/ UpdateText(i) \/ UpdateRef(i) \/ Delete(i)
               \/ i \in Places /\ \E s \in Seqs : Recreate(s, i)
        PROVE  KeptInv'
    <3>1. PICK e : Adds(e)
      BY <2>3, EditAdds, RecreateAdds
    <3>2. RowsPast'
      BY <2>3, PastEdits
    <3>3. PastOK'
      BY <3>1, <3>2, AddsKeep DEF PastOK, RowsPast
    <3> QED BY <2>1, <3>1, <3>3, AddsKeep DEF KeptInv
  <2> QED BY <2>2, <2>3 DEF Next, UserStep, NoNewOp, Ids
<1> QED BY <1>1, <1>2, PTL DEF Spec

(* What the user typed last into a row is not lost, in any behaviour:      *)
(* neither to a crash, nor to a lost answer, nor to a request that         *)
(* outlives its timeout, nor to the other device, nor by an edit, a delete *)
(* or a recreation made while the flush or the pull holds copies of the    *)
(* outbox (outbox.ts, flush.ts, deltaPull.ts).                             *)
THEOREM EditsStay ==
  Spec => []EditKept
<1>1. KeptInv => EditKept
  BY DEF KeptInv
<1> QED BY <1>1, KeptInvariant, PTL
=============================================================================
