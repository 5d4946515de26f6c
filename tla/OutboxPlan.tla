------------------------------ MODULE OutboxPlan ------------------------------
(***************************************************************************)
(* The pure core of the phone's sync client (shared/src/syncClient.ts):    *)
(* what an enqueue does to the outbox, which queued ops one batch takes,   *)
(* which conflict receipts are about the phone's own writes, and what a    *)
(* pending op lays over a server row.                                      *)
(*                                                                         *)
(* An outbox is a function from sequence numbers to entries (None where    *)
(* the table holds no row), so FIFO order is the order of the numbers.     *)
(* A row of either entity has two fields: "text", every scalar the user    *)
(* types, and "ref", the place a trip links to.  A value of "text" is the  *)
(* stamp of the edit that wrote it, 0 standing for an empty field, so two  *)
(* edits never write the same value.                                       *)
(***************************************************************************)
EXTENDS Naturals, FiniteSets

CONSTANTS
  Places,     \* ids of places
  Trips,      \* ids of trip logs; a trip's "ref" is one of Places or NoPlace
  NoPlace,    \* the value of "ref" in a row that links to no place
  Unset,      \* a field an op does not carry
  None,       \* an absent row, entry or answer
  MaxSeq,     \* bound: sequence numbers the outbox hands out
  MaxStamp,   \* bound: edits of "text", the other device's included
  BatchMax    \* SYNC_PUSH_MAX_OPS

ASSUME PlanAssumption ==
  /\ MaxSeq \in Nat
  /\ MaxStamp \in Nat
  /\ BatchMax \in Nat \ {0}
  /\ None \notin Places \cup Trips
  /\ NoPlace \notin Places

Ids    == Places \cup Trips
Seqs   == 1 .. MaxSeq
Stamps == 1 .. MaxStamp
Fields == {"text", "ref"}
Values == (0 .. MaxStamp) \cup Places \cup {NoPlace}

ASSUME UnsetAssumption == Unset \notin Values

RowVals  == [Fields -> Values]
OpFields == [Fields -> Values \cup {Unset}]
NoFields == [f \in Fields |-> Unset]

OpKinds  == {"create", "update", "delete"}
OpStates == {"queued", "inflight", "retrying", "blocked", "deadRemote"}

(* One outbox row.  sent is attempts > 0, the only test made of attempts;  *)
(* error and failures are error_json: the kind of the last refusal and the *)
(* tally of the temporary ones.                                            *)
Errors == {"none", "temporary", "final"}

Entries ==
  [op : OpKinds, id : Ids, fields : OpFields, base : OpFields, baseAt : Nat,
   state : OpStates, sent : BOOLEAN, error : Errors, failures : Nat]

Outboxes == [Seqs -> Entries \cup {None}]

ASSUME NoneAssumption == None \notin Entries

NewEntry(op, id, fields, base, baseAt) ==
  [op |-> op, id |-> id, fields |-> fields, base |-> base, baseAt |-> baseAt,
   state |-> "queued", sent |-> FALSE, error |-> "none", failures |-> 0]

Held(ob)             == {s \in Seqs : ob[s] # None}
InState(ob, states)  == {s \in Held(ob) : ob[s].state \in states}
OfRow(ob, i)         == {s \in Held(ob) : ob[s].id = i}
Carries(fields)      == {f \in Fields : fields[f] # Unset}

First(S) == CHOOSE s \in S : \A r \in S : s <= r
Last(S)  == CHOOSE s \in S : \A r \in S : r <= s

(* {...under, ...over}                                                     *)
Overlay(under, over) ==
  [f \in Fields |-> IF over[f] # Unset THEN over[f] ELSE under[f]]

-----------------------------------------------------------------------------
(* planOutboxEnqueue                                                       *)

SameRowQueued(ob, i) == InState(ob, {"queued"}) \cap OfRow(ob, i)

QueuedCreates(ob, i) == {s \in SameRowQueued(ob, i) : ob[s].op = "create"}

(* Mutant: any update of the row will do.                                  *)
IsAnywhere(ob, s) == s \in Held(ob)

IsTail(ob, s) == s \in Held(ob) /\ \A r \in Held(ob) : r <= s

(* The entry an incoming update is folded into: the row's queued create    *)
(* wherever it stands, else the queue's tail when that is an update of the *)
(* same row.                                                               *)
MergeTargets(ob, e) ==
  IF e.op # "update" THEN {}
  ELSE IF QueuedCreates(ob, e.id) # {}
       THEN {s \in QueuedCreates(ob, e.id) :
               \A r \in QueuedCreates(ob, e.id) : s <= r}
       ELSE {s \in SameRowQueued(ob, e.id) :
               IsTail(ob, s) /\ ob[s].op = "update"}

(* A delete takes every queued op of its row with it.                      *)
Dropped(ob, e) == IF e.op = "delete" THEN SameRowQueued(ob, e.id) ELSE {}

(* Mutant: the number of attempts is not looked at.                        *)
CancelsSentCreate(ob, e) == e.op = "delete" /\ QueuedCreates(ob, e.id) # {}

(* A delete whose row has a queued create that was never sent needs no op. *)
CancelsCreate(ob, e) ==
  e.op = "delete" /\ \E s \in QueuedCreates(ob, e.id) : ~ob[s].sent

Appends(ob, e) == MergeTargets(ob, e) = {} /\ ~CancelsCreate(ob, e)

(* Mutant: the earlier value stays.                                        *)
MergedEarlierWins(old, e) ==
  [old EXCEPT !.fields = Overlay(e.fields, old.fields),
              !.base   = Overlay(e.base, old.base)]

(* appendOp's merge: later fields win, the earliest base of a field stays. *)
Merged(old, e) ==
  [old EXCEPT !.fields = Overlay(old.fields, e.fields),
              !.base   = Overlay(e.base, old.base)]

AfterEnqueue(ob, next, e) ==
  [s \in Seqs |->
     IF s \in Dropped(ob, e) THEN None
     ELSE IF s \in MergeTargets(ob, e) THEN Merged(ob[s], e)
     ELSE IF s = next /\ Appends(ob, e) THEN e
     ELSE ob[s]]

-----------------------------------------------------------------------------
(* selectFlushBatch                                                        *)

(* pushOpDependencies (shared/src/sync.ts)                                 *)
Dependencies(e) ==
  (IF e.op = "create" THEN {} ELSE {e.id}) \cup ({e.fields["ref"]} \cap Places)

(* A delete of the blocked row itself is how a parked lineage is discarded.*)
WaitsFor(e, blocked) ==
  \E d \in Dependencies(e) \cap blocked : ~(e.op = "delete" /\ d = e.id)

BlockedIds(ob) ==
  LET parked == {ob[s].id : s \in InState(ob, {"blocked", "deadRemote", "retrying"})}
      upTo[n \in 0 .. MaxSeq] ==
        IF n = 0 THEN parked
        ELSE IF n \in InState(ob, {"queued"}) /\ WaitsFor(ob[n], upTo[n - 1])
             THEN upTo[n - 1] \cup {ob[n].id}
             ELSE upTo[n - 1]
  IN upTo

Ready(ob) ==
  LET blocked == BlockedIds(ob)
  IN {s \in InState(ob, {"queued"}) : ~WaitsFor(ob[s], blocked[s - 1])}

SelectFlushBatch(ob) ==
  LET ready == Ready(ob)
  IN {s \in ready : Cardinality({r \in ready : r <= s}) <= BatchMax}

-----------------------------------------------------------------------------
(* filterSelfConflicts, collectDirtyFields                                 *)

(* Mutant: the value the edit was made over counts as a conflict.          *)
FilterOwnWritesOnly(receipts, base, own) ==
  [f \in Fields |-> IF receipts[f] = own[f] THEN Unset ELSE receipts[f]]

(* A receipt survives when the replaced value is neither the value the     *)
(* edit was made over nor the one it wrote.                                *)
FilterSelfConflicts(receipts, base, own) ==
  [f \in Fields |->
     IF receipts[f] = base[f] \/ receipts[f] = own[f] THEN Unset ELSE receipts[f]]

(* The row's pending fields, the latest op winning each.                   *)
CollectDirty(ob, i) ==
  LET pending(f) == {s \in OfRow(ob, i) : /\ ob[s].state # "deadRemote"
                                          /\ ob[s].op # "delete"
                                          /\ ob[s].fields[f] # Unset}
  IN [f \in Fields |->
        IF pending(f) = {} THEN Unset
        ELSE ob[Last(pending(f))].fields[f]]

=============================================================================
