------------------------------ MODULE DeltaFeed ------------------------------
(***************************************************************************)
(* GET /sync/delta (api/src/routes/sync.ts) and the pull that follows it   *)
(* page by page (mobile/src/sync/deltaPull.ts): a phone asks for what has  *)
(* changed since its cursor; the rows of each entity and at last the       *)
(* tombstones fill a page in the order of their stamps; a page that is not *)
(* the last says where each entity goes on, the last moves the watermark.  *)
(*                                                                         *)
(* A page is no snapshot: each entity is read in a query of its own while  *)
(* others write.  A write is stamped in its transaction and seen when that *)
(* commits, which may be later than stamps it comes before.  A pull may    *)
(* break off at any page and go on whenever the next one runs.  PhoneSync  *)
(* has the merge with pending edits; here a row is as new as the account's *)
(* or older.  Left out: epochs, and the rows of a type the client cannot   *)
(* read.  Of the tombstones of a row only the last is kept.                *)
(***************************************************************************)
EXTENDS Integers, FiniteSets

CONSTANTS
  Ids,        \* rows a phone may hold, numbered as their ids sort
  Kinds,      \* the number of entities, in the order they fill a page
  KindOf,     \* the entity of a row
  Cap,        \* the rows of an entity a page takes at most
  Of,         \* of the rows of another account, the place they are shared by
  Limit,      \* the rows of a page
  Overlap,    \* SYNC_OVERLAP_MS
  TxLife,     \* how long a transaction lasts at most
  TTL,        \* SYNC_TOMBSTONE_TTL_MS
  MaxTime, MaxWrites, MaxLosses

ASSUME FeedAssumption ==
  /\ Ids \subseteq Nat \ {0} /\ IsFiniteSet(Ids)
  /\ Kinds \in Nat \ {0}
  /\ KindOf \in [Ids -> 1..Kinds]
  /\ Cap \in [1..Kinds -> Nat \ {0}]
  /\ DOMAIN Of \subseteq Ids
  /\ \A i \in DOMAIN Of : Of[i] \in DOMAIN Of /\ Of[Of[i]] = Of[i]
  /\ Limit \in Nat \ {0}
  /\ TxLife \in Nat /\ Overlap \in Nat /\ TxLife < Overlap
  /\ TTL \in Nat /\ Overlap < TTL
  /\ {MaxTime, MaxWrites, MaxLosses} \subseteq Nat
  /\ Overlap + 2 \leq MaxTime

VARIABLES
  now,
  row,        \* what the phone's account may see: live, and stamped when
  tx,         \* the transaction that writes a row
  tomb,       \* sync_tombstones: when a row went, or 0
  cursor,     \* the phone's: the watermark, and where each entity goes on
  mirror,     \* the phone's copies
  page,       \* the request under way
  writes, losses,
  began,      \* ghost: when the first page of this pull was asked for
  slow,       \* ghost: a pull took too long
  buried,     \* ghost: rows the phone had right and was told to drop
  withheld    \* ghost: rows that came into view with a place, as old as they were

ghost  == <<began, slow, buried, withheld>>
server == <<row, tx, tomb>>
phone  == <<cursor, mirror>>
vars   == <<now, server, phone, page, writes, losses, ghost>>

Shared    == DOMAIN Of
Places    == {i \in Shared : Of[i] = i}
Rides(i)  == i \in Shared \ Places
Riders(p) == {i \in Shared \ {p} : Of[i] = p}  \* its linked route, its photos

TombKind == Kinds + 1  \* tombstones close the budget order
NoKey    == <<0, 0>>
NoKeys   == [k \in 1..TombKind |-> NoKey]
Start    == [ts |-> 0, keys |-> NoKeys]
NoTx     == [op |-> "none", stamp |-> 0]
NoPage   == [at |-> 0, time |-> 0, visible |-> {}, left |-> 0, more |-> FALSE,
             next |-> NoKeys, rows |-> [i \in Ids |-> "none"], drops |-> {}]

Init ==
  /\ now = Overlap + 2
  /\ row = [i \in Ids |-> [live |-> TRUE, stamp |-> 1]]
  /\ tx = [i \in Ids |-> NoTx]
  /\ tomb = [i \in Ids |-> 0]
  /\ cursor = Start
  /\ mirror = [i \in Ids |-> "absent"]
  /\ page = NoPage
  /\ writes = 0 /\ losses = 0
  /\ began = 0 /\ slow = FALSE /\ buried = {} /\ withheld = {}

-----------------------------------------------------------------------------
(* The account                                                             *)

(* An edit, or a share, which touches the place it shows; a delete, or the *)
(* end of a share.  A deleted id is never used again.                      *)
Begin(i) ==
  /\ writes < MaxWrites
  /\ tx[i] = NoTx
  /\ \E op \in {"put", "drop"} :
       /\ op = "drop" => row[i].live /\ ~Rides(i)
       /\ op = "put" => row[i].live \/ i \in Places
       /\ tx' = [tx EXCEPT ![i] = [op |-> op, stamp |-> now]]
  /\ writes' = writes + 1
  /\ UNCHANGED <<now, row, tomb, phone, page, losses, ghost>>

Older(copy) == IF copy = "fresh" THEN "stale" ELSE copy

Outdate(some) ==
  /\ mirror' = [i \in Ids |-> IF i \in some THEN Older(mirror[i]) ELSE mirror[i]]
  /\ page' = [page EXCEPT !.rows = [i \in Ids |-> IF i \in some THEN Older(@[i]) ELSE @[i]]]

(* A share is a put of the place: what rides with it comes into view, and  *)
(* keeps its stamp.  What rides with a place is seen while the place is.   *)
CommitPut(i) ==
  LET shown == IF i \in Places /\ ~row[i].live THEN Riders(i) ELSE {} IN
  /\ tx[i].op = "put"
  /\ row' = [k \in Ids |-> IF k = i THEN [live |-> Rides(i) => row[Of[i]].live,
                                         stamp |-> tx[i].stamp]
                           ELSE IF k \in shown THEN [row[k] EXCEPT !.live = TRUE] ELSE row[k]]
  /\ withheld' = (withheld \union shown) \ {i}
  /\ Outdate({i} \union shown)
  /\ UNCHANGED tomb

(* The rows and their tombstones go together (writeTombstones)             *)
CommitDrop(i) ==
  LET gone == {i} \union (IF i \in Places THEN Riders(i) ELSE {}) IN
  /\ tx[i].op = "drop"
  /\ row' = [k \in Ids |-> IF k \in gone THEN [row[k] EXCEPT !.live = FALSE] ELSE row[k]]
  /\ tomb' = [k \in Ids |-> IF k \in gone THEN tx[i].stamp ELSE tomb[k]]
  /\ withheld' = withheld \ gone
  /\ Outdate(gone)

Commit(i) ==
  /\ CommitPut(i) \/ CommitDrop(i)
  /\ tx' = [tx EXCEPT ![i] = NoTx]
  /\ UNCHANGED <<now, cursor, writes, losses, began, slow, buried>>

Swept(i) == tomb[i] < now - TTL

sweepSyncTombstones ==
  /\ \E i \in Ids : tomb[i] # 0 /\ Swept(i)
  /\ tomb' = [i \in Ids |-> IF Swept(i) THEN 0 ELSE tomb[i]]
  /\ UNCHANGED <<now, row, tx, phone, page, writes, losses, ghost>>

Tick ==
  /\ now < MaxTime
  /\ \A i \in Ids : tx[i] # NoTx => now - tx[i].stamp < TxLife
  /\ now' = now + 1
  /\ UNCHANGED <<server, phone, page, writes, losses, ghost>>

-----------------------------------------------------------------------------
(* A page                                                                  *)

pastTombstoneHorizon == cursor.ts # 0 /\ cursor.ts < now - TTL

(* The cursor is too old for the tombstones that are left: the mirror is   *)
(* wiped and the pull begins at the beginning.                             *)
Reset ==
  /\ page.at = 0
  /\ pastTombstoneHorizon
  /\ cursor' = Start
  /\ mirror' = [i \in Ids |-> "absent"]
  /\ began' = 0 /\ slow' = FALSE /\ buried' = {} /\ withheld' = {}
  /\ UNCHANGED <<now, server, page, writes, losses>>

(* serverTime and what is shared with the caller are read first            *)
Ask ==
  /\ page.at = 0
  /\ ~pastTombstoneHorizon
  /\ page' = [NoPage EXCEPT !.at = 1, !.time = now, !.left = Limit,
                            !.visible = {i \in Shared : row[i].live}]
  /\ began' = IF cursor.keys = NoKeys THEN now ELSE began
  /\ UNCHANGED <<now, server, phone, writes, losses, slow, buried, withheld>>

(* keysetWhere                                                             *)
Later(stamp, i, key) == stamp > key[1] \/ (stamp = key[1] /\ i > key[2])

Wanted(stamp, i, key) ==
  IF key = NoKey THEN stamp > cursor.ts ELSE Later(stamp, i, key)

(* The n earliest of some rows, and the key of the last of them            *)
Ahead(stampOf, i, k) == Later(stampOf[k], k, <<stampOf[i], i>>)

First(n, some, stampOf) ==
  {i \in some : Cardinality({k \in some : Ahead(stampOf, k, i)}) < n}

KeyAfter(some, stampOf, key) ==
  IF some = {} THEN key
  ELSE LET last == CHOOSE i \in some : \A k \in some : ~Ahead(stampOf, i, k)
       IN  <<stampOf[last], last>>

Stamps == [i \in Ids |-> row[i].stamp]

Changed(k) ==
  {i \in Ids : /\ KindOf[i] = k
               /\ Wanted(row[i].stamp, i, cursor.keys[k])
               /\ IF i \in Shared THEN i \in page.visible ELSE row[i].live}

\* mutant: an entity that drained says nothing of where it goes on
FillForgetful ==
  /\ page.at \in 1..Kinds
  /\ LET k      == page.at
         budget == IF page.left < Cap[k] THEN page.left ELSE Cap[k]
         spent  == page.more \/ budget = 0
         got    == IF spent THEN {} ELSE First(budget, Changed(k), Stamps)
     IN  page' = [page EXCEPT
           !.at = k + 1,
           !.left = @ - Cardinality(got),
           !.more = spent \/ got # Changed(k),
           !.next[k] = IF spent THEN cursor.keys[k]
                       ELSE IF got # Changed(k) THEN KeyAfter(got, Stamps, NoKey) ELSE NoKey,
           !.rows = [i \in Ids |-> IF i \notin got THEN @[i]
                                   ELSE IF row[i].live THEN "fresh" ELSE "stale"]]
  /\ UNCHANGED <<now, server, phone, writes, losses, ghost>>

(* fill: what the budget takes of one entity.  An entity that drained says *)
(* where it goes on as well, and one the budget did not reach keeps what   *)
(* it had.                                                                 *)
Fill ==
  /\ page.at \in 1..Kinds
  /\ LET k      == page.at
         budget == IF page.left < Cap[k] THEN page.left ELSE Cap[k]
         spent  == page.more \/ budget = 0
         got    == IF spent THEN {} ELSE First(budget, Changed(k), Stamps)
     IN  page' = [page EXCEPT
           !.at = k + 1,
           !.left = @ - Cardinality(got),
           !.more = spent \/ got # Changed(k),
           !.next[k] = KeyAfter(got, Stamps, cursor.keys[k]),
           !.rows = [i \in Ids |-> IF i \notin got THEN @[i]
                                   ELSE IF row[i].live THEN "fresh" ELSE "stale"]]
  /\ UNCHANGED <<now, server, phone, writes, losses, ghost>>

(* One whose row is on this very page is not sent                          *)
Tombstones ==
  /\ page.at = TombKind
  /\ LET owed  == {i \in Ids : tomb[i] # 0 /\ Wanted(tomb[i], i, cursor.keys[TombKind])}
         spent == page.more \/ page.left = 0
         got   == IF spent THEN {} ELSE First(page.left, owed, tomb)
     IN  page' = [page EXCEPT
           !.at = TombKind + 1,
           !.more = spent \/ got # owed,
           !.next[TombKind] = KeyAfter(got, tomb, cursor.keys[TombKind]),
           !.drops = {i \in got : page.rows[i] = "none"}]
  /\ UNCHANGED <<now, server, phone, writes, losses, ghost>>

\* mutant: the watermark is the page's own time
NextCursorExact ==
  IF page.more THEN [ts |-> cursor.ts, keys |-> page.next]
  ELSE [ts |-> page.time, keys |-> NoKeys]

(* The watermark moves on the last page, to before the page's own time     *)
NextCursor ==
  IF page.more THEN [ts |-> cursor.ts, keys |-> page.next]
  ELSE [ts |-> page.time - Overlap, keys |-> NoKeys]

\* mutant: a row the page does not carry is written all the same
ApplyAll ==
  /\ page.at = TombKind + 1
  /\ page' = NoPage
  /\ mirror' = [i \in Ids |-> IF i \in page.drops THEN "absent" ELSE page.rows[i]]
  /\ cursor' = NextCursor
  /\ UNCHANGED <<now, server, writes, losses, ghost>>

(* applyPage: the rows, then the tombstones, then the cursor, in one       *)
(* transaction                                                             *)
Apply ==
  /\ page.at = TombKind + 1
  /\ page' = NoPage
  /\ mirror' = [i \in Ids |-> IF i \in page.drops THEN "absent"
                              ELSE IF page.rows[i] # "none" THEN page.rows[i] ELSE mirror[i]]
  /\ cursor' = NextCursor
  /\ slow' = (slow \/ pastTombstoneHorizon
                \/ (~page.more /\ page.time - began >= Overlap - TxLife))
  /\ buried' = (buried \ {i \in Ids : page.rows[i] # "none"})
                 \union {i \in page.drops : mirror[i] = "fresh"}
  /\ began' = IF page.more THEN began ELSE 0
  /\ UNCHANGED <<now, server, writes, losses, withheld>>

(* The request fails, or the app dies before it has applied the answer     *)
Lose ==
  /\ page.at # 0
  /\ losses < MaxLosses
  /\ losses' = losses + 1
  /\ page' = NoPage
  /\ began' = IF cursor.keys = NoKeys THEN 0 ELSE began
  /\ UNCHANGED <<now, server, phone, writes, slow, buried, withheld>>

Pull == Reset \/ Ask \/ Fill \/ Tombstones \/ Apply

Next ==
  \/ \E i \in Ids : Begin(i) \/ Commit(i)
  \/ Pull \/ Lose
  \/ sweepSyncTombstones \/ Tick

(* The sync engine sees to it that a pull is always followed by another    *)
Fairness == WF_vars(Pull) /\ \A i \in Ids : WF_vars(Commit(i))

Spec == Init /\ [][Next]_vars /\ Fairness

-----------------------------------------------------------------------------
(* Properties                                                              *)

Time == 0..MaxTime
Keys == [1..TombKind -> Time \X (Ids \union {0})]
Copies == {"none", "stale", "fresh"}

TypeOK ==
  /\ now \in Time
  /\ row \in [Ids -> [live : BOOLEAN, stamp : Time]]
  /\ tx \in [Ids -> [op : {"none", "put", "drop"}, stamp : Time]]
  /\ tomb \in [Ids -> Time]
  /\ cursor \in [ts : Time, keys : Keys]
  /\ mirror \in [Ids -> {"absent", "stale", "fresh"}]
  /\ page \in [at : 0..TombKind + 1, time : Time, visible : SUBSET Shared, left : 0..Limit,
               more : BOOLEAN, next : Keys, rows : [Ids -> Copies], drops : SUBSET Ids]
  /\ writes \in 0..MaxWrites /\ losses \in 0..MaxLosses
  /\ began \in Time /\ slow \in BOOLEAN
  /\ buried \subseteq Ids /\ withheld \subseteq Ids

Differs(i) == mirror[i] = "stale" \/ (row[i].live /\ mirror[i] = "absent")

(* What the phone lacks lies after its watermark, where the next pull will *)
(* find it, or the next pull begins anew.                                  *)
Due(i) ==
  \/ IF row[i].live THEN row[i].stamp > cursor.ts ELSE tomb[i] > cursor.ts
  \/ pastTombstoneHorizon

PullOver == cursor.keys = NoKeys

(* No change is skipped: after a pull, whatever was written, deleted,      *)
(* shared and unshared between and under its queries is on the phone or    *)
(* still due, however the pages were cut, lost and asked for again.  Not   *)
(* so if the pull took longer than the overlap covers, nor of rows the     *)
(* phone was told to drop by a tombstone from before they were shared      *)
(* again, nor of what came into view with a place (SharesComeWhole).       *)
NothingSkipped ==
  PullOver /\ ~slow => \A i \in Ids \ (buried \union withheld) : Differs(i) => Due(i)

(* Once nothing is written any more, the pages come to an end and the      *)
(* phone has what the account has.                                         *)
CatchesUp == <>[](slow \/ \A i \in Ids \ (buried \union withheld) : ~Differs(i))

(* A grant moves the watermark of all it shows                             *)
SharesComeWhole ==
  PullOver /\ ~slow => \A i \in Ids \ buried : Differs(i) => Due(i)

=============================================================================
